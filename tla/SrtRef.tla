------------------------------- MODULE SrtRef -------------------------------
(***************************************************************************)
(* The reference models of the floating-point division and square root     *)
(* units, tb/stage5/ref: srt_divide.py and srt_sqrt.py, called with the    *)
(* operands of gen_fdiv_vectors.py and gen_fsqrt_vectors.py.  The vectors  *)
(* they produce are what the RTL is tested against, so an error here hides *)
(* one there.                                                              *)
(*                                                                         *)
(* The code has 2 * H = 52 mantissa bits and 56 or 27 digits; one step is  *)
(* one iteration of a loop.                                                *)
(***************************************************************************)
EXTENDS Integers

CONSTANTS H,            \* half the number of mantissa bits
          Digits        \* the digit counts n of the two formats

ASSUME SrtAssumption == H \in Nat \ {0} /\ Digits \subseteq Nat \ {0}

\* Two laws of powers that the provers do not know, for the exponents in use.
ASSUME SrtPowerAssumption ==
    \A d \in Digits : \A j \in 0 .. 2 * (d + H) :
        /\ 2^j \in Nat \ {0}
        /\ \A k \in 0 .. (2 * (d + H) - j) : 2^(j + k) = 2^j * 2^k

VARIABLES fn,           \* "idle", "div", "sqrt" or "done"
          a, b, n,      \* the arguments
          i,            \* iterations done
          rem, q,       \* the partial remainder and the digits so far
          ret,          \* the pair returned
          w             \* history: the part of the dividend or radicand used so far

srtVars == <<fn, a, b, n, i, rem, q, ret, w>>

One == 2^(2 * H)        \* the hidden bit
NoRet == [q |-> -1, sticky |-> FALSE]

SrtInit ==
    /\ fn = "idle"
    /\ a = 0 /\ b = 0 /\ n = 0 /\ i = 0
    /\ rem = 0 /\ q = 0 /\ w = 0
    /\ ret = NoRet

\* emit of gen_fdiv_vectors: both operands have the hidden bit set, which makes
\* a < 2 * b.  srt_divide then computes the integer digit.
EmitDiv ==
    /\ fn = "idle" /\ fn' = "div"
    /\ a' \in One .. (2 * One - 1) /\ b' \in One .. (2 * One - 1) /\ n' \in Digits
    /\ q' = IF a' >= b' THEN 1 ELSE 0
    /\ rem' = IF a' >= b' THEN a' - b' ELSE a'
    /\ w' = a'
    /\ UNCHANGED <<i, ret>>

MutDivDigit ==
    /\ fn = "div" /\ i < n - 1
    /\ q' = 2 * q + (IF 2 * rem > b THEN 1 ELSE 0)
    /\ rem' = IF 2 * rem > b THEN 2 * rem - b ELSE 2 * rem
    /\ i' = i + 1 /\ w' = 2 * w
    /\ UNCHANGED <<fn, a, b, n, ret>>

\* One fractional digit.
DivDigit ==
    /\ fn = "div" /\ i < n - 1
    /\ q' = 2 * q + (IF 2 * rem >= b THEN 1 ELSE 0)
    /\ rem' = IF 2 * rem >= b THEN 2 * rem - b ELSE 2 * rem
    /\ i' = i + 1 /\ w' = 2 * w
    /\ UNCHANGED <<fn, a, b, n, ret>>

DivReturn ==
    /\ fn = "div" /\ i = n - 1
    /\ ret' = [q |-> q, sticky |-> rem # 0]
    /\ fn' = "done"
    /\ UNCHANGED <<a, b, n, i, rem, q, w>>

\* emit of gen_fsqrt_vectors: an even or an odd exponent.
EmitSqrt ==
    /\ fn = "idle" /\ fn' = "sqrt"
    /\ a' \in One .. (4 * One - 1) /\ n' \in Digits
    /\ UNCHANGED <<b, i, rem, q, ret, w>>

total == n + H
a_padded == a * 2^(2 * total - (2 * H + 2))
pair == (a_padded \div 2^(2 * (total - 1 - i))) % 4

MutRoot(p) ==
    IF 4 * rem + p >= 4 * q
    THEN rem' = 4 * rem + p - 4 * q /\ q' = 2 * q + 1
    ELSE rem' = 4 * rem + p /\ q' = 2 * q

\* The trial subtrahend (q << 2) | 1 against the remainder with the next pair.
Root(p) ==
    IF 4 * rem + p >= 4 * q + 1
    THEN rem' = 4 * rem + p - (4 * q + 1) /\ q' = 2 * q + 1
    ELSE rem' = 4 * rem + p /\ q' = 2 * q

SqrtDigit ==
    /\ fn = "sqrt" /\ i < total
    /\ Root(pair)
    /\ i' = i + 1 /\ w' = 4 * w + pair
    /\ UNCHANGED <<fn, a, b, n, ret>>

MutSqrtReturn ==
    /\ fn = "sqrt" /\ i = total
    /\ ret' = [q |-> q \div 2^H, sticky |-> q % 2^H # 0]
    /\ fn' = "done"
    /\ UNCHANGED <<a, b, n, i, rem, q, w>>

\* The digits that mirror sqrt(2^52) = 2^26 are cut off and go into sticky.
SqrtReturn ==
    /\ fn = "sqrt" /\ i = total
    /\ ret' = [q |-> q \div 2^H, sticky |-> q % 2^H # 0 \/ rem # 0]
    /\ fn' = "done"
    /\ UNCHANGED <<a, b, n, i, rem, q, w>>

SrtDone == fn = "done" /\ UNCHANGED srtVars

SrtNext == EmitDiv \/ DivDigit \/ DivReturn \/ EmitSqrt \/ SqrtDigit \/ SqrtReturn \/ SrtDone
SrtSpec == SrtInit /\ [][SrtNext]_srtVars

-----------------------------------------------------------------------------
(* Properties.                                                             *)

\* At every digit of a division, quotient and remainder are those of the part of
\* the dividend used so far: no digit is too large (the remainder never becomes
\* negative) and none too small (it stays below the divisor).
SrtDivides == fn = "div" => q * b + rem = w /\ rem \in 0 .. (b - 1)

\* At every digit of a square root, q is the integer root of the part of the
\* radicand used so far and the remainder is the rest, though the code never
\* squares anything.
SrtRoots == fn = "sqrt" => q * q + rem = w /\ rem \in 0 .. (2 * q)

\* The returned pair is the exact quotient, or root, cut off after n digits, and
\* sticky says whether something was cut off; the root's top digit is 1.
SrtAnswers ==
    fn = "done" =>
        IF b # 0
        THEN /\ ret.q = (a * 2^(n - 1)) \div b
             /\ ret.sticky <=> (a * 2^(n - 1)) % b # 0
        ELSE LET x == a * 2^(2 * n - 2)
             IN  /\ ret.q \in 2^(n - 1) .. (2^n - 1)
                 /\ ret.q * ret.q * One <= x /\ x < (ret.q + 1) * (ret.q + 1) * One
                 /\ ret.sticky <=> ret.q * ret.q * One # x

=============================================================================
