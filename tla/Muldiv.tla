-------------------------------- MODULE Muldiv ------------------------------
(***************************************************************************)
(* kronos_muldiv: the multiply and divide unit, for any even width XLEN.   *)
(* A register is the natural number its bits spell; the sign-extended      *)
(* multiplier operands and products are the signed integers they spell.    *)
(* A step is one rising clock edge at which the FSM moves.                 *)
(***************************************************************************)
EXTENDS Integers

CONSTANTS XLEN,     \* operand width
          MaxOps,   \* bound on the operations started
          Later     \* operands of the operations after the first

INST_W == XLEN \div 2              \* width of the W-suffix operations
PP_W == XLEN + INST_W + 2          \* width of a partial product
PROD_W == 2 * XLEN + 2             \* width of the product

ASSUME XlenAssumption == XLEN \in Nat \ {0} /\ XLEN = 2 * INST_W
\* Two laws of powers that the provers do not know, for the widths in use.
ASSUME PowerAssumption ==
  \A m, n \in 0 .. PROD_W : 2 ^ m \in Nat \ {0} /\ 2 ^ (m + n) = 2 ^ m * 2 ^ n
ASSUME BoundsAssumption == MaxOps \in Nat /\ Later \subseteq 0 .. 2 ^ XLEN - 1

MulOps == {"MUL", "MULH", "MULHSU", "MULHU"}
DivOps == {"DIV", "DIVU", "REM", "REMU"}
Word == 0 .. 2 ^ XLEN - 1

\* What the decoder lets through: the W forms of the high halves are illegal.
Request == [op : MulOps \cup DivOps, a : Word, b : Word, word : {FALSE}]
           \cup [op : {"MUL"} \cup DivOps, a : Word, b : Word, word : {TRUE}]

VARIABLES
  state_q, result_q, op_q, word_op_q,
  mul_q,          \* mul_a65_q, mul_b65_q
  pp_q,           \* pp_lo_q, pp_hi_q
  mul_product_q,
  div_q,          \* dividend, remainder, quotient, abs_b, count and sign flags
  req, cycles, ops   \* the request served, its age in cycles, how many started

vars == <<state_q, result_q, op_q, word_op_q, mul_q, pp_q, mul_product_q, div_q, req, cycles, ops>>

Init == /\ state_q = "IDLE" /\ result_q = 0 /\ op_q = "MUL" /\ word_op_q = FALSE
        /\ mul_q = [a |-> 0, b |-> 0]
        /\ pp_q = [lo |-> 0, hi |-> 0]
        /\ mul_product_q = 0
        /\ div_q = [dividend |-> 0, remainder |-> 0, quotient |-> 0, abs_b |-> 0, count |-> 0,
                    div_neg |-> FALSE, rem_neg |-> FALSE, is_rem |-> FALSE]
        /\ req = [op |-> "MUL", a |-> 0, b |-> 0, word |-> FALSE]
        /\ cycles = 0 /\ ops = 0

-----------------------------------------------------------------------------
(* Bit vectors. *)

Msb(x) == x >= 2 ^ (XLEN - 1)
Signed(x, n) == IF x >= 2 ^ (n - 1) THEN x - 2 ^ n ELSE x
Wrap(x, n) == Signed(x % 2 ^ n, n)
Negate(x) == (2 ^ XLEN - x) % 2 ^ XLEN
SignExtend(x) == Signed(x % 2 ^ INST_W, INST_W) % 2 ^ XLEN

\* The operand: the low half, extended, for a W operation.
Effective(x, sgn, word) ==
  IF ~word THEN x ELSE IF sgn THEN SignExtend(x) ELSE x % 2 ^ INST_W

Abs(x, sgn) == IF sgn /\ Msb(x) THEN Negate(x) ELSE x

-----------------------------------------------------------------------------
(* Acceptance of a request, in IDLE. *)

\* A mutant of Start: only a multiplication latches the width.
StartLatchesMulOnly(r) ==
  /\ word_op_q' = IF r.op \in MulOps THEN r.word ELSE word_op_q
  /\ req' = r
  /\ cycles' = 1
  /\ ops' = ops + 1

Start(r) ==
  /\ word_op_q' = r.word
  /\ req' = r
  /\ cycles' = 1
  /\ ops' = ops + 1

mul_signed_a(op) == op \in {"MUL", "MULH", "MULHSU"}
mul_signed_b(op) == op \in {"MUL", "MULH"}

\* The 65-bit multiplier operand.
Extended(x, sgn, word) ==
  LET e == Effective(x, sgn, word) IN IF sgn THEN Signed(e, XLEN) ELSE e

StartMul(r) ==
  /\ Start(r) /\ r.op \in MulOps
  /\ mul_q' = [a |-> Extended(r.a, mul_signed_a(r.op), r.word),
               b |-> Extended(r.b, mul_signed_b(r.op), r.word)]
  /\ op_q' = r.op
  /\ state_q' = "MUL_IN"
  /\ UNCHANGED <<result_q, pp_q, mul_product_q, div_q>>

is_signed_div(op) == op \in {"DIV", "REM"}
a_eff(r) == Effective(r.a, is_signed_div(r.op), r.word)
b_eff(r) == Effective(r.b, is_signed_div(r.op), r.word)
int_min(word) == IF word THEN 2 ^ XLEN - 2 ^ (INST_W - 1) ELSE 2 ^ (XLEN - 1)

\* INT_MIN divided by -1.
ov(r) == is_signed_div(r.op) /\ a_eff(r) = int_min(r.word) /\ b_eff(r) = 2 ^ XLEN - 1

\* Division by zero and the signed overflow skip the iteration.
early_result(r) ==
  IF b_eff(r) = 0
  THEN IF r.op \in {"REM", "REMU"} THEN (IF r.word THEN SignExtend(r.a) ELSE r.a)
       ELSE 2 ^ XLEN - 1
  ELSE IF r.op = "DIV" THEN int_min(r.word) ELSE 0

StartDivEarly(r) ==
  /\ Start(r) /\ r.op \in DivOps
  /\ b_eff(r) = 0 \/ ov(r)
  /\ result_q' = early_result(r)
  /\ state_q' = "DONE"
  /\ UNCHANGED <<op_q, mul_q, pp_q, mul_product_q, div_q>>

\* A W dividend moves to the upper half, where the shift takes its bits.
dividend(r) == LET abs_a == Abs(a_eff(r), is_signed_div(r.op))
               IN  IF r.word THEN (abs_a % 2 ^ INST_W) * 2 ^ INST_W ELSE abs_a

\* A mutant of iterations: a W division runs for the full width.
FullWidth(r) == XLEN
iterations(r) == IF r.word THEN INST_W ELSE XLEN

StartDiv(r) ==
  /\ Start(r) /\ r.op \in DivOps
  /\ b_eff(r) # 0 /\ ~ov(r)
  /\ div_q' = [dividend |-> dividend(r), remainder |-> 0, quotient |-> 0,
               abs_b |-> Abs(b_eff(r), is_signed_div(r.op)),
               count |-> iterations(r),
               div_neg |-> r.op = "DIV" /\ Msb(a_eff(r)) # Msb(b_eff(r)),
               rem_neg |-> r.op = "REM" /\ Msb(a_eff(r)),
               is_rem |-> r.op \in {"REM", "REMU"}]
  /\ state_q' = "COMPUTE"
  /\ UNCHANGED <<result_q, op_q, mul_q, pp_q, mul_product_q>>

-----------------------------------------------------------------------------
(* The multiplier pipeline. *)

Older == cycles' = cycles + 1 /\ UNCHANGED <<word_op_q, req, ops>>

\* Two partial products, of the signed high and the unsigned low half of b.
MulIn ==
  /\ state_q = "MUL_IN"
  /\ pp_q' = [lo |-> Wrap(mul_q.a * (mul_q.b % 2 ^ INST_W), PP_W),
              hi |-> Wrap(mul_q.a * (mul_q.b \div 2 ^ INST_W), PP_W)]
  /\ state_q' = "MUL_MID"
  /\ Older
  /\ UNCHANGED <<result_q, op_q, mul_q, mul_product_q, div_q>>

MulMid ==
  /\ state_q = "MUL_MID"
  /\ mul_product_q' = Wrap(pp_q.hi * 2 ^ INST_W + pp_q.lo, PROD_W)
  /\ state_q' = "MUL_OUT"
  /\ Older
  /\ UNCHANGED <<result_q, op_q, mul_q, pp_q, div_q>>

mul_sel == IF op_q = "MUL" THEN mul_product_q % 2 ^ XLEN
           ELSE (mul_product_q \div 2 ^ XLEN) % 2 ^ XLEN

MulOut ==
  /\ state_q = "MUL_OUT"
  /\ result_q' = IF word_op_q THEN SignExtend(mul_sel) ELSE mul_sel
  /\ state_q' = "DONE"
  /\ Older
  /\ UNCHANGED <<op_q, mul_q, pp_q, mul_product_q, div_q>>

-----------------------------------------------------------------------------
(* The restoring divider: one quotient bit per cycle. *)

rem_shifted == 2 * (div_q.remainder % 2 ^ XLEN) + (IF Msb(div_q.dividend) THEN 1 ELSE 0)
rem_sub == (rem_shifted - div_q.abs_b) % 2 ^ (XLEN + 1)

\* A mutant of no_borrow: strict, so an exact fit is not subtracted.
NoBorrowStrict == rem_sub < 2 ^ XLEN /\ rem_sub # 0
no_borrow == rem_sub < 2 ^ XLEN

final_quot == (2 * div_q.quotient + (IF no_borrow THEN 1 ELSE 0)) % 2 ^ XLEN
final_rem == (IF no_borrow THEN rem_sub ELSE rem_shifted) % 2 ^ XLEN

pre_result == IF div_q.is_rem THEN (IF div_q.rem_neg THEN Negate(final_rem) ELSE final_rem)
              ELSE IF div_q.div_neg THEN Negate(final_quot) ELSE final_quot

Compute ==
  /\ state_q = "COMPUTE"
  /\ div_q' = [div_q EXCEPT !.remainder = final_rem, !.quotient = final_quot,
                            !.dividend = (2 * @) % 2 ^ XLEN, !.count = @ - 1]
  /\ IF div_q.count = 1
     THEN /\ result_q' = IF word_op_q THEN SignExtend(pre_result) ELSE pre_result
          /\ state_q' = "DONE"
     ELSE UNCHANGED <<result_q, state_q>>
  /\ Older
  /\ UNCHANGED <<op_q, mul_q, pp_q, mul_product_q>>

\* The result is offered for one cycle.
Done == /\ state_q = "DONE"
        /\ state_q' = "IDLE"
        /\ UNCHANGED <<result_q, op_q, word_op_q, mul_q, pp_q, mul_product_q, div_q, req,
                       cycles, ops>>

\* A cycle without a request.
NoRequest == state_q = "IDLE" /\ UNCHANGED vars

Accept == /\ state_q = "IDLE" /\ ops < MaxOps
          /\ \E r \in Request : /\ ops > 0 => r.a \in Later /\ r.b \in Later
                                /\ StartMul(r) \/ StartDivEarly(r) \/ StartDiv(r)

Next == \/ NoRequest
        \/ Accept
        \/ MulIn \/ MulMid \/ MulOut \/ Compute \/ Done

Spec == Init /\ [][Next]_vars

-----------------------------------------------------------------------------
(* The M extension, over the integers. *)

\* The number an operand stands for.
Value(x, sgn, word) == LET n == IF word THEN INST_W ELSE XLEN
                       IN  IF sgn THEN Wrap(x, n) ELSE x % 2 ^ n

\* The register that holds a result.
Encode(v, word) == IF word THEN Wrap(v, INST_W) % 2 ^ XLEN ELSE v % 2 ^ XLEN

Magnitude(v) == IF v < 0 THEN -v ELSE v
Quotient(a, b) == IF (a < 0) = (b < 0) THEN Magnitude(a) \div Magnitude(b)
                  ELSE -(Magnitude(a) \div Magnitude(b))

Reference(r) ==
  LET a == Value(r.a, r.op \in {"MUL", "MULH", "MULHSU", "DIV", "REM"}, r.word)
      b == Value(r.b, r.op \in {"MUL", "MULH", "DIV", "REM"}, r.word)
  IN  CASE r.op = "MUL" -> Encode(a * b, r.word)
        [] r.op \in {"MULH", "MULHSU", "MULHU"} -> Encode((a * b) \div 2 ^ XLEN, FALSE)
        [] r.op \in {"DIV", "DIVU"} -> Encode(IF b = 0 THEN -1 ELSE Quotient(a, b), r.word)
        [] r.op \in {"REM", "REMU"} -> Encode(IF b = 0 THEN a ELSE a - b * Quotient(a, b), r.word)

\* Every operation yields the number the M extension defines, in both widths,
\* at the sign boundaries, for division by zero and for INT_MIN / -1, and
\* whatever the unit computed before.
ResultCorrect == state_q = "DONE" => result_q = Reference(req)

\* Restoring division: the bits of the dividend consumed so far are the
\* quotient so far times the divisor plus the remainder so far, and the bits
\* that are left stand at the top of the dividend register.
Restoring ==
  state_q = "COMPUTE" =>
    LET a == Abs(a_eff(req), is_signed_div(req.op))
    IN  /\ a \div 2 ^ div_q.count = div_q.quotient * div_q.abs_b + div_q.remainder
        /\ div_q.remainder < div_q.abs_b
        /\ div_q.dividend = (a % 2 ^ div_q.count) * 2 ^ (XLEN - div_q.count)

\* A multiplication takes four cycles; a division one per bit of its width
\* and one more, or one cycle when it needs no iteration: nothing left over
\* from an earlier operation lengthens or shortens it.
AnswersInTime ==
  state_q = "DONE" => cycles = IF req.op \in MulOps THEN 4
                               ELSE IF b_eff(req) = 0 \/ ov(req) THEN 1
                               ELSE IF req.word THEN INST_W + 1 ELSE XLEN + 1

\* Every register holds a value of its width.
TypeOK ==
  /\ state_q \in {"IDLE", "MUL_IN", "MUL_MID", "MUL_OUT", "COMPUTE", "DONE"}
  /\ result_q \in Word /\ op_q \in MulOps /\ word_op_q \in BOOLEAN
  /\ mul_product_q \in -(2 ^ (PROD_W - 1)) .. 2 ^ (PROD_W - 1) - 1
  /\ div_q.dividend \in Word /\ div_q.quotient \in Word /\ div_q.abs_b \in Word
  /\ div_q.remainder \in Word /\ div_q.count \in 0 .. XLEN
=============================================================================
