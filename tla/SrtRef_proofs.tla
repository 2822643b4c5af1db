--------------------------- MODULE SrtRef_proofs ----------------------------
(***************************************************************************)
(* The loop invariants of the division and square-root references, for     *)
(* every operand, every mantissa width and every number of digits.         *)
(***************************************************************************)
EXTENDS SrtRef, TLAPS

\* Types of the loop's variables, and what the two functions start from.
Natural ==
    /\ a \in Nat /\ b \in Nat /\ rem \in Nat /\ q \in Nat /\ w \in Nat /\ i \in Nat
    /\ n \in Nat /\ (fn = "sqrt" => n # 0)
    /\ fn = "idle" => rem = 0 /\ q = 0 /\ w = 0

\* The inductive invariant.
Loop == Natural /\ SrtDivides /\ SrtRoots

\* One step of the root, for any next pair of bits: the square of the new root
\* is built from the old one without a multiplication.
LEMMA RootStep ==
    ASSUME NEW s \in Nat, NEW m \in Nat, m <= 2 * s, NEW p \in 0..3,
           NEW v \in Nat, s * s + m = v
    PROVE  /\ 4 * m + p >= 4 * s + 1 =>
                /\ (2 * s + 1) * (2 * s + 1) + (4 * m + p - (4 * s + 1)) = 4 * v + p
                /\ 4 * m + p - (4 * s + 1) <= 2 * (2 * s + 1)
           /\ 4 * m + p < 4 * s + 1 =>
                /\ (2 * s) * (2 * s) + (4 * m + p) = 4 * v + p
                /\ 4 * m + p <= 2 * (2 * s)
<1>1. (2 * s + 1) * (2 * s + 1) = 4 * (s * s) + 4 * s + 1 /\ (2 * s) * (2 * s) = 4 * (s * s)
  BY SMT
<1> DEFINE sq == s * s
<1>2. sq \in Nat
  BY SMT
<1> HIDE DEF sq
<1>3. (2 * s + 1) * (2 * s + 1) = 4 * sq + 4 * s + 1 /\ (2 * s) * (2 * s) = 4 * sq /\ sq + m = v
  BY <1>1 DEF sq
<1> QED
  BY <1>2, <1>3, SMT

\* One digit of the quotient.
LEMMA DivideStep ==
    ASSUME NEW d \in Nat, NEW s \in Nat, NEW m \in Nat, m < d, NEW v \in Nat, s * d + m = v
    PROVE  /\ 2 * m >= d => (2 * s + 1) * d + (2 * m - d) = 2 * v /\ 2 * m - d < d
           /\ 2 * m < d => (2 * s) * d + 2 * m = 2 * v
<1>1. (2 * s + 1) * d = 2 * (s * d) + d /\ (2 * s) * d = 2 * (s * d)
  BY SMT
<1> DEFINE sd == s * d
<1>2. sd \in Nat
  BY SMT
<1> HIDE DEF sd
<1>3. (2 * s + 1) * d = 2 * sd + d /\ (2 * s) * d = 2 * sd /\ sd + m = v
  BY <1>1 DEF sd
<1> QED
  BY <1>2, <1>3, SMT

\* The next pair of bits is a pair of bits, whatever lies left of it.
LEMMA PairRange ==
    ASSUME a \in Nat, n \in Nat \ {0}, i \in Nat, i < total
    PROVE  pair \in 0..3
<1>1. H \in Nat
  BY SrtAssumption
<1>2. 2 * total - (2 * H + 2) \in Nat /\ 2 * (total - 1 - i) \in Nat
  BY <1>1 DEF total
<1>3. a_padded \in Int
  BY <1>2 DEF a_padded
<1> DEFINE k == 2 * (total - 1 - i)
           z == a_padded
<1>4. k \in Nat /\ z \in Int
  BY <1>2, <1>3
<1> HIDE DEF k, z
<1>5. (z \div 2^k) % 4 \in 0..3
  BY <1>4
<1> QED
  BY <1>5 DEF pair, k, z

\* Operands with the same hidden bit are less than a factor of two apart.
LEMMA HiddenBit ==
    ASSUME NEW u \in Int, NEW x \in u .. (2 * u - 1), NEW y \in u .. (2 * u - 1)
    PROVE  x \in Nat /\ y \in Nat /\ y > 0 /\ x < 2 * y
<1>1. x \in Int /\ y \in Int /\ u <= x /\ x <= 2 * u - 1 /\ u <= y /\ y <= 2 * u - 1
  OBVIOUS
<1> QED
  BY <1>1, SMT

\* The bound of the remainder of a root, as the interval SrtRoots names.
LEMMA UpTo ==
    ASSUME NEW m \in Nat, NEW s \in Nat, m <= 2 * s
    PROVE  m \in 0 .. (2 * s)
OBVIOUS

\* The integer digit leaves a remainder below the divisor.
LEMMA IntegerDigit ==
    ASSUME NEW x \in Nat, NEW y \in Nat, y > 0, x < 2 * y
    PROVE  /\ x >= y => x - y \in 0 .. (y - 1) /\ x - y \in Nat /\ 1 * y + (x - y) = x
           /\ ~(x >= y) => x \in 0 .. (y - 1) /\ 0 * y + x = x
OBVIOUS

\* Before the first call of either function.
LEMMA LoopInit == SrtInit => Loop
BY DEF SrtInit, Loop, Natural, SrtDivides, SrtRoots

\* Every call, every digit and every return keeps the loop invariants.
LEMMA LoopStep == Loop /\ [SrtNext]_srtVars => Loop'
<1> SUFFICES ASSUME Loop, [SrtNext]_srtVars
             PROVE  Loop'
  OBVIOUS
<1>1. CASE EmitDiv
  <2>1. One \in Int
    BY SrtAssumption DEF One
  <2> DEFINE u == One
  <2>2. u \in Int /\ a' \in u .. (2 * u - 1) /\ b' \in u .. (2 * u - 1)
    BY <1>1, <2>1 DEF EmitDiv
  <2> HIDE DEF u
  <2>3. a' \in Nat /\ b' \in Nat /\ b' > 0 /\ a' < 2 * b'
    BY <2>2, HiddenBit
  <2>4. n' \in Nat \ {0}
    BY <1>1, SrtAssumption DEF EmitDiv
  <2>5. i \in Nat
    BY DEF Loop, Natural
  <2>6. CASE a' >= b'
    <3>1. q' = 1 /\ rem' = a' - b' /\ w' = a' /\ i' = i /\ fn' = "div"
      BY <1>1, <2>6 DEF EmitDiv
    <3>2. rem' \in 0 .. (b' - 1) /\ q' * b' + rem' = w' /\ rem' \in Nat
      BY <2>3, <2>6, <3>1, IntegerDigit
    <3>3. Natural'
      BY <2>3, <2>4, <2>5, <3>1, <3>2 DEF Natural
    <3>4. SrtDivides'
      BY <3>2, Zenon DEF SrtDivides
    <3>5. SrtRoots'
      BY <3>1 DEF SrtRoots
    <3> QED
      BY <3>3, <3>4, <3>5 DEF Loop
  <2>7. CASE ~(a' >= b')
    <3>1. q' = 0 /\ rem' = a' /\ w' = a' /\ i' = i /\ fn' = "div"
      BY <1>1, <2>7 DEF EmitDiv
    <3>2. rem' \in 0 .. (b' - 1) /\ q' * b' + rem' = w' /\ rem' \in Nat
      BY <2>3, <2>7, <3>1, IntegerDigit
    <3>3. Natural'
      BY <2>3, <2>4, <2>5, <3>1, <3>2 DEF Natural
    <3>4. SrtDivides'
      BY <3>2, Zenon DEF SrtDivides
    <3>5. SrtRoots'
      BY <3>1 DEF SrtRoots
    <3> QED
      BY <3>3, <3>4, <3>5 DEF Loop
  <2> QED
    BY <2>6, <2>7
<1>2. CASE DivDigit
  <2>1. /\ fn = "div" /\ fn' = "div" /\ a' = a /\ b' = b /\ n' = n /\ i' = i + 1 /\ w' = 2 * w
        /\ q * b + rem = w /\ rem < b
        /\ a \in Nat /\ b \in Nat /\ rem \in Nat /\ q \in Nat /\ w \in Nat /\ i \in Nat /\ n \in Nat
    BY <1>2 DEF DivDigit, Loop, Natural, SrtDivides
  <2>2. CASE 2 * rem >= b
    <3>1. q' = 2 * q + 1 /\ rem' = 2 * rem - b
      BY <1>2, <2>2 DEF DivDigit
    <3>2. q' * b' + rem' = w' /\ rem' < b'
      BY <2>1, <2>2, <3>1, DivideStep
    <3>3. rem' \in Nat /\ q' \in Nat /\ w' \in Nat /\ i' \in Nat
      BY <2>1, <2>2, <3>1
    <3>4. Natural'
      BY <2>1, <3>3 DEF Natural
    <3>5. SrtDivides'
      <4>1. rem' \in 0 .. (b' - 1)
        BY <2>1, <3>2, <3>3
      <4> QED
        BY <3>2, <4>1, Zenon DEF SrtDivides
    <3>6. SrtRoots'
      BY <2>1 DEF SrtRoots
    <3> QED
      BY <3>4, <3>5, <3>6 DEF Loop
  <2>3. CASE 2 * rem < b
    <3>1. q' = 2 * q /\ rem' = 2 * rem
      BY <1>2, <2>1, <2>3 DEF DivDigit
    <3>2. q' * b' + rem' = w' /\ rem' < b'
      BY <2>1, <2>3, <3>1, DivideStep
    <3>3. rem' \in Nat /\ q' \in Nat /\ w' \in Nat /\ i' \in Nat
      BY <2>1, <3>1
    <3>4. Natural'
      BY <2>1, <3>3 DEF Natural
    <3>5. SrtDivides'
      <4>1. rem' \in 0 .. (b' - 1)
        BY <2>1, <3>2, <3>3
      <4> QED
        BY <3>2, <4>1, Zenon DEF SrtDivides
    <3>6. SrtRoots'
      BY <2>1 DEF SrtRoots
    <3> QED
      BY <3>4, <3>5, <3>6 DEF Loop
  <2> QED
    BY <2>1, <2>2, <2>3
<1>3. CASE DivReturn
  BY <1>3 DEF DivReturn, Loop, Natural, SrtDivides, SrtRoots
<1>4. CASE EmitSqrt
  <2>1. One \in Int
    BY SrtAssumption DEF One
  <2> DEFINE u == One
  <2>2. u \in Int /\ a' \in u .. (4 * u - 1)
    BY <1>4, <2>1 DEF EmitSqrt
  <2> HIDE DEF u
  <2>3. a' \in Nat
    BY <2>2
  <2>4. n' \in Nat \ {0}
    BY <1>4, SrtAssumption DEF EmitSqrt
  <2>5. /\ rem' = 0 /\ q' = 0 /\ w' = 0 /\ i' \in Nat /\ b' \in Nat
        /\ fn' = "sqrt"
    BY <1>4 DEF EmitSqrt, Loop, Natural
  <2> QED
    BY <2>3, <2>4, <2>5 DEF Loop, Natural, SrtDivides, SrtRoots
<1>5. CASE SqrtDigit
  <2>1. /\ fn = "sqrt" /\ fn' = "sqrt" /\ a' = a /\ b' = b /\ n' = n /\ i' = i + 1
        /\ w' = 4 * w + pair /\ i < total
        /\ q * q + rem = w /\ rem <= 2 * q
        /\ a \in Nat /\ b \in Nat /\ rem \in Nat /\ q \in Nat /\ w \in Nat /\ i \in Nat
        /\ n \in Nat \ {0}
    BY <1>5 DEF SqrtDigit, Loop, Natural, SrtRoots
  <2>2. pair \in 0..3
    BY <2>1, PairRange
  <2>3. q' * q' + rem' = w' /\ rem' <= 2 * q' /\ rem' \in Nat /\ q' \in Nat
    <3> DEFINE p == pair
    <3>1. p \in 0..3 /\ w' = 4 * w + p
      BY <2>1, <2>2
    <3>2. Root(p)
      BY <1>5 DEF SqrtDigit
    <3> HIDE DEF p
    <3>3. CASE 4 * rem + p >= 4 * q + 1
      <4>1. rem' = 4 * rem + p - (4 * q + 1) /\ q' = 2 * q + 1
        BY <3>2, <3>3 DEF Root
      <4> QED
        BY <2>1, <3>1, <3>3, <4>1, RootStep
    <3>4. CASE 4 * rem + p < 4 * q + 1
      <4>1. rem' = 4 * rem + p /\ q' = 2 * q
        BY <2>1, <3>1, <3>2, <3>4 DEF Root
      <4> QED
        BY <2>1, <3>1, <3>4, <4>1, RootStep
    <3> QED
      BY <2>1, <3>1, <3>3, <3>4
  <2>4. w' \in Nat /\ i' \in Nat
    BY <2>1, <2>2
  <2>5. Natural'
    BY <2>1, <2>3, <2>4 DEF Natural
  <2>6. SrtDivides'
    BY <2>1 DEF SrtDivides
  <2>7. SrtRoots'
    <3>1. rem' \in Nat /\ q' \in Nat /\ rem' <= 2 * q'
      BY <2>3
    <3>2. rem' \in 0 .. (2 * q')
      BY <3>1, UpTo
    <3> QED
      BY <2>3, <3>2, Zenon DEF SrtRoots
  <2> QED
    BY <2>5, <2>6, <2>7 DEF Loop
<1>6. CASE SqrtReturn
  BY <1>6 DEF SqrtReturn, Loop, Natural, SrtDivides, SrtRoots
<1>7. CASE SrtDone \/ UNCHANGED srtVars
  BY <1>7 DEF SrtDone, srtVars, Loop, Natural, SrtDivides, SrtRoots
<1> QED
  BY <1>1, <1>2, <1>3, <1>4, <1>5, <1>6, <1>7 DEF SrtNext

\* For every mantissa width, digit count and operands, each digit srt_divide
\* produces leaves quotient and remainder of the dividend used so far.
THEOREM DividesAlways == SrtSpec => []SrtDivides
<1>1. Loop => SrtDivides
  BY DEF Loop
<1> QED
  BY <1>1, LoopInit, LoopStep, PTL DEF SrtSpec

\* The same for srt_sqrt: its digits are the integer root of what was used so far.
THEOREM RootsAlways == SrtSpec => []SrtRoots
<1>1. Loop => SrtRoots
  BY DEF Loop
<1> QED
  BY <1>1, LoopInit, LoopStep, PTL DEF SrtSpec

-----------------------------------------------------------------------------
(* The returned pair. *)

\* Quotient and remainder of a positive divisor.
LEMMA Euclid ==
    ASSUME NEW d \in Nat \ {0}, NEW x \in Int
    PROVE  x = d * (x \div d) + (x % d) /\ x % d \in 0 .. d - 1 /\ x \div d \in Int
BY SMT

\* They are the only such pair.
LEMMA EuclidUnique ==
    ASSUME NEW d \in Nat \ {0}, NEW y \in Int, NEW m \in 0 .. d - 1
    PROVE  (d * y + m) % d = m /\ (d * y + m) \div d = y
BY SMT

\* Dividing a natural number gives one.
LEMMA DivNat ==
    ASSUME NEW x \in Nat, NEW d \in Nat \ {0}
    PROVE  x \div d \in Nat
<1> DEFINE y == x \div d
           m == x % d
<1>1. x = d * y + m /\ m \in 0 .. d - 1 /\ y \in Int
  BY Euclid
<1> HIDE DEF y, m
<1>2. ASSUME y < 0 PROVE FALSE
  <2>1. d * y <= -d
    BY <1>1, <1>2, SMT
  <2> QED
    BY <1>1, <2>1, SMT
<1> QED
  BY <1>1, <1>2 DEF y

\* One more pair of bits of the radicand.
LEMMA NextPair ==
    ASSUME NEW x \in Nat, NEW c \in Nat \ {0}
    PROVE  x \div c = 4 * (x \div (4 * c)) + ((x \div c) % 4)
<1> DEFINE y == x \div c
           m == x % c
           z == y \div 4
           t == y % 4
           c4 == 4 * c
           rest == c * t + m
<1>1. x = c * y + m /\ m \in 0 .. c - 1 /\ y \in Int
  BY Euclid
<1> HIDE DEF y, m
<1>2. y = 4 * z + t /\ t \in 0 .. 3 /\ z \in Int
  BY <1>1, SMT
<1> HIDE DEF z, t
<1>3. x = c4 * z + rest
  BY <1>1, <1>2, SMT
<1>4. rest \in 0 .. c4 - 1 /\ c4 \in Nat \ {0}
  <2>1. c * t \in Int /\ c * t >= 0 /\ c * t <= c * 3
    BY <1>2, SMT
  <2> QED
    BY <1>1, <2>1
<1> HIDE DEF c4, rest
<1>5. (c4 * z + rest) \div c4 = z
  BY <1>2, <1>4, EuclidUnique
<1>6. x \div c4 = z
  BY <1>3, <1>5
<1> QED
  BY <1>2, <1>6 DEF y, t, c4

\* Squares grow.
LEMMA SquareOrder ==
    ASSUME NEW x \in Nat, NEW y \in Nat
    PROVE  /\ x <= y => x * x <= y * y
           /\ x < y => x * x < y * y
<1>1. ASSUME x <= y PROVE x * x <= y * y
  <2>1. x * x <= x * y
    BY <1>1, SMT
  <2>2. x * y <= y * y
    BY <1>1, SMT
  <2>3. x * x \in Int /\ x * y \in Int /\ y * y \in Int
    BY SMT
  <2> QED
    BY <2>1, <2>2, <2>3
<1>2. ASSUME x < y PROVE x * x < y * y
  <2>1. x * x <= x * y
    BY <1>2, SMT
  <2>2. x * y < y * y
    BY <1>2, SMT
  <2>3. x * x \in Int /\ x * y \in Int /\ y * y \in Int
    BY SMT
  <2> QED
    BY <2>1, <2>2, <2>3
<1> QED
  BY <1>1, <1>2

\* Cutting off the digits below c of a root s with remainder m: the rest is the
\* root of x / (c * c), and something was cut off exactly if digits or remainder
\* are left.
LEMMA CutRoot ==
    ASSUME NEW c \in Nat \ {0}, NEW s \in Nat, NEW m \in Nat, m <= 2 * s,
           NEW x \in Nat, x = s * s + m
    PROVE  LET y == s \div c
           IN  /\ y \in Nat
               /\ (y * y) * (c * c) <= x
               /\ x < ((y + 1) * (y + 1)) * (c * c)
               /\ (s % c # 0 \/ m # 0) <=> (y * y) * (c * c) # x
<1> DEFINE y == s \div c
           t == s % c
           lo == c * y
           hi == c * (y + 1)
<1>1. s = c * y + t /\ t \in 0 .. c - 1 /\ y \in Nat
  <2>1. s \in Int
    OBVIOUS
  <2>2. s = c * y + t /\ t \in 0 .. c - 1
    BY <2>1, Euclid
  <2>3. y \in Nat
    BY DivNat
  <2> QED
    BY <2>2, <2>3
<1> HIDE DEF y, t
<1>2. lo \in Nat /\ hi \in Nat /\ s = lo + t /\ hi = lo + c
  BY <1>1, SMT
<1>3. (y * y) * (c * c) = lo * lo /\ ((y + 1) * (y + 1)) * (c * c) = hi * hi
  BY <1>1, SMT
<1> HIDE DEF lo, hi
<1>4. lo <= s /\ s + 1 <= hi /\ (t # 0 => lo < s) /\ (t = 0 => lo = s)
  BY <1>1, <1>2
<1>5. lo * lo <= s * s /\ (s + 1) * (s + 1) <= hi * hi /\ (t # 0 => lo * lo < s * s)
  <2>1. s + 1 \in Nat
    OBVIOUS
  <2> QED
    BY <1>2, <1>4, <2>1, SquareOrder
<1>6. (s + 1) * (s + 1) = s * s + 2 * s + 1 /\ s * s \in Nat /\ lo * lo \in Nat /\ hi * hi \in Nat
  BY <1>2, SMT
<1> DEFINE ss == s * s
           ll == lo * lo
           hh == hi * hi
<1>7. /\ ll <= ss /\ ss + 2 * s + 1 <= hh /\ (t # 0 => ll < ss) /\ (t = 0 => ll = ss)
      /\ ss \in Nat /\ ll \in Nat /\ hh \in Nat /\ x = ss + m
  BY <1>4, <1>5, <1>6
<1> HIDE DEF ss, ll, hh
<1>8. ll <= x /\ x < hh /\ ((t # 0 \/ m # 0) <=> ll # x)
  BY <1>1, <1>7
<1> QED
  BY <1>1, <1>3, <1>8 DEF ll, hh, y, t

\* The size of a root.
LEMMA RootSize ==
    ASSUME NEW c \in Nat \ {0}, NEW y \in Nat, NEW t \in Nat, NEW x \in Nat,
           (y * y) * c <= x, x < ((y + 1) * (y + 1)) * c,
           (t * t) * c <= x, x < ((2 * t) * (2 * t)) * c
    PROVE  t <= y /\ y < 2 * t
<1>1. \A u \in Nat, v \in Nat : u <= v => u * c <= v * c
  BY SMT
<1>2. ASSUME ~(t <= y) PROVE FALSE
  <2> DEFINE y1 == y + 1
             u == y1 * y1
             v == t * t
  <2>1. y1 \in Nat /\ y1 <= t
    BY <1>2
  <2>2. u <= v
    BY <2>1, SquareOrder
  <2>3. u \in Nat /\ v \in Nat
    BY <2>1, SMT
  <2>4. x < u * c /\ v * c <= x
    OBVIOUS
  <2> HIDE DEF u, v
  <2>5. u * c <= v * c /\ u * c \in Int /\ v * c \in Int
    BY <1>1, <2>2, <2>3, SMT
  <2> QED
    BY <2>4, <2>5
<1>3. ASSUME ~(y < 2 * t) PROVE FALSE
  <2> DEFINE t2 == 2 * t
             u == t2 * t2
             v == y * y
  <2>1. t2 \in Nat /\ t2 <= y
    BY <1>3
  <2>2. u <= v
    BY <2>1, SquareOrder
  <2>3. u \in Nat /\ v \in Nat
    BY <2>1, SMT
  <2>4. x < u * c /\ v * c <= x
    OBVIOUS
  <2> HIDE DEF u, v
  <2>5. u * c <= v * c /\ u * c \in Int /\ v * c \in Int
    BY <1>1, <2>2, <2>3, SMT
  <2> QED
    BY <2>4, <2>5
<1> QED
  BY <1>2, <1>3

\* The part of the operand that i digits have used: the dividend with i more
\* places, the radicand's top i pairs.
Used ==
    /\ fn = "idle" => i = 0 /\ b = 0
    /\ fn = "div" => n \in Digits /\ b # 0 /\ i <= n - 1 /\ w = a * 2^i
    /\ fn = "sqrt" => /\ n \in Digits /\ b = 0 /\ i <= total /\ a \in One .. (4 * One - 1)
                      /\ w = a_padded \div 2^(2 * (total - i))

Vectors == Loop /\ Used /\ SrtAnswers

\* The laws of powers, for the exponents of a call with d digits.
LEMMA DigitPowers ==
    ASSUME NEW d \in Digits
    PROVE  /\ d \in Nat \ {0} /\ H \in Nat \ {0}
           /\ \A j \in 0 .. 2 * (d + H) : 2^j \in Nat \ {0}
           /\ \A j \in 0 .. 2 * (d + H) : \A k \in 0 .. (2 * (d + H) - j) : 2^(j + k) = 2^j * 2^k
BY SrtAssumption, SrtPowerAssumption

\* a_padded for any arguments.
Pad(u, d) == u * 2^(2 * (d + H) - (2 * H + 2))

\* The padded radicand: it has 2 * n - 2 more places, which n + H pairs hold.
LEMMA Padded ==
    ASSUME NEW d \in Digits, NEW u \in One .. (4 * One - 1)
    PROVE  LET t == 2^(d - 1)
               c == 2^H
           IN  /\ t \in Nat \ {0} /\ 2^d = 2 * t /\ c \in Nat \ {0} /\ One = c * c
               /\ Pad(u, d) = u * 2^(2 * d - 2) /\ 2^(2 * d - 2) = t * t
               /\ Pad(u, d) \in Nat /\ Pad(u, d) < 2^(2 * (d + H)) /\ 2^(2 * (d + H)) \in Nat \ {0}
<1>1. d \in Nat \ {0} /\ H \in Nat \ {0}
  BY DigitPowers
<1>2. \A j \in 0 .. 2 * (d + H) : 2^j \in Nat \ {0}
  BY DigitPowers
<1>3. \A j \in 0 .. 2 * (d + H) : \A k \in 0 .. (2 * (d + H) - j) : 2^(j + k) = 2^j * 2^k
  BY DigitPowers
<1> DEFINE t == 2^(d - 1)
           c == 2^H
           p == 2^(2 * d - 2)
           e == 2^(2 * H + 2)
           o == 2^(2 * H)
<1>4. 2^1 = 2 /\ 2^2 = 4
  BY SMT
<1>5. /\ d - 1 \in 0 .. 2 * (d + H) /\ H \in 0 .. 2 * (d + H) /\ 1 \in 0 .. 2 * (d + H)
      /\ 2 \in 0 .. 2 * (d + H)
      /\ 2 * d - 2 \in 0 .. 2 * (d + H) /\ 2 * H \in 0 .. 2 * (d + H)
      /\ 2 * H + 2 \in 0 .. 2 * (d + H) /\ 2 * (d + H) \in 0 .. 2 * (d + H)
  BY <1>1
<1>6. /\ d - 1 \in 0 .. (2 * (d + H) - 1) /\ d - 1 \in 0 .. (2 * (d + H) - (d - 1))
      /\ H \in 0 .. (2 * (d + H) - H) /\ 2 * H \in 0 .. (2 * (d + H) - 2)
      /\ 2 * H + 2 \in 0 .. (2 * (d + H) - (2 * d - 2))
  BY <1>1
<1>7. /\ 1 + (d - 1) = d /\ (d - 1) + (d - 1) = 2 * d - 2 /\ H + H = 2 * H
      /\ 2 + 2 * H = 2 * H + 2 /\ (2 * d - 2) + (2 * H + 2) = 2 * (d + H)
      /\ 2 * (d + H) - (2 * H + 2) = 2 * d - 2
  BY <1>1
<1>8. 2^(1 + (d - 1)) = 2^1 * 2^(d - 1)
  BY <1>3, <1>5, <1>6
<1>9. 2^((d - 1) + (d - 1)) = t * t
  BY <1>3, <1>5, <1>6
<1>10. 2^(H + H) = c * c
  BY <1>3, <1>5, <1>6
<1>11. 2^(2 + 2 * H) = 2^2 * 2^(2 * H)
  BY <1>3, <1>5, <1>6
<1>12. 2^((2 * d - 2) + (2 * H + 2)) = p * e
  BY <1>3, <1>5, <1>6
<1>13. 2^d = 2 * t /\ p = t * t /\ o = c * c /\ e = 4 * o /\ 2^(2 * (d + H)) = p * e
  BY <1>4, <1>7, <1>8, <1>9, <1>10, <1>11, <1>12
<1>14. t \in Nat \ {0} /\ c \in Nat \ {0} /\ p \in Nat \ {0} /\ o \in Nat \ {0}
       /\ 2^(2 * (d + H)) \in Nat \ {0}
  BY <1>2, <1>5
<1>15. One = o
  BY DEF One
<1>16. Pad(u, d) = u * p
  BY <1>7, <1>15 DEF Pad
<1>17. u \in Nat /\ u <= 4 * o - 1
  <2>1. u \in o .. (4 * o - 1)
    BY <1>15
  <2> HIDE DEF o
  <2> QED
    BY <1>14, <2>1
<1> HIDE DEF t, c, p, e, o
<1>18. u * p \in Nat /\ u * p < p * e
  <2>1. u * p <= (4 * o - 1) * p
    BY <1>14, <1>17, SMT
  <2>2. (4 * o - 1) * p = p * e - p /\ p * e \in Int /\ u * p \in Nat
    BY <1>13, <1>14, <1>17, SMT
  <2> QED
    BY <1>14, <2>1, <2>2
<1> QED
  BY <1>13, <1>14, <1>15, <1>16, <1>18 DEF t, c, p, o

\* Both operands of a division carry the hidden bit, which is positive.
LEMMA HiddenPositive == One \in Nat \ {0} \/ Digits = {}
<1>1. ASSUME NEW d \in Digits PROVE One \in Nat \ {0}
  <2>1. d \in Nat \ {0} /\ H \in Nat \ {0}
    BY DigitPowers
  <2>2. 2 * H \in 0 .. 2 * (d + H)
    BY <2>1
  <2> QED
    BY <2>2, DigitPowers DEF One
<1> QED
  BY <1>1

\* The first call, and every one that follows it, starts from no digit.
LEMMA VectorsInit == SrtInit => Vectors
<1>1. SrtInit => Used /\ SrtAnswers
  BY DEF SrtInit, Used, SrtAnswers
<1> QED
  BY <1>1, LoopInit DEF Vectors

\* A digit of the quotient doubles the part of the dividend that is used.
LEMMA UsedDivDigit ==
    ASSUME Vectors, DivDigit
    PROVE  Used'
<1>1. /\ fn' = "div" /\ a' = a /\ b' = b /\ n' = n /\ i' = i + 1 /\ w' = 2 * w /\ i < n - 1
      /\ n \in Digits /\ b # 0 /\ w = a * 2^i /\ a \in Nat /\ i \in Nat
  BY DEF Vectors, Loop, Natural, Used, DivDigit
<1>2. n \in Nat \ {0} /\ H \in Nat \ {0}
  BY <1>1, DigitPowers
<1>3. 1 \in 0 .. 2 * (n + H) /\ i \in 0 .. 2 * (n + H) /\ i \in 0 .. (2 * (n + H) - 1)
      /\ 1 + i = i + 1
  BY <1>1, <1>2
<1>4. 2^(1 + i) = 2^1 * 2^i /\ 2^i \in Nat
  BY <1>1, <1>3, DigitPowers
<1>5. 2^1 = 2
  BY SMT
<1> DEFINE p == 2^i
<1>6. 2^(i + 1) = 2 * p /\ p \in Nat /\ w' = 2 * (a * p)
  BY <1>1, <1>3, <1>4, <1>5
<1> HIDE DEF p
<1>7. 2 * (a * p) = a * (2 * p)
  BY <1>1, <1>6, SMT
<1>8. w' = a' * 2^(i')
  BY <1>1, <1>6, <1>7
<1>9. i' <= n' - 1
  BY <1>1, <1>2
<1> QED
  BY <1>1, <1>8, <1>9 DEF Used

\* The first digit of a quotient.
LEMMA UsedEmitDiv ==
    ASSUME Vectors, EmitDiv
    PROVE  Used'
<1>1. /\ fn' = "div" /\ n' \in Digits /\ i' = 0 /\ w' = a'
      /\ a' \in One .. (2 * One - 1) /\ b' \in One .. (2 * One - 1)
  BY DEF Vectors, Used, EmitDiv
<1>2. One \in Nat \ {0}
  BY <1>1, HiddenPositive
<1> DEFINE u == One
<1>3. u \in Nat \ {0} /\ a' \in u .. (2 * u - 1) /\ b' \in u .. (2 * u - 1)
  BY <1>1, <1>2
<1> HIDE DEF u
<1>4. a' \in Nat /\ b' # 0
  BY <1>3
<1>5. 2^0 = 1 /\ \A x \in Nat : x * 1 = x
  BY SMT
<1>6. n' \in Nat \ {0} /\ \A x \in Nat \ {0} : 0 <= x - 1
  BY <1>1, DigitPowers
<1>7. 0 <= n' - 1 /\ a' * 1 = a'
  BY <1>4, <1>5, <1>6, Zenon
<1>8. w' = a' * 2^(i') /\ i' <= n' - 1
  BY <1>1, <1>5, <1>7
<1> QED
  BY <1>1, <1>4, <1>8 DEF Used

\* The first digit of a root: no pair of the radicand is used.
LEMMA UsedEmitSqrt ==
    ASSUME Vectors, EmitSqrt
    PROVE  Used'
<1>1. /\ fn' = "sqrt" /\ n' \in Digits /\ i' = 0 /\ w' = 0 /\ b' = 0
      /\ a' \in One .. (4 * One - 1)
  BY DEF Vectors, Loop, Natural, Used, EmitSqrt
<1>2. /\ Pad(a', n') \in Nat /\ Pad(a', n') < 2^(2 * (n' + H)) /\ 2^(2 * (n' + H)) \in Nat \ {0}
  BY <1>1, Padded
<1>3. n' \in Nat \ {0} /\ H \in Nat \ {0}
  BY <1>1, DigitPowers
<1>4. a_padded' = Pad(a', n') /\ total' = n' + H
  BY DEF a_padded, total, Pad
<1>5. 2 * (total' - i') = 2 * (n' + H) /\ i' <= total'
  <2>1. \A x \in Nat \ {0} : 2 * ((x + H) - 0) = 2 * (x + H) /\ 0 <= x + H
    BY <1>3
  <2> QED
    BY <1>1, <1>3, <1>4, <2>1
<1> DEFINE x == Pad(a', n')
           m == 2^(2 * (n' + H))
<1>6. x \in Nat /\ x < m /\ m \in Nat \ {0}
  BY <1>2
<1> HIDE DEF x, m
<1>7. x \div m = 0
  BY <1>6, SMT
<1>8. w' = a_padded' \div 2^(2 * (total' - i'))
  BY <1>1, <1>4, <1>5, <1>7 DEF x, m
<1> QED
  BY <1>1, <1>5, <1>8 DEF Used

\* A digit of a root uses the next pair.
LEMMA UsedSqrtDigit ==
    ASSUME Vectors, SqrtDigit
    PROVE  Used'
<1>1. /\ fn' = "sqrt" /\ a' = a /\ b' = b /\ n' = n /\ i' = i + 1 /\ w' = 4 * w + pair /\ i < total
      /\ n \in Digits /\ b = 0 /\ a \in One .. (4 * One - 1) /\ i \in Nat
      /\ w = a_padded \div 2^(2 * (total - i))
  BY DEF Vectors, Loop, Natural, Used, SqrtDigit
<1>2. a_padded = Pad(a, n) /\ total = n + H
  BY DEF a_padded, total, Pad
<1>3. a_padded \in Nat
  BY <1>1, <1>2, Padded
<1>4. n \in Nat \ {0} /\ H \in Nat \ {0} /\ total \in Nat
  BY <1>1, <1>2, DigitPowers
<1>5. /\ 2 * (total - 1 - i) \in 0 .. 2 * (n + H) /\ 2 \in 0 .. 2 * (n + H)
      /\ 2 * (total - 1 - i) \in 0 .. (2 * (n + H) - 2)
      /\ 2 + 2 * (total - 1 - i) = 2 * (total - i)
      /\ 2 * (total - 1 - i) = 2 * (total - (i + 1))
  BY <1>1, <1>2, <1>4
<1> DEFINE k == 2 * (total - 1 - i)
<1>6. 2^(2 + k) = 2^2 * 2^k /\ 2^k \in Nat \ {0}
  BY <1>1, <1>5, DigitPowers
<1>7. 2^2 = 4
  BY SMT
<1> DEFINE c == 2^k
           x == a_padded
<1>8. c \in Nat \ {0} /\ x \in Nat /\ w = x \div (4 * c) /\ pair = (x \div c) % 4
  BY <1>1, <1>3, <1>5, <1>6, <1>7 DEF pair
<1>9. c = 2^(2 * (total - (i + 1)))
  BY <1>5
<1> HIDE DEF c, x
<1>10. x \div c = 4 * (x \div (4 * c)) + ((x \div c) % 4)
  BY <1>8, NextPair
<1>11. w' = x \div c
  BY <1>1, <1>8, <1>10
<1>12. a_padded' = a_padded /\ total' = total
  BY <1>1 DEF a_padded, total
<1>13. w' = a_padded' \div 2^(2 * (total' - i')) /\ i' <= total'
  BY <1>1, <1>4, <1>9, <1>11, <1>12 DEF x
<1> QED
  BY <1>1, <1>13 DEF Used

\* What srt_divide returns.
LEMMA AnswersDivReturn ==
    ASSUME Vectors, DivReturn
    PROVE  SrtAnswers'
<1>1. /\ a' = a /\ b' = b /\ n' = n /\ ret' = [q |-> q, sticky |-> rem # 0] /\ i = n - 1
      /\ b # 0 /\ w = a * 2^i /\ q * b + rem = w /\ rem \in 0 .. (b - 1)
      /\ b \in Nat /\ q \in Nat
  BY DEF Vectors, Loop, Natural, SrtDivides, Used, DivReturn
<1>2. /\ ret'.q = q /\ (ret'.sticky <=> rem # 0)
  BY <1>1
<1>3. a * 2^(n - 1) = w
  BY <1>1
<1>4. w = b * q + rem /\ b \in Nat \ {0} /\ q \in Int
  BY <1>1, SMT
<1>5. w \div b = q /\ w % b = rem
  BY <1>1, <1>4, EuclidUnique
<1> QED
  BY <1>1, <1>2, <1>3, <1>5 DEF SrtAnswers

\* What srt_sqrt returns.
LEMMA AnswersSqrtReturn ==
    ASSUME Vectors, SqrtReturn
    PROVE  SrtAnswers'
<1>1. /\ a' = a /\ b' = b /\ n' = n /\ i = total /\ b = 0 /\ n \in Digits
      /\ ret' = [q |-> q \div 2^H, sticky |-> q % 2^H # 0 \/ rem # 0]
      /\ a \in One .. (4 * One - 1) /\ w = a_padded \div 2^(2 * (total - i))
      /\ q * q + rem = w /\ rem \in 0 .. (2 * q) /\ q \in Nat /\ rem \in Nat
  BY DEF Vectors, Loop, Natural, SrtRoots, Used, SqrtReturn
<1> DEFINE t == 2^(n - 1)
           c == 2^H
           x == a * 2^(2 * n - 2)
           y == q \div c
<1>2. /\ t \in Nat \ {0} /\ 2^n = 2 * t /\ c \in Nat \ {0} /\ One = c * c
      /\ Pad(a, n) = x /\ 2^(2 * n - 2) = t * t /\ x \in Nat
  BY <1>1, Padded
<1>3. w = x
  <2>1. a_padded = Pad(a, n) /\ total = n + H
    BY DEF a_padded, total, Pad
  <2>2. n \in Nat \ {0} /\ H \in Nat \ {0}
    BY <1>1, DigitPowers
  <2>3. 2 * (total - i) = 0 /\ 2^0 = 1
    BY <1>1, <2>1, <2>2
  <2>4. w = x \div 1
    BY <1>1, <1>2, <2>1, <2>3
  <2> HIDE DEF x
  <2> QED
    BY <1>2, <2>4
<1>4. ret'.q = y /\ (ret'.sticky <=> q % c # 0 \/ rem # 0)
  BY <1>1
<1>5. One \in Nat \ {0} /\ One <= a /\ a <= 4 * One - 1 /\ a \in Nat
  <2> DEFINE o == One
  <2>1. o \in Nat \ {0}
    BY <1>1, HiddenPositive
  <2>2. a \in o .. (4 * o - 1)
    BY <1>1
  <2> HIDE DEF o
  <2>3. o <= a /\ a <= 4 * o - 1 /\ a \in Nat
    BY <2>1, <2>2
  <2> QED
    BY <2>1, <2>3 DEF o
<1> DEFINE o == One
           p == 2^(2 * n - 2)
<1>6. o \in Nat \ {0} /\ o <= a /\ a <= 4 * o - 1 /\ a \in Nat /\ o = c * c /\ p = t * t /\ x = a * p
  BY <1>2, <1>5
<1> HIDE DEF t, c, x, y, o, p
<1>7. /\ y \in Nat /\ (y * y) * (c * c) <= x /\ x < ((y + 1) * (y + 1)) * (c * c)
      /\ (q % c # 0 \/ rem # 0) <=> (y * y) * (c * c) # x
  <2> DEFINE s == q
             m == rem
  <2>1. s \in Nat /\ m \in Nat /\ m <= 2 * s /\ x = s * s + m /\ x \in Nat /\ c \in Nat \ {0}
    BY <1>1, <1>2, <1>3
  <2>2. y = s \div c
    BY DEF y
  <2> HIDE DEF s, m
  <2>3. /\ s \div c \in Nat /\ ((s \div c) * (s \div c)) * (c * c) <= x
        /\ x < (((s \div c) + 1) * ((s \div c) + 1)) * (c * c)
        /\ (s % c # 0 \/ m # 0) <=> ((s \div c) * (s \div c)) * (c * c) # x
    BY <2>1, CutRoot
  <2> QED
    BY <2>2, <2>3, Zenon DEF s, m
<1>8. (t * t) * o <= x /\ x < ((2 * t) * (2 * t)) * o
  <2>1. p \in Nat \ {0}
    BY <1>2, <1>6, SMT
  <2>2. o * p <= a * p /\ a * p <= (4 * o - 1) * p
    BY <1>6, <2>1, SMT
  <2>3. /\ (4 * o - 1) * p = 4 * (o * p) - p /\ o * p \in Int /\ a * p \in Int
        /\ ((2 * t) * (2 * t)) * o = 4 * (o * p) /\ (t * t) * o = o * p
    BY <1>2, <1>6, <2>1, SMT
  <2> QED
    BY <1>6, <2>1, <2>2, <2>3
<1>9. t <= y /\ y < 2 * t
  BY <1>2, <1>6, <1>7, <1>8, RootSize
<1>10. y \in t .. (2 * t - 1)
  BY <1>2, <1>7, <1>9
<1>11. /\ ret'.q \in 2^(n' - 1) .. (2^(n') - 1)
       /\ ret'.q * ret'.q * One <= a' * 2^(2 * n' - 2)
       /\ a' * 2^(2 * n' - 2) < (ret'.q + 1) * (ret'.q + 1) * One
       /\ ret'.sticky <=> ret'.q * ret'.q * One # a' * 2^(2 * n' - 2)
  BY <1>1, <1>2, <1>4, <1>6, <1>7, <1>10, Zenon DEF t, o, x
<1> QED
  BY <1>1, <1>11, Zenon DEF SrtAnswers

\* Every call, every digit and every return keeps the invariant.
LEMMA VectorsStep == Vectors /\ [SrtNext]_srtVars => Vectors'
<1> SUFFICES ASSUME Vectors, [SrtNext]_srtVars
             PROVE  Vectors'
  OBVIOUS
<1>1. Loop'
  BY LoopStep DEF Vectors
<1>2. CASE EmitDiv
  <2>1. SrtAnswers'
    BY <1>2 DEF EmitDiv, SrtAnswers
  <2> QED
    BY <1>1, <1>2, <2>1, UsedEmitDiv DEF Vectors
<1>3. CASE DivDigit
  <2>1. SrtAnswers'
    BY <1>3 DEF DivDigit, SrtAnswers
  <2> QED
    BY <1>1, <1>3, <2>1, UsedDivDigit DEF Vectors
<1>4. CASE DivReturn
  <2>1. Used'
    BY <1>4 DEF DivReturn, Used
  <2> QED
    BY <1>1, <1>4, <2>1, AnswersDivReturn DEF Vectors
<1>5. CASE EmitSqrt
  <2>1. SrtAnswers'
    BY <1>5 DEF EmitSqrt, SrtAnswers
  <2> QED
    BY <1>1, <1>5, <2>1, UsedEmitSqrt DEF Vectors
<1>6. CASE SqrtDigit
  <2>1. SrtAnswers'
    BY <1>6 DEF SqrtDigit, SrtAnswers
  <2> QED
    BY <1>1, <1>6, <2>1, UsedSqrtDigit DEF Vectors
<1>7. CASE SqrtReturn
  <2>1. Used'
    BY <1>7 DEF SqrtReturn, Used
  <2> QED
    BY <1>1, <1>7, <2>1, AnswersSqrtReturn DEF Vectors
<1>8. CASE SrtDone \/ UNCHANGED srtVars
  <2>1. UNCHANGED srtVars
    BY <1>8 DEF SrtDone
  <2>2. Used'
    BY <2>1 DEF Vectors, Used, srtVars, total, a_padded
  <2>3. SrtAnswers'
    BY <2>1 DEF Vectors, SrtAnswers, srtVars
  <2> QED
    BY <1>1, <2>2, <2>3 DEF Vectors
<1> QED
  BY <1>2, <1>3, <1>4, <1>5, <1>6, <1>7, <1>8 DEF SrtNext

\* For every mantissa width, digit count and operand, the pair either function
\* returns is the exact quotient or root cut off after n digits, with sticky
\* telling whether something was cut off.
THEOREM AnswersAlways == SrtSpec => []SrtAnswers
<1>1. Vectors => SrtAnswers
  BY DEF Vectors
<1> QED
  BY <1>1, VectorsInit, VectorsStep, PTL DEF SrtSpec

=============================================================================
