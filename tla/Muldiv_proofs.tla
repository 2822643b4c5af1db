---------------------------- MODULE Muldiv_proofs ---------------------------
(***************************************************************************)
(* The multiply and divide unit, for every even width: its latency, the    *)
(* invariant of its divider, and the result of each of its operations.     *)
(***************************************************************************)
EXTENDS Muldiv, TLAPS

-----------------------------------------------------------------------------
(* Integers. *)

\* Quotient and remainder of a positive divisor.
LEMMA Euclid ==
  ASSUME NEW n \in Nat \ {0}, NEW x \in Int
  PROVE  x = n * (x \div n) + (x % n) /\ x % n \in 0 .. n - 1 /\ x \div n \in Int
BY SMT

\* They are the only such pair.
LEMMA EuclidUnique ==
  ASSUME NEW n \in Nat \ {0}, NEW d \in Int, NEW m \in 0 .. n - 1
  PROVE  (n * d + m) % n = m /\ (n * d + m) \div n = d
BY SMT

\* A number below the divisor is its own remainder.
LEMMA ModSmall ==
  ASSUME NEW n \in Nat \ {0}, NEW x \in 0 .. n - 1
  PROVE  x % n = x /\ x \div n = 0
BY SMT

\* The remainder of a small negative number is its two's complement.
LEMMA ModNegative ==
  ASSUME NEW n \in Nat \ {0}, NEW x \in Int, -n <= x, x < 0
  PROVE  x % n = x + n
BY SMT

\* Adding a multiple of the divisor leaves the remainder.
LEMMA ModShift ==
  ASSUME NEW n \in Nat \ {0}, NEW x \in Int, NEW k \in Int
  PROVE  (x + n * k) % n = x % n
<1> DEFINE d == x \div n
           m == x % n
<1>1. d \in Int /\ m \in 0 .. n - 1 /\ x = n * d + m
  BY Euclid
<1> HIDE DEF d, m
<1>2. x + n * k = n * (d + k) + m
  BY <1>1, SMT
<1>3. (n * (d + k) + m) % n = m
  BY <1>1, EuclidUnique
<1> QED
  BY <1>2, <1>3 DEF m

\* Reduction modulo a multiple of n does not change the remainder modulo n.
LEMMA ModMod ==
  ASSUME NEW n \in Nat \ {0}, NEW c \in Nat \ {0}, NEW x \in Int
  PROVE  (x % (n * c)) % n = x % n
<1> DEFINE nc == n * c
           d == x \div nc
           m == x % nc
<1>1. nc \in Nat \ {0}
  BY SMT
<1> HIDE DEF nc
<1>2. d \in Int /\ m \in 0 .. nc - 1 /\ x = nc * d + m
  BY <1>1, Euclid
<1> HIDE DEF d, m
<1>3. x = m + n * (c * d) /\ c * d \in Int /\ m \in Int
  BY <1>1, <1>2, SMT DEF nc
<1>4. (m + n * (c * d)) % n = m % n
  BY <1>3, ModShift
<1> QED
  BY <1>3, <1>4 DEF m, nc

-----------------------------------------------------------------------------
(* Widths. *)

\* What the laws of powers say of the widths of the unit.
LEMMA Powers ==
  /\ INST_W \in Nat \ {0}
  /\ 2 ^ (INST_W - 1) \in Nat \ {0} /\ 2 ^ INST_W = 2 * 2 ^ (INST_W - 1)
  /\ 2 ^ (XLEN - 1) \in Nat \ {0} /\ 2 ^ XLEN = 2 * 2 ^ (XLEN - 1)
  /\ 2 ^ XLEN = 2 ^ INST_W * 2 ^ INST_W
  /\ 2 ^ (XLEN - 1) >= 2 ^ INST_W
  /\ 2 ^ (XLEN + 1) = 2 * 2 ^ XLEN
<1>1. XLEN \in Nat \ {0} /\ INST_W \in Nat \ {0} /\ XLEN = INST_W + INST_W
  BY XlenAssumption DEF INST_W
<1>2. /\ INST_W - 1 \in 0 .. PROD_W /\ XLEN - 1 \in 0 .. PROD_W /\ 1 \in 0 .. PROD_W
      /\ INST_W \in 0 .. PROD_W /\ XLEN \in 0 .. PROD_W
  BY <1>1 DEF PROD_W
<1>3. 2 ^ 1 = 2
  BY SMT
<1>4. 2 ^ (INST_W - 1) \in Nat \ {0} /\ 2 ^ (XLEN - 1) \in Nat \ {0}
  BY <1>2, PowerAssumption
<1>5. 2 ^ (1 + (INST_W - 1)) = 2 * 2 ^ (INST_W - 1)
  BY <1>2, <1>3, PowerAssumption
<1>6. 2 ^ (1 + (XLEN - 1)) = 2 * 2 ^ (XLEN - 1)
  BY <1>2, <1>3, PowerAssumption
<1>7. 2 ^ (1 + XLEN) = 2 * 2 ^ XLEN
  BY <1>2, <1>3, PowerAssumption
<1>8. 2 ^ (INST_W + INST_W) = 2 ^ INST_W * 2 ^ INST_W
  BY <1>2, PowerAssumption
<1>9. 2 ^ ((INST_W - 1) + INST_W) = 2 ^ (INST_W - 1) * 2 ^ INST_W
  BY <1>2, PowerAssumption
<1>10. /\ 1 + (INST_W - 1) = INST_W /\ 1 + (XLEN - 1) = XLEN /\ 1 + XLEN = XLEN + 1
       /\ (INST_W - 1) + INST_W = XLEN - 1
  BY <1>1
<1>11. 2 ^ INST_W = 2 * 2 ^ (INST_W - 1)
  BY <1>5, <1>10
<1>12. 2 ^ (XLEN - 1) >= 2 ^ INST_W
  <2> DEFINE p == 2 ^ (INST_W - 1)
             h == 2 ^ INST_W
  <2>1. p \in Nat \ {0} /\ h \in Nat
    BY <1>4, <1>11
  <2>2. 2 ^ (XLEN - 1) = p * h
    BY <1>9, <1>10
  <2> HIDE DEF p, h
  <2>3. p * h >= h
    BY <2>1, SMT
  <2> QED
    BY <2>2, <2>3 DEF h
<1> QED
  BY <1>1, <1>4, <1>6, <1>7, <1>8, <1>10, <1>11, <1>12, Zenon

-----------------------------------------------------------------------------
(* Operands. *)

\* The registers of a W operation hold the low half; sign extension of it.
LEMMA HalfExtends ==
  ASSUME NEW x \in Word
  PROVE  LET l == x % 2 ^ INST_W IN
         /\ l \in 0 .. 2 ^ INST_W - 1
         /\ l >= 2 ^ (INST_W - 1) =>
              SignExtend(x) = 2 ^ XLEN - 2 ^ INST_W + l /\ Wrap(x, INST_W) = l - 2 ^ INST_W
         /\ l < 2 ^ (INST_W - 1) => SignExtend(x) = l /\ Wrap(x, INST_W) = l
<1> DEFINE l == x % 2 ^ INST_W
           f == 2 ^ XLEN
           h == 2 ^ INST_W
           s == 2 ^ (INST_W - 1)
<1>1. f \in Nat \ {0} /\ h \in Nat \ {0} /\ s \in Nat \ {0} /\ h = 2 * s /\ f >= 2 * h
  BY Powers
<1>2. l \in 0 .. h - 1
  <2>1. x \in Int
    BY <1>1 DEF Word
  <2> QED
    BY <1>1, <2>1, Euclid
<1>3. Wrap(x, INST_W) = (IF l >= s THEN l - h ELSE l) /\ SignExtend(x) = (IF l >= s THEN l - h ELSE l) % f
  BY DEF Wrap, SignExtend, Signed
<1> HIDE DEF l, f, h, s
<1>4. CASE l >= s
  <2>1. l - h \in Int /\ -f <= l - h /\ l - h < 0
    BY <1>1, <1>2
  <2>2. (l - h) % f = (l - h) + f
    BY <1>1, <2>1, ModNegative
  <2>3. (l - h) + f = f - h + l
    BY <1>1, <1>2
  <2> QED
    BY <1>1, <1>2, <1>3, <1>4, <2>2, <2>3 DEF l, f, h, s
<1>5. CASE l < s
  <2>1. l \in 0 .. f - 1 /\ ~(l >= s)
    BY <1>1, <1>2, <1>5
  <2>2. l % f = l
    BY <1>1, <2>1, ModSmall
  <2> QED
    BY <1>1, <1>2, <1>3, <1>5, <2>1, <2>2 DEF l, f, h, s
<1> QED
  BY <1>1, <1>2, <1>4, <1>5 DEF l, f, h, s

\* The register Effective yields spells, with the sign it is read with, the
\* number the M extension takes the operand for.
LEMMA EffectiveValue ==
  ASSUME NEW x \in Word, NEW sgn \in BOOLEAN, NEW word \in BOOLEAN
  PROVE  LET e == Effective(x, sgn, word)
             v == Value(x, sgn, word)
         IN  /\ e \in Word /\ v \in Int
             /\ v = IF sgn /\ Msb(e) THEN e - 2 ^ XLEN ELSE e
             /\ word => v \in -(2 ^ (INST_W - 1)) .. 2 ^ INST_W - 1
             /\ word /\ sgn => v < 2 ^ (INST_W - 1)
<1> DEFINE f == 2 ^ XLEN
           g == 2 ^ (XLEN - 1)
           h == 2 ^ INST_W
           s == 2 ^ (INST_W - 1)
           l == x % 2 ^ INST_W
<1>1. /\ f \in Nat \ {0} /\ g \in Nat \ {0} /\ h \in Nat \ {0} /\ s \in Nat \ {0}
      /\ h = 2 * s /\ f = 2 * g /\ g >= h
  BY Powers
<1>2. x \in 0 .. f - 1
  BY DEF Word
<1>3. CASE ~word
  <2>1. x % f = x
    BY <1>1, <1>2, ModSmall
  <2>2. Effective(x, sgn, word) = x
    BY <1>3 DEF Effective
  <2>3. Value(x, sgn, word) = IF sgn THEN (IF x >= g THEN x - f ELSE x) ELSE x
    BY <1>3, <2>1 DEF Value, Wrap, Signed
  <2>4. Msb(x) <=> x >= g
    BY DEF Msb
  <2> HIDE DEF f, g
  <2>5. Value(x, sgn, word) = (IF sgn /\ Msb(x) THEN x - f ELSE x) /\ Value(x, sgn, word) \in Int
    BY <1>1, <1>2, <2>3, <2>4
  <2> QED
    BY <1>3, <2>2, <2>5 DEF f
<1>4. CASE word /\ sgn
  <2>1. Effective(x, sgn, word) = SignExtend(x) /\ Value(x, sgn, word) = Wrap(x, INST_W)
    BY <1>4 DEF Effective, Value
  <2>2. /\ l \in 0 .. h - 1
        /\ l >= s => SignExtend(x) = f - h + l /\ Wrap(x, INST_W) = l - h
        /\ l < s => SignExtend(x) = l /\ Wrap(x, INST_W) = l
    BY HalfExtends
  <2> DEFINE e == SignExtend(x)
             v == Wrap(x, INST_W)
  <2>3. Msb(e) <=> e >= g
    BY DEF Msb
  <2> HIDE DEF f, g, h, s, l, e, v
  <2>4. /\ e \in 0 .. f - 1 /\ v \in Int
        /\ v = IF Msb(e) THEN e - f ELSE e
        /\ v \in -s .. h - 1
        /\ v < s
    <3>1. CASE l >= s
      BY <1>1, <2>2, <2>3, <3>1 DEF e, v
    <3>2. CASE l < s
      BY <1>1, <2>2, <2>3, <3>2 DEF e, v
    <3> QED
      BY <1>1, <2>2, <3>1, <3>2
  <2> QED
    BY <1>4, <2>1, <2>4 DEF f, g, h, s, e, v, Word
<1>5. CASE word /\ ~sgn
  <2>1. Effective(x, sgn, word) = l /\ Value(x, sgn, word) = l
    BY <1>5 DEF Effective, Value
  <2>2. l \in 0 .. h - 1
    BY HalfExtends
  <2> HIDE DEF f, g, h, s, l
  <2>3. l \in 0 .. f - 1 /\ l \in -s .. h - 1 /\ l \in Int
    BY <1>1, <2>2
  <2> QED
    BY <1>5, <2>1, <2>3 DEF f, g, h, s, Word
<1> QED
  BY <1>3, <1>4, <1>5

\* Negation of a register is negation modulo its width.
LEMMA NegateWord ==
  ASSUME NEW x \in Word
  PROVE  /\ Negate(x) = (-x) % 2 ^ XLEN /\ Negate(x) \in Word
         /\ x # 0 => Negate(x) = 2 ^ XLEN - x
<1> DEFINE f == 2 ^ XLEN
<1>1. f \in Nat \ {0} /\ x \in 0 .. f - 1
  BY Powers DEF Word
<1>2. Negate(x) = (f - x) % f
  BY DEF Negate
<1> HIDE DEF f
<1>3. f - x = (-x) + f * 1 /\ f - x \in Int /\ -x \in Int
  BY <1>1
<1>4. (f - x) % f = (-x) % f
  <2> DEFINE z == -x
             k == 1
  <2>1. z \in Int /\ k \in Int /\ f - x = z + f * k
    BY <1>3
  <2> HIDE DEF z, k
  <2>2. (z + f * k) % f = z % f
    BY <1>1, <2>1, ModShift
  <2> QED
    BY <2>1, <2>2 DEF z
<1>5. (f - x) % f \in 0 .. f - 1
  BY <1>1, <1>3, Euclid
<1>6. x # 0 => (f - x) % f = f - x
  BY <1>1, ModSmall
<1> QED
  BY <1>2, <1>4, <1>5, <1>6 DEF f, Word

\* The divider's operands are the magnitudes of the numbers divided.
LEMMA Magnitudes ==
  ASSUME NEW x \in Word, NEW sgn \in BOOLEAN, NEW word \in BOOLEAN
  PROVE  LET e == Effective(x, sgn, word)
             v == Value(x, sgn, word)
         IN  /\ Abs(e, sgn) = Magnitude(v)
             /\ Magnitude(v) \in Word
             /\ word => Magnitude(v) < 2 ^ INST_W
             /\ e = 0 <=> v = 0
             /\ v < 0 <=> sgn /\ Msb(e)
             /\ v \in Int
<1> DEFINE f == 2 ^ XLEN
           g == 2 ^ (XLEN - 1)
           h == 2 ^ INST_W
           s == 2 ^ (INST_W - 1)
           e == Effective(x, sgn, word)
           v == Value(x, sgn, word)
<1>1. /\ f \in Nat \ {0} /\ g \in Nat \ {0} /\ h \in Nat \ {0} /\ s \in Nat \ {0}
      /\ h = 2 * s /\ f = 2 * g /\ g >= h
  BY Powers
<1>2. /\ e \in Word /\ v \in Int
      /\ v = IF sgn /\ Msb(e) THEN e - f ELSE e
      /\ word => v \in -s .. h - 1
      /\ word /\ sgn => v < s
  BY EffectiveValue
<1>3. e \in 0 .. f - 1 /\ (Msb(e) <=> e >= g)
  BY <1>2 DEF Word, Msb
<1>4. Abs(e, sgn) = IF sgn /\ Msb(e) THEN Negate(e) ELSE e
  BY DEF Abs
<1>5. e # 0 => Negate(e) = f - e
  BY <1>2, NegateWord
<1>6. Magnitude(v) = IF v < 0 THEN -v ELSE v
  BY DEF Magnitude
<1> HIDE DEF f, g, h, s, e, v
<1>7. CASE sgn /\ Msb(e)
  <2>1. e # 0 /\ v = e - f /\ v < 0 /\ v # 0
    BY <1>1, <1>2, <1>3, <1>7
  <2>2. Abs(e, sgn) = f - e /\ Magnitude(v) = f - e
    BY <1>1, <1>2, <1>3, <1>4, <1>5, <1>6, <1>7, <2>1
  <2>3. f - e \in 0 .. f - 1
    BY <1>1, <1>3, <2>1
  <2>4. word => f - e < h
    BY <1>1, <1>2, <1>3, <2>1
  <2> QED
    BY <1>2, <1>7, <2>1, <2>2, <2>3, <2>4 DEF f, h, e, v, Word
<1>8. CASE ~(sgn /\ Msb(e))
  <2>1. v = e /\ ~(v < 0) /\ Magnitude(v) = v /\ Abs(e, sgn) = v
    BY <1>2, <1>3, <1>4, <1>6, <1>8
  <2>2. word => v < h
    BY <1>1, <1>2
  <2> QED
    BY <1>2, <1>8, <2>1, <2>2 DEF h, e, v, Word
<1> QED
  BY <1>7, <1>8

\* The register that holds a number modulo 2^XLEN, sign-extended from its low
\* half for a W operation, is the result the M extension defines.
LEMMA Encodes ==
  ASSUME NEW v \in Int, NEW word \in BOOLEAN, NEW y, y = v % 2 ^ XLEN
  PROVE  (IF word THEN SignExtend(y) ELSE y) = Encode(v, word)
<1>1. 2 ^ INST_W \in Nat \ {0} /\ 2 ^ XLEN = 2 ^ INST_W * 2 ^ INST_W
  BY Powers
<1>2. (v % 2 ^ XLEN) % 2 ^ INST_W = v % 2 ^ INST_W
  BY <1>1, ModMod
<1> QED
  BY <1>2 DEF SignExtend, Encode, Wrap

\* Every result fits the register.
LEMMA EncodeWord ==
  ASSUME NEW v \in Int, NEW word \in BOOLEAN
  PROVE  Encode(v, word) \in Word
<1>1. 2 ^ XLEN \in Nat \ {0} /\ 2 ^ INST_W \in Nat \ {0}
  BY Powers
<1>2. v % 2 ^ INST_W \in Int
  BY <1>1, Euclid
<1>3. Wrap(v, INST_W) \in Int
  BY <1>1, <1>2 DEF Wrap, Signed
<1> QED
  BY <1>1, <1>3, Euclid DEF Encode, Word

-----------------------------------------------------------------------------
(* One step of the divider, over the integers. *)

Bit == {0, 1}

\* The next bit of the dividend, of weight c.
LEMMA NextBit ==
  ASSUME NEW a \in Nat, NEW c \in Nat \ {0}
  PROVE  /\ a % (2 * c) >= c =>
              a \div c = 2 * (a \div (2 * c)) + 1 /\ a % (2 * c) = c + (a % c)
         /\ ~(a % (2 * c) >= c) =>
              a \div c = 2 * (a \div (2 * c)) /\ a % (2 * c) = a % c
<1> DEFINE c2 == 2 * c
           d == a \div c2
           m == a % c2
<1>1. c2 \in Nat \ {0}
  OBVIOUS
<1> HIDE DEF c2
<1>2. a = c2 * d + m /\ m \in 0 .. c2 - 1 /\ d \in Int
  BY <1>1, Euclid
<1> HIDE DEF d, m
<1>3. CASE m >= c
  <2>1. a = c * (2 * d + 1) + (m - c) /\ m - c \in 0 .. c - 1 /\ 2 * d + 1 \in Int
    BY <1>2, <1>3, SMT DEF c2
  <2>2. (c * (2 * d + 1) + (m - c)) % c = m - c /\ (c * (2 * d + 1) + (m - c)) \div c = 2 * d + 1
    BY <2>1, EuclidUnique
  <2>3. a % c = m - c /\ a \div c = 2 * d + 1
    BY <2>1, <2>2
  <2> QED
    BY <1>2, <1>3, <2>3 DEF c2, d, m
<1>4. CASE m < c
  <2>1. a = c * (2 * d) + m /\ m \in 0 .. c - 1 /\ 2 * d \in Int
    BY <1>2, <1>4, SMT DEF c2
  <2>2. (c * (2 * d) + m) % c = m /\ (c * (2 * d) + m) \div c = 2 * d
    BY <2>1, EuclidUnique
  <2>3. a % c = m /\ a \div c = 2 * d /\ ~(m >= c)
    BY <1>2, <1>4, <2>1, <2>2
  <2> QED
    BY <2>3 DEF c2, d, m
<1> QED
  BY <1>2, <1>3, <1>4

\* The dividend register holds the bits that are left, shifted to its top by
\* the factor k: its sign bit is the next one, and a shift by one drops it.
LEMMA ShiftOut ==
  ASSUME NEW c \in Nat \ {0}, NEW k \in Nat \ {0}, NEW g, g = c * k,
         NEW bit \in Bit, NEW r \in 0 .. c - 1, NEW reg, reg = (c * bit + r) * k
  PROVE  /\ reg >= g <=> bit = 1
         /\ (2 * reg) % (2 * g) = r * (2 * k)
<1>1. r * k >= 0 /\ r * k < c * k /\ r * (2 * k) = 2 * (r * k) /\ r * k \in Int /\ g \in Nat \ {0}
  BY SMT
<1> DEFINE u == r * k
<1>2. reg = g * bit + u /\ g * bit \in Int /\ bit \in {0, 1}
  BY SMT DEF Bit
<1>3. u >= 0 /\ u < g /\ r * (2 * k) = 2 * u /\ u \in Int
  BY <1>1
<1> HIDE DEF u
<1>4. reg >= g <=> bit = 1
  <2>1. CASE bit = 1
    BY <1>1, <1>2, <1>3, <2>1
  <2>2. CASE bit = 0
    BY <1>1, <1>2, <1>3, <2>2
  <2> QED
    BY <1>2, <2>1, <2>2
<1> DEFINE g2 == 2 * g
           u2 == 2 * u
<1>5. 2 * reg = g2 * bit + u2 /\ u2 \in 0 .. g2 - 1 /\ g2 \in Nat \ {0} /\ bit \in Int
  BY <1>1, <1>2, <1>3, SMT
<1> HIDE DEF g2, u2
<1>6. (g2 * bit + u2) % g2 = u2
  BY <1>5, EuclidUnique
<1> QED
  BY <1>3, <1>4, <1>5, <1>6 DEF g2, u2

\* Restoring subtraction: with the next bit of the dividend, quotient and
\* remainder of the longer dividend.
LEMMA SubtractStep ==
  ASSUME NEW d \in Nat, NEW q \in Nat, NEW b \in Nat, NEW m \in Nat, NEW bit \in Bit,
         d = q * b + m, m < b
  PROVE  /\ 2 * m + bit >= b =>
              2 * d + bit = (2 * q + 1) * b + (2 * m + bit - b) /\ 2 * m + bit - b < b
         /\ 2 * m + bit < b => 2 * d + bit = (2 * q) * b + (2 * m + bit)
<1>1. (2 * q + 1) * b = 2 * (q * b) + b /\ (2 * q) * b = 2 * (q * b)
  BY SMT
<1> DEFINE qb == q * b
<1>2. qb \in Nat
  BY SMT
<1> HIDE DEF qb
<1>3. (2 * q + 1) * b = 2 * qb + b /\ (2 * q) * b = 2 * qb /\ d = qb + m
  BY <1>1 DEF qb
<1> QED
  BY <1>2, <1>3, SMT DEF Bit

\* A quotient is at most the dividend.
LEMMA QuotientBound ==
  ASSUME NEW d \in Nat, NEW q \in Nat, NEW b \in Nat \ {0}, NEW m \in Nat, d = q * b + m
  PROVE  q <= d
<1>1. q * b >= q
  BY SMT
<1> QED
  BY <1>1, SMT

\* Dividing by a positive number does not enlarge.
LEMMA DivBound ==
  ASSUME NEW a \in Nat, NEW c \in Nat \ {0}
  PROVE  a \div c \in Nat /\ a \div c <= a
<1> DEFINE d == a \div c
           m == a % c
<1>1. a = c * d + m /\ m \in 0 .. c - 1 /\ d \in Int
  BY Euclid
<1> HIDE DEF d, m
<1>2. d >= 0
  <2>1. ASSUME d < 0 PROVE FALSE
    <3>1. c * d <= -c
      BY <1>1, <2>1, SMT
    <3> QED
      BY <1>1, <3>1, SMT
  <2> QED
    BY <1>1, <2>1
<1>3. c * d >= d
  BY <1>1, <1>2, SMT
<1> QED
  BY <1>1, <1>2, <1>3 DEF d

-----------------------------------------------------------------------------
(* The divider's registers. *)

DivRegs == [dividend : Word, remainder : Word, quotient : Word, abs_b : Word,
            count : 0 .. XLEN, div_neg : BOOLEAN, rem_neg : BOOLEAN, is_rem : BOOLEAN]

\* The registers d stand in the middle of the division of a: what Restoring says.
Midway(a, d) ==
  /\ a \div 2 ^ d.count = d.quotient * d.abs_b + d.remainder
  /\ d.remainder < d.abs_b
  /\ d.dividend = (a % 2 ^ d.count) * 2 ^ (XLEN - d.count)

\* The remainder with the next bit of the dividend.
Shifted == 2 * div_q.remainder + (IF Msb(div_q.dividend) THEN 1 ELSE 0)

\* The subtracter: the borrow tells whether the divisor fits, and neither the
\* remainder nor the quotient overflows.
LEMMA Subtracter ==
  ASSUME div_q \in DivRegs, div_q.remainder < div_q.abs_b
  PROVE  /\ no_borrow <=> Shifted >= div_q.abs_b
         /\ final_rem = IF Shifted >= div_q.abs_b THEN Shifted - div_q.abs_b ELSE Shifted
         /\ final_rem \in Word
<1> DEFINE f == 2 ^ XLEN
           b == div_q.abs_b
           m == Shifted
<1>1. /\ f \in Nat \ {0} /\ 2 ^ (XLEN + 1) = 2 * f
      /\ div_q.remainder \in 0 .. f - 1 /\ b \in 0 .. f - 1
  BY Powers DEF DivRegs, Word
<1>2. div_q.remainder % f = div_q.remainder
  BY <1>1, ModSmall
<1>3. rem_shifted = m
  BY <1>2 DEF rem_shifted, Shifted
<1>4. rem_sub = (m - b) % (2 * f)
  BY <1>1, <1>3 DEF rem_sub
<1>5. m \in Nat /\ m < 2 * b /\ b \in 0 .. f - 1 /\ 2 * f \in Nat \ {0}
  BY <1>1 DEF Shifted
<1>6. (no_borrow <=> rem_sub < f) /\ final_rem = (IF no_borrow THEN rem_sub ELSE m) % f
  BY <1>3 DEF no_borrow, final_rem
<1> HIDE DEF f, b, m
<1>7. CASE m >= b
  <2>1. m - b \in 0 .. 2 * f - 1 /\ m - b \in 0 .. f - 1
    BY <1>1, <1>5, <1>7
  <2>2. rem_sub = m - b
    BY <1>4, <1>5, <2>1, ModSmall
  <2>3. no_borrow
    BY <1>1, <1>6, <2>1, <2>2
  <2>4. final_rem = m - b
    BY <1>1, <1>6, <2>1, <2>2, <2>3, ModSmall
  <2> QED
    BY <1>7, <2>1, <2>3, <2>4 DEF m, b, f, Word
<1>8. CASE m < b
  <2>1. m - b \in Int /\ -(2 * f) <= m - b /\ m - b < 0 /\ m \in 0 .. f - 1 /\ ~(m >= b)
    BY <1>1, <1>5, <1>8
  <2>2. (m - b) % (2 * f) = (m - b) + (2 * f)
    BY <1>5, <2>1, ModNegative
  <2>3. ~no_borrow
    BY <1>1, <1>4, <1>5, <1>6, <2>1, <2>2
  <2>4. final_rem = m
    BY <1>1, <1>6, <2>1, <2>3, ModSmall
  <2> QED
    BY <2>1, <2>3, <2>4 DEF m, b, f, Word
<1> QED
  BY <1>1, <1>5, <1>7, <1>8

\* One cycle of the divider takes one more bit of the dividend into account.
LEMMA ComputeStep ==
  ASSUME NEW a \in Word, div_q \in DivRegs, div_q.count \in 1 .. XLEN, Midway(a, div_q)
  PROVE  /\ a \div 2 ^ (div_q.count - 1) = final_quot * div_q.abs_b + final_rem
         /\ final_rem < div_q.abs_b /\ final_rem \in Word /\ final_quot \in Word
         /\ (2 * div_q.dividend) % 2 ^ XLEN
              = (a % 2 ^ (div_q.count - 1)) * 2 ^ (XLEN - (div_q.count - 1))
<1> DEFINE cnt == div_q.count
           full == 2 ^ XLEN
           top == 2 ^ (XLEN - 1)
           wt == 2 ^ (cnt - 1)
           wt2 == 2 ^ cnt
           sh == 2 ^ (XLEN - cnt)
           dv == div_q.abs_b
           qt == div_q.quotient
           rm == div_q.remainder
           hi == a \div wt2
           nx == IF a % wt2 >= wt THEN 1 ELSE 0
<1>1. XLEN \in Nat /\ cnt \in 1 .. XLEN
  BY XlenAssumption
<1>2. /\ full \in Nat \ {0} /\ full = 2 * top /\ top \in Nat \ {0}
      /\ a \in 0 .. full - 1 /\ dv \in 0 .. full - 1 /\ qt \in 0 .. full - 1 /\ rm \in 0 .. full - 1
  BY Powers DEF DivRegs, Word
<1>3. /\ wt \in Nat \ {0} /\ wt2 = 2 * wt /\ sh \in Nat \ {0} /\ wt * sh = top
      /\ 2 ^ (XLEN - (cnt - 1)) = 2 * sh
  <2>1. /\ cnt - 1 \in 0 .. PROD_W /\ XLEN - cnt \in 0 .. PROD_W /\ 1 \in 0 .. PROD_W
    BY <1>1 DEF PROD_W
  <2>2. 2 ^ 1 = 2
    BY SMT
  <2>3. wt \in Nat \ {0} /\ sh \in Nat \ {0}
    BY <2>1, PowerAssumption
  <2>4. 2 ^ (1 + (cnt - 1)) = 2 * wt
    BY <2>1, <2>2, PowerAssumption
  <2>5. 2 ^ (1 + (XLEN - cnt)) = 2 * sh
    BY <2>1, <2>2, PowerAssumption
  <2>6. 2 ^ ((cnt - 1) + (XLEN - cnt)) = wt * sh
    BY <2>1, PowerAssumption
  <2>7. 1 + (cnt - 1) = cnt /\ 1 + (XLEN - cnt) = XLEN - (cnt - 1) /\ (cnt - 1) + (XLEN - cnt) = XLEN - 1
    BY <1>1
  <2> QED
    BY <2>3, <2>4, <2>5, <2>6, <2>7
<1>4. hi = qt * dv + rm /\ rm < dv /\ div_q.dividend = (a % wt2) * sh
  BY DEF Midway
<1>5. Msb(div_q.dividend) <=> div_q.dividend >= top
  BY DEF Msb
<1>6. /\ final_quot = (2 * qt + (IF no_borrow THEN 1 ELSE 0)) % full
  BY DEF final_quot
<1>7. nx \in Bit /\ nx \in {0, 1}
  BY DEF Bit
<1>8. nx = 1 <=> a % wt2 >= wt
  OBVIOUS
<1>9. hi = a \div wt2 /\ dv = div_q.abs_b /\ rm = div_q.remainder
  OBVIOUS
<1> HIDE DEF cnt, full, top, wt, wt2, sh, dv, qt, rm, hi, nx
<1>10. wt2 \in Nat \ {0} /\ a \in Nat /\ dv \in Nat \ {0} /\ qt \in Nat /\ rm \in Nat
  BY <1>2, <1>3, <1>4
<1>11. a \div wt = 2 * hi + nx /\ a % wt2 = wt * nx + (a % wt)
  <2>1. wt \in Nat \ {0} /\ wt2 = 2 * wt
    BY <1>3
  <2>2. /\ a % (2 * wt) >= wt =>
             a \div wt = 2 * (a \div (2 * wt)) + 1 /\ a % (2 * wt) = wt + (a % wt)
        /\ ~(a % (2 * wt) >= wt) =>
             a \div wt = 2 * (a \div (2 * wt)) /\ a % (2 * wt) = a % wt
    BY <1>10, <2>1, NextBit
  <2>3. /\ a % wt2 >= wt => a \div wt = 2 * hi + 1 /\ a % wt2 = wt + (a % wt)
        /\ ~(a % wt2 >= wt) => a \div wt = 2 * hi /\ a % wt2 = a % wt
    BY <1>9, <2>1, <2>2, Zenon
  <2> DEFINE r0 == a % wt
             z == a % wt2
  <2>4. r0 \in Int /\ z \in Int /\ hi \in Int
    BY <1>9, <1>10, <2>1, SMT
  <2> HIDE DEF r0, z
  <2>5. CASE nx = 1
    BY <1>8, <2>1, <2>3, <2>4, <2>5 DEF r0, z
  <2>6. CASE nx = 0
    BY <1>8, <2>1, <2>3, <2>4, <2>6 DEF r0, z
  <2> QED
    BY <1>7, <2>5, <2>6
<1>12. a % wt \in 0 .. wt - 1
  <2>1. wt \in Nat \ {0} /\ a \in Int
    BY <1>3, <1>10
  <2> QED
    BY <2>1, Euclid
<1>13. /\ div_q.dividend >= top <=> nx = 1
       /\ (2 * div_q.dividend) % (2 * top) = (a % wt) * (2 * sh)
  <2> DEFINE reg == div_q.dividend
             lo == a % wt
  <2>1. reg = (wt * nx + lo) * sh /\ top = wt * sh /\ wt \in Nat \ {0} /\ sh \in Nat \ {0}
    BY <1>3, <1>4, <1>11
  <2>2. lo \in 0 .. wt - 1
    BY <1>12
  <2> HIDE DEF reg, lo
  <2>3. (reg >= top <=> nx = 1) /\ (2 * reg) % (2 * top) = lo * (2 * sh)
    BY <1>7, <2>1, <2>2, ShiftOut
  <2> QED
    BY <2>3 DEF reg, lo
<1>14. /\ no_borrow <=> 2 * rm + nx >= dv
       /\ final_rem = IF 2 * rm + nx >= dv THEN 2 * rm + nx - dv ELSE 2 * rm + nx
       /\ final_rem \in Word
  <2>1. div_q.remainder < div_q.abs_b /\ (Msb(div_q.dividend) <=> nx = 1)
    BY <1>4, <1>5, <1>9, <1>13
  <2>2. Shifted = 2 * rm + nx
    BY <1>7, <1>9, <2>1 DEF Shifted
  <2>3. /\ no_borrow <=> Shifted >= div_q.abs_b
        /\ final_rem = IF Shifted >= div_q.abs_b THEN Shifted - div_q.abs_b ELSE Shifted
        /\ final_rem \in Word
    BY <2>1, Subtracter
  <2>4. div_q.abs_b = dv
    BY <1>9
  <2>5. no_borrow <=> 2 * rm + nx >= dv
    BY <2>2, <2>3, <2>4
  <2>6. final_rem = IF 2 * rm + nx >= dv THEN 2 * rm + nx - dv ELSE 2 * rm + nx
    <3>1. CASE 2 * rm + nx >= dv
      BY <1>7, <1>10, <2>2, <2>3, <2>4, <3>1
    <3>2. CASE ~(2 * rm + nx >= dv)
      BY <1>7, <1>10, <2>2, <2>3, <2>4, <3>2
    <3> QED
      BY <3>1, <3>2
  <2> QED
    BY <2>3, <2>5, <2>6
<1>15. hi \in Nat /\ hi <= a /\ a \div wt \in Nat /\ a \div wt <= a
  BY <1>3, <1>9, <1>10, DivBound
<1> DEFINE q1 == 2 * qt + (IF no_borrow THEN 1 ELSE 0)
<1>16. a \div wt = q1 * dv + final_rem /\ final_rem < dv /\ final_rem \in Nat
  <2>1. CASE 2 * rm + nx >= dv
    <3>1. q1 = 2 * qt + 1 /\ final_rem = 2 * rm + nx - dv
      BY <1>14, <2>1
    <3>2. 2 * hi + nx = (2 * qt + 1) * dv + (2 * rm + nx - dv) /\ 2 * rm + nx - dv < dv
      BY <1>4, <1>7, <1>10, <1>15, <2>1, SubtractStep
    <3> HIDE DEF q1
    <3>3. 2 * rm + nx - dv \in Nat
      BY <1>7, <1>10, <2>1
    <3> QED
      BY <1>11, <3>1, <3>2, <3>3
  <2>2. CASE 2 * rm + nx < dv
    <3>1. q1 = 2 * qt /\ final_rem = 2 * rm + nx
      BY <1>7, <1>10, <1>14, <2>2
    <3>2. 2 * hi + nx = (2 * qt) * dv + (2 * rm + nx)
      BY <1>4, <1>7, <1>10, <1>15, <2>2, SubtractStep
    <3> HIDE DEF q1
    <3>3. 2 * rm + nx \in Nat
      BY <1>7, <1>10
    <3> QED
      BY <1>11, <2>2, <3>1, <3>2, <3>3
  <2> QED
    BY <1>7, <1>10, <2>1, <2>2
<1>17. q1 \in Nat
  BY <1>10
<1>18. final_quot = q1 % full
  BY <1>6
<1> HIDE DEF q1
<1>19. q1 <= a
  <2>1. q1 <= a \div wt
    BY <1>10, <1>15, <1>16, <1>17, QuotientBound
  <2> QED
    BY <1>10, <1>15, <1>17, <2>1
<1>20. final_quot = q1 /\ final_quot \in Word
  <2>1. q1 \in 0 .. full - 1
    BY <1>2, <1>17, <1>19
  <2>2. q1 % full = q1
    BY <1>2, <2>1, ModSmall
  <2> QED
    BY <1>18, <2>1, <2>2 DEF full, Word
<1>21. /\ a \div wt = final_quot * dv + final_rem
       /\ (2 * div_q.dividend) % full = (a % wt) * (2 * sh)
  BY <1>2, <1>13, <1>16, <1>20
<1>22. 2 ^ (XLEN - (cnt - 1)) = 2 * sh
  BY <1>3
<1> QED
  BY <1>14, <1>16, <1>20, <1>21, <1>22 DEF cnt, wt, full, dv

-----------------------------------------------------------------------------
(* What a request asks for. *)

\* The two numbers Reference computes with.
OperandA(r) == Value(r.a, r.op \in {"MUL", "MULH", "MULHSU", "DIV", "REM"}, r.word)
OperandB(r) == Value(r.b, r.op \in {"MUL", "MULH", "DIV", "REM"}, r.word)

\* What the decoder lets through, field by field.
LEMMA RequestFields ==
  ASSUME NEW r \in Request
  PROVE  /\ r.op \in MulOps \cup DivOps /\ r.a \in Word /\ r.b \in Word /\ r.word \in BOOLEAN
         /\ r.word => r.op \notin {"MULH", "MULHSU", "MULHU"}
BY DEF Request, MulOps, DivOps

\* Quotient and remainder of signed numbers from those of their magnitudes.
LEMMA SignedDivision ==
  ASSUME NEW a \in Int, NEW b \in Int, b # 0, NEW q \in Nat, NEW m \in Nat,
         Magnitude(a) = q * Magnitude(b) + m, m < Magnitude(b)
  PROVE  /\ Quotient(a, b) = IF (a < 0) = (b < 0) THEN q ELSE -q
         /\ a - b * Quotient(a, b) = IF a < 0 THEN -m ELSE m
<1> DEFINE aa == Magnitude(a)
           bb == Magnitude(b)
<1>1. bb \in Nat \ {0} /\ aa \in Nat
  BY DEF Magnitude
<1>2. /\ (a < 0 /\ a = -aa) \/ (~(a < 0) /\ a = aa)
      /\ (b < 0 /\ b = -bb) \/ (~(b < 0) /\ b = bb)
  BY DEF Magnitude
<1>3. aa = q * bb + m /\ m < bb
  OBVIOUS
<1>4. Quotient(a, b) = IF (a < 0) = (b < 0) THEN aa \div bb ELSE -(aa \div bb)
  BY DEF Quotient
<1> HIDE DEF aa, bb
<1>5. aa \div bb = q
  <2>1. aa = bb * q + m /\ m \in 0 .. bb - 1 /\ q \in Int
    BY <1>1, <1>3, SMT
  <2>2. (bb * q + m) \div bb = q
    BY <1>1, <2>1, EuclidUnique
  <2> QED
    BY <2>1, <2>2
<1> DEFINE p == q * bb
<1>6. p \in Int /\ (-bb) * q = -p /\ bb * (-q) = -p /\ (-bb) * (-q) = p /\ bb * q = p
  BY <1>1, SMT
<1>7. aa = p + m
  BY <1>3
<1> HIDE DEF p
<1>8. CASE a < 0 /\ b < 0
  BY <1>1, <1>2, <1>4, <1>5, <1>6, <1>7, <1>8
<1>9. CASE a < 0 /\ ~(b < 0)
  BY <1>1, <1>2, <1>4, <1>5, <1>6, <1>7, <1>9
<1>10. CASE ~(a < 0) /\ b < 0
  BY <1>1, <1>2, <1>4, <1>5, <1>6, <1>7, <1>10
<1>11. CASE ~(a < 0) /\ ~(b < 0)
  BY <1>1, <1>2, <1>4, <1>5, <1>6, <1>7, <1>11
<1> QED
  BY <1>8, <1>9, <1>10, <1>11

\* The operands of the divider, and of the multiplier, are those of Reference.
LEMMA DividerOperands ==
  ASSUME NEW r \in Request, r.op \in DivOps
  PROVE  /\ Abs(a_eff(r), is_signed_div(r.op)) = Magnitude(OperandA(r))
         /\ Abs(b_eff(r), is_signed_div(r.op)) = Magnitude(OperandB(r))
         /\ Magnitude(OperandA(r)) \in Word /\ Magnitude(OperandB(r)) \in Word
         /\ r.word => Magnitude(OperandA(r)) < 2 ^ INST_W
         /\ b_eff(r) = 0 <=> OperandB(r) = 0
         /\ OperandA(r) < 0 <=> is_signed_div(r.op) /\ Msb(a_eff(r))
         /\ OperandB(r) < 0 <=> is_signed_div(r.op) /\ Msb(b_eff(r))
         /\ OperandA(r) \in Int /\ OperandB(r) \in Int
<1>1. r.a \in Word /\ r.b \in Word /\ r.word \in BOOLEAN
  BY RequestFields
<1>2. /\ (r.op \in {"MUL", "MULH", "MULHSU", "DIV", "REM"}) = is_signed_div(r.op)
      /\ (r.op \in {"MUL", "MULH", "DIV", "REM"}) = is_signed_div(r.op)
      /\ is_signed_div(r.op) \in BOOLEAN
  BY DEF DivOps, is_signed_div
<1>3. /\ OperandA(r) = Value(r.a, is_signed_div(r.op), r.word)
      /\ OperandB(r) = Value(r.b, is_signed_div(r.op), r.word)
  BY <1>2 DEF OperandA, OperandB
<1>4. /\ a_eff(r) = Effective(r.a, is_signed_div(r.op), r.word)
      /\ b_eff(r) = Effective(r.b, is_signed_div(r.op), r.word)
  BY DEF a_eff, b_eff
<1> DEFINE sg == is_signed_div(r.op)
           wd == r.word
<1>5. sg \in BOOLEAN /\ wd \in BOOLEAN
  BY <1>1, <1>2
<1> HIDE DEF sg, wd
<1>6. \A y \in Word : LET e == Effective(y, sg, wd)
                          v == Value(y, sg, wd)
                      IN  /\ Abs(e, sg) = Magnitude(v)
                          /\ Magnitude(v) \in Word
                          /\ wd => Magnitude(v) < 2 ^ INST_W
                          /\ e = 0 <=> v = 0
                          /\ v < 0 <=> sg /\ Msb(e)
                          /\ v \in Int
  BY <1>5, Magnitudes
<1> QED
  BY <1>1, <1>3, <1>4, <1>6, Zenon DEF sg, wd

\* Reference, operation by operation.
LEMMA ReferenceOf ==
  ASSUME NEW r \in Request
  PROVE  LET a == OperandA(r)
             b == OperandB(r)
         IN  /\ r.op = "MUL" => Reference(r) = Encode(a * b, r.word)
             /\ r.op \in {"MULH", "MULHSU", "MULHU"} =>
                  Reference(r) = Encode((a * b) \div 2 ^ XLEN, FALSE)
             /\ r.op \in {"DIV", "DIVU"} =>
                  Reference(r) = Encode(IF b = 0 THEN -1 ELSE Quotient(a, b), r.word)
             /\ r.op \in {"REM", "REMU"} =>
                  Reference(r) = Encode(IF b = 0 THEN a ELSE a - b * Quotient(a, b), r.word)
<1>1. r.op = "MUL" => Reference(r) = Encode(OperandA(r) * OperandB(r), r.word)
  BY DEF Reference, OperandA, OperandB
<1>2. r.op \in {"MULH", "MULHSU", "MULHU"} =>
        Reference(r) = Encode((OperandA(r) * OperandB(r)) \div 2 ^ XLEN, FALSE)
  BY DEF Reference, OperandA, OperandB
<1>3. r.op \in {"DIV", "DIVU"} =>
        Reference(r) = Encode(IF OperandB(r) = 0 THEN -1 ELSE Quotient(OperandA(r), OperandB(r)), r.word)
  BY DEF Reference, OperandA, OperandB
<1>4. r.op \in {"REM", "REMU"} =>
        Reference(r) = Encode(IF OperandB(r) = 0 THEN OperandA(r)
                              ELSE OperandA(r) - OperandB(r) * Quotient(OperandA(r), OperandB(r)), r.word)
  BY DEF Reference, OperandA, OperandB
<1> QED
  BY <1>1, <1>2, <1>3, <1>4, Zenon

\* The registers a division starts with.
StartRegs(r) ==
  [dividend |-> dividend(r), remainder |-> 0, quotient |-> 0,
   abs_b |-> Abs(b_eff(r), is_signed_div(r.op)),
   count |-> iterations(r),
   div_neg |-> r.op = "DIV" /\ Msb(a_eff(r)) # Msb(b_eff(r)),
   rem_neg |-> r.op = "REM" /\ Msb(a_eff(r)),
   is_rem |-> r.op \in {"REM", "REMU"}]

\* The number of iterations is that of the dividend's bits.
LEMMA IterationRange ==
  ASSUME NEW r \in Request
  PROVE  iterations(r) \in 1 .. XLEN /\ (r.word => iterations(r) = INST_W)
                                     /\ (~r.word => iterations(r) = XLEN)
<1>1. XLEN \in Nat \ {0} /\ XLEN = 2 * INST_W /\ INST_W \in Nat \ {0}
  BY XlenAssumption, Powers
<1> QED
  BY <1>1 DEF iterations

\* They stand before the first bit of the dividend.
LEMMA StartMidway ==
  ASSUME NEW r \in Request, r.op \in DivOps, b_eff(r) # 0
  PROVE  StartRegs(r) \in DivRegs /\ Midway(Magnitude(OperandA(r)), StartRegs(r))
<1> DEFINE f == 2 ^ XLEN
           h == 2 ^ INST_W
           aa == Magnitude(OperandA(r))
           bb == Magnitude(OperandB(r))
           d == StartRegs(r)
<1>1. f \in Nat \ {0} /\ h \in Nat \ {0} /\ f = h * h
  BY Powers
<1>2. /\ Abs(a_eff(r), is_signed_div(r.op)) = aa /\ Abs(b_eff(r), is_signed_div(r.op)) = bb
      /\ aa \in 0 .. f - 1 /\ bb \in 0 .. f - 1 /\ (r.word => aa < h) /\ OperandB(r) # 0
      /\ OperandB(r) \in Int
  BY DividerOperands DEF Word
<1>3. bb # 0
  BY <1>2 DEF Magnitude
<1>4. /\ d.remainder = 0 /\ d.quotient = 0 /\ d.abs_b = bb /\ d.count = iterations(r)
      /\ d.dividend = dividend(r)
  BY <1>2 DEF StartRegs
<1>5. dividend(r) = IF r.word THEN (aa % h) * h ELSE aa
  BY <1>2 DEF dividend
<1>6. XLEN \in Nat \ {0} /\ XLEN = 2 * INST_W /\ INST_W \in Nat \ {0}
  BY XlenAssumption, Powers
<1> HIDE DEF f, h, aa, bb, d
<1>7. 0 * bb + 0 = 0 /\ 0 < bb
  BY <1>2, <1>3
<1>8. CASE r.word
  <2>1. iterations(r) = INST_W /\ XLEN - INST_W = INST_W
    BY <1>6, <1>8 DEF iterations
  <2>2. aa \in 0 .. h - 1
    BY <1>1, <1>2, <1>8
  <2>3. aa \div h = 0 /\ aa % h = aa
    BY <1>1, <2>2, ModSmall
  <2>4. dividend(r) = (aa % h) * h
    BY <1>5, <1>8
  <2>5. (aa % h) * h \in 0 .. f - 1
    <3>1. aa * h >= 0 /\ aa * h <= (h - 1) * h /\ (h - 1) * h = h * h - h /\ aa * h \in Int
      BY <1>1, <2>2, SMT
    <3> QED
      BY <1>1, <2>3, <3>1
  <2>6. Midway(aa, d)
    BY <1>4, <1>7, <2>1, <2>3, <2>4 DEF Midway, h
  <2>7. d.dividend \in Word /\ d.count \in 0 .. XLEN
    BY <1>4, <1>6, <2>1, <2>4, <2>5 DEF f, Word
  <2> QED
    BY <1>1, <1>2, <1>4, <2>6, <2>7 DEF d, aa, f, Word, StartRegs, DivRegs
<1>9. CASE ~r.word
  <2>1. iterations(r) = XLEN /\ XLEN - XLEN = 0 /\ 2 ^ 0 = 1
    BY <1>6, <1>9 DEF iterations
  <2>2. aa \div f = 0 /\ aa % f = aa
    BY <1>1, <1>2, ModSmall
  <2>3. dividend(r) = aa /\ aa * 1 = aa
    BY <1>2, <1>5, <1>9
  <2>4. Midway(aa, d)
    BY <1>4, <1>7, <2>1, <2>2, <2>3 DEF Midway, f
  <2>5. d.dividend \in Word /\ d.count \in 0 .. XLEN
    BY <1>2, <1>4, <1>6, <2>1, <2>3 DEF f, Word
  <2> QED
    BY <1>1, <1>2, <1>4, <2>4, <2>5 DEF d, aa, f, Word, StartRegs, DivRegs
<1> QED
  BY <1>8, <1>9, RequestFields

\* The sign flags belong to the request r.
FlagsOf(r) ==
  /\ div_q.abs_b = Magnitude(OperandB(r))
  /\ div_q.is_rem <=> r.op \in {"REM", "REMU"}
  /\ r.op \in {"DIV", "DIVU"} => (div_q.div_neg <=> (OperandA(r) < 0) # (OperandB(r) < 0))
  /\ r.op \in {"REM", "REMU"} => (div_q.rem_neg <=> OperandA(r) < 0)

\* The correction of signs at the end of a division yields its result.
LEMMA FinalResult ==
  ASSUME NEW r \in Request, r.op \in DivOps, b_eff(r) # 0, FlagsOf(r),
         final_quot \in Word, final_rem \in Word,
         Magnitude(OperandA(r)) = final_quot * div_q.abs_b + final_rem, final_rem < div_q.abs_b
  PROVE  (IF r.word THEN SignExtend(pre_result) ELSE pre_result) = Reference(r)
<1> DEFINE a == OperandA(r)
           b == OperandB(r)
           q == final_quot
           m == final_rem
<1>1. a \in Int /\ b \in Int /\ b # 0
  BY DividerOperands
<1>2. 2 ^ XLEN \in Nat \ {0}
  BY Powers
<1>3. q \in 0 .. 2 ^ XLEN - 1 /\ m \in 0 .. 2 ^ XLEN - 1 /\ q \in Nat /\ m \in Nat
  BY <1>2 DEF Word
<1>4. Magnitude(a) = q * Magnitude(b) + m /\ m < Magnitude(b)
  BY DEF FlagsOf
<1>5. /\ Quotient(a, b) = IF (a < 0) = (b < 0) THEN q ELSE -q
      /\ a - b * Quotient(a, b) = IF a < 0 THEN -m ELSE m
  <2> HIDE DEF a, b, q, m
  <2> QED
    BY <1>1, <1>3, <1>4, SignedDivision
<1>6. r.word \in BOOLEAN
  BY RequestFields
<1>7. CASE r.op \in {"DIV", "DIVU"}
  <2> DEFINE v == Quotient(a, b)
  <2>1. ~div_q.is_rem /\ (div_q.div_neg <=> (a < 0) # (b < 0))
    BY <1>7 DEF FlagsOf
  <2>2. Reference(r) = Encode(v, r.word)
    BY <1>1, <1>7, ReferenceOf
  <2>3. pre_result = v % 2 ^ XLEN /\ v \in Int
    <3>1. CASE div_q.div_neg
      <4>1. v = -q /\ pre_result = Negate(q)
        BY <1>5, <2>1, <3>1 DEF pre_result
      <4>2. Negate(q) = (-q) % 2 ^ XLEN
        BY NegateWord
      <4> QED
        BY <1>3, <4>1, <4>2
    <3>2. CASE ~div_q.div_neg
      <4>1. v = q /\ pre_result = q
        BY <1>5, <2>1, <3>2 DEF pre_result
      <4>2. q % 2 ^ XLEN = q
        BY <1>2, <1>3, ModSmall
      <4> QED
        BY <1>3, <4>1, <4>2
    <3> QED
      BY <3>1, <3>2
  <2> HIDE DEF v
  <2> QED
    BY <1>6, <2>2, <2>3, Encodes
<1>8. CASE r.op \in {"REM", "REMU"}
  <2> DEFINE v == a - b * Quotient(a, b)
  <2>1. div_q.is_rem /\ (div_q.rem_neg <=> a < 0)
    BY <1>8 DEF FlagsOf
  <2>2. Reference(r) = Encode(v, r.word)
    BY <1>1, <1>8, ReferenceOf
  <2>3. v = IF a < 0 THEN -m ELSE m
    BY <1>5
  <2> HIDE DEF v
  <2>4. pre_result = v % 2 ^ XLEN /\ v \in Int
    <3>1. CASE div_q.rem_neg
      <4>1. v = -m /\ pre_result = Negate(m)
        BY <2>1, <2>3, <3>1 DEF pre_result
      <4>2. Negate(m) = (-m) % 2 ^ XLEN
        BY NegateWord
      <4> QED
        BY <1>3, <4>1, <4>2
    <3>2. CASE ~div_q.rem_neg
      <4>1. v = m /\ pre_result = m
        BY <2>1, <2>3, <3>2 DEF pre_result
      <4>2. m % 2 ^ XLEN = m
        BY <1>2, <1>3, ModSmall
      <4> QED
        BY <1>3, <4>1, <4>2
    <3> QED
      BY <3>1, <3>2
  <2> QED
    BY <1>6, <2>2, <2>4, Encodes
<1> QED
  BY <1>7, <1>8 DEF DivOps

\* Reducing an operand first does not change its encoding.
LEMMA EncodeValue ==
  ASSUME NEW x \in Word, NEW sgn \in BOOLEAN, NEW word \in BOOLEAN
  PROVE  Encode(Value(x, sgn, word), word) = IF word THEN SignExtend(x) ELSE x
<1> DEFINE f == 2 ^ XLEN
           g == 2 ^ (XLEN - 1)
           h == 2 ^ INST_W
           s == 2 ^ (INST_W - 1)
           l == x % 2 ^ INST_W
<1>1. f \in Nat \ {0} /\ h \in Nat \ {0} /\ x \in 0 .. f - 1
  BY Powers DEF Word
<1>2. l \in 0 .. h - 1 /\ x % f = x /\ l % h = l
  <2>1. l \in 0 .. h - 1
    BY HalfExtends
  <2> QED
    BY <1>1, <2>1, ModSmall
<1>3. CASE ~word
  <2>1. Value(x, sgn, word) = (IF sgn /\ x >= g THEN x - f ELSE x)
    BY <1>2, <1>3 DEF Value, Wrap, Signed
  <2>2. (x - f) % f = x
    <3>1. x - f \in Int /\ -f <= x - f /\ x - f < 0
      BY <1>1
    <3>2. (x - f) % f = (x - f) + f
      BY <1>1, <3>1, ModNegative
    <3> QED
      BY <1>1, <3>2
  <2> QED
    BY <1>2, <1>3, <2>1, <2>2 DEF Encode
<1>4. CASE word
  <2>1. Value(x, sgn, word) = (IF sgn /\ l >= s THEN l - h ELSE l)
    BY <1>4 DEF Value, Wrap, Signed
  <2>2. (l - h) % h = l
    <3>1. l - h \in Int /\ -h <= l - h /\ l - h < 0
      BY <1>1, <1>2
    <3>2. (l - h) % h = (l - h) + h
      BY <1>1, <3>1, ModNegative
    <3> QED
      BY <1>1, <1>2, <3>2
  <2>3. Value(x, sgn, word) % h = l
    BY <1>2, <2>1, <2>2
  <2> QED
    BY <1>4, <2>3 DEF Encode, Wrap, SignExtend
<1> QED
  BY <1>3, <1>4

\* The register that holds -1, and the one that holds the least number.
LEMMA EncodeBoundaries ==
  ASSUME NEW word \in BOOLEAN
  PROVE  /\ Encode(-1, word) = 2 ^ XLEN - 1
         /\ Encode(0, word) = 0
         /\ Encode(IF word THEN 2 ^ (INST_W - 1) ELSE 2 ^ (XLEN - 1), word) = int_min(word)
<1> DEFINE f == 2 ^ XLEN
           g == 2 ^ (XLEN - 1)
           h == 2 ^ INST_W
           s == 2 ^ (INST_W - 1)
           o == -1
<1>1. /\ f \in Nat \ {0} /\ g \in Nat \ {0} /\ h \in Nat \ {0} /\ s \in Nat \ {0}
      /\ h = 2 * s /\ f = 2 * g /\ g >= h /\ o \in Int /\ o = -1
  BY Powers
<1>2. /\ \A v \in Int : Encode(v, word) = IF word THEN (IF v % h >= s THEN (v % h) - h ELSE v % h) % f
                                          ELSE v % f
      /\ int_min(word) = IF word THEN f - s ELSE g
  BY DEF Encode, Wrap, Signed, int_min
<1> HIDE DEF f, g, h, s, o
<1>3. o % f = f - 1 /\ o % h = h - 1
  <2>1. -f <= o /\ -h <= o /\ o < 0
    BY <1>1
  <2>2. o % f = o + f /\ o % h = o + h
    BY <1>1, <2>1, ModNegative
  <2> QED
    BY <1>1, <2>2
<1>4. Encode(o, word) = f - 1
  <2>1. h - 1 >= s /\ (h - 1) - h = o
    BY <1>1
  <2> QED
    BY <1>1, <1>2, <1>3, <2>1
<1>5. 0 % f = 0 /\ 0 % h = 0 /\ ~(0 >= s)
  <2>1. 0 \in 0 .. f - 1 /\ 0 \in 0 .. h - 1
    BY <1>1
  <2> QED
    BY <1>1, <2>1, ModSmall
<1>6. Encode(0, word) = 0
  BY <1>2, <1>5
<1>7. Encode(IF word THEN s ELSE g, word) = int_min(word)
  <2>1. s \in 0 .. h - 1 /\ g \in 0 .. f - 1
    BY <1>1
  <2>2. s % h = s /\ g % f = g
    BY <1>1, <2>1, ModSmall
  <2>3. (s - h) % f = f - s
    <3>1. s - h \in Int /\ -f <= s - h /\ s - h < 0
      BY <1>1
    <3>2. (s - h) % f = (s - h) + f
      BY <1>1, <3>1, ModNegative
    <3> QED
      BY <1>1, <3>2
  <2>4. CASE word
    <3>1. Encode(s, word) = (s - h) % f
      <4>1. s \in Int /\ s % h >= s /\ (s % h) - h = s - h
        BY <1>1, <2>2
      <4> QED
        BY <1>2, <2>4, <4>1
    <3>2. (IF word THEN s ELSE g) = s /\ int_min(word) = f - s
      BY <1>2, <2>4
    <3> QED
      BY <2>3, <3>1, <3>2
  <2>5. CASE ~word
    <3>1. Encode(g, word) = g % f
      BY <1>1, <1>2, <2>5
    <3>2. (IF word THEN s ELSE g) = g /\ int_min(word) = g
      BY <1>2, <2>5
    <3> QED
      BY <2>2, <3>1, <3>2
  <2> QED
    BY <2>4, <2>5
<1> QED
  BY <1>1, <1>4, <1>6, <1>7 DEF f, g, s

\* Division by zero and INT_MIN / -1 are answered as the M extension asks.
LEMMA EarlyResult ==
  ASSUME NEW r \in Request, r.op \in DivOps, b_eff(r) = 0 \/ ov(r)
  PROVE  early_result(r) = Reference(r)
<1> DEFINE a == OperandA(r)
           b == OperandB(r)
<1>1. /\ a \in Int /\ b \in Int /\ (b_eff(r) = 0 <=> b = 0)
      /\ r.word \in BOOLEAN /\ r.a \in Word /\ r.b \in Word
  BY DividerOperands, RequestFields
<1>2. CASE b_eff(r) = 0
  <2>1. CASE r.op \in {"DIV", "DIVU"}
    <3>1. early_result(r) = 2 ^ XLEN - 1
      BY <1>2, <2>1 DEF early_result
    <3>2. Reference(r) = Encode(-1, r.word)
      BY <1>1, <1>2, <2>1, ReferenceOf
    <3> QED
      BY <1>1, <3>1, <3>2, EncodeBoundaries
  <2>2. CASE r.op \in {"REM", "REMU"}
    <3>1. early_result(r) = IF r.word THEN SignExtend(r.a) ELSE r.a
      BY <1>2, <2>2 DEF early_result
    <3>2. Reference(r) = Encode(a, r.word)
      BY <1>1, <1>2, <2>2, ReferenceOf
    <3>3. Encode(a, r.word) = IF r.word THEN SignExtend(r.a) ELSE r.a
      <4> DEFINE sg == r.op \in {"MUL", "MULH", "MULHSU", "DIV", "REM"}
      <4>1. sg \in BOOLEAN /\ a = Value(r.a, sg, r.word)
        BY DEF OperandA
      <4> HIDE DEF sg, a
      <4> QED
        BY <1>1, <4>1, EncodeValue
    <3> QED
      BY <3>1, <3>2, <3>3
  <2> QED
    BY <2>1, <2>2 DEF DivOps
<1>3. CASE b_eff(r) # 0 /\ ov(r)
  <2> DEFINE f == 2 ^ XLEN
             g == 2 ^ (XLEN - 1)
             h == 2 ^ INST_W
             s == 2 ^ (INST_W - 1)
             w == IF r.word THEN s ELSE g
  <2>1. /\ f \in Nat \ {0} /\ g \in Nat \ {0} /\ h \in Nat \ {0} /\ s \in Nat \ {0}
        /\ h = 2 * s /\ f = 2 * g /\ g >= h
    BY Powers
  <2>2. is_signed_div(r.op) /\ a_eff(r) = int_min(r.word) /\ b_eff(r) = f - 1
    BY <1>3 DEF ov
  <2>3. /\ (r.op \in {"MUL", "MULH", "MULHSU", "DIV", "REM"}) = TRUE
        /\ (r.op \in {"MUL", "MULH", "DIV", "REM"}) = TRUE
        /\ is_signed_div(r.op) = TRUE
    BY <2>2 DEF is_signed_div
  <2>4. /\ a = Value(r.a, TRUE, r.word) /\ a_eff(r) = Effective(r.a, TRUE, r.word)
        /\ b = Value(r.b, TRUE, r.word) /\ b_eff(r) = Effective(r.b, TRUE, r.word)
    BY <2>3 DEF OperandA, OperandB, a_eff, b_eff
  <2>5. /\ a = IF Msb(a_eff(r)) THEN a_eff(r) - f ELSE a_eff(r)
        /\ b = IF Msb(b_eff(r)) THEN b_eff(r) - f ELSE b_eff(r)
    <3> DEFINE sg == TRUE
    <3>1. /\ sg \in BOOLEAN /\ sg
          /\ a = Value(r.a, sg, r.word) /\ a_eff(r) = Effective(r.a, sg, r.word)
          /\ b = Value(r.b, sg, r.word) /\ b_eff(r) = Effective(r.b, sg, r.word)
      BY <2>4
    <3> HIDE DEF sg, a, b
    <3>2. \A y \in Word :
            Value(y, sg, r.word) = IF sg /\ Msb(Effective(y, sg, r.word))
                                   THEN Effective(y, sg, r.word) - f
                                   ELSE Effective(y, sg, r.word)
      BY <1>1, <3>1, EffectiveValue
    <3> QED
      BY <1>1, <3>1, <3>2
  <2>6. int_min(r.word) = (IF r.word THEN f - s ELSE g) /\ (Msb(a_eff(r)) <=> a_eff(r) >= g)
        /\ (Msb(b_eff(r)) <=> b_eff(r) >= g)
    BY DEF int_min, Msb
  <2>7. w \in Nat \ {0}
    BY <2>1
  <2>8. a = -w /\ b = -1
    <3> HIDE DEF a, b, f, g, h, s
    <3> QED
      BY <1>1, <2>1, <2>2, <2>5, <2>6
  <2>9. Magnitude(a) = w * Magnitude(b) + 0 /\ 0 < Magnitude(b) /\ w \in Nat
    <3> HIDE DEF a, b, w
    <3> QED
      BY <2>7, <2>8 DEF Magnitude
  <2>10. /\ Quotient(a, b) = w
         /\ a - b * Quotient(a, b) = 0
    <3> HIDE DEF a, b, w
    <3>1. b # 0 /\ a < 0 /\ b < 0
      BY <1>1, <2>7, <2>8
    <3> DEFINE m == 0
    <3>2. m \in Nat /\ Magnitude(a) = w * Magnitude(b) + m /\ m < Magnitude(b)
      BY <2>9
    <3> HIDE DEF m
    <3>3. /\ Quotient(a, b) = IF (a < 0) = (b < 0) THEN w ELSE -w
          /\ a - b * Quotient(a, b) = IF a < 0 THEN -m ELSE m
      BY <1>1, <2>9, <3>1, <3>2, SignedDivision
    <3> QED
      BY <3>1, <3>3 DEF m
  <2>11. CASE r.op = "DIV"
    <3>1. early_result(r) = int_min(r.word)
      BY <1>3, <2>11 DEF early_result
    <3>2. Reference(r) = Encode(w, r.word)
      BY <1>1, <1>3, <2>10, <2>11, ReferenceOf
    <3> QED
      BY <1>1, <3>1, <3>2, EncodeBoundaries
  <2>12. CASE r.op = "REM"
    <3>1. early_result(r) = 0
      BY <1>3, <2>12 DEF early_result
    <3>2. Reference(r) = Encode(0, r.word)
      <4>1. Reference(r) = Encode(IF b = 0 THEN a ELSE a - b * Quotient(a, b), r.word)
        BY <2>12, ReferenceOf
      <4> QED
        BY <1>1, <1>3, <2>10, <4>1
    <3> QED
      BY <1>1, <3>1, <3>2, EncodeBoundaries
  <2> QED
    BY <2>2, <2>11, <2>12 DEF is_signed_div
<1> QED
  BY <1>2, <1>3

-----------------------------------------------------------------------------
(* The multiplier. *)

\* A number within a width is what that width spells.
LEMMA WrapExact ==
  ASSUME NEW n \in Nat, NEW t \in Nat \ {0}, 2 ^ (n - 1) = t, 2 ^ n = 2 * t,
         NEW v \in Int, -t <= v, v < t
  PROVE  Wrap(v, n) = v
<1> DEFINE f == 2 * t
<1>1. f \in Nat \ {0} /\ Wrap(v, n) = IF v % f >= t THEN (v % f) - f ELSE v % f
  BY DEF Wrap, Signed
<1>2. CASE v < 0
  <2>1. -f <= v
    OBVIOUS
  <2>2. v % f = v + f
    BY <1>1, <1>2, <2>1, ModNegative
  <2>3. v + f >= t /\ (v + f) - f = v
    OBVIOUS
  <2> HIDE DEF f
  <2> QED
    BY <1>1, <2>2, <2>3
<1>3. CASE v >= 0
  <2>1. v \in 0 .. f - 1 /\ ~(v >= t)
    BY <1>3
  <2>2. v % f = v
    BY <1>1, <2>1, ModSmall
  <2> HIDE DEF f
  <2> QED
    BY <1>1, <2>1, <2>2
<1> QED
  BY <1>2, <1>3

\* The size of a product.
LEMMA ProductBound ==
  ASSUME NEW p \in Nat, NEW k \in Nat, NEW u \in Int, NEW v \in Int,
         -p <= u, u <= p, -k <= v, v <= k
  PROVE  u * v \in Int /\ -(p * k) <= u * v /\ u * v <= p * k
<1>1. \A x \in 0 .. p, y \in 0 .. k : x * y >= 0 /\ x * y <= p * k /\ x * y \in Int
  <2> SUFFICES ASSUME NEW x \in 0 .. p, NEW y \in 0 .. k
               PROVE  x * y >= 0 /\ x * y <= p * k /\ x * y \in Int
    OBVIOUS
  <2>1. x * y <= p * y
    BY SMT
  <2>2. p * y <= p * k
    BY SMT
  <2>3. x * y >= 0 /\ x * y \in Int /\ p * y \in Int /\ p * k \in Int
    BY SMT
  <2> QED
    BY <2>1, <2>2, <2>3
<1> DEFINE au == IF u < 0 THEN -u ELSE u
           av == IF v < 0 THEN -v ELSE v
           w == au * av
           l == p * k
<1>2. au \in 0 .. p /\ av \in 0 .. k /\ (u = au \/ u = -au) /\ (v = av \/ v = -av)
  OBVIOUS
<1>3. w >= 0 /\ w <= l /\ w \in Int
  BY <1>1, <1>2
<1>4. l \in Int
  BY SMT
<1> HIDE DEF au, av, l
<1>5. u * v = w \/ u * v = -w
  BY <1>2, SMT
<1> HIDE DEF w
<1> QED
  BY <1>3, <1>4, <1>5 DEF l

\* A request's operands, as the 65-bit registers of the code hold them.
OperandRange == -(2 ^ XLEN) .. 2 ^ XLEN

LEMMA MultiplierOperands ==
  ASSUME NEW r \in Request, r.op \in MulOps
  PROVE  /\ Extended(r.a, mul_signed_a(r.op), r.word) = OperandA(r)
         /\ Extended(r.b, mul_signed_b(r.op), r.word) = OperandB(r)
         /\ OperandA(r) \in OperandRange /\ OperandB(r) \in OperandRange
<1>1. r.a \in Word /\ r.b \in Word /\ r.word \in BOOLEAN
  BY RequestFields
<1>2. \A y \in Word, sg \in BOOLEAN, wd \in BOOLEAN :
         /\ Extended(y, sg, wd) = Value(y, sg, wd)
         /\ Value(y, sg, wd) \in OperandRange
  <2> SUFFICES ASSUME NEW y \in Word, NEW sg \in BOOLEAN, NEW wd \in BOOLEAN
               PROVE  Extended(y, sg, wd) = Value(y, sg, wd) /\ Value(y, sg, wd) \in OperandRange
    OBVIOUS
  <2> DEFINE e == Effective(y, sg, wd)
             v == Value(y, sg, wd)
             f == 2 ^ XLEN
             g == 2 ^ (XLEN - 1)
  <2>1. f \in Nat \ {0} /\ g \in Nat \ {0} /\ f = 2 * g
    BY Powers
  <2>2. e \in Word /\ v = IF sg /\ Msb(e) THEN e - f ELSE e
    BY EffectiveValue
  <2>3. Extended(y, sg, wd) = IF sg THEN (IF e >= g THEN e - f ELSE e) ELSE e
    BY DEF Extended, Signed
  <2>4. (Msb(e) <=> e >= g) /\ e \in 0 .. f - 1
    BY <2>2 DEF Msb, Word
  <2> HIDE DEF e, v, f, g
  <2>5. Extended(y, sg, wd) = v /\ v \in -f .. f
    BY <2>1, <2>2, <2>3, <2>4
  <2> QED
    BY <2>5 DEF v, f, OperandRange
<1>3. /\ (r.op \in {"MUL", "MULH", "MULHSU", "DIV", "REM"}) = mul_signed_a(r.op)
      /\ (r.op \in {"MUL", "MULH", "DIV", "REM"}) = mul_signed_b(r.op)
      /\ mul_signed_a(r.op) \in BOOLEAN /\ mul_signed_b(r.op) \in BOOLEAN
  BY DEF MulOps, mul_signed_a, mul_signed_b
<1>4. /\ OperandA(r) = Value(r.a, mul_signed_a(r.op), r.word)
      /\ OperandB(r) = Value(r.b, mul_signed_b(r.op), r.word)
  BY <1>3 DEF OperandA, OperandB
<1> QED
  BY <1>1, <1>2, <1>3, <1>4

\* The two partial products fit, and their sum is the product, which fits too.
LEMMA PartialProducts ==
  ASSUME NEW a \in OperandRange, NEW b \in OperandRange
  PROVE  LET lo == a * (b % 2 ^ INST_W)
             hi == a * (b \div 2 ^ INST_W)
         IN  /\ Wrap(lo, PP_W) = lo /\ Wrap(hi, PP_W) = hi
             /\ hi * 2 ^ INST_W + lo = a * b
             /\ Wrap(a * b, PROD_W) = a * b
             /\ a * b \in -(2 ^ (PROD_W - 1)) .. 2 ^ (PROD_W - 1) - 1
<1> DEFINE f == 2 ^ XLEN
           h == 2 ^ INST_W
           m == b % h
           d == b \div h
           tp == 2 ^ (PP_W - 1)
           tq == 2 ^ (PROD_W - 1)
<1>1. f \in Nat \ {0} /\ h \in Nat \ {0} /\ f = h * h
  BY Powers
<1>2. a \in Int /\ b \in Int /\ -f <= a /\ a <= f /\ -f <= b /\ b <= f
  BY <1>1 DEF OperandRange
<1>3. /\ tp = (2 * f) * h /\ 2 ^ PP_W = 2 * tp /\ tq = (2 * f) * f /\ 2 ^ PROD_W = 2 * tq
      /\ PP_W \in Nat /\ PROD_W \in Nat
  <2>1. XLEN \in Nat \ {0} /\ INST_W \in Nat \ {0} /\ XLEN = 2 * INST_W
    BY XlenAssumption, Powers
  <2>2. /\ XLEN \in 0 .. PROD_W /\ INST_W \in 0 .. PROD_W /\ XLEN + 1 \in 0 .. PROD_W
        /\ 1 \in 0 .. PROD_W /\ PP_W - 1 \in 0 .. PROD_W /\ PROD_W - 1 \in 0 .. PROD_W
        /\ PP_W \in Nat /\ PROD_W \in Nat
    BY <2>1 DEF PP_W, PROD_W
  <2>3. 2 ^ 1 = 2 /\ 2 ^ (XLEN + 1) = 2 * f
    BY Powers, SMT
  <2>4. 2 ^ ((XLEN + 1) + INST_W) = 2 ^ (XLEN + 1) * 2 ^ INST_W
    BY <2>2, PowerAssumption
  <2>5. 2 ^ ((XLEN + 1) + XLEN) = 2 ^ (XLEN + 1) * 2 ^ XLEN
    BY <2>2, PowerAssumption
  <2>6. 2 ^ (1 + (PP_W - 1)) = 2 * 2 ^ (PP_W - 1)
    BY <2>2, <2>3, PowerAssumption
  <2>7. 2 ^ (1 + (PROD_W - 1)) = 2 * 2 ^ (PROD_W - 1)
    BY <2>2, <2>3, PowerAssumption
  <2>8. /\ (XLEN + 1) + INST_W = PP_W - 1 /\ (XLEN + 1) + XLEN = PROD_W - 1
        /\ 1 + (PP_W - 1) = PP_W /\ 1 + (PROD_W - 1) = PROD_W
    BY <2>1 DEF PP_W, PROD_W
  <2> QED
    BY <2>2, <2>3, <2>4, <2>5, <2>6, <2>7, <2>8
<1> HIDE DEF f, h, tp, tq
<1>4. b = h * d + m /\ m \in 0 .. h - 1 /\ d \in Int
  BY <1>1, <1>2, Euclid
<1> HIDE DEF m, d
<1>5. -h <= d /\ d <= h
  <2>1. ASSUME d > h PROVE FALSE
    <3>1. h * d >= h * (h + 1)
      BY <1>1, <1>4, <2>1, SMT
    <3>2. h * (h + 1) = f + h
      BY <1>1, SMT
    <3> QED
      BY <1>1, <1>2, <1>4, <3>1, <3>2, SMT
  <2>2. ASSUME d < -h PROVE FALSE
    <3>1. h * d <= h * (-h - 1)
      BY <1>1, <1>4, <2>2, SMT
    <3>2. h * (-h - 1) = -f - h
      BY <1>1, SMT
    <3> QED
      BY <1>1, <1>2, <1>4, <3>1, <3>2, SMT
  <2> QED
    BY <1>1, <1>4, <2>1, <2>2
<1> DEFINE lo == a * m
           hi == a * d
           ab == a * b
           fh == f * h
           ff == f * f
<1>6. lo \in Int /\ -fh <= lo /\ lo <= fh
  BY <1>1, <1>2, <1>4, ProductBound
<1>7. hi \in Int /\ -fh <= hi /\ hi <= fh
  BY <1>1, <1>2, <1>4, <1>5, ProductBound
<1>8. ab \in Int /\ -ff <= ab /\ ab <= ff
  BY <1>1, <1>2, ProductBound
<1>9. fh \in Nat \ {0} /\ ff \in Nat \ {0} /\ tp = 2 * fh /\ tq = 2 * ff
  BY <1>1, <1>3, SMT
<1>10. hi * h + lo = ab
  BY <1>1, <1>2, <1>4, SMT
<1> HIDE DEF lo, hi, ab, fh, ff
<1>11. /\ tp \in Nat \ {0} /\ -tp <= lo /\ lo < tp /\ -tp <= hi /\ hi < tp
       /\ tq \in Nat \ {0} /\ -tq <= ab /\ ab < tq
  BY <1>6, <1>7, <1>8, <1>9
<1>12. 2 ^ (PP_W - 1) = tp /\ 2 ^ (PROD_W - 1) = tq
  BY DEF tp, tq
<1>13. Wrap(lo, PP_W) = lo /\ Wrap(hi, PP_W) = hi
  BY <1>3, <1>6, <1>7, <1>11, <1>12, WrapExact
<1>14. Wrap(ab, PROD_W) = ab
  BY <1>3, <1>8, <1>11, <1>12, WrapExact
<1>15. ab \in -tq .. tq - 1
  BY <1>8, <1>11
<1> QED
  BY <1>10, <1>12, <1>13, <1>14, <1>15 DEF lo, hi, ab, h, m, d

\* The half of the product that is selected is the result.
LEMMA MulResult ==
  ASSUME NEW r \in Request, r.op \in MulOps, op_q = r.op,
         mul_product_q = OperandA(r) * OperandB(r)
  PROVE  (IF r.word THEN SignExtend(mul_sel) ELSE mul_sel) = Reference(r)
<1> DEFINE p == OperandA(r) * OperandB(r)
           f == 2 ^ XLEN
<1>1. OperandA(r) \in Int /\ OperandB(r) \in Int /\ f \in Nat \ {0}
  BY MultiplierOperands, Powers DEF OperandRange
<1>2. p \in Int
  BY <1>1, SMT
<1>3. r.word \in BOOLEAN /\ (r.word => r.op \notin {"MULH", "MULHSU", "MULHU"})
  BY RequestFields
<1>4. CASE r.op = "MUL"
  <2>1. mul_sel = p % f /\ Reference(r) = Encode(p, r.word)
    BY <1>4, ReferenceOf DEF mul_sel
  <2> HIDE DEF p, f
  <2> QED
    BY <1>2, <1>3, <2>1, Encodes DEF f
<1>5. CASE r.op # "MUL"
  <2>1. r.op \in {"MULH", "MULHSU", "MULHU"}
    BY <1>5 DEF MulOps
  <2>2. mul_sel = (p \div f) % f /\ Reference(r) = Encode(p \div f, FALSE) /\ ~r.word
    BY <1>3, <1>5, <2>1, ReferenceOf DEF mul_sel
  <2> QED
    BY <2>2 DEF Encode
<1> QED
  BY <1>4, <1>5

-----------------------------------------------------------------------------
(* The inductive invariant. *)

\* Every register has the type of its width.
Typed ==
  /\ state_q \in {"IDLE", "MUL_IN", "MUL_MID", "MUL_OUT", "COMPUTE", "DONE"}
  /\ result_q \in Word /\ op_q \in MulOps /\ word_op_q \in BOOLEAN
  /\ mul_product_q \in -(2 ^ (PROD_W - 1)) .. 2 ^ (PROD_W - 1) - 1
  /\ div_q \in DivRegs
  /\ req \in Request

\* What the pipeline of the multiplier holds, and for how long.
Multiplies ==
  /\ state_q \in {"MUL_IN", "MUL_MID", "MUL_OUT"} =>
       req.op \in MulOps /\ op_q = req.op /\ word_op_q = req.word
  /\ state_q = "MUL_IN" =>
       mul_q = [a |-> OperandA(req), b |-> OperandB(req)] /\ cycles = 1
  /\ state_q = "MUL_MID" =>
       /\ pp_q = [lo |-> OperandA(req) * (OperandB(req) % 2 ^ INST_W),
                  hi |-> OperandA(req) * (OperandB(req) \div 2 ^ INST_W)]
       /\ cycles = 2
  /\ state_q = "MUL_OUT" => mul_product_q = OperandA(req) * OperandB(req) /\ cycles = 3

\* What the divider holds after iterations(req) - count of its cycles.
DividesOn ==
  state_q = "COMPUTE" =>
    /\ req.op \in DivOps /\ word_op_q = req.word
    /\ b_eff(req) # 0 /\ ~ov(req)
    /\ div_q.count \in 1 .. iterations(req)
    /\ cycles = iterations(req) - div_q.count + 1
    /\ FlagsOf(req)
    /\ Midway(Magnitude(OperandA(req)), div_q)

MuldivInv == Typed /\ Multiplies /\ DividesOn /\ ResultCorrect /\ AnswersInTime

\* Every result of the M extension fits the register.
LEMMA ReferenceWord ==
  ASSUME NEW r \in Request
  PROVE  Reference(r) \in Word
<1> DEFINE a == OperandA(r)
           b == OperandB(r)
<1>1. r.word \in BOOLEAN /\ r.op \in MulOps \cup DivOps /\ 2 ^ XLEN \in Nat \ {0}
  BY RequestFields, Powers
<1>2. CASE r.op \in MulOps
  <2>1. a \in Int /\ b \in Int
    BY <1>1, <1>2, MultiplierOperands DEF OperandRange
  <2>2. a * b \in Int
    BY <2>1, SMT
  <2>3. (a * b) \div 2 ^ XLEN \in Int
    BY <1>1, <2>2, Euclid
  <2>4. \A v \in Int, wd \in BOOLEAN : Encode(v, wd) \in Word
    BY EncodeWord
  <2>5. Reference(r) = Encode(a * b, r.word) \/ Reference(r) = Encode((a * b) \div 2 ^ XLEN, FALSE)
    BY <1>2, ReferenceOf DEF MulOps
  <2> QED
    BY <1>1, <2>2, <2>3, <2>4, <2>5, Zenon
<1>3. CASE r.op \in DivOps
  <2>1. a \in Int /\ b \in Int
    BY <1>3, DividerOperands
  <2> HIDE DEF a, b
  <2>2. b # 0 => Quotient(a, b) \in Int /\ b * Quotient(a, b) \in Int
    <3> SUFFICES ASSUME b # 0 PROVE Quotient(a, b) \in Int /\ b * Quotient(a, b) \in Int
      OBVIOUS
    <3>1. Magnitude(a) \in Int /\ Magnitude(b) \in Nat \ {0}
      BY <2>1 DEF Magnitude
    <3>2. Magnitude(a) \div Magnitude(b) \in Int
      BY <3>1, Euclid
    <3>3. Quotient(a, b) \in Int
      BY <3>2 DEF Quotient
    <3> QED
      BY <2>1, <3>3, SMT
  <2> DEFINE vq == IF b = 0 THEN -1 ELSE Quotient(a, b)
             vr == IF b = 0 THEN a ELSE a - b * Quotient(a, b)
  <2>3. vq \in Int /\ vr \in Int
    BY <2>1, <2>2
  <2>4. Reference(r) = Encode(vq, r.word) \/ Reference(r) = Encode(vr, r.word)
    BY <1>3, ReferenceOf DEF DivOps, a, b
  <2> HIDE DEF vq, vr
  <2> QED
    BY <1>1, <2>3, <2>4, EncodeWord
<1> QED
  BY <1>1, <1>2, <1>3

\* A unit that has never been used.
LEMMA MuldivInit == Init => MuldivInv
<1> SUFFICES ASSUME Init PROVE MuldivInv
  OBVIOUS
<1>1. 2 ^ XLEN \in Nat \ {0} /\ 0 \in Word
  BY Powers DEF Word
<1>2. XLEN \in Nat
  BY XlenAssumption
<1>3. 0 \in -(2 ^ (PROD_W - 1)) .. 2 ^ (PROD_W - 1) - 1
  <2>1. PROD_W - 1 \in 0 .. PROD_W
    BY <1>2, XlenAssumption DEF PROD_W
  <2>2. 2 ^ (PROD_W - 1) \in Nat \ {0}
    BY <2>1, PowerAssumption
  <2> QED
    BY <2>2
<1>4. div_q \in DivRegs
  BY <1>1, <1>2 DEF Init, DivRegs
<1>5. req \in Request
  BY <1>1 DEF Init, Request, MulOps
<1>6. Typed
  BY <1>1, <1>3, <1>4, <1>5 DEF Init, Typed, MulOps
<1> QED
  BY <1>6 DEF Init, MuldivInv, Multiplies, DividesOn, ResultCorrect, AnswersInTime

\* An accepted multiplication.
LEMMA StartMulStep ==
  ASSUME MuldivInv, NEW r \in Request, StartMul(r)
  PROVE  MuldivInv'
<1>1. /\ state_q' = "MUL_IN" /\ req' = r /\ word_op_q' = r.word /\ op_q' = r.op /\ r.op \in MulOps
      /\ cycles' = 1 /\ result_q' = result_q /\ mul_product_q' = mul_product_q /\ div_q' = div_q
  BY DEF StartMul, Start
<1>2. mul_q' = [a |-> OperandA(r), b |-> OperandB(r)]
  BY <1>1, MultiplierOperands DEF StartMul
<1>3. r.word \in BOOLEAN
  BY RequestFields
<1>4. Typed'
  BY <1>1, <1>3 DEF MuldivInv, Typed
<1>5. Multiplies'
  BY <1>1, <1>2 DEF Multiplies
<1> QED
  BY <1>1, <1>4, <1>5 DEF MuldivInv, DividesOn, ResultCorrect, AnswersInTime

\* An accepted division that needs no iteration.
LEMMA StartDivEarlyStep ==
  ASSUME MuldivInv, NEW r \in Request, StartDivEarly(r)
  PROVE  MuldivInv'
<1>1. /\ state_q' = "DONE" /\ req' = r /\ word_op_q' = r.word /\ op_q' = op_q /\ r.op \in DivOps
      /\ cycles' = 1 /\ mul_product_q' = mul_product_q /\ div_q' = div_q
      /\ b_eff(r) = 0 \/ ov(r)
      /\ result_q' = early_result(r)
  BY DEF StartDivEarly, Start
<1>2. result_q' = Reference(r) /\ Reference(r) \in Word
  BY <1>1, EarlyResult, ReferenceWord
<1>3. r.word \in BOOLEAN
  BY RequestFields
<1>4. Typed'
  BY <1>1, <1>2, <1>3 DEF MuldivInv, Typed
<1>5. ResultCorrect'
  BY <1>1, <1>2 DEF ResultCorrect
<1>6. AnswersInTime'
  BY <1>1 DEF AnswersInTime, MulOps, DivOps
<1> QED
  BY <1>1, <1>4, <1>5, <1>6 DEF MuldivInv, DividesOn, Multiplies

\* An accepted division.
LEMMA StartDivStep ==
  ASSUME MuldivInv, NEW r \in Request, StartDiv(r)
  PROVE  MuldivInv'
<1>1. /\ state_q' = "COMPUTE" /\ req' = r /\ word_op_q' = r.word /\ op_q' = op_q /\ r.op \in DivOps
      /\ cycles' = 1 /\ mul_product_q' = mul_product_q /\ result_q' = result_q
      /\ b_eff(r) # 0 /\ ~ov(r)
      /\ div_q' = StartRegs(r)
  BY DEF StartDiv, Start, StartRegs
<1>2. StartRegs(r) \in DivRegs /\ Midway(Magnitude(OperandA(r)), StartRegs(r))
  BY <1>1, StartMidway
<1>3. r.word \in BOOLEAN
  BY RequestFields
<1>4. Typed'
  BY <1>1, <1>2, <1>3 DEF MuldivInv, Typed
<1>5. /\ div_q'.count = iterations(r) /\ div_q'.abs_b = Abs(b_eff(r), is_signed_div(r.op))
      /\ div_q'.div_neg = (r.op = "DIV" /\ Msb(a_eff(r)) # Msb(b_eff(r)))
      /\ div_q'.rem_neg = (r.op = "REM" /\ Msb(a_eff(r)))
      /\ div_q'.is_rem = (r.op \in {"REM", "REMU"})
  BY <1>1 DEF StartRegs
<1>6. /\ div_q'.count \in 1 .. iterations(r) /\ cycles' = iterations(r) - div_q'.count + 1
  BY <1>1, <1>5, IterationRange
<1>7. FlagsOf(r)'
  <2>1. /\ div_q'.abs_b = Magnitude(OperandB(r))
        /\ OperandA(r) < 0 <=> is_signed_div(r.op) /\ Msb(a_eff(r))
        /\ OperandB(r) < 0 <=> is_signed_div(r.op) /\ Msb(b_eff(r))
    BY <1>1, <1>5, DividerOperands
  <2>2. r.op \in {"DIV", "DIVU"} => (div_q'.div_neg <=> (OperandA(r) < 0) # (OperandB(r) < 0))
    <3>1. CASE r.op = "DIV"
      <4>1. (OperandA(r) < 0) = Msb(a_eff(r)) /\ (OperandB(r) < 0) = Msb(b_eff(r))
        BY <2>1, <3>1 DEF is_signed_div, Msb
      <4>2. div_q'.div_neg = (Msb(a_eff(r)) # Msb(b_eff(r)))
        BY <1>5, <3>1
      <4> QED
        BY <4>1, <4>2
    <3>2. CASE r.op = "DIVU"
      <4>1. (OperandA(r) < 0) = FALSE /\ (OperandB(r) < 0) = FALSE
        BY <2>1, <3>2 DEF is_signed_div
      <4>2. div_q'.div_neg = FALSE
        BY <1>5, <3>2
      <4> QED
        BY <4>1, <4>2
    <3> QED
      BY <3>1, <3>2
  <2>3. r.op \in {"REM", "REMU"} => (div_q'.rem_neg <=> OperandA(r) < 0)
    BY <1>5, <2>1 DEF is_signed_div, Msb
  <2> QED
    BY <1>5, <2>1, <2>2, <2>3 DEF FlagsOf
<1>8. DividesOn'
  <2>1. FlagsOf(req)'
    BY <1>1, <1>7 DEF FlagsOf
  <2>2. Midway(Magnitude(OperandA(req)), div_q)'
    BY <1>1, <1>2
  <2> QED
    BY <1>1, <1>6, <2>1, <2>2 DEF DividesOn
<1> QED
  BY <1>1, <1>4, <1>8 DEF MuldivInv, Multiplies, ResultCorrect, AnswersInTime

\* The three stages of the multiplier.
LEMMA MultiplierStep ==
  ASSUME MuldivInv, MulIn \/ MulMid \/ MulOut
  PROVE  MuldivInv'
<1> DEFINE a == OperandA(req)
           b == OperandB(req)
<1>1. /\ req' = req /\ word_op_q' = word_op_q /\ op_q' = op_q /\ div_q' = div_q
      /\ cycles' = cycles + 1
      /\ req.op \in MulOps /\ op_q = req.op /\ word_op_q = req.word /\ req \in Request
  BY DEF MuldivInv, Typed, Multiplies, MulIn, MulMid, MulOut, Older
<1>2. a \in OperandRange /\ b \in OperandRange
  BY <1>1, MultiplierOperands
<1>3. /\ Wrap(a * (b % 2 ^ INST_W), PP_W) = a * (b % 2 ^ INST_W)
      /\ Wrap(a * (b \div 2 ^ INST_W), PP_W) = a * (b \div 2 ^ INST_W)
      /\ (a * (b \div 2 ^ INST_W)) * 2 ^ INST_W + a * (b % 2 ^ INST_W) = a * b
      /\ Wrap(a * b, PROD_W) = a * b
      /\ a * b \in -(2 ^ (PROD_W - 1)) .. 2 ^ (PROD_W - 1) - 1
  BY <1>2, PartialProducts
<1>4. CASE MulIn
  <2>1. /\ state_q' = "MUL_MID" /\ result_q' = result_q /\ mul_product_q' = mul_product_q
        /\ mul_q.a = a /\ mul_q.b = b /\ cycles = 1
    BY <1>4 DEF MulIn, MuldivInv, Multiplies
  <2>2. pp_q' = [lo |-> a * (b % 2 ^ INST_W), hi |-> a * (b \div 2 ^ INST_W)]
    BY <1>3, <1>4, <2>1 DEF MulIn
  <2>3. Typed'
    BY <1>1, <2>1 DEF MuldivInv, Typed
  <2>4. Multiplies'
    BY <1>1, <2>1, <2>2 DEF Multiplies
  <2> QED
    BY <2>1, <2>3, <2>4 DEF MuldivInv, DividesOn, ResultCorrect, AnswersInTime
<1>5. CASE MulMid
  <2>1. /\ state_q' = "MUL_OUT" /\ result_q' = result_q
        /\ pp_q.lo = a * (b % 2 ^ INST_W) /\ pp_q.hi = a * (b \div 2 ^ INST_W) /\ cycles = 2
    BY <1>5 DEF MulMid, MuldivInv, Multiplies
  <2>2. mul_product_q' = a * b
    BY <1>3, <1>5, <2>1 DEF MulMid
  <2>3. Typed'
    BY <1>1, <1>3, <2>1, <2>2 DEF MuldivInv, Typed
  <2>4. Multiplies'
    BY <1>1, <2>1, <2>2 DEF Multiplies
  <2> QED
    BY <2>1, <2>3, <2>4 DEF MuldivInv, DividesOn, ResultCorrect, AnswersInTime
<1>6. CASE MulOut
  <2>1. /\ state_q' = "DONE" /\ mul_product_q' = mul_product_q /\ mul_product_q = a * b /\ cycles = 3
    BY <1>6 DEF MulOut, MuldivInv, Multiplies
  <2>2. result_q' = IF req.word THEN SignExtend(mul_sel) ELSE mul_sel
    BY <1>1, <1>6 DEF MulOut
  <2>3. (IF req.word THEN SignExtend(mul_sel) ELSE mul_sel) = Reference(req)
    BY <1>1, <2>1, MulResult
  <2>4. result_q' = Reference(req) /\ Reference(req) \in Word
    BY <1>1, <2>2, <2>3, ReferenceWord
  <2>5. Typed'
    BY <1>1, <2>1, <2>4 DEF MuldivInv, Typed
  <2>6. ResultCorrect'
    BY <1>1, <2>4 DEF ResultCorrect
  <2>7. AnswersInTime'
    BY <1>1, <2>1 DEF AnswersInTime
  <2> QED
    BY <2>1, <2>5, <2>6, <2>7 DEF MuldivInv, DividesOn, Multiplies
<1> QED
  BY <1>4, <1>5, <1>6

\* One cycle of a division.
LEMMA DividerStep ==
  ASSUME MuldivInv, Compute
  PROVE  MuldivInv'
<1> DEFINE aa == Magnitude(OperandA(req))
<1>1. /\ state_q = "COMPUTE" /\ req' = req /\ word_op_q' = word_op_q /\ op_q' = op_q
      /\ mul_product_q' = mul_product_q /\ cycles' = cycles + 1
      /\ div_q' = [div_q EXCEPT !.remainder = final_rem, !.quotient = final_quot,
                                !.dividend = (2 * @) % 2 ^ XLEN, !.count = @ - 1]
  BY DEF Compute, Older
<1>2. /\ req \in Request /\ req.op \in DivOps /\ word_op_q = req.word
      /\ b_eff(req) # 0 /\ ~ov(req) /\ div_q \in DivRegs
      /\ div_q.count \in 1 .. iterations(req) /\ cycles = iterations(req) - div_q.count + 1
      /\ FlagsOf(req) /\ Midway(aa, div_q)
  BY <1>1 DEF MuldivInv, Typed, DividesOn
<1>3. iterations(req) \in 1 .. XLEN /\ XLEN \in Nat
  BY <1>2, IterationRange, XlenAssumption
<1>4. div_q.count \in 1 .. XLEN
  BY <1>2, <1>3
<1>5. aa \in Word
  BY <1>2, DividerOperands
<1>6. /\ aa \div 2 ^ (div_q.count - 1) = final_quot * div_q.abs_b + final_rem
      /\ final_rem < div_q.abs_b /\ final_rem \in Word /\ final_quot \in Word
      /\ (2 * div_q.dividend) % 2 ^ XLEN
           = (aa % 2 ^ (div_q.count - 1)) * 2 ^ (XLEN - (div_q.count - 1))
  <2> HIDE DEF aa
  <2> QED
    BY <1>2, <1>4, <1>5, ComputeStep
<1>7. /\ div_q'.remainder = final_rem /\ div_q'.quotient = final_quot
      /\ div_q'.dividend = (2 * div_q.dividend) % 2 ^ XLEN /\ div_q'.count = div_q.count - 1
      /\ div_q'.abs_b = div_q.abs_b /\ div_q'.div_neg = div_q.div_neg
      /\ div_q'.rem_neg = div_q.rem_neg /\ div_q'.is_rem = div_q.is_rem
  BY <1>1, <1>2 DEF DivRegs
<1>8. div_q' \in DivRegs
  <2>1. (2 * div_q.dividend) % 2 ^ XLEN \in Word
    <3>1. 2 ^ XLEN \in Nat \ {0} /\ div_q.dividend \in Int
      BY <1>2, Powers DEF DivRegs, Word
    <3> DEFINE z == 2 * div_q.dividend
    <3>2. z \in Int
      BY <3>1
    <3> HIDE DEF z
    <3>3. z % 2 ^ XLEN \in Word
      BY <3>1, <3>2, Euclid DEF Word
    <3> QED
      BY <3>3 DEF z
  <2>2. div_q.count - 1 \in 0 .. XLEN
    BY <1>3, <1>4
  <2> QED
    BY <1>1, <1>2, <1>6, <2>1, <2>2 DEF DivRegs
<1>9. CASE div_q.count = 1
  <2>1. /\ state_q' = "DONE"
        /\ result_q' = IF req.word THEN SignExtend(pre_result) ELSE pre_result
    BY <1>2, <1>9 DEF Compute
  <2>2. aa = final_quot * div_q.abs_b + final_rem
    <3>1. div_q.count - 1 = 0 /\ 2 ^ 0 = 1
      BY <1>9
    <3>2. aa \in Nat
      BY <1>5, Powers DEF Word
    <3>3. aa \div 1 = aa
      <4> HIDE DEF aa
      <4> QED
        BY <3>2, SMT
    <3> QED
      BY <1>6, <3>1, <3>3
  <2>3. (IF req.word THEN SignExtend(pre_result) ELSE pre_result) = Reference(req)
    BY <1>2, <1>6, <2>2, FinalResult
  <2>4. result_q' = Reference(req) /\ Reference(req) \in Word
    BY <1>2, <2>1, <2>3, ReferenceWord
  <2>5. Typed'
    BY <1>1, <1>8, <2>1, <2>4 DEF MuldivInv, Typed
  <2>6. ResultCorrect'
    BY <1>1, <2>4 DEF ResultCorrect
  <2>7. AnswersInTime'
    <3>1. cycles' = iterations(req) + 1
      BY <1>1, <1>2, <1>3, <1>9
    <3>2. req.op \notin MulOps
      BY <1>2 DEF MulOps, DivOps
    <3> QED
      BY <1>1, <1>2, <3>1, <3>2 DEF AnswersInTime, iterations
  <2> QED
    BY <2>1, <2>5, <2>6, <2>7 DEF MuldivInv, DividesOn, Multiplies
<1>10. CASE div_q.count # 1
  <2>1. state_q' = "COMPUTE" /\ result_q' = result_q
    BY <1>1, <1>10 DEF Compute
  <2>2. Typed'
    BY <1>1, <1>8, <2>1 DEF MuldivInv, Typed
  <2>3. div_q'.count \in 1 .. iterations(req) /\ cycles' = iterations(req) - div_q'.count + 1
    BY <1>1, <1>2, <1>3, <1>7, <1>10
  <2>4. Midway(aa, div_q')
    BY <1>6, <1>7 DEF Midway
  <2>5. FlagsOf(req)'
    BY <1>1, <1>2, <1>7 DEF FlagsOf
  <2>6. DividesOn'
    <3>1. Midway(Magnitude(OperandA(req)), div_q)'
      BY <1>1, <2>4
    <3> QED
      BY <1>1, <1>2, <2>3, <2>5, <3>1 DEF DividesOn
  <2> QED
    BY <2>1, <2>2, <2>6 DEF MuldivInv, Multiplies, ResultCorrect, AnswersInTime
<1> QED
  BY <1>9, <1>10

\* Every cycle keeps the invariant.
LEMMA MuldivStep == MuldivInv /\ [Next]_vars => MuldivInv'
<1> SUFFICES ASSUME MuldivInv, [Next]_vars
             PROVE  MuldivInv'
  OBVIOUS
<1>1. CASE Accept
  <2>1. PICK r \in Request : StartMul(r) \/ StartDivEarly(r) \/ StartDiv(r)
    BY <1>1 DEF Accept
  <2> QED
    BY <2>1, StartMulStep, StartDivEarlyStep, StartDivStep
<1>2. CASE MulIn \/ MulMid \/ MulOut
  BY <1>2, MultiplierStep
<1>3. CASE Compute
  BY <1>3, DividerStep
<1>4. CASE Done
  <2>1. /\ state_q' = "IDLE" /\ result_q' = result_q /\ op_q' = op_q /\ word_op_q' = word_op_q
        /\ mul_product_q' = mul_product_q /\ div_q' = div_q /\ req' = req
    BY <1>4 DEF Done
  <2>2. Typed'
    BY <2>1 DEF MuldivInv, Typed
  <2> QED
    BY <2>1, <2>2 DEF MuldivInv, DividesOn, Multiplies, ResultCorrect, AnswersInTime
<1>5. CASE NoRequest \/ UNCHANGED vars
  BY <1>5 DEF NoRequest, vars, MuldivInv, Typed, DividesOn, Multiplies, FlagsOf, ResultCorrect,
              AnswersInTime
<1> QED
  BY <1>1, <1>2, <1>3, <1>4, <1>5 DEF Next

\* The invariant always holds, for every even width and every order of requests.
THEOREM MuldivInvariant == Spec => []MuldivInv
BY MuldivInit, MuldivStep, PTL DEF Spec

\* Every register of kronos_muldiv keeps its width.
THEOREM TypeCorrect == Spec => []TypeOK
<1>1. MuldivInv => TypeOK
  BY DEF MuldivInv, Typed, DivRegs, TypeOK
<1> QED
  BY <1>1, MuldivInvariant, PTL

\* Every multiplication, division and remainder, in both widths, is answered
\* with the number the M extension defines, division by zero and INT_MIN / -1
\* included, whatever the unit computed before.
THEOREM AlwaysCorrect == Spec => []ResultCorrect
<1>1. MuldivInv => ResultCorrect
  BY DEF MuldivInv
<1> QED
  BY <1>1, MuldivInvariant, PTL

\* The divider's invariant: after each of its cycles quotient and remainder are
\* those of the bits of the dividend that have been shifted out.
THEOREM AlwaysRestoring == Spec => []Restoring
<1>1. MuldivInv => Restoring
  <2> SUFFICES ASSUME MuldivInv, state_q = "COMPUTE"
               PROVE  LET a == Abs(a_eff(req), is_signed_div(req.op))
                      IN  /\ a \div 2 ^ div_q.count = div_q.quotient * div_q.abs_b + div_q.remainder
                          /\ div_q.remainder < div_q.abs_b
                          /\ div_q.dividend = (a % 2 ^ div_q.count) * 2 ^ (XLEN - div_q.count)
    BY DEF Restoring
  <2>1. req \in Request /\ req.op \in DivOps /\ Midway(Magnitude(OperandA(req)), div_q)
    BY DEF MuldivInv, Typed, DividesOn
  <2>2. Abs(a_eff(req), is_signed_div(req.op)) = Magnitude(OperandA(req))
    BY <2>1, DividerOperands
  <2> QED
    BY <2>1, <2>2 DEF Midway
<1> QED
  BY <1>1, MuldivInvariant, PTL

\* Every operation takes exactly the number of cycles of its kind: nothing left
\* over from an earlier one lengthens or shortens it.
THEOREM AlwaysInTime == Spec => []AnswersInTime
<1>1. MuldivInv => AnswersInTime
  BY DEF MuldivInv
<1> QED
  BY <1>1, MuldivInvariant, PTL

=============================================================================
