------------------------- MODULE CrvProgram_proofs --------------------------
(***************************************************************************)
(* The constrained-random generator, for every set of registers, every set *)
(* of scenarios and every length: the arithmetic of its address set-up,    *)
(* then what the generated programs never do.                              *)
(***************************************************************************)
EXTENDS CrvProgram, FiniteSetTheorems, TLAPS

-----------------------------------------------------------------------------
(* The set-up of a pointer and the offsets of raw_stress.                  *)

\* lui and addi with the two halves of a base below 2^32 - 2^11 compute that
\* base, the upper half fits 20 unsigned and the lower one 12 signed bits: the
\* bias of the upper half is right on both sides of bit 11.
THEOREM PointerExact ==
    ASSUME NEW base \in Nat, base < 1048576 * 4096 - 2048
    PROVE  /\ Upper(base) * 4096 + Lower(base) = base
           /\ Upper(base) \in Nat /\ Upper(base) < 1048576
           /\ Lower(base) >= -2048 /\ Lower(base) <= 2047
<1> DEFINE q == base \div 4096
           r == base % 4096
<1>1. q \in Nat /\ r \in 0..4095 /\ base = q * 4096 + r
  BY SMT
<1>2. r < 2048 => q < 1048576
  BY <1>1, SMT
<1>3. r >= 2048 => q + 1 < 1048576
  BY <1>1, SMT
<1>4. q % 1048576 = q /\ (r >= 2048 => (q + 1) % 1048576 = q + 1)
  BY <1>1, <1>2, <1>3, SMT
<1>5. Lower(base) = IF r >= 2048 THEN r - 4096 ELSE r
  BY SMT DEF Lower
<1>6. Upper(base) = IF r >= 2048 THEN q + 1 ELSE q
  BY <1>4, SMT DEF Upper
<1>7. Upper(base) * 4096 + Lower(base) = base
  BY <1>1, <1>5, <1>6, SMT
<1>8. Upper(base) \in Nat /\ Upper(base) < 1048576
  BY <1>1, <1>2, <1>3, <1>6, SMT
<1>9. Lower(base) >= -2048 /\ Lower(base) <= 2047
  BY <1>1, <1>5, SMT
<1> QED
  BY <1>7, <1>8, <1>9, SMT

\* The offset raw_stress uses for a slot of the region stays aligned, inside the
\* region and inside a load's immediate, for every width of access.
THEOREM ClampSound ==
    ASSUME NEW sz \in {1, 2, 4, 8}, NEW slot \in Nat, slot * sz + sz <= DATA_SIZE
    PROVE  /\ Clamp(slot * sz, sz) \in 0..2040
           /\ Clamp(slot * sz, sz) % sz = 0
<1>1. CASE sz = 1
  BY <1>1, SMT DEF Clamp, DATA_SIZE
<1>2. CASE sz = 2
  BY <1>2, SMT DEF Clamp, DATA_SIZE
<1>3. CASE sz = 4
  BY <1>3, SMT DEF Clamp, DATA_SIZE
<1>4. CASE sz = 8
  BY <1>4, SMT DEF Clamp, DATA_SIZE
<1> QED
  BY <1>1, <1>2, <1>3, <1>4

-----------------------------------------------------------------------------
(* The inductive invariant.                                                *)

\* The offsets an access may have, as ClampSound bounds them.
OffsetSpan == 0..2040

DataScenarios == {"int_hazards", "muldiv_interleave", "raw_stress", "mem_ordering"}

\* The registers the body of a scenario must leave alone.
Kept(sc) == {1, 2} \union (IF sc \in DataScenarios THEN {10} ELSE {})
                   \union (IF sc = "mem_ordering" THEN {11} ELSE {})

\* An access whose address is a pointer of the scenario plus an aligned offset.
Aimed(i) == /\ scenario \in DataScenarios
            /\ i.base = 10 \/ (scenario = "mem_ordering" /\ i.base = 11)
            /\ i.imm \in OffsetSpan /\ i.sz \in {1, 2, 4, 8} /\ i.imm % i.sz = 0

\* An instruction of a class some straight-line scenario emits.
Ops == {"alu", "addi", "shift", "load", "store", "muldiv", "fp3", "fp4", "iter", "ecall", "ebreak"}
Shaped(i) == /\ i = [op |-> i.op, rd |-> i.rd, rs |-> i.rs, base |-> i.base, imm |-> i.imm, sz |-> i.sz]
             /\ i.op \in Ops

\* What every instruction a scenario draws satisfies when it is appended.
Drawn(i) == /\ Shaped(i) /\ EncodeOk(i)
            /\ i.rd \in Regs \ Kept(scenario)
            /\ i.rs \in Regs /\ (scenario # "traps" => val[i.rs] # Undef)
            /\ IsMem(i) => Aimed(i)

\* The accesses raw_stress puts off, and the marks muldiv_interleave leaves for
\* the consumers of a result.
RawAccess == {x \in [op : {"load", "store"}, rd : Regs \ Kept("raw_stress"), rs : Regs,
                     base : {10}, imm : OffsetSpan, sz : {1, 2, 4, 8}] : x.imm % x.sz = 0}
MdMark == {MulDiv(r, 0) : r \in Regs}

\* The live registers have been written, where the program is straight-line and
\* no handler intervenes.
LiveWritten == scenario \notin {"traps", "branch_pred"} => \A r \in gp : val[r] # Undef

TodoOk == /\ scenario = "raw_stress" =>
               todo \in Seq(RawAccess) /\ \A j \in DOMAIN todo : val[todo[j].rs] # Undef
          /\ scenario = "muldiv_interleave" =>
               todo \in Seq(MdMark) /\ \A j \in DOMAIN todo : val[todo[j].rd] # Undef

PointersOk == phase = "body" =>
                /\ scenario \in DataScenarios => val[10] = DATA_BASE
                /\ scenario = "mem_ordering" => val[11] = ATOMIC_BASE

GenInv == /\ phase \in {"setup", "body", "run", "done"}
          /\ phase = "run" => scenario = "branch_pred"
          /\ gp \subseteq Regs
          /\ val \in [Regs -> Int]
          /\ val[0] # Undef
          /\ scenario # "branch_pred" => val[1] = Ra /\ val[2] = Sp
          /\ PointersOk
          /\ LiveWritten
          /\ TodoOk

-----------------------------------------------------------------------------
(* What the instructions of a round are.                                   *)

\* The range checks of encoding.py, as the ranges they stand for.
LEMMA Ranges ==
  ASSUME NEW v \in Int
  PROVE  /\ v >= -2048 /\ v <= 2047 => CheckSimm(v, 12)
         /\ v >= 0 /\ v <= 63 => CheckUimm(v, 6)
         /\ v >= 0 /\ v <= 1048575 => CheckUimm(v, 20)
<1>1. v >= -2048 /\ v <= 2047 => CheckSimm(v, 12)
  BY SMT DEF CheckSimm
<1>2. v >= 0 /\ v <= 63 => CheckUimm(v, 6)
  BY SMT DEF CheckUimm
<1>3. v >= 0 /\ v <= 1048575 => CheckUimm(v, 20)
  BY SMT DEF CheckUimm
<1> QED
  BY <1>1, <1>2, <1>3, SMT

\* The ALU instructions of every scenario encode, write one of the registers
\* offered and read a live one.
LEMMA AluDrawn ==
  ASSUME NEW W, NEW i \in Alu(W), gp \subseteq Regs
  PROVE  /\ EncodeOk(i) /\ i.rd \in W /\ i.rs \in gp /\ ~IsMem(i)
         /\ Shaped(i) /\ i.op \in {"alu", "addi", "shift"}
<1>1. CASE i \in {AluR(rd, rs) : rd \in W, rs \in gp}
  BY <1>1 DEF AluR, Instr, EncodeOk, IsMem, Shaped, Ops
<1>2. CASE i \in {Addi(rd, rs, imm) : rd \in W, rs \in gp, imm \in Imm12}
  <2> PICK rd \in W, rs \in gp, imm \in Imm12 : i = Addi(rd, rs, imm)
    BY <1>2
  <2>1. i = [op |-> "addi", rd |-> rd, rs |-> rs, base |-> 0, imm |-> imm, sz |-> 0]
    BY DEF Addi, Instr
  <2>2. CheckSimm(imm, 12)
    BY Ranges, SMT DEF Imm12
  <2> QED
    BY <2>1, <2>2 DEF EncodeOk, IsMem, Shaped, Ops
<1>3. CASE i \in {Shift(rd, rs, sh) : rd \in W, rs \in gp, sh \in Shamt}
  <2> PICK rd \in W, rs \in gp, sh \in Shamt : i = Shift(rd, rs, sh)
    BY <1>3
  <2>1. i = [op |-> "shift", rd |-> rd, rs |-> rs, base |-> 0, imm |-> sh, sz |-> 0]
    BY DEF Shift, Instr
  <2>2. CheckUimm(sh, 6)
    BY Ranges, SMT DEF Shamt
  <2> QED
    BY <2>1, <2>2 DEF EncodeOk, IsMem, Shaped, Ops
<1> QED
  BY <1>1, <1>2, <1>3 DEF Alu, AluI

\* The loads of the scenarios with a data pointer.
LEMMA LoadsDrawn ==
  ASSUME NEW W, NEW ptr, NEW i \in Loads(W, ptr)
  PROVE  /\ EncodeOk(i) /\ i.rd \in W /\ i.rs = ptr /\ i.base = ptr /\ i.op = "load"
         /\ Shaped(i) /\ i.imm \in OffsetSpan /\ i.sz \in {4, 8} /\ i.imm % i.sz = 0
<1> PICK rd \in W, off \in Offsets, sz \in {4, 8} : i = Load(rd, ptr, off, sz)
  BY DEF Loads
<1>1. off \in {0, 2040} /\ off % sz = 0 /\ off \in OffsetSpan
  BY SMT DEF Offsets, OffsetSpan
<1>2. EncodeOk(i)
  BY <1>1, Ranges, SMT DEF Load, EncodeOk
<1> QED
  BY <1>1, <1>2 DEF Load, Shaped, Ops

\* The stores of the scenarios with a data pointer.
LEMMA StoresDrawn ==
  ASSUME NEW ptr, NEW i \in Stores(ptr)
  PROVE  /\ EncodeOk(i) /\ i.rd = 0 /\ i.rs \in gp /\ i.base = ptr /\ i.op = "store"
         /\ Shaped(i) /\ i.imm \in OffsetSpan /\ i.sz \in {4, 8} /\ i.imm % i.sz = 0
<1> PICK rs \in gp, off \in Offsets, sz \in {4, 8} : i = Store(rs, ptr, off, sz)
  BY DEF Stores
<1>1. off \in {0, 2040} /\ off % sz = 0 /\ off \in OffsetSpan
  BY SMT DEF Offsets, OffsetSpan
<1>2. EncodeOk(i)
  BY <1>1, Ranges, SMT DEF Store, EncodeOk
<1> QED
  BY <1>1, <1>2 DEF Store, Shaped, Ops

-----------------------------------------------------------------------------
(* Appending a drawn instruction.                                          *)

\* Appending a drawn instruction and running it keeps everything the invariant
\* says of registers and pointers, and never takes a written register back.
LEMMA AppendKeeps ==
  ASSUME GenInv, phase = "body", scenario # "branch_pred", NEW i, Drawn(i), Append1(i)
  PROVE  /\ scenario' = scenario /\ phase' = phase
         /\ cur' = Seen(i) /\ win' = Window(Append(win, i.op))
         /\ gp' \subseteq Regs /\ val' \in [Regs -> Int] /\ val'[0] # Undef
         /\ val'[1] = Ra /\ val'[2] = Sp
         /\ PointersOk' /\ LiveWritten'
         /\ \A r \in Regs : val[r] # Undef => val'[r] # Undef
         /\ i.rd # 0 => val'[i.rd] # Undef
<1>0. EncodeOk(i) /\ i.rd \in Regs /\ i.rd \notin {1, 2}
      /\ (scenario \in DataScenarios => i.rd # 10)
      /\ (scenario = "mem_ordering" => i.rd # 11)
  BY DEF Drawn, Kept
<1>1. /\ scenario' = scenario /\ phase' = phase
      /\ cur' = Seen(i) /\ win' = Window(Append(win, i.op))
      /\ Write(i.rd) /\ Exec(i)
  BY <1>0 DEF Append1
<1>2. gp' \subseteq Regs
  BY <1>0, <1>1 DEF Write, GenInv
<1>3. /\ val' \in [Regs -> Int]
      /\ \A r \in Regs : val'[r] = IF r = i.rd /\ r # 0 THEN Unknown ELSE val[r]
  BY <1>0, <1>1, SMT DEF Exec, GenInv, Unknown
<1>4. {0, 1, 2, 10, 11} \subseteq Regs
  BY CrvAssumption
<1>5. val'[0] # Undef /\ val'[1] = Ra /\ val'[2] = Sp
  BY <1>0, <1>3, <1>4 DEF GenInv
<1>6. PointersOk'
  BY <1>0, <1>1, <1>3, <1>4 DEF GenInv, PointersOk, DataScenarios
<1>7. Unknown # Undef
  BY DEF Unknown, Undef
<1>8. (\A r \in Regs : val[r] # Undef => val'[r] # Undef) /\ (i.rd # 0 => val'[i.rd] # Undef)
  BY <1>0, <1>3, <1>7
<1>9. LiveWritten'
  <2> SUFFICES ASSUME scenario \notin {"traps", "branch_pred"}, NEW r \in gp' PROVE val'[r] # Undef
    BY <1>1 DEF LiveWritten
  <2>1. r \in gp \/ (r = i.rd /\ i.rd # 0)
    BY <1>1 DEF Write
  <2> QED
    BY <1>8, <2>1 DEF GenInv, LiveWritten
<1> QED
  BY <1>1, <1>2, <1>3, <1>5, <1>6, <1>8, <1>9

\* An instruction that encodes, writes an allowed register, reads a live one and
\* is no access, is drawn.
LEMMA PlainDrawn ==
  ASSUME GenInv, scenario # "branch_pred", NEW i, Shaped(i), EncodeOk(i), i.rd \in Regs \ Kept(scenario),
         i.rs \in gp \union {0}, ~IsMem(i)
  PROVE  Drawn(i)
BY CrvAssumption DEF GenInv, LiveWritten, Drawn

\* An access through a pointer of the scenario is drawn.
LEMMA AccessDrawn ==
  ASSUME GenInv, phase = "body", scenario \in DataScenarios, NEW W, W \subseteq Regs \ Kept(scenario),
         NEW ptr, ptr = 10 \/ (scenario = "mem_ordering" /\ ptr = 11),
         NEW i \in Loads(W, ptr) \union Stores(ptr)
  PROVE  Drawn(i)
<1>0. {0, 10, 11} \subseteq Regs /\ 0 \notin Kept(scenario) /\ scenario \notin {"traps", "branch_pred"}
  BY CrvAssumption DEF Kept, DataScenarios
<1>1. CASE i \in Loads(W, ptr)
  <2>1. /\ EncodeOk(i) /\ i.rd \in W /\ i.rs = ptr /\ i.base = ptr /\ i.op = "load"
        /\ Shaped(i) /\ i.imm \in OffsetSpan /\ i.sz \in {4, 8} /\ i.imm % i.sz = 0
    BY <1>1, LoadsDrawn
  <2>2. val[ptr] # Undef
    BY SMT DEF GenInv, PointersOk, DATA_BASE, ATOMIC_BASE, Undef
  <2> QED
    BY <1>0, <2>1, <2>2 DEF Drawn, Aimed
<1>2. CASE i \in Stores(ptr)
  <2>1. /\ EncodeOk(i) /\ i.rd = 0 /\ i.rs \in gp /\ i.base = ptr /\ i.op = "store"
        /\ Shaped(i) /\ i.imm \in OffsetSpan /\ i.sz \in {4, 8} /\ i.imm % i.sz = 0
    BY <1>2, StoresDrawn
  <2>2. i.rs \in Regs /\ val[i.rs] # Undef
    BY <1>0, <2>1 DEF GenInv, LiveWritten
  <2> QED
    BY <1>0, <2>1, <2>2 DEF Drawn, Aimed
<1> QED
  BY <1>1, <1>2

-----------------------------------------------------------------------------
(* The rounds of the scenarios.                                            *)

\* An ALU instruction over registers the scenario may write is drawn.
LEMMA AluIsDrawn ==
  ASSUME GenInv, scenario # "branch_pred", NEW W, W \subseteq Regs \ Kept(scenario), NEW i \in Alu(W)
  PROVE  Drawn(i)
<1>1. Shaped(i) /\ EncodeOk(i) /\ i.rd \in W /\ i.rs \in gp /\ ~IsMem(i)
  BY AluDrawn DEF GenInv
<1> QED
  BY <1>1, PlainDrawn

\* int_hazards
LEMMA IntHazardsDraws ==
  ASSUME GenInv, IntHazards
  PROVE  /\ phase = "body" /\ scenario = "int_hazards" /\ todo' = todo
         /\ \E i : Drawn(i) /\ Append1(i) /\ i.op # "muldiv"
<1>1. phase = "body" /\ scenario = "int_hazards" /\ todo' = todo
  BY DEF IntHazards, Round
<1>2. IhWritable \subseteq Regs \ Kept(scenario) /\ scenario \in DataScenarios
  BY <1>1 DEF IhWritable, Kept, DataScenarios
<1> PICK i \in Alu(IhWritable) \union IhMem : Append1(i)
  BY DEF IntHazards
<1>3. CASE i \in Alu(IhWritable)
  BY <1>1, <1>2, <1>3, AluIsDrawn, AluDrawn DEF GenInv
<1>4. CASE i \in Loads(IhWritable, 10) \union Stores(10)
  <2>1. Drawn(i)
    BY <1>1, <1>2, <1>4, AccessDrawn
  <2>2. i.op \in {"load", "store"}
    BY <1>4, LoadsDrawn, StoresDrawn
  <2> QED
    BY <1>1, <2>1, <2>2
<1> QED
  BY <1>3, <1>4 DEF IhMem

\* muldiv_interleave: the ALU instructions.
LEMMA MuldivAluDraws ==
  ASSUME GenInv, MuldivAlu
  PROVE  /\ phase = "body" /\ scenario = "muldiv_interleave" /\ todo' = todo
         /\ \E i : Drawn(i) /\ Append1(i) /\ i.op \in {"alu", "addi", "shift"}
<1>1. phase = "body" /\ scenario = "muldiv_interleave" /\ todo' = todo
  BY DEF MuldivAlu, Round
<1>2. MdWritable \subseteq Regs \ Kept(scenario)
  BY <1>1 DEF MdWritable, Kept, DataScenarios
<1> PICK i \in Alu(MdWritable) : Append1(i)
  BY DEF MuldivAlu, MdAlu
<1>3. Drawn(i) /\ i.op \in {"alu", "addi", "shift"}
  BY <1>1, <1>2, AluIsDrawn, AluDrawn DEF GenInv
<1> QED
  BY <1>1, <1>3

\* muldiv_interleave: the loads.
LEMMA MuldivMemDraws ==
  ASSUME GenInv, MuldivMem
  PROVE  /\ phase = "body" /\ scenario = "muldiv_interleave" /\ todo' = todo
         /\ \E i : Drawn(i) /\ Append1(i) /\ i.op = "load"
<1>1. phase = "body" /\ scenario = "muldiv_interleave" /\ todo' = todo
  BY DEF MuldivMem, Round
<1>2. MdWritable \subseteq Regs \ Kept(scenario) /\ scenario \in DataScenarios
  BY <1>1 DEF MdWritable, Kept, DataScenarios
<1> PICK i \in Loads(MdWritable, 10) : Append1(i)
  BY DEF MuldivMem, MdMem
<1>3. Drawn(i) /\ i.op = "load"
  BY <1>1, <1>2, AccessDrawn, LoadsDrawn
<1> QED
  BY <1>1, <1>3

\* muldiv_interleave: the multiplication or division, and the marks of its
\* consumers.
LEMMA MuldivOpDraws ==
  ASSUME GenInv, MuldivOp
  PROVE  /\ phase = "body" /\ scenario = "muldiv_interleave"
         /\ \E i : /\ Drawn(i) /\ Append1(i) /\ i.op = "muldiv" /\ i.rd # 0
                   /\ \E k \in 1..3 : todo' = [j \in 1..k |-> MulDiv(i.rd, 0)]
<1>1. phase = "body" /\ scenario = "muldiv_interleave"
  BY DEF MuldivOp, Round
<1>2. MdWritable \subseteq Regs \ Kept(scenario) /\ 0 \notin MdWritable
  BY <1>1 DEF MdWritable, Kept, DataScenarios
<1> PICK i \in MdMuldiv, k \in 1..3 : Append1(i) /\ todo' = [j \in 1..k |-> MulDiv(i.rd, 0)]
  BY DEF MuldivOp
<1>3. EncodeOk(i) /\ i.rd \in MdWritable /\ i.rs \in gp /\ i.op = "muldiv" /\ ~IsMem(i)
      /\ Shaped(i)
  BY DEF MdMuldiv, MulDiv, Instr, EncodeOk, IsMem, Shaped, Ops
<1>4. Drawn(i)
  BY <1>1, <1>2, <1>3, PlainDrawn
<1> QED
  BY <1>1, <1>2, <1>3, <1>4

\* muldiv_interleave: a consumer reads a live register or the result.
LEMMA MuldivConsumerDraws ==
  ASSUME GenInv, MuldivConsumer
  PROVE  /\ phase = "body" /\ scenario = "muldiv_interleave"
         /\ todo # << >> /\ todo' = Tail(todo)
         /\ \E i : Drawn(i) /\ Append1(i) /\ i.op = "alu"
<1>1. phase = "body" /\ scenario = "muldiv_interleave" /\ todo # << >> /\ todo' = Tail(todo)
  BY DEF MuldivConsumer
<1>2. MdWritable \subseteq Regs \ Kept(scenario)
  BY <1>1 DEF MdWritable, Kept, DataScenarios
<1>3. todo \in Seq(MdMark) /\ \A j \in DOMAIN todo : val[todo[j].rd] # Undef
  BY <1>1 DEF GenInv, TodoOk
<1>4. todo[1] \in MdMark /\ val[todo[1].rd] # Undef
  BY <1>1, <1>3
<1>5. todo[1].rd \in Regs
  BY <1>4 DEF MdMark, MulDiv, Instr
<1> PICK i \in MdConsumer(todo[1].rd) : Append1(i)
  BY DEF MuldivConsumer
<1>6. EncodeOk(i) /\ i.rd \in MdWritable /\ i.rs \in gp \union {todo[1].rd} /\ i.op = "alu" /\ ~IsMem(i)
      /\ Shaped(i)
  BY DEF MdConsumer, AluR, Instr, EncodeOk, IsMem, Shaped, Ops
<1>7. i.rs \in Regs /\ val[i.rs] # Undef
  BY <1>1, <1>4, <1>5, <1>6 DEF GenInv, LiveWritten
<1>8. Drawn(i)
  BY <1>1, <1>2, <1>6, <1>7 DEF Drawn
<1> QED
  BY <1>1, <1>6, <1>8

\* mem_ordering: the accesses through either pointer.
LEMMA OrderingMemDraws ==
  ASSUME GenInv, OrderingMem
  PROVE  /\ phase = "body" /\ scenario = "mem_ordering" /\ todo' = todo
         /\ \E i : Drawn(i) /\ Append1(i) /\ i.op \in {"load", "store"}
<1>1. phase = "body" /\ scenario = "mem_ordering" /\ todo' = todo
  BY DEF OrderingMem, Round
<1>2. MoWritable \subseteq Regs \ Kept(scenario) /\ scenario \in DataScenarios
  BY <1>1 DEF MoWritable, Kept, DataScenarios
<1> PICK ptr \in {10, 11} : \E i \in MoMem(ptr) : Append1(i)
  BY DEF OrderingMem
<1> PICK i \in MoMem(ptr) : Append1(i)
  OBVIOUS
<1>3. i \in Loads(MoWritable, ptr) \union Stores(ptr)
  BY DEF MoMem
<1>4. Drawn(i)
  BY <1>1, <1>2, <1>3, AccessDrawn
<1>5. i.op \in {"load", "store"}
  BY <1>3, LoadsDrawn, StoresDrawn
<1> QED
  BY <1>1, <1>4, <1>5

\* mem_ordering: the ALU instructions.
LEMMA OrderingAluDraws ==
  ASSUME GenInv, OrderingAlu
  PROVE  /\ phase = "body" /\ scenario = "mem_ordering" /\ todo' = todo
         /\ \E i : Drawn(i) /\ Append1(i) /\ i.op \in {"alu", "addi", "shift"}
<1>1. phase = "body" /\ scenario = "mem_ordering" /\ todo' = todo
  BY DEF OrderingAlu, Round
<1>2. MoWritable \subseteq Regs \ Kept(scenario)
  BY <1>1 DEF MoWritable, Kept, DataScenarios
<1> PICK i \in Alu(MoWritable) : Append1(i)
  BY DEF OrderingAlu, MoAlu
<1>3. Drawn(i) /\ i.op \in {"alu", "addi", "shift"}
  BY <1>1, <1>2, AluIsDrawn, AluDrawn DEF GenInv
<1> QED
  BY <1>1, <1>3

\* The offset of every slot raw_stress draws is aligned and inside an immediate.
LEMMA SlotSound ==
  ASSUME NEW sz \in {1, 2, 4, 8}, NEW slot \in RsSlots(sz)
  PROVE  Clamp(slot * sz, sz) \in OffsetSpan /\ Clamp(slot * sz, sz) % sz = 0
<1>1. CASE sz = 1
  <2>1. slot \in {0, 2040, 2041, 4080, 4095}
    BY <1>1, SMT DEF RsSlots
  <2> QED
    BY <1>1, <2>1, SMT DEF Clamp, OffsetSpan
<1>2. CASE sz = 2
  <2>1. slot \in {0, 1020, 1021, 2040, 2047}
    BY <1>2, SMT DEF RsSlots
  <2> QED
    BY <1>2, <2>1, SMT DEF Clamp, OffsetSpan
<1>3. CASE sz = 4
  <2>1. slot \in {0, 510, 511, 1020, 1023}
    BY <1>3, SMT DEF RsSlots
  <2> QED
    BY <1>3, <2>1, SMT DEF Clamp, OffsetSpan
<1>4. CASE sz = 8
  <2>1. slot \in {0, 255, 256, 510, 511}
    BY <1>4, SMT DEF RsSlots
  <2> QED
    BY <1>4, <2>1, SMT DEF Clamp, OffsetSpan
<1> QED
  BY <1>1, <1>2, <1>3, <1>4

\* raw_stress: the fresh value, and the two accesses put off.
LEMMA RawStressDraws ==
  ASSUME GenInv, RawStress
  PROVE  /\ phase = "body" /\ scenario = "raw_stress"
         /\ \E i : /\ Drawn(i) /\ Append1(i) /\ i.op = "addi" /\ i.rd # 0
                   /\ todo' \in Seq(RawAccess) /\ DOMAIN todo' = {1, 2}
                   /\ todo'[1].rs = i.rd /\ todo'[2].rs = 10
<1>1. phase = "body" /\ scenario = "raw_stress"
  BY DEF RawStress, Round
<1>2. RsWritable \subseteq Regs \ Kept(scenario) /\ 0 \notin RsWritable /\ {0, 10} \subseteq Regs
      /\ 0 \in Regs \ Kept("raw_stress")
  BY <1>1, CrvAssumption DEF RsWritable, Kept, DataScenarios
<1> PICK sz \in {1, 2, 4, 8}, rs2 \in RsWritable, rd \in RsWritable, imm \in Imm12 :
         \E slot \in RsSlots(sz) :
           /\ Append1(Addi(rs2, 0, imm))
           /\ todo' = <<Store(rs2, 10, Clamp(slot * sz, sz), sz), Load(rd, 10, Clamp(slot * sz, sz), sz)>>
  BY DEF RawStress
<1> PICK slot \in RsSlots(sz) :
           /\ Append1(Addi(rs2, 0, imm))
           /\ todo' = <<Store(rs2, 10, Clamp(slot * sz, sz), sz), Load(rd, 10, Clamp(slot * sz, sz), sz)>>
  OBVIOUS
<1> DEFINE off == Clamp(slot * sz, sz)
           i == Addi(rs2, 0, imm)
<1>3. off \in OffsetSpan /\ off % sz = 0
  BY SlotSound
<1> HIDE DEF off
<1>4. Store(rs2, 10, off, sz) \in RawAccess /\ Store(rs2, 10, off, sz).rs = rs2
  BY <1>1, <1>2, <1>3 DEF Store, RawAccess
<1>5. Load(rd, 10, off, sz) \in RawAccess /\ Load(rd, 10, off, sz).rs = 10
  BY <1>1, <1>2, <1>3 DEF Load, RawAccess
<1>6. i = [op |-> "addi", rd |-> rs2, rs |-> 0, base |-> 0, imm |-> imm, sz |-> 0]
  BY DEF Addi, Instr
<1>7. EncodeOk(i)
  BY <1>6, Ranges, SMT DEF Imm12, EncodeOk
<1>8. Drawn(i)
  <2>1. Shaped(i) /\ i.rd = rs2 /\ i.rs = 0 /\ ~IsMem(i)
    BY <1>6 DEF Shaped, Ops, IsMem
  <2> QED
    BY <1>1, <1>2, <1>7, <2>1, PlainDrawn
<1>9. todo' = <<Store(rs2, 10, off, sz), Load(rd, 10, off, sz)>>
  BY DEF off
<1>10. todo' \in Seq(RawAccess) /\ DOMAIN todo' = {1, 2} /\ todo'[1].rs = rs2 /\ todo'[2].rs = 10
  BY <1>4, <1>5, <1>9
<1>11. i.rd = rs2 /\ i.op = "addi" /\ rs2 # 0
  BY <1>2, <1>6
<1> QED
  BY <1>1, <1>8, <1>10, <1>11

\* An offset of raw_stress fits the immediate of a load or store.
LEMMA OffsetEncodes == \A off : off \in OffsetSpan => CheckSimm(off, 12)
BY SMT DEF CheckSimm, OffsetSpan

\* The accesses put off encode, and name only registers they may name.
LEMMA RawAccessShape ==
  ASSUME NEW i \in RawAccess
  PROVE  /\ i.op \in {"load", "store"} /\ i.rd \in Regs \ Kept("raw_stress") /\ i.rs \in Regs
         /\ i.base = 10 /\ i.imm \in OffsetSpan /\ i.sz \in {1, 2, 4, 8} /\ i.imm % i.sz = 0
         /\ Shaped(i) /\ EncodeOk(i)
<1>1. /\ i.op \in {"load", "store"} /\ i.rd \in Regs \ Kept("raw_stress") /\ i.rs \in Regs
      /\ i.base = 10 /\ i.imm \in OffsetSpan /\ i.sz \in {1, 2, 4, 8} /\ i.imm % i.sz = 0
  BY DEF RawAccess
<1>0. i.imm \in OffsetSpan
  BY DEF RawAccess
<1>2. CheckSimm(i.imm, 12)
  BY <1>0, OffsetEncodes
<1>3. Shaped(i)
  BY DEF RawAccess, Shaped, Ops
<1> QED
  BY <1>1, <1>2, <1>3 DEF EncodeOk

\* raw_stress: an access put off is drawn when its turn comes.
LEMMA RawStressAccessDraws ==
  ASSUME GenInv, RawStressAccess
  PROVE  /\ phase = "body" /\ scenario = "raw_stress"
         /\ todo # << >> /\ todo' = Tail(todo)
         /\ \E i : Drawn(i) /\ Append1(i) /\ i.op # "muldiv"
<1>1. phase = "body" /\ scenario = "raw_stress" /\ todo # << >> /\ todo' = Tail(todo) /\ Append1(todo[1])
  BY DEF RawStressAccess
<1>2. todo \in Seq(RawAccess) /\ \A j \in DOMAIN todo : val[todo[j].rs] # Undef
  BY <1>1 DEF GenInv, TodoOk
<1>3. todo[1] \in RawAccess /\ val[todo[1].rs] # Undef
  BY <1>1, <1>2
<1> DEFINE i == todo[1]
<1>4. /\ i.op \in {"load", "store"} /\ i.rd \in Regs \ Kept("raw_stress") /\ i.rs \in Regs
      /\ i.base = 10 /\ i.imm \in OffsetSpan /\ i.sz \in {1, 2, 4, 8} /\ i.imm % i.sz = 0
      /\ Shaped(i) /\ EncodeOk(i)
  BY <1>3, RawAccessShape
<1>5. Aimed(i)
  BY <1>1, <1>4 DEF Aimed, DataScenarios
<1>6. Drawn(i) /\ i.op # "muldiv"
  BY <1>1, <1>3, <1>4, <1>5 DEF Drawn
<1> QED
  BY <1>1, <1>6

\* The floating-point operations encode, and name no integer register.
LEMMA FpPlain ==
  ASSUME NEW op \in {"fp3", "fp4", "iter"}, NEW rm
  PROVE  EncodeOk(Fp(op, rm)) /\ Fp(op, rm).rd = 0 /\ Fp(op, rm).rs = 0
         /\ Fp(op, rm).op = op /\ ~IsMem(Fp(op, rm)) /\ Shaped(Fp(op, rm))
<1>1. Fp(op, rm) = [op |-> op, rd |-> 0, rs |-> 0, base |-> 0, imm |-> rm, sz |-> 0]
  BY DEF Fp, Instr
<1> QED
  BY <1>1 DEF EncodeOk, IsMem, Shaped, Ops

\* The integer fillers of the floating-point scenarios are ALU instructions.
LEMMA FpAluIsAlu == FpAlu \subseteq Alu(FpWritable)
BY DEF FpAlu, Alu, AluI

\* fp_arith
LEMMA FpArithDraws ==
  ASSUME GenInv, FpArith
  PROVE  /\ phase = "body" /\ scenario = "fp_arith" /\ todo' = todo
         /\ \E i : Drawn(i) /\ Append1(i) /\ i.op # "muldiv"
<1>1. phase = "body" /\ scenario = "fp_arith" /\ todo' = todo
  BY DEF FpArith, Round
<1>2. FpWritable \subseteq Regs \ Kept(scenario) /\ 0 \in Regs \ Kept(scenario)
  BY <1>1, CrvAssumption DEF FpWritable, Kept, DataScenarios
<1>3. CASE \E i \in FpOps(RM_CYCLE[st.rm + 1]) : Append1(i)
  <2> DEFINE m == RM_CYCLE[st.rm + 1]
  <2> HIDE DEF m
  <2> PICK i \in FpOps(m) : Append1(i)
    BY <1>3 DEF m
  <2>1. PICK op \in {"fp3", "fp4"} : i = Fp(op, m)
    BY DEF FpOps
  <2>2. EncodeOk(i) /\ i.rd = 0 /\ i.rs = 0 /\ i.op # "muldiv" /\ ~IsMem(i) /\ Shaped(i)
    BY <2>1, FpPlain
  <2>3. Drawn(i)
    BY <1>1, <1>2, <2>2, PlainDrawn
  <2> QED
    BY <1>1, <2>2, <2>3
<1>4. CASE \E i \in FpAlu : Append1(i)
  <2> PICK i \in FpAlu : Append1(i)
    BY <1>4
  <2>1. i \in Alu(FpWritable)
    BY FpAluIsAlu
  <2> QED
    BY <1>1, <1>2, <2>1, AluIsDrawn, AluDrawn DEF GenInv
<1> QED
  BY <1>3, <1>4 DEF FpArith

\* fdiv_fsqrt
LEMMA FdivFsqrtDraws ==
  ASSUME GenInv, FdivFsqrt
  PROVE  /\ phase = "body" /\ scenario = "fdiv_fsqrt" /\ todo' = todo
         /\ \E i : Drawn(i) /\ Append1(i) /\ i.op # "muldiv"
<1>1. phase = "body" /\ scenario = "fdiv_fsqrt" /\ todo' = todo
  BY DEF FdivFsqrt, Round
<1>2. FpWritable \subseteq Regs \ Kept(scenario) /\ 0 \in Regs \ Kept(scenario)
  BY <1>1, CrvAssumption DEF FpWritable, Kept, DataScenarios
<1> PICK i \in FdOps \union FdAlu : Append1(i)
  BY DEF FdivFsqrt
<1>3. CASE i \in FdOps
  <2>1. EncodeOk(i) /\ i.rd = 0 /\ i.rs = 0 /\ i.op # "muldiv" /\ ~IsMem(i) /\ Shaped(i)
    BY <1>3, FpPlain DEF FdOps
  <2>2. Drawn(i)
    BY <1>1, <1>2, <2>1, PlainDrawn
  <2> QED
    BY <1>1, <2>1, <2>2
<1>4. CASE i \in FdAlu
  <2>1. i \in Alu(FpWritable)
    BY <1>4, FpAluIsAlu DEF FdAlu
  <2> QED
    BY <1>1, <1>2, <2>1, AluIsDrawn, AluDrawn DEF GenInv
<1> QED
  BY <1>3, <1>4

\* traps: the instructions between two traps.
LEMMA TrapsAluDraws ==
  ASSUME GenInv, TrapsAlu
  PROVE  /\ phase = "body" /\ scenario = "traps" /\ todo' = todo
         /\ \E i : Drawn(i) /\ Append1(i) /\ i.op # "muldiv"
<1>1. phase = "body" /\ scenario = "traps" /\ todo' = todo
  BY DEF TrapsAlu, Round
<1>2. TrWritable \subseteq Regs \ Kept(scenario)
  BY <1>1 DEF TrWritable, Kept, DataScenarios
<1> PICK i \in Alu(TrWritable) : Append1(i)
  BY DEF TrapsAlu
<1> QED
  BY <1>1, <1>2, AluIsDrawn, AluDrawn DEF GenInv

-----------------------------------------------------------------------------
(* The invariant is inductive.                                             *)

\* A mark names a register.
LEMMA MarkShape == \A m \in MdMark : m.rd \in Regs
BY DEF MdMark, MulDiv, Instr

\* Rounds that put nothing off keep the accesses and marks put off before.
LEMMA TodoKept ==
  ASSUME GenInv, scenario' = scenario, todo' = todo, \A r \in Regs : val[r] # Undef => val'[r] # Undef
  PROVE  TodoOk'
<1>1. CASE scenario = "raw_stress"
  <2>1. todo \in Seq(RawAccess) /\ \A j \in DOMAIN todo : val[todo[j].rs] # Undef
    BY <1>1 DEF GenInv, TodoOk
  <2>2. \A j \in DOMAIN todo : todo[j] \in RawAccess
    BY <2>1
  <2>3. \A j \in DOMAIN todo : todo[j].rs \in Regs
    BY <2>2 DEF RawAccess
  <2> QED
    BY <1>1, <2>1, <2>3 DEF TodoOk
<1>2. CASE scenario = "muldiv_interleave"
  <2>1. todo \in Seq(MdMark) /\ \A j \in DOMAIN todo : val[todo[j].rd] # Undef
    BY <1>2 DEF GenInv, TodoOk
  <2>2. \A j \in DOMAIN todo : todo[j] \in MdMark
    BY <2>1
  <2>3. \A j \in DOMAIN todo : todo[j].rd \in Regs
    BY <2>2, MarkShape
  <2> QED
    BY <1>2, <2>1, <2>3 DEF TodoOk
<1> QED
  BY <1>1, <1>2 DEF TodoOk

\* Taking the first of what was put off keeps the rest.
LEMMA TodoShrinks ==
  ASSUME GenInv, scenario' = scenario, todo # << >>, todo' = Tail(todo),
         scenario \in {"raw_stress", "muldiv_interleave"},
         \A r \in Regs : val[r] # Undef => val'[r] # Undef
  PROVE  TodoOk'
<1>1. CASE scenario = "raw_stress"
  <2>1. todo \in Seq(RawAccess) /\ \A j \in DOMAIN todo : val[todo[j].rs] # Undef
    BY <1>1 DEF GenInv, TodoOk
  <2>2. todo' \in Seq(RawAccess) /\ \A j \in DOMAIN todo' : j + 1 \in DOMAIN todo /\ todo'[j] = todo[j + 1]
    BY <2>1
  <2>3. \A j \in DOMAIN todo' : todo'[j] \in RawAccess
    BY <2>2
  <2>4. \A j \in DOMAIN todo' : todo'[j].rs \in Regs
    BY <2>3 DEF RawAccess
  <2> QED
    BY <1>1, <2>1, <2>2, <2>4 DEF TodoOk
<1>2. CASE scenario = "muldiv_interleave"
  <2>1. todo \in Seq(MdMark) /\ \A j \in DOMAIN todo : val[todo[j].rd] # Undef
    BY <1>2 DEF GenInv, TodoOk
  <2>2. todo' \in Seq(MdMark) /\ \A j \in DOMAIN todo' : j + 1 \in DOMAIN todo /\ todo'[j] = todo[j + 1]
    BY <2>1
  <2>3. \A j \in DOMAIN todo' : todo'[j] \in MdMark
    BY <2>2
  <2>4. \A j \in DOMAIN todo' : todo'[j].rd \in Regs
    BY <2>3, MarkShape
  <2> QED
    BY <1>2, <2>1, <2>2, <2>4 DEF TodoOk
<1> QED
  BY <1>1, <1>2

\* The steps that append an instruction: one per round or per access put off.
Appends == \/ IntHazards \/ MuldivAlu \/ MuldivMem \/ MuldivOp \/ MuldivConsumer
           \/ OrderingMem \/ OrderingAlu \/ RawStress \/ RawStressAccess
           \/ FpArith \/ FdivFsqrt \/ TrapsAlu

\* Every appended instruction of every scenario is drawn.
LEMMA AppendsDrawn ==
  ASSUME GenInv, Appends
  PROVE  phase = "body" /\ scenario # "branch_pred" /\ \E i : Drawn(i) /\ Append1(i)
BY IntHazardsDraws, MuldivAluDraws, MuldivMemDraws, MuldivOpDraws, MuldivConsumerDraws,
   OrderingMemDraws, OrderingAluDraws, RawStressDraws, RawStressAccessDraws,
   FpArithDraws, FdivFsqrtDraws, TrapsAluDraws DEF Appends

\* A step that appends keeps what is put off in order.
LEMMA AppendsTodo ==
  ASSUME GenInv, Appends
  PROVE  TodoOk'
<1>1. CASE MuldivOp
  <2>1. PICK i : /\ phase = "body" /\ scenario = "muldiv_interleave"
                 /\ Drawn(i) /\ Append1(i) /\ i.op = "muldiv" /\ i.rd # 0
                 /\ \E k \in 1..3 : todo' = [j \in 1..k |-> MulDiv(i.rd, 0)]
    BY <1>1, MuldivOpDraws
  <2>2. val'[i.rd] # Undef /\ scenario' = scenario
    BY <2>1, AppendKeeps
  <2>3. PICK k \in 1..3 : todo' = [j \in 1..k |-> MulDiv(i.rd, 0)]
    BY <2>1
  <2>4. MulDiv(i.rd, 0) \in MdMark /\ MulDiv(i.rd, 0).rd = i.rd
    BY <2>1 DEF Drawn, MdMark, MulDiv, Instr
  <2>5. todo' \in Seq(MdMark) /\ \A j \in DOMAIN todo' : todo'[j] = MulDiv(i.rd, 0)
    BY <2>3, <2>4
  <2> QED
    BY <2>1, <2>2, <2>4, <2>5 DEF TodoOk
<1>2. CASE RawStress
  <2>1. PICK i : /\ phase = "body" /\ scenario = "raw_stress"
                 /\ Drawn(i) /\ Append1(i) /\ i.op = "addi" /\ i.rd # 0
                 /\ todo' \in Seq(RawAccess) /\ DOMAIN todo' = {1, 2}
                 /\ todo'[1].rs = i.rd /\ todo'[2].rs = 10
    BY <1>2, RawStressDraws
  <2>2. val'[i.rd] # Undef /\ scenario' = scenario /\ phase' = "body" /\ PointersOk'
    BY <2>1, AppendKeeps
  <2>3. val'[10] # Undef
    BY <2>1, <2>2, SMT DEF PointersOk, DataScenarios, DATA_BASE, Undef
  <2> QED
    BY <2>1, <2>2, <2>3 DEF TodoOk
<1>3. CASE MuldivConsumer
  BY <1>3, MuldivConsumerDraws, AppendKeeps, TodoShrinks
<1>4. CASE RawStressAccess
  BY <1>4, RawStressAccessDraws, AppendKeeps, TodoShrinks
<1>5. CASE \/ IntHazards \/ MuldivAlu \/ MuldivMem \/ OrderingMem \/ OrderingAlu
           \/ FpArith \/ FdivFsqrt \/ TrapsAlu
  <2>1. todo' = todo
    BY <1>5 DEF IntHazards, MuldivAlu, MuldivMem, OrderingMem, OrderingAlu, FpArith, FdivFsqrt, TrapsAlu
  <2>2. scenario' = scenario /\ \A r \in Regs : val[r] # Undef => val'[r] # Undef
    BY AppendsDrawn, AppendKeeps
  <2> QED
    BY <2>1, <2>2, TodoKept
<1> QED
  BY <1>1, <1>2, <1>3, <1>4, <1>5 DEF Appends

\* A data pointer is set up without a range error, and holds the region's base.
LEMMA PointerSetUp ==
  ASSUME NEW base \in {DATA_BASE, ATOMIC_BASE}
  PROVE  SetupOk(base) /\ Pointer(base) = base
<1>1. base \in Nat /\ base < 1048576 * 4096 - 2048
  BY SMT DEF DATA_BASE, ATOMIC_BASE
<1>2. /\ Upper(base) * 4096 + Lower(base) = base
      /\ Upper(base) \in Nat /\ Upper(base) < 1048576
      /\ Lower(base) >= -2048 /\ Lower(base) <= 2047
  BY <1>1, PointerExact, SMT
<1>3. Lower(base) \in Int
  BY <1>1, SMT DEF Lower
<1> DEFINE u == Upper(base)
           l == Lower(base)
<1> HIDE DEF u, l
<1>4. CheckUimm(u, 20) /\ CheckSimm(l, 12)
  BY <1>2, <1>3, SMT DEF u, l, CheckUimm, CheckSimm
<1>5. /\ Lui(10, u) = [op |-> "lui", rd |-> 10, rs |-> 0, base |-> 0, imm |-> u, sz |-> 0]
      /\ Addi(10, 10, l) = [op |-> "addi", rd |-> 10, rs |-> 10, base |-> 0, imm |-> l, sz |-> 0]
  BY DEF Lui, Addi, Instr
<1>6. EncodeOk(Lui(10, u)) /\ EncodeOk(Addi(10, 10, l))
  BY <1>4, <1>5 DEF EncodeOk
<1> QED
  BY <1>2, <1>6, SMT DEF SetupOk, Pointer, u, l

\* What a scenario does before its loop.
LEMMA SetupKeeps ==
  ASSUME GenInv, Setup
  PROVE  GenInv'
<1> USE CrvAssumption
<1>1. phase = "setup" /\ scenario' = scenario /\ todo' = todo
  BY DEF Setup
<1>2. ASSUME NEW bases, DOMAIN bases \subseteq {10, 11}, SetPointers(bases),
             \A r \in DOMAIN bases : bases[r] \in {DATA_BASE, ATOMIC_BASE}
      PROVE  /\ phase' = "body" /\ gp' = gp \union DOMAIN bases
             /\ val' \in [Regs -> Int] /\ gp' \subseteq Regs
             /\ \A r \in Regs : val'[r] = IF r \in DOMAIN bases THEN bases[r] ELSE val[r]
  <2>1. \A r \in DOMAIN bases : SetupOk(bases[r]) /\ Pointer(bases[r]) = bases[r]
    BY <1>2, PointerSetUp
  <2>2. /\ phase' = "body" /\ gp' = gp \union DOMAIN bases
        /\ val' = [r \in Regs |-> IF r \in DOMAIN bases THEN Pointer(bases[r]) ELSE val[r]]
    BY <1>2, <2>1 DEF SetPointers
  <2>3. \A r \in Regs : val'[r] = IF r \in DOMAIN bases THEN bases[r] ELSE val[r]
    BY <2>1, <2>2
  <2>4. {DATA_BASE, ATOMIC_BASE} \subseteq Int
    BY SMT DEF DATA_BASE, ATOMIC_BASE
  <2>5. \A r \in Regs : val'[r] \in Int
    BY <1>2, <2>3, <2>4 DEF GenInv
  <2>6. val' \in [Regs -> Int]
    BY <2>2, <2>5
  <2>7. gp' \subseteq Regs
    BY <1>2, <2>2 DEF GenInv
  <2> QED
    BY <2>2, <2>3, <2>6, <2>7
<1>3. DATA_BASE # Undef /\ ATOMIC_BASE # Undef
  BY SMT DEF DATA_BASE, ATOMIC_BASE, Undef
<1>4. /\ gp \subseteq Regs /\ val \in [Regs -> Int] /\ val[0] # Undef
      /\ (scenario # "branch_pred" => val[1] = Ra /\ val[2] = Sp)
      /\ LiveWritten /\ TodoOk
  BY DEF GenInv
<1>5. ASSUME NEW bases, scenario \in DataScenarios, DOMAIN bases \subseteq {10, 11}, SetPointers(bases),
             \A r \in DOMAIN bases : bases[r] \in {DATA_BASE, ATOMIC_BASE},
             10 \in DOMAIN bases, bases[10] = DATA_BASE,
             scenario = "mem_ordering" => 11 \in DOMAIN bases /\ bases[11] = ATOMIC_BASE
      PROVE  GenInv'
  <2>1. /\ phase' = "body" /\ gp' = gp \union DOMAIN bases
        /\ val' \in [Regs -> Int] /\ gp' \subseteq Regs
        /\ \A r \in Regs : val'[r] = IF r \in DOMAIN bases THEN bases[r] ELSE val[r]
    BY <1>2, <1>5
  <2>2. val'[0] = val[0] /\ val'[1] = val[1] /\ val'[2] = val[2]
    BY <1>5, <2>1
  <2>3. PointersOk'
    BY <1>1, <1>5, <2>1 DEF PointersOk
  <2>4. \A r \in Regs : val[r] # Undef => val'[r] # Undef
    BY <1>3, <1>5, <2>1
  <2>5. \A r \in DOMAIN bases : val'[r] # Undef
    BY <1>3, <1>5, <2>1
  <2>6. LiveWritten'
    BY <1>1, <1>4, <2>1, <2>4, <2>5 DEF LiveWritten
  <2>7. TodoOk'
    BY <1>1, <2>4, TodoKept
  <2> QED
    BY <1>1, <1>4, <2>1, <2>2, <2>3, <2>6, <2>7 DEF GenInv
<1>6. CASE scenario \in {"int_hazards", "muldiv_interleave", "raw_stress"}
  <2>1. SetPointers([r \in {10} |-> DATA_BASE])
    BY <1>6 DEF Setup, RsPointer
  <2> QED
    BY <1>5, <1>6, <2>1 DEF DataScenarios
<1>7. CASE scenario = "mem_ordering"
  <2>1. SetPointers([r \in {10, 11} |-> IF r = 10 THEN DATA_BASE ELSE ATOMIC_BASE])
    BY <1>7 DEF Setup, MoPointers
  <2> QED
    BY <1>5, <1>7, <2>1 DEF DataScenarios
<1>8. CASE scenario = "traps"
  <2>1. phase' = "body" /\ gp' = gp \union {5, 6} /\ val' = [val EXCEPT ![5] = Unknown]
    BY <1>8 DEF Setup, TrPrologue
  <2>2. val' \in [Regs -> Int] /\ val'[0] = val[0] /\ val'[1] = val[1] /\ val'[2] = val[2]
    BY <1>4, <2>1 DEF Unknown
  <2>3. PointersOk' /\ LiveWritten' /\ TodoOk'
    BY <1>1, <1>8 DEF PointersOk, LiveWritten, TodoOk, DataScenarios
  <2> QED
    BY <1>1, <1>4, <1>8, <2>1, <2>2, <2>3 DEF GenInv
<1>9. CASE scenario = "branch_pred"
  <2>1. phase' = "body" /\ gp' = gp \union {5} /\ val' = val
    BY <1>9 DEF Setup, BpPrologue
  <2>2. PointersOk' /\ LiveWritten' /\ TodoOk'
    BY <1>1, <1>9 DEF PointersOk, LiveWritten, TodoOk, DataScenarios
  <2> QED
    BY <1>1, <1>4, <1>9, <2>1, <2>2 DEF GenInv
<1>10. CASE scenario \notin DataScenarios \union {"traps", "branch_pred"}
  <2>1. phase' = "body" /\ gp' = gp /\ val' = val
    BY <1>10 DEF Setup, DataScenarios
  <2>2. PointersOk' /\ LiveWritten' /\ TodoOk'
    BY <1>1, <1>4, <1>10, <2>1 DEF PointersOk, LiveWritten, TodoOk, DataScenarios
  <2> QED
    BY <1>1, <1>4, <1>10, <2>1, <2>2 DEF GenInv
<1> QED
  BY <1>6, <1>7, <1>8, <1>9, <1>10 DEF DataScenarios

\* Steps of branch_pred touch neither pointers nor what is put off.
LEMMA BranchPredKeeps ==
  ASSUME GenInv, scenario = "branch_pred", scenario' = scenario,
         phase' \in {"setup", "body", "run", "done"}, gp' \subseteq Regs,
         val' = val
  PROVE  GenInv'
BY DEF GenInv, PointersOk, LiveWritten, TodoOk, DataScenarios

\* Every step keeps the invariant.
LEMMA GenStep ==
  ASSUME GenInv, [Next]_vars
  PROVE  GenInv'
<1> USE CrvAssumption
<1>1. CASE Setup
  BY <1>1, SetupKeeps
<1>2. CASE Appends
  <2>1. PICK i : phase = "body" /\ scenario # "branch_pred" /\ Drawn(i) /\ Append1(i)
    BY <1>2, AppendsDrawn
  <2>2. /\ scenario' = scenario /\ phase' = phase
        /\ gp' \subseteq Regs /\ val' \in [Regs -> Int] /\ val'[0] # Undef
        /\ val'[1] = Ra /\ val'[2] = Sp
        /\ PointersOk' /\ LiveWritten'
    BY <2>1, AppendKeeps
  <2>3. TodoOk'
    BY <1>2, AppendsTodo
  <2> QED
    BY <2>1, <2>2, <2>3 DEF GenInv
<1>3. CASE TrapsTrap
  <2>1. /\ scenario = "traps" /\ scenario' = scenario /\ phase' = phase /\ gp' = gp
        /\ val' = [val EXCEPT ![6] = Unknown]
    BY <1>3 DEF TrapsTrap, Round
  <2>2. val' \in [Regs -> Int] /\ val'[0] = val[0] /\ val'[1] = val[1] /\ val'[2] = val[2]
    BY <2>1 DEF GenInv, Unknown
  <2>3. PointersOk' /\ LiveWritten' /\ TodoOk'
    BY <2>1 DEF PointersOk, LiveWritten, TodoOk, DataScenarios
  <2> QED
    BY <2>1, <2>2, <2>3 DEF GenInv
<1>4. CASE BranchAlu
  <2>1. scenario = "branch_pred" /\ phase = "body"
    BY <1>4 DEF BranchAlu
  <2>2. PICK i \in BpAlu :
          IF EncodeOk(i) THEN AppendRaw(AluR(i.rd, i.rs))
          ELSE /\ phase' = "raised"
               /\ UNCHANGED <<scenario, n, gp, st, todo, raw, out, cur, win, val, ipc>>
    BY <1>4 DEF BranchAlu
  <2>3. EncodeOk(i) /\ i.rd \in BpWritable
    BY AluDrawn DEF BpAlu, GenInv
  <2>4. AppendRaw(AluR(i.rd, i.rs)) /\ AluR(i.rd, i.rs).rd = i.rd
    BY <2>2, <2>3 DEF AluR, Instr
  <2>5. scenario' = scenario /\ phase' = phase /\ val' = val /\ gp' \subseteq Regs
    BY <2>3, <2>4 DEF AppendRaw, Write, BpWritable, GenInv
  <2> QED
    BY <2>1, <2>5, BranchPredKeeps
<1>5. CASE BranchOp
  <2>1. scenario = "branch_pred" /\ phase = "body"
    BY <1>5 DEF BranchOp
  <2>2. scenario' = scenario /\ phase' = phase /\ val' = val /\ gp' \subseteq Regs
    BY <1>5 DEF BranchOp, AppendRaw, Write, Branch, GenInv
  <2> QED
    BY <2>1, <2>2, BranchPredKeeps
<1>6. CASE WeaveLabel \/ WeaveInstr \/ EndWeave
  BY <1>6, BranchPredKeeps DEF WeaveLabel, WeaveInstr, EndWeave, Weaving, GenInv
<1>7. CASE RunStep
  <2>1. phase = "run" /\ scenario = "branch_pred" /\ scenario' = scenario /\ phase' = phase
        /\ gp' = gp
    BY <1>7 DEF RunStep, GenInv
  <2>2. val' = val \/ val' = IF out[ipc].rd = 0 THEN val ELSE [val EXCEPT ![out[ipc].rd] = Unknown]
    BY <1>7 DEF RunStep, Exec
  <2>3. val' \in [Regs -> Int] /\ val'[0] # Undef
    BY <2>2 DEF GenInv, Unknown, Undef
  <2> QED
    BY <2>1, <2>3 DEF GenInv, PointersOk, LiveWritten, TodoOk, DataScenarios
<1>8. CASE Finish
  BY <1>8 DEF Finish, GenInv, PointersOk, LiveWritten, TodoOk
<1>9. CASE UNCHANGED vars
  BY <1>9 DEF vars, GenInv, PointersOk, LiveWritten, TodoOk
<1>10. CASE Done
  BY <1>9, <1>10 DEF Done
<1> QED
  BY <1>1, <1>2, <1>3, <1>4, <1>5, <1>6, <1>7, <1>8, <1>9, <1>10 DEF Next, Appends

\* The invariant holds from the start.
LEMMA GenInit ==
  ASSUME Init
  PROVE  GenInv
<1> USE CrvAssumption
<1>1. /\ phase = "setup" /\ gp = {0, 2} /\ todo = << >>
      /\ val = [r \in Regs |-> CASE r = 0 -> 0 [] r = 1 -> Ra [] r = 2 -> Sp
                               [] r \in {5, 10, 11} -> Unknown [] OTHER -> Undef]
  BY DEF Init
<1>2. val \in [Regs -> Int] /\ val[0] = 0 /\ val[1] = Ra /\ val[2] = Sp
  BY <1>1 DEF Ra, Sp, Unknown, Undef
<1>3. LiveWritten
  BY <1>1, <1>2 DEF LiveWritten, Undef, Sp
<1>4. TodoOk
  BY <1>1 DEF TodoOk
<1> QED
  BY <1>1, <1>2, <1>3, <1>4 DEF GenInv, PointersOk, Undef

\* The invariant always holds.
THEOREM GenInvariant == Spec => []GenInv
<1>1. Init => GenInv
  BY GenInit
<1>2. GenInv /\ [Next]_vars => GenInv'
  BY GenStep
<1> QED
  BY <1>1, <1>2, PTL DEF Spec

-----------------------------------------------------------------------------
(* What the generated programs never do.                                   *)

\* A step that counts an instruction appended a drawn one, or trapped.
LEMMA CountedSteps ==
  ASSUME GenInv, [Next]_vars, n' # n
  PROVE  /\ phase = "body"
         /\ \/ scenario = "traps" /\ cur' = Seen(Trap)
            \/ \E i : Drawn(i) /\ cur' = Seen(i)
<1>1. CASE Appends
  BY <1>1, AppendsDrawn, AppendKeeps
<1>2. CASE TrapsTrap
  BY <1>2 DEF TrapsTrap, Round
<1>3. CASE ~Appends /\ ~TrapsTrap
  <2>1. \/ Setup \/ BranchAlu \/ BranchOp \/ WeaveLabel \/ WeaveInstr \/ EndWeave
        \/ RunStep \/ Finish \/ UNCHANGED vars
    BY <1>3 DEF Next, Appends, Done
  <2>2. n' = n
    BY <2>1 DEF Setup, BranchAlu, BranchOp, AppendRaw, WeaveLabel, WeaveInstr,
           EndWeave, RunStep, Finish, vars
  <2> QED
    BY <2>2
<1> QED
  BY <1>1, <1>2, <1>3

\* What is remembered of an instruction keeps its source, and of an access its
\* base, offset and width.
LEMMA SeenShape ==
  ASSUME NEW i, Shaped(i)
  PROVE  /\ Seen(i).rs = i.rs
         /\ IsMem(Seen(i)) => IsMem(i)
         /\ IsMem(i) => Seen(i).base = i.base /\ Seen(i).imm = i.imm /\ Seen(i).sz = i.sz
BY DEF Shaped, Seen, IsMem, Instr

\* What AccessInRegion asks of an address.
InRegion(a, sz) == /\ a % sz = 0
                   /\ \/ DATA_BASE <= a /\ a + sz <= DATA_BASE + DATA_SIZE
                      \/ ATOMIC_BASE <= a /\ a + sz <= ATOMIC_BASE + ATOMIC_SIZE

\* An address that is a region's base plus an aligned offset of the scenarios is
\* aligned and inside the region.
LEMMA AimedInRegion ==
  ASSUME NEW base \in {DATA_BASE, ATOMIC_BASE}, NEW off \in OffsetSpan, NEW sz \in {1, 2, 4, 8}, off % sz = 0
  PROVE  InRegion(base + off, sz)
<1> USE DEF DATA_BASE, ATOMIC_BASE, DATA_SIZE, ATOMIC_SIZE, InRegion, OffsetSpan
<1>1. CASE sz = 1
  BY <1>1, SMTT(40)
<1>2. CASE sz = 2
  BY <1>2, SMTT(40)
<1>3. CASE sz = 4
  BY <1>3, SMTT(40)
<1>4. CASE sz = 8
  BY <1>4, SMTT(40)
<1> QED
  BY <1>1, <1>2, <1>3, <1>4, SMT

\* Every load and store of every program executes aligned and inside the DATA or
\* the ATOMIC region, whatever registers the body wrote before it.
THEOREM AccessesStayInRegion == Spec => AccessInRegion
<1> DEFINE A == (n' # n /\ IsMem(cur')) =>
                  LET a == val[cur'.base] + cur'.imm
                  IN  /\ a % cur'.sz = 0
                      /\ \/ DATA_BASE <= a /\ a + cur'.sz <= DATA_BASE + DATA_SIZE
                         \/ ATOMIC_BASE <= a /\ a + cur'.sz <= ATOMIC_BASE + ATOMIC_SIZE
<1>1. GenInv /\ [Next]_vars => [A]_vars
  <2> SUFFICES ASSUME GenInv, [Next]_vars, n' # n, IsMem(cur') PROVE A
    OBVIOUS
  <2>1. cur' # Seen(Trap)
    BY DEF Seen, Trap, Instr, IsMem
  <2>2. PICK i : Drawn(i) /\ cur' = Seen(i)
    BY <2>1, CountedSteps
  <2>3. IsMem(i) /\ cur'.base = i.base /\ cur'.imm = i.imm /\ cur'.sz = i.sz
    BY <2>2, SeenShape DEF Drawn
  <2>4. Aimed(i)
    BY <2>2, <2>3 DEF Drawn
  <2>5. phase = "body"
    BY CountedSteps
  <2>6. val[i.base] \in {DATA_BASE, ATOMIC_BASE}
    BY <2>4, <2>5 DEF Aimed, GenInv, PointersOk
  <2>7. i.imm \in OffsetSpan /\ i.sz \in {1, 2, 4, 8} /\ i.imm % i.sz = 0
    BY <2>4 DEF Aimed
  <2>8. InRegion(val[i.base] + i.imm, i.sz)
    BY <2>6, <2>7, AimedInRegion, Zenon
  <2> QED
    BY <2>3, <2>8 DEF InRegion
<1> QED
  BY <1>1, GenInvariant, PTL DEF Spec, AccessInRegion

-----------------------------------------------------------------------------
(* Spacing: what the loop's counters know about the last five classes.     *)

MemOps == {"load", "store"}

\* The run of accesses the window ends with is no longer than the counter says.
TrailBound(w, k) == \A i \in 1..Len(w) : (\A j \in i..Len(w) : w[j] \in MemOps) => Len(w) - i + 1 <= k

\* No run of k accesses anywhere in the window.
NoChain(w, k) == \A i \in 1..(Len(w) - k + 1) : \E j \in i..(i + k - 1) : w[j] \notin MemOps

\* At most one muldiv in the window, and at least k instructions behind it.
MuldivBehind(w, k) == /\ \A i \in 1..Len(w) : w[i] = "muldiv" => Len(w) - i >= k
                      /\ \A i, j \in 1..Len(w) : (w[i] = "muldiv" /\ w[j] = "muldiv") => i = j

\* The loop's counters.
StType == [mem : 0..3, since : 0..4, rm : Nat, toggle : Int]

SpaceInv ==
    /\ win \in Seq(Ops) /\ Len(win) <= 5
    /\ st \in StType
    /\ scenario # "muldiv_interleave" => \A i \in 1..Len(win) : win[i] # "muldiv"
    /\ scenario = "muldiv_interleave" =>
         st.mem <= 2 /\ MuldivBehind(win, st.since) /\ TrailBound(win, st.mem) /\ NoChain(win, 3)
    /\ scenario = "mem_ordering" => TrailBound(win, st.mem) /\ NoChain(win, 4)

\* The window v follows w by one class: op joins at the end, and d = 1 old class
\* is dropped if the window was full.
Shifted(w, v, op, d) == /\ w \in Seq(Ops) /\ v \in Seq(Ops) /\ Len(w) <= 5
                        /\ Len(v) = Len(w) + 1 - d /\ d = IF Len(w) = 5 THEN 1 ELSE 0
                        /\ v[Len(v)] = op
                        /\ \A j \in 1..(Len(v) - 1) : v[j] = w[j + d]

\* Five is the largest length of a window.
LEMMA FullOrNot == \A k \in Nat : k <= 5 => k = 5 \/ k <= 4
OBVIOUS

\* Cutting a sequence one longer than the window back to five shifts the window.
LEMMA CutShifts ==
  ASSUME NEW w \in Seq(Ops), Len(w) <= 5, NEW op, NEW a \in Seq(Ops), Len(a) = Len(w) + 1,
         a[Len(w) + 1] = op, \A j \in 1..Len(w) : a[j] = w[j]
  PROVE  /\ Shifted(w, Window(a), op, IF Len(w) = 5 THEN 1 ELSE 0)
         /\ Len(Window(a)) <= 5
<1>0. Len(w) \in Nat
  OBVIOUS
<1>1. CASE Len(w) = 5
  <2>1. Len(a) > 5 /\ a # << >>
    BY <1>1
  <2>2. Window(a) = Tail(a)
    BY <2>1 DEF Window
  <2>3. /\ Tail(a) \in Seq(Ops) /\ Len(Tail(a)) = Len(a) - 1
        /\ \A j \in 1..(Len(a) - 1) : Tail(a)[j] = a[j + 1]
    BY <2>1
  <2>4. PICK t \in Seq(Ops) : t = Tail(a)
    BY <2>3
  <2>5. Len(t) = 5 /\ t[5] = op /\ \A j \in 1..4 : t[j] = w[j + 1]
    <3>1. Len(a) = 6 /\ a[6] = op /\ \A j \in 1..5 : a[j] = w[j]
      BY <1>1
    <3>2. Len(t) = 5 /\ \A j \in 1..5 : t[j] = a[j + 1]
      <4>0. 6 - 1 = 5
        OBVIOUS
      <4>1. Len(a) - 1 = 5
        BY <3>1, <4>0, Zenon
      <4> QED
        BY <2>3, <2>4, <4>1, Zenon
    <3>3. t[5] = a[6]
      BY <3>2
    <3>4. \A j \in 1..4 : t[j] = w[j + 1]
      BY <3>1, <3>2
    <3> QED
      BY <3>1, <3>2, <3>3, <3>4
  <2>6. Len(t) = Len(w) + 1 - 1 /\ t[Len(t)] = op /\ Len(t) - 1 = 4
    BY <1>1, <2>5
  <2>7. Shifted(w, t, op, 1)
    BY <1>1, <2>5, <2>6 DEF Shifted
  <2> QED
    BY <1>1, <2>2, <2>4, <2>5, <2>7
<1>2. CASE Len(w) # 5
  <2>0. Len(w) <= 4
    BY <1>0, <1>2, FullOrNot
  <2>1. ~(Len(a) > 5)
    BY <1>0, <2>0
  <2>2. Window(a) = a
    BY <2>1 DEF Window
  <2>3. /\ Len(a) = Len(w) + 1 - 0 /\ Len(a) <= 5 /\ a[Len(a)] = op
        /\ \A j \in 1..(Len(a) - 1) : a[j] = w[j + 0]
    BY <1>0, <2>0
  <2> QED
    BY <1>2, <2>2, <2>3 DEF Shifted
<1> QED
  BY <1>1, <1>2

\* Window(Append(win, op)) shifts the window.
LEMMA WindowShifts ==
  ASSUME NEW w \in Seq(Ops), Len(w) <= 5, NEW op \in Ops
  PROVE  /\ Shifted(w, Window(Append(w, op)), op, IF Len(w) = 5 THEN 1 ELSE 0)
         /\ Len(Window(Append(w, op))) <= 5
<1>1. /\ Append(w, op) \in Seq(Ops) /\ Len(Append(w, op)) = Len(w) + 1 /\ Append(w, op)[Len(w) + 1] = op
      /\ \A j \in 1..Len(w) : Append(w, op)[j] = w[j]
  OBVIOUS
<1> QED
  BY <1>1, CutShifts

\* An access makes the trailing run at most one longer.
LEMMA TrailGrows ==
  ASSUME NEW w, NEW v, NEW op \in MemOps, NEW d, Shifted(w, v, op, d), NEW k \in Nat, TrailBound(w, k)
  PROVE  TrailBound(v, k + 1)
<1> SUFFICES ASSUME NEW i \in 1..Len(v), \A j \in i..Len(v) : v[j] \in MemOps
             PROVE  Len(v) - i + 1 <= k + 1
  BY DEF TrailBound
<1>0. Len(w) \in Nat /\ Len(v) \in Nat /\ d \in {0, 1} /\ Len(v) = Len(w) + 1 - d
  BY DEF Shifted
<1>1. CASE i = Len(v)
  BY <1>0, <1>1
<1>2. CASE i < Len(v)
  <2>1. i + d \in 1..Len(w)
    BY <1>0, <1>2
  <2>2. ASSUME NEW j \in (i + d)..Len(w) PROVE w[j] \in MemOps
    <3>1. j - d \in i..Len(v) /\ j - d \in 1..(Len(v) - 1) /\ (j - d) + d = j
      BY <1>0
    <3>2. v[j - d] = w[j]
      BY <3>1 DEF Shifted
    <3> QED
      BY <3>1, <3>2
  <2>3. Len(w) - (i + d) + 1 <= k
    BY <2>1, <2>2 DEF TrailBound
  <2> QED
    BY <1>0, <2>3
<1> QED
  BY <1>0, <1>1, <1>2

\* Any other class ends it.
LEMMA TrailEnds ==
  ASSUME NEW w, NEW v, NEW op, op \notin MemOps, NEW d, Shifted(w, v, op, d), NEW k \in Nat
  PROVE  TrailBound(v, k)
<1> SUFFICES ASSUME NEW i \in 1..Len(v), \A j \in i..Len(v) : v[j] \in MemOps PROVE FALSE
  BY DEF TrailBound
<1>1. Len(v) \in i..Len(v) /\ v[Len(v)] = op
  BY DEF Shifted
<1> QED
  BY <1>1

\* A window that had no run of k accesses, and ends with a shorter one, has none.
LEMMA ChainStays ==
  ASSUME NEW w, NEW v, NEW op, NEW d, Shifted(w, v, op, d), NEW k \in 1..5, NoChain(w, k),
         NEW m \in Nat, m < k, TrailBound(v, m)
  PROVE  NoChain(v, k)
<1> SUFFICES ASSUME NEW i \in 1..(Len(v) - k + 1), \A j \in i..(i + k - 1) : v[j] \in MemOps PROVE FALSE
  BY DEF NoChain
<1>0. Len(w) \in Nat /\ Len(v) \in Nat /\ d \in {0, 1} /\ Len(v) = Len(w) + 1 - d
  BY DEF Shifted
<1>1. CASE i + k - 1 = Len(v)
  <2>1. Len(v) - i + 1 <= m
    BY <1>0, <1>1 DEF TrailBound
  <2> QED
    BY <1>0, <1>1, <2>1
<1>2. CASE i + k - 1 # Len(v)
  <2>1. i + d \in 1..(Len(w) - k + 1)
    BY <1>0, <1>2
  <2>2. PICK j \in (i + d)..((i + d) + k - 1) : w[j] \notin MemOps
    BY <2>1 DEF NoChain
  <2>3. j - d \in i..(i + k - 1) /\ j - d \in 1..(Len(v) - 1) /\ (j - d) + d = j
    BY <1>0, <1>2
  <2>4. v[j - d] = w[j]
    BY <2>3 DEF Shifted
  <2> QED
    BY <2>2, <2>3, <2>4
<1> QED
  BY <1>1, <1>2

\* Another class puts the muldiv one further behind.
LEMMA MuldivRecedes ==
  ASSUME NEW w, NEW v, NEW op, op # "muldiv", NEW d, Shifted(w, v, op, d), NEW k \in Nat, MuldivBehind(w, k)
  PROVE  MuldivBehind(v, k + 1)
<1>0. Len(w) \in Nat /\ Len(v) \in Nat /\ d \in {0, 1} /\ Len(v) = Len(w) + 1 - d
  BY DEF Shifted
<1>1. ASSUME NEW i \in 1..Len(v), v[i] = "muldiv"
      PROVE  i + d \in 1..Len(w) /\ w[i + d] = "muldiv" /\ i < Len(v)
  <2>1. i # Len(v)
    BY <1>1 DEF Shifted
  <2>2. i \in 1..(Len(v) - 1)
    BY <1>0, <2>1
  <2> QED
    BY <1>0, <1>1, <2>2 DEF Shifted
<1>2. ASSUME NEW i \in 1..Len(v), v[i] = "muldiv" PROVE Len(v) - i >= k + 1
  <2>1. Len(w) - (i + d) >= k
    BY <1>1, <1>2 DEF MuldivBehind
  <2> QED
    BY <1>0, <2>1
<1>3. ASSUME NEW i \in 1..Len(v), NEW j \in 1..Len(v), v[i] = "muldiv", v[j] = "muldiv" PROVE i = j
  <2>1. i + d = j + d
    BY <1>1, <1>3 DEF MuldivBehind
  <2> QED
    BY <1>0, <2>1
<1> QED
  BY <1>2, <1>3 DEF MuldivBehind

\* A muldiv four behind the end drops out as the next one joins.
LEMMA MuldivJoins ==
  ASSUME NEW w, NEW v, NEW d, Shifted(w, v, "muldiv", d), MuldivBehind(w, 4)
  PROVE  MuldivBehind(v, 0)
<1>0. Len(w) \in Nat /\ Len(w) <= 5 /\ Len(v) \in Nat /\ d = (IF Len(w) = 5 THEN 1 ELSE 0)
      /\ Len(v) = Len(w) + 1 - d
  BY DEF Shifted
<1>1. ASSUME NEW i \in 1..Len(v), v[i] = "muldiv" PROVE i = Len(v)
  <2> SUFFICES ASSUME i # Len(v) PROVE FALSE
    OBVIOUS
  <2>1. i \in 1..(Len(v) - 1) /\ i + d \in 1..Len(w)
    BY <1>0
  <2>2. w[i + d] = "muldiv"
    BY <1>1, <2>1 DEF Shifted
  <2>3. Len(w) - (i + d) >= 4
    BY <2>1, <2>2 DEF MuldivBehind
  <2>4. d \in {0, 1} /\ (d = 0 => Len(w) <= 4)
    BY <1>0, FullOrNot
  <2> QED
    BY <1>0, <2>1, <2>3, <2>4
<1> QED
  BY <1>0, <1>1 DEF MuldivBehind

\* Setting two of the counters.
Counters(s, m, k) == [s EXCEPT !.mem = m, !.since = k]

\* The two counters hold what they were set to.
LEMMA TwoCounters ==
  ASSUME NEW s \in StType, NEW m \in 0..3, NEW k \in 0..4
  PROVE  Counters(s, m, k) \in StType /\ Counters(s, m, k).mem = m /\ Counters(s, m, k).since = k
<1>1. Counters(s, m, k) \in StType
  BY DEF StType, Counters
<1>2. Counters(s, m, k).mem = m
  BY DEF StType, Counters
<1>3. Counters(s, m, k).since = k
  BY DEF StType, Counters
<1> QED
  BY <1>1, <1>2, <1>3

\* A window without a muldiv gets one from a muldiv only.
LEMMA NoMuldivStays ==
  ASSUME NEW w, NEW v, NEW op, op # "muldiv", NEW d, Shifted(w, v, op, d),
         \A i \in 1..Len(w) : w[i] # "muldiv"
  PROVE  \A i \in 1..Len(v) : v[i] # "muldiv"
<1> SUFFICES ASSUME NEW i \in 1..Len(v), i # Len(v) PROVE v[i] # "muldiv"
  BY DEF Shifted
<1>1. Len(w) \in Nat /\ Len(v) \in Nat /\ d \in {0, 1} /\ Len(v) = Len(w) + 1 - d
  BY DEF Shifted
<1>2. i \in 1..(Len(v) - 1) /\ i + d \in 1..Len(w)
  BY <1>1
<1> QED
  BY <1>2 DEF Shifted

\* A distance that is at least k is at least anything smaller.
LEMMA MuldivWeaker ==
  ASSUME NEW v, Len(v) \in Nat, NEW k \in Nat, NEW m \in Nat, m <= k, MuldivBehind(v, k)
  PROVE  MuldivBehind(v, m)
BY DEF MuldivBehind

\* Appending shifts the window by the class of the instruction.
LEMMA AppendShifts ==
  ASSUME GenInv, SpaceInv, phase = "body", scenario # "branch_pred", NEW i, Drawn(i), Append1(i)
  PROVE  /\ scenario' = scenario /\ i.op \in Ops
         /\ win' \in Seq(Ops) /\ Len(win') <= 5 /\ Len(win') \in Nat
         /\ \E d : Shifted(win, win', i.op, d)
<1>1. scenario' = scenario /\ win' = Window(Append(win, i.op))
  BY AppendKeeps
<1>2. win \in Seq(Ops) /\ Len(win) <= 5 /\ i.op \in Ops
  BY DEF SpaceInv, Drawn, Shaped
<1>3. Shifted(win, win', i.op, IF Len(win) = 5 THEN 1 ELSE 0) /\ Len(win') <= 5
  BY <1>1, <1>2, WindowShifts
<1> QED
  BY <1>1, <1>2, <1>3 DEF Shifted

\* The rounds without a counter: no muldiv appears.
LEMMA PlainSpace ==
  ASSUME GenInv, SpaceInv, phase = "body", scenario \notin {"muldiv_interleave", "mem_ordering", "branch_pred"},
         st' \in StType,
         NEW i, Drawn(i), Append1(i), i.op # "muldiv"
  PROVE  SpaceInv'
<1>1. /\ scenario' = scenario /\ win' \in Seq(Ops) /\ Len(win') <= 5
      /\ \E d : Shifted(win, win', i.op, d)
  BY AppendShifts
<1>2. PICK d : Shifted(win, win', i.op, d)
  BY <1>1
<1>3. \A j \in 1..Len(win') : win'[j] # "muldiv"
  BY <1>2, NoMuldivStays DEF SpaceInv
<1> QED
  BY <1>1, <1>3 DEF SpaceInv

\* muldiv_interleave: every instruction but the muldiv itself.
LEMMA MuldivSpace ==
  ASSUME GenInv, SpaceInv, phase = "body", scenario = "muldiv_interleave",
         NEW i, Drawn(i), Append1(i), i.op # "muldiv",
         st' \in StType,
         st'.since = Since(1),
         \/ i.op \notin MemOps /\ st'.mem <= 2
         \/ i.op \in MemOps /\ st.mem < 2 /\ st'.mem = st.mem + 1
  PROVE  SpaceInv'
<1>1. /\ scenario' = scenario /\ win' \in Seq(Ops) /\ Len(win') <= 5 /\ Len(win') \in Nat
      /\ \E d : Shifted(win, win', i.op, d)
  BY AppendShifts
<1>2. PICK d : Shifted(win, win', i.op, d)
  BY <1>1
<1>3. /\ st.mem \in 0..3 /\ st.since \in 0..4 /\ st'.mem \in 0..3 /\ st'.since \in 0..4 /\ st.mem <= 2
      /\ MuldivBehind(win, st.since) /\ TrailBound(win, st.mem) /\ NoChain(win, 3)
  BY DEF SpaceInv, StType
<1>4. MuldivBehind(win', st'.since)
  <2>1. MuldivBehind(win', st.since + 1)
    BY <1>2, <1>3, MuldivRecedes
  <2>2. st'.since <= st.since + 1
    BY <1>3 DEF Since
  <2> QED
    BY <1>1, <1>3, <2>1, <2>2, MuldivWeaker
<1>5. st'.mem <= 2 /\ TrailBound(win', st'.mem)
  <2>1. CASE i.op \notin MemOps
    BY <1>2, <1>3, <2>1, TrailEnds
  <2>2. CASE i.op \in MemOps
    BY <1>2, <1>3, <2>2, TrailGrows
  <2> QED
    BY <2>1, <2>2
<1>6. NoChain(win', 3)
  BY <1>2, <1>3, <1>5, ChainStays
<1> QED
  BY <1>1, <1>4, <1>5, <1>6 DEF SpaceInv

\* muldiv_interleave: the muldiv, emitted four instructions after the last.
LEMMA MuldivOpSpace ==
  ASSUME GenInv, SpaceInv, phase = "body", scenario = "muldiv_interleave", st.since >= 4,
         NEW i, Drawn(i), Append1(i), i.op = "muldiv",
         st' = [st EXCEPT !.mem = 0, !.since = 0]
  PROVE  SpaceInv'
<1>1. /\ scenario' = scenario /\ win' \in Seq(Ops) /\ Len(win') <= 5 /\ Len(win') \in Nat
      /\ \E d : Shifted(win, win', i.op, d)
  BY AppendShifts
<1>2. PICK d : Shifted(win, win', i.op, d)
  BY <1>1
<1>s. st \in StType
  BY DEF SpaceInv
<1>t. st' \in StType /\ st'.mem = 0 /\ st'.since = 0
  <2>1. 0 \in 0..3 /\ 0 \in 0..4
    OBVIOUS
  <2>2. st' = Counters(st, 0, 0)
    BY DEF Counters
  <2> QED
    BY <1>s, <2>1, <2>2, TwoCounters
<1>3. st.since \in 0..4 /\ MuldivBehind(win, st.since) /\ NoChain(win, 3)
  BY <1>s DEF SpaceInv, StType
<1>4. st.since = 4
  BY <1>3
<1>5. MuldivBehind(win', 0)
  BY <1>2, <1>3, <1>4, MuldivJoins
<1>6. i.op \notin MemOps
  BY DEF MemOps
<1>7. TrailBound(win', 0)
  BY <1>2, <1>6, TrailEnds
<1>8. NoChain(win', 3)
  BY <1>2, <1>3, <1>7, ChainStays
<1> QED
  BY <1>1, <1>t, <1>5, <1>7, <1>8 DEF SpaceInv

\* mem_ordering
LEMMA OrderingSpace ==
  ASSUME GenInv, SpaceInv, phase = "body", scenario = "mem_ordering",
         NEW i, Drawn(i), Append1(i), i.op # "muldiv",
         st' \in StType,
         \/ i.op \notin MemOps
         \/ i.op \in MemOps /\ st.mem < 3 /\ st'.mem = st.mem + 1
  PROVE  SpaceInv'
<1>1. /\ scenario' = scenario /\ win' \in Seq(Ops) /\ Len(win') <= 5 /\ Len(win') \in Nat
      /\ \E d : Shifted(win, win', i.op, d)
  BY AppendShifts
<1>2. PICK d : Shifted(win, win', i.op, d)
  BY <1>1
<1>3. st.mem \in 0..3 /\ st'.mem \in 0..3 /\ TrailBound(win, st.mem) /\ NoChain(win, 4)
  BY DEF SpaceInv, StType
<1>4. \A j \in 1..Len(win') : win'[j] # "muldiv"
  BY <1>2, NoMuldivStays DEF SpaceInv
<1>5. TrailBound(win', st'.mem)
  <2>1. CASE i.op \notin MemOps
    BY <1>2, <1>3, <2>1, TrailEnds
  <2>2. CASE i.op \in MemOps
    BY <1>2, <1>3, <2>2, TrailGrows
  <2> QED
    BY <2>1, <2>2
<1>6. NoChain(win', 4)
  BY <1>2, <1>3, <1>5, ChainStays
<1> QED
  BY <1>1, <1>4, <1>5, <1>6 DEF SpaceInv

\* Every step keeps the counters and the window in step.
LEMMA SpaceStep ==
  ASSUME GenInv, SpaceInv, [Next]_vars
  PROVE  SpaceInv'
<1>0. st \in StType
  BY DEF SpaceInv
<1>1. CASE MuldivAlu
  <2>1. PICK i : phase = "body" /\ scenario = "muldiv_interleave"
                 /\ Drawn(i) /\ Append1(i) /\ i.op \in {"alu", "addi", "shift"}
    BY <1>1, MuldivAluDraws
  <2>2. st' = [st EXCEPT !.mem = 0, !.since = Since(1)] /\ Since(1) \in 0..4
    BY <1>0, <1>1 DEF MuldivAlu, Since, StType
  <2>3. st' \in StType /\ st'.since = Since(1) /\ st'.mem <= 2
    <3>1. 0 \in 0..3 /\ 0 <= 2
      OBVIOUS
    <3>2. st' = Counters(st, 0, Since(1))
      BY <2>2 DEF Counters
    <3> QED
      BY <1>0, <2>2, <3>1, <3>2, TwoCounters
  <2> QED
    BY <2>1, <2>3, MuldivSpace DEF MemOps
<1>2. CASE MuldivMem
  <2>1. PICK i : phase = "body" /\ scenario = "muldiv_interleave"
                 /\ Drawn(i) /\ Append1(i) /\ i.op = "load"
    BY <1>2, MuldivMemDraws
  <2>2. st' = [st EXCEPT !.mem = @ + 1, !.since = Since(1)] /\ Since(1) \in 0..4 /\ st.mem < 2
    BY <1>0, <1>2 DEF MuldivMem, Since, Filler, StType
  <2>3. st' \in StType /\ st'.since = Since(1) /\ st'.mem = st.mem + 1
    <3>1. st.mem + 1 \in 0..3
      BY <1>0, <2>2 DEF StType
    <3>2. st' = Counters(st, st.mem + 1, Since(1))
      BY <2>2 DEF Counters
    <3> QED
      BY <1>0, <2>2, <3>1, <3>2, TwoCounters
  <2> QED
    BY <2>1, <2>2, <2>3, MuldivSpace DEF MemOps
<1>3. CASE MuldivOp
  <2>1. PICK i : phase = "body" /\ scenario = "muldiv_interleave"
                 /\ Drawn(i) /\ Append1(i) /\ i.op = "muldiv"
    BY <1>3, MuldivOpDraws
  <2>2. st' = [st EXCEPT !.mem = 0, !.since = 0] /\ st.since >= 4
    BY <1>3 DEF MuldivOp
  <2> QED
    BY <2>1, <2>2, MuldivOpSpace
<1>4. CASE MuldivConsumer
  <2>1. PICK i : phase = "body" /\ scenario = "muldiv_interleave"
                 /\ Drawn(i) /\ Append1(i) /\ i.op = "alu"
    BY <1>4, MuldivConsumerDraws
  <2>2. st' = [st EXCEPT !.since = Since(1)] /\ Since(1) \in 0..4 /\ st.mem <= 2
    BY <1>0, <1>4, <2>1 DEF MuldivConsumer, Since, SpaceInv, StType
  <2>3. st' \in StType /\ st'.since = Since(1) /\ st'.mem <= 2
    BY <1>0, <2>2 DEF StType
  <2> QED
    BY <2>1, <2>3, MuldivSpace DEF MemOps
<1>5. CASE OrderingMem
  <2>1. PICK i : phase = "body" /\ scenario = "mem_ordering"
                 /\ Drawn(i) /\ Append1(i) /\ i.op \in {"load", "store"}
    BY <1>5, OrderingMemDraws
  <2>2. st' = [st EXCEPT !.mem = @ + 1] /\ st.mem < 3
    BY <1>5 DEF OrderingMem
  <2>3. st' \in StType /\ st'.mem = st.mem + 1
    BY <1>0, <2>2 DEF StType
  <2> QED
    BY <2>1, <2>2, <2>3, OrderingSpace DEF MemOps
<1>6. CASE OrderingAlu
  <2>1. PICK i : phase = "body" /\ scenario = "mem_ordering"
                 /\ Drawn(i) /\ Append1(i) /\ i.op \in {"alu", "addi", "shift"}
    BY <1>6, OrderingAluDraws
  <2>2. st' = [st EXCEPT !.mem = 0]
    BY <1>6 DEF OrderingAlu
  <2>3. st' \in StType
    BY <1>0, <2>2 DEF StType
  <2> QED
    BY <2>1, <2>3, OrderingSpace DEF MemOps
<1>7. CASE \/ IntHazards \/ RawStress \/ RawStressAccess \/ FpArith \/ FdivFsqrt \/ TrapsAlu
  <2>1. PICK i : /\ phase = "body"
                 /\ scenario \in {"int_hazards", "raw_stress", "fp_arith", "fdiv_fsqrt", "traps"}
                 /\ Drawn(i) /\ Append1(i) /\ i.op # "muldiv"
    BY <1>7, IntHazardsDraws, RawStressDraws, RawStressAccessDraws, FpArithDraws, FdivFsqrtDraws, TrapsAluDraws
  <2>2. st' = st \/ st' = [st EXCEPT !.rm = (@ + 1) % 6]
    BY <1>7 DEF IntHazards, RawStress, RawStressAccess, FpArith, FdivFsqrt, TrapsAlu
  <2>3. st' \in StType
    BY <1>0, <2>2 DEF StType
  <2> QED
    BY <2>1, <2>3, PlainSpace
<1>8. CASE TrapsTrap
  <2>1. /\ scenario = "traps" /\ scenario' = scenario
        /\ st' = [st EXCEPT !.toggle = 1 - @]
    BY <1>8 DEF TrapsTrap, Round
  <2>2. PICK op \in {"ecall", "ebreak"} : win' = Window(Append(win, op))
    BY <1>8 DEF TrapsTrap
  <2>3. win \in Seq(Ops) /\ Len(win) <= 5 /\ op \in Ops /\ op # "muldiv"
    BY DEF SpaceInv, Ops
  <2>4. Shifted(win, win', op, IF Len(win) = 5 THEN 1 ELSE 0) /\ Len(win') <= 5
    BY <2>2, <2>3, WindowShifts
  <2>n. \A j \in 1..Len(win) : win[j] # "muldiv"
    BY <2>1 DEF SpaceInv
  <2>5. win' \in Seq(Ops) /\ \A j \in 1..Len(win') : win'[j] # "muldiv"
    <3>1. win' \in Seq(Ops)
      BY <2>4 DEF Shifted
    <3> QED
      BY <2>3, <2>4, <2>n, <3>1, NoMuldivStays
  <2>6. st' \in StType
    BY <1>0, <2>1 DEF StType
  <2> QED
    BY <2>1, <2>4, <2>5, <2>6 DEF SpaceInv
<1>9. CASE \/ Setup \/ BranchAlu \/ BranchOp \/ WeaveLabel \/ WeaveInstr \/ EndWeave
           \/ RunStep \/ Finish \/ UNCHANGED vars
  <2>1. scenario' = scenario /\ win' = win /\ st' = st
    BY <1>9 DEF Setup, BranchAlu, BranchOp, AppendRaw, WeaveLabel, WeaveInstr,
           EndWeave, RunStep, Finish, vars
  <2> QED
    BY <2>1 DEF SpaceInv, MuldivBehind, TrailBound, NoChain
<1> QED
  BY <1>1, <1>2, <1>3, <1>4, <1>5, <1>6, <1>7, <1>8, <1>9 DEF Next, Done

\* Two muldivs are always at least four instructions apart, and no chain of loads
\* or accesses gets longer than the workarounds allow, at every length.
THEOREM AlwaysSpaced == Spec => []Spacing
<1>1. Init => SpaceInv
  BY DEF Init, SpaceInv, StType, MuldivBehind, TrailBound, NoChain
<1>2. GenInv /\ SpaceInv /\ [Next]_vars => SpaceInv'
  BY SpaceStep
<1>3. SpaceInv => Spacing
  <2> SUFFICES ASSUME SpaceInv PROVE Spacing
    OBVIOUS
  <2>1. win \in Seq(Ops) /\ DOMAIN win = 1..Len(win)
    BY DEF SpaceInv
  <2>2. \A i, j \in DOMAIN win : (win[i] = "muldiv" /\ win[j] = "muldiv") => i = j
    BY <2>1 DEF SpaceInv, MuldivBehind
  <2>3. scenario = "muldiv_interleave" => ~Chain(3)
    BY DEF SpaceInv, NoChain, Chain, MemOps
  <2>4. scenario = "mem_ordering" => ~Chain(4)
    BY DEF SpaceInv, NoChain, Chain, MemOps
  <2> QED
    BY <2>2, <2>3, <2>4 DEF Spacing
<1> QED
  BY <1>1, <1>2, <1>3, GenInvariant, PTL DEF Spec

-----------------------------------------------------------------------------
(* branch_pred: the woven program.                                         *)

\* What raw and out are made of: an ALU instruction that spares ra and sp, a
\* branch, and in out also a label.
BranchOps == {"always", "never", "either"}
RawItems == [op : {"alu", "addi"} \cup BranchOps, rd : Regs \ {1, 2}, rs : Regs,
             base : Nat, imm : Int, sz : {0}]
Items == [op : {"alu", "addi", "label"} \cup BranchOps, rd : Regs \ {1, 2}, rs : Regs,
          base : Nat, imm : Int, sz : {0}]

\* Every branch of raw has a label scheduled behind it.
RawInv ==
    /\ scenario \in Scenarios
    /\ raw \in Seq(RawItems) /\ out \in Seq(Items) /\ sched \in Seq(Nat)
    /\ phase \in {"setup", "body"} => ipc \in Nat
    /\ phase = "setup" => raw = << >> /\ out = << >> /\ sched = << >> /\ ipc = 0
    /\ phase = "body" => \/ ipc = 0 /\ out = << >>
                         \/ Weaving /\ ipc <= Len(raw)
    /\ \A j \in DOMAIN raw : raw[j].op \in BranchOps =>
         raw[j].base \in DOMAIN sched /\ sched[raw[j].base] >= j

\* In the part that is woven no label stands twice or before its branch, and
\* exactly the labels of the positions passed are planted, besides some of the
\* present one.
WeaveInv == phase = "body" =>
    /\ \A p \in DOMAIN out : out[p].op \in BranchOps =>
         /\ out[p].base \in DOMAIN sched
         /\ \A q \in DOMAIN out : out[q] = Label(out[p].base) => p < q
    /\ \A p, q \in DOMAIN out : (out[p].op = "label" /\ out[p] = out[q]) => p = q
    /\ \A p \in DOMAIN out : out[p].op = "label" =>
         \E k \in DOMAIN sched : out[p] = Label(k) /\ Effective(k) <= ipc
    /\ \A k \in DOMAIN sched : Effective(k) < ipc => \E p \in DOMAIN out : out[p] = Label(k)

ReturnInv == val[1] = Ra /\ val[2] = Sp

\* The steps of the seven straight-line scenarios leave the lists alone.
LEMMA StraightLine ==
    ASSUME GenInv, Appends \/ TrapsTrap
    PROVE  /\ UNCHANGED <<raw, sched, out, ipc>> /\ phase = "body" /\ scenario # "branch_pred"
           /\ phase' = phase /\ scenario' = scenario
<1>1. CASE Appends
  <2>1. PICK i : phase = "body" /\ scenario # "branch_pred" /\ Drawn(i) /\ Append1(i)
    BY <1>1, AppendsDrawn
  <2>2. scenario' = scenario /\ phase' = phase
    BY <2>1, AppendKeeps
  <2> QED
    BY <2>1, <2>2 DEF Append1
<1>2. CASE TrapsTrap
  BY <1>2 DEF TrapsTrap, Round
<1> QED
  BY <1>1, <1>2

\* The instructions branch_pred appends, and labels, are items.
LEMMA ItemTypes ==
    ASSUME gp \subseteq Regs
    PROVE  /\ RawItems \subseteq Items
           /\ Addi(5, 0, 42) \in RawItems
           /\ \A rd \in BpWritable, rs \in gp : AluR(rd, rs) \in RawItems
           /\ \A k \in Nat, op \in BranchOps, rs \in gp : Branch(k, op, rs) \in RawItems
           /\ \A k \in Nat : Label(k) \in Items
<1> USE CrvAssumption
<1>1. RawItems \subseteq Items
  BY DEF RawItems, Items
<1>2. Addi(5, 0, 42) = [op |-> "addi", rd |-> 5, rs |-> 0, base |-> 0, imm |-> 42, sz |-> 0]
  BY DEF Addi, Instr
<1>3. Addi(5, 0, 42) \in RawItems
  BY <1>2 DEF RawItems
<1>4. \A rd \in BpWritable, rs \in gp : AluR(rd, rs) \in RawItems
  BY DEF AluR, Instr, RawItems, BpWritable
<1>5. \A k \in Nat, op \in BranchOps, rs \in gp : Branch(k, op, rs) \in RawItems
  BY DEF Branch, RawItems
<1>6. \A k \in Nat : Label(k) \in Items
  BY DEF Label, Items
<1> QED
  BY <1>1, <1>3, <1>4, <1>5, <1>6

\* Appending to a sequence.
LEMMA Appending ==
    ASSUME NEW S, NEW s \in Seq(S), NEW x \in S
    PROVE  /\ Append(s, x) \in Seq(S) /\ Len(Append(s, x)) = Len(s) + 1 /\ Len(s) \in Nat
           /\ DOMAIN s = 1..Len(s) /\ DOMAIN Append(s, x) = 1..(Len(s) + 1)
           /\ \A j \in 1..Len(s) : Append(s, x)[j] = s[j]
           /\ Append(s, x)[Len(s) + 1] = x
OBVIOUS

\* A branch is appended together with the position of its label, which is later.
LEMMA RawInvStep ==
    ASSUME GenInv, RawInv, [Next]_vars
    PROVE  RawInv'
<1> USE CrvAssumption
<1>0. /\ raw \in Seq(RawItems) /\ out \in Seq(Items) /\ sched \in Seq(Nat)
      /\ scenario \in Scenarios /\ Length[scenario] \in Nat /\ Len(raw) \in Nat
  <2>1. raw \in Seq(RawItems) /\ out \in Seq(Items) /\ sched \in Seq(Nat) /\ scenario \in Scenarios
    BY DEF RawInv
  <2>2. Length[scenario] \in Nat
    BY <2>1
  <2>3. Len(raw) \in Nat
    BY <2>1
  <2> QED
    BY <2>1, <2>2, <2>3
<1>1. CASE Setup
  <2>1. /\ raw = << >> /\ out = << >> /\ sched = << >> /\ ipc = 0
        /\ UNCHANGED <<scenario, sched, out, ipc>> /\ phase = "setup"
    BY <1>1 DEF Setup, RawInv
  <2>2. raw' = raw \/ raw' = <<Addi(5, 0, 42)>>
    BY <1>1 DEF Setup, SetPointers, RsPointer, MoPointers, TrPrologue, BpPrologue
  <2>3. phase' # "setup"
    BY <1>1 DEF Setup, SetPointers, RsPointer, MoPointers, TrPrologue, BpPrologue
  <2>4. CASE raw' = raw
    BY <1>0, <2>1, <2>3, <2>4 DEF RawInv
  <2>5. CASE raw' = <<Addi(5, 0, 42)>>
    <3>1. raw' \in Seq(RawItems) /\ DOMAIN raw' = {1} /\ raw'[1] = Addi(5, 0, 42)
      BY <2>5, ItemTypes DEF GenInv
    <3>2. Addi(5, 0, 42).op \notin BranchOps
      BY DEF Addi, Instr, BranchOps
    <3> QED
      BY <1>0, <2>1, <2>3, <3>1, <3>2 DEF RawInv
  <2> QED
    BY <2>2, <2>4, <2>5
<1>2. CASE Appends \/ TrapsTrap
  BY <1>2, StraightLine DEF RawInv, Weaving
<1>3. CASE BranchAlu
  <2>1. PICK i \in BpAlu :
          IF EncodeOk(i) THEN AppendRaw(AluR(i.rd, i.rs))
          ELSE /\ phase' = "raised"
               /\ UNCHANGED <<scenario, n, gp, st, todo, raw, out, cur, win, val, ipc>>
    BY <1>3 DEF BranchAlu
  <2>2. phase = "body" /\ ~Weaving /\ sched' = sched
    <3>1. Len(raw) < Length[scenario] /\ phase = "body" /\ sched' = sched
      BY <1>3 DEF BranchAlu
    <3> QED
      BY <1>0, <3>1 DEF Weaving
  <2>3. EncodeOk(i) /\ i.rd \in BpWritable /\ i.rs \in gp
    BY AluDrawn DEF BpAlu, GenInv
  <2>4. /\ raw' = Append(raw, AluR(i.rd, i.rs))
        /\ scenario' = scenario /\ phase' = phase /\ out' = out /\ ipc' = ipc
    BY <2>1, <2>3 DEF AppendRaw
  <2>5. AluR(i.rd, i.rs) \in RawItems /\ AluR(i.rd, i.rs).op \notin BranchOps
    BY <2>3, ItemTypes DEF GenInv, AluR, Instr, BranchOps
  <2>6. ipc = 0 /\ out = << >>
    BY <2>2 DEF RawInv
  <2> DEFINE x == AluR(i.rd, i.rs)
  <2> HIDE DEF x
  <2>7. /\ raw' \in Seq(RawItems) /\ DOMAIN raw' = 1..(Len(raw) + 1) /\ DOMAIN raw = 1..Len(raw)
        /\ \A j \in 1..Len(raw) : raw'[j] = raw[j]
        /\ raw'[Len(raw) + 1] = x /\ x.op \notin BranchOps /\ Len(raw) \in Nat
    BY <1>0, <2>4, <2>5, Appending DEF x
  <2>8. \A j \in DOMAIN raw' : raw'[j].op \in BranchOps => j \in DOMAIN raw /\ raw'[j] = raw[j]
    BY <2>7
  <2> QED
    BY <1>0, <2>2, <2>4, <2>6, <2>7, <2>8 DEF RawInv
<1>4. CASE BranchOp
  <2>1. PICK gap \in 1..5, rs \in gp, taken \in {"always", "never"} :
          /\ AppendRaw(Branch(Len(sched) + 1, IF rs = 0 THEN taken ELSE "either", rs))
          /\ sched' = Append(sched, Len(raw) + gap)
    BY <1>4 DEF BranchOp
  <2>2. phase = "body" /\ ~Weaving
    <3>1. Len(raw) < Length[scenario] /\ phase = "body"
      BY <1>4 DEF BranchOp
    <3> QED
      BY <1>0, <3>1 DEF Weaving
  <2>3. PICK op \in BranchOps : op = IF rs = 0 THEN taken ELSE "either"
    BY DEF BranchOps
  <2> DEFINE x == Branch(Len(sched) + 1, op, rs)
             t == Len(raw) + gap
  <2>4. /\ raw' = Append(raw, x) /\ sched' = Append(sched, t)
        /\ scenario' = scenario /\ phase' = phase /\ out' = out /\ ipc' = ipc
    BY <2>1, <2>3 DEF AppendRaw
  <2>5. x \in RawItems /\ t \in Nat /\ Len(raw) \in Nat /\ Len(sched) \in Nat /\ t >= Len(raw) + 1
    <3>1. Len(raw) \in Nat /\ Len(sched) \in Nat /\ Len(sched) + 1 \in Nat
      BY <1>0
    <3>2. x \in RawItems
      BY <3>1, ItemTypes DEF GenInv
    <3> QED
      BY <3>1, <3>2
  <2>6. x.base = Len(sched) + 1
    BY DEF Branch
  <2>7. ipc = 0 /\ out = << >>
    BY <2>2 DEF RawInv
  <2> HIDE DEF x, t
  <2>8. /\ raw' \in Seq(RawItems) /\ DOMAIN raw' = 1..(Len(raw) + 1) /\ DOMAIN raw = 1..Len(raw)
        /\ \A j \in 1..Len(raw) : raw'[j] = raw[j]
        /\ raw'[Len(raw) + 1] = x
    BY <1>0, <2>4, <2>5, Appending
  <2>9. /\ sched' \in Seq(Nat) /\ DOMAIN sched' = 1..(Len(sched) + 1)
        /\ DOMAIN sched = 1..Len(sched)
        /\ \A k \in 1..Len(sched) : sched'[k] = sched[k]
        /\ sched'[Len(sched) + 1] = t
    BY <1>0, <2>4, <2>5, Appending
  <2>10. ASSUME NEW j \in DOMAIN raw', raw'[j].op \in BranchOps
         PROVE  raw'[j].base \in DOMAIN sched' /\ sched'[raw'[j].base] >= j
    <3>1. CASE j = Len(raw) + 1
      <4> DEFINE b == Len(sched) + 1
      <4>1. raw'[j] = x /\ x.base = b
        BY <2>6, <2>8, <3>1
      <4>2. b \in 1..b
        BY <2>5
      <4>3. b \in DOMAIN sched' /\ sched'[b] = t
        BY <2>9, <4>2
      <4>4. t >= j
        BY <2>5, <3>1
      <4> HIDE DEF b
      <4> QED
        BY <4>1, <4>3, <4>4
    <3>2. CASE j \in 1..Len(raw)
      <4>1. raw'[j] = raw[j] /\ raw[j].base \in DOMAIN sched /\ sched[raw[j].base] >= j
        BY <2>8, <2>10, <3>2 DEF RawInv
      <4> DEFINE k == raw[j].base
      <4>2. k \in 1..Len(sched)
        BY <2>9, <4>1
      <4> HIDE DEF k
      <4>3. k \in DOMAIN sched' /\ sched'[k] = sched[k]
        <5>1. k \in 1..(Len(sched) + 1)
          BY <2>5, <4>2
        <5> QED
          BY <2>9, <4>2, <5>1
      <4>4. raw[j].base \in DOMAIN sched' /\ sched'[raw[j].base] = sched[raw[j].base]
        BY <4>3 DEF k
      <4> QED
        BY <4>1, <4>4
    <3> QED
      BY <2>5, <2>8, <3>1, <3>2
  <2> QED
    BY <1>0, <2>2, <2>4, <2>7, <2>8, <2>9, <2>10 DEF RawInv
<1>5. CASE WeaveLabel
  <2>1. PICK k \in Pending : out' = Append(out, Label(k))
    BY <1>5 DEF WeaveLabel
  <2>2. k \in Nat
    BY <1>0 DEF Pending
  <2>3. out' \in Seq(Items)
    BY <1>0, <2>1, <2>2, ItemTypes, Appending DEF GenInv
  <2>4. Weaving /\ Weaving' /\ phase = "body"
        /\ UNCHANGED <<scenario, phase, raw, sched, ipc>>
    BY <1>5 DEF WeaveLabel, Weaving
  <2>5. ipc <= Len(raw)
    BY <1>0, <2>4 DEF RawInv
  <2>6. ipc \in Nat
    BY <2>4 DEF RawInv
  <2> QED
    BY <1>0, <2>3, <2>4, <2>5, <2>6 DEF RawInv
<1>6. CASE WeaveInstr
  <2>1. /\ Weaving /\ Weaving' /\ phase = "body" /\ UNCHANGED <<scenario, phase, raw, sched>>
        /\ ipc < Len(raw) /\ ipc' = ipc + 1 /\ out' = Append(out, raw[ipc + 1])
    BY <1>6 DEF WeaveInstr, Weaving
  <2>0. ipc \in Nat
    BY <2>1 DEF RawInv
  <2>2. raw[ipc + 1] \in Items
    <3>1. raw[ipc + 1] \in RawItems
      BY <1>0, <2>0, <2>1
    <3> QED
      BY <3>1, ItemTypes DEF GenInv
  <2>3. out' \in Seq(Items) /\ ipc' \in Nat /\ ipc' <= Len(raw)
    BY <1>0, <2>0, <2>1, <2>2, Appending
  <2> QED
    BY <1>0, <2>1, <2>3 DEF RawInv
<1>7. CASE EndWeave \/ RunStep \/ Finish
  <2>1. UNCHANGED <<scenario, raw, sched, out>> /\ phase' \in {"run", "done"}
    BY <1>7 DEF EndWeave, RunStep, Finish
  <2> QED
    BY <1>0, <2>1 DEF RawInv
<1>8. CASE UNCHANGED vars
  BY <1>8 DEF vars, RawInv, Weaving
<1>9. CASE Done
  BY <1>8, <1>9 DEF Done
<1> QED
  BY <1>1, <1>2, <1>3, <1>4, <1>5, <1>6, <1>7, <1>8, <1>9 DEF Next, Appends

\* Labels name their branch, and are placed inside raw or at its end.
LEMMA Placing ==
    ASSUME RawInv
    PROVE  /\ \A k, m : Label(k) = Label(m) => k = m
           /\ \A k : Label(k).op = "label" /\ Label(k).base = k
           /\ \A k \in DOMAIN sched : /\ Effective(k) \in Nat /\ Effective(k) <= Len(raw)
                                      /\ Effective(k) = sched[k] \/ Effective(k) = Len(raw)
<1>1. \A k : Label(k).op = "label" /\ Label(k).base = k
  BY DEF Label
<1>2. \A k, m : Label(k) = Label(m) => k = m
  BY <1>1
<1>3. Len(raw) \in Nat /\ \A k \in DOMAIN sched : sched[k] \in Nat
  BY DEF RawInv
<1>4. ASSUME NEW k \in DOMAIN sched
      PROVE  /\ Effective(k) \in Nat /\ Effective(k) <= Len(raw)
             /\ Effective(k) = sched[k] \/ Effective(k) = Len(raw)
  BY <1>3 DEF Effective
<1> QED
  BY <1>1, <1>2, <1>4

\* A label is planted once, behind its branch.
LEMMA LabelPlanted ==
    ASSUME GenInv, RawInv, WeaveInv, WeaveLabel
    PROVE  WeaveInv'
<1> PICK k \in Pending : out' = Append(out, Label(k))
  BY DEF WeaveLabel
<1> DEFINE x == Label(k)
           L == Len(out)
<1>1. UNCHANGED <<phase, raw, sched, ipc>> /\ phase = "body" /\ ipc \in Nat
  BY DEF WeaveLabel, Weaving, RawInv
<1>2. /\ k \in DOMAIN sched /\ k \in Nat /\ Effective(k) = ipc
      /\ \A p \in DOMAIN out : out[p] # x
  BY DEF Pending, RawInv
<1>3. x \in Items /\ out \in Seq(Items)
  BY <1>2, ItemTypes DEF GenInv, RawInv
<1>4. x.op = "label" /\ x.op \notin BranchOps
  BY Placing DEF BranchOps
<1>5. \A m : Effective(m)' = Effective(m)
  BY <1>1 DEF Effective
<1>6. out' = Append(out, x)
  OBVIOUS
<1> HIDE DEF x
<1>7. /\ L \in Nat /\ DOMAIN out = 1..L /\ DOMAIN out' = 1..(L + 1)
      /\ \A j \in 1..L : out'[j] = out[j]
      /\ out'[L + 1] = x
  BY <1>3, <1>6, Appending
<1> HIDE DEF L
<1>8. \A j \in DOMAIN out' : (j \in DOMAIN out /\ out'[j] = out[j]) \/ (j = L + 1 /\ out'[j] = x)
  BY <1>7
<1>9. \A j \in DOMAIN out : j < L + 1 /\ out'[j] = out[j] /\ j \in DOMAIN out'
  BY <1>7
<1>10. L + 1 \in DOMAIN out'
  BY <1>7
<1>11. ASSUME NEW p \in DOMAIN out', out'[p].op \in BranchOps
       PROVE  /\ out'[p].base \in DOMAIN sched
              /\ \A q \in DOMAIN out' : out'[q] = Label(out'[p].base) => p < q
  <2>1. p \in DOMAIN out /\ out'[p] = out[p]
    BY <1>4, <1>8, <1>11
  <2>2. /\ out[p].base \in DOMAIN sched
        /\ \A q \in DOMAIN out : out[q] = Label(out[p].base) => p < q
    BY <1>1, <1>11, <2>1 DEF WeaveInv
  <2> QED
    BY <1>8, <1>9, <2>1, <2>2
<1>12. ASSUME NEW p \in DOMAIN out', NEW q \in DOMAIN out', out'[p].op = "label", out'[p] = out'[q]
       PROVE  p = q
  BY <1>1, <1>2, <1>8, <1>12 DEF WeaveInv
<1>13. ASSUME NEW p \in DOMAIN out', out'[p].op = "label"
       PROVE  \E m \in DOMAIN sched : out'[p] = Label(m) /\ Effective(m) <= ipc
  <2>1. CASE p \in DOMAIN out /\ out'[p] = out[p]
    BY <1>1, <1>13, <2>1 DEF WeaveInv
  <2>2. CASE out'[p] = x
    <3>1. Effective(k) <= ipc
      BY <1>1, <1>2
    <3> QED
      BY <1>2, <2>2, <3>1 DEF x
  <2> QED
    BY <1>8, <2>1, <2>2
<1>14. ASSUME NEW m \in DOMAIN sched, Effective(m) < ipc
       PROVE  \E p \in DOMAIN out' : out'[p] = Label(m)
  <2>1. PICK p \in DOMAIN out : out[p] = Label(m)
    BY <1>1, <1>14 DEF WeaveInv
  <2> QED
    BY <1>9, <2>1
<1>15. \A m : Label(m)' = Label(m)
  BY DEF Label
<1> QED
  BY <1>1, <1>5, <1>11, <1>12, <1>13, <1>14, <1>15 DEF WeaveInv

\* An instruction passes only when the labels of its position stand: a branch
\* comes before its label, which is scheduled later.
LEMMA InstrPassed ==
    ASSUME GenInv, RawInv, WeaveInv, WeaveInstr
    PROVE  WeaveInv'
<1> DEFINE x == raw[ipc + 1]
           L == Len(out)
<1>1. /\ UNCHANGED <<phase, raw, sched>> /\ phase = "body" /\ ipc \in Nat
      /\ ipc' = ipc + 1 /\ ipc < Len(raw) /\ Pending = {}
  BY DEF WeaveInstr, Weaving, RawInv
<1>2. ipc + 1 \in DOMAIN raw /\ Len(raw) \in Nat /\ x \in RawItems
  BY <1>1 DEF RawInv
<1>3. x \in Items /\ out \in Seq(Items) /\ x.op # "label"
  <2>1. x.op # "label"
    BY <1>2 DEF RawItems, BranchOps
  <2> QED
    BY <1>2, <2>1, ItemTypes DEF GenInv, RawInv
<1>4. x.op \in BranchOps => /\ x.base \in DOMAIN sched
                            /\ Effective(x.base) > ipc
  <2> SUFFICES ASSUME x.op \in BranchOps PROVE x.base \in DOMAIN sched /\ Effective(x.base) > ipc
    OBVIOUS
  <2>1. x.base \in DOMAIN sched /\ sched[x.base] >= ipc + 1
    BY <1>2 DEF RawInv
  <2> HIDE DEF x
  <2>2. Effective(x.base) = sched[x.base] \/ Effective(x.base) = Len(raw)
    BY <2>1, Placing
  <2>3. Effective(x.base) \in Nat
    BY <2>1, Placing
  <2> QED
    BY <1>1, <1>2, <2>1, <2>2, <2>3
<1>5. \A m : Effective(m)' = Effective(m)
  BY <1>1 DEF Effective
<1>6. out' = Append(out, x)
  BY DEF WeaveInstr
<1> HIDE DEF x
<1>7. /\ L \in Nat /\ DOMAIN out = 1..L /\ DOMAIN out' = 1..(L + 1)
      /\ \A j \in 1..L : out'[j] = out[j]
      /\ out'[L + 1] = x
  BY <1>3, <1>6, Appending
<1> HIDE DEF L
<1>8. \A j \in DOMAIN out' : (j \in DOMAIN out /\ out'[j] = out[j]) \/ (j = L + 1 /\ out'[j] = x)
  BY <1>7
<1>9. \A j \in DOMAIN out : out'[j] = out[j] /\ j \in DOMAIN out'
  BY <1>7
<1>10. \A m : x # Label(m)
  BY <1>3, Placing
<1>11. ASSUME NEW p \in DOMAIN out', out'[p].op \in BranchOps
       PROVE  /\ out'[p].base \in DOMAIN sched
              /\ \A q \in DOMAIN out' : out'[q] = Label(out'[p].base) => p < q
  <2>1. CASE p \in DOMAIN out /\ out'[p] = out[p]
    <3>1. /\ out[p].base \in DOMAIN sched
          /\ \A q \in DOMAIN out : out[q] = Label(out[p].base) => p < q
      BY <1>1, <1>11, <2>1 DEF WeaveInv
    <3> QED
      BY <1>8, <1>10, <2>1, <3>1
  <2>2. CASE out'[p] = x
    <3>1. x.base \in DOMAIN sched /\ Effective(x.base) > ipc
      BY <1>4, <1>11, <2>2
    <3>2. ASSUME NEW q \in DOMAIN out', out'[q] = Label(x.base) PROVE FALSE
      <4>1. q \in DOMAIN out /\ out[q] = Label(x.base) /\ out[q].op = "label"
        BY <1>8, <1>10, <3>2, Placing
      <4>2. PICK m \in DOMAIN sched : out[q] = Label(m) /\ Effective(m) <= ipc
        BY <1>1, <4>1 DEF WeaveInv
      <4>3. m = x.base
        BY <4>1, <4>2, Placing
      <4>4. Effective(m) \in Nat
        BY Placing
      <4> QED
        BY <1>1, <3>1, <4>2, <4>3, <4>4
    <3> QED
      BY <2>2, <3>1, <3>2
  <2> QED
    BY <1>8, <2>1, <2>2
<1>12. ASSUME NEW p \in DOMAIN out', NEW q \in DOMAIN out', out'[p].op = "label", out'[p] = out'[q]
       PROVE  p = q
  BY <1>1, <1>3, <1>8, <1>12 DEF WeaveInv
<1>13. ASSUME NEW p \in DOMAIN out', out'[p].op = "label"
       PROVE  \E m \in DOMAIN sched : out'[p] = Label(m) /\ Effective(m) <= ipc + 1
  <2>1. p \in DOMAIN out /\ out'[p] = out[p]
    BY <1>3, <1>8, <1>13
  <2>2. PICK m \in DOMAIN sched : out[p] = Label(m) /\ Effective(m) <= ipc
    BY <1>1, <1>13, <2>1 DEF WeaveInv
  <2>3. Effective(m) <= ipc + 1
    <3>1. Effective(m) \in Nat
      BY Placing
    <3> QED
      BY <1>1, <2>2, <3>1
  <2> QED
    BY <2>1, <2>2, <2>3
<1>14. ASSUME NEW m \in DOMAIN sched, Effective(m) < ipc + 1
       PROVE  \E p \in DOMAIN out' : out'[p] = Label(m)
  <2>0. Effective(m) < ipc \/ Effective(m) = ipc
    <3>1. Effective(m) \in Nat
      BY Placing
    <3> QED
      BY <1>1, <1>14, <3>1
  <2>1. \E p \in DOMAIN out : out[p] = Label(m)
    <3>1. CASE Effective(m) < ipc
      BY <1>1, <3>1 DEF WeaveInv
    <3>2. CASE Effective(m) = ipc
      BY <1>1, <3>2 DEF Pending
    <3> QED
      BY <2>0, <3>1, <3>2
  <2> QED
    BY <1>9, <2>1
<1>15. \A m : Label(m)' = Label(m)
  BY DEF Label
<1> QED
  BY <1>1, <1>5, <1>11, <1>12, <1>13, <1>14, <1>15 DEF WeaveInv

\* What holds of the woven part is kept by every step.
LEMMA WeaveInvStep ==
    ASSUME GenInv, RawInv, RawInv', WeaveInv, [Next]_vars
    PROVE  WeaveInv'
<1>1. CASE Setup
  <2>1. out' = << >> /\ sched' = << >>
    BY <1>1 DEF Setup, RawInv
  <2> QED
    BY <2>1 DEF WeaveInv
<1>2. CASE Appends \/ TrapsTrap \/ UNCHANGED vars \/ Done
  <2>1. UNCHANGED <<raw, sched, out, ipc, phase>>
    BY <1>2, StraightLine DEF vars, Done
  <2> QED
    BY <2>1 DEF WeaveInv, Label, Effective
<1>3. CASE BranchAlu \/ BranchOp
  <2>1. phase = "body" /\ Len(raw) < Length[scenario]
    BY <1>3 DEF BranchAlu, BranchOp
  <2>2. ipc = 0 /\ out = << >>
    <3>1. raw \in Seq(RawItems) /\ scenario \in Scenarios
      BY DEF RawInv
    <3>2. Len(raw) \in Nat /\ Length[scenario] \in Nat
      BY <3>1, CrvAssumption
    <3>3. ~Weaving
      BY <2>1, <3>2 DEF Weaving
    <3> QED
      BY <2>1, <3>3 DEF RawInv
  <2>3. out' = out /\ ipc' = ipc
    BY <1>3 DEF BranchAlu, BranchOp, AppendRaw
  <2>4. \A k \in DOMAIN sched' : ~(Effective(k)' < 0)
    <3>1. raw' \in Seq(RawItems) /\ sched' \in Seq(Nat)
      BY DEF RawInv, RawItems, BranchOps
    <3>2. Len(raw') \in Nat /\ \A k \in DOMAIN sched' : sched'[k] \in Nat
      BY <3>1
    <3> QED
      BY <3>2 DEF Effective
  <2> QED
    BY <2>2, <2>3, <2>4 DEF WeaveInv
<1>4. CASE WeaveLabel
  BY <1>4, LabelPlanted
<1>5. CASE WeaveInstr
  BY <1>5, InstrPassed
<1>6. CASE EndWeave \/ RunStep \/ Finish
  <2>1. phase' # "body"
    BY <1>6 DEF EndWeave, RunStep, Finish
  <2> QED
    BY <2>1 DEF WeaveInv
<1> QED
  BY <1>1, <1>2, <1>3, <1>4, <1>5, <1>6 DEF Next, Appends


\* The woven program, once it runs: every label is its branch's and stands once,
\* behind the branch.
RunInv == phase = "run" =>
    /\ ipc \in Nat \ {0}
    /\ \A p \in DOMAIN out : out[p].op = "label" => out[p] = Label(out[p].base)
    /\ \A p, q \in DOMAIN out : (out[p].op = "label" /\ out[p] = out[q]) => p = q
    /\ \A p \in DOMAIN out : out[p].op \in BranchOps =>
         \E q \in DOMAIN out : out[q] = Label(out[p].base) /\ p < q

\* At the end of the weaving every label is planted.
LEMMA WovenRight ==
    ASSUME RawInv, WeaveInv, EndWeave
    PROVE  RunInv'
<1>1. /\ phase = "body" /\ ipc = Len(raw) /\ Pending = {} /\ out' = out /\ ipc' = 1
  BY DEF EndWeave, Weaving
<1>2. ASSUME NEW p \in DOMAIN out, out[p].op = "label" PROVE out[p] = Label(out[p].base)
  <2>1. PICK k \in DOMAIN sched : out[p] = Label(k)
    BY <1>1, <1>2 DEF WeaveInv
  <2> QED
    BY <2>1, Placing
<1>3. \A p, q \in DOMAIN out : (out[p].op = "label" /\ out[p] = out[q]) => p = q
  BY <1>1 DEF WeaveInv
<1>4. ASSUME NEW p \in DOMAIN out, out[p].op \in BranchOps
      PROVE  \E q \in DOMAIN out : out[q] = Label(out[p].base) /\ p < q
  <2> DEFINE k == out[p].base
  <2>1. k \in DOMAIN sched /\ \A q \in DOMAIN out : out[q] = Label(k) => p < q
    BY <1>1, <1>4 DEF WeaveInv
  <2> HIDE DEF k
  <2>2. Effective(k) < ipc \/ Effective(k) = ipc
    <3>1. Effective(k) \in Nat /\ Effective(k) <= Len(raw)
      BY <2>1, Placing
    <3>2. Len(raw) \in Nat
      BY DEF RawInv
    <3> QED
      BY <1>1, <3>1, <3>2
  <2>3. \E q \in DOMAIN out : out[q] = Label(k)
    <3>1. CASE Effective(k) < ipc
      BY <1>1, <2>1, <3>1 DEF WeaveInv
    <3>2. CASE Effective(k) = ipc
      BY <1>1, <2>1, <3>2 DEF Pending
    <3> QED
      BY <2>2, <3>1, <3>2
  <2> QED
    BY <2>1, <2>3 DEF k
<1>5. \A m : Label(m)' = Label(m)
  BY DEF Label
<1> QED
  BY <1>1, <1>2, <1>3, <1>4, <1>5 DEF RunInv

\* A taken branch jumps to the one label it has, which is ahead.
LEMMA JumpLands ==
    ASSUME RawInv, RunInv, phase = "run", NEW p \in DOMAIN out, out[p].op \in BranchOps
    PROVE  Target(out[p].base) \in DOMAIN out /\ Target(out[p].base) > p
<1> DEFINE k == out[p].base
           I == {j \in 1..Len(out) : out[j].op = "label" /\ out[j].base = k}
<1>1. PICK q \in DOMAIN out : out[q] = Label(k) /\ p < q
  BY DEF RunInv
<1>2. DOMAIN out = 1..Len(out) /\ Len(out) \in Nat
  BY DEF RawInv
<1>3. I = {q}
  <2>1. q \in I
    BY <1>1, <1>2, Placing
  <2>2. ASSUME NEW j \in I PROVE j = q
    <3>1. j \in DOMAIN out /\ out[j].op = "label" /\ out[j] = Label(k)
      BY <1>2 DEF RunInv
    <3> QED
      BY <1>1, <3>1 DEF RunInv
  <2> HIDE DEF I
  <2> QED
    BY <2>1, <2>2
<1>4. Target(k) = Min(I)
  BY <1>3 DEF Target, SelectInSeq
<1>5. Min({q}) = q
  BY <1>2 DEF Min
<1> QED
  BY <1>1, <1>2, <1>3, <1>4, <1>5

\* An instruction of the woven program runs forward.
LEMMA RunForward ==
    ASSUME RawInv, RunInv, RunStep
    PROVE  ipc \in DOMAIN out /\ ipc' \in Nat /\ ipc' > ipc
<1>1. phase = "run" /\ ipc \in Nat \ {0} /\ ipc <= Len(out)
  BY DEF RunStep, RunInv
<1>2. ipc \in DOMAIN out /\ DOMAIN out = 1..Len(out) /\ Len(out) \in Nat
  BY <1>1 DEF RawInv
<1>3. ipc' = ipc + 1 \/ (out[ipc].op \in BranchOps /\ ipc' = Target(out[ipc].base))
  BY DEF RunStep, BranchOps
<1> QED
  BY <1>1, <1>2, <1>3, JumpLands

\* The woven program stays as the weaving left it.
LEMMA RunInvStep ==
    ASSUME GenInv, RawInv, WeaveInv, RunInv, [Next]_vars
    PROVE  RunInv'
<1>1. CASE EndWeave
  BY <1>1, WovenRight
<1>2. CASE RunStep
  <2>1. out' = out /\ phase' = phase /\ ipc' \in Nat \ {0} /\ phase = "run"
    <3>1. ipc \in Nat \ {0} /\ ipc' \in Nat /\ ipc' > ipc
      BY <1>2, RunForward DEF RunInv, RunStep
    <3> QED
      BY <1>2, <3>1 DEF RunStep
  <2>2. \A m : Label(m)' = Label(m)
    BY DEF Label
  <2> QED
    BY <2>1, <2>2 DEF RunInv
<1>3. CASE UNCHANGED vars \/ Done
  BY <1>3 DEF vars, Done, RunInv, Label
<1>4. CASE Appends \/ TrapsTrap
  <2>1. phase' # "run"
    BY <1>4, StraightLine
  <2> QED
    BY <2>1 DEF RunInv
<1>5. CASE Setup \/ BranchAlu \/ BranchOp \/ WeaveLabel \/ WeaveInstr \/ Finish
  <2>1. phase' # "run"
    BY <1>5 DEF Setup, SetPointers, MoPointers, RsPointer, TrPrologue, BpPrologue, BranchAlu,
                BranchOp, AppendRaw, WeaveLabel, WeaveInstr, Weaving, Finish
  <2> QED
    BY <2>1 DEF RunInv
<1> QED
  BY <1>1, <1>2, <1>3, <1>4, <1>5 DEF Next, Appends

\* No instruction of branch_pred writes ra or sp, whatever the branches do.
LEMMA ReturnStep ==
    ASSUME GenInv, GenInv', RawInv, RunInv, ReturnInv, [Next]_vars
    PROVE  ReturnInv'
<1>1. CASE scenario' # "branch_pred"
  BY <1>1 DEF GenInv, ReturnInv
<1>2. CASE scenario' = "branch_pred" /\ RunStep
  <2>1. ipc \in DOMAIN out
    BY <1>2, RunForward
  <2>2. out[ipc].rd \notin {1, 2}
    <3>1. out[ipc] \in Items
      BY <2>1 DEF RawInv
    <3> QED
      BY <3>1 DEF Items
  <2>3. val' = val \/ Exec(out[ipc])
    BY <1>2 DEF RunStep
  <2> DEFINE rd == out[ipc].rd
  <2>4. val' = val \/ val' = [val EXCEPT ![rd] = Unknown]
    BY <2>3 DEF Exec
  <2> HIDE DEF rd
  <2>5. rd \notin {1, 2}
    BY <2>2 DEF rd
  <2>6. val \in [Regs -> Int] /\ {1, 2} \subseteq Regs /\ val[1] = Ra /\ val[2] = Sp
    BY CrvAssumption DEF GenInv, ReturnInv
  <2>7. val'[1] = Ra /\ val'[2] = Sp
    BY <2>4, <2>5, <2>6
  <2> QED
    BY <2>7 DEF ReturnInv
<1>3. CASE scenario' = "branch_pred" /\ ~RunStep
  <2>1. ~Appends /\ ~TrapsTrap
    BY <1>3, StraightLine
  <2>2. CASE Setup
    BY <1>3, <2>2 DEF Setup, BpPrologue, ReturnInv
  <2>3. CASE BranchAlu \/ BranchOp \/ WeaveLabel \/ WeaveInstr \/ EndWeave \/ Finish
    BY <2>3 DEF BranchAlu, BranchOp, AppendRaw, WeaveLabel, WeaveInstr, EndWeave, Finish, ReturnInv
  <2>4. CASE UNCHANGED vars \/ Done
    BY <2>4 DEF vars, Done, ReturnInv
  <2> QED
    BY <1>3, <2>1, <2>2, <2>3, <2>4 DEF Next, Appends
<1> QED
  BY <1>1, <1>2, <1>3

\* The invariant of branch_pred always holds.
THEOREM BranchInvariant == Spec => [](RawInv /\ WeaveInv /\ RunInv /\ ReturnInv)
<1> DEFINE Inv == RawInv /\ WeaveInv /\ RunInv /\ ReturnInv
<1>1. Init => Inv
  <2> SUFFICES ASSUME Init PROVE Inv
    OBVIOUS
  <2>1. /\ phase = "setup" /\ raw = << >> /\ out = << >> /\ sched = << >> /\ ipc = 0
        /\ scenario \in Scenarios
    BY DEF Init
  <2>2. val[1] = Ra /\ val[2] = Sp
    BY CrvAssumption DEF Init
  <2>3. RawInv
    BY <2>1 DEF RawInv
  <2> QED
    BY <2>1, <2>2, <2>3 DEF WeaveInv, RunInv, ReturnInv
<1>2. GenInv /\ GenInv' /\ Inv /\ [Next]_vars => Inv'
  BY RawInvStep, WeaveInvStep, RunInvStep, ReturnStep
<1> QED
  BY <1>1, <1>2, GenInvariant, PTL DEF Spec

-----------------------------------------------------------------------------
(* What the live registers stand for in the scenarios with a handler and   *)
(* with branches.                                                          *)

AluOps == {"alu", "addi", "shift"}

\* traps: only t1 may be live and unwritten, and only while no trap was taken.
TrapsInv == scenario = "traps" =>
    /\ \A r \in gp : val[r] = Undef => r = 6
    /\ val[6] = Undef => win \in Seq(AluOps)

\* r is one of x0 and sp, or an item of s before position p writes it.
Above(s, p, r) == r \in {0, 2} \/ \E j \in 1..(p - 1) : s[j].rd = r

\* branch_pred: what is live, and what an item reads, an earlier item writes; the
\* weaving keeps the order.
FlowInv ==
    /\ (scenario = "branch_pred" /\ phase \in {"setup", "body"}) =>
         \A r \in gp : Above(raw, Len(raw) + 1, r)
    /\ \A p \in DOMAIN raw : Above(raw, p, raw[p].rs)
    /\ \A p \in DOMAIN out : Above(out, p, out[p].rs)
    /\ phase = "body" => \A j \in 1..ipc : \E p \in DOMAIN out : out[p] = raw[j]

\* An item that another precedes still does when the sequence grows.
LEMMA AboveGrows ==
    ASSUME NEW S, NEW s \in Seq(S), NEW x \in S, NEW p \in 1..(Len(s) + 1), NEW r, Above(s, p, r)
    PROVE  Above(Append(s, x), p, r)
<1>1. CASE r \in {0, 2}
  BY <1>1 DEF Above
<1>2. CASE \E j \in 1..(p - 1) : s[j].rd = r
  <2>1. PICK j \in 1..(p - 1) : s[j].rd = r
    BY <1>2
  <2>2. j \in 1..Len(s)
    BY <2>1
  <2>3. Append(s, x)[j] = s[j]
    BY <2>2, Appending
  <2> QED
    BY <2>1, <2>3 DEF Above
<1> QED
  BY <1>1, <1>2 DEF Above

\* An ALU instruction of traps reads a live register and leaves t1 alone.
LEMMA TrapsAluReads ==
    ASSUME GenInv, TrapsAlu
    PROVE  \E i : /\ Append1(i) /\ EncodeOk(i) /\ i.rs \in gp /\ i.rd \in Regs \ {5, 6}
                  /\ i.op \in AluOps /\ Shaped(i)
<1> PICK i \in Alu(TrWritable) : Append1(i)
  BY DEF TrapsAlu
<1>1. gp \subseteq Regs
  BY DEF GenInv
<1>2. EncodeOk(i) /\ i.rd \in TrWritable /\ i.rs \in gp /\ Shaped(i) /\ i.op \in AluOps
  BY <1>1, AluDrawn DEF AluOps
<1> QED
  BY <1>2 DEF TrWritable

\* The set-up leaves t1 alone unwritten, a trap writes it, an ALU instruction
\* writes what it makes live.
LEMMA TrapsInvStep ==
    ASSUME GenInv, GenInv', TrapsInv, phase = "setup" => gp = {0, 2} /\ win = << >> /\ val[2] = Sp,
           [Next]_vars
    PROVE  TrapsInv'
<1> USE CrvAssumption
<1> SUFFICES ASSUME scenario' = "traps"
             PROVE  /\ \A r \in gp' : val'[r] = Undef => r = 6
                    /\ val'[6] = Undef => win' \in Seq(AluOps)
  BY DEF TrapsInv, Undef
<1>1. CASE Setup
  <2>1. phase = "setup" /\ scenario = "traps" /\ win' = win
    BY <1>1 DEF Setup
  <2>2. gp' = gp \union {5, 6} /\ val' = [val EXCEPT ![5] = Unknown]
    BY <1>1, <2>1 DEF Setup, TrPrologue
  <2>3. val'[0] # Undef /\ val'[2] # Undef /\ val'[5] # Undef
    BY <2>1, <2>2 DEF GenInv, Unknown, Undef, Sp
  <2>4. win' \in Seq(AluOps)
    BY <2>1
  <2> QED
    BY <2>1, <2>2, <2>3, <2>4
<1>2. CASE TrapsAlu
  <2>1. PICK i : /\ Append1(i) /\ EncodeOk(i) /\ i.rs \in gp /\ i.rd \in Regs \ {5, 6}
                 /\ i.op \in AluOps /\ Shaped(i)
    BY <1>2, TrapsAluReads
  <2>2. /\ gp' = IF i.rd = 0 THEN gp ELSE gp \union {i.rd}
        /\ val' = IF i.rd = 0 THEN val ELSE [val EXCEPT ![i.rd] = Unknown]
        /\ win' = Window(Append(win, i.op))
    BY <2>1 DEF Append1, Write, Exec
  <2>3. scenario = "traps"
    BY <1>2 DEF TrapsAlu, Round
  <2> DEFINE rd == i.rd
  <2>4. rd \in Regs \ {5, 6} /\ val \in [Regs -> Int] /\ gp \subseteq Regs
    BY <2>1 DEF GenInv
  <2>5. /\ gp' = IF rd = 0 THEN gp ELSE gp \union {rd}
        /\ val' = IF rd = 0 THEN val ELSE [val EXCEPT ![rd] = Unknown]
    BY <2>2
  <2> HIDE DEF rd
  <2>6. ASSUME NEW r \in gp', val'[r] = Undef PROVE r = 6
    BY <2>3, <2>4, <2>5, <2>6 DEF TrapsInv, Unknown, Undef
  <2>7. ASSUME val'[6] = Undef PROVE win' \in Seq(AluOps)
    <3>1. win \in Seq(AluOps)
      BY <2>3, <2>4, <2>5, <2>7 DEF TrapsInv
    <3>2. Append(win, i.op) \in Seq(AluOps) /\ Append(win, i.op) # << >>
      BY <2>1, <3>1
    <3>3. Tail(Append(win, i.op)) \in Seq(AluOps)
      BY <3>2
    <3> QED
      BY <2>2, <3>2, <3>3 DEF Window
  <2> QED
    BY <2>6, <2>7
<1>3. CASE TrapsTrap
  <2>1. scenario = "traps" /\ gp' = gp /\ val' = [val EXCEPT ![6] = Unknown]
    BY <1>3 DEF TrapsTrap, Round
  <2>2. val'[6] # Undef /\ \A r \in gp : r # 6 => val'[r] = val[r]
    BY <2>1 DEF GenInv, Unknown, Undef
  <2> QED
    BY <2>1, <2>2 DEF TrapsInv
<1>4. CASE Finish \/ Done \/ UNCHANGED vars
  BY <1>4 DEF Finish, Done, vars, TrapsInv
<1>5. CASE ~(Setup \/ TrapsAlu \/ TrapsTrap \/ Finish \/ Done \/ UNCHANGED vars)
  <2>1. \/ IntHazards \/ MuldivAlu \/ MuldivMem \/ MuldivOp \/ MuldivConsumer
        \/ OrderingMem \/ OrderingAlu \/ RawStress \/ RawStressAccess
        \/ FpArith \/ FdivFsqrt
        \/ BranchAlu \/ BranchOp \/ WeaveLabel \/ WeaveInstr \/ EndWeave \/ RunStep
    BY <1>5 DEF Next
  <2>2. scenario' = scenario
    <3>1. CASE Appends
      BY <3>1, StraightLine
    <3>2. CASE BranchAlu \/ BranchOp \/ WeaveLabel \/ WeaveInstr \/ EndWeave \/ RunStep
      BY <3>2 DEF BranchAlu, BranchOp, AppendRaw, WeaveLabel, WeaveInstr, EndWeave, RunStep
    <3> QED
      BY <2>1, <3>1, <3>2 DEF Appends
  <2>3. scenario # "traps"
    BY <2>1 DEF IntHazards, MuldivAlu, MuldivMem, MuldivOp, MuldivConsumer, OrderingMem,
           OrderingAlu, RawStress, RawStressAccess, FpArith, FdivFsqrt, Round, BranchAlu, BranchOp,
           WeaveLabel, WeaveInstr, EndWeave, Weaving, RunStep, GenInv
  <2> QED
    BY <2>2, <2>3
<1> QED
  BY <1>1, <1>2, <1>3, <1>4, <1>5

\* What an appended instruction reads is live, hence above it; then it is above
\* whatever comes.
LEMMA FlowAppends ==
    ASSUME GenInv, RawInv, FlowInv, scenario = "branch_pred", phase = "body",
           phase' = phase, scenario' = scenario, UNCHANGED <<out, ipc>>, ipc = 0, out = << >>,
           NEW x \in RawItems, raw' = Append(raw, x), x.rs \in gp,
           gp' = IF x.rd = 0 THEN gp ELSE gp \union {x.rd}
    PROVE  FlowInv'
<1> DEFINE m == Len(raw) + 1
<1>0. raw \in Seq(RawItems) /\ Len(raw) \in Nat /\ m \in Nat
  <2>1. raw \in Seq(RawItems)
    BY DEF RawInv
  <2> QED
    BY <2>1
<1>1. /\ DOMAIN raw = 1..Len(raw) /\ DOMAIN raw' = 1..m /\ Len(raw') = m
      /\ raw'[m] = x /\ \A j \in 1..Len(raw) : raw'[j] = raw[j]
  BY <1>0, Appending
<1>2. Above(raw', m, x.rs)
  <2>1. Above(raw, m, x.rs)
    BY DEF FlowInv
  <2>2. m \in 1..(Len(raw) + 1)
    BY <1>0
  <2> HIDE DEF m
  <2> QED
    BY <1>0, <2>1, <2>2, AboveGrows
<1>3. ASSUME NEW r \in gp' PROVE Above(raw', m + 1, r)
  <2>1. CASE r = x.rd
    <3>1. m \in 1..((m + 1) - 1)
      BY <1>0
    <3> QED
      BY <1>1, <2>1, <3>1 DEF Above
  <2>2. CASE r \in gp
    <3>1. Above(raw, m, r)
      BY <2>2 DEF FlowInv
    <3>2. m \in 1..(Len(raw) + 1)
      BY <1>0
    <3>3. Above(raw', m, r)
      <4> HIDE DEF m
      <4> QED
        BY <1>0, <3>1, <3>2, AboveGrows
    <3>4. \A j \in 1..(m - 1) : j \in 1..((m + 1) - 1)
      BY <1>0
    <3> HIDE DEF m
    <3> QED
      BY <3>3, <3>4 DEF Above
  <2> QED
    BY <2>1, <2>2
<1>4. ASSUME NEW p \in DOMAIN raw' PROVE Above(raw', p, raw'[p].rs)
  <2>1. CASE p = m
    BY <1>1, <1>2, <2>1
  <2>2. CASE p \in 1..Len(raw)
    <3>1. Above(raw, p, raw[p].rs) /\ raw'[p] = raw[p]
      BY <1>1, <2>2 DEF FlowInv
    <3>2. p \in 1..(Len(raw) + 1)
      BY <1>0, <2>2
    <3> QED
      BY <1>0, <3>1, <3>2, AboveGrows
  <2> QED
    BY <1>0, <1>1, <2>1, <2>2
<1>5. ipc' = 0 /\ out' = << >>
  OBVIOUS
<1> HIDE DEF m
<1> QED
  BY <1>1, <1>3, <1>4, <1>5 DEF FlowInv, Above

\* The set-up's addi makes t0 live, every appended instruction reads what is live,
\* and the weaving puts an instruction behind all it was behind.
LEMMA FlowInvStep ==
    ASSUME GenInv, RawInv, RawInv', FlowInv, phase = "setup" => gp = {0, 2}, [Next]_vars
    PROVE  FlowInv'
<1>0. /\ raw \in Seq(RawItems) /\ out \in Seq(Items) /\ DOMAIN raw = 1..Len(raw)
      /\ DOMAIN out = 1..Len(out) /\ Len(raw) \in Nat /\ Len(out) \in Nat
  <2>1. raw \in Seq(RawItems) /\ out \in Seq(Items)
    BY DEF RawInv
  <2> QED
    BY <2>1
<1>1. CASE Setup
  <2>1. /\ raw = << >> /\ out = << >> /\ ipc = 0 /\ phase = "setup"
        /\ UNCHANGED <<scenario, out, ipc>>
    BY <1>1 DEF Setup, RawInv
  <2>2. CASE scenario # "branch_pred"
    <3>1. raw' = raw
      BY <1>1, <2>2 DEF Setup, SetPointers, RsPointer, MoPointers, TrPrologue
    <3> QED
      BY <2>1, <2>2, <3>1 DEF FlowInv
  <2>3. CASE scenario = "branch_pred"
    <3>1. gp' = {0, 2, 5} /\ raw' = <<Addi(5, 0, 42)>>
      BY <1>1, <2>1, <2>3 DEF Setup, BpPrologue
    <3>2. /\ DOMAIN raw' = {1} /\ Len(raw') = 1 /\ raw'[1] = Addi(5, 0, 42)
          /\ raw'[1].rd = 5 /\ raw'[1].rs = 0
      BY <3>1 DEF Addi, Instr
    <3>3. \A r \in gp' : Above(raw', Len(raw') + 1, r)
      BY <3>1, <3>2 DEF Above
    <3>4. \A p \in DOMAIN raw' : Above(raw', p, raw'[p].rs)
      BY <3>2 DEF Above
    <3>5. out' = << >> /\ ipc' = 0
      BY <2>1
    <3> QED
      BY <3>3, <3>4, <3>5 DEF FlowInv, Above
  <2> QED
    BY <2>2, <2>3
<1>2. CASE Appends \/ TrapsTrap
  BY <1>2, StraightLine DEF FlowInv, Above
<1>3. CASE BranchAlu \/ BranchOp
  <2>1. scenario = "branch_pred" /\ phase = "body" /\ Len(raw) < Length[scenario]
    BY <1>3 DEF BranchAlu, BranchOp
  <2>2. ipc = 0 /\ out = << >>
    <3>1. Length[scenario] \in Nat
      BY CrvAssumption DEF RawInv
    <3>2. ~Weaving
      BY <1>0, <2>1, <3>1 DEF Weaving
    <3> QED
      BY <2>1, <3>2 DEF RawInv
  <2>3. \E x : AppendRaw(x) /\ x \in RawItems /\ x.rs \in gp
    <3>1. CASE BranchAlu
      <4>1. PICK i \in BpAlu :
              IF EncodeOk(i) THEN AppendRaw(AluR(i.rd, i.rs))
              ELSE /\ phase' = "raised"
                   /\ UNCHANGED <<scenario, n, gp, st, todo, raw, out, cur, win, val, ipc>>
        BY <3>1 DEF BranchAlu
      <4>2. EncodeOk(i) /\ i.rd \in BpWritable /\ i.rs \in gp
        BY AluDrawn DEF BpAlu, GenInv
      <4>3. AluR(i.rd, i.rs).rs = i.rs /\ AluR(i.rd, i.rs) \in RawItems
        BY <4>2, ItemTypes DEF AluR, Instr, GenInv
      <4> QED
        BY <4>1, <4>2, <4>3
    <3>2. CASE BranchOp
      <4>1. PICK gap \in 1..5, rs \in gp, taken \in {"always", "never"} :
              AppendRaw(Branch(Len(sched) + 1, IF rs = 0 THEN taken ELSE "either", rs))
        BY <3>2 DEF BranchOp
      <4> DEFINE op == IF rs = 0 THEN taken ELSE "either"
      <4>2. op \in BranchOps /\ Len(sched) + 1 \in Nat
        <5>1. sched \in Seq(Nat)
          BY DEF RawInv
        <5> QED
          BY <5>1 DEF BranchOps
      <4> HIDE DEF op
      <4>3. Branch(Len(sched) + 1, op, rs) \in RawItems /\ Branch(Len(sched) + 1, op, rs).rs = rs
        BY <4>2, ItemTypes DEF Branch, GenInv
      <4> QED
        BY <4>1, <4>3 DEF op
    <3> QED
      BY <1>3, <3>1, <3>2
  <2>4. PICK x : AppendRaw(x) /\ x \in RawItems /\ x.rs \in gp
    BY <2>3
  <2>5. /\ raw' = Append(raw, x) /\ gp' = (IF x.rd = 0 THEN gp ELSE gp \union {x.rd})
        /\ UNCHANGED <<out, ipc>> /\ phase' = phase /\ scenario' = scenario
    BY <2>4 DEF AppendRaw, Write
  <2> QED
    BY <2>1, <2>2, <2>4, <2>5, FlowAppends
<1>4. CASE WeaveLabel
  <2>1. PICK k \in Pending : out' = Append(out, Label(k))
    BY <1>4 DEF WeaveLabel
  <2>2. UNCHANGED <<scenario, phase, gp, raw, ipc>> /\ Label(k) \in Items /\ Label(k).rs = 0
    <3>1. k \in Nat
      BY <2>1 DEF Pending, RawInv
    <3> QED
      BY <1>4, <3>1, ItemTypes DEF WeaveLabel, GenInv, Label
  <2> DEFINE x == Label(k)
  <2> HIDE DEF x
  <2>3. /\ DOMAIN out' = 1..(Len(out) + 1) /\ out'[Len(out) + 1] = x
        /\ \A j \in 1..Len(out) : out'[j] = out[j]
    BY <1>0, <2>1, <2>2, Appending DEF x
  <2>4. ASSUME NEW p \in DOMAIN out' PROVE Above(out', p, out'[p].rs)
    <3>1. CASE p = Len(out) + 1
      BY <2>2, <2>3, <3>1 DEF Above, x
    <3>2. CASE p \in 1..Len(out)
      <4>1. Above(out, p, out[p].rs) /\ out'[p] = out[p] /\ p \in 1..(Len(out) + 1)
        BY <1>0, <2>3, <3>2 DEF FlowInv
      <4> QED
        BY <1>0, <2>1, <2>2, <4>1, AboveGrows
    <3> QED
      BY <1>0, <2>3, <3>1, <3>2
  <2>5. \A p \in DOMAIN out : p \in DOMAIN out' /\ out'[p] = out[p]
    BY <1>0, <2>3
  <2> QED
    BY <2>2, <2>4, <2>5 DEF FlowInv, Above
<1>5. CASE WeaveInstr
  <2>1. /\ phase = "body" /\ ipc < Len(raw) /\ ipc' = ipc + 1 /\ out' = Append(out, raw[ipc + 1])
        /\ UNCHANGED <<scenario, phase, gp, raw>>
    BY <1>5 DEF WeaveInstr, Weaving
  <2>2. ipc \in Nat /\ ipc + 1 \in DOMAIN raw
    BY <1>0, <2>1 DEF RawInv
  <2> DEFINE x == raw[ipc + 1]
  <2>3. x \in Items
    <3>1. x \in RawItems
      BY <1>0, <2>2
    <3> QED
      BY <3>1, ItemTypes DEF GenInv
  <2>4. Above(raw, ipc + 1, x.rs)
    BY <2>2 DEF FlowInv
  <2> HIDE DEF x
  <2>5. /\ DOMAIN out' = 1..(Len(out) + 1) /\ out'[Len(out) + 1] = x
        /\ \A j \in 1..Len(out) : out'[j] = out[j]
    BY <1>0, <2>1, <2>3, Appending DEF x
  <2>6. Above(out, Len(out) + 1, x.rs)
    <3>1. CASE x.rs \in {0, 2}
      BY <3>1 DEF Above
    <3>2. CASE \E j \in 1..((ipc + 1) - 1) : raw[j].rd = x.rs
      <4>1. PICK j \in 1..ipc : raw[j].rd = x.rs
        BY <2>2, <3>2
      <4>2. PICK p \in DOMAIN out : out[p] = raw[j]
        BY <2>1, <4>1 DEF FlowInv
      <4>3. p \in 1..((Len(out) + 1) - 1)
        BY <1>0, <4>2
      <4> QED
        BY <4>1, <4>2, <4>3 DEF Above
    <3> QED
      BY <2>4, <3>1, <3>2 DEF Above
  <2>7. ASSUME NEW p \in DOMAIN out' PROVE Above(out', p, out'[p].rs)
    <3>1. CASE p = Len(out) + 1
      <4>1. p \in 1..(Len(out) + 1)
        BY <2>5
      <4> QED
        BY <1>0, <2>1, <2>3, <2>5, <2>6, <3>1, <4>1, AboveGrows DEF x
    <3>2. CASE p \in 1..Len(out)
      <4>1. Above(out, p, out[p].rs) /\ out'[p] = out[p] /\ p \in 1..(Len(out) + 1)
        BY <1>0, <2>5, <3>2 DEF FlowInv
      <4> QED
        BY <1>0, <2>1, <2>3, <4>1, AboveGrows DEF x
    <3> QED
      BY <1>0, <2>5, <3>1, <3>2
  <2>8. ASSUME NEW j \in 1..(ipc + 1) PROVE \E p \in DOMAIN out' : out'[p] = raw[j]
    <3>1. CASE j = ipc + 1
      <4>1. Len(out) + 1 \in DOMAIN out'
        BY <1>0, <2>5
      <4> QED
        BY <2>5, <3>1, <4>1 DEF x
    <3>2. CASE j \in 1..ipc
      <4>1. PICK p \in DOMAIN out : out[p] = raw[j]
        BY <2>1, <3>2 DEF FlowInv
      <4>2. p \in DOMAIN out' /\ out'[p] = out[p]
        BY <1>0, <2>5
      <4> QED
        BY <4>1, <4>2
    <3> QED
      BY <2>2, <3>1, <3>2
  <2> QED
    BY <2>1, <2>7, <2>8 DEF FlowInv, Above
<1>6. CASE EndWeave \/ RunStep \/ Finish
  <2>1. UNCHANGED <<raw, out>> /\ phase' \in {"run", "done"}
    BY <1>6 DEF EndWeave, RunStep, Finish
  <2> QED
    BY <2>1 DEF FlowInv, Above
<1>7. CASE UNCHANGED vars \/ Done
  BY <1>7 DEF vars, Done, FlowInv, Above
<1> QED
  BY <1>1, <1>2, <1>3, <1>4, <1>5, <1>6, <1>7 DEF Next, Appends

\* Nothing but the set-up comes before the set-up.
Fresh == phase = "setup" => gp = {0, 2} /\ win = << >> /\ val[2] = Sp

\* No step goes back to the set-up.
LEMMA FreshStep ==
    ASSUME GenInv, Fresh, [Next]_vars
    PROVE  Fresh'
<1>1. CASE UNCHANGED vars \/ Done
  BY <1>1 DEF vars, Done, Fresh
<1>2. CASE Appends \/ TrapsTrap
  BY <1>2, StraightLine DEF Fresh
<1>3. CASE \/ Setup \/ BranchAlu \/ BranchOp \/ WeaveLabel \/ WeaveInstr \/ EndWeave
           \/ RunStep \/ Finish
  <2>1. phase' # "setup"
    BY <1>3 DEF Setup, SetPointers, MoPointers, RsPointer, TrPrologue, BpPrologue, BranchAlu,
                BranchOp, AppendRaw, WeaveLabel, WeaveInstr, EndWeave, Weaving, RunStep, Finish
  <2> QED
    BY <2>1 DEF Fresh
<1> QED
  BY <1>1, <1>2, <1>3 DEF Next, Appends

\* Every instruction of every program that runs reads a register written since
\* reset, with the two exceptions ReadsWritten names and no third: in traps t1
\* while no trap has been taken, and in branch_pred a register whose writer,
\* further up, was skipped.
THEOREM ReadsOnlyWritten == Spec => ReadsWritten
<1> DEFINE Inv == TrapsInv /\ FlowInv /\ Fresh
           Count == n' # n => \/ val[cur'.rs] # Undef
                              \/ scenario = "traps" /\ cur'.rs = 6 /\ Untrapped
           Flow == (phase = "run" /\ ipc' # ipc) => val[cur'.rs] # Undef \/ Skipped(cur'.rs)
<1>1. Init => Inv
  <2> SUFFICES ASSUME Init PROVE Inv
    OBVIOUS
  <2>1. /\ phase = "setup" /\ gp = {0, 2} /\ raw = << >> /\ out = << >> /\ win = << >>
        /\ val = [r \in Regs |-> CASE r = 0 -> 0 [] r = 1 -> Ra [] r = 2 -> Sp
                                 [] r \in {5, 10, 11} -> Unknown [] OTHER -> Undef]
    BY DEF Init
  <2>2. val[0] = 0 /\ val[2] = Sp
    BY <2>1, CrvAssumption
  <2>3. TrapsInv
    BY <2>1, <2>2 DEF TrapsInv, Undef, Sp
  <2>4. FlowInv
    BY <2>1 DEF FlowInv, Above
  <2> QED
    BY <2>1, <2>2, <2>3, <2>4 DEF Fresh
<1>2. GenInv /\ GenInv' /\ RawInv /\ RawInv' /\ Inv /\ [Next]_vars => Inv'
  BY TrapsInvStep, FlowInvStep, FreshStep DEF Fresh
<1>3. GenInv /\ TrapsInv /\ [Next]_vars => Count
  <2> SUFFICES ASSUME GenInv, TrapsInv, [Next]_vars, n' # n
               PROVE  val[cur'.rs] # Undef \/ (scenario = "traps" /\ cur'.rs = 6 /\ Untrapped)
    OBVIOUS
  <2>1. CASE scenario # "traps"
    <3>1. PICK i : Drawn(i) /\ cur' = Seen(i)
      BY <2>1, CountedSteps
    <3> QED
      BY <2>1, <3>1, SeenShape DEF Drawn
  <2>2. CASE cur' = Seen(Trap)
    <3>1. cur'.rs = 0
      BY <2>2 DEF Seen, Trap, Instr, IsMem
    <3> QED
      BY <3>1 DEF GenInv
  <2>3. CASE TrapsAlu /\ scenario = "traps"
    <3>1. PICK i : Append1(i) /\ EncodeOk(i) /\ i.rs \in gp /\ Shaped(i)
      BY <2>3, TrapsAluReads
    <3>2. cur'.rs = i.rs /\ i.rs \in gp
      BY <3>1, SeenShape DEF Append1
    <3>3. val[i.rs] = Undef => i.rs = 6 /\ win \in Seq(AluOps)
      BY <2>3, <3>1 DEF TrapsInv
    <3>4. win \in Seq(AluOps) => Untrapped
      BY DEF Untrapped, AluOps
    <3> QED
      BY <2>3, <3>2, <3>3, <3>4
  <2>4. scenario = "traps" => TrapsAlu \/ TrapsTrap
    <3>1. Appends \/ TrapsTrap
      <4>1. CASE ~Appends /\ ~TrapsTrap
        <5>1. \/ Setup \/ BranchAlu \/ BranchOp \/ WeaveLabel \/ WeaveInstr \/ EndWeave
              \/ RunStep \/ Finish \/ UNCHANGED vars
          BY <4>1 DEF Next, Appends, Done
        <5> QED
          BY <5>1 DEF Setup, BranchAlu, BranchOp, AppendRaw, WeaveLabel, WeaveInstr,
                      EndWeave, RunStep, Finish, vars
      <4> QED
        BY <4>1
    <3> QED
      BY <3>1 DEF Appends, IntHazards, MuldivAlu, MuldivMem, MuldivOp, MuldivConsumer, OrderingMem,
           OrderingAlu, RawStress, RawStressAccess, FpArith, FdivFsqrt, Round
  <2>5. TrapsTrap => cur' = Seen(Trap)
    BY DEF TrapsTrap
  <2> QED
    BY <2>1, <2>2, <2>3, <2>4, <2>5
<1>4. GenInv /\ RawInv /\ RunInv /\ ReturnInv /\ FlowInv /\ [Next]_vars => Flow
  <2> SUFFICES ASSUME GenInv, RawInv, RunInv, ReturnInv, FlowInv, [Next]_vars,
                      phase = "run", ipc' # ipc
               PROVE  val[cur'.rs] # Undef \/ Skipped(cur'.rs)
    OBVIOUS
  <2>1. RunStep
    <3>1. CASE Appends \/ TrapsTrap
      BY <3>1, StraightLine
    <3>2. CASE Setup \/ BranchAlu \/ BranchOp \/ WeaveLabel \/ WeaveInstr \/ EndWeave
      BY <3>2 DEF Setup, BranchAlu, BranchOp, WeaveLabel, WeaveInstr, EndWeave, Weaving
    <3>3. CASE Finish \/ Done \/ UNCHANGED vars
      BY <3>3 DEF Finish, Done, vars
    <3> QED
      BY <3>1, <3>2, <3>3 DEF Next, Appends
  <2>2. ipc \in DOMAIN out
    BY <2>1, RunForward
  <2>3. cur' = Seen(out[ipc]) /\ out[ipc] \in Items
    BY <2>1, <2>2 DEF RunStep, RawInv
  <2>4. cur'.rs = out[ipc].rs
    BY <2>3 DEF Seen, Items, IsMem, Instr
  <2>5. Above(out, ipc, out[ipc].rs)
    BY <2>2 DEF FlowInv
  <2>6. val[0] # Undef /\ val[2] # Undef
    BY DEF GenInv, ReturnInv, Sp, Undef
  <2> QED
    BY <2>4, <2>5, <2>6 DEF Above, Skipped
<1>5. GenInv /\ RawInv /\ RunInv /\ ReturnInv /\ Inv /\ [Next]_vars => [Count /\ Flow]_vars
  BY <1>3, <1>4
<1> HIDE DEF Inv
<1>6. Spec => []Inv
  BY <1>1, <1>2, GenInvariant, BranchInvariant, PTL DEF Spec
<1> QED
  BY <1>5, <1>6, GenInvariant, BranchInvariant, PTL DEF Spec, ReadsWritten

\* In the woven program every branch has exactly one label, ahead of it, however
\* many labels share a position or lie past the end: at every length and for
\* every draw of branches and gaps it links and has no backward edge.
THEOREM LabelsAlwaysForward == Spec => []LabelsForward
<1>1. RawInv /\ RunInv => LabelsForward
  <2> SUFFICES ASSUME RawInv, RunInv, phase = "run",
                      NEW i \in DOMAIN out, out[i].op \in BranchOps
               PROVE  /\ Cardinality({j \in DOMAIN out : out[j] = Label(out[i].base)}) = 1
                      /\ \E j \in (i + 1)..Len(out) : out[j] = Label(out[i].base)
    BY DEF LabelsForward, BranchOps
  <2>1. PICK q \in DOMAIN out : out[q] = Label(out[i].base) /\ i < q
    BY DEF RunInv
  <2>2. DOMAIN out = 1..Len(out) /\ Len(out) \in Nat
    BY DEF RawInv
  <2>3. q \in (i + 1)..Len(out)
    BY <2>1, <2>2
  <2>4. \A j \in DOMAIN out : out[j] = Label(out[i].base) => j = q
    BY <2>1, Placing DEF RunInv
  <2>5. {j \in DOMAIN out : out[j] = Label(out[i].base)} = {q}
    BY <2>1, <2>4
  <2> QED
    BY <2>1, <2>3, <2>5, FS_Singleton
<1> QED
  BY <1>1, BranchInvariant, PTL

\* The woven program only runs forward: with no backward edge taken it comes to
\* the footer in at most as many steps as it has items.
THEOREM RunsForward == Spec => [][RunStep => ipc' > ipc]_vars
<1>1. RawInv /\ RunInv => [RunStep => ipc' > ipc]_vars
  BY RunForward
<1> QED
  BY <1>1, BranchInvariant, PTL

\* No scenario ever makes a constructor of encoding.py raise, and the body of each,
\* the branches of branch_pred included, returns with the ra and sp it was called
\* with.
THEOREM AlwaysAssembles == Spec => []AssemblesAndReturns
<1>1. GenInv /\ ReturnInv => AssemblesAndReturns
  BY DEF GenInv, ReturnInv, AssemblesAndReturns
<1> QED
  BY <1>1, GenInvariant, BranchInvariant, PTL

=============================================================================
