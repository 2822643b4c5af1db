------------------------------- MODULE CrvIsa -------------------------------
(***************************************************************************)
(* The vocabulary of the constrained-random generator: the instructions of *)
(* tools/crv/encoding.py with their range checks, the memory regions of    *)
(* tools/crv/memory.py, and the pointer set-up of the scenarios.           *)
(*                                                                         *)
(* An instruction is a record of what matters of it: the class op, the     *)
(* destination rd (0 if none), one of its source registers rs (any one: a  *)
(* property of every source is checked for each choice), the base register *)
(* of an access, the immediate, and the width sz of an access in bytes.    *)
(***************************************************************************)
EXTENDS Integers

DATA_BASE   == 81920     \* 0x14000
DATA_SIZE   == 4096
ATOMIC_BASE == 90112     \* 0x16000
ATOMIC_SIZE == 4096

\* _check_simm and _check_uimm: what does not raise ValueError.
CheckSimm(v, bits) == v \in -(2^(bits - 1)) .. (2^(bits - 1) - 1)
CheckUimm(v, bits) == v \in 0 .. (2^bits - 1)

Instr(op, rd, rs) == [op |-> op, rd |-> rd, rs |-> rs, base |-> 0, imm |-> 0, sz |-> 0]

AluR(rd, rs)          == Instr("alu", rd, rs)
Addi(rd, rs, imm)     == [Instr("addi", rd, rs) EXCEPT !.imm = imm]
Shift(rd, rs, shamt)  == [Instr("shift", rd, rs) EXCEPT !.imm = shamt]
Lui(rd, imm)          == [Instr("lui", rd, 0) EXCEPT !.imm = imm]
MulDiv(rd, rs)        == Instr("muldiv", rd, rs)
Load(rd, base, off, sz)   == [op |-> "load", rd |-> rd, rs |-> base, base |-> base, imm |-> off, sz |-> sz]
Store(rs2, base, off, sz) == [op |-> "store", rd |-> 0, rs |-> rs2, base |-> base, imm |-> off, sz |-> sz]
Fp(op, rm)            == [Instr(op, 0, 0) EXCEPT !.imm = rm]
Trap                  == Instr("trap", 0, 0)

IsMem(i) == i.op \in {"load", "store"}

\* The checks the constructors of encoding.py make.
EncodeOk(i) ==
    /\ i.op \in {"addi", "load", "store"} => CheckSimm(i.imm, 12)
    /\ i.op = "shift" => CheckUimm(i.imm, 6)
    /\ i.op = "lui" => CheckUimm(i.imm, 20)

\* _setup_data_pointer and _load_addr: the halves of lui and addi, the upper one
\* biased when the lower one is negative.
Lower(base) == LET low == base % 4096 IN IF low >= 2048 THEN low - 4096 ELSE low
Upper(base) == LET up == (base \div 4096) % 1048576
               IN  IF base % 4096 >= 2048 THEN (up + 1) % 1048576 ELSE up

\* raw_stress: the offset of an access to a slot, brought into 12 signed bits.
MutClampNone(off, sz) == off
Clamp(off, sz) == IF off > 2040 THEN ((off % 2040) \div sz) * sz ELSE off
=============================================================================
