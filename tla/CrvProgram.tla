----------------------------- MODULE CrvProgram -----------------------------
(***************************************************************************)
(* The constrained-random generator, tools/crv: generator.py, the register *)
(* state of regfile.py and the eight scenarios, each a loop that appends   *)
(* one or more instructions per round, together with a machine that runs   *)
(* what was generated.                                                     *)
(*                                                                         *)
(* Seven scenarios emit straight-line code (a trap comes back to the next  *)
(* instruction), so an instruction is executed as it is appended and the   *)
(* program itself need not be kept.  branch_pred is kept in out and runs   *)
(* when it is woven.  rng is nondeterminism: a register is any of the   *)
(* candidates and an integer either end of its range.                      *)
(***************************************************************************)
EXTENDS CrvIsa, FiniteSets, Sequences, SequencesExt

CONSTANTS Regs,         \* the integer registers considered
          Scenarios,    \* the scenarios considered
          Length        \* the length asked of each scenario

ASSUME CrvAssumption ==
    /\ {0, 1, 2, 5, 6, 10, 11} \subseteq Regs /\ Regs \subseteq 0..31
    /\ \A s \in Scenarios : Length[s] \in Nat \ {0}

VARIABLES scenario, phase,
          n,            \* instructions appended after the set-up
          gp,           \* GPState.live
          st,           \* the loop's local counters
          todo,         \* appends of the current round still to come
          raw, sched,   \* branch_pred: the list without labels, the labels' positions
          out,          \* branch_pred: the woven list
          cur, win,     \* source and access of the last instruction; classes of the last five
          val, ipc      \* the machine: register values, position in raw, then in out

vars == <<scenario, phase, n, gp, st, todo, raw, sched, out, cur, win, val, ipc>>

\* Values the machine tells apart besides addresses.
Undef == -1             \* never written since reset
Unknown == -2
Ra == -3                \* the return address and the stack pointer of main
Sp == -4

(* The ends of the ranges rng.randint draws from. *)
Imm12 == {-2048, 2047}
Shamt == {0, 63}
Offsets == {0, 2040}    \* 0 .. 255 * 8 in every scenario but raw_stress

Window(s) == IF Len(s) > 5 THEN Tail(s) ELSE s

-----------------------------------------------------------------------------
(* Appending and executing one instruction.                                *)

\* The data is not computed: a result is Unknown.
Exec(i) == val' = IF i.rd = 0 THEN val ELSE [val EXCEPT ![i.rd] = Unknown]

\* What is remembered of an instruction once it has run.
Seen(i) == IF IsMem(i) THEN [i EXCEPT !.rd = 0] ELSE Instr("other", 0, i.rs)

\* GPState.write
Write(rd) == gp' = IF rd = 0 THEN gp ELSE gp \union {rd}

\* The constructor may raise; otherwise the instruction is appended and run.
Append1(i) ==
    IF EncodeOk(i)
    THEN /\ n' = n + 1 /\ cur' = Seen(i) /\ win' = Window(Append(win, i.op))
         /\ Write(i.rd) /\ Exec(i)
         /\ UNCHANGED <<scenario, phase, raw, sched, out, ipc>>
    ELSE /\ phase' = "raised"
         /\ UNCHANGED <<scenario, n, gp, raw, sched, out, cur, win, val, ipc>>

\* One round of a scenario's loop begins.
Round(sc) == scenario = sc /\ phase = "body" /\ n < Length[sc] /\ todo = << >>

AluI(W) == {Addi(rd, rs, imm) : rd \in W, rs \in gp, imm \in Imm12}
           \union {Shift(rd, rs, sh) : rd \in W, rs \in gp, sh \in Shamt}
MutAlu(W) == UNION {{AluR(rd, rs) : rs \in gp \union {rd}} : rd \in W} \union AluI(W)
Alu(W) == {AluR(rd, rs) : rd \in W, rs \in gp} \union AluI(W)
Loads(W, ptr) == {Load(rd, ptr, off, sz) : rd \in W, off \in Offsets, sz \in {4, 8}}
Stores(ptr) == {Store(rs, ptr, off, sz) : rs \in gp, off \in Offsets, sz \in {4, 8}}

-----------------------------------------------------------------------------
(* int_hazards.  A dependent source is one of the registers written last,  *)
(* which are all live: it is one of the choices made here.                 *)

IhWritable == Regs \ {0, 1, 2, 10}
IhMem == Loads(IhWritable, 10) \union Stores(10)

IntHazards ==
    /\ Round("int_hazards")
    /\ \E i \in Alu(IhWritable) \union IhMem : Append1(i)
    /\ UNCHANGED <<st, todo>>

-----------------------------------------------------------------------------
(* muldiv_interleave                                                       *)

MutMdWritable == Regs \ {0, 1, 2}
MdWritable == Regs \ {0, 1, 2, 10}
MdAlu == Alu(MdWritable)
MdMem == Loads(MdWritable, 10)
MdMuldiv == {MulDiv(rd, rs) : rd \in MdWritable, rs \in gp \ {0}}
MdConsumer(src) == {AluR(rd, rs) : rd \in MdWritable, rs \in gp \union {src}}

Filler == st.mem >= 2   \* two loads in a row: an ALU instruction is forced

\* since_muldiv is compared with 4 only and counts no further here.
Since(k) == IF st.since + k > 4 THEN 4 ELSE st.since + k

MuldivAlu ==
    /\ Round("muldiv_interleave")
    /\ \E i \in MdAlu : Append1(i)
    /\ st' = [st EXCEPT !.mem = 0, !.since = Since(1)]
    /\ todo' = todo

MuldivMem ==
    /\ Round("muldiv_interleave") /\ ~Filler
    /\ \E i \in MdMem : Append1(i)
    /\ st' = [st EXCEPT !.mem = @ + 1, !.since = Since(1)]
    /\ todo' = todo

MutMuldivOp ==
    /\ Round("muldiv_interleave") /\ ~Filler
    /\ \E i \in MdMuldiv, k \in 1..3 :
         /\ Append1(i)
         /\ todo' = [j \in 1..k |-> MulDiv(i.rd, 0)]
    /\ st' = [st EXCEPT !.mem = 0, !.since = 0]

\* A muldiv drawn too early becomes an ALU instruction (MuldivAlu); one that is
\* emitted is followed by one to three consumers of its result.
MuldivOp ==
    /\ Round("muldiv_interleave") /\ ~Filler /\ st.since >= 4
    /\ \E i \in MdMuldiv, k \in 1..3 :
         /\ Append1(i)
         /\ todo' = [j \in 1..k |-> MulDiv(i.rd, 0)]
    /\ st' = [st EXCEPT !.mem = 0, !.since = 0]

MuldivConsumer ==
    /\ scenario = "muldiv_interleave" /\ phase = "body" /\ todo # << >>
    /\ \E i \in MdConsumer(todo[1].rd) : Append1(i)
    /\ st' = [st EXCEPT !.since = Since(1)]
    /\ todo' = Tail(todo)

-----------------------------------------------------------------------------
(* mem_ordering                                                            *)

MoWritable == Regs \ {0, 1, 2, 10, 11}
MoAlu == Alu(MoWritable)
MoMem(ptr) == Loads(MoWritable, ptr) \union Stores(ptr)

OrderingMem ==
    /\ Round("mem_ordering") /\ st.mem < 3
    /\ \E ptr \in {10, 11} : \E i \in MoMem(ptr) : Append1(i)
    /\ st' = [st EXCEPT !.mem = @ + 1]
    /\ todo' = todo

OrderingAlu ==
    /\ Round("mem_ordering")
    /\ \E i \in MoAlu : Append1(i)
    /\ st' = [st EXCEPT !.mem = 0]
    /\ todo' = todo

-----------------------------------------------------------------------------
(* raw_stress: a fresh value, its store, and the load of the same bytes.   *)

RsWritable == Regs \ {0, 1, 2, 10}
\* Slots at the ends of the hot region and around the clamp's threshold.
RsSlots(sz) == {0, 2040 \div sz, 2040 \div sz + 1, 4080 \div sz, 4096 \div sz - 1}

RawStress ==
    /\ Round("raw_stress")
    /\ \E sz \in {1, 2, 4, 8}, rs2 \in RsWritable, rd \in RsWritable, imm \in Imm12 :
         \E slot \in RsSlots(sz) :
           LET off == Clamp(slot * sz, sz)
           IN  /\ Append1(Addi(rs2, 0, imm))
               /\ todo' = <<Store(rs2, 10, off, sz), Load(rd, 10, off, sz)>>
    /\ UNCHANGED st

RawStressAccess ==
    /\ scenario = "raw_stress" /\ phase = "body" /\ todo # << >>
    /\ Append1(todo[1])
    /\ todo' = Tail(todo)
    /\ UNCHANGED st

-----------------------------------------------------------------------------
(* fp_arith and fdiv_fsqrt.  Every FP register is live from the start, so   *)
(* their operands are left out; imm is the rounding mode.                   *)

RM_CYCLE == <<0, 1, 2, 3, 4, 7>>
FpWritable == Regs \ {0, 1, 2}
FpAlu == {AluR(rd, rs) : rd \in FpWritable, rs \in gp}
         \union {Addi(rd, rs, imm) : rd \in FpWritable, rs \in gp, imm \in Imm12}
FpOps(rm) == {Fp("fp3", rm), Fp("fp4", rm)}

FpArith ==
    /\ Round("fp_arith")
    /\ \/ /\ \E i \in FpOps(RM_CYCLE[st.rm + 1]) : Append1(i)
          /\ st' = [st EXCEPT !.rm = (@ + 1) % 6]
       \/ /\ \E i \in FpAlu : Append1(i)
          /\ UNCHANGED st
    /\ todo' = todo

\* Division and square root round to nearest, the pipelined ones dynamically.
FdOps == {Fp("iter", 0), Fp("fp3", 7)}
FdAlu == FpAlu

FdivFsqrt ==
    /\ Round("fdiv_fsqrt")
    /\ \E i \in FdOps \union FdAlu : Append1(i)
    /\ UNCHANGED <<st, todo>>

-----------------------------------------------------------------------------
(* traps                                                                   *)

TrWritable == Regs \ {0, 1, 2, 5, 6}

TrapsAlu ==
    /\ Round("traps")
    /\ \E i \in Alu(TrWritable) : Append1(i)
    /\ UNCHANGED <<st, todo>>

\* The handler runs on t1 (x6): mepc + 4 is the next instruction because the
\* prologue turned compressed instructions off.
TrapsTrap ==
    /\ Round("traps")
    /\ n' = n + 1 /\ cur' = Seen(Trap)
    /\ win' = Window(Append(win, IF st.toggle = 0 THEN "ecall" ELSE "ebreak"))
    /\ val' = [val EXCEPT ![6] = Unknown]
    /\ st' = [st EXCEPT !.toggle = 1 - @]
    /\ UNCHANGED <<scenario, phase, gp, todo, raw, sched, out, ipc>>

-----------------------------------------------------------------------------
(* branch_pred: rs = 0 stands for the predictable comparison of x0 with x0. *)

BpWritable == Regs \ {0, 1, 2}
BpAlu == Alu(BpWritable)
Branch(k, taken, rs) == [op |-> taken, rd |-> 0, rs |-> rs, base |-> k, imm |-> 0, sz |-> 0]

AppendRaw(i) == /\ raw' = Append(raw, i) /\ Write(i.rd)
                /\ UNCHANGED <<scenario, phase, n, st, todo, out, cur, win, val, ipc>>

BranchAlu ==
    /\ scenario = "branch_pred" /\ phase = "body" /\ Len(raw) < Length[scenario]
    /\ \E i \in BpAlu :
         IF EncodeOk(i) THEN AppendRaw(AluR(i.rd, i.rs))
         ELSE /\ phase' = "raised"
              /\ UNCHANGED <<scenario, n, gp, st, todo, raw, out, cur, win, val, ipc>>
    /\ UNCHANGED sched

\* Label k is scheduled gap positions after the branch, counted from 0.
BranchOp ==
    /\ scenario = "branch_pred" /\ phase = "body" /\ Len(raw) < Length[scenario]
    /\ \E gap \in 1..5, rs \in gp, taken \in {"always", "never"} :
         /\ AppendRaw(Branch(Len(sched) + 1, IF rs = 0 THEN taken ELSE "either", rs))
         /\ sched' = Append(sched, Len(raw) + gap)

\* Step 2 walks over raw: the labels scheduled at a position, in order, before
\* the instruction there; the ones scheduled past the end, at the end.
Label(k) == [op |-> "label", rd |-> 0, rs |-> 0, base |-> k, imm |-> 0, sz |-> 0]
MutEffective(k) == sched[k]
Effective(k) == IF sched[k] < Len(raw) THEN sched[k] ELSE Len(raw)
Pending == {k \in DOMAIN sched :
              Effective(k) = ipc /\ \A p \in DOMAIN out : out[p] # Label(k)}

Weaving == scenario = "branch_pred" /\ phase = "body" /\ Len(raw) >= Length[scenario]

WeaveLabel ==
    /\ Weaving
    /\ \E k \in Pending : (\A j \in Pending : k <= j) /\ out' = Append(out, Label(k))
    /\ UNCHANGED <<scenario, phase, n, gp, st, todo, raw, sched, cur, win, val, ipc>>

WeaveInstr ==
    /\ Weaving /\ Pending = {} /\ ipc < Len(raw)
    /\ out' = Append(out, raw[ipc + 1]) /\ ipc' = ipc + 1
    /\ UNCHANGED <<scenario, phase, n, gp, st, todo, raw, sched, cur, win, val>>

EndWeave ==
    /\ Weaving /\ Pending = {} /\ ipc = Len(raw)
    /\ phase' = "run" /\ ipc' = 1
    /\ UNCHANGED <<scenario, n, gp, st, todo, raw, sched, out, cur, win, val>>

\* The machine runs the woven program; a label is no instruction.
Target(k) == SelectInSeq(out, LAMBDA i : i.op = "label" /\ i.base = k)
RunStep ==
    /\ phase = "run" /\ ipc <= Len(out)
    /\ LET i == out[ipc] IN
         \/ /\ i.op \in {"always", "either"} /\ ipc' = Target(i.base) /\ val' = val
         \/ /\ i.op \in {"never", "either", "label"} /\ ipc' = ipc + 1 /\ val' = val
         \/ /\ i.op \in {"alu", "addi"} /\ ipc' = ipc + 1 /\ Exec(i)
    /\ cur' = Seen(out[ipc])
    /\ UNCHANGED <<scenario, phase, n, gp, st, todo, raw, sched, out, win>>

-----------------------------------------------------------------------------
(* generate_program                                                        *)

\* common.S sets sp, t0, a0 and a1, and the call sets ra.
Init ==
    /\ scenario \in Scenarios /\ phase = "setup"
    /\ n = 0 /\ gp = {0, 2}
    /\ st = [mem |-> 0, since |-> 4, rm |-> 0, toggle |-> 0]
    /\ todo = << >> /\ raw = << >> /\ sched = << >> /\ out = << >>
    /\ cur = Seen(Trap) /\ win = << >> /\ ipc = 0
    /\ val = [r \in Regs |-> CASE r = 0 -> 0 [] r = 1 -> Ra [] r = 2 -> Sp
                               [] r \in {5, 10, 11} -> Unknown [] OTHER -> Undef]

\* _setup_data_pointer: lui, then addi, leave the base in the register.
Pointer(base) == Upper(base) * 4096 + Lower(base)
SetupOk(base) == EncodeOk(Lui(10, Upper(base))) /\ EncodeOk(Addi(10, 10, Lower(base)))

SetPointers(bases) ==
    /\ IF \A r \in DOMAIN bases : SetupOk(bases[r])
       THEN /\ phase' = "body"
            /\ gp' = gp \union DOMAIN bases
            /\ val' = [r \in Regs |-> IF r \in DOMAIN bases THEN Pointer(bases[r]) ELSE val[r]]
       ELSE phase' = "raised" /\ UNCHANGED <<gp, val>>
    /\ UNCHANGED raw

MoPointers == SetPointers([r \in {10, 11} |-> IF r = 10 THEN DATA_BASE ELSE ATOMIC_BASE])
RsPointer == SetPointers([r \in {10} |-> DATA_BASE])

\* la t0 and csrw mtvec run now, the handler, which writes t1, at a trap only.
TrPrologue ==
    /\ phase' = "body" /\ gp' = gp \union {5, 6}
    /\ val' = [val EXCEPT ![5] = Unknown]
    /\ UNCHANGED raw

BpPrologue ==
    /\ phase' = "body" /\ gp' = gp \union {5} /\ raw' = <<Addi(5, 0, 42)>>
    /\ UNCHANGED val

\* get_scenario, and what the scenario does before its loop.
Setup ==
    /\ phase = "setup"
    /\ CASE scenario \in {"int_hazards", "muldiv_interleave"} -> SetPointers([r \in {10} |-> DATA_BASE])
         [] scenario = "raw_stress"   -> RsPointer
         [] scenario = "mem_ordering" -> MoPointers
         [] scenario = "traps"        -> TrPrologue
         [] scenario = "branch_pred"  -> BpPrologue
         [] OTHER -> phase' = "body" /\ UNCHANGED <<gp, val, raw>>
    /\ UNCHANGED <<scenario, n, st, todo, sched, out, cur, win, ipc>>

\* The loop ends; the footer restores ra and sp, sets a0 = 0 and returns.
Finish ==
    /\ \/ phase = "body" /\ scenario # "branch_pred" /\ n >= Length[scenario] /\ todo = << >>
       \/ phase = "run" /\ ipc > Len(out)
    /\ phase' = "done"
    /\ UNCHANGED <<scenario, n, gp, st, todo, raw, sched, out, cur, win, val, ipc>>

Done == phase \in {"done", "raised"} /\ UNCHANGED vars

Next == \/ Setup \/ IntHazards \/ MuldivAlu \/ MuldivMem \/ MuldivOp \/ MuldivConsumer
        \/ OrderingMem \/ OrderingAlu \/ RawStress \/ RawStressAccess
        \/ FpArith \/ FdivFsqrt \/ TrapsAlu \/ TrapsTrap
        \/ BranchAlu \/ BranchOp \/ WeaveLabel \/ WeaveInstr \/ EndWeave \/ RunStep \/ Finish \/ Done

Spec == Init /\ [][Next]_vars

-----------------------------------------------------------------------------
(* Properties.                                                             *)

\* The generator's state keeps its type; in particular the emitted instructions
\* stay within the scenario's length.
TypeOK ==
    /\ scenario \in Scenarios
    /\ phase \in {"setup", "body", "run", "done", "raised"}
    /\ n \in 0..(Length[scenario] + 3) /\ gp \subseteq Regs
    /\ st \in [mem : 0..3, since : 0..4, rm : 0..5, toggle : 0..1]
    /\ Len(todo) <= 3 /\ Len(win) <= 5 /\ Len(out) <= 2 * Length[scenario]
    /\ val \in [Regs -> Int] /\ ipc \in 0..(2 * Length[scenario] + 1)

\* The generator always produces a program that comes back: no immediate, shift
\* amount or offset a scenario draws makes a constructor of encoding.py raise
\* ValueError, and the body leaves alone what the footer returns with, the values
\* of ra and sp.
AssemblesAndReturns == phase # "raised" /\ val[1] = Ra /\ val[2] = Sp

\* Every load and store executes inside the DATA or the ATOMIC region, aligned,
\* never in code or stack, whatever the body did to the registers before.
AccessInRegion ==
    [][(n' # n /\ IsMem(cur')) =>
         LET a == val[cur'.base] + cur'.imm
         IN  /\ a % cur'.sz = 0
             /\ \/ DATA_BASE <= a /\ a + cur'.sz <= DATA_BASE + DATA_SIZE
                \/ ATOMIC_BASE <= a /\ a + cur'.sz <= ATOMIC_BASE + ATOMIC_SIZE]_vars

\* The workarounds' spacing, over the rounds of the loop: four instructions
\* between two muldivs, and no load chain longer than two (muldiv_interleave)
\* or access chain longer than three (mem_ordering).
Chain(k) == \E i \in 1..(Len(win) - k + 1) :
                \A j \in i..(i + k - 1) : win[j] \in {"load", "store"}
Spacing ==
    /\ \A i, j \in DOMAIN win : (win[i] = "muldiv" /\ win[j] = "muldiv") => i = j
    /\ scenario = "muldiv_interleave" => ~Chain(3)
    /\ scenario = "mem_ordering" => ~Chain(4)

\* GPState's live set stands for registers that are written when they are read,
\* with two exceptions and no third.  Every instruction that runs reads a
\* register written since reset, except that traps may read t1 before its first
\* trap has run the handler, and that branch_pred may read a register which an
\* instruction further up writes and a taken branch skipped.
Untrapped == \A j \in DOMAIN win : win[j] \notin {"ecall", "ebreak"}
Skipped(r) == \E j \in 1..(ipc - 1) : out[j].rd = r
ReadsWritten ==
    [][/\ n' # n => \/ val[cur'.rs] # Undef
                    \/ scenario = "traps" /\ cur'.rs = 6 /\ Untrapped
       /\ (phase = "run" /\ ipc' # ipc) => val[cur'.rs] # Undef \/ Skipped(cur'.rs)]_vars

\* Every branch of the woven program has exactly one label, after it, even if
\* several labels share a position or lie past the end: it links, and no
\* backward edge keeps the program from ending.
LabelsForward ==
    phase = "run" =>
        \A i \in DOMAIN out : out[i].op \in {"always", "never", "either"} =>
            /\ Cardinality({j \in DOMAIN out : out[j] = Label(out[i].base)}) = 1
            /\ \E j \in (i + 1)..Len(out) : out[j] = Label(out[i].base)

=============================================================================
