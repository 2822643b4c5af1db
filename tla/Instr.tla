-------------------------------- MODULE Instr -------------------------------
(***************************************************************************)
(* What a pipeline register of kronos_top carries, reduced to what hazard  *)
(* detection, forwarding and redirects read of it.                         *)
(*                                                                         *)
(* A program counter is a position in the architectural instruction        *)
(* stream: n > 0 is the n-th instruction the program executes, Wrong an    *)
(* instruction fetched past an unresolved redirect.  Filler instructions   *)
(* that read, write and redirect nothing have no position.  A data value   *)
(* is the position of the instruction that produced it.                    *)
(***************************************************************************)
EXTENDS Integers

CONSTANTS Reg,    \* register indices; 0 is x0, and stands for "no register"
          Kinds,  \* the instruction classes the program uses
          Predict \* whether the branch predictor predicts anything taken

Wrong == -1
NoPc == 0         \* no instruction
NoValue == -2     \* a result bus that does not carry the instruction's value

(***************************************************************************)
(* ALU    writes rd from the ALU                                           *)
(* MUL    writes rd from kronos_muldiv (is_muldiv)                         *)
(* CSR    CSRRx, writes rd from the CSR file (WB_CSR)                      *)
(* LOAD   writes rd from the LSU (WB_MEM: loads, AMO, LR, SC)              *)
(* FLOAD  a load that traps at MEM2 (page or access fault, trigger hit)    *)
(* JUMP   JAL / JALR, writes the link register (WB_PC4)                    *)
(* BRANCH a conditional branch                                             *)
(* SYS    ecall, ebreak, mret, sret: uses the CSR file, redirects at MEM2  *)
(* FENCEI fence.i: the decoder does not know it, so it traps at MEM2       *)
(* NOP    the filler                                                       *)
(***************************************************************************)
AllKinds == {"ALU", "MUL", "CSR", "LOAD", "FLOAD", "JUMP", "BRANCH", "SYS", "FENCEI", "NOP"}

ASSUME RegAssumption == 0 \in Reg
ASSUME KindsAssumption == Kinds \subseteq AllKinds
ASSUME PredictAssumption == Predict \in BOOLEAN

is_load(i) == i.kind \in {"LOAD", "FLOAD"}
is_csr(i) == i.kind = "CSR"
is_muldiv(i) == i.kind = "MUL"
is_fence_i(i) == i.kind = "FENCEI"
uses_csr(i) == i.valid /\ i.kind \in {"CSR", "SYS"}

\* The next instruction of the program, as seen from this one.
NextPc(pc) == IF pc = Wrong THEN Wrong ELSE pc + 1

(***************************************************************************)
(* What the fetch stage can deliver: the decoded class and registers, the  *)
(* prediction (pred_taken), and what resolution will say of it: dir_miss   *)
(* is a direction mispredict found at EX1, mem_redir a redirect found at   *)
(* MEM2 (fault, xRET, or the wrong predicted target).  The predictor drops *)
(* the low PC bits, so a compressed branch can make its neighbour in the   *)
(* same word, of any class, be predicted taken.                            *)
(***************************************************************************)
Fetchable(s) ==
  \/ s.kind \in {"ALU", "MUL", "CSR", "LOAD"} /\ s.dir_miss = s.pred_taken /\ ~s.mem_redir
  \/ s.kind = "FLOAD" /\ s.dir_miss = s.pred_taken /\ s.mem_redir
  \/ /\ s.kind \in {"SYS", "FENCEI"} /\ s.rd = 0 /\ s.rs = 0
     /\ s.dir_miss = s.pred_taken /\ s.mem_redir
  \/ s.kind = "BRANCH" /\ s.rd = 0 /\ (s.mem_redir => s.pred_taken /\ ~s.dir_miss)
  \/ s.kind = "JUMP" /\ s.dir_miss = ~s.pred_taken /\ (s.mem_redir => s.pred_taken)

Shape == [kind : AllKinds, rd : Reg, rs : Reg,
          pred_taken : BOOLEAN, dir_miss : BOOLEAN, mem_redir : BOOLEAN]

Shapes == {s \in Shape : s.kind \in Kinds /\ Fetchable(s) /\ (s.pred_taken => Predict)}

Filler == [kind |-> "NOP", rd |-> 0, rs |-> 0,
           pred_taken |-> FALSE, dir_miss |-> FALSE, mem_redir |-> FALSE]

(***************************************************************************)
(* A pipeline register.  sel is the forward select computed at ID, opnd    *)
(* the operand captured at the RR/EX1 edge, res the alu_result bus from    *)
(* EX2 on, cval the CSR file's contents as read at EX1.  want and cwant    *)
(* are not in the code: the positions of the last instructions before      *)
(* this one, in program order, that wrote rs and the CSR file.             *)
(***************************************************************************)
FwdSel == {"FWD_NONE", "FWD_EX1_NOW", "FWD_EX1", "FWD_EXMEM", "FWD_MEM1B",
           "FWD_MEM2", "FWD_MEMWB"}

Latch == [valid : BOOLEAN, pc : Int, kind : AllKinds, rd : Reg, rs : Reg,
          dir_miss : BOOLEAN, mem_redir : BOOLEAN,
          sel : FwdSel, opnd : Int, res : Int, cval : Int,
          want : Int, cwant : Int]

\* The all-zero register a flush leaves.
Bubble == [valid |-> FALSE, pc |-> NoPc, kind |-> "NOP", rd |-> 0, rs |-> 0,
           dir_miss |-> FALSE, mem_redir |-> FALSE,
           sel |-> "FWD_NONE", opnd |-> 0, res |-> 0, cval |-> 0,
           want |-> 0, cwant |-> 0]
=============================================================================
