------------------------------- MODULE Forward ------------------------------
(***************************************************************************)
(* kronos_forward: at ID, the bypass source the consumer will use one      *)
(* cycle later at RR.  Each operand has its own copy of this selection;    *)
(* one operand, rs, stands for both.                                       *)
(***************************************************************************)
EXTENDS Instr

\* A producer slot that can be bypassed: loads are suppressed because the
\* loaded value is not in a register before WB.
Matches(p, rs) == p.valid /\ ~is_load(p) /\ p.rd = rs

\* A mutant that names a select the bypass mux does not decode.
UndecodedSelect(rs, id_rr, rr_ex1, ex1_ex2, ex2_mem1, mem1_mem1b, mem1_mem2) ==
  IF rs # 0 /\ mem1_mem2.valid /\ mem1_mem2.rd = rs THEN "FWD_WB" ELSE "FWD_NONE"

\* Freshest producer first; a select names the register that will hold the
\* producer one cycle later.
fwd_sel(rs, id_rr, rr_ex1, ex1_ex2, ex2_mem1, mem1_mem1b, mem1_mem2) ==
  IF rs = 0 THEN "FWD_NONE"
  ELSE IF Matches(id_rr, rs) THEN "FWD_EX1_NOW"
  ELSE IF Matches(rr_ex1, rs) THEN "FWD_EX1"
  ELSE IF Matches(ex1_ex2, rs) THEN "FWD_EXMEM"
  ELSE IF Matches(ex2_mem1, rs) THEN "FWD_MEM1B"
  ELSE IF Matches(mem1_mem1b, rs) THEN "FWD_MEM2"
  ELSE IF mem1_mem2.valid /\ mem1_mem2.rd = rs THEN "FWD_MEMWB"
  ELSE "FWD_NONE"
=============================================================================
