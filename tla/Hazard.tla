------------------------------- MODULE Hazard -------------------------------
(***************************************************************************)
(* kronos_hazard: which pipeline registers move, hold or clear this cycle. *)
(* The FP hazards (fp_load_use, frm_hazard) belong to the FPU's model.     *)
(***************************************************************************)
EXTENDS Instr

\* A consumer c in ID waits for a producer p in {RR .. MEM2} that is a load.
Waits(p, c) == p.valid /\ is_load(p) /\ p.rd # 0 /\ p.rd = c.rs

\* A mutant of load_use: the list stops at MEM1, as before the MEM1B split.
LoadUseUpToMem1(c, id_rr, rr_ex1, ex1_ex2, ex2_mem1, mem1_mem1b, mem1_mem2) ==
  \E p \in {id_rr, rr_ex1, ex1_ex2, ex2_mem1} : Waits(p, c)

load_use(c, id_rr, rr_ex1, ex1_ex2, ex2_mem1, mem1_mem1b, mem1_mem2) ==
  \E p \in {id_rr, rr_ex1, ex1_ex2, ex2_mem1, mem1_mem1b, mem1_mem2} : Waits(p, c)

\* A JALR waits for a load of its rs1 in MEM1 or MEM1B.
jalr_fwd_stall(c, ex2_mem1, mem1_mem1b) ==
  /\ c.kind = "JUMP"
  /\ \E p \in {ex2_mem1, mem1_mem1b} : Waits(p, c)

\* A mutant of csr_raw_stall: it covers CSR writers but not xRET readers.
CsrRawCsrOnly(c, older) == c.valid /\ is_csr(c) /\ \E p \in older : p.valid /\ is_csr(p)

\* A CSR user waits while any older CSR instruction is in flight: c is in ID
\* with older = {RR .. MEM2}, or in RR with older = {EX1 .. MEM2}.
csr_raw_stall(c, older) == uses_csr(c) /\ \E p \in older : p.valid /\ is_csr(p)

(***************************************************************************)
(* The always_comb priority chain, as the mode of the cycle:               *)
(*   hold      no register moves                                           *)
(*   redirect  everything moves, IF/ID, ID/RR and RR/EX1 clear             *)
(*   id_stall  IF/ID holds, ID/RR clears, the rest moves                   *)
(*   rr_stall  IF/ID and ID/RR hold, RR/EX1 clears, the rest moves         *)
(*   advance   everything moves                                            *)
(***************************************************************************)
mode(mem_stall, redirect, raw_id, raw_rr, muldiv_stall) ==
  IF mem_stall THEN "hold"
  ELSE IF redirect THEN "redirect"
  ELSE IF raw_id THEN "id_stall"
  ELSE IF raw_rr THEN "rr_stall"
  ELSE IF muldiv_stall THEN "hold"
  ELSE "advance"

front_en(m) == m \in {"redirect", "advance"}                \* pc, if_id, id_rr
rr_ex1_en(m) == m \in {"redirect", "id_stall", "advance"}
\* A mutant: WB and the memory stages move under a stall.
BackAlwaysMoves(m) == TRUE
back_en(m) == m # "hold"                                    \* ex2_mem1 .. mem_wb
if_id_flush(m) == m = "redirect"
id_rr_flush(m) == m \in {"redirect", "id_stall"}
rr_ex1_flush(m) == m \in {"redirect", "rr_stall"}
=============================================================================
