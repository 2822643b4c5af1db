------------------------------- MODULE Pipeline ------------------------------
(***************************************************************************)
(* The stage-7 pipeline of kronos_top: IF ID RR EX1 EX2 MEM1 MEM1B MEM2    *)
(* WB, its stall and flush control, its bypass network and its four        *)
(* redirects.  A step is one rising clock edge.                            *)
(*                                                                         *)
(* The front end is reduced to the position fetch_pc it delivers next and  *)
(* the valid bit of predecode; the multiplier to idle / busy / done; the   *)
(* data side, the FPU and the data TLB to the stall they assert.           *)
(***************************************************************************)
EXTENDS Forward, Hazard

CONSTANTS MaxInstr,     \* bound on the instructions other than fillers
          Interrupts    \* whether irq_pending may be raised

ASSUME MaxInstrAssumption == MaxInstr \in Nat
ASSUME InterruptsAssumption == Interrupts \in BOOLEAN

VARIABLES
  if_id_q, id_rr_q, rr_ex1_q, ex1_ex2_q, ex2_mem1_q, mem1_mem1b_q,
  mem1_mem2_q, mem_wb_q,         \* the eight pipeline registers
  pred_taken_q, pred_target_q,   \* IF redirect of a predicted-taken branch
  ex_redirect_q, ex_redirect_target_q,
  mem_redirect_q, mem_redirect_target_q,
  fence_i_redirect_q,            \* refetch behind a FENCE.I
  fetch_pc, align_instr_valid,   \* front end
  md_state, md_tag,              \* kronos_muldiv: FSM, and whose result it holds
  regfile, csr_file,             \* last writer of each register, of the CSRs
  writer, csr_writer,            \* the same in program order, at fetch
  retired, fetched               \* last position to leave WB; how many fetched

stages == <<if_id_q, id_rr_q, rr_ex1_q, ex1_ex2_q, ex2_mem1_q, mem1_mem1b_q,
            mem1_mem2_q, mem_wb_q>>
redirects == <<pred_taken_q, pred_target_q, ex_redirect_q, ex_redirect_target_q,
               mem_redirect_q, mem_redirect_target_q, fence_i_redirect_q>>
ghosts == <<writer, csr_writer, retired, fetched>>
vars == <<stages, redirects, fetch_pc, align_instr_valid, md_state, md_tag,
          regfile, csr_file, ghosts>>

Init == /\ if_id_q = Bubble /\ id_rr_q = Bubble /\ rr_ex1_q = Bubble /\ ex1_ex2_q = Bubble
        /\ ex2_mem1_q = Bubble /\ mem1_mem1b_q = Bubble /\ mem1_mem2_q = Bubble
        /\ mem_wb_q = Bubble
        /\ pred_taken_q = FALSE /\ pred_target_q = NoPc
        /\ ex_redirect_q = FALSE /\ ex_redirect_target_q = NoPc
        /\ mem_redirect_q = FALSE /\ mem_redirect_target_q = NoPc
        /\ fence_i_redirect_q = FALSE
        /\ fetch_pc = 1
        /\ align_instr_valid = FALSE
        /\ md_state = "IDLE"
        /\ md_tag = NoValue
        /\ regfile = [r \in Reg |-> 0]
        /\ csr_file = 0
        /\ writer = [r \in Reg |-> 0]
        /\ csr_writer = 0
        /\ retired = 0
        /\ fetched = 0

-----------------------------------------------------------------------------
(* Combinational signals. *)

\* The redirects that clear the front of the pipeline.
redirect_q == mem_redirect_q \/ ex_redirect_q \/ fence_i_redirect_q

redirect_load == redirect_q \/ pred_taken_q

\* The instruction behind a FENCE.I is off the program's path: its trap is next.
redirect_target == IF mem_redirect_q THEN mem_redirect_target_q
                   ELSE IF ex_redirect_q THEN ex_redirect_target_q
                   ELSE IF fence_i_redirect_q THEN Wrong
                   ELSE pred_target_q

\* A mutant of instr_fetch_stall: a redirect does not lift it.
FetchStallAlways == ~align_instr_valid

\* An empty front end freezes the whole pipeline, except under a redirect.
instr_fetch_stall == ~align_instr_valid /\ ~redirect_load

muldiv_valid == md_state = "DONE"
muldiv_stall == rr_ex1_q.valid /\ is_muldiv(rr_ex1_q) /\ ~muldiv_valid

\* stall is that of the data side (mem_stall), the FPU or the data TLB.
combined_stall(stall) == stall \/ instr_fetch_stall \/ muldiv_stall

\* Direction mispredict of the EX2 occupant; fault or wrong target at MEM2.
ex_redirect_d == ex1_ex2_q.dir_miss
mem_redirect_d == mem1_mem2_q.valid /\ mem1_mem2_q.mem_redir
mem_redirect_any == mem_redirect_d \/ mem_redirect_q

\* A mutant of raw_stall_id: CSR users wait at RR only.
RawIdWithoutCsr ==
  \/ load_use(if_id_q, id_rr_q, rr_ex1_q, ex1_ex2_q, ex2_mem1_q, mem1_mem1b_q, mem1_mem2_q)
  \/ jalr_fwd_stall(if_id_q, ex2_mem1_q, mem1_mem1b_q)

raw_stall_id ==
  \/ load_use(if_id_q, id_rr_q, rr_ex1_q, ex1_ex2_q, ex2_mem1_q, mem1_mem1b_q, mem1_mem2_q)
  \/ jalr_fwd_stall(if_id_q, ex2_mem1_q, mem1_mem1b_q)
  \/ csr_raw_stall(if_id_q, {id_rr_q, rr_ex1_q, ex1_ex2_q, ex2_mem1_q,
                             mem1_mem1b_q, mem1_mem2_q})

raw_stall_rr == csr_raw_stall(id_rr_q, {rr_ex1_q, ex1_ex2_q, ex2_mem1_q,
                                        mem1_mem1b_q, mem1_mem2_q})

hazard(stall) ==
  mode(stall \/ instr_fetch_stall, redirect_q, raw_stall_id, raw_stall_rr, muldiv_stall)

\* fence_i_pulse: a FENCE.I in EX2 empties the front end when nothing stalls,
\* and may do so in a stall, at the end of the drain or during a TLB miss.
Pulses(stall) == IF ex1_ex2_q.valid /\ is_fence_i(ex1_ex2_q)
                    /\ ~instr_fetch_stall /\ ~muldiv_stall
                 THEN {TRUE, ~stall} ELSE {FALSE}

\* What the buses carry.  ex_result is the ALU or the multiplier: the CSR
\* value, the load value and the link address never appear on it.
ex_result == IF is_muldiv(rr_ex1_q) THEN md_tag
             ELSE IF rr_ex1_q.kind = "ALU" THEN rr_ex1_q.pc ELSE NoValue
slot_value(p) == IF is_csr(p) THEN p.pc ELSE p.res
wb_result == IF mem_wb_q.kind \in {"LOAD", "CSR", "JUMP"} THEN mem_wb_q.pc
             ELSE mem_wb_q.res

\* The write through port of the integer register file, every cycle.
rd_wen == mem_wb_q.valid /\ mem_wb_q.rd # 0

\* The RR-stage operand when nothing is forwarded.
rs_data_rr == IF rd_wen /\ mem_wb_q.rd = id_rr_q.rs THEN wb_result
              ELSE regfile[id_rr_q.rs]

\* The RR/EX1 bypass mux.
rs_bypassed ==
  IF id_rr_q.sel = "FWD_EX1_NOW" THEN ex_result
  ELSE IF id_rr_q.sel = "FWD_EX1" THEN slot_value(ex1_ex2_q)
  ELSE IF id_rr_q.sel = "FWD_EXMEM" THEN slot_value(ex2_mem1_q)
  ELSE IF id_rr_q.sel = "FWD_MEM1B" THEN slot_value(mem1_mem1b_q)
  ELSE IF id_rr_q.sel = "FWD_MEM2" THEN slot_value(mem1_mem2_q)
  ELSE IF id_rr_q.sel = "FWD_MEMWB" THEN wb_result
  ELSE rs_data_rr

-----------------------------------------------------------------------------
(* The front end.  s is the instruction predecode presents this cycle and  *)
(* more its valid bit in the next one.                                     *)

\* Is the presented instruction captured into IF/ID at this edge?
Captured(m) == m = "advance" /\ ~pred_taken_q

\* Sequential successor of the captured instruction: the program's next one,
\* unless this one goes elsewhere.
Successor(s) == IF s.kind = "NOP" THEN fetch_pc
                ELSE IF s.pred_taken \/ s.dir_miss \/ s.mem_redir THEN Wrong
                ELSE NextPc(fetch_pc)

\* Where its prediction leads.
Predicted(s) == IF s.dir_miss \/ s.mem_redir THEN Wrong ELSE NextPc(fetch_pc)

\* What is captured; a filler is indistinguishable from a bubble.
IfId(s) == IF s.kind = "NOP" THEN Bubble
           ELSE [Bubble EXCEPT !.valid = align_instr_valid, !.pc = fetch_pc, !.kind = s.kind,
                               !.rd = s.rd, !.rs = s.rs, !.dir_miss = s.dir_miss,
                               !.mem_redir = s.mem_redir,
                               !.want = writer[s.rs], !.cwant = csr_writer]

FrontEnd(m, s, more, pulse) ==
  /\ fetch_pc' = IF redirect_load THEN redirect_target
                 ELSE IF Captured(m) THEN Successor(s) ELSE fetch_pc
  /\ align_instr_valid' = IF redirect_load \/ pulse THEN FALSE
                          ELSE more \/ (align_instr_valid /\ ~Captured(m))
  /\ pred_taken_q' = (s.pred_taken /\ align_instr_valid /\ front_en(m) /\ ~redirect_q)
  /\ pred_target_q' = IF ~redirect_load /\ s.pred_taken THEN Predicted(s) ELSE pred_target_q

\* Bookkeeping of the program's own order, at capture.
ProgramOrder(m, s) ==
  LET counted == Captured(m) /\ s.kind # "NOP"
      real == counted /\ fetch_pc # Wrong
  IN  /\ fetched' = IF counted THEN fetched + 1 ELSE fetched
      /\ writer' = IF real /\ s.rd # 0 /\ s.kind # "FLOAD"
                   THEN [writer EXCEPT ![s.rd] = fetch_pc] ELSE writer
      /\ csr_writer' = IF real /\ s.kind = "CSR" THEN fetch_pc ELSE csr_writer

-----------------------------------------------------------------------------
(* The pipeline registers: clear, load or hold. *)

\* A mutant of IfIdNext: a redirect does not clear IF/ID.
IfIdNoFlush(m, s) == IF pred_taken_q THEN (IF rr_ex1_en(m) THEN Bubble ELSE if_id_q)
                     ELSE IF front_en(m) THEN IfId(s) ELSE if_id_q

IfIdNext(m, s) == IF if_id_flush(m) THEN Bubble
                  ELSE IF pred_taken_q THEN (IF rr_ex1_en(m) THEN Bubble ELSE if_id_q)
                  ELSE IF front_en(m) THEN IfId(s) ELSE if_id_q

IdRrNext(m) == IF id_rr_flush(m) THEN Bubble
               ELSE IF ~front_en(m) THEN id_rr_q
               ELSE [if_id_q EXCEPT !.sel = fwd_sel(if_id_q.rs, id_rr_q, rr_ex1_q, ex1_ex2_q,
                                                    ex2_mem1_q, mem1_mem1b_q, mem1_mem2_q)]

\* A mutant of RrEx1Next: a multiplication stays in EX1 under a redirect too.
RrEx1MulStays(m) == IF muldiv_stall THEN rr_ex1_q
                    ELSE IF rr_ex1_flush(m) THEN Bubble
                    ELSE IF rr_ex1_en(m) THEN [id_rr_q EXCEPT !.opnd = rs_bypassed] ELSE rr_ex1_q

RrEx1Next(m) == IF rr_ex1_flush(m) THEN Bubble
                ELSE IF rr_ex1_en(m) THEN [id_rr_q EXCEPT !.opnd = rs_bypassed] ELSE rr_ex1_q

\* A mutant of ex1_ex2_flush: without the live EX2 term.
Ex1Ex2FlushLate(en) == ex_redirect_q \/ mem_redirect_any

ex1_ex2_flush(en) == ex_redirect_q \/ mem_redirect_any \/ (ex_redirect_d /\ en)

Ex1Ex2Next(stall, irq) ==
  LET en == ~combined_stall(stall)
  IN  IF ex1_ex2_flush(en) THEN Bubble
      ELSE IF en THEN [rr_ex1_q EXCEPT !.valid = rr_ex1_q.valid /\ ~irq,
                                       !.dir_miss = rr_ex1_q.valid /\ rr_ex1_q.dir_miss,
                                       !.mem_redir = rr_ex1_q.mem_redir \/ irq,
                                       !.res = ex_result, !.cval = csr_file]
      ELSE ex1_ex2_q

Ex2Mem1Next(m) == IF mem_redirect_any THEN Bubble
                  ELSE IF back_en(m) THEN ex1_ex2_q ELSE ex2_mem1_q

\* mem1_mem1b_flush and mem1_mem2_flush.
mem_kill(stall) == mem_redirect_any /\ ~combined_stall(stall)

\* The valid bit is killed by a MEM2 redirect even when the flush is not.
MoveLive(p) == [p EXCEPT !.valid = p.valid /\ ~mem_redirect_any]

Mem1Mem1bNext(m, stall) == IF mem_kill(stall) THEN Bubble
                           ELSE IF back_en(m) THEN MoveLive(ex2_mem1_q) ELSE mem1_mem1b_q

Mem1Mem2Next(m, stall) == IF mem_kill(stall) THEN Bubble
                          ELSE IF back_en(m) THEN MoveLive(mem1_mem1b_q) ELSE mem1_mem2_q

MemWbNext(m) == IF back_en(m) THEN mem1_mem2_q ELSE mem_wb_q

Stages(m, stall, irq, s) ==
  /\ if_id_q' = IfIdNext(m, s)
  /\ id_rr_q' = IdRrNext(m)
  /\ rr_ex1_q' = RrEx1Next(m)
  /\ ex1_ex2_q' = Ex1Ex2Next(stall, irq)
  /\ ex2_mem1_q' = Ex2Mem1Next(m)
  /\ mem1_mem1b_q' = Mem1Mem1bNext(m, stall)
  /\ mem1_mem2_q' = Mem1Mem2Next(m, stall)
  /\ mem_wb_q' = MemWbNext(m)

\* Where the EX1 stage says the program goes on: for an instruction that traps
\* or returns, a guess that its MEM2 redirect flushes.
ex_pc_d(p) == IF p.mem_redir THEN Wrong ELSE NextPc(p.pc)

\* A mutant of ExRedirect: the registered redirect does not hold under a stall.
ExRedirectDrops(stall) ==
  /\ ex_redirect_q' = ex_redirect_d
  /\ ex_redirect_target_q' = IF ex_redirect_d /\ ~ex_redirect_q
                             THEN ex_pc_d(ex1_ex2_q) ELSE ex_redirect_target_q

\* The registered redirects hold under a stall.
ExRedirect(stall) ==
  LET hold == combined_stall(stall)
  IN  /\ ex_redirect_q' = IF hold THEN ex_redirect_q ELSE ex_redirect_d
      /\ ex_redirect_target_q' = IF ~hold /\ ex_redirect_d /\ ~ex_redirect_q
                                 THEN ex_pc_d(ex1_ex2_q) ELSE ex_redirect_target_q

MemRedirect(stall) ==
  LET hold == combined_stall(stall)
  IN  /\ mem_redirect_q' = IF hold THEN mem_redirect_q ELSE mem_redirect_d
      /\ mem_redirect_target_q' = IF ~hold /\ mem_redirect_d
                                  THEN NextPc(mem1_mem2_q.pc) ELSE mem_redirect_target_q

FenceRedirect(stall, pulse) ==
  fence_i_redirect_q' = IF combined_stall(stall) THEN fence_i_redirect_q ELSE pulse

\* Of the stalls only mem_stall, and of the redirects not that of a FENCE.I,
\* keep an operation from starting.
req_i(mem_stall) == /\ rr_ex1_q.valid /\ is_muldiv(rr_ex1_q) /\ md_state = "IDLE"
                    /\ ~mem_stall /\ ~ex_redirect_q /\ ~mem_redirect_q

\* A mutant of Muldiv: DONE may last longer.
MuldivLingers(mem_stall, finish) ==
  LET step == IF finish THEN "DONE" ELSE "BUSY"
  IN  /\ md_state' = IF md_state = "DONE" THEN (IF finish THEN "DONE" ELSE "IDLE")
                     ELSE IF md_state = "BUSY" \/ req_i(mem_stall) THEN step ELSE "IDLE"
      /\ md_tag' = IF req_i(mem_stall) THEN rr_ex1_q.pc ELSE md_tag

\* kronos_muldiv: DONE lasts one cycle, and nothing cancels an operation.
Muldiv(mem_stall, finish) ==
  LET step == IF finish THEN "DONE" ELSE "BUSY"
  IN  /\ md_state' = IF md_state = "DONE" THEN "IDLE"
                     ELSE IF md_state = "BUSY" \/ req_i(mem_stall) THEN step ELSE "IDLE"
      /\ md_tag' = IF req_i(mem_stall) THEN rr_ex1_q.pc ELSE md_tag

\* WB: the register write, and the retirement strobe that commits CSRs.
retire_advance(stall) == mem_wb_q.valid /\ ~combined_stall(stall)

Retire(stall) ==
  /\ regfile' = IF rd_wen THEN [regfile EXCEPT ![mem_wb_q.rd] = wb_result] ELSE regfile
  /\ csr_file' = IF retire_advance(stall) /\ is_csr(mem_wb_q) /\ ~mem_wb_q.mem_redir
                THEN mem_wb_q.pc ELSE csr_file

\* One clock edge.
Clock(stall, mem_stall, irq, s, more, finish, pulse) ==
  LET m == hazard(stall)
  IN  /\ FrontEnd(m, s, more, pulse)
      /\ ProgramOrder(m, s)
      /\ Stages(m, stall, irq, s)
      /\ ExRedirect(stall)
      /\ MemRedirect(stall)
      /\ FenceRedirect(stall, pulse)
      /\ Muldiv(mem_stall, finish)
      /\ Retire(stall)
      /\ retired' = IF mem_wb_q.valid /\ back_en(m) THEN mem_wb_q.pc ELSE retired

\* What predecode presents matters while its valid bit is high and IF/ID is
\* enabled; only fillers are fetched once the bound is reached.
Presented(stall) ==
  IF align_instr_valid /\ front_en(hazard(stall)) /\ fetched < MaxInstr
  THEN Shapes \cup {Filler} ELSE {Filler}

\* Whether the multiplier finishes matters only while it works.
Finishing == IF is_muldiv(rr_ex1_q) \/ md_state = "BUSY" THEN BOOLEAN ELSE {FALSE}

Next == \E stall \in BOOLEAN :
          \E mem_stall \in {FALSE, stall}, irq \in {FALSE, Interrupts}, s \in Presented(stall),
             more \in BOOLEAN, finish \in Finishing, pulse \in Pulses(stall) :
            Clock(stall, mem_stall, irq, s, more, finish, pulse)

Spec == Init /\ [][Next]_vars

\* A cycle in which no one stalls: memory answers, the front end delivers,
\* the multiplier finishes.
Unstalled == \E s \in Presented(FALSE), pulse \in Pulses(FALSE) :
               Clock(FALSE, FALSE, FALSE, s, TRUE, TRUE, pulse)

\* A stall also ends while an instruction is presented: a FENCE.I waiting in EX2
\* may empty the front end again and again, but no stall waits for that.
LiveSpec == Spec /\ WF_vars(Unstalled) /\ SF_vars(align_instr_valid /\ Unstalled)

-----------------------------------------------------------------------------
(* Every register holds a value of its type. *)
TypeOK ==
  /\ if_id_q \in Latch /\ id_rr_q \in Latch /\ rr_ex1_q \in Latch /\ ex1_ex2_q \in Latch
  /\ ex2_mem1_q \in Latch /\ mem1_mem1b_q \in Latch /\ mem1_mem2_q \in Latch
  /\ mem_wb_q \in Latch
  /\ pred_taken_q \in BOOLEAN /\ ex_redirect_q \in BOOLEAN /\ mem_redirect_q \in BOOLEAN
  /\ fence_i_redirect_q \in BOOLEAN
  /\ pred_target_q \in Int /\ ex_redirect_target_q \in Int /\ mem_redirect_target_q \in Int
  /\ fetch_pc \in Int /\ align_instr_valid \in BOOLEAN
  /\ md_state \in {"IDLE", "BUSY", "DONE"} /\ md_tag \in Int
  /\ regfile \in [Reg -> Int] /\ csr_file \in Int
  /\ writer \in [Reg -> Int] /\ csr_writer \in Int
  /\ retired \in Int /\ fetched \in Nat

\* The pipeline registers, oldest instruction first.
Flight == <<mem_wb_q, mem1_mem2_q, mem1_mem1b_q, ex2_mem1_q, ex1_ex2_q,
            rr_ex1_q, id_rr_q, if_id_q>>

\* No instruction is lost, duplicated or reordered, and nothing fetched past
\* a redirect overtakes it: whatever stalls, flushes and redirects coincide,
\* the oldest instruction is the next to retire, each other one the successor
\* of the one ahead of it, and only wrong-path ones follow a wrong-path one.
InProgramOrder ==
  \A i \in 1 .. 8 : Flight[i].valid =>
    \/ Flight[i].pc = Wrong
    \/ /\ Flight[i].pc = retired + 1
       /\ \A k \in 1 .. (i - 1) : ~Flight[k].valid
    \/ \E j \in 1 .. (i - 1) :
         /\ Flight[j].valid /\ Flight[j].pc # Wrong
         /\ Flight[i].pc = Flight[j].pc + 1
         /\ \A k \in (j + 1) .. (i - 1) : ~Flight[k].valid

\* A wrong-path instruction never reaches MEM2, where the LSU performs the
\* access and traps are raised.
NoWrongPathAtMem2 == mem1_mem2_q.valid => mem1_mem2_q.pc # Wrong

(***************************************************************************)
(* Three coincidences at which the stall and redirect control loses        *)
(* something: a load-use stall outranks the multiply stall, so EX1 takes   *)
(* the next instruction while EX2 holds and MEM1 takes EX2's again; a MEM2 *)
(* redirect leaves MEM2 in a cycle in which the multiply stall keeps it    *)
(* from being registered; IF/ID is cleared behind a predicted-taken branch *)
(* that a load-use stall keeps there.                                      *)
(***************************************************************************)
MulLost(stall) == muldiv_stall /\ hazard(stall) \in {"id_stall", "rr_stall"}
TrapLost(stall) == muldiv_stall /\ mem_redirect_d /\ hazard(stall) = "redirect"
BranchLost(stall) == pred_taken_q /\ hazard(stall) = "id_stall"

Lost == \E stall \in BOOLEAN :
          MulLost(stall) \/ TrapLost(stall) \/ BranchLost(stall)

\* A multiplication starts in the cycle in which the refetch behind a FENCE.I
\* clears it from EX1: the unit goes on, and its answer has no owner.
FenceLost == fence_i_redirect_q /\ req_i(FALSE)

\* As long as none of the three coincidences happens, the pipeline keeps
\* program order and squashes every wrong path before MEM2, whatever is
\* predicted and mispredicted in direction and target.
OrderUnlessLost == []~Lost => [](InProgramOrder /\ NoWrongPathAtMem2)

\* The producer of the EX1 occupant's operand is the CSR read just ahead of
\* it: FWD_EX1_NOW has no CSR arm (the documented erratum, issue 110).
Erratum110 == /\ rr_ex1_q.sel = "FWD_EX1_NOW"
              /\ is_csr(ex1_ex2_q) /\ ex1_ex2_q.pc = rr_ex1_q.want

\* The operand an instruction takes into EX1 is the value of the last
\* instruction before it in program order that writes the register, save for
\* the documented erratum.
FreshOperand == rr_ex1_q.valid /\ rr_ex1_q.pc > 0 /\ rr_ex1_q.rs # 0
                  => rr_ex1_q.opnd = rr_ex1_q.want \/ Erratum110

\* A multiplication leaves EX1 with its own result: the multiplier, which no
\* flush stops, never hands one instruction the result of another.
OwnResult == ex1_ex2_q.valid /\ is_muldiv(ex1_ex2_q) /\ ex1_ex2_q.pc > 0
               => ex1_ex2_q.res = ex1_ex2_q.pc

\* A valid instruction leaves WB without the strobe that commits its CSR write
\* or takes its trap.
StrobeLost(stall) == mem_wb_q.valid /\ back_en(hazard(stall)) /\ ~retire_advance(stall)

\* Only a wrong-path multiplication behind a registered redirect makes the
\* oldest instruction lose its strobe, and one redirect, which that stall
\* keeps registered for a second cycle, does so to one instruction only.
StrobeLostOnce ==
  [][\A stall, next \in BOOLEAN :
       StrobeLost(stall) => /\ redirect_q /\ rr_ex1_q.pc = Wrong
                            /\ mem_wb_q' = mem_wb_q \/ ~StrobeLost(next)']_vars

\* A CSR access or xRET reads the CSR file after every older CSR write has
\* committed at WB.
FreshCsr == ex1_ex2_q.pc > 0 /\ uses_csr(ex1_ex2_q) => ex1_ex2_q.cval = ex1_ex2_q.cwant

\* The RR-stage CSR stall (priority 3b) never decides a cycle: the ID-stage
\* stall keeps every CSR user out of RR until older CSR writes are at WB.
RrStallUnreachable == \A stall \in BOOLEAN : hazard(stall) # "rr_stall"

\* Every instruction of the program that is fetched eventually retires: the
\* stalls, the redirect exemption of the fetch stall and the CSR waits never
\* lock each other out.
EventuallyRetires ==
  \A n \in 1 .. MaxInstr : if_id_q.valid /\ if_id_q.pc = n ~> retired >= n

-----------------------------------------------------------------------------
(* What the comments and documents say, and the code does not do. *)

\* "muldiv_stall freezes the entire pipeline while asserted", except under a
\* redirect: a multiplication stays in EX1 until it is answered.
MulFreezes == \A stall \in BOOLEAN :
  muldiv_stall /\ ~redirect_q => hazard(stall) = "hold"

\* "When combined_stall fires the same cycle mem_redirect_d asserts, mem_wb_en
\* is 0": the instruction that redirects waits in MEM2 for its redirect.
CauserWaits == \A stall \in BOOLEAN :
  mem_redirect_d /\ combined_stall(stall) => ~back_en(hazard(stall))

\* The retirement strobe "fires in the cycle that mem_wb_q advances past WB":
\* no valid instruction leaves WB without it.
RetiresOnLeaving == \A stall \in BOOLEAN : ~StrobeLost(stall)

\* A predicted-taken branch in IF/ID is held there or latched by the next
\* register before IF/ID is cleared behind it.
PredictedBranchKept ==
  [][pred_taken_q /\ if_id_q.valid /\ ~redirect_q
       => if_id_q' = if_id_q \/ (id_rr_q'.valid /\ id_rr_q'.pc = if_id_q.pc)]_vars

\* Every fault bit that reaches MEM2 on the program's path raises the MEM2
\* redirect, the pending interrupt included.
FaultRedirects == mem1_mem2_q.pc > 0 /\ mem1_mem2_q.mem_redir => mem_redirect_d
=============================================================================
