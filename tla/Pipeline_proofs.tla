--------------------------- MODULE Pipeline_proofs --------------------------
(***************************************************************************)
(* Theorems about the pipeline for every register set, every mix of        *)
(* instruction classes and every bound: its types, the CSR stall that      *)
(* never decides, retirement strobes, program order, and which results     *)
(* and CSR values an instruction reads.                                    *)
(***************************************************************************)
EXTENDS Pipeline, TLAPS

\* The cleared register is a register.
LEMMA BubbleType == Bubble \in Latch
  BY RegAssumption DEF Bubble, Latch, AllKinds, FwdSel, NoPc

\* The filler is an instruction.
LEMMA FillerType == Filler \in Shape
  BY RegAssumption DEF Filler, Shape, AllKinds

\* Whatever is presented is a well-formed instruction.
LEMMA PresentedType == \A stall : Presented(stall) \subseteq Shape
  BY FillerType DEF Presented, Shapes

\* The flush of the front end by a FENCE.I is a bit.
LEMMA PulsesType == \A stall \in BOOLEAN : Pulses(stall) \subseteq BOOLEAN
  BY DEF Pulses

\* kronos_forward only produces selects the bypass mux decodes.
LEMMA SelectType ==
  ASSUME NEW rs, NEW a, NEW b, NEW c, NEW d, NEW e, NEW f
  PROVE  fwd_sel(rs, a, b, c, d, e, f) \in FwdSel
  BY DEF fwd_sel, FwdSel

\* The next position is a position.
LEMMA NextPcType == ASSUME NEW pc \in Int PROVE NextPc(pc) \in Int
  BY DEF NextPc, Wrong

\* Moving a register on, with a changed field, keeps its type.
LEMMA LatchUpdates ==
  ASSUME NEW p \in Latch
  PROVE  /\ \A v \in BOOLEAN : [p EXCEPT !.valid = v] \in Latch
         /\ \A x \in FwdSel : [p EXCEPT !.sel = x] \in Latch
         /\ \A x \in Int : [p EXCEPT !.opnd = x] \in Latch
  BY DEF Latch

\* Every result bus and the bypassed operand carry a value.
LEMMA ValuesType ==
  ASSUME TypeOK
  PROVE  /\ ex_result \in Int
         /\ \A p \in Latch : slot_value(p) \in Int
         /\ wb_result \in Int
         /\ rs_data_rr \in Int
         /\ rs_bypassed \in Int
<1>1. ex_result \in Int
  BY DEF TypeOK, ex_result, Latch, NoValue
<1>2. \A p \in Latch : slot_value(p) \in Int
  BY DEF slot_value, Latch
<1>3. wb_result \in Int
  BY DEF TypeOK, wb_result, Latch
<1>4. rs_data_rr \in Int
  BY <1>3 DEF TypeOK, rs_data_rr, Latch
<1>5. rs_bypassed \in Int
  BY <1>1, <1>2, <1>3, <1>4 DEF TypeOK, rs_bypassed
<1>6. QED
  BY <1>1, <1>2, <1>3, <1>4, <1>5

\* What IF/ID captures.
LEMMA IfIdType ==
  ASSUME TypeOK, NEW s \in Shape
  PROVE  IfId(s) \in Latch
<1>1. /\ writer[s.rs] \in Int /\ csr_writer \in Int /\ fetch_pc \in Int
      /\ align_instr_valid \in BOOLEAN
  BY DEF TypeOK, Shape
<1>2. /\ s.kind \in AllKinds /\ s.rd \in Reg /\ s.rs \in Reg
      /\ s.dir_miss \in BOOLEAN /\ s.mem_redir \in BOOLEAN
  BY DEF Shape
<1>3. QED
  BY <1>1, <1>2, BubbleType DEF IfId, Latch

\* What EX2 captures.
LEMMA Ex2Type ==
  ASSUME TypeOK, NEW stall \in BOOLEAN, NEW irq \in BOOLEAN
  PROVE  Ex1Ex2Next(stall, irq) \in Latch
<1>1. rr_ex1_q \in Latch /\ ex1_ex2_q \in Latch /\ csr_file \in Int /\ ex_result \in Int
  BY ValuesType DEF TypeOK
<1>2. [rr_ex1_q EXCEPT !.valid = rr_ex1_q.valid /\ ~irq,
                       !.dir_miss = rr_ex1_q.valid /\ rr_ex1_q.dir_miss,
                       !.mem_redir = rr_ex1_q.mem_redir \/ irq,
                       !.res = ex_result, !.cval = csr_file] \in Latch
  BY <1>1 DEF Latch
<1>3. QED
  BY <1>1, <1>2, BubbleType DEF Ex1Ex2Next

\* Every pipeline register is again a register after the edge.
LEMMA StagesType ==
  ASSUME TypeOK, NEW stall \in BOOLEAN, NEW irq \in BOOLEAN, NEW s \in Shape, NEW m,
         Stages(m, stall, irq, s)
  PROVE  /\ if_id_q' \in Latch /\ id_rr_q' \in Latch /\ rr_ex1_q' \in Latch
         /\ ex1_ex2_q' \in Latch /\ ex2_mem1_q' \in Latch /\ mem1_mem1b_q' \in Latch
         /\ mem1_mem2_q' \in Latch /\ mem_wb_q' \in Latch
<1>1. \A p \in Latch : MoveLive(p) \in Latch
  BY DEF MoveLive, Latch
<1>2. if_id_q' \in Latch
  BY IfIdType, BubbleType DEF TypeOK, Stages, IfIdNext
<1>3. id_rr_q' \in Latch
  <2>1. id_rr_q \in Latch /\ if_id_q \in Latch
    BY DEF TypeOK
  <2>2. QED
    BY <2>1, BubbleType, SelectType, LatchUpdates DEF Stages, IdRrNext
<1>4. rr_ex1_q' \in Latch
  <2>1. id_rr_q \in Latch /\ rr_ex1_q \in Latch /\ rs_bypassed \in Int
    BY ValuesType DEF TypeOK
  <2>2. QED
    BY <2>1, BubbleType, LatchUpdates DEF Stages, RrEx1Next
<1>5. ex1_ex2_q' \in Latch
  BY Ex2Type DEF Stages
<1>6. ex2_mem1_q' \in Latch
  BY BubbleType DEF TypeOK, Stages, Ex2Mem1Next
<1>7. mem1_mem1b_q' \in Latch /\ mem1_mem2_q' \in Latch /\ mem_wb_q' \in Latch
  BY <1>1, BubbleType DEF TypeOK, Stages, Mem1Mem1bNext, Mem1Mem2Next, MemWbNext
<1>8. QED
  BY <1>2, <1>3, <1>4, <1>5, <1>6, <1>7

\* Every reachable state of the pipeline is well typed: no stall, flush or
\* redirect of kronos_top leaves a register with an undefined field or an
\* undecoded forward select.
THEOREM TypeCorrect == Spec => []TypeOK
<1>1. ASSUME Init
      PROVE  TypeOK
  <2>1. /\ if_id_q \in Latch /\ id_rr_q \in Latch /\ rr_ex1_q \in Latch /\ ex1_ex2_q \in Latch
        /\ ex2_mem1_q \in Latch /\ mem1_mem1b_q \in Latch /\ mem1_mem2_q \in Latch
        /\ mem_wb_q \in Latch
    BY <1>1, BubbleType DEF Init
  <2>2. /\ pred_taken_q \in BOOLEAN /\ ex_redirect_q \in BOOLEAN /\ mem_redirect_q \in BOOLEAN
        /\ fence_i_redirect_q \in BOOLEAN /\ align_instr_valid \in BOOLEAN
    BY <1>1 DEF Init
  <2>3. /\ pred_target_q \in Int /\ ex_redirect_target_q \in Int /\ mem_redirect_target_q \in Int
        /\ fetch_pc \in Int /\ csr_file \in Int /\ csr_writer \in Int
        /\ retired \in Int /\ fetched \in Nat
    BY <1>1 DEF Init, NoPc
  <2>4. md_state \in {"IDLE", "BUSY", "DONE"} /\ md_tag \in Int
    BY <1>1 DEF Init, NoValue
  <2>5. regfile \in [Reg -> Int] /\ writer \in [Reg -> Int]
    BY <1>1 DEF Init
  <2>6. QED
    BY <2>1, <2>2, <2>3, <2>4, <2>5 DEF TypeOK
<1>2. TypeOK /\ [Next]_vars => TypeOK'
  <2>1. ASSUME TypeOK, NEW stall \in BOOLEAN, NEW mem_stall \in {FALSE, stall}, NEW irq \in {FALSE, Interrupts},
               NEW s \in Presented(stall), NEW more \in BOOLEAN, NEW finish \in Finishing,
               NEW pulse \in Pulses(stall),
               Clock(stall, mem_stall, irq, s, more, finish, pulse)
        PROVE  TypeOK'
    <3> DEFINE m == hazard(stall)
    <3>1. s \in Shape /\ irq \in BOOLEAN
      BY <2>1, PresentedType, InterruptsAssumption
    <3>2. /\ if_id_q' \in Latch /\ id_rr_q' \in Latch /\ rr_ex1_q' \in Latch
          /\ ex1_ex2_q' \in Latch /\ ex2_mem1_q' \in Latch /\ mem1_mem1b_q' \in Latch
          /\ mem1_mem2_q' \in Latch /\ mem_wb_q' \in Latch
      BY <2>1, <3>1, StagesType DEF Clock
    <3>3. fetch_pc' \in Int /\ pred_target_q' \in Int
      BY <2>1, NextPcType DEF TypeOK, Clock, FrontEnd, redirect_target, Successor, Predicted, Wrong
    <3>4. align_instr_valid' \in BOOLEAN /\ pred_taken_q' \in BOOLEAN
      BY <2>1 DEF TypeOK, Clock, FrontEnd
    <3>5. fence_i_redirect_q' \in BOOLEAN
      BY <2>1, PulsesType DEF TypeOK, Clock, FenceRedirect
    <3>6. /\ ex_redirect_q' \in BOOLEAN /\ mem_redirect_q' \in BOOLEAN
          /\ ex_redirect_target_q' \in Int /\ mem_redirect_target_q' \in Int
      BY <2>1, NextPcType DEF TypeOK, Clock, ExRedirect, MemRedirect, ex_pc_d, Wrong, ex_redirect_d, mem_redirect_d, Latch
    <3>7. md_state' \in {"IDLE", "BUSY", "DONE"} /\ md_tag' \in Int
      BY <2>1 DEF TypeOK, Clock, Muldiv, Latch
    <3>8. regfile' \in [Reg -> Int] /\ csr_file' \in Int
      BY <2>1, ValuesType DEF TypeOK, Clock, Retire, Latch
    <3>9. writer' \in [Reg -> Int] /\ csr_writer' \in Int /\ fetched' \in Nat
      BY <2>1, <3>1 DEF TypeOK, Clock, ProgramOrder, Shape
    <3>10. retired' \in Int
      BY <2>1 DEF TypeOK, Clock, Latch
    <3>11. QED
      BY <3>2, <3>3, <3>4, <3>5, <3>6, <3>7, <3>8, <3>9, <3>10 DEF TypeOK
  <2>2. ASSUME TypeOK, UNCHANGED vars
        PROVE  TypeOK'
    BY <2>2 DEF TypeOK, vars, stages, redirects, ghosts
  <2>3. QED
    BY <2>1, <2>2, ZenonT(60) DEF Next
<1>3. QED
  BY <1>1, <1>2, PTL DEF Spec

-----------------------------------------------------------------------------
(* The CSR interlock. *)

\* A CSR instruction in flight ahead of RR.
CsrAhead == \E p \in {rr_ex1_q, ex1_ex2_q, ex2_mem1_q, mem1_mem1b_q, mem1_mem2_q} :
              p.valid /\ is_csr(p)

\* The inductive strengthening of RrStallUnreachable: a CSR user in RR has no
\* CSR instruction ahead of it before WB.
RrQuiet == uses_csr(id_rr_q) => ~CsrAhead

\* A valid CSR instruction ahead of RR after the edge was ahead of ID before.
LEMMA CsrComesFromAhead ==
  ASSUME TypeOK, NEW stall \in BOOLEAN, NEW irq \in BOOLEAN, NEW s, NEW m,
         Stages(m, stall, irq, s), CsrAhead'
  PROVE  \/ CsrAhead
         \/ id_rr_q.valid /\ is_csr(id_rr_q) /\ rr_ex1_en(m)
<1> DEFINE Live(p) == p.valid /\ is_csr(p)
<1>1. Live(rr_ex1_q') => Live(rr_ex1_q) \/ (Live(id_rr_q) /\ rr_ex1_en(m))
  BY DEF TypeOK, Latch, Stages, RrEx1Next, Bubble, is_csr
<1>2. Live(ex1_ex2_q') => Live(rr_ex1_q) \/ Live(ex1_ex2_q)
  BY DEF TypeOK, Latch, Stages, Ex1Ex2Next, Bubble, is_csr
<1>3. Live(ex2_mem1_q') => Live(ex1_ex2_q) \/ Live(ex2_mem1_q)
  BY DEF Stages, Ex2Mem1Next, Bubble, is_csr
<1>4. Live(mem1_mem1b_q') => Live(ex2_mem1_q) \/ Live(mem1_mem1b_q)
  BY DEF TypeOK, Latch, Stages, Mem1Mem1bNext, MoveLive, Bubble, is_csr
<1>5. Live(mem1_mem2_q') => Live(mem1_mem1b_q) \/ Live(mem1_mem2_q)
  BY DEF TypeOK, Latch, Stages, Mem1Mem2Next, MoveLive, Bubble, is_csr
<1>6. \/ Live(rr_ex1_q') \/ Live(ex1_ex2_q') \/ Live(ex2_mem1_q') \/ Live(mem1_mem1b_q')
      \/ Live(mem1_mem2_q')
  BY DEF CsrAhead, is_csr
<1>7. QED
  BY <1>1, <1>2, <1>3, <1>4, <1>5, <1>6 DEF CsrAhead

\* One clock edge keeps RrQuiet.
LEMMA RrQuietStep ==
  ASSUME TypeOK, RrQuiet, NEW stall \in BOOLEAN, NEW irq \in BOOLEAN, NEW s \in Shape,
         Stages(hazard(stall), stall, irq, s)
  PROVE  RrQuiet'
<1> DEFINE m == hazard(stall)
<1> SUFFICES ASSUME uses_csr(id_rr_q'), CsrAhead'
             PROVE  FALSE
  BY DEF RrQuiet, uses_csr
<1>1. CsrAhead \/ (id_rr_q.valid /\ is_csr(id_rr_q) /\ rr_ex1_en(m))
  BY CsrComesFromAhead
<1>2. CASE id_rr_flush(m)
  <2>1. id_rr_q' = Bubble
    BY <1>2 DEF Stages, IdRrNext
  <2>2. QED
    BY <2>1 DEF uses_csr, Bubble
<1>3. CASE ~id_rr_flush(m) /\ ~front_en(m)
  <2>1. id_rr_q' = id_rr_q
    BY <1>3 DEF Stages, IdRrNext
  <2>2. ~rr_ex1_en(m)
    BY <1>3 DEF front_en, id_rr_flush, rr_ex1_en
  <2>3. QED
    BY <1>1, <2>1, <2>2 DEF RrQuiet, uses_csr
<1>4. CASE ~id_rr_flush(m) /\ front_en(m)
  <2>1. m = "advance"
    BY <1>4 DEF front_en, id_rr_flush
  <2>2. ~raw_stall_id
    BY <2>1 DEF hazard, mode
  <2>3. ~csr_raw_stall(if_id_q, {id_rr_q, rr_ex1_q, ex1_ex2_q, ex2_mem1_q,
                                 mem1_mem1b_q, mem1_mem2_q})
    BY <2>2 DEF raw_stall_id
  <2>4. id_rr_q'.valid = if_id_q.valid /\ id_rr_q'.kind = if_id_q.kind
    BY <1>4 DEF TypeOK, Latch, Stages, IdRrNext
  <2>5. uses_csr(if_id_q)
    BY <2>4 DEF uses_csr
  <2>6. QED
    BY <1>1, <2>3, <2>5 DEF csr_raw_stall, CsrAhead
<1>5. QED
  BY <1>2, <1>3, <1>4

\* RrQuiet is an invariant of the pipeline, whatever the program.
THEOREM CsrUsersQuiet == Spec => []RrQuiet
<1>1. Init => RrQuiet
  BY DEF Init, RrQuiet, uses_csr, Bubble
<1>2. TypeOK /\ RrQuiet /\ [Next]_vars => RrQuiet'
  <2>1. ASSUME TypeOK, RrQuiet,
               NEW stall \in BOOLEAN, NEW mem_stall \in {FALSE, stall}, NEW irq \in {FALSE, Interrupts},
               NEW s \in Presented(stall), NEW more \in BOOLEAN, NEW finish \in Finishing,
               NEW pulse \in Pulses(stall),
               Clock(stall, mem_stall, irq, s, more, finish, pulse)
        PROVE  RrQuiet'
    <3>1. s \in Shape /\ irq \in BOOLEAN
      BY PresentedType, InterruptsAssumption
    <3>2. QED
      BY <2>1, <3>1, RrQuietStep DEF Clock
  <2>2. ASSUME RrQuiet, UNCHANGED vars
        PROVE  RrQuiet'
    BY <2>2 DEF RrQuiet, CsrAhead, uses_csr, is_csr, vars, stages
  <2>3. QED
    BY <2>1, <2>2, ZenonT(60) DEF Next
<1>3. QED
  BY <1>1, <1>2, TypeCorrect, PTL DEF Spec

\* kronos_hazard's priority 3b, the RR-stage CSR stall, never decides a
\* cycle: in every program, on every interleaving of stalls and redirects,
\* the ID-stage stall has already kept CSR users out of RR.
THEOREM RrStallNeverDecides == Spec => []RrStallUnreachable
<1>1. RrQuiet => RrStallUnreachable
  <2> SUFFICES ASSUME RrQuiet, NEW stall \in BOOLEAN
               PROVE  hazard(stall) # "rr_stall"
    BY DEF RrStallUnreachable
  <2>1. ~raw_stall_rr
    BY DEF RrQuiet, CsrAhead, raw_stall_rr, csr_raw_stall
  <2>2. QED
    BY <2>1 DEF hazard, mode
<1>2. QED
  BY <1>1, CsrUsersQuiet, PTL

-----------------------------------------------------------------------------
(* The retirement strobe. *)

\* No multiplication is anywhere in the pipeline's issue stages.
NoMul == ~is_muldiv(if_id_q) /\ ~is_muldiv(id_rr_q) /\ ~is_muldiv(rr_ex1_q)

\* A program without multiplications keeps them out of EX1.
LEMMA NoMulStep ==
  ASSUME "MUL" \notin Kinds, TypeOK, NoMul,
         NEW stall \in BOOLEAN, NEW irq \in BOOLEAN, NEW s \in Presented(stall), NEW m,
         Stages(m, stall, irq, s)
  PROVE  NoMul'
<1>1. s.kind # "MUL"
  BY DEF Presented, Shapes, Filler
<1>2. ~is_muldiv(Bubble)
  BY DEF is_muldiv, Bubble
<1>3. ~is_muldiv(IfId(s))
  BY <1>1 DEF is_muldiv, IfId, Bubble
<1>4. ~is_muldiv(if_id_q')
  BY <1>2, <1>3 DEF Stages, IfIdNext, NoMul
<1>5. ~is_muldiv(id_rr_q')
  BY <1>2 DEF Stages, IdRrNext, NoMul, is_muldiv, TypeOK, Latch
<1>6. ~is_muldiv(rr_ex1_q')
  BY <1>2 DEF Stages, RrEx1Next, NoMul, is_muldiv, TypeOK, Latch
<1>7. QED
  BY <1>4, <1>5, <1>6 DEF NoMul, is_muldiv

\* Without multiplications the strobe of an instruction leaving WB comes with it:
\* the multiply stall is the only one under which WB moves.
LEMMA RetiresWithoutMul ==
  ASSUME "MUL" \notin Kinds
  PROVE  Spec => []RetiresOnLeaving
<1>1. Init => NoMul
  BY DEF Init, NoMul, is_muldiv, Bubble
<1>2. TypeOK /\ NoMul /\ [Next]_vars => NoMul'
  <2>1. ASSUME TypeOK, NoMul,
               NEW stall \in BOOLEAN, NEW mem_stall \in {FALSE, stall}, NEW irq \in {FALSE, Interrupts},
               NEW s \in Presented(stall), NEW more \in BOOLEAN, NEW finish \in Finishing,
               NEW pulse \in Pulses(stall),
               Clock(stall, mem_stall, irq, s, more, finish, pulse)
        PROVE  NoMul'
    <3>1. irq \in BOOLEAN
      BY InterruptsAssumption
    <3>2. QED
      BY <2>1, <3>1, NoMulStep DEF Clock
  <2>2. ASSUME NoMul, UNCHANGED vars
        PROVE  NoMul'
    BY <2>2 DEF NoMul, is_muldiv, vars, stages
  <2>3. QED
    BY <2>1, <2>2, ZenonT(60) DEF Next
<1>3. NoMul => RetiresOnLeaving
  <2> SUFFICES ASSUME NoMul, NEW stall \in BOOLEAN, mem_wb_q.valid,
                      back_en(hazard(stall))
               PROVE  retire_advance(stall)
    BY DEF RetiresOnLeaving, StrobeLost
  <2>1. ~muldiv_stall
    BY DEF NoMul, muldiv_stall
  <2>2. ~stall /\ ~instr_fetch_stall
    BY DEF back_en, hazard, mode
  <2>3. QED
    BY <2>1, <2>2 DEF retire_advance, combined_stall
<1>4. QED
  BY <1>1, <1>2, <1>3, TypeCorrect, PTL DEF Spec

-----------------------------------------------------------------------------
(***************************************************************************)
(* Program order and squashing.  The position each stage is due to hold is *)
(* threaded from WB towards fetch: it starts after the last retired        *)
(* instruction, steps on behind every valid one, and is Wrong behind one   *)
(* whose redirect is still to come.                                        *)
(***************************************************************************)

\* The position due behind p: p is in WB and has redirected already; in MEM1 to
\* MEM2, where its MEM2 redirect is still to come; or in ID to EX2, where both are.
PastWb(e, p) == IF p.valid THEN NextPc(e) ELSE e
PastMem(e, p) == IF ~p.valid THEN e ELSE IF p.mem_redir THEN Wrong ELSE NextPc(e)
PastEx(e, p) == IF ~p.valid THEN e ELSE IF p.mem_redir \/ p.dir_miss THEN Wrong ELSE NextPc(e)

At(e, p) == p.valid => p.pc = e

DueWb == retired + 1
DueMem2 == PastWb(DueWb, mem_wb_q)
DueMem1b == PastMem(DueMem2, mem1_mem2_q)
DueMem1 == PastMem(DueMem1b, mem1_mem1b_q)
DueEx2 == PastMem(DueMem1, ex2_mem1_q)
DueEx1 == PastEx(DueEx2, ex1_ex2_q)
DueRr == PastEx(DueEx1, rr_ex1_q)
DueId == PastEx(DueRr, id_rr_q)
DueFetch == PastEx(DueId, if_id_q)

\* From EX2 on, every stage holds what is due.
BackFlow == /\ retired >= 0
            /\ At(DueWb, mem_wb_q) /\ At(DueMem2, mem1_mem2_q) /\ At(DueMem1b, mem1_mem1b_q)
            /\ At(DueMem1, ex2_mem1_q) /\ At(DueEx2, ex1_ex2_q)

\* A registered redirect has an empty pipeline behind it up to EX2, and leads to
\* what is due there.
RedirectFlow ==
  /\ ex1_ex2_q.dir_miss => ex1_ex2_q.valid
  /\ ex_redirect_q => ~ex1_ex2_q.valid
  /\ mem_redirect_q => /\ ~mem1_mem2_q.valid /\ ~mem1_mem1b_q.valid
                       /\ ~ex2_mem1_q.valid /\ ~ex1_ex2_q.valid
                       /\ mem_redirect_target_q = DueMem2
  /\ ex_redirect_q /\ ~mem_redirect_q => ex_redirect_target_q = DueEx2

\* Up to EX1 the stages hold what is due, and fetch goes on with it; behind a
\* registered redirect they hold the wrong path.
FrontFlow ==
  IF ex_redirect_q \/ mem_redirect_q
  THEN At(Wrong, rr_ex1_q) /\ At(Wrong, id_rr_q) /\ At(Wrong, if_id_q)
  ELSE /\ At(DueEx1, rr_ex1_q) /\ At(DueRr, id_rr_q) /\ At(DueId, if_id_q)
       /\ DueFetch = IF pred_taken_q THEN pred_target_q ELSE fetch_pc

\* A FENCE.I traps, so the refetch behind it finds the wrong path due at EX2.
Traps(p) == is_fence_i(p) => p.mem_redir
FenceFlow ==
  /\ Traps(if_id_q) /\ Traps(id_rr_q) /\ Traps(rr_ex1_q) /\ Traps(ex1_ex2_q)
  /\ fence_i_redirect_q /\ ~mem_redirect_q => DueEx2 = Wrong

OrderFlow == BackFlow /\ RedirectFlow /\ FrontFlow
Flow == OrderFlow /\ FenceFlow

\* q holds p's instruction.
Like(q, p) == /\ q.valid = p.valid /\ q.pc = p.pc
              /\ q.mem_redir = p.mem_redir /\ q.dir_miss = p.dir_miss

\* What is due depends on the instruction only.
LEMMA LikeDue ==
  ASSUME NEW p, NEW q, Like(q, p), NEW e
  PROVE  /\ PastWb(e, q) = PastWb(e, p) /\ PastMem(e, q) = PastMem(e, p)
         /\ PastEx(e, q) = PastEx(e, p) /\ (At(e, p) => At(e, q))
  BY DEF Like, PastWb, PastMem, PastEx, At

\* An empty stage changes nothing, and behind the wrong path all is wrong path.
LEMMA EmptyDue ==
  ASSUME NEW p, NEW e
  PROVE  /\ ~p.valid => PastWb(e, p) = e /\ PastMem(e, p) = e /\ PastEx(e, p) = e /\ At(e, p)
         /\ PastMem(Wrong, p) = Wrong /\ PastEx(Wrong, p) = Wrong
  BY DEF PastWb, PastMem, PastEx, At, NextPc

\* The cleared register is empty.
LEMMA BubbleEmpty == ~Bubble.valid /\ ~Bubble.dir_miss
  BY DEF Bubble

\* What the priority chain decides, when nothing is lost.
LEMMA Modes ==
  ASSUME TypeOK, ~Lost, NEW stall \in BOOLEAN
  PROVE  LET m == hazard(stall)
         IN  /\ m \in {"hold", "redirect", "id_stall", "rr_stall", "advance"}
             /\ m = "hold" => combined_stall(stall)
             /\ m = "redirect" => redirect_q
             /\ m = "redirect" /\ combined_stall(stall) => ~mem_redirect_d
             /\ m \in {"id_stall", "rr_stall", "advance"} =>
                  ~redirect_q /\ ~combined_stall(stall)
             /\ m = "id_stall" => ~pred_taken_q
             /\ m = "advance" => align_instr_valid \/ pred_taken_q
<1> DEFINE m == hazard(stall)
<1>1. ~MulLost(stall) /\ ~TrapLost(stall) /\ ~BranchLost(stall)
  BY DEF Lost
<1>2. /\ m \in {"hold", "redirect", "id_stall", "rr_stall", "advance"}
      /\ m = "hold" => stall \/ instr_fetch_stall \/ muldiv_stall
      /\ m # "hold" => ~stall /\ ~instr_fetch_stall
      /\ m = "redirect" => redirect_q
      /\ m \in {"id_stall", "rr_stall", "advance"} => ~redirect_q
      /\ m = "advance" => ~muldiv_stall
  BY DEF hazard, mode
<1>3. m \in {"id_stall", "rr_stall", "redirect"} => (combined_stall(stall) <=> muldiv_stall)
  BY <1>2 DEF combined_stall
<1>4. m = "advance" => ~combined_stall(stall)
  BY <1>2 DEF combined_stall
<1>5. m = "advance" => align_instr_valid \/ pred_taken_q
  BY <1>2 DEF instr_fetch_stall, redirect_load
<1>6. m = "hold" => combined_stall(stall)
  BY <1>2 DEF combined_stall
<1>7. QED
  BY <1>1, <1>2, <1>3, <1>4, <1>5, <1>6 DEF MulLost, TrapLost, BranchLost

\* A step of WB: the instruction there retires, and the one in MEM2 follows.
LEMMA WbMoves ==
  ASSUME TypeOK, BackFlow, NEW stall \in BOOLEAN, NEW s, NEW m, m # "hold",
         Stages(m, stall, FALSE, s),
         retired' = IF mem_wb_q.valid /\ back_en(m) THEN mem_wb_q.pc ELSE retired
  PROVE  /\ retired' \in Int /\ retired' >= 0
         /\ DueWb' = DueMem2 /\ mem_wb_q' = mem1_mem2_q
         /\ At(DueWb, mem_wb_q)' /\ DueMem2' = PastWb(DueMem2, mem1_mem2_q)
<1>1. back_en(m)
  BY DEF back_en
<1>2. mem_wb_q' = mem1_mem2_q
  BY <1>1 DEF Stages, MemWbNext
<1>3. retired \in Int /\ retired >= 0 /\ mem_wb_q.valid \in BOOLEAN
  BY DEF TypeOK, BackFlow, Latch
<1>4. CASE mem_wb_q.valid
  <2>1. mem_wb_q.pc = retired + 1 /\ retired' = retired + 1
    BY <1>1, <1>4 DEF BackFlow, At, DueWb
  <2>2. DueMem2 = retired + 2
    BY <1>3, <1>4 DEF DueMem2, DueWb, PastWb, NextPc, Wrong
  <2>3. QED
    BY <1>2, <1>3, <2>1, <2>2 DEF DueWb, DueMem2, BackFlow, At
<1>5. CASE ~mem_wb_q.valid
  <2>1. retired' = retired /\ DueMem2 = retired + 1
    BY <1>5 DEF DueMem2, DueWb, PastWb
  <2>2. QED
    BY <1>2, <1>3, <2>1 DEF DueWb, DueMem2, BackFlow, At
<1>6. QED
  BY <1>3, <1>4, <1>5

\* A step of the memory stages without a MEM2 redirect.
LEMMA BackMoves ==
  ASSUME TypeOK, BackFlow, NEW stall \in BOOLEAN, NEW s, NEW m, m # "hold",
         Stages(m, stall, FALSE, s), ~mem_redirect_any,
         retired' = IF mem_wb_q.valid /\ back_en(m) THEN mem_wb_q.pc ELSE retired
  PROVE  /\ DueMem2' = DueMem1b /\ DueMem1b' = DueMem1 /\ DueMem1' = DueEx2
         /\ DueEx2' = PastMem(DueEx2, ex1_ex2_q)
         /\ retired' >= 0 /\ At(DueWb, mem_wb_q)' /\ At(DueMem2, mem1_mem2_q)'
         /\ At(DueMem1b, mem1_mem1b_q)' /\ At(DueMem1, ex2_mem1_q)'
<1>1. back_en(m) /\ ~mem_kill(stall)
  BY DEF back_en, mem_kill
<1>2. Like(mem1_mem2_q', mem1_mem1b_q) /\ Like(mem1_mem1b_q', ex2_mem1_q)
  BY <1>1 DEF TypeOK, Latch, Stages, Mem1Mem1bNext, Mem1Mem2Next, MoveLive, Like
<1>3. ex2_mem1_q' = ex1_ex2_q
  BY <1>1 DEF Stages, Ex2Mem1Next
<1>4. PastWb(DueMem2, mem1_mem2_q) = DueMem1b
  BY DEF DueMem1b, PastWb, PastMem, mem_redirect_any, mem_redirect_d
<1>5. DueMem2' = DueMem1b /\ retired' >= 0 /\ At(DueWb, mem_wb_q)'
  BY <1>4, WbMoves
<1>6. DueMem1b' = DueMem1
  BY <1>2, <1>5, LikeDue DEF DueMem1b, DueMem1
<1>7. DueMem1' = DueEx2
  BY <1>2, <1>6, LikeDue DEF DueMem1, DueEx2
<1>8. DueEx2' = PastMem(DueEx2, ex1_ex2_q)
  BY <1>3, <1>7 DEF DueEx2
<1>9. At(DueMem2, mem1_mem2_q)' /\ At(DueMem1b, mem1_mem1b_q)' /\ At(DueMem1, ex2_mem1_q)'
  BY <1>2, <1>3, <1>5, <1>6, <1>7 DEF Like, At, BackFlow
<1>10. QED
  BY <1>5, <1>6, <1>7, <1>8, <1>9

\* A step under a MEM2 redirect empties the memory stages and EX2.
LEMMA BackKilled ==
  ASSUME TypeOK, BackFlow, NEW stall \in BOOLEAN, NEW s, NEW m, m # "hold",
         Stages(m, stall, FALSE, s), mem_redirect_any,
         retired' = IF mem_wb_q.valid /\ back_en(m) THEN mem_wb_q.pc ELSE retired
  PROVE  /\ ~mem1_mem2_q.valid' /\ ~mem1_mem1b_q.valid' /\ ~ex2_mem1_q.valid'
         /\ ex1_ex2_q' = Bubble
         /\ DueMem2' = PastWb(DueMem2, mem1_mem2_q)
         /\ DueMem1b' = DueMem2' /\ DueMem1' = DueMem2' /\ DueEx2' = DueMem2' /\ DueEx1' = DueMem2'
         /\ BackFlow'
<1>1. back_en(m)
  BY DEF back_en
<1>2. ~mem1_mem2_q.valid' /\ ~mem1_mem1b_q.valid'
  BY <1>1 DEF TypeOK, Latch, Stages, Mem1Mem1bNext, Mem1Mem2Next, MoveLive, Bubble
<1>3. ~ex2_mem1_q.valid' /\ ex1_ex2_q' = Bubble /\ ~ex1_ex2_q.valid'
  BY BubbleEmpty DEF Stages, Ex2Mem1Next, Ex1Ex2Next, ex1_ex2_flush
<1>4. DueMem2' = PastWb(DueMem2, mem1_mem2_q) /\ retired' >= 0 /\ At(DueWb, mem_wb_q)'
  BY WbMoves
<1>5. DueMem1b' = DueMem2' /\ DueMem1' = DueMem2' /\ DueEx2' = DueMem2' /\ DueEx1' = DueMem2'
  BY <1>2, <1>3 DEF DueMem1b, DueMem1, DueEx2, DueEx1, PastMem, PastEx
<1>6. QED
  BY <1>2, <1>3, <1>4, <1>5 DEF BackFlow, At

\* Behind a MEM2 redirect that is not registered yet, everything is wrong path.
LEMMA WrongBehindMem2 ==
  ASSUME TypeOK, Flow, mem_redirect_d
  PROVE  /\ DueMem1b = Wrong /\ DueMem1 = Wrong /\ DueEx2 = Wrong /\ DueEx1 = Wrong
         /\ DueRr = Wrong /\ DueId = Wrong /\ DueFetch = Wrong /\ ~mem_redirect_q
<1>1. DueMem1b = Wrong /\ ~mem_redirect_q
  BY DEF mem_redirect_d, DueMem1b, PastMem, Flow, OrderFlow, RedirectFlow
<1>2. QED
  BY <1>1, EmptyDue DEF DueMem1, DueEx2, DueEx1, DueRr, DueId, DueFetch

\* The same behind a direction mispredict in EX2.
LEMMA WrongBehindEx2 ==
  ASSUME TypeOK, Flow, ex_redirect_d
  PROVE  DueEx1 = Wrong /\ DueRr = Wrong /\ DueId = Wrong /\ DueFetch = Wrong
<1>1. DueEx1 = Wrong
  BY DEF ex_redirect_d, DueEx1, PastEx, Flow, OrderFlow, RedirectFlow
<1>2. QED
  BY <1>1, EmptyDue DEF DueRr, DueId, DueFetch

\* A cycle in which nothing moves: a MEM2 redirect may still clear MEM1 and EX2.
LEMMA HoldFlow ==
  ASSUME TypeOK, Flow, NEW stall \in BOOLEAN, NEW mem_stall, NEW s, NEW more, NEW finish,
         NEW pulse, Clock(stall, mem_stall, FALSE, s, more, finish, pulse),
         hazard(stall) = "hold", combined_stall(stall)
  PROVE  OrderFlow' /\ DueEx2' = DueEx2
<1>1. /\ mem_wb_q' = mem_wb_q /\ mem1_mem2_q' = mem1_mem2_q /\ mem1_mem1b_q' = mem1_mem1b_q
      /\ retired' = retired
  BY DEF Clock, Stages, MemWbNext, Mem1Mem2Next, Mem1Mem1bNext, mem_kill, back_en
<1>2. rr_ex1_q' = rr_ex1_q /\ id_rr_q' = id_rr_q /\ if_id_q' = if_id_q
  BY DEF Clock, Stages, RrEx1Next, IdRrNext, IfIdNext, rr_ex1_flush, rr_ex1_en, id_rr_flush,
         front_en, if_id_flush
<1>3. /\ ex_redirect_q' = ex_redirect_q /\ ex_redirect_target_q' = ex_redirect_target_q
      /\ mem_redirect_q' = mem_redirect_q /\ mem_redirect_target_q' = mem_redirect_target_q
  BY DEF Clock, ExRedirect, MemRedirect
<1>4. ex2_mem1_q' = IF mem_redirect_any THEN Bubble ELSE ex2_mem1_q
  BY DEF Clock, Stages, Ex2Mem1Next, back_en
<1>5. ex1_ex2_q' = IF ex_redirect_q \/ mem_redirect_any THEN Bubble ELSE ex1_ex2_q
  BY DEF Clock, Stages, Ex1Ex2Next, ex1_ex2_flush
<1>6. DueWb' = DueWb /\ DueMem2' = DueMem2 /\ DueMem1b' = DueMem1b /\ DueMem1' = DueMem1
  BY <1>1 DEF DueWb, DueMem2, DueMem1b, DueMem1
<1>7. /\ DueEx2' = DueEx2 /\ At(DueMem1, ex2_mem1_q)'
      /\ DueEx1' = DueEx1 /\ At(DueEx2, ex1_ex2_q)'
  <2>1. CASE mem_redirect_d
    <3>1. ~ex2_mem1_q.valid' /\ ~ex1_ex2_q.valid'
      BY <1>4, <1>5, <2>1, BubbleEmpty DEF mem_redirect_any
    <3>2. DueEx2' = DueMem1' /\ DueEx1' = DueMem1'
      BY <3>1 DEF DueEx2, DueEx1, PastMem, PastEx
    <3>3. QED
      BY <1>6, <2>1, <3>1, <3>2, WrongBehindMem2 DEF At
  <2>2. CASE ~mem_redirect_d /\ mem_redirect_q
    <3>1. ~ex2_mem1_q.valid' /\ ~ex1_ex2_q.valid' /\ ~ex2_mem1_q.valid /\ ~ex1_ex2_q.valid
      BY <1>4, <1>5, <2>2, BubbleEmpty DEF mem_redirect_any, Flow, OrderFlow, RedirectFlow
    <3>2. QED
      BY <1>6, <3>1 DEF DueEx2, DueEx1, PastMem, PastEx, At
  <2>3. CASE ~mem_redirect_d /\ ~mem_redirect_q
    <3>1. ex2_mem1_q' = ex2_mem1_q
      BY <1>4, <2>3 DEF mem_redirect_any
    <3>2. DueEx2' = DueEx2 /\ At(DueMem1, ex2_mem1_q)'
      BY <1>6, <3>1 DEF DueEx2, Flow, OrderFlow, BackFlow, At
    <3>3. CASE ex_redirect_q
      <4>1. ~ex1_ex2_q.valid' /\ ~ex1_ex2_q.valid
        BY <1>5, <3>3, BubbleEmpty DEF Flow, OrderFlow, RedirectFlow
      <4>2. QED
        BY <3>2, <4>1 DEF DueEx1, PastEx, At
    <3>4. CASE ~ex_redirect_q
      <4>1. ex1_ex2_q' = ex1_ex2_q
        BY <1>5, <2>3, <3>4 DEF mem_redirect_any
      <4>2. QED
        BY <3>2, <4>1 DEF DueEx1, At, Flow, OrderFlow, BackFlow
    <3>5. QED
      BY <3>3, <3>4
  <2>4. QED
    BY <2>1, <2>2, <2>3
<1>8. BackFlow'
  BY <1>1, <1>6, <1>7 DEF Flow, OrderFlow, BackFlow, At
<1>9. RedirectFlow'
  <2>1. ex1_ex2_q' = Bubble \/ ex1_ex2_q' = ex1_ex2_q
    BY <1>5
  <2>2. ex1_ex2_q.dir_miss' => ex1_ex2_q.valid'
    BY <2>1, BubbleEmpty DEF Flow, OrderFlow, RedirectFlow
  <2>3. ~ex1_ex2_q.valid => ~ex1_ex2_q.valid'
    BY <2>1, BubbleEmpty
  <2>4. ~ex2_mem1_q.valid => ~ex2_mem1_q.valid'
    BY <1>4, BubbleEmpty
  <2>5. QED
    BY <1>1, <1>3, <1>6, <1>7, <2>2, <2>3, <2>4 DEF Flow, OrderFlow, RedirectFlow
<1>10. FrontFlow'
  <2>1. CASE ex_redirect_q \/ mem_redirect_q
    BY <1>2, <1>3, <2>1 DEF Flow, OrderFlow, FrontFlow, At
  <2>2. CASE ~(ex_redirect_q \/ mem_redirect_q)
    <3>1. DueRr' = DueRr /\ DueId' = DueId /\ DueFetch' = DueFetch
      BY <1>2, <1>7 DEF DueRr, DueId, DueFetch
    <3>2. CASE fence_i_redirect_q
      <4>1. DueEx2 = Wrong /\ fetch_pc' = Wrong /\ pred_taken_q' = FALSE
        BY <2>2, <3>2 DEF Clock, FrontEnd, front_en, redirect_load, redirect_q, redirect_target,
                          Flow, FenceFlow
      <4>2. DueFetch = Wrong
        BY <4>1, EmptyDue DEF DueEx1, DueRr, DueId, DueFetch
      <4>3. QED
        BY <1>2, <1>3, <1>7, <2>2, <3>1, <4>1, <4>2 DEF Flow, OrderFlow, FrontFlow, At
    <3>3. CASE ~fence_i_redirect_q
      <4>1. /\ pred_taken_q' = FALSE
            /\ fetch_pc' = IF pred_taken_q THEN pred_target_q ELSE fetch_pc
        BY <2>2, <3>3 DEF Clock, FrontEnd, front_en, Captured, redirect_load, redirect_q,
                          redirect_target
      <4>2. QED
        BY <1>2, <1>3, <1>7, <2>2, <3>1, <4>1 DEF Flow, OrderFlow, FrontFlow, At
    <3>4. QED
      BY <3>2, <3>3
  <2>3. QED
    BY <2>1, <2>2
<1>11. QED
  BY <1>7, <1>8, <1>9, <1>10 DEF OrderFlow

\* A cycle in which a registered redirect clears ID, RR and EX1.
LEMMA RedirectFlowStep ==
  ASSUME TypeOK, Flow, NEW stall \in BOOLEAN, NEW mem_stall, NEW s, NEW more, NEW finish,
         NEW pulse, Clock(stall, mem_stall, FALSE, s, more, finish, pulse),
         hazard(stall) = "redirect", ex_redirect_q \/ mem_redirect_q,
         combined_stall(stall) => ~mem_redirect_d
  PROVE  OrderFlow'
<1> DEFINE m == hazard(stall)
<1>1. /\ Stages(m, stall, FALSE, s) /\ m # "hold"
      /\ retired' = IF mem_wb_q.valid /\ back_en(m) THEN mem_wb_q.pc ELSE retired
  BY DEF Clock
<1>2. rr_ex1_q' = Bubble /\ id_rr_q' = Bubble /\ if_id_q' = Bubble
  BY <1>1 DEF Stages, RrEx1Next, IdRrNext, IfIdNext, rr_ex1_flush, id_rr_flush, if_id_flush
<1>3. ex1_ex2_q' = Bubble
  BY <1>1 DEF Stages, Ex1Ex2Next, ex1_ex2_flush, mem_redirect_any
<1>4. ~ex1_ex2_q.valid /\ ~ex_redirect_d
  BY DEF Flow, OrderFlow, RedirectFlow, ex_redirect_d
<1>5. DueEx1' = DueEx2' /\ DueRr' = DueEx2' /\ DueId' = DueEx2' /\ DueFetch' = DueEx2'
  BY <1>2, <1>3, BubbleEmpty DEF DueEx1, DueRr, DueId, DueFetch, PastEx
<1>6. pred_taken_q' = FALSE
  BY DEF Clock, FrontEnd, redirect_q
<1>7. fetch_pc' = IF mem_redirect_q THEN mem_redirect_target_q ELSE ex_redirect_target_q
  BY DEF Clock, FrontEnd, redirect_load, redirect_q, redirect_target
<1>8. ~rr_ex1_q.valid' /\ ~id_rr_q.valid' /\ ~if_id_q.valid' /\ ~ex1_ex2_q.valid' /\ ~ex1_ex2_q.dir_miss'
  BY <1>2, <1>3, BubbleEmpty
<1>9. CASE mem_redirect_d
  <2>1. ~combined_stall(stall) /\ mem_redirect_any
    BY <1>9 DEF mem_redirect_any
  <2>2. mem_redirect_q' /\ ~ex_redirect_q' /\ mem_redirect_target_q' = NextPc(mem1_mem2_q.pc)
    BY <1>4, <1>9, <2>1 DEF Clock, ExRedirect, MemRedirect
  <2>3. /\ ~mem1_mem2_q.valid' /\ ~mem1_mem1b_q.valid' /\ ~ex2_mem1_q.valid'
        /\ DueMem2' = PastWb(DueMem2, mem1_mem2_q) /\ BackFlow'
    BY <1>1, <2>1, BackKilled DEF Flow, OrderFlow
  <2>4. mem1_mem2_q.valid /\ mem1_mem2_q.pc = DueMem2
    BY <1>9 DEF mem_redirect_d, Flow, OrderFlow, BackFlow, At
  <2>5. mem_redirect_target_q' = DueMem2'
    BY <2>2, <2>3, <2>4 DEF PastWb
  <2>6. QED
    BY <1>8, <2>2, <2>3, <2>5 DEF OrderFlow, RedirectFlow, FrontFlow, At
<1>10. CASE ~mem_redirect_d /\ mem_redirect_q
  <2>1. mem_redirect_any /\ ~mem1_mem2_q.valid /\ mem_redirect_target_q = DueMem2
    BY <1>10 DEF mem_redirect_any, Flow, OrderFlow, RedirectFlow
  <2>2. /\ ~mem1_mem2_q.valid' /\ ~mem1_mem1b_q.valid' /\ ~ex2_mem1_q.valid'
        /\ DueMem2' = PastWb(DueMem2, mem1_mem2_q) /\ BackFlow' /\ DueEx2' = DueMem2'
    BY <1>1, <2>1, BackKilled DEF Flow, OrderFlow
  <2>3. DueMem2' = DueMem2
    BY <2>1, <2>2 DEF PastWb
  <2>4. \/ mem_redirect_q' /\ mem_redirect_target_q' = mem_redirect_target_q
        \/ ~mem_redirect_q' /\ ~ex_redirect_q'
    BY <1>4, <1>10 DEF Clock, ExRedirect, MemRedirect
  <2>5. QED
    BY <1>5, <1>6, <1>7, <1>8, <1>10, <2>1, <2>2, <2>3, <2>4 DEF OrderFlow, RedirectFlow, FrontFlow, At
<1>11. CASE ~mem_redirect_d /\ ~mem_redirect_q
  <2>1. ~mem_redirect_any /\ ex_redirect_q /\ ex_redirect_target_q = DueEx2
    BY <1>11 DEF mem_redirect_any, Flow, OrderFlow, RedirectFlow
  <2>2. /\ DueEx2' = PastMem(DueEx2, ex1_ex2_q) /\ retired' >= 0
        /\ At(DueWb, mem_wb_q)' /\ At(DueMem2, mem1_mem2_q)'
        /\ At(DueMem1b, mem1_mem1b_q)' /\ At(DueMem1, ex2_mem1_q)'
    BY <1>1, <2>1, BackMoves DEF Flow, OrderFlow
  <2>3. DueEx2' = DueEx2
    BY <1>4, <2>2 DEF PastMem
  <2>4. BackFlow'
    BY <1>8, <2>2 DEF BackFlow, At
  <2>5. ~mem_redirect_q' /\ ex_redirect_target_q' = ex_redirect_target_q
    BY <1>4, <1>11 DEF Clock, ExRedirect, MemRedirect
  <2>6. QED
    BY <1>5, <1>6, <1>7, <1>8, <1>11, <2>1, <2>3, <2>4, <2>5 DEF OrderFlow, RedirectFlow, FrontFlow, At
<1>12. QED
  BY <1>9, <1>10, <1>11

\* A cycle in which only the refetch behind a FENCE.I clears ID, RR and EX1: it
\* leads back to the wrong path, which is due from EX2 on.
LEMMA FenceFlowStep ==
  ASSUME TypeOK, Flow, NEW stall \in BOOLEAN, NEW mem_stall, NEW s, NEW more, NEW finish,
         NEW pulse, Clock(stall, mem_stall, FALSE, s, more, finish, pulse),
         hazard(stall) = "redirect", fence_i_redirect_q, ~ex_redirect_q, ~mem_redirect_q,
         combined_stall(stall) => ~mem_redirect_d
  PROVE  OrderFlow'
<1> DEFINE m == hazard(stall)
<1>1. /\ Stages(m, stall, FALSE, s) /\ m # "hold"
      /\ retired' = IF mem_wb_q.valid /\ back_en(m) THEN mem_wb_q.pc ELSE retired
  BY DEF Clock
<1>2. DueEx2 = Wrong
  BY DEF Flow, FenceFlow
<1>3. rr_ex1_q' = Bubble /\ id_rr_q' = Bubble /\ if_id_q' = Bubble
  BY <1>1 DEF Stages, RrEx1Next, IdRrNext, IfIdNext, rr_ex1_flush, id_rr_flush, if_id_flush
<1>4. ~rr_ex1_q.valid' /\ ~id_rr_q.valid' /\ ~if_id_q.valid'
  BY <1>3, BubbleEmpty
<1>5. pred_taken_q' = FALSE /\ fetch_pc' = Wrong
  BY DEF Clock, FrontEnd, redirect_load, redirect_q, redirect_target
<1>6. CASE mem_redirect_d
  <2>1. ~combined_stall(stall) /\ mem_redirect_any
    BY <1>6 DEF mem_redirect_any
  <2>2. mem_redirect_q' /\ mem_redirect_target_q' = NextPc(mem1_mem2_q.pc)
    BY <1>6, <2>1 DEF Clock, MemRedirect
  <2>3. /\ ~mem1_mem2_q.valid' /\ ~mem1_mem1b_q.valid' /\ ~ex2_mem1_q.valid'
        /\ ex1_ex2_q' = Bubble
        /\ DueMem2' = PastWb(DueMem2, mem1_mem2_q) /\ BackFlow'
    BY <1>1, <2>1, BackKilled DEF Flow, OrderFlow
  <2>4. mem1_mem2_q.valid /\ mem1_mem2_q.pc = DueMem2
    BY <1>6 DEF mem_redirect_d, Flow, OrderFlow, BackFlow, At
  <2>5. mem_redirect_target_q' = DueMem2'
    BY <2>2, <2>3, <2>4 DEF PastWb
  <2>6. ~ex1_ex2_q.valid' /\ ~ex1_ex2_q.dir_miss'
    BY <2>3, BubbleEmpty
  <2>7. QED
    BY <1>4, <2>2, <2>3, <2>5, <2>6 DEF OrderFlow, RedirectFlow, FrontFlow, At
<1>7. CASE ~mem_redirect_d
  <2>1. ~mem_redirect_any
    BY <1>7 DEF mem_redirect_any
  <2>2. /\ DueEx2' = PastMem(DueEx2, ex1_ex2_q) /\ retired' >= 0
        /\ At(DueWb, mem_wb_q)' /\ At(DueMem2, mem1_mem2_q)'
        /\ At(DueMem1b, mem1_mem1b_q)' /\ At(DueMem1, ex2_mem1_q)'
    BY <1>1, <2>1, BackMoves DEF Flow, OrderFlow
  <2>3. DueEx2' = Wrong
    BY <1>2, <2>2, EmptyDue
  <2>4. DueEx1' = Wrong /\ DueRr' = Wrong /\ DueId' = Wrong /\ DueFetch' = Wrong
    BY <2>3, EmptyDue DEF DueEx1, DueRr, DueId, DueFetch
  <2>5. ~mem_redirect_q'
    BY <1>7 DEF Clock, MemRedirect
  <2>6. At(Wrong, ex1_ex2_q) /\ At(Wrong, rr_ex1_q)
    BY <1>2, EmptyDue DEF DueEx1, Flow, OrderFlow, BackFlow, FrontFlow
  <2>7. CASE combined_stall(stall)
    <3>1. ex1_ex2_q' = ex1_ex2_q /\ ~ex_redirect_q'
      BY <1>1, <2>1, <2>7 DEF Clock, Stages, Ex1Ex2Next, ex1_ex2_flush, ExRedirect
    <3>2. QED
      BY <1>4, <1>5, <2>2, <2>3, <2>4, <2>5, <2>6, <3>1
         DEF Flow, OrderFlow, BackFlow, RedirectFlow, FrontFlow, At
  <2>8. CASE ~combined_stall(stall) /\ ex_redirect_d
    <3>1. /\ ex1_ex2_q' = Bubble /\ ex_redirect_q'
          /\ ex_redirect_target_q' = ex_pc_d(ex1_ex2_q)
      BY <1>1, <2>1, <2>8 DEF Clock, Stages, Ex1Ex2Next, ex1_ex2_flush, ExRedirect
    <3>2. ~ex1_ex2_q.valid' /\ ~ex1_ex2_q.dir_miss'
      BY <3>1, BubbleEmpty
    <3>3. ex1_ex2_q.valid /\ ex1_ex2_q.pc = Wrong
      BY <2>6, <2>8 DEF ex_redirect_d, Flow, OrderFlow, RedirectFlow, At
    <3>4. ex_redirect_target_q' = Wrong
      BY <3>1, <3>3 DEF ex_pc_d, NextPc
    <3>5. QED
      BY <1>4, <2>2, <2>3, <2>5, <3>1, <3>2, <3>4 DEF OrderFlow, BackFlow, RedirectFlow, FrontFlow, At
  <2>9. CASE ~combined_stall(stall) /\ ~ex_redirect_d
    <3>1. /\ ~ex_redirect_q' /\ ex1_ex2_q.valid' = rr_ex1_q.valid /\ ex1_ex2_q.pc' = rr_ex1_q.pc
          /\ ex1_ex2_q.dir_miss' = (rr_ex1_q.valid /\ rr_ex1_q.dir_miss)
      BY <1>1, <2>1, <2>9 DEF TypeOK, Latch, Clock, Stages, Ex1Ex2Next, ex1_ex2_flush, ExRedirect
    <3>2. QED
      BY <1>4, <1>5, <2>2, <2>3, <2>4, <2>5, <2>6, <3>1
         DEF OrderFlow, BackFlow, RedirectFlow, FrontFlow, At
  <2>10. QED
    BY <2>7, <2>8, <2>9
<1>8. QED
  BY <1>6, <1>7

\* What ID, RR and EX1 hold after a cycle without a redirect is what they held,
\* or what fetch delivered.
LEMMA FrontMoves ==
  ASSUME TypeOK, NEW stall \in BOOLEAN, NEW s \in Shape, NEW m,
         m \in {"id_stall", "rr_stall", "advance"}, m = "id_stall" => ~pred_taken_q,
         Stages(m, stall, FALSE, s)
  PROVE  /\ m = "advance" => /\ Like(rr_ex1_q', id_rr_q) /\ Like(id_rr_q', if_id_q)
                             /\ if_id_q' = IF pred_taken_q THEN Bubble ELSE IfId(s)
         /\ m = "id_stall" => Like(rr_ex1_q', id_rr_q) /\ id_rr_q' = Bubble /\ if_id_q' = if_id_q
         /\ m = "rr_stall" => rr_ex1_q' = Bubble /\ id_rr_q' = id_rr_q /\ if_id_q' = if_id_q
<1>1. CASE m = "advance"
  <2>1. Like(rr_ex1_q', id_rr_q)
    BY <1>1 DEF TypeOK, Latch, Stages, RrEx1Next, rr_ex1_flush, rr_ex1_en, Like
  <2>2. Like(id_rr_q', if_id_q)
    BY <1>1 DEF TypeOK, Latch, Stages, IdRrNext, id_rr_flush, front_en, Like
  <2>3. if_id_q' = IF pred_taken_q THEN Bubble ELSE IfId(s)
    BY <1>1 DEF Stages, IfIdNext, if_id_flush, rr_ex1_en, front_en
  <2>4. QED
    BY <1>1, <2>1, <2>2, <2>3
<1>2. CASE m = "id_stall"
  <2>1. Like(rr_ex1_q', id_rr_q)
    BY <1>2 DEF TypeOK, Latch, Stages, RrEx1Next, rr_ex1_flush, rr_ex1_en, Like
  <2>2. id_rr_q' = Bubble /\ if_id_q' = if_id_q
    BY <1>2 DEF Stages, IdRrNext, IfIdNext, id_rr_flush, if_id_flush, front_en
  <2>3. QED
    BY <1>2, <2>1, <2>2
<1>3. CASE m = "rr_stall"
  BY <1>3 DEF Stages, RrEx1Next, IdRrNext, IfIdNext, rr_ex1_flush, id_rr_flush, if_id_flush,
              rr_ex1_en, front_en
<1>4. QED
  BY <1>1, <1>2, <1>3

\* What is fetched is what was due, and fetch goes on behind it.
LEMMA FetchFlow ==
  ASSUME TypeOK, NEW stall \in BOOLEAN, NEW s \in Presented(stall), NEW more,
         NEW pulse, FrontEnd("advance", s, more, pulse), align_instr_valid, ~pred_taken_q,
         ~redirect_q
  PROVE  /\ At(fetch_pc, IfId(s))
         /\ PastEx(fetch_pc, IfId(s)) = IF pred_taken_q' THEN pred_target_q' ELSE fetch_pc'
<1>1. s \in Shape
  BY PresentedType
<1>2. ~redirect_load /\ Captured("advance") /\ front_en("advance")
  BY DEF redirect_load, Captured, front_en
<1>3. /\ fetch_pc' = Successor(s) /\ (pred_taken_q' <=> s.pred_taken)
      /\ s.pred_taken => pred_target_q' = Predicted(s)
  BY <1>1, <1>2 DEF FrontEnd, Shape
<1>4. CASE s.kind = "NOP"
  <2>1. s \notin Shapes
    BY <1>4 DEF Shapes, Fetchable
  <2>2. s = Filler
    BY <2>1 DEF Presented
  <2>3. ~s.pred_taken
    BY <2>2 DEF Filler
  <2>4. IfId(s) = Bubble
    BY <1>4 DEF IfId
  <2>5. QED
    BY <1>3, <1>4, <2>3, <2>4, BubbleEmpty DEF Successor, PastEx, At
<1>5. CASE s.kind # "NOP"
  <2>1. /\ IfId(s).valid /\ IfId(s).pc = fetch_pc
        /\ IfId(s).mem_redir = s.mem_redir /\ IfId(s).dir_miss = s.dir_miss
    BY <1>5 DEF IfId, Bubble
  <2>2. QED
    BY <1>3, <1>5, <2>1 DEF Successor, Predicted, PastEx, At
<1>6. QED
  BY <1>4, <1>5

\* A cycle without a registered redirect in which the pipeline moves.
LEMMA MoveFlow ==
  ASSUME TypeOK, Flow, NEW stall \in BOOLEAN, NEW mem_stall, NEW s \in Presented(stall),
         NEW more, NEW finish, NEW pulse,
         Clock(stall, mem_stall, FALSE, s, more, finish, pulse),
         hazard(stall) \in {"id_stall", "rr_stall", "advance"},
         ~combined_stall(stall), ~redirect_q,
         hazard(stall) = "id_stall" => ~pred_taken_q,
         hazard(stall) = "advance" => align_instr_valid \/ pred_taken_q
  PROVE  OrderFlow'
<1> DEFINE m == hazard(stall)
<1> DEFINE next == IF pred_taken_q THEN pred_target_q ELSE fetch_pc
<1>1. /\ Stages(m, stall, FALSE, s) /\ m # "hold" /\ FrontEnd(m, s, more, pulse) /\ s \in Shape
      /\ retired' = IF mem_wb_q.valid /\ back_en(m) THEN mem_wb_q.pc ELSE retired
  BY PresentedType DEF Clock
<1>2. /\ m = "advance" => /\ Like(rr_ex1_q', id_rr_q) /\ Like(id_rr_q', if_id_q)
                          /\ if_id_q' = IF pred_taken_q THEN Bubble ELSE IfId(s)
      /\ m = "id_stall" => Like(rr_ex1_q', id_rr_q) /\ id_rr_q' = Bubble /\ if_id_q' = if_id_q
      /\ m = "rr_stall" => rr_ex1_q' = Bubble /\ id_rr_q' = id_rr_q /\ if_id_q' = if_id_q
  BY <1>1, FrontMoves
<1>3. At(DueEx1, rr_ex1_q) /\ At(DueRr, id_rr_q) /\ At(DueId, if_id_q) /\ DueFetch = next
  BY DEF Flow, OrderFlow, FrontFlow, redirect_q
<1>4. m = "advance" /\ ~pred_taken_q =>
        /\ At(DueFetch, IfId(s))
        /\ PastEx(DueFetch, IfId(s)) = IF pred_taken_q' THEN pred_target_q' ELSE fetch_pc'
  BY <1>1, <1>3, FetchFlow
<1>5. /\ mem_redirect_q' = mem_redirect_d /\ ex_redirect_q' = ex_redirect_d
      /\ mem_redirect_d => mem_redirect_target_q' = NextPc(mem1_mem2_q.pc)
      /\ ex_redirect_d => ex_redirect_target_q' = ex_pc_d(ex1_ex2_q)
  BY DEF Clock, ExRedirect, MemRedirect, redirect_q
<1>6. ex1_ex2_q' = Bubble \/ Like(ex1_ex2_q', [rr_ex1_q EXCEPT !.dir_miss = rr_ex1_q.valid /\ rr_ex1_q.dir_miss])
  BY <1>1 DEF TypeOK, Latch, Stages, Ex1Ex2Next, Like
<1>7. ex1_ex2_q.dir_miss' => ex1_ex2_q.valid'
  BY <1>6, BubbleEmpty DEF TypeOK, Latch, Like
<1>8. ASSUME DueEx1 = Wrong, DueRr = Wrong, DueId = Wrong, DueFetch = Wrong
      PROVE  At(Wrong, rr_ex1_q)' /\ At(Wrong, id_rr_q)' /\ At(Wrong, if_id_q)'
  <2>1. CASE m = "advance"
    <3>1. At(Wrong, rr_ex1_q)' /\ At(Wrong, id_rr_q)'
      BY <1>2, <1>3, <1>8, <2>1 DEF Like, At
    <3>2. At(Wrong, if_id_q)'
      BY <1>2, <1>4, <1>8, <2>1, BubbleEmpty DEF At
    <3>3. QED
      BY <3>1, <3>2
  <2>2. CASE m = "id_stall" \/ m = "rr_stall"
    BY <1>2, <1>3, <1>8, <2>2, BubbleEmpty DEF Like, At
  <2>3. QED
    BY <2>1, <2>2
<1>9. CASE mem_redirect_d
  <2>1. mem_redirect_any
    BY <1>9 DEF mem_redirect_any
  <2>2. /\ ~mem1_mem2_q.valid' /\ ~mem1_mem1b_q.valid' /\ ~ex2_mem1_q.valid'
        /\ ex1_ex2_q' = Bubble /\ DueMem2' = PastWb(DueMem2, mem1_mem2_q) /\ BackFlow'
    BY <1>1, <2>1, BackKilled DEF Flow, OrderFlow
  <2>3. mem1_mem2_q.valid /\ mem1_mem2_q.pc = DueMem2
    BY <1>9 DEF mem_redirect_d, Flow, OrderFlow, BackFlow, At
  <2>4. mem_redirect_q' /\ mem_redirect_target_q' = DueMem2'
    BY <1>5, <1>9, <2>2, <2>3 DEF PastWb
  <2>5. ~ex1_ex2_q.valid' /\ ~ex1_ex2_q.dir_miss'
    BY <2>2, BubbleEmpty
  <2>6. At(Wrong, rr_ex1_q)' /\ At(Wrong, id_rr_q)' /\ At(Wrong, if_id_q)'
    BY <1>8, <1>9, WrongBehindMem2
  <2>7. QED
    BY <2>2, <2>4, <2>5, <2>6 DEF OrderFlow, RedirectFlow, FrontFlow, At
<1>10. ASSUME ~mem_redirect_d
       PROVE  /\ DueEx2' = PastMem(DueEx2, ex1_ex2_q) /\ retired' >= 0
              /\ At(DueWb, mem_wb_q)' /\ At(DueMem2, mem1_mem2_q)'
              /\ At(DueMem1b, mem1_mem1b_q)' /\ At(DueMem1, ex2_mem1_q)'
              /\ ~mem_redirect_q'
  BY <1>1, <1>5, <1>10, BackMoves DEF mem_redirect_any, redirect_q, Flow, OrderFlow
<1>11. CASE ~mem_redirect_d /\ ex_redirect_d
  <2>1. ex1_ex2_q' = Bubble
    BY <1>1, <1>11 DEF Stages, Ex1Ex2Next, ex1_ex2_flush
  <2>2. ~ex1_ex2_q.valid' /\ ~ex1_ex2_q.dir_miss'
    BY <2>1, BubbleEmpty
  <2>3. ex1_ex2_q.valid /\ ex1_ex2_q.pc = DueEx2
    BY <1>11 DEF ex_redirect_d, Flow, OrderFlow, RedirectFlow, BackFlow, At
  <2>4. ex_redirect_q' /\ ex_redirect_target_q' = DueEx2'
    BY <1>5, <1>10, <1>11, <2>3 DEF ex_pc_d, PastMem
  <2>5. At(Wrong, rr_ex1_q)' /\ At(Wrong, id_rr_q)' /\ At(Wrong, if_id_q)'
    BY <1>8, <1>11, WrongBehindEx2
  <2>6. QED
    BY <1>10, <1>11, <2>2, <2>4, <2>5 DEF OrderFlow, BackFlow, RedirectFlow, FrontFlow, At
<1>12. CASE ~mem_redirect_d /\ ~ex_redirect_d
  <2>1. DueEx2' = DueEx1
    BY <1>10, <1>12 DEF DueEx1, PastMem, PastEx, ex_redirect_d
  <2>2. Like(ex1_ex2_q', [rr_ex1_q EXCEPT !.dir_miss = rr_ex1_q.valid /\ rr_ex1_q.dir_miss])
    BY <1>1, <1>12 DEF TypeOK, Latch, Stages, Ex1Ex2Next, ex1_ex2_flush, mem_redirect_any,
        redirect_q, Like
  <2>3. /\ ex1_ex2_q.valid' = rr_ex1_q.valid /\ ex1_ex2_q.pc' = rr_ex1_q.pc
        /\ ex1_ex2_q.mem_redir' = rr_ex1_q.mem_redir
        /\ ex1_ex2_q.dir_miss' = (rr_ex1_q.valid /\ rr_ex1_q.dir_miss)
    BY <2>2 DEF TypeOK, Latch, Like
  <2>4. DueEx1' = DueRr /\ At(DueEx2, ex1_ex2_q)'
    BY <1>3, <2>1, <2>3 DEF DueEx1, DueRr, PastEx, At
  <2>5. /\ At(DueEx1, rr_ex1_q)' /\ At(DueRr, id_rr_q)' /\ At(DueId, if_id_q)'
        /\ DueFetch' = IF pred_taken_q' THEN pred_target_q' ELSE fetch_pc'
    <3>1. CASE m = "advance"
      <4>1. DueRr' = DueId /\ At(DueEx1, rr_ex1_q)'
        BY <1>2, <1>3, <2>4, <3>1 DEF DueRr, DueId, PastEx, Like, At
      <4>2. DueId' = DueFetch /\ At(DueRr, id_rr_q)'
        BY <1>2, <1>3, <3>1, <4>1 DEF DueId, DueFetch, PastEx, Like, At
      <4>3. CASE pred_taken_q
        <5>1. ~if_id_q.valid'
          BY <1>2, <3>1, <4>3, BubbleEmpty
        <5>2. DueFetch' = DueFetch /\ At(DueId, if_id_q)'
          BY <4>2, <5>1 DEF DueFetch, PastEx, At
        <5>3. fetch_pc' = pred_target_q /\ pred_target_q' = pred_target_q
          BY <1>1, <4>3 DEF FrontEnd, redirect_load, redirect_q, redirect_target
        <5>4. QED
          BY <1>3, <4>1, <4>2, <4>3, <5>2, <5>3
      <4>4. CASE ~pred_taken_q
        <5>1. if_id_q' = IfId(s)
          BY <1>2, <3>1, <4>4
        <5>2. QED
          BY <1>4, <3>1, <4>1, <4>2, <4>4, <5>1 DEF DueFetch, At
      <4>5. QED
        BY <4>3, <4>4
    <3>2. CASE m = "id_stall"
      <4>1. DueRr' = DueId /\ At(DueEx1, rr_ex1_q)'
        BY <1>2, <1>3, <2>4, <3>2 DEF DueRr, DueId, PastEx, Like, At
      <4>2. DueId' = DueId /\ At(DueRr, id_rr_q)'
        BY <1>2, <3>2, <4>1, BubbleEmpty DEF DueId, PastEx, At
      <4>3. DueFetch' = DueFetch /\ At(DueId, if_id_q)'
        BY <1>2, <1>3, <3>2, <4>2 DEF DueFetch, PastEx, At
      <4>4. pred_taken_q' = FALSE /\ fetch_pc' = fetch_pc /\ ~pred_taken_q
        BY <1>1, <3>2 DEF FrontEnd, front_en, Captured, redirect_load, redirect_q
      <4>5. QED
        BY <1>3, <4>1, <4>2, <4>3, <4>4
    <3>3. CASE m = "rr_stall"
      <4>1. DueRr' = DueRr /\ At(DueEx1, rr_ex1_q)'
        BY <1>2, <2>4, <3>3, BubbleEmpty DEF DueRr, PastEx, At
      <4>2. DueId' = DueId /\ DueFetch' = DueFetch /\ At(DueRr, id_rr_q)' /\ At(DueId, if_id_q)'
        BY <1>2, <1>3, <3>3, <4>1 DEF DueId, DueFetch, At
      <4>3. pred_taken_q' = FALSE /\ fetch_pc' = next
        BY <1>1, <3>3 DEF FrontEnd, front_en, Captured, redirect_load, redirect_q, redirect_target
      <4>4. QED
        BY <1>3, <4>1, <4>2, <4>3
    <3>4. QED
      BY <3>1, <3>2, <3>3
  <2>6. ~ex_redirect_q' /\ ~mem_redirect_q'
    BY <1>5, <1>12
  <2>7. QED
    BY <1>7, <1>10, <1>12, <2>4, <2>5, <2>6 DEF OrderFlow, BackFlow, RedirectFlow, FrontFlow
<1>13. QED
  BY <1>9, <1>11, <1>12

\* A FENCE.I leaves EX2 with its trap still to come, and what is due behind it
\* stays off the path while the refetch is registered.
LEMMA FenceStep ==
  ASSUME TypeOK, Flow, NEW stall \in BOOLEAN, NEW mem_stall, NEW s \in Presented(stall),
         NEW more, NEW finish, NEW pulse \in Pulses(stall),
         Clock(stall, mem_stall, FALSE, s, more, finish, pulse),
         hazard(stall) = "hold" => combined_stall(stall),
         combined_stall(stall) /\ hazard(stall) # "hold" => ~mem_redirect_d
  PROVE  FenceFlow'
<1> DEFINE m == hazard(stall)
<1>1. /\ Stages(m, stall, FALSE, s) /\ s \in Shape
      /\ retired' = IF mem_wb_q.valid /\ back_en(m) THEN mem_wb_q.pc ELSE retired
  BY PresentedType DEF Clock
<1>2. Traps(if_id_q) /\ Traps(id_rr_q) /\ Traps(rr_ex1_q) /\ Traps(ex1_ex2_q)
  BY DEF Flow, FenceFlow
<1>3. Traps(Bubble)
  BY DEF Traps, is_fence_i, Bubble
<1>4. Traps(IfId(s))
  <2>1. s.kind = "FENCEI" => s.mem_redir
    BY DEF Presented, Shapes, Fetchable, Filler
  <2>2. QED
    BY <2>1 DEF Traps, is_fence_i, IfId, Bubble
<1>5. Traps(if_id_q')
  BY <1>1, <1>2, <1>3, <1>4 DEF Stages, IfIdNext
<1>6. Traps(id_rr_q')
  BY <1>1, <1>2, <1>3 DEF Stages, IdRrNext, Traps, is_fence_i, TypeOK, Latch
<1>7. Traps(rr_ex1_q')
  BY <1>1, <1>2, <1>3 DEF Stages, RrEx1Next, Traps, is_fence_i, TypeOK, Latch
<1>8. Traps(ex1_ex2_q')
  BY <1>1, <1>2, <1>3 DEF Stages, Ex1Ex2Next, Traps, is_fence_i, TypeOK, Latch
<1>9. ASSUME fence_i_redirect_q', ~mem_redirect_q'
      PROVE  DueEx2' = Wrong
  <2>1. CASE m = "hold"
    <3>1. fence_i_redirect_q /\ ~mem_redirect_q
      BY <1>9, <2>1 DEF Clock, FenceRedirect, MemRedirect
    <3>2. DueEx2' = DueEx2
      BY <2>1, HoldFlow
    <3>3. QED
      BY <3>1, <3>2 DEF Flow, FenceFlow
  <2>2. CASE m # "hold" /\ combined_stall(stall)
    <3>1. fence_i_redirect_q /\ ~mem_redirect_q /\ ~mem_redirect_any
      BY <1>9, <2>2 DEF Clock, FenceRedirect, MemRedirect, mem_redirect_any
    <3>2. DueEx2' = PastMem(DueEx2, ex1_ex2_q)
      BY <1>1, <2>2, <3>1, BackMoves DEF Flow, OrderFlow
    <3>3. DueEx2 = Wrong
      BY <3>1 DEF Flow, FenceFlow
    <3>4. QED
      BY <3>2, <3>3, EmptyDue
  <2>3. CASE m # "hold" /\ ~combined_stall(stall)
    <3>1. pulse /\ ~mem_redirect_d
      BY <1>9, <2>3 DEF Clock, FenceRedirect, MemRedirect
    <3>2. ex1_ex2_q.valid /\ is_fence_i(ex1_ex2_q)
      BY <3>1 DEF Pulses
    <3>3. ~mem_redirect_any
      BY <3>1, <3>2 DEF mem_redirect_any, Flow, OrderFlow, RedirectFlow
    <3>4. DueEx2' = PastMem(DueEx2, ex1_ex2_q)
      BY <1>1, <2>3, <3>3, BackMoves DEF Flow, OrderFlow
    <3>5. QED
      BY <1>2, <3>2, <3>4 DEF PastMem, Traps
  <2>4. QED
    BY <2>1, <2>2, <2>3
<1>10. QED
  BY <1>5, <1>6, <1>7, <1>8, <1>9 DEF FenceFlow, Traps, is_fence_i

\* One clock edge at which nothing is lost keeps the flow.
LEMMA FlowStep ==
  ASSUME ~Interrupts, TypeOK, Flow, ~Lost, [Next]_vars
  PROVE  Flow'
<1>1. CASE Next
  <2>1. PICK stall \in BOOLEAN :
          \E mem_stall \in {FALSE, stall}, irq \in {FALSE, Interrupts}, s \in Presented(stall),
             more \in BOOLEAN, finish \in Finishing, pulse \in Pulses(stall) :
            Clock(stall, mem_stall, irq, s, more, finish, pulse)
    BY <1>1 DEF Next
  <2>2. PICK mem_stall \in {FALSE, stall}, s \in Presented(stall), more \in BOOLEAN,
             finish \in Finishing, pulse \in Pulses(stall) :
          Clock(stall, mem_stall, FALSE, s, more, finish, pulse)
    BY <2>1, InterruptsAssumption
  <2> DEFINE m == hazard(stall)
  <2>3. /\ m \in {"hold", "redirect", "id_stall", "rr_stall", "advance"}
        /\ m = "hold" => combined_stall(stall)
        /\ m = "redirect" => redirect_q
        /\ m = "redirect" /\ combined_stall(stall) => ~mem_redirect_d
        /\ m \in {"id_stall", "rr_stall", "advance"} =>
             ~redirect_q /\ ~combined_stall(stall)
        /\ m = "id_stall" => ~pred_taken_q
        /\ m = "advance" => align_instr_valid \/ pred_taken_q
    BY Modes
  <2>4. FenceFlow'
    BY <2>2, <2>3, FenceStep
  <2>5. CASE m = "hold"
    BY <2>2, <2>3, <2>5, <2>4, HoldFlow DEF Flow
  <2>6. CASE m = "redirect"
    <3>1. CASE ex_redirect_q \/ mem_redirect_q
      BY <2>2, <2>3, <2>6, <2>4, <3>1, RedirectFlowStep DEF Flow
    <3>2. CASE ~ex_redirect_q /\ ~mem_redirect_q
      BY <2>2, <2>3, <2>6, <2>4, <3>2, FenceFlowStep DEF Flow, redirect_q
    <3>3. QED
      BY <3>1, <3>2
  <2>7. CASE m \in {"id_stall", "rr_stall", "advance"}
    BY <2>2, <2>3, <2>7, <2>4, MoveFlow DEF Flow
  <2>8. QED
    BY <2>3, <2>5, <2>6, <2>7
<1>2. CASE UNCHANGED vars
  <2>1. UNCHANGED <<if_id_q, id_rr_q, rr_ex1_q, ex1_ex2_q, ex2_mem1_q, mem1_mem1b_q,
                    mem1_mem2_q, mem_wb_q, pred_taken_q, pred_target_q, ex_redirect_q,
                    ex_redirect_target_q, mem_redirect_q, mem_redirect_target_q,
                    fence_i_redirect_q, fetch_pc, retired>>
    BY <1>2 DEF vars, stages, redirects, ghosts
  <2>2. /\ DueWb' = DueWb /\ DueMem2' = DueMem2 /\ DueMem1b' = DueMem1b /\ DueMem1' = DueMem1
        /\ DueEx2' = DueEx2 /\ DueEx1' = DueEx1 /\ DueRr' = DueRr /\ DueId' = DueId
        /\ DueFetch' = DueFetch
    BY <2>1 DEF DueWb, DueMem2, DueMem1b, DueMem1, DueEx2, DueEx1, DueRr, DueId, DueFetch
  <2>3. QED
    BY <2>1, <2>2 DEF Flow, OrderFlow, BackFlow, RedirectFlow, FrontFlow, FenceFlow, Traps, is_fence_i, At
<1>3. QED
  BY <1>1, <1>2

\* An empty pipeline that fetches the first instruction.
LEMMA FlowInit == Init => Flow
<1> SUFFICES ASSUME Init PROVE Flow
  OBVIOUS
<1>1. /\ ~if_id_q.valid /\ ~id_rr_q.valid /\ ~rr_ex1_q.valid /\ ~ex1_ex2_q.valid
      /\ ~ex2_mem1_q.valid /\ ~mem1_mem1b_q.valid /\ ~mem1_mem2_q.valid /\ ~mem_wb_q.valid
      /\ ~ex1_ex2_q.dir_miss
  BY BubbleEmpty DEF Init
<1>2. /\ retired = 0 /\ fetch_pc = 1 /\ ~ex_redirect_q /\ ~mem_redirect_q /\ ~pred_taken_q
      /\ ~fence_i_redirect_q
  BY DEF Init
<1>3. DueWb = 1
  BY <1>2 DEF DueWb
<1>4. DueMem2 = 1 /\ DueMem1b = 1 /\ DueMem1 = 1 /\ DueEx2 = 1
  BY <1>1, <1>3 DEF DueMem2, DueMem1b, DueMem1, DueEx2, PastWb, PastMem
<1>5. DueEx1 = 1 /\ DueRr = 1 /\ DueId = 1 /\ DueFetch = 1
  BY <1>1, <1>4 DEF DueEx1, DueRr, DueId, DueFetch, PastEx
<1>6. FenceFlow
  BY <1>2 DEF Init, FenceFlow, Traps, is_fence_i, Bubble
<1>7. QED
  BY <1>1, <1>2, <1>5, <1>6 DEF Flow, OrderFlow, BackFlow, RedirectFlow, FrontFlow, At

\* What MEM2 holds is next or next but one to retire, so not the wrong path.
LEMMA FlowSquashes ==
  ASSUME TypeOK, Flow
  PROVE  NoWrongPathAtMem2
<1>1. retired \in Int /\ retired >= 0
  BY DEF TypeOK, Flow, OrderFlow, BackFlow
<1>2. DueMem2 # Wrong
  BY <1>1 DEF DueMem2, DueWb, PastWb, NextPc, Wrong
<1>3. QED
  BY <1>2 DEF NoWrongPathAtMem2, Flow, OrderFlow, BackFlow, At

\* e follows what the first i registers of Flight hold.
Follows(i, e) ==
  \/ e = Wrong
  \/ e = retired + 1 /\ \A k \in 1 .. i : ~Flight[k].valid
  \/ \E j \in 1 .. i : /\ Flight[j].valid /\ Flight[j].pc # Wrong
                       /\ e = Flight[j].pc + 1
                       /\ \A k \in (j + 1) .. i : ~Flight[k].valid

\* One more register: the position due behind it follows it too.
LEMMA FollowsOn ==
  ASSUME NEW i \in 0 .. 7, NEW e, NEW f, Follows(i, e),
         Flight[i + 1].valid => Flight[i + 1].pc = e /\ (f = Wrong \/ f = NextPc(e)),
         ~Flight[i + 1].valid => f = e
  PROVE  Follows(i + 1, f)
<1>1. CASE Flight[i + 1].valid
  <2>1. CASE f = Wrong
    BY <2>1 DEF Follows
  <2>2. CASE f # Wrong
    <3>1. e # Wrong /\ f = e + 1
      BY <1>1, <2>2 DEF NextPc
    <3>2. \A k \in (i + 2) .. (i + 1) : ~Flight[k].valid
      OBVIOUS
    <3>3. i + 1 \in 1 .. (i + 1) /\ (i + 1) + 1 = i + 2
      OBVIOUS
    <3>4. QED
      BY <1>1, <3>1, <3>2, <3>3 DEF Follows
  <2>3. QED
    BY <2>1, <2>2
<1>2. CASE ~Flight[i + 1].valid
  <2>1. \A k \in 1 .. (i + 1) : k \in 1 .. i \/ k = i + 1
    OBVIOUS
  <2>2. \A j \in 1 .. i : j \in 1 .. (i + 1) /\
          \A k \in (j + 1) .. (i + 1) : k \in (j + 1) .. i \/ k = i + 1
    OBVIOUS
  <2>3. QED
    BY <1>2, <2>1, <2>2 DEF Follows
<1>3. QED
  BY <1>1, <1>2

\* The flow is program order.
LEMMA FlowOrdered ==
  ASSUME TypeOK, Flow
  PROVE  InProgramOrder
<1>1. /\ Flight[1] = mem_wb_q /\ Flight[2] = mem1_mem2_q /\ Flight[3] = mem1_mem1b_q
      /\ Flight[4] = ex2_mem1_q /\ Flight[5] = ex1_ex2_q /\ Flight[6] = rr_ex1_q
      /\ Flight[7] = id_rr_q /\ Flight[8] = if_id_q
  BY DEF Flight
<1>2. Follows(0, DueWb)
  BY DEF Follows, DueWb
<1>3. Follows(1, DueMem2)
  <2>1. Flight[0 + 1] = mem_wb_q
    BY <1>1
  <2>2. Follows(0 + 1, DueMem2)
    BY <1>2, <2>1, FollowsOn DEF DueMem2, PastWb, Flow, OrderFlow, BackFlow, At
  <2>3. QED
    BY <2>2
<1>4. Follows(2, DueMem1b)
  <2>1. Flight[1 + 1] = mem1_mem2_q
    BY <1>1
  <2>2. Follows(1 + 1, DueMem1b)
    BY <1>3, <2>1, FollowsOn DEF DueMem1b, PastMem, Flow, OrderFlow, BackFlow, At
  <2>3. QED
    BY <2>2
<1>5. Follows(3, DueMem1)
  <2>1. Flight[2 + 1] = mem1_mem1b_q
    BY <1>1
  <2>2. Follows(2 + 1, DueMem1)
    BY <1>4, <2>1, FollowsOn DEF DueMem1, PastMem, Flow, OrderFlow, BackFlow, At
  <2>3. QED
    BY <2>2
<1>6. Follows(4, DueEx2)
  <2>1. Flight[3 + 1] = ex2_mem1_q
    BY <1>1
  <2>2. Follows(3 + 1, DueEx2)
    BY <1>5, <2>1, FollowsOn DEF DueEx2, PastMem, Flow, OrderFlow, BackFlow, At
  <2>3. QED
    BY <2>2
<1>7. Follows(5, DueEx1)
  <2>1. Flight[4 + 1] = ex1_ex2_q
    BY <1>1
  <2>2. Follows(4 + 1, DueEx1)
    BY <1>6, <2>1, FollowsOn DEF DueEx1, PastEx, Flow, OrderFlow, BackFlow, At
  <2>3. QED
    BY <2>2
<1>8. CASE ~(ex_redirect_q \/ mem_redirect_q)
  <2>1. Follows(6, DueRr)
    <3>1. Flight[5 + 1] = rr_ex1_q
      BY <1>1
    <3>2. Follows(5 + 1, DueRr)
      BY <1>7, <1>8, <3>1, FollowsOn DEF DueRr, PastEx, Flow, OrderFlow, FrontFlow, At
    <3>3. QED
      BY <3>2
  <2>2. Follows(7, DueId)
    <3>1. Flight[6 + 1] = id_rr_q
      BY <1>1
    <3>2. Follows(6 + 1, DueId)
      BY <1>8, <2>1, <3>1, FollowsOn DEF DueId, PastEx, Flow, OrderFlow, FrontFlow, At
    <3>3. QED
      BY <3>2
  <2>3. \A i \in 1 .. 8 : Flight[i].valid => Follows(i - 1, Flight[i].pc)
    BY <1>1, <1>2, <1>3, <1>4, <1>5, <1>6, <1>7, <1>8, <2>1, <2>2
       DEF Flow, OrderFlow, BackFlow, FrontFlow, At
  <2>4. QED
    BY <2>3 DEF InProgramOrder, Follows
<1>9. CASE ex_redirect_q \/ mem_redirect_q
  <2>1. \A e \in 1 .. 8 : Follows(e - 1, Wrong)
    BY DEF Follows
  <2>2. \A i \in 1 .. 8 : Flight[i].valid => Follows(i - 1, Flight[i].pc)
    BY <1>1, <1>2, <1>3, <1>4, <1>5, <1>6, <1>9, <2>1 DEF Flow, OrderFlow, BackFlow, FrontFlow, At
  <2>3. QED
    BY <2>2 DEF InProgramOrder, Follows
<1>10. QED
  BY <1>8, <1>9

\* As long as none of the three coincidences happens, the pipeline keeps
\* program order and squashes every wrong path before MEM2: for every mix of
\* instructions, with multiplications, predictions and both redirects, and every
\* interleaving of memory stalls, empty fetches and multiplier delays.
THEOREM OrderKept ==
  ASSUME ~Interrupts
  PROVE  Spec => OrderUnlessLost
<1>1. TypeOK /\ Flow /\ ~Lost /\ [Next]_vars => Flow'
  BY FlowStep
<1>2. TypeOK /\ Flow => InProgramOrder /\ NoWrongPathAtMem2
  BY FlowSquashes, FlowOrdered
<1>3. QED
  BY <1>1, <1>2, FlowInit, TypeCorrect, PTL DEF Spec, OrderUnlessLost

\* Programs without multiplications whose branches are never predicted taken
\* meet none of the coincidences.
Plain == NoMul /\ ~pred_taken_q

\* Nothing sets the prediction register and no multiplication is fetched.
LEMMA PlainStep ==
  ASSUME "MUL" \notin Kinds, ~Predict, TypeOK, Plain, [Next]_vars
  PROVE  Plain'
<1>1. ASSUME NEW stall \in BOOLEAN, NEW mem_stall \in {FALSE, stall}, NEW irq \in {FALSE, Interrupts},
             NEW s \in Presented(stall), NEW more \in BOOLEAN, NEW finish \in Finishing,
             NEW pulse \in Pulses(stall),
             Clock(stall, mem_stall, irq, s, more, finish, pulse)
      PROVE  Plain'
  <2>1. irq \in BOOLEAN
    BY InterruptsAssumption
  <2>2. NoMul'
    BY <1>1, <2>1, NoMulStep DEF Clock, Plain
  <2>3. ~s.pred_taken
    BY DEF Presented, Shapes, Filler
  <2>4. ~pred_taken_q'
    BY <1>1, <2>3 DEF Clock, FrontEnd
  <2>5. QED
    BY <2>2, <2>4 DEF Plain
<1>2. ASSUME UNCHANGED vars
      PROVE  Plain'
  BY <1>2 DEF Plain, NoMul, is_muldiv, vars, stages, redirects
<1>3. QED
  BY <1>1, <1>2, ZenonT(60) DEF Next

\* Without multiplications and taken predictions nothing is ever lost.
LEMMA NothingLost ==
  ASSUME "MUL" \notin Kinds, ~Predict
  PROVE  Spec => [](~Lost /\ ~FenceLost)
<1>1. Init => Plain
  BY DEF Init, Plain, NoMul, is_muldiv, Bubble
<1>2. TypeOK /\ Plain /\ [Next]_vars => Plain'
  BY PlainStep
<1>3. Plain => ~Lost /\ ~FenceLost
  BY DEF Plain, NoMul, Lost, MulLost, TrapLost, BranchLost, FenceLost, muldiv_stall, req_i
<1>4. QED
  BY <1>1, <1>2, <1>3, TypeCorrect, PTL DEF Spec

\* Such a program keeps its order in the pipeline: no coincidence of load-use,
\* CSR and memory stalls, mispredictions and traps loses, duplicates or reorders
\* an instruction.
THEOREM OrderWithoutMul ==
  ASSUME ~Interrupts, "MUL" \notin Kinds, ~Predict
  PROVE  Spec => []InProgramOrder
<1>1. Spec => OrderUnlessLost
  BY OrderKept
<1>2. Spec => [](~Lost /\ ~FenceLost)
  BY NothingLost
<1>3. QED
  BY <1>1, <1>2, PTL DEF OrderUnlessLost

\* And none of its wrong paths reaches MEM2, where accesses are performed and
\* traps raised.
THEOREM SquashWithoutMul ==
  ASSUME ~Interrupts, "MUL" \notin Kinds, ~Predict
  PROVE  Spec => []NoWrongPathAtMem2
<1>1. Spec => OrderUnlessLost
  BY OrderKept
<1>2. Spec => [](~Lost /\ ~FenceLost)
  BY NothingLost
<1>3. QED
  BY <1>1, <1>2, PTL DEF OrderUnlessLost

-----------------------------------------------------------------------------
\* The multiplier works only for the multiplication in EX1, and never while a
\* redirect is registered: its own stall keeps redirects from being registered.
UnitOwned == md_state # "IDLE" => /\ rr_ex1_q.valid /\ is_muldiv(rr_ex1_q)
                                  /\ md_tag = rr_ex1_q.pc
                                  /\ ~redirect_q

OwnInv == UnitOwned /\ OwnResult

\* One clock edge that does not empty EX1 under the multiply stall.
LEMMA OwnStep ==
  ASSUME TypeOK, OwnInv,
         NEW stall \in BOOLEAN, NEW mem_stall \in BOOLEAN, NEW irq \in BOOLEAN, NEW s, NEW more,
         NEW finish, NEW pulse, ~MulLost(stall), ~FenceLost,
         Clock(stall, mem_stall, irq, s, more, finish, pulse)
  PROVE  OwnInv'
<1> DEFINE m == hazard(stall)
           hold == combined_stall(stall)
<1>1. /\ rr_ex1_q' = RrEx1Next(m) /\ ex1_ex2_q' = Ex1Ex2Next(stall, irq)
      /\ ex_redirect_q' = IF hold THEN ex_redirect_q ELSE ex_redirect_d
      /\ mem_redirect_q' = IF hold THEN mem_redirect_q ELSE mem_redirect_d
      /\ fence_i_redirect_q' = IF hold THEN fence_i_redirect_q ELSE pulse
      /\ Muldiv(mem_stall, finish)
  BY DEF Clock, Stages, ExRedirect, MemRedirect, FenceRedirect
<1>2. UnitOwned'
  <2> SUFFICES ASSUME md_state' # "IDLE"
               PROVE  /\ rr_ex1_q'.valid /\ is_muldiv(rr_ex1_q') /\ md_tag' = rr_ex1_q'.pc
                      /\ ~redirect_q'
    BY DEF UnitOwned, is_muldiv
  <2>1. /\ rr_ex1_q.valid /\ is_muldiv(rr_ex1_q) /\ ~redirect_q
        /\ md_state # "DONE" /\ md_tag' = rr_ex1_q.pc
    BY <1>1 DEF OwnInv, UnitOwned, Muldiv, req_i, FenceLost, redirect_q
  <2>2. muldiv_stall
    BY <2>1 DEF muldiv_stall, muldiv_valid
  <2>3. hold
    BY <2>2 DEF combined_stall
  <2>4. m = "hold"
    BY <2>1, <2>2 DEF MulLost, hazard, mode
  <2>5. rr_ex1_q' = rr_ex1_q
    BY <1>1, <2>4 DEF RrEx1Next, rr_ex1_flush, rr_ex1_en
  <2>6. QED
    BY <1>1, <2>1, <2>3, <2>5 DEF redirect_q
<1>3. OwnResult'
  <2> SUFFICES ASSUME ex1_ex2_q'.valid, is_muldiv(ex1_ex2_q'), ex1_ex2_q'.pc > 0
               PROVE  ex1_ex2_q'.res = ex1_ex2_q'.pc
    BY DEF OwnResult, is_muldiv
  <2>1. ex1_ex2_q' # Bubble
    BY DEF is_muldiv, Bubble
  <2>2. CASE hold
    <3>1. ex1_ex2_q' = ex1_ex2_q
      BY <1>1, <2>1, <2>2 DEF Ex1Ex2Next
    <3>2. QED
      BY <3>1 DEF OwnInv, OwnResult
  <2>3. CASE ~hold
    <3>1. /\ ex1_ex2_q'.valid = (rr_ex1_q.valid /\ ~irq) /\ ex1_ex2_q'.kind = rr_ex1_q.kind
          /\ ex1_ex2_q'.pc = rr_ex1_q.pc /\ ex1_ex2_q'.res = ex_result
      BY <1>1, <2>1, <2>3 DEF Ex1Ex2Next, TypeOK, Latch
    <3>2. rr_ex1_q.valid /\ is_muldiv(rr_ex1_q)
      BY <3>1 DEF is_muldiv
    <3>3. md_state = "DONE"
      BY <2>3, <3>2 DEF combined_stall, muldiv_stall, muldiv_valid
    <3>4. QED
      BY <3>1, <3>2, <3>3 DEF OwnInv, UnitOwned, ex_result
  <2>4. QED
    BY <2>2, <2>3
<1>4. QED
  BY <1>2, <1>3 DEF OwnInv

\* EX1 is not emptied under the multiply stall, and no multiplication starts that
\* the refetch behind a FENCE.I clears.
MulKept == ~FenceLost /\ \A stall \in BOOLEAN : ~MulLost(stall)

\* A step of the specification in which neither happens.
LEMMA OwnInvStep ==
  ASSUME TypeOK, OwnInv, MulKept, [Next]_vars
  PROVE  OwnInv'
<1>1. ASSUME NEW stall \in BOOLEAN, NEW mem_stall \in {FALSE, stall}, NEW irq \in {FALSE, Interrupts},
             NEW s \in Presented(stall), NEW more \in BOOLEAN, NEW finish \in Finishing,
             NEW pulse \in Pulses(stall),
             Clock(stall, mem_stall, irq, s, more, finish, pulse)
      PROVE  OwnInv'
  <2>1. irq \in BOOLEAN
    BY InterruptsAssumption
  <2>2. QED
    BY <1>1, <2>1, OwnStep DEF MulKept
<1>2. ASSUME UNCHANGED vars
      PROVE  OwnInv'
  BY <1>2 DEF OwnInv, UnitOwned, OwnResult, is_muldiv, redirect_q, vars, stages, redirects
<1>3. QED
  BY <1>1, <1>2, ZenonT(60) DEF Next

\* The unit is idle at reset.
LEMMA OwnInit == Init => OwnInv
  BY DEF Init, OwnInv, UnitOwned, OwnResult, is_muldiv, Bubble

\* As long as no load-use or CSR stall empties EX1 under the multiply stall and no
\* multiplication starts under the refetch behind a FENCE.I, a multiplication
\* leaves EX1 with its own result, whatever redirects, stalls and interrupts come:
\* the unit, which nothing cancels, is never left with the operation of a flushed
\* instruction when the next multiplication arrives.
THEOREM OwnUnlessMulLost == Spec => ([]MulKept => []OwnResult)
<1>1. TypeOK /\ OwnInv /\ MulKept /\ [Next]_vars => OwnInv'
  BY OwnInvStep
<1>2. OwnInv => OwnResult
  BY DEF OwnInv
<1>3. QED
  BY <1>1, <1>2, OwnInit, TypeCorrect, PTL DEF Spec

-----------------------------------------------------------------------------
(***************************************************************************)
(* CSR reads.  Along the same thread from WB to fetch runs the last CSR    *)
(* instruction of the program: what the CSR file will hold when the        *)
(* instruction in a stage has everything older behind it.                  *)
(***************************************************************************)

\* The CSR instruction of the program in p, if there is one.
CsrTag(p) == IF p.valid /\ is_csr(p) THEN p.pc ELSE Wrong

\* The last CSR instruction, behind c and then t.
Last(c, t) == IF t = Wrong THEN c ELSE t

CsrEx2 == Last(Last(Last(Last(csr_file, CsrTag(mem_wb_q)), CsrTag(mem1_mem2_q)),
                    CsrTag(mem1_mem1b_q)), CsrTag(ex2_mem1_q))
CsrEx1 == Last(CsrEx2, CsrTag(ex1_ex2_q))
CsrRr == Last(CsrEx1, CsrTag(rr_ex1_q))
CsrId == Last(CsrRr, CsrTag(id_rr_q))
CsrFetch == Last(CsrId, CsrTag(if_id_q))

Wants(c, p) == p.valid /\ p.pc # Wrong => p.cwant = c

\* Every instruction wants the last CSR instruction ahead of it.
WantFlow == /\ csr_writer = CsrFetch
            /\ Wants(CsrId, if_id_q) /\ Wants(CsrRr, id_rr_q) /\ Wants(CsrEx1, rr_ex1_q)

\* No CSR instruction of the program from EX2 on.
Committed == /\ CsrTag(ex1_ex2_q) = Wrong /\ CsrTag(ex2_mem1_q) = Wrong
             /\ CsrTag(mem1_mem1b_q) = Wrong /\ CsrTag(mem1_mem2_q) = Wrong
             /\ CsrTag(mem_wb_q) = Wrong

\* A CSR user in RR or EX1 has no CSR instruction ahead of it, in WB neither.
UsersLast == /\ uses_csr(id_rr_q) => Committed /\ CsrTag(rr_ex1_q) = Wrong
             /\ uses_csr(rr_ex1_q) => Committed

\* A CSR instruction does not redirect at MEM2, so WB commits it.
CsrStays(p) == is_csr(p) => ~p.mem_redir
AllStay == /\ CsrStays(if_id_q) /\ CsrStays(id_rr_q) /\ CsrStays(rr_ex1_q)
           /\ CsrStays(ex1_ex2_q) /\ CsrStays(ex2_mem1_q) /\ CsrStays(mem1_mem1b_q)
           /\ CsrStays(mem1_mem2_q) /\ CsrStays(mem_wb_q)

CsrInv == WantFlow /\ UsersLast /\ AllStay /\ FreshCsr

\* Which CSR instruction a register holds depends on three of its fields; the
\* wrong path and empty registers hold none.
LEMMA CsrTags ==
  /\ CsrTag(Bubble) = Wrong
  /\ \A p : At(Wrong, p) \/ ~p.valid => CsrTag(p) = Wrong
  /\ \A p, q : q.valid = p.valid /\ q.kind = p.kind /\ q.pc = p.pc => CsrTag(q) = CsrTag(p)
  BY DEF CsrTag, Bubble, At, is_csr

\* p holds an instruction of the program.
Right(p) == p.valid /\ p.pc # Wrong

\* Whatever a redirect flushes holds no instruction of the program.
LEMMA FlushedWrong ==
  ASSUME TypeOK, Flow
  PROVE  /\ mem_redirect_any => ~Right(mem1_mem1b_q) /\ ~Right(ex2_mem1_q) /\ ~Right(ex1_ex2_q)
         /\ ex_redirect_q \/ fence_i_redirect_q => ~Right(ex1_ex2_q)
         /\ mem_redirect_any \/ redirect_q \/ ex_redirect_d =>
              ~Right(rr_ex1_q) /\ ~Right(id_rr_q) /\ ~Right(if_id_q)
<1>1. ASSUME mem_redirect_d
      PROVE  ~Right(mem1_mem1b_q) /\ ~Right(ex2_mem1_q) /\ ~Right(ex1_ex2_q)
  <2>1. DueMem1b = Wrong /\ DueMem1 = Wrong /\ DueEx2 = Wrong
    BY <1>1, WrongBehindMem2
  <2>2. At(Wrong, mem1_mem1b_q) /\ At(Wrong, ex2_mem1_q) /\ At(Wrong, ex1_ex2_q)
    BY <2>1 DEF Flow, OrderFlow, BackFlow
  <2>3. QED
    BY <2>2 DEF At, Right
<1>2. ASSUME mem_redirect_q
      PROVE  ~Right(mem1_mem1b_q) /\ ~Right(ex2_mem1_q) /\ ~Right(ex1_ex2_q)
  BY <1>2 DEF Flow, OrderFlow, RedirectFlow, Right
<1>3. ASSUME ex_redirect_q
      PROVE  ~Right(ex1_ex2_q)
  BY <1>3 DEF Flow, OrderFlow, RedirectFlow, Right
<1>4. ASSUME fence_i_redirect_q, ~mem_redirect_q, ~ex_redirect_q
      PROVE  /\ At(Wrong, ex1_ex2_q) /\ At(Wrong, rr_ex1_q) /\ At(Wrong, id_rr_q)
             /\ At(Wrong, if_id_q)
  <2>1. DueEx2 = Wrong
    BY <1>4 DEF Flow, FenceFlow
  <2>2. DueEx1 = Wrong /\ DueRr = Wrong /\ DueId = Wrong
    BY <2>1, EmptyDue DEF DueEx1, DueRr, DueId
  <2>3. QED
    BY <1>4, <2>1, <2>2 DEF Flow, OrderFlow, BackFlow, FrontFlow
<1>5. ASSUME mem_redirect_any \/ redirect_q \/ ex_redirect_d
      PROVE  ~Right(rr_ex1_q) /\ ~Right(id_rr_q) /\ ~Right(if_id_q)
  <2>1. At(Wrong, rr_ex1_q) /\ At(Wrong, id_rr_q) /\ At(Wrong, if_id_q)
    <3>1. CASE ex_redirect_q \/ mem_redirect_q
      BY <3>1 DEF Flow, OrderFlow, FrontFlow
    <3>2. CASE ~(ex_redirect_q \/ mem_redirect_q) /\ fence_i_redirect_q
      BY <1>4, <3>2
    <3>3. CASE ~redirect_q
      <4>1. mem_redirect_d \/ ex_redirect_d
        BY <1>5, <3>3 DEF mem_redirect_any, redirect_q
      <4>2. DueEx1 = Wrong /\ DueRr = Wrong /\ DueId = Wrong
        BY <4>1, WrongBehindMem2, WrongBehindEx2
      <4>3. QED
        BY <3>3, <4>2 DEF Flow, OrderFlow, FrontFlow, redirect_q
    <3>4. QED
      BY <3>1, <3>2, <3>3 DEF redirect_q
  <2>2. QED
    BY <2>1 DEF At, Right
<1>6. ASSUME ex_redirect_q \/ fence_i_redirect_q
      PROVE  ~Right(ex1_ex2_q)
  BY <1>2, <1>3, <1>4, <1>6 DEF At, Right
<1>7. QED
  BY <1>1, <1>2, <1>5, <1>6 DEF mem_redirect_any

\* In particular no CSR instruction of it.
LEMMA FlushedTags ==
  ASSUME TypeOK, Flow
  PROVE  /\ mem_redirect_any => /\ CsrTag(mem1_mem1b_q) = Wrong /\ CsrTag(ex2_mem1_q) = Wrong
                                /\ CsrTag(ex1_ex2_q) = Wrong
         /\ ex_redirect_q \/ fence_i_redirect_q => CsrTag(ex1_ex2_q) = Wrong
         /\ mem_redirect_any \/ redirect_q \/ ex_redirect_d =>
              CsrTag(rr_ex1_q) = Wrong /\ CsrTag(id_rr_q) = Wrong /\ CsrTag(if_id_q) = Wrong
<1>1. \A p : ~Right(p) => CsrTag(p) = Wrong
  BY DEF Right, CsrTag
<1>2. QED
  BY <1>1, FlushedWrong

\* What a cycle in which WB moves without its strobe is, when nothing else is lost.
LEMMA StrobeLostUnderRedirect ==
  ASSUME TypeOK, Flow, ~Lost, NEW stall \in BOOLEAN, StrobeLost(stall)
  PROVE  redirect_q /\ rr_ex1_q.pc = Wrong
<1>1. hazard(stall) # "hold" /\ combined_stall(stall)
  BY DEF StrobeLost, retire_advance, back_en
<1>2. redirect_q
  BY <1>1, Modes
<1>3. rr_ex1_q.valid
  BY <1>1 DEF hazard, mode, combined_stall, muldiv_stall
<1>4. ~Right(rr_ex1_q)
  BY <1>2, FlushedWrong
<1>5. QED
  BY <1>2, <1>3, <1>4 DEF Right

\* In the next cycle EX1 is empty, or WB has not moved.
LEMMA StrobeStep ==
  ASSUME TypeOK, Flow, ~Lost, Next, NEW stall \in BOOLEAN, StrobeLost(stall),
         NEW next \in BOOLEAN, mem_wb_q' # mem_wb_q
  PROVE  ~StrobeLost(next)'
<1>1. redirect_q
  BY StrobeLostUnderRedirect
<1>2. ASSUME NEW st \in BOOLEAN, NEW mem_stall \in {FALSE, st}, NEW irq \in {FALSE, Interrupts},
             NEW s \in Presented(st), NEW more \in BOOLEAN, NEW finish \in Finishing,
             NEW pulse \in Pulses(st),
             Clock(st, mem_stall, irq, s, more, finish, pulse)
      PROVE  rr_ex1_q' = Bubble
  <2>1. hazard(st) # "hold"
    BY <1>2 DEF Clock, Stages, MemWbNext, back_en
  <2>2. hazard(st) = "redirect"
    BY <1>1, <2>1, Modes
  <2>3. QED
    BY <1>2, <2>2 DEF Clock, Stages, RrEx1Next, rr_ex1_flush
<1>3. rr_ex1_q' = Bubble
  BY <1>2, ZenonT(60) DEF Next
<1>4. ~muldiv_stall'
  BY <1>3, BubbleEmpty DEF muldiv_stall
<1>5. QED
  BY <1>4 DEF StrobeLost, retire_advance, combined_stall, hazard, mode, back_en

\* As long as the three coincidences lose nothing, an instruction leaves WB
\* without its strobe only because of a wrong-path multiplication, and each
\* redirect costs at most one instruction its CSR write or trap.
THEOREM StrobesUnlessLost ==
  ASSUME ~Interrupts
  PROVE  Spec => ([]~Lost => StrobeLostOnce)
<1>1. TypeOK /\ Flow /\ ~Lost /\ [Next]_vars => Flow'
  BY FlowStep
<1>2. TypeOK /\ Flow /\ ~Lost /\ [Next]_vars =>
        [\A stall, next \in BOOLEAN :
           StrobeLost(stall) => /\ redirect_q /\ rr_ex1_q.pc = Wrong
                                /\ mem_wb_q' = mem_wb_q \/ ~StrobeLost(next)']_vars
  BY StrobeLostUnderRedirect, StrobeStep
<1>3. QED
  BY <1>1, <1>2, FlowInit, TypeCorrect, PTL DEF Spec, StrobeLostOnce

\* A CSR instruction that moves, holds or is cleared does not redirect.
LEMMA StaysStep ==
  ASSUME TypeOK, AllStay, NEW stall \in BOOLEAN, NEW s \in Presented(stall), NEW m,
         Stages(m, stall, FALSE, s)
  PROVE  AllStay'
<1>1. CsrStays(Bubble)
  BY DEF CsrStays, Bubble, is_csr
<1>2. CsrStays(IfId(s))
  <2>1. s.kind = "CSR" => ~s.mem_redir
    BY DEF Presented, Shapes, Fetchable, Filler
  <2>2. CASE s.kind = "NOP"
    BY <1>1, <2>2 DEF IfId
  <2>3. CASE s.kind # "NOP"
    <3>1. IfId(s).kind = s.kind /\ IfId(s).mem_redir = s.mem_redir
      BY <2>3 DEF IfId, Bubble
    <3>2. QED
      BY <2>1, <3>1 DEF CsrStays, is_csr
  <2>4. QED
    BY <2>2, <2>3
<1>3. CsrStays(if_id_q')
  BY <1>1, <1>2 DEF Stages, IfIdNext, AllStay
<1>4. CsrStays(id_rr_q')
  BY <1>1 DEF Stages, IdRrNext, AllStay, CsrStays, is_csr, TypeOK, Latch
<1>5. CsrStays(rr_ex1_q')
  BY <1>1 DEF Stages, RrEx1Next, AllStay, CsrStays, is_csr, TypeOK, Latch
<1>6. CsrStays(ex1_ex2_q')
  BY <1>1 DEF Stages, Ex1Ex2Next, AllStay, CsrStays, is_csr, TypeOK, Latch
<1>7. CsrStays(ex2_mem1_q')
  BY <1>1 DEF Stages, Ex2Mem1Next, AllStay
<1>8. CsrStays(mem1_mem1b_q')
  BY <1>1 DEF Stages, Mem1Mem1bNext, MoveLive, AllStay, CsrStays, is_csr, TypeOK, Latch
<1>9. CsrStays(mem1_mem2_q')
  BY <1>1 DEF Stages, Mem1Mem2Next, MoveLive, AllStay, CsrStays, is_csr, TypeOK, Latch
<1>10. CsrStays(mem_wb_q')
  BY <1>1 DEF Stages, MemWbNext, AllStay
<1>11. QED
  BY <1>3, <1>4, <1>5, <1>6, <1>7, <1>8, <1>9, <1>10 DEF AllStay, CsrStays, is_csr

\* When the pipeline moves, every CSR instruction from EX1 on moves one stage on,
\* and WB commits the one it holds.
LEMMA CsrBackMoves ==
  ASSUME TypeOK, Flow, AllStay, NEW stall \in BOOLEAN, NEW s, NEW m, m # "hold",
         Stages(m, stall, FALSE, s), Retire(stall),
         mem_wb_q.valid => retire_advance(stall),
         m = "redirect" => redirect_q,
         m # "redirect" => ~combined_stall(stall)
  PROVE  /\ CsrTag(mem_wb_q') = CsrTag(mem1_mem2_q)
         /\ CsrTag(mem1_mem2_q') = CsrTag(mem1_mem1b_q)
         /\ CsrTag(mem1_mem1b_q') = CsrTag(ex2_mem1_q)
         /\ CsrTag(ex2_mem1_q') = CsrTag(ex1_ex2_q)
         /\ CsrTag(ex1_ex2_q') = CsrTag(rr_ex1_q)
         /\ csr_file' = Last(csr_file, CsrTag(mem_wb_q))
<1>1. back_en(m)
  BY DEF back_en
<1>2. CsrTag(mem_wb_q') = CsrTag(mem1_mem2_q)
  BY <1>1 DEF Stages, MemWbNext
<1>3. csr_file' = Last(csr_file, CsrTag(mem_wb_q))
  <2>1. mem_wb_q.valid => mem_wb_q.pc # Wrong
    BY DEF Flow, OrderFlow, BackFlow, At, DueWb, TypeOK, Wrong
  <2>2. is_csr(mem_wb_q) => ~mem_wb_q.mem_redir
    BY DEF AllStay, CsrStays
  <2>3. QED
    BY <2>1, <2>2 DEF Retire, retire_advance, Last, CsrTag
<1>4. CASE mem_redirect_any
  <2>1. ~mem1_mem2_q'.valid /\ ~mem1_mem1b_q'.valid
    BY <1>1, <1>4 DEF TypeOK, Latch, Stages, Mem1Mem1bNext, Mem1Mem2Next, MoveLive, Bubble
  <2>2. ex2_mem1_q' = Bubble /\ ex1_ex2_q' = Bubble
    BY <1>4 DEF Stages, Ex2Mem1Next, Ex1Ex2Next, ex1_ex2_flush
  <2>3. /\ CsrTag(mem1_mem2_q') = Wrong /\ CsrTag(mem1_mem1b_q') = Wrong
        /\ CsrTag(ex2_mem1_q') = Wrong /\ CsrTag(ex1_ex2_q') = Wrong
    BY <2>1, <2>2, CsrTags
  <2>4. /\ CsrTag(mem1_mem1b_q) = Wrong /\ CsrTag(ex2_mem1_q) = Wrong
        /\ CsrTag(ex1_ex2_q) = Wrong /\ CsrTag(rr_ex1_q) = Wrong
    BY <1>4, FlushedTags
  <2>6. QED
    BY <1>2, <1>3, <2>3, <2>4
<1>5. CASE ~mem_redirect_any
  <2>1. /\ mem1_mem2_q' = MoveLive(mem1_mem1b_q) /\ mem1_mem1b_q' = MoveLive(ex2_mem1_q)
        /\ ex2_mem1_q' = ex1_ex2_q
    BY <1>1, <1>5 DEF Stages, Mem1Mem1bNext, Mem1Mem2Next, Ex2Mem1Next, mem_kill
  <2>2. /\ mem1_mem2_q'.valid = mem1_mem1b_q.valid /\ mem1_mem2_q'.kind = mem1_mem1b_q.kind
        /\ mem1_mem2_q'.pc = mem1_mem1b_q.pc
        /\ mem1_mem1b_q'.valid = ex2_mem1_q.valid /\ mem1_mem1b_q'.kind = ex2_mem1_q.kind
        /\ mem1_mem1b_q'.pc = ex2_mem1_q.pc
    BY <1>5, <2>1 DEF MoveLive, TypeOK, Latch
  <2>3. /\ CsrTag(mem1_mem2_q') = CsrTag(mem1_mem1b_q)
        /\ CsrTag(mem1_mem1b_q') = CsrTag(ex2_mem1_q)
        /\ CsrTag(ex2_mem1_q') = CsrTag(ex1_ex2_q)
    BY <2>1, <2>2, CsrTags
  <2>4. CASE ex_redirect_q \/ (ex_redirect_d /\ ~combined_stall(stall))
    <3>1. ex_redirect_q \/ (ex_redirect_d /\ ~combined_stall(stall))
      BY <2>4
    <3>2. ex1_ex2_q' = Bubble
      BY <3>1 DEF Stages, Ex1Ex2Next, ex1_ex2_flush
    <3>3. CsrTag(ex1_ex2_q') = Wrong /\ CsrTag(rr_ex1_q) = Wrong
      BY <2>4, <3>2, CsrTags, FlushedTags DEF redirect_q
    <3>4. QED
      BY <1>2, <1>3, <2>3, <3>3
  <2>5. CASE ~ex_redirect_q /\ combined_stall(stall)
    <3>1. fence_i_redirect_q
      BY <1>5, <2>5 DEF mem_redirect_any, redirect_q
    <3>2. ex1_ex2_q' = ex1_ex2_q
      BY <1>5, <2>5 DEF Stages, Ex1Ex2Next, ex1_ex2_flush
    <3>3. CsrTag(ex1_ex2_q') = Wrong /\ CsrTag(rr_ex1_q) = Wrong
      BY <3>1, <3>2, FlushedTags DEF redirect_q
    <3>4. QED
      BY <1>2, <1>3, <2>3, <3>3
  <2>6. CASE ~ex_redirect_q /\ ~ex_redirect_d /\ ~combined_stall(stall)
    <3>1. ~combined_stall(stall)
      BY <2>6
    <3>2. /\ ex1_ex2_q'.valid = rr_ex1_q.valid /\ ex1_ex2_q'.kind = rr_ex1_q.kind
          /\ ex1_ex2_q'.pc = rr_ex1_q.pc
      BY <1>5, <2>6, <3>1 DEF Stages, Ex1Ex2Next, ex1_ex2_flush, TypeOK, Latch
    <3>3. CsrTag(ex1_ex2_q') = CsrTag(rr_ex1_q)
      BY <3>2, CsrTags
    <3>4. QED
      BY <1>2, <1>3, <2>3, <3>3
  <2>7. QED
    BY <2>4, <2>6, <2>5
<1>6. QED
  BY <1>4, <1>5

\* When nothing moves, every CSR instruction stays where it is.
LEMMA CsrHolds ==
  ASSUME TypeOK, Flow, CsrInv, NEW stall \in BOOLEAN, NEW mem_stall, NEW s, NEW more,
         NEW finish, NEW pulse, Clock(stall, mem_stall, FALSE, s, more, finish, pulse),
         hazard(stall) = "hold", combined_stall(stall)
  PROVE  WantFlow' /\ UsersLast' /\ FreshCsr'
<1>1. /\ mem_wb_q' = mem_wb_q /\ mem1_mem2_q' = mem1_mem2_q /\ mem1_mem1b_q' = mem1_mem1b_q
  BY DEF Clock, Stages, MemWbNext, Mem1Mem2Next, Mem1Mem1bNext, mem_kill, back_en
<1>2. rr_ex1_q' = rr_ex1_q /\ id_rr_q' = id_rr_q /\ if_id_q' = if_id_q
  BY DEF Clock, Stages, RrEx1Next, IdRrNext, IfIdNext, rr_ex1_flush, rr_ex1_en, id_rr_flush,
         front_en, if_id_flush
<1>3. ex2_mem1_q' = IF mem_redirect_any THEN Bubble ELSE ex2_mem1_q
  BY DEF Clock, Stages, Ex2Mem1Next, back_en
<1>4. ex1_ex2_q' = IF ex_redirect_q \/ mem_redirect_any THEN Bubble ELSE ex1_ex2_q
  BY DEF Clock, Stages, Ex1Ex2Next, ex1_ex2_flush
<1>5. CsrTag(ex2_mem1_q') = CsrTag(ex2_mem1_q) /\ CsrTag(ex1_ex2_q') = CsrTag(ex1_ex2_q)
  BY <1>3, <1>4, CsrTags, FlushedTags
<1>6. csr_file' = csr_file /\ csr_writer' = csr_writer
  BY DEF Clock, Retire, retire_advance, ProgramOrder, Captured
<1>7. /\ CsrTag(mem_wb_q') = CsrTag(mem_wb_q) /\ CsrTag(mem1_mem2_q') = CsrTag(mem1_mem2_q)
      /\ CsrTag(mem1_mem1b_q') = CsrTag(mem1_mem1b_q) /\ CsrTag(rr_ex1_q') = CsrTag(rr_ex1_q)
      /\ CsrTag(id_rr_q') = CsrTag(id_rr_q) /\ CsrTag(if_id_q') = CsrTag(if_id_q)
  BY <1>1, <1>2
<1>8. CsrEx1' = CsrEx1
  BY <1>5, <1>6, <1>7 DEF CsrEx1, CsrEx2, CsrTag, is_csr
<1>9. CsrRr' = CsrRr /\ CsrId' = CsrId /\ CsrFetch' = CsrFetch
  BY <1>2, <1>8 DEF CsrRr, CsrId, CsrFetch, CsrTag, is_csr
<1>10. WantFlow'
  BY <1>2, <1>6, <1>8, <1>9 DEF CsrInv, WantFlow, Wants
<1>11. UsersLast'
  BY <1>2, <1>5, <1>7 DEF CsrInv, UsersLast, Committed, CsrTag, uses_csr, is_csr
<1>12. FreshCsr'
  <2>1. CASE ex1_ex2_q' = Bubble
    BY <2>1 DEF FreshCsr, uses_csr, Bubble
  <2>2. CASE ex1_ex2_q' = ex1_ex2_q
    BY <2>2 DEF CsrInv, FreshCsr, uses_csr
  <2>3. QED
    BY <1>4, <2>1, <2>2
<1>13. QED
  BY <1>10, <1>11, <1>12

\* What ID, RR and EX1 hold after a cycle in which the pipeline moves, with what
\* each instruction wants.
LEMMA CsrFrontMoves ==
  ASSUME TypeOK, NEW stall \in BOOLEAN, NEW s \in Shape, NEW m,
         m \in {"redirect", "id_stall", "rr_stall", "advance"}, m = "id_stall" => ~pred_taken_q,
         Stages(m, stall, FALSE, s)
  PROVE  /\ m \in {"advance", "id_stall"} =>
              /\ rr_ex1_q'.valid = id_rr_q.valid /\ rr_ex1_q'.kind = id_rr_q.kind
              /\ rr_ex1_q'.pc = id_rr_q.pc /\ rr_ex1_q'.cwant = id_rr_q.cwant
         /\ m = "advance" =>
              /\ id_rr_q'.valid = if_id_q.valid /\ id_rr_q'.kind = if_id_q.kind
              /\ id_rr_q'.pc = if_id_q.pc /\ id_rr_q'.cwant = if_id_q.cwant
              /\ if_id_q' = IF pred_taken_q THEN Bubble ELSE IfId(s)
         /\ m = "id_stall" => id_rr_q' = Bubble /\ if_id_q' = if_id_q
         /\ m = "rr_stall" => rr_ex1_q' = Bubble /\ id_rr_q' = id_rr_q /\ if_id_q' = if_id_q
         /\ m = "redirect" => rr_ex1_q' = Bubble /\ id_rr_q' = Bubble /\ if_id_q' = Bubble
<1>1. CASE m = "redirect"
  BY <1>1 DEF Stages, RrEx1Next, IdRrNext, IfIdNext, rr_ex1_flush, id_rr_flush, if_id_flush
<1>2. CASE m # "redirect"
  <2>1. /\ m = "advance" => if_id_q' = IF pred_taken_q THEN Bubble ELSE IfId(s)
        /\ m = "id_stall" => id_rr_q' = Bubble /\ if_id_q' = if_id_q
        /\ m = "rr_stall" => rr_ex1_q' = Bubble /\ id_rr_q' = id_rr_q /\ if_id_q' = if_id_q
    BY <1>2, FrontMoves
  <2>2. m \in {"advance", "id_stall"} =>
          /\ rr_ex1_q'.valid = id_rr_q.valid /\ rr_ex1_q'.kind = id_rr_q.kind
          /\ rr_ex1_q'.pc = id_rr_q.pc /\ rr_ex1_q'.cwant = id_rr_q.cwant
    BY DEF TypeOK, Latch, Stages, RrEx1Next, rr_ex1_flush, rr_ex1_en
  <2>3. m = "advance" =>
          /\ id_rr_q'.valid = if_id_q.valid /\ id_rr_q'.kind = if_id_q.kind
          /\ id_rr_q'.pc = if_id_q.pc /\ id_rr_q'.cwant = if_id_q.cwant
    BY DEF TypeOK, Latch, Stages, IdRrNext, id_rr_flush, front_en
  <2>4. QED
    BY <1>2, <2>1, <2>2, <2>3
<1>3. QED
  BY <1>1, <1>2

\* A cycle in which the pipeline moves.
LEMMA CsrMoves ==
  ASSUME TypeOK, Flow, CsrInv, NEW stall \in BOOLEAN, NEW mem_stall,
         NEW s \in Presented(stall), NEW more, NEW finish, NEW pulse,
         Clock(stall, mem_stall, FALSE, s, more, finish, pulse),
         hazard(stall) \in {"redirect", "id_stall", "rr_stall", "advance"},
         mem_wb_q.valid => retire_advance(stall),
         hazard(stall) = "redirect" => redirect_q,
         hazard(stall) # "redirect" => ~combined_stall(stall),
         hazard(stall) = "id_stall" => ~pred_taken_q,
         hazard(stall) = "advance" => align_instr_valid \/ pred_taken_q
  PROVE  WantFlow' /\ UsersLast' /\ FreshCsr'
<1> DEFINE m == hazard(stall)
<1>1. /\ Stages(m, stall, FALSE, s) /\ Retire(stall) /\ ProgramOrder(m, s)
      /\ m # "hold" /\ s \in Shape
  BY PresentedType DEF Clock
<1>2. /\ CsrTag(mem_wb_q') = CsrTag(mem1_mem2_q)
      /\ CsrTag(mem1_mem2_q') = CsrTag(mem1_mem1b_q)
      /\ CsrTag(mem1_mem1b_q') = CsrTag(ex2_mem1_q)
      /\ CsrTag(ex2_mem1_q') = CsrTag(ex1_ex2_q)
      /\ CsrTag(ex1_ex2_q') = CsrTag(rr_ex1_q)
      /\ csr_file' = Last(csr_file, CsrTag(mem_wb_q))
  BY <1>1, CsrBackMoves DEF CsrInv
<1>3. /\ m \in {"advance", "id_stall"} =>
           /\ rr_ex1_q'.valid = id_rr_q.valid /\ rr_ex1_q'.kind = id_rr_q.kind
           /\ rr_ex1_q'.pc = id_rr_q.pc /\ rr_ex1_q'.cwant = id_rr_q.cwant
      /\ m = "advance" =>
           /\ id_rr_q'.valid = if_id_q.valid /\ id_rr_q'.kind = if_id_q.kind
           /\ id_rr_q'.pc = if_id_q.pc /\ id_rr_q'.cwant = if_id_q.cwant
           /\ if_id_q' = IF pred_taken_q THEN Bubble ELSE IfId(s)
      /\ m = "id_stall" => id_rr_q' = Bubble /\ if_id_q' = if_id_q
      /\ m = "rr_stall" => rr_ex1_q' = Bubble /\ id_rr_q' = id_rr_q /\ if_id_q' = if_id_q
      /\ m = "redirect" => rr_ex1_q' = Bubble /\ id_rr_q' = Bubble /\ if_id_q' = Bubble
  BY <1>1, CsrFrontMoves
<1>4. CsrEx1' = CsrRr
  <2>1. CsrEx1' = Last(Last(Last(Last(Last(csr_file', CsrTag(mem_wb_q')), CsrTag(mem1_mem2_q')),
                       CsrTag(mem1_mem1b_q')), CsrTag(ex2_mem1_q')), CsrTag(ex1_ex2_q'))
    BY DEF CsrEx1, CsrEx2, Last, CsrTag, is_csr
  <2>2. QED
    BY <1>2, <2>1 DEF CsrRr, CsrEx1, CsrEx2
<1>5. /\ CsrRr' = Last(CsrEx1', CsrTag(rr_ex1_q')) /\ CsrId' = Last(CsrRr', CsrTag(id_rr_q'))
      /\ CsrFetch' = Last(CsrId', CsrTag(if_id_q'))
  BY DEF CsrRr, CsrId, CsrFetch, Last, CsrTag, is_csr
<1>6. \A c : Last(c, Wrong) = c
  BY DEF Last
<1>7. \A c : Wants(c, Bubble)
  BY BubbleEmpty DEF Wants
<1>8. /\ csr_writer = CsrFetch /\ Wants(CsrId, if_id_q) /\ Wants(CsrRr, id_rr_q)
      /\ Wants(CsrEx1, rr_ex1_q)
  BY DEF CsrInv, WantFlow
<1>9. m # "advance" \/ pred_taken_q => csr_writer' = csr_writer
  BY <1>1 DEF ProgramOrder, Captured
<1>10. WantFlow'
  <2> SUFFICES /\ csr_writer' = CsrFetch'
               /\ Wants(CsrId', if_id_q') /\ Wants(CsrRr', id_rr_q') /\ Wants(CsrEx1', rr_ex1_q')
    BY DEF WantFlow, Wants
  <2>1. CASE m = "redirect"
    <3>1. /\ CsrTag(rr_ex1_q') = Wrong /\ CsrTag(id_rr_q') = Wrong /\ CsrTag(if_id_q') = Wrong
          /\ CsrTag(rr_ex1_q) = Wrong /\ CsrTag(id_rr_q) = Wrong /\ CsrTag(if_id_q) = Wrong
      BY <1>3, <2>1, CsrTags, FlushedTags DEF mem_redirect_any, redirect_q
    <3>2. CsrFetch' = CsrRr /\ CsrFetch = CsrRr
      BY <1>4, <1>5, <1>6, <3>1 DEF CsrFetch, CsrId
    <3>3. QED
      BY <1>3, <1>7, <1>8, <1>9, <2>1, <3>2
  <2>2. CASE m = "id_stall"
    <3>1. CsrTag(rr_ex1_q') = CsrTag(id_rr_q) /\ CsrTag(id_rr_q') = Wrong
      BY <1>3, <2>2, CsrTags
    <3>2. CsrRr' = CsrId /\ CsrId' = CsrId /\ CsrFetch' = CsrFetch
      BY <1>3, <1>4, <1>5, <1>6, <2>2, <3>1 DEF CsrId, CsrFetch
    <3>3. QED
      BY <1>3, <1>4, <1>7, <1>8, <1>9, <2>2, <3>2 DEF Wants
  <2>3. CASE m = "rr_stall"
    <3>1. CsrRr' = CsrRr
      BY <1>3, <1>4, <1>5, <1>6, <2>3, CsrTags
    <3>2. CsrId' = CsrId /\ CsrFetch' = CsrFetch
      BY <1>3, <1>5, <2>3, <3>1 DEF CsrId, CsrFetch
    <3>3. QED
      BY <1>3, <1>7, <1>8, <1>9, <2>3, <3>1, <3>2
  <2>4. CASE m = "advance"
    <3>1. CsrTag(rr_ex1_q') = CsrTag(id_rr_q) /\ CsrTag(id_rr_q') = CsrTag(if_id_q)
      BY <1>3, <2>4, CsrTags
    <3>2. CsrRr' = CsrId /\ CsrId' = CsrFetch
      BY <1>4, <1>5, <3>1 DEF CsrId, CsrFetch
    <3>3. Wants(CsrRr', id_rr_q') /\ Wants(CsrEx1', rr_ex1_q')
      BY <1>3, <1>4, <1>8, <2>4, <3>2 DEF Wants
    <3>4. CASE pred_taken_q
      <4>1. if_id_q' = Bubble
        BY <1>3, <2>4, <3>4
      <4>2. CsrFetch' = CsrFetch
        BY <1>5, <1>6, <3>2, <4>1, CsrTags
      <4>3. QED
        BY <1>7, <1>8, <1>9, <3>3, <3>4, <4>1, <4>2
    <3>5. CASE ~pred_taken_q
      <4>1. if_id_q' = IfId(s) /\ align_instr_valid /\ Captured(m)
        BY <1>3, <2>4, <3>5 DEF Captured
      <4>2. CASE s.kind = "NOP"
        <5>1. if_id_q' = Bubble /\ csr_writer' = csr_writer
          BY <1>1, <4>1, <4>2 DEF IfId, ProgramOrder
        <5>2. CsrFetch' = CsrFetch
          BY <1>5, <1>6, <3>2, <5>1, CsrTags
        <5>3. QED
          BY <1>7, <1>8, <3>3, <5>1, <5>2
      <4>3. CASE s.kind # "NOP"
        <5>1. /\ if_id_q'.valid /\ if_id_q'.pc = fetch_pc /\ if_id_q'.kind = s.kind
              /\ if_id_q'.cwant = csr_writer
          BY <4>1, <4>3 DEF IfId, Bubble
        <5>2. csr_writer' = IF fetch_pc # Wrong /\ s.kind = "CSR" THEN fetch_pc ELSE csr_writer
          BY <1>1, <4>1, <4>3 DEF ProgramOrder
        <5>3. CsrTag(if_id_q') = IF s.kind = "CSR" THEN fetch_pc ELSE Wrong
          BY <5>1 DEF CsrTag, is_csr
        <5>4. csr_writer' = CsrFetch'
          BY <1>5, <1>8, <3>2, <5>2, <5>3 DEF Last
        <5>5. Wants(CsrId', if_id_q')
          BY <1>8, <3>2, <5>1 DEF Wants
        <5>6. QED
          BY <3>3, <5>4, <5>5
      <4>4. QED
        BY <4>2, <4>3
    <3>6. QED
      BY <3>4, <3>5
  <2>5. QED
    BY <2>1, <2>2, <2>3, <2>4
<1>11. UsersLast'
  <2> DEFINE gone == /\ CsrTag(ex1_ex2_q') = Wrong /\ CsrTag(ex2_mem1_q') = Wrong
                     /\ CsrTag(mem1_mem1b_q') = Wrong /\ CsrTag(mem1_mem2_q') = Wrong
                     /\ CsrTag(mem_wb_q') = Wrong
  <2>1. ASSUME uses_csr(id_rr_q')
        PROVE  gone /\ CsrTag(rr_ex1_q') = Wrong
    <3>1. m \in {"rr_stall", "advance"}
      BY <1>3, <2>1, BubbleEmpty DEF uses_csr
    <3>2. CASE m = "rr_stall"
      <4>1. uses_csr(id_rr_q) /\ CsrTag(rr_ex1_q') = Wrong
        BY <1>3, <2>1, <3>2, CsrTags
      <4>2. QED
        BY <1>2, <4>1 DEF CsrInv, UsersLast, Committed
    <3>3. CASE m = "advance"
      <4>1. uses_csr(if_id_q)
        BY <1>3, <2>1, <3>3 DEF uses_csr
      <4>2. ~csr_raw_stall(if_id_q, {id_rr_q, rr_ex1_q, ex1_ex2_q, ex2_mem1_q,
                                     mem1_mem1b_q, mem1_mem2_q})
        BY <3>3 DEF hazard, mode, raw_stall_id
      <4>3. /\ CsrTag(id_rr_q) = Wrong /\ CsrTag(rr_ex1_q) = Wrong /\ CsrTag(ex1_ex2_q) = Wrong
            /\ CsrTag(ex2_mem1_q) = Wrong /\ CsrTag(mem1_mem1b_q) = Wrong
            /\ CsrTag(mem1_mem2_q) = Wrong
        BY <4>1, <4>2 DEF csr_raw_stall, CsrTag
      <4>4. CsrTag(rr_ex1_q') = CsrTag(id_rr_q)
        BY <1>3, <3>3, CsrTags
      <4>5. QED
        BY <1>2, <4>3, <4>4
    <3>4. QED
      BY <3>1, <3>2, <3>3
  <2>2. ASSUME uses_csr(rr_ex1_q')
        PROVE  gone
    <3>1. m \in {"id_stall", "advance"}
      BY <1>3, <2>2, BubbleEmpty DEF uses_csr
    <3>2. uses_csr(id_rr_q)
      BY <1>3, <2>2, <3>1 DEF uses_csr
    <3>3. QED
      BY <1>2, <3>2 DEF CsrInv, UsersLast, Committed
  <2>3. QED
    BY <2>1, <2>2 DEF UsersLast, Committed, CsrTag, uses_csr, is_csr
<1>12. FreshCsr'
  <2> SUFFICES ASSUME ex1_ex2_q'.pc > 0, uses_csr(ex1_ex2_q')
               PROVE  ex1_ex2_q'.cval = ex1_ex2_q'.cwant
    BY DEF FreshCsr, uses_csr
  <2>1. ex1_ex2_q' # Bubble
    BY BubbleEmpty DEF uses_csr
  <2>2. ~combined_stall(stall)
    <3>1. SUFFICES ASSUME combined_stall(stall) PROVE FALSE
      OBVIOUS
    <3>2. ex1_ex2_q' = ex1_ex2_q /\ ~mem_redirect_any /\ ~ex_redirect_q
      BY <1>1, <2>1, <3>1 DEF Stages, Ex1Ex2Next, ex1_ex2_flush
    <3>3. fence_i_redirect_q
      BY <3>1, <3>2 DEF redirect_q, mem_redirect_any
    <3>4. ~Right(ex1_ex2_q)
      BY <3>3, FlushedWrong
    <3>5. QED
      BY <3>2, <3>4 DEF Right, uses_csr, Wrong
  <2>3. /\ ex1_ex2_q'.valid = rr_ex1_q.valid /\ ex1_ex2_q'.kind = rr_ex1_q.kind
        /\ ex1_ex2_q'.pc = rr_ex1_q.pc /\ ex1_ex2_q'.cwant = rr_ex1_q.cwant
        /\ ex1_ex2_q'.cval = csr_file
    BY <1>1, <2>1, <2>2 DEF Stages, Ex1Ex2Next, TypeOK, Latch
  <2>4. uses_csr(rr_ex1_q) /\ rr_ex1_q.pc # Wrong
    BY <2>3 DEF uses_csr, Wrong
  <2>5. CsrEx1 = csr_file
    BY <1>6, <2>4 DEF CsrInv, UsersLast, Committed, CsrEx1, CsrEx2
  <2>6. QED
    BY <1>8, <2>3, <2>4, <2>5 DEF Wants, uses_csr
<1>13. QED
  BY <1>10, <1>11, <1>12

\* One clock edge at which nothing is lost and WB keeps its strobe.
LEMMA CsrStep ==
  ASSUME ~Interrupts, TypeOK, Flow, CsrInv, ~Lost, RetiresOnLeaving, [Next]_vars
  PROVE  CsrInv'
<1>1. CASE Next
  <2>1. PICK stall \in BOOLEAN :
          \E mem_stall \in {FALSE, stall}, irq \in {FALSE, Interrupts}, s \in Presented(stall),
             more \in BOOLEAN, finish \in Finishing, pulse \in Pulses(stall) :
            Clock(stall, mem_stall, irq, s, more, finish, pulse)
    BY <1>1 DEF Next
  <2>2. PICK mem_stall \in {FALSE, stall}, s \in Presented(stall), more \in BOOLEAN,
             finish \in Finishing, pulse \in Pulses(stall) :
          Clock(stall, mem_stall, FALSE, s, more, finish, pulse)
    BY <2>1, InterruptsAssumption
  <2> DEFINE m == hazard(stall)
  <2>3. /\ m \in {"hold", "redirect", "id_stall", "rr_stall", "advance"}
        /\ m = "hold" => combined_stall(stall)
        /\ m = "redirect" => redirect_q
        /\ m \in {"id_stall", "rr_stall", "advance"} => ~combined_stall(stall)
        /\ m = "id_stall" => ~pred_taken_q
        /\ m = "advance" => align_instr_valid \/ pred_taken_q
    BY Modes
  <2>4. AllStay'
    BY <2>2, StaysStep DEF Clock, CsrInv
  <2>5. CASE m = "hold"
    <3>1. WantFlow' /\ UsersLast' /\ FreshCsr'
      BY <2>2, <2>3, <2>5, CsrHolds
    <3>2. QED
      BY <2>4, <3>1 DEF CsrInv
  <2>6. CASE m # "hold"
    <3>1. mem_wb_q.valid => retire_advance(stall)
      BY <2>6 DEF RetiresOnLeaving, StrobeLost, back_en
    <3>2. WantFlow' /\ UsersLast' /\ FreshCsr'
      BY <2>2, <2>3, <2>6, <3>1, CsrMoves
    <3>3. QED
      BY <2>4, <3>2 DEF CsrInv
  <2>7. QED
    BY <2>5, <2>6
<1>2. CASE UNCHANGED vars
  <2>1. UNCHANGED <<if_id_q, id_rr_q, rr_ex1_q, ex1_ex2_q, ex2_mem1_q, mem1_mem1b_q,
                    mem1_mem2_q, mem_wb_q, csr_file, csr_writer>>
    BY <1>2 DEF vars, stages, ghosts
  <2>2. CsrEx1' = CsrEx1
    BY <2>1 DEF CsrEx1, CsrEx2, Last, CsrTag, is_csr
  <2>3. CsrRr' = CsrRr /\ CsrId' = CsrId /\ CsrFetch' = CsrFetch
    BY <2>1, <2>2 DEF CsrRr, CsrId, CsrFetch, CsrTag, is_csr
  <2>4. WantFlow'
    BY <2>1, <2>2, <2>3 DEF CsrInv, WantFlow, Wants
  <2>5. UsersLast' /\ AllStay' /\ FreshCsr'
    BY <2>1 DEF CsrInv, UsersLast, Committed, AllStay, CsrStays, FreshCsr, CsrTag, uses_csr, is_csr
  <2>6. QED
    BY <2>4, <2>5 DEF CsrInv
<1>3. QED
  BY <1>1, <1>2

\* An empty pipeline wants nothing.
LEMMA CsrInit == Init => CsrInv
<1> SUFFICES ASSUME Init PROVE CsrInv
  OBVIOUS
<1>1. /\ CsrTag(if_id_q) = Wrong /\ CsrTag(id_rr_q) = Wrong /\ CsrTag(rr_ex1_q) = Wrong
      /\ CsrTag(ex1_ex2_q) = Wrong /\ CsrTag(ex2_mem1_q) = Wrong /\ CsrTag(mem1_mem1b_q) = Wrong
      /\ CsrTag(mem1_mem2_q) = Wrong /\ CsrTag(mem_wb_q) = Wrong
  BY CsrTags DEF Init
<1>2. CsrFetch = csr_file /\ csr_file = csr_writer
  BY <1>1 DEF Init, CsrFetch, CsrId, CsrRr, CsrEx1, CsrEx2, Last
<1>3. WantFlow
  BY <1>2, BubbleEmpty DEF Init, WantFlow, Wants
<1>4. UsersLast /\ AllStay /\ FreshCsr
  BY <1>1, BubbleEmpty DEF Init, UsersLast, Committed, AllStay, CsrStays, FreshCsr, uses_csr,
                           is_csr, Bubble
<1>5. QED
  BY <1>3, <1>4 DEF CsrInv

\* As long as nothing is lost and no instruction leaves WB without its strobe, a
\* CSR access or xRET reads the CSR file after every older CSR instruction of the
\* program has committed: the ID-stage stall is enough for the five stages
\* between the read at EX1 and the write at WB, whatever is flushed in between.
THEOREM CsrFreshUnlessLost ==
  ASSUME ~Interrupts
  PROVE  Spec => ([](~Lost /\ RetiresOnLeaving) => []FreshCsr)
<1>1. TypeOK /\ Flow /\ ~Lost /\ [Next]_vars => Flow'
  BY FlowStep
<1>2. TypeOK /\ Flow /\ CsrInv /\ ~Lost /\ RetiresOnLeaving /\ [Next]_vars => CsrInv'
  BY CsrStep
<1>3. CsrInv => FreshCsr
  BY DEF CsrInv
<1>4. QED
  BY <1>1, <1>2, <1>3, FlowInit, CsrInit, TypeCorrect, PTL DEF Spec

\* Programs without multiplications and taken predictions always read the CSRs
\* their order asks for.
THEOREM CsrFreshWithoutMul ==
  ASSUME ~Interrupts, "MUL" \notin Kinds, ~Predict
  PROVE  Spec => []FreshCsr
<1>1. Spec => ([](~Lost /\ RetiresOnLeaving) => []FreshCsr)
  BY CsrFreshUnlessLost
<1>2. Spec => [](~Lost /\ ~FenceLost)
  BY NothingLost
<1>3. Spec => []RetiresOnLeaving
  BY RetiresWithoutMul
<1>4. QED
  BY <1>1, <1>2, <1>3, PTL

-----------------------------------------------------------------------------
(***************************************************************************)
(* Operands.  For each register, the thread from WB to fetch runs through  *)
(* the instructions that write it; the registered select names the slot    *)
(* the last one has moved to.                                              *)
(***************************************************************************)

\* The instruction of the program in p that writes r, if there is one.
RegTag(p, r) == IF p.valid /\ p.rd = r THEN p.pc ELSE Wrong

RegEx2(r) == Last(Last(Last(Last(regfile[r], RegTag(mem_wb_q, r)), RegTag(mem1_mem2_q, r)),
                       RegTag(mem1_mem1b_q, r)), RegTag(ex2_mem1_q, r))
RegEx1(r) == Last(RegEx2(r), RegTag(ex1_ex2_q, r))
RegRr(r) == Last(RegEx1(r), RegTag(rr_ex1_q, r))
RegId(r) == Last(RegRr(r), RegTag(id_rr_q, r))
RegFetch(r) == Last(RegId(r), RegTag(if_id_q, r))

\* Every instruction wants the last writer of its register ahead of it.
WriterFlow ==
  \A r \in Reg \ {0} : /\ writer[r] = RegFetch(r)
                       /\ Right(if_id_q) /\ if_id_q.rs = r => if_id_q.want = RegId(r)
                       /\ Right(id_rr_q) /\ id_rr_q.rs = r => id_rr_q.want = RegRr(r)

\* The select of the RR occupant is what the forwarding unit would say of the
\* slots one stage on, and no load it would have to wait for is among them.
SelectMoved ==
  Right(id_rr_q) /\ id_rr_q.rs # 0 =>
    /\ id_rr_q.sel = fwd_sel(id_rr_q.rs, rr_ex1_q, ex1_ex2_q, ex2_mem1_q, mem1_mem1b_q,
                             mem1_mem2_q, mem_wb_q)
    /\ ~load_use(id_rr_q, rr_ex1_q, ex1_ex2_q, ex2_mem1_q, mem1_mem1b_q, mem1_mem2_q, mem_wb_q)

\* What writes a register, and a jump that always redirects at EX2.
Decoded(p) == /\ p.rd # 0 => p.kind \in {"ALU", "MUL", "CSR", "LOAD", "JUMP"}
              /\ p.valid /\ p.kind = "JUMP" => p.dir_miss
FrontDecoded == /\ Decoded(if_id_q) /\ Decoded(id_rr_q) /\ Decoded(rr_ex1_q)
                /\ Decoded(ex1_ex2_q)

\* From EX2 on an instruction has its result, or gets it on the way to WB.
Computed(p) == p.valid /\ p.rd # 0 =>
                 \/ p.kind \in {"CSR", "LOAD", "JUMP"}
                 \/ p.kind \in {"ALU", "MUL"} /\ p.res = p.pc
BackComputed == /\ Computed(ex1_ex2_q) /\ Computed(ex2_mem1_q) /\ Computed(mem1_mem1b_q)
                /\ Computed(mem1_mem2_q) /\ Computed(mem_wb_q)

\* A jump's link address is on no bypass bus, and nobody of the program is
\* close enough behind a jump to look for it there.
Jump(p) == p.valid /\ p.kind = "JUMP"
JumpsAlone ==
  /\ Jump(ex2_mem1_q) => ex_redirect_q \/ fence_i_redirect_q
  /\ Jump(mem1_mem1b_q) => ~Right(ex1_ex2_q) /\ ~Right(rr_ex1_q) /\ ~Right(id_rr_q) /\ ~Right(if_id_q)
  /\ Jump(mem1_mem2_q) => ~Right(ex1_ex2_q) /\ ~Right(rr_ex1_q) /\ ~Right(id_rr_q)

OperandInv == WriterFlow /\ SelectMoved /\ FrontDecoded /\ BackComputed /\ JumpsAlone /\ FreshOperand

\* q holds p's instruction, or p's was none of the program and is gone.
Same(q, p) == q.valid = p.valid /\ q.pc = p.pc /\ q.kind = p.kind /\ q.rd = p.rd
Carries(q, p) == Same(q, p) \/ (~q.valid /\ ~Right(p))

\* The same, or neither holds an instruction of the program.
Agrees(q, p) == Same(q, p) \/ (~Right(q) /\ ~Right(p))

\* Which register of the program is written does not change on the way.
LEMMA TagCarried ==
  /\ \A p, q : Carries(q, p) => Agrees(q, p)
  /\ \A p, q, r : Agrees(q, p) => RegTag(q, r) = RegTag(p, r)
  /\ \A p, q : Agrees(q, p) => (Right(q) <=> Right(p))
  /\ \A p, q, r : Carries(q, p) => RegTag(q, r) = RegTag(p, r)
  /\ \A p, q : Carries(q, p) => (Jump(q) => Jump(p)) /\ (Right(q) <=> Right(p))
  /\ \A p : Carries(p, p)
  /\ \A p, r : ~Right(p) => RegTag(p, r) = Wrong
  BY DEF Carries, Agrees, Same, RegTag, Jump, Right

\* When the pipeline moves, every instruction of the program from EX1 on moves
\* one stage on.
LEMMA SlotsMove ==
  ASSUME TypeOK, Flow, NEW stall \in BOOLEAN, NEW s, NEW m, m # "hold",
         Stages(m, stall, FALSE, s),
         m = "redirect" => redirect_q,
         m # "redirect" => ~combined_stall(stall)
  PROVE  /\ mem_wb_q' = mem1_mem2_q
         /\ Carries(mem1_mem2_q', mem1_mem1b_q) /\ Carries(mem1_mem1b_q', ex2_mem1_q)
         /\ Carries(ex2_mem1_q', ex1_ex2_q) /\ Agrees(ex1_ex2_q', rr_ex1_q)
         /\ mem1_mem2_q'.valid => mem1_mem2_q'.res = mem1_mem1b_q.res
         /\ mem1_mem1b_q'.valid => mem1_mem1b_q'.res = ex2_mem1_q.res
         /\ ex2_mem1_q'.valid => ex2_mem1_q' = ex1_ex2_q
         /\ ex1_ex2_q'.valid =>
              \/ ex1_ex2_q' = ex1_ex2_q
              \/ /\ ex1_ex2_q'.res = ex_result /\ ~combined_stall(stall)
                 /\ rr_ex1_q.valid /\ Same(ex1_ex2_q', rr_ex1_q)
                 /\ ex1_ex2_q'.dir_miss = rr_ex1_q.dir_miss
         /\ ~mem_redirect_any /\ ~redirect_q /\ ~ex_redirect_d =>
              /\ Same(mem1_mem2_q', mem1_mem1b_q) /\ Same(mem1_mem1b_q', ex2_mem1_q)
              /\ Same(ex2_mem1_q', ex1_ex2_q) /\ Same(ex1_ex2_q', rr_ex1_q)
<1>1. back_en(m)
  BY DEF back_en
<1>2. mem_wb_q' = mem1_mem2_q
  BY <1>1 DEF Stages, MemWbNext
<1>3. CASE mem_redirect_any
  <2>1. ~mem1_mem2_q'.valid /\ ~mem1_mem1b_q'.valid
    BY <1>1, <1>3 DEF TypeOK, Latch, Stages, Mem1Mem1bNext, Mem1Mem2Next, MoveLive, Bubble
  <2>2. ~ex2_mem1_q'.valid /\ ~ex1_ex2_q'.valid
    BY <1>3, BubbleEmpty DEF Stages, Ex2Mem1Next, Ex1Ex2Next, ex1_ex2_flush
  <2>3. QED
    BY <1>2, <1>3, <2>1, <2>2, FlushedWrong, TagCarried DEF Carries
<1>4. CASE ~mem_redirect_any
  <2>1. /\ mem1_mem2_q' = MoveLive(mem1_mem1b_q) /\ mem1_mem1b_q' = MoveLive(ex2_mem1_q)
        /\ ex2_mem1_q' = ex1_ex2_q
    BY <1>1, <1>4 DEF Stages, Mem1Mem1bNext, Mem1Mem2Next, Ex2Mem1Next, mem_kill
  <2>2. /\ Same(mem1_mem2_q', mem1_mem1b_q) /\ mem1_mem2_q'.res = mem1_mem1b_q.res
        /\ Same(mem1_mem1b_q', ex2_mem1_q) /\ mem1_mem1b_q'.res = ex2_mem1_q.res
    BY <1>4, <2>1 DEF Same, MoveLive, TypeOK, Latch
  <2>3. Same(ex2_mem1_q', ex1_ex2_q)
    BY <2>1 DEF Same
  <2>4. CASE ex_redirect_q \/ (ex_redirect_d /\ ~combined_stall(stall))
    <3>1. ex_redirect_q \/ (ex_redirect_d /\ ~combined_stall(stall))
      BY <2>4
    <3>2. ~ex1_ex2_q'.valid
      BY <3>1, BubbleEmpty DEF Stages, Ex1Ex2Next, ex1_ex2_flush
    <3>3. ~Right(rr_ex1_q) /\ ~Right(ex1_ex2_q')
      BY <2>4, <3>2, FlushedWrong DEF redirect_q, Right
    <3>4. QED
      BY <1>2, <2>1, <2>2, <2>3, <2>4, <3>2, <3>3 DEF Carries, Agrees, redirect_q
  <2>5. CASE ~ex_redirect_q /\ combined_stall(stall)
    <3>1. fence_i_redirect_q
      BY <1>4, <2>5 DEF mem_redirect_any, redirect_q
    <3>2. ex1_ex2_q' = ex1_ex2_q
      BY <1>4, <2>5 DEF Stages, Ex1Ex2Next, ex1_ex2_flush
    <3>3. ~Right(ex1_ex2_q') /\ ~Right(rr_ex1_q)
      BY <3>1, <3>2, FlushedWrong DEF redirect_q
    <3>4. QED
      BY <1>2, <2>1, <2>2, <2>3, <3>1, <3>2, <3>3 DEF Carries, Agrees, redirect_q
  <2>6. CASE ~ex_redirect_q /\ ~ex_redirect_d /\ ~combined_stall(stall)
    <3>1. ~combined_stall(stall)
      BY <2>6
    <3>2. /\ Same(ex1_ex2_q', rr_ex1_q) /\ ex1_ex2_q'.res = ex_result
          /\ ex1_ex2_q'.valid = rr_ex1_q.valid
          /\ rr_ex1_q.valid => ex1_ex2_q'.dir_miss = rr_ex1_q.dir_miss
      BY <1>4, <2>6, <3>1 DEF Same, Stages, Ex1Ex2Next, ex1_ex2_flush, TypeOK, Latch
    <3>3. QED
      BY <1>2, <2>1, <2>2, <2>3, <3>1, <3>2 DEF Carries, Agrees
  <2>7. QED
    BY <2>4, <2>6, <2>5
<1>5. QED
  BY <1>3, <1>4

\* When nothing moves, every instruction of the program stays where it is.
LEMMA SlotsHold ==
  ASSUME TypeOK, Flow, NEW stall \in BOOLEAN, NEW s, NEW m, m = "hold",
         Stages(m, stall, FALSE, s), combined_stall(stall)
  PROVE  /\ mem_wb_q' = mem_wb_q /\ mem1_mem2_q' = mem1_mem2_q /\ mem1_mem1b_q' = mem1_mem1b_q
         /\ rr_ex1_q' = rr_ex1_q /\ id_rr_q' = id_rr_q /\ if_id_q' = if_id_q
         /\ Carries(ex2_mem1_q', ex2_mem1_q) /\ Carries(ex1_ex2_q', ex1_ex2_q)
         /\ ex2_mem1_q' \in {ex2_mem1_q, Bubble} /\ ex1_ex2_q' \in {ex1_ex2_q, Bubble}
         /\ ~mem_redirect_any /\ ~ex_redirect_q =>
              ex2_mem1_q' = ex2_mem1_q /\ ex1_ex2_q' = ex1_ex2_q
<1>1. /\ mem_wb_q' = mem_wb_q /\ mem1_mem2_q' = mem1_mem2_q /\ mem1_mem1b_q' = mem1_mem1b_q
  BY DEF Stages, MemWbNext, Mem1Mem2Next, Mem1Mem1bNext, mem_kill, back_en
<1>2. rr_ex1_q' = rr_ex1_q /\ id_rr_q' = id_rr_q /\ if_id_q' = if_id_q
  BY DEF Stages, RrEx1Next, IdRrNext, IfIdNext, rr_ex1_flush, rr_ex1_en, id_rr_flush,
         front_en, if_id_flush
<1>3. ex2_mem1_q' = IF mem_redirect_any THEN Bubble ELSE ex2_mem1_q
  BY DEF Stages, Ex2Mem1Next, back_en
<1>4. ex1_ex2_q' = IF ex_redirect_q \/ mem_redirect_any THEN Bubble ELSE ex1_ex2_q
  BY DEF Stages, Ex1Ex2Next, ex1_ex2_flush
<1>5. Carries(ex2_mem1_q', ex2_mem1_q) /\ Carries(ex1_ex2_q', ex1_ex2_q)
  BY <1>3, <1>4, FlushedWrong, BubbleEmpty DEF Carries, Same
<1>6. QED
  BY <1>1, <1>2, <1>3, <1>4, <1>5

\* What ID, RR and EX1 hold after a cycle in which the pipeline moves.
LEMMA FrontSteps ==
  ASSUME TypeOK, NEW stall \in BOOLEAN, NEW s \in Shape, NEW m,
         m \in {"redirect", "id_stall", "advance"}, m = "id_stall" => ~pred_taken_q,
         Stages(m, stall, FALSE, s)
  PROVE  /\ m \in {"advance", "id_stall"} => rr_ex1_q' = [id_rr_q EXCEPT !.opnd = rs_bypassed]
         /\ m = "advance" =>
              /\ id_rr_q' = [if_id_q EXCEPT !.sel = fwd_sel(if_id_q.rs, id_rr_q, rr_ex1_q,
                                               ex1_ex2_q, ex2_mem1_q, mem1_mem1b_q, mem1_mem2_q)]
              /\ if_id_q' = IF pred_taken_q THEN Bubble ELSE IfId(s)
         /\ m = "id_stall" => id_rr_q' = Bubble /\ if_id_q' = if_id_q
         /\ m = "redirect" => rr_ex1_q' = Bubble /\ id_rr_q' = Bubble /\ if_id_q' = Bubble
<1>1. CASE m = "redirect"
  BY <1>1 DEF Stages, RrEx1Next, IdRrNext, IfIdNext, rr_ex1_flush, id_rr_flush, if_id_flush
<1>2. CASE m = "id_stall"
  BY <1>2 DEF Stages, RrEx1Next, IdRrNext, IfIdNext, rr_ex1_flush, id_rr_flush, if_id_flush,
              rr_ex1_en, front_en
<1>3. CASE m = "advance"
  BY <1>3 DEF Stages, RrEx1Next, IdRrNext, IfIdNext, rr_ex1_flush, id_rr_flush, if_id_flush,
              rr_ex1_en, front_en
<1>4. QED
  BY <1>1, <1>2, <1>3

\* What is fetched writes a register only if its class does, and a jump that is
\* not predicted redirects.
LEMMA DecodedStep ==
  ASSUME "FLOAD" \notin Kinds, "JUMP" \notin Kinds \/ ~Predict,
         TypeOK, Flow, FrontDecoded, NEW stall \in BOOLEAN, NEW s \in Presented(stall), NEW m,
         Stages(m, stall, FALSE, s),
         m = "hold" => combined_stall(stall),
         m = "redirect" => redirect_q,
         m # "redirect" /\ m # "hold" => ~combined_stall(stall)
  PROVE  FrontDecoded'
<1>1. Decoded(Bubble)
  BY DEF Decoded, Bubble
<1>2. Decoded(IfId(s))
  <2>1. CASE s.kind = "NOP"
    BY <1>1, <2>1 DEF IfId
  <2>2. CASE s.kind # "NOP"
    <3>1. s \in Shapes
      BY <2>2 DEF Presented, Filler
    <3>2. /\ s.rd # 0 => s.kind \in {"ALU", "MUL", "CSR", "LOAD", "JUMP"}
          /\ s.kind = "JUMP" => s.dir_miss
      BY <3>1, PredictAssumption DEF Shapes, Shape, Fetchable
    <3>3. IfId(s).rd = s.rd /\ IfId(s).kind = s.kind /\ IfId(s).dir_miss = s.dir_miss
      BY <2>2 DEF IfId, Bubble
    <3>4. QED
      BY <3>2, <3>3 DEF Decoded
  <2>3. QED
    BY <2>1, <2>2
<1>3. Decoded(if_id_q')
  BY <1>1, <1>2 DEF Stages, IfIdNext, FrontDecoded
<1>4. Decoded(id_rr_q')
  BY <1>1 DEF Stages, IdRrNext, FrontDecoded, Decoded, TypeOK, Latch
<1>5. Decoded(rr_ex1_q')
  BY <1>1 DEF Stages, RrEx1Next, FrontDecoded, Decoded, TypeOK, Latch
<1>6. Decoded(ex1_ex2_q')
  BY <1>1 DEF Stages, Ex1Ex2Next, FrontDecoded, Decoded, TypeOK, Latch
<1>7. QED
  BY <1>3, <1>4, <1>5, <1>6 DEF FrontDecoded, Decoded

\* EX1 computes the value of an addition, the multiplier that of the
\* multiplication it was started for, and the memory stages keep it.
LEMMA ComputedStep ==
  ASSUME TypeOK, Flow, UnitOwned, FrontDecoded, BackComputed,
         NEW stall \in BOOLEAN, NEW s, NEW m, Stages(m, stall, FALSE, s),
         m = "hold" => combined_stall(stall),
         m = "redirect" => redirect_q,
         m # "redirect" /\ m # "hold" => ~combined_stall(stall)
  PROVE  BackComputed'
<1>1. Computed(Bubble)
  BY BubbleEmpty DEF Computed
<1>2. CASE m = "hold"
  <2>1. /\ mem_wb_q' = mem_wb_q /\ mem1_mem2_q' = mem1_mem2_q /\ mem1_mem1b_q' = mem1_mem1b_q
        /\ ex2_mem1_q' \in {ex2_mem1_q, Bubble} /\ ex1_ex2_q' \in {ex1_ex2_q, Bubble}
    BY <1>2, SlotsHold
  <2>2. /\ Computed(mem_wb_q') /\ Computed(mem1_mem2_q') /\ Computed(mem1_mem1b_q')
        /\ Computed(ex2_mem1_q') /\ Computed(ex1_ex2_q')
    BY <1>1, <2>1 DEF BackComputed
  <2>3. QED
    BY <2>2 DEF BackComputed, Computed
<1>3. CASE m # "hold"
  <2>1. /\ mem_wb_q' = mem1_mem2_q
        /\ Carries(mem1_mem2_q', mem1_mem1b_q) /\ Carries(mem1_mem1b_q', ex2_mem1_q)
        /\ mem1_mem2_q'.valid => mem1_mem2_q'.res = mem1_mem1b_q.res
        /\ mem1_mem1b_q'.valid => mem1_mem1b_q'.res = ex2_mem1_q.res
        /\ ex2_mem1_q'.valid => ex2_mem1_q' = ex1_ex2_q
        /\ ex1_ex2_q'.valid =>
             \/ ex1_ex2_q' = ex1_ex2_q
             \/ /\ ex1_ex2_q'.res = ex_result /\ ~combined_stall(stall)
                /\ rr_ex1_q.valid /\ Same(ex1_ex2_q', rr_ex1_q)
    BY <1>3, SlotsMove
  <2>2. Computed(mem_wb_q') /\ Computed(mem1_mem2_q') /\ Computed(mem1_mem1b_q')
    BY <2>1 DEF BackComputed, Computed, Carries, Same
  <2>3. Computed(ex2_mem1_q')
    BY <2>1 DEF BackComputed, Computed
  <2>4. Computed(ex1_ex2_q')
    <3>1. CASE ex1_ex2_q' = ex1_ex2_q
      BY <3>1 DEF BackComputed
    <3> SUFFICES ASSUME ex1_ex2_q' # ex1_ex2_q, ex1_ex2_q'.valid, ex1_ex2_q'.rd # 0
                 PROVE  \/ ex1_ex2_q'.kind \in {"CSR", "LOAD", "JUMP"}
                        \/ ex1_ex2_q'.kind \in {"ALU", "MUL"} /\ ex1_ex2_q'.res = ex1_ex2_q'.pc
      BY <3>1 DEF Computed
    <3>2. /\ rr_ex1_q.valid /\ rr_ex1_q.rd # 0 /\ ex1_ex2_q'.kind = rr_ex1_q.kind
          /\ ex1_ex2_q'.pc = rr_ex1_q.pc /\ ex1_ex2_q'.res = ex_result
          /\ ~combined_stall(stall)
      BY <2>1 DEF Same
    <3>3. rr_ex1_q.kind \in {"ALU", "MUL", "CSR", "LOAD", "JUMP"}
      BY <3>2 DEF FrontDecoded, Decoded
    <3>4. CASE rr_ex1_q.kind = "ALU"
      BY <3>2, <3>4 DEF ex_result, is_muldiv
    <3>5. CASE rr_ex1_q.kind = "MUL"
      <4>1. md_state = "DONE"
        BY <3>2, <3>5 DEF combined_stall, muldiv_stall, muldiv_valid, is_muldiv
      <4>2. ex_result = rr_ex1_q.pc
        BY <3>5, <4>1 DEF UnitOwned, ex_result, is_muldiv
      <4>3. QED
        BY <3>2, <3>5, <4>2
    <3>6. QED
      BY <3>2, <3>3, <3>4, <3>5
  <2>5. QED
    BY <2>2, <2>3, <2>4 DEF BackComputed, Computed
<1>4. QED
  BY <1>2, <1>3

\* Behind a jump the redirect empties the front of the pipeline, and the first
\* instruction of the program after it is fetched while it moves on.
LEMMA JumpsStep ==
  ASSUME TypeOK, Flow, FrontDecoded, JumpsAlone,
         NEW stall \in BOOLEAN, NEW s \in Shape, NEW m, Stages(m, stall, FALSE, s),
         ExRedirect(stall), NEW pulse, FenceRedirect(stall, pulse),
         m \in {"hold", "redirect", "id_stall", "advance"},
         m = "hold" => combined_stall(stall),
         m = "redirect" => redirect_q,
         m # "redirect" /\ m # "hold" =>
           ~combined_stall(stall) /\ ~redirect_q,
         m = "id_stall" => ~pred_taken_q
  PROVE  JumpsAlone'
<1> USE DEF ExRedirect, FenceRedirect
<1>1. ~Right(Bubble) /\ ~Jump(Bubble)
  BY BubbleEmpty DEF Right, Jump
<1>2. CASE m = "hold"
  <2>1. ex_redirect_q' = ex_redirect_q /\ fence_i_redirect_q' = fence_i_redirect_q
    BY <1>2
  <2>2. /\ mem1_mem2_q' = mem1_mem2_q /\ mem1_mem1b_q' = mem1_mem1b_q
        /\ rr_ex1_q' = rr_ex1_q /\ id_rr_q' = id_rr_q /\ if_id_q' = if_id_q
        /\ Right(ex1_ex2_q') <=> Right(ex1_ex2_q) 
        /\ Jump(ex2_mem1_q') => Jump(ex2_mem1_q)
    BY <1>2, SlotsHold, TagCarried
  <2>3. QED
    BY <2>1, <2>2 DEF JumpsAlone, Jump, Right
<1>3. CASE m # "hold"
  <2>1. /\ Jump(mem1_mem2_q') => Jump(mem1_mem1b_q)
        /\ Jump(mem1_mem1b_q') => Jump(ex2_mem1_q)
        /\ ex2_mem1_q'.valid => ex2_mem1_q' = ex1_ex2_q
        /\ Right(ex1_ex2_q') <=> Right(rr_ex1_q)
    BY <1>3, SlotsMove, TagCarried
  <2>2. /\ m \in {"advance", "id_stall"} => rr_ex1_q' = [id_rr_q EXCEPT !.opnd = rs_bypassed]
        /\ m = "advance" =>
             id_rr_q' = [if_id_q EXCEPT !.sel = fwd_sel(if_id_q.rs, id_rr_q, rr_ex1_q,
                                          ex1_ex2_q, ex2_mem1_q, mem1_mem1b_q, mem1_mem2_q)]
        /\ m = "id_stall" => id_rr_q' = Bubble /\ if_id_q' = if_id_q
        /\ m = "redirect" => rr_ex1_q' = Bubble /\ id_rr_q' = Bubble /\ if_id_q' = Bubble
    BY <1>3, FrontSteps
  <2>3. /\ Right(rr_ex1_q') => Right(id_rr_q)
        /\ Right(id_rr_q') => Right(if_id_q)
    BY <1>1, <1>3, <2>2 DEF Right, TypeOK, Latch
  <2>4. Jump(ex2_mem1_q') => ex_redirect_q' \/ fence_i_redirect_q'
    <3> SUFFICES ASSUME Jump(ex2_mem1_q') PROVE ex_redirect_q' \/ fence_i_redirect_q'
      OBVIOUS
    <3>1. ex1_ex2_q.valid /\ ex1_ex2_q.dir_miss
      BY <2>1 DEF Jump, FrontDecoded, Decoded
    <3>2. ~ex_redirect_q /\ ~mem_redirect_q
      BY <3>1 DEF Flow, OrderFlow, RedirectFlow
    <3>3. CASE combined_stall(stall)
      BY <1>3, <3>2, <3>3 DEF redirect_q
    <3>4. CASE ~combined_stall(stall)
      BY <3>1, <3>4 DEF ex_redirect_d
    <3>5. QED
      BY <3>3, <3>4
  <2>5. ASSUME Jump(mem1_mem1b_q')
        PROVE  ~Right(ex1_ex2_q') /\ ~Right(rr_ex1_q') /\ ~Right(id_rr_q') /\ ~Right(if_id_q')
    <3>1. redirect_q
      BY <2>1, <2>5 DEF JumpsAlone, redirect_q
    <3>2. m = "redirect" /\ ~Right(rr_ex1_q)
      BY <1>3, <3>1, FlushedWrong
    <3>3. QED
      BY <1>1, <2>1, <2>2, <3>2
  <2>6. ASSUME Jump(mem1_mem2_q')
        PROVE  ~Right(ex1_ex2_q') /\ ~Right(rr_ex1_q') /\ ~Right(id_rr_q')
    BY <2>1, <2>3, <2>6 DEF JumpsAlone
  <2>7. QED
    BY <2>4, <2>5, <2>6 DEF JumpsAlone, Jump, Right
<1>4. QED
  BY <1>2, <1>3

\* The forwarding unit and the load-use stall read the class, the destination
\* and the valid bit of a slot.
LEMMA SameSelect ==
  ASSUME NEW c, NEW d, c.rs = d.rs,
         NEW p1, NEW p2, NEW p3, NEW p4, NEW p5, NEW p6,
         NEW q1, NEW q2, NEW q3, NEW q4, NEW q5, NEW q6,
         Same(q1, p1), Same(q2, p2), Same(q3, p3), Same(q4, p4), Same(q5, p5), Same(q6, p6)
  PROVE  /\ fwd_sel(d.rs, q1, q2, q3, q4, q5, q6) = fwd_sel(c.rs, p1, p2, p3, p4, p5, p6)
         /\ load_use(d, q1, q2, q3, q4, q5, q6) => load_use(c, p1, p2, p3, p4, p5, p6)
<1>1. \A p, q : Same(q, p) => /\ Matches(q, d.rs) <=> Matches(p, c.rs)
                              /\ Waits(q, d) <=> Waits(p, c)
  BY DEF Same, Matches, Waits, is_load
<1>2. fwd_sel(d.rs, q1, q2, q3, q4, q5, q6) = fwd_sel(c.rs, p1, p2, p3, p4, p5, p6)
  <2>1. q6.valid = p6.valid /\ q6.rd = p6.rd
    BY DEF Same
  <2>2. QED
    BY <1>1, <2>1 DEF fwd_sel
<1>3. load_use(d, q1, q2, q3, q4, q5, q6) => load_use(c, p1, p2, p3, p4, p5, p6)
  BY <1>1 DEF load_use
<1>4. QED
  BY <1>2, <1>3

\* The select stays right: it moves into RR with the slots it is about, and in RR
\* they wait together.
LEMMA SelectStep ==
  ASSUME TypeOK, Flow, SelectMoved,
         NEW stall \in BOOLEAN, NEW s \in Shape, NEW m, m = hazard(stall),
         Stages(m, stall, FALSE, s),
         m \in {"hold", "redirect", "id_stall", "advance"},
         m = "hold" => combined_stall(stall),
         m = "redirect" => redirect_q,
         m # "redirect" /\ m # "hold" => ~combined_stall(stall),
         m = "id_stall" => ~pred_taken_q
  PROVE  SelectMoved'
<1> SUFFICES ASSUME Right(id_rr_q'), id_rr_q'.rs # 0
             PROVE  /\ id_rr_q'.sel = fwd_sel(id_rr_q'.rs, rr_ex1_q', ex1_ex2_q', ex2_mem1_q',
                                              mem1_mem1b_q', mem1_mem2_q', mem_wb_q')
                    /\ ~load_use(id_rr_q', rr_ex1_q', ex1_ex2_q', ex2_mem1_q', mem1_mem1b_q',
                                 mem1_mem2_q', mem_wb_q')
  BY DEF SelectMoved, Right, fwd_sel, load_use, Matches, Waits, is_load
<1>1. CASE m = "hold"
  <2>1. /\ mem_wb_q' = mem_wb_q /\ mem1_mem2_q' = mem1_mem2_q /\ mem1_mem1b_q' = mem1_mem1b_q
        /\ rr_ex1_q' = rr_ex1_q /\ id_rr_q' = id_rr_q
        /\ ~mem_redirect_any /\ ~ex_redirect_q =>
             ex2_mem1_q' = ex2_mem1_q /\ ex1_ex2_q' = ex1_ex2_q
    BY <1>1, SlotsHold
  <2>2. ~mem_redirect_any /\ ~ex_redirect_q
    BY <2>1, FlushedWrong DEF redirect_q
  <2>3. QED
    BY <2>1, <2>2 DEF SelectMoved
<1>2. CASE m # "hold"
  <2>1. m = "advance"
    BY <1>2, FrontSteps, BubbleEmpty DEF Right
  <2>2. /\ rr_ex1_q' = [id_rr_q EXCEPT !.opnd = rs_bypassed]
        /\ id_rr_q' = [if_id_q EXCEPT !.sel = fwd_sel(if_id_q.rs, id_rr_q, rr_ex1_q,
                                         ex1_ex2_q, ex2_mem1_q, mem1_mem1b_q, mem1_mem2_q)]
    BY <2>1, FrontSteps
  <2>3. Same(rr_ex1_q', id_rr_q)
    BY <2>2 DEF Same, TypeOK, Latch
  <2>4. /\ id_rr_q'.rs = if_id_q.rs /\ id_rr_q'.valid = if_id_q.valid /\ id_rr_q'.pc = if_id_q.pc
        /\ id_rr_q'.sel = fwd_sel(if_id_q.rs, id_rr_q, rr_ex1_q,
                                  ex1_ex2_q, ex2_mem1_q, mem1_mem1b_q, mem1_mem2_q)
    BY <2>2 DEF TypeOK, Latch
  <2>5. Right(if_id_q)
    BY <2>4 DEF Right
  <2>6. ~mem_redirect_any /\ ~redirect_q /\ ~ex_redirect_d
    BY <2>5, FlushedWrong
  <2>7. /\ Same(mem1_mem2_q', mem1_mem1b_q) /\ Same(mem1_mem1b_q', ex2_mem1_q)
        /\ Same(ex2_mem1_q', ex1_ex2_q) /\ Same(ex1_ex2_q', rr_ex1_q)
        /\ mem_wb_q' = mem1_mem2_q
    BY <1>2, <2>6, SlotsMove
  <2>8. Same(mem_wb_q', mem1_mem2_q)
    BY <2>7 DEF Same
  <2>9. ~load_use(if_id_q, id_rr_q, rr_ex1_q, ex1_ex2_q, ex2_mem1_q, mem1_mem1b_q, mem1_mem2_q)
    BY <2>1 DEF hazard, mode, raw_stall_id
  <2>10. QED
    BY <2>3, <2>4, <2>7, <2>8, <2>9, SameSelect
<1>3. QED
  BY <1>1, <1>2

\* In front of an instruction of the program in RR, every valid slot holds one,
\* and no jump is where its link address would be looked for on a bus.
LEMMA AheadRight ==
  ASSUME TypeOK, Flow, FrontDecoded, JumpsAlone, Right(id_rr_q)
  PROVE  /\ \A p \in {rr_ex1_q, ex1_ex2_q, ex2_mem1_q, mem1_mem1b_q, mem1_mem2_q, mem_wb_q} :
              p.valid => p.pc # Wrong
         /\ \A p \in {rr_ex1_q, ex1_ex2_q, ex2_mem1_q, mem1_mem1b_q, mem1_mem2_q} : ~Jump(p)
<1>1. ~ex_redirect_q /\ ~mem_redirect_q /\ ~fence_i_redirect_q
  BY FlushedWrong DEF redirect_q
<1>2. DueRr # Wrong
  BY <1>1 DEF Flow, OrderFlow, FrontFlow, At, Right
<1>3. DueEx1 # Wrong /\ ~(rr_ex1_q.valid /\ rr_ex1_q.dir_miss)
  BY <1>2, EmptyDue DEF DueRr, PastEx
<1>4. DueEx2 # Wrong /\ ~(ex1_ex2_q.valid /\ ex1_ex2_q.dir_miss)
  BY <1>3, EmptyDue DEF DueEx1, PastEx
<1>5. DueMem1 # Wrong
  BY <1>4, EmptyDue DEF DueEx2
<1>6. DueMem1b # Wrong
  BY <1>5, EmptyDue DEF DueMem1
<1>7. DueMem2 # Wrong
  BY <1>6, EmptyDue DEF DueMem1b
<1>8. DueWb # Wrong
  BY DEF DueWb, Flow, OrderFlow, BackFlow, TypeOK, Wrong
<1>9. \A p \in {rr_ex1_q, ex1_ex2_q, ex2_mem1_q, mem1_mem1b_q, mem1_mem2_q, mem_wb_q} :
        p.valid => p.pc # Wrong
  BY <1>1, <1>3, <1>4, <1>5, <1>6, <1>7, <1>8 DEF Flow, OrderFlow, BackFlow, FrontFlow, At
<1>10. ~Jump(rr_ex1_q) /\ ~Jump(ex1_ex2_q)
  BY <1>3, <1>4 DEF FrontDecoded, Decoded, Jump
<1>11. ~Jump(ex2_mem1_q) /\ ~Jump(mem1_mem1b_q) /\ ~Jump(mem1_mem2_q)
  BY <1>1 DEF JumpsAlone
<1>12. QED
  BY <1>9, <1>10, <1>11

\* The bypass mux gives an instruction of the program the value of the last
\* writer of its register ahead of it, or that writer is a CSR access in EX1.
LEMMA BypassRight ==
  ASSUME TypeOK, Flow, UnitOwned, FrontDecoded, BackComputed, JumpsAlone, SelectMoved,
         Right(id_rr_q), id_rr_q.rs # 0, ~muldiv_stall
  PROVE  \/ rs_bypassed = RegRr(id_rr_q.rs)
         \/ /\ id_rr_q.sel = "FWD_EX1_NOW" /\ rr_ex1_q.valid /\ is_csr(rr_ex1_q)
            /\ rr_ex1_q.pc = RegRr(id_rr_q.rs)
<1> DEFINE r == id_rr_q.rs
           Slots == {rr_ex1_q, ex1_ex2_q, ex2_mem1_q, mem1_mem1b_q, mem1_mem2_q}
<1>1. /\ \A p \in Slots : p.valid => p.pc # Wrong /\ p.kind # "JUMP"
      /\ mem_wb_q.valid => mem_wb_q.pc # Wrong
  BY AheadRight DEF Jump
<1>2. \A p \in Slots : ~(p.valid /\ is_load(p) /\ p.rd = r)
  BY DEF SelectMoved, load_use, Waits
<1>3. id_rr_q.sel = fwd_sel(r, rr_ex1_q, ex1_ex2_q, ex2_mem1_q, mem1_mem1b_q,
                            mem1_mem2_q, mem_wb_q)
  BY DEF SelectMoved
<1>4. \A p \in Slots : /\ Matches(p, r) => RegTag(p, r) = p.pc /\ p.pc # Wrong
                       /\ ~Matches(p, r) => RegTag(p, r) = Wrong
  BY <1>1, <1>2 DEF Matches, RegTag
<1>5. \A p \in Slots \ {rr_ex1_q} : Matches(p, r) => slot_value(p) = p.pc
  <2> SUFFICES ASSUME NEW p \in Slots, p # rr_ex1_q, Matches(p, r) PROVE slot_value(p) = p.pc
    OBVIOUS
  <2>1. Computed(p)
    BY DEF BackComputed
  <2>2. p.kind = "CSR" \/ (p.kind \in {"ALU", "MUL"} /\ p.res = p.pc)
    BY <1>1, <2>1 DEF Computed, Matches, is_load
  <2>3. QED
    BY <2>2 DEF slot_value, is_csr
<1>6. \A c : Last(c, Wrong) = c
  BY DEF Last
<1>7. \A c, t : t # Wrong => Last(c, t) = t
  BY DEF Last
<1>8. CASE Matches(rr_ex1_q, r)
  <2>1. id_rr_q.sel = "FWD_EX1_NOW" /\ rs_bypassed = ex_result
    BY <1>3, <1>8 DEF fwd_sel, rs_bypassed
  <2>2. RegRr(r) = rr_ex1_q.pc
    BY <1>4, <1>7, <1>8 DEF RegRr
  <2>3. rr_ex1_q.valid /\ rr_ex1_q.kind \in {"ALU", "MUL", "CSR"}
    BY <1>1, <1>8 DEF Matches, is_load, FrontDecoded, Decoded
  <2>4. rr_ex1_q.kind = "ALU" => ex_result = rr_ex1_q.pc
    BY DEF ex_result, is_muldiv
  <2>5. rr_ex1_q.kind = "MUL" => ex_result = rr_ex1_q.pc
    BY <2>3 DEF ex_result, is_muldiv, muldiv_stall, muldiv_valid, UnitOwned
  <2>6. QED
    BY <2>1, <2>2, <2>3, <2>4, <2>5 DEF is_csr
<1>9. CASE ~Matches(rr_ex1_q, r)
  <2>1. RegRr(r) = RegEx1(r)
    BY <1>4, <1>6, <1>9 DEF RegRr
  <2>2. CASE Matches(ex1_ex2_q, r)
    <3>1. rs_bypassed = slot_value(ex1_ex2_q)
      BY <1>3, <1>9, <2>2 DEF fwd_sel, rs_bypassed
    <3>2. RegEx1(r) = ex1_ex2_q.pc
      BY <1>4, <1>7, <2>2 DEF RegEx1
    <3>3. slot_value(ex1_ex2_q) = ex1_ex2_q.pc
      BY <1>5, <1>9, <2>2
    <3>4. QED
      BY <2>1, <3>1, <3>2, <3>3
  <2>3. CASE ~Matches(ex1_ex2_q, r)
    <3>1. RegEx1(r) = RegEx2(r)
      BY <1>4, <1>6, <2>3 DEF RegEx1
    <3>2. CASE Matches(ex2_mem1_q, r)
      <4>1. rs_bypassed = slot_value(ex2_mem1_q)
        BY <1>3, <1>9, <2>3, <3>2 DEF fwd_sel, rs_bypassed
      <4>2. RegEx2(r) = ex2_mem1_q.pc
        BY <1>4, <1>7, <3>2 DEF RegEx2
      <4>3. QED
        BY <1>5, <1>9, <2>1, <3>1, <3>2, <4>1, <4>2
    <3>3. CASE ~Matches(ex2_mem1_q, r) /\ Matches(mem1_mem1b_q, r)
      <4>1. rs_bypassed = slot_value(mem1_mem1b_q)
        BY <1>3, <1>9, <2>3, <3>3 DEF fwd_sel, rs_bypassed
      <4>2. RegEx2(r) = mem1_mem1b_q.pc
        BY <1>4, <1>6, <1>7, <3>3 DEF RegEx2
      <4>3. QED
        BY <1>5, <1>9, <2>1, <3>1, <3>3, <4>1, <4>2
    <3>4. CASE ~Matches(ex2_mem1_q, r) /\ ~Matches(mem1_mem1b_q, r) /\ Matches(mem1_mem2_q, r)
      <4>1. rs_bypassed = slot_value(mem1_mem2_q)
        BY <1>3, <1>9, <2>3, <3>4 DEF fwd_sel, rs_bypassed
      <4>2. RegEx2(r) = mem1_mem2_q.pc
        BY <1>4, <1>6, <1>7, <3>4 DEF RegEx2
      <4>3. QED
        BY <1>5, <1>9, <2>1, <3>1, <3>4, <4>1, <4>2
    <3>5. CASE ~Matches(ex2_mem1_q, r) /\ ~Matches(mem1_mem1b_q, r) /\ ~Matches(mem1_mem2_q, r)
      <4>1. RegEx2(r) = Last(regfile[r], RegTag(mem_wb_q, r))
        BY <1>4, <1>6, <3>5 DEF RegEx2
      <4>2. CASE mem_wb_q.valid /\ mem_wb_q.rd = r
        <5>1. rs_bypassed = wb_result
          BY <1>3, <1>9, <2>3, <3>5, <4>2 DEF fwd_sel, rs_bypassed
        <5>2. wb_result = mem_wb_q.pc
          BY <4>2 DEF BackComputed, Computed, wb_result
        <5>3. RegEx2(r) = mem_wb_q.pc
          BY <1>1, <1>7, <4>1, <4>2 DEF RegTag
        <5>4. QED
          BY <2>1, <3>1, <5>1, <5>2, <5>3
      <4>3. CASE ~(mem_wb_q.valid /\ mem_wb_q.rd = r)
        <5>1. rs_bypassed = rs_data_rr
          BY <1>3, <1>9, <2>3, <3>5, <4>3 DEF fwd_sel, rs_bypassed
        <5>2. rs_data_rr = regfile[r]
          BY <4>3 DEF rs_data_rr, rd_wen
        <5>3. RegEx2(r) = regfile[r]
          BY <1>6, <4>1, <4>3 DEF RegTag
        <5>4. QED
          BY <2>1, <3>1, <5>1, <5>2, <5>3
      <4>4. QED
        BY <4>2, <4>3
    <3>6. QED
      BY <3>2, <3>3, <3>4, <3>5
  <2>4. QED
    BY <2>2, <2>3
<1>10. QED
  BY <1>8, <1>9

\* The operand that moves into EX1 is the one wanted.
LEMMA OperandStep ==
  ASSUME TypeOK, Flow, UnitOwned, OperandInv,
         NEW stall \in BOOLEAN, NEW s \in Shape, NEW m,
         Stages(m, stall, FALSE, s),
         m \in {"hold", "redirect", "id_stall", "advance"},
         m = "hold" => combined_stall(stall),
         m = "redirect" => redirect_q,
         m # "redirect" /\ m # "hold" => ~combined_stall(stall),
         m = "id_stall" => ~pred_taken_q
  PROVE  FreshOperand'
<1> SUFFICES ASSUME rr_ex1_q'.valid, rr_ex1_q'.pc > 0, rr_ex1_q'.rs # 0
             PROVE  \/ rr_ex1_q'.opnd = rr_ex1_q'.want
                    \/ /\ rr_ex1_q'.sel = "FWD_EX1_NOW"
                       /\ is_csr(ex1_ex2_q') /\ ex1_ex2_q'.pc = rr_ex1_q'.want
  BY DEF FreshOperand, Erratum110, is_csr
<1>1. CASE m = "hold"
  <2>1. /\ rr_ex1_q' = rr_ex1_q
        /\ ~mem_redirect_any /\ ~ex_redirect_q => ex1_ex2_q' = ex1_ex2_q
    BY <1>1, SlotsHold
  <2>2. Right(rr_ex1_q)
    BY <2>1 DEF Right, Wrong
  <2>3. ex1_ex2_q' = ex1_ex2_q
    BY <2>1, <2>2, FlushedWrong DEF redirect_q
  <2>4. QED
    BY <2>1, <2>3 DEF OperandInv, FreshOperand, Erratum110
<1>2. CASE m # "hold"
  <2>1. m \in {"id_stall", "advance"}
    BY <1>2, FrontSteps, BubbleEmpty
  <2>2. rr_ex1_q' = [id_rr_q EXCEPT !.opnd = rs_bypassed]
    BY <2>1, FrontSteps
  <2>3. /\ rr_ex1_q'.valid = id_rr_q.valid /\ rr_ex1_q'.pc = id_rr_q.pc
        /\ rr_ex1_q'.rs = id_rr_q.rs /\ rr_ex1_q'.sel = id_rr_q.sel
        /\ rr_ex1_q'.want = id_rr_q.want /\ rr_ex1_q'.opnd = rs_bypassed
    BY <2>2 DEF TypeOK, Latch
  <2>4. Right(id_rr_q) /\ id_rr_q.rs # 0
    BY <2>3 DEF Right, Wrong
  <2>5. rr_ex1_q'.want = RegRr(id_rr_q.rs)
    <3>1. id_rr_q.rs \in Reg \ {0}
      BY <2>4 DEF TypeOK, Latch
    <3>2. WriterFlow
      BY DEF OperandInv
    <3>3. QED
      BY <2>3, <2>4, <3>1, <3>2 DEF WriterFlow
  <2>6. ~muldiv_stall
    BY <2>1 DEF combined_stall
  <2>7. \/ rs_bypassed = RegRr(id_rr_q.rs)
        \/ /\ id_rr_q.sel = "FWD_EX1_NOW" /\ rr_ex1_q.valid /\ is_csr(rr_ex1_q)
           /\ rr_ex1_q.pc = RegRr(id_rr_q.rs)
    BY <2>4, <2>6, BypassRight DEF OperandInv
  <2>8. Same(ex1_ex2_q', rr_ex1_q)
    BY <1>2, <2>4, FlushedWrong, SlotsMove
  <2>9. QED
    BY <2>3, <2>5, <2>7, <2>8 DEF Same, is_csr
<1>3. QED
  BY <1>1, <1>2

\* WB writes the program's value into the register file, in every cycle it holds
\* the instruction.
LEMMA WbWrites ==
  ASSUME TypeOK, Flow, BackComputed, NEW stall, Retire(stall), NEW r \in Reg \ {0}
  PROVE  regfile'[r] = Last(regfile[r], RegTag(mem_wb_q, r))
<1>1. mem_wb_q.valid => mem_wb_q.pc # Wrong
  BY DEF Flow, OrderFlow, BackFlow, At, DueWb, TypeOK, Wrong
<1>2. rd_wen => wb_result = mem_wb_q.pc
  BY DEF rd_wen, wb_result, BackComputed, Computed
<1>3. CASE rd_wen /\ mem_wb_q.rd = r
  <2>1. regfile'[r] = wb_result
    BY <1>3 DEF Retire, TypeOK
  <2>2. QED
    BY <1>1, <1>2, <1>3, <2>1 DEF Last, RegTag, rd_wen
<1>4. CASE ~(rd_wen /\ mem_wb_q.rd = r)
  <2>1. regfile'[r] = regfile[r]
    BY <1>4 DEF Retire, TypeOK
  <2>2. QED
    BY <1>4, <2>1 DEF Last, RegTag, rd_wen
<1>5. QED
  BY <1>3, <1>4

\* A cycle in which nothing moves, the write of WB excepted, which a second one
\* of the same instruction does not change.
LEMMA WriterHolds ==
  ASSUME TypeOK, Flow, OperandInv, NEW stall \in BOOLEAN, NEW s, NEW m, m = "hold",
         Stages(m, stall, FALSE, s), Retire(stall), ProgramOrder(m, s),
         combined_stall(stall)
  PROVE  WriterFlow'
<1>1. /\ mem_wb_q' = mem_wb_q /\ mem1_mem2_q' = mem1_mem2_q /\ mem1_mem1b_q' = mem1_mem1b_q
      /\ rr_ex1_q' = rr_ex1_q /\ id_rr_q' = id_rr_q /\ if_id_q' = if_id_q
      /\ \A r : RegTag(ex2_mem1_q', r) = RegTag(ex2_mem1_q, r)
      /\ \A r : RegTag(ex1_ex2_q', r) = RegTag(ex1_ex2_q, r)
  <2>1. Carries(ex2_mem1_q', ex2_mem1_q) /\ Carries(ex1_ex2_q', ex1_ex2_q)
    BY SlotsHold
  <2>2. /\ \A r : RegTag(ex2_mem1_q', r) = RegTag(ex2_mem1_q, r)
        /\ \A r : RegTag(ex1_ex2_q', r) = RegTag(ex1_ex2_q, r)
    BY <2>1, TagCarried
  <2>3. QED
    BY <2>2, SlotsHold
<1>2. writer' = writer
  BY DEF ProgramOrder, Captured
<1>3. ASSUME NEW r \in Reg \ {0}
      PROVE  RegRr(r)' = RegRr(r)
  <2>1. regfile'[r] = Last(regfile[r], RegTag(mem_wb_q, r))
    BY WbWrites DEF OperandInv
  <2>2. Last(regfile'[r], RegTag(mem_wb_q, r)) = Last(regfile[r], RegTag(mem_wb_q, r))
    BY <2>1 DEF Last
  <2>3. RegRr(r)' = Last(Last(Last(Last(Last(Last(regfile'[r], RegTag(mem_wb_q', r)),
                      RegTag(mem1_mem2_q', r)), RegTag(mem1_mem1b_q', r)),
                      RegTag(ex2_mem1_q', r)), RegTag(ex1_ex2_q', r)), RegTag(rr_ex1_q', r))
    BY DEF RegRr, RegEx1, RegEx2, RegTag, Last
  <2>4. QED
    BY <1>1, <2>2, <2>3 DEF RegRr, RegEx1, RegEx2
<1>4. ASSUME NEW r \in Reg \ {0}
      PROVE  RegId(r)' = RegId(r) /\ RegFetch(r)' = RegFetch(r)
  BY <1>1, <1>3 DEF RegId, RegFetch, RegTag, Last
<1>5. QED
  BY <1>1, <1>2, <1>3, <1>4 DEF OperandInv, WriterFlow, Right

\* A cycle in which the pipeline moves, for the thread of one register.
LEMMA ThreadMoves ==
  ASSUME TypeOK, Flow, OperandInv, NEW stall \in BOOLEAN, NEW s \in Shape, NEW m,
         m \in {"redirect", "id_stall", "advance"},
         Stages(m, stall, FALSE, s), Retire(stall),
         m = "redirect" => redirect_q,
         m # "redirect" => ~combined_stall(stall),
         m = "id_stall" => ~pred_taken_q, NEW r \in Reg \ {0}
  PROVE  /\ m = "advance" => /\ RegRr(r)' = RegId(r) /\ RegId(r)' = RegFetch(r)
                             /\ RegFetch(r)' = Last(RegFetch(r), RegTag(if_id_q', r))
         /\ m = "id_stall" => RegId(r)' = RegId(r) /\ RegFetch(r)' = RegFetch(r)
         /\ m = "redirect" => RegFetch(r)' = RegFetch(r)
<1>1. regfile'[r] = Last(regfile[r], RegTag(mem_wb_q, r))
  BY WbWrites DEF OperandInv
<1>2. /\ RegTag(mem_wb_q', r) = RegTag(mem1_mem2_q, r)
      /\ RegTag(mem1_mem2_q', r) = RegTag(mem1_mem1b_q, r)
      /\ RegTag(mem1_mem1b_q', r) = RegTag(ex2_mem1_q, r)
      /\ RegTag(ex2_mem1_q', r) = RegTag(ex1_ex2_q, r)
      /\ RegTag(ex1_ex2_q', r) = RegTag(rr_ex1_q, r)
  <2>1. m # "hold"
    OBVIOUS
  <2>2. /\ mem_wb_q' = mem1_mem2_q
        /\ Carries(mem1_mem2_q', mem1_mem1b_q) /\ Carries(mem1_mem1b_q', ex2_mem1_q)
        /\ Carries(ex2_mem1_q', ex1_ex2_q) /\ Agrees(ex1_ex2_q', rr_ex1_q)
    BY <2>1, SlotsMove
  <2>3. QED
    BY <2>2, TagCarried
<1>3. RegEx1(r)' = RegRr(r)
  <2>1. RegEx1(r)' = Last(Last(Last(Last(Last(regfile'[r], RegTag(mem_wb_q', r)),
                       RegTag(mem1_mem2_q', r)), RegTag(mem1_mem1b_q', r)),
                       RegTag(ex2_mem1_q', r)), RegTag(ex1_ex2_q', r))
    BY DEF RegEx1, RegEx2, RegTag, Last
  <2>2. QED
    BY <1>1, <1>2, <2>1 DEF RegRr, RegEx1, RegEx2
<1>4. /\ RegRr(r)' = Last(RegEx1(r)', RegTag(rr_ex1_q', r))
      /\ RegId(r)' = Last(RegRr(r)', RegTag(id_rr_q', r))
      /\ RegFetch(r)' = Last(RegId(r)', RegTag(if_id_q', r))
  BY DEF RegRr, RegId, RegFetch, RegTag, Last
<1>5. \A c : Last(c, Wrong) = c
  BY DEF Last
<1>6. RegTag(Bubble, r) = Wrong
  BY BubbleEmpty DEF RegTag
<1>7. m \in {"id_stall", "advance"} => RegTag(rr_ex1_q', r) = RegTag(id_rr_q, r)
  <2>1. m \in {"id_stall", "advance"} => rr_ex1_q' = [id_rr_q EXCEPT !.opnd = rs_bypassed]
    BY FrontSteps
  <2>2. m \in {"id_stall", "advance"} => Same(rr_ex1_q', id_rr_q)
    BY <2>1 DEF Same, TypeOK, Latch
  <2>3. QED
    BY <2>2, TagCarried DEF Carries
<1>8. m = "advance" => RegTag(id_rr_q', r) = RegTag(if_id_q, r)
  <2>1. m = "advance" =>
          id_rr_q' = [if_id_q EXCEPT !.sel = fwd_sel(if_id_q.rs, id_rr_q, rr_ex1_q,
                                       ex1_ex2_q, ex2_mem1_q, mem1_mem1b_q, mem1_mem2_q)]
    BY FrontSteps
  <2>2. m = "advance" => Same(id_rr_q', if_id_q)
    BY <2>1 DEF Same, TypeOK, Latch
  <2>3. QED
    BY <2>2, TagCarried DEF Carries
<1>9. CASE m = "advance"
  BY <1>3, <1>4, <1>7, <1>8, <1>9 DEF RegId, RegFetch
<1>10. CASE m = "id_stall"
  <2>1. id_rr_q' = Bubble /\ if_id_q' = if_id_q
    BY <1>10, FrontSteps
  <2>2. QED
    BY <1>3, <1>4, <1>5, <1>6, <1>7, <1>10, <2>1 DEF RegId, RegFetch
<1>11. CASE m = "redirect"
  <2>1. rr_ex1_q' = Bubble /\ id_rr_q' = Bubble /\ if_id_q' = Bubble
    BY <1>11, FrontSteps
  <2>2. /\ RegTag(rr_ex1_q, r) = Wrong /\ RegTag(id_rr_q, r) = Wrong
        /\ RegTag(if_id_q, r) = Wrong
    BY <1>11, FlushedWrong, TagCarried
  <2>3. RegFetch(r)' = RegRr(r) /\ RegFetch(r) = RegRr(r)
    BY <1>3, <1>4, <1>5, <1>6, <2>1, <2>2 DEF RegId, RegFetch
  <2>4. QED
    BY <1>11, <2>3
<1>12. QED
  BY <1>9, <1>10, <1>11

\* A cycle in which the pipeline moves.
LEMMA WriterMoves ==
  ASSUME "FLOAD" \notin Kinds, TypeOK, Flow, OperandInv,
         NEW stall \in BOOLEAN, NEW s \in Presented(stall), NEW m,
         m \in {"redirect", "id_stall", "advance"},
         Stages(m, stall, FALSE, s), Retire(stall), ProgramOrder(m, s),
         m = "redirect" => redirect_q,
         m # "redirect" => ~combined_stall(stall),
         m = "id_stall" => ~pred_taken_q,
         m = "advance" => align_instr_valid \/ pred_taken_q
  PROVE  WriterFlow'
<1>1. s \in Shape /\ s.kind # "FLOAD"
  BY PresentedType DEF Presented, Shapes, Filler
<1>2. ~Right(Bubble)
  BY BubbleEmpty DEF Right
<1>3. /\ m = "advance" =>
           /\ id_rr_q' = [if_id_q EXCEPT !.sel = fwd_sel(if_id_q.rs, id_rr_q, rr_ex1_q,
                                            ex1_ex2_q, ex2_mem1_q, mem1_mem1b_q, mem1_mem2_q)]
           /\ if_id_q' = IF pred_taken_q THEN Bubble ELSE IfId(s)
      /\ m = "id_stall" => id_rr_q' = Bubble /\ if_id_q' = if_id_q
      /\ m = "redirect" => id_rr_q' = Bubble /\ if_id_q' = Bubble
  BY <1>1, FrontSteps
<1>4. m # "advance" \/ pred_taken_q => writer' = writer
  BY DEF ProgramOrder, Captured
<1> SUFFICES ASSUME NEW r \in Reg \ {0}
             PROVE  /\ writer'[r] = RegFetch(r)'
                    /\ Right(if_id_q') /\ if_id_q'.rs = r => if_id_q'.want = RegId(r)'
                    /\ Right(id_rr_q') /\ id_rr_q'.rs = r => id_rr_q'.want = RegRr(r)'
  BY DEF WriterFlow, Right
<1>5. /\ m = "advance" => /\ RegRr(r)' = RegId(r) /\ RegId(r)' = RegFetch(r)
                          /\ RegFetch(r)' = Last(RegFetch(r), RegTag(if_id_q', r))
      /\ m = "id_stall" => RegId(r)' = RegId(r) /\ RegFetch(r)' = RegFetch(r)
      /\ m = "redirect" => RegFetch(r)' = RegFetch(r)
  BY <1>1, ThreadMoves
<1>6. /\ writer[r] = RegFetch(r)
      /\ Right(if_id_q) /\ if_id_q.rs = r => if_id_q.want = RegId(r)
  <2>1. WriterFlow
    BY DEF OperandInv
  <2>2. QED
    BY <2>1 DEF WriterFlow
<1>7. CASE m \in {"redirect", "id_stall"}
  BY <1>2, <1>3, <1>4, <1>5, <1>6, <1>7
<1>8. CASE m = "advance"
  <2>1. Right(id_rr_q') /\ id_rr_q'.rs = r => id_rr_q'.want = RegRr(r)'
    <3>1. /\ id_rr_q'.valid = if_id_q.valid /\ id_rr_q'.pc = if_id_q.pc
          /\ id_rr_q'.rs = if_id_q.rs /\ id_rr_q'.want = if_id_q.want
      BY <1>3, <1>8 DEF TypeOK, Latch
    <3>2. QED
      BY <1>5, <1>6, <1>8, <3>1 DEF Right
  <2>2. CASE if_id_q' = Bubble /\ writer' = writer
    <3>1. RegTag(if_id_q', r) = Wrong
      BY <2>2, BubbleEmpty DEF RegTag
    <3>2. QED
      BY <1>2, <1>5, <1>6, <1>8, <2>1, <2>2, <3>1 DEF Last
  <2>3. CASE ~(if_id_q' = Bubble /\ writer' = writer)
    <3>1. ~pred_taken_q /\ align_instr_valid /\ if_id_q' = IfId(s) /\ Captured(m)
      BY <1>3, <1>4, <1>8, <2>3 DEF Captured
    <3>2. s.kind # "NOP"
      BY <2>3, <3>1 DEF IfId, ProgramOrder
    <3>3. /\ if_id_q'.valid /\ if_id_q'.pc = fetch_pc /\ if_id_q'.rd = s.rd
          /\ if_id_q'.rs = s.rs /\ if_id_q'.want = writer[s.rs]
      BY <3>1, <3>2 DEF IfId, Bubble
    <3>4. writer' = IF fetch_pc # Wrong /\ s.rd # 0
                    THEN [writer EXCEPT ![s.rd] = fetch_pc] ELSE writer
      BY <1>1, <3>1, <3>2 DEF ProgramOrder
    <3>5. writer'[r] = IF fetch_pc # Wrong /\ s.rd = r THEN fetch_pc ELSE writer[r]
      BY <3>4 DEF TypeOK
    <3>6. writer'[r] = RegFetch(r)'
      BY <1>5, <1>6, <1>8, <3>3, <3>5 DEF Last, RegTag
    <3>7. if_id_q'.rs = r => if_id_q'.want = RegId(r)'
      BY <1>5, <1>6, <1>8, <3>3
    <3>8. QED
      BY <2>1, <3>6, <3>7
  <2>4. QED
    BY <2>2, <2>3
<1>9. QED
  BY <1>7, <1>8

\* One clock edge at which nothing is lost.
LEMMA OperandInvStep ==
  ASSUME ~Interrupts, "FLOAD" \notin Kinds, "JUMP" \notin Kinds \/ ~Predict,
         TypeOK, Flow, UnitOwned, RrStallUnreachable, OperandInv, ~Lost, [Next]_vars
  PROVE  OperandInv'
<1>1. CASE Next
  <2>1. PICK stall \in BOOLEAN :
          \E mem_stall \in {FALSE, stall}, irq \in {FALSE, Interrupts}, s \in Presented(stall),
             more \in BOOLEAN, finish \in Finishing, pulse \in Pulses(stall) :
            Clock(stall, mem_stall, irq, s, more, finish, pulse)
    BY <1>1 DEF Next
  <2>2. PICK mem_stall \in {FALSE, stall}, s \in Presented(stall), more \in BOOLEAN,
             finish \in Finishing, pulse \in Pulses(stall) :
          Clock(stall, mem_stall, FALSE, s, more, finish, pulse)
    BY <2>1, InterruptsAssumption
  <2> DEFINE m == hazard(stall)
  <2>3. /\ m \in {"hold", "redirect", "id_stall", "advance"}
        /\ m = "hold" => combined_stall(stall)
        /\ m = "redirect" => redirect_q
        /\ m # "redirect" /\ m # "hold" =>
             ~combined_stall(stall) /\ ~redirect_q
        /\ m = "id_stall" => ~pred_taken_q
        /\ m = "advance" => align_instr_valid \/ pred_taken_q
    BY Modes DEF RrStallUnreachable
  <2>4. /\ Stages(m, stall, FALSE, s) /\ ProgramOrder(m, s) /\ Retire(stall)
        /\ ExRedirect(stall) /\ FenceRedirect(stall, pulse) /\ s \in Shape
    BY <2>2, PresentedType DEF Clock
  <2>5. /\ WriterFlow /\ SelectMoved /\ FrontDecoded /\ BackComputed /\ JumpsAlone
    BY DEF OperandInv
  <2> HIDE DEF m
  <2>6. FrontDecoded'
    BY <2>3, <2>4, <2>5, DecodedStep
  <2>7. BackComputed'
    BY <2>3, <2>4, <2>5, ComputedStep
  <2>8. JumpsAlone'
    BY <2>3, <2>4, <2>5, JumpsStep
  <2>9. SelectMoved'
    <3>1. m = hazard(stall)
      BY DEF m
    <3>2. QED
      BY <2>3, <2>4, <2>5, <3>1, SelectStep
  <2>10. FreshOperand'
    BY <2>3, <2>4, OperandStep
  <2>11. WriterFlow'
    <3>1. CASE m = "hold"
      BY <2>3, <2>4, <3>1, WriterHolds
    <3>2. CASE m # "hold"
      BY <2>3, <2>4, <3>2, WriterMoves
    <3>3. QED
      BY <3>1, <3>2
  <2>12. QED
    BY <2>6, <2>7, <2>8, <2>9, <2>10, <2>11 DEF OperandInv
<1>2. CASE UNCHANGED vars
  <2>1. UNCHANGED <<if_id_q, id_rr_q, rr_ex1_q, ex1_ex2_q, ex2_mem1_q, mem1_mem1b_q,
                    mem1_mem2_q, mem_wb_q, ex_redirect_q, fence_i_redirect_q, regfile,
                    writer>>
    BY <1>2 DEF vars, stages, redirects, ghosts
  <2>2. \A r : /\ RegRr(r)' = RegRr(r) /\ RegId(r)' = RegId(r) /\ RegFetch(r)' = RegFetch(r)
    BY <2>1 DEF RegRr, RegId, RegFetch, RegEx1, RegEx2, RegTag, Last
  <2>3. WriterFlow'
    BY <2>1, <2>2 DEF OperandInv, WriterFlow, Right
  <2>4. SelectMoved'
    BY <2>1 DEF OperandInv, SelectMoved, Right, fwd_sel, load_use, Matches, Waits, is_load
  <2>5. FrontDecoded' /\ BackComputed' /\ JumpsAlone' /\ FreshOperand'
    BY <2>1 DEF OperandInv, FrontDecoded, Decoded, BackComputed, Computed, JumpsAlone, Jump, Right,
                FreshOperand, Erratum110, is_csr
  <2>6. QED
    BY <2>3, <2>4, <2>5 DEF OperandInv
<1>3. QED
  BY <1>1, <1>2

\* An empty pipeline over the registers nobody has written.
LEMMA OperandInit == Init => OperandInv
<1> SUFFICES ASSUME Init PROVE OperandInv
  OBVIOUS
<1>1. ~Right(Bubble) /\ ~Jump(Bubble) /\ Decoded(Bubble) /\ Computed(Bubble)
  BY DEF Right, Jump, Decoded, Computed, Bubble
<1>2. \A r : RegTag(Bubble, r) = Wrong
  BY BubbleEmpty DEF RegTag
<1>3. \A r \in Reg \ {0} : writer[r] = RegFetch(r)
  <2>1. \A r \in Reg : regfile[r] = 0 /\ writer[r] = 0
    BY DEF Init
  <2>2. \A r : RegFetch(r) = regfile[r]
    BY <1>2 DEF Init, RegFetch, RegId, RegRr, RegEx1, RegEx2, Last
  <2>3. QED
    BY <2>1, <2>2
<1>4. WriterFlow
  BY <1>1, <1>3 DEF Init, WriterFlow
<1>5. SelectMoved
  BY <1>1 DEF Init, SelectMoved
<1>6. FrontDecoded /\ BackComputed /\ JumpsAlone
  BY <1>1 DEF Init, FrontDecoded, BackComputed, JumpsAlone
<1>7. FreshOperand
  BY BubbleEmpty DEF Init, FreshOperand
<1>8. QED
  BY <1>4, <1>5, <1>6, <1>7 DEF OperandInv

\* As long as none of the coincidences happens, every instruction of the program
\* takes the value of the last writer of its register into EX1, save for the
\* documented erratum, for any loads, multiplications, CSR accesses, branches,
\* traps and stalls.  Left out are what the code does not forward (section 6 of
\* the README): the link address of a predicted jump, and the faulting load,
\* which writes its register.
THEOREM OperandsUnlessLost ==
  ASSUME ~Interrupts, "FLOAD" \notin Kinds, "JUMP" \notin Kinds \/ ~Predict
  PROVE  Spec => ([](~Lost /\ ~FenceLost) => []FreshOperand)
<1>1. TypeOK /\ Flow /\ ~Lost /\ [Next]_vars => Flow'
  BY FlowStep
<1>2. TypeOK /\ OwnInv /\ ~Lost /\ ~FenceLost /\ [Next]_vars => OwnInv'
  BY OwnInvStep DEF MulKept, Lost
<1>3. TypeOK /\ Flow /\ OwnInv /\ RrStallUnreachable /\ OperandInv /\ ~Lost /\ [Next]_vars
        => OperandInv'
  BY OperandInvStep DEF OwnInv
<1>4. OperandInv => FreshOperand
  BY DEF OperandInv
<1>5. QED
  BY <1>1, <1>2, <1>3, <1>4, FlowInit, OwnInit, OperandInit, TypeCorrect, RrStallNeverDecides, PTL
  DEF Spec

\* Programs without multiplications and taken predictions always read the
\* operands their order asks for.
THEOREM OperandsWithoutMul ==
  ASSUME ~Interrupts, "FLOAD" \notin Kinds, "MUL" \notin Kinds, ~Predict
  PROVE  Spec => []FreshOperand
<1>1. Spec => ([](~Lost /\ ~FenceLost) => []FreshOperand)
  BY OperandsUnlessLost
<1>2. Spec => [](~Lost /\ ~FenceLost)
  BY NothingLost
<1>3. QED
  BY <1>1, <1>2, PTL
=============================================================================
