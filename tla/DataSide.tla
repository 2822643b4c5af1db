------------------------------ MODULE DataSide ------------------------------
(***************************************************************************)
(* The data side of kronos_top: the memory operations in EX2, MEM1, MEM1B  *)
(* and MEM2, kronos_lsu between MEM2 and the cache, FENCE.I, and the       *)
(* page-table walker on the cache's priority port.  A step is one rising   *)
(* clock edge.                                                             *)
(*                                                                         *)
(* The walks are the iTLB's, which run beside the memory operations, and   *)
(* have one level: Zero is an invalid PTE, Leaf a valid one that still     *)
(* needs A, LeafAD one that does not.                                      *)
(***************************************************************************)
EXTENDS DCache, Sequences

CONSTANTS Leaf, LeafAD,     \* the two other words
          Kinds,            \* operations of the program
          Targets,          \* addresses it uses
          Data,             \* words its stores, SCs and AMOs write
          PteAddrs,         \* addresses the walker reads
          MaxOps,           \* bound on the operations
          MaxWalks,         \* bound on the walks
          Stalls,           \* whether the rest of the core may stall
          BusErrors         \* whether the uncached region may answer an error

ASSUME WordsAssumption == Word = {Zero, Leaf, LeafAD}
ASSUME KindsAssumption == Kinds \subseteq {"LOAD", "STORE", "LR", "SC", "AMO", "FENCE"}
ASSUME TargetsAssumption == Targets \subseteq Addr /\ PteAddrs \subseteq Addr
ASSUME DataAssumption == Data \subseteq Word
ASSUME BoundsAssumption == MaxOps \in Nat /\ MaxWalks \in Nat
ASSUME SwitchAssumption == Stalls \in BOOLEAN /\ BusErrors \in BOOLEAN

VARIABLES
  ex2, mem1, mem1b, mem2,      \* what the pipeline registers hold
  mem_done_q, lsu_rdata_latch, fence_i_active_q,
  ptw_q,                       \* kronos_ptw: state, walk address, PTE
  arch,                        \* memory in program order
  retired,                     \* last operation to leave MEM2, its result, arch's
  ops, walks

coreVars == <<ex2, mem1, mem1b, mem2, mem_done_q, lsu_rdata_latch, fence_i_active_q, ptw_q,
              arch, retired, ops, walks>>
vars == <<dcacheVars, coreVars>>

None == [kind |-> "NONE", addr |-> Origin, data |-> Zero]
Op == [kind : Kinds \cap {"LOAD", "LR"}, addr : Targets, data : {Zero}]
      \cup [kind : Kinds \cap {"STORE", "SC", "AMO"}, addr : Targets, data : Data]
      \cup (IF "FENCE" \in Kinds THEN {[None EXCEPT !.kind = "FENCE"]} ELSE {})
is_mem(p) == p.kind \notin {"NONE", "FENCE"}

Init == /\ DCacheInit
        /\ ex2 = None /\ mem1 = None /\ mem1b = None /\ mem2 = None
        /\ mem_done_q = FALSE
        /\ lsu_rdata_latch = Zero
        /\ fence_i_active_q = FALSE
        /\ ptw_q = [state |-> "S_IDLE", addr |-> Origin, pte |-> Zero]
        /\ arch = mem
        /\ retired = [kind |-> "NONE", got |-> Zero, want |-> Zero]
        /\ ops = 0 /\ walks = 0

-----------------------------------------------------------------------------
(* Requests of this cycle. *)

lsu_req == IF ~is_mem(mem2) \/ mem_done_q THEN NoReq
           ELSE [valid |-> TRUE, ptw |-> FALSE, addr |-> mem2.addr,
                 we |-> mem2.kind \in {"STORE", "SC"},
                 op |-> IF mem2.kind \in {"LOAD", "STORE"} THEN "PLAIN" ELSE mem2.kind,
                 data |-> mem2.data]

ptw_req == IF ptw_q.state \notin {"S_FETCH_REQ", "S_AD_LR_REQ", "S_AD_SC_REQ"} THEN NoReq
           ELSE [valid |-> TRUE, ptw |-> TRUE, addr |-> ptw_q.addr,
                 we |-> ptw_q.state = "S_AD_SC_REQ",
                 op |-> IF ptw_q.state = "S_FETCH_REQ" THEN "PLAIN"
                        ELSE IF ptw_q.state = "S_AD_LR_REQ" THEN "LR" ELSE "SC",
                 data |-> LeafAD]

req == eff_req(lsu_req, ptw_req)

\* The RAM read pre-launched from MEM1B.
dcache_early == IF is_mem(mem1b) THEN ReadAt(mem1b.addr) ELSE NoRead

data_valid == rsp_valid(req) /\ ~rsp_to_ptw(req)
ptw_rsp_valid == rsp_valid(req) /\ rsp_to_ptw(req)

\* kronos_lsu: complete only once the cache is idle again.
lsu_valid == data_valid /\ ~stall_o

lsu_rdata == IF mem2.kind = "SC"
             THEN IF sc_success(req, fence_i_active_q) /\ ~rsp_to_ptw(req) THEN Zero ELSE Leaf
             ELSE rsp_rdata(req)

lsu_mem_stall == /\ lsu_req.valid /\ ~amo_nc_fault(req, fence_i_active_q) /\ ~bus_err_fault
                 /\ ~data_valid \/ stall_o

\* hold: a fetch, FPU or multiply stall of the rest of the core.
fence_i_pulse_raw(hold) == ex2.kind = "FENCE" /\ ~lsu_mem_stall /\ ~hold
fence_i_pulse(hold) == fence_i_pulse_raw(hold) /\ (~dirty_pending \/ "flush_done" \in pulse_q)
mem_stall(hold) == lsu_mem_stall \/ fence_i_active_q \/ (fence_i_pulse_raw(hold) /\ dirty_pending)

-----------------------------------------------------------------------------
(* The edge. *)

\* What leaves MEM2: its result, and its effect on memory in program order.
result == IF lsu_valid THEN lsu_rdata ELSE lsu_rdata_latch
At(m, a) == m[a.tag][a.set][a.beat]
SetAt(m, a, v) == [m EXCEPT ![a.tag][a.set][a.beat] = v]
Faulted == amo_nc_fault(req, fence_i_active_q) \/ bus_err_fault
Wrote(p) == p.kind \in {"STORE", "AMO"} \/ (p.kind = "SC" /\ result = Zero)

Advance(new) ==
  /\ mem2' = mem1b /\ mem1b' = mem1 /\ mem1' = ex2 /\ ex2' = new
  /\ mem_done_q' = FALSE
  /\ retired' = IF is_mem(mem2) /\ ~Faulted
                THEN [kind |-> mem2.kind, got |-> result, want |-> At(arch, mem2.addr)]
                ELSE [retired EXCEPT !.kind = "NONE"]
  /\ ops' = IF new # None THEN ops + 1 ELSE ops

Hold == /\ mem_done_q' = (mem_done_q \/ lsu_valid)
        /\ UNCHANGED <<ex2, mem1, mem1b, mem2, retired, ops>>

\* The walker's SC writes the PTE when its reservation holds.
PtwWrites == /\ state_q = "IDLE" /\ req.ptw /\ req.op = "SC" /\ rsrv_match(req)
             /\ ~flushing(fence_i_active_q)

Arch(adv) ==
  LET m == IF adv /\ is_mem(mem2) /\ ~Faulted /\ Wrote(mem2)
           THEN SetAt(arch, mem2.addr, mem2.data) ELSE arch
  IN  arch' = IF PtwWrites THEN SetAt(m, req.addr, LeafAD) ELSE m

\* The pipeline registers, mem_done_q and fence_i_active_q.
Core(hold, new) ==
  LET adv == ~mem_stall(hold) /\ ~hold
  IN  /\ IF adv THEN Advance(new) ELSE Hold /\ new = None
      /\ Arch(adv)
      /\ lsu_rdata_latch' = IF lsu_valid THEN lsu_rdata ELSE lsu_rdata_latch
      /\ fence_i_active_q' = IF fence_i_pulse_raw(hold) /\ dirty_pending /\ ~fence_i_active_q
                             THEN TRUE
                             ELSE IF "flush_done" \in pulse_q THEN FALSE ELSE fence_i_active_q

\* kronos_ptw.
Ptw ==
  \/ /\ ptw_q.state = "S_IDLE" /\ UNCHANGED <<ptw_q, walks>>
  \/ /\ ptw_q.state = "S_IDLE" /\ walks < MaxWalks
     /\ \E a \in PteAddrs : ptw_q' = [ptw_q EXCEPT !.state = "S_FETCH_REQ", !.addr = a]
     /\ walks' = walks + 1
  \/ /\ ptw_q.state \in {"S_FETCH_REQ", "S_AD_LR_REQ"}
     /\ IF ptw_rsp_valid
        THEN ptw_q' = [ptw_q EXCEPT !.pte = rsp_rdata(req),
                          !.state = IF @ = "S_FETCH_REQ" THEN "S_FETCH_WAIT" ELSE "S_AD_LR_WAIT"]
        ELSE UNCHANGED ptw_q
     /\ UNCHANGED walks
  \/ /\ ptw_q.state = "S_FETCH_WAIT"
     /\ ptw_q' = [ptw_q EXCEPT !.state = CASE ptw_q.pte = Zero -> "S_PAGE_FAULT"
                                           [] ptw_q.pte = Leaf -> "S_AD_LR_REQ"
                                           [] ptw_q.pte = LeafAD -> "S_REFILL"]
     /\ UNCHANGED walks
  \/ /\ ptw_q.state = "S_AD_LR_WAIT"
     /\ ptw_q' = [ptw_q EXCEPT !.state = IF ptw_q.pte = Zero THEN "S_IDLE" ELSE "S_AD_SC_REQ"]
     /\ UNCHANGED walks
  \/ /\ ptw_q.state = "S_AD_SC_REQ"
     /\ ptw_q' = IF ptw_rsp_valid THEN [ptw_q EXCEPT !.state = "S_AD_SC_WAIT"] ELSE ptw_q
     /\ UNCHANGED walks
  \/ /\ ptw_q.state = "S_AD_SC_WAIT"
     /\ ptw_q' = [ptw_q EXCEPT !.state = IF sc_success(req, fence_i_active_q) /\ rsp_to_ptw(req)
                                         THEN "S_REFILL" ELSE "S_IDLE"]
     /\ UNCHANGED walks
  \/ /\ ptw_q.state \in {"S_REFILL", "S_PAGE_FAULT"}
     /\ ptw_q' = [ptw_q EXCEPT !.state = "S_IDLE"]
     /\ UNCHANGED walks

Clock(hold, new, rsrv_clear, axi, ok, victim) ==
  /\ Core(hold, new)
  /\ Ptw
  /\ DCacheEdge(req, dcache_early, fence_i_active_q, rsrv_clear, axi, ok, victim)

Fetchable == IF ops < MaxOps THEN Op \cup {None} ELSE {None}

\* A handshake matters to a busy FSM only, the victim to an idle one.
Handshakes == IF state_q = "IDLE" THEN {TRUE} ELSE BOOLEAN
Victims == IF state_q = "IDLE" THEN Ways ELSE {0}

Next == \E hold \in {FALSE, Stalls}, rsrv_clear \in {FALSE, "SC" \in Kinds}, axi \in Handshakes,
           ok \in {TRUE, ~BusErrors}, victim \in Victims, new \in Fetchable :
          Clock(hold, new, rsrv_clear, axi, ok, victim)

Spec == Init /\ [][Next]_vars

\* The bus answers and nothing else stalls.
Served == \E victim \in Victims, new \in Fetchable : Clock(FALSE, new, FALSE, TRUE, TRUE, victim)
LiveSpec == Spec /\ WF_vars(Served)

-----------------------------------------------------------------------------
TypeOK ==
  /\ state_q \in {"IDLE", "REFILL_AR", "REFILL_R", "WB_AW", "WB_W", "AMO_RMW", "FLUSH_SCAN",
                  "FLUSH_AW", "FLUSH_W", "NC_AR", "NC_R", "NC_AW", "NC_W", "NC_B", "PTW_LOOKUP"}
  /\ beat_cnt_q \in 0 .. Beats /\ wb_beat_cnt_q \in 0 .. Beats
  /\ valid_q \in [Sets -> [Ways -> BOOLEAN]] /\ dirty_q \in [Sets -> [Ways -> BOOLEAN]]
  /\ mem \in [Tags -> [Sets -> [Beat -> Word]]]

\* Every load, LR and AMO that completes returns the word the last store to
\* its address before it in program order left there, whatever refills,
\* evictions, bypasses and flushes lie between.
ReadsLatest == retired.kind \in {"LOAD", "LR", "AMO"} => retired.got = retired.want

\* A line is in at most one way.
OneCopy == \A s \in Sets : \A v, w \in Ways :
             valid_q[s][v] /\ valid_q[s][w] /\ tag_ram[v][s] = tag_ram[w][s] => v = w

\* Memory in program order, with what MEM2 has finished and not yet left.
Done(p) == is_mem(p) /\ mem_done_q /\ (p.kind \in {"STORE", "AMO"}
                                       \/ (p.kind = "SC" /\ lsu_rdata_latch = Zero))
Committed == IF Done(mem2) THEN SetAt(arch, mem2.addr, mem2.data) ELSE arch

\* What a read of the hierarchy finds: the line's way, else memory.
Content(a) == LET ways == {w \in Ways : valid_q[a.set][w] /\ tag_ram[w][a.set] = a.tag}
              IN  IF ways = {} THEN At(mem, a) ELSE data_ram[Max(ways)][a.set][a.beat]

\* No write is lost, torn or invented: whenever the cache is idle and MEM2 has
\* finished, cache and memory together hold what the program wrote.
Coherent == state_q = "IDLE" /\ pulse_q = {} /\ (is_mem(mem2) => mem_done_q)
            => \A a \in Addr : Content(a) = At(Committed, a)

\* When the FENCE.I walk reports done, memory holds every store that
\* completed, and the cache holds no line.
FlushDrains == "flush_done" \in pulse_q => /\ mem = Committed
                                           /\ \A s \in Sets, w \in Ways : ~valid_q[s][w]

\* An address of an uncached region never allocates a line.
UncachedNeverAllocates == \A s \in Sets, w \in Ways : valid_q[s][w] => tag_ram[w][s] \notin NcTags

\* Every memory operation that reaches MEM2 leaves it.
EventuallyCompletes == is_mem(mem2) /\ ~mem_done_q ~> lsu_valid \/ Faulted

-----------------------------------------------------------------------------
(* What the comments say of FENCE.I. *)

\* When FENCE.I lets the I-cache reload, memory holds every older store.
InFlight == LET Put(m, p) == IF p.kind = "STORE" THEN SetAt(m, p.addr, p.data) ELSE m
            IN  Put(Put(Put(arch, mem2), mem1b), mem1)
FenceAfterStores == fence_i_pulse(FALSE) => mem = InFlight
=============================================================================
