---------------------------- MODULE DataSide_proofs -------------------------
(***************************************************************************)
(* Proofs about DataSide.                                                  *)
(*                                                                         *)
(* For every geometry, every program and every walk: type correctness, and *)
(* no line of an uncached region.  For a core without page walks whose     *)
(* program loads, stores and flushes: one copy of a line, coherence,       *)
(* latest reads and the drain of FENCE.I, each as a part of one inductive  *)
(* invariant.                                                              *)
(***************************************************************************)
EXTENDS DataSide, WellFoundedInduction, TLAPS

MissStates == {"WB_AW", "WB_W", "REFILL_AR", "REFILL_R"}
FlushStates == {"FLUSH_SCAN", "FLUSH_AW", "FLUSH_W"}
NcStates == {"NC_AR", "NC_R", "NC_AW", "NC_W", "NC_B"}
WalkStates == {"S_IDLE", "S_FETCH_REQ", "S_FETCH_WAIT", "S_AD_LR_REQ", "S_AD_LR_WAIT",
               "S_AD_SC_REQ", "S_AD_SC_WAIT", "S_REFILL", "S_PAGE_FAULT"}
Pulses == {"bypass", "store_done", "sc_success", "amo_done", "nc_rsp", "nc_b", "nc_err",
           "flush_done"}
Memory == [Tags -> [Sets -> [Beat -> Word]]]
Write == [ways : SUBSET Ways, set : Sets, beat : Beat, data : Word]
Request == [valid : BOOLEAN, ptw : BOOLEAN, addr : Addr, we : BOOLEAN,
            op : {"PLAIN", "LR", "SC", "AMO"}, data : Word]
Read == [re : BOOLEAN, set : Sets, beat : Beat]

RamTypes ==
  /\ tag_ram \in [Ways -> [Sets -> Tags]] /\ data_ram \in [Ways -> [Sets -> [Beat -> Word]]]
  /\ tag_rdata \in [Ways -> Tags] /\ ram_rdata \in [Ways -> Word]
  /\ prev_write_q \in Write /\ prev2_write_q \in Write
  /\ prev_tag_q \in [write : BOOLEAN, set : Sets, way : Ways, tag : Tags]

FsmTypes ==
  /\ TypeOK
  /\ miss_q \in [addr : Addr, victim : Ways, store : BOOLEAN, data : Word]
  /\ evict_tag_q \in Tags /\ bypass_data_q \in Word
  /\ pulse_q \subseteq Pulses
  /\ amo_q \in [pending : BOOLEAN, src : Word, old : Word]
  /\ flush_q \in [set : Sets, way : Ways, settled : BOOLEAN]
  /\ nc_q \in [addr : Addr, data : Word, ptw : BOOLEAN, rsp : Word]
  /\ ptw_lookup_way_q \in Ways
  /\ state_q \in MissStates => beat_cnt_q \in Beat
  /\ state_q \in {"WB_AW", "WB_W", "FLUSH_AW", "FLUSH_W"} => wb_beat_cnt_q \in Beat

CoreTypes ==
  /\ ex2 \in Op \cup {None} /\ mem1 \in Op \cup {None}
  /\ mem1b \in Op \cup {None} /\ mem2 \in Op \cup {None}
  /\ mem_done_q \in BOOLEAN /\ fence_i_active_q \in BOOLEAN
  /\ lsu_rdata_latch \in Word
  /\ ptw_q \in [state : WalkStates, addr : Addr, pte : Word]
  /\ arch \in Memory
  /\ retired \in [kind : Kinds \cup {"NONE"}, got : Word, want : Word]
  /\ ops \in Nat /\ walks \in Nat

\* The type invariant of every register of the data side.
Types == /\ RamTypes /\ FsmTypes /\ CoreTypes
         /\ rsrv_q \in [valid : BOOLEAN, addr : Addr]
         /\ in_flight_is_ptw_q \in BOOLEAN

-----------------------------------------------------------------------------
(* The invariant of loads, stores and flushes. *)

Fragment == MaxWalks = 0 /\ Kinds \subseteq {"LOAD", "STORE", "FENCE"} /\ ~BusErrors

\* Who the FSM works for: a miss and an uncached access for the operation that
\* waits in MEM2, a flush for a FENCE.I behind an empty or finished MEM2.
Owned ==
  /\ walks = 0 /\ ptw_q.state = "S_IDLE" /\ ~in_flight_is_ptw_q /\ ~nc_q.ptw /\ ~amo_q.pending
  /\ state_q \in {"IDLE"} \cup MissStates \cup FlushStates \cup NcStates
  /\ state_q \in MissStates =>
       /\ lsu_req.valid /\ miss_q.addr = mem2.addr /\ mem2.addr.tag \notin NcTags
       /\ miss_q.store <=> mem2.kind = "STORE"
       /\ miss_q.store => miss_q.data = mem2.data
  /\ state_q \in NcStates =>
       /\ lsu_req.valid /\ nc_q.addr = mem2.addr /\ mem2.addr.tag \in NcTags
       /\ state_q \in {"NC_AW", "NC_W", "NC_B"} <=> mem2.kind = "STORE"
       /\ nc_q.data = mem2.data
  /\ state_q \in FlushStates => fence_i_active_q
  /\ fence_i_active_q => ~lsu_req.valid
  /\ "bypass" \in pulse_q => state_q = "REFILL_R"
  /\ "store_done" \in pulse_q => /\ state_q = "IDLE" /\ lsu_req.valid /\ mem2.kind = "STORE"
                                 /\ mem2.addr.tag \notin NcTags
  /\ "nc_rsp" \in pulse_q => /\ state_q = "IDLE" /\ lsu_req.valid /\ mem2.kind = "LOAD"
                             /\ mem2.addr.tag \in NcTags
  /\ "nc_b" \in pulse_q => /\ state_q = "IDLE" /\ lsu_req.valid /\ mem2.kind = "STORE"
                           /\ mem2.addr.tag \in NcTags
  /\ "flush_done" \in pulse_q => state_q = "IDLE" /\ fence_i_active_q
  /\ pulse_q \cap {"sc_success", "amo_done", "nc_err"} = {}

\* A request compared in IDLE sees the tags and the words of its own set.
Compared == state_q = "IDLE" /\ lsu_req.valid /\ pulse_q \cap {"nc_rsp", "nc_b"} = {}
FreshTags ==
  /\ Compared => \A w \in Ways : tag_rdata_eff(mem2.addr.set, w) = tag_ram[w][mem2.addr.set]
  /\ state_q \in FlushStates /\ flush_q.settled =>
       \A w \in Ways : tag_rdata[w] = tag_ram[w][flush_q.set]
  /\ state_q \in FlushStates => ~prev_tag_q.write
FreshWords ==
  Compared => \A w \in Ways : \/ Covers(prev_write_q, w, mem2.addr)
                              \/ Covers(prev2_write_q, w, mem2.addr)
                              \/ ram_rdata[w] = data_ram[w][mem2.addr.set][mem2.addr.beat]

\* The bypass registers hold what the RAM holds.
Bypassed ==
  /\ \A w \in prev_write_q.ways :
       data_ram[w][prev_write_q.set][prev_write_q.beat] = prev_write_q.data
  /\ \A w \in prev2_write_q.ways :
       ~Covers(prev_write_q, w, prev2_write_q) =>
         data_ram[w][prev2_write_q.set][prev2_write_q.beat] = prev2_write_q.data

\* A miss is for a line no way holds, and a finished one is held.
Absent == state_q \in MissStates =>
            \A w \in Ways : valid_q[miss_q.addr.set][w] => tag_ram[w][miss_q.addr.set] # miss_q.addr.tag
Present == "store_done" \in pulse_q =>
             \E w \in Ways : valid_q[mem2.addr.set][w] /\ tag_ram[w][mem2.addr.set] = mem2.addr.tag

\* The way a refill is overwriting counts as empty.
Holds(w, s) == /\ valid_q[s][w]
               /\ ~(/\ state_q \in {"REFILL_AR", "REFILL_R"}
                    /\ s = miss_q.addr.set /\ w = miss_q.victim)

\* What the program has written, the store whose completion MEM2 has not seen included.
Pending == \/ is_mem(mem2) /\ mem_done_q /\ mem2.kind = "STORE"
           \/ pulse_q \cap {"store_done", "nc_b"} # {} \/ state_q = "NC_B"
Expected == IF Pending THEN SetAt(arch, mem2.addr, mem2.data) ELSE arch

HeldRight == \A s \in Sets, w \in Ways, b \in Beat :
               Holds(w, s) => data_ram[w][s][b] = Expected[tag_ram[w][s]][s][b]
RestInMemory == \A t \in Tags, s \in Sets, b \in Beat :
                  (\A w \in Ways : Holds(w, s) => tag_ram[w][s] # t) => mem[t][s][b] = Expected[t][s][b]
CleanRight == \A s \in Sets, w \in Ways, b \in Beat :
                Holds(w, s) /\ ~dirty_q[s][w] => data_ram[w][s][b] = mem[tag_ram[w][s]][s][b]

\* The victim's words go out in order, from the read register.
WritingBack ==
  state_q \in {"WB_AW", "WB_W", "FLUSH_AW", "FLUSH_W"} =>
    /\ valid_q[miss_q.addr.set][miss_q.victim]
    /\ dirty_q[miss_q.addr.set][miss_q.victim]
    /\ evict_tag_q = tag_ram[miss_q.victim][miss_q.addr.set]
    /\ state_q \in {"WB_AW", "FLUSH_AW"} => wb_beat_cnt_q = 0
    /\ \A b \in Beat : b < wb_beat_cnt_q =>
         mem[evict_tag_q][miss_q.addr.set][b] = data_ram[miss_q.victim][miss_q.addr.set][b]
    /\ state_q \in {"WB_W", "FLUSH_W"} =>
         ram_rdata[miss_q.victim] = data_ram[miss_q.victim][miss_q.addr.set][wb_beat_cnt_q]

\* The words of the line arrive from the critical one on.
Refilling ==
  /\ state_q \in {"WB_AW", "WB_W", "REFILL_AR"} => beat_cnt_q = 0
  /\ state_q \in {"REFILL_AR", "REFILL_R"} => \A k \in Beat : k < beat_cnt_q =>
       data_ram[miss_q.victim][miss_q.addr.set][(miss_q.addr.beat + k) % Beats]
         = IF k = 0 /\ miss_q.store THEN miss_q.data
           ELSE mem[miss_q.addr.tag][miss_q.addr.set][(miss_q.addr.beat + k) % Beats]

\* The flush walk leaves nothing behind it.
Swept ==
  /\ state_q \in FlushStates => \A s \in Sets, w \in Ways :
       s < flush_q.set \/ (s = flush_q.set /\ w < flush_q.way) => ~valid_q[s][w]
  /\ state_q \in {"FLUSH_AW", "FLUSH_W"} =>
       /\ flush_q.settled
       /\ miss_q.addr.set = flush_q.set /\ miss_q.victim = flush_q.way
  /\ "flush_done" \in pulse_q => \A s \in Sets, w \in Ways : ~valid_q[s][w]

\* The answers kept for MEM2.
Answered ==
  /\ is_mem(mem2) /\ mem_done_q /\ mem2.kind = "LOAD" => lsu_rdata_latch = At(arch, mem2.addr)
  /\ "nc_rsp" \in pulse_q => nc_q.rsp = At(arch, mem2.addr)

DataInv == /\ Types /\ Owned /\ UncachedNeverAllocates /\ OneCopy /\ Absent /\ Present
           /\ FreshTags /\ FreshWords /\ Bypassed
           /\ HeldRight /\ RestInMemory /\ CleanRight /\ WritingBack /\ Refilling
           /\ Swept /\ Answered /\ ReadsLatest

-----------------------------------------------------------------------------
(* Constants, and the operators the model is built from. *)

\* Every index range has a zero, and the reset values are of their types.
LEMMA Zeros == /\ 0 \in Sets /\ 0 \in Ways /\ 0 \in Beat /\ SomeTag \in Tags /\ Origin \in Addr
               /\ NoWrite \in Write /\ NoReq \in Request /\ NoRead \in Read
               /\ Beats \in Nat /\ Beats > 1
  BY GeometryAssumption, TagsAssumption, WordAssumption
  DEF Sets, Ways, Beat, SomeTag, Origin, Addr, NoWrite, Write, NoReq, Request, NoRead, Read

\* A nonempty set of ways has a largest member, so the one-hot to index
\* conversion of the hit vector yields a way of the vector.
LEMMA MaxOfWays == ASSUME NEW S \in SUBSET Ways, S # {} PROVE Max(S) \in S
<1> DEFINE R == OpToRel(<, Nat)
           T == {NumWays - 1 - w : w \in S}
<1>1. T \subseteq Nat /\ T # {}
  <2>1. \A w \in S : NumWays - 1 - w \in Nat
    BY GeometryAssumption DEF Ways
  <2> QED BY <2>1
<1>2. PICK x \in T : \A y \in T : ~(<<y, x>> \in R)
  BY <1>1, NatLessThanWellFounded, WFMin
<1>3. PICK w \in S : x = NumWays - 1 - w
  OBVIOUS
<1>4. \A v \in S : w >= v
  <2> SUFFICES ASSUME NEW v \in S PROVE w >= v
    OBVIOUS
  <2>1. NumWays - 1 - v \in T /\ x \in Nat /\ NumWays - 1 - v \in Nat
    BY <1>1
  <2>2. ~(NumWays - 1 - v < x)
    BY <2>1, <1>2 DEF OpToRel
  <2> QED BY <2>2, <1>3, GeometryAssumption DEF Ways
<1> QED BY <1>3, <1>4 DEF Max

\* The index of a one-hot vector is its one member.
LEMMA MaxOne == ASSUME NEW w \in Ways PROVE Max({w}) = w
  BY GeometryAssumption DEF Max, Ways

\* What MEM2, the walker and MEM1B present to the cache are requests and reads.
LEMMA Presented == ASSUME CoreTypes
                   PROVE  /\ lsu_req \in Request /\ ptw_req \in Request /\ req \in Request
                          /\ dcache_early \in Read
<1>1. \A p \in Op \cup {None} :
        is_mem(p) => /\ p.kind \in {"LOAD", "STORE", "LR", "SC", "AMO"}
                     /\ p.addr \in Addr /\ p.data \in Word
  BY KindsAssumption, TargetsAssumption, WordsAssumption, DataAssumption DEF Op, None, is_mem
<1>2. lsu_req \in Request
  <2>1. CASE ~is_mem(mem2) \/ mem_done_q
    BY <2>1, Zeros DEF lsu_req
  <2>2. CASE ~(~is_mem(mem2) \/ mem_done_q)
    BY <2>2, <1>1 DEF lsu_req, CoreTypes, Request
  <2> QED BY <2>1, <2>2
<1>3. ptw_req \in Request
  BY WordsAssumption, Zeros DEF ptw_req, CoreTypes, Request
<1>4. dcache_early \in Read
  BY <1>1, Zeros DEF dcache_early, CoreTypes, ReadAt, Read, Addr
<1> QED BY <1>2, <1>3, <1>4 DEF req, eff_req

\* The answer of the tag compare is a way, and the word it selects is a word.
LEMMA Compares == ASSUME Types, NEW r \in Request
                  PROVE  /\ hit_way_oh(r) \subseteq Ways
                         /\ hit_way_idx(r) \in Ways
                         /\ hit_beat(r) \in Word
                         /\ \A w \in Ways, s \in Sets : tag_rdata_eff(s, w) \in Tags
                         /\ rsp_rdata(r) \in Word
<1>1. hit_way_oh(r) \subseteq Ways
  BY DEF hit_way_oh
<1>2. hit_way_idx(r) \in Ways
  BY <1>1, MaxOfWays, Zeros DEF hit_way_idx, hit
<1>3. hit_beat(r) \in Word
  BY <1>2, WordAssumption DEF hit_beat, Types, RamTypes, Write
<1>4. \A w \in Ways, s \in Sets : tag_rdata_eff(s, w) \in Tags
  BY DEF tag_rdata_eff, Types, RamTypes
<1>5. rsp_rdata(r) \in Word
  BY <1>3 DEF rsp_rdata, Types, RamTypes, FsmTypes
<1> QED BY <1>1, <1>2, <1>3, <1>4, <1>5

\* The rotation of a refill stays in the line.
LEMMA RefillBeats == ASSUME Types PROVE refill_beat \in Beat
  BY GeometryAssumption DEF Types, FsmTypes, TypeOK, refill_beat, Beat, Addr

\* What port A writes is a write, and what port B reads a read.
LEMMA Ports == ASSUME Types, NEW r \in Request, NEW early \in Read,
                      NEW flush_i \in BOOLEAN, NEW axi \in BOOLEAN
               PROVE  /\ ram_write(r, flush_i, axi) \in Write
                      /\ data_read(r, early, axi) \in Read
                      /\ tag_read(r, early) \in Read
<1>1. hit_way_oh(r) \subseteq Ways /\ refill_beat \in Beat
  BY Compares, RefillBeats
<1>2. r_data \in Word
  BY <1>1, RefillBeats DEF r_data, Types, FsmTypes, TypeOK, Addr, Memory
<1>3. ram_write(r, flush_i, axi) \in Write
  BY <1>1, <1>2, Zeros DEF ram_write, Write, Request, Addr, Types, FsmTypes
<1>4. (wb_beat_cnt_q + 1) % Beats \in Beat
  BY GeometryAssumption DEF Types, FsmTypes, TypeOK, Beat
<1>5. data_read(r, early, axi) \in Read
  BY <1>4, Zeros DEF data_read, Read, ReadAt, Request, Addr, Types, FsmTypes
<1>6. tag_read(r, early) \in Read
  BY Zeros DEF tag_read, Read, ReadAt, Request, Addr, Types, FsmTypes
<1> QED BY <1>3, <1>5, <1>6

\* An edge of the block RAMs keeps their types.
LEMMA RamsTyped == ASSUME Types, NEW r \in Request, NEW early \in Read,
                          NEW flush_i \in BOOLEAN, NEW axi \in BOOLEAN,
                          Rams(r, early, flush_i, axi)
                   PROVE  RamTypes'
<1> DEFINE wr == ram_write(r, flush_i, axi)
           dr == data_read(r, early, axi)
           tr == tag_read(r, early)
<1>1. wr \in Write /\ dr \in Read /\ tr \in Read
  BY Ports
<1>2. data_ram' \in [Ways -> [Sets -> [Beat -> Word]]]
  <2>1. data_ram' = [w \in Ways |-> IF w \in wr.ways
                                    THEN [data_ram[w] EXCEPT ![wr.set][wr.beat] = wr.data]
                                    ELSE data_ram[w]]
    BY DEF Rams
  <2>2. wr.set \in Sets /\ wr.beat \in Beat /\ wr.data \in Word
    BY <1>1 DEF Write
  <2> HIDE DEF wr
  <2>3. \A w \in Ways : [data_ram[w] EXCEPT ![wr.set][wr.beat] = wr.data] \in [Sets -> [Beat -> Word]]
    BY <2>2 DEF Types, RamTypes
  <2> QED BY <2>1, <2>3 DEF Types, RamTypes
<1>3. ram_rdata' \in [Ways -> Word]
  BY <1>1 DEF Rams, Types, RamTypes, Read
<1>4. tag_ram' \in [Ways -> [Sets -> Tags]]
  BY DEF Rams, Types, RamTypes, FsmTypes, Addr
<1>5. tag_rdata' \in [Ways -> Tags]
  BY <1>1 DEF Rams, Types, RamTypes, Read
<1>6. prev_write_q' \in Write /\ prev2_write_q' \in Write
  BY <1>1 DEF Rams, Types, RamTypes
<1>7. prev_tag_q' \in [write : BOOLEAN, set : Sets, way : Ways, tag : Tags]
  BY DEF Rams, Types, RamTypes, FsmTypes, Addr
<1> QED BY <1>2, <1>3, <1>4, <1>5, <1>6, <1>7 DEF RamTypes

\* A miss keeps the types, whatever asks for it.
LEMMA MissTyped ==
  ASSUME Types, NEW r \in Request, NEW victim \in Ways, NEW store \in BOOLEAN,
         StartMiss(r, victim, store)
  PROVE  /\ miss_q' \in [addr : Addr, victim : Ways, store : BOOLEAN, data : Word]
         /\ beat_cnt_q' = 0 /\ wb_beat_cnt_q' = 0 /\ evict_tag_q' \in Tags
         /\ state_q' \in {"WB_AW", "REFILL_AR"}
<1>1. r.addr \in Addr /\ r.data \in Word /\ r.addr.set \in Sets
  BY DEF Request, Addr
<1>2. evict_tag_q' \in Tags
  BY <1>1, Compares DEF StartMiss
<1> QED BY <1>1, <1>2 DEF StartMiss, Types, FsmTypes

\* The walk of FENCE.I stays among the sets and ways.
LEMMA WalkTyped == ASSUME Types, AdvanceWalk
                   PROVE  /\ flush_q' \in [set : Sets, way : Ways, settled : BOOLEAN]
                          /\ pulse_q' \subseteq Pulses
                          /\ state_q' \in {"FLUSH_SCAN", "IDLE"}
<1> DEFINE F == [set : Sets, way : Ways, settled : BOOLEAN]
<1>0. flush_q \in F /\ flush_q.set \in Sets /\ flush_q.way \in Ways /\ 0 \in Ways
  BY Zeros DEF Types, FsmTypes
<1>1. CASE flush_q.way # NumWays - 1
  <2>1. flush_q.way + 1 \in Ways
    BY <1>0, <1>1, GeometryAssumption DEF Ways
  <2>2. /\ flush_q' = [flush_q EXCEPT !.way = flush_q.way + 1] /\ pulse_q' = {}
        /\ state_q' = "FLUSH_SCAN"
    BY <1>0, <1>1 DEF AdvanceWalk
  <2>3. flush_q' \in F
    BY <1>0, <2>1, <2>2
  <2>4. pulse_q' \subseteq Pulses /\ state_q' \in {"FLUSH_SCAN", "IDLE"}
    BY <2>2
  <2> QED BY <2>3, <2>4
<1>2. CASE flush_q.way = NumWays - 1 /\ flush_q.set = NumSets - 1
  BY <1>0, <1>2 DEF AdvanceWalk, Pulses
<1>3. CASE flush_q.way = NumWays - 1 /\ flush_q.set # NumSets - 1
  <2>1. flush_q.set + 1 \in Sets
    BY <1>0, <1>3, GeometryAssumption DEF Sets
  <2>2. /\ flush_q' = [set |-> flush_q.set + 1, way |-> 0, settled |-> FALSE]
        /\ pulse_q' = {} /\ state_q' = "FLUSH_SCAN"
    BY <1>0, <1>3 DEF AdvanceWalk
  <2>3. flush_q' \in F
    BY <1>0, <2>1, <2>2
  <2>4. pulse_q' \subseteq Pulses /\ state_q' \in {"FLUSH_SCAN", "IDLE"}
    BY <2>2
  <2> QED BY <2>3, <2>4
<1> QED BY <1>1, <1>2, <1>3

\* Each arm of the FSM from IDLE keeps the types of the FSM's registers.
LEMMA IdleTyped ==
  ASSUME Types, NEW r \in Request, NEW flush_i \in BOOLEAN, NEW victim \in Ways,
         \/ IdleFlush(flush_i) \/ IdleNc(r, flush_i) \/ IdlePtwHit(r, flush_i)
         \/ IdleSc(r, flush_i, victim) \/ IdleLr(r, flush_i, victim)
         \/ IdleAmo(r, flush_i, victim) \/ IdlePlain(r, flush_i, victim)
  PROVE  FsmTypes'
<1>h. /\ hit_way_idx(r) \in Ways /\ hit_beat(r) \in Word /\ r.addr \in Addr
      /\ r.addr.set \in Sets /\ r.addr.beat \in Beat /\ r.data \in Word
      /\ r.we \in BOOLEAN /\ r.ptw \in BOOLEAN
  BY Compares DEF Request, Addr
<1>d. MarkDirty(r) => dirty_q' \in [Sets -> [Ways -> BOOLEAN]]
  BY <1>h DEF MarkDirty, Types, FsmTypes, TypeOK
<1> USE DEF Types, FsmTypes, TypeOK, MissStates
<1>1. CASE IdleFlush(flush_i)
  BY <1>1, Zeros DEF IdleFlush, lines, refill
<1>2. CASE IdleNc(r, flush_i)
  <2>1. nc_q' \in [addr : Addr, data : Word, ptw : BOOLEAN, rsp : Word]
    BY <1>2, <1>h DEF IdleNc
  <2>2. state_q' \in {"IDLE", "NC_AW", "NC_AR"} /\ pulse_q' = {}
    BY <1>2 DEF IdleNc
  <2> QED BY <1>2, <2>1, <2>2 DEF IdleNc, lines, refill, walk
<1>3. CASE IdlePtwHit(r, flush_i)
  BY <1>3, <1>h DEF IdlePtwHit, lines, refill
<1>4. CASE IdleSc(r, flush_i, victim)
  <2>1. CASE StartMiss(r, victim, TRUE) /\ UNCHANGED lines /\ pulse_q' = {"sc_success"}
    <3>1. miss_q' \in [addr : Addr, victim : Ways, store : BOOLEAN, data : Word]
      BY <2>1, MissTyped
    <3>2. /\ beat_cnt_q' = 0 /\ wb_beat_cnt_q' = 0 /\ evict_tag_q' \in Tags
          /\ state_q' \in {"WB_AW", "REFILL_AR"}
      BY <2>1, MissTyped
    <3> QED BY <2>1, <3>1, <3>2, <1>4, Zeros DEF IdleSc, lines, walk, Pulses
  <2>2. CASE MarkDirty(r) /\ pulse_q' = {"sc_success", "store_done"} /\ UNCHANGED <<state_q, valid_q, refill>>
    BY <2>2, <1>d, <1>4 DEF IdleSc, refill, walk, Pulses
  <2>3. CASE pulse_q' = {"store_done"} /\ UNCHANGED <<state_q, lines, refill>>
    BY <2>3, <1>4 DEF IdleSc, lines, refill, walk, Pulses
  <2> QED BY <2>1, <2>2, <2>3, <1>4 DEF IdleSc
<1>5. CASE IdleLr(r, flush_i, victim)
  <2>1. CASE hit(r)
    BY <2>1, <1>5 DEF IdleLr, lines, refill, walk
  <2>2. CASE ~hit(r)
    <3>0. StartMiss(r, victim, miss_q.store) /\ miss_q.store \in BOOLEAN
      BY <2>2, <1>5 DEF IdleLr
    <3>1. miss_q' \in [addr : Addr, victim : Ways, store : BOOLEAN, data : Word]
      BY <3>0, MissTyped
    <3>2. /\ beat_cnt_q' = 0 /\ wb_beat_cnt_q' = 0 /\ evict_tag_q' \in Tags
          /\ state_q' \in {"WB_AW", "REFILL_AR"}
      BY <3>0, MissTyped
    <3> QED BY <3>1, <3>2, <1>5, Zeros DEF IdleLr, lines, walk
  <2> QED BY <2>1, <2>2
<1>6. CASE IdleAmo(r, flush_i, victim)
  <2>1. CASE hit(r)
    <3>0. /\ miss_q' = [miss_q EXCEPT !.addr.set = r.addr.set, !.addr.beat = r.addr.beat,
                                      !.victim = hit_way_idx(r)]
          /\ amo_q' = [pending |-> TRUE, src |-> r.data, old |-> hit_beat(r)]
          /\ state_q' = "AMO_RMW" /\ pulse_q' = {}
          /\ UNCHANGED <<beat_cnt_q, wb_beat_cnt_q, evict_tag_q>>
          /\ UNCHANGED <<lines, bypass_data_q, walk, nc_q, mem>>
      BY <2>1, <1>6 DEF IdleAmo
    <3>1. miss_q' \in [addr : Addr, victim : Ways, store : BOOLEAN, data : Word]
      <4>1. miss_q \in [addr : Addr, victim : Ways, store : BOOLEAN, data : Word]
        OBVIOUS
      <4> HIDE DEF Types, FsmTypes, TypeOK, MissStates
      <4> QED BY <4>1, <3>0, <1>h DEF Addr
    <3> QED BY <3>0, <3>1, <1>h DEF lines, walk
  <2>2. CASE ~hit(r)
    <3>0. StartMiss(r, victim, miss_q.store) /\ miss_q.store \in BOOLEAN
      BY <2>2, <1>6 DEF IdleAmo
    <3>1. miss_q' \in [addr : Addr, victim : Ways, store : BOOLEAN, data : Word]
      BY <3>0, MissTyped
    <3>2. /\ beat_cnt_q' = 0 /\ wb_beat_cnt_q' = 0 /\ evict_tag_q' \in Tags
          /\ state_q' \in {"WB_AW", "REFILL_AR"}
      BY <3>0, MissTyped
    <3>3. /\ amo_q' = [amo_q EXCEPT !.pending = TRUE, !.src = r.data] /\ pulse_q' = {}
          /\ UNCHANGED <<lines, bypass_data_q, walk, nc_q, mem>>
      BY <2>2, <1>6 DEF IdleAmo
    <3>4. amo_q' \in [pending : BOOLEAN, src : Word, old : Word]
      BY <3>3, <1>h
    <3> QED BY <3>1, <3>2, <3>3, <3>4, Zeros DEF lines, walk
  <2> QED BY <2>1, <2>2
<1>7. CASE IdlePlain(r, flush_i, victim)
  <2>d. dirty_q' \in [Sets -> [Ways -> BOOLEAN]]
    BY <1>7, <1>d DEF IdlePlain
  <2>1. CASE ~(r.valid /\ ~hit(r))
    BY <2>1, <2>d, <1>7 DEF IdlePlain, refill, walk
  <2>2. CASE r.valid /\ ~hit(r)
    <3>0. StartMiss(r, victim, r.we)
      BY <2>2, <1>7 DEF IdlePlain
    <3>1. miss_q' \in [addr : Addr, victim : Ways, store : BOOLEAN, data : Word]
      BY <3>0, <1>h, MissTyped
    <3>2. /\ beat_cnt_q' = 0 /\ wb_beat_cnt_q' = 0 /\ evict_tag_q' \in Tags
          /\ state_q' \in {"WB_AW", "REFILL_AR"}
      BY <3>0, <1>h, MissTyped
    <3> QED BY <3>1, <3>2, <2>d, <1>7, Zeros DEF IdlePlain, walk
  <2> QED BY <2>1, <2>2
<1> QED BY <1>1, <1>2, <1>3, <1>4, <1>5, <1>6, <1>7

\* A beat of a write-back keeps the type of memory.
LEMMA BeatTyped == ASSUME Types, WriteBackBeat, wb_beat_cnt_q \in Beat
                   PROVE  /\ mem' \in [Tags -> [Sets -> [Beat -> Word]]]
                          /\ wb_beat_cnt_q' \in 0 .. Beats
                          /\ ~wb_last_beat => wb_beat_cnt_q' \in Beat
<1>1. /\ miss_q.addr.set \in Sets /\ miss_q.victim \in Ways /\ evict_tag_q \in Tags
      /\ ram_rdata[miss_q.victim] \in Word
  BY DEF Types, FsmTypes, RamTypes, Addr
<1>2. mem' \in [Tags -> [Sets -> [Beat -> Word]]]
  BY <1>1 DEF WriteBackBeat, Types, FsmTypes, TypeOK
<1> QED BY <1>2, GeometryAssumption DEF WriteBackBeat, Beat, wb_last_beat

\* Each arm of the FSM out of IDLE keeps the types of the FSM's registers.
LEMMA BusyTyped ==
  ASSUME Types, NEW axi \in BOOLEAN, NEW ok \in BOOLEAN,
         \/ PtwLookup \/ AddressPhase(axi) \/ RefillR(axi) \/ AmoRmw \/ WbW(axi)
         \/ FlushScan \/ FlushW(axi) \/ NcData(axi, ok)
  PROVE  FsmTypes'
<1>a. /\ miss_q.addr.set \in Sets /\ miss_q.victim \in Ways /\ nc_q.addr \in Addr
      /\ nc_q.addr.tag \in Tags /\ nc_q.addr.set \in Sets /\ nc_q.addr.beat \in Beat
      /\ flush_q.set \in Sets /\ flush_q.way \in Ways
  BY DEF Types, FsmTypes, Addr
<1>b. r_data \in Word
  BY RefillBeats DEF r_data, Types, FsmTypes, TypeOK, Addr
<1> USE DEF Types, FsmTypes, TypeOK, MissStates
<1>1. CASE PtwLookup
  BY <1>1 DEF PtwLookup, lines, refill, walk
<1>2. CASE AddressPhase(axi)
  <2>1. /\ state_q \in {"REFILL_AR", "WB_AW", "FLUSH_AW", "NC_AR", "NC_AW"}
        /\ state_q' \in {state_q, "REFILL_R", "WB_W", "FLUSH_W", "NC_R", "NC_W"}
        /\ state_q' = "REFILL_R" => state_q = "REFILL_AR"
        /\ state_q' = "WB_W" => state_q = "WB_AW"
        /\ state_q' = "FLUSH_W" => state_q = "FLUSH_AW"
    BY <1>2 DEF AddressPhase
  <2> QED BY <2>1, <1>2 DEF AddressPhase, lines, refill, walk
<1>3. CASE RefillR(axi)
  <2>1. CASE ~axi
    BY <2>1, <1>3 DEF RefillR, lines, refill, walk
  <2>2. CASE axi /\ ~refill_last
    <3>1. beat_cnt_q' \in Beat /\ beat_cnt_q' \in 0 .. Beats
      BY <2>2, <1>3, Zeros DEF RefillR, refill_last, Beat
    <3>2. bypass_data_q' \in Word /\ pulse_q' \subseteq Pulses
      BY <2>2, <1>3, <1>b DEF RefillR, Pulses
    <3> QED BY <3>1, <3>2, <2>2, <1>3 DEF RefillR, lines, refill, walk
  <2>3. CASE axi /\ refill_last
    <3>1. beat_cnt_q' \in 0 .. Beats
      BY <2>3, <1>3, Zeros DEF RefillR, refill_last, Beat
    <3>2. bypass_data_q' \in Word /\ pulse_q' \subseteq Pulses
      BY <2>3, <1>3, <1>b DEF RefillR, Pulses
    <3>3. valid_q' \in [Sets -> [Ways -> BOOLEAN]] /\ dirty_q' \in [Sets -> [Ways -> BOOLEAN]]
      <4>1. /\ valid_q' = [valid_q EXCEPT ![miss_q.addr.set][miss_q.victim] = TRUE]
            /\ dirty_q' = [dirty_q EXCEPT ![miss_q.addr.set][miss_q.victim] = miss_q.store]
        BY <2>3, <1>3 DEF RefillR
      <4>2. /\ valid_q \in [Sets -> [Ways -> BOOLEAN]] /\ dirty_q \in [Sets -> [Ways -> BOOLEAN]]
            /\ miss_q.store \in BOOLEAN
        OBVIOUS
      <4> HIDE DEF Types, FsmTypes, TypeOK, MissStates
      <4> QED BY <4>1, <4>2, <1>a
    <3>4. miss_q' \in [addr : Addr, victim : Ways, store : BOOLEAN, data : Word]
      BY <2>3, <1>3 DEF RefillR
    <3>5. amo_q' \in [pending : BOOLEAN, src : Word, old : Word]
      BY <2>3, <1>3 DEF RefillR
    <3>6. state_q' \in {"AMO_RMW", "IDLE"}
      BY <2>3, <1>3 DEF RefillR
    <3> QED BY <3>1, <3>2, <3>3, <3>4, <3>5, <3>6, <2>3, <1>3 DEF RefillR, lines, refill, walk
  <2> QED BY <2>1, <2>2, <2>3
<1>4. CASE AmoRmw
  BY <1>4, <1>a DEF AmoRmw, lines, refill, walk, Pulses
<1>5. CASE WbW(axi)
  <2>1. CASE axi
    <3>1. WriteBackBeat /\ wb_beat_cnt_q \in Beat
      BY <2>1, <1>5 DEF WbW
    <3>2. /\ mem' \in [Tags -> [Sets -> [Beat -> Word]]] /\ wb_beat_cnt_q' \in 0 .. Beats
          /\ ~wb_last_beat => wb_beat_cnt_q' \in Beat
      BY <3>1, BeatTyped
    <3> QED BY <3>2, <2>1, <1>5 DEF WbW, lines, walk
  <2>2. CASE ~axi
    BY <2>2, <1>5 DEF WbW, lines, walk
  <2> QED BY <2>1, <2>2
<1>6. CASE FlushScan
  <2>1. CASE flush_q' = [flush_q EXCEPT !.settled = TRUE] /\ pulse_q' = {} /\ UNCHANGED <<state_q, lines, refill>>
    BY <2>1, <1>6 DEF FlushScan, lines, refill
  <2>2. CASE /\ miss_q' = [miss_q EXCEPT !.addr.set = flush_q.set, !.victim = flush_q.way]
             /\ evict_tag_q' = tag_rdata_eff(flush_q.set, flush_q.way)
             /\ wb_beat_cnt_q' = 0 /\ state_q' = "FLUSH_AW" /\ pulse_q' = {}
             /\ UNCHANGED <<flush_q, lines, beat_cnt_q>>
    <3>1. miss_q' \in [addr : Addr, victim : Ways, store : BOOLEAN, data : Word]
      BY <2>2, <1>a DEF Addr
    <3>2. evict_tag_q' \in Tags
      BY <2>2, <1>a DEF tag_rdata_eff, RamTypes
    <3> QED BY <3>1, <3>2, <2>2, <1>6, Zeros DEF FlushScan, lines
  <2>3. CASE /\ valid_q' = [valid_q EXCEPT ![flush_q.set][flush_q.way] = FALSE]
             /\ AdvanceWalk /\ UNCHANGED <<dirty_q, refill>>
    <3>1. /\ flush_q' \in [set : Sets, way : Ways, settled : BOOLEAN]
          /\ pulse_q' \subseteq Pulses /\ state_q' \in {"FLUSH_SCAN", "IDLE"}
      BY <2>3, WalkTyped
    <3> QED BY <3>1, <2>3, <1>6, <1>a DEF FlushScan, refill
  <2> QED BY <2>1, <2>2, <2>3, <1>6 DEF FlushScan
<1>7. CASE FlushW(axi)
  <2>0. axi => /\ mem' \in [Tags -> [Sets -> [Beat -> Word]]] /\ wb_beat_cnt_q' \in 0 .. Beats
               /\ ~wb_last_beat => wb_beat_cnt_q' \in Beat
    BY <1>7, BeatTyped DEF FlushW
  <2>1. CASE axi /\ wb_last_beat
    <3>1. /\ flush_q' \in [set : Sets, way : Ways, settled : BOOLEAN]
          /\ pulse_q' \subseteq Pulses /\ state_q' \in {"FLUSH_SCAN", "IDLE"}
      BY <2>1, <1>7, WalkTyped DEF FlushW
    <3>2. /\ dirty_q' = [dirty_q EXCEPT ![flush_q.set][flush_q.way] = FALSE]
          /\ valid_q' = [valid_q EXCEPT ![flush_q.set][flush_q.way] = FALSE]
          /\ UNCHANGED <<miss_q, beat_cnt_q, evict_tag_q, bypass_data_q, amo_q, ptw_lookup_way_q, nc_q>>
      BY <2>1, <1>7 DEF FlushW
    <3>3. /\ mem' \in [Tags -> [Sets -> [Beat -> Word]]] /\ wb_beat_cnt_q' \in 0 .. Beats
      BY <2>0, <2>1
    <3>4. valid_q' \in [Sets -> [Ways -> BOOLEAN]] /\ dirty_q' \in [Sets -> [Ways -> BOOLEAN]]
      <4>1. valid_q \in [Sets -> [Ways -> BOOLEAN]] /\ dirty_q \in [Sets -> [Ways -> BOOLEAN]]
        OBVIOUS
      <4> HIDE DEF Types, FsmTypes, TypeOK, MissStates
      <4> QED BY <4>1, <3>2, <1>a
    <3> QED BY <3>1, <3>2, <3>3, <3>4
  <2>2. CASE axi /\ ~wb_last_beat
    BY <2>0, <2>2, <1>7 DEF FlushW, lines
  <2>3. CASE ~axi
    BY <2>3, <1>7 DEF FlushW, lines
  <2> QED BY <2>1, <2>2, <2>3
<1>8. CASE NcData(axi, ok)
  <2>1. CASE ~axi
    BY <2>1, <1>8 DEF NcData, lines, refill, walk
  <2>2. CASE axi /\ state_q = "NC_R"
    <3>1. /\ nc_q' = [nc_q EXCEPT !.rsp = mem[nc_q.addr.tag][nc_q.addr.set][nc_q.addr.beat]]
          /\ pulse_q' \in {{"nc_rsp"}, {"nc_err"}} /\ state_q' = "IDLE" /\ UNCHANGED mem
          /\ UNCHANGED <<lines, refill, bypass_data_q, amo_q, walk>>
      BY <2>2, <1>8 DEF NcData
    <3>2. nc_q' \in [addr : Addr, data : Word, ptw : BOOLEAN, rsp : Word]
      <4>1. mem[nc_q.addr.tag][nc_q.addr.set][nc_q.addr.beat] \in Word
        BY <1>a
      <4>2. nc_q \in [addr : Addr, data : Word, ptw : BOOLEAN, rsp : Word]
        OBVIOUS
      <4> HIDE DEF Types, FsmTypes, TypeOK, MissStates
      <4> QED BY <3>1, <4>1, <4>2
    <3> QED BY <3>1, <3>2 DEF lines, refill, walk, Pulses
  <2>3. CASE axi /\ state_q = "NC_W"
    <3>1. /\ mem' = [mem EXCEPT ![nc_q.addr.tag][nc_q.addr.set][nc_q.addr.beat] = nc_q.data]
          /\ pulse_q' = {} /\ state_q' = "NC_B" /\ UNCHANGED nc_q
          /\ UNCHANGED <<lines, refill, bypass_data_q, amo_q, walk>>
      BY <2>3, <1>8 DEF NcData
    <3> QED BY <3>1, <1>a DEF lines, refill, walk, Pulses
  <2>4. CASE axi /\ state_q = "NC_B"
    <3>1. /\ pulse_q' \in {{"nc_b"}, {"nc_err"}} /\ state_q' = "IDLE" /\ UNCHANGED <<nc_q, mem>>
          /\ UNCHANGED <<lines, refill, bypass_data_q, amo_q, walk>>
      BY <2>4, <1>8 DEF NcData
    <3> QED BY <3>1, <1>a DEF lines, refill, walk, Pulses
  <2> QED BY <2>1, <2>2, <2>3, <2>4, <1>8 DEF NcData
<1> QED BY <1>1, <1>2, <1>3, <1>4, <1>5, <1>6, <1>7, <1>8

\* Memory in program order keeps its type under a write.
LEMMA SetTyped == ASSUME NEW m \in Memory, NEW a \in Addr, NEW v \in Word
                  PROVE  SetAt(m, a, v) \in Memory
  BY DEF SetAt, Memory, Addr

\* What a write of one word leaves at every word.
LEMMA SetReads == ASSUME NEW m \in Memory, NEW a \in Addr, NEW v \in Word,
                         NEW t \in Tags, NEW s \in Sets, NEW b \in Beat
                  PROVE  SetAt(m, a, v)[t][s][b]
                           = IF t = a.tag /\ s = a.set /\ b = a.beat THEN v ELSE m[t][s][b]
  BY DEF SetAt, Memory, Addr

\* Whatever the pipeline holds in a memory stage is an operation of the program.
LEMMA OpTyped == ASSUME NEW p \in Op \cup {None}
                 PROVE  /\ p.addr \in Addr /\ p.data \in Word /\ p.kind \in Kinds \cup {"NONE"}
                        /\ p.kind \in {"NONE", "LOAD", "STORE", "LR", "SC", "AMO", "FENCE"}
  BY KindsAssumption, TargetsAssumption, WordsAssumption, DataAssumption, Zeros DEF Op, None

\* The pipeline registers, the latch and program order keep their types.
LEMMA CoreTyped ==
  ASSUME Types, NEW hold \in BOOLEAN, NEW new \in Op \cup {None}, Core(hold, new), Ptw
  PROVE  CoreTypes'
<1>q. req \in Request /\ req.addr \in Addr
  BY Presented DEF Types, Request
<1>r. rsp_rdata(req) \in Word
  BY <1>q, Compares
<1>l. lsu_rdata \in Word /\ result \in Word
  BY <1>r, WordsAssumption DEF lsu_rdata, result, Types, CoreTypes
<1>m. mem2.addr \in Addr /\ mem2.data \in Word /\ mem2.kind \in Kinds \cup {"NONE"}
  BY OpTyped DEF Types, CoreTypes
<1>1. arch' \in Memory
  <2>1. \A adv \in BOOLEAN : Arch(adv) => arch' \in Memory
    <3>1. arch \in Memory /\ LeafAD \in Word
      BY WordsAssumption DEF Types, CoreTypes
    <3>2. \A m \in Memory : SetAt(m, req.addr, LeafAD) \in Memory
      BY <3>1, <1>q, SetTyped
    <3>3. SetAt(arch, mem2.addr, mem2.data) \in Memory
      BY <3>1, <1>m, SetTyped
    <3> QED BY <3>1, <3>2, <3>3 DEF Arch
  <2>2. (~mem_stall(hold) /\ ~hold) \in BOOLEAN
    OBVIOUS
  <2> QED BY <2>1, <2>2 DEF Core
<1>2. lsu_rdata_latch' \in Word
  BY <1>l DEF Core, Types, CoreTypes
<1>3. fence_i_active_q' \in BOOLEAN
  BY Zenon DEF Core, Types, CoreTypes
<1>4. /\ ex2' \in Op \cup {None} /\ mem1' \in Op \cup {None}
      /\ mem1b' \in Op \cup {None} /\ mem2' \in Op \cup {None}
  BY DEF Core, Advance, Hold, Types, CoreTypes
<1>5. mem_done_q' \in BOOLEAN
  <2>1. CASE Advance(new)
    BY <2>1 DEF Advance
  <2>2. CASE Hold
    BY <2>2 DEF Hold
  <2> QED BY <2>1, <2>2 DEF Core
<1>6. retired' \in [kind : Kinds \cup {"NONE"}, got : Word, want : Word]
  <2>0. At(arch, mem2.addr) \in Word
    BY <1>m DEF At, Types, CoreTypes, Memory, Addr
  <2>1. CASE Advance(new)
    BY <2>0, <2>1, <1>l, <1>m DEF Advance, Types, CoreTypes
  <2>2. CASE Hold
    BY <2>2 DEF Hold, Types, CoreTypes
  <2> QED BY <2>1, <2>2 DEF Core
<1>7. ops' \in Nat
  BY DEF Core, Advance, Hold, Types, CoreTypes
<1>8. ptw_q' \in [state : WalkStates, addr : Addr, pte : Word] /\ walks' \in Nat
  <2>0. ptw_q \in [state : WalkStates, addr : Addr, pte : Word] /\ walks \in Nat
    BY DEF Types, CoreTypes
  <2>1. \A a \in PteAddrs : a \in Addr
    BY TargetsAssumption
  <2>2. CASE ptw_q.state = "S_IDLE"
    <3>1. CASE UNCHANGED <<ptw_q, walks>>
      BY <2>0, <3>1
    <3>2. CASE /\ \E a \in PteAddrs : ptw_q' = [ptw_q EXCEPT !.state = "S_FETCH_REQ", !.addr = a]
               /\ walks' = walks + 1
      <4>1. PICK a \in PteAddrs : ptw_q' = [ptw_q EXCEPT !.state = "S_FETCH_REQ", !.addr = a]
        BY <3>2
      <4>2. a \in Addr /\ "S_FETCH_REQ" \in WalkStates
        BY <2>1 DEF WalkStates
      <4>3. ptw_q' \in [state : WalkStates, addr : Addr, pte : Word]
        BY <2>0, <4>1, <4>2
      <4> QED BY <2>0, <3>2, <4>3
    <3> QED BY <2>2, <3>1, <3>2 DEF Ptw
  <2>3. CASE ptw_q.state \in {"S_FETCH_REQ", "S_AD_LR_REQ"}
    <3> DEFINE pte == rsp_rdata(req)
               st == IF ptw_q.state = "S_FETCH_REQ" THEN "S_FETCH_WAIT" ELSE "S_AD_LR_WAIT"
    <3>1. /\ ptw_q' \in {ptw_q, [ptw_q EXCEPT !.pte = pte, !.state = st]}
          /\ walks' = walks
      BY <2>0, <2>3 DEF Ptw
    <3>2. pte \in Word /\ st \in WalkStates
      BY <1>r DEF WalkStates
    <3> HIDE DEF pte, st
    <3> QED BY <2>0, <3>1, <3>2
  <2>4. CASE ptw_q.state = "S_FETCH_WAIT"
    BY <2>0, <2>4, WordsAssumption DEF Ptw, WalkStates
  <2>5. CASE ptw_q.state \in {"S_AD_LR_WAIT", "S_AD_SC_REQ", "S_AD_SC_WAIT", "S_REFILL", "S_PAGE_FAULT"}
    BY <2>0, <2>5 DEF Ptw, WalkStates
  <2> QED BY <2>0, <2>2, <2>3, <2>4, <2>5 DEF WalkStates
<1> QED BY <1>1, <1>2, <1>3, <1>4, <1>5, <1>6, <1>7, <1>8 DEF CoreTypes

\* One clock edge keeps every register of the data side in its type.
LEMMA ClockTyped ==
  ASSUME Types, NEW hold \in BOOLEAN, NEW new \in Op \cup {None}, NEW rsrv_clear \in BOOLEAN,
         NEW axi \in BOOLEAN, NEW ok \in BOOLEAN, NEW victim \in Ways,
         Clock(hold, new, rsrv_clear, axi, ok, victim)
  PROVE  Types'
<1>q. /\ req \in Request /\ req.addr \in Addr /\ req.ptw \in BOOLEAN /\ dcache_early \in Read
      /\ fence_i_active_q \in BOOLEAN
  BY Presented DEF Types, CoreTypes, Request
<1>1. CoreTypes'
  BY CoreTyped DEF Clock
<1>2. RamTypes'
  BY <1>q, RamsTyped DEF Clock, DCacheEdge
<1>3. FsmTypes'
  BY <1>q, IdleTyped, BusyTyped DEF Clock, DCacheEdge
<1>4. rsrv_q' \in [valid : BOOLEAN, addr : Addr]
  BY <1>q DEF Clock, DCacheEdge, Reservation, Types
<1>5. in_flight_is_ptw_q' \in BOOLEAN
  BY <1>q DEF Clock, DCacheEdge, Owner, Types
<1> QED BY <1>1, <1>2, <1>3, <1>4, <1>5 DEF Types

\* A step is a clock edge of some inputs.
LEMMA Edges == ASSUME Next
               PROVE  \E hold \in BOOLEAN, rsrv_clear \in BOOLEAN, axi \in BOOLEAN, ok \in BOOLEAN,
                         victim \in Ways, new \in Op \cup {None} :
                        /\ Clock(hold, new, rsrv_clear, axi, ok, victim)
                        /\ ~BusErrors => ok
<1>1. PICK hold \in {FALSE, Stalls}, rsrv_clear \in {FALSE, "SC" \in Kinds}, axi \in Handshakes,
           ok \in {TRUE, ~BusErrors}, victim \in Victims, new \in Fetchable :
             Clock(hold, new, rsrv_clear, axi, ok, victim)
  BY DEF Next
<1>2. hold \in BOOLEAN /\ rsrv_clear \in BOOLEAN /\ ok \in BOOLEAN
  <2>1. hold = FALSE \/ hold = Stalls
    OBVIOUS
  <2>2. rsrv_clear = FALSE \/ rsrv_clear = ("SC" \in Kinds)
    OBVIOUS
  <2>3. ok = TRUE \/ ok = ~BusErrors
    OBVIOUS
  <2>4. Stalls \in BOOLEAN /\ ("SC" \in Kinds) \in BOOLEAN /\ (~BusErrors) \in BOOLEAN
    BY SwitchAssumption
  <2> QED BY <2>1, <2>2, <2>3, <2>4, Zenon
<1>3. new \in Op \cup {None}
  BY DEF Fetchable
<1>4. ~BusErrors => ok
  BY SwitchAssumption
<1>5. axi \in BOOLEAN
  BY Zenon DEF Handshakes
<1>6. victim \in Ways
  <2>1. 0 \in Ways
    BY GeometryAssumption DEF Ways
  <2> QED BY <2>1 DEF Victims
<1> QED BY <1>1, <1>2, <1>3, <1>4, <1>5, <1>6

\* The reset values are of their types.
LEMMA TypesInit == Init => Types
<1> SUFFICES ASSUME Init PROVE Types
  OBVIOUS
<1>1. Zero \in Word /\ None \in Op \cup {None}
  BY WordAssumption DEF None
<1>2. RamTypes
  BY <1>1, Zeros DEF Init, DCacheInit, RamTypes
<1>3. FsmTypes
  BY <1>1, Zeros DEF Init, DCacheInit, FsmTypes, TypeOK, MissStates
<1>4. CoreTypes
  BY <1>1, Zeros DEF Init, DCacheInit, CoreTypes, Memory, WalkStates
<1> QED BY <1>2, <1>3, <1>4, Zeros DEF Init, DCacheInit, Types

\* Nothing but a clock edge changes a type.
LEMMA TypesStutter == Types /\ UNCHANGED vars => Types'
  BY DEF Types, RamTypes, FsmTypes, TypeOK, CoreTypes, vars, dcacheVars, coreVars

\* Every register of the data cache, of the memory stages and of the walker
\* keeps its type, for every geometry, program and sequence of walks: a beat
\* counter never leaves the line while it indexes it, a victim is a way, and
\* the flush walk stays inside the cache.
THEOREM DataTypes == Spec => []Types
<1>1. Types /\ [Next]_vars => Types'
  BY Edges, ClockTyped, TypesStutter
<1> QED BY <1>1, TypesInit, PTL DEF Spec

-----------------------------------------------------------------------------
(* Uncached addresses. *)

\* The last beat of a refill, which makes the line valid and writes its tag.
Fill(axi) == state_q = "REFILL_R" /\ axi /\ refill_last

\* Only the last beat of a refill makes a line valid.
LEMMA OnlyFillsValidate ==
  ASSUME Types, NEW r \in Request, NEW flush_i \in BOOLEAN, NEW victim \in Ways,
         NEW axi \in BOOLEAN, NEW ok \in BOOLEAN, NEW early, NEW rsrv_clear,
         DCacheEdge(r, early, flush_i, rsrv_clear, axi, ok, victim),
         NEW s \in Sets, NEW w \in Ways, valid_q'[s][w]
  PROVE  valid_q[s][w] \/ (Fill(axi) /\ s = miss_q.addr.set /\ w = miss_q.victim)
<1> USE DEF Fill, lines
<1>0. valid_q \in [Sets -> [Ways -> BOOLEAN]]
  BY DEF Types, FsmTypes, TypeOK
<1>1. CASE UNCHANGED valid_q
  BY <1>1
<1>2. CASE valid_q' = [valid_q EXCEPT ![flush_q.set][flush_q.way] = FALSE]
  <2>1. flush_q.set \in Sets /\ flush_q.way \in Ways
    BY DEF Types, FsmTypes
  <2> QED BY <1>0, <1>2, <2>1
<1>3. CASE Fill(axi) /\ valid_q' = [valid_q EXCEPT ![miss_q.addr.set][miss_q.victim] = TRUE]
  BY <1>0, <1>3 DEF Types, FsmTypes, Addr
<1>4. \/ IdleFlush(flush_i) \/ IdleNc(r, flush_i) \/ IdlePtwHit(r, flush_i)
      \/ IdleSc(r, flush_i, victim) \/ IdleLr(r, flush_i, victim)
      \/ IdleAmo(r, flush_i, victim) \/ IdlePlain(r, flush_i, victim)
      \/ PtwLookup \/ AddressPhase(axi) \/ RefillR(axi) \/ AmoRmw \/ WbW(axi)
      \/ FlushScan \/ FlushW(axi) \/ NcData(axi, ok)
  BY DEF DCacheEdge
<1>5. CASE IdleFlush(flush_i) \/ IdleNc(r, flush_i) \/ IdlePtwHit(r, flush_i)
  BY <1>5, <1>1 DEF IdleFlush, IdleNc, IdlePtwHit
<1>6. CASE \/ IdleSc(r, flush_i, victim) \/ IdleLr(r, flush_i, victim)
           \/ IdleAmo(r, flush_i, victim) \/ IdlePlain(r, flush_i, victim)
  BY <1>6, <1>1 DEF IdleSc, IdleLr, IdleAmo, IdlePlain
<1>7. CASE PtwLookup \/ AddressPhase(axi) \/ AmoRmw \/ WbW(axi) \/ NcData(axi, ok)
  BY <1>7, <1>1 DEF PtwLookup, AddressPhase, AmoRmw, WbW, NcData
<1>8. CASE RefillR(axi)
  BY <1>8, <1>1, <1>3 DEF RefillR
<1>9. CASE FlushScan
  BY <1>9, <1>1, <1>2 DEF FlushScan
<1>10. CASE FlushW(axi)
  BY <1>10, <1>1, <1>2 DEF FlushW
<1> QED BY <1>4, <1>5, <1>6, <1>7, <1>8, <1>9, <1>10

\* The tag RAM changes only there, to the tag of the miss.
LEMMA OnlyFillsTag ==
  ASSUME Types, NEW r, NEW early, NEW flush_i, NEW axi, Rams(r, early, flush_i, axi),
         NEW s \in Sets, NEW w \in Ways
  PROVE  tag_ram'[w][s] = IF Fill(axi) /\ s = miss_q.addr.set /\ w = miss_q.victim
                          THEN miss_q.addr.tag ELSE tag_ram[w][s]
<1>1. /\ tag_ram \in [Ways -> [Sets -> Tags]] /\ miss_q.addr.set \in Sets /\ miss_q.victim \in Ways
  BY DEF Types, RamTypes, FsmTypes, Addr
<1>2. tag_ram' = IF Fill(axi) THEN [tag_ram EXCEPT ![miss_q.victim][miss_q.addr.set] = miss_q.addr.tag]
                 ELSE tag_ram
  BY DEF Rams, Fill
<1> QED BY <1>1, <1>2

\* A miss is never for an uncached address.
CachedMisses == state_q \in MissStates => miss_q.addr.tag \notin NcTags

\* Every way out of IDLE into a miss passes the test of the uncached regions.
LEMMA CachedStep ==
  ASSUME Types, CachedMisses, NEW r \in Request, NEW flush_i \in BOOLEAN, NEW victim \in Ways,
         NEW axi \in BOOLEAN, NEW ok \in BOOLEAN, NEW early, NEW rsrv_clear,
         DCacheEdge(r, early, flush_i, rsrv_clear, axi, ok, victim)
  PROVE  CachedMisses'
<1> USE DEF MissStates
<1>4. \/ IdleFlush(flush_i) \/ IdleNc(r, flush_i) \/ IdlePtwHit(r, flush_i)
      \/ IdleSc(r, flush_i, victim) \/ IdleLr(r, flush_i, victim)
      \/ IdleAmo(r, flush_i, victim) \/ IdlePlain(r, flush_i, victim)
      \/ PtwLookup \/ AddressPhase(axi) \/ RefillR(axi) \/ AmoRmw \/ WbW(axi)
      \/ FlushScan \/ FlushW(axi) \/ NcData(axi, ok)
  BY DEF DCacheEdge
<1>m. ASSUME NEW store, StartMiss(r, victim, store), r.valid, ~is_uncacheable(r)
      PROVE  CachedMisses'
  BY <1>m DEF StartMiss, CachedMisses, is_uncacheable
<1>5. CASE IdleFlush(flush_i) \/ IdleNc(r, flush_i) \/ IdlePtwHit(r, flush_i)
  BY <1>5 DEF IdleFlush, IdleNc, IdlePtwHit, CachedMisses
<1>6. CASE \/ IdleSc(r, flush_i, victim) \/ IdleLr(r, flush_i, victim)
           \/ IdleAmo(r, flush_i, victim) \/ IdlePlain(r, flush_i, victim)
  <2>1. CASE /\ \E store \in BOOLEAN : StartMiss(r, victim, store)
             /\ r.valid /\ ~is_uncacheable(r)
    BY <2>1, <1>m
  <2>2. CASE state_q' \notin MissStates
    BY <2>2 DEF CachedMisses
  <2>3. state_q = "IDLE" /\ ~(r.valid /\ is_uncacheable(r)) /\ miss_q.store \in BOOLEAN /\ r.we \in BOOLEAN
    BY <1>6 DEF IdleSc, IdleLr, IdleAmo, IdlePlain, Cached, Types, FsmTypes, Request
  <2>4. CASE IdleSc(r, flush_i, victim)
    BY <2>1, <2>2, <2>3, <2>4 DEF IdleSc, AmoArm
  <2>5. CASE IdleLr(r, flush_i, victim) \/ IdleAmo(r, flush_i, victim)
    BY <2>1, <2>2, <2>3, <2>5 DEF IdleLr, IdleAmo, AmoArm
  <2>6. CASE IdlePlain(r, flush_i, victim)
    BY <2>1, <2>2, <2>3, <2>6 DEF IdlePlain
  <2> QED BY <1>6, <2>4, <2>5, <2>6
<1>7. CASE PtwLookup \/ AmoRmw \/ NcData(axi, ok)
  BY <1>7 DEF PtwLookup, AmoRmw, NcData, CachedMisses
<1>8. CASE AddressPhase(axi)
  BY <1>8 DEF AddressPhase, CachedMisses, refill
<1>9. CASE RefillR(axi)
  BY <1>9 DEF RefillR, CachedMisses, refill
<1>10. CASE WbW(axi)
  BY <1>10 DEF WbW, CachedMisses
<1>11. CASE FlushScan
  BY <1>11 DEF FlushScan, AdvanceWalk, CachedMisses
<1>12. CASE FlushW(axi)
  BY <1>12 DEF FlushW, AdvanceWalk, CachedMisses
<1> QED BY <1>4, <1>5, <1>6, <1>7, <1>8, <1>9, <1>10, <1>11, <1>12

\* An address of an uncached region never allocates a line, whatever the core,
\* the walker and the bus do: every road into a refill passes the test of the
\* regions, and no arm of the FSM changes the tag of a miss before its line is
\* valid (the AMO hit and the flush walk, which reuse the miss register,
\* included).
THEOREM UncachedStaysOut == Spec => []UncachedNeverAllocates
<1> DEFINE I == Types /\ CachedMisses /\ UncachedNeverAllocates
<1>1. Init => I
  BY TypesInit DEF Init, DCacheInit, CachedMisses, MissStates, UncachedNeverAllocates
<1>2. I /\ [Next]_vars => I'
  <2>1. CASE UNCHANGED vars
    BY <2>1, TypesStutter DEF vars, dcacheVars, CachedMisses, UncachedNeverAllocates
  <2>2. ASSUME I, Next PROVE I'
    <3>1. PICK hold \in BOOLEAN, rsrv_clear \in BOOLEAN, axi \in BOOLEAN, ok \in BOOLEAN,
               victim \in Ways, new \in Op \cup {None} :
                 Clock(hold, new, rsrv_clear, axi, ok, victim)
      BY <2>2, Edges
    <3>2. req \in Request /\ fence_i_active_q \in BOOLEAN
      BY <2>2, Presented DEF Types, CoreTypes
    <3>3. DCacheEdge(req, dcache_early, fence_i_active_q, rsrv_clear, axi, ok, victim)
      BY <3>1 DEF Clock
    <3>4. Types'
      BY <2>2, <3>1, ClockTyped
    <3>5. CachedMisses'
      BY <2>2, <3>2, <3>3, CachedStep
    <3>6. ASSUME NEW s \in Sets, NEW w \in Ways, valid_q'[s][w] PROVE tag_ram'[w][s] \notin NcTags
      <4>1. valid_q[s][w] \/ (Fill(axi) /\ s = miss_q.addr.set /\ w = miss_q.victim)
        BY <2>2, <3>2, <3>3, <3>6, OnlyFillsValidate
      <4>2. tag_ram'[w][s] = IF Fill(axi) /\ s = miss_q.addr.set /\ w = miss_q.victim
                             THEN miss_q.addr.tag ELSE tag_ram[w][s]
        BY <2>2, <3>3, OnlyFillsTag DEF DCacheEdge
      <4> QED BY <2>2, <4>1, <4>2 DEF Fill, CachedMisses, MissStates, UncachedNeverAllocates
    <3>7. UncachedNeverAllocates'
      BY <3>6 DEF UncachedNeverAllocates
    <3> QED BY <3>4, <3>5, <3>7
  <2> QED BY <2>1, <2>2
<1> QED BY <1>1, <1>2, PTL DEF Spec

-----------------------------------------------------------------------------
(* Loads, stores and flushes: the core's part of an edge. *)

\* What the request of a core without walks is, and when it is answered.
LEMMA PlainRequest ==
  ASSUME Fragment, Types, Owned
  PROVE  /\ req = lsu_req /\ (req.valid <=> is_mem(mem2) /\ ~mem_done_q)
         /\ ~req.ptw /\ req.op = "PLAIN"
         /\ req.valid => /\ req.addr = mem2.addr /\ (req.we <=> mem2.kind = "STORE")
                         /\ req.data = mem2.data /\ mem2.kind \in {"LOAD", "STORE"}
         /\ mem2.kind \in {"NONE", "LOAD", "STORE", "FENCE"}
         /\ ~rsp_to_ptw(req) /\ ~Faulted /\ ~PtwWrites
         /\ lsu_valid <=> /\ state_q = "IDLE"
                          /\ hit(req) \/ pulse_q \cap {"store_done", "nc_rsp", "nc_b"} # {}
         /\ lsu_valid => req.valid
         /\ lsu_mem_stall <=> req.valid /\ ~lsu_valid
<1>1. ptw_req = NoReq
  BY DEF Owned, ptw_req
<1>2. req = lsu_req
  BY <1>1 DEF req, eff_req, NoReq
<1>3. mem2.kind \in {"NONE", "LOAD", "STORE", "FENCE"}
  BY OpTyped DEF Types, CoreTypes, Fragment
<1>4. (req.valid <=> is_mem(mem2) /\ ~mem_done_q) /\ ~req.ptw /\ req.op = "PLAIN"
  BY <1>2, <1>3 DEF lsu_req, NoReq, is_mem
<1>5. req.valid => /\ req.addr = mem2.addr /\ (req.we <=> mem2.kind = "STORE")
                   /\ req.data = mem2.data /\ mem2.kind \in {"LOAD", "STORE"}
  BY <1>2, <1>3, <1>4 DEF lsu_req, is_mem
<1>6. state_q # "PTW_LOOKUP" /\ "amo_done" \notin pulse_q /\ "nc_err" \notin pulse_q
  BY DEF Owned, MissStates, FlushStates, NcStates
<1>7. ~rsp_to_ptw(req)
  BY <1>4, <1>6 DEF rsp_to_ptw, Owned
<1>8. ~amo_nc_fault(req, fence_i_active_q) /\ ~bus_err_fault
  BY <1>4, <1>6 DEF amo_nc_fault, bus_err_fault
<1>9. ~PtwWrites
  BY <1>4 DEF PtwWrites
<1>10. lsu_valid <=> /\ state_q = "IDLE"
                     /\ hit(req) \/ pulse_q \cap {"store_done", "nc_rsp", "nc_b"} # {}
  BY <1>4, <1>6, <1>7 DEF lsu_valid, data_valid, rsp_valid, stall_o, Owned
<1>11. hit(req) => req.valid
  BY DEF hit, hit_way_oh
<1>12. lsu_valid => req.valid
  BY <1>2, <1>10, <1>11 DEF Owned
<1>13. lsu_mem_stall <=> req.valid /\ ~lsu_valid
  BY <1>2, <1>8 DEF lsu_mem_stall, lsu_valid
<1> QED BY <1>2, <1>3, <1>4, <1>5, <1>7, <1>8, <1>9, <1>10, <1>12, <1>13 DEF Faulted

\* Memory in program order once MEM2 has left.
After == IF is_mem(mem2) /\ mem2.kind = "STORE" THEN SetAt(arch, mem2.addr, mem2.data) ELSE arch

\* The two things the core does at an edge.
Leaves ==
  /\ state_q = "IDLE" /\ ~fence_i_active_q /\ (lsu_req.valid => lsu_valid)
  /\ mem2' = mem1b /\ ~mem_done_q' /\ arch' = After /\ ~fence_i_active_q'
  /\ retired' = IF is_mem(mem2) THEN [kind |-> mem2.kind, got |-> result, want |-> At(arch, mem2.addr)]
                ELSE [retired EXCEPT !.kind = "NONE"]
Stays ==
  /\ mem2' = mem2 /\ (mem_done_q' <=> mem_done_q \/ lsu_valid) /\ arch' = arch /\ retired' = retired
  /\ fence_i_active_q /\ "flush_done" \notin pulse_q => fence_i_active_q'
  /\ fence_i_active_q' => \/ fence_i_active_q /\ "flush_done" \notin pulse_q
                          \/ state_q = "IDLE" /\ ~fence_i_active_q /\ (lsu_req.valid => lsu_valid)

\* The pipeline advances only in IDLE: whatever else the FSM does is for MEM2
\* or for a FENCE.I, and both hold the stage.
LEMMA CoreMoves ==
  ASSUME Fragment, Types, Owned, NEW hold \in BOOLEAN, NEW new, Core(hold, new), Ptw
  PROVE  /\ UNCHANGED <<ptw_q, walks>>
         /\ lsu_rdata_latch' = IF lsu_valid THEN lsu_rdata ELSE lsu_rdata_latch
         /\ Leaves \/ Stays
<1>r. /\ req = lsu_req /\ ~Faulted /\ ~PtwWrites /\ (lsu_mem_stall <=> lsu_req.valid /\ ~lsu_valid)
      /\ mem2.kind \in {"NONE", "LOAD", "STORE", "FENCE"} /\ (lsu_valid => state_q = "IDLE")
  BY PlainRequest
<1>1. UNCHANGED <<ptw_q, walks>>
  BY DEF Owned, Ptw, Fragment
<1>2. state_q # "IDLE" => lsu_mem_stall \/ fence_i_active_q
  BY <1>r DEF Owned, MissStates, FlushStates, NcStates
<1>3. lsu_rdata_latch' = IF lsu_valid THEN lsu_rdata ELSE lsu_rdata_latch
  BY DEF Core
<1>4. CASE ~mem_stall(hold) /\ ~hold
  <2>1. Advance(new) /\ Arch(TRUE)
    BY <1>4 DEF Core
  <2>2. arch' = After
    BY <2>1, <1>r DEF Arch, After, Wrote
  <2>3. ~lsu_mem_stall /\ ~fence_i_active_q /\ ~(fence_i_pulse_raw(hold) /\ dirty_pending)
    BY <1>4 DEF mem_stall
  <2>4. ~fence_i_active_q'
    BY <2>3 DEF Core
  <2> QED BY <1>1, <1>2, <1>3, <1>r, <2>1, <2>2, <2>3, <2>4 DEF Advance, Leaves
<1>5. CASE ~(~mem_stall(hold) /\ ~hold)
  <2>1. Hold /\ Arch(FALSE)
    BY <1>5 DEF Core
  <2>2. arch' = arch
    BY <2>1, <1>r DEF Arch
  <2>3. fence_i_active_q' = IF fence_i_pulse_raw(hold) /\ dirty_pending /\ ~fence_i_active_q
                            THEN TRUE
                            ELSE IF "flush_done" \in pulse_q THEN FALSE ELSE fence_i_active_q
    BY DEF Core
  <2>4. fence_i_pulse_raw(hold) /\ ~fence_i_active_q => state_q = "IDLE" /\ (lsu_req.valid => lsu_valid)
    BY <1>2, <1>r DEF fence_i_pulse_raw
  <2>5. fence_i_active_q \in BOOLEAN
    BY DEF Types, CoreTypes
  <2>6. fence_i_active_q /\ "flush_done" \notin pulse_q => fence_i_active_q'
    BY <2>3
  <2>7. fence_i_active_q' => \/ fence_i_active_q /\ "flush_done" \notin pulse_q
                             \/ state_q = "IDLE" /\ ~fence_i_active_q /\ (lsu_req.valid => lsu_valid)
    BY <2>3, <2>4, <2>5
  <2> QED BY <1>1, <1>3, <2>1, <2>2, <2>6, <2>7 DEF Hold, Stays
<1> QED BY <1>4, <1>5

-----------------------------------------------------------------------------
(* Loads, stores and flushes: the cache's part of an edge. *)

\* A request that is compared hits exactly the way that holds its line, and
\* reads the word the RAM holds, whichever of the three sources supplies it.
LEMMA Hits ==
  ASSUME Fragment, Types, Owned, OneCopy, FreshTags, FreshWords, Bypassed, Compared
  PROVE  /\ \A w : w \in hit_way_oh(req) <=> /\ w \in Ways /\ valid_q[mem2.addr.set][w]
                                             /\ tag_ram[w][mem2.addr.set] = mem2.addr.tag
         /\ hit(req) => \E w \in Ways : /\ hit_way_oh(req) = {w}
                                        /\ hit_beat(req) = data_ram[w][mem2.addr.set][mem2.addr.beat]
<1>r. req.valid /\ req.addr = mem2.addr
  BY PlainRequest DEF Compared
<1>m. mem2.addr.set \in Sets /\ mem2.addr.tag \in Tags /\ mem2.addr.beat \in Beat
  BY OpTyped DEF Types, CoreTypes, Addr
<1>1. \A w : w \in hit_way_oh(req) <=> /\ w \in Ways /\ valid_q[mem2.addr.set][w]
                                       /\ tag_ram[w][mem2.addr.set] = mem2.addr.tag
  BY <1>r DEF hit_way_oh, FreshTags
<1>2. ASSUME hit(req)
      PROVE  \E w \in Ways : /\ hit_way_oh(req) = {w}
                             /\ hit_beat(req) = data_ram[w][mem2.addr.set][mem2.addr.beat]
  <2>1. PICK w \in Ways : w \in hit_way_oh(req)
    BY <1>1, <1>2 DEF hit
  <2>2. hit_way_oh(req) = {w}
    <3>1. \A v : v \in hit_way_oh(req) => v = w
      BY <1>1, <1>m, <2>1 DEF OneCopy
    <3> QED BY <2>1, <3>1
  <2>3. hit_way_idx(req) = w
    BY <1>2, <2>2, MaxOne DEF hit_way_idx
  <2>4. hit_beat(req) = IF Covers(prev_write_q, w, mem2.addr) THEN prev_write_q.data
                        ELSE IF Covers(prev2_write_q, w, mem2.addr) THEN prev2_write_q.data
                        ELSE ram_rdata[w]
    BY <1>2, <1>r, <2>3 DEF hit_beat
  <2>5. hit_beat(req) = data_ram[w][mem2.addr.set][mem2.addr.beat]
    BY <2>4 DEF FreshWords, Bypassed, Covers
  <2> QED BY <2>2, <2>5
<1> QED BY <1>1, <1>2

\* An uncached request never hits.
LEMMA UncachedMisses ==
  ASSUME Fragment, Types, Owned, OneCopy, FreshTags, FreshWords, Bypassed, Compared,
         UncachedNeverAllocates, mem2.addr.tag \in NcTags
  PROVE  ~hit(req)
<1>1. mem2.addr.set \in Sets
  BY OpTyped DEF Types, CoreTypes, Addr
<1> QED BY <1>1, Hits DEF hit, UncachedNeverAllocates

\* Where port A writes.
LEMMA Written ==
  ASSUME Types, NEW r \in Request, NEW early \in Read, NEW flush_i \in BOOLEAN,
         NEW axi \in BOOLEAN, Rams(r, early, flush_i, axi),
         NEW wr, wr = ram_write(r, flush_i, axi)
  PROVE  /\ wr \in Write /\ prev_write_q' = wr /\ prev2_write_q' = prev_write_q
         /\ \A w \in Ways, s \in Sets, b \in Beat :
              data_ram'[w][s][b] = IF w \in wr.ways /\ s = wr.set /\ b = wr.beat
                                   THEN wr.data ELSE data_ram[w][s][b]
<1>1. wr \in Write
  BY Ports
<1>2. /\ data_ram' = [w \in Ways |-> IF w \in wr.ways
                                     THEN [data_ram[w] EXCEPT ![wr.set][wr.beat] = wr.data]
                                     ELSE data_ram[w]]
      /\ prev_write_q' = wr /\ prev2_write_q' = prev_write_q
  BY DEF Rams
<1>3. wr.set \in Sets /\ wr.beat \in Beat
  BY <1>1 DEF Write
<1>4. data_ram \in [Ways -> [Sets -> [Beat -> Word]]]
  BY DEF Types, RamTypes
<1> QED BY <1>1, <1>2, <1>3, <1>4

\* The bypass registers follow the RAM.
LEMMA BypassedStep ==
  ASSUME Types, Bypassed, NEW r \in Request, NEW early \in Read, NEW flush_i \in BOOLEAN,
         NEW axi \in BOOLEAN, Rams(r, early, flush_i, axi)
  PROVE  Bypassed'
<1> DEFINE wr == ram_write(r, flush_i, axi)
<1>1. /\ wr \in Write /\ prev_write_q' = wr /\ prev2_write_q' = prev_write_q
      /\ \A w \in Ways, s \in Sets, b \in Beat :
           data_ram'[w][s][b] = IF w \in wr.ways /\ s = wr.set /\ b = wr.beat
                                THEN wr.data ELSE data_ram[w][s][b]
  BY Written
<1>2. prev_write_q \in Write
  BY DEF Types, RamTypes
<1> HIDE DEF wr
<1>3. \A w \in wr.ways : data_ram'[w][wr.set][wr.beat] = wr.data
  BY <1>1 DEF Write
<1>4. \A w \in prev_write_q.ways : ~Covers(wr, w, prev_write_q) =>
        data_ram'[w][prev_write_q.set][prev_write_q.beat] = prev_write_q.data
  BY <1>1, <1>2 DEF Write, Covers, Bypassed
<1> QED BY <1>1, <1>3, <1>4 DEF Bypassed, Covers

\* What an edge from IDLE does: start a flush, answer, write a hit, start a
\* miss, or start an uncached access.
StartsFlush ==
  /\ fence_i_active_q /\ "flush_done" \notin pulse_q
  /\ flush_q' = [set |-> 0, way |-> 0, settled |-> FALSE] /\ state_q' = "FLUSH_SCAN"
  /\ UNCHANGED <<valid_q, dirty_q, miss_q, nc_q, data_ram>>
Answers ==
  /\ fence_i_active_q => "flush_done" \in pulse_q
  /\ lsu_req.valid => lsu_valid /\ (mem2.kind = "STORE" => "nc_b" \in pulse_q)
  /\ state_q' = "IDLE"
  /\ UNCHANGED <<valid_q, dirty_q, miss_q, nc_q, data_ram>>
WritesHit ==
  /\ lsu_req.valid /\ lsu_valid /\ mem2.kind = "STORE" /\ mem2.addr.tag \notin NcTags
  /\ \E w \in Ways :
       /\ valid_q[mem2.addr.set][w] /\ tag_ram[w][mem2.addr.set] = mem2.addr.tag
       /\ \A s \in Sets, v \in Ways :
            dirty_q'[s][v] <=> dirty_q[s][v] \/ (s = mem2.addr.set /\ v = w)
       /\ \A s \in Sets, v \in Ways, b \in Beat :
            data_ram'[v][s][b] = IF v = w /\ s = mem2.addr.set /\ b = mem2.addr.beat
                                 THEN mem2.data ELSE data_ram[v][s][b]
  /\ state_q' = "IDLE"
  /\ UNCHANGED <<valid_q, miss_q, nc_q>>
Misses ==
  /\ lsu_req.valid /\ ~lsu_valid /\ mem2.addr.tag \notin NcTags
  /\ \A w \in Ways : valid_q[mem2.addr.set][w] => tag_ram[w][mem2.addr.set] # mem2.addr.tag
  /\ miss_q'.addr = mem2.addr /\ (miss_q'.store <=> mem2.kind = "STORE")
  /\ miss_q'.store => miss_q'.data = mem2.data
  /\ beat_cnt_q' = 0 /\ wb_beat_cnt_q' = 0
  /\ evict_tag_q' = tag_ram[miss_q'.victim][mem2.addr.set]
  /\ state_q' = IF valid_q[mem2.addr.set][miss_q'.victim] /\ dirty_q[mem2.addr.set][miss_q'.victim]
                THEN "WB_AW" ELSE "REFILL_AR"
  /\ UNCHANGED <<valid_q, dirty_q, nc_q, data_ram>>
GoesUncached ==
  /\ lsu_req.valid /\ ~lsu_valid /\ mem2.addr.tag \in NcTags
  /\ nc_q'.addr = mem2.addr /\ nc_q'.data = mem2.data /\ ~nc_q'.ptw
  /\ state_q' = IF mem2.kind = "STORE" THEN "NC_AW" ELSE "NC_AR"
  /\ UNCHANGED <<valid_q, dirty_q, miss_q, data_ram>>

\* An edge from IDLE is one of these five.
LEMMA IdleArms ==
  ASSUME Fragment, DataInv, state_q = "IDLE", NEW rsrv_clear, NEW axi \in BOOLEAN,
         NEW ok \in BOOLEAN, NEW victim \in Ways,
         DCacheEdge(req, dcache_early, fence_i_active_q, rsrv_clear, axi, ok, victim)
  PROVE  /\ StartsFlush \/ Answers \/ WritesHit \/ Misses \/ GoesUncached
         /\ pulse_q' = {} /\ UNCHANGED <<mem, tag_ram, amo_q>> /\ ~in_flight_is_ptw_q'
<1>i. /\ Types /\ Owned /\ OneCopy /\ FreshTags /\ FreshWords /\ Bypassed
      /\ UncachedNeverAllocates /\ Present
  BY DEF DataInv
<1>r. /\ req = lsu_req /\ req \in Request /\ fence_i_active_q \in BOOLEAN /\ dcache_early \in Read
      /\ ~req.ptw /\ req.op = "PLAIN"
      /\ req.valid => /\ req.addr = mem2.addr /\ (req.we <=> mem2.kind = "STORE")
                      /\ req.data = mem2.data /\ mem2.kind \in {"LOAD", "STORE"}
      /\ lsu_valid <=> hit(req) \/ pulse_q \cap {"store_done", "nc_rsp", "nc_b"} # {}
      /\ lsu_valid => req.valid
  BY <1>i, PlainRequest, Presented DEF Types, CoreTypes
<1>m. /\ mem2.addr.set \in Sets /\ mem2.addr.tag \in Tags /\ mem2.addr.beat \in Beat
      /\ mem2.addr \in Addr /\ mem2.data \in Word
  BY <1>i, OpTyped DEF Types, CoreTypes, Addr
<1>f. fence_i_active_q => ~req.valid
  BY <1>i, <1>r DEF Owned
<1>g. flushing(fence_i_active_q) <=> fence_i_active_q /\ "flush_done" \notin pulse_q
  BY DEF flushing
<1>1. UNCHANGED tag_ram
  BY DEF DCacheEdge, Rams
<1>2. ~in_flight_is_ptw_q'
  BY <1>i, <1>r DEF DCacheEdge, Owner, Owned
<1>3. ~AmoArm(req) /\ ~PtwHit(req)
  BY <1>r DEF AmoArm, PtwHit
<1>4. IdleFlush(fence_i_active_q) \/ IdleNc(req, fence_i_active_q) \/ IdlePlain(req, fence_i_active_q, victim)
  BY <1>3 DEF DCacheEdge, IdlePtwHit, IdleSc, IdleLr, IdleAmo, PtwLookup, AddressPhase, RefillR,
     AmoRmw, WbW, FlushScan, FlushW, NcData
<1>5. pulse_q' = {} /\ UNCHANGED <<mem, amo_q>>
  BY <1>4 DEF IdleFlush, IdleNc, IdlePlain
<1>w. ASSUME ~store_hit_fire(req, fence_i_active_q) PROVE UNCHANGED data_ram
  <2> DEFINE wr == ram_write(req, fence_i_active_q, axi)
  <2>1. wr = NoWrite
    BY <1>w, <1>r DEF ram_write, sc_hit_write_fire
  <2>2. data_ram' = [w \in Ways |-> IF w \in wr.ways
                                    THEN [data_ram[w] EXCEPT ![wr.set][wr.beat] = wr.data]
                                    ELSE data_ram[w]]
    BY DEF DCacheEdge, Rams
  <2>3. wr.ways = {}
    BY <2>1 DEF NoWrite
  <2> HIDE DEF wr
  <2>4. data_ram' = [w \in Ways |-> data_ram[w]]
    BY <2>2, <2>3
  <2> QED BY <2>4, <1>i DEF Types, RamTypes
<1>6. CASE IdleFlush(fence_i_active_q)
  <2>1. ~store_hit_fire(req, fence_i_active_q)
    BY <1>6 DEF IdleFlush, store_hit_fire
  <2>2. StartsFlush
    BY <1>6, <1>g, <1>w, <2>1 DEF IdleFlush, lines, refill, StartsFlush
  <2> QED BY <2>2, <1>1, <1>2, <1>5
<1>7. CASE IdleNc(req, fence_i_active_q)
  <2>1. req.valid /\ mem2.addr.tag \in NcTags
    BY <1>7, <1>r DEF IdleNc, is_uncacheable
  <2>2. ~store_hit_fire(req, fence_i_active_q)
    BY <1>7 DEF IdleNc, store_hit_fire
  <2>3. CASE pulse_q \cap {"nc_rsp", "nc_b"} = {}
    <3>1. Compared
      BY <2>1, <2>3, <1>r DEF Compared
    <3>2. ~hit(req)
      BY <3>1, <2>1, <1>i, UncachedMisses
    <3>3. "store_done" \notin pulse_q
      BY <2>1, <1>i DEF Owned
    <3>4. ~lsu_valid
      BY <3>2, <3>3, <2>3, <1>r
    <3>5. /\ nc_q' = [nc_q EXCEPT !.addr = req.addr, !.data = req.data, !.ptw = req.ptw]
          /\ state_q' = IF req.we THEN "NC_AW" ELSE "NC_AR"
      BY <1>7, <2>3, <1>r DEF IdleNc
    <3>6. nc_q'.addr = mem2.addr /\ nc_q'.data = mem2.data /\ ~nc_q'.ptw
      BY <3>5, <2>1, <1>r, <1>i DEF Types, FsmTypes
    <3>7. GoesUncached
      BY <3>4, <3>5, <3>6, <2>1, <2>2, <1>r, <1>w, <1>7 DEF IdleNc, lines, refill, GoesUncached
    <3> QED BY <3>7, <1>1, <1>2, <1>5
  <2>4. CASE pulse_q \cap {"nc_rsp", "nc_b"} # {}
    <3>1. lsu_valid /\ (mem2.kind = "STORE" => "nc_b" \in pulse_q)
      BY <2>4, <1>r, <1>i DEF Owned
    <3>2. Answers
      BY <3>1, <2>1, <2>2, <2>4, <1>f, <1>r, <1>w, <1>7 DEF IdleNc, lines, refill, Answers
    <3> QED BY <3>2, <1>1, <1>2, <1>5
  <2> QED BY <2>3, <2>4
<1>8. CASE IdlePlain(req, fence_i_active_q, victim)
  <2>0. ~flushing(fence_i_active_q) /\ ~(req.valid /\ is_uncacheable(req)) /\ UNCHANGED <<valid_q, nc_q>>
    BY <1>8 DEF IdlePlain, Cached
  <2>1. CASE ~req.valid
    <3>1. ~hit(req) /\ ~store_hit_fire(req, fence_i_active_q)
      BY <2>1 DEF hit, hit_way_oh, store_hit_fire
    <3>2. UNCHANGED <<state_q, dirty_q, miss_q>>
      BY <2>1, <3>1, <1>8 DEF IdlePlain, refill
    <3>3. Answers
      BY <3>1, <3>2, <2>0, <2>1, <1>g, <1>r, <1>w DEF Answers
    <3> QED BY <3>3, <1>1, <1>2, <1>5
  <2>2. ASSUME req.valid PROVE mem2.addr.tag \notin NcTags /\ Compared
    BY <2>0, <2>2, <1>r, <1>i DEF is_uncacheable, Compared, Owned
  <2>h. ASSUME req.valid
        PROVE  /\ \A w : w \in hit_way_oh(req) <=> /\ w \in Ways /\ valid_q[mem2.addr.set][w]
                                                   /\ tag_ram[w][mem2.addr.set] = mem2.addr.tag
               /\ hit(req) => \E w \in Ways : hit_way_oh(req) = {w}
    BY <2>h, <2>2, <1>i, Hits
  <2>3. CASE req.valid /\ hit(req) /\ mem2.kind = "LOAD"
    <3>1. ~req.we /\ ~store_hit_fire(req, fence_i_active_q)
      BY <2>3, <1>r DEF store_hit_fire
    <3>2. UNCHANGED <<state_q, dirty_q, miss_q>>
      BY <2>3, <3>1, <1>8 DEF IdlePlain, refill
    <3>3. Answers
      BY <3>1, <3>2, <2>0, <2>3, <1>f, <1>r, <1>w DEF Answers
    <3> QED BY <3>3, <1>1, <1>2, <1>5
  <2>4. CASE req.valid /\ hit(req) /\ mem2.kind = "STORE"
    <3>1. req.we /\ store_hit_fire(req, fence_i_active_q)
      BY <2>0, <2>4, <1>r DEF store_hit_fire
    <3>2. UNCHANGED <<state_q, miss_q>> /\ MarkDirty(req)
      BY <2>4, <3>1, <1>8 DEF IdlePlain, refill
    <3>3. PICK w \in Ways : hit_way_oh(req) = {w}
      BY <2>4, <2>h
    <3>4. valid_q[mem2.addr.set][w] /\ tag_ram[w][mem2.addr.set] = mem2.addr.tag
      BY <2>4, <2>h, <3>3
    <3>5. \A s \in Sets, v \in Ways : dirty_q'[s][v] <=> dirty_q[s][v] \/ (s = mem2.addr.set /\ v = w)
      <4>1. dirty_q' = [dirty_q EXCEPT ![mem2.addr.set] = [v \in Ways |-> @[v] \/ v \in {w}]]
        BY <3>2, <3>3, <2>4, <1>r DEF MarkDirty
      <4>2. dirty_q \in [Sets -> [Ways -> BOOLEAN]]
        BY <1>i DEF Types, FsmTypes, TypeOK
      <4> QED BY <4>1, <4>2, <1>m
    <3>6. \A s \in Sets, v \in Ways, b \in Beat :
            data_ram'[v][s][b] = IF v = w /\ s = mem2.addr.set /\ b = mem2.addr.beat
                                 THEN mem2.data ELSE data_ram[v][s][b]
      <4> DEFINE wr == ram_write(req, fence_i_active_q, axi)
      <4>1. wr = [ways |-> {w}, set |-> mem2.addr.set, beat |-> mem2.addr.beat, data |-> mem2.data]
        BY <3>1, <3>3, <2>4, <1>r DEF ram_write
      <4>2. \A v \in Ways, s \in Sets, b \in Beat :
              data_ram'[v][s][b] = IF v \in wr.ways /\ s = wr.set /\ b = wr.beat
                                   THEN wr.data ELSE data_ram[v][s][b]
        BY <1>i, <1>r, Written DEF DCacheEdge
      <4>3. wr.ways = {w} /\ wr.set = mem2.addr.set /\ wr.beat = mem2.addr.beat /\ wr.data = mem2.data
        BY <4>1
      <4> HIDE DEF wr
      <4> QED BY <4>2, <4>3
    <3>7. WritesHit
      BY <3>2, <3>4, <3>5, <3>6, <2>0, <2>2, <2>4, <1>r DEF WritesHit
    <3> QED BY <3>7, <1>1, <1>2, <1>5
  <2>5. CASE req.valid /\ ~hit(req)
    <3>1. ~store_hit_fire(req, fence_i_active_q)
      BY <2>5 DEF store_hit_fire
    <3>2. UNCHANGED dirty_q /\ StartMiss(req, victim, req.we)
      BY <2>5, <1>8 DEF IdlePlain
    <3>3. \A w \in Ways : valid_q[mem2.addr.set][w] => tag_ram[w][mem2.addr.set] # mem2.addr.tag
      BY <2>5, <2>h DEF hit
    <3>4. ~lsu_valid
      BY <3>3, <2>2, <2>5, <1>r, <1>i DEF Present, Compared
    <3>5. /\ miss_q'.addr = mem2.addr /\ (miss_q'.store <=> mem2.kind = "STORE")
          /\ (miss_q'.store => miss_q'.data = mem2.data) /\ miss_q'.victim = victim
      BY <3>2, <2>5, <1>r DEF StartMiss
    <3>6. tag_rdata_eff(mem2.addr.set, victim) = tag_ram[victim][mem2.addr.set]
      BY <2>2, <2>5, <1>i DEF FreshTags
    <3>7. Misses
      BY <3>1, <3>2, <3>3, <3>4, <3>5, <3>6, <2>0, <2>2, <2>5, <1>r, <1>w DEF StartMiss, Misses
    <3> QED BY <3>7, <1>1, <1>2, <1>5
  <2> QED BY <2>1, <2>3, <2>4, <2>5, <1>r
<1> QED BY <1>4, <1>6, <1>7, <1>8

\* An edge out of IDLE is one of the other arms, for a core that stays.
LEMMA BusyArms ==
  ASSUME Fragment, DataInv, state_q # "IDLE", Leaves \/ Stays, NEW rsrv_clear,
         NEW axi \in BOOLEAN, NEW victim \in Ways,
         DCacheEdge(req, dcache_early, fence_i_active_q, rsrv_clear, axi, TRUE, victim)
  PROVE  /\ AddressPhase(axi) \/ RefillR(axi) \/ WbW(axi) \/ FlushScan \/ FlushW(axi) \/ NcData(axi, TRUE)
         /\ ~in_flight_is_ptw_q'
         /\ ~lsu_valid /\ Stays /\ UNCHANGED <<mem2, arch, retired>> /\ (mem_done_q' <=> mem_done_q)
         /\ ~(state_q = "REFILL_R" /\ axi) => UNCHANGED data_ram
         /\ ~Fill(axi) => UNCHANGED tag_ram
<1>i. Types /\ Owned
  BY DEF DataInv
<1>r. /\ req = lsu_req /\ req \in Request /\ fence_i_active_q \in BOOLEAN /\ dcache_early \in Read
      /\ ~lsu_valid
  BY <1>i, PlainRequest, Presented DEF Types, CoreTypes
<1>1. AddressPhase(axi) \/ RefillR(axi) \/ WbW(axi) \/ FlushScan \/ FlushW(axi) \/ NcData(axi, TRUE)
  <2>1. state_q \notin {"IDLE", "PTW_LOOKUP", "AMO_RMW"}
    BY <1>i DEF Owned, MissStates, FlushStates, NcStates
  <2> QED BY <2>1 DEF DCacheEdge, IdleFlush, IdleNc, IdlePtwHit, IdleSc, IdleLr, IdleAmo, IdlePlain,
          Cached, PtwLookup, AmoRmw
<1>2. ~in_flight_is_ptw_q'
  BY <1>i DEF DCacheEdge, Owner, Owned
<1>3. Stays
  BY DEF Leaves
<1>4. UNCHANGED <<mem2, arch, retired>> /\ (mem_done_q' <=> mem_done_q)
  BY <1>3, <1>r DEF Stays
<1>5. ASSUME ~(state_q = "REFILL_R" /\ axi) PROVE UNCHANGED data_ram
  <2> DEFINE wr == ram_write(req, fence_i_active_q, axi)
  <2>1. wr = NoWrite
    BY <1>5, <1>i DEF ram_write, sc_hit_write_fire, store_hit_fire, Owned, MissStates, FlushStates, NcStates
  <2>2. data_ram' = [w \in Ways |-> IF w \in wr.ways
                                    THEN [data_ram[w] EXCEPT ![wr.set][wr.beat] = wr.data]
                                    ELSE data_ram[w]]
    BY DEF DCacheEdge, Rams
  <2>3. wr.ways = {}
    BY <2>1 DEF NoWrite
  <2> HIDE DEF wr
  <2>4. data_ram' = [w \in Ways |-> data_ram[w]]
    BY <2>2, <2>3
  <2> QED BY <2>4, <1>i DEF Types, RamTypes
<1>6. ~Fill(axi) => UNCHANGED tag_ram
  BY DEF DCacheEdge, Rams, Fill
<1> QED BY <1>1, <1>2, <1>3, <1>4, <1>5, <1>6, <1>r

\* A beat of a refill writes its word, and nothing else.
LEMMA RefillWrites ==
  ASSUME Fragment, DataInv, state_q = "REFILL_R", NEW rsrv_clear, NEW axi \in BOOLEAN,
         NEW ok, NEW victim \in Ways,
         DCacheEdge(req, dcache_early, fence_i_active_q, rsrv_clear, axi, ok, victim)
  PROVE  axi => \A v \in Ways, s \in Sets, b \in Beat :
           data_ram'[v][s][b] =
             IF v = miss_q.victim /\ s = miss_q.addr.set /\ b = refill_beat
             THEN IF beat_cnt_q = 0 /\ miss_q.store THEN miss_q.data
                  ELSE mem[miss_q.addr.tag][miss_q.addr.set][refill_beat]
             ELSE data_ram[v][s][b]
<1>i. /\ Types /\ req \in Request /\ fence_i_active_q \in BOOLEAN /\ dcache_early \in Read
  BY Presented DEF DataInv, Types, CoreTypes
<1> DEFINE wr == ram_write(req, fence_i_active_q, axi)
<1>1. axi => wr = [ways |-> {miss_q.victim}, set |-> miss_q.addr.set, beat |-> refill_beat,
            data |-> IF beat_cnt_q = 0 /\ miss_q.store THEN miss_q.data ELSE r_data]
  BY DEF ram_write, store_hit_fire, sc_hit_write_fire
<1>2. \A v \in Ways, s \in Sets, b \in Beat :
        data_ram'[v][s][b] = IF v \in wr.ways /\ s = wr.set /\ b = wr.beat
                             THEN wr.data ELSE data_ram[v][s][b]
  <2>1. Rams(req, dcache_early, fence_i_active_q, axi)
    BY DEF DCacheEdge
  <2> QED BY <2>1, <1>i, Written
<1> HIDE DEF wr
<1>3. axi =>
      /\ wr.ways = {miss_q.victim} /\ wr.set = miss_q.addr.set /\ wr.beat = refill_beat
      /\ wr.data = IF beat_cnt_q = 0 /\ miss_q.store THEN miss_q.data ELSE r_data
  BY <1>1
<1> QED BY <1>2, <1>3 DEF r_data

-----------------------------------------------------------------------------
(* Loads, stores and flushes: who the FSM works for. *)

\* Every edge leaves the FSM working for MEM2, for a FENCE.I or for nobody.
LEMMA OwnedStep ==
  ASSUME Fragment, DataInv, Types', NEW rsrv_clear, NEW axi \in BOOLEAN, NEW victim \in Ways,
         UNCHANGED <<ptw_q, walks>>, Leaves \/ Stays,
         DCacheEdge(req, dcache_early, fence_i_active_q, rsrv_clear, axi, TRUE, victim)
  PROVE  Owned'
<1>i. Types /\ Owned /\ Present
  BY DEF DataInv
<1>p. walks' = 0 /\ ptw_q'.state = "S_IDLE"
  BY <1>i DEF Owned
<1>r. /\ req = lsu_req /\ (lsu_req.valid <=> is_mem(mem2) /\ ~mem_done_q)
      /\ lsu_valid => lsu_req.valid /\ state_q = "IDLE"
      /\ lsu_req.valid => mem2.kind \in {"LOAD", "STORE"}
  BY <1>i, PlainRequest
<1>v. lsu_req'.valid <=> is_mem(mem2') /\ ~mem_done_q'
  BY DEF lsu_req, is_mem, NoReq
<1>s. Stays => (lsu_req'.valid <=> lsu_req.valid /\ ~lsu_valid)
  BY <1>r, <1>v DEF Stays
<1>f. ASSUME Stays, ~(state_q' \in FlushStates), fence_i_active_q' PROVE ~lsu_req'.valid
  BY <1>f, <1>s, <1>i DEF Stays, Owned
<1>1. CASE state_q = "IDLE"
  <2>1. /\ StartsFlush \/ Answers \/ WritesHit \/ Misses \/ GoesUncached
        /\ pulse_q' = {} /\ UNCHANGED <<mem, tag_ram, amo_q>> /\ ~in_flight_is_ptw_q'
    BY <1>1, IdleArms
  <2>2. CASE StartsFlush
    <3>1. Stays
      BY <2>2 DEF Leaves, StartsFlush
    <3>2. fence_i_active_q' /\ ~lsu_req'.valid
      BY <2>2, <3>1, <1>s, <1>i DEF Stays, StartsFlush, Owned
    <3> QED BY <2>1, <2>2, <3>2, <1>p, <1>i DEF StartsFlush, Owned, MissStates, FlushStates, NcStates
  <2>3. CASE Answers \/ WritesHit
    <3>1. state_q' = "IDLE" /\ UNCHANGED nc_q
      BY <2>3 DEF Answers, WritesHit
    <3>2. fence_i_active_q' => ~lsu_req'.valid
      <4>1. CASE Leaves
        BY <4>1 DEF Leaves
      <4>2. CASE Stays
        BY <4>2, <3>1, <1>f DEF FlushStates
      <4> QED BY <4>1, <4>2
    <3> QED BY <2>1, <3>1, <3>2, <1>p, <1>i DEF Owned, MissStates, FlushStates, NcStates
  <2>4. CASE Misses
    <3>1. Stays /\ mem2' = mem2 /\ lsu_req'.valid
      BY <2>4, <1>s DEF Misses, Leaves, Stays
    <3>2. ~fence_i_active_q'
      BY <2>4, <3>1, <1>f DEF Misses, FlushStates
    <3>3. state_q' \in {"WB_AW", "REFILL_AR"} /\ nc_q' = nc_q
      BY <2>4 DEF Misses
    <3> QED BY <2>1, <2>4, <3>1, <3>2, <3>3, <1>p, <1>i DEF Misses, Owned, MissStates, FlushStates, NcStates
  <2>5. CASE GoesUncached
    <3>1. Stays /\ mem2' = mem2 /\ lsu_req'.valid
      BY <2>5, <1>s DEF GoesUncached, Leaves, Stays
    <3>2. ~fence_i_active_q'
      BY <2>5, <3>1, <1>f DEF GoesUncached, FlushStates
    <3> QED BY <2>1, <2>5, <3>1, <3>2, <1>p, <1>i, <1>r DEF GoesUncached, Owned, MissStates, FlushStates, NcStates
  <2> QED BY <2>1, <2>2, <2>3, <2>4, <2>5
<1>2. CASE state_q # "IDLE"
  <2>1. /\ AddressPhase(axi) \/ RefillR(axi) \/ WbW(axi) \/ FlushScan \/ FlushW(axi) \/ NcData(axi, TRUE)
        /\ ~in_flight_is_ptw_q' /\ ~lsu_valid /\ Stays /\ UNCHANGED mem2
    BY <1>2, BusyArms
  <2>2. lsu_req'.valid <=> lsu_req.valid
    BY <2>1, <1>s
  <2>3. fence_i_active_q' <=> fence_i_active_q
    BY <1>2, <2>1, <1>i DEF Stays, Owned
  <2>q. ~nc_q'.ptw
    <3>1. nc_q' = nc_q \/ \E v : nc_q' = [nc_q EXCEPT !.rsp = v]
      BY <2>1 DEF AddressPhase, RefillR, WbW, FlushScan, FlushW, NcData
    <3> QED BY <3>1, <1>i DEF Owned, Types, FsmTypes
  <2>4. CASE AddressPhase(axi)
    <3>1. /\ state_q \in {"REFILL_AR", "WB_AW", "FLUSH_AW", "NC_AR", "NC_AW"}
          /\ \/ state_q' = state_q
             \/ state_q = "REFILL_AR" /\ state_q' = "REFILL_R"
             \/ state_q = "WB_AW" /\ state_q' = "WB_W"
             \/ state_q = "FLUSH_AW" /\ state_q' = "FLUSH_W"
             \/ state_q = "NC_AR" /\ state_q' = "NC_R"
             \/ state_q = "NC_AW" /\ state_q' = "NC_W"
          /\ pulse_q' = {} /\ UNCHANGED <<miss_q, amo_q, nc_q>>
      BY <2>4 DEF AddressPhase, refill
    <3> QED BY <2>1, <2>2, <2>3, <3>1, <1>p, <1>i DEF Owned, MissStates, FlushStates, NcStates
  <2>5. CASE RefillR(axi)
    <3>0. state_q = "REFILL_R" /\ nc_q' = nc_q
      BY <2>5 DEF RefillR
    <3>1. CASE ~axi
      BY <2>1, <2>2, <2>3, <2>5, <3>0, <3>1, <1>p, <1>i DEF RefillR, refill, Owned, MissStates, FlushStates, NcStates
    <3>2. CASE axi /\ ~refill_last
      <4>1. /\ state_q' = "REFILL_R" /\ UNCHANGED <<miss_q, amo_q>> /\ pulse_q' \subseteq {"bypass"}
        BY <3>2, <2>5 DEF RefillR
      <4> QED BY <2>1, <2>2, <2>3, <3>0, <4>1, <1>p, <1>i DEF Owned, MissStates, FlushStates, NcStates
    <3>3. CASE axi /\ refill_last
      <4>0. beat_cnt_q # 0
        BY <3>3, Zeros DEF refill_last
      <4>1. /\ state_q' = "IDLE" /\ amo_q' = amo_q
            /\ pulse_q' = IF miss_q.store THEN {"store_done"} ELSE {}
        BY <3>3, <2>5, <4>0, <1>i DEF RefillR, Owned
      <4> QED BY <2>1, <2>2, <2>3, <3>0, <4>1, <1>p, <1>i DEF Owned, MissStates, FlushStates, NcStates
    <3> QED BY <3>1, <3>2, <3>3
  <2>6. CASE WbW(axi)
    <3>1. /\ state_q = "WB_W" /\ state_q' \in {"WB_W", "REFILL_AR"} /\ pulse_q' = {}
          /\ UNCHANGED <<miss_q, amo_q, nc_q>>
      BY <2>6 DEF WbW
    <3> QED BY <2>1, <2>2, <2>3, <3>1, <1>p, <1>i DEF Owned, MissStates, FlushStates, NcStates
  <2>7. CASE FlushScan \/ FlushW(axi)
    <3>1. /\ state_q \in FlushStates /\ nc_q' = nc_q /\ amo_q' = amo_q
          /\ \/ state_q' \in FlushStates /\ pulse_q' = {}
             \/ state_q' = "IDLE" /\ pulse_q' = {"flush_done"}
      BY <2>7 DEF FlushScan, FlushW, AdvanceWalk, FlushStates
    <3> QED BY <2>1, <2>2, <2>3, <3>1, <1>p, <1>i DEF Owned, MissStates, FlushStates, NcStates
  <2>8. CASE NcData(axi, TRUE)
    <3>1. /\ state_q \in {"NC_R", "NC_W", "NC_B"} /\ amo_q' = amo_q
          /\ \/ state_q' = state_q /\ pulse_q' = {}
             \/ state_q = "NC_R" /\ state_q' = "IDLE" /\ pulse_q' = {"nc_rsp"}
             \/ state_q = "NC_W" /\ state_q' = "NC_B" /\ pulse_q' = {}
             \/ state_q = "NC_B" /\ state_q' = "IDLE" /\ pulse_q' = {"nc_b"}
      BY <2>8 DEF NcData
    <3>2. nc_q'.addr = nc_q.addr /\ nc_q'.data = nc_q.data
      BY <2>8, <1>i DEF NcData, Types, FsmTypes
    <3> QED BY <2>1, <2>2, <2>3, <2>q, <3>1, <3>2, <1>p, <1>i, <1>r DEF Owned, MissStates, FlushStates, NcStates
  <2> QED BY <2>1, <2>4, <2>5, <2>6, <2>7, <2>8
<1> QED BY <1>1, <1>2

-----------------------------------------------------------------------------
(* Loads, stores and flushes: lines and tags. *)

\* A line that becomes valid is one no way held, and its tag is there to be
\* compared with.
LEMMA LinesStep ==
  ASSUME Fragment, DataInv, Types', NEW rsrv_clear, NEW axi \in BOOLEAN, NEW victim \in Ways,
         Leaves \/ Stays,
         DCacheEdge(req, dcache_early, fence_i_active_q, rsrv_clear, axi, TRUE, victim)
  PROVE  UncachedNeverAllocates' /\ OneCopy' /\ Absent' /\ Present'
<1>i. Types /\ Owned /\ UncachedNeverAllocates /\ OneCopy /\ Absent
  BY DEF DataInv
<1>q. req \in Request /\ fence_i_active_q \in BOOLEAN
  BY <1>i, Presented DEF Types, CoreTypes
<1> DEFINE Filled(s, w) == Fill(axi) /\ s = miss_q.addr.set /\ w = miss_q.victim
<1>1. \A s \in Sets, w \in Ways : valid_q'[s][w] => valid_q[s][w] \/ Filled(s, w)
  BY <1>i, <1>q, OnlyFillsValidate
<1>2. \A s \in Sets, w \in Ways :
        tag_ram'[w][s] = IF Filled(s, w) THEN miss_q.addr.tag ELSE tag_ram[w][s]
  BY <1>i, OnlyFillsTag DEF DCacheEdge
<1>3. Fill(axi) => /\ miss_q.addr.tag \notin NcTags
                   /\ \A w \in Ways : valid_q[miss_q.addr.set][w] => tag_ram[w][miss_q.addr.set] # miss_q.addr.tag
  BY <1>i DEF Fill, MissStates, Owned, Absent
<1>4. UncachedNeverAllocates'
  BY <1>1, <1>2, <1>3, <1>i DEF UncachedNeverAllocates
<1>5. OneCopy'
  BY <1>1, <1>2, <1>3, <1>i DEF OneCopy
<1>6. CASE state_q = "IDLE"
  <2>1. /\ StartsFlush \/ Answers \/ WritesHit \/ Misses \/ GoesUncached
        /\ pulse_q' = {} /\ UNCHANGED tag_ram
    BY <1>6, IdleArms
  <2>2. Absent'
    BY <2>1 DEF Absent, StartsFlush, Answers, WritesHit, Misses, GoesUncached, MissStates
  <2>3. Present'
    BY <2>1 DEF Present
  <2> QED BY <1>4, <1>5, <2>2, <2>3
<1>7. CASE state_q # "IDLE"
  <2>1. /\ AddressPhase(axi) \/ RefillR(axi) \/ WbW(axi) \/ FlushScan \/ FlushW(axi) \/ NcData(axi, TRUE)
        /\ UNCHANGED mem2 /\ (~Fill(axi) => UNCHANGED tag_ram)
    BY <1>7, BusyArms
  <2>2. Absent'
    <3>1. state_q' \in MissStates => /\ state_q \in MissStates /\ ~Fill(axi)
                                     /\ UNCHANGED <<miss_q, valid_q>>
      BY <2>1, <1>i DEF AddressPhase, RefillR, WbW, FlushScan, FlushW, NcData, AdvanceWalk, refill, lines,
         MissStates, Fill, Owned
    <3> QED BY <3>1, <2>1, <1>i DEF Absent
  <2>3. Present'
    <3>1. "store_done" \in pulse_q' => /\ Fill(axi)
                                       /\ valid_q' = [valid_q EXCEPT ![miss_q.addr.set][miss_q.victim] = TRUE]
      BY <2>1 DEF AddressPhase, RefillR, WbW, FlushScan, FlushW, NcData, AdvanceWalk, Fill
    <3>2. ASSUME "store_done" \in pulse_q'
          PROVE  /\ miss_q.victim \in Ways /\ mem2'.addr = miss_q.addr /\ miss_q.addr.set \in Sets
                 /\ valid_q'[miss_q.addr.set][miss_q.victim]
                 /\ tag_ram'[miss_q.victim][miss_q.addr.set] = miss_q.addr.tag
      <4>1. miss_q.victim \in Ways /\ miss_q.addr.set \in Sets /\ valid_q \in [Sets -> [Ways -> BOOLEAN]]
        BY <1>i DEF Types, FsmTypes, TypeOK, Addr
      <4>2. mem2'.addr = miss_q.addr
        BY <2>1, <3>1, <3>2, <1>i DEF Owned, Fill, MissStates
      <4> QED BY <3>1, <3>2, <4>1, <4>2, <1>2
    <3> QED BY <3>2 DEF Present
  <2> QED BY <1>4, <1>5, <2>2, <2>3
<1> QED BY <1>6, <1>7

\* A request that enters MEM2 finds the tags and words of its own set in the
\* read registers, launched from MEM1B the cycle before; one that comes back
\* from a refill finds them launched from MEM2; and the flush walk reads the
\* tags of the set it stands in.
LEMMA FreshStep ==
  ASSUME Fragment, DataInv, Types', Owned', NEW rsrv_clear, NEW axi \in BOOLEAN, NEW victim \in Ways,
         Leaves \/ Stays,
         DCacheEdge(req, dcache_early, fence_i_active_q, rsrv_clear, axi, TRUE, victim)
  PROVE  FreshTags' /\ FreshWords'
<1>i. Types /\ Owned /\ FreshTags /\ Swept
  BY DEF DataInv
<1>r. /\ req = lsu_req /\ (lsu_req.valid <=> is_mem(mem2) /\ ~mem_done_q)
      /\ lsu_valid => lsu_req.valid /\ state_q = "IDLE"
      /\ req.valid => req.addr = mem2.addr
      /\ ~req.ptw /\ req \in Request /\ fence_i_active_q \in BOOLEAN /\ dcache_early \in Read
  BY <1>i, PlainRequest, Presented DEF Types, CoreTypes
<1>v. lsu_req'.valid <=> is_mem(mem2') /\ ~mem_done_q'
  BY DEF lsu_req, is_mem, NoReq
<1>s. Stays => (lsu_req'.valid <=> lsu_req.valid /\ ~lsu_valid)
  BY <1>r, <1>v DEF Stays
<1>R. Rams(req, dcache_early, fence_i_active_q, axi)
  BY DEF DCacheEdge
<1> DEFINE wr == ram_write(req, fence_i_active_q, axi)
           dr == data_read(req, dcache_early, axi)
           tr == tag_read(req, dcache_early)
<1>w. /\ wr \in Write /\ prev_write_q' = wr
      /\ \A w \in Ways, s \in Sets, b \in Beat :
           data_ram'[w][s][b] = IF w \in wr.ways /\ s = wr.set /\ b = wr.beat
                                THEN wr.data ELSE data_ram[w][s][b]
  BY <1>i, <1>r, <1>R, Written
<1>t. \A w \in Ways : /\ tag_rdata'[w] = IF tr.re THEN tag_ram[w][tr.set] ELSE tag_rdata[w]
                      /\ ram_rdata'[w] = IF dr.re THEN data_ram[w][dr.set][dr.beat] ELSE ram_rdata[w]
  BY <1>R DEF Rams
<1>T. \A w \in Ways, s \in Sets :
        tag_ram'[w][s] = IF Fill(axi) /\ s = miss_q.addr.set /\ w = miss_q.victim
                         THEN miss_q.addr.tag ELSE tag_ram[w][s]
  BY <1>i, <1>R, OnlyFillsTag
<1>P. IF Fill(axi) THEN /\ prev_tag_q'.write /\ prev_tag_q'.set = miss_q.addr.set
                        /\ prev_tag_q'.way = miss_q.victim /\ prev_tag_q'.tag = miss_q.addr.tag
      ELSE ~prev_tag_q'.write
  BY <1>R, <1>i DEF Rams, Fill, Types, RamTypes
<1> HIDE DEF wr
<1>a. \* a read of the address MEM2 holds next makes the comparison fresh
      ASSUME NEW a \in Addr, dr = ReadAt(a), tr = ReadAt(a), mem2'.addr = a
      PROVE  /\ \A w \in Ways : tag_rdata_eff(mem2.addr.set, w)' = tag_ram'[w][mem2'.addr.set]
             /\ FreshWords'
  <2>0. a.set \in Sets /\ a.beat \in Beat
    BY DEF Addr
  <2>1. \A w \in Ways : tag_rdata'[w] = tag_ram[w][a.set] /\ ram_rdata'[w] = data_ram[w][a.set][a.beat]
    BY <1>a, <1>t DEF ReadAt
  <2>2. \A w \in Ways : tag_rdata_eff(mem2.addr.set, w)' = tag_ram'[w][mem2'.addr.set]
    BY <1>a, <1>T, <1>P, <2>0, <2>1 DEF tag_rdata_eff
  <2>3. FreshWords'
    BY <1>a, <1>w, <2>0, <2>1 DEF FreshWords, Covers
  <2> QED BY <2>2, <2>3
<1>1. CASE state_q = "IDLE"
  <2>1. /\ StartsFlush \/ Answers \/ WritesHit \/ Misses \/ GoesUncached
        /\ ~Fill(axi)
    BY <1>1, IdleArms DEF Fill
  <2>2. CASE ~(Answers \/ WritesHit)
    <3>1. state_q' # "IDLE" /\ (state_q' \in FlushStates => ~flush_q'.settled)
      BY <2>1, <2>2 DEF StartsFlush, Misses, GoesUncached, FlushStates
    <3> QED BY <3>1, <2>1, <1>P DEF Compared, FreshTags, FreshWords, FlushStates
  <2>3. CASE Answers \/ WritesHit
    <3>0. state_q' = "IDLE"
      BY <2>3 DEF Answers, WritesHit
    <3>1. CASE ~Compared'
      BY <3>0, <3>1 DEF FreshTags, FreshWords, FlushStates
    <3>2. CASE Compared'
      <4>1. Leaves
        BY <2>3, <3>2, <1>s DEF Compared, Answers, WritesHit
      <4>2. is_mem(mem1b) /\ mem2' = mem1b
        BY <4>1, <3>2, <1>v DEF Leaves, Compared
      <4>3. dr = ReadAt(mem1b.addr) /\ tr = ReadAt(mem1b.addr)
        BY <4>2, <1>1, <1>r DEF data_read, tag_read, OwnerReads, dcache_early
      <4>4. mem1b.addr \in Addr
        BY <1>i, OpTyped DEF Types, CoreTypes
      <4> QED BY <4>2, <4>3, <4>4, <3>0, <1>a DEF FreshTags, FlushStates
    <3> QED BY <3>1, <3>2
  <2> QED BY <2>2, <2>3
<1>2. CASE state_q \in MissStates
  <2>1. /\ AddressPhase(axi) \/ RefillR(axi) \/ WbW(axi)
        /\ UNCHANGED mem2 /\ Stays /\ ~lsu_valid
    BY <1>2, BusyArms DEF MissStates, FlushScan, FlushW, NcData
  <2>2. state_q' \notin FlushStates
    BY <1>2, <2>1, <1>i DEF AddressPhase, RefillR, WbW, FlushStates, MissStates, Owned
  <2>3. CASE state_q' # "IDLE"
    BY <2>2, <2>3 DEF FreshTags, FreshWords, Compared
  <2>4. CASE state_q' = "IDLE"
    <3>1. state_q = "REFILL_R"
      BY <1>2, <2>1, <2>4 DEF AddressPhase, RefillR, WbW, MissStates
    <3>2. req.valid /\ mem2.addr \in Addr
      BY <3>1, <1>i, <1>r, OpTyped DEF Owned, MissStates, Types, CoreTypes
    <3>3. dr = ReadAt(mem2.addr) /\ tr = ReadAt(mem2.addr)
      BY <3>1, <3>2, <1>r DEF data_read, tag_read, OwnerReads
    <3> QED BY <3>2, <3>3, <2>1, <2>2, <1>a DEF FreshTags
  <2> QED BY <2>3, <2>4
<1>3. CASE state_q \in NcStates
  <2>1. AddressPhase(axi) \/ NcData(axi, TRUE)
    BY <1>3, BusyArms DEF NcStates, FlushScan, FlushW, RefillR, WbW
  <2>2. state_q' \notin FlushStates /\ (state_q' = "IDLE" => pulse_q' \cap {"nc_rsp", "nc_b"} # {})
    BY <1>3, <2>1 DEF AddressPhase, NcData, NcStates, FlushStates
  <2> QED BY <2>2 DEF FreshTags, FreshWords, Compared
<1>4. CASE state_q \in FlushStates
  <2>1. /\ AddressPhase(axi) \/ FlushScan \/ FlushW(axi)
        /\ Stays /\ ~lsu_valid
    BY <1>4, BusyArms DEF FlushStates, NcData, RefillR, WbW
  <2>2. ~lsu_req'.valid /\ ~Fill(axi)
    BY <1>4, <2>1, <1>i, <1>s DEF Owned, Fill, FlushStates
  <2>3. ~prev_tag_q'.write
    BY <2>2, <1>P
  <2>4. flush_q.set \in Sets
    BY <1>i DEF Types, FsmTypes
  <2>5. ASSUME state_q' \in FlushStates, flush_q'.settled
        PROVE  \A w \in Ways : tag_rdata'[w] = tag_ram'[w][flush_q'.set]
    <3>1. flush_q'.set = flush_q.set /\ (state_q # "FLUSH_SCAN" => flush_q.settled)
      <4>1. CASE AddressPhase(axi)
        BY <4>1, <1>4, <1>i DEF AddressPhase, walk, Swept, FlushStates
      <4>2. CASE FlushW(axi)
        BY <4>2, <2>5, <1>i DEF FlushW, AdvanceWalk, Swept, Types, FsmTypes
      <4>3. CASE FlushScan
        BY <4>3, <2>5, <1>i DEF FlushScan, AdvanceWalk, Types, FsmTypes
      <4> QED BY <2>1, <4>1, <4>2, <4>3
    <3>2. CASE state_q = "FLUSH_SCAN"
      <4>1. tr.re /\ tr.set = flush_q.set
        BY <3>2 DEF tag_read
      <4> QED BY <4>1, <3>1, <2>2, <2>4, <1>t, <1>T
    <3>3. CASE state_q # "FLUSH_SCAN"
      <4>1. ~tr.re
        BY <3>3, <1>4 DEF tag_read, FlushStates, NoRead
      <4> QED BY <4>1, <3>1, <3>3, <2>2, <2>4, <1>4, <1>t, <1>T, <1>i DEF FreshTags
    <3> QED BY <3>2, <3>3
  <2> QED BY <2>2, <2>3, <2>5 DEF FreshTags, FreshWords, Compared
<1> QED BY <1>1, <1>2, <1>3, <1>4, <1>i DEF Owned

-----------------------------------------------------------------------------
(* Loads, stores and flushes: what cache and memory hold. *)

\* How what the program has written moves at an edge from IDLE.
LEMMA ExpectedIdle ==
  ASSUME Fragment, DataInv, Types', Leaves \/ Stays, state_q = "IDLE", pulse_q' = {}
  PROVE  /\ StartsFlush \/ Answers \/ Misses \/ GoesUncached => Expected' = Expected
         /\ WritesHit => /\ Expected' = SetAt(arch, mem2.addr, mem2.data)
                         /\ Expected \in {arch, SetAt(arch, mem2.addr, mem2.data)}
<1>i. Types /\ Owned
  BY DEF DataInv
<1>r. /\ (lsu_req.valid <=> is_mem(mem2) /\ ~mem_done_q) /\ (lsu_valid => lsu_req.valid)
      /\ lsu_valid <=> hit(req) \/ pulse_q \cap {"store_done", "nc_rsp", "nc_b"} # {}
      /\ lsu_req.valid => mem2.kind \in {"LOAD", "STORE"}
  BY <1>i, PlainRequest
<1>p. pulse_q \cap {"store_done", "nc_b"} # {} => lsu_valid /\ mem2.kind = "STORE"
  BY <1>r, <1>i DEF Owned
<1>1. ASSUME state_q' # "NC_B", ~WritesHit, StartsFlush \/ Answers \/ Misses \/ GoesUncached
      PROVE  Expected' = Expected
  <2>1. CASE Leaves
    <3>1. Expected' = After
      BY <2>1, <1>1 DEF Leaves, Expected, Pending
    <3>2. Answers
      BY <1>1, <2>1 DEF Leaves, StartsFlush, Misses, GoesUncached
    <3>3. Pending <=> is_mem(mem2) /\ mem2.kind = "STORE"
      BY <3>2, <1>r, <1>p DEF Pending, Answers
    <3> QED BY <3>1, <3>3 DEF Expected, After
  <2>2. CASE Stays
    <3>1. Pending' <=> is_mem(mem2) /\ (mem_done_q \/ lsu_valid) /\ mem2.kind = "STORE"
      BY <2>2, <1>1 DEF Stays, Pending, is_mem
    <3>2. Pending' <=> Pending
      <4>1. CASE Answers
        BY <4>1, <3>1, <1>r, <1>p DEF Answers, Pending
      <4>2. CASE ~lsu_valid
        BY <4>2, <3>1, <1>p DEF Pending
      <4>3. StartsFlush => ~lsu_valid
        BY <1>i, <1>r DEF StartsFlush, Owned
      <4> QED BY <1>1, <4>1, <4>2, <4>3 DEF Misses, GoesUncached
    <3> QED BY <2>2, <3>2 DEF Expected, Stays
  <2> QED BY <2>1, <2>2
<1>2. ASSUME WritesHit
      PROVE  /\ Expected' = SetAt(arch, mem2.addr, mem2.data)
             /\ Expected \in {arch, SetAt(arch, mem2.addr, mem2.data)}
  <2>1. is_mem(mem2) /\ lsu_valid /\ mem2.kind = "STORE" /\ state_q' = "IDLE"
    BY <1>2, <1>r DEF WritesHit
  <2>2. CASE Leaves
    BY <2>1, <2>2 DEF Leaves, Expected, Pending, After
  <2>3. CASE Stays
    BY <2>1, <2>3 DEF Stays, Expected, Pending, is_mem
  <2> QED BY <2>2, <2>3 DEF Expected
<1>3. StartsFlush \/ Answers \/ Misses \/ GoesUncached => state_q' # "NC_B"
  BY DEF StartsFlush, Answers, Misses, GoesUncached
<1>4. WritesHit => ~(StartsFlush \/ Misses \/ GoesUncached) \/ Expected' = Expected
  BY <1>r, <1>i DEF WritesHit, StartsFlush, Misses, GoesUncached, Owned
<1>5. WritesHit /\ Answers => Expected' = Expected
  <2>1. ASSUME WritesHit, Answers PROVE "nc_b" \in pulse_q /\ mem2.addr.tag \notin NcTags
    BY <2>1 DEF WritesHit, Answers
  <2> QED BY <2>1, <1>i DEF Owned
<1> QED BY <1>1, <1>2, <1>3, <1>4, <1>5

\* How it moves at another edge: with the last beat of the refill of a store,
\* and with the data of an uncached store.
LEMMA ExpectedBusy ==
  ASSUME Fragment, DataInv, Types', state_q # "IDLE", NEW axi \in BOOLEAN,
         UNCHANGED <<mem2, arch>>, mem_done_q' <=> mem_done_q
  PROVE  /\ AddressPhase(axi) \/ WbW(axi) \/ FlushScan \/ FlushW(axi) => Expected' = Expected
         /\ RefillR(axi) => /\ Expected = arch
                            /\ Expected' = IF Fill(axi) /\ miss_q.store
                                           THEN SetAt(arch, mem2.addr, mem2.data) ELSE arch
         /\ NcData(axi, TRUE) => IF state_q = "NC_W" /\ axi
                                 THEN Expected = arch /\ Expected' = SetAt(arch, mem2.addr, mem2.data)
                                 ELSE Expected' = Expected
<1>i. Types /\ Owned
  BY DEF DataInv
<1>r. (lsu_req.valid <=> is_mem(mem2) /\ ~mem_done_q)
  BY <1>i, PlainRequest
<1>p. pulse_q \cap {"store_done", "nc_b"} = {}
  BY <1>i DEF Owned
<1>e. ASSUME Pending' <=> Pending PROVE Expected' = Expected
  BY <1>e DEF Expected
<1>d. (is_mem(mem2) /\ mem_done_q /\ mem2.kind = "STORE")' <=> is_mem(mem2) /\ mem_done_q /\ mem2.kind = "STORE"
  BY DEF is_mem
<1>1. ASSUME AddressPhase(axi) \/ WbW(axi) \/ FlushScan \/ FlushW(axi) PROVE Expected' = Expected
  <2>1. pulse_q' \cap {"store_done", "nc_b"} = {} /\ state_q' # "NC_B" /\ state_q # "NC_B"
    BY <1>1 DEF AddressPhase, WbW, FlushScan, FlushW, AdvanceWalk
  <2> QED BY <2>1, <1>p, <1>d, <1>e DEF Pending
<1>2. ASSUME RefillR(axi)
      PROVE  /\ Expected = arch
             /\ Expected' = IF Fill(axi) /\ miss_q.store THEN SetAt(arch, mem2.addr, mem2.data) ELSE arch
  <2>0. state_q = "REFILL_R" /\ ~mem_done_q
    BY <1>2, <1>i, <1>r DEF RefillR, Owned, MissStates
  <2>1. state_q' # "NC_B"
    BY <1>2, <2>0 DEF RefillR
  <2>2. pulse_q' \cap {"store_done", "nc_b"} # {} <=> Fill(axi) /\ miss_q.store
    BY <1>2, <2>0 DEF RefillR, Fill
  <2>3. ~Pending /\ (Pending' <=> Fill(axi) /\ miss_q.store)
    BY <2>0, <2>1, <2>2, <1>p DEF Pending
  <2> QED BY <2>3 DEF Expected
<1>3. ASSUME NcData(axi, TRUE)
      PROVE  IF state_q = "NC_W" /\ axi
             THEN Expected = arch /\ Expected' = SetAt(arch, mem2.addr, mem2.data)
             ELSE Expected' = Expected
  <2>0. state_q \in {"NC_R", "NC_W", "NC_B"} /\ ~mem_done_q
    BY <1>3, <1>i, <1>r DEF NcData, Owned, NcStates
  <2>1. Pending <=> state_q = "NC_B"
    BY <2>0, <1>p DEF Pending
  <2>2. Pending' <=> state_q = "NC_B" \/ (state_q = "NC_W" /\ axi)
    <3>1. CASE ~axi
      BY <3>1, <2>0, <1>3 DEF NcData, Pending
    <3>2. CASE axi
      BY <3>2, <2>0, <1>3 DEF NcData, Pending
    <3> QED BY <3>1, <3>2
  <2> QED BY <2>1, <2>2 DEF Expected
<1> QED BY <1>1, <1>2, <1>3

\* What the program has written is a memory.
LEMMA ExpectedTyped == ASSUME Types PROVE Expected \in Memory /\ arch \in Memory
<1>1. mem2.addr \in Addr /\ mem2.data \in Word /\ arch \in Memory
  BY OpTyped DEF Types, CoreTypes
<1> QED BY <1>1, SetTyped DEF Expected

\* The remainder of a number below twice the divisor.
LEMMA OneWrap == ASSUME NEW x \in Nat, NEW n \in Nat \ {0}, x < 2 * n
                 PROVE  x % n = IF x < n THEN x ELSE x - n
<1>1. CASE x < n
  BY <1>1
<1>2. CASE ~(x < n)
  <2>1. x % n = x - n
    BY <1>2
  <2> QED BY <2>1, <1>2
<1> QED BY <1>1, <1>2

\* The rotation of a refill, without the remainder.
LEMMA Rotates == ASSUME NEW a \in Beat, NEW k \in Beat
                 PROVE  (a + k) % Beats = IF a + k < Beats THEN a + k ELSE (a + k) - Beats
<1> DEFINE x == a + k
<1>1. x \in Nat /\ Beats \in Nat \ {0} /\ x < 2 * Beats
  BY GeometryAssumption DEF Beat
<1> HIDE DEF x
<1>2. x % Beats = IF x < Beats THEN x ELSE x - Beats
  BY <1>1, OneWrap
<1> QED BY <1>2, Zenon DEF x

\* Every word of a line has its turn in a refill, the critical one first, and
\* none has two.
LEMMA EveryBeat == ASSUME NEW a \in Beat, NEW b \in Beat
                   PROVE  \E k \in Beat : b = (a + k) % Beats /\ (k = 0 <=> b = a)
<1>0. a \in Nat /\ b \in Nat /\ a < Beats /\ b < Beats /\ Beats \in Nat
  BY GeometryAssumption DEF Beat
<1>1. CASE b >= a
  <2>1. b - a \in Beat
    BY <1>0, <1>1 DEF Beat
  <2>2. (a + (b - a)) % Beats = b
    BY <2>1, <1>0, Rotates
  <2>3. b - a = 0 <=> b = a
    BY <1>0
  <2> QED BY <2>1, <2>2, <2>3
<1>2. CASE b < a
  <2>1. b - a + Beats \in Beat /\ b - a + Beats # 0
    BY <1>0, <1>2 DEF Beat
  <2>2. (a + (b - a + Beats)) % Beats = b
    BY <2>1, <1>0, Rotates
  <2> QED BY <2>1, <2>2, <1>0, <1>2
<1> QED BY <1>0, <1>1, <1>2

\* Two turns of a refill are two words.
LEMMA TurnsDiffer == ASSUME NEW a \in Beat, NEW j \in Beat, NEW k \in Beat, j # k
                     PROVE  (a + j) % Beats # (a + k) % Beats
<1>0. a \in Nat /\ j \in Nat /\ k \in Nat /\ a < Beats /\ j < Beats /\ k < Beats /\ Beats \in Nat
  BY GeometryAssumption DEF Beat
<1>1. /\ (a + j) % Beats = IF a + j < Beats THEN a + j ELSE (a + j) - Beats
      /\ (a + k) % Beats = IF a + k < Beats THEN a + k ELSE (a + k) - Beats
  BY Rotates
<1> DEFINE x == (a + j) % Beats
           y == (a + k) % Beats
<1>2. /\ x = IF a + j < Beats THEN a + j ELSE (a + j) - Beats
      /\ y = IF a + k < Beats THEN a + k ELSE (a + k) - Beats
  BY <1>1
<1> HIDE DEF x, y
<1>3. x # y
  BY <1>0, <1>2
<1> QED BY <1>3 DEF x, y

\* Cache and memory keep what the program wrote at an edge from IDLE.
LEMMA HeldIdle ==
  ASSUME Fragment, DataInv, Types', state_q = "IDLE", Leaves \/ Stays, pulse_q' = {},
         UNCHANGED <<mem, tag_ram>>,
         StartsFlush \/ Answers \/ WritesHit \/ Misses \/ GoesUncached
  PROVE  HeldRight' /\ RestInMemory' /\ CleanRight'
<1>i. Types /\ Owned /\ OneCopy /\ HeldRight /\ RestInMemory /\ CleanRight
  BY DEF DataInv
<1>m. /\ mem2.addr.set \in Sets /\ mem2.addr.tag \in Tags /\ mem2.addr.beat \in Beat
      /\ mem2.addr \in Addr /\ mem2.data \in Word /\ arch \in Memory
  BY <1>i, OpTyped DEF Types, CoreTypes, Addr
<1>t. \A w \in Ways, s \in Sets : tag_ram[w][s] \in Tags
  BY <1>i DEF Types, RamTypes
<1>h. \A w \in Ways, s \in Sets : Holds(w, s) <=> valid_q[s][w]
  BY DEF Holds
<1>1. CASE StartsFlush \/ Answers \/ GoesUncached
  <2>1. Expected' = Expected
    BY <1>1, ExpectedIdle
  <2>2. \A w \in Ways, s \in Sets : Holds(w, s)' <=> valid_q[s][w]
    BY <1>1 DEF Holds, StartsFlush, Answers, GoesUncached
  <2>3. UNCHANGED <<dirty_q, data_ram>>
    BY <1>1 DEF StartsFlush, Answers, GoesUncached
  <2>4. HeldRight'
    BY <2>1, <2>2, <2>3, <1>h, <1>i DEF HeldRight
  <2>5. RestInMemory'
    BY <2>1, <2>2, <2>3, <1>h, <1>i DEF RestInMemory
  <2>6. CleanRight'
    BY <2>1, <2>2, <2>3, <1>h, <1>i DEF CleanRight
  <2> QED BY <2>4, <2>5, <2>6
<1>2. CASE WritesHit
  <2>0. PICK w \in Ways :
       /\ valid_q[mem2.addr.set][w] /\ tag_ram[w][mem2.addr.set] = mem2.addr.tag
       /\ \A s \in Sets, v \in Ways :
            dirty_q'[s][v] <=> dirty_q[s][v] \/ (s = mem2.addr.set /\ v = w)
       /\ \A s \in Sets, v \in Ways, b \in Beat :
            data_ram'[v][s][b] = IF v = w /\ s = mem2.addr.set /\ b = mem2.addr.beat
                                 THEN mem2.data ELSE data_ram[v][s][b]
    BY <1>2 DEF WritesHit
  <2>1. \A t \in Tags, s \in Sets, b \in Beat :
          Expected'[t][s][b] = IF t = mem2.addr.tag /\ s = mem2.addr.set /\ b = mem2.addr.beat
                               THEN mem2.data ELSE Expected[t][s][b]
    <3>1. /\ Expected' = SetAt(arch, mem2.addr, mem2.data)
          /\ Expected \in {arch, SetAt(arch, mem2.addr, mem2.data)}
      BY <1>2, ExpectedIdle
    <3> QED BY <3>1, <1>m, SetReads
  <2>2. \A v \in Ways, s \in Sets : Holds(v, s)' <=> valid_q[s][v]
    BY <1>2 DEF Holds, WritesHit
  <2>3. \A v \in Ways : valid_q[mem2.addr.set][v] /\ tag_ram[v][mem2.addr.set] = mem2.addr.tag => v = w
    BY <2>0, <1>m, <1>i DEF OneCopy
  <2>4. HeldRight'
    BY <2>0, <2>1, <2>2, <2>3, <1>h, <1>i, <1>t DEF HeldRight
  <2>5. RestInMemory'
    BY <2>0, <2>1, <2>2, <1>h, <1>i, <1>m DEF RestInMemory
  <2>6. CleanRight'
    BY <2>0, <2>2, <1>h, <1>i DEF CleanRight
  <2> QED BY <2>4, <2>5, <2>6
<1>3. CASE Misses
  <2>1. Expected' = Expected
    BY <1>3, ExpectedIdle
  <2>2. UNCHANGED <<dirty_q, data_ram, valid_q>> /\ miss_q'.addr = mem2.addr
    BY <1>3 DEF Misses
  <2> DEFINE x == miss_q'.victim
             u == mem2.addr.set
  <2>3. \A w \in Ways, s \in Sets :
          Holds(w, s)' <=> valid_q[s][w] /\ ~(state_q' = "REFILL_AR" /\ s = u /\ w = x)
    BY <1>3, <2>2 DEF Holds, Misses
  <2>4. state_q' = "REFILL_AR" => ~(valid_q[u][x] /\ dirty_q[u][x])
    BY <1>3 DEF Misses
  <2> HIDE DEF x, u
  <2>5. HeldRight'
    BY <2>1, <2>2, <2>3, <1>h, <1>i DEF HeldRight
  <2>6. RestInMemory'
    <3>1. SUFFICES ASSUME NEW t \in Tags, NEW s \in Sets, NEW b \in Beat,
                          \A w \in Ways : Holds(w, s)' => tag_ram[w][s] # t
                   PROVE  mem[t][s][b] = Expected[t][s][b]
      BY <2>1 DEF RestInMemory
    <3>2. CASE \A w \in Ways : Holds(w, s) => tag_ram[w][s] # t
      BY <3>2, <1>i DEF RestInMemory
    <3>3. CASE \E w \in Ways : Holds(w, s) /\ tag_ram[w][s] = t
      <4>1. PICK w \in Ways : Holds(w, s) /\ tag_ram[w][s] = t
        BY <3>3
      <4>2. state_q' = "REFILL_AR" /\ s = u /\ w = x /\ valid_q[s][w]
        BY <4>1, <3>1, <2>3, <1>h
      <4>3. ~dirty_q[s][w]
        BY <4>2, <2>4
      <4> QED BY <4>1, <4>3, <1>i DEF HeldRight, CleanRight
    <3> QED BY <3>2, <3>3
  <2>7. CleanRight'
    BY <2>1, <2>2, <2>3, <1>h, <1>i DEF CleanRight
  <2> QED BY <2>5, <2>6, <2>7
<1> QED BY <1>1, <1>2, <1>3

\* A beat of a write-back puts the victim's word of that beat into memory.
LEMMA BackBeat ==
  ASSUME Types, WritingBack, state_q \in {"WB_W", "FLUSH_W"}, WriteBackBeat
  PROVE  /\ wb_beat_cnt_q \in Beat
         /\ \A t \in Tags, s \in Sets, b \in Beat :
              mem'[t][s][b] =
                IF t = tag_ram[miss_q.victim][miss_q.addr.set] /\ s = miss_q.addr.set /\ b = wb_beat_cnt_q
                THEN data_ram[miss_q.victim][miss_q.addr.set][b] ELSE mem[t][s][b]
<1>1. /\ wb_beat_cnt_q \in Beat /\ miss_q.addr.set \in Sets /\ evict_tag_q \in Tags
      /\ mem \in [Tags -> [Sets -> [Beat -> Word]]]
  BY DEF Types, FsmTypes, TypeOK, Addr
<1>2. mem' = [mem EXCEPT ![evict_tag_q][miss_q.addr.set][wb_beat_cnt_q] = ram_rdata[miss_q.victim]]
  BY DEF WriteBackBeat
<1>3. /\ evict_tag_q = tag_ram[miss_q.victim][miss_q.addr.set]
      /\ ram_rdata[miss_q.victim] = data_ram[miss_q.victim][miss_q.addr.set][wb_beat_cnt_q]
  BY DEF WritingBack
<1>4. \A t \in Tags, s \in Sets, b \in Beat :
        mem'[t][s][b] = IF t = evict_tag_q /\ s = miss_q.addr.set /\ b = wb_beat_cnt_q
                        THEN ram_rdata[miss_q.victim] ELSE mem[t][s][b]
  BY <1>1, <1>2
<1> QED BY <1>1, <1>3, <1>4

\* After its last beat memory holds the victim's line.
LEMMA LastBeat ==
  ASSUME Types, WritingBack, state_q \in {"WB_W", "FLUSH_W"}, WriteBackBeat, wb_last_beat
  PROVE  \A b \in Beat : mem'[tag_ram[miss_q.victim][miss_q.addr.set]][miss_q.addr.set][b]
                           = data_ram[miss_q.victim][miss_q.addr.set][b]
<1>0. /\ miss_q.addr.set \in Sets /\ miss_q.victim \in Ways
      /\ tag_ram[miss_q.victim][miss_q.addr.set] \in Tags
  BY DEF Types, FsmTypes, RamTypes, Addr
<1>1. \A b \in Beat : b < wb_beat_cnt_q \/ b = wb_beat_cnt_q
  BY Zeros DEF wb_last_beat, Beat
<1>2. \A b \in Beat : b < wb_beat_cnt_q =>
        mem[tag_ram[miss_q.victim][miss_q.addr.set]][miss_q.addr.set][b]
          = data_ram[miss_q.victim][miss_q.addr.set][b]
  BY DEF WritingBack
<1> QED BY <1>0, <1>1, <1>2, BackBeat

\* Cache and memory keep what the program wrote while a line is written back.
LEMMA HeldBack ==
  ASSUME Fragment, DataInv, Types', state_q \in {"WB_W", "FLUSH_W"}, NEW axi \in BOOLEAN,
         WbW(axi) \/ FlushW(axi), Expected' = Expected, UNCHANGED <<tag_ram, data_ram>>
  PROVE  HeldRight' /\ RestInMemory' /\ CleanRight'
<1>i. Types /\ OneCopy /\ HeldRight /\ RestInMemory /\ CleanRight /\ WritingBack /\ Swept
  BY DEF DataInv
<1> DEFINE x == miss_q.victim
           u == miss_q.addr.set
           g == tag_ram[x][u]
<1>0. x \in Ways /\ u \in Sets /\ g \in Tags /\ valid_q[u][x] /\ dirty_q[u][x]
  BY <1>i DEF Types, FsmTypes, RamTypes, Addr, WritingBack
<1>h. \A w \in Ways, s \in Sets : Holds(w, s) <=> valid_q[s][w]
  BY DEF Holds
<1>m. /\ UNCHANGED miss_q
      /\ axi => WriteBackBeat
      /\ ~axi => UNCHANGED <<mem, state_q>>
  BY DEF WbW, FlushW
<1>1. \A t \in Tags, s \in Sets, b \in Beat :
        mem'[t][s][b] = mem[t][s][b] \/ (t = g /\ s = u /\ mem'[t][s][b] = data_ram[x][u][b])
  BY <1>m, <1>i, BackBeat
<1>2. \A w \in Ways, s \in Sets : valid_q[s][w] /\ tag_ram[w][s] = g /\ s = u => w = x
  BY <1>0, <1>i DEF OneCopy
<1>3. \A w \in Ways, s \in Sets : tag_ram[w][s] \in Tags
  BY <1>i DEF Types, RamTypes
\* the line is given up after the last beat, and only then
<1>4. \A w \in Ways, s \in Sets :
        /\ Holds(w, s)' => valid_q[s][w]
        /\ valid_q[s][w] /\ ~Holds(w, s)' => w = x /\ s = u /\ axi /\ wb_last_beat
        /\ Holds(w, s)' /\ ~dirty_q'[s][w] => ~dirty_q[s][w]
  <2>1. CASE WbW(axi)
    BY <2>1, <1>m DEF WbW, lines, Holds
  <2>2. CASE FlushW(axi) /\ ~(axi /\ wb_last_beat)
    BY <2>2, <1>m DEF FlushW, lines, Holds
  <2>3. CASE FlushW(axi) /\ axi /\ wb_last_beat
    <3>1. flush_q.set = u /\ flush_q.way = x /\ state_q' \in {"IDLE", "FLUSH_SCAN"}
      BY <2>3, <1>i DEF FlushW, AdvanceWalk, Swept
    <3>2. /\ dirty_q' = [dirty_q EXCEPT ![u][x] = FALSE]
          /\ valid_q' = [valid_q EXCEPT ![u][x] = FALSE]
      BY <2>3, <3>1 DEF FlushW
    <3>3. /\ dirty_q \in [Sets -> [Ways -> BOOLEAN]] /\ valid_q \in [Sets -> [Ways -> BOOLEAN]]
      BY <1>i DEF Types, FsmTypes, TypeOK
    <3>4. \A w \in Ways, s \in Sets : Holds(w, s)' <=> valid_q'[s][w]
      BY <3>1 DEF Holds
    <3> HIDE DEF x, u
    <3>5. \A w \in Ways, s \in Sets : valid_q'[s][w] <=> valid_q[s][w] /\ ~(w = x /\ s = u)
      BY <3>2, <3>3, <1>0
    <3>6. \A w \in Ways, s \in Sets : ~(w = x /\ s = u) => dirty_q'[s][w] = dirty_q[s][w]
      BY <3>2, <3>3, <1>0
    <3> QED BY <3>4, <3>5, <3>6, <2>3
  <2> QED BY <2>1, <2>2, <2>3
<1>5. axi /\ wb_last_beat => \A b \in Beat : mem'[g][u][b] = data_ram[x][u][b]
  BY <1>m, <1>i, LastBeat
<1>6. \A b \in Beat : data_ram[x][u][b] = Expected[g][u][b]
  BY <1>0, <1>h, <1>i DEF HeldRight
<1> HIDE DEF x, u, g
<1>7. HeldRight'
  BY <1>4, <1>h, <1>i DEF HeldRight
<1>8. RestInMemory'
  <2>1. SUFFICES ASSUME NEW t \in Tags, NEW s \in Sets, NEW b \in Beat,
                        \A w \in Ways : Holds(w, s)' => tag_ram[w][s] # t
                 PROVE  mem'[t][s][b] = Expected[t][s][b]
    BY DEF RestInMemory
  <2>2. CASE t = g /\ s = u
    <3>1. axi /\ wb_last_beat
      BY <2>1, <2>2, <1>0, <1>4 DEF g
    <3> QED BY <3>1, <2>2, <1>5, <1>6
  <2>3. CASE ~(t = g /\ s = u)
    <3>1. mem'[t][s][b] = mem[t][s][b]
      BY <2>3, <1>1
    <3>2. \A w \in Ways : Holds(w, s) => tag_ram[w][s] # t
      BY <2>1, <2>3, <1>4, <1>h DEF g
    <3> QED BY <3>1, <3>2, <1>i DEF RestInMemory
  <2> QED BY <2>2, <2>3
<1>9. CleanRight'
  <2>1. SUFFICES ASSUME NEW s \in Sets, NEW w \in Ways, NEW b \in Beat, Holds(w, s)', ~dirty_q'[s][w]
                 PROVE  data_ram[w][s][b] = mem'[tag_ram[w][s]][s][b]
    BY DEF CleanRight
  <2>2. Holds(w, s) /\ ~dirty_q[s][w] /\ valid_q[s][w]
    BY <2>1, <1>4, <1>h
  <2>3. ~(w = x /\ s = u)
    BY <2>2, <1>0
  <2>4. mem'[tag_ram[w][s]][s][b] = mem[tag_ram[w][s]][s][b]
    BY <2>2, <2>3, <1>1, <1>2, <1>3
  <2> QED BY <2>2, <2>4, <1>i DEF CleanRight
<1> QED BY <1>7, <1>8, <1>9

\* They keep it while a line arrives: the words before the last beat go to a
\* way that counts as empty, and with the last beat the line is complete.
LEMMA HeldRefill ==
  ASSUME Fragment, DataInv, Types', NEW rsrv_clear, NEW axi \in BOOLEAN, NEW victim \in Ways,
         Leaves \/ Stays, state_q = "REFILL_R",
         DCacheEdge(req, dcache_early, fence_i_active_q, rsrv_clear, axi, TRUE, victim)
  PROVE  HeldRight' /\ RestInMemory' /\ CleanRight'
<1>i. Types /\ Owned /\ Absent /\ HeldRight /\ RestInMemory /\ CleanRight /\ Refilling
  BY DEF DataInv
<1>b. /\ RefillR(axi) /\ UNCHANGED <<mem2, arch>> /\ (mem_done_q' <=> mem_done_q)
      /\ ~axi => UNCHANGED data_ram
      /\ ~Fill(axi) => UNCHANGED tag_ram
  BY BusyArms DEF AddressPhase, WbW, FlushScan, FlushW, NcData
<1>e. /\ Expected = arch
      /\ Expected' = IF Fill(axi) /\ miss_q.store THEN SetAt(arch, mem2.addr, mem2.data) ELSE arch
  BY <1>b, ExpectedBusy
<1>m. UNCHANGED mem
  BY <1>b DEF RefillR
<1> DEFINE x == miss_q.victim
           a == miss_q.addr
           u == a.set
<1>0. /\ x \in Ways /\ a \in Addr /\ u \in Sets /\ a.tag \in Tags /\ a.beat \in Beat
      /\ a = mem2.addr /\ mem2.data \in Word /\ (miss_q.store => miss_q.data = mem2.data)
      /\ miss_q.store \in BOOLEAN /\ beat_cnt_q \in Beat /\ arch \in Memory
  <2>1. a = mem2.addr /\ (miss_q.store => miss_q.data = mem2.data)
    BY <1>i DEF Owned, MissStates
  <2>2. mem2.data \in Word /\ arch \in Memory
    BY <1>i, OpTyped DEF Types, CoreTypes
  <2>3. x \in Ways /\ a \in Addr /\ miss_q.store \in BOOLEAN /\ beat_cnt_q \in Beat
    BY <1>i DEF Types, FsmTypes, MissStates
  <2> QED BY <2>1, <2>2, <2>3 DEF Addr
<1>h. \A w \in Ways, s \in Sets : Holds(w, s) <=> valid_q[s][w] /\ ~(s = u /\ w = x)
  BY DEF Holds
<1>w. \A v \in Ways, s \in Sets, b \in Beat : ~(s = u /\ v = x) => data_ram'[v][s][b] = data_ram[v][s][b]
  <2>1. axi => \A v \in Ways, s \in Sets, b \in Beat :
          data_ram'[v][s][b] = IF v = x /\ s = u /\ b = refill_beat
                               THEN IF beat_cnt_q = 0 /\ miss_q.store THEN miss_q.data
                                    ELSE mem[a.tag][u][refill_beat]
                               ELSE data_ram[v][s][b]
    BY RefillWrites
  <2> HIDE DEF x, u, a
  <2>2. CASE axi
    BY <2>1, <2>2
  <2>3. CASE ~axi
    BY <2>3, <1>b
  <2> QED BY <2>2, <2>3
<1>t. \A w \in Ways, s \in Sets : tag_ram[w][s] \in Tags
  BY <1>i DEF Types, RamTypes
<1>1. CASE ~Fill(axi)
  <2>1. state_q' = "REFILL_R" /\ UNCHANGED <<valid_q, dirty_q, miss_q, tag_ram>> /\ Expected' = Expected
    BY <1>1, <1>b, <1>e DEF RefillR, Fill, lines, refill
  <2>2. \A w \in Ways, s \in Sets : Holds(w, s)' <=> Holds(w, s)
    BY <2>1 DEF Holds
  <2>3. HeldRight'
    BY <2>1, <2>2, <1>h, <1>w, <1>i DEF HeldRight
  <2>4. RestInMemory'
    BY <2>1, <2>2, <1>m, <1>i DEF RestInMemory
  <2>5. CleanRight'
    BY <2>1, <2>2, <1>h, <1>w, <1>m, <1>i DEF CleanRight
  <2> QED BY <2>3, <2>4, <2>5
<1>2. CASE Fill(axi)
  <2>1. /\ state_q' = "IDLE" /\ axi /\ beat_cnt_q = Beats - 1
        /\ valid_q' = [valid_q EXCEPT ![u][x] = TRUE]
        /\ dirty_q' = [dirty_q EXCEPT ![u][x] = miss_q.store]
    BY <1>2, <1>b, <1>i DEF RefillR, Fill, refill_last, Owned
  <2>2. \A w \in Ways, s \in Sets : Holds(w, s)' <=> Holds(w, s) \/ (s = u /\ w = x)
    <3>1. \A w \in Ways, s \in Sets : Holds(w, s)' <=> valid_q'[s][w]
      BY <2>1 DEF Holds
    <3>2. valid_q \in [Sets -> [Ways -> BOOLEAN]]
      BY <1>i DEF Types, FsmTypes, TypeOK
    <3> HIDE DEF x, u
    <3> QED BY <3>1, <3>2, <2>1, <1>0, <1>h
  <2>3. \A w \in Ways, s \in Sets :
          dirty_q'[s][w] <=> IF s = u /\ w = x THEN miss_q.store ELSE dirty_q[s][w]
    <3>1. dirty_q \in [Sets -> [Ways -> BOOLEAN]]
      BY <1>i DEF Types, FsmTypes, TypeOK
    <3> HIDE DEF x, u
    <3> QED BY <3>1, <2>1, <1>0
  <2>4. \A w \in Ways, s \in Sets : tag_ram'[w][s] = IF s = u /\ w = x THEN a.tag ELSE tag_ram[w][s]
    BY <1>2, <1>i, OnlyFillsTag DEF DCacheEdge
  <2>5. \A w \in Ways : Holds(w, u) => tag_ram[w][u] # a.tag
    BY <1>i, <1>0, <1>h DEF Absent, MissStates
  <2>6. \A b \in Beat : mem[a.tag][u][b] = arch[a.tag][u][b]
    BY <2>5, <1>0, <1>e, <1>i DEF RestInMemory
  <2>7. \A b \in Beat : data_ram'[x][u][b] = IF b = a.beat /\ miss_q.store THEN mem2.data
                                             ELSE mem[a.tag][u][b]
    <3> SUFFICES ASSUME NEW b \in Beat
                 PROVE  data_ram'[x][u][b] = IF b = a.beat /\ miss_q.store THEN mem2.data
                                             ELSE mem[a.tag][u][b]
      OBVIOUS
    <3>1. PICK k \in Beat : b = (a.beat + k) % Beats /\ (k = 0 <=> b = a.beat)
      BY <1>0, EveryBeat
    <3>2. k = beat_cnt_q \/ k < beat_cnt_q
      BY <2>1, Zeros DEF Beat
    <3>3. CASE k = beat_cnt_q
      <4>1. b = refill_beat
        BY <3>1, <3>3 DEF refill_beat
      <4>2. \A v \in Ways, s \in Sets, d \in Beat :
              data_ram'[v][s][d] = IF v = x /\ s = u /\ d = refill_beat
                                   THEN IF beat_cnt_q = 0 /\ miss_q.store THEN miss_q.data
                                        ELSE mem[a.tag][u][refill_beat]
                                   ELSE data_ram[v][s][d]
        BY <2>1, RefillWrites
      <4>3. data_ram'[x][u][b] = IF beat_cnt_q = 0 /\ miss_q.store THEN miss_q.data ELSE mem[a.tag][u][b]
        BY <4>1, <4>2, <1>0
      <4> QED BY <4>3, <3>1, <3>3, <1>0
    <3>4. CASE k < beat_cnt_q
      <4>1. data_ram[x][u][b] = IF k = 0 /\ miss_q.store THEN miss_q.data ELSE mem[a.tag][u][b]
        BY <3>1, <3>4, <1>i DEF Refilling
      <4>2. b # refill_beat
        <5>1. k # beat_cnt_q
          BY <3>4 DEF Beat
        <5> QED BY <3>1, <5>1, <1>0, TurnsDiffer DEF refill_beat
      <4>3. data_ram'[x][u][b] = data_ram[x][u][b]
        BY <4>2, <2>1, <1>0, RefillWrites
      <4> QED BY <4>1, <4>3, <3>1, <1>0
    <3> QED BY <3>2, <3>3, <3>4
  <2>8. \A t \in Tags, s \in Sets, b \in Beat :
          Expected'[t][s][b] = IF t = a.tag /\ s = u /\ b = a.beat /\ miss_q.store THEN mem2.data
                               ELSE arch[t][s][b]
    BY <1>2, <1>e, <1>0, SetReads
  <2> HIDE DEF x, u, a
  <2>9. HeldRight'
    <3>1. SUFFICES ASSUME NEW s \in Sets, NEW w \in Ways, NEW b \in Beat, Holds(w, s)'
                   PROVE  data_ram'[w][s][b] = Expected'[tag_ram'[w][s]][s][b]
      BY DEF HeldRight
    <3>2. CASE s = u /\ w = x
      BY <3>2, <2>4, <2>6, <2>7, <2>8, <1>0
    <3>3. CASE ~(s = u /\ w = x)
      <4>1. Holds(w, s) /\ tag_ram'[w][s] = tag_ram[w][s] /\ data_ram'[w][s][b] = data_ram[w][s][b]
        BY <3>1, <3>3, <2>2, <2>4, <1>w
      <4>2. data_ram[w][s][b] = arch[tag_ram[w][s]][s][b]
        BY <4>1, <1>e, <1>i DEF HeldRight
      <4> QED BY <4>1, <4>2, <2>5, <2>8, <1>t
    <3> QED BY <3>2, <3>3
  <2>10. RestInMemory'
    <3>1. SUFFICES ASSUME NEW t \in Tags, NEW s \in Sets, NEW b \in Beat,
                          \A w \in Ways : Holds(w, s)' => tag_ram'[w][s] # t
                   PROVE  mem[t][s][b] = Expected'[t][s][b]
      BY <1>m DEF RestInMemory
    <3>2. ~(t = a.tag /\ s = u)
      BY <3>1, <2>2, <2>4, <1>0
    <3>3. \A w \in Ways : Holds(w, s) => tag_ram[w][s] # t
      BY <3>1, <2>2, <2>4, <1>h
    <3> QED BY <3>2, <3>3, <2>8, <1>e, <1>i DEF RestInMemory
  <2>11. CleanRight'
    <3>1. SUFFICES ASSUME NEW s \in Sets, NEW w \in Ways, NEW b \in Beat, Holds(w, s)', ~dirty_q'[s][w]
                   PROVE  data_ram'[w][s][b] = mem[tag_ram'[w][s]][s][b]
      BY <1>m DEF CleanRight
    <3>2. CASE s = u /\ w = x
      BY <3>1, <3>2, <2>3, <2>4, <2>7
    <3>3. CASE ~(s = u /\ w = x)
      BY <3>1, <3>3, <2>2, <2>3, <2>4, <1>w, <1>i DEF CleanRight
    <3> QED BY <3>2, <3>3
  <2> QED BY <2>9, <2>10, <2>11
<1> QED BY <1>1, <1>2

\* They keep it in the other states.
LEMMA HeldRest ==
  ASSUME Fragment, DataInv, Types', NEW rsrv_clear, NEW axi \in BOOLEAN, NEW victim \in Ways,
         Leaves \/ Stays, state_q \notin {"IDLE", "REFILL_R"},
         DCacheEdge(req, dcache_early, fence_i_active_q, rsrv_clear, axi, TRUE, victim)
  PROVE  HeldRight' /\ RestInMemory' /\ CleanRight'
<1>i. /\ Types /\ Owned /\ HeldRight /\ RestInMemory /\ CleanRight /\ Swept /\ UncachedNeverAllocates
  BY DEF DataInv
<1>b. /\ AddressPhase(axi) \/ WbW(axi) \/ FlushScan \/ FlushW(axi) \/ NcData(axi, TRUE)
      /\ UNCHANGED <<mem2, arch>> /\ (mem_done_q' <=> mem_done_q)
      /\ UNCHANGED <<data_ram, tag_ram>>
  BY BusyArms DEF RefillR, Fill
<1>1. CASE WbW(axi) \/ FlushW(axi)
  <2>1. state_q \in {"WB_W", "FLUSH_W"} /\ Expected' = Expected
    BY <1>1, <1>b, ExpectedBusy DEF WbW, FlushW
  <2> QED BY <1>1, <1>b, <2>1, HeldBack
<1>k. ASSUME Expected' = Expected, UNCHANGED <<mem, dirty_q>>,
             \A w \in Ways, s \in Sets : Holds(w, s)' <=> Holds(w, s)
      PROVE  HeldRight' /\ RestInMemory' /\ CleanRight'
  <2>1. HeldRight'
    BY <1>k, <1>b, <1>i DEF HeldRight
  <2>2. RestInMemory'
    BY <1>k, <1>b, <1>i DEF RestInMemory
  <2>3. CleanRight'
    BY <1>k, <1>b, <1>i DEF CleanRight
  <2> QED BY <2>1, <2>2, <2>3
<1>2. CASE AddressPhase(axi)
  <2>1. Expected' = Expected
    BY <1>2, <1>b, ExpectedBusy
  <2>2. UNCHANGED <<mem, dirty_q, valid_q, miss_q>> /\ (state_q' \in {"REFILL_AR", "REFILL_R"} <=> state_q = "REFILL_AR")
    BY <1>2 DEF AddressPhase, lines, refill
  <2>3. \A w \in Ways, s \in Sets : Holds(w, s)' <=> Holds(w, s)
    BY <2>2, <1>2 DEF Holds, AddressPhase
  <2> QED BY <2>1, <2>2, <2>3, <1>k
<1>3. CASE FlushScan
  <2>0. Expected' = Expected /\ UNCHANGED <<mem, dirty_q>> /\ state_q' \in {"FLUSH_SCAN", "FLUSH_AW", "IDLE"}
    BY <1>3, <1>b, ExpectedBusy DEF FlushScan, AdvanceWalk, lines
  <2>h. \A w \in Ways, s \in Sets : (Holds(w, s)' <=> valid_q'[s][w]) /\ (Holds(w, s) <=> valid_q[s][w])
    BY <1>3, <2>0 DEF Holds, FlushScan
  <2>1. CASE UNCHANGED valid_q
    BY <2>0, <2>1, <2>h, <1>k
  <2>2. CASE /\ ~(valid_q[flush_q.set][flush_q.way] /\ dirty_q[flush_q.set][flush_q.way])
             /\ valid_q' = [valid_q EXCEPT ![flush_q.set][flush_q.way] = FALSE]
    <3> DEFINE u == flush_q.set
               x == flush_q.way
    <3>0. u \in Sets /\ x \in Ways /\ valid_q \in [Sets -> [Ways -> BOOLEAN]]
      BY <1>i DEF Types, FsmTypes, TypeOK
    <3>1. \A w \in Ways, s \in Sets : valid_q'[s][w] <=> valid_q[s][w] /\ ~(s = u /\ w = x)
      <4> HIDE DEF u, x
      <4>1. valid_q' = [valid_q EXCEPT ![u][x] = FALSE]
        BY <2>2 DEF u, x
      <4> QED BY <3>0, <4>1
    <3>2. ~(valid_q[u][x] /\ dirty_q[u][x])
      BY <2>2
    <3> HIDE DEF u, x
    <3>3. HeldRight'
      BY <3>1, <2>0, <2>h, <1>b, <1>i DEF HeldRight
    <3>4. RestInMemory'
      <4>1. SUFFICES ASSUME NEW t \in Tags, NEW s \in Sets, NEW b \in Beat,
                            \A w \in Ways : Holds(w, s)' => tag_ram[w][s] # t
                     PROVE  mem[t][s][b] = Expected[t][s][b]
        BY <2>0, <1>b DEF RestInMemory
      <4>2. CASE \A w \in Ways : Holds(w, s) => tag_ram[w][s] # t
        BY <4>2, <1>i DEF RestInMemory
      <4>3. CASE \E w \in Ways : Holds(w, s) /\ tag_ram[w][s] = t
        <5>1. PICK w \in Ways : Holds(w, s) /\ tag_ram[w][s] = t
          BY <4>3
        <5>2. s = u /\ w = x /\ ~dirty_q[s][w]
          BY <5>1, <4>1, <3>1, <3>2, <2>h
        <5> QED BY <5>1, <5>2, <1>i DEF HeldRight, CleanRight
      <4> QED BY <4>2, <4>3
    <3>5. CleanRight'
      BY <3>1, <2>0, <2>h, <1>b, <1>i DEF CleanRight
    <3> QED BY <3>3, <3>4, <3>5
  <2> QED BY <1>3, <2>1, <2>2 DEF FlushScan, lines
<1>4. CASE NcData(axi, TRUE)
  <2>0. UNCHANGED <<valid_q, dirty_q>> /\ state_q \in NcStates /\ state_q' \in {"IDLE"} \cup NcStates
    BY <1>4 DEF NcData, lines, NcStates
  <2>h. \A w \in Ways, s \in Sets : (Holds(w, s)' <=> valid_q[s][w]) /\ (Holds(w, s) <=> valid_q[s][w])
    BY <2>0 DEF Holds, NcStates
  <2>1. CASE ~(state_q = "NC_W" /\ axi)
    <3>1. UNCHANGED mem
      BY <2>1, <1>4 DEF NcData
    <3>2. Expected' = Expected
      BY <2>1, <1>4, <1>b, ExpectedBusy
    <3> QED BY <3>1, <3>2, <2>0, <2>h, <1>k
  <2>2. CASE state_q = "NC_W" /\ axi
    <3>1. /\ Expected = arch /\ Expected' = SetAt(arch, mem2.addr, mem2.data)
      BY <2>2, <1>4, <1>b, ExpectedBusy
    <3>2. /\ nc_q.addr = mem2.addr /\ nc_q.data = mem2.data /\ mem2.addr.tag \in NcTags
      BY <2>2, <1>i DEF Owned, NcStates
    <3>3. mem' = [mem EXCEPT ![mem2.addr.tag][mem2.addr.set][mem2.addr.beat] = mem2.data]
      BY <2>2, <3>2, <1>4 DEF NcData
    <3>4. /\ mem2.addr \in Addr /\ mem2.data \in Word /\ arch \in Memory /\ mem \in Memory
      BY <1>i, OpTyped DEF Types, CoreTypes, FsmTypes, TypeOK, Memory
    <3>5. mem' = SetAt(mem, mem2.addr, mem2.data)
      BY <3>3 DEF SetAt
    <3>6. \A t \in Tags, s \in Sets, b \in Beat :
            /\ t \notin NcTags => /\ mem'[t][s][b] = mem[t][s][b]
                                  /\ Expected'[t][s][b] = Expected[t][s][b]
            /\ mem[t][s][b] = Expected[t][s][b] => mem'[t][s][b] = Expected'[t][s][b]
      BY <3>1, <3>2, <3>4, <3>5, SetReads
    <3>7. \A w \in Ways, s \in Sets : tag_ram[w][s] \in Tags /\ (valid_q[s][w] => tag_ram[w][s] \notin NcTags)
      BY <1>i DEF Types, RamTypes, UncachedNeverAllocates
    <3>8. HeldRight'
      BY <3>6, <3>7, <2>h, <1>b, <1>i DEF HeldRight
    <3>9. RestInMemory'
      BY <3>6, <2>h, <1>b, <1>i DEF RestInMemory
    <3>10. CleanRight'
      BY <3>6, <3>7, <2>0, <2>h, <1>b, <1>i DEF CleanRight
    <3> QED BY <3>8, <3>9, <3>10
  <2> QED BY <2>1, <2>2
<1> QED BY <1>b, <1>1, <1>2, <1>3, <1>4

-----------------------------------------------------------------------------
(* Loads, stores and flushes: the bursts and the walk. *)

\* The read register runs one beat ahead of the burst, and waits with it.
LEMMA BackReads ==
  ASSUME Types, NEW rsrv_clear, NEW axi \in BOOLEAN, NEW victim \in Ways,
         DCacheEdge(req, dcache_early, fence_i_active_q, rsrv_clear, axi, TRUE, victim)
  PROVE  /\ state_q \in {"WB_AW", "FLUSH_AW"} =>
              \A w \in Ways : ram_rdata'[w] = data_ram[w][miss_q.addr.set][0]
         /\ state_q \in {"WB_W", "FLUSH_W"} /\ ~axi => UNCHANGED ram_rdata
         /\ state_q \in {"WB_W", "FLUSH_W"} /\ axi /\ ~wb_last_beat =>
              /\ wb_beat_cnt_q + 1 \in Beat
              /\ \A w \in Ways : ram_rdata'[w] = data_ram[w][miss_q.addr.set][wb_beat_cnt_q + 1]
<1> DEFINE dr == data_read(req, dcache_early, axi)
<1>1. ram_rdata' = [w \in Ways |-> IF dr.re THEN data_ram[w][dr.set][dr.beat] ELSE ram_rdata[w]]
  BY DEF DCacheEdge, Rams
<1>2. ASSUME state_q \in {"WB_AW", "FLUSH_AW"}
      PROVE  \A w \in Ways : ram_rdata'[w] = data_ram[w][miss_q.addr.set][0]
  <2>1. dr = [re |-> TRUE, set |-> miss_q.addr.set, beat |-> 0]
    BY <1>2 DEF data_read
  <2> HIDE DEF dr
  <2> QED BY <1>1, <2>1
<1>3. ASSUME state_q \in {"WB_W", "FLUSH_W"}
      PROVE  dr = [re |-> axi /\ wb_beat_cnt_q # Beats - 1, set |-> miss_q.addr.set,
                   beat |-> (wb_beat_cnt_q + 1) % Beats]
  BY <1>3 DEF data_read
<1>4. ASSUME state_q \in {"WB_W", "FLUSH_W"}, ~axi PROVE UNCHANGED ram_rdata
  <2>1. ~dr.re
    BY <1>3, <1>4
  <2> HIDE DEF dr
  <2>2. ram_rdata' = [w \in Ways |-> ram_rdata[w]]
    BY <1>1, <2>1
  <2> QED BY <2>2 DEF Types, RamTypes
<1>5. ASSUME state_q \in {"WB_W", "FLUSH_W"}, axi = TRUE, ~wb_last_beat
      PROVE  /\ wb_beat_cnt_q + 1 \in Beat
             /\ \A w \in Ways : ram_rdata'[w] = data_ram[w][miss_q.addr.set][wb_beat_cnt_q + 1]
  <2>0. wb_beat_cnt_q \in Beat /\ wb_beat_cnt_q # Beats - 1
    BY <1>5 DEF Types, FsmTypes, wb_last_beat
  <2>1. wb_beat_cnt_q + 1 \in Beat
    BY <2>0, Zeros DEF Beat
  <2>2. (wb_beat_cnt_q + 1) % Beats = wb_beat_cnt_q + 1
    BY <2>1, Zeros DEF Beat
  <2>3. dr = [re |-> TRUE, set |-> miss_q.addr.set, beat |-> wb_beat_cnt_q + 1]
    BY <1>5, <2>0, <2>2 DEF data_read
  <2> HIDE DEF dr
  <2> QED BY <1>1, <2>1, <2>3
<1> QED BY <1>2, <1>4, <1>5

\* A victim's words keep going out in order.
LEMMA WritingBackStep ==
  ASSUME Fragment, DataInv, Types', NEW rsrv_clear, NEW axi \in BOOLEAN, NEW victim \in Ways,
         Leaves \/ Stays,
         DCacheEdge(req, dcache_early, fence_i_active_q, rsrv_clear, axi, TRUE, victim)
  PROVE  WritingBack'
<1>i. Types /\ Owned /\ FreshTags /\ WritingBack
  BY DEF DataInv
<1>1. CASE state_q = "IDLE"
  <2>1. /\ StartsFlush \/ Answers \/ WritesHit \/ Misses \/ GoesUncached
        /\ UNCHANGED <<mem, tag_ram>>
    BY <1>1, IdleArms
  <2>2. CASE Misses
    <3>1. \A b \in Beat : ~(b < 0)
      BY DEF Beat
    <3>2. /\ miss_q'.addr = mem2.addr /\ wb_beat_cnt_q' = 0
          /\ evict_tag_q' = tag_ram'[miss_q'.victim][mem2.addr.set]
          /\ state_q' = IF valid_q'[mem2.addr.set][miss_q'.victim] /\ dirty_q'[mem2.addr.set][miss_q'.victim]
                        THEN "WB_AW" ELSE "REFILL_AR"
      BY <2>1, <2>2 DEF Misses
    <3> QED BY <3>1, <3>2 DEF WritingBack
  <2>3. CASE StartsFlush \/ Answers \/ WritesHit \/ GoesUncached
    BY <2>3 DEF StartsFlush, Answers, WritesHit, GoesUncached, WritingBack
  <2> QED BY <2>1, <2>2, <2>3
<1>2. CASE state_q # "IDLE"
  <2>1. /\ AddressPhase(axi) \/ RefillR(axi) \/ WbW(axi) \/ FlushScan \/ FlushW(axi) \/ NcData(axi, TRUE)
        /\ state_q # "REFILL_R" => UNCHANGED <<data_ram, tag_ram>>
    BY <1>2, BusyArms DEF Fill
  <2>2. CASE state_q' \notin {"WB_AW", "WB_W", "FLUSH_AW", "FLUSH_W"}
    BY <2>2 DEF WritingBack
  <2>3. CASE RefillR(axi) \/ NcData(axi, TRUE)
    BY <2>2, <2>3, <1>i DEF RefillR, NcData, Owned
  <2>4. CASE AddressPhase(axi)
    <3>0. /\ UNCHANGED <<valid_q, dirty_q, miss_q, wb_beat_cnt_q, evict_tag_q, mem>>
          /\ \/ state_q' = state_q
             \/ state_q = "WB_AW" /\ state_q' = "WB_W"
             \/ state_q = "FLUSH_AW" /\ state_q' = "FLUSH_W"
             \/ state_q' \in {"REFILL_R", "NC_R", "NC_W"}
          /\ state_q \in {"REFILL_AR", "WB_AW", "FLUSH_AW", "NC_AR", "NC_AW"}
      BY <2>4 DEF AddressPhase, lines, refill
    <3>1. CASE state_q \in {"WB_AW", "FLUSH_AW"}
      <4>1. UNCHANGED <<data_ram, tag_ram>>
        BY <3>1, <2>1
      <4>2. \A w \in Ways : ram_rdata'[w] = data_ram[w][miss_q.addr.set][0]
        BY <3>1, <1>i, BackReads
      <4>3. miss_q.victim \in Ways
        BY <1>i DEF Types, FsmTypes
      <4> QED BY <3>0, <3>1, <4>1, <4>2, <4>3, <1>i DEF WritingBack
    <3>2. CASE state_q \notin {"WB_AW", "FLUSH_AW"}
      BY <3>0, <3>2, <2>2
    <3> QED BY <3>1, <3>2
  <2>5. CASE WbW(axi) \/ FlushW(axi)
    <3>0. state_q \in {"WB_W", "FLUSH_W"} /\ UNCHANGED <<miss_q, evict_tag_q, data_ram, tag_ram>>
      BY <2>1, <2>5 DEF WbW, FlushW
    <3>1. CASE ~axi
      <4>1. UNCHANGED <<state_q, valid_q, dirty_q, wb_beat_cnt_q, mem, ram_rdata>>
        <5>1. UNCHANGED ram_rdata
          BY <3>0, <3>1, <1>i, BackReads
        <5> QED BY <5>1, <3>1, <2>5 DEF WbW, FlushW, lines
      <4> QED BY <4>1, <3>0, <1>i DEF WritingBack
    <3>2. CASE axi /\ wb_last_beat
      BY <3>2, <2>2, <2>5 DEF WbW, FlushW, AdvanceWalk
    <3>3. CASE axi /\ ~wb_last_beat
      <4>1. UNCHANGED <<state_q, valid_q, dirty_q>> /\ WriteBackBeat
        BY <3>3, <2>5 DEF WbW, FlushW, lines
      <4>2. wb_beat_cnt_q' = wb_beat_cnt_q + 1
        BY <4>1 DEF WriteBackBeat
      <4>3. /\ wb_beat_cnt_q + 1 \in Beat
            /\ \A w \in Ways : ram_rdata'[w] = data_ram[w][miss_q.addr.set][wb_beat_cnt_q + 1]
        BY <3>0, <3>3, <1>i, BackReads
      <4>4. /\ wb_beat_cnt_q \in Beat
            /\ \A t \in Tags, s \in Sets, b \in Beat :
                 mem'[t][s][b] =
                   IF t = tag_ram[miss_q.victim][miss_q.addr.set] /\ s = miss_q.addr.set /\ b = wb_beat_cnt_q
                   THEN data_ram[miss_q.victim][miss_q.addr.set][b] ELSE mem[t][s][b]
        BY <3>0, <4>1, <1>i, BackBeat
      <4>5. /\ miss_q.addr.set \in Sets /\ miss_q.victim \in Ways /\ evict_tag_q \in Tags
        BY <1>i DEF Types, FsmTypes, Addr
      <4>6. /\ evict_tag_q = tag_ram[miss_q.victim][miss_q.addr.set]
            /\ \A b \in Beat : b < wb_beat_cnt_q =>
                 mem[evict_tag_q][miss_q.addr.set][b] = data_ram[miss_q.victim][miss_q.addr.set][b]
            /\ valid_q[miss_q.addr.set][miss_q.victim] /\ dirty_q[miss_q.addr.set][miss_q.victim]
        BY <3>0, <1>i DEF WritingBack
      <4>7. \A b \in Beat : b < wb_beat_cnt_q + 1 => b < wb_beat_cnt_q \/ b = wb_beat_cnt_q
        BY <4>4 DEF Beat
      <4>8. \A b \in Beat : b < wb_beat_cnt_q + 1 =>
              mem'[evict_tag_q][miss_q.addr.set][b] = data_ram[miss_q.victim][miss_q.addr.set][b]
        BY <4>4, <4>5, <4>6, <4>7
      <4> QED BY <3>0, <4>1, <4>2, <4>3, <4>5, <4>6, <4>8 DEF WritingBack
    <3> QED BY <3>1, <3>2, <3>3
  <2>6. CASE FlushScan
    <3>1. CASE ~(flush_q.settled /\ valid_q[flush_q.set][flush_q.way] /\ dirty_q[flush_q.set][flush_q.way])
      BY <3>1, <2>2, <2>6 DEF FlushScan, AdvanceWalk
    <3>2. CASE flush_q.settled /\ valid_q[flush_q.set][flush_q.way] /\ dirty_q[flush_q.set][flush_q.way]
      <4>0. flush_q.set \in Sets /\ flush_q.way \in Ways /\ miss_q \in [addr : Addr, victim : Ways, store : BOOLEAN, data : Word]
        BY <1>i DEF Types, FsmTypes
      <4>1. /\ miss_q' = [miss_q EXCEPT !.addr.set = flush_q.set, !.victim = flush_q.way]
            /\ evict_tag_q' = tag_rdata_eff(flush_q.set, flush_q.way)
            /\ wb_beat_cnt_q' = 0 /\ state_q' = "FLUSH_AW" /\ UNCHANGED <<valid_q, dirty_q>>
        BY <2>6, <3>2 DEF FlushScan, lines
      <4>2. miss_q'.addr.set = flush_q.set /\ miss_q'.victim = flush_q.way
        BY <4>0, <4>1 DEF Addr
      <4>3. evict_tag_q' = tag_ram[flush_q.way][flush_q.set]
        BY <4>0, <4>1, <3>2, <2>6, <1>i DEF FreshTags, FlushScan, FlushStates, tag_rdata_eff
      <4>4. \A b \in Beat : ~(b < 0)
        BY DEF Beat
      <4>5. UNCHANGED <<data_ram, tag_ram>>
        BY <2>1, <2>6 DEF FlushScan
      <4> QED BY <3>2, <4>1, <4>2, <4>3, <4>4, <4>5 DEF WritingBack
    <3> QED BY <3>1, <3>2
  <2> QED BY <2>1, <2>3, <2>4, <2>5, <2>6
<1> QED BY <1>1, <1>2

\* The words of a line keep arriving from the critical one on.
LEMMA RefillingStep ==
  ASSUME Fragment, DataInv, Types', NEW rsrv_clear, NEW axi \in BOOLEAN, NEW victim \in Ways,
         Leaves \/ Stays,
         DCacheEdge(req, dcache_early, fence_i_active_q, rsrv_clear, axi, TRUE, victim)
  PROVE  Refilling'
<1>i. Types /\ Owned /\ Refilling
  BY DEF DataInv
<1>z. \A k \in Beat : ~(k < 0)
  BY DEF Beat
<1>0. ASSUME state_q' \in MissStates => beat_cnt_q' = 0 PROVE Refilling'
  BY <1>0, <1>z DEF Refilling, MissStates
<1>1. CASE state_q = "IDLE"
  <2>1. StartsFlush \/ Answers \/ WritesHit \/ Misses \/ GoesUncached
    BY <1>1, IdleArms
  <2>2. state_q' \in MissStates => beat_cnt_q' = 0
    BY <2>1 DEF StartsFlush, Answers, WritesHit, Misses, GoesUncached, MissStates
  <2> QED BY <2>2, <1>0
<1>2. CASE state_q # "IDLE" /\ state_q # "REFILL_R"
  <2>1. /\ AddressPhase(axi) \/ WbW(axi) \/ FlushScan \/ FlushW(axi) \/ NcData(axi, TRUE)
        /\ UNCHANGED <<data_ram, tag_ram>>
    BY <1>2, BusyArms DEF RefillR, Fill
  <2>2. state_q' \in MissStates => beat_cnt_q' = beat_cnt_q /\ state_q \in {"WB_AW", "WB_W", "REFILL_AR"}
    BY <2>1, <1>2 DEF AddressPhase, WbW, FlushScan, FlushW, NcData, AdvanceWalk, refill, MissStates
  <2> QED BY <2>2, <1>0, <1>i DEF Refilling
<1>3. CASE state_q = "REFILL_R"
  <2>1. RefillR(axi) /\ (~axi => UNCHANGED data_ram)
    BY <1>3, BusyArms DEF AddressPhase, WbW, FlushScan, FlushW, NcData
  <2>m. UNCHANGED mem
    BY <2>1 DEF RefillR
  <2>2. CASE ~axi
    BY <2>1, <2>2, <2>m, <1>i, <1>3 DEF RefillR, refill, Refilling
  <2>3. CASE axi /\ refill_last
    <3>1. state_q' = "IDLE"
      BY <2>1, <2>3, <1>i DEF RefillR, Owned
    <3> QED BY <3>1, <1>0 DEF MissStates
  <2>4. CASE axi /\ ~refill_last
    <3>1. state_q' = "REFILL_R" /\ UNCHANGED miss_q /\ beat_cnt_q' = beat_cnt_q + 1
      BY <2>1, <2>4, <1>3 DEF RefillR
    <3> DEFINE x == miss_q.victim
               a == miss_q.addr
               W(k) == IF k = 0 /\ miss_q.store THEN miss_q.data
                       ELSE mem[a.tag][a.set][(a.beat + k) % Beats]
    <3>2. x \in Ways /\ a.set \in Sets /\ a.beat \in Beat /\ beat_cnt_q \in Beat
      BY <1>i, <1>3 DEF Types, FsmTypes, Addr, MissStates
    <3>3. \A v \in Ways, s \in Sets, b \in Beat :
            data_ram'[v][s][b] = IF v = x /\ s = a.set /\ b = refill_beat
                                 THEN IF beat_cnt_q = 0 /\ miss_q.store THEN miss_q.data
                                      ELSE mem[a.tag][a.set][refill_beat]
                                 ELSE data_ram[v][s][b]
      BY <2>4, <1>3, RefillWrites
    <3>4. \A k \in Beat : k < beat_cnt_q => data_ram[x][a.set][(a.beat + k) % Beats] = W(k)
      BY <1>i, <1>3 DEF Refilling
    <3>5. ASSUME NEW k \in Beat, k < beat_cnt_q + 1
          PROVE  data_ram'[x][a.set][(a.beat + k) % Beats] = W(k)
      <4>0. (a.beat + k) % Beats \in Beat
        BY <3>2, Zeros DEF Beat
      <4>1. CASE k = beat_cnt_q
        <5>1. (a.beat + k) % Beats = refill_beat
          BY <4>1 DEF refill_beat
        <5> QED BY <4>0, <4>1, <5>1, <3>2, <3>3
      <4>2. CASE k # beat_cnt_q
        <5>1. (a.beat + k) % Beats # refill_beat
          BY <4>2, <3>2, TurnsDiffer DEF refill_beat
        <5>2. k < beat_cnt_q
          BY <4>2, <3>2, <3>5 DEF Beat
        <5>3. data_ram'[x][a.set][(a.beat + k) % Beats] = data_ram[x][a.set][(a.beat + k) % Beats]
          BY <4>0, <5>1, <3>2, <3>3
        <5> QED BY <5>2, <5>3, <3>4
      <4> QED BY <4>1, <4>2
    <3> QED BY <3>1, <3>5, <2>m DEF Refilling
  <2> QED BY <2>2, <2>3, <2>4
<1> QED BY <1>1, <1>2, <1>3

\* The flush walk keeps the order of sets and ways, and ends with nothing left.
LEMMA SweptStep ==
  ASSUME Fragment, DataInv, Types', NEW rsrv_clear, NEW axi \in BOOLEAN, NEW victim \in Ways,
         Leaves \/ Stays,
         DCacheEdge(req, dcache_early, fence_i_active_q, rsrv_clear, axi, TRUE, victim)
  PROVE  Swept'
<1>i. Types /\ Owned /\ Swept
  BY DEF DataInv
<1> DEFINE u == flush_q.set
           x == flush_q.way
<1>t. /\ u \in Sets /\ x \in Ways /\ flush_q \in [set : Sets, way : Ways, settled : BOOLEAN]
      /\ valid_q \in [Sets -> [Ways -> BOOLEAN]]
  BY <1>i DEF Types, FsmTypes, TypeOK
<1>n. ASSUME state_q' \notin FlushStates, "flush_done" \notin pulse_q' PROVE Swept'
  BY <1>n DEF Swept, FlushStates
\* the pointer moves on over an entry the walk has just emptied
<1>a. ASSUME state_q \in FlushStates, AdvanceWalk, valid_q' = [valid_q EXCEPT ![u][x] = FALSE]
      PROVE  Swept'
  <2>1. \A s \in Sets, w \in Ways : valid_q'[s][w] => valid_q[s][w] /\ ~(s = u /\ w = x)
    <3> HIDE DEF u, x
    <3> QED BY <1>a, <1>t
  <2>2. \A s \in Sets, w \in Ways : s < u \/ (s = u /\ w < x) => ~valid_q[s][w]
    BY <1>a, <1>i DEF Swept
  <2>3. \A s \in Sets, w \in Ways : s < u \/ (s = u /\ w < x) \/ (s = u /\ w = x) => ~valid_q'[s][w]
    BY <2>1, <2>2
  <2>4. CASE x # NumWays - 1
    <3>1. flush_q' = [flush_q EXCEPT !.way = x + 1] /\ pulse_q' = {} /\ state_q' = "FLUSH_SCAN"
      BY <1>a, <2>4 DEF AdvanceWalk
    <3>2. flush_q'.set = u /\ flush_q'.way = x + 1
      BY <3>1, <1>t
    <3>3. \A w \in Ways : w < x + 1 => w < x \/ w = x
      BY <1>t DEF Ways
    <3>4. \A s \in Sets, w \in Ways : s < u \/ (s = u /\ w < x + 1) => ~valid_q'[s][w]
      BY <2>3, <3>3
    <3> HIDE DEF u, x
    <3> QED BY <3>1, <3>2, <3>4 DEF Swept
  <2>5. CASE x = NumWays - 1
    <3>1. \A s \in Sets, w \in Ways : s < u + 1 => ~valid_q'[s][w]
      <4>1. \A w \in Ways : w < x \/ w = x
        BY <2>5, <1>t, GeometryAssumption DEF Ways
      <4>2. \A s \in Sets : s < u + 1 => s < u \/ s = u
        BY <1>t DEF Sets
      <4> QED BY <2>3, <4>1, <4>2
    <3>2. CASE u = NumSets - 1
      <4>1. pulse_q' = {"flush_done"} /\ state_q' = "IDLE"
        BY <1>a, <2>5, <3>2 DEF AdvanceWalk
      <4>2. \A s \in Sets : s < u + 1
        BY <3>2, GeometryAssumption DEF Sets
      <4> QED BY <3>1, <4>1, <4>2 DEF Swept, FlushStates
    <3>3. CASE u # NumSets - 1
      <4>1. /\ flush_q' = [set |-> u + 1, way |-> 0, settled |-> FALSE]
            /\ pulse_q' = {} /\ state_q' = "FLUSH_SCAN"
        BY <1>a, <2>5, <3>3 DEF AdvanceWalk
      <4>2. \A w \in Ways : ~(w < 0)
        BY DEF Ways
      <4> QED BY <3>1, <4>1, <4>2 DEF Swept
    <3> QED BY <3>2, <3>3
  <2> QED BY <2>4, <2>5
<1>1. CASE state_q = "IDLE"
  <2>1. (StartsFlush \/ Answers \/ WritesHit \/ Misses \/ GoesUncached) /\ pulse_q' = {}
    BY <1>1, IdleArms
  <2>2. CASE StartsFlush
    <3>1. \A s \in Sets : ~(s < 0)
      BY DEF Sets
    <3>2. \A w \in Ways : ~(w < 0)
      BY DEF Ways
    <3> QED BY <2>1, <2>2, <3>1, <3>2 DEF StartsFlush, Swept
  <2>3. CASE Answers \/ WritesHit \/ Misses \/ GoesUncached
    BY <2>1, <2>3, <1>n DEF Answers, WritesHit, Misses, GoesUncached, FlushStates
  <2> QED BY <2>1, <2>2, <2>3
<1>2. CASE state_q # "IDLE"
  <2>1. AddressPhase(axi) \/ RefillR(axi) \/ WbW(axi) \/ FlushScan \/ FlushW(axi) \/ NcData(axi, TRUE)
    BY <1>2, BusyArms
  <2>2. CASE RefillR(axi) \/ WbW(axi) \/ NcData(axi, TRUE)
    BY <2>2, <1>n, <1>i DEF RefillR, WbW, NcData, FlushStates, Owned
  <2>3. CASE AddressPhase(axi)
    BY <2>3, <1>i DEF AddressPhase, Swept, FlushStates, walk, lines, refill
  <2>4. CASE FlushW(axi)
    <3>1. CASE axi /\ wb_last_beat
      BY <2>4, <3>1, <1>a DEF FlushW, FlushStates
    <3>2. CASE ~(axi /\ wb_last_beat)
      BY <2>4, <3>2, <1>i DEF FlushW, Swept, FlushStates, lines
    <3> QED BY <3>1, <3>2
  <2>5. CASE FlushScan
    <3>1. CASE ~flush_q.settled
      <4>1. /\ flush_q' = [flush_q EXCEPT !.settled = TRUE] /\ pulse_q' = {}
            /\ state_q = "FLUSH_SCAN" /\ UNCHANGED <<state_q, valid_q>>
        BY <2>5, <3>1 DEF FlushScan, lines
      <4>2. flush_q'.set = u /\ flush_q'.way = x
        BY <4>1, <1>t
      <4> HIDE DEF u, x
      <4>3. \A s \in Sets, w \in Ways : s < u \/ (s = u /\ w < x) => ~valid_q[s][w]
        BY <4>1, <1>i DEF Swept, FlushStates, u, x
      <4> QED BY <4>1, <4>2, <4>3 DEF Swept
    <3>2. CASE flush_q.settled /\ valid_q[u][x] /\ dirty_q[u][x]
      <4>1. /\ miss_q' = [miss_q EXCEPT !.addr.set = u, !.victim = x]
            /\ state_q = "FLUSH_SCAN" /\ state_q' = "FLUSH_AW" /\ pulse_q' = {}
            /\ UNCHANGED <<flush_q, valid_q>>
        BY <2>5, <3>2 DEF FlushScan, lines
      <4>2. miss_q \in [addr : Addr, victim : Ways, store : BOOLEAN, data : Word]
        BY <1>i DEF Types, FsmTypes
      <4>3. miss_q'.addr.set = u /\ miss_q'.victim = x
        BY <4>1, <4>2, <1>t DEF Addr
      <4> QED BY <4>1, <4>3, <3>2, <1>i DEF Swept, FlushStates
    <3>3. CASE flush_q.settled /\ ~(valid_q[u][x] /\ dirty_q[u][x])
      BY <2>5, <3>3, <1>a DEF FlushScan, FlushStates
    <3> QED BY <3>1, <3>2, <3>3
  <2> QED BY <2>1, <2>2, <2>3, <2>4, <2>5
<1> QED BY <1>1, <1>2

-----------------------------------------------------------------------------
(* Loads, stores and flushes: what the core is answered. *)

\* A load that is answered is answered with the word the program left there,
\* by a way of the cache or by the bus.
LEMMA LoadAnswer ==
  ASSUME Fragment, DataInv, lsu_valid, mem2.kind = "LOAD"
  PROVE  lsu_rdata = At(arch, mem2.addr)
<1>i. /\ Types /\ Owned /\ OneCopy /\ FreshTags /\ FreshWords /\ Bypassed /\ HeldRight /\ Answered
  BY DEF DataInv
<1>r. /\ req = lsu_req /\ (req.valid <=> is_mem(mem2) /\ ~mem_done_q) /\ req.valid /\ state_q = "IDLE"
      /\ hit(req) \/ pulse_q \cap {"store_done", "nc_rsp", "nc_b"} # {}
  BY <1>i, PlainRequest
<1>p. "store_done" \notin pulse_q /\ "nc_b" \notin pulse_q /\ "bypass" \notin pulse_q
      /\ "amo_done" \notin pulse_q
  BY <1>r, <1>i DEF Owned
<1>1. CASE "nc_rsp" \in pulse_q
  BY <1>1, <1>p, <1>i DEF lsu_rdata, rsp_rdata, Answered
<1>2. CASE "nc_rsp" \notin pulse_q
  <2>1. lsu_rdata = hit_beat(req)
    BY <1>2, <1>p, <1>r DEF lsu_rdata, rsp_rdata
  <2>2. Compared /\ hit(req)
    BY <1>2, <1>p, <1>r DEF Compared
  <2>3. PICK w \in Ways : /\ hit_way_oh(req) = {w}
                          /\ hit_beat(req) = data_ram[w][mem2.addr.set][mem2.addr.beat]
    BY <2>2, <1>i, Hits
  <2>4. valid_q[mem2.addr.set][w] /\ tag_ram[w][mem2.addr.set] = mem2.addr.tag
    BY <2>2, <2>3, <1>i, Hits
  <2>5. mem2.addr.set \in Sets /\ mem2.addr.beat \in Beat
    BY <1>i, OpTyped DEF Types, CoreTypes, Addr
  <2>6. Expected = arch
    BY <1>p, <1>r DEF Expected, Pending
  <2>7. Holds(w, mem2.addr.set)
    BY <2>4, <1>r DEF Holds
  <2> QED BY <2>1, <2>3, <2>4, <2>5, <2>6, <2>7, <1>i DEF HeldRight, At
<1> QED BY <1>1, <1>2

\* The answers MEM2 keeps, and the one it leaves with, are the program's.
LEMMA AnsweredStep ==
  ASSUME Fragment, DataInv, Types', NEW rsrv_clear, NEW axi \in BOOLEAN, NEW victim \in Ways,
         Leaves \/ Stays,
         lsu_rdata_latch' = IF lsu_valid THEN lsu_rdata ELSE lsu_rdata_latch,
         DCacheEdge(req, dcache_early, fence_i_active_q, rsrv_clear, axi, TRUE, victim)
  PROVE  Answered' /\ ReadsLatest'
<1>i. /\ Types /\ Owned /\ UncachedNeverAllocates /\ RestInMemory /\ Answered /\ ReadsLatest
  BY DEF DataInv
<1>r. /\ req = lsu_req /\ (req.valid <=> is_mem(mem2) /\ ~mem_done_q)
      /\ mem2.kind \in {"NONE", "LOAD", "STORE", "FENCE"}
      /\ lsu_valid => req.valid
  BY <1>i, PlainRequest
<1>1. ASSUME is_mem(mem2'), mem_done_q', mem2'.kind = "LOAD"
      PROVE  lsu_rdata_latch' = At(arch', mem2'.addr)
  <2>1. Stays
    BY <1>1 DEF Leaves
  <2>2. mem2' = mem2 /\ arch' = arch /\ (mem_done_q \/ lsu_valid)
    BY <2>1, <1>1 DEF Stays
  <2>3. CASE lsu_valid
    <3>1. lsu_rdata = At(arch, mem2.addr)
      BY <2>2, <2>3, <1>1, LoadAnswer
    <3> QED BY <2>2, <2>3, <3>1
  <2>4. CASE ~lsu_valid
    BY <2>2, <2>4, <1>1, <1>i DEF Answered
  <2> QED BY <2>3, <2>4
<1>2. ASSUME "nc_rsp" \in pulse_q' PROVE nc_q'.rsp = At(arch', mem2'.addr)
  <2>1. state_q # "IDLE"
    BY <1>2, IdleArms
  <2>2. /\ AddressPhase(axi) \/ RefillR(axi) \/ WbW(axi) \/ FlushScan \/ FlushW(axi) \/ NcData(axi, TRUE)
        /\ UNCHANGED <<mem2, arch>>
    BY <2>1, BusyArms
  <2>3. NcData(axi, TRUE)
    <3>1. ~AddressPhase(axi) /\ ~WbW(axi)
      BY <1>2 DEF AddressPhase, WbW
    <3>2. ~RefillR(axi)
      BY <1>2 DEF RefillR
    <3>3. ~FlushScan
      BY <1>2 DEF FlushScan, AdvanceWalk
    <3>4. ~FlushW(axi)
      BY <1>2 DEF FlushW, AdvanceWalk
    <3> QED BY <2>2, <3>1, <3>2, <3>3, <3>4
  <2>4. /\ state_q = "NC_R"
        /\ nc_q' = [nc_q EXCEPT !.rsp = mem[nc_q.addr.tag][nc_q.addr.set][nc_q.addr.beat]]
    BY <1>2, <2>3 DEF NcData
  <2>5. nc_q.addr = mem2.addr /\ mem2.addr.tag \in NcTags /\ req.valid
    BY <2>4, <1>i, <1>r DEF Owned, NcStates
  <2>6. Expected = arch
    BY <2>4, <2>5, <1>i, <1>r DEF Expected, Pending, Owned
  <2>7. mem2.addr.set \in Sets /\ mem2.addr.beat \in Beat /\ mem2.addr.tag \in Tags
    BY <1>i, OpTyped DEF Types, CoreTypes, Addr
  <2>8. \A w \in Ways : Holds(w, mem2.addr.set) => tag_ram[w][mem2.addr.set] # mem2.addr.tag
    BY <2>5, <2>7, <1>i DEF Holds, UncachedNeverAllocates
  <2>9. mem[mem2.addr.tag][mem2.addr.set][mem2.addr.beat] = At(arch, mem2.addr)
    BY <2>6, <2>7, <2>8, <1>i DEF RestInMemory, At
  <2>10. nc_q \in [addr : Addr, data : Word, ptw : BOOLEAN, rsp : Word]
    BY <1>i DEF Types, FsmTypes
  <2>11. nc_q'.rsp = mem[mem2.addr.tag][mem2.addr.set][mem2.addr.beat]
    BY <2>4, <2>5, <2>10
  <2> QED BY <2>2, <2>9, <2>11
<1>3. ReadsLatest'
  <2>1. CASE Stays
    BY <2>1, <1>i DEF Stays, ReadsLatest
  <2>2. CASE Leaves /\ ~is_mem(mem2)
    <3>1. retired' = [retired EXCEPT !.kind = "NONE"]
      BY <2>2 DEF Leaves
    <3>2. retired'.kind = "NONE"
      BY <3>1, <1>i DEF Types, CoreTypes
    <3> QED BY <3>2 DEF ReadsLatest
  <2>3. CASE Leaves /\ is_mem(mem2)
    <3>1. /\ retired' = [kind |-> mem2.kind, got |-> result, want |-> At(arch, mem2.addr)]
          /\ req.valid => lsu_valid
      BY <2>3, <1>r DEF Leaves
    <3>2. mem2.kind = "LOAD" => result = At(arch, mem2.addr)
      <4>1. CASE lsu_valid
        BY <4>1, LoadAnswer DEF result
      <4>2. CASE ~lsu_valid
        BY <4>2, <3>1, <2>3, <1>r, <1>i DEF result, Answered
      <4> QED BY <4>1, <4>2
    <3> QED BY <3>1, <3>2, <1>r DEF ReadsLatest
  <2> QED BY <2>1, <2>2, <2>3
<1> QED BY <1>1, <1>2, <1>3 DEF Answered

-----------------------------------------------------------------------------
(* Loads, stores and flushes: the invariant. *)

\* The reset state satisfies the invariant.
LEMMA DataInvInit == Init => DataInv
<1> SUFFICES ASSUME Init PROVE DataInv
  OBVIOUS
<1>1. Types
  BY TypesInit
<1>2. ~is_mem(mem2) /\ ~lsu_req.valid
  BY DEF Init, None, is_mem, lsu_req, NoReq
<1>3. /\ state_q = "IDLE" /\ pulse_q = {} /\ ~fence_i_active_q /\ arch = mem
      /\ \A s \in Sets, w \in Ways : ~valid_q[s][w]
  BY DEF Init, DCacheInit
<1>4. Owned
  BY <1>2, <1>3 DEF Init, DCacheInit, Owned, MissStates, FlushStates, NcStates
<1>5. UncachedNeverAllocates /\ OneCopy /\ Absent /\ Present
  BY <1>3 DEF UncachedNeverAllocates, OneCopy, Absent, Present, MissStates
<1>6. FreshTags /\ FreshWords
  BY <1>2, <1>3 DEF FreshTags, FreshWords, Compared, FlushStates
<1>7. Bypassed
  BY DEF Init, DCacheInit, Bypassed, NoWrite
<1>8. Expected = arch
  BY <1>2, <1>3 DEF Expected, Pending
<1>9. HeldRight /\ CleanRight
  BY <1>3 DEF HeldRight, CleanRight, Holds
<1>10. RestInMemory
  BY <1>3, <1>8 DEF RestInMemory
<1>11. WritingBack /\ Refilling /\ Swept
  BY <1>3 DEF WritingBack, Refilling, Swept, FlushStates
<1>12. Answered
  BY <1>2, <1>3 DEF Answered
<1>13. ReadsLatest
  BY DEF Init, ReadsLatest
<1> QED BY <1>1, <1>4, <1>5, <1>6, <1>7, <1>9, <1>10, <1>11, <1>12, <1>13 DEF DataInv

\* A stutter keeps it.
LEMMA DataInvStutter == DataInv /\ UNCHANGED vars => DataInv'
<1> SUFFICES ASSUME DataInv, UNCHANGED vars PROVE DataInv'
  OBVIOUS
<1>v. UNCHANGED <<state_q, valid_q, dirty_q, tag_ram, data_ram, tag_rdata, ram_rdata, miss_q,
                  beat_cnt_q, wb_beat_cnt_q, evict_tag_q, pulse_q, amo_q, flush_q, nc_q,
                  in_flight_is_ptw_q, prev_write_q, prev2_write_q, prev_tag_q, mem,
                  mem2, mem_done_q, lsu_rdata_latch, fence_i_active_q, ptw_q, arch, retired, walks>>
  BY DEF vars, dcacheVars, coreVars
<1>1. Types'
  BY TypesStutter DEF DataInv
<1>2. lsu_req' = lsu_req
  BY <1>v DEF lsu_req, is_mem
<1>3. Owned'
  BY <1>v, <1>2 DEF DataInv, Owned
<1>4. UncachedNeverAllocates' /\ OneCopy' /\ Absent' /\ Present'
  BY <1>v DEF DataInv, UncachedNeverAllocates, OneCopy, Absent, Present
<1>5. FreshTags' /\ FreshWords'
  BY <1>v, <1>2 DEF DataInv, FreshTags, FreshWords, Compared, tag_rdata_eff, Covers
<1>6. Bypassed'
  BY <1>v DEF DataInv, Bypassed, Covers
<1>7. Expected' = Expected
  BY <1>v DEF Expected, Pending, is_mem, SetAt
<1>8. HeldRight' /\ RestInMemory' /\ CleanRight'
  BY <1>v, <1>7 DEF DataInv, HeldRight, RestInMemory, CleanRight, Holds
<1>9. WritingBack' /\ Refilling' /\ Swept'
  <2>1. WritingBack'
    BY <1>v DEF DataInv, WritingBack
  <2>2. Refilling'
    BY <1>v DEF DataInv, Refilling
  <2>3. Swept'
    BY <1>v DEF DataInv, Swept
  <2> QED BY <2>1, <2>2, <2>3
<1>10. Answered' /\ ReadsLatest'
  BY <1>v DEF DataInv, Answered, ReadsLatest, is_mem, At
<1> QED BY <1>1, <1>3, <1>4, <1>5, <1>6, <1>8, <1>9, <1>10 DEF DataInv

\* Every edge keeps the invariant.
LEMMA DataInvStep == ASSUME Fragment, DataInv, Next PROVE DataInv'
<1>i. Types /\ Owned /\ Bypassed
  BY DEF DataInv
<1>1. PICK hold \in BOOLEAN, rsrv_clear \in BOOLEAN, axi \in BOOLEAN, ok \in BOOLEAN,
           victim \in Ways, new \in Op \cup {None} :
             Clock(hold, new, rsrv_clear, axi, ok, victim) /\ (~BusErrors => ok)
  BY Edges
<1>2. Types'
  BY <1>1, <1>i, ClockTyped
<1>3. ok = TRUE
  BY <1>1 DEF Fragment
<1>4. /\ Core(hold, new) /\ Ptw
      /\ DCacheEdge(req, dcache_early, fence_i_active_q, rsrv_clear, axi, TRUE, victim)
  BY <1>1, <1>3 DEF Clock
<1>5. /\ UNCHANGED <<ptw_q, walks>>
      /\ lsu_rdata_latch' = IF lsu_valid THEN lsu_rdata ELSE lsu_rdata_latch
      /\ Leaves \/ Stays
  BY <1>4, <1>i, CoreMoves
<1>6. Owned'
  BY <1>2, <1>4, <1>5, OwnedStep
<1>7. UncachedNeverAllocates' /\ OneCopy' /\ Absent' /\ Present'
  BY <1>2, <1>4, <1>5, LinesStep
<1>8. FreshTags' /\ FreshWords'
  BY <1>2, <1>4, <1>5, <1>6, FreshStep
<1>9. Bypassed'
  <2>1. req \in Request /\ dcache_early \in Read /\ fence_i_active_q \in BOOLEAN
    BY <1>i, Presented DEF Types, CoreTypes
  <2>2. Rams(req, dcache_early, fence_i_active_q, axi)
    BY <1>4 DEF DCacheEdge
  <2> QED BY <2>1, <2>2, <1>i, BypassedStep
<1>10. HeldRight' /\ RestInMemory' /\ CleanRight'
  <2>1. CASE state_q = "IDLE"
    <3>1. /\ StartsFlush \/ Answers \/ WritesHit \/ Misses \/ GoesUncached
          /\ pulse_q' = {} /\ UNCHANGED <<mem, tag_ram>>
      BY <2>1, <1>4, IdleArms
    <3> QED BY <2>1, <3>1, <1>2, <1>5, HeldIdle
  <2>2. CASE state_q = "REFILL_R"
    BY <2>2, <1>2, <1>4, <1>5, HeldRefill
  <2>3. CASE state_q \notin {"IDLE", "REFILL_R"}
    BY <2>3, <1>2, <1>4, <1>5, HeldRest
  <2> QED BY <2>1, <2>2, <2>3
<1>11. WritingBack'
  BY <1>2, <1>4, <1>5, WritingBackStep
<1>12. Refilling'
  BY <1>2, <1>4, <1>5, RefillingStep
<1>13. Swept'
  BY <1>2, <1>4, <1>5, SweptStep
<1>14. Answered' /\ ReadsLatest'
  BY <1>2, <1>4, <1>5, AnsweredStep
<1> QED BY <1>2, <1>6, <1>7, <1>8, <1>9, <1>10, <1>11, <1>12, <1>13, <1>14 DEF DataInv

\* The invariant holds throughout for a core without page walks whose program
\* loads, stores and flushes over a bus that does not fail.
THEOREM DataInvariant ==
  ASSUME Fragment
  PROVE  Spec => []DataInv
<1>1. Init => DataInv
  BY DataInvInit
<1>2. DataInv /\ [Next]_vars => DataInv'
  BY DataInvStep, DataInvStutter
<1> QED BY <1>1, <1>2, PTL DEF Spec

\* A line is in at most one way, so the one-hot hit vector of kronos_dcache is
\* one-hot: a miss is for a line that no way holds, and nothing but the last
\* beat of that miss makes a way valid.
THEOREM LineHasOneCopy ==
  ASSUME Fragment
  PROVE  Spec => []OneCopy
<1>1. Spec => []DataInv
  BY DataInvariant
<1>2. DataInv => OneCopy
  BY DEF DataInv
<1> QED BY <1>1, <1>2, PTL

\* Every load that leaves MEM2 has the word of the last store to its address
\* before it in program order, through refills, write-backs, the two RAM
\* bypass registers, the uncached path and flushes.
THEOREM LoadsReadLatest ==
  ASSUME Fragment
  PROVE  Spec => []ReadsLatest
<1>1. Spec => []DataInv
  BY DataInvariant
<1>2. DataInv => ReadsLatest
  BY DEF DataInv
<1> QED BY <1>1, <1>2, PTL

\* What the program has written is what the model calls committed, once no
\* completion is under way.
LEMMA ExpectedCommitted ==
  ASSUME Fragment, DataInv, state_q = "IDLE", pulse_q \cap {"store_done", "nc_b"} = {}
  PROVE  Expected = Committed
<1>1. mem2.kind \in {"NONE", "LOAD", "STORE", "FENCE"}
  BY PlainRequest DEF DataInv
<1>2. Pending <=> Done(mem2)
  BY <1>1 DEF Pending, Done
<1> QED BY <1>2 DEF Expected, Committed

\* Cache and memory together hold what the program wrote whenever the cache is
\* idle and MEM2 has finished: no write is lost between the RAM, the
\* write-back and the bus, none is torn by a refill that merges it, and none
\* is invented.
THEOREM NoWriteLost ==
  ASSUME Fragment
  PROVE  Spec => []Coherent
<1>1. Spec => []DataInv
  BY DataInvariant
<1>2. ASSUME DataInv PROVE Coherent
  <2>1. SUFFICES ASSUME state_q = "IDLE", pulse_q = {}, NEW a \in Addr
                 PROVE  Content(a) = At(Committed, a)
    BY DEF Coherent
  <2>2. Expected = Committed
    BY <1>2, <2>1, ExpectedCommitted
  <2>3. a.tag \in Tags /\ a.set \in Sets /\ a.beat \in Beat
    BY DEF Addr
  <2>4. \A w \in Ways, s \in Sets : Holds(w, s) <=> valid_q[s][w]
    BY <2>1 DEF Holds
  <2> DEFINE ways == {w \in Ways : valid_q[a.set][w] /\ tag_ram[w][a.set] = a.tag}
  <2>5. CASE ways = {}
    <3>1. Content(a) = mem[a.tag][a.set][a.beat]
      BY <2>5 DEF Content, At
    <3>2. \A w \in Ways : Holds(w, a.set) => tag_ram[w][a.set] # a.tag
      BY <2>3, <2>4, <2>5
    <3> QED BY <3>1, <3>2, <2>2, <2>3, <1>2 DEF DataInv, RestInMemory, At
  <2>6. CASE ways # {}
    <3>1. Content(a) = data_ram[Max(ways)][a.set][a.beat]
      BY <2>6 DEF Content
    <3>2. Max(ways) \in ways
      BY <2>6, MaxOfWays
    <3>3. PICK w \in Ways : w = Max(ways) /\ valid_q[a.set][w] /\ tag_ram[w][a.set] = a.tag
      BY <3>2
    <3> HIDE DEF ways
    <3> QED BY <3>1, <3>3, <2>2, <2>3, <2>4, <1>2 DEF DataInv, HeldRight, At
  <2> QED BY <2>5, <2>6
<1> QED BY <1>1, <1>2, PTL

\* When the walk of FENCE.I reports done, memory holds every store that
\* completed, word for word, and the cache holds no line.
THEOREM FenceDrains ==
  ASSUME Fragment
  PROVE  Spec => []FlushDrains
<1>1. Spec => []DataInv
  BY DataInvariant
<1>2. ASSUME DataInv PROVE FlushDrains
  <2>1. SUFFICES ASSUME "flush_done" \in pulse_q
                 PROVE  mem = Committed /\ \A s \in Sets, w \in Ways : ~valid_q[s][w]
    BY DEF FlushDrains
  <2>2. \A s \in Sets, w \in Ways : ~valid_q[s][w]
    BY <1>2, <2>1 DEF DataInv, Swept
  <2>3. Expected = Committed
    <3>1. state_q = "IDLE" /\ pulse_q \cap {"store_done", "nc_b"} = {}
      BY <1>2, <2>1 DEF DataInv, Owned
    <3> QED BY <1>2, <3>1, ExpectedCommitted
  <2>4. \A t \in Tags, s \in Sets, b \in Beat : mem[t][s][b] = Expected[t][s][b]
    BY <1>2, <2>2 DEF DataInv, RestInMemory, Holds
  <2>5. mem \in [Tags -> [Sets -> [Beat -> Word]]] /\ Expected \in [Tags -> [Sets -> [Beat -> Word]]]
    BY <1>2, ExpectedTyped DEF DataInv, Types, FsmTypes, TypeOK, Memory
  <2>6. mem = Expected
    <3>1. \A t \in Tags, s \in Sets : mem[t][s] = Expected[t][s]
      BY <2>4, <2>5
    <3>2. \A t \in Tags : mem[t] = Expected[t]
      BY <3>1, <2>5
    <3> QED BY <3>2, <2>5
  <2> QED BY <2>2, <2>3, <2>6
<1> QED BY <1>1, <1>2, PTL
=============================================================================
