------------------------------- MODULE DCache -------------------------------
(***************************************************************************)
(* kronos_dcache: the write-back data cache with its FSM, its block RAMs   *)
(* with one cycle of read latency and the bypass registers that hide it,   *)
(* AMO and LR/SC, the uncached path, the FENCE.I flush walk and the        *)
(* walker's priority port.  A step of an FSM arm below is one rising clock *)
(* edge.  r is the effective request of the cycle.                         *)
(*                                                                         *)
(* A beat is one word, so byte strobes and load extension are left out.    *)
(* Tree-PLRU is reduced to an arbitrary victim.  The memory behind the AXI *)
(* port performs a beat at its handshake.                                  *)
(***************************************************************************)
EXTENDS Integers, FiniteSets, FiniteSetsExt

CONSTANTS NumSets, NumWays, Beats,   \* geometry: beats per line
          Tags, NcTags,              \* tags, and those of the uncached region
          Word, Zero                 \* the contents of a beat; all zeros

ASSUME GeometryAssumption == /\ NumSets \in Nat \ {0} /\ NumWays \in Nat \ {0}
                             /\ Beats \in Nat \ {0, 1}
ASSUME TagsAssumption == NcTags \subseteq Tags /\ Tags # {}
ASSUME WordAssumption == Zero \in Word

Sets == 0 .. NumSets - 1
Ways == 0 .. NumWays - 1
Beat == 0 .. Beats - 1
Addr == [tag : Tags, set : Sets, beat : Beat]

VARIABLES
  state_q,
  valid_q, dirty_q,              \* per set and way
  tag_ram, data_ram,             \* block RAM contents
  tag_rdata, ram_rdata,          \* block RAM read registers
  miss_q,                        \* set, tag, beat, victim, store flag and data
  beat_cnt_q, wb_beat_cnt_q, evict_tag_q, bypass_data_q,
  pulse_q,                       \* the one-cycle completion pulses that are high
  amo_q, rsrv_q, flush_q, nc_q,
  in_flight_is_ptw_q, ptw_lookup_way_q,
  prev_write_q, prev2_write_q, prev_tag_q,   \* RAW bypass registers
  mem                            \* memory behind the AXI port

dcacheVars == <<state_q, valid_q, dirty_q, tag_ram, data_ram, tag_rdata, ram_rdata, miss_q,
                beat_cnt_q, wb_beat_cnt_q, evict_tag_q, bypass_data_q, pulse_q, amo_q, rsrv_q,
                flush_q, nc_q, in_flight_is_ptw_q, ptw_lookup_way_q, prev_write_q,
                prev2_write_q, prev_tag_q, mem>>

NoWrite == [ways |-> {}, set |-> 0, beat |-> 0, data |-> Zero]
SomeTag == CHOOSE t \in Tags : TRUE
Origin == [tag |-> SomeTag, set |-> 0, beat |-> 0]

DCacheInit ==
  /\ state_q = "IDLE"
  /\ valid_q = [s \in Sets |-> [w \in Ways |-> FALSE]]
  /\ dirty_q = [s \in Sets |-> [w \in Ways |-> FALSE]]
  /\ tag_ram = [w \in Ways |-> [s \in Sets |-> SomeTag]]
  /\ data_ram = [w \in Ways |-> [s \in Sets |-> [b \in Beat |-> Zero]]]
  /\ tag_rdata = [w \in Ways |-> SomeTag]
  /\ ram_rdata = [w \in Ways |-> Zero]
  /\ miss_q = [addr |-> Origin, victim |-> 0, store |-> FALSE, data |-> Zero]
  /\ beat_cnt_q = 0 /\ wb_beat_cnt_q = 0
  /\ evict_tag_q = SomeTag
  /\ bypass_data_q = Zero
  /\ pulse_q = {}
  /\ amo_q = [pending |-> FALSE, src |-> Zero, old |-> Zero]
  /\ rsrv_q = [valid |-> FALSE, addr |-> Origin]
  /\ flush_q = [set |-> 0, way |-> 0, settled |-> FALSE]
  /\ nc_q = [addr |-> Origin, data |-> Zero, ptw |-> FALSE, rsp |-> Zero]
  /\ in_flight_is_ptw_q = FALSE
  /\ ptw_lookup_way_q = 0
  /\ prev_write_q = NoWrite /\ prev2_write_q = NoWrite
  /\ prev_tag_q = [write |-> FALSE, set |-> 0, way |-> 0, tag |-> SomeTag]
  /\ mem = [t \in Tags |-> [s \in Sets |-> [b \in Beat |-> Zero]]]

-----------------------------------------------------------------------------
(* The request.  op is PLAIN, LR, SC or AMO (the read-modify-writes, with  *)
(* AMOSWAP standing for them).                                             *)

NoReq == [valid |-> FALSE, ptw |-> FALSE, addr |-> Origin, we |-> FALSE,
          op |-> "PLAIN", data |-> Zero]

\* The walker always wins.
eff_req(lsu, ptw) == IF ptw.valid THEN ptw ELSE lsu

is_uncacheable(r) == r.addr.tag \in NcTags

\* A mutant of tag_rdata_eff: without the bypass.
TagUnbypassed(set, w) == tag_rdata[w]

\* The tags compared, after the one-deep bypass of the tag RAM.
tag_rdata_eff(set, w) ==
  IF prev_tag_q.write /\ set = prev_tag_q.set /\ w = prev_tag_q.way
  THEN prev_tag_q.tag ELSE tag_rdata[w]

hit_way_oh(r) == {w \in Ways : /\ r.valid /\ valid_q[r.addr.set][w]
                               /\ tag_rdata_eff(r.addr.set, w) = r.addr.tag}
hit(r) == hit_way_oh(r) # {}
hit_way_idx(r) == IF hit(r) THEN Max(hit_way_oh(r)) ELSE 0

Covers(p, w, a) == w \in p.ways /\ p.set = a.set /\ p.beat = a.beat

\* A mutant of hit_beat: the older tier of the RAW bypass wins.
HitBeatSwapped(r) ==
  LET w == hit_way_idx(r)
  IN  IF ~hit(r) THEN Zero
      ELSE IF Covers(prev2_write_q, w, r.addr) THEN prev2_write_q.data
      ELSE IF Covers(prev_write_q, w, r.addr) THEN prev_write_q.data
      ELSE ram_rdata[w]

\* The word of the hit way: newest of the last two RAM writes, else the RAM's.
hit_beat(r) ==
  LET w == hit_way_idx(r)
  IN  IF ~hit(r) THEN Zero
      ELSE IF Covers(prev_write_q, w, r.addr) THEN prev_write_q.data
      ELSE IF Covers(prev2_write_q, w, r.addr) THEN prev2_write_q.data
      ELSE ram_rdata[w]

flushing(flush_i) == flush_i /\ "flush_done" \notin pulse_q
dirty_pending == \E s \in Sets, w \in Ways : valid_q[s][w] /\ dirty_q[s][w]

\* A store hit, and an SC that holds its reservation and hits, write at once.
store_hit_fire(r, flush_i) == /\ state_q = "IDLE" /\ ~flushing(flush_i)
                              /\ r.valid /\ r.we /\ r.op = "PLAIN"
                              /\ ~is_uncacheable(r) /\ hit(r)
rsrv_match(r) == rsrv_q.valid /\ rsrv_q.addr = r.addr
sc_hit_write_fire(r, flush_i) == /\ state_q = "IDLE" /\ ~flushing(flush_i)
                                 /\ r.valid /\ r.op = "SC" /\ ~is_uncacheable(r)
                                 /\ rsrv_match(r) /\ hit(r)

refill_beat == (miss_q.addr.beat + beat_cnt_q) % Beats
refill_last == beat_cnt_q = Beats - 1
r_data == mem[miss_q.addr.tag][miss_q.addr.set][refill_beat]

\* Port A of the data RAMs.  axi: the channel the FSM waits on handshakes.
ram_write(r, flush_i, axi) ==
  IF store_hit_fire(r, flush_i) \/ sc_hit_write_fire(r, flush_i)
  THEN [ways |-> hit_way_oh(r), set |-> r.addr.set, beat |-> r.addr.beat, data |-> r.data]
  ELSE IF state_q = "REFILL_R" /\ axi
  THEN [ways |-> {miss_q.victim}, set |-> miss_q.addr.set, beat |-> refill_beat,
        data |-> IF beat_cnt_q = 0 /\ miss_q.store THEN miss_q.data ELSE r_data]
  ELSE IF state_q = "AMO_RMW"
  THEN [ways |-> {miss_q.victim}, set |-> miss_q.addr.set, beat |-> miss_q.addr.beat,
        data |-> amo_q.src]
  ELSE NoWrite

\* Port B: the address read this cycle; early is the pre-launch from MEM1B.
NoRead == [re |-> FALSE, set |-> 0, beat |-> 0]
ReadAt(a) == [re |-> TRUE, set |-> a.set, beat |-> a.beat]
OwnerReads(r) == \/ state_q \in {"REFILL_AR", "REFILL_R", "AMO_RMW"}
                 \/ state_q = "IDLE" /\ r.ptw
data_read(r, early, axi) ==
  IF state_q \in {"WB_AW", "FLUSH_AW"} THEN [re |-> TRUE, set |-> miss_q.addr.set, beat |-> 0]
  ELSE IF state_q \in {"WB_W", "FLUSH_W"}
  THEN [re |-> axi /\ wb_beat_cnt_q # Beats - 1, set |-> miss_q.addr.set,
        beat |-> (wb_beat_cnt_q + 1) % Beats]
  ELSE IF OwnerReads(r) THEN ReadAt(r.addr)
  ELSE early

tag_read(r, early) ==
  IF state_q = "FLUSH_SCAN" THEN [re |-> TRUE, set |-> flush_q.set, beat |-> 0]
  ELSE IF state_q \in {"WB_AW", "WB_W", "FLUSH_AW", "FLUSH_W"} THEN NoRead
  ELSE IF OwnerReads(r) THEN ReadAt(r.addr)
  ELSE early

\* What the RAMs and the bypass registers do at the edge: a read collides with
\* a write of the same address by returning the old word.
Rams(r, early, flush_i, axi) ==
  LET wr == ram_write(r, flush_i, axi)
      dr == data_read(r, early, axi)
      tr == tag_read(r, early)
      fill == state_q = "REFILL_R" /\ axi /\ refill_last
  IN  /\ data_ram' = [w \in Ways |-> IF w \in wr.ways
                                     THEN [data_ram[w] EXCEPT ![wr.set][wr.beat] = wr.data]
                                     ELSE data_ram[w]]
      /\ ram_rdata' = [w \in Ways |-> IF dr.re THEN data_ram[w][dr.set][dr.beat]
                                      ELSE ram_rdata[w]]
      /\ tag_ram' = IF fill THEN [tag_ram EXCEPT ![miss_q.victim][miss_q.addr.set] = miss_q.addr.tag]
                    ELSE tag_ram
      /\ tag_rdata' = [w \in Ways |-> IF tr.re THEN tag_ram[w][tr.set] ELSE tag_rdata[w]]
      /\ prev_write_q' = wr
      /\ prev2_write_q' = prev_write_q
      /\ prev_tag_q' = IF fill THEN [write |-> TRUE, set |-> miss_q.addr.set,
                                     way |-> miss_q.victim, tag |-> miss_q.addr.tag]
                       ELSE [prev_tag_q EXCEPT !.write = FALSE]

\* LR sets the reservation; a trap, an SC and a store to its line clear it.
Reservation(r, rsrv_clear) ==
  rsrv_q' = IF rsrv_clear THEN [rsrv_q EXCEPT !.valid = FALSE]
            ELSE IF r.valid /\ r.op = "LR" THEN [valid |-> TRUE, addr |-> r.addr]
            ELSE IF r.valid /\ \/ r.op = "SC"
                               \/ /\ r.we /\ r.op = "PLAIN"
                                  /\ r.addr.tag = rsrv_q.addr.tag /\ r.addr.set = rsrv_q.addr.set
            THEN [rsrv_q EXCEPT !.valid = FALSE]
            ELSE rsrv_q

-----------------------------------------------------------------------------
(* The FSM.  Each arm is the whole effect of the edge on the FSM's own     *)
(* registers; Rams, Reservation and Owner add the rest.                    *)

walk == <<flush_q, ptw_lookup_way_q>>
lines == <<valid_q, dirty_q>>
refill == <<miss_q, beat_cnt_q, wb_beat_cnt_q, evict_tag_q>>

\* A miss captures the request and the victim, and evicts it first if dirty.
StartMiss(r, victim, store) ==
  /\ miss_q' = [addr |-> r.addr, victim |-> victim, store |-> store,
                data |-> IF store THEN r.data ELSE miss_q.data]
  /\ beat_cnt_q' = 0
  /\ wb_beat_cnt_q' = 0
  /\ evict_tag_q' = tag_rdata_eff(r.addr.set, victim)
  /\ state_q' = IF valid_q[r.addr.set][victim] /\ dirty_q[r.addr.set][victim]
                THEN "WB_AW" ELSE "REFILL_AR"

MarkDirty(r) == dirty_q' = [dirty_q EXCEPT ![r.addr.set] =
                              [w \in Ways |-> @[w] \/ w \in hit_way_oh(r)]]

IdleFlush(flush_i) ==
  /\ state_q = "IDLE" /\ flushing(flush_i)
  /\ flush_q' = [set |-> 0, way |-> 0, settled |-> FALSE]
  /\ state_q' = "FLUSH_SCAN"
  /\ pulse_q' = {}
  /\ UNCHANGED <<lines, refill, bypass_data_q, amo_q, nc_q, ptw_lookup_way_q, mem>>

\* Uncached: a fresh request leaves for the bus; AMO, LR and SC only fault.
IdleNc(r, flush_i) ==
  /\ state_q = "IDLE" /\ ~flushing(flush_i) /\ r.valid /\ is_uncacheable(r)
  /\ pulse_q' = {}
  /\ IF pulse_q \cap {"nc_rsp", "nc_b"} = {}
     THEN /\ nc_q' = [nc_q EXCEPT !.addr = r.addr, !.data = r.data, !.ptw = r.ptw]
          /\ state_q' = IF r.op # "PLAIN" THEN "IDLE" ELSE IF r.we THEN "NC_AW" ELSE "NC_AR"
     ELSE UNCHANGED <<nc_q, state_q>>
  /\ UNCHANGED <<lines, refill, bypass_data_q, amo_q, walk, mem>>

\* A mutant of Cached: a draining uncached access falls through to it.
CachedWhenDraining(r, flush_i) ==
  state_q = "IDLE" /\ ~flushing(flush_i)
  /\ ~(r.valid /\ is_uncacheable(r) /\ pulse_q \cap {"nc_rsp", "nc_b"} = {})
Cached(r, flush_i) == state_q = "IDLE" /\ ~flushing(flush_i) /\ ~(r.valid /\ is_uncacheable(r))
PtwHit(r) == r.ptw /\ hit(r) /\ r.op # "SC"
AmoArm(r) == ~PtwHit(r) /\ r.valid /\ r.op # "PLAIN" /\ ~amo_q.pending /\ "amo_done" \notin pulse_q

\* A read hit of the walker waits a cycle for the RAM.
IdlePtwHit(r, flush_i) ==
  /\ Cached(r, flush_i) /\ PtwHit(r)
  /\ ptw_lookup_way_q' = hit_way_idx(r)
  /\ state_q' = "PTW_LOOKUP"
  /\ pulse_q' = {}
  /\ UNCHANGED <<lines, refill, bypass_data_q, amo_q, flush_q, nc_q, mem>>

IdleSc(r, flush_i, victim) ==
  /\ Cached(r, flush_i) /\ AmoArm(r) /\ r.op = "SC"
  /\ \/ /\ rsrv_match(r) /\ hit(r)
        /\ MarkDirty(r)
        /\ pulse_q' = {"sc_success", "store_done"}
        /\ UNCHANGED <<state_q, valid_q, refill>>
     \/ /\ rsrv_match(r) /\ ~hit(r)
        /\ StartMiss(r, victim, TRUE)
        /\ pulse_q' = {"sc_success"}
        /\ UNCHANGED lines
     \/ /\ ~rsrv_match(r)
        /\ pulse_q' = {"store_done"}
        /\ UNCHANGED <<state_q, lines, refill>>
  /\ UNCHANGED <<bypass_data_q, amo_q, walk, nc_q, mem>>

IdleLr(r, flush_i, victim) ==
  /\ Cached(r, flush_i) /\ AmoArm(r) /\ r.op = "LR"
  /\ IF hit(r) THEN UNCHANGED <<state_q, refill>> ELSE StartMiss(r, victim, miss_q.store)
  /\ pulse_q' = {}
  /\ UNCHANGED <<lines, bypass_data_q, amo_q, walk, nc_q, mem>>

IdleAmo(r, flush_i, victim) ==
  /\ Cached(r, flush_i) /\ AmoArm(r) /\ r.op = "AMO"
  /\ IF hit(r)
     THEN /\ miss_q' = [miss_q EXCEPT !.addr.set = r.addr.set, !.addr.beat = r.addr.beat,
                                      !.victim = hit_way_idx(r)]
          /\ amo_q' = [pending |-> TRUE, src |-> r.data, old |-> hit_beat(r)]
          /\ state_q' = "AMO_RMW"
          /\ UNCHANGED <<beat_cnt_q, wb_beat_cnt_q, evict_tag_q>>
     ELSE /\ StartMiss(r, victim, miss_q.store)
          /\ amo_q' = [amo_q EXCEPT !.pending = TRUE, !.src = r.data]
  /\ pulse_q' = {}
  /\ UNCHANGED <<lines, bypass_data_q, walk, nc_q, mem>>

\* Loads and stores; a finished AMO still presented passes here too.
IdlePlain(r, flush_i, victim) ==
  /\ Cached(r, flush_i) /\ ~PtwHit(r) /\ ~AmoArm(r)
  /\ IF hit(r) /\ r.we THEN MarkDirty(r) ELSE UNCHANGED dirty_q
  /\ IF r.valid /\ ~hit(r) THEN StartMiss(r, victim, r.we) ELSE UNCHANGED <<state_q, refill>>
  /\ pulse_q' = {}
  /\ UNCHANGED <<valid_q, bypass_data_q, amo_q, walk, nc_q, mem>>

PtwLookup ==
  /\ state_q = "PTW_LOOKUP"
  /\ state_q' = "IDLE"
  /\ pulse_q' = {}
  /\ UNCHANGED <<lines, refill, bypass_data_q, amo_q, walk, nc_q, mem>>

\* AR, AW and the address phases of the other bursts.
AddressPhase(axi) ==
  /\ state_q \in {"REFILL_AR", "WB_AW", "FLUSH_AW", "NC_AR", "NC_AW"}
  /\ state_q' = IF ~axi THEN state_q
                ELSE CASE state_q = "REFILL_AR" -> "REFILL_R" [] state_q = "WB_AW" -> "WB_W"
                       [] state_q = "FLUSH_AW" -> "FLUSH_W" [] state_q = "NC_AR" -> "NC_R"
                       [] state_q = "NC_AW" -> "NC_W"
  /\ pulse_q' = {}
  /\ UNCHANGED <<lines, refill, bypass_data_q, amo_q, walk, nc_q, mem>>

\* A refill beat, critical word first.
RefillR(axi) ==
  /\ state_q = "REFILL_R"
  /\ IF ~axi THEN /\ pulse_q' = {}
                  /\ UNCHANGED <<state_q, lines, refill, bypass_data_q, amo_q>>
     ELSE /\ beat_cnt_q' = beat_cnt_q + 1
          /\ bypass_data_q' = IF beat_cnt_q = 0 /\ ~miss_q.store THEN r_data ELSE bypass_data_q
          /\ pulse_q' = (IF beat_cnt_q = 0 /\ ~miss_q.store THEN {"bypass"} ELSE {})
                        \cup (IF refill_last /\ miss_q.store THEN {"store_done"} ELSE {})
          /\ IF ~refill_last THEN UNCHANGED <<state_q, lines, miss_q, amo_q>>
             ELSE /\ valid_q' = [valid_q EXCEPT ![miss_q.addr.set][miss_q.victim] = TRUE]
                  /\ dirty_q' = [dirty_q EXCEPT ![miss_q.addr.set][miss_q.victim] = miss_q.store]
                  /\ miss_q' = [miss_q EXCEPT !.store = FALSE]
                  /\ state_q' = IF amo_q.pending THEN "AMO_RMW" ELSE "IDLE"
                  /\ amo_q' = IF amo_q.pending THEN [amo_q EXCEPT !.old = bypass_data_q] ELSE amo_q
          /\ UNCHANGED <<wb_beat_cnt_q, evict_tag_q>>
  /\ UNCHANGED <<walk, nc_q, mem>>

AmoRmw ==
  /\ state_q = "AMO_RMW"
  /\ dirty_q' = [dirty_q EXCEPT ![miss_q.addr.set][miss_q.victim] = TRUE]
  /\ amo_q' = [amo_q EXCEPT !.pending = FALSE]
  /\ pulse_q' = {"amo_done"}
  /\ state_q' = "IDLE"
  /\ UNCHANGED <<valid_q, refill, bypass_data_q, walk, nc_q, mem>>

wb_last_beat == wb_beat_cnt_q = Beats - 1
\* A mutant of WriteBackBeat: to the line being fetched.
WriteBackToNewTag == /\ wb_beat_cnt_q' = wb_beat_cnt_q + 1
                     /\ mem' = [mem EXCEPT ![miss_q.addr.tag][miss_q.addr.set][wb_beat_cnt_q] =
                                  ram_rdata[miss_q.victim]]
WriteBackBeat == /\ wb_beat_cnt_q' = wb_beat_cnt_q + 1
                 /\ mem' = [mem EXCEPT ![evict_tag_q][miss_q.addr.set][wb_beat_cnt_q] =
                              ram_rdata[miss_q.victim]]

\* A beat of an eviction.
WbW(axi) ==
  /\ state_q = "WB_W"
  /\ IF axi THEN WriteBackBeat ELSE UNCHANGED <<wb_beat_cnt_q, mem>>
  /\ state_q' = IF axi /\ wb_last_beat THEN "REFILL_AR" ELSE state_q
  /\ pulse_q' = {}
  /\ UNCHANGED <<lines, miss_q, beat_cnt_q, evict_tag_q, bypass_data_q, amo_q, walk, nc_q>>

\* A mutant of the walk: the settled flag is not re-armed for a new set.
AdvanceUnsettled ==
  IF flush_q.way # NumWays - 1
  THEN flush_q' = [flush_q EXCEPT !.way = @ + 1] /\ pulse_q' = {} /\ state_q' = "FLUSH_SCAN"
  ELSE IF flush_q.set = NumSets - 1
  THEN flush_q' = [flush_q EXCEPT !.way = 0] /\ pulse_q' = {"flush_done"} /\ state_q' = "IDLE"
  ELSE flush_q' = [flush_q EXCEPT !.set = @ + 1, !.way = 0] /\ pulse_q' = {} /\ state_q' = "FLUSH_SCAN"

\* The flush walk goes on to the next way, the next set, or ends.
AdvanceWalk ==
  IF flush_q.way # NumWays - 1
  THEN flush_q' = [flush_q EXCEPT !.way = @ + 1] /\ pulse_q' = {} /\ state_q' = "FLUSH_SCAN"
  ELSE IF flush_q.set = NumSets - 1
  THEN flush_q' = [flush_q EXCEPT !.way = 0] /\ pulse_q' = {"flush_done"} /\ state_q' = "IDLE"
  ELSE /\ flush_q' = [set |-> flush_q.set + 1, way |-> 0, settled |-> FALSE]
       /\ pulse_q' = {} /\ state_q' = "FLUSH_SCAN"

\* The walk waits for the tag RAM, writes dirty lines back, drops clean ones.
FlushScan ==
  /\ state_q = "FLUSH_SCAN"
  /\ LET s == flush_q.set
         w == flush_q.way
     IN  \/ /\ ~flush_q.settled
            /\ flush_q' = [flush_q EXCEPT !.settled = TRUE]
            /\ pulse_q' = {}
            /\ UNCHANGED <<state_q, lines, refill>>
         \/ /\ flush_q.settled /\ valid_q[s][w] /\ dirty_q[s][w]
            /\ miss_q' = [miss_q EXCEPT !.addr.set = s, !.victim = w]
            /\ evict_tag_q' = tag_rdata_eff(s, w)
            /\ wb_beat_cnt_q' = 0
            /\ state_q' = "FLUSH_AW"
            /\ pulse_q' = {}
            /\ UNCHANGED <<flush_q, lines, beat_cnt_q>>
         \/ /\ flush_q.settled /\ ~(valid_q[s][w] /\ dirty_q[s][w])
            /\ valid_q' = [valid_q EXCEPT ![s][w] = FALSE]
            /\ AdvanceWalk
            /\ UNCHANGED <<dirty_q, refill>>
  /\ UNCHANGED <<bypass_data_q, amo_q, ptw_lookup_way_q, nc_q, mem>>

FlushW(axi) ==
  /\ state_q = "FLUSH_W"
  /\ IF axi THEN WriteBackBeat ELSE UNCHANGED <<wb_beat_cnt_q, mem>>
  /\ IF axi /\ wb_last_beat
     THEN /\ dirty_q' = [dirty_q EXCEPT ![flush_q.set][flush_q.way] = FALSE]
          /\ valid_q' = [valid_q EXCEPT ![flush_q.set][flush_q.way] = FALSE]
          /\ AdvanceWalk
     ELSE pulse_q' = {} /\ UNCHANGED <<state_q, lines, flush_q>>
  /\ UNCHANGED <<miss_q, beat_cnt_q, evict_tag_q, bypass_data_q, amo_q, ptw_lookup_way_q, nc_q>>

\* Uncached data phases; ok is an OKAY response.
NcData(axi, ok) ==
  /\ state_q \in {"NC_R", "NC_W", "NC_B"}
  /\ IF ~axi THEN pulse_q' = {} /\ UNCHANGED <<state_q, nc_q, mem>>
     ELSE \/ /\ state_q = "NC_R"
             /\ nc_q' = [nc_q EXCEPT !.rsp = mem[nc_q.addr.tag][nc_q.addr.set][nc_q.addr.beat]]
             /\ pulse_q' = IF ok THEN {"nc_rsp"} ELSE {"nc_err"}
             /\ state_q' = "IDLE"
             /\ UNCHANGED mem
          \/ /\ state_q = "NC_W"
             /\ mem' = [mem EXCEPT ![nc_q.addr.tag][nc_q.addr.set][nc_q.addr.beat] = nc_q.data]
             /\ pulse_q' = {}
             /\ state_q' = "NC_B"
             /\ UNCHANGED nc_q
          \/ /\ state_q = "NC_B"
             /\ pulse_q' = IF ok THEN {"nc_b"} ELSE {"nc_err"}
             /\ state_q' = "IDLE"
             /\ UNCHANGED <<nc_q, mem>>
  /\ UNCHANGED <<lines, refill, bypass_data_q, amo_q, walk>>

\* Which port owns the responses of a multi-cycle request.
Owner(r, flush_i) == in_flight_is_ptw_q' = IF state_q = "IDLE" /\ r.valid /\ ~flushing(flush_i)
                                           THEN r.ptw ELSE in_flight_is_ptw_q

\* One clock edge of the cache.
DCacheEdge(r, early, flush_i, rsrv_clear, axi, ok, victim) ==
  /\ \/ IdleFlush(flush_i) \/ IdleNc(r, flush_i) \/ IdlePtwHit(r, flush_i)
     \/ IdleSc(r, flush_i, victim) \/ IdleLr(r, flush_i, victim)
     \/ IdleAmo(r, flush_i, victim) \/ IdlePlain(r, flush_i, victim)
     \/ PtwLookup \/ AddressPhase(axi) \/ RefillR(axi) \/ AmoRmw \/ WbW(axi)
     \/ FlushScan \/ FlushW(axi) \/ NcData(axi, ok)
  /\ Rams(r, early, flush_i, axi)
  /\ Reservation(r, rsrv_clear)
  /\ Owner(r, flush_i)

-----------------------------------------------------------------------------
(* The response. *)

\* A mutant of rsp_valid: the end of an uncached write is not reported.
RspWithoutB(r) == \/ hit(r) /\ ~r.ptw
                  \/ state_q = "PTW_LOOKUP"
                  \/ pulse_q \cap {"bypass", "store_done", "amo_done", "nc_rsp"} # {}
rsp_valid(r) == \/ hit(r) /\ ~r.ptw
                \/ state_q = "PTW_LOOKUP"
                \/ pulse_q \cap {"bypass", "store_done", "amo_done", "nc_rsp", "nc_b"} # {}
rsp_rdata(r) == IF "amo_done" \in pulse_q THEN amo_q.old
                ELSE IF "nc_rsp" \in pulse_q THEN nc_q.rsp
                ELSE IF "bypass" \in pulse_q THEN bypass_data_q
                ELSE IF state_q = "PTW_LOOKUP" THEN ram_rdata[ptw_lookup_way_q]
                ELSE hit_beat(r)
sc_success(r, flush_i) == "sc_success" \in pulse_q \/ sc_hit_write_fire(r, flush_i)

rsp_to_ptw(r) == IF state_q = "PTW_LOOKUP" THEN TRUE
                 ELSE IF state_q # "IDLE" THEN in_flight_is_ptw_q
                 ELSE IF pulse_q \cap {"nc_rsp", "nc_b"} # {} THEN nc_q.ptw ELSE r.ptw

stall_o == state_q # "IDLE"
amo_nc_fault(r, flush_i) == /\ state_q = "IDLE" /\ r.valid /\ is_uncacheable(r)
                            /\ ~flushing(flush_i) /\ r.op # "PLAIN"
bus_err_fault == "nc_err" \in pulse_q
=============================================================================
