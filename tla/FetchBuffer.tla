----------------------------- MODULE FetchBuffer ----------------------------
(***************************************************************************)
(* kronos_fetch_buffer: the ring buffer between icache S2 and predecode.   *)
(* One step is one rising clock edge; the inputs of the cycle are chosen   *)
(* freely.  An entry is the pair (pc, data), which the code writes and     *)
(* reads together, so it is one member of Word.                            *)
(***************************************************************************)
EXTENDS Naturals, Sequences

CONSTANTS DEPTH, Word, NoWord

ASSUME DepthAssumption == DEPTH \in Nat \ {0}
ASSUME NoWordAssumption == NoWord \notin Word

VARIABLES data_q,      \* entry storage (data_q and pc_q)
          head_ptr_q,  \* oldest entry
          tail_ptr_q,  \* next free entry
          count_q      \* number of entries

vars == <<data_q, head_ptr_q, tail_ptr_q, count_q>>

Slot == 0 .. DEPTH - 1

Init == /\ data_q = [i \in Slot |-> NoWord]
        /\ head_ptr_q = 0
        /\ tail_ptr_q = 0
        /\ count_q = 0

enq_ready_o == count_q # DEPTH
deq_valid_o == count_q # 0

\* The word presented to predecode while deq_valid_o.
deq_o == data_q[head_ptr_q]

\* Pointers wrap at DEPTH - 1 by comparison, not by truncation.
Advance(p) == IF p = DEPTH - 1 THEN 0 ELSE p + 1

\* flush_i takes priority over traffic: the pointers and the count clear,
\* the storage keeps its stale words.
Flush == /\ head_ptr_q' = 0
         /\ tail_ptr_q' = 0
         /\ count_q' = 0
         /\ UNCHANGED data_q

\* A mutant of CountNext: a pop that coincides with a push is forgotten.
CountNextNoExchange(do_push, do_pop) ==
  IF do_push THEN count_q + 1 ELSE IF do_pop THEN count_q - 1 ELSE count_q

\* The count has its own case on the two handshakes.
CountNext(do_push, do_pop) == IF do_push = do_pop THEN count_q
                              ELSE IF do_push THEN count_q + 1 ELSE count_q - 1

\* An edge with traffic: do_push and do_pop are the handshakes of the cycle.
Transfer(do_push, w, do_pop) ==
  /\ do_push => enq_ready_o
  /\ do_pop => deq_valid_o
  /\ data_q' = IF do_push THEN [data_q EXCEPT ![tail_ptr_q] = w] ELSE data_q
  /\ tail_ptr_q' = IF do_push THEN Advance(tail_ptr_q) ELSE tail_ptr_q
  /\ head_ptr_q' = IF do_pop THEN Advance(head_ptr_q) ELSE head_ptr_q
  /\ count_q' = CountNext(do_push, do_pop)

Next == \/ Flush
        \/ \E do_push, do_pop \in BOOLEAN, w \in Word : Transfer(do_push, w, do_pop)

Spec == Init /\ [][Next]_vars

-----------------------------------------------------------------------------
(* Every register holds a value of its width. *)
TypeOK == /\ data_q \in [Slot -> Word \cup {NoWord}]
          /\ head_ptr_q \in Slot
          /\ tail_ptr_q \in Slot
          /\ count_q \in 0 .. DEPTH

\* The slot i places behind the head, around the ring.
Occupied(i) == IF head_ptr_q + i < DEPTH THEN head_ptr_q + i
                                         ELSE head_ptr_q + i - DEPTH

\* The buffered words, oldest first.
Contents == [i \in 1 .. count_q |-> data_q[Occupied(i - 1)]]

Abstract == INSTANCE FetchQueue WITH Capacity <- DEPTH, queue <- Contents

\* The ring buffer implements the bounded FIFO with drop: no word is lost,
\* duplicated, reordered or read stale, whatever push, pop and flush coincide
\* (the sequential block of kronos_fetch_buffer).
ImplementsQueue == Abstract!Spec

\* The count register and the two pointers never disagree about where the
\* occupied region ends (count_q is updated by a case of its own, apart from
\* the pointers).
PointersAgree == tail_ptr_q = Occupied(count_q)
=============================================================================
