----------------------------- MODULE FetchQueue -----------------------------
(***************************************************************************)
(* What the fetch buffer promises: a bounded first-in first-out queue of   *)
(* fetched words that a redirect empties in one step.                      *)
(***************************************************************************)
EXTENDS Naturals, Sequences

CONSTANTS Capacity,  \* how many words the queue holds
          Word       \* a fetched word together with its PC

VARIABLE queue

\* Nothing is buffered out of reset.
Init == queue = <<>>

\* A redirect drops every buffered word.
Drop == queue' = <<>>

\* The producer adds a word behind all the others.
Enqueue(w) == /\ Len(queue) < Capacity
              /\ queue' = Append(queue, w)

\* The consumer takes the oldest word.
Dequeue == /\ queue # <<>>
           /\ queue' = Tail(queue)

\* Both in one clock cycle.
Exchange(w) == /\ queue # <<>>
               /\ Len(queue) < Capacity
               /\ queue' = Append(Tail(queue), w)

Next == \/ Drop
        \/ Dequeue
        \/ \E w \in Word : Enqueue(w) \/ Exchange(w)

Spec == Init /\ [][Next]_queue
=============================================================================
