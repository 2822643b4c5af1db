------------------------- MODULE FetchBuffer_proofs -------------------------
(***************************************************************************)
(* The ring buffer, for every depth and every set of words.                *)
(***************************************************************************)
EXTENDS FetchBuffer, TLAPS

\* The pointers, the count and the storage stay in range.
THEOREM TypeCorrect == Spec => []TypeOK
<1> USE DepthAssumption DEF TypeOK, Slot
<1>1. Init => TypeOK
  BY DEF Init
<1>2. TypeOK /\ [Next]_vars => TypeOK'
  <2> SUFFICES ASSUME TypeOK, [Next]_vars PROVE TypeOK'
    OBVIOUS
  <2>1. CASE Flush
    BY <2>1 DEF Flush
  <2>2. ASSUME NEW do_push \in BOOLEAN, NEW do_pop \in BOOLEAN, NEW w \in Word,
               Transfer(do_push, w, do_pop)
        PROVE  TypeOK'
    <3>1. data_q' \in [Slot -> Word \cup {NoWord}]
      BY <2>2 DEF Transfer
    <3>2. head_ptr_q' \in Slot /\ tail_ptr_q' \in Slot
      BY <2>2 DEF Transfer, Advance
    <3>3. count_q' \in 0 .. DEPTH
      BY <2>2 DEF Transfer, CountNext, enq_ready_o, deq_valid_o
    <3> QED
      BY <3>1, <3>2, <3>3
  <2>3. CASE UNCHANGED vars
    BY <2>3 DEF vars
  <2> QED
    BY <2>1, <2>2, <2>3 DEF Next
<1> QED
  BY <1>1, <1>2, PTL DEF Spec

\* Count and pointers agree at every depth, under every coincidence of push,
\* pop and flush.
THEOREM PointersAlwaysAgree == Spec => []PointersAgree
<1> USE DepthAssumption DEF PointersAgree, Occupied, TypeOK, Slot
<1>1. Init => PointersAgree
  BY DEF Init
<1>2. TypeOK /\ PointersAgree /\ [Next]_vars => PointersAgree'
  <2> SUFFICES ASSUME TypeOK, PointersAgree, [Next]_vars PROVE PointersAgree'
    OBVIOUS
  <2>1. CASE Flush
    BY <2>1 DEF Flush
  <2>2. ASSUME NEW do_push \in BOOLEAN, NEW do_pop \in BOOLEAN, NEW w \in Word,
               Transfer(do_push, w, do_pop)
        PROVE  PointersAgree'
    BY <2>2 DEF Transfer, CountNext, Advance, enq_ready_o, deq_valid_o
  <2>3. CASE UNCHANGED vars
    BY <2>3 DEF vars
  <2> QED
    BY <2>1, <2>2, <2>3 DEF Next
<1> QED
  BY <1>1, <1>2, TypeCorrect, PTL DEF Spec

\* Sequences of words are compared by length and element (what the abstract
\* queue's Append and Tail do to a buffer described slot by slot).
LEMMA SameSequence ==
  ASSUME NEW S, NEW s \in Seq(S), NEW t \in Seq(S), Len(s) = Len(t),
         \A i \in 1 .. Len(s) : s[i] = t[i]
  PROVE  s = t
OBVIOUS

\* The slot k places behind slot h, around the ring.
Around(h, k) == IF h + k < DEPTH THEN h + k ELSE h + k - DEPTH

\* Walking less than a full turn from a slot ends on a slot.
LEMMA AroundSlot ==
  ASSUME NEW h \in Slot, NEW k \in 0 .. DEPTH - 1
  PROVE  Around(h, k) \in Slot
BY DepthAssumption DEF Around, Slot

\* What Append does, element by element.
LEMMA AppendElements ==
  ASSUME NEW S, NEW s \in Seq(S), NEW e \in S, NEW n \in Nat, Len(s) = n - 1
  PROVE  /\ Append(s, e) \in Seq(S) /\ Len(Append(s, e)) = n
         /\ \A i \in 1 .. n - 1 : Append(s, e)[i] = s[i]
         /\ Append(s, e)[n] = e
OBVIOUS

\* The buffered words form a sequence as long as the count says.
LEMMA ContentsType ==
  ASSUME TypeOK
  PROVE  /\ Contents \in Seq(Word \cup {NoWord})
         /\ Len(Contents) = count_q
         /\ \A i \in 1 .. count_q : Contents[i] = data_q[Occupied(i - 1)]
<1> USE DepthAssumption DEF TypeOK, Slot
<1>1. \A i \in 1 .. count_q : Occupied(i - 1) \in Slot
  BY DEF Occupied
<1>2. Contents \in [1 .. count_q -> Word \cup {NoWord}]
  BY <1>1 DEF Contents
<1> QED
  BY <1>2 DEF Contents

\* What one cycle with traffic does to the buffered words: the word at the tail
\* joins them, the word at the head leaves them, the others keep their places
\* (the write of data_q[tail_ptr_q] hits no occupied slot).
LEMMA TransferContents ==
  ASSUME TypeOK, PointersAgree, TypeOK',
         NEW do_push \in BOOLEAN, NEW do_pop \in BOOLEAN, NEW w \in Word,
         Transfer(do_push, w, do_pop)
  PROVE  \A i \in 1 .. count_q' :
           Contents'[i] = IF do_push /\ i = count_q' THEN w
                          ELSE IF do_pop THEN Contents[i + 1] ELSE Contents[i]
<1> USE DepthAssumption DEF TypeOK, Slot
<1> SUFFICES ASSUME NEW i \in 1 .. count_q'
             PROVE  Contents'[i] = IF do_push /\ i = count_q' THEN w
                                   ELSE IF do_pop THEN Contents[i + 1] ELSE Contents[i]
  OBVIOUS
<1>1. Contents'[i] = data_q'[Around(head_ptr_q', i - 1)]
  BY DEF Contents, Occupied, Around
<1>2. CASE do_push /\ i = count_q'
  <2>1. Around(head_ptr_q', i - 1) = tail_ptr_q
    <3>1. CASE do_pop
      <4>1. count_q' = count_q /\ head_ptr_q' = Advance(head_ptr_q) /\ count_q # 0
        BY <1>2, <3>1 DEF Transfer, CountNext, deq_valid_o
      <4> QED
        BY <1>2, <4>1 DEF Advance, Occupied, Around, PointersAgree
    <3>2. CASE ~do_pop
      <4>1. count_q' = count_q + 1 /\ head_ptr_q' = head_ptr_q
        BY <1>2, <3>2 DEF Transfer, CountNext
      <4> QED
        BY <1>2, <4>1 DEF Occupied, Around, PointersAgree
    <3> QED
      BY <3>1, <3>2
  <2> QED
    BY <1>1, <1>2, <2>1 DEF Transfer
<1>3. CASE ~(do_push /\ i = count_q')
  <2> DEFINE j == IF do_pop THEN i + 1 ELSE i
  <2>1. j \in 1 .. count_q
    BY <1>3 DEF Transfer, CountNext, enq_ready_o, deq_valid_o
  <2>2. Around(head_ptr_q', i - 1) = Occupied(j - 1)
    BY <2>1 DEF Transfer, Advance, Occupied, Around
  <2>3. Occupied(j - 1) \in Slot /\ (do_push => Occupied(j - 1) # tail_ptr_q)
    BY <2>1 DEF Transfer, Occupied, PointersAgree, enq_ready_o
  <2>4. data_q'[Occupied(j - 1)] = data_q[Occupied(j - 1)]
    BY <2>3 DEF Transfer
  <2>5. Contents[j] = data_q[Occupied(j - 1)]
    BY <2>1, ContentsType
  <2> QED
    BY <1>1, <1>3, <2>2, <2>4, <2>5
<1> QED
  BY <1>2, <1>3

\* Every clock edge is a step of the abstract queue on the buffered words, or
\* leaves them alone.
LEMMA EdgeImplements ==
  ASSUME TypeOK, PointersAgree, TypeOK', [Next]_vars
  PROVE  [Abstract!Next]_Contents
<1> USE DepthAssumption
<1> DEFINE E == Word \cup {NoWord}
<1>0. /\ Contents \in Seq(E) /\ Len(Contents) = count_q
      /\ Contents' \in Seq(E) /\ Len(Contents') = count_q'
  <2>1. /\ Contents' \in Seq(Word \cup {NoWord})
        /\ Len(Contents') = count_q'
    <3> USE DEF TypeOK, Slot
    <3>1. \A i \in 1 .. count_q' : Around(head_ptr_q', i - 1) \in Slot
      <4> TAKE i \in 1 .. count_q'
      <4> head_ptr_q' \in Slot /\ i - 1 \in 0 .. DEPTH - 1
        OBVIOUS
      <4> QED
        BY AroundSlot
    <3>2. Contents' \in [1 .. count_q' -> Word \cup {NoWord}]
      BY <3>1 DEF Contents, Occupied, Around
    <3> QED
      BY <3>2 DEF Contents
  <2> QED
    BY <2>1, ContentsType
<1>c. count_q \in Nat /\ count_q' \in Nat /\ count_q <= DEPTH
  BY DEF TypeOK
<1>1. CASE Flush
  <2>1. Len(Contents') = 0
    BY <1>0, <1>1 DEF Flush
  <2>2. Contents' = <<>>
    BY <1>0, <2>1
  <2> QED
    BY <2>2 DEF Abstract!Next, Abstract!Drop
<1>2. ASSUME NEW do_push \in BOOLEAN, NEW do_pop \in BOOLEAN, NEW w \in Word,
             Transfer(do_push, w, do_pop)
      PROVE  [Abstract!Next]_Contents
  <2> HIDE DEF E
  <2>0. w \in E
    BY DEF E
  <2>t. \A i \in 1 .. count_q' :
           Contents'[i] = IF do_push /\ i = count_q' THEN w
                          ELSE IF do_pop THEN Contents[i + 1] ELSE Contents[i]
    BY <1>2, TransferContents
  <2>g. /\ do_push => count_q # DEPTH
        /\ do_pop => count_q # 0
        /\ count_q' = CountNext(do_push, do_pop)
    BY <1>2 DEF Transfer, enq_ready_o, deq_valid_o
  <2>l. do_push => Len(Contents) < DEPTH
    BY <1>0, <1>c, <2>g
  <2>p. do_pop => Contents # <<>>
    BY <1>0, <2>g
  <2>1. CASE do_push /\ ~do_pop
    <3>1. count_q' = count_q + 1
      BY <2>1, <2>g DEF CountNext
    <3>2. Append(Contents, w) \in Seq(E) /\ Len(Append(Contents, w)) = count_q'
      BY <1>0, <2>0, <3>1
    <3>3. \A i \in 1 .. count_q' : Contents'[i] = Append(Contents, w)[i]
      BY <1>0, <1>c, <2>0, <2>1, <2>t, <3>1
    <3>4. Contents' = Append(Contents, w)
      BY <1>0, <3>2, <3>3, SameSequence
    <3> QED
      BY <2>1, <2>l, <3>4 DEF Abstract!Next, Abstract!Enqueue
  <2>2. CASE do_pop /\ ~do_push
    <3>1. count_q' = count_q - 1
      BY <2>2, <2>g DEF CountNext
    <3>2. Tail(Contents) \in Seq(E) /\ Len(Tail(Contents)) = count_q'
      BY <1>0, <2>p, <2>2, <3>1
    <3>3. \A i \in 1 .. count_q' : Contents'[i] = Tail(Contents)[i]
      BY <1>0, <1>c, <2>p, <2>2, <2>t, <3>1
    <3>4. Contents' = Tail(Contents)
      BY <1>0, <3>2, <3>3, SameSequence
    <3> QED
      BY <2>2, <2>p, <3>4 DEF Abstract!Next, Abstract!Dequeue
  <2>3. CASE do_push /\ do_pop
    <3>1. count_q' = count_q
      BY <2>3, <2>g DEF CountNext
    <3>2. Tail(Contents) \in Seq(E) /\ Len(Tail(Contents)) = count_q - 1
      BY <1>0, <2>p, <2>3
    <3>3. \A i \in 1 .. count_q - 1 : Tail(Contents)[i] = Contents[i + 1]
      BY <1>0, <1>c, <2>p, <2>3
    <3> DEFINE T == Tail(Contents)
    <3>t. /\ T \in Seq(E) /\ Len(T) = count_q - 1
          /\ \A i \in 1 .. count_q - 1 : T[i] = Contents[i + 1]
      BY <3>2, <3>3
    <3> HIDE DEF T
    <3>4. /\ Append(T, w) \in Seq(E) /\ Len(Append(T, w)) = count_q'
          /\ \A i \in 1 .. count_q - 1 : Append(T, w)[i] = T[i]
          /\ Append(T, w)[count_q] = w
      BY <1>c, <2>0, <3>1, <3>t, AppendElements
    <3>5. \A i \in 1 .. count_q' : Contents'[i] = Append(T, w)[i]
      <4> TAKE i \in 1 .. count_q'
      <4>1. CASE i = count_q'
        BY <2>3, <2>t, <3>1, <3>4, <4>1
      <4>2. CASE i # count_q'
        <5>1. i \in 1 .. count_q - 1
          BY <1>c, <3>1, <4>2
        <5> QED
          BY <2>3, <2>t, <3>4, <3>t, <4>2, <5>1
      <4> QED
        BY <4>1, <4>2
    <3>6. Contents' = Append(T, w)
      BY <1>0, <3>4, <3>5, SameSequence
    <3> QED
      BY <2>3, <2>l, <2>p, <3>6 DEF Abstract!Next, Abstract!Exchange, T
  <2>4. CASE ~do_push /\ ~do_pop
    <3>1. count_q' = count_q
      BY <2>4, <2>g DEF CountNext
    <3>2. \A i \in 1 .. count_q' : Contents'[i] = Contents[i]
      BY <2>4, <2>t
    <3>3. Contents' = Contents
      BY <1>0, <3>1, <3>2, SameSequence
    <3> QED
      BY <3>3
  <2> QED
    BY <2>1, <2>2, <2>3, <2>4
<1>3. CASE UNCHANGED vars
  BY <1>3 DEF vars, Contents, Occupied
<1> QED
  BY <1>1, <1>2, <1>3 DEF Next

\* The ring buffer implements the bounded first-in first-out queue with drop,
\* at every depth: no coincidence of push, pop and flush in the sequential
\* block of kronos_fetch_buffer loses, duplicates or reorders a word.
THEOREM BufferImplementsQueue == Spec => ImplementsQueue
<1>1. Init => Abstract!Init
  BY DEF Init, Abstract!Init, Contents
<1>2. TypeOK /\ PointersAgree /\ TypeOK' /\ [Next]_vars => [Abstract!Next]_Contents
  BY EdgeImplements
<1> QED
  BY <1>1, <1>2, TypeCorrect, PointersAlwaysAgree, PTL
     DEF Spec, ImplementsQueue, Abstract!Spec
=============================================================================
