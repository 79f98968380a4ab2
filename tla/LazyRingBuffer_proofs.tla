----------------------- MODULE LazyRingBuffer_proofs -----------------------
(***************************************************************************)
(* For every capacity, every set of values and every number of items:      *)
(* the ring is free of data races on its slots, a claimed slot keeps its   *)
(* value, and the ring implements BoundedFifo.                             *)
(*                                                                         *)
(* The argument is the usual one for a pair of cursors.  Each endpoint     *)
(* decides on a stale copy of the other's cursor, but cursors only grow,   *)
(* so a stale copy errs on the safe side: the producer believes the ring   *)
(* fuller, and the consumer believes it emptier, than it is.  Two cursors  *)
(* less than CAPACITY apart name different slots (ModApart).               *)
(***************************************************************************)
EXTENDS LazyRingBuffer, Integers, SequenceTheorems, TLAPS

\* Where the cursors are in relation to what each endpoint has seen of them.
CursorInv ==
    /\ seenTail <= tail
    /\ tail <= seenHead
    /\ seenHead <= head
    /\ head - seenTail <= CAPACITY
    /\ ProducerHolds => head - seenTail < CAPACITY
    /\ ConsumerHolds => tail < seenHead

\* Every published slot holds a whole value, and so does the slot that is
\* about to be published; what the consumer read is what the slot holds.
ContentInv ==
    /\ \A c \in Nat : tail <= c /\ c < head => buffer[Slot(c)] \in Values
    /\ producer = "written" => buffer[Slot(head)] \in Values
    /\ consumer = "read" => got = buffer[Slot(tail)]

RingInv == TypeOK /\ CursorInv /\ ContentInv

-----------------------------------------------------------------------------
\* A cursor names one of the slots (`cursor & MASK').
LEMMA SlotInRange == \A c \in Nat : Slot(c) \in Slots
  BY CapacityAssumption DEF Slot, Slots

\* Two cursors less than CAPACITY apart name different slots.
LEMMA ModApart == ASSUME NEW a \in Nat, NEW b \in Nat, a < b, b - a < CAPACITY
                  PROVE  Slot(a) # Slot(b)
  <1> DEFINE C == CAPACITY
             x == a \div C
             y == b \div C
  <1>1. C \in Nat \ {0}
    BY CapacityAssumption
  <1>2. x \in Int /\ y \in Int
    BY <1>1
  <1>3. a = C * x + (a % C) /\ b = C * y + (b % C)
    BY <1>1
  <1> SUFFICES ASSUME a % C = b % C PROVE FALSE
    BY DEF Slot
  <1> HIDE DEF C, x, y
  <1>4. b - a = C * (y - x)
    BY <1>1, <1>2, <1>3
  <1>5. CASE y - x <= 0
    <2>1. C * (y - x) <= 0
      BY <1>1, <1>2, <1>5
    <2> QED
      BY <2>1, <1>1, <1>2, <1>4
  <1>6. CASE y - x >= 1
    <2>1. C * (y - x) >= C
      BY <1>1, <1>2, <1>6
    <2> QED
      BY <2>1, <1>1, <1>2, <1>4 DEF C
  <1> QED
    BY <1>2, <1>5, <1>6

\* Writing the slot at head leaves every published slot alone.
LEMMA HeadSlotIsFree ==
    ASSUME TypeOK, CursorInv, ProducerHolds
    PROVE  \A c \in Nat : tail <= c /\ c < head => Slot(c) # Slot(head)
  <1> SUFFICES ASSUME NEW c \in Nat, tail <= c, c < head
               PROVE  Slot(c) # Slot(head)
    OBVIOUS
  <1>1. head - c < CAPACITY
    BY CapacityAssumption DEF TypeOK, CursorInv
  <1> QED
    BY <1>1, ModApart DEF TypeOK

-----------------------------------------------------------------------------
\* The invariant holds of a newly constructed ring.
LEMMA RingInvInit == Init => RingInv
  <1> SUFFICES ASSUME Init PROVE RingInv
    OBVIOUS
  <1>1. TypeOK
    <2>1. tail <= head /\ head - tail <= CAPACITY
      BY CapacityAssumption DEF Init
    <2>2. buffer \in [Slots -> Values \cup {NoValue, Torn}]
      BY DEF Init, Slots
    <2> QED
      BY <2>1, <2>2 DEF Init, TypeOK
  <1>2. CursorInv
    BY CapacityAssumption DEF Init, CursorInv, ProducerHolds, ConsumerHolds
  <1>3. ContentInv
    BY DEF Init, ContentInv
  <1> QED
    BY <1>1, <1>2, <1>3 DEF RingInv

\* Every step of either thread keeps the invariant.
LEMMA RingInvStep == RingInv /\ [Next]_vars => RingInv'
  <1> SUFFICES ASSUME RingInv, [Next]_vars PROVE RingInv'
    OBVIOUS
  <1> USE CapacityAssumption DEF RingInv
  <1>1. CASE ProducerChecksStop
    BY <1>1 DEF ProducerChecksStop, consumerUnchanged, TypeOK, CursorInv,
                ContentInv, ProducerHolds, ConsumerHolds
  <1>2. CASE TryGetHeadRef
    <2>1. PICK t \in seenTail .. tail :
             /\ seenTail' = t
             /\ producer' = IF full(head, t) THEN "check" ELSE "claimed"
      BY <1>2 DEF TryGetHeadRef
    <2>2. TypeOK' /\ ContentInv'
      BY <1>2, <2>1 DEF TryGetHeadRef, consumerUnchanged, TypeOK, ContentInv
    <2>3. CursorInv'
      BY <1>2, <2>1 DEF TryGetHeadRef, consumerUnchanged, TypeOK, CursorInv,
                        ProducerHolds, ConsumerHolds, full
    <2> QED
      BY <2>2, <2>3
  <1>3. CASE BeginWrite
    <2>1. TypeOK' /\ CursorInv'
      BY <1>3, SlotInRange
      DEF BeginWrite, consumerUnchanged, TypeOK, CursorInv, ProducerHolds,
          ConsumerHolds
    <2>2. ContentInv'
      BY <1>3, SlotInRange, HeadSlotIsFree
      DEF BeginWrite, consumerUnchanged, TypeOK, CursorInv, ContentInv,
          ProducerHolds, ConsumerHolds
    <2> QED
      BY <2>1, <2>2
  <1>4. CASE EndWrite
    <2>1. PICK v \in Values : buffer' = [buffer EXCEPT ![Slot(head)] = v]
      BY <1>4 DEF EndWrite
    <2>2. TypeOK' /\ CursorInv'
      BY <1>4, <2>1, SlotInRange
      DEF EndWrite, consumerUnchanged, TypeOK, CursorInv, ProducerHolds,
          ConsumerHolds
    <2>3. ContentInv'
      BY <1>4, <2>1, SlotInRange, HeadSlotIsFree
      DEF EndWrite, consumerUnchanged, TypeOK, CursorInv, ContentInv,
          ProducerHolds, ConsumerHolds
    <2> QED
      BY <2>2, <2>3
  <1>5. CASE publish
    BY <1>5 DEF publish, consumerUnchanged, TypeOK, CursorInv, ContentInv,
                ProducerHolds, ConsumerHolds
  <1>6. CASE ConsumerChecksStop
    BY <1>6 DEF ConsumerChecksStop, producerUnchanged, TypeOK, CursorInv,
                ContentInv, ProducerHolds, ConsumerHolds
  <1>7. CASE TryGetTailRef
    BY <1>7 DEF TryGetTailRef, producerUnchanged, TypeOK, CursorInv,
                ContentInv, ProducerHolds, ConsumerHolds, empty
  <1>8. CASE ReadSlot
    BY <1>8, SlotInRange
    DEF ReadSlot, producerUnchanged, TypeOK, CursorInv, ContentInv,
        ProducerHolds, ConsumerHolds
  <1>9. CASE consume
    BY <1>9 DEF consume, producerUnchanged, TypeOK, CursorInv, ContentInv,
                ProducerHolds, ConsumerHolds
  <1>10. CASE RequestStop
    BY <1>10 DEF RequestStop, producerUnchanged, consumerUnchanged, TypeOK,
                 CursorInv, ContentInv, ProducerHolds, ConsumerHolds
  <1>11. CASE Joined \/ UNCHANGED vars
    BY <1>11 DEF Joined, vars, TypeOK, CursorInv, ContentInv, ProducerHolds,
                 ConsumerHolds
  <1> QED
    BY <1>1, <1>2, <1>3, <1>4, <1>5, <1>6, <1>7, <1>8, <1>9, <1>10, <1>11
    DEF Next, Producer, Consumer

\* The invariant holds throughout every run of the two threads.
THEOREM RingInvariant == Spec => []RingInv
  BY RingInvInit, RingInvStep, PTL DEF Spec

\* Type correctness of the ring's state.
THEOREM RingTypeCorrect == Spec => []TypeOK
  BY RingInvariant, PTL DEF RingInv

-----------------------------------------------------------------------------
\* The endpoints never hold the same slot (NoDataRace), for every capacity.
THEOREM RingNoDataRace == Spec => []NoDataRace
  <1>1. RingInv => NoDataRace
    BY HeadSlotIsFree DEF RingInv, TypeOK, CursorInv, ProducerHolds,
                          ConsumerHolds, NoDataRace
  <1> QED
    BY <1>1, RingInvariant, PTL

\* A slot the consumer holds keeps its published value (ClaimStaysValid).
THEOREM RingClaimStaysValid == Spec => ClaimStaysValid
  <1>1. RingInv /\ [Next]_vars =>
          [ConsumerHolds => /\ buffer[Slot(tail)] \in Values
                            /\ buffer'[Slot(tail)] = buffer[Slot(tail)]]_vars
    <2> SUFFICES ASSUME RingInv, Next, ConsumerHolds
                 PROVE  /\ buffer[Slot(tail)] \in Values
                        /\ buffer'[Slot(tail)] = buffer[Slot(tail)]
      OBVIOUS
    <2>1. tail \in Nat /\ tail < head
      BY DEF RingInv, TypeOK, CursorInv
    <2>2. buffer[Slot(tail)] \in Values
      BY <2>1 DEF RingInv, ContentInv
    <2>3. CASE BeginWrite \/ EndWrite
      <3>1. Slot(tail) # Slot(head) /\ Slot(tail) \in Slots
        BY <2>1, <2>3, HeadSlotIsFree, SlotInRange
        DEF RingInv, BeginWrite, EndWrite, ProducerHolds, CursorInv, TypeOK
      <3> QED
        BY <2>2, <2>3, <3>1 DEF BeginWrite, EndWrite, RingInv, TypeOK
    <2>4. CASE buffer' = buffer
      BY <2>2, <2>4
    <2>5. BeginWrite \/ EndWrite \/ buffer' = buffer
      BY DEF Next, Producer, Consumer, ProducerChecksStop, TryGetHeadRef,
             publish, ConsumerChecksStop, TryGetTailRef, ReadSlot, consume,
             RequestStop, Joined, producerUnchanged, vars
    <2> QED
      BY <2>3, <2>4, <2>5
  <1> QED
    BY <1>1, RingInvariant, PTL DEF Spec, ClaimStaysValid
-----------------------------------------------------------------------------
\* The published part of the ring, as BoundedFifo's queue.
Published == [i \in 1 .. (head - tail) |-> buffer[Slot(tail + i - 1)]]

\* The published part is a sequence of whole values.
PublishedOK ==
    /\ Published \in Seq(Values)
    /\ Len(Published) = head - tail
    /\ \A i \in 1 .. (head - tail) :
           Published[i] = buffer[Slot(tail + i - 1)]

\* PublishedOK follows from the invariant.
LEMMA PublishedIsSeq == RingInv => PublishedOK
  <1> SUFFICES ASSUME RingInv PROVE PublishedOK
    OBVIOUS
  <1>1. head - tail \in Nat
    BY DEF RingInv, TypeOK, CursorInv
  <1>2. \A i \in 1 .. (head - tail) : buffer[Slot(tail + i - 1)] \in Values
    <2> SUFFICES ASSUME NEW i \in 1 .. (head - tail)
                 PROVE  buffer[Slot(tail + i - 1)] \in Values
      OBVIOUS
    <2> DEFINE c == tail + i - 1
    <2>1. c \in Nat /\ tail <= c /\ c < head
      BY DEF RingInv, TypeOK, CursorInv
    <2> HIDE DEF c
    <2>2. buffer[Slot(c)] \in Values
      BY <2>1 DEF RingInv, ContentInv
    <2> QED
      BY <2>2 DEF c
  <1>3. Published \in Seq(Values) /\ Len(Published) = head - tail
    <2> DEFINE n == head - tail
               e(i) == buffer[Slot(tail + i - 1)]
    <2>1. \A i \in 1 .. n : e(i) \in Values
      BY <1>2
    <2>2. Published = [i \in 1 .. n |-> e(i)]
      BY DEF Published
    <2>3. n \in Nat
      BY <1>1
    <2> HIDE DEF n, e
    <2>4. [i \in 1 .. n |-> e(i)] \in Seq(Values)
      BY <2>1, <2>3
    <2>5. Len([i \in 1 .. n |-> e(i)]) = n
      BY <2>3, <2>4
    <2> QED
      BY <2>2, <2>4, <2>5 DEF n
  <1> QED
    BY <1>3 DEF Published, PublishedOK

\* The same in the next state.
LEMMA PublishedIsSeqNext == RingInv' => PublishedOK'
  BY PublishedIsSeq, PTL

\* publish() appends the value in the slot at head to the queue.
LEMMA PublishIsPut ==
    ASSUME RingInv, RingInv', publish
    PROVE  \E v \in Values : Fifo!Put(v)
  <1> DEFINE v == buffer[Slot(head)]
  <1>1. v \in Values
    BY DEF publish, RingInv, ContentInv
  <1>2. /\ head' = head + 1 /\ tail' = tail /\ buffer' = buffer
        /\ delivered' = delivered
    BY DEF publish, consumerUnchanged
  <1>3. /\ head \in Nat /\ tail \in Nat /\ tail <= head
        /\ head - tail < CAPACITY
    BY CapacityAssumption
    DEF publish, RingInv, TypeOK, CursorInv, ProducerHolds
  <1>4. Published' \in Seq(Values) /\ Len(Published') = head' - tail'
    BY PublishedIsSeqNext DEF PublishedOK
  <1>5. \A i \in 1 .. (head' - tail') :
           Published'[i] = buffer[Slot(tail + i - 1)]
    BY <1>2 DEF Published, Slot
  <1>6. Published' = Append(Published, v)
    <2> DEFINE w == Append(Published, v)
    <2>1. /\ w \in Seq(Values) /\ Len(w) = head - tail + 1
          /\ \A i \in 1 .. (head - tail) : w[i] = Published[i]
          /\ w[head - tail + 1] = v
      BY <1>1, <1>3, PublishedIsSeq, AppendProperties DEF PublishedOK
    <2>2. \A i \in 1 .. (head - tail) : w[i] = buffer[Slot(tail + i - 1)]
      BY <2>1, PublishedIsSeq DEF PublishedOK
    <2>3. w[head - tail + 1] = buffer[Slot(tail + (head - tail + 1) - 1)]
      BY <2>1, <1>3
    <2> HIDE DEF w
    <2>4. Len(Published') = Len(w)
      BY <1>2, <1>3, <1>4, <2>1
    <2>5. \A i \in 1 .. Len(w) : Published'[i] = w[i]
      <3> TAKE i \in 1 .. Len(w)
      <3>1. /\ i \in 1 .. (head' - tail')
            /\ i \in 1 .. (head - tail) \/ i = head - tail + 1
        BY <1>2, <1>3, <2>1
      <3>2. Published'[i] = buffer[Slot(tail + i - 1)]
        BY <3>1, <1>5
      <3>3. CASE i \in 1 .. (head - tail)
        BY <3>2, <3>3, <2>2
      <3>4. CASE i = head - tail + 1
        BY <3>2, <3>4, <2>3
      <3> QED
        BY <3>1, <3>3, <3>4
    <2>6. Published' = w
      BY <1>4, <2>1, <2>4, <2>5, SeqEqual
    <2> QED
      BY <2>6 DEF w
  <1>7. Len(Published) < CAPACITY
    BY <1>3, PublishedIsSeq DEF PublishedOK
  <1> HIDE DEF v
  <1> QED
    BY <1>1, <1>2, <1>6, <1>7 DEF Fifo!Put, Published

\* consume() takes the oldest value of the queue.
LEMMA ConsumeIsGet ==
    ASSUME RingInv, RingInv', consume
    PROVE  Fifo!Get
  <1>1. /\ tail' = tail + 1 /\ head' = head /\ buffer' = buffer
        /\ delivered' = got
    BY DEF consume, producerUnchanged
  <1>2. head \in Nat /\ tail \in Nat /\ tail < head
    BY DEF consume, RingInv, TypeOK, CursorInv, ConsumerHolds
  <1>3. got = buffer[Slot(tail)]
    BY DEF consume, RingInv, ContentInv
  <1>4. Published' \in Seq(Values) /\ Len(Published') = head' - tail'
    BY PublishedIsSeqNext DEF PublishedOK
  <1>5. \A i \in 1 .. (head' - tail') :
           Published'[i] = buffer[Slot((tail + 1) + i - 1)]
    BY <1>1 DEF Published, Slot
  <1>6. Published # <<>>
    BY <1>2, PublishedIsSeq, EmptySeq DEF PublishedOK
  <1>7. Head(Published) = buffer[Slot(tail)]
    <2>1. Head(Published) = Published[1]
      BY <1>6, PublishedIsSeq DEF PublishedOK
    <2>2. Published[1] = buffer[Slot(tail + 1 - 1)]
      BY <1>2, PublishedIsSeq DEF PublishedOK
    <2>3. tail + 1 - 1 = tail
      BY <1>2
    <2> QED
      BY <2>1, <2>2, <2>3
  <1>8. Published' = Tail(Published)
    <2> DEFINE w == Tail(Published)
    <2>1. /\ w \in Seq(Values) /\ Len(w) = head - tail - 1
          /\ \A i \in 1 .. Len(w) : w[i] = Published[i + 1]
      BY <1>2, <1>6, PublishedIsSeq, HeadTailProperties DEF PublishedOK
    <2>2. \A i \in 1 .. Len(w) :
             w[i] = buffer[Slot(tail + (i + 1) - 1)]
      <3> TAKE i \in 1 .. Len(w)
      <3>1. i + 1 \in 1 .. (head - tail)
        BY <1>2, <2>1
      <3>2. Published[i + 1] = buffer[Slot(tail + (i + 1) - 1)]
        BY <3>1, PublishedIsSeq DEF PublishedOK
      <3> QED
        BY <2>1, <3>2
    <2> HIDE DEF w
    <2>3. Len(Published') = Len(w)
      BY <1>1, <1>2, <1>4, <2>1
    <2>4. \A i \in 1 .. Len(w) : Published'[i] = w[i]
      <3> TAKE i \in 1 .. Len(w)
      <3>1. tail + (i + 1) - 1 = (tail + 1) + i - 1
        BY <1>2, <2>1
      <3>2. i \in 1 .. (head' - tail')
        BY <1>1, <1>2, <2>1
      <3>3. Published'[i] = buffer[Slot((tail + 1) + i - 1)]
        BY <3>2, <1>5
      <3> QED
        BY <2>2, <3>1, <3>3
    <2>5. Published' = w
      BY <1>4, <2>1, <2>3, <2>4, SeqEqual
    <2> QED
      BY <2>5 DEF w
  <1> QED
    BY <1>1, <1>3, <1>6, <1>7, <1>8 DEF Fifo!Get, Published

\* The ring implements the bounded FIFO (ImplementsFifo): publish() and
\* consume() are its two operations and every other step is invisible.
THEOREM RingImplementsFifo == Spec => ImplementsFifo
  <1>1. Init => Fifo!FifoInit
    <2> SUFFICES ASSUME Init PROVE Published = <<>> /\ delivered = NoValue
      BY DEF Fifo!FifoInit, Published
    <2>1. RingInv
      BY RingInvInit
    <2>2. Len(Published) = 0 /\ Published \in Seq(Values)
      BY <2>1, PublishedIsSeq DEF PublishedOK, Init
    <2> QED
      BY <2>2, EmptySeq DEF Init
  <1>2. RingInv /\ RingInv' /\ [Next]_vars
           => [Fifo!FifoNext]_Fifo!fifoVars
    <2> SUFFICES ASSUME RingInv, RingInv', [Next]_vars
                 PROVE  Fifo!FifoNext \/ UNCHANGED <<Published, delivered>>
      BY DEF Fifo!fifoVars, Published
    <2>1. CASE publish
      BY <2>1, PublishIsPut DEF Fifo!FifoNext
    <2>2. CASE consume
      BY <2>2, ConsumeIsGet DEF Fifo!FifoNext
    <2>3. CASE BeginWrite \/ EndWrite
      <3>1. head' = head /\ tail' = tail /\ delivered' = delivered
        BY <2>3 DEF BeginWrite, EndWrite, consumerUnchanged
      <3>2. \A c \in Nat : tail <= c /\ c < head =>
               buffer'[Slot(c)] = buffer[Slot(c)]
        <4> SUFFICES ASSUME NEW c \in Nat, tail <= c, c < head
                     PROVE  buffer'[Slot(c)] = buffer[Slot(c)]
          OBVIOUS
        <4>1. Slot(c) # Slot(head) /\ Slot(c) \in Slots
          BY <2>3, HeadSlotIsFree, SlotInRange
          DEF RingInv, BeginWrite, EndWrite, ProducerHolds
        <4> QED
          BY <2>3, <4>1 DEF BeginWrite, EndWrite, RingInv, TypeOK
      <3>3. \A i \in 1 .. (head - tail) :
               buffer'[Slot(tail + i - 1)] = buffer[Slot(tail + i - 1)]
        <4> TAKE i \in 1 .. (head - tail)
        <4> DEFINE c == tail + i - 1
        <4>1. c \in Nat /\ tail <= c /\ c < head
          BY DEF RingInv, TypeOK, CursorInv
        <4> HIDE DEF c
        <4>2. buffer'[Slot(c)] = buffer[Slot(c)]
          BY <3>2, <4>1
        <4> QED
          BY <4>2 DEF c
      <3>4. Published' = Published
        BY <3>1, <3>3 DEF Published, Slot
      <3> QED
        BY <3>1, <3>4
    <2>4. CASE UNCHANGED <<head, tail, buffer, delivered>>
      BY <2>4 DEF Published, Slot
    <2>5. \/ publish \/ consume \/ BeginWrite \/ EndWrite
          \/ UNCHANGED <<head, tail, buffer, delivered>>
      BY DEF Next, Producer, Consumer, ProducerChecksStop, TryGetHeadRef,
             ConsumerChecksStop, TryGetTailRef, ReadSlot, RequestStop, Joined,
             producerUnchanged, consumerUnchanged, vars
    <2> QED
      BY <2>1, <2>2, <2>3, <2>4, <2>5
  <1> QED
    BY <1>1, <1>2, RingInvariant, PTL DEF Spec, ImplementsFifo, Fifo!FifoSpec
=============================================================================
