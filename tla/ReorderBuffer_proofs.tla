------------------------ MODULE ReorderBuffer_proofs ------------------------
(***************************************************************************)
(* Type correctness, slot exclusion and the order of delivery of the       *)
(* reorder buffer, for every capacity, any number of writers and any       *)
(* number of duplicate packets.                                            *)
(*                                                                         *)
(* SlotExclusion is not inductive as it stands: the reader releases its    *)
(* slot after it has moved on, so the invariant also has to say that this  *)
(* slot is still Ready, that Ready slots hold whole packets, and that a    *)
(* writer about to mark its slot Ready has filled it.                      *)
(*                                                                         *)
(* OrderInv adds what keeps the order as long as no packet comes twice:    *)
(* a slot holds a packet of its own from the reader's window               *)
(* (SlotsInWindow), a writer's packet is in nobody else's hands and past   *)
(* the check is in the window too (WritersInWindow), and the reader has    *)
(* had exactly the packets below its index (ReaderInOrder).                *)
(***************************************************************************)
EXTENDS ReorderBuffer, TLAPS

\* Inside a call a writer has a packet in hand.
WritersHavePackets ==
    \A w \in Writers : writer[w] # "idle" => index[w] \in Packets

\* A slot marked Ready, or about to be, holds a whole packet.
ReadyIsWhole ==
    /\ \A s \in Slots : status[s] = "Ready" => data[s] \in Packets
    /\ \A w \in Writers : writer[w] = "copied" => data[Slot(index[w])] \in Packets

\* A slot some writer holds is Locked, and held by it alone.
LockedIsOwned ==
    /\ \A w \in Writers : Holding(w) => status[Slot(index[w])] = "Locked"
    /\ \A w, x \in Writers : w # x /\ Holding(w) /\ Holding(x)
           => Slot(index[w]) # Slot(index[x])

\* The reader's slot is Ready until the reader itself releases it.
ReaderOwnsReady ==
    /\ readerIndex >= FIRST
    /\ Reading => status[Slot(readerIndex)] = "Ready"
    /\ reader = "advanced" => /\ readerIndex > FIRST
                              /\ status[Slot(readerIndex - 1)] = "Ready"
    /\ reader \in {"copied", "advanced"} => item \in Packets

ExclusionInv == /\ TypeOK /\ WritersHavePackets /\ ReadyIsWhole
                /\ LockedIsOwned /\ ReaderOwnsReady

-----------------------------------------------------------------------------
\* A sequence number names one of the slots (`index & MASK').
LEMMA SlotInSlots == \A n \in Nat : Slot(n) \in Slots
  BY CapacityAssumption DEF Slot, Slots

\* Packets are natural numbers, distinct from the contents of unwritten slots.
LEMMA PacketsAreNat == /\ Packets \subseteq Nat
                       /\ NoData \notin Packets /\ Torn \notin Packets
  BY IndexAssumption, ContentsAssumption DEF Packets

\* The invariant holds of a newly constructed buffer.
LEMMA ExclusionInit == Init => ExclusionInv
  <1> SUFFICES ASSUME Init PROVE ExclusionInv
    OBVIOUS
  <1>1. TypeOK
    <2>1. readerIndex \in Nat /\ delivered \in Seq(Packets) /\ duplicates \in Nat
      BY IndexAssumption DEF Init
    <2>2. /\ index \in [Writers -> Packets \cup {FIRST}]
          /\ seenIndex \in [Writers -> Nat]
          /\ verdict \in [Writers -> WriteStatus]
      BY IndexAssumption DEF Init, WriteStatus
    <2> QED
      BY <2>1, <2>2 DEF Init, TypeOK
  <1>2. WritersHavePackets /\ ReadyIsWhole /\ LockedIsOwned
    BY DEF Init, WritersHavePackets, ReadyIsWhole, LockedIsOwned, Holding
  <1>3. ReaderOwnsReady
    BY IndexAssumption DEF Init, ReaderOwnsReady, Reading
  <1> QED
    BY <1>1, <1>2, <1>3 DEF ExclusionInv

-----------------------------------------------------------------------------
\* The reader's steps keep the invariant.
LEMMA ReaderKeepsExclusion == ExclusionInv /\ Reader => ExclusionInv'
  <1> SUFFICES ASSUME ExclusionInv, Reader PROVE ExclusionInv'
    OBVIOUS
  <1> USE DEF ExclusionInv, bufferVars, readerVars, writerVars
  <1>1. CASE ReaderChecksStop
    BY <1>1 DEF ReaderChecksStop, TypeOK, WritersHavePackets, ReadyIsWhole,
                LockedIsOwned, Holding, ReaderOwnsReady, Reading
  <1>2. CASE ReaderTests
    BY <1>2 DEF ReaderTests, TypeOK, WritersHavePackets, ReadyIsWhole,
                LockedIsOwned, Holding, ReaderOwnsReady, Reading
  <1>3. CASE ReaderCopies
    <2>1. Slot(readerIndex) \in Slots
      BY SlotInSlots DEF TypeOK
    <2>2. item' \in Packets
      BY <1>3, <2>1 DEF ReaderCopies, ReaderOwnsReady, Reading, ReadyIsWhole
    <2>3. TypeOK'
      BY <1>3, <2>2 DEF ReaderCopies, TypeOK
    <2>4. WritersHavePackets' /\ ReadyIsWhole' /\ LockedIsOwned'
      BY <1>3 DEF ReaderCopies, WritersHavePackets, ReadyIsWhole,
                  LockedIsOwned, Holding
    <2>5. ReaderOwnsReady'
      BY <1>3, <2>2 DEF ReaderCopies, ReaderOwnsReady, Reading
    <2> QED
      BY <2>3, <2>4, <2>5
  <1>4. CASE ReaderAdvances
    <2>1. TypeOK'
      BY <1>4 DEF ReaderAdvances, TypeOK
    <2>2. WritersHavePackets' /\ ReadyIsWhole' /\ LockedIsOwned'
      BY <1>4 DEF ReaderAdvances, WritersHavePackets, ReadyIsWhole,
                  LockedIsOwned, Holding
    <2>3. readerIndex' - 1 = readerIndex
      BY <1>4 DEF ReaderAdvances, TypeOK
    <2>4. ReaderOwnsReady'
      BY <1>4, <2>3, IndexAssumption
      DEF ReaderAdvances, ReaderOwnsReady, Reading, TypeOK
    <2> QED
      BY <2>1, <2>2, <2>4
  <1>5. CASE ReaderReleases
    <2> DEFINE s == Slot(readerIndex - 1)
    <2>1. s \in Slots /\ status[s] = "Ready" /\ item \in Packets
      BY <1>5, SlotInSlots, IndexAssumption
      DEF ReaderReleases, ReaderOwnsReady, TypeOK
    <2>2. TypeOK'
      <3>1. delivered' \in Seq(Packets)
        BY <1>5, <2>1 DEF ReaderReleases, TypeOK
      <3>2. status' \in [Slots -> {"Empty", "Locked", "Ready"}]
        BY <1>5 DEF ReaderReleases, TypeOK
      <3> QED
        BY <1>5, <3>1, <3>2 DEF ReaderReleases, TypeOK
    <2>3. WritersHavePackets' /\ ReadyIsWhole'
      BY <1>5, <2>1 DEF ReaderReleases, TypeOK, WritersHavePackets, ReadyIsWhole
    <2>4. LockedIsOwned'
      BY <1>5, <2>1 DEF ReaderReleases, TypeOK, LockedIsOwned, Holding
    <2>5. ReaderOwnsReady'
      BY <1>5 DEF ReaderReleases, ReaderOwnsReady, Reading
    <2> QED
      BY <2>2, <2>3, <2>4, <2>5
  <1> QED
    BY <1>1, <1>2, <1>3, <1>4, <1>5 DEF Reader

-----------------------------------------------------------------------------
\* A writer's steps keep the invariant.
LEMMA WriterKeepsExclusion ==
    ASSUME NEW w \in Writers, ExclusionInv,
           WriterStep(w) \/ \E n \in Packets : Offer(w, n)
    PROVE  ExclusionInv'
  <1> USE DEF ExclusionInv, bufferVars, readerVars, At, Goto, Return
  <1> DEFINE s == Slot(index[w])
  <1>1. index[w] \in Nat /\ s \in Slots
    BY SlotInSlots, PacketsAreNat, IndexAssumption DEF TypeOK
  <1>2. ASSUME NEW n \in Packets, Offer(w, n) PROVE ExclusionInv'
    <2>1. TypeOK'
      BY <1>2 DEF Offer, TypeOK
    <2>2. WritersHavePackets' /\ ReadyIsWhole' /\ LockedIsOwned'
      BY <1>2 DEF Offer, TypeOK, WritersHavePackets, ReadyIsWhole,
                  LockedIsOwned, Holding
    <2>3. ReaderOwnsReady'
      BY <1>2 DEF Offer, ReaderOwnsReady, Reading
    <2> QED
      BY <2>1, <2>2, <2>3
  <1>3. CASE Validate(w)
    <2>1. PICK r \in seenIndex[w] .. readerIndex :
            seenIndex' = [seenIndex EXCEPT ![w] = r]
      BY <1>3 DEF Validate
    <2>2. PICK pc \in {"idle", "tooFar", "claim"} :
            writer' = [writer EXCEPT ![w] = pc]
      BY <1>3 DEF Validate
    <2>3. PICK v \in WriteStatus : verdict' = [verdict EXCEPT ![w] = v]
      <3>1. verdict' = verdict
              \/ verdict' = [verdict EXCEPT ![w] = "AlreadyWritten"]
        BY <1>3 DEF Validate
      <3>2. verdict = [verdict EXCEPT ![w] = verdict[w]] /\ verdict[w] \in WriteStatus
        BY DEF TypeOK
      <3> QED
        BY <3>1, <3>2 DEF WriteStatus
    <2>4. /\ writer[w] = "validate"
          /\ UNCHANGED <<readerIndex, status, data, reader, item, delivered,
                         index, offered, duplicates, written, stop>>
      BY <1>3 DEF Validate
    <2>5. TypeOK'
      BY <2>1, <2>2, <2>3, <2>4 DEF TypeOK
    <2>6. WritersHavePackets' /\ ReadyIsWhole' /\ LockedIsOwned'
      BY <2>2, <2>4 DEF TypeOK, WritersHavePackets, ReadyIsWhole,
                        LockedIsOwned, Holding
    <2>7. ReaderOwnsReady'
      BY <2>4 DEF ReaderOwnsReady, Reading
    <2> QED
      BY <2>5, <2>6, <2>7
  <1>4. CASE Diagnose(w)
    <2>1. TypeOK'
      BY <1>4 DEF Diagnose, TypeOK, WriteStatus
    <2>2. WritersHavePackets' /\ ReadyIsWhole' /\ LockedIsOwned'
      BY <1>4 DEF Diagnose, TypeOK, WritersHavePackets, ReadyIsWhole,
                  LockedIsOwned, Holding
    <2>3. ReaderOwnsReady'
      BY <1>4 DEF Diagnose, ReaderOwnsReady, Reading
    <2> QED
      BY <2>1, <2>2, <2>3
  <1>5. CASE TryClaimSlot(w)
    <2>1. CASE status[s] = "Empty"
      <3>1. /\ status' = [status EXCEPT ![s] = "Locked"]
            /\ writer' = [writer EXCEPT ![w] = "claimed"]
            /\ UNCHANGED <<readerIndex, data, reader, item, delivered, index,
                           seenIndex, verdict, offered, duplicates, written,
                           stop>>
        BY <1>5, <2>1 DEF TryClaimSlot
      <3>2. TypeOK'
        BY <3>1 DEF TypeOK
      <3>3. WritersHavePackets' /\ ReadyIsWhole'
        BY <1>5, <3>1 DEF TryClaimSlot, TypeOK, WritersHavePackets, ReadyIsWhole
      <3>4. LockedIsOwned'
        <4>1. \A x \in Writers : Holding(x) => Slot(index[x]) # s
          BY <2>1 DEF LockedIsOwned
        <4> QED
          BY <1>1, <3>1, <4>1 DEF TypeOK, LockedIsOwned, Holding
      <3>5. ReaderOwnsReady'
        BY <1>1, <2>1, <3>1 DEF TypeOK, ReaderOwnsReady, Reading
      <3> QED
        BY <3>2, <3>3, <3>4, <3>5
    <2>2. CASE status[s] # "Empty"
      <3>1. TypeOK'
        BY <1>5, <2>2 DEF TryClaimSlot, TypeOK, WriteStatus
      <3>2. WritersHavePackets' /\ ReadyIsWhole' /\ LockedIsOwned'
        BY <1>5, <2>2, ZenonT(60) DEF TryClaimSlot, TypeOK, WritersHavePackets,
                          ReadyIsWhole, LockedIsOwned, Holding
      <3>3. ReaderOwnsReady'
        BY <1>5, <2>2 DEF TryClaimSlot, ReaderOwnsReady, Reading
      <3> QED
        BY <3>1, <3>2, <3>3
    <2> QED
      BY <2>1, <2>2
  <1>6. CASE BeginCopy(w)
    <2>1. status[s] = "Locked"
      BY <1>6 DEF BeginCopy, LockedIsOwned, Holding
    <2>2. TypeOK'
      BY <1>6 DEF BeginCopy, TypeOK
    <2>3. WritersHavePackets' /\ LockedIsOwned'
      BY <1>6 DEF BeginCopy, TypeOK, WritersHavePackets, LockedIsOwned, Holding
    <2>4. ReadyIsWhole'
      BY <1>1, <1>6, <2>1
      DEF BeginCopy, TypeOK, ReadyIsWhole, LockedIsOwned, Holding
    <2>5. ReaderOwnsReady'
      BY <1>6 DEF BeginCopy, ReaderOwnsReady, Reading
    <2> QED
      BY <2>2, <2>3, <2>4, <2>5
  <1>7. CASE EndCopy(w)
    <2>1. index[w] \in Packets /\ status[s] = "Locked"
      BY <1>7 DEF EndCopy, WritersHavePackets, LockedIsOwned, Holding
    <2>2. TypeOK'
      BY <1>7, <2>1 DEF EndCopy, TypeOK
    <2>3. WritersHavePackets' /\ LockedIsOwned'
      BY <1>7 DEF EndCopy, TypeOK, WritersHavePackets, LockedIsOwned, Holding
    <2>4. ReadyIsWhole'
      BY <1>1, <1>7, <2>1
      DEF EndCopy, TypeOK, ReadyIsWhole, LockedIsOwned, Holding
    <2>5. ReaderOwnsReady'
      BY <1>7 DEF EndCopy, ReaderOwnsReady, Reading
    <2> QED
      BY <2>2, <2>3, <2>4, <2>5
  <1>8. CASE MarkReady(w)
    <2>1. index[w] \in Packets /\ status[s] = "Locked" /\ data[s] \in Packets
      BY <1>8 DEF MarkReady, WritersHavePackets, LockedIsOwned, Holding,
                  ReadyIsWhole
    <2>2. TypeOK'
      BY <1>8, <2>1 DEF MarkReady, TypeOK, WriteStatus
    <2>3. WritersHavePackets' /\ ReadyIsWhole'
      BY <1>1, <1>8, <2>1 DEF MarkReady, TypeOK, WritersHavePackets, ReadyIsWhole
    <2>4. LockedIsOwned'
      <3>1. \A x \in Writers \ {w} : Holding(x) => Slot(index[x]) # s
        BY <1>8 DEF MarkReady, LockedIsOwned, Holding
      <3> QED
        BY <1>1, <1>8, <3>1 DEF MarkReady, TypeOK, LockedIsOwned, Holding
    <2>5. ReaderOwnsReady'
      BY <1>1, <1>8 DEF MarkReady, TypeOK, ReaderOwnsReady, Reading
    <2> QED
      BY <2>2, <2>3, <2>4, <2>5
  <1> QED
    BY <1>2, <1>3, <1>4, <1>5, <1>6, <1>7, <1>8 DEF WriterStep

\* Every step keeps the invariant.
LEMMA ExclusionStep == ExclusionInv /\ [Next]_vars => ExclusionInv'
  <1> SUFFICES ASSUME ExclusionInv, [Next]_vars PROVE ExclusionInv'
    OBVIOUS
  <1>1. CASE Reader
    BY <1>1, ReaderKeepsExclusion
  <1>2. CASE \E w \in Writers : WriterStep(w) \/ \E n \in Packets : Offer(w, n)
    BY <1>2, WriterKeepsExclusion
  <1>3. CASE RequestStop
    BY <1>3 DEF RequestStop, ExclusionInv, TypeOK, WritersHavePackets,
                ReadyIsWhole, LockedIsOwned, Holding, ReaderOwnsReady, Reading,
                bufferVars, readerVars, writerVars
  <1>4. CASE UNCHANGED vars
    BY <1>4 DEF vars, ExclusionInv, TypeOK, WritersHavePackets,
                ReadyIsWhole, LockedIsOwned, Holding, ReaderOwnsReady, Reading,
                bufferVars, readerVars, writerVars
  <1> QED
    BY <1>1, <1>2, <1>3, <1>4 DEF Next, Finished

-----------------------------------------------------------------------------
\* The inductive invariant holds in every run of the threads.
THEOREM ExclusionInvariant == Spec => []ExclusionInv
  BY ExclusionInit, ExclusionStep, PTL DEF Spec

\* Type correctness: in particular everything the publisher is handed, now or
\* earlier, is a whole packet (TypeOK).
THEOREM ReorderTypeCorrect == Spec => []TypeOK
  BY ExclusionInvariant, PTL DEF ExclusionInv

\* No two threads are ever inside the same slot (SlotExclusion), however many
\* writers there are and however often packets are duplicated.
THEOREM ReorderSlotExclusion == Spec => []SlotExclusion
  <1>1. ExclusionInv => SlotExclusion
    <2> SUFFICES ASSUME ExclusionInv PROVE SlotExclusion
      OBVIOUS
    <2>1. LockedIsOwned
      BY DEF ExclusionInv
    <2>2. ASSUME Reading
          PROVE  /\ status[Slot(readerIndex)] = "Ready"
                 /\ data[Slot(readerIndex)] # Torn
      <3>1. Slot(readerIndex) \in Slots
        BY SlotInSlots DEF ExclusionInv, TypeOK
      <3>2. status[Slot(readerIndex)] = "Ready"
        BY <2>2 DEF ExclusionInv, ReaderOwnsReady
      <3> QED
        BY <3>1, <3>2, PacketsAreNat DEF ExclusionInv, ReadyIsWhole
    <2> QED
      BY <2>1, <2>2 DEF SlotExclusion, LockedIsOwned
  <1> QED
    BY <1>1, ExclusionInvariant, PTL

-----------------------------------------------------------------------------
(***************************************************************************)
(* Order of delivery.  As long as no packet was offered twice, a packet is *)
(* at one place at a time: in the hands of one writer, in its slot, or     *)
(* with the reader; and all that are about lie within CAPACITY numbers of  *)
(* one another, so that equal slots mean equal packets (SameSlotSamePacket)*)
(***************************************************************************)

\* The oldest packet a slot may still hold: the reader moves its index on
\* before it releases the slot.
Oldest == IF reader = "advanced" THEN readerIndex - 1 ELSE readerIndex

\* What the slots hold is in its place, in the window, and was offered.
SlotsInWindow ==
    /\ \A s \in Slots : status[s] = "Ready" =>
         /\ data[s] \in offered /\ Slot(data[s]) = s
         /\ Oldest <= data[s] /\ data[s] < readerIndex + MAX_INDEX_AHEAD
    /\ \A s \in Slots : status[s] = "Locked" =>
         \E w \in Writers : Holding(w) /\ Slot(index[w]) = s

\* A writer past the check.
Cleared(w) == Holding(w) \/ writer[w] = "claim"

\* What a writer has in hand is new to the reader and to everyone else.
WritersInWindow ==
    /\ \A w \in Writers : writer[w] # "idle" =>
         /\ index[w] \in offered /\ readerIndex <= index[w]
         /\ \A s \in Slots : status[s] = "Ready" => data[s] # index[w]
    /\ \A w \in Writers : Cleared(w) => index[w] < readerIndex + MAX_INDEX_AHEAD
    /\ \A w, x \in Writers : w # x /\ writer[w] # "idle" /\ writer[x] # "idle"
         => index[w] # index[x]
    /\ \A w \in Writers : writer[w] = "copied" => data[Slot(index[w])] = index[w]
    /\ \A w \in Writers : seenIndex[w] <= readerIndex

\* The reader has had exactly the packets below its index.
ReaderInOrder ==
    /\ \A n \in Packets : n < readerIndex => n \in offered
    /\ reader = "copied" => item = readerIndex
    /\ reader = "advanced" => item = readerIndex - 1
    /\ Len(delivered) = Oldest - FIRST

OrderInv == duplicates = 0 => /\ SlotsInWindow /\ WritersInWindow
                              /\ ReaderInOrder /\ DeliveredInOrder
                              /\ NewDataIsNotDropped

\* Two packets less than CAPACITY apart in the same slot are the same packet.
LEMMA SameSlotSamePacket ==
    ASSUME NEW a \in Nat, NEW b \in Nat, a - b < CAPACITY, b - a < CAPACITY,
           Slot(a) = Slot(b)
    PROVE  a = b
  <1> DEFINE C == CAPACITY
             x == a \div C
             y == b \div C
  <1>1. C \in Nat \ {0}
    BY CapacityAssumption
  <1>2. x \in Int /\ y \in Int
    BY <1>1
  <1>3. a = C * x + (a % C) /\ b = C * y + (b % C) /\ a % C = b % C
    BY <1>1 DEF Slot
  <1>4. a - b < C /\ b - a < C
    OBVIOUS
  <1> HIDE DEF C, x, y
  <1>5. a - b = C * (x - y)
    BY <1>1, <1>2, <1>3
  <1>6. CASE x - y >= 1
    BY <1>1, <1>2, <1>4, <1>5, <1>6
  <1>7. CASE y - x >= 1
    <2>1. b - a = C * (y - x)
      BY <1>1, <1>2, <1>3
    <2> QED
      BY <2>1, <1>1, <1>2, <1>4, <1>7
  <1>8. CASE x = y
    BY <1>1, <1>2, <1>5, <1>8
  <1> QED
    BY <1>2, <1>6, <1>7, <1>8

\* The invariant holds of a newly constructed buffer.
LEMMA OrderInit == Init => OrderInv
  <1> SUFFICES ASSUME Init PROVE OrderInv
    OBVIOUS
  <1>1. SlotsInWindow /\ NewDataIsNotDropped
    BY DEF Init, SlotsInWindow, NewDataIsNotDropped
  <1>2. WritersInWindow
    BY IndexAssumption DEF Init, WritersInWindow, Holding, Cleared
  <1>3. ReaderInOrder
    BY IndexAssumption, PacketsAreNat DEF Init, ReaderInOrder, Oldest, Packets
  <1>4. DeliveredInOrder
    BY DEF Init, DeliveredInOrder
  <1> QED
    BY <1>1, <1>2, <1>3, <1>4 DEF OrderInv

-----------------------------------------------------------------------------
\* What the reader finds Ready at its index is the packet with that number.
LEMMA ReaderFindsItsPacket ==
    ASSUME ExclusionInv, SlotsInWindow, Reading
    PROVE  /\ data[Slot(readerIndex)] = readerIndex
           /\ readerIndex \in offered
  <1> DEFINE s == Slot(readerIndex)
  <1>1. s \in Slots /\ status[s] = "Ready" /\ readerIndex \in Nat
    BY SlotInSlots DEF ExclusionInv, TypeOK, ReaderOwnsReady
  <1>2. /\ data[s] \in offered /\ Slot(data[s]) = s
        /\ readerIndex <= data[s] /\ data[s] < readerIndex + MAX_INDEX_AHEAD
    BY <1>1 DEF SlotsInWindow, Oldest, Reading
  <1>3. data[s] \in Nat
    BY <1>2, PacketsAreNat DEF ExclusionInv, TypeOK
  <1>4. data[s] - readerIndex < CAPACITY /\ readerIndex - data[s] < CAPACITY
    BY <1>1, <1>2, <1>3, CapacityAssumption DEF MAX_INDEX_AHEAD
  <1> QED
    BY <1>1, <1>2, <1>3, <1>4, SameSlotSamePacket

\* The reader's steps keep the order.
LEMMA ReaderKeepsOrder == ExclusionInv /\ OrderInv /\ Reader => OrderInv'
  <1> SUFFICES ASSUME ExclusionInv, OrderInv, Reader, duplicates' = 0
               PROVE  /\ SlotsInWindow' /\ WritersInWindow'
                      /\ ReaderInOrder' /\ DeliveredInOrder'
                      /\ NewDataIsNotDropped'
    BY DEF OrderInv
  <1> USE DEF bufferVars, readerVars, writerVars
  <1>0. /\ duplicates = 0 /\ SlotsInWindow /\ WritersInWindow /\ ReaderInOrder
        /\ DeliveredInOrder /\ NewDataIsNotDropped
    BY DEF OrderInv, Reader, ReaderChecksStop, ReaderTests, ReaderCopies,
           ReaderAdvances, ReaderReleases
  <1>1. TypeOK
    BY DEF ExclusionInv
  <1>2. UNCHANGED writerVars
    BY DEF Reader, ReaderChecksStop, ReaderTests, ReaderCopies,
           ReaderAdvances, ReaderReleases
  <1>3. NewDataIsNotDropped'
    BY <1>0, <1>2 DEF NewDataIsNotDropped
  <1>4. CASE ReaderChecksStop \/ ReaderTests
    <2>1. /\ reader \in {"check", "try"} /\ reader' \in {"check", "try", "copy", "done"}
          /\ UNCHANGED <<bufferVars, item, delivered>>
      BY <1>4 DEF ReaderChecksStop, ReaderTests
    <2>2. Oldest' = Oldest
      BY <2>1 DEF Oldest
    <2>3. SlotsInWindow' /\ WritersInWindow'
      BY <1>0, <1>2, <2>1, <2>2
      DEF SlotsInWindow, WritersInWindow, Holding, Cleared
    <2>4. ReaderInOrder' /\ DeliveredInOrder'
      BY <1>0, <1>2, <2>1, <2>2 DEF ReaderInOrder, DeliveredInOrder
    <2> QED
      BY <1>3, <2>3, <2>4
  <1>5. CASE ReaderCopies
    <2>1. /\ reader = "copy" /\ reader' = "copied"
          /\ item' = data[Slot(readerIndex)]
          /\ UNCHANGED <<bufferVars, delivered>>
      BY <1>5 DEF ReaderCopies
    <2>2. Oldest' = Oldest
      BY <2>1 DEF Oldest
    <2>3. SlotsInWindow' /\ WritersInWindow'
      BY <1>0, <1>2, <2>1, <2>2
      DEF SlotsInWindow, WritersInWindow, Holding, Cleared
    <2>4. item' = readerIndex
      BY <1>0, <2>1, ReaderFindsItsPacket DEF Reading
    <2>5. ReaderInOrder' /\ DeliveredInOrder'
      BY <1>0, <1>2, <2>1, <2>2, <2>4 DEF ReaderInOrder, DeliveredInOrder
    <2> QED
      BY <1>3, <2>3, <2>5
  <1>6. CASE ReaderAdvances
    <2>1. /\ reader = "copied" /\ reader' = "advanced"
          /\ readerIndex' = readerIndex + 1 /\ readerIndex \in Nat
          /\ UNCHANGED <<status, data, item, delivered>>
      BY <1>1, <1>6 DEF ReaderAdvances, TypeOK
    <2>2. Oldest' = Oldest /\ Oldest = readerIndex
      BY <2>1 DEF Oldest
    <2>3. /\ data[Slot(readerIndex)] = readerIndex /\ readerIndex \in offered
          /\ status[Slot(readerIndex)] = "Ready" /\ Slot(readerIndex) \in Slots
      BY <1>0, <2>1, ReaderFindsItsPacket, SlotInSlots
      DEF Reading, ExclusionInv, ReaderOwnsReady
    <2>4. MAX_INDEX_AHEAD \in Int
      BY CapacityAssumption DEF MAX_INDEX_AHEAD
    <2>5. SlotsInWindow'
      <3>1. \A s \in Slots : status[s] = "Ready" => data[s] \in Nat
        BY PacketsAreNat DEF ExclusionInv, ReadyIsWhole
      <3> QED
        BY <1>0, <1>2, <2>1, <2>2, <2>4, <3>1 DEF SlotsInWindow, Holding
    <2>6. WritersInWindow'
      <3>1. \A w \in Writers : writer[w] # "idle" => index[w] \in Nat
        BY PacketsAreNat DEF ExclusionInv, WritersHavePackets
      <3>2. \A w \in Writers : writer[w] # "idle" => index[w] # readerIndex
        BY <1>0, <2>3 DEF WritersInWindow
      <3>3. \A w \in Writers : Cleared(w) => writer[w] # "idle"
        BY DEF Cleared, Holding
      <3>4. \A w \in Writers : seenIndex[w] \in Nat
        BY <1>1 DEF TypeOK
      <3> QED
        BY <1>0, <1>2, <2>1, <2>4, <3>1, <3>2, <3>3, <3>4
        DEF WritersInWindow, Cleared, Holding
    <2>7. ReaderInOrder'
      <3>1. \A n \in Packets : n < readerIndex + 1 => n \in offered
        BY <1>0, <2>1, <2>3, PacketsAreNat DEF ReaderInOrder
      <3> QED
        BY <1>0, <1>2, <2>1, <2>2, <3>1 DEF ReaderInOrder
    <2>8. DeliveredInOrder'
      BY <1>0, <2>1 DEF DeliveredInOrder
    <2> QED
      BY <1>3, <2>5, <2>6, <2>7, <2>8
  <1>7. CASE ReaderReleases
    <2> DEFINE s == Slot(readerIndex - 1)
    <2>1. /\ reader = "advanced" /\ reader' = "check"
          /\ status' = [status EXCEPT ![s] = "Empty"]
          /\ delivered' = Append(delivered, item)
          /\ UNCHANGED <<readerIndex, data, item>>
      BY <1>7 DEF ReaderReleases
    <2>2. /\ readerIndex \in Nat /\ readerIndex - 1 \in Nat /\ s \in Slots
          /\ status[s] = "Ready" /\ item \in Packets
      BY <2>1, SlotInSlots, IndexAssumption
      DEF ExclusionInv, TypeOK, ReaderOwnsReady
    <2>3. Oldest = readerIndex - 1 /\ Oldest' = readerIndex
      BY <2>1 DEF Oldest
    <2>4. SlotsInWindow'
      <3>1. ASSUME NEW t \in Slots, status'[t] = "Ready"
            PROVE  data[t] \in Nat /\ data[t] # readerIndex - 1
        <4>1. t # s /\ status[t] = "Ready"
          BY <2>1, <2>2, <3>1, <1>1 DEF TypeOK
        <4>2. data[t] \in Nat /\ Slot(data[t]) = t
          BY <1>0, <4>1, PacketsAreNat
          DEF SlotsInWindow, ExclusionInv, ReadyIsWhole
        <4> QED
          BY <4>1, <4>2
      <3>2. \A t \in Slots : status'[t] \in {"Ready", "Locked"} => status'[t] = status[t]
        BY <1>1, <2>1, <2>2 DEF TypeOK
      <3> QED
        BY <1>0, <1>2, <2>1, <2>2, <2>3, <3>1, <3>2 DEF SlotsInWindow, Holding
    <2>5. WritersInWindow'
      <3>1. \A t \in Slots : status'[t] = "Ready" => status[t] = "Ready"
        BY <1>1, <2>1, <2>2 DEF TypeOK
      <3> QED
        BY <1>0, <1>2, <2>1, <3>1 DEF WritersInWindow, Cleared, Holding
    <2>6. /\ Len(delivered') = Len(delivered) + 1
          /\ \A i \in 1 .. Len(delivered) : delivered'[i] = delivered[i]
          /\ delivered'[Len(delivered) + 1] = item /\ Len(delivered) \in Nat
      BY <1>1, <2>1, <2>2 DEF TypeOK
    <2>7. Len(delivered) = readerIndex - 1 - FIRST /\ item = readerIndex - 1
      BY <1>0, <2>1, <2>3 DEF ReaderInOrder
    <2>8. ReaderInOrder'
      BY <1>0, <1>2, <2>1, <2>2, <2>3, <2>6, <2>7, IndexAssumption
      DEF ReaderInOrder
    <2>9. DeliveredInOrder'
      <3>1. item = FIRST + (Len(delivered) + 1) - 1
        BY <2>2, <2>6, <2>7, IndexAssumption
      <3> QED
        BY <1>0, <2>6, <3>1 DEF DeliveredInOrder
    <2> QED
      BY <1>3, <2>4, <2>5, <2>8, <2>9
  <1> QED
    BY <1>4, <1>5, <1>6, <1>7 DEF Reader

-----------------------------------------------------------------------------
\* A slot in use by somebody else is never the slot of the packet a writer is
\* about to claim for.
LEMMA ClaimFindsSlotEmpty ==
    ASSUME ExclusionInv, SlotsInWindow, WritersInWindow,
           NEW w \in Writers, writer[w] = "claim"
    PROVE  status[Slot(index[w])] = "Empty"
  <1> DEFINE s == Slot(index[w])
  <1>1. /\ index[w] \in Nat /\ s \in Slots /\ readerIndex \in Nat
        /\ readerIndex <= index[w] /\ index[w] < readerIndex + MAX_INDEX_AHEAD
    BY SlotInSlots, PacketsAreNat
    DEF ExclusionInv, TypeOK, WritersHavePackets, WritersInWindow, Cleared
  <1>2. ASSUME status[s] = "Ready" PROVE FALSE
    <2>1. /\ data[s] \in Nat /\ Slot(data[s]) = s
          /\ readerIndex - 1 <= data[s] /\ data[s] < readerIndex + MAX_INDEX_AHEAD
      <3>1. data[s] \in Nat
        BY <1>1, <1>2, PacketsAreNat DEF ExclusionInv, ReadyIsWhole
      <3>2. readerIndex - 1 <= Oldest /\ Oldest \in Int
        BY <1>1 DEF Oldest
      <3> QED
        BY <1>1, <1>2, <3>1, <3>2 DEF SlotsInWindow
    <2>2. data[s] - index[w] < CAPACITY /\ index[w] - data[s] < CAPACITY
      BY <1>1, <2>1, CapacityAssumption DEF MAX_INDEX_AHEAD
    <2>3. data[s] = index[w]
      BY <1>1, <2>1, <2>2, SameSlotSamePacket
    <2> QED
      BY <1>1, <1>2, <2>3 DEF WritersInWindow
  <1>3. ASSUME status[s] = "Locked" PROVE FALSE
    <2>1. PICK x \in Writers : Holding(x) /\ Slot(index[x]) = s
      BY <1>1, <1>3 DEF SlotsInWindow
    <2>2. /\ index[x] \in Nat /\ x # w /\ writer[x] # "idle"
          /\ readerIndex <= index[x] /\ index[x] < readerIndex + MAX_INDEX_AHEAD
      BY <2>1, PacketsAreNat
      DEF ExclusionInv, WritersHavePackets, WritersInWindow, Holding, Cleared
    <2>3. index[x] = index[w]
      BY <1>1, <2>1, <2>2, SameSlotSamePacket, CapacityAssumption
      DEF MAX_INDEX_AHEAD
    <2> QED
      BY <2>2, <2>3 DEF WritersInWindow
  <1> QED
    BY <1>1, <1>2, <1>3 DEF ExclusionInv, TypeOK

\* A writer's steps keep the order.
LEMMA WriterKeepsOrder ==
    ASSUME NEW w \in Writers, ExclusionInv, OrderInv,
           WriterStep(w) \/ \E n \in Packets : Offer(w, n)
    PROVE  OrderInv'
  <1> SUFFICES ASSUME duplicates' = 0
               PROVE  /\ SlotsInWindow' /\ WritersInWindow'
                      /\ ReaderInOrder' /\ DeliveredInOrder'
                      /\ NewDataIsNotDropped'
    BY DEF OrderInv
  <1> USE DEF bufferVars, readerVars, At, Goto, Return
  <1> DEFINE s == Slot(index[w])
  <1>1. TypeOK /\ duplicates \in Nat
    BY DEF ExclusionInv, TypeOK
  <1>2. duplicates = 0
    BY <1>1 DEF WriterStep, Offer, Validate, Diagnose, TryClaimSlot, BeginCopy,
                EndCopy, MarkReady
  <1>3. /\ SlotsInWindow /\ WritersInWindow /\ ReaderInOrder
        /\ DeliveredInOrder /\ NewDataIsNotDropped
    BY <1>2 DEF OrderInv
  <1>0. \A x \in Writers : verdict[x] # "AlreadyWritten"
    BY <1>2, <1>3 DEF NewDataIsNotDropped
  <1>4. UNCHANGED <<readerIndex, reader, item, delivered>>
    BY DEF WriterStep, Offer, Validate, Diagnose, TryClaimSlot, BeginCopy,
           EndCopy, MarkReady
  <1>5. Oldest' = Oldest /\ DeliveredInOrder'
    BY <1>3, <1>4 DEF Oldest, DeliveredInOrder
  <1>6. offered \subseteq offered'
    BY DEF WriterStep, Offer, Validate, Diagnose, TryClaimSlot, BeginCopy,
           EndCopy, MarkReady
  <1>7. ReaderInOrder'
    BY <1>3, <1>4, <1>5, <1>6 DEF ReaderInOrder
  <1>8. s \in Slots /\ index[w] \in Nat
    BY <1>1, SlotInSlots, PacketsAreNat, IndexAssumption DEF TypeOK
  <1>9. ASSUME NEW n \in Packets, Offer(w, n)
        PROVE  SlotsInWindow' /\ WritersInWindow' /\ NewDataIsNotDropped'
    <2>1. /\ writer[w] = "idle" /\ n \notin offered
          /\ offered' = offered \cup {n} /\ index' = [index EXCEPT ![w] = n]
          /\ writer' = [writer EXCEPT ![w] = "validate"]
          /\ UNCHANGED <<status, data, seenIndex, verdict>>
      BY <1>1, <1>9 DEF Offer
    <2>2. readerIndex <= n
      BY <1>1, <1>3, <2>1, PacketsAreNat DEF ReaderInOrder, TypeOK
    <2>3. /\ index'[w] = n /\ writer'[w] = "validate"
          /\ \A x \in Writers \ {w} : index'[x] = index[x] /\ writer'[x] = writer[x]
      BY <1>1, <2>1 DEF TypeOK
    <2>4. SlotsInWindow'
      BY <1>3, <1>4, <1>5, <2>1, <2>3 DEF SlotsInWindow, Holding
    <2>5. WritersInWindow'
      <3>1. \A t \in Slots : status[t] = "Ready" => data[t] # n
        BY <1>3, <2>1 DEF SlotsInWindow
      <3>2. \A x \in Writers \ {w} : writer[x] # "idle" => index[x] # n
        BY <1>3, <2>1 DEF WritersInWindow
      <3> QED
        BY <1>3, <1>4, <2>1, <2>2, <2>3, <3>1, <3>2
        DEF WritersInWindow, Cleared, Holding
    <2> QED
      BY <1>0, <2>1, <2>4, <2>5 DEF NewDataIsNotDropped
  <1>10. CASE Validate(w)
    <2>1. PICK r \in seenIndex[w] .. readerIndex :
            /\ seenIndex' = [seenIndex EXCEPT ![w] = r]
            /\ \/ index[w] >= r + MAX_INDEX_AHEAD
                  /\ Goto(w, "tooFar") /\ UNCHANGED verdict
               \/ index[w] < r
                  /\ Return(w, "AlreadyWritten")
               \/ index[w] >= r /\ index[w] < r + MAX_INDEX_AHEAD
                  /\ Goto(w, "claim") /\ UNCHANGED verdict
      BY <1>10 DEF Validate
    <2>2. /\ writer[w] = "validate"
          /\ UNCHANGED <<status, data, index, offered>>
      BY <1>10 DEF Validate
    <2>3. r \in Int /\ r <= readerIndex /\ readerIndex \in Nat
      BY <1>1 DEF TypeOK
    <2>4. readerIndex <= index[w]
      BY <1>3, <2>2 DEF WritersInWindow
    <2>5. /\ writer' \in {[writer EXCEPT ![w] = "tooFar"], [writer EXCEPT ![w] = "claim"]}
          /\ UNCHANGED verdict
          /\ writer'[w] = "claim" => index[w] < readerIndex + MAX_INDEX_AHEAD
      <3>1. ~(index[w] < r)
        BY <1>8, <2>3, <2>4
      <3>2. CASE Goto(w, "tooFar") /\ UNCHANGED verdict
        BY <1>1, <3>2 DEF TypeOK
      <3>3. CASE index[w] < r + MAX_INDEX_AHEAD /\ Goto(w, "claim") /\ UNCHANGED verdict
        <4>1. MAX_INDEX_AHEAD \in Int
          BY CapacityAssumption DEF MAX_INDEX_AHEAD
        <4> QED
          BY <1>8, <2>3, <3>3, <4>1
      <3> QED
        BY <2>1, <3>1, <3>2, <3>3
    <2>6. /\ writer'[w] \in {"tooFar", "claim"} /\ seenIndex'[w] = r
          /\ \A x \in Writers \ {w} : /\ writer'[x] = writer[x]
                                      /\ seenIndex'[x] = seenIndex[x]
      BY <1>1, <2>1, <2>5 DEF TypeOK
    <2>7. \A x \in Writers : Holding(x)' <=> Holding(x)
      BY <2>2, <2>6 DEF Holding
    <2>8. SlotsInWindow'
      BY <1>3, <1>4, <1>5, <2>2, <2>7 DEF SlotsInWindow
    <2>9. WritersInWindow'
      BY <1>3, <1>4, <2>2, <2>3, <2>5, <2>6, <2>7 DEF WritersInWindow, Cleared
    <2> QED
      BY <1>0, <1>5, <1>7, <2>5, <2>8, <2>9 DEF NewDataIsNotDropped
  <1>11. CASE Diagnose(w)
    <2>1. /\ writer[w] = "tooFar" /\ writer' = [writer EXCEPT ![w] = "idle"]
          /\ UNCHANGED <<status, data, index, offered, seenIndex>>
          /\ verdict' = [verdict EXCEPT ![w] =
                IF status[Slot(seenIndex[w])] = "Ready"
                THEN "LikelySlowReader" ELSE "LikelySlowWriter"]
      BY <1>11 DEF Diagnose
    <2>2. /\ writer'[w] = "idle"
          /\ \A x \in Writers \ {w} : writer'[x] = writer[x]
      BY <1>1, <2>1 DEF TypeOK
    <2>3. SlotsInWindow'
      BY <1>3, <1>4, <1>5, <2>1, <2>2 DEF SlotsInWindow, Holding
    <2>4. WritersInWindow'
      BY <1>3, <1>4, <2>1, <2>2 DEF WritersInWindow, Cleared, Holding
    <2> QED
      BY <1>0, <1>1, <1>5, <1>7, <2>1, <2>3, <2>4
      DEF NewDataIsNotDropped, TypeOK
  <1>12. CASE TryClaimSlot(w)
    <2>1. status[s] = "Empty"
      BY <1>3, <1>12, ClaimFindsSlotEmpty DEF TryClaimSlot
    <2>2. /\ writer[w] = "claim" /\ writer' = [writer EXCEPT ![w] = "claimed"]
          /\ status' = [status EXCEPT ![s] = "Locked"]
          /\ UNCHANGED <<data, index, seenIndex, verdict, offered>>
      BY <1>12, <2>1 DEF TryClaimSlot
    <2>3. /\ writer'[w] = "claimed"
          /\ \A x \in Writers \ {w} : writer'[x] = writer[x]
          /\ status'[s] = "Locked"
          /\ \A t \in Slots \ {s} : status'[t] = status[t]
      BY <1>1, <1>8, <2>2 DEF TypeOK
    <2>4. SlotsInWindow'
      BY <1>3, <1>4, <1>5, <2>2, <2>3 DEF SlotsInWindow, Holding
    <2>5. WritersInWindow'
      BY <1>3, <1>4, <2>2, <2>3 DEF WritersInWindow, Cleared, Holding
    <2> QED
      BY <1>0, <1>5, <1>7, <2>2, <2>4, <2>5 DEF NewDataIsNotDropped
  <1>13. CASE BeginCopy(w) \/ EndCopy(w)
    <2>1. /\ Holding(w)
          /\ \/ writer' = [writer EXCEPT ![w] = "copying"]
                /\ data' = [data EXCEPT ![s] = Torn]
             \/ writer' = [writer EXCEPT ![w] = "copied"]
                /\ data' = [data EXCEPT ![s] = index[w]]
          /\ UNCHANGED <<status, index, seenIndex, verdict, offered>>
      BY <1>13 DEF BeginCopy, EndCopy, Holding
    <2>2. /\ writer[w] # "idle" /\ writer'[w] \in {"copying", "copied"}
          /\ writer'[w] = "copied" => data'[s] = index[w]
          /\ \A x \in Writers \ {w} : writer'[x] = writer[x]
          /\ \A t \in Slots \ {s} : data'[t] = data[t]
      BY <1>1, <1>8, <2>1 DEF TypeOK, Holding
    <2>3. status[s] = "Locked"
      BY <2>1 DEF ExclusionInv, LockedIsOwned
    <2>4. \A x \in Writers \ {w} : Holding(x) =>
             Slot(index[x]) \in Slots /\ Slot(index[x]) # s
      BY <1>1, <2>1, SlotInSlots, PacketsAreNat
      DEF ExclusionInv, LockedIsOwned, WritersHavePackets, Holding
    <2>5. \A x \in Writers : Holding(x)' <=> Holding(x)
      BY <2>1, <2>2 DEF Holding
    <2>6. SlotsInWindow'
      BY <1>3, <1>4, <1>5, <2>1, <2>2, <2>3, <2>5 DEF SlotsInWindow
    <2>7. WritersInWindow'
      <3>1. \A x \in Writers : writer'[x] = "copied" =>
               data'[Slot(index'[x])] = index'[x]
        BY <1>3, <2>1, <2>2, <2>4 DEF WritersInWindow, Holding
      <3>2. \A x \in Writers : writer'[x] # "idle" => writer[x] # "idle"
        BY <2>2
      <3>3. \A t \in Slots : status'[t] = "Ready" =>
               status[t] = "Ready" /\ data'[t] = data[t]
        BY <2>1, <2>2, <2>3
      <3>4. \A x \in Writers : Cleared(x)' => Cleared(x)
        BY <2>1, <2>2, <2>5 DEF Cleared
      <3> QED
        BY <1>3, <1>4, <2>1, <3>1, <3>2, <3>3, <3>4 DEF WritersInWindow
    <2> QED
      BY <1>0, <1>5, <1>7, <2>1, <2>6, <2>7 DEF NewDataIsNotDropped
  <1>14. CASE MarkReady(w)
    <2>1. /\ writer[w] = "copied" /\ writer' = [writer EXCEPT ![w] = "idle"]
          /\ status' = [status EXCEPT ![s] = "Ready"]
          /\ verdict' = [verdict EXCEPT ![w] = "Success"]
          /\ UNCHANGED <<data, index, seenIndex, offered>>
      BY <1>14 DEF MarkReady
    <2>2. /\ writer'[w] = "idle"
          /\ \A x \in Writers \ {w} : writer'[x] = writer[x]
          /\ status'[s] = "Ready"
          /\ \A t \in Slots \ {s} : status'[t] = status[t]
      BY <1>1, <1>8, <2>1 DEF TypeOK
    <2>3. /\ data[s] = index[w] /\ index[w] \in offered
          /\ readerIndex <= index[w] /\ index[w] < readerIndex + MAX_INDEX_AHEAD
          /\ \A x \in Writers \ {w} : writer[x] # "idle" => index[x] # index[w]
      BY <1>3, <2>1 DEF WritersInWindow, Cleared, Holding
    <2>4. Oldest <= index[w]
      BY <1>1, <1>8, <2>3 DEF Oldest, TypeOK
    <2>5. SlotsInWindow'
      <3>1. \A x \in Writers : Holding(x) /\ Slot(index[x]) # s => Holding(x)'
        BY <2>1, <2>2 DEF Holding
      <3> QED
        BY <1>3, <1>4, <1>5, <2>1, <2>2, <2>3, <2>4, <3>1 DEF SlotsInWindow
    <2>6. WritersInWindow'
      BY <1>3, <1>4, <2>1, <2>2, <2>3 DEF WritersInWindow, Cleared, Holding
    <2> QED
      BY <1>0, <1>1, <1>5, <1>7, <2>1, <2>5, <2>6
      DEF NewDataIsNotDropped, TypeOK
  <1> QED
    BY <1>5, <1>7, <1>9, <1>10, <1>11, <1>12, <1>13, <1>14 DEF WriterStep

\* Every step keeps the order.
LEMMA OrderStep == ExclusionInv /\ OrderInv /\ [Next]_vars => OrderInv'
  <1> SUFFICES ASSUME ExclusionInv, OrderInv, [Next]_vars PROVE OrderInv'
    OBVIOUS
  <1>1. CASE Reader
    BY <1>1, ReaderKeepsOrder
  <1>2. CASE \E w \in Writers : WriterStep(w) \/ \E n \in Packets : Offer(w, n)
    BY <1>2, WriterKeepsOrder
  <1>3. CASE RequestStop \/ UNCHANGED vars
    <2>1. UNCHANGED <<bufferVars, readerVars, writerVars>>
      BY <1>3 DEF RequestStop, vars
    <2> QED
      BY <2>1 DEF bufferVars, readerVars, writerVars, OrderInv, SlotsInWindow,
                  WritersInWindow, ReaderInOrder, Oldest, Holding, Cleared,
                  DeliveredInOrder, NewDataIsNotDropped
  <1> QED
    BY <1>1, <1>2, <1>3 DEF Next, Finished

\* The invariant of the order of delivery holds in every run.
THEOREM OrderInvariant == Spec => []OrderInv
  BY ExclusionInvariant, OrderInit, OrderStep, PTL DEF Spec

\* The publisher hands out FIRST, FIRST + 1, ... with nothing skipped or
\* repeated as long as every packet is offered once, in whatever order, by
\* however many threads (InOrderWithoutDuplicates).
THEOREM ReorderInOrder == Spec => []InOrderWithoutDuplicates
  <1>1. OrderInv => InOrderWithoutDuplicates
    BY DEF OrderInv, InOrderWithoutDuplicates
  <1> QED
    BY <1>1, OrderInvariant, PTL

\* try_write_to never takes a packet that is new for one it has seen
\* (NewDataIsNotDropped): the room MAX_INDEX_AHEAD leaves is enough.
THEOREM ReorderKeepsNewData == Spec => []NewDataIsNotDropped
  <1>1. OrderInv => NewDataIsNotDropped
    BY Zenon DEF OrderInv, NewDataIsNotDropped
  <1> QED
    BY <1>1, OrderInvariant, PTL
=============================================================================
