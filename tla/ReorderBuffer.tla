---------------------------- MODULE ReorderBuffer ----------------------------
(***************************************************************************)
(* includes/utils/reorder-buffer.hpp: packets are written at their         *)
(* sequence number by two threads (the handler loop with what UDP          *)
(* delivered, the retransmit client with what TCP recovered) and consumed  *)
(* in sequence order by the publisher thread.  Every atomic access is one  *)
(* action.  The payload of packet n is n itself.                           *)
(*                                                                         *)
(* An acquire load of reader_index_ may return any value between the one   *)
(* the same thread saw last and the newest.  A slot's data is not atomic:  *)
(* it is Torn from the first to the last byte of a write.                  *)
(***************************************************************************)
EXTENDS Integers, Sequences

CONSTANTS Writers,          \* the writing threads
          CAPACITY,
          FIRST,            \* initial_reader_index
          LAST,             \* bound: the largest sequence number offered
          MaxDuplicates,    \* bound: packets offered although offered before
          NoData,           \* contents of a slot never written
          Torn              \* contents of a slot being written

ASSUME CapacityAssumption == CAPACITY \in Nat \ {0}
ASSUME IndexAssumption == FIRST \in Nat /\ LAST \in Nat
ASSUME DuplicatesAssumption == MaxDuplicates \in Nat
ASSUME ContentsAssumption == NoData \notin Nat /\ Torn \notin Nat

VARIABLES readerIndex,  \* reader_index_
          status,       \* status of each slot: "Empty", "Locked" or "Ready"
          data,         \* data of each slot
          reader,       \* where try_consume_next is
          item,         \* the reader's local copy
          writer,       \* where each writer's try_write_to is
          index,        \* each writer's index argument
          seenIndex,    \* the value of reader_index_ each writer loaded last
          verdict,      \* the WriteStatus each writer's last call returned
          stop,         \* stop_token.stop_requested()
          offered,      \* history: packets some writer has started to write
          duplicates,   \* history: how many packets were offered again
          written,      \* history: packets whose slot was marked Ready
          delivered     \* history: what the reader returned, in order

bufferVars == <<readerIndex, status, data>>
readerVars == <<reader, item, delivered>>
writerVars == <<writer, index, seenIndex, verdict, offered, duplicates, written>>
vars == <<bufferVars, readerVars, writerVars, stop>>

Packets == FIRST .. LAST
Slots == 0 .. CAPACITY - 1
Slot(n) == n % CAPACITY

\* Mutant: the whole ring may be written ahead of the reader.
WHOLE_RING_AHEAD == CAPACITY

MAX_INDEX_AHEAD == CAPACITY - 1

Init == /\ readerIndex = FIRST
        /\ status = [s \in Slots |-> "Empty"]
        /\ data = [s \in Slots |-> NoData]
        /\ reader = "check" /\ item = NoData
        /\ writer = [w \in Writers |-> "idle"]
        /\ index = [w \in Writers |-> FIRST]
        /\ seenIndex = [w \in Writers |-> FIRST]
        /\ verdict = [w \in Writers |-> "Success"]
        /\ stop = FALSE
        /\ offered = {} /\ duplicates = 0 /\ written = {}
        /\ delivered = <<>>

-----------------------------------------------------------------------------
(* The publisher thread: wait_consume_next(stop_token). *)

ReaderChecksStop ==
    /\ reader = "check"
    /\ reader' = IF stop THEN "done" ELSE "try"
    /\ UNCHANGED <<bufferVars, item, delivered, writerVars, stop>>

\* Mutant: any slot that is not Empty is taken for a full one.
ReaderTestsNotEmpty ==
    /\ reader = "try"
    /\ reader' = IF status[Slot(readerIndex)] # "Empty" THEN "copy" ELSE "check"
    /\ UNCHANGED <<bufferVars, item, delivered, writerVars, stop>>

\* The status load of try_consume_next.  The acquire load of a status that
\* is not Ready yet sends the caller round the loop.
ReaderTests ==
    /\ reader = "try"
    /\ reader' = IF status[Slot(readerIndex)] = "Ready" THEN "copy" ELSE "check"
    /\ UNCHANGED <<bufferVars, item, delivered, writerVars, stop>>

ReaderCopies ==
    /\ reader = "copy"
    /\ item' = data[Slot(readerIndex)]
    /\ reader' = "copied"
    /\ UNCHANGED <<bufferVars, delivered, writerVars, stop>>

\* reader_index_.fetch_add(1)
ReaderAdvances ==
    /\ reader = "copied"
    /\ readerIndex' = readerIndex + 1
    /\ reader' = "advanced"
    /\ UNCHANGED <<status, data, item, delivered, writerVars, stop>>

\* status.store(Empty); return item
ReaderReleases ==
    /\ reader = "advanced"
    /\ status' = [status EXCEPT ![Slot(readerIndex - 1)] = "Empty"]
    /\ delivered' = Append(delivered, item)
    /\ reader' = "check"
    /\ UNCHANGED <<readerIndex, data, item, writerVars, stop>>

-----------------------------------------------------------------------------
(* A writer thread: try_write_to(data, index). *)

At(w, pc) == writer[w] = pc
Goto(w, pc) == writer' = [writer EXCEPT ![w] = pc]
Return(w, result) == /\ verdict' = [verdict EXCEPT ![w] = result]
                     /\ Goto(w, "idle")

\* The thread has received packet n and calls try_write_to.  A packet is
\* offered again when UDP duplicated it, or when it arrived late after its
\* retransmission had been requested.
Offer(w, n) ==
    /\ At(w, "idle")
    /\ verdict[w] \in {"Success", "AlreadyWritten"}
    /\ ~stop
    /\ n \in offered => duplicates < MaxDuplicates
    /\ offered' = offered \cup {n}
    /\ duplicates' = IF n \in offered THEN duplicates + 1 ELSE duplicates
    /\ index' = [index EXCEPT ![w] = n]
    /\ Goto(w, "validate")
    /\ UNCHANGED <<bufferVars, readerVars, seenIndex, verdict, written, stop>>

\* Mutant: no bound on how far ahead of the reader a packet may be.
ValidateNoBound(w) ==
    /\ At(w, "validate")
    /\ \E r \in seenIndex[w] .. readerIndex :
          /\ seenIndex' = [seenIndex EXCEPT ![w] = r]
          /\ \/ index[w] < r /\ Return(w, "AlreadyWritten")
             \/ index[w] >= r /\ Goto(w, "claim") /\ UNCHANGED verdict
    /\ UNCHANGED <<bufferVars, readerVars, index, offered, duplicates, written,
                   stop>>

\* The load of reader_index_ and the comparisons of validate_and_claim_slot.
Validate(w) ==
    /\ At(w, "validate")
    /\ \E r \in seenIndex[w] .. readerIndex :
          /\ seenIndex' = [seenIndex EXCEPT ![w] = r]
          /\ \/ index[w] >= r + MAX_INDEX_AHEAD
                /\ Goto(w, "tooFar") /\ UNCHANGED verdict
             \/ index[w] < r
                /\ Return(w, "AlreadyWritten")
             \/ index[w] >= r /\ index[w] < r + MAX_INDEX_AHEAD
                /\ Goto(w, "claim") /\ UNCHANGED verdict
    /\ UNCHANGED <<bufferVars, readerVars, index, offered, duplicates, written,
                   stop>>

\* The packet is too far ahead: who is behind?  The caller
\* (write_market_data_to_reorder_buffer) turns either answer into a fatal
\* error, and its thread requests the stop.
Diagnose(w) ==
    /\ At(w, "tooFar")
    /\ Return(w, IF status[Slot(seenIndex[w])] = "Ready"
                 THEN "LikelySlowReader" ELSE "LikelySlowWriter")
    /\ stop' = TRUE
    /\ UNCHANGED <<bufferVars, readerVars, index, seenIndex, offered,
                   duplicates, written>>

\* Mutant: a slot that is not Ready is claimed, Locked or not.
ClaimUnlessReady(w) ==
    /\ At(w, "claim")
    /\ \/ /\ status[Slot(index[w])] # "Ready"
          /\ status' = [status EXCEPT ![Slot(index[w])] = "Locked"]
          /\ Goto(w, "claimed")
          /\ UNCHANGED verdict
       \/ /\ status[Slot(index[w])] = "Ready"
          /\ Return(w, "AlreadyWritten")
          /\ UNCHANGED status
    /\ UNCHANGED <<readerIndex, data, readerVars, index, seenIndex, offered,
                   duplicates, written, stop>>

\* try_claim_slot: compare_exchange_strong(Empty, Locked)
TryClaimSlot(w) ==
    /\ At(w, "claim")
    /\ \/ /\ status[Slot(index[w])] = "Empty"
          /\ status' = [status EXCEPT ![Slot(index[w])] = "Locked"]
          /\ Goto(w, "claimed")
          /\ UNCHANGED verdict
       \/ /\ status[Slot(index[w])] # "Empty"
          /\ Return(w, "AlreadyWritten")
          /\ UNCHANGED status
    /\ UNCHANGED <<readerIndex, data, readerVars, index, seenIndex, offered,
                   duplicates, written, stop>>

BeginCopy(w) ==
    /\ At(w, "claimed")
    /\ data' = [data EXCEPT ![Slot(index[w])] = Torn]
    /\ Goto(w, "copying")
    /\ UNCHANGED <<readerIndex, status, readerVars, index, seenIndex, verdict,
                   offered, duplicates, written, stop>>

EndCopy(w) ==
    /\ At(w, "copying")
    /\ data' = [data EXCEPT ![Slot(index[w])] = index[w]]
    /\ Goto(w, "copied")
    /\ UNCHANGED <<readerIndex, status, readerVars, index, seenIndex, verdict,
                   offered, duplicates, written, stop>>

\* Mutant: the Ready store is missing.
ForgetReady(w) ==
    /\ At(w, "copied")
    /\ written' = written \cup {index[w]}
    /\ Return(w, "Success")
    /\ UNCHANGED <<bufferVars, readerVars, index, seenIndex, offered,
                   duplicates, stop>>

\* status.store(Ready)
MarkReady(w) ==
    /\ At(w, "copied")
    /\ status' = [status EXCEPT ![Slot(index[w])] = "Ready"]
    /\ written' = written \cup {index[w]}
    /\ Return(w, "Success")
    /\ UNCHANGED <<readerIndex, data, readerVars, index, seenIndex, offered,
                   duplicates, stop>>

-----------------------------------------------------------------------------
\* A stop requested from outside the buffer's threads.
RequestStop == /\ ~stop
               /\ stop' = TRUE
               /\ UNCHANGED <<bufferVars, readerVars, writerVars>>

Reader == ReaderChecksStop \/ ReaderTests \/ ReaderCopies \/ ReaderAdvances
            \/ ReaderReleases
WriterStep(w) == Validate(w) \/ Diagnose(w) \/ TryClaimSlot(w) \/ BeginCopy(w)
                    \/ EndCopy(w) \/ MarkReady(w)

\* The publisher has returned and no writer is inside a call.
Finished == /\ reader = "done"
            /\ \A w \in Writers : At(w, "idle")
            /\ UNCHANGED vars

Next == \/ Reader
        \/ \E w \in Writers : WriterStep(w) \/ \E n \in Packets : Offer(w, n)
        \/ RequestStop
        \/ Finished

Spec == Init /\ [][Next]_vars

\* The publisher thread keeps polling, and a writer inside try_write_to (which
\* has no loop) returns.  Nothing makes a packet arrive.
FairSpec == /\ Spec
            /\ WF_vars(Reader)
            /\ \A w \in Writers : WF_vars(WriterStep(w))

-----------------------------------------------------------------------------
WriteStatus == {"LikelySlowReader", "LikelySlowWriter", "Success",
                "AlreadyWritten"}

\* Every variable has its type; in particular what the reader copied is a whole
\* packet, never Torn bytes.
TypeOK ==
    /\ readerIndex \in Nat
    /\ status \in [Slots -> {"Empty", "Locked", "Ready"}]
    /\ data \in [Slots -> Packets \cup {NoData, Torn}]
    /\ reader \in {"check", "try", "copy", "copied", "advanced", "done"}
    /\ item \in Packets \cup {NoData}
    /\ writer \in [Writers -> {"idle", "validate", "tooFar", "claim",
                               "claimed", "copying", "copied"}]
    /\ index \in [Writers -> Packets \cup {FIRST}]
    /\ seenIndex \in [Writers -> Nat]
    /\ verdict \in [Writers -> WriteStatus]
    /\ stop \in BOOLEAN
    /\ offered \subseteq Packets
    /\ duplicates \in Nat
    /\ written \subseteq Packets
    /\ delivered \in Seq(Packets)

Holding(w) == writer[w] \in {"claimed", "copying", "copied"}
Reading == reader \in {"copy", "copied"}

\* Locked belongs to one writer and Ready to the reader: no two threads are
\* ever inside the same slot's data, duplicates or not, so the publisher never
\* decodes a half-copied packet.
SlotExclusion ==
    /\ \A w \in Writers : Holding(w) => status[Slot(index[w])] = "Locked"
    /\ \A w, x \in Writers : w # x /\ Holding(w) /\ Holding(x)
           => Slot(index[w]) # Slot(index[x])
    /\ Reading => /\ status[Slot(readerIndex)] = "Ready"
                  /\ data[Slot(readerIndex)] # Torn

\* What the comment at reorder-buffer.hpp:85-90 promises of the order of the
\* reader's stores: stale data is never read as if it were new, so the
\* publisher hands out FIRST, FIRST + 1, ... with nothing skipped or repeated.
DeliveredInOrder ==
    \A i \in 1 .. Len(delivered) : delivered[i] = FIRST + i - 1

\* The promise as far as the code keeps it: as long as every packet is offered
\* once, in whatever order and by whichever thread, delivery is in order.
InOrderWithoutDuplicates == duplicates = 0 => DeliveredInOrder

\* "MAX_INDEX_AHEAD ensures that a far-ahead producer doesn't see the Ready
\* slot and silently drop new data" (reorder-buffer.hpp:88-90): a packet that
\* was never offered before is not answered AlreadyWritten.
NewDataIsNotDropped ==
    duplicates = 0 => \A w \in Writers : verdict[w] # "AlreadyWritten"

\* The publisher does not wait for ever at a packet that has been written:
\* the Ready mark is always found where the reader looks for it, so a packet is
\* consumed once it and all its predecessors have been written.
WrittenIsConsumed ==
    readerIndex \in written /\ reader \in {"check", "try"}
        ~> reader = "copy" \/ stop \/ duplicates > 0
=============================================================================
