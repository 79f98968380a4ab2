--------------------------- MODULE LazyRingBuffer ---------------------------
(***************************************************************************)
(* includes/utils/lazy-ring-buffer.hpp: the claim-then-publish ring that   *)
(* carries events between two threads.  The producer thread runs           *)
(*     while (slot = wait_get_head_ref(stop)) { *slot = v; publish(); }    *)
(* and the consumer thread                                                 *)
(*     while (slot = wait_get_tail_ref(stop)) { read *slot; consume(); }   *)
(* as the exchange simulator, the market-data handler and the strategy     *)
(* threads do.                                                             *)
(*                                                                         *)
(* Memory model: each endpoint owns one cursor.  An acquire load of the    *)
(* other endpoint's cursor may return any value stored since the one this  *)
(* endpoint saw last (coherence), so seenTail and seenHead may lag.  A     *)
(* slot is not atomic: it is Torn between the first and the last byte the  *)
(* producer writes.  The cursors are 64 bits wide in the code and are      *)
(* natural numbers here: 2^64 items are never reached, and CAPACITY        *)
(* divides 2^64, so `head - tail' and `cursor & MASK' agree with - and %.  *)
(***************************************************************************)
EXTENDS Naturals, Sequences

CONSTANTS Values,       \* what the producer may store in a slot
          CAPACITY,     \* number of slots
          MaxItems,     \* bound: how many items the producer publishes
          NoValue,      \* contents of a default-initialised slot
          Torn          \* contents of a slot that is being written

\* The template's static_assert; the power of two only makes & MASK equal %.
ASSUME CapacityAssumption == CAPACITY \in Nat \ {0}
ASSUME MaxItemsAssumption == MaxItems \in Nat
ASSUME ValuesAssumption == NoValue \notin Values /\ Torn \notin Values

VARIABLES head, tail,       \* the two atomic cursors
          buffer,           \* the slots
          seenTail,         \* the value of tail the producer loaded last
          seenHead,         \* the value of head the consumer loaded last
          stop,             \* stop_token.stop_requested()
          producer,         \* where the producer thread is
          consumer,         \* where the consumer thread is
          got,              \* what the consumer read from the claimed slot
          delivered         \* what the consumer had read when it last released

vars == <<head, tail, buffer, seenTail, seenHead, stop, producer, consumer,
          got, delivered>>

Slot(cursor) == cursor % CAPACITY

Init == /\ head = 0 /\ tail = 0
        /\ buffer = [s \in 0 .. CAPACITY - 1 |-> NoValue]
        /\ seenTail = 0 /\ seenHead = 0
        /\ stop = FALSE
        /\ producer = "check" /\ consumer = "check"
        /\ got = NoValue /\ delivered = NoValue

\* Mutants: an off-by-one in full, an emptiness test that never holds.
full_off_by_one(h, t) == h - t > CAPACITY
empty_inverted(h, t) == h < t

full(h, t) == h - t = CAPACITY
empty(h, t) == h = t

-----------------------------------------------------------------------------
(* The producer thread. *)

producerUnchanged == UNCHANGED <<head, seenTail, producer, buffer>>
consumerUnchanged == UNCHANGED <<tail, seenHead, consumer, got, delivered>>

\* Mutant: the overload without a stop token.
ProducerIgnoresStop ==
    /\ producer = "check"
    /\ stop \/ head < MaxItems
    /\ producer' = "try"
    /\ UNCHANGED <<head, seenTail, buffer, stop>> /\ consumerUnchanged

\* The loop condition of wait_get_head_ref(stop_token).
ProducerChecksStop ==
    /\ producer = "check"
    /\ stop \/ head < MaxItems
    /\ producer' = IF stop THEN "done" ELSE "try"
    /\ UNCHANGED <<head, seenTail, buffer, stop>> /\ consumerUnchanged

\* Mutant: the claim does not look at the consumer's cursor.
ClaimWithoutTest ==
    /\ producer = "try"
    /\ producer' = "claimed"
    /\ UNCHANGED <<head, seenTail, buffer, stop>> /\ consumerUnchanged

\* try_get_head_ref(): a full ring sends the caller round the loop again.
TryGetHeadRef ==
    /\ producer = "try"
    /\ \E t \in seenTail .. tail :
          /\ seenTail' = t
          /\ producer' = IF full(head, t) THEN "check" ELSE "claimed"
    /\ UNCHANGED <<head, buffer, stop>> /\ consumerUnchanged

\* The caller assigns to the claimed slot: a first and a last byte.
BeginWrite ==
    /\ producer = "claimed"
    /\ buffer' = [buffer EXCEPT ![Slot(head)] = Torn]
    /\ producer' = "writing"
    /\ UNCHANGED <<head, seenTail, stop>> /\ consumerUnchanged

EndWrite ==
    /\ producer = "writing"
    /\ \E v \in Values : buffer' = [buffer EXCEPT ![Slot(head)] = v]
    /\ producer' = "written"
    /\ UNCHANGED <<head, seenTail, stop>> /\ consumerUnchanged

publish ==
    /\ producer = "written"
    /\ head' = head + 1
    /\ producer' = "check"
    /\ UNCHANGED <<seenTail, buffer, stop>> /\ consumerUnchanged

-----------------------------------------------------------------------------
(* The consumer thread. *)

ConsumerChecksStop ==
    /\ consumer = "check"
    /\ consumer' = IF stop THEN "done" ELSE "try"
    /\ UNCHANGED <<tail, seenHead, got, delivered, stop>> /\ producerUnchanged

\* Mutant: an empty ring ends the consumer's loop.
GiveUpWhenEmpty ==
    /\ consumer = "try"
    /\ \E h \in seenHead .. head :
          /\ seenHead' = h
          /\ consumer' = IF empty(h, tail) THEN "done" ELSE "claimed"
    /\ UNCHANGED <<tail, got, delivered, stop>> /\ producerUnchanged

TryGetTailRef ==
    /\ consumer = "try"
    /\ \E h \in seenHead .. head :
          /\ seenHead' = h
          /\ consumer' = IF empty(h, tail) THEN "check" ELSE "claimed"
    /\ UNCHANGED <<tail, got, delivered, stop>> /\ producerUnchanged

ReadSlot ==
    /\ consumer = "claimed"
    /\ got' = buffer[Slot(tail)]
    /\ consumer' = "read"
    /\ UNCHANGED <<tail, seenHead, delivered, stop>> /\ producerUnchanged

\* Mutant: everything seen so far is released at once.
consume_all ==
    /\ consumer = "read"
    /\ tail' = seenHead
    /\ delivered' = got
    /\ consumer' = "check"
    /\ UNCHANGED <<seenHead, got, stop>> /\ producerUnchanged

consume ==
    /\ consumer = "read"
    /\ tail' = tail + 1
    /\ delivered' = got
    /\ consumer' = "check"
    /\ UNCHANGED <<seenHead, got, stop>> /\ producerUnchanged

-----------------------------------------------------------------------------
\* Any thread that holds the stop source may request the stop, once.
RequestStop ==
    /\ ~stop
    /\ stop' = TRUE
    /\ producerUnchanged /\ consumerUnchanged

\* Both threads have returned; start() joins them.
Joined == producer = "done" /\ consumer = "done" /\ UNCHANGED vars

Producer == ProducerChecksStop \/ TryGetHeadRef \/ BeginWrite \/ EndWrite
                \/ publish
Consumer == ConsumerChecksStop \/ TryGetTailRef \/ ReadSlot \/ consume

Next == Producer \/ Consumer \/ RequestStop \/ Joined

Spec == Init /\ [][Next]_vars

\* Each thread keeps running (WFE never parks a thread for good, because SEVL
\* precedes it), and a store becomes visible to the other thread in finite
\* time, so a claim that could succeed is not refused for ever.
ClaimHead == TryGetHeadRef /\ producer' = "claimed"
ClaimTail == TryGetTailRef /\ consumer' = "claimed"
FairSpec == /\ Spec
            /\ WF_vars(Producer) /\ WF_vars(Consumer)
            /\ SF_vars(ClaimHead) /\ SF_vars(ClaimTail)

-----------------------------------------------------------------------------
Slots == 0 .. CAPACITY - 1

\* Every variable has its type, and the cursors are never further apart than the
\* ring is long: head - tail, unsigned in full(), never wraps.
TypeOK ==
    /\ head \in Nat /\ tail \in Nat
    /\ tail <= head /\ head - tail <= CAPACITY
    /\ buffer \in [Slots -> Values \cup {NoValue, Torn}]
    /\ seenTail \in Nat /\ seenHead \in Nat
    /\ stop \in BOOLEAN
    /\ producer \in {"check", "try", "claimed", "writing", "written", "done"}
    /\ consumer \in {"check", "try", "claimed", "read", "done"}
    /\ got \in Values \cup {NoValue, Torn}
    /\ delivered \in Values \cup {NoValue, Torn}

ProducerHolds == producer \in {"claimed", "writing", "written"}
ConsumerHolds == consumer \in {"claimed", "read"}

\* The two endpoints never hold the same slot, however stale the cursor each
\* of them decided on: no data race on the slot's bytes, and the consumer
\* never moves out a half-written element (lazy-ring-buffer.hpp:15-18).
NoDataRace ==
    ProducerHolds /\ ConsumerHolds => Slot(head) # Slot(tail)

\* "A claimed reference remains valid until its endpoint advances its
\* corresponding cursor" (lazy-ring-buffer.hpp:17-18): whatever the other
\* thread does, a slot the consumer holds keeps a whole, published value.
ClaimStaysValid ==
    [][ConsumerHolds => /\ buffer[Slot(tail)] \in Values
                        /\ buffer'[Slot(tail)] = buffer[Slot(tail)]]_vars

\* The ring implements a bounded FIFO: publish() is Put, consume() is Get of
\* the oldest published value, every other step changes nothing the endpoints
\* can observe.
Fifo == INSTANCE BoundedFifo WITH
          queue <- [i \in 1 .. (head - tail) |-> buffer[Slot(tail + i - 1)]],
          delivered <- delivered
ImplementsFifo == Fifo!FifoSpec

\* Everything published is consumed unless the threads are told to stop.
PublishedIsConsumed ==
    \A n \in 1 .. MaxItems : head >= n ~> tail >= n \/ stop

\* After a stop request both wait loops return, whatever state the ring is in:
\* joining the threads does not hang on a full or an empty ring.
StopEndsBothLoops ==
    stop ~> producer = "done" /\ consumer = "done"
=============================================================================
