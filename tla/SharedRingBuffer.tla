-------------------------- MODULE SharedRingBuffer --------------------------
(***************************************************************************)
(* includes/utils/ring-buffer.hpp: the single-producer single-consumer     *)
(* ring that items are copied into and out of.  head_ is the consumer's    *)
(* cursor and tail_ the producer's; both only grow.                        *)
(*                                                                         *)
(* An acquire load of the other side's cursor may return any value between *)
(* the one the same thread saw last and the newest.  A slot's storage is   *)
(* not atomic: it is Torn while an item is being constructed in it.        *)
(***************************************************************************)
EXTENDS Integers

CONSTANTS CAPACITY,
          Torn,         \* a slot that is being written
          NULL

ASSUME RingAssumption == CAPACITY \in Nat \ {0} /\ Torn # NULL

VARIABLES head, tail,           \* head_ and tail_
          slots,                \* buffer_
          seenHead, seenTail,   \* what producer and consumer loaded last
          pusher, popper,       \* where try_push_internal and try_pop are
          popped                \* try_pop's local `value'

ringVars == <<head, tail, slots, seenHead, seenTail, pusher, popper, popped>>
pushVars == <<tail, seenHead, pusher>>
popVars == <<head, seenTail, popper, popped>>

Slots == 0 .. CAPACITY - 1
Slot(sequence) == sequence % CAPACITY

empty(h, t) == h = t

\* Mutant: one more item than there are slots.
fullTooLate(h, t) == t - h = CAPACITY + 1

full(h, t) == t - h = CAPACITY

RingInit == /\ head = 0 /\ tail = 0
            /\ slots = [s \in Slots |-> NULL]
            /\ seenHead = 0 /\ seenTail = 0
            /\ pusher = "idle" /\ popper = "idle" /\ popped = NULL

-----------------------------------------------------------------------------
(* try_push_internal *)

PushTest ==
    /\ pusher = "idle"
    /\ \E h \in seenHead .. head :
         /\ seenHead' = h
         /\ pusher' = IF full(h, tail) THEN "full" ELSE "room"
    /\ UNCHANGED <<tail, slots, popVars>>

PushBegins ==
    /\ pusher = "room"
    /\ slots' = [slots EXCEPT ![Slot(tail)] = Torn]
    /\ pusher' = "constructing"
    /\ UNCHANGED <<tail, seenHead, popVars>>

\* The last byte of the item, and the release store of tail_.
PushEnds(item) ==
    /\ pusher = "constructing"
    /\ slots' = [slots EXCEPT ![Slot(tail)] = item]
    /\ tail' = tail + 1
    /\ pusher' = "idle"
    /\ UNCHANGED <<seenHead, popVars>>

-----------------------------------------------------------------------------
(* try_pop; wait_pop calls it until it has an item. *)

PopTest ==
    /\ popper = "idle"
    /\ \E t \in seenTail .. tail :
         /\ seenTail' = t
         /\ popper' = IF empty(head, t) THEN "idle" ELSE "item"
    /\ UNCHANGED <<head, slots, popped, pushVars>>

PopCopies ==
    /\ popper = "item"
    /\ popped' = slots[Slot(head)]
    /\ popper' = "copied"
    /\ UNCHANGED <<head, slots, seenTail, pushVars>>

PopReleases ==
    /\ popper = "copied"
    /\ head' = head + 1
    /\ popper' = "idle" /\ popped' = NULL
    /\ UNCHANGED <<slots, seenTail, pushVars>>

\* The items between the cursors.
Queued == {slots[Slot(i)] : i \in head .. tail - 1}
=============================================================================
