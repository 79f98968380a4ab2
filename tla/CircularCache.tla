---------------------------- MODULE CircularCache ----------------------------
(***************************************************************************)
(* includes/utils/circular-cache.hpp: the exchange thread puts every       *)
(* message it sends, the retransmit thread fetches any of the last         *)
(* CAPACITY of them.  The putter never waits; each slot is a seqlock.      *)
(*                                                                         *)
(* Every atomic access is a step.  A message is too large to be lock-free, *)
(* so std::atomic stores and loads it under a lock, which orders it with   *)
(* the accesses to the slot's sequence number around it.  Message n is the *)
(* number n; 0 is the value-initialised message of a slot never put to.    *)
(*                                                                         *)
(* The putter counts in 64 bits, the slots and the fetcher in 32: an index *)
(* is narrowed when it is stored and when it is asked for, and the largest *)
(* 32-bit index is also what a locked slot holds.                          *)
(***************************************************************************)
EXTENDS Integers

CONSTANTS CAPACITY,     \* RETRANSMIT_CACHE_SIZE
          INDEX_RANGE   \* values of the type Index, a uint32_t

ASSUME CacheAssumption == /\ CAPACITY \in Nat \ {0} /\ INDEX_RANGE \in Nat \ {0}
                          /\ INDEX_RANGE % CAPACITY = 0

VARIABLES write_index,  \* items put so far
          sequence,     \* sequence_: the index of the item in each slot
          buffer,       \* buffer_
          putter        \* where put_item is

cacheVars == <<write_index, sequence, buffer, putter>>

Slots == 0 .. CAPACITY - 1
Slot(i) == i % CAPACITY

\* The conversion of a 64-bit index to Index.
Narrow(i) == i % INDEX_RANGE
IS_LOCKED == INDEX_RANGE - 1

\* std::atomic value-initialises: every sequence number starts at 0.
CacheInit == /\ write_index = 0
             /\ sequence = [s \in Slots |-> 0]
             /\ buffer = [s \in Slots |-> 0]
             /\ putter = "idle"

LockSlot ==
    /\ putter = "idle"
    /\ sequence' = [sequence EXCEPT ![Slot(write_index)] = IS_LOCKED]
    /\ putter' = "locked"
    /\ UNCHANGED <<write_index, buffer>>

StoreItem(item) ==
    /\ putter = "locked"
    /\ buffer' = [buffer EXCEPT ![Slot(write_index)] = item]
    /\ putter' = "stored"
    /\ UNCHANGED <<write_index, sequence>>

\* Mutant: write_index_ is advanced before the slot is released.
AdvanceThenRelease ==
    /\ putter = "stored"
    /\ sequence' = [sequence EXCEPT ![Slot(write_index)] = Narrow(write_index + 1)]
    /\ write_index' = write_index + 1
    /\ putter' = "put"
    /\ UNCHANGED buffer

ReleaseSlot ==
    /\ putter = "stored"
    /\ sequence' = [sequence EXCEPT ![Slot(write_index)] = Narrow(write_index)]
    /\ write_index' = write_index + 1
    /\ putter' = "put"
    /\ UNCHANGED buffer

\* What try_get_item(i) answers after its first load of the sequence number.
Lookup(i) ==
    LET item_index == Narrow(i)
        seq_before == sequence[Slot(item_index)]
    IN  CASE seq_before = IS_LOCKED -> "ConcurrentWrite"
          [] seq_before # IS_LOCKED /\ seq_before < item_index -> "DataDoesNotExist"
          [] seq_before # IS_LOCKED /\ seq_before > item_index -> "DataTooOld"
          [] OTHER -> "Found"

\* The item it loads then.
Loaded(i) == buffer[Slot(Narrow(i))]

\* ... and after its second load, having found i before.
StillThere(i) == sequence[Slot(Narrow(i))] = Narrow(i)
=============================================================================
