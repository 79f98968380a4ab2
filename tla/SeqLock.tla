------------------------------- MODULE SeqLock -------------------------------
(***************************************************************************)
(* includes/utils/seq-lock.hpp: one writer publishes snapshots (the order  *)
(* book engine its BBO), readers copy the newest one without ever blocking *)
(* the writer.  A trader reads the BBO with wait_read_next, which waits    *)
(* for a generation it has not seen, and risk data with read_latest.       *)
(*                                                                         *)
(* Memory model (the target is ARM64): generation is the list of all       *)
(* stores to generation_, in modification order.  A reader's acquire load  *)
(* may return any of them from the one it saw last on, and then sees at    *)
(* least the data stored before that (release) store.  The data is stored  *)
(* and loaded whole through atomic_ref but relaxed: a load may return any  *)
(* data stored since the newest the reader is known to see, so also data   *)
(* stored after a LOCKED mark that is not visible to it yet.               *)
(*                                                                         *)
(* The n-th snapshot written is the number n; 0 is uninitialised memory.   *)
(***************************************************************************)
EXTENDS Integers, Sequences, SequencesExt

CONSTANTS NextReaders,      \* readers that call wait_read_next
          LatestReaders,    \* readers that call read_latest
          LOCKED,           \* the largest size_t
          MaxWrites         \* bound: how many snapshots are written

ASSUME WritesAssumption == MaxWrites \in Nat
ASSUME LockedAssumption == LOCKED \in Nat /\ LOCKED > MaxWrites
ASSUME ReadersAssumption == NextReaders \cap LatestReaders = {}

Readers == NextReaders \cup LatestReaders

VARIABLES generation,   \* every store to generation_: its value, and how many
                        \* snapshots had been stored before it
          data,         \* how many snapshots have been stored in data_
          writer,       \* where write() is
          reader,       \* where each reader is
          seenStore,    \* the store to generation_ each reader saw last
          seenData,     \* the data each reader is known to see at least
          first,        \* first_generation of the running try_read
          copy,         \* the snapshot the running try_read has loaded
          tracker,      \* last_generation_seen_
          returned,     \* history: the snapshot each reader got last, or -1
          stop          \* stop_token.stop_requested()

lockVars == <<generation, data, writer>>
vars == <<lockVars, reader, seenStore, seenData, first, copy, tracker, returned,
          stop>>

\* Where the body of a reader's loop begins.
LoopOf(r) == IF r \in NextReaders THEN "peek" ELSE "first"

Init == /\ generation = <<[value |-> LOCKED, stored |-> 0]>>
        /\ data = 0
        /\ writer = "idle"
        /\ reader = [r \in Readers |-> LoopOf(r)]
        /\ seenStore = [r \in Readers |-> 1]
        /\ seenData = [r \in Readers |-> 0]
        /\ first = [r \in Readers |-> 0]
        /\ copy = [r \in Readers |-> 0]
        /\ tracker = [r \in Readers |-> 0]
        /\ returned = [r \in Readers |-> -1]
        /\ stop = FALSE

-----------------------------------------------------------------------------
(* write(): only this thread stores to generation_ and data_. *)

Store(value) == generation' = Append(generation, [value |-> value,
                                                  stored |-> data])
readersUnchanged == UNCHANGED <<reader, seenStore, seenData, first, copy,
                                tracker, returned, stop>>

\* size_t addition: LOCKED + 1 wraps to 0.
Successor(value) == (value + 1) % (LOCKED + 1)

BeginWrite ==
    /\ writer = "idle"
    /\ data < MaxWrites
    /\ Store(LOCKED)
    /\ writer' = "locked"
    /\ UNCHANGED data /\ readersUnchanged

StoreData ==
    /\ writer = "locked"
    /\ data' = data + 1
    /\ writer' = "stored"
    /\ UNCHANGED generation /\ readersUnchanged

\* Mutant: the generation is put back without counting the write.
EndWriteSameGeneration ==
    /\ writer = "stored"
    /\ Store(IF data = 1 THEN 0 ELSE generation[Len(generation) - 1].value)
    /\ writer' = "idle"
    /\ UNCHANGED data /\ readersUnchanged

\* previous_generation is the value BeginWrite covered with LOCKED.
EndWrite ==
    /\ writer = "stored"
    /\ Store(Successor(generation[Len(generation) - 1].value))
    /\ writer' = "idle"
    /\ UNCHANGED data /\ readersUnchanged

-----------------------------------------------------------------------------
(* The readers. *)

Goto(r, pc) == reader' = [reader EXCEPT ![r] = pc]

\* generation_.load(acquire) by r returns the i-th store.
Acquire(r, i) ==
    /\ i \in seenStore[r] .. Len(generation)
    /\ seenStore' = [seenStore EXCEPT ![r] = i]
    /\ seenData' = [seenData EXCEPT ![r] =
                       IF generation[i].stored > @ THEN generation[i].stored
                       ELSE @]

\* wait_read_next: nothing new since the last snapshot sends it round again.
Peek(r) ==
    /\ reader[r] = "peek" /\ ~stop
    /\ \E i \in DOMAIN generation :
          /\ Acquire(r, i)
          /\ Goto(r, IF generation[i].value = tracker[r] THEN "peek"
                     ELSE "first")
    /\ UNCHANGED <<lockVars, first, copy, tracker, returned, stop>>

\* Mutant: the lock is not looked at.
LoadFirstUnlocked(r) ==
    /\ reader[r] = "first" /\ ~stop
    /\ \E i \in DOMAIN generation :
          /\ Acquire(r, i)
          /\ Goto(r, "data")
          /\ first' = [first EXCEPT ![r] = generation[i].value]
    /\ UNCHANGED <<lockVars, copy, tracker, returned, stop>>

\* try_read and try_read_and_update, inside the loop of wait_read.
LoadFirst(r) ==
    /\ reader[r] = "first" /\ ~stop
    /\ \E i \in DOMAIN generation :
          /\ Acquire(r, i)
          /\ \/ /\ generation[i].value = LOCKED
                /\ Goto(r, "first") /\ UNCHANGED first
             \/ /\ generation[i].value # LOCKED
                /\ Goto(r, "data")
                /\ first' = [first EXCEPT ![r] = generation[i].value]
    /\ UNCHANGED <<lockVars, copy, tracker, returned, stop>>

LoadData(r) ==
    /\ reader[r] = "data"
    /\ \E d \in seenData[r] .. data :
          /\ copy' = [copy EXCEPT ![r] = d]
          /\ seenData' = [seenData EXCEPT ![r] = d]
    /\ Goto(r, "second")
    /\ UNCHANGED <<lockVars, seenStore, first, tracker, returned, stop>>

\* The snapshot counts only if the generation has not moved meanwhile.
LoadSecond(r) ==
    /\ reader[r] = "second"
    /\ \E i \in DOMAIN generation :
          /\ Acquire(r, i)
          /\ \/ /\ generation[i].value # first[r]
                /\ Goto(r, "first")
                /\ UNCHANGED <<tracker, returned>>
             \/ /\ generation[i].value = first[r]
                /\ returned' = [returned EXCEPT ![r] = copy[r]]
                /\ tracker' = IF r \in NextReaders
                              THEN [tracker EXCEPT ![r] = generation[i].value]
                              ELSE tracker
                /\ Goto(r, LoopOf(r))
    /\ UNCHANGED <<lockVars, first, copy, stop>>

\* Mutant: wait_read's own loop does not look at the token.
GiveUpPeeking(r) ==
    /\ stop /\ reader[r] = "peek"
    /\ Goto(r, "done")
    /\ UNCHANGED <<lockVars, seenStore, seenData, first, copy, tracker,
                   returned, stop>>

\* The loop conditions of wait_read_next, wait_read, wait_read_and_update.
GiveUp(r) ==
    /\ stop /\ reader[r] \in {"peek", "first"}
    /\ Goto(r, "done")
    /\ UNCHANGED <<lockVars, seenStore, seenData, first, copy, tracker,
                   returned, stop>>

-----------------------------------------------------------------------------
\* A store reaches every other thread in finite time.
StoresArrive(r) ==
    /\ seenStore[r] < Len(generation)
    /\ Acquire(r, Len(generation))
    /\ UNCHANGED <<lockVars, reader, first, copy, tracker, returned, stop>>

RequestStop == /\ ~stop
               /\ stop' = TRUE
               /\ UNCHANGED <<lockVars, reader, seenStore, seenData, first,
                              copy, tracker, returned>>

Write == BeginWrite \/ StoreData \/ EndWrite
FinishWrite == StoreData \/ EndWrite
Read(r) == Peek(r) \/ LoadFirst(r) \/ LoadData(r) \/ LoadSecond(r) \/ GiveUp(r)

\* Everyone has returned.
Finished == /\ \A r \in Readers : reader[r] = "done"
            /\ data = MaxWrites /\ writer = "idle"
            /\ UNCHANGED vars

Next == \/ Write
        \/ \E r \in Readers : Read(r) \/ StoresArrive(r)
        \/ RequestStop
        \/ Finished

Spec == Init /\ [][Next]_vars

\* The readers keep running and see what is stored; a write() that has begun
\* ends.  Nothing makes the writer begin another one.
FairSpec == /\ Spec
            /\ WF_vars(FinishWrite)
            /\ \A r \in Readers : WF_vars(Read(r)) /\ WF_vars(StoresArrive(r))

-----------------------------------------------------------------------------
\* "Set as locked when initialized to prevent readers from reading garbage"
\* (seq-lock.hpp:18), and no reader goes back in time: a read returns a
\* snapshot that was written, never one older than the reader had before.
ReadsNeverGoBack ==
    [][\A r \in Readers :
          returned'[r] # returned[r]
              => returned'[r] > returned[r] /\ returned'[r] > 0]_vars

\* "Capture the newest BBO snapshot" (trader.hpp:143): a snapshot that has been
\* written reaches a reader that keeps calling, unless it is told to stop.
NewestIsRead(n) ==
    \A r \in Readers : data >= n ~> returned[r] >= n \/ stop

\* ... for every snapshot but the first.
LaterSnapshotsAreRead == \A n \in 2 .. MaxWrites : NewestIsRead(n)
\* ... for the first.
FirstSnapshotIsRead == NewestIsRead(1)

\* A stop request ends every wait, also when nothing was ever written.
StopEndsReaders == \A r \in Readers : stop ~> reader[r] = "done"
=============================================================================
