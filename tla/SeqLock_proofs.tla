--------------------------- MODULE SeqLock_proofs ---------------------------
(***************************************************************************)
(* For every number of readers and of snapshots, under the memory model of *)
(* SeqLock: no generation is given twice, so a reader that finds the same  *)
(* generation again has seen no write end in between, and no reader goes   *)
(* back in time or returns uninitialised memory.                           *)
(*                                                                         *)
(* Two facts carry the argument.  GenerationInv says what each store to    *)
(* generation_ tells: a value other than LOCKED is stored only after a     *)
(* snapshot.  ReaderInv follows the happens-before order: a reader that    *)
(* has acquired such a value sees at least that snapshot, what it returned *)
(* before is no newer than what it is known to see, and its copy is no     *)
(* older than that.                                                        *)
(***************************************************************************)
EXTENDS SeqLock, TLAPS

Places == {"peek", "first", "data", "second", "done"}

\* The stores to generation_.
Stores == [value : Nat, stored : Nat]

TypeInv ==
    /\ generation \in Seq(Stores)
    /\ data \in Nat /\ data <= MaxWrites
    /\ writer \in {"idle", "locked", "stored"}
    /\ reader \in [Readers -> Places]
    /\ seenStore \in [Readers -> Nat]
    /\ seenData \in [Readers -> Nat]
    /\ first \in [Readers -> Nat]
    /\ copy \in [Readers -> Nat]
    /\ returned \in [Readers -> Int]

\* What the stores to generation_ are: LOCKED while it is initialised, then
\* for each write() a LOCKED mark and the number of the write, from 0.
StoreIsCounted(i) ==
    LET n == generation[i].stored
    IN  \/ /\ i = 2 * n + 1
           /\ generation[i].value = IF n = 0 THEN LOCKED ELSE n - 1
        \/ i = 2 * n + 2 /\ generation[i].value = LOCKED

GenerationInv ==
    /\ \A i \in 1 .. Len(generation) :
          generation[i].stored <= data /\ StoreIsCounted(i)
    /\ Len(generation) = CASE writer = "idle"   -> 2 * data + 1
                           [] writer = "locked" -> 2 * data + 2
                           [] writer = "stored" -> 2 * data
    /\ writer = "locked" => data < MaxWrites
    /\ writer = "stored" => data > 0

\* What each reader is known to see.
ReaderInv ==
    \A r \in Readers :
        /\ seenData[r] <= data
        /\ returned[r] <= seenData[r]
        /\ reader[r] \in {"data", "second"} => seenData[r] > 0
        /\ reader[r] = "second" => /\ copy[r] > 0 /\ copy[r] <= seenData[r]
                                   /\ copy[r] >= returned[r]

LockInv == TypeInv /\ GenerationInv /\ ReaderInv

\* No two stores to generation_ have the same value, except LOCKED marks.
GenerationsNeverRepeat ==
    \A i, j \in 1 .. Len(generation) :
        generation[i].value = generation[j].value
            => i = j \/ generation[i].value = LOCKED

-----------------------------------------------------------------------------
\* The constructor's store of LOCKED is the first.
LEMMA LockInit == Init => LockInv
  <1> SUFFICES ASSUME Init PROVE LockInv
    OBVIOUS
  <1>0. MaxWrites \in Nat /\ LOCKED \in Nat
    BY WritesAssumption, LockedAssumption
  <1>1. /\ generation = <<[value |-> LOCKED, stored |-> 0]>>
        /\ Len(generation) = 1 /\ generation[1] = [value |-> LOCKED, stored |-> 0]
    BY DEF Init
  <1>2. generation \in Seq(Stores)
    BY <1>0, <1>1 DEF Stores
  <1>3. data = 0 /\ writer = "idle"
    BY DEF Init
  <1>4. TypeInv
    BY <1>0, <1>2 DEF Init, TypeInv, LoopOf, Places
  <1>5. GenerationInv
    <2>1. \A i \in 1 .. Len(generation) : i = 1 /\ generation[i].stored = 0
                                          /\ generation[i].value = LOCKED
      BY <1>1
    <2> QED
      BY <2>1, <1>1, <1>3 DEF GenerationInv, StoreIsCounted
  <1>6. ReaderInv
    BY DEF Init, ReaderInv, LoopOf
  <1> QED
    BY <1>4, <1>5, <1>6 DEF LockInv

-----------------------------------------------------------------------------
(* write() *)

\* A store at the end of generation_ leaves the earlier ones alone.
LEMMA StoreAppends ==
    ASSUME TypeInv, NEW v \in Nat, Store(v)
    PROVE  /\ generation' \in Seq(Stores)
           /\ Len(generation') = Len(generation) + 1
           /\ \A i \in 1 .. Len(generation) : generation'[i] = generation[i]
           /\ generation'[Len(generation) + 1].value = v
           /\ generation'[Len(generation) + 1].stored = data
  <1>1. generation \in Seq(Stores) /\ data \in Nat
    BY DEF TypeInv
  <1> DEFINE e == [value |-> v, stored |-> data]
  <1>2. e \in Stores /\ e.value = v /\ e.stored = data
    BY <1>1 DEF Stores
  <1>3. generation' = Append(generation, e)
    BY DEF Store
  <1> HIDE DEF e
  <1> QED
    BY <1>1, <1>2, <1>3

\* What write() does leaves what the readers know true.
LEMMA WriterKeepsReaders ==
    ASSUME TypeInv, ReaderInv, readersUnchanged, data' \in Nat, data' >= data
    PROVE  ReaderInv'
  <1>1. \A r \in Readers : /\ seenData'[r] = seenData[r] /\ returned'[r] = returned[r]
                           /\ reader'[r] = reader[r] /\ copy'[r] = copy[r]
                           /\ seenData[r] \in Nat
    BY DEF readersUnchanged, TypeInv
  <1>2. data \in Nat
    BY DEF TypeInv
  <1> QED
    BY <1>1, <1>2 DEF ReaderInv

\* The two stores of a write() and the memcpy between them.
LEMMA WriterKeepsInv ==
    ASSUME LockInv, Write PROVE LockInv'
  <1> USE DEF LockInv
  <1>0. /\ MaxWrites \in Nat /\ LOCKED \in Nat /\ LOCKED > MaxWrites /\ data \in Nat
        /\ data <= MaxWrites /\ Len(generation) \in Nat
    BY WritesAssumption, LockedAssumption DEF TypeInv
  <1>t. \A i \in 1 .. Len(generation) : generation[i].value \in Nat /\ generation[i].stored \in Nat
    <2>1. \A i \in 1 .. Len(generation) : generation[i] \in Stores
      BY DEF TypeInv
    <2> QED
      BY <2>1 DEF Stores
  <1>1. CASE BeginWrite
    <2>1. /\ writer = "idle" /\ data < MaxWrites /\ Store(LOCKED) /\ writer' = "locked"
          /\ data' = data /\ readersUnchanged
      BY <1>1 DEF BeginWrite
    <2>2. /\ generation' \in Seq(Stores)
          /\ Len(generation') = Len(generation) + 1
          /\ \A i \in 1 .. Len(generation) : generation'[i] = generation[i]
          /\ generation'[Len(generation) + 1].value = LOCKED
          /\ generation'[Len(generation) + 1].stored = data
      BY <2>1, <1>0, StoreAppends
    <2>3. TypeInv'
      BY <2>1, <2>2 DEF TypeInv, readersUnchanged
    <2>4. Len(generation) = 2 * data + 1
      BY <2>1 DEF GenerationInv
    <2>5. ASSUME NEW i \in 1 .. Len(generation')
          PROVE  generation'[i].stored <= data' /\ StoreIsCounted(i)'
      <3>1. CASE i = Len(generation) + 1
        BY <3>1, <2>1, <2>2, <2>4, <1>0 DEF StoreIsCounted
      <3>2. CASE i # Len(generation) + 1
        <4>0. i \in 1 .. Len(generation)
          BY <3>2, <2>2, <1>0
        <4>1. i \in 1 .. Len(generation) /\ generation'[i] = generation[i]
          BY <4>0, <2>2
        <4>2. generation[i].stored <= data /\ StoreIsCounted(i)
          BY <4>1 DEF GenerationInv
        <4> QED
          BY <4>1, <4>2, <2>1 DEF StoreIsCounted
      <3> QED
        BY <3>1, <3>2
    <2>6. GenerationInv'
      BY ONLY <2>1, <2>2, <2>4, <2>5, <1>0 DEF GenerationInv
    <2>7. ReaderInv'
      BY <2>1, <1>0, WriterKeepsReaders
    <2> QED
      BY <2>3, <2>6, <2>7
  <1>2. CASE StoreData
    <2>1. /\ writer = "locked" /\ data' = data + 1 /\ writer' = "stored"
          /\ generation' = generation /\ readersUnchanged
      BY <1>2 DEF StoreData
    <2>2. data < MaxWrites /\ Len(generation) = 2 * data + 2
      BY <2>1 DEF GenerationInv
    <2>3. TypeInv'
      BY <2>1, <2>2, <1>0 DEF TypeInv, readersUnchanged
    <2>4. ASSUME NEW i \in 1 .. Len(generation)
          PROVE  generation'[i].stored <= data' /\ StoreIsCounted(i)'
      BY <2>1, <1>0, <1>t DEF GenerationInv, StoreIsCounted
    <2>5. GenerationInv'
      BY ONLY <2>1, <2>2, <2>4, <1>0, SMTT(60) DEF GenerationInv
    <2>6. ReaderInv'
      BY <2>1, <1>0, WriterKeepsReaders
    <2> QED
      BY <2>3, <2>5, <2>6
  <1>3. CASE EndWrite
    <2> DEFINE old == generation[Len(generation) - 1].value
    <2>1. /\ writer = "stored" /\ Store(Successor(old)) /\ writer' = "idle"
          /\ data' = data /\ readersUnchanged
      BY <1>3 DEF EndWrite
    <2>2. Len(generation) = 2 * data /\ data > 0
      BY <2>1 DEF GenerationInv
    <2>3. Len(generation) - 1 \in 1 .. Len(generation)
      BY <2>2, <1>0
    <2>4. old = IF data = 1 THEN LOCKED ELSE data - 2
      <3> DEFINE n == generation[Len(generation) - 1].stored
      <3>1. n \in Nat /\ StoreIsCounted(Len(generation) - 1)
        BY <2>3, <1>t DEF GenerationInv
      <3>2. \/ Len(generation) - 1 = 2 * n + 1 /\ old = (IF n = 0 THEN LOCKED ELSE n - 1)
            \/ Len(generation) - 1 = 2 * n + 2 /\ old = LOCKED
        BY <3>1 DEF StoreIsCounted
      <3> HIDE DEF n, old
      <3> QED
        BY <3>1, <3>2, <2>2, <1>0
    <2> HIDE DEF old
    <2>5. Successor(old) = data - 1
      BY <2>2, <2>4, <1>0 DEF Successor
    <2>6. /\ generation' \in Seq(Stores)
          /\ Len(generation') = Len(generation) + 1
          /\ \A i \in 1 .. Len(generation) : generation'[i] = generation[i]
          /\ generation'[Len(generation) + 1].value = data - 1
          /\ generation'[Len(generation) + 1].stored = data
      BY <2>1, <2>2, <2>5, <1>0, StoreAppends
    <2>7. TypeInv'
      BY <2>1, <2>6 DEF TypeInv, readersUnchanged
    <2>8. ASSUME NEW i \in 1 .. Len(generation')
          PROVE  generation'[i].stored <= data' /\ StoreIsCounted(i)'
      <3>1. CASE i = Len(generation) + 1
        BY <3>1, <2>1, <2>2, <2>6, <1>0 DEF StoreIsCounted
      <3>2. CASE i # Len(generation) + 1
        <4>1. i \in 1 .. Len(generation) /\ generation'[i] = generation[i]
          BY <3>2, <2>6, <1>0
        <4>2. generation[i].stored <= data /\ StoreIsCounted(i)
          BY <4>1 DEF GenerationInv
        <4> QED
          BY <4>1, <4>2, <2>1 DEF StoreIsCounted
      <3> QED
        BY <3>1, <3>2
    <2>9. GenerationInv'
      BY <2>1, <2>2, <2>6, <2>8, <1>0 DEF GenerationInv
    <2>10. ReaderInv'
      BY <2>1, <1>0, WriterKeepsReaders
    <2> QED
      BY <2>7, <2>9, <2>10
  <1> QED
    BY <1>1, <1>2, <1>3 DEF Write

-----------------------------------------------------------------------------
(* The readers. *)

\* An acquire load only adds to what the reader is known to see, and a value
\* other than LOCKED brings a snapshot with it.
LEMMA AcquireSees ==
    ASSUME LockInv, NEW r \in Readers, NEW i \in DOMAIN generation, Acquire(r, i)
    PROVE  /\ seenStore' \in [Readers -> Nat] /\ seenData' \in [Readers -> Nat]
           /\ seenData'[r] >= seenData[r] /\ seenData'[r] <= data
           /\ generation[i].value # LOCKED => seenData'[r] > 0
           /\ generation[i].value \in Nat
           /\ \A x \in Readers \ {r} : seenData'[x] = seenData[x]
  <1>1. /\ seenStore \in [Readers -> Nat] /\ seenData \in [Readers -> Nat]
        /\ data \in Nat /\ generation \in Seq(Stores)
    BY DEF LockInv, TypeInv
  <1>2. i \in 1 .. Len(generation) /\ i \in Nat
    BY <1>1
  <1>3. generation[i] \in Stores
    BY <1>1, <1>2
  <1>4. generation[i].stored \in Nat /\ generation[i].value \in Nat
    BY <1>3 DEF Stores
  <1>5. generation[i].stored <= data /\ StoreIsCounted(i)
    BY <1>2 DEF LockInv, GenerationInv
  <1>6. seenData[r] \in Nat /\ seenData[r] <= data
    BY <1>1 DEF LockInv, ReaderInv
  <1> DEFINE n == generation[i].stored
             d == IF n > seenData[r] THEN n ELSE seenData[r]
  <1>7. generation[i].value # LOCKED => n > 0
    BY <1>4, <1>5 DEF StoreIsCounted
  <1>8. seenStore' = [seenStore EXCEPT ![r] = i] /\ seenData' = [seenData EXCEPT ![r] = d]
    BY DEF Acquire
  <1>9. d \in Nat /\ d >= seenData[r] /\ d <= data /\ d >= n
    BY <1>1, <1>4, <1>5, <1>6
  <1> HIDE DEF n, d
  <1>10. /\ seenData'[r] = d /\ \A x \in Readers \ {r} : seenData'[x] = seenData[x]
         /\ seenStore' \in [Readers -> Nat] /\ seenData' \in [Readers -> Nat]
    BY <1>1, <1>2, <1>8, <1>9
  <1>11. generation[i].value # LOCKED => d > 0
    BY <1>4, <1>7, <1>9 DEF n
  <1> QED
    BY <1>4, <1>9, <1>10, <1>11

\* The facts about the one reader that moves are enough.
LEMMA ReaderStep ==
    ASSUME LockInv, UNCHANGED lockVars, TypeInv', NEW r \in Readers,
           \A x \in Readers \ {r} : /\ seenData'[x] = seenData[x]
                                    /\ returned'[x] = returned[x]
                                    /\ reader'[x] = reader[x]
                                    /\ copy'[x] = copy[x],
           seenData'[r] <= data, returned'[r] <= seenData'[r],
           reader'[r] \in {"data", "second"} => seenData'[r] > 0,
           reader'[r] = "second" => /\ copy'[r] > 0 /\ copy'[r] <= seenData'[r]
                                    /\ copy'[r] >= returned'[r]
    PROVE  LockInv'
  <1>1. GenerationInv'
    BY DEF LockInv, lockVars, GenerationInv, StoreIsCounted
  <1>2. ReaderInv'
    BY DEF LockInv, lockVars, ReaderInv
  <1> QED
    BY <1>1, <1>2 DEF LockInv

\* A reader's step, which returns only newer data than it returned before.
LEMMA ReaderKeepsInv ==
    ASSUME LockInv, NEW r \in Readers, Read(r) \/ StoresArrive(r)
    PROVE  /\ LockInv'
           /\ returned'[r] # returned[r] => returned'[r] > returned[r] /\ returned'[r] > 0
           /\ \A x \in Readers \ {r} : returned'[x] = returned[x]
  <1> DEFINE Goal == /\ LockInv'
                     /\ returned'[r] # returned[r]
                           => returned'[r] > returned[r] /\ returned'[r] > 0
                     /\ \A x \in Readers \ {r} : returned'[x] = returned[x]
  <1>a. /\ data \in Nat /\ reader \in [Readers -> Places]
        /\ seenStore \in [Readers -> Nat] /\ seenData \in [Readers -> Nat]
        /\ first \in [Readers -> Nat] /\ copy \in [Readers -> Nat]
        /\ returned \in [Readers -> Int] /\ TypeInv
    BY DEF LockInv, TypeInv
  <1>b. /\ seenData[r] <= data /\ returned[r] <= seenData[r]
        /\ reader[r] \in {"data", "second"} => seenData[r] > 0
        /\ reader[r] = "second" => /\ copy[r] > 0 /\ copy[r] <= seenData[r]
                                   /\ copy[r] >= returned[r]
    BY DEF LockInv, ReaderInv
  <1>c. LoopOf(r) \in {"peek", "first"}
    BY DEF LoopOf
  <1>1. ASSUME NEW i \in DOMAIN generation, Acquire(r, i), NEW pc \in Places \ {"second"},
               reader' = [reader EXCEPT ![r] = pc],
               pc = "data" => generation[i].value # LOCKED,
               first' = first \/ first' = [first EXCEPT ![r] = generation[i].value],
               UNCHANGED <<lockVars, copy, returned>>
        PROVE  Goal
    <2>1. /\ seenStore' \in [Readers -> Nat] /\ seenData' \in [Readers -> Nat]
          /\ seenData'[r] >= seenData[r] /\ seenData'[r] <= data
          /\ generation[i].value # LOCKED => seenData'[r] > 0
          /\ generation[i].value \in Nat
          /\ \A x \in Readers \ {r} : seenData'[x] = seenData[x]
      BY <1>1, AcquireSees
    <2>2. /\ reader' \in [Readers -> Places] /\ reader'[r] = pc
          /\ \A x \in Readers \ {r} : reader'[x] = reader[x]
      BY <1>1, <1>a
    <2>3. first' \in [Readers -> Nat]
      BY <1>1, <1>a, <2>1
    <2>4. TypeInv'
      BY <1>1, <1>a, <2>1, <2>2, <2>3 DEF TypeInv, lockVars
    <2>5. seenData[r] \in Nat /\ seenData'[r] \in Nat /\ returned[r] \in Int
      BY <1>a, <2>1
    <2>6. returned'[r] <= seenData'[r]
      BY <1>1, <1>b, <2>1, <2>5
    <2>7. LockInv'
      BY <1>1, <2>1, <2>2, <2>4, <2>6, ReaderStep
    <2> QED
      BY <1>1, <2>7
  <1>2. CASE Peek(r)
    <2>1. PICK i \in DOMAIN generation :
             /\ Acquire(r, i)
             /\ Goto(r, IF generation[i].value = tracker[r] THEN "peek" ELSE "first")
      BY <1>2 DEF Peek
    <2>2. UNCHANGED <<lockVars, first, copy, returned>>
      BY <1>2 DEF Peek
    <2> DEFINE pc == IF generation[i].value = tracker[r] THEN "peek" ELSE "first"
    <2>3. pc \in Places \ {"second"} /\ pc # "data" /\ reader' = [reader EXCEPT ![r] = pc]
      BY <2>1 DEF Goto, Places
    <2> HIDE DEF pc
    <2> QED
      BY <2>1, <2>2, <2>3, <1>1
  <1>3. CASE LoadFirst(r)
    <2>1. PICK i \in DOMAIN generation :
             /\ Acquire(r, i)
             /\ \/ /\ generation[i].value = LOCKED
                   /\ Goto(r, "first") /\ UNCHANGED first
                \/ /\ generation[i].value # LOCKED
                   /\ Goto(r, "data")
                   /\ first' = [first EXCEPT ![r] = generation[i].value]
      BY <1>3 DEF LoadFirst
    <2>2. UNCHANGED <<lockVars, copy, returned>>
      BY <1>3 DEF LoadFirst
    <2> QED
      BY <2>1, <2>2, <1>1 DEF Goto, Places
  <1>4. CASE LoadData(r)
    <2>1. /\ reader[r] = "data" /\ reader' = [reader EXCEPT ![r] = "second"]
          /\ UNCHANGED <<lockVars, seenStore, first, tracker, returned, stop>>
      BY <1>4 DEF LoadData, Goto
    <2>2. PICK d \in seenData[r] .. data :
             /\ copy' = [copy EXCEPT ![r] = d]
             /\ seenData' = [seenData EXCEPT ![r] = d]
      BY <1>4 DEF LoadData
    <2>3. d \in Nat /\ d >= seenData[r] /\ d <= data /\ d > 0 /\ d >= returned[r]
      BY <2>1, <2>2, <1>a, <1>b
    <2>4. /\ reader' \in [Readers -> Places] /\ copy' \in [Readers -> Nat]
          /\ seenData' \in [Readers -> Nat]
          /\ reader'[r] = "second" /\ copy'[r] = d /\ seenData'[r] = d
          /\ \A x \in Readers \ {r} : /\ reader'[x] = reader[x] /\ copy'[x] = copy[x]
                                       /\ seenData'[x] = seenData[x]
      BY <2>1, <2>2, <2>3, <1>a DEF Places
    <2>5. TypeInv'
      BY <2>1, <2>4, <1>a DEF TypeInv, lockVars
    <2>6. LockInv'
      BY <2>1, <2>3, <2>4, <2>5, ReaderStep
    <2> QED
      BY <2>1, <2>6
  <1>5. CASE LoadSecond(r)
    <2>1. reader[r] = "second" /\ UNCHANGED <<lockVars, first, copy, stop>>
      BY <1>5 DEF LoadSecond
    <2>2. PICK i \in DOMAIN generation :
             /\ Acquire(r, i)
             /\ \/ /\ Goto(r, "first")
                   /\ UNCHANGED <<tracker, returned>>
                \/ /\ returned' = [returned EXCEPT ![r] = copy[r]]
                   /\ Goto(r, LoopOf(r))
      BY <1>5 DEF LoadSecond
    <2>3. CASE Goto(r, "first") /\ UNCHANGED <<tracker, returned>>
      <3>1. /\ "first" \in Places \ {"second"} /\ "first" # "data"
            /\ reader' = [reader EXCEPT ![r] = "first"]
            /\ first' = first /\ UNCHANGED <<lockVars, copy, returned>>
        BY <2>1, <2>3 DEF Goto, Places
      <3> QED
        BY <2>2, <3>1, <1>1
    <2>4. CASE returned' = [returned EXCEPT ![r] = copy[r]] /\ Goto(r, LoopOf(r))
      <3>1. /\ seenStore' \in [Readers -> Nat] /\ seenData' \in [Readers -> Nat]
            /\ seenData'[r] >= seenData[r] /\ seenData'[r] <= data
            /\ \A x \in Readers \ {r} : seenData'[x] = seenData[x]
        BY <2>2, AcquireSees
      <3>2. /\ reader' \in [Readers -> Places] /\ reader'[r] \in {"peek", "first"}
            /\ \A x \in Readers \ {r} : reader'[x] = reader[x]
        BY <2>4, <1>a, <1>c DEF Goto, Places
      <3>3. /\ returned' \in [Readers -> Int] /\ returned'[r] = copy[r]
            /\ \A x \in Readers \ {r} : returned'[x] = returned[x]
        BY <2>4, <1>a
      <3>4. TypeInv'
        BY <2>1, <3>1, <3>2, <3>3, <1>a DEF TypeInv, lockVars
      <3>5. copy[r] \in Nat /\ copy[r] > 0 /\ copy[r] <= seenData[r] /\ copy[r] >= returned[r]
            /\ returned[r] \in Int /\ seenData[r] \in Nat /\ seenData'[r] \in Nat
        BY <2>1, <1>a, <1>b, <3>1
      <3>6. returned'[r] <= seenData'[r]
        BY <3>1, <3>3, <3>5
      <3>7. LockInv'
        BY <2>1, <3>1, <3>2, <3>3, <3>4, <3>6, ReaderStep
      <3> QED
        BY <3>3, <3>5, <3>7
    <2> QED
      BY <2>2, <2>3, <2>4
  <1>6. CASE GiveUp(r)
    <2>1. /\ reader' = [reader EXCEPT ![r] = "done"]
          /\ UNCHANGED <<lockVars, seenStore, seenData, first, copy, returned>>
      BY <1>6 DEF GiveUp, Goto
    <2>2. /\ reader' \in [Readers -> Places] /\ reader'[r] = "done"
          /\ \A x \in Readers \ {r} : reader'[x] = reader[x]
      BY <2>1, <1>a DEF Places
    <2>3. TypeInv'
      BY <2>1, <2>2, <1>a DEF TypeInv, lockVars
    <2>4. LockInv'
      BY <2>1, <2>2, <2>3, <1>b, ReaderStep
    <2> QED
      BY <2>1, <2>4
  <1>7. CASE StoresArrive(r)
    <2>1. Acquire(r, Len(generation)) /\ UNCHANGED <<lockVars, reader, first, copy, returned>>
      BY <1>7 DEF StoresArrive
    <2>2. Len(generation) \in DOMAIN generation
      BY <1>7 DEF StoresArrive, LockInv, TypeInv
    <2>3. /\ seenStore' \in [Readers -> Nat] /\ seenData' \in [Readers -> Nat]
          /\ seenData'[r] >= seenData[r] /\ seenData'[r] <= data
          /\ \A x \in Readers \ {r} : seenData'[x] = seenData[x]
      BY <2>1, <2>2, AcquireSees
    <2>4. TypeInv'
      BY <2>1, <2>3, <1>a DEF TypeInv, lockVars
    <2>5. seenData[r] \in Nat /\ seenData'[r] \in Nat /\ returned[r] \in Int /\ copy[r] \in Nat
      BY <1>a, <2>3
    <2>6. /\ returned[r] <= seenData'[r]
          /\ reader[r] \in {"data", "second"} => seenData'[r] > 0
          /\ reader[r] = "second" => copy[r] <= seenData'[r]
      BY <1>b, <2>3, <2>5
    <2>7. LockInv'
      BY <2>1, <2>3, <2>4, <2>6, <1>b, ReaderStep
    <2> QED
      BY <2>1, <2>7
  <1> QED
    BY <1>2, <1>3, <1>4, <1>5, <1>6, <1>7 DEF Read

-----------------------------------------------------------------------------
\* Every step keeps the invariant and sends no reader back.
LEMMA LockStep ==
    ASSUME LockInv, [Next]_vars
    PROVE  /\ LockInv'
           /\ \A r \in Readers :
                 returned'[r] # returned[r] => returned'[r] > returned[r] /\ returned'[r] > 0
  <1>1. CASE Write
    <2>1. returned' = returned
      BY <1>1 DEF Write, BeginWrite, StoreData, EndWrite, readersUnchanged
    <2> QED
      BY <2>1, <1>1, WriterKeepsInv
  <1>2. ASSUME NEW r \in Readers, Read(r) \/ StoresArrive(r)
        PROVE  /\ LockInv'
               /\ \A x \in Readers :
                     returned'[x] # returned[x] => returned'[x] > returned[x] /\ returned'[x] > 0
    BY <1>2, ReaderKeepsInv
  <1>3. CASE RequestStop \/ Finished \/ UNCHANGED vars
    <2>1. UNCHANGED <<lockVars, reader, seenStore, seenData, first, copy, tracker, returned>>
      BY <1>3 DEF RequestStop, Finished, vars
    <2> QED
      BY <2>1 DEF LockInv, TypeInv, GenerationInv, StoreIsCounted, ReaderInv, lockVars
  <1> QED
    BY <1>1, <1>2, <1>3 DEF Next

\* The inductive invariant holds in every reachable state.
THEOREM LockInvariant == Spec => []LockInv
  BY LockInit, LockStep, PTL DEF Spec

\* try_read and try_read_and_update: however the writer's three stores and the
\* loads of any number of readers interleave, a read returns a snapshot that
\* was written, and none that is older than what the reader had before.
THEOREM LockReadsNeverGoBack == Spec => ReadsNeverGoBack
  <1>1. LockInv /\ [Next]_vars
          => [\A r \in Readers :
                 returned'[r] # returned[r]
                     => returned'[r] > returned[r] /\ returned'[r] > 0]_vars
    BY LockStep
  <1> QED
    BY <1>1, LockInvariant, PTL DEF Spec, ReadsNeverGoBack

\* write() gives every snapshot a generation of its own, the wrap from LOCKED
\* to 0 included: two equal loads of generation_ in try_read are loads of the
\* same store.
THEOREM LockGenerationsDiffer == Spec => []GenerationsNeverRepeat
  <1>1. LockInv => GenerationsNeverRepeat
    <2> SUFFICES ASSUME LockInv,
                        NEW i \in 1 .. Len(generation), NEW j \in 1 .. Len(generation),
                        generation[i].value = generation[j].value,
                        generation[i].value # LOCKED
                 PROVE  i = j
      BY DEF GenerationsNeverRepeat
    <2>1. generation \in Seq(Stores)
      BY DEF LockInv, TypeInv
    <2>2. generation[i] \in Stores /\ generation[j] \in Stores
      BY <2>1
    <2>3. generation[i].stored \in Nat /\ generation[j].stored \in Nat
      BY <2>2 DEF Stores
    <2>4. StoreIsCounted(i) /\ StoreIsCounted(j)
      BY DEF LockInv, GenerationInv
    <2> DEFINE m == generation[i].stored
               n == generation[j].stored
    <2>5. /\ i = 2 * m + 1 /\ m # 0 /\ generation[i].value = m - 1
          /\ j = 2 * n + 1 /\ n # 0 /\ generation[j].value = n - 1
      BY <2>3, <2>4 DEF StoreIsCounted
    <2> HIDE DEF m, n
    <2>6. m - 1 = n - 1 /\ m \in Nat /\ n \in Nat
      BY <2>3, <2>5 DEF m, n
    <2> QED
      BY <2>5, <2>6
  <1> QED
    BY <1>1, LockInvariant, PTL
=============================================================================
