------------------- MODULE MarketRequestGenerator_proofs -------------------
(***************************************************************************)
(* For every limit that config.hpp could set in the order it states them,  *)
(* and at every depth of the recursion cancel -> populate -> new -> purge  *)
(* -> cancel: no resting order is forgotten, the order pool is never       *)
(* asked for an entry it does not have, and a price can always be drawn.   *)
(*                                                                         *)
(* The argument follows the call stack.  Only five of the program points   *)
(* wait for a call (Waiting), and new() waits only for purge(), so control *)
(* comes back to submit() only when the purge has made room.  At submit()  *)
(* no id is in hand, so the resting orders are among the tracked ones,     *)
(* which are fewer than the pool has entries.                              *)
(***************************************************************************)
EXTENDS MarketRequestGenerator, FiniteSetTheorems,
        SequenceTheorems, TLAPS

\* Where a call can be, and where it can be while it waits for its callee.
Frames == {"loop", "populate", "purge", "cancel", "take", "taken", "new",
           "post", "track"}
Waiting == {"loop", "populate", "purge", "take", "post"}

TypeInv ==
    /\ stack \in Seq(Frames)
    /\ active \in Seq(Ids) /\ Len(active) <= MAX_ACTIVE_ORDERS
    /\ taken \in Ids \cup {NULL}
    /\ issued \in Ids \cup {NULL}
    /\ resting \subseteq Ids /\ IsFiniteSet(resting)
    /\ Cardinality(resting) <= MAX_ACTIVE_ORDERS
    /\ stop \in BOOLEAN

\* Who waits for whom: new() calls nothing but purge().
Shape(s) ==
    \A i \in 1 .. Len(s) - 1 : /\ s[i] \in Waiting
                               /\ s[i] = "post" => s[i + 1] = "purge"

\* An id is in hand only between taking it and cancelling it, and between
\* submit() and the container.
InHand == /\ taken # NULL => Running("taken")
          /\ issued # NULL <=> Running("track")

\* The new order will find a place in the container.
Room == ~stop /\ (Running("post") \/ Running("track"))
            => Len(active) < MAX_ACTIVE_ORDERS

GeneratorInv == TypeInv /\ Shape(stack) /\ InHand /\ Room /\ RestingIsTracked

-----------------------------------------------------------------------------
(* The call stack. *)

\* Front and Last of a sequence that is not empty.
LEMMA FrontOfSeq ==
    ASSUME NEW S, NEW s \in Seq(S), s # <<>>
    PROVE  /\ Len(s) \in Nat \ {0} /\ Last(s) = s[Len(s)] /\ Last(s) \in S
           /\ Front(s) \in Seq(S) /\ Len(Front(s)) = Len(s) - 1
           /\ \A i \in 1 .. Len(s) - 1 : Front(s)[i] = s[i]
  <1>1. Len(s) \in Nat \ {0} /\ s[Len(s)] \in S
    BY EmptySeq
  <1>2. /\ Front(s) \in Seq(S) /\ Len(Front(s)) = Len(s) - 1
        /\ \A i \in 1 .. Len(s) - 1 : Front(s)[i] = s[i]
    BY <1>1, SubSeqProperties, SMTT(60) DEF Front
  <1> QED
    BY <1>1, <1>2 DEF Last

\* What a call leaves below itself when it goes on: only purge() may be
\* called from "post".
LEMMA ContinueShape ==
    ASSUME NEW s \in Seq(Frames), s # <<>>, Shape(s), Last(s) # "purge",
           NEW pc \in Frames, NEW t, t = Append(Front(s), pc)
    PROVE  t \in Seq(Frames) /\ t # <<>> /\ Last(t) = pc /\ Shape(t)
  <1>1. /\ Front(s) \in Seq(Frames) /\ Len(Front(s)) = Len(s) - 1
        /\ \A i \in 1 .. Len(s) - 1 : Front(s)[i] = s[i]
        /\ Len(s) \in Nat \ {0} /\ s[Len(s)] # "purge"
    BY FrontOfSeq
  <1>2. /\ t \in Seq(Frames) /\ Len(t) = Len(s) /\ t[Len(s)] = pc
        /\ \A i \in 1 .. Len(s) - 1 : t[i] = s[i]
    BY <1>1
  <1>3. t # <<>> /\ Last(t) = pc
    BY <1>1, <1>2 DEF Last
  <1>4. Shape(t)
    <2> SUFFICES ASSUME NEW i \in 1 .. Len(s) - 1
                 PROVE  t[i] \in Waiting /\ (t[i] = "post" => t[i + 1] = "purge")
      BY <1>2 DEF Shape
    <2>1. t[i] = s[i] /\ s[i] \in Waiting /\ (s[i] = "post" => s[i + 1] = "purge")
      BY <1>2 DEF Shape
    <2>2. CASE i = Len(s) - 1
      BY <2>1, <2>2, <1>1
    <2>3. CASE i # Len(s) - 1
      <3>1. i + 1 \in 1 .. Len(s) - 1
        BY <2>3, <1>1
      <3> QED
        BY <3>1, <2>1, <1>2
    <2> QED
      BY <2>2, <2>3
  <1> QED
    BY <1>2, <1>3, <1>4

\* A call leaves its caller at a point where it waits; purge() waits in
\* purge() itself.
LEMMA CallShape ==
    ASSUME NEW s \in Seq(Frames), NEW pc \in Waiting, NEW callee \in Frames,
           NEW t, t = Append(Append(Front(s), pc), callee),
           s # <<>>, Shape(s),
           Last(s) = "purge" => pc = "purge",
           pc = "post" => callee = "purge"
    PROVE  t \in Seq(Frames) /\ t # <<>> /\ Last(t) = callee /\ Shape(t)
  <1>1. /\ Front(s) \in Seq(Frames) /\ Len(Front(s)) = Len(s) - 1
        /\ \A i \in 1 .. Len(s) - 1 : Front(s)[i] = s[i]
        /\ Len(s) \in Nat \ {0} /\ (s[Len(s)] = "purge" => pc = "purge")
    BY FrontOfSeq
  <1> DEFINE u == Append(Front(s), pc)
  <1>2. /\ u \in Seq(Frames) /\ Len(u) = Len(s) /\ u[Len(s)] = pc
        /\ \A i \in 1 .. Len(s) - 1 : u[i] = s[i]
    BY <1>1 DEF Frames, Waiting
  <1>3. t = Append(u, callee)
    OBVIOUS
  <1> HIDE DEF u
  <1>4. /\ t \in Seq(Frames) /\ Len(t) = Len(s) + 1 /\ t[Len(s)] = pc
        /\ t[Len(s) + 1] = callee
        /\ \A i \in 1 .. Len(s) - 1 : t[i] = s[i]
    BY <1>1, <1>2, <1>3
  <1>5. t # <<>> /\ Last(t) = callee
    BY <1>1, <1>4 DEF Last
  <1>6. Shape(t)
    <2> SUFFICES ASSUME NEW i \in 1 .. Len(s)
                 PROVE  t[i] \in Waiting /\ (t[i] = "post" => t[i + 1] = "purge")
      BY <1>4, <1>1 DEF Shape
    <2>1. CASE i = Len(s)
      BY <2>1, <1>4
    <2>2. CASE i # Len(s)
      <3>1. i \in 1 .. Len(s) - 1
        BY <2>2, <1>1
      <3>2. t[i] = s[i] /\ s[i] \in Waiting /\ (s[i] = "post" => s[i + 1] = "purge")
        BY <3>1, <1>4 DEF Shape
      <3>3. CASE i = Len(s) - 1
        BY <3>2, <3>3, <1>1, <1>4
      <3>4. CASE i # Len(s) - 1
        <4>1. i + 1 \in 1 .. Len(s) - 1
          BY <3>1, <3>4, <1>1
        <4> QED
          BY <4>1, <3>2, <1>4
      <3> QED
        BY <3>3, <3>4
    <2> QED
      BY <2>1, <2>2
  <1> QED
    BY <1>4, <1>5, <1>6

\* Control returns to a call that waits, and to "post" only from purge().
LEMMA ReturnShape ==
    ASSUME NEW s \in Seq(Frames), s # <<>>, Shape(s), NEW t, t = Front(s)
    PROVE  /\ t \in Seq(Frames) /\ Shape(t)
           /\ t # <<>> => Last(t) \in Waiting
           /\ t # <<>> /\ Last(t) = "post" => Last(s) = "purge"
  <1>1. /\ t \in Seq(Frames) /\ Len(t) = Len(s) - 1
        /\ \A i \in 1 .. Len(s) - 1 : t[i] = s[i]
        /\ Len(s) \in Nat \ {0} /\ Last(s) = s[Len(s)]
    BY FrontOfSeq
  <1>2. \A i \in 1 .. Len(s) - 1 : t[i] \in Waiting /\ (t[i] = "post" => s[i + 1] = "purge")
    BY <1>1 DEF Shape
  <1>3. Shape(t)
    BY <1>1, <1>2 DEF Shape
  <1>4. ASSUME t # <<>> PROVE Last(t) \in Waiting /\ (Last(t) = "post" => Last(s) = "purge")
    <2>1. Len(t) \in 1 .. Len(s) - 1 /\ Len(t) + 1 = Len(s) /\ Last(t) = t[Len(t)]
      BY <1>1, <1>4 DEF Last
    <2> QED
      BY <2>1, <1>1, <1>2
  <1> QED
    BY <1>1, <1>3, <1>4

-----------------------------------------------------------------------------
(* RandomContainer: active_order_ids. *)

\* No more ids are tracked than the container has items.
LEMMA TrackedIds ==
    ASSUME NEW a \in Seq(Ids)
    PROVE  /\ ToSet(a) \subseteq Ids /\ IsFiniteSet(ToSet(a))
           /\ Cardinality(ToSet(a)) \in Nat /\ Cardinality(ToSet(a)) <= Len(a)
  <1>1. Len(a) \in Nat /\ a \in [1 .. Len(a) -> Ids] /\ DOMAIN a = 1 .. Len(a)
    BY LenProperties
  <1>2. ToSet(a) = {a[i] : i \in 1 .. Len(a)}
    BY <1>1 DEF ToSet
  <1>3. a \in Surjection(1 .. Len(a), ToSet(a))
    BY <1>1, <1>2 DEF Surjection
  <1>4. IsFiniteSet(1 .. Len(a)) /\ Cardinality(1 .. Len(a)) = Len(a)
    BY <1>1, FS_Interval, SMTT(60)
  <1>5. IsFiniteSet(ToSet(a)) /\ Cardinality(ToSet(a)) <= Len(a)
    BY <1>3, <1>4, FS_Surjection
  <1> QED
    BY <1>1, <1>2, <1>5, FS_CardinalityType

\* remove_random: only the id that is handed out leaves the container.
LEMMA RemoveKeepsOthers ==
    ASSUME NEW a \in Seq(Ids), NEW i \in DOMAIN a, NEW b,
           b = Front([a EXCEPT ![i] = Last(a)])
    PROVE  /\ a[i] \in Ids /\ b \in Seq(Ids) /\ Len(b) = Len(a) - 1
           /\ ToSet(a) \subseteq ToSet(b) \cup {a[i]}
  <1> DEFINE n == Len(a)
             c == [a EXCEPT ![i] = Last(a)]
  <1>1. n \in Nat /\ DOMAIN a = 1 .. n /\ i \in 1 .. n /\ a \in [1 .. n -> Ids]
    BY LenProperties
  <1>2. a[i] \in Ids /\ Last(a) = a[n] /\ Last(a) \in Ids
    BY <1>1 DEF Last
  <1>3. /\ c \in Seq(Ids) /\ Len(c) = n
        /\ \A j \in 1 .. n : c[j] = IF j = i THEN a[n] ELSE a[j]
    BY <1>1, <1>2, ExceptSeq
  <1>4. b = Front(c)
    OBVIOUS
  <1> HIDE DEF n, c
  <1>5. c # <<>>
    BY <1>1, <1>3, EmptySeq
  <1>6. /\ b \in Seq(Ids) /\ Len(b) = n - 1
        /\ \A j \in 1 .. n - 1 : b[j] = c[j]
    <2>1. /\ Front(c) \in Seq(Ids) /\ Len(Front(c)) = Len(c) - 1
          /\ \A j \in 1 .. Len(c) - 1 : Front(c)[j] = c[j]
      BY ONLY <1>3, <1>5, FrontOfSeq, Zenon
    <2> QED
      BY ONLY <2>1, <1>3, <1>4, Zenon
  <1>7. \A j \in 1 .. n - 1 : b[j] \in ToSet(b)
    BY <1>6, <1>1, LenProperties DEF ToSet
  <1>8. ASSUME NEW j \in 1 .. n PROVE a[j] \in ToSet(b) \cup {a[i]}
    <2>1. CASE j = i
      BY <2>1
    <2>2. CASE j # i /\ j # n
      <3>1. j \in 1 .. n - 1 /\ c[j] = a[j]
        BY <2>2, <1>1, <1>3
      <3> QED
        BY <3>1, <1>6, <1>7
    <2>3. CASE j # i /\ j = n
      <3>1. i \in 1 .. n - 1 /\ c[i] = a[n]
        BY <2>3, <1>1, <1>3
      <3> QED
        BY <3>1, <2>3, <1>6, <1>7
    <2> QED
      BY <2>1, <2>2, <2>3
  <1>9. ToSet(a) \subseteq ToSet(b) \cup {a[i]}
    BY <1>8, <1>1 DEF ToSet
  <1> QED
    BY <1>2, <1>6, <1>9 DEF n

\* add() on a container that is not full adds the id and loses none.
LEMMA AddKeepsAll ==
    ASSUME NEW a \in Seq(Ids), NEW id \in Ids
    PROVE  /\ Append(a, id) \in Seq(Ids) /\ Len(Append(a, id)) = Len(a) + 1
           /\ ToSet(Append(a, id)) = ToSet(a) \cup {id}
  <1> DEFINE b == Append(a, id)
  <1>1. /\ b \in Seq(Ids) /\ Len(b) = Len(a) + 1 /\ b[Len(a) + 1] = id
        /\ \A i \in 1 .. Len(a) : b[i] = a[i]
    BY AppendProperties
  <1>2. Len(a) \in Nat /\ DOMAIN a = 1 .. Len(a) /\ DOMAIN b = 1 .. Len(a) + 1
    BY <1>1, LenProperties
  <1> HIDE DEF b
  <1>3. ToSet(a) = {a[i] : i \in 1 .. Len(a)}
    BY <1>2 DEF ToSet
  <1>4. ToSet(b) = {b[i] : i \in 1 .. Len(a) + 1}
    BY <1>2 DEF ToSet
  <1>5. 1 .. Len(a) + 1 = (1 .. Len(a)) \cup {Len(a) + 1}
    BY <1>2
  <1>6. ToSet(b) = ToSet(a) \cup {id}
    BY <1>1, <1>3, <1>4, <1>5
  <1> QED
    BY <1>1, <1>6 DEF b

\* There is always an id that is not in use.
LEMMA FreshIdExists ==
    ASSUME TypeInv PROVE FreshId \in Ids /\ FreshId \notin ToSet(active) \cup resting
  <1> DEFINE used == ToSet(active) \cup resting
  <1>1. /\ ToSet(active) \subseteq Ids /\ IsFiniteSet(ToSet(active))
        /\ Cardinality(ToSet(active)) \in Nat
        /\ Cardinality(ToSet(active)) <= Len(active)
    BY TrackedIds DEF TypeInv
  <1>2. Len(active) \in Nat /\ Len(active) <= MAX_ACTIVE_ORDERS
    BY LenProperties DEF TypeInv
  <1>3. IsFiniteSet(resting) /\ Cardinality(resting) \in Nat
        /\ Cardinality(resting) <= MAX_ACTIVE_ORDERS
    BY FS_CardinalityType DEF TypeInv
  <1>4. /\ IsFiniteSet(used)
        /\ Cardinality(used) = Cardinality(ToSet(active)) + Cardinality(resting)
                                  - Cardinality(ToSet(active) \cap resting)
    BY <1>1, <1>3, FS_Union
  <1>5. Cardinality(ToSet(active) \cap resting) \in Nat
    <2>1. ToSet(active) \cap resting \in SUBSET resting
      OBVIOUS
    <2> QED
      BY <2>1, <1>3, FS_Subset, FS_CardinalityType
  <1>6. /\ MAX_ACTIVE_ORDERS \in Nat /\ MAX_CONCURRENT_ORDERS \in Nat
        /\ MAX_ACTIVE_ORDERS <= MAX_CONCURRENT_ORDERS
    BY LimitsAssumption
  <1>7. Cardinality(used) <= MAX_ACTIVE_ORDERS + MAX_CONCURRENT_ORDERS
    BY <1>1, <1>2, <1>3, <1>4, <1>5, <1>6
  <1>8. Cardinality(used) \in Nat
    BY <1>4, FS_CardinalityType
  <1>9. used # Ids
    <2>1. SUFFICES ASSUME used = Ids PROVE FALSE
      OBVIOUS
    <2>2. Cardinality(used) > MAX_ACTIVE_ORDERS + MAX_CONCURRENT_ORDERS
      BY <2>1, <1>4, IdsAssumption
    <2> HIDE DEF used
    <2> QED
      BY <2>2, <1>6, <1>7, <1>8
  <1>10. \E id \in Ids : id \notin used
    BY <1>1, <1>9 DEF TypeInv
  <1> QED
    BY <1>10 DEF FreshId

\* NULL, for an empty std::optional, is no order id.
LEMMA NullIsNoId == NULL \notin Ids
  <1>1. \A id \in Ids : id \in Int
    BY IdsAssumption
  <1> QED
    BY <1>1, PriceAssumption

\* At submit() the resting orders are among the tracked ones.
LEMMA RestingAtSubmit ==
    ASSUME GeneratorInv, Running("post"), ~stop
    PROVE  /\ resting \subseteq ToSet(active)
           /\ Cardinality(resting) < MAX_ACTIVE_ORDERS
  <1>1. taken = NULL /\ issued = NULL
    <2>1. Last(stack) = "post"
      BY DEF Running
    <2>2. ~Running("taken") /\ ~Running("track")
      BY <2>1 DEF Running
    <2> QED
      BY <2>2 DEF GeneratorInv, InHand
  <1>2. NULL \notin Ids
    BY NullIsNoId
  <1>3. resting \subseteq ToSet(active)
    BY <1>1, <1>2 DEF GeneratorInv, RestingIsTracked, TypeInv
  <1>4. /\ IsFiniteSet(ToSet(active)) /\ Cardinality(ToSet(active)) \in Nat
        /\ Cardinality(ToSet(active)) <= Len(active)
    BY TrackedIds DEF GeneratorInv, TypeInv
  <1>5. Cardinality(resting) \in Nat /\ Cardinality(resting) <= Cardinality(ToSet(active))
    BY <1>3, <1>4, FS_Subset, FS_CardinalityType
  <1>6. Len(active) \in Nat /\ Len(active) < MAX_ACTIVE_ORDERS
    BY LenProperties DEF GeneratorInv, TypeInv, Room
  <1>7. MAX_ACTIVE_ORDERS \in Nat
    BY LimitsAssumption
  <1> QED
    BY <1>3, <1>4, <1>5, <1>6, <1>7

-----------------------------------------------------------------------------
(* The steps. *)

\* start() begins with an empty book, in populate_active_orders.
LEMMA GeneratorInit == Init => GeneratorInv
  <1> SUFFICES ASSUME Init PROVE GeneratorInv
    OBVIOUS
  <1> USE DEF Init
  <1>1. MAX_ACTIVE_ORDERS \in Nat \ {0}
    BY LimitsAssumption
  <1>2. stack \in Seq(Frames) /\ Shape(stack)
    BY DEF Frames, Shape, Waiting
  <1>3. active \in Seq(Ids) /\ Len(active) = 0
    BY EmptySeq
  <1>4. IsFiniteSet(resting) /\ Cardinality(resting) = 0
    BY FS_EmptySet
  <1>5. TypeInv
    <2>1. Len(active) <= MAX_ACTIVE_ORDERS /\ Cardinality(resting) <= MAX_ACTIVE_ORDERS
      BY <1>1, <1>3, <1>4
    <2>2. resting \subseteq Ids /\ taken = NULL /\ issued = NULL /\ stop \in BOOLEAN
      OBVIOUS
    <2> QED
      BY <2>1, <2>2, <1>2, <1>3, <1>4, Zenon DEF TypeInv
  <1> QED
    <2>1. InHand /\ RestingIsTracked
      BY DEF InHand, RestingIsTracked, Running, Last
    <2>2. Room
      BY <1>1, <1>3 DEF Room
    <2> QED
      BY <2>1, <2>2, <1>2, <1>5 DEF GeneratorInv

\* The actions that only move control.
LEMMA ControlStep ==
    ASSUME GeneratorInv, UNCHANGED <<active, taken, issued, resting, stop>>,
           stack' \in Seq(Frames), Shape(stack'),
           ~Running("taken"), ~Running("track"), ~Running("track")',
           Running("post")' /\ ~stop => Len(active) < MAX_ACTIVE_ORDERS
    PROVE  GeneratorInv'
  <1>1. TypeInv'
    BY DEF GeneratorInv, TypeInv
  <1>2. InHand'
    BY DEF GeneratorInv, InHand
  <1>3. Room'
    BY DEF Room
  <1>4. RestingIsTracked'
    BY DEF GeneratorInv, RestingIsTracked
  <1> QED
    BY <1>1, <1>2, <1>3, <1>4 DEF GeneratorInv

\* A return that leaves the data alone, except from purge().
LEMMA ReturnStep ==
    ASSUME GeneratorInv, NEW pc \in Frames \ {"purge"}, Running(pc), Return
    PROVE  /\ stack' \in Seq(Frames) /\ Shape(stack')
           /\ \A q \in {"post", "taken", "track"} : ~Running(q)'
  <1>1. stack \in Seq(Frames) /\ stack # <<>> /\ Shape(stack) /\ stack' = Front(stack)
        /\ Last(stack) # "purge"
    BY DEF GeneratorInv, TypeInv, Running, Return
  <1>2. /\ stack' \in Seq(Frames) /\ Shape(stack')
        /\ stack' # <<>> => Last(stack') \in Waiting /\ Last(stack') # "post"
    BY <1>1, ReturnShape
  <1> QED
    BY <1>2 DEF Running, Waiting

\* The running call goes on to another program point.
LEMMA ContinueStep ==
    ASSUME GeneratorInv, NEW pc \in Frames \ {"purge"}, Running(pc),
           NEW next \in Frames, Continue(next)
    PROVE  /\ stack' \in Seq(Frames) /\ Shape(stack') /\ Running(next)'
           /\ \A q : q # next => ~Running(q)'
  <1>1. stack \in Seq(Frames) /\ stack # <<>> /\ Shape(stack)
        /\ stack' = Append(Front(stack), next) /\ Last(stack) # "purge"
    BY DEF GeneratorInv, TypeInv, Running, Continue
  <1>2. stack' \in Seq(Frames) /\ stack' # <<>> /\ Last(stack') = next /\ Shape(stack')
    BY <1>1, ContinueShape
  <1> QED
    BY <1>2 DEF Running

\* The running call makes a call and waits for it.
LEMMA CallStep ==
    ASSUME GeneratorInv, NEW pc \in Frames, Running(pc),
           NEW next \in Waiting, NEW callee \in Frames, Call(next, callee),
           pc = "purge" => next = "purge", next = "post" => callee = "purge"
    PROVE  /\ stack' \in Seq(Frames) /\ Shape(stack') /\ Running(callee)'
           /\ \A q : q # callee => ~Running(q)'
  <1>1. stack \in Seq(Frames) /\ stack # <<>> /\ Shape(stack)
        /\ stack' = Append(Append(Front(stack), next), callee) /\ Last(stack) = pc
    BY DEF GeneratorInv, TypeInv, Running, Call
  <1>2. Last(stack) = "purge" => next = "purge"
    BY <1>1
  <1>3. stack' \in Seq(Frames) /\ stack' # <<>> /\ Last(stack') = callee /\ Shape(stack')
    BY <1>1, <1>2, CallShape, ZenonT(60)
  <1> QED
    BY <1>3 DEF Running

\* Only the last call on the stack runs.
LEMMA OneRuns == \A p, q : Running(p) /\ p # q => ~Running(q)
  BY DEF Running

\* The calls and returns of the main loop, populate() and purge(), and the
\* tests before an id is taken or a place is needed.
LEMMA ControlKeepsInv ==
    ASSUME GeneratorInv,
           StartLoop \/ populate_active_orders \/ purge_active_orders
              \/ CancelLoop \/ MakeRoom
    PROVE  GeneratorInv'
  <1>a. stop \in BOOLEAN /\ Len(active) \in Nat /\ Len(active) <= MAX_ACTIVE_ORDERS
    BY LenProperties DEF GeneratorInv, TypeInv
  <1>b. /\ MAX_ACTIVE_ORDERS \in Nat /\ PURGE_UNTIL_WHEN_FULL \in Nat
        /\ PURGE_UNTIL_WHEN_FULL < MAX_ACTIVE_ORDERS
    BY LimitsAssumption
  <1> USE OneRuns
  <1>1. CASE StartLoop
    <2>1. Running("loop") /\ ~Running("taken") /\ ~Running("track")
          /\ UNCHANGED <<active, taken, issued, resting, stop>>
      BY <1>1 DEF StartLoop
    <2>2. CASE Return
      <3>1. stack' \in Seq(Frames) /\ Shape(stack') /\ ~Running("post")' /\ ~Running("track")'
        BY <2>1, <2>2, ReturnStep DEF Frames
      <3> QED
        BY <2>1, <3>1, ControlStep
    <2>3. ASSUME NEW callee \in {"cancel", "new"}, Call("loop", callee)
          PROVE  GeneratorInv'
      <3>1. stack' \in Seq(Frames) /\ Shape(stack') /\ ~Running("post")' /\ ~Running("track")'
        BY <2>1, <2>3, CallStep DEF Frames, Waiting
      <3> QED
        BY <2>1, <3>1, ControlStep
    <2> QED
      BY <1>1, <2>2, <2>3 DEF StartLoop
  <1>2. CASE populate_active_orders
    <2>1. Running("populate") /\ ~Running("taken") /\ ~Running("track")
          /\ UNCHANGED <<active, taken, issued, resting, stop>>
      BY <1>2 DEF populate_active_orders
    <2>2. CASE Return
      <3>1. stack' \in Seq(Frames) /\ Shape(stack') /\ ~Running("post")' /\ ~Running("track")'
        BY <2>1, <2>2, ReturnStep DEF Frames
      <3> QED
        BY <2>1, <3>1, ControlStep
    <2>3. CASE Call("populate", "new")
      <3>1. stack' \in Seq(Frames) /\ Shape(stack') /\ ~Running("post")' /\ ~Running("track")'
        BY <2>1, <2>3, CallStep DEF Frames, Waiting
      <3> QED
        BY <2>1, <3>1, ControlStep
    <2> QED
      BY <1>2, <2>2, <2>3 DEF populate_active_orders
  <1>3. CASE purge_active_orders
    <2>1. Running("purge") /\ ~Running("taken") /\ ~Running("track")
          /\ UNCHANGED <<active, taken, issued, resting, stop>>
      BY <1>3 DEF purge_active_orders
    <2>2. CASE Return /\ ~(~stop /\ Len(active) > PURGE_UNTIL_WHEN_FULL)
      <3>1. stack \in Seq(Frames) /\ stack # <<>> /\ Shape(stack) /\ stack' = Front(stack)
        BY <2>1, <2>2 DEF GeneratorInv, TypeInv, Running, Return
      <3>2. stack' \in Seq(Frames) /\ Shape(stack')
            /\ (stack' # <<>> => Last(stack') \in Waiting)
        BY <3>1, ReturnShape
      <3>3. ~Running("track")'
        BY <3>2 DEF Running, Waiting
      <3>4. ~stop => Len(active) < MAX_ACTIVE_ORDERS
        BY <2>2, <1>a, <1>b
      <3> QED
        BY <2>1, <3>2, <3>3, <3>4, ControlStep
    <2>3. CASE Call("purge", "cancel")
      <3>1. stack' \in Seq(Frames) /\ Shape(stack') /\ ~Running("post")' /\ ~Running("track")'
        BY <2>1, <2>3, CallStep DEF Frames, Waiting
      <3> QED
        BY <2>1, <3>1, ControlStep
    <2> QED
      BY <1>3, <2>2, <2>3 DEF purge_active_orders
  <1>4. CASE CancelLoop
    <2>1. Running("cancel") /\ ~Running("taken") /\ ~Running("track")
          /\ UNCHANGED <<active, taken, issued, resting, stop>>
      BY <1>4 DEF CancelLoop
    <2>2. CASE Return
      <3>1. stack' \in Seq(Frames) /\ Shape(stack') /\ ~Running("post")' /\ ~Running("track")'
        BY <2>1, <2>2, ReturnStep DEF Frames
      <3> QED
        BY <2>1, <3>1, ControlStep
    <2>3. CASE Call("take", "populate")
      <3>1. stack' \in Seq(Frames) /\ Shape(stack') /\ ~Running("post")' /\ ~Running("track")'
        BY <2>1, <2>3, CallStep DEF Frames, Waiting
      <3> QED
        BY <2>1, <3>1, ControlStep
    <2>4. CASE Continue("take")
      <3>1. stack' \in Seq(Frames) /\ Shape(stack') /\ ~Running("post")' /\ ~Running("track")'
        BY <2>1, <2>4, ContinueStep DEF Frames
      <3> QED
        BY <2>1, <3>1, ControlStep
    <2> QED
      BY <1>4, <1>a, <2>2, <2>3, <2>4 DEF CancelLoop
  <1>5. CASE MakeRoom
    <2>1. Running("new") /\ ~Running("taken") /\ ~Running("track")
          /\ UNCHANGED <<active, taken, issued, resting, stop>>
      BY <1>5 DEF MakeRoom
    <2>2. CASE Call("post", "purge")
      <3>1. stack' \in Seq(Frames) /\ Shape(stack') /\ ~Running("post")' /\ ~Running("track")'
        BY <2>1, <2>2, CallStep DEF Frames, Waiting
      <3> QED
        BY <2>1, <3>1, ControlStep
    <2>3. CASE ~is_full /\ Continue("post")
      <3>1. stack' \in Seq(Frames) /\ Shape(stack') /\ ~Running("track")'
        BY <2>1, <2>3, ContinueStep DEF Frames
      <3>2. Len(active) < MAX_ACTIVE_ORDERS
        BY <2>3, <1>a, <1>b DEF is_full
      <3> QED
        BY <2>1, <3>1, <3>2, ControlStep
    <2> QED
      BY <1>5, <2>2, <2>3 DEF MakeRoom
  <1> QED
    BY <1>1, <1>2, <1>3, <1>4, <1>5

\* Resting orders that were filled or cancelled leave the book.
LEMMA FewerRest ==
    ASSUME TypeInv, resting' \subseteq resting
    PROVE  /\ resting' \subseteq Ids /\ IsFiniteSet(resting')
           /\ Cardinality(resting') <= MAX_ACTIVE_ORDERS
  <1>1. IsFiniteSet(resting) /\ Cardinality(resting) \in Nat
        /\ Cardinality(resting) <= MAX_ACTIVE_ORDERS
    BY FS_CardinalityType DEF TypeInv
  <1>2. IsFiniteSet(resting') /\ Cardinality(resting') \in Nat
        /\ Cardinality(resting') <= Cardinality(resting)
    BY <1>1, FS_Subset, FS_CardinalityType
  <1>3. MAX_ACTIVE_ORDERS \in Nat
    BY LimitsAssumption
  <1>4. Cardinality(resting') <= MAX_ACTIVE_ORDERS
    BY <1>1, <1>2, <1>3
  <1> QED
    BY <1>2, <1>4 DEF TypeInv

\* An id is taken from the container and given to submit(), or forgotten.
LEMMA CancelKeepsInv ==
    ASSUME GeneratorInv, TakeRandom \/ SubmitCancel PROVE GeneratorInv'
  <1> USE OneRuns
  <1>1. CASE TakeRandom
    <2>1. Running("take") /\ ~Running("taken") /\ ~Running("track")
          /\ UNCHANGED <<issued, resting, stop>>
      BY <1>1 DEF TakeRandom
    <2>2. taken = NULL /\ issued = NULL
      BY <2>1 DEF GeneratorInv, InHand
    <2>3. CASE Return /\ UNCHANGED <<active, taken>>
      <3>1. stack' \in Seq(Frames) /\ Shape(stack') /\ ~Running("post")' /\ ~Running("track")'
        BY <2>1, <2>3, ReturnStep DEF Frames
      <3> QED
        BY <2>1, <2>3, <3>1, ControlStep
    <2>4. ASSUME NEW i \in DOMAIN active, taken' = active[i], RemoveRandom(i),
                 Continue("taken")
          PROVE  GeneratorInv'
      <3>1. stack' \in Seq(Frames) /\ Shape(stack') /\ Running("taken")'
            /\ ~Running("post")' /\ ~Running("track")'
        BY <2>1, <2>4, ContinueStep DEF Frames
      <3>2. /\ active[i] \in Ids /\ active' \in Seq(Ids) /\ Len(active') = Len(active) - 1
            /\ ToSet(active) \subseteq ToSet(active') \cup {active[i]}
        BY <2>4, RemoveKeepsOthers DEF RemoveRandom, GeneratorInv, TypeInv
      <3>3. Len(active') <= MAX_ACTIVE_ORDERS
        BY <3>2, LenProperties, LimitsAssumption DEF GeneratorInv, TypeInv
      <3>4. TypeInv'
        BY <2>1, <2>4, <3>1, <3>2, <3>3 DEF GeneratorInv, TypeInv
      <3>5. InHand'
        BY <2>1, <2>2, <3>1 DEF InHand
      <3>6. Room'
        BY <3>1 DEF Room
      <3>7. RestingIsTracked'
        <4>1. ~stop => resting \subseteq ToSet(active)
          BY <2>2, NullIsNoId DEF GeneratorInv, RestingIsTracked, TypeInv
        <4> QED
          BY <4>1, <2>1, <2>4, <3>2 DEF RestingIsTracked
      <3> QED
        BY <3>1, <3>4, <3>5, <3>6, <3>7 DEF GeneratorInv
    <2> QED
      BY <1>1, <2>3, <2>4 DEF TakeRandom
  <1>2. CASE SubmitCancel
    <2>1. Running("taken") /\ ~Running("track") /\ taken' = NULL
          /\ UNCHANGED <<active, issued, stop>>
      BY <1>2 DEF SubmitCancel
    <2>2. issued = NULL
      BY <2>1 DEF GeneratorInv, InHand
    <2>3. /\ stack' \in Seq(Frames) /\ Shape(stack')
          /\ ~Running("post")' /\ ~Running("track")'
      <3>1. CASE Continue("cancel")
        BY <2>1, <3>1, ContinueStep DEF Frames
      <3>2. CASE Return
        BY <2>1, <3>2, ReturnStep DEF Frames
      <3> QED
        BY <1>2, <3>1, <3>2 DEF SubmitCancel
    <2>4. resting' \subseteq resting /\ (~stop => resting' \subseteq resting \ {taken})
      BY <1>2 DEF SubmitCancel
    <2>5. TypeInv'
      BY <2>1, <2>3, <2>4, FewerRest DEF GeneratorInv, TypeInv
    <2>6. InHand'
      BY <2>1, <2>2, <2>3 DEF InHand
    <2>7. Room'
      BY <2>3 DEF Room
    <2>8. RestingIsTracked'
      <3>1. ~stop => resting \ {taken} \subseteq ToSet(active)
        BY <2>2, NullIsNoId DEF GeneratorInv, RestingIsTracked, TypeInv
      <3> QED
        BY <3>1, <2>1, <2>4 DEF RestingIsTracked
    <2> QED
      BY <2>3, <2>5, <2>6, <2>7, <2>8 DEF GeneratorInv
  <1> QED
    BY <1>1, <1>2

\* submit() of a new order: what it rests is the id in hand.
LEMMA SubmitKeepsInv ==
    ASSUME GeneratorInv, SubmitRests \/ SubmitFilled \/ SubmitCut
    PROVE  GeneratorInv'
  <1> USE OneRuns
  <1>1. Running("post") /\ ~Running("taken") /\ ~Running("track")
        /\ UNCHANGED <<active, taken, stop>>
    BY DEF SubmitRests, SubmitFilled, SubmitCut
  <1>2. taken = NULL /\ issued = NULL
    BY <1>1 DEF GeneratorInv, InHand
  <1>3. FreshId \in Ids
    BY FreshIdExists DEF GeneratorInv
  <1>4. CASE SubmitRests
    <2>1. ~stop /\ Continue("track") /\ issued' = FreshId
      BY <1>4 DEF SubmitRests
    <2>2. resting' \subseteq resting \cup {FreshId}
      BY <1>4 DEF SubmitRests
    <2>3. stack' \in Seq(Frames) /\ Shape(stack') /\ Running("track")'
      BY <1>1, <2>1, ContinueStep DEF Frames
    <2>4. resting \subseteq ToSet(active) /\ Cardinality(resting) < MAX_ACTIVE_ORDERS
      BY <1>1, <2>1, RestingAtSubmit
    <2>5. /\ resting' \subseteq Ids /\ IsFiniteSet(resting')
          /\ Cardinality(resting') <= MAX_ACTIVE_ORDERS
      <3>1. IsFiniteSet(resting) /\ Cardinality(resting) \in Nat
        BY FS_CardinalityType DEF GeneratorInv, TypeInv
      <3>2. /\ IsFiniteSet(resting \cup {FreshId})
            /\ Cardinality(resting \cup {FreshId}) <= Cardinality(resting) + 1
            /\ Cardinality(resting \cup {FreshId}) \in Nat
        BY <3>1, FS_AddElement, FS_CardinalityType
      <3>3. /\ IsFiniteSet(resting') /\ Cardinality(resting') \in Nat
            /\ Cardinality(resting') <= Cardinality(resting \cup {FreshId})
        BY <2>2, <3>2, FS_Subset, FS_CardinalityType
      <3>4. MAX_ACTIVE_ORDERS \in Nat
        BY LimitsAssumption
      <3>5. Cardinality(resting') <= MAX_ACTIVE_ORDERS
        BY <2>4, <3>1, <3>2, <3>3, <3>4
      <3> QED
        BY <1>3, <2>2, <3>3, <3>5 DEF GeneratorInv, TypeInv
    <2>6. TypeInv'
      BY <1>1, <1>3, <2>1, <2>3, <2>5 DEF GeneratorInv, TypeInv
    <2>7. InHand'
      BY <1>1, <1>2, <1>3, <2>1, <2>3, NullIsNoId DEF InHand
    <2>8. Room'
      BY <1>1, <2>1 DEF GeneratorInv, Room
    <2>9. RestingIsTracked'
      BY <1>1, <2>1, <2>2, <2>4 DEF RestingIsTracked
    <2> QED
      BY <2>3, <2>6, <2>7, <2>8, <2>9 DEF GeneratorInv
  <1>5. CASE SubmitFilled \/ SubmitCut
    <2>1. resting' \subseteq resting
      BY <1>5 DEF SubmitFilled, SubmitCut
    <2>2. /\ stack' \in Seq(Frames) /\ Shape(stack')
          /\ ~stop => ~Running("post")' /\ ~Running("track")' /\ issued' = NULL
          /\ issued' \in Ids \cup {NULL} /\ (issued' # NULL <=> Running("track")')
      <3>1. CASE Return /\ UNCHANGED issued
        BY <1>1, <1>2, <3>1, ReturnStep DEF Frames
      <3>2. CASE stop /\ Continue("track") /\ issued' = FreshId
        BY <1>1, <1>3, <3>2, ContinueStep, NullIsNoId DEF Frames
      <3> QED
        BY <1>5, <3>1, <3>2 DEF SubmitFilled, SubmitCut
    <2>3. TypeInv'
      BY <1>1, <2>1, <2>2, FewerRest DEF GeneratorInv, TypeInv
    <2>4. InHand'
      BY <1>1, <1>2, <2>2 DEF InHand
    <2>5. Room'
      BY <1>1, <2>2 DEF Room
    <2>6. RestingIsTracked'
      <3>1. ~stop => resting \subseteq ToSet(active)
        BY <1>2, NullIsNoId DEF GeneratorInv, RestingIsTracked, TypeInv
      <3> QED
        BY <3>1, <1>1, <2>1 DEF RestingIsTracked
    <2> QED
      BY <2>2, <2>3, <2>4, <2>5, <2>6 DEF GeneratorInv
  <1> QED
    BY <1>4, <1>5

\* The new id goes from the hand into the container, which has room for it.
LEMMA TrackKeepsInv == ASSUME GeneratorInv, Track PROVE GeneratorInv'
  <1> USE OneRuns
  <1>1. Running("track") /\ ~Running("taken") /\ Return /\ issued' = NULL
        /\ UNCHANGED <<taken, resting, stop>> /\ add(issued)
    BY DEF Track
  <1>2. taken = NULL
    BY <1>1 DEF GeneratorInv, InHand
  <1>3. stack' \in Seq(Frames) /\ Shape(stack') /\ ~Running("post")' /\ ~Running("track")'
    BY <1>1, ReturnStep DEF Frames
  <1>4. /\ active \in Seq(Ids) /\ Len(active) \in Nat /\ Len(active) <= MAX_ACTIVE_ORDERS
        /\ MAX_ACTIVE_ORDERS \in Nat
    BY LenProperties, LimitsAssumption DEF GeneratorInv, TypeInv
  <1>5. TypeInv
    BY DEF GeneratorInv
  <1>6. /\ active' \in Seq(Ids) /\ Len(active') <= MAX_ACTIVE_ORDERS
        /\ ~stop => ToSet(active) \cup {issued} = ToSet(active')
    <2>1. CASE is_full
      <3>1. stop /\ active' = active
        BY <1>1, <1>4, <2>1 DEF add, is_full, GeneratorInv, Room
      <3> QED
        BY <3>1, <1>4
    <2>2. CASE ~is_full
      <3>1. active' = Append(active, issued) /\ Len(active) < MAX_ACTIVE_ORDERS
        BY <1>1, <1>4, <2>2 DEF add, is_full
      <3>2. issued \in Ids
        BY <1>1, <1>5 DEF GeneratorInv, InHand, TypeInv
      <3> QED
        BY <3>1, <3>2, <1>4, AddKeepsAll
    <2> QED
      BY <2>1, <2>2
  <1>7. TypeInv'
    BY <1>1, <1>3, <1>5, <1>6 DEF TypeInv
  <1>8. InHand'
    BY <1>1, <1>2, <1>3 DEF InHand
  <1>9. Room'
    BY <1>3 DEF Room
  <1>10. RestingIsTracked'
    <2>1. ~stop => resting \subseteq ToSet(active) \cup {issued}
      BY <1>2, NullIsNoId DEF GeneratorInv, RestingIsTracked, TypeInv
    <2> QED
      BY <2>1, <1>1, <1>6 DEF RestingIsTracked
  <1> QED
    BY <1>3, <1>7, <1>8, <1>9, <1>10 DEF GeneratorInv

\* Every step of the generator, and the stop request, keep the invariant.
LEMMA GeneratorStep == GeneratorInv /\ [Next]_vars => GeneratorInv'
  <1> SUFFICES ASSUME GeneratorInv, [Next]_vars PROVE GeneratorInv'
    OBVIOUS
  <1>1. CASE UNCHANGED vars
    BY <1>1 DEF vars, GeneratorInv, TypeInv, InHand, Room, RestingIsTracked, Running
  <1>2. CASE RequestStop
    <2>1. UNCHANGED <<stack, active, taken, issued, resting>> /\ stop' = TRUE
      BY <1>2 DEF RequestStop
    <2>2. TypeInv' /\ InHand'
      BY <2>1 DEF GeneratorInv, TypeInv, InHand, Running
    <2>3. Room' /\ RestingIsTracked'
      BY <2>1 DEF Room, RestingIsTracked
    <2> QED
      BY <2>1, <2>2, <2>3 DEF GeneratorInv
  <1>3. CASE Step
    BY <1>3, ControlKeepsInv, CancelKeepsInv, SubmitKeepsInv, TrackKeepsInv DEF Step
  <1>4. CASE Joined
    BY <1>1, <1>4 DEF Joined
  <1> QED
    BY <1>1, <1>2, <1>3, <1>4 DEF Next

-----------------------------------------------------------------------------
\* The inductive invariant holds in every reachable state.
THEOREM GeneratorInvariant == Spec => []GeneratorInv
  BY GeneratorInit, GeneratorStep, PTL DEF Spec

\* No order on the book is forgotten by generate_and_post_cancel_request or
\* generate_and_post_new_order_request, whatever the limits and however deep
\* they call one another.
THEOREM GeneratorTracksResting == Spec => []RestingIsTracked
  <1>1. GeneratorInv => RestingIsTracked
    BY DEF GeneratorInv
  <1> QED
    BY <1>1, GeneratorInvariant, PTL

\* OrderPool::allocate, which has no check of its own, is never called on an
\* empty pool: the generator's purge keeps the book below its limit.
THEOREM GeneratorKeepsPool == Spec => []PoolNeverExhausted
  <1>1. GeneratorInv => PoolNeverExhausted
    <2> SUFFICES ASSUME GeneratorInv, Running("post"), ~stop
                 PROVE  Cardinality(resting) < MAX_CONCURRENT_ORDERS
      BY DEF PoolNeverExhausted
    <2>1. Cardinality(resting) < MAX_ACTIVE_ORDERS
      BY RestingAtSubmit
    <2>2. Cardinality(resting) \in Nat
      BY FS_CardinalityType DEF GeneratorInv, TypeInv
    <2> QED
      BY <2>1, <2>2, LimitsAssumption
  <1> QED
    BY <1>1, GeneratorInvariant, PTL

\* generate_price: the interval a price is drawn from is not empty and stays
\* within the limits, for every variance and every pair of best prices.
THEOREM GeneratorPricesLegal == Spec => []PriceRangeIsLegal
  <1>1. ASSUME NEW type \in {"Buy", "Sell"}, NEW aggressive \in BOOLEAN,
               NEW bid \in MIN_PRICE .. MAX_PRICE, NEW ask \in MIN_PRICE .. MAX_PRICE
        PROVE  LET range == Unclamped(type, aggressive, bid, ask)
               IN  /\ range.lo \in Int /\ range.hi \in Int
                   /\ range.lo <= range.hi
                   /\ range.lo <= MAX_PRICE /\ MIN_PRICE <= range.hi
    <2>1. MIN_PRICE \in Int /\ MAX_PRICE \in Int /\ bid \in Int /\ ask \in Int
          /\ PRICE_VARIANCE \in Nat /\ LARGE_PRICE_VARIANCE \in Nat
      BY PriceAssumption
    <2>2. CASE type = "Buy" /\ aggressive
      BY <2>1, <2>2 DEF Unclamped
    <2>3. CASE type = "Buy" /\ ~aggressive
      BY <2>1, <2>3 DEF Unclamped
    <2>4. CASE type = "Sell" /\ aggressive
      BY <2>1, <2>4 DEF Unclamped
    <2>5. CASE type = "Sell" /\ ~aggressive
      BY <2>1, <2>5 DEF Unclamped
    <2> QED
      BY <2>2, <2>3, <2>4, <2>5
  <1>2. PriceRangeIsLegal
    <2> SUFFICES ASSUME NEW type \in {"Buy", "Sell"}, NEW aggressive \in BOOLEAN,
                        NEW best_bid \in (MIN_PRICE .. MAX_PRICE) \cup {NULL},
                        NEW best_offer \in (MIN_PRICE .. MAX_PRICE) \cup {NULL}
                 PROVE  LET range == PriceRange(type, aggressive, best_bid, best_offer)
                        IN  /\ MIN_PRICE <= range.lo /\ range.lo <= range.hi
                            /\ range.hi <= MAX_PRICE
      BY DEF PriceRangeIsLegal
    <2> DEFINE bid == IF best_bid = NULL THEN DEFAULT_BUY_PRICE ELSE best_bid
               ask == IF best_offer = NULL THEN DEFAULT_SELL_PRICE ELSE best_offer
               range == Unclamped(type, aggressive, bid, ask)
    <2>1. bid \in MIN_PRICE .. MAX_PRICE /\ ask \in MIN_PRICE .. MAX_PRICE
      BY PriceAssumption
    <2>2. /\ range.lo \in Int /\ range.hi \in Int /\ range.lo <= range.hi
          /\ range.lo <= MAX_PRICE /\ MIN_PRICE <= range.hi
      BY <1>1, <2>1
    <2>3. PriceRange(type, aggressive, best_bid, best_offer)
            = [lo |-> Largest(range.lo, MIN_PRICE), hi |-> Smallest(range.hi, MAX_PRICE)]
      BY DEF PriceRange
    <2>4. MIN_PRICE \in Int /\ MAX_PRICE \in Int /\ MIN_PRICE <= MAX_PRICE
      BY PriceAssumption
    <2> HIDE DEF range, bid, ask
    <2> QED
      BY <2>2, <2>3, <2>4 DEF Largest, Smallest
  <1> QED
    BY <1>2, PTL
=============================================================================
