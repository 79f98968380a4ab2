-------------------- MODULE CentralLimitOrderBook_proofs --------------------
(***************************************************************************)
(* The order book, its feed and the engine that replays it.                *)
(*                                                                         *)
(* First the cached BBO: an operation of BookState that changes it says    *)
(* so, whatever event it executes and whatever the book holds, so the      *)
(* snapshot that strategies read is never stale.                           *)
(*                                                                         *)
(* Then the book itself.  Rep(b, q) says that the pool, its free list, the *)
(* two closed hash maps and the cached BBO of b are one order book, whose  *)
(* queue at price p is q[p]: a ghost sequence of pool entries, linked both *)
(* ways.  Each operation of BookState takes a book with a Rep to one with  *)
(* a Rep (AddKeepsRep, PurgeKeepsRep, ResizeRep); a lookup in a hash map   *)
(* finds its key because no slot on the key's path is empty, which the     *)
(* map's removal keeps.                                                    *)
(*                                                                         *)
(* Then the feed: the replica after the events still waiting in the feed   *)
(* is the exchange's book.  It rests on RoundTrip, that decoding an        *)
(* encoded event gives the event back at the widths the code uses.         *)
(*                                                                         *)
(* Last what the book promises: its ladder of queues is read off Rep, an   *)
(* operation changes it at one price only (LadderChanges), and so every    *)
(* step is one of MatchingEngine (PriceTimePriority).                      *)
(***************************************************************************)
EXTENDS BookLadder, SequenceTheorems, FiniteSetTheorems,
        WellFoundedInduction, TLAPS

Reported == {"NewBestBid", "NewBestOffer"}
TypeNames == {"Add", "Cancel", "Trade", "Update"}

\* c is b after a change that left the cached BBO alone.
SameBbo(b, c) == "bbo" \in DOMAIN c /\ c.bbo = b.bbo
\* Either the BBO is as it was, or the operation reports a change.
Honest(b, result) ==
    /\ "bbo" \in DOMAIN result.book
    /\ result.update \in Reported \/ result.book.bbo = b.bbo

-----------------------------------------------------------------------------
(* The parts of an operation that do not look at the BBO. *)

\* OrderPool::allocate
LEMMA AllocateSame ==
    ASSUME NEW b, "bbo" \in DOMAIN b, NEW resting
    PROVE  SameBbo(b, Allocate(b, resting))
  BY DEF SameBbo, Allocate

\* OrderPool::free
LEMMA FreeSame ==
    ASSUME NEW b, "bbo" \in DOMAIN b, NEW i
    PROVE  SameBbo(b, Free(b, i))
  BY DEF SameBbo, Free

\* An order joins its level, or opens one.
LEMMA JoinSame ==
    ASSUME NEW b, "bbo" \in DOMAIN b, NEW i, NEW o
    PROVE  SameBbo(b, JoinLevel(b, i, o))
  BY DEF SameBbo, JoinLevel

\* detach
LEMMA DetachSame ==
    ASSUME NEW b, "bbo" \in DOMAIN b, NEW r
    PROVE  SameBbo(b, detach(b, r))
  BY DEF SameBbo, detach

\* The level shrinks.
LEMMA ShrinkSame ==
    ASSUME NEW b, "bbo" \in DOMAIN b, NEW p, NEW q
    PROVE  SameBbo(b, Shrink(b, p, q))
  BY DEF SameBbo, Shrink

-----------------------------------------------------------------------------
(* The two operations that do. *)

\* What is reported when a side's best changes.
LEMMA NewBestReported == \A side : NewBest(side) \in Reported
  BY DEF NewBest, Reported

\* update_bbo_add
LEMMA AddHonest ==
    ASSUME NEW b, "bbo" \in DOMAIN b, NEW o
    PROVE  Honest(b, update_bbo_add(b, o))
  BY NewBestReported DEF Honest, update_bbo_add, Result

\* update_bbo_reduce
LEMMA ReduceHonest ==
    ASSUME NEW b, "bbo" \in DOMAIN b, NEW o
    PROVE  Honest(b, update_bbo_reduce(b, o))
  BY NewBestReported DEF Honest, update_bbo_reduce, Result

\* What comes before the report leaves the BBO alone ...
LEMMA HonestAfter ==
    ASSUME NEW b, NEW c, SameBbo(b, c), NEW result, Honest(c, result)
    PROVE  Honest(b, result)
  BY DEF SameBbo, Honest

\* ... and so does what comes after it.
LEMMA HonestBefore ==
    ASSUME NEW b, NEW result, Honest(b, result), NEW c, SameBbo(result.book, c)
    PROVE  Honest(b, Result(c, result.update))
  BY DEF SameBbo, Honest, Result

-----------------------------------------------------------------------------
(* The operations of the book. *)

\* add
LEMMA AddedHonest ==
    ASSUME NEW b, "bbo" \in DOMAIN b, NEW o
    PROVE  Honest(b, add(b, o))
  <1> DEFINE i == Last(b.free)
             allocated == Allocate(b, [NoOrder EXCEPT !.order = o])
             mapped == [allocated EXCEPT !.orders = Insert(@, o.order_id, i)]
             joined == JoinLevel(mapped, i, o)
  <1>1. SameBbo(b, allocated)
    BY AllocateSame
  <1> HIDE DEF i
  <1>2. SameBbo(b, mapped)
    <2> HIDE DEF allocated
    <2> QED
      BY <1>1 DEF SameBbo
  <1> HIDE DEF mapped
  <1>3. SameBbo(b, joined)
    BY <1>2, JoinSame DEF SameBbo
  <1> HIDE DEF joined
  <1>4. Honest(joined, update_bbo_add(joined, o))
    BY <1>3, AddHonest DEF SameBbo
  <1>5. add(b, o) = update_bbo_add(joined, o)
    BY DEF add, joined, mapped, i
  <1> QED
    BY <1>3, <1>4, <1>5, HonestAfter

\* purge_order, and cancel with it
LEMMA PurgedHonest ==
    ASSUME NEW b, "bbo" \in DOMAIN b, NEW id
    PROVE  Honest(b, purge_order(b, id))
  <1> DEFINE i == Find(b.orders, id)
             r == b.pool[i]
             o == r.order
             shrunk == Shrink(b, o.price, o.quantity)
             unlinked ==
                 IF Level(shrunk, o.price).total_quantity = 0
                 THEN [shrunk EXCEPT !.levels = Erase(@, o.price),
                                     !.prices[o.side] = @ \ {o.price}]
                 ELSE detach(shrunk, r)
             gone == [unlinked EXCEPT !.orders = Erase(@, id)]
             reduced == update_bbo_reduce(gone, o)
  <1>0. purge_order(b, id) = Result(Free(reduced.book, i), reduced.update)
    BY DEF purge_order
  <1> HIDE DEF i, r, o
  <1>1. SameBbo(b, shrunk)
    BY ShrinkSame
  <1> HIDE DEF shrunk
  <1>2. SameBbo(b, unlinked)
    <2>1. SameBbo(b, detach(shrunk, r))
      BY <1>1, DetachSame DEF SameBbo
    <2>2. SameBbo(b, [shrunk EXCEPT !.levels = Erase(@, o.price),
                                    !.prices[o.side] = @ \ {o.price}])
      BY <1>1 DEF SameBbo
    <2> QED
      BY <2>1, <2>2
  <1> HIDE DEF unlinked
  <1>3. SameBbo(b, gone)
    BY <1>2 DEF SameBbo
  <1> HIDE DEF gone
  <1>4. Honest(gone, reduced)
    BY <1>3, ReduceHonest DEF SameBbo
  <1> HIDE DEF reduced
  <1>5. Honest(b, reduced)
    BY <1>3, <1>4, HonestAfter
  <1>6. SameBbo(reduced.book, Free(reduced.book, i))
    BY <1>5, FreeSame DEF Honest
  <1> QED
    BY <1>0, <1>5, <1>6, HonestBefore

\* The order's own quantity, set after the report.
LEMMA WithQuantityHonest ==
    ASSUME NEW b, NEW result, Honest(b, result), NEW i, NEW q
    PROVE  Honest(b, WithQuantity(result, i, q))
  <1> DEFINE c == [result.book EXCEPT !.pool[i].order.quantity = q]
  <1>1. SameBbo(result.book, c)
    BY DEF SameBbo, Honest
  <1> HIDE DEF c
  <1>2. Honest(b, Result(c, result.update))
    BY <1>1, HonestBefore
  <1> QED
    BY <1>2 DEF WithQuantity, c

\* trade
LEMMA TradedHonest ==
    ASSUME NEW b, "bbo" \in DOMAIN b, NEW id, NEW q
    PROVE  Honest(b, trade(b, id, q))
  <1> DEFINE i == Find(b.orders, id)
             o == b.pool[i].order
             shrunk == Shrink(b, o.price, q)
             filled == [o EXCEPT !.quantity = q]
             reduced == update_bbo_reduce(shrunk, filled)
  <1>0. trade(b, id, q) = IF o.quantity = q THEN purge_order(b, id)
                          ELSE WithQuantity(reduced, i, o.quantity - q)
    BY DEF trade
  <1> HIDE DEF i, o
  <1>1. SameBbo(b, shrunk)
    BY ShrinkSame
  <1> HIDE DEF shrunk, filled
  <1>2. Honest(shrunk, reduced)
    BY <1>1, ReduceHonest DEF SameBbo
  <1> HIDE DEF reduced
  <1>3. Honest(b, WithQuantity(reduced, i, o.quantity - q))
    BY <1>1, <1>2, HonestAfter, WithQuantityHonest
  <1> QED
    BY <1>0, <1>3, PurgedHonest

\* update_quantity: the BBO may be wrong there (book_update), but what
\* becomes of it is reported.
LEMMA QuantityHonest ==
    ASSUME NEW b, "bbo" \in DOMAIN b, NEW id, NEW q
    PROVE  Honest(b, update_quantity(b, id, q))
  <1> DEFINE i == Find(b.orders, id)
             o == b.pool[i].order
             shrunk == Shrink(b, o.price, o.quantity - q)
             less == [o EXCEPT !.quantity = o.quantity - q]
             more == [o EXCEPT !.quantity = q - o.quantity]
             added == update_bbo_add(shrunk, less)
             reduced == update_bbo_reduce(shrunk, more)
  <1>0. update_quantity(b, id, q) \in {purge_order(b, id), WithQuantity(added, i, q),
                                       WithQuantity(reduced, i, q)}
    BY DEF update_quantity
  <1> HIDE DEF i, o
  <1>1. SameBbo(b, shrunk)
    BY ShrinkSame
  <1> HIDE DEF shrunk, less, more
  <1>2. Honest(shrunk, added) /\ Honest(shrunk, reduced)
    BY <1>1, AddHonest, ReduceHonest DEF SameBbo
  <1> HIDE DEF added, reduced
  <1>3. Honest(b, WithQuantity(added, i, q)) /\ Honest(b, WithQuantity(reduced, i, q))
    BY <1>1, <1>2, HonestAfter, WithQuantityHonest
  <1> QED
    BY <1>0, <1>3, PurgedHonest

\* BookState::execute
LEMMA ExecuteHonest ==
    ASSUME NEW b, "bbo" \in DOMAIN b, NEW event, event.type \in TypeNames
    PROVE  Honest(b, execute(b, event))
  <1>1. execute(b, event) \in {add(b, event.order), cancel(b, event.order.order_id),
                               trade(b, event.order.order_id, event.order.quantity),
                               update_quantity(b, event.order.order_id, event.order.quantity)}
    BY DEF execute, TypeNames
  <1>2. Honest(b, add(b, event.order))
    BY AddedHonest
  <1>3. Honest(b, cancel(b, event.order.order_id))
    BY PurgedHonest DEF cancel
  <1>4. Honest(b, trade(b, event.order.order_id, event.order.quantity))
    BY TradedHonest
  <1>5. Honest(b, update_quantity(b, event.order.order_id, event.order.quantity))
    BY QuantityHonest
  <1> QED
    BY <1>1, <1>2, <1>3, <1>4, <1>5

-----------------------------------------------------------------------------
(* The feed: its messages begin with the number of one of the four types. *)

\* A sequence is one of its own elements.
LEMMA SeqOfElements ==
    ASSUME NEW S, NEW s \in Seq(S)
    PROVE  s \in Seq(ToSet(s)) /\ ToSet(s) \subseteq S
  <1> DEFINE R == {s[i] : i \in DOMAIN s}
  <1>1. Len(s) \in Nat /\ s \in [1 .. Len(s) -> S] /\ DOMAIN s = 1 .. Len(s)
    BY LenProperties
  <1>2. s \in [1 .. Len(s) -> R]
    BY <1>1
  <1>3. R = ToSet(s) /\ R \subseteq S
    BY <1>1 DEF ToSet
  <1> HIDE DEF R
  <1>4. s \in Seq(R)
    BY <1>1, <1>2, SeqDef
  <1> QED
    BY <1>3, <1>4

\* A sequence that begins with x.
Begins(s, x) == /\ s \in Seq(ToSet(s))
                /\ Len(s) >= 1 /\ s[1] = x

\* What is behind it does not change how a sequence begins.
LEMMA BeginsConcat ==
    ASSUME NEW s, NEW x, Begins(s, x), NEW n \in Nat, NEW t, DOMAIN t = 1 .. n,
           t = [i \in 1 .. n |-> t[i]], NEW u, u = s \o t
    PROVE  Begins(u, x)
  <1> DEFINE S == ToSet(s)
             T == {t[i] : i \in 1 .. n}
  <1>1. s \in Seq(S) /\ Len(s) >= 1 /\ s[1] = x /\ Len(s) \in Nat
    BY LenProperties DEF Begins
  <1>2. t \in Seq(T) /\ Len(t) = n
    <2>1. t \in [1 .. n -> T]
      OBVIOUS
    <2> HIDE DEF T
    <2>2. t \in Seq(T)
      BY <2>1, SeqDef
    <2>3. Len(t) = n
      BY ONLY <2>2, LenProperties, n \in Nat, DOMAIN t = 1 .. n
    <2> QED
      BY <2>2, <2>3
  <1> HIDE DEF S, T
  <1>3. s \in Seq(S \cup T) /\ t \in Seq(S \cup T)
    BY <1>1, <1>2
  <1>4. /\ u \in Seq(S \cup T) /\ Len(u) = Len(s) + Len(t)
        /\ u[1] = s[1]
    BY <1>1, <1>2, <1>3, ConcatProperties
  <1>5. u \in Seq(ToSet(u))
    BY <1>4, SeqOfElements
  <1>6. Len(u) >= 1
    BY ONLY <1>1, <1>2, <1>4, n \in Nat
  <1> QED
    BY ONLY <1>1, <1>4, <1>5, <1>6 DEF Begins

\* encode
LEMMA EncodedType ==
    ASSUME NEW type \in TypeNames, NEW o, NEW w, w = encode([type |-> type, order |-> o])
    PROVE  w[1] \in 0 .. 3
  <1>1. PICK e \in 0 .. 3 : e = Enumerator(Types, type)
    <2>1. \E i \in 1 .. Len(Types) : Types[i] = type
      BY DEF Types, TypeNames
    <2>2. (CHOOSE i \in 1 .. Len(Types) : Types[i] = type) \in 1 .. Len(Types)
      BY <2>1
    <2>3. Len(Types) = 4
      BY DEF Types
    <2> QED
      BY <2>2, <2>3 DEF Enumerator
  <1>2. PICK a, b, c, d : /\ a = Network(o.order_id, ID_BYTES)
                          /\ b = Network(Unsigned(o.price), WORD_BYTES)
                          /\ c = Network(o.quantity, WORD_BYTES)
                          /\ d = <<Enumerator(SideNames, o.side)>>
    OBVIOUS
  <1>3. ID_BYTES \in Nat /\ WORD_BYTES \in Nat
    BY WidthAssumption
  <1>4. /\ DOMAIN a = 1 .. ID_BYTES /\ a = [i \in 1 .. ID_BYTES |-> a[i]]
        /\ DOMAIN b = 1 .. WORD_BYTES /\ b = [i \in 1 .. WORD_BYTES |-> b[i]]
        /\ DOMAIN c = 1 .. WORD_BYTES /\ c = [i \in 1 .. WORD_BYTES |-> c[i]]
    BY <1>2 DEF Network
  <1>5. DOMAIN d = 1 .. 1 /\ d = [i \in 1 .. 1 |-> d[i]]
    BY <1>2
  <1>6. PICK s1, s2, s3 : s1 = <<e>> \o a /\ s2 = s1 \o b /\ s3 = s2 \o c
    OBVIOUS
  <1>7. w = s3 \o d
    BY <1>1, <1>2, <1>6 DEF encode
  <1>8. Begins(<<e>>, e)
    <2>1. PICK s : s = <<e>>
      OBVIOUS
    <2>2. s \in Seq({e}) /\ Len(s) = 1 /\ s[1] = e
      BY <2>1
    <2>3. s \in Seq(ToSet(s))
      BY <2>2, SeqOfElements
    <2> QED
      BY <2>1, <2>2, <2>3 DEF Begins
  <1>9. Begins(s1, e)
    BY <1>3, <1>4, <1>6, <1>8, BeginsConcat
  <1>10. Begins(s2, e)
    BY <1>3, <1>4, <1>6, <1>9, BeginsConcat
  <1>11. Begins(s3, e)
    BY <1>3, <1>4, <1>6, <1>10, BeginsConcat
  <1>12. Begins(w, e)
    BY <1>5, <1>7, <1>11, BeginsConcat
  <1> QED
    BY <1>12 DEF Begins

\* decode
LEMMA DecodedType ==
    ASSUME NEW w, w[1] \in 0 .. 3
    PROVE  decode(w).type \in TypeNames
  <1>1. decode(w).type = Types[w[1] + 1]
    BY DEF decode
  <1>2. ASSUME NEW k \in 0 .. 3 PROVE Types[k + 1] \in TypeNames
    BY DEF Types, TypeNames
  <1> QED
    BY <1>1, <1>2

-----------------------------------------------------------------------------
(* The inductive invariant. *)

FeedInv == /\ feed \in Seq(ToSet(feed))
           /\ \A w \in ToSet(feed) : w[1] \in 0 .. 3
BboInv == "bbo" \in DOMAIN replica /\ PublicBboIsCurrent
EngineInv == FeedInv /\ BboInv

\* A message joins the feed.
LEMMA Published ==
    ASSUME FeedInv, NEW type \in TypeNames, NEW o, Publish(type, o)
    PROVE  FeedInv'
  <1> DEFINE w == encode([type |-> type, order |-> o])
  <1>1. w[1] \in 0 .. 3
    BY EncodedType
  <1>2. feed' = Append(feed, w)
    BY DEF Publish
  <1> HIDE DEF w
  <1> DEFINE S == ToSet(feed) \cup {w}
  <1>3. feed \in Seq(S) /\ w \in S
    BY DEF FeedInv
  <1>4. /\ feed' \in Seq(S) /\ Len(feed') = Len(feed) + 1 /\ Len(feed) \in Nat
        /\ DOMAIN feed' = 1 .. Len(feed) + 1 /\ DOMAIN feed = 1 .. Len(feed)
        /\ \A i \in 1 .. Len(feed) : feed'[i] = feed[i]
        /\ feed'[Len(feed) + 1] = w
    BY <1>2, <1>3, AppendProperties, LenProperties
  <1>5. ToSet(feed') \subseteq S
    BY <1>4 DEF ToSet
  <1>6. feed' \in Seq(ToSet(feed'))
    BY <1>4 DEF ToSet
  <1> QED
    BY <1>1, <1>5, <1>6 DEF FeedInv

\* A message leaves the feed.
LEMMA Consumed ==
    ASSUME FeedInv, feed # <<>>, feed' = Tail(feed)
    PROVE  FeedInv' /\ Head(feed)[1] \in 0 .. 3
  <1>1. feed \in Seq(ToSet(feed))
    BY DEF FeedInv
  <1>2. /\ feed' \in Seq(ToSet(feed)) /\ Head(feed) \in ToSet(feed)
    BY <1>1, HeadTailProperties
  <1>3. feed' \in Seq(ToSet(feed')) /\ ToSet(feed') \subseteq ToSet(feed)
    BY <1>2, SeqOfElements
  <1> QED
    BY <1>2, <1>3 DEF FeedInv

\* The book's thread only adds to the feed.
LEMMA BookStep ==
    ASSUME EngineInv, Request \/ Match \/ RequestStop
    PROVE  EngineInv'
  <1>1. FeedInv /\ BboInv
    BY DEF EngineInv
  <1>2. UNCHANGED <<replica, public_bbo>>
    BY DEF Request, NewOrder, CancelOrder, UpdateOrder, Match, ExecuteTrade, AssignId,
           AddOrder, AbandonOrder, RequestStop, engineVars
  <1>3. UNCHANGED feed \/ \E type \in TypeNames : \E o : Publish(type, o)
    <2>1. CASE Request
      BY <2>1 DEF Request, NewOrder, CancelOrder, UpdateOrder, TypeNames
    <2>2. CASE Match
      BY <2>2 DEF Match, ExecuteTrade, AssignId, AddOrder, AbandonOrder, TypeNames
    <2>3. CASE RequestStop
      BY <2>3 DEF RequestStop
    <2> QED
      BY <2>1, <2>2, <2>3
  <1>4. FeedInv'
    <2>1. CASE UNCHANGED feed
      BY <1>1, <2>1 DEF FeedInv
    <2>2. CASE \E type \in TypeNames : \E o : Publish(type, o)
      BY <1>1, <2>2, Published
    <2> QED
      BY <1>3, <2>1, <2>2
  <1>5. BboInv'
    BY <1>1, <1>2 DEF BboInv, PublicBboIsCurrent
  <1> QED
    BY <1>4, <1>5 DEF EngineInv

\* The engine executes an event.
LEMMA EngineStep ==
    ASSUME EngineInv, EngineExecutes
    PROVE  EngineInv'
  <1> DEFINE result == execute(replica, decode(Head(feed)))
  <1>1. FeedInv /\ BboInv
    BY DEF EngineInv
  <1>2. /\ feed # <<>> /\ feed' = Tail(feed) /\ replica' = result.book
        /\ public_bbo' = IF result.update \in {"NewBestBid", "NewBestOffer"}
                         THEN result.book.bbo ELSE public_bbo
    BY DEF EngineExecutes
  <1>3. FeedInv' /\ Head(feed)[1] \in 0 .. 3
    BY <1>1, <1>2, Consumed
  <1>4. Honest(replica, result)
    BY <1>1, <1>3, DecodedType, ExecuteHonest DEF BboInv
  <1> HIDE DEF result
  <1>5. BboInv'
    BY <1>1, <1>2, <1>4 DEF BboInv, PublicBboIsCurrent, Honest, Reported
  <1> QED
    BY <1>3, <1>5 DEF EngineInv

\* The inductive invariant of the feed and of the engine's snapshot.
THEOREM EngineInvariant == Spec => []EngineInv
  <1>1. Init => EngineInv
    <2>1. SUFFICES ASSUME Init PROVE EngineInv
      OBVIOUS
    <2>2. feed = <<>> /\ ToSet(feed) = {}
      BY <2>1 DEF Init, ToSet
    <2>3. FeedInv
      BY <2>2 DEF FeedInv
    <2>4. BboInv
      BY <2>1 DEF Init, BboInv, PublicBboIsCurrent, EmptyBook
    <2> QED
      BY <2>3, <2>4 DEF EngineInv
  <1>2. EngineInv /\ [Next]_vars => EngineInv'
    <2>1. SUFFICES ASSUME EngineInv, [Next]_vars PROVE EngineInv'
      OBVIOUS
    <2>2. CASE UNCHANGED vars
      BY <2>1, <2>2 DEF EngineInv, FeedInv, BboInv, PublicBboIsCurrent, vars, engineVars
    <2> QED
      BY <2>1, <2>2, BookStep, EngineStep DEF Next
  <1> QED
    BY <1>1, <1>2, PTL DEF Spec

\* For every book, every size of its pool and maps and every feed: the snapshot
\* strategies read is the BBO of the engine's book whenever the engine is between
\* events (OrderBookEngine::start and BookState::execute).
THEOREM EngineSnapshotIsCurrent == Spec => []PublicBboIsCurrent
  <1>1. EngineInv => PublicBboIsCurrent
    BY DEF EngineInv, BboInv
  <1> QED
    BY EngineInvariant, <1>1, PTL

-----------------------------------------------------------------------------
(* closed-hash-map.hpp: linear probing with tombstones.  An entry is where *)
(* a search for its key gets to, whatever came and went before it.         *)
\* A set of numbers that is not empty has a least one.
LEMMA LeastNat ==
    ASSUME NEW T, T \subseteq Nat, T # {}
    PROVE  \E m \in T : \A k \in T : m <= k
  <1> DEFINE R == OpToRel(<, Nat)
  <1>1. IsWellFoundedOn(R, Nat)
    BY NatLessThanWellFounded, Zenon
  <1>2. \A x \in Nat, y \in Nat : <<y, x>> \in R <=> y < x
    BY DEF OpToRel
  <1> HIDE DEF R
  <1>3. PICK m \in T : \A y \in T : ~(<<y, m>> \in R)
    BY <1>1, WFMin
  <1>4. ASSUME NEW k \in T PROVE m <= k
    <2>1. m \in Nat /\ k \in Nat /\ ~(<<k, m>> \in R)
      BY <1>3
    <2>2. ~(k < m)
      BY <2>1, <1>2
    <2> QED
      BY <2>1, <2>2
  <1> QED
    BY <1>4

\* Min picks it.
LEMMA MinIsLeast ==
    ASSUME NEW T, T \subseteq Nat, T # {}
    PROVE  Min(T) \in T /\ \A k \in T : Min(T) <= k
  <1>1. \E m \in T : \A k \in T : m <= k
    BY LeastNat
  <1> QED
    BY <1>1 DEF Min

-----------------------------------------------------------------------------
\* The slot a search looks at after n steps.
Place(key, n, cap) == (key + n) % cap
\* The slot holds this key.
Holds(slot, key) == slot.status = "Occupied" /\ slot.key = key

\* Every slot is a record with one of the three states; an occupied one has a
\* number for a key.
SlotOK(s) ==
    /\ s = [status |-> s.status, key |-> s.key, value |-> s.value]
    /\ s.status \in {"Empty", "Tombstone", "Occupied"}
    /\ s.status = "Occupied" => s.key \in Int
\* A map of cap slots.
MapType(m, cap) ==
    /\ cap \in Nat \ {0}
    /\ m = [i \in 0 .. cap - 1 |-> m[i]]
    /\ \A i \in 0 .. cap - 1 : SlotOK(m[i])

\* A search for key that finds slot i after n steps.
Path(m, cap, key, i, n) ==
    /\ n \in 0 .. cap - 1 /\ i = Place(key, n, cap)
    /\ \A k \in 0 .. n - 1 : /\ m[Place(key, k, cap)].status # "Empty"
                             /\ ~Holds(m[Place(key, k, cap)], key)

\* Where a search may look.
LEMMA MapDomain ==
    ASSUME NEW m, NEW cap, MapType(m, cap)
    PROVE  /\ cap \in Nat \ {0} /\ DOMAIN m = 0 .. cap - 1 /\ Capacity(m) = cap
           /\ \A key \in Int, n \in Int : Probe(m, key, n) = Place(key, n, cap)
           /\ \A key \in Int, n \in Int : Place(key, n, cap) \in 0 .. cap - 1
  <1>1. cap \in Nat \ {0} /\ DOMAIN m = 0 .. cap - 1
    BY DEF MapType
  <1>2. Capacity(m) = cap
    BY <1>1, FS_Interval DEF Capacity
  <1> QED
    BY <1>1, <1>2 DEF Probe, Place

\* probe_existing
LEMMA ExistingProbe ==
    ASSUME NEW m, NEW cap, MapType(m, cap), NEW key \in Int,
           NEW e, e = probe_existing(m, key)
    PROVE  \/ /\ e = NULL
              /\ \A i, n : Path(m, cap, key, i, n) => ~Holds(m[i], key)
           \/ /\ e \in 0 .. cap - 1 /\ e # NULL /\ Holds(m[e], key)
              /\ \E n : Path(m, cap, key, e, n)
              /\ \A i, n : Path(m, cap, key, i, n) /\ Holds(m[i], key) => i = e
  <1> DEFINE Hit(n) == \/ m[Probe(m, key, n)].status = "Empty"
                       \/ Holds(m[Probe(m, key, n)], key)
             hits == {n \in DOMAIN m : Hit(n)}
  <1>0. /\ cap \in Nat \ {0} /\ DOMAIN m = 0 .. cap - 1 
        /\ \A n \in Int : Probe(m, key, n) = Place(key, n, cap) /\ Place(key, n, cap) \in 0 .. cap - 1
    BY MapDomain
  <1>1. e = LET i == IF hits = {} THEN NULL ELSE Probe(m, key, Min(hits))
            IN IF i = NULL THEN NULL ELSE IF Holds(m[i], key) THEN i ELSE NULL
    BY DEF probe_existing, FirstProbe, Holds
  <1>2. hits \subseteq Nat
    BY <1>0
  <1>3. CASE hits = {}
    <2>1. e = NULL
      BY <1>1, <1>3
    <2>2. ASSUME NEW i, NEW n, Path(m, cap, key, i, n), Holds(m[i], key) PROVE FALSE
      <3>1. n \in 0 .. cap - 1 /\ i = Place(key, n, cap)
        BY <2>2 DEF Path
      <3>2. Hit(n)
        BY <1>0, <3>1, <2>2
      <3> QED
        BY <3>1, <3>2, <1>3, <1>0
    <2> QED
      BY <2>1, <2>2
  <1>4. CASE hits # {}
    <2>1. PICK n0 : n0 = Min(hits)
      OBVIOUS
    <2>2. n0 \in hits /\ \A k \in hits : n0 <= k
      BY <1>2, <1>4, <2>1, MinIsLeast
    <2>3. n0 \in 0 .. cap - 1 /\ Hit(n0)
      BY <2>2, <1>0
    <2>4. PICK i0 \in 0 .. cap - 1 : i0 = Place(key, n0, cap) /\ i0 = Probe(m, key, n0)
      <3>1. n0 \in Int
        BY ONLY <2>3
      <3>2. Probe(m, key, n0) = Place(key, n0, cap) /\ Place(key, n0, cap) \in 0 .. cap - 1
        BY ONLY <3>1, <1>0
      <3> QED
        BY ONLY <3>2
    <2>5. ASSUME NEW k \in 0 .. n0 - 1 PROVE ~Hit(k) /\ Probe(m, key, k) = Place(key, k, cap)
      <3>1. k \in DOMAIN m /\ ~(n0 <= k) /\ k \in Int
        BY <2>3, <1>0
      <3> QED
        BY <3>1, <2>2, <1>0
    <2>6. Path(m, cap, key, i0, n0)
      <3> HIDE DEF hits
      <3> QED
        BY <2>3, <2>4, <2>5 DEF Path
    <2>7. e = IF Holds(m[i0], key) THEN i0 ELSE NULL
      <3>1. i0 # NULL
        BY NullAssumption
      <3> HIDE DEF hits
      <3> QED
        BY <1>1, <1>4, <2>1, <2>4, <3>1
    <2>8. ASSUME NEW i, NEW n, Path(m, cap, key, i, n), Holds(m[i], key) PROVE i = i0
      <3>1. n \in 0 .. cap - 1 /\ i = Place(key, n, cap)
        BY <2>8 DEF Path
      <3>2. Hit(n)
        BY <1>0, <3>1, <2>8
      <3>3. n0 <= n
        BY <3>1, <3>2, <2>2, <1>0
      <3>4. ~(n0 < n)
        <4>1. SUFFICES ASSUME n0 < n PROVE FALSE
          OBVIOUS
        <4>2. n0 \in 0 .. n - 1
          BY <4>1, <2>3, <3>1
        <4>3. m[Place(key, n0, cap)].status # "Empty" /\ ~Holds(m[Place(key, n0, cap)], key)
          BY <4>2, <2>8 DEF Path
        <4> QED
          BY <4>3, <2>3, <2>4
      <3>5. n = n0
        BY <3>1, <3>3, <3>4, <2>3
      <3> QED
        BY <3>1, <3>5, <2>4
    <2>9. CASE Holds(m[i0], key)
      <3>1. e = i0 /\ e # NULL
        BY <2>7, <2>9, NullAssumption
      <3> QED
        BY <3>1, <2>9, <2>6, <2>8
    <2>10. CASE ~Holds(m[i0], key)
      BY <2>7, <2>8, <2>10
    <2> QED
      BY <2>9, <2>10
  <1> QED
    BY <1>3, <1>4

\* probe_new
LEMMA NewProbe ==
    ASSUME NEW m, NEW cap, MapType(m, cap), NEW key \in Int,
           NEW e, e = probe_new(m, key), e # NULL
    PROVE  /\ e \in 0 .. cap - 1 /\ m[e].status # "Occupied"
           /\ \E n \in 0 .. cap - 1 :
                 /\ e = Place(key, n, cap)
                 /\ \A k \in 0 .. n - 1 : m[Place(key, k, cap)].status = "Occupied"
  <1> DEFINE Hit(n) == m[Probe(m, key, n)].status # "Occupied"
             hits == {n \in DOMAIN m : Hit(n)}
  <1>0. /\ cap \in Nat \ {0} /\ DOMAIN m = 0 .. cap - 1 
        /\ \A n \in Int : Probe(m, key, n) = Place(key, n, cap) /\ Place(key, n, cap) \in 0 .. cap - 1
    BY MapDomain
  <1>1. e = IF hits = {} THEN NULL ELSE Probe(m, key, Min(hits))
    BY DEF probe_new, FirstProbe
  <1>2. hits \subseteq Nat /\ hits # {}
    <2>1. hits \subseteq Nat
      BY <1>0
    <2> HIDE DEF hits
    <2> QED
      BY <2>1, <1>1
  <1>3. PICK n0 : n0 = Min(hits)
    OBVIOUS
  <1>4. n0 \in hits /\ \A k \in hits : n0 <= k
    BY <1>2, <1>3, MinIsLeast
  <1>5. n0 \in 0 .. cap - 1 /\ Hit(n0)
    BY <1>4, <1>0
  <1>6. e = Place(key, n0, cap) /\ e \in 0 .. cap - 1 /\ e = Probe(m, key, n0)
    <2>1. e = Probe(m, key, n0)
      <3> HIDE DEF hits
      <3> QED
        BY <1>1, <1>2, <1>3
    <2> QED
      BY <2>1, <1>5, <1>0
  <1>7. ASSUME NEW k \in 0 .. n0 - 1 PROVE m[Place(key, k, cap)].status = "Occupied"
    <2>1. k \in DOMAIN m /\ ~(n0 <= k) /\ k \in Int
      BY <1>5, <1>0
    <2> QED
      BY <2>1, <1>4, <1>0
  <1>8. m[e].status # "Occupied"
    BY <1>5, <1>6
  <1> HIDE DEF hits
  <1> QED
    BY <1>5, <1>6, <1>7, <1>8

-----------------------------------------------------------------------------
\* A map in order.
MapOK(m, cap) == MapType(m, cap) /\ WellFormed(m)

\* Every entry is on the path of its key.
Reachable(m, cap) ==
    \A i \in 0 .. cap - 1 :
        m[i].status = "Occupied" => \E n : Path(m, cap, m[i].key, i, n)

\* That is what WellFormed says.
LEMMA ReachableIsWellFormed ==
    ASSUME NEW m, NEW cap, MapType(m, cap)
    PROVE  WellFormed(m) <=> Reachable(m, cap)
  <1>0. cap \in Nat \ {0} /\ DOMAIN m = 0 .. cap - 1
    BY MapDomain
  <1>1. ASSUME NEW i \in 0 .. cap - 1, m[i].status = "Occupied"
        PROVE  probe_existing(m, m[i].key) = i <=> \E n : Path(m, cap, m[i].key, i, n)
    <2>1. PICK key \in Int : key = m[i].key
      BY <1>1 DEF MapType, SlotOK
    <2>2. Holds(m[i], key) /\ i # NULL
      BY <1>1, <2>1, NullAssumption DEF Holds
    <2>3. PICK e : e = probe_existing(m, key)
      OBVIOUS
    <2>4. \/ /\ e = NULL
             /\ \A j, n : Path(m, cap, key, j, n) => ~Holds(m[j], key)
          \/ /\ e \in 0 .. cap - 1 /\ e # NULL /\ Holds(m[e], key)
             /\ \E n : Path(m, cap, key, e, n)
             /\ \A j, n : Path(m, cap, key, j, n) /\ Holds(m[j], key) => j = e
      BY <2>3, ExistingProbe
    <2> QED
      BY <2>1, <2>2, <2>3, <2>4
  <1> QED
    BY <1>0, <1>1 DEF WellFormed, Reachable

\* What a map holds.
LEMMA MapFacts ==
    ASSUME NEW m, NEW cap, MapOK(m, cap), NEW key \in Int
    PROVE  /\ cap \in Nat \ {0} /\ DOMAIN m = 0 .. cap - 1
           /\ Has(m, key) <=> \E i \in 0 .. cap - 1 : Holds(m[i], key)
           /\ \A i \in 0 .. cap - 1 : Holds(m[i], key)
                 => probe_existing(m, key) = i /\ Find(m, key) = m[i].value
           /\ Has(m, key) => /\ probe_existing(m, key) \in 0 .. cap - 1
                             /\ Holds(m[probe_existing(m, key)], key)
  <1>0. cap \in Nat \ {0} /\ DOMAIN m = 0 .. cap - 1 /\ MapType(m, cap)
    BY MapDomain DEF MapOK
  <1>1. ASSUME NEW i \in 0 .. cap - 1, Holds(m[i], key)
        PROVE  probe_existing(m, key) = i /\ Find(m, key) = m[i].value /\ Has(m, key)
    <2>1. probe_existing(m, key) = i
      BY <1>0, <1>1 DEF MapOK, WellFormed, Holds
    <2> QED
      BY <2>1, NullAssumption DEF Find, Has
  <1>2. ASSUME Has(m, key)
        PROVE  /\ probe_existing(m, key) \in 0 .. cap - 1
               /\ Holds(m[probe_existing(m, key)], key)
    <2>1. PICK e : e = probe_existing(m, key)
      OBVIOUS
    <2>2. e # NULL
      BY <1>2, <2>1 DEF Has
    <2> QED
      BY <1>0, <2>1, <2>2, ExistingProbe
  <1> QED
    BY <1>0, <1>1, <1>2

\* One slot of a map is written.
Written(w, m, e, s) == w = [m EXCEPT ![e] = s]
\* The other slots keep what they hold.
LEMMA SlotWritten ==
    ASSUME NEW m, NEW cap, MapType(m, cap), NEW e \in 0 .. cap - 1, NEW s, SlotOK(s),
           NEW w, Written(w, m, e, s)
    PROVE  /\ MapType(w, cap)
           /\ w[e] = s /\ \A i \in 0 .. cap - 1 : i # e => w[i] = m[i]
  <1>1. /\ cap \in Nat \ {0} /\ DOMAIN m = 0 .. cap - 1
        /\ m = [i \in 0 .. cap - 1 |-> m[i]]
        /\ \A i \in 0 .. cap - 1 : SlotOK(m[i])
    BY DEF MapType
  <1>2. w[e] = s /\ \A i \in 0 .. cap - 1 : i # e => w[i] = m[i]
    BY <1>1 DEF Written
  <1>3. w = [i \in 0 .. cap - 1 |-> w[i]]
    BY <1>1 DEF Written
  <1>4. \A i \in 0 .. cap - 1 : SlotOK(w[i])
    BY <1>1, <1>2
  <1> QED
    BY <1>1, <1>2, <1>3, <1>4 DEF MapType

\* add(): the other entries stay, the key is found.
LEMMA InsertFacts ==
    ASSUME NEW m, NEW cap, MapOK(m, cap), NEW key \in Int, ~Has(m, key),
           CanAdd(m, key), NEW v, NEW w, w = Insert(m, key, v)
    PROVE  /\ MapOK(w, cap)
           /\ Has(w, key) /\ Find(w, key) = v
           /\ \A k \in Int : k # key => /\ Has(w, k) <=> Has(m, k)
                                        /\ Has(m, k) => Find(w, k) = Find(m, k)
  <1> DEFINE new == [status |-> "Occupied", key |-> key, value |-> v]
  <1>0. MapType(m, cap) /\ Reachable(m, cap)
    BY ReachableIsWellFormed DEF MapOK
  <1>1. PICK e : e = probe_new(m, key) /\ e # NULL
    BY DEF CanAdd
  <1>2. PICK n \in 0 .. cap - 1 :
           /\ e \in 0 .. cap - 1 /\ m[e].status # "Occupied" /\ e = Place(key, n, cap)
           /\ \A k \in 0 .. n - 1 : m[Place(key, k, cap)].status = "Occupied"
    BY <1>0, <1>1, NewProbe
  <1>3. Written(w, m, e, new)
    BY <1>1 DEF Insert, Written
  <1>4. /\ cap \in Nat \ {0} /\ DOMAIN m = 0 .. cap - 1
        /\ \A k \in Int, j \in Int : Place(k, j, cap) \in 0 .. cap - 1
    BY <1>0, MapDomain
  <1>5. MapType(w, cap) /\ w[e] = new /\ \A i \in 0 .. cap - 1 : i # e => w[i] = m[i]
    <2>1. SlotOK(new)
      BY DEF SlotOK
    <2> HIDE DEF new
    <2> QED
      BY <2>1, <1>0, <1>2, <1>3, SlotWritten
  <1>6. MapType(w, cap)
    BY <1>5
  <1>7. \A i \in 0 .. cap - 1 : ~Holds(m[i], key)
    BY MapFacts
  <1>8. Path(w, cap, key, e, n)
    <2>1. ASSUME NEW k \in 0 .. n - 1
          PROVE  w[Place(key, k, cap)].status # "Empty" /\ ~Holds(w[Place(key, k, cap)], key)
      <3>1. PICK i \in 0 .. cap - 1 : i = Place(key, k, cap)
        <4>1. k \in Int
          OBVIOUS
        <4> QED
          BY <4>1, <1>4
      <3>2. m[i].status = "Occupied" /\ i # e
        BY <3>1, <1>2
      <3> QED
        BY <3>1, <3>2, <1>5, <1>7
    <2> QED
      BY <2>1, <1>2 DEF Path
  <1>9. ASSUME NEW i \in 0 .. cap - 1, i # e, m[i].status = "Occupied"
        PROVE  \E j : Path(w, cap, m[i].key, i, j)
    <2>1. PICK j : Path(m, cap, m[i].key, i, j)
      BY <1>0, <1>9 DEF Reachable
    <2>2. PICK a \in Int : a = m[i].key /\ a # key
      BY <1>0, <1>7, <1>9 DEF MapType, Holds, SlotOK
    <2>3. ASSUME NEW k \in 0 .. j - 1
          PROVE  w[Place(a, k, cap)].status # "Empty" /\ ~Holds(w[Place(a, k, cap)], a)
      <3>1. PICK l \in 0 .. cap - 1 : l = Place(a, k, cap)
        <4>1. k \in Int
          BY <2>1 DEF Path
        <4> QED
          BY <4>1, <1>4
      <3>2. m[l].status # "Empty" /\ ~Holds(m[l], a)
        BY <2>1, <2>2, <3>1 DEF Path
      <3>3. CASE l = e
        BY <3>1, <3>3, <1>5, <2>2 DEF Holds
      <3>4. CASE l # e
        BY <3>1, <3>2, <3>4, <1>5
      <3> QED
        BY <3>3, <3>4
    <2>4. Path(w, cap, a, i, j)
      BY <2>1, <2>2, <2>3 DEF Path
    <2> QED
      BY <2>2, <2>4
  <1>10. Reachable(w, cap)
    <2>1. ASSUME NEW i \in 0 .. cap - 1, w[i].status = "Occupied"
          PROVE  \E j : Path(w, cap, w[i].key, i, j)
      <3>1. CASE i = e
        BY <3>1, <1>5, <1>8
      <3>2. CASE i # e
        BY <3>2, <2>1, <1>5, <1>9
      <3> QED
        BY <3>1, <3>2
    <2> QED
      BY <2>1 DEF Reachable
  <1>11. MapOK(w, cap)
    BY <1>6, <1>10, ReachableIsWellFormed DEF MapOK
  <1>12. Has(w, key) /\ Find(w, key) = v
    <2>1. Holds(w[e], key) /\ w[e].value = v
      BY <1>5 DEF Holds
    <2> QED
      BY <2>1, <1>2, <1>11, MapFacts
  <1>13. ASSUME NEW k \in Int, k # key
         PROVE  (Has(w, k) <=> Has(m, k)) /\ (Has(m, k) => Find(w, k) = Find(m, k))
    <2>1. \A i \in 0 .. cap - 1 : /\ Holds(w[i], k) <=> Holds(m[i], k)
                                  /\ Holds(m[i], k) => w[i] = m[i]
      BY <1>2, <1>5, <1>13 DEF Holds
    <2>2. Has(w, k) <=> Has(m, k)
      BY <2>1, <1>11, MapFacts
    <2>3. ASSUME Has(m, k) PROVE Find(w, k) = Find(m, k)
      <3>1. PICK i \in 0 .. cap - 1 : Holds(m[i], k)
        BY <2>3, MapFacts
      <3>2. Find(m, k) = m[i].value
        BY <3>1, MapFacts
      <3>3. Find(w, k) = w[i].value
        BY <3>1, <2>1, <1>11, MapFacts
      <3> QED
        BY <3>1, <3>2, <3>3, <2>1
    <2> QED
      BY <2>2, <2>3
  <1> QED
    BY <1>11, <1>12, <1>13

\* An assignment through find(): only that entry changes.
LEMMA AssignFacts ==
    ASSUME NEW m, NEW cap, MapOK(m, cap), NEW key \in Int, Has(m, key),
           NEW v, NEW w, w = Assign(m, key, v)
    PROVE  /\ MapOK(w, cap)
           /\ Find(w, key) = v
           /\ \A k \in Int : /\ Has(w, k) <=> Has(m, k)
                             /\ k # key /\ Has(m, k) => Find(w, k) = Find(m, k)
  <1>0. MapType(m, cap) /\ Reachable(m, cap)
    BY ReachableIsWellFormed DEF MapOK
  <1>1. PICK e \in 0 .. cap - 1 : e = probe_existing(m, key) /\ Holds(m[e], key)
    BY MapFacts
  <1>3. w = [m EXCEPT ![e].value = v]
    BY <1>1 DEF Assign
  <1>4. /\ cap \in Nat \ {0} /\ DOMAIN m = 0 .. cap - 1
        /\ \A k \in Int, j \in Int : Place(k, j, cap) \in 0 .. cap - 1
    BY <1>0, MapDomain
  <1>5. /\ MapType(w, cap)
        /\ w[e].value = v /\ \A i \in 0 .. cap - 1 : i # e => w[i] = m[i]
        /\ \A i \in 0 .. cap - 1 : w[i].status = m[i].status /\ w[i].key = m[i].key
    <2>1. PICK s : s = [m[e] EXCEPT !.value = v]
      OBVIOUS
    <2>2. m[e] = [status |-> m[e].status, key |-> m[e].key, value |-> m[e].value]
      BY <1>0 DEF MapType, SlotOK
    <2>3. s.value = v /\ s.status = m[e].status /\ s.key = m[e].key
          /\ s = [status |-> s.status, key |-> s.key, value |-> s.value]
      BY <2>1, <2>2
    <2>4. SlotOK(s)
      BY <1>1, <2>3 DEF Holds, SlotOK
    <2>5. Written(w, m, e, s)
      BY <1>3, <2>1 DEF Written
    <2>6. MapType(w, cap) /\ w[e] = s /\ \A i \in 0 .. cap - 1 : i # e => w[i] = m[i]
      BY <2>4, <2>5, <1>0, SlotWritten
    <2> QED
      BY <2>3, <2>6
  <1>6. MapType(w, cap)
    BY <1>5
  <1>7. \A k \in Int, i \in 0 .. cap - 1 : Holds(w[i], k) <=> Holds(m[i], k)
    BY <1>5 DEF Holds
  <1>10. Reachable(w, cap)
    <2>1. ASSUME NEW i \in 0 .. cap - 1, w[i].status = "Occupied"
          PROVE  \E j : Path(w, cap, w[i].key, i, j)
      <3>1. PICK a \in Int : a = w[i].key /\ a = m[i].key
        BY <2>1, <1>0, <1>5 DEF MapType, SlotOK
      <3>2. PICK j : Path(m, cap, a, i, j)
        BY <2>1, <3>1, <1>0, <1>5 DEF Reachable
      <3>3. Path(w, cap, a, i, j)
        <4>1. \A k \in 0 .. j - 1 : Place(a, k, cap) \in 0 .. cap - 1
          <5>1. j \in Int
            BY <3>2 DEF Path
          <5>2. \A k \in 0 .. j - 1 : k \in Int
            BY <5>1
          <5> QED
            BY <5>2, <1>4
        <4>2. ASSUME NEW k \in 0 .. j - 1
              PROVE  w[Place(a, k, cap)].status # "Empty" /\ ~Holds(w[Place(a, k, cap)], a)
          BY <3>2, <4>1, <1>5, <1>7 DEF Path
        <4> QED
          BY <3>2, <4>2 DEF Path
      <3> QED
        BY <3>1, <3>3
    <2> QED
      BY <2>1 DEF Reachable
  <1>11. MapOK(w, cap)
    BY <1>6, <1>10, ReachableIsWellFormed DEF MapOK
  <1>12. Find(w, key) = v
    BY <1>1, <1>5, <1>7, <1>11, MapFacts
  <1>13. ASSUME NEW k \in Int
         PROVE  /\ Has(w, k) <=> Has(m, k)
                /\ k # key /\ Has(m, k) => Find(w, k) = Find(m, k)
    <2>2. Has(w, k) <=> Has(m, k)
      BY <1>7, <1>11, MapFacts, ZenonT(60)
    <2>3. ASSUME k # key, Has(m, k) PROVE Find(w, k) = Find(m, k)
      <3>1. PICK i \in 0 .. cap - 1 : Holds(m[i], k)
        BY <2>3, MapFacts
      <3>2. Find(m, k) = m[i].value
        BY <3>1, MapFacts
      <3>3. Find(w, k) = w[i].value
        BY <3>1, <1>7, <1>11, MapFacts
      <3>4. i # e
        BY <3>1, <1>1, <2>3 DEF Holds
      <3> QED
        BY <3>2, <3>3, <3>4, <1>5
    <2> QED
      BY <2>2, <2>3
  <1> QED
    BY <1>11, <1>12, <1>13

\* erase(): the tombstone hides no other entry.
LEMMA EraseFacts ==
    ASSUME NEW m, NEW cap, MapOK(m, cap), NEW key \in Int, Has(m, key),
           NEW w, w = Erase(m, key)
    PROVE  /\ MapOK(w, cap) /\ ~Has(w, key)
           /\ \A k \in Int : k # key => /\ Has(w, k) <=> Has(m, k)
                                        /\ Has(m, k) => Find(w, k) = Find(m, k)
  <1>0. MapType(m, cap) /\ Reachable(m, cap)
    BY ReachableIsWellFormed DEF MapOK
  <1>1. PICK e \in 0 .. cap - 1 : e = probe_existing(m, key) /\ Holds(m[e], key)
    BY MapFacts
  <1>3. Written(w, m, e, Vacant("Tombstone"))
    BY <1>1, NullAssumption DEF Erase, Written
  <1>4. /\ cap \in Nat \ {0} /\ DOMAIN m = 0 .. cap - 1
        /\ \A k \in Int, j \in Int : Place(k, j, cap) \in 0 .. cap - 1
    BY <1>0, MapDomain
  <1>5. /\ MapType(w, cap) /\ w[e].status = "Tombstone"
        /\ \A i \in 0 .. cap - 1 : i # e => w[i] = m[i]
    <2>1. PICK s : s = Vacant("Tombstone")
      OBVIOUS
    <2>2. SlotOK(s) /\ s.status = "Tombstone"
      BY <2>1 DEF Vacant, SlotOK
    <2> QED
      BY <2>1, <2>2, <1>0, <1>3, SlotWritten
  <1>6. MapType(w, cap)
    BY <1>5
  <1>7. \A i \in 0 .. cap - 1 : Holds(m[i], key) => i = e
    BY <1>1, MapFacts
  <1>8. \A k \in Int, i \in 0 .. cap - 1 : Holds(w[i], k) <=> Holds(m[i], k) /\ i # e
    BY <1>5 DEF Holds
  <1>9. \A i \in 0 .. cap - 1 : m[i].status # "Empty" => w[i].status # "Empty"
    BY <1>5
  <1>10. Reachable(w, cap)
    <2>1. ASSUME NEW i \in 0 .. cap - 1, w[i].status = "Occupied"
          PROVE  \E j : Path(w, cap, w[i].key, i, j)
      <3>0. i # e /\ w[i] = m[i]
        BY <2>1, <1>5
      <3>1. PICK a \in Int : a = w[i].key /\ a = m[i].key
        BY <2>1, <1>0, <3>0 DEF MapType, SlotOK
      <3>2. PICK j : Path(m, cap, a, i, j)
        BY <2>1, <3>0, <3>1, <1>0 DEF Reachable
      <3>3. Path(w, cap, a, i, j)
        <4>1. \A k \in 0 .. j - 1 : Place(a, k, cap) \in 0 .. cap - 1
          <5>1. j \in Int
            BY <3>2 DEF Path
          <5>2. \A k \in 0 .. j - 1 : k \in Int
            BY <5>1
          <5> QED
            BY <5>2, <1>4
        <4>2. ASSUME NEW k \in 0 .. j - 1
              PROVE  w[Place(a, k, cap)].status # "Empty" /\ ~Holds(w[Place(a, k, cap)], a)
          BY <3>2, <4>1, <1>8, <1>9 DEF Path
        <4> QED
          BY <3>2, <4>2 DEF Path
      <3> QED
        BY <3>1, <3>3
    <2> QED
      BY <2>1 DEF Reachable
  <1>11. MapOK(w, cap)
    BY <1>6, <1>10, ReachableIsWellFormed DEF MapOK
  <1>12. ~Has(w, key)
    BY <1>7, <1>8, <1>11, MapFacts
  <1>13. ASSUME NEW k \in Int, k # key
         PROVE  /\ Has(w, k) <=> Has(m, k)
                /\ Has(m, k) => Find(w, k) = Find(m, k)
    <2>1. \A i \in 0 .. cap - 1 : Holds(m[i], k) => i # e
      BY <1>1, <1>13 DEF Holds
    <2>2. Has(w, k) <=> Has(m, k)
      BY <2>1, <1>8, <1>11, MapFacts, SMTT(60)
    <2>3. ASSUME Has(m, k) PROVE Find(w, k) = Find(m, k)
      <3>1. PICK i \in 0 .. cap - 1 : Holds(m[i], k)
        BY <2>3, MapFacts
      <3>2. Find(m, k) = m[i].value
        BY <3>1, MapFacts
      <3>3. Find(w, k) = w[i].value
        BY <3>1, <2>1, <1>8, <1>11, MapFacts
      <3> QED
        BY <3>1, <3>2, <3>3, <2>1, <1>5
    <2> QED
      BY <2>2, <2>3
  <1> QED
    BY <1>11, <1>12, <1>13

\* A search does not come back to a slot before it has seen all of them.
LEMMA PlacesApart ==
    ASSUME NEW key \in Int, NEW cap \in Nat \ {0}, NEW i \in 0 .. cap - 1,
           NEW j \in 0 .. cap - 1, i < j
    PROVE  Place(key, i, cap) # Place(key, j, cap)
  <1> SUFFICES ASSUME Place(key, i, cap) = Place(key, j, cap) PROVE FALSE
    OBVIOUS
  <1>1. PICK a \in Int, b \in Int : a = key + i /\ b = key + j
    OBVIOUS
  <1>2. PICK x \in Int, y \in Int : x = a \div cap /\ y = b \div cap
    OBVIOUS
  <1>3. a = cap * x + (a % cap) /\ b = cap * y + (b % cap)
    BY <1>2
  <1>4. a % cap = b % cap /\ a % cap \in Int
    BY <1>1 DEF Place
  <1>5. b - a = cap * (y - x) /\ 0 < b - a /\ b - a < cap
    BY <1>1, <1>3, <1>4
  <1>6. PICK d \in Int : d = y - x
    OBVIOUS
  <1>7. CASE d <= 0
    <2>1. cap * d <= 0
      BY ONLY <1>7, d \in Int, cap \in Nat \ {0}
    <2> QED
      BY ONLY <2>1, <1>5, <1>6, a \in Int, b \in Int
  <1>8. CASE d >= 1
    <2>1. cap * d >= cap
      BY ONLY <1>8, d \in Int, cap \in Nat \ {0}
    <2> QED
      BY ONLY <2>1, <1>5, <1>6, a \in Int, b \in Int, cap \in Nat
  <1> QED
    BY <1>7, <1>8

\* A map that has more slots than entries has room.
LEMMA RoomFacts ==
    ASSUME NEW m, NEW cap, MapOK(m, cap), NEW key \in Int,
           NEW S, IsFiniteSet(S), Cardinality(S) < cap, NEW f,
           \A k \in Int : Has(m, k) => f[k] \in S,
           \A k \in Int, l \in Int : Has(m, k) /\ Has(m, l) /\ f[k] = f[l] => k = l
    PROVE  CanAdd(m, key)
  <1> SUFFICES ASSUME probe_new(m, key) = NULL PROVE FALSE
    BY DEF CanAdd
  <1> DEFINE Hit(n) == m[Probe(m, key, n)].status # "Occupied"
             hits == {n \in DOMAIN m : Hit(n)}
  <1>0. /\ MapType(m, cap) /\ cap \in Nat \ {0} /\ DOMAIN m = 0 .. cap - 1
        /\ \A n \in Int : Probe(m, key, n) = Place(key, n, cap) /\ Place(key, n, cap) \in 0 .. cap - 1
    BY MapDomain DEF MapOK
  <1>1. NULL = IF hits = {} THEN NULL ELSE Probe(m, key, Min(hits))
    BY DEF probe_new, FirstProbe
  <1>2. hits = {}
    <2>1. SUFFICES ASSUME hits # {} PROVE FALSE
      OBVIOUS
    <2>2. hits \subseteq Nat
      BY <1>0
    <2>3. PICK n0 \in hits : n0 = Min(hits)
      BY <2>1, <2>2, MinIsLeast
    <2>4. Probe(m, key, n0) \in Int
      BY <2>2, <1>0
    <2> HIDE DEF hits
    <2> QED
      BY <2>1, <2>3, <2>4, <1>1, NullAssumption
  <1>3. ASSUME NEW n \in 0 .. cap - 1
        PROVE  /\ Place(key, n, cap) \in 0 .. cap - 1
               /\ m[Place(key, n, cap)].status = "Occupied"
               /\ m[Place(key, n, cap)].key \in Int
               /\ Has(m, m[Place(key, n, cap)].key)
               /\ probe_existing(m, m[Place(key, n, cap)].key) = Place(key, n, cap)
    <2>1. PICK i \in 0 .. cap - 1 : i = Place(key, n, cap) /\ i = Probe(m, key, n)
      <3>1. n \in Int
        OBVIOUS
      <3> QED
        BY <3>1, <1>0
    <2>2. m[i].status = "Occupied"
      BY <2>1, <1>0, <1>2
    <2>3. PICK a \in Int : a = m[i].key
      BY <2>2, <1>0 DEF MapType, SlotOK
    <2>4. Holds(m[i], a)
      BY <2>2, <2>3 DEF Holds
    <2>5. Has(m, a) /\ probe_existing(m, a) = i
      BY <2>4, MapFacts
    <2> QED
      BY <2>1, <2>2, <2>3, <2>5
  <1> HIDE DEF hits
  <1>4. PICK g : g = [n \in 0 .. cap - 1 |-> f[m[Place(key, n, cap)].key]]
    OBVIOUS
  <1>5. g \in [0 .. cap - 1 -> S]
    BY <1>3, <1>4
  <1>6. IsFiniteSet(0 .. cap - 1) /\ Cardinality(0 .. cap - 1) = cap
    BY <1>0, FS_Interval
  <1>7. PICK x \in 0 .. cap - 1, y \in 0 .. cap - 1 : x # y /\ g[x] = g[y]
    BY <1>5, <1>6, FS_PigeonHole
  <1>8. m[Place(key, x, cap)].key = m[Place(key, y, cap)].key
    BY <1>3, <1>4, <1>7
  <1>9. Place(key, x, cap) = Place(key, y, cap)
    BY <1>3, <1>8
  <1>10. x < y \/ y < x
    BY <1>7, <1>0
  <1> QED
    BY <1>0, <1>9, <1>10, PlacesApart

\* The empty map.
LEMMA EmptyMapFacts ==
    ASSUME NEW cap \in Nat \ {0}
    PROVE  MapOK(EmptyMap(cap), cap) /\ \A k \in Int : ~Has(EmptyMap(cap), k)
  <1>1. PICK m : m = EmptyMap(cap)
    OBVIOUS
  <1>2. m = [i \in 0 .. cap - 1 |-> m[i]] /\ \A i \in 0 .. cap - 1 : m[i] = Vacant("Empty")
    BY <1>1 DEF EmptyMap
  <1>3. \A i \in 0 .. cap - 1 : SlotOK(m[i]) /\ m[i].status = "Empty"
    BY <1>2 DEF SlotOK, Vacant
  <1>4. MapType(m, cap)
    BY <1>2, <1>3 DEF MapType
  <1>5. MapOK(m, cap)
    BY <1>3, <1>4, ReachableIsWellFormed DEF MapOK, Reachable
  <1>6. \A k \in Int, i \in 0 .. cap - 1 : ~Holds(m[i], k)
    BY <1>3 DEF Holds
  <1>7. \A k \in Int : ~Has(m, k)
    BY <1>5, <1>6, MapFacts
  <1> QED
    BY <1>1, <1>5, <1>7

\* The keys of a map are what it finds.
LEMMA KeysFacts ==
    ASSUME NEW m, NEW cap, MapOK(m, cap)
    PROVE  Keys(m) = {k \in Int : Has(m, k)}
  <1>1. ASSUME NEW k \in Keys(m) PROVE k \in Int /\ Has(m, k)
    <2>1. MapType(m, cap) /\ DOMAIN m = 0 .. cap - 1
      BY MapDomain DEF MapOK
    <2>2. PICK i \in 0 .. cap - 1 : m[i].status = "Occupied" /\ k = m[i].key
      BY <1>1, <2>1 DEF Keys
    <2>3. k \in Int /\ Holds(m[i], k)
      BY <2>1, <2>2 DEF MapType, SlotOK, Holds
    <2> QED
      BY <2>3, MapFacts
  <1>2. ASSUME NEW k \in Int, Has(m, k) PROVE k \in Keys(m)
    <2>1. DOMAIN m = 0 .. cap - 1
      BY MapFacts
    <2>2. PICK i \in 0 .. cap - 1 : Holds(m[i], k)
      BY <1>2, MapFacts
    <2> QED
      BY <2>1, <2>2 DEF Keys, Holds
  <1> QED
    BY <1>1, <1>2

-----------------------------------------------------------------------------
(* The queue of a price level.  s lists the pool entries from head to      *)
(* tail; P holds the running sums of their quantities.                     *)
\* The entries of the pool.
Index == 0 .. MAX_CONCURRENT_ORDERS - 1
\* What may rest in the book.
Orders == [order_id : Ids, price : Prices, quantity : 1 .. QUANTITY_RANGE - 1, side : Sides]
\* What previous and next may be.
Link == Index \cup {NULL}
\* An entry in use.
Entries == [order : Orders, previous : Link, next : Link]

\* The element before place n of a queue, and the one after it.
Before(s, n) == IF n = 1 THEN NULL ELSE s[n - 1]
After(s, n) == IF n = Len(s) THEN NULL ELSE s[n + 1]

\* No entry stands in a queue twice.
Distinct(s) == \A m, n \in 1 .. Len(s) : s[m] = s[n] => m = n

\* Entry r of the pool stands at place n of queue s.
Stands(r, s, n, p, side) ==
    /\ r \in Entries /\ r.order.price = p /\ r.order.side = side
    /\ r.previous = Before(s, n) /\ r.next = After(s, n)
\* previous and next run along the queue.
Linked(pool, s, p, side) == \A n \in 1 .. Len(s) : Stands(pool[s[n]], s, n, p, side)

\* P is the running sum of the quantities of a queue.
Sums(pool, s, P) ==
    /\ P \in [0 .. Len(s) -> Nat] /\ P[0] = 0
    /\ \A n \in 1 .. Len(s) : P[n] = P[n - 1] + pool[s[n]].order.quantity
    /\ \A m, n \in 0 .. Len(s) : m <= n => P[m] <= P[n]
\* The quantities of the queue add up to total.
Totals(pool, s, total) == \E P : Sums(pool, s, P) /\ P[Len(s)] = total

\* s is the queue at price p.
Queue(pool, s, p, side, total) ==
    /\ s \in Seq(Index) /\ Len(s) >= 1 /\ Distinct(s)
    /\ Linked(pool, s, p, side) /\ Totals(pool, s, total)

\* What a queue says of the entries in it.
LEMMA QueueFacts ==
    ASSUME NEW pool, NEW s, NEW p, NEW side, NEW total, Queue(pool, s, p, side, total)
    PROVE  /\ s \in Seq(Index) /\ Len(s) \in Nat \ {0} /\ Distinct(s)
           /\ \A n \in 1 .. Len(s) : /\ s[n] \in Index /\ s[n] # NULL
                                     /\ Stands(pool[s[n]], s, n, p, side)
                                     /\ pool[s[n]].order.quantity \in Nat \ {0}
  <1>1. s \in Seq(Index) /\ Len(s) \in Nat \ {0} /\ Distinct(s)
    BY LenProperties DEF Queue
  <1>2. ASSUME NEW n \in 1 .. Len(s)
        PROVE  /\ s[n] \in Index /\ s[n] # NULL /\ Stands(pool[s[n]], s, n, p, side)
               /\ pool[s[n]].order.quantity \in Nat \ {0}
    <2>1. s[n] \in Index
      BY <1>1, ElementOfSeq
    <2>2. s[n] # NULL
      BY <2>1, NullAssumption, PoolAssumption DEF Index
    <2>3. Stands(pool[s[n]], s, n, p, side)
      BY DEF Queue, Linked
    <2>4. pool[s[n]].order.quantity \in Nat \ {0}
      BY ONLY <2>3, PoolAssumption, SMTT(60) DEF Stands, Entries, Orders
    <2> QED
      BY <2>1, <2>2, <2>3, <2>4
  <1> QED
    BY <1>1, <1>2

\* A queue whose entries are left alone.
LEMMA QueueFrame ==
    ASSUME NEW pool, NEW new, NEW s, NEW p, NEW side, NEW total,
           Queue(pool, s, p, side, total),
           \A n \in 1 .. Len(s) : new[s[n]] = pool[s[n]]
    PROVE  Queue(new, s, p, side, total)
  <1>1. Linked(new, s, p, side)
    BY DEF Queue, Linked
  <1>2. PICK P : Sums(pool, s, P) /\ P[Len(s)] = total
    BY DEF Queue, Totals
  <1>3. Sums(new, s, P)
    BY <1>2 DEF Sums
  <1> QED
    BY <1>1, <1>2, <1>3 DEF Queue, Totals

\* The queue of a level that was just opened.
LEMMA QueueOfOne ==
    ASSUME NEW pool, NEW i \in Index, NEW o \in Orders,
           pool[i] = [order |-> o, previous |-> NULL, next |-> NULL]
    PROVE  Queue(pool, <<i>>, o.price, o.side, o.quantity)
  <1>1. PICK s : s = <<i>>
    OBVIOUS
  <1>2. s \in Seq(Index) /\ Len(s) = 1 /\ s[1] = i
    BY <1>1
  <1>3. Distinct(s)
    BY <1>2 DEF Distinct
  <1>4. Linked(pool, s, o.price, o.side)
    <2>1. pool[i] \in Entries
      BY DEF Entries, Link
    <2> QED
      BY <1>2, <2>1 DEF Linked, Stands, Before, After
  <1>5. o.quantity \in Nat
    BY PoolAssumption DEF Orders
  <1>6. PICK P : P = [n \in 0 .. 1 |-> IF n = 0 THEN 0 ELSE o.quantity]
    OBVIOUS
  <1>7. Sums(pool, s, P) /\ P[Len(s)] = o.quantity
    BY <1>2, <1>5, <1>6 DEF Sums
  <1> QED
    BY <1>1, <1>2, <1>3, <1>4, <1>7 DEF Queue, Totals

\* Entry i holds o and is linked behind the last entry of queue s.
Behind(pool, new, s, i, o) ==
    /\ \A n \in 1 .. Len(s) : s[n] # i
    /\ new[i] = [order |-> o, previous |-> s[Len(s)], next |-> NULL]
    /\ new[s[Len(s)]] = [pool[s[Len(s)]] EXCEPT !.next = i]
    /\ \A n \in 1 .. Len(s) - 1 : new[s[n]] = pool[s[n]]

\* An order joins the queue behind its tail.
LEMMA QueueAppend ==
    ASSUME NEW pool, NEW new, NEW s, NEW p, NEW side, NEW total,
           Queue(pool, s, p, side, total), NEW i \in Index, NEW o \in Orders,
           o.price = p, o.side = side,
           Behind(pool, new, s, i, o), NEW t, t = Append(s, i)
    PROVE  Queue(new, t, p, side, total + o.quantity)
  <1> USE DEF Behind
  <1>1. /\ s \in Seq(Index) /\ Len(s) \in Nat \ {0} /\ Distinct(s)
        /\ \A n \in 1 .. Len(s) : s[n] \in Index /\ Stands(pool[s[n]], s, n, p, side)
    BY QueueFacts
  <1>2. /\ t \in Seq(Index) /\ Len(t) = Len(s) + 1 /\ t[Len(s) + 1] = i
        /\ \A n \in 1 .. Len(s) : t[n] = s[n]
    BY <1>1, AppendProperties
  <1>3. PICK l \in Nat \ {0} : l = Len(s)
    BY <1>1
  <1>4. Distinct(t)
    BY <1>1, <1>2, <1>3 DEF Distinct
  <1>5. ASSUME NEW n \in 1 .. Len(t) PROVE Stands(new[t[n]], t, n, p, side)
    <2>1. CASE n = l + 1
      <3>1. new[i] \in Entries
        BY <1>1, <1>3 DEF Entries, Link
      <3>2. Before(t, n) = s[l] /\ After(t, n) = NULL
        BY <2>1, <1>2, <1>3 DEF Before, After
      <3> QED
        BY <2>1, <3>1, <3>2, <1>2, <1>3 DEF Stands
    <2>2. CASE n = l
      <3>1. Before(t, n) = Before(s, n) /\ After(t, n) = i
        BY <2>2, <1>2, <1>3 DEF Before, After
      <3>2. Stands(pool[s[l]], s, l, p, side) /\ pool[s[l]] \in Entries
        BY <1>1, <1>3 DEF Stands
      <3>3. new[s[l]] = [pool[s[l]] EXCEPT !.next = i]
        BY <1>3
      <3>4. /\ new[s[l]] \in Entries /\ new[s[l]].order = pool[s[l]].order
            /\ new[s[l]].previous = pool[s[l]].previous /\ new[s[l]].next = i
        BY <3>2, <3>3 DEF Entries, Link
      <3> QED
        BY <2>2, <3>1, <3>2, <3>4, <1>2, <1>3 DEF Stands
    <2>3. CASE n \in 1 .. l - 1
      <3>1. Before(t, n) = Before(s, n) /\ After(t, n) = After(s, n)
        BY <2>3, <1>2, <1>3 DEF Before, After
      <3>2. new[t[n]] = pool[s[n]] /\ Stands(pool[s[n]], s, n, p, side)
        BY <2>3, <1>1, <1>2, <1>3
      <3> QED
        BY <3>1, <3>2 DEF Stands
    <2> QED
      BY <2>1, <2>2, <2>3, <1>2, <1>3
  <1>6. PICK P : Sums(pool, s, P) /\ P[Len(s)] = total
    BY DEF Queue, Totals
  <1>7. PICK R : R = [n \in 0 .. Len(t) |-> IF n = Len(t) THEN total + o.quantity ELSE P[n]]
    OBVIOUS
  <1>8. o.quantity \in Nat /\ total \in Nat
    BY ONLY <1>1, <1>6, PoolAssumption, SMTT(30) DEF Orders, Sums
  <1>9. Sums(new, t, R)
    <2>1. R \in [0 .. Len(t) -> Nat] /\ R[0] = 0
      BY <1>1, <1>2, <1>6, <1>7, <1>8 DEF Sums
    <2>2. ASSUME NEW n \in 1 .. Len(t) PROVE R[n] = R[n - 1] + new[t[n]].order.quantity
      <3>1. CASE n = l + 1
        BY <3>1, <1>1, <1>2, <1>3, <1>6, <1>7
      <3>2. CASE n \in 1 .. l
        <4>1. new[t[n]].order = pool[s[n]].order
          <5>1. CASE n = l
            BY <5>1, <1>1, <1>2, <1>3 DEF Stands, Entries
          <5>2. CASE n # l
            BY <5>2, <3>2, <1>2, <1>3, SMTT(60)
          <5> QED
            BY <5>1, <5>2
        <4>2. R[n] = P[n] /\ R[n - 1] = P[n - 1]
          BY <3>2, <1>2, <1>3, <1>7
        <4> QED
          BY <4>1, <4>2, <3>2, <1>3, <1>6 DEF Sums
      <3> QED
        BY <3>1, <3>2, <1>2, <1>3
    <2>3. ASSUME NEW m \in 0 .. Len(t), NEW n \in 0 .. Len(t), m <= n PROVE R[m] <= R[n]
      <3>1. \A a \in 0 .. l : P[a] <= total /\ P[a] \in Nat
        BY <1>3, <1>6 DEF Sums
      <3>2. CASE n = l + 1
        BY ONLY <3>1, <3>2, <1>2, <1>3, <1>7, <1>8, SMTT(60)
      <3>3. CASE n \in 0 .. l
        BY <2>3, <3>3, <1>2, <1>3, <1>6, <1>7 DEF Sums
      <3> QED
        BY <3>2, <3>3, <1>2, <1>3
    <2> QED
      BY <2>1, <2>2, <2>3 DEF Sums
  <1>10. R[Len(t)] = total + o.quantity
    BY <1>2, <1>3, <1>7
  <1>11. Totals(new, t, total + o.quantity)
    BY <1>9, <1>10 DEF Totals
  <1> QED
    BY <1>2, <1>3, <1>4, <1>5, <1>11 DEF Queue, Linked

\* s without its k-th element.
Without(s, k) == [n \in 1 .. Len(s) - 1 |-> IF n < k THEN s[n] ELSE s[n + 1]]

\* The elements that are left, in their order.
Remaining(t, s, k, S) ==
    /\ t \in Seq(S) /\ Len(t) = Len(s) - 1
    /\ \A n \in 1 .. Len(s) - 1 : t[n] = IF n < k THEN s[n] ELSE s[n + 1]

\* That is what Without leaves.
LEMMA WithoutFacts ==
    ASSUME NEW S, NEW s \in Seq(S), NEW k \in 1 .. Len(s), NEW t, t = Without(s, k)
    PROVE  Remaining(t, s, k, S)
  <1>1. Len(s) \in Nat \ {0} /\ \A n \in 1 .. Len(s) : s[n] \in S
    BY LenProperties
  <1>2. PICK l \in Nat : l = Len(s) - 1
    BY <1>1
  <1>3. t \in [1 .. l -> S] /\ \A n \in 1 .. l : t[n] = IF n < k THEN s[n] ELSE s[n + 1]
    BY <1>1, <1>2 DEF Without
  <1>4. t \in Seq(S) 
    BY <1>3, SeqDef
  <1>5. Len(t) = l
    BY ONLY <1>3, <1>4, LenProperties, l \in Nat
  <1> QED
    BY <1>2, <1>3, <1>4, <1>5 DEF Remaining

\* The neighbours of the order that leaves are linked to one another.
Unlinked(pool, new, s, k) ==
    \A n \in 1 .. Len(s) : n # k =>
        new[s[n]] = IF n = k - 1 THEN [pool[s[n]] EXCEPT !.next = After(s, k)]
                    ELSE IF n = k + 1 THEN [pool[s[n]] EXCEPT !.previous = Before(s, k)]
                    ELSE pool[s[n]]

\* An order leaves the queue, and its neighbours are linked to each other.
LEMMA QueueRemove ==
    ASSUME NEW pool, NEW new, NEW s, NEW p, NEW side, NEW total,
           Queue(pool, s, p, side, total), NEW k \in 1 .. Len(s), Len(s) # 1,
           Unlinked(pool, new, s, k), NEW t, t = Without(s, k),
           NEW v, v = pool[s[k]].order.quantity
    PROVE  Queue(new, t, p, side, total - v)
  <1>1. /\ s \in Seq(Index) /\ Len(s) \in Nat \ {0} /\ Distinct(s)
        /\ \A n \in 1 .. Len(s) : /\ s[n] \in Index /\ Stands(pool[s[n]], s, n, p, side)
                                  /\ pool[s[n]].order.quantity \in Nat
    BY QueueFacts
  <1>2. PICK l \in Nat \ {0} : l = Len(s) - 1 /\ l + 1 = Len(s)
    <2>1. Len(s) \in Nat \ {0}
      BY <1>1
    <2>2. Len(s) - 1 \in Nat \ {0} /\ (Len(s) - 1) + 1 = Len(s)
      BY ONLY <2>1, Len(s) # 1
    <2> QED
      BY <2>2, Zenon
  <1>3. /\ t \in Seq(Index) /\ Len(t) = l
        /\ \A n \in 1 .. l : t[n] = IF n < k THEN s[n] ELSE s[n + 1]
    <2>1. s \in Seq(Index)
      BY <1>1
    <2>2. Remaining(t, s, k, Index)
      BY ONLY <2>1, k \in 1 .. Len(s), t = Without(s, k), WithoutFacts
    <2> QED
      BY <2>2, <1>2 DEF Remaining
  <1>4. Distinct(t)
    <2>1. ASSUME NEW m \in 1 .. l, NEW n \in 1 .. l, t[m] = t[n] PROVE m = n
      <3>1. PICK a \in 1 .. l + 1 : t[m] = s[a] /\ a = IF m < k THEN m ELSE m + 1
        BY <1>3
      <3>2. PICK b \in 1 .. l + 1 : t[n] = s[b] /\ b = IF n < k THEN n ELSE n + 1
        BY <1>3
      <3>3. a = b
        BY <2>1, <3>1, <3>2, <1>1, <1>2 DEF Distinct
      <3> QED
        BY <3>1, <3>2, <3>3, <1>2
    <2> QED
      BY <2>1, <1>3 DEF Distinct
  <1>5. ASSUME NEW n \in 1 .. l + 1, n # k
        PROVE  /\ new[s[n]] \in Entries /\ new[s[n]].order = pool[s[n]].order
               /\ new[s[n]].next = IF n = k - 1 THEN After(s, k) ELSE After(s, n)
               /\ new[s[n]].previous = IF n = k + 1 THEN Before(s, k) ELSE Before(s, n)
    <2>0. /\ Stands(pool[s[n]], s, n, p, side) /\ pool[s[n]] \in Entries
          /\ pool[s[n]].next = After(s, n) /\ pool[s[n]].previous = Before(s, n)
      BY <1>1, <1>2 DEF Stands
    <2>1. After(s, k) \in Link /\ Before(s, k) \in Link
      BY ONLY <1>1, <1>2, SMTT(60) DEF After, Before, Link
    <2>2. PICK r : r = pool[s[n]]
      OBVIOUS
    <2>3. new[s[n]] = IF n = k - 1 THEN [r EXCEPT !.next = After(s, k)]
                      ELSE IF n = k + 1 THEN [r EXCEPT !.previous = Before(s, k)]
                      ELSE r
      BY <1>2, <1>5, <2>2 DEF Unlinked
    <2>4. CASE n = k - 1
      BY ONLY <2>0, <2>1, <2>2, <2>3, <2>4, SMTT(60) DEF Entries
    <2>5. CASE n = k + 1
      BY <2>0, <2>1, <2>2, <2>3, <2>5, SMTT(60) DEF Entries
    <2>6. CASE n # k - 1 /\ n # k + 1
      BY <2>0, <2>2, <2>3, <2>6
    <2> QED
      BY <2>4, <2>5, <2>6
  <1>6. ASSUME NEW n \in 1 .. l PROVE Stands(new[t[n]], t, n, p, side)
    <2>1. PICK a \in 1 .. l + 1 : t[n] = s[a] /\ a = (IF n < k THEN n ELSE n + 1) /\ a # k
      BY <1>3
    <2>2. /\ new[s[a]] \in Entries /\ new[s[a]].order = pool[s[a]].order
          /\ new[s[a]].next = IF a = k - 1 THEN After(s, k) ELSE After(s, a)
          /\ new[s[a]].previous = IF a = k + 1 THEN Before(s, k) ELSE Before(s, a)
      BY <2>1, <1>5
    <2>3. pool[s[a]].order.price = p /\ pool[s[a]].order.side = side
      BY <1>1, <1>2 DEF Stands
    <2>4. After(t, n) = IF a = k - 1 THEN After(s, k) ELSE After(s, a)
      BY <2>1, <1>2, <1>3, SMTT(60) DEF After
    <2>5. Before(t, n) = IF a = k + 1 THEN Before(s, k) ELSE Before(s, a)
      BY ONLY <2>1, <1>2, <1>3, SMTT(60) DEF Before
    <2> QED
      BY <2>1, <2>2, <2>3, <2>4, <2>5 DEF Stands
  <1>7. PICK P : Sums(pool, s, P) /\ P[Len(s)] = total
    BY DEF Queue, Totals
  <1>8. PICK R : R = [n \in 0 .. l |-> IF n < k THEN P[n] ELSE P[n + 1] - v]
    OBVIOUS
  <1>9. /\ v \in Nat /\ P[k] = P[k - 1] + v
        /\ P \in [0 .. l + 1 -> Nat] /\ P[0] = 0
        /\ \A m, n \in 0 .. l + 1 : m <= n => P[m] <= P[n]
    BY <1>1, <1>2, <1>7 DEF Sums
  <1>10. ASSUME NEW n \in k .. l PROVE P[n + 1] - v >= P[k - 1] /\ P[n + 1] - v \in Nat
    <2>1. P[n + 1] \in Nat /\ P[k] \in Nat /\ P[k - 1] \in Nat /\ P[k] <= P[n + 1]
      BY ONLY <1>2, <1>9, SMTT(30)
    <2>2. PICK x \in Nat, y \in Nat, z \in Nat : x = P[n + 1] /\ y = P[k] /\ z = P[k - 1]
      BY <2>1
    <2>3. y <= x /\ y = z + v /\ v \in Nat
      BY <2>1, <2>2, <1>9
    <2>4. x - v >= z /\ x - v \in Nat
      BY ONLY <2>3, x \in Nat, y \in Nat, z \in Nat
    <2> QED
      BY <2>2, <2>4
  <1>14. \A x \in 0 .. l + 1 : P[x] \in Nat
    BY <1>9
  <1>11. Sums(new, t, R)
    <2>1. R \in [0 .. l -> Nat] /\ R[0] = 0
      BY <1>2, <1>8, <1>9, <1>10, SMTT(60)
    <2>2. ASSUME NEW n \in 1 .. l PROVE R[n] = R[n - 1] + new[t[n]].order.quantity
      <3>1. PICK a \in 1 .. l + 1 : t[n] = s[a] /\ a = (IF n < k THEN n ELSE n + 1) /\ a # k
        BY <1>3
      <3>2. new[t[n]].order = pool[s[a]].order
        BY <3>1, <1>5
      <3>3. P[a] = P[a - 1] + pool[s[a]].order.quantity /\ pool[s[a]].order.quantity \in Nat
        BY <1>1, <1>2, <1>7 DEF Sums
      <3>4. CASE n < k
        BY ONLY <3>1, <3>2, <3>3, <3>4, <1>2, <1>8, SMTT(60)
      <3>5. CASE n = k
        <4>1. R[n] = P[k + 1] - v /\ R[n - 1] = P[k - 1] /\ a = k + 1
          BY <3>1, <3>5, <1>2, <1>8
        <4>2. PICK x \in Nat, y \in Nat, z \in Nat : x = P[k + 1] /\ y = P[k] /\ z = P[k - 1]
          <5>1. {k + 1, k, k - 1} \subseteq 0 .. l + 1
            BY <3>5, <1>2
          <5> QED
            BY <5>1, <1>14
        <4>3. PICK q \in Nat : q = pool[s[a]].order.quantity
          BY <3>3
        <4>4. x = y + q /\ y = z + v /\ R[n] = x - v /\ R[n - 1] = z
          <5>1. a - 1 = k
            BY <4>1
          <5> QED
            BY <5>1, <4>1, <4>2, <4>3, <3>3, <1>9
        <4>5. x - v = z + q
          BY ONLY <4>4, <1>9, x \in Nat, y \in Nat, z \in Nat, q \in Nat
        <4> QED
          BY <4>3, <4>4, <4>5, <3>2
      <3>6. CASE n > k
        <4>1. R[n] = P[n + 1] - v /\ R[n - 1] = P[n] - v /\ a = n + 1
          BY <3>1, <3>6, <1>2, <1>8, SMTT(30)
        <4>2. PICK x \in Nat, y \in Nat : x = P[n + 1] /\ y = P[n]
          BY ONLY <1>14, SMTT(60)
        <4>3. PICK q \in Nat : q = pool[s[a]].order.quantity
          BY <3>3
        <4>4. x = y + q /\ R[n] = x - v /\ R[n - 1] = y - v
          <5>1. a - 1 = n
            BY <4>1
          <5> QED
            BY <5>1, <4>1, <4>2, <4>3, <3>3
        <4>5. x - v = y - v + q
          BY ONLY <4>4, <1>9, x \in Nat, y \in Nat, q \in Nat
        <4> QED
          BY <4>3, <4>4, <4>5, <3>2
      <3> QED
        BY <3>4, <3>5, <3>6, <1>2
    <2>3. ASSUME NEW m \in 0 .. l, NEW n \in 0 .. l, m <= n PROVE R[m] <= R[n]
      <3>1. CASE n < k
        BY <2>3, <3>1, <1>2, <1>8, <1>9, SMTT(60)
      <3>2. CASE m >= k
        <4>1. R[m] = P[m + 1] - v /\ R[n] = P[n + 1] - v
          BY <2>3, <3>2, <1>2, <1>8
        <4>2. P[m + 1] \in Nat /\ P[n + 1] \in Nat /\ P[m + 1] <= P[n + 1]
          BY ONLY <2>3, <1>2, <1>9, SMTT(30)
        <4> QED
          BY ONLY <4>1, <4>2, <1>9, SMTT(30)
      <3>3. CASE m < k /\ n >= k
        <4>1. R[m] = P[m] /\ R[n] = P[n + 1] - v
          BY <3>3, <1>2, <1>8
        <4>2. {m, k - 1, n + 1} \subseteq 0 .. l + 1 /\ m <= k - 1 /\ n \in k .. l
          BY <3>3, <1>2
        <4>3. PICK x \in Nat, y \in Nat, z \in Nat : x = P[m] /\ y = P[k - 1] /\ z = P[n + 1]
          BY <4>2, <1>14
        <4>4. x <= y /\ z - v >= y
          BY <4>2, <4>3, <1>9, <1>10
        <4>5. x <= z - v
          BY ONLY <4>4, <1>9, x \in Nat, y \in Nat, z \in Nat
        <4> QED
          BY <4>1, <4>3, <4>5
      <3> QED
        BY <3>1, <3>2, <3>3, <1>2
    <2> QED
      BY <2>1, <2>2, <2>3, <1>3 DEF Sums
  <1>12. R[Len(t)] = total - v
    <2>1. R[l] = IF l < k THEN P[l] ELSE P[l + 1] - v
      BY <1>8
    <2>2. PICK x \in Nat, y \in Nat : x = P[l] /\ y = P[l + 1]
      BY <1>14
    <2>3. CASE l < k
      <3>1. k = l + 1 /\ k - 1 = l
        BY <2>3, <1>2
      <3>2. y = x + v
        BY <3>1, <2>2, <1>9
      <3>3. x = y - v
        BY ONLY <3>2, <1>9, x \in Nat, y \in Nat
      <3> QED
        BY <2>1, <2>2, <2>3, <3>3, <1>2, <1>3, <1>7
    <2>4. CASE ~(l < k)
      BY <2>1, <2>4, <1>2, <1>3, <1>7
    <2> QED
      BY <2>3, <2>4
  <1>13. Totals(new, t, total - v)
    BY <1>11, <1>12 DEF Totals
  <1> QED
    BY <1>3, <1>4, <1>6, <1>13 DEF Queue, Linked

\* Entry e is r with an order of quantity u.
SameBut(e, r, u) == e = [r EXCEPT !.order.quantity = u]

\* An order's quantity changes where it stands.
LEMMA QueueQuantity ==
    ASSUME NEW pool, NEW new, NEW s, NEW p, NEW side, NEW total,
           Queue(pool, s, p, side, total), NEW k \in 1 .. Len(s),
           NEW u \in 1 .. QUANTITY_RANGE - 1,
           SameBut(new[s[k]], pool[s[k]], u),
           \A n \in 1 .. Len(s) : n # k => new[s[n]] = pool[s[n]],
           NEW v, v = pool[s[k]].order.quantity
    PROVE  Queue(new, s, p, side, total - v + u)
  <1>1. /\ s \in Seq(Index) /\ Len(s) \in Nat \ {0} /\ Distinct(s)
        /\ \A n \in 1 .. Len(s) : /\ s[n] \in Index /\ Stands(pool[s[n]], s, n, p, side)
                                  /\ pool[s[n]].order.quantity \in Nat
    BY QueueFacts
  <1>2. PICK r \in Entries : r = pool[s[k]] /\ Stands(r, s, k, p, side)
    BY <1>1 DEF Stands
  <1>3. r.order \in Orders /\ r = [order |-> r.order, previous |-> r.previous, next |-> r.next]
    BY DEF Entries
  <1>4. PICK o \in Orders : o = [r.order EXCEPT !.quantity = u]
    BY <1>3 DEF Orders
  <1>5. o.price = r.order.price /\ o.side = r.order.side /\ o.quantity = u
    BY <1>3, <1>4 DEF Orders
  <1>6. new[s[k]] = [r EXCEPT !.order = o]
    BY <1>2, <1>3, <1>4 DEF SameBut
  <1>7. /\ new[s[k]] \in Entries /\ new[s[k]].order = o
        /\ new[s[k]].previous = r.previous /\ new[s[k]].next = r.next
    BY <1>3, <1>6 DEF Entries
  <1>8. Stands(new[s[k]], s, k, p, side)
    BY <1>2, <1>5, <1>7 DEF Stands
  <1>9. Linked(new, s, p, side)
    BY <1>1, <1>8 DEF Linked
  <1>10. PICK P : Sums(pool, s, P) /\ P[Len(s)] = total
    BY DEF Queue, Totals
  <1>11. PICK l \in Nat \ {0} : l = Len(s)
    BY <1>1
  <1>12. PICK R : R = [n \in 0 .. l |-> IF n < k THEN P[n] ELSE P[n] - v + u]
    OBVIOUS
  <1>13. /\ v \in Nat /\ u \in Nat /\ P[k] = P[k - 1] + v /\ k \in 1 .. l
         /\ P \in [0 .. l -> Nat] /\ P[0] = 0
         /\ \A m, n \in 0 .. l : m <= n => P[m] <= P[n]
    BY <1>1, <1>10, <1>11, PoolAssumption DEF Sums
  <1>14. ASSUME NEW n \in k .. l PROVE P[n] - v + u >= P[k - 1] /\ P[n] - v + u \in Nat
    <2>1. P[n] \in Nat /\ P[k] \in Nat /\ P[k - 1] \in Nat /\ P[k] <= P[n]
      BY ONLY <1>13, SMTT(60)
    <2>2. PICK x \in Nat, y \in Nat, z \in Nat : x = P[n] /\ y = P[k] /\ z = P[k - 1]
      BY <2>1
    <2>3. y <= x /\ y = z + v /\ v \in Nat /\ u \in Nat
      BY <2>1, <2>2, <1>13
    <2>4. x - v + u >= z /\ x - v + u \in Nat
      BY ONLY <2>3, x \in Nat, y \in Nat, z \in Nat
    <2> QED
      BY <2>2, <2>4
  <1>15. Sums(new, s, R)
    <2>1. R \in [0 .. l -> Nat] /\ R[0] = 0
      <3>1. ASSUME NEW n \in 0 .. l PROVE R[n] \in Nat
        <4>1. CASE n < k
          BY <4>1, <1>12, <1>13
        <4>2. CASE ~(n < k)
          <5>1. n \in k .. l
            BY <4>2, <1>13
          <5> QED
            BY <4>2, <5>1, <1>12, <1>14
        <4> QED
          BY <4>1, <4>2
      <3>2. R[0] = 0
        BY <1>12, <1>13
      <3> QED
        BY <1>12, <3>1, <3>2
    <2>2. ASSUME NEW n \in 1 .. l PROVE R[n] = R[n - 1] + new[s[n]].order.quantity
      <3>0. P[n] \in Nat /\ P[n - 1] \in Nat
        BY ONLY <1>13, SMTT(30)
      <3>1. P[n] = P[n - 1] + pool[s[n]].order.quantity /\ pool[s[n]].order.quantity \in Nat
        BY <1>1, <1>10, <1>11 DEF Sums
      <3>2. CASE n < k
        <4>1. new[s[n]] = pool[s[n]] /\ R[n] = P[n] /\ R[n - 1] = P[n - 1]
          BY <3>2, <1>11, <1>12, <1>13
        <4> QED
          BY <4>1, <3>1
      <3>3. CASE n = k
        <4>1. R[n] = P[n] - v + u /\ R[n - 1] = P[n - 1]
          BY <3>3, <1>12, <1>13
        <4> QED
          <5>1. new[s[n]].order.quantity = u /\ P[n] = P[n - 1] + v
            BY <3>3, <1>5, <1>7, <1>13
          <5>2. PICK x \in Nat, y \in Nat : x = P[n] /\ y = P[n - 1]
            BY <3>0
          <5>3. x = y + v => x - v + u = y + u
            BY ONLY <1>13, x \in Nat, y \in Nat
          <5> QED
            BY <4>1, <5>1, <5>2, <5>3
      <3>4. CASE n > k
        <4>0. n # k /\ ~(n < k) /\ ~(n - 1 < k) /\ n - 1 \in 0 .. l
          BY <3>4, <1>13
        <4>1. new[s[n]] = pool[s[n]] /\ R[n] = P[n] - v + u /\ R[n - 1] = P[n - 1] - v + u
          BY <4>0, <1>11, <1>12
        <4>2. PICK x \in Nat, y \in Nat, q \in Nat : /\ x = P[n] /\ y = P[n - 1]
                                                     /\ q = pool[s[n]].order.quantity
          BY <3>0, <3>1
        <4>3. x = y + q => x - v + u = y - v + u + q
          BY ONLY <1>13, x \in Nat, y \in Nat, q \in Nat
        <4> QED
          BY <4>1, <4>2, <4>3, <3>1
      <3> QED
        BY <3>2, <3>3, <3>4, <1>13
    <2>3. ASSUME NEW m \in 0 .. l, NEW n \in 0 .. l, m <= n PROVE R[m] <= R[n]
      <3>0. P[m] \in Nat /\ P[n] \in Nat /\ P[m] <= P[n]
        BY <2>3, <1>13
      <3>1. CASE n < k
        BY <2>3, <3>0, <3>1, <1>12, <1>13
      <3>2. CASE m >= k
        <4>1. R[m] = P[m] - v + u /\ R[n] = P[n] - v + u
          BY <2>3, <3>2, <1>12, <1>13
        <4>2. PICK x \in Nat, y \in Nat : x = P[m] /\ y = P[n] /\ x <= y
          BY <3>0
        <4>3. x - v + u <= y - v + u
          BY ONLY <4>2, <1>13, x \in Nat, y \in Nat, SMTT(60)
        <4> QED
          BY <4>1, <4>2, <4>3
      <3>3. CASE m < k /\ n >= k
        <4>1. R[m] = P[m] /\ R[n] = P[n] - v + u
          BY <3>3, <1>12, <1>13
        <4>2. P[k - 1] \in Nat /\ P[m] <= P[k - 1]
          BY <3>3, <1>13
        <4>3. P[n] - v + u >= P[k - 1]
          BY ONLY <3>3, <1>13, <1>14, SMTT(60)
        <4>4. PICK x \in Nat, y \in Nat, z \in Nat : x = P[m] /\ y = P[k - 1] /\ z = P[n]
          BY <4>2, <3>0
        <4>5. x <= y /\ z - v + u >= y => x <= z - v + u
          BY ONLY <1>13, x \in Nat, y \in Nat, z \in Nat
        <4> QED
          BY <4>1, <4>2, <4>3, <4>4, <4>5
      <3> QED
        BY <3>1, <3>2, <3>3, <1>13
    <2> QED
      BY <2>1, <2>2, <2>3, <1>11 DEF Sums
  <1>16. R[Len(s)] = total - v + u
    BY <1>10, <1>11, <1>12, <1>13
  <1>17. Totals(new, s, total - v + u)
    BY <1>15, <1>16 DEF Totals
  <1> QED
    BY <1>1, <1>9, <1>17 DEF Queue

\* A level's total is its only order's quantity exactly when there is one order.
LEMMA QueueAlone ==
    ASSUME NEW pool, NEW s, NEW p, NEW side, NEW total,
           Queue(pool, s, p, side, total), NEW k \in 1 .. Len(s)
    PROVE  /\ total \in Nat /\ pool[s[k]].order.quantity <= total
           /\ total = pool[s[k]].order.quantity <=> Len(s) = 1
  <1>1. /\ Len(s) \in Nat \ {0}
        /\ \A n \in 1 .. Len(s) : pool[s[n]].order.quantity \in Nat \ {0}
    BY QueueFacts
  <1>2. PICK P : Sums(pool, s, P) /\ P[Len(s)] = total
    BY DEF Queue, Totals
  <1>3. PICK l \in Nat \ {0} : l = Len(s)
    BY <1>1
  <1>4. PICK v \in Nat \ {0} : v = pool[s[k]].order.quantity
    BY <1>1
  <1>5. /\ P \in [0 .. l -> Nat] /\ P[0] = 0 /\ P[k] = P[k - 1] + v
        /\ \A m, n \in 0 .. l : m <= n => P[m] <= P[n]
        /\ P[l] = total
    BY <1>2, <1>3, <1>4 DEF Sums
  <1>6. /\ P[k] \in Nat /\ P[k - 1] \in Nat /\ P[l] \in Nat /\ P[k] <= P[l]
        /\ P[0] <= P[k - 1]
    BY <1>3, <1>5
  <1>7. total \in Nat /\ v <= total
    BY <1>5, <1>6, SMTT(60)
  <1>8. ASSUME l = 1 PROVE total = v
    <2>1. k = 1 /\ P[k - 1] = 0
      BY <1>3, <1>5, <1>8
    <2> QED
      BY <2>1, <1>5, <1>6, <1>8
  <1>9. ASSUME l # 1 PROVE total # v
    <2>1. CASE k = l
      <3>1. PICK w \in Nat \ {0} : w = pool[s[k - 1]].order.quantity
        BY <2>1, <1>1, <1>3, <1>9, SMTT(30)
      <3>2. P[k - 1] = P[k - 2] + w /\ P[k - 2] \in Nat
        BY <2>1, <3>1, <1>2, <1>3, <1>9, SMTT(60) DEF Sums
      <3> QED
        BY <2>1, <3>1, <3>2, <1>5, <1>6, SMTT(30)
    <2>2. CASE k # l
      <3>1. PICK w \in Nat \ {0} : w = pool[s[k + 1]].order.quantity
        BY <2>2, <1>1, <1>3
      <3>2. P[k + 1] = P[k] + w /\ P[k + 1] \in Nat /\ P[k + 1] <= P[l]
        <4>1. k + 1 \in 1 .. l /\ (k + 1) - 1 = k
          BY <2>2, <1>3
        <4>2. P[k + 1] = P[(k + 1) - 1] + w
          BY <4>1, <3>1, <1>2, <1>3 DEF Sums
        <4> QED
          BY <4>1, <4>2, <1>5
      <3>3. PICK x \in Nat, y \in Nat, z \in Nat, e \in Nat :
               x = P[k] /\ y = P[k - 1] /\ z = P[k + 1] /\ e = P[l]
        BY <3>2, <1>6
      <3>4. x = y + v /\ z = x + w /\ z <= e => e # v
        BY ONLY v \in Nat, w \in Nat \ {0}, x \in Nat, y \in Nat, z \in Nat, e \in Nat
      <3> QED
        BY <3>2, <3>3, <3>4, <1>5
    <2> QED
      BY <2>1, <2>2
  <1> QED
    BY <1>3, <1>4, <1>7, <1>8, <1>9

-----------------------------------------------------------------------------
(* A book in order, which stands for the queues q.                         *)
\* A book is its six fields.
Shape(b) == b = [pool |-> b.pool, free |-> b.free, levels |-> b.levels,
                 orders |-> b.orders, prices |-> b.prices, bbo |-> b.bbo]

\* A pool entry is in use or vacant.
PoolOK(pool) == pool \in [Index -> Entries \cup {NoOrder}]
\* The free stack holds exactly the vacant entries, each once.
FreeOK(pool, free) ==
    /\ free \in Seq(Index) /\ Distinct(free)
    /\ \A i \in Index : pool[i] = NoOrder <=> \E n \in 1 .. Len(free) : free[n] = i
\* The order map holds exactly the orders in the pool, under their ids.
OrdersOK(pool, orders) ==
    /\ MapOK(orders, ORDER_SLOTS)
    /\ \A id \in Int : Has(orders, id) =>
          /\ Find(orders, id) \in Index /\ pool[Find(orders, id)] \in Entries
          /\ pool[Find(orders, id)].order.order_id = id
    /\ \A i \in Index : pool[i] # NoOrder =>
          /\ Has(orders, pool[i].order.order_id)
          /\ Find(orders, pool[i].order.order_id) = i
\* The level map holds exactly the prices of the two sides, and every bid is
\* below every offer.
PricesOK(levels, prices) ==
    /\ MapOK(levels, LEVEL_SLOTS) /\ prices \in [Sides -> SUBSET Prices]
    /\ \A p \in Int : Has(levels, p) <=> p \in prices["Buy"] \cup prices["Sell"]
    /\ \A x \in prices["Buy"], y \in prices["Sell"] : x < y
\* A level records the ends and the total of its queue.
LevelOK(pool, level, s, p, side) ==
    /\ level = [head |-> s[1], tail |-> s[Len(s)], total_quantity |-> level.total_quantity]
    /\ Queue(pool, s, p, side, level.total_quantity)
\* At every price of the book stands its queue.
QueuesOK(pool, levels, prices, q) ==
    /\ q = [p \in Prices |-> q[p]]
    /\ \A side \in Sides : \A p \in prices[side] : LevelOK(pool, Find(levels, p), q[p], p, side)
\* Entry i stands in the queue of its price.
Queued(r, i, prices, q) ==
    /\ r.order.price \in prices[r.order.side]
    /\ \E n \in 1 .. Len(q[r.order.price]) : q[r.order.price][n] = i
\* Every order stands in a queue.
CoverOK(pool, prices, q) ==
    \A i \in Index : pool[i] # NoOrder => Queued(pool[i], i, prices, q)
\* best is the best price of S and the quantity resting there.
BestOf(levels, S, side, best) ==
    IF S = {} THEN best = [price |-> NoPrice(side), quantity |-> 0]
    ELSE /\ best.price \in S /\ \A x \in S : x # best.price => Better(side, best.price, x)
         /\ best = [price |-> best.price,
                    quantity |-> Find(levels, best.price).total_quantity % QUANTITY_RANGE]
\* The cached BBO is that of both sides.
BestOK(levels, prices, bbo) ==
    /\ bbo = [side \in Sides |-> bbo[side]]
    /\ \A side \in Sides : BestOf(levels, prices[side], side, bbo[side])

\* The book b stands for the queues q.
Rep(b, q) ==
    /\ Shape(b) /\ PoolOK(b.pool) /\ FreeOK(b.pool, b.free) /\ OrdersOK(b.pool, b.orders)
    /\ PricesOK(b.levels, b.prices) /\ QueuesOK(b.pool, b.levels, b.prices, q)
    /\ CoverOK(b.pool, b.prices, q) /\ BestOK(b.levels, b.prices, b.bbo)
\* The book is in order.
BookOK(b) == \E q : Rep(b, q)

\* A vacant entry is not an order.
LEMMA NoOrderFacts ==
    /\ NoOrder \notin Entries
    /\ \A r \in Entries : r # NoOrder /\ r.order \in Orders /\ r.order # NULL
    /\ \A o \in Orders : /\ o.order_id \in Ids /\ o.order_id \in Int /\ o.price \in Prices
                         /\ o.price \in Int /\ o.quantity \in 1 .. QUANTITY_RANGE - 1 
                         /\ o.quantity \in Nat \ {0} /\ o.side \in Sides
                         /\ o = [order_id |-> o.order_id, price |-> o.price,
                                 quantity |-> o.quantity, side |-> o.side]
  <1>1. \A o \in Orders : /\ o.order_id \in Ids /\ o.order_id \in Int /\ o.price \in Prices
                          /\ o.price \in Int /\ o.quantity \in 1 .. QUANTITY_RANGE - 1
                          /\ o.quantity \in Nat \ {0} /\ o.side \in Sides
                          /\ o = [order_id |-> o.order_id, price |-> o.price,
                                  quantity |-> o.quantity, side |-> o.side]
    <2> SUFFICES ASSUME NEW o \in Orders
                 PROVE  /\ o.order_id \in Ids /\ o.order_id \in Int /\ o.price \in Prices
                        /\ o.price \in Int /\ o.quantity \in 1 .. QUANTITY_RANGE - 1
                        /\ o.quantity \in Nat \ {0} /\ o.side \in Sides
                        /\ o = [order_id |-> o.order_id, price |-> o.price,
                                quantity |-> o.quantity, side |-> o.side]
      OBVIOUS
    <2>1. /\ o.order_id \in Ids /\ o.price \in Prices
          /\ o.quantity \in 1 .. QUANTITY_RANGE - 1 /\ o.side \in Sides
          /\ o = [order_id |-> o.order_id, price |-> o.price,
                  quantity |-> o.quantity, side |-> o.side]
      BY DEF Orders
    <2>2. o.order_id \in Int
      BY <2>1, BookAssumption DEF Ids
    <2>3. o.price \in Int
      BY <2>1, BookAssumption
    <2>4. o.quantity \in Nat \ {0}
      BY <2>1, PoolAssumption
    <2> QED
      BY <2>1, <2>2, <2>3, <2>4
  <1>2. ASSUME NEW o \in Orders PROVE o # NULL
    <2>1. o \in [order_id : Int, price : Int, quantity : Int, side : Sides]
      BY <1>1
    <2> QED
      BY <2>1, MarkerAssumption
  <1>3. ASSUME NEW r \in Entries PROVE r # NoOrder /\ r.order \in Orders /\ r.order # NULL
    <2>1. r.order \in Orders
      BY DEF Entries
    <2>2. NoOrder.order = NULL
      BY DEF NoOrder
    <2> QED
      BY <2>1, <2>2, <1>2
  <1> QED
    BY <1>1, <1>3

\* The pool with o in entry i, not linked to any other.
Pool1(b, i, o) == [b.pool EXCEPT ![i] = [order |-> o, previous |-> NULL, next |-> NULL]]
\* The book after o opened a level.
Opened(b, i, o) ==
    [pool |-> Pool1(b, i, o), free |-> Front(b.free),
     levels |-> Insert(b.levels, o.price, [head |-> i, tail |-> i, total_quantity |-> o.quantity]),
     orders |-> Insert(b.orders, o.order_id, i),
     prices |-> [b.prices EXCEPT ![o.side] = @ \cup {o.price}],
     bbo |-> b.bbo]
\* The book after o joined a level.
Joined(b, i, o, level) ==
    [pool |-> [[Pool1(b, i, o) EXCEPT ![level.tail].next = i] EXCEPT ![i].previous = level.tail],
     free |-> Front(b.free),
     levels |-> Assign(b.levels, o.price,
                   [level EXCEPT !.total_quantity = @ + o.quantity, !.tail = i]),
     orders |-> Insert(b.orders, o.order_id, i),
     prices |-> b.prices, bbo |-> b.bbo]

\* What add() does before it looks at the BBO.
LEMMA AddFields ==
    ASSUME NEW b, Shape(b), NEW o, NEW i, i = Last(b.free)
    PROVE  \E c : /\ add(b, o) = update_bbo_add(c, o)
                  /\ c = IF ~Has(b.levels, o.price) THEN Opened(b, i, o)
                         ELSE Joined(b, i, o, Find(b.levels, o.price))
  <1>1. PICK a : a = Allocate(b, [NoOrder EXCEPT !.order = o])
    OBVIOUS
  <1>2. a = [pool |-> Pool1(b, i, o), free |-> Front(b.free), levels |-> b.levels,
             orders |-> b.orders, prices |-> b.prices, bbo |-> b.bbo]
    <2>1. PICK r : r = [order |-> o, previous |-> NULL, next |-> NULL]
      OBVIOUS
    <2>2. [NoOrder EXCEPT !.order = o] = r
      BY <2>1 DEF NoOrder
    <2>3. Allocate(b, r) = [pool |-> [b.pool EXCEPT ![i] = r], free |-> Front(b.free),
             levels |-> b.levels, orders |-> b.orders, prices |-> b.prices, bbo |-> b.bbo]
      <3>1. PICK p0, f0, l0, o0, s0, q0 :
               /\ p0 = b.pool /\ f0 = b.free /\ l0 = b.levels /\ o0 = b.orders
               /\ s0 = b.prices /\ q0 = b.bbo
        OBVIOUS
      <3>2. b = [pool |-> p0, free |-> f0, levels |-> l0, orders |-> o0,
                 prices |-> s0, bbo |-> q0]
        BY <3>1 DEF Shape
      <3>3. PICK g0 : g0 = Front(f0)
        OBVIOUS
      <3>4. [b EXCEPT !.pool[i] = r, !.free = g0]
              = [pool |-> [p0 EXCEPT ![i] = r], free |-> g0, levels |-> l0, orders |-> o0,
                 prices |-> s0, bbo |-> q0]
        <4>1. PICK c0 : c0 = [b EXCEPT !.pool[i] = r]
          OBVIOUS
        <4>2. c0 = [pool |-> [p0 EXCEPT ![i] = r], free |-> f0, levels |-> l0, orders |-> o0,
                    prices |-> s0, bbo |-> q0]
          BY ONLY <4>1, <3>2
        <4>3. [b EXCEPT !.pool[i] = r, !.free = g0] = [c0 EXCEPT !.free = g0]
          BY ONLY <4>1, <3>2
        <4> QED
          BY ONLY <4>2, <4>3
      <3>5. Allocate(b, r) = [b EXCEPT !.pool[i] = r, !.free = g0]
        BY <3>1, <3>3 DEF Allocate
      <3> QED
        BY <3>1, <3>3, <3>4, <3>5
    <2> QED
      BY <1>1, <2>1, <2>2, <2>3 DEF Pool1
  <1>3. PICK m : m = [a EXCEPT !.orders = Insert(@, o.order_id, i)]
    OBVIOUS
  <1>4. m = [pool |-> Pool1(b, i, o), free |-> Front(b.free), levels |-> b.levels,
             orders |-> Insert(b.orders, o.order_id, i), prices |-> b.prices, bbo |-> b.bbo]
    BY <1>2, <1>3
  <1>5. PICK c : c = JoinLevel(m, i, o)
    OBVIOUS
  <1>6. add(b, o) = update_bbo_add(c, o)
    BY <1>1, <1>3, <1>5 DEF add
  <1>7. CASE ~Has(b.levels, o.price)
    <2>1. m.levels = b.levels
      BY <1>4
    <2>2. c = [m EXCEPT !.levels = Insert(@, o.price, [head |-> i, tail |-> i,
                                                  total_quantity |-> o.quantity]),
                   !.prices[o.side] = @ \cup {o.price}]
      BY <1>5, <1>7, <2>1 DEF JoinLevel
    <2>3. c = Opened(b, i, o)
      BY <1>4, <2>2 DEF Opened
    <2> QED
      BY <1>6, <1>7, <2>3
  <1>8. CASE Has(b.levels, o.price)
    <2>1. m.levels = b.levels /\ Level(m, o.price) = Find(b.levels, o.price)
      BY <1>4 DEF Level
    <2>2. PICK level : level = Find(b.levels, o.price)
      OBVIOUS
    <2>3. c = [m EXCEPT !.levels = Assign(@, o.price,
                            [level EXCEPT !.total_quantity = @ + o.quantity,
                                          !.tail = i]),
                       !.pool[level.tail].next = i,
                       !.pool[i].previous = level.tail]
      BY <1>5, <1>8, <2>1, <2>2 DEF JoinLevel
    <2>4. c = Joined(b, i, o, level)
      BY <1>4, <2>3, ZenonT(60) DEF Joined
    <2> QED
      BY <1>6, <1>8, <2>2, <2>4
  <1> QED
    BY <1>7, <1>8

\* The identity, price and side of every order but pool entry i are as they were.
Kept(pool, new, i) ==
    \A j \in Index : j # i =>
        /\ new[j] = NoOrder <=> pool[j] = NoOrder
        /\ pool[j] # NoOrder =>
              /\ new[j] \in Entries
              /\ new[j].order.order_id = pool[j].order.order_id
              /\ new[j].order.price = pool[j].order.price
              /\ new[j].order.side = pool[j].order.side

\* The entry allocate() hands out.
LEMMA FreeTop ==
    ASSUME NEW pool, NEW free, FreeOK(pool, free), free # <<>>, NEW i, i = Last(free),
           NEW rest, rest = Front(free)
    PROVE  /\ i \in Index /\ pool[i] = NoOrder /\ rest \in Seq(Index) /\ Distinct(rest)
           /\ \A j \in Index : (\E n \in 1 .. Len(rest) : rest[n] = j)
                                  <=> j # i /\ pool[j] = NoOrder
  <1>1. /\ free \in Seq(Index) /\ Distinct(free)
        /\ \A j \in Index : pool[j] = NoOrder <=> \E n \in 1 .. Len(free) : free[n] = j
    BY DEF FreeOK
  <1>2. Len(free) \in Nat \ {0} /\ \A n \in 1 .. Len(free) : free[n] \in Index
    BY <1>1, LenProperties, EmptySeq, ElementOfSeq
  <1>3. PICK l \in Nat \ {0} : l = Len(free)
    BY <1>2
  <1>4. i = free[l] /\ i \in Index /\ pool[i] = NoOrder
    BY <1>1, <1>2, <1>3 DEF Last
  <1>5. rest = SubSeq(free, 1, l - 1)
    BY <1>3 DEF Front
  <1>6. \A n \in 1 .. l - 1 : free[n] \in Index
    BY <1>2, <1>3
  <1>7. /\ rest \in Seq(Index) /\ Len(rest) = IF 1 <= l - 1 THEN (l - 1) - 1 + 1 ELSE 0
        /\ \A n \in 1 .. (l - 1) - 1 + 1 : rest[n] = free[1 + n - 1]
    BY <1>5, <1>6, SubSeqProperties
  <1>8. Len(rest) = l - 1 /\ \A n \in 1 .. l - 1 : rest[n] = free[n]
    BY <1>7
  <1>9. Distinct(rest)
    BY <1>1, <1>3, <1>8 DEF Distinct
  <1>10. ASSUME NEW j \in Index
         PROVE  (\E n \in 1 .. Len(rest) : rest[n] = j) <=> j # i /\ pool[j] = NoOrder
    <2>1. ASSUME NEW n \in 1 .. Len(rest), rest[n] = j PROVE j # i /\ pool[j] = NoOrder
      BY <2>1, <1>1, <1>3, <1>4, <1>8 DEF Distinct
    <2>2. ASSUME j # i, pool[j] = NoOrder PROVE \E n \in 1 .. Len(rest) : rest[n] = j
      <3>1. PICK n \in 1 .. l : free[n] = j
        BY <2>2, <1>1, <1>3
      <3>2. n # l
        BY <2>2, <3>1, <1>4
      <3> QED
        BY <3>1, <3>2, <1>8
    <2> QED
      BY <2>1, <2>2
  <1> QED
    BY <1>4, <1>7, <1>9, <1>10

\* The free stack when free() returns an entry.
LEMMA FreePush ==
    ASSUME NEW pool, NEW free, FreeOK(pool, free), NEW i \in Index, pool[i] # NoOrder,
           NEW new, new[i] = NoOrder, Kept(pool, new, i), NEW more, more = Append(free, i)
    PROVE  FreeOK(new, more)
  <1>1. /\ free \in Seq(Index) /\ Distinct(free)
        /\ \A j \in Index : pool[j] = NoOrder <=> \E n \in 1 .. Len(free) : free[n] = j
    BY DEF FreeOK
  <1>2. PICK l \in Nat : l = Len(free)
    BY <1>1, LenProperties
  <1>3. /\ more \in Seq(Index) /\ Len(more) = l + 1 /\ more[l + 1] = i
        /\ \A n \in 1 .. l : more[n] = free[n]
    BY <1>1, <1>2, AppendProperties
  <1>4. \A n \in 1 .. l : free[n] # i
    BY <1>1, <1>2
  <1>5. Distinct(more)
    BY <1>1, <1>2, <1>3, <1>4 DEF Distinct
  <1>6. ASSUME NEW j \in Index
        PROVE  new[j] = NoOrder <=> \E n \in 1 .. Len(more) : more[n] = j
    <2>1. CASE j = i
      BY <2>1, <1>2, <1>3
    <2>2. CASE j # i
      <3>1. new[j] = NoOrder <=> \E n \in 1 .. l : free[n] = j
        BY <2>2, <1>1, <1>2 DEF Kept
      <3>2. (\E n \in 1 .. l : free[n] = j) <=> \E n \in 1 .. l + 1 : more[n] = j
        BY <2>2, <1>2, <1>3
      <3> QED
        BY <3>1, <3>2, <1>3
    <2> QED
      BY <2>1, <2>2
  <1> QED
    BY <1>3, <1>5, <1>6 DEF FreeOK

\* There are MAX_CONCURRENT_ORDERS entries, and no NULL among them.
LEMMA IndexFacts ==
    /\ Index \subseteq Int /\ NULL \notin Index /\ IsFiniteSet(Index)
    /\ Cardinality(Index) = MAX_CONCURRENT_ORDERS
  <1>1. MAX_CONCURRENT_ORDERS \in Nat \ {0}
    BY PoolAssumption
  <1>2. Index \subseteq Int
    BY <1>1 DEF Index
  <1>3. IsFiniteSet(Index) /\ Cardinality(Index) = MAX_CONCURRENT_ORDERS
    <2>1. IsFiniteSet(0 .. MAX_CONCURRENT_ORDERS - 1)
      BY <1>1, FS_Interval
    <2>2. Cardinality(0 .. MAX_CONCURRENT_ORDERS - 1)
            = IF 0 > MAX_CONCURRENT_ORDERS - 1 THEN 0
              ELSE (MAX_CONCURRENT_ORDERS - 1) - 0 + 1
      BY <1>1, FS_Interval
    <2> QED
      BY <2>1, <2>2, <1>1 DEF Index
  <1> QED
    BY <1>2, <1>3, NullAssumption

\* The order map has room for an order as long as the pool has.
LEMMA OrdersInsert ==
    ASSUME NEW pool, NEW orders, OrdersOK(pool, orders), NEW i \in Index, pool[i] = NoOrder,
           NEW id \in Int, ~Has(orders, id), NEW more, more = Insert(orders, id, i)
    PROVE  /\ MapOK(more, ORDER_SLOTS) /\ Has(more, id) /\ Find(more, id) = i
           /\ \A k \in Int : k # id => /\ Has(more, k) <=> Has(orders, k)
                                       /\ Has(orders, k) => Find(more, k) = Find(orders, k)
  <1>1. /\ MapOK(orders, ORDER_SLOTS)
        /\ \A x \in Int : Has(orders, x) =>
              /\ Find(orders, x) \in Index /\ pool[Find(orders, x)] \in Entries
              /\ pool[Find(orders, x)].order.order_id = x
        /\ \A j \in Index : pool[j] # NoOrder =>
              /\ Has(orders, pool[j].order.order_id)
              /\ Find(orders, pool[j].order.order_id) = j
    BY DEF OrdersOK
  <1>3. CanAdd(orders, id)
    <2>1. PICK S : S = Index \ {i}
      OBVIOUS
    <2>2. IsFiniteSet(S) /\ Cardinality(S) = Cardinality(Index) - 1
      BY <2>1, IndexFacts, FS_RemoveElement
    <2>3. Cardinality(S) < ORDER_SLOTS
      BY <2>2, IndexFacts, PoolAssumption
    <2>4. PICK f : f = [k \in Int |-> Find(orders, k)]
      OBVIOUS
    <2>5. ASSUME NEW k \in Int, Has(orders, k) PROVE f[k] \in S
      <3>1. f[k] = Find(orders, k) /\ f[k] \in Index /\ pool[f[k]] \in Entries
        BY <2>4, <2>5, <1>1
      <3>2. f[k] # i
        BY <3>1, NoOrderFacts
      <3> QED
        BY <2>1, <3>1, <3>2
    <2>6. ASSUME NEW k \in Int, NEW l \in Int, Has(orders, k), Has(orders, l), f[k] = f[l]
          PROVE  k = l
      <3>1. pool[f[k]].order.order_id = k /\ pool[f[l]].order.order_id = l
        BY <2>4, <2>6, <1>1
      <3> QED
        BY <2>6, <3>1
    <2> QED
      BY ONLY <2>2, <2>3, <2>5, <2>6, <1>1, id \in Int, RoomFacts
  <1> QED
    BY <1>1, <1>3, InsertFacts

\* The order map when an order is added.
LEMMA OrdersAdd ==
    ASSUME NEW pool, NEW orders, OrdersOK(pool, orders), NEW i \in Index, pool[i] = NoOrder,
           NEW o \in Orders, ~Has(orders, o.order_id), NEW new, Kept(pool, new, i),
           new[i] \in Entries, new[i].order = o, NEW more, more = Insert(orders, o.order_id, i)
    PROVE  OrdersOK(new, more)
  <1>1. /\ MapOK(orders, ORDER_SLOTS)
        /\ \A id \in Int : Has(orders, id) =>
              /\ Find(orders, id) \in Index /\ pool[Find(orders, id)] \in Entries
              /\ pool[Find(orders, id)].order.order_id = id
        /\ \A j \in Index : pool[j] # NoOrder =>
              /\ Has(orders, pool[j].order.order_id)
              /\ Find(orders, pool[j].order.order_id) = j
    BY DEF OrdersOK
  <1>2. PICK id \in Int : id = o.order_id
    BY NoOrderFacts
  <1>4. /\ MapOK(more, ORDER_SLOTS) /\ Has(more, id) /\ Find(more, id) = i
        /\ \A k \in Int : k # id => /\ Has(more, k) <=> Has(orders, k)
                                    /\ Has(orders, k) => Find(more, k) = Find(orders, k)
    <2>1. ~Has(orders, id) /\ more = Insert(orders, id, i) /\ id \in Int
      BY <1>2
    <2> QED
      BY <2>1, OrdersInsert
  <1>5. ASSUME NEW k \in Int, Has(more, k)
        PROVE  /\ Find(more, k) \in Index /\ new[Find(more, k)] \in Entries
               /\ new[Find(more, k)].order.order_id = k
    <2>1. CASE k = id
      BY <2>1, <1>2, <1>4
    <2>2. CASE k # id
      <3>1. PICK j \in Index : /\ j = Find(more, k) /\ j = Find(orders, k)
                               /\ pool[j] \in Entries /\ pool[j].order.order_id = k
        BY <2>2, <1>1, <1>4, <1>5
      <3>2. pool[j] # NoOrder /\ j # i
        BY <3>1, NoOrderFacts
      <3> QED
        BY <3>1, <3>2 DEF Kept
    <2> QED
      BY <2>1, <2>2
  <1>6. ASSUME NEW j \in Index, new[j] # NoOrder
        PROVE  Has(more, new[j].order.order_id) /\ Find(more, new[j].order.order_id) = j
    <2>1. CASE j = i
      BY <2>1, <1>2, <1>4
    <2>2. CASE j # i
      <3>1. pool[j] # NoOrder /\ new[j].order.order_id = pool[j].order.order_id /\ new[j] \in Entries
        BY <2>2, <1>6 DEF Kept
      <3>2. PICK k \in Int : k = new[j].order.order_id
        BY <3>1, NoOrderFacts
      <3>3. Has(orders, k) /\ Find(orders, k) = j /\ k # id
        BY <3>1, <3>2, <1>1, <1>2
      <3> QED
        BY <3>2, <3>3, <1>4
    <2> QED
      BY <2>1, <2>2
  <1> QED
    BY <1>4, <1>5, <1>6 DEF OrdersOK

\* The order map when an order leaves.
LEMMA OrdersErase ==
    ASSUME NEW pool, NEW orders, OrdersOK(pool, orders), NEW i \in Index, pool[i] # NoOrder,
           NEW id \in Int, id = pool[i].order.order_id, NEW new, Kept(pool, new, i),
           new[i] = NoOrder, NEW less, less = Erase(orders, id)
    PROVE  OrdersOK(new, less)
  <1>1. /\ MapOK(orders, ORDER_SLOTS)
        /\ \A k \in Int : Has(orders, k) =>
              /\ Find(orders, k) \in Index /\ pool[Find(orders, k)] \in Entries
              /\ pool[Find(orders, k)].order.order_id = k
        /\ \A j \in Index : pool[j] # NoOrder =>
              /\ Has(orders, pool[j].order.order_id)
              /\ Find(orders, pool[j].order.order_id) = j
    BY DEF OrdersOK
  <1>2. Has(orders, id) /\ Find(orders, id) = i
    BY <1>1
  <1>3. /\ MapOK(less, ORDER_SLOTS) /\ ~Has(less, id)
        /\ \A k \in Int : k # id => /\ Has(less, k) <=> Has(orders, k)
                                    /\ Has(orders, k) => Find(less, k) = Find(orders, k)
    BY <1>1, <1>2, EraseFacts
  <1>4. ASSUME NEW k \in Int, Has(less, k)
        PROVE  /\ Find(less, k) \in Index /\ new[Find(less, k)] \in Entries
               /\ new[Find(less, k)].order.order_id = k
    <2>1. k # id
      BY <1>3, <1>4
    <2>2. PICK j \in Index : /\ j = Find(less, k) /\ j = Find(orders, k)
                             /\ pool[j] \in Entries /\ pool[j].order.order_id = k
      BY <2>1, <1>1, <1>3, <1>4
    <2>3. pool[j] # NoOrder /\ j # i
      BY <2>1, <2>2, NoOrderFacts
    <2> QED
      BY <2>2, <2>3 DEF Kept
  <1>5. ASSUME NEW j \in Index, new[j] # NoOrder
        PROVE  Has(less, new[j].order.order_id) /\ Find(less, new[j].order.order_id) = j
    <2>1. j # i
      BY <1>5
    <2>2. pool[j] # NoOrder /\ new[j].order.order_id = pool[j].order.order_id /\ new[j] \in Entries
      BY <2>1, <1>5 DEF Kept
    <2>3. PICK k \in Int : k = new[j].order.order_id
      BY <2>2, NoOrderFacts
    <2>4. Has(orders, k) /\ Find(orders, k) = j
      BY <2>2, <2>3, <1>1
    <2>5. k # id
      BY <2>1, <2>4, <1>2
    <2> QED
      BY <2>3, <2>4, <2>5, <1>3
  <1> QED
    BY <1>3, <1>4, <1>5 DEF OrdersOK

\* The order map when no order comes or leaves.
LEMMA OrdersKept ==
    ASSUME NEW pool, NEW orders, OrdersOK(pool, orders), NEW new, Kept(pool, new, NULL)
    PROVE  OrdersOK(new, orders)
  <1>1. /\ MapOK(orders, ORDER_SLOTS)
        /\ \A k \in Int : Has(orders, k) =>
              /\ Find(orders, k) \in Index /\ pool[Find(orders, k)] \in Entries
              /\ pool[Find(orders, k)].order.order_id = k
        /\ \A j \in Index : pool[j] # NoOrder =>
              /\ Has(orders, pool[j].order.order_id)
              /\ Find(orders, pool[j].order.order_id) = j
    BY DEF OrdersOK
  <1>2. ASSUME NEW j \in Index, pool[j] # NoOrder \/ new[j] # NoOrder
        PROVE  /\ pool[j] # NoOrder /\ new[j] # NoOrder /\ new[j] \in Entries
               /\ new[j].order.order_id = pool[j].order.order_id
    BY <1>2, IndexFacts DEF Kept
  <1>3. ASSUME NEW k \in Int, Has(orders, k)
        PROVE  /\ Find(orders, k) \in Index /\ new[Find(orders, k)] \in Entries
               /\ new[Find(orders, k)].order.order_id = k
    <2>1. PICK j \in Index : j = Find(orders, k)
      BY <1>1, <1>3
    <2>2. pool[j] # NoOrder /\ pool[j].order.order_id = k
      BY <2>1, <1>1, <1>3, NoOrderFacts
    <2> QED
      BY <2>1, <2>2, <1>2
  <1>4. ASSUME NEW j \in Index, new[j] # NoOrder
        PROVE  Has(orders, new[j].order.order_id) /\ Find(orders, new[j].order.order_id) = j
    BY <1>1, <1>2, <1>4
  <1> QED
    BY <1>1, <1>3, <1>4 DEF OrdersOK

-----------------------------------------------------------------------------
\* Entries whose price is not p are left alone.
Elsewhere(pool, new, p) ==
    \A j \in Index : pool[j] # NoOrder /\ pool[j].order.price # p => new[j] = pool[j]

\* Levels other than p are left alone.
LevelsElsewhere(levels, new, p) ==
    \A k \in Int : k # p => /\ Has(new, k) <=> Has(levels, k)
                            /\ Has(levels, k) => Find(new, k) = Find(levels, k)

\* The level and the queue at a price other than p are left alone.
LEMMA QueuesFrame ==
    ASSUME NEW pool, NEW levels, NEW prices, NEW q, QueuesOK(pool, levels, prices, q),
           PricesOK(levels, prices), NEW p, NEW new, Elsewhere(pool, new, p),
           NEW lv, LevelsElsewhere(levels, lv, p), NEW s,
           NEW side \in Sides, NEW x \in prices[side], x # p, s = q[x]
    PROVE  LevelOK(new, Find(lv, x), s, x, side)
  <1>1. LevelOK(pool, Find(levels, x), s, x, side)
    BY DEF QueuesOK
  <1>2. x \in Int /\ Has(levels, x)
    <2>1. x \in Prices /\ x \in prices["Buy"] \cup prices["Sell"]
      BY DEF PricesOK, Sides
    <2>2. x \in Int
      BY <2>1, BookAssumption
    <2> QED
      BY <2>1, <2>2 DEF PricesOK
  <1>3. Find(lv, x) = Find(levels, x)
    BY <1>2 DEF LevelsElsewhere
  <1>4. PICK level : level = Find(levels, x)
    OBVIOUS
  <1>5. Queue(pool, s, x, side, level.total_quantity)
    BY <1>1, <1>4 DEF LevelOK
  <1>6. ASSUME NEW n \in 1 .. Len(s) PROVE new[s[n]] = pool[s[n]]
    <2>1. s[n] \in Index /\ Stands(pool[s[n]], s, n, x, side)
      BY <1>5, QueueFacts
    <2>2. pool[s[n]] \in Entries /\ pool[s[n]].order.price = x
      BY <2>1 DEF Stands
    <2> QED
      BY <2>1, <2>2, NoOrderFacts DEF Elsewhere
  <1>7. Queue(new, s, x, side, level.total_quantity)
    BY <1>5, <1>6, QueueFrame
  <1> QED
    BY <1>1, <1>3, <1>4, <1>7 DEF LevelOK

\* Everything of Rep but the cached best prices.
Core(pool, free, levels, orders, prices, q) ==
    /\ PoolOK(pool) /\ FreeOK(pool, free) /\ OrdersOK(pool, orders)
    /\ PricesOK(levels, prices) /\ QueuesOK(pool, levels, prices, q) /\ CoverOK(pool, prices, q)

\* The same, of a book.
CoreOf(c, q) == Shape(c) /\ Core(c.pool, c.free, c.levels, c.orders, c.prices, q)

\* An entry of the pool is written.
LEMMA PoolWritten ==
    ASSUME NEW pool, PoolOK(pool), NEW i \in Index, NEW r \in Entries \cup {NoOrder},
           NEW new, Written(new, pool, i, r)
    PROVE  /\ PoolOK(new) /\ new[i] = r /\ \A j \in Index : j # i => new[j] = pool[j]
  BY DEF PoolOK, Written

\* An entry that is not vacant holds an order.
LEMMA PoolEntry ==
    ASSUME NEW pool, PoolOK(pool), NEW i \in Index
    PROVE  pool[i] # NoOrder <=> pool[i] \in Entries
  BY NoOrderFacts DEF PoolOK

\* The entry of an order that arrives.
LEMMA FreshEntry ==
    ASSUME NEW o \in Orders, NEW t \in Link, NEW r, r = [order |-> o, previous |-> t, next |-> NULL]
    PROVE  r \in Entries /\ r.order = o
  BY DEF Entries, Link

\* What a price of one side excludes.
LEMMA PriceFacts ==
    ASSUME NEW levels, NEW prices, PricesOK(levels, prices), NEW side \in Sides, NEW p \in prices[side]
    PROVE  /\ p \in Prices /\ p \in Int /\ Has(levels, p) /\ p \notin prices[Opposite(side)]
           /\ NO_BID < p /\ p < NO_OFFER /\ p # NoPrice(side)
           /\ \A other \in Sides : p \in prices[other] => other = side
  <1>1. p \in Prices /\ p \in prices["Buy"] \cup prices["Sell"]
    BY DEF PricesOK, Sides
  <1>2. p \in Int /\ NO_BID < p /\ p < NO_OFFER /\ NO_BID \in Int /\ NO_OFFER \in Int
    BY <1>1, BookAssumption, PoolAssumption
  <1>3. Has(levels, p)
    BY <1>1, <1>2 DEF PricesOK
  <1>4. ~(p \in prices["Buy"] /\ p \in prices["Sell"])
    BY <1>2 DEF PricesOK
  <1> QED
    BY <1>1, <1>2, <1>3, <1>4 DEF Sides, Opposite, NoPrice

\* No opposing order stands at price p, or at one as good as p for an order of this side.
Uncrossed(prices, side, p) ==
    \A x \in prices[Opposite(side)] : Better(Opposite(side), p, x)
\* p is added to the prices of a side.
Quoted(ps, prices, side, p) == ps = [prices EXCEPT ![side] = @ \cup {p}]
\* Only price p, of a side, may come or go.
PricesBut(prices, ps, p, side) ==
    \A other \in Sides : /\ \A x : x # p => (x \in ps[other] <=> x \in prices[other])
                         /\ p \in ps[other] => other = side
\* The queue at price p is s, the others are as they were.
Requeued(r, q, p, s) == r = [q EXCEPT ![p] = s]

\* A price at which no opposing order stands becomes, or is, a price of a side.
LEMMA PricesAdd ==
    ASSUME NEW levels, NEW prices, PricesOK(levels, prices), NEW side \in Sides, NEW p \in Prices,
           Uncrossed(prices, side, p), NEW lv, MapOK(lv, LEVEL_SLOTS), LevelsElsewhere(levels, lv, p), Has(lv, p),
           NEW ps, Quoted(ps, prices, side, p)
    PROVE  /\ PricesOK(lv, ps) /\ ps[side] = prices[side] \cup {p}
           /\ ps[Opposite(side)] = prices[Opposite(side)]
           /\ Has(levels, p) => p \in prices[side] /\ ps = prices
           /\ PricesBut(prices, ps, p, side)
  <1>1. /\ MapOK(levels, LEVEL_SLOTS) /\ prices \in [Sides -> SUBSET Prices]
        /\ \A x \in Int : Has(levels, x) <=> x \in prices["Buy"] \cup prices["Sell"]
        /\ \A x \in prices["Buy"], y \in prices["Sell"] : x < y
    BY DEF PricesOK
  <1>2. p \in Int /\ \A x \in Prices : x \in Int
    BY BookAssumption
  <1>3. /\ ps \in [Sides -> SUBSET Prices] /\ ps[side] = prices[side] \cup {p}
        /\ ps[Opposite(side)] = prices[Opposite(side)]
    BY <1>1 DEF Sides, Opposite, Quoted
  <1>4. \A x \in Int : Has(lv, x) <=> x \in ps["Buy"] \cup ps["Sell"]
    <2>1. ps["Buy"] \cup ps["Sell"] = prices["Buy"] \cup prices["Sell"] \cup {p}
      BY <1>3 DEF Sides, Opposite
    <2> QED
      BY <2>1, <1>1 DEF LevelsElsewhere
  <1>5. ASSUME NEW x \in ps["Buy"], NEW y \in ps["Sell"] PROVE x < y
    <2>1. CASE side = "Buy"
      <3>1. y \in prices["Sell"] /\ y \in Int /\ p < y
        BY <2>1, <1>1, <1>2, <1>3 DEF Opposite, Better, Sides, Uncrossed
      <3> QED
        BY <2>1, <3>1, <1>1, <1>3
    <2>2. CASE side = "Sell"
      <3>1. x \in prices["Buy"] /\ x \in Int /\ p > x
        BY <2>2, <1>1, <1>2, <1>3 DEF Opposite, Better, Sides, Uncrossed
      <3> QED
        BY <2>2, <3>1, <1>1, <1>2, <1>3
    <2> QED
      BY <2>1, <2>2 DEF Sides
  <1>7. p \notin prices[Opposite(side)]
    BY <1>2 DEF Better, Uncrossed
  <1>6. ASSUME Has(levels, p) PROVE p \in prices[side] /\ ps = prices
    <2>2. p \in prices[side]
      BY <1>7, <1>1, <1>2, <1>6 DEF Opposite, Sides
    <2> QED
      BY <2>2, <1>1 DEF Quoted
  <1>8. PricesBut(prices, ps, p, side)
    BY <1>3, <1>7 DEF PricesBut, Sides, Opposite
  <1> QED
    BY <1>1, <1>3, <1>4, <1>5, <1>6, <1>8 DEF PricesOK

\* The queues when the queue at price p is s and the others are as they were.
LEMMA QueuesWith ==
    ASSUME NEW pool, NEW levels, NEW prices, NEW q, QueuesOK(pool, levels, prices, q),
           PricesOK(levels, prices), NEW side \in Sides, NEW p \in Prices, NEW new, Elsewhere(pool, new, p),
           NEW lv, LevelsElsewhere(levels, lv, p), NEW ps,
           PricesBut(prices, ps, p, side),
           NEW s, p \in ps[side] => LevelOK(new, Find(lv, p), s, p, side),
           NEW r, Requeued(r, q, p, s)
    PROVE  /\ QueuesOK(new, lv, ps, r) /\ r[p] = s
           /\ \A x \in Prices : x # p => r[x] = q[x]
  <1>1. q = [x \in Prices |-> q[x]]
    BY DEF QueuesOK
  <1>2. r = [x \in Prices |-> r[x]] /\ r[p] = s /\ \A x \in Prices : x # p => r[x] = q[x]
    BY <1>1 DEF Requeued
  <1>3. ASSUME NEW other \in Sides, NEW x \in ps[other]
        PROVE  LevelOK(new, Find(lv, x), r[x], x, other)
    <2>1. CASE x = p
      BY <2>1, <1>2, <1>3 DEF PricesBut
    <2>2. CASE x # p
      <3>1. x \in prices[other]
        BY <2>2 DEF PricesBut
      <3>2. x \in Prices
        BY <3>1, PriceFacts
      <3>3. r[x] = q[x]
        BY <2>2, <3>2, <1>2
      <3> QED
        BY ONLY <2>2, <3>1, <3>3, QueuesFrame, QueuesOK(pool, levels, prices, q),
           PricesOK(levels, prices), Elsewhere(pool, new, p), LevelsElsewhere(levels, lv, p), other \in Sides
    <2> QED
      BY <2>1, <2>2
  <1> QED
    BY <1>2, <1>3 DEF QueuesOK

\* An order other than entry i is still queued.
LEMMA CoverFrame ==
    ASSUME NEW pool, NEW levels, NEW prices, PricesOK(levels, prices), NEW q, CoverOK(pool, prices, q),
           NEW i, NEW new, Kept(pool, new, i), NEW p, NEW side, NEW ps, PricesBut(prices, ps, p, side),
           NEW r, \A x \in Prices : x # p => r[x] = q[x],
           NEW j \in Index, j # i, new[j] # NoOrder, new[j].order.price # p
    PROVE  Queued(new[j], j, ps, r)
  <1>1. /\ pool[j] # NoOrder /\ new[j].order.price = pool[j].order.price
        /\ new[j].order.side = pool[j].order.side /\ new[j] \in Entries
    BY DEF Kept
  <1>2. Queued(pool[j], j, prices, q)
    BY <1>1 DEF CoverOK
  <1>3. PICK other \in Sides, x \in Prices : other = new[j].order.side /\ x = new[j].order.price
    BY <1>1, NoOrderFacts
  <1>4. x \in prices[other] /\ \E n \in 1 .. Len(q[x]) : q[x][n] = j
    BY <1>1, <1>2, <1>3 DEF Queued
  <1>5. x \in ps[other] /\ r[x] = q[x]
    BY <1>3, <1>4 DEF PricesBut
  <1> QED
    BY <1>3, <1>4, <1>5 DEF Queued

-----------------------------------------------------------------------------
(* add() *)
\* An order that add() accepts: a new id, a free entry, and no opposing order it crosses.
Addable(b, o) ==
    /\ o \in Orders /\ ~Has(b.orders, o.order_id) /\ b.free # <<>>
    /\ Uncrossed(b.prices, o.side, o.price)

\* The total quantity resting at price p of a side.
Resting(b, side, p) ==
    IF p \in b.prices[side] THEN Find(b.levels, p).total_quantity ELSE 0

\* c is b with o behind the queue at its price, the cached best prices aside.
Grown(b, c, o, r) ==
    /\ CoreOf(c, r)
    /\ LevelsElsewhere(b.levels, c.levels, o.price)
    /\ Quoted(c.prices, b.prices, o.side, o.price)
    /\ Find(c.levels, o.price).total_quantity = Resting(b, o.side, o.price) + o.quantity
    /\ c.bbo = b.bbo

\* Every order but that of entry i is as it was.
OrdersBut(pool, new, i) == \A j \in Index : j # i => new[j].order = pool[j].order
\* o stands, in an entry that was vacant, behind the others at its price.
Appended(b, q, c, r, o) ==
    \E i \in Index :
        /\ Requeued(r, q, o.price, IF o.price \in b.prices[o.side] THEN Append(q[o.price], i) ELSE <<i>>)
        /\ b.pool[i] = NoOrder /\ c.pool[i].order = o /\ OrdersBut(b.pool, c.pool, i)

\* What add() starts from.
LEMMA AddBasics ==
    ASSUME NEW b, NEW q, CoreOf(b, q), NEW o, Addable(b, o), NEW i, i = Last(b.free)
    PROVE  /\ i \in Index /\ b.pool[i] = NoOrder /\ PoolOK(b.pool) /\ FreeOK(b.pool, b.free)
           /\ OrdersOK(b.pool, b.orders) /\ PricesOK(b.levels, b.prices)
           /\ QueuesOK(b.pool, b.levels, b.prices, q) /\ CoverOK(b.pool, b.prices, q)
           /\ o \in Orders /\ o.price \in Prices /\ o.price \in Int /\ o.side \in Sides
           /\ o.quantity \in Nat \ {0} /\ o.quantity < QUANTITY_RANGE
           /\ Front(b.free) \in Seq(Index) /\ Distinct(Front(b.free))
           /\ \A j \in Index : (\E n \in 1 .. Len(Front(b.free)) : Front(b.free)[n] = j)
                                  <=> j # i /\ b.pool[j] = NoOrder
  <1>1. /\ PoolOK(b.pool) /\ FreeOK(b.pool, b.free)
        /\ OrdersOK(b.pool, b.orders) /\ PricesOK(b.levels, b.prices)
        /\ QueuesOK(b.pool, b.levels, b.prices, q) /\ CoverOK(b.pool, b.prices, q)
    BY DEF CoreOf, Core
  <1>2. /\ i \in Index /\ b.pool[i] = NoOrder
        /\ Front(b.free) \in Seq(Index) /\ Distinct(Front(b.free))
        /\ \A j \in Index : (\E n \in 1 .. Len(Front(b.free)) : Front(b.free)[n] = j)
                               <=> j # i /\ b.pool[j] = NoOrder
    BY <1>1, FreeTop DEF Addable
  <1>3. /\ o \in Orders /\ o.price \in Prices /\ o.price \in Int /\ o.side \in Sides
        /\ o.quantity \in Nat \ {0} /\ o.quantity \in 1 .. QUANTITY_RANGE - 1
    BY NoOrderFacts DEF Addable
  <1>4. o.quantity < QUANTITY_RANGE
    BY <1>3, PoolAssumption
  <1> QED
    BY <1>1, <1>2, <1>3, <1>4

\* The level map has room for every price.
LEMMA LevelRoom ==
    ASSUME NEW levels, NEW prices, PricesOK(levels, prices), NEW p \in Prices, ~Has(levels, p)
    PROVE  CanAdd(levels, p)
  <1>1. p \in Int /\ MapOK(levels, LEVEL_SLOTS)
    BY BookAssumption DEF PricesOK
  <1>2. PICK S : S = Prices \ {p}
    OBVIOUS
  <1>3. IsFiniteSet(S) /\ Cardinality(S) = Cardinality(Prices) - 1 /\ Cardinality(Prices) \in Nat
    BY <1>2, LevelsAssumption, FS_RemoveElement, FS_CardinalityType
  <1>4. Cardinality(S) < LEVEL_SLOTS
    BY <1>3, LevelsAssumption, PoolAssumption
  <1>5. PICK f : f = [k \in Int |-> k]
    OBVIOUS
  <1>6. \A k \in Int : Has(levels, k) => f[k] \in S
    BY <1>2, <1>5 DEF PricesOK, Sides
  <1>7. \A k \in Int, l \in Int : Has(levels, k) /\ Has(levels, l) /\ f[k] = f[l] => k = l
    BY <1>5
  <1> QED
    BY ONLY <1>1, <1>3, <1>4, <1>6, <1>7, RoomFacts

\* The free stack and the order map when entry i takes an order.
LEMMA AddMaps ==
    ASSUME NEW b, NEW q, CoreOf(b, q), NEW o, Addable(b, o), NEW i, i = Last(b.free),
           NEW new, Kept(b.pool, new, i), new[i] \in Entries, new[i].order = o
    PROVE  FreeOK(new, Front(b.free)) /\ OrdersOK(new, Insert(b.orders, o.order_id, i))
  <1>1. /\ i \in Index /\ b.pool[i] = NoOrder /\ OrdersOK(b.pool, b.orders)
        /\ Front(b.free) \in Seq(Index) /\ Distinct(Front(b.free))
        /\ \A j \in Index : (\E n \in 1 .. Len(Front(b.free)) : Front(b.free)[n] = j)
                               <=> j # i /\ b.pool[j] = NoOrder
    BY AddBasics
  <1>2. \A j \in Index : new[j] = NoOrder <=> j # i /\ b.pool[j] = NoOrder
    BY NoOrderFacts DEF Kept
  <1>3. FreeOK(new, Front(b.free))
    BY <1>1, <1>2 DEF FreeOK
  <1>4. OrdersOK(new, Insert(b.orders, o.order_id, i))
    <2>1. o \in Orders /\ ~Has(b.orders, o.order_id)
      BY DEF Addable
    <2> QED
      BY <1>1, <2>1, OrdersAdd
  <1> QED
    BY <1>3, <1>4

\* The first order at a price opens its level.
LEMMA OpenLevel ==
    ASSUME NEW b, NEW q, CoreOf(b, q), NEW o, Addable(b, o), NEW i, i = Last(b.free),
           ~Has(b.levels, o.price), NEW c, c = Opened(b, i, o)
    PROVE  \E r : Grown(b, c, o, r) /\ Appended(b, q, c, r, o)
  <1>0. PICK pool, levels, prices, side, p :
           /\ pool = b.pool /\ levels = b.levels /\ prices = b.prices
           /\ side = o.side /\ p = o.price
    OBVIOUS
  <1>1. /\ i \in Index /\ pool[i] = NoOrder /\ PoolOK(pool) /\ PricesOK(levels, prices)
        /\ QueuesOK(pool, levels, prices, q) /\ CoverOK(pool, prices, q)
        /\ o \in Orders /\ p \in Prices /\ p \in Int /\ side \in Sides
        /\ o.quantity \in Nat /\ ~Has(levels, p) /\ Uncrossed(prices, side, p)
    BY <1>0, AddBasics DEF Addable
  <1>2. PICK e, new, lv, ps : /\ e = [order |-> o, previous |-> NULL, next |-> NULL]
                              /\ new = [pool EXCEPT ![i] = e]
                              /\ lv = Insert(levels, p, [head |-> i, tail |-> i,
                                                         total_quantity |-> o.quantity])
                              /\ ps = [prices EXCEPT ![side] = @ \cup {p}]
    OBVIOUS
  <1>3. c = [pool |-> new, free |-> Front(b.free), levels |-> lv,
             orders |-> Insert(b.orders, o.order_id, i), prices |-> ps, bbo |-> b.bbo]
    BY <1>0, <1>2 DEF Opened, Pool1
  <1>4. /\ c.pool = new /\ c.free = Front(b.free) /\ c.levels = lv
        /\ c.orders = Insert(b.orders, o.order_id, i) /\ c.prices = ps /\ c.bbo = b.bbo
        /\ Shape(c)
    BY <1>3 DEF Shape
  <1>5. e \in Entries /\ e.order = o
    BY <1>1, <1>2, FreshEntry DEF Link
  <1>6. PoolOK(new) /\ new[i] = e /\ \A j \in Index : j # i => new[j] = pool[j]
    <2>1. Written(new, pool, i, e)
      BY <1>2 DEF Written
    <2> QED
      BY <2>1, <1>1, <1>5, PoolWritten
  <1>7. Kept(pool, new, i) /\ Elsewhere(pool, new, p)
    BY <1>1, <1>6, PoolEntry DEF Kept, Elsewhere
  <1>8. FreeOK(new, c.free) /\ OrdersOK(new, c.orders)
    BY <1>0, <1>4, <1>5, <1>6, <1>7, AddMaps
  <1>9. /\ MapOK(lv, LEVEL_SLOTS) /\ Has(lv, p) /\ LevelsElsewhere(levels, lv, p)
        /\ Find(lv, p) = [head |-> i, tail |-> i, total_quantity |-> o.quantity]
    <2>1. CanAdd(levels, p) /\ MapOK(levels, LEVEL_SLOTS)
      BY <1>1, LevelRoom DEF PricesOK
    <2> QED
      BY <2>1, <1>1, <1>2, InsertFacts DEF LevelsElsewhere
  <1>10. /\ PricesOK(lv, ps) /\ ps[side] = prices[side] \cup {p} /\ PricesBut(prices, ps, p, side)
         /\ Quoted(ps, prices, side, p)
    <2>1. Quoted(ps, prices, side, p)
      BY <1>2 DEF Quoted
    <2> QED
      BY ONLY <2>1, <1>1, <1>9, PricesAdd
  <1>11. p \in ps[side] /\ \A other \in Sides : p \notin prices[other]
    BY <1>1, <1>10, PriceFacts
  <1>12. PICK s : s = <<i>>
    OBVIOUS
  <1>13. LevelOK(new, Find(lv, p), s, p, side)
    <2>1. Queue(new, s, p, side, o.quantity)
      BY <1>0, <1>1, <1>2, <1>6, <1>12, QueueOfOne
    <2>2. s[1] = i /\ Len(s) = 1
      BY <1>12
    <2> QED
      BY <2>1, <2>2, <1>9 DEF LevelOK
  <1>14. PICK r : Requeued(r, q, p, s)
    BY DEF Requeued
  <1>16. /\ QueuesOK(new, lv, ps, r) /\ r[p] = s
         /\ \A x \in Prices : x # p => r[x] = q[x]
    BY ONLY <1>1, <1>7, <1>9, <1>10, <1>13, <1>14, QueuesWith
  <1>17. CoverOK(new, ps, r)
    <2>1. ASSUME NEW j \in Index, new[j] # NoOrder PROVE Queued(new[j], j, ps, r)
      <3>1. CASE j = i
        <4>1. r[p][1] = i /\ 1 \in 1 .. Len(r[p])
          BY <1>12, <1>16
        <4>2. new[j].order.price = p /\ new[j].order.side = side
          BY <3>1, <1>0, <1>2, <1>5, <1>6
        <4> QED
          BY <3>1, <4>1, <4>2, <1>11 DEF Queued
      <3>2. CASE j # i
        <4>1. pool[j] # NoOrder /\ new[j] = pool[j]
          BY <2>1, <3>2, <1>6
        <4>2. Queued(pool[j], j, prices, q) /\ pool[j] \in Entries
          BY <4>1, <1>1, PoolEntry DEF CoverOK
        <4>3. pool[j].order.side \in Sides
          BY <4>2, NoOrderFacts
        <4>4. new[j].order.price # p
          BY <4>1, <4>2, <4>3, <1>11 DEF Queued
        <4> QED
          <5>1. PricesOK(levels, prices) /\ CoverOK(pool, prices, q)
            BY <1>1
          <5>2. Kept(pool, new, i) /\ PricesBut(prices, ps, p, side)
            BY <1>7, <1>10
          <5>3. \A x \in Prices : x # p => r[x] = q[x]
            BY <1>16
          <5> QED
            BY ONLY <5>1, <5>2, <5>3, <2>1, <3>2, <4>4, j \in Index, CoverFrame
      <3> QED
        BY <3>1, <3>2
    <2> QED
      BY <2>1 DEF CoverOK
  <1>18. CoreOf(c, r)
    BY <1>4, <1>6, <1>8, <1>10, <1>16, <1>17 DEF CoreOf, Core
  <1>19. Find(lv, p).total_quantity = Resting(b, side, p) + o.quantity
    BY <1>0, <1>1, <1>9, <1>11 DEF Resting
  <1>20. Appended(b, q, c, r, o)
    <2>1. OrdersBut(b.pool, c.pool, i) /\ c.pool[i].order = o /\ b.pool[i] = NoOrder
      BY <1>0, <1>1, <1>4, <1>5, <1>6 DEF OrdersBut
    <2>2. o.price \notin b.prices[o.side]
      BY <1>0, <1>1, <1>11
    <2>3. Requeued(r, q, o.price, IF o.price \in b.prices[o.side] THEN Append(q[o.price], i) ELSE <<i>>)
      BY <2>2, <1>0, <1>12, <1>14
    <2> QED
      BY <2>1, <2>3, <1>1 DEF Appended
  <1>21. Grown(b, c, o, r)
    BY <1>0, <1>4, <1>9, <1>10, <1>18, <1>19 DEF Grown
  <1> QED
    BY <1>20, <1>21

\* A later one joins the queue behind the others.
LEMMA JoinQueue ==
    ASSUME NEW b, NEW q, CoreOf(b, q), NEW o, Addable(b, o), NEW i, i = Last(b.free),
           Has(b.levels, o.price), NEW level, level = Find(b.levels, o.price),
           NEW c, c = Joined(b, i, o, level)
    PROVE  \E r : Grown(b, c, o, r) /\ Appended(b, q, c, r, o)
  <1>0. PICK pool, levels, prices, side, p :
           /\ pool = b.pool /\ levels = b.levels /\ prices = b.prices
           /\ side = o.side /\ p = o.price
    OBVIOUS
  <1>1. /\ i \in Index /\ pool[i] = NoOrder /\ PoolOK(pool) /\ PricesOK(levels, prices)
        /\ QueuesOK(pool, levels, prices, q) /\ CoverOK(pool, prices, q)
        /\ o \in Orders /\ p \in Prices /\ p \in Int /\ side \in Sides
        /\ o.quantity \in Nat /\ Has(levels, p) /\ Uncrossed(prices, side, p)
        /\ level = Find(levels, p)
    BY <1>0, AddBasics DEF Addable
  <1>2. PICK lv, ps, level1 :
           /\ level1 = [level EXCEPT !.total_quantity = @ + o.quantity, !.tail = i]
           /\ lv = Assign(levels, p, level1)
           /\ ps = [prices EXCEPT ![side] = @ \cup {p}]
    OBVIOUS
  <1>3. /\ MapOK(lv, LEVEL_SLOTS) /\ Has(lv, p) /\ LevelsElsewhere(levels, lv, p)
        /\ Find(lv, p) = level1
    <2>1. MapOK(levels, LEVEL_SLOTS)
      BY <1>1 DEF PricesOK
    <2> QED
      BY <2>1, <1>1, <1>2, AssignFacts DEF LevelsElsewhere
  <1>4. /\ PricesOK(lv, ps) /\ PricesBut(prices, ps, p, side) /\ Quoted(ps, prices, side, p)
        /\ p \in prices[side] /\ ps = prices
    <2>1. Quoted(ps, prices, side, p)
      BY <1>2 DEF Quoted
    <2> QED
      BY ONLY <2>1, <1>1, <1>3, PricesAdd
  <1>5. PICK s : s = q[p] /\ LevelOK(pool, level, s, p, side)
    BY <1>1, <1>4 DEF QueuesOK
  <1>6. PICK total : total = level.total_quantity
    OBVIOUS
  <1>7. /\ Queue(pool, s, p, side, total)
        /\ level = [head |-> s[1], tail |-> s[Len(s)], total_quantity |-> total]
    BY <1>5, <1>6 DEF LevelOK
  <1>8. /\ s \in Seq(Index) /\ Len(s) \in Nat \ {0}
        /\ \A n \in 1 .. Len(s) : s[n] \in Index /\ Stands(pool[s[n]], s, n, p, side)
        /\ Distinct(s)
    BY <1>7, QueueFacts
  <1>9. \A n \in 1 .. Len(s) : s[n] # i /\ pool[s[n]] \in Entries
    BY <1>1, <1>8, NoOrderFacts DEF Stands
  <1>10. PICK t \in Index : t = s[Len(s)] /\ t = level.tail /\ t # i /\ pool[t] \in Entries
    BY <1>7, <1>8, <1>9
  <1>11. level1 = [head |-> s[1], tail |-> i, total_quantity |-> total + o.quantity]
    <2>1. PICK level0 : level0 = [level EXCEPT !.total_quantity = @ + o.quantity]
      OBVIOUS
    <2>2. level1 = [level0 EXCEPT !.tail = i]
      BY <2>1, <1>2, <1>7
    <2>3. level0 = [head |-> s[1], tail |-> s[Len(s)], total_quantity |-> total + o.quantity]
      BY <2>1, <1>7
    <2> QED
      BY <2>2, <2>3
  <1>12. PICK e, f : /\ e = [order |-> o, previous |-> t, next |-> NULL]
                     /\ f = [pool[t] EXCEPT !.next = i]
    OBVIOUS
  <1>13. e \in Entries /\ e.order = o
    BY <1>1, <1>12, FreshEntry DEF Link
  <1>14. f \in Entries /\ f.order = pool[t].order
    BY <1>1, <1>10, <1>12 DEF Entries, Link
  <1>15. PICK new : new = [[Pool1(b, i, o) EXCEPT ![level.tail].next = i] EXCEPT ![i].previous = level.tail]
    OBVIOUS
  <1>16. /\ PoolOK(new) /\ new[i] = e /\ new[t] = f
         /\ \A j \in Index : j # i /\ j # t => new[j] = pool[j]
    <2>1. PICK e0, new1, new2 : /\ e0 = [order |-> o, previous |-> NULL, next |-> NULL]
                                /\ new1 = [pool EXCEPT ![i] = e0]
                                /\ new2 = [new1 EXCEPT ![t] = f]
      OBVIOUS
    <2>2. e0 \in Entries
      BY <1>1, <2>1, FreshEntry DEF Link
    <2>3. PoolOK(new1) /\ new1[i] = e0 /\ \A j \in Index : j # i => new1[j] = pool[j]
      <3>1. Written(new1, pool, i, e0)
        BY <2>1 DEF Written
      <3> QED
        BY <3>1, <1>1, <2>2, PoolWritten
    <2>4. PoolOK(new2) /\ new2[t] = f /\ \A j \in Index : j # t => new2[j] = new1[j]
      <3>1. Written(new2, new1, t, f)
        BY <2>1 DEF Written
      <3> QED
        BY <3>1, <2>3, <1>14, PoolWritten
    <2>5. new2 = [Pool1(b, i, o) EXCEPT ![level.tail].next = i]
      <3>1. Pool1(b, i, o) = new1
        BY <1>0, <2>1 DEF Pool1
      <3>2. new1[t] = pool[t]
        BY <1>10, <2>3
      <3>3. [new1 EXCEPT ![t].next = i] = [new1 EXCEPT ![t] = [new1[t] EXCEPT !.next = i]]
        OBVIOUS
      <3> QED
        BY <3>1, <3>2, <3>3, <2>1, <1>10, <1>12
    <2>6. new = [new2 EXCEPT ![i] = e]
      <3>1. new2[i] = e0
        BY <2>3, <2>4, <1>10, <1>1
      <3>2. [e0 EXCEPT !.previous = t] = e
        BY <2>1, <1>12
      <3>3. new = [new2 EXCEPT ![i].previous = t]
        BY <2>5, <1>15, <1>10
      <3>4. [new2 EXCEPT ![i].previous = t] = [new2 EXCEPT ![i] = [new2[i] EXCEPT !.previous = t]]
        OBVIOUS
      <3> QED
        BY <3>1, <3>2, <3>3, <3>4
    <2>7. PoolOK(new) /\ new[i] = e /\ \A j \in Index : j # i => new[j] = new2[j]
      <3>1. Written(new, new2, i, e)
        BY ONLY <2>6, SMTT(30) DEF Written
      <3> QED
        BY <3>1, <2>4, <1>1, <1>13, PoolWritten
    <2> QED
      BY <2>3, <2>4, <2>7, <1>10
  <1>17. c = [pool |-> new, free |-> Front(b.free), levels |-> lv,
              orders |-> Insert(b.orders, o.order_id, i), prices |-> ps, bbo |-> b.bbo]
    BY <1>0, <1>2, <1>4, <1>15 DEF Joined
  <1>18. /\ c.pool = new /\ c.free = Front(b.free) /\ c.levels = lv
         /\ c.orders = Insert(b.orders, o.order_id, i) /\ c.prices = ps /\ c.bbo = b.bbo
         /\ Shape(c)
    BY <1>17 DEF Shape
  <1>19. Kept(pool, new, i)
    <2>1. ASSUME NEW j \in Index, j # i
          PROVE  /\ new[j] = NoOrder <=> pool[j] = NoOrder
                 /\ pool[j] # NoOrder => new[j] \in Entries /\ new[j].order = pool[j].order
      <3>1. CASE j = t
        BY <3>1, <1>10, <1>14, <1>16, NoOrderFacts
      <3>2. CASE j # t
        BY <2>1, <3>2, <1>1, <1>16, PoolEntry
      <3> QED
        BY <3>1, <3>2
    <2> QED
      BY <2>1 DEF Kept
  <1>20. Elsewhere(pool, new, p)
    <2>1. pool[t].order.price = p
      <3>1. Len(s) \in 1 .. Len(s)
        BY <1>8
      <3> QED
        BY <3>1, <1>8, <1>10 DEF Stands
    <2> QED
      BY <2>1, <1>1, <1>16 DEF Elsewhere
  <1>21. FreeOK(new, c.free) /\ OrdersOK(new, c.orders)
    BY <1>0, <1>18, <1>13, <1>16, <1>19, AddMaps
  <1>22. PICK u : u = Append(s, i)
    OBVIOUS
  <1>23. /\ Len(u) = Len(s) + 1 /\ u[Len(s) + 1] = i /\ \A n \in 1 .. Len(s) : u[n] = s[n]
    BY <1>1, <1>8, <1>22, AppendProperties
  <1>24. LevelOK(new, Find(lv, p), u, p, side)
    <2>1. \A n \in 1 .. Len(s) - 1 : new[s[n]] = pool[s[n]]
      <3>1. ASSUME NEW n \in 1 .. Len(s) - 1 PROVE s[n] # t /\ s[n] # i /\ s[n] \in Index
        <4>1. n \in 1 .. Len(s) /\ Len(s) \in 1 .. Len(s) /\ n # Len(s)
          BY <1>8
        <4>2. s[n] # s[Len(s)]
          BY <4>1, <1>8 DEF Distinct
        <4> QED
          BY <4>1, <4>2, <1>8, <1>9, <1>10
      <3> QED
        BY <3>1, <1>16
    <2>2. /\ new[i] = [order |-> o, previous |-> s[Len(s)], next |-> NULL]
          /\ new[s[Len(s)]] = [pool[s[Len(s)]] EXCEPT !.next = i]
      BY <1>10, <1>12, <1>16
    <2>3. Queue(new, u, p, side, total + o.quantity)
      <3>1. Behind(pool, new, s, i, o)
        BY <1>9, <2>1, <2>2 DEF Behind
      <3> QED
        BY ONLY <1>0, <1>1, <1>7, <1>22, <3>1, QueueAppend
    <2>4. u[1] = s[1] /\ u[Len(u)] = i
      BY <1>8, <1>23
    <2> QED
      BY <2>3, <2>4, <1>3, <1>11 DEF LevelOK
  <1>25. PICK r : Requeued(r, q, p, u)
    BY DEF Requeued
  <1>26. /\ QueuesOK(new, lv, ps, r) /\ r[p] = u
         /\ \A x \in Prices : x # p => r[x] = q[x]
    BY ONLY <1>1, <1>3, <1>4, <1>20, <1>24, <1>25, QueuesWith
  <1>27. CoverOK(new, ps, r)
    <2>1. ASSUME NEW j \in Index, new[j] # NoOrder PROVE Queued(new[j], j, ps, r)
      <3>1. CASE j = i
        <4>1. r[p][Len(s) + 1] = i /\ Len(s) + 1 \in 1 .. Len(r[p])
          BY <1>8, <1>23, <1>26
        <4>2. new[j].order.price = p /\ new[j].order.side = side
          BY <3>1, <1>0, <1>13, <1>16
        <4> QED
          BY <3>1, <4>1, <4>2, <1>4 DEF Queued
      <3>2. CASE j # i /\ new[j].order.price = p
        <4>1. /\ pool[j] # NoOrder /\ new[j].order.price = pool[j].order.price
              /\ new[j].order.side = pool[j].order.side
          BY <2>1, <3>2, <1>19 DEF Kept
        <4>2. Queued(pool[j], j, prices, q)
          BY <4>1, <1>1 DEF CoverOK
        <4>3. \E n \in 1 .. Len(s) : s[n] = j
          BY <4>1, <4>2, <3>2, <1>5 DEF Queued
        <4>4. \E n \in 1 .. Len(u) : u[n] = j
          BY <4>3, <1>8, <1>23
        <4> QED
          BY <4>1, <4>2, <4>4, <3>2, <1>4, <1>26 DEF Queued
      <3>3. CASE j # i /\ new[j].order.price # p
        BY ONLY <2>1, <3>3, <1>1, <1>4, <1>19, <1>26, CoverFrame, SMTT(60)
      <3> QED
        BY <3>1, <3>2, <3>3
    <2> QED
      BY <2>1 DEF CoverOK
  <1>28. CoreOf(c, r)
    BY <1>4, <1>16, <1>18, <1>21, <1>26, <1>27 DEF CoreOf, Core
  <1>29. Find(lv, p).total_quantity = Resting(b, side, p) + o.quantity
    BY <1>0, <1>1, <1>3, <1>4, <1>6, <1>11 DEF Resting
  <1>30. Appended(b, q, c, r, o)
    <2>1. ASSUME NEW j \in Index, j # i PROVE new[j].order = pool[j].order
      BY <2>1, <1>14, <1>16
    <2>2. OrdersBut(b.pool, c.pool, i) /\ c.pool[i].order = o /\ b.pool[i] = NoOrder
      BY <2>1, <1>0, <1>1, <1>13, <1>16, <1>18 DEF OrdersBut
    <2>3. o.price \in b.prices[o.side] /\ u = Append(q[o.price], i)
      BY <1>0, <1>4, <1>5, <1>22
    <2>4. Requeued(r, q, o.price, IF o.price \in b.prices[o.side] THEN Append(q[o.price], i) ELSE <<i>>)
      BY <2>3, <1>0, <1>25
    <2> QED
      BY <2>2, <2>4, <1>1 DEF Appended
  <1>31. Grown(b, c, o, r)
    BY <1>0, <1>3, <1>4, <1>18, <1>28, <1>29 DEF Grown
  <1> QED
    BY <1>30, <1>31

\* Two remainders that differ by a multiple are the same.
LEMMA SameRemainder ==
    ASSUME NEW R \in Nat \ {0}, NEW x \in 0 .. R - 1, NEW y \in 0 .. R - 1, NEW k \in Int,
           y - x = R * k
    PROVE  x = y
  <1>1. CASE k <= -1
    <2>1. R * k <= -R
      BY ONLY <1>1, k \in Int, R \in Nat \ {0}
    <2> QED
      BY <2>1
  <1>2. CASE k = 0
    BY <1>2
  <1>3. CASE k >= 1
    <2>1. R * k >= R
      BY ONLY <1>3, k \in Int, R \in Nat \ {0}
    <2> QED
      BY <2>1
  <1> QED
    BY <1>1, <1>2, <1>3

\* Quotient and remainder.
LEMMA Quotient ==
    ASSUME NEW a \in Int, NEW R \in Nat \ {0}
    PROVE  \E x \in 0 .. R - 1, k \in Int : x = a % R /\ a = R * k + x
  <1>1. a \div R \in Int /\ a = R * (a \div R) + (a % R)
    OBVIOUS
  <1>2. a % R \in 0 .. R - 1
    OBVIOUS
  <1>3. PICK x \in 0 .. R - 1 : x = a % R
    BY <1>2
  <1>4. PICK k \in Int : k = a \div R
    BY <1>1
  <1>5. a = R * k + x
    BY <1>1, <1>3, <1>4
  <1> QED
    BY <1>3, <1>5

\* Arithmetic in unsigned words.
LEMMA ModFacts ==
    ASSUME NEW a \in Int, NEW d \in Int, NEW R \in Nat \ {0}
    PROVE  /\ a % R \in 0 .. R - 1 /\ ((a % R) + d) % R = (a + d) % R
           /\ a \in 0 .. R - 1 => a % R = a
  <1>1. PICK x \in 0 .. R - 1, i \in Int : x = a % R /\ a = R * i + x
    BY ONLY a \in Int, R \in Nat \ {0}, Quotient
  <1>2. PICK y \in 0 .. R - 1, j \in Int : y = (x + d) % R /\ x + d = R * j + y
    <2>1. x + d \in Int
      OBVIOUS
    <2> QED
      BY ONLY <2>1, R \in Nat \ {0}, Quotient
  <1>3. PICK z \in 0 .. R - 1, k \in Int : z = (a + d) % R /\ a + d = R * k + z
    <2>1. a + d \in Int
      OBVIOUS
    <2> QED
      BY ONLY <2>1, R \in Nat \ {0}, Quotient
  <1>4. z - y = R * (i + j - k)
    <2>1. PICK ri \in Int, rj \in Int, rk \in Int : ri = R * i /\ rj = R * j /\ rk = R * k
      OBVIOUS
    <2>2. a = ri + x /\ x + d = rj + y /\ a + d = rk + z
      BY <2>1, <1>1, <1>2, <1>3
    <2>4. x \in Int /\ y \in Int /\ z \in Int
      OBVIOUS
    <2>5. z - y = ri + rj - rk
      BY ONLY <2>2, <2>4, ri \in Int, rj \in Int, rk \in Int, a \in Int, d \in Int
    <2>3. R * (i + j - k) = ri + rj - rk
      BY ONLY <2>1, R \in Nat, i \in Int, j \in Int, k \in Int
    <2> QED
      BY <2>5, <2>3
  <1>5. y = z
    BY <1>4, SameRemainder, i + j - k \in Int
  <1>6. ASSUME a \in 0 .. R - 1 PROVE a % R = a
    BY ONLY <1>6, R \in Nat \ {0}
  <1> QED
    BY <1>1, <1>2, <1>3, <1>5, <1>6

\* The best price of a side whose levels are left alone.
LEMMA BestElsewhere ==
    ASSUME NEW levels, NEW prices, PricesOK(levels, prices), NEW side \in Sides, NEW p, p \notin prices[side],
           NEW lv, LevelsElsewhere(levels, lv, p), NEW best, BestOf(levels, prices[side], side, best)
    PROVE  BestOf(lv, prices[side], side, best)
  <1>1. CASE prices[side] = {}
    BY <1>1 DEF BestOf
  <1>2. CASE prices[side] # {}
    <2>1. best.price \in prices[side] /\ best.price # p
      BY <1>2 DEF BestOf
    <2>2. best.price \in Int /\ Has(levels, best.price)
      BY <2>1, PriceFacts
    <2>3. Find(lv, best.price) = Find(levels, best.price)
      BY <2>1, <2>2 DEF LevelsElsewhere
    <2> QED
      BY <1>2, <2>3 DEF BestOf
  <1> QED
    BY <1>1, <1>2

\* c with another best price of a side.
WithBest(x, c, side, best) == x = [c EXCEPT !.bbo[side] = best]

\* The other side and the other fields are left alone.
LEMMA BestWritten ==
    ASSUME NEW c, Shape(c), c.bbo = [s \in Sides |-> c.bbo[s]], NEW side \in Sides, NEW best,
           NEW x, WithBest(x, c, side, best)
    PROVE  /\ Shape(x) /\ x.pool = c.pool /\ x.free = c.free /\ x.levels = c.levels
           /\ x.orders = c.orders /\ x.prices = c.prices
           /\ x.bbo = [s \in Sides |-> x.bbo[s]]
           /\ x.bbo[side] = best /\ \A s \in Sides : s # side => x.bbo[s] = c.bbo[s]
  <1>1. PICK p0, f0, l0, o0, s0, q0 :
           /\ p0 = c.pool /\ f0 = c.free /\ l0 = c.levels /\ o0 = c.orders
           /\ s0 = c.prices /\ q0 = c.bbo
    OBVIOUS
  <1>2. c = [pool |-> p0, free |-> f0, levels |-> l0, orders |-> o0, prices |-> s0, bbo |-> q0]
    BY <1>1 DEF Shape
  <1>3. PICK q1 : q1 = [q0 EXCEPT ![side] = best]
    OBVIOUS
  <1>4. x = [c EXCEPT !.bbo = q1]
    BY <1>1, <1>3 DEF WithBest
  <1>5. x = [pool |-> p0, free |-> f0, levels |-> l0, orders |-> o0, prices |-> s0, bbo |-> q1]
    BY ONLY <1>2, <1>4
  <1>6. /\ q1 = [s \in Sides |-> q1[s]] /\ q1[side] = best
        /\ \A s \in Sides : s # side => q1[s] = q0[s]
    BY <1>1, <1>3
  <1> QED
    BY <1>1, <1>5, <1>6 DEF Shape

\* A book whose best price of one side was rewritten.
LEMMA RepFromCore ==
    ASSUME NEW c, NEW r, CoreOf(c, r), c.bbo = [s \in Sides |-> c.bbo[s]],
           NEW side \in Sides, NEW best, NEW x, WithBest(x, c, side, best) \/ (x = c /\ best = c.bbo[side]),
           BestOf(c.levels, c.prices[side], side, best),
           \A s \in Sides : s # side => BestOf(c.levels, c.prices[s], s, c.bbo[s])
    PROVE  Rep(x, r)
  <1>1. Shape(c) /\ Core(c.pool, c.free, c.levels, c.orders, c.prices, r)
    BY DEF CoreOf
  <1>2. /\ Shape(x) /\ x.pool = c.pool /\ x.free = c.free /\ x.levels = c.levels
        /\ x.orders = c.orders /\ x.prices = c.prices
        /\ x.bbo = [s \in Sides |-> x.bbo[s]]
        /\ x.bbo[side] = best /\ \A s \in Sides : s # side => x.bbo[s] = c.bbo[s]
    <2>1. CASE WithBest(x, c, side, best)
      BY <2>1, <1>1, BestWritten
    <2>2. CASE x = c /\ best = c.bbo[side]
      BY <2>2, <1>1
    <2> QED
      BY <2>1, <2>2
  <1>3. BestOK(x.levels, x.prices, x.bbo)
    BY <1>2 DEF BestOK
  <1> QED
    BY <1>1, <1>2, <1>3 DEF Rep, Core

\* Better is a strict order on the prices.
LEMMA BetterFacts ==
    /\ \A side \in Sides : \A x \in Int : ~Better(side, x, x)
    /\ \A side \in Sides : \A x \in Int, y \in Int : x # y => Better(side, x, y) \/ Better(side, y, x)
    /\ \A side \in Sides : \A x \in Int, y \in Int : Better(side, x, y) => ~Better(side, y, x)
    /\ \A side \in Sides : \A x \in Int, y \in Int, z \in Int :
          Better(side, x, y) /\ Better(side, y, z) => Better(side, x, z)
    /\ \A side \in Sides : \A p \in Prices : Better(side, p, NoPrice(side)) /\ p # NoPrice(side)
    /\ \A side \in Sides : NoPrice(side) \in Int
  BY BookAssumption, PoolAssumption DEF Better, NoPrice, Sides

\* What is cached of a side is its best price and the quantity there.
LEMMA BestFacts ==
    ASSUME NEW levels, NEW prices, PricesOK(levels, prices), NEW side \in Sides, NEW best,
           BestOf(levels, prices[side], side, best)
    PROVE  /\ best = [price |-> best.price, quantity |-> best.quantity] /\ best.price \in Int
           /\ prices[side] = {} => best.price = NoPrice(side) /\ best.quantity = 0
           /\ prices[side] # {} =>
                 /\ best.price \in prices[side] /\ best.price \in Prices
                 /\ best.quantity = Find(levels, best.price).total_quantity % QUANTITY_RANGE
                 /\ \A x \in prices[side] : x # best.price => Better(side, best.price, x)
           /\ best.price = NoPrice(side) <=> prices[side] = {}
  <1>1. CASE prices[side] = {}
    BY <1>1, BetterFacts DEF BestOf
  <1>2. CASE prices[side] # {}
    <2>1. /\ best.price \in prices[side]
          /\ best = [price |-> best.price,
                     quantity |-> Find(levels, best.price).total_quantity % QUANTITY_RANGE]
          /\ \A x \in prices[side] : x # best.price => Better(side, best.price, x)
      BY <1>2 DEF BestOf
    <2>2. best.price \in Prices /\ best.price \in Int /\ best.price # NoPrice(side)
      BY <2>1, PriceFacts
    <2> QED
      BY <1>2, <2>1, <2>2
  <1> QED
    BY <1>1, <1>2

\* The level at a price of the book.
LEMMA LevelFacts ==
    ASSUME NEW pool, NEW levels, NEW prices, NEW q, QueuesOK(pool, levels, prices, q),
           NEW side \in Sides, NEW p \in prices[side]
    PROVE  \E s, level, total :
              /\ s = q[p] /\ level = Find(levels, p) /\ total = level.total_quantity
              /\ total \in Nat \ {0} /\ Queue(pool, s, p, side, total)
              /\ level = [head |-> s[1], tail |-> s[Len(s)], total_quantity |-> total]
  <1>1. PICK s, level, total :
           s = q[p] /\ level = Find(levels, p) /\ total = level.total_quantity
    OBVIOUS
  <1>2. LevelOK(pool, level, s, p, side)
    BY <1>1 DEF QueuesOK
  <1>3. Queue(pool, s, p, side, total)
    BY <1>1, <1>2 DEF LevelOK
  <1>4. Len(s) \in Nat \ {0} /\ \A n \in 1 .. Len(s) : pool[s[n]].order.quantity \in Nat \ {0}
    BY <1>3, QueueFacts
  <1>5. 1 \in 1 .. Len(s)
    BY <1>4
  <1>6. total \in Nat /\ pool[s[1]].order.quantity <= total /\ pool[s[1]].order.quantity \in Nat \ {0}
    BY <1>3, <1>4, <1>5, QueueAlone
  <1> QED
    BY <1>1, <1>2, <1>3, <1>6 DEF LevelOK

\* The parts of Rep, by name.
LEMMA RepFacts ==
    ASSUME NEW b, NEW q, Rep(b, q)
    PROVE  /\ CoreOf(b, q) /\ Shape(b) /\ PoolOK(b.pool) /\ FreeOK(b.pool, b.free)
           /\ OrdersOK(b.pool, b.orders) /\ PricesOK(b.levels, b.prices)
           /\ QueuesOK(b.pool, b.levels, b.prices, q) /\ CoverOK(b.pool, b.prices, q)
           /\ b.bbo = [s \in Sides |-> b.bbo[s]]
           /\ \A side \in Sides : BestOf(b.levels, b.prices[side], side, b.bbo[side])
  BY DEF Rep, CoreOf, Core, BestOK

\* update_bbo_add makes the cached BBO right again.
LEMMA BestAdd ==
    ASSUME NEW b, NEW q, Rep(b, q), NEW o, o \in Orders, Uncrossed(b.prices, o.side, o.price),
           NEW c, NEW r, Grown(b, c, o, r), NEW x, x = update_bbo_add(c, o).book
    PROVE  Rep(x, r)
  <1>0. PICK levels, prices, lv, ps, side, p, v, best :
           /\ levels = b.levels /\ prices = b.prices /\ lv = c.levels /\ ps = c.prices
           /\ side = o.side /\ p = o.price /\ v = o.quantity /\ best = b.bbo[side]
    OBVIOUS
  <1>1. /\ PricesOK(levels, prices) /\ b.bbo = [s \in Sides |-> b.bbo[s]]
        /\ \A s \in Sides : BestOf(levels, prices[s], s, b.bbo[s])
        /\ QueuesOK(b.pool, levels, prices, q)
    BY <1>0, RepFacts
  <1>2. /\ p \in Prices /\ p \in Int /\ side \in Sides /\ v \in Nat \ {0} /\ v \in 0 .. QUANTITY_RANGE - 1
        /\ QUANTITY_RANGE \in Nat \ {0}
    BY <1>0, NoOrderFacts, PoolAssumption
  <1>3. /\ CoreOf(c, r) /\ LevelsElsewhere(levels, lv, p) /\ Quoted(ps, prices, side, p)
        /\ Find(lv, p).total_quantity = Resting(b, side, p) + v /\ c.bbo = b.bbo
    BY <1>0 DEF Grown
  <1>4. ps[side] = prices[side] \cup {p} /\ \A s \in Sides : s # side => ps[s] = prices[s]
    BY <1>1, <1>2, <1>3 DEF Quoted, PricesOK
  <1>5. ASSUME NEW s \in Sides, s # side PROVE BestOf(lv, ps[s], s, b.bbo[s])
    <2>1. s = Opposite(side)
      BY <1>2, <1>5 DEF Sides, Opposite
    <2>2. p \notin prices[s]
      BY <2>1, <1>0, <1>2, BetterFacts DEF Uncrossed, Better
    <2> QED
      BY <2>2, <1>1, <1>3, <1>4, <1>5, BestElsewhere
  <1>6. BestOf(levels, prices[side], side, best)
    BY <1>0, <1>1, <1>2
  <1>7. /\ best = [price |-> best.price, quantity |-> best.quantity] /\ best.price \in Int
        /\ prices[side] = {} => best.price = NoPrice(side)
        /\ prices[side] # {} =>
              /\ best.price \in prices[side] /\ best.price \in Prices
              /\ best.quantity = Find(levels, best.price).total_quantity % QUANTITY_RANGE
              /\ \A y \in prices[side] : y # best.price => Better(side, best.price, y)
    BY <1>1, <1>2, <1>6, BestFacts
  <1>8. \A y \in prices[side] : y \in Int
    BY <1>1, <1>2, PriceFacts
  <1>9. CASE Better(side, p, best.price)
    <2>1. p \notin prices[side] /\ \A y \in prices[side] : Better(side, p, y)
      BY <1>2, <1>7, <1>8, <1>9, BetterFacts
    <2>2. PICK new : new = [price |-> p, quantity |-> v]
      OBVIOUS
    <2>3. WithBest(x, c, side, new)
      <3>1. PICK y : y = [c EXCEPT !.bbo[side] = new]
        OBVIOUS
      <3>2. c.bbo[o.side] = best /\ o.side = side /\ o.price = p /\ o.quantity = v
        BY <1>0, <1>3
      <3>3. update_bbo_add(c, o) = Result(y, NewBest(side))
        <4>1. p # best.price
          BY <1>2, <1>9, BetterFacts
        <4> QED
          BY ONLY <4>1, <3>1, <3>2, <2>2, <1>9 DEF update_bbo_add
      <3> QED
        BY <3>1, <3>3 DEF Result, WithBest
    <2>4. Find(lv, p).total_quantity % QUANTITY_RANGE = v
      <3>1. Find(lv, p).total_quantity = v
        BY <2>1, <1>0, <1>2, <1>3 DEF Resting
      <3> QED
        BY <3>1, <1>2, ModFacts
    <2>5. BestOf(lv, ps[side], side, new)
      BY <2>1, <2>2, <2>4, <1>4 DEF BestOf
    <2> QED
      BY ONLY <2>3, <2>5, <1>0, <1>1, <1>2, <1>3, <1>5, RepFromCore
  <1>10. CASE p = best.price
    <2>1. p \in prices[side]
      BY <1>2, <1>7, <1>10, BetterFacts
    <2>2. ~Better(side, p, best.price)
      BY <1>2, <1>10, BetterFacts
    <2>3. PICK s, level, total :
              /\ level = Find(levels, p) /\ total = level.total_quantity /\ total \in Nat
      BY ONLY <2>1, <1>1, <1>2, LevelFacts
    <2>4. best.quantity = total % QUANTITY_RANGE
      BY <2>1, <2>3, <1>7, <1>10
    <2>5. PICK new : new = [price |-> p, quantity |-> (best.quantity + v) % QUANTITY_RANGE]
      OBVIOUS
    <2>6. new = [best EXCEPT !.quantity = (@ + v) % QUANTITY_RANGE]
      BY <2>5, <1>7, <1>10
    <2>7. WithBest(x, c, side, new)
      <3>1. x = [c EXCEPT !.bbo[side].quantity = (@ + v) % QUANTITY_RANGE]
        BY <2>2, <1>0, <1>3, <1>10 DEF update_bbo_add, Result
      <3>2. c.bbo[side] = best
        BY <1>0, <1>3
      <3>3. [c EXCEPT !.bbo[side].quantity = (@ + v) % QUANTITY_RANGE]
              = [c EXCEPT !.bbo[side] = [c.bbo[side] EXCEPT !.quantity = (@ + v) % QUANTITY_RANGE]]
        OBVIOUS
      <3> QED
        BY <3>1, <3>2, <3>3, <2>6 DEF WithBest
    <2>8. Find(lv, p).total_quantity = total + v
      BY <2>1, <2>3, <1>0, <1>3 DEF Resting
    <2>9. ((total % QUANTITY_RANGE) + v) % QUANTITY_RANGE = (total + v) % QUANTITY_RANGE
      BY <2>3, <1>2, ModFacts
    <2>10. BestOf(lv, ps[side], side, new)
      <3>1. \A y \in ps[side] : y # p => Better(side, p, y)
        BY <2>1, <1>4, <1>7, <1>10
      <3>2. new = [price |-> p, quantity |-> Find(lv, p).total_quantity % QUANTITY_RANGE]
        BY <2>4, <2>5, <2>8, <2>9
      <3>3. new.price = p /\ p \in ps[side]
        BY <2>5, <1>4
      <3> QED
        BY <3>1, <3>2, <3>3 DEF BestOf
    <2> QED
      BY ONLY <2>7, <2>10, <1>0, <1>1, <1>2, <1>3, <1>5, RepFromCore
  <1>11. CASE ~Better(side, p, best.price) /\ p # best.price
    <2>1. x = c
      BY <1>0, <1>3, <1>11 DEF update_bbo_add, Result
    <2>2. prices[side] # {} /\ Better(side, best.price, p)
      BY <1>2, <1>7, <1>11, BetterFacts
    <2>3. best.price \in prices[side] /\ best.price # p /\ Has(levels, best.price)
      BY <2>2, <1>1, <1>2, <1>7, <1>11, PriceFacts
    <2>4. Find(lv, best.price) = Find(levels, best.price)
      BY <2>3, <1>3, <1>7 DEF LevelsElsewhere
    <2>5. BestOf(lv, ps[side], side, best)
      BY <2>2, <2>3, <2>4, <1>4, <1>7 DEF BestOf
    <2>6. /\ CoreOf(c, r) /\ c.bbo = [s \in Sides |-> c.bbo[s]]
          /\ x = c /\ best = c.bbo[side]
          /\ BestOf(c.levels, c.prices[side], side, best)
          /\ \A s \in Sides : s # side => BestOf(c.levels, c.prices[s], s, c.bbo[s])
      BY <2>1, <2>5, <1>0, <1>1, <1>3, <1>5
    <2> QED
      BY ONLY <2>6, <1>2, RepFromCore
  <1> QED
    BY <1>9, <1>10, <1>11

\* update_bbo_add touches nothing but the cached BBO.
LEMMA AddTouches ==
    ASSUME NEW c, Shape(c), NEW o, NEW x, x = update_bbo_add(c, o).book
    PROVE  x.pool = c.pool /\ x.prices = c.prices /\ x.orders = c.orders
  <1>1. \/ x = c
        \/ \E n : x = [c EXCEPT !.bbo = n]
    <2>1. PICK n1, n2 : /\ n1 = [c.bbo EXCEPT ![o.side] = [price |-> o.price, quantity |-> o.quantity]]
                        /\ n2 = [c.bbo EXCEPT ![o.side].quantity = (@ + o.quantity) % QUANTITY_RANGE]
      OBVIOUS
    <2>2. x \in {c, [c EXCEPT !.bbo = n1], [c EXCEPT !.bbo = n2]}
      BY <2>1 DEF update_bbo_add, Result
    <2> QED
      BY <2>2
  <1>2. PICK p, f, l, m, s, n :
           c = [pool |-> p, free |-> f, levels |-> l, orders |-> m, prices |-> s, bbo |-> n]
    BY DEF Shape
  <1> QED
    BY <1>1, <1>2

\* The book that add() makes.
AddsTo(b, q, x, r, o) ==
    Rep(x, r) /\ Appended(b, q, x, r, o) /\ Quoted(x.prices, b.prices, o.side, o.price)

\* add() keeps a book in order, with the order behind the others at its price.
LEMMA AddRep ==
    ASSUME NEW b, NEW q, Rep(b, q), NEW o, Addable(b, o), NEW x, x = add(b, o).book
    PROVE  \E r : AddsTo(b, q, x, r, o)
  <1>1. PICK i, level : i = Last(b.free) /\ level = Find(b.levels, o.price)
    OBVIOUS
  <1>2. CoreOf(b, q) /\ Shape(b)
    BY RepFacts
  <1>3. PICK c : /\ add(b, o) = update_bbo_add(c, o)
                 /\ c = IF ~Has(b.levels, o.price) THEN Opened(b, i, o)
                        ELSE Joined(b, i, o, Find(b.levels, o.price))
    BY <1>1, <1>2, AddFields
  <1>4. PICK r : Grown(b, c, o, r) /\ Appended(b, q, c, r, o)
    <2>1. CASE ~Has(b.levels, o.price)
      BY <2>1, <1>1, <1>2, <1>3, OpenLevel
    <2>2. CASE Has(b.levels, o.price)
      BY <2>2, <1>1, <1>2, <1>3, JoinQueue
    <2> QED
      BY <2>1, <2>2
  <1>5. o \in Orders /\ Uncrossed(b.prices, o.side, o.price)
    BY DEF Addable
  <1>6. x = update_bbo_add(c, o).book
    BY <1>3
  <1>7. Rep(x, r)
    BY <1>4, <1>5, <1>6, BestAdd
  <1>8. x.pool = c.pool /\ x.prices = c.prices
    <2>1. Shape(c)
      BY <1>4 DEF Grown, CoreOf
    <2> QED
      BY ONLY <2>1, <1>6, AddTouches
  <1>9. Appended(b, q, x, r, o) /\ Quoted(x.prices, b.prices, o.side, o.price)
    BY <1>4, <1>8 DEF Grown, Appended
  <1> QED
    BY <1>7, <1>9 DEF AddsTo

\* So the book stays in order.
LEMMA AddKeepsRep ==
    ASSUME NEW b, NEW q, Rep(b, q), NEW o, Addable(b, o)
    PROVE  BookOK(add(b, o).book)
  BY AddRep DEF AddsTo, BookOK

-----------------------------------------------------------------------------
(* trade() and update_quantity(), when the order stays. *)
\* A side that is not empty has a best price, and BestPrice picks it.
LEMMA BestPriceFacts ==
    ASSUME NEW S, S # {}, NEW side \in Sides, \A x \in S : x \in Int /\ NO_BID < x /\ x < NO_OFFER
    PROVE  /\ BestPrice(side, S) \in S
           /\ \A x \in S : x # BestPrice(side, S) => Better(side, BestPrice(side, S), x)
  <1>0. NO_BID \in Int /\ NO_OFFER \in Int
    BY PoolAssumption
  <1>1. \E p \in S : \A x \in S : x # p => Better(side, p, x)
    <2>1. CASE side = "Buy"
      <3>1. PICK T : T = {NO_OFFER - x : x \in S}
        OBVIOUS
      <3>2. T \subseteq Nat /\ T # {}
        BY <3>1, <1>0
      <3>3. PICK m \in T : \A k \in T : m <= k
        BY <3>2, LeastNat
      <3>4. PICK p \in S : m = NO_OFFER - p
        BY <3>1
      <3>5. ASSUME NEW x \in S, x # p PROVE x < p
        <4>1. NO_OFFER - x \in T
          BY <3>1
        <4>2. NO_OFFER - p <= NO_OFFER - x
          BY <4>1, <3>3, <3>4
        <4>3. x \in Int /\ p \in Int
          OBVIOUS
        <4> QED
          BY ONLY <4>2, <4>3, <3>5, <1>0
      <3> QED
        BY <2>1, <3>5 DEF Better
    <2>2. CASE side = "Sell"
      <3>1. PICK T : T = {x - NO_BID : x \in S}
        OBVIOUS
      <3>2. T \subseteq Nat /\ T # {}
        BY <3>1, <1>0
      <3>3. PICK m \in T : \A k \in T : m <= k
        BY <3>2, LeastNat
      <3>4. PICK p \in S : m = p - NO_BID
        BY <3>1
      <3>5. ASSUME NEW x \in S, x # p PROVE p < x
        <4>1. x - NO_BID \in T
          BY <3>1
        <4>2. p - NO_BID <= x - NO_BID
          BY <4>1, <3>3, <3>4
        <4>3. x \in Int /\ p \in Int
          OBVIOUS
        <4> QED
          BY ONLY <4>2, <4>3, <3>5, <1>0
      <3> QED
        BY <2>2, <3>5 DEF Better
    <2> QED
      BY <2>1, <2>2 DEF Sides
  <1> QED
    BY <1>1 DEF BestPrice

\* What update_bbo_reduce writes for the side of o.
BestIn(levels, S, side) ==
    IF S = {} THEN [price |-> NoPrice(side), quantity |-> 0]
    ELSE [price |-> BestPrice(side, S),
          quantity |-> Find(levels, BestPrice(side, S)).total_quantity % QUANTITY_RANGE]
\* new is what it makes of best when v leaves price p.
Reduced(levels, S, best, side, p, v, new) ==
    IF p = best.price
    THEN IF v = best.quantity THEN new = BestIn(levels, S, side)
         ELSE new = [price |-> best.price, quantity |-> (best.quantity - v) % QUANTITY_RANGE]
    ELSE new = best

\* The best price read from the levels is the best price.
LEMMA BestInFacts ==
    ASSUME NEW levels, NEW prices, PricesOK(levels, prices), NEW side \in Sides, NEW S, S = prices[side]
    PROVE  BestOf(levels, S, side, BestIn(levels, S, side))
  <1>1. CASE S = {}
    BY <1>1 DEF BestOf, BestIn
  <1>2. CASE S # {}
    <2>1. \A x \in S : x \in Int /\ NO_BID < x /\ x < NO_OFFER
      BY PriceFacts
    <2>2. PICK p : p = BestPrice(side, S)
      OBVIOUS
    <2>3. p \in S /\ \A x \in S : x # p => Better(side, p, x)
      BY <1>2, <2>1, <2>2, BestPriceFacts
    <2>4. BestIn(levels, S, side)
            = [price |-> p, quantity |-> Find(levels, p).total_quantity % QUANTITY_RANGE]
      BY <1>2, <2>2 DEF BestIn
    <2> QED
      BY <1>2, <2>3, <2>4 DEF BestOf
  <1> QED
    BY <1>1, <1>2

\* The quantity resting at price p of a side fell by v, and the level went when nothing was left.
Shrunk(levels, prices, lv, ps, side, p, v) ==
    /\ PricesOK(levels, prices) /\ PricesOK(lv, ps) /\ LevelsElsewhere(levels, lv, p)
    /\ PricesBut(prices, ps, p, side) /\ p \in prices[side]
    /\ Find(levels, p).total_quantity \in Nat
    /\ p \in ps[side] => Find(lv, p).total_quantity = Find(levels, p).total_quantity - v
    /\ p \notin ps[side] => Find(levels, p).total_quantity = v

\* update_bbo_reduce makes the cached BBO right again.
LEMMA BestReduce ==
    ASSUME NEW levels, NEW prices, NEW lv, NEW ps, NEW side \in Sides, NEW p,
           NEW v \in 1 .. QUANTITY_RANGE - 1, Shrunk(levels, prices, lv, ps, side, p, v),
           NEW best, BestOf(levels, prices[side], side, best),
           NEW S, S = ps[side], NEW new, Reduced(lv, S, best, side, p, v, new)
    PROVE  BestOf(lv, S, side, new)
  <1>1. /\ PricesOK(levels, prices) /\ PricesOK(lv, ps) /\ LevelsElsewhere(levels, lv, p)
        /\ p \in prices[side] /\ \A x : x # p => (x \in S <=> x \in prices[side])
    BY DEF Shrunk, PricesBut
  <1>2. PICK T \in Nat : /\ T = Find(levels, p).total_quantity
                         /\ p \in S => Find(lv, p).total_quantity = T - v
                         /\ p \notin S => T = v
    BY DEF Shrunk
  <1>3. /\ best = [price |-> best.price, quantity |-> best.quantity]
        /\ best.price \in prices[side] /\ best.price \in Int
        /\ best.quantity = Find(levels, best.price).total_quantity % QUANTITY_RANGE
        /\ \A x \in prices[side] : x # best.price => Better(side, best.price, x)
    BY <1>1, BestFacts
  <1>4. QUANTITY_RANGE \in Nat \ {0} /\ v \in Int /\ -v \in Int /\ v \in 0 .. QUANTITY_RANGE - 1
    BY PoolAssumption
  <1>5. CASE p = best.price /\ v = best.quantity
    <2>1. new = BestIn(lv, S, side)
      BY <1>5 DEF Reduced
    <2> QED
      BY <2>1, <1>1, BestInFacts
  <1>6. CASE p = best.price /\ v # best.quantity
    <2>1. p \in S
      <3>1. T = v => T % QUANTITY_RANGE = v
        BY <1>4, ModFacts
      <3> QED
        BY <3>1, <1>2, <1>3, <1>6
    <2>2. new = [price |-> p, quantity |-> (best.quantity - v) % QUANTITY_RANGE]
      BY <1>6 DEF Reduced
    <2>3. best.quantity = T % QUANTITY_RANGE
      BY <1>2, <1>3, <1>6
    <2>4. (best.quantity - v) % QUANTITY_RANGE = (T - v) % QUANTITY_RANGE
      <3>1. PICK t \in Int, w \in Int : t = T % QUANTITY_RANGE /\ w = -v
        BY <1>4
      <3>2. ((T % QUANTITY_RANGE) + w) % QUANTITY_RANGE = (T + w) % QUANTITY_RANGE
        <4>1. T \in Int /\ w \in Int /\ QUANTITY_RANGE \in Nat \ {0}
          BY <3>1, <1>4
        <4> QED
          BY ONLY <4>1, ModFacts, ZenonT(40)
      <3>3. t - v = t + w /\ T - v = T + w
        BY <3>1
      <3> QED
        BY <3>1, <3>2, <3>3, <2>3
    <2>5. \A x \in S : x # p => Better(side, p, x)
      BY <1>1, <1>3, <1>6
    <2>6. new = [price |-> p, quantity |-> Find(lv, p).total_quantity % QUANTITY_RANGE]
      BY <2>1, <2>2, <2>4, <1>2
    <2> QED
      BY <2>1, <2>5, <2>6 DEF BestOf
  <1>7. CASE p # best.price
    <2>1. new = best /\ best.price \in S
      BY <1>1, <1>3, <1>7 DEF Reduced
    <2>2. Has(levels, best.price)
      BY <1>1, <1>3, PriceFacts
    <2>3. Find(lv, best.price) = Find(levels, best.price)
      BY <2>2, <1>1, <1>3, <1>7 DEF LevelsElsewhere
    <2>4. \A x \in S : x # best.price => Better(side, best.price, x)
      <3>1. Better(side, best.price, p)
        BY <1>1, <1>3, <1>7
      <3> QED
        BY <3>1, <1>1, <1>3
    <2> QED
      BY <2>1, <2>3, <2>4, <1>3 DEF BestOf
  <1> QED
    BY <1>5, <1>6, <1>7

\* update_bbo_reduce touches the best price of the order's side only.
LEMMA ReduceFields ==
    ASSUME NEW u, Shape(u), u.bbo = [s \in Sides |-> u.bbo[s]], NEW o, NEW side \in Sides, side = o.side,
           NEW best, best = u.bbo[side], best = [price |-> best.price, quantity |-> best.quantity],
           NEW x, x = update_bbo_reduce(u, o).book
    PROVE  \E new : /\ Reduced(u.levels, u.prices[side], best, side, o.price, o.quantity, new)
                    /\ WithBest(x, u, side, new) \/ (x = u /\ new = best)
  <1>1. CASE o.price = best.price /\ o.quantity = best.quantity
    <2>1. BestFromLevels(u, side) = BestIn(u.levels, u.prices[side], side)
      BY DEF BestFromLevels, BestIn, Level
    <2>2. PICK new : new = BestFromLevels(u, side)
      OBVIOUS
    <2>3. PICK y : y = [u EXCEPT !.bbo[side] = new]
      OBVIOUS
    <2>4. update_bbo_reduce(u, o) = Result(y, NewBest(side))
      BY <1>1, <2>2, <2>3 DEF update_bbo_reduce
    <2> QED
      BY <1>1, <2>1, <2>2, <2>3, <2>4 DEF Result, WithBest, Reduced
  <1>2. CASE o.price = best.price /\ o.quantity # best.quantity
    <2>1. PICK new : new = [price |-> best.price, quantity |-> (best.quantity - o.quantity) % QUANTITY_RANGE]
      OBVIOUS
    <2>2. new = [best EXCEPT !.quantity = (@ - o.quantity) % QUANTITY_RANGE]
      BY <2>1
    <2>3. PICK y : y = [u EXCEPT !.bbo[side].quantity = (@ - o.quantity) % QUANTITY_RANGE]
      OBVIOUS
    <2>4. update_bbo_reduce(u, o) = Result(y, NewBest(side))
      BY <1>2, <2>3 DEF update_bbo_reduce
    <2>5. y = [u EXCEPT !.bbo[side] = [u.bbo[side] EXCEPT !.quantity = (@ - o.quantity) % QUANTITY_RANGE]]
      BY <2>3
    <2>6. y = [u EXCEPT !.bbo[side] = new]
      BY <2>2, <2>5
    <2> QED
      <3>1. x = y
        BY <2>4 DEF Result
      <3>2. WithBest(x, u, side, new)
        BY <3>1, <2>6 DEF WithBest
      <3>3. Reduced(u.levels, u.prices[side], best, side, o.price, o.quantity, new)
        BY <1>2, <2>1 DEF Reduced
      <3> QED
        BY <3>2, <3>3
  <1>3. CASE o.price # best.price
    <2>1. update_bbo_reduce(u, o) = Result(u, "NoChange")
      BY <1>3 DEF update_bbo_reduce
    <2> QED
      BY <1>3, <2>1, SMTT(60) DEF Result, Reduced
  <1> QED
    BY <1>1, <1>2, <1>3

\* Entry i holds order o with links r, at place k of queue s of a level.
Located(b, q, i, o, side, p, s, k, level, total) ==
    /\ i \in Index /\ b.pool[i] \in Entries /\ b.pool[i] # NoOrder /\ o = b.pool[i].order /\ o \in Orders
    /\ side = o.side /\ side \in Sides /\ p = o.price /\ p \in Prices /\ p \in Int
    /\ p \in b.prices[side] /\ Has(b.levels, p)
    /\ s = q[p] /\ k \in 1 .. Len(s) /\ s[k] = i
    /\ level = Find(b.levels, p) /\ total = level.total_quantity /\ total \in Nat \ {0}
    /\ Queue(b.pool, s, p, side, total)
    /\ level = [head |-> s[1], tail |-> s[Len(s)], total_quantity |-> total]

\* An order in the map is found in its queue.
LEMMA OrderFacts ==
    ASSUME NEW b, NEW q, CoreOf(b, q), NEW id \in Int, Has(b.orders, id), NEW i, i = Find(b.orders, id)
    PROVE  /\ b.pool[i].order.order_id = id
           /\ \E o, side, p, s, k, level, total : Located(b, q, i, o, side, p, s, k, level, total)
  <1>1. /\ OrdersOK(b.pool, b.orders) /\ PricesOK(b.levels, b.prices)
        /\ QueuesOK(b.pool, b.levels, b.prices, q) /\ CoverOK(b.pool, b.prices, q)
    BY DEF CoreOf, Core
  <1>2. i \in Index /\ b.pool[i] \in Entries /\ b.pool[i].order.order_id = id
    BY <1>1 DEF OrdersOK
  <1>3. PICK o \in Orders : o = b.pool[i].order /\ b.pool[i] # NoOrder
    BY <1>2, NoOrderFacts
  <1>4. PICK side \in Sides, p \in Prices : side = o.side /\ p = o.price
    BY NoOrderFacts
  <1>5. Queued(b.pool[i], i, b.prices, q)
    BY <1>1, <1>2, <1>3 DEF CoverOK
  <1>6. p \in b.prices[side] /\ \E k \in 1 .. Len(q[p]) : q[p][k] = i
    BY <1>3, <1>4, <1>5, Zenon DEF Queued
  <1>7. p \in Int /\ Has(b.levels, p)
    BY <1>1, <1>6, PriceFacts
  <1>8. PICK s, level, total :
              /\ s = q[p] /\ level = Find(b.levels, p) /\ total = level.total_quantity
              /\ total \in Nat \ {0} /\ Queue(b.pool, s, p, side, total)
              /\ level = [head |-> s[1], tail |-> s[Len(s)], total_quantity |-> total]
    BY ONLY <1>1, <1>6, side \in Sides, LevelFacts
  <1>9. PICK k \in 1 .. Len(s) : s[k] = i
    BY <1>6, <1>8
  <1>10. Located(b, q, i, o, side, p, s, k, level, total)
    BY <1>2, <1>3, <1>4, <1>6, <1>7, <1>8, <1>9, Zenon DEF Located
  <1> QED
    BY <1>2, <1>10

\* Entry i keeps its place with quantity w.
Resized(pool, new, i, w) == new = [pool EXCEPT ![i].order.quantity = w]

\* The entry keeps its links and its identity.
LEMMA ResizedFacts ==
    ASSUME NEW pool, PoolOK(pool), NEW i \in Index, pool[i] \in Entries,
           NEW w \in 1 .. QUANTITY_RANGE - 1, NEW new, Resized(pool, new, i, w)
    PROVE  /\ PoolOK(new) /\ new[i] \in Entries /\ SameBut(new[i], pool[i], w)
           /\ new[i].order.order_id = pool[i].order.order_id
           /\ new[i].order.price = pool[i].order.price /\ new[i].order.side = pool[i].order.side
           /\ \A j \in Index : j # i => new[j] = pool[j]
  <1>1. PICK r \in Entries : r = pool[i]
    OBVIOUS
  <1>2. r.order \in Orders /\ r = [order |-> r.order, previous |-> r.previous, next |-> r.next]
    BY DEF Entries
  <1>3. PICK o \in Orders : o = [r.order EXCEPT !.quantity = w]
    BY <1>2 DEF Orders
  <1>4. /\ o.price = r.order.price /\ o.side = r.order.side /\ o.quantity = w
        /\ o.order_id = r.order.order_id
    BY <1>2, <1>3 DEF Orders
  <1>5. PICK e : e = [r EXCEPT !.order = o]
    OBVIOUS
  <1>6. e \in Entries /\ e.order = o
    BY <1>2, <1>5 DEF Entries
  <1>7. e = [pool[i] EXCEPT !.order.quantity = w]
    BY <1>1, <1>2, <1>3, <1>5
  <1>8. Written(new, pool, i, e)
    <2>1. [pool EXCEPT ![i].order.quantity = w]
            = [pool EXCEPT ![i] = [pool[i] EXCEPT !.order.quantity = w]]
      OBVIOUS
    <2> QED
      BY <2>1, <1>7 DEF Resized, Written
  <1>9. PoolOK(new) /\ new[i] = e /\ \A j \in Index : j # i => new[j] = pool[j]
    BY <1>6, <1>8, PoolWritten
  <1> QED
    BY <1>1, <1>4, <1>6, <1>7, <1>9 DEF SameBut

\* Level p has total t and is the same otherwise.
Relevelled(lv, levels, p, level, t) == lv = Assign(levels, p, [level EXCEPT !.total_quantity = t])

\* The level keeps its ends.
LEMMA RelevelledFacts ==
    ASSUME NEW levels, MapOK(levels, LEVEL_SLOTS), NEW p \in Int, Has(levels, p), NEW level,
           NEW h, NEW l, NEW total, level = [head |-> h, tail |-> l, total_quantity |-> total],
           NEW t, NEW lv, Relevelled(lv, levels, p, level, t)
    PROVE  /\ MapOK(lv, LEVEL_SLOTS) /\ Has(lv, p) /\ LevelsElsewhere(levels, lv, p)
           /\ Find(lv, p) = [head |-> h, tail |-> l, total_quantity |-> t]
  <1>1. PICK new : new = [level EXCEPT !.total_quantity = t]
    OBVIOUS
  <1>2. new = [head |-> h, tail |-> l, total_quantity |-> t]
    BY <1>1
  <1>3. lv = Assign(levels, p, new)
    BY <1>1 DEF Relevelled
  <1>4. /\ MapOK(lv, LEVEL_SLOTS) /\ Find(lv, p) = new
        /\ \A k \in Int : /\ Has(lv, k) <=> Has(levels, k)
                          /\ k # p /\ Has(levels, k) => Find(lv, k) = Find(levels, k)
    BY <1>3, AssignFacts
  <1> QED
    BY <1>2, <1>4 DEF LevelsElsewhere

\* The prices when no level comes or goes.
LEMMA PricesSame ==
    ASSUME NEW levels, NEW prices, PricesOK(levels, prices), NEW side \in Sides, NEW p \in prices[side],
           NEW lv, MapOK(lv, LEVEL_SLOTS), Has(lv, p), LevelsElsewhere(levels, lv, p)
    PROVE  PricesOK(lv, prices) /\ PricesBut(prices, prices, p, side)
  <1>1. Has(levels, p) /\ p \in Int /\ \A other \in Sides : p \in prices[other] => other = side
    BY PriceFacts
  <1> QED
    BY <1>1 DEF PricesOK, PricesBut, LevelsElsewhere

\* The order of entry i changes its quantity to w where it stands.
LEMMA ResizeCore ==
    ASSUME NEW b, NEW q, CoreOf(b, q), NEW i, NEW o, NEW side, NEW p, NEW s, NEW k, NEW level, NEW total,
           Located(b, q, i, o, side, p, s, k, level, total), NEW w \in 1 .. QUANTITY_RANGE - 1,
           NEW new, Resized(b.pool, new, i, w), NEW t, t = total - o.quantity + w,
           NEW lv, Relevelled(lv, b.levels, p, level, t)
    PROVE  /\ Core(new, b.free, lv, b.orders, b.prices, q)
           /\ PricesOK(lv, b.prices) /\ PricesBut(b.prices, b.prices, p, side)
           /\ LevelsElsewhere(b.levels, lv, p) /\ Find(lv, p).total_quantity = t
  <1>0. PICK pool, levels, prices : pool = b.pool /\ levels = b.levels /\ prices = b.prices
    OBVIOUS
  <1>1. /\ PoolOK(pool) /\ FreeOK(pool, b.free) /\ OrdersOK(pool, b.orders) /\ PricesOK(levels, prices)
        /\ QueuesOK(pool, levels, prices, q) /\ CoverOK(pool, prices, q)
    BY <1>0 DEF CoreOf, Core
  <1>2. /\ i \in Index /\ pool[i] \in Entries /\ pool[i] # NoOrder /\ o = pool[i].order
        /\ side = o.side /\ side \in Sides /\ p = o.price /\ p \in Prices /\ p \in Int
        /\ p \in prices[side] /\ Has(levels, p) /\ s = q[p] /\ k \in 1 .. Len(s) /\ s[k] = i
        /\ Queue(pool, s, p, side, total)
        /\ level = [head |-> s[1], tail |-> s[Len(s)], total_quantity |-> total]
    BY <1>0, Zenon DEF Located
  <1>3. /\ PoolOK(new) /\ new[i] \in Entries /\ SameBut(new[i], pool[i], w)
        /\ new[i].order.order_id = pool[i].order.order_id
        /\ new[i].order.price = pool[i].order.price /\ new[i].order.side = pool[i].order.side
        /\ \A j \in Index : j # i => new[j] = pool[j]
    <2>1. PoolOK(pool) /\ i \in Index /\ pool[i] \in Entries /\ Resized(pool, new, i, w)
      BY <1>0, <1>1, <1>2, Zenon
    <2> QED
      BY ONLY <2>1, w \in 1 .. QUANTITY_RANGE - 1, ResizedFacts
  <1>4. Kept(pool, new, NULL) /\ Elsewhere(pool, new, p)
    <2>1. ASSUME NEW j \in Index
          PROVE  /\ new[j] = NoOrder <=> pool[j] = NoOrder
                 /\ pool[j] # NoOrder =>
                       /\ new[j] \in Entries
                       /\ new[j].order.order_id = pool[j].order.order_id
                       /\ new[j].order.price = pool[j].order.price
                       /\ new[j].order.side = pool[j].order.side
                 /\ pool[j] # NoOrder /\ pool[j].order.price # p => new[j] = pool[j]
      <3>1. CASE j = i
        BY ONLY <3>1, <1>2, <1>3, NoOrderFacts
      <3>2. CASE j # i
        BY <3>2, <1>1, <1>3, PoolEntry
      <3> QED
        BY ONLY <3>1, <3>2, SMTT(30)
    <2> QED
      BY <2>1 DEF Kept, Elsewhere
  <1>5. OrdersOK(new, b.orders)
    BY <1>1, <1>4, OrdersKept
  <1>6. FreeOK(new, b.free)
    <2>1. \A j \in Index : new[j] = NoOrder <=> pool[j] = NoOrder
      BY <1>4, IndexFacts DEF Kept
    <2> QED
      BY <2>1, <1>1 DEF FreeOK
  <1>7. /\ MapOK(lv, LEVEL_SLOTS) /\ Has(lv, p) /\ LevelsElsewhere(levels, lv, p)
        /\ Find(lv, p) = [head |-> s[1], tail |-> s[Len(s)], total_quantity |-> t]
    <2>1. MapOK(levels, LEVEL_SLOTS) /\ Relevelled(lv, levels, p, level, t)
      BY ONLY <1>0, <1>1, Relevelled(lv, b.levels, p, level, t) DEF PricesOK
    <2>2. p \in Int /\ Has(levels, p)
      BY ONLY <1>2, SMTT(30)
    <2>3. level = [head |-> s[1], tail |-> s[Len(s)], total_quantity |-> total]
      BY ONLY <1>2
    <2> QED
      BY <2>1, <2>2, <2>3, RelevelledFacts
  <1>8. PricesOK(lv, prices) /\ PricesBut(prices, prices, p, side)
    BY ONLY <1>1, <1>2, <1>7, PricesSame
  <1>9. LevelOK(new, Find(lv, p), s, p, side)
    <2>1. /\ SameBut(new[s[k]], pool[s[k]], w)
          /\ \A n \in 1 .. Len(s) : n # k => new[s[n]] = pool[s[n]]
      <3>1. Distinct(s) /\ \A n \in 1 .. Len(s) : s[n] \in Index
        BY ONLY <1>2, QueueFacts, SMTT(30)
      <3>2. ASSUME NEW n \in 1 .. Len(s), n # k PROVE new[s[n]] = pool[s[n]]
        <4>1. s[n] # s[k] /\ s[n] \in Index
          BY <3>1, <3>2, <1>2 DEF Distinct
        <4> QED
          BY ONLY <4>1, <1>2, <1>3, SMTT(30)
      <3> QED
        BY <3>2, <1>2, <1>3, ZenonT(40)
    <2>2. o.quantity = pool[s[k]].order.quantity
      BY ONLY <1>2
    <2>3. Queue(new, s, p, side, total - o.quantity + w)
      <3>1. Queue(pool, s, p, side, total) /\ k \in 1 .. Len(s)
        BY ONLY <1>2, SMTT(30)
      <3> QED
        BY ONLY <3>1, <2>1, <2>2, w \in 1 .. QUANTITY_RANGE - 1, QueueQuantity, SMTT(30)
    <2> QED
      BY <2>3, <1>7 DEF LevelOK
  <1>10. QueuesOK(new, lv, prices, q)
    <2>1. Requeued(q, q, p, s)
      BY <1>1, <1>2, Zenon DEF QueuesOK, Requeued
    <2>2. p \in prices[side] => LevelOK(new, Find(lv, p), s, p, side)
      BY <1>9
    <2>3. /\ QueuesOK(pool, levels, prices, q) /\ PricesOK(levels, prices) /\ side \in Sides /\ p \in Prices
          /\ Elsewhere(pool, new, p) /\ LevelsElsewhere(levels, lv, p) /\ PricesBut(prices, prices, p, side)
      BY ONLY <1>1, <1>2, <1>4, <1>7, <1>8, Zenon
    <2> QED
      BY ONLY <2>1, <2>2, <2>3, QueuesWith, SMTT(30)
  <1>11. CoverOK(new, prices, q)
    <2>1. ASSUME NEW j \in Index, new[j] # NoOrder PROVE Queued(new[j], j, prices, q)
      <3>1. /\ pool[j] # NoOrder /\ new[j].order.price = pool[j].order.price
            /\ new[j].order.side = pool[j].order.side
        BY <2>1, <1>4, IndexFacts DEF Kept
      <3> QED
        BY <3>1, <1>1 DEF CoverOK, Queued
    <2> QED
      BY <2>1 DEF CoverOK
  <1> QED
    BY <1>0, <1>3, <1>5, <1>6, <1>7, <1>8, <1>10, <1>11 DEF Core

\* u is b after Shrink took d from level p.
Shrinking(u, b, p, level, total, d) ==
    /\ Shape(b) /\ level = Find(b.levels, p) /\ u = Shrink(b, p, d)
    /\ \E h, l : level = [head |-> h, tail |-> l, total_quantity |-> total]

\* Only the level changes.
LEMMA ShrinkFields ==
    ASSUME NEW b, NEW p, NEW level, NEW total, NEW d, NEW u, Shrinking(u, b, p, level, total, d)
    PROVE  /\ Shape(u) /\ u.pool = b.pool /\ u.free = b.free /\ u.orders = b.orders
           /\ u.prices = b.prices /\ u.bbo = b.bbo
           /\ Relevelled(u.levels, b.levels, p, level, total - d)
  <1>0. PICK h, l : /\ Shape(b) /\ level = Find(b.levels, p) /\ u = Shrink(b, p, d)
                    /\ level = [head |-> h, tail |-> l, total_quantity |-> total]
    BY DEF Shrinking
  <1>1. PICK p0, f0, l0, o0, s0, q0 :
           /\ p0 = b.pool /\ f0 = b.free /\ l0 = b.levels /\ o0 = b.orders
           /\ s0 = b.prices /\ q0 = b.bbo
    OBVIOUS
  <1>2. b = [pool |-> p0, free |-> f0, levels |-> l0, orders |-> o0, prices |-> s0, bbo |-> q0]
    BY <1>0, <1>1 DEF Shape
  <1>3. PICK new : new = [level EXCEPT !.total_quantity = @ - d]
    OBVIOUS
  <1>4. new = [level EXCEPT !.total_quantity = total - d]
    BY <1>0, <1>3
  <1>5. PICK l1 : l1 = Assign(l0, p, new)
    OBVIOUS
  <1>6. u = [b EXCEPT !.levels = l1]
    BY <1>0, <1>1, <1>3, <1>5 DEF Shrink, Level
  <1>7. u = [pool |-> p0, free |-> f0, levels |-> l1, orders |-> o0, prices |-> s0, bbo |-> q0]
    BY ONLY <1>2, <1>6
  <1> QED
    BY <1>0, <1>1, <1>4, <1>5, <1>7 DEF Shape, Relevelled

\* Only the entry changes.
LEMMA QuantityFields ==
    ASSUME NEW c, Shape(c), NEW update, NEW i, NEW w, NEW y, y = WithQuantity(Result(c, update), i, w).book
    PROVE  /\ Shape(y) /\ Resized(c.pool, y.pool, i, w) /\ y.free = c.free /\ y.orders = c.orders
           /\ y.levels = c.levels /\ y.prices = c.prices /\ y.bbo = c.bbo
  <1>1. PICK p0, f0, l0, o0, s0, q0 :
           /\ p0 = c.pool /\ f0 = c.free /\ l0 = c.levels /\ o0 = c.orders
           /\ s0 = c.prices /\ q0 = c.bbo
    OBVIOUS
  <1>2. c = [pool |-> p0, free |-> f0, levels |-> l0, orders |-> o0, prices |-> s0, bbo |-> q0]
    BY <1>1 DEF Shape
  <1>3. PICK p1 : p1 = [p0 EXCEPT ![i].order.quantity = w]
    OBVIOUS
  <1>4. y = [c EXCEPT !.pool[i].order.quantity = w]
    BY DEF WithQuantity, Result
  <1>5. [c EXCEPT !.pool[i].order.quantity = w] = [c EXCEPT !.pool = [c.pool EXCEPT ![i].order.quantity = w]]
    OBVIOUS
  <1>6. y = [c EXCEPT !.pool = p1]
    BY <1>1, <1>3, <1>4, <1>5
  <1>7. y = [pool |-> p1, free |-> f0, levels |-> l0, orders |-> o0, prices |-> s0, bbo |-> q0]
    BY ONLY <1>2, <1>6
  <1> QED
    BY <1>1, <1>3, <1>7 DEF Shape, Resized

\* The best price of a side when another of its levels changes.
LEMMA BestAway ==
    ASSUME NEW levels, NEW prices, PricesOK(levels, prices), NEW side \in Sides, NEW p \in prices[side],
           NEW lv, LevelsElsewhere(levels, lv, p), NEW best, BestOf(levels, prices[side], side, best),
           best.price # p
    PROVE  BestOf(lv, prices[side], side, best)
  <1>1. /\ best = [price |-> best.price, quantity |-> best.quantity]
        /\ best.price \in prices[side] /\ best.price \in Int
        /\ best.quantity = Find(levels, best.price).total_quantity % QUANTITY_RANGE
        /\ \A x \in prices[side] : x # best.price => Better(side, best.price, x)
    BY BestFacts
  <1>2. Has(levels, best.price)
    BY <1>1, PriceFacts
  <1>3. Find(lv, best.price) = Find(levels, best.price)
    BY <1>1, <1>2 DEF LevelsElsewhere
  <1> QED
    BY <1>1, <1>3 DEF BestOf

\* Every order is worse than the best price or at it.
LEMMA NotBetter ==
    ASSUME NEW levels, NEW prices, PricesOK(levels, prices), NEW side \in Sides, NEW p \in prices[side],
           NEW best, BestOf(levels, prices[side], side, best)
    PROVE  ~Better(side, p, best.price)
  <1>1. /\ best.price \in prices[side] /\ best.price \in Int
        /\ \A x \in prices[side] : x # best.price => Better(side, best.price, x)
    BY BestFacts
  <1>2. p \in Int
    BY PriceFacts
  <1> QED
    BY <1>1, <1>2, BetterFacts

\* A book put together from a core and its best prices.
LEMMA RepFromFields ==
    ASSUME NEW y, Shape(y), NEW q, NEW pool, NEW free, NEW lv, NEW orders, NEW ps,
           Core(pool, free, lv, orders, ps, q), y.pool = pool, y.free = free, y.levels = lv,
           y.orders = orders, y.prices = ps, y.bbo = [s \in Sides |-> y.bbo[s]],
           \A s \in Sides : BestOf(lv, ps[s], s, y.bbo[s])
    PROVE  Rep(y, q)
  BY DEF Rep, Core, BestOK

\* c is u with the best price of a side that update_bbo_reduce finds, or one that need not change.
Rewritten(b, u, c, side, p, d, new) ==
    /\ WithBest(c, u, side, new) \/ (c = u /\ new = u.bbo[side])
    /\ \/ /\ d \in 1 .. QUANTITY_RANGE - 1
          /\ Reduced(u.levels, u.prices[side], b.bbo[side], side, p, d, new)
       \/ b.bbo[side].price # p /\ new = b.bbo[side]

\* c is b with another quantity in entry i, the cached best prices aside.
Restated(b, c, i, w) == c.prices = b.prices /\ Resized(b.pool, c.pool, i, w)

\* A quantity that changes where it stands, however the best price of its side is rewritten.
LEMMA ResizeRep ==
    ASSUME NEW b, NEW q, Rep(b, q), NEW i, NEW o, NEW side, NEW p, NEW s, NEW k, NEW level, NEW total,
           Located(b, q, i, o, side, p, s, k, level, total),
           NEW d \in Int, NEW w \in 1 .. QUANTITY_RANGE - 1, w = o.quantity - d,
           NEW u, u = Shrink(b, p, d), NEW c, NEW new, Rewritten(b, u, c, side, p, d, new),
           NEW update, NEW y, y = WithQuantity(Result(c, update), i, w).book
    PROVE  Rep(y, q) /\ y.free = b.free /\ y.orders = b.orders /\ Restated(b, y, i, w)
  <1>1. /\ i \in Index /\ o \in Orders /\ side \in Sides /\ p \in Int /\ p \in b.prices[side]
        /\ level = Find(b.levels, p) /\ total \in Nat
        /\ level = [head |-> s[1], tail |-> s[Len(s)], total_quantity |-> total]
    BY ZenonT(30) DEF Located
  <1>2. /\ CoreOf(b, q) /\ Shape(b) /\ PricesOK(b.levels, b.prices)
        /\ b.bbo = [x \in Sides |-> b.bbo[x]]
        /\ \A x \in Sides : BestOf(b.levels, b.prices[x], x, b.bbo[x])
    BY RepFacts
  <1>3. /\ Shape(u) /\ u.pool = b.pool /\ u.free = b.free /\ u.orders = b.orders
        /\ u.prices = b.prices /\ u.bbo = b.bbo
        /\ Relevelled(u.levels, b.levels, p, level, total - d)
    <2>1. PICK h, l : h = s[1] /\ l = s[Len(s)]
      OBVIOUS
    <2>2. level = [head |-> h, tail |-> l, total_quantity |-> total]
      BY <2>1, <1>1
    <2>3. Shrinking(u, b, p, level, total, d)
      BY <2>2, <1>1, <1>2 DEF Shrinking
    <2> QED
      BY ONLY <2>3, ShrinkFields
  <1>4. /\ Shape(c) /\ c.pool = u.pool /\ c.free = u.free /\ c.levels = u.levels
        /\ c.orders = u.orders /\ c.prices = u.prices
        /\ c.bbo = [x \in Sides |-> c.bbo[x]]
        /\ c.bbo[side] = new /\ \A x \in Sides : x # side => c.bbo[x] = u.bbo[x]
    <2>1. u.bbo = [x \in Sides |-> u.bbo[x]]
      BY <1>2, <1>3
    <2>2. CASE WithBest(c, u, side, new)
      BY ONLY <2>1, <2>2, <1>1, <1>3, BestWritten
    <2>3. CASE c = u /\ new = u.bbo[side]
      BY <2>1, <2>3, <1>3
    <2> QED
      BY <2>2, <2>3 DEF Rewritten
  <1>5. /\ Shape(y) /\ Resized(c.pool, y.pool, i, w) /\ y.free = c.free /\ y.orders = c.orders
        /\ y.levels = c.levels /\ y.prices = c.prices /\ y.bbo = c.bbo
    BY <1>4, QuantityFields
  <1>6. PICK lv, pool1, t : /\ lv = u.levels /\ pool1 = y.pool /\ t = total - d
                            /\ Resized(b.pool, pool1, i, w) /\ Relevelled(lv, b.levels, p, level, t)
    BY <1>3, <1>4, <1>5
  <1>7. t = total - o.quantity + w
    <2>1. o.quantity \in Int
      BY <1>1, NoOrderFacts
    <2> QED
      BY <2>1, <1>1, <1>6
  <1>8. /\ Core(pool1, b.free, lv, b.orders, b.prices, q)
        /\ PricesOK(lv, b.prices) /\ PricesBut(b.prices, b.prices, p, side)
        /\ LevelsElsewhere(b.levels, lv, p) /\ Find(lv, p).total_quantity = t
    BY <1>2, <1>6, <1>7, ResizeCore
  <1>9. ASSUME NEW x \in Sides PROVE BestOf(lv, b.prices[x], x, y.bbo[x])
    <2>1. CASE x # side
      <3>1. y.bbo[x] = b.bbo[x] /\ p \notin b.prices[x]
        BY <2>1, <1>1, <1>2, <1>3, <1>4, <1>5, PriceFacts
      <3> QED
        BY ONLY <3>1, <1>2, <1>8, x \in Sides, BestElsewhere
    <2>2. CASE x = side
      <3>1. y.bbo[x] = new /\ BestOf(b.levels, b.prices[side], side, b.bbo[side])
        BY <2>2, <1>1, <1>2, <1>4, <1>5
      <3>2. CASE b.bbo[side].price # p /\ new = b.bbo[side]
        <4>1. PICK best : best = b.bbo[side]
          OBVIOUS
        <4>2. BestOf(lv, b.prices[side], side, best)
          BY ONLY <4>1, <3>1, <3>2, <1>1, <1>2, <1>8, BestAway
        <4> QED
          BY <4>1, <4>2, <3>1, <3>2, <2>2
      <3>3. CASE d \in 1 .. QUANTITY_RANGE - 1 /\ Reduced(u.levels, u.prices[side], b.bbo[side], side, p, d, new)
        <4>1. Find(b.levels, p).total_quantity = total
          BY <1>1
        <4>2. Shrunk(b.levels, b.prices, lv, b.prices, side, p, d)
          BY <4>1, <1>1, <1>2, <1>6, <1>8 DEF Shrunk
        <4>3. PICK best, S : best = b.bbo[side] /\ S = b.prices[side]
          OBVIOUS
        <4>4. Reduced(lv, S, best, side, p, d, new)
          BY <4>3, <3>3, <1>3, <1>6
        <4>5. BestOf(b.levels, b.prices[side], side, best)
          BY <4>3, <3>1
        <4>6. BestOf(lv, S, side, new)
          <5>1. PICK levels, prices : levels = b.levels /\ prices = b.prices
            OBVIOUS
          <5>2. /\ d \in 1 .. QUANTITY_RANGE - 1 /\ side \in Sides
                /\ Shrunk(levels, prices, lv, prices, side, p, d)
                /\ BestOf(levels, prices[side], side, best) /\ S = prices[side]
            BY <5>1, <4>2, <4>3, <4>5, <3>3, <1>1
          <5> QED
            BY ONLY <5>2, <4>4, BestReduce
        <4> QED
          BY <4>3, <4>6, <3>1, <2>2
      <3> QED
        BY <3>2, <3>3 DEF Rewritten
    <2> QED
      BY <2>1, <2>2
  <1>10. /\ y.pool = pool1 /\ y.free = b.free /\ y.levels = lv /\ y.orders = b.orders
         /\ y.prices = b.prices /\ y.bbo = [x \in Sides |-> y.bbo[x]] /\ Shape(y)
    BY <1>3, <1>4, <1>5, <1>6
  <1>11. Rep(y, q)
    BY ONLY <1>8, <1>9, <1>10, RepFromFields
  <1>12. Restated(b, y, i, w)
    BY <1>6, <1>10 DEF Restated
  <1> QED
    BY ONLY <1>10, <1>11, <1>12

\* The order a quantity is reported with.
LEMMA DeltaFacts ==
    ASSUME NEW o \in Orders, NEW d, NEW o1, o1 = [o EXCEPT !.quantity = d]
    PROVE  o1.side = o.side /\ o1.price = o.price /\ o1.quantity = d
  <1>1. o = [order_id |-> o.order_id, price |-> o.price, quantity |-> o.quantity, side |-> o.side]
    BY NoOrderFacts
  <1> QED
    BY <1>1

\* An operation on the BBO returns a book and an update.
LEMMA ResultFacts ==
    ASSUME NEW b, NEW o
    PROVE  /\ update_bbo_reduce(b, o) = Result(update_bbo_reduce(b, o).book, update_bbo_reduce(b, o).update)
           /\ update_bbo_add(b, o) = Result(update_bbo_add(b, o).book, update_bbo_add(b, o).update)
  <1>1. ASSUME NEW c, NEW v PROVE Result(c, v) = Result(Result(c, v).book, Result(c, v).update)
    BY DEF Result
  <1>2. \E c, v : update_bbo_reduce(b, o) = Result(c, v)
    <2>1. CASE o.price = b.bbo[o.side].price /\ o.quantity = b.bbo[o.side].quantity
      BY <2>1 DEF update_bbo_reduce
    <2>2. CASE o.price = b.bbo[o.side].price /\ o.quantity # b.bbo[o.side].quantity
      BY <2>2 DEF update_bbo_reduce
    <2>3. CASE o.price # b.bbo[o.side].price
      BY <2>3 DEF update_bbo_reduce
    <2> QED
      BY <2>1, <2>2, <2>3
  <1>3. \E c, v : update_bbo_add(b, o) = Result(c, v)
    BY DEF update_bbo_add
  <1> QED
    BY <1>1, <1>2, <1>3

\* A trade that leaves something of the resting order.
LEMMA TradePartial ==
    ASSUME NEW b, NEW q, Rep(b, q), NEW id \in Int, Has(b.orders, id), NEW v \in Nat \ {0},
           v < b.pool[Find(b.orders, id)].order.quantity
    PROVE  /\ Rep(trade(b, id, v).book, q)
           /\ trade(b, id, v).book.free = b.free /\ trade(b, id, v).book.orders = b.orders
           /\ LET i == Find(b.orders, id)
              IN  Restated(b, trade(b, id, v).book, i, b.pool[i].order.quantity - v)
  <1>1. PICK i, o1, u, c, update :
           /\ i = Find(b.orders, id) /\ o1 = [b.pool[i].order EXCEPT !.quantity = v]
           /\ u = Shrink(b, b.pool[i].order.price, v)
           /\ c = update_bbo_reduce(u, o1).book /\ update = update_bbo_reduce(u, o1).update
    OBVIOUS
  <1>2. /\ CoreOf(b, q) /\ Shape(b) /\ PricesOK(b.levels, b.prices)
        /\ b.bbo = [x \in Sides |-> b.bbo[x]]
        /\ \A x \in Sides : BestOf(b.levels, b.prices[x], x, b.bbo[x])
    BY RepFacts
  <1>3. PICK o, side, p, s, k, level, total : Located(b, q, i, o, side, p, s, k, level, total)
    BY <1>1, <1>2, OrderFacts, SMTT(60)
  <1>4. /\ i \in Index /\ o \in Orders /\ o = b.pool[i].order /\ side = o.side /\ p = o.price /\ side \in Sides
        /\ level = Find(b.levels, p)
        /\ level = [head |-> s[1], tail |-> s[Len(s)], total_quantity |-> total]
    BY ONLY <1>3 DEF Located
  <1>5. PICK w : w = o.quantity - v
    OBVIOUS
  <1>6. w \in 1 .. QUANTITY_RANGE - 1 /\ v \in 1 .. QUANTITY_RANGE - 1 /\ v \in Int /\ o.quantity # v
    <2>1. o.quantity \in 1 .. QUANTITY_RANGE - 1 /\ QUANTITY_RANGE \in Nat
      BY ONLY <1>4, NoOrderFacts, PoolAssumption
    <2>2. v < o.quantity
      BY ONLY <1>1, <1>4, v < b.pool[Find(b.orders, id)].order.quantity
    <2> QED
      BY ONLY <2>1, <2>2, <1>5, v \in Nat \ {0}, SMTT(60)
  <1>7. o1.side = side /\ o1.price = p /\ o1.quantity = v
    BY ONLY <1>1, <1>4, DeltaFacts, SMTT(60)
  <1>8. u = Shrink(b, p, v)
    BY <1>1, <1>4
  <1>9. Shape(u) /\ u.bbo = b.bbo
    <2>1. PICK h, l : h = s[1] /\ l = s[Len(s)]
      OBVIOUS
    <2>2. level = [head |-> h, tail |-> l, total_quantity |-> total]
      BY <2>1, <1>4
    <2>3. Shrinking(u, b, p, level, total, v)
      BY <2>2, <1>2, <1>4, <1>8 DEF Shrinking
    <2> QED
      BY ONLY <2>3, ShrinkFields
  <1>10. PICK best : best = b.bbo[side] /\ best = [price |-> best.price, quantity |-> best.quantity]
    <2>1. PICK best : best = b.bbo[side]
      OBVIOUS
    <2>2. BestOf(b.levels, b.prices[side], side, best) /\ PricesOK(b.levels, b.prices) /\ side \in Sides
      BY <2>1, <1>2, <1>4
    <2>3. best = [price |-> best.price, quantity |-> best.quantity]
      BY ONLY <2>2, BestFacts
    <2> QED
      BY <2>1, <2>3
  <1>11. PICK new : /\ Reduced(u.levels, u.prices[side], best, side, p, v, new)
                    /\ WithBest(c, u, side, new) \/ (c = u /\ new = best)
    <2>1. u.bbo = [x \in Sides |-> u.bbo[x]] /\ best = u.bbo[side]
      BY <1>2, <1>9, <1>10
    <2>2. PICK new : /\ Reduced(u.levels, u.prices[side], best, side, o1.price, o1.quantity, new)
                     /\ WithBest(c, u, side, new) \/ (c = u /\ new = best)
      <3>1. /\ Shape(u) /\ side \in Sides /\ side = o1.side
            /\ best = [price |-> best.price, quantity |-> best.quantity]
            /\ c = update_bbo_reduce(u, o1).book
        BY <1>1, <1>4, <1>7, <1>9, <1>10, Zenon
      <3> QED
        BY ONLY <2>1, <3>1, ReduceFields
    <2>3. Reduced(u.levels, u.prices[side], best, side, p, v, new)
      BY <2>2, <1>7
    <2> QED
      BY ONLY <2>2, <2>3
  <1>12. trade(b, id, v) = WithQuantity(Result(c, update), i, w)
    <2>1. update_bbo_reduce(u, o1) = Result(c, update)
      BY ONLY <1>1, ResultFacts, SMTT(30)
    <2>2. trade(b, id, v) = WithQuantity(update_bbo_reduce(u, o1), i, w)
      BY <1>1, <1>4, <1>5, <1>6 DEF trade
    <2> QED
      BY ONLY <2>1, <2>2, SMTT(60)
  <1>13. PICK y : y = WithQuantity(Result(c, update), i, w).book
    OBVIOUS
  <1>14. Rewritten(b, u, c, side, p, v, new)
    BY <1>6, <1>9, <1>10, <1>11 DEF Rewritten
  <1>15. Rep(y, q) /\ y.free = b.free /\ y.orders = b.orders /\ Restated(b, y, i, w)
    BY ONLY Rep(b, q), <1>3, <1>5, <1>6, <1>8, <1>13, <1>14, ResizeRep
  <1>16. Restated(b, y, i, b.pool[i].order.quantity - v)
    BY <1>4, <1>5, <1>15
  <1> QED
    BY <1>1, <1>12, <1>13, <1>15, <1>16, Zenon

\* An update of an order that is not at the best price of its side.
LEMMA UpdateAway ==
    ASSUME NEW b, NEW q, Rep(b, q), NEW id \in Int, Has(b.orders, id), NEW w \in 1 .. QUANTITY_RANGE - 1,
           NEW o, o = b.pool[Find(b.orders, id)].order, o.price # b.bbo[o.side].price
    PROVE  /\ Rep(update_quantity(b, id, w).book, q)
           /\ update_quantity(b, id, w).book.orders = b.orders
           /\ Restated(b, update_quantity(b, id, w).book, Find(b.orders, id), w)
  <1>1. PICK i, d : i = Find(b.orders, id) /\ d = o.quantity - w
    OBVIOUS
  <1>2. /\ CoreOf(b, q) /\ Shape(b) /\ PricesOK(b.levels, b.prices)
        /\ b.bbo = [x \in Sides |-> b.bbo[x]]
        /\ \A x \in Sides : BestOf(b.levels, b.prices[x], x, b.bbo[x])
    BY RepFacts
  <1>3. PICK side, p, s, k, level, total : Located(b, q, i, o, side, p, s, k, level, total)
    <2>1. PICK o2, side, p, s, k, level, total : Located(b, q, i, o2, side, p, s, k, level, total)
      BY <1>1, <1>2, OrderFacts
    <2>2. o2 = o
      BY <2>1, <1>1, ZenonT(40) DEF Located
    <2> QED
      BY <2>1, <2>2, SMTT(60)
  <1>4. /\ i \in Index /\ o \in Orders /\ o = b.pool[i].order /\ side = o.side /\ p = o.price /\ side \in Sides
        /\ level = Find(b.levels, p) /\ p \in b.prices[side]
        /\ level = [head |-> s[1], tail |-> s[Len(s)], total_quantity |-> total]
    BY ONLY <1>3 DEF Located
  <1>5. o.quantity \in Nat \ {0} /\ w \in Nat \ {0} /\ d \in Int /\ w = o.quantity - d
    <2>1. o.quantity \in Nat \ {0} /\ w \in Nat \ {0}
      BY <1>4, NoOrderFacts, PoolAssumption, SMTT(60)
    <2> QED
      BY ONLY <2>1, <1>1
  <1>6. PICK u : u = Shrink(b, p, d)
    OBVIOUS
  <1>7. Shape(u) /\ u.bbo = b.bbo
    <2>1. PICK h, l : h = s[1] /\ l = s[Len(s)]
      OBVIOUS
    <2>2. level = [head |-> h, tail |-> l, total_quantity |-> total]
      BY <2>1, <1>4, SMTT(60)
    <2>3. Shrinking(u, b, p, level, total, d)
      BY <2>2, <1>2, <1>4, <1>6 DEF Shrinking
    <2> QED
      BY ONLY <2>3, ShrinkFields
  <1>8. update_quantity(b, id, w) = WithQuantity(Result(u, "NoChange"), i, w)
    <2>1. CASE w < o.quantity
      <3>1. PICK o1 : o1 = [o EXCEPT !.quantity = d]
        OBVIOUS
      <3>2. o1.side = side /\ o1.price = p /\ o1.quantity = d
        BY <3>1, <1>4, DeltaFacts
      <3>3. update_quantity(b, id, w) = WithQuantity(update_bbo_add(u, o1), i, w)
        <4>1. /\ i = Find(b.orders, id) /\ o = b.pool[i].order /\ p = o.price
              /\ d = o.quantity - w /\ w # 0 /\ w > 0
          <5>1. i = Find(b.orders, id) /\ o = b.pool[i].order /\ p = o.price /\ d = o.quantity - w
            BY ONLY <1>1, <1>4, Zenon
          <5>2. w # 0 /\ w > 0
            BY ONLY <1>5
          <5> QED
            BY ONLY <5>1, <5>2
        <4> QED
          BY ONLY <4>1, <2>1, <3>1, <1>6, SMTT(60) DEF update_quantity
      <3>4. ~Better(side, p, b.bbo[side].price) /\ p # b.bbo[side].price
        BY <1>2, <1>4, NotBetter
      <3>5. update_bbo_add(u, o1) = Result(u, "NoChange")
        BY <3>2, <3>4, <1>7 DEF update_bbo_add
      <3> QED
        BY <3>3, <3>5, SMTT(60)
    <2>2. CASE ~(w < o.quantity)
      <3>1. PICK o1 : o1 = [o EXCEPT !.quantity = w - o.quantity]
        OBVIOUS
      <3>2. o1.side = side /\ o1.price = p
        BY <3>1, <1>4, DeltaFacts
      <3>3. update_quantity(b, id, w) = WithQuantity(update_bbo_reduce(u, o1), i, w)
        BY <2>2, <3>1, <1>1, <1>4, <1>5, <1>6, Zenon DEF update_quantity
      <3>4. p # b.bbo[side].price
        BY <1>4
      <3>5. update_bbo_reduce(u, o1) = Result(u, "NoChange")
        BY <3>2, <3>4, <1>7 DEF update_bbo_reduce
      <3> QED
        BY <3>3, <3>5
    <2> QED
      BY <2>1, <2>2
  <1>9. PICK new, y : new = b.bbo[side] /\ y = WithQuantity(Result(u, "NoChange"), i, w).book
    OBVIOUS
  <1>10. Rewritten(b, u, u, side, p, d, new)
    BY <1>4, <1>7, <1>9 DEF Rewritten
  <1>11. Rep(y, q) /\ y.free = b.free /\ y.orders = b.orders /\ Restated(b, y, i, w)
    BY ONLY Rep(b, q), <1>3, <1>5, <1>6, <1>9, <1>10, w \in 1 .. QUANTITY_RANGE - 1, ResizeRep
  <1> QED
    BY <1>1, <1>8, <1>9, <1>11, SMTT(60)

-----------------------------------------------------------------------------
(* purge_order() *)
\* OrderPool::free
LEMMA FreeFields ==
    ASSUME NEW c, Shape(c), NEW i, NEW y, y = Free(c, i)
    PROVE  /\ Shape(y) /\ Written(y.pool, c.pool, i, NoOrder) /\ y.free = Append(c.free, i)
           /\ y.orders = c.orders /\ y.levels = c.levels /\ y.prices = c.prices /\ y.bbo = c.bbo
  <1>1. PICK p0, f0, l0, o0, s0, q0 :
           /\ p0 = c.pool /\ f0 = c.free /\ l0 = c.levels /\ o0 = c.orders
           /\ s0 = c.prices /\ q0 = c.bbo
    OBVIOUS
  <1>2. c = [pool |-> p0, free |-> f0, levels |-> l0, orders |-> o0, prices |-> s0, bbo |-> q0]
    BY <1>1 DEF Shape
  <1>3. PICK p1, f1, r : p1 = [p0 EXCEPT ![i] = r] /\ f1 = Append(f0, i) /\ r = NoOrder
    OBVIOUS
  <1>4. y = [c EXCEPT !.pool[i] = r, !.free = f1]
    BY <1>1, <1>3 DEF Free
  <1>5. PICK c0 : c0 = [c EXCEPT !.pool[i] = r]
    OBVIOUS
  <1>6. c0 = [pool |-> p1, free |-> f0, levels |-> l0, orders |-> o0, prices |-> s0, bbo |-> q0]
    BY ONLY <1>2, <1>3, <1>5
  <1>7. y = [c0 EXCEPT !.free = f1]
    BY ONLY <1>2, <1>4, <1>5
  <1>8. y = [pool |-> p1, free |-> f1, levels |-> l0, orders |-> o0, prices |-> s0, bbo |-> q0]
    BY ONLY <1>6, <1>7
  <1> QED
    BY <1>1, <1>3, <1>8 DEF Shape, Written

\* The order leaves the order map.
LEMMA UnmapFields ==
    ASSUME NEW c, Shape(c), NEW id, NEW y, y = [c EXCEPT !.orders = Erase(@, id)]
    PROVE  /\ Shape(y) /\ y.pool = c.pool /\ y.free = c.free
           /\ y.orders = Erase(c.orders, id) /\ y.levels = c.levels /\ y.prices = c.prices /\ y.bbo = c.bbo
  <1>1. PICK p0, f0, l0, o0, s0, q0 :
           /\ p0 = c.pool /\ f0 = c.free /\ l0 = c.levels /\ o0 = c.orders
           /\ s0 = c.prices /\ q0 = c.bbo
    OBVIOUS
  <1>2. c = [pool |-> p0, free |-> f0, levels |-> l0, orders |-> o0, prices |-> s0, bbo |-> q0]
    BY <1>1 DEF Shape
  <1>3. PICK o1 : o1 = Erase(o0, id)
    OBVIOUS
  <1>4. y = [c EXCEPT !.orders = o1]
    BY <1>1, <1>3
  <1>5. y = [pool |-> p0, free |-> f0, levels |-> l0, orders |-> o1, prices |-> s0, bbo |-> q0]
    BY ONLY <1>2, <1>4
  <1> QED
    BY <1>1, <1>3, <1>5 DEF Shape

\* The level of the only order there goes with its price.
Closed(y, c, p, side) == y = [c EXCEPT !.levels = Erase(@, p), !.prices[side] = @ \ {p}]

\* The level goes with its last order.
LEMMA CloseFields ==
    ASSUME NEW c, Shape(c), NEW p, NEW side,
           NEW y, Closed(y, c, p, side)
    PROVE  /\ Shape(y) /\ y.pool = c.pool /\ y.free = c.free
           /\ y.orders = c.orders /\ y.levels = Erase(c.levels, p)
           /\ y.prices = [c.prices EXCEPT ![side] = @ \ {p}] /\ y.bbo = c.bbo
  <1>1. PICK p0, f0, l0, o0, s0, q0 :
           /\ p0 = c.pool /\ f0 = c.free /\ l0 = c.levels /\ o0 = c.orders
           /\ s0 = c.prices /\ q0 = c.bbo
    OBVIOUS
  <1>2. c = [pool |-> p0, free |-> f0, levels |-> l0, orders |-> o0, prices |-> s0, bbo |-> q0]
    BY <1>1 DEF Shape
  <1>3. PICK l1, s1 : l1 = Erase(l0, p) /\ s1 = [s0 EXCEPT ![side] = @ \ {p}]
    OBVIOUS
  <1>4. PICK c0 : c0 = [c EXCEPT !.levels = l1]
    OBVIOUS
  <1>5. c0 = [pool |-> p0, free |-> f0, levels |-> l1, orders |-> o0, prices |-> s0, bbo |-> q0]
    BY ONLY <1>2, <1>4
  <1>6. y = [c EXCEPT !.levels = l1, !.prices[side] = @ \ {p}]
    BY <1>1, <1>3 DEF Closed
  <1>7. y = [c0 EXCEPT !.prices[side] = @ \ {p}]
    BY ONLY <1>2, <1>4, <1>6
  <1>8. y = [c0 EXCEPT !.prices = [c0.prices EXCEPT ![side] = @ \ {p}]]
    BY ONLY <1>5, <1>7
  <1>9. y = [pool |-> p0, free |-> f0, levels |-> l1, orders |-> o0, prices |-> s1, bbo |-> q0]
    <2>1. c0.prices = s0
      BY <1>5
    <2>2. y = [c0 EXCEPT !.prices = s1]
      BY <2>1, <1>3, <1>8
    <2> QED
      BY ONLY <2>2, <1>5
  <1> QED
    BY <1>1, <1>3, <1>9 DEF Shape

\* The pool without r in its queue.
Detached(pool, r) ==
    [j \in DOMAIN pool |->
        CASE j = r.previous -> [pool[j] EXCEPT !.next = r.next]
          [] j = r.next -> [pool[j] EXCEPT !.previous = r.previous]
          [] OTHER -> pool[j]]
\* The ends of a level's queue without r.
Ends(level, r) ==
    [head |-> IF r.previous = NULL THEN r.next ELSE level.head,
     tail |-> IF r.next = NULL THEN r.previous ELSE level.tail,
     total_quantity |-> level.total_quantity]

\* detach
LEMMA DetachFields ==
    ASSUME NEW c, Shape(c), NEW r, NEW p, p = r.order.price, NEW level, level = Find(c.levels, p),
           level = [head |-> level.head, tail |-> level.tail, total_quantity |-> level.total_quantity],
           NEW y, y = detach(c, r)
    PROVE  /\ Shape(y) /\ y.pool = Detached(c.pool, r) /\ y.free = c.free
           /\ y.orders = c.orders /\ y.levels = Assign(c.levels, p, Ends(level, r))
           /\ y.prices = c.prices /\ y.bbo = c.bbo
  <1>1. PICK p0, f0, l0, o0, s0, q0 :
           /\ p0 = c.pool /\ f0 = c.free /\ l0 = c.levels /\ o0 = c.orders
           /\ s0 = c.prices /\ q0 = c.bbo
    OBVIOUS
  <1>2. c = [pool |-> p0, free |-> f0, levels |-> l0, orders |-> o0, prices |-> s0, bbo |-> q0]
    BY <1>1 DEF Shape
  <1>0. PICK h, l, total : /\ h = level.head /\ l = level.tail /\ total = level.total_quantity
                           /\ level = [head |-> h, tail |-> l, total_quantity |-> total]
    OBVIOUS
  <1>3. PICK head, tail : /\ head = (IF r.previous = NULL THEN r.next ELSE level.head)
                          /\ tail = (IF r.next = NULL THEN r.previous ELSE level.tail)
    OBVIOUS
  <1>4. PICK level1, level2 : /\ level1 = [level EXCEPT !.head = head]
                              /\ level2 = [level EXCEPT !.head = head, !.tail = tail]
    OBVIOUS
  <1>5. level1 = [head |-> head, tail |-> l, total_quantity |-> total]
    BY ONLY <1>0, <1>4
  <1>6. level2 = [level1 EXCEPT !.tail = tail]
    BY ONLY <1>0, <1>4
  <1>7. level2 = [head |-> head, tail |-> tail, total_quantity |-> total]
    BY ONLY <1>5, <1>6
  <1>8. level2 = Ends(level, r)
    BY <1>0, <1>3, <1>7 DEF Ends
  <1>9. PICK l1, p1 : l1 = Assign(l0, p, level2) /\ p1 = Detached(p0, r)
    OBVIOUS
  <1>10. y = [c EXCEPT !.levels = l1, !.pool = p1]
    <2>1. y = [c EXCEPT !.levels = Assign(@, p, level2), !.pool = Detached(@, r)]
      BY <1>3, <1>4 DEF detach, Level, Detached
    <2> QED
      BY <2>1, <1>1, <1>9
  <1>11. PICK c0 : c0 = [c EXCEPT !.levels = l1]
    OBVIOUS
  <1>12. c0 = [pool |-> p0, free |-> f0, levels |-> l1, orders |-> o0, prices |-> s0, bbo |-> q0]
    BY ONLY <1>2, <1>11
  <1>13. y = [c0 EXCEPT !.pool = p1]
    BY ONLY <1>2, <1>10, <1>11
  <1>14. y = [pool |-> p1, free |-> f0, levels |-> l1, orders |-> o0, prices |-> s0, bbo |-> q0]
    BY ONLY <1>12, <1>13
  <1> QED
    BY <1>1, <1>8, <1>9, <1>14 DEF Shape

\* The rest of purge_order(): the order map, the best price, the pool.
Purged(y, u, o, id, i) ==
    y = Free(update_bbo_reduce([u EXCEPT !.orders = Erase(@, id)], o).book, i)

\* What the BBO is, for purge_order().
Sided(u, o, side, best) ==
    /\ Shape(u) /\ side \in Sides /\ u.bbo = [s \in Sides |-> u.bbo[s]] /\ side = o.side /\ best = u.bbo[side]
    /\ best = [price |-> best.price, quantity |-> best.quantity]

\* What it leaves.
Purge(y, u, o, id, i, side, best) ==
    /\ Shape(y) /\ Written(y.pool, u.pool, i, NoOrder) /\ y.free = Append(u.free, i)
    /\ y.orders = Erase(u.orders, id) /\ y.levels = u.levels /\ y.prices = u.prices
    /\ y.bbo = [x \in Sides |-> y.bbo[x]]
    /\ Reduced(u.levels, u.prices[side], best, side, o.price, o.quantity, y.bbo[side])
    /\ \A x \in Sides : x # side => y.bbo[x] = u.bbo[x]

\* The rest of purge_order() does that.
LEMMA PurgeTail ==
    ASSUME NEW u, NEW o, NEW id, NEW i,
           NEW side, NEW best, Sided(u, o, side, best),
           NEW y, Purged(y, u, o, id, i)
    PROVE  Purge(y, u, o, id, i, side, best)
  <1>0. /\ Shape(u) /\ side \in Sides /\ u.bbo = [s \in Sides |-> u.bbo[s]] /\ side = o.side /\ best = u.bbo[side]
        /\ best = [price |-> best.price, quantity |-> best.quantity]
    BY DEF Sided
  <1>1. PICK u1 : u1 = [u EXCEPT !.orders = Erase(@, id)]
    OBVIOUS
  <1>2. /\ Shape(u1) /\ u1.pool = u.pool /\ u1.free = u.free
        /\ u1.orders = Erase(u.orders, id) /\ u1.levels = u.levels /\ u1.prices = u.prices /\ u1.bbo = u.bbo
    BY <1>0, <1>1, UnmapFields
  <1>3. PICK c : c = update_bbo_reduce(u1, o).book /\ y = Free(c, i)
    BY <1>1 DEF Purged
  <1>4. PICK new : /\ Reduced(u1.levels, u1.prices[side], best, side, o.price, o.quantity, new)
                   /\ WithBest(c, u1, side, new) \/ (c = u1 /\ new = best)
    <2>1. /\ Shape(u1) /\ u1.bbo = [s \in Sides |-> u1.bbo[s]] /\ best = u1.bbo[side]
          /\ c = update_bbo_reduce(u1, o).book
      BY <1>2, <1>3, <1>0
    <2> QED
      BY ONLY <2>1, <1>0, ReduceFields
  <1>5. /\ Shape(c) /\ c.pool = u1.pool /\ c.free = u1.free /\ c.levels = u1.levels
        /\ c.orders = u1.orders /\ c.prices = u1.prices
        /\ c.bbo = [x \in Sides |-> c.bbo[x]]
        /\ c.bbo[side] = new /\ \A x \in Sides : x # side => c.bbo[x] = u1.bbo[x]
    <2>1. u1.bbo = [x \in Sides |-> u1.bbo[x]]
      BY <1>2, <1>0
    <2>2. CASE WithBest(c, u1, side, new)
      BY ONLY <2>1, <2>2, <1>2, <1>0, BestWritten
    <2>3. CASE c = u1 /\ new = best
      BY <2>1, <2>3, <1>2, <1>0
    <2> QED
      BY <2>2, <2>3, <1>4
  <1>6. /\ Shape(y) /\ Written(y.pool, c.pool, i, NoOrder) /\ y.free = Append(c.free, i)
        /\ y.orders = c.orders /\ y.levels = c.levels /\ y.prices = c.prices /\ y.bbo = c.bbo
    BY ONLY <1>3, <1>5, FreeFields, SMTT(60)
  <1> QED
    BY <1>2, <1>4, <1>5, <1>6 DEF Purge

\* The only order of a level leaves.
LEMMA CloseCore ==
    ASSUME NEW b, NEW q, CoreOf(b, q), NEW i, NEW o, NEW side, NEW p, NEW s, NEW k, NEW level, NEW total,
           Located(b, q, i, o, side, p, s, k, level, total), Len(s) = 1,
           NEW new, Written(new, b.pool, i, NoOrder), NEW t, NEW lv1, Relevelled(lv1, b.levels, p, level, t),
           NEW lv, lv = Erase(lv1, p), NEW ps, ps = [b.prices EXCEPT ![side] = @ \ {p}],
           NEW id \in Int, id = o.order_id
    PROVE  /\ Core(new, Append(b.free, i), lv, Erase(b.orders, id), ps, q)
           /\ PricesBut(b.prices, ps, p, side) /\ LevelsElsewhere(b.levels, lv, p) /\ p \notin ps[side]
           /\ PricesOK(lv, ps)
  <1>0. PICK pool, levels, prices : pool = b.pool /\ levels = b.levels /\ prices = b.prices
    OBVIOUS
  <1>1. /\ PoolOK(pool) /\ FreeOK(pool, b.free) /\ OrdersOK(pool, b.orders) /\ PricesOK(levels, prices)
        /\ QueuesOK(pool, levels, prices, q) /\ CoverOK(pool, prices, q)
    BY <1>0 DEF CoreOf, Core
  <1>2. /\ i \in Index /\ pool[i] \in Entries /\ pool[i] # NoOrder /\ o = pool[i].order
        /\ side = o.side /\ side \in Sides /\ p = o.price /\ p \in Prices /\ p \in Int
        /\ p \in prices[side] /\ Has(levels, p) /\ s = q[p] /\ k \in 1 .. Len(s) /\ s[k] = i
        /\ Queue(pool, s, p, side, total)
    BY <1>0, Zenon DEF Located
  <1>3. level = [head |-> s[1], tail |-> s[Len(s)], total_quantity |-> total]
    BY Zenon DEF Located
  <1>4. PoolOK(new) /\ new[i] = NoOrder /\ \A j \in Index : j # i => new[j] = pool[j]
    <2>1. PoolOK(pool) /\ i \in Index /\ Written(new, pool, i, NoOrder)
      BY <1>0, <1>1, <1>2
    <2>2. PICK e \in Entries \cup {NoOrder} : e = NoOrder
      BY SMTT(60)
    <2> QED
      BY ONLY <2>1, <2>2, PoolWritten, SMTT(30)
  <1>5. ASSUME NEW j \in Index, j # i, pool[j] # NoOrder PROVE pool[j].order.price # p
    <2>1. SUFFICES ASSUME pool[j].order.price = p PROVE FALSE
      BY SMTT(60)
    <2>2. \E n \in 1 .. Len(s) : s[n] = j
      BY ONLY <2>1, <1>1, <1>2, <1>5, SMTT(30) DEF CoverOK, Queued
    <2> QED
      BY <2>2, <1>2, <1>5
  <1>6. Kept(pool, new, i) /\ Elsewhere(pool, new, p)
    BY <1>1, <1>2, <1>4, PoolEntry DEF Kept, Elsewhere
  <1>7. FreeOK(new, Append(b.free, i)) /\ OrdersOK(new, Erase(b.orders, id))
    BY <1>1, <1>2, <1>4, <1>6, FreePush, OrdersErase
  <1>8. MapOK(lv1, LEVEL_SLOTS) /\ Has(lv1, p) /\ LevelsElsewhere(levels, lv1, p)
    <2>1. PICK h, l : h = s[1] /\ l = s[Len(s)]
      OBVIOUS
    <2>2. level = [head |-> h, tail |-> l, total_quantity |-> total]
      BY <2>1, <1>3
    <2>3. MapOK(levels, LEVEL_SLOTS) /\ Relevelled(lv1, levels, p, level, t) /\ p \in Int /\ Has(levels, p)
      BY <1>0, <1>1, <1>2, Zenon DEF PricesOK
    <2> QED
      BY ONLY <2>2, <2>3, RelevelledFacts
  <1>9. MapOK(lv, LEVEL_SLOTS) /\ ~Has(lv, p) /\ LevelsElsewhere(levels, lv, p)
    <2>1. /\ MapOK(lv, LEVEL_SLOTS) /\ ~Has(lv, p)
          /\ \A x \in Int : x # p => /\ Has(lv, x) <=> Has(lv1, x)
                                     /\ Has(lv1, x) => Find(lv, x) = Find(lv1, x)
      BY <1>2, <1>8, EraseFacts
    <2> QED
      BY <2>1, <1>8 DEF LevelsElsewhere
  <1>10. /\ ps \in [Sides -> SUBSET Prices] /\ ps[side] = prices[side] \ {p}
         /\ \A other \in Sides : other # side => ps[other] = prices[other]
    BY <1>0, <1>1, <1>2, ZenonT(60) DEF PricesOK
  <1>11. \A other \in Sides : p \notin ps[other]
    <2>1. \A other \in Sides : p \in prices[other] => other = side
      BY <1>1, <1>2, PriceFacts
    <2> QED
      BY <2>1, <1>10
  <1>12. \A other \in Sides : \A x : x # p => (x \in ps[other] <=> x \in prices[other])
    BY <1>10
  <1>13. PricesBut(prices, ps, p, side)
    BY <1>11, <1>12 DEF PricesBut
  <1>14. PricesOK(lv, ps)
    <2>1. ASSUME NEW x \in Int PROVE Has(lv, x) <=> x \in ps["Buy"] \cup ps["Sell"]
      <3>1. CASE x = p
        BY <3>1, <1>9, <1>11 DEF Sides
      <3>2. CASE x # p
        BY <3>2, <1>1, <1>9, <1>12 DEF Sides, PricesOK, LevelsElsewhere
      <3> QED
        BY <3>1, <3>2
    <2>2. ps["Buy"] \subseteq prices["Buy"] /\ ps["Sell"] \subseteq prices["Sell"]
      BY <1>11, <1>12 DEF Sides
    <2> QED
      BY <2>1, <2>2, <1>1, <1>9, <1>10 DEF PricesOK
  <1>15. QueuesOK(new, lv, ps, q)
    <2>1. Requeued(q, q, p, s)
      BY ONLY <1>1, <1>2, SMTT(60) DEF QueuesOK, Requeued
    <2>2. p \in ps[side] => LevelOK(new, Find(lv, p), s, p, side)
      BY ONLY <1>2, <1>11, SMTT(30)
    <2>3. /\ QueuesOK(pool, levels, prices, q) /\ PricesOK(levels, prices) /\ side \in Sides /\ p \in Prices
          /\ Elsewhere(pool, new, p) /\ LevelsElsewhere(levels, lv, p) /\ PricesBut(prices, ps, p, side)
      BY ONLY <1>1, <1>2, <1>6, <1>9, <1>13
    <2> QED
      BY ONLY <2>1, <2>2, <2>3, QueuesWith, SMTT(30)
  <1>16. CoverOK(new, ps, q)
    <2>1. ASSUME NEW j \in Index, new[j] # NoOrder PROVE Queued(new[j], j, ps, q)
      <3>1. j # i /\ new[j].order.price # p
        BY <2>1, <1>4, <1>5
      <3>2. \A x \in Prices : x # p => q[x] = q[x]
        OBVIOUS
      <3> QED
        BY ONLY <2>1, <3>1, <3>2, <1>1, <1>6, <1>13, CoverFrame
    <2> QED
      BY <2>1 DEF CoverOK
  <1> QED
    BY <1>0, <1>2, <1>4, <1>7, <1>9, <1>11, <1>13, <1>14, <1>15, <1>16, Zenon DEF Core

\* The links of the entry at place k, and what Detached leaves of the others.
LEMMA DetachedFacts ==
    ASSUME NEW pool, PoolOK(pool), NEW s, NEW p, NEW side, NEW total, Queue(pool, s, p, side, total),
           NEW k \in 1 .. Len(s), NEW i, i = s[k], NEW r, r = pool[i],
           NEW new, Written(new, Detached(pool, r), i, NoOrder)
    PROVE  /\ PoolOK(new) /\ new[i] = NoOrder /\ Unlinked(pool, new, s, k)
           /\ Kept(pool, new, i) /\ Elsewhere(pool, new, p)
  <1>1. /\ s \in Seq(Index) /\ Len(s) \in Nat \ {0} /\ Distinct(s)
        /\ \A n \in 1 .. Len(s) : /\ s[n] \in Index /\ s[n] # NULL /\ Stands(pool[s[n]], s, n, p, side)
    BY QueueFacts
  <1>2. i \in Index /\ r \in Entries /\ r.previous = Before(s, k) /\ r.next = After(s, k)
    BY <1>1 DEF Stands
  <1>3. PICK l \in Nat \ {0} : l = Len(s)
    BY <1>1
  <1>4. PICK old : old = Detached(pool, r)
    OBVIOUS
  <1>5. /\ DOMAIN pool = Index
        /\ \A j \in Index : old[j] = CASE j = r.previous -> [pool[j] EXCEPT !.next = r.next]
                                       [] j = r.next -> [pool[j] EXCEPT !.previous = r.previous]
                                       [] OTHER -> pool[j]
        /\ old = [j \in Index |-> old[j]]
    BY <1>4 DEF Detached, PoolOK
  <1>6. \A n \in 1 .. l : /\ s[n] = r.previous <=> n = k - 1
                          /\ s[n] = r.next <=> n = k + 1
    BY <1>1, <1>2, <1>3 DEF Before, After, Distinct
  <1>7. r.previous # NULL => \E n \in 1 .. l : n = k - 1 /\ s[n] = r.previous
    BY <1>2, <1>3 DEF Before
  <1>8. r.next # NULL => \E n \in 1 .. l : n = k + 1 /\ s[n] = r.next
    BY <1>2, <1>3 DEF After
  <1>9. r.previous \in Link /\ r.next \in Link
    BY <1>2 DEF Entries
  <1>10. ASSUME NEW j \in Index, j = r.previous
         PROVE  /\ j # r.next /\ pool[j] \in Entries /\ pool[j].order.price = p
                /\ old[j] = [pool[j] EXCEPT !.next = r.next]
                /\ old[j] \in Entries /\ old[j].order = pool[j].order
    <2>1. PICK n \in 1 .. l : n = k - 1 /\ s[n] = j
      BY <1>7, <1>10, IndexFacts
    <2>2. j # r.next
      BY <2>1, <1>6
    <2>3. pool[j] \in Entries /\ pool[j].order.price = p
      BY <2>1, <1>1, <1>3 DEF Stands
    <2>4. old[j] = [pool[j] EXCEPT !.next = r.next]
      BY <2>2, <1>5, <1>10
    <2>5. old[j] \in Entries /\ old[j].order = pool[j].order
      BY <2>3, <2>4, <1>9 DEF Entries
    <2> QED
      BY <2>2, <2>3, <2>4, <2>5
  <1>11. ASSUME NEW j \in Index, j = r.next
         PROVE  /\ j # r.previous /\ pool[j] \in Entries /\ pool[j].order.price = p
                /\ old[j] = [pool[j] EXCEPT !.previous = r.previous]
                /\ old[j] \in Entries /\ old[j].order = pool[j].order
    <2>1. PICK n \in 1 .. l : n = k + 1 /\ s[n] = j
      BY <1>8, <1>11, IndexFacts
    <2>2. j # r.previous
      BY <2>1, <1>6
    <2>3. pool[j] \in Entries /\ pool[j].order.price = p
      BY <2>1, <1>1, <1>3 DEF Stands
    <2>4. old[j] = [pool[j] EXCEPT !.previous = r.previous]
      BY <2>2, <1>5, <1>11
    <2>5. old[j] \in Entries /\ old[j].order = pool[j].order
      BY <2>3, <2>4, <1>9 DEF Entries
    <2> QED
      BY <2>2, <2>3, <2>4, <2>5
  <1>12. ASSUME NEW j \in Index, j # r.next, j # r.previous PROVE old[j] = pool[j]
    BY <1>5, <1>12
  <1>13. PoolOK(old)
    <2>1. ASSUME NEW j \in Index PROVE old[j] \in Entries \cup {NoOrder}
      BY <1>10, <1>11, <1>12 DEF PoolOK
    <2> QED
      BY <2>1, <1>5 DEF PoolOK
  <1>14. PoolOK(new) /\ new[i] = NoOrder /\ \A j \in Index : j # i => new[j] = old[j]
    <2>1. Written(new, old, i, NoOrder) /\ i \in Index
      BY <1>2, <1>4
    <2>2. PICK e \in Entries \cup {NoOrder} : e = NoOrder
      OBVIOUS
    <2> QED
      BY ONLY <2>1, <2>2, <1>13, PoolWritten
  <1>15. Unlinked(pool, new, s, k)
    <2>1. ASSUME NEW n \in 1 .. l, n # k
          PROVE  new[s[n]] = IF n = k - 1 THEN [pool[s[n]] EXCEPT !.next = After(s, k)]
                             ELSE IF n = k + 1 THEN [pool[s[n]] EXCEPT !.previous = Before(s, k)]
                             ELSE pool[s[n]]
      <3>1. s[n] \in Index /\ s[n] # i
        BY <2>1, <1>1, <1>3 DEF Distinct
      <3>2. PICK j \in Index : j = s[n] /\ new[j] = old[j]
        BY <3>1, <1>14
      <3>3. CASE n = k - 1
        BY <3>2, <3>3, <1>2, <1>6, <1>10
      <3>4. CASE n = k + 1
        BY <3>2, <3>4, <1>2, <1>6, <1>11
      <3>5. CASE n # k - 1 /\ n # k + 1
        BY <3>2, <3>5, <1>6, <1>12
      <3> QED
        BY <3>3, <3>4, <3>5
    <2> QED
      BY <2>1, <1>3 DEF Unlinked
  <1>16. ASSUME NEW j \in Index, j # i
         PROVE  /\ new[j] = NoOrder <=> pool[j] = NoOrder
                /\ pool[j] # NoOrder => new[j] \in Entries /\ new[j].order = pool[j].order
                /\ pool[j] # NoOrder /\ pool[j].order.price # p => new[j] = pool[j]
    <2>1. new[j] = old[j]
      BY <1>14, <1>16
    <2>2. CASE j = r.previous
      BY <2>1, <2>2, <1>10, NoOrderFacts, ZenonT(40)
    <2>3. CASE j = r.next
      BY <2>1, <2>3, <1>11, NoOrderFacts, ZenonT(40)
    <2>4. CASE j # r.next /\ j # r.previous
      BY <2>1, <2>4, <1>12, PoolEntry
    <2> QED
      BY <2>2, <2>3, <2>4
  <1>17. Kept(pool, new, i)
    BY <1>16 DEF Kept
  <1>18. Elsewhere(pool, new, p)
    <2>1. pool[i].order.price = p
      BY <1>1 DEF Stands
    <2> QED
      BY <2>1, <1>16 DEF Elsewhere
  <1> QED
    BY <1>14, <1>15, <1>17, <1>18

\* The ends of a queue without its k-th entry.
LEMMA EndsFacts ==
    ASSUME NEW s \in Seq(Index), NEW k \in 1 .. Len(s), Len(s) # 1, NEW t, t = Without(s, k),
           NEW r, r.previous = Before(s, k), r.next = After(s, k), \A n \in 1 .. Len(s) : s[n] # NULL,
           NEW total, NEW level, level = [head |-> s[1], tail |-> s[Len(s)], total_quantity |-> total]
    PROVE  Ends(level, r) = [head |-> t[1], tail |-> t[Len(t)], total_quantity |-> total]
  <1>1. PICK l \in Nat \ {0} : l + 1 = Len(s)
    <2>1. Len(s) \in Nat /\ Len(s) # 0
      BY LenProperties
    <2>2. Len(s) - 1 \in Nat \ {0} /\ (Len(s) - 1) + 1 = Len(s)
      BY ONLY <2>1, Len(s) # 1
    <2> QED
      BY <2>2, Zenon
  <1>2. Len(t) = l /\ \A n \in 1 .. l : t[n] = IF n < k THEN s[n] ELSE s[n + 1]
    <2>1. Remaining(t, s, k, Index)
      BY ONLY s \in Seq(Index), k \in 1 .. Len(s), t = Without(s, k), WithoutFacts
    <2>2. Len(s) - 1 = l
      BY ONLY <1>1
    <2> QED
      BY <2>1, <2>2 DEF Remaining
  <1>3. t[1] = IF r.previous = NULL THEN r.next ELSE s[1]
    <2>1. CASE k = 1
      <3>1. r.previous = NULL /\ r.next = s[2] /\ t[1] = s[2]
        BY <2>1, <1>1, <1>2 DEF Before, After
      <3> QED
        BY <3>1
    <2>2. CASE k # 1
      <3>1. r.previous # NULL /\ t[1] = s[1]
        BY <2>2, <1>1, <1>2 DEF Before
      <3> QED
        BY <3>1
    <2> QED
      BY <2>1, <2>2
  <1>4. t[l] = IF r.next = NULL THEN r.previous ELSE s[l + 1]
    <2>1. CASE k = l + 1
      <3>1. r.next = NULL /\ r.previous = s[l] /\ t[l] = s[l]
        BY <2>1, <1>1, <1>2 DEF Before, After
      <3> QED
        BY <3>1
    <2>2. CASE k # l + 1
      <3>1. r.next # NULL /\ t[l] = s[l + 1]
        BY <2>2, <1>1, <1>2 DEF After
      <3> QED
        BY <3>1
    <2> QED
      BY <2>1, <2>2
  <1> QED
    BY <1>1, <1>2, <1>3, <1>4 DEF Ends

\* detach() leaves the other orders alone.
LEMMA DetachedOrders ==
    ASSUME NEW pool, PoolOK(pool), NEW r, NEW i \in Index, NEW new, Written(new, Detached(pool, r), i, NoOrder)
    PROVE  OrdersBut(pool, new, i)
  <1>1. PICK mid : mid = Detached(pool, r) /\ new = [mid EXCEPT ![i] = NoOrder]
    BY DEF Written
  <1>2. DOMAIN mid = Index
    BY <1>1 DEF Detached, PoolOK
  <1>3. ASSUME NEW j \in Index PROVE mid[j].order = pool[j].order
    <2>1. PICK e : e = pool[j] /\ e \in Entries \cup {NoOrder}
      BY DEF PoolOK
    <2>2. PICK o, x, y : e = [order |-> o, previous |-> x, next |-> y]
      BY <2>1 DEF Entries, NoOrder
    <2>3. mid[j] \in {[e EXCEPT !.next = r.next], [e EXCEPT !.previous = r.previous], e}
      BY <1>1, <2>1 DEF Detached, PoolOK
    <2> QED
      BY <2>1, <2>2, <2>3
  <1>4. ASSUME NEW j \in Index, j # i PROVE new[j] = mid[j]
    BY <1>1, <1>2, <1>4
  <1> QED
    BY <1>3, <1>4 DEF OrdersBut

\* An order leaves the others of its level.
LEMMA DetachCore ==
    ASSUME NEW b, NEW q, CoreOf(b, q), NEW i, NEW o, NEW side, NEW p, NEW s, NEW k, NEW level, NEW total,
           Located(b, q, i, o, side, p, s, k, level, total), Len(s) # 1,
           NEW r, r = b.pool[i], NEW new, Written(new, Detached(b.pool, r), i, NoOrder),
           NEW t, t = total - o.quantity, NEW lv1, Relevelled(lv1, b.levels, p, level, t),
           NEW lv, lv = Assign(lv1, p, Ends(Find(lv1, p), r)),
           NEW id \in Int, id = o.order_id
    PROVE  \E z : /\ Core(new, Append(b.free, i), lv, Erase(b.orders, id), b.prices, z)
                  /\ Requeued(z, q, p, Without(s, k))
                  /\ PricesBut(b.prices, b.prices, p, side) /\ LevelsElsewhere(b.levels, lv, p)
                  /\ Find(lv, p).total_quantity = t /\ PricesOK(lv, b.prices)
  <1>0. PICK pool, levels, prices : pool = b.pool /\ levels = b.levels /\ prices = b.prices
    OBVIOUS
  <1>1. /\ PoolOK(pool) /\ FreeOK(pool, b.free) /\ OrdersOK(pool, b.orders) /\ PricesOK(levels, prices)
        /\ QueuesOK(pool, levels, prices, q) /\ CoverOK(pool, prices, q)
    BY <1>0 DEF CoreOf, Core
  <1>2. /\ i \in Index /\ pool[i] \in Entries /\ pool[i] # NoOrder /\ o = pool[i].order
        /\ side = o.side /\ side \in Sides /\ p = o.price /\ p \in Prices /\ p \in Int
        /\ p \in prices[side] /\ Has(levels, p) /\ s = q[p] /\ k \in 1 .. Len(s) /\ s[k] = i
        /\ Queue(pool, s, p, side, total)
    BY <1>0, Zenon DEF Located
  <1>3. level = [head |-> s[1], tail |-> s[Len(s)], total_quantity |-> total]
    BY Zenon DEF Located
  <1>4. /\ PoolOK(new) /\ new[i] = NoOrder /\ Unlinked(pool, new, s, k)
        /\ Kept(pool, new, i) /\ Elsewhere(pool, new, p)
    <2>1. Written(new, Detached(pool, r), i, NoOrder) /\ r = pool[i] /\ i = s[k]
      BY ONLY <1>0, <1>2, Written(new, Detached(b.pool, r), i, NoOrder), r = b.pool[i]
    <2> QED
      <3>1. PoolOK(pool) /\ Queue(pool, s, p, side, total) /\ k \in 1 .. Len(s)
        BY ONLY <1>1, <1>2, SMTT(30)
      <3> QED
        BY ONLY <2>1, <3>1, DetachedFacts
  <1>5. FreeOK(new, Append(b.free, i)) /\ OrdersOK(new, Erase(b.orders, id))
    BY <1>1, <1>2, <1>4, FreePush, OrdersErase
  <1>6. /\ MapOK(lv1, LEVEL_SLOTS) /\ Has(lv1, p) /\ LevelsElsewhere(levels, lv1, p)
        /\ Find(lv1, p) = [head |-> s[1], tail |-> s[Len(s)], total_quantity |-> t]
    <2>1. PICK h, l : h = s[1] /\ l = s[Len(s)]
      OBVIOUS
    <2>2. level = [head |-> h, tail |-> l, total_quantity |-> total]
      BY ONLY <2>1, <1>3, SMTT(30)
    <2>3. MapOK(levels, LEVEL_SLOTS) /\ Relevelled(lv1, levels, p, level, t) /\ p \in Int /\ Has(levels, p)
      BY <1>0, <1>1, <1>2 DEF PricesOK
    <2>4. /\ MapOK(lv1, LEVEL_SLOTS) /\ Has(lv1, p) /\ LevelsElsewhere(levels, lv1, p)
          /\ Find(lv1, p) = [head |-> h, tail |-> l, total_quantity |-> t]
      BY ONLY <2>2, <2>3, RelevelledFacts
    <2> QED
      BY <2>1, <2>4
  <1>7. PICK u : u = Without(s, k)
    BY SMTT(30)
  <1>8. /\ s \in Seq(Index) /\ Distinct(s) /\ Len(s) \in Nat
        /\ \A n \in 1 .. Len(s) : /\ s[n] \in Index /\ s[n] # NULL /\ Stands(pool[s[n]], s, n, p, side)
    BY ONLY <1>2, QueueFacts
  <1>9. r.previous = Before(s, k) /\ r.next = After(s, k)
    BY <1>0, <1>2, <1>8, ZenonT(40) DEF Stands
  <1>10. PICK e : /\ e = Ends(Find(lv1, p), r)
                  /\ e = [head |-> u[1], tail |-> u[Len(u)], total_quantity |-> t]
    <2>1. PICK level1 : level1 = Find(lv1, p)
      OBVIOUS
    <2>2. /\ k \in 1 .. Len(s) /\ level1 = [head |-> s[1], tail |-> s[Len(s)], total_quantity |-> t]
          /\ s \in Seq(Index) /\ \A n \in 1 .. Len(s) : s[n] # NULL
      BY <2>1, <1>2, <1>6, <1>8, Zenon
    <2>3. Ends(level1, r) = [head |-> u[1], tail |-> u[Len(u)], total_quantity |-> t]
      BY ONLY <2>2, <1>7, <1>9, Len(s) # 1, EndsFacts
    <2> QED
      BY <2>1, <2>3
  <1>11. MapOK(lv, LEVEL_SLOTS) /\ Has(lv, p) /\ LevelsElsewhere(levels, lv, p) /\ Find(lv, p) = e
    <2>1. /\ MapOK(lv, LEVEL_SLOTS) /\ Find(lv, p) = e
          /\ \A x \in Int : /\ Has(lv, x) <=> Has(lv1, x)
                            /\ x # p /\ Has(lv1, x) => Find(lv, x) = Find(lv1, x)
      <3>1. MapOK(lv1, LEVEL_SLOTS) /\ p \in Int /\ Has(lv1, p) /\ lv = Assign(lv1, p, e)
        BY <1>2, <1>6, <1>10, Zenon
      <3> QED
        BY ONLY <3>1, AssignFacts
    <2> QED
      BY <2>1, <1>2, <1>6, Zenon DEF LevelsElsewhere
  <1>12. PricesOK(lv, prices) /\ PricesBut(prices, prices, p, side)
    <2>1. PricesOK(levels, prices) /\ side \in Sides /\ p \in prices[side]
      BY <1>1, <1>2
    <2> QED
      BY ONLY <2>1, <1>11, PricesSame
  <1>13. LevelOK(new, Find(lv, p), u, p, side)
    <2>1. o.quantity = pool[s[k]].order.quantity
      BY <1>2
    <2>2. Queue(pool, s, p, side, total) /\ k \in 1 .. Len(s)
      BY <1>2
    <2>3. Queue(new, u, p, side, total - o.quantity)
      BY ONLY <2>1, <2>2, <1>4, <1>7, Len(s) # 1, QueueRemove
    <2> QED
      BY <2>3, <1>10, <1>11 DEF LevelOK
  <1>14. PICK z : Requeued(z, q, p, u)
    BY DEF Requeued
  <1>15. /\ QueuesOK(new, lv, prices, z) /\ z[p] = u
         /\ \A x \in Prices : x # p => z[x] = q[x]
    <2>1. /\ QueuesOK(pool, levels, prices, q) /\ PricesOK(levels, prices) /\ side \in Sides /\ p \in Prices
          /\ Elsewhere(pool, new, p) /\ LevelsElsewhere(levels, lv, p) /\ PricesBut(prices, prices, p, side)
          /\ p \in prices[side] => LevelOK(new, Find(lv, p), u, p, side)
      BY ONLY <1>1, <1>2, <1>4, <1>11, <1>12, <1>13
    <2> QED
      BY ONLY <2>1, <1>14, QueuesWith
  <1>16. CoverOK(new, prices, z)
    <2>1. ASSUME NEW j \in Index, new[j] # NoOrder PROVE Queued(new[j], j, prices, z)
      <3>1. /\ j # i /\ pool[j] # NoOrder /\ new[j].order.price = pool[j].order.price
            /\ new[j].order.side = pool[j].order.side
        BY <2>1, <1>4 DEF Kept
      <3>2. CASE new[j].order.price = p
        <4>1. Queued(pool[j], j, prices, q)
          BY ONLY <3>1, <1>1, SMTT(60) DEF CoverOK
        <4>2. PICK n \in 1 .. Len(s) : s[n] = j
          BY ONLY <4>1, <3>1, <3>2, <1>2, SMTT(60) DEF Queued
        <4>3. n # k
          BY <4>2, <3>1, <1>2
        <4>4. Len(u) = Len(s) - 1 /\ \A m \in 1 .. Len(s) - 1 : u[m] = IF m < k THEN s[m] ELSE s[m + 1]
          <5>1. s \in Seq(Index) /\ k \in 1 .. Len(s)
            BY ONLY <1>2, <1>8
          <5>2. Remaining(u, s, k, Index)
            BY ONLY <5>1, <1>7, WithoutFacts, SMTT(30)
          <5> QED
            BY ONLY <5>2, SMTT(30) DEF Remaining
        <4>5. \E m \in 1 .. Len(u) : u[m] = j
          <5>1. CASE n < k
            <6>1. n \in 1 .. Len(s) - 1 /\ n \in 1 .. Len(u)
              <7>1. Len(s) \in Nat /\ k \in 1 .. Len(s) /\ n \in 1 .. Len(s)
                BY ONLY <1>2, <1>8, <4>2, Zenon
              <7>2. Len(u) = Len(s) - 1
                BY ONLY <4>4
              <7> QED
                BY ONLY <7>1, <7>2, <5>1
            <6> QED
              BY ONLY <5>1, <6>1, <4>2, <4>4, SMTT(30)
          <5>2. CASE n > k
            <6>1. PICK m \in 1 .. Len(s) - 1 : n = m + 1 /\ ~(m < k)
              <7>1. Len(s) \in Nat /\ k \in 1 .. Len(s) /\ n \in 1 .. Len(s)
                BY ONLY <1>2, <1>8, <4>2, Zenon
              <7>2. n - 1 \in 1 .. Len(s) - 1 /\ n = (n - 1) + 1 /\ ~(n - 1 < k)
                BY ONLY <7>1, <5>2
              <7> QED
                BY ONLY <7>2
            <6> QED
              BY ONLY <6>1, <4>2, <4>4, SMTT(30)
          <5> QED
            BY ONLY <5>1, <5>2, <4>3, <1>2, <1>8
        <4> QED
          BY <4>1, <4>5, <3>1, <3>2, <1>15 DEF Queued
      <3>3. CASE new[j].order.price # p
        <4>1. /\ PricesOK(levels, prices) /\ CoverOK(pool, prices, q) /\ Kept(pool, new, i)
              /\ PricesBut(prices, prices, p, side) /\ \A x \in Prices : x # p => z[x] = q[x]
          BY <1>1, <1>4, <1>12, <1>15
        <4> QED
          BY ONLY <4>1, <2>1, <3>1, <3>3, CoverFrame
      <3> QED
        BY <3>2, <3>3
    <2> QED
      BY <2>1 DEF CoverOK
  <1>17. Find(lv, p).total_quantity = t
    BY <1>10, <1>11
  <1> QED
    BY <1>0, <1>4, <1>5, <1>7, <1>11, <1>12, <1>14, <1>15, <1>16, <1>17 DEF Core

\* c is b without the k-th order of a price.
Removed(b, q, c, z, i, side, p, k) ==
    /\ OrdersBut(b.pool, c.pool, i)
    /\ IF Len(q[p]) = 1 THEN z = q /\ c.prices = [b.prices EXCEPT ![side] = @ \ {p}]
       ELSE Requeued(z, q, p, Without(q[p], k)) /\ c.prices = b.prices
\* The book without the order of entry i.
Leaves(b, q, c, z, i) ==
    /\ Rep(c, z)
    /\ \E o, side, p, s, k, level, total : /\ Located(b, q, i, o, side, p, s, k, level, total)
                                           /\ Removed(b, q, c, z, i, side, p, k)

\* purge_order() keeps a book in order, and the others in their order.
LEMMA PurgeRep ==
    ASSUME NEW b, NEW q, Rep(b, q), NEW id \in Int, Has(b.orders, id)
    PROVE  /\ \E z : Leaves(b, q, purge_order(b, id).book, z, Find(b.orders, id))
           /\ purge_order(b, id).book.free = Append(b.free, Find(b.orders, id))
           /\ purge_order(b, id).book.orders = Erase(b.orders, id)
  <1>1. /\ CoreOf(b, q) /\ Shape(b) /\ PricesOK(b.levels, b.prices)
        /\ b.bbo = [x \in Sides |-> b.bbo[x]]
        /\ \A x \in Sides : BestOf(b.levels, b.prices[x], x, b.bbo[x])
    BY RepFacts
  <1>2. PICK i, r : i = Find(b.orders, id) /\ r = b.pool[i]
    OBVIOUS
  <1>3. PICK o, side, p, s, k, level, total : Located(b, q, i, o, side, p, s, k, level, total)
    BY <1>1, <1>2, OrderFacts
  <1>4. b.pool[i].order.order_id = id
    BY <1>1, <1>2, OrderFacts
  <1>5. /\ i \in Index /\ o \in Orders /\ o = r.order /\ side = o.side /\ p = o.price /\ side \in Sides
        /\ p \in b.prices[side] /\ id = o.order_id /\ level = Find(b.levels, p) /\ total \in Nat
        /\ k \in 1 .. Len(s) /\ s[k] = i /\ Queue(b.pool, s, p, side, total)
    BY <1>2, <1>3, <1>4, Zenon DEF Located
  <1>6. PICK h, l : level = [head |-> h, tail |-> l, total_quantity |-> total]
    BY <1>3, Zenon DEF Located
  <1>7. PICK u0, t : u0 = Shrink(b, p, o.quantity) /\ t = total - o.quantity
    OBVIOUS
  <1>8. /\ Shape(u0) /\ u0.pool = b.pool /\ u0.free = b.free /\ u0.orders = b.orders
        /\ u0.prices = b.prices /\ u0.bbo = b.bbo
        /\ Relevelled(u0.levels, b.levels, p, level, t)
    <2>1. level = Find(b.levels, p) /\ Shape(b)
      BY <1>1, <1>5
    <2>2. PICK v : v = o.quantity /\ u0 = Shrink(b, p, v) /\ t = total - v
      BY <1>7
    <2>3. u0 = Shrink(b, p, v)
      BY <2>2
    <2>4. /\ Shape(u0) /\ u0.pool = b.pool /\ u0.free = b.free /\ u0.orders = b.orders
          /\ u0.prices = b.prices /\ u0.bbo = b.bbo
          /\ Relevelled(u0.levels, b.levels, p, level, total - v)
      <3>1. Shrinking(u0, b, p, level, total, v)
        BY <2>1, <2>3, <1>6, Zenon DEF Shrinking
      <3> QED
        BY ONLY <3>1, ShrinkFields
    <2> QED
      BY <2>2, <2>4
  <1>9. PICK lv1 : lv1 = u0.levels
    OBVIOUS
  <1>10. Find(lv1, p) = [head |-> h, tail |-> l, total_quantity |-> t]
    <2>1. MapOK(b.levels, LEVEL_SLOTS) /\ p \in Int /\ Has(b.levels, p) /\ Relevelled(lv1, b.levels, p, level, t)
      BY <1>1, <1>3, <1>8, <1>9, Zenon DEF PricesOK, Located
    <2> QED
      BY ONLY <2>1, <1>6, RelevelledFacts
  <1>11. /\ o.quantity \in 1 .. QUANTITY_RANGE - 1 /\ o.quantity \in Nat
         /\ t = 0 <=> Len(s) = 1
    <2>1. o.quantity \in 1 .. QUANTITY_RANGE - 1 /\ o.quantity \in Nat
      BY <1>5, NoOrderFacts
    <2>2. b.pool[s[k]].order.quantity = o.quantity
      BY <1>2, <1>5, Zenon
    <2>3. total = o.quantity <=> Len(s) = 1
      BY <2>2, <1>5, QueueAlone
    <2>4. t = 0 <=> total = o.quantity
      <3>1. PICK v \in Nat, T \in Nat : v = o.quantity /\ T = total /\ t = T - v
        BY <2>1, <1>5, <1>7
      <3>2. T - v = 0 <=> T = v
        BY ONLY v \in Nat, T \in Nat
      <3> QED
        BY <3>1, <3>2
    <2> QED
      BY <2>1, <2>3, <2>4
  <1>12. PICK best : best = b.bbo[side] /\ best = [price |-> best.price, quantity |-> best.quantity]
    <2>1. PICK best : best = b.bbo[side]
      OBVIOUS
    <2>2. BestOf(b.levels, b.prices[side], side, best) /\ PricesOK(b.levels, b.prices) /\ side \in Sides
      BY <2>1, <1>1, <1>5
    <2>3. best = [price |-> best.price, quantity |-> best.quantity]
      BY ONLY <2>2, BestFacts
    <2> QED
      BY <2>1, <2>3
  <1>13. PICK u : u = IF t = 0 THEN [u0 EXCEPT !.levels = Erase(@, p), !.prices[side] = @ \ {p}]
                      ELSE detach(u0, r)
    OBVIOUS
  <1>14. PICK y : y = Free(update_bbo_reduce([u EXCEPT !.orders = Erase(@, id)], o).book, i)
    OBVIOUS
  <1>15. purge_order(b, id).book = y
    <2>1. Level(u0, p).total_quantity = t
      BY <1>9, <1>10 DEF Level
    <2> QED
      BY <2>1, <1>2, <1>5, <1>7, <1>13, <1>14, ZenonT(40) DEF purge_order, Result
  <1>16. /\ Shape(u) /\ u.free = b.free /\ u.orders = b.orders /\ u.bbo = b.bbo
         /\ t = 0 => /\ u.pool = b.pool /\ u.levels = Erase(lv1, p)
                     /\ u.prices = [b.prices EXCEPT ![side] = @ \ {p}]
         /\ t # 0 => /\ u.pool = Detached(b.pool, r) /\ u.levels = Assign(lv1, p, Ends(Find(lv1, p), r))
                     /\ u.prices = b.prices
    <2>1. CASE t = 0
      <3>1. u = [u0 EXCEPT !.levels = Erase(@, p), !.prices[side] = @ \ {p}]
        BY <2>1, <1>13
      <3>2. /\ Shape(u) /\ u.pool = u0.pool /\ u.free = u0.free
            /\ u.orders = u0.orders /\ u.levels = Erase(u0.levels, p)
            /\ u.prices = [u0.prices EXCEPT ![side] = @ \ {p}] /\ u.bbo = u0.bbo
        <4>1. Closed(u, u0, p, side) /\ Shape(u0)
          BY <3>1, <1>8 DEF Closed
        <4> QED
          BY ONLY <4>1, CloseFields
      <3> QED
        BY <2>1, <3>2, <1>8, <1>9
    <2>2. CASE t # 0
      <3>1. u = detach(u0, r) /\ p = r.order.price /\ Shape(u0)
        BY <2>2, <1>5, <1>8, <1>13
      <3>2. PICK level1 : /\ level1 = Find(u0.levels, p)
                          /\ level1 = [head |-> level1.head, tail |-> level1.tail,
                                       total_quantity |-> level1.total_quantity]
        BY <1>9, <1>10
      <3>3. /\ Shape(u) /\ u.pool = Detached(u0.pool, r) /\ u.free = u0.free
            /\ u.orders = u0.orders /\ u.levels = Assign(u0.levels, p, Ends(level1, r))
            /\ u.prices = u0.prices /\ u.bbo = u0.bbo
        BY ONLY <3>1, <3>2, DetachFields
      <3> QED
        BY <2>2, <3>2, <3>3, <1>8, <1>9
    <2> QED
      BY <2>1, <2>2
  <1>17. /\ Shape(y) /\ Written(y.pool, u.pool, i, NoOrder) /\ y.free = Append(u.free, i)
         /\ y.orders = Erase(u.orders, id) /\ y.levels = u.levels /\ y.prices = u.prices
         /\ y.bbo = [x \in Sides |-> y.bbo[x]]
         /\ Reduced(u.levels, u.prices[side], best, side, o.price, o.quantity, y.bbo[side])
         /\ \A x \in Sides : x # side => y.bbo[x] = u.bbo[x]
    <2>1. Sided(u, o, side, best)
      <3>1. u.bbo = b.bbo
        BY <1>16
      <3> QED
        BY <3>1, <1>1, <1>5, <1>12, <1>16 DEF Sided
    <2>2. Purged(y, u, o, id, i)
      BY <1>14 DEF Purged
    <2>3. Purge(y, u, o, id, i, side, best)
      BY ONLY <2>1, <2>2, PurgeTail
    <2> QED
      BY <2>3 DEF Purge
  <1>18. PICK new, lv, ps : new = y.pool /\ lv = y.levels /\ ps = y.prices
    OBVIOUS
  <1>19. PICK z : /\ Core(new, Append(b.free, i), lv, Erase(b.orders, id), ps, z)
                  /\ Shrunk(b.levels, b.prices, lv, ps, side, p, o.quantity)
                  /\ Removed(b, q, y, z, i, side, p, k)
    <2>1. Find(b.levels, p).total_quantity = total
      BY <1>5, <1>6
    <2>2. CASE t = 0
      <3>1. /\ Len(s) = 1 /\ Written(new, b.pool, i, NoOrder) /\ lv = Erase(lv1, p)
            /\ ps = [b.prices EXCEPT ![side] = @ \ {p}] /\ Relevelled(lv1, b.levels, p, level, t)
            /\ id = o.order_id /\ CoreOf(b, q)
        BY <2>2, <1>1, <1>5, <1>8, <1>9, <1>11, <1>16, <1>17, <1>18
      <3>2. /\ Core(new, Append(b.free, i), lv, Erase(b.orders, id), ps, q)
            /\ PricesBut(b.prices, ps, p, side) /\ LevelsElsewhere(b.levels, lv, p) /\ p \notin ps[side]
            /\ PricesOK(lv, ps)
        BY ONLY <3>1, <1>3, id \in Int, CloseCore
      <3>3. total = o.quantity
        BY ONLY <2>2, <1>5, <1>7, <1>11
      <3>4. Shrunk(b.levels, b.prices, lv, ps, side, p, o.quantity)
        BY <3>2, <3>3, <2>1, <1>1, <1>5 DEF Shrunk
      <3>5. OrdersBut(b.pool, new, i)
        <4>1. PoolOK(b.pool)
          BY RepFacts
        <4> QED
          BY ONLY <4>1, <3>1, <1>5, PoolWritten, SMTT(60) DEF OrdersBut
      <3>6. s = q[p]
        BY ONLY <1>3 DEF Located
      <3>7. Removed(b, q, y, q, i, side, p, k)
        BY <3>1, <3>5, <3>6, <1>18 DEF Removed
      <3> QED
        BY <3>2, <3>4, <3>7
    <2>3. CASE t # 0
      <3>1. /\ Len(s) # 1 /\ Written(new, Detached(b.pool, r), i, NoOrder)
            /\ lv = Assign(lv1, p, Ends(Find(lv1, p), r)) /\ r = b.pool[i]
            /\ ps = b.prices /\ Relevelled(lv1, b.levels, p, level, t) /\ t = total - o.quantity
            /\ id = o.order_id /\ CoreOf(b, q)
        BY <2>3, <1>1, <1>2, <1>5, <1>7, <1>8, <1>9, <1>11, <1>16, <1>17, <1>18, Zenon
      <3>2. PICK z : /\ Core(new, Append(b.free, i), lv, Erase(b.orders, id), b.prices, z)
                     /\ Requeued(z, q, p, Without(s, k))
                     /\ PricesBut(b.prices, b.prices, p, side) /\ LevelsElsewhere(b.levels, lv, p)
                     /\ Find(lv, p).total_quantity = t /\ PricesOK(lv, b.prices)
        BY ONLY <3>1, <1>3, id \in Int, DetachCore
      <3>3. Shrunk(b.levels, b.prices, lv, ps, side, p, o.quantity)
        BY <3>1, <3>2, <2>1, <1>1, <1>5, ZenonT(60) DEF Shrunk
      <3>4. OrdersBut(b.pool, new, i)
        <4>1. PoolOK(b.pool)
          BY RepFacts
        <4> QED
          BY <4>1, <3>1, <1>5, DetachedOrders
      <3>5. s = q[p]
        BY <1>3 DEF Located
      <3>6. Removed(b, q, y, z, i, side, p, k)
        BY <3>1, <3>2, <3>4, <3>5, <1>18 DEF Removed
      <3> QED
        BY <3>1, <3>2, <3>3, <3>6
    <2> QED
      BY <2>2, <2>3
  <1>20. ASSUME NEW x \in Sides PROVE BestOf(lv, ps[x], x, y.bbo[x])
    <2>1. CASE x # side
      <3>1. y.bbo[x] = b.bbo[x] /\ p \notin b.prices[x]
        BY <2>1, <1>1, <1>5, <1>16, <1>17, PriceFacts
      <3>2. LevelsElsewhere(b.levels, lv, p) /\ PricesBut(b.prices, ps, p, side)
        BY <1>19 DEF Shrunk
      <3>3. ps[x] = b.prices[x]
        <4>1. p \notin ps[x]
          BY <3>2, <2>1 DEF PricesBut
        <4> QED
          <5>1. \A e : e \in ps[x] <=> e \in b.prices[x]
            BY <4>1, <3>1, <3>2 DEF PricesBut
          <5> QED
            BY <5>1
      <3>4. PICK best1 : best1 = b.bbo[x] /\ BestOf(b.levels, b.prices[x], x, best1) /\ PricesOK(b.levels, b.prices)
        BY <1>1
      <3>5. BestOf(lv, b.prices[x], x, best1)
        BY ONLY <3>1, <3>2, <3>4, x \in Sides, BestElsewhere
      <3> QED
        BY <3>1, <3>3, <3>4, <3>5
    <2>2. CASE x = side
      <3>1. PICK levels, prices, S, n :
               levels = b.levels /\ prices = b.prices /\ S = ps[side] /\ n = y.bbo[side]
        OBVIOUS
      <3>2. PICK v \in 1 .. QUANTITY_RANGE - 1 : v = o.quantity
        BY <1>11, SMTT(60)
      <3>3. /\ Shrunk(levels, prices, lv, ps, side, p, v) /\ BestOf(levels, prices[side], side, best)
            /\ Reduced(lv, S, best, side, p, v, n) /\ side \in Sides /\ S = ps[side]
        BY <3>1, <3>2, <1>1, <1>5, <1>12, <1>17, <1>18, <1>19
      <3>4. BestOf(lv, S, side, n)
        BY ONLY <3>3, v \in 1 .. QUANTITY_RANGE - 1, BestReduce
      <3> QED
        BY <2>2, <3>1, <3>4
    <2> QED
      BY <2>1, <2>2
  <1>21. PICK free, orders : free = Append(b.free, i) /\ orders = Erase(b.orders, id)
    OBVIOUS
  <1>22. /\ Core(new, free, lv, orders, ps, z) /\ y.pool = new /\ y.free = free /\ y.levels = lv
         /\ y.orders = orders /\ y.prices = ps /\ y.bbo = [x \in Sides |-> y.bbo[x]] /\ Shape(y)
    BY <1>16, <1>17, <1>18, <1>19, <1>21
  <1>23. Rep(y, z)
    BY ONLY <1>20, <1>22, RepFromFields
  <1>24. Leaves(b, q, y, z, i)
    BY <1>3, <1>19, <1>23 DEF Leaves
  <1> QED
    BY <1>2, <1>15, <1>21, <1>22, <1>24

\* So the book stays in order.
LEMMA PurgeKeepsRep ==
    ASSUME NEW b, NEW q, Rep(b, q), NEW id \in Int, Has(b.orders, id)
    PROVE  /\ BookOK(purge_order(b, id).book)
           /\ purge_order(b, id).book.free = Append(b.free, Find(b.orders, id))
           /\ purge_order(b, id).book.orders = Erase(b.orders, id)
  BY PurgeRep DEF Leaves, BookOK

-----------------------------------------------------------------------------
(* execute(), and the empty book. *)
\* The events the CLOB publishes, and the book they are meant for.
Legal(b, e) ==
    \/ e.type = "Add" /\ Addable(b, e.order)
    \/ /\ e.type \in {"Cancel", "Trade", "Update"}
       /\ e.order.order_id \in Int /\ Has(b.orders, e.order.order_id)
       /\ LET o == b.pool[Find(b.orders, e.order.order_id)].order
              v == e.order.quantity
          IN  /\ e.type = "Trade" => v \in Nat \ {0} /\ v <= o.quantity
              /\ e.type = "Update" => \/ v = 0
                                      \/ v \in 1 .. QUANTITY_RANGE - 1 /\ o.price # b.bbo[o.side].price

\* The order map after add().
LEMMA AddOrders ==
    ASSUME NEW b, Shape(b), NEW o
    PROVE  add(b, o).book.orders = Insert(b.orders, o.order_id, Last(b.free))
  <1>1. PICK i : i = Last(b.free)
    OBVIOUS
  <1>2. PICK c : /\ add(b, o) = update_bbo_add(c, o)
                 /\ c = IF ~Has(b.levels, o.price) THEN Opened(b, i, o)
                        ELSE Joined(b, i, o, Find(b.levels, o.price))
    BY <1>1, AddFields
  <1>3. PICK orders : orders = Insert(b.orders, o.order_id, i)
    OBVIOUS
  <1>4. c.orders = orders /\ \E p, f, l, s, x :
           c = [pool |-> p, free |-> f, levels |-> l, orders |-> orders, prices |-> s, bbo |-> x]
    <2>1. CASE ~Has(b.levels, o.price)
      BY <2>1, <1>2, <1>3 DEF Opened
    <2>2. CASE Has(b.levels, o.price)
      BY <2>2, <1>2, <1>3 DEF Joined
    <2> QED
      BY <2>1, <2>2
  <1>5. update_bbo_add(c, o).book.orders = c.orders
    <2>1. Shape(c)
      BY <1>4 DEF Shape
    <2> QED
      BY <2>1, AddTouches
  <1> QED
    BY <1>1, <1>2, <1>3, <1>4, <1>5

\* What the order map may hold after an event.
KnownAfter(c, b, e) ==
    \A x \in Int : Has(c.orders, x) => Has(b.orders, x) \/ (e.type = "Add" /\ x = e.order.order_id)

\* BookState::execute() keeps a book in order, whatever legal event it is given.
LEMMA ExecuteKeepsBook ==
    ASSUME NEW b, BookOK(b), NEW e, Legal(b, e)
    PROVE  /\ BookOK(execute(b, e).book) /\ KnownAfter(execute(b, e).book, b, e)
           /\ e.type = "Trade" /\ b.free # <<>> => execute(b, e).book.free # <<>>
  <1>1. PICK q : Rep(b, q)
    BY DEF BookOK
  <1>2. CASE e.type = "Add"
    <2>1. Addable(b, e.order) /\ execute(b, e) = add(b, e.order)
      BY <1>2 DEF Legal, execute
    <2>2. BookOK(add(b, e.order).book)
      BY <1>1, <2>1, AddKeepsRep
    <2>3. KnownAfter(add(b, e.order).book, b, e)
      <3>1. PICK o, w, i : o = e.order /\ w = add(b, o).book.orders /\ i = Last(b.free)
        OBVIOUS
      <3>2. w = Insert(b.orders, o.order_id, i)
        BY <1>1, <3>1, RepFacts, AddOrders
      <3>3. CoreOf(b, q) /\ Addable(b, o)
        BY <1>1, <2>1, <3>1, RepFacts
      <3>4. i \in Index /\ b.pool[i] = NoOrder /\ OrdersOK(b.pool, b.orders)
        BY <3>1, <3>3, AddBasics
      <3>5. o.order_id \in Int /\ ~Has(b.orders, o.order_id)
        BY <3>3, NoOrderFacts DEF Addable
      <3>6. \A k \in Int : k # o.order_id => (Has(w, k) <=> Has(b.orders, k))
        BY <3>2, <3>4, <3>5, OrdersInsert
      <3> QED
        BY <3>1, <3>6, <1>2 DEF KnownAfter
    <2> QED
      BY <2>1, <2>2, <2>3, <1>2
  <1>3. CASE e.type # "Add"
    <2>1. PICK id, v, o : /\ id = e.order.order_id /\ v = e.order.quantity
                          /\ o = b.pool[Find(b.orders, id)].order
      BY SMTT(30)
    <2>2. /\ e.type \in {"Cancel", "Trade", "Update"} /\ id \in Int /\ Has(b.orders, id)
          /\ e.type = "Trade" => v \in Nat \ {0} /\ v <= o.quantity
          /\ e.type = "Update" => \/ v = 0
                                  \/ v \in 1 .. QUANTITY_RANGE - 1 /\ o.price # b.bbo[o.side].price
      BY <1>3, <2>1 DEF Legal
    <2>3. /\ BookOK(purge_order(b, id).book) /\ KnownAfter(purge_order(b, id).book, b, e)
          /\ purge_order(b, id).book.free # <<>>
      <3>1. /\ BookOK(purge_order(b, id).book)
            /\ purge_order(b, id).book.free = Append(b.free, Find(b.orders, id))
            /\ purge_order(b, id).book.orders = Erase(b.orders, id)
        BY <1>1, <2>2, PurgeKeepsRep
      <3>2. OrdersOK(b.pool, b.orders) /\ b.free \in Seq(Index)
        BY <1>1, RepFacts DEF FreeOK
      <3>3. MapOK(b.orders, ORDER_SLOTS) /\ Find(b.orders, id) \in Index
        BY <2>2, <3>2 DEF OrdersOK
      <3>4. PICK w : w = Erase(b.orders, id)
        OBVIOUS
      <3>5. ~Has(w, id) /\ \A k \in Int : k # id => (Has(w, k) <=> Has(b.orders, k))
        BY <3>3, <3>4, <2>2, EraseFacts
      <3>6. KnownAfter(purge_order(b, id).book, b, e)
        BY <3>1, <3>4, <3>5 DEF KnownAfter
      <3>7. Append(b.free, Find(b.orders, id)) # <<>>
        BY <3>2, <3>3, AppendProperties, EmptySeq
      <3> QED
        BY <3>1, <3>6, <3>7
    <2>4. CASE e.type = "Cancel"
      <3>1. execute(b, e) = purge_order(b, id)
        BY <2>1, <2>4 DEF execute, cancel
      <3> QED
        BY <2>3, <2>4, <3>1
    <2>5. CASE e.type = "Trade"
      <3>1. execute(b, e) = trade(b, id, v)
        BY <2>1, <2>5 DEF execute
      <3>2. CASE v = o.quantity
        <4>1. trade(b, id, v) = purge_order(b, id)
          BY <2>1, <3>2 DEF trade
        <4> QED
          BY <2>3, <3>1, <4>1
      <3>3. CASE v # o.quantity
        <4>1. o.quantity \in Int
          <5>1. o \in Orders
            <6>1. OrdersOK(b.pool, b.orders)
              BY <1>1, RepFacts
            <6>2. b.pool[Find(b.orders, id)] \in Entries
              BY <6>1, <2>2 DEF OrdersOK
            <6> QED
              BY <6>2, <2>1, NoOrderFacts
          <5> QED
            BY <5>1, NoOrderFacts
        <4>2. v \in Nat \ {0} /\ v < o.quantity
          BY <2>2, <2>5, <3>3, <4>1
        <4>3. /\ Rep(trade(b, id, v).book, q)
              /\ trade(b, id, v).book.free = b.free /\ trade(b, id, v).book.orders = b.orders
          <5>1. v < b.pool[Find(b.orders, id)].order.quantity /\ Rep(b, q) /\ id \in Int /\ Has(b.orders, id)
            BY ONLY <1>1, <2>1, <2>2, <4>2, Zenon
          <5> QED
            BY ONLY <5>1, <4>2, TradePartial
        <4> QED
          BY ONLY <1>1, <3>1, <4>3 DEF BookOK, KnownAfter
      <3> QED
        BY <3>2, <3>3
    <2>6. CASE e.type = "Update"
      <3>1. execute(b, e) = update_quantity(b, id, v)
        BY <2>1, <2>6 DEF execute
      <3>2. CASE v = 0
        <4>1. update_quantity(b, id, v) = purge_order(b, id)
          BY <3>2 DEF update_quantity
        <4> QED
          BY <2>3, <2>6, <3>1, <4>1
      <3>3. CASE v # 0
        <4>1. v \in 1 .. QUANTITY_RANGE - 1 /\ o.price # b.bbo[o.side].price
          BY <2>2, <2>6, <3>3, SMTT(60)
        <4>2. /\ Rep(update_quantity(b, id, v).book, q)
              /\ update_quantity(b, id, v).book.orders = b.orders
          <5>1. /\ Rep(b, q) /\ id \in Int /\ Has(b.orders, id) /\ v \in 1 .. QUANTITY_RANGE - 1
                /\ o = b.pool[Find(b.orders, id)].order /\ o.price # b.bbo[o.side].price
            BY ONLY <1>1, <2>1, <2>2, <4>1
          <5> QED
            BY ONLY <5>1, UpdateAway, SMTT(30)
        <4> QED
          BY <2>6, <3>1, <4>2 DEF BookOK, KnownAfter
      <3> QED
        BY <3>2, <3>3
    <2> QED
      BY <2>2, <2>4, <2>5, <2>6
  <1> QED
    BY <1>2, <1>3

\* The book both sides start from.
LEMMA EmptyBookOK == BookOK(EmptyBook)
  <1>1. PICK b : b = EmptyBook
    OBVIOUS
  <1>2. Shape(b) /\ b.prices = [side \in Sides |-> {}]
        /\ b.levels = EmptyMap(LEVEL_SLOTS) /\ b.orders = EmptyMap(ORDER_SLOTS)
        /\ b.pool = [i \in Index |-> NoOrder]
        /\ b.free = [i \in 1 .. MAX_CONCURRENT_ORDERS |-> i - 1]
        /\ b.bbo = [side \in Sides |-> [price |-> NoPrice(side), quantity |-> 0]]
    BY <1>1 DEF EmptyBook, Shape, Index
  <1>3. /\ LEVEL_SLOTS \in Nat \ {0} /\ ORDER_SLOTS \in Nat \ {0} /\ MAX_CONCURRENT_ORDERS \in Nat \ {0}
    BY PoolAssumption
  <1>4. MapOK(b.levels, LEVEL_SLOTS) /\ MapOK(b.orders, ORDER_SLOTS)
        /\ (\A k \in Int : ~Has(b.levels, k)) /\ (\A k \in Int : ~Has(b.orders, k))
    BY <1>2, <1>3, EmptyMapFacts
  <1>5. PoolOK(b.pool)
    BY <1>2 DEF PoolOK
  <1>6. FreeOK(b.pool, b.free)
    <2>0. PICK f : f = b.free
      OBVIOUS
    <2>1. PICK n \in Nat \ {0} : n = MAX_CONCURRENT_ORDERS /\ f = b.free
      BY <1>3, <2>0
    <2>2. f = [i \in 1 .. n |-> i - 1] /\ Index = 0 .. n - 1
      BY <1>2, <2>1 DEF Index
    <2>3. f \in [1 .. n -> Index]
      BY ONLY <2>2, n \in Nat \ {0}
    <2>4. f \in Seq(Index)
      BY <2>3, SeqDef
    <2>5. Len(f) = n
      BY <2>2, <2>4, LenProperties
    <2>6. Distinct(f)
      BY ONLY <2>2, <2>5, n \in Nat \ {0} DEF Distinct
    <2>7. ASSUME NEW i \in Index PROVE b.pool[i] = NoOrder /\ \E k \in 1 .. Len(f) : f[k] = i
      <3>1. b.pool[i] = NoOrder
        BY <1>2
      <3>2. i + 1 \in 1 .. n /\ f[i + 1] = i
        BY ONLY <2>2, n \in Nat \ {0}, i \in Index
      <3> QED
        BY <3>1, <3>2, <2>5
    <2> QED
      BY <2>1, <2>4, <2>6, <2>7 DEF FreeOK
  <1>7. OrdersOK(b.pool, b.orders)
    BY <1>2, <1>4 DEF OrdersOK
  <1>8. PricesOK(b.levels, b.prices)
    <2>1. b.prices["Buy"] = {} /\ b.prices["Sell"] = {} /\ b.prices \in [Sides -> SUBSET Prices]
      BY <1>2 DEF Sides
    <2> QED
      BY <1>4, <2>1 DEF PricesOK
  <1>9. PICK q : q = [p \in Prices |-> <<>>]
    OBVIOUS
  <1>10. QueuesOK(b.pool, b.levels, b.prices, q)
    BY <1>2, <1>9 DEF QueuesOK
  <1>11. CoverOK(b.pool, b.prices, q)
    BY <1>2 DEF CoverOK
  <1>12. BestOK(b.levels, b.prices, b.bbo)
    BY <1>2 DEF BestOK, BestOf
  <1> QED
    BY <1>1, <1>2, <1>5, <1>6, <1>7, <1>8, <1>10, <1>11, <1>12 DEF Rep, BookOK

-----------------------------------------------------------------------------
(* The binary protocol: a message decodes to the event it was encoded from. *)
\* Dividing twice.
LEMMA DivDiv ==
    ASSUME NEW n \in Nat, NEW P \in Nat \ {0}, NEW B \in Nat \ {0}
    PROVE  n \div (B * P) = (n \div P) \div B
  <1>1. PICK a \in Int, r \in 0 .. P - 1 : a = n \div P /\ n = P * a + r
    <2>1. n \div P \in Int /\ n % P \in 0 .. P - 1 /\ n = P * (n \div P) + (n % P)
      OBVIOUS
    <2> QED
      BY <2>1
  <1>2. PICK c \in Int, s \in 0 .. B - 1 : c = a \div B /\ a = B * c + s
    <2>1. a \div B \in Int /\ a % B \in 0 .. B - 1 /\ a = B * (a \div B) + (a % B)
      BY ONLY a \in Int, B \in Nat \ {0}
    <2> QED
      BY <2>1
  <1>3. PICK R \in Nat \ {0} : R = B * P
    <2>1. B * P \in Nat \ {0}
      BY ONLY B \in Nat \ {0}, P \in Nat \ {0}
    <2> QED
      BY <2>1
  <1>4. PICK x \in 0 .. R - 1, k \in Int : k = n \div R /\ n = R * k + x
    <2>1. n \div R \in Int /\ n % R \in 0 .. R - 1 /\ n = R * (n \div R) + (n % R)
      BY ONLY n \in Nat, R \in Nat \ {0}
    <2> QED
      BY <2>1
  <1>5. PICK y \in Int : y = P * s + r
    OBVIOUS
  <1>6. y \in 0 .. R - 1
    <2>1. PICK t \in Nat : t = P * s
      <3>1. P * s \in Nat
        OBVIOUS
      <3> QED
        BY <3>1
    <2>2. t + P <= R
      <3>1. PICK u \in Nat : u = B - 1 - s
        OBVIOUS
      <3>2. B = s + 1 + u
        BY <3>1
      <3>3. R = P * s + P + P * u
        BY ONLY <3>2, <1>3, u \in Nat, s \in 0 .. B - 1, P \in Nat \ {0}, B \in Nat \ {0}
      <3>4. P * u \in Nat
        BY ONLY u \in Nat, P \in Nat \ {0}
      <3> QED
        BY ONLY <3>3, <3>4, <2>1, t \in Nat, P \in Nat \ {0}, R \in Nat
    <2> QED
      BY ONLY <2>1, <2>2, <1>5, t \in Nat, r \in 0 .. P - 1, P \in Nat \ {0}, R \in Nat
  <1>7. n = R * c + y
    <2>1. P * a = P * (B * c) + P * s
      <3>1. PICK e \in Int : e = B * c
        OBVIOUS
      <3>2. a = e + s /\ s \in Int
        BY <3>1, <1>2
      <3>3. P * (e + s) = P * e + P * s
        BY ONLY <3>2, P \in Nat, e \in Int
      <3> QED
        BY <3>1, <3>2, <3>3
    <2>2. P * (B * c) = R * c
      BY ONLY <1>3, P \in Nat, B \in Nat, c \in Int
    <2>3. PICK u \in Int, v \in Int, z \in Int : u = P * a /\ v = R * c /\ z = P * s
      OBVIOUS
    <2>4. u = v + z /\ n = u + r /\ y = z + r
      BY <2>1, <2>2, <2>3, <1>1, <1>5
    <2> QED
      BY ONLY <2>3, <2>4, n \in Nat, u \in Int, v \in Int, z \in Int, r \in 0 .. P - 1, P \in Nat
  <1>8. k = c
    <2>1. y - x = R * (k - c)
      <3>1. PICK u \in Int, v \in Int : u = R * k /\ v = R * c
        OBVIOUS
      <3>2. R * (k - c) = u - v
        BY ONLY <3>1, R \in Nat, k \in Int, c \in Int
      <3>3. n = u + x /\ n = v + y
        BY <3>1, <1>4, <1>7
      <3>4. x \in Int /\ y \in Int
        OBVIOUS
      <3> QED
        BY ONLY <3>2, <3>3, <3>4, u \in Int, v \in Int, n \in Nat
    <2>2. x = y
      <3>1. k - c \in Int
        OBVIOUS
      <3> QED
        BY ONLY <2>1, <3>1, <1>6, R \in Nat \ {0}, x \in 0 .. R - 1, SameRemainder
    <2>3. R * (k - c) = 0
      BY ONLY <2>1, <2>2, x \in 0 .. R - 1, R \in Nat \ {0}
    <2> QED
      BY ONLY <2>3, R \in Nat \ {0}, k \in Int, c \in Int
  <1> QED
    BY <1>1, <1>2, <1>3, <1>4, <1>8

\* The bytes of n, in `bytes' of them.
Bytes(n, k, s) == Len(s) = k /\ \A i \in 1 .. k : s[i] = (n \div BYTE ^ (k - i)) % BYTE
\* The values Host() goes through.
Values(s, f) == f = [i \in 0 .. Len(s) |-> IF i = 0 THEN 0 ELSE f[i - 1] * BYTE + s[i]]

\* Two runs through the same bytes agree.
LEMMA ValuesUnique ==
    ASSUME NEW s, NEW k \in Nat, Len(s) = k, NEW f, Values(s, f), NEW g, Values(s, g)
    PROVE  f[k] = g[k]
  <1> DEFINE T == {i \in 0 .. k : f[i] # g[i]}
  <1>1. SUFFICES ASSUME T # {} PROVE FALSE
    OBVIOUS
  <1>2. PICK m \in T : \A i \in T : m <= i
    <2>1. T \subseteq Nat
      OBVIOUS
    <2> HIDE DEF T
    <2> QED
      BY <1>1, <2>1, LeastNat
  <1>3. m \in 0 .. k /\ f[m] # g[m]
    OBVIOUS
  <1>4. m # 0
    BY <1>3 DEF Values
  <1>5. m - 1 \in 0 .. k /\ m - 1 \notin T
    BY <1>2, <1>3, <1>4
  <1>6. f[m - 1] = g[m - 1]
    BY <1>5
  <1>7. f[m] = f[m - 1] * BYTE + s[m] /\ g[m] = g[m - 1] * BYTE + s[m]
    BY <1>3, <1>4 DEF Values
  <1> QED
    BY <1>3, <1>6, <1>7

\* Host() is where they end.
LEMMA HostIs ==
    ASSUME NEW s, NEW k \in Nat, Len(s) = k, NEW f, Values(s, f)
    PROVE  Host(s) = f[k]
  <1> DEFINE E(g) == Values(s, g)
  <1>1. PICK h : h = CHOOSE g : E(g)
    OBVIOUS
  <1>2. E(f)
    OBVIOUS
  <1>3. E(h)
    <2> HIDE DEF E
    <2> QED BY <1>1, <1>2
  <1>4. Host(s) = h[k]
    BY <1>1 DEF Host, Values
  <1>5. h[k] = f[k]
    BY <1>3, ValuesUnique
  <1> QED
    BY <1>4, <1>5

\* ntohl undoes htonl, ntohll htonll.
LEMMA HostNetwork ==
    ASSUME NEW k \in {ID_BYTES, WORD_BYTES}, NEW n \in Nat, n < BYTE ^ k, NEW s, Bytes(n, k, s)
    PROVE  Host(s) = n
  <1>1. k \in Nat \ {0} /\ BYTE \in Nat \ {0}
    BY WidthAssumption
  <1>2. PICK P : P = [i \in 0 .. k |-> BYTE ^ i]
    OBVIOUS
  <1>3. P[0] = 1 /\ \A i \in 0 .. k : P[i] \in Nat /\ (i < k => P[i + 1] = BYTE * P[i])
    <2>1. \A i \in 0 .. k : BYTE ^ i \in Nat /\ (i < k => BYTE ^ (i + 1) = BYTE * BYTE ^ i)
      BY PowerAssumption
    <2>2. BYTE ^ 0 = 1
      BY PowerAssumption
    <2>3. ASSUME NEW i \in 0 .. k, i < k PROVE i + 1 \in 0 .. k
      BY <2>3, <1>1
    <2>4. \A i \in 0 .. k : P[i] = BYTE ^ i
      BY <1>2
    <2>5. 0 \in 0 .. k
      BY <1>1
    <2>6. P[0] = 1
      BY <2>2, <2>4, <2>5
    <2>7. ASSUME NEW i \in 0 .. k, i < k PROVE P[i + 1] = BYTE * P[i]
      <3>1. i + 1 \in 0 .. k
        BY <2>3, <2>7
      <3>2. PICK j \in 0 .. k : j = i + 1
        BY <3>1
      <3>3. BYTE ^ j = BYTE * BYTE ^ i
        BY <2>1, <2>7, <3>2
      <3> QED
        BY <3>2, <3>3, <2>4
    <2> QED
      BY <2>1, <2>4, <2>6, <2>7
  <1>4. \A i \in 0 .. k : P[i] \in Nat \ {0}
    <2> DEFINE T == {i \in 0 .. k : P[i] = 0}
    <2>1. SUFFICES ASSUME T # {} PROVE FALSE
      BY <1>3
    <2>2. PICK m \in T : \A i \in T : m <= i
      <3>1. T \subseteq Nat
        OBVIOUS
      <3> HIDE DEF T
      <3> QED
        BY <2>1, <3>1, LeastNat
    <2>3. m \in 0 .. k /\ P[m] = 0 /\ m # 0
      BY <1>3
    <2>4. PICK j \in 0 .. k : j = m - 1 /\ j \notin T /\ j < k
      <3>1. m - 1 \in 0 .. k /\ m - 1 < k
        BY <2>3, <1>1
      <3>2. m - 1 \notin T
        BY <2>2, <2>3, <3>1, <1>1
      <3> QED
        BY <3>1, <3>2
    <2>5. P[j] \in Nat \ {0}
      BY <2>4, <1>3
    <2>6. P[m] = BYTE * P[j]
      <3>1. m = j + 1
        BY <2>3, <2>4, <1>1
      <3> QED
        BY <3>1, <2>4, <1>3
    <2>7. PICK a \in Nat \ {0}, b \in Nat \ {0} : a = P[j] /\ b = BYTE
      BY <2>5, <1>1
    <2>8. b * a # 0
      BY ONLY a \in Nat \ {0}, b \in Nat \ {0}
    <2> QED
      BY <2>3, <2>6, <2>7, <2>8
  <1>5. PICK f : f = [i \in 0 .. k |-> n \div P[k - i]]
    OBVIOUS
  <1>6. \A i \in 0 .. k : f[i] = n \div P[k - i] /\ k - i \in 0 .. k
    BY <1>1, <1>5
  <1>7. f[0] = 0 /\ f[k] = n
    <2>1. f[0] = n \div P[k] /\ f[k] = n \div P[0]
      <3>1. k - 0 = k /\ k - k = 0 /\ 0 \in 0 .. k /\ k \in 0 .. k
        BY <1>1
      <3> QED
        BY <3>1, <1>6
    <2>2. n \div 1 = n
      OBVIOUS
    <2>3. n < P[k] /\ P[k] \in Nat \ {0}
      BY <1>1, <1>2, <1>4
    <2>4. n \div P[k] = 0
      <3>1. PICK p \in Nat \ {0} : p = P[k]
        BY <2>3
      <3>2. n \div p = 0
        BY ONLY <3>1, <2>3, n \in Nat, p \in Nat \ {0}
      <3> QED
        BY <3>1, <3>2
    <2> QED
      BY <2>1, <2>2, <2>4, <1>3
  <1>8. ASSUME NEW i \in 1 .. k PROVE f[i] = f[i - 1] * BYTE + s[i]
    <2>1. PICK p \in Nat \ {0}, B \in Nat \ {0}, a \in Nat : p = P[k - i] /\ B = BYTE /\ a = n \div p
      <3>1. k - i \in 0 .. k
        BY <1>1
      <3>2. PICK p \in Nat \ {0} : p = P[k - i]
        BY <3>1, <1>4
      <3>3. n \div p \in Nat
        BY ONLY n \in Nat, p \in Nat \ {0}
      <3> QED
        BY <3>2, <3>3, <1>1
    <2>2. f[i] = a
      BY <2>1, <1>1, <1>6
    <2>3. f[i - 1] = a \div B
      <3>1. PICK j \in 0 .. k : j = k - i /\ j < k /\ k - (i - 1) = j + 1
        BY <1>1
      <3>2. P[k - (i - 1)] = B * p
        BY <3>1, <2>1, <1>3
      <3>3. i - 1 \in 0 .. k
        BY <1>1
      <3>4. f[i - 1] = n \div (B * p)
        BY <3>2, <3>3, <1>6
      <3> QED
        BY <3>4, <2>1, DivDiv
    <2>4. s[i] = a % B
      <3>1. s[i] = (n \div BYTE ^ (k - i)) % BYTE
        BY DEF Bytes
      <3>2. BYTE ^ (k - i) = p
        BY <2>1, <1>1, <1>2
      <3> QED
        BY <3>1, <3>2, <2>1
    <2>5. a \div B \in Int /\ a % B \in 0 .. B - 1 /\ a = B * (a \div B) + (a % B)
      <3>1. a \in Int
        OBVIOUS
      <3> QED
        BY ONLY <3>1, B \in Nat \ {0}
    <2>6. PICK x \in Int, y \in Int : x = a \div B /\ y = a % B
      BY <2>5
    <2>7. a = x * B + y
      BY ONLY <2>5, <2>6, a \in Nat, B \in Nat, x \in Int, y \in Int
    <2> QED
      BY <2>1, <2>2, <2>3, <2>4, <2>6, <2>7
  <1>9. Len(s) = k
    BY DEF Bytes
  <1>10. Values(s, f)
    <2>1. f = [i \in 0 .. k |-> f[i]]
      BY <1>5
    <2>2. \A i \in 0 .. k : f[i] = IF i = 0 THEN 0 ELSE f[i - 1] * BYTE + s[i]
      BY <1>1, <1>7, <1>8
    <2> QED
      BY <2>1, <2>2, <1>9 DEF Values
  <1> QED
    BY <1>1, <1>7, <1>9, <1>10, HostIs

\* What the CLOB publishes.
Events == [type : TypeNames,
           order : [order_id : 0 .. MaxOrderId, price : Prices \cup {0},
                    quantity : 0 .. QUANTITY_RANGE - 1, side : Sides]]

\* A field of a message.
LEMMA FieldIs ==
    ASSUME NEW S, NEW w \in Seq(S), NEW off \in Nat, NEW k \in Nat, off + k <= Len(w),
           NEW f, f = Field(w, off, k)
    PROVE  Len(f) = k /\ \A i \in 1 .. k : f[i] = w[off + i]
  <1>1. PICK l \in Nat : l = Len(w)
    BY LenProperties
  <1>2. PICK m \in Int, n \in Int : m = off + 1 /\ n = off + k
    OBVIOUS
  <1>3. ASSUME NEW i \in m .. n PROVE w[i] \in S
    <2>1. i \in 1 .. Len(w)
      BY ONLY <1>1, <1>2, i \in m .. n, m \in Int, n \in Int, off \in Nat, k \in Nat, off + k <= Len(w), l \in Nat
    <2> QED
      BY <2>1, ElementOfSeq
  <1>4. f = SubSeq(w, m, n)
    BY <1>2 DEF Field
  <1>5. /\ Len(f) = IF m <= n THEN n - m + 1 ELSE 0
        /\ \A i \in 1 .. n - m + 1 : f[i] = w[m + i - 1]
    BY ONLY <1>3, <1>4, SubSeqProperties, SMTT(60)
  <1>6. Len(f) = k
    BY ONLY <1>2, <1>5, off \in Nat, k \in Nat
  <1>7. ASSUME NEW i \in 1 .. k PROVE f[i] = w[off + i]
    <2>1. i \in 1 .. n - m + 1 /\ m + i - 1 = off + i
      BY ONLY <1>2, off \in Nat, k \in Nat, i \in 1 .. k
    <2> QED
      BY <2>1, <1>5
  <1> QED
    BY <1>6, <1>7

\* Two sequences, one behind the other.
Piece(s, S, n) == s \in Seq(S) /\ Len(s) = n /\ n \in Nat
\* u is t behind s.
Follows(u, s, t) == u = s \o t
\* Where the elements of s and t are found in u.
Joins(u, s, m, t, n) == /\ \A i \in 1 .. m : u[i] = s[i]
                        /\ \A i \in 1 .. n : u[m + i] = t[i]

\* Concatenation, in those terms.
LEMMA Joining ==
    ASSUME NEW S, NEW s, NEW m, Piece(s, S, m), NEW t, NEW n, Piece(t, S, n), NEW u, Follows(u, s, t)
    PROVE  Piece(u, S, m + n) /\ Joins(u, s, m, t, n)
  <1>0. /\ s \in Seq(S) /\ t \in Seq(S) /\ Len(s) = m /\ Len(t) = n /\ m \in Nat /\ n \in Nat
        /\ u = s \o t
    BY DEF Piece, Follows
  <1>1. /\ u \in Seq(S) /\ Len(u) = m + n
        /\ \A i \in 1 .. m + n : u[i] = IF i <= m THEN s[i] ELSE t[i - m]
    BY <1>0, ConcatProperties
  <1>2. ASSUME NEW i \in 1 .. m PROVE u[i] = s[i]
    BY <1>0, <1>1
  <1>3. ASSUME NEW i \in 1 .. n PROVE u[m + i] = t[i]
    <2>1. PICK j \in 1 .. m + n : j = m + i /\ ~(j <= m) /\ j - m = i
      BY <1>0
    <2> QED
      BY <2>1, <1>1
  <1> QED
    BY <1>0, <1>1, <1>2, <1>3 DEF Piece, Joins

\* The bytes htonl() writes are a sequence.
LEMMA NetworkSeq ==
    ASSUME NEW n, NEW k \in Nat, NEW s, s = Network(n, k)
    PROVE  \E S : s \in Seq(S) /\ Len(s) = k /\ Bytes(n, k, s)
  <1>1. s = [i \in 1 .. k |-> (n \div BYTE ^ (k - i)) % BYTE]
    BY DEF Network
  <1>2. PICK S : S = {s[i] : i \in 1 .. k}
    OBVIOUS
  <1>3. s \in [1 .. k -> S]
    BY <1>1, <1>2
  <1>4. s \in Seq(S)
    BY <1>3, SeqDef
  <1>5. Len(s) = k
    BY <1>1, <1>4, LenProperties
  <1> QED
    BY <1>1, <1>4, <1>5 DEF Bytes

\* The number of an enumerator names it.
LEMMA Enumerators ==
    /\ \A t \in TypeNames : /\ Types[Enumerator(Types, t) + 1] = t
                            /\ Enumerator(Types, t) \in Int
    /\ \A s \in Sides : /\ SideNames[Enumerator(SideNames, s) + 1] = s
                        /\ Enumerator(SideNames, s) \in Int
  <1>1. ASSUME NEW names, NEW n \in Nat, Len(names) = n, NEW x, \E i \in 1 .. n : names[i] = x
        PROVE  names[Enumerator(names, x) + 1] = x /\ Enumerator(names, x) \in Int
    <2>1. PICK i : i = CHOOSE j \in 1 .. Len(names) : names[j] = x
      OBVIOUS
    <2>2. i \in 1 .. n /\ names[i] = x
      BY <1>1, <2>1
    <2>3. Enumerator(names, x) = i - 1
      BY <2>1 DEF Enumerator
    <2>4. (i - 1) + 1 = i /\ i - 1 \in Int
      BY <2>2
    <2> QED
      BY <2>2, <2>3, <2>4
  <1>2. Len(Types) = 4 /\ \A t \in TypeNames : \E i \in 1 .. 4 : Types[i] = t
    BY DEF Types, TypeNames
  <1>3. Len(SideNames) = 2 /\ \A s \in Sides : \E i \in 1 .. 2 : SideNames[i] = s
    BY DEF SideNames, Sides
  <1> QED
    BY <1>1, <1>2, <1>3

\* A price survives the casts to uint32_t and back.
LEMMA SignedUnsigned ==
    ASSUME NEW p \in Prices \cup {0}
    PROVE  Unsigned(p) \in Nat /\ Unsigned(p) < WORD_RANGE /\ Signed(Unsigned(p)) = p
  <1>1. PICK W \in Nat \ {0} : W = WORD_RANGE
    BY BookAssumption, PoolAssumption
  <1>2. p \in Int /\ -W <= 2 * p /\ 2 * p < W
    <2>1. CASE p = 0
      BY <2>1, <1>1
    <2>2. CASE p \in Prices
      <3>1. PICK lo \in Int, hi \in Int : lo = NO_BID /\ hi = NO_OFFER
        BY PoolAssumption
      <3>2. p \in Int /\ lo < p /\ p < hi /\ -W <= 2 * lo /\ 2 * hi < W
        BY <2>2, <3>1, <1>1, BookAssumption
      <3> QED
        BY ONLY <3>2, lo \in Int, hi \in Int, W \in Nat
    <2> QED
      BY <2>1, <2>2
  <1>3. PICK n \in 0 .. W - 1, k \in Int : n = p % W /\ p = W * k + n
    BY <1>1, <1>2, Quotient
  <1>4. Unsigned(p) = n
    BY <1>1, <1>3 DEF Unsigned
  <1>5. (IF 2 * n >= W THEN n - W ELSE n) = p
    <2>1. CASE p >= 0
      <3>1. n = p
        <4>1. p \in 0 .. W - 1 /\ n - p = W * (-k) /\ -k \in Int
          BY ONLY <2>1, <1>2, <1>3, W \in Nat, k \in Int
        <4> QED
          BY ONLY <4>1, W \in Nat \ {0}, n \in 0 .. W - 1, SameRemainder
      <3> QED
        BY ONLY <3>1, <1>2, <2>1, W \in Nat
    <2>2. CASE p < 0
      <3>1. n = p + W
        <4>1. p + W \in 0 .. W - 1
          BY ONLY <2>2, <1>2, W \in Nat
        <4>2. n - (p + W) = W * (-k - 1) /\ -k - 1 \in Int
          <5>1. PICK u \in Int : u = W * k
            OBVIOUS
          <5>2. W * (-k - 1) = -u - W
            BY ONLY <5>1, W \in Nat, k \in Int
          <5>3. n \in Int /\ p = u + n
            BY <5>1, <1>3
          <5> QED
            BY ONLY <5>2, <5>3, <1>2, W \in Nat, u \in Int, k \in Int
        <4> QED
          BY ONLY <4>1, <4>2, W \in Nat \ {0}, n \in 0 .. W - 1, SameRemainder
      <3> QED
        BY ONLY <3>1, <1>2, <2>2, W \in Nat
    <2> QED
      BY ONLY <2>1, <2>2, <1>2
  <1>6. Signed(n) = p
    BY <1>1, <1>5 DEF Signed
  <1> QED
    BY <1>1, <1>4, <1>6

\* What encode() lays out, part by part.
Layout(w, e, a, b, c, d, x, y) ==
    /\ w[1] = e /\ w[1 + x + y + y + 1] = d
    /\ \A i \in 1 .. x : w[1 + i] = a[i]
    /\ \A i \in 1 .. y : w[1 + x + i] = b[i]
    /\ \A i \in 1 .. y : w[1 + x + y + i] = c[i]

\* That is where the parts of an encoded event are found.
LEMMA LaidOut ==
    ASSUME NEW e, NEW d, NEW x, NEW y, NEW a, NEW b, NEW c,
           \E S : Piece(a, S, x), \E S : Piece(b, S, y), \E S : Piece(c, S, y),
           NEW w, w = <<e>> \o a \o b \o c \o <<d>>
    PROVE  /\ \E S : Piece(w, S, 1 + x + y + y + 1)
           /\ Layout(w, e, a, b, c, d, x, y)
  <1>0. x \in Nat /\ y \in Nat
    BY DEF Piece
  <1>1. PICK S : Piece(a, S, x) /\ Piece(b, S, y) /\ Piece(c, S, y) /\ e \in S /\ d \in S
    <2>1. PICK A, B, C : Piece(a, A, x) /\ Piece(b, B, y) /\ Piece(c, C, y)
      OBVIOUS
    <2>2. PICK S : S = A \cup B \cup C \cup {e, d}
      OBVIOUS
    <2>3. A \subseteq S /\ B \subseteq S /\ C \subseteq S /\ e \in S /\ d \in S
      BY <2>2
    <2>4. Piece(a, S, x) /\ Piece(b, S, y) /\ Piece(c, S, y)
      BY <2>1, <2>3 DEF Piece
    <2> QED
      BY <2>3, <2>4
  <1>2. PICK s0, s1, s2, s3, t : /\ s0 = <<e>> /\ s1 = s0 \o a /\ s2 = s1 \o b /\ s3 = s2 \o c
                                 /\ t = <<d>>
    OBVIOUS
  <1>3. Follows(s1, s0, a) /\ Follows(s2, s1, b) /\ Follows(s3, s2, c) /\ Follows(w, s3, t)
    BY <1>2 DEF Follows
  <1>4. Piece(s0, S, 1) /\ s0[1] = e /\ Piece(t, S, 1) /\ t[1] = d
    BY <1>1, <1>2 DEF Piece
  <1>5. PICK m, n, k : m = 1 + x /\ n = m + y /\ k = n + y
    OBVIOUS
  <1>6. Piece(s1, S, m) /\ Joins(s1, s0, 1, a, x)
    <2>1. Piece(s1, S, 1 + x) /\ Joins(s1, s0, 1, a, x)
      BY ONLY <1>1, <1>3, <1>4, Joining
    <2> QED
      BY <2>1, <1>5
  <1>7. Piece(s2, S, n) /\ Joins(s2, s1, m, b, y)
    <2>1. Piece(s2, S, m + y) /\ Joins(s2, s1, m, b, y)
      BY ONLY <1>1, <1>3, <1>6, Joining
    <2> QED
      BY <2>1, <1>5
  <1>8. Piece(s3, S, k) /\ Joins(s3, s2, n, c, y)
    <2>1. Piece(s3, S, n + y) /\ Joins(s3, s2, n, c, y)
      BY ONLY <1>1, <1>3, <1>7, Joining
    <2> QED
      BY <2>1, <1>5
  <1>9. Piece(w, S, k + 1) /\ Joins(w, s3, k, t, 1)
    BY ONLY <1>3, <1>4, <1>8, Joining
  <1>10. m \in Nat /\ n \in Nat /\ k \in Nat
    BY <1>0, <1>5
  <1>11. \A i \in 1 .. k : w[i] = s3[i]
    BY <1>9 DEF Joins
  <1>12. w[1] = e
    <2>1. 1 \in 1 .. 1 /\ 1 \in 1 .. m /\ 1 \in 1 .. n /\ 1 \in 1 .. k
      BY ONLY <1>0, <1>5
    <2> QED
      BY <2>1, <1>4, <1>6, <1>7, <1>8, <1>11 DEF Joins
  <1>13. ASSUME NEW i \in 1 .. x PROVE w[1 + i] = a[i]
    <2>1. PICK j : j = 1 + i /\ j \in 1 .. m /\ j \in 1 .. n /\ j \in 1 .. k
      BY ONLY <1>0, <1>5, i \in 1 .. x
    <2>2. s1[1 + i] = a[i]
      BY <1>6 DEF Joins
    <2> QED
      BY <2>1, <2>2, <1>7, <1>8, <1>11 DEF Joins
  <1>14. ASSUME NEW i \in 1 .. y PROVE w[m + i] = b[i]
    <2>1. PICK j : j = m + i /\ j \in 1 .. n /\ j \in 1 .. k
      BY ONLY <1>0, <1>5, <1>10, i \in 1 .. y
    <2>2. s2[m + i] = b[i]
      BY <1>7 DEF Joins
    <2> QED
      BY <2>1, <2>2, <1>8, <1>11 DEF Joins
  <1>15. ASSUME NEW i \in 1 .. y PROVE w[n + i] = c[i]
    <2>1. PICK j : j = n + i /\ j \in 1 .. k
      BY ONLY <1>0, <1>5, <1>10, i \in 1 .. y
    <2>2. s3[n + i] = c[i]
      BY <1>8 DEF Joins
    <2> QED
      BY <2>1, <2>2, <1>11
  <1>16. w[k + 1] = d
    <2>1. \A i \in 1 .. 1 : w[k + i] = t[i]
      BY <1>9 DEF Joins
    <2>2. 1 \in 1 .. 1
      OBVIOUS
    <2> QED
      BY <2>1, <2>2, <1>4
  <1>17. Layout(w, e, a, b, c, d, x, y)
    BY <1>5, <1>12, <1>13, <1>14, <1>15, <1>16 DEF Layout
  <1> QED
    BY <1>5, <1>9, <1>17

\* A field that is bytes reads as their number.
Holding(w, off, k, s) == \A i \in 1 .. k : w[off + i] = s[i]

\* Reading a field back gives what was written there.
LEMMA FieldHost ==
    ASSUME NEW S, NEW w \in Seq(S), NEW off \in Nat, NEW k \in {ID_BYTES, WORD_BYTES}, off + k <= Len(w),
           NEW n \in Nat, n < BYTE ^ k, NEW s, Bytes(n, k, s), Holding(w, off, k, s)
    PROVE  Host(Field(w, off, k)) = n
  <1>1. PICK f : f = Field(w, off, k)
    OBVIOUS
  <1>2. k \in Nat
    BY WidthAssumption
  <1>3. Len(f) = k /\ \A i \in 1 .. k : f[i] = w[off + i]
    BY <1>1, <1>2, FieldIs
  <1>4. Bytes(n, k, f)
    BY <1>3 DEF Bytes, Holding
  <1> QED
    BY <1>1, <1>4, HostNetwork

\* What is encoded is decoded: the type, the order and its side.
LEMMA RoundTrip ==
    ASSUME NEW event \in Events
    PROVE  decode(encode(event)) = event
  <1>1. PICK type, o : type = event.type /\ o = event.order
    OBVIOUS
  <1>2. PICK id, p, v, side : id = o.order_id /\ p = o.price /\ v = o.quantity /\ side = o.side
    OBVIOUS
  <1>3. /\ type \in TypeNames /\ id \in 0 .. MaxOrderId /\ p \in Prices \cup {0}
        /\ v \in 0 .. QUANTITY_RANGE - 1 /\ side \in Sides
        /\ o = [order_id |-> id, price |-> p, quantity |-> v, side |-> side]
        /\ event = [type |-> type, order |-> o]
    BY <1>1, <1>2 DEF Events
  <1>4. PICK x \in Nat \ {0}, y \in Nat \ {0} : x = ID_BYTES /\ y = WORD_BYTES
    BY WidthAssumption
  <1>5. PICK u : u = Unsigned(p)
    OBVIOUS
  <1>6. u \in Nat /\ u < BYTE ^ y /\ Signed(u) = p
    BY <1>3, <1>4, <1>5, SignedUnsigned DEF WORD_RANGE
  <1>7. id \in Nat /\ id < BYTE ^ x /\ v \in Nat /\ v < BYTE ^ y
    <2>1. /\ MaxOrderId \in Nat /\ MaxOrderId < BYTE ^ x /\ QUANTITY_RANGE = BYTE ^ y
          /\ QUANTITY_RANGE \in Nat
      BY <1>4, BookAssumption, PoolAssumption DEF WORD_RANGE
    <2>2. BYTE ^ x \in Nat
      <3>1. \A n \in 0 .. x : BYTE ^ n \in Nat
        BY <1>4, PowerAssumption
      <3> QED
        BY <3>1
    <2>3. PICK X \in Nat : X = BYTE ^ x
      BY <2>2
    <2>4. id \in Nat /\ id < X
      BY ONLY <2>1, <2>3, <1>3, X \in Nat
    <2>5. v \in Nat /\ v < QUANTITY_RANGE
      BY ONLY <2>1, <1>3
    <2> QED
      BY <2>1, <2>3, <2>4, <2>5
  <1>8. PICK a, b, c, e, d : /\ a = Network(id, x) /\ b = Network(u, y) /\ c = Network(v, y)
                             /\ e = Enumerator(Types, type) /\ d = Enumerator(SideNames, side)
    OBVIOUS
  <1>9. PICK w : w = <<e>> \o a \o b \o c \o <<d>>
    OBVIOUS
  <1>10. encode(event) = w
    <2>1. event.type = type /\ event.order = o /\ o.order_id = id /\ o.price = p /\ o.quantity = v /\ o.side = side
      BY <1>1, <1>2
    <2> QED
      BY <2>1, <1>4, <1>5, <1>8, <1>9 DEF encode
  <1>11. /\ (\E S : Piece(a, S, x)) /\ Bytes(id, x, a)
         /\ (\E S : Piece(b, S, y)) /\ Bytes(u, y, b)
         /\ (\E S : Piece(c, S, y)) /\ Bytes(v, y, c)
    <2>1. (\E S : Piece(a, S, x)) /\ Bytes(id, x, a)
      BY <1>4, <1>8, NetworkSeq DEF Piece
    <2>2. (\E S : Piece(b, S, y)) /\ Bytes(u, y, b)
      BY <1>4, <1>8, NetworkSeq DEF Piece
    <2>3. (\E S : Piece(c, S, y)) /\ Bytes(v, y, c)
      BY <1>4, <1>8, NetworkSeq DEF Piece
    <2> QED
      BY <2>1, <2>2, <2>3
  <1>12. PICK S : w \in Seq(S) /\ Len(w) = 1 + x + y + y + 1 /\ Layout(w, e, a, b, c, d, x, y)
    <2>1. (\E S : Piece(w, S, 1 + x + y + y + 1)) /\ Layout(w, e, a, b, c, d, x, y)
      BY ONLY <1>9, <1>11, LaidOut
    <2> QED
      BY <2>1 DEF Piece
  <1>13. PICK off1 \in Nat, off2 \in Nat, off3 \in Nat : off1 = 1 + x /\ off2 = off1 + y /\ off3 = off2 + y
    OBVIOUS
  <1>14. /\ w[1] = e /\ w[off3 + 1] = d /\ Holding(w, 1, x, a)
         /\ Holding(w, off1, y, b) /\ Holding(w, off2, y, c)
    BY <1>12, <1>13 DEF Layout, Holding
  <1>15. 1 + x <= Len(w) /\ off1 + y <= Len(w) /\ off2 + y <= Len(w)
    <2>1. PICK l \in Nat : l = Len(w)
      BY <1>12, LenProperties
    <2> QED
      BY ONLY <2>1, <1>12, <1>13, x \in Nat, y \in Nat, l \in Nat
  <1>16. Host(Field(w, 1, x)) = id
    <2>1. 1 \in Nat /\ x \in {ID_BYTES, WORD_BYTES}
      BY <1>4
    <2> QED
      BY ONLY <2>1, <1>7, <1>11, <1>12, <1>14, <1>15, FieldHost, SMTT(60)
  <1>17. Host(Field(w, off1, y)) = u /\ Host(Field(w, off2, y)) = v
    <2>1. y \in {ID_BYTES, WORD_BYTES}
      BY <1>4
    <2>2. Host(Field(w, off1, y)) = u
      <3>1. /\ w \in Seq(S) /\ off1 + y <= Len(w) /\ u \in Nat /\ u < BYTE ^ y /\ Bytes(u, y, b)
            /\ Holding(w, off1, y, b)
        BY <1>6, <1>11, <1>12, <1>14, <1>15
      <3> QED
        BY ONLY <2>1, <3>1, off1 \in Nat, FieldHost
    <2>3. Host(Field(w, off2, y)) = v
      <3>1. /\ w \in Seq(S) /\ off2 + y <= Len(w) /\ v \in Nat /\ v < BYTE ^ y /\ Bytes(v, y, c)
            /\ Holding(w, off2, y, c)
        BY <1>7, <1>11, <1>12, <1>14, <1>15
      <3> QED
        BY ONLY <2>1, <3>1, off2 \in Nat, FieldHost
    <2> QED
      BY <2>2, <2>3
  <1>18. Types[w[1] + 1] = type /\ SideNames[w[off3 + 1] + 1] = side
    BY <1>3, <1>8, <1>14, Enumerators
  <1>19. decode(w) = [type |-> Types[w[1] + 1],
                      order |-> [order_id |-> Host(Field(w, 1, x)),
                                 price |-> Signed(Host(Field(w, off1, y))),
                                 quantity |-> Host(Field(w, off2, y)),
                                 side |-> SideNames[w[off3 + 1] + 1]]]
    BY <1>4, <1>13 DEF decode
  <1> QED
    BY <1>3, <1>6, <1>10, <1>16, <1>17, <1>18, <1>19

-----------------------------------------------------------------------------
(* The feed: the books between the engine's and the exchange's. *)
\* The books between the engine's and the exchange's, one for every message on
\* its way.
History(h, r, f, b) ==
    /\ h = [n \in 0 .. Len(f) |-> h[n]] /\ h[0] = r /\ h[Len(f)] = b
    /\ \A n \in 0 .. Len(f) : BookOK(h[n])
    /\ \A n \in 1 .. Len(f) : h[n] = execute(h[n - 1], decode(f[n])).book
\* Replaying the messages f turns the book r into b.
Replays(r, f, b) == \E h : History(h, r, f, b)

\* The exchange executes an event and sends it.
LEMMA ReplaysMore ==
    ASSUME NEW r, NEW f, f \in Seq(ToSet(f)), NEW b, Replays(r, f, b), NEW w, NEW c, BookOK(c),
           c = execute(b, decode(w)).book, NEW g, g = Append(f, w)
    PROVE  Replays(r, g, c) /\ g \in Seq(ToSet(g))
  <1>1. PICK h : History(h, r, f, b)
    BY DEF Replays
  <1>2. PICK S : S = ToSet(f) \cup {w}
    OBVIOUS
  <1>3. f \in Seq(S) /\ w \in S
    BY <1>2
  <1>4. PICK l \in Nat : l = Len(f)
    BY LenProperties
  <1>5. /\ g \in Seq(S) /\ Len(g) = l + 1 /\ DOMAIN g = 1 .. l + 1
        /\ (\A i \in 1 .. l : g[i] = f[i]) /\ g[l + 1] = w
    BY <1>3, <1>4, AppendProperties, LenProperties
  <1>6. g \in Seq(ToSet(g))
    BY <1>5, SMTT(60) DEF ToSet
  <1>7. PICK k : k = [n \in 0 .. l + 1 |-> IF n = l + 1 THEN c ELSE h[n]]
    OBVIOUS
  <1>8. k[l + 1] = c /\ \A n \in 0 .. l : k[n] = h[n]
    BY <1>7
  <1>9. /\ h[0] = r /\ h[l] = b /\ (\A n \in 0 .. l : BookOK(h[n]))
        /\ \A n \in 1 .. l : h[n] = execute(h[n - 1], decode(f[n])).book
    BY <1>1, <1>4 DEF History
  <1>10. k = [n \in 0 .. l + 1 |-> k[n]]
    BY <1>7
  <1>11. k[0] = r
    BY <1>8, <1>9
  <1>12. ASSUME NEW n \in 0 .. l + 1 PROVE BookOK(k[n])
    <2>1. CASE n = l + 1
      BY <2>1, <1>8
    <2>2. CASE n \in 0 .. l
      BY <2>2, <1>8, <1>9
    <2> QED
      BY <2>1, <2>2
  <1>13. ASSUME NEW n \in 1 .. l + 1 PROVE k[n] = execute(k[n - 1], decode(g[n])).book
    <2>1. CASE n = l + 1
      <3>1. n - 1 = l /\ l \in 0 .. l
        BY <2>1
      <3>2. k[n - 1] = b /\ g[n] = w /\ k[n] = c
        BY <2>1, <3>1, <1>5, <1>8, <1>9
      <3> QED
        BY <3>2
    <2>2. CASE n \in 1 .. l
      <3>1. n - 1 \in 0 .. l /\ n \in 0 .. l
        BY <2>2
      <3>2. k[n - 1] = h[n - 1] /\ k[n] = h[n] /\ g[n] = f[n]
        BY <2>2, <3>1, <1>5, <1>8
      <3> QED
        BY <2>2, <3>2, <1>9
    <2>3. n = l + 1 \/ n \in 1 .. l
      OBVIOUS
    <2> QED
      BY ONLY <2>1, <2>2, <2>3
  <1>14. History(k, r, g, c)
    BY <1>5, <1>8, <1>10, <1>11, <1>12, <1>13 DEF History
  <1> QED
    BY <1>6, <1>14 DEF Replays

\* The engine executes the event it was sent first.
LEMMA ReplaysLess ==
    ASSUME NEW r, NEW f, f \in Seq(ToSet(f)), NEW b, Replays(r, f, b), f # <<>>,
           NEW g, g = Tail(f), NEW c, c = execute(r, decode(Head(f))).book
    PROVE  Replays(c, g, b) /\ g \in Seq(ToSet(g))
  <1>1. PICK h : History(h, r, f, b)
    BY DEF Replays
  <1>2. PICK l \in Nat : Len(f) = l + 1
    <2>1. Len(f) \in Nat \ {0}
      BY EmptySeq
    <2> QED
      BY <2>1
  <1>3. /\ g \in Seq(ToSet(f)) /\ Len(g) = l /\ DOMAIN g = 1 .. l
        /\ \A i \in 1 .. l : g[i] = f[i + 1]
    <2>1. /\ g \in Seq(ToSet(f)) /\ Len(g) = Len(f) - 1 /\ \A i \in 1 .. Len(g) : g[i] = f[i + 1]
      BY HeadTailProperties
    <2>2. Len(g) = l
      BY <2>1, <1>2
    <2> QED
      BY <2>1, <2>2, LenProperties, Zenon
  <1>4. g \in Seq(ToSet(g))
    <2>1. g \in [1 .. l -> ToSet(f)] /\ ToSet(g) = {g[i] : i \in 1 .. l}
      BY <1>3, LenProperties DEF ToSet
    <2>2. g \in [1 .. l -> ToSet(g)]
      BY <2>1
    <2> QED
      BY <2>2, SeqDef, ZenonT(40)
  <1>5. Head(f) = f[1]
    OBVIOUS
  <1>6. PICK k : k = [n \in 0 .. l |-> h[n + 1]]
    OBVIOUS
  <1>7. /\ h[0] = r /\ h[l + 1] = b /\ (\A n \in 0 .. l + 1 : BookOK(h[n]))
        /\ \A n \in 1 .. l + 1 : h[n] = execute(h[n - 1], decode(f[n])).book
    BY <1>1, <1>2 DEF History
  <1>8. k = [n \in 0 .. l |-> k[n]] /\ \A n \in 0 .. l : k[n] = h[n + 1] /\ n + 1 \in 1 .. l + 1 /\ n + 1 \in 0 .. l + 1
    BY <1>6
  <1>9. k[l] = b
    BY <1>7, <1>8
  <1>10. k[0] = c
    <2>1. 1 \in 1 .. l + 1 /\ 1 - 1 = 0 /\ 0 + 1 = 1 /\ 0 \in 0 .. l
      OBVIOUS
    <2>2. h[1] = execute(h[0], decode(f[1])).book
      BY <2>1, <1>7
    <2> QED
      BY <2>1, <2>2, <1>5, <1>7, <1>8
  <1>11. ASSUME NEW n \in 1 .. l PROVE k[n] = execute(k[n - 1], decode(g[n])).book
    <2>1. PICK m \in 1 .. l + 1 : m = n + 1 /\ m - 1 = n /\ n \in 0 .. l /\ n - 1 \in 0 .. l /\ (n - 1) + 1 = n
      OBVIOUS
    <2>2. k[n] = h[m] /\ k[n - 1] = h[m - 1] /\ g[n] = f[m]
      BY <2>1, <1>3, <1>8, ZenonT(60)
    <2> QED
      BY <2>2, <1>7
  <1>12. History(k, c, g, b)
    BY <1>3, <1>7, <1>8, <1>9, <1>10, <1>11 DEF History
  <1> QED
    BY <1>4, <1>12 DEF Replays

\* A history is what replaying gives, and the only thing it gives.
LEMMA ReplayedIs ==
    ASSUME Replays(replica, feed, book), NEW l \in Nat, l = Len(feed)
    PROVE  FeedReplaysBook
  <1> DEFINE E(g) == g = [n \in 0 .. Len(feed) |->
                            IF n = 0 THEN replica ELSE execute(g[n - 1], decode(feed[n])).book]
  <1>1. PICK h : History(h, replica, feed, book)
    BY DEF Replays
  <1>2. E(h)
    <2>1. /\ h = [n \in 0 .. l |-> h[n]]
          /\ \A n \in 0 .. l : h[n] = IF n = 0 THEN replica ELSE execute(h[n - 1], decode(feed[n])).book
      <3>1. /\ h = [n \in 0 .. l |-> h[n]] /\ h[0] = replica
            /\ \A n \in 1 .. l : h[n] = execute(h[n - 1], decode(feed[n])).book
        BY <1>1 DEF History
      <3>2. ASSUME NEW n \in 0 .. l
            PROVE  h[n] = IF n = 0 THEN replica ELSE execute(h[n - 1], decode(feed[n])).book
        <4>1. n = 0 \/ n \in 1 .. l
          OBVIOUS
        <4> QED
          BY <4>1, <3>1
      <3> QED
        BY <3>1, <3>2
    <2> QED
      BY <2>1
  <1>3. PICK g : g = CHOOSE x : E(x)
    OBVIOUS
  <1>4. E(g)
    <2> HIDE DEF E
    <2> QED
      BY <1>2, <1>3
  <1>5. FeedReplaysBook <=> g[Len(feed)] = book
    BY <1>3 DEF FeedReplaysBook
  <1>6. \A n \in 0 .. l : g[n] = h[n]
    <2> DEFINE T == {n \in 0 .. l : g[n] # h[n]}
    <2>1. SUFFICES ASSUME T # {} PROVE FALSE
      OBVIOUS
    <2>2. PICK m \in T : \A i \in T : m <= i
      <3>1. T \subseteq Nat
        OBVIOUS
      <3> HIDE DEF T
      <3> QED
        BY <2>1, <3>1, LeastNat
    <2>3. m \in 0 .. l /\ g[m] # h[m]
      OBVIOUS
    <2>4. g[m] = IF m = 0 THEN replica ELSE execute(g[m - 1], decode(feed[m])).book
      BY <1>4, <2>3
    <2>5. h[m] = IF m = 0 THEN replica ELSE execute(h[m - 1], decode(feed[m])).book
      BY <1>2, <2>3
    <2>6. m # 0
      BY <2>3, <2>4, <2>5
    <2>7. m - 1 \in 0 .. l /\ m - 1 \notin T
      BY <2>2, <2>3, <2>6
    <2>8. g[m - 1] = h[m - 1]
      BY <2>7
    <2> QED
      BY <2>3, <2>4, <2>5, <2>6, <2>8
  <1>7. h[l] = book
    BY <1>1 DEF History
  <1> QED
    BY <1>5, <1>6, <1>7

-----------------------------------------------------------------------------
(* The inductive invariant of the exchange and the engine. *)
\* What is left of a request while it is matched.
Takers == [side : Sides, price : Prices, quantity : 1 .. QUANTITY_RANGE - 1]

\* Ids not given yet are not in the book.
Numbered == \A x \in Int : Has(book.orders, x) => x < next_order_id
\* The request can be added when nothing is left to match, and there is an id
\* for it.
Taking == /\ order \in Takers /\ CanAllocate(book)
          /\ waiting = NULL => next_order_id <= MaxOrderId
\* The order waiting to be added has a new id and crosses no other order.
Unmatched == /\ waiting \in Ids /\ waiting < next_order_id /\ ~Has(book.orders, waiting)
             /\ Uncrossed(book.prices, order.side, order.price)
\* The exchange.
ClobInv ==
    /\ BookOK(book) /\ next_order_id \in 1 .. MaxOrderId + 1 /\ Numbered
    /\ order # NULL => Taking
    /\ waiting # NULL => order # NULL /\ Unmatched
\* The feed and the engine.
ReplayInv == feed \in Seq(ToSet(feed)) /\ Replays(replica, feed, book)
\* The inductive invariant.
BookInv == ClobInv /\ ReplayInv

\* A taker is a record, an order id a number.
LEMMA Markers ==
    /\ \A o \in Takers : /\ o # NULL /\ o.side \in Sides /\ o.price \in Prices
                         /\ o.quantity \in 1 .. QUANTITY_RANGE - 1
                         /\ o = [side |-> o.side, price |-> o.price, quantity |-> o.quantity]
    /\ \A x \in Int : x # NULL
  <1>1. ASSUME NEW o \in Takers PROVE o # NULL
    <2>1. o \in [side : Sides, price : Int, quantity : Int]
      <3>1. /\ o.side \in Sides /\ o.price \in Prices /\ o.quantity \in 1 .. QUANTITY_RANGE - 1
            /\ o = [side |-> o.side, price |-> o.price, quantity |-> o.quantity]
        BY DEF Takers
      <3>2. o.price \in Int
        BY <3>1, BookAssumption
      <3>3. o.quantity \in Int
        BY <3>1, PoolAssumption
      <3> QED
        BY <3>1, <3>2, <3>3
    <2> QED
      BY <2>1, MarkerAssumption
  <1> QED
    BY <1>1, NullAssumption DEF Takers

\* The order best_opposing_order() finds is one that rests there.
LEMMA BestOpposing ==
    ASSUME NEW b, BookOK(b), NEW side \in Sides, NEW o, o = best_opposing_order(b, side)
    PROVE  /\ o = NULL => b.prices[Opposite(side)] = {}
           /\ o # NULL => /\ o \in Orders /\ Has(b.orders, o.order_id) /\ o.order_id \in Int
                          /\ b.pool[Find(b.orders, o.order_id)].order = o
                          /\ Find(b.orders, o.order_id) = Level(b, o.price).head
                          /\ o.price \in b.prices[Opposite(side)]
                          /\ \A x \in b.prices[Opposite(side)] :
                                x # o.price => Better(Opposite(side), o.price, x)
  <1>1. PICK q : Rep(b, q)
    BY DEF BookOK
  <1>2. PICK opp, best : opp = Opposite(side) /\ best = b.bbo[opp]
    OBVIOUS
  <1>3. opp \in Sides
    BY <1>2 DEF Opposite, Sides
  <1>4. /\ PricesOK(b.levels, b.prices) /\ QueuesOK(b.pool, b.levels, b.prices, q)
        /\ OrdersOK(b.pool, b.orders) /\ BestOf(b.levels, b.prices[opp], opp, best)
    BY <1>1, <1>2, <1>3, RepFacts
  <1>5. /\ best.price = NoPrice(opp) <=> b.prices[opp] = {}
        /\ b.prices[opp] # {} =>
              /\ best.price \in b.prices[opp]
              /\ \A x \in b.prices[opp] : x # best.price => Better(opp, best.price, x)
    BY <1>3, <1>4, BestFacts
  <1>6. CASE best.price = NoPrice(opp)
    <2>1. o = NULL
      BY <1>2, <1>6 DEF best_opposing_order
    <2> QED
      BY <2>1, <1>2, <1>5, <1>6
  <1>7. CASE best.price # NoPrice(opp)
    <2>1. PICK p : p = best.price /\ p \in b.prices[opp]
      BY <1>5, <1>7
    <2>2. PICK s, level, total :
              /\ level = Find(b.levels, p) /\ Queue(b.pool, s, p, opp, total)
              /\ level = [head |-> s[1], tail |-> s[Len(s)], total_quantity |-> total]
      BY ONLY <2>1, <1>3, <1>4, LevelFacts
    <2>3. PICK i, r : i = s[1] /\ r = b.pool[i]
      OBVIOUS
    <2>4. i \in Index /\ r \in Entries /\ r.order.price = p /\ r.order.side = opp
      <3>1. 1 \in 1 .. Len(s) /\ \A n \in 1 .. Len(s) : s[n] \in Index /\ Stands(b.pool[s[n]], s, n, p, opp)
        BY <2>2, QueueFacts
      <3> QED
        BY <3>1, <2>3 DEF Stands
    <2>5. PICK m : m = r.order
      OBVIOUS
    <2>6. m \in Orders /\ r # NoOrder
      BY <2>4, <2>5, NoOrderFacts
    <2>7. [m EXCEPT !.price = p, !.side = opp] = m
      <3>1. PICK x, z : m = [order_id |-> x, price |-> p, quantity |-> z, side |-> opp]
        <4>1. m = [order_id |-> m.order_id, price |-> m.price, quantity |-> m.quantity, side |-> m.side]
          BY <2>6, NoOrderFacts
        <4> QED
          BY <4>1, <2>4, <2>5
      <3>2. PICK c0 : c0 = [m EXCEPT !.price = p]
        OBVIOUS
      <3>3. c0 = m
        BY ONLY <3>1, <3>2
      <3>4. [m EXCEPT !.price = p, !.side = opp] = [c0 EXCEPT !.side = opp]
        BY ONLY <3>1, <3>2
      <3>5. [m EXCEPT !.side = opp] = m
        BY ONLY <3>1
      <3> QED
        BY <3>3, <3>4, <3>5
    <2>8. o = m
      <3>1. Level(b, p).head = i
        BY <2>2, <2>3 DEF Level
      <3>2. o = [b.pool[Level(b, p).head].order EXCEPT !.price = p, !.side = opp]
        BY <1>2, <1>7, <2>1 DEF best_opposing_order
      <3> QED
        BY <3>1, <3>2, <2>3, <2>5, <2>7
    <2>9. Has(b.orders, m.order_id) /\ Find(b.orders, m.order_id) = i
      BY <2>3, <2>4, <2>5, <2>6, <1>4 DEF OrdersOK
    <2>10. o # NULL
      BY <2>4, <2>5, <2>8, NoOrderFacts
    <2>11. o.order_id \in Int /\ o.price = p
      BY <2>4, <2>5, <2>6, <2>8, NoOrderFacts
    <2>12. Find(b.orders, o.order_id) = Level(b, o.price).head
      <3>1. Level(b, p).head = i
        BY <2>2, <2>3 DEF Level
      <3> QED
        BY <3>1, <2>8, <2>9, <2>11
    <2> QED
      BY <2>1, <2>3, <2>5, <2>6, <2>8, <2>9, <2>10, <2>11, <2>12, <1>2, <1>5
  <1> QED
    BY <1>6, <1>7

\* The opponent of an order being matched; without one, nothing it would cross.
LEMMA OpponentFacts ==
    ASSUME BookOK(book), order \in Takers
    PROVE  /\ Opponent # NULL =>
                 /\ Opponent \in Orders /\ Opponent.order_id \in Int /\ Has(book.orders, Opponent.order_id)
                 /\ book.pool[Find(book.orders, Opponent.order_id)].order = Opponent
           /\ Opponent = NULL => Uncrossed(book.prices, order.side, order.price)
  <1>1. PICK side, p : side = order.side /\ p = order.price
    OBVIOUS
  <1>2. side \in Sides /\ p \in Prices /\ p \in Int
    BY <1>1, Markers, BookAssumption
  <1>3. PICK o : o = best_opposing_order(book, side)
    OBVIOUS
  <1>4. Opponent = IF o = NULL THEN NULL ELSE IF Better(side, o.price, p) THEN NULL ELSE o
    BY <1>1, <1>3 DEF Opponent
  <1>5. /\ o = NULL => book.prices[Opposite(side)] = {}
        /\ o # NULL => /\ o \in Orders /\ Has(book.orders, o.order_id) /\ o.order_id \in Int
                       /\ book.pool[Find(book.orders, o.order_id)].order = o
                       /\ o.price \in book.prices[Opposite(side)]
                       /\ \A x \in book.prices[Opposite(side)] :
                             x # o.price => Better(Opposite(side), o.price, x)
    BY <1>2, <1>3, BestOpposing
  <1>6. ASSUME Opponent # NULL
        PROVE  /\ Opponent \in Orders /\ Opponent.order_id \in Int /\ Has(book.orders, Opponent.order_id)
               /\ book.pool[Find(book.orders, Opponent.order_id)].order = Opponent
    BY <1>4, <1>5, <1>6
  <1>7. ASSUME Opponent = NULL PROVE Uncrossed(book.prices, side, p)
    <2>1. CASE o = NULL
      BY <2>1, <1>5 DEF Uncrossed
    <2>2. CASE o # NULL
      <3>1. PICK z \in Int : z = o.price
        BY <2>2, <1>5, NoOrderFacts
      <3>2. Better(side, z, p)
        BY <2>2, <3>1, <1>4, <1>5, <1>7
      <3>3. ASSUME NEW x \in book.prices[Opposite(side)] PROVE Better(Opposite(side), p, x)
        <4>1. x \in Int
          <5>1. Opposite(side) \in Sides
            BY <1>2 DEF Opposite, Sides
          <5>2. PricesOK(book.levels, book.prices)
            BY RepFacts DEF BookOK
          <5> QED
            BY <5>1, <5>2, PriceFacts
        <4>2. x = z \/ Better(Opposite(side), z, x)
          BY <2>2, <3>1, <1>5
        <4> QED
          BY <3>2, <4>1, <4>2, <1>2 DEF Better, Opposite, Sides
      <3> QED
        BY <3>3 DEF Uncrossed
    <2> QED
      BY <2>1, <2>2
  <1> QED
    BY <1>1, <1>6, <1>7

\* An event is executed and published.
Announces(e) == /\ e \in Events /\ Legal(book, e) /\ book' = execute(book, e).book
                /\ Publish(e.type, e.order) /\ replica' = replica

\* The book stays in order, and the feed leads to it.
LEMMA Announced ==
    ASSUME BookInv, NEW e, Announces(e)
    PROVE  /\ BookOK(book') /\ KnownAfter(book', book, e) /\ ReplayInv'
           /\ e.type = "Trade" /\ CanAllocate(book) => CanAllocate(book')
  <1>1. BookOK(book) /\ feed \in Seq(ToSet(feed)) /\ Replays(replica, feed, book)
    BY DEF BookInv, ClobInv, ReplayInv
  <1>2. e \in Events /\ Legal(book, e) /\ book' = execute(book, e).book /\ replica' = replica
    BY DEF Announces
  <1>3. /\ BookOK(book') /\ KnownAfter(book', book, e)
        /\ e.type = "Trade" /\ book.free # <<>> => book'.free # <<>>
    BY <1>1, <1>2, ExecuteKeepsBook
  <1>4. PICK w : w = encode(e)
    OBVIOUS
  <1>5. feed' = Append(feed, w)
    <2>1. [type |-> e.type, order |-> e.order] = e
      BY <1>2 DEF Events
    <2> QED
      BY <2>1, <1>4 DEF Announces, Publish
  <1>6. decode(w) = e
    BY <1>2, <1>4, RoundTrip
  <1>7. PICK c, g, f, r, b : c = book' /\ g = feed' /\ f = feed /\ r = replica /\ b = book
    OBVIOUS
  <1>8. /\ f \in Seq(ToSet(f)) /\ Replays(r, f, b) /\ BookOK(c) /\ c = execute(b, decode(w)).book
        /\ g = Append(f, w)
    BY <1>1, <1>2, <1>3, <1>5, <1>6, <1>7
  <1>9. Replays(r, g, c) /\ g \in Seq(ToSet(g))
    BY ONLY <1>8, ReplaysMore
  <1>10. ReplayInv'
    BY <1>2, <1>7, <1>9 DEF ReplayInv
  <1> QED
    BY <1>3, <1>10 DEF CanAllocate

\* The parts of the invariant, by name.
LEMMA InvParts ==
    ASSUME BookInv
    PROVE  /\ BookOK(book) /\ next_order_id \in 1 .. MaxOrderId + 1 /\ next_order_id \in Int /\ Numbered
           /\ order # NULL => Taking
           /\ waiting # NULL => order # NULL /\ Unmatched
           /\ MaxOrderId \in Nat
  BY BookAssumption DEF BookInv, ClobInv

\* NewOrder: a request arrives.
LEMMA NewOrderStep ==
    ASSUME BookInv, NEW side \in Sides, NEW p \in Prices, NEW q \in Quantities, NewOrder(side, p, q)
    PROVE  BookInv'
  <1>1. /\ order = NULL /\ q > 0 /\ CanAllocate(book) /\ next_order_id <= MaxOrderId
        /\ order' = [side |-> side, price |-> p, quantity |-> q]
        /\ UNCHANGED <<book, next_order_id, waiting, feed, replica>>
    BY DEF NewOrder, Idle, engineVars
  <1>2. q \in 1 .. QUANTITY_RANGE - 1
    <2>1. q \in Nat /\ q < QUANTITY_RANGE /\ QUANTITY_RANGE \in Nat
      BY BookAssumption, LevelsAssumption, PoolAssumption
    <2> QED
      BY ONLY <2>1, <1>1
  <1>3. order' \in Takers
    BY <1>1, <1>2 DEF Takers
  <1>4. waiting = NULL
    BY <1>1, InvParts
  <1>5. Taking'
    BY <1>1, <1>3 DEF Taking, CanAllocate
  <1>6. ClobInv'
    BY <1>1, <1>4, <1>5, InvParts DEF ClobInv, Numbered
  <1>7. ReplayInv'
    BY <1>1 DEF BookInv, ReplayInv
  <1> QED
    BY <1>6, <1>7 DEF BookInv

\* ExecuteTrade: one trade of the matching loop.
LEMMA ExecuteTradeStep ==
    ASSUME BookInv, ExecuteTrade
    PROVE  BookInv'
  <1>1. PICK o, v : o = Opponent /\ v = Smaller(order.quantity, o.quantity)
    OBVIOUS
  <1>2. /\ order # NULL /\ waiting = NULL /\ o # NULL
        /\ Publish("Trade", [o EXCEPT !.quantity = v])
        /\ book' = trade(book, o.order_id, v).book
        /\ order' = IF order.quantity = v THEN NULL ELSE [order EXCEPT !.quantity = @ - v]
        /\ UNCHANGED <<next_order_id, waiting, replica>>
    BY <1>1 DEF ExecuteTrade, Idle, engineVars
  <1>3. BookOK(book) /\ Taking /\ Numbered /\ next_order_id \in 1 .. MaxOrderId + 1 /\ order \in Takers
        /\ CanAllocate(book) /\ next_order_id <= MaxOrderId
    BY <1>2, InvParts DEF Taking
  <1>4. /\ o \in Orders /\ o.order_id \in Int /\ Has(book.orders, o.order_id)
        /\ book.pool[Find(book.orders, o.order_id)].order = o
    BY <1>1, <1>2, <1>3, OpponentFacts
  <1>5. PICK x \in Nat \ {0}, y \in Nat \ {0}, R \in Nat :
           /\ x = order.quantity /\ y = o.quantity /\ R = QUANTITY_RANGE /\ x < R /\ y < R
    <2>1. order.quantity \in 1 .. QUANTITY_RANGE - 1 /\ o.quantity \in 1 .. QUANTITY_RANGE - 1
          /\ QUANTITY_RANGE \in Nat
      BY <1>3, <1>4, Markers, NoOrderFacts, PoolAssumption
    <2> QED
      BY <2>1
  <1>6. v \in Nat \ {0} /\ v <= x /\ v <= y /\ v < R
    BY <1>1, <1>5 DEF Smaller
  <1>7. PICK e : e = [type |-> "Trade", order |-> [o EXCEPT !.quantity = v]]
    OBVIOUS
  <1>8. e.type = "Trade" /\ e.order.order_id = o.order_id /\ e.order.quantity = v /\ e.order = [o EXCEPT !.quantity = v]
        /\ e \in Events
    <2>1. PICK id, p, s : /\ o = [order_id |-> id, price |-> p, quantity |-> y, side |-> s]
                          /\ id \in Ids /\ p \in Prices /\ s \in Sides
      BY <1>4, <1>5, NoOrderFacts
    <2>2. [o EXCEPT !.quantity = v] = [order_id |-> id, price |-> p, quantity |-> v, side |-> s]
      BY ONLY <2>1
    <2>3. id \in 0 .. MaxOrderId /\ v \in 0 .. QUANTITY_RANGE - 1
      <3>1. id \in 0 .. MaxOrderId
        BY <2>1, BookAssumption DEF Ids
      <3> QED
        BY <3>1, <1>5, <1>6
    <2> QED
      BY <2>1, <2>2, <2>3, <1>7 DEF Events, TypeNames
  <1>9. Announces(e)
    <2>1. Legal(book, e)
      BY <1>4, <1>5, <1>6, <1>8 DEF Legal
    <2>2. execute(book, e) = trade(book, o.order_id, v)
      BY <1>8 DEF execute
    <2> QED
      BY <2>1, <2>2, <1>2, <1>8 DEF Announces
  <1>10. BookOK(book') /\ KnownAfter(book', book, e) /\ ReplayInv' /\ CanAllocate(book')
    BY <1>3, <1>8, <1>9, Announced
  <1>11. Numbered'
    BY <1>2, <1>3, <1>8, <1>10 DEF Numbered, KnownAfter
  <1>12. order' # NULL => order' \in Takers
    <2>1. SUFFICES ASSUME order.quantity # v PROVE [order EXCEPT !.quantity = @ - v] \in Takers
      BY <1>2
    <2>2. PICK s, p : order = [side |-> s, price |-> p, quantity |-> x] /\ s \in Sides /\ p \in Prices
      BY <1>3, <1>5, Markers
    <2>3. [order EXCEPT !.quantity = @ - v] = [side |-> s, price |-> p, quantity |-> x - v]
      BY ONLY <2>2
    <2>4. x - v \in 1 .. QUANTITY_RANGE - 1
      BY <2>1, <1>5, <1>6
    <2> QED
      BY <2>2, <2>3, <2>4 DEF Takers
  <1>13. ClobInv'
    BY <1>2, <1>3, <1>10, <1>11, <1>12 DEF ClobInv, Taking
  <1> QED
    BY <1>10, <1>13 DEF BookInv

\* AssignId: nothing the order accepts is left.
LEMMA AssignIdStep ==
    ASSUME BookInv, AssignId
    PROVE  BookInv'
  <1>1. /\ order # NULL /\ waiting = NULL /\ Opponent = NULL /\ waiting' = next_order_id
        /\ next_order_id' = next_order_id + 1 /\ UNCHANGED <<book, order, feed, replica>>
    BY DEF AssignId, Idle, engineVars
  <1>2. /\ BookOK(book) /\ Taking /\ Numbered /\ next_order_id \in 1 .. MaxOrderId /\ order \in Takers
        /\ next_order_id \in Int /\ MaxOrderId \in Nat /\ CanAllocate(book)
    BY <1>1, InvParts DEF Taking
  <1>3. Uncrossed(book.prices, order.side, order.price)
    BY <1>1, <1>2, OpponentFacts
  <1>4. ~Has(book.orders, next_order_id)
    BY <1>2 DEF Numbered
  <1>5. Unmatched'
    BY <1>1, <1>2, <1>3, <1>4 DEF Unmatched, Ids
  <1>6. Numbered'
    <2>1. ASSUME NEW x \in Int, Has(book.orders, x) PROVE x < next_order_id + 1
      BY <2>1, <1>2 DEF Numbered
    <2> QED
      BY <2>1, <1>1 DEF Numbered
  <1>7. waiting' # NULL
    BY <1>1, <1>2, Markers
  <1>8. Taking'
    BY <1>1, <1>2, <1>7 DEF Taking, CanAllocate
  <1>9. next_order_id' \in 1 .. MaxOrderId + 1
    BY <1>1, <1>2
  <1>10. ClobInv'
    BY <1>1, <1>2, <1>5, <1>6, <1>8, <1>9 DEF ClobInv
  <1>11. ReplayInv'
    BY <1>1 DEF BookInv, ReplayInv
  <1> QED
    BY <1>10, <1>11 DEF BookInv

\* AddOrder: what is left of the order rests.
LEMMA AddOrderStep ==
    ASSUME BookInv, AddOrder
    PROVE  BookInv'
  <1>1. PICK o : o = [order_id |-> waiting, price |-> order.price, quantity |-> order.quantity, side |-> order.side]
    OBVIOUS
  <1>2. /\ waiting # NULL /\ Publish("Add", o) /\ book' = add(book, o).book
        /\ order' = NULL /\ waiting' = NULL /\ UNCHANGED <<next_order_id, replica>>
    BY <1>1 DEF AddOrder, engineVars
  <1>3. /\ BookOK(book) /\ Taking /\ Unmatched /\ Numbered /\ next_order_id \in 1 .. MaxOrderId + 1
        /\ order \in Takers /\ waiting \in Ids /\ waiting < next_order_id
    BY <1>2, InvParts DEF Taking, Unmatched
  <1>4. o \in Orders /\ o.order_id = waiting
    BY <1>1, <1>3, Markers DEF Orders
  <1>5. Addable(book, o)
    BY <1>1, <1>3, <1>4 DEF Addable, Taking, Unmatched, CanAllocate
  <1>6. PICK e : e = [type |-> "Add", order |-> o]
    OBVIOUS
  <1>7. e \in Events /\ e.type = "Add" /\ e.order = o
    <2>1. PICK id, p, v, s : /\ o = [order_id |-> id, price |-> p, quantity |-> v, side |-> s]
                             /\ id \in Ids /\ p \in Prices /\ s \in Sides /\ v \in 1 .. QUANTITY_RANGE - 1
      BY <1>4, NoOrderFacts
    <2>2. id \in 0 .. MaxOrderId /\ v \in 0 .. QUANTITY_RANGE - 1
      BY <2>1, BookAssumption, PoolAssumption DEF Ids
    <2> QED
      BY <2>1, <2>2, <1>6 DEF Events, TypeNames
  <1>8. Announces(e)
    <2>1. Legal(book, e) /\ execute(book, e) = add(book, o)
      BY <1>5, <1>7 DEF Legal, execute
    <2> QED
      BY <2>1, <1>2, <1>7 DEF Announces
  <1>9. BookOK(book') /\ KnownAfter(book', book, e) /\ ReplayInv'
    BY <1>8, Announced
  <1>10. Numbered'
    BY <1>2, <1>3, <1>4, <1>7, <1>9 DEF Numbered, KnownAfter
  <1>11. ClobInv'
    BY <1>2, <1>3, <1>9, <1>10 DEF ClobInv
  <1> QED
    BY <1>9, <1>11 DEF BookInv

\* AbandonOrder: the exchange is stopping.
LEMMA AbandonOrderStep ==
    ASSUME BookInv, AbandonOrder
    PROVE  BookInv'
  <1>1. order' = NULL /\ waiting' = NULL /\ UNCHANGED <<book, next_order_id, feed, replica>>
    BY DEF AbandonOrder, engineVars
  <1>2. ClobInv'
    BY <1>1, InvParts DEF ClobInv, Numbered
  <1>3. ReplayInv'
    BY <1>1 DEF BookInv, ReplayInv
  <1> QED
    BY <1>2, <1>3 DEF BookInv

\* cancel_order and update_order, for an order that is there.
LEMMA RequestAnnounced ==
    ASSUME BookInv, order = NULL, NEW id \in Ids, NEW v \in 0 .. QUANTITY_RANGE - 1,
           NEW type \in {"Cancel", "Update"}, NEW e, e = [type |-> type, order |-> IdOnly(id, v)],
           Legal(book, e), book' = execute(book, e).book, Publish(type, IdOnly(id, v)),
           UNCHANGED <<next_order_id, order, waiting, replica>>
    PROVE  BookInv'
  <1>1. e \in Events /\ e.type = type /\ e.order = IdOnly(id, v)
    <2>1. id \in 0 .. MaxOrderId
      BY BookAssumption DEF Ids
    <2> QED
      BY <2>1 DEF Events, TypeNames, IdOnly, Sides
  <1>2. Announces(e)
    BY <1>1 DEF Announces
  <1>3. BookOK(book') /\ KnownAfter(book', book, e) /\ ReplayInv'
    BY <1>2, Announced
  <1>4. Numbered /\ next_order_id \in 1 .. MaxOrderId + 1 /\ waiting = NULL
    BY InvParts
  <1>5. Numbered'
    BY <1>1, <1>3, <1>4 DEF Numbered, KnownAfter
  <1>6. ClobInv'
    BY <1>3, <1>4, <1>5 DEF ClobInv
  <1> QED
    BY <1>3, <1>6 DEF BookInv

\* CancelOrder
LEMMA CancelOrderStep ==
    ASSUME BookInv, NEW id \in Ids, CancelOrder(id)
    PROVE  BookInv'
  <1>1. PICK e : e = [type |-> "Cancel", order |-> IdOnly(id, 0)]
    OBVIOUS
  <1>2. /\ order = NULL /\ Has(book.orders, id) /\ Publish("Cancel", IdOnly(id, 0))
        /\ book' = cancel(book, id).book /\ UNCHANGED <<next_order_id, order, waiting, replica>>
    BY DEF CancelOrder, Idle, order_exists, engineVars
  <1>3. e.type = "Cancel" /\ e.order.order_id = id
    BY <1>1 DEF IdOnly
  <1>4. id \in Int /\ 0 \in 0 .. QUANTITY_RANGE - 1
    BY BookAssumption, PoolAssumption DEF Ids
  <1>5. Legal(book, e)
    BY <1>2, <1>3, <1>4 DEF Legal
  <1>6. execute(book, e) = cancel(book, id)
    BY <1>3 DEF execute
  <1> QED
    BY <1>1, <1>2, <1>4, <1>5, <1>6, RequestAnnounced

\* UpdateOrder, of an order away from the best price.
LEMMA UpdateOrderStep ==
    ASSUME BookInv, ~UpdateBest, NEW id \in Ids, NEW v \in Quantities, UpdateOrder(id, v)
    PROVE  BookInv'
  <1>1. PICK e : e = [type |-> "Update", order |-> IdOnly(id, v)]
    OBVIOUS
  <1>2. /\ order = NULL /\ Has(book.orders, id) /\ Publish("Update", IdOnly(id, v))
        /\ v = 0 \/ ~AtBest(id)
        /\ book' = update_quantity(book, id, v).book /\ UNCHANGED <<next_order_id, order, waiting, replica>>
    BY DEF UpdateOrder, Idle, order_exists, engineVars
  <1>3. e.type = "Update" /\ e.order.order_id = id /\ e.order.quantity = v
    BY <1>1 DEF IdOnly
  <1>4. id \in Int /\ v \in 0 .. QUANTITY_RANGE - 1 /\ (v # 0 => v \in 1 .. QUANTITY_RANGE - 1)
    <2>1. id \in Int
      BY BookAssumption DEF Ids
    <2>2. v \in Nat /\ v < QUANTITY_RANGE /\ QUANTITY_RANGE \in Nat
      BY BookAssumption, LevelsAssumption, PoolAssumption, SMTT(60)
    <2> QED
      BY <2>1, <2>2
  <1>5. Legal(book, e)
    <2>1. PICK o : o = book.pool[Find(book.orders, id)].order
      OBVIOUS
    <2>2. v = 0 \/ (v \in 1 .. QUANTITY_RANGE - 1 /\ o.price # book.bbo[o.side].price)
      BY <2>1, <1>2, <1>4 DEF AtBest, RestingAt
    <2> QED
      BY <2>1, <2>2, <1>2, <1>3, <1>4 DEF Legal
  <1>6. execute(book, e) = update_quantity(book, id, v)
    BY <1>3 DEF execute
  <1> QED
    BY <1>1, <1>2, <1>4, <1>5, <1>6, RequestAnnounced

\* EngineExecutes: the engine takes a message.
LEMMA EngineTakes ==
    ASSUME BookInv, EngineExecutes
    PROVE  BookInv'
  <1>1. /\ feed # <<>> /\ replica' = execute(replica, decode(Head(feed))).book /\ feed' = Tail(feed)
        /\ UNCHANGED <<book, next_order_id, order, waiting>>
    BY DEF EngineExecutes, clobVars
  <1>2. PICK f, r, b, g, c : f = feed /\ r = replica /\ b = book /\ g = feed' /\ c = replica'
    OBVIOUS
  <1>3. /\ f \in Seq(ToSet(f)) /\ Replays(r, f, b) /\ f # <<>> /\ g = Tail(f)
        /\ c = execute(r, decode(Head(f))).book
    BY <1>1, <1>2 DEF BookInv, ReplayInv
  <1>4. Replays(c, g, b) /\ g \in Seq(ToSet(g))
    BY ONLY <1>3, ReplaysLess
  <1>5. ReplayInv'
    BY <1>1, <1>2, <1>4 DEF ReplayInv
  <1>6. ClobInv'
    BY <1>1 DEF BookInv, ClobInv, Numbered, Taking, Unmatched, CanAllocate
  <1> QED
    BY <1>5, <1>6 DEF BookInv

\* The book stays in order, and the feed turns the engine's book into it.
THEOREM BookInvariant ==
    ASSUME ~UpdateBest
    PROVE  Spec => []BookInv
  <1>1. Init => BookInv
    <2>1. SUFFICES ASSUME Init PROVE BookInv
      OBVIOUS
    <2>2. /\ book = EmptyBook /\ replica = EmptyBook /\ feed = <<>> /\ order = NULL /\ waiting = NULL
          /\ next_order_id = 1
      BY <2>1 DEF Init
    <2>3. BookOK(book)
      BY <2>2, EmptyBookOK
    <2>4. Numbered
      <3>1. \A k \in Int : ~Has(EmptyMap(ORDER_SLOTS), k)
        BY PoolAssumption, EmptyMapFacts
      <3>2. book.orders = EmptyMap(ORDER_SLOTS)
        BY <2>2 DEF EmptyBook
      <3> QED
        BY <3>1, <3>2 DEF Numbered
    <2>5. ClobInv
      BY <2>2, <2>3, <2>4, BookAssumption DEF ClobInv
    <2>6. ReplayInv
      <3>1. feed \in Seq(ToSet(feed)) /\ Len(feed) = 0
        BY <2>2
      <3>2. PICK h : h = [n \in 0 .. 0 |-> book]
        OBVIOUS
      <3>3. h[0] = book
        BY <3>2
      <3>4. History(h, replica, feed, book)
        BY <2>2, <2>3, <3>1, <3>2, <3>3 DEF History
      <3> QED
        BY <3>1, <3>4 DEF ReplayInv, Replays
    <2> QED
      BY <2>5, <2>6 DEF BookInv
  <1>2. BookInv /\ [Next]_vars => BookInv'
    <2>1. SUFFICES ASSUME BookInv, [Next]_vars PROVE BookInv'
      OBVIOUS
    <2>2. CASE Request
      BY <2>1, <2>2, NewOrderStep, CancelOrderStep, UpdateOrderStep DEF Request
    <2>3. CASE Match
      BY <2>1, <2>3, ExecuteTradeStep, AssignIdStep, AddOrderStep, AbandonOrderStep DEF Match
    <2>4. CASE EngineExecutes
      BY <2>1, <2>4, EngineTakes
    <2>5. CASE RequestStop \/ UNCHANGED vars
      <3>1. UNCHANGED <<book, next_order_id, order, waiting, feed, replica>>
        BY <2>5 DEF RequestStop, vars, clobVars, engineVars
      <3> QED
        BY <2>1, <3>1 DEF BookInv, ClobInv, ReplayInv, Numbered, Taking, Unmatched, CanAllocate
    <2> QED
      BY <2>1, <2>2, <2>3, <2>4, <2>5 DEF Next
  <1> QED
    BY <1>1, <1>2, PTL DEF Spec

-----------------------------------------------------------------------------
(* What the invariant says in the terms of BookState. *)
\* A sequence without repetitions is as long as the set of its elements, and no
\* longer than the set they are taken from.
LEMMA DistinctLength ==
    ASSUME NEW S, IsFiniteSet(S), NEW s \in Seq(S), Distinct(s)
    PROVE  Len(s) = Cardinality(ToSet(s)) /\ Len(s) <= Cardinality(S)
  <1>1. PICK l \in Nat : l = Len(s)
    BY LenProperties
  <1>2. s \in [1 .. l -> S] /\ DOMAIN s = 1 .. l /\ ToSet(s) = {s[n] : n \in 1 .. l}
    BY <1>1, LenProperties DEF ToSet
  <1>3. \A m, n \in 1 .. l : s[m] = s[n] => m = n
    BY <1>1 DEF Distinct
  <1>4. IsFiniteSet(1 .. l) /\ Cardinality(1 .. l) = l
    <2>1. Cardinality(1 .. l) = IF 1 > l THEN 0 ELSE l - 1 + 1
      BY FS_Interval
    <2> QED
      BY <2>1, FS_Interval
  <1>5. s \in Injection(1 .. l, S) /\ s \in Injection(1 .. l, ToSet(s)) /\ s \in Surjection(1 .. l, ToSet(s))
    BY <1>2, <1>3 DEF Injection, IsInjective, Surjection
  <1>6. Cardinality(1 .. l) <= Cardinality(S)
    BY <1>5, FS_Injection
  <1>7. Cardinality(ToSet(s)) = Cardinality(1 .. l)
    BY <1>4, <1>5, FS_Surjection
  <1> QED
    BY <1>1, <1>4, <1>6, <1>7

\* The first k elements of a queue.
FirstOf(s, k) == [i \in 1 .. k |-> s[i]]

\* One step along the queue gives one element more.
LEMMA FirstFacts ==
    ASSUME NEW S, NEW s \in Seq(S), NEW l \in Nat, l = Len(s), NEW k \in 1 .. l
    PROVE  /\ FirstOf(s, k) \in Seq(S) /\ Last(FirstOf(s, k)) = s[k] /\ FirstOf(s, l) = s
           /\ k # l => Append(FirstOf(s, k), s[k + 1]) = FirstOf(s, k + 1)
  <1>1. s \in [1 .. l -> S]
    BY LenProperties
  <1>2. PICK f : f = FirstOf(s, k)
    OBVIOUS
  <1>3. f \in [1 .. k -> S] /\ \A i \in 1 .. k : f[i] = s[i]
    BY <1>1, <1>2 DEF FirstOf
  <1>4. f \in Seq(S) /\ Len(f) = k
    BY <1>3, SeqDef, LenProperties
  <1>5. Last(f) = s[k]
    BY <1>3, <1>4 DEF Last
  <1>6. FirstOf(s, l) = s
    BY <1>1 DEF FirstOf
  <1>7. ASSUME k # l PROVE Append(f, s[k + 1]) = FirstOf(s, k + 1)
    <2>1. k + 1 \in 1 .. l
      BY <1>7
    <2>2. PICK x \in S : x = s[k + 1]
      BY <2>1, <1>1
    <2>3. PICK g : g = Append(f, x)
      OBVIOUS
    <2>4. /\ g \in Seq(S) /\ Len(g) = k + 1 /\ (\A i \in 1 .. k : g[i] = f[i]) /\ g[k + 1] = x
      BY <2>2, <2>3, <1>4, AppendProperties
    <2>5. g = [i \in 1 .. k + 1 |-> g[i]]
      BY <2>4, LenProperties
    <2>6. \A i \in 1 .. k + 1 : g[i] = s[i]
      <3>1. ASSUME NEW i \in 1 .. k + 1 PROVE i = k + 1 \/ i \in 1 .. k
        OBVIOUS
      <3> QED
        BY <3>1, <2>2, <2>4, <1>3
    <2> QED
      BY <2>2, <2>3, <2>5, <2>6 DEF FirstOf
  <1> QED
    BY <1>2, <1>4, <1>5, <1>6, <1>7

\* Following next from the head of a level visits its queue.
LEMMA ChainFollows ==
    ASSUME NEW b, NEW p, NEW s, s \in Seq(Index), NEW l \in Nat \ {0}, l = Len(s),
           l <= MAX_CONCURRENT_ORDERS, Level(b, p).head = s[1],
           \A n \in 1 .. l : b.pool[s[n]].next = After(s, n)
    PROVE  Chain(b, p) = s
  <1> DEFINE N == MAX_CONCURRENT_ORDERS
             Step(shorter) == LET next == b.pool[Last(shorter)].next
                              IN  IF next = NULL THEN shorter ELSE Append(shorter, next)
             E(g) == g = [n \in 0 .. N |-> IF n = 0 THEN <<Level(b, p).head>>
                            ELSE LET shorter == g[n - 1]
                                     next == b.pool[Last(shorter)].next
                                 IN  IF next = NULL THEN shorter ELSE Append(shorter, next)]
             K(n) == IF n + 1 <= l THEN n + 1 ELSE l
             F == [n \in 0 .. N |-> FirstOf(s, K(n))]
  <1>1. N \in Nat
    BY PoolAssumption
  <1>2. \A n \in 1 .. l : s[n] \in Index /\ s[n] # NULL
    BY IndexFacts, LenProperties
  <1>3. ASSUME NEW n \in 0 .. N
        PROVE  F[n] = IF n = 0 THEN <<Level(b, p).head>> ELSE Step(F[n - 1])
    <2>1. CASE n = 0
      <3>1. K(0) = 1
        OBVIOUS
      <3>2. FirstOf(s, 1) = <<s[1]>>
        BY DEF FirstOf
      <3> QED
        BY <2>1, <3>1, <3>2, <1>1
    <2>2. CASE n \in 1 .. l - 1
      <3>1. n - 1 \in 0 .. N /\ K(n - 1) = n /\ K(n) = n + 1 /\ n \in 1 .. l /\ n # l /\ n + 1 \in 1 .. l
        BY <1>1, <2>2
      <3>2. F[n - 1] = FirstOf(s, n) /\ F[n] = FirstOf(s, n + 1)
        BY <3>1
      <3>3. Last(F[n - 1]) = s[n] /\ Append(F[n - 1], s[n + 1]) = F[n]
        BY <3>1, <3>2, FirstFacts, SMTT(60)
      <3>4. b.pool[s[n]].next = s[n + 1] /\ s[n + 1] # NULL
        BY <3>1, <1>2 DEF After
      <3>5. Step(F[n - 1]) = F[n]
        BY <3>3, <3>4
      <3> QED
        BY <2>2, <3>5
    <2>3. CASE n # 0 /\ n \notin 1 .. l - 1
      <3>1. n - 1 \in 0 .. N /\ K(n - 1) = l /\ K(n) = l /\ l \in 1 .. l
        BY <1>1, <2>3
      <3>2. F[n - 1] = FirstOf(s, l) /\ F[n] = FirstOf(s, l)
        BY <3>1
      <3>3. Last(F[n - 1]) = s[l]
        BY <3>1, <3>2, FirstFacts
      <3>4. b.pool[s[l]].next = NULL
        BY <3>1 DEF After
      <3>5. Step(F[n - 1]) = F[n]
        BY <3>2, <3>3, <3>4
      <3> QED
        BY <2>3, <3>5
    <2> QED
      BY <2>1, <2>2, <2>3
  <1>4. E(F)
    <2>1. PICK f : f = F
      OBVIOUS
    <2>2. f = [n \in 0 .. N |-> f[n]]
      BY <2>1
    <2>3. \A n \in 0 .. N : f[n] = IF n = 0 THEN <<Level(b, p).head>> ELSE Step(f[n - 1])
      BY <1>3, <2>1
    <2>4. E(f)
      BY ONLY <2>2, <2>3
    <2> QED
      BY ONLY <2>1, <2>4
  <1>5. PICK g : g = CHOOSE x : E(x)
    OBVIOUS
  <1>6. E(g)
    <2> HIDE DEF E
    <2> QED
      BY <1>4, <1>5
  <1>7. Chain(b, p) = g[N]
    BY <1>5 DEF Chain
  <1>8. PICK f : f = F /\ \A n \in 0 .. N : f[n] = IF n = 0 THEN <<Level(b, p).head>> ELSE Step(f[n - 1])
    BY <1>3, Zenon
  <1>9. \A n \in 0 .. N : g[n] = IF n = 0 THEN <<Level(b, p).head>> ELSE Step(g[n - 1])
    BY <1>6, Zenon
  <1>10. \A n \in 0 .. N : g[n] = f[n]
    <2> HIDE DEF Step
    <2> DEFINE T == {n \in 0 .. N : g[n] # f[n]}
    <2>1. SUFFICES ASSUME T # {} PROVE FALSE
      OBVIOUS
    <2>2. PICK m \in T : \A i \in T : m <= i
      <3>1. T \subseteq Nat
        OBVIOUS
      <3> HIDE DEF T
      <3> QED
        BY <2>1, <3>1, LeastNat
    <2>3. m \in 0 .. N /\ g[m] # f[m]
      OBVIOUS
    <2>6. m # 0
      BY <2>3, <1>8, <1>9
    <2>7. m - 1 \in 0 .. N /\ m - 1 \notin T
      BY <1>1, <2>2, <2>3, <2>6
    <2>8. g[m - 1] = f[m - 1]
      BY <2>7
    <2> QED
      BY <2>3, <2>6, <2>8, <1>8, <1>9
  <1>11. f[N] = s
    <2>1. K(N) = l /\ N \in 0 .. N /\ l \in 1 .. l
      BY <1>1
    <2>2. F[N] = FirstOf(s, l)
      BY <2>1
    <2> QED
      BY <2>1, <2>2, <1>8, FirstFacts
  <1> QED
    BY <1>1, <1>7, <1>10, <1>11

\* Sums that run along a queue give its quantity.
LEMMA QuantityIs ==
    ASSUME NEW queue, NEW l \in Nat, l = Len(queue), NEW P, P[0] = 0,
           \A n \in 1 .. l : P[n] = P[n - 1] + queue[n].quantity
    PROVE  QuantityOf(queue) = P[l]
  <1> DEFINE E(g) == g = [n \in 0 .. Len(queue) |->
                            IF n = 0 THEN 0 ELSE g[n - 1] + queue[n].quantity]
  <1>1. PICK h : h = [n \in 0 .. l |-> P[n]]
    OBVIOUS
  <1>2. \A n \in 0 .. l : h[n] = IF n = 0 THEN 0 ELSE h[n - 1] + queue[n].quantity
    <2>1. ASSUME NEW n \in 0 .. l
          PROVE  h[n] = IF n = 0 THEN 0 ELSE h[n - 1] + queue[n].quantity
      <3>1. CASE n = 0
        BY <3>1, <1>1
      <3>2. CASE n \in 1 .. l
        <4>1. n - 1 \in 0 .. l
          BY <3>2
        <4> QED
          BY <3>2, <4>1, <1>1
      <3>3. n = 0 \/ n \in 1 .. l
        OBVIOUS
      <3> QED
        BY ONLY <3>1, <3>2, <3>3
    <2> QED
      BY <2>1
  <1>3. E(h)
    <2>1. h = [n \in 0 .. l |-> h[n]]
      BY <1>1
    <2> QED
      BY <1>2, <2>1
  <1>4. PICK g : g = CHOOSE x : E(x)
    OBVIOUS
  <1>5. E(g)
    <2> HIDE DEF E
    <2> QED
      BY <1>3, <1>4
  <1>6. QuantityOf(queue) = g[Len(queue)]
    BY <1>4 DEF QuantityOf
  <1>7. \A n \in 0 .. l : g[n] = IF n = 0 THEN 0 ELSE g[n - 1] + queue[n].quantity
    BY <1>5
  <1>8. \A n \in 0 .. l : g[n] = h[n]
    <2> DEFINE T == {n \in 0 .. l : g[n] # h[n]}
    <2>1. SUFFICES ASSUME T # {} PROVE FALSE
      OBVIOUS
    <2>2. PICK m \in T : \A i \in T : m <= i
      <3>1. T \subseteq Nat
        OBVIOUS
      <3> HIDE DEF T
      <3> QED
        BY <2>1, <3>1, LeastNat
    <2>3. m \in 0 .. l /\ g[m] # h[m]
      OBVIOUS
    <2>6. m # 0
      BY <2>3, <1>2, <1>7
    <2>7. m - 1 \in 0 .. l /\ m - 1 \notin T
      BY <2>2, <2>3, <2>6
    <2>8. g[m - 1] = h[m - 1]
      BY <2>7
    <2> QED
      BY <2>3, <2>6, <2>8, <1>2, <1>7
  <1>9. h[l] = P[l]
    BY <1>1
  <1> QED
    BY <1>6, <1>8, <1>9

\* What stands at a price of a book in order.
AtLevel(b, s, total, side, p) ==
    /\ Queue(b.pool, s, p, side, total) /\ Chain(b, p) = s
    /\ Level(b, p) = [head |-> s[1], tail |-> s[Len(s)], total_quantity |-> total]
    /\ QuantityOf(QueueAt(b, side, p)) = total

\* Chain and QuantityOf agree with the queue and the level.
LEMMA LevelIs ==
    ASSUME NEW b, NEW q, Rep(b, q), NEW side \in Sides, NEW p \in b.prices[side]
    PROVE  \E total \in Nat : AtLevel(b, q[p], total, side, p)
  <1>1. QueuesOK(b.pool, b.levels, b.prices, q)
    BY RepFacts
  <1>2. PICK s, level, total :
           /\ s = q[p] /\ level = Find(b.levels, p) /\ total = level.total_quantity
           /\ total \in Nat \ {0} /\ Queue(b.pool, s, p, side, total)
           /\ level = [head |-> s[1], tail |-> s[Len(s)], total_quantity |-> total]
    BY <1>1, LevelFacts
  <1>3. PICK pool : pool = b.pool
    OBVIOUS
  <1>4. Queue(pool, s, p, side, total)
    BY <1>2, <1>3
  <1>5. PICK l \in Nat \ {0} : l = Len(s)
    BY <1>4, QueueFacts
  <1>6. /\ s \in Seq(Index) /\ Distinct(s)
        /\ \A n \in 1 .. l : Stands(pool[s[n]], s, n, p, side)
    BY <1>4, <1>5, QueueFacts
  <1>7. l <= MAX_CONCURRENT_ORDERS
    BY <1>5, <1>6, DistinctLength, IndexFacts
  <1>8. Level(b, p) = level /\ Level(b, p).head = s[1]
    BY <1>2 DEF Level
  <1>9. \A n \in 1 .. l : b.pool[s[n]].next = After(s, n)
    BY <1>3, <1>6 DEF Stands
  <1>10. Chain(b, p) = s
    BY <1>5, <1>6, <1>7, <1>8, <1>9, ChainFollows
  <1>11. PICK P : Sums(pool, s, P) /\ P[Len(s)] = total
    BY <1>4 DEF Queue, Totals
  <1>12. PICK queue : queue = QueueAt(b, side, p)
    OBVIOUS
  <1>13. queue = [n \in 1 .. l |-> [id |-> pool[s[n]].order.order_id, quantity |-> pool[s[n]].order.quantity]]
    BY <1>3, <1>5, <1>10, <1>12 DEF QueueAt
  <1>14. l = Len(queue)
    BY <1>13
  <1>15. \A n \in 1 .. l : P[n] = P[n - 1] + queue[n].quantity
    BY <1>5, <1>11, <1>13 DEF Sums
  <1>16. P[0] = 0
    BY <1>11 DEF Sums
  <1>17. QuantityOf(queue) = P[l]
    BY <1>14, <1>15, <1>16, QuantityIs
  <1> QED
    BY <1>2, <1>3, <1>4, <1>5, <1>8, <1>10, <1>11, <1>12, <1>17 DEF AtLevel

\* The queue at a price holds the orders of that price.
LEMMA QueueHolds ==
    ASSUME NEW b, NEW q, Rep(b, q), NEW side \in Sides, NEW p \in b.prices[side]
    PROVE  ToSet(q[p]) = {i \in Live(b) : b.pool[i].order.price = p}
  <1>1. PICK total \in Nat : AtLevel(b, q[p], total, side, p)
    BY LevelIs
  <1>2. PICK s, pool : s = q[p] /\ pool = b.pool
    OBVIOUS
  <1>3. Queue(pool, s, p, side, total)
    BY <1>1, <1>2 DEF AtLevel
  <1>4. PICK l \in Nat \ {0} : l = Len(s)
    BY <1>3, QueueFacts
  <1>5. /\ s \in Seq(Index) /\ DOMAIN s = 1 .. l
        /\ \A n \in 1 .. l : s[n] \in Index /\ Stands(pool[s[n]], s, n, p, side)
    BY <1>3, <1>4, QueueFacts, LenProperties
  <1>6. /\ PoolOK(pool) /\ CoverOK(pool, b.prices, q) /\ PricesOK(b.levels, b.prices)
    BY <1>2, RepFacts
  <1>7. DOMAIN pool = Index
    BY <1>6 DEF PoolOK
  <1>8. ASSUME NEW i \in ToSet(s) PROVE i \in Live(b) /\ b.pool[i].order.price = p
    <2>1. PICK n \in 1 .. l : i = s[n]
      BY <1>8, <1>5 DEF ToSet
    <2>2. i \in Index /\ pool[i] \in Entries /\ pool[i].order.price = p
      BY <2>1, <1>5 DEF Stands
    <2>3. pool[i] # NoOrder
      BY <2>2, NoOrderFacts
    <2> QED
      BY <2>2, <2>3, <1>2, <1>7 DEF Live
  <1>9. ASSUME NEW i \in Live(b), b.pool[i].order.price = p PROVE i \in ToSet(s)
    <2>1. i \in Index /\ pool[i] # NoOrder
      BY <1>9, <1>2, <1>7 DEF Live
    <2>2. Queued(pool[i], i, b.prices, q)
      BY <2>1, <1>6 DEF CoverOK
    <2>3. \E n \in 1 .. Len(s) : s[n] = i
      BY ONLY <2>2, <1>9, <1>2, SMTT(30) DEF Queued
    <2> QED
      BY <2>3, <1>4, <1>5 DEF ToSet
  <1> QED
    BY <1>2, <1>8, <1>9

\* What StructureOK asks of one level.
LEMMA LevelStructure ==
    ASSUME NEW b, NEW q, Rep(b, q), NEW side \in Sides, NEW p \in b.prices[side]
    PROVE  LET chain == Chain(b, p)
               level == Level(b, p)
           IN  /\ ToSet(chain) = {i \in Live(b) : b.pool[i].order.price = p}
               /\ Len(chain) = Cardinality(ToSet(chain))
               /\ level.tail = Last(chain)
               /\ b.pool[level.head].previous = NULL
               /\ \A n \in 1 .. Len(chain) - 1 : b.pool[chain[n + 1]].previous = chain[n]
               /\ \A i \in ToSet(chain) : b.pool[i].order.side = side
               /\ level.total_quantity = QuantityOf(QueueAt(b, side, p))
  <1>1. PICK total \in Nat : AtLevel(b, q[p], total, side, p)
    BY LevelIs
  <1>2. PICK s, pool : s = q[p] /\ pool = b.pool
    OBVIOUS
  <1>3. /\ Queue(pool, s, p, side, total) /\ Chain(b, p) = s
        /\ Level(b, p) = [head |-> s[1], tail |-> s[Len(s)], total_quantity |-> total]
        /\ QuantityOf(QueueAt(b, side, p)) = total
    BY <1>1, <1>2 DEF AtLevel
  <1>4. PICK l \in Nat \ {0} : l = Len(s)
    BY <1>3, QueueFacts
  <1>5. /\ s \in Seq(Index) /\ DOMAIN s = 1 .. l /\ Distinct(s)
        /\ \A n \in 1 .. l : s[n] \in Index /\ Stands(pool[s[n]], s, n, p, side)
    BY <1>3, <1>4, QueueFacts, LenProperties
  <1>6. ToSet(s) = {i \in Live(b) : b.pool[i].order.price = p}
    BY <1>2, QueueHolds
  <1>7. Len(s) = Cardinality(ToSet(s))
    BY <1>5, IndexFacts, DistinctLength
  <1>8. Last(s) = s[Len(s)]
    BY DEF Last
  <1>9. pool[s[1]].previous = NULL
    BY <1>5 DEF Stands, Before
  <1>10. \A n \in 1 .. l - 1 : pool[s[n + 1]].previous = s[n]
    <2>1. ASSUME NEW n \in 1 .. l - 1 PROVE pool[s[n + 1]].previous = s[n]
      <3>1. PICK m \in 1 .. l : m = n + 1 /\ m - 1 = n /\ m # 1
        OBVIOUS
      <3>2. pool[s[m]].previous = s[m - 1]
        BY <3>1, <1>5 DEF Stands, Before
      <3> QED
        BY <3>1, <3>2
    <2> QED
      BY <2>1
  <1>11. \A i \in ToSet(s) : pool[i].order.side = side
    BY <1>5 DEF ToSet, Stands
  <1> QED
    BY ONLY <1>2, <1>3, <1>4, <1>6, <1>7, <1>8, <1>9, <1>10, <1>11

-----------------------------------------------------------------------------
\* A book in order has the structure the runs look for.
LEMMA StructureHolds ==
    ASSUME NEW b, BookOK(b)
    PROVE  StructureOK(b)
  <1>1. PICK q : Rep(b, q)
    BY DEF BookOK
  <1>2. PICK pool, free, orders, levels, prices :
           /\ pool = b.pool /\ free = b.free /\ orders = b.orders /\ levels = b.levels
           /\ prices = b.prices
    OBVIOUS
  <1>3. /\ PoolOK(pool) /\ FreeOK(pool, free) /\ OrdersOK(pool, orders) /\ PricesOK(levels, prices)
    BY <1>1, <1>2, RepFacts
  <1>4. PICK L : L = Live(b)
    OBVIOUS
  <1>5. DOMAIN pool = Index /\ L = {i \in Index : pool[i] # NoOrder}
    BY <1>2, <1>3, <1>4 DEF PoolOK, Live
  <1>6. WellFormed(orders) /\ WellFormed(levels)
    BY <1>3 DEF OrdersOK, PricesOK, MapOK
  <1>7. ToSet(free) = Index \ L /\ Len(free) = Cardinality(Index \ L)
    <2>1. /\ free \in Seq(Index) /\ Distinct(free)
          /\ \A i \in Index : pool[i] = NoOrder <=> \E n \in 1 .. Len(free) : free[n] = i
      BY <1>3 DEF FreeOK
    <2>2. PICK l \in Nat : l = Len(free)
      BY <2>1, LenProperties
    <2>3. DOMAIN free = 1 .. l /\ \A n \in 1 .. l : free[n] \in Index
      BY <2>1, <2>2, LenProperties
    <2>4. ToSet(free) = Index \ L
      BY <1>5, <2>1, <2>2, <2>3 DEF ToSet
    <2>5. Len(free) = Cardinality(ToSet(free))
      BY <2>1, IndexFacts, DistinctLength
    <2> QED
      BY <2>4, <2>5
  <1>8. /\ Keys(orders) = {pool[i].order.order_id : i \in L}
        /\ \A i \in L : Find(orders, pool[i].order.order_id) = i
    <2>1. /\ MapOK(orders, ORDER_SLOTS)
          /\ \A id \in Int : Has(orders, id) =>
                /\ Find(orders, id) \in Index /\ pool[Find(orders, id)] \in Entries
                /\ pool[Find(orders, id)].order.order_id = id
          /\ \A i \in Index : pool[i] # NoOrder =>
                /\ Has(orders, pool[i].order.order_id)
                /\ Find(orders, pool[i].order.order_id) = i
      BY <1>3 DEF OrdersOK
    <2>2. Keys(orders) = {k \in Int : Has(orders, k)}
      BY <2>1, KeysFacts
    <2>3. ASSUME NEW k \in Int, Has(orders, k) PROVE \E i \in L : k = pool[i].order.order_id
      <3>1. PICK i \in Index : i = Find(orders, k)
        BY <2>1, <2>3
      <3>2. pool[i] \in Entries /\ pool[i].order.order_id = k
        BY <3>1, <2>1, <2>3
      <3>3. i \in L
        BY <3>2, <1>5, NoOrderFacts
      <3> QED
        BY <3>2, <3>3
    <2>4. ASSUME NEW i \in L
          PROVE  pool[i].order.order_id \in Int /\ Has(orders, pool[i].order.order_id)
      <3>1. pool[i] \in Entries
        BY <1>3, <1>5, PoolEntry
      <3>2. pool[i].order.order_id \in Int
        BY <3>1, NoOrderFacts
      <3> QED
        BY <3>2, <2>1, <1>5
    <2> QED
      BY <1>5, <2>1, <2>2, <2>3, <2>4
  <1>9. /\ prices["Buy"] \cap prices["Sell"] = {}
        /\ Keys(levels) = prices["Buy"] \cup prices["Sell"]
    <2>1. "Buy" \in Sides /\ "Sell" \in Sides
      BY DEF Sides
    <2>2. \A p \in prices["Buy"] \cup prices["Sell"] : p \in Int
      BY <2>1, <1>3, PriceFacts
    <2>3. /\ MapOK(levels, LEVEL_SLOTS)
          /\ \A p \in Int : Has(levels, p) <=> p \in prices["Buy"] \cup prices["Sell"]
          /\ \A x \in prices["Buy"], y \in prices["Sell"] : x < y
      BY <1>3 DEF PricesOK
    <2>4. Keys(levels) = {k \in Int : Has(levels, k)}
      BY <2>3, KeysFacts
    <2>5. \A x \in Int : ~(x < x)
      OBVIOUS
    <2> QED
      BY <2>2, <2>3, <2>4, <2>5
  <1>10. \A side \in Sides : \A p \in b.prices[side] :
         LET chain == Chain(b, p)
             level == Level(b, p)
         IN  /\ ToSet(chain) = {i \in Live(b) : b.pool[i].order.price = p}
             /\ Len(chain) = Cardinality(ToSet(chain))
             /\ level.tail = Last(chain)
             /\ b.pool[level.head].previous = NULL
             /\ \A n \in 1 .. Len(chain) - 1 :
                   b.pool[chain[n + 1]].previous = chain[n]
             /\ \A i \in ToSet(chain) : b.pool[i].order.side = side
             /\ level.total_quantity = QuantityOf(QueueAt(b, side, p))
    BY <1>1, LevelStructure
  <1>11. /\ WellFormed(b.orders) /\ WellFormed(b.levels)
         /\ ToSet(b.free) = DOMAIN b.pool \ Live(b)
         /\ Len(b.free) = Cardinality(DOMAIN b.pool \ Live(b))
         /\ Keys(b.orders) = {b.pool[i].order.order_id : i \in Live(b)}
         /\ \A i \in Live(b) : Find(b.orders, b.pool[i].order.order_id) = i
         /\ b.prices["Buy"] \cap b.prices["Sell"] = {}
         /\ Keys(b.levels) = b.prices["Buy"] \cup b.prices["Sell"]
    BY <1>2, <1>4, <1>5, <1>6, <1>7, <1>8, <1>9
  <1> QED
    BY ONLY <1>10, <1>11 DEF StructureOK

\* The cached BBO of a book in order is what its levels say.
LEMMA BboHolds ==
    ASSUME NEW b, BookOK(b)
    PROVE  BboOK(b)
  <1>1. PICK q : Rep(b, q)
    BY DEF BookOK
  <1>2. ASSUME NEW side \in Sides
        PROVE  b.bbo[side] =
                 IF b.prices[side] = {} THEN [price |-> NoPrice(side), quantity |-> 0]
                 ELSE LET p == BestPrice(side, b.prices[side])
                      IN  [price |-> p,
                           quantity |-> QuantityOf(QueueAt(b, side, p)) % QUANTITY_RANGE]
    <2>1. PICK best, S : best = b.bbo[side] /\ S = b.prices[side]
      OBVIOUS
    <2>2. PricesOK(b.levels, b.prices) /\ BestOf(b.levels, b.prices[side], side, best)
      BY <1>1, <2>1, RepFacts
    <2>3. /\ best = [price |-> best.price, quantity |-> best.quantity] /\ best.price \in Int
          /\ S = {} => best.price = NoPrice(side) /\ best.quantity = 0
          /\ S # {} => /\ best.price \in S
                       /\ best.quantity = Find(b.levels, best.price).total_quantity % QUANTITY_RANGE
                       /\ \A x \in S : x # best.price => Better(side, best.price, x)
      BY <2>1, <2>2, BestFacts
    <2>4. CASE S = {}
      BY <2>1, <2>3, <2>4
    <2>5. CASE S # {}
      <3>1. PICK p : p = BestPrice(side, S)
        OBVIOUS
      <3>2. \A x \in S : x \in Int /\ NO_BID < x /\ x < NO_OFFER
        BY <2>1, <2>2, PriceFacts
      <3>3. p \in S /\ \A x \in S : x # p => Better(side, p, x)
        BY <2>5, <3>1, <3>2, BestPriceFacts
      <3>4. p = best.price
        <4>1. SUFFICES ASSUME p # best.price PROVE FALSE
          OBVIOUS
        <4>2. PICK z \in Int : z = best.price
          BY <2>3
        <4>3. p \in Int /\ Better(side, p, z) /\ Better(side, z, p)
          BY <4>1, <4>2, <3>2, <3>3, <2>3, <2>5
        <4> QED
          BY <4>3, BetterFacts
      <3>5. PICK total \in Nat : AtLevel(b, q[p], total, side, p)
        BY <1>1, <2>1, <3>3, LevelIs
      <3>6. Find(b.levels, p).total_quantity = total /\ QuantityOf(QueueAt(b, side, p)) = total
        BY <3>5 DEF AtLevel, Level
      <3>7. best = [price |-> p, quantity |-> QuantityOf(QueueAt(b, side, p)) % QUANTITY_RANGE]
        BY <2>3, <2>5, <3>4, <3>6
      <3> QED
        BY <2>1, <2>5, <3>1, <3>7
    <2> QED
      BY <2>4, <2>5
  <1> QED
    BY ONLY <1>2 DEF BboOK

\* A book in order is not crossed.
LEMMA UncrossedHolds ==
    ASSUME NEW b, BookOK(b)
    PROVE  b.bbo["Buy"].price < b.bbo["Sell"].price
  <1>1. PICK q : Rep(b, q)
    BY DEF BookOK
  <1>2. PricesOK(b.levels, b.prices)
    BY <1>1, RepFacts
  <1>3. "Buy" \in Sides /\ "Sell" \in Sides
    BY DEF Sides
  <1>4. /\ BestOf(b.levels, b.prices["Buy"], "Buy", b.bbo["Buy"])
        /\ BestOf(b.levels, b.prices["Sell"], "Sell", b.bbo["Sell"])
    BY <1>1, <1>3, RepFacts
  <1>5. PICK x, y : x = b.bbo["Buy"].price /\ y = b.bbo["Sell"].price
    OBVIOUS
  <1>6. /\ b.prices["Buy"] = {} => x = NO_BID
        /\ b.prices["Buy"] # {} => x \in b.prices["Buy"]
        /\ b.prices["Sell"] = {} => y = NO_OFFER
        /\ b.prices["Sell"] # {} => y \in b.prices["Sell"]
    BY <1>2, <1>3, <1>4, <1>5, BestFacts DEF NoPrice
  <1>7. \A side \in Sides : \A p \in b.prices[side] : NO_BID < p /\ p < NO_OFFER
    BY <1>2, PriceFacts
  <1>8. \A u \in b.prices["Buy"], v \in b.prices["Sell"] : u < v
    BY <1>2 DEF PricesOK
  <1>9. NO_BID < NO_OFFER
    BY PoolAssumption
  <1> QED
    BY <1>3, <1>5, <1>6, <1>7, <1>8, <1>9

\* The engine's book is the first of the history.
LEMMA ReplicaOK ==
    ASSUME BookInv
    PROVE  BookOK(replica)
  <1>1. feed \in Seq(ToSet(feed)) /\ Replays(replica, feed, book)
    BY DEF BookInv, ReplayInv
  <1>2. PICK h : History(h, replica, feed, book)
    BY <1>1 DEF Replays
  <1>3. PICK l \in Nat : l = Len(feed)
    BY <1>1, LenProperties
  <1>4. 0 \in 0 .. Len(feed)
    BY <1>3
  <1> QED
    BY <1>2, <1>4 DEF History

\* Pool, free stack, hash maps, price sets and linked queues agree with one
\* another after every operation of the exchange.
THEOREM StructureSafety ==
    ASSUME ~UpdateBest
    PROVE  Spec => []BookStructure
  <1>1. BookInv => BookStructure
    BY StructureHolds DEF BookInv, ClobInv, BookStructure
  <1> QED
    BY <1>1, BookInvariant, PTL

\* The cached best bid and offer are what the levels say.
THEOREM BboSafety ==
    ASSUME ~UpdateBest
    PROVE  Spec => []BboConsistent
  <1>1. BookInv => BboConsistent
    BY BboHolds DEF BookInv, ClobInv, BboConsistent
  <1> QED
    BY <1>1, BookInvariant, PTL

\* Neither the exchange's book nor the one the engine replays is ever crossed.
THEOREM UncrossedSafety ==
    ASSUME ~UpdateBest
    PROVE  Spec => []NotCrossed
  <1>1. BookInv => NotCrossed
    BY UncrossedHolds, ReplicaOK DEF BookInv, ClobInv, NotCrossed
  <1> QED
    BY <1>1, BookInvariant, PTL

\* Decoding and replaying the messages on their way turns the engine's book
\* into the exchange's.
THEOREM ReplaySafety ==
    ASSUME ~UpdateBest
    PROVE  Spec => []FeedReplaysBook
  <1>1. ASSUME BookInv PROVE FeedReplaysBook
    <2>1. feed \in Seq(ToSet(feed)) /\ Replays(replica, feed, book)
      BY <1>1 DEF BookInv, ReplayInv
    <2>2. Len(feed) \in Nat
      BY <2>1, LenProperties
    <2> QED
      BY <2>1, <2>2, ReplayedIs
  <1> QED
    BY <1>1, BookInvariant, PTL

-----------------------------------------------------------------------------
(* MatchingEngine: the ladder of queues a book stands for, and what the    *)
(* operations of the book do to it.                                        *)

\* What the engine knows of the orders of a queue.
Line(pool, s) == [n \in 1 .. Len(s) |-> [id |-> pool[s[n]].order.order_id,
                                         quantity |-> pool[s[n]].order.quantity]]
\* The line at a price of a side, empty where no order stands.
LineAt(pool, prices, q, side, p) == IF p \in prices[side] THEN Line(pool, q[p]) ELSE <<>>

\* The ladder of a book in order is read off its queues.
LEMMA LadderIs ==
    ASSUME NEW b, NEW q, Rep(b, q)
    PROVE  /\ Ladder(b) = [side \in Sides |-> [p \in Prices |-> Ladder(b)[side][p]]]
           /\ \A side \in Sides, p \in Prices : Ladder(b)[side][p] = LineAt(b.pool, b.prices, q, side, p)
  <1>1. ASSUME NEW side \in Sides, NEW p \in Prices
        PROVE  QueueAt(b, side, p) = LineAt(b.pool, b.prices, q, side, p)
    <2>1. CASE p \notin b.prices[side]
      BY <2>1 DEF QueueAt, LineAt
    <2>2. CASE p \in b.prices[side]
      <3>1. Chain(b, p) = q[p]
        BY <2>2, LevelIs DEF AtLevel
      <3>2. PICK chain : chain = Chain(b, p)
        OBVIOUS
      <3>3. QueueAt(b, side, p) = Line(b.pool, chain)
        BY <2>2, <3>2 DEF QueueAt, Line
      <3> QED
        BY <2>2, <3>1, <3>2, <3>3 DEF LineAt
    <2> QED
      BY <2>1, <2>2
  <1>2. \A side \in Sides, p \in Prices : Ladder(b)[side][p] = QueueAt(b, side, p)
    BY DEF Ladder
  <1>3. Ladder(b) = [side \in Sides |-> [p \in Prices |-> QueueAt(b, side, p)]]
    BY DEF Ladder
  <1>4. PICK L : L = Ladder(b)
    OBVIOUS
  <1>5. L = [side \in Sides |-> [p \in Prices |-> L[side][p]]]
    BY <1>3, <1>4
  <1> QED
    BY <1>1, <1>2, <1>4, <1>5

\* A ladder, as a function.
Rungs(L) == L = [side \in Sides |-> [p \in Prices |-> L[side][p]]]

\* M is L but for the line at price p of a side.
LineChanged(L, M, side, p) ==
    \A x \in Sides, y \in Prices : ~(x = side /\ y = p) => M[x][y] = L[x][y]

\* That is what EXCEPT says.
LEMMA OneLine ==
    ASSUME NEW L, Rungs(L), NEW M, Rungs(M), NEW side \in Sides, NEW p \in Prices,
           LineChanged(L, M, side, p), NEW v, v = M[side][p]
    PROVE  M = [L EXCEPT ![side][p] = v]
  <1>1. PICK N : N = [L EXCEPT ![side][p] = v]
    OBVIOUS
  <1>2. N = [x \in Sides |-> IF x = side THEN [L[x] EXCEPT ![p] = v] ELSE L[x]]
    BY <1>1 DEF Rungs
  <1>3. ASSUME NEW x \in Sides PROVE M[x] = N[x]
    <2>1. M[x] = [y \in Prices |-> M[x][y]] /\ L[x] = [y \in Prices |-> L[x][y]]
      BY DEF Rungs
    <2>2. CASE x = side
      <3>1. N[x] = [L[x] EXCEPT ![p] = v]
        BY <2>2, <1>2
      <3>2. N[x] = [y \in Prices |-> IF y = p THEN v ELSE L[x][y]]
        BY <3>1, <2>1
      <3>3. ASSUME NEW y \in Prices PROVE M[x][y] = IF y = p THEN v ELSE L[x][y]
        BY <2>2 DEF LineChanged
      <3> QED
        BY <3>2, <3>3, <2>1
    <2>3. CASE x # side
      <3>1. N[x] = L[x]
        BY <2>3, <1>2
      <3>2. \A y \in Prices : M[x][y] = L[x][y]
        BY <2>3 DEF LineChanged
      <3> QED
        BY <3>1, <3>2, <2>1
    <2> QED
      BY <2>2, <2>3
  <1>4. M = [x \in Sides |-> M[x]] /\ N = [x \in Sides |-> N[x]]
    BY <1>2 DEF Rungs
  <1> QED
    BY <1>1, <1>3, <1>4

\* The line of a queue whose orders are left alone.
LEMMA LineFrame ==
    ASSUME NEW pool, NEW new, NEW i, OrdersBut(pool, new, i), NEW s, s \in Seq(Index),
           \A n \in 1 .. Len(s) : s[n] # i
    PROVE  Line(new, s) = Line(pool, s)
  <1>1. ASSUME NEW n \in 1 .. Len(s) PROVE new[s[n]].order = pool[s[n]].order
    <2>1. s[n] \in Index
      BY ElementOfSeq
    <2> QED
      BY <2>1 DEF OrdersBut
  <1> QED
    BY <1>1 DEF Line

\* s is a queue of orders of price p.
QueueFor(pool, s, p) ==
    /\ s \in Seq(Index) /\ Len(s) \in Nat \ {0} /\ Distinct(s)
    /\ \A n \in 1 .. Len(s) : /\ s[n] \in Index /\ pool[s[n]] # NoOrder
                              /\ pool[s[n]] \in Entries /\ pool[s[n]].order.price = p

\* The queue at a price of a book in order.
LEMMA QueueOf ==
    ASSUME NEW b, NEW q, Rep(b, q), NEW side \in Sides, NEW p \in b.prices[side], NEW s, s = q[p]
    PROVE  QueueFor(b.pool, s, p)
  <1>1. QueuesOK(b.pool, b.levels, b.prices, q)
    BY RepFacts
  <1>2. PICK total : Queue(b.pool, s, p, side, total)
    BY <1>1, LevelFacts
  <1>3. /\ s \in Seq(Index) /\ Len(s) \in Nat \ {0} /\ Distinct(s)
        /\ \A n \in 1 .. Len(s) : s[n] \in Index /\ Stands(b.pool[s[n]], s, n, p, side)
    BY <1>2, QueueFacts
  <1> QED
    BY <1>3, NoOrderFacts DEF Stands, QueueFor

\* Entry i holds no order of another price than p.
OnlyAt(pool, i, p) == pool[i] = NoOrder \/ pool[i].order.price = p

\* Between b and c only the line at price p of a side, and entry i, may differ.
OneChange(b, q, c, z, i, side, p) ==
    /\ side \in Sides /\ p \in Prices
    /\ OnlyAt(b.pool, i, p)
    /\ OrdersBut(b.pool, c.pool, i) /\ PricesBut(b.prices, c.prices, p, side)
    /\ \A other \in Sides : p \in b.prices[other] => other = side
    /\ \A x \in Prices : x # p => z[x] = q[x]

\* The ladder then changes there and nowhere else.
LEMMA LadderChanges ==
    ASSUME NEW b, NEW q, Rep(b, q), NEW c, NEW z, Rep(c, z), NEW i, NEW side, NEW p,
           OneChange(b, q, c, z, i, side, p), NEW v, v = LineAt(c.pool, c.prices, z, side, p)
    PROVE  Ladder(c) = [Ladder(b) EXCEPT ![side][p] = v]
  <1>1. side \in Sides /\ p \in Prices
    BY DEF OneChange
  <1>2. PICK L, M : L = Ladder(b) /\ M = Ladder(c)
    OBVIOUS
  <1>3. Rungs(L) /\ \A x \in Sides, y \in Prices : L[x][y] = LineAt(b.pool, b.prices, q, x, y)
    BY <1>2, LadderIs DEF Rungs
  <1>4. Rungs(M) /\ \A x \in Sides, y \in Prices : M[x][y] = LineAt(c.pool, c.prices, z, x, y)
    BY <1>2, LadderIs DEF Rungs
  <1>5. ASSUME NEW x \in Sides, NEW y \in Prices, ~(x = side /\ y = p)
        PROVE  LineAt(c.pool, c.prices, z, x, y) = LineAt(b.pool, b.prices, q, x, y)
    <2>1. CASE y = p
      <3>1. y \notin b.prices[x] /\ y \notin c.prices[x]
        BY <1>5, <2>1 DEF OneChange, PricesBut
      <3> QED
        BY <3>1 DEF LineAt
    <2>2. CASE y # p
      <3>1. (y \in c.prices[x] <=> y \in b.prices[x]) /\ z[y] = q[y]
        BY <2>2 DEF OneChange, PricesBut
      <3>2. CASE y \in b.prices[x]
        <4>1. Line(c.pool, q[y]) = Line(b.pool, q[y])
          <5>1. OnlyAt(b.pool, i, p)
            BY DEF OneChange
          <5>2. PICK new : new = c.pool
            OBVIOUS
          <5>3. OrdersBut(b.pool, new, i)
            BY <5>2 DEF OneChange
          <5>4. PICK s : s = q[y]
            OBVIOUS
          <5>5. Line(new, s) = Line(b.pool, s)
            <6>1. /\ s \in Seq(Index)
                  /\ \A n \in 1 .. Len(s) : /\ s[n] \in Index /\ b.pool[s[n]] # NoOrder
                                            /\ b.pool[s[n]].order.price = y
              <7>1. QueueFor(b.pool, s, y)
                BY ONLY Rep(b, q), x \in Sides, <3>2, <5>4, QueueOf
              <7> QED
                BY <7>1 DEF QueueFor
            <6>2. \A n \in 1 .. Len(s) : s[n] # i
              BY <2>2, <5>1, <6>1 DEF OnlyAt
            <6> QED
              BY <5>3, <6>1, <6>2, LineFrame
          <5> QED
            BY <5>2, <5>4, <5>5
        <4> QED
          BY <3>1, <3>2, <4>1 DEF LineAt
      <3>3. CASE y \notin b.prices[x]
        BY <3>1, <3>3 DEF LineAt
      <3> QED
        BY <3>2, <3>3
    <2> QED
      BY <2>1, <2>2
  <1>6. LineChanged(L, M, side, p)
    BY <1>3, <1>4, <1>5 DEF LineChanged
  <1>7. v = M[side][p]
    BY <1>1, <1>4
  <1>8. M = [L EXCEPT ![side][p] = v]
    BY ONLY <1>1, <1>3, <1>4, <1>6, <1>7, OneLine
  <1> QED
    BY <1>2, <1>8

\* add(): the line grows at its end.
LEMMA AddLadder ==
    ASSUME NEW b, NEW q, Rep(b, q), NEW o \in Orders, NEW x, NEW r, AddsTo(b, q, x, r, o)
    PROVE  Ladder(x) = [Ladder(b) EXCEPT ![o.side][o.price] =
                           Append(@, [id |-> o.order_id, quantity |-> o.quantity])]
  <1>1. PICK side, p : side = o.side /\ p = o.price
    OBVIOUS
  <1>2. side \in Sides /\ p \in Prices
    BY <1>1, NoOrderFacts
  <1>3. Rep(x, r) /\ Appended(b, q, x, r, o) /\ Quoted(x.prices, b.prices, side, p)
    BY <1>1 DEF AddsTo
  <1>4. PICK i \in Index :
           /\ Requeued(r, q, p, IF p \in b.prices[side] THEN Append(q[p], i) ELSE <<i>>)
           /\ b.pool[i] = NoOrder /\ x.pool[i].order = o /\ OrdersBut(b.pool, x.pool, i)
    BY <1>1, <1>3 DEF Appended
  <1>5. PricesOK(b.levels, b.prices) /\ PricesOK(x.levels, x.prices) /\ q = [y \in Prices |-> q[y]]
    BY <1>3, RepFacts DEF QueuesOK
  <1>6. b.prices \in [Sides -> SUBSET Prices]
    BY <1>5 DEF PricesOK
  <1>7. /\ x.prices[side] = b.prices[side] \cup {p}
        /\ \A other \in Sides : other # side => x.prices[other] = b.prices[other]
    BY <1>2, <1>3, <1>6 DEF Quoted
  <1>8. \A other \in Sides : p \in x.prices[other] => other = side
    <2>1. p \in x.prices[side]
      BY <1>7
    <2> QED
      BY <1>2, <1>5, <2>1, PriceFacts
  <1>9. \A other \in Sides : p \in b.prices[other] => other = side
    BY <1>7, <1>8
  <1>10. PricesBut(b.prices, x.prices, p, side)
    BY <1>7, <1>8 DEF PricesBut
  <1>11. \A y \in Prices : y # p => r[y] = q[y]
    BY <1>4, <1>5 DEF Requeued
  <1>12. OneChange(b, q, x, r, i, side, p)
    BY <1>2, <1>4, <1>9, <1>10, <1>11 DEF OneChange, OnlyAt
  <1>13. PICK v, e : v = LineAt(x.pool, x.prices, r, side, p) /\ e = [id |-> o.order_id, quantity |-> o.quantity]
    OBVIOUS
  <1>14. Ladder(x) = [Ladder(b) EXCEPT ![side][p] = v]
    BY ONLY <1>3, <1>12, <1>13, Rep(b, q), LadderChanges
  <1>15. v = Line(x.pool, r[p])
    BY <1>7, <1>13 DEF LineAt
  <1>16. Ladder(b)[side][p] = LineAt(b.pool, b.prices, q, side, p)
    BY <1>2, LadderIs
  <1>17. v = Append(LineAt(b.pool, b.prices, q, side, p), e)
    <2>1. CASE p \notin b.prices[side]
      <3>1. r[p] = <<i>>
        BY <1>2, <1>4, <1>5, <2>1 DEF Requeued
      <3>2. v = [n \in 1 .. 1 |-> e]
        BY <3>1, <1>4, <1>13, <1>15 DEF Line
      <3>3. LineAt(b.pool, b.prices, q, side, p) = <<>>
        BY <2>1 DEF LineAt
      <3> QED
        BY <3>2, <3>3
    <2>2. CASE p \in b.prices[side]
      <3>1. PICK s, t : s = q[p] /\ t = r[p]
        OBVIOUS
      <3>2. t = Append(s, i)
        BY <1>2, <1>4, <1>5, <2>2, <3>1 DEF Requeued
      <3>3. /\ s \in Seq(Index) /\ Len(s) \in Nat \ {0}
            /\ \A n \in 1 .. Len(s) : s[n] \in Index /\ b.pool[s[n]] # NoOrder
        <4>1. QueueFor(b.pool, s, p)
          BY ONLY Rep(b, q), <1>2, <2>2, <3>1, QueueOf
        <4> QED
          BY <4>1 DEF QueueFor
      <3>4. PICK l \in Nat \ {0} : l = Len(s)
        BY <3>3
      <3>5. Len(t) = l + 1 /\ t[l + 1] = i /\ \A n \in 1 .. l : t[n] = s[n]
        BY <3>2, <3>3, <3>4
      <3>6. \A n \in 1 .. Len(s) : s[n] # i
        BY <1>4, <3>3
      <3>7. Line(x.pool, s) = Line(b.pool, s)
        BY <1>4, <3>3, <3>6, LineFrame
      <3>8. PICK u : u = Line(b.pool, s)
        OBVIOUS
      <3>9. u = [n \in 1 .. l |-> [id |-> x.pool[s[n]].order.order_id, quantity |-> x.pool[s[n]].order.quantity]]
        BY <3>4, <3>7, <3>8 DEF Line
      <3>10. v = [n \in 1 .. l + 1 |-> [id |-> x.pool[t[n]].order.order_id, quantity |-> x.pool[t[n]].order.quantity]]
        BY <1>15, <3>1, <3>5, SMTT(60) DEF Line
      <3>11. v[l + 1] = e /\ \A n \in 1 .. l : v[n] = u[n]
        BY <3>5, <3>9, <3>10, <1>4, <1>13
      <3>12. v = Append(u, e)
        <4>1. DOMAIN u = 1 .. l
          BY <3>9
        <4>2. Append(u, e) = [n \in 1 .. l + 1 |-> IF n <= l THEN u[n] ELSE e]
          <5>1. PICK S : S = {u[n] : n \in 1 .. l} \cup {e}
            OBVIOUS
          <5>2. u \in Seq(S) /\ e \in S
            BY <3>9, <5>1
          <5>3. Len(u) = l
            BY <4>1, <5>2
          <5>4. /\ Append(u, e) \in Seq(S) /\ Len(Append(u, e)) = l + 1
                /\ \A n \in 1 .. l + 1 : Append(u, e)[n] = IF n <= l THEN u[n] ELSE e
            BY <5>2, <5>3, AppendProperties
          <5>5. PICK w : w = Append(u, e)
            OBVIOUS
          <5>6. w \in Seq(S) /\ Len(w) = l + 1
            BY <5>4, <5>5
          <5>7. w = [n \in 1 .. l + 1 |-> w[n]]
            BY <5>6
          <5> QED
            BY <5>4, <5>5, <5>7
        <4>3. DOMAIN v = 1 .. l + 1 /\ v = [n \in 1 .. l + 1 |-> v[n]]
          BY <3>10
        <4>4. \A n \in 1 .. l + 1 : v[n] = IF n <= l THEN u[n] ELSE e
          BY <3>11
        <4> QED
          BY <4>2, <4>3, <4>4
      <3> QED
        BY <2>2, <3>1, <3>8, <3>12 DEF LineAt
    <2> QED
      BY <2>1, <2>2
  <1>18. PICK L : L = Ladder(b)
    OBVIOUS
  <1>19. L = [y \in Sides |-> [n \in Prices |-> L[y][n]]] /\ Ladder(x) = [L EXCEPT ![side][p] = v] /\ v = Append(L[side][p], e)
    BY <1>14, <1>16, <1>17, <1>18, LadderIs
  <1>20. Ladder(x) = [L EXCEPT ![side][p] = Append(@, e)]
    BY <1>19, <1>2
  <1> QED
    BY <1>1, <1>13, <1>18, <1>20

\* RemoveAt and Tail leave the elements that Without keeps.
LEMMA WithoutIs ==
    ASSUME NEW S, NEW s \in Seq(S), NEW k \in 1 .. Len(s)
    PROVE  RemoveAt(s, k) = Without(s, k) /\ (k = 1 => Tail(s) = Without(s, k))
  <1>1. PICK l \in Nat : l = Len(s)
    BY LenProperties
  <1>2. k \in 1 .. l /\ k \in Int
    BY <1>1
  <1>3. \A n \in 1 .. l : s[n] \in S
    BY <1>1, ElementOfSeq
  <1>4. PICK t : t = Without(s, k)
    OBVIOUS
  <1>5. /\ t \in Seq(S) /\ Len(t) = l - 1
        /\ \A n \in 1 .. l - 1 : t[n] = IF n < k THEN s[n] ELSE s[n + 1]
    BY <1>1, <1>4, WithoutFacts, ZenonT(60) DEF Remaining
  <1>6. RemoveAt(s, k) = t
    <2>1. PICK x, y : x = SubSeq(s, 1, k - 1) /\ y = SubSeq(s, k + 1, l)
      OBVIOUS
    <2>2. Piece(x, S, k - 1) /\ \A n \in 1 .. k - 1 : x[n] = s[n]
      <3>1. PICK m \in Nat : m = k - 1
        BY <1>2
      <3>2. \A n \in 1 .. m : s[n] \in S
        BY <3>1, <1>2, <1>3
      <3>3. x \in Seq(S) /\ Len(x) = (IF 1 <= m THEN m - 1 + 1 ELSE 0) /\ \A n \in 1 .. m - 1 + 1 : x[n] = s[1 + n - 1]
        BY <3>1, <3>2, <2>1, SubSeqProperties
      <3>4. Len(x) = m
        BY ONLY <3>3, m \in Nat
      <3>5. ASSUME NEW n \in 1 .. m PROVE x[n] = s[n]
        <4>1. n \in 1 .. m - 1 + 1 /\ 1 + n - 1 = n
          OBVIOUS
        <4> QED
          BY <4>1, <3>3
      <3> QED
        BY <3>1, <3>3, <3>4, <3>5 DEF Piece
    <2>3. Piece(y, S, l - k) /\ \A n \in 1 .. l - k : y[n] = s[k + n]
      <3>1. PICK m \in Int : m = k + 1
        BY <1>2
      <3>2. \A n \in m .. l : s[n] \in S
        BY <3>1, <1>2, <1>3
      <3>3. y \in Seq(S) /\ Len(y) = (IF m <= l THEN l - m + 1 ELSE 0) /\ \A n \in 1 .. l - m + 1 : y[n] = s[m + n - 1]
        BY <3>1, <3>2, <2>1, SubSeqProperties
      <3>4. Len(y) = l - k /\ l - k \in Nat
        BY ONLY <3>1, <3>3, <1>2, l \in Nat
      <3>5. ASSUME NEW n \in 1 .. l - k PROVE y[n] = s[k + n]
        <4>1. n \in 1 .. l - m + 1 /\ m + n - 1 = k + n
          BY <3>1, <1>2
        <4> QED
          BY <4>1, <3>3
      <3> QED
        BY <3>3, <3>4, <3>5 DEF Piece
    <2>4. PICK u : u = x \o y
      OBVIOUS
    <2>5. PICK a \in Nat, c \in Nat : a = k - 1 /\ c = l - k
      BY <1>2
    <2>6. Piece(u, S, a + c) /\ Joins(u, x, a, y, c)
      BY <2>2, <2>3, <2>4, <2>5, Joining DEF Follows
    <2>7. u \in Seq(S) /\ Len(u) = a + c
      BY <2>6 DEF Piece
    <2>8. ASSUME NEW n \in 1 .. Len(u) PROVE u[n] = t[n]
      <3>0. n \in 1 .. a + c /\ n \in 1 .. l - 1
        BY <2>5, <2>7, <1>2
      <3>1. CASE n <= a
        <4>1. n \in 1 .. a /\ n < k
          BY <3>0, <3>1, <2>5, <1>2
        <4>2. u[n] = x[n] /\ x[n] = s[n]
          BY <4>1, <2>6, <2>2, <2>5 DEF Joins
        <4> QED
          BY <4>1, <4>2, <3>0, <1>5
      <3>2. CASE ~(n <= a)
        <4>1. PICK j \in 1 .. c : n = a + j
          <5>1. n - a \in 1 .. c /\ n = a + (n - a)
            BY <3>0, <3>2
          <5> QED
            BY <5>1
        <4>2. u[n] = y[j] /\ y[j] = s[k + j]
          BY <4>1, <2>6, <2>3, <2>5 DEF Joins
        <4>3. k + j = n + 1 /\ ~(n < k)
          BY <4>1, <2>5, <1>2
        <4> QED
          BY <4>2, <4>3, <3>0, <1>5
      <3> QED
        BY <3>1, <3>2
    <2>9. Len(u) = Len(t)
      BY <2>5, <2>7, <1>5, <1>2
    <2>10. u = t
      BY <2>7, <2>8, <2>9, <1>5, SeqEqual
    <2> QED
      BY <2>1, <2>4, <2>10, <1>1 DEF RemoveAt
  <1>7. ASSUME k = 1 PROVE Tail(s) = t
    <2>1. s # <<>>
      BY <1>1, <1>2
    <2>2. PICK u : u = Tail(s)
      OBVIOUS
    <2>3. u \in Seq(S) /\ Len(u) = l - 1 /\ \A n \in 1 .. Len(u) : u[n] = s[n + 1]
      BY <1>1, <2>1, <2>2, HeadTailProperties
    <2>4. \A n \in 1 .. l - 1 : t[n] = s[n + 1]
      BY <1>5, <1>7
    <2>5. u = t
      BY <2>3, <2>4, <1>5, SeqEqual
    <2> QED
      BY <2>2, <2>5
  <1> QED
    BY <1>4, <1>6, <1>7

\* A line is a sequence, as long as its queue.
LEMMA LineSeq ==
    ASSUME NEW pool, NEW s, NEW l \in Nat, l = Len(s), NEW u, u = Line(pool, s)
    PROVE  /\ \E S : u \in Seq(S)
           /\ Len(u) = l /\ u = [n \in 1 .. l |-> u[n]]
           /\ \A n \in 1 .. l : u[n] = [id |-> pool[s[n]].order.order_id, quantity |-> pool[s[n]].order.quantity]
  <1>1. u = [n \in 1 .. l |-> [id |-> pool[s[n]].order.order_id, quantity |-> pool[s[n]].order.quantity]]
    BY DEF Line
  <1>2. PICK S : S = {u[n] : n \in 1 .. l}
    OBVIOUS
  <1>3. u \in Seq(S)
    BY <1>1, <1>2
  <1>4. DOMAIN u = 1 .. l
    BY <1>1
  <1>5. Len(u) = l
    BY ONLY <1>3, <1>4, SMTT(30)
  <1> QED
    BY <1>1, <1>3, <1>5

\* Where an order stands in its queue.
LEMMA LocatedLine ==
    ASSUME NEW b, NEW q, Rep(b, q), NEW i, NEW o, NEW side, NEW p, NEW s, NEW k, NEW level, NEW total,
           Located(b, q, i, o, side, p, s, k, level, total)
    PROVE  /\ side \in Sides /\ p \in Prices /\ p \in b.prices[side] /\ s = q[p]
           /\ s \in Seq(Index) /\ Len(s) \in Nat \ {0} /\ Distinct(s)
           /\ k \in 1 .. Len(s) /\ s[k] = i /\ i \in Index
           /\ o = b.pool[i].order /\ OnlyAt(b.pool, i, p)
           /\ \A other \in Sides : p \in b.prices[other] => other = side
           /\ Ladder(b)[side][p] = Line(b.pool, s) /\ Rungs(Ladder(b))
  <1>1. /\ side \in Sides /\ p \in Prices /\ p \in b.prices[side] /\ s = q[p]
        /\ k \in 1 .. Len(s) /\ s[k] = i /\ i \in Index /\ o = b.pool[i].order /\ p = o.price
    BY DEF Located
  <1>2. s \in Seq(Index) /\ Len(s) \in Nat \ {0} /\ Distinct(s)
    <2>1. QueueFor(b.pool, s, p)
      BY ONLY Rep(b, q), <1>1, QueueOf, SMTT(60)
    <2> QED
      BY <2>1 DEF QueueFor
  <1>3. \A other \in Sides : p \in b.prices[other] => other = side
    BY <1>1, RepFacts, PriceFacts, ZenonT(60)
  <1>4. Ladder(b)[side][p] = Line(b.pool, s) /\ Rungs(Ladder(b))
    BY <1>1, LadderIs DEF LineAt, Rungs
  <1>5. OnlyAt(b.pool, i, p)
    BY ONLY <1>1 DEF OnlyAt
  <1> QED
    BY ONLY <1>1, <1>2, <1>3, <1>4, <1>5, Zenon

\* purge_order(): one order leaves its line, the others keep their turns.
LEMMA RemoveLadder ==
    ASSUME NEW b, NEW q, Rep(b, q), NEW i, NEW o, NEW side, NEW p, NEW s, NEW k, NEW level, NEW total,
           Located(b, q, i, o, side, p, s, k, level, total), NEW c, NEW z, Rep(c, z),
           Removed(b, q, c, z, i, side, p, k)
    PROVE  Ladder(c) = [Ladder(b) EXCEPT ![side][p] = Without(Line(b.pool, s), k)]
  <1>1. /\ side \in Sides /\ p \in Prices /\ p \in b.prices[side] /\ s = q[p]
        /\ s \in Seq(Index) /\ Len(s) \in Nat \ {0} /\ Distinct(s)
        /\ k \in 1 .. Len(s) /\ s[k] = i /\ i \in Index
        /\ o = b.pool[i].order /\ OnlyAt(b.pool, i, p)
        /\ \A other \in Sides : p \in b.prices[other] => other = side
    BY LocatedLine
  <1>2. PICK l \in Nat \ {0} : l = Len(s)
    BY <1>1
  <1>3. OrdersBut(b.pool, c.pool, i)
    BY DEF Removed
  <1>4. b.prices \in [Sides -> SUBSET Prices] /\ q = [y \in Prices |-> q[y]]
    BY RepFacts DEF PricesOK, QueuesOK
  <1>5. PICK u : u = Line(b.pool, s)
    OBVIOUS
  <1>6. /\ Len(u) = l
        /\ \A n \in 1 .. l : u[n] = [id |-> b.pool[s[n]].order.order_id, quantity |-> b.pool[s[n]].order.quantity]
    BY <1>2, <1>5, LineSeq
  <1>7. PICK w : w = Without(u, k)
    OBVIOUS
  <1>8. w = [n \in 1 .. l - 1 |-> IF n < k THEN u[n] ELSE u[n + 1]]
    BY <1>6, <1>7 DEF Without
  <1>9. PICK v : v = LineAt(c.pool, c.prices, z, side, p)
    OBVIOUS
  <1>10. OneChange(b, q, c, z, i, side, p) /\ v = w
    <2>1. CASE l = 1
      <3>1. z = q /\ c.prices = [b.prices EXCEPT ![side] = @ \ {p}]
        BY <2>1, <1>1, <1>2 DEF Removed
      <3>2. p \notin c.prices[side] /\ \A other \in Sides : \A x : x # p => (x \in c.prices[other] <=> x \in b.prices[other])
        BY <3>1, <1>1, <1>4
      <3>3. \A other \in Sides : p \in c.prices[other] => other = side
        BY <3>1, <1>1, <1>4
      <3>4. PricesBut(b.prices, c.prices, p, side)
        BY <3>2, <3>3 DEF PricesBut
      <3>5. v = <<>>
        BY <3>2, <1>9 DEF LineAt
      <3>6. w = <<>>
        BY <2>1, <1>8
      <3> QED
        BY <1>1, <1>3, <3>1, <3>4, <3>5, <3>6 DEF OneChange
    <2>2. CASE l # 1
      <3>1. Requeued(z, q, p, Without(s, k)) /\ c.prices = b.prices
        BY <2>2, <1>1, <1>2 DEF Removed
      <3>2. PICK t : t = Without(s, k)
        OBVIOUS
      <3>3. t \in Seq(Index) /\ Len(t) = l - 1 /\ \A n \in 1 .. l - 1 : t[n] = IF n < k THEN s[n] ELSE s[n + 1]
        <4>1. Remaining(t, s, k, Index)
          BY <1>1, <3>2, WithoutFacts
        <4> QED
          BY <4>1, <1>2 DEF Remaining
      <3>4. z[p] = t /\ \A x \in Prices : x # p => z[x] = q[x]
        BY <3>1, <3>2, <1>1, <1>4 DEF Requeued
      <3>5. PricesBut(b.prices, c.prices, p, side)
        BY <3>1, <1>1 DEF PricesBut
      <3>6. v = Line(c.pool, t)
        BY <3>1, <3>4, <1>1, <1>9 DEF LineAt
      <3>7. v = [n \in 1 .. l - 1 |-> [id |-> c.pool[t[n]].order.order_id, quantity |-> c.pool[t[n]].order.quantity]]
        BY <3>3, <3>6 DEF Line
      <3>8. ASSUME NEW n \in 1 .. l - 1
            PROVE  [id |-> c.pool[t[n]].order.order_id, quantity |-> c.pool[t[n]].order.quantity]
                      = IF n < k THEN u[n] ELSE u[n + 1]
        <4>1. PICK m \in 1 .. l : m # k /\ t[n] = s[m] /\ u[m] = IF n < k THEN u[n] ELSE u[n + 1]
          <5>1. k \in 1 .. l
            BY <1>1, <1>2
          <5>2. CASE n < k
            <6>1. n \in 1 .. l /\ n # k
              BY <5>1, <5>2
            <6> QED
              BY <6>1, <5>2, <3>3
          <5>3. CASE ~(n < k)
            <6>1. n + 1 \in 1 .. l /\ n + 1 # k
              BY <5>1, <5>3
            <6> QED
              BY <6>1, <5>3, <3>3
          <5> QED
            BY <5>2, <5>3
        <4>2. s[m] # i /\ s[m] \in Index
          BY <4>1, <1>1, <1>2, ElementOfSeq DEF Distinct
        <4>3. c.pool[t[n]].order = b.pool[s[m]].order
          BY <4>1, <4>2, <1>3 DEF OrdersBut
        <4>4. [id |-> c.pool[t[n]].order.order_id, quantity |-> c.pool[t[n]].order.quantity] = u[m]
          BY <4>3, <1>6
        <4> QED
          BY <4>1, <4>4
      <3>9. v = w
        BY <3>7, <3>8, <1>8
      <3> QED
        BY <1>1, <1>3, <3>4, <3>5, <3>9 DEF OneChange
    <2> QED
      BY <2>1, <2>2
  <1>11. Ladder(c) = [Ladder(b) EXCEPT ![side][p] = v]
    <2>1. OneChange(b, q, c, z, i, side, p)
      BY <1>10
    <2> QED
      BY ONLY <1>9, <2>1, Rep(b, q), Rep(c, z), LadderChanges
  <1> QED
    BY <1>5, <1>7, <1>10, <1>11

\* A quantity changes where the order stands.
LEMMA ResizeLadder ==
    ASSUME NEW b, NEW q, Rep(b, q), NEW i, NEW o, NEW side, NEW p, NEW s, NEW k, NEW level, NEW total,
           Located(b, q, i, o, side, p, s, k, level, total), NEW c, Rep(c, q), 
           NEW w \in 1 .. QUANTITY_RANGE - 1, Restated(b, c, i, w)
    PROVE  Ladder(c) = [Ladder(b) EXCEPT ![side][p] = [Line(b.pool, s) EXCEPT ![k].quantity = w]]
  <1>1. /\ side \in Sides /\ p \in Prices /\ p \in b.prices[side] /\ s = q[p]
        /\ s \in Seq(Index) /\ Len(s) \in Nat \ {0} /\ Distinct(s)
        /\ k \in 1 .. Len(s) /\ s[k] = i /\ i \in Index
        /\ o = b.pool[i].order /\ OnlyAt(b.pool, i, p)
        /\ \A other \in Sides : p \in b.prices[other] => other = side
    BY LocatedLine
  <1>2. PICK l \in Nat \ {0} : l = Len(s)
    BY <1>1
  <1>3. c.prices = b.prices /\ Resized(b.pool, c.pool, i, w)
    BY DEF Restated
  <1>4. PICK new : new = c.pool
    OBVIOUS
  <1>5. /\ SameBut(new[i], b.pool[i], w)
        /\ new[i].order.order_id = b.pool[i].order.order_id
        /\ \A j \in Index : j # i => new[j] = b.pool[j]
    <2>1. PoolOK(b.pool) /\ b.pool[i] \in Entries
      BY RepFacts DEF Located
    <2> QED
      BY ONLY <1>1, <1>3, <1>4, <2>1, ResizedFacts, SMTT(30)
  <1>6. OrdersBut(b.pool, c.pool, i)
    BY <1>4, <1>5 DEF OrdersBut
  <1>7. PricesBut(b.prices, c.prices, p, side)
    BY <1>1, <1>3 DEF PricesBut
  <1>8. OneChange(b, q, c, q, i, side, p)
    BY <1>1, <1>6, <1>7 DEF OneChange
  <1>9. PICK u, v, x : u = Line(b.pool, s) /\ v = LineAt(c.pool, c.prices, q, side, p)
                       /\ x = [u EXCEPT ![k].quantity = w]
    OBVIOUS
  <1>10. Ladder(c) = [Ladder(b) EXCEPT ![side][p] = v]
    BY ONLY <1>8, <1>9, Rep(b, q), Rep(c, q), LadderChanges
  <1>11. v = Line(new, s)
    BY <1>1, <1>3, <1>4, <1>9 DEF LineAt
  <1>12. /\ u = [n \in 1 .. l |-> u[n]]
         /\ \A n \in 1 .. l : u[n] = [id |-> b.pool[s[n]].order.order_id, quantity |-> b.pool[s[n]].order.quantity]
    BY ONLY <1>2, <1>9, LineSeq
  <1>13. /\ v = [n \in 1 .. l |-> v[n]]
         /\ \A n \in 1 .. l : v[n] = [id |-> new[s[n]].order.order_id, quantity |-> new[s[n]].order.quantity]
    BY <1>2, <1>11, LineSeq
  <1>14. x = [n \in 1 .. l |-> IF n = k THEN [u[k] EXCEPT !.quantity = w] ELSE u[n]]
    BY ONLY <1>9, <1>12, <1>1, <1>2
  <1>15. ASSUME NEW n \in 1 .. l PROVE v[n] = IF n = k THEN [u[k] EXCEPT !.quantity = w] ELSE u[n]
    <2>1. CASE n = k
      <3>1. new[i].order.quantity = w
        <4>1. b.pool[i] \in Entries
          BY DEF Located
        <4> QED
          BY <1>5, <4>1, SMTT(30) DEF SameBut, Entries, Orders
      <3>2. v[k] = [id |-> b.pool[i].order.order_id, quantity |-> w]
        BY <2>1, <3>1, <1>5, <1>13, <1>1, SMTT(60)
      <3>3. [u[k] EXCEPT !.quantity = w] = [id |-> b.pool[i].order.order_id, quantity |-> w]
        BY <2>1, <1>12, <1>1
      <3> QED
        BY <2>1, <3>2, <3>3
    <2>2. CASE n # k
      <3>1. s[n] \in Index /\ s[n] # i
        BY <2>2, <1>1, <1>2, ElementOfSeq DEF Distinct
      <3>2. new[s[n]] = b.pool[s[n]]
        BY <3>1, <1>5
      <3> QED
        BY <2>2, <3>2, <1>12, <1>13
    <2> QED
      BY <2>1, <2>2
  <1>16. v = x
    BY <1>13, <1>14, <1>15
  <1> QED
    BY <1>9, <1>10, <1>16

-----------------------------------------------------------------------------

\* Entry i stands at place k of the line u, at price p of a side.
Placed(b, q, i, side, p, k, u) ==
    /\ side \in Sides /\ p \in Prices /\ p \in b.prices[side]
    /\ u = Ladder(b)[side][p] /\ k \in 1 .. Len(u) /\ Len(u) \in Nat
    /\ k \in 1 .. Len(q[p]) /\ q[p][k] = i /\ Distinct(q[p])
    /\ side = b.pool[i].order.side /\ p = b.pool[i].order.price
    /\ u[k] = [id |-> b.pool[i].order.order_id, quantity |-> b.pool[i].order.quantity]

\* The place of a located order.
LEMMA PlacedIs ==
    ASSUME NEW b, NEW q, Rep(b, q), NEW i, NEW o, NEW side, NEW p, NEW s, NEW k, NEW level, NEW total,
           Located(b, q, i, o, side, p, s, k, level, total), NEW u, u = Line(b.pool, s)
    PROVE  Placed(b, q, i, side, p, k, u) /\ \E S : u \in Seq(S)
  <1>1. /\ side \in Sides /\ p \in Prices /\ p \in b.prices[side] /\ s = q[p]
        /\ s \in Seq(Index) /\ Len(s) \in Nat \ {0} /\ Distinct(s)
        /\ k \in 1 .. Len(s) /\ s[k] = i /\ o = b.pool[i].order
        /\ Ladder(b)[side][p] = Line(b.pool, s)
    BY ONLY Rep(b, q), Located(b, q, i, o, side, p, s, k, level, total), LocatedLine
  <1>2. side = o.side /\ p = o.price
    BY DEF Located
  <1>3. PICK l \in Nat : l = Len(s)
    BY <1>1
  <1>4. /\ \E S : u \in Seq(S)
        /\ Len(u) = l
        /\ \A n \in 1 .. l : u[n] = [id |-> b.pool[s[n]].order.order_id, quantity |-> b.pool[s[n]].order.quantity]
    BY <1>3, LineSeq
  <1> QED
    BY <1>1, <1>2, <1>3, <1>4, Zenon DEF Placed

\* The k-th order of the line u is gone; the first leaves the tail.
Shortened(L, M, side, p, u, k) ==
    /\ M = [L EXCEPT ![side][p] = RemoveAt(u, k)]
    /\ k = 1 => Tail(u) = RemoveAt(u, k)

\* What purge_order() does to the ladder.
LEMMA PurgeLadder ==
    ASSUME NEW b, NEW q, Rep(b, q), NEW id \in Int, Has(b.orders, id), NEW i, i = Find(b.orders, id),
           NEW c, c = purge_order(b, id).book
    PROVE  \E side, p, k, u : /\ Placed(b, q, i, side, p, k, u)
                              /\ Shortened(Ladder(b), Ladder(c), side, p, u, k)
  <1>1. PICK z : Leaves(b, q, c, z, i)
    BY PurgeRep
  <1>2. PICK o, side, p, s, k, level, total :
           /\ Located(b, q, i, o, side, p, s, k, level, total)
           /\ Removed(b, q, c, z, i, side, p, k)
    BY <1>1 DEF Leaves
  <1>3. Rep(c, z)
    BY <1>1 DEF Leaves
  <1>4. PICK u : u = Line(b.pool, s)
    OBVIOUS
  <1>5. Placed(b, q, i, side, p, k, u) /\ \E S : u \in Seq(S)
    BY ONLY Rep(b, q), <1>2, <1>4, PlacedIs
  <1>6. Ladder(c) = [Ladder(b) EXCEPT ![side][p] = Without(u, k)]
    BY ONLY Rep(b, q), <1>2, <1>3, <1>4, RemoveLadder
  <1>7. k \in 1 .. Len(u)
    BY <1>5, Zenon DEF Placed
  <1>8. RemoveAt(u, k) = Without(u, k) /\ (k = 1 => Tail(u) = Without(u, k))
    BY ONLY <1>5, <1>7, WithoutIs
  <1>9. Shortened(Ladder(b), Ladder(c), side, p, u, k)
    BY <1>6, <1>8 DEF Shortened
  <1> QED
    BY <1>5, <1>9

\* The k-th order of the line u has quantity w.
Requantified(L, M, side, p, u, k, w) == M = [L EXCEPT ![side][p] = [u EXCEPT ![k].quantity = w]]

\* What a new quantity does to it.
LEMMA RestateLadder ==
    ASSUME NEW b, NEW q, Rep(b, q), NEW id \in Int, Has(b.orders, id), NEW i, i = Find(b.orders, id),
           NEW c, Rep(c, q), NEW w \in 1 .. QUANTITY_RANGE - 1, Restated(b, c, i, w)
    PROVE  \E side, p, k, u : /\ Placed(b, q, i, side, p, k, u)
                              /\ Requantified(Ladder(b), Ladder(c), side, p, u, k, w)
  <1>1. CoreOf(b, q)
    BY RepFacts
  <1>2. PICK o, side, p, s, k, level, total : Located(b, q, i, o, side, p, s, k, level, total)
    BY <1>1, OrderFacts
  <1>3. PICK u : u = Line(b.pool, s)
    OBVIOUS
  <1>4. Placed(b, q, i, side, p, k, u)
    BY ONLY Rep(b, q), <1>2, <1>3, PlacedIs
  <1>5. Requantified(Ladder(b), Ladder(c), side, p, u, k, w)
    BY ONLY Rep(b, q), <1>2, Rep(c, q), w \in 1 .. QUANTITY_RANGE - 1, Restated(b, c, i, w), <1>3, ResizeLadder
    DEF Requantified
  <1> QED
    BY ONLY <1>4, <1>5

\* The order the loop trades with: the first at the best price of the other side.
LEMMA OpponentIs ==
    ASSUME NEW q, Rep(book, q), order \in Takers, NEW o, o = Opponent, o # NULL,
           NEW opp, opp = Opposite(order.side)
    PROVE  /\ o \in Orders /\ o.order_id \in Int /\ Has(book.orders, o.order_id)
           /\ book.pool[Find(book.orders, o.order_id)].order = o
           /\ Find(book.orders, o.order_id) = q[o.price][1] /\ 1 \in 1 .. Len(q[o.price])
           /\ opp \in Sides /\ o.price \in book.prices[opp]
           /\ ~Better(order.side, o.price, order.price)
           /\ \A x \in book.prices[opp] : x # o.price => Better(opp, o.price, x)
  <1>1. PICK side : side = order.side
    OBVIOUS
  <1>2. side \in Sides
    BY <1>1, Markers
  <1>3. PICK m : m = best_opposing_order(book, side)
    OBVIOUS
  <1>4. o = m /\ m # NULL /\ ~Better(side, m.price, order.price)
    BY <1>1, <1>3 DEF Opponent
  <1>5. BookOK(book)
    BY DEF BookOK
  <1>6. /\ m \in Orders /\ Has(book.orders, m.order_id) /\ m.order_id \in Int
        /\ book.pool[Find(book.orders, m.order_id)].order = m
        /\ Find(book.orders, m.order_id) = Level(book, m.price).head
        /\ m.price \in book.prices[opp]
        /\ \A x \in book.prices[opp] : x # m.price => Better(opp, m.price, x)
    BY <1>1, <1>2, <1>3, <1>4, <1>5, BestOpposing
  <1>7. opp \in Sides
    BY <1>1, <1>2 DEF Opposite, Sides
  <1>8. PICK p, s : p = m.price /\ s = q[p] /\ p \in book.prices[opp]
    BY <1>6
  <1>9. PICK total : AtLevel(book, s, total, opp, p)
    BY <1>7, <1>8, LevelIs
  <1>10. Level(book, p).head = s[1]
    BY <1>9 DEF AtLevel
  <1>11. 1 \in 1 .. Len(s)
    <2>1. QueueFor(book.pool, s, p)
      BY ONLY Rep(book, q), <1>7, <1>8, QueueOf
    <2> QED
      BY <2>1 DEF QueueFor
  <1> QED
    BY <1>1, <1>4, <1>6, <1>7, <1>8, <1>10, <1>11

-----------------------------------------------------------------------------
(* The steps of the book, as steps of MatchingEngine.                     *)

\* The history variable says what the book stands for.
LadderInv == ladder = Ladder(book)

\* The prices of a side are those where somebody queues.
LEMMA QuotedIs ==
    ASSUME NEW q, Rep(book, q), LadderInv, NEW side \in Sides
    PROVE  Engine!Quoted(side) = book.prices[side]
  <1>1. PricesOK(book.levels, book.prices)
    BY RepFacts
  <1>2. book.prices[side] \subseteq Prices
    BY <1>1, PriceFacts
  <1>3. ASSUME NEW p \in Prices PROVE ladder[side][p] # <<>> <=> p \in book.prices[side]
    <2>1. PICK u : u = ladder[side][p]
      OBVIOUS
    <2>2. u = LineAt(book.pool, book.prices, q, side, p)
      BY <2>1, LadderIs DEF LadderInv
    <2>3. CASE p \notin book.prices[side]
      BY <2>1, <2>2, <2>3 DEF LineAt
    <2>4. CASE p \in book.prices[side]
      <3>1. PICK s, l : s = q[p] /\ l = Len(s)
        OBVIOUS
      <3>2. l \in Nat \ {0}
        <4>1. QueueFor(book.pool, s, p)
          BY ONLY Rep(book, q), side \in Sides, <2>4, <3>1, QueueOf
        <4> QED
          BY <4>1, <3>1 DEF QueueFor
      <3>3. u = Line(book.pool, s)
        BY <2>2, <2>4, <3>1 DEF LineAt
      <3>4. Len(u) = l
        BY <3>1, <3>2, <3>3, LineSeq
      <3>5. u # <<>>
        BY <3>2, <3>4
      <3> QED
        BY <2>1, <2>4, <3>5
    <2> QED
      BY <2>3, <2>4
  <1> QED
    BY <1>2, <1>3 DEF Engine!Quoted

\* What the taker accepts.
LEMMA AcceptableIs ==
    ASSUME NEW q, Rep(book, q), LadderInv, order \in Takers, NEW opp, opp = Opposite(order.side)
    PROVE  /\ opp \in Sides /\ opp = Engine!Other(order.side)
           /\ Engine!Acceptable = {x \in book.prices[opp] : ~Better(order.side, x, order.price)}
  <1>1. order.side \in Sides /\ order.price \in Int
    BY Markers, BookAssumption
  <1>2. opp \in Sides /\ opp = Engine!Other(order.side)
    BY <1>1 DEF Opposite, Sides, Engine!Other
  <1>3. Engine!Quoted(opp) = book.prices[opp]
    BY <1>2, QuotedIs
  <1>4. Engine!Acceptable = {x \in book.prices[opp] : Engine!Accepts(order.side, order.price, x)}
    BY <1>2, <1>3 DEF Engine!Acceptable
  <1>5. ASSUME NEW x \in book.prices[opp]
        PROVE  Engine!Accepts(order.side, order.price, x) <=> ~Better(order.side, x, order.price)
    <2>1. x \in Int
      <3>1. PricesOK(book.levels, book.prices)
        BY RepFacts, Zenon
      <3> QED
        BY <3>1, <1>2, PriceFacts
    <2> QED
      BY <2>1, <1>1 DEF Engine!Accepts, Better
  <1> QED
    BY <1>2, <1>4, <1>5

\* The first order of the queue it trades with.
LEMMA FirstPlace ==
    ASSUME NEW b, NEW q, Rep(b, q), NEW i, NEW side, NEW p, NEW k, NEW u, Placed(b, q, i, side, p, k, u),
           NEW opp \in Sides, NEW x \in b.prices[opp], x = b.pool[i].order.price,
           i = q[x][1], 1 \in 1 .. Len(q[x])
    PROVE  side = opp /\ p = x /\ k = 1
  <1>1. p = x /\ side \in Sides /\ p \in b.prices[side]
    BY Zenon DEF Placed
  <1>2. PricesOK(b.levels, b.prices)
    BY RepFacts, Zenon
  <1>3. side = opp
    <2>1. \A other \in Sides : x \in b.prices[other] => other = opp
      BY ONLY <1>2, opp \in Sides, x \in b.prices[opp], PriceFacts
    <2> QED
      BY <1>1, <2>1, Zenon
  <1>4. k = 1
    BY <1>1, ZenonT(40) DEF Placed, Distinct
  <1> QED
    BY <1>1, <1>3, <1>4, Zenon

\* ExecuteTrade: a trade with the oldest order at the best price.
LEMMA TradeMatches ==
    ASSUME BookInv, LadderInv, LadderInv', ExecuteTrade
    PROVE  Engine!Match
  <1>1. PICK o, v, opp, p : /\ o = Opponent /\ v = Smaller(order.quantity, o.quantity)
                            /\ opp = Opposite(order.side) /\ p = o.price
    OBVIOUS
  <1>2. /\ order # NULL /\ o # NULL
        /\ book' = trade(book, o.order_id, v).book
        /\ order' = IF order.quantity = v THEN NULL ELSE [order EXCEPT !.quantity = @ - v]
    BY <1>1 DEF ExecuteTrade, Idle
  <1>3. BookOK(book) /\ order \in Takers
    BY <1>2, InvParts DEF Taking
  <1>4. PICK q : Rep(book, q)
    BY <1>3 DEF BookOK
  <1>5. /\ o \in Orders /\ o.order_id \in Int /\ Has(book.orders, o.order_id)
        /\ book.pool[Find(book.orders, o.order_id)].order = o
        /\ Find(book.orders, o.order_id) = q[p][1] /\ 1 \in 1 .. Len(q[p])
        /\ opp \in Sides /\ p \in book.prices[opp]
        /\ ~Better(order.side, p, order.price)
        /\ \A x \in book.prices[opp] : x # p => Better(opp, p, x)
    BY <1>1, <1>2, <1>3, <1>4, OpponentIs
  <1>6. /\ opp = Engine!Other(order.side)
        /\ Engine!Acceptable = {x \in book.prices[opp] : ~Better(order.side, x, order.price)}
    BY <1>1, <1>3, <1>4, AcceptableIs
  <1>7. p \in Engine!Acceptable
    BY <1>5, <1>6
  <1>8. ASSUME NEW x \in Engine!Acceptable PROVE Engine!AtLeastAsGood(order.side, p, x)
    <2>1. x \in book.prices[opp] /\ x \in Int /\ p \in Int
      <3>1. PricesOK(book.levels, book.prices)
        BY <1>4, RepFacts
      <3>2. x \in book.prices[opp]
        BY <1>6, <1>8
      <3> QED
        BY <3>1, <3>2, <1>5, PriceFacts
    <2>2. x = p \/ Better(opp, p, x)
      BY <2>1, <1>5
    <2>3. order.side \in Sides
      BY <1>3, Markers
    <2> QED
      BY <2>1, <2>2, <2>3, <1>1 DEF Better, Opposite, Sides, Engine!AtLeastAsGood
  <1>9. PICK i, u : i = Find(book.orders, o.order_id) /\ u = ladder[opp][p]
    OBVIOUS
  <1>10. PICK x \in Nat \ {0}, y \in Nat \ {0}, R \in Nat :
           /\ x = order.quantity /\ y = o.quantity /\ R = QUANTITY_RANGE /\ x < R /\ y < R
    <2>1. order.quantity \in 1 .. QUANTITY_RANGE - 1 /\ o.quantity \in 1 .. QUANTITY_RANGE - 1
          /\ QUANTITY_RANGE \in Nat
      BY <1>3, <1>5, Markers, NoOrderFacts, PoolAssumption
    <2> QED
      BY <2>1
  <1>11. v \in Nat \ {0} /\ v = (IF y < x THEN y ELSE x) /\ v <= y
    BY <1>1, <1>10 DEF Smaller
  <1>12. PICK b, c, L, M : b = book /\ c = book' /\ L = ladder /\ M = ladder'
    OBVIOUS
  <1>13. L = Ladder(b) /\ M = Ladder(c) /\ Rep(b, q) /\ Has(b.orders, o.order_id) /\ i = Find(b.orders, o.order_id)
         /\ b.pool[i].order = o
    BY <1>4, <1>5, <1>9, <1>12 DEF LadderInv
  <1>14. /\ u[1].quantity = y
         /\ ladder' = [ladder EXCEPT ![opp][p] = IF y = v THEN Tail(u) ELSE [u EXCEPT ![1].quantity = @ - v]]
    <2>1. CASE y = v
      <3>1. c = purge_order(b, o.order_id).book
        BY <2>1, <1>2, <1>10, <1>12, <1>13 DEF trade
      <3>2. PICK side, pp, k, uu : /\ Placed(b, q, i, side, pp, k, uu)
                                   /\ Shortened(L, M, side, pp, uu, k)
        BY <3>1, <1>5, <1>13, PurgeLadder
      <3>3. side = opp /\ pp = p /\ k = 1
        <4>1. p \in b.prices[opp] /\ p = b.pool[i].order.price /\ i = q[p][1] /\ 1 \in 1 .. Len(q[p]) /\ opp \in Sides
          BY <1>1, <1>5, <1>9, <1>12, <1>13
        <4> QED
          BY ONLY <4>1, <3>2, <1>13, FirstPlace
      <3>4. uu = u /\ u[1].quantity = y
        BY <3>2, <3>3, <1>9, <1>10, <1>12, <1>13 DEF Placed
      <3> QED
        BY <2>1, <3>2, <3>3, <3>4, <1>12 DEF Shortened
    <2>2. CASE y # v
      <3>1. v < b.pool[i].order.quantity
        BY <2>2, <1>10, <1>11, <1>13
      <3>2. PICK w : w = y - v
        OBVIOUS
      <3>3. w \in 1 .. QUANTITY_RANGE - 1
        BY <2>2, <3>2, <1>10, <1>11
      <3>4. Rep(c, q) /\ Restated(b, c, i, w)
        <4>1. /\ Rep(trade(b, o.order_id, v).book, q)
              /\ Restated(b, trade(b, o.order_id, v).book, i, b.pool[i].order.quantity - v)
          BY <3>1, <1>5, <1>11, <1>13, TradePartial
        <4> QED
          BY <4>1, <3>2, <1>2, <1>10, <1>12, <1>13
      <3>5. PICK side, pp, k, uu : /\ Placed(b, q, i, side, pp, k, uu)
                                   /\ Requantified(L, M, side, pp, uu, k, w)
        BY <3>3, <3>4, <1>5, <1>13, RestateLadder
      <3>6. side = opp /\ pp = p /\ k = 1
        <4>1. p \in b.prices[opp] /\ p = b.pool[i].order.price /\ i = q[p][1] /\ 1 \in 1 .. Len(q[p]) /\ opp \in Sides
          BY <1>1, <1>5, <1>9, <1>12, <1>13
        <4> QED
          BY ONLY <4>1, <3>5, <1>13, FirstPlace
      <3>7. uu = u /\ u[1].quantity = y
        BY <3>5, <3>6, <1>9, <1>10, <1>12, <1>13 DEF Placed
      <3>8. M = [L EXCEPT ![opp][p] = [u EXCEPT ![1].quantity = w]]
        BY <3>5, <3>6, <3>7 DEF Requantified
      <3>9. [u EXCEPT ![1].quantity = w] = [u EXCEPT ![1].quantity = @ - v]
        BY <3>2, <3>7
      <3> QED
        BY <2>2, <3>7, <3>8, <3>9, <1>12
    <2> QED
      BY <2>1, <2>2
  <1>15. LET queue == ladder[Engine!Other(order.side)][p]
             maker == queue[1]
             traded == IF maker.quantity < order.quantity
                       THEN maker.quantity ELSE order.quantity
             left == IF maker.quantity = traded THEN Tail(queue)
                     ELSE [queue EXCEPT ![1].quantity = @ - traded]
         IN  /\ ladder' = [ladder EXCEPT ![Engine!Other(order.side)][p] = left]
             /\ order' = IF order.quantity = traded THEN NULL
                         ELSE [order EXCEPT !.quantity = @ - traded]
    <2>1. (IF u[1].quantity < order.quantity THEN u[1].quantity ELSE order.quantity) = v
      BY <1>10, <1>11, <1>14
    <2> QED
      BY <2>1, <1>2, <1>6, <1>9, <1>10, <1>14
  <1> QED
    BY ONLY <1>2, <1>7, <1>8, <1>15 DEF Engine!Match

\* An id the order map does not hold is in no line.
LEMMA FreshId ==
    ASSUME NEW b, NEW q, Rep(b, q), NEW id, ~Has(b.orders, id), NEW side \in Sides, NEW p \in Prices,
           NEW e \in ToSet(Ladder(b)[side][p])
    PROVE  e.id # id
  <1>1. PICK u : u = Ladder(b)[side][p]
    OBVIOUS
  <1>2. u = LineAt(b.pool, b.prices, q, side, p)
    BY <1>1, LadderIs
  <1>3. CASE p \notin b.prices[side]
    BY <1>1, <1>2, <1>3 DEF LineAt, ToSet
  <1>4. CASE p \in b.prices[side]
    <2>1. PICK s : s = q[p]
      OBVIOUS
    <2>2. /\ s \in Seq(Index) /\ Len(s) \in Nat
          /\ \A n \in 1 .. Len(s) : s[n] \in Index /\ b.pool[s[n]] # NoOrder
      <3>1. QueueFor(b.pool, s, p)
        BY ONLY Rep(b, q), side \in Sides, <1>4, <2>1, QueueOf
      <3> QED
        BY <3>1 DEF QueueFor
    <2>3. PICK l \in Nat : l = Len(s)
      BY <2>2
    <2>4. u = Line(b.pool, s)
      BY <1>2, <1>4, <2>1 DEF LineAt
    <2>5. /\ u = [n \in 1 .. l |-> u[n]]
          /\ \A n \in 1 .. l : u[n] = [id |-> b.pool[s[n]].order.order_id, quantity |-> b.pool[s[n]].order.quantity]
      BY <2>3, <2>4, LineSeq
    <2>6. DOMAIN u = 1 .. l
      BY <2>5
    <2>7. PICK n \in 1 .. l : e = u[n]
      BY <1>1, <2>6 DEF ToSet
    <2>8. e.id = b.pool[s[n]].order.order_id /\ s[n] \in Index /\ b.pool[s[n]] # NoOrder
      BY <2>2, <2>3, <2>5, <2>7
    <2>9. Has(b.orders, b.pool[s[n]].order.order_id)
      BY <2>8, RepFacts DEF OrdersOK
    <2> QED
      BY <2>8, <2>9
  <1> QED
    BY <1>3, <1>4

\* AddOrder: what is left joins the back of the queue at its price.
LEMMA AddRests ==
    ASSUME BookInv, LadderInv, LadderInv', AddOrder
    PROVE  Engine!Rest
  <1>1. PICK o : o = [order_id |-> waiting, price |-> order.price, quantity |-> order.quantity, side |-> order.side]
    OBVIOUS
  <1>2. waiting # NULL /\ book' = add(book, o).book /\ order' = NULL
    BY <1>1 DEF AddOrder
  <1>3. BookOK(book) /\ order # NULL /\ Unmatched /\ Taking /\ order \in Takers
    BY <1>2, InvParts DEF Taking
  <1>4. PICK q : Rep(book, q)
    BY <1>3 DEF BookOK
  <1>5. waiting \in Ids /\ ~Has(book.orders, waiting) /\ Uncrossed(book.prices, order.side, order.price)
    BY <1>3 DEF Unmatched
  <1>6. order.side \in Sides /\ order.price \in Prices /\ order.price \in Int /\ order.quantity \in 1 .. QUANTITY_RANGE - 1
    BY <1>3, Markers, BookAssumption
  <1>7. o \in Orders /\ o.order_id = waiting /\ o.side = order.side /\ o.price = order.price /\ o.quantity = order.quantity
    BY <1>1, <1>5, <1>6 DEF Orders
  <1>8. Addable(book, o)
    BY <1>3, <1>5, <1>7 DEF Addable, Taking, CanAllocate
  <1>9. PICK b, c, L, M : b = book /\ c = book' /\ L = ladder /\ M = ladder'
    OBVIOUS
  <1>10. L = Ladder(b) /\ M = Ladder(c) /\ Rep(b, q)
    BY <1>4, <1>9 DEF LadderInv
  <1>11. PICK r : AddsTo(b, q, c, r, o)
    <2>1. Addable(b, o) /\ c = add(b, o).book
      BY <1>2, <1>8, <1>9
    <2> QED
      BY ONLY <1>10, <2>1, AddRep
  <1>12. M = [L EXCEPT ![o.side][o.price] = Append(@, [id |-> o.order_id, quantity |-> o.quantity])]
    BY <1>7, <1>10, <1>11, AddLadder, SMTT(30)
  <1>13. ladder' = [ladder EXCEPT ![order.side][order.price] = Append(@, [id |-> waiting, quantity |-> order.quantity])]
    BY <1>7, <1>9, <1>12
  <1>14. \A side \in Engine!BookSides, p \in Prices : \A e \in ToSet(ladder[side][p]) : e.id # waiting
    <2>1. Engine!BookSides = Sides
      BY DEF Engine!BookSides, Sides
    <2>2. ASSUME NEW side \in Sides, NEW p \in Prices, NEW e \in ToSet(ladder[side][p]) PROVE e.id # waiting
      BY <2>2, <1>4, <1>5, FreshId DEF LadderInv
    <2> QED
      BY <2>1, <2>2
  <1>15. Engine!Acceptable = {}
    <2>1. PICK opp : opp = Opposite(order.side)
      OBVIOUS
    <2>2. opp \in Sides /\ Engine!Acceptable = {x \in book.prices[opp] : ~Better(order.side, x, order.price)}
      BY <1>3, <1>4, <2>1, AcceptableIs
    <2>3. ASSUME NEW x \in book.prices[opp] PROVE Better(order.side, x, order.price)
      <3>1. Better(opp, order.price, x)
        BY <1>5, <2>1 DEF Uncrossed
      <3>2. x \in Int
        <4>1. PricesOK(book.levels, book.prices)
          BY <1>4, RepFacts
        <4> QED
          BY ONLY <4>1, <2>2, x \in book.prices[opp], PriceFacts
      <3> QED
        BY <3>1, <3>2, <1>6, <2>1 DEF Better, Opposite, Sides
    <2> QED
      BY <2>2, <2>3
  <1> QED
    BY <1>2, <1>3, <1>5, <1>13, <1>14, <1>15 DEF Engine!Rest, Engine!ToSet, ToSet

\* An order leaves: cancel_order, and update_order with no quantity left.
LEMMA PurgeCancels ==
    ASSUME BookInv, LadderInv, LadderInv', order = NULL, order' = order, NEW id \in Int, Has(book.orders, id),
           book' = purge_order(book, id).book
    PROVE  Engine!EngineNext
  <1>1. PICK q : Rep(book, q)
    BY InvParts DEF BookOK
  <1>2. PICK b, c, L, M, i : b = book /\ c = book' /\ L = ladder /\ M = ladder' /\ i = Find(book.orders, id)
    OBVIOUS
  <1>3. L = Ladder(b) /\ M = Ladder(c) /\ Rep(b, q) /\ Has(b.orders, id) /\ i = Find(b.orders, id) /\ c = purge_order(b, id).book
    BY <1>1, <1>2 DEF LadderInv
  <1>4. PICK side, p, k, u : Placed(b, q, i, side, p, k, u) /\ Shortened(L, M, side, p, u, k)
    BY <1>3, PurgeLadder
  <1>5. side \in Sides /\ p \in Prices /\ u = ladder[side][p] /\ k \in 1 .. Len(u)
    BY <1>2, <1>3, <1>4, Zenon DEF Placed
  <1>6. ladder' = [ladder EXCEPT ![side][p] = RemoveAt(u, k)]
    BY <1>2, <1>4 DEF Shortened
  <1>7. Engine!Cancel(side, p, k)
    BY <1>5, <1>6 DEF Engine!Cancel, Engine!RemoveAt, RemoveAt
  <1>8. side \in Engine!BookSides /\ k \in 1 .. Len(ladder[side][p])
    BY <1>5 DEF Engine!BookSides, Sides
  <1> QED
    BY <1>5, <1>7, <1>8 DEF Engine!EngineNext

\* CancelOrder
LEMMA CancelCancels ==
    ASSUME BookInv, LadderInv, LadderInv', NEW id \in Ids, CancelOrder(id)
    PROVE  Engine!EngineNext
  <1>1. order = NULL /\ order' = order /\ Has(book.orders, id) /\ book' = purge_order(book, id).book
    BY DEF CancelOrder, Idle, order_exists, cancel
  <1>2. id \in Int
    BY BookAssumption DEF Ids
  <1> QED
    BY <1>1, <1>2, PurgeCancels

\* UpdateOrder, away from the best price: a new quantity where the order stands,
\* or its removal.
LEMMA UpdateAmends ==
    ASSUME BookInv, LadderInv, LadderInv', ~UpdateBest, NEW id \in Ids, NEW v \in Quantities, UpdateOrder(id, v)
    PROVE  Engine!EngineNext
  <1>1. /\ order = NULL /\ order' = order /\ Has(book.orders, id)
        /\ v = 0 \/ ~AtBest(id)
        /\ book' = update_quantity(book, id, v).book
    BY DEF UpdateOrder, Idle, order_exists
  <1>2. id \in Int /\ (v # 0 => v \in 1 .. QUANTITY_RANGE - 1)
    <2>1. id \in Int
      BY BookAssumption DEF Ids
    <2>2. v \in Nat /\ v < QUANTITY_RANGE /\ QUANTITY_RANGE \in Nat
      BY BookAssumption, LevelsAssumption, PoolAssumption
    <2> QED
      BY <2>1, <2>2
  <1>3. CASE v = 0
    <2>1. book' = purge_order(book, id).book
      BY <1>1, <1>3 DEF update_quantity
    <2> QED
      BY <2>1, <1>1, <1>2, PurgeCancels
  <1>4. CASE v # 0
    <2>1. PICK q : Rep(book, q)
      BY InvParts DEF BookOK
    <2>2. PICK b, c, L, M, i, o : /\ b = book /\ c = book' /\ L = ladder /\ M = ladder'
                                  /\ i = Find(book.orders, id) /\ o = book.pool[i].order
      OBVIOUS
    <2>3. /\ L = Ladder(b) /\ M = Ladder(c) /\ Rep(b, q) /\ Has(b.orders, id) /\ i = Find(b.orders, id)
          /\ c = update_quantity(b, id, v).book /\ o = b.pool[Find(b.orders, id)].order
      BY <1>1, <2>1, <2>2 DEF LadderInv
    <2>4. o.price # b.bbo[o.side].price
      BY ONLY <1>1, <1>4, <2>2, SMTT(60) DEF AtBest, RestingAt
    <2>5. Rep(c, q) /\ Restated(b, c, i, v)
      BY <1>2, <1>4, <2>3, <2>4, UpdateAway
    <2>6. PICK side, p, k, u : Placed(b, q, i, side, p, k, u) /\ Requantified(L, M, side, p, u, k, v)
      BY <1>2, <1>4, <2>3, <2>5, RestateLadder
    <2>7. side \in Sides /\ p \in Prices /\ u = ladder[side][p] /\ k \in 1 .. Len(u)
      BY <2>2, <2>3, <2>6, Zenon DEF Placed
    <2>8. ladder' = [ladder EXCEPT ![side][p] = [u EXCEPT ![k].quantity = v]]
      BY <2>2, <2>6 DEF Requantified
    <2>9. ladder' = [ladder EXCEPT ![side][p][k].quantity = v]
      BY <2>7, <2>8
    <2>10. Engine!Amend(side, p, k, v)
      BY <1>1, <2>9 DEF Engine!Amend
    <2>11. side \in Engine!BookSides /\ k \in 1 .. Len(ladder[side][p])
      BY <2>7 DEF Engine!BookSides, Sides
    <2> QED
      BY <2>7, <2>10, <2>11 DEF Engine!EngineNext
  <1> QED
    BY <1>3, <1>4

\* The book both start from stands for an empty ladder.
LEMMA EmptyLadder ==
    Ladder(EmptyBook) = [side \in Sides |-> [p \in Prices |-> <<>>]]
  <1>1. EmptyBook.prices = [side \in Sides |-> {}]
    BY DEF EmptyBook
  <1>2. \A side \in Sides, p \in Prices : QueueAt(EmptyBook, side, p) = <<>>
    BY <1>1 DEF QueueAt
  <1> QED
    BY <1>2 DEF Ladder

\* NewOrder: the order becomes the taker.
LEMMA OrderArrives ==
    ASSUME LadderInv, LadderInv', NEW side \in Sides, NEW p \in Prices, NEW q \in Quantities,
           NewOrder(side, p, q)
    PROVE  Engine!EngineNext
  <1>1. order = NULL /\ order' = [side |-> side, price |-> p, quantity |-> q] /\ book' = book
    BY DEF NewOrder, Idle
  <1>2. ladder' = ladder
    BY <1>1 DEF LadderInv
  <1>3. Engine!Arrive(side, p, q) /\ side \in Engine!BookSides
    BY <1>1, <1>2 DEF Engine!Arrive, Engine!BookSides, Sides
  <1> QED
    BY <1>3 DEF Engine!EngineNext

\* Every step of the book is a step of the engine it implements, or none of its business.
LEMMA StepRefines ==
    ASSUME BookInv, LadderInv, LadderInv', ~UpdateBest, [Next]_vars
    PROVE  Engine!EngineNext \/ UNCHANGED Engine!engineVars
  <1>1. CASE Request
    BY <1>1, OrderArrives, CancelCancels, UpdateAmends DEF Request
  <1>2. CASE Match
    <2>1. CASE ExecuteTrade
      BY <2>1, TradeMatches DEF Engine!EngineNext
    <2>2. CASE AssignId
      <3>1. UNCHANGED <<book, order>>
        BY <2>2 DEF AssignId
      <3> QED
        BY <3>1 DEF LadderInv, Engine!engineVars
    <2>3. CASE AddOrder
      BY <2>3, AddRests DEF Engine!EngineNext
    <2>4. CASE AbandonOrder
      <3>1. order # NULL /\ order' = NULL /\ book' = book
        BY <2>4 DEF AbandonOrder, Idle
      <3>2. Engine!Withdraw
        BY <3>1 DEF LadderInv, Engine!Withdraw
      <3> QED
        BY <3>2 DEF Engine!EngineNext
    <2> QED
      BY <1>2, <2>1, <2>2, <2>3, <2>4 DEF Match
  <1>3. CASE EngineExecutes \/ RequestStop \/ UNCHANGED vars
    <2>1. UNCHANGED <<book, order>>
      BY <1>3 DEF EngineExecutes, RequestStop, vars, clobVars
    <2> QED
      BY <2>1 DEF LadderInv, Engine!engineVars
  <1> QED
    BY <1>1, <1>2, <1>3 DEF Next

\* The CLOB implements price-time priority, for every set of prices and
\* quantities and every size of its pool and maps: it trades with the oldest
\* order at the best price (ExecuteTrade), rests only what crosses nothing, at the
\* back of its queue (AddOrder), and a cancel or an update moves nobody else.
THEOREM PriceTimePriority ==
    ASSUME ~UpdateBest
    PROVE  LadderSpec => ImplementsMatchingEngine
  <1>1. LadderInit => Init /\ LadderInv
    BY DEF LadderInit, LadderInv
  <1>2. [LadderNext]_ladderVars => [Next]_vars
    BY DEF LadderNext, ladderVars
  <1>3. LadderInv /\ [LadderNext]_ladderVars => LadderInv'
    BY DEF LadderInv, LadderNext, ladderVars, vars, clobVars
  <1>4. LadderInit => Engine!EngineInit
    BY EmptyLadder DEF LadderInit, Init, Engine!EngineInit, Engine!BookSides, Sides
  <1>5. BookInv /\ LadderInv /\ LadderInv' /\ [Next]_vars => [Engine!EngineNext]_Engine!engineVars
    BY StepRefines
  <1>6. Spec => []BookInv
    BY BookInvariant
  <1> QED
    BY <1>1, <1>2, <1>3, <1>4, <1>5, <1>6, PTL DEF Spec, LadderSpec, ImplementsMatchingEngine, Engine!EngineSpec
=============================================================================
