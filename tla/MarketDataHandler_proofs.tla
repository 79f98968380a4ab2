---------------------- MODULE MarketDataHandler_proofs ----------------------
(***************************************************************************)
(* For every capacity of the three rings, every number of messages and     *)
(* every arrival of datagrams: what the handler's threads exchange has its *)
(* type, the events come out in order, and no packet that the gap detector *)
(* has counted is lost.                                                    *)
(*                                                                         *)
(* RingInv is the argument of the two cursors (a stale cursor errs on the  *)
(* safe side, and two cursors less than CAPACITY apart name two slots).    *)
(* WindowInv says the same of the reorder buffer's slots, whose two        *)
(* writers decide on a reader index that may move on before they claim.    *)
(* OnePlaceInv follows the one payload that the server's error header can  *)
(* complete: once it is received the connection is closed, so there is no  *)
(* second one.  CoverInv says of each packet who still has to bring it.    *)
(***************************************************************************)
EXTENDS MarketDataHandler, FiniteSetTheorems, SequenceTheorems, TLAPS

ReorderSlots == 0 .. REORDER_BUFFER_SIZE - 1
Contents == Packets \cup {NULL, Garbled}

\* The request ring.
RingInv ==
    /\ head \in Nat /\ tail \in Nat /\ seenHead \in Nat /\ seenTail \in Nat
    /\ slots \in [Slots -> Requests \cup {NULL, Torn}]
    /\ pusher \in {"idle", "room", "constructing", "full"}
    /\ popper \in {"idle", "item", "copied"}
    /\ seenHead <= head /\ head <= seenTail /\ seenTail <= tail
    /\ tail - seenHead <= CAPACITY
    /\ pusher \in {"room", "constructing"} => tail - seenHead < CAPACITY
    /\ popper # "idle" => head < seenTail
    /\ \A i \in head .. tail - 1 : slots[Slot(i)] \in Requests
    /\ popped = IF popper = "copied" THEN slots[Slot(head)] ELSE NULL

\* What each thread knows where it is.
ListenerInv ==
    /\ listener \in {"start", "check", "recv", "done"}
    /\ arrivals \in 0 .. MaxDatagrams
    /\ udp \in Seq(Packets) /\ Len(udp) <= UDP_PACKET_BUFFER_SIZE
    /\ listener = "recv" => Len(udp) < UDP_PACKET_BUFFER_SIZE

HandlerInv ==
    /\ handler \in {"run", "push", "validate", "claim", "done"}
    /\ most_recent \in 0 .. LAST
    /\ request \in Requests \cup {NULL}
    /\ handler \in {"push", "validate", "claim"} => udp # <<>>
    /\ handler = "push" => request \in Requests
    /\ handler \in {"run", "validate", "claim"} => request = NULL
    /\ handler = "claim" => Packet < readerIndex + MAX_INDEX_AHEAD

ClientInv ==
    /\ client \in {"connect", "run", "send", "loop", "header", "payload",
                   "validate", "claim", "done", "aborted"}
    /\ asked \in Requests \cup {NULL}
    /\ payload \in Contents
    /\ connection \in {"none", "open", "closed"}
    /\ client = "connect" => connection = "none"
    /\ client \in {"connect", "run"} => asked = NULL
    /\ client \in {"send", "loop", "header", "payload", "validate", "claim"}
          => asked \in Requests
    /\ client \in {"header", "payload", "validate", "claim"}
          => asked.first < asked.last
    /\ client = "payload" => connection = "open"
    /\ client \in {"validate", "claim"} => payload \in {asked.first, Garbled}
    /\ client = "claim" => asked.first < readerIndex + MAX_INDEX_AHEAD

\* A packet in the reorder buffer is in its slot, and its turn is still to
\* come, less than a lap ahead, unless a writer was too late.
WindowInv ==
    /\ reorder \in [ReorderSlots -> Contents] /\ lateCopy \in BOOLEAN
    /\ \A s \in ReorderSlots : reorder[s] \in Packets =>
          /\ ReorderSlot(reorder[s]) = s
          /\ reorder[s] < readerIndex + MAX_INDEX_AHEAD
          /\ lateCopy \/ readerIndex <= reorder[s]

\* x may come out as the i-th event.
InPlace(i, x) ==
    \/ x \in {i, Garbled}
    \/ lateCopy /\ x < i /\ ReorderSlot(x) = ReorderSlot(i)

\* The publisher's count is the reader index.
PublishInv ==
    /\ publisher \in {"run", "slot", "done"} /\ readerIndex \in Nat
    /\ item \in Contents /\ published \in Seq(Packets \cup {Garbled})
    /\ publisher = "run" => readerIndex = Len(published) + 1
    /\ publisher = "slot" => /\ readerIndex = Len(published) + 2
                             /\ item # NULL /\ InPlace(readerIndex - 1, item)
    /\ \A i \in 1 .. Len(published) : InPlace(i, published[i])

GarbledInPublished == \E i \in 1 .. Len(published) : published[i] = Garbled
GarbledInReorder == \E s \in ReorderSlots : reorder[s] = Garbled

\* The Garbled payload is in one place at most, and before the connection is
\* closed there is none.
OnePlaceInv ==
    /\ connection # "closed" \/ payload = Garbled
          => ~GarbledInReorder /\ item # Garbled /\ ~GarbledInPublished
    /\ payload = Garbled => connection = "closed"
    /\ \A s, t \in ReorderSlots :
          reorder[s] = Garbled /\ reorder[t] = Garbled => s = t
    /\ GarbledInReorder => item # Garbled /\ ~GarbledInPublished
    /\ item = Garbled => ~GarbledInPublished
    /\ \A i, j \in 1 .. Len(published) :
          published[i] = Garbled /\ published[j] = Garbled => i = j

\* Who brings packet n to the publisher.
Covered(n) ==
    \/ n < readerIndex
    \/ n < readerIndex + REORDER_BUFFER_SIZE
         /\ reorder[ReorderSlot(n)] \in {n, Garbled}
    \/ handler \in {"push", "validate", "claim"} /\ Packet = n
    \/ \E r \in PendingRequests : n \in Asks(r)

CoverInv == ~stop /\ ~lateCopy /\ Running => \A n \in 1 .. most_recent : Covered(n)

FeedInv == /\ RingInv /\ ListenerInv /\ HandlerInv /\ ClientInv /\ WindowInv
           /\ PublishInv /\ OnePlaceInv /\ CoverInv /\ stop \in BOOLEAN

-----------------------------------------------------------------------------
(* Slots, packets and requests. *)

\* Two numbers less than a lap of C apart have different slots.
LEMMA LapApart ==
    ASSUME NEW C \in Nat \ {0}, NEW a \in Nat, NEW b \in Nat, a < b, b - a < C
    PROVE  a % C # b % C
  <1> DEFINE x == a \div C
             y == b \div C
  <1>1. x \in Int /\ y \in Int
    OBVIOUS
  <1>2. a = C * x + (a % C) /\ b = C * y + (b % C)
    OBVIOUS
  <1> SUFFICES ASSUME a % C = b % C PROVE FALSE
    OBVIOUS
  <1> HIDE DEF x, y
  <1>3. b - a = C * (y - x)
    BY <1>1, <1>2
  <1>4. CASE y - x <= 0
    <2>1. C * (y - x) <= 0
      BY <1>1, <1>4
    <2> QED
      BY <2>1, <1>1, <1>3
  <1>5. CASE y - x >= 1
    <2>1. C * (y - x) >= C
      BY <1>1, <1>5
    <2> QED
      BY <2>1, <1>1, <1>3
  <1> QED
    BY <1>1, <1>4, <1>5

\* The sizes of the rings.
LEMMA Sizes ==
    /\ CAPACITY \in Nat \ {0} /\ UDP_PACKET_BUFFER_SIZE \in Nat \ {0}
    /\ REORDER_BUFFER_SIZE \in Nat \ {0} /\ LAST \in Nat \ {0}
    /\ MAX_INDEX_AHEAD \in Nat /\ MAX_INDEX_AHEAD < REORDER_BUFFER_SIZE
    /\ MaxDatagrams \in Nat
  BY RingAssumption, HandlerAssumption DEF MAX_INDEX_AHEAD

\* A cursor of the request ring names a slot, and cursors less than a lap
\* apart name different ones.
LEMMA RingSlots ==
    /\ \A c \in Nat : Slot(c) \in Slots
    /\ \A a, b \in Nat : a < b /\ b - a < CAPACITY => Slot(a) # Slot(b)
  <1>1. CAPACITY \in Nat \ {0}
    BY Sizes
  <1>2. ASSUME NEW c \in Nat PROVE Slot(c) \in Slots
    BY <1>1 DEF Slot, Slots
  <1>3. ASSUME NEW a \in Nat, NEW b \in Nat, a < b, b - a < CAPACITY
        PROVE  Slot(a) # Slot(b)
    <2>1. a % CAPACITY # b % CAPACITY
      BY <1>1, <1>3, LapApart
    <2> QED
      BY <2>1 DEF Slot
  <1> QED
    BY <1>2, <1>3

\* The same for the reorder buffer.
LEMMA ReorderSlotFacts ==
    /\ \A n \in Nat : ReorderSlot(n) \in ReorderSlots
    /\ \A m, n \in Nat : m < n /\ n - m < REORDER_BUFFER_SIZE
                          => ReorderSlot(m) # ReorderSlot(n)
  <1>1. REORDER_BUFFER_SIZE \in Nat \ {0}
    BY Sizes
  <1>2. ASSUME NEW c \in Nat PROVE ReorderSlot(c) \in ReorderSlots
    BY <1>1 DEF ReorderSlot, ReorderSlots
  <1>3. ASSUME NEW m \in Nat, NEW n \in Nat, m < n, n - m < REORDER_BUFFER_SIZE
        PROVE  ReorderSlot(m) # ReorderSlot(n)
    <2>1. m % REORDER_BUFFER_SIZE # n % REORDER_BUFFER_SIZE
      BY <1>1, <1>3, LapApart
    <2> QED
      BY <2>1 DEF ReorderSlot
  <1> QED
    BY <1>2, <1>3

\* Packets are numbers from 1 to LAST, and no marker is one.
LEMMA PacketFacts ==
    /\ \A n : n \in Packets <=> n \in Nat /\ n >= 1 /\ n <= LAST
    /\ NULL \notin Packets /\ Garbled \notin Packets /\ Garbled # NULL
  <1>1. \A n : n \in Packets <=> n \in Nat /\ n >= 1 /\ n <= LAST
    BY Sizes DEF Packets, FIRST_SEQUENCE_ID
  <1>2. NULL \notin Nat /\ Garbled \notin Nat /\ Garbled # NULL
    BY MarkersAssumption
  <1> QED
    BY <1>1, <1>2

\* The fields of a request.
LEMMA RequestFacts ==
    /\ \A r \in Requests : r.first \in Packets /\ r.last \in Packets
    /\ \A f, l \in Packets : /\ Request(f, l) \in Requests
                              /\ Request(f, l).first = f /\ Request(f, l).last = l
    /\ \A r \in Requests, f \in Packets :
          LET q == [r EXCEPT !.first = f]
          IN  q \in Requests /\ q.first = f /\ q.last = r.last
    /\ NULL \notin Requests /\ Torn \notin Requests
  <1>1. NULL \notin Requests /\ Torn \notin Requests
    BY MarkersAssumption
  <1>2. \A r \in Requests : r.first \in Packets /\ r.last \in Packets
    BY DEF Requests
  <1>3. \A f, l \in Packets : /\ Request(f, l) \in Requests
                              /\ Request(f, l).first = f /\ Request(f, l).last = l
    BY DEF Requests, Request
  <1>4. \A r \in Requests, f \in Packets :
          LET q == [r EXCEPT !.first = f]
          IN  q \in Requests /\ q.first = f /\ q.last = r.last
    BY DEF Requests
  <1> QED
    BY <1>1, <1>2, <1>3, <1>4

-----------------------------------------------------------------------------
(* The request ring. *)

\* A step of one of the two ends of the ring.
RingMove == \/ UNCHANGED ringVars
            \/ PushTest \/ PushBegins \/ \E r \in Requests : PushEnds(r)
            \/ PopTest \/ PopCopies \/ PopReleases

\* The ring's argument, in each of its steps.
LEMMA RingKeepsInv == ASSUME RingInv, RingMove PROVE RingInv'
  <1>a. /\ head \in Nat /\ tail \in Nat /\ seenHead \in Nat /\ seenTail \in Nat
        /\ seenHead <= head /\ head <= seenTail /\ seenTail <= tail
        /\ tail - seenHead <= CAPACITY
    BY DEF RingInv
  <1>b. slots \in [Slots -> Requests \cup {NULL, Torn}]
    BY DEF RingInv
  <1>c. CAPACITY \in Nat \ {0}
    BY Sizes
  <1>d. Slot(tail) \in Slots /\ Slot(head) \in Slots
    BY <1>a, RingSlots
  <1>1. CASE UNCHANGED ringVars
    BY <1>1 DEF ringVars, RingInv
  <1>2. CASE PushTest
    BY <1>2, <1>a, <1>c DEF PushTest, RingInv, popVars, full
  <1>3. CASE PushBegins
    <2>1. /\ pusher = "room" /\ pusher' = "constructing"
          /\ slots' = [slots EXCEPT ![Slot(tail)] = Torn]
          /\ UNCHANGED <<tail, seenHead, popVars>>
      BY <1>3 DEF PushBegins
    <2>2. tail - seenHead < CAPACITY
      BY <2>1 DEF RingInv
    <2>3. slots' \in [Slots -> Requests \cup {NULL, Torn}]
      BY <2>1, <1>b, <1>d
    <2>4. \A i \in head .. tail - 1 : Slot(i) \in Slots /\ slots'[Slot(i)] = slots[Slot(i)]
      <3> TAKE i \in head .. tail - 1
      <3>1. i \in Nat /\ i < tail /\ tail - i < CAPACITY
        BY <2>2, <1>a, <1>c
      <3>2. Slot(i) # Slot(tail) /\ Slot(i) \in Slots
        BY <3>1, <1>a, RingSlots
      <3> QED
        BY <3>2, <2>1, <1>b
    <2>5. popper = "copied" => head \in head .. tail - 1
      BY <1>a DEF RingInv
    <2>6. popped' = IF popper' = "copied" THEN slots'[Slot(head')] ELSE NULL
      BY <2>1, <2>4, <2>5 DEF RingInv, popVars
    <2> QED
      BY <2>1, <2>2, <2>3, <2>4, <2>6 DEF RingInv, popVars
  <1>4. ASSUME NEW r \in Requests, PushEnds(r) PROVE RingInv'
    <2>1. /\ pusher = "constructing" /\ pusher' = "idle" /\ tail' = tail + 1
          /\ slots' = [slots EXCEPT ![Slot(tail)] = r]
          /\ UNCHANGED <<seenHead, popVars>>
      BY <1>4 DEF PushEnds
    <2>2. tail - seenHead < CAPACITY
      BY <2>1 DEF RingInv
    <2>3. slots' \in [Slots -> Requests \cup {NULL, Torn}] /\ slots'[Slot(tail)] = r
      BY <2>1, <1>b, <1>d
    <2>4. \A i \in head .. tail - 1 : Slot(i) \in Slots /\ slots'[Slot(i)] = slots[Slot(i)]
      <3> TAKE i \in head .. tail - 1
      <3>1. i \in Nat /\ i < tail /\ tail - i < CAPACITY
        BY <2>2, <1>a, <1>c
      <3>2. Slot(i) # Slot(tail) /\ Slot(i) \in Slots
        BY <3>1, <1>a, RingSlots
      <3> QED
        BY <3>2, <2>1, <1>b
    <2>5. popper = "copied" => head \in head .. tail - 1
      BY <1>a DEF RingInv
    <2>6. popped' = IF popper' = "copied" THEN slots'[Slot(head')] ELSE NULL
      BY <2>1, <2>4, <2>5 DEF RingInv, popVars
    <2>7. \A i \in head' .. tail' - 1 : slots'[Slot(i)] \in Requests
      <3> TAKE i \in head' .. tail' - 1
      <3>1. CASE i = tail
        BY <3>1, <2>3
      <3>2. CASE i # tail
        <4>1. i \in head .. tail - 1
          BY <3>2, <2>1, <1>a DEF popVars
        <4> QED
          BY <4>1, <2>4 DEF RingInv
      <3> QED
        BY <3>1, <3>2
    <2>8. /\ tail' \in Nat /\ seenTail' <= tail' /\ tail' - seenHead' <= CAPACITY
      BY <2>1, <2>2, <1>a, <1>c DEF popVars
    <2> QED
      BY <2>1, <2>3, <2>6, <2>7, <2>8 DEF RingInv, popVars
  <1>5. CASE PopTest
    BY <1>5, <1>a DEF PopTest, RingInv, pushVars, empty
  <1>6. CASE PopCopies
    BY <1>6, <1>a DEF PopCopies, RingInv, pushVars
  <1>7. CASE PopReleases
    BY <1>7, <1>a DEF PopReleases, RingInv, pushVars
  <1> QED
    BY <1>1, <1>2, <1>3, <1>4, <1>5, <1>6, <1>7 DEF RingMove

-----------------------------------------------------------------------------
\* The threads are started with empty rings and an empty reorder buffer.
LEMMA FeedInit == Init => FeedInv
  <1> SUFFICES ASSUME Init PROVE FeedInv
    OBVIOUS
  <1>a. /\ CAPACITY \in Nat \ {0} /\ UDP_PACKET_BUFFER_SIZE \in Nat \ {0}
        /\ LAST \in Nat \ {0} /\ MaxDatagrams \in Nat
    BY Sizes
  <1>b. NULL \notin Packets /\ Garbled # NULL
    BY PacketFacts
  <1>1. RingInv
    <2>1. /\ head = 0 /\ tail = 0 /\ seenHead = 0 /\ seenTail = 0 /\ pusher = "idle"
          /\ popper = "idle" /\ popped = NULL /\ slots = [s \in Slots |-> NULL]
      BY DEF Init, RingInit
    <2>2. slots \in [Slots -> Requests \cup {NULL, Torn}]
      BY <2>1
    <2> QED
      BY <2>1, <2>2, <1>a DEF RingInv
  <1>2. udp \in Seq(Packets) /\ Len(udp) = 0 /\ published \in Seq(Packets \cup {Garbled})
        /\ Len(published) = 0
    BY EmptySeq DEF Init
  <1>3. ListenerInv
    BY <1>a, <1>2 DEF Init, ListenerInv
  <1>4. most_recent = 0 /\ readerIndex = 1
    BY DEF Init, FIRST_SEQUENCE_ID
  <1>5. HandlerInv
    BY <1>4, <1>a DEF Init, HandlerInv
  <1>6. ClientInv
    BY DEF Init, ClientInv, Contents
  <1>7. reorder = [s \in ReorderSlots |-> NULL] /\ lateCopy = FALSE
    BY DEF Init, ReorderSlots
  <1>8. WindowInv
    BY <1>7, <1>b DEF WindowInv, Contents
  <1>9. PublishInv
    BY <1>2, <1>4 DEF Init, PublishInv, Contents
  <1>10. OnePlaceInv
    <2>1. ~GarbledInReorder /\ ~GarbledInPublished
      BY <1>2, <1>7, <1>b DEF GarbledInReorder, GarbledInPublished
    <2>2. item # Garbled /\ payload # Garbled
      BY <1>b DEF Init
    <2> QED
      BY <2>1, <2>2 DEF OnePlaceInv, GarbledInReorder, GarbledInPublished
  <1>11. CoverInv
    BY <1>4 DEF CoverInv
  <1> QED
    BY <1>1, <1>3, <1>5, <1>6, <1>8, <1>9, <1>10, <1>11 DEF FeedInv, Init

\* What each thread leaves to the others.
LEMMA ListenerAlone ==
    ASSUME Listener
    PROVE  UNCHANGED <<ringVars, handlerVars, clientVars, reorderVars, publisherVars>>
  BY DEF Listener, StartListener, ListenerChecks, Receive, ReceiveFails, listenerOnly

\* The handler moves no other thread and takes nothing from the reorder buffer.
LEMMA HandlerAlone ==
    ASSUME Handler PROVE UNCHANGED <<listener, arrivals, clientVars, publisherVars>>
  BY DEF Handler, HandlerStops, TakePacket, PushRequest, RequestBufferFull,
         HandlerValidates, HandlerClaims, handlerOnly

\* The client leaves the UDP ring and the handler alone.
LEMMA ClientAlone ==
    ASSUME Client PROVE UNCHANGED <<listener, arrivals, udp, handlerVars, publisherVars>>
  BY DEF Client, Connect, ClientStops, PopRequest, SendRequest, NextMessage,
         ReceptionFails, ReceiveHeader, ClientAborts, ReceivePayload,
         ClientValidates, ClientClaims, clientOnly

\* The publisher touches the reorder buffer only.
LEMMA PublisherAlone ==
    ASSUME Publisher
    PROVE  UNCHANGED <<ringVars, listener, arrivals, udp, handlerVars, clientVars, lateCopy>>
  BY DEF Publisher, PublisherStops, Consume, Publish, publisherOnly

\* The cases of a step.
LEMMA StepCases ==
    ASSUME [Next]_vars
    PROVE  \/ Running /\ (Listener \/ Handler \/ Client \/ Publisher \/ RequestStop)
           \/ UNCHANGED vars
  BY DEF Next, Ended

\* The handler pushes whole requests, and nobody else touches the ring but
\* the client that pops them.
LEMMA RingStep == ASSUME FeedInv, [Next]_vars PROVE RingInv'
  <1>1. CASE Listener \/ Publisher \/ RequestStop \/ UNCHANGED vars
    <2>1. UNCHANGED ringVars
      BY <1>1, ListenerAlone, PublisherAlone DEF RequestStop, vars
    <2> QED
      BY <2>1, RingKeepsInv DEF RingMove, FeedInv
  <1>2. CASE Handler
    <2>1. handler = "push" => request \in Requests
      BY DEF FeedInv, HandlerInv
    <2>2. RingMove
      BY <1>2, <2>1 DEF RingMove, Handler, HandlerStops, TakePacket, PushRequest,
                        RequestBufferFull, HandlerValidates, HandlerClaims
    <2> QED
      BY <2>2, RingKeepsInv DEF FeedInv
  <1>3. CASE Client
    <2>1. RingMove
      BY <1>3 DEF RingMove, Client, Connect, ClientStops, PopRequest, SendRequest,
                  NextMessage, ReceptionFails, ReceiveHeader, ClientAborts,
                  ReceivePayload, ClientValidates, ClientClaims
    <2> QED
      BY <2>1, RingKeepsInv DEF FeedInv
  <1> QED
    BY <1>1, <1>2, <1>3, StepCases

\* The handler leaves the UDP ring alone or consumes its head.
LEMMA HandlerConsumes ==
    ASSUME FeedInv, Handler
    PROVE  \/ udp' = udp
           \/ udp # <<>> /\ udp' = Tail(udp) /\ handler \in {"validate", "claim"}
  <1>1. handler \in {"validate", "claim"} => udp # <<>>
    BY DEF FeedInv, HandlerInv
  <1>2. CASE HandlerStops \/ TakePacket \/ PushRequest \/ RequestBufferFull
    BY <1>2 DEF HandlerStops, TakePacket, PushRequest, RequestBufferFull
  <1>3. CASE HandlerValidates
    BY <1>1, <1>3 DEF HandlerValidates
  <1>4. CASE HandlerClaims
    BY <1>1, <1>4 DEF HandlerClaims
  <1> QED
    BY <1>2, <1>3, <1>4 DEF Handler

\* There is room in the UDP ring for the datagram that recv() is waiting for.
LEMMA ListenerStep == ASSUME FeedInv, [Next]_vars PROVE ListenerInv'
  <1>a. /\ listener \in {"start", "check", "recv", "done"} /\ arrivals \in 0 .. MaxDatagrams
        /\ udp \in Seq(Packets) /\ Len(udp) <= UDP_PACKET_BUFFER_SIZE
        /\ listener = "recv" => Len(udp) < UDP_PACKET_BUFFER_SIZE
    BY DEF FeedInv, ListenerInv
  <1>b. Len(udp) \in Nat /\ UDP_PACKET_BUFFER_SIZE \in Nat /\ MaxDatagrams \in Nat
    BY <1>a, Sizes, LenProperties
  <1>1. CASE UNCHANGED <<listener, arrivals, udp>>
    BY <1>1, <1>a DEF ListenerInv
  <1>2. CASE Client \/ Publisher \/ RequestStop \/ UNCHANGED vars
    BY <1>1, <1>2, ClientAlone, PublisherAlone DEF RequestStop, vars
  <1>3. CASE Handler
    <2>1. UNCHANGED <<listener, arrivals>>
      BY <1>3, HandlerAlone
    <2>2. CASE udp' = udp
      BY <2>1, <2>2, <1>1
    <2>3. CASE udp # <<>> /\ udp' = Tail(udp)
      <3>1. udp' \in Seq(Packets) /\ Len(udp') = Len(udp) - 1
        BY <2>3, <1>a, HeadTailProperties
      <3>2. Len(udp') <= UDP_PACKET_BUFFER_SIZE
            /\ (listener = "recv" => Len(udp') < UDP_PACKET_BUFFER_SIZE)
        BY <3>1, <1>a, <1>b
      <3> QED
        BY <2>1, <3>1, <3>2, <1>a DEF ListenerInv
    <2> QED
      BY <1>3, <2>2, <2>3, HandlerConsumes
  <1>4. CASE StartListener \/ ListenerChecks \/ ReceiveFails
    BY <1>4, <1>a, <1>b DEF StartListener, ListenerChecks, ReceiveFails, ListenerFails, ListenerInv
  <1>5. ASSUME NEW n \in Packets, Receive(n) PROVE ListenerInv'
    <2>1. /\ listener = "recv" /\ arrivals' = arrivals + 1 /\ arrivals < MaxDatagrams
          /\ \/ listener' = "done" /\ udp' = udp
             \/ listener' = "check" /\ udp' = Append(udp, n)
      BY <1>5 DEF Receive
    <2>2. arrivals' \in 0 .. MaxDatagrams
      BY <2>1, <1>a, <1>b
    <2>3. CASE listener' = "done" /\ udp' = udp
      BY <2>2, <2>3, <1>a DEF ListenerInv
    <2>4. CASE listener' = "check" /\ udp' = Append(udp, n)
      <3>1. udp' \in Seq(Packets) /\ Len(udp') = Len(udp) + 1
        BY <2>4, <1>a
      <3>2. Len(udp') <= UDP_PACKET_BUFFER_SIZE
        BY <3>1, <2>1, <1>a, <1>b
      <3> QED
        BY <2>2, <2>4, <3>1, <3>2 DEF ListenerInv
    <2> QED
      BY <2>1, <2>3, <2>4
  <1> QED
    BY <1>2, <1>3, <1>4, <1>5, StepCases DEF Listener

\* The packet at the head of the UDP ring.
LEMMA PacketInRing == ASSUME FeedInv, udp # <<>> PROVE Packet \in Packets /\ Packet \in Nat
  <1>1. Packet \in Packets
    BY HeadTailProperties DEF FeedInv, ListenerInv, Packet
  <1> QED
    BY <1>1, PacketFacts

\* The listener leaves the head of the UDP ring where it is.
LEMMA HeadStays ==
    ASSUME FeedInv, Listener, udp # <<>> PROVE udp' # <<>> /\ Packet' = Packet
  <1>1. udp \in Seq(Packets)
    BY DEF FeedInv, ListenerInv
  <1>2. ASSUME NEW n \in Packets, udp' = Append(udp, n)
        PROVE  udp' # <<>> /\ Packet' = Packet
    BY <1>1, <1>2, AppendProperties, HeadTailAppend DEF Packet
  <1>3. CASE udp' = udp
    BY <1>3 DEF Packet
  <1> QED
    BY <1>2, <1>3 DEF Listener, StartListener, ListenerChecks, Receive, ReceiveFails

\* The publisher moves the reader index on, if at all.
LEMMA ReaderMovesOn ==
    ASSUME FeedInv, Publisher
    PROVE  readerIndex \in Nat /\ readerIndex' \in Nat
           /\ (readerIndex' = readerIndex \/ readerIndex' = readerIndex + 1)
  <1>1. readerIndex \in Nat
    BY DEF FeedInv, PublishInv
  <1> QED
    BY <1>1 DEF Publisher, PublisherStops, Consume, Publish

\* The handler works on a packet that stays in the UDP ring, and claims only
\* inside the window, whatever the reader has done since it looked.
LEMMA HandlerStep == ASSUME FeedInv, [Next]_vars PROVE HandlerInv'
  <1>a. HandlerInv
    BY DEF FeedInv
  <1>b. /\ handler \in {"run", "push", "validate", "claim", "done"}
        /\ most_recent \in 0 .. LAST /\ request \in Requests \cup {NULL}
        /\ handler \in {"push", "validate", "claim"} => udp # <<>>
        /\ handler = "push" => request \in Requests
        /\ handler \in {"run", "validate", "claim"} => request = NULL
        /\ handler = "claim" => Packet < readerIndex + MAX_INDEX_AHEAD
    BY <1>a DEF HandlerInv
  <1>c. readerIndex \in Nat /\ MAX_INDEX_AHEAD \in Nat /\ LAST \in Nat /\ most_recent \in Nat
    BY <1>b, Sizes DEF FeedInv, PublishInv
  <1>1. CASE Client \/ RequestStop \/ UNCHANGED vars
    <2>1. UNCHANGED <<udp, handler, most_recent, request, readerIndex>>
      BY <1>1, ClientAlone DEF RequestStop, vars, handlerVars, publisherVars
    <2> QED
      BY <2>1, <1>a DEF HandlerInv, Packet
  <1>2. CASE Listener
    <2>1. UNCHANGED <<handler, most_recent, request, readerIndex>>
      BY <1>2, ListenerAlone DEF handlerVars, publisherVars
    <2>2. udp # <<>> => udp' # <<>> /\ Packet' = Packet
      BY <1>2, HeadStays
    <2> QED
      BY <2>1, <2>2, <1>b DEF HandlerInv
  <1>3. CASE Publisher
    <2>1. UNCHANGED <<udp, handler, most_recent, request>>
      BY <1>3, PublisherAlone DEF handlerVars
    <2>2. Packet' = Packet /\ (handler = "claim" => Packet \in Nat)
      BY <2>1, <1>b, PacketInRing DEF Packet
    <2>3. handler = "claim" => Packet' < readerIndex' + MAX_INDEX_AHEAD
      BY <2>2, <1>3, <1>b, <1>c, ReaderMovesOn
    <2> QED
      BY <2>1, <2>3, <1>b DEF HandlerInv
  <1>4. CASE HandlerStops \/ RequestBufferFull
    BY <1>4, <1>b DEF HandlerStops, RequestBufferFull, HandlerReturns, HandlerInv
  <1>5. CASE TakePacket
    <2> DEFINE n == Packet
    <2>1. /\ udp # <<>> /\ udp' = udp
          /\ request' = IF n > most_recent + 1 THEN Request(most_recent + 1, n) ELSE NULL
          /\ most_recent' = IF n > most_recent THEN n ELSE most_recent
          /\ handler' = IF n > most_recent + 1 THEN "push" ELSE "validate"
      BY <1>5 DEF TakePacket, has_gap
    <2>2. n \in Packets /\ n \in Nat /\ n <= LAST
      BY <2>1, PacketInRing, PacketFacts
    <2> HIDE DEF n
    <2>3. most_recent' \in 0 .. LAST
      BY <2>1, <2>2, <1>b, <1>c
    <2>4. n > most_recent + 1 => Request(most_recent + 1, n) \in Requests
      <3>1. n > most_recent + 1 => most_recent + 1 \in Packets
        BY <2>2, <1>c, PacketFacts
      <3> QED
        BY <2>2, <3>1, RequestFacts
    <2> QED
      BY <2>1, <2>3, <2>4, RequestFacts DEF HandlerInv
  <1>6. CASE PushRequest
    <2>1. /\ handler = "push" /\ UNCHANGED <<udp, most_recent>>
          /\ \/ UNCHANGED <<handler, request>>
             \/ handler' = "validate" /\ request' = NULL
      BY <1>6 DEF PushRequest
    <2> QED
      BY <2>1, <1>b DEF HandlerInv
  <1>7. CASE HandlerValidates
    <2>1. handler = "validate" /\ UNCHANGED <<most_recent, request>> /\ readerIndex' = readerIndex
      BY <1>7 DEF HandlerValidates, handlerOnly, publisherVars
    <2>2. CASE handler' \in {"run", "done"}
      BY <2>1, <2>2, <1>b DEF HandlerInv
    <2>3. CASE Verdict(Packet) = "Claim" /\ handler' = "claim" /\ udp' = udp
      <3>1. udp # <<>> /\ Packet \in Nat
        BY <2>1, <1>b, PacketInRing
      <3>2. ~(Packet >= readerIndex + MAX_INDEX_AHEAD)
        BY <2>3 DEF Verdict
      <3>3. Packet' < readerIndex' + MAX_INDEX_AHEAD
        BY <2>1, <2>3, <3>1, <3>2, <1>c DEF Packet
      <3> QED
        BY <2>1, <2>3, <3>1, <3>3, <1>b DEF HandlerInv
    <2> QED
      BY <1>7, <2>2, <2>3 DEF HandlerValidates, HandlerReturns
  <1>8. CASE HandlerClaims
    BY <1>8, <1>b DEF HandlerClaims, HandlerInv
  <1> QED
    BY <1>1, <1>2, <1>3, <1>4, <1>5, <1>6, <1>7, <1>8, StepCases DEF Handler

\* What try_pop has copied is a whole request.
LEMMA PoppedIsRequest ==
    ASSUME FeedInv, popper = "copied"
    PROVE  popped \in Requests /\ popped = slots[Slot(head)] /\ head \in head .. tail - 1
  <1>1. /\ head \in Nat /\ tail \in Nat /\ seenTail \in Nat /\ head < seenTail
        /\ seenTail <= tail /\ popped = slots[Slot(head)]
        /\ \A i \in head .. tail - 1 : slots[Slot(i)] \in Requests
    BY DEF FeedInv, RingInv
  <1>2. head \in head .. tail - 1
    BY <1>1
  <1> QED
    BY <1>1, <1>2

\* One message of the request is done.
LEMMA WrittenStep ==
    ASSUME FeedInv, client \in {"validate", "claim"}, Written
    PROVE  /\ client' = "loop" /\ payload' = NULL /\ asked' \in Requests
           /\ asked'.first = asked.first + 1 /\ asked'.last = asked.last
  <1>1. asked \in Requests /\ asked.first < asked.last
    BY DEF FeedInv, ClientInv
  <1>2. asked.first \in Nat /\ asked.first >= 1 /\ asked.last \in Nat /\ asked.last <= LAST
    BY <1>1, RequestFacts, PacketFacts
  <1>3. LAST \in Nat
    BY Sizes
  <1>4. asked.first + 1 \in Packets
    BY <1>1, <1>2, <1>3, PacketFacts
  <1>5. asked' = [asked EXCEPT !.first = asked.first + 1] /\ client' = "loop" /\ payload' = NULL
    BY DEF Written
  <1>6. asked' \in Requests /\ asked'.first = asked.first + 1 /\ asked'.last = asked.last
    BY <1>1, <1>4, <1>5, RequestFacts
  <1> QED
    BY <1>5, <1>6

\* The client has a whole request in hand while it works on one, and the
\* payload it received for it.
LEMMA ClientStep == ASSUME FeedInv, [Next]_vars PROVE ClientInv'
  <1>a. ClientInv
    BY DEF FeedInv
  <1>b. /\ client \in {"connect", "run", "send", "loop", "header", "payload",
                       "validate", "claim", "done", "aborted"}
        /\ asked \in Requests \cup {NULL} /\ payload \in Contents
        /\ connection \in {"none", "open", "closed"}
        /\ client = "connect" => connection = "none"
        /\ client \in {"connect", "run"} => asked = NULL
        /\ client \in {"send", "loop", "header", "payload", "validate", "claim"}
              => asked \in Requests
        /\ client \in {"header", "payload", "validate", "claim"}
              => asked.first < asked.last
        /\ client = "payload" => connection = "open"
        /\ client \in {"validate", "claim"} => payload \in {asked.first, Garbled}
        /\ client = "claim" => asked.first < readerIndex + MAX_INDEX_AHEAD
    BY <1>a DEF ClientInv
  <1>c. readerIndex \in Nat /\ MAX_INDEX_AHEAD \in Nat
    BY Sizes DEF FeedInv, PublishInv
  <1>d. asked \in Requests => asked.first \in Packets /\ asked.first \in Nat /\ asked.last \in Nat
    BY RequestFacts, PacketFacts
  <1>e. NULL \notin Requests /\ NULL \in Contents /\ Garbled \in Contents
        /\ \A n \in Packets : n \in Contents
    BY RequestFacts DEF Contents
  <1>1. CASE Listener \/ Handler \/ RequestStop \/ UNCHANGED vars
    <2>1. UNCHANGED <<client, asked, payload, connection, readerIndex>>
      BY <1>1, ListenerAlone, HandlerAlone DEF RequestStop, vars, clientVars, publisherVars
    <2> QED
      BY <2>1, <1>a DEF ClientInv
  <1>2. CASE Publisher
    <2>1. UNCHANGED <<client, asked, payload, connection>>
      BY <1>2, PublisherAlone DEF clientVars
    <2>2. client = "claim" => asked.first < readerIndex' + MAX_INDEX_AHEAD
      BY <1>2, <1>b, <1>c, <1>d, ReaderMovesOn
    <2> QED
      BY <2>1, <2>2, <1>b DEF ClientInv
  <1>3. CASE Client
    <2>0. readerIndex' = readerIndex
      BY <1>3, ClientAlone DEF publisherVars
    <2>1. CASE ClientFails /\ UNCHANGED connection
      BY <2>1, <1>b, <1>e DEF ClientFails, ClientInv
    <2>2. CASE Connect
      BY <2>1, <2>2, <1>b DEF Connect, ClientInv
    <2>3. CASE ClientStops
      BY <2>3, <1>b DEF ClientStops, ClientInv
    <2>4. CASE PopRequest
      <3>1. client = "run" /\ UNCHANGED <<payload, connection>>
        BY <2>4 DEF PopRequest
      <3>2. CASE UNCHANGED <<client, asked>>
        BY <3>1, <3>2, <1>b DEF ClientInv
      <3>3. CASE PopReleases /\ client' = "send" /\ asked' = popped
        <4>1. popped \in Requests
          BY <3>3, PoppedIsRequest DEF PopReleases
        <4> QED
          BY <3>1, <3>3, <4>1, <1>b DEF ClientInv
      <3> QED
        BY <2>4, <3>2, <3>3 DEF PopRequest
    <2>5. CASE SendRequest
      BY <2>1, <2>5, <1>b DEF SendRequest, ClientInv
    <2>6. CASE NextMessage
      BY <2>6, <1>b DEF NextMessage, ClientInv
    <2>7. CASE ReceptionFails
      BY <2>1, <2>7 DEF ReceptionFails
    <2>8. CASE ReceiveHeader
      BY <2>8, <1>b DEF ReceiveHeader, ClientInv
    <2>9. CASE ClientAborts
      BY <2>9, <1>b DEF ClientAborts, ClientInv
    <2>10. CASE ReceivePayload
      <3>1. /\ client = "payload" /\ client' = "validate" /\ asked' = asked
            /\ payload' \in {asked.first, Garbled}
            /\ connection' \in {"open", "closed"}
        BY <2>10, <1>b DEF ReceivePayload
      <3>2. asked \in Requests /\ asked.first < asked.last /\ payload' \in Contents
        BY <3>1, <1>b, <1>d, <1>e
      <3> QED
        BY <3>1, <3>2 DEF ClientInv
    <2>11. CASE ClientValidates
      <3>1. client = "validate" /\ connection' = connection
        BY <2>11 DEF ClientValidates
      <3>2. CASE Verdict(asked.first) = "Claim" /\ client' = "claim" /\ UNCHANGED <<asked, payload>>
        <4>1. ~(asked.first >= readerIndex + MAX_INDEX_AHEAD)
          BY <3>2 DEF Verdict
        <4>2. asked.first < readerIndex + MAX_INDEX_AHEAD
          BY <4>1, <3>1, <1>b, <1>c, <1>d
        <4> QED
          BY <2>0, <3>1, <3>2, <4>2, <1>b DEF ClientInv
      <3>3. CASE Written
        <4>1. client' = "loop" /\ payload' = NULL /\ asked' \in Requests
          BY <3>1, <3>3, WrittenStep
        <4> QED
          BY <3>1, <4>1, <1>b, <1>e DEF ClientInv
      <3>4. CASE ClientFails
        BY <2>1, <3>1, <3>4
      <3> QED
        BY <2>11, <3>2, <3>3, <3>4 DEF ClientValidates
    <2>12. CASE ClientClaims
      <3>1. client = "claim" /\ connection' = connection /\ Written
        BY <2>12 DEF ClientClaims
      <3>2. client' = "loop" /\ payload' = NULL /\ asked' \in Requests
        BY <3>1, WrittenStep
      <3> QED
        BY <3>1, <3>2, <1>b, <1>e DEF ClientInv
    <2> QED
      BY <1>3, <2>2, <2>3, <2>4, <2>5, <2>6, <2>7, <2>8, <2>9, <2>10, <2>11, <2>12 DEF Client
  <1> QED
    BY <1>1, <1>2, <1>3, StepCases

-----------------------------------------------------------------------------
(* The reorder buffer. *)

\* One of the two writers puts x into the empty slot of packet n.
Fills(n, x) ==
    /\ n \in Packets /\ x \in {n, Garbled}
    /\ n < readerIndex + MAX_INDEX_AHEAD
    /\ reorder[ReorderSlot(n)] = NULL
    /\ reorder' = [reorder EXCEPT ![ReorderSlot(n)] = x]
    /\ lateCopy' = (lateCopy \/ n < readerIndex)

\* ... or finds that the slot is not empty.
Skips(n) ==
    /\ n \in Packets /\ n < readerIndex + MAX_INDEX_AHEAD
    /\ reorder[ReorderSlot(n)] # NULL
    /\ UNCHANGED reorderVars

\* The handler writes its packet, the client its payload.
LEMMA HandlerFills ==
    ASSUME FeedInv, HandlerClaims
    PROVE  udp # <<>> /\ (Fills(Packet, Packet) \/ Skips(Packet)) /\ readerIndex' = readerIndex
  <1>1. handler = "claim" /\ ClaimAndFill(Packet, Packet) /\ readerIndex' = readerIndex
    BY DEF HandlerClaims, handlerOnly, publisherVars
  <1>2. udp # <<>> /\ Packet < readerIndex + MAX_INDEX_AHEAD
    BY <1>1 DEF FeedInv, HandlerInv
  <1>3. Packet \in Packets
    BY <1>2, PacketInRing
  <1> QED
    BY <1>1, <1>2, <1>3 DEF ClaimAndFill, Fills, Skips

\* The client's write, by the same rule.
LEMMA ClientFills ==
    ASSUME FeedInv, ClientClaims
    PROVE  (Fills(asked.first, payload) \/ Skips(asked.first)) /\ readerIndex' = readerIndex
  <1>1. client = "claim" /\ ClaimAndFill(asked.first, payload) /\ readerIndex' = readerIndex
    BY DEF ClientClaims, clientOnly, publisherVars
  <1>2. asked \in Requests /\ payload \in {asked.first, Garbled}
        /\ asked.first < readerIndex + MAX_INDEX_AHEAD
    BY <1>1 DEF FeedInv, ClientInv
  <1>3. asked.first \in Packets
    BY <1>2, RequestFacts
  <1> QED
    BY <1>1, <1>2, <1>3 DEF ClaimAndFill, Fills, Skips

\* Nothing else but the publisher touches the reorder buffer.
LEMMA ReorderCases ==
    ASSUME FeedInv, [Next]_vars
    PROVE  \/ UNCHANGED <<reorder, lateCopy, readerIndex>>
           \/ (\E n, x : Fills(n, x)) /\ readerIndex' = readerIndex
           \/ Consume /\ UNCHANGED lateCopy
  <1>1. CASE Listener \/ RequestStop \/ UNCHANGED vars
    BY <1>1, ListenerAlone DEF RequestStop, vars, reorderVars, publisherVars
  <1>2. CASE HandlerStops \/ TakePacket \/ PushRequest \/ RequestBufferFull \/ HandlerValidates
    BY <1>2 DEF HandlerStops, TakePacket, PushRequest, RequestBufferFull,
                HandlerValidates, reorderVars, handlerOnly, publisherVars
  <1>3. CASE HandlerClaims
    BY <1>3, HandlerFills DEF Skips, reorderVars
  <1>4. CASE Client /\ ~ClientClaims
    BY <1>4 DEF Client, Connect, ClientStops, PopRequest, SendRequest, NextMessage,
                ReceptionFails, ReceiveHeader, ClientAborts, ReceivePayload,
                ClientValidates, reorderVars, clientOnly, publisherVars
  <1>5. CASE ClientClaims
    BY <1>5, ClientFills DEF Skips, reorderVars
  <1>6. CASE Publisher
    BY <1>6 DEF Publisher, PublisherStops, Consume, Publish, publisherOnly
  <1> QED
    BY <1>1, <1>2, <1>3, <1>4, <1>5, <1>6, StepCases DEF Handler

\* Less than a lap ahead of the reader index a slot stands for one packet.
LEMMA SameSlot ==
    ASSUME NEW m \in Nat, NEW n \in Nat, NEW k \in Nat, ReorderSlot(m) = ReorderSlot(n),
           k <= m, k <= n, m < k + REORDER_BUFFER_SIZE, n < k + REORDER_BUFFER_SIZE
    PROVE  m = n
  <1>1. REORDER_BUFFER_SIZE \in Nat
    BY Sizes
  <1>2. CASE m < n
    <2>1. n - m < REORDER_BUFFER_SIZE
      BY <1>1, <1>2
    <2> QED
      BY <2>1, <1>2, ReorderSlotFacts
  <1>3. CASE n < m
    <2>1. m - n < REORDER_BUFFER_SIZE
      BY <1>1, <1>3
    <2> QED
      BY <2>1, <1>3, ReorderSlotFacts
  <1> QED
    BY <1>2, <1>3

\* A claim decided on an old reader index still falls into the window of the
\* newer one, or behind it: then the copy is late.
LEMMA WindowStep == ASSUME FeedInv, [Next]_vars PROVE WindowInv'
  <1>a. /\ reorder \in [ReorderSlots -> Contents] /\ lateCopy \in BOOLEAN
        /\ \A s \in ReorderSlots : reorder[s] \in Packets =>
              /\ ReorderSlot(reorder[s]) = s
              /\ reorder[s] < readerIndex + MAX_INDEX_AHEAD
              /\ lateCopy \/ readerIndex <= reorder[s]
    BY DEF FeedInv, WindowInv
  <1>b. /\ readerIndex \in Nat /\ MAX_INDEX_AHEAD \in Nat
        /\ MAX_INDEX_AHEAD < REORDER_BUFFER_SIZE /\ REORDER_BUFFER_SIZE \in Nat
    BY Sizes DEF FeedInv, PublishInv
  <1>1. CASE UNCHANGED <<reorder, lateCopy, readerIndex>>
    BY <1>1, <1>a DEF WindowInv
  <1>2. ASSUME NEW n, NEW x, Fills(n, x), readerIndex' = readerIndex PROVE WindowInv'
    <2>1. /\ n \in Packets /\ n \in Nat /\ x \in {n, Garbled} /\ n < readerIndex + MAX_INDEX_AHEAD
          /\ reorder' = [reorder EXCEPT ![ReorderSlot(n)] = x]
          /\ lateCopy' = (lateCopy \/ n < readerIndex)
          /\ x \in Packets => x = n
      BY <1>2, PacketFacts DEF Fills
    <2>2. ReorderSlot(n) \in ReorderSlots /\ x \in Contents
      BY <2>1, ReorderSlotFacts DEF Contents
    <2>3. /\ reorder' \in [ReorderSlots -> Contents] /\ lateCopy' \in BOOLEAN
          /\ reorder'[ReorderSlot(n)] = x
          /\ \A s \in ReorderSlots \ {ReorderSlot(n)} : reorder'[s] = reorder[s]
      BY <2>1, <2>2, <1>a
    <2>4. lateCopy' \/ readerIndex <= n
      <3>1. ~(n < readerIndex) => readerIndex <= n
        BY <2>1, <1>b
      <3>2. n < readerIndex => lateCopy'
        BY <2>1, Zenon
      <3> QED
        BY <3>1, <3>2
    <2>5. ASSUME NEW s \in ReorderSlots, reorder'[s] \in Packets
          PROVE  /\ ReorderSlot(reorder'[s]) = s
                 /\ reorder'[s] < readerIndex + MAX_INDEX_AHEAD
                 /\ lateCopy' \/ readerIndex <= reorder'[s]
      <3>1. CASE s = ReorderSlot(n)
        BY <2>1, <2>3, <2>4, <2>5, <3>1
      <3>2. CASE s # ReorderSlot(n)
        BY <2>1, <2>3, <2>5, <3>2, <1>a
      <3> QED
        BY <3>1, <3>2
    <2> QED
      BY <1>2, <2>3, <2>5 DEF WindowInv
  <1>3. CASE Consume /\ UNCHANGED lateCopy
    <2> DEFINE k == ReorderSlot(readerIndex)
    <2>1. reorder' = [reorder EXCEPT ![k] = NULL] /\ readerIndex' = readerIndex + 1
      BY <1>3 DEF Consume
    <2>2. k \in ReorderSlots /\ NULL \notin Packets /\ NULL \in Contents
      BY <1>b, ReorderSlotFacts, PacketFacts DEF Contents
    <2>3. /\ reorder' \in [ReorderSlots -> Contents] /\ reorder'[k] = NULL
          /\ \A s \in ReorderSlots \ {k} : reorder'[s] = reorder[s]
      BY <2>1, <2>2, <1>a
    <2>4. ASSUME NEW s \in ReorderSlots, reorder'[s] \in Packets
          PROVE  /\ ReorderSlot(reorder'[s]) = s
                 /\ reorder'[s] < readerIndex' + MAX_INDEX_AHEAD
                 /\ lateCopy' \/ readerIndex' <= reorder'[s]
      <3>1. s # k /\ reorder'[s] = reorder[s] /\ reorder[s] \in Nat
        BY <2>2, <2>3, <2>4, PacketFacts
      <3>2. /\ ReorderSlot(reorder[s]) = s /\ reorder[s] < readerIndex + MAX_INDEX_AHEAD
            /\ lateCopy \/ readerIndex <= reorder[s]
        BY <2>4, <3>1, <1>a
      <3>3. reorder[s] # readerIndex
        BY <3>1, <3>2
      <3> QED
        BY <1>3, <2>1, <3>1, <3>2, <3>3, <1>b
    <2> QED
      BY <1>3, <2>3, <2>4, <1>a DEF WindowInv
  <1> QED
    BY <1>1, <1>2, <1>3, ReorderCases

-----------------------------------------------------------------------------
(* The publisher. *)

\* What may come out may still come out later: lateCopy is never taken back.
LEMMA InPlaceStays ==
    ASSUME FeedInv, [Next]_vars PROVE \A i, x : InPlace(i, x) => InPlace(i, x)'
  <1>1. lateCopy => lateCopy'
    BY ReorderCases DEF Fills
  <1> QED
    BY <1>1 DEF InPlace

\* The packet that wait_consume_next takes is the one whose turn it is, or an
\* older one of the same slot.
LEMMA ConsumedInPlace ==
    ASSUME FeedInv, Consume
    PROVE  /\ item' \in Contents /\ item' # NULL /\ InPlace(readerIndex, item')
           /\ readerIndex \in Nat /\ readerIndex' = readerIndex + 1
  <1> DEFINE k == readerIndex
             x == reorder[ReorderSlot(k)]
  <1>1. x # NULL /\ item' = x /\ readerIndex' = k + 1
    BY DEF Consume
  <1>2. k \in Nat /\ ReorderSlot(k) \in ReorderSlots
    BY ReorderSlotFacts DEF FeedInv, PublishInv
  <1>3. x \in Contents
    BY <1>2 DEF FeedInv, WindowInv
  <1>4. CASE x = Garbled
    BY <1>1, <1>2, <1>3, <1>4 DEF InPlace
  <1>5. CASE x \in Packets
    <2>1. /\ ReorderSlot(x) = ReorderSlot(k) /\ x < k + MAX_INDEX_AHEAD
          /\ lateCopy \/ k <= x
      BY <1>2, <1>5 DEF FeedInv, WindowInv
    <2>2. x \in Nat /\ MAX_INDEX_AHEAD \in Nat /\ MAX_INDEX_AHEAD < REORDER_BUFFER_SIZE
          /\ REORDER_BUFFER_SIZE \in Nat
      BY <1>5, PacketFacts, Sizes
    <2> HIDE DEF x, k
    <2>3. CASE k <= x
      <3>1. x < k + REORDER_BUFFER_SIZE /\ k < k + REORDER_BUFFER_SIZE
        BY <1>2, <2>1, <2>2, Sizes
      <3>2. x = k
        BY <1>2, <2>1, <2>2, <2>3, <3>1, SameSlot
      <3>3. InPlace(k, x)
        BY <3>2 DEF InPlace
      <3> QED
        BY <1>1, <1>2, <1>3, <3>3 DEF k
    <2>4. CASE ~(k <= x)
      <3>1. x < k
        BY <1>2, <2>2, <2>4
      <3>2. InPlace(k, x)
        BY <2>1, <2>4, <3>1 DEF InPlace
      <3> QED
        BY <1>1, <1>2, <1>3, <3>2 DEF k
    <2> QED
      BY <2>3, <2>4
  <1> QED
    BY <1>1, <1>3, <1>4, <1>5 DEF Contents

\* The publisher takes the packets in the order of their slots.
LEMMA PublishStep == ASSUME FeedInv, [Next]_vars PROVE PublishInv'
  <1>a. /\ publisher \in {"run", "slot", "done"} /\ readerIndex \in Nat
        /\ item \in Contents /\ published \in Seq(Packets \cup {Garbled})
        /\ publisher = "run" => readerIndex = Len(published) + 1
        /\ publisher = "slot" => /\ readerIndex = Len(published) + 2
                                 /\ item # NULL /\ InPlace(readerIndex - 1, item)
        /\ \A i \in 1 .. Len(published) : InPlace(i, published[i])
    BY DEF FeedInv, PublishInv
  <1>b. \A i, x : InPlace(i, x) => InPlace(i, x)'
    BY InPlaceStays
  <1>c. Len(published) \in Nat
    BY <1>a, LenProperties
  <1>1. CASE Listener \/ Handler \/ Client \/ RequestStop \/ UNCHANGED vars
    <2>1. UNCHANGED <<publisher, readerIndex, item, published>>
      BY <1>1, ListenerAlone, HandlerAlone, ClientAlone DEF RequestStop, vars, publisherVars
    <2>2. publisher = "slot" => InPlace(readerIndex - 1, item)'
      BY <2>1, <1>a, <1>b DEF InPlace
    <2>3. \A i \in 1 .. Len(published) : InPlace(i, published[i])'
      BY <2>1, <1>a, <1>b DEF InPlace
    <2> QED
      BY <2>1, <2>2, <2>3, <1>a DEF PublishInv
  <1>2. CASE PublisherStops
    <2>1. publisher' = "done" /\ item' = NULL /\ UNCHANGED <<readerIndex, published, lateCopy>>
      BY <1>2 DEF PublisherStops, publisherOnly
    <2> QED
      BY <2>1, <1>a DEF PublishInv, Contents, InPlace
  <1>3. CASE Consume
    <2>1. publisher = "run" /\ publisher' = "slot" /\ UNCHANGED <<published, lateCopy>>
      BY <1>3 DEF Consume, publisherOnly
    <2>2. /\ item' \in Contents /\ item' # NULL /\ InPlace(readerIndex, item')
          /\ readerIndex' = readerIndex + 1
      BY <1>3, ConsumedInPlace
    <2>3. readerIndex' - 1 = readerIndex /\ readerIndex' \in Nat
          /\ readerIndex' = Len(published) + 2
      BY <2>1, <2>2, <1>a, <1>c
    <2>4. InPlace(readerIndex - 1, item)'
      BY <2>1, <2>2, <2>3 DEF InPlace
    <2>5. \A i \in 1 .. Len(published) : InPlace(i, published[i])'
      BY <2>1, <1>a DEF InPlace
    <2> QED
      BY <2>1, <2>2, <2>3, <2>4, <2>5, <1>a DEF PublishInv
  <1>4. CASE Publish
    <2>1. /\ publisher = "slot" /\ publisher' = "run" /\ published' = Append(published, item)
          /\ item' = NULL /\ UNCHANGED <<readerIndex, lateCopy>>
      BY <1>4 DEF Publish, publisherOnly
    <2>2. item \in Packets \cup {Garbled} /\ readerIndex = Len(published) + 2
          /\ InPlace(readerIndex - 1, item)
      BY <2>1, <1>a DEF Contents
    <2>3. /\ published' \in Seq(Packets \cup {Garbled}) /\ Len(published') = Len(published) + 1
          /\ \A i \in 1 .. Len(published) : published'[i] = published[i]
          /\ published'[Len(published) + 1] = item
      BY <2>1, <2>2, <1>a, AppendProperties
    <2>4. readerIndex = Len(published') + 1 /\ readerIndex - 1 = Len(published')
          /\ Len(published') = Len(published) + 1
      BY <2>2, <2>3, <1>c
    <2>5. ASSUME NEW i \in 1 .. Len(published') PROVE InPlace(i, published[i])'
      <3>1. CASE i = Len(published')
        <4>1. InPlace(i, item)
          BY <3>1, <2>2, <2>4
        <4> QED
          BY <4>1, <3>1, <2>1, <2>3, <2>4 DEF InPlace
      <3>2. CASE i # Len(published')
        <4>1. i \in 1 .. Len(published)
          BY <3>2, <2>3, <1>c
        <4>2. InPlace(i, published[i]) /\ published'[i] = published[i]
          BY <4>1, <1>a, <2>3
        <4> QED
          BY <4>2, <2>1 DEF InPlace
      <3> QED
        BY <3>1, <3>2
    <2> QED
      BY <2>1, <2>3, <2>4, <2>5, <1>a DEF PublishInv, Contents
  <1> QED
    BY <1>1, <1>2, <1>3, <1>4, StepCases DEF Publisher

-----------------------------------------------------------------------------
(* The payload that the server's error header completed. *)

\* Steps that bring no Garbled payload anywhere it was not.
LEMMA NoNewGarbled ==
    ASSUME OnePlaceInv,
           \A s \in ReorderSlots : reorder'[s] = Garbled => reorder[s] = Garbled,
           item' = Garbled => item = Garbled, published' = published,
           payload' = Garbled => payload = Garbled,
           connection' # "closed" => connection # "closed",
           payload' = Garbled => connection' = "closed"
    PROVE  OnePlaceInv'
  <1>1. GarbledInReorder' => GarbledInReorder
    BY DEF GarbledInReorder
  <1>2. GarbledInPublished' => GarbledInPublished
    BY DEF GarbledInPublished
  <1> QED
    BY <1>1, <1>2 DEF OnePlaceInv

\* The Garbled payload moves, and is never copied.
LEMMA OnePlaceStep == ASSUME FeedInv, [Next]_vars PROVE OnePlaceInv'
  <1>a. OnePlaceInv /\ reorder \in [ReorderSlots -> Contents]
    BY DEF FeedInv, WindowInv
  <1>b. Garbled # NULL /\ Garbled \notin Packets
    BY PacketFacts
  <1>c. payload = Garbled => connection = "closed"
    BY <1>a DEF OnePlaceInv
  <1>1. CASE Listener \/ RequestStop \/ UNCHANGED vars
    <2>1. UNCHANGED <<reorder, item, published, payload, connection>>
      BY <1>1, ListenerAlone DEF RequestStop, vars, reorderVars, publisherVars, clientVars
    <2> QED
      BY <2>1, <1>a, <1>c, NoNewGarbled
  <1>2. CASE Handler
    <2>1. UNCHANGED <<item, published, payload, connection>>
      BY <1>2, HandlerAlone DEF publisherVars, clientVars
    <2>2. \A s \in ReorderSlots : reorder'[s] = Garbled => reorder[s] = Garbled
      <3>1. CASE reorder' = reorder
        BY <3>1
      <3>2. CASE HandlerClaims
        <4>1. Packet \in Packets
          BY <3>2, HandlerFills, PacketInRing
        <4>2. CASE reorder' = [reorder EXCEPT ![ReorderSlot(Packet)] = Packet]
          BY <4>1, <4>2, <1>a, <1>b
        <4> QED
          BY <3>1, <3>2, <4>2, HandlerFills DEF Fills, Skips, reorderVars
      <3> QED
        BY <1>2, <3>1, <3>2 DEF Handler, HandlerStops, TakePacket, PushRequest,
              RequestBufferFull, HandlerValidates, reorderVars
    <2> QED
      BY <2>1, <2>2, <1>a, <1>c, NoNewGarbled
  <1>3. CASE Client
    <2>1. UNCHANGED <<item, published>>
      BY <1>3, ClientAlone DEF publisherVars
    <2>2. CASE /\ reorder' = reorder /\ (payload' = payload \/ payload' = NULL)
               /\ connection' = connection
      BY <2>1, <2>2, <1>a, <1>b, <1>c, NoNewGarbled
    <2>3. CASE Connect
      <3>1. client = "connect" /\ reorder' = reorder
        BY <2>3 DEF Connect, reorderVars
      <3>2. connection = "none"
        BY <3>1 DEF FeedInv, ClientInv
      <3>3. payload' = payload \/ payload' = NULL
        BY <2>3 DEF Connect, ClientFails
      <3>4. payload' # Garbled
        BY <3>2, <3>3, <1>b, <1>c
      <3> QED
        BY <2>1, <3>1, <3>2, <3>4, <1>a, NoNewGarbled
    <2>4. CASE ReceivePayload
      <3>1. client = "payload" /\ reorder' = reorder
        BY <2>4 DEF ReceivePayload, reorderVars
      <3>2. connection = "open" /\ asked \in Requests
        BY <3>1 DEF FeedInv, ClientInv
      <3>3. asked.first # Garbled
        BY <3>2, <1>b, RequestFacts
      <3>4. CASE payload' = asked.first /\ connection' = connection
        BY <2>1, <3>1, <3>3, <3>4, <1>a, NoNewGarbled
      <3>5. CASE payload' = Garbled /\ connection' = "closed"
        <4>1. ~GarbledInReorder /\ item # Garbled /\ ~GarbledInPublished
          BY <3>2, <1>a DEF OnePlaceInv
        <4>2. ~GarbledInReorder' /\ item' # Garbled /\ ~GarbledInPublished'
          BY <2>1, <3>1, <4>1 DEF GarbledInReorder, GarbledInPublished
        <4> QED
          BY <3>5, <4>2 DEF OnePlaceInv, GarbledInReorder, GarbledInPublished
      <3> QED
        BY <2>4, <3>4, <3>5 DEF ReceivePayload
    <2>5. CASE ClientClaims
      <3>1. connection' = connection /\ payload' = NULL
        BY <2>5 DEF ClientClaims, Written
      <3>2. CASE reorder' = reorder
        BY <2>2, <3>1, <3>2
      <3>3. CASE Fills(asked.first, payload)
        <4>1. /\ asked.first \in Packets /\ payload \in {asked.first, Garbled}
              /\ reorder' = [reorder EXCEPT ![ReorderSlot(asked.first)] = payload]
          BY <3>3 DEF Fills
        <4> DEFINE c == ReorderSlot(asked.first)
        <4>2. /\ c \in ReorderSlots /\ reorder'[c] = payload
              /\ \A s \in ReorderSlots \ {c} : reorder'[s] = reorder[s]
          BY <4>1, <1>a, PacketFacts, ReorderSlotFacts
        <4> HIDE DEF c
        <4>3. CASE payload # Garbled
          BY <2>1, <3>1, <4>2, <4>3, <1>a, <1>b, NoNewGarbled
        <4>4. CASE payload = Garbled
          <5>1. ~GarbledInReorder /\ item # Garbled /\ ~GarbledInPublished /\ connection = "closed"
            BY <4>4, <1>a DEF OnePlaceInv
          <5>2. \A s \in ReorderSlots : reorder'[s] = Garbled => s = c
            BY <4>2, <5>1 DEF GarbledInReorder
          <5>3. item' # Garbled /\ ~GarbledInPublished'
            BY <2>1, <5>1 DEF GarbledInPublished
          <5> QED
            BY <3>1, <5>1, <5>2, <5>3, <1>b DEF OnePlaceInv, GarbledInPublished
        <4> QED
          BY <4>3, <4>4
      <3> QED
        BY <2>5, <3>2, <3>3, ClientFills DEF Skips, reorderVars
    <2>6. CASE ClientStops \/ PopRequest \/ SendRequest \/ NextMessage \/ ReceptionFails
                \/ ReceiveHeader \/ ClientAborts \/ ClientValidates
      BY <2>2, <2>6 DEF ClientStops, PopRequest, SendRequest, NextMessage, ReceptionFails,
            ReceiveHeader, ClientAborts, ClientValidates, ClientFails, Written, reorderVars
    <2> QED
      BY <1>3, <2>3, <2>4, <2>5, <2>6 DEF Client
  <1>4. CASE Publisher
    <2>1. UNCHANGED <<payload, connection>>
      BY <1>4, PublisherAlone DEF clientVars
    <2>2. CASE PublisherStops
      <3>1. reorder' = reorder /\ item' = NULL /\ published' = published
        BY <2>2 DEF PublisherStops
      <3> QED
        BY <2>1, <3>1, <1>a, <1>b, <1>c, NoNewGarbled
    <2>3. CASE Consume
      <3> DEFINE k == ReorderSlot(readerIndex)
      <3>1. /\ item' = reorder[k] /\ reorder' = [reorder EXCEPT ![k] = NULL]
            /\ published' = published
        BY <2>3 DEF Consume
      <3>2. k \in ReorderSlots
        BY ReorderSlotFacts DEF FeedInv, PublishInv
      <3>3. /\ reorder'[k] = NULL
            /\ \A s \in ReorderSlots \ {k} : reorder'[s] = reorder[s]
        BY <3>1, <3>2, <1>a
      <3> HIDE DEF k
      <3>4. \A s \in ReorderSlots : reorder'[s] = Garbled => reorder[s] = Garbled /\ s # k
        BY <3>3, <1>b
      <3>5. CASE item' # Garbled
        BY <2>1, <3>1, <3>4, <3>5, <1>a, <1>c, NoNewGarbled
      <3>6. CASE item' = Garbled
        <4>1. GarbledInReorder /\ reorder[k] = Garbled
          BY <3>1, <3>2, <3>6 DEF GarbledInReorder
        <4>2. ~GarbledInPublished /\ connection = "closed" /\ payload # Garbled
          BY <4>1, <1>a DEF OnePlaceInv
        <4>3. ~GarbledInReorder'
          BY <3>2, <3>4, <4>1, <1>a DEF OnePlaceInv, GarbledInReorder
        <4>4. ~GarbledInPublished'
          BY <3>1, <4>2 DEF GarbledInPublished
        <4> QED
          BY <2>1, <4>2, <4>3, <4>4 DEF OnePlaceInv, GarbledInReorder, GarbledInPublished
      <3> QED
        BY <3>5, <3>6
    <2>4. CASE Publish
      <3>1. published' = Append(published, item) /\ item' = NULL /\ reorder' = reorder
        BY <2>4 DEF Publish
      <3>2. published \in Seq(Packets \cup {Garbled}) /\ Len(published) \in Nat
            /\ item \in Packets \cup {Garbled}
        <4>1. published \in Seq(Packets \cup {Garbled}) /\ item \in Contents /\ item # NULL
          BY <2>4 DEF FeedInv, PublishInv, Publish
        <4> QED
          BY <4>1, LenProperties DEF Contents
      <3>3. /\ Len(published') = Len(published) + 1
            /\ \A i \in 1 .. Len(published) : published'[i] = published[i]
            /\ published'[Len(published) + 1] = item
        BY <3>1, <3>2, AppendProperties
      <3>4. \A i \in 1 .. Len(published') : i \in 1 .. Len(published) \/ i = Len(published) + 1
        BY <3>2, <3>3
      <3>5. CASE item # Garbled
        <4>1. \A i \in 1 .. Len(published') :
                published'[i] = Garbled => i \in 1 .. Len(published) /\ published[i] = Garbled
          BY <3>3, <3>4, <3>5
        <4>2. GarbledInPublished' => GarbledInPublished
          BY <4>1 DEF GarbledInPublished
        <4>3. GarbledInReorder' => GarbledInReorder
          BY <3>1 DEF GarbledInReorder
        <4> QED
          BY <2>1, <3>1, <4>1, <4>2, <4>3, <1>a, <1>b DEF OnePlaceInv
      <3>6. CASE item = Garbled
        <4>1. ~GarbledInPublished /\ ~GarbledInReorder /\ connection = "closed" /\ payload # Garbled
          BY <3>6, <1>a DEF OnePlaceInv
        <4>2. \A i \in 1 .. Len(published') : published'[i] = Garbled => i = Len(published) + 1
          BY <3>3, <3>4, <4>1 DEF GarbledInPublished
        <4>3. ~GarbledInReorder'
          BY <3>1, <4>1 DEF GarbledInReorder
        <4> QED
          BY <2>1, <3>1, <4>1, <4>2, <4>3, <1>b DEF OnePlaceInv, GarbledInReorder
      <3> QED
        BY <3>5, <3>6
    <2> QED
      BY <1>4, <2>2, <2>3, <2>4 DEF Publisher
  <1> QED
    BY <1>1, <1>2, <1>3, <1>4, StepCases

-----------------------------------------------------------------------------
(* Nothing is lost. *)

\* The publisher has had packet n, or will find it in the reorder buffer.
Buffered(n) ==
    \/ n < readerIndex
    \/ n < readerIndex + REORDER_BUFFER_SIZE
         /\ reorder[ReorderSlot(n)] \in {n, Garbled}

\* The reader takes a packet out of the reorder buffer only at its turn.
LEMMA BufferKeeps ==
    ASSUME FeedInv, [Next]_vars, NEW n \in Nat, Buffered(n)
    PROVE  Buffered(n)'
  <1>a. /\ reorder \in [ReorderSlots -> Contents] /\ readerIndex \in Nat
        /\ REORDER_BUFFER_SIZE \in Nat /\ ReorderSlot(n) \in ReorderSlots
    BY Sizes, ReorderSlotFacts DEF FeedInv, WindowInv, PublishInv
  <1>b. n # NULL /\ Garbled # NULL
    BY MarkersAssumption
  <1>1. CASE UNCHANGED <<reorder, lateCopy, readerIndex>>
    BY <1>1 DEF Buffered
  <1>2. ASSUME NEW m, NEW x, Fills(m, x), readerIndex' = readerIndex PROVE Buffered(n)'
    <2>1. reorder[ReorderSlot(m)] = NULL /\ reorder' = [reorder EXCEPT ![ReorderSlot(m)] = x]
      BY <1>2 DEF Fills
    <2>2. reorder[ReorderSlot(n)] # NULL => reorder'[ReorderSlot(n)] = reorder[ReorderSlot(n)]
      BY <2>1, <1>a
    <2> QED
      BY <2>2, <1>2, <1>b DEF Buffered
  <1>3. CASE Consume
    <2>1. /\ readerIndex' = readerIndex + 1
          /\ reorder' = [reorder EXCEPT ![ReorderSlot(readerIndex)] = NULL]
      BY <1>3 DEF Consume
    <2>2. CASE n <= readerIndex
      <3>1. n < readerIndex'
        BY <2>1, <2>2, <1>a
      <3> QED
        BY <3>1 DEF Buffered
    <2>3. CASE ~(n <= readerIndex)
      <3>1. /\ readerIndex < n /\ n < readerIndex + REORDER_BUFFER_SIZE
            /\ n - readerIndex < REORDER_BUFFER_SIZE
            /\ n < readerIndex' + REORDER_BUFFER_SIZE
            /\ reorder[ReorderSlot(n)] \in {n, Garbled}
        BY <2>1, <2>3, <1>a DEF Buffered
      <3>2. ReorderSlot(readerIndex) # ReorderSlot(n)
        BY <3>1, <1>a, ReorderSlotFacts
      <3>3. reorder'[ReorderSlot(n)] = reorder[ReorderSlot(n)]
        BY <2>1, <3>2, <1>a
      <3> QED
        BY <3>1, <3>3 DEF Buffered
    <2> QED
      BY <2>2, <2>3
  <1> QED
    BY <1>1, <1>2, <1>3, ReorderCases

\* After its claim a writer may forget its packet: it has put it into the slot,
\* the other writer has, or the reader is past it.
LEMMA ClaimCovers ==
    ASSUME FeedInv, NEW n, NEW x, Fills(n, x) \/ Skips(n), readerIndex' = readerIndex,
           ~lateCopy
    PROVE  Buffered(n)'
  <1>a. /\ reorder \in [ReorderSlots -> Contents] /\ readerIndex \in Nat
        /\ REORDER_BUFFER_SIZE \in Nat /\ MAX_INDEX_AHEAD \in Nat
        /\ MAX_INDEX_AHEAD < REORDER_BUFFER_SIZE
    BY Sizes DEF FeedInv, WindowInv, PublishInv
  <1>1. n \in Packets /\ n \in Nat /\ n < readerIndex + MAX_INDEX_AHEAD
    BY PacketFacts DEF Fills, Skips
  <1>2. n < readerIndex + REORDER_BUFFER_SIZE /\ ReorderSlot(n) \in ReorderSlots
    BY <1>1, <1>a, ReorderSlotFacts
  <1>3. CASE Fills(n, x)
    <2>1. x \in {n, Garbled} /\ reorder' = [reorder EXCEPT ![ReorderSlot(n)] = x]
      BY <1>3 DEF Fills
    <2>2. reorder'[ReorderSlot(n)] = x
      BY <2>1, <1>a, <1>2
    <2> QED
      BY <2>1, <2>2, <1>2 DEF Buffered
  <1>4. CASE Skips(n)
    <2> DEFINE m == reorder[ReorderSlot(n)]
    <2>1. m # NULL /\ m \in Contents /\ reorder' = reorder
      BY <1>4, <1>a, <1>2 DEF Skips, reorderVars
    <2>2. CASE m = Garbled
      BY <2>1, <2>2, <1>2 DEF Buffered
    <2>3. CASE m \in Packets
      <3>1. /\ ReorderSlot(m) = ReorderSlot(n) /\ m < readerIndex + MAX_INDEX_AHEAD
            /\ readerIndex <= m
        BY <2>3, <1>2 DEF FeedInv, WindowInv
      <3>2. m \in Nat
        BY <2>3, PacketFacts
      <3>3. m < readerIndex + REORDER_BUFFER_SIZE
        BY <3>1, <3>2, <1>a
      <3>4. CASE readerIndex <= n
        <4>1. m = n
          BY <3>1, <3>2, <3>3, <3>4, <1>a, <1>1, <1>2, SameSlot
        <4> QED
          BY <4>1, <2>1, <1>2 DEF Buffered
      <3>5. CASE ~(readerIndex <= n)
        <4>1. n < readerIndex
          BY <3>5, <1>a, <1>1
        <4> QED
          BY <4>1 DEF Buffered
      <3> QED
        BY <3>4, <3>5
    <2> QED
      BY <2>1, <2>2, <2>3 DEF Contents
  <1> QED
    BY <1>3, <1>4

\* What a step does to the requests under way.
LEMMA RequestCases ==
    ASSUME FeedInv, [Next]_vars
    PROVE  \/ UNCHANGED ringVars /\ (request' = request \/ request = NULL)
           \/ (PushTest \/ PushBegins \/ PopTest \/ PopCopies) /\ UNCHANGED <<request, asked>>
           \/ PushEnds(request) /\ request \in Requests /\ UNCHANGED asked
           \/ PopReleases /\ asked' = popped /\ UNCHANGED request
  <1>1. CASE Listener \/ Publisher \/ RequestStop \/ UNCHANGED vars
    BY <1>1, ListenerAlone, PublisherAlone DEF RequestStop, vars, handlerVars
  <1>2. CASE Handler
    <2>1. (handler = "run" => request = NULL) /\ (handler = "push" => request \in Requests)
      BY DEF FeedInv, HandlerInv
    <2>2. asked' = asked
      BY <1>2, HandlerAlone DEF clientVars
    <2>3. CASE PushRequest
      BY <2>1, <2>2, <2>3 DEF PushRequest
    <2>4. CASE TakePacket
      BY <2>1, <2>4 DEF TakePacket
    <2>5. CASE HandlerStops \/ RequestBufferFull \/ HandlerValidates \/ HandlerClaims
      BY <2>5 DEF HandlerStops, RequestBufferFull, HandlerValidates, HandlerClaims
    <2> QED
      BY <1>2, <2>3, <2>4, <2>5 DEF Handler
  <1>3. CASE Client
    <2>1. request' = request
      BY <1>3, ClientAlone DEF handlerVars
    <2>2. CASE PopRequest
      BY <2>1, <2>2 DEF PopRequest
    <2>3. CASE ~PopRequest
      BY <2>1, <2>3, <1>3 DEF Client, Connect, ClientStops, SendRequest, NextMessage,
            ReceptionFails, ReceiveHeader, ClientAborts, ReceivePayload, ClientValidates,
            ClientClaims
    <2> QED
      BY <2>2, <2>3
  <1> QED
    BY <1>1, <1>2, <1>3, StepCases

\* The producer writes to no slot that holds a queued request.
LEMMA PushKeepsQueued ==
    ASSUME RingInv, pusher \in {"room", "constructing"}, NEW x,
           slots' = [slots EXCEPT ![Slot(tail)] = x], head' = head,
           tail' = tail \/ tail' = tail + 1
    PROVE  Queued \subseteq Queued'
  <1>1. /\ head \in Nat /\ tail \in Nat /\ seenHead \in Nat /\ seenHead <= head
        /\ tail - seenHead < CAPACITY /\ CAPACITY \in Nat
        /\ slots \in [Slots -> Requests \cup {NULL, Torn}]
    BY Sizes DEF RingInv
  <1>2. ASSUME NEW i \in head .. tail - 1
        PROVE  slots'[Slot(i)] = slots[Slot(i)] /\ i \in head' .. tail' - 1
    <2>1. i \in Nat /\ i < tail /\ tail - i < CAPACITY
      BY <1>1
    <2>2. Slot(i) # Slot(tail) /\ Slot(i) \in Slots
      BY <2>1, <1>1, RingSlots
    <2>3. slots'[Slot(i)] = slots[Slot(i)]
      BY <2>2, <1>1
    <2> QED
      BY <2>3, <1>1
  <1> QED
    BY <1>2 DEF Queued

\* A request stays under way from has_gap to the end of handle_request: every
\* hand passes it on before it lets go.
LEMMA RequestsAreKept ==
    ASSUME FeedInv, [Next]_vars, NEW r \in PendingRequests
    PROVE  r \in PendingRequests' \/ (r = asked /\ asked' # asked)
  <1>a. /\ r # NULL /\ r # Torn
        /\ r \in Queued \/ r = request \/ r = asked \/ (popper = "copied" /\ r = popped)
    BY DEF PendingRequests
  <1>b. r \in Queued' \/ r = request' \/ r = asked' \/ (popper' = "copied" /\ r = popped')
          => r \in PendingRequests'
    BY <1>a DEF PendingRequests
  <1>r. RingInv
    BY DEF FeedInv
  <1>1. CASE UNCHANGED ringVars /\ (request' = request \/ request = NULL)
    <2>1. Queued' = Queued /\ popper' = popper /\ popped' = popped
      BY <1>1 DEF ringVars, Queued
    <2> QED
      BY <2>1, <1>1, <1>a, <1>b
  <1>2. CASE (PushTest \/ PopTest \/ PopCopies) /\ UNCHANGED <<request, asked>>
    <2>1. Queued' = Queued
      BY <1>2 DEF PushTest, PopTest, PopCopies, popVars, pushVars, Queued
    <2>2. popper = "copied" => popper' = "copied" /\ popped' = popped
      BY <1>2 DEF PushTest, PopTest, PopCopies, popVars
    <2> QED
      BY <2>1, <2>2, <1>2, <1>a, <1>b
  <1>3. CASE PushBegins /\ UNCHANGED <<request, asked>>
    <2>1. /\ pusher = "room" /\ slots' = [slots EXCEPT ![Slot(tail)] = Torn]
          /\ UNCHANGED <<head, tail, popper, popped>>
      BY <1>3 DEF PushBegins, popVars
    <2>2. Queued \subseteq Queued'
      BY <2>1, <1>r, PushKeepsQueued
    <2> QED
      BY <2>1, <2>2, <1>3, <1>a, <1>b
  <1>4. CASE PushEnds(request) /\ request \in Requests /\ UNCHANGED asked
    <2>1. /\ pusher = "constructing" /\ slots' = [slots EXCEPT ![Slot(tail)] = request]
          /\ tail' = tail + 1 /\ UNCHANGED <<head, popper, popped>>
      BY <1>4 DEF PushEnds, popVars
    <2>2. Queued \subseteq Queued'
      BY <2>1, <1>r, PushKeepsQueued
    <2>3. request \in Queued'
      <3>1. head \in Nat /\ tail \in Nat /\ head <= tail
            /\ slots \in [Slots -> Requests \cup {NULL, Torn}]
        BY <1>r DEF RingInv
      <3>2. slots'[Slot(tail)] = request /\ tail \in head' .. tail' - 1
        BY <2>1, <3>1, RingSlots
      <3> QED
        BY <3>2 DEF Queued
    <2> QED
      BY <2>1, <2>2, <2>3, <1>4, <1>a, <1>b
  <1>5. CASE PopReleases /\ asked' = popped /\ UNCHANGED request
    <2>1. popper = "copied" /\ head' = head + 1 /\ UNCHANGED <<tail, slots>>
      BY <1>5 DEF PopReleases, pushVars
    <2>2. popped = slots[Slot(head)] /\ head \in Nat /\ tail \in Nat
      BY <2>1, PoppedIsRequest DEF FeedInv, RingInv
    <2>3. r \in Queued => r \in Queued' \/ r = popped
      <3> SUFFICES ASSUME NEW i \in head .. tail - 1, r = slots[Slot(i)]
                   PROVE  r \in Queued' \/ r = popped
        BY DEF Queued
      <3>1. CASE i = head
        BY <3>1, <2>2
      <3>2. CASE i # head
        <4>1. i \in head' .. tail' - 1 /\ slots'[Slot(i)] = r
          BY <3>2, <2>1, <2>2
        <4> QED
          BY <4>1 DEF Queued
      <3> QED
        BY <3>1, <3>2
    <2> QED
      BY <2>3, <1>5, <1>a, <1>b
  <1> QED
    BY <1>1, <1>2, <1>3, <1>4, <1>5, RequestCases

\* The handler works on packet n, or somebody still has to ask for it.
InHand(n) == handler \in {"push", "validate", "claim"} /\ Packet = n
Requested(n) == \E r \in PendingRequests : n \in Asks(r)

\* A stop is never taken back.
LEMMA StopStays == ASSUME [Next]_vars PROVE stop' = stop \/ stop' = TRUE
  BY StepCases DEF RequestStop, vars, Listener, StartListener, ListenerChecks, Receive,
        ReceiveFails, ListenerFails, Handler, HandlerStops, TakePacket, PushRequest,
        RequestBufferFull, HandlerValidates, HandlerClaims, HandlerReturns, Client, Connect,
        ClientStops, PopRequest, SendRequest, NextMessage, ReceptionFails, ReceiveHeader,
        ClientAborts, ReceivePayload, ClientValidates, ClientClaims, ClientFails,
        Publisher, PublisherStops, Consume, Publish

\* Nor is a late copy, nor an abort.
LEMMA StillRuns ==
    ASSUME FeedInv, [Next]_vars, ~stop', ~lateCopy', Running'
    PROVE  ~stop /\ ~lateCopy /\ Running
  <1>1. ~stop
    BY StopStays, Zenon
  <1>2. ~lateCopy
    BY ReorderCases, Zenon DEF Fills
  <1>3. Running
    BY StepCases DEF vars, clientVars, Running
  <1> QED
    BY <1>1, <1>2, <1>3

\* The handler lets go of a packet once it is in the reorder buffer or past,
\* or it stops all.
LEMMA HandKeeps ==
    ASSUME FeedInv, [Next]_vars, ~stop', ~lateCopy, NEW n \in Nat, InHand(n)
    PROVE  InHand(n)' \/ Buffered(n)'
  <1>a. udp # <<>> /\ Packet = n /\ handler \in {"push", "validate", "claim"}
    BY DEF InHand, FeedInv, HandlerInv
  <1>1. CASE Listener
    <2>1. handler' = handler /\ Packet' = Packet
      BY <1>1, <1>a, ListenerAlone, HeadStays DEF handlerVars
    <2> QED
      BY <2>1, <1>a DEF InHand
  <1>2. CASE Client \/ Publisher \/ RequestStop \/ UNCHANGED vars
    <2>1. handler' = handler /\ udp' = udp
      BY <1>2, ClientAlone, PublisherAlone DEF RequestStop, vars, handlerVars
    <2> QED
      BY <2>1, <1>a DEF InHand, Packet
  <1>3. CASE HandlerStops \/ TakePacket \/ RequestBufferFull
    BY <1>3, <1>a DEF HandlerStops, TakePacket, RequestBufferFull, HandlerReturns
  <1>4. CASE PushRequest
    <2>1. handler' \in {"push", "validate"} /\ udp' = udp
      BY <1>4 DEF PushRequest
    <2> QED
      BY <2>1, <1>a DEF InHand, Packet
  <1>5. CASE HandlerValidates
    <2>1. readerIndex' = readerIndex /\ readerIndex \in Nat
      BY <1>5 DEF HandlerValidates, handlerOnly, publisherVars, FeedInv, PublishInv
    <2>2. CASE handler' = "claim" /\ udp' = udp
      BY <2>2, <1>a DEF InHand, Packet
    <2>3. CASE Verdict(Packet) = "AlreadyWritten"
      <3>1. n < readerIndex
        BY <2>3, <1>a DEF Verdict
      <3> QED
        BY <2>1, <3>1 DEF Buffered
    <2> QED
      BY <1>5, <2>2, <2>3 DEF HandlerValidates, HandlerReturns
  <1>6. CASE HandlerClaims
    BY <1>6, <1>a, HandlerFills, ClaimCovers
  <1> QED
    BY <1>1, <1>2, <1>3, <1>4, <1>5, <1>6, StepCases DEF Handler

\* What handle_request drops from the request it works on.
LEMMA AskedChanges ==
    ASSUME FeedInv, [Next]_vars, ~stop', ~stop, asked' # asked, asked \in Requests
    PROVE  \/ asked.first >= asked.last
           \/ client \in {"validate", "claim"} /\ Written
  <1>1. CASE Listener \/ Handler \/ Publisher \/ RequestStop \/ UNCHANGED vars
    BY <1>1, ListenerAlone, HandlerAlone, PublisherAlone DEF RequestStop, vars, clientVars
  <1>2. CASE Client
    <2>1. client # "run"
      BY RequestFacts DEF FeedInv, ClientInv
    <2>2. CASE NextMessage
      BY <2>2 DEF NextMessage
    <2>3. CASE ClientValidates \/ ClientClaims
      BY <2>3 DEF ClientValidates, ClientClaims, ClientFails
    <2>4. CASE Connect \/ ClientStops \/ SendRequest \/ ReceptionFails \/ ReceiveHeader
                \/ ClientAborts \/ ReceivePayload
      BY <2>4 DEF Connect, ClientStops, SendRequest, ReceptionFails, ReceiveHeader,
            ClientAborts, ReceivePayload, ClientFails
    <2> QED
      BY <1>2, <2>1, <2>2, <2>3, <2>4 DEF Client, PopRequest
  <1> QED
    BY <1>1, <1>2, StepCases

\* The message that handle_request goes on from has been written.
LEMMA WrittenCovers ==
    ASSUME FeedInv, [Next]_vars, ~stop', ~lateCopy, client \in {"validate", "claim"}, Written,
           NEW n \in Nat, n = asked.first
    PROVE  Buffered(n)'
  <1>c. client' = "loop"
    BY DEF Written
  <1>1. Client
    <2>1. ~(Listener \/ Handler \/ Publisher \/ RequestStop \/ UNCHANGED vars)
      BY <1>c, ListenerAlone, HandlerAlone, PublisherAlone DEF RequestStop, vars, clientVars
    <2> QED
      BY <2>1, StepCases
  <1>2. readerIndex' = readerIndex
    BY <1>1, ClientAlone DEF publisherVars
  <1>3. CASE ClientClaims
    BY <1>3, ClientFills, ClaimCovers
  <1>4. CASE ClientValidates
    <2>1. Verdict(asked.first) = "AlreadyWritten"
      BY <1>4, <1>c DEF ClientValidates, ClientFails
    <2>2. n < readerIndex
      BY <2>1 DEF Verdict
    <2> QED
      BY <2>2, <1>2 DEF Buffered
  <1> QED
    BY <1>1, <1>c, <1>3, <1>4 DEF Client, Connect, ClientStops, PopRequest, SendRequest,
          NextMessage, ReceptionFails, ReceiveHeader, ClientAborts, ReceivePayload

\* A packet that somebody has to ask for is asked for until it is written.
LEMMA RequestKeeps ==
    ASSUME FeedInv, [Next]_vars, ~stop', ~stop, ~lateCopy, NEW n \in Nat, Requested(n)
    PROVE  Requested(n)' \/ Buffered(n)'
  <1>1. PICK r \in PendingRequests : n \in Asks(r)
    BY DEF Requested
  <1>2. CASE r \in PendingRequests'
    BY <1>1, <1>2 DEF Requested, Asks
  <1>3. CASE r = asked /\ asked' # asked
    <2>1. asked \in Requests
      <3>1. asked # NULL
        BY <1>3 DEF PendingRequests
      <3> QED
        BY <3>1 DEF FeedInv, ClientInv
    <2>2. /\ asked.first \in Nat /\ asked.last \in Nat
          /\ asked.first <= n /\ n < asked.last
      <3>1. asked.first \in Nat /\ asked.last \in Nat
        BY <2>1, RequestFacts, PacketFacts
      <3> QED
        BY <1>1, <1>3, <3>1 DEF Asks
    <2>3. client \in {"validate", "claim"} /\ Written
      BY <2>1, <2>2, <1>3, AskedChanges
    <2>4. CASE n = asked.first
      BY <2>3, <2>4, WrittenCovers
    <2>5. CASE n # asked.first
      <3>1. asked' \in Requests /\ asked'.first = asked.first + 1 /\ asked'.last = asked.last
        BY <2>3, WrittenStep
      <3>2. n \in Asks(asked')
        BY <3>1, <2>2, <2>5 DEF Asks
      <3>3. asked' \in PendingRequests'
        BY <3>1, RequestFacts DEF PendingRequests
      <3> QED
        BY <3>2, <3>3 DEF Requested, Asks
    <2> QED
      BY <2>4, <2>5
  <1> QED
    BY <1>1, <1>2, <1>3, RequestsAreKept

\* has_gap counts the packet the handler takes and those it asks for.
LEMMA GapIsRequested ==
    ASSUME FeedInv, [Next]_vars, NEW n \in Nat, n > most_recent, n <= most_recent'
    PROVE  InHand(n)' \/ Requested(n)'
  <1>a. most_recent \in Nat
    BY Sizes DEF FeedInv, HandlerInv
  <1>1. TakePacket
    <2>1. most_recent' # most_recent
      BY <1>a
    <2> QED
      BY <2>1, StepCases, ListenerAlone, ClientAlone, PublisherAlone
         DEF RequestStop, vars, handlerVars, Handler, HandlerStops, PushRequest,
             RequestBufferFull, HandlerValidates, HandlerClaims
  <1> DEFINE p == Packet
  <1>2. /\ udp # <<>> /\ udp' = udp
        /\ request' = IF p > most_recent + 1 THEN Request(most_recent + 1, p) ELSE NULL
        /\ most_recent' = IF p > most_recent THEN p ELSE most_recent
        /\ handler' = IF p > most_recent + 1 THEN "push" ELSE "validate"
    BY <1>1 DEF TakePacket, has_gap
  <1>3. p \in Packets /\ p \in Nat /\ p <= LAST /\ Packet' = p /\ LAST \in Nat
    BY <1>2, PacketInRing, PacketFacts, Sizes DEF Packet
  <1> HIDE DEF p
  <1>4. n <= p
    BY <1>2, <1>3, <1>a
  <1>5. CASE n = p
    BY <1>2, <1>3, <1>5 DEF InHand
  <1>6. CASE n # p
    <2>1. p > most_recent + 1 /\ most_recent + 1 \in Packets /\ n < p /\ most_recent + 1 <= n
      BY <1>3, <1>4, <1>6, <1>a, PacketFacts
    <2>2. /\ request' = Request(most_recent + 1, p)
          /\ request' \in Requests /\ request'.first = most_recent + 1 /\ request'.last = p
      BY <2>1, <1>2, <1>3, RequestFacts
    <2>3. n \in Asks(request')
      BY <2>1, <2>2, <1>3, <1>a DEF Asks
    <2>4. request' \in PendingRequests'
      BY <2>2, RequestFacts DEF PendingRequests
    <2> QED
      BY <2>3, <2>4 DEF Requested, Asks
  <1> QED
    BY <1>5, <1>6

\* Every step hands a counted packet on to somebody.
LEMMA CoverStep == ASSUME FeedInv, [Next]_vars PROVE CoverInv'
  <1>1. \A n : Covered(n) <=> Buffered(n) \/ InHand(n) \/ Requested(n)
    BY DEF Covered, Buffered, InHand, Requested
  <1>2. \A n : Covered(n)' <=> Buffered(n)' \/ InHand(n)' \/ Requested(n)'
    BY DEF Covered, Buffered, InHand, Requested, PendingRequests, Packet, Asks, Queued
  <1> SUFFICES ASSUME ~stop', ~lateCopy', Running', NEW n \in 1 .. most_recent'
               PROVE  Covered(n)'
    BY DEF CoverInv
  <1>3. ~stop /\ ~lateCopy /\ Running
    BY StillRuns
  <1>4. most_recent \in Nat /\ n \in Nat /\ n <= most_recent' /\ n >= 1
    <2>1. most_recent \in Nat /\ most_recent' \in Nat
      BY HandlerStep, Sizes DEF FeedInv, HandlerInv
    <2> QED
      BY <2>1
  <1>5. CASE n <= most_recent
    <2>1. n \in 1 .. most_recent
      BY <1>4, <1>5
    <2>2. Covered(n)
      BY <2>1, <1>3 DEF FeedInv, CoverInv
    <2>3. Buffered(n) \/ InHand(n) \/ Requested(n)
      BY <2>2, <1>1
    <2> QED
      BY <2>3, <1>2, <1>3, <1>4, BufferKeeps, HandKeeps, RequestKeeps
  <1>6. CASE ~(n <= most_recent)
    <2>1. n > most_recent
      BY <1>4, <1>6
    <2> QED
      BY <2>1, <1>2, <1>4, GapIsRequested
  <1> QED
    BY <1>5, <1>6

-----------------------------------------------------------------------------
(* The theorems. *)

\* The inductive invariant holds of every step of the four threads.
THEOREM FeedInvariant == Spec => []FeedInv
  <1>1. Init => FeedInv
    BY FeedInit
  <1>2. FeedInv /\ [Next]_vars => FeedInv'
    <2> SUFFICES ASSUME FeedInv, [Next]_vars PROVE FeedInv'
      OBVIOUS
    <2>1. stop' \in BOOLEAN
      <3>1. stop \in BOOLEAN
        BY DEF FeedInv
      <3>2. stop' = stop \/ stop' = TRUE
        BY StopStays, Zenon
      <3> QED
        BY <3>1, <3>2, Zenon
    <2> QED
      BY <2>1, RingStep, ListenerStep, HandlerStep, ClientStep, WindowStep, PublishStep,
         OnePlaceStep, CoverStep DEF FeedInv
  <1> QED
    BY <1>1, <1>2, PTL DEF Spec

\* TypeOK: the client of the request ring pops whole requests, and the UDP
\* ring and the request ring never hold more than they have room for.
THEOREM FeedTyped == Spec => []TypeOK
  <1>1. FeedInv => TypeOK
    <2> SUFFICES ASSUME FeedInv PROVE TypeOK
      OBVIOUS
    <2>1. tail - head \in 0 .. CAPACITY
      <3>1. /\ head \in Nat /\ tail \in Nat /\ seenHead \in Nat /\ seenTail \in Nat
            /\ seenHead <= head /\ head <= seenTail /\ seenTail <= tail
            /\ tail - seenHead <= CAPACITY /\ CAPACITY \in Nat
        BY Sizes DEF FeedInv, RingInv
      <3> QED
        BY <3>1
    <2>2. popped \in Requests \cup {NULL}
      BY PoppedIsRequest DEF FeedInv, RingInv
    <2>3. \A s \in DOMAIN reorder : reorder[s] \in Packets \cup {NULL, Garbled}
      BY DEF FeedInv, WindowInv, Contents
    <2> QED
      BY <2>1, <2>2, <2>3 DEF TypeOK, FeedInv, RingInv, ListenerInv, HandlerInv, ClientInv,
            WindowInv, PublishInv, Contents
  <1> QED
    BY <1>1, FeedInvariant, PTL

\* PublishedInOrder: whatever the network does, message i is the i-th event,
\* save one payload that the server's error header completes and packets of an
\* earlier lap that a writer wrote too late.
THEOREM FeedPublishesInOrder == Spec => []PublishedInOrder
  <1>1. FeedInv => PublishedInOrder
    <2> SUFFICES ASSUME FeedInv PROVE PublishedInOrder
      OBVIOUS
    <2>1. \A i \in 1 .. Len(published) :
             \/ published[i] \in {i, Garbled}
             \/ lateCopy /\ published[i] < i
                  /\ ReorderSlot(published[i]) = ReorderSlot(i)
      BY DEF FeedInv, PublishInv, InPlace
    <2> DEFINE S == {i \in 1 .. Len(published) : published[i] = Garbled}
    <2>2. Cardinality(S) <= 1
      <3>1. \A i, j \in S : i = j
        BY DEF FeedInv, OnePlaceInv
      <3> HIDE DEF S
      <3>2. CASE S = {}
        BY <3>2, FS_EmptySet
      <3>3. CASE S # {}
        <4>1. PICK i : i \in S
          BY <3>3
        <4>2. S = {i}
          BY <3>1, <4>1
        <4>3. Cardinality(S) = 1
          BY <4>2, FS_Singleton, Zenon
        <4> QED
          BY <4>3
      <3> QED
        BY <3>2, <3>3
    <2> QED
      BY <2>1, <2>2 DEF PublishedInOrder
  <1> QED
    BY <1>1, FeedInvariant, PTL

\* NothingIsLost: the gap detector may move on before anybody has asked for
\* what is missing, because from then on one of the three writers or a request
\* under way stands for each packet it has counted.
THEOREM FeedLosesNothing == Spec => []NothingIsLost
  <1>1. FeedInv => NothingIsLost
    BY DEF FeedInv, CoverInv, Covered, NothingIsLost
  <1> QED
    BY <1>1, FeedInvariant, PTL
=============================================================================
