------------------------- MODULE MarketDataHandler -------------------------
(***************************************************************************)
(* The market data handler and its four threads (market-data-handler.cpp). *)
(*   listener    udp-listener.cpp: datagrams into the UDP ring             *)
(*   handler     run: UDP ring -> gap detector -> reorder buffer, and a    *)
(*               request for what is missing into the request ring         *)
(*   client      tcp-client.cpp: request ring -> retransmit server ->      *)
(*               reorder buffer                                            *)
(*   publisher   publisher.hpp: reorder buffer -> event ring               *)
(* Whoever fails requests the stop of all.                                 *)
(*                                                                         *)
(* The request ring is SharedRingBuffer, step by step.  The UDP ring is a  *)
(* LazyRingBuffer and stands here as the bounded FIFO that one implements; *)
(* the event ring, another, may be full for a while at any time.  The      *)
(* steps inside the reorder buffer are those of ReorderBuffer, as coarse   *)
(* as the other threads can tell: a writer's load of the reader index and  *)
(* its claim are apart; Locked and Ready look the same to the other        *)
(* writer, and a reader between its copy and its release looks like one    *)
(* that has not copied yet.                                                *)
(*                                                                         *)
(* Message n of the exchange is the number n.  External: the network,      *)
(* which may lose, delay, reorder and duplicate datagrams; the retransmit  *)
(* server (RetransmitServer); the drainer of the event ring.  Assertions   *)
(* are on, as in the debug build: a failed one ends the process.           *)
(***************************************************************************)
EXTENDS SharedRingBuffer, Sequences, FiniteSets

CONSTANTS UDP_PACKET_BUFFER_SIZE,
          REORDER_BUFFER_SIZE,
          LAST,             \* bound: messages of the exchange
          MaxDatagrams,     \* bound: datagrams that reach the listener
          Garbled           \* a payload whose end is a server's error header

FIRST_SEQUENCE_ID == 1
MAX_INDEX_AHEAD == REORDER_BUFFER_SIZE - 1

Packets == FIRST_SEQUENCE_ID .. LAST
Requests == [first : Packets, last : Packets]

ASSUME HandlerAssumption ==
    /\ {UDP_PACKET_BUFFER_SIZE, REORDER_BUFFER_SIZE} \subseteq Nat \ {0}
    /\ LAST \in Nat \ {0} /\ MaxDatagrams \in Nat
\* The markers are neither packets nor requests.
ASSUME MarkersAssumption ==
    /\ Garbled \notin Nat \cup {Torn, NULL}
    /\ NULL \notin Nat \cup Requests
    /\ Torn \notin Requests

VARIABLES stop,         \* stop_source_
          listener,     \* where each thread is
          handler,
          client,
          publisher,
          arrivals,     \* history: how many datagrams have arrived
          udp,          \* udp_packet_buffer_
          most_recent,  \* gap_detector_.most_recent_packet_id
          request,      \* the handler's local `request'
          asked,        \* the request handle_request works on
          payload,      \* the payload handle_request has received
          connection,   \* of the client: "none", "open" or "closed"
          reorder,      \* reorder_buffer_: the packet in each slot, or NULL
          readerIndex,  \* reader_index_
          item,         \* the publisher's local `result'
          published,    \* history: every event put into the event ring
          lateCopy      \* history: a packet was written after its turn

handlerVars == <<handler, most_recent, request>>
clientVars == <<client, asked, payload, connection>>
reorderVars == <<reorder, lateCopy>>
publisherVars == <<publisher, readerIndex, item, published>>
vars == <<ringVars, stop, listener, arrivals, udp, handlerVars, clientVars,
          reorderVars, publisherVars>>

ReorderSlot(n) == n % REORDER_BUFFER_SIZE
Request(first, last) == [first |-> first, last |-> last]
Asks(r) == r.first .. r.last - 1

Init == /\ RingInit
        /\ stop = FALSE
        /\ listener = "start" /\ handler = "run" /\ client = "connect"
        /\ publisher = "run"
        /\ arrivals = 0
        /\ udp = <<>>
        /\ most_recent = FIRST_SEQUENCE_ID - 1
        /\ request = NULL /\ asked = NULL /\ payload = NULL
        /\ connection = "none"
        /\ reorder = [s \in 0 .. REORDER_BUFFER_SIZE - 1 |-> NULL]
        /\ readerIndex = FIRST_SEQUENCE_ID
        /\ item = NULL /\ published = <<>>
        /\ lateCopy = FALSE

-----------------------------------------------------------------------------
(* RealTimeListener; launch_real_time_listener turns an error into a stop. *)

listenerOnly == UNCHANGED <<ringVars, handlerVars, clientVars, reorderVars,
                            publisherVars>>

ListenerFails == listener' = "done" /\ stop' = TRUE

\* initialize: socket, options, bind, multicast membership
StartListener ==
    /\ listener = "start"
    /\ \/ listener' = "check" /\ UNCHANGED stop
       \/ ListenerFails
    /\ UNCHANGED <<arrivals, udp>> /\ listenerOnly

\* The loop condition and try_get_head_ref.
ListenerChecks ==
    /\ listener = "check"
    /\ \/ stop /\ listener' = "done" /\ UNCHANGED stop
       \/ ~stop /\ Len(udp) = UDP_PACKET_BUFFER_SIZE /\ ListenerFails
       \/ ~stop /\ Len(udp) < UDP_PACKET_BUFFER_SIZE
            /\ listener' = "recv" /\ UNCHANGED stop
    /\ UNCHANGED <<arrivals, udp>> /\ listenerOnly

\* recv() returns a datagram of the feed: the next one or any other.
Receive(n) ==
    /\ listener = "recv"
    /\ arrivals < MaxDatagrams
    /\ arrivals' = arrivals + 1
    /\ \/ stop /\ listener' = "done" /\ UNCHANGED udp
       \/ ~stop /\ listener' = "check" /\ udp' = Append(udp, n)
    /\ UNCHANGED stop /\ listenerOnly

ReceiveFails ==
    /\ listener = "recv" /\ ListenerFails
    /\ UNCHANGED <<arrivals, udp>> /\ listenerOnly

-----------------------------------------------------------------------------
(* reorder_buffer_.try_write_to *)

\* What validate_and_claim_slot makes of index n when it loads reader_index_.
Verdict(n) ==
    CASE n >= readerIndex + MAX_INDEX_AHEAD -> "TooFar"
      [] n < readerIndex -> "AlreadyWritten"
      [] OTHER -> "Claim"

\* try_claim_slot, and the data if the slot was Empty.
ClaimAndFill(n, data) ==
    \/ /\ reorder[ReorderSlot(n)] = NULL
       /\ reorder' = [reorder EXCEPT ![ReorderSlot(n)] = data]
       /\ lateCopy' = (lateCopy \/ n < readerIndex)
    \/ /\ reorder[ReorderSlot(n)] # NULL
       /\ UNCHANGED reorderVars

-----------------------------------------------------------------------------
(* MarketDataHandler::run.  The packet stays at the head of the UDP ring    *)
(* while the handler works on it; run returns into start, which stops all.  *)

handlerOnly == UNCHANGED <<listener, arrivals, clientVars, publisherVars>>

Packet == Head(udp)
HandlerReturns == handler' = "done" /\ stop' = TRUE

\* Mutant: the wait for a packet does not look at the stop token.
HandlerStopsAtPacket ==
    /\ handler = "run" /\ stop /\ udp # <<>>
    /\ HandlerReturns
    /\ UNCHANGED <<ringVars, udp, most_recent, request, reorderVars>>
    /\ handlerOnly

HandlerStops ==
    /\ handler = "run" /\ stop
    /\ HandlerReturns
    /\ UNCHANGED <<ringVars, udp, most_recent, request, reorderVars>>
    /\ handlerOnly

\* Mutant: the request starts at the last packet that came, and ends before
\* the last one that is missing.
has_gap_off_by_one(n) ==
    /\ request' = IF n > most_recent + 1 THEN Request(most_recent, n - 1) ELSE NULL
    /\ most_recent' = IF n > most_recent THEN n ELSE most_recent

\* GapDetector::has_gap
has_gap(n) ==
    /\ request' = IF n > most_recent + 1 THEN Request(most_recent + 1, n) ELSE NULL
    /\ most_recent' = IF n > most_recent THEN n ELSE most_recent

TakePacket ==
    /\ handler = "run" /\ ~stop /\ udp # <<>>
    /\ has_gap(Packet)
    /\ handler' = IF Packet > most_recent + 1 THEN "push" ELSE "validate"
    /\ UNCHANGED <<ringVars, stop, udp, reorderVars>> /\ handlerOnly

\* Mutant: a request that finds the ring full is dropped.
DropRequest ==
    /\ handler = "push" /\ pusher = "full"
    /\ handler' = "validate" /\ pusher' = "idle" /\ request' = NULL
    /\ UNCHANGED <<head, tail, slots, seenHead, popVars, stop, udp, most_recent,
                   reorderVars>>
    /\ handlerOnly

\* RetransmitRequestBufferFull
RequestBufferFull ==
    /\ handler = "push" /\ pusher = "full"
    /\ HandlerReturns
    /\ UNCHANGED <<ringVars, udp, most_recent, request, reorderVars>>
    /\ handlerOnly

PushRequest ==
    /\ handler = "push"
    /\ \/ PushTest /\ UNCHANGED <<handler, request>>
       \/ PushBegins /\ UNCHANGED <<handler, request>>
       \/ PushEnds(request) /\ handler' = "validate" /\ request' = NULL
    /\ UNCHANGED <<stop, udp, most_recent, reorderVars>> /\ handlerOnly

\* write_market_data_to_reorder_buffer, then consume()
HandlerValidates ==
    /\ handler = "validate"
    /\ \/ Verdict(Packet) = "Claim"
            /\ handler' = "claim" /\ UNCHANGED <<udp, stop>>
       \/ Verdict(Packet) = "AlreadyWritten"
            /\ handler' = "run" /\ udp' = Tail(udp) /\ UNCHANGED stop
       \/ Verdict(Packet) = "TooFar"
            /\ HandlerReturns /\ udp' = Tail(udp)
    /\ UNCHANGED <<ringVars, most_recent, request, reorderVars>>
    /\ handlerOnly

HandlerClaims ==
    /\ handler = "claim"
    /\ ClaimAndFill(Packet, Packet)
    /\ handler' = "run" /\ udp' = Tail(udp)
    /\ UNCHANGED <<ringVars, stop, most_recent, request>> /\ handlerOnly

Handler == \/ HandlerStops \/ TakePacket \/ PushRequest \/ RequestBufferFull
           \/ HandlerValidates \/ HandlerClaims

-----------------------------------------------------------------------------
(* RetransmitListener; launch_retransmit_client turns an error into a stop. *)

clientOnly == UNCHANGED <<listener, arrivals, udp, handlerVars, publisherVars>>

ClientFails == /\ client' = "done" /\ stop' = TRUE
               /\ asked' = NULL /\ payload' = NULL

\* initialize_and_connect
Connect ==
    /\ client = "connect"
    /\ \/ client' = "run" /\ connection' = "open"
            /\ UNCHANGED <<stop, asked, payload>>
       \/ ClientFails /\ UNCHANGED connection
    /\ UNCHANGED <<ringVars, reorderVars>> /\ clientOnly

ClientStops ==
    /\ client = "run" /\ popper = "idle" /\ stop
    /\ client' = "done"
    /\ UNCHANGED <<ringVars, stop, asked, payload, connection, reorderVars>>
    /\ clientOnly

\* wait_pop
PopRequest ==
    /\ client = "run"
    /\ \/ ~stop /\ PopTest /\ UNCHANGED <<client, asked>>
       \/ PopCopies /\ UNCHANGED <<client, asked>>
       \/ PopReleases /\ client' = "send" /\ asked' = popped
    /\ UNCHANGED <<stop, payload, connection, reorderVars>> /\ clientOnly

\* send_request_to_server; a send into a connection the peer has closed may
\* still succeed.
SendRequest ==
    /\ client = "send"
    /\ \/ client' = "loop" /\ UNCHANGED <<stop, asked, payload>>
       \/ ClientFails
    /\ UNCHANGED <<ringVars, connection, reorderVars>> /\ clientOnly

\* The condition of handle_request's loop.  The rest of the request is
\* abandoned when a stop was requested.
NextMessage ==
    /\ client = "loop"
    /\ \/ asked.first < asked.last /\ ~stop /\ client' = "header"
            /\ UNCHANGED asked
       \/ (asked.first >= asked.last \/ stop) /\ client' = "run" /\ asked' = NULL
    /\ UNCHANGED <<ringVars, stop, payload, connection, reorderVars>>
    /\ clientOnly

\* The connection ends, fails, or carries an error message (sequence 0).
ReceptionFails ==
    /\ client \in {"header", "payload"}
    /\ ClientFails
    /\ UNCHANGED <<ringVars, connection, reorderVars>> /\ clientOnly

\* receive_and_decode_header: the next message asked for.
ReceiveHeader ==
    /\ client = "header" /\ connection = "open"
    /\ client' = "payload"
    /\ UNCHANGED <<ringVars, stop, asked, payload, connection, reorderVars>>
    /\ clientOnly

\* The server cut its last message inside the header, and put the header of
\* its error message behind it: a number that is not 0 with no payload, which
\* receive_payload asserts against.
ClientAborts ==
    /\ client = "header" /\ connection = "open"
    /\ client' = "aborted"
    /\ UNCHANGED <<ringVars, stop, asked, payload, connection, reorderVars>>
    /\ clientOnly

\* receive_payload.  Where the server cut the message inside the last bytes of
\* the payload, its error header completes it; nothing follows.
ReceivePayload ==
    /\ client = "payload"
    /\ client' = "validate"
    /\ \/ payload' = asked.first /\ UNCHANGED connection
       \/ payload' = Garbled /\ connection' = "closed"
    /\ UNCHANGED <<ringVars, stop, asked, reorderVars>> /\ clientOnly

Written == /\ client' = "loop" /\ payload' = NULL
           /\ asked' = [asked EXCEPT !.first = @ + 1]

ClientValidates ==
    /\ client = "validate"
    /\ \/ Verdict(asked.first) = "Claim"
            /\ client' = "claim" /\ UNCHANGED <<asked, payload, stop>>
       \/ Verdict(asked.first) = "AlreadyWritten"
            /\ Written /\ UNCHANGED stop
       \/ Verdict(asked.first) = "TooFar"
            /\ ClientFails
    /\ UNCHANGED <<ringVars, connection, reorderVars>> /\ clientOnly

ClientClaims ==
    /\ client = "claim"
    /\ ClaimAndFill(asked.first, payload)
    /\ Written
    /\ UNCHANGED <<ringVars, stop, connection>> /\ clientOnly

Client == \/ Connect \/ ClientStops \/ PopRequest \/ SendRequest \/ NextMessage
          \/ ReceptionFails \/ ReceiveHeader \/ ClientAborts \/ ReceivePayload
          \/ ClientValidates \/ ClientClaims

-----------------------------------------------------------------------------
(* MarketEventPublisher; launch_market_publisher stops all when it returns. *)

publisherOnly == UNCHANGED <<ringVars, listener, arrivals, udp, handlerVars,
                             clientVars, lateCopy>>

PublisherStops ==
    /\ publisher \in {"run", "slot"} /\ stop
    /\ publisher' = "done" /\ item' = NULL /\ stop' = TRUE
    /\ UNCHANGED <<reorder, readerIndex, published>>
    /\ publisherOnly

\* Mutant: the slot is not emptied.
ConsumeAndKeep ==
    /\ publisher = "run" /\ ~stop
    /\ reorder[ReorderSlot(readerIndex)] # NULL
    /\ item' = reorder[ReorderSlot(readerIndex)]
    /\ readerIndex' = readerIndex + 1
    /\ publisher' = "slot"
    /\ UNCHANGED <<stop, reorder, published>> /\ publisherOnly

\* wait_consume_next
Consume ==
    /\ publisher = "run" /\ ~stop
    /\ reorder[ReorderSlot(readerIndex)] # NULL
    /\ item' = reorder[ReorderSlot(readerIndex)]
    /\ readerIndex' = readerIndex + 1
    /\ reorder' = [reorder EXCEPT ![ReorderSlot(readerIndex)] = NULL]
    /\ publisher' = "slot"
    /\ UNCHANGED <<stop, published>> /\ publisherOnly

\* wait_get_head_ref finds a free slot; decode and publish.
Publish ==
    /\ publisher = "slot"
    /\ published' = Append(published, item) /\ item' = NULL
    /\ publisher' = "run"
    /\ UNCHANGED <<stop, reorder, readerIndex>> /\ publisherOnly

Publisher == PublisherStops \/ Consume \/ Publish

-----------------------------------------------------------------------------
\* The external stop token's callback.
RequestStop ==
    /\ ~stop /\ stop' = TRUE
    /\ UNCHANGED <<ringVars, listener, arrivals, udp, handlerVars, clientVars,
                   reorderVars, publisherVars>>

Running == client # "aborted"

\* The client is inside recv(), which has no timeout and sees no stop.
Waiting == client \in {"header", "payload"}

\* abort() has ended the process, or a stop was requested: StopEndsThreads says
\* which threads go on to their end.
Ended == (stop \/ ~Running) /\ UNCHANGED vars

Listener == StartListener \/ ListenerChecks \/ ReceiveFails
              \/ \E n \in Packets : Receive(n)

Next == \/ Running /\ (Listener \/ Handler \/ Client \/ Publisher \/ RequestStop)
        \/ Ended

Spec == Init /\ [][Next]_vars

\* Every thread keeps running, and the order book engine drains the event ring.
\* Nothing makes a datagram arrive, nor the server answer or close: a client it
\* has no connection left for stays in its listen queue (tcp-retransmit.cpp:123).
FairSpec == /\ Spec
            /\ WF_vars(Running /\ (StartListener \/ ListenerChecks))
            /\ WF_vars(Running /\ Handler)
            /\ WF_vars(Running /\ ~Waiting /\ Client)
            /\ WF_vars(Running /\ Publisher)

-----------------------------------------------------------------------------
\* Every variable has its type.  What the client pops is a whole request and
\* never the Torn bytes of one, and no ring holds more than it has room for.
TypeOK ==
    /\ tail - head \in 0 .. CAPACITY
    /\ slots \in [Slots -> Requests \cup {NULL, Torn}]
    /\ popped \in Requests \cup {NULL}
    /\ pusher \in {"idle", "room", "constructing", "full"}
    /\ popper \in {"idle", "item", "copied"}
    /\ stop \in BOOLEAN
    /\ listener \in {"start", "check", "recv", "done"}
    /\ handler \in {"run", "push", "validate", "claim", "done"}
    /\ client \in {"connect", "run", "send", "loop", "header", "payload",
                   "validate", "claim", "done", "aborted"}
    /\ publisher \in {"run", "slot", "done"}
    /\ arrivals \in 0 .. MaxDatagrams
    /\ udp \in Seq(Packets) /\ Len(udp) <= UDP_PACKET_BUFFER_SIZE
    /\ handler \in {"push", "validate", "claim"} => udp # <<>>
    /\ most_recent \in 0 .. LAST
    /\ request \in Requests \cup {NULL}
    /\ asked \in Requests \cup {NULL}
    /\ payload \in Packets \cup {NULL, Garbled}
    /\ connection \in {"none", "open", "closed"}
    /\ \A s \in DOMAIN reorder : reorder[s] \in Packets \cup {NULL, Garbled}
    /\ readerIndex \in Nat
    /\ item \in Packets \cup {NULL, Garbled}
    /\ published \in Seq(Packets \cup {Garbled})
    /\ lateCopy \in BOOLEAN

\* The requests under way: being pushed, in the ring, being popped, in hand.
PendingRequests ==
    (Queued \cup {request, asked} \cup (IF popper = "copied" THEN {popped} ELSE {}))
        \ {NULL, Torn}

\* A packet the gap detector has counted is never forgotten while the handler
\* runs: the publisher has had it, it is in the reorder buffer, the handler is
\* about to write it, or somebody still has to ask for it.  The detector moves
\* most_recent_packet_id on before any of that has happened
\* (gap-detector.cpp:10) and never looks back, so what is lost here is lost.
NothingIsLost ==
    ~stop /\ ~lateCopy /\ Running =>
        \A n \in 1 .. most_recent :
           \/ n < readerIndex
           \/ reorder[ReorderSlot(n)] \in {n, Garbled}
           \/ handler \in {"push", "validate", "claim"} /\ Packet = n
           \/ \E r \in PendingRequests : n \in Asks(r)

\* The events come out in the order of their numbers, none missing and none
\* twice, from whichever of the two feeds: message i is the i-th event.  Two
\* things get past the reorder buffer: one payload whose last bytes are the
\* server's error header (notify_and_close, tcp-retransmit.cpp:66), and a
\* packet of an earlier lap of the ring, written after its turn.
PublishedInOrder ==
    /\ \A i \in 1 .. Len(published) :
         \/ published[i] \in {i, Garbled}
         \/ lateCopy /\ published[i] < i
              /\ ReorderSlot(published[i]) = ReorderSlot(i)
    /\ Cardinality({i \in 1 .. Len(published) : published[i] = Garbled}) <= 1

\* A gap does not hold the feed up for ever: the publisher catches up with all
\* that the detector has counted, or the handler gives up, unless the server
\* leaves the client without an answer.
GapsAreFilled ==
    \/ []<>(readerIndex > most_recent \/ stop \/ lateCopy \/ ~Running)
    \/ <>[]Waiting

\* A stop, whoever requested it, ends all threads for good except those inside
\* recv(): joining the listener (market-data-handler.cpp:94) takes one more
\* datagram, joining the client an answer or the end of its connection, and no
\* other thread is kept by theirs.
StopEndsThreads ==
    <>stop => <>[](\/ ~Running
                   \/ /\ handler = "done" /\ publisher = "done"
                      /\ listener \in {"done", "recv"}
                      /\ client = "done" \/ Waiting)
=============================================================================
