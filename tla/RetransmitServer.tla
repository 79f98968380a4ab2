-------------------------- MODULE RetransmitServer --------------------------
(***************************************************************************)
(* The exchange's recovery path.                                           *)
(*   exchange thread   sequence a message, cache it, broadcast it          *)
(*                     (exchange-simulator.cpp run, sequencer.hpp)         *)
(*   server thread     tcp-retransmit.cpp: one kqueue loop that accepts    *)
(*                     clients, receives requests [first, last) and        *)
(*                     streams the cached messages (tcp-connection.hpp)    *)
(*   clients           market data handlers that ask for messages older    *)
(*                     than one they were sent, one request at a time      *)
(*                     (tcp-client.cpp), and that may vanish at any time   *)
(* Whoever of the first two cannot start, fails or returns stops both.     *)
(* A request and a message are two halves each, so that both may be cut    *)
(* anywhere by a socket that has no more to give or to take.               *)
(***************************************************************************)
EXTENDS CircularCache, BinaryProtocol, Sequences, FiniteSets

CONSTANTS Sockets,                  \* descriptors accept() may return
          MAX_TOTAL_CONNECTIONS,    \* the listener included
          LAST,                     \* bound: messages the exchange sends
          MaxAsk,                   \* bound: messages asked for at once
          MaxConnects,              \* bound: connections ever attempted
          NULL

FIRST_SEQUENCE_ID == 1

ASSUME ServerAssumption ==
    /\ IsFiniteSet(Sockets)
    /\ NULL \notin Sockets /\ NULL \notin [first : 0 .. LAST, last : 0 .. LAST]
    /\ MAX_TOTAL_CONNECTIONS \in Nat \ {0}
    /\ LAST \in Nat /\ MaxAsk \in Nat /\ MaxConnects \in Nat
    /\ LAST < BYTE ^ ID_BYTES

VARIABLES exchange,     \* where the exchange thread is: "start", "run" or "done"
          counter,      \* sequencer_counter_
          announced,    \* the newest message a client may have seen
          conn,         \* connection_buffers: [open, status, packet, sent,
                        \*   got, request] per descriptor
          current_connections,
          batch,        \* events of the last kevent() not handled yet
          server,       \* where the server thread is
          client,       \* the descriptor handle_request runs for
          item,         \* the message try_get_item loaded
          net,          \* kernel and client side of a descriptor: [peer,
                        \*   ask, wire, arrived, armed, out]
          left,         \* history: what a client whose connection was closed
                        \*   since the last kevent() had asked for and got
          pending,      \* connections in the listen queue
          connects,     \* history: connections attempted
          stop          \* stop_token.stop_requested()

exchangeVars == <<cacheVars, exchange, counter, announced>>
vars == <<exchangeVars, conn, current_connections, batch, server, client, item,
          net, left, pending, connects, stop>>

\* A Connection that holds no socket: buffer cleared, no request.
ClosedConnection == [open |-> FALSE, status |-> "Clear", packet |-> NULL,
                     sent |-> 0, got |-> 0, request |-> NULL]
NoPeer == [peer |-> "none", ask |-> NULL, wire |-> 0, arrived |-> 0,
           armed |-> FALSE, out |-> <<>>]
Nothing == [ask |-> NULL, out |-> <<>>]

Init == /\ CacheInit
        /\ exchange = "start"
        /\ counter = FIRST_SEQUENCE_ID /\ announced = 0
        /\ conn = [s \in Sockets |-> ClosedConnection]
        /\ current_connections = 0
        /\ batch = <<>> /\ server = "start" /\ client = NULL /\ item = NULL
        /\ net = [s \in Sockets |-> NoPeer]
        /\ left = [s \in Sockets |-> Nothing]
        /\ pending = 0 /\ connects = 0
        /\ stop = FALSE

serverUnchanged == UNCHANGED <<conn, current_connections, batch, server, client,
                               item, left>>

-----------------------------------------------------------------------------
(* ExchangeSimulator::run; start() requests a stop when it returns. *)

elsewhereUnchanged == serverUnchanged /\ UNCHANGED <<net, pending, connects, stop>>

\* run has returned into start.
ExchangeReturns == exchange' = "done" /\ stop' = TRUE

\* Broadcaster::start, which may fail.
StartExchange ==
    /\ exchange = "start"
    /\ \/ exchange' = "run" /\ UNCHANGED stop
       \/ ExchangeReturns
    /\ UNCHANGED <<cacheVars, counter, announced, net, pending, connects>>
    /\ serverUnchanged

\* The loop condition, or the wait for an event, sees the stop.
ExchangeStops ==
    /\ exchange = "run" /\ putter = "idle" /\ stop
    /\ ExchangeReturns
    /\ UNCHANGED <<cacheVars, counter, announced, net, pending, connects>>
    /\ serverUnchanged

GenerateMessage ==
    /\ exchange = "run" /\ ~stop /\ counter <= LAST
    /\ LockSlot
    /\ counter' = counter + 1
    /\ UNCHANGED <<exchange, announced>> /\ elsewhereUnchanged

CacheMessage ==
    /\ StoreItem(counter - 1) \/ ReleaseSlot
    /\ UNCHANGED <<exchange, counter, announced>> /\ elsewhereUnchanged

\* Broadcaster::send.  A datagram the socket does not take, or the network
\* loses, is not sent again: fewer clients see it, and no client has to ask.
Broadcast ==
    /\ putter = "put"
    /\ putter' = "idle"
    /\ announced' = counter - 1
    /\ UNCHANGED <<write_index, sequence, buffer, exchange, counter>> /\ elsewhereUnchanged

-----------------------------------------------------------------------------
(* The clients and the kernel. *)

\* There is somebody to connect to, or to be connected with.
Listening == server \notin {"start", "done", "aborted"}

Connect ==
    /\ Listening
    /\ connects < MaxConnects
    /\ connects' = connects + 1
    /\ pending' = pending + 1
    /\ UNCHANGED <<exchangeVars, net, stop>> /\ serverUnchanged

\* The halves of the answer to a request.
Answer(request) ==
    [k \in 1 .. 2 * (request.last - request.first) |->
        [packet |-> request.first + ((k - 1) \div 2), half |-> 1 + ((k - 1) % 2)]]

Answered(s) == net[s].ask # NULL /\ net[s].out = Answer(net[s].ask)

\* A gap was found in front of message `last': ask for what is missing, from
\* message 1 on or, as the server guards against, from 0.  The client waits for
\* one answer before it asks again.
Ask(s, first, last) ==
    /\ net[s].peer = "connected"
    /\ net[s].ask = NULL \/ Answered(s)
    /\ first < last /\ last <= announced /\ last - first <= MaxAsk
    /\ net' = [net EXCEPT ![s].ask = [first |-> first, last |-> last],
                          ![s].wire = 2, ![s].out = <<>>]
    /\ UNCHANGED <<exchangeVars, pending, connects, stop>> /\ serverUnchanged

Arrive(s) ==
    /\ net[s].wire > 0
    /\ net' = [net EXCEPT ![s].wire = @ - 1, ![s].arrived = @ + 1]
    /\ UNCHANGED <<exchangeVars, pending, connects, stop>> /\ serverUnchanged

Vanish(s) ==
    /\ net[s].peer = "connected"
    /\ net' = [net EXCEPT ![s].peer = "gone", ![s].wire = 0]
    /\ UNCHANGED <<exchangeVars, pending, connects, stop>> /\ serverUnchanged

-----------------------------------------------------------------------------
(* RetransmitServer::start and run_event_loop; launch_retransmit_server    *)
(* requests a stop when the server returns.                                *)

ServerReturns == server' = "done" /\ stop' = TRUE

\* initialize, listen, and on to the event loop
StartServer ==
    /\ server = "start"
    /\ server' = "loop" /\ current_connections' = 1
    /\ UNCHANGED <<exchangeVars, conn, batch, client, item, net, left, pending,
                   connects, stop>>

\* There is no listener, or no event queue for it, or listen() fails.
StartServerFails ==
    /\ server = "start"
    /\ ServerReturns /\ current_connections' \in {0, 1}
    /\ UNCHANGED <<exchangeVars, conn, batch, client, item, net, left, pending,
                   connects>>

Listener == [kind |-> "accept", socket |-> NULL]
ReadOf(s) == [kind |-> "read", socket |-> s]
WriteOf(s) == [kind |-> "write", socket |-> s]

\* The listener and read filters are level-triggered, the write filter fires
\* once.  An armed write filter fires when there is room or the peer is gone.
ReadyEvents ==
    (IF pending > 0 THEN {Listener} ELSE {})
        \cup {ReadOf(s) : s \in {t \in Sockets : conn[t].open
                             /\ (net[t].arrived > 0 \/ net[t].peer = "gone")}}
        \cup {WriteOf(s) : s \in {t \in Sockets : net[t].armed}}

\* kevent() returns some of them, in any order; two are enough to see one
\* event of a batch undo what the next one is about.
Batches == {<<e>> : e \in ReadyEvents}
             \cup {<<e, f>> : e, f \in ReadyEvents}

WaitForEvents ==
    /\ server = "loop" /\ batch = <<>> /\ ~stop
    /\ \E b \in Batches :
         /\ IsInjective(b)
         /\ batch' = b
         /\ net' = [s \in Sockets |-> [net[s] EXCEPT !.armed =
                       @ /\ WriteOf(s) \notin ToSet(b)]]
    /\ left' = [s \in Sockets |-> Nothing]
    /\ UNCHANGED <<exchangeVars, conn, current_connections, server, client, item,
                   pending, connects, stop>>

EventFor(kinds) == server = "loop" /\ batch # <<>> /\ Head(batch).kind \in kinds

\* The check at the top of get_connected_socket; accept() would block.
CanAccept == pending > 0 /\ current_connections < MAX_TOTAL_CONNECTIONS

\* One round of the loop of handle_new_connections.  A connection that cannot
\* be made nonblocking or registered is closed again, and the loop goes on.
AcceptOne ==
    /\ EventFor({"accept"}) /\ CanAccept
    /\ pending' = pending - 1
    /\ \/ \E s \in Sockets :
            /\ ~conn[s].open
            /\ conn' = [conn EXCEPT ![s].open = TRUE]
            /\ net' = [net EXCEPT ![s].peer = "connected"]
            /\ current_connections' = current_connections + 1
       \/ UNCHANGED <<conn, net, current_connections>>
    /\ UNCHANGED <<exchangeVars, batch, server, client, item, left, connects, stop>>

\* WouldBlock or ServerBusy: the rest of the queue waits for the next event.
AcceptedAll ==
    /\ EventFor({"accept"}) /\ ~CanAccept
    /\ batch' = Tail(batch)
    /\ UNCHANGED <<exchangeVars, conn, current_connections, server, client, item,
                   net, left, pending, connects, stop>>

-----------------------------------------------------------------------------
(* close_client and notify_and_close. *)

\* The header notify_and_close sends: sequence number 0, and no payload.
ErrorHeader == [packet |-> 0, half |-> 1]

\* send() of the header takes nothing, or some of it: nobody looks.
Notices == {<<>>, <<ErrorHeader>>}

\* What a client has got when it was sent `more' and its connection closed.
GotBy(s, more) == [ask |-> net[s].ask, out |-> net[s].out \o more]

\* Mutant: the connection is not counted out.
DisconnectUncounted(s, more) ==
    /\ conn' = [conn EXCEPT ![s] = ClosedConnection]
    /\ net' = [net EXCEPT ![s] = NoPeer]
    /\ left' = [left EXCEPT ![s] = GotBy(s, more)]
    /\ UNCHANGED current_connections

\* The connection is closed behind `more'.
Disconnect(s, more) ==
    /\ conn' = [conn EXCEPT ![s] = ClosedConnection]
    /\ net' = [net EXCEPT ![s] = NoPeer]
    /\ left' = [left EXCEPT ![s] = GotBy(s, more)]
    /\ current_connections' = current_connections - 1

close_client(s) == Disconnect(s, <<>>)

\* clear() forgets what is left of a message that was cut, so that the header
\* goes out behind its first half; `cut' is what this event had sent of it.
notify_and_close(s, cut) == \E notice \in Notices : Disconnect(s, cut \o notice)

\* handle_request returns to the event loop.
HandledEvent == /\ server' = "loop" /\ batch' = Tail(batch)
                /\ client' = NULL /\ item' = NULL

-----------------------------------------------------------------------------
(* handle_request: receive_request *)

\* Everything asked for has arrived: parse the request and stream it.
ReceiveAll(s) ==
    /\ conn[s].got + net[s].arrived >= 2
    /\ conn' = [conn EXCEPT ![s].status = "Clear", ![s].got = 0,
                            ![s].request = parse(serialize(net[s].ask))]
    /\ net' = [net EXCEPT ![s].arrived = @ - (2 - conn[s].got)]
    /\ server' = "resume" /\ client' = s
    /\ UNCHANGED <<current_connections, batch, item, left>>

\* recv would block: keep what came.
ReceivePart(s) ==
    /\ conn[s].got + net[s].arrived < 2 /\ net[s].peer = "connected"
    /\ conn' = [conn EXCEPT ![s].status = "PartialReceive",
                            ![s].got = @ + net[s].arrived]
    /\ net' = [net EXCEPT ![s].arrived = 0]
    /\ HandledEvent
    /\ UNCHANGED <<current_connections, left>>

\* End of stream closes, an error (a reset) notifies and closes.
ReceiveFails(s) ==
    /\ conn[s].got + net[s].arrived < 2 /\ net[s].peer = "gone"
    /\ close_client(s) \/ notify_and_close(s, <<>>)
    /\ HandledEvent

HandleRequest ==
    /\ EventFor({"read", "write"})
    /\ LET s == Head(batch).socket
       IN  /\ conn[s].open
           /\ \/ /\ conn[s].status \in {"Clear", "PartialReceive"}
                 /\ ReceiveAll(s) \/ ReceivePart(s) \/ ReceiveFails(s)
              \/ /\ conn[s].status = "PartialSend"
                 /\ server' = "resume" /\ client' = s
                 /\ UNCHANGED <<conn, net, current_connections, batch, item, left>>
    /\ UNCHANGED <<exchangeVars, pending, connects, stop>>

\* The event carries EV_ERROR.
ClientEventFails ==
    /\ EventFor({"read", "write"}) /\ conn[Head(batch).socket].open
    /\ notify_and_close(Head(batch).socket, <<>>)
    /\ HandledEvent
    /\ UNCHANGED <<exchangeVars, pending, connects, stop>>

\* A connection without a socket is Clear, and receive() asserts a socket; so
\* does the send() of notify_and_close.
AssertFails ==
    /\ EventFor({"read", "write"}) /\ ~conn[Head(batch).socket].open
    /\ server' = "aborted"
    /\ UNCHANGED <<exchangeVars, conn, current_connections, batch, client, item,
                   net, left, pending, connects, stop>>

-----------------------------------------------------------------------------
(* handle_request: stream_packets *)

Request == conn[client].request

\* The halves of the saved message that have not been sent yet.
Unsent(packet, sent) == [k \in 1 .. 2 - sent |-> [packet |-> packet,
                                                  half |-> sent + k]]

\* Mutant: the resumed message counts as unsent.
SendWholeAgain(packet, sent) ==
    /\ net' = [net EXCEPT ![client].out = @ \o Unsent(packet, sent)]
    /\ conn' = [conn EXCEPT ![client].status = "Clear", ![client].packet = NULL,
                            ![client].sent = 0,
                            ![client].request.first = IF sent = 0 THEN @ + 1 ELSE @]
    /\ server' = "packet" /\ item' = NULL
    /\ UNCHANGED <<current_connections, batch, client, left>>

\* send() got rid of everything: on to the next message.
SendWhole(packet, sent) ==
    /\ net' = [net EXCEPT ![client].out = @ \o Unsent(packet, sent)]
    /\ conn' = [conn EXCEPT ![client].status = "Clear", ![client].packet = NULL,
                            ![client].sent = 0, ![client].request.first = @ + 1]
    /\ server' = "packet" /\ item' = NULL
    /\ UNCHANGED <<current_connections, batch, client, left>>

\* Mutant: nobody is told to go on when there is room again.
SendPartUnarmed(packet, sent) ==
    \E more \in 0 .. 1 - sent :
       /\ conn' = [conn EXCEPT ![client].status = "PartialSend",
                       ![client].packet = packet, ![client].sent = sent + more]
       /\ net' = [net EXCEPT ![client].out =
                       @ \o SubSeq(Unsent(packet, sent), 1, more)]
       /\ HandledEvent
       /\ UNCHANGED <<current_connections, left>>

\* send() would block: wait for room.
SendPart(packet, sent) ==
    \E more \in 0 .. 1 - sent :
       /\ conn' = [conn EXCEPT ![client].status = "PartialSend",
                       ![client].packet = packet, ![client].sent = sent + more]
       /\ net' = [net EXCEPT ![client].armed = TRUE, ![client].out =
                       @ \o SubSeq(Unsent(packet, sent), 1, more)]
       /\ HandledEvent
       /\ UNCHANGED <<current_connections, left>>

\* send() fails behind `cut' and the connection is closed; or it would block
\* there, the write filter cannot be registered, and the client is notified.
SendFails(packet, sent) ==
    \E more \in 0 .. 1 - sent :
       /\ LET cut == SubSeq(Unsent(packet, sent), 1, more)
          IN  Disconnect(client, cut) \/ notify_and_close(client, cut)
       /\ HandledEvent

Send(packet, sent) == SendWhole(packet, sent) \/ SendPart(packet, sent)
                        \/ SendFails(packet, sent)

\* PacketTooOld, InvalidPacket and PacketUnavailable close the connection.
Refuse == close_client(client) /\ HandledEvent

\* A message that was cut is finished first.
ResumeSend ==
    /\ server = "resume"
    /\ \/ /\ Request.first >= FIRST_SEQUENCE_ID
          /\ conn[client].status = "PartialSend"
          /\ Send(conn[client].packet, conn[client].sent)
       \/ /\ Request.first >= FIRST_SEQUENCE_ID
          /\ conn[client].status # "PartialSend"
          /\ server' = "packet"
          /\ UNCHANGED <<conn, net, current_connections, batch, client, item, left>>
       \/ /\ Request.first < FIRST_SEQUENCE_ID     \* InvalidPacket
          /\ Refuse
    /\ UNCHANGED <<exchangeVars, pending, connects, stop>>

\* The loop condition: the request is done, or its next message is fetched.
NextPacket ==
    /\ server = "packet"
    /\ \/ /\ Request.first >= Request.last
          /\ conn' = [conn EXCEPT ![client].request = NULL]
          /\ HandledEvent
          /\ UNCHANGED <<net, current_connections, left>>
       \/ /\ Request.first < Request.last
          /\ Lookup(Request.first - FIRST_SEQUENCE_ID) = "Found"
          /\ server' = "load"
          /\ UNCHANGED <<conn, net, current_connections, batch, client, item, left>>
       \/ /\ Request.first < Request.last
          /\ Lookup(Request.first - FIRST_SEQUENCE_ID) # "Found"
          /\ Refuse
    /\ UNCHANGED <<exchangeVars, pending, connects, stop>>

LoadItem ==
    /\ server = "load"
    /\ item' = Loaded(Request.first - FIRST_SEQUENCE_ID)
    /\ server' = "verify"
    /\ UNCHANGED <<exchangeVars, conn, current_connections, batch, client, net,
                   left, pending, connects, stop>>

\* Mutant: the item is not verified.
SendUnverified ==
    /\ server = "verify"
    /\ Send(item, 0)
    /\ UNCHANGED <<exchangeVars, pending, connects, stop>>

VerifyAndSend ==
    /\ server = "verify"
    /\ IF StillThere(Request.first - FIRST_SEQUENCE_ID) THEN Send(item, 0)
       ELSE Refuse
    /\ UNCHANGED <<exchangeVars, pending, connects, stop>>

-----------------------------------------------------------------------------
\* close_server, which notifies and closes everyone, and return: the loop sees
\* the stop (kevent() times out), kevent() fails, or the listener has an error,
\* its own or accept()'s.
CloseServer ==
    /\ server = "loop"
    /\ batch = <<>> \/ EventFor({"accept"})
    /\ conn' = [s \in Sockets |-> ClosedConnection]
    /\ net' = [s \in Sockets |-> NoPeer]
    /\ \E notice \in [Sockets -> Notices] :
         left' = [s \in Sockets |->
                    IF conn[s].open THEN GotBy(s, notice[s]) ELSE left[s]]
    /\ current_connections' = current_connections
                                - Cardinality({s \in Sockets : conn[s].open})
    /\ batch' = <<>> /\ ServerReturns
    /\ UNCHANGED <<exchangeVars, client, item, pending, connects>>

RequestStop == /\ ~stop /\ server # "aborted"
               /\ stop' = TRUE
               /\ UNCHANGED <<exchangeVars, net, pending, connects>>
               /\ serverUnchanged

\* Both threads have returned, or abort() has ended the process.
Ended == /\ server = "aborted" \/ (server = "done" /\ exchange = "done")
         /\ UNCHANGED vars

Exchange == /\ server # "aborted"
            /\ \/ StartExchange \/ GenerateMessage \/ CacheMessage
               \/ Broadcast \/ ExchangeStops
Server == \/ StartServer \/ StartServerFails \/ WaitForEvents
          \/ AcceptOne \/ AcceptedAll \/ HandleRequest \/ ResumeSend
          \/ NextPacket \/ LoadItem \/ VerifyAndSend
          \/ ClientEventFails \/ AssertFails \/ CloseServer
Environment == \/ Connect
               \/ \E s \in Sockets : Arrive(s) \/ Vanish(s)
               \/ \E s \in Sockets, first, last \in 0 .. LAST : Ask(s, first, last)

Next == Exchange \/ Server \/ Environment \/ RequestStop \/ Ended

Spec == Init /\ [][Next]_vars

-----------------------------------------------------------------------------
\* current_connections_ is the listener and the open connections, whatever path
\* closed them: a leak would make the server refuse everyone in the end.
ConnectionsAreCounted ==
    Listening =>
        current_connections = 1 + Cardinality({s \in Sockets : conn[s].open})

\* Message n is not so old that the cache has used its 32-bit index again.
Fresh(n) == counter <= n + INDEX_RANGE

\* `out' begins the answer to `ask' and ends with one of `ends'.
Answers(ask, out, ends) ==
    IF ask = NULL THEN out \in ends
    ELSE Fresh(ask.first) =>
           \E k \in 0 .. Len(Answer(ask)), end \in ends :
              out = SubSeq(Answer(ask), 1, k) \o end

\* A client gets what it asked for: in order, nothing skipped and nothing twice,
\* wherever the socket cut the stream and whatever the exchange overwrote in the
\* cache meanwhile (tcp-client.cpp:103 asserts the order).  A connection may be
\* closed in the middle of a message, and an error header may come behind the
\* half of it; nothing ever comes behind a header.
StreamIsFaithful ==
    \A s \in Sockets : /\ Answers(net[s].ask, net[s].out, {<<>>})
                       /\ Answers(left[s].ask, left[s].out, Notices)

\* A stream that was cut because the socket was full is never forgotten: a
\* write event is registered, or already delivered and about to be handled.
CutStreamIsWoken ==
    \A s \in Sockets :
        conn[s].status = "PartialSend" =>
            net[s].armed \/ client = s
              \/ \E e \in ToSet(batch) : e.socket = s /\ e.kind # "accept"

\* The server refuses only what is gone: whatever a client finds missing in
\* front of a message it was sent is in the cache, unless CAPACITY newer
\* messages have taken, or the last of them is just taking, its slot.  The one
\* message in INDEX_RANGE whose index reads as IS_LOCKED is never found.
RefusedWasOverwritten ==
    server = "packet" /\ Request.first < Request.last
        => LET i == Request.first - FIRST_SEQUENCE_ID
           IN  \/ Lookup(i) = "Found"
               \/ counter - FIRST_SEQUENCE_ID > i + CAPACITY
               \/ Narrow(i) = IS_LOCKED

\* receive() and send() assert a socket (tcp-connection.hpp:95, 117): no event
\* is handled for a connection that an earlier event of its batch closed.
HandledConnectionIsOpen ==
    EventFor({"read", "write"}) => conn[Head(batch).socket].open
=============================================================================
