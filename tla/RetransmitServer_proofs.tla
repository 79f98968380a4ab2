----------------------- MODULE RetransmitServer_proofs -----------------------
(***************************************************************************)
(* What the recovery path keeps, for any number of connections, messages   *)
(* and cache slots.                                                        *)
(*                                                                         *)
(* ServerInv is about events: whom the server works for, what is counted,  *)
(* and that a stream that was cut has a write filter or an event.  It      *)
(* needs that the event handle_request runs for stays at the head of the   *)
(* batch, and that a closed Connection is as good as new.                  *)
(*                                                                         *)
(* DataInv is about messages.  CacheInv: a slot's number and its message   *)
(* agree whenever the slot is not locked.  ItemInv: between the two loads  *)
(* of the number a message may be overwritten, but then its slot does not  *)
(* get its number again for INDEX_RANGE messages; a message that old is    *)
(* not Fresh any more.  PeerInv and RequestInv: what a client has got ends *)
(* where the server goes on; a client that asks again has had the whole    *)
(* answer, so at most one request is on its way.  LeftInv: what a closed   *)
(* connection had got, with at most an error header behind it.  What the   *)
(* server parses is what was asked for (RequestRoundTrip).                 *)
(***************************************************************************)
EXTENDS RetransmitServer, FiniteSetTheorems, SequenceTheorems,
        WellFoundedInduction, TLAPS

Points == {"start", "loop", "resume", "packet", "load", "verify", "done", "aborted"}
Streaming == server \in {"resume", "packet", "load", "verify"}
Opened == {s \in Sockets : conn[s].open}
Events == {Listener} \cup {ReadOf(s) : s \in Sockets} \cup {WriteOf(s) : s \in Sockets}

\* The descriptors and what is kept for each.
ConnectionFields == {"open", "status", "packet", "sent", "got", "request"}
NetFields == {"peer", "ask", "wire", "arrived", "armed", "out"}
ShapeInv ==
    /\ DOMAIN conn = Sockets /\ DOMAIN net = Sockets
    /\ \A s \in Sockets : DOMAIN conn[s] = ConnectionFields /\ DOMAIN net[s] = NetFields

\* A descriptor that is not open has a Connection as good as new.
ClosedInv == \A s \in Sockets : ~conn[s].open => conn[s] = ClosedConnection

CountInv ==
    /\ Listening => current_connections = 1 + Cardinality(Opened)
    /\ server = "start" => Opened = {}

\* While handle_request runs, the event it runs for is at the head of the
\* batch, and its connection is open.
EventInv ==
    /\ server \in Points /\ batch \in Seq(Events)
    /\ IF Streaming THEN /\ client \in Opened /\ batch # <<>>
                         /\ Head(batch) \in {ReadOf(client), WriteOf(client)}
                    ELSE client = NULL

\* A stream is resumed where it was cut, before anything else is sent.
CutInv ==
    /\ CutStreamIsWoken
    /\ server = "resume" => conn[client].status \in {"Clear", "PartialSend"}
    /\ server \in {"packet", "load", "verify"} => conn[client].status = "Clear"

ServerInv == ShapeInv /\ ClosedInv /\ CountInv /\ EventInv /\ CutInv

-----------------------------------------------------------------------------
(* Events and sockets. *)

\* What an event is about, and that there are no others.
LEMMA EventFacts ==
    /\ Listener.kind = "accept" /\ Listener \in Events
    /\ \A s : /\ ReadOf(s).kind = "read" /\ ReadOf(s).socket = s
              /\ WriteOf(s).kind = "write" /\ WriteOf(s).socket = s
    /\ \A s \in Sockets : ReadOf(s) \in Events /\ WriteOf(s) \in Events
    /\ \A e \in Events :
          \/ e = Listener
          \/ e.socket \in Sockets /\ e \in {ReadOf(e.socket), WriteOf(e.socket)}
  <1>1. Listener.kind = "accept"
    BY DEF Listener
  <1>2. \A s : /\ ReadOf(s).kind = "read" /\ ReadOf(s).socket = s
              /\ WriteOf(s).kind = "write" /\ WriteOf(s).socket = s
    BY DEF ReadOf, WriteOf
  <1>3. \A e \in Events : e = Listener \/ \E s \in Sockets : e = ReadOf(s) \/ e = WriteOf(s)
    BY DEF Events
  <1>4. Listener \in Events /\ \A s \in Sockets : ReadOf(s) \in Events /\ WriteOf(s) \in Events
    BY DEF Events
  <1>5. ASSUME NEW e \in Events, e # Listener
        PROVE  e.socket \in Sockets /\ e \in {ReadOf(e.socket), WriteOf(e.socket)}
    <2>1. PICK s \in Sockets : e = ReadOf(s) \/ e = WriteOf(s)
      BY <1>3, <1>5
    <2>2. e.socket = s
      BY <1>2, <2>1
    <2> QED
      BY <2>1, <2>2
  <1> QED
    BY <1>1, <1>2, <1>4, <1>5

\* The rest of the batch, when the event at its head has been handled.
LEMMA RestOfBatch ==
    ASSUME batch \in Seq(Events), batch # <<>>
    PROVE  /\ Tail(batch) \in Seq(Events) /\ Head(batch) \in Events
           /\ \A e \in ToSet(batch) : e = Head(batch) \/ e \in ToSet(Tail(batch))
  <1>1. /\ Tail(batch) \in Seq(Events) /\ Head(batch) \in Events /\ Head(batch) = batch[1]
        /\ Len(Tail(batch)) = Len(batch) - 1 /\ Len(batch) \in Nat
        /\ \A i \in 1 .. Len(Tail(batch)) : Tail(batch)[i] = batch[i + 1]
        /\ DOMAIN batch = 1 .. Len(batch) /\ DOMAIN Tail(batch) = 1 .. Len(Tail(batch))
    BY HeadTailProperties, LenProperties
  <1>2. ASSUME NEW i \in 1 .. Len(batch), i # 1
        PROVE  batch[i] \in ToSet(Tail(batch))
    <2>1. i - 1 \in 1 .. Len(Tail(batch)) /\ (i - 1) + 1 = i
      BY <1>1, <1>2
    <2>2. Tail(batch)[i - 1] = batch[i]
      BY <1>1, <2>1
    <2> QED
      BY <1>1, <2>1, <2>2 DEF ToSet
  <1> QED
    BY <1>1, <1>2 DEF ToSet

Same(t) == conn'[t] = conn[t] /\ net'[t] = net[t]

\* The server works on an event of the open connection c.
Serving(c) ==
    /\ Listening /\ server # "start" /\ c \in Opened /\ client \in {NULL, c}
    /\ batch # <<>> /\ Head(batch) \in {ReadOf(c), WriteOf(c)}

\* An event of an open connection is what the server serves next.
LEMMA ServingEvent ==
    ASSUME ServerInv, EventFor({"read", "write"}), conn[Head(batch).socket].open
    PROVE  Serving(Head(batch).socket) /\ client = NULL
  <1>1. server = "loop" /\ batch # <<>> /\ Head(batch).kind \in {"read", "write"} /\ client = NULL
    BY DEF EventFor, ServerInv, EventInv, Streaming
  <1>2. Head(batch) \in Events
    BY <1>1, RestOfBatch DEF ServerInv, EventInv
  <1>3. /\ Head(batch).socket \in Sockets
        /\ Head(batch) \in {ReadOf(Head(batch).socket), WriteOf(Head(batch).socket)}
    BY <1>1, <1>2, EventFacts
  <1> QED
    BY <1>1, <1>3 DEF Serving, Listening, Opened

\* handle_request runs for an open connection.
LEMMA ServingClient ==
    ASSUME ServerInv, Streaming PROVE Serving(client) /\ client \in Sockets
  BY DEF ServerInv, EventInv, Streaming, Serving, Listening, Opened

\* What wakes the stream of t up is left, when the event of another connection
\* has been handled.
Woken(t) ==
    conn[t].status = "PartialSend" =>
        net[t].armed \/ client = t
          \/ \E e \in ToSet(batch) : e.socket = t /\ e.kind # "accept"

\* Handling an event of c leaves the events of the others in the batch.
LEMMA OthersStayWoken ==
    ASSUME ServerInv, NEW c \in Sockets, Serving(c), batch' = Tail(batch),
           NEW t \in Sockets, t # c, conn'[t].status = conn[t].status, net'[t].armed = net[t].armed
    PROVE  Woken(t)'
  <1>1. Woken(t)
    BY DEF ServerInv, CutInv, CutStreamIsWoken, Woken
  <1>2. client # t
    BY ServerAssumption DEF Serving
  <1>3. ASSUME NEW e \in ToSet(batch), e.socket = t PROVE e \in ToSet(batch')
    <2>1. e # Head(batch)
      BY <1>3, EventFacts DEF Serving
    <2> QED
      BY <2>1, RestOfBatch DEF Serving, ServerInv, EventInv
  <1> QED
    BY <1>1, <1>2, <1>3 DEF Woken

-----------------------------------------------------------------------------
(* Three ways for the server to go on from an event of connection c. *)

\* The connection is closed and the event is done with.
Closes(c) == (\E more : Disconnect(c, more)) /\ HandledEvent

\* The event is done with, and the connection waits for the next one.
Parks(c) ==
    /\ HandledEvent /\ current_connections' = current_connections
    /\ ShapeInv' /\ \A t \in Sockets \ {c} : Same(t)
    /\ conn'[c].open
    /\ conn'[c].status = "PartialSend" => net'[c].armed

\* The server streams.
Streams(c) ==
    /\ server' \in {"resume", "packet", "load", "verify"} /\ client' = c
    /\ batch' = batch /\ current_connections' = current_connections
    /\ ShapeInv' /\ \A t \in Sockets \ {c} : Same(t)
    /\ conn'[c].open
    /\ conn'[c].status = "Clear" \/ (server' = "resume" /\ conn'[c].status = "PartialSend")

\* Every way to close a connection is one.
LEMMA WaysToClose ==
    /\ \A c : close_client(c) => \E more : Disconnect(c, more)
    /\ \A c, cut : notify_and_close(c, cut) => \E more : Disconnect(c, more)
    /\ \A packet, sent : SendFails(packet, sent) => Closes(client)
    /\ Refuse => Closes(client)
  <1>1. \A c : close_client(c) => \E more : Disconnect(c, more)
    BY DEF close_client
  <1>2. \A c, cut : notify_and_close(c, cut) => \E more : Disconnect(c, more)
    BY DEF notify_and_close
  <1>3. ASSUME NEW packet, NEW sent, SendFails(packet, sent) PROVE Closes(client)
    <2>1. PICK more \in 0 .. 1 - sent :
             /\ LET cut == SubSeq(Unsent(packet, sent), 1, more)
                IN  Disconnect(client, cut) \/ notify_and_close(client, cut)
             /\ HandledEvent
      BY <1>3, Zenon DEF SendFails
    <2> QED
      BY <1>2, <2>1, Zenon DEF Closes
  <1>4. Refuse => Closes(client)
    BY <1>1 DEF Refuse, Closes
  <1> QED
    BY <1>1, <1>2, <1>3, <1>4

\* Closing a connection leaves the others alone.
LEMMA ClosesFields ==
    ASSUME ShapeInv, NEW c \in Sockets, NEW more, Disconnect(c, more)
    PROVE  /\ ShapeInv' /\ \A t \in Sockets \ {c} : Same(t)
           /\ conn'[c] = ClosedConnection /\ net'[c] = NoPeer
  <1>1. /\ conn' = [conn EXCEPT ![c] = ClosedConnection] /\ net' = [net EXCEPT ![c] = NoPeer]
    BY DEF Disconnect
  <1>2. DOMAIN ClosedConnection = ConnectionFields /\ DOMAIN NoPeer = NetFields
    BY DEF ClosedConnection, NoPeer, ConnectionFields, NetFields
  <1> QED
    BY <1>1, <1>2 DEF ShapeInv, Same

\* A closed Connection has nothing half sent.
LEMMA ClosedIsClear == ~ClosedConnection.open /\ ClosedConnection.status = "Clear"
  BY DEF ClosedConnection

\* Closing keeps the invariant: the connection counted out was counted in.
LEMMA ClosesKeeps == ASSUME ServerInv, NEW c \in Sockets, Serving(c), Closes(c) PROVE ServerInv'
  <1>1. /\ server' = "loop" /\ batch' = Tail(batch) /\ client' = NULL
        /\ current_connections' = current_connections - 1
    BY DEF Closes, HandledEvent, Disconnect
  <1>2. /\ ShapeInv' /\ \A t \in Sockets \ {c} : Same(t)
        /\ conn'[c] = ClosedConnection /\ net'[c] = NoPeer
    BY ClosesFields DEF Closes, ServerInv
  <1>3. ClosedInv'
    BY <1>2 DEF ClosedInv, ServerInv, Same
  <1>4. CountInv'
    <2>1. Opened' = Opened \ {c} /\ c \in Opened /\ Opened \subseteq Sockets
      BY <1>2, ClosedIsClear DEF Opened, Same, Serving
    <2>2. IsFiniteSet(Opened)
      BY <2>1, FS_Subset, ServerAssumption
    <2>3. Cardinality(Opened') = Cardinality(Opened) - 1 /\ Cardinality(Opened) \in Nat
      BY <2>1, <2>2, FS_RemoveElement, FS_CardinalityType
    <2> QED
      BY <1>1, <2>3 DEF CountInv, ServerInv, Serving, Listening
  <1>5. EventInv'
    BY <1>1, RestOfBatch DEF EventInv, ServerInv, Serving, Streaming, Points
  <1>6. ASSUME NEW t \in Sockets PROVE Woken(t)'
    <2>1. CASE t = c
      BY <1>2, <2>1, ClosedIsClear DEF Woken
    <2>2. CASE t # c
      BY <1>1, <1>2, <2>2, OthersStayWoken DEF Same
    <2> QED
      BY <2>1, <2>2
  <1>7. CutInv'
    BY <1>1, <1>6 DEF CutInv, CutStreamIsWoken, Woken
  <1> QED
    BY <1>2, <1>3, <1>4, <1>5, <1>7 DEF ServerInv

\* Waiting for the next event keeps it: a stream that was cut is armed.
LEMMA ParksKeeps == ASSUME ServerInv, NEW c \in Sockets, Serving(c), Parks(c) PROVE ServerInv'
  <1>1. /\ server' = "loop" /\ batch' = Tail(batch) /\ client' = NULL
        /\ current_connections' = current_connections
        /\ ShapeInv' /\ \A t \in Sockets \ {c} : Same(t)
        /\ conn'[c].open /\ (conn'[c].status = "PartialSend" => net'[c].armed)
    BY DEF Parks, HandledEvent
  <1>3. ClosedInv'
    BY <1>1 DEF ClosedInv, ServerInv, Same
  <1>4. CountInv'
    <2>1. Opened' = Opened
      BY <1>1 DEF Opened, Same, Serving
    <2> QED
      BY <1>1, <2>1 DEF CountInv, ServerInv, Serving, Listening
  <1>5. EventInv'
    BY <1>1, RestOfBatch DEF EventInv, ServerInv, Serving, Streaming, Points
  <1>6. ASSUME NEW t \in Sockets PROVE Woken(t)'
    <2>1. CASE t = c
      BY <1>1, <2>1 DEF Woken
    <2>2. CASE t # c
      BY <1>1, <2>2, OthersStayWoken DEF Same
    <2> QED
      BY <2>1, <2>2
  <1>7. CutInv'
    BY <1>1, <1>6 DEF CutInv, CutStreamIsWoken, Woken
  <1> QED
    BY <1>1, <1>3, <1>4, <1>5, <1>7 DEF ServerInv

\* Going on with a stream keeps it: the event stays at the head of the batch.
LEMMA StreamsKeeps == ASSUME ServerInv, NEW c \in Sockets, Serving(c), Streams(c) PROVE ServerInv'
  <1>1. /\ server' \in {"resume", "packet", "load", "verify"} /\ batch' = batch /\ client' = c
        /\ current_connections' = current_connections
        /\ ShapeInv' /\ conn'[c].open
        /\ \A t \in Sockets \ {c} : Same(t)
        /\ conn'[c].status = "Clear" \/ (server' = "resume" /\ conn'[c].status = "PartialSend")
    BY DEF Streams
  <1>3. ClosedInv'
    BY <1>1 DEF ClosedInv, ServerInv, Same, Streams
  <1>4. Opened' = Opened
    BY <1>1 DEF Opened, Same, Serving, Streams
  <1>5. CountInv'
    BY <1>1, <1>4 DEF CountInv, ServerInv, Serving, Listening
  <1>6. EventInv'
    BY <1>1, <1>4 DEF EventInv, ServerInv, Serving, Streaming, Points
  <1>7. ASSUME NEW t \in Sockets PROVE Woken(t)'
    <2>1. CASE t = c
      BY <1>1, <2>1 DEF Woken
    <2>2. CASE t # c
      <3>1. Woken(t) /\ client # t /\ conn'[t] = conn[t] /\ net'[t] = net[t]
        BY <1>1, <2>2, ServerAssumption DEF ServerInv, CutInv, CutStreamIsWoken, Woken, Same, Serving, Streams
      <3> QED
        BY <1>1, <3>1 DEF Woken
    <2> QED
      BY <2>1, <2>2
  <1>8. CutInv'
    BY <1>1, <1>7 DEF CutInv, CutStreamIsWoken, Woken
  <1> QED
    BY <1>1, <1>3, <1>5, <1>6, <1>8 DEF ServerInv

-----------------------------------------------------------------------------
(* What the steps of handle_request do, field by field. *)

\* Nobody else's connection is touched.
OnlyFor(c) == ShapeInv' /\ \A t \in Sockets \ {c} : Same(t)

\* The rest of the request is received.
LEMMA ReceiveAllFields ==
    ASSUME ShapeInv, NEW c \in Sockets, ReceiveAll(c)
    PROVE  /\ OnlyFor(c)
           /\ conn'[c].open = conn[c].open /\ conn'[c].status = "Clear"
           /\ conn'[c].packet = conn[c].packet /\ conn'[c].sent = conn[c].sent
           /\ conn'[c].got = 0 /\ conn'[c].request = parse(serialize(net[c].ask))
           /\ net'[c].arrived = net[c].arrived - (2 - conn[c].got)
           /\ net'[c].peer = net[c].peer /\ net'[c].ask = net[c].ask
           /\ net'[c].wire = net[c].wire /\ net'[c].armed = net[c].armed
           /\ net'[c].out = net[c].out
  <1>1. /\ conn' = [conn EXCEPT ![c].status = "Clear", ![c].got = 0,
                                ![c].request = parse(serialize(net[c].ask))]
        /\ net' = [net EXCEPT ![c].arrived = @ - (2 - conn[c].got)]
    BY DEF ReceiveAll
  <1> QED
    BY <1>1 DEF ShapeInv, OnlyFor, Same, ConnectionFields, NetFields

\* A part of the request is received.
LEMMA ReceivePartFields ==
    ASSUME ShapeInv, NEW c \in Sockets, ReceivePart(c)
    PROVE  /\ OnlyFor(c)
           /\ conn'[c].open = conn[c].open /\ conn'[c].status = "PartialReceive"
           /\ conn'[c].packet = conn[c].packet /\ conn'[c].sent = conn[c].sent
           /\ conn'[c].got = conn[c].got + net[c].arrived
           /\ conn'[c].request = conn[c].request
           /\ net'[c].arrived = 0
           /\ net'[c].peer = net[c].peer /\ net'[c].ask = net[c].ask
           /\ net'[c].wire = net[c].wire /\ net'[c].armed = net[c].armed
           /\ net'[c].out = net[c].out
  <1>1. /\ conn' = [conn EXCEPT ![c].status = "PartialReceive", ![c].got = @ + net[c].arrived]
        /\ net' = [net EXCEPT ![c].arrived = 0]
    BY DEF ReceivePart
  <1> QED
    BY <1>1 DEF ShapeInv, OnlyFor, Same, ConnectionFields, NetFields

\* The rest of a message is sent.
LEMMA SendWholeFields ==
    ASSUME ShapeInv, client \in Sockets, NEW packet, NEW sent, SendWhole(packet, sent)
    PROVE  /\ OnlyFor(client)
           /\ conn'[client].open = conn[client].open /\ conn'[client].status = "Clear"
           /\ conn'[client].packet = NULL /\ conn'[client].sent = 0
           /\ conn'[client].got = conn[client].got
           /\ conn'[client].request
                = [conn[client].request EXCEPT !.first = conn[client].request.first + 1]
           /\ net'[client].arrived = net[client].arrived
           /\ net'[client].peer = net[client].peer /\ net'[client].ask = net[client].ask
           /\ net'[client].wire = net[client].wire /\ net'[client].armed = net[client].armed
           /\ net'[client].out = net[client].out \o Unsent(packet, sent)
  <1>1. /\ conn' = [conn EXCEPT ![client].status = "Clear", ![client].packet = NULL,
                                ![client].sent = 0, ![client].request.first = @ + 1]
        /\ net' = [net EXCEPT ![client].out = @ \o Unsent(packet, sent)]
    BY DEF SendWhole
  <1> QED
    BY <1>1 DEF ShapeInv, OnlyFor, Same, ConnectionFields, NetFields

\* A part of a message is sent.
LEMMA SendPartFields ==
    ASSUME ShapeInv, client \in Sockets, NEW packet, NEW sent, NEW more,
           conn' = [conn EXCEPT ![client].status = "PartialSend",
                       ![client].packet = packet, ![client].sent = sent + more],
           net' = [net EXCEPT ![client].armed = TRUE, ![client].out =
                       @ \o SubSeq(Unsent(packet, sent), 1, more)]
    PROVE  /\ OnlyFor(client)
           /\ conn'[client].open = conn[client].open /\ conn'[client].status = "PartialSend"
           /\ conn'[client].packet = packet /\ conn'[client].sent = sent + more
           /\ conn'[client].got = conn[client].got
           /\ conn'[client].request = conn[client].request
           /\ net'[client].arrived = net[client].arrived
           /\ net'[client].peer = net[client].peer /\ net'[client].ask = net[client].ask
           /\ net'[client].wire = net[client].wire /\ net'[client].armed = TRUE
           /\ net'[client].out = net[client].out \o SubSeq(Unsent(packet, sent), 1, more)
  BY DEF ShapeInv, OnlyFor, Same, ConnectionFields, NetFields

\* The request is done with.
LEMMA RequestDoneFields ==
    ASSUME ShapeInv, client \in Sockets, conn' = [conn EXCEPT ![client].request = NULL],
           net' = net
    PROVE  /\ OnlyFor(client)
           /\ conn'[client].open = conn[client].open
           /\ conn'[client].status = conn[client].status
           /\ conn'[client].packet = conn[client].packet
           /\ conn'[client].sent = conn[client].sent /\ conn'[client].got = conn[client].got
           /\ conn'[client].request = NULL
  BY DEF ShapeInv, OnlyFor, Same, ConnectionFields

-----------------------------------------------------------------------------
(* The steps. *)

\* The steps that stream, or hand an event back.
LEMMA SendKeeps ==
    ASSUME ServerInv, Streaming, NEW packet, NEW sent, Send(packet, sent)
    PROVE  ServerInv'
  <1>1. Serving(client) /\ client \in Sockets /\ conn[client].open /\ ShapeInv
    BY ServingClient DEF Serving, Opened, ServerInv
  <1>c. PICK c \in Sockets : c = client
    BY <1>1
  <1>2. CASE SendWhole(packet, sent)
    <2>1. /\ OnlyFor(c) /\ conn'[c].open /\ conn'[c].status = "Clear"
          /\ server' = "packet" /\ batch' = batch /\ client' = c
          /\ current_connections' = current_connections
      BY <1>1, <1>2, <1>c, SendWholeFields DEF SendWhole
    <2> QED
      BY <1>1, <1>c, <2>1, StreamsKeeps DEF Streams, OnlyFor
  <1>3. CASE SendPart(packet, sent)
    <2>0. PICK more \in 0 .. 1 - sent :
            /\ conn' = [conn EXCEPT ![client].status = "PartialSend",
                            ![client].packet = packet, ![client].sent = sent + more]
            /\ net' = [net EXCEPT ![client].armed = TRUE, ![client].out =
                            @ \o SubSeq(Unsent(packet, sent), 1, more)]
            /\ HandledEvent
            /\ UNCHANGED current_connections
      BY <1>3 DEF SendPart
    <2>1. OnlyFor(client) /\ conn'[client].open = conn[client].open /\ net'[client].armed = TRUE
      BY <1>1, <2>0, SendPartFields, Zenon
    <2> QED
      BY <1>1, <1>c, <2>0, <2>1, ParksKeeps DEF Parks, OnlyFor
  <1>4. CASE SendFails(packet, sent)
    BY <1>1, <1>4, <1>c, ClosesKeeps, WaysToClose
  <1> QED
    BY <1>2, <1>3, <1>4 DEF Send

\* stream_packets keeps the invariant.
LEMMA StreamStepKeeps ==
    ASSUME ServerInv, ResumeSend \/ NextPacket \/ LoadItem \/ VerifyAndSend
    PROVE  ServerInv'
  <1>0. Streaming
    BY DEF ResumeSend, NextPacket, LoadItem, VerifyAndSend, Streaming
  <1>1. Serving(client) /\ client \in Sockets /\ conn[client].open /\ ShapeInv
    BY <1>0, ServingClient DEF Serving, Opened, ServerInv
  <1>c. PICK c \in Sockets : c = client
    BY <1>1
  <1>2. ASSUME UNCHANGED <<conn, net, current_connections, batch, client>>,
               server' \in {"packet", "load", "verify"}, conn[client].status = "Clear"
        PROVE  ServerInv'
    <2>1. Streams(c)
      BY <1>1, <1>2, <1>c DEF Streams, ShapeInv, Same
    <2> QED
      BY <1>1, <1>c, <2>1, StreamsKeeps
  <1>3. CASE ResumeSend
    <2>1. conn[client].status \in {"Clear", "PartialSend"}
      BY <1>3 DEF ServerInv, CutInv, ResumeSend
    <2>2. CASE Refuse
      BY <1>1, <1>c, <2>2, ClosesKeeps, WaysToClose
    <2> QED
      BY <1>0, <1>2, <1>3, <2>1, <2>2, SendKeeps DEF ResumeSend
  <1>4. CASE NextPacket
    <2>1. conn[client].status = "Clear"
      BY <1>4 DEF ServerInv, CutInv, NextPacket
    <2>2. CASE Refuse
      BY <1>1, <1>c, <2>2, ClosesKeeps, WaysToClose
    <2>3. CASE /\ conn' = [conn EXCEPT ![client].request = NULL] /\ HandledEvent
               /\ UNCHANGED <<net, current_connections>>
      <3>1. Parks(c)
        BY <1>1, <1>c, <2>1, <2>3, RequestDoneFields DEF Parks, OnlyFor
      <3> QED
        BY <1>1, <1>c, <3>1, ParksKeeps
    <2> QED
      BY <1>2, <1>4, <2>1, <2>2, <2>3 DEF NextPacket
  <1>5. CASE LoadItem
    BY <1>2, <1>5 DEF LoadItem, ServerInv, CutInv
  <1>6. CASE VerifyAndSend
    <2>1. CASE Refuse
      BY <1>1, <1>c, <2>1, ClosesKeeps, WaysToClose
    <2> QED
      BY <1>0, <1>6, <2>1, SendKeeps DEF VerifyAndSend
  <1> QED
    BY <1>3, <1>4, <1>5, <1>6

\* handle_request, up to the stream, keeps it; so does a failed event.
LEMMA RequestStepKeeps ==
    ASSUME ServerInv, HandleRequest \/ ClientEventFails PROVE ServerInv'
  <1> DEFINE h == Head(batch).socket
  <1>1. EventFor({"read", "write"}) /\ conn[h].open
    BY DEF HandleRequest, ClientEventFails
  <1>2. Serving(h) /\ h \in Sockets /\ conn[h].open /\ ShapeInv
    BY <1>1, ServingEvent DEF Serving, Opened, ServerInv
  <1>c. PICK c \in Sockets : c = h
    BY <1>2
  <1> HIDE DEF h
  <1>3. CASE ReceiveAll(c)
    <2>1. Streams(c)
      BY <1>2, <1>3, <1>c, ReceiveAllFields, ZenonT(60) DEF Streams, ReceiveAll, OnlyFor
    <2> QED
      BY <1>2, <1>c, <2>1, StreamsKeeps, SMTT(60)
  <1>4. CASE ReceivePart(c)
    <2>1. Parks(c)
      BY <1>2, <1>4, <1>c, ReceivePartFields, ZenonT(60) DEF Parks, ReceivePart, OnlyFor
    <2> QED
      BY <1>2, <1>c, <2>1, ParksKeeps
  <1>5. CASE Closes(c)
    BY <1>2, <1>5, <1>c, ClosesKeeps
  <1>6. CASE /\ conn[c].status = "PartialSend" /\ server' = "resume" /\ client' = c
             /\ UNCHANGED <<conn, net, current_connections, batch>>
    <2>1. Streams(c)
      BY <1>2, <1>6, <1>c DEF Streams, ShapeInv, Same
    <2> QED
      BY <1>2, <1>c, <2>1, StreamsKeeps
  <1>7. CASE HandleRequest
    <2>1. ReceiveFails(c) => Closes(c)
      BY WaysToClose DEF ReceiveFails, Closes
    <2> QED
      BY <1>7, <1>c, <1>3, <1>4, <1>5, <1>6, <2>1 DEF HandleRequest, h
  <1>8. CASE ClientEventFails
    <2>1. Closes(c)
      BY <1>8, <1>c, WaysToClose DEF ClientEventFails, Closes, h
    <2> QED
      BY <1>5, <2>1
  <1> QED
    BY <1>7, <1>8

\* The steps in front of the event loop, and its end.
LEMMA StartStepKeeps ==
    ASSUME ServerInv, StartServer \/ StartServerFails \/ AssertFails \/ CloseServer
    PROVE  ServerInv'
  <1>0. ShapeInv /\ ClosedInv /\ CountInv /\ EventInv /\ CutInv
    BY DEF ServerInv
  <1>1. CASE StartServer
    <2>1. /\ server = "start" /\ server' = "loop" /\ current_connections' = 1
          /\ UNCHANGED <<conn, net, batch, client>>
      BY <1>1 DEF StartServer
    <2>2. Opened' = {} /\ Cardinality({}) = 0
      BY <2>1, <1>0, FS_EmptySet DEF CountInv, Opened
    <2>3. CountInv'
      BY <2>1, <2>2 DEF CountInv, Listening
    <2> QED
      BY <2>1, <2>3, <1>0 DEF ServerInv, ShapeInv, ClosedInv, EventInv, Streaming, Points,
            CutInv, CutStreamIsWoken
  <1>2. CASE StartServerFails \/ AssertFails
    <2>1. /\ server \in {"start", "loop"} /\ server' \in {"done", "aborted"}
          /\ UNCHANGED <<conn, net, batch, client>>
      BY <1>2 DEF StartServerFails, AssertFails, ServerReturns, EventFor
    <2> QED
      BY <2>1, <1>0 DEF ServerInv, ShapeInv, ClosedInv, EventInv, Streaming, Points,
            CutInv, CutStreamIsWoken, CountInv, Listening
  <1>3. CASE CloseServer
    <2>1. /\ server = "loop" /\ server' = "done" /\ batch' = <<>> /\ client' = client
          /\ conn' = [s \in Sockets |-> ClosedConnection] /\ net' = [s \in Sockets |-> NoPeer]
      BY <1>3 DEF CloseServer, ServerReturns
    <2>2. DOMAIN ClosedConnection = ConnectionFields /\ DOMAIN NoPeer = NetFields
      BY DEF ClosedConnection, NoPeer, ConnectionFields, NetFields
    <2>3. ShapeInv' /\ ClosedInv'
      BY <2>1, <2>2 DEF ShapeInv, ClosedInv
    <2>4. EventInv'
      BY <2>1, <1>0, EmptySeq DEF EventInv, Streaming, Points
    <2>5. CutInv' /\ CountInv'
      BY <2>1, ClosedIsClear DEF CutInv, CutStreamIsWoken, CountInv, Listening
    <2> QED
      BY <2>3, <2>4, <2>5 DEF ServerInv
  <1> QED
    BY <1>1, <1>2, <1>3

\* kevent() returns a batch: a write filter that has fired is in it.
LEMMA WaitKeeps == ASSUME ServerInv, WaitForEvents PROVE ServerInv'
  <1>0. ShapeInv /\ ClosedInv /\ CountInv /\ EventInv /\ CutInv
    BY DEF ServerInv
  <1>1. /\ server = "loop" /\ server' = "loop" /\ batch = <<>>
        /\ UNCHANGED <<conn, current_connections, client>>
    BY DEF WaitForEvents
  <1>2. PICK b \in Batches : /\ batch' = b
                             /\ net' = [s \in Sockets |-> [net[s] EXCEPT !.armed =
                                           @ /\ WriteOf(s) \notin ToSet(b)]]
    BY DEF WaitForEvents
  <1>3. b \in Seq(Events)
    <2>1. \A e \in ReadyEvents : e \in Events
      BY EventFacts DEF ReadyEvents
    <2>2. \/ \E e \in ReadyEvents : b = <<e>>
          \/ \E e, f \in ReadyEvents : b = <<e, f>>
      BY DEF Batches
    <2>3. \A e, f \in Events : <<e>> \in Seq(Events) /\ <<e, f>> \in Seq(Events)
      OBVIOUS
    <2> QED
      BY <2>1, <2>2, <2>3, Zenon
  <1>4. ShapeInv'
    BY <1>0, <1>1, <1>2 DEF ShapeInv, NetFields
  <1>5. EventInv'
    BY <1>0, <1>1, <1>2, <1>3 DEF EventInv, Streaming
  <1>6. ASSUME NEW t \in Sockets, conn'[t].status = "PartialSend"
        PROVE  net'[t].armed \/ \E e \in ToSet(batch') : e.socket = t /\ e.kind # "accept"
    <2>1. ~(\E e \in ToSet(batch) : e.socket = t /\ e.kind # "accept")
      BY <1>1, EmptySeq DEF ToSet
    <2>2. client # t
      BY <1>0, <1>1, ServerAssumption DEF EventInv, Streaming
    <2>3. net[t].armed
      BY <1>0, <1>1, <1>6, <2>1, <2>2 DEF CutInv, CutStreamIsWoken
    <2>4. CASE WriteOf(t) \in ToSet(b)
      BY <1>2, <2>4, EventFacts
    <2>5. CASE WriteOf(t) \notin ToSet(b)
      <3>1. net'[t].armed = (net[t].armed /\ WriteOf(t) \notin ToSet(b))
        BY <1>0, <1>2 DEF ShapeInv, NetFields
      <3> QED
        BY <2>3, <2>5, <3>1
    <2> QED
      BY <2>4, <2>5
  <1>7. CutInv'
    BY <1>1, <1>6 DEF CutInv, CutStreamIsWoken
  <1> QED
    BY <1>0, <1>1, <1>4, <1>5, <1>7 DEF ServerInv, ClosedInv, CountInv, Opened, Listening

\* handle_new_connections
LEMMA AcceptKeeps == ASSUME ServerInv, AcceptOne \/ AcceptedAll PROVE ServerInv'
  <1>0. ShapeInv /\ ClosedInv /\ CountInv /\ EventInv /\ CutInv
    BY DEF ServerInv
  <1>1. /\ server = "loop" /\ server' = "loop" /\ client' = client /\ client = NULL
        /\ batch # <<>> /\ Head(batch).kind = "accept"
    BY <1>0 DEF AcceptOne, AcceptedAll, EventFor, EventInv, Streaming
  <1>2. CASE UNCHANGED <<conn, net, current_connections, batch>>
    BY <1>0, <1>1, <1>2 DEF ServerInv, ShapeInv, ClosedInv, CountInv, Opened, Listening, EventInv,
          Streaming, CutInv, CutStreamIsWoken
  <1>3. CASE AcceptedAll
    <2>1. batch' = Tail(batch) /\ UNCHANGED <<conn, net, current_connections>>
      BY <1>3 DEF AcceptedAll
    <2>2. EventInv'
      BY <1>0, <1>1, <2>1, RestOfBatch DEF EventInv, Streaming
    <2>3. CutStreamIsWoken'
      <3> SUFFICES ASSUME NEW t \in Sockets, conn[t].status = "PartialSend", ~net[t].armed, client # t
                   PROVE  \E e \in ToSet(batch') : e.socket = t /\ e.kind # "accept"
        BY <1>1, <2>1 DEF CutStreamIsWoken
      <3>1. PICK e \in ToSet(batch) : e.socket = t /\ e.kind # "accept"
        BY <1>0 DEF CutInv, CutStreamIsWoken
      <3>2. e \in ToSet(batch')
        BY <1>0, <1>1, <2>1, <3>1, RestOfBatch DEF EventInv
      <3> QED
        BY <3>1, <3>2
    <2> QED
      BY <1>0, <1>1, <2>1, <2>2, <2>3 DEF ServerInv, ShapeInv, ClosedInv, CountInv, Opened,
            Listening, CutInv
  <1>4. ASSUME NEW c \in Sockets, ~conn[c].open, batch' = batch,
               conn' = [conn EXCEPT ![c].open = TRUE],
               net' = [net EXCEPT ![c].peer = "connected"],
               current_connections' = current_connections + 1
        PROVE  ServerInv'
    <2>1. /\ ShapeInv' /\ \A t \in Sockets \ {c} : Same(t)
          /\ conn'[c].open = TRUE /\ conn'[c].status = conn[c].status
          /\ net'[c].armed = net[c].armed
      BY <1>0, <1>4 DEF ShapeInv, Same, ConnectionFields, NetFields
    <2>2. ClosedInv'
      BY <1>0, <2>1 DEF ClosedInv, Same
    <2>3. CountInv'
      <3>1. Opened' = Opened \cup {c} /\ c \notin Opened /\ Opened \subseteq Sockets
        BY <1>4, <2>1 DEF Opened, Same
      <3>2. IsFiniteSet(Opened)
        BY <3>1, FS_Subset, ServerAssumption
      <3>3. Cardinality(Opened') = Cardinality(Opened) + 1 /\ Cardinality(Opened) \in Nat
        BY <3>1, <3>2, FS_AddElement, FS_CardinalityType
      <3> QED
        BY <1>0, <1>1, <1>4, <3>3 DEF CountInv, Listening
    <2>4. EventInv'
      BY <1>0, <1>1, <1>4 DEF EventInv, Streaming
    <2>5. \A t \in Sockets : conn'[t].status = conn[t].status /\ net'[t].armed = net[t].armed
      BY <2>1 DEF Same
    <2>6. CutInv'
      BY <1>0, <1>1, <1>4, <2>5 DEF CutInv, CutStreamIsWoken
    <2> QED
      BY <2>1, <2>2, <2>3, <2>4, <2>6 DEF ServerInv
  <1>5. CASE AcceptOne
    BY <1>2, <1>4, <1>5 DEF AcceptOne
  <1> QED
    BY <1>3, <1>5

\* The exchange thread and the clients leave the server's variables alone.
LEMMA OutsideKeeps ==
    ASSUME ServerInv, Exchange \/ Environment \/ RequestStop \/ UNCHANGED vars
    PROVE  ServerInv'
  <1>0. ShapeInv /\ ClosedInv /\ CountInv /\ EventInv /\ CutInv
    BY DEF ServerInv
  <1>1. serverUnchanged
    BY ZenonT(60) DEF Exchange, StartExchange, GenerateMessage, CacheMessage, Broadcast, ExchangeStops,
           elsewhereUnchanged, Environment, Connect, Ask, Arrive, Vanish, RequestStop, vars,
           serverUnchanged
  <1>2. ShapeInv' /\ \A t \in Sockets : net'[t].armed = net[t].armed
    <2>1. CASE net' = net
      BY <1>0, <1>1, <2>1 DEF ShapeInv, serverUnchanged
    <2>2. CASE \E s \in Sockets : Arrive(s)
      BY <1>0, <1>1, <2>2 DEF ShapeInv, serverUnchanged, Arrive, NetFields
    <2>3. CASE \E s \in Sockets : Vanish(s)
      BY <1>0, <1>1, <2>3 DEF ShapeInv, serverUnchanged, Vanish, NetFields
    <2>4. CASE \E s \in Sockets, first, last \in 0 .. LAST : Ask(s, first, last)
      BY <1>0, <1>1, <2>4 DEF ShapeInv, serverUnchanged, Ask, NetFields
    <2>5. CASE Exchange \/ Connect \/ RequestStop \/ UNCHANGED vars
      <3>1. net' = net
        BY <2>5 DEF Exchange, StartExchange, GenerateMessage, CacheMessage, Broadcast,
              ExchangeStops, elsewhereUnchanged, Connect, RequestStop, vars
      <3> QED
        BY <2>1, <3>1
    <2> QED
      BY <2>2, <2>3, <2>4, <2>5 DEF Environment
  <1> QED
    BY <1>0, <1>1, <1>2 DEF ServerInv, ClosedInv, CountInv, Opened, Listening, EventInv,
          Streaming, CutInv, CutStreamIsWoken, serverUnchanged

\* The cases of a step.
LEMMA ServerCases ==
    ASSUME [Next]_vars
    PROVE  \/ Exchange \/ Environment \/ RequestStop \/ UNCHANGED vars
           \/ StartServer \/ StartServerFails \/ AssertFails \/ CloseServer
           \/ WaitForEvents
           \/ AcceptOne \/ AcceptedAll
           \/ HandleRequest \/ ClientEventFails
           \/ ResumeSend \/ NextPacket \/ LoadItem \/ VerifyAndSend
  BY DEF Next, Server, Ended

\* The server's part of the invariant.
THEOREM ServerInvariant == Spec => []ServerInv
  <1>1. Init => ServerInv
    <2> SUFFICES ASSUME Init PROVE ServerInv
      OBVIOUS
    <2>1. /\ conn = [s \in Sockets |-> ClosedConnection] /\ net = [s \in Sockets |-> NoPeer]
          /\ batch = <<>> /\ server = "start" /\ client = NULL
      BY DEF Init
    <2>2. DOMAIN ClosedConnection = ConnectionFields /\ DOMAIN NoPeer = NetFields
      BY DEF ClosedConnection, NoPeer, ConnectionFields, NetFields
    <2>3. ShapeInv /\ ClosedInv
      BY <2>1, <2>2 DEF ShapeInv, ClosedInv
    <2>4. EventInv
      BY <2>1, EmptySeq DEF EventInv, Streaming, Points
    <2>5. CutInv /\ CountInv
      BY <2>1, ClosedIsClear DEF CutInv, CutStreamIsWoken, CountInv, Listening, Opened
    <2> QED
      BY <2>3, <2>4, <2>5 DEF ServerInv
  <1>2. ServerInv /\ [Next]_vars => ServerInv'
    BY ServerCases, OutsideKeeps, StartStepKeeps, WaitKeeps, AcceptKeeps, RequestStepKeeps,
       StreamStepKeeps
  <1> QED
    BY <1>1, <1>2, PTL DEF Spec

\* ConnectionsAreCounted: every path that closes a connection counts it out
\* once, and it is always one that was counted in.
THEOREM ServerCountsConnections == Spec => []ConnectionsAreCounted
  <1>1. ServerInv => ConnectionsAreCounted
    BY DEF ServerInv, CountInv, ConnectionsAreCounted, Opened
  <1> QED
    BY <1>1, ServerInvariant, PTL

\* CutStreamIsWoken: whatever other events are handled in between, a stream
\* that was cut has a write event registered or coming.
THEOREM ServerWakesCutStreams == Spec => []CutStreamIsWoken
  <1>1. ServerInv => CutStreamIsWoken
    BY DEF ServerInv, CutInv
  <1> QED
    BY <1>1, ServerInvariant, PTL

-----------------------------------------------------------------------------
(* The messages: cache, requests and streams. *)

Asking == {r \in [first : 0 .. LAST, last : 0 .. LAST] : r.first < r.last}
Ranges == [first : Nat, last : Nat]
Pieces == [packet : Nat, half : {1, 2}]
Piece(r, k) == [packet |-> r.first + ((k - 1) \div 2), half |-> 1 + ((k - 1) % 2)]

\* Its slot has the number of the message with index j.
Named(j) == sequence[Slot(j)] = Narrow(j)

\* The cache holds the newest messages, each in its slot, and a slot that names
\* a message holds that message, unless it names it for being locked, or the
\* message is so old that its number has been given again.
CacheInv ==
    /\ write_index \in Nat /\ counter \in Nat /\ announced \in Nat
    /\ sequence \in [Slots -> Nat] /\ buffer \in [Slots -> Nat]
    /\ putter \in {"idle", "locked", "stored", "put"}
    /\ counter = IF putter \in {"locked", "stored"} THEN write_index + 2 ELSE write_index + 1
    /\ counter <= LAST + 1 /\ announced <= write_index
    /\ putter \in {"locked", "stored"} => sequence[Slot(write_index)] = IS_LOCKED
    /\ putter = "stored" => buffer[Slot(write_index)] = write_index + 1
    /\ \A j \in 0 .. write_index - 1 :
          /\ counter - 1 <= j + CAPACITY => Named(j)
          /\ Fresh(j + 1) /\ Narrow(j) # IS_LOCKED /\ Named(j) => buffer[Slot(j)] = j + 1

\* o is the beginning of the answer to r.
Begins(o, r) == \A k \in 1 .. Len(o) : o[k] = Piece(r, k)

\* The server has not yet sent all that it was asked for.
Active(s) == conn[s].status = "PartialSend" \/ client = s
Owed(s) == Active(s) /\ conn[s].request.first < conn[s].request.last

\* What a client has got is a prefix of the answer, and nothing before the
\* server has its whole request.
PeerInv(s) ==
    /\ net[s].ask \in Asking \cup {NULL} /\ net[s].out \in Seq(Pieces)
    /\ net[s].wire \in Nat /\ net[s].arrived \in Nat /\ conn[s].got \in Nat
    /\ net[s].wire + net[s].arrived + conn[s].got <= 2
    /\ net[s].wire + net[s].arrived + conn[s].got > 0
          => net[s].ask # NULL /\ net[s].out = <<>> /\ ~Owed(s)
    /\ net[s].ask = NULL => net[s].out = <<>>
    /\ net[s].ask # NULL =>
          /\ net[s].ask.last <= announced
          /\ Len(net[s].out) <= 2 * (net[s].ask.last - net[s].ask.first)
          /\ Fresh(net[s].ask.first) => Begins(net[s].out, net[s].ask)

\* The server goes on where what it has sent ends.
RequestInv(s) ==
    /\ Active(s) => conn[s].request \in Ranges /\ conn[s].request.last <= announced
    /\ conn[s].status = "PartialSend" =>
          /\ 1 <= conn[s].request.first /\ conn[s].request.first < conn[s].request.last
          /\ conn[s].packet \in Nat
          /\ Fresh(conn[s].request.first) => conn[s].packet = conn[s].request.first
    /\ conn[s].sent \in {0, 1}
    /\ conn[s].status # "PartialSend" => conn[s].sent = 0
    /\ Owed(s) =>
          /\ net[s].ask # NULL /\ net[s].ask.last = conn[s].request.last
          /\ net[s].ask.first <= conn[s].request.first
          /\ Len(net[s].out) = 2 * (conn[s].request.first - net[s].ask.first) + conn[s].sent

\* The message in hand is the next one, if its slot still names it.
ItemInv ==
    /\ server \in {"packet", "load", "verify"} => Request.first >= 1
    /\ server \in {"load", "verify"} =>
          Request.first < Request.last /\ Narrow(Request.first - 1) # IS_LOCKED
    /\ server = "verify" =>
          /\ item \in Nat
          /\ Fresh(Request.first) /\ StillThere(Request.first - 1) => item = Request.first

\* What a client had got when it was closed: o, and at most a header behind it.
Departed(ask, out, o, end) ==
    /\ o \in Seq(Pieces) /\ end \in Notices /\ out = o \o end
    /\ ask \in Asking \cup {NULL}
    /\ ask = NULL => o = <<>>
    /\ ask # NULL => /\ Len(o) <= 2 * (ask.last - ask.first)
                     /\ Fresh(ask.first) => Begins(o, ask)
LeftInv == /\ DOMAIN left = Sockets
           /\ \A s \in Sockets : \E o, end : Departed(left[s].ask, left[s].out, o, end)

DataInv == /\ CacheInv /\ ItemInv /\ LeftInv
           /\ \A s \in Sockets : PeerInv(s) /\ RequestInv(s)

-----------------------------------------------------------------------------
(* The cache. *)

\* Two numbers less than a lap of C apart have different slots.
LEMMA LapApart ==
    ASSUME NEW C \in Nat \ {0}, NEW a \in Nat, NEW b \in Nat, a < b, b - a < C
    PROVE  a % C # b % C
  <1> DEFINE x == a \div C
             y == b \div C
  <1>1. x \in Int /\ y \in Int
    OBVIOUS
  <1>2. a = C * x + (a % C) /\ b = C * y + (b % C)
    OBVIOUS
  <1> SUFFICES ASSUME a % C = b % C PROVE FALSE
    OBVIOUS
  <1> HIDE DEF x, y
  <1>3. b - a = C * (y - x)
    BY <1>1, <1>2
  <1>4. CASE y - x <= 0
    <2>1. C * (y - x) <= 0
      BY <1>1, <1>4
    <2> QED
      BY <2>1, <1>1, <1>3
  <1>5. CASE y - x >= 1
    <2>1. C * (y - x) >= C
      BY <1>1, <1>5
    <2> QED
      BY <2>1, <1>1, <1>3
  <1> QED
    BY <1>1, <1>4, <1>5

\* Two remainders that differ by a multiple are the same.
LEMMA SameRemainder ==
    ASSUME NEW R \in Nat \ {0}, NEW x \in 0 .. R - 1, NEW y \in 0 .. R - 1, NEW k \in Int,
           y - x = R * k
    PROVE  x = y
  <1>1. CASE k <= -1
    <2>1. R * k <= -R
      BY ONLY <1>1, k \in Int, R \in Nat \ {0}
    <2> QED
      BY <2>1
  <1>2. CASE k = 0
    BY <1>2
  <1>3. CASE k >= 1
    <2>1. R * k >= R
      BY ONLY <1>3, k \in Int, R \in Nat \ {0}
    <2> QED
      BY <2>1
  <1> QED
    BY <1>1, <1>2, <1>3

\* A number and its remainder by a multiple of C have the same remainder by C.
LEMMA RemainderOfRemainder ==
    ASSUME NEW C \in Nat \ {0}, NEW R \in Nat \ {0}, R % C = 0, NEW n \in Nat
    PROVE  (n % R) % C = n % C
  <1> DEFINE m == R \div C
             k == n \div R
             a == n % R
             x == a % C
             y == n % C
  <1>1. m \in Int /\ k \in Int /\ a \in Nat /\ R = C * m /\ n = R * k + a
    OBVIOUS
  <1> HIDE DEF m, k, a
  <1>2. /\ x \in 0 .. C - 1 /\ y \in 0 .. C - 1
        /\ a = C * (a \div C) + x /\ n = C * (n \div C) + y
        /\ a \div C \in Int /\ n \div C \in Int
    BY <1>1
  <1> HIDE DEF x, y
  <1>3. PICK u \in Int, v \in Int : u = a \div C /\ v = n \div C
    BY <1>2
  <1>4. a = C * u + x /\ n = C * v + y
    BY <1>2, <1>3
  <1>5. y - x = C * (m * k + u - v)
    <2>1. PICK w \in Int : w = m * k
      BY <1>1
    <2>2. R * k = C * w
      BY <1>1, <2>1
    <2>3. C * v + y = C * w + (C * u + x)
      BY <1>1, <1>4, <2>2
    <2>4. C * (w + u - v) = C * w + C * u - C * v
      BY ONLY C \in Nat, w \in Int, u \in Int, v \in Int
    <2>5. C * w \in Int /\ C * u \in Int /\ C * v \in Int /\ x \in Int /\ y \in Int
      BY <1>2
    <2>6. y - x = C * (w + u - v)
      BY ONLY <2>3, <2>4, <2>5
    <2> QED
      BY <2>1, <2>6
  <1>6. m * k + u - v \in Int
    BY <1>1, <1>3
  <1>7. x = y
    BY <1>2, <1>5, <1>6, SameRemainder
  <1> QED
    BY <1>7 DEF x, y, a

\* An index names a slot, indices less than a lap apart different ones, and
\* narrowing it does not change its slot.
LEMMA CacheSlots ==
    /\ CAPACITY \in Nat \ {0} /\ INDEX_RANGE \in Nat \ {0} /\ LAST \in Nat /\ IS_LOCKED \in Nat
    /\ \A i \in Nat : Slot(i) \in Slots /\ Narrow(i) \in Nat /\ Slot(Narrow(i)) = Slot(i)
    /\ \A i \in Nat : StillThere(i) <=> Named(i)
    /\ \A a, b \in Nat : a < b /\ b - a < CAPACITY => Slot(a) # Slot(b)
    /\ \A a, b \in Nat : a < b /\ b - a < INDEX_RANGE => Narrow(a) # Narrow(b)
  <1>1. /\ CAPACITY \in Nat \ {0} /\ INDEX_RANGE \in Nat \ {0} /\ LAST \in Nat /\ IS_LOCKED \in Nat
        /\ INDEX_RANGE % CAPACITY = 0
    BY CacheAssumption, ServerAssumption DEF IS_LOCKED
  <1>2. ASSUME NEW i \in Nat PROVE Slot(i) \in Slots /\ Narrow(i) \in Nat
    BY <1>1 DEF Slot, Slots, Narrow
  <1>3. ASSUME NEW i \in Nat PROVE Slot(Narrow(i)) = Slot(i)
    BY <1>1, RemainderOfRemainder DEF Slot, Narrow
  <1>4. ASSUME NEW a \in Nat, NEW b \in Nat, a < b, b - a < CAPACITY
        PROVE  Slot(a) # Slot(b)
    <2>1. a % CAPACITY # b % CAPACITY
      BY <1>1, <1>4, LapApart
    <2> QED
      BY <2>1 DEF Slot
  <1>5. ASSUME NEW a \in Nat, NEW b \in Nat, a < b, b - a < INDEX_RANGE
        PROVE  Narrow(a) # Narrow(b)
    <2>1. a % INDEX_RANGE # b % INDEX_RANGE
      BY <1>1, <1>5, LapApart
    <2> QED
      BY <2>1 DEF Narrow
  <1>6. ASSUME NEW i \in Nat PROVE StillThere(i) <=> Named(i)
    BY <1>3 DEF StillThere, Named
  <1> QED
    BY <1>1, <1>2, <1>3, <1>4, <1>5, <1>6

\* What a step may do to the cache: one access of put_item, or nothing.
LEMMA CacheCases ==
    ASSUME [Next]_vars
    PROVE  \/ UNCHANGED <<cacheVars, counter, announced>>
           \/ /\ LockSlot /\ counter <= LAST /\ counter' = counter + 1 /\ announced' = announced
           \/ StoreItem(counter - 1) /\ UNCHANGED <<counter, announced>>
           \/ ReleaseSlot /\ UNCHANGED <<counter, announced>>
           \/ /\ putter = "put" /\ putter' = "idle" /\ announced' = counter - 1
              /\ UNCHANGED <<write_index, sequence, buffer, counter>>
  <1>1. CASE Exchange
    BY <1>1 DEF Exchange, StartExchange, GenerateMessage, CacheMessage, Broadcast, ExchangeStops
  <1>2. CASE ~Exchange
    BY <1>2, ZenonT(60) DEF Next, Server, Ended, StartServer, StartServerFails, WaitForEvents, AcceptOne,
         AcceptedAll, HandleRequest, ResumeSend, NextPacket, LoadItem, VerifyAndSend,
         ClientEventFails, AssertFails, CloseServer, Environment, Connect, Arrive, Vanish,
         Ask, RequestStop, vars, exchangeVars
  <1> QED
    BY <1>1, <1>2

\* put_item: a slot is locked from before its message is changed until after,
\* and never gets the number of an older message again, as long as that is not
\* INDEX_RANGE messages old.
LEMMA CacheStep ==
    ASSUME CacheInv, [Next]_vars
    PROVE  /\ CacheInv' /\ announced <= announced' /\ counter <= counter'
           /\ \A i \in 0 .. write_index - 1 :
                 Fresh(i + 1)' /\ Narrow(i) # IS_LOCKED /\ Named(i)' => Named(i)
  <1>a. /\ write_index \in Nat /\ counter \in Nat /\ announced \in Nat
        /\ sequence \in [Slots -> Nat] /\ buffer \in [Slots -> Nat]
        /\ counter = IF putter \in {"locked", "stored"} THEN write_index + 2 ELSE write_index + 1
        /\ counter <= LAST + 1 /\ announced <= write_index
        /\ putter \in {"locked", "stored"} => sequence[Slot(write_index)] = IS_LOCKED
        /\ putter = "stored" => buffer[Slot(write_index)] = write_index + 1
        /\ putter \in {"idle", "locked", "stored", "put"}
    BY DEF CacheInv
  <1>b. \A j \in 0 .. write_index - 1 :
          /\ counter - 1 <= j + CAPACITY => Named(j)
          /\ Fresh(j + 1) /\ Narrow(j) # IS_LOCKED /\ Named(j) => buffer[Slot(j)] = j + 1
    BY DEF CacheInv
  <1>c. /\ CAPACITY \in Nat \ {0} /\ INDEX_RANGE \in Nat \ {0} /\ LAST \in Nat /\ IS_LOCKED \in Nat
        /\ \A i \in Nat : Slot(i) \in Slots /\ Narrow(i) \in Nat
    BY CacheSlots
  <1>d. ASSUME NEW j \in 0 .. write_index - 1, counter - 1 <= j + CAPACITY,
               putter \in {"locked", "stored"}
        PROVE  Slot(j) # Slot(write_index)
    <2>1. j \in Nat /\ j < write_index /\ write_index - j < CAPACITY
      BY <1>a, <1>c, <1>d
    <2> QED
      BY <2>1, <1>a, CacheSlots
  <1>e. \A j \in 0 .. write_index - 1 : j \in Nat /\ j # write_index /\ Slot(j) \in Slots
    BY <1>a, <1>c
  <1>f. ASSUME NEW j \in 0 .. write_index - 1, counter <= counter', counter' \in Nat, Fresh(j + 1)'
        PROVE  Fresh(j + 1)
    BY <1>a, <1>c, <1>f DEF Fresh
  <1>1. CASE UNCHANGED <<cacheVars, counter, announced>>
    BY <1>1, <1>a, <1>b DEF cacheVars, CacheInv, Named, Fresh
  <1>2. CASE /\ LockSlot /\ counter <= LAST /\ counter' = counter + 1 /\ announced' = announced
    <2>1. /\ putter = "idle" /\ putter' = "locked" /\ UNCHANGED <<write_index, buffer>>
          /\ sequence' = [sequence EXCEPT ![Slot(write_index)] = IS_LOCKED]
      BY <1>2 DEF LockSlot
    <2>2. /\ sequence' \in [Slots -> Nat] /\ sequence'[Slot(write_index)] = IS_LOCKED
          /\ \A s \in Slots \ {Slot(write_index)} : sequence'[s] = sequence[s]
      BY <2>1, <1>a, <1>c
    <2>3. ASSUME NEW j \in 0 .. write_index - 1, Narrow(j) # IS_LOCKED, Named(j)'
          PROVE  Named(j)
      BY <2>2, <2>3, <1>e DEF Named
    <2>4. ASSUME NEW j \in 0 .. write_index - 1, counter' - 1 <= j + CAPACITY
          PROVE  Named(j)'
      <3>1. j \in Nat /\ j < write_index /\ write_index - j < CAPACITY /\ counter - 1 <= j + CAPACITY
        BY <2>1, <2>4, <1>2, <1>a, <1>c
      <3>2. Slot(j) # Slot(write_index)
        BY <3>1, <1>a, CacheSlots
      <3>3. Named(j)
        BY <3>1, <1>b
      <3> QED
        BY <2>2, <3>2, <3>3, <1>e DEF Named
    <2>5. counter' \in Nat /\ counter' = write_index + 2 /\ counter' <= LAST + 1 /\ counter <= counter'
      BY <2>1, <1>2, <1>a, <1>c
    <2>6. ASSUME NEW j \in 0 .. write_index - 1, Fresh(j + 1)', Narrow(j) # IS_LOCKED, Named(j)'
          PROVE  buffer'[Slot(j)] = j + 1
      BY <2>1, <2>3, <2>5, <2>6, <1>b, <1>f
    <2> QED
      BY <2>1, <2>2, <2>3, <2>4, <2>5, <2>6, <1>2, <1>a DEF CacheInv
  <1>3. CASE StoreItem(counter - 1) /\ UNCHANGED <<counter, announced>>
    <2>1. /\ putter = "locked" /\ putter' = "stored" /\ UNCHANGED <<write_index, sequence>>
          /\ buffer' = [buffer EXCEPT ![Slot(write_index)] = counter - 1]
          /\ counter - 1 = write_index + 1
      BY <1>3, <1>a DEF StoreItem
    <2>2. /\ buffer' \in [Slots -> Nat] /\ buffer'[Slot(write_index)] = write_index + 1
          /\ \A s \in Slots \ {Slot(write_index)} : buffer'[s] = buffer[s]
      BY <2>1, <1>a, <1>c
    <2>3. ASSUME NEW j \in 0 .. write_index - 1, Fresh(j + 1), Narrow(j) # IS_LOCKED, Named(j)
          PROVE  buffer'[Slot(j)] = j + 1
      <3>1. Slot(j) # Slot(write_index)
        BY <2>1, <2>3, <1>a DEF Named
      <3> QED
        BY <2>2, <2>3, <3>1, <1>b, <1>e
    <2>4. \A j \in 0 .. write_index - 1 : (Named(j)' <=> Named(j)) /\ (Fresh(j + 1)' <=> Fresh(j + 1))
      BY <2>1, <1>3 DEF Named, Fresh
    <2> QED
      BY <2>1, <2>2, <2>3, <2>4, <1>3, <1>a, <1>b DEF CacheInv
  <1>4. CASE ReleaseSlot /\ UNCHANGED <<counter, announced>>
    <2>1. /\ putter = "stored" /\ putter' = "put" /\ write_index' = write_index + 1
          /\ buffer' = buffer
          /\ sequence' = [sequence EXCEPT ![Slot(write_index)] = Narrow(write_index)]
      BY <1>4 DEF ReleaseSlot
    <2>2. /\ sequence' \in [Slots -> Nat] /\ sequence'[Slot(write_index)] = Narrow(write_index)
          /\ \A s \in Slots \ {Slot(write_index)} : sequence'[s] = sequence[s]
      BY <2>1, <1>a, <1>c
    <2>3. ASSUME NEW j \in 0 .. write_index - 1, Fresh(j + 1)', Named(j)'
          PROVE  Named(j)
      <3>1. j \in Nat /\ j < write_index /\ write_index - j < INDEX_RANGE
        BY <2>1, <2>3, <1>4, <1>a, <1>c DEF Fresh
      <3>2. Narrow(j) # Narrow(write_index)
        BY <3>1, <1>a, CacheSlots
      <3> QED
        BY <2>2, <2>3, <3>2, <1>e DEF Named
    <2>4. ASSUME NEW j \in 0 .. write_index' - 1
          PROVE  /\ counter' - 1 <= j + CAPACITY => Named(j)'
                 /\ Fresh(j + 1)' /\ Narrow(j) # IS_LOCKED /\ Named(j)' => buffer'[Slot(j)] = j + 1
      <3>1. CASE j = write_index
        BY <3>1, <2>1, <2>2, <1>a DEF Named
      <3>2. CASE j # write_index
        <4>1. j \in 0 .. write_index - 1
          BY <2>1, <3>2, <1>a
        <4>2. ASSUME counter' - 1 <= j + CAPACITY PROVE Named(j)'
          BY <2>1, <2>2, <4>1, <4>2, <1>4, <1>b, <1>d, <1>e DEF Named
        <4>3. Fresh(j + 1)' => Fresh(j + 1)
          BY <1>4 DEF Fresh
        <4> QED
          BY <2>1, <2>3, <4>1, <4>2, <4>3, <1>b
      <3> QED
        BY <3>1, <3>2
    <2>5. /\ write_index' \in Nat /\ counter' = write_index' + 1 /\ announced' <= write_index'
          /\ counter <= counter'
      BY <2>1, <1>4, <1>a
    <2> QED
      BY <2>1, <2>2, <2>3, <2>4, <2>5, <1>4, <1>a DEF CacheInv
  <1>5. CASE /\ putter = "put" /\ putter' = "idle" /\ announced' = counter - 1
             /\ UNCHANGED <<write_index, sequence, buffer, counter>>
    <2>1. /\ announced' \in Nat /\ announced <= announced' /\ announced' <= write_index
          /\ counter <= counter'
      BY <1>5, <1>a
    <2>2. \A j \in 0 .. write_index - 1 : (Named(j)' <=> Named(j)) /\ (Fresh(j + 1)' <=> Fresh(j + 1))
      BY <1>5 DEF Named, Fresh
    <2> QED
      BY <2>1, <2>2, <1>5, <1>a, <1>b DEF CacheInv
  <1> QED
    BY <1>1, <1>2, <1>3, <1>4, <1>5, CacheCases

-----------------------------------------------------------------------------
(* Bytes: a request that is sent and parsed is the request. *)

(* closed-hash-map.hpp: linear probing with tombstones.  An entry is where *)
(* a search for its key gets to, whatever came and went before it.         *)
\* A set of numbers that is not empty has a least one.
LEMMA LeastNat ==
    ASSUME NEW T, T \subseteq Nat, T # {}
    PROVE  \E m \in T : \A k \in T : m <= k
  <1> DEFINE R == OpToRel(<, Nat)
  <1>1. IsWellFoundedOn(R, Nat)
    BY NatLessThanWellFounded, Zenon
  <1>2. \A x \in Nat, y \in Nat : <<y, x>> \in R <=> y < x
    BY DEF OpToRel
  <1> HIDE DEF R
  <1>3. PICK m \in T : \A y \in T : ~(<<y, m>> \in R)
    BY <1>1, WFMin
  <1>4. ASSUME NEW k \in T PROVE m <= k
    <2>1. m \in Nat /\ k \in Nat /\ ~(<<k, m>> \in R)
      BY <1>3
    <2>2. ~(k < m)
      BY <2>1, <1>2
    <2> QED
      BY <2>1, <2>2
  <1> QED
    BY <1>4

(* The binary protocol: a message decodes to the event it was encoded from. *)
\* Dividing twice.
LEMMA DivDiv ==
    ASSUME NEW n \in Nat, NEW P \in Nat \ {0}, NEW B \in Nat \ {0}
    PROVE  n \div (B * P) = (n \div P) \div B
  <1>1. PICK a \in Int, r \in 0 .. P - 1 : a = n \div P /\ n = P * a + r
    <2>1. n \div P \in Int /\ n % P \in 0 .. P - 1 /\ n = P * (n \div P) + (n % P)
      OBVIOUS
    <2> QED
      BY <2>1
  <1>2. PICK c \in Int, s \in 0 .. B - 1 : c = a \div B /\ a = B * c + s
    <2>1. a \div B \in Int /\ a % B \in 0 .. B - 1 /\ a = B * (a \div B) + (a % B)
      BY ONLY a \in Int, B \in Nat \ {0}
    <2> QED
      BY <2>1
  <1>3. PICK R \in Nat \ {0} : R = B * P
    <2>1. B * P \in Nat \ {0}
      BY ONLY B \in Nat \ {0}, P \in Nat \ {0}
    <2> QED
      BY <2>1
  <1>4. PICK x \in 0 .. R - 1, k \in Int : k = n \div R /\ n = R * k + x
    <2>1. n \div R \in Int /\ n % R \in 0 .. R - 1 /\ n = R * (n \div R) + (n % R)
      BY ONLY n \in Nat, R \in Nat \ {0}
    <2> QED
      BY <2>1
  <1>5. PICK y \in Int : y = P * s + r
    OBVIOUS
  <1>6. y \in 0 .. R - 1
    <2>1. PICK t \in Nat : t = P * s
      <3>1. P * s \in Nat
        OBVIOUS
      <3> QED
        BY <3>1
    <2>2. t + P <= R
      <3>1. PICK u \in Nat : u = B - 1 - s
        OBVIOUS
      <3>2. B = s + 1 + u
        BY <3>1
      <3>3. R = P * s + P + P * u
        BY ONLY <3>2, <1>3, u \in Nat, s \in 0 .. B - 1, P \in Nat \ {0}, B \in Nat \ {0}
      <3>4. P * u \in Nat
        BY ONLY u \in Nat, P \in Nat \ {0}
      <3> QED
        BY ONLY <3>3, <3>4, <2>1, t \in Nat, P \in Nat \ {0}, R \in Nat
    <2> QED
      BY ONLY <2>1, <2>2, <1>5, t \in Nat, r \in 0 .. P - 1, P \in Nat \ {0}, R \in Nat
  <1>7. n = R * c + y
    <2>1. P * a = P * (B * c) + P * s
      <3>1. PICK e \in Int : e = B * c
        OBVIOUS
      <3>2. a = e + s /\ s \in Int
        BY <3>1, <1>2
      <3>3. P * (e + s) = P * e + P * s
        BY ONLY <3>2, P \in Nat, e \in Int
      <3> QED
        BY <3>1, <3>2, <3>3
    <2>2. P * (B * c) = R * c
      BY ONLY <1>3, P \in Nat, B \in Nat, c \in Int
    <2>3. PICK u \in Int, v \in Int, z \in Int : u = P * a /\ v = R * c /\ z = P * s
      OBVIOUS
    <2>4. u = v + z /\ n = u + r /\ y = z + r
      BY <2>1, <2>2, <2>3, <1>1, <1>5
    <2> QED
      BY ONLY <2>3, <2>4, n \in Nat, u \in Int, v \in Int, z \in Int, r \in 0 .. P - 1, P \in Nat
  <1>8. k = c
    <2>1. y - x = R * (k - c)
      <3>1. PICK u \in Int, v \in Int : u = R * k /\ v = R * c
        OBVIOUS
      <3>2. R * (k - c) = u - v
        BY ONLY <3>1, R \in Nat, k \in Int, c \in Int
      <3>3. n = u + x /\ n = v + y
        BY <3>1, <1>4, <1>7
      <3>4. x \in Int /\ y \in Int
        OBVIOUS
      <3> QED
        BY ONLY <3>2, <3>3, <3>4, u \in Int, v \in Int, n \in Nat
    <2>2. x = y
      <3>1. k - c \in Int
        OBVIOUS
      <3> QED
        BY ONLY <2>1, <3>1, <1>6, R \in Nat \ {0}, x \in 0 .. R - 1, SameRemainder
    <2>3. R * (k - c) = 0
      BY ONLY <2>1, <2>2, x \in 0 .. R - 1, R \in Nat \ {0}
    <2> QED
      BY ONLY <2>3, R \in Nat \ {0}, k \in Int, c \in Int
  <1> QED
    BY <1>1, <1>2, <1>3, <1>4, <1>8

\* The bytes of n, in `bytes' of them.
Bytes(n, k, s) == Len(s) = k /\ \A i \in 1 .. k : s[i] = (n \div BYTE ^ (k - i)) % BYTE
\* The values Host() goes through.
Values(s, f) == f = [i \in 0 .. Len(s) |-> IF i = 0 THEN 0 ELSE f[i - 1] * BYTE + s[i]]

\* Two runs through the same bytes agree.
LEMMA ValuesUnique ==
    ASSUME NEW s, NEW k \in Nat, Len(s) = k, NEW f, Values(s, f), NEW g, Values(s, g)
    PROVE  f[k] = g[k]
  <1> DEFINE T == {i \in 0 .. k : f[i] # g[i]}
  <1>1. SUFFICES ASSUME T # {} PROVE FALSE
    OBVIOUS
  <1>2. PICK m \in T : \A i \in T : m <= i
    <2>1. T \subseteq Nat
      OBVIOUS
    <2> HIDE DEF T
    <2> QED
      BY <1>1, <2>1, LeastNat
  <1>3. m \in 0 .. k /\ f[m] # g[m]
    OBVIOUS
  <1>4. m # 0
    BY <1>3 DEF Values
  <1>5. m - 1 \in 0 .. k /\ m - 1 \notin T
    BY <1>2, <1>3, <1>4
  <1>6. f[m - 1] = g[m - 1]
    BY <1>5
  <1>7. f[m] = f[m - 1] * BYTE + s[m] /\ g[m] = g[m - 1] * BYTE + s[m]
    BY <1>3, <1>4 DEF Values
  <1> QED
    BY <1>3, <1>6, <1>7

\* Host() is where they end.
LEMMA HostIs ==
    ASSUME NEW s, NEW k \in Nat, Len(s) = k, NEW f, Values(s, f)
    PROVE  Host(s) = f[k]
  <1> DEFINE E(g) == Values(s, g)
  <1>1. PICK h : h = CHOOSE g : E(g)
    OBVIOUS
  <1>2. E(f)
    OBVIOUS
  <1>3. E(h)
    <2> HIDE DEF E
    <2> QED BY <1>1, <1>2
  <1>4. Host(s) = h[k]
    BY <1>1 DEF Host, Values
  <1>5. h[k] = f[k]
    BY <1>3, ValuesUnique
  <1> QED
    BY <1>4, <1>5

\* ntohl undoes htonl, ntohll htonll.
LEMMA HostNetwork ==
    ASSUME NEW k \in {ID_BYTES, WORD_BYTES}, NEW n \in Nat, n < BYTE ^ k, NEW s, Bytes(n, k, s)
    PROVE  Host(s) = n
  <1>1. k \in Nat \ {0} /\ BYTE \in Nat \ {0}
    BY WidthAssumption
  <1>2. PICK P : P = [i \in 0 .. k |-> BYTE ^ i]
    OBVIOUS
  <1>3. P[0] = 1 /\ \A i \in 0 .. k : P[i] \in Nat /\ (i < k => P[i + 1] = BYTE * P[i])
    <2>1. \A i \in 0 .. k : BYTE ^ i \in Nat /\ (i < k => BYTE ^ (i + 1) = BYTE * BYTE ^ i)
      BY PowerAssumption
    <2>2. BYTE ^ 0 = 1
      BY PowerAssumption
    <2>3. ASSUME NEW i \in 0 .. k, i < k PROVE i + 1 \in 0 .. k
      BY <2>3, <1>1
    <2>4. \A i \in 0 .. k : P[i] = BYTE ^ i
      BY <1>2
    <2>5. 0 \in 0 .. k
      BY <1>1
    <2>6. P[0] = 1
      BY <2>2, <2>4, <2>5
    <2>7. ASSUME NEW i \in 0 .. k, i < k PROVE P[i + 1] = BYTE * P[i]
      <3>1. i + 1 \in 0 .. k
        BY <2>3, <2>7
      <3>2. PICK j \in 0 .. k : j = i + 1
        BY <3>1
      <3>3. BYTE ^ j = BYTE * BYTE ^ i
        BY <2>1, <2>7, <3>2
      <3> QED
        BY <3>2, <3>3, <2>4
    <2> QED
      BY <2>1, <2>4, <2>6, <2>7
  <1>4. \A i \in 0 .. k : P[i] \in Nat \ {0}
    <2> DEFINE T == {i \in 0 .. k : P[i] = 0}
    <2>1. SUFFICES ASSUME T # {} PROVE FALSE
      BY <1>3
    <2>2. PICK m \in T : \A i \in T : m <= i
      <3>1. T \subseteq Nat
        OBVIOUS
      <3> HIDE DEF T
      <3> QED
        BY <2>1, <3>1, LeastNat
    <2>3. m \in 0 .. k /\ P[m] = 0 /\ m # 0
      BY <1>3
    <2>4. PICK j \in 0 .. k : j = m - 1 /\ j \notin T /\ j < k
      <3>1. m - 1 \in 0 .. k /\ m - 1 < k
        BY <2>3, <1>1
      <3>2. m - 1 \notin T
        BY <2>2, <2>3, <3>1, <1>1
      <3> QED
        BY <3>1, <3>2
    <2>5. P[j] \in Nat \ {0}
      BY <2>4, <1>3
    <2>6. P[m] = BYTE * P[j]
      <3>1. m = j + 1
        BY <2>3, <2>4, <1>1
      <3> QED
        BY <3>1, <2>4, <1>3
    <2>7. PICK a \in Nat \ {0}, b \in Nat \ {0} : a = P[j] /\ b = BYTE
      BY <2>5, <1>1
    <2>8. b * a # 0
      BY ONLY a \in Nat \ {0}, b \in Nat \ {0}
    <2> QED
      BY <2>3, <2>6, <2>7, <2>8
  <1>5. PICK f : f = [i \in 0 .. k |-> n \div P[k - i]]
    OBVIOUS
  <1>6. \A i \in 0 .. k : f[i] = n \div P[k - i] /\ k - i \in 0 .. k
    BY <1>1, <1>5
  <1>7. f[0] = 0 /\ f[k] = n
    <2>1. f[0] = n \div P[k] /\ f[k] = n \div P[0]
      <3>1. k - 0 = k /\ k - k = 0 /\ 0 \in 0 .. k /\ k \in 0 .. k
        BY <1>1
      <3> QED
        BY <3>1, <1>6
    <2>2. n \div 1 = n
      OBVIOUS
    <2>3. n < P[k] /\ P[k] \in Nat \ {0}
      BY <1>1, <1>2, <1>4
    <2>4. n \div P[k] = 0
      <3>1. PICK p \in Nat \ {0} : p = P[k]
        BY <2>3
      <3>2. n \div p = 0
        BY ONLY <3>1, <2>3, n \in Nat, p \in Nat \ {0}
      <3> QED
        BY <3>1, <3>2
    <2> QED
      BY <2>1, <2>2, <2>4, <1>3
  <1>8. ASSUME NEW i \in 1 .. k PROVE f[i] = f[i - 1] * BYTE + s[i]
    <2>1. PICK p \in Nat \ {0}, B \in Nat \ {0}, a \in Nat : p = P[k - i] /\ B = BYTE /\ a = n \div p
      <3>1. k - i \in 0 .. k
        BY <1>1
      <3>2. PICK p \in Nat \ {0} : p = P[k - i]
        BY <3>1, <1>4
      <3>3. n \div p \in Nat
        BY ONLY n \in Nat, p \in Nat \ {0}
      <3> QED
        BY <3>2, <3>3, <1>1
    <2>2. f[i] = a
      BY <2>1, <1>1, <1>6
    <2>3. f[i - 1] = a \div B
      <3>1. PICK j \in 0 .. k : j = k - i /\ j < k /\ k - (i - 1) = j + 1
        BY <1>1
      <3>2. P[k - (i - 1)] = B * p
        BY <3>1, <2>1, <1>3
      <3>3. i - 1 \in 0 .. k
        BY <1>1
      <3>4. f[i - 1] = n \div (B * p)
        BY <3>2, <3>3, <1>6
      <3> QED
        BY <3>4, <2>1, DivDiv
    <2>4. s[i] = a % B
      <3>1. s[i] = (n \div BYTE ^ (k - i)) % BYTE
        BY DEF Bytes
      <3>2. BYTE ^ (k - i) = p
        BY <2>1, <1>1, <1>2
      <3> QED
        BY <3>1, <3>2, <2>1
    <2>5. a \div B \in Int /\ a % B \in 0 .. B - 1 /\ a = B * (a \div B) + (a % B)
      <3>1. a \in Int
        OBVIOUS
      <3> QED
        BY ONLY <3>1, B \in Nat \ {0}
    <2>6. PICK x \in Int, y \in Int : x = a \div B /\ y = a % B
      BY <2>5
    <2>7. a = x * B + y
      BY ONLY <2>5, <2>6, a \in Nat, B \in Nat, x \in Int, y \in Int
    <2> QED
      BY <2>1, <2>2, <2>3, <2>4, <2>6, <2>7
  <1>9. Len(s) = k
    BY DEF Bytes
  <1>10. Values(s, f)
    <2>1. f = [i \in 0 .. k |-> f[i]]
      BY <1>5
    <2>2. \A i \in 0 .. k : f[i] = IF i = 0 THEN 0 ELSE f[i - 1] * BYTE + s[i]
      BY <1>1, <1>7, <1>8
    <2> QED
      BY <2>1, <2>2, <1>9 DEF Values
  <1> QED
    BY <1>1, <1>7, <1>9, <1>10, HostIs

\* A field of a message.
LEMMA FieldIs ==
    ASSUME NEW S, NEW w \in Seq(S), NEW off \in Nat, NEW k \in Nat, off + k <= Len(w),
           NEW f, f = Field(w, off, k)
    PROVE  Len(f) = k /\ \A i \in 1 .. k : f[i] = w[off + i]
  <1>1. PICK l \in Nat : l = Len(w)
    BY LenProperties
  <1>2. PICK m \in Int, n \in Int : m = off + 1 /\ n = off + k
    OBVIOUS
  <1>3. ASSUME NEW i \in m .. n PROVE w[i] \in S
    <2>1. i \in 1 .. Len(w)
      BY ONLY <1>1, <1>2, i \in m .. n, m \in Int, n \in Int, off \in Nat, k \in Nat, off + k <= Len(w), l \in Nat
    <2> QED
      BY <2>1, ElementOfSeq
  <1>4. f = SubSeq(w, m, n)
    BY <1>2 DEF Field
  <1>5. /\ Len(f) = IF m <= n THEN n - m + 1 ELSE 0
        /\ \A i \in 1 .. n - m + 1 : f[i] = w[m + i - 1]
    BY ONLY <1>3, <1>4, SubSeqProperties, SMTT(60)
  <1>6. Len(f) = k
    BY ONLY <1>2, <1>5, off \in Nat, k \in Nat
  <1>7. ASSUME NEW i \in 1 .. k PROVE f[i] = w[off + i]
    <2>1. i \in 1 .. n - m + 1 /\ m + i - 1 = off + i
      BY ONLY <1>2, off \in Nat, k \in Nat, i \in 1 .. k
    <2> QED
      BY <2>1, <1>5
  <1> QED
    BY <1>6, <1>7

\* Two sequences, one behind the other.
Part(s, S, n) == s \in Seq(S) /\ Len(s) = n /\ n \in Nat
\* u is t behind s.
Follows(u, s, t) == u = s \o t
\* Where the elements of s and t are found in u.
Joins(u, s, m, t, n) == /\ \A i \in 1 .. m : u[i] = s[i]
                        /\ \A i \in 1 .. n : u[m + i] = t[i]

\* Concatenation, in those terms.
LEMMA Joining ==
    ASSUME NEW S, NEW s, NEW m, Part(s, S, m), NEW t, NEW n, Part(t, S, n), NEW u, Follows(u, s, t)
    PROVE  Part(u, S, m + n) /\ Joins(u, s, m, t, n)
  <1>0. /\ s \in Seq(S) /\ t \in Seq(S) /\ Len(s) = m /\ Len(t) = n /\ m \in Nat /\ n \in Nat
        /\ u = s \o t
    BY DEF Part, Follows
  <1>1. /\ u \in Seq(S) /\ Len(u) = m + n
        /\ \A i \in 1 .. m + n : u[i] = IF i <= m THEN s[i] ELSE t[i - m]
    BY <1>0, ConcatProperties, ZenonT(60)
  <1>2. ASSUME NEW i \in 1 .. m PROVE u[i] = s[i]
    BY <1>0, <1>1
  <1>3. ASSUME NEW i \in 1 .. n PROVE u[m + i] = t[i]
    <2>1. PICK j \in 1 .. m + n : j = m + i /\ ~(j <= m) /\ j - m = i
      BY <1>0
    <2> QED
      BY <2>1, <1>1
  <1> QED
    BY <1>0, <1>1, <1>2, <1>3 DEF Part, Joins

\* The bytes htonl() writes are a sequence.
LEMMA NetworkSeq ==
    ASSUME NEW n, NEW k \in Nat, NEW s, s = Network(n, k)
    PROVE  \E S : s \in Seq(S) /\ Len(s) = k /\ Bytes(n, k, s)
  <1>1. s = [i \in 1 .. k |-> (n \div BYTE ^ (k - i)) % BYTE]
    BY DEF Network
  <1>2. PICK S : S = {s[i] : i \in 1 .. k}
    OBVIOUS
  <1>3. s \in [1 .. k -> S]
    BY <1>1, <1>2
  <1>4. s \in Seq(S)
    BY <1>3, SeqDef
  <1>5. Len(s) = k
    BY <1>1, <1>4, LenProperties
  <1> QED
    BY <1>1, <1>4, <1>5 DEF Bytes

\* A field that is bytes reads as their number.
Holding(w, off, k, s) == \A i \in 1 .. k : w[off + i] = s[i]

\* Reading a field back gives what was written there.
LEMMA FieldHost ==
    ASSUME NEW S, NEW w \in Seq(S), NEW off \in Nat, NEW k \in {ID_BYTES, WORD_BYTES}, off + k <= Len(w),
           NEW n \in Nat, n < BYTE ^ k, NEW s, Bytes(n, k, s), Holding(w, off, k, s)
    PROVE  Host(Field(w, off, k)) = n
  <1>1. PICK f : f = Field(w, off, k)
    OBVIOUS
  <1>2. k \in Nat
    BY WidthAssumption
  <1>3. Len(f) = k /\ \A i \in 1 .. k : f[i] = w[off + i]
    BY <1>1, <1>2, FieldIs
  <1>4. Bytes(n, k, f)
    BY <1>3 DEF Bytes, Holding
  <1> QED
    BY <1>1, <1>4, HostNetwork

\* RetransmitRequest: parse() gives back what serialize() was given.
LEMMA RequestRoundTrip ==
    ASSUME NEW r \in [first : 0 .. LAST, last : 0 .. LAST]
    PROVE  parse(serialize(r)) = r
  <1>1. PICK f \in 0 .. LAST, l \in 0 .. LAST : r = [first |-> f, last |-> l]
    OBVIOUS
  <1>2. PICK x \in Nat \ {0} : x = ID_BYTES
    BY WidthAssumption
  <1>3. f \in Nat /\ f < BYTE ^ x /\ l \in Nat /\ l < BYTE ^ x
    <2>1. PICK X \in Nat : X = BYTE ^ x
      <3>1. \A n \in 0 .. x : BYTE ^ n \in Nat
        BY <1>2, PowerAssumption
      <3> QED
        BY <3>1
    <2>2. LAST \in Nat /\ LAST < X
      BY <1>2, <2>1, ServerAssumption, CacheSlots
    <2> QED
      BY ONLY <2>1, <2>2, f \in 0 .. LAST, l \in 0 .. LAST, X \in Nat
  <1>4. PICK a, b, w : a = Network(f, x) /\ b = Network(l, x) /\ w = a \o b
    OBVIOUS
  <1>5. serialize(r) = w
    BY <1>1, <1>2, <1>4 DEF serialize
  <1>6. PICK A, B : a \in Seq(A) /\ Len(a) = x /\ Bytes(f, x, a) /\ b \in Seq(B) /\ Len(b) = x /\ Bytes(l, x, b)
    <2>1. \E A : a \in Seq(A) /\ Len(a) = x /\ Bytes(f, x, a)
      BY <1>4, NetworkSeq
    <2>2. \E B : b \in Seq(B) /\ Len(b) = x /\ Bytes(l, x, b)
      BY <1>4, NetworkSeq
    <2> QED
      BY <2>1, <2>2
  <1>7. PICK S : Part(a, S, x) /\ Part(b, S, x)
    <2>1. PICK S : S = A \cup B
      OBVIOUS
    <2>2. A \subseteq S /\ B \subseteq S
      BY <2>1
    <2>3. Part(a, A, x) /\ Part(b, B, x)
      BY <1>6 DEF Part
    <2>4. Seq(A) \subseteq Seq(S) /\ Seq(B) \subseteq Seq(S)
      BY ONLY <2>2
    <2> QED
      BY <2>3, <2>4 DEF Part
  <1>8. Part(w, S, x + x) /\ Joins(w, a, x, b, x)
    <2>1. Follows(w, a, b)
      BY <1>4 DEF Follows
    <2> QED
      BY ONLY <1>7, <2>1, Joining
  <1>9. w \in Seq(S) /\ Len(w) = x + x /\ Holding(w, 0, x, a) /\ Holding(w, x, x, b)
    <2>1. \A i \in 1 .. x : 0 + i = i
      OBVIOUS
    <2> QED
      BY <1>8, <2>1 DEF Part, Joins, Holding
  <1>10. 0 \in Nat /\ x \in {ID_BYTES, WORD_BYTES} /\ 0 + x <= Len(w) /\ x + x <= Len(w)
    BY <1>2, <1>9
  <1>11. Host(Field(w, 0, x)) = f
    BY ONLY <1>3, <1>6, <1>9, <1>10, FieldHost, ZenonT(60)
  <1>12. Host(Field(w, x, x)) = l
    BY ONLY <1>3, <1>6, <1>9, <1>10, x \in Nat, FieldHost, ZenonT(60)
  <1>13. parse(w) = [first |-> Host(Field(w, 0, x)), last |-> Host(Field(w, x, x))]
    BY <1>2 DEF parse
  <1> QED
    BY <1>1, <1>5, <1>11, <1>12, <1>13

-----------------------------------------------------------------------------
(* Requests and the pieces of their answers. *)

\* The parser gets the request that was sent.
LEMMA AskFacts ==
    ASSUME NEW r \in Asking
    PROVE  /\ r.first \in Nat /\ r.last \in Nat /\ r.first < r.last
           /\ r \in Ranges /\ parse(serialize(r)) = r
  <1>1. /\ r \in [first : 0 .. LAST, last : 0 .. LAST] /\ r.first < r.last
        /\ r.first \in 0 .. LAST /\ r.last \in 0 .. LAST
    BY DEF Asking
  <1>2. r = [first |-> r.first, last |-> r.last]
    BY <1>1
  <1>3. parse(serialize(r)) = r
    BY <1>1, RequestRoundTrip
  <1>4. r.first \in Nat /\ r.last \in Nat
    BY <1>1, CacheSlots
  <1> QED
    BY <1>1, <1>2, <1>3, <1>4 DEF Ranges

\* A request whose next message has been sent asks for the others.
LEMMA RangeFacts ==
    ASSUME NEW r \in Ranges
    PROVE  /\ r.first \in Nat /\ r.last \in Nat
           /\ LET q == [r EXCEPT !.first = r.first + 1]
              IN  q \in Ranges /\ q.first = r.first + 1 /\ q.last = r.last
  BY DEF Ranges

\* Behind the first m of m + n places.
LEMMA PastTheEnd ==
    ASSUME NEW m \in Nat, NEW n \in Nat, NEW k \in 1 .. m + n, ~(k <= m)
    PROVE  \E h \in 1 .. n : k = m + h
  <1>1. k - m \in 1 .. n /\ k = m + (k - m)
    OBVIOUS
  <1> QED
    BY <1>1

\* Dividing by two.
LEMMA Halves ==
    ASSUME NEW d \in Nat
    PROVE  /\ (2 * d) \div 2 = d /\ (2 * d) % 2 = 0
           /\ (2 * d + 1) \div 2 = d /\ (2 * d + 1) % 2 = 1
  OBVIOUS

\* The two halves of message f in the answer to r.
LEMMA PieceOfMessage ==
    ASSUME NEW r \in Asking, NEW f \in Nat, r.first <= f, NEW j \in {1, 2}, NEW k \in Nat,
           k = 2 * (f - r.first) + j
    PROVE  Piece(r, k) = [packet |-> f, half |-> j]
  <1> DEFINE d == f - r.first
  <1>1. r.first \in Nat
    BY AskFacts
  <1>2. d \in Nat /\ r.first + d = f /\ k = 2 * d + j
    BY <1>1
  <1> HIDE DEF d
  <1>3. (k - 1) \div 2 = d /\ 1 + ((k - 1) % 2) = j
    <2>1. CASE j = 1
      <3>1. k - 1 = 2 * d
        BY <1>2, <2>1
      <3> QED
        BY <1>2, <2>1, <3>1, Halves
    <2>2. CASE j = 2
      <3>1. k - 1 = 2 * d + 1
        BY <1>2, <2>2
      <3> QED
        BY <1>2, <2>2, <3>1, Halves
    <2> QED
      BY <2>1, <2>2
  <1> QED
    BY <1>2, <1>3 DEF Piece

\* u is the halves of message f after the first n.
HalvesOf(u, f, n) == \A k \in 1 .. Len(u) : u[k] = [packet |-> f, half |-> n + k]

\* The halves of message f that are left to send go on with the answer to r.
LEMMA PiecesGoOn ==
    ASSUME NEW r \in Asking, NEW f \in Nat, r.first <= f, NEW sent \in {0, 1},
           NEW o \in Seq(Pieces), Len(o) = 2 * (f - r.first) + sent, Begins(o, r),
           NEW u \in Seq(Pieces), Len(u) <= 2 - sent, HalvesOf(u, f, sent)
    PROVE  o \o u \in Seq(Pieces) /\ Len(o \o u) = Len(o) + Len(u) /\ Begins(o \o u, r)
  <1>5. /\ \A k \in 1 .. Len(o) : o[k] = Piece(r, k)
        /\ \A k \in 1 .. Len(u) : u[k] = [packet |-> f, half |-> sent + k]
    BY DEF Begins, HalvesOf
  <1>1. /\ o \o u \in Seq(Pieces) /\ Len(o \o u) = Len(o) + Len(u)
        /\ \A i \in 1 .. Len(o) + Len(u) :
              (o \o u)[i] = IF i <= Len(o) THEN o[i] ELSE u[i - Len(o)]
    BY ConcatProperties
  <1>2. Len(o) \in Nat /\ Len(u) \in Nat /\ r.first \in Nat
    BY LenProperties, AskFacts
  <1>4. Len(u) <= 2 - sent /\ sent \in Nat /\ Len(o) = 2 * (f - r.first) + sent
    OBVIOUS
  <1>3. ASSUME NEW k \in 1 .. Len(o) + Len(u) PROVE (o \o u)[k] = Piece(r, k)
    <2>1. CASE k <= Len(o)
      BY ONLY <1>1, <1>2, <1>5, <2>1, SMTT(60)
    <2>2. CASE ~(k <= Len(o))
      <3>1. PICK h \in 1 .. Len(u) : k = Len(o) + h
        BY <1>2, <2>2, PastTheEnd
      <3>2. (o \o u)[k] = u[h]
        <4>1. k - Len(o) = h
          BY ONLY <1>2, <3>1, SMTT(60)
        <4> QED
          BY <1>1, <2>2, <4>1
      <3>3. sent + h \in {1, 2}
        BY <1>2, <1>4, <3>1
      <3>4. k = 2 * (f - r.first) + (sent + h) /\ k \in Nat
        <4>1. PICK a \in Nat, len \in Nat : a = r.first /\ len = Len(o)
          BY <1>2
        <4>2. len = 2 * (f - a) + sent /\ k = len + h
          BY <1>4, <3>1, <4>1
        <4>3. k = 2 * (f - a) + (sent + h) /\ k \in Nat
          BY <1>4, <4>2
        <4> QED
          BY <4>1, <4>3
      <3>5. Piece(r, k) = [packet |-> f, half |-> sent + h]
        BY <3>3, <3>4, PieceOfMessage, SMTT(60)
      <3> QED
        BY <1>5, <3>1, <3>2, <3>5
    <2> QED
      BY <2>1, <2>2
  <1> QED
    BY <1>1, <1>3 DEF Begins

\* What is left of message f, and what a full socket takes of it.
LEMMA UnsentPieces ==
    ASSUME NEW f \in Nat, NEW sent \in {0, 1}
    PROVE  /\ Unsent(f, sent) \in Seq(Pieces) /\ Len(Unsent(f, sent)) = 2 - sent
           /\ \A k \in 1 .. 2 - sent : Unsent(f, sent)[k] = [packet |-> f, half |-> sent + k]
           /\ \A more \in 0 .. 1 - sent :
                 LET u == SubSeq(Unsent(f, sent), 1, more)
                 IN  /\ u \in Seq(Pieces) /\ Len(u) = more
                     /\ \A k \in 1 .. more : u[k] = [packet |-> f, half |-> sent + k]
  <1> DEFINE w == Unsent(f, sent)
  <1>1. /\ w \in Seq(Pieces) /\ Len(w) = 2 - sent
        /\ \A k \in 1 .. 2 - sent : w[k] = [packet |-> f, half |-> sent + k]
    BY DEF Unsent, Pieces
  <1> HIDE DEF w
  <1>2. ASSUME NEW more \in 0 .. 1 - sent
        PROVE  /\ SubSeq(w, 1, more) \in Seq(Pieces) /\ Len(SubSeq(w, 1, more)) = more
               /\ \A k \in 1 .. more : SubSeq(w, 1, more)[k] = [packet |-> f, half |-> sent + k]
    <2>1. ASSUME NEW i \in 1 .. more PROVE i \in 1 .. 2 - sent /\ w[i] \in Pieces
      <3>1. i \in 1 .. 2 - sent /\ sent + i \in {1, 2}
        OBVIOUS
      <3>2. w[i] = [packet |-> f, half |-> sent + i]
        BY <1>1, <3>1
      <3> QED
        BY <3>1, <3>2 DEF Pieces
    <2>2. /\ SubSeq(w, 1, more) \in Seq(Pieces)
          /\ Len(SubSeq(w, 1, more)) = IF 1 <= more THEN more - 1 + 1 ELSE 0
          /\ \A i \in 1 .. more - 1 + 1 : SubSeq(w, 1, more)[i] = w[1 + i - 1]
      BY <2>1, SubSeqProperties
    <2> QED
      BY <1>1, <2>1, <2>2
  <1> QED
    BY <1>1, <1>2 DEF w

-----------------------------------------------------------------------------
(* The invariant of a connection. *)

SocketInv(s) == PeerInv(s) /\ RequestInv(s)

\* The counters of the exchange never go back.
Grows == /\ announced \in Nat /\ announced' \in Nat /\ announced <= announced'
         /\ counter \in Nat /\ counter' \in Nat /\ counter <= counter'

\* So a message that is fresh has always been.
LEMMA FreshBefore ==
    ASSUME Grows, NEW n \in Nat, counter' <= n + INDEX_RANGE PROVE Fresh(n)
  BY CacheSlots DEF Grows, Fresh

\* A message is as fresh as an older one.
LEMMA FreshAfter ==
    ASSUME counter \in Nat, NEW m \in Nat, NEW n \in Nat, m <= n, Fresh(m) PROVE Fresh(n)
  BY CacheSlots DEF Fresh

\* A connection of which only `open', the peer or the filter changed.
LEMMA SocketSame ==
    ASSUME NEW t \in Sockets, SocketInv(t), Grows, Active(t)' <=> Active(t),
           conn'[t].status = conn[t].status, conn'[t].request = conn[t].request,
           conn'[t].packet = conn[t].packet, conn'[t].sent = conn[t].sent,
           conn'[t].got = conn[t].got, net'[t].ask = net[t].ask, net'[t].out = net[t].out,
           net'[t].wire = net[t].wire, net'[t].arrived = net[t].arrived
    PROVE  SocketInv(t)'
  <1>1. Owed(t)' <=> Owed(t)
    BY DEF Owed
  <1>2. net[t].ask # NULL => net[t].ask.last \in Nat /\ net[t].ask.first \in Nat
    BY AskFacts DEF SocketInv, PeerInv
  <1>3. Active(t) => conn[t].request.last \in Nat /\ conn[t].request.first \in Nat
    BY RangeFacts DEF SocketInv, RequestInv
  <1>6. net[t].ask # NULL =>
          /\ net[t].ask.last <= announced => net[t].ask.last <= announced'
          /\ counter' <= net[t].ask.first + INDEX_RANGE => Fresh(net[t].ask.first)
    BY <1>2, FreshBefore DEF Grows
  <1>7. Active(t) =>
          /\ conn[t].request.last <= announced => conn[t].request.last <= announced'
          /\ counter' <= conn[t].request.first + INDEX_RANGE => Fresh(conn[t].request.first)
    BY <1>3, FreshBefore DEF Grows
  <1>8. net[t].ask # NULL => /\ Fresh(net[t].ask.first)' => Fresh(net[t].ask.first)
                             /\ Begins(net[t].out, net[t].ask)' <=> Begins(net[t].out, net[t].ask)
    BY <1>6 DEF Fresh, Begins
  <1>9. Active(t) => (Fresh(conn[t].request.first)' => Fresh(conn[t].request.first))
    BY <1>7 DEF Fresh
  <1>4. PeerInv(t)'
    BY <1>1, <1>6, <1>8, SMTT(60) DEF SocketInv, PeerInv
  <1>5. RequestInv(t)'
    BY <1>1, <1>7, <1>9 DEF SocketInv, RequestInv, Active
  <1> QED
    BY <1>4, <1>5 DEF SocketInv

\* A connection that was closed, and a peer that is not there.
LEMMA SocketClosed ==
    ASSUME NEW t \in Sockets, conn'[t] = ClosedConnection, net'[t] = NoPeer, client' # t
    PROVE  SocketInv(t)'
  <1>1. /\ conn'[t].status = "Clear" /\ conn'[t].sent = 0 /\ conn'[t].got = 0
        /\ net'[t].ask = NULL /\ net'[t].out = <<>> /\ net'[t].wire = 0 /\ net'[t].arrived = 0
    BY DEF ClosedConnection, NoPeer
  <1>2. ~Active(t)' /\ ~Owed(t)'
    BY <1>1 DEF Active, Owed
  <1>3. <<>> \in Seq(Pieces)
    BY EmptySeq
  <1> QED
    BY <1>1, <1>2, <1>3 DEF SocketInv, PeerInv, RequestInv

\* The server has the whole request, and owes the whole answer.
LEMMA SocketReceivesAll ==
    ASSUME ServerInv, NEW c \in Sockets, SocketInv(c), ReceiveAll(c), client = NULL,
           conn[c].status \in {"Clear", "PartialReceive"},
           Grows
    PROVE  SocketInv(c)'
  <1>1. /\ conn'[c].status = "Clear" /\ conn'[c].sent = conn[c].sent /\ conn'[c].got = 0
        /\ conn'[c].request = parse(serialize(net[c].ask))
        /\ net'[c].arrived = net[c].arrived - (2 - conn[c].got)
        /\ net'[c].ask = net[c].ask /\ net'[c].wire = net[c].wire /\ net'[c].out = net[c].out
    BY ReceiveAllFields DEF ServerInv
  <1>2. /\ conn[c].got + net[c].arrived >= 2 /\ client' = c
        /\ net[c].wire \in Nat /\ net[c].arrived \in Nat /\ conn[c].got \in Nat
        /\ net[c].wire + net[c].arrived + conn[c].got <= 2
    BY DEF ReceiveAll, SocketInv, PeerInv
  <1>3. net[c].wire = 0 /\ net[c].arrived - (2 - conn[c].got) = 0
        /\ net[c].wire + net[c].arrived + conn[c].got > 0
    BY <1>2
  <1>4. net[c].ask \in Asking /\ net[c].out = <<>> /\ net[c].ask # NULL
        /\ net[c].ask.last <= announced /\ conn[c].sent = 0
    BY <1>3 DEF SocketInv, PeerInv, RequestInv
  <1> DEFINE r == net[c].ask
  <1>5. /\ r.first \in Nat /\ r.last \in Nat /\ r.first < r.last /\ r \in Ranges
        /\ parse(serialize(r)) = r
    BY <1>4, AskFacts
  <1>6. conn'[c].request = r /\ net'[c].ask = r /\ net'[c].arrived = 0 /\ net'[c].wire = 0
    BY <1>1, <1>3, <1>5
  <1>7. r.last <= announced'
    BY <1>4, <1>5 DEF Grows
  <1>8. <<>> \in Seq(Pieces) /\ Len(<<>>) = 0 /\ Begins(<<>>, r)
    BY EmptySeq DEF Begins
  <1>9. net'[c].out = <<>> /\ conn'[c].sent = 0 /\ conn'[c].got = 0 /\ conn'[c].status = "Clear"
    BY <1>1, <1>4
  <1> HIDE DEF r
  <1>10. 0 <= 2 * (r.last - r.first) /\ 0 = 2 * (r.first - r.first) + 0
    BY <1>5
  <1>11. PeerInv(c)'
    BY <1>4, <1>5, <1>6, <1>7, <1>8, <1>9, <1>10 DEF PeerInv, r
  <1>12. RequestInv(c)'
    BY <1>4, <1>5, <1>6, <1>7, <1>8, <1>9, <1>10 DEF RequestInv, r
  <1> QED
    BY <1>11, <1>12 DEF SocketInv

\* The server has a part of the request, and has sent nothing.
LEMMA SocketReceivesPart ==
    ASSUME ServerInv, NEW c \in Sockets, SocketInv(c), ReceivePart(c),
           conn[c].status \in {"Clear", "PartialReceive"},
           Grows
    PROVE  SocketInv(c)'
  <1>1. /\ conn'[c].status = "PartialReceive" /\ conn'[c].sent = conn[c].sent
        /\ conn'[c].got = conn[c].got + net[c].arrived /\ net'[c].arrived = 0
        /\ net'[c].ask = net[c].ask /\ net'[c].wire = net[c].wire /\ net'[c].out = net[c].out
    BY ReceivePartFields DEF ServerInv
  <1>2. client' = NULL /\ client' # c
    BY ServerAssumption DEF ReceivePart, HandledEvent
  <1>3. ~Active(c)' /\ ~Owed(c)'
    BY <1>1, <1>2 DEF Active, Owed
  <1>4. /\ net[c].wire \in Nat /\ net[c].arrived \in Nat /\ conn[c].got \in Nat
        /\ net[c].ask # NULL => net[c].ask.last \in Nat /\ net[c].ask.first \in Nat
    BY AskFacts DEF SocketInv, PeerInv
  <1>7. /\ conn'[c].got \in Nat /\ net'[c].arrived \in Nat
        /\ net'[c].wire + net'[c].arrived + conn'[c].got
              = net[c].wire + net[c].arrived + conn[c].got
        /\ net[c].ask # NULL /\ net[c].ask.last <= announced => net[c].ask.last <= announced'
    BY <1>1, <1>4 DEF Grows
  <1>8. net[c].ask # NULL => (counter' <= net[c].ask.first + INDEX_RANGE => Fresh(net[c].ask.first))
    BY <1>4, FreshBefore
  <1>9. net[c].ask # NULL => /\ Fresh(net[c].ask.first)' => Fresh(net[c].ask.first)
                             /\ Begins(net[c].out, net[c].ask)' <=> Begins(net[c].out, net[c].ask)
    BY <1>1, <1>8 DEF Fresh, Begins
  <1>5. PeerInv(c)'
    BY <1>1, <1>3, <1>4, <1>7, <1>9 DEF SocketInv, PeerInv
  <1>6. RequestInv(c)'
    BY <1>1, <1>3 DEF SocketInv, RequestInv
  <1> QED
    BY <1>5, <1>6 DEF SocketInv

\* Nothing on the way is nothing anywhere.
LEMMA NothingLeft ==
    ASSUME NEW a \in Nat, NEW b \in Nat, NEW d \in Nat, ~(a + b + d > 0)
    PROVE  a = 0 /\ b = 0 /\ d = 0
  OBVIOUS

\* A connection that has sent x, the answer to r up to message q.first.
LEMMA SocketSent ==
    ASSUME NEW c \in Sockets, NEW r \in Asking, r # NULL, NEW q \in Ranges,
           NEW x \in Seq(Pieces), NEW n \in {0, 1}, q.last = r.last, q.last <= announced',
           r.first <= q.first, Len(x) = 2 * (q.first - r.first) + n,
           Len(x) <= 2 * (r.last - r.first), Fresh(r.first)' => Begins(x, r),
           conn'[c].request = q, conn'[c].sent = n, conn'[c].got = 0,
           net'[c].ask = r, net'[c].out = x, net'[c].wire = 0, net'[c].arrived = 0,
           \/ conn'[c].status = "Clear" /\ n = 0
           \/ /\ conn'[c].status = "PartialSend" /\ conn'[c].packet \in Nat
              /\ Fresh(q.first)' => conn'[c].packet = q.first
              /\ 1 <= q.first /\ q.first < q.last
    PROVE  SocketInv(c)'
  <1>1. ~(0 + 0 + 0 > 0) /\ 0 + 0 + 0 <= 2 /\ 0 \in Nat
    OBVIOUS
  <1>2. PeerInv(c)'
    BY <1>1 DEF PeerInv
  <1>3. RequestInv(c)'
    BY DEF RequestInv, Owed
  <1> QED
    BY <1>2, <1>3 DEF SocketInv

\* c has got o, and of q's first message n halves, of the answer to r.
Owes(c, r, q, n, o) ==
    /\ r \in Asking /\ q \in Ranges /\ n \in {0, 1} /\ o \in Seq(Pieces)
    /\ net[c].ask = r /\ conn[c].request = q /\ conn[c].sent = n /\ net[c].out = o
    /\ r # NULL /\ q.last = r.last /\ q.last <= announced' /\ r.first <= q.first
    /\ q.first < q.last /\ Len(o) = 2 * (q.first - r.first) + n
    /\ Fresh(r.first) => Begins(o, r)
    /\ net[c].wire = 0 /\ net[c].arrived = 0 /\ conn[c].got = 0

\* What the server is sending, to whom it has sent how much.
LEMMA Sending ==
    ASSUME NEW c \in Sockets, SocketInv(c), Owed(c), Grows
    PROVE  \E r, q, n, o : Owes(c, r, q, n, o)
  <1>1. /\ conn[c].request \in Ranges /\ conn[c].request.last <= announced
        /\ conn[c].sent \in {0, 1} /\ conn[c].request.first < conn[c].request.last
        /\ net[c].ask # NULL /\ conn[c].request.last = net[c].ask.last
        /\ net[c].ask.first <= conn[c].request.first
        /\ Len(net[c].out) = 2 * (conn[c].request.first - net[c].ask.first) + conn[c].sent
    BY DEF SocketInv, RequestInv, Owed
  <1>2. /\ net[c].ask \in Asking /\ net[c].out \in Seq(Pieces)
        /\ Fresh(net[c].ask.first) => Begins(net[c].out, net[c].ask)
        /\ net[c].wire \in Nat /\ net[c].arrived \in Nat /\ conn[c].got \in Nat
        /\ ~(net[c].wire + net[c].arrived + conn[c].got > 0)
    BY <1>1 DEF SocketInv, PeerInv
  <1>3. net[c].wire = 0 /\ net[c].arrived = 0 /\ conn[c].got = 0
    BY ONLY <1>2, SMTT(60)
  <1>4. conn[c].request.last \in Nat
    BY <1>1, RangeFacts
  <1>5. conn[c].request.last <= announced'
    BY <1>1, <1>4 DEF Grows
  <1>6. Owes(c, net[c].ask, conn[c].request, conn[c].sent, net[c].out)
    BY <1>1, <1>2, <1>3, <1>5 DEF Owes
  <1> QED
    BY <1>6

\* What follows in the stream is more of the answer, if the message the server
\* has in hand is the one asked for.
LEMMA AnswerGoesOn ==
    ASSUME counter \in Nat, NEW c, NEW r, NEW q, NEW n, NEW o, Owes(c, r, q, n, o),
           NEW f \in Nat, Fresh(q.first) => f = q.first,
           NEW u \in Seq(Pieces), Len(u) <= 2 - n, HalvesOf(u, f, n)
    PROVE  /\ o \o u \in Seq(Pieces) /\ Len(o \o u) = Len(o) + Len(u)
           /\ Len(o \o u) <= 2 * (r.last - r.first)
           /\ Fresh(r.first) => Begins(o \o u, r)
  <1>1. /\ r \in Asking /\ q \in Ranges /\ n \in {0, 1} /\ o \in Seq(Pieces)
        /\ q.last = r.last /\ r.first <= q.first /\ q.first < q.last
        /\ Len(o) = 2 * (q.first - r.first) + n
        /\ Fresh(r.first) => Begins(o, r)
    BY DEF Owes
  <1>2. r.first \in Nat /\ r.last \in Nat /\ q.first \in Nat /\ Len(o) \in Nat /\ Len(u) \in Nat
    BY <1>1, AskFacts, RangeFacts, LenProperties
  <1>3. o \o u \in Seq(Pieces) /\ Len(o \o u) = Len(o) + Len(u)
    BY <1>1, ConcatProperties
  <1>4. Len(o) + Len(u) <= 2 * (r.last - r.first)
    <2>1. PICK a \in Nat, b \in Nat, g \in Nat, k \in Nat, m \in Nat :
             a = r.first /\ b = r.last /\ g = q.first /\ k = Len(o) /\ m = Len(u)
      BY <1>2
    <2>2. a <= g /\ g < b /\ k = 2 * (g - a) + n /\ m <= 2 - n /\ n \in {0, 1}
      BY <1>1, <2>1
    <2>3. k + m <= 2 * (b - a)
      BY ONLY <2>2, a \in Nat, b \in Nat, g \in Nat, k \in Nat, m \in Nat
    <2> QED
      BY <2>1, <2>3
  <1>5. ASSUME Fresh(r.first) PROVE Begins(o \o u, r)
    <2>1. f = q.first
      BY <1>1, <1>2, <1>5, FreshAfter
    <2>2. r.first <= f /\ Len(o) = 2 * (f - r.first) + n /\ Begins(o, r)
      BY <1>1, <1>5, <2>1
    <2> QED
      BY ONLY <1>1, <2>2, PiecesGoOn, f \in Nat, u \in Seq(Pieces), Len(u) <= 2 - n, HalvesOf(u, f, n)
  <1> QED
    BY <1>3, <1>4, <1>5

\* All that is left of a message, and what a full socket takes of it.
LEMMA UnsentHalves ==
    ASSUME NEW f \in Nat, NEW n \in {0, 1}
    PROVE  /\ Unsent(f, n) \in Seq(Pieces) /\ Len(Unsent(f, n)) = 2 - n
           /\ HalvesOf(Unsent(f, n), f, n)
           /\ \A more \in 0 .. 1 - n :
                 /\ SubSeq(Unsent(f, n), 1, more) \in Seq(Pieces)
                 /\ Len(SubSeq(Unsent(f, n), 1, more)) = more
                 /\ HalvesOf(SubSeq(Unsent(f, n), 1, more), f, n)
  <1> DEFINE w == Unsent(f, n)
  <1>1. /\ w \in Seq(Pieces) /\ Len(w) = 2 - n
        /\ \A k \in 1 .. 2 - n : w[k] = [packet |-> f, half |-> n + k]
    BY UnsentPieces
  <1>2. \A more \in 0 .. 1 - n :
           /\ SubSeq(w, 1, more) \in Seq(Pieces) /\ Len(SubSeq(w, 1, more)) = more
           /\ \A k \in 1 .. more : SubSeq(w, 1, more)[k] = [packet |-> f, half |-> n + k]
    BY UnsentPieces
  <1> HIDE DEF w
  <1> QED
    BY <1>1, <1>2 DEF HalvesOf, w

\* send() takes the whole rest of the message.
LEMMA SocketSendsWhole ==
    ASSUME ServerInv, NEW c \in Sockets, c = client, SocketInv(c), Owed(c), NEW f \in Nat, NEW sent,
           Fresh(conn[c].request.first) => f = conn[c].request.first, sent = conn[c].sent,
           SendWhole(f, sent), Grows
    PROVE  SocketInv(c)'
  <1>1. PICK r, q, n, o : Owes(c, r, q, n, o)
    BY Sending
  <1>2. /\ r \in Asking /\ q \in Ranges /\ n \in {0, 1} /\ o \in Seq(Pieces) /\ r # NULL
        /\ net[c].ask = r /\ conn[c].request = q /\ sent = n /\ net[c].out = o
        /\ q.last = r.last /\ q.last <= announced' /\ r.first <= q.first
        /\ Len(o) = 2 * (q.first - r.first) + n
        /\ net[c].wire = 0 /\ net[c].arrived = 0 /\ conn[c].got = 0
    BY <1>1 DEF Owes
  <1>3. /\ q.first \in Nat /\ r.first \in Nat /\ Len(o) \in Nat /\ counter \in Nat
    BY <1>2, RangeFacts, AskFacts, LenProperties DEF Grows
  <1>b. /\ conn'[client].status = "Clear" /\ conn'[client].sent = 0
        /\ conn'[client].got = conn[client].got
        /\ conn'[client].request
             = [conn[client].request EXCEPT !.first = conn[client].request.first + 1]
        /\ net'[client].arrived = net[client].arrived /\ net'[client].ask = net[client].ask
        /\ net'[client].wire = net[client].wire
        /\ net'[client].out = net[client].out \o Unsent(f, sent)
    <2>1. ShapeInv /\ client \in Sockets
      BY DEF ServerInv
    <2> QED
      BY <2>1, SendWholeFields, ZenonT(60)
  <1> DEFINE u == Unsent(f, n)
             p == [q EXCEPT !.first = q.first + 1]
             x == o \o u
  <1>4. /\ conn'[c].status = "Clear" /\ conn'[c].sent = 0 /\ conn'[c].got = 0
        /\ conn'[c].request = p /\ net'[c].arrived = 0 /\ net'[c].ask = r
        /\ net'[c].wire = 0 /\ net'[c].out = x
    BY <1>2, <1>b
  <1>5. p \in Ranges /\ p.first = q.first + 1 /\ p.last = q.last
    BY <1>2, RangeFacts
  <1>6. u \in Seq(Pieces) /\ Len(u) = 2 - n /\ HalvesOf(u, f, n)
    BY <1>2, UnsentHalves
  <1> HIDE DEF u, p
  <1>7. Len(u) <= 2 - n
    BY <1>2, <1>6
  <1>8. /\ x \in Seq(Pieces) /\ Len(x) = Len(o) + Len(u) /\ Len(x) <= 2 * (r.last - r.first)
        /\ Fresh(r.first) => Begins(x, r)
    BY <1>1, <1>2, <1>3, <1>6, <1>7, AnswerGoesOn
  <1> HIDE DEF x
  <1>9. Len(x) = 2 * (p.first - r.first) + 0 /\ r.first <= p.first
    <2>1. PICK a \in Nat, g \in Nat : a = r.first /\ g = q.first
      BY <1>3
    <2>2. Len(x) = (2 * (g - a) + n) + (2 - n) /\ a <= g /\ p.first = g + 1
      BY <1>2, <1>5, <1>6, <1>8, <2>1
    <2>3. Len(x) = 2 * ((g + 1) - a) + 0 /\ a <= g + 1
      BY ONLY <2>2, <1>2, a \in Nat, g \in Nat
    <2> QED
      BY <2>1, <2>2, <2>3
  <1>10. Fresh(r.first)' => Begins(x, r)
    BY <1>3, <1>8, FreshBefore DEF Fresh
  <1>11. p.last = r.last /\ p.last <= announced'
    BY <1>2, <1>5
  <1> QED
    BY <1>2, <1>4, <1>5, <1>8, <1>9, <1>10, <1>11, SocketSent

\* send() takes some of it.
LEMMA SocketSendsPart ==
    ASSUME ServerInv, NEW c \in Sockets, c = client, SocketInv(c), Owed(c), NEW f \in Nat, NEW sent,
           Fresh(conn[c].request.first) => f = conn[c].request.first, sent = conn[c].sent,
           1 <= conn[c].request.first, SendPart(f, sent), Grows
    PROVE  SocketInv(c)'
  <1>1. PICK r, q, n, o : Owes(c, r, q, n, o)
    BY Sending
  <1>2. /\ r \in Asking /\ q \in Ranges /\ n \in {0, 1} /\ o \in Seq(Pieces) /\ r # NULL
        /\ net[c].ask = r /\ conn[c].request = q /\ sent = n /\ net[c].out = o
        /\ q.last = r.last /\ q.last <= announced' /\ r.first <= q.first /\ q.first < q.last
        /\ Len(o) = 2 * (q.first - r.first) + n
        /\ net[c].wire = 0 /\ net[c].arrived = 0 /\ conn[c].got = 0
    BY <1>1 DEF Owes
  <1>3. /\ q.first \in Nat /\ r.first \in Nat /\ Len(o) \in Nat /\ counter \in Nat
    BY <1>2, RangeFacts, AskFacts, LenProperties DEF Grows
  <1>0. PICK more \in 0 .. 1 - sent :
            /\ conn' = [conn EXCEPT ![client].status = "PartialSend",
                            ![client].packet = f, ![client].sent = sent + more]
            /\ net' = [net EXCEPT ![client].armed = TRUE, ![client].out =
                            @ \o SubSeq(Unsent(f, sent), 1, more)]
    BY DEF SendPart
  <1>m. more \in 0 .. 1 - n /\ more \in Nat
    BY <1>2
  <1>b. /\ conn'[client].status = "PartialSend" /\ conn'[client].packet = f
        /\ conn'[client].sent = sent + more /\ conn'[client].got = conn[client].got
        /\ conn'[client].request = conn[client].request
        /\ net'[client].arrived = net[client].arrived /\ net'[client].ask = net[client].ask
        /\ net'[client].wire = net[client].wire
        /\ net'[client].out = net[client].out \o SubSeq(Unsent(f, sent), 1, more)
    <2>1. ShapeInv /\ client \in Sockets
      BY DEF ServerInv
    <2> QED
      <3>1. /\ conn' = [conn EXCEPT ![client].status = "PartialSend",
                            ![client].packet = f, ![client].sent = sent + more]
            /\ net' = [net EXCEPT ![client].armed = TRUE, ![client].out =
                            @ \o SubSeq(Unsent(f, sent), 1, more)]
        BY <1>0
      <3> QED
        BY <2>1, <3>1, ZenonT(60) DEF ShapeInv, ConnectionFields, NetFields
  <1> DEFINE u == SubSeq(Unsent(f, n), 1, more)
             x == o \o u
  <1>4. /\ conn'[c].status = "PartialSend" /\ conn'[c].sent = n + more /\ conn'[c].got = 0
        /\ conn'[c].request = q /\ conn'[c].packet = f
        /\ net'[c].arrived = 0 /\ net'[c].ask = r
        /\ net'[c].wire = 0 /\ net'[c].out = x
    BY <1>2, <1>b
  <1>5. u \in Seq(Pieces) /\ Len(u) = more /\ HalvesOf(u, f, n)
    BY <1>2, <1>m, UnsentHalves
  <1> HIDE DEF u
  <1>6. Len(u) <= 2 - n /\ n + more \in {0, 1} /\ (Fresh(q.first) => f = q.first)
    BY <1>2, <1>5, <1>m
  <1>7. /\ x \in Seq(Pieces) /\ Len(x) = Len(o) + Len(u) /\ Len(x) <= 2 * (r.last - r.first)
        /\ Fresh(r.first) => Begins(x, r)
    <2>1. u \in Seq(Pieces) /\ HalvesOf(u, f, n)
      BY <1>5
    <2> QED
      BY ONLY <1>1, <1>3, <1>6, <2>1, f \in Nat, AnswerGoesOn
  <1> HIDE DEF x
  <1>8. Len(x) = 2 * (q.first - r.first) + (n + more)
    <2>1. PICK a \in Nat, g \in Nat : a = r.first /\ g = q.first
      BY <1>3
    <2>2. Len(x) = (2 * (g - a) + n) + more
      BY <1>2, <1>5, <1>7, <2>1
    <2>3. Len(x) = 2 * (g - a) + (n + more)
      BY ONLY <2>2, <1>2, <1>m, a \in Nat, g \in Nat
    <2> QED
      BY <2>1, <2>3
  <1>9. /\ Fresh(r.first)' => Begins(x, r)
        /\ Fresh(q.first)' => f = q.first
    BY <1>2, <1>3, <1>7, FreshBefore DEF Fresh
  <1>10. 1 <= q.first
    BY <1>2
  <1> QED
    BY <1>2, <1>4, <1>6, <1>7, <1>8, <1>9, <1>10, SocketSent, ZenonT(60)

\* The client asks: it has had the whole answer to what it asked before.
LEMMA SocketAsks ==
    ASSUME ServerInv, NEW c \in Sockets, SocketInv(c), NEW first \in 0 .. LAST,
           NEW last \in 0 .. LAST, Ask(c, first, last), Grows
    PROVE  SocketInv(c)'
  <1>1. /\ DOMAIN net = Sockets /\ DOMAIN net[c] = NetFields /\ conn' = conn /\ client' = client
        /\ net' = [net EXCEPT ![c].ask = [first |-> first, last |-> last],
                              ![c].wire = 2, ![c].out = <<>>]
        /\ first < last /\ last <= announced
    BY DEF Ask, serverUnchanged, ServerInv, ShapeInv
  <1> DEFINE r == [first |-> first, last |-> last]
  <1>2. /\ net'[c].ask = r /\ net'[c].wire = 2 /\ net'[c].out = <<>>
        /\ net'[c].arrived = net[c].arrived
    BY <1>1 DEF NetFields
  <1>3. r \in Asking /\ r.first = first /\ r.last = last
    BY <1>1 DEF Asking
  <1>4. net[c].wire \in Nat /\ net[c].arrived \in Nat /\ conn[c].got \in Nat
    BY DEF SocketInv, PeerInv
  <1>5. ~Owed(c) /\ net[c].arrived = 0 /\ conn[c].got = 0
    <2>1. CASE net[c].ask = NULL
      <3>1. ~(net[c].wire + net[c].arrived + conn[c].got > 0) /\ ~Owed(c)
        BY <2>1 DEF SocketInv, PeerInv, RequestInv
      <3> QED
        BY <1>4, <3>1, NothingLeft
    <2>2. CASE net[c].ask # NULL /\ net[c].out = Answer(net[c].ask)
      <3> DEFINE a == net[c].ask
      <3>1. a.first \in Nat /\ a.last \in Nat /\ a.first < a.last
        BY <2>2, AskFacts DEF SocketInv, PeerInv
      <3>2. Len(net[c].out) = 2 * (a.last - a.first)
        <4>1. 2 * (a.last - a.first) \in Nat
          BY <3>1
        <4> HIDE DEF a
        <4>2. Len(Answer(a)) = 2 * (a.last - a.first)
          BY <4>1 DEF Answer
        <4> QED
          BY <2>2, <4>2 DEF a
      <3>3. net[c].out # <<>>
        <4>1. Len(<<>>) = 0 /\ 2 * (a.last - a.first) > 0
          BY <3>1, EmptySeq, SMTT(60)
        <4> QED
          BY <3>2, <4>1
      <3>4. ~(net[c].wire + net[c].arrived + conn[c].got > 0)
        BY <3>3 DEF SocketInv, PeerInv
      <3>5. ~Owed(c)
        <4> SUFFICES ASSUME Owed(c) PROVE FALSE
          OBVIOUS
        <4>1. /\ conn[c].request \in Ranges /\ a.last = conn[c].request.last
              /\ conn[c].request.first < conn[c].request.last /\ conn[c].sent \in {0, 1}
              /\ Len(net[c].out) = 2 * (conn[c].request.first - a.first) + conn[c].sent
          BY DEF SocketInv, RequestInv, Owed
        <4>2. conn[c].request.first \in Nat
          BY <4>1, RangeFacts
        <4>3. PICK i \in Nat, j \in Nat, k \in Nat, h \in {0, 1} :
                /\ i = a.first /\ j = conn[c].request.first
                /\ k = a.last /\ h = conn[c].sent
          BY <3>1, <4>1, <4>2, Zenon
        <4>4. j < k /\ 2 * (k - i) = 2 * (j - i) + h
          BY <3>2, <4>1, <4>3, Zenon
        <4> QED
          BY ONLY i \in Nat, j \in Nat, k \in Nat, h \in {0, 1}, <4>4, SMT
      <3> QED
        BY <1>4, <3>4, <3>5, NothingLeft
    <2> QED
      BY <2>1, <2>2 DEF Ask, Answered
  <1>6. Active(c)' = Active(c) /\ Owed(c)' = Owed(c)
    BY <1>1 DEF Active, Owed
  <1>7. r # NULL
    BY <1>3, ServerAssumption DEF Asking
  <1>8. /\ <<>> \in Seq(Pieces) /\ Len(<<>>) = 0 /\ 0 <= 2 * (last - first) /\ Begins(<<>>, r)
        /\ 2 + 0 + 0 <= 2 /\ 2 \in Nat /\ 0 \in Nat
    BY <1>1, EmptySeq DEF Begins
  <1>11. last <= announced' /\ counter' = counter
    BY <1>1 DEF Ask, exchangeVars
  <1> HIDE DEF r
  <1>9. PeerInv(c)'
    BY <1>1, <1>2, <1>3, <1>5, <1>6, <1>7, <1>8, <1>11 DEF PeerInv
  <1>10. RequestInv(c)'
    <2>1. announced' = announced
      BY DEF Ask, exchangeVars
    <2> QED
      BY <1>1, <1>5, <1>6, <1>11, <2>1 DEF SocketInv, RequestInv, Active, Fresh
  <1> QED
    BY <1>9, <1>10 DEF SocketInv

\* A half of the request arrives.
LEMMA SocketArrives ==
    ASSUME ServerInv, NEW c \in Sockets, SocketInv(c), Arrive(c),
           UNCHANGED <<announced, counter>>
    PROVE  SocketInv(c)'
  <1>1. /\ DOMAIN net = Sockets /\ DOMAIN net[c] = NetFields /\ conn' = conn /\ client' = client
        /\ net' = [net EXCEPT ![c].wire = @ - 1, ![c].arrived = @ + 1] /\ net[c].wire > 0
    BY DEF Arrive, serverUnchanged, ServerInv, ShapeInv
  <1>2. /\ net'[c].ask = net[c].ask /\ net'[c].out = net[c].out
        /\ net'[c].wire = net[c].wire - 1 /\ net'[c].arrived = net[c].arrived + 1
    BY <1>1 DEF NetFields
  <1>3. Active(c)' = Active(c) /\ Owed(c)' = Owed(c)
    BY <1>1 DEF Active, Owed
  <1>4. net[c].wire \in Nat /\ net[c].arrived \in Nat /\ conn[c].got \in Nat
    BY DEF SocketInv, PeerInv
  <1>5. /\ net'[c].wire \in Nat /\ net'[c].arrived \in Nat
        /\ net'[c].wire + net'[c].arrived + conn[c].got
              = net[c].wire + net[c].arrived + conn[c].got
    BY <1>1, <1>2, <1>4
  <1>6. PeerInv(c)'
    BY <1>1, <1>2, <1>3, <1>5 DEF SocketInv, PeerInv, Fresh, Begins
  <1>7. RequestInv(c)'
    BY <1>1, <1>2, <1>3 DEF SocketInv, RequestInv, Fresh
  <1> QED
    BY <1>6, <1>7 DEF SocketInv

\* The client goes, and what was on its way is lost.
LEMMA SocketVanishes ==
    ASSUME ServerInv, NEW c \in Sockets, SocketInv(c), Vanish(c),
           UNCHANGED <<announced, counter>>
    PROVE  SocketInv(c)'
  <1>1. /\ DOMAIN net = Sockets /\ DOMAIN net[c] = NetFields /\ conn' = conn /\ client' = client
        /\ net' = [net EXCEPT ![c].peer = "gone", ![c].wire = 0]
    BY DEF Vanish, serverUnchanged, ServerInv, ShapeInv
  <1>2. /\ net'[c].ask = net[c].ask /\ net'[c].out = net[c].out
        /\ net'[c].wire = 0 /\ net'[c].arrived = net[c].arrived
    BY <1>1 DEF NetFields
  <1>3. Active(c)' = Active(c) /\ Owed(c)' = Owed(c)
    BY <1>1 DEF Active, Owed
  <1>4. net[c].wire \in Nat /\ net[c].arrived \in Nat /\ conn[c].got \in Nat
        /\ net[c].wire + net[c].arrived + conn[c].got <= 2
    BY DEF SocketInv, PeerInv
  <1>5. /\ 0 + net[c].arrived + conn[c].got <= 2 /\ 0 \in Nat
        /\ 0 + net[c].arrived + conn[c].got > 0
              => net[c].wire + net[c].arrived + conn[c].got > 0
    BY <1>4
  <1>6. PeerInv(c)'
    BY <1>1, <1>2, <1>3, <1>5 DEF SocketInv, PeerInv, Fresh, Begins
  <1>7. RequestInv(c)'
    BY <1>1, <1>2, <1>3 DEF SocketInv, RequestInv, Fresh
  <1> QED
    BY <1>6, <1>7 DEF SocketInv

\* A connection that is done with its request.
LEMMA SocketRests ==
    ASSUME NEW c \in Sockets, SocketInv(c), UNCHANGED <<announced, counter>>, client' # c,
           conn[c].status = "Clear", conn'[c].status = "Clear",
           conn'[c].sent = conn[c].sent, conn'[c].got = conn[c].got, net'[c] = net[c]
    PROVE  SocketInv(c)'
  <1>1. ~Active(c)' /\ ~Owed(c)'
    BY DEF Active, Owed
  <1>2. PeerInv(c)'
    BY <1>1 DEF SocketInv, PeerInv, Fresh, Begins
  <1>3. RequestInv(c)'
    BY <1>1 DEF SocketInv, RequestInv
  <1> QED
    BY <1>2, <1>3 DEF SocketInv

\* A step that serves c is no concern of the other connections.
LEMMA SocketOfOthers ==
    ASSUME NEW c \in Sockets, NEW t \in Sockets, t # c, SocketInv(t), Same(t),
           client \in {NULL, c}, client' \in {NULL, c},
           Grows
    PROVE  SocketInv(t)'
  <1>1. conn'[t] = conn[t] /\ net'[t] = net[t] /\ t # NULL
    BY ServerAssumption DEF Same
  <1>2. Active(t)' <=> Active(t)
    BY <1>1 DEF Active
  <1> QED
    BY <1>1, <1>2, SocketSame

\* A step that serves nobody.
LEMMA SocketOfAll ==
    ASSUME NEW t \in Sockets, SocketInv(t), conn'[t] = conn[t], client' = client,
           net'[t].ask = net[t].ask, net'[t].out = net[t].out,
           net'[t].wire = net[t].wire, net'[t].arrived = net[t].arrived,
           Grows
    PROVE  SocketInv(t)'
  <1>1. Active(t)' <=> Active(t)
    BY DEF Active
  <1> QED
    BY <1>1, SocketSame

-----------------------------------------------------------------------------
(* The steps, seen from any connection. *)

Sound == \A s \in Sockets : SocketInv(s)

\* A connection is closed, and back to the event loop.
LEMMA ClosingIsSound ==
    ASSUME ServerInv, Sound, Grows, NEW c \in Sockets, client \in {NULL, c}, Closes(c)
    PROVE  Sound'
  <1>0. PICK more : Disconnect(c, more)
    BY DEF Closes
  <1>1. /\ \A t \in Sockets \ {c} : Same(t)
        /\ conn'[c] = ClosedConnection /\ net'[c] = NoPeer
    BY <1>0, ClosesFields DEF ServerInv
  <1>2. client' = NULL
    BY DEF Closes, HandledEvent
  <1>3. ASSUME NEW t \in Sockets PROVE SocketInv(t)'
    <2>1. CASE t = c
      BY <1>1, <1>2, <2>1, SocketClosed, ServerAssumption
    <2>2. CASE t # c
      BY <1>1, <1>2, <2>2, SocketOfOthers DEF Sound
    <2> QED
      BY <2>1, <2>2
  <1> QED
    BY <1>3 DEF Sound

\* The server sends a message it may take for the next one: it is, unless it is
\* too old.
Sends(c, f, n) ==
    /\ c = client /\ Owed(c) /\ f \in Nat /\ n = conn[c].sent
    /\ Fresh(conn[c].request.first) => f = conn[c].request.first
    /\ 1 <= conn[c].request.first

\* send()
LEMMA SendingIsSound ==
    ASSUME ServerInv, Sound, Grows, NEW c \in Sockets, NEW f, NEW n, Sends(c, f, n), Send(f, n)
    PROVE  Sound'
  <1>0. /\ c = client /\ Owed(c) /\ f \in Nat /\ n = conn[c].sent /\ 1 <= conn[c].request.first
        /\ Fresh(conn[c].request.first) => f = conn[c].request.first
    BY DEF Sends
  <1>1. CASE SendFails(f, n)
    BY <1>0, <1>1, ClosingIsSound, WaysToClose
  <1>2. CASE SendWhole(f, n) \/ SendPart(f, n)
    <2>1. SocketInv(c)'
      BY <1>0, <1>2, SocketSendsWhole, SocketSendsPart DEF Sound
    <2>2. \A t \in Sockets \ {c} : Same(t)
      <3>1. CASE SendWhole(f, n)
        BY <1>0, <3>1, SendWholeFields DEF ServerInv, OnlyFor
      <3>2. CASE SendPart(f, n)
        <4>1. PICK more \in 0 .. 1 - n :
                /\ conn' = [conn EXCEPT ![client].status = "PartialSend",
                                ![client].packet = f, ![client].sent = n + more]
                /\ net' = [net EXCEPT ![client].armed = TRUE, ![client].out =
                                @ \o SubSeq(Unsent(f, n), 1, more)]
          BY <3>2 DEF SendPart
        <4> QED
          BY <1>0, <4>1, SMTT(60) DEF ServerInv, ShapeInv, Same
      <3> QED
        BY <1>2, <3>1, <3>2
    <2>3. client' \in {NULL, c}
      BY <1>0, <1>2, Zenon DEF SendWhole, SendPart, HandledEvent
    <2>4. ASSUME NEW t \in Sockets, t # c PROVE SocketInv(t)'
      BY <1>0, <2>2, <2>3, <2>4, SocketOfOthers DEF Sound
    <2> QED
      BY <2>1, <2>4 DEF Sound
  <1> QED
    BY <1>1, <1>2 DEF Send

\* Receiving, and resuming a stream.
LEMMA RequestStepIsSound ==
    ASSUME ServerInv, Sound, Grows, HandleRequest \/ ClientEventFails
    PROVE  Sound'
  <1> DEFINE h == Head(batch).socket
  <1>1. EventFor({"read", "write"}) /\ conn[h].open
    BY DEF HandleRequest, ClientEventFails
  <1>2. client = NULL /\ h \in Sockets /\ ShapeInv
    BY <1>1, ServingEvent DEF Serving, Opened, ServerInv
  <1>c. PICK c \in Sockets : c = h
    BY <1>2
  <1> HIDE DEF h
  <1>3. ASSUME SocketInv(c)', client' \in {NULL, c}, \A t \in Sockets \ {c} : Same(t)
        PROVE  Sound'
    <2>1. ASSUME NEW t \in Sockets, t # c PROVE SocketInv(t)'
      BY <1>2, <1>3, <2>1, SocketOfOthers DEF Sound
    <2> QED
      BY <1>3, <2>1 DEF Sound
  <1>4. CASE ReceiveAll(c) /\ conn[c].status \in {"Clear", "PartialReceive"}
    <2>1. SocketInv(c)'
      BY <1>2, <1>4, SocketReceivesAll DEF Sound
    <2>2. client' = c
      BY <1>4 DEF ReceiveAll
    <2> QED
      BY <1>2, <1>3, <1>4, <2>1, <2>2, ReceiveAllFields DEF OnlyFor
  <1>5. CASE ReceivePart(c) /\ conn[c].status \in {"Clear", "PartialReceive"}
    <2>1. SocketInv(c)'
      BY <1>5, SocketReceivesPart DEF Sound
    <2>2. client' = NULL
      BY <1>5 DEF ReceivePart, HandledEvent
    <2> QED
      BY <1>2, <1>3, <1>5, <2>1, <2>2, ReceivePartFields DEF OnlyFor
  <1>6. CASE Closes(c)
    BY <1>2, <1>6, ClosingIsSound
  <1>7. CASE conn[c].status = "PartialSend" /\ client' = c /\ UNCHANGED <<conn, net>>
    <2>1. Active(c) /\ Active(c)'
      BY <1>7 DEF Active
    <2>2. SocketInv(c)'
      BY <1>7, <2>1, SocketSame DEF Sound
    <2> QED
      BY <1>3, <1>7, <2>2 DEF Same
  <1>8. CASE HandleRequest
    <2>1. ReceiveFails(c) => Closes(c)
      BY WaysToClose DEF ReceiveFails, Closes
    <2> QED
      BY <1>8, <1>c, <1>4, <1>5, <1>6, <1>7, <2>1 DEF HandleRequest, h
  <1>9. CASE ClientEventFails
    <2>1. Closes(c)
      BY <1>9, <1>c, WaysToClose DEF ClientEventFails, Closes, h
    <2> QED
      BY <1>6, <2>1
  <1> QED
    BY <1>8, <1>9

\* The rest of a message that was cut, and a message that was found.
LEMMA WhatIsSent ==
    ASSUME ServerInv, ItemInv, Sound, NEW c \in Sockets, c = client
    PROVE  /\ server = "resume" /\ conn[c].status = "PartialSend"
                => Sends(c, conn[c].packet, conn[c].sent)
           /\ server = "verify" /\ StillThere(Request.first - 1) => Sends(c, item, 0)
  <1>1. Active(c)
    BY DEF Active
  <1>2. ASSUME server = "resume", conn[c].status = "PartialSend"
        PROVE  Sends(c, conn[c].packet, conn[c].sent)
    BY <1>1, <1>2 DEF Sound, SocketInv, RequestInv, Owed, Sends
  <1>3. ASSUME server = "verify", StillThere(Request.first - 1) PROVE Sends(c, item, 0)
    <2>1. /\ 1 <= conn[c].request.first /\ conn[c].request.first < conn[c].request.last
          /\ item \in Nat
          /\ Fresh(conn[c].request.first) => item = conn[c].request.first
      BY <1>3 DEF ItemInv, Request
    <2>2. conn[c].status = "Clear"
      BY <1>3 DEF ServerInv, CutInv
    <2>3. Owed(c) /\ conn[c].sent = 0
      BY <1>1, <2>1, <2>2 DEF Sound, SocketInv, RequestInv, Owed
    <2> QED
      BY <2>1, <2>3 DEF Sends
  <1> QED
    BY <1>2, <1>3

\* stream_packets
LEMMA StreamStepIsSound ==
    ASSUME ServerInv, ItemInv, Sound, Grows, UNCHANGED <<announced, counter>>,
           ResumeSend \/ NextPacket \/ LoadItem \/ VerifyAndSend
    PROVE  Sound'
  <1>0. Streaming
    BY DEF ResumeSend, NextPacket, LoadItem, VerifyAndSend, Streaming
  <1>1. client \in Sockets /\ ShapeInv
    BY <1>0, ServingClient DEF ServerInv
  <1>c. PICK c \in Sockets : c = client
    BY <1>1
  <1>2. CASE UNCHANGED <<conn, net, client>>
    <2>1. ASSUME NEW t \in Sockets PROVE SocketInv(t)'
      BY <1>2, SocketOfAll DEF Sound
    <2> QED
      BY <2>1 DEF Sound
  <1>3. CASE Refuse
    BY <1>3, <1>c, ClosingIsSound, WaysToClose
  <1>4. CASE ResumeSend
    <2>1. CASE /\ Request.first >= 1 /\ conn[client].status = "PartialSend"
               /\ Send(conn[client].packet, conn[client].sent)
      <3>1. Sends(c, conn[client].packet, conn[client].sent)
        BY <1>c, <1>4, <2>1, WhatIsSent DEF ResumeSend
      <3> QED
        BY <2>1, <3>1, SendingIsSound
    <2> QED
      BY <1>2, <1>3, <1>4, <2>1 DEF ResumeSend, FIRST_SEQUENCE_ID
  <1>5. CASE NextPacket
    <2>1. CASE conn' = [conn EXCEPT ![client].request = NULL] /\ HandledEvent /\ net' = net
      <3>1. conn[client].status = "Clear" /\ client' = NULL
        BY <1>5, <2>1 DEF ServerInv, CutInv, NextPacket, HandledEvent
      <3>2. /\ conn'[c].status = "Clear" /\ conn'[c].sent = conn[c].sent
            /\ conn'[c].got = conn[c].got /\ \A t \in Sockets \ {c} : Same(t)
        BY <1>1, <1>c, <2>1, <3>1, RequestDoneFields DEF OnlyFor
      <3>3. SocketInv(c)'
        BY <1>c, <2>1, <3>1, <3>2, SocketRests, ServerAssumption DEF Sound
      <3>4. ASSUME NEW t \in Sockets, t # c PROVE SocketInv(t)'
        BY <1>c, <3>1, <3>2, <3>4, SocketOfOthers DEF Sound
      <3> QED
        BY <3>3, <3>4 DEF Sound
    <2> QED
      BY <1>2, <1>3, <1>5, <2>1 DEF NextPacket
  <1>6. CASE LoadItem
    BY <1>2, <1>6 DEF LoadItem
  <1>7. CASE VerifyAndSend
    <2>1. CASE StillThere(Request.first - 1) /\ Send(item, 0)
      <3>1. Sends(c, item, 0)
        BY <1>c, <1>7, <2>1, WhatIsSent DEF VerifyAndSend
      <3> QED
        BY <2>1, <3>1, SendingIsSound
    <2> QED
      BY <1>3, <1>7, <2>1 DEF VerifyAndSend, FIRST_SEQUENCE_ID
  <1> QED
    BY <1>4, <1>5, <1>6, <1>7

\* Starting, waiting, accepting, and the end.
LEMMA LoopStepIsSound ==
    ASSUME ServerInv, Sound, Grows,
           \/ StartServer \/ StartServerFails \/ AssertFails \/ CloseServer
           \/ WaitForEvents \/ AcceptOne \/ AcceptedAll
    PROVE  Sound'
  <1>0. ShapeInv /\ EventInv
    BY DEF ServerInv
  <1>1. CASE UNCHANGED <<conn, net, client>>
    <2>1. ASSUME NEW t \in Sockets PROVE SocketInv(t)'
      BY <1>1, SocketOfAll DEF Sound
    <2> QED
      BY <2>1 DEF Sound
  <1>2. CASE CloseServer
    <2>1. /\ conn' = [s \in Sockets |-> ClosedConnection] /\ net' = [s \in Sockets |-> NoPeer]
          /\ client' = NULL
      BY <1>0, <1>2 DEF CloseServer, EventInv, Streaming
    <2>2. ASSUME NEW t \in Sockets PROVE SocketInv(t)'
      BY <2>1, SocketClosed, ServerAssumption
    <2> QED
      BY <2>2 DEF Sound
  <1>3. CASE WaitForEvents
    <2>1. conn' = conn /\ client' = client
      BY <1>3 DEF WaitForEvents
    <2>2. PICK b : net' = [s \in Sockets |-> [net[s] EXCEPT !.armed =
                                           @ /\ WriteOf(s) \notin ToSet(b)]]
      BY <1>3 DEF WaitForEvents
    <2>3. ASSUME NEW t \in Sockets PROVE SocketInv(t)'
      <3>1. /\ net'[t].ask = net[t].ask /\ net'[t].out = net[t].out
            /\ net'[t].wire = net[t].wire /\ net'[t].arrived = net[t].arrived
        BY <1>0, <2>2 DEF ShapeInv, NetFields
      <3> QED
        BY <2>1, <3>1, SocketOfAll DEF Sound
    <2> QED
      BY <2>3 DEF Sound
  <1>4. ASSUME NEW c \in Sockets, client' = client, conn' = [conn EXCEPT ![c].open = TRUE],
               net' = [net EXCEPT ![c].peer = "connected"]
        PROVE  Sound'
    <2>1. ASSUME NEW t \in Sockets PROVE SocketInv(t)'
      <3>1. /\ conn'[t].status = conn[t].status /\ conn'[t].request = conn[t].request
            /\ conn'[t].packet = conn[t].packet /\ conn'[t].sent = conn[t].sent
            /\ conn'[t].got = conn[t].got
        BY <1>0, <1>4 DEF ShapeInv, ConnectionFields
      <3>2. /\ net'[t].ask = net[t].ask /\ net'[t].out = net[t].out
            /\ net'[t].wire = net[t].wire /\ net'[t].arrived = net[t].arrived
        BY <1>0, <1>4 DEF ShapeInv, NetFields
      <3>3. Active(t)' <=> Active(t)
        BY <1>4, <3>1 DEF Active
      <3> QED
        BY <3>1, <3>2, <3>3, SocketSame DEF Sound
    <2> QED
      BY <2>1 DEF Sound
  <1>5. CASE AcceptOne
    BY <1>1, <1>4, <1>5 DEF AcceptOne
  <1>6. CASE StartServer \/ StartServerFails \/ AssertFails \/ AcceptedAll
    BY <1>1, <1>6 DEF StartServer, StartServerFails, AssertFails, AcceptedAll
  <1> QED
    BY <1>2, <1>3, <1>5, <1>6

\* The exchange thread and the clients.
LEMMA OutsideIsSound ==
    ASSUME ServerInv, Sound, Grows, Exchange \/ Environment \/ RequestStop \/ UNCHANGED vars
    PROVE  Sound'
  <1>0. ShapeInv
    BY DEF ServerInv
  <1>1. conn' = conn /\ client' = client
    BY ZenonT(60) DEF Exchange, StartExchange, GenerateMessage, CacheMessage, Broadcast, ExchangeStops,
           elsewhereUnchanged, Environment, Connect, Ask, Arrive, Vanish, RequestStop, vars,
           serverUnchanged
  <1>2. CASE net' = net
    <2>1. ASSUME NEW t \in Sockets PROVE SocketInv(t)'
      BY <1>1, <1>2, SocketOfAll DEF Sound
    <2> QED
      BY <2>1 DEF Sound
  <1>3. ASSUME NEW c \in Sockets, SocketInv(c)', \A t \in Sockets \ {c} : net'[t] = net[t]
        PROVE  Sound'
    <2>1. ASSUME NEW t \in Sockets, t # c PROVE SocketInv(t)'
      BY <1>1, <1>3, <2>1, SocketOfAll DEF Sound
    <2> QED
      BY <1>3, <2>1 DEF Sound
  <1>4. ASSUME NEW c \in Sockets, Arrive(c) PROVE Sound'
    <2>1. UNCHANGED <<announced, counter>> /\ \A t \in Sockets \ {c} : net'[t] = net[t]
      BY <1>0, <1>4 DEF Arrive, exchangeVars, ShapeInv
    <2> QED
      BY <1>3, <1>4, <2>1, SocketArrives DEF Sound
  <1>5. ASSUME NEW c \in Sockets, Vanish(c) PROVE Sound'
    <2>1. UNCHANGED <<announced, counter>> /\ \A t \in Sockets \ {c} : net'[t] = net[t]
      BY <1>0, <1>5 DEF Vanish, exchangeVars, ShapeInv
    <2> QED
      BY <1>3, <1>5, <2>1, SocketVanishes DEF Sound
  <1>6. ASSUME NEW c \in Sockets, NEW first \in 0 .. LAST, NEW last \in 0 .. LAST,
               Ask(c, first, last)
        PROVE  Sound'
    <2>1. UNCHANGED <<announced, counter>> /\ \A t \in Sockets \ {c} : net'[t] = net[t]
      BY <1>0, <1>6 DEF Ask, exchangeVars, ShapeInv
    <2> QED
      BY <1>3, <1>6, <2>1, SocketAsks DEF Sound
  <1>7. CASE Exchange \/ Connect \/ RequestStop \/ UNCHANGED vars
    BY <1>2, <1>7 DEF Exchange, StartExchange, GenerateMessage, CacheMessage, Broadcast,
          ExchangeStops, elsewhereUnchanged, Connect, RequestStop, vars
  <1> QED
    BY <1>4, <1>5, <1>6, <1>7 DEF Environment

\* Every step.
LEMMA EveryStepIsSound ==
    ASSUME ServerInv, CacheInv, ItemInv, Sound, [Next]_vars PROVE Sound'
  <1>1. Grows
    BY CacheStep DEF Grows, CacheInv
  <1>2. CASE ResumeSend \/ NextPacket \/ LoadItem \/ VerifyAndSend
    <2>1. UNCHANGED <<announced, counter>>
      BY <1>2 DEF ResumeSend, NextPacket, LoadItem, VerifyAndSend, exchangeVars
    <2> QED
      BY <1>1, <1>2, <2>1, StreamStepIsSound
  <1> QED
    BY <1>1, <1>2, ServerCases, RequestStepIsSound, LoopStepIsSound, OutsideIsSound

\* The message in hand.  While the server loads it, the exchange may lock its
\* slot or give it a newer number, but never the same number again.
LEMMA ItemStep ==
    ASSUME ServerInv, CacheInv, ItemInv, Sound, [Next]_vars PROVE ItemInv'
  <1>1. ASSUME Streaming
        PROVE  /\ client \in Sockets /\ Request \in Ranges /\ Request.last <= announced
               /\ Request.first \in Nat /\ Request.last \in Nat
    <2>1. client \in Sockets
      BY <1>1, ServingClient
    <2>2. PICK c \in Sockets : c = client
      BY <2>1
    <2>3. conn[c].request \in Ranges /\ conn[c].request.last <= announced
      BY <2>2 DEF Sound, SocketInv, RequestInv, Active
    <2> QED
      BY <2>2, <2>3, RangeFacts DEF Request
  <1>2. /\ write_index \in Nat /\ announced \in Nat /\ announced <= write_index
        /\ \A i \in 0 .. write_index - 1 :
              Fresh(i + 1)' /\ Narrow(i) # IS_LOCKED /\ Named(i)' => Named(i)
    BY CacheStep DEF CacheInv
  <1>g. Grows
    BY CacheStep DEF Grows, CacheInv
  <1>3. CASE UNCHANGED <<conn, client, server, item>>
    <2>1. Request' = Request
      BY <1>3 DEF Request
    <2>2. ASSUME server = "verify", (Fresh(Request.first))', (StillThere(Request.first - 1))'
          PROVE  item = Request.first
      <3>1. PICK i : i = Request.first - 1
        OBVIOUS
      <3>2. i \in 0 .. write_index - 1 /\ i + 1 = Request.first /\ Narrow(i) # IS_LOCKED
        BY <1>1, <1>2, <2>2, <3>1 DEF ItemInv, Streaming
      <3>3. StillThere(i)' /\ Fresh(i + 1)'
        BY <2>1, <2>2, <3>1, <3>2
      <3>4. i \in Nat /\ Slot(Narrow(i)) = Slot(i) /\ (StillThere(i) <=> Named(i))
        BY <1>2, <3>2, CacheSlots
      <3>5. Named(i)'
        BY <3>3, <3>4 DEF StillThere, Named
      <3>6. StillThere(i) /\ Fresh(i + 1)
        BY <1>2, <1>g, <3>2, <3>3, <3>4, <3>5, FreshBefore DEF Fresh
      <3> QED
        BY <2>2, <3>1, <3>2, <3>6 DEF ItemInv
    <2> QED
      BY <1>3, <2>1, <2>2 DEF ItemInv
  <1>4. CASE server' \notin {"packet", "load", "verify"}
    BY <1>4 DEF ItemInv
  <1>5. CASE Exchange \/ Environment \/ RequestStop \/ UNCHANGED vars
    BY <1>3, <1>5, ZenonT(60) DEF Exchange, StartExchange, GenerateMessage, CacheMessage, Broadcast,
           ExchangeStops, elsewhereUnchanged, Environment, Connect, Ask, Arrive, Vanish,
           RequestStop, vars, serverUnchanged
  <1>6. CASE \/ StartServer \/ StartServerFails \/ AssertFails \/ CloseServer
             \/ WaitForEvents \/ AcceptOne \/ AcceptedAll \/ HandleRequest \/ ClientEventFails
    BY <1>4, <1>6, Zenon DEF StartServer, StartServerFails, AssertFails, CloseServer, ServerReturns,
          WaitForEvents, AcceptOne, AcceptedAll, EventFor, HandleRequest, ClientEventFails,
          ReceiveAll, ReceivePart, ReceiveFails, HandledEvent
  <1>7. ASSUME Streaming, NEW f, NEW n, SendWhole(f, n), Request.first >= 1 PROVE ItemInv'
    <2>1. server' = "packet" /\ client' = client
      BY <1>7 DEF SendWhole
    <2>2. Request' = [Request EXCEPT !.first = Request.first + 1]
      BY <1>1, <1>7, <2>1, SendWholeFields DEF ServerInv, Request
    <2>3. Request.first + 1 >= 1
      BY <1>1, <1>7
    <2>4. Request'.first >= 1
      BY <1>1, <1>7, <2>2, <2>3, RangeFacts
    <2> QED
      BY <2>1, <2>4 DEF ItemInv
  <1>8. ASSUME Streaming, NEW f, NEW n, Send(f, n), Request.first >= 1 PROVE ItemInv'
    BY <1>4, <1>7, <1>8, WaysToClose DEF Send, SendPart, Closes, HandledEvent
  <1>9. CASE Refuse
    BY <1>4, <1>9 DEF Refuse, HandledEvent
  <1>10. CASE ResumeSend
    <2>1. Streaming
      BY <1>10 DEF ResumeSend, Streaming
    <2>2. CASE Request.first >= 1 /\ server' = "packet" /\ UNCHANGED <<conn, client>>
      BY <2>2 DEF ItemInv, Request
    <2> QED
      BY <1>8, <1>9, <1>10, <2>1, <2>2 DEF ResumeSend, FIRST_SEQUENCE_ID
  <1>11. CASE NextPacket
    <2>1. CASE HandledEvent
      BY <1>4, <2>1 DEF HandledEvent
    <2>2. CASE /\ Request.first < Request.last /\ server' = "load"
               /\ Lookup(Request.first - 1) = "Found" /\ UNCHANGED <<conn, client>>
      <3>0. Streaming /\ Request.first >= 1
        BY <1>11 DEF NextPacket, Streaming, ItemInv
      <3>2. PICK i \in Nat : i = Request.first - 1
        BY <1>1, <3>0
      <3>3. Lookup(i) = "Found" /\ Narrow(i) \in Nat /\ IS_LOCKED \in Nat
            /\ sequence[Slot(Narrow(i))] \in Nat
        BY <2>2, <3>2, CacheSlots DEF CacheInv
      <3>4. Narrow(i) # IS_LOCKED
        BY <3>3 DEF Lookup
      <3>1. Narrow(Request.first - 1) # IS_LOCKED
        BY <3>2, <3>4
      <3> QED
        BY <1>11, <2>2, <3>1 DEF ItemInv, Request, NextPacket
    <2> QED
      BY <1>9, <1>11, <2>1, <2>2 DEF NextPacket, FIRST_SEQUENCE_ID
  <1>12. CASE LoadItem
    <2>1. /\ server = "load" /\ server' = "verify" /\ UNCHANGED <<conn, client, cacheVars>>
          /\ item' = Loaded(Request.first - 1) /\ counter' = counter
      BY <1>12 DEF LoadItem, exchangeVars, FIRST_SEQUENCE_ID
    <2>2. Request' = Request
      BY <2>1 DEF Request
    <2>3. Request.first >= 1 /\ Request.first < Request.last /\ Narrow(Request.first - 1) # IS_LOCKED
      BY <2>1 DEF ItemInv
    <2>4. PICK i : i = Request.first - 1
      OBVIOUS
    <2>5. i \in 0 .. write_index - 1 /\ i + 1 = Request.first
      BY <1>1, <1>2, <2>1, <2>3, <2>4 DEF Streaming
    <2>8. i \in Nat /\ Slot(i) \in Slots /\ Slot(Narrow(i)) = Slot(i) /\ (StillThere(i) <=> Named(i))
      BY <1>2, <2>5, CacheSlots
    <2>6. /\ item' \in Nat
          /\ Fresh(i + 1) /\ StillThere(i) => item' = i + 1
      BY <2>1, <2>3, <2>4, <2>5, <2>8 DEF CacheInv, Loaded
    <2>7. /\ (StillThere(Request.first - 1))' => StillThere(i)
          /\ (Fresh(Request.first))' => Fresh(i + 1)
      BY <2>1, <2>2, <2>4, <2>5 DEF StillThere, Fresh, cacheVars
    <2> QED
      BY <2>1, <2>2, <2>3, <2>4, <2>5, <2>6, <2>7 DEF ItemInv
  <1>13. CASE VerifyAndSend
    <2>1. Streaming /\ Request.first >= 1
      BY <1>13 DEF VerifyAndSend, Streaming, ItemInv
    <2> QED
      BY <1>8, <1>9, <1>13, <2>1 DEF VerifyAndSend
  <1> QED
    BY <1>5, <1>6, <1>10, <1>11, <1>12, <1>13, ServerCases

-----------------------------------------------------------------------------
(* What closed connections got. *)

\* Nobody has left.
LEMMA NothingDeparted == \E o, end : Departed(NULL, <<>>, o, end)
  <1>1. Departed(NULL, <<>>, <<>>, <<>>)
    <2>1. <<>> \in Seq(Pieces) /\ <<>> = <<>> \o <<>>
      BY EmptySeq, ConcatEmptySeq
    <2> QED
      BY <2>1 DEF Departed, Notices
  <1> QED
    BY <1>1

\* Nobody gets anything any more, and what was true of it stays true.
LEMMA DepartedStays ==
    ASSUME Grows, NEW ask, NEW out, NEW o, NEW end, Departed(ask, out, o, end)
    PROVE  Departed(ask, out, o, end)'
  <1>1. ask # NULL => ask.first \in Nat
    BY AskFacts DEF Departed
  <1>2. ask # NULL => (Fresh(ask.first)' => Fresh(ask.first))
    BY <1>1, FreshBefore DEF Fresh
  <1> QED
    BY <1>2 DEF Departed, Begins, Notices

\* ... of every connection.
LEMMA LeftOf ==
    ASSUME Grows, NEW s \in Sockets, NEW ask, NEW out, ask = left'[s].ask, out = left'[s].out,
           \E o, end : Departed(ask, out, o, end)
    PROVE  (\E o, end : Departed(left[s].ask, left[s].out, o, end))'
  <1>1. PICK o, end : Departed(ask, out, o, end)
    OBVIOUS
  <1>2. Departed(ask, out, o, end)'
    BY <1>1, DepartedStays
  <1>3. Departed(left[s].ask, left[s].out, o, end)'
    BY <1>2 DEF Departed, Fresh
  <1> QED
    BY <1>3

\* A header that may come behind.
LEMMA NoticeIsPieces == \A end \in Notices : end \in Seq(Pieces)
  <1>1. ErrorHeader \in Pieces
    BY DEF ErrorHeader, Pieces
  <1>2. <<>> \in Seq(Pieces)
    BY EmptySeq
  <1>3. <<ErrorHeader>> \in Seq(Pieces)
    BY <1>1
  <1> QED
    BY <1>2, <1>3 DEF Notices

\* A client is closed where it is, with or without a header.
LEMMA DepartsAsItIs ==
    ASSUME NEW c \in Sockets, SocketInv(c), NEW end \in Notices
    PROVE  Departed(net[c].ask, net[c].out \o end, net[c].out, end)
  BY DEF SocketInv, PeerInv, Departed

\* A client is closed behind more halves of the message it was being sent.
LEMMA DepartsCut ==
    ASSUME NEW c \in Sockets, SocketInv(c), Grows, NEW f, NEW n, Sends(c, f, n),
           NEW more \in 0 .. 1 - n, NEW end \in Notices, NEW cut, cut = SubSeq(Unsent(f, n), 1, more)
    PROVE  Departed(net[c].ask, net[c].out \o (cut \o end), net[c].out \o cut, end)
  <1>1. Owed(c) /\ f \in Nat /\ n = conn[c].sent
        /\ (Fresh(conn[c].request.first) => f = conn[c].request.first)
    BY DEF Sends
  <1>2. PICK r, q, k, o : Owes(c, r, q, k, o)
    BY <1>1, Sending
  <1>3. /\ r \in Asking /\ n = k /\ n \in {0, 1} /\ o \in Seq(Pieces) /\ r # NULL
        /\ net[c].ask = r /\ net[c].out = o /\ (Fresh(q.first) => f = q.first)
    BY <1>1, <1>2 DEF Owes
  <1>4. cut \in Seq(Pieces) /\ Len(cut) = more /\ HalvesOf(cut, f, n)
    BY <1>1, <1>3, UnsentHalves
  <1>5. Len(cut) <= 2 - n /\ counter \in Nat
    BY <1>3, <1>4 DEF Grows
  <1>6. /\ o \o cut \in Seq(Pieces) /\ Len(o \o cut) <= 2 * (r.last - r.first)
        /\ Fresh(r.first) => Begins(o \o cut, r)
    <2>1. Owes(c, r, q, n, o) /\ f \in Nat /\ (Fresh(q.first) => f = q.first)
      BY <1>1, <1>2, <1>3
    <2>2. cut \in Seq(Pieces) /\ HalvesOf(cut, f, n)
      BY <1>4
    <2> QED
      BY ONLY <1>5, <2>1, <2>2, AnswerGoesOn
  <1>7. o \o (cut \o end) = (o \o cut) \o end
    <2>1. end \in Seq(Pieces)
      BY NoticeIsPieces
    <2>2. o \in Seq(Pieces) /\ cut \in Seq(Pieces)
      BY <1>3, <1>4
    <2>3. (o \o cut) \o end = o \o (cut \o end)
      BY ONLY <2>1, <2>2, ConcatAssociative, SMTT(60)
    <2> QED
      BY ONLY <2>3, Zenon
  <1> QED
    BY <1>3, <1>6, <1>7 DEF Departed

\* The connection of a client that got what it should is closed.
LEMMA LeftByOne ==
    ASSUME LeftInv, Grows, NEW c \in Sockets, NEW more, Disconnect(c, more),
           \E o, end : Departed(net[c].ask, net[c].out \o more, o, end)
    PROVE  LeftInv'
  <1>1. /\ DOMAIN left' = Sockets /\ left'[c].ask = net[c].ask /\ left'[c].out = net[c].out \o more
        /\ \A s \in Sockets \ {c} : left'[s] = left[s]
    BY DEF Disconnect, LeftInv, GotBy
  <1>2. ASSUME NEW s \in Sockets PROVE (\E o, end : Departed(left[s].ask, left[s].out, o, end))'
    <2>1. PICK ask, out : ask = left'[s].ask /\ out = left'[s].out
      OBVIOUS
    <2>2. \E o, end : Departed(ask, out, o, end)
      BY <1>1, <2>1 DEF LeftInv
    <2> QED
      BY <2>1, <2>2, LeftOf
  <1> QED
    BY <1>1, <1>2 DEF LeftInv

\* send() fails.
LEMMA LeftBySendFails ==
    ASSUME LeftInv, Sound, Grows, NEW c \in Sockets, NEW f, NEW n, Sends(c, f, n), SendFails(f, n)
    PROVE  LeftInv'
  <1>1. PICK more \in 0 .. 1 - n :
           LET cut == SubSeq(Unsent(f, n), 1, more)
           IN  Disconnect(client, cut) \/ notify_and_close(client, cut)
    BY Zenon DEF SendFails
  <1>2. PICK cut : cut = SubSeq(Unsent(f, n), 1, more)
    OBVIOUS
  <1>3. c = client /\ SocketInv(c) /\ f \in Nat /\ Owed(c) /\ n = conn[c].sent
    BY DEF Sends, Sound
  <1>4. PICK end \in Notices : \/ Disconnect(c, cut) /\ end = <<>>
                              \/ Disconnect(c, cut \o end)
    BY <1>1, <1>2, <1>3, Zenon DEF notify_and_close, Notices
  <1>5. Departed(net[c].ask, net[c].out \o (cut \o end), net[c].out \o cut, end)
    BY <1>2, <1>3, DepartsCut
  <1>6. end = <<>> => cut \o end = cut
    <2>1. n \in {0, 1}
      BY <1>3 DEF SocketInv, RequestInv
    <2>2. cut \in Seq(Pieces)
      BY <1>2, <1>3, <2>1, UnsentHalves
    <2> QED
      BY <2>2, ConcatEmptySeq
  <1>7. Disconnect(c, cut \o end)
    BY <1>4, <1>6
  <1> QED
    BY <1>5, <1>7, LeftByOne

\* Any other reason to close one connection.
LEMMA LeftByClose ==
    ASSUME LeftInv, Sound, Grows, NEW c \in Sockets, close_client(c) \/ notify_and_close(c, <<>>)
    PROVE  LeftInv'
  <1>1. ASSUME NEW end \in Notices PROVE <<>> \o end = end
    BY NoticeIsPieces, ConcatEmptySeq
  <1>2. <<>> \in Notices
    BY DEF Notices
  <1>3. PICK end \in Notices : Disconnect(c, end)
    BY <1>1, <1>2 DEF close_client, notify_and_close
  <1>4. Departed(net[c].ask, net[c].out \o end, net[c].out, end)
    BY DepartsAsItIs DEF Sound
  <1> QED
    BY <1>3, <1>4, LeftByOne

\* Every step.
LEMMA LeftStep ==
    ASSUME ServerInv, CacheInv, ItemInv, Sound, LeftInv, [Next]_vars PROVE LeftInv'
  <1>g. Grows
    BY CacheStep DEF Grows, CacheInv
  <1>1. CASE left' = left
    <2>1. ASSUME NEW s \in Sockets PROVE (\E o, end : Departed(left[s].ask, left[s].out, o, end))'
      <3>1. PICK ask, out : ask = left[s].ask /\ out = left[s].out
        OBVIOUS
      <3>2. \E o, end : Departed(ask, out, o, end)
        BY <3>1 DEF LeftInv
      <3> QED
        BY <1>1, <1>g, <3>1, <3>2, LeftOf
    <2> QED
      BY <1>1, <2>1 DEF LeftInv
  <1>2. CASE WaitForEvents
    <2>1. left' = [s \in Sockets |-> Nothing]
      BY <1>2 DEF WaitForEvents
    <2>2. PICK o, end : Departed(NULL, <<>>, o, end)
      BY NothingDeparted
    <2>3. Departed(NULL, <<>>, o, end)'
      BY <1>g, <2>2, DepartedStays
    <2> QED
      BY <2>1, <2>3 DEF LeftInv, Nothing
  <1>3. CASE CloseServer
    <2>1. PICK notice \in [Sockets -> Notices] :
             left' = [s \in Sockets |-> IF conn[s].open THEN GotBy(s, notice[s]) ELSE left[s]]
      BY <1>3 DEF CloseServer
    <2>2. ASSUME NEW s \in Sockets PROVE (\E o, end : Departed(left[s].ask, left[s].out, o, end))'
      <3>1. PICK ask, out : ask = left'[s].ask /\ out = left'[s].out
        OBVIOUS
      <3>2. CASE conn[s].open
        <4>1. ask = net[s].ask /\ out = net[s].out \o notice[s] /\ notice[s] \in Notices
          BY <2>1, <3>1, <3>2 DEF GotBy
        <4>2. PICK o, end : Departed(ask, out, o, end)
          BY <4>1, DepartsAsItIs DEF Sound
        <4> QED
          BY <1>g, <3>1, <4>2, LeftOf
      <3>3. CASE ~conn[s].open
        <4>1. PICK o, end : Departed(ask, out, o, end)
          BY <2>1, <3>1, <3>3 DEF LeftInv
        <4> QED
          BY <1>g, <3>1, <4>1, LeftOf
      <3> QED
        BY <3>2, <3>3
    <2> QED
      BY <2>1, <2>2 DEF LeftInv
  <1>4. CASE HandleRequest \/ ClientEventFails
    <2> DEFINE h == Head(batch).socket
    <2>1. h \in Sockets
      BY <1>4, ServingEvent DEF Serving, Opened, ServerInv, HandleRequest, ClientEventFails
    <2>2. PICK c \in Sockets : c = h
      BY <2>1
    <2>3. close_client(c) \/ notify_and_close(c, <<>>) \/ left' = left
      BY <1>4, <2>2, Zenon DEF HandleRequest, ReceiveAll, ReceivePart, ReceiveFails, ClientEventFails
    <2> QED
      BY <1>1, <1>g, <2>3, LeftByClose
  <1>5. CASE ResumeSend \/ NextPacket \/ LoadItem \/ VerifyAndSend
    <2>0. Streaming
      BY <1>5 DEF ResumeSend, NextPacket, LoadItem, VerifyAndSend, Streaming
    <2>1. PICK c \in Sockets : c = client
      BY <2>0, ServingClient
    <2>2. CASE Refuse
      BY <1>g, <2>1, <2>2, LeftByClose DEF Refuse
    <2>3. ASSUME NEW f, NEW n, Sends(c, f, n), Send(f, n) PROVE LeftInv'
      BY <1>1, <1>g, <2>3, LeftBySendFails DEF Send, SendWhole, SendPart
    <2>4. CASE ResumeSend
      BY <1>1, <2>1, <2>2, <2>3, <2>4, WhatIsSent DEF ResumeSend
    <2>5. CASE VerifyAndSend
      BY <2>1, <2>2, <2>3, <2>5, WhatIsSent DEF VerifyAndSend, FIRST_SEQUENCE_ID
    <2>6. CASE NextPacket \/ LoadItem
      BY <1>1, <2>2, <2>6 DEF NextPacket, LoadItem
    <2> QED
      BY <1>5, <2>4, <2>5, <2>6
  <1>6. CASE StartServer \/ StartServerFails \/ AssertFails \/ AcceptOne \/ AcceptedAll
    BY <1>1, <1>6 DEF StartServer, StartServerFails, AssertFails, AcceptOne, AcceptedAll
  <1>7. CASE Exchange \/ Environment \/ RequestStop \/ UNCHANGED vars
    BY <1>1, <1>7, ZenonT(60) DEF Exchange, StartExchange, GenerateMessage, CacheMessage, Broadcast,
           ExchangeStops, elsewhereUnchanged, Environment, Connect, Ask, Arrive, Vanish,
           RequestStop, vars, serverUnchanged
  <1> QED
    BY <1>2, <1>3, <1>4, <1>5, <1>6, <1>7, ServerCases

-----------------------------------------------------------------------------
\* Cache, requests and streams agree.
THEOREM DataInvariant == Spec => []DataInv
  <1>1. Init => DataInv
    <2> SUFFICES ASSUME Init PROVE DataInv
      OBVIOUS
    <2>1. CacheInv
      BY CacheSlots, ServerAssumption DEF Init, CacheInit, CacheInv, FIRST_SEQUENCE_ID
    <2>2. ItemInv
      BY DEF Init, ItemInv
    <2>3. ASSUME NEW t \in Sockets PROVE SocketInv(t)
      <3>1. /\ conn[t].status = "Clear" /\ conn[t].sent = 0 /\ conn[t].got = 0
            /\ net[t].ask = NULL /\ net[t].out = <<>> /\ net[t].wire = 0 /\ net[t].arrived = 0
        BY DEF Init, ClosedConnection, NoPeer
      <3>2. ~Active(t) /\ ~Owed(t)
        BY <3>1, ServerAssumption DEF Active, Owed, Init
      <3>3. <<>> \in Seq(Pieces)
        BY EmptySeq
      <3> QED
        BY <3>1, <3>2, <3>3 DEF SocketInv, PeerInv, RequestInv
    <2>4. LeftInv
      <3>1. \A s \in Sockets : left[s].ask = NULL /\ left[s].out = <<>>
        BY DEF Init, Nothing
      <3> QED
        BY <3>1, NothingDeparted DEF LeftInv, Init
    <2> QED
      BY <2>1, <2>2, <2>3, <2>4 DEF DataInv, SocketInv
  <1>2. ServerInv /\ DataInv /\ [Next]_vars => DataInv'
    <2> SUFFICES ASSUME ServerInv, DataInv, [Next]_vars PROVE DataInv'
      OBVIOUS
    <2>1. CacheInv /\ ItemInv /\ Sound /\ LeftInv
      BY DEF DataInv, Sound, SocketInv
    <2>2. CacheInv' /\ ItemInv' /\ Sound' /\ LeftInv'
      BY <2>1, CacheStep, ItemStep, EveryStepIsSound, LeftStep
    <2> QED
      BY <2>2 DEF DataInv, Sound, SocketInv
  <1> QED
    BY <1>1, <1>2, ServerInvariant, PTL DEF Spec

\* What began an answer is a prefix of it.
LEMMA BeginsIsPrefix ==
    ASSUME NEW r \in Asking, NEW o \in Seq(Pieces), Len(o) <= 2 * (r.last - r.first), Begins(o, r)
    PROVE  Len(o) \in 0 .. Len(Answer(r)) /\ o = SubSeq(Answer(r), 1, Len(o))
  <1>1. r.first \in Nat /\ r.last \in Nat /\ r.first < r.last /\ Len(o) \in Nat
    BY AskFacts, LenProperties
  <1> DEFINE m == 2 * (r.last - r.first)
             a == Answer(r)
             k == Len(o)
  <1>2. m \in Nat /\ k <= m /\ k \in Nat
    BY <1>1
  <1>3. \A i \in 1 .. k : o[i] = Piece(r, i)
    BY DEF Begins
  <1> HIDE DEF m
  <1>4. Len(a) = m /\ a = [i \in 1 .. m |-> Piece(r, i)]
    BY <1>2 DEF Answer, Piece, m
  <1> HIDE DEF a
  <1>5. o = [i \in 1 .. k |-> Piece(r, i)]
    <2>1. o \in [1 .. k -> Pieces]
      BY LenProperties
    <2> QED
      BY <1>3, <2>1
  <1> HIDE DEF k
  <1>6. SubSeq(a, 1, k) = [i \in 1 .. k |-> a[i]]
    BY <1>2, <1>4
  <1>7. \A i \in 1 .. k : a[i] = Piece(r, i)
    BY <1>2, <1>4
  <1>8. o = SubSeq(a, 1, k)
    BY <1>5, <1>6, <1>7
  <1>9. k \in 0 .. Len(a)
    BY <1>2, <1>4
  <1> QED
    BY <1>8, <1>9 DEF a, k

\* StreamIsFaithful: wherever send() cut it and however the exchange went on
\* meanwhile, a client has got a prefix of the messages it asked for, in order,
\* none skipped and none twice; if it was closed, perhaps with a header behind.
THEOREM ServerStreamsFaithfully == Spec => []StreamIsFaithful
  <1>0. ASSUME NEW ask, NEW out, NEW o, NEW end, NEW ends, end \in ends,
               Departed(ask, out, o, end)
        PROVE  Answers(ask, out, ends)
    <2>1. CASE ask = NULL
      <3>1. out = end
        <4>1. end \in Seq(Pieces) /\ o = <<>>
          BY <1>0, <2>1, NoticeIsPieces DEF Departed
        <4> QED
          BY <1>0, <4>1, ConcatEmptySeq DEF Departed
      <3> QED
        BY <1>0, <2>1, <3>1 DEF Answers
    <2>2. CASE ask # NULL
      <3> SUFFICES ASSUME Fresh(ask.first)
                   PROVE  \E k \in 0 .. Len(Answer(ask)), e \in ends :
                             out = SubSeq(Answer(ask), 1, k) \o e
        BY <2>2 DEF Answers
      <3>1. /\ ask \in Asking /\ o \in Seq(Pieces) /\ Len(o) <= 2 * (ask.last - ask.first)
            /\ Begins(o, ask) /\ out = o \o end
        BY <1>0, <2>2 DEF Departed
      <3>2. Len(o) \in 0 .. Len(Answer(ask)) /\ o = SubSeq(Answer(ask), 1, Len(o))
        BY <3>1, BeginsIsPrefix
      <3>3. out = SubSeq(Answer(ask), 1, Len(o)) \o end
        BY <3>1, <3>2
      <3> QED
        BY <1>0, <3>2, <3>3
    <2> QED
      BY <2>1, <2>2
  <1>1. DataInv => StreamIsFaithful
    <2> SUFFICES ASSUME DataInv, NEW s \in Sockets
                 PROVE  /\ Answers(net[s].ask, net[s].out, {<<>>})
                        /\ Answers(left[s].ask, left[s].out, Notices)
      BY DEF StreamIsFaithful
    <2>1. Answers(net[s].ask, net[s].out, {<<>>})
      <3>1. SocketInv(s) /\ <<>> \in Notices
        BY DEF DataInv, SocketInv, Notices
      <3>2. Departed(net[s].ask, net[s].out \o <<>>, net[s].out, <<>>)
        BY <3>1, DepartsAsItIs
      <3>3. net[s].out \o <<>> = net[s].out
        BY <3>2, ConcatEmptySeq DEF Departed
      <3> QED
        BY <1>0, <3>2, <3>3
    <2>2. Answers(left[s].ask, left[s].out, Notices)
      <3>1. PICK o, end : Departed(left[s].ask, left[s].out, o, end)
        BY DEF DataInv, LeftInv
      <3> QED
        BY <1>0, <3>1 DEF Departed
    <2> QED
      BY <2>1, <2>2
  <1> QED
    BY <1>1, DataInvariant, PTL

\* RefusedWasOverwritten: try_get_item finds every message a client can ask
\* for, unless CAPACITY newer ones have been sequenced since, or its narrowed
\* index is the number of a locked slot.
THEOREM ServerRefusesOnlyOverwritten == Spec => []RefusedWasOverwritten
  <1>1. ServerInv /\ DataInv => RefusedWasOverwritten
    <2> SUFFICES ASSUME ServerInv, DataInv, server = "packet", Request.first < Request.last
                 PROVE  LET i == Request.first - FIRST_SEQUENCE_ID
                        IN  \/ Lookup(i) = "Found"
                            \/ counter - FIRST_SEQUENCE_ID > i + CAPACITY
                            \/ Narrow(i) = IS_LOCKED
      BY DEF RefusedWasOverwritten
    <2>1. PICK c \in Sockets : c = client
      BY ServingClient DEF Streaming
    <2>2. conn[c].request \in Ranges /\ conn[c].request.last <= announced
      BY <2>1 DEF DataInv, RequestInv, Active
    <2>3. /\ Request.first \in Nat /\ Request.last \in Nat /\ Request.last <= announced
          /\ Request.first >= 1
      BY <2>1, <2>2, RangeFacts DEF Request, DataInv, ItemInv
    <2>4. /\ write_index \in Nat /\ announced \in Nat /\ counter \in Nat /\ announced <= write_index
          /\ \A j \in 0 .. write_index - 1 : counter - 1 <= j + CAPACITY => Named(j)
      BY DEF DataInv, CacheInv
    <2>5. PICK i : i = Request.first - 1
      OBVIOUS
    <2>6. i \in 0 .. write_index - 1 /\ i \in Nat
      BY <2>3, <2>4, <2>5
    <2>7. CASE counter - 1 <= i + CAPACITY /\ Narrow(i) # IS_LOCKED
      <3>1. Named(i) /\ Slot(Narrow(i)) = Slot(i) /\ Narrow(i) \in Nat
        BY <2>4, <2>6, <2>7, CacheSlots
      <3>2. Lookup(i) = "Found"
        BY <2>7, <3>1 DEF Lookup, Named
      <3> QED
        BY <2>5, <3>2 DEF FIRST_SEQUENCE_ID
    <2>8. CASE ~(counter - 1 <= i + CAPACITY)
      <3>1. counter - 1 > i + CAPACITY
        BY <2>4, <2>6, <2>8, CacheSlots
      <3> QED
        BY <2>5, <3>1 DEF FIRST_SEQUENCE_ID
    <2>9. CASE Narrow(i) = IS_LOCKED
      BY <2>5, <2>9 DEF FIRST_SEQUENCE_ID
    <2> QED
      BY <2>7, <2>8, <2>9
  <1> QED
    BY <1>1, ServerInvariant, DataInvariant, PTL
==============================================================================
