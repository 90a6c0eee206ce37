--------------------------- MODULE WebsocketRelay ---------------------------
(***************************************************************************)
(* The websocket server of the master device: CWServerManager, which       *)
(* identifies connections and relays messages between them, on top of      *)
(* BLWebSocketsServer and the outgoing queues of BLWebSocketConnection.    *)
(* All of it runs on one serial queue, so every libwebsockets callback is  *)
(* one step.                                                               *)
(*                                                                         *)
(* The peers are the pages of the web library on the master (each load of  *)
(* the page draws a new identifier) and remote devices (a native one keeps *)
(* its identifier over reconnects).  A peer sends its identification as    *)
(* soon as its socket is open and uses its latest connection only.         *)
(***************************************************************************)
EXTENDS Naturals, FiniteSets, SequencesExt

CONSTANTS
    Pages,           \* identifiers of the master's page, one for each load
    Remotes,         \* identifiers of remote devices
    Master,          \* the target "master"
    Broadcast,       \* the target "broadcast"
    Server,          \* the target "server", of identifications only
    NoPeer,          \* owner of a connection that was not opened yet
    MaxConnections,  \* bound on connections ever opened
    MaxMessages      \* bound on messages ever sent

Peers == Pages \cup Remotes
Connections == 1..MaxConnections
NoConnection == 0

ASSUME PeersAssumption ==
    /\ Pages \cap Remotes = {}
    /\ {Master, Broadcast, Server, NoPeer} \cap Peers = {}
    /\ Master # Broadcast /\ Master # Server /\ Broadcast # Server
    /\ MaxConnections \in Nat
    /\ MaxMessages \in Nat

VARIABLES
    owner,       \* the peer at the other end of a connection
    live,        \* BLWebSocketsServer.connections
    identified,  \* connections whose handlers were replaced, in that order
    ids,         \* CWServerManager.websocketIdentifiers
    localID,     \* CWServerManager.localWebsocketID
    backlog,     \* CWServerManager.masterBacklog
    outgoing,    \* outgoingMessagesQueue of a connection, newest first
    wire,        \* what a peer sent and the server did not receive yet
    sent,        \* number of messages sent so far
    accepted,    \* messages that reached the relay (history)
    received     \* what arrived at a peer, oldest first (history)

serverVars == <<live, identified, ids, localID, backlog>>
vars == <<serverVars, owner, outgoing, wire, sent, accepted, received>>

\* A message names the connection it was sent on, for _source; its number n
\* stands for the random _id, which tells it from every other message.
Message == [from : Connections, n : 0..MaxMessages,
            target : Remotes \cup {Master, Broadcast, Server}, back : BOOLEAN]

\* _master_identification or _remote_identification.
Identification(c) == [from |-> c, n |-> 0, target |-> Server, back |-> FALSE]

\* Every variable has its type; only opened connections are live, and nothing
\* is queued for a connection that is gone.
TypeOK ==
    /\ owner \in [Connections -> Peers \cup {NoPeer}]
    /\ live \subseteq {c \in Connections : owner[c] # NoPeer}
    /\ identified \in Seq(Connections)
    /\ ids \in [Peers -> Connections \cup {NoConnection}]
    /\ localID \in Connections \cup {NoConnection}
    /\ backlog \in Seq(Message)
    /\ outgoing \in [Connections -> Seq(Message)]
    /\ \A c \in Connections \ live : outgoing[c] = <<>>
    /\ wire \in [Connections -> Seq(Message)]
    /\ sent \in 0..MaxMessages
    /\ accepted \subseteq Message
    /\ received \in [Connections -> Seq(Message)]

Init ==
    /\ owner = [c \in Connections |-> NoPeer]
    /\ live = {}
    /\ identified = <<>>
    /\ ids = [p \in Peers |-> NoConnection]
    /\ localID = NoConnection
    /\ backlog = <<>>
    /\ outgoing = [c \in Connections |-> <<>>]
    /\ wire = [c \in Connections |-> <<>>]
    /\ sent = 0
    /\ accepted = {}
    /\ received = [c \in Connections |-> <<>>]

-----------------------------------------------------------------------------
(* The outgoing queue of a connection.                                     *)

Enqueue(m, queue) == Cons(m, queue)

\* Broken variant: the newest message is removed instead of the one sent.
DequeueNewest(queue) == Tail(queue)

\* dequeueOutgoingMessage takes the last object and removes the first object
\* of the array that equals it.
Dequeue(queue) == RemoveFirst(queue, Last(queue))

-----------------------------------------------------------------------------
(* Routing.                                                                *)

ConnectionFor(target, master, table) ==
    IF target = Master THEN master ELSE table[target]

\* Broken variant: the connection is not looked up before it is pushed to.
RecipientsUnchecked(m, master, table) ==
    IF m.target = Broadcast
      THEN IF m.back THEN live ELSE live \ {m.from}
      ELSE {ConnectionFor(m.target, master, table)}

\* Broken variant: messages to a remote go to the master as well.
RecipientsLeaky(m, master, table) ==
    IF m.target = Broadcast
      THEN live
      ELSE {master, ConnectionFor(m.target, master, table)} \cap live

\* The connections _deliverMessage pushes m to, when the local websocket and
\* the identifiers are as given.
Recipients(m, master, table) ==
    IF m.target = Broadcast
      THEN IF m.back THEN live ELSE live \ {m.from}
      ELSE {ConnectionFor(m.target, master, table)} \cap live

Deliver(m) ==
    outgoing' = [c \in Connections |->
                   IF c \in Recipients(m, localID, ids)
                     THEN Enqueue(m, outgoing[c])
                     ELSE outgoing[c]]

-----------------------------------------------------------------------------
(* The peers.                                                              *)

\* LWS_CALLBACK_ESTABLISHED for the next connection; the peer answers its own
\* open event with its identification.
OpenWebsocket(p, c) ==
    /\ owner[c] = NoPeer
    /\ \A b \in 1..(c - 1) : owner[b] # NoPeer
    /\ p \in Pages => \A b \in Connections : owner[b] # p
    /\ owner' = [owner EXCEPT ![c] = p]
    /\ live' = live \cup {c}
    /\ wire' = [wire EXCEPT ![c] = <<Identification(c)>>]
    /\ UNCHANGED <<identified, ids, localID, backlog, outgoing, sent,
                   accepted, received>>

\* c is the connection its peer uses: neither it nor, for a page, a page
\* loaded after it has opened another one.
InUse(c) ==
    /\ owner[c] # NoPeer
    /\ \A b \in Connections :
         b > c => /\ owner[b] # owner[c]
                  /\ ~(owner[b] \in Pages /\ owner[c] \in Pages)

\* Connichiwa.send and broadcast.
Send(c, target, back) ==
    /\ c \in live
    /\ InUse(c)
    /\ sent < MaxMessages
    /\ target = Broadcast \/ ~back
    /\ sent' = sent + 1
    /\ wire' = [wire EXCEPT ![c] = Append(@,
                  [from |-> c, n |-> sent', target |-> target, back |-> back])]
    /\ UNCHANGED <<serverVars, owner, outgoing, accepted, received>>

-----------------------------------------------------------------------------
(* The server.                                                             *)

IsIdentified(c) == Contains(identified, c)

\* A handler may look at the next message of a live connection.
Arrives(c) ==
    /\ c \in live
    /\ wire[c] # <<>>
    /\ wire' = [wire EXCEPT ![c] = Tail(@)]

Register(c) ==
    /\ Arrives(c)
    /\ ~IsIdentified(c)
    /\ Head(wire[c]) = Identification(c)
    /\ identified' = Append(identified, c)
    /\ ids' = [ids EXCEPT ![owner[c]] = c]

\* onUnidentifiedWebsocketMessage, for a remote's identification.
IdentifyRemote(c) ==
    /\ owner[c] \in Remotes
    /\ Register(c)
    /\ UNCHANGED <<live, localID, backlog, owner, outgoing, sent,
                   accepted, received>>

\* Broken variant: the messages that waited for the master are forgotten.
IdentifyMasterForgets(c) ==
    /\ owner[c] \in Pages
    /\ Register(c)
    /\ localID' = c
    /\ backlog' = <<>>
    /\ UNCHANGED <<live, owner, outgoing, sent, accepted, received>>

\* The queue of connection d when the messages of the backlog were delivered,
\* one after the other.
BacklogDelivered(d, master, table) ==
    LET queue[i \in 0..Len(backlog)] ==
          IF i = 0
            THEN outgoing[d]
            ELSE IF d \in Recipients(backlog[i], master, table)
                   THEN Enqueue(backlog[i], queue[i - 1])
                   ELSE queue[i - 1]
    IN  queue[Len(backlog)]

\* onUnidentifiedWebsocketMessage, for the master's own page: every message
\* of the backlog is delivered, and the backlog is kept.
IdentifyMaster(c) ==
    /\ owner[c] \in Pages
    /\ Register(c)
    /\ localID' = c
    /\ outgoing' = [d \in Connections |-> BacklogDelivered(d, c, ids')]
    /\ UNCHANGED <<live, backlog, owner, sent, accepted, received>>

\* onIdentifiedWebsocketMessage.
Relay(c) ==
    /\ Arrives(c)
    /\ IsIdentified(c)
    /\ LET m == Head(wire[c]) IN
         /\ accepted' = accepted \cup {m}
         /\ \/ /\ localID = NoConnection
               /\ backlog' = Append(backlog, m)
               /\ UNCHANGED outgoing
            \/ /\ localID # NoConnection
               /\ Deliver(m)
               /\ UNCHANGED backlog
    /\ UNCHANGED <<live, identified, ids, localID, owner, sent, received>>

\* LWS_CALLBACK_SERVER_WRITEABLE.
Write(c) ==
    /\ c \in live
    /\ outgoing[c] # <<>>
    /\ received' = [received EXCEPT ![c] = Append(@, Last(outgoing[c]))]
    /\ outgoing' = [outgoing EXCEPT ![c] = Dequeue(@)]
    /\ UNCHANGED <<serverVars, owner, wire, sent, accepted>>

\* Broken variant: the identifier goes even when a newer connection has it.
CloseWebsocketForgets(c) ==
    /\ c \in live
    /\ live' = live \ {c}
    /\ wire' = [wire EXCEPT ![c] = <<>>]
    /\ outgoing' = [outgoing EXCEPT ![c] = <<>>]
    /\ ids' = [ids EXCEPT ![owner[c]] = NoConnection]
    /\ UNCHANGED <<identified, localID, backlog, owner, sent, accepted,
                   received>>

\* LWS_CALLBACK_CLOSED with onIdentifiedWebsocketClosed.  Nothing is done
\* about the identifier of the local websocket, nor of a connection that a
\* newer one has replaced.
CloseWebsocket(c) ==
    /\ c \in live
    /\ live' = live \ {c}
    /\ wire' = [wire EXCEPT ![c] = <<>>]
    /\ outgoing' = [outgoing EXCEPT ![c] = <<>>]
    /\ ids' = IF c = localID
                THEN ids
                ELSE [p \in Peers |-> IF ids[p] = c THEN NoConnection ELSE ids[p]]
    /\ UNCHANGED <<identified, localID, backlog, owner, sent, accepted,
                   received>>

Next ==
    \E c \in Connections :
        \/ \E p \in Peers : OpenWebsocket(p, c)
        \/ \E t \in Remotes \cup {Master, Broadcast}, b \in BOOLEAN : Send(c, t, b)
        \/ IdentifyRemote(c)
        \/ IdentifyMaster(c)
        \/ Relay(c)
        \/ Write(c)
        \/ CloseWebsocket(c)

Spec == Init /\ [][Next]_vars

-----------------------------------------------------------------------------
(* Properties.                                                             *)

ReceivedBy(c) == {received[c][i] : i \in 1..Len(received[c])}
QueuedFor(c) == {outgoing[c][i] : i \in 1..Len(outgoing[c])}

\* The page of the master was loaded and identified at most once.
LoadedOnce ==
    Cardinality({c \in Connections : IsIdentified(c) /\ owner[c] \in Pages}) <= 1

\* The connection that identified itself last as some remote is the one on
\* record for it as long as it is live, whatever older connections of that
\* remote do; a remote that is on record is there to receive messages.
RemotesOnRecord ==
    /\ \A r \in Remotes : ids[r] # NoConnection =>
         ids[r] \in live /\ owner[ids[r]] = r /\ IsIdentified(ids[r])
    /\ \A i \in 1..Len(identified) :
         LET c == identified[i] IN
         /\ c \in live
         /\ owner[c] \in Remotes
         /\ \A j \in (i + 1)..Len(identified) : owner[identified[j]] # owner[c]
         => ids[owner[c]] = c

\* A message reaches nobody but its addressee; a broadcast comes back over
\* its own connection only on request.
RoutedToAddressee ==
    \A c \in Connections : \A m \in ReceivedBy(c) :
        \/ m.target = owner[c]
        \/ m.target = Master /\ owner[c] \in Pages
        \/ m.target = Broadcast /\ (m.back \/ m.from # c)

InOrderOnce ==
    \A c \in Connections : \A i, j \in 1..Len(received[c]) :
        i < j /\ received[c][i].from = received[c][j].from =>
            received[c][i].n < received[c][j].n

\* Messages of one connection arrive on another in the order they were sent
\* and never twice, through the backlog and the queues, as long as the
\* master's page is not reloaded.
OrderedUntilReload == LoadedOnce => InOrderOnce

\* No message to the master is lost: while it has no websocket everything
\* waits in the backlog, and once it has one, everything that was ever
\* accepted for it has been received by it or is in its queue.
MasterMissesNothing ==
    /\ localID = NoConnection => accepted = {backlog[i] : i \in 1..Len(backlog)}
    /\ LoadedOnce /\ localID \in live =>
         \A m \in accepted : m.target = Master =>
             m \in ReceivedBy(localID) \cup QueuedFor(localID)

=============================================================================
