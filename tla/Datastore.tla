----------------------------- MODULE Datastore -----------------------------
(***************************************************************************)
(* How a remote joins and how the devices share data.  A page that opened  *)
(* its websocket identifies itself to the relay and sends its remoteinfo   *)
(* to the master.  The master answers with debug information, its whole    *)
(* datastore and the files of autoLoad, announces the device when all of   *)
(* them were acknowledged, and acknowledges the remoteinfo, on which the   *)
(* remote is ready.  Meanwhile every device may set entries of its         *)
(* datastore; it writes its own copy and broadcasts them.                  *)
(*                                                                         *)
(* The relay is the one of WebsocketRelay, with one connection of a remote *)
(* at a time; a page handles its messages in the order they arrive.        *)
(* Acknowledgements nobody waits for change nothing and are left out.      *)
(***************************************************************************)
EXTENDS Naturals, SequencesExt

CONSTANTS
    Remotes, Master,
    Keys,        \* entries of the datastore
    Writer,      \* the only device that sets an entry
    AutoLoad,    \* Connichiwa.autoLoad, a sequence of distinct files
    Scripts,     \* the .js files in it; the others are .css files
    MaxWrites,   \* bound on entries ever set
    MaxSessions  \* bound on pages ever opened by remotes

Devices == Remotes \cup {Master}
Sessions == 1..MaxSessions
Closed == 0
Unset == 0
Files == ToSet(AutoLoad)
Parts == {"debuginfo", "data"} \cup Files

ASSUME DatastoreAssumption ==
    /\ Master \notin Remotes /\ "broadcast" \notin Devices
    /\ Writer \in [Keys -> Devices]
    /\ AutoLoad \in Seq(Files) /\ IsInjective(AutoLoad) /\ Scripts \subseteq Files
    /\ Files \cap {"debuginfo", "data"} = {}
    /\ {MaxWrites, MaxSessions} \subseteq Nat

VARIABLES
    data,        \* CWDatastore._data of a device; a value is the count of its write
    page,        \* the session of a remote's page, or Closed
    identified,  \* remotes on record at the relay
    ready,       \* remotes whose page has triggered ready
    equipped,    \* what a page was given and has loaded
    loading,     \* scripts a page is loading, with the session they are for
    acked,       \* the parts of a handshake acknowledged to the master
    out,         \* messages a device sent and the relay did not take yet
    inbox,       \* messages the relay took for a device
    writes,      \* number of writes so far
    opened,      \* number of sessions so far
    witnesses    \* who was ready when an entry was relayed last (history)

handshakeVars == <<page, identified, ready, equipped, loading, acked, opened>>
storeVars == <<data, writes, witnesses>>
channels == <<out, inbox>>
vars == <<handshakeVars, storeVars, channels>>

Store == [Keys -> 0..MaxWrites]
Empty == [k \in Keys |-> Unset]

\* A message goes to one device or to all; its session stands for the _id.
Identification == [name : {"identification"}]
RemoteInfo == [name : {"remoteinfo"}, to : {Master}, from : Remotes, session : Sessions]
Part == [name : {"part"}, to : Remotes, session : Sessions,
         part : Parts, data : Store]
PartAck == [name : {"partack"}, to : {Master}, from : Remotes,
            session : Sessions, part : Parts]
InfoAck == [name : {"infoack"}, to : Remotes, session : Sessions]
Update == [name : {"update"}, to : {"broadcast"}, key : Keys, value : 1..MaxWrites]
Message == Identification \cup RemoteInfo \cup Part \cup PartAck \cup InfoAck \cup Update

\* Every variable has its type; a remote is on record, ready or loading only
\* while its page is open.
TypeOK ==
    /\ data \in [Devices -> Store]
    /\ page \in [Remotes -> Sessions \cup {Closed}]
    /\ identified \subseteq {r \in Remotes : page[r] # Closed}
    /\ ready \subseteq identified
    /\ equipped \in [Remotes -> SUBSET Parts]
    /\ loading \in [Remotes -> SUBSET (Sessions \X Scripts)]
    /\ acked \in [Sessions -> SUBSET Parts]
    /\ out \in [Devices -> Seq(Message)]
    /\ inbox \in [Devices -> Seq(Message)]
    /\ \A r \in Remotes : page[r] = Closed =>
         out[r] = <<>> /\ inbox[r] = <<>> /\ loading[r] = {}
    /\ writes \in 0..MaxWrites
    /\ opened \in 0..MaxSessions
    /\ witnesses \in [Keys -> SUBSET Devices]

Init ==
    /\ data = [d \in Devices |-> Empty]
    /\ page = [r \in Remotes |-> Closed]
    /\ identified = {}
    /\ ready = {}
    /\ equipped = [r \in Remotes |-> {}]
    /\ loading = [r \in Remotes |-> {}]
    /\ acked = [s \in Sessions |-> {}]
    /\ out = [d \in Devices |-> <<>>]
    /\ inbox = [d \in Devices |-> <<>>]
    /\ writes = 0
    /\ opened = 0
    /\ witnesses = [k \in Keys |-> {}]

-----------------------------------------------------------------------------
(* Sending, and the relay.                                                 *)

Send(d, messages) == out' = [out EXCEPT ![d] = @ \o messages]

\* Broken variant: a broadcast goes to devices the master has announced.
BroadcastTargetsReady(from) == (ready \cup {Master}) \ {from}

\* Broken variant: closed websockets are pushed to.
BroadcastTargetsAll(from) == Devices \ {from}

\* A broadcast goes to every other open websocket, identified or not.
BroadcastTargets(from) ==
    ({r \in Remotes : page[r] # Closed} \cup {Master}) \ {from}

Recipients(from, to) ==
    IF to = "broadcast" THEN BroadcastTargets(from)
                        ELSE {to} \cap (identified \cup {Master})

\* onUnidentifiedWebsocketMessage, onIdentifiedWebsocketMessage; what comes
\* before the identification is lost.
Relay(d) ==
    /\ out[d] # <<>>
    /\ out' = [out EXCEPT ![d] = Tail(@)]
    /\ LET m == Head(out[d]) IN
         \/ /\ m.name = "identification"
            /\ identified' = identified \cup {d}
            /\ UNCHANGED <<inbox, witnesses>>
         \/ /\ m.name # "identification"
            /\ inbox' = [e \in Devices |-> IF /\ d \in identified \cup {Master}
                                               /\ e \in Recipients(d, m.to)
                                             THEN Append(inbox[e], m) ELSE inbox[e]]
            /\ witnesses' = [k \in Keys |-> IF m.name = "update" /\ m.key = k
                                              THEN ready \cup {Master} ELSE witnesses[k]]
            /\ UNCHANGED identified
    /\ UNCHANGED <<page, ready, equipped, loading, acked, opened, data, writes>>

Receives(d, name) ==
    /\ inbox[d] # <<>>
    /\ Head(inbox[d]).name = name
    /\ inbox' = [inbox EXCEPT ![d] = Tail(@)]

-----------------------------------------------------------------------------
(* The datastore.                                                          *)

\* Broken variant: an entry that is there already is kept.
MergeNew(store, m) == [store EXCEPT ![m.key] = IF @ = Unset THEN m.value ELSE @]

\* _set for what another device sent.
Merge(store, m) == [store EXCEPT ![m.key] = m.value]

\* set: applications wait for ready, as onLoad asks them to.
Set(d, k) ==
    /\ d = Writer[k]
    /\ d = Master \/ d \in ready
    /\ writes < MaxWrites
    /\ writes' = writes + 1
    /\ data' = [data EXCEPT ![d][k] = writes']
    /\ Send(d, <<[name |-> "update", to |-> "broadcast", key |-> k,
                  value |-> writes']>>)
    /\ UNCHANGED <<handshakeVars, witnesses, inbox>>

\* _parseUpdateDatastore.
ParseUpdate(d) ==
    /\ Receives(d, "update")
    /\ data' = [data EXCEPT ![d] = Merge(@, Head(inbox[d]))]
    /\ UNCHANGED <<handshakeVars, writes, witnesses, out>>

-----------------------------------------------------------------------------
(* The handshake.                                                          *)

\* Broken variant: the remoteinfo comes first.
GreetingReversed(r, s) ==
    <<[name |-> "remoteinfo", to |-> Master, from |-> r, session |-> s],
      [name |-> "identification"]>>

Greeting(r, s) ==
    <<[name |-> "identification"],
      [name |-> "remoteinfo", to |-> Master, from |-> r, session |-> s]>>

\* _onWebsocketOpen of a freshly loaded page.
OpenPage(r) ==
    /\ page[r] = Closed
    /\ opened < MaxSessions
    /\ opened' = opened + 1
    /\ page' = [page EXCEPT ![r] = opened']
    /\ equipped' = [equipped EXCEPT ![r] = {}]
    /\ data' = [data EXCEPT ![r] = Empty]
    /\ Send(r, Greeting(r, opened'))
    /\ UNCHANGED <<identified, ready, loading, acked, writes, witnesses, inbox>>

\* The websocket of a remote closes.
ClosePage(r) ==
    /\ page[r] # Closed
    /\ page' = [page EXCEPT ![r] = Closed]
    /\ identified' = identified \ {r}
    /\ ready' = ready \ {r}
    /\ loading' = [loading EXCEPT ![r] = {}]
    /\ out' = [out EXCEPT ![r] = <<>>]
    /\ inbox' = [inbox EXCEPT ![r] = <<>>]
    /\ witnesses' = [k \in Keys |-> witnesses[k] \ {r}]
    /\ UNCHANGED <<equipped, acked, opened, data, writes>>

\* Broken variant: the store is not part of the message.
PartForEmpty(r, s, part) ==
    [name |-> "part", to |-> r, session |-> s, part |-> part, data |-> Empty]

PartFor(r, s, part) ==
    [name |-> "part", to |-> r, session |-> s, part |-> part,
     data |-> IF part = "data" THEN data[Master] ELSE Empty]

\* _parseRemoteInfo: debug information, the store as it is now, the files.
ParseRemoteInfo ==
    /\ Receives(Master, "remoteinfo")
    /\ LET m == Head(inbox[Master]) IN
         Send(Master, [i \in 1..(Len(AutoLoad) + 2) |->
                         PartFor(m.from, m.session,
                                 (<<"debuginfo", "data">> \o AutoLoad)[i])])
    /\ UNCHANGED <<handshakeVars, storeVars>>

\* Loading is over for part p of session s, and is acknowledged.
Settle(r, s, p) ==
    /\ equipped' = [equipped EXCEPT ![r] = @ \cup {p}]
    /\ Send(r, <<[name |-> "partack", to |-> Master, from |-> r,
                  session |-> s, part |-> p]>>)

\* _parseDebugInfo, _parseUpdateDatastore, _parseLoadCSS, _parseLoadScript.
ParsePart(r) ==
    /\ Receives(r, "part")
    /\ LET m == Head(inbox[r]) IN
         /\ data' = [data EXCEPT ![r] =
                      [k \in Keys |-> IF m.data[k] # Unset THEN m.data[k] ELSE @[k]]]
         /\ \/ /\ m.part \in Scripts
               /\ loading' = [loading EXCEPT ![r] = @ \cup {<<m.session, m.part>>}]
               /\ UNCHANGED <<equipped, out>>
            \/ /\ m.part \notin Scripts
               /\ Settle(r, m.session, m.part)
               /\ UNCHANGED loading
    /\ UNCHANGED <<page, identified, ready, acked, opened, writes, witnesses>>

\* getScript is done, or failed, which is acknowledged all the same.
ScriptSettled(r) ==
    /\ \E l \in loading[r] :
         /\ loading' = [loading EXCEPT ![r] = @ \ {l}]
         /\ Settle(r, l[1], l[2])
    /\ UNCHANGED <<page, identified, ready, acked, opened, storeVars, inbox>>

\* Broken variant: the files are not waited for.
EarlyConnect(parts) == {"debuginfo", "data"} \subseteq parts

\* tryDidConnectCallback; without a file didLoadFiles is never set.
DidConnect(parts) == Files # {} /\ Parts \subseteq parts

\* _parseAck on the master: the last one triggers deviceConnected, and the
\* remoteinfo is acknowledged.
ParsePartAck ==
    /\ Receives(Master, "partack")
    /\ LET m == Head(inbox[Master])
           done == DidConnect(acked[m.session] \cup {m.part})
       IN  /\ acked' = [acked EXCEPT ![m.session] = @ \cup {m.part}]
           /\ \/ /\ done /\ ~DidConnect(acked[m.session])
                 /\ Send(Master, <<[name |-> "infoack", to |-> m.from,
                                    session |-> m.session]>>)
              \/ /\ ~done \/ DidConnect(acked[m.session])
                 /\ UNCHANGED out
    /\ UNCHANGED <<page, identified, ready, equipped, loading, opened, storeVars>>

\* _parseAck on a remote: its page waits for the acknowledgement of its own
\* remoteinfo only.
ParseInfoAck(r) ==
    /\ Receives(r, "infoack")
    /\ ready' = IF Head(inbox[r]).session = page[r] THEN ready \cup {r} ELSE ready
    /\ UNCHANGED <<page, identified, equipped, loading, acked, opened, storeVars, out>>

Handle(d) ==
    \/ ParseUpdate(d)
    \/ d = Master /\ (ParseRemoteInfo \/ ParsePartAck)
    \/ d \in Remotes /\ (ParsePart(d) \/ ParseInfoAck(d))

Next ==
    \/ \E d \in Devices :
         \/ \E k \in Keys : Set(d, k)
         \/ Relay(d)
         \/ Handle(d)
    \/ \E r \in Remotes : OpenPage(r) \/ ScriptSettled(r) \/ ClosePage(r)

\* The relay and the pages go on, and loading a script ends; applications and
\* the network are free.
Spec ==
    /\ Init /\ [][Next]_vars
    /\ \A d \in Devices : WF_vars(Relay(d)) /\ WF_vars(Handle(d))
    /\ \A r \in Remotes : WF_vars(ScriptSettled(r))

-----------------------------------------------------------------------------
(* Properties.                                                             *)

\* Nothing is under way and every open page is ready.
Quiet ==
    /\ \A d \in Devices : out[d] = <<>> /\ inbox[d] = <<>>
    /\ \A r \in Remotes : page[r] # Closed => r \in ready

\* A page is ready only after it has the debug information and the data and
\* all files of autoLoad have settled on it, for this session.
ReadyIsEquipped ==
    \A r \in ready : equipped[r] = Parts /\ acked[page[r]] = Parts

\* What the master sets reaches every device that is or becomes ready, also
\* while it is on its way to being ready.
MastersEntriesArrive ==
    Quiet => \A k \in Keys, r \in ready :
        Writer[k] = Master => data[r][k] = data[Master][k]

\* What a remote sets, and has sent before its page closes, reaches the master
\* and the devices that are ready, and they keep it whoever joins afterwards.
WitnessesAgree ==
    Quiet => \A k \in Keys, d, e \in Devices :
        d \in witnesses[k] /\ e \in witnesses[k] => data[d][k] = data[e][k]

\* No entry is missing on a device that joins while others set entries.
SameEntries ==
    Quiet => \A r \in ready, k \in Keys :
        data[r][k] = Unset <=> data[Master][k] = Unset

\* All devices have the same value for an entry that one device sets.
ReplicasConverge ==
    Quiet => \A r \in ready : data[r] = data[Master]

\* A page becomes ready unless it is closed.
PageGetsReady ==
    \A s \in Sessions :
        (\E r \in Remotes : page[r] = s) ~> (\A r \in Remotes : page[r] = s => r \in ready)

=============================================================================
