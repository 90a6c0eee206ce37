--------------------------- MODULE RemoteLifecycle ---------------------------
(***************************************************************************)
(* How a master device acquires and loses remote devices.  Four parties    *)
(* share the work on the master: the web library (JavaScript, main         *)
(* thread), the native application object CWWebApplication, the Bluetooth  *)
(* manager (its own dispatch queues) and the websocket server (one serial  *)
(* network queue).  They talk over two channels that are FIFO each but     *)
(* unordered relative to each other:                                       *)
(*   toView    native calls posted to the web view's main thread,          *)
(*   toWeblib  remoteinfo messages relayed over the local websocket.       *)
(* JavaScript calls into the native layer synchronously.                   *)
(*                                                                         *)
(* A handler that runs on one thread is one step, except where a check and *)
(* the write it protects run without a lock against another thread         *)
(* (DidReceiveDeviceURL and ConnectToServer).                              *)
(*                                                                         *)
(* The model starts when the weblib is connected and identified; reloads   *)
(* of the master's page are not modelled here.                             *)
(***************************************************************************)
EXTENDS Naturals, Sequences

CONSTANTS
    Devices,         \* identifiers of the devices that may become remotes
    Natives,         \* those running the native app; the others are browsers
    LaunchedLater,   \* devices whose launchDate is after the local device's
    AutoConnect,     \* Connichiwa.autoConnect
    NoDevice,        \* owner of a connection that was not opened yet
    MaxConnections,  \* bound on websocket connections ever opened
    MaxTimers,       \* bound on connect timeouts armed at once for a device
    MaxBacklog       \* bound on toView for detections and losses

ASSUME DevicesAssumption ==
    /\ Natives \subseteq Devices
    /\ LaunchedLater \subseteq Devices
    /\ AutoConnect \in BOOLEAN
    /\ NoDevice \notin Devices
ASSUME BoundsAssumption ==
    /\ MaxConnections \in Nat
    /\ MaxTimers \in Nat
    /\ MaxBacklog \in Nat

VARIABLES
    known,        \* CWDeviceManager._remoteDevices
    discovery,    \* CWDevice._discoveryState
    connection,   \* CWDevice._connectionState
    pending,      \* CWWebApplication.pendingRemoteDevices
    remotes,      \* CWWebApplication.remoteDevices
    serverUp,     \* CWServerManager.state = Started
    isRemote,     \* this device is itself a remote (remoteLibManager.isActive)
    urlAccepted,  \* didReceiveDeviceURL passed its check, not yet connected
    timers,       \* armed remoteDeviceConnectionTimeout: calls per device
    toView,       \* calls queued for the weblib's main thread
    btState,      \* IPWriteState of the device's BT connection, if it has one
    ipWrite,      \* the IP characteristic write on the BT link
    remoteState,  \* the other device: not on our page, invited, online
    owner,        \* the device that opened a websocket connection
    stage,        \* how far the server got with a connection
    ids,          \* CWServerManager.websocketIdentifiers (0: no entry)
    toWeblib      \* remoteinfo messages on their way to the weblib

jsVars == <<known, discovery, connection>>
appVars == <<pending, remotes, timers>>
selfVars == <<serverUp, isRemote, urlAccepted>>
btVars == <<btState, ipWrite>>
wsVars == <<owner, stage, ids, toWeblib>>
vars == <<jsVars, appVars, selfVars, toView, btVars, remoteState, wsVars>>

Connections == 1..MaxConnections
NoConnection == 0

CallNames == {"devicedetected", "devicelost",
              "remoteconnectfailed", "remotedisconnected"}
Call(name, d) == [name |-> name, device |-> d]

Queued(name, d) == \E i \in 1..Len(toView) : toView[i] = Call(name, d)

\* Every variable has its type; an opened connection has an owner.
TypeOK ==
    /\ known \subseteq Devices
    /\ discovery \in [Devices -> {"discovered", "lost"}]
    /\ connection \in [Devices -> {"disconnected", "connecting", "connected"}]
    /\ pending \subseteq Devices
    /\ remotes \subseteq Devices
    /\ timers \in [Devices -> Nat]
    /\ serverUp \in BOOLEAN
    /\ isRemote \in BOOLEAN
    /\ urlAccepted \in BOOLEAN
    /\ toView \in Seq([name : CallNames, device : Devices])
    /\ btState \in [Devices -> {"unknown", "disconnected", "connecting", "sent"}]
    /\ ipWrite \in [Devices -> {"none", "asked", "accepted", "refused"}]
    /\ remoteState \in [Devices -> {"away", "invited", "online", "gone"}]
    /\ owner \in [Connections -> Devices \cup {NoDevice}]
    /\ stage \in [Connections ->
                    {"unused", "open", "identified", "informed", "closed"}]
    /\ \A c \in Connections : stage[c] # "unused" => owner[c] \in Devices
    /\ ids \in [Devices -> Connections \cup {NoConnection}]
    /\ toWeblib \in Seq(Devices)

Init ==
    /\ known = {}
    /\ discovery = [d \in Devices |-> "lost"]
    /\ connection = [d \in Devices |-> "disconnected"]
    /\ pending = {}
    /\ remotes = {}
    /\ timers = [d \in Devices |-> 0]
    /\ serverUp = TRUE
    /\ isRemote = FALSE
    /\ urlAccepted = FALSE
    /\ toView = <<>>
    /\ btState = [d \in Devices |-> "unknown"]
    /\ ipWrite = [d \in Devices |-> "none"]
    /\ remoteState = [d \in Devices |-> "away"]
    /\ owner = [c \in Connections |-> NoDevice]
    /\ stage = [c \in Connections |-> "unused"]
    /\ ids = [d \in Devices |-> NoConnection]
    /\ toWeblib = <<>>

-----------------------------------------------------------------------------
(* The native application object, as a function of who calls it.           *)

CanBecomeRemote == ~isRemote /\ pending = {} /\ remotes = {}

CanBeConnected(d) ==
    connection[d] = "disconnected" /\ discovery[d] = "discovered"

\* Broken variant: the request is not refused for a device that is a remote.
RequestRemoteUnchecked(d, calls) ==
    \/ /\ ~serverUp \/ d \in pending
       /\ toView' = calls
       /\ UNCHANGED <<pending, btState>>
    \/ /\ serverUp /\ d \notin pending
       /\ pending' = pending \cup {d}
       /\ btState' = [btState EXCEPT ![d] =
                        IF @ = "disconnected" THEN "connecting" ELSE @]
       /\ toView' = calls

\* didReceiveConnectionRequestForRemote: and, when the device is acceptable,
\* sendNetworkAddressesToDevice:, which silently gives up when the device has
\* no BT connection or a write is under way.  "calls" is what toView holds
\* when the request arrives.
RequestRemote(d, calls) ==
    \/ /\ ~serverUp \/ d \in pending
       /\ toView' = calls
       /\ UNCHANGED <<pending, btState>>
    \/ /\ serverUp /\ d \notin pending
       /\ isRemote \/ d \in remotes
       /\ toView' = Append(calls, Call("remoteconnectfailed", d))
       /\ UNCHANGED <<pending, btState>>
    \/ /\ serverUp /\ d \notin pending
       /\ ~isRemote /\ d \notin remotes
       /\ pending' = pending \cup {d}
       /\ btState' = [btState EXCEPT ![d] =
                        IF @ = "disconnected" THEN "connecting" ELSE @]
       /\ toView' = calls

\* The part of CWDevice.connect() after its guard.
StartConnecting(d, calls) ==
    /\ connection' = [connection EXCEPT ![d] = "connecting"]
    /\ RequestRemote(d, calls)

\* didSendNetworkAddresses:success:
DidSendNetworkAddresses(d, success) ==
    \/ /\ success /\ d \notin remotes
       /\ timers[d] < MaxTimers
       /\ timers' = [timers EXCEPT ![d] = @ + 1]
       /\ UNCHANGED <<pending, toView>>
    \/ /\ ~success \/ d \in remotes
       /\ pending' = pending \ {d}
       /\ toView' = Append(toView, Call("remoteconnectfailed", d))
       /\ UNCHANGED timers

\* Broken variant: the timer fires again after it was spent.
ConnectionTimeoutRepeats(d) ==
    /\ timers' = [timers EXCEPT ![d] = @ - 1]
    /\ \/ d \in remotes /\ UNCHANGED <<pending, toView>>
       \/ /\ d \notin remotes
          /\ pending' = pending \ {d}
          /\ toView' = Append(toView, Call("remoteconnectfailed", d))
    /\ UNCHANGED <<jsVars, remotes, selfVars, btVars, remoteState, wsVars>>

\* remoteDeviceConnectionTimeout: the timer is armed on the BT queue and never
\* cancelled, whatever becomes of the attempt it was armed for.
ConnectionTimeout(d) ==
    /\ timers[d] > 0
    /\ timers' = [timers EXCEPT ![d] = @ - 1]
    /\ \/ d \in remotes /\ UNCHANGED <<pending, toView>>
       \/ /\ d \notin remotes
          /\ pending' = pending \ {d}
          /\ toView' = Append(toView, Call("remoteconnectfailed", d))
    /\ UNCHANGED <<jsVars, remotes, selfVars, btVars, remoteState, wsVars>>

-----------------------------------------------------------------------------
(* The web library, called by the application and by the native layer.     *)

\* The application calls connect() on a device.
Connect(d) ==
    /\ d \in known
    /\ CanBeConnected(d)
    /\ StartConnecting(d, toView)
    /\ UNCHANGED <<known, discovery, remotes, timers, selfVars, ipWrite,
                   remoteState, wsVars>>

NextCall(name, d) ==
    /\ toView # <<>>
    /\ Head(toView) = Call(name, d)

\* Broken variant: the detected device is not added to the device manager.
ParseDeviceDetectedUnkept(d) ==
    /\ NextCall("devicedetected", d)
    /\ discovery' = [discovery EXCEPT ![d] = "discovered"]
    /\ toView' = Tail(toView)
    /\ UNCHANGED <<known, connection, appVars, selfVars, btVars, remoteState,
                   wsVars>>

ParseDeviceDetected(d) ==
    /\ NextCall("devicedetected", d)
    /\ known' = known \cup {d}
    /\ discovery' = [discovery EXCEPT ![d] = "discovered"]
    /\ IF AutoConnect /\ d \in LaunchedLater /\ connection[d] = "disconnected"
         THEN StartConnecting(d, Tail(toView))
         ELSE /\ toView' = Tail(toView)
              /\ UNCHANGED <<connection, pending, btState>>
    /\ UNCHANGED <<remotes, timers, selfVars, ipWrite, remoteState, wsVars>>

ParseDeviceLost(d) ==
    /\ NextCall("devicelost", d)
    /\ discovery' = [discovery EXCEPT ![d] = "lost"]
    /\ toView' = Tail(toView)
    /\ UNCHANGED <<known, connection, appVars, selfVars, btVars, remoteState,
                   wsVars>>

ParseRemoteConnectFailed(d) ==
    /\ NextCall("remoteconnectfailed", d)
    /\ connection' = [connection EXCEPT ![d] = "disconnected"]
    /\ toView' = Tail(toView)
    /\ UNCHANGED <<known, discovery, appVars, selfVars, btVars, remoteState,
                   wsVars>>

\* Unlike the two handlers above, this one ignores a device it does not know.
ParseRemoteDisconnected(d) ==
    /\ NextCall("remotedisconnected", d)
    /\ connection' = IF d \in known
                       THEN [connection EXCEPT ![d] = "disconnected"]
                       ELSE connection
    /\ toView' = Tail(toView)
    /\ UNCHANGED <<known, discovery, appVars, selfVars, btVars, remoteState,
                   wsVars>>

\* Broken variant: the native layer is not told of the new remote.
ParseRemoteInfoUntold ==
    /\ toWeblib # <<>>
    /\ known' = known \cup {Head(toWeblib)}
    /\ connection' = [connection EXCEPT ![Head(toWeblib)] = "connected"]
    /\ toWeblib' = Tail(toWeblib)
    /\ UNCHANGED <<discovery, appVars, selfVars, toView, btVars, remoteState,
                   owner, stage, ids>>

\* _parseRemoteInfo, up to and with the synchronous nativeCallRemoteDidConnect.
ParseRemoteInfo ==
    /\ toWeblib # <<>>
    /\ LET d == Head(toWeblib) IN
         /\ known' = known \cup {d}
         /\ connection' = [connection EXCEPT ![d] = "connected"]
         /\ pending' = pending \ {d}
         /\ remotes' = remotes \cup {d}
    /\ toWeblib' = Tail(toWeblib)
    /\ UNCHANGED <<discovery, timers, selfVars, toView, btVars, remoteState,
                   owner, stage, ids>>

-----------------------------------------------------------------------------
(* Bluetooth.                                                              *)

\* A device in range was discovered and its initial data received.
DeviceDetected(d) ==
    /\ d \in Natives
    /\ serverUp                  \* scanning stops in the background
    /\ btState[d] = "unknown"
    /\ Len(toView) < MaxBacklog
    /\ btState' = [btState EXCEPT ![d] = "disconnected"]
    /\ toView' = Append(toView, Call("devicedetected", d))
    /\ UNCHANGED <<jsVars, appVars, selfVars, ipWrite, remoteState, wsVars>>

\* _removeLostConnections: whatever the state of the IP write is.
DeviceLost(d) ==
    /\ btState[d] # "unknown"
    /\ Len(toView) < MaxBacklog
    /\ btState' = [btState EXCEPT ![d] = "unknown"]
    /\ toView' = Append(toView, Call("devicelost", d))
    /\ UNCHANGED <<jsVars, appVars, selfVars, ipWrite, remoteState, wsVars>>

\* The IP characteristic was discovered and the addresses are written to it.
SendIPs(d) ==
    /\ btState[d] = "connecting"
    /\ ipWrite[d] = "none"
    /\ btState' = [btState EXCEPT ![d] = "sent"]
    /\ ipWrite' = [ipWrite EXCEPT ![d] = "asked"]
    /\ UNCHANGED <<jsVars, appVars, selfVars, toView, remoteState, wsVars>>

\* On the other device: it takes the URL and becomes a remote, or refuses
\* because it cannot become one or reaches none of the addresses.
RemoteReceivesIPs(d) ==
    /\ ipWrite[d] = "asked"
    /\ \/ /\ remoteState[d] = "away"
          /\ remoteState' = [remoteState EXCEPT ![d] = "invited"]
          /\ ipWrite' = [ipWrite EXCEPT ![d] = "accepted"]
       \/ /\ ipWrite' = [ipWrite EXCEPT ![d] = "refused"]
          /\ UNCHANGED remoteState
    /\ UNCHANGED <<jsVars, appVars, selfVars, toView, btState, wsVars>>

\* _didReceiveIPWriteResponse: the response is the remote's answer, or the
\* error of a BT link that broke before the answer got through.
DidReceiveIPWriteResponse(d) ==
    /\ ipWrite[d] # "none"
    /\ ipWrite' = [ipWrite EXCEPT ![d] = "none"]
    /\ \/ /\ btState[d] # "sent"
          /\ UNCHANGED <<btState, pending, timers, toView>>
       \/ /\ btState[d] = "sent"
          /\ btState' = [btState EXCEPT ![d] = "disconnected"]
          /\ \/ /\ ipWrite[d] = "accepted"
                /\ DidSendNetworkAddresses(d, TRUE)
             \/ DidSendNetworkAddresses(d, FALSE)
    /\ UNCHANGED <<jsVars, remotes, selfVars, remoteState, wsVars>>

-----------------------------------------------------------------------------
(* The websocket server and the remote's end of its connections.           *)

\* The remote's page opens a websocket: a native device after it was invited,
\* a browser when its user enters the address.
OpenWebsocket(d, c) ==
    /\ remoteState[d] = IF d \in Natives THEN "invited" ELSE "away"
    /\ stage[c] = "unused"
    /\ \A b \in 1..(c - 1) : stage[b] # "unused"
    /\ remoteState' = [remoteState EXCEPT ![d] = "online"]
    /\ owner' = [owner EXCEPT ![c] = d]
    /\ stage' = [stage EXCEPT ![c] = "open"]
    /\ UNCHANGED <<jsVars, appVars, selfVars, toView, btVars, ids, toWeblib>>

\* The remote leaves: its socket closed, the app went to the background, the
\* page was left.  A native device may be invited again under the same
\* identifier; a browser draws a new one for its next visit.
RemoteLeaves(d) ==
    /\ remoteState[d] = "online"
    /\ remoteState' = [remoteState EXCEPT ![d] =
                         IF d \in Natives THEN "away" ELSE "gone"]
    /\ UNCHANGED <<jsVars, appVars, selfVars, toView, btVars, wsVars>>

\* The server receives _remote_identification on connection c.
IdentifyWebsocket(c) ==
    /\ stage[c] = "open"
    /\ stage' = [stage EXCEPT ![c] = "identified"]
    /\ ids' = [ids EXCEPT ![owner[c]] = c]
    /\ UNCHANGED <<jsVars, appVars, selfVars, toView, btVars, remoteState,
                   owner, toWeblib>>

\* The server relays the remoteinfo message that follows it.
RelayRemoteInfo(c) ==
    /\ stage[c] = "identified"
    /\ stage' = [stage EXCEPT ![c] = "informed"]
    /\ toWeblib' = Append(toWeblib, owner[c])
    /\ UNCHANGED <<jsVars, appVars, selfVars, toView, btVars, remoteState,
                   owner, ids>>

\* Broken variant: the web library is not told that the remote went away.
CloseWebsocketQuietly(c) ==
    /\ stage[c] \in {"open", "identified", "informed"}
    /\ stage' = [stage EXCEPT ![c] = "closed"]
    /\ LET d == owner[c] IN
         \/ /\ ids[d] = c
            /\ ids' = [ids EXCEPT ![d] = NoConnection]
            /\ pending' = pending \ {d}
            /\ remotes' = remotes \ {d}
         \/ /\ ids[d] # c
            /\ UNCHANGED <<ids, pending, remotes>>
    /\ UNCHANGED <<jsVars, timers, selfVars, toView, btVars, remoteState, owner,
                   toWeblib>>

\* Broken variant: any connection of a device takes the device down with it,
\* even one that a newer connection has replaced.
CloseWebsocketOfAny(c) ==
    /\ stage[c] \in {"open", "identified", "informed"}
    /\ stage' = [stage EXCEPT ![c] = "closed"]
    /\ LET d == owner[c] IN
         /\ ids' = [ids EXCEPT ![d] = IF @ = c THEN NoConnection ELSE @]
         /\ pending' = pending \ {d}
         /\ remotes' = remotes \ {d}
         /\ toView' = Append(toView, Call("remotedisconnected", d))
    /\ UNCHANGED <<jsVars, timers, selfVars, btVars, remoteState, owner,
                   toWeblib>>

\* LWS_CALLBACK_CLOSED: reported as a disconnect only while the identifier
\* still belongs to this connection.
CloseWebsocket(c) ==
    /\ stage[c] \in {"open", "identified", "informed"}
    /\ stage' = [stage EXCEPT ![c] = "closed"]
    /\ LET d == owner[c] IN
         \/ /\ ids[d] = c
            /\ ids' = [ids EXCEPT ![d] = NoConnection]
            /\ pending' = pending \ {d}
            /\ remotes' = remotes \ {d}
            /\ toView' = Append(toView, Call("remotedisconnected", d))
         \/ /\ ids[d] # c
            /\ UNCHANGED <<ids, pending, remotes, toView>>
    /\ UNCHANGED <<jsVars, timers, selfVars, btVars, remoteState, owner,
                   toWeblib>>

-----------------------------------------------------------------------------
(* This device's own role.                                                 *)

\* didReceiveDeviceURL: another master sent its address over BT.  The check
\* runs on the BT queue while the main thread may start connection attempts.
DidReceiveDeviceURL ==
    /\ CanBecomeRemote
    /\ urlAccepted' = TRUE
    /\ UNCHANGED <<jsVars, appVars, serverUp, isRemote, toView, btVars,
                   remoteState, wsVars>>

ConnectToServer ==
    /\ urlAccepted
    /\ urlAccepted' = FALSE
    /\ isRemote' = TRUE
    /\ UNCHANGED <<jsVars, appVars, serverUp, toView, btVars, remoteState,
                   wsVars>>

StopBeingRemote ==
    /\ isRemote
    /\ isRemote' = FALSE
    /\ UNCHANGED <<jsVars, appVars, serverUp, urlAccepted, toView, btVars,
                   remoteState, wsVars>>

\* applicationDidEnterBackground: a remote that is still connecting polls
\* until it may disconnect.
EnterBackground ==
    /\ serverUp
    /\ serverUp' = FALSE
    /\ isRemote' \in {FALSE, isRemote}
    /\ UNCHANGED <<jsVars, appVars, urlAccepted, toView, btVars, remoteState,
                   wsVars>>

EnterForeground ==
    /\ ~serverUp
    /\ serverUp' = TRUE
    /\ UNCHANGED <<jsVars, appVars, isRemote, urlAccepted, toView, btVars,
                   remoteState, wsVars>>

-----------------------------------------------------------------------------
ParseCall(d) ==
    \/ ParseDeviceDetected(d)
    \/ ParseDeviceLost(d)
    \/ ParseRemoteConnectFailed(d)
    \/ ParseRemoteDisconnected(d)

Next ==
    \/ \E d \in Devices :
         \/ Connect(d)
         \/ ParseCall(d)
         \/ ConnectionTimeout(d)
         \/ DeviceDetected(d)
         \/ DeviceLost(d)
         \/ SendIPs(d)
         \/ RemoteReceivesIPs(d)
         \/ DidReceiveIPWriteResponse(d)
         \/ RemoteLeaves(d)
         \/ \E c \in Connections : OpenWebsocket(d, c)
    \/ \E c \in Connections :
         \/ IdentifyWebsocket(c)
         \/ RelayRemoteInfo(c)
         \/ CloseWebsocket(c)
    \/ ParseRemoteInfo
    \/ DidReceiveDeviceURL
    \/ ConnectToServer
    \/ StopBeingRemote
    \/ EnterBackground
    \/ EnterForeground

Spec == Init /\ [][Next]_vars

\* Only the master's own run loops are fair: a queued native call is made and
\* a message that reached the weblib is parsed.  Timers, radio, network, the
\* user and the other devices owe nothing.
Fairness ==
    /\ WF_vars(\E d \in Devices : ParseCall(d))
    /\ WF_vars(ParseRemoteInfo)

FairSpec == Spec /\ Fairness

-----------------------------------------------------------------------------
(* Properties.                                                             *)

\* A device is never at once on the list of attempts and on the list of
\* remotes of CWWebApplication, whatever order answers, timeouts, closes and
\* remoteinfo messages arrive in.
PendingNotRemote == pending \cap remotes = {}

\* When the web library shows a device as connected, the native layer either
\* lists it as a remote or has already queued the call that takes it back.
ConnectedIsBacked ==
    \A d \in Devices :
        connection[d] = "connected" =>
            d \in remotes \/ Queued("remotedisconnected", d)

\* _parseDeviceLost and _parseRemoteConnectFailed use the device they look up
\* without a null check: such a call is never made before the device exists.
NoCallForUnknownDevice ==
    \A i \in 1..Len(toView) :
        toView[i].name \in {"devicelost", "remoteconnectfailed"} =>
            \/ toView[i].device \in known
            \/ \E j \in 1..(i - 1) :
                 toView[j] = Call("devicedetected", toView[i].device)

\* An identifier always maps to a live connection of that very device, and
\* when that connection has sent its remoteinfo, the device is a remote or
\* its remoteinfo is still on the way: no established session is forgotten.
SessionAccounted ==
    \A d \in Devices :
        ids[d] # NoConnection =>
            /\ owner[ids[d]] = d
            /\ stage[ids[d]] \in {"identified", "informed"}
            /\ stage[ids[d]] = "informed" =>
                 d \in remotes \/ \E i \in 1..Len(toWeblib) : toWeblib[i] = d

\* A device the web library shows as connected but the native layer dropped
\* does not stay connected for the application.
DisconnectIsNoticed ==
    \A d \in Devices :
        (connection[d] = "connected" /\ d \notin remotes)
            ~> (connection[d] # "connected" \/ d \in remotes)

\* A remote that has identified itself and sent its remoteinfo over the
\* connection the server has on record is listed as a remote, unless that
\* connection closes first.
SessionIsReported ==
    \A d \in Devices, c \in Connections :
        (ids[d] = c /\ stage[c] = "informed") ~> (d \in remotes \/ ids[d] # c)

(* What comments in the code say and the code does not keep.               *)

\* CWWebApplication.remoteDevices holds "devices that are currently used as
\* remote devices": a listed device has a websocket, once no remoteinfo of it
\* is on the way.
RemotesAreInUse ==
    \A d \in remotes :
        ids[d] # NoConnection \/ \E i \in 1..Len(toWeblib) : toWeblib[i] = d

\* CWDevice.isConnected() tells "whether this device is currently connected to
\* the master device": a remote with an identified websocket is shown as
\* connected once no call about it is left in the queue.
RemoteIsShownConnected ==
    \A d \in remotes :
        ids[d] # NoConnection /\ toView = <<>> => connection[d] = "connected"

=============================================================================
