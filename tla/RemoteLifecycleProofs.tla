------------------------ MODULE RemoteLifecycleProofs ------------------------
(***************************************************************************)
(* Invariants of RemoteLifecycle, proved for every set of devices and every*)
(* value of the bounds.                                                    *)
(***************************************************************************)
EXTENDS RemoteLifecycle, SequenceTheorems, TLAPS

Calls == [name : CallNames, device : Devices]

-----------------------------------------------------------------------------
(* The queue of native calls: what adding and taking a call does to it.    *)

\* The calls that are queued are calls.
LEMMA CallTyped ==
    ASSUME NEW d \in Devices, NEW n \in CallNames
    PROVE  Call(n, d) \in Calls
BY DEF Call, Calls

\* Tail of a nonempty queue, spelled out for the steps that parse a call.
LEMMA QueueTail ==
    ASSUME NEW s \in Seq(Calls), s # <<>>
    PROVE  /\ Tail(s) \in Seq(Calls)
           /\ Len(s) \in Nat \ {0}
           /\ Len(Tail(s)) = Len(s) - 1
           /\ \A i \in 1..Len(Tail(s)) : Tail(s)[i] = s[i + 1]
           /\ s[1] = Head(s)
<1>1. s[1] = Head(s)
  OBVIOUS
<1>2. QED
  BY <1>1, HeadTailProperties, EmptySeq

In(s, m) == \E i \in 1..Len(s) : s[i] = m

\* NoCallForUnknownDevice of a queue s when the devices in k are known.
CallsKnown(s, k) ==
    \A i \in 1..Len(s) :
        s[i].name \in {"devicelost", "remoteconnectfailed"} =>
            \/ s[i].device \in k
            \/ \E j \in 1..(i - 1) : s[j] = Call("devicedetected", s[i].device)

\* A queue that gets one more call holds it, and all it held before.
LEMMA AppendKeeps ==
    ASSUME NEW s \in Seq(Calls), NEW m \in Calls
    PROVE  /\ In(Append(s, m), m)
           /\ \A x : In(s, x) => In(Append(s, m), x)
<1>1. /\ Len(s) \in Nat
      /\ Len(Append(s, m)) = Len(s) + 1
      /\ \A i \in 1..Len(s) : Append(s, m)[i] = s[i]
      /\ Append(s, m)[Len(s) + 1] = m
  BY AppendProperties, LenProperties
<1>2. QED
  BY <1>1 DEF In

\* So does taking the first call of a queue.
LEMMA TailKeeps ==
    ASSUME NEW s \in Seq(Calls), s # <<>>, NEW x, In(s, x), x # Head(s)
    PROVE  In(Tail(s), x)
<1>1. PICK i \in 1..Len(s) : s[i] = x
  BY DEF In
<1>2. Len(s) \in Nat \ {0} /\ Len(Tail(s)) = Len(s) - 1 /\ s[1] = Head(s)
  BY QueueTail
<1>3. i # 1
  BY <1>1, <1>2
<1>4. (i - 1) \in 1..Len(Tail(s)) /\ Tail(s)[i - 1] = s[(i - 1) + 1]
  BY <1>2, <1>3, QueueTail
<1>5. QED
  BY <1>1, <1>4 DEF In

\* A call with a known identifier may be appended to a queue.
LEMMA AppendCallsKnown ==
    ASSUME NEW s \in Seq(Calls), NEW m \in Calls, NEW k, NEW l,
           CallsKnown(s, k), k \subseteq l,
           m.name \in {"devicelost", "remoteconnectfailed"} =>
               m.device \in l \/ In(s, Call("devicedetected", m.device))
    PROVE  CallsKnown(Append(s, m), l)
<1> DEFINE t == Append(s, m)
<1>1. /\ Len(s) \in Nat
      /\ Len(t) = Len(s) + 1
      /\ \A i \in 1..Len(s) : t[i] = s[i]
      /\ t[Len(s) + 1] = m
  BY AppendProperties, LenProperties
<1> HIDE DEF t
<1> SUFFICES ASSUME NEW i \in 1..Len(t),
                    t[i].name \in {"devicelost", "remoteconnectfailed"}
             PROVE  \/ t[i].device \in l
                    \/ \E j \in 1..(i - 1) :
                         t[j] = Call("devicedetected", t[i].device)
  BY DEF CallsKnown, t
<1>2. CASE i \in 1..Len(s)
  <2>1. t[i] = s[i]
    BY <1>1, <1>2
  <2>2. \/ s[i].device \in k
        \/ \E j \in 1..(i - 1) : s[j] = Call("devicedetected", s[i].device)
    BY <1>2, <2>1 DEF CallsKnown
  <2>3. \A j \in 1..(i - 1) : t[j] = s[j]
    BY <1>1, <1>2
  <2>4. QED
    BY <2>1, <2>2, <2>3
<1>3. CASE i = Len(s) + 1
  <2>1. t[i] = m /\ 1..(i - 1) = 1..Len(s)
    BY <1>1, <1>3
  <2>2. QED
    BY <1>1, <2>1 DEF In
<1>4. QED
  BY <1>1, <1>2, <1>3

\* What is left of a queue still has known identifiers.
LEMMA TailCallsKnown ==
    ASSUME NEW s \in Seq(Calls), s # <<>>, NEW k, NEW l,
           CallsKnown(s, k), k \subseteq l,
           \A d : Head(s) = Call("devicedetected", d) => d \in l
    PROVE  CallsKnown(Tail(s), l)
<1> DEFINE t == Tail(s)
<1>1. /\ Len(s) \in Nat \ {0}
      /\ Len(t) = Len(s) - 1
      /\ \A i \in 1..Len(t) : t[i] = s[i + 1]
      /\ s[1] = Head(s)
  BY QueueTail
<1> HIDE DEF t
<1> SUFFICES ASSUME NEW i \in 1..Len(t),
                    t[i].name \in {"devicelost", "remoteconnectfailed"}
             PROVE  \/ t[i].device \in l
                    \/ \E j \in 1..(i - 1) :
                         t[j] = Call("devicedetected", t[i].device)
  BY DEF CallsKnown, t
<1>2. (i + 1) \in 1..Len(s) /\ t[i] = s[i + 1]
  BY <1>1
<1>3. CASE s[i + 1].device \in k
  BY <1>2, <1>3
<1>4. ASSUME NEW j \in 1..((i + 1) - 1),
             s[j] = Call("devicedetected", s[i + 1].device)
      PROVE  \/ t[i].device \in l
             \/ \E h \in 1..(i - 1) : t[h] = Call("devicedetected", t[i].device)
  <2>1. CASE j = 1
    BY <1>1, <1>2, <1>4, <2>1
  <2>2. CASE j # 1
    <3>1. (j - 1) \in 1..(i - 1) /\ (j - 1) \in 1..Len(t)
      BY <1>1, <1>4, <2>2
    <3>2. t[j - 1] = s[(j - 1) + 1]
      BY <1>1, <3>1
    <3>3. (j - 1) + 1 = j
      OBVIOUS
    <3>4. QED
      BY <1>2, <1>4, <3>1, <3>2, <3>3
  <2>3. QED
    BY <2>1, <2>2
<1>5. QED
  BY <1>2, <1>3, <1>4 DEF CallsKnown

-----------------------------------------------------------------------------
(* Type correctness.                                                       *)

\* A connection attempt keeps what it touches typed.
LEMMA RequestTyped ==
    ASSUME TypeOK, NEW d \in Devices, NEW calls \in Seq(Calls),
           RequestRemote(d, calls)
    PROVE  /\ pending' \subseteq Devices
           /\ btState' \in [Devices -> {"unknown", "disconnected",
                                        "connecting", "sent"}]
           /\ toView' \in Seq(Calls)
<1>1. Call("remoteconnectfailed", d) \in Calls
  BY CallTyped DEF CallNames
<1>2. Append(calls, Call("remoteconnectfailed", d)) \in Seq(Calls)
  BY <1>1, AppendProperties
<1>3. toView' \in {calls, Append(calls, Call("remoteconnectfailed", d))}
  BY DEF RequestRemote
<1>4. pending' \in {pending, pending \cup {d}}
  BY DEF RequestRemote
<1>5. btState' \in [Devices -> {"unknown", "disconnected", "connecting", "sent"}]
  BY DEF RequestRemote, TypeOK
<1>6. pending \subseteq Devices
  BY DEF TypeOK
<1>7. d \in Devices /\ calls \in Seq(Calls)
  OBVIOUS
<1>8. pending' \subseteq Devices
  BY <1>4, <1>6, <1>7
<1>9. toView' \in Seq(Calls)
  BY <1>2, <1>3, <1>7
<1>10. QED
  BY <1>5, <1>8, <1>9

\* The variables start with their types.
LEMMA TypeInit == Init => TypeOK
<1>1. <<>> \in Seq(Calls) /\ <<>> \in Seq(Devices)
  OBVIOUS
<1> SUFFICES ASSUME Init PROVE TypeOK
  OBVIOUS
<1>2. toView \in Seq([name : CallNames, device : Devices])
      /\ toWeblib \in Seq(Devices)
  BY <1>1 DEF Init, Calls
<1>3. /\ known \subseteq Devices /\ pending \subseteq Devices
      /\ remotes \subseteq Devices
      /\ discovery \in [Devices -> {"discovered", "lost"}]
      /\ connection \in [Devices -> {"disconnected", "connecting", "connected"}]
  BY DEF Init
<1>4. /\ timers \in [Devices -> Nat]
      /\ ids \in [Devices -> Connections \cup {NoConnection}]
  BY DEF Init
<1>5. /\ btState \in [Devices -> {"unknown", "disconnected", "connecting", "sent"}]
      /\ ipWrite \in [Devices -> {"none", "asked", "accepted", "refused"}]
      /\ remoteState \in [Devices -> {"away", "invited", "online", "gone"}]
  BY DEF Init
<1>6. /\ owner \in [Connections -> Devices \cup {NoDevice}]
      /\ stage \in [Connections ->
                      {"unused", "open", "identified", "informed", "closed"}]
      /\ \A c \in Connections : stage[c] # "unused" => owner[c] \in Devices
  BY DEF Init
<1>7. serverUp \in BOOLEAN /\ isRemote \in BOOLEAN /\ urlAccepted \in BOOLEAN
  BY DEF Init
<1>8. QED
  BY <1>2, <1>3, <1>4, <1>5, <1>6, <1>7 DEF TypeOK

\* Every step keeps the types.
LEMMA TypeStep == TypeOK /\ [Next]_vars => TypeOK'
<1> SUFFICES ASSUME TypeOK, [Next]_vars PROVE TypeOK'
  OBVIOUS
<1> USE DEF jsVars, appVars, selfVars, btVars, wsVars
<1>q. toView \in Seq(Calls) /\ toWeblib \in Seq(Devices)
  BY DEF TypeOK, Calls
<1>t. toView # <<>> => Tail(toView) \in Seq(Calls)
  BY <1>q, QueueTail
<1>a. \A n \in CallNames, d \in Devices :
        Append(toView, Call(n, d)) \in Seq(Calls)
  BY <1>q, CallTyped, AppendProperties
<1>1. ASSUME NEW d \in Devices, Connect(d) PROVE TypeOK'
  <2>1. RequestRemote(d, toView)
    BY <1>1 DEF Connect, StartConnecting
  <2>2. QED
    BY <1>1, <1>q, <2>1, RequestTyped
    DEF Connect, StartConnecting, TypeOK, Calls
<1>2. ASSUME NEW d \in Devices, ParseDeviceDetected(d) PROVE TypeOK'
  <2>t. Tail(toView) \in Seq(Calls)
    BY <1>2, <1>t DEF ParseDeviceDetected, NextCall
  <2>1. CASE StartConnecting(d, Tail(toView))
    <3>1. RequestRemote(d, Tail(toView))
      BY <2>1 DEF StartConnecting
    <3>2. QED
      BY <1>2, <2>1, <2>t, <3>1, RequestTyped
      DEF ParseDeviceDetected, StartConnecting, TypeOK, Calls
  <2>2. CASE ~StartConnecting(d, Tail(toView))
    BY <1>2, <2>2, <2>t DEF ParseDeviceDetected, TypeOK, Calls
  <2>3. QED
    BY <2>1, <2>2
<1>3. ASSUME NEW d \in Devices, ParseDeviceLost(d) PROVE TypeOK'
  BY <1>3, <1>t DEF ParseDeviceLost, NextCall, TypeOK, Calls
<1>4. ASSUME NEW d \in Devices, ParseRemoteConnectFailed(d) PROVE TypeOK'
  BY <1>4, <1>t DEF ParseRemoteConnectFailed, NextCall, TypeOK, Calls
<1>5. ASSUME NEW d \in Devices, ParseRemoteDisconnected(d) PROVE TypeOK'
  BY <1>5, <1>t DEF ParseRemoteDisconnected, NextCall, TypeOK, Calls
<1>6. ASSUME NEW d \in Devices, ConnectionTimeout(d) PROVE TypeOK'
  <2>1. toView' \in Seq(Calls) /\ pending' \subseteq Devices
    BY <1>6, <1>q, <1>a DEF ConnectionTimeout, TypeOK, CallNames
  <2>2. timers' \in [Devices -> Nat]
    BY <1>6 DEF ConnectionTimeout, TypeOK
  <2>3. QED
    BY <1>6, <2>1, <2>2 DEF ConnectionTimeout, TypeOK, Calls
<1>7. ASSUME NEW d \in Devices, DeviceDetected(d) PROVE TypeOK'
  BY <1>7, <1>a DEF DeviceDetected, TypeOK, Calls, CallNames
<1>8. ASSUME NEW d \in Devices, DeviceLost(d) PROVE TypeOK'
  BY <1>8, <1>a DEF DeviceLost, TypeOK, Calls, CallNames
<1>9. ASSUME NEW d \in Devices, SendIPs(d) PROVE TypeOK'
  BY <1>9 DEF SendIPs, TypeOK
<1>10. ASSUME NEW d \in Devices, RemoteReceivesIPs(d) PROVE TypeOK'
  BY <1>10 DEF RemoteReceivesIPs, TypeOK
<1>11. ASSUME NEW d \in Devices, DidReceiveIPWriteResponse(d) PROVE TypeOK'
  <2>1. ASSUME NEW b \in BOOLEAN, DidSendNetworkAddresses(d, b)
        PROVE  /\ toView' \in Seq(Calls)
               /\ pending' \subseteq Devices
               /\ timers' \in [Devices -> Nat]
    <3>1. toView' \in Seq(Calls) /\ pending' \subseteq Devices
      BY <2>1, <1>q, <1>a DEF DidSendNetworkAddresses, TypeOK, CallNames
    <3>2. timers' \in [Devices -> Nat]
      BY <2>1 DEF DidSendNetworkAddresses, TypeOK
    <3>3. QED
      BY <3>1, <3>2
  <2>2. \/ DidSendNetworkAddresses(d, TRUE)
        \/ DidSendNetworkAddresses(d, FALSE)
        \/ UNCHANGED <<pending, timers, toView>>
    BY <1>11 DEF DidReceiveIPWriteResponse
  <2>3. /\ toView' \in Seq(Calls)
        /\ pending' \subseteq Devices
        /\ timers' \in [Devices -> Nat]
    <3>1. CASE UNCHANGED <<pending, timers, toView>>
      BY <3>1, <1>q DEF TypeOK
    <3>2. QED
      BY <2>1, <2>2, <3>1
  <2>4. btState' \in [Devices -> {"unknown", "disconnected", "connecting", "sent"}]
    <3>1. btState' \in {btState, [btState EXCEPT ![d] = "disconnected"]}
      BY <1>11 DEF DidReceiveIPWriteResponse
    <3>2. QED
      BY <3>1 DEF TypeOK
  <2>5. ipWrite' \in [Devices -> {"none", "asked", "accepted", "refused"}]
    BY <1>11 DEF DidReceiveIPWriteResponse, TypeOK
  <2>6. UNCHANGED <<jsVars, remotes, selfVars, remoteState, wsVars>>
    BY <1>11 DEF DidReceiveIPWriteResponse
  <2>7. QED
    BY <2>3, <2>4, <2>5, <2>6 DEF TypeOK, Calls
<1>12. ASSUME NEW d \in Devices, RemoteLeaves(d) PROVE TypeOK'
  BY <1>12 DEF RemoteLeaves, TypeOK
<1>13. ASSUME NEW d \in Devices, NEW c \in Connections, OpenWebsocket(d, c)
       PROVE  TypeOK'
  BY <1>13 DEF OpenWebsocket, TypeOK
<1>14. ASSUME NEW c \in Connections, IdentifyWebsocket(c) PROVE TypeOK'
  BY <1>14 DEF IdentifyWebsocket, TypeOK
<1>15. ASSUME NEW c \in Connections, RelayRemoteInfo(c) PROVE TypeOK'
  <2>1. owner[c] \in Devices
    BY <1>15 DEF RelayRemoteInfo, TypeOK
  <2>2. toWeblib' \in Seq(Devices)
    BY <1>15, <2>1, <1>q, AppendProperties DEF RelayRemoteInfo
  <2>3. QED
    BY <1>15, <2>1, <2>2 DEF RelayRemoteInfo, TypeOK
<1>16. ASSUME NEW c \in Connections, CloseWebsocket(c) PROVE TypeOK'
  <2>1. owner[c] \in Devices
    BY <1>16 DEF CloseWebsocket, TypeOK
  <2>2. toView' \in Seq(Calls)
    BY <1>16, <1>q, <1>a, <2>1 DEF CloseWebsocket, CallNames
  <2>3. QED
    BY <1>16, <2>1, <2>2 DEF CloseWebsocket, TypeOK, Calls
<1>17. ASSUME ParseRemoteInfo PROVE TypeOK'
  BY <1>17, <1>q, HeadTailProperties DEF ParseRemoteInfo, TypeOK
<1>18. ASSUME DidReceiveDeviceURL \/ ConnectToServer \/ StopBeingRemote
              \/ EnterBackground \/ EnterForeground
       PROVE  TypeOK'
  <2>1. CASE DidReceiveDeviceURL
    BY <2>1 DEF DidReceiveDeviceURL, TypeOK
  <2>2. CASE ConnectToServer
    BY <2>2 DEF ConnectToServer, TypeOK
  <2>3. CASE StopBeingRemote
    BY <2>3 DEF StopBeingRemote, TypeOK
  <2>4. CASE EnterBackground
    BY <2>4 DEF EnterBackground, TypeOK
  <2>5. CASE EnterForeground
    BY <2>5 DEF EnterForeground, TypeOK
  <2>6. QED
    BY <1>18, <2>1, <2>2, <2>3, <2>4, <2>5
<1>19. CASE UNCHANGED vars
  BY <1>19 DEF vars, TypeOK
<1>20. QED
  BY <1>1, <1>2, <1>3, <1>4, <1>5, <1>6, <1>7, <1>8, <1>9, <1>10, <1>11,
     <1>12, <1>13, <1>14, <1>15, <1>16, <1>17, <1>18, <1>19
  DEF Next, ParseCall

\* Every variable of the lifecycle keeps its type, for any set of devices.
THEOREM TypeCorrect == Spec => []TypeOK
<1>1. QED
  BY TypeInit, TypeStep, PTL DEF Spec

-----------------------------------------------------------------------------
(* The inductive invariant.  PendingNotRemote, ConnectedIsBacked and       *)
(* SessionAccounted are inductive given the types; NoCallForUnknownDevice  *)
(* needs to know that whoever may still post such a call concerns a device *)
(* the web library knows or is about to learn of.                          *)

CallersKnown ==
    \A d \in Devices :
        /\ connection[d] # "disconnected" => d \in known
        /\ timers[d] > 0 => d \in known
        /\ btState[d] \in {"connecting", "sent"} => d \in known
        /\ btState[d] # "unknown" =>
             d \in known \/ In(toView, Call("devicedetected", d))

IInv ==
    /\ TypeOK
    /\ PendingNotRemote
    /\ CallersKnown
    /\ NoCallForUnknownDevice
    /\ ConnectedIsBacked
    /\ SessionAccounted

\* The inductive invariant holds initially.
LEMMA InvInit == Init => IInv
<1> SUFFICES ASSUME Init PROVE IInv
  OBVIOUS
<1>1. TypeOK
  BY TypeInit
<1>2. PendingNotRemote /\ ConnectedIsBacked
  BY DEF Init, PendingNotRemote, ConnectedIsBacked
<1>3. SessionAccounted
  BY DEF Init, SessionAccounted
<1>4. CallersKnown
  <2>1. \A d \in Devices : /\ connection[d] = "disconnected"
                           /\ timers[d] = 0
                           /\ btState[d] = "unknown"
    BY DEF Init
  <2>2. ~(0 > 0)
    OBVIOUS
  <2>3. QED
    BY <2>1, <2>2 DEF CallersKnown
<1>5. Len(toView) = 0
  BY DEF Init
<1>6. NoCallForUnknownDevice
  BY <1>5 DEF NoCallForUnknownDevice
<1>7. QED
  BY <1>1, <1>2, <1>3, <1>4, <1>6 DEF IInv

\* What a connection request does, whoever makes it: the facts the invariants
\* need, without the three outcomes.
LEMMA RequestEffect ==
    ASSUME TypeOK, NEW d \in Devices, NEW calls, RequestRemote(d, calls)
    PROVE  /\ \/ pending' = pending
              \/ d \notin remotes /\ pending' = pending \cup {d}
           /\ \/ toView' = calls
              \/ toView' = Append(calls, Call("remoteconnectfailed", d))
           /\ \A e \in Devices :
                /\ e # d => btState'[e] = btState[e]
                /\ btState'[e] = "unknown" <=> btState[e] = "unknown"
<1>1. \/ btState' = btState
      \/ btState' = [btState EXCEPT ![d] =
                       IF @ = "disconnected" THEN "connecting" ELSE @]
  BY DEF RequestRemote
<1>2. \A e \in Devices :
        /\ e # d => btState'[e] = btState[e]
        /\ btState'[e] = "unknown" <=> btState[e] = "unknown"
  BY <1>1 DEF TypeOK
<1>3. QED
  BY <1>2 DEF RequestRemote

\* Every step keeps the accounts of pending attempts.
LEMMA PendingStep ==
    ASSUME TypeOK, [Next]_vars, PendingNotRemote
    PROVE  PendingNotRemote'
<1> USE DEF jsVars, appVars, selfVars, btVars, wsVars
<1>1. ASSUME NEW d \in Devices, NEW calls, RequestRemote(d, calls),
             remotes' = remotes
      PROVE  PendingNotRemote'
  BY <1>1, RequestEffect DEF PendingNotRemote
<1>2. ASSUME NEW d \in Devices, Connect(d) PROVE PendingNotRemote'
  BY <1>1, <1>2 DEF Connect, StartConnecting
<1>3. ASSUME NEW d \in Devices, ParseDeviceDetected(d) PROVE PendingNotRemote'
  BY <1>1, <1>3 DEF ParseDeviceDetected, StartConnecting, PendingNotRemote
<1>4. CASE ParseRemoteInfo
  BY <1>4 DEF ParseRemoteInfo, PendingNotRemote
<1>5. CASE pending' \subseteq pending /\ remotes' \subseteq remotes
  BY <1>5 DEF PendingNotRemote
<1>6. ASSUME NEW d \in Devices,
             \/ ParseDeviceLost(d) \/ ParseRemoteConnectFailed(d)
             \/ ParseRemoteDisconnected(d) \/ ConnectionTimeout(d)
             \/ DeviceDetected(d) \/ DeviceLost(d) \/ SendIPs(d)
             \/ RemoteReceivesIPs(d) \/ DidReceiveIPWriteResponse(d)
             \/ RemoteLeaves(d) \/ \E c \in Connections : OpenWebsocket(d, c)
      PROVE  pending' \subseteq pending /\ remotes' \subseteq remotes
  BY <1>6
  DEF ParseDeviceLost, ParseRemoteConnectFailed, ParseRemoteDisconnected,
      ConnectionTimeout, DeviceDetected, DeviceLost, SendIPs,
      RemoteReceivesIPs, DidReceiveIPWriteResponse, DidSendNetworkAddresses,
      RemoteLeaves, OpenWebsocket
<1>7. ASSUME \/ \E c \in Connections : \/ IdentifyWebsocket(c)
                                       \/ RelayRemoteInfo(c)
                                       \/ CloseWebsocket(c)
             \/ DidReceiveDeviceURL \/ ConnectToServer \/ StopBeingRemote
             \/ EnterBackground \/ EnterForeground \/ UNCHANGED vars
      PROVE  pending' \subseteq pending /\ remotes' \subseteq remotes
  BY <1>7
  DEF IdentifyWebsocket, RelayRemoteInfo, CloseWebsocket, DidReceiveDeviceURL,
      ConnectToServer, StopBeingRemote, EnterBackground, EnterForeground, vars
<1>8. QED
  BY <1>2, <1>3, <1>4, <1>5, <1>6, <1>7 DEF Next, ParseCall

\* Every step keeps what holds of connected devices.
LEMMA ConnectedStep ==
    ASSUME TypeOK, [Next]_vars, ConnectedIsBacked, CallersKnown
    PROVE  ConnectedIsBacked'
<1> USE DEF jsVars, appVars, selfVars, btVars, wsVars
<1> DEFINE Back(e) == Call("remotedisconnected", e)
<1>q. toView \in Seq(Calls)
  BY DEF TypeOK, Calls
<1>c. \A e \in Devices, n \in CallNames : Call(n, e) \in Calls
  BY CallTyped
\* Taking back a call that is not the disconnect of a connected device, and
\* adding any call, leaves the reasons of the others in place.
<1>1. ASSUME NEW calls \in Seq(Calls),
             \/ toView' = calls
             \/ \E m \in Calls : toView' = Append(calls, m),
             remotes \subseteq remotes',
             \A e \in Devices : connection'[e] = "connected" =>
                 /\ connection[e] = "connected"
                 /\ In(toView, Back(e)) => In(calls, Back(e))
      PROVE  ConnectedIsBacked'
  <2> SUFFICES ASSUME NEW e \in Devices, connection'[e] = "connected"
               PROVE  e \in remotes' \/ In(toView, Back(e))'
    BY DEF ConnectedIsBacked, Queued, In
  <2>1. e \in remotes \/ In(toView, Back(e))
    BY <1>1 DEF ConnectedIsBacked, Queued, In
  <2>2. CASE e \in remotes
    BY <1>1, <2>2
  <2>3. CASE In(toView, Back(e))
    <3>1. In(calls, Back(e))
      BY <1>1, <2>3
    <3>2. \A m \in Calls : In(Append(calls, m), Back(e))
      BY <3>1, AppendKeeps
    <3>3. In(toView', Back(e))
      BY <1>1, <3>1, <3>2
    <3>4. QED
      BY <3>3 DEF In
  <2>4. QED
    BY <2>1, <2>2, <2>3
\* A parsed call other than remotedisconnected is nobody's reason.
<1>2. ASSUME NEW d \in Devices, NEW n \in CallNames, NextCall(n, d),
             n # "remotedisconnected"
      PROVE  /\ Tail(toView) \in Seq(Calls)
             /\ \A e \in Devices :
                  In(toView, Back(e)) => In(Tail(toView), Back(e))
  <2>1. toView # <<>> /\ Head(toView) = Call(n, d)
    BY <1>2 DEF NextCall
  <2>2. \A e \in Devices : Back(e) # Head(toView)
    BY <1>2, <2>1 DEF Call
  <2>3. QED
    BY <1>q, <2>1, <2>2, QueueTail, TailKeeps
<1>3. ASSUME NEW d \in Devices, NEW calls \in Seq(Calls),
             StartConnecting(d, calls), remotes' = remotes,
             \A e \in Devices : In(toView, Back(e)) => In(calls, Back(e))
      PROVE  ConnectedIsBacked'
  <2>1. Call("remoteconnectfailed", d) \in Calls
    BY <1>c DEF CallNames
  <2>2. \/ toView' = calls
        \/ \E m \in Calls : toView' = Append(calls, m)
    BY <1>3, <2>1, RequestEffect DEF StartConnecting
  <2>3. \A e \in Devices : connection'[e] = "connected" =>
                             connection[e] = "connected"
    BY <1>3 DEF StartConnecting, TypeOK
  <2>4. QED
    BY <1>1, <1>3, <2>2, <2>3
<1>4. ASSUME NEW d \in Devices, Connect(d) PROVE ConnectedIsBacked'
  BY <1>3, <1>4, <1>q DEF Connect
<1>5. ASSUME NEW d \in Devices, ParseDeviceDetected(d)
      PROVE  ConnectedIsBacked'
  <2>1. /\ Tail(toView) \in Seq(Calls)
        /\ \A e \in Devices :
             In(toView, Back(e)) => In(Tail(toView), Back(e))
    BY <1>2, <1>5 DEF ParseDeviceDetected, CallNames
  <2>2. CASE StartConnecting(d, Tail(toView))
    BY <1>3, <1>5, <2>1, <2>2 DEF ParseDeviceDetected
  <2>3. CASE ~StartConnecting(d, Tail(toView))
    BY <1>1, <1>5, <2>1, <2>3 DEF ParseDeviceDetected
  <2>4. QED
    BY <2>2, <2>3
<1>6. ASSUME NEW d \in Devices, ParseDeviceLost(d) PROVE ConnectedIsBacked'
  <2>1. /\ Tail(toView) \in Seq(Calls)
        /\ \A e \in Devices :
             In(toView, Back(e)) => In(Tail(toView), Back(e))
    BY <1>2, <1>6 DEF ParseDeviceLost, CallNames
  <2>2. QED
    BY <1>1, <1>6, <2>1 DEF ParseDeviceLost
<1>7. ASSUME NEW d \in Devices, ParseRemoteConnectFailed(d)
      PROVE  ConnectedIsBacked'
  <2>1. /\ Tail(toView) \in Seq(Calls)
        /\ \A e \in Devices :
             In(toView, Back(e)) => In(Tail(toView), Back(e))
    BY <1>2, <1>7 DEF ParseRemoteConnectFailed, CallNames
  <2>2. \A e \in Devices : connection'[e] = "connected" =>
                             connection[e] = "connected"
    BY <1>7 DEF ParseRemoteConnectFailed, TypeOK
  <2>3. QED
    BY <1>1, <1>7, <2>1, <2>2 DEF ParseRemoteConnectFailed
<1>8. ASSUME NEW d \in Devices, ParseRemoteDisconnected(d)
      PROVE  ConnectedIsBacked'
  <2>1. toView # <<>> /\ Head(toView) = Back(d)
    BY <1>8 DEF ParseRemoteDisconnected, NextCall
  <2>2. connection'[d] # "connected"
    BY <1>8 DEF ParseRemoteDisconnected, TypeOK, CallersKnown
  <2>3. \A e \in Devices : e # d => Back(e) # Head(toView)
    BY <2>1 DEF Call
  <2>4. Tail(toView) \in Seq(Calls)
    BY <1>q, <2>1, QueueTail
  <2>5. \A e \in Devices : connection'[e] = "connected" =>
            connection[e] = "connected"
    BY <1>8 DEF ParseRemoteDisconnected, TypeOK
  <2>6. \A e \in Devices : connection'[e] = "connected" =>
            (In(toView, Back(e)) => In(Tail(toView), Back(e)))
    BY <1>q, <2>1, <2>2, <2>3, TailKeeps
  <2>7. QED
    BY <1>1, <1>8, <2>4, <2>5, <2>6 DEF ParseRemoteDisconnected
\* The other steps leave the queue alone or add one call.
<1>9. CASE /\ \/ toView' = toView
              \/ \E m \in Calls : toView' = Append(toView, m)
           /\ remotes \subseteq remotes'
           /\ connection' = connection
  BY <1>1, <1>9, <1>q
<1>10. ASSUME NEW d \in Devices,
              \/ ConnectionTimeout(d) \/ DeviceDetected(d) \/ DeviceLost(d)
              \/ SendIPs(d) \/ RemoteReceivesIPs(d)
              \/ DidReceiveIPWriteResponse(d)
              \/ RemoteLeaves(d) \/ \E c \in Connections : OpenWebsocket(d, c)
       PROVE  ConnectedIsBacked'
  <2>1. \A n \in CallNames : Call(n, d) \in Calls
    BY <1>c
  <2>2. \/ toView' = toView
        \/ \E n \in CallNames : toView' = Append(toView, Call(n, d))
    BY <1>10
    DEF ConnectionTimeout, DeviceDetected, DeviceLost, SendIPs,
        RemoteReceivesIPs, DidReceiveIPWriteResponse, DidSendNetworkAddresses,
        RemoteLeaves, OpenWebsocket, CallNames
  <2>3. remotes' = remotes /\ connection' = connection
    BY <1>10
    DEF ConnectionTimeout, DeviceDetected, DeviceLost, SendIPs,
        RemoteReceivesIPs, DidReceiveIPWriteResponse, RemoteLeaves,
        OpenWebsocket
  <2>4. QED
    BY <1>9, <2>1, <2>2, <2>3
<1>11. ASSUME NEW c \in Connections, CloseWebsocket(c)
       PROVE  ConnectedIsBacked'
  <2> DEFINE d == owner[c]
  <2>1. d \in Devices /\ Back(d) \in Calls
    BY <1>11, <1>c DEF CloseWebsocket, TypeOK, CallNames
  <2>2. CASE ids[d] # c
    BY <1>9, <1>11, <2>2 DEF CloseWebsocket
  <2>3. CASE ids[d] = c
    <3>1. /\ toView' = Append(toView, Back(d))
          /\ remotes' = remotes \ {d}
          /\ connection' = connection
      BY <1>11, <2>3 DEF CloseWebsocket
    <3>2. In(toView', Back(d))
      BY <1>q, <2>1, <3>1, AppendKeeps
    <3>3. \A x : In(toView, x) => In(toView', x)
      BY <1>q, <2>1, <3>1, AppendKeeps
    <3>4. QED
      BY <3>1, <3>2, <3>3 DEF ConnectedIsBacked, Queued, In
  <2>4. QED
    BY <2>2, <2>3
<1>12. CASE ParseRemoteInfo
  <2>1. \A e \in Devices : connection'[e] = "connected" =>
            connection[e] = "connected" \/ e \in remotes'
    BY <1>12 DEF ParseRemoteInfo, TypeOK
  <2>2. QED
    BY <1>12, <2>1 DEF ParseRemoteInfo, ConnectedIsBacked, Queued
<1>13. ASSUME \/ \E c \in Connections : \/ IdentifyWebsocket(c)
                                        \/ RelayRemoteInfo(c)
              \/ DidReceiveDeviceURL \/ ConnectToServer \/ StopBeingRemote
              \/ EnterBackground \/ EnterForeground \/ UNCHANGED vars
       PROVE  ConnectedIsBacked'
  BY <1>9, <1>13
  DEF IdentifyWebsocket, RelayRemoteInfo, DidReceiveDeviceURL,
      ConnectToServer, StopBeingRemote, EnterBackground, EnterForeground, vars
<1>14. QED
  BY <1>4, <1>5, <1>6, <1>7, <1>8, <1>10, <1>11, <1>12, <1>13
  DEF Next, ParseCall

\* Every step keeps the devices of the queued calls known.
LEMMA CallersStep ==
    ASSUME TypeOK, [Next]_vars, CallersKnown, NoCallForUnknownDevice
    PROVE  CallersKnown' /\ NoCallForUnknownDevice'
<1> USE DEF jsVars, appVars, selfVars, btVars, wsVars
<1> DEFINE Det(e) == Call("devicedetected", e)
           Backed(q, k) == /\ CallsKnown(q, k)
                           /\ \A e \in Devices : btState[e] # "unknown" =>
                                e \in k \/ In(q, Det(e))
           \* The conjuncts of CallersKnown that do not mention the queue.
           Attempts == \A e \in Devices :
                         /\ connection[e] # "disconnected" => e \in known
                         /\ timers[e] > 0 => e \in known
                         /\ btState[e] \in {"connecting", "sent"} => e \in known
<1>q. toView \in Seq(Calls)
  BY DEF TypeOK, Calls
<1>c. \A e \in Devices, n \in CallNames : Call(n, e) \in Calls
  BY CallTyped
<1>b. Backed(toView, known) /\ Attempts
  BY DEF CallersKnown, NoCallForUnknownDevice, CallsKnown, In
<1>n. ASSUME CallsKnown(toView', known')
      PROVE  NoCallForUnknownDevice'
  BY <1>n DEF NoCallForUnknownDevice, CallsKnown
\* Adding a call about a device that is known or announced keeps the queue
\* backed.
<1>1. ASSUME NEW q \in Seq(Calls), NEW k, Backed(q, k), NEW m \in Calls,
             m.name \in {"devicelost", "remoteconnectfailed"} =>
                 m.device \in k \/ In(q, Det(m.device))
      PROVE  Backed(Append(q, m), k)
  <2>1. CallsKnown(Append(q, m), k)
    BY <1>1, AppendCallsKnown
  <2>2. \A x : In(q, x) => In(Append(q, m), x)
    BY <1>1, AppendKeeps
  <2>3. QED
    BY <1>1, <2>1, <2>2
\* Taking a call keeps it backed when a detected device becomes known.
<1>2. ASSUME NEW d \in Devices, NEW n \in CallNames, NextCall(n, d),
             NEW k, known \subseteq k, n = "devicedetected" => d \in k
      PROVE  Tail(toView) \in Seq(Calls) /\ Backed(Tail(toView), k)
  <2>1. toView # <<>> /\ Head(toView) = Call(n, d)
    BY <1>2 DEF NextCall
  <2>2. \A e : Head(toView) = Det(e) => n = "devicedetected" /\ e = d
    BY <2>1 DEF Call
  <2>3. CallsKnown(Tail(toView), k)
    BY <1>2, <1>b, <1>q, <2>1, <2>2, TailCallsKnown
  <2>4. \A e \in Devices : In(toView, Det(e)) =>
                             e \in k \/ In(Tail(toView), Det(e))
    BY <1>2, <1>q, <2>1, <2>2, TailKeeps
  <2>5. QED
    BY <1>2, <1>b, <1>q, <2>1, <2>3, <2>4, QueueTail
\* What is left to show when no BT connection appears.
<1>3. ASSUME Backed(toView', known'), Attempts',
             \A e \in Devices : btState'[e] # "unknown" => btState[e] # "unknown"
      PROVE  CallersKnown' /\ NoCallForUnknownDevice'
  <2>1. NoCallForUnknownDevice'
    BY <1>3, <1>n
  <2>2. \A e \in Devices : btState'[e] # "unknown" =>
            e \in known' \/ In(toView', Det(e))
    BY <1>3
  <2>3. CallersKnown'
    BY <1>3, <2>2 DEF CallersKnown, In
  <2>4. QED
    BY <2>1, <2>3
<1>4. ASSUME NEW d \in Devices, NEW q \in Seq(Calls), Backed(q, known'),
             StartConnecting(d, q), d \in known', known \subseteq known',
             timers' = timers
      PROVE  CallersKnown' /\ NoCallForUnknownDevice'
  <2>1. Call("remoteconnectfailed", d) \in Calls
    BY <1>c DEF CallNames
  <2>2. Call("remoteconnectfailed", d).device = d
    BY DEF Call
  <2>3. Backed(Append(q, Call("remoteconnectfailed", d)), known')
    BY <1>1, <1>4, <2>1, <2>2
  <2>4. Backed(toView', known')
    BY <1>4, <2>3, RequestEffect DEF StartConnecting
  <2>5. \A e \in Devices : /\ e # d => btState'[e] = btState[e]
                           /\ btState'[e] = "unknown" <=> btState[e] = "unknown"
    BY <1>4, RequestEffect DEF StartConnecting
  <2>6. \A e \in Devices : e # d => connection'[e] = connection[e]
    BY <1>4 DEF StartConnecting, TypeOK
  <2>7. Attempts'
    BY <1>4, <1>b, <2>5, <2>6
  <2>8. QED
    BY <1>3, <2>4, <2>5, <2>7
<1>5. ASSUME NEW d \in Devices, Connect(d)
      PROVE  CallersKnown' /\ NoCallForUnknownDevice'
  BY <1>4, <1>5, <1>b, <1>q DEF Connect
<1>6. ASSUME NEW d \in Devices, ParseDeviceDetected(d)
      PROVE  CallersKnown' /\ NoCallForUnknownDevice'
  <2>1. known' = known \cup {d} /\ timers' = timers
    BY <1>6 DEF ParseDeviceDetected
  <2>2. Tail(toView) \in Seq(Calls) /\ Backed(Tail(toView), known')
    BY <1>2, <1>6, <2>1 DEF ParseDeviceDetected, CallNames
  <2>3. CASE StartConnecting(d, Tail(toView))
    BY <1>4, <2>1, <2>2, <2>3
  <2>4. CASE ~StartConnecting(d, Tail(toView))
    <3>1. /\ toView' = Tail(toView)
          /\ connection' = connection /\ btState' = btState
      BY <1>6, <2>4 DEF ParseDeviceDetected
    <3>2. Attempts'
      BY <1>b, <2>1, <3>1
    <3>3. QED
      BY <1>3, <2>2, <3>1, <3>2
  <2>5. QED
    BY <2>3, <2>4
<1>7. ASSUME NEW d \in Devices,
             \/ ParseDeviceLost(d) \/ ParseRemoteConnectFailed(d)
             \/ ParseRemoteDisconnected(d)
      PROVE  CallersKnown' /\ NoCallForUnknownDevice'
  <2>1. \E n \in CallNames : NextCall(n, d) /\ n # "devicedetected"
    BY <1>7
    DEF ParseDeviceLost, ParseRemoteConnectFailed, ParseRemoteDisconnected,
        CallNames
  <2>2. /\ toView' = Tail(toView) /\ known' = known
        /\ timers' = timers /\ btState' = btState
    BY <1>7
    DEF ParseDeviceLost, ParseRemoteConnectFailed, ParseRemoteDisconnected
  <2>3. \A e \in Devices : connection'[e] # "disconnected" =>
                             connection[e] # "disconnected"
    BY <1>7
    DEF ParseDeviceLost, ParseRemoteConnectFailed, ParseRemoteDisconnected,
        TypeOK
  <2>4. Backed(toView', known')
    BY <1>2, <2>1, <2>2
  <2>5. Attempts'
    BY <1>b, <2>2, <2>3
  <2>6. QED
    BY <1>3, <2>2, <2>4, <2>5
<1>8. CASE ParseRemoteInfo
  <2>1. Head(toWeblib) \in Devices
    BY <1>8, HeadTailProperties DEF ParseRemoteInfo, TypeOK
  <2>2. /\ known' = known \cup {Head(toWeblib)} /\ toView' = toView
        /\ timers' = timers /\ btState' = btState
    BY <1>8 DEF ParseRemoteInfo
  <2>3. \A e \in Devices : connection'[e] # connection[e] =>
                             e = Head(toWeblib)
    BY <1>8 DEF ParseRemoteInfo, TypeOK
  <2>4. Backed(toView', known')
    BY <1>b, <2>2 DEF CallsKnown
  <2>5. Attempts'
    BY <1>b, <2>2, <2>3
  <2>6. QED
    BY <1>3, <2>2, <2>4, <2>5
\* Steps of the native layer: one call is added at most, and nothing the web
\* library knows changes.
<1>9. ASSUME known' = known, connection' = connection, Attempts',
             \A e \in Devices : btState'[e] # "unknown" => btState[e] # "unknown",
             \/ toView' = toView
             \/ \E e \in Devices, n \in CallNames :
                  /\ toView' = Append(toView, Call(n, e))
                  /\ n \in {"devicelost", "remoteconnectfailed"} =>
                       e \in known \/ In(toView, Det(e))
      PROVE  CallersKnown' /\ NoCallForUnknownDevice'
  <2>1. ASSUME NEW e \in Devices, NEW n \in CallNames,
               n \in {"devicelost", "remoteconnectfailed"} =>
                   e \in known \/ In(toView, Det(e))
        PROVE  Backed(Append(toView, Call(n, e)), known)
    <3>1. Call(n, e) \in Calls /\ Call(n, e).name = n /\ Call(n, e).device = e
      BY <1>c DEF Call
    <3>2. QED
      BY <1>1, <1>b, <1>q, <2>1, <3>1
  <2>2. Backed(toView', known')
    BY <1>9, <1>b, <2>1
  <2>3. QED
    BY <1>3, <1>9, <2>2
<1>10. ASSUME NEW d \in Devices, ConnectionTimeout(d)
       PROVE  CallersKnown' /\ NoCallForUnknownDevice'
  <2>1. d \in known
    BY <1>10, <1>b DEF ConnectionTimeout
  <2>2. \A e \in Devices : timers'[e] > 0 => timers[e] > 0
    BY <1>10 DEF ConnectionTimeout, TypeOK
  <2>3. /\ known' = known /\ connection' = connection /\ btState' = btState
        /\ \/ toView' = toView
           \/ toView' = Append(toView, Call("remoteconnectfailed", d))
    BY <1>10 DEF ConnectionTimeout
  <2>4. Attempts'
    BY <1>b, <2>2, <2>3
  <2>5. QED
    BY <1>9, <2>1, <2>3, <2>4 DEF CallNames
<1>11. ASSUME NEW d \in Devices, DeviceDetected(d)
       PROVE  CallersKnown' /\ NoCallForUnknownDevice'
  <2>1. /\ toView' = Append(toView, Det(d)) /\ Det(d) \in Calls
        /\ Det(d).name = "devicedetected"
        /\ known' = known /\ connection' = connection /\ timers' = timers
    BY <1>11, <1>c DEF DeviceDetected, CallNames, Call
  <2>2. Backed(toView', known')
    BY <1>1, <1>b, <1>q, <2>1
  <2>3. In(toView', Det(d))
    BY <1>q, <2>1, AppendKeeps
  <2>4. btState' = [btState EXCEPT ![d] = "disconnected"]
    BY <1>11 DEF DeviceDetected
  <2>5. \A e \in Devices : /\ e # d => btState'[e] = btState[e]
                           /\ e = d => btState'[e] = "disconnected"
    BY <2>4 DEF TypeOK
  <2>6. Attempts'
    BY <1>b, <2>1, <2>5
  <2>7. \A e \in Devices : btState'[e] # "unknown" =>
            e \in known' \/ In(toView', Det(e))
    BY <2>2, <2>3, <2>5
  <2>8. CallersKnown'
    BY <2>6, <2>7 DEF CallersKnown, In
  <2>9. QED
    BY <1>n, <2>2, <2>8
<1>12. ASSUME NEW d \in Devices, DeviceLost(d)
       PROVE  CallersKnown' /\ NoCallForUnknownDevice'
  <2>1. d \in known \/ In(toView, Det(d))
    BY <1>12, <1>b DEF DeviceLost
  <2>2. /\ toView' = Append(toView, Call("devicelost", d))
        /\ known' = known /\ connection' = connection /\ timers' = timers
        /\ btState' = [btState EXCEPT ![d] = "unknown"]
    BY <1>12 DEF DeviceLost
  <2>3. \A e \in Devices : /\ e # d => btState'[e] = btState[e]
                           /\ e = d => btState'[e] = "unknown"
    BY <2>2 DEF TypeOK
  <2>4. Attempts'
    BY <1>b, <2>2, <2>3
  <2>5. QED
    BY <1>9, <2>1, <2>2, <2>3, <2>4 DEF CallNames
<1>13. ASSUME NEW d \in Devices, SendIPs(d)
       PROVE  CallersKnown' /\ NoCallForUnknownDevice'
  <2>1. /\ toView' = toView
        /\ known' = known /\ connection' = connection /\ timers' = timers
        /\ btState[d] = "connecting"
        /\ btState' = [btState EXCEPT ![d] = "sent"]
    BY <1>13 DEF SendIPs
  <2>2. \A e \in Devices : e # d => btState'[e] = btState[e]
    BY <2>1 DEF TypeOK
  <2>3. Attempts'
    BY <1>b, <2>1, <2>2
  <2>4. QED
    BY <1>9, <2>1, <2>2, <2>3
<1>14. ASSUME NEW d \in Devices, DidReceiveIPWriteResponse(d)
       PROVE  CallersKnown' /\ NoCallForUnknownDevice'
  <2>1. known' = known /\ connection' = connection
    BY <1>14 DEF DidReceiveIPWriteResponse
  <2>2. CASE btState[d] # "sent"
    <3>1. toView' = toView /\ timers' = timers /\ btState' = btState
      BY <1>14, <2>2 DEF DidReceiveIPWriteResponse
    <3>2. Attempts'
      BY <1>b, <2>1, <3>1
    <3>3. QED
      BY <1>9, <2>1, <3>1, <3>2
  <2>3. CASE btState[d] = "sent"
    <3>1. d \in known
      BY <1>b, <2>3
    <3>2. btState' = [btState EXCEPT ![d] = "disconnected"]
      BY <1>14, <2>3 DEF DidReceiveIPWriteResponse
    <3>3. \A e \in Devices : /\ e # d => btState'[e] = btState[e]
                             /\ e = d => btState'[e] = "disconnected"
      BY <3>2 DEF TypeOK
    <3>4. \E b \in BOOLEAN : DidSendNetworkAddresses(d, b)
      BY <1>14, <2>3 DEF DidReceiveIPWriteResponse
    <3>5. \A e \in Devices : e # d => timers'[e] = timers[e]
      BY <3>4 DEF DidSendNetworkAddresses, TypeOK
    <3>6. \/ toView' = toView
          \/ toView' = Append(toView, Call("remoteconnectfailed", d))
      BY <3>4 DEF DidSendNetworkAddresses
    <3>7. Attempts'
      BY <1>b, <2>1, <3>1, <3>3, <3>5
    <3>8. \A e \in Devices : btState'[e] # "unknown" => btState[e] # "unknown"
      BY <2>3, <3>3
    <3>9. QED
      BY <1>9, <2>1, <3>1, <3>6, <3>7, <3>8 DEF CallNames
  <2>4. QED
    BY <2>2, <2>3
<1>15. ASSUME NEW c \in Connections, CloseWebsocket(c)
       PROVE  CallersKnown' /\ NoCallForUnknownDevice'
  <2>1. owner[c] \in Devices
    BY <1>15 DEF CloseWebsocket, TypeOK
  <2>2. /\ known' = known /\ connection' = connection /\ timers' = timers
        /\ btState' = btState
        /\ \/ toView' = toView
           \/ toView' = Append(toView, Call("remotedisconnected", owner[c]))
    BY <1>15 DEF CloseWebsocket
  <2>3. Attempts'
    BY <1>b, <2>2
  <2>4. QED
    BY <1>9, <2>1, <2>2, <2>3 DEF CallNames
<1>16. ASSUME UNCHANGED <<known, connection, timers, btState, toView>>
       PROVE  CallersKnown' /\ NoCallForUnknownDevice'
  <2>1. Attempts'
    BY <1>16, <1>b
  <2>2. QED
    BY <1>9, <1>16, <2>1
<1>17. ASSUME \/ \E d \in Devices :
                   \/ RemoteReceivesIPs(d) \/ RemoteLeaves(d)
                   \/ \E c \in Connections : OpenWebsocket(d, c)
              \/ \E c \in Connections : \/ IdentifyWebsocket(c)
                                        \/ RelayRemoteInfo(c)
              \/ DidReceiveDeviceURL \/ ConnectToServer \/ StopBeingRemote
              \/ EnterBackground \/ EnterForeground \/ UNCHANGED vars
       PROVE  CallersKnown' /\ NoCallForUnknownDevice'
  BY <1>16, <1>17
  DEF RemoteReceivesIPs, RemoteLeaves, OpenWebsocket, IdentifyWebsocket,
      RelayRemoteInfo, DidReceiveDeviceURL, ConnectToServer, StopBeingRemote,
      EnterBackground, EnterForeground, vars
<1>18. QED
  BY <1>5, <1>6, <1>7, <1>8, <1>10, <1>11, <1>12, <1>13, <1>14, <1>15, <1>17
  DEF Next, ParseCall

\* Every step keeps the accounts of the sessions.
LEMMA SessionStep ==
    ASSUME TypeOK, [Next]_vars, SessionAccounted
    PROVE  SessionAccounted'
<1> USE DEF jsVars, appVars, selfVars, btVars, wsVars
<1>q. toWeblib \in Seq(Devices)
  BY DEF TypeOK
<1>d. NoConnection \notin Connections
  BY DEF NoConnection, Connections
\* Connections and identifiers stay put, and nobody stops being accounted for.
<1>1. ASSUME owner' = owner, stage' = stage, ids' = ids,
             \A e \in Devices : e \in remotes \/ In(toWeblib, e) =>
                 e \in remotes' \/ In(toWeblib', e)
      PROVE  SessionAccounted'
  <2> SUFFICES ASSUME NEW e \in Devices, ids[e] # NoConnection
               PROVE  /\ owner[ids[e]] = e
                      /\ stage[ids[e]] \in {"identified", "informed"}
                      /\ stage[ids[e]] = "informed" =>
                           e \in remotes' \/ In(toWeblib', e)
    BY <1>1 DEF SessionAccounted, In
  <2>1. /\ owner[ids[e]] = e
        /\ stage[ids[e]] \in {"identified", "informed"}
        /\ stage[ids[e]] = "informed" => e \in remotes \/ In(toWeblib, e)
    BY DEF SessionAccounted, In
  <2>2. QED
    BY <1>1, <2>1
<1>2. CASE UNCHANGED <<owner, stage, ids, remotes, toWeblib>>
  BY <1>1, <1>2
<1>3. ASSUME NEW d \in Devices,
             \/ Connect(d) \/ ParseCall(d) \/ ConnectionTimeout(d)
             \/ DeviceDetected(d) \/ DeviceLost(d) \/ SendIPs(d)
             \/ RemoteReceivesIPs(d) \/ DidReceiveIPWriteResponse(d)
             \/ RemoteLeaves(d)
      PROVE  UNCHANGED <<owner, stage, ids, remotes, toWeblib>>
  BY <1>3
  DEF Connect, ParseCall, ParseDeviceDetected, ParseDeviceLost,
      ParseRemoteConnectFailed, ParseRemoteDisconnected, ConnectionTimeout,
      DeviceDetected, DeviceLost, SendIPs, RemoteReceivesIPs,
      DidReceiveIPWriteResponse, RemoteLeaves
<1>4. ASSUME \/ DidReceiveDeviceURL \/ ConnectToServer \/ StopBeingRemote
             \/ EnterBackground \/ EnterForeground \/ UNCHANGED vars
      PROVE  UNCHANGED <<owner, stage, ids, remotes, toWeblib>>
  BY <1>4
  DEF DidReceiveDeviceURL, ConnectToServer, StopBeingRemote, EnterBackground,
      EnterForeground, vars
\* A step of connection c, which is not on record for anybody but its owner.
<1>5. ASSUME NEW c \in Connections, NEW d \in Devices, OpenWebsocket(d, c)
      PROVE  SessionAccounted'
  <2>1. \A e \in Devices : ids[e] # NoConnection => ids[e] # c
    BY <1>5 DEF OpenWebsocket, SessionAccounted
  <2>2. \A b \in Connections : b # c => owner'[b] = owner[b] /\ stage'[b] = stage[b]
    BY <1>5 DEF OpenWebsocket, TypeOK
  <2>3. ids' = ids /\ remotes' = remotes /\ toWeblib' = toWeblib
    BY <1>5 DEF OpenWebsocket
  <2>4. \A e \in Devices : ids[e] # NoConnection => ids[e] \in Connections
    BY DEF TypeOK
  <2>5. QED
    BY <2>1, <2>2, <2>3, <2>4 DEF SessionAccounted
<1>6. ASSUME NEW c \in Connections, IdentifyWebsocket(c)
      PROVE  SessionAccounted'
  <2>1. owner[c] \in Devices
    BY <1>6 DEF IdentifyWebsocket, TypeOK
  <2>2. /\ \A e \in Devices : ids'[e] = IF e = owner[c] THEN c ELSE ids[e]
        /\ \A b \in Connections :
             stage'[b] = IF b = c THEN "identified" ELSE stage[b]
    BY <1>6, <2>1 DEF IdentifyWebsocket, TypeOK
  <2>3. owner' = owner /\ remotes' = remotes /\ toWeblib' = toWeblib
    BY <1>6 DEF IdentifyWebsocket
  <2>4. \A e \in Devices : ids[e] # NoConnection => ids[e] \in Connections
    BY DEF TypeOK
  <2>5. QED
    BY <2>1, <2>2, <2>3, <2>4 DEF SessionAccounted
<1>7. ASSUME NEW c \in Connections, RelayRemoteInfo(c)
      PROVE  SessionAccounted'
  <2>1. owner[c] \in Devices
    BY <1>7 DEF RelayRemoteInfo, TypeOK
  <2>2. /\ toWeblib' = Append(toWeblib, owner[c])
        /\ owner' = owner /\ ids' = ids /\ remotes' = remotes
    BY <1>7 DEF RelayRemoteInfo
  <2>3. \A b \in Connections :
          stage'[b] = IF b = c THEN "informed" ELSE stage[b]
    BY <1>7 DEF RelayRemoteInfo, TypeOK
  <2>4. /\ Len(toWeblib) \in Nat
        /\ Len(toWeblib') = Len(toWeblib) + 1
        /\ \A i \in 1..Len(toWeblib) : toWeblib'[i] = toWeblib[i]
        /\ toWeblib'[Len(toWeblib) + 1] = owner[c]
    BY <1>q, <2>1, <2>2, AppendProperties, LenProperties
  <2>5. In(toWeblib', owner[c]) /\ \A e : In(toWeblib, e) => In(toWeblib', e)
    BY <2>4 DEF In
  <2> SUFFICES ASSUME NEW e \in Devices, ids[e] # NoConnection
               PROVE  /\ owner[ids[e]] = e
                      /\ stage'[ids[e]] \in {"identified", "informed"}
                      /\ stage'[ids[e]] = "informed" =>
                           e \in remotes \/ In(toWeblib', e)
    BY <2>2 DEF SessionAccounted, In
  <2>6. /\ owner[ids[e]] = e
        /\ stage[ids[e]] \in {"identified", "informed"}
        /\ stage[ids[e]] = "informed" => e \in remotes \/ In(toWeblib, e)
        /\ ids[e] \in Connections
    BY DEF SessionAccounted, In, TypeOK
  <2>7. QED
    BY <2>3, <2>5, <2>6
<1>8. ASSUME NEW c \in Connections, CloseWebsocket(c)
      PROVE  SessionAccounted'
  <2> DEFINE d == owner[c]
  <2>1. d \in Devices
    BY <1>8 DEF CloseWebsocket, TypeOK
  <2>2. /\ owner' = owner /\ toWeblib' = toWeblib
        /\ \A b \in Connections : b # c => stage'[b] = stage[b]
    BY <1>8 DEF CloseWebsocket, TypeOK
  <2>3. /\ ids'[d] # c
        /\ \A e \in Devices : e # d => /\ ids'[e] = ids[e]
                                       /\ e \in remotes' <=> e \in remotes
        /\ ids'[d] # NoConnection =>
             ids'[d] = ids[d] /\ (d \in remotes' <=> d \in remotes)
    BY <1>8, <1>d, <2>1 DEF CloseWebsocket, TypeOK
  <2>4. \A e \in Devices : ids[e] # NoConnection =>
            ids[e] \in Connections /\ owner[ids[e]] = e
    BY DEF TypeOK, SessionAccounted
  <2> HIDE DEF d
  <2>5. \A e \in Devices : ids'[e] # NoConnection =>
            ids'[e] = ids[e] /\ ids[e] # c /\ (e \in remotes' <=> e \in remotes)
    BY <2>3, <2>4 DEF d
  <2>6. QED
    BY <2>2, <2>4, <2>5 DEF SessionAccounted
<1>9. CASE ParseRemoteInfo
  <2>1. /\ remotes' = remotes \cup {Head(toWeblib)}
        /\ toWeblib # <<>> /\ toWeblib' = Tail(toWeblib)
        /\ owner' = owner /\ stage' = stage /\ ids' = ids
    BY <1>9 DEF ParseRemoteInfo
  <2>2. /\ Len(toWeblib) \in Nat
        /\ Len(toWeblib') = Len(toWeblib) - 1
        /\ \A i \in 1..Len(toWeblib') : toWeblib'[i] = toWeblib[i + 1]
        /\ toWeblib[1] = Head(toWeblib)
    <3>1. Head(toWeblib) = toWeblib[1]
      BY <1>q, <2>1
    <3>2. QED
      BY <1>q, <2>1, <3>1, HeadTailProperties, LenProperties
  <2>3. ASSUME NEW e \in Devices, In(toWeblib, e), e # Head(toWeblib)
        PROVE  In(toWeblib', e)
    <3>1. PICK i \in 1..Len(toWeblib) : toWeblib[i] = e
      BY <2>3 DEF In
    <3>2. i # 1
      BY <2>2, <2>3, <3>1
    <3>3. (i - 1) \in 1..Len(toWeblib') /\ (i - 1) + 1 = i
      BY <2>2, <3>2
    <3>4. QED
      BY <2>2, <3>1, <3>3 DEF In
  <2>4. QED
    BY <1>1, <2>1, <2>3
<1>10. QED
  BY <1>2, <1>3, <1>4, <1>5, <1>6, <1>7, <1>8, <1>9 DEF Next

\* Every step keeps the inductive invariant.
LEMMA InvStep == IInv /\ [Next]_vars => IInv'
<1> SUFFICES ASSUME IInv, [Next]_vars PROVE IInv'
  OBVIOUS
<1>1. TypeOK'
  BY TypeStep DEF IInv
<1>2. PendingNotRemote'
  BY PendingStep DEF IInv
<1>3. CallersKnown' /\ NoCallForUnknownDevice'
  BY CallersStep DEF IInv
<1>4. ConnectedIsBacked'
  BY ConnectedStep DEF IInv
<1>5. SessionAccounted'
  BY SessionStep DEF IInv
<1>6. QED
  BY <1>1, <1>2, <1>3, <1>4, <1>5 DEF IInv

\* The inductive invariant holds in every reachable state of the lifecycle.
THEOREM InvCorrect == Spec => []IInv
<1>1. QED
  BY InvInit, InvStep, PTL DEF Spec

\* No device is on CWWebApplication's list of attempts and on its list of
\* remotes at once, in whatever order answers, timeouts, closes and
\* remoteinfo messages arrive.
THEOREM PendingNotRemoteHolds == Spec => []PendingNotRemote
<1>1. IInv => PendingNotRemote
  BY DEF IInv
<1>2. QED
  BY <1>1, InvCorrect, PTL

\* A device that getConnectedDevices() returns is a remote of the native
\* layer, or the call that takes it back is already queued.
THEOREM ConnectedIsBackedHolds == Spec => []ConnectedIsBacked
<1>1. IInv => ConnectedIsBacked
  BY DEF IInv
<1>2. QED
  BY <1>1, InvCorrect, PTL

\* _parseDeviceLost and _parseRemoteConnectFailed never look up a device that
\* CWDeviceManager has no entry for.
THEOREM NoCallForUnknownDeviceHolds == Spec => []NoCallForUnknownDevice
<1>1. IInv => NoCallForUnknownDevice
  BY DEF IInv
<1>2. QED
  BY <1>1, InvCorrect, PTL

\* The server's table of identifiers maps a device to its own live connection,
\* and a session that sent its remoteinfo is a remote or about to become one.
THEOREM SessionAccountedHolds == Spec => []SessionAccounted
<1>1. IInv => SessionAccounted
  BY DEF IInv
<1>2. QED
  BY <1>1, InvCorrect, PTL

=============================================================================
