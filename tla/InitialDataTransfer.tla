------------------------ MODULE InitialDataTransfer ------------------------
(***************************************************************************)
(* CWBluetoothTransferManager from peripheral to central: this device      *)
(* answers every device that subscribes to its initial characteristic with *)
(* its information, cut in chunks of 20 bytes that are ended by an EOM.    *)
(* CoreBluetooth refuses a value when its transmit queue is full and calls *)
(* back, once however many were refused, when there is room again.         *)
(*                                                                         *)
(* Each of Devices runs the central's side, CWBluetoothManager and the     *)
(* receiving half of its own CWBluetoothTransferManager.  The information  *)
(* is the same for all: its i-th chunk is the number i, so a message was   *)
(* received whole iff it is 1, 2, ... Chunks.  Each side runs on the       *)
(* serial queue of its CoreBluetooth manager, a handler is one step.       *)
(***************************************************************************)
EXTENDS Naturals, Sequences, FiniteSets

CONSTANTS
    Devices,   \* the devices nearby, centrals of this one
    Chunks,    \* number of chunks of the information
    MaxBreaks  \* bound on the links of a device that break in a transfer

ASSUME ChunksAssumption == Chunks \in Nat \ {0} /\ MaxBreaks \in Nat

EOM == Chunks + 1
Whole == [i \in 1..Chunks |-> i]

VARIABLES
    initialDataState,    \* of a device's record of this one, "none" without
    link,                \* of a device to this one, up to the subscription
    centralSends,        \* chunks left to send, 0 without an entry
    centralEOMSends,     \* the devices in that array; which is first is left open
    ready,               \* CoreBluetooth owes peripheralManagerIsReady...
    notified,            \* values taken by CoreBluetooth and not yet received
    peripheralReceives,  \* what a device received of the current message
    breaks               \* links of a device that broke in a transfer (history)

sendVars == <<centralSends, centralEOMSends, ready>>
vars == <<sendVars, initialDataState, link, notified, peripheralReceives, breaks>>

\* Every variable has its type.
TypeOK ==
    /\ initialDataState \in
         [Devices -> {"none", "connecting", "connected", "received", "missing"}]
    /\ link \in [Devices -> {"off", "connecting", "requested", "on"}]
    /\ centralSends \in [Devices -> 0..Chunks]
    /\ centralEOMSends \subseteq Devices
    /\ ready \in BOOLEAN
    /\ notified \in [Devices -> Seq(1..EOM)]
    /\ peripheralReceives \in [Devices -> Seq(1..Chunks)]
    /\ breaks \in [Devices -> 0..MaxBreaks]

Init ==
    /\ initialDataState = [d \in Devices |-> "none"]
    /\ link = [d \in Devices |-> "off"]
    /\ centralSends = [d \in Devices |-> 0]
    /\ centralEOMSends = {}
    /\ ready = FALSE
    /\ notified = [d \in Devices |-> <<>>]
    /\ peripheralReceives = [d \in Devices |-> <<>>]
    /\ breaks = [d \in Devices |-> 0]

-----------------------------------------------------------------------------
(* The device that asks.                                                   *)

\* didDiscoverPeripheral of a device without a record; _connectPeripheral
\* does nothing while a link of an earlier record is still there.
Discover(d) ==
    /\ initialDataState[d] = "none"
    /\ initialDataState' = [initialDataState EXCEPT ![d] = "connecting"]
    /\ link' = [link EXCEPT ![d] = IF @ = "off" THEN "connecting" ELSE @]
    /\ UNCHANGED <<sendVars, notified, peripheralReceives, breaks>>

\* The services and the initial characteristic were found.
Subscribe(d) ==
    /\ link[d] = "connecting"
    /\ initialDataState[d] = "connecting"
    /\ initialDataState' = [initialDataState EXCEPT ![d] = "connected"]
    /\ link' = [link EXCEPT ![d] = "requested"]
    /\ UNCHANGED <<sendVars, notified, peripheralReceives, breaks>>

ReceiveChunk(d) ==
    /\ notified[d] # <<>>
    /\ Head(notified[d]) # EOM
    /\ peripheralReceives' =
         [peripheralReceives EXCEPT ![d] = Append(@, Head(notified[d]))]
    /\ notified' = [notified EXCEPT ![d] = Tail(@)]
    /\ UNCHANGED <<sendVars, initialDataState, link, breaks>>

\* Broken variant: the buffer is handed over and kept.
ReceiveEOMKeeps(d) ==
    /\ notified[d] # <<>>
    /\ Head(notified[d]) = EOM
    /\ IF initialDataState[d] = "connected"
         THEN /\ initialDataState' = [initialDataState EXCEPT ![d] =
                   IF peripheralReceives[d] = Whole THEN "received" ELSE "missing"]
              /\ link' = [link EXCEPT ![d] = "off"]
              /\ notified' = [notified EXCEPT ![d] = <<>>]
         ELSE /\ notified' = [notified EXCEPT ![d] = Tail(@)]
              /\ UNCHANGED <<initialDataState, link>>
    /\ UNCHANGED <<sendVars, peripheralReceives, breaks>>

\* The message goes to _receivedInitialData, which ignores it unless the
\* record waits for it, and which disconnects whether the data has an
\* identifier or not.
ReceiveEOM(d) ==
    /\ notified[d] # <<>>
    /\ Head(notified[d]) = EOM
    /\ IF initialDataState[d] = "connected"
         THEN /\ initialDataState' = [initialDataState EXCEPT ![d] =
                   IF peripheralReceives[d] = Whole THEN "received" ELSE "missing"]
              /\ link' = [link EXCEPT ![d] = "off"]
              /\ notified' = [notified EXCEPT ![d] = <<>>]
         ELSE /\ notified' = [notified EXCEPT ![d] = Tail(@)]
              /\ UNCHANGED <<initialDataState, link>>
    /\ peripheralReceives' = [peripheralReceives EXCEPT ![d] = <<>>]
    /\ UNCHANGED <<sendVars, breaks>>

\* The timer for lost devices removes the record, not the link.
Lose(d) ==
    /\ initialDataState[d] # "none"
    /\ initialDataState' = [initialDataState EXCEPT ![d] = "none"]
    /\ UNCHANGED <<sendVars, link, notified, peripheralReceives, breaks>>

-----------------------------------------------------------------------------
(* The link.                                                               *)

\* Some part of the message of d is still kept somewhere.
UnderWay(d) ==
    \/ centralSends[d] > 0
    \/ d \in centralEOMSends
    \/ notified[d] # <<>>
    \/ peripheralReceives[d] # <<>>

\* The link of d breaks.  didDisconnectPeripheral and
\* didUnsubscribeFromCharacteristic do nothing about it.  The buffer of the
\* receiver is found again if CoreBluetooth uses the same object for the
\* characteristic the next time.
Break(d) ==
    /\ link[d] # "off"
    /\ UnderWay(d) => breaks[d] < MaxBreaks
    /\ breaks' = [breaks EXCEPT ![d] = IF UnderWay(d) THEN @ + 1 ELSE @]
    /\ link' = [link EXCEPT ![d] = "off"]
    /\ notified' = [notified EXCEPT ![d] = <<>>]
    /\ \E kept \in {<<>>, peripheralReceives[d]} :
         peripheralReceives' = [peripheralReceives EXCEPT ![d] = kept]
    /\ UNCHANGED <<sendVars, initialDataState>>

-----------------------------------------------------------------------------
(* The device that answers.                                                *)

\* CoreBluetooth takes the k values after the first n for d, which has a
\* subscription or else never sees them.
Notify(d, n, k, subscribed) ==
    notified' = [notified EXCEPT ![d] =
                   IF subscribed THEN @ \o [i \in 1..k |-> n + i] ELSE @]

\* Broken variant: a refused chunk is taken for sent.
SendChunksSkips(d, n, k, subscribed) ==
    /\ centralSends' = [centralSends EXCEPT ![d] = IF k < n THEN (n - k) - 1 ELSE 0]
    /\ centralEOMSends' = IF k = n \/ k + 1 = n THEN centralEOMSends \cup {d}
                          ELSE IF k < n THEN centralEOMSends
                          ELSE centralEOMSends \ {d}
    /\ Notify(d, Chunks - n, k, subscribed)

\* Broken variant: the number of chunks left is not kept.
SendChunksUncounted(d, n, k, subscribed) ==
    /\ centralSends' = [centralSends EXCEPT ![d] = n - k]
    /\ centralEOMSends' = IF k >= n THEN centralEOMSends \cup {d} ELSE centralEOMSends
    /\ Notify(d, Chunks - n, k, subscribed)

\* _sendNextChunkToCentral with n chunks left, for as long as CoreBluetooth
\* takes values, which are k.  When all chunks are gone the EOM follows, at
\* once if there is room.
SendChunks(d, n, k, subscribed) ==
    /\ centralSends' = [centralSends EXCEPT ![d] = IF k < n THEN n - k ELSE 0]
    /\ centralEOMSends' = IF k < n THEN centralEOMSends
                          ELSE IF k = n THEN centralEOMSends \cup {d}
                          ELSE centralEOMSends \ {d}
    /\ Notify(d, Chunks - n, k, subscribed)

\* didSubscribeToCharacteristic and sendData:, which replaces the data of a
\* transfer that did not end and leaves an EOM that was not sent.
DidSubscribe(d) ==
    /\ link[d] = "requested"
    /\ link' = [link EXCEPT ![d] = "on"]
    /\ \E k \in 0..EOM :
         /\ SendChunks(d, Chunks, k, TRUE)
         /\ ready' = (ready \/ k < EOM)
    /\ UNCHANGED <<initialDataState, peripheralReceives, breaks>>

\* peripheralManagerIsReadyToUpdateSubscribers with an EOM to send: there is
\* room for it, and that is all that is sent.
ResumeEOM(d) ==
    /\ ready
    /\ d \in centralEOMSends
    /\ ready' = FALSE
    /\ centralEOMSends' = centralEOMSends \ {d}
    /\ Notify(d, Chunks, 1, link[d] = "on")
    /\ UNCHANGED <<initialDataState, link, centralSends, peripheralReceives, breaks>>

\* The same with no EOM to send: one transfer goes on, there is room for one
\* value at least.
ResumeChunks(d) ==
    /\ ready
    /\ centralEOMSends = {}
    /\ centralSends[d] > 0
    /\ \E k \in 1..(centralSends[d] + 1) :
         /\ SendChunks(d, centralSends[d], k, link[d] = "on")
         /\ ready' = (k <= centralSends[d])
    /\ UNCHANGED <<initialDataState, link, peripheralReceives, breaks>>

\* The same with nothing to send.
ResumeNothing ==
    /\ ready
    /\ centralEOMSends = {}
    /\ \A d \in Devices : centralSends[d] = 0
    /\ ready' = FALSE
    /\ UNCHANGED <<initialDataState, link, centralSends, centralEOMSends,
                   notified, peripheralReceives, breaks>>

Ready ==
    \/ \E d \in Devices : ResumeEOM(d) \/ ResumeChunks(d)
    \/ ResumeNothing

-----------------------------------------------------------------------------
Receive(d) == ReceiveChunk(d) \/ ReceiveEOM(d)

Next ==
    \/ \E d \in Devices :
         \/ Discover(d) \/ Subscribe(d) \/ Receive(d) \/ Lose(d)
         \/ Break(d) \/ DidSubscribe(d)
    \/ Ready

Spec == Init /\ [][Next]_vars

\* CoreBluetooth delivers what it took and calls back when it owes a call.
Fairness ==
    /\ WF_vars(Ready)
    /\ \A d \in Devices : WF_vars(Receive(d)) /\ WF_vars(DidSubscribe(d))

FairSpec == Spec /\ Fairness

-----------------------------------------------------------------------------
(* Properties.                                                             *)

Disturbed == {d \in Devices : breaks[d] > 0}

\* Values that were sent to d in this transfer and are not handed over yet.
Position(d) == Len(peripheralReceives[d]) + Len(notified[d])

\* What d received and what is on the way to it are the first values of the
\* message in order.
InOrder(d) ==
    /\ \A i \in 1..Len(peripheralReceives[d]) : peripheralReceives[d][i] = i
    /\ \A i \in 1..Len(notified[d]) :
          notified[d][i] = Len(peripheralReceives[d]) + i

\* The sender's books account for the rest of the message.
Accounted(d) ==
    \/ /\ centralSends[d] > 0
       /\ d \notin centralEOMSends
       /\ Position(d) + centralSends[d] = Chunks
    \/ /\ centralSends[d] = 0
       /\ d \in centralEOMSends
       /\ Position(d) = Chunks
    \/ /\ centralSends[d] = 0
       /\ d \notin centralEOMSends
       /\ Position(d) = EOM \/ ~UnderWay(d)

\* As long as no link of a device broke in a transfer, its message arrives in
\* order and is accounted for: a full transmit queue, and transfers to other
\* devices that fail or resume, lose and repeat nothing of it.
UndisturbedAccounted ==
    \A d \in Devices \ Disturbed : InOrder(d) /\ Accounted(d)

\* Without a subscription nothing of a message is under way, and while a
\* subscribed device waits something is.
WaitsForSomething(d) ==
    /\ link[d] # "on" => ~UnderWay(d)
    /\ initialDataState[d] = "connected" /\ link[d] = "on" => UnderWay(d)

\* As long as no link of a device broke in a transfer, no part of an earlier
\* message meets a new subscription, and none that waits is forgotten.
UndisturbedSubscribed ==
    \A d \in Devices \ Disturbed : WaitsForSomething(d)

\* The exchange of the initial data as CWBluetoothManager relies on it: data
\* is handed over whole, and a device is without identifier only if its own
\* link broke in an earlier transfer.
Exchange == INSTANCE InitialDataExchange
              WITH state <- initialDataState, disturbed <- Disturbed
ExchangeSpec == Exchange!Spec

\* "If the queue is full we wait for the peripheralManagerIsReadyToSend
\* callback, which will call this method again": a transfer that was stopped
\* by a full queue goes on, unless its link goes.
StoppedTransferResumes ==
    \A d \in Devices :
        (centralSends[d] > 0 /\ link[d] = "on")
            ~> (centralSends[d] = 0 \/ link[d] # "on")
=============================================================================
