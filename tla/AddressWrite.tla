----------------------------- MODULE AddressWrite -----------------------------
(***************************************************************************)
(* How masters hand their network addresses to one device over Bluetooth.  *)
(* Every master's Bluetooth manager is a central with a record             *)
(* (CWBluetoothConnection) of the device and a link to it; the device's    *)
(* manager is the peripheral, whose serial queue assembles the chunks of   *)
(* every central and checks the addresses in a blocking HTTP request.      *)
(*                                                                         *)
(* CoreBluetooth, the radio and the HTTP request are external: a connect   *)
(* may fail, a discovery may come back empty, a link may break at any      *)
(* moment and takes what is in flight with it, and a chunk written without *)
(* response may be dropped.  The transfer of the initial data is one step  *)
(* here; InitialDataTransfer has its details.                              *)
(***************************************************************************)
EXTENDS Naturals, Sequences

CONSTANTS
    Masters,      \* the centrals
    NoMaster,     \* nobody's addresses are being checked
    MaxRetries,   \* MAX_CONNECTION_RETRIES
    Fragile,      \* those to whom the radio is unkind: a connect or discovery
                  \* fails, the link breaks, a chunk is dropped, the device lost
    MaxAttempts,  \* bound on sendNetworkAddressesToDevice: per master
    MaxTimers     \* bound on delayed reconnects armed at once per master

ASSUME MastersAssumption == NoMaster \notin Masters /\ Fragile \subseteq Masters
ASSUME AddressBounds ==
    MaxRetries \in Nat /\ MaxAttempts \in Nat /\ MaxTimers \in Nat

VARIABLES
    connection,  \* the master's CWBluetoothConnection of the device
    scanning,    \* isScanning; the lost connections timer runs with it
    link,        \* CBPeripheral.state; "closing": cancelled, not yet down
    expected,    \* callbacks CoreBluetooth owes on the link
    retries,     \* delayed _connectPeripheral: calls
    attempt,     \* how often addresses were to be sent
    wire,        \* chunks and EOM on their way to the device
    response,    \* the answer to the EOM, "due" until the device gives it
    received,    \* centralReceives at the device
    checking     \* whose addresses the device's queue is busy checking

centralVars == <<connection, scanning, retries, attempt>>
linkVars == <<link, expected, wire, response>>
deviceVars == <<received, checking>>
addressVars == <<centralVars, linkVars, deviceVars>>

Chunk(a, part) == [attempt |-> a, part |-> part]
Chunks == [attempt : 0..MaxAttempts, part : {"head", "tail"}]
EOM(a) == Chunk(a, "EOM")

\* What reads of a missing record give: messages to nil answer zero.
Unlisted == [listed |-> FALSE, initial |-> "missing", write |-> "disconnected",
             didError |-> FALSE, tries |-> 0]

NobodyChecked == [master |-> NoMaster, attempt |-> 0]

AddressTypeOK ==
    /\ connection \in [Masters ->
         [listed : BOOLEAN,
          initial : {"missing", "connecting", "connected", "received"},
          write : {"disconnected", "connecting", "sent"},
          didError : BOOLEAN, tries : Nat]]
    /\ scanning \in [Masters -> BOOLEAN]
    /\ link \in [Masters -> {"down", "connecting", "up", "closing"}]
    /\ expected \in [Masters -> {"nothing", "services", "initial", "ip", "data"}]
    /\ retries \in [Masters -> 0..MaxTimers]
    /\ attempt \in [Masters -> 0..MaxAttempts]
    /\ wire \in [Masters -> Seq(Chunks \cup {EOM(a) : a \in 0..MaxAttempts})]
    /\ response \in [Masters -> {"none", "due", "success", "refused", "error"}]
    /\ received \in [Masters -> Seq(Chunks)]
    /\ checking \in [master : Masters \cup {NoMaster}, attempt : 0..MaxAttempts]

AddressInit ==
    /\ connection = [m \in Masters |-> Unlisted]
    /\ scanning = [m \in Masters |-> TRUE]
    /\ link = [m \in Masters |-> "down"]
    /\ expected = [m \in Masters |-> "nothing"]
    /\ retries = [m \in Masters |-> 0]
    /\ attempt = [m \in Masters |-> 0]
    /\ wire = [m \in Masters |-> <<>>]
    /\ response = [m \in Masters |-> "none"]
    /\ received = [m \in Masters |-> <<>>]
    /\ checking = NobodyChecked

-----------------------------------------------------------------------------
(* The master: connecting.                                                 *)

\* Assignments to the fields of a record that is not there are lost.
Assign(m, c) ==
    connection' = [connection EXCEPT ![m] = IF @.listed THEN c ELSE @]

\* _connectPeripheral: on the record c.  CoreBluetooth is not asked while it
\* connects or is connected, and nothing asks it later; a link that was
\* cancelled may or may not still be reported as connected.
ConnectPeripheral(m, c) ==
    \/ /\ c.listed /\ ~c.didError
       /\ link[m] \in {"down", "closing"}
       /\ connection' = [connection EXCEPT ![m] = [c EXCEPT !.tries = @ + 1]]
       /\ scanning' = [scanning EXCEPT ![m] = FALSE]
       /\ link' = [link EXCEPT ![m] = "connecting"]
       /\ wire' = [wire EXCEPT ![m] = <<>>]
       /\ response' = [response EXCEPT ![m] = "none"]
    \/ /\ ~c.listed \/ c.didError \/ link[m] # "down"
       /\ connection' = [connection EXCEPT ![m] = c]
       /\ UNCHANGED <<scanning, link, wire, response>>

\* _disconnectPeripheral: until didDisconnect the link is closing.
DisconnectPeripheral(m) ==
    /\ link' = [link EXCEPT ![m] = IF @ = "up" THEN "closing" ELSE @]
    /\ expected' = [expected EXCEPT ![m] = "nothing"]

\* didDiscoverPeripheral: for a device without a record.  A device with one
\* only updates its distance.
DidDiscover(m) ==
    /\ scanning[m]
    /\ ~connection[m].listed
    /\ ConnectPeripheral(m, [Unlisted EXCEPT !.listed = TRUE,
                                             !.initial = "connecting"])
    /\ UNCHANGED <<expected, retries, attempt, deviceVars>>

\* The startScanning that _stopScanningTemporarily leaves for 30 s later.
ResumeScanning(m) ==
    /\ ~scanning[m]
    /\ scanning' = [scanning EXCEPT ![m] = TRUE]
    /\ UNCHANGED <<connection, retries, attempt, linkVars, deviceVars>>

DidConnect(m) ==
    /\ link[m] = "connecting"
    /\ link' = [link EXCEPT ![m] = "up"]
    /\ expected' = [expected EXCEPT ![m] = "services"]
    /\ Assign(m, [connection[m] EXCEPT !.tries = 0])
    /\ scanning' = [scanning EXCEPT ![m] = TRUE]
    /\ UNCHANGED <<retries, attempt, wire, response, deviceVars>>

\* didFailToConnectPeripheral: with _maybeRetryConnect.  The early return for a
\* lost device leaves the scan stopped.
DidFailToConnect(m) ==
    /\ m \in Fragile
    /\ link[m] = "connecting"
    /\ link' = [link EXCEPT ![m] = "down"]
    /\ LET c == connection[m] IN
         \/ /\ ~c.listed
            /\ UNCHANGED <<connection, scanning, retries>>
         \/ /\ c.listed /\ c.tries <= MaxRetries
            /\ retries[m] < MaxTimers
            /\ retries' = [retries EXCEPT ![m] = @ + 1]
            /\ scanning' = [scanning EXCEPT ![m] = TRUE]
            /\ UNCHANGED connection
         \/ /\ c.listed /\ c.tries > MaxRetries
            /\ Assign(m, [c EXCEPT !.didError = TRUE])
            /\ scanning' = [scanning EXCEPT ![m] = TRUE]
            /\ UNCHANGED retries
    /\ UNCHANGED <<attempt, expected, wire, response, deviceVars>>

\* Broken variant: a delayed connect that was spent fires again.
RetrySpent(m) ==
    /\ retries' = [retries EXCEPT ![m] = @ - 1]
    /\ ConnectPeripheral(m, connection[m])
    /\ UNCHANGED <<attempt, expected, deviceVars>>

\* Broken variant: the delayed connect does not look at the record.
RetryAnyway(m) ==
    /\ retries[m] > 0
    /\ retries' = [retries EXCEPT ![m] = @ - 1]
    /\ ConnectPeripheral(m, [connection[m] EXCEPT !.didError = FALSE])
    /\ UNCHANGED <<attempt, expected, deviceVars>>

\* A delayed connect fires, whatever record the device has by now.
Retry(m) ==
    /\ retries[m] > 0
    /\ retries' = [retries EXCEPT ![m] = @ - 1]
    /\ ConnectPeripheral(m, connection[m])
    /\ UNCHANGED <<attempt, expected, deviceVars>>

\* A cancelled link goes down, or a link breaks: didDisconnectPeripheral does
\* nothing.  What is in flight is gone; a write that was not answered yet may
\* be reported as failed.
LinkDown(m) ==
    /\ link[m] = "closing" \/ (m \in Fragile /\ link[m] = "up")
    /\ link' = [link EXCEPT ![m] = "down"]
    /\ expected' = [expected EXCEPT ![m] = "nothing"]
    /\ wire' = [wire EXCEPT ![m] = <<>>]
    /\ \/ response' = [response EXCEPT ![m] = "none"]
       \/ /\ response[m] # "none"
          /\ response' = [response EXCEPT ![m] = "error"]
    /\ UNCHANGED <<centralVars, deviceVars>>

\* _removeLostConnections: the record goes, the link stays.
DeviceLost(m) ==
    /\ m \in Fragile
    /\ scanning[m]
    /\ connection[m].listed
    /\ connection' = [connection EXCEPT ![m] = Unlisted]
    /\ UNCHANGED <<scanning, retries, attempt, linkVars, deviceVars>>

-----------------------------------------------------------------------------
(* The master: discovery, the initial data and the write of the addresses. *)

\* No valid service or characteristic: the device is ignored from now on.
GiveUp(m) ==
    /\ Assign(m, [connection[m] EXCEPT !.didError = TRUE])
    /\ DisconnectPeripheral(m)
    /\ UNCHANGED wire /\ UNCHANGED response

DidDiscoverServices(m) ==
    /\ expected[m] = "services"
    /\ \/ /\ \/ m \in Fragile
             \/ "connecting" \notin {connection[m].initial, connection[m].write}
          /\ GiveUp(m)
       \/ /\ connection[m].initial = "connecting"
          /\ expected' = [expected EXCEPT ![m] = "initial"]
          /\ UNCHANGED <<connection, link, wire, response>>
       \/ /\ connection[m].write = "connecting"
          /\ expected' = [expected EXCEPT ![m] = "ip"]
          /\ UNCHANGED <<connection, link, wire, response>>
    /\ UNCHANGED <<scanning, retries, attempt, deviceVars>>

DidDiscoverInitialCharacteristic(m) ==
    /\ expected[m] = "initial"
    /\ \/ (m \in Fragile \/ connection[m].initial # "connecting") /\ GiveUp(m)
       \/ /\ connection[m].initial = "connecting"
          /\ Assign(m, [connection[m] EXCEPT !.initial = "connected"])
          /\ expected' = [expected EXCEPT ![m] = "data"]
          /\ UNCHANGED <<link, wire, response>>
    /\ UNCHANGED <<scanning, retries, attempt, deviceVars>>

\* didUpdateValue: an error only disconnects; _receivedInitialData: ignores data
\* when the record is not the one that asked, and the device when its data has
\* no identifier.
ReceivedInitialData(m) ==
    /\ expected[m] = "data"
    /\ LET c == connection[m] IN
         \/ /\ m \in Fragile
            /\ DisconnectPeripheral(m)
            /\ UNCHANGED connection
         \/ /\ c.initial # "connected"
            /\ expected' = [expected EXCEPT ![m] = "nothing"]
            /\ UNCHANGED <<connection, link>>
         \/ /\ c.initial = "connected"
            /\ \/ Assign(m, [c EXCEPT !.initial = "received"])
               \/ /\ m \in Fragile
                  /\ Assign(m, [c EXCEPT !.initial = "missing", !.didError = TRUE])
            /\ DisconnectPeripheral(m)
    /\ UNCHANGED <<scanning, retries, attempt, wire, response, deviceVars>>

\* Broken variant: a write that is under way does not stop another one.
SendNetworkAddressesAgain(m) ==
    /\ connection[m].initial = "received"
    /\ attempt[m] < MaxAttempts
    /\ attempt' = [attempt EXCEPT ![m] = @ + 1]
    /\ ConnectPeripheral(m, [connection[m] EXCEPT !.write = "connecting"])
    /\ UNCHANGED <<retries, expected, deviceVars>>

\* sendNetworkAddressesToDevice: once the device was reported as detected.  It
\* returns without a word when a write is under way.
SendNetworkAddresses(m) ==
    /\ connection[m].initial = "received"
    /\ connection[m].write = "disconnected"
    /\ attempt[m] < MaxAttempts
    /\ attempt' = [attempt EXCEPT ![m] = @ + 1]
    /\ ConnectPeripheral(m, [connection[m] EXCEPT !.write = "connecting"])
    /\ UNCHANGED <<retries, expected, deviceVars>>

\* The IP characteristic was discovered: _sendIPsToPeripheral: writes all the
\* chunks and the EOM at once, if there still is a record.
DidDiscoverIPCharacteristic(m) ==
    /\ expected[m] = "ip"
    /\ \/ m \in Fragile /\ GiveUp(m)
       \/ /\ Assign(m, [connection[m] EXCEPT !.write = "sent"])
          /\ expected' = [expected EXCEPT ![m] = "nothing"]
          /\ IF connection[m].listed
               THEN /\ wire' = [wire EXCEPT ![m] =
                          <<Chunk(attempt[m], "head"), Chunk(attempt[m], "tail"),
                            EOM(attempt[m])>>]
                    /\ response' = [response EXCEPT ![m] = "due"]
               ELSE UNCHANGED <<wire, response>>
          /\ UNCHANGED link
    /\ UNCHANGED <<scanning, retries, attempt, deviceVars>>

\* _didReceiveIPWriteResponse: only if this record is waiting for one.  What
\* becomes of the result, didSendNetworkAddresses:success:, is in
\* RemoteLifecycle.
DidReceiveIPWriteResponse(m) ==
    /\ response[m] \in {"success", "refused", "error"}
    /\ response' = [response EXCEPT ![m] = "none"]
    /\ \/ /\ connection[m].write = "sent"
          /\ Assign(m, [connection[m] EXCEPT !.write = "disconnected"])
          /\ DisconnectPeripheral(m)
       \/ /\ connection[m].write # "sent"
          /\ UNCHANGED <<connection, link, expected>>
    /\ UNCHANGED <<scanning, retries, attempt, wire, deviceVars>>

-----------------------------------------------------------------------------
(* The device.                                                             *)

\* The radio drops a chunk that was written without response.
LoseChunk(m) ==
    /\ m \in Fragile
    /\ wire[m] # <<>>
    /\ Head(wire[m]).part # "EOM"
    /\ wire' = [wire EXCEPT ![m] = Tail(@)]
    /\ UNCHANGED <<centralVars, link, expected, response, deviceVars>>

ReceiveChunk(m) ==
    /\ checking = NobodyChecked          \* the device's queue is serial
    /\ wire[m] # <<>>
    /\ Head(wire[m]).part # "EOM"
    /\ wire' = [wire EXCEPT ![m] = Tail(@)]
    /\ received' = [received EXCEPT ![m] = Append(@, Head(wire[m]))]
    /\ UNCHANGED <<centralVars, link, expected, response, checking>>

\* The chunks parse if they are a first half and a second half, of the same
\* attempt or not.
Parses(chunks) ==
    /\ Len(chunks) = 2
    /\ chunks[1].part = "head" /\ chunks[2].part = "tail"

\* Broken variant: addresses the device cannot use are not answered.
ReceiveEOMUnanswered(m, canBecomeRemote) ==
    /\ checking = NobodyChecked
    /\ wire[m] # <<>>
    /\ Head(wire[m]).part = "EOM"
    /\ wire' = [wire EXCEPT ![m] = Tail(@)]
    /\ received' = [received EXCEPT ![m] = <<>>]
    /\ IF canBecomeRemote /\ Parses(received[m])
         THEN checking' = [master |-> m, attempt |-> Head(wire[m]).attempt]
         ELSE UNCHANGED checking
    /\ UNCHANGED <<centralVars, link, expected, response>>

\* The EOM: the message is taken out of centralReceives and _receivedIPData
\* starts to check it, or refuses it because it does not parse or because the
\* device cannot become a remote.
ReceiveEOM(m, canBecomeRemote) ==
    /\ checking = NobodyChecked
    /\ wire[m] # <<>>
    /\ Head(wire[m]).part = "EOM"
    /\ wire' = [wire EXCEPT ![m] = Tail(@)]
    /\ received' = [received EXCEPT ![m] = <<>>]
    /\ \/ /\ canBecomeRemote /\ Parses(received[m])
          /\ checking' = [master |-> m, attempt |-> Head(wire[m]).attempt]
          /\ UNCHANGED response
       \/ /\ ~(canBecomeRemote /\ Parses(received[m]))
          /\ response' = [response EXCEPT ![m] = "refused"]
          /\ UNCHANGED checking
    /\ UNCHANGED <<centralVars, link, expected>>

\* respondToRequest: on the link the request came over; if that link is gone,
\* so is the answer.
Respond(result) ==
    /\ checking # NobodyChecked
    /\ checking' = NobodyChecked
    /\ LET m == checking.master IN
         response' = [response EXCEPT ![m] =
                        IF @ = "due" /\ attempt[m] = checking.attempt
                          THEN result ELSE @]
    /\ UNCHANGED <<centralVars, link, expected, wire, received>>

\* No address leads to a web server.
RefuseAddresses == Respond("refused")

\* One does, and didReceiveDeviceURL: was called.
AcceptAddresses == Respond("success")

-----------------------------------------------------------------------------
CentralStep(m) ==
    \/ DidDiscover(m)
    \/ ResumeScanning(m)
    \/ DidConnect(m)
    \/ DidFailToConnect(m)
    \/ Retry(m)
    \/ LinkDown(m)
    \/ DeviceLost(m)
    \/ DidDiscoverServices(m)
    \/ DidDiscoverInitialCharacteristic(m)
    \/ ReceivedInitialData(m)
    \/ SendNetworkAddresses(m)
    \/ DidDiscoverIPCharacteristic(m)
    \/ DidReceiveIPWriteResponse(m)
    \/ LoseChunk(m)
    \/ ReceiveChunk(m)

AddressNext ==
    \/ \E m \in Masters :
         CentralStep(m) \/ \E can \in BOOLEAN : ReceiveEOM(m, can)
    \/ RefuseAddresses
    \/ AcceptAddresses

AddressSpec == AddressInit /\ [][AddressNext]_addressVars

\* A link that is up carries what was written, and the device's queue handles
\* it; the HTTP request has a timeout (URL_CHECK_TIMEOUT).
AddressFairness ==
    /\ \A m \in Masters :
         /\ WF_addressVars(ReceiveChunk(m))
         /\ WF_addressVars(\E can \in BOOLEAN : ReceiveEOM(m, can))
    /\ WF_addressVars(RefuseAddresses \/ AcceptAddresses)

FairAddressSpec == AddressSpec /\ AddressFairness

-----------------------------------------------------------------------------
(* Properties.                                                             *)

\* A device is connected at most once more often than MAX_CONNECTION_RETRIES
\* in a row, even when delayed connects of a lost record hit its successor.
TriesBounded ==
    \A m \in Masters : connection[m].tries <= MaxRetries + 1

\* While addresses or their answer are under way, they are those of the latest
\* attempt, and the record that sent them still waits for the answer unless
\* the device was lost since.
OneWriteAtATime ==
    \A m \in Masters :
        wire[m] # <<>> \/ response[m] \in {"due", "success", "refused"} =>
            /\ link[m] \in {"up", "closing"}
            /\ \A i \in 1..Len(wire[m]) : wire[m][i].attempt = attempt[m]
            /\ connection[m].write = "sent" \/ connection[m].initial # "received"

\* Addresses that were written are answered, or the link breaks first: neither
\* garbled chunks nor another master's addresses leave a master without one.
EveryWriteIsAnswered ==
    \A m \in Masters : response[m] = "due" ~> response[m] # "due"

=============================================================================
