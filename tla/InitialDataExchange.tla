------------------------ MODULE InitialDataExchange ------------------------
(***************************************************************************)
(* What CWBluetoothManager relies on when it asks a newly found device for *)
(* its initial data: the record of the device goes from connecting to      *)
(* connected and the answer is handed over whole.  Damaged data, which     *)
(* makes the device one without an identifier, is excused only for a       *)
(* device whose link broke in the middle of an earlier exchange.           *)
(***************************************************************************)
CONSTANT Devices

VARIABLES
    state,     \* initialDataState of the record of a device, "none" without one
    disturbed  \* devices whose link broke in the middle of an exchange

vars == <<state, disturbed>>

Init ==
    /\ state = [d \in Devices |-> "none"]
    /\ disturbed = {}

Advance(d, from, to) ==
    /\ state[d] = from
    /\ state' = [state EXCEPT ![d] = to]
    /\ UNCHANGED disturbed

Discover(d) == Advance(d, "none", "connecting")
Subscribe(d) == Advance(d, "connecting", "connected")
HandOver(d) == Advance(d, "connected", "received")
Reject(d) == d \in disturbed /\ Advance(d, "connected", "missing")
Lose(d) == state[d] # "none" /\ Advance(d, state[d], "none")

Disturb(d) ==
    /\ disturbed' = disturbed \cup {d}
    /\ UNCHANGED state

Next ==
    \E d \in Devices :
        Discover(d) \/ Subscribe(d) \/ HandOver(d) \/ Reject(d) \/ Lose(d)
                    \/ Disturb(d)

Spec == Init /\ [][Next]_vars
=============================================================================
