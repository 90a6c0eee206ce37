--------------------------- MODULE AddressWriteProofs ---------------------------
(***************************************************************************)
(* Proofs about AddressWrite, for any set of masters, any of them with an  *)
(* unreliable radio, and any bounds: the invariants that its run checks.   *)
(*                                                                         *)
(* What the inductive invariant says of a master depends on that master's  *)
(* record, link and transfer and on whose addresses the device checks, so  *)
(* every step is proved for the master it is a step of; lemma Elsewhere    *)
(* covers the others.                                                      *)
(***************************************************************************)
EXTENDS AddressWrite, SequenceTheorems, TLAPS

-----------------------------------------------------------------------------
(* The inductive invariant.                                                *)

\* Addresses or the answer to them are under way.
UnderWay(m) == wire[m] # <<>> \/ response[m] \in {"due", "success", "refused"}

\* The device is busy with the addresses of the latest attempt.
ChecksLatest(m) == checking = [master |-> m, attempt |-> attempt[m]]

\* What may be left on the wire of what attempt a wrote.
Rests(a) ==
    {<<>>, <<EOM(a)>>, <<Chunk(a, "tail"), EOM(a)>>,
     <<Chunk(a, "head"), Chunk(a, "tail"), EOM(a)>>}

\* Nothing is kept of a record that is not there.
NilIsZero(m) == ~connection[m].listed => connection[m] = Unlisted

\* A connect is only tried when one more is allowed.
TriesLeft(m) ==
    /\ connection[m].tries <= MaxRetries + 1
    /\ link[m] # "connecting" =>
         connection[m].tries <= MaxRetries \/ connection[m].didError

\* Callbacks are owed on a link that is up and carries no addresses.
CallbacksFirst(m) ==
    expected[m] # "nothing" => link[m] = "up" /\ ~UnderWay(m)

\* What is written is what is left of the latest attempt, and is not answered
\* before all of it has arrived.
WritesInOrder(m) ==
    /\ wire[m] \in Rests(attempt[m])
    /\ wire[m] # <<>> => response[m] = "due"

\* Addresses under way are on a link, and the record that sent them, or a
\* later one of the same device, is not about to send others.
NoSecondWrite(m) ==
    UnderWay(m) =>
        /\ link[m] \in {"up", "closing"}
        /\ connection[m].write # "connecting"
        /\ connection[m].write = "sent" \/ connection[m].initial # "received"

\* The device checks no attempt that is still to come, and an attempt that it
\* checks is not written again.
ChecksWhatWasWritten(m) ==
    /\ checking.master = m => checking.attempt <= attempt[m]
    /\ ChecksLatest(m) =>
         /\ connection[m].write # "connecting"
         /\ expected[m] # "ip"
         /\ wire[m] = <<>>

Good(m) ==
    /\ NilIsZero(m)
    /\ TriesLeft(m)
    /\ CallbacksFirst(m)
    /\ WritesInOrder(m)
    /\ NoSecondWrite(m)
    /\ ChecksWhatWasWritten(m)

IInv == AddressTypeOK /\ \A m \in Masters : Good(m)

-----------------------------------------------------------------------------
(* Lemmas.                                                                 *)

\* A step changes nothing that the invariant says of m.
Untouched(m) ==
    /\ connection'[m] = connection[m]
    /\ link'[m] = link[m]
    /\ expected'[m] = expected[m]
    /\ attempt'[m] = attempt[m]
    /\ wire'[m] = wire[m]
    /\ response'[m] = response[m]
    /\ checking' = checking \/ checking'.master # m

\* A step leaves all masters but m alone, apart from what it counts of them.
OnlyFor(m) ==
    \A n \in Masters \ {m} : Untouched(n)

\* A step that leaves the variables of a device alone keeps what holds of
\* it.
LEMMA UntouchedStaysGood ==
    ASSUME NEW m \in Masters, Good(m), Untouched(m)
    PROVE  Good(m)'
<1> USE DEF Untouched
<1>1. UnderWay(m)' <=> UnderWay(m)
  BY DEF UnderWay
<1>2. NilIsZero(m)' /\ TriesLeft(m)' /\ WritesInOrder(m)'
  BY DEF Good, NilIsZero, TriesLeft, WritesInOrder
<1>3. CallbacksFirst(m)' /\ NoSecondWrite(m)'
  BY <1>1 DEF Good, CallbacksFirst, NoSecondWrite
<1>4. ChecksWhatWasWritten(m)'
  <2>1. CASE checking' = checking
    BY <2>1 DEF Good, ChecksWhatWasWritten, ChecksLatest
  <2>2. CASE checking'.master # m
    BY <2>2 DEF ChecksWhatWasWritten, ChecksLatest
  <2> QED
    BY <2>1, <2>2
<1> QED
  BY <1>2, <1>3, <1>4 DEF Good

\* A step of m needs to be looked at for m only.
LEMMA Elsewhere ==
    ASSUME IInv, NEW m \in Masters, AddressTypeOK', Good(m)', OnlyFor(m)
    PROVE  IInv'
<1>1. ASSUME NEW n \in Masters \ {m}
      PROVE  Good(n)'
  BY <1>1, UntouchedStaysGood DEF IInv, OnlyFor
<1> QED
  BY <1>1 DEF IInv

\* The values of the fields of a record.
Records ==
    [listed : BOOLEAN,
     initial : {"missing", "connecting", "connected", "received"},
     write : {"disconnected", "connecting", "sent"},
     didError : BOOLEAN, tries : Nat]

\* A record and what may be assigned to its fields.
LEMMA RecordFields ==
    ASSUME NEW c \in Records
    PROVE  /\ c.listed \in BOOLEAN /\ c.didError \in BOOLEAN /\ c.tries \in Nat
           /\ c.initial \in {"missing", "connecting", "connected", "received"}
           /\ c.write \in {"disconnected", "connecting", "sent"}
           /\ [c EXCEPT !.tries = @ + 1] \in Records
           /\ [c EXCEPT !.tries = 0] \in Records
           /\ [c EXCEPT !.didError = TRUE] \in Records
           /\ \A w \in {"disconnected", "connecting", "sent"} :
                [c EXCEPT !.write = w] \in Records
           /\ \A i \in {"missing", "connecting", "connected", "received"} :
                [c EXCEPT !.initial = i] \in Records
<1>1. /\ c.listed \in BOOLEAN /\ c.didError \in BOOLEAN /\ c.tries \in Nat
      /\ c.initial \in {"missing", "connecting", "connected", "received"}
      /\ c.write \in {"disconnected", "connecting", "sent"}
  BY DEF Records
<1>2. /\ [c EXCEPT !.tries = @ + 1] \in Records
      /\ [c EXCEPT !.tries = 0] \in Records
      /\ [c EXCEPT !.didError = TRUE] \in Records
  <2>1. ASSUME NEW n \in Nat
        PROVE  [c EXCEPT !.tries = n] \in Records
    BY DEF Records
  <2>2. c.tries + 1 \in Nat /\ 0 \in Nat
    BY <1>1
  <2>3. [c EXCEPT !.didError = TRUE] \in Records
    BY DEF Records
  <2> QED
    BY <2>1, <2>2, <2>3
<1>3. ASSUME NEW w \in {"disconnected", "connecting", "sent"}
      PROVE  [c EXCEPT !.write = w] \in Records
  BY DEF Records
<1>4. ASSUME NEW i \in {"missing", "connecting", "connected", "received"}
      PROVE  [c EXCEPT !.initial = i] \in Records
  BY DEF Records
<1> QED
  BY <1>1, <1>2, <1>3, <1>4

\* What is taken off the wire leaves a rest, and only the EOM leaves nothing.
LEMMA RestsShrink ==
    ASSUME NEW a \in 0..MaxAttempts, NEW w \in Rests(a), w # <<>>
    PROVE  /\ Tail(w) \in Rests(a)
           /\ Head(w).attempt = a
           /\ Head(w).part # "EOM" => Head(w) \in Chunks
           /\ Head(w).part # "EOM" => Tail(w) # <<>>
           /\ Head(w).part = "EOM" => Tail(w) = <<>>
<1> DEFINE h == Chunk(a, "head")
           t == Chunk(a, "tail")
<1>1. h \in Chunks /\ t \in Chunks
  BY DEF Chunk, Chunks
<1>2. /\ h.attempt = a /\ t.attempt = a /\ EOM(a).attempt = a
      /\ h.part # "EOM" /\ t.part # "EOM" /\ EOM(a).part = "EOM"
  BY DEF EOM, Chunk
<1> HIDE DEF h, t
<1>3. CASE w = <<EOM(a)>>
  BY <1>2, <1>3 DEF Rests
<1>4. CASE w = <<t, EOM(a)>>
  <2>1. Head(w) = t /\ Tail(w) = <<EOM(a)>>
    BY <1>4
  <2>2. <<EOM(a)>> # <<>>
    OBVIOUS
  <2> QED
    BY <1>1, <1>2, <2>1, <2>2 DEF Rests
<1>5. CASE w = <<h, t, EOM(a)>>
  <2>1. Head(w) = h /\ Tail(w) = <<t, EOM(a)>>
    BY <1>5
  <2>2. <<t, EOM(a)>> # <<>>
    OBVIOUS
  <2> QED
    BY <1>1, <1>2, <2>1, <2>2 DEF Rests, t
<1> QED
  BY <1>3, <1>4, <1>5 DEF Rests, h, t

\* What was written is of the latest attempt.
LEMMA RestsTyped ==
    ASSUME NEW a \in 0..MaxAttempts, NEW w \in Rests(a)
    PROVE  /\ w \in Seq(Chunks \cup {EOM(b) : b \in 0..MaxAttempts})
           /\ \A i \in 1..Len(w) : w[i].attempt = a
<1>1. /\ EOM(a) \in {EOM(b) : b \in 0..MaxAttempts}
      /\ Chunk(a, "head") \in Chunks
      /\ Chunk(a, "tail") \in Chunks
  BY DEF Chunk, Chunks
<1>2. /\ Chunk(a, "head").attempt = a /\ Chunk(a, "tail").attempt = a
      /\ EOM(a).attempt = a
  BY DEF EOM, Chunk
<1> DEFINE h == Chunk(a, "head")
           t == Chunk(a, "tail")
           Values == Chunks \cup {EOM(b) : b \in 0..MaxAttempts}
<1>3. h \in Values /\ t \in Values /\ EOM(a) \in Values
  BY <1>1
<1>4. w \in {<<>>, <<EOM(a)>>, <<t, EOM(a)>>, <<h, t, EOM(a)>>}
  BY DEF Rests
<1> HIDE DEF h, t, Values
<1>5. w \in Seq(Values)
  <2>1. <<>> \in Seq(Values) /\ <<EOM(a)>> \in Seq(Values)
    BY <1>3
  <2>2. <<t, EOM(a)>> \in Seq(Values)
    BY <1>3
  <2>3. <<h, t, EOM(a)>> \in Seq(Values)
    BY <1>3
  <2> QED
    BY <1>4, <2>1, <2>2, <2>3
<1>6. \A i \in 1..Len(w) : w[i] \in {h, t, EOM(a)}
  BY <1>4
<1> QED
  BY <1>2, <1>5, <1>6 DEF h, t, Values

\* The facts about one master that the steps need.
LEMMA Typed ==
    ASSUME IInv, NEW m \in Masters
    PROVE  /\ connection[m] \in Records
           /\ link[m] \in {"down", "connecting", "up", "closing"}
           /\ expected[m] \in {"nothing", "services", "initial", "ip", "data"}
           /\ attempt[m] \in 0..MaxAttempts
           /\ response[m] \in {"none", "due", "success", "refused", "error"}
           /\ retries[m] \in 0..MaxTimers
           /\ received[m] \in Seq(Chunks)
           /\ checking.attempt \in 0..MaxAttempts
           /\ Good(m)
BY DEF IInv, AddressTypeOK, Records

-----------------------------------------------------------------------------
(* Every step preserves the inductive invariant.                           *)

\* _connectPeripheral: on a record c that takes the place of the present one.
LEMMA ConnectPeripheralStep ==
    ASSUME IInv, NEW m \in Masters, NEW c \in Records, ConnectPeripheral(m, c),
           UNCHANGED <<expected, deviceVars>>,
           retries' \in [Masters -> 0..MaxTimers],
           attempt' \in [Masters -> 0..MaxAttempts],
           \A n \in Masters \ {m} : attempt'[n] = attempt[n],
           \/ attempt'[m] = attempt[m]
           \/ attempt'[m] = attempt[m] + 1 /\ ~UnderWay(m),
           ~c.listed => c = Unlisted,
           c.tries <= MaxRetries + 1,
           link[m] # "connecting" => c.tries <= MaxRetries \/ c.didError,
           UnderWay(m) => /\ c.write # "connecting"
                          /\ c.write = "sent" \/ c.initial # "received",
           c.write = "connecting" =>
             connection[m].write = "connecting" \/ attempt'[m] = attempt[m] + 1
    PROVE  IInv'
<1> USE DEF deviceVars
<1>1. AddressTypeOK /\ connection[m] \in Records /\ Good(m)
      /\ attempt[m] \in 0..MaxAttempts /\ checking.attempt \in 0..MaxAttempts
  BY Typed DEF IInv
<1>2. c.tries \in Nat /\ c.didError \in BOOLEAN /\ c.listed \in BOOLEAN
      /\ [c EXCEPT !.tries = @ + 1] \in Records
  BY RecordFields
<1>3. CASE /\ c.listed /\ ~c.didError
           /\ link[m] \in {"down", "closing"}
           /\ connection' = [connection EXCEPT ![m] = [c EXCEPT !.tries = @ + 1]]
           /\ scanning' = [scanning EXCEPT ![m] = FALSE]
           /\ link' = [link EXCEPT ![m] = "connecting"]
           /\ wire' = [wire EXCEPT ![m] = <<>>]
           /\ response' = [response EXCEPT ![m] = "none"]
  <2>1. AddressTypeOK'
    <3>1. connection' \in [Masters -> Records]
      BY <1>1, <1>2, <1>3 DEF AddressTypeOK, Records
    <3>2. <<>> \in Seq(Chunks \cup {EOM(a) : a \in 0..MaxAttempts})
      OBVIOUS
    <3>3. wire' \in [Masters -> Seq(Chunks \cup {EOM(a) : a \in 0..MaxAttempts})]
      BY <1>1, <1>3, <3>2 DEF AddressTypeOK
    <3> QED
      BY <1>1, <1>3, <3>1, <3>3 DEF AddressTypeOK, Records
  <2>2. OnlyFor(m)
    BY <1>1, <1>3 DEF OnlyFor, Untouched, AddressTypeOK
  <2>3. /\ connection'[m] = [c EXCEPT !.tries = @ + 1]
        /\ link'[m] = "connecting" /\ wire'[m] = <<>> /\ response'[m] = "none"
        /\ expected'[m] = expected[m]
    BY <1>1, <1>3 DEF AddressTypeOK
  <2>4. /\ connection'[m].listed /\ connection'[m].tries = c.tries + 1
        /\ connection'[m].write = c.write
    BY <2>3, <1>3 DEF Records
  <2>5. ~UnderWay(m)'
    BY <2>3 DEF UnderWay
  <2>6. NilIsZero(m)' /\ TriesLeft(m)'
    <3>1. c.tries <= MaxRetries
      BY <1>3
    <3>2. c.tries + 1 <= MaxRetries + 1
      BY <1>2, <3>1, AddressBounds
    <3> QED
      BY <2>3, <2>4, <3>2 DEF NilIsZero, TriesLeft
  <2>7. CallbacksFirst(m)' /\ WritesInOrder(m)' /\ NoSecondWrite(m)'
    BY <1>1, <1>3, <2>3, <2>5
       DEF Good, CallbacksFirst, WritesInOrder, Rests, NoSecondWrite
  <2>8. ChecksWhatWasWritten(m)'
    BY <1>1, <2>3, <2>4 DEF Good, ChecksWhatWasWritten, ChecksLatest
  <2> QED
    BY <2>1, <2>2, <2>6, <2>7, <2>8, Elsewhere DEF Good
<1>4. CASE /\ connection' = [connection EXCEPT ![m] = c]
           /\ UNCHANGED <<scanning, link, wire, response>>
  <2>1. AddressTypeOK'
    <3>1. connection' \in [Masters -> Records]
      BY <1>1, <1>4 DEF AddressTypeOK, Records
    <3> QED
      BY <1>1, <1>4, <3>1 DEF AddressTypeOK, Records
  <2>2. OnlyFor(m)
    BY <1>1, <1>4 DEF OnlyFor, Untouched, AddressTypeOK
  <2>3. connection'[m] = c
    BY <1>1, <1>4 DEF AddressTypeOK
  <2>4. UnderWay(m)' <=> UnderWay(m)
    BY <1>4 DEF UnderWay
  <2>5. NilIsZero(m)' /\ TriesLeft(m)'
    BY <1>4, <2>3 DEF NilIsZero, TriesLeft
  <2>6. CallbacksFirst(m)' /\ NoSecondWrite(m)'
    BY <1>1, <1>4, <2>3, <2>4 DEF Good, CallbacksFirst, NoSecondWrite
  <2>7. WritesInOrder(m)'
    <3>1. CASE attempt'[m] = attempt[m]
      BY <1>1, <1>4, <3>1 DEF Good, WritesInOrder
    <3>2. CASE ~UnderWay(m)
      BY <1>1, <1>4, <3>2 DEF UnderWay, WritesInOrder, Rests
    <3> QED
      BY <3>1, <3>2
  <2>8. ChecksWhatWasWritten(m)'
    BY <1>1, <1>4, <2>3 DEF Good, ChecksWhatWasWritten, ChecksLatest
  <2> QED
    BY <2>1, <2>2, <2>5, <2>6, <2>7, <2>8, Elsewhere DEF Good
<1> QED
  BY <1>3, <1>4 DEF ConnectPeripheral

\* A step that changes the record, the link and what is owed on it, and nothing
\* of what is under way.
LEMMA RecordStep ==
    ASSUME IInv, NEW m \in Masters, OnlyFor(m),
           connection' \in [Masters -> Records],
           link' \in [Masters -> {"down", "connecting", "up", "closing"}],
           expected' \in [Masters -> {"nothing", "services", "initial", "ip", "data"}],
           scanning' \in [Masters -> BOOLEAN],
           retries' \in [Masters -> 0..MaxTimers],
           UNCHANGED <<attempt, wire, response, deviceVars>>,
           ~connection'[m].listed => connection'[m] = Unlisted,
           TriesLeft(m)',
           expected'[m] # "nothing" => link'[m] = "up" /\ ~UnderWay(m),
           UnderWay(m) =>
             /\ link'[m] \in {"up", "closing"}
             /\ connection'[m].write # "connecting"
             /\ connection'[m].write = "sent" \/ connection'[m].initial # "received",
           connection'[m].write = "connecting" => connection[m].write = "connecting",
           expected'[m] = "ip" =>
             expected[m] = "ip" \/ connection[m].write = "connecting"
    PROVE  IInv'
<1> USE DEF deviceVars
<1>1. AddressTypeOK /\ Good(m)
  BY DEF IInv
<1>2. AddressTypeOK'
  BY <1>1 DEF AddressTypeOK, Records
<1>3. UnderWay(m)' <=> UnderWay(m)
  BY DEF UnderWay
<1>4. NilIsZero(m)' /\ CallbacksFirst(m)' /\ NoSecondWrite(m)'
  BY <1>3 DEF NilIsZero, CallbacksFirst, NoSecondWrite
<1>5. WritesInOrder(m)'
  BY <1>1 DEF Good, WritesInOrder
<1>6. ChecksWhatWasWritten(m)'
  BY <1>1 DEF Good, ChecksWhatWasWritten, ChecksLatest
<1> QED
  BY <1>2, <1>4, <1>5, <1>6, Elsewhere DEF Good

\* Assigning to the fields of a record that may not be there.
LEMMA AssignTyped ==
    ASSUME IInv, NEW m \in Masters, NEW c \in Records, Assign(m, c)
    PROVE  /\ connection' \in [Masters -> Records]
           /\ connection'[m] = IF connection[m].listed THEN c ELSE connection[m]
           /\ \A n \in Masters \ {m} : connection'[n] = connection[n]
BY Typed DEF IInv, AddressTypeOK, Records, Assign

\* Disconnecting leaves nothing owed on a link that is not up any more.
LEMMA DisconnectTyped ==
    ASSUME IInv, NEW m \in Masters, DisconnectPeripheral(m)
    PROVE  /\ link' \in [Masters -> {"down", "connecting", "up", "closing"}]
           /\ expected' \in [Masters -> {"nothing", "services", "initial", "ip", "data"}]
           /\ link'[m] = IF link[m] = "up" THEN "closing" ELSE link[m]
           /\ expected'[m] = "nothing"
           /\ \A n \in Masters \ {m} : link'[n] = link[n] /\ expected'[n] = expected[n]
BY DEF IInv, AddressTypeOK, DisconnectPeripheral

\* A device that is discovered gets a record, and a link is asked for.
LEMMA DidDiscoverStep ==
    ASSUME IInv, NEW m \in Masters, DidDiscover(m)
    PROVE  IInv'
<1> DEFINE c == [Unlisted EXCEPT !.listed = TRUE, !.initial = "connecting"]
<1>1. /\ c \in Records /\ c.listed /\ c.tries = 0
      /\ c.write = "disconnected" /\ c.initial = "connecting"
  BY DEF Records, Unlisted
<1>2. ConnectPeripheral(m, c) /\ UNCHANGED <<expected, retries, attempt, deviceVars>>
  BY DEF DidDiscover
<1>3. c.tries <= MaxRetries /\ c.tries <= MaxRetries + 1
  BY <1>1, AddressBounds
<1>4. AddressTypeOK
  BY DEF IInv
<1> HIDE DEF c
<1> QED
  BY <1>1, <1>2, <1>3, <1>4, ConnectPeripheralStep DEF AddressTypeOK

\* A delayed connect asks for a link whatever the record says.
LEMMA RetryStep ==
    ASSUME IInv, NEW m \in Masters, Retry(m)
    PROVE  IInv'
<1>1. /\ connection[m] \in Records /\ retries[m] \in 0..MaxTimers /\ Good(m)
      /\ AddressTypeOK
  BY Typed DEF IInv
<1>2. retries' \in [Masters -> 0..MaxTimers]
  <2>1. retries[m] - 1 \in 0..MaxTimers
    BY <1>1, AddressBounds DEF Retry
  <2> QED
    BY <1>1, <2>1 DEF Retry, AddressTypeOK
<1>3. /\ ~connection[m].listed => connection[m] = Unlisted
      /\ connection[m].tries <= MaxRetries + 1
      /\ link[m] # "connecting" =>
           connection[m].tries <= MaxRetries \/ connection[m].didError
      /\ UnderWay(m) =>
           /\ connection[m].write # "connecting"
           /\ connection[m].write = "sent" \/ connection[m].initial # "received"
  BY <1>1 DEF Good, NilIsZero, TriesLeft, NoSecondWrite
<1> QED
  BY <1>1, <1>2, <1>3, ConnectPeripheralStep DEF Retry, AddressTypeOK

\* No addresses are under way when others are to be sent.
LEMMA SendNetworkAddressesStep ==
    ASSUME IInv, NEW m \in Masters, SendNetworkAddresses(m)
    PROVE  IInv'
<1> DEFINE c == [connection[m] EXCEPT !.write = "connecting"]
<1>1. /\ connection[m] \in Records /\ attempt[m] \in 0..MaxAttempts /\ Good(m)
      /\ AddressTypeOK
  BY Typed DEF IInv
<1>2. ~UnderWay(m)
  BY <1>1 DEF Good, NoSecondWrite, SendNetworkAddresses
<1>3. connection[m].listed
  BY <1>1 DEF Good, NilIsZero, Unlisted, SendNetworkAddresses, Records
<1>4. /\ c \in Records /\ c.tries = connection[m].tries
      /\ c.listed /\ c.didError = connection[m].didError
  BY <1>1, <1>3 DEF Records
<1>5. /\ attempt' \in [Masters -> 0..MaxAttempts]
      /\ attempt'[m] = attempt[m] + 1
      /\ \A n \in Masters \ {m} : attempt'[n] = attempt[n]
  <2>1. attempt[m] + 1 \in 0..MaxAttempts
    BY <1>1, AddressBounds DEF SendNetworkAddresses
  <2> QED
    BY <1>1, <2>1 DEF SendNetworkAddresses, AddressTypeOK
<1>6. /\ c.tries <= MaxRetries + 1
      /\ link[m] # "connecting" => c.tries <= MaxRetries \/ c.didError
  BY <1>1, <1>4 DEF Good, TriesLeft
<1>7. ConnectPeripheral(m, c) /\ UNCHANGED <<retries, expected, deviceVars>>
  BY DEF SendNetworkAddresses
<1>8. retries' \in [Masters -> 0..MaxTimers]
  BY <1>1, <1>7 DEF AddressTypeOK
<1> HIDE DEF c
<1> QED
  BY <1>2, <1>4, <1>5, <1>6, <1>7, <1>8, ConnectPeripheralStep

\* Scanning again changes nothing of a write.
LEMMA ResumeScanningStep ==
    ASSUME IInv, NEW m \in Masters, ResumeScanning(m)
    PROVE  IInv'
<1> USE DEF linkVars, deviceVars
<1>1. AddressTypeOK'
  BY DEF IInv, AddressTypeOK, ResumeScanning
<1>2. \A n \in Masters : Untouched(n)
  BY DEF ResumeScanning, Untouched
<1> QED
  BY <1>1, <1>2, UntouchedStaysGood DEF IInv

\* A link that is made resets the tries.
LEMMA DidConnectStep ==
    ASSUME IInv, NEW m \in Masters, DidConnect(m)
    PROVE  IInv'
<1> USE DEF deviceVars
<1>1. AddressTypeOK /\ connection[m] \in Records /\ Good(m)
  BY Typed DEF IInv
<1>2. TriesLeft(m) /\ NilIsZero(m) /\ CallbacksFirst(m) /\ NoSecondWrite(m)
  BY <1>1 DEF Good
<1> DEFINE c == [connection[m] EXCEPT !.tries = 0]
<1>3. /\ c \in Records /\ c.tries = 0 /\ c.write = connection[m].write
      /\ c.listed = connection[m].listed /\ c.initial = connection[m].initial
  BY <1>1 DEF Records
<1>4. /\ connection' \in [Masters -> Records]
      /\ connection'[m] = IF connection[m].listed THEN c ELSE connection[m]
      /\ \A n \in Masters \ {m} : connection'[n] = connection[n]
  BY <1>3, AssignTyped DEF DidConnect
<1> HIDE DEF c
<1>5. OnlyFor(m)
  BY <1>1, <1>4 DEF DidConnect, OnlyFor, Untouched, AddressTypeOK
<1>6. link[m] = "connecting" /\ link'[m] = "up" /\ expected'[m] = "services"
  BY <1>1 DEF DidConnect, AddressTypeOK
<1>7. ~UnderWay(m)
  BY <1>2, <1>6 DEF NoSecondWrite
<1>8. connection'[m].tries = 0
  BY <1>2, <1>3, <1>4 DEF NilIsZero, Unlisted
<1>9. TriesLeft(m)' /\ (~connection'[m].listed => connection'[m] = Unlisted)
  BY <1>2, <1>3, <1>4, <1>8, AddressBounds DEF TriesLeft, NilIsZero
<1>10. connection'[m].write = connection[m].write
  BY <1>3, <1>4
<1>11. /\ link' \in [Masters -> {"down", "connecting", "up", "closing"}]
       /\ expected' \in [Masters -> {"nothing", "services", "initial", "ip", "data"}]
       /\ scanning' \in [Masters -> BOOLEAN]
       /\ retries' \in [Masters -> 0..MaxTimers]
       /\ UNCHANGED <<attempt, wire, response, deviceVars>>
  BY <1>1 DEF DidConnect, AddressTypeOK
<1> QED
  BY <1>4, <1>5, <1>6, <1>7, <1>9, <1>10, <1>11, RecordStep

\* A link that fails arms another delayed connect, or gives the device up.
LEMMA DidFailToConnectStep ==
    ASSUME IInv, NEW m \in Masters, DidFailToConnect(m)
    PROVE  IInv'
<1> USE DEF deviceVars
<1>1. AddressTypeOK /\ connection[m] \in Records /\ Good(m)
  BY Typed DEF IInv
<1>2. TriesLeft(m) /\ NilIsZero(m) /\ CallbacksFirst(m) /\ NoSecondWrite(m)
  BY <1>1 DEF Good
<1> DEFINE c == [connection[m] EXCEPT !.didError = TRUE]
<1>3. /\ c \in Records /\ c.tries = connection[m].tries /\ c.didError
      /\ c.write = connection[m].write
      /\ c.listed = connection[m].listed /\ c.initial = connection[m].initial
  BY <1>1 DEF Records
<1>4. /\ link[m] = "connecting" /\ link'[m] = "down"
      /\ UNCHANGED <<attempt, expected, wire, response, deviceVars>>
      /\ link' \in [Masters -> {"down", "connecting", "up", "closing"}]
  BY <1>1 DEF DidFailToConnect, AddressTypeOK
<1>5. ~UnderWay(m) /\ expected[m] = "nothing"
  BY <1>2, <1>4 DEF NoSecondWrite, CallbacksFirst
<1>6. CASE /\ ~connection[m].listed \/ connection[m].tries <= MaxRetries
           /\ UNCHANGED connection
           /\ \/ UNCHANGED <<scanning, retries>>
              \/ /\ retries[m] < MaxTimers
                 /\ retries' = [retries EXCEPT ![m] = @ + 1]
                 /\ scanning' = [scanning EXCEPT ![m] = TRUE]
  <2>1. TriesLeft(m)'
    BY <1>2, <1>4, <1>6, AddressBounds DEF TriesLeft, NilIsZero, Unlisted
  <2>2. retries' \in [Masters -> 0..MaxTimers] /\ scanning' \in [Masters -> BOOLEAN]
    <3>1. retries[m] < MaxTimers => retries[m] + 1 \in 0..MaxTimers
      BY Typed, AddressBounds
    <3>2. CASE UNCHANGED <<scanning, retries>>
      BY <1>1, <3>2 DEF AddressTypeOK
    <3>3. CASE /\ retries[m] < MaxTimers
               /\ retries' = [retries EXCEPT ![m] = @ + 1]
               /\ scanning' = [scanning EXCEPT ![m] = TRUE]
      <4>1. retries[m] + 1 \in 0..MaxTimers
        BY <3>1, <3>3
      <4> QED
        BY <1>1, <3>3, <4>1 DEF AddressTypeOK
    <3> QED
      BY <1>6, <3>2, <3>3
  <2>3. OnlyFor(m)
    BY <1>1, <1>4, <1>6 DEF DidFailToConnect, OnlyFor, Untouched, AddressTypeOK
  <2>4. /\ connection' \in [Masters -> Records]
        /\ expected' \in [Masters -> {"nothing", "services", "initial", "ip", "data"}]
    BY <1>1, <1>4, <1>6 DEF AddressTypeOK, Records
  <2> QED
    BY <1>2, <1>4, <1>5, <1>6, <2>1, <2>2, <2>3, <2>4, RecordStep DEF NilIsZero
<1>7. CASE /\ connection[m].listed /\ Assign(m, c)
           /\ scanning' = [scanning EXCEPT ![m] = TRUE]
           /\ UNCHANGED retries
  <2>1. /\ connection' \in [Masters -> Records]
        /\ connection'[m] = c
        /\ \A n \in Masters \ {m} : connection'[n] = connection[n]
    BY <1>3, <1>7, AssignTyped
  <2> HIDE DEF c
  <2>2. TriesLeft(m)'
    BY <1>2, <1>3, <2>1 DEF TriesLeft
  <2>3. retries' \in [Masters -> 0..MaxTimers] /\ scanning' \in [Masters -> BOOLEAN]
    BY <1>1, <1>7 DEF AddressTypeOK
  <2>4. OnlyFor(m)
    BY <1>1, <1>4, <2>1 DEF DidFailToConnect, OnlyFor, Untouched, AddressTypeOK
  <2>5. expected' \in [Masters -> {"nothing", "services", "initial", "ip", "data"}]
    BY <1>1, <1>4 DEF AddressTypeOK
  <2> QED
    BY <1>3, <1>4, <1>5, <1>7, <2>1, <2>2, <2>3, <2>4, <2>5, RecordStep
<1> QED
  BY <1>6, <1>7 DEF DidFailToConnect

\* A device that is lost loses its record; its link stays.
LEMMA DeviceLostStep ==
    ASSUME IInv, NEW m \in Masters, DeviceLost(m)
    PROVE  IInv'
<1> USE DEF deviceVars, linkVars
<1>1. AddressTypeOK /\ connection[m] \in Records /\ Good(m)
  BY Typed DEF IInv
<1>2. TriesLeft(m) /\ NilIsZero(m) /\ CallbacksFirst(m) /\ NoSecondWrite(m)
  BY <1>1 DEF Good
<1>3. /\ Unlisted \in Records /\ Unlisted.tries = 0 /\ Unlisted.write = "disconnected"
      /\ Unlisted.initial = "missing"
  BY DEF Unlisted, Records
<1>4. /\ connection' \in [Masters -> Records]
      /\ connection'[m] = Unlisted
      /\ \A n \in Masters \ {m} : connection'[n] = connection[n]
      /\ UNCHANGED <<scanning, retries, attempt, linkVars, deviceVars>>
  BY <1>1, <1>3 DEF DeviceLost, AddressTypeOK, Records
<1>5. OnlyFor(m)
  BY <1>4 DEF OnlyFor, Untouched
<1>6. TriesLeft(m)'
  BY <1>3, <1>4, AddressBounds DEF TriesLeft
<1>7. /\ link' \in [Masters -> {"down", "connecting", "up", "closing"}]
      /\ expected' \in [Masters -> {"nothing", "services", "initial", "ip", "data"}]
      /\ scanning' \in [Masters -> BOOLEAN]
      /\ retries' \in [Masters -> 0..MaxTimers]
  BY <1>1, <1>4 DEF AddressTypeOK
<1>8. /\ expected'[m] # "nothing" => link'[m] = "up" /\ ~UnderWay(m)
      /\ UnderWay(m) => link'[m] \in {"up", "closing"}
  BY <1>2, <1>4 DEF CallbacksFirst, NoSecondWrite
<1> QED
  BY <1>3, <1>4, <1>5, <1>6, <1>7, <1>8, RecordStep

\* Ignoring a device that did not deliver: its record stays, with an error.
LEMMA GiveUpStep ==
    ASSUME IInv, NEW m \in Masters, GiveUp(m), expected[m] # "nothing",
           UNCHANGED <<scanning, retries, attempt, deviceVars>>
    PROVE  IInv'
<1> USE DEF deviceVars
<1>1. AddressTypeOK /\ connection[m] \in Records /\ Good(m)
  BY Typed DEF IInv
<1>2. TriesLeft(m) /\ NilIsZero(m) /\ CallbacksFirst(m) /\ NoSecondWrite(m)
  BY <1>1 DEF Good
<1> DEFINE c == [connection[m] EXCEPT !.didError = TRUE]
<1>3. /\ c \in Records /\ c.tries = connection[m].tries /\ c.didError
      /\ c.write = connection[m].write /\ c.listed = connection[m].listed
  BY <1>1 DEF Records
<1>4. /\ connection' \in [Masters -> Records]
      /\ connection'[m] = IF connection[m].listed THEN c ELSE connection[m]
      /\ \A n \in Masters \ {m} : connection'[n] = connection[n]
  BY <1>3, AssignTyped DEF GiveUp
<1> HIDE DEF c
<1>5. /\ link' \in [Masters -> {"down", "connecting", "up", "closing"}]
      /\ expected' \in [Masters -> {"nothing", "services", "initial", "ip", "data"}]
      /\ expected'[m] = "nothing"
      /\ \A n \in Masters \ {m} : link'[n] = link[n] /\ expected'[n] = expected[n]
  BY DisconnectTyped DEF GiveUp
<1>6. ~UnderWay(m)
  BY <1>2 DEF CallbacksFirst
<1>7. TriesLeft(m)' /\ (~connection'[m].listed => connection'[m] = Unlisted)
  BY <1>2, <1>3, <1>4, AddressBounds DEF TriesLeft, NilIsZero, Unlisted
<1>8. connection'[m].write = connection[m].write
  BY <1>3, <1>4
<1>9. OnlyFor(m)
  BY <1>4, <1>5 DEF OnlyFor, Untouched, GiveUp
<1>10. /\ scanning' \in [Masters -> BOOLEAN]
       /\ retries' \in [Masters -> 0..MaxTimers]
       /\ UNCHANGED <<attempt, wire, response, deviceVars>>
  BY <1>1 DEF AddressTypeOK, GiveUp
<1> QED
  BY <1>4, <1>5, <1>6, <1>7, <1>8, <1>9, <1>10, RecordStep

\* Going on to the next callback e of a discovery.
LEMMA GoOnStep ==
    ASSUME IInv, NEW m \in Masters, expected[m] # "nothing",
           NEW e \in {"nothing", "services", "initial", "ip", "data"},
           expected' = [expected EXCEPT ![m] = e],
           e = "ip" => connection[m].write = "connecting",
           NEW c \in Records, Assign(m, c), c.tries = connection[m].tries,
           c.listed = connection[m].listed, c.write = connection[m].write,
           c.didError = connection[m].didError,
           UNCHANGED <<scanning, retries, attempt, link, wire, response, deviceVars>>
    PROVE  IInv'
<1> USE DEF deviceVars
<1>1. AddressTypeOK /\ connection[m] \in Records /\ Good(m)
  BY Typed DEF IInv
<1>2. TriesLeft(m) /\ NilIsZero(m) /\ CallbacksFirst(m) /\ NoSecondWrite(m)
  BY <1>1 DEF Good
<1>3. /\ connection' \in [Masters -> Records]
      /\ connection'[m] = IF connection[m].listed THEN c ELSE connection[m]
      /\ \A n \in Masters \ {m} : connection'[n] = connection[n]
  BY AssignTyped
<1>4. /\ link[m] = "up" /\ ~UnderWay(m)
      /\ connection'[m].write = connection[m].write
  BY <1>2, <1>3 DEF CallbacksFirst
<1>5. TriesLeft(m)' /\ (~connection'[m].listed => connection'[m] = Unlisted)
  BY <1>2, <1>3 DEF TriesLeft, NilIsZero
<1>6. /\ link' \in [Masters -> {"down", "connecting", "up", "closing"}]
      /\ expected' \in [Masters -> {"nothing", "services", "initial", "ip", "data"}]
      /\ expected'[m] = e
      /\ scanning' \in [Masters -> BOOLEAN]
      /\ retries' \in [Masters -> 0..MaxTimers]
  BY <1>1 DEF AddressTypeOK
<1>7. OnlyFor(m)
  BY <1>1, <1>3 DEF OnlyFor, Untouched, AddressTypeOK
<1> QED
  BY <1>3, <1>4, <1>5, <1>6, <1>7, RecordStep

\* Assigning what is there already.
LEMMA AssignSame ==
    ASSUME IInv, NEW m \in Masters, UNCHANGED connection
    PROVE  Assign(m, connection[m])
BY DEF IInv, AddressTypeOK, Assign

\* The services lead to the initial data or the write, or to giving up.
LEMMA DidDiscoverServicesStep ==
    ASSUME IInv, NEW m \in Masters, DidDiscoverServices(m)
    PROVE  IInv'
<1>1. expected[m] # "nothing" /\ connection[m] \in Records
  BY Typed DEF DidDiscoverServices
<1>2. CASE GiveUp(m)
  BY <1>1, <1>2, GiveUpStep DEF DidDiscoverServices
<1>3. CASE /\ \/ expected' = [expected EXCEPT ![m] = "initial"]
              \/ /\ connection[m].write = "connecting"
                 /\ expected' = [expected EXCEPT ![m] = "ip"]
           /\ UNCHANGED <<connection, link, wire, response>>
  <2>1. Assign(m, connection[m])
    BY <1>3, AssignSame
  <2>2. UNCHANGED <<scanning, retries, attempt, link, wire, response, deviceVars>>
    BY <1>3 DEF DidDiscoverServices
  <2> QED
    BY <1>1, <1>3, <2>1, <2>2, GoOnStep
<1> QED
  BY <1>2, <1>3 DEF DidDiscoverServices

\* The characteristic of the initial data is asked for its value.
LEMMA DidDiscoverInitialCharacteristicStep ==
    ASSUME IInv, NEW m \in Masters, DidDiscoverInitialCharacteristic(m)
    PROVE  IInv'
<1> DEFINE c == [connection[m] EXCEPT !.initial = "connected"]
<1>1. expected[m] # "nothing" /\ connection[m] \in Records
  BY Typed DEF DidDiscoverInitialCharacteristic
<1>2. CASE GiveUp(m)
  BY <1>1, <1>2, GiveUpStep DEF DidDiscoverInitialCharacteristic
<1>3. CASE /\ Assign(m, c)
           /\ expected' = [expected EXCEPT ![m] = "data"]
           /\ UNCHANGED <<link, wire, response>>
  <2>1. /\ c \in Records /\ c.tries = connection[m].tries
        /\ c.listed = connection[m].listed /\ c.write = connection[m].write
        /\ c.didError = connection[m].didError
    BY <1>1 DEF Records
  <2>2. UNCHANGED <<scanning, retries, attempt, link, wire, response, deviceVars>>
    BY <1>3 DEF DidDiscoverInitialCharacteristic
  <2> HIDE DEF c
  <2> QED
    BY <1>1, <1>3, <2>1, <2>2, GoOnStep
<1> QED
  BY <1>2, <1>3 DEF DidDiscoverInitialCharacteristic

\* Initial data that arrives is taken over if it was asked for.
LEMMA ReceivedInitialDataStep ==
    ASSUME IInv, NEW m \in Masters, ReceivedInitialData(m)
    PROVE  IInv'
<1> USE DEF deviceVars
<1>1. AddressTypeOK /\ connection[m] \in Records /\ Good(m)
  BY Typed DEF IInv
<1>2. TriesLeft(m) /\ NilIsZero(m) /\ CallbacksFirst(m) /\ NoSecondWrite(m)
  BY <1>1 DEF Good
<1>3. expected[m] # "nothing" /\ ~UnderWay(m) /\ link[m] = "up"
  BY <1>2 DEF ReceivedInitialData, CallbacksFirst
<1>4. UNCHANGED <<scanning, retries, attempt, wire, response, deviceVars>>
  BY DEF ReceivedInitialData
<1>5. CASE /\ expected' = [expected EXCEPT ![m] = "nothing"]
           /\ UNCHANGED <<connection, link>>
  <2>1. Assign(m, connection[m])
    BY <1>5, AssignSame
  <2> QED
    BY <1>1, <1>3, <1>4, <1>5, <2>1, GoOnStep
<1>6. ASSUME NEW c \in Records, Assign(m, c), DisconnectPeripheral(m),
             c.tries = connection[m].tries, c.listed = connection[m].listed,
             c.write = connection[m].write,
             connection[m].didError => c.didError
      PROVE  IInv'
  <2>1. /\ connection' \in [Masters -> Records]
        /\ connection'[m] = IF connection[m].listed THEN c ELSE connection[m]
        /\ \A n \in Masters \ {m} : connection'[n] = connection[n]
    BY <1>6, AssignTyped
  <2>2. /\ link' \in [Masters -> {"down", "connecting", "up", "closing"}]
        /\ expected' \in [Masters -> {"nothing", "services", "initial", "ip", "data"}]
        /\ expected'[m] = "nothing"
        /\ \A n \in Masters \ {m} : link'[n] = link[n] /\ expected'[n] = expected[n]
    BY <1>6, DisconnectTyped
  <2>3. TriesLeft(m)' /\ (~connection'[m].listed => connection'[m] = Unlisted)
    BY <1>2, <1>3, <1>6, <2>1 DEF TriesLeft, NilIsZero
  <2>4. connection'[m].write = connection[m].write
    BY <1>6, <2>1
  <2>5. OnlyFor(m)
    BY <1>4, <2>1, <2>2 DEF OnlyFor, Untouched
  <2>6. /\ scanning' \in [Masters -> BOOLEAN]
        /\ retries' \in [Masters -> 0..MaxTimers]
    BY <1>1, <1>4 DEF AddressTypeOK
  <2> QED
    BY <1>3, <1>4, <2>1, <2>2, <2>3, <2>4, <2>5, <2>6, RecordStep
<1>7. CASE DisconnectPeripheral(m) /\ UNCHANGED connection
  <2>1. Assign(m, connection[m])
    BY <1>7, AssignSame
  <2> QED
    BY <1>1, <1>6, <1>7, <2>1
<1>8. CASE /\ Assign(m, [connection[m] EXCEPT !.initial = "received"])
           /\ DisconnectPeripheral(m)
  <2> DEFINE c == [connection[m] EXCEPT !.initial = "received"]
  <2>1. /\ c \in Records /\ c.tries = connection[m].tries
        /\ c.listed = connection[m].listed /\ c.write = connection[m].write
        /\ c.didError = connection[m].didError
    BY <1>1 DEF Records
  <2>2. Assign(m, c)
    BY <1>8
  <2> HIDE DEF c
  <2> QED
    BY <1>6, <1>8, <2>1, <2>2
<1>9. CASE /\ Assign(m, [connection[m] EXCEPT !.initial = "missing", !.didError = TRUE])
           /\ DisconnectPeripheral(m)
  <2> DEFINE c == [connection[m] EXCEPT !.initial = "missing", !.didError = TRUE]
  <2>1. /\ c \in Records /\ c.tries = connection[m].tries
        /\ c.listed = connection[m].listed /\ c.write = connection[m].write
        /\ c.didError
    BY <1>1 DEF Records
  <2>2. Assign(m, c)
    BY <1>9
  <2> HIDE DEF c
  <2> QED
    BY <1>6, <1>9, <2>1, <2>2
<1> QED
  BY <1>5, <1>7, <1>8, <1>9 DEF ReceivedInitialData

\* A link that goes down takes all that is under way with it.
LEMMA LinkDownStep ==
    ASSUME IInv, NEW m \in Masters, LinkDown(m)
    PROVE  IInv'
<1> USE DEF deviceVars, centralVars
<1>1. AddressTypeOK /\ connection[m] \in Records /\ Good(m)
  BY Typed DEF IInv
<1>2. TriesLeft(m) /\ NilIsZero(m) /\ CallbacksFirst(m) /\ NoSecondWrite(m)
  BY <1>1 DEF Good
<1>3. /\ link' = [link EXCEPT ![m] = "down"]
      /\ expected' = [expected EXCEPT ![m] = "nothing"]
      /\ wire' = [wire EXCEPT ![m] = <<>>]
      /\ UNCHANGED <<centralVars, deviceVars>>
      /\ link[m] # "connecting"
  BY DEF LinkDown
<1>4. PICK r \in {"none", "error"} : response' = [response EXCEPT ![m] = r]
  BY DEF LinkDown
<1>5. AddressTypeOK'
  <2>1. <<>> \in Seq(Chunks \cup {EOM(a) : a \in 0..MaxAttempts})
    OBVIOUS
  <2> QED
    BY <1>1, <1>3, <1>4, <2>1 DEF AddressTypeOK
<1>6. OnlyFor(m)
  BY <1>1, <1>3, <1>4 DEF OnlyFor, Untouched, AddressTypeOK
<1>7. /\ link'[m] = "down" /\ expected'[m] = "nothing" /\ wire'[m] = <<>>
      /\ response'[m] \in {"none", "error"}
  BY <1>1, <1>3, <1>4 DEF AddressTypeOK
<1>8. ~UnderWay(m)'
  BY <1>7 DEF UnderWay
<1>9. NilIsZero(m)' /\ TriesLeft(m)'
  BY <1>2, <1>3 DEF NilIsZero, TriesLeft
<1>10. CallbacksFirst(m)' /\ WritesInOrder(m)' /\ NoSecondWrite(m)'
  BY <1>7, <1>8 DEF CallbacksFirst, WritesInOrder, Rests, NoSecondWrite
<1>11. ChecksWhatWasWritten(m)'
  BY <1>1, <1>3, <1>7 DEF Good, ChecksWhatWasWritten, ChecksLatest
<1> QED
  BY <1>5, <1>6, <1>9, <1>10, <1>11, Elsewhere DEF Good

\* The addresses are written: all that was owed on the link was called back, so
\* nothing else is under way, and this attempt was not written before.
LEMMA DidDiscoverIPCharacteristicStep ==
    ASSUME IInv, NEW m \in Masters, DidDiscoverIPCharacteristic(m)
    PROVE  IInv'
<1> USE DEF deviceVars
<1>1. AddressTypeOK /\ connection[m] \in Records /\ Good(m)
  BY Typed DEF IInv
<1>2. TriesLeft(m) /\ NilIsZero(m) /\ CallbacksFirst(m) /\ NoSecondWrite(m)
  BY <1>1 DEF Good
<1>3. /\ expected[m] = "ip" /\ link[m] = "up" /\ ~UnderWay(m)
      /\ UNCHANGED <<scanning, retries, attempt, deviceVars>>
  BY <1>2 DEF DidDiscoverIPCharacteristic, CallbacksFirst
<1>4. CASE GiveUp(m)
  BY <1>3, <1>4, GiveUpStep
<1>5. CASE ~GiveUp(m) /\ ~connection[m].listed
  <2>1. /\ expected' = [expected EXCEPT ![m] = "nothing"]
        /\ UNCHANGED <<link, wire, response>>
        /\ Assign(m, [connection[m] EXCEPT !.write = "sent"])
    BY <1>5 DEF DidDiscoverIPCharacteristic
  <2>2. [connection[m] EXCEPT !.write = "sent"] \in Records
    BY <1>1, RecordFields
  <2>3. Assign(m, connection[m])
    BY <1>1, <1>5, <2>1, <2>2 DEF Assign
  <2> QED
    BY <1>1, <1>3, <2>1, <2>3, GoOnStep
<1>6. CASE ~GiveUp(m) /\ connection[m].listed
  <2> DEFINE c == [connection[m] EXCEPT !.write = "sent"]
             w == <<Chunk(attempt[m], "head"), Chunk(attempt[m], "tail"),
                    EOM(attempt[m])>>
  <2>1. /\ expected' = [expected EXCEPT ![m] = "nothing"]
        /\ UNCHANGED link
        /\ Assign(m, c)
        /\ wire' = [wire EXCEPT ![m] = w]
        /\ response' = [response EXCEPT ![m] = "due"]
    BY <1>6 DEF DidDiscoverIPCharacteristic
  <2>2. /\ c \in Records /\ c.tries = connection[m].tries /\ c.write = "sent"
        /\ c.listed /\ c.didError = connection[m].didError
    BY <1>1, <1>6 DEF Records
  <2>3. /\ connection' \in [Masters -> Records]
        /\ connection'[m] = c
        /\ \A n \in Masters \ {m} : connection'[n] = connection[n]
    BY <1>6, <2>1, <2>2, AssignTyped
  <2>4. attempt[m] \in 0..MaxAttempts /\ w \in Rests(attempt[m])
    BY Typed DEF Rests
  <2> HIDE DEF c, w
  <2>5. AddressTypeOK'
    <3>1. w \in Seq(Chunks \cup {EOM(a) : a \in 0..MaxAttempts})
      BY <2>4, RestsTyped
    <3> QED
      BY <1>1, <1>3, <2>1, <2>3, <3>1 DEF AddressTypeOK, Records
  <2>6. OnlyFor(m)
    BY <1>1, <1>3, <2>1, <2>3 DEF OnlyFor, Untouched, AddressTypeOK
  <2>7. /\ expected'[m] = "nothing" /\ link'[m] = "up" /\ wire'[m] = w
        /\ response'[m] = "due" /\ attempt'[m] = attempt[m]
    BY <1>1, <1>3, <2>1 DEF AddressTypeOK
  <2>8. NilIsZero(m)' /\ TriesLeft(m)'
    BY <1>2, <1>3, <2>2, <2>3 DEF NilIsZero, TriesLeft
  <2>9. CallbacksFirst(m)' /\ WritesInOrder(m)' /\ NoSecondWrite(m)'
    BY <2>2, <2>3, <2>4, <2>7 DEF CallbacksFirst, WritesInOrder, NoSecondWrite
  <2>10. ChecksWhatWasWritten(m)'
    BY <1>1, <1>3 DEF Good, ChecksWhatWasWritten, ChecksLatest
  <2> QED
    BY <2>5, <2>6, <2>8, <2>9, <2>10, Elsewhere DEF Good
<1> QED
  BY <1>4, <1>5, <1>6

\* The answer ends the attempt: all of it had arrived.
LEMMA DidReceiveIPWriteResponseStep ==
    ASSUME IInv, NEW m \in Masters, DidReceiveIPWriteResponse(m)
    PROVE  IInv'
<1> USE DEF deviceVars
<1>1. AddressTypeOK /\ connection[m] \in Records /\ Good(m)
  BY Typed DEF IInv
<1>2. TriesLeft(m) /\ NilIsZero(m) /\ CallbacksFirst(m) /\ NoSecondWrite(m)
  BY <1>1 DEF Good
<1> DEFINE c == [connection[m] EXCEPT !.write = "disconnected"]
<1>3. /\ c \in Records /\ c.tries = connection[m].tries
      /\ c.write = "disconnected" /\ c.didError = connection[m].didError
      /\ c.listed = connection[m].listed
  BY <1>1 DEF Records
<1>4. /\ wire[m] = <<>>
      /\ response' = [response EXCEPT ![m] = "none"]
      /\ UNCHANGED <<scanning, retries, attempt, wire, deviceVars>>
  BY <1>1 DEF Good, WritesInOrder, DidReceiveIPWriteResponse
<1>5. /\ connection' \in [Masters -> Records]
      /\ connection'[m] \in {c, connection[m]}
      /\ \A n \in Masters \ {m} : connection'[n] = connection[n]
  <2>1. CASE Assign(m, c)
    BY <1>3, <2>1, AssignTyped
  <2>2. CASE UNCHANGED connection
    BY <1>1, <2>2 DEF AddressTypeOK, Records
  <2> QED
    BY <2>1, <2>2 DEF DidReceiveIPWriteResponse
<1>6. /\ link' \in [Masters -> {"down", "connecting", "up", "closing"}]
      /\ expected' \in [Masters -> {"nothing", "services", "initial", "ip", "data"}]
      /\ \/ expected'[m] = "nothing" /\ (link'[m] = "connecting" <=> link[m] = "connecting")
         \/ expected'[m] = expected[m] /\ link'[m] = link[m]
      /\ \A n \in Masters \ {m} : link'[n] = link[n] /\ expected'[n] = expected[n]
  <2>1. CASE DisconnectPeripheral(m)
    BY <2>1, DisconnectTyped
  <2>2. CASE UNCHANGED <<link, expected>>
    BY <1>1, <2>2 DEF AddressTypeOK
  <2> QED
    BY <2>1, <2>2 DEF DidReceiveIPWriteResponse
<1> HIDE DEF c
<1>7. AddressTypeOK'
  BY <1>1, <1>4, <1>5, <1>6 DEF AddressTypeOK, Records
<1>8. OnlyFor(m)
  BY <1>1, <1>4, <1>5, <1>6 DEF OnlyFor, Untouched, AddressTypeOK
<1>9. wire'[m] = <<>> /\ response'[m] = "none"
  BY <1>1, <1>4 DEF AddressTypeOK
<1>10. ~UnderWay(m)'
  BY <1>9 DEF UnderWay
<1>11. NilIsZero(m)'
  <2>1. CASE connection[m].listed
    BY <1>3, <1>5, <2>1 DEF NilIsZero
  <2>2. CASE ~connection[m].listed
    <3>1. connection[m].write # "sent"
      BY <1>2, <2>2 DEF NilIsZero, Unlisted
    <3>2. UNCHANGED connection
      BY <3>1 DEF DidReceiveIPWriteResponse
    <3> QED
      BY <1>2, <3>2 DEF NilIsZero
  <2> QED
    BY <2>1, <2>2
<1>12. TriesLeft(m)'
  BY <1>2, <1>3, <1>5, <1>6 DEF TriesLeft
<1>13. CallbacksFirst(m)' /\ WritesInOrder(m)' /\ NoSecondWrite(m)'
  BY <1>2, <1>6, <1>9, <1>10 DEF CallbacksFirst, WritesInOrder, Rests, NoSecondWrite
<1>14. ChecksWhatWasWritten(m)'
  BY <1>1, <1>3, <1>4, <1>5, <1>6, <1>9 DEF Good, ChecksWhatWasWritten, ChecksLatest
<1> QED
  BY <1>7, <1>8, <1>11, <1>12, <1>13, <1>14, Elsewhere DEF Good

\* What arrives, or is lost, leaves the rest of the attempt on the wire.
LEMMA WireShrinksStep ==
    ASSUME IInv, NEW m \in Masters, wire[m] # <<>>, Head(wire[m]).part # "EOM",
           wire' = [wire EXCEPT ![m] = Tail(@)],
           received' \in [Masters -> Seq(Chunks)],
           UNCHANGED <<centralVars, link, expected, response, checking>>
    PROVE  IInv'
<1> USE DEF centralVars
<1>1. AddressTypeOK /\ connection[m] \in Records /\ Good(m)
  BY Typed DEF IInv
<1>2. TriesLeft(m) /\ NilIsZero(m) /\ CallbacksFirst(m) /\ NoSecondWrite(m)
  BY <1>1 DEF Good
<1>3. /\ wire[m] \in Rests(attempt[m]) /\ attempt[m] \in 0..MaxAttempts
      /\ response[m] = "due"
  BY <1>1, Typed DEF Good, WritesInOrder
<1>4. Tail(wire[m]) \in Rests(attempt[m]) /\ Tail(wire[m]) # <<>>
  BY <1>3, RestsShrink
<1>5. AddressTypeOK'
  <2>1. Tail(wire[m]) \in Seq(Chunks \cup {EOM(a) : a \in 0..MaxAttempts})
    BY <1>3, <1>4, RestsTyped
  <2> QED
    BY <1>1, <2>1 DEF AddressTypeOK
<1>6. OnlyFor(m)
  BY <1>1 DEF OnlyFor, Untouched, AddressTypeOK
<1>7. wire'[m] = Tail(wire[m])
  BY <1>1 DEF AddressTypeOK
<1>8. UnderWay(m) /\ UnderWay(m)'
  BY <1>3 DEF UnderWay
<1>9. NilIsZero(m)' /\ TriesLeft(m)'
  BY <1>2 DEF NilIsZero, TriesLeft
<1>10. CallbacksFirst(m)' /\ NoSecondWrite(m)'
  BY <1>2, <1>8 DEF CallbacksFirst, NoSecondWrite
<1>11. WritesInOrder(m)'
  BY <1>3, <1>4, <1>7 DEF WritesInOrder
<1>12. ChecksWhatWasWritten(m)'
  BY <1>1 DEF Good, ChecksWhatWasWritten, ChecksLatest
<1> QED
  BY <1>5, <1>6, <1>9, <1>10, <1>11, <1>12, Elsewhere DEF Good

\* The EOM is the last of its attempt, which the device checks or refuses.
LEMMA ReceiveEOMStep ==
    ASSUME IInv, NEW m \in Masters, NEW can \in BOOLEAN, ReceiveEOM(m, can)
    PROVE  IInv'
<1> USE DEF centralVars
<1>1. AddressTypeOK /\ connection[m] \in Records /\ Good(m)
  BY Typed DEF IInv
<1>2. TriesLeft(m) /\ NilIsZero(m) /\ CallbacksFirst(m) /\ NoSecondWrite(m)
  BY <1>1 DEF Good
<1>3. /\ wire[m] # <<>> /\ Head(wire[m]).part = "EOM"
      /\ wire' = [wire EXCEPT ![m] = Tail(@)]
      /\ received' = [received EXCEPT ![m] = <<>>]
      /\ UNCHANGED <<centralVars, link, expected>>
  BY DEF ReceiveEOM
<1>4. /\ wire[m] \in Rests(attempt[m]) /\ attempt[m] \in 0..MaxAttempts
      /\ response[m] = "due"
  BY <1>1, <1>3, Typed DEF Good, WritesInOrder
<1>5. Tail(wire[m]) = <<>> /\ Head(wire[m]).attempt = attempt[m]
  BY <1>3, <1>4, RestsShrink
<1>6. wire'[m] = <<>>
  BY <1>1, <1>3, <1>5 DEF AddressTypeOK
<1>7. \/ /\ checking' = [master |-> m, attempt |-> attempt[m]]
         /\ UNCHANGED response
      \/ /\ response' = [response EXCEPT ![m] = "refused"]
         /\ UNCHANGED checking
  BY <1>5 DEF ReceiveEOM
<1>8. response'[m] \in {"due", "refused"}
  BY <1>1, <1>4, <1>7 DEF AddressTypeOK
<1>9. AddressTypeOK'
  <2>1. <<>> \in Seq(Chunks \cup {EOM(a) : a \in 0..MaxAttempts}) /\ <<>> \in Seq(Chunks)
    OBVIOUS
  <2>2. /\ response' \in [Masters -> {"none", "due", "success", "refused", "error"}]
        /\ checking' \in [master : Masters \cup {NoMaster}, attempt : 0..MaxAttempts]
    <3>1. CASE /\ checking' = [master |-> m, attempt |-> attempt[m]]
               /\ UNCHANGED response
      BY <1>1, <1>4, <3>1 DEF AddressTypeOK
    <3>2. CASE /\ response' = [response EXCEPT ![m] = "refused"]
               /\ UNCHANGED checking
      BY <1>1, <3>2 DEF AddressTypeOK
    <3> QED
      BY <1>7, <3>1, <3>2
  <2> QED
    BY <1>1, <1>3, <1>5, <2>1, <2>2 DEF AddressTypeOK
<1>10. OnlyFor(m)
  BY <1>1, <1>3, <1>7 DEF OnlyFor, Untouched, AddressTypeOK
<1>11. UnderWay(m) /\ UnderWay(m)'
  BY <1>3, <1>8 DEF UnderWay
<1>12. NilIsZero(m)' /\ TriesLeft(m)'
  BY <1>2, <1>3 DEF NilIsZero, TriesLeft
<1>13. CallbacksFirst(m)' /\ NoSecondWrite(m)'
  BY <1>2, <1>3, <1>11 DEF CallbacksFirst, NoSecondWrite
<1>14. WritesInOrder(m)'
  BY <1>6 DEF WritesInOrder, Rests
<1>15. ChecksWhatWasWritten(m)'
  <2>1. connection[m].write # "connecting" /\ expected[m] = "nothing"
    BY <1>2, <1>11 DEF CallbacksFirst, NoSecondWrite
  <2>2. checking'.master = m => checking'.attempt <= attempt[m]
    BY <1>1, <1>4, <1>7 DEF Good, ChecksWhatWasWritten
  <2> QED
    BY <1>3, <1>6, <2>1, <2>2 DEF ChecksWhatWasWritten
<1> QED
  BY <1>9, <1>10, <1>12, <1>13, <1>14, <1>15, Elsewhere DEF Good

\* The answer of the check goes to the master that wrote the addresses, if they
\* are still its latest: then nothing of them is on the wire any more.
LEMMA RespondStep ==
    ASSUME IInv, NEW result \in {"success", "refused"}, Respond(result)
    PROVE  IInv'
<1> USE DEF centralVars
<1> DEFINE k == checking.master
<1>1. AddressTypeOK
  BY DEF IInv
<1>2. /\ checking' = NobodyChecked
      /\ response' = [response EXCEPT ![k] =
                        IF @ = "due" /\ attempt[k] = checking.attempt
                          THEN result ELSE @]
      /\ UNCHANGED <<centralVars, link, expected, wire, received>>
  BY DEF Respond
<1>3. AddressTypeOK'
  <2>1. response' \in [Masters -> {"none", "due", "success", "refused", "error"}]
    BY <1>1, <1>2 DEF AddressTypeOK
  <2>2. checking' \in [master : Masters \cup {NoMaster}, attempt : 0..MaxAttempts]
    BY <1>2, AddressBounds DEF NobodyChecked
  <2> QED
    BY <1>1, <1>2, <2>1, <2>2 DEF AddressTypeOK
<1>4. ASSUME NEW m \in Masters
      PROVE  Good(m)'
  <2>1. Good(m) /\ checking'.master # m
    BY <1>2, Typed, MastersAssumption DEF NobodyChecked
  <2>2. CASE response'[m] = response[m]
    BY <1>2, <2>1, <2>2, UntouchedStaysGood DEF Untouched
  <2>3. CASE response'[m] # response[m]
    <3>1. /\ k = m /\ response[m] = "due" /\ attempt[m] = checking.attempt
          /\ response'[m] = result
      BY <1>1, <1>2, <2>3 DEF AddressTypeOK
    <3>2. ChecksLatest(m)
      BY <1>1, <3>1 DEF ChecksLatest, AddressTypeOK
    <3>3. wire[m] = <<>>
      BY <2>1, <3>2 DEF Good, ChecksWhatWasWritten
    <3>4. UnderWay(m) /\ UnderWay(m)'
      BY <3>1 DEF UnderWay
    <3>5. NilIsZero(m)' /\ TriesLeft(m)'
      BY <1>2, <2>1 DEF Good, NilIsZero, TriesLeft
    <3>6. CallbacksFirst(m)' /\ NoSecondWrite(m)'
      BY <1>2, <2>1, <3>4 DEF Good, CallbacksFirst, NoSecondWrite
    <3>7. WritesInOrder(m)'
      BY <1>2, <3>3 DEF WritesInOrder, Rests
    <3>8. ChecksWhatWasWritten(m)'
      BY <2>1 DEF ChecksWhatWasWritten, ChecksLatest
    <3> QED
      BY <3>5, <3>6, <3>7, <3>8 DEF Good
  <2> QED
    BY <2>2, <2>3
<1> QED
  BY <1>3, <1>4 DEF IInv

\* Every step preserves the inductive invariant.
LEMMA StepPreservesIInv ==
    ASSUME IInv, [AddressNext]_addressVars
    PROVE  IInv'
<1>1. ASSUME NEW m \in Masters, LoseChunk(m)
      PROVE  IInv'
  BY <1>1, WireShrinksStep DEF LoseChunk, IInv, AddressTypeOK, deviceVars
<1>2. ASSUME NEW m \in Masters, ReceiveChunk(m)
      PROVE  IInv'
  <2>1. Head(wire[m]) \in Chunks /\ received[m] \in Seq(Chunks)
    BY <1>2, Typed, RestsShrink DEF ReceiveChunk, Good, WritesInOrder
  <2>2. Append(received[m], Head(wire[m])) \in Seq(Chunks)
    BY <2>1
  <2>3. received' \in [Masters -> Seq(Chunks)]
    BY <1>2, <2>2 DEF ReceiveChunk, IInv, AddressTypeOK
  <2> QED
    BY <1>2, <2>3, WireShrinksStep DEF ReceiveChunk
<1>3. ASSUME NEW m \in Masters, CentralStep(m)
      PROVE  IInv'
  BY <1>1, <1>2, <1>3, DidDiscoverStep, ResumeScanningStep, DidConnectStep,
     DidFailToConnectStep, RetryStep, LinkDownStep, DeviceLostStep,
     DidDiscoverServicesStep, DidDiscoverInitialCharacteristicStep,
     ReceivedInitialDataStep, SendNetworkAddressesStep,
     DidDiscoverIPCharacteristicStep, DidReceiveIPWriteResponseStep
     DEF CentralStep
<1>4. CASE RefuseAddresses \/ AcceptAddresses
  BY <1>4, RespondStep DEF RefuseAddresses, AcceptAddresses
<1>5. CASE UNCHANGED addressVars
  <2> USE <1>5 DEF addressVars, centralVars, linkVars, deviceVars
  <2>1. AddressTypeOK'
    BY DEF IInv, AddressTypeOK
  <2>2. \A m \in Masters : Untouched(m)
    BY DEF Untouched
  <2> QED
    BY <2>1, <2>2, UntouchedStaysGood DEF IInv
<1> QED
  BY <1>3, <1>4, <1>5, ReceiveEOMStep DEF AddressNext

-----------------------------------------------------------------------------
(* The theorems.                                                           *)

\* The inductive invariant holds of every reachable state.
THEOREM Invariant == AddressSpec => []IInv
<1>1. AddressInit => IInv
  <2>1. SUFFICES ASSUME AddressInit
                 PROVE  IInv
    OBVIOUS
  <2>2. Unlisted \in Records /\ Unlisted.tries = 0
    BY DEF Unlisted, Records
  <2>3. AddressTypeOK
    <3>1. <<>> \in Seq(Chunks \cup {EOM(a) : a \in 0..MaxAttempts}) /\ <<>> \in Seq(Chunks)
      OBVIOUS
    <3>2. 0 \in 0..MaxTimers /\ 0 \in 0..MaxAttempts
      BY AddressBounds
    <3>3. checking \in [master : Masters \cup {NoMaster}, attempt : 0..MaxAttempts]
      BY <2>1, <3>2 DEF AddressInit, NobodyChecked
    <3> QED
      BY <2>1, <2>2, <3>1, <3>2, <3>3 DEF AddressInit, AddressTypeOK, Records
  <2>4. ASSUME NEW m \in Masters
        PROVE  Good(m)
    <3>1. /\ connection[m] = Unlisted /\ link[m] = "down" /\ expected[m] = "nothing"
          /\ wire[m] = <<>> /\ response[m] = "none" /\ checking = NobodyChecked
      BY <2>1 DEF AddressInit
    <3>2. ~UnderWay(m) /\ checking.master # m
      BY <3>1, MastersAssumption DEF UnderWay, NobodyChecked
    <3> QED
      BY <2>2, <3>1, <3>2, AddressBounds DEF Good, NilIsZero, TriesLeft, CallbacksFirst,
         WritesInOrder, Rests, NoSecondWrite, ChecksWhatWasWritten, ChecksLatest
  <2> QED
    BY <2>3, <2>4 DEF IInv
<1>2. IInv /\ [AddressNext]_addressVars => IInv'
  BY StepPreservesIInv
<1> QED
  BY <1>1, <1>2, PTL DEF AddressSpec

\* Every variable keeps its type: what arrives at the device are chunks.
THEOREM AddressTypeCorrect == AddressSpec => []AddressTypeOK
<1>1. IInv => AddressTypeOK
  BY DEF IInv
<1> QED
  BY <1>1, Invariant, PTL

\* A device is not connected more often than MAX_CONNECTION_RETRIES allows,
\* whichever record the delayed connects hit.
THEOREM TriesStayBounded == AddressSpec => []TriesBounded
<1>1. IInv => TriesBounded
  BY DEF IInv, Good, TriesLeft, TriesBounded
<1> QED
  BY <1>1, Invariant, PTL

\* Addresses and answers under way belong to the latest attempt, and the record
\* that sent them waits for the answer, or is gone.
THEOREM WritesOneAtATime == AddressSpec => []OneWriteAtATime
<1>1. IInv => OneWriteAtATime
  <2>1. SUFFICES ASSUME IInv, NEW m \in Masters, UnderWay(m)
                 PROVE  /\ link[m] \in {"up", "closing"}
                        /\ \A i \in 1..Len(wire[m]) : wire[m][i].attempt = attempt[m]
                        /\ connection[m].write = "sent" \/ connection[m].initial # "received"
    BY DEF OneWriteAtATime, UnderWay
  <2>2. Good(m) /\ attempt[m] \in 0..MaxAttempts
    BY <2>1, Typed
  <2>3. wire[m] \in Rests(attempt[m])
    BY <2>2 DEF Good, WritesInOrder
  <2>4. \A i \in 1..Len(wire[m]) : wire[m][i].attempt = attempt[m]
    BY <2>2, <2>3, RestsTyped
  <2> QED
    BY <2>1, <2>2, <2>4 DEF Good, NoSecondWrite
<1> QED
  BY <1>1, Invariant, PTL
=============================================================================
