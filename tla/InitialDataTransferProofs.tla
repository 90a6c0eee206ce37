--------------------- MODULE InitialDataTransferProofs ---------------------
(***************************************************************************)
(* Proofs about InitialDataTransfer, for any set of devices, any number of *)
(* chunks and any number of broken links: the invariants that the runs     *)
(* check and that it implements InitialDataExchange.                       *)
(*                                                                         *)
(* The three invariants together are inductive.  What they say of a device *)
(* depends on that device only, so every step is proved for the device it  *)
(* is a step of, and lemma Elsewhere covers the others.                    *)
(***************************************************************************)
EXTENDS InitialDataTransfer, SequenceTheorems, TLAPS

\* The inductive invariant.
IInv == TypeOK /\ UndisturbedAccounted /\ UndisturbedSubscribed

\* What the two invariants on transfers say of one device.
Good(d) == breaks[d] = 0 => InOrder(d) /\ Accounted(d) /\ WaitsForSomething(d)

\* A step leaves the transfer to d alone and neither begins nor ends its
\* subscription.
Untouched(d) ==
    /\ breaks'[d] = breaks[d]
    /\ centralSends'[d] = centralSends[d]
    /\ d \in centralEOMSends' <=> d \in centralEOMSends
    /\ notified'[d] = notified[d]
    /\ peripheralReceives'[d] = peripheralReceives[d]
    /\ \/ link'[d] = link[d]
       \/ "on" \notin {link[d], link'[d]}
    /\ \/ initialDataState'[d] = initialDataState[d]
       \/ initialDataState'[d] # "connected"
       \/ link'[d] # "on"

-----------------------------------------------------------------------------
(* Lemmas.                                                                 *)

\* The invariants hold of all devices iff they hold of each one.
LEMMA Devicewise ==
    ASSUME TypeOK
    PROVE  UndisturbedAccounted /\ UndisturbedSubscribed
             <=> \A d \in Devices : Good(d)
<1>1. \A d \in Devices : d \in Disturbed <=> breaks[d] # 0
  BY DEF TypeOK, Disturbed
<1> QED
  BY <1>1 DEF UndisturbedAccounted, UndisturbedSubscribed, Good

\* The same of the next state.
LEMMA DevicewiseNext ==
    ASSUME TypeOK'
    PROVE  UndisturbedAccounted' /\ UndisturbedSubscribed'
             <=> \A d \in Devices : Good(d)'
<1>1. \A d \in Devices : d \in Disturbed' <=> breaks'[d] # 0
  BY DEF TypeOK, Disturbed
<1> QED
  BY <1>1 DEF UndisturbedAccounted, UndisturbedSubscribed, Good

\* The values that SendChunks adds are a sequence of values.
LEMMA RunOfValues ==
    ASSUME NEW n \in Nat, NEW k \in Nat, n + k <= EOM
    PROVE  /\ [i \in 1..k |-> n + i] \in Seq(1..EOM)
           /\ Len([i \in 1..k |-> n + i]) = k
<1> DEFINE run == [i \in 1..k |-> n + i]
<1>1. EOM \in Nat
  BY ChunksAssumption DEF EOM
<1>2. run \in [1..k -> 1..EOM]
  BY <1>1
<1>3. run \in Seq(1..EOM)
  BY <1>2, SeqDef
<1>4. Len(run) = k
  BY <1>2, <1>3, LenProperties
<1> QED
  BY <1>3, <1>4

\* Sending keeps the types of what it changes.
LEMMA SendTyped ==
    ASSUME TypeOK, NEW d \in Devices, NEW n \in 1..Chunks, NEW k \in 0..(n + 1),
           NEW b \in BOOLEAN, SendChunks(d, n, k, b)
    PROVE  /\ centralSends' \in [Devices -> 0..Chunks]
           /\ centralEOMSends' \subseteq Devices
           /\ notified' \in [Devices -> Seq(1..EOM)]
<1>1. Chunks \in Nat
  BY ChunksAssumption
<1>2. centralSends' \in [Devices -> 0..Chunks]
  <2>1. (IF k < n THEN n - k ELSE 0) \in 0..Chunks
    BY <1>1
  <2> QED
    BY <2>1 DEF SendChunks, TypeOK
<1>3. centralEOMSends' \subseteq Devices
  BY DEF SendChunks, TypeOK
<1>4. notified' \in [Devices -> Seq(1..EOM)]
  <2>1. [i \in 1..k |-> (Chunks - n) + i] \in Seq(1..EOM)
    BY <1>1, RunOfValues DEF EOM
  <2>2. notified[d] \o [i \in 1..k |-> (Chunks - n) + i] \in Seq(1..EOM)
    BY <2>1, ConcatProperties DEF TypeOK
  <2> QED
    BY <2>2 DEF SendChunks, Notify, TypeOK
<1> QED
  BY <1>2, <1>3, <1>4

\* Sending the k values after the first n to a subscriber that was sent n of
\* them keeps its message in order.
LEMMA NotifyInOrder ==
    ASSUME TypeOK, NEW d \in Devices, NEW n \in Nat, NEW k \in Nat,
           n + k <= EOM, Notify(d, n, k, TRUE),
           peripheralReceives' = peripheralReceives,
           InOrder(d), Position(d) = n
    PROVE  InOrder(d)' /\ Position(d)' = n + k
<1> DEFINE run == [i \in 1..k |-> n + i]
           b == Len(peripheralReceives[d])
           a == Len(notified[d])
<1>1. run \in Seq(1..EOM) /\ Len(run) = k
  BY RunOfValues
<1>2. notified[d] \in Seq(1..EOM) /\ peripheralReceives[d] \in Seq(1..Chunks)
  BY DEF TypeOK
<1>3. notified'[d] = notified[d] \o run
  BY DEF Notify, TypeOK
<1>4. b \in Nat /\ a \in Nat
  BY <1>2, LenProperties
<1>5. n = b + a
  BY <1>4 DEF Position
<1>6. Len(notified'[d]) = a + k
  BY <1>1, <1>2, <1>3, ConcatProperties
<1>7. ASSUME NEW i \in 1..Len(notified'[d])
      PROVE  notified'[d][i] = b + i
  <2>1. notified'[d][i] = IF i <= a THEN notified[d][i] ELSE run[i - a]
    BY <1>1, <1>2, <1>3, <1>6, ConcatProperties
  <2>2. CASE i <= a
    <3>1. i \in 1..a
      BY <2>2, <1>4, <1>6
    <3>2. notified[d][i] = b + i
      BY <3>1 DEF InOrder
    <3> QED
      BY <2>1, <2>2, <3>2
  <2>3. CASE ~(i <= a)
    <3>1. i - a \in 1..k
      BY <2>3, <1>4, <1>6
    <3>2. run[i - a] = n + (i - a)
      BY <3>1
    <3>3. n + (i - a) = b + i
      <4> HIDE DEF a, b
      <4> QED
        BY <1>4, <1>5, <1>6
    <3> QED
      BY <2>1, <2>3, <3>2, <3>3
  <2> QED
    BY <2>2, <2>3
<1>8. InOrder(d)'
  BY <1>7 DEF InOrder
<1>9. Position(d)' = n + k
  <2>1. Position(d)' = b + (a + k)
    BY <1>6 DEF Position
  <2> HIDE DEF a, b
  <2> QED
    BY <2>1, <1>4, <1>5
<1> QED
  BY <1>8, <1>9

\* Such a step keeps the invariants of the device.
LEMMA Elsewhere ==
    ASSUME NEW e \in Devices, Good(e), Untouched(e)
    PROVE  Good(e)'
<1> USE DEF Untouched
<1>1. UnderWay(e)' <=> UnderWay(e)
  BY DEF UnderWay
<1>2. Position(e)' = Position(e)
  BY DEF Position
<1>3. ASSUME InOrder(e) PROVE InOrder(e)'
  BY <1>3 DEF InOrder
<1>4. ASSUME Accounted(e) PROVE Accounted(e)'
  BY <1>4, <1>1, <1>2 DEF Accounted
<1>5. ASSUME WaitsForSomething(e) PROVE WaitsForSomething(e)'
  BY <1>5, <1>1 DEF WaitsForSomething
<1> QED
  BY <1>3, <1>4, <1>5 DEF Good

-----------------------------------------------------------------------------
(* Types.                                                                  *)

\* The variables start with their types.
LEMMA InitTyped == Init => TypeOK
<1> SUFFICES ASSUME Init PROVE TypeOK
  OBVIOUS
<1>1. <<>> \in Seq(1..EOM) /\ <<>> \in Seq(1..Chunks)
  OBVIOUS
<1>2. 0 \in 0..Chunks /\ 0 \in 0..MaxBreaks
  BY ChunksAssumption
<1>3. notified \in [Devices -> Seq(1..EOM)]
  BY <1>1 DEF Init
<1>4. peripheralReceives \in [Devices -> Seq(1..Chunks)]
  BY <1>1 DEF Init
<1> QED
  BY <1>2, <1>3, <1>4 DEF Init, TypeOK

\* Every step keeps the types.
LEMMA StepTyped ==
    ASSUME TypeOK, [Next]_vars
    PROVE  TypeOK'
<1> USE DEF TypeOK
<1>1. ASSUME NEW d \in Devices, Discover(d) PROVE TypeOK'
  BY <1>1 DEF Discover, sendVars
<1>2. ASSUME NEW d \in Devices, Subscribe(d) PROVE TypeOK'
  BY <1>2 DEF Subscribe, sendVars
<1>3. ASSUME NEW d \in Devices, ReceiveChunk(d) PROVE TypeOK'
  <2>1. /\ Head(notified[d]) \in 1..EOM
        /\ Tail(notified[d]) \in Seq(1..EOM)
    BY <1>3, HeadTailProperties DEF ReceiveChunk
  <2>2. Head(notified[d]) \in 1..Chunks
    BY <1>3, <2>1, ChunksAssumption DEF ReceiveChunk, EOM
  <2>3. Append(peripheralReceives[d], Head(notified[d])) \in Seq(1..Chunks)
    BY <2>2, AppendProperties
  <2> QED
    BY <1>3, <2>1, <2>3 DEF ReceiveChunk, sendVars
<1>4. ASSUME NEW d \in Devices, ReceiveEOM(d) PROVE TypeOK'
  <2>1. Tail(notified[d]) \in Seq(1..EOM)
    BY <1>4, HeadTailProperties DEF ReceiveEOM
  <2>2. <<>> \in Seq(1..EOM) /\ <<>> \in Seq(1..Chunks)
    OBVIOUS
  <2>3. CASE initialDataState[d] = "connected"
    <3>1. /\ initialDataState' = [initialDataState EXCEPT ![d] =
                IF peripheralReceives[d] = Whole THEN "received" ELSE "missing"]
          /\ link' = [link EXCEPT ![d] = "off"]
          /\ notified' = [notified EXCEPT ![d] = <<>>]
          /\ peripheralReceives' = [peripheralReceives EXCEPT ![d] = <<>>]
          /\ UNCHANGED <<sendVars, breaks>>
      BY <1>4, <2>3 DEF ReceiveEOM
    <3>2. /\ initialDataState' \in
               [Devices -> {"none", "connecting", "connected", "received", "missing"}]
          /\ link' \in [Devices -> {"off", "connecting", "requested", "on"}]
      BY <3>1
    <3>3. /\ notified' \in [Devices -> Seq(1..EOM)]
          /\ peripheralReceives' \in [Devices -> Seq(1..Chunks)]
      BY <2>2, <3>1
    <3> QED
      BY <3>1, <3>2, <3>3 DEF sendVars
  <2>4. CASE initialDataState[d] # "connected"
    BY <1>4, <2>1, <2>2, <2>4 DEF ReceiveEOM, sendVars
  <2> QED
    BY <2>3, <2>4
<1>5. ASSUME NEW d \in Devices, Lose(d) PROVE TypeOK'
  BY <1>5 DEF Lose, sendVars
<1>6. ASSUME NEW d \in Devices, Break(d) PROVE TypeOK'
  <2>1. <<>> \in Seq(1..EOM) /\ <<>> \in Seq(1..Chunks)
    OBVIOUS
  <2>2. peripheralReceives' \in [Devices -> Seq(1..Chunks)]
    BY <1>6, <2>1 DEF Break
  <2>3. breaks' \in [Devices -> 0..MaxBreaks]
    BY <1>6, ChunksAssumption DEF Break
  <2> QED
    BY <1>6, <2>1, <2>2, <2>3 DEF Break, sendVars
<1>7. ASSUME NEW d \in Devices, DidSubscribe(d) PROVE TypeOK'
  <2>1. PICK k \in 0..EOM : /\ SendChunks(d, Chunks, k, TRUE)
                            /\ ready' = (ready \/ k < EOM)
    BY <1>7 DEF DidSubscribe
  <2>2. Chunks \in 1..Chunks /\ k \in 0..(Chunks + 1)
    BY ChunksAssumption DEF EOM
  <2>3. ready' \in BOOLEAN
    BY <2>1
  <2> QED
    BY <1>7, <2>1, <2>2, <2>3, SendTyped DEF DidSubscribe
<1>8. ASSUME NEW d \in Devices, ResumeEOM(d) PROVE TypeOK'
  <2>1. [i \in 1..1 |-> Chunks + i] \in Seq(1..EOM)
    BY RunOfValues, ChunksAssumption DEF EOM
  <2>2. notified[d] \o [i \in 1..1 |-> Chunks + i] \in Seq(1..EOM)
    BY <2>1, ConcatProperties
  <2>3. notified' \in [Devices -> Seq(1..EOM)]
    BY <1>8, <2>2 DEF ResumeEOM, Notify
  <2> QED
    BY <1>8, <2>3 DEF ResumeEOM
<1>9. ASSUME NEW d \in Devices, ResumeChunks(d) PROVE TypeOK'
  <2> DEFINE n == centralSends[d]
             b == link[d] = "on"
  <2>1. PICK k \in 1..(n + 1) : /\ SendChunks(d, n, k, b)
                                /\ ready' = (k <= n)
    BY <1>9 DEF ResumeChunks
  <2>2. n \in 1..Chunks /\ k \in 0..(n + 1) /\ b \in BOOLEAN
    BY <1>9, ChunksAssumption DEF ResumeChunks
  <2>3. ready' \in BOOLEAN
    BY <2>1
  <2>4. /\ centralSends' \in [Devices -> 0..Chunks]
        /\ centralEOMSends' \subseteq Devices
        /\ notified' \in [Devices -> Seq(1..EOM)]
    <3> HIDE DEF n, b, TypeOK
    <3> QED
      BY <2>1, <2>2, SendTyped
  <2> QED
    BY <1>9, <2>3, <2>4 DEF ResumeChunks
<1>10. ASSUME ResumeNothing PROVE TypeOK'
  BY <1>10 DEF ResumeNothing
<1>11. ASSUME UNCHANGED vars PROVE TypeOK'
  BY <1>11 DEF vars, sendVars
<1> QED
  BY <1>1, <1>2, <1>3, <1>4, <1>5, <1>6, <1>7, <1>8, <1>9, <1>10, <1>11
     DEF Next, Receive, Ready

\* Every variable has its type in every reachable state.
THEOREM TypeCorrect == Spec => []TypeOK
<1> QED
  BY InitTyped, StepTyped, PTL DEF Spec

-----------------------------------------------------------------------------
(* The inductive invariant.                                                *)

\* The inductive invariant holds initially.
LEMMA InitInv == Init => IInv
<1> SUFFICES ASSUME Init PROVE IInv
  OBVIOUS
<1>1. TypeOK
  BY InitTyped
<1>2. ASSUME NEW d \in Devices PROVE Good(d)
  <2>1. notified[d] = <<>> /\ peripheralReceives[d] = <<>>
    BY DEF Init
  <2>2. InOrder(d)
    BY <2>1 DEF InOrder
  <2>3. ~UnderWay(d) /\ centralSends[d] = 0 /\ d \notin centralEOMSends
    BY <2>1 DEF Init, UnderWay
  <2> QED
    BY <2>2, <2>3 DEF Good, Accounted, WaitsForSomething, Init
<1> QED
  BY <1>1, <1>2, Devicewise DEF IInv

\* Sending on to a subscriber, from where its message stands.
LEMMA SendGood ==
    ASSUME TypeOK, NEW d \in Devices, NEW n \in 1..Chunks, NEW k \in 0..(n + 1),
           SendChunks(d, n, k, TRUE), peripheralReceives' = peripheralReceives,
           link'[d] = "on", d \notin centralEOMSends,
           InOrder(d), Position(d) = Chunks - n
    PROVE  Good(d)'
<1>1. Chunks \in Nat /\ n \in Nat /\ k \in Nat /\ n <= Chunks
  BY ChunksAssumption
<1>2. Chunks - n \in Nat /\ (Chunks - n) + k <= EOM
  BY <1>1 DEF EOM
<1>3. InOrder(d)' /\ Position(d)' = (Chunks - n) + k
  BY <1>2, <1>1, NotifyInOrder DEF SendChunks
<1>4. centralSends'[d] = IF k < n THEN n - k ELSE 0
  BY DEF SendChunks, TypeOK
<1>5. CASE k < n
  <2>1. centralSends'[d] > 0 /\ Position(d)' + centralSends'[d] = Chunks
    BY <1>1, <1>3, <1>4, <1>5
  <2>2. d \notin centralEOMSends'
    BY <1>5 DEF SendChunks
  <2> QED
    BY <1>3, <2>1, <2>2 DEF Good, Accounted, WaitsForSomething, UnderWay
<1>6. CASE k = n
  <2>1. centralSends'[d] = 0 /\ Position(d)' = Chunks
    BY <1>1, <1>3, <1>4, <1>6
  <2>2. d \in centralEOMSends'
    BY <1>6, <1>1 DEF SendChunks
  <2> QED
    BY <1>3, <2>1, <2>2 DEF Good, Accounted, WaitsForSomething, UnderWay
<1>7. CASE k = n + 1
  <2>1. centralSends'[d] = 0 /\ Position(d)' = EOM
    BY <1>1, <1>3, <1>4, <1>7 DEF EOM
  <2>2. d \notin centralEOMSends'
    BY <1>7, <1>1 DEF SendChunks
  <2>3. UnderWay(d)'
    <3>1. SUFFICES ASSUME notified'[d] = <<>>, peripheralReceives'[d] = <<>>
                   PROVE  FALSE
      BY DEF UnderWay
    <3>2. Position(d)' = 0
      BY <3>1 DEF Position
    <3> QED
      BY <2>1, <3>2, <1>1 DEF EOM
  <2> QED
    BY <1>3, <2>1, <2>2, <2>3 DEF Good, Accounted, WaitsForSomething
<1> QED
  BY <1>1, <1>5, <1>6, <1>7

\* Receiving a chunk keeps the message of its receiver in order.
LEMMA ReceiveChunkGood ==
    ASSUME TypeOK, NEW d \in Devices, Good(d), ReceiveChunk(d)
    PROVE  Good(d)'
<1> DEFINE rec == peripheralReceives[d]
           air == notified[d]
<1> SUFFICES ASSUME breaks[d] = 0
             PROVE  InOrder(d)' /\ Accounted(d)' /\ WaitsForSomething(d)'
  BY DEF Good, ReceiveChunk
<1>1. InOrder(d) /\ Accounted(d) /\ WaitsForSomething(d)
  BY DEF Good
<1>2. rec \in Seq(1..Chunks) /\ air \in Seq(1..EOM) /\ air # <<>>
  BY DEF TypeOK, ReceiveChunk
<1>3. peripheralReceives'[d] = Append(rec, Head(air)) /\ notified'[d] = Tail(air)
  BY DEF ReceiveChunk, TypeOK
<1>4. /\ Len(rec) \in Nat /\ Len(air) \in Nat /\ Len(air) > 0
      /\ Len(Tail(air)) = Len(air) - 1
      /\ \A i \in 1..Len(Tail(air)) : Tail(air)[i] = air[i + 1]
      /\ Head(air) = air[1]
      /\ Head(air) \in 1..EOM
  <2>1. Len(rec) \in Nat /\ Len(air) \in Nat
    BY <1>2, LenProperties
  <2>2. Len(air) > 0
    BY <1>2, <2>1, EmptySeq
  <2>3. Head(air) = air[1]
    OBVIOUS
  <2> QED
    BY <1>2, <2>1, <2>2, <2>3, HeadTailProperties
<1>5. Head(air) = Len(rec) + 1
  BY <1>1, <1>4 DEF InOrder
<1>6. Head(air) \in 1..Chunks
  BY <1>4, ChunksAssumption DEF ReceiveChunk, EOM
<1>7. /\ Append(rec, Head(air)) \in Seq(1..Chunks)
      /\ Len(Append(rec, Head(air))) = Len(rec) + 1
      /\ \A i \in 1..Len(rec) : Append(rec, Head(air))[i] = rec[i]
      /\ Append(rec, Head(air))[Len(rec) + 1] = Head(air)
  BY <1>2, <1>6, AppendProperties
<1>8. InOrder(d)'
  <2>1. ASSUME NEW i \in 1..Len(peripheralReceives'[d])
        PROVE  peripheralReceives'[d][i] = i
    <3>1. i \in 1..(Len(rec) + 1)
      BY <1>3, <1>7
    <3>2. CASE i = Len(rec) + 1
      BY <3>2, <1>3, <1>5, <1>7
    <3>3. CASE i \in 1..Len(rec)
      BY <3>3, <1>1, <1>3, <1>7 DEF InOrder
    <3> QED
      BY <3>1, <3>2, <3>3, <1>4
  <2>2. ASSUME NEW i \in 1..Len(notified'[d])
        PROVE  notified'[d][i] = Len(peripheralReceives'[d]) + i
    <3>1. i \in 1..(Len(air) - 1)
      BY <1>3, <1>4
    <3>2. i + 1 \in 1..Len(air)
      BY <3>1, <1>4
    <3>3. air[i + 1] = Len(rec) + (i + 1)
      BY <3>2, <1>1 DEF InOrder
    <3>4. notified'[d][i] = air[i + 1]
      BY <1>3, <1>4
    <3>5. Len(rec) + (i + 1) = (Len(rec) + 1) + i
      <4> DEFINE r == Len(rec)
      <4>1. r \in Nat /\ i \in Int
        BY <3>1, <1>4
      <4> HIDE DEF r
      <4>2. r + (i + 1) = (r + 1) + i
        BY <4>1
      <4> QED
        BY <4>2 DEF r
    <3> QED
      BY <3>3, <3>4, <3>5, <1>3, <1>7
  <2> QED
    BY <2>1, <2>2 DEF InOrder
<1>9. Position(d)' = Position(d)
  <2>1. Position(d)' = (Len(rec) + 1) + (Len(air) - 1)
    BY <1>3, <1>4, <1>7 DEF Position
  <2>2. Position(d) = Len(rec) + Len(air)
    BY DEF Position
  <2> DEFINE r == Len(rec)
             a == Len(air)
  <2>3. r \in Nat /\ a \in Nat
    BY <1>4
  <2> HIDE DEF r, a
  <2>4. (r + 1) + (a - 1) = r + a
    BY <2>3
  <2> QED
    BY <2>1, <2>2, <2>4 DEF r, a
<1>10. UnderWay(d) /\ UnderWay(d)'
  <2>1. Append(rec, Head(air)) # <<>>
    BY <1>2, <1>6, AppendProperties
  <2> QED
    BY <2>1, <1>2, <1>3 DEF UnderWay
<1>11. Accounted(d)'
  BY <1>1, <1>9, <1>10 DEF Accounted, ReceiveChunk, sendVars
<1>12. WaitsForSomething(d)'
  BY <1>1, <1>10 DEF WaitsForSomething, ReceiveChunk
<1> QED
  BY <1>8, <1>11, <1>12

\* The EOM only arrives after every chunk, and after all of the message it
\* belongs to: nothing of it is left anywhere.
LEMMA EOMIsLast ==
    ASSUME TypeOK, NEW d \in Devices, InOrder(d), Accounted(d), ReceiveEOM(d)
    PROVE  /\ peripheralReceives[d] = Whole
           /\ Tail(notified[d]) = <<>>
           /\ centralSends[d] = 0
           /\ d \notin centralEOMSends
<1> DEFINE rec == peripheralReceives[d]
           air == notified[d]
           r == Len(rec)
           a == Len(air)
<1>1. rec \in Seq(1..Chunks) /\ air \in Seq(1..EOM) /\ air # <<>>
  BY DEF TypeOK, ReceiveEOM
<1>2. r \in Nat /\ a \in Nat /\ a > 0
  BY <1>1, LenProperties, EmptySeq
<1>3. r + 1 = EOM
  <2>1. Head(air) = air[1] /\ Head(air) = EOM
    BY DEF ReceiveEOM
  <2> QED
    BY <2>1, <1>2 DEF InOrder
<1>4. r = Chunks
  <2> HIDE DEF r
  <2> QED
    BY <1>2, <1>3, ChunksAssumption DEF EOM
<1>5. Position(d) = r + a
  BY DEF Position
<1>6. centralSends[d] \in Nat
  BY ChunksAssumption DEF TypeOK
<1>7. UnderWay(d)
  BY <1>1 DEF UnderWay
<1>8. a = 1 /\ centralSends[d] = 0 /\ d \notin centralEOMSends
  <2> HIDE DEF r, a
  <2> QED
    BY <1>2, <1>4, <1>5, <1>6, <1>7, ChunksAssumption DEF Accounted, EOM
<1>9. Tail(air) = <<>>
  <2>1. Tail(air) \in Seq(1..EOM) /\ Len(Tail(air)) = a - 1
    BY <1>1, HeadTailProperties
  <2>2. Len(Tail(air)) = 0
    BY <2>1, <1>8
  <2> QED
    BY <2>1, <2>2, EmptySeq
<1>10. rec = Whole
  <2>1. rec \in [1..Chunks -> 1..Chunks]
    BY <1>1, <1>4, LenProperties
  <2>2. \A i \in 1..Chunks : rec[i] = i
    BY <1>4 DEF InOrder
  <2> QED
    BY <2>1, <2>2 DEF Whole
<1> QED
  BY <1>8, <1>9, <1>10

\* The end of a message leaves its device with the message and nothing
\* more.
LEMMA ReceiveEOMGood ==
    ASSUME TypeOK, NEW d \in Devices, Good(d), ReceiveEOM(d)
    PROVE  Good(d)'
<1> SUFFICES ASSUME breaks[d] = 0
             PROVE  InOrder(d)' /\ Accounted(d)' /\ WaitsForSomething(d)'
  BY DEF Good, ReceiveEOM
<1>1. InOrder(d) /\ Accounted(d) /\ WaitsForSomething(d)
  BY DEF Good
<1>2. /\ Tail(notified[d]) = <<>>
      /\ centralSends[d] = 0
      /\ d \notin centralEOMSends
  BY <1>1, EOMIsLast
<1>3. notified'[d] = <<>> /\ peripheralReceives'[d] = <<>>
  BY <1>2 DEF ReceiveEOM, TypeOK
<1>4. InOrder(d)'
  BY <1>3 DEF InOrder
<1>5. ~UnderWay(d)' /\ centralSends'[d] = 0 /\ d \notin centralEOMSends'
  BY <1>2, <1>3 DEF UnderWay, ReceiveEOM, sendVars
<1>6. Accounted(d)'
  BY <1>5 DEF Accounted
<1>7. ~(initialDataState'[d] = "connected" /\ link'[d] = "on")
  BY DEF ReceiveEOM, TypeOK
<1> QED
  BY <1>4, <1>5, <1>6, <1>7 DEF WaitsForSomething

\* A link that breaks outside a transfer leaves nothing behind.
LEMMA BreakGood ==
    ASSUME TypeOK, NEW d \in Devices, Good(d), Break(d)
    PROVE  Good(d)'
<1> SUFFICES ASSUME breaks'[d] = 0
             PROVE  InOrder(d)' /\ Accounted(d)' /\ WaitsForSomething(d)'
  BY DEF Good
<1>1. breaks[d] \in Nat
  BY ChunksAssumption DEF TypeOK
<1>2. breaks'[d] = IF UnderWay(d) THEN breaks[d] + 1 ELSE breaks[d]
  BY DEF Break, TypeOK
<1>3. ~UnderWay(d)
  BY <1>1, <1>2
<1>4. notified'[d] = <<>> /\ peripheralReceives'[d] = <<>>
  BY <1>3 DEF Break, TypeOK, UnderWay
<1>5. centralSends[d] \in Nat
  BY ChunksAssumption DEF TypeOK
<1>6. ~UnderWay(d)' /\ centralSends'[d] = 0 /\ d \notin centralEOMSends'
  BY <1>3, <1>4, <1>5 DEF UnderWay, Break, sendVars
<1>7. link'[d] = "off"
  BY DEF Break, TypeOK
<1>8. InOrder(d)'
  BY <1>4 DEF InOrder
<1> QED
  BY <1>6, <1>7, <1>8 DEF Accounted, WaitsForSomething

\* A new subscription finds nothing of an earlier message.
LEMMA DidSubscribeGood ==
    ASSUME TypeOK, NEW d \in Devices, Good(d), DidSubscribe(d)
    PROVE  Good(d)'
<1> SUFFICES ASSUME breaks[d] = 0 PROVE Good(d)'
  BY DEF Good, DidSubscribe
<1>1. ~UnderWay(d) /\ InOrder(d)
  BY DEF Good, WaitsForSomething, DidSubscribe
<1>2. d \notin centralEOMSends /\ Position(d) = 0
  <2>1. /\ d \notin centralEOMSends
        /\ notified[d] = <<>>
        /\ peripheralReceives[d] = <<>>
    BY <1>1 DEF UnderWay
  <2> QED
    BY <2>1 DEF Position
<1>3. PICK k \in 0..EOM : SendChunks(d, Chunks, k, TRUE)
  BY DEF DidSubscribe
<1>4. /\ Chunks \in 1..Chunks /\ k \in 0..(Chunks + 1)
      /\ Position(d) = Chunks - Chunks
  BY <1>2, ChunksAssumption DEF EOM
<1>5. link'[d] = "on" /\ peripheralReceives' = peripheralReceives
  BY DEF DidSubscribe, TypeOK
<1> QED
  BY <1>1, <1>2, <1>3, <1>4, <1>5, SendGood

\* The EOM that was left is sent to the device whose message it ends.
LEMMA ResumeEOMGood ==
    ASSUME TypeOK, NEW d \in Devices, Good(d), ResumeEOM(d)
    PROVE  Good(d)'
<1> SUFFICES ASSUME breaks[d] = 0
             PROVE  InOrder(d)' /\ Accounted(d)' /\ WaitsForSomething(d)'
  BY DEF Good, ResumeEOM
<1>1. InOrder(d) /\ Accounted(d) /\ WaitsForSomething(d)
  BY DEF Good
<1>2. UnderWay(d) /\ link[d] = "on"
  BY <1>1 DEF UnderWay, WaitsForSomething, ResumeEOM
<1>3. centralSends[d] = 0 /\ Position(d) = Chunks
  BY <1>1 DEF Accounted, ResumeEOM
<1>4. Notify(d, Chunks, 1, TRUE)
  BY <1>2 DEF ResumeEOM, Notify
<1>5. InOrder(d)' /\ Position(d)' = Chunks + 1
  <2>1. Chunks \in Nat /\ 1 \in Nat /\ Chunks + 1 <= EOM
    BY ChunksAssumption DEF EOM
  <2> QED
    BY <1>1, <1>3, <1>4, <2>1, NotifyInOrder DEF ResumeEOM
<1>6. Accounted(d)'
  BY <1>3, <1>5 DEF Accounted, ResumeEOM, EOM
<1>7. UnderWay(d)'
  <2>1. SUFFICES ASSUME notified'[d] = <<>>, peripheralReceives'[d] = <<>>
                 PROVE  FALSE
    BY DEF UnderWay
  <2>2. Position(d)' = 0
    BY <2>1 DEF Position
  <2> QED
    BY <1>5, <2>2, ChunksAssumption
<1> QED
  BY <1>2, <1>5, <1>6, <1>7 DEF WaitsForSomething, ResumeEOM

\* A transfer that was stopped goes on where its message stands.
LEMMA ResumeChunksGood ==
    ASSUME TypeOK, NEW d \in Devices, Good(d), ResumeChunks(d)
    PROVE  Good(d)'
<1> SUFFICES ASSUME breaks[d] = 0 PROVE Good(d)'
  BY DEF Good, ResumeChunks
<1> DEFINE n == centralSends[d]
<1>1. InOrder(d) /\ Accounted(d) /\ WaitsForSomething(d)
  BY DEF Good
<1>2. link[d] = "on"
  BY <1>1 DEF UnderWay, WaitsForSomething, ResumeChunks
<1>3. n \in 1..Chunks /\ d \notin centralEOMSends /\ Position(d) + n = Chunks
  BY <1>1, ChunksAssumption DEF ResumeChunks, Accounted, TypeOK
<1>4. Position(d) = Chunks - n
  <2>1. Position(d) \in Nat
    BY LenProperties DEF Position, TypeOK
  <2> HIDE DEF n
  <2> QED
    BY <1>3, <2>1, ChunksAssumption
<1>5. PICK k \in 1..(n + 1) : SendChunks(d, n, k, TRUE)
  <2>1. PICK k \in 1..(n + 1) : SendChunks(d, n, k, link[d] = "on")
    BY DEF ResumeChunks
  <2> QED
    BY <2>1, <1>2 DEF SendChunks, Notify
<1>6. k \in 0..(n + 1)
  BY <1>3, <1>5
<1>7. link'[d] = "on" /\ peripheralReceives' = peripheralReceives
  BY <1>2 DEF ResumeChunks
<1> HIDE DEF n
<1> QED
  BY <1>1, <1>3, <1>4, <1>5, <1>6, <1>7, SendGood

\* A step of one device leaves the others alone.
LEMMA StepUntouched ==
    ASSUME TypeOK, NEW d \in Devices, NEW e \in Devices \ {d},
           \/ Discover(d) \/ Subscribe(d) \/ ReceiveChunk(d) \/ ReceiveEOM(d) \/ Lose(d)
           \/ Break(d) \/ DidSubscribe(d) \/ ResumeEOM(d) \/ ResumeChunks(d)
    PROVE  Untouched(e)
<1> USE DEF TypeOK, Untouched
<1>1. CASE Discover(d)
  BY <1>1 DEF Discover, sendVars
<1>2. CASE Subscribe(d)
  BY <1>2 DEF Subscribe, sendVars
<1>3. CASE ReceiveChunk(d)
  BY <1>3 DEF ReceiveChunk, sendVars
<1>4. CASE ReceiveEOM(d)
  BY <1>4 DEF ReceiveEOM, sendVars
<1>5. CASE Lose(d)
  BY <1>5 DEF Lose, sendVars
<1>6. CASE Break(d)
  BY <1>6 DEF Break, sendVars
<1>7. CASE DidSubscribe(d)
  BY <1>7 DEF DidSubscribe, SendChunks, Notify
<1>8. CASE ResumeEOM(d)
  BY <1>8 DEF ResumeEOM, Notify
<1>9. CASE ResumeChunks(d)
  BY <1>9 DEF ResumeChunks, SendChunks, Notify
<1> QED
  BY <1>1, <1>2, <1>3, <1>4, <1>5, <1>6, <1>7, <1>8, <1>9

\* Every step keeps what holds of every device.
LEMMA StepGood ==
    ASSUME TypeOK, NEW e \in Devices, Good(e), [Next]_vars
    PROVE  Good(e)'
<1>1. ASSUME NEW d \in Devices, Discover(d) PROVE Good(e)'
  <2>1. CASE e = d
    <3>1. Untouched(e)
      BY <1>1, <2>1 DEF Discover, sendVars, Untouched, TypeOK
    <3> QED
      BY <3>1, Elsewhere
  <2>2. CASE e # d
    BY <1>1, <2>2, StepUntouched, Elsewhere
  <2> QED
    BY <2>1, <2>2
<1>2. ASSUME NEW d \in Devices, Subscribe(d) PROVE Good(e)'
  <2>1. CASE e = d
    <3>1. Untouched(e)
      BY <1>2, <2>1 DEF Subscribe, sendVars, Untouched, TypeOK
    <3> QED
      BY <3>1, Elsewhere
  <2>2. CASE e # d
    BY <1>2, <2>2, StepUntouched, Elsewhere
  <2> QED
    BY <2>1, <2>2
<1>3. ASSUME NEW d \in Devices, ReceiveChunk(d) PROVE Good(e)'
  <2>1. CASE e = d
    BY <1>3, <2>1, ReceiveChunkGood
  <2>2. CASE e # d
    BY <1>3, <2>2, StepUntouched, Elsewhere
  <2> QED
    BY <2>1, <2>2
<1>4. ASSUME NEW d \in Devices, ReceiveEOM(d) PROVE Good(e)'
  <2>1. CASE e = d
    BY <1>4, <2>1, ReceiveEOMGood
  <2>2. CASE e # d
    BY <1>4, <2>2, StepUntouched, Elsewhere
  <2> QED
    BY <2>1, <2>2
<1>5. ASSUME NEW d \in Devices, Lose(d) PROVE Good(e)'
  <2>1. CASE e = d
    <3>1. Untouched(e)
      BY <1>5, <2>1 DEF Lose, sendVars, Untouched, TypeOK
    <3> QED
      BY <3>1, Elsewhere
  <2>2. CASE e # d
    BY <1>5, <2>2, StepUntouched, Elsewhere
  <2> QED
    BY <2>1, <2>2
<1>6. ASSUME NEW d \in Devices, Break(d) PROVE Good(e)'
  <2>1. CASE e = d
    BY <1>6, <2>1, BreakGood
  <2>2. CASE e # d
    BY <1>6, <2>2, StepUntouched, Elsewhere
  <2> QED
    BY <2>1, <2>2
<1>7. ASSUME NEW d \in Devices, DidSubscribe(d) PROVE Good(e)'
  <2>1. CASE e = d
    BY <1>7, <2>1, DidSubscribeGood
  <2>2. CASE e # d
    BY <1>7, <2>2, StepUntouched, Elsewhere
  <2> QED
    BY <2>1, <2>2
<1>8. ASSUME NEW d \in Devices, ResumeEOM(d) PROVE Good(e)'
  <2>1. CASE e = d
    BY <1>8, <2>1, ResumeEOMGood
  <2>2. CASE e # d
    BY <1>8, <2>2, StepUntouched, Elsewhere
  <2> QED
    BY <2>1, <2>2
<1>9. ASSUME NEW d \in Devices, ResumeChunks(d) PROVE Good(e)'
  <2>1. CASE e = d
    BY <1>9, <2>1, ResumeChunksGood
  <2>2. CASE e # d
    BY <1>9, <2>2, StepUntouched, Elsewhere
  <2> QED
    BY <2>1, <2>2
<1>10. ASSUME ResumeNothing PROVE Good(e)'
  <2>1. Untouched(e)
    BY <1>10 DEF ResumeNothing, Untouched
  <2> QED
    BY <2>1, Elsewhere
<1>11. ASSUME UNCHANGED vars PROVE Good(e)'
  <2>1. Untouched(e)
    BY <1>11 DEF vars, sendVars, Untouched
  <2> QED
    BY <2>1, Elsewhere
<1> QED
  BY <1>1, <1>2, <1>3, <1>4, <1>5, <1>6, <1>7, <1>8, <1>9, <1>10, <1>11
     DEF Next, Receive, Ready

\* The inductive invariant holds in every reachable state.
THEOREM InvCorrect == Spec => []IInv
<1>1. ASSUME IInv, [Next]_vars PROVE IInv'
  <2>1. TypeOK /\ TypeOK'
    BY <1>1, StepTyped DEF IInv
  <2>2. \A e \in Devices : Good(e)'
    BY <1>1, <2>1, Devicewise, StepGood DEF IInv
  <2>3. UndisturbedAccounted' /\ UndisturbedSubscribed'
    BY <2>1, <2>2, DevicewiseNext
  <2> QED
    BY <2>1, <2>3 DEF IInv
<1> QED
  BY <1>1, InitInv, PTL DEF Spec

\* The books of the sender and the values on the way agree.
THEOREM AccountedHolds == Spec => []UndisturbedAccounted
<1>1. IInv => UndisturbedAccounted
  BY DEF IInv
<1> QED
  BY <1>1, InvCorrect, PTL

\* Only a device whose link broke in a transfer meets parts of an earlier
\* message or waits for a message that nobody sends.
THEOREM SubscribedHolds == Spec => []UndisturbedSubscribed
<1>1. IInv => UndisturbedSubscribed
  BY DEF IInv
<1> QED
  BY <1>1, InvCorrect, PTL

-----------------------------------------------------------------------------
(* Implementation of InitialDataExchange.                                  *)

\* The disturbed devices are those with broken links.
LEMMA DisturbedKept ==
    ASSUME UNCHANGED breaks
    PROVE  UNCHANGED Disturbed
BY DEF Disturbed

\* A step that changes neither the records nor the history is a stutter.
LEMMA Stutters ==
    ASSUME UNCHANGED <<initialDataState, breaks>>
    PROVE  UNCHANGED Exchange!vars
BY DisturbedKept DEF Exchange!vars

\* An EOM hands over the whole message, unless the device was disturbed.
LEMMA ReceiveEOMImplements ==
    ASSUME IInv, NEW d \in Devices, ReceiveEOM(d)
    PROVE  [Exchange!Next]_(Exchange!vars)
<1> DEFINE to == IF peripheralReceives[d] = Whole THEN "received" ELSE "missing"
<1>1. TypeOK /\ Good(d)
  BY Devicewise DEF IInv
<1>2. UNCHANGED Disturbed
  BY DisturbedKept DEF ReceiveEOM
<1>3. CASE initialDataState[d] = "connected"
  <2>1. initialDataState' = [initialDataState EXCEPT ![d] = to]
    BY <1>3 DEF ReceiveEOM
  <2>2. CASE peripheralReceives[d] = Whole
    <3>1. Exchange!HandOver(d)
      BY <1>2, <1>3, <2>1, <2>2 DEF Exchange!HandOver, Exchange!Advance
    <3> QED
      BY <3>1 DEF Exchange!Next
  <2>3. CASE peripheralReceives[d] # Whole
    <3>1. breaks[d] # 0
      BY <1>1, <2>3, EOMIsLast DEF Good
    <3>2. d \in Disturbed
      BY <1>1, <3>1, ChunksAssumption DEF Disturbed, TypeOK
    <3>3. Exchange!Reject(d)
      BY <1>2, <1>3, <2>1, <2>3, <3>2 DEF Exchange!Reject, Exchange!Advance
    <3> QED
      BY <3>3 DEF Exchange!Next
  <2> QED
    BY <2>2, <2>3
<1>4. CASE initialDataState[d] # "connected"
  BY <1>4, Stutters DEF ReceiveEOM
<1> QED
  BY <1>3, <1>4

\* A link that breaks disturbs its device if a transfer was under way.
LEMMA BreakImplements ==
    ASSUME TypeOK, NEW d \in Devices, Break(d)
    PROVE  [Exchange!Next]_(Exchange!vars)
<1>1. CASE UnderWay(d)
  <2>1. breaks' = [breaks EXCEPT ![d] = breaks[d] + 1] /\ breaks[d] \in Nat
    BY <1>1, ChunksAssumption DEF Break, TypeOK
  <2>2. Disturbed' = Disturbed \cup {d}
    BY <2>1 DEF Disturbed, TypeOK
  <2>3. Exchange!Disturb(d)
    BY <2>2 DEF Exchange!Disturb, Break
  <2> QED
    BY <2>3 DEF Exchange!Next
<1>2. CASE ~UnderWay(d)
  <2>1. UNCHANGED breaks
    BY <1>2 DEF Break, TypeOK
  <2> QED
    BY <2>1, Stutters DEF Break
<1> QED
  BY <1>1, <1>2

\* Every step is a step of the abstract exchange or a stutter.
LEMMA StepImplements ==
    ASSUME IInv, [Next]_vars
    PROVE  [Exchange!Next]_(Exchange!vars)
<1>1. TypeOK
  BY DEF IInv
<1>2. ASSUME NEW d \in Devices, Discover(d)
      PROVE  [Exchange!Next]_(Exchange!vars)
  <2>1. Exchange!Discover(d)
    BY <1>2, DisturbedKept DEF Discover, Exchange!Discover, Exchange!Advance
  <2> QED
    BY <2>1 DEF Exchange!Next
<1>3. ASSUME NEW d \in Devices, Subscribe(d)
      PROVE  [Exchange!Next]_(Exchange!vars)
  <2>1. Exchange!Subscribe(d)
    BY <1>3, DisturbedKept DEF Subscribe, Exchange!Subscribe, Exchange!Advance
  <2> QED
    BY <2>1 DEF Exchange!Next
<1>4. ASSUME NEW d \in Devices, Lose(d)
      PROVE  [Exchange!Next]_(Exchange!vars)
  <2>1. Exchange!Lose(d)
    BY <1>4, DisturbedKept DEF Lose, Exchange!Lose, Exchange!Advance
  <2> QED
    BY <2>1 DEF Exchange!Next
<1>5. ASSUME NEW d \in Devices,
             \/ ReceiveChunk(d) \/ DidSubscribe(d) \/ ResumeEOM(d)
             \/ ResumeChunks(d)
      PROVE  [Exchange!Next]_(Exchange!vars)
  BY <1>5, Stutters DEF ReceiveChunk, DidSubscribe, ResumeEOM, ResumeChunks
<1>6. ASSUME ResumeNothing \/ UNCHANGED vars
      PROVE  [Exchange!Next]_(Exchange!vars)
  BY <1>6, Stutters DEF ResumeNothing, vars
<1> QED
  BY <1>1, <1>2, <1>3, <1>4, <1>5, <1>6, ReceiveEOMImplements, BreakImplements
     DEF Next, Receive, Ready

\* The transfers implement the exchange of initial data: whole messages to
\* every device, except for one whose own link broke in an earlier transfer.
THEOREM Implementation == Spec => ExchangeSpec
<1>1. Init => Exchange!Init
  <2> SUFFICES ASSUME Init PROVE Exchange!Init
    OBVIOUS
  <2>1. Disturbed = {}
    BY DEF Init, Disturbed
  <2> QED
    BY <2>1 DEF Init, Exchange!Init
<1> QED
  BY <1>1, InvCorrect, StepImplements, PTL DEF Spec, ExchangeSpec, Exchange!Spec
=============================================================================
