-------------------------- MODULE WebsocketRelayProofs --------------------------
(***************************************************************************)
(* Proofs about WebsocketRelay, for any pages and remotes and any number   *)
(* of connections and messages: the invariants that its run checks.        *)
(*                                                                         *)
(* A message passes the wire of its source, the backlog or the queue of    *)
(* its destination, and is received.  The inductive invariant says of each *)
(* of these places which messages may be there, and in which order those   *)
(* of one source are; the lemmas say what taking one message from a place  *)
(* and putting it into the next does to the order.                         *)
(***************************************************************************)
EXTENDS WebsocketRelay, SetInduction, SequenceTheorems, TLAPS

\* The elements of a sequence.
Elements(s) == {s[i] : i \in 1..Len(s)}

\* The messages of one source are in the order they were sent, once each.
Ascending(s) ==
    \A i, j \in 1..Len(s) : i < j /\ s[i].from = s[j].from => s[i].n < s[j].n

\* The same of a sequence with the newest message first.
Descending(s) ==
    \A i, j \in 1..Len(s) : i < j /\ s[i].from = s[j].from => s[j].n < s[i].n

-----------------------------------------------------------------------------
(* The inductive invariant.                                                *)

\* A connection that was not opened has sent and received nothing, and is not
\* identified; the local websocket is an identified one of the master's page.
Opened ==
    /\ \A c \in Connections : owner[c] = NoPeer =>
         wire[c] = <<>> /\ received[c] = <<>> /\ ~IsIdentified(c)
    /\ localID # NoConnection => IsIdentified(localID) /\ owner[localID] \in Pages

\* The wire of a connection holds its own messages in the order of their
\* numbers; its identification, and nothing else, has the number 0.
WiresInOrder ==
    \A c \in Connections :
        /\ Ascending(wire[c])
        /\ \A m \in Elements(wire[c]) :
             /\ m.from = c
             /\ m.n <= sent
             /\ m.target = Server => m.n = 0
             /\ IsIdentified(c) => m.n # 0

\* An accepted message was sent before whatever is on the wire of its source.
AcceptedBeforeWire ==
    \A m \in accepted :
        /\ m.target # Server
        /\ m.n <= sent
        /\ owner[m.from] # NoPeer
        /\ \A x \in Elements(wire[m.from]) : m.n < x.n

\* The backlog holds accepted messages, those of one source in order.
BacklogInOrder ==
    /\ Elements(backlog) \subseteq accepted
    /\ Ascending(backlog)

\* The connection c is one that m may be pushed to.
Addressed(m, c) ==
    \/ m.target = owner[c]
    \/ m.target = Master /\ owner[c] \in Pages
    \/ m.target = Broadcast /\ (m.back \/ m.from # c)

\* What is queued for a connection, or was received on it, was accepted and is
\* addressed to it.
QueuesAddressed ==
    \A c \in Connections : \A m \in Elements(outgoing[c]) \cup Elements(received[c]) :
        m \in accepted /\ Addressed(m, c)

\* While the master's page has no websocket, nothing is pushed to anyone.
NothingBeforeMaster ==
    localID = NoConnection =>
        \A c \in Connections : outgoing[c] = <<>> /\ received[c] = <<>>

\* Until the page is reloaded, a connection receives the messages of one source
\* in order, and has received those that were sent before the queued ones.
QueuesInOrder ==
    LoadedOnce =>
        \A c \in Connections :
            /\ Ascending(received[c])
            /\ Descending(outgoing[c])
            /\ \A x \in Elements(received[c]), y \in Elements(outgoing[c]) :
                 x.from = y.from => x.n < y.n

IInv ==
    /\ TypeOK
    /\ Opened
    /\ RemotesOnRecord
    /\ WiresInOrder
    /\ AcceptedBeforeWire
    /\ BacklogInOrder
    /\ QueuesAddressed
    /\ NothingBeforeMaster
    /\ QueuesInOrder
    /\ MasterMissesNothing

-----------------------------------------------------------------------------
(* Lemmas on sequences of messages.                                        *)

\* The number of a message is one.
LEMMA MessageFields ==
    ASSUME NEW m \in Message
    PROVE  m.from \in Connections /\ m.n \in Nat
BY PeersAssumption DEF Message

\* A message put at the end of a sequence.
LEMMA AppendMessage ==
    ASSUME NEW s \in Seq(Message), NEW m \in Message
    PROVE  /\ Append(s, m) \in Seq(Message)
           /\ Elements(Append(s, m)) = Elements(s) \cup {m}
           /\ Ascending(s) /\ (\A x \in Elements(s) : x.from = m.from => x.n < m.n)
                => Ascending(Append(s, m))
<1> DEFINE t == Append(s, m)
           n == Len(s)
<1>1. /\ t \in Seq(Message) /\ Len(t) = n + 1 /\ n \in Nat
      /\ t[n + 1] = m
      /\ \A i \in 1..n : t[i] = s[i]
  BY AppendProperties, LenProperties
<1> HIDE DEF t, n
<1>2. Elements(t) = {t[i] : i \in 1..(n + 1)} /\ Elements(s) = {s[i] : i \in 1..n}
  BY <1>1 DEF Elements, n
<1>3. 1..(n + 1) = 1..n \cup {n + 1}
  BY <1>1
<1>4. Elements(t) = Elements(s) \cup {m}
  BY <1>1, <1>2, <1>3
<1>5. ASSUME Ascending(s), \A x \in Elements(s) : x.from = m.from => x.n < m.n
      PROVE  Ascending(t)
  <2>1. SUFFICES ASSUME NEW i \in 1..(n + 1), NEW j \in 1..(n + 1),
                        i < j, t[i].from = t[j].from
                 PROVE  t[i].n < t[j].n
    BY <1>1 DEF Ascending
  <2>2. i \in 1..n /\ t[i] = s[i]
    BY <1>1, <2>1
  <2>3. CASE j = n + 1
    BY <1>1, <1>2, <1>5, <2>1, <2>2, <2>3
  <2>4. CASE j # n + 1
    <3>1. j \in 1..n
      BY <1>1, <2>4
    <3> QED
      BY <1>1, <1>5, <2>1, <2>2, <3>1 DEF Ascending, n
  <2> QED
    BY <2>3, <2>4
<1> QED
  BY <1>1, <1>4, <1>5 DEF t

\* A message put at the front of a queue.
LEMMA EnqueueMessage ==
    ASSUME NEW q \in Seq(Message), NEW m \in Message
    PROVE  /\ Enqueue(m, q) \in Seq(Message)
           /\ Elements(Enqueue(m, q)) = Elements(q) \cup {m}
           /\ Descending(q) /\ (\A x \in Elements(q) : x.from = m.from => x.n < m.n)
                => Descending(Enqueue(m, q))
<1> DEFINE t == Enqueue(m, q)
           n == Len(q)
<1>1. <<m>> \in Seq(Message) /\ Len(<<m>>) = 1 /\ <<m>>[1] = m
  OBVIOUS
<1>2. /\ t \in Seq(Message) /\ Len(t) = n + 1 /\ n \in Nat
      /\ t[1] = m
      /\ \A i \in 1..n : t[i + 1] = q[i]
  BY <1>1, ConcatProperties, LenProperties DEF Enqueue, Cons
<1> HIDE DEF t, n
<1>3. Elements(t) = {t[i] : i \in 1..(n + 1)} /\ Elements(q) = {q[i] : i \in 1..n}
  BY <1>2 DEF Elements, n
<1>4. \A i \in 1..(n + 1) : i = 1 \/ (i - 1 \in 1..n /\ t[i] = q[i - 1])
  <2>1. SUFFICES ASSUME NEW i \in 1..(n + 1), i # 1
                 PROVE  i - 1 \in 1..n /\ t[i] = q[i - 1]
    OBVIOUS
  <2>2. i - 1 \in 1..n /\ (i - 1) + 1 = i
    BY <1>2, <2>1
  <2> QED
    BY <1>2, <2>2
<1>5. Elements(t) = Elements(q) \cup {m}
  <2>1. \A i \in 1..n : i + 1 \in 1..(n + 1)
    BY <1>2
  <2>2. 1 \in 1..(n + 1)
    BY <1>2
  <2>3. \A x \in Elements(t) : x \in Elements(q) \cup {m}
    <3>1. SUFFICES ASSUME NEW i \in 1..(n + 1)
                   PROVE  t[i] \in Elements(q) \cup {m}
      BY <1>3
    <3>2. CASE i = 1
      BY <1>2, <3>2
    <3>3. CASE i # 1
      BY <1>3, <1>4, <3>3
    <3> QED
      BY <3>2, <3>3
  <2>4. \A x \in Elements(q) \cup {m} : x \in Elements(t)
    BY <1>2, <1>3, <2>1, <2>2
  <2> QED
    BY <2>3, <2>4
<1>6. ASSUME Descending(q), \A x \in Elements(q) : x.from = m.from => x.n < m.n
      PROVE  Descending(t)
  <2>1. SUFFICES ASSUME NEW i \in 1..(n + 1), NEW j \in 1..(n + 1),
                        i < j, t[i].from = t[j].from
                 PROVE  t[j].n < t[i].n
    BY <1>2 DEF Descending
  <2>2. j - 1 \in 1..n /\ t[j] = q[j - 1]
    BY <1>2, <1>4, <2>1
  <2>3. CASE i = 1
    BY <1>2, <1>3, <1>6, <2>1, <2>2, <2>3
  <2>4. CASE i # 1
    <3>1. i - 1 \in 1..n /\ t[i] = q[i - 1] /\ i - 1 < j - 1
      BY <1>2, <1>4, <2>1, <2>4
    <3> QED
      BY <1>6, <2>1, <2>2, <3>1 DEF Descending, n
  <2> QED
    BY <2>3, <2>4
<1> QED
  BY <1>2, <1>5, <1>6 DEF t

\* The first message of a wire is taken.
LEMMA TakeFirst ==
    ASSUME NEW s \in Seq(Message), s # <<>>
    PROVE  /\ Head(s) \in Message /\ Tail(s) \in Seq(Message)
           /\ Len(s) \in Nat \ {0} /\ Len(Tail(s)) = Len(s) - 1
           /\ Head(s) = s[1]
           /\ \A i \in 1..(Len(s) - 1) : Tail(s)[i] = s[i + 1]
BY HeadTailProperties, EmptySeq, LenProperties

\* dequeueOutgoingMessage: when the messages of one source are in order, the
\* first one that equals the last one is the last one itself.
LEMMA DequeueMessage ==
    ASSUME NEW q \in Seq(Message), q # <<>>
    PROVE  /\ Last(q) \in Elements(q) /\ Last(q) \in Message
           /\ Dequeue(q) \in Seq(Message)
           /\ Elements(q) = Elements(Dequeue(q)) \cup {Last(q)}
           /\ Descending(q) =>
                /\ Descending(Dequeue(q))
                /\ \A x \in Elements(Dequeue(q)) :
                     x.from = Last(q).from => Last(q).n < x.n
<1> DEFINE n == Len(q)
           last == Last(q)
           t == Dequeue(q)
           Equal == {i \in 1..n : q[i] = last}
<1>1. /\ n \in Nat \ {0} /\ last = q[n] /\ last \in Message
      /\ \A i \in 1..n : q[i] \in Message
  BY EmptySeq, LenProperties, ElementOfSeq DEF Last
<1>2. n \in Equal /\ n \in 1..n
  BY <1>1
<1>3. PICK k \in Equal : \A i \in Equal : k <= i
  <2>1. Equal \in SUBSET Nat /\ Equal # {}
    BY <1>2
  <2> HIDE DEF Equal
  <2> QED
    BY <2>1, LeastNumber
<1>4. \A i \in Equal : (\A j \in Equal : i <= j) => i = k
  <2>1. \A i \in Equal : i \in Nat
    OBVIOUS
  <2>2. \A i \in Equal : i <= k /\ k <= i => i = k
    BY <1>3, <2>1
  <2> QED
    BY <1>3, <2>2
<1>5. k \in 1..n /\ q[k] = last /\ \A i \in 1..n : q[i] = last => k <= i
  BY <1>3
<1>6. SelectInSeq(q, LAMBDA v : v = last) = k
  <2> HIDE DEF Equal
  <2>1. Min(Equal) = k
    BY <1>3, <1>4 DEF Min
  <2>2. Equal # {}
    BY <1>2
  <2> QED
    BY <2>1, <2>2 DEF SelectInSeq, Equal
<1>7. t = SubSeq(q, 1, k - 1) \o SubSeq(q, k + 1, n)
  <2>1. \E i \in 1..Len(q) : q[i] = Last(q)
    BY <1>2
  <2> QED
    BY <1>6, <2>1 DEF Dequeue, RemoveFirst, RemoveAt
<1> HIDE DEF t
<1>8. /\ SubSeq(q, 1, k - 1) \in Seq(Message)
      /\ Len(SubSeq(q, 1, k - 1)) = k - 1
      /\ \A i \in 1..(k - 1) : SubSeq(q, 1, k - 1)[i] = q[i]
  BY <1>1, <1>5
<1>9. /\ SubSeq(q, k + 1, n) \in Seq(Message)
      /\ Len(SubSeq(q, k + 1, n)) = n - k
      /\ \A i \in 1..(n - k) : SubSeq(q, k + 1, n)[i] = q[k + i]
  BY <1>1, <1>5
<1>10. /\ t \in Seq(Message) /\ Len(t) = n - 1
       /\ \A i \in 1..(n - 1) : t[i] = IF i < k THEN q[i] ELSE q[i + 1]
  <2> DEFINE a == SubSeq(q, 1, k - 1)
             b == SubSeq(q, k + 1, n)
  <2>1. /\ a \in Seq(Message) /\ b \in Seq(Message) /\ t = a \o b
        /\ Len(a) = k - 1 /\ Len(b) = n - k
    BY <1>7, <1>8, <1>9
  <2>2. /\ \A i \in 1..(k - 1) : a[i] = q[i]
        /\ \A i \in 1..(n - k) : b[i] = q[k + i]
    BY <1>8, <1>9
  <2> HIDE DEF a, b, n
  <2>3. t \in Seq(Message) /\ Len(t) = (k - 1) + (n - k)
    <3>1. t \in Seq(Message) /\ Len(t) = Len(a) + Len(b)
      BY <2>1, ConcatProperties
    <3> QED
      BY <2>1, <3>1
  <2>4. \A i \in 1..(n - 1) : t[i] = IF i <= k - 1 THEN a[i] ELSE b[i - (k - 1)]
    BY <1>1, <1>5, <2>1, <2>3, ConcatProperties
  <2>5. ASSUME NEW i \in 1..(n - 1)
        PROVE  t[i] = IF i < k THEN q[i] ELSE q[i + 1]
    <3>1. CASE i < k
      <4>1. i \in 1..(k - 1)
        BY <1>1, <1>5, <3>1
      <4> QED
        BY <2>2, <2>4, <3>1, <4>1
    <3>2. CASE ~(i < k)
      <4>1. i - (k - 1) \in 1..(n - k) /\ k + (i - (k - 1)) = i + 1 /\ ~(i <= k - 1)
        BY <1>1, <1>5, <3>2
      <4> QED
        BY <2>2, <2>4, <3>2, <4>1
    <3> QED
      BY <3>1, <3>2
  <2> QED
    BY <1>1, <1>5, <2>3, <2>5
<1> HIDE DEF n, last, Equal
<1>11. /\ Elements(q) = {q[i] : i \in 1..n}
       /\ Elements(t) = {t[i] : i \in 1..(n - 1)}
  BY <1>10 DEF Elements, n
<1>12. Elements(t) \subseteq Elements(q)
  <2>1. ASSUME NEW i \in 1..(n - 1)
        PROVE  t[i] \in Elements(q)
    <3>1. i \in 1..n /\ i + 1 \in 1..n
      BY <1>1
    <3> QED
      BY <1>10, <1>11, <3>1
  <2> QED
    BY <1>11, <2>1
<1>13. Elements(q) \subseteq Elements(t) \cup {last}
  <2>1. ASSUME NEW i \in 1..n
        PROVE  q[i] \in Elements(t) \cup {last}
    <3>1. CASE i < k
      <4>1. i \in 1..(n - 1)
        BY <1>1, <1>5, <3>1
      <4> QED
        BY <1>10, <1>11, <3>1, <4>1
    <3>2. CASE i = k
      BY <1>5, <3>2
    <3>3. CASE i > k
      <4>1. i - 1 \in 1..(n - 1) /\ ~(i - 1 < k) /\ (i - 1) + 1 = i
        BY <1>1, <1>5, <3>3
      <4> QED
        BY <1>10, <1>11, <4>1
    <3> QED
      BY <1>1, <1>5, <3>1, <3>2, <3>3
  <2> QED
    BY <1>11, <2>1
<1>14. ASSUME Descending(q)
       PROVE  /\ Descending(t)
              /\ \A x \in Elements(t) : x.from = last.from => last.n < x.n
  <2>1. \A i, j \in 1..n : i < j /\ q[i].from = q[j].from => q[j].n < q[i].n
    BY <1>14 DEF Descending, n
  <2>2. k = n
    <3>1. SUFFICES ASSUME k < n
                   PROVE  FALSE
      BY <1>1, <1>5
    <3>2. q[n].n < q[k].n /\ q[k] = q[n]
      BY <1>1, <1>2, <1>5, <2>1, <3>1
    <3> QED
      BY <1>1, <1>2, <3>2, MessageFields
  <2>3. \A i \in 1..(n - 1) : t[i] = q[i] /\ i \in 1..n /\ i < n
    BY <1>1, <1>10, <2>2
  <2>4. Descending(t)
    BY <1>10, <2>1, <2>3 DEF Descending
  <2>5. \A i \in 1..(n - 1) : t[i].from = last.from => last.n < t[i].n
    BY <1>1, <1>2, <2>1, <2>3
  <2> QED
    BY <1>11, <2>4, <2>5
<1> QED
  BY <1>1, <1>2, <1>10, <1>11, <1>12, <1>13, <1>14 DEF t, last

-----------------------------------------------------------------------------
(* Delivering the backlog.                                                 *)

\* The queues of d as the messages of the backlog are delivered to it.
Deliveries(d, master, table, f) ==
    [i \in 0..Len(backlog) |->
       IF i = 0
         THEN outgoing[d]
         ELSE IF d \in Recipients(backlog[i], master, table)
                THEN Enqueue(backlog[i], f[i - 1])
                ELSE f[i - 1]]

\* There are such queues: each follows from the one before.
LEMMA DeliveriesExist ==
    ASSUME backlog \in Seq(Message), NEW d \in Connections, outgoing[d] \in Seq(Message),
           NEW master, NEW table
    PROVE  \E f \in [0..Len(backlog) -> Seq(Message)] :
             f = Deliveries(d, master, table, f)
<1> DEFINE n == Len(backlog)
           Value(f, i) == IF i = 0
                            THEN outgoing[d]
                            ELSE IF d \in Recipients(backlog[i], master, table)
                                   THEN Enqueue(backlog[i], f[i - 1])
                                   ELSE f[i - 1]
           Reaches(k) == \E f \in [0..k -> Seq(Message)] :
                           \A i \in 0..k : f[i] = Value(f, i)
           S == {k \in Nat : k <= n => Reaches(k)}
<1>1. n \in Nat /\ \A i \in 1..n : backlog[i] \in Message
  BY LenProperties, ElementOfSeq
<1>2. 0 \in S
  <2> DEFINE f == [i \in 0..0 |-> outgoing[d]]
  <2>1. f \in [0..0 -> Seq(Message)]
    OBVIOUS
  <2>2. \A i \in 0..0 : f[i] = Value(f, i)
    OBVIOUS
  <2> QED
    BY <2>1, <2>2
<1>3. ASSUME NEW k \in S
      PROVE  k + 1 \in S
  <2>1. k \in Nat
    OBVIOUS
  <2>2. SUFFICES ASSUME k + 1 <= n
                 PROVE  Reaches(k + 1)
    <3> HIDE DEF Reaches, n
    <3> QED
      BY <2>1
  <2>3. k <= n /\ k + 1 \in 1..n
    BY <1>1, <2>1, <2>2
  <2>4. PICK f \in [0..k -> Seq(Message)] : \A i \in 0..k : f[i] = Value(f, i)
    <3>1. Reaches(k)
      <4> HIDE DEF Reaches
      <4> QED
        BY <2>3
    <3> QED
      BY <3>1
  <2> DEFINE v == IF d \in Recipients(backlog[k + 1], master, table)
                    THEN Enqueue(backlog[k + 1], f[k]) ELSE f[k]
             g == [i \in 0..(k + 1) |-> IF i <= k THEN f[i] ELSE v]
  <2>5. v \in Seq(Message)
    <3>1. f[k] \in Seq(Message) /\ backlog[k + 1] \in Message
      BY <1>1, <2>1, <2>3
    <3> QED
      BY <3>1, EnqueueMessage
  <2> HIDE DEF v
  <2>6. g \in [0..(k + 1) -> Seq(Message)]
    <3>1. \A i \in 0..(k + 1) : i <= k => i \in 0..k
      BY <2>1
    <3> QED
      BY <2>5, <3>1
  <2>7. ASSUME NEW i \in 0..(k + 1)
        PROVE  g[i] = Value(g, i)
    <3>1. CASE i <= k
      <4>1. i \in 0..k /\ g[i] = f[i]
        BY <2>1, <3>1
      <4>2. i # 0 => i - 1 \in 0..(k + 1) /\ i - 1 <= k
        BY <2>1, <3>1
      <4>3. i # 0 => g[i - 1] = f[i - 1]
        BY <4>2
      <4> QED
        BY <2>4, <4>1, <4>3
    <3>2. CASE ~(i <= k)
      <4>1. i = k + 1 /\ i # 0 /\ i - 1 = k /\ k \in 0..(k + 1) /\ k <= k
        BY <2>1, <3>2
      <4>2. g[i] = v /\ g[i - 1] = f[k]
        BY <3>2, <4>1
      <4> QED
        BY <4>1, <4>2 DEF v
    <3> QED
      BY <3>1, <3>2
  <2> QED
    BY <2>6, <2>7
<1>4. Reaches(n)
  <2>1. S \in SUBSET Nat
    OBVIOUS
  <2> HIDE DEF S
  <2>2. S = Nat
    BY <1>2, <1>3, <2>1, SetInduction
  <2> HIDE DEF Reaches, n
  <2>3. n \in S /\ n <= n
    BY <1>1, <2>2
  <2> QED
    BY <2>3 DEF S
<1>5. PICK f \in [0..n -> Seq(Message)] : \A i \in 0..n : f[i] = Value(f, i)
  BY <1>4
<1>6. f = [i \in 0..n |-> Value(f, i)]
  BY <1>5
<1> QED
  BY <1>5, <1>6 DEF Deliveries

\* f are these queues, and the last of them is what the delivery ends with.
DeliveredBy(d, master, table, f) ==
    /\ f[0] = outgoing[d]
    /\ \A i \in 1..Len(backlog) :
         f[i] = IF d \in Recipients(backlog[i], master, table)
                  THEN Enqueue(backlog[i], f[i - 1])
                  ELSE f[i - 1]
    /\ BacklogDelivered(d, master, table) = f[Len(backlog)]

\* The queue of d when the whole backlog was delivered is the last of them.
LEMMA BacklogDeliveredIs ==
    ASSUME backlog \in Seq(Message), NEW d \in Connections, outgoing[d] \in Seq(Message),
           NEW master, NEW table
    PROVE  \E f \in [0..Len(backlog) -> Seq(Message)] : DeliveredBy(d, master, table, f)
<1> DEFINE n == Len(backlog)
           g == CHOOSE f : f = Deliveries(d, master, table, f)
<1>1. n \in Nat
  BY LenProperties
<1>2. PICK f \in [0..n -> Seq(Message)] : f = Deliveries(d, master, table, f)
  BY DeliveriesExist
<1>3. g = Deliveries(d, master, table, g)
  BY <1>2
<1>4. BacklogDelivered(d, master, table) = g[n]
  BY DEF BacklogDelivered, Deliveries
<1> HIDE DEF g
<1>5. /\ g = [i \in 0..n |-> g[i]]
      /\ g[0] = outgoing[d]
      /\ \A i \in 1..n : g[i] = IF d \in Recipients(backlog[i], master, table)
                                  THEN Enqueue(backlog[i], g[i - 1])
                                  ELSE g[i - 1]
  <2>1. g = [i \in 0..n |-> IF i = 0
                              THEN outgoing[d]
                              ELSE IF d \in Recipients(backlog[i], master, table)
                                     THEN Enqueue(backlog[i], g[i - 1])
                                     ELSE g[i - 1]]
    BY <1>3 DEF Deliveries
  <2> HIDE DEF n
  <2>2. 0 \in 0..n /\ \A i \in 1..n : i \in 0..n /\ i # 0
    BY <1>1
  <2> QED
    BY <2>1, <2>2
<1> DEFINE S == {k \in Nat : k <= n => g[k] \in Seq(Message)}
<1>6. 0 \in S
  BY <1>5
<1>7. ASSUME NEW k \in S
      PROVE  k + 1 \in S
  <2>1. SUFFICES ASSUME k + 1 <= n
                 PROVE  g[k + 1] \in Seq(Message)
    BY <1>1
  <2>2. /\ k + 1 \in 1..n /\ (k + 1) - 1 = k
        /\ g[k] \in Seq(Message)
    BY <1>1, <2>1
  <2>3. backlog[k + 1] \in Message
    BY <2>2, ElementOfSeq
  <2>4. Enqueue(backlog[k + 1], g[k]) \in Seq(Message)
    BY <2>2, <2>3, EnqueueMessage
  <2> QED
    BY <1>5, <2>2, <2>4
<1>8. \A k \in 0..n : g[k] \in Seq(Message)
  <2>1. S \in SUBSET Nat
    OBVIOUS
  <2> HIDE DEF S
  <2>2. S = Nat
    BY <1>6, <1>7, <2>1, SetInduction
  <2> QED
    BY <1>1, <2>2 DEF S
<1>9. g \in [0..n -> Seq(Message)]
  BY <1>5, <1>8
<1> QED
  BY <1>4, <1>5, <1>9 DEF DeliveredBy

\* What the delivery of the backlog makes of a queue: every message of the
\* backlog for that connection joins it; when it was empty, the messages of one
\* source are in order in it as they are in the backlog.
LEMMA BacklogQueue ==
    ASSUME backlog \in Seq(Message), NEW d \in Connections, outgoing[d] \in Seq(Message),
           NEW master, NEW table
    PROVE  /\ BacklogDelivered(d, master, table) \in Seq(Message)
           /\ Elements(BacklogDelivered(d, master, table)) =
                Elements(outgoing[d])
                  \cup {m \in Elements(backlog) : d \in Recipients(m, master, table)}
           /\ outgoing[d] = <<>> /\ Ascending(backlog)
                => Descending(BacklogDelivered(d, master, table))
<1> DEFINE n == Len(backlog)
           For(m) == d \in Recipients(m, master, table)
           Until(k) == {backlog[i] : i \in 1..k}
<1>1. n \in Nat /\ \A i \in 1..n : backlog[i] \in Message
  BY LenProperties, ElementOfSeq
<1>2. PICK f \in [0..Len(backlog) -> Seq(Message)] : DeliveredBy(d, master, table, f)
  BY BacklogDeliveredIs
<1>3. /\ f \in [0..n -> Seq(Message)]
      /\ f[0] = outgoing[d]
      /\ \A i \in 1..n : f[i] = IF For(backlog[i])
                                  THEN Enqueue(backlog[i], f[i - 1])
                                  ELSE f[i - 1]
      /\ BacklogDelivered(d, master, table) = f[n]
  BY <1>2 DEF DeliveredBy
<1> HIDE DEF For
<1> DEFINE Joined(k) == Elements(f[k]) =
                          Elements(outgoing[d]) \cup {m \in Until(k) : For(m)}
           Ordered(k) == outgoing[d] = <<>> /\ Ascending(backlog) => Descending(f[k])
           S == {k \in Nat : k <= n => Joined(k) /\ Ordered(k)}
<1>4. 0 \in S
  <2>1. Until(0) = {}
    OBVIOUS
  <2>2. Joined(0)
    BY <1>3, <2>1
  <2>3. Ordered(0)
    <3>1. Len(<<>>) = 0
      OBVIOUS
    <3> QED
      BY <1>3, <3>1 DEF Descending
  <2> QED
    BY <2>2, <2>3
<1>5. ASSUME NEW k \in S
      PROVE  k + 1 \in S
  <2>1. SUFFICES ASSUME k + 1 <= n
                 PROVE  Joined(k + 1) /\ Ordered(k + 1)
    <3> HIDE DEF Joined, Ordered, n
    <3> QED
      OBVIOUS
  <2>2. k + 1 \in 1..n /\ (k + 1) - 1 = k /\ k \in 0..n /\ k <= n
    BY <1>1, <2>1
  <2>3. Joined(k) /\ Ordered(k)
    <3> HIDE DEF Joined, Ordered, n
    <3> QED
      BY <2>2
  <2> DEFINE m == backlog[k + 1]
  <2>4. m \in Message /\ f[k] \in Seq(Message)
    BY <1>1, <2>2
  <2>5. Until(k + 1) = Until(k) \cup {m}
    <3>1. 1..(k + 1) = 1..k \cup {k + 1}
      BY <2>2
    <3> QED
      BY <3>1
  <2>6. f[k + 1] = IF For(m) THEN Enqueue(m, f[k]) ELSE f[k]
    BY <1>3, <2>2
  <2>7. ASSUME outgoing[d] = <<>>, Ascending(backlog),
               NEW x \in Elements(f[k]), x.from = m.from
        PROVE  x.n < m.n
    <3>1. Elements(outgoing[d]) = {}
      <4>1. Len(<<>>) = 0 /\ 1..0 = {}
        OBVIOUS
      <4> QED
        BY <2>7, <4>1 DEF Elements
    <3>2. x \in Until(k)
      BY <2>3, <2>7, <3>1
    <3>3. PICK i \in 1..k : x = backlog[i]
      BY <3>2
    <3>4. i \in 1..n /\ i < k + 1
      BY <2>2, <1>1
    <3> QED
      BY <2>2, <2>7, <3>3, <3>4 DEF Ascending
  <2> HIDE DEF m
  <2>8. CASE For(m)
    <3>1. Elements(f[k + 1]) = Elements(f[k]) \cup {m}
      BY <2>4, <2>6, <2>8, EnqueueMessage
    <3>2. Joined(k + 1)
      <4> HIDE DEF Until
      <4> QED
        BY <2>3, <2>5, <2>8, <3>1
    <3>3. ASSUME outgoing[d] = <<>>, Ascending(backlog)
          PROVE  Descending(f[k + 1])
      <4>1. Descending(f[k])
        BY <2>3, <3>3
      <4>2. \A x \in Elements(f[k]) : x.from = m.from => x.n < m.n
        BY <2>7, <3>3
      <4> QED
        BY <2>4, <2>6, <2>8, <4>1, <4>2, EnqueueMessage
    <3> QED
      BY <3>2, <3>3
  <2>9. CASE ~For(m)
    <3>1. f[k + 1] = f[k]
      BY <2>6, <2>9
    <3>2. Joined(k + 1)
      <4> HIDE DEF Until
      <4> QED
        BY <2>3, <2>5, <2>9, <3>1
    <3> QED
      BY <2>3, <3>1, <3>2
  <2> QED
    BY <2>8, <2>9
<1>6. Joined(n) /\ Ordered(n)
  <2>1. S \in SUBSET Nat
    OBVIOUS
  <2> HIDE DEF S
  <2>2. S = Nat
    BY <1>4, <1>5, <2>1, SetInduction
  <2> HIDE DEF Joined, Ordered, n
  <2>3. n <= n
    BY <1>1
  <2> QED
    BY <1>1, <2>2, <2>3 DEF S
<1>7. Until(n) = Elements(backlog)
  BY DEF Elements
<1> QED
  BY <1>1, <1>3, <1>6, <1>7 DEF For

-----------------------------------------------------------------------------
(* What the parts of a step do.                                            *)

\* The elements of a sequence of messages are messages.
LEMMA ElementsAreMessages ==
    ASSUME NEW s \in Seq(Message)
    PROVE  Elements(s) \subseteq Message
BY ElementOfSeq DEF Elements

\* An empty sequence has no elements, and only an empty one.
LEMMA EmptyElements ==
    /\ Elements(<<>>) = {}
    /\ \A s \in Seq(Message) : Elements(s) = {} => s = <<>>
<1>1. Elements(<<>>) = {}
  BY Len(<<>>) = 0, 1..0 = {} DEF Elements
<1>2. ASSUME NEW s \in Seq(Message), Elements(s) = {}
      PROVE  s = <<>>
  <2>1. Len(s) \in Nat
    BY LenProperties
  <2>2. CASE Len(s) = 0
    BY <2>2, EmptySeq
  <2>3. CASE Len(s) # 0
    <3>1. 1 \in 1..Len(s)
      BY <2>1, <2>3
    <3> QED
      BY <1>2, <3>1 DEF Elements
  <2> QED
    BY <2>2, <2>3
<1> QED
  BY <1>1, <1>2

\* An empty sequence, and one of one message, is in either order.
LEMMA ShortInOrder ==
    ASSUME NEW m \in Message
    PROVE  /\ Ascending(<<>>) /\ Descending(<<>>)
           /\ <<m>> \in Seq(Message) /\ Elements(<<m>>) = {m} /\ Ascending(<<m>>)
<1>1. Len(<<>>) = 0 /\ 1..0 = {} /\ Len(<<m>>) = 1 /\ 1..1 = {1} /\ <<m>>[1] = m
  OBVIOUS
<1> QED
  BY <1>1 DEF Ascending, Descending, Elements

\* Taking the first message of a connection that is in order: what is left was
\* sent later.
LEMMA ArrivesTakes ==
    ASSUME TypeOK, WiresInOrder, NEW c \in Connections, Arrives(c)
    PROVE  /\ Head(wire[c]) \in Elements(wire[c]) /\ Head(wire[c]) \in Message
           /\ wire' \in [Connections -> Seq(Message)]
           /\ \A d \in Connections : d # c => wire'[d] = wire[d]
           /\ Elements(wire'[c]) \subseteq Elements(wire[c])
           /\ Ascending(wire'[c])
           /\ \A x \in Elements(wire'[c]) : Head(wire[c]).n < x.n
<1> DEFINE s == wire[c]
           t == Tail(wire[c])
<1>1. /\ s \in Seq(Message) /\ s # <<>> /\ wire \in [Connections -> Seq(Message)]
      /\ wire' = [wire EXCEPT ![c] = t]
  BY DEF TypeOK, Arrives
<1>2. Ascending(s) /\ \A x \in Elements(s) : x.from = c
  BY DEF WiresInOrder
<1> HIDE DEF s, t
<1>3. /\ Head(s) \in Message /\ t \in Seq(Message)
      /\ Len(s) \in Nat \ {0} /\ Len(t) = Len(s) - 1
      /\ Head(s) = s[1]
      /\ \A i \in 1..(Len(s) - 1) : t[i] = s[i + 1]
  BY <1>1, TakeFirst DEF s, t
<1>4. 1 \in 1..Len(s) /\ Head(s) \in Elements(s)
  BY <1>3 DEF Elements
<1>5. ASSUME NEW i \in 1..Len(t)
      PROVE  /\ i + 1 \in 1..Len(s) /\ 1 < i + 1
             /\ t[i] = s[i + 1] /\ t[i] \in Elements(s)
             /\ s[1].n < t[i].n
  <2>1. i + 1 \in 1..Len(s) /\ 1 < i + 1 /\ t[i] = s[i + 1]
    BY <1>3
  <2>2. s[i + 1] \in Elements(s) /\ s[1] \in Elements(s)
    BY <1>4, <2>1 DEF Elements
  <2>3. s[i + 1].from = s[1].from
    BY <1>2, <2>2
  <2> QED
    BY <1>2, <1>4, <2>1, <2>2, <2>3 DEF Ascending
<1>6. Elements(t) \subseteq Elements(s) /\ \A x \in Elements(t) : Head(s).n < x.n
  BY <1>3, <1>5 DEF Elements
<1>7. Ascending(t)
  <2>1. SUFFICES ASSUME NEW i \in 1..Len(t), NEW j \in 1..Len(t),
                        i < j, t[i].from = t[j].from
                 PROVE  t[i].n < t[j].n
    BY DEF Ascending
  <2>2. i + 1 \in 1..Len(s) /\ j + 1 \in 1..Len(s) /\ i + 1 < j + 1
    BY <1>5, <2>1
  <2> QED
    BY <1>2, <1>5, <2>1, <2>2 DEF Ascending
<1> QED
  BY <1>1, <1>3, <1>4, <1>6, <1>7 DEF s, t

\* A connection that identifies itself joins those that did.
LEMMA RegisterAppends ==
    ASSUME TypeOK, NEW c \in Connections, identified' = Append(identified, c)
    PROVE  /\ identified' \in Seq(Connections)
           /\ Len(identified) \in Nat /\ Len(identified') = Len(identified) + 1
           /\ \A i \in 1..Len(identified) : identified'[i] = identified[i]
           /\ identified'[Len(identified) + 1] = c
           /\ \A d \in Connections : IsIdentified(d)' <=> IsIdentified(d) \/ d = c
<1>1. /\ identified' \in Seq(Connections)
      /\ Len(identified) \in Nat /\ Len(identified') = Len(identified) + 1
      /\ \A i \in 1..Len(identified) : identified'[i] = identified[i]
      /\ identified'[Len(identified) + 1] = c
  BY AppendProperties, LenProperties DEF TypeOK
<1>2. 1..(Len(identified) + 1) = 1..Len(identified) \cup {Len(identified) + 1}
  BY <1>1
<1>3. \A d \in Connections : IsIdentified(d)' <=> IsIdentified(d) \/ d = c
  BY <1>1, <1>2 DEF IsIdentified, Contains
<1> QED
  BY <1>1, <1>3

\* When no identified connection of the page is lost, a master that is loaded
\* at most once after a step was before it.
LEMMA LoadedOnceBefore ==
    ASSUME LoadedOnce',
           \A d \in Connections : IsIdentified(d) /\ owner[d] \in Pages =>
             (IsIdentified(d) /\ owner[d] \in Pages)'
    PROVE  LoadedOnce
<1> DEFINE S == {d \in Connections : IsIdentified(d) /\ owner[d] \in Pages}
           T == {d \in Connections : IsIdentified(d)' /\ owner'[d] \in Pages}
<1>1. S \subseteq T /\ T \subseteq Connections
  OBVIOUS
<1>2. IsFiniteSet(Connections)
  BY FS_Interval, PeersAssumption DEF Connections
<1>3. Cardinality(T) <= 1
  BY DEF LoadedOnce
<1>4. SUFFICES Cardinality(S) <= 1
  BY DEF LoadedOnce
<1> HIDE DEF S, T
<1>5. IsFiniteSet(T) /\ Cardinality(S) <= Cardinality(T)
  BY <1>1, <1>2, FS_Subset
<1>6. IsFiniteSet(S) /\ Cardinality(S) \in Nat /\ Cardinality(T) \in Nat
  BY <1>1, <1>5, FS_Subset, FS_CardinalityType
<1> QED
  BY <1>3, <1>5, <1>6

\* A set of connections that has at most one member.
LEMMA AtMostOne ==
    ASSUME NEW S \in SUBSET Connections, Cardinality(S) <= 1, NEW a \in S, NEW b \in S
    PROVE  a = b
<1>1. IsFiniteSet(Connections)
  BY FS_Interval, PeersAssumption DEF Connections
<1>2. IsFiniteSet(S) /\ Cardinality(S) \in Nat
  BY <1>1, FS_Subset, FS_CardinalityType
<1>3. Cardinality({a, b}) <= Cardinality(S) /\ IsFiniteSet({a, b})
  BY <1>2, FS_Subset
<1>4. ASSUME a # b
      PROVE  Cardinality({a, b}) = 2
  <2>1. Cardinality({a}) = 1 /\ IsFiniteSet({a})
    BY FS_Singleton
  <2>2. Cardinality({a} \cup {b}) = 1 + 1
    BY <1>4, <2>1, FS_AddElement
  <2> QED
    BY <2>2
<1> QED
  BY <1>2, <1>3, <1>4

-----------------------------------------------------------------------------
(* The steps.                                                              *)

\* Numbers and connections are not confused with the special values.
LEMMA Distinct ==
    /\ Connections \subseteq Nat \ {0} /\ NoConnection \notin Connections
    /\ NoPeer \notin Peers
    /\ Master \notin Remotes /\ Broadcast \notin Remotes /\ Server \notin Remotes
    /\ Master # Broadcast /\ Master # Server /\ Broadcast # Server
    /\ Pages \cap Remotes = {} /\ Peers = Pages \cup Remotes
BY PeersAssumption DEF Connections, NoConnection, Peers

\* The first state has no connections and no messages.
LEMMA InitIInv == Init => IInv
<1> SUFFICES ASSUME Init
             PROVE  IInv
  OBVIOUS
<1>1. TypeOK
  <2>1. /\ 0 \in 0..MaxMessages /\ <<>> \in Seq(Connections) /\ <<>> \in Seq(Message)
    BY PeersAssumption
  <2> QED
    BY <2>1 DEF Init, TypeOK
<1>2. Len(<<>>) = 0 /\ 1..0 = {}
  OBVIOUS
<1>3. \A c \in Connections : ~IsIdentified(c)
  BY <1>2 DEF Init, IsIdentified, Contains
<1>4. Ascending(<<>>) /\ Descending(<<>>) /\ Elements(<<>>) = {}
  BY <1>2 DEF Ascending, Descending, Elements
<1>5. Opened
  BY <1>3 DEF Init, Opened
<1>6. RemotesOnRecord
  <2>1. \A r \in Remotes : ids[r] = NoConnection
    BY DEF Init, Peers
  <2> QED
    BY <1>2, <2>1 DEF Init, RemotesOnRecord
<1>7. WiresInOrder /\ AcceptedBeforeWire /\ BacklogInOrder
  BY <1>4 DEF Init, WiresInOrder, AcceptedBeforeWire, BacklogInOrder
<1>8. QueuesAddressed /\ NothingBeforeMaster /\ QueuesInOrder
  BY <1>4 DEF Init, QueuesAddressed, NothingBeforeMaster, QueuesInOrder
<1>9. MasterMissesNothing
  <2>1. localID = NoConnection /\ accepted = {backlog[i] : i \in 1..Len(backlog)}
    BY <1>2 DEF Init
  <2>2. localID \notin live
    BY DEF Init
  <2> QED
    BY <2>1, <2>2 DEF MasterMissesNothing
<1> QED
  BY <1>1, <1>5, <1>6, <1>7, <1>8, <1>9 DEF IInv

\* A connection is opened.
LEMMA OpenStep ==
    ASSUME IInv, NEW p \in Peers, NEW c \in Connections, OpenWebsocket(p, c)
    PROVE  IInv'
<1>1. /\ owner[c] = NoPeer /\ c \notin live /\ ~IsIdentified(c)
      /\ wire[c] = <<>> /\ received[c] = <<>> /\ outgoing[c] = <<>>
      /\ owner' = [owner EXCEPT ![c] = p] /\ owner'[c] = p
      /\ live' = live \cup {c}
      /\ wire' = [wire EXCEPT ![c] = <<Identification(c)>>]
      /\ UNCHANGED <<identified, ids, localID, backlog, outgoing, sent,
                     accepted, received>>
  BY DEF IInv, TypeOK, Opened, OpenWebsocket
<1>2. /\ \A d \in Connections : IsIdentified(d)' <=> IsIdentified(d)
      /\ \A d \in Connections : d # c => owner'[d] = owner[d] /\ wire'[d] = wire[d]
      /\ localID # c
      /\ p # NoPeer
  BY <1>1, Distinct DEF IInv, TypeOK, Opened, IsIdentified
<1>3. /\ Identification(c) \in Message /\ Identification(c).from = c
      /\ Identification(c).n = 0 /\ Identification(c).target = Server
  BY PeersAssumption DEF Identification, Message
<1>4. /\ wire'[c] \in Seq(Message) /\ Elements(wire'[c]) = {Identification(c)}
      /\ Ascending(wire'[c])
  BY <1>1, <1>3, ShortInOrder DEF IInv, TypeOK
<1>5. TypeOK'
  BY <1>1, <1>2, <1>4 DEF IInv, TypeOK
<1>6. Opened'
  <2>1. ASSUME NEW d \in Connections, owner'[d] = NoPeer
        PROVE  wire'[d] = <<>> /\ received'[d] = <<>> /\ ~IsIdentified(d)'
    <3>1. d # c
      BY <1>1, <1>2, <2>1
    <3> QED
      BY <1>1, <1>2, <2>1, <3>1 DEF IInv, Opened
  <2>2. localID # NoConnection => IsIdentified(localID)' /\ owner'[localID] \in Pages
    BY <1>1, <1>2 DEF IInv, TypeOK, Opened
  <2> QED
    BY <1>1, <2>1, <2>2 DEF Opened
<1>7. RemotesOnRecord'
  <2>1. \A r \in Remotes : ids[r] # NoConnection => ids[r] \in Connections
    BY DEF IInv, TypeOK, Peers
  <2>2. \A i \in 1..Len(identified) : identified[i] \in Connections /\ IsIdentified(identified[i])
    BY ElementOfSeq DEF IInv, TypeOK, IsIdentified, Contains
  <2>3. \A r \in Remotes : ids[r] # NoConnection =>
          ids[r] \in live' /\ owner'[ids[r]] = r /\ IsIdentified(ids[r])'
    BY <1>1, <1>2, <2>1 DEF IInv, RemotesOnRecord
  <2>4. \A i \in 1..Len(identified) :
          /\ owner'[identified[i]] = owner[identified[i]]
          /\ identified[i] \in live' => identified[i] \in live
    BY <1>1, <1>2, <2>2
  <2>5. Len(identified) \in Nat
    BY LenProperties DEF IInv, TypeOK
  <2>6. \A i \in 1..Len(identified) : \A j \in (i + 1)..Len(identified) :
          j \in 1..Len(identified)
    BY <2>5
  <2>7. ASSUME NEW i \in 1..Len(identified),
               identified[i] \in live', owner'[identified[i]] \in Remotes,
               \A j \in (i + 1)..Len(identified) :
                 owner'[identified[j]] # owner'[identified[i]]
        PROVE  ids[owner'[identified[i]]] = identified[i]
    BY <2>4, <2>6, <2>7 DEF IInv, RemotesOnRecord
  <2> QED
    BY <1>1, <2>3, <2>7 DEF RemotesOnRecord
<1>8. WiresInOrder'
  <2>1. sent \in Nat
    BY PeersAssumption DEF IInv, TypeOK
  <2>2. ASSUME NEW d \in Connections
        PROVE  /\ Ascending(wire'[d])
               /\ \A m \in Elements(wire'[d]) :
                    /\ m.from = d /\ m.n <= sent
                    /\ m.target = Server => m.n = 0
                    /\ IsIdentified(d)' => m.n # 0
    <3>1. CASE d = c
      BY <1>1, <1>2, <1>3, <1>4, <2>1, <3>1
    <3>2. CASE d # c
      BY <1>2, <3>2 DEF IInv, WiresInOrder
    <3> QED
      BY <3>1, <3>2
  <2> QED
    BY <1>1, <2>2 DEF WiresInOrder
<1>9. AcceptedBeforeWire'
  <2>1. \A m \in accepted : m.from \in Connections /\ m.from # c
    BY <1>1, MessageFields DEF IInv, TypeOK, AcceptedBeforeWire
  <2> QED
    BY <1>1, <1>2, <2>1 DEF IInv, AcceptedBeforeWire
<1>10. BacklogInOrder'
  BY <1>1 DEF IInv, BacklogInOrder
<1>11. QueuesAddressed'
  <2>1. Elements(outgoing[c]) \cup Elements(received[c]) = {}
    BY <1>1, EmptyElements
  <2>2. ASSUME NEW d \in Connections,
               NEW m \in Elements(outgoing[d]) \cup Elements(received[d])
        PROVE  m \in accepted /\ Addressed(m, d)'
    <3>1. d # c
      BY <2>1, <2>2
    <3> QED
      BY <1>1, <1>2, <2>2, <3>1 DEF IInv, QueuesAddressed, Addressed
  <2> QED
    BY <1>1, <2>2 DEF QueuesAddressed
<1>12. NothingBeforeMaster'
  BY <1>1 DEF IInv, NothingBeforeMaster
<1>13. LoadedOnce' => LoadedOnce
  BY <1>1, <1>2, LoadedOnceBefore
<1>14. QueuesInOrder'
  BY <1>1, <1>13 DEF IInv, QueuesInOrder
<1>15. MasterMissesNothing'
  BY <1>1, <1>2, <1>13 DEF IInv, MasterMissesNothing, ReceivedBy, QueuedFor
<1> QED
  BY <1>5, <1>6, <1>7, <1>8, <1>9, <1>10, <1>11, <1>12, <1>14, <1>15 DEF IInv

\* A peer sends a message.
LEMMA SendStep ==
    ASSUME IInv, NEW c \in Connections, NEW t \in Remotes \cup {Master, Broadcast},
           NEW b \in BOOLEAN, Send(c, t, b)
    PROVE  IInv'
<1> DEFINE m == [from |-> c, n |-> sent + 1, target |-> t, back |-> b]
<1>1. /\ sent \in Nat /\ sent + 1 \in 0..MaxMessages /\ sent' = sent + 1
      /\ wire' = [wire EXCEPT ![c] = Append(wire[c], m)]
      /\ owner[c] # NoPeer
      /\ UNCHANGED <<live, identified, ids, localID, backlog, owner, outgoing,
                     accepted, received>>
  BY PeersAssumption DEF IInv, TypeOK, Send, InUse, serverVars
<1>2. m \in Message /\ m.from = c /\ m.n = sent + 1 /\ m.target # Server /\ m.n # 0
  BY <1>1, Distinct DEF Message
<1> HIDE DEF m
<1>3. \A d \in Connections : IsIdentified(d)' <=> IsIdentified(d)
  BY <1>1 DEF IsIdentified
<1>4. wire[c] \in Seq(Message) /\ \A x \in Elements(wire[c]) : x \in Message /\ x.n <= sent
  BY ElementsAreMessages DEF IInv, TypeOK, WiresInOrder
<1>5. /\ wire'[c] = Append(wire[c], m) /\ wire'[c] \in Seq(Message)
      /\ Elements(wire'[c]) = Elements(wire[c]) \cup {m}
      /\ Ascending(wire'[c])
      /\ \A d \in Connections : d # c => wire'[d] = wire[d]
  <2>1. \A x \in Elements(wire[c]) : x.n < m.n
    BY <1>1, <1>2, <1>4, MessageFields
  <2>2. wire'[c] = Append(wire[c], m) /\ Ascending(wire[c])
    BY <1>1 DEF IInv, TypeOK, WiresInOrder
  <2>3. \A d \in Connections : d # c => wire'[d] = wire[d]
    BY <1>1 DEF IInv, TypeOK
  <2> QED
    BY <1>2, <1>4, <2>1, <2>2, <2>3, AppendMessage
<1>6. TypeOK'
  BY <1>1, <1>5 DEF IInv, TypeOK
<1>7. Opened'
  <2>1. ASSUME NEW d \in Connections, owner[d] = NoPeer
        PROVE  wire'[d] = <<>> /\ received[d] = <<>> /\ ~IsIdentified(d)'
    BY <1>1, <1>3, <1>5, <2>1 DEF IInv, Opened
  <2>2. localID # NoConnection => IsIdentified(localID)' /\ owner[localID] \in Pages
    BY <1>1, <1>3 DEF IInv, TypeOK, Opened
  <2> QED
    BY <1>1, <2>1, <2>2 DEF Opened
<1>8. RemotesOnRecord'
  BY <1>1, <1>3 DEF IInv, RemotesOnRecord, IsIdentified
<1>9. WiresInOrder'
  <2>1. ASSUME NEW d \in Connections
        PROVE  /\ Ascending(wire'[d])
               /\ \A x \in Elements(wire'[d]) :
                    /\ x.from = d /\ x.n <= sent + 1
                    /\ x.target = Server => x.n = 0
                    /\ IsIdentified(d)' => x.n # 0
    <3>1. \A x \in Elements(wire[d]) :
            /\ x.from = d /\ x.n <= sent + 1
            /\ x.target = Server => x.n = 0
            /\ IsIdentified(d)' => x.n # 0
      <4>1. \A x \in Elements(wire[d]) : x \in Message
        BY ElementsAreMessages DEF IInv, TypeOK
      <4> QED
        BY <1>1, <1>3, <4>1, MessageFields DEF IInv, WiresInOrder
    <3>2. CASE d = c
      <4>1. m.n <= sent + 1
        BY <1>1, <1>2
      <4> QED
        BY <1>2, <1>5, <3>1, <3>2, <4>1
    <3>3. CASE d # c
      BY <1>5, <3>1, <3>3 DEF IInv, WiresInOrder
    <3> QED
      BY <3>2, <3>3
  <2> QED
    BY <1>1, <2>1 DEF WiresInOrder
<1>10. AcceptedBeforeWire'
  <2>1. ASSUME NEW x \in accepted
        PROVE  /\ x.n <= sent + 1 /\ x.from \in Connections
               /\ \A y \in Elements(wire'[x.from]) : x.n < y.n
    <3>1. x.n \in Nat /\ x.from \in Connections /\ x.n <= sent
      BY MessageFields DEF IInv, TypeOK, AcceptedBeforeWire
    <3>2. x.n < m.n /\ x.n <= sent + 1
      BY <1>1, <1>2, <3>1
    <3>3. \A y \in Elements(wire[x.from]) : x.n < y.n
      BY DEF IInv, AcceptedBeforeWire
    <3> QED
      BY <1>5, <3>1, <3>2, <3>3
  <2> QED
    BY <1>1, <2>1 DEF IInv, AcceptedBeforeWire
<1>11. BacklogInOrder' /\ NothingBeforeMaster'
  BY <1>1 DEF IInv, BacklogInOrder, NothingBeforeMaster
<1>12. QueuesAddressed'
  BY <1>1 DEF IInv, QueuesAddressed, Addressed
<1>13. LoadedOnce' => LoadedOnce
  BY <1>1, <1>3, LoadedOnceBefore
<1>14. QueuesInOrder'
  BY <1>1, <1>13 DEF IInv, QueuesInOrder
<1>15. MasterMissesNothing'
  BY <1>1, <1>13 DEF IInv, MasterMissesNothing, ReceivedBy, QueuedFor
<1> QED
  BY <1>6, <1>7, <1>8, <1>9, <1>10, <1>11, <1>12, <1>14, <1>15 DEF IInv

\* An identification arrives: what is the same for a remote and the master.
LEMMA RegisterStep ==
    ASSUME IInv, NEW c \in Connections, Register(c),
           UNCHANGED <<live, backlog, owner, sent, accepted, received>>
    PROVE  /\ c \in live /\ owner[c] \in Peers /\ ~IsIdentified(c)
           /\ \A d \in Connections : IsIdentified(d)' <=> IsIdentified(d) \/ d = c
           /\ identified' \in Seq(Connections)
           /\ ids' \in [Peers -> Connections \cup {NoConnection}]
           /\ ids'[owner[c]] = c
           /\ wire' \in [Connections -> Seq(Message)]
           /\ \A d \in Connections : wire[d] = <<>> => wire'[d] = <<>>
           /\ RemotesOnRecord' /\ WiresInOrder' /\ AcceptedBeforeWire' /\ BacklogInOrder'
<1> DEFINE n == Len(identified)
<1>1. /\ TypeOK /\ RemotesOnRecord /\ WiresInOrder /\ AcceptedBeforeWire /\ BacklogInOrder
      /\ UNCHANGED <<live, backlog, owner, sent, accepted, received>>
      /\ Arrives(c) /\ ~IsIdentified(c) /\ Head(wire[c]) = Identification(c)
      /\ identified' = Append(identified, c)
      /\ ids' = [ids EXCEPT ![owner[c]] = c]
  BY DEF IInv, Register
<1>2. c \in live /\ owner[c] \in Peers
  BY <1>1 DEF TypeOK, Arrives
<1>3. /\ ids' \in [Peers -> Connections \cup {NoConnection}]
      /\ ids'[owner[c]] = c
      /\ \A p \in Peers : p # owner[c] => ids'[p] = ids[p]
  BY <1>1, <1>2 DEF TypeOK
<1>4. /\ identified' \in Seq(Connections)
      /\ n \in Nat /\ Len(identified') = n + 1
      /\ \A i \in 1..n : identified'[i] = identified[i]
      /\ identified'[n + 1] = c
      /\ \A d \in Connections : IsIdentified(d)' <=> IsIdentified(d) \/ d = c
  BY <1>1, RegisterAppends
<1>5. /\ Head(wire[c]) \in Elements(wire[c]) /\ Head(wire[c]) \in Message
      /\ wire' \in [Connections -> Seq(Message)]
      /\ \A d \in Connections : d # c => wire'[d] = wire[d]
      /\ Elements(wire'[c]) \subseteq Elements(wire[c])
      /\ Ascending(wire'[c])
      /\ \A x \in Elements(wire'[c]) : Head(wire[c]).n < x.n
  BY <1>1, ArrivesTakes
<1>6. Head(wire[c]).n = 0
  BY <1>1 DEF Identification
<1>7. \A d \in Connections : wire[d] = <<>> => wire'[d] = <<>>
  BY <1>1, <1>5 DEF Arrives
<1>8. WiresInOrder'
  <2>1. ASSUME NEW d \in Connections
        PROVE  /\ Ascending(wire'[d])
               /\ \A x \in Elements(wire'[d]) :
                    /\ x.from = d /\ x.n <= sent
                    /\ x.target = Server => x.n = 0
                    /\ IsIdentified(d)' => x.n # 0
    <3>1. CASE d = c
      <4>1. \A x \in Elements(wire'[c]) : x \in Elements(wire[c]) /\ x \in Message /\ 0 < x.n
        BY <1>1, <1>5, <1>6, ElementsAreMessages DEF TypeOK
      <4>2. \A x \in Elements(wire'[c]) : x.n # 0
        BY <4>1, MessageFields
      <4> QED
        BY <1>1, <1>5, <3>1, <4>1, <4>2 DEF WiresInOrder
    <3>2. CASE d # c
      BY <1>1, <1>4, <1>5, <3>2 DEF WiresInOrder
    <3> QED
      BY <3>1, <3>2
  <2> QED
    BY <1>1, <2>1 DEF WiresInOrder
<1>9. AcceptedBeforeWire'
  <2>1. \A m \in accepted : m.from \in Connections
    BY <1>1, MessageFields DEF TypeOK
  <2>2. \A d \in Connections : Elements(wire'[d]) \subseteq Elements(wire[d])
    BY <1>5
  <2> QED
    BY <1>1, <2>1, <2>2 DEF AcceptedBeforeWire
<1>10. BacklogInOrder'
  BY <1>1 DEF BacklogInOrder
<1>11. RemotesOnRecord'
  <2>1. ASSUME NEW r \in Remotes, ids'[r] # NoConnection
        PROVE  ids'[r] \in live /\ owner[ids'[r]] = r /\ IsIdentified(ids[r])'
    <3>1. CASE owner[c] = r
      BY <1>2, <1>3, <1>4, <3>1
    <3>2. CASE owner[c] # r
      <4>1. ids'[r] = ids[r] /\ ids[r] \in Connections
        BY <1>1, <1>3, <2>1, <3>2, Distinct DEF TypeOK
      <4>2. ids[r] \in live /\ owner[ids[r]] = r /\ IsIdentified(ids[r])
        BY <1>1, <2>1, <4>1 DEF RemotesOnRecord
      <4> QED
        BY <1>4, <4>1, <4>2
    <3> QED
      BY <3>1, <3>2
  <2>2. ASSUME NEW i \in 1..(n + 1),
               identified'[i] \in live, owner[identified'[i]] \in Remotes,
               \A j \in (i + 1)..(n + 1) : owner[identified'[j]] # owner[identified'[i]]
        PROVE  ids'[owner[identified'[i]]] = identified'[i]
    <3>1. CASE i = n + 1
      BY <1>3, <1>4, <3>1
    <3>2. CASE i # n + 1
      <4>1. i \in 1..n /\ n + 1 \in (i + 1)..(n + 1)
        BY <1>4, <3>2
      <4>2. \A j \in (i + 1)..n : j \in (i + 1)..(n + 1) /\ j \in 1..n
        BY <1>4, <4>1
      <4>3. identified'[i] = identified[i] /\ owner[identified[i]] # owner[c]
        BY <1>4, <2>2, <4>1
      <4>4. \A j \in (i + 1)..n : owner[identified[j]] # owner[identified[i]]
        BY <1>4, <2>2, <4>2, <4>3
      <4>5. ids[owner[identified[i]]] = identified[i]
        BY <1>1, <2>2, <4>1, <4>3, <4>4 DEF RemotesOnRecord
      <4> QED
        BY <1>3, <2>2, <4>3, <4>5, Distinct
    <3> QED
      BY <3>1, <3>2
  <2> HIDE DEF n
  <2>3. live' = live /\ owner' = owner /\ Len(identified') = n + 1
    BY <1>1, <1>4
  <2> QED
    BY <2>1, <2>2, <2>3 DEF RemotesOnRecord
<1> QED
  BY <1>1, <1>2, <1>3, <1>4, <1>5, <1>7, <1>8, <1>9, <1>10, <1>11

\* A remote identifies itself.
LEMMA IdentifyRemoteStep ==
    ASSUME IInv, NEW c \in Connections, IdentifyRemote(c)
    PROVE  IInv'
<1>1. /\ owner[c] \in Remotes /\ Register(c)
      /\ UNCHANGED <<live, localID, backlog, owner, outgoing, sent, accepted, received>>
  BY DEF IdentifyRemote
<1>2. /\ c \in live /\ owner[c] \in Peers /\ ~IsIdentified(c)
      /\ \A d \in Connections : IsIdentified(d)' <=> IsIdentified(d) \/ d = c
      /\ identified' \in Seq(Connections)
      /\ ids' \in [Peers -> Connections \cup {NoConnection}]
      /\ wire' \in [Connections -> Seq(Message)]
      /\ \A d \in Connections : wire[d] = <<>> => wire'[d] = <<>>
      /\ RemotesOnRecord' /\ WiresInOrder' /\ AcceptedBeforeWire' /\ BacklogInOrder'
  BY <1>1, RegisterStep
<1>3. TypeOK'
  BY <1>1, <1>2 DEF IInv, TypeOK
<1>4. Opened'
  <2>1. ASSUME NEW d \in Connections, owner[d] = NoPeer
        PROVE  wire'[d] = <<>> /\ received[d] = <<>> /\ ~IsIdentified(d)'
    BY <1>2, <2>1, Distinct DEF IInv, Opened
  <2>2. localID # NoConnection => IsIdentified(localID)' /\ owner[localID] \in Pages
    BY <1>1, <1>2 DEF IInv, TypeOK, Opened
  <2> QED
    BY <1>1, <2>1, <2>2 DEF Opened
<1>5. QueuesAddressed'
  BY <1>1 DEF IInv, QueuesAddressed, Addressed
<1>6. NothingBeforeMaster'
  BY <1>1 DEF IInv, NothingBeforeMaster
<1>7. LoadedOnce' => LoadedOnce
  BY <1>1, <1>2, LoadedOnceBefore
<1>8. QueuesInOrder'
  BY <1>1, <1>7 DEF IInv, QueuesInOrder
<1>9. MasterMissesNothing'
  BY <1>1, <1>7 DEF IInv, MasterMissesNothing, ReceivedBy, QueuedFor
<1> QED
  BY <1>2, <1>3, <1>4, <1>5, <1>6, <1>8, <1>9 DEF IInv

\* Whom a message is pushed to: live connections that it is addressed to.
LEMMA RecipientsAreAddressed ==
    ASSUME IInv, NEW m \in Message, m.target # Server,
           NEW master, NEW table, NEW c \in Connections,
           c \in Recipients(m, master, table),
           master \in Connections => owner[master] \in Pages,
           \A r \in Remotes : table[r] # NoConnection => owner[table[r]] = r
    PROVE  c \in live /\ Addressed(m, c)
<1>1. c \in live
  BY DEF Recipients
<1>2. m.target \in Remotes \cup {Master, Broadcast}
  BY DEF Message
<1>3. CASE m.target = Broadcast
  BY <1>1, <1>3 DEF Recipients, Addressed
<1>4. CASE m.target # Broadcast /\ m.target = Master
  BY <1>1, <1>4 DEF Recipients, ConnectionFor, Addressed
<1>5. CASE m.target # Broadcast /\ m.target # Master
  <2>1. m.target \in Remotes /\ c = table[m.target]
    BY <1>2, <1>5 DEF Recipients, ConnectionFor
  <2> QED
    BY <1>1, <2>1, Distinct DEF Addressed
<1> QED
  BY <1>3, <1>4, <1>5

\* The master's page identifies itself.
LEMMA IdentifyMasterStep ==
    ASSUME IInv, NEW c \in Connections, IdentifyMaster(c)
    PROVE  IInv'
<1>1. /\ owner[c] \in Pages /\ Register(c) /\ localID' = c
      /\ outgoing' = [d \in Connections |-> BacklogDelivered(d, c, ids')]
      /\ UNCHANGED <<live, backlog, owner, sent, accepted, received>>
  BY DEF IdentifyMaster
<1>2. /\ c \in live /\ owner[c] \in Peers /\ ~IsIdentified(c)
      /\ \A d \in Connections : IsIdentified(d)' <=> IsIdentified(d) \/ d = c
      /\ identified' \in Seq(Connections)
      /\ ids' \in [Peers -> Connections \cup {NoConnection}]
      /\ wire' \in [Connections -> Seq(Message)]
      /\ \A d \in Connections : wire[d] = <<>> => wire'[d] = <<>>
      /\ RemotesOnRecord' /\ WiresInOrder' /\ AcceptedBeforeWire' /\ BacklogInOrder'
  BY <1>1, RegisterStep
<1> DEFINE Joins(d) == {m \in Elements(backlog) : d \in Recipients(m, c, ids')}
<1>3. ASSUME NEW d \in Connections
      PROVE  /\ outgoing'[d] \in Seq(Message)
             /\ Elements(outgoing'[d]) = Elements(outgoing[d]) \cup Joins(d)
             /\ outgoing[d] = <<>> => Descending(outgoing'[d])
             /\ outgoing[d] \in Seq(Message)
  <2>1. /\ backlog \in Seq(Message) /\ outgoing[d] \in Seq(Message) /\ Ascending(backlog)
        /\ outgoing'[d] = BacklogDelivered(d, c, ids')
    BY <1>1 DEF IInv, TypeOK, BacklogInOrder
  <2> QED
    BY <2>1, BacklogQueue
<1>4. \A d \in Connections \ live : outgoing'[d] = <<>>
  <2>1. ASSUME NEW d \in Connections, d \notin live
        PROVE  outgoing'[d] = <<>>
    <3>1. Joins(d) = {} /\ Elements(outgoing[d]) = {}
      BY <2>1, EmptyElements DEF Recipients, IInv, TypeOK
    <3> QED
      BY <1>3, <3>1, EmptyElements
  <2> QED
    BY <2>1
<1>5. TypeOK'
  <2>1. outgoing' \in [Connections -> Seq(Message)]
    BY <1>1, <1>3
  <2> QED
    BY <1>1, <1>2, <1>4, <2>1 DEF IInv, TypeOK
<1>6. Opened'
  <2>1. ASSUME NEW d \in Connections, owner[d] = NoPeer
        PROVE  wire'[d] = <<>> /\ received[d] = <<>> /\ ~IsIdentified(d)'
    BY <1>2, <2>1, Distinct DEF IInv, Opened
  <2>2. IsIdentified(c)' /\ owner[c] \in Pages
    BY <1>1, <1>2
  <2> QED
    BY <1>1, <2>1, <2>2 DEF Opened
<1>7. QueuesAddressed'
  <2>1. \A r \in Remotes : ids'[r] # NoConnection => owner[ids'[r]] = r
    BY <1>1, <1>2 DEF RemotesOnRecord
  <2>2. ASSUME NEW d \in Connections, NEW m \in Joins(d)
        PROVE  m \in accepted /\ Addressed(m, d)
    <3>1. m \in accepted /\ m \in Message /\ m.target # Server
      BY ElementsAreMessages DEF IInv, TypeOK, BacklogInOrder, AcceptedBeforeWire
    <3>2. d \in Recipients(m, c, ids')
      OBVIOUS
    <3> QED
      BY <1>1, <2>1, <3>1, <3>2, RecipientsAreAddressed
  <2> HIDE DEF Joins
  <2>3. ASSUME NEW d \in Connections,
               NEW m \in Elements(outgoing'[d]) \cup Elements(received[d])
        PROVE  m \in accepted /\ Addressed(m, d)
    BY <1>3, <2>2 DEF IInv, QueuesAddressed
  <2> QED
    BY <1>1, <2>3 DEF QueuesAddressed, Addressed
<1>8. NothingBeforeMaster'
  BY <1>1, Distinct DEF NothingBeforeMaster
<1>9. LoadedOnce' => localID = NoConnection
  <2>1. SUFFICES ASSUME LoadedOnce', localID # NoConnection
                 PROVE  FALSE
    OBVIOUS
  <2>2. localID \in Connections /\ IsIdentified(localID) /\ owner[localID] \in Pages
    BY <2>1 DEF IInv, TypeOK, Opened
  <2> DEFINE S == {d \in Connections : (IsIdentified(d) /\ owner[d] \in Pages)'}
  <2>3. localID \in S /\ c \in S /\ Cardinality(S) <= 1 /\ S \subseteq Connections
    BY <1>1, <1>2, <2>1, <2>2 DEF LoadedOnce
  <2> HIDE DEF S
  <2>4. localID = c
    BY <2>3, AtMostOne
  <2> QED
    BY <1>2, <2>2, <2>4
<1>10. QueuesInOrder'
  <2>1. SUFFICES ASSUME LoadedOnce', NEW d \in Connections
                 PROVE  /\ Ascending(received[d])
                        /\ Descending(outgoing'[d])
                        /\ \A x \in Elements(received[d]), y \in Elements(outgoing'[d]) :
                             x.from = y.from => x.n < y.n
    BY <1>1 DEF QueuesInOrder
  <2>2. outgoing[d] = <<>> /\ received[d] = <<>>
    BY <1>9, <2>1 DEF IInv, NothingBeforeMaster
  <2>3. Ascending(<<>>) /\ Elements(<<>>) = {}
    BY EmptyElements, Len(<<>>) = 0, 1..0 = {} DEF Ascending
  <2> QED
    BY <1>3, <2>2, <2>3
<1>11. MasterMissesNothing'
  <2>1. ASSUME LoadedOnce', NEW m \in accepted, m.target = Master
        PROVE  m \in QueuedFor(c)'
    <3>1. m \in Elements(backlog)
      BY <1>9, <2>1 DEF IInv, MasterMissesNothing, Elements
    <3>2. c \in Recipients(m, c, ids')
      BY <1>2, <2>1, Distinct DEF Recipients, ConnectionFor
    <3>3. m \in Elements(outgoing'[c])
      BY <1>3, <3>1, <3>2
    <3> QED
      BY <3>3 DEF Elements, QueuedFor
  <2>2. localID' # NoConnection
    BY <1>1, Distinct
  <2> QED
    BY <1>1, <2>1, <2>2 DEF MasterMissesNothing
<1> QED
  BY <1>2, <1>5, <1>6, <1>7, <1>8, <1>10, <1>11 DEF IInv

\* A message is relayed, or waits in the backlog.
LEMMA RelayStep ==
    ASSUME IInv, NEW c \in Connections, Relay(c)
    PROVE  IInv'
<1> DEFINE m == Head(wire[c])
<1>1. /\ Arrives(c) /\ IsIdentified(c) /\ c \in live
      /\ accepted' = accepted \cup {m}
      /\ UNCHANGED <<live, identified, ids, localID, owner, sent, received>>
      /\ \/ /\ localID = NoConnection
            /\ backlog' = Append(backlog, m)
            /\ UNCHANGED outgoing
         \/ /\ localID # NoConnection
            /\ Deliver(m)
            /\ UNCHANGED backlog
  BY DEF Relay, Arrives
<1>2. /\ m \in Elements(wire[c]) /\ m \in Message
      /\ wire' \in [Connections -> Seq(Message)]
      /\ \A d \in Connections : d # c => wire'[d] = wire[d]
      /\ Elements(wire'[c]) \subseteq Elements(wire[c])
      /\ Ascending(wire'[c])
      /\ \A x \in Elements(wire'[c]) : m.n < x.n
  BY <1>1, ArrivesTakes DEF IInv
<1> HIDE DEF m
<1>3. m.from = c /\ m.n <= sent /\ m.target # Server
  BY <1>1, <1>2 DEF IInv, WiresInOrder
<1>4. \A d \in Connections : IsIdentified(d)' <=> IsIdentified(d)
  BY <1>1 DEF IsIdentified
<1>5. \A x \in accepted : x.from = m.from => x.n < m.n
  BY <1>2, <1>3 DEF IInv, AcceptedBeforeWire
<1>6. Opened'
  <2>1. ASSUME NEW d \in Connections, owner[d] = NoPeer
        PROVE  wire'[d] = <<>> /\ received[d] = <<>> /\ ~IsIdentified(d)'
    <3>1. d # c
      BY <1>1, <2>1 DEF IInv, TypeOK
    <3> QED
      BY <1>2, <1>4, <2>1, <3>1 DEF IInv, Opened
  <2>2. localID # NoConnection => IsIdentified(localID)' /\ owner[localID] \in Pages
    BY <1>1, <1>4 DEF IInv, TypeOK, Opened
  <2> QED
    BY <1>1, <2>1, <2>2 DEF Opened
<1>7. RemotesOnRecord'
  BY <1>1 DEF IInv, RemotesOnRecord, IsIdentified
<1>8. WiresInOrder'
  <2>1. ASSUME NEW d \in Connections
        PROVE  /\ Ascending(wire'[d])
               /\ \A x \in Elements(wire'[d]) :
                    /\ x.from = d /\ x.n <= sent
                    /\ x.target = Server => x.n = 0
                    /\ IsIdentified(d)' => x.n # 0
    <3>1. Elements(wire'[d]) \subseteq Elements(wire[d]) /\ Ascending(wire'[d])
      BY <1>2 DEF IInv, WiresInOrder
    <3> QED
      BY <1>4, <3>1 DEF IInv, WiresInOrder
  <2> QED
    BY <1>1, <2>1 DEF WiresInOrder
<1>9. AcceptedBeforeWire'
  <2>1. \A x \in accepted : x.from \in Connections
    BY MessageFields DEF IInv, TypeOK
  <2>2. \A d \in Connections : Elements(wire'[d]) \subseteq Elements(wire[d])
    BY <1>2
  <2>3. \A x \in accepted : \A y \in Elements(wire'[x.from]) : x.n < y.n
    BY <2>1, <2>2 DEF IInv, AcceptedBeforeWire
  <2>4. owner[c] # NoPeer
    BY <1>1 DEF IInv, TypeOK
  <2> QED
    BY <1>1, <1>2, <1>3, <2>3, <2>4 DEF IInv, AcceptedBeforeWire
<1>10. CASE /\ localID = NoConnection
            /\ backlog' = Append(backlog, m)
            /\ UNCHANGED outgoing
  <2>1. /\ backlog' \in Seq(Message)
        /\ Elements(backlog') = Elements(backlog) \cup {m}
        /\ Ascending(backlog')
    <3>1. \A x \in Elements(backlog) : x.from = m.from => x.n < m.n
      BY <1>5 DEF IInv, BacklogInOrder
    <3> QED
      BY <1>2, <1>10, <3>1, AppendMessage DEF IInv, TypeOK, BacklogInOrder
  <2>2. TypeOK'
    BY <1>1, <1>2, <1>10, <2>1 DEF IInv, TypeOK
  <2>3. BacklogInOrder'
    BY <1>1, <2>1 DEF IInv, BacklogInOrder
  <2>4. QueuesAddressed'
    BY <1>1, <1>10 DEF IInv, QueuesAddressed, Addressed
  <2>5. NothingBeforeMaster'
    BY <1>1, <1>10 DEF IInv, NothingBeforeMaster
  <2>6. LoadedOnce' => LoadedOnce
    BY <1>1, <1>4, LoadedOnceBefore
  <2>7. QueuesInOrder'
    BY <1>1, <1>10, <2>6 DEF IInv, QueuesInOrder
  <2>8. MasterMissesNothing'
    <3>1. accepted = Elements(backlog)
      BY <1>10 DEF IInv, MasterMissesNothing, Elements
    <3>2. accepted' = Elements(backlog')
      BY <1>1, <2>1, <3>1
    <3>3. localID \notin live
      BY <1>10, Distinct DEF IInv, TypeOK
    <3> QED
      BY <1>1, <3>2, <3>3 DEF MasterMissesNothing, Elements
  <2> QED
    BY <1>6, <1>7, <1>8, <1>9, <2>2, <2>3, <2>4, <2>5, <2>7, <2>8 DEF IInv
<1>11. CASE /\ localID # NoConnection
            /\ Deliver(m)
            /\ UNCHANGED backlog
  <2> DEFINE For(d) == d \in Recipients(m, localID, ids)
  <2>1. ASSUME NEW d \in Connections
        PROVE  /\ outgoing[d] \in Seq(Message) /\ outgoing'[d] \in Seq(Message)
               /\ For(d) => d \in live /\ Addressed(m, d)
               /\ For(d) => Elements(outgoing'[d]) = Elements(outgoing[d]) \cup {m}
               /\ ~For(d) => outgoing'[d] = outgoing[d]
               /\ Descending(outgoing[d]) => Descending(outgoing'[d])
    <3>1. /\ outgoing[d] \in Seq(Message)
          /\ outgoing'[d] = IF For(d) THEN Enqueue(m, outgoing[d]) ELSE outgoing[d]
      BY <1>11 DEF Deliver, IInv, TypeOK
    <3>2. For(d) => d \in live /\ Addressed(m, d)
      <4>1. localID \in Connections /\ owner[localID] \in Pages
        BY <1>11 DEF IInv, TypeOK, Opened
      <4>2. \A r \in Remotes : ids[r] # NoConnection => owner[ids[r]] = r
        BY DEF IInv, RemotesOnRecord
      <4> QED
        BY <1>2, <1>3, <4>1, <4>2, RecipientsAreAddressed
    <3>3. \A x \in Elements(outgoing[d]) : x.from = m.from => x.n < m.n
      BY <1>5 DEF IInv, QueuesAddressed
    <3> HIDE DEF For
    <3>4. CASE For(d)
      BY <1>2, <3>1, <3>2, <3>3, <3>4, EnqueueMessage
    <3>5. CASE ~For(d)
      BY <3>1, <3>5
    <3> QED
      BY <3>1, <3>2, <3>4, <3>5
  <2> HIDE DEF For
  <2>2. TypeOK'
    <3>1. outgoing' \in [Connections -> Seq(Message)]
      <4>1. outgoing' = [d \in Connections |-> outgoing'[d]]
        BY <1>11 DEF Deliver
      <4> QED
        BY <2>1, <4>1
    <3>2. \A d \in Connections \ live : outgoing'[d] = <<>>
      BY <2>1 DEF IInv, TypeOK
    <3> QED
      BY <1>1, <1>2, <1>11, <3>1, <3>2 DEF IInv, TypeOK
  <2>3. BacklogInOrder'
    BY <1>1, <1>11 DEF IInv, BacklogInOrder
  <2>4. QueuesAddressed'
    <3>1. ASSUME NEW d \in Connections,
                 NEW x \in Elements(outgoing'[d]) \cup Elements(received[d])
          PROVE  x \in accepted \cup {m} /\ Addressed(x, d)
      <4>1. x \in Elements(outgoing[d]) \cup Elements(received[d]) =>
              x \in accepted /\ Addressed(x, d)
        BY DEF IInv, QueuesAddressed
      <4>2. \/ x \in Elements(outgoing[d]) \cup Elements(received[d])
            \/ x = m /\ For(d)
        BY <2>1
      <4> QED
        BY <2>1, <4>1, <4>2
    <3> QED
      BY <1>1, <3>1 DEF QueuesAddressed, Addressed
  <2>5. NothingBeforeMaster'
    BY <1>1, <1>11 DEF NothingBeforeMaster
  <2>6. LoadedOnce' => LoadedOnce
    BY <1>1, <1>4, LoadedOnceBefore
  <2>7. QueuesInOrder'
    <3>1. ASSUME LoadedOnce, NEW d \in Connections,
                 NEW x \in Elements(received[d]), NEW y \in Elements(outgoing'[d]),
                 x.from = y.from
          PROVE  x.n < y.n
      <4>1. CASE y \in Elements(outgoing[d])
        BY <3>1, <4>1 DEF IInv, QueuesInOrder
      <4>2. CASE y \notin Elements(outgoing[d])
        <5>1. y = m
          BY <2>1, <3>1, <4>2
        <5>2. x \in accepted
          BY <3>1 DEF IInv, QueuesAddressed
        <5> QED
          BY <1>5, <3>1, <5>1, <5>2
      <4> QED
        BY <4>1, <4>2
    <3>2. ASSUME LoadedOnce, NEW d \in Connections
          PROVE  Ascending(received[d]) /\ Descending(outgoing'[d])
      BY <2>1, <3>2 DEF IInv, QueuesInOrder
    <3> QED
      BY <1>1, <2>6, <3>1, <3>2 DEF QueuesInOrder
  <2>8. MasterMissesNothing'
    <3>1. ASSUME LoadedOnce, localID \in live, NEW x \in accepted \cup {m}, x.target = Master
          PROVE  x \in Elements(received[localID]) \cup Elements(outgoing'[localID])
      <4>1. localID \in Connections
        BY <3>1 DEF IInv, TypeOK
      <4>2. CASE x = m
        <5>1. For(localID)
          BY <3>1, <4>2, Distinct DEF For, Recipients, ConnectionFor
        <5> QED
          BY <2>1, <4>1, <4>2, <5>1
      <4>3. CASE x # m
        <5>1. x \in Elements(received[localID]) \cup Elements(outgoing[localID])
          BY <3>1, <4>3 DEF IInv, MasterMissesNothing, Elements, ReceivedBy, QueuedFor
        <5>2. Elements(outgoing[localID]) \subseteq Elements(outgoing'[localID])
          BY <2>1, <4>1
        <5> QED
          BY <5>1, <5>2
      <4> QED
        BY <4>2, <4>3
    <3> QED
      BY <1>1, <1>11, <2>6, <3>1 DEF MasterMissesNothing, Elements, ReceivedBy, QueuedFor
  <2> QED
    BY <1>6, <1>7, <1>8, <1>9, <2>2, <2>3, <2>4, <2>5, <2>7, <2>8 DEF IInv
<1> QED
  BY <1>1, <1>10, <1>11

\* The oldest message of a queue is written to its connection.
LEMMA WriteStep ==
    ASSUME IInv, NEW c \in Connections, Write(c)
    PROVE  IInv'
<1> DEFINE q == outgoing[c]
           m == Last(outgoing[c])
<1>1. /\ c \in live /\ q # <<>> /\ q \in Seq(Message) /\ received[c] \in Seq(Message)
      /\ received' = [received EXCEPT ![c] = Append(received[c], m)]
      /\ outgoing' = [outgoing EXCEPT ![c] = Dequeue(q)]
      /\ UNCHANGED <<live, identified, ids, localID, backlog, owner, wire, sent, accepted>>
  BY DEF IInv, TypeOK, Write, serverVars
<1>2. /\ m \in Elements(q) /\ m \in Message
      /\ Dequeue(q) \in Seq(Message)
      /\ Elements(q) = Elements(Dequeue(q)) \cup {m}
      /\ Descending(q) =>
           /\ Descending(Dequeue(q))
           /\ \A x \in Elements(Dequeue(q)) : x.from = m.from => m.n < x.n
  BY <1>1, DequeueMessage
<1>3. /\ Append(received[c], m) \in Seq(Message)
      /\ Elements(Append(received[c], m)) = Elements(received[c]) \cup {m}
      /\ Ascending(received[c]) /\ (\A x \in Elements(received[c]) : x.from = m.from => x.n < m.n)
           => Ascending(Append(received[c], m))
  BY <1>1, <1>2, AppendMessage
<1>4. /\ \A d \in Connections : d # c => received'[d] = received[d] /\ outgoing'[d] = outgoing[d]
      /\ received'[c] = Append(received[c], m) /\ outgoing'[c] = Dequeue(q)
  BY <1>1 DEF IInv, TypeOK
<1>5. \A d \in Connections :
        Elements(received'[d]) \cup Elements(outgoing'[d])
          = Elements(received[d]) \cup Elements(outgoing[d])
  BY <1>2, <1>3, <1>4
<1> HIDE DEF q, m
<1>6. \A d \in Connections : IsIdentified(d)' <=> IsIdentified(d)
  BY <1>1 DEF IsIdentified
<1>7. TypeOK'
  <2>1. received' \in [Connections -> Seq(Message)] /\ outgoing' \in [Connections -> Seq(Message)]
    BY <1>1, <1>2, <1>3 DEF IInv, TypeOK
  <2>2. \A d \in Connections \ live : outgoing'[d] = <<>>
    BY <1>1, <1>4 DEF IInv, TypeOK
  <2> QED
    BY <1>1, <2>1, <2>2 DEF IInv, TypeOK
<1>8. Opened'
  <2>1. ASSUME NEW d \in Connections, owner[d] = NoPeer
        PROVE  wire[d] = <<>> /\ received'[d] = <<>> /\ ~IsIdentified(d)'
    <3>1. d # c
      BY <1>1, <2>1 DEF IInv, TypeOK
    <3> QED
      BY <1>4, <1>6, <2>1, <3>1 DEF IInv, Opened
  <2>2. localID # NoConnection => IsIdentified(localID)' /\ owner[localID] \in Pages
    BY <1>1, <1>6 DEF IInv, TypeOK, Opened
  <2> QED
    BY <1>1, <2>1, <2>2 DEF Opened
<1>9. RemotesOnRecord'
  BY <1>1 DEF IInv, RemotesOnRecord, IsIdentified
<1>10. WiresInOrder' /\ AcceptedBeforeWire' /\ BacklogInOrder'
  BY <1>1, <1>6 DEF IInv, WiresInOrder, AcceptedBeforeWire, BacklogInOrder
<1>11. QueuesAddressed'
  BY <1>1, <1>5 DEF IInv, QueuesAddressed, Addressed
<1>12. NothingBeforeMaster'
  BY <1>1 DEF IInv, NothingBeforeMaster, q
<1>13. LoadedOnce' => LoadedOnce
  BY <1>1, <1>6, LoadedOnceBefore
<1>14. QueuesInOrder'
  <2>1. SUFFICES ASSUME LoadedOnce, NEW d \in Connections
                 PROVE  /\ Ascending(received'[d])
                        /\ Descending(outgoing'[d])
                        /\ \A x \in Elements(received'[d]), y \in Elements(outgoing'[d]) :
                             x.from = y.from => x.n < y.n
    BY <1>13 DEF QueuesInOrder
  <2>2. /\ Ascending(received[d])
        /\ Descending(outgoing[d])
        /\ \A x \in Elements(received[d]), y \in Elements(outgoing[d]) :
             x.from = y.from => x.n < y.n
    BY <2>1 DEF IInv, QueuesInOrder
  <2>3. CASE d # c
    BY <1>4, <2>2, <2>3
  <2>4. CASE d = c
    <3>1. /\ Descending(q)
          /\ \A x \in Elements(received[c]), y \in Elements(q) :
               x.from = y.from => x.n < y.n
      BY <2>2, <2>4 DEF q
    <3>2. Ascending(received'[c]) /\ Descending(outgoing'[c])
      BY <1>2, <1>3, <1>4, <2>2, <2>4, <3>1
    <3>3. \A x \in Elements(received'[c]), y \in Elements(outgoing'[c]) :
            x.from = y.from => x.n < y.n
      BY <1>2, <1>3, <1>4, <3>1
    <3> QED
      BY <2>4, <3>2, <3>3
  <2> QED
    BY <2>3, <2>4
<1>15. MasterMissesNothing'
  <2>1. ASSUME localID \in live
        PROVE  ReceivedBy(localID)' \cup QueuedFor(localID)'
                 = ReceivedBy(localID) \cup QueuedFor(localID)
    <3>1. localID \in Connections
      BY <2>1 DEF IInv, TypeOK
    <3>2. Elements(received'[localID]) \cup Elements(outgoing'[localID])
            = Elements(received[localID]) \cup Elements(outgoing[localID])
      BY <1>5, <3>1
    <3>3. /\ ReceivedBy(localID) = Elements(received[localID])
          /\ QueuedFor(localID) = Elements(outgoing[localID])
          /\ ReceivedBy(localID)' = Elements(received'[localID])
          /\ QueuedFor(localID)' = Elements(outgoing'[localID])
      BY <1>1 DEF Elements, ReceivedBy, QueuedFor
    <3> QED
      BY <3>2, <3>3
  <2> QED
    BY <1>1, <1>13, <2>1 DEF IInv, MasterMissesNothing
<1> QED
  BY <1>7, <1>8, <1>9, <1>10, <1>11, <1>12, <1>14, <1>15 DEF IInv

\* A connection is closed.
LEMMA CloseStep ==
    ASSUME IInv, NEW c \in Connections, CloseWebsocket(c)
    PROVE  IInv'
<1>1. /\ c \in live /\ live' = live \ {c}
      /\ wire' = [wire EXCEPT ![c] = <<>>]
      /\ outgoing' = [outgoing EXCEPT ![c] = <<>>]
      /\ ids' = IF c = localID
                  THEN ids
                  ELSE [p \in Peers |-> IF ids[p] = c THEN NoConnection ELSE ids[p]]
      /\ UNCHANGED <<identified, localID, backlog, owner, sent, accepted, received>>
  BY DEF CloseWebsocket
<1>2. /\ \A d \in Connections : d # c => wire'[d] = wire[d] /\ outgoing'[d] = outgoing[d]
      /\ wire'[c] = <<>> /\ outgoing'[c] = <<>>
      /\ Elements(<<>>) = {} /\ Ascending(<<>>) /\ Descending(<<>>)
  <2>1. Ascending(<<>>) /\ Descending(<<>>)
    BY Len(<<>>) = 0, 1..0 = {} DEF Ascending, Descending
  <2> QED
    BY <1>1, <2>1, EmptyElements DEF IInv, TypeOK
<1>3. \A d \in Connections : IsIdentified(d)' <=> IsIdentified(d)
  BY <1>1 DEF IsIdentified
<1>4. \A d \in Connections : /\ Elements(wire'[d]) \subseteq Elements(wire[d])
                             /\ Elements(outgoing'[d]) \subseteq Elements(outgoing[d])
  BY <1>2
<1>5. ids' \in [Peers -> Connections \cup {NoConnection}]
  BY <1>1 DEF IInv, TypeOK
<1>6. \A p \in Peers : /\ ids'[p] # NoConnection => ids'[p] = ids[p]
                       /\ ids[p] # c => ids'[p] = ids[p]
                       /\ c # localID => ids'[p] # c
  <2>1. NoConnection # c
    BY Distinct
  <2>2. CASE c = localID
    BY <1>1, <2>2
  <2>3. CASE c # localID
    BY <1>1, <2>1, <2>3
  <2> QED
    BY <2>2, <2>3
<1>7. TypeOK'
  <2>1. <<>> \in Seq(Message)
    OBVIOUS
  <2>2. wire' \in [Connections -> Seq(Message)] /\ outgoing' \in [Connections -> Seq(Message)]
    BY <1>1, <2>1 DEF IInv, TypeOK
  <2>3. \A d \in Connections \ live' : outgoing'[d] = <<>>
    BY <1>1, <1>2 DEF IInv, TypeOK
  <2> QED
    BY <1>1, <1>5, <2>2, <2>3 DEF IInv, TypeOK
<1>8. Opened'
  <2>1. ASSUME NEW d \in Connections, owner[d] = NoPeer
        PROVE  wire'[d] = <<>> /\ received[d] = <<>> /\ ~IsIdentified(d)'
    BY <1>2, <1>3, <2>1 DEF IInv, Opened
  <2>2. localID # NoConnection => IsIdentified(localID)' /\ owner[localID] \in Pages
    BY <1>1, <1>3 DEF IInv, TypeOK, Opened
  <2> QED
    BY <1>1, <2>1, <2>2 DEF Opened
<1>9. RemotesOnRecord'
  <2>1. ASSUME NEW r \in Remotes, ids'[r] # NoConnection
        PROVE  ids'[r] \in live' /\ owner[ids'[r]] = r /\ IsIdentified(ids[r])'
    <3>1. /\ ids'[r] = ids[r] /\ ids[r] # NoConnection /\ ids[r] \in Connections
          /\ c # localID => ids[r] # c
      BY <1>5, <1>6, <2>1, Distinct
    <3>2. ids[r] \in live /\ owner[ids[r]] = r /\ IsIdentified(ids[r])
      BY <3>1 DEF IInv, RemotesOnRecord
    <3>3. ids[r] # c
      <4>1. CASE c = localID
        <5>1. owner[c] \in Pages
          BY <4>1, Distinct DEF IInv, Opened
        <5> QED
          BY <3>2, <5>1, Distinct
      <4> QED
        BY <3>1, <4>1
    <3> QED
      BY <1>1, <1>3, <3>1, <3>2, <3>3
  <2>2. ASSUME NEW i \in 1..Len(identified),
               identified[i] \in live', owner[identified[i]] \in Remotes,
               \A j \in (i + 1)..Len(identified) :
                 owner[identified[j]] # owner[identified[i]]
        PROVE  ids'[owner[identified[i]]] = identified[i]
    <3>1. identified[i] \in live /\ identified[i] # c
      BY <1>1, <2>2
    <3>2. ids[owner[identified[i]]] = identified[i]
      BY <2>2, <3>1 DEF IInv, RemotesOnRecord
    <3> QED
      BY <1>6, <2>2, <3>1, <3>2, Distinct
  <2>3. identified' = identified /\ owner' = owner
    BY <1>1
  <2> QED
    BY <2>1, <2>2, <2>3 DEF RemotesOnRecord
<1>10. WiresInOrder'
  <2>1. ASSUME NEW d \in Connections
        PROVE  /\ Ascending(wire'[d])
               /\ \A x \in Elements(wire'[d]) :
                    /\ x.from = d /\ x.n <= sent
                    /\ x.target = Server => x.n = 0
                    /\ IsIdentified(d)' => x.n # 0
    <3>1. Ascending(wire'[d])
      BY <1>2 DEF IInv, WiresInOrder
    <3> QED
      BY <1>3, <1>4, <3>1 DEF IInv, WiresInOrder
  <2> QED
    BY <1>1, <2>1 DEF WiresInOrder
<1>11. AcceptedBeforeWire'
  <2>1. \A m \in accepted : m.from \in Connections
    BY MessageFields DEF IInv, TypeOK
  <2> QED
    BY <1>1, <1>4, <2>1 DEF IInv, AcceptedBeforeWire
<1>12. BacklogInOrder'
  BY <1>1 DEF IInv, BacklogInOrder
<1>13. QueuesAddressed'
  <2>1. ASSUME NEW d \in Connections,
               NEW m \in Elements(outgoing'[d]) \cup Elements(received[d])
        PROVE  m \in accepted /\ Addressed(m, d)
    <3>1. m \in Elements(outgoing[d]) \cup Elements(received[d])
      BY <1>4, <2>1
    <3> QED
      BY <3>1 DEF IInv, QueuesAddressed
  <2> QED
    BY <1>1, <2>1 DEF QueuesAddressed, Addressed
<1>14. NothingBeforeMaster'
  BY <1>1, <1>2 DEF IInv, NothingBeforeMaster
<1>15. LoadedOnce' => LoadedOnce
  BY <1>1, <1>3, LoadedOnceBefore
<1>16. QueuesInOrder'
  <2>1. SUFFICES ASSUME LoadedOnce, NEW d \in Connections
                 PROVE  /\ Ascending(received[d])
                        /\ Descending(outgoing'[d])
                        /\ \A x \in Elements(received[d]), y \in Elements(outgoing'[d]) :
                             x.from = y.from => x.n < y.n
    BY <1>1, <1>15 DEF QueuesInOrder
  <2>2. /\ Ascending(received[d])
        /\ Descending(outgoing[d])
        /\ \A x \in Elements(received[d]), y \in Elements(outgoing[d]) :
             x.from = y.from => x.n < y.n
    BY <2>1 DEF IInv, QueuesInOrder
  <2>3. Descending(outgoing'[d])
    BY <1>2, <2>2
  <2> QED
    BY <1>4, <2>2, <2>3
<1>17. MasterMissesNothing'
  <2>1. localID \in live' => localID \in live /\ QueuedFor(localID)' = QueuedFor(localID)
    <3>1. ASSUME localID \in live'
          PROVE  localID \in live /\ outgoing'[localID] = outgoing[localID]
      BY <1>1, <1>2, <3>1 DEF IInv, TypeOK
    <3> QED
      BY <1>1, <3>1 DEF QueuedFor
  <2> QED
    BY <1>1, <1>15, <2>1 DEF IInv, MasterMissesNothing, ReceivedBy
<1> QED
  BY <1>7, <1>8, <1>9, <1>10, <1>11, <1>12, <1>13, <1>14, <1>16, <1>17 DEF IInv

-----------------------------------------------------------------------------
(* The theorems.                                                           *)

\* No step leaves the inductive invariant.
LEMMA NextIInv == IInv /\ [Next]_vars => IInv'
<1> SUFFICES ASSUME IInv, [Next]_vars
             PROVE  IInv'
  OBVIOUS
<1>1. CASE UNCHANGED vars
  BY <1>1 DEF vars, serverVars, IInv, TypeOK, Opened, RemotesOnRecord, WiresInOrder,
     AcceptedBeforeWire, BacklogInOrder, QueuesAddressed, Addressed, NothingBeforeMaster,
     QueuesInOrder, MasterMissesNothing, LoadedOnce, IsIdentified, ReceivedBy, QueuedFor
<1>2. CASE Next
  BY <1>2, OpenStep, SendStep, IdentifyRemoteStep, IdentifyMasterStep, RelayStep,
     WriteStep, CloseStep DEF Next
<1> QED
  BY <1>1, <1>2

\* In every reachable state of the websocket server, for any peers and any
\* bounds, the messages on the wires, in the backlog, in the queues and received
\* are the ones the inductive invariant allows.
THEOREM Invariant == Spec => []IInv
BY InitIInv, NextIInv, PTL DEF Spec

\* The variables have their types, only opened connections are live, and
\* nothing is queued for a connection that is gone.
THEOREM TypeCorrect == Spec => []TypeOK
<1>1. IInv => TypeOK
  BY DEF IInv
<1> QED
  BY <1>1, Invariant, PTL

\* websocketIdentifiers has the latest identified connection of a remote as long
\* as it is live, and no connection that is gone.
THEOREM RemotesStayOnRecord == Spec => []RemotesOnRecord
<1>1. IInv => RemotesOnRecord
  BY DEF IInv
<1> QED
  BY <1>1, Invariant, PTL

\* _deliverMessage pushes a message to nobody but its addressee, and a broadcast
\* back to its source only on request.
THEOREM RoutedToAddressees == Spec => []RoutedToAddressee
<1>1. IInv => RoutedToAddressee
  BY DEF IInv, QueuesAddressed, Addressed, Elements, RoutedToAddressee, ReceivedBy
<1> QED
  BY <1>1, Invariant, PTL

\* Until the master's page is reloaded, messages of one connection arrive on
\* another in the order they were sent and never twice, through the backlog and
\* the queues.
THEOREM DeliveredInOrder == Spec => []OrderedUntilReload
<1>1. IInv => OrderedUntilReload
  <2>1. SUFFICES ASSUME IInv, LoadedOnce, NEW c \in Connections,
                        NEW i \in 1..Len(received[c]), NEW j \in 1..Len(received[c]),
                        i < j, received[c][i].from = received[c][j].from
                 PROVE  received[c][i].n < received[c][j].n
    BY DEF OrderedUntilReload, InOrderOnce
  <2>2. Ascending(received[c])
    BY <2>1 DEF IInv, QueuesInOrder
  <2> QED
    BY <2>1, <2>2 DEF Ascending
<1> QED
  BY <1>1, Invariant, PTL

\* What is accepted for the master waits in the backlog, or is in the queue of
\* its websocket, or was received by it.
THEOREM MasterIsSentAll == Spec => []MasterMissesNothing
<1>1. IInv => MasterMissesNothing
  BY DEF IInv
<1> QED
  BY <1>1, Invariant, PTL
=============================================================================
