---------------------------- MODULE DatastoreProofs ----------------------------
(***************************************************************************)
(* Proofs about Datastore, for any remotes, entries, files and bounds: the *)
(* invariants that its run checks.                                         *)
(*                                                                         *)
(* The argument is in layers, each of which uses the ones before.  Who     *)
(* sends which message in which session comes first (Joining); from it     *)
(* follows what a page has been given when it is ready.  The values of an  *)
(* entry that the master sets grow along every path (MastersEntries); what *)
(* every device knows of an entry comes next (EntriesKnown).  The messages *)
(* of a handshake pass each other nowhere (HandshakesInOrder), so a page   *)
(* that is ready is sent no more parts, and the values of an entry that a  *)
(* remote sets grow as well on the way to its witnesses (RemotesEntries).  *)
(***************************************************************************)
EXTENDS Datastore, SetInduction, SequenceTheorems, TLAPS

Out(d) == ToSet(out[d])
In(d) == ToSet(inbox[d])

\* x is in front of y in the sequence s.
Precedes(s, x, y) ==
    \E i, j \in 1..Len(s) : i < j /\ s[i] = x /\ s[j] = y

InSession == {"remoteinfo", "part", "partack", "infoack"}

\* The remote whose session a message belongs to.
PeerOf(m) == IF m.name \in {"remoteinfo", "partack"} THEN m.from ELSE m.to

-----------------------------------------------------------------------------
(* Who is sent what, and in which session.                                 *)

\* What a device may have sent: a remote answers, for its own page, and sets
\* its own entries; the master sends parts and acknowledges.
SendsOnly ==
    /\ \A r \in Remotes : \A m \in Out(r) :
         /\ m.name \in {"identification", "remoteinfo", "partack", "update"}
         /\ m.name \in {"remoteinfo", "partack"} => m.from = r
         /\ m.name = "remoteinfo" => m.session = page[r]
         /\ m.name = "update" => Writer[m.key] = r
    /\ \A m \in Out(Master) :
         /\ m.name \in {"part", "infoack", "update"}
         /\ m.name = "update" => Writer[m.key] = Master

\* What a device may get.
GetsOnly ==
    /\ \A r \in Remotes : \A m \in In(r) :
         /\ m.name \in {"part", "infoack", "update"}
         /\ m.name \in {"part", "infoack"} => m.to = r
         /\ m.name = "update" => Writer[m.key] # r
    /\ \A m \in In(Master) :
         /\ m.name \in {"remoteinfo", "partack", "update"}
         /\ m.name = "update" => Writer[m.key] # Master

\* A session that was not opened has left no trace, and one that was belongs to
\* one remote.
SessionsApart ==
    /\ \A r \in Remotes : page[r] <= opened
    /\ \A q, r \in Remotes : page[q] = page[r] /\ page[q] # Closed => q = r
    /\ \A d \in Devices : \A m \in Out(d) \cup In(d) :
         m.name \in InSession =>
           /\ m.session <= opened
           /\ \A q \in Remotes : page[q] = m.session => q = PeerOf(m)
    /\ \A r \in Remotes : \A l \in loading[r] :
         /\ l[1] <= opened
         /\ \A q \in Remotes : page[q] = l[1] => q = r
    /\ \A s \in Sessions : acked[s] # {} => s <= opened

\* Before its identification was taken, a page has sent its greeting only and
\* was sent updates only, and the master knows nothing of its session.
GreetsFirst ==
    \A r \in Remotes :
        /\ page[r] # Closed /\ r \notin identified =>
             /\ out[r] = Greeting(r, page[r])
             /\ loading[r] = {} /\ equipped[r] = {}
             /\ \A m \in In(r) : m.name = "update"
             /\ \A m \in In(Master) : m.name = "remoteinfo" => m.session # page[r]
             /\ \A m \in Out(Master) : m.name = "part" => m.session # page[r]
        /\ r \in identified => \A m \in Out(r) : m.name # "identification"

\* A part is acknowledged for the present page of a remote only when it has
\* settled there, and the remoteinfo only when all parts were acknowledged.
AcksAreEarned ==
    /\ \A r \in Remotes : page[r] # Closed =>
         /\ acked[page[r]] \subseteq equipped[r]
         /\ \A m \in Out(r) \cup In(Master) :
              m.name = "partack" /\ m.session = page[r] => m.part \in equipped[r]
    /\ \A d \in Devices : \A m \in Out(d) \cup In(d) :
         m.name = "infoack" => acked[m.session] = Parts
    /\ \A r \in ready : acked[page[r]] = Parts

Joining == TypeOK /\ SendsOnly /\ GetsOnly /\ SessionsApart /\ GreetsFirst /\ AcksAreEarned

-----------------------------------------------------------------------------
(* The messages of a handshake keep their order.                           *)

\* A remoteinfo of r, or a part for it.
OfHandshake(m, r) ==
    \/ m.name = "remoteinfo" /\ m.from = r
    \/ m.name = "part" /\ m.to = r

\* x is in front of y on the way from a page to the master and back, where a
\* remoteinfo is turned into parts.
Ahead(r, x, y) ==
    \/ Precedes(inbox[r], x, y) \/ Precedes(out[Master], x, y)
    \/ Precedes(inbox[Master], x, y) \/ Precedes(out[r], x, y)
    \/ x \in In(r) /\ y \in Out(Master) \cup In(Master) \cup Out(r)
    \/ x \in Out(Master) /\ y \in In(Master) \cup Out(r)
    \/ x \in In(Master) /\ y \in Out(r)

OnTheWay(r) == In(r) \cup Out(Master) \cup In(Master) \cup Out(r)

\* The parts that the present page of r has been given.
Done(r) ==
    {p \in Parts : \/ p \in acked[page[r]]
                   \/ <<page[r], p>> \in loading[r]
                   \/ \E m \in Out(r) \cup In(Master) :
                        /\ m.name = "partack" /\ m.from = r
                        /\ m.session = page[r] /\ m.part = p}

\* After p of the present session of r comes only another part of it.
ComesAfter(y, r, p) == y.name = "part" /\ y.session = page[r] /\ y.part # p

\* Nothing of an older session, and no part twice, follows in a handshake.
HandshakeOrder(r) ==
    page[r] # Closed =>
        /\ \A x, y \in OnTheWay(r) :
             /\ Ahead(r, x, y) /\ OfHandshake(x, r) /\ OfHandshake(y, r)
             /\ x.session = page[r]
             => x.name = "part" /\ ComesAfter(y, r, x.part)
        /\ \A p \in Done(r), y \in OnTheWay(r) :
             OfHandshake(y, r) => ComesAfter(y, r, p)

HandshakesInOrder == \A r \in Remotes : HandshakeOrder(r)

-----------------------------------------------------------------------------
(* The values of an entry.                                                 *)

\* The value a message has for the entry k, if any.
Value(m, k) ==
    IF m.name = "update" /\ m.key = k
      THEN m.value
      ELSE IF m.name = "part" THEN m.data[k] ELSE Unset

IsUpdate(m, k) == m.name = "update" /\ m.key = k

IsData(m) == m.name = "part" /\ m.part = "data"

\* No value is newer than the last write.
ValuesBounded ==
    \A d \in Devices, k \in Keys :
        /\ data[d][k] <= writes
        /\ \A m \in Out(d) \cup In(d) : Value(m, k) <= writes

\* The message sets the entry k, or is the whole store.
Carries(m, k) == Value(m, k) # Unset \/ IsData(m)

\* x is in front of y on the way from the master to r.
Before(r, x, y) ==
    \/ Precedes(inbox[r], x, y) \/ Precedes(out[Master], x, y)
    \/ x \in In(r) /\ y \in Out(Master)

\* The values of an entry that the master sets grow on the way to a page up to
\* the master's own value.
Rising(k, r) ==
    /\ data[r][k] <= data[Master][k]
    /\ \A m \in In(r) \cup Out(Master) : Value(m, k) <= data[Master][k]
    /\ page[r] # Closed =>
         \A m \in In(r) \cup Out(Master) : Carries(m, k) => data[r][k] <= Value(m, k)
    /\ \A x, y \in In(r) \cup Out(Master) :
         Before(r, x, y) /\ Carries(y, k) => Value(x, k) <= Value(y, k)

\* The master has yet to tell its own value.
Untold(k) == \E u \in Out(Master) : IsUpdate(u, k) /\ u.value = data[Master][k]

\* The master's own value is, or will be, on a page that was given the data.
Arriving(k, r) ==
    /\ page[r] # Closed
    /\ "data" \in equipped[r] \/ \E m \in In(r) : IsData(m)
    => \/ data[r][k] = data[Master][k]
       \/ \E m \in In(r) : Value(m, k) = data[Master][k]
       \/ Untold(k)

\* An entry that the master sets.
MastersEntry(k) ==
    /\ \A r \in Remotes : Rising(k, r) /\ Arriving(k, r)
    /\ \A m \in Out(Master) : IsData(m) => Value(m, k) = data[Master][k] \/ Untold(k)

MastersEntries == \A k \in Keys : Writer[k] = Master => MastersEntry(k)

\* An update by the remote w that is not relayed yet is newer than the values of
\* its entry elsewhere, and than those in front of it.
Newest(k, w) ==
    \A u \in Out(w) : IsUpdate(u, k) =>
        /\ \A d \in Devices : d # w =>
             data[d][k] < u.value /\ \A m \in Out(d) : Value(m, k) < u.value
        /\ \A d \in Devices : \A m \in In(d) : Value(m, k) < u.value
        /\ \A m \in Out(w) : Precedes(out[w], m, u) => Value(m, k) < u.value

\* One that is relayed is newer than what it overtakes.
InTurn(k) ==
    \A d \in Devices : \A u \in In(d) : IsUpdate(u, k) =>
        /\ data[d][k] < u.value
        /\ \A m \in In(d) : Precedes(inbox[d], m, u) => Value(m, k) < u.value

\* A remote w that has yet to tell what it set is ready, and its own value is
\* the newest that it has to tell.
TellsItsOwn(k, w) ==
    (\E u \in Out(w) : IsUpdate(u, k)) =>
        /\ w \in ready
        /\ \A u \in Out(w) : IsUpdate(u, k) => u.value <= data[w][k]
        /\ \E u \in Out(w) : IsUpdate(u, k) /\ u.value = data[w][k]

\* The witness d of an entry of the remote w has, or will have, the value v.
Settles(d, k, w, v) ==
    IF d = w
      THEN data[d][k] = v \/ \E u \in Out(d) : IsUpdate(u, k)
      ELSE /\ data[d][k] <= v
           /\ \A m \in In(d) : Value(m, k) <= v
           /\ data[d][k] = v \/ \E u \in In(d) : IsUpdate(u, k) /\ u.value = v

WitnessesSettle(k, w) == \E v \in 0..MaxWrites : \A d \in witnesses[k] : Settles(d, k, w, v)

\* An entry that a remote sets.
RemotesEntries ==
    \A k \in Keys : \A w \in Remotes : Writer[k] = w =>
        Newest(k, w) /\ InTurn(k) /\ TellsItsOwn(k, w) /\ WitnessesSettle(k, w)

\* Only who is ready, or the master, is a witness.
WitnessesReady == \A k \in Keys : witnesses[k] \subseteq ready \cup {Master}

-----------------------------------------------------------------------------
(* Whether an entry is set.                                                *)

\* The device d has the entry k, or will have.
Knows(d, k) == data[d][k] # Unset \/ \E m \in In(d) : Value(m, k) # Unset

IsInfo(m, r) == m.name = "remoteinfo" /\ m.from = r /\ m.session = page[r]

\* The master knows an entry of the remote w before a third one does.
MasterKnows(k, w) ==
    /\ \A m \in Out(Master) : Value(m, k) # Unset => Knows(Master, k)
    /\ \A r \in Remotes : r # w /\ Knows(r, k) => Knows(Master, k)
    /\ page[w] # Closed /\ Knows(w, k) =>
         Knows(Master, k) \/ \E u \in Out(w) : IsUpdate(u, k)
    /\ (\E u \in Out(w) : IsUpdate(u, k)) => Knows(w, k) /\ w \in identified

\* The remoteinfo of the page of r has not been answered.
Greeted(r) == \E x \in Out(r) \cup In(Master) : IsInfo(x, r)

\* An entry that the master knows is known to the page of r, or comes with its
\* data: its remoteinfo arrives after the entry at the master.
PageKnows(k, r) ==
    page[r] # Closed =>
        /\ data[Master][k] # Unset =>
             \/ Knows(r, k) \/ Greeted(r)
             \/ \E m \in Out(Master) :
                  m.name = "part" /\ m.to = r /\ m.session = page[r] /\ Value(m, k) # Unset
        /\ \A u \in In(Master) : IsUpdate(u, k) =>
             /\ Knows(r, k) \/ Greeted(r)
             /\ \A x \in In(Master) :
                  IsInfo(x, r) /\ Precedes(inbox[Master], x, u) => Knows(r, k)

EntriesKnown ==
    \A k \in Keys : \A w \in Remotes : Writer[k] = w =>
        MasterKnows(k, w) /\ \A r \in Remotes : PageKnows(k, r)

-----------------------------------------------------------------------------
(* Lemmas on sequences.                                                    *)

\* The members of a sequence.
LEMMA Members ==
    ASSUME NEW T, NEW s \in Seq(T)
    PROVE  /\ ToSet(s) = {s[i] : i \in 1..Len(s)} /\ ToSet(s) \subseteq T
           /\ Len(s) \in Nat
           /\ s # <<>> => ToSet(s) # {}
           /\ \A x, y : Precedes(s, x, y) => x \in ToSet(s) /\ y \in ToSet(s)
<1>1. /\ Len(s) \in Nat /\ DOMAIN s = 1..Len(s)
      /\ \A i \in 1..Len(s) : s[i] \in T
  BY LenProperties, ElementOfSeq
<1>2. ToSet(s) = {s[i] : i \in 1..Len(s)}
  BY <1>1 DEF ToSet
<1>3. ASSUME s # <<>>
      PROVE  s[1] \in ToSet(s)
  <2>1. 1 \in 1..Len(s)
    BY <1>1, <1>3, EmptySeq
  <2> QED
    BY <1>2, <2>1
<1> QED
  BY <1>1, <1>2, <1>3 DEF Precedes

\* An empty sequence has no members.
LEMMA NoMembers == ToSet(<<>>) = {} /\ \A x, y : ~Precedes(<<>>, x, y)
<1>1. Len(<<>>) = 0 /\ 1..0 = {} /\ DOMAIN <<>> = {}
  OBVIOUS
<1> QED
  BY <1>1 DEF ToSet, Precedes

\* t is s without m, which is at the front.
Taken(s, t, m) ==
    /\ m \in ToSet(s)
    /\ ToSet(s) = ToSet(t) \cup {m}
    /\ \A y \in ToSet(t) : Precedes(s, m, y)
    /\ \A x, y : Precedes(t, x, y) => Precedes(s, x, y)
    /\ \A x, y : Precedes(s, x, y) => y \in ToSet(t)

\* t is s with the members of u, which are in that order, at the end.
Joined(s, t, u) ==
    /\ ToSet(t) = ToSet(s) \cup ToSet(u)
    /\ \A x, y : Precedes(t, x, y) <=> \/ Precedes(s, x, y)
                                       \/ Precedes(u, x, y)
                                       \/ x \in ToSet(s) /\ y \in ToSet(u)

\* Taking the first member of a sequence.
LEMMA TakingFirst ==
    ASSUME NEW T, NEW s \in Seq(T), s # <<>>
    PROVE  Head(s) \in T /\ Tail(s) \in Seq(T) /\ Taken(s, Tail(s), Head(s))
<1> DEFINE t == Tail(s)
           n == Len(s)
<1>1. /\ Head(s) \in T /\ t \in Seq(T)
      /\ n \in Nat \ {0} /\ Len(t) = n - 1
      /\ Head(s) = s[1]
      /\ \A i \in 1..(n - 1) : t[i] = s[i + 1]
  BY HeadTailProperties, EmptySeq, LenProperties
<1>2. ToSet(s) = {s[i] : i \in 1..n} /\ ToSet(t) = {t[i] : i \in 1..(n - 1)}
  BY <1>1, Members
<1> HIDE DEF t, n
<1>3. \A i \in 1..(n - 1) : i + 1 \in 1..n /\ 1 < i + 1 /\ t[i] = s[i + 1]
  BY <1>1
<1>4. \A i \in 1..n : i # 1 => i - 1 \in 1..(n - 1) /\ t[i - 1] = s[i]
  <2>1. ASSUME NEW i \in 1..n, i # 1
        PROVE  i - 1 \in 1..(n - 1) /\ (i - 1) + 1 = i
    BY <1>1, <2>1
  <2> QED
    BY <1>1, <2>1
<1>5. 1 \in 1..n
  BY <1>1
<1>6. Head(s) \in ToSet(s) /\ ToSet(s) = ToSet(t) \cup {Head(s)}
  <2>1. Head(s) \in ToSet(s)
    BY <1>1, <1>2, <1>5
  <2>2. \A i \in 1..(n - 1) : t[i] \in ToSet(s)
    BY <1>2, <1>3
  <2>3. \A i \in 1..n : s[i] \in ToSet(t) \cup {Head(s)}
    BY <1>1, <1>2, <1>4
  <2> QED
    BY <1>2, <2>1, <2>2, <2>3
<1>7. \A y \in ToSet(t) : Precedes(s, Head(s), y)
  BY <1>1, <1>2, <1>3, <1>5 DEF Precedes, n
<1>8. ASSUME NEW x, NEW y, Precedes(t, x, y)
      PROVE  Precedes(s, x, y)
  <2>1. PICK i \in 1..(n - 1), j \in 1..(n - 1) : i < j /\ t[i] = x /\ t[j] = y
    BY <1>1, <1>8 DEF Precedes
  <2>2. i + 1 \in 1..n /\ j + 1 \in 1..n /\ i + 1 < j + 1
    BY <1>1, <2>1
  <2>3. s[i + 1] = x /\ s[j + 1] = y
    BY <1>3, <2>1
  <2> QED
    BY <2>2, <2>3 DEF Precedes, n
<1>9. ASSUME NEW x, NEW y, Precedes(s, x, y)
      PROVE  y \in ToSet(t)
  <2>1. PICK i \in 1..n, j \in 1..n : i < j /\ s[i] = x /\ s[j] = y
    BY <1>9 DEF Precedes, n
  <2>2. j # 1
    BY <1>1, <2>1
  <2> QED
    BY <1>2, <1>4, <2>1, <2>2
<1> QED
  BY <1>1, <1>6, <1>7, <1>8, <1>9 DEF Taken, t

\* Joining two sequences.
LEMMA JoiningTwo ==
    ASSUME NEW T, NEW s \in Seq(T), NEW u \in Seq(T)
    PROVE  s \o u \in Seq(T) /\ Joined(s, s \o u, u)
<1> DEFINE t == s \o u
           n == Len(s)
           k == Len(u)
<1>1. /\ t \in Seq(T) /\ Len(t) = n + k /\ n \in Nat /\ k \in Nat
      /\ \A i \in 1..(n + k) : t[i] = IF i <= n THEN s[i] ELSE u[i - n]
  BY ConcatProperties, LenProperties
<1>2. /\ ToSet(s) = {s[i] : i \in 1..n} /\ ToSet(u) = {u[i] : i \in 1..k}
      /\ ToSet(t) = {t[i] : i \in 1..(n + k)}
  BY <1>1, Members
<1> HIDE DEF t, n, k
<1>3. \A i \in 1..n : i \in 1..(n + k) /\ t[i] = s[i]
  BY <1>1
<1>4. \A i \in 1..k : i + n \in 1..(n + k) /\ t[i + n] = u[i]
  <2>1. ASSUME NEW i \in 1..k
        PROVE  i + n \in 1..(n + k) /\ ~(i + n <= n) /\ (i + n) - n = i
    BY <1>1
  <2> QED
    BY <1>1, <2>1
<1>5. \A i \in 1..(n + k) : \/ i \in 1..n /\ t[i] = s[i]
                            \/ ~(i <= n) /\ i - n \in 1..k /\ t[i] = u[i - n]
  BY <1>1
<1>6. ToSet(t) = ToSet(s) \cup ToSet(u)
  BY <1>2, <1>3, <1>4, <1>5
<1>7. ASSUME NEW x, NEW y, Precedes(t, x, y)
      PROVE  \/ Precedes(s, x, y) \/ Precedes(u, x, y)
             \/ x \in ToSet(s) /\ y \in ToSet(u)
  <2>1. PICK i \in 1..(n + k), j \in 1..(n + k) : i < j /\ t[i] = x /\ t[j] = y
    BY <1>1, <1>7 DEF Precedes
  <2>2. CASE i \in 1..n /\ j \in 1..n
    BY <1>3, <2>1, <2>2 DEF Precedes, n
  <2>3. CASE i \in 1..n /\ j \notin 1..n
    <3>1. s[i] = x
      BY <1>3, <2>1, <2>3
    <3>2. j - n \in 1..k /\ u[j - n] = y
      BY <1>5, <2>1, <2>3
    <3> QED
      BY <1>2, <2>3, <3>1, <3>2
  <2>4. CASE i \notin 1..n
    <3>1. i - n \in 1..k /\ u[i - n] = x /\ ~(i <= n)
      BY <1>5, <2>1, <2>4
    <3>2. j \notin 1..n
      BY <1>1, <2>1, <3>1
    <3>3. j - n \in 1..k /\ u[j - n] = y
      BY <1>5, <2>1, <3>2
    <3>4. i - n < j - n
      BY <1>1, <2>1
    <3> QED
      BY <3>1, <3>3, <3>4 DEF Precedes, k
  <2> QED
    BY <2>2, <2>3, <2>4
<1>8. ASSUME NEW x, NEW y,
             \/ Precedes(s, x, y) \/ Precedes(u, x, y)
             \/ x \in ToSet(s) /\ y \in ToSet(u)
      PROVE  Precedes(t, x, y)
  <2>1. CASE Precedes(s, x, y)
    <3>1. PICK i \in 1..n, j \in 1..n : i < j /\ s[i] = x /\ s[j] = y
      BY <2>1 DEF Precedes, n
    <3> QED
      BY <1>1, <1>3, <3>1 DEF Precedes
  <2>2. CASE Precedes(u, x, y)
    <3>1. PICK i \in 1..k, j \in 1..k : i < j /\ u[i] = x /\ u[j] = y
      BY <2>2 DEF Precedes, k
    <3>2. i + n \in 1..(n + k) /\ j + n \in 1..(n + k) /\ i + n < j + n
      BY <1>1, <3>1
    <3>3. t[i + n] = x /\ t[j + n] = y
      BY <1>4, <3>1
    <3> QED
      BY <1>1, <3>2, <3>3 DEF Precedes
  <2>3. CASE x \in ToSet(s) /\ y \in ToSet(u)
    <3>1. PICK i \in 1..n, j \in 1..k : s[i] = x /\ u[j] = y
      BY <1>2, <2>3
    <3>2. i \in 1..(n + k) /\ j + n \in 1..(n + k) /\ i < j + n
      BY <1>1, <3>1
    <3>3. t[i] = x /\ t[j + n] = y
      BY <1>3, <1>4, <3>1
    <3> QED
      BY <1>1, <3>2, <3>3 DEF Precedes
  <2> QED
    BY <1>8, <2>1, <2>2, <2>3
<1> QED
  BY <1>1, <1>6, <1>7, <1>8 DEF Joined, t

\* A sequence of one member.
LEMMA OneMember ==
    ASSUME NEW T, NEW m \in T
    PROVE  <<m>> \in Seq(T) /\ ToSet(<<m>>) = {m} /\ \A x, y : ~Precedes(<<m>>, x, y)
<1>1. /\ <<m>> \in Seq(T) /\ Len(<<m>>) = 1 /\ 1..1 = {1} /\ <<m>>[1] = m
      /\ DOMAIN <<m>> = {1}
  OBVIOUS
<1> QED
  BY <1>1 DEF ToSet, Precedes

\* t is s with m at the end.
Put(s, t, m) ==
    /\ ToSet(t) = ToSet(s) \cup {m}
    /\ \A x, y : Precedes(t, x, y) <=> Precedes(s, x, y) \/ (x \in ToSet(s) /\ y = m)

\* Putting one member at the end.
LEMMA PuttingLast ==
    ASSUME NEW T, NEW s \in Seq(T), NEW m \in T
    PROVE  /\ Append(s, m) \in Seq(T) /\ Put(s, Append(s, m), m)
           /\ s \o <<m>> = Append(s, m)
<1>1. Append(s, m) = s \o <<m>> /\ <<m>> \in Seq(T)
  OBVIOUS
<1>2. s \o <<m>> \in Seq(T) /\ Joined(s, s \o <<m>>, <<m>>)
  BY <1>1, JoiningTwo
<1>3. Put(s, s \o <<m>>, m)
  BY <1>2, OneMember DEF Joined, Put
<1> QED
  BY <1>1, <1>2, <1>3

-----------------------------------------------------------------------------
(* Lemmas on messages.                                                     *)

\* The devices are the remotes and the master; the names are apart.
LEMMA Distinct ==
    /\ Devices = Remotes \cup {Master} /\ Master \notin Remotes
    /\ "broadcast" \notin Devices
    /\ Writer \in [Keys -> Devices]
    /\ Scripts \subseteq Files /\ Files \subseteq Parts
    /\ "data" \in Parts /\ "debuginfo" \in Parts
    /\ "data" \notin Files /\ "debuginfo" \notin Files
    /\ MaxWrites \in Nat /\ MaxSessions \in Nat
    /\ Sessions \subseteq Nat \ {0} /\ Closed = 0 /\ Unset = 0
BY DatastoreAssumption DEF Devices, Parts, Sessions, Closed, Unset

\* The fields of a message.
LEMMA MessageFields ==
    ASSUME NEW m \in Message
    PROVE  /\ m.name \in {"identification", "remoteinfo", "part", "partack", "infoack", "update"}
           /\ m.name = "remoteinfo" =>
                m.to = Master /\ m.from \in Remotes /\ m.session \in Sessions
           /\ m.name = "part" =>
                m.to \in Remotes /\ m.session \in Sessions /\ m.part \in Parts /\ m.data \in Store
           /\ m.name = "partack" =>
                m.to = Master /\ m.from \in Remotes /\ m.session \in Sessions /\ m.part \in Parts
           /\ m.name = "infoack" => m.to \in Remotes /\ m.session \in Sessions
           /\ m.name = "update" =>
                m.to = "broadcast" /\ m.key \in Keys /\ m.value \in 1..MaxWrites
BY DEF Message, Identification, RemoteInfo, Part, PartAck, InfoAck, Update

\* The value of an entry is a number.
LEMMA ValueIsNumber ==
    ASSUME NEW m \in Message, NEW k \in Keys
    PROVE  Value(m, k) \in 0..MaxWrites
<1>1. m.name = "update" => m.value \in 1..MaxWrites
  BY MessageFields
<1>2. m.name = "part" => m.data[k] \in 0..MaxWrites
  BY MessageFields DEF Store
<1>3. 0 \in 0..MaxWrites
  BY Distinct
<1> QED
  BY <1>1, <1>2, <1>3, Distinct DEF Value, Unset

\* The messages a page sends first.
Hello == [name |-> "identification"]
Info(r, s) == [name |-> "remoteinfo", to |-> Master, from |-> r, session |-> s]

\* They are all that is sent.
LEMMA GreetingMembers ==
    ASSUME NEW r \in Remotes, NEW s \in Sessions
    PROVE  /\ Greeting(r, s) \in Seq(Message)
           /\ ToSet(Greeting(r, s)) = {Hello, Info(r, s)}
<1> DEFINE a == Hello
           b == Info(r, s)
<1>1. a \in Message /\ b \in Message
  BY DEF Message, Identification, RemoteInfo, Hello, Info
<1>2. Greeting(r, s) = <<a, b>>
  BY DEF Greeting, Hello, Info
<1> HIDE DEF a, b
<1>3. /\ <<a, b>> \in Seq(Message) /\ Len(<<a, b>>) = 2 /\ 1..2 = {1, 2}
      /\ <<a, b>>[1] = a /\ <<a, b>>[2] = b /\ DOMAIN <<a, b>> = 1..2
  BY <1>1
<1>4. ToSet(<<a, b>>) = {a, b}
  BY <1>3 DEF ToSet
<1> QED
  BY <1>2, <1>3, <1>4 DEF a, b

\* They are sent in this order.
LEMMA GreetingIs ==
    ASSUME NEW r \in Remotes, NEW s \in Sessions
    PROVE  /\ Greeting(r, s) \in Seq(Message) /\ Greeting(r, s) # <<>>
           /\ Hello \in Message /\ Hello.name = "identification"
           /\ Info(r, s) \in Message /\ Info(r, s).name = "remoteinfo"
           /\ Info(r, s).from = r /\ Info(r, s).session = s
           /\ Head(Greeting(r, s)) = Hello /\ Tail(Greeting(r, s)) = <<Info(r, s)>>
           /\ ToSet(Greeting(r, s)) = {Hello, Info(r, s)}
           /\ ToSet(<<Info(r, s)>>) = {Info(r, s)}
<1> DEFINE a == Hello
           b == Info(r, s)
           g == Greeting(r, s)
<1>1. a \in Message /\ b \in Message
  BY DEF Message, Identification, RemoteInfo, Hello, Info
<1>2. g = <<a, b>>
  BY DEF Greeting, Hello, Info
<1> HIDE DEF a, b, g
<1>3. /\ g \in Seq(Message) /\ Len(g) = 2 /\ g[1] = a /\ g[2] = b /\ 1..2 = {1, 2}
      /\ Head(g) = a /\ Tail(g) = <<b>> /\ g # <<>> /\ DOMAIN g = 1..2
  BY <1>1, <1>2
<1>4. ToSet(g) = {a, b}
  BY GreetingMembers DEF a, b, g
<1>5. ToSet(<<b>>) = {b}
  BY <1>1, OneMember
<1>6. /\ Hello.name = "identification" /\ Info(r, s).name = "remoteinfo"
      /\ Info(r, s).from = r /\ Info(r, s).session = s
  BY DEF Hello, Info
<1> QED
  BY <1>1, <1>3, <1>4, <1>5, <1>6 DEF a, b, g

\* The identification is in front.
LEMMA GreetingOrder ==
    ASSUME NEW r \in Remotes, NEW s \in Sessions, NEW x, NEW y, Precedes(Greeting(r, s), x, y)
    PROVE  x = Hello /\ y = Info(r, s)
<1> DEFINE a == Hello
           b == Info(r, s)
           g == Greeting(r, s)
<1>1. g = <<a, b>>
  BY DEF Greeting, Hello, Info
<1> HIDE DEF a, b, g
<1>2. Len(g) = 2 /\ g[1] = a /\ g[2] = b /\ 1..2 = {1, 2}
  BY <1>1
<1>3. Precedes(g, x, y)
  BY DEF g
<1>4. x = a /\ y = b
  BY <1>2, <1>3 DEF Precedes
<1> QED
  BY <1>4 DEF a, b

\* The parts that answer a remoteinfo.
Batch(r, s) ==
    [i \in 1..(Len(AutoLoad) + 2) |->
       PartFor(r, s, (<<"debuginfo", "data">> \o AutoLoad)[i])]

\* They are one for each part, and only the data has entries.
LEMMA BatchIs ==
    ASSUME NEW r \in Remotes, NEW s \in Sessions, data[Master] \in Store
    PROVE  /\ Batch(r, s) \in Seq(Message)
           /\ \A m \in ToSet(Batch(r, s)) : m \in Message /\ m = PartFor(r, s, m.part)
           /\ \A x, y : Precedes(Batch(r, s), x, y) => x.part # y.part
           /\ PartFor(r, s, "data") \in ToSet(Batch(r, s))
<1> DEFINE n == Len(AutoLoad)
           p == <<"debuginfo", "data">> \o AutoLoad
           u == Batch(r, s)
<1>1. /\ n \in Nat /\ AutoLoad \in Seq(Files)
      /\ \A i \in 1..n : AutoLoad[i] \in Files
      /\ \A i, j \in 1..n : AutoLoad[i] = AutoLoad[j] => i = j
  BY DatastoreAssumption, LenProperties, ElementOfSeq DEF IsInjective
<1>2. /\ p \in Seq(Parts) /\ Len(p) = n + 2
      /\ p[1] = "debuginfo" /\ p[2] = "data"
      /\ \A i \in 1..n : p[i + 2] = AutoLoad[i]
  <2> DEFINE a == <<"debuginfo", "data">>
  <2>1. /\ a \in Seq(Parts) /\ AutoLoad \in Seq(Parts) /\ Len(a) = 2
        /\ a[1] = "debuginfo" /\ a[2] = "data"
    BY <1>1, Distinct
  <2> HIDE DEF a, n
  <2>2. /\ a \o AutoLoad \in Seq(Parts) /\ Len(a \o AutoLoad) = 2 + n
        /\ \A i \in 1..(2 + n) :
             (a \o AutoLoad)[i] = IF i <= 2 THEN a[i] ELSE AutoLoad[i - 2]
    <3>1. /\ a \o AutoLoad \in Seq(Parts)
          /\ Len(a \o AutoLoad) = Len(a) + Len(AutoLoad)
          /\ \A i \in 1..(Len(a) + Len(AutoLoad)) :
               (a \o AutoLoad)[i] = IF i <= Len(a) THEN a[i] ELSE AutoLoad[i - Len(a)]
      BY <2>1, ConcatProperties
    <3> QED
      BY <2>1, <3>1 DEF n
  <2>3. 1 \in 1..(2 + n) /\ 2 \in 1..(2 + n) /\ 2 + n = n + 2 /\ 1 <= 2 /\ 2 <= 2
    BY <1>1 DEF n
  <2>4. \A i \in 1..n : i + 2 \in 1..(2 + n) /\ ~(i + 2 <= 2) /\ (i + 2) - 2 = i
    BY <1>1 DEF n
  <2>5. \A i \in 1..n : (a \o AutoLoad)[i + 2] = AutoLoad[i]
    BY <2>2, <2>4
  <2>6. p = a \o AutoLoad
    BY DEF a
  <2> HIDE DEF p
  <2>7. p[1] = a[1] /\ p[2] = a[2]
    BY <2>2, <2>3, <2>6
  <2> QED
    BY <2>1, <2>2, <2>3, <2>5, <2>6, <2>7
<1> HIDE DEF p
<1>3. u = [i \in 1..(n + 2) |-> PartFor(r, s, p[i])]
  BY DEF Batch, p
<1> HIDE DEF u, n
<1>4. \A i \in 1..(n + 2) : p[i] \in Parts
  BY <1>2, ElementOfSeq
<1>5. \A i, j \in 1..(n + 2) : p[i] = p[j] => i = j
  <2>1. \A i \in 1..(n + 2) : i = 1 \/ i = 2 \/ (i - 2 \in 1..n /\ p[i] = AutoLoad[i - 2])
    <3>1. SUFFICES ASSUME NEW i \in 1..(n + 2), i # 1, i # 2
                   PROVE  i - 2 \in 1..n /\ p[i] = AutoLoad[i - 2]
      OBVIOUS
    <3>2. i - 2 \in 1..n /\ (i - 2) + 2 = i
      BY <1>1, <3>1 DEF n
    <3> QED
      BY <1>2, <3>2
  <2>2. SUFFICES ASSUME NEW i \in 1..(n + 2), NEW j \in 1..(n + 2), p[i] = p[j]
                 PROVE  i = j
    OBVIOUS
  <2>3. CASE i = 1 \/ i = 2 \/ j = 1 \/ j = 2
    BY <1>1, <1>2, <2>1, <2>2, <2>3, Distinct
  <2>4. CASE ~(i = 1 \/ i = 2 \/ j = 1 \/ j = 2)
    <3>1. i - 2 = j - 2
      BY <1>1, <2>1, <2>2, <2>4 DEF n
    <3> QED
      BY <3>1
  <2> QED
    BY <2>3, <2>4
<1>6. ASSUME NEW q \in Parts
      PROVE  PartFor(r, s, q) \in Message /\ PartFor(r, s, q).part = q
  <2>1. (IF q = "data" THEN data[Master] ELSE Empty) \in Store
    <3>1. Empty \in Store
      BY Distinct DEF Empty, Store
    <3> QED
      BY <3>1
  <2> QED
    BY <2>1 DEF PartFor, Message, Part
<1>7. n + 2 \in Nat
  BY <1>1 DEF n
<1>8. /\ u \in Seq(Message) /\ Len(u) = n + 2
      /\ \A i \in 1..(n + 2) : u[i] = PartFor(r, s, p[i]) /\ u[i].part = p[i]
                               /\ u[i] \in Message
  <2>1. u \in [1..(n + 2) -> Message]
    BY <1>3, <1>4, <1>6
  <2>2. u \in Seq(Message) /\ Len(u) = n + 2
    BY <1>7, <2>1
  <2> QED
    BY <1>3, <1>4, <1>6, <2>2
<1>9. ToSet(u) = {u[i] : i \in 1..(n + 2)}
  BY <1>8, Members
<1>10. \A m \in ToSet(u) : m \in Message /\ m = PartFor(r, s, m.part)
  BY <1>8, <1>9
<1>11. \A x, y : Precedes(u, x, y) => x.part # y.part
  <2>1. SUFFICES ASSUME NEW i \in 1..(n + 2), NEW j \in 1..(n + 2), i < j
                 PROVE  u[i].part # u[j].part
    BY <1>8 DEF Precedes
  <2>2. i # j
    BY <2>1, <1>7
  <2> QED
    BY <1>5, <1>8, <2>2
<1>12. PartFor(r, s, "data") \in ToSet(u)
  <2>1. 2 \in 1..(n + 2)
    BY <1>1 DEF n
  <2> QED
    BY <1>2, <1>8, <1>9, <2>1
<1> QED
  BY <1>8, <1>10, <1>11, <1>12 DEF u

-----------------------------------------------------------------------------
(* What the parts of a step do to the queues.                              *)

\* Sending one message.
LEMMA SendOne ==
    ASSUME TypeOK, NEW d \in Devices, NEW m \in Message, Send(d, <<m>>)
    PROVE  /\ out' \in [Devices -> Seq(Message)]
           /\ \A e \in Devices : e # d => out'[e] = out[e]
           /\ Put(out[d], out'[d], m)
<1>1. out[d] \in Seq(Message) /\ out \in [Devices -> Seq(Message)]
  BY DEF TypeOK
<1>2. out[d] \o <<m>> \in Seq(Message) /\ Put(out[d], out[d] \o <<m>>, m)
  BY <1>1, PuttingLast
<1> QED
  BY <1>1, <1>2 DEF Send

\* Sending several messages.
LEMMA SendMany ==
    ASSUME TypeOK, NEW d \in Devices, NEW u \in Seq(Message), Send(d, u)
    PROVE  /\ out' \in [Devices -> Seq(Message)]
           /\ \A e \in Devices : e # d => out'[e] = out[e]
           /\ Joined(out[d], out'[d], u)
<1>1. out[d] \in Seq(Message) /\ out \in [Devices -> Seq(Message)]
  BY DEF TypeOK
<1>2. out[d] \o u \in Seq(Message) /\ Joined(out[d], out[d] \o u, u)
  BY <1>1, JoiningTwo
<1> QED
  BY <1>1, <1>2 DEF Send

\* Getting a message.
LEMMA ReceiveOne ==
    ASSUME TypeOK, NEW d \in Devices, NEW name, Receives(d, name)
    PROVE  /\ Head(inbox[d]) \in Message /\ Head(inbox[d]).name = name
           /\ inbox' \in [Devices -> Seq(Message)]
           /\ \A e \in Devices : e # d => inbox'[e] = inbox[e]
           /\ Taken(inbox[d], inbox'[d], Head(inbox[d]))
<1>1. inbox[d] \in Seq(Message) /\ inbox \in [Devices -> Seq(Message)] /\ inbox[d] # <<>>
  BY DEF TypeOK, Receives
<1>2. /\ Head(inbox[d]) \in Message /\ Tail(inbox[d]) \in Seq(Message)
      /\ Taken(inbox[d], Tail(inbox[d]), Head(inbox[d]))
  BY <1>1, TakingFirst
<1> QED
  BY <1>1, <1>2 DEF Receives

\* The devices that the relay takes a message of d for.
Reaches(d, m, e) ==
    /\ m.name # "identification"
    /\ d \in identified \cup {Master}
    /\ e \in Recipients(d, m.to)

\* Relaying a message.
LEMMA RelayOne ==
    ASSUME TypeOK, NEW d \in Devices, Relay(d)
    PROVE  /\ Head(out[d]) \in Message
           /\ out' \in [Devices -> Seq(Message)]
           /\ \A e \in Devices : e # d => out'[e] = out[e]
           /\ Taken(out[d], out'[d], Head(out[d]))
           /\ inbox' \in [Devices -> Seq(Message)]
           /\ \A e \in Devices :
                /\ Reaches(d, Head(out[d]), e) => Put(inbox[e], inbox'[e], Head(out[d]))
                /\ ~Reaches(d, Head(out[d]), e) => inbox'[e] = inbox[e]
<1> DEFINE m == Head(out[d])
<1>1. /\ out[d] \in Seq(Message) /\ out \in [Devices -> Seq(Message)] /\ out[d] # <<>>
      /\ inbox \in [Devices -> Seq(Message)]
      /\ out' = [out EXCEPT ![d] = Tail(out[d])]
  BY DEF TypeOK, Relay
<1>2. m \in Message /\ Tail(out[d]) \in Seq(Message) /\ Taken(out[d], Tail(out[d]), m)
  BY <1>1, TakingFirst
<1>3. \A e \in Devices : inbox'[e] = IF Reaches(d, m, e) THEN Append(inbox[e], m) ELSE inbox[e]
  BY <1>1 DEF Relay, Reaches
<1>4. inbox' = [e \in Devices |-> inbox'[e]]
  BY <1>1 DEF Relay
<1> HIDE DEF m
<1>5. ASSUME NEW e \in Devices
      PROVE  /\ Append(inbox[e], m) \in Seq(Message)
             /\ Put(inbox[e], Append(inbox[e], m), m)
             /\ inbox[e] \in Seq(Message)
  BY <1>1, <1>2, PuttingLast
<1>6. inbox' \in [Devices -> Seq(Message)]
  BY <1>3, <1>4, <1>5
<1> QED
  BY <1>1, <1>2, <1>3, <1>5, <1>6 DEF m

\* What is in a queue is a message.
LEMMA InQueues ==
    ASSUME TypeOK
    PROVE  /\ \A d \in Devices : Out(d) \subseteq Message /\ In(d) \subseteq Message
           /\ \A d \in Devices : \A x, y :
                /\ Precedes(out[d], x, y) => x \in Out(d) /\ y \in Out(d)
                /\ Precedes(inbox[d], x, y) => x \in In(d) /\ y \in In(d)
           /\ \A r \in Remotes : page[r] = Closed => Out(r) = {} /\ In(r) = {}
           /\ \A d \in Devices : out[d] # <<>> => Out(d) # {}
           /\ \A d \in Devices : inbox[d] # <<>> => In(d) # {}
<1>1. \A d \in Devices : out[d] \in Seq(Message) /\ inbox[d] \in Seq(Message)
  BY DEF TypeOK
<1>2. \A d \in Devices : /\ ToSet(out[d]) \subseteq Message /\ ToSet(inbox[d]) \subseteq Message
                         /\ out[d] # <<>> => ToSet(out[d]) # {}
                         /\ inbox[d] # <<>> => ToSet(inbox[d]) # {}
  BY <1>1, Members
<1>3. \A d \in Devices : \A x, y :
        /\ Precedes(out[d], x, y) => x \in ToSet(out[d]) /\ y \in ToSet(out[d])
        /\ Precedes(inbox[d], x, y) => x \in ToSet(inbox[d]) /\ y \in ToSet(inbox[d])
  BY <1>1, Members
<1>4. \A r \in Remotes : page[r] = Closed => ToSet(out[r]) = {} /\ ToSet(inbox[r]) = {}
  BY NoMembers DEF TypeOK
<1> QED
  BY <1>2, <1>3, <1>4 DEF Out, In

\* What is in a queue after a step is a message.
LEMMA InQueuesAfter ==
    ASSUME TypeOK'
    PROVE  /\ \A d \in Devices : \A m \in Out(d)' \cup In(d)' : m \in Message
           /\ \A d \in Devices : \A x, y :
                /\ Precedes(out[d], x, y)' => x \in Out(d)' /\ y \in Out(d)'
                /\ Precedes(inbox[d], x, y)' => x \in In(d)' /\ y \in In(d)'
<1>1. \A d \in Devices : out'[d] \in Seq(Message) /\ inbox'[d] \in Seq(Message)
  BY DEF TypeOK
<1>2. \A d \in Devices : ToSet(out'[d]) \subseteq Message /\ ToSet(inbox'[d]) \subseteq Message
  BY <1>1, Members
<1>3. \A d \in Devices : \A x, y :
        /\ Precedes(out'[d], x, y) => x \in ToSet(out'[d]) /\ y \in ToSet(out'[d])
        /\ Precedes(inbox'[d], x, y) => x \in ToSet(inbox'[d]) /\ y \in ToSet(inbox'[d])
  BY <1>1, Members
<1> QED
  BY <1>2, <1>3 DEF Out, In

\* The first state.
LEMMA InitJoining == Init => Joining
<1> SUFFICES ASSUME Init
             PROVE  Joining
  OBVIOUS
<1>1. \A d \in Devices : Out(d) = {} /\ In(d) = {}
  BY NoMembers DEF Init, Out, In
<1>2. \A r \in Remotes : page[r] = Closed /\ loading[r] = {}
  BY DEF Init
<1>3. TypeOK
  <2>1. <<>> \in Seq(Message) /\ Empty \in Store /\ 0 \in 0..MaxWrites /\ 0 \in 0..MaxSessions
    BY Distinct DEF Empty, Store
  <2>2. /\ data \in [Devices -> Store] /\ page \in [Remotes -> Sessions \cup {Closed}]
        /\ equipped \in [Remotes -> SUBSET Parts]
        /\ loading \in [Remotes -> SUBSET (Sessions \X Scripts)]
    BY <2>1 DEF Init
  <2>3. /\ acked \in [Sessions -> SUBSET Parts] /\ witnesses \in [Keys -> SUBSET Devices]
        /\ out \in [Devices -> Seq(Message)] /\ inbox \in [Devices -> Seq(Message)]
    BY <2>1 DEF Init
  <2>4. \A r \in Remotes : out[r] = <<>> /\ inbox[r] = <<>> /\ loading[r] = {}
    BY Distinct DEF Init
  <2> QED
    BY <2>1, <2>2, <2>3, <2>4 DEF Init, TypeOK
<1>4. Master \in Devices /\ Remotes \subseteq Devices
  BY DEF Devices
<1>5. SendsOnly /\ GetsOnly
  BY <1>1, <1>4 DEF SendsOnly, GetsOnly
<1>6. SessionsApart
  <2>1. opened = 0 /\ Closed = 0 /\ Closed <= 0
    BY DEF Init, Closed
  <2>2. \A s \in Sessions : acked[s] = {}
    BY DEF Init
  <2> QED
    BY <1>1, <1>2, <2>1, <2>2 DEF SessionsApart
<1>7. GreetsFirst /\ AcksAreEarned
  BY <1>1, <1>2, <1>4 DEF Init, GreetsFirst, AcksAreEarned
<1> QED
  BY <1>3, <1>5, <1>6, <1>7 DEF Joining

-----------------------------------------------------------------------------
(* Joining: the steps.                                                     *)

\* An entry is set.
LEMMA JoiningSet ==
    ASSUME Joining, NEW d \in Devices, NEW k \in Keys, Set(d, k)
    PROVE  Joining'
<1> DEFINE m == [name |-> "update", to |-> "broadcast", key |-> k, value |-> writes + 1]
<1>1. /\ d = Writer[k]
      /\ d = Master \/ d \in ready
      /\ writes' = writes + 1 /\ writes' \in 0..MaxWrites
      /\ data' = [data EXCEPT ![d][k] = writes']
      /\ Send(d, <<m>>)
      /\ UNCHANGED <<page, identified, ready, equipped, loading, acked, opened,
                     witnesses, inbox>>
  BY Distinct DEF Joining, TypeOK, Set, handshakeVars
<1>2. m \in Message /\ m.name = "update" /\ m.key = k
  BY <1>1, Distinct DEF Joining, TypeOK, Message, Update
<1> HIDE DEF m
<1>3. /\ out' \in [Devices -> Seq(Message)]
      /\ \A e \in Devices : e # d => out'[e] = out[e]
      /\ Put(out[d], out'[d], m)
  BY <1>1, <1>2, SendOne DEF Joining
<1>4. /\ \A e \in Devices : In(e)' = In(e)
      /\ \A e \in Devices : Out(e)' = Out(e) \/ (e = d /\ Out(e)' = Out(e) \cup {m})
  BY <1>1, <1>3 DEF In, Out, Put
<1>5. d \in Remotes => page[d] # Closed /\ d \in identified
  BY <1>1, Distinct DEF Joining, TypeOK
<1>6. TypeOK'
  <2>1. data' \in [Devices -> Store]
    BY <1>1 DEF Joining, TypeOK, Store
  <2>2. \A r \in Remotes : page[r] = Closed => out'[r] = <<>>
    BY <1>3, <1>5, Distinct DEF Joining, TypeOK
  <2> QED
    BY <1>1, <1>3, <2>1, <2>2 DEF Joining, TypeOK
<1>7. SendsOnly'
  <2>1. \A r \in Remotes : \A x \in Out(r)' : x \in Out(r) \/ (r = d /\ x = m)
    BY <1>4, Distinct
  <2>2. \A x \in Out(Master)' : x \in Out(Master) \/ (Master = d /\ x = m)
    BY <1>4, Distinct
  <2>3. UNCHANGED page
    BY <1>1
  <2>4. m.name = "update" /\ Writer[m.key] = d
    BY <1>1, <1>2
  <2> QED
    BY <2>1, <2>2, <2>3, <2>4 DEF Joining, SendsOnly
<1>8. GetsOnly'
  BY <1>1, <1>4, Distinct DEF Joining, GetsOnly
<1>9. SessionsApart'
  BY <1>1, <1>2, <1>4 DEF Joining, SessionsApart, InSession, PeerOf
<1>10. GreetsFirst'
  <2>1. ASSUME NEW r \in Remotes, page[r] # Closed, r \notin identified
        PROVE  out'[r] = out[r]
    BY <1>3, <1>5, <2>1, Distinct
  <2> QED
    BY <1>1, <1>2, <1>4, <2>1, Distinct DEF Joining, GreetsFirst
<1>11. AcksAreEarned'
  BY <1>1, <1>2, <1>4, Distinct DEF Joining, AcksAreEarned
<1> QED
  BY <1>6, <1>7, <1>8, <1>9, <1>10, <1>11 DEF Joining

\* A message is relayed.
LEMMA JoiningRelay ==
    ASSUME Joining, NEW d \in Devices, Relay(d)
    PROVE  Joining'
<1> DEFINE m == Head(out[d])
<1>1. /\ m \in Message /\ m \in Out(d) /\ out[d] # <<>>
      /\ out' \in [Devices -> Seq(Message)]
      /\ \A e \in Devices : e # d => out'[e] = out[e]
      /\ Taken(out[d], out'[d], m)
      /\ inbox' \in [Devices -> Seq(Message)]
      /\ \A e \in Devices :
           /\ Reaches(d, m, e) => Put(inbox[e], inbox'[e], m)
           /\ ~Reaches(d, m, e) => inbox'[e] = inbox[e]
  BY RelayOne DEF Joining, Taken, Out, Relay
<1>2. /\ UNCHANGED <<page, ready, equipped, loading, acked, opened, data, writes>>
      /\ m.name = "identification" => identified' = identified \cup {d}
      /\ m.name # "identification" => identified' = identified
  BY DEF Relay
<1>3. witnesses' \in [Keys -> SUBSET Devices]
  <2>1. ready \cup {Master} \subseteq Devices /\ witnesses \in [Keys -> SUBSET Devices]
    BY DEF Joining, TypeOK, Devices
  <2>2. \/ witnesses' = witnesses
        \/ witnesses' = [k \in Keys |-> IF m.name = "update" /\ m.key = k
                                          THEN ready \cup {Master} ELSE witnesses[k]]
    BY DEF Relay
  <2> HIDE DEF m
  <2> QED
    BY <2>1, <2>2
<1> HIDE DEF m
<1>4. /\ \A e \in Devices : Out(e)' \subseteq Out(e)
      /\ \A e \in Devices : In(e)' = In(e) \/ (Reaches(d, m, e) /\ In(e)' = In(e) \cup {m})
  BY <1>1 DEF Out, In, Taken, Put
<1>5. \A r \in Remotes : page[r] = Closed => d # r
  BY <1>1 DEF Joining, TypeOK
<1>6. \A e \in Devices : Reaches(d, m, e) =>
        /\ e # Master => page[e] # Closed
        /\ m.to = "broadcast" \/ m.to = e
        /\ m.to = "broadcast" => e # d
        /\ m.to # "broadcast" => e \in identified \cup {Master}
        /\ d \in identified \cup {Master} /\ m.name # "identification"
  BY Distinct DEF Reaches, Recipients, BroadcastTargets, Joining, TypeOK
<1>7. identified' \subseteq identified \cup {d} /\ identified \subseteq identified'
  BY <1>2
<1>8. m.name = "identification" => d \in Remotes
  BY <1>1, Distinct DEF Joining, SendsOnly
<1>9. TypeOK'
  <2>1. \A r \in Remotes : page[r] = Closed => out'[r] = <<>> /\ inbox'[r] = <<>>
    BY <1>1, <1>5, <1>6, Distinct DEF Joining, TypeOK
  <2>2. identified' \subseteq {r \in Remotes : page[r] # Closed}
    BY <1>2, <1>5, <1>8 DEF Joining, TypeOK
  <2> QED
    BY <1>1, <1>2, <1>3, <1>7, <2>1, <2>2 DEF Joining, TypeOK
<1>10. SendsOnly'
  BY <1>2, <1>4, Distinct DEF Joining, SendsOnly
<1>11. GetsOnly'
  <2>1. ASSUME NEW r \in Remotes, Reaches(d, m, r)
        PROVE  /\ m.name \in {"part", "infoack", "update"}
               /\ m.name \in {"part", "infoack"} => m.to = r
               /\ m.name = "update" => Writer[m.key] # r
    <3>1. m.name # "remoteinfo" /\ m.name # "partack"
      <4>1. m.name \in {"remoteinfo", "partack"} => m.to = Master
        BY <1>1, MessageFields
      <4>2. r # Master /\ "broadcast" # Master /\ r \in Devices
        BY Distinct
      <4> QED
        BY <1>6, <2>1, <4>1, <4>2
    <3>2. m.name = "update" => r # d
      BY <1>1, <1>6, <2>1, MessageFields, Distinct
    <3>3. m.name \in {"part", "infoack"} => m.to = r
      BY <1>1, <1>6, <2>1, MessageFields, Distinct
    <3>4. m.name = "update" => Writer[m.key] = d
      BY <1>1, Distinct DEF Joining, SendsOnly
    <3>5. m.name \in {"part", "infoack", "update"}
      BY <1>1, <1>6, <2>1, <3>1, MessageFields, Distinct
    <3> QED
      BY <3>2, <3>3, <3>4, <3>5
  <2>2. ASSUME Reaches(d, m, Master)
        PROVE  /\ m.name \in {"remoteinfo", "partack", "update"}
               /\ m.name = "update" => Writer[m.key] # Master
    <3>1. m.name # "part" /\ m.name # "infoack"
      BY <1>1, <1>6, <2>2, MessageFields, Distinct
    <3>2. m.name = "update" => Master # d
      BY <1>1, <1>6, <2>2, MessageFields, Distinct
    <3>3. m.name = "update" => Writer[m.key] = d
      BY <1>1, Distinct DEF Joining, SendsOnly
    <3>4. m.name \in {"remoteinfo", "partack", "update"}
      BY <1>1, <1>6, <2>2, <3>1, MessageFields, Distinct
    <3> QED
      BY <3>2, <3>3, <3>4
  <2> QED
    BY <1>4, <2>1, <2>2, Distinct DEF Joining, GetsOnly
<1>12. SessionsApart'
  BY <1>1, <1>2, <1>4 DEF Joining, SessionsApart, InSession, PeerOf
<1>13. AcksAreEarned'
  <2>1. \A r \in Remotes : page[r] # Closed =>
          /\ m.name = "partack" /\ m.session = page[r] /\ Reaches(d, m, Master)
             => m.part \in equipped[r]
    <3>1. SUFFICES ASSUME NEW r \in Remotes, page[r] # Closed, m.name = "partack",
                          m.session = page[r]
                   PROVE  m.part \in equipped[r]
      OBVIOUS
    <3>2. d # Master
      BY <1>1, <3>1 DEF Joining, SendsOnly
    <3>3. m.from = d
      BY <1>1, <3>1, <3>2, Distinct DEF Joining, SendsOnly
    <3>4. r = m.from
      BY <1>1, <3>1 DEF Joining, SessionsApart, InSession, PeerOf
    <3> QED
      BY <1>1, <3>1, <3>3, <3>4 DEF Joining, AcksAreEarned
  <2>2. m.name = "infoack" => acked[m.session] = Parts
    BY <1>1 DEF Joining, AcksAreEarned
  <2> QED
    BY <1>2, <1>4, <2>1, <2>2, Distinct DEF Joining, AcksAreEarned
<1>14. GreetsFirst'
  <2>1. ASSUME NEW r \in Remotes, page[r] # Closed, r \notin identified'
        PROVE  /\ out'[r] = Greeting(r, page[r])
               /\ loading[r] = {} /\ equipped[r] = {}
               /\ \A x \in In(r)' : x.name = "update"
               /\ \A x \in In(Master)' : x.name = "remoteinfo" => x.session # page[r]
               /\ \A x \in Out(Master)' : x.name = "part" => x.session # page[r]
    <3>1. /\ r \notin identified
          /\ out[r] = Greeting(r, page[r])
          /\ loading[r] = {} /\ equipped[r] = {}
          /\ \A x \in In(r) : x.name = "update"
          /\ \A x \in In(Master) : x.name = "remoteinfo" => x.session # page[r]
          /\ \A x \in Out(Master) : x.name = "part" => x.session # page[r]
      BY <1>7, <2>1 DEF Joining, GreetsFirst
    <3>2. page[r] \in Sessions
      BY <2>1 DEF Joining, TypeOK
    <3>3. d # r
      <4>1. ASSUME d = r
            PROVE  FALSE
        <5>1. Head(Greeting(r, page[r])) = Hello /\ Hello.name = "identification"
          BY <3>2, GreetingIs
        <5>2. m = Head(out[r])
          BY <4>1 DEF m
        <5>3. m.name = "identification"
          BY <3>1, <5>1, <5>2
        <5> QED
          BY <1>2, <2>1, <4>1, <5>3
      <4> QED
        BY <4>1
    <3>4. Reaches(d, m, r) => m.name = "update"
      <4>1. /\ m.name # "update" => m.to \in Devices \/ m.name = "identification"
            /\ r \in Devices /\ r # Master /\ "broadcast" \notin Devices
        BY <1>1, MessageFields, Distinct
      <4> QED
        BY <1>6, <3>1, <4>1
    <3>5. m.name = "remoteinfo" => m.session # page[r]
      <4>1. SUFFICES ASSUME m.name = "remoteinfo", m.session = page[r]
                     PROVE  FALSE
        OBVIOUS
      <4>2. d # Master
        BY <1>1, <4>1 DEF Joining, SendsOnly
      <4>3. m.from = d
        BY <1>1, <4>1, <4>2, Distinct DEF Joining, SendsOnly
      <4>4. r = m.from
        BY <1>1, <4>1 DEF Joining, SessionsApart, InSession, PeerOf
      <4> QED
        BY <3>3, <4>3, <4>4
    <3>6. out'[r] = out[r]
      BY <1>1, <3>3, Distinct
    <3>7. \A x \in In(r)' : x.name = "update"
      BY <1>4, <3>1, <3>4, Distinct
    <3>8. \A x \in In(Master)' : x.name = "remoteinfo" => x.session # page[r]
      BY <1>4, <3>1, <3>5, Distinct
    <3>9. \A x \in Out(Master)' : x.name = "part" => x.session # page[r]
      BY <1>4, <3>1, Distinct
    <3> QED
      BY <3>1, <3>6, <3>7, <3>8, <3>9
  <2>2. ASSUME NEW r \in Remotes, r \in identified', NEW x \in Out(r)'
        PROVE  x.name # "identification"
    <3>1. CASE r \in identified
      BY <1>4, <2>2, <3>1, Distinct DEF Joining, GreetsFirst
    <3>2. CASE r \notin identified
      <4>1. d = r /\ page[r] # Closed
        BY <1>5, <1>7, <2>2, <3>2
      <4>2. out[r] = Greeting(r, page[r]) /\ page[r] \in Sessions
        BY <3>2, <4>1 DEF Joining, GreetsFirst, TypeOK
      <4>3. out'[r] = Tail(out[r])
        BY <4>1 DEF Relay, Joining, TypeOK
      <4>4. /\ Tail(Greeting(r, page[r])) = <<Info(r, page[r])>>
            /\ ToSet(<<Info(r, page[r])>>) = {Info(r, page[r])}
            /\ Info(r, page[r]).name = "remoteinfo"
        BY <4>2, GreetingIs
      <4>5. x \in ToSet(out'[r])
        BY <2>2 DEF Out
      <4>6. x.name = "remoteinfo"
        BY <4>2, <4>3, <4>4, <4>5
      <4> QED
        BY <4>6
    <3> QED
      BY <3>1, <3>2
  <2> QED
    BY <1>2, <2>1, <2>2 DEF GreetsFirst
<1> QED
  BY <1>9, <1>10, <1>11, <1>12, <1>13, <1>14 DEF Joining

\* An update is taken over.
LEMMA JoiningParseUpdate ==
    ASSUME Joining, NEW d \in Devices, ParseUpdate(d)
    PROVE  Joining'
<1> DEFINE m == Head(inbox[d])
<1>1. /\ m \in Message /\ m.name = "update"
      /\ inbox' \in [Devices -> Seq(Message)]
      /\ \A e \in Devices : e # d => inbox'[e] = inbox[e]
      /\ Taken(inbox[d], inbox'[d], m)
  BY ReceiveOne DEF Joining, ParseUpdate
<1>2. /\ data' = [data EXCEPT ![d] = Merge(data[d], m)]
      /\ UNCHANGED <<page, identified, ready, equipped, loading, acked, opened,
                     writes, witnesses, out>>
  BY DEF ParseUpdate, handshakeVars, Joining, TypeOK
<1>3. inbox[d] # <<>>
  BY DEF ParseUpdate, Receives
<1> HIDE DEF m
<1>4. /\ \A e \in Devices : In(e)' \subseteq In(e)
      /\ \A e \in Devices : Out(e)' = Out(e)
  BY <1>1, <1>2 DEF In, Out, Taken
<1>5. TypeOK'
  <2>1. data' \in [Devices -> Store]
    <3>1. m.key \in Keys /\ m.value \in 0..MaxWrites
      BY <1>1, MessageFields, Distinct
    <3>2. Merge(data[d], m) \in Store
      BY <3>1 DEF Joining, TypeOK, Merge, Store
    <3> QED
      BY <1>2, <3>2 DEF Joining, TypeOK
  <2>2. \A r \in Remotes : page[r] = Closed => inbox'[r] = <<>>
    BY <1>1, <1>3, Distinct DEF Joining, TypeOK
  <2> QED
    BY <1>1, <1>2, <2>1, <2>2 DEF Joining, TypeOK
<1>6. SendsOnly' /\ GetsOnly'
  BY <1>2, <1>4, Distinct DEF Joining, SendsOnly, GetsOnly
<1>7. SessionsApart'
  BY <1>2, <1>4 DEF Joining, SessionsApart, PeerOf
<1>8. GreetsFirst'
  BY <1>2, <1>4, Distinct DEF Joining, GreetsFirst
<1>9. AcksAreEarned'
  BY <1>2, <1>4, Distinct DEF Joining, AcksAreEarned
<1> QED
  BY <1>5, <1>6, <1>7, <1>8, <1>9 DEF Joining

\* The master answers a remoteinfo.
LEMMA JoiningParseRemoteInfo ==
    ASSUME Joining, ParseRemoteInfo
    PROVE  Joining'
<1> DEFINE m == Head(inbox[Master])
           u == Batch(m.from, m.session)
<1>1. /\ m \in Message /\ m.name = "remoteinfo"
      /\ inbox' \in [Devices -> Seq(Message)]
      /\ \A e \in Devices : e # Master => inbox'[e] = inbox[e]
      /\ Taken(inbox[Master], inbox'[Master], m)
  BY ReceiveOne, Distinct DEF Joining, ParseRemoteInfo
<1>2. /\ UNCHANGED <<page, identified, ready, equipped, loading, acked, opened, data,
                     writes, witnesses>>
      /\ Send(Master, u)
  BY DEF ParseRemoteInfo, handshakeVars, storeVars, Batch
<1> HIDE DEF m
<1>3. /\ m \in In(Master) /\ m.from \in Remotes /\ m.session \in Sessions
      /\ data[Master] \in Store
  BY <1>1, MessageFields, Distinct DEF In, Taken, Joining, TypeOK
<1>4. /\ u \in Seq(Message)
      /\ \A x \in ToSet(u) : x = PartFor(m.from, m.session, x.part)
  BY <1>3, BatchIs
<1>5. \A x \in ToSet(u) : x.name = "part" /\ x.to = m.from /\ x.session = m.session
  <2>1. \A q : /\ PartFor(m.from, m.session, q).name = "part"
               /\ PartFor(m.from, m.session, q).to = m.from
               /\ PartFor(m.from, m.session, q).session = m.session
    BY DEF PartFor
  <2> HIDE DEF u
  <2> QED
    BY <1>4, <2>1
<1> HIDE DEF u
<1>6. /\ out' \in [Devices -> Seq(Message)]
      /\ \A e \in Devices : e # Master => out'[e] = out[e]
      /\ Joined(out[Master], out'[Master], u)
  BY <1>2, <1>4, SendMany, Distinct DEF Joining
<1>7. /\ \A e \in Devices : In(e)' \subseteq In(e)
      /\ \A r \in Remotes : Out(r)' = Out(r)
      /\ Out(Master)' = Out(Master) \cup ToSet(u)
  BY <1>1, <1>6, Distinct DEF In, Out, Taken, Joined
<1>8. TypeOK'
  <2>1. \A r \in Remotes : page[r] = Closed => out'[r] = <<>> /\ inbox'[r] = <<>>
    BY <1>1, <1>6, Distinct DEF Joining, TypeOK
  <2> QED
    BY <1>1, <1>2, <1>6, <2>1 DEF Joining, TypeOK
<1>9. SendsOnly' /\ GetsOnly'
  BY <1>2, <1>5, <1>7, Distinct DEF Joining, SendsOnly, GetsOnly
<1>10. SessionsApart'
  <2>1. m.session <= opened /\ \A q \in Remotes : page[q] = m.session => q = m.from
    BY <1>1, <1>3, Distinct DEF Joining, SessionsApart, InSession, PeerOf
  <2>2. \A x \in ToSet(u) : PeerOf(x) = m.from /\ x.session = m.session
    BY <1>5 DEF PeerOf
  <2>3. ASSUME NEW d \in Devices, NEW x \in Out(d)' \cup In(d)', x.name \in InSession
        PROVE  x.session <= opened /\ \A q \in Remotes : page[q] = x.session => q = PeerOf(x)
    <3>1. CASE x \in Out(d) \cup In(d)
      BY <2>3, <3>1 DEF Joining, SessionsApart
    <3>2. CASE x \in ToSet(u)
      BY <2>1, <2>2, <3>2
    <3> QED
      BY <1>7, <2>3, <3>1, <3>2, Distinct
  <2> QED
    BY <1>2, <2>3 DEF Joining, SessionsApart, PeerOf
<1>11. GreetsFirst'
  <2>1. ASSUME NEW r \in Remotes, page[r] # Closed, r \notin identified,
               NEW x \in Out(Master)', x.name = "part"
        PROVE  x.session # page[r]
    BY <1>1, <1>3, <1>5, <1>7, <2>1 DEF Joining, GreetsFirst
  <2>2. \A r \in Remotes : out'[r] = out[r]
    BY <1>6, Distinct
  <2> QED
    BY <1>2, <1>7, <2>1, <2>2, Distinct DEF Joining, GreetsFirst
<1>12. AcksAreEarned'
  BY <1>2, <1>5, <1>7, Distinct DEF Joining, AcksAreEarned
<1> QED
  BY <1>8, <1>9, <1>10, <1>11, <1>12 DEF Joining

\* A remote acknowledges a part of a session.
LEMMA JoiningSettle ==
    ASSUME Joining, NEW r \in Remotes, r \in identified, NEW s \in Sessions, NEW p \in Parts,
           s <= opened, \A q \in Remotes : page[q] = s => q = r,
           Settle(r, s, p),
           UNCHANGED <<page, identified, ready, acked, opened, writes, witnesses>>,
           data' \in [Devices -> Store],
           loading' \in [Remotes -> SUBSET (Sessions \X Scripts)],
           \A q \in Remotes : loading'[q] \subseteq loading[q],
           inbox' \in [Devices -> Seq(Message)],
           \A q \in Remotes : inbox[q] = <<>> => inbox'[q] = <<>>,
           \A d \in Devices : In(d)' \subseteq In(d)
    PROVE  Joining'
<1> DEFINE a == [name |-> "partack", to |-> Master, from |-> r, session |-> s, part |-> p]
<1>1. /\ equipped' = [equipped EXCEPT ![r] = equipped[r] \cup {p}]
      /\ Send(r, <<a>>)
  BY DEF Settle, Joining, TypeOK
<1>2. a \in Message /\ a.name = "partack" /\ a.from = r /\ a.session = s /\ a.part = p
  BY DEF Message, PartAck
<1> HIDE DEF a
<1>3. r \in Devices /\ page[r] # Closed
  BY Distinct DEF Joining, TypeOK
<1>4. /\ out' \in [Devices -> Seq(Message)]
      /\ \A e \in Devices : e # r => out'[e] = out[e]
      /\ Put(out[r], out'[r], a)
  BY <1>1, <1>2, <1>3, SendOne DEF Joining
<1>5. /\ \A e \in Devices : e # r => Out(e)' = Out(e)
      /\ Out(r)' = Out(r) \cup {a}
  BY <1>4 DEF Out, Put
<1>6. TypeOK'
  <2>1. equipped' \in [Remotes -> SUBSET Parts]
    BY <1>1 DEF Joining, TypeOK
  <2>2. \A q \in Remotes : page[q] = Closed =>
          out'[q] = <<>> /\ inbox'[q] = <<>> /\ loading'[q] = {}
    BY <1>3, <1>4, Distinct DEF Joining, TypeOK
  <2> QED
    BY <1>4, <2>1, <2>2 DEF Joining, TypeOK
<1>7. SendsOnly' /\ GetsOnly'
  BY <1>2, <1>5, Distinct DEF Joining, SendsOnly, GetsOnly
<1>8. SessionsApart'
  <2>1. PeerOf(a) = r
    BY <1>2 DEF PeerOf
  <2>2. ASSUME NEW d \in Devices, NEW x \in Out(d)' \cup In(d)', x.name \in InSession
        PROVE  x.session <= opened /\ \A q \in Remotes : page[q] = x.session => q = PeerOf(x)
    <3>1. CASE x \in Out(d) \cup In(d)
      BY <2>2, <3>1 DEF Joining, SessionsApart
    <3>2. CASE x = a
      BY <1>2, <2>1, <3>2
    <3> QED
      BY <1>5, <2>2, <3>1, <3>2
  <2> QED
    BY <2>2 DEF Joining, SessionsApart, PeerOf
<1>9. GreetsFirst'
  <2>1. \A q \in Remotes : q \notin identified =>
          out'[q] = out[q] /\ equipped'[q] = equipped[q]
    BY <1>1, <1>4, Distinct DEF Joining, TypeOK
  <2>2. ASSUME NEW q \in Remotes, page[q] # Closed, q \notin identified
        PROVE  /\ out'[q] = Greeting(q, page[q])
               /\ loading'[q] = {} /\ equipped'[q] = {}
               /\ \A m \in In(q)' : m.name = "update"
               /\ \A m \in In(Master)' : m.name = "remoteinfo" => m.session # page[q]
               /\ \A m \in Out(Master)' : m.name = "part" => m.session # page[q]
    <3>1. /\ out[q] = Greeting(q, page[q])
          /\ loading[q] = {} /\ equipped[q] = {}
          /\ \A m \in In(q) : m.name = "update"
          /\ \A m \in In(Master) : m.name = "remoteinfo" => m.session # page[q]
          /\ \A m \in Out(Master) : m.name = "part" => m.session # page[q]
      BY <2>2 DEF Joining, GreetsFirst
    <3>2. In(q)' \subseteq In(q) /\ In(Master)' \subseteq In(Master) /\ Out(Master)' = Out(Master)
      BY <1>5, Distinct
    <3>3. out'[q] = out[q] /\ equipped'[q] = equipped[q] /\ loading'[q] = {}
      BY <2>1, <2>2, <3>1
    <3> QED
      BY <3>1, <3>2, <3>3
  <2>3. \A q \in Remotes : q \in identified => \A m \in Out(q)' : m.name # "identification"
    <3>1. \A q \in Remotes : q \in identified => \A m \in Out(q) : m.name # "identification"
      BY DEF Joining, GreetsFirst
    <3>2. \A q \in Remotes : \A m \in Out(q)' : m \in Out(q) \/ m = a
      BY <1>5, Distinct
    <3> QED
      BY <1>2, <3>1, <3>2
  <2> QED
    BY <2>2, <2>3 DEF GreetsFirst
<1>10. AcksAreEarned'
  <2>1. \A q \in Remotes : equipped[q] \subseteq equipped'[q]
    BY <1>1 DEF Joining, TypeOK
  <2>2. p \in equipped'[r]
    BY <1>1 DEF Joining, TypeOK
  <2>3. \A d \in Devices : \A m \in Out(d)' \cup In(d)' :
          m.name = "infoack" => acked[m.session] = Parts
    BY <1>2, <1>5 DEF Joining, AcksAreEarned
  <2>4. ASSUME NEW q \in Remotes, page[q] # Closed, NEW m \in Out(q)' \cup In(Master)',
               m.name = "partack", m.session = page[q]
        PROVE  m.part \in equipped'[q]
    <3>1. CASE m \in Out(q) \cup In(Master)
      BY <2>1, <2>4, <3>1 DEF Joining, AcksAreEarned
    <3>2. CASE m = a /\ q = r
      BY <1>2, <2>2, <3>2
    <3> QED
      BY <1>5, <2>4, <3>1, <3>2, Distinct
  <2> QED
    BY <2>1, <2>3, <2>4 DEF Joining, AcksAreEarned
<1> QED
  BY <1>6, <1>7, <1>8, <1>9, <1>10 DEF Joining

\* A remote gets a part.
LEMMA JoiningParsePart ==
    ASSUME Joining, NEW r \in Remotes, ParsePart(r)
    PROVE  Joining'
<1> DEFINE m == Head(inbox[r])
<1>1. /\ m \in Message /\ m.name = "part" /\ r \in Devices
      /\ inbox' \in [Devices -> Seq(Message)]
      /\ \A e \in Devices : e # r => inbox'[e] = inbox[e]
      /\ Taken(inbox[r], inbox'[r], m)
  BY ReceiveOne, Distinct DEF Joining, ParsePart
<1>2. /\ data' = [data EXCEPT ![r] =
                   [k \in Keys |-> IF m.data[k] # Unset THEN m.data[k] ELSE data[r][k]]]
      /\ \/ /\ m.part \in Scripts
            /\ loading' = [loading EXCEPT ![r] = loading[r] \cup {<<m.session, m.part>>}]
            /\ UNCHANGED <<equipped, out>>
         \/ /\ m.part \notin Scripts
            /\ Settle(r, m.session, m.part)
            /\ UNCHANGED loading
      /\ UNCHANGED <<page, identified, ready, acked, opened, writes, witnesses>>
  BY <1>1 DEF ParsePart, Joining, TypeOK
<1>3. inbox[r] # <<>>
  BY DEF ParsePart, Receives
<1> HIDE DEF m
<1>4. /\ m.session \in Sessions /\ m.part \in Parts /\ m.data \in Store /\ m \in In(r)
  BY <1>1, MessageFields DEF In, Taken
<1>5. \A e \in Devices : In(e)' \subseteq In(e)
  BY <1>1 DEF In, Taken
<1>6. r \in identified /\ page[r] # Closed
  <2>1. page[r] # Closed
    BY <1>3 DEF Joining, TypeOK
  <2> QED
    BY <1>1, <1>4, <2>1 DEF Joining, GreetsFirst
<1>7. m.session <= opened /\ \A q \in Remotes : page[q] = m.session => q = r
  <2>1. m.to = r
    BY <1>1, <1>4 DEF Joining, GetsOnly
  <2> QED
    BY <1>1, <1>4, <2>1 DEF Joining, SessionsApart, InSession, PeerOf
<1>8. data' \in [Devices -> Store]
  <2>1. [k \in Keys |-> IF m.data[k] # Unset THEN m.data[k] ELSE data[r][k]] \in Store
    BY <1>1, <1>4 DEF Joining, TypeOK, Store
  <2> QED
    BY <1>2, <2>1 DEF Joining, TypeOK
<1>9. \A q \in Remotes : inbox[q] = <<>> => inbox'[q] = <<>>
  BY <1>1, <1>3, Distinct
<1>10. CASE m.part \notin Scripts
  <2>1. loading' = loading /\ loading \in [Remotes -> SUBSET (Sessions \X Scripts)]
    BY <1>2, <1>10 DEF Joining, TypeOK
  <2>2. /\ Settle(r, m.session, m.part)
        /\ UNCHANGED <<page, identified, ready, acked, opened, writes, witnesses>>
    BY <1>2, <1>10
  <2>3. \A q \in Remotes : loading'[q] \subseteq loading[q]
    BY <2>1
  <2> QED
    BY <1>1, <1>4, <1>5, <1>6, <1>7, <1>8, <1>9, <2>1, <2>2, <2>3, JoiningSettle
<1>11. CASE m.part \in Scripts
  <2>1. /\ loading' = [loading EXCEPT ![r] = loading[r] \cup {<<m.session, m.part>>}]
        /\ UNCHANGED <<equipped, out>>
        /\ \A e \in Devices : Out(e)' = Out(e)
    BY <1>2, <1>11 DEF Out
  <2>2. TypeOK'
    <3>1. loading' \in [Remotes -> SUBSET (Sessions \X Scripts)]
      BY <1>4, <1>11, <2>1 DEF Joining, TypeOK
    <3>2. \A q \in Remotes : page[q] = Closed => inbox'[q] = <<>> /\ loading'[q] = {}
      BY <1>6, <1>9, <2>1 DEF Joining, TypeOK
    <3> QED
      BY <1>1, <1>2, <1>8, <2>1, <3>1, <3>2 DEF Joining, TypeOK
  <2>3. SendsOnly' /\ GetsOnly'
    BY <1>2, <1>5, <2>1, Distinct DEF Joining, SendsOnly, GetsOnly
  <2>4. SessionsApart'
    <3>1. ASSUME NEW q \in Remotes, NEW l \in loading'[q]
          PROVE  l[1] <= opened /\ \A t \in Remotes : page[t] = l[1] => t = q
      <4>1. CASE l \in loading[q]
        BY <4>1 DEF Joining, SessionsApart
      <4>2. CASE l \notin loading[q]
        <5>1. q = r /\ l = <<m.session, m.part>>
          BY <2>1, <3>1, <4>2 DEF Joining, TypeOK
        <5> QED
          BY <1>7, <5>1
      <4> QED
        BY <4>1, <4>2
    <3> QED
      BY <1>2, <1>5, <2>1, <3>1 DEF Joining, SessionsApart, PeerOf
  <2>5. GreetsFirst'
    <3>1. \A q \in Remotes : q \notin identified => loading'[q] = loading[q]
      BY <1>6, <2>1 DEF Joining, TypeOK
    <3> QED
      BY <1>2, <1>5, <2>1, <3>1, Distinct DEF Joining, GreetsFirst
  <2>6. AcksAreEarned'
    BY <1>2, <1>5, <2>1, Distinct DEF Joining, AcksAreEarned
  <2> QED
    BY <2>2, <2>3, <2>4, <2>5, <2>6 DEF Joining
<1> QED
  BY <1>10, <1>11

\* A script has been loaded.
LEMMA JoiningScriptSettled ==
    ASSUME Joining, NEW r \in Remotes, ScriptSettled(r)
    PROVE  Joining'
<1>1. PICK l \in loading[r] : /\ loading' = [loading EXCEPT ![r] = loading[r] \ {l}]
                              /\ Settle(r, l[1], l[2])
  BY DEF ScriptSettled, Joining, TypeOK
<1>2. UNCHANGED <<page, identified, ready, acked, opened, data, writes, witnesses, inbox>>
  BY DEF ScriptSettled, storeVars
<1>3. l[1] \in Sessions /\ l[2] \in Parts
  BY <1>1, Distinct DEF Joining, TypeOK
<1>4. r \in identified
  BY <1>1 DEF Joining, TypeOK, GreetsFirst
<1>5. l[1] <= opened /\ \A q \in Remotes : page[q] = l[1] => q = r
  BY <1>1 DEF Joining, SessionsApart
<1>6. /\ loading' \in [Remotes -> SUBSET (Sessions \X Scripts)]
      /\ \A q \in Remotes : loading'[q] \subseteq loading[q]
  BY <1>1 DEF Joining, TypeOK
<1>7. \A d \in Devices : In(d)' \subseteq In(d)
  BY <1>2 DEF In
<1>8. data' \in [Devices -> Store] /\ inbox' \in [Devices -> Seq(Message)]
  BY <1>2 DEF Joining, TypeOK
<1> QED
  BY <1>1, <1>2, <1>3, <1>4, <1>5, <1>6, <1>7, <1>8, JoiningSettle

\* The master gets an acknowledgement.
LEMMA JoiningParsePartAck ==
    ASSUME Joining, ParsePartAck
    PROVE  Joining'
<1> DEFINE m == Head(inbox[Master])
           a == [name |-> "infoack", to |-> m.from, session |-> m.session]
           now == acked[m.session] \cup {m.part}
<1>1. /\ m \in Message /\ m.name = "partack"
      /\ inbox' \in [Devices -> Seq(Message)]
      /\ \A e \in Devices : e # Master => inbox'[e] = inbox[e]
      /\ Taken(inbox[Master], inbox'[Master], m)
  BY ReceiveOne, Distinct DEF Joining, ParsePartAck
<1>2. /\ acked' = [acked EXCEPT ![m.session] = acked[m.session] \cup {m.part}]
      /\ \/ DidConnect(now) /\ Send(Master, <<a>>)
         \/ UNCHANGED out
      /\ UNCHANGED <<page, identified, ready, equipped, loading, opened, data, writes,
                     witnesses>>
  <2>1. acked' = [acked EXCEPT ![m.session] = acked[m.session] \cup {m.part}]
    BY DEF ParsePartAck, Joining, TypeOK
  <2>2. \/ DidConnect(now) /\ Send(Master, <<a>>)
        \/ UNCHANGED out
    BY DEF ParsePartAck
  <2> QED
    BY <2>1, <2>2 DEF ParsePartAck, storeVars
<1>3. /\ m \in In(Master) /\ m.from \in Remotes /\ m.session \in Sessions /\ m.part \in Parts
  BY <1>1, MessageFields DEF In, Taken
<1>4. a \in Message /\ a.name = "infoack" /\ a.to = m.from /\ a.session = m.session
  BY <1>3 DEF Message, InfoAck
<1> HIDE DEF m, a
<1>5. /\ acked' \in [Sessions -> SUBSET Parts] /\ acked'[m.session] = now
      /\ \A s \in Sessions : s # m.session => acked'[s] = acked[s]
  BY <1>2, <1>3 DEF Joining, TypeOK
<1>6. DidConnect(now) => now = Parts
  BY <1>3 DEF DidConnect, Joining, TypeOK
<1> HIDE DEF now
<1>7. /\ out' \in [Devices -> Seq(Message)]
      /\ \A e \in Devices : e # Master => out'[e] = out[e]
      /\ \/ Put(out[Master], out'[Master], a) /\ acked'[m.session] = Parts
         \/ out' = out
  <2>1. CASE DidConnect(now) /\ Send(Master, <<a>>)
    BY <1>4, <1>5, <1>6, <2>1, SendOne, Distinct DEF Joining
  <2>2. CASE UNCHANGED out
    BY <2>2 DEF Joining, TypeOK
  <2> QED
    BY <1>2, <2>1, <2>2
<1>8. /\ \A e \in Devices : In(e)' \subseteq In(e)
      /\ \A e \in Devices : e # Master => Out(e)' = Out(e)
      /\ Out(Master)' = Out(Master) \/ (Out(Master)' = Out(Master) \cup {a}
                                       /\ acked'[m.session] = Parts)
  BY <1>1, <1>7 DEF In, Out, Taken, Put
<1>9. m.session <= opened /\ \A q \in Remotes : page[q] = m.session => q = m.from
  BY <1>1, <1>3, Distinct DEF Joining, SessionsApart, InSession, PeerOf
<1>10. TypeOK'
  <2>1. \A r \in Remotes : page[r] = Closed => out'[r] = <<>> /\ inbox'[r] = <<>>
    BY <1>1, <1>7, Distinct DEF Joining, TypeOK
  <2> QED
    BY <1>1, <1>2, <1>5, <1>7, <2>1 DEF Joining, TypeOK
<1>11. SendsOnly' /\ GetsOnly'
  <2>1. \A r \in Remotes : Out(r)' = Out(r)
    BY <1>8, Distinct
  <2>2. \A x \in Out(Master)' : x \in Out(Master) \/ x.name = "infoack"
    BY <1>4, <1>8
  <2> QED
    BY <1>2, <1>8, <2>1, <2>2, Distinct DEF Joining, SendsOnly, GetsOnly
<1>12. SessionsApart'
  <2>1. PeerOf(a) = m.from
    BY <1>4 DEF PeerOf
  <2>2. ASSUME NEW d \in Devices, NEW x \in Out(d)' \cup In(d)', x.name \in InSession
        PROVE  x.session <= opened /\ \A q \in Remotes : page[q] = x.session => q = PeerOf(x)
    <3>1. CASE x \in Out(d) \cup In(d)
      BY <2>2, <3>1 DEF Joining, SessionsApart
    <3>2. CASE x = a
      BY <1>4, <1>9, <2>1, <3>2
    <3> QED
      BY <1>8, <2>2, <3>1, <3>2
  <2>3. \A s \in Sessions : acked'[s] # {} => s <= opened
    BY <1>5, <1>9 DEF Joining, SessionsApart
  <2> QED
    BY <1>2, <2>2, <2>3 DEF Joining, SessionsApart, PeerOf
<1>13. GreetsFirst'
  <2>1. ASSUME NEW q \in Remotes, page[q] # Closed, q \notin identified
        PROVE  /\ out'[q] = Greeting(q, page[q])
               /\ loading[q] = {} /\ equipped[q] = {}
               /\ \A x \in In(q)' : x.name = "update"
               /\ \A x \in In(Master)' : x.name = "remoteinfo" => x.session # page[q]
               /\ \A x \in Out(Master)' : x.name = "part" => x.session # page[q]
    <3>1. /\ out[q] = Greeting(q, page[q])
          /\ loading[q] = {} /\ equipped[q] = {}
          /\ \A x \in In(q) : x.name = "update"
          /\ \A x \in In(Master) : x.name = "remoteinfo" => x.session # page[q]
          /\ \A x \in Out(Master) : x.name = "part" => x.session # page[q]
      BY <2>1 DEF Joining, GreetsFirst
    <3>2. In(q)' \subseteq In(q) /\ In(Master)' \subseteq In(Master) /\ out'[q] = out[q]
      BY <1>7, <1>8, Distinct
    <3>3. \A x \in Out(Master)' : x \in Out(Master) \/ x.name = "infoack"
      BY <1>4, <1>8
    <3> QED
      BY <3>1, <3>2, <3>3
  <2>2. \A q \in Remotes : q \in identified => \A x \in Out(q)' : x.name # "identification"
    BY <1>8, Distinct DEF Joining, GreetsFirst
  <2> QED
    BY <1>2, <2>1, <2>2 DEF GreetsFirst
<1>14. AcksAreEarned'
  <2>1. \A s \in Sessions : acked[s] \subseteq acked'[s] /\ acked'[s] \subseteq Parts
    BY <1>5 DEF now, Joining, TypeOK
  <2>2. ASSUME NEW d \in Devices, NEW x \in Out(d)' \cup In(d)', x.name = "infoack"
        PROVE  acked'[x.session] = Parts
    <3>1. CASE x \in Out(d) \cup In(d)
      <4>1. acked[x.session] = Parts
        BY <2>2, <3>1 DEF Joining, AcksAreEarned
      <4>2. x \in Message
        BY <3>1, InQueues DEF Joining
      <4>3. x.session \in Sessions
        BY <2>2, <4>2, MessageFields
      <4> QED
        BY <2>1, <4>1, <4>3
    <3>2. CASE x = a /\ acked'[m.session] = Parts
      BY <1>4, <3>2
    <3> QED
      BY <1>8, <2>2, <3>1, <3>2
  <2>3. ASSUME NEW q \in Remotes, page[q] # Closed
        PROVE  acked'[page[q]] \subseteq equipped[q]
    <3>1. page[q] \in Sessions
      BY <2>3 DEF Joining, TypeOK
    <3>2. acked[page[q]] \subseteq equipped[q]
      BY <2>3 DEF Joining, AcksAreEarned
    <3>3. page[q] = m.session => m.part \in equipped[q]
      BY <1>1, <1>3, <2>3 DEF Joining, AcksAreEarned
    <3> QED
      BY <1>5, <3>1, <3>2, <3>3 DEF now
  <2>4. ASSUME NEW q \in Remotes, page[q] # Closed, NEW x \in Out(q)' \cup In(Master)',
               x.name = "partack", x.session = page[q]
        PROVE  x.part \in equipped[q]
    BY <1>8, <2>4, Distinct DEF Joining, AcksAreEarned
  <2>5. ASSUME NEW q \in ready
        PROVE  acked'[page[q]] = Parts
    <3>1. page[q] \in Sessions /\ acked[page[q]] = Parts
      BY DEF Joining, TypeOK, AcksAreEarned
    <3> QED
      BY <2>1, <3>1
  <2> QED
    BY <1>2, <2>2, <2>3, <2>4, <2>5 DEF AcksAreEarned
<1> QED
  BY <1>10, <1>11, <1>12, <1>13, <1>14 DEF Joining

\* A page is ready.
LEMMA JoiningParseInfoAck ==
    ASSUME Joining, NEW r \in Remotes, ParseInfoAck(r)
    PROVE  Joining'
<1> DEFINE m == Head(inbox[r])
<1>1. /\ m \in Message /\ m.name = "infoack" /\ r \in Devices
      /\ inbox' \in [Devices -> Seq(Message)]
      /\ \A e \in Devices : e # r => inbox'[e] = inbox[e]
      /\ Taken(inbox[r], inbox'[r], m)
  BY ReceiveOne, Distinct DEF Joining, ParseInfoAck
<1>2. /\ ready' = IF m.session = page[r] THEN ready \cup {r} ELSE ready
      /\ UNCHANGED <<page, identified, equipped, loading, acked, opened, data, writes,
                     witnesses, out>>
  BY DEF ParseInfoAck, storeVars
<1>3. inbox[r] # <<>>
  BY DEF ParseInfoAck, Receives
<1> HIDE DEF m
<1>4. m \in In(r) /\ \A e \in Devices : In(e)' \subseteq In(e) /\ Out(e)' = Out(e)
  BY <1>1, <1>2 DEF In, Out, Taken
<1>5. r \in identified
  BY <1>1, <1>3, <1>4 DEF Joining, TypeOK, GreetsFirst
<1>6. acked[m.session] = Parts
  BY <1>1, <1>4 DEF Joining, AcksAreEarned
<1>7. TypeOK'
  <2>1. \A q \in Remotes : page[q] = Closed => inbox'[q] = <<>>
    BY <1>1, <1>3, Distinct DEF Joining, TypeOK
  <2> QED
    BY <1>1, <1>2, <1>5, <2>1 DEF Joining, TypeOK
<1>8. SendsOnly' /\ GetsOnly'
  BY <1>2, <1>4, Distinct DEF Joining, SendsOnly, GetsOnly
<1>9. SessionsApart'
  BY <1>2, <1>4 DEF Joining, SessionsApart, PeerOf
<1>10. GreetsFirst'
  BY <1>2, <1>4, Distinct DEF Joining, GreetsFirst
<1>11. AcksAreEarned'
  <2>1. \A q \in ready' : acked[page[q]] = Parts
    BY <1>2, <1>6 DEF Joining, AcksAreEarned
  <2> QED
    BY <1>2, <1>4, <2>1, Distinct DEF Joining, AcksAreEarned
<1> QED
  BY <1>7, <1>8, <1>9, <1>10, <1>11 DEF Joining

\* A page is opened.
LEMMA JoiningOpenPage ==
    ASSUME Joining, NEW r \in Remotes, OpenPage(r)
    PROVE  Joining'
<1> DEFINE s == opened + 1
<1>1. /\ page[r] = Closed /\ opened \in Nat /\ opened' = s /\ s \in Sessions /\ s \in Nat
      /\ s \in 0..MaxSessions /\ s # Closed
      /\ page' = [page EXCEPT ![r] = s]
      /\ equipped' = [equipped EXCEPT ![r] = {}]
      /\ data' = [data EXCEPT ![r] = Empty]
      /\ out' = [out EXCEPT ![r] = out[r] \o Greeting(r, s)]
      /\ UNCHANGED <<identified, ready, loading, acked, writes, witnesses, inbox>>
  BY Distinct DEF Joining, TypeOK, OpenPage, Send, Sessions, Closed
<1>2. /\ out[r] = <<>> /\ inbox[r] = <<>> /\ loading[r] = {}
      /\ r \notin identified /\ r \notin ready /\ r \in Devices
  BY <1>1, Distinct DEF Joining, TypeOK
<1> HIDE DEF s
<1>3. /\ Greeting(r, s) \in Seq(Message)
      /\ ToSet(Greeting(r, s)) = {Hello, Info(r, s)}
      /\ Hello.name = "identification"
      /\ Info(r, s).name = "remoteinfo" /\ Info(r, s).from = r /\ Info(r, s).session = s
  <2>1. s \in Sessions
    BY <1>1
  <2>2. Greeting(r, s) \in Seq(Message) /\ ToSet(Greeting(r, s)) = {Hello, Info(r, s)}
    BY <2>1, GreetingMembers
  <2>3. /\ Hello.name = "identification"
        /\ Info(r, s).name = "remoteinfo" /\ Info(r, s).from = r /\ Info(r, s).session = s
    BY DEF Hello, Info
  <2> QED
    BY <2>2, <2>3
<1>4. /\ out' \in [Devices -> Seq(Message)] /\ out'[r] = Greeting(r, s)
      /\ \A e \in Devices : e # r => out'[e] = out[e]
  <2>1. <<>> \o Greeting(r, s) = Greeting(r, s)
    BY <1>3
  <2> QED
    BY <1>1, <1>2, <1>3, <2>1 DEF Joining, TypeOK
<1>5. /\ \A e \in Devices : In(e)' = In(e)
      /\ \A e \in Devices : e # r => Out(e)' = Out(e)
      /\ Out(r)' = {Hello, Info(r, s)} /\ In(r) = {}
  BY <1>1, <1>2, <1>3, <1>4, NoMembers DEF In, Out
<1>6. \A q \in Remotes : q # r => page'[q] = page[q] /\ equipped'[q] = equipped[q]
  BY <1>1 DEF Joining, TypeOK
<1>7. page'[r] = s /\ equipped'[r] = {}
  BY <1>1 DEF Joining, TypeOK
<1>8. \A n \in Nat : n <= opened => n <= s /\ n # s
  BY <1>1 DEF s
<1>9. Master # r
  BY Distinct
<1>10. TypeOK'
  <2>1. data' \in [Devices -> Store]
    <3>1. Empty \in Store
      BY Distinct DEF Empty, Store
    <3> QED
      BY <1>1, <3>1 DEF Joining, TypeOK
  <2>2. \A q \in Remotes : page'[q] = Closed =>
          out'[q] = <<>> /\ inbox[q] = <<>> /\ loading[q] = {}
    BY <1>1, <1>4, <1>6, <1>7, Distinct DEF Joining, TypeOK
  <2>3. identified \subseteq {q \in Remotes : page'[q] # Closed}
    BY <1>2, <1>6 DEF Joining, TypeOK
  <2>4. page' \in [Remotes -> Sessions \cup {Closed}] /\ equipped' \in [Remotes -> SUBSET Parts]
    BY <1>1 DEF Joining, TypeOK
  <2> QED
    BY <1>1, <1>4, <2>1, <2>2, <2>3, <2>4 DEF Joining, TypeOK
<1>11. SendsOnly'
  <2>1. ASSUME NEW q \in Remotes, NEW m \in Out(q)'
        PROVE  /\ m.name \in {"identification", "remoteinfo", "partack", "update"}
               /\ m.name \in {"remoteinfo", "partack"} => m.from = q
               /\ m.name = "remoteinfo" => m.session = page'[q]
               /\ m.name = "update" => Writer[m.key] = q
    <3>1. CASE q = r
      BY <1>3, <1>5, <1>7, <2>1, <3>1
    <3>2. CASE q # r
      BY <1>5, <1>6, <2>1, <3>2, Distinct DEF Joining, SendsOnly
    <3> QED
      BY <3>1, <3>2
  <2> QED
    BY <1>5, <1>9, <2>1, Distinct DEF Joining, SendsOnly
<1>12. GetsOnly'
  BY <1>5, Distinct DEF Joining, GetsOnly
<1>13. SessionsApart'
  <2>1. ASSUME NEW d \in Devices, NEW m \in Out(d)' \cup In(d)', m.name \in InSession
        PROVE  m.session <= s /\ \A q \in Remotes : page'[q] = m.session => q = PeerOf(m)
    <3>1. CASE m \in Out(d) \cup In(d)
      <4>1. m.session <= opened /\ \A q \in Remotes : page[q] = m.session => q = PeerOf(m)
        BY <2>1, <3>1 DEF Joining, SessionsApart
      <4>2. m \in Message
        BY <3>1, InQueues DEF Joining
      <4>3. m.session \in Nat
        BY <2>1, <4>2, MessageFields, Distinct DEF InSession
      <4> QED
        BY <1>6, <1>7, <1>8, <4>1, <4>3
    <3>2. CASE d = r /\ m \in {Hello, Info(r, s)}
      <4>1. m = Info(r, s) /\ PeerOf(m) = r
        BY <1>3, <2>1, <3>2 DEF InSession, PeerOf
      <4>2. \A q \in Remotes : page'[q] = s => q = r
        BY <1>1, <1>6, <1>8, Distinct DEF Joining, TypeOK, SessionsApart
      <4> QED
        BY <1>1, <1>3, <4>1, <4>2
    <3> QED
      BY <1>5, <2>1, <3>1, <3>2
  <2>2. ASSUME NEW q \in Remotes
        PROVE  page[q] # s /\ page[q] <= s
    <3>1. page[q] \in Sessions \cup {Closed}
      BY DEF Joining, TypeOK
    <3>2. page[q] \in Nat
      BY <3>1 DEF Sessions, Closed
    <3>3. page[q] <= opened
      BY DEF Joining, SessionsApart
    <3> QED
      BY <1>8, <3>2, <3>3
  <2>3. \A q \in Remotes : page'[q] <= s
    BY <1>1, <1>6, <1>7, <2>2
  <2>4. \A p, q \in Remotes : page'[p] = page'[q] /\ page'[p] # Closed => p = q
    BY <1>6, <1>7, <2>2 DEF Joining, SessionsApart
  <2>5. ASSUME NEW q \in Remotes, NEW l \in loading[q]
        PROVE  l[1] <= s /\ \A t \in Remotes : page'[t] = l[1] => t = q
    <3>1. l \in Sessions \X Scripts
      BY DEF Joining, TypeOK
    <3>2. l[1] \in Nat
      BY <3>1, Distinct
    <3>3. l[1] <= opened /\ \A t \in Remotes : page[t] = l[1] => t = q
      BY DEF Joining, SessionsApart
    <3> QED
      BY <1>6, <1>7, <1>8, <3>2, <3>3
  <2>6. \A t \in Sessions : acked[t] # {} => t <= s
    BY <1>8, Distinct DEF Joining, SessionsApart
  <2> QED
    BY <1>1, <2>1, <2>3, <2>4, <2>5, <2>6 DEF SessionsApart, PeerOf
<1>14. \A d \in Devices : \A m \in Out(d) \cup In(d) : m.name \in InSession => m.session # s
  <2>1. ASSUME NEW d \in Devices, NEW m \in Out(d) \cup In(d), m.name \in InSession
        PROVE  m.session # s
    <3>1. m \in Message /\ m.session <= opened
      BY <2>1, InQueues DEF Joining, SessionsApart
    <3>2. m.session \in Nat
      BY <2>1, <3>1, MessageFields, Distinct DEF InSession
    <3> QED
      BY <1>8, <3>1, <3>2
  <2> QED
    BY <2>1
<1>15. GreetsFirst'
  <2>1. ASSUME NEW q \in Remotes, page'[q] # Closed, q \notin identified
        PROVE  /\ out'[q] = Greeting(q, page'[q])
               /\ loading[q] = {} /\ equipped'[q] = {}
               /\ \A m \in In(q) : m.name = "update"
               /\ \A m \in In(Master) : m.name = "remoteinfo" => m.session # page'[q]
               /\ \A m \in Out(Master) : m.name = "part" => m.session # page'[q]
    <3>1. CASE q = r
      BY <1>2, <1>4, <1>5, <1>7, <1>14, <3>1, Distinct DEF InSession
    <3>2. CASE q # r
      BY <1>4, <1>6, <2>1, <3>2, Distinct DEF Joining, GreetsFirst
    <3> QED
      BY <3>1, <3>2
  <2>2. \A q \in Remotes : q \in identified => \A m \in Out(q)' : m.name # "identification"
    BY <1>2, <1>5, Distinct DEF Joining, GreetsFirst
  <2> QED
    BY <1>1, <1>5, <1>9, <2>1, <2>2, Distinct DEF GreetsFirst
<1>16. AcksAreEarned'
  <2>1. acked[s] = {}
    BY <1>1, <1>8, Distinct DEF Joining, SessionsApart
  <2>2. ASSUME NEW q \in Remotes, page'[q] # Closed
        PROVE  /\ acked[page'[q]] \subseteq equipped'[q]
               /\ \A m \in Out(q)' \cup In(Master)' :
                    m.name = "partack" /\ m.session = page'[q] => m.part \in equipped'[q]
    <3>1. CASE q = r
      BY <1>3, <1>5, <1>7, <1>14, <2>1, <3>1, Distinct DEF InSession
    <3>2. CASE q # r
      BY <1>5, <1>6, <2>2, <3>2, Distinct DEF Joining, AcksAreEarned
    <3> QED
      BY <3>1, <3>2
  <2>3. \A d \in Devices : \A m \in Out(d)' \cup In(d)' :
          m.name = "infoack" => acked[m.session] = Parts
    BY <1>3, <1>5 DEF Joining, AcksAreEarned
  <2>4. \A q \in ready : acked[page'[q]] = Parts
    BY <1>2, <1>6 DEF Joining, TypeOK, AcksAreEarned
  <2> QED
    BY <1>1, <2>2, <2>3, <2>4 DEF AcksAreEarned
<1> QED
  BY <1>10, <1>11, <1>12, <1>13, <1>15, <1>16 DEF Joining

\* A page is closed.
LEMMA JoiningClosePage ==
    ASSUME Joining, NEW r \in Remotes, ClosePage(r)
    PROVE  Joining'
<1>1. /\ page[r] # Closed /\ page' = [page EXCEPT ![r] = Closed]
      /\ identified' = identified \ {r} /\ ready' = ready \ {r}
      /\ loading' = [loading EXCEPT ![r] = {}]
      /\ out' = [out EXCEPT ![r] = <<>>] /\ inbox' = [inbox EXCEPT ![r] = <<>>]
      /\ witnesses' = [k \in Keys |-> witnesses[k] \ {r}]
      /\ UNCHANGED <<equipped, acked, opened, data, writes>>
  BY DEF ClosePage
<1>2. /\ \A e \in Devices : e # r => out'[e] = out[e] /\ inbox'[e] = inbox[e]
      /\ out'[r] = <<>> /\ inbox'[r] = <<>>
      /\ \A q \in Remotes : q # r => page'[q] = page[q] /\ loading'[q] = loading[q]
      /\ page'[r] = Closed /\ loading'[r] = {}
      /\ r \in Devices /\ Master # r
  BY <1>1, Distinct DEF Joining, TypeOK
<1>3. /\ \A e \in Devices : e # r => Out(e)' = Out(e) /\ In(e)' = In(e)
      /\ Out(r)' = {} /\ In(r)' = {}
  BY <1>2, NoMembers DEF Out, In
<1>4. TypeOK'
  <2>1. <<>> \in Seq(Message)
    OBVIOUS
  <2>2. /\ out' \in [Devices -> Seq(Message)] /\ inbox' \in [Devices -> Seq(Message)]
        /\ page' \in [Remotes -> Sessions \cup {Closed}]
        /\ loading' \in [Remotes -> SUBSET (Sessions \X Scripts)]
        /\ witnesses' \in [Keys -> SUBSET Devices]
    BY <1>1, <2>1 DEF Joining, TypeOK
  <2>3. \A q \in Remotes : page'[q] = Closed =>
          out'[q] = <<>> /\ inbox'[q] = <<>> /\ loading'[q] = {}
    BY <1>2, Distinct DEF Joining, TypeOK
  <2>4. identified' \subseteq {q \in Remotes : page'[q] # Closed} /\ ready' \subseteq identified'
    BY <1>1, <1>2 DEF Joining, TypeOK
  <2> QED
    BY <1>1, <2>2, <2>3, <2>4 DEF Joining, TypeOK
<1>5. SendsOnly' /\ GetsOnly'
  <2>1. SendsOnly'
    BY <1>2, <1>3, Distinct DEF Joining, SendsOnly
  <2>2. GetsOnly'
    BY <1>2, <1>3, Distinct DEF Joining, GetsOnly
  <2> QED
    BY <2>1, <2>2
<1>6. SessionsApart'
  <2>1. Closed <= opened
    BY Distinct DEF Joining, TypeOK
  <2>2. ASSUME NEW d \in Devices, NEW m \in Out(d)' \cup In(d)', m.name \in InSession
        PROVE  m.session <= opened /\ \A q \in Remotes : page'[q] = m.session => q = PeerOf(m)
    <3>1. m \in Out(d) \cup In(d)
      BY <1>3, <2>2
    <3>2. m.session <= opened /\ \A q \in Remotes : page[q] = m.session => q = PeerOf(m)
      BY <2>2, <3>1 DEF Joining, SessionsApart
    <3>3. m \in Message
      BY <3>1, InQueues DEF Joining
    <3>4. m.session # Closed
      BY <2>2, <3>3, MessageFields, Distinct DEF InSession
    <3> QED
      BY <1>2, <3>2, <3>4
  <2>3. ASSUME NEW q \in Remotes, NEW l \in loading'[q]
        PROVE  l[1] <= opened /\ \A t \in Remotes : page'[t] = l[1] => t = q
    <3>1. q # r /\ l \in loading[q] /\ l[1] # Closed
      BY <1>2, Distinct DEF Joining, TypeOK
    <3> QED
      BY <1>2, <3>1 DEF Joining, SessionsApart
  <2>4. /\ \A q \in Remotes : page'[q] <= opened
        /\ \A p, q \in Remotes : page'[p] = page'[q] /\ page'[p] # Closed => p = q
    BY <1>2, <2>1 DEF Joining, SessionsApart
  <2> QED
    BY <1>1, <2>2, <2>3, <2>4 DEF Joining, SessionsApart, PeerOf
<1>7. GreetsFirst'
  BY <1>1, <1>2, <1>3, Distinct DEF Joining, GreetsFirst
<1>8. AcksAreEarned'
  BY <1>1, <1>2, <1>3, Distinct DEF Joining, AcksAreEarned
<1> QED
  BY <1>4, <1>5, <1>6, <1>7, <1>8 DEF Joining

\* Every step.
LEMMA NextJoining == Joining /\ [Next]_vars => Joining'
<1> SUFFICES ASSUME Joining, [Next]_vars
             PROVE  Joining'
  OBVIOUS
<1>1. ASSUME NEW d \in Devices, NEW k \in Keys, Set(d, k)
      PROVE  Joining'
  BY <1>1, JoiningSet
<1>2. ASSUME NEW d \in Devices, Relay(d)
      PROVE  Joining'
  BY <1>2, JoiningRelay
<1>3. ASSUME NEW d \in Devices, ParseUpdate(d)
      PROVE  Joining'
  BY <1>3, JoiningParseUpdate
<1>4. CASE ParseRemoteInfo
  BY <1>4, JoiningParseRemoteInfo
<1>5. CASE ParsePartAck
  BY <1>5, JoiningParsePartAck
<1>6. ASSUME NEW r \in Remotes, ParsePart(r)
      PROVE  Joining'
  BY <1>6, JoiningParsePart
<1>7. ASSUME NEW r \in Remotes, ParseInfoAck(r)
      PROVE  Joining'
  BY <1>7, JoiningParseInfoAck
<1>8. ASSUME NEW r \in Remotes, OpenPage(r)
      PROVE  Joining'
  BY <1>8, JoiningOpenPage
<1>9. ASSUME NEW r \in Remotes, ScriptSettled(r)
      PROVE  Joining'
  BY <1>9, JoiningScriptSettled
<1>10. ASSUME NEW r \in Remotes, ClosePage(r)
       PROVE  Joining'
  BY <1>10, JoiningClosePage
<1>11. CASE UNCHANGED vars
  BY <1>11 DEF vars, handshakeVars, storeVars, channels, Joining, TypeOK, SendsOnly, GetsOnly,
               SessionsApart, GreetsFirst, AcksAreEarned, In, Out, PeerOf
<1> QED
  BY <1>1, <1>2, <1>3, <1>4, <1>5, <1>6, <1>7, <1>8, <1>9, <1>10, <1>11 DEF Next, Handle

\* In every reachable state.
THEOREM AlwaysJoining == Spec => []Joining
<1>1. Init => Joining
  BY InitJoining
<1>2. Joining /\ [Next]_vars => Joining'
  BY NextJoining
<1> QED
  BY <1>1, <1>2, PTL DEF Spec

\* Every variable has its type; a remote is on record, ready or loading only
\* while its page is open.
THEOREM TypeCorrect == Spec => []TypeOK
<1>1. Joining => TypeOK
  BY DEF Joining
<1> QED
  BY <1>1, AlwaysJoining, PTL

\* A page is ready only when it has the debug information, the data and the
\* files, settled for the session of this page.
THEOREM ReadyHasAllParts == Spec => []ReadyIsEquipped
<1>1. Joining => ReadyIsEquipped
  <2> SUFFICES ASSUME Joining, NEW r \in ready
               PROVE  equipped[r] = Parts /\ acked[page[r]] = Parts
    BY DEF ReadyIsEquipped
  <2>1. r \in Remotes /\ page[r] # Closed /\ equipped[r] \subseteq Parts
    BY DEF Joining, TypeOK
  <2> QED
    BY <2>1 DEF Joining, AcksAreEarned
<1> QED
  BY <1>1, AlwaysJoining, PTL

-----------------------------------------------------------------------------
(* What the steps do to the values.                                        *)

NewUpdate(k) == [name |-> "update", to |-> "broadcast", key |-> k, value |-> writes + 1]

\* The device d sets the entry k.
IsSet(d, k) ==
    /\ d = Writer[k] /\ (d = Master \/ d \in ready)
    /\ writes' = writes + 1
    /\ NewUpdate(k) \in Message /\ IsUpdate(NewUpdate(k), k)
    /\ NewUpdate(k).name = "update" /\ NewUpdate(k).value = writes + 1
    /\ \A j \in Keys : /\ Value(NewUpdate(k), j) = IF j = k THEN writes + 1 ELSE Unset
                       /\ j # k => ~Carries(NewUpdate(k), j) /\ ~IsUpdate(NewUpdate(k), j)
    /\ data'[d][k] = writes + 1
    /\ \A e \in Devices, j \in Keys : e # d \/ j # k => data'[e][j] = data[e][j]
    /\ Put(out[d], out'[d], NewUpdate(k))
    /\ \A e \in Devices : e # d => out'[e] = out[e]
    /\ UNCHANGED <<page, identified, ready, equipped, loading, acked, opened, witnesses, inbox>>

\* Setting an entry.
LEMMA SetDoes ==
    ASSUME Joining, NEW d \in Devices, NEW k \in Keys, Set(d, k)
    PROVE  IsSet(d, k)
<1> DEFINE m == NewUpdate(k)
<1>1. /\ d = Writer[k] /\ (d = Master \/ d \in ready)
      /\ writes \in Nat /\ writes' = writes + 1 /\ writes + 1 \in 1..MaxWrites
      /\ data' = [data EXCEPT ![d][k] = writes']
      /\ Send(d, <<m>>)
      /\ UNCHANGED <<page, identified, ready, equipped, loading, acked, opened,
                     witnesses, inbox>>
  BY Distinct DEF Joining, TypeOK, Set, handshakeVars, NewUpdate
<1>2. /\ m \in Message /\ IsUpdate(m, k) /\ m.name = "update" /\ m.value = writes + 1
      /\ m.key = k
  BY <1>1 DEF Message, Update, NewUpdate, IsUpdate
<1>3. \A j \in Keys : /\ Value(m, j) = IF j = k THEN writes + 1 ELSE Unset
                      /\ j # k => ~Carries(m, j) /\ ~IsUpdate(m, j)
  BY <1>2 DEF Value, Carries, IsData, IsUpdate
<1> HIDE DEF m
<1>4. /\ \A e \in Devices : e # d => out'[e] = out[e]
      /\ Put(out[d], out'[d], m)
  BY <1>1, <1>2, SendOne DEF Joining
<1>5. /\ data'[d][k] = writes + 1
      /\ \A e \in Devices, j \in Keys : e # d \/ j # k => data'[e][j] = data[e][j]
  BY <1>1 DEF Joining, TypeOK, Store
<1> QED
  BY <1>1, <1>2, <1>3, <1>4, <1>5 DEF IsSet, m

\* The relay takes the message m from d.
IsRelayed(d, m) ==
    /\ m \in Message /\ m \in Out(d)
    /\ Taken(out[d], out'[d], m)
    /\ \A e \in Devices : e # d => out'[e] = out[e]
    /\ \A e \in Devices :
         /\ Reaches(d, m, e) => Put(inbox[e], inbox'[e], m)
         /\ ~Reaches(d, m, e) => inbox'[e] = inbox[e]
    /\ m.name = "identification" => identified' = identified \cup {d}
    /\ m.name # "identification" => identified' = identified
    /\ \A k \in Keys : witnesses'[k] =
         IF IsUpdate(m, k) THEN ready \cup {Master} ELSE witnesses[k]
    /\ UNCHANGED <<page, ready, equipped, loading, acked, opened, data, writes>>

\* Relaying a message.
LEMMA RelayDoes ==
    ASSUME Joining, NEW d \in Devices, Relay(d)
    PROVE  IsRelayed(d, Head(out[d]))
<1> DEFINE m == Head(out[d])
<1>1. /\ m \in Message
      /\ \A e \in Devices : e # d => out'[e] = out[e]
      /\ Taken(out[d], out'[d], m)
      /\ \A e \in Devices :
           /\ Reaches(d, m, e) => Put(inbox[e], inbox'[e], m)
           /\ ~Reaches(d, m, e) => inbox'[e] = inbox[e]
  BY RelayOne DEF Joining
<1>2. m \in Out(d)
  BY <1>1 DEF Taken, Out
<1>3. /\ UNCHANGED <<page, ready, equipped, loading, acked, opened, data, writes>>
      /\ m.name = "identification" => identified' = identified \cup {d}
      /\ m.name # "identification" => identified' = identified
  BY DEF Relay
<1>4. \A k \in Keys : witnesses'[k] =
         IF m.name = "update" /\ m.key = k THEN ready \cup {Master} ELSE witnesses[k]
  <2>1. CASE m.name = "identification"
    BY <2>1 DEF Relay
  <2>2. CASE m.name # "identification"
    BY <2>2 DEF Relay
  <2> QED
    BY <2>1, <2>2
<1> HIDE DEF m
<1> QED
  BY <1>1, <1>2, <1>3, <1>4 DEF IsRelayed, IsUpdate, m

\* Who gets a message that is relayed.
LEMMA RelayedTo ==
    ASSUME Joining, NEW d \in Devices, NEW m \in Out(d), NEW e \in Devices
    PROVE  /\ Reaches(d, m, e) =>
                /\ d \in identified \cup {Master} /\ m.name # "identification"
                /\ e # Master => page[e] # Closed
                /\ m.name = "update" => e # d
                /\ m.name # "update" => e = m.to /\ e \in identified \cup {Master}
           /\ /\ m.name = "update" /\ d \in identified \cup {Master}
              /\ e # d /\ (e = Master \/ page[e] # Closed)
              => Reaches(d, m, e)
           /\ /\ m.name # "update" /\ m.name # "identification"
              /\ d \in identified \cup {Master} /\ e = m.to /\ e \in identified \cup {Master}
              => Reaches(d, m, e)
<1>1. m \in Message
  BY InQueues DEF Joining
<1>2. /\ m.name = "update" => m.to = "broadcast"
      /\ m.name # "update" /\ m.name # "identification" => m.to \in Devices
  BY <1>1, MessageFields, Distinct
<1> QED
  BY <1>2, Distinct DEF Reaches, Recipients, BroadcastTargets, Joining, TypeOK

IsAck(m) == m.name \in {"partack", "infoack"}

\* The device d takes over the values of m.
Adopts(d, m) ==
    /\ \A k \in Keys : data'[d][k] = IF Value(m, k) # Unset THEN Value(m, k) ELSE data[d][k]
    /\ \A e \in Devices, k \in Keys : e # d => data'[e][k] = data[e][k]

\* The device d handles the message m and sends u.
IsHandled(d, m, u) ==
    /\ m \in Message /\ m \in In(d)
    /\ Taken(inbox[d], inbox'[d], m)
    /\ \A e \in Devices : e # d => inbox'[e] = inbox[e]
    /\ Adopts(d, m)
    /\ Joined(out[d], out'[d], u)
    /\ \A e \in Devices : e # d => out'[e] = out[e]
    /\ \/ /\ \A x \in ToSet(u) : IsAck(x)
          /\ \A x, y : ~Precedes(u, x, y)
          /\ m.name # "remoteinfo"
       \/ d = Master /\ m.name = "remoteinfo" /\ u = Batch(m.from, m.session)
    /\ UNCHANGED <<page, identified, opened, writes, witnesses>>
    /\ \A r \in Remotes : "data" \in equipped'[r] =>
         "data" \in equipped[r] \/ (r = d /\ IsData(m))
    /\ ready \subseteq ready' /\ ready' \subseteq ready \cup {d}

\* Nothing is sent.
LEMMA JoiningNone ==
    ASSUME NEW s
    PROVE  Joined(s, s, <<>>) /\ ToSet(<<>>) = {} /\ \A x, y : ~Precedes(<<>>, x, y)
BY NoMembers DEF Joined

\* One message is sent.
LEMMA PutIsJoined ==
    ASSUME NEW m \in Message, NEW s, NEW t, Put(s, t, m)
    PROVE  Joined(s, t, <<m>>) /\ ToSet(<<m>>) = {m} /\ \A x, y : ~Precedes(<<m>>, x, y)
BY OneMember DEF Joined, Put

\* Handling a message.
LEMMA HandleDoes ==
    ASSUME Joining, NEW d \in Devices, Handle(d)
    PROVE  \E u : IsHandled(d, Head(inbox[d]), u)
<1> DEFINE m == Head(inbox[d])
<1> SUFFICES \E u : IsHandled(d, m, u)
  OBVIOUS
<1>1. ASSUME NEW name, Receives(d, name)
      PROVE  /\ m \in Message /\ m.name = name /\ m \in In(d)
             /\ \A e \in Devices : e # d => inbox'[e] = inbox[e]
             /\ Taken(inbox[d], inbox'[d], m)
  BY <1>1, ReceiveOne DEF Joining, In, Taken
<1>2. m.name \notin {"update", "part"} => \A k \in Keys : Value(m, k) = Unset
  BY DEF Value
<1> HIDE DEF m
<1>3. m.name \notin {"update", "part"} /\ data' = data => Adopts(d, m)
  BY <1>2 DEF Adopts
<1>4. CASE ParseUpdate(d)
  <2>1. /\ m \in Message /\ m.name = "update" /\ m \in In(d)
        /\ \A e \in Devices : e # d => inbox'[e] = inbox[e]
        /\ Taken(inbox[d], inbox'[d], m)
    BY <1>1, <1>4 DEF ParseUpdate
  <2>2. /\ data' = [data EXCEPT ![d] = Merge(data[d], m)]
        /\ UNCHANGED <<page, identified, ready, equipped, loading, acked, opened,
                       writes, witnesses, out>>
    BY <1>4 DEF ParseUpdate, handshakeVars, m, Joining, TypeOK
  <2>3. m.key \in Keys /\ m.value # Unset
    BY <2>1, MessageFields, Distinct DEF Unset
  <2>4. /\ \A k \in Keys : data'[d][k] = IF m.key = k THEN m.value ELSE data[d][k]
        /\ \A e \in Devices, k \in Keys : e # d => data'[e][k] = data[e][k]
    BY <2>2, <2>3 DEF Merge, Joining, TypeOK, Store
  <2>5. \A k \in Keys : Value(m, k) = IF m.key = k THEN m.value ELSE Unset
    BY <2>1 DEF Value
  <2>6. Adopts(d, m)
    BY <2>3, <2>4, <2>5 DEF Adopts
  <2>7. IsHandled(d, m, <<>>)
    BY <2>1, <2>2, <2>6, JoiningNone DEF IsHandled
  <2> QED
    BY <2>7
<1>5. CASE d = Master /\ ParseRemoteInfo
  <2>1. /\ m \in Message /\ m.name = "remoteinfo" /\ m \in In(d)
        /\ \A e \in Devices : e # d => inbox'[e] = inbox[e]
        /\ Taken(inbox[d], inbox'[d], m)
    BY <1>1, <1>5 DEF ParseRemoteInfo
  <2>2. /\ UNCHANGED <<page, identified, ready, equipped, loading, acked, opened, data,
                       writes, witnesses>>
        /\ Send(Master, Batch(m.from, m.session))
    BY <1>5 DEF ParseRemoteInfo, handshakeVars, storeVars, Batch, m
  <2>3. Batch(m.from, m.session) \in Seq(Message)
    BY <2>1, MessageFields, BatchIs, Distinct DEF Joining, TypeOK
  <2>4. /\ \A e \in Devices : e # d => out'[e] = out[e]
        /\ Joined(out[d], out'[d], Batch(m.from, m.session))
    BY <1>5, <2>2, <2>3, SendMany DEF Joining
  <2>5. IsHandled(d, m, Batch(m.from, m.session))
    BY <1>3, <1>5, <2>1, <2>2, <2>4 DEF IsHandled
  <2> QED
    BY <2>5
<1>6. CASE d = Master /\ ParsePartAck
  <2> DEFINE a == [name |-> "infoack", to |-> m.from, session |-> m.session]
  <2>1. /\ m \in Message /\ m.name = "partack" /\ m \in In(d)
        /\ \A e \in Devices : e # d => inbox'[e] = inbox[e]
        /\ Taken(inbox[d], inbox'[d], m)
    BY <1>1, <1>6 DEF ParsePartAck
  <2>2. /\ UNCHANGED <<page, identified, ready, equipped, loading, opened, data, writes,
                       witnesses>>
        /\ \/ Send(Master, <<a>>)
           \/ UNCHANGED out
    BY <1>6 DEF ParsePartAck, storeVars, m
  <2>3. a \in Message /\ IsAck(a)
    BY <2>1, MessageFields DEF Message, InfoAck, IsAck
  <2> HIDE DEF a
  <2>4. CASE Send(Master, <<a>>)
    <3>1. /\ \A e \in Devices : e # d => out'[e] = out[e]
          /\ Joined(out[d], out'[d], <<a>>)
      BY <1>6, <2>3, <2>4, SendOne, PutIsJoined DEF Joining
    <3>2. (\A x \in ToSet(<<a>>) : IsAck(x)) /\ \A x, y : ~Precedes(<<a>>, x, y)
      BY <2>3, OneMember
    <3>3. IsHandled(d, m, <<a>>)
      BY <1>3, <2>1, <2>2, <3>1, <3>2 DEF IsHandled
    <3> QED
      BY <3>3
  <2>5. CASE UNCHANGED out
    <3>1. IsHandled(d, m, <<>>)
      BY <1>3, <2>1, <2>2, <2>5, JoiningNone DEF IsHandled
    <3> QED
      BY <3>1
  <2> QED
    BY <2>2, <2>4, <2>5
<1>7. CASE d \in Remotes /\ ParsePart(d)
  <2> DEFINE a == [name |-> "partack", to |-> Master, from |-> d,
                   session |-> m.session, part |-> m.part]
  <2>1. /\ m \in Message /\ m.name = "part" /\ m \in In(d)
        /\ \A e \in Devices : e # d => inbox'[e] = inbox[e]
        /\ Taken(inbox[d], inbox'[d], m)
    BY <1>1, <1>7 DEF ParsePart
  <2>2. /\ data' = [data EXCEPT ![d] =
                     [k \in Keys |-> IF m.data[k] # Unset THEN m.data[k] ELSE data[d][k]]]
        /\ \/ UNCHANGED <<equipped, out>>
           \/ Settle(d, m.session, m.part)
        /\ UNCHANGED <<page, identified, ready, acked, opened, writes, witnesses>>
    BY <1>7 DEF ParsePart, Joining, TypeOK, m
  <2>3. /\ \A k \in Keys : data'[d][k] = IF m.data[k] # Unset THEN m.data[k] ELSE data[d][k]
        /\ \A e \in Devices, k \in Keys : e # d => data'[e][k] = data[e][k]
    BY <2>2 DEF Joining, TypeOK, Store
  <2>4. \A k \in Keys : Value(m, k) = m.data[k]
    BY <2>1 DEF Value
  <2>5. Adopts(d, m)
    BY <2>3, <2>4 DEF Adopts
  <2>6. a \in Message /\ IsAck(a)
    BY <1>7, <2>1, MessageFields DEF Message, PartAck, IsAck
  <2>7. CASE UNCHANGED <<equipped, out>>
    <3>1. IsHandled(d, m, <<>>)
      BY <2>1, <2>2, <2>5, <2>7, JoiningNone DEF IsHandled
    <3> QED
      BY <3>1
  <2>8. CASE Settle(d, m.session, m.part)
    <3>1. Send(d, <<a>>)
      BY <2>8 DEF Settle
    <3>2. \A r \in Remotes : "data" \in equipped'[r] =>
            "data" \in equipped[r] \/ (r = d /\ IsData(m))
      <4>1. equipped' = [equipped EXCEPT ![d] = equipped[d] \cup {m.part}]
        BY <1>7, <2>8 DEF Settle, Joining, TypeOK
      <4> QED
        BY <1>7, <2>1, <4>1 DEF IsData, Joining, TypeOK
    <3> HIDE DEF a
    <3>3. /\ \A e \in Devices : e # d => out'[e] = out[e]
          /\ Joined(out[d], out'[d], <<a>>)
      BY <2>6, <3>1, SendOne, PutIsJoined DEF Joining
    <3>4. (\A x \in ToSet(<<a>>) : IsAck(x)) /\ \A x, y : ~Precedes(<<a>>, x, y)
      BY <2>6, OneMember
    <3>5. IsHandled(d, m, <<a>>)
      BY <2>1, <2>2, <2>5, <3>2, <3>3, <3>4 DEF IsHandled
    <3> QED
      BY <3>5
  <2> QED
    BY <2>2, <2>7, <2>8
<1>8. CASE d \in Remotes /\ ParseInfoAck(d)
  <2>1. /\ m \in Message /\ m.name = "infoack" /\ m \in In(d)
        /\ \A e \in Devices : e # d => inbox'[e] = inbox[e]
        /\ Taken(inbox[d], inbox'[d], m)
    BY <1>1, <1>8 DEF ParseInfoAck
  <2>2. /\ UNCHANGED <<page, identified, equipped, loading, acked, opened, data, writes,
                       witnesses, out>>
        /\ ready \subseteq ready' /\ ready' \subseteq ready \cup {d}
    BY <1>8 DEF ParseInfoAck, storeVars
  <2>3. IsHandled(d, m, <<>>)
    BY <1>3, <2>1, <2>2, JoiningNone DEF IsHandled
  <2> QED
    BY <2>3
<1> QED
  BY <1>4, <1>5, <1>6, <1>7, <1>8 DEF Handle

\* A script of r is acknowledged with a.
IsSettled(r, a) ==
    /\ a \in Message /\ IsAck(a)
    /\ Put(out[r], out'[r], a)
    /\ \A e \in Devices : e # r => out'[e] = out[e]
    /\ \A q \in Remotes : "data" \in equipped'[q] => "data" \in equipped[q]
    /\ UNCHANGED <<page, identified, ready, opened, data, writes, witnesses, inbox>>

\* Acknowledging a script.
LEMMA ScriptDoes ==
    ASSUME Joining, NEW r \in Remotes, ScriptSettled(r)
    PROVE  \E a : IsSettled(r, a)
<1>1. PICK l \in loading[r] : Settle(r, l[1], l[2])
  BY DEF ScriptSettled
<1> DEFINE a == [name |-> "partack", to |-> Master, from |-> r,
                 session |-> l[1], part |-> l[2]]
<1>2. UNCHANGED <<page, identified, ready, acked, opened, data, writes, witnesses, inbox>>
  BY DEF ScriptSettled, storeVars
<1>3. l[1] \in Sessions /\ l[2] \in Scripts /\ l[2] \in Parts /\ l[2] # "data"
  BY <1>1, Distinct DEF Joining, TypeOK
<1>4. a \in Message /\ IsAck(a)
  BY <1>3 DEF Message, PartAck, IsAck
<1>5. equipped' = [equipped EXCEPT ![r] = equipped[r] \cup {l[2]}] /\ Send(r, <<a>>)
  BY <1>1 DEF Settle, Joining, TypeOK
<1>6. \A q \in Remotes : "data" \in equipped'[q] => "data" \in equipped[q]
  BY <1>3, <1>5 DEF Joining, TypeOK
<1> HIDE DEF a
<1>7. /\ \A e \in Devices : e # r => out'[e] = out[e]
      /\ Put(out[r], out'[r], a)
  BY <1>4, <1>5, SendOne, Distinct DEF Joining
<1>8. IsSettled(r, a)
  BY <1>2, <1>4, <1>6, <1>7 DEF IsSettled
<1> QED
  BY <1>8

\* A page of r is opened.
IsOpened(r) ==
    /\ page[r] = Closed /\ page'[r] = opened + 1 /\ opened' = opened + 1
    /\ opened + 1 \in Sessions /\ page'[r] # Closed
    /\ \A q \in Remotes : q # r => page'[q] = page[q] /\ equipped'[q] = equipped[q]
    /\ equipped'[r] = {}
    /\ \A k \in Keys : data'[r][k] = Unset
    /\ \A e \in Devices, k \in Keys : e # r => data'[e][k] = data[e][k]
    /\ out[r] = <<>> /\ Out(r) = {} /\ In(r) = {} /\ loading[r] = {}
    /\ r \notin identified /\ r \notin ready
    /\ out'[r] = Greeting(r, opened + 1)
    /\ Out(r)' = {Hello, Info(r, opened + 1)}
    /\ \A e \in Devices : e # r => out'[e] = out[e]
    /\ UNCHANGED <<identified, ready, loading, acked, writes, witnesses, inbox>>

\* Opening a page.
LEMMA OpenDoes ==
    ASSUME Joining, NEW r \in Remotes, OpenPage(r)
    PROVE  IsOpened(r)
<1> DEFINE s == opened + 1
<1>1. /\ page[r] = Closed /\ opened \in Nat /\ opened' = s /\ s \in Sessions /\ s # Closed
      /\ page' = [page EXCEPT ![r] = s]
      /\ equipped' = [equipped EXCEPT ![r] = {}]
      /\ data' = [data EXCEPT ![r] = Empty]
      /\ out' = [out EXCEPT ![r] = out[r] \o Greeting(r, s)]
      /\ UNCHANGED <<identified, ready, loading, acked, writes, witnesses, inbox>>
  BY Distinct DEF Joining, TypeOK, OpenPage, Send, Sessions, Closed
<1>2. /\ out[r] = <<>> /\ inbox[r] = <<>> /\ loading[r] = {}
      /\ r \notin identified /\ r \notin ready /\ r \in Devices
  BY <1>1, Distinct DEF Joining, TypeOK
<1> HIDE DEF s
<1>3. Greeting(r, s) \in Seq(Message) /\ ToSet(Greeting(r, s)) = {Hello, Info(r, s)}
  BY <1>1, GreetingMembers
<1>4. out'[r] = Greeting(r, s) /\ \A e \in Devices : e # r => out'[e] = out[e]
  <2>1. <<>> \o Greeting(r, s) = Greeting(r, s)
    BY <1>3
  <2> QED
    BY <1>1, <1>2, <2>1 DEF Joining, TypeOK
<1>5. /\ page'[r] = s /\ equipped'[r] = {}
      /\ \A q \in Remotes : q # r => page'[q] = page[q] /\ equipped'[q] = equipped[q]
  BY <1>1 DEF Joining, TypeOK
<1>6. /\ \A k \in Keys : data'[r][k] = Unset
      /\ \A e \in Devices, k \in Keys : e # r => data'[e][k] = data[e][k]
  <2>1. \A k \in Keys : Empty[k] = Unset
    BY DEF Empty
  <2>2. data'[r] = Empty /\ \A e \in Devices : e # r => data'[e] = data[e]
    BY <1>1, <1>2 DEF Joining, TypeOK
  <2> QED
    BY <2>1, <2>2
<1>7. Out(r) = {} /\ In(r) = {}
  BY <1>1, InQueues DEF Joining
<1>8. Out(r)' = {Hello, Info(r, s)}
  BY <1>3, <1>4 DEF Out
<1> QED
  BY <1>1, <1>2, <1>4, <1>5, <1>6, <1>7, <1>8 DEF IsOpened, s

\* The page of r is closed.
IsClosed(r) ==
    /\ page[r] # Closed /\ page'[r] = Closed
    /\ \A q \in Remotes : q # r => page'[q] = page[q] /\ loading'[q] = loading[q]
    /\ identified' = identified \ {r} /\ ready' = ready \ {r}
    /\ loading'[r] = {}
    /\ \A e \in Devices : e # r => out'[e] = out[e] /\ inbox'[e] = inbox[e]
    /\ out'[r] = <<>> /\ inbox'[r] = <<>>
    /\ Out(r)' = {} /\ In(r)' = {}
    /\ \A k \in Keys : witnesses'[k] = witnesses[k] \ {r}
    /\ UNCHANGED <<equipped, acked, opened, data, writes>>

\* Closing a page.
LEMMA CloseDoes ==
    ASSUME Joining, NEW r \in Remotes, ClosePage(r)
    PROVE  IsClosed(r)
<1>1. /\ page[r] # Closed /\ page' = [page EXCEPT ![r] = Closed]
      /\ identified' = identified \ {r} /\ ready' = ready \ {r}
      /\ loading' = [loading EXCEPT ![r] = {}]
      /\ out' = [out EXCEPT ![r] = <<>>] /\ inbox' = [inbox EXCEPT ![r] = <<>>]
      /\ witnesses' = [k \in Keys |-> witnesses[k] \ {r}]
      /\ UNCHANGED <<equipped, acked, opened, data, writes>>
  BY DEF ClosePage
<1>2. /\ \A e \in Devices : e # r => out'[e] = out[e] /\ inbox'[e] = inbox[e]
      /\ out'[r] = <<>> /\ inbox'[r] = <<>>
      /\ \A q \in Remotes : q # r => page'[q] = page[q] /\ loading'[q] = loading[q]
      /\ page'[r] = Closed /\ loading'[r] = {}
  BY <1>1, Distinct DEF Joining, TypeOK
<1>3. Out(r)' = {} /\ In(r)' = {}
  BY <1>2, NoMembers DEF Out, In
<1> QED
  BY <1>1, <1>2, <1>3 DEF IsClosed

\* One of the steps.
Steps ==
    \/ \E d \in Devices, k \in Keys : IsSet(d, k)
    \/ \E d \in Devices, m \in Message : IsRelayed(d, m)
    \/ \E d \in Devices : \E m, u : IsHandled(d, m, u)
    \/ \E r \in Remotes : \E a : IsSettled(r, a)
    \/ \E r \in Remotes : IsOpened(r) \/ IsClosed(r)
    \/ UNCHANGED vars

\* Every step is one of these.
LEMMA NextDoes ==
    ASSUME Joining, [Next]_vars
    PROVE  Steps
<1>1. ASSUME NEW d \in Devices, NEW k \in Keys, Set(d, k)
      PROVE  Steps
  BY <1>1, SetDoes DEF Steps
<1>2. ASSUME NEW d \in Devices, Relay(d)
      PROVE  Steps
  <2>1. IsRelayed(d, Head(out[d]))
    BY <1>2, RelayDoes
  <2>2. Head(out[d]) \in Message
    BY <2>1 DEF IsRelayed
  <2> QED
    BY <2>1, <2>2 DEF Steps
<1>3. ASSUME NEW d \in Devices, Handle(d)
      PROVE  Steps
  BY <1>3, HandleDoes DEF Steps
<1>4. ASSUME NEW r \in Remotes, OpenPage(r) \/ ScriptSettled(r) \/ ClosePage(r)
      PROVE  Steps
  BY <1>4, OpenDoes, ScriptDoes, CloseDoes DEF Steps
<1> QED
  BY <1>1, <1>2, <1>3, <1>4 DEF Next, Steps

\* The values in a state are numbers.
LEMMA Numbers ==
    ASSUME Joining
    PROVE  /\ writes \in 0..MaxWrites /\ 0..MaxWrites \subseteq Nat
           /\ \A d \in Devices, k \in Keys : data[d][k] \in 0..MaxWrites
           /\ \A d \in Devices : \A m \in Out(d) \cup In(d) : \A k \in Keys :
                Value(m, k) \in 0..MaxWrites
<1>1. \A d \in Devices : \A m \in Out(d) \cup In(d) : m \in Message
  BY InQueues DEF Joining
<1>2. \A d \in Devices, k \in Keys : data[d][k] \in 0..MaxWrites
  BY DEF Joining, TypeOK, Store
<1>3. writes \in 0..MaxWrites
  BY DEF Joining, TypeOK
<1> QED
  BY <1>1, <1>2, <1>3, ValueIsNumber, Distinct

\* Only updates and parts have values, and only the data among the parts that
\* answer a remoteinfo.
LEMMA ValuesOf ==
    ASSUME NEW k \in Keys
    PROVE  /\ \A m : m.name \notin {"update", "part"} =>
                Value(m, k) = Unset /\ ~Carries(m, k) /\ ~IsData(m) /\ ~IsUpdate(m, k)
           /\ \A m : IsUpdate(m, k) => Value(m, k) = m.value /\ m.name = "update"
           /\ \A m \in Message : IsUpdate(m, k) => m.value \in 1..MaxWrites /\ Carries(m, k)
           /\ \A m : m.name = "update" /\ ~IsUpdate(m, k) => Value(m, k) = Unset /\ ~Carries(m, k)
           /\ \A m : IsData(m) => Carries(m, k) /\ m.name = "part"
<1>1. \A m \in Message : IsUpdate(m, k) => m.value \in 1..MaxWrites /\ m.value # Unset
  BY MessageFields, Distinct DEF IsUpdate, Unset
<1> QED
  BY <1>1 DEF Value, Carries, IsData, IsUpdate

\* The values of the parts that answer a remoteinfo.
LEMMA BatchValues ==
    ASSUME Joining, NEW m \in Message, m.name = "remoteinfo"
    PROVE  LET u == Batch(m.from, m.session) IN
           /\ \A x \in ToSet(u) :
                /\ x \in Message /\ x.name = "part" /\ x.to = m.from /\ x.session = m.session
                /\ x.part \in Parts
                /\ \A k \in Keys : /\ Value(x, k) = IF IsData(x) THEN data[Master][k] ELSE Unset
                                   /\ Carries(x, k) => IsData(x)
                                   /\ ~IsUpdate(x, k)
           /\ \A x, y : Precedes(u, x, y) =>
                x \in ToSet(u) /\ y \in ToSet(u) /\ x.part # y.part /\ ~(IsData(x) /\ IsData(y))
           /\ \E x \in ToSet(u) : IsData(x)
<1> DEFINE r == m.from
           s == m.session
           u == Batch(r, s)
<1>1. r \in Remotes /\ s \in Sessions /\ data[Master] \in Store
  BY MessageFields, Distinct DEF Joining, TypeOK
<1> HIDE DEF r, s
<1>2. /\ u \in Seq(Message)
      /\ \A x \in ToSet(u) : x \in Message /\ x = PartFor(r, s, x.part)
      /\ \A x, y : Precedes(u, x, y) => x.part # y.part
      /\ PartFor(r, s, "data") \in ToSet(u)
  BY <1>1, BatchIs
<1>3. \A x, y : Precedes(u, x, y) => x \in ToSet(u) /\ y \in ToSet(u)
  BY <1>2, Members
<1> HIDE DEF u
<1>4. ASSUME NEW q
      PROVE  /\ PartFor(r, s, q).name = "part" /\ PartFor(r, s, q).to = r
             /\ PartFor(r, s, q).session = s /\ PartFor(r, s, q).part = q
             /\ \A k \in Keys : PartFor(r, s, q).data[k]
                                  = IF q = "data" THEN data[Master][k] ELSE Unset
  BY DEF PartFor, Empty
<1>5. ASSUME NEW x \in ToSet(u)
      PROVE  /\ x \in Message /\ x.name = "part" /\ x.to = r /\ x.session = s
             /\ x.part \in Parts
             /\ \A k \in Keys : x.data[k] = IF x.part = "data" THEN data[Master][k] ELSE Unset
  <2>1. x \in Message /\ x = PartFor(r, s, x.part)
    BY <1>2
  <2>2. x.name = "part" /\ x.to = r /\ x.session = s
    BY <1>4, <2>1
  <2> QED
    BY <1>4, <2>1, <2>2, MessageFields
<1>6. ASSUME NEW x \in ToSet(u), NEW k \in Keys
      PROVE  /\ Value(x, k) = IF IsData(x) THEN data[Master][k] ELSE Unset
             /\ Carries(x, k) => IsData(x)
             /\ ~IsUpdate(x, k)
  BY <1>5 DEF Value, Carries, IsData, IsUpdate
<1>7. IsData(PartFor(r, s, "data"))
  BY <1>4 DEF IsData
<1> QED
  BY <1>2, <1>3, <1>5, <1>6, <1>7 DEF u, r, s, IsData

\* No value is newer than the last write: a step.
LEMMA StepBounded ==
    ASSUME Joining, Joining', Steps, ValuesBounded
    PROVE  ValuesBounded'
<1> USE Numbers
<1>1. ASSUME NEW d \in Devices, NEW k \in Keys, IsSet(d, k)
      PROVE  ValuesBounded'
  <2>1. writes' = writes + 1 /\ writes \in Nat
    BY <1>1 DEF IsSet
  <2>2. \A n \in 0..MaxWrites : n <= writes => n <= writes'
    BY <2>1
  <2>3. ASSUME NEW e \in Devices, NEW j \in Keys
        PROVE  data'[e][j] <= writes'
    <3>1. CASE e = d /\ j = k
      BY <1>1, <2>1, <3>1 DEF IsSet
    <3>2. CASE ~(e = d /\ j = k)
      BY <1>1, <2>2, <3>2 DEF IsSet, ValuesBounded
    <3> QED
      BY <3>1, <3>2
  <2>4. ASSUME NEW e \in Devices, NEW j \in Keys, NEW m \in Out(e)' \cup In(e)'
        PROVE  Value(m, j) <= writes'
    <3>1. CASE m \in Out(e) \cup In(e)
      BY <2>2, <3>1 DEF ValuesBounded
    <3>2. CASE m = NewUpdate(k)
      BY <1>1, <2>1, <3>2, Distinct DEF IsSet
    <3> QED
      BY <1>1, <2>4, <3>1, <3>2 DEF IsSet, In, Out, Put
  <2> QED
    BY <2>3, <2>4 DEF ValuesBounded, Value
<1>2. ASSUME NEW d \in Devices, NEW m \in Message, IsRelayed(d, m)
      PROVE  ValuesBounded'
  <2>1. UNCHANGED <<data, writes>> /\ m \in Out(d)
    BY <1>2 DEF IsRelayed
  <2>2. \A e \in Devices : Out(e)' \subseteq Out(e) /\ In(e)' \subseteq In(e) \cup {m}
    BY <1>2 DEF IsRelayed, Taken, Put, In, Out
  <2> QED
    BY <2>1, <2>2 DEF ValuesBounded, Value
<1>3. ASSUME NEW d \in Devices, NEW m, NEW u, IsHandled(d, m, u)
      PROVE  ValuesBounded'
  <2>1. /\ UNCHANGED writes /\ m \in In(d) /\ Adopts(d, m)
        /\ \A e \in Devices : e # d => inbox'[e] = inbox[e] /\ out'[e] = out[e]
        /\ ToSet(out'[d]) = ToSet(out[d]) \cup ToSet(u)
        /\ ToSet(inbox'[d]) \subseteq ToSet(inbox[d])
    BY <1>3 DEF IsHandled, Taken, Joined
  <2>2. \A e \in Devices : Out(e)' \subseteq Out(e) \cup ToSet(u) /\ In(e)' \subseteq In(e)
    BY <2>1 DEF In, Out
  <2>3. ASSUME NEW x \in ToSet(u), NEW k \in Keys
        PROVE  Value(x, k) <= writes
    <3>1. CASE IsAck(x)
      BY <3>1, ValuesOf, Distinct DEF IsAck
    <3>2. CASE m \in Message /\ m.name = "remoteinfo" /\ u = Batch(m.from, m.session)
      <4>1. Value(x, k) = data[Master][k] \/ Value(x, k) = Unset
        BY <3>2, BatchValues
      <4> QED
        BY <4>1, Distinct DEF ValuesBounded
    <3> QED
      BY <1>3, <3>1, <3>2 DEF IsHandled
  <2>4. \A e \in Devices, k \in Keys : data'[e][k] <= writes
    BY <2>1 DEF ValuesBounded, Adopts
  <2> QED
    BY <2>1, <2>2, <2>3, <2>4 DEF ValuesBounded, Value
<1>4. ASSUME NEW r \in Remotes, NEW a, IsSettled(r, a)
      PROVE  ValuesBounded'
  <2>1. \A k \in Keys : Value(a, k) = 0
    BY <1>4, ValuesOf, Distinct DEF IsSettled, IsAck
  <2>2. \A e \in Devices : Out(e)' \subseteq Out(e) \cup {a} /\ In(e)' = In(e)
    BY <1>4 DEF IsSettled, Put, In, Out
  <2> QED
    BY <1>4, <2>1, <2>2 DEF ValuesBounded, Value, IsSettled
<1>5. ASSUME NEW r \in Remotes, IsOpened(r)
      PROVE  ValuesBounded'
  <2>1. UNCHANGED <<writes, inbox>> /\ opened + 1 \in Sessions
    BY <1>5 DEF IsOpened
  <2>2. \A e \in Devices : Out(e)' \subseteq Out(e) \cup {Hello, Info(r, opened + 1)}
                           /\ In(e)' = In(e)
    <3>1. \A e \in Devices : In(e)' = In(e)
      BY <2>1 DEF In
    <3>2. \A e \in Devices : e # r => Out(e)' = Out(e)
      BY <1>5 DEF IsOpened, Out
    <3> QED
      BY <1>5, <3>1, <3>2 DEF IsOpened
  <2>3. \A k \in Keys : Value(Hello, k) = 0 /\ Value(Info(r, opened + 1), k) = 0
    BY <2>1, GreetingIs, ValuesOf, Distinct
  <2>4. \A e \in Devices, k \in Keys : data'[e][k] <= writes
    BY <1>5, Distinct DEF IsOpened, ValuesBounded
  <2> QED
    BY <2>1, <2>2, <2>3, <2>4 DEF ValuesBounded, Value
<1>6. ASSUME NEW r \in Remotes, IsClosed(r)
      PROVE  ValuesBounded'
  <2>1. \A e \in Devices : Out(e)' \subseteq Out(e) /\ In(e)' \subseteq In(e)
    BY <1>6 DEF IsClosed, In, Out
  <2> QED
    BY <1>6, <2>1 DEF ValuesBounded, Value, IsClosed
<1>7. CASE UNCHANGED vars
  BY <1>7 DEF vars, storeVars, channels, ValuesBounded, Value, In, Out
<1> QED
  BY <1>1, <1>2, <1>3, <1>4, <1>5, <1>6, <1>7 DEF Steps

-----------------------------------------------------------------------------
(* An entry that the master sets.                                          *)

Route(r) == In(r) \cup Out(Master)

\* A step that puts nothing with a value of k on the way to r.
LEMMA RisingKept ==
    ASSUME Joining, Joining', NEW k \in Keys, NEW r \in Remotes, Rising(k, r),
           data'[r][k] = data[r][k], data'[Master][k] = data[Master][k],
           page'[r] # Closed => page[r] # Closed,
           \A m \in Route(r)' : m \in Route(r) \/ (Value(m, k) = 0 /\ ~Carries(m, k)),
           \A x, y \in Route(r)' : Before(r, x, y)' /\ Carries(y, k) =>
             (x \in Route(r) /\ y \in Route(r) /\ Before(r, x, y)) \/ Value(x, k) = 0
    PROVE  Rising(k, r)'
<1>1. /\ data[r][k] \in Nat /\ data[Master][k] \in Nat
      /\ \A m \in Route(r)' : Value(m, k) \in Nat
  <2>1. \A e \in Devices : \A m \in Out(e)' \cup In(e)' : m \in Message
    BY InQueuesAfter DEF Joining
  <2>2. \A m \in Route(r)' : m \in Message
    BY <2>1, Distinct DEF Route
  <2> QED
    BY <2>2, Numbers, ValueIsNumber, Distinct
<1>2. \A m \in Route(r)' : Value(m, k) <= data[Master][k]
  BY <1>1 DEF Rising, Route
<1>3. page'[r] # Closed => \A m \in Route(r)' : Carries(m, k) => data[r][k] <= Value(m, k)
  BY DEF Rising, Route
<1>4. ASSUME NEW x \in Route(r)', NEW y \in Route(r)', Before(r, x, y)', Carries(y, k)
      PROVE  Value(x, k) <= Value(y, k)
  <2>1. CASE x \in Route(r) /\ y \in Route(r) /\ Before(r, x, y)
    BY <1>4, <2>1 DEF Rising, Route
  <2>2. CASE Value(x, k) = 0
    BY <1>1, <2>2
  <2> QED
    BY <1>4, <2>1, <2>2
<1>5. /\ data'[r][k] <= data'[Master][k]
      /\ \A m \in In(r)' \cup Out(Master)' : Value(m, k) <= data'[Master][k]
      /\ page'[r] # Closed =>
           \A m \in In(r)' \cup Out(Master)' : Carries(m, k) => data'[r][k] <= Value(m, k)
      /\ \A x, y \in In(r)' \cup Out(Master)' :
           Before(r, x, y)' /\ Carries(y, k) => Value(x, k) <= Value(y, k)
  BY <1>2, <1>3, <1>4 DEF Rising, Route
<1> QED
  BY <1>5 DEF Rising, Value, Carries, IsData

\* The conditions of an entry of the master, taken together.
LEMMA MastersEntryPrimed ==
    ASSUME NEW k \in Keys,
           \A r \in Remotes : Rising(k, r)',
           \A r \in Remotes : Arriving(k, r)',
           \A m \in Out(Master)' : IsData(m) =>
             Value(m, k) = data'[Master][k] \/ Untold(k)'
    PROVE  MastersEntry(k)'
BY DEF MastersEntry, Value, IsData

\* An entry is set.
LEMMA MastersSet ==
    ASSUME Joining, Joining', ValuesBounded, NEW k \in Keys, Writer[k] = Master, MastersEntry(k),
           NEW d \in Devices, NEW j \in Keys, IsSet(d, j)
    PROVE  MastersEntry(k)'
<1> DEFINE n == NewUpdate(j)
<1>1. /\ d = Writer[j] /\ writes' = writes + 1 /\ IsUpdate(n, j)
      /\ n.value = writes + 1 /\ n.name = "update"
      /\ Value(n, k) = (IF k = j THEN writes + 1 ELSE 0)
      /\ k # j => ~Carries(n, k)
      /\ data'[d][j] = writes + 1
      /\ \A e \in Devices, i \in Keys : e # d \/ i # j => data'[e][i] = data[e][i]
      /\ Put(out[d], out'[d], n)
      /\ \A e \in Devices : e # d => out'[e] = out[e]
      /\ UNCHANGED <<page, equipped, inbox>>
  BY Distinct DEF IsSet
<1> HIDE DEF n
<1>2. /\ writes \in Nat
      /\ \A e \in Devices : data[e][k] \in Nat /\ data[e][k] <= writes
      /\ \A e \in Devices : \A m \in In(e) \cup Out(e) : Value(m, k) \in Nat /\ Value(m, k) <= writes
  BY Numbers DEF ValuesBounded
<1>3. ASSUME NEW r \in Remotes
      PROVE  /\ data'[r][k] = data[r][k] /\ In(r)' = In(r) /\ inbox'[r] = inbox[r]
  BY <1>1, Distinct DEF In
<1>4. CASE d # Master
  <2>1. out'[Master] = out[Master] /\ Out(Master)' = Out(Master) /\ j # k
    BY <1>1, <1>4, Distinct DEF Out
  <2>2. data'[Master][k] = data[Master][k]
    BY <1>1, <1>4, Distinct
  <2>3. ASSUME NEW r \in Remotes
        PROVE  Rising(k, r)' /\ Arriving(k, r)'
    <3>1. \A x, y : Before(r, x, y)' <=> Before(r, x, y)
      BY <1>3, <2>1 DEF Before
    <3>2. Rising(k, r) /\ Arriving(k, r) /\ Route(r)' = Route(r)
      BY <1>3, <2>1 DEF MastersEntry, Route
    <3>3. Rising(k, r)'
      BY <1>1, <1>3, <2>2, <3>1, <3>2, RisingKept
    <3>4. Arriving(k, r)'
      BY <1>1, <1>3, <2>1, <2>2, <3>2 DEF Arriving, Untold, Value, IsData, IsUpdate
    <3> QED
      BY <3>3, <3>4
  <2>4. Untold(k)' <=> Untold(k)
    BY <2>1, <2>2 DEF Untold, IsUpdate
  <2> QED
    BY <2>1, <2>2, <2>3, <2>4, MastersEntryPrimed DEF MastersEntry
<1>5. CASE d = Master
  <2>1. /\ Out(Master)' = Out(Master) \cup {n}
        /\ \A x, y : Precedes(out'[Master], x, y) <=>
             Precedes(out[Master], x, y) \/ (x \in Out(Master) /\ y = n)
    BY <1>1, <1>5 DEF Out, Put
  <2>2. /\ data[Master][k] <= data'[Master][k]
        /\ data'[Master][k] = IF j = k THEN writes + 1 ELSE data[Master][k]
        /\ data'[Master][k] \in Nat
    BY <1>1, <1>2, <1>5, Distinct
  <2>3. j = k => Untold(k)'
    BY <1>1, <2>1, <2>2 DEF Untold, IsUpdate
  <2>4. j # k => (Untold(k) => Untold(k)')
    BY <1>1, <2>1, <2>2 DEF Untold, IsUpdate
  <2>5. ASSUME NEW r \in Remotes
        PROVE  Rising(k, r)'
    <3>1. Rising(k, r) /\ \A x \in Route(r) : Value(x, k) \in Nat /\ Value(x, k) <= writes
      BY <1>2, Distinct DEF MastersEntry, Route
    <3>2. data[r][k] \in Nat /\ data[r][k] <= writes /\ data[Master][k] \in Nat
      BY <1>2, Distinct
    <3>3. Route(r)' = Route(r) \cup {n}
      BY <1>3, <2>1 DEF Route
    <3>4. ASSUME NEW x \in Route(r)', NEW y \in Route(r)', Before(r, x, y)', Carries(y, k)
          PROVE  Value(x, k) <= Value(y, k)
      <4>1. \/ Before(r, x, y) /\ x \in Route(r) /\ y \in Route(r)
            \/ x \in Route(r) /\ y = n
        <5>1. \/ Precedes(inbox[r], x, y) \/ Precedes(out'[Master], x, y)
              \/ x \in In(r) /\ y \in Out(Master)'
          BY <1>3, <3>4 DEF Before
        <5>2. \A e \in Devices : \A p, q :
                /\ Precedes(out[e], p, q) => p \in Out(e) /\ q \in Out(e)
                /\ Precedes(inbox[e], p, q) => p \in In(e) /\ q \in In(e)
          BY InQueues DEF Joining
        <5>3. CASE Precedes(inbox[r], x, y)
          BY <5>2, <5>3, Distinct DEF Before, Route
        <5>4. CASE Precedes(out'[Master], x, y)
          <6>1. Precedes(out[Master], x, y) \/ (x \in Out(Master) /\ y = n)
            BY <2>1, <5>4
          <6>2. Precedes(out[Master], x, y) => x \in Out(Master) /\ y \in Out(Master)
            BY <5>2, Distinct
          <6> QED
            BY <6>1, <6>2 DEF Before, Route
        <5>5. CASE x \in In(r) /\ y \in Out(Master)'
          BY <2>1, <5>5 DEF Before, Route
        <5> QED
          BY <5>1, <5>3, <5>4, <5>5
      <4>2. CASE Before(r, x, y) /\ x \in Route(r) /\ y \in Route(r)
        BY <3>1, <3>4, <4>2 DEF Rising, Route
      <4>3. CASE x \in Route(r) /\ y = n
        BY <1>1, <1>2, <3>1, <3>4, <4>3
      <4> QED
        BY <4>1, <4>2, <4>3
    <3>5. ASSUME NEW x \in Route(r)'
          PROVE  Value(x, k) <= data'[Master][k]
      <4>1. CASE x \in Route(r)
        <5>1. Value(x, k) <= data[Master][k]
          BY <3>1, <4>1 DEF Rising, Route
        <5> QED
          BY <2>2, <3>1, <3>2, <4>1, <5>1
      <4>2. CASE x = n
        BY <1>1, <1>2, <2>2, <4>2
      <4> QED
        BY <3>3, <4>1, <4>2
    <3>6. page[r] # Closed => \A x \in Route(r)' : Carries(x, k) => data[r][k] <= Value(x, k)
      <4>1. Carries(n, k) => data[r][k] <= Value(n, k)
        BY <1>1, <1>2, <3>2
      <4> QED
        BY <3>1, <3>3, <4>1 DEF Rising, Route
    <3>7. data'[r][k] <= data'[Master][k]
      BY <1>3, <2>2, <3>1, <3>2 DEF Rising
    <3>8. page' = page /\ data'[r][k] = data[r][k]
      BY <1>1, <1>3
    <3> QED
      BY <3>4, <3>5, <3>6, <3>7, <3>8 DEF Rising, Route, Value, Carries, IsData
  <2>6. ASSUME NEW r \in Remotes
        PROVE  Arriving(k, r)'
    <3>1. CASE j = k
      BY <2>3, <3>1 DEF Arriving
    <3>2. CASE j # k
      <4>1. Arriving(k, r)
        BY DEF MastersEntry
      <4> QED
        BY <1>1, <1>3, <2>2, <2>4, <3>2, <4>1 DEF Arriving, Value, IsData
    <3> QED
      BY <3>1, <3>2
  <2>7. ASSUME NEW m \in Out(Master)', IsData(m)
        PROVE  Value(m, k) = data'[Master][k] \/ Untold(k)'
    <3>1. m \in Out(Master)
      BY <1>1, <2>1, <2>7 DEF IsData
    <3> QED
      BY <2>2, <2>3, <2>4, <2>7, <3>1 DEF MastersEntry
  <2> QED
    BY <2>5, <2>6, <2>7, MastersEntryPrimed
<1> QED
  BY <1>4, <1>5

\* A message of the master is relayed.
LEMMA MastersRelayMaster ==
    ASSUME Joining, Joining', ValuesBounded, NEW k \in Keys, Writer[k] = Master, MastersEntry(k),
           NEW m \in Message, IsRelayed(Master, m)
    PROVE  MastersEntry(k)'
<1>1. /\ m \in Out(Master) /\ Out(Master) = Out(Master)' \cup {m}
      /\ \A y \in Out(Master)' : Precedes(out[Master], m, y)
      /\ \A x, y : Precedes(out'[Master], x, y) => Precedes(out[Master], x, y)
      /\ UNCHANGED <<page, equipped, data>>
  BY DEF IsRelayed, Taken, Out
<1>2. ASSUME NEW r \in Remotes
      PROVE  \/ In(r)' = In(r) /\ inbox'[r] = inbox[r] /\ ~Reaches(Master, m, r)
             \/ /\ In(r)' = In(r) \cup {m} /\ Reaches(Master, m, r)
                /\ \A x, y : Precedes(inbox'[r], x, y) <=>
                     Precedes(inbox[r], x, y) \/ (x \in In(r) /\ y = m)
  BY Distinct DEF IsRelayed, Put, In
<1>3. \A e \in Devices : \A p, q :
        /\ Precedes(out[e], p, q) => p \in Out(e) /\ q \in Out(e)
        /\ Precedes(inbox[e], p, q) => p \in In(e) /\ q \in In(e)
  BY InQueues DEF Joining
<1>4. ASSUME NEW r \in Remotes
      PROVE  Rising(k, r)'
  <2>1. Route(r)' \subseteq Route(r)
    BY <1>1, <1>2 DEF Route
  <2>2. ASSUME NEW x, NEW y, Before(r, x, y)'
        PROVE  Before(r, x, y)
    <3>1. CASE Precedes(inbox'[r], x, y)
      BY <1>1, <1>2, <3>1 DEF Before
    <3>2. CASE Precedes(out'[Master], x, y)
      BY <1>1, <3>2 DEF Before
    <3>3. CASE x \in In(r)' /\ y \in Out(Master)'
      BY <1>1, <1>2, <3>3 DEF Before
    <3> QED
      BY <2>2, <3>1, <3>2, <3>3 DEF Before
  <2>3. Rising(k, r)
    BY DEF MastersEntry
  <2> QED
    BY <1>1, <2>1, <2>2, <2>3, RisingKept
<1>5. IsUpdate(m, k) => \A r \in Remotes : page[r] # Closed => m \in In(r)'
  <2>1. ASSUME NEW r \in Remotes, page[r] # Closed, IsUpdate(m, k)
        PROVE  Reaches(Master, m, r)
    BY <1>1, <2>1, RelayedTo, Distinct DEF IsUpdate
  <2> QED
    BY <1>2, <2>1
<1>6. Untold(k) => Untold(k)' \/ (IsUpdate(m, k) /\ m.value = data[Master][k])
  BY <1>1 DEF Untold, IsUpdate
<1>7. ASSUME NEW r \in Remotes
      PROVE  Arriving(k, r)'
  <2>1. SUFFICES ASSUME page[r] # Closed,
                        "data" \in equipped[r] \/ \E x \in In(r)' : IsData(x),
                        ~Untold(k)'
                 PROVE  \/ data[r][k] = data[Master][k]
                        \/ \E x \in In(r)' : Value(x, k) = data[Master][k]
    BY <1>1 DEF Arriving, Value, IsData
  <2>2. CASE Untold(k)
    <3>1. IsUpdate(m, k) /\ m.value = data[Master][k]
      BY <1>6, <2>1, <2>2
    <3>2. m \in In(r)' /\ Value(m, k) = data[Master][k]
      BY <1>5, <2>1, <3>1, ValuesOf
    <3> QED
      BY <3>2
  <2>3. CASE ~Untold(k) /\ ("data" \in equipped[r] \/ \E x \in In(r) : IsData(x))
    <3>1. \/ data[r][k] = data[Master][k]
          \/ \E x \in In(r) : Value(x, k) = data[Master][k]
      BY <2>1, <2>3 DEF MastersEntry, Arriving
    <3> QED
      BY <1>2, <3>1
  <2>4. CASE ~Untold(k) /\ m \in In(r)' /\ IsData(m)
    <3>1. Value(m, k) = data[Master][k]
      BY <1>1, <2>4 DEF MastersEntry
    <3> QED
      BY <2>4, <3>1
  <2> QED
    BY <1>2, <2>1, <2>2, <2>3, <2>4
<1>8. ASSUME NEW x \in Out(Master)', IsData(x)
      PROVE  Value(x, k) = data'[Master][k] \/ Untold(k)'
  <2>1. x \in Out(Master) /\ Precedes(out[Master], m, x)
    BY <1>1
  <2>2. Value(x, k) = data[Master][k] \/ Untold(k)
    BY <1>8, <2>1 DEF MastersEntry
  <2>3. ASSUME IsUpdate(m, k), m.value = data[Master][k]
        PROVE  Value(x, k) = data[Master][k]
    <3>1. Value(m, k) = data[Master][k] /\ Carries(x, k)
      BY <1>8, <2>3, ValuesOf
    <3>2. x \in Message /\ x.name = "part"
      BY <1>8, <2>1, InQueues, Distinct DEF Joining, IsData
    <3>3. PICK r \in Remotes : TRUE
      BY <3>2, MessageFields
    <3>4. Rising(k, r) /\ Before(r, m, x)
      BY <2>1 DEF MastersEntry, Before
    <3>5. data[Master][k] <= Value(x, k) /\ Value(x, k) <= data[Master][k]
      BY <1>1, <2>1, <3>1, <3>4 DEF Rising
    <3>6. data[Master][k] \in Nat /\ Value(x, k) \in Nat
      BY <2>1, Numbers, Distinct
    <3> QED
      BY <3>5, <3>6
  <2> QED
    BY <1>1, <1>6, <2>2, <2>3
<1> QED
  BY <1>4, <1>7, <1>8, MastersEntryPrimed

\* What remotes send has no value of an entry of the master.
LEMMA NotTheMasters ==
    ASSUME Joining, NEW k \in Keys, Writer[k] = Master
    PROVE  /\ \A r \in Remotes : \A m \in Out(r) :
                Value(m, k) = 0 /\ ~Carries(m, k) /\ ~IsData(m) /\ ~IsUpdate(m, k)
           /\ \A m \in In(Master) :
                Value(m, k) = 0 /\ ~Carries(m, k) /\ ~IsData(m) /\ ~IsUpdate(m, k)
<1>1. ASSUME NEW m, m.name \in {"identification", "remoteinfo", "partack", "update"},
             m.name = "update" => ~IsUpdate(m, k)
      PROVE  Value(m, k) = 0 /\ ~Carries(m, k) /\ ~IsData(m) /\ ~IsUpdate(m, k)
  BY <1>1, ValuesOf, Distinct DEF IsData
<1>2. \A r \in Remotes : \A m \in Out(r) :
        /\ m.name \in {"identification", "remoteinfo", "partack", "update"}
        /\ m.name = "update" => Writer[m.key] # Master
  BY Distinct DEF Joining, SendsOnly
<1>3. \A m \in In(Master) : /\ m.name \in {"identification", "remoteinfo", "partack", "update"}
                            /\ m.name = "update" => Writer[m.key] # Master
  BY DEF Joining, GetsOnly
<1> QED
  BY <1>1, <1>2, <1>3 DEF IsUpdate

\* A message of a remote is relayed.
LEMMA MastersRelayRemote ==
    ASSUME Joining, Joining', NEW k \in Keys, Writer[k] = Master, MastersEntry(k),
           NEW d \in Remotes, NEW m \in Message, IsRelayed(d, m)
    PROVE  MastersEntry(k)'
<1>1. /\ m \in Out(d) /\ Out(Master)' = Out(Master) /\ out'[Master] = out[Master]
      /\ UNCHANGED <<page, equipped, data>>
  BY Distinct DEF IsRelayed, Out
<1>2. Value(m, k) = 0 /\ ~Carries(m, k) /\ ~IsData(m) /\ ~IsUpdate(m, k)
  BY <1>1, NotTheMasters
<1>3. ASSUME NEW r \in Remotes
      PROVE  \/ In(r)' = In(r) /\ inbox'[r] = inbox[r]
             \/ /\ In(r)' = In(r) \cup {m}
                /\ \A x, y : Precedes(inbox'[r], x, y) <=>
                     Precedes(inbox[r], x, y) \/ (x \in In(r) /\ y = m)
  BY Distinct DEF IsRelayed, Put, In
<1>4. \A e \in Devices : \A p, q :
        /\ Precedes(out[e], p, q) => p \in Out(e) /\ q \in Out(e)
        /\ Precedes(inbox[e], p, q) => p \in In(e) /\ q \in In(e)
  BY InQueues DEF Joining
<1>5. Untold(k)' <=> Untold(k)
  BY <1>1 DEF Untold, IsUpdate
<1>6. ASSUME NEW r \in Remotes
      PROVE  Rising(k, r)'
  <2>1. \A x \in Route(r)' : x \in Route(r) \/ (Value(x, k) = 0 /\ ~Carries(x, k))
    BY <1>1, <1>2, <1>3 DEF Route
  <2>2. ASSUME NEW x, NEW y, Before(r, x, y)', Carries(y, k)
        PROVE  (x \in Route(r) /\ y \in Route(r) /\ Before(r, x, y)) \/ Value(x, k) = 0
    <3>1. CASE Precedes(inbox'[r], x, y)
      <4>1. Precedes(inbox[r], x, y)
        BY <1>2, <1>3, <2>2, <3>1
      <4>2. x \in In(r) /\ y \in In(r)
        BY <1>4, <4>1, Distinct
      <4> QED
        BY <4>1, <4>2 DEF Before, Route
    <3>2. CASE Precedes(out[Master], x, y)
      <4>1. x \in Out(Master) /\ y \in Out(Master)
        BY <1>4, <3>2, Distinct
      <4> QED
        BY <3>2, <4>1 DEF Before, Route
    <3>3. CASE x \in In(r)' /\ y \in Out(Master)
      BY <1>2, <1>3, <3>3 DEF Before, Route
    <3> QED
      BY <1>1, <2>2, <3>1, <3>2, <3>3 DEF Before
  <2>3. Rising(k, r)
    BY DEF MastersEntry
  <2> QED
    BY <1>1, <2>1, <2>2, <2>3, RisingKept
<1>7. ASSUME NEW r \in Remotes
      PROVE  Arriving(k, r)'
  <2>1. Arriving(k, r)
    BY DEF MastersEntry
  <2>2. In(r) \subseteq In(r)' /\ \A x \in In(r)' : IsData(x) => x \in In(r)
    BY <1>2, <1>3
  <2> QED
    BY <1>1, <1>5, <2>1, <2>2 DEF Arriving, Value, IsData
<1> QED
  BY <1>1, <1>5, <1>6, <1>7, MastersEntryPrimed DEF MastersEntry

\* The master handles a message.
LEMMA MastersHandleMaster ==
    ASSUME Joining, Joining', NEW k \in Keys, Writer[k] = Master, MastersEntry(k),
           NEW m, NEW u, IsHandled(Master, m, u)
    PROVE  MastersEntry(k)'
<1>1. /\ m \in Message /\ m \in In(Master) /\ Adopts(Master, m)
      /\ \A r \in Remotes : In(r)' = In(r) /\ inbox'[r] = inbox[r]
      /\ Out(Master)' = Out(Master) \cup ToSet(u)
      /\ \A x, y : Precedes(out'[Master], x, y) <=>
           \/ Precedes(out[Master], x, y) \/ Precedes(u, x, y)
           \/ x \in Out(Master) /\ y \in ToSet(u)
      /\ UNCHANGED page
      /\ \A r \in Remotes : "data" \in equipped'[r] => "data" \in equipped[r]
  BY Distinct DEF IsHandled, Joined, In, Out
<1>2. \A e \in Devices : data'[e][k] = data[e][k]
  <2>1. Value(m, k) = Unset
    BY <1>1, NotTheMasters, Distinct
  <2> QED
    BY <1>1, <2>1 DEF Adopts
<1>3. /\ \A x \in ToSet(u) : /\ Value(x, k) = IF IsData(x) THEN data[Master][k] ELSE 0
                             /\ Carries(x, k) => IsData(x)
                             /\ ~IsUpdate(x, k)
      /\ \A x, y : Precedes(u, x, y) => x \in ToSet(u) /\ y \in ToSet(u) /\ ~(IsData(x) /\ IsData(y))
  <2>1. CASE (\A x \in ToSet(u) : IsAck(x)) /\ \A x, y : ~Precedes(u, x, y)
    <3>1. ASSUME NEW x \in ToSet(u)
          PROVE  Value(x, k) = 0 /\ ~Carries(x, k) /\ ~IsData(x) /\ ~IsUpdate(x, k)
      BY <2>1, ValuesOf, Distinct DEF IsAck
    <3> QED
      BY <2>1, <3>1
  <2>2. CASE m.name = "remoteinfo" /\ u = Batch(m.from, m.session)
    <3>1. ASSUME NEW x \in ToSet(u)
          PROVE  /\ Value(x, k) = IF IsData(x) THEN data[Master][k] ELSE Unset
                 /\ Carries(x, k) => IsData(x)
                 /\ ~IsUpdate(x, k)
      BY <1>1, <2>2, BatchValues
    <3>2. \A x, y : Precedes(u, x, y) =>
            x \in ToSet(u) /\ y \in ToSet(u) /\ ~(IsData(x) /\ IsData(y))
      BY <1>1, <2>2, BatchValues
    <3> QED
      BY <3>1, <3>2, Distinct
  <2> QED
    BY <2>1, <2>2 DEF IsHandled
<1>4. \A e \in Devices : \A p, q :
        /\ Precedes(out[e], p, q) => p \in Out(e) /\ q \in Out(e)
        /\ Precedes(inbox[e], p, q) => p \in In(e) /\ q \in In(e)
  BY InQueues DEF Joining
<1>5. /\ data[Master][k] \in Nat /\ \A r \in Remotes : data[r][k] \in Nat
      /\ \A r \in Remotes : \A x \in Route(r) : Value(x, k) \in Nat
  BY Numbers, Distinct DEF Route
<1>6. Untold(k)' <=> Untold(k)
  BY <1>1, <1>2, <1>3, Distinct DEF Untold, IsUpdate
<1>7. ASSUME NEW r \in Remotes
      PROVE  Rising(k, r)'
  <2>1. Rising(k, r) /\ Route(r)' = Route(r) \cup ToSet(u)
    BY <1>1 DEF MastersEntry, Route
  <2>2. ASSUME NEW x \in Route(r)'
        PROVE  /\ Value(x, k) \in Nat /\ Value(x, k) <= data[Master][k]
               /\ page[r] # Closed /\ Carries(x, k) => data[r][k] <= Value(x, k)
    <3>1. CASE x \in Route(r)
      BY <1>5, <2>1, <3>1 DEF Rising, Route
    <3>2. CASE x \in ToSet(u)
      BY <1>3, <1>5, <2>1, <3>2 DEF Rising
    <3> QED
      BY <2>1, <3>1, <3>2
  <2>3. ASSUME NEW x \in Route(r)', NEW y \in Route(r)', Before(r, x, y)', Carries(y, k)
        PROVE  Value(x, k) <= Value(y, k)
    <3>1. CASE y \in ToSet(u) /\ IsData(y)
      BY <1>3, <2>2, <3>1
    <3>2. CASE Precedes(inbox[r], x, y)
      <4>1. x \in In(r) /\ y \in In(r)
        BY <1>4, <3>2, Distinct
      <4> QED
        BY <2>1, <2>3, <3>2, <4>1 DEF Rising, Before
    <3>3. CASE Precedes(out[Master], x, y)
      <4>1. x \in Out(Master) /\ y \in Out(Master)
        BY <1>4, <3>3, Distinct
      <4> QED
        BY <2>1, <2>3, <3>3, <4>1 DEF Rising, Before
    <3>4. CASE x \in In(r) /\ y \in Out(Master)
      BY <2>1, <2>3, <3>4 DEF Rising, Before
    <3>5. \/ y \in ToSet(u) \/ Precedes(inbox[r], x, y) \/ Precedes(out[Master], x, y)
          \/ x \in In(r) /\ y \in Out(Master)
      <4>1. \/ Precedes(inbox[r], x, y) \/ Precedes(out'[Master], x, y)
            \/ x \in In(r) /\ y \in Out(Master)'
        BY <1>1, <2>3 DEF Before
      <4> QED
        BY <1>1, <1>3, <4>1
    <3> QED
      BY <1>3, <2>3, <3>1, <3>2, <3>3, <3>4, <3>5
  <2>4. /\ data'[r][k] = data[r][k] /\ data'[Master][k] = data[Master][k] /\ page' = page
        /\ data[r][k] <= data[Master][k]
    BY <1>1, <1>2, <2>1, Distinct DEF Rising
  <2> QED
    BY <2>2, <2>3, <2>4 DEF Rising, Route, Value, Carries, IsData
<1>8. ASSUME NEW r \in Remotes
      PROVE  Arriving(k, r)'
  <2>1. Arriving(k, r)
    BY DEF MastersEntry
  <2> QED
    BY <1>1, <1>2, <1>6, <2>1, Distinct DEF Arriving, Value, IsData
<1>9. ASSUME NEW x \in Out(Master)', IsData(x)
      PROVE  Value(x, k) = data'[Master][k] \/ Untold(k)'
  <2>1. CASE x \in Out(Master)
    BY <1>2, <1>6, <1>9, <2>1, Distinct DEF MastersEntry
  <2>2. CASE x \in ToSet(u)
    BY <1>2, <1>3, <1>9, <2>2, Distinct
  <2> QED
    BY <1>1, <1>9, <2>1, <2>2
<1> QED
  BY <1>7, <1>8, <1>9, MastersEntryPrimed

\* A step that changes nothing on the way to r.
LEMMA RouteKept ==
    ASSUME Joining, Joining', NEW k \in Keys, NEW r \in Remotes, Rising(k, r), Arriving(k, r),
           data'[r][k] = data[r][k], data'[Master][k] = data[Master][k],
           page'[r] # Closed => page[r] # Closed,
           page'[r] # Closed /\ "data" \in equipped'[r] => "data" \in equipped[r],
           inbox'[r] = inbox[r], out'[Master] = out[Master]
    PROVE  Rising(k, r)' /\ Arriving(k, r)'
<1>1. In(r)' = In(r) /\ Out(Master)' = Out(Master) /\ Route(r)' = Route(r)
  BY DEF In, Out, Route
<1>2. \A x, y : Before(r, x, y)' <=> Before(r, x, y)
  BY <1>1 DEF Before
<1>3. Rising(k, r)'
  BY <1>1, <1>2, RisingKept
<1>4. Untold(k)' <=> Untold(k)
  BY <1>1 DEF Untold, IsUpdate
<1> QED
  BY <1>1, <1>3, <1>4 DEF Arriving, Value, IsData

\* A remote handles a message.
LEMMA MastersHandleRemote ==
    ASSUME Joining, Joining', NEW k \in Keys, Writer[k] = Master, MastersEntry(k),
           NEW d \in Remotes, NEW m, NEW u, IsHandled(d, m, u)
    PROVE  MastersEntry(k)'
<1>1. /\ m \in Message /\ m \in In(d) /\ Adopts(d, m)
      /\ In(d) = In(d)' \cup {m}
      /\ \A y \in In(d)' : Precedes(inbox[d], m, y)
      /\ \A x, y : Precedes(inbox'[d], x, y) => Precedes(inbox[d], x, y)
      /\ out'[Master] = out[Master] /\ Out(Master)' = Out(Master)
      /\ \A r \in Remotes : r # d => inbox'[r] = inbox[r]
      /\ UNCHANGED page
      /\ \A r \in Remotes : "data" \in equipped'[r] =>
           "data" \in equipped[r] \/ (r = d /\ IsData(m))
  BY Distinct DEF IsHandled, Taken, In, Out
<1>2. /\ \A e \in Devices : e # d => data'[e][k] = data[e][k]
      /\ data'[Master][k] = data[Master][k]
      /\ data'[d][k] = IF Value(m, k) # Unset THEN Value(m, k) ELSE data[d][k]
  BY <1>1, Distinct DEF Adopts
<1>3. Untold(k)' <=> Untold(k)
  BY <1>1, <1>2 DEF Untold, IsUpdate
<1>4. ASSUME NEW r \in Remotes, r # d
      PROVE  Rising(k, r)' /\ Arriving(k, r)'
  BY <1>1, <1>2, <1>4, RouteKept, Distinct DEF MastersEntry
<1>5. Rising(k, d) /\ Arriving(k, d) /\ page[d] # Closed
  <2>1. In(d) # {}
    BY <1>1
  <2> QED
    BY <2>1, InQueues DEF MastersEntry, Joining
<1>6. /\ data[d][k] \in Nat /\ data[Master][k] \in Nat
      /\ \A x \in Route(d) : Value(x, k) \in Nat
      /\ m \in Route(d) /\ Route(d)' \subseteq Route(d) /\ In(d)' \subseteq In(d)
  BY <1>1, Numbers, Distinct DEF Route
<1>7. \A y \in Route(d)' : Before(d, m, y)
  BY <1>1 DEF Before, Route
<1>8. Value(m, k) # Unset => Carries(m, k)
  BY DEF Carries
<1>9. Rising(k, d)'
  <2>1. data'[d][k] <= data[Master][k]
    BY <1>2, <1>5, <1>6 DEF Rising, Route
  <2>2. \A x \in Route(d)' : Value(x, k) <= data[Master][k]
    BY <1>5, <1>6 DEF Rising, Route
  <2>3. \A x \in Route(d)' : Carries(x, k) => data'[d][k] <= Value(x, k)
    BY <1>2, <1>5, <1>6, <1>7 DEF Rising, Route
  <2>4. ASSUME NEW x \in Route(d)', NEW y \in Route(d)', Before(d, x, y)', Carries(y, k)
        PROVE  Value(x, k) <= Value(y, k)
    <3>1. Before(d, x, y)
      BY <1>1, <1>6, <2>4 DEF Before
    <3> QED
      BY <1>5, <1>6, <2>4, <3>1 DEF Rising, Route
  <2> QED
    BY <1>2, <2>1, <2>2, <2>3, <2>4 DEF Rising, Route, Value, Carries, IsData
<1>10. Arriving(k, d)'
  <2>1. SUFFICES ASSUME "data" \in equipped'[d] \/ \E x \in In(d)' : IsData(x), ~Untold(k)
                 PROVE  \/ data'[d][k] = data[Master][k]
                        \/ \E x \in In(d)' : Value(x, k) = data[Master][k]
    BY <1>2, <1>3 DEF Arriving, Value, IsData
  <2>2. \/ data[d][k] = data[Master][k]
        \/ \E x \in In(d) : Value(x, k) = data[Master][k]
    BY <1>1, <1>5, <1>6, <2>1 DEF Arriving
  <2>3. CASE \E x \in In(d)' : Value(x, k) = data[Master][k]
    BY <2>3
  <2>4. CASE Value(m, k) = data[Master][k]
    <3>1. Value(m, k) = Unset => data[d][k] = Unset
      BY <1>5, <1>6, <2>4, Distinct DEF Rising
    <3> QED
      BY <1>2, <2>4, <3>1
  <2>5. CASE data[d][k] = data[Master][k]
    <3>1. CASE Value(m, k) = Unset
      BY <1>2, <2>5, <3>1
    <3>2. CASE Value(m, k) # Unset
      <4>1. data[d][k] <= Value(m, k) /\ Value(m, k) <= data[Master][k]
        BY <1>1, <1>5, <1>8, <3>2 DEF Rising
      <4>2. Value(m, k) \in Nat
        BY <1>6
      <4> QED
        BY <1>2, <1>6, <2>5, <3>2, <4>1, <4>2
    <3> QED
      BY <3>1, <3>2
  <2> QED
    BY <1>1, <2>2, <2>3, <2>4, <2>5
<1>11. \A x \in Out(Master)' : IsData(x) => Value(x, k) = data'[Master][k] \/ Untold(k)'
  BY <1>1, <1>2, <1>3 DEF MastersEntry
<1> QED
  BY <1>4, <1>9, <1>10, <1>11, MastersEntryPrimed

\* A script is acknowledged, or a page is opened or closed.
LEMMA MastersPages ==
    ASSUME Joining, Joining', NEW k \in Keys, Writer[k] = Master, MastersEntry(k),
           NEW r \in Remotes, (\E a : IsSettled(r, a)) \/ IsOpened(r) \/ IsClosed(r)
    PROVE  MastersEntry(k)'
<1>1. /\ out'[Master] = out[Master] /\ Out(Master)' = Out(Master)
      /\ data'[Master][k] = data[Master][k]
  BY Distinct DEF IsSettled, IsOpened, IsClosed, Out
<1>2. Untold(k)' <=> Untold(k)
  BY <1>1 DEF Untold, IsUpdate
<1>3. \A x \in Out(Master)' : IsData(x) => Value(x, k) = data'[Master][k] \/ Untold(k)'
  BY <1>1, <1>2 DEF MastersEntry
<1>4. ASSUME NEW q \in Remotes, q # r \/ \E a : IsSettled(r, a)
      PROVE  Rising(k, q)' /\ Arriving(k, q)'
  <2>1. /\ data'[q][k] = data[q][k] /\ page'[q] = page[q] /\ inbox'[q] = inbox[q]
        /\ "data" \in equipped'[q] => "data" \in equipped[q]
    BY <1>4, Distinct DEF IsSettled, IsOpened, IsClosed
  <2> QED
    BY <1>1, <2>1, RouteKept DEF MastersEntry
<1>5. /\ data[r][k] \in Nat /\ data[Master][k] \in Nat /\ Rising(k, r)
      /\ \A x \in Out(Master) : Value(x, k) \in Nat
  BY Numbers, Distinct DEF MastersEntry
<1>6. \A e \in Devices : \A p, q :
        /\ Precedes(out[e], p, q) => p \in Out(e) /\ q \in Out(e)
        /\ Precedes(inbox[e], p, q) => p \in In(e) /\ q \in In(e)
  BY InQueues DEF Joining
<1>7. ASSUME IsOpened(r)
      PROVE  Rising(k, r)' /\ Arriving(k, r)'
  <2>1. /\ In(r) = {} /\ In(r)' = In(r) /\ inbox'[r] = inbox[r] /\ data'[r][k] = 0
        /\ equipped'[r] = {}
    BY <1>7, Distinct DEF IsOpened, In
  <2>2. Arriving(k, r)'
    BY <2>1 DEF Arriving
  <2>3. \A x, y : Before(r, x, y)' <=> Before(r, x, y)
    BY <1>1, <2>1 DEF Before
  <2>4. Rising(k, r)'
    BY <1>1, <1>5, <2>1, <2>3 DEF Rising, Value, Carries, IsData
  <2> QED
    BY <2>2, <2>4
<1>8. ASSUME IsClosed(r)
      PROVE  Rising(k, r)' /\ Arriving(k, r)'
  <2>1. In(r)' = {} /\ data'[r][k] = data[r][k] /\ page'[r] = Closed /\ inbox'[r] = <<>>
    BY <1>8 DEF IsClosed
  <2>2. Arriving(k, r)'
    BY <2>1 DEF Arriving
  <2>3. Route(r)' \subseteq Route(r)
    BY <1>1, <2>1 DEF Route
  <2>4. ASSUME NEW x, NEW y, Before(r, x, y)'
        PROVE  x \in Route(r) /\ y \in Route(r) /\ Before(r, x, y)
    <3>1. Precedes(out[Master], x, y)
      BY <1>1, <2>1, <2>4, NoMembers DEF Before
    <3>2. x \in Out(Master) /\ y \in Out(Master)
      BY <1>6, <3>1, Distinct
    <3> QED
      BY <3>1, <3>2 DEF Before, Route
  <2>5. Rising(k, r)'
    BY <1>1, <1>5, <2>1, <2>3, <2>4, RisingKept
  <2> QED
    BY <2>2, <2>5
<1>9. \A q \in Remotes : Rising(k, q)' /\ Arriving(k, q)'
  BY <1>4, <1>7, <1>8
<1> QED
  BY <1>3, <1>9, MastersEntryPrimed

\* A step, for one entry.
LEMMA StepMasters ==
    ASSUME Joining, Joining', Steps, ValuesBounded, MastersEntries
    PROVE  MastersEntries'
<1> SUFFICES ASSUME NEW k \in Keys, Writer[k] = Master
             PROVE  MastersEntry(k)'
  BY DEF MastersEntries
<1>0. MastersEntry(k)
  BY DEF MastersEntries
<1>1. ASSUME NEW d \in Devices, NEW j \in Keys, IsSet(d, j)
      PROVE  MastersEntry(k)'
  BY <1>0, <1>1, MastersSet
<1>2. ASSUME NEW d \in Devices, NEW m \in Message, IsRelayed(d, m)
      PROVE  MastersEntry(k)'
  <2>1. CASE d = Master
    BY <1>0, <1>2, <2>1, MastersRelayMaster
  <2>2. CASE d \in Remotes
    BY <1>0, <1>2, <2>2, MastersRelayRemote
  <2> QED
    BY <2>1, <2>2, Distinct
<1>3. ASSUME NEW d \in Devices, NEW m, NEW u, IsHandled(d, m, u)
      PROVE  MastersEntry(k)'
  <2>1. CASE d = Master
    BY <1>0, <1>3, <2>1, MastersHandleMaster
  <2>2. CASE d \in Remotes
    BY <1>0, <1>3, <2>2, MastersHandleRemote
  <2> QED
    BY <2>1, <2>2, Distinct
<1>4. ASSUME NEW r \in Remotes, (\E a : IsSettled(r, a)) \/ IsOpened(r) \/ IsClosed(r)
      PROVE  MastersEntry(k)'
  BY <1>0, <1>4, MastersPages
<1>5. CASE UNCHANGED vars
  BY <1>0, <1>5 DEF vars, handshakeVars, storeVars, channels, MastersEntry, Rising, Arriving,
                    Untold, Before, In, Out, Value, Carries, IsData, IsUpdate
<1> QED
  BY <1>1, <1>2, <1>3, <1>4, <1>5 DEF Steps

\* In the first state nothing is under way and nothing is set.
LEMMA InitValues == Init => ValuesBounded /\ MastersEntries
<1> SUFFICES ASSUME Init
             PROVE  ValuesBounded /\ MastersEntries
  OBVIOUS
<1>1. \A d \in Devices : Out(d) = {} /\ In(d) = {} /\ out[d] = <<>> /\ inbox[d] = <<>>
  BY NoMembers DEF Init, Out, In
<1>2. \A d \in Devices, k \in Keys : data[d][k] = 0
  BY Distinct DEF Init, Empty
<1>3. writes = 0 /\ \A r \in Remotes : page[r] = Closed
  BY DEF Init
<1>4. ValuesBounded
  BY <1>1, <1>2, <1>3 DEF ValuesBounded
<1>5. \A k \in Keys, r \in Remotes : Rising(k, r) /\ Arriving(k, r)
  BY <1>1, <1>2, <1>3, Distinct DEF Rising, Arriving
<1> QED
  BY <1>1, <1>4, <1>5, Distinct DEF MastersEntries, MastersEntry

\* In every reachable state.
THEOREM AlwaysMasters == Spec => [](ValuesBounded /\ MastersEntries)
<1>1. Init => ValuesBounded /\ MastersEntries
  BY InitValues
<1>2. /\ Joining /\ Joining' /\ [Next]_vars
      /\ ValuesBounded /\ MastersEntries
      => ValuesBounded' /\ MastersEntries'
  BY NextDoes, StepBounded, StepMasters
<1> QED
  BY <1>1, <1>2, AlwaysJoining, PTL DEF Spec

\* When nothing is under way, every page that is ready has what the master set,
\* also what it set while the page was joining.
THEOREM MastersEntriesAreThere == Spec => []MastersEntriesArrive
<1>1. Joining /\ MastersEntries => MastersEntriesArrive
  <2> SUFFICES ASSUME Joining, MastersEntries, Quiet, NEW k \in Keys, NEW r \in ready,
                      Writer[k] = Master
               PROVE  data[r][k] = data[Master][k]
    BY DEF MastersEntriesArrive
  <2>1. r \in Remotes /\ page[r] # Closed /\ equipped[r] \subseteq Parts
    BY DEF Joining, TypeOK
  <2>2. "data" \in equipped[r]
    BY <2>1, Distinct DEF Joining, AcksAreEarned
  <2>3. In(r) = {} /\ Out(Master) = {}
    BY <2>1, NoMembers, Distinct DEF Quiet, In, Out
  <2> QED
    BY <2>1, <2>2, <2>3 DEF MastersEntries, MastersEntry, Arriving, Untold
<1> QED
  BY <1>1, AlwaysJoining, AlwaysMasters, PTL

-----------------------------------------------------------------------------
(* Whether an entry is known.                                              *)

\* What it means that an entry is known after a step.
LEMMA KnowsAfter ==
    ASSUME NEW d, NEW k
    PROVE  Knows(d, k)' <=> data'[d][k] # Unset \/ \E m \in In(d)' : Value(m, k) # Unset
BY DEF Knows, Value, Unset

\* Nothing but its identification is relayed for a page before it is taken.
LEMMA RelayedInTime ==
    ASSUME Joining, NEW d \in Remotes, NEW m \in Message, IsRelayed(d, m),
           m.name # "identification"
    PROVE  d \in identified
<1> SUFFICES ASSUME d \notin identified
             PROVE  FALSE
  OBVIOUS
<1>1. m \in Out(d) /\ Out(d) = Out(d)' \cup {m} /\ \A y \in Out(d)' : Precedes(out[d], m, y)
  BY DEF IsRelayed, Taken, Out
<1>2. page[d] # Closed
  BY <1>1, InQueues DEF Joining
<1>3. page[d] \in Sessions /\ out[d] = Greeting(d, page[d])
  BY <1>2 DEF Joining, TypeOK, GreetsFirst
<1>4. /\ Hello \in Out(d) /\ Hello.name = "identification"
      /\ \A x, y : Precedes(out[d], x, y) => x = Hello
  <2>1. ASSUME NEW s \in Sessions
        PROVE  /\ Hello \in ToSet(Greeting(d, s)) /\ Hello.name = "identification"
               /\ \A x, y : Precedes(Greeting(d, s), x, y) => x = Hello
    <3>1. ToSet(Greeting(d, s)) = {Hello, Info(d, s)} /\ Hello.name = "identification"
      BY GreetingIs
    <3>2. \A x, y : Precedes(Greeting(d, s), x, y) => x = Hello /\ y = Info(d, s)
      BY GreetingOrder
    <3> QED
      BY <3>1, <3>2
  <2> QED
    BY <1>3, <2>1 DEF Out
<1> QED
  BY <1>1, <1>4

\* An entry that a device knows stays known while its page is open.
LEMMA KnowsKept ==
    ASSUME Joining, Joining', Steps, NEW k \in Keys, NEW d \in Devices, Knows(d, k),
           d = Master \/ (page[d] # Closed /\ page'[d] # Closed)
    PROVE  Knows(d, k)'
<1>1. ASSUME data'[d][k] = data[d][k], In(d) \subseteq In(d)'
      PROVE  Knows(d, k)'
  BY <1>1, KnowsAfter DEF Knows
<1>2. ASSUME NEW e \in Devices, NEW j \in Keys, IsSet(e, j)
      PROVE  Knows(d, k)'
  <2>1. CASE e = d /\ j = k
    BY <1>2, <2>1, KnowsAfter, Numbers, Distinct DEF IsSet
  <2>2. CASE ~(e = d /\ j = k)
    BY <1>1, <1>2, <2>2 DEF IsSet, In
  <2> QED
    BY <2>1, <2>2
<1>3. ASSUME NEW e \in Devices, NEW m \in Message, IsRelayed(e, m)
      PROVE  Knows(d, k)'
  <2>1. data' = data /\ In(d) \subseteq In(d)'
    BY <1>3 DEF IsRelayed, In, Put
  <2> QED
    BY <1>1, <2>1
<1>4. ASSUME NEW e \in Devices, NEW m, NEW u, IsHandled(e, m, u)
      PROVE  Knows(d, k)'
  <2>1. CASE e = d
    <3>1. /\ In(d) = In(d)' \cup {m}
          /\ data'[d][k] = IF Value(m, k) # Unset THEN Value(m, k) ELSE data[d][k]
      BY <1>4, <2>1 DEF IsHandled, Taken, In, Adopts
    <3> QED
      BY <3>1, KnowsAfter DEF Knows
  <2>2. CASE e # d
    <3>1. data'[d][k] = data[d][k] /\ In(d)' = In(d)
      BY <1>4, <2>2 DEF IsHandled, In, Adopts
    <3> QED
      BY <1>1, <3>1
  <2> QED
    BY <2>1, <2>2
<1>5. ASSUME NEW r \in Remotes, NEW a, IsSettled(r, a)
      PROVE  Knows(d, k)'
  BY <1>1, <1>5 DEF IsSettled, In
<1>6. ASSUME NEW r \in Remotes, IsOpened(r) \/ IsClosed(r)
      PROVE  Knows(d, k)'
  <2>1. d # r
    BY <1>6, Distinct DEF IsOpened, IsClosed
  <2>2. data'[d][k] = data[d][k] /\ In(d)' = In(d)
    BY <1>6, <2>1 DEF IsOpened, IsClosed, In
  <2> QED
    BY <1>1, <2>2
<1>7. CASE UNCHANGED vars
  BY <1>1, <1>7 DEF vars, storeVars, channels, In
<1> QED
  BY <1>2, <1>3, <1>4, <1>5, <1>6, <1>7 DEF Steps

\* The conditions on the entries of a remote, taken together.
LEMMA MasterKnowsPrimed ==
    ASSUME NEW k \in Keys, NEW w \in Remotes,
           \A m \in Out(Master)' : Value(m, k) # Unset => Knows(Master, k)',
           \A r \in Remotes : r # w /\ Knows(r, k)' => Knows(Master, k)',
           page'[w] # Closed /\ Knows(w, k)' =>
             Knows(Master, k)' \/ \E u \in Out(w)' : IsUpdate(u, k),
           (\E u \in Out(w)' : IsUpdate(u, k)) => Knows(w, k)' /\ w \in identified'
    PROVE  MasterKnows(k, w)'
BY DEF MasterKnows, Value, IsUpdate, Unset

\* What remotes send has a value of an entry only if they set it.
LEMMA ValuesFromWriter ==
    ASSUME Joining, NEW k \in Keys, NEW d \in Remotes, NEW m \in Out(d), Value(m, k) # Unset
    PROVE  d = Writer[k] /\ IsUpdate(m, k)
<1>1. m.name \in {"identification", "remoteinfo", "partack", "update"}
      /\ (m.name = "update" => Writer[m.key] = d)
  BY DEF Joining, SendsOnly
<1> QED
  BY <1>1, ValuesOf DEF IsUpdate

\* Messages to the master have a value of an entry only if they are updates.
LEMMA ValuesToMaster ==
    ASSUME Joining, NEW k \in Keys, NEW m \in In(Master), Value(m, k) # Unset
    PROVE  IsUpdate(m, k)
<1>1. m.name \in {"remoteinfo", "partack", "update"}
  BY DEF Joining, GetsOnly
<1> QED
  BY <1>1, ValuesOf DEF IsUpdate

\* The master knows an entry of a remote: a step.
LEMMA StepMasterKnows ==
    ASSUME Joining, Joining', Steps, NEW k \in Keys, NEW w \in Remotes, Writer[k] = w,
           MasterKnows(k, w)
    PROVE  MasterKnows(k, w)'
<1>0. Knows(Master, k) => Knows(Master, k)'
  BY KnowsKept, Distinct
<1>1. ASSUME NEW d \in Devices, NEW j \in Keys, IsSet(d, j)
      PROVE  MasterKnows(k, w)'
  <2>1. /\ d = Writer[j] /\ (d = Master \/ d \in ready) /\ UNCHANGED <<page, identified>>
        /\ Value(NewUpdate(j), k) = (IF k = j THEN writes + 1 ELSE Unset)
        /\ (k # j => ~IsUpdate(NewUpdate(j), k)) /\ IsUpdate(NewUpdate(j), j)
        /\ Out(d)' = Out(d) \cup {NewUpdate(j)}
        /\ \A e \in Devices : e # d => Out(e)' = Out(e)
        /\ \A e \in Devices : In(e)' = In(e)
        /\ \A e \in Devices, i \in Keys : e # d \/ i # j => data'[e][i] = data[e][i]
        /\ data'[d][j] = writes + 1 /\ writes + 1 # Unset
    BY <1>1, Numbers, Distinct DEF IsSet, Put, In, Out
  <2>2. \A e \in Devices : e # w => (Knows(e, k)' <=> Knows(e, k))
    BY <2>1, KnowsAfter DEF Knows
  <2>3. k = j => d = w /\ Knows(w, k)' /\ w \in identified
    BY <2>1, KnowsAfter, Distinct DEF Joining, TypeOK
  <2>4. k # j => (Knows(w, k)' <=> Knows(w, k))
    BY <2>1, KnowsAfter, Distinct DEF Knows
  <2>5. \A m \in Out(Master)' : Value(m, k) # Unset => m \in Out(Master)
    BY <2>1, <2>3, Distinct
  <2>6. (\E u \in Out(w)' : IsUpdate(u, k)) => (k = j \/ \E u \in Out(w) : IsUpdate(u, k))
    BY <2>1, Distinct
  <2>7. \A u \in Out(w) : u \in Out(w)'
    BY <2>1, Distinct
  <2> QED
    BY <1>0, <2>1, <2>2, <2>3, <2>4, <2>5, <2>6, <2>7, MasterKnowsPrimed, Distinct DEF MasterKnows
<1>2. ASSUME NEW d \in Devices, NEW m \in Message, IsRelayed(d, m)
      PROVE  MasterKnows(k, w)'
  <2>1. /\ m \in Out(d) /\ UNCHANGED <<page, data>> /\ identified \subseteq identified'
        /\ Out(d) = Out(d)' \cup {m} /\ \A e \in Devices : e # d => Out(e)' = Out(e)
        /\ \A e \in Devices : /\ Reaches(d, m, e) => In(e)' = In(e) \cup {m}
                              /\ ~Reaches(d, m, e) => In(e)' = In(e)
    BY <1>2 DEF IsRelayed, Put, Taken, In, Out
  <2>2. Value(m, k) # Unset =>
          \/ d = Master /\ Knows(Master, k)'
          \/ d = w /\ IsUpdate(m, k) /\ Knows(Master, k)'
    <3>1. CASE d = Master
      BY <1>0, <2>1, <3>1 DEF MasterKnows
    <3>2. ASSUME d \in Remotes, Value(m, k) # Unset
          PROVE  d = w /\ IsUpdate(m, k) /\ Knows(Master, k)'
      <4>1. d = w /\ IsUpdate(m, k)
        BY <2>1, <3>2, ValuesFromWriter
      <4>2. m.name = "update" /\ d \in identified
        BY <1>2, <3>2, <4>1, RelayedInTime DEF IsUpdate
      <4>3. Reaches(d, m, Master)
        BY <2>1, <3>2, <4>2, RelayedTo, Distinct
      <4> QED
        BY <2>1, <3>2, <4>1, <4>3, KnowsAfter, Distinct
    <3> QED
      BY <3>1, <3>2, Distinct
  <2>3. \A e \in Devices : Knows(e, k)' => Knows(e, k) \/ Knows(Master, k)'
    BY <2>1, <2>2, KnowsAfter DEF Knows
  <2>4. (\E u \in Out(w) : IsUpdate(u, k)) =>
          Knows(Master, k)' \/ (\E u \in Out(w)' : IsUpdate(u, k))
    <3>1. ASSUME NEW u \in Out(w), IsUpdate(u, k), u \notin Out(w)'
          PROVE  Knows(Master, k)'
      <4>1. u = m /\ d = w /\ u \in Message
        BY <1>2, <2>1, <3>1, Distinct
      <4>2. Value(m, k) # Unset
        BY <3>1, <4>1, ValuesOf, Distinct
      <4> QED
        BY <2>2, <4>2
    <3> QED
      BY <3>1
  <2>5. Out(w)' \subseteq Out(w) /\ Out(Master)' \subseteq Out(Master)
    BY <2>1, Distinct
  <2>6. page[w] # Closed => (Knows(w, k) => Knows(w, k)')
    BY <2>1, KnowsKept, Distinct
  <2>7. \A u \in Out(w) : page[w] # Closed
    BY InQueues DEF Joining
  <2> QED
    BY <1>0, <2>1, <2>3, <2>4, <2>5, <2>6, <2>7, MasterKnowsPrimed, Distinct DEF MasterKnows
<1>3. ASSUME NEW d \in Devices, NEW m, NEW u, IsHandled(d, m, u)
      PROVE  MasterKnows(k, w)'
  <2>1. /\ m \in Message /\ m \in In(d) /\ Adopts(d, m) /\ UNCHANGED <<page, identified>>
        /\ Out(d)' = Out(d) \cup ToSet(u) /\ \A e \in Devices : e # d => Out(e)' = Out(e)
        /\ \A e \in Devices : In(e)' \subseteq In(e)
    BY <1>3 DEF IsHandled, Taken, Joined, In, Out
  <2>2. \A e \in Devices : Knows(e, k)' => Knows(e, k)
    BY <2>1, KnowsAfter DEF Knows, Adopts
  <2>3. \A x \in ToSet(u) : /\ Value(x, k) # Unset => d = Master /\ Knows(Master, k)
                            /\ ~IsUpdate(x, k)
    <3>1. ASSUME NEW x \in ToSet(u), IsAck(x)
          PROVE  Value(x, k) = Unset /\ ~IsUpdate(x, k)
      BY <3>1, ValuesOf DEF IsAck
    <3>2. ASSUME NEW x \in ToSet(u), d = Master, m.name = "remoteinfo",
                 u = Batch(m.from, m.session)
          PROVE  (Value(x, k) = data[Master][k] \/ Value(x, k) = Unset) /\ ~IsUpdate(x, k)
      BY <2>1, <3>2, BatchValues
    <3> QED
      BY <1>3, <3>1, <3>2 DEF IsHandled, Knows
  <2>4. page[w] # Closed => (Knows(w, k) => Knows(w, k)')
    BY <2>1, KnowsKept, Distinct
  <2>5. \A x \in Out(w) : page[w] # Closed
    BY InQueues DEF Joining
  <2>6. /\ \A x \in Out(w)' : IsUpdate(x, k) => x \in Out(w)
        /\ Out(w) \subseteq Out(w)'
        /\ \A x \in Out(Master)' : x \in Out(Master) \/ Value(x, k) = Unset \/ Knows(Master, k)
    BY <2>1, <2>3, Distinct
  <2> QED
    BY <1>0, <2>1, <2>2, <2>4, <2>5, <2>6, MasterKnowsPrimed, Distinct DEF MasterKnows
<1>4. ASSUME NEW r \in Remotes, NEW a, IsSettled(r, a)
      PROVE  MasterKnows(k, w)'
  <2>1. /\ \A e \in Devices : Knows(e, k)' <=> Knows(e, k)
        /\ UNCHANGED <<page, identified>>
    BY <1>4, KnowsAfter DEF IsSettled, Knows, In
  <2>2. ~IsUpdate(a, k) /\ Out(r)' = Out(r) \cup {a} /\ \A e \in Devices : e # r => Out(e)' = Out(e)
    BY <1>4, ValuesOf DEF IsSettled, IsAck, Put, Out
  <2>3. /\ \A x \in Out(w)' : IsUpdate(x, k) => x \in Out(w)
        /\ Out(w) \subseteq Out(w)' /\ Out(Master)' = Out(Master)
    BY <2>2, Distinct
  <2> QED
    BY <2>1, <2>3, MasterKnowsPrimed, Distinct DEF MasterKnows
<1>5. ASSUME NEW r \in Remotes, IsOpened(r)
      PROVE  MasterKnows(k, w)'
  <2>1. /\ \A e \in Devices : e # r => (Knows(e, k)' <=> Knows(e, k)) /\ Out(e)' = Out(e)
        /\ \A e \in Remotes : e # r => page'[e] = page[e]
        /\ identified' = identified
    BY <1>5, KnowsAfter DEF IsOpened, Knows, In, Out
  <2>2. ~Knows(r, k)'
    BY <1>5, KnowsAfter, Distinct DEF IsOpened, In
  <2>3. \A u \in Out(r)' : ~IsUpdate(u, k)
    BY <1>5, GreetingIs DEF IsOpened, IsUpdate
  <2>4. Knows(Master, k)' <=> Knows(Master, k)
    BY <2>1, Distinct
  <2>5. Out(Master)' = Out(Master)
    BY <2>1, Distinct
  <2>6. w # r => Out(w)' = Out(w) /\ (Knows(w, k)' <=> Knows(w, k)) /\ page'[w] = page[w]
    BY <2>1, Distinct
  <2>7. \A q \in Remotes : Knows(q, k)' => Knows(q, k)
    BY <2>1, <2>2, Distinct
  <2> QED
    BY <2>1, <2>2, <2>3, <2>4, <2>5, <2>6, <2>7, MasterKnowsPrimed DEF MasterKnows
<1>6. ASSUME NEW r \in Remotes, IsClosed(r)
      PROVE  MasterKnows(k, w)'
  <2>1. /\ \A e \in Devices : e # r => (Knows(e, k)' <=> Knows(e, k)) /\ Out(e)' = Out(e)
        /\ \A e \in Remotes : e # r => page'[e] = page[e] /\ (e \in identified => e \in identified')
        /\ page'[r] = Closed /\ Out(r)' = {}
        /\ Knows(r, k)' => Knows(r, k)
    BY <1>6, KnowsAfter DEF IsClosed, Knows, In, Out
  <2>2. (Knows(Master, k)' <=> Knows(Master, k)) /\ Out(Master)' = Out(Master)
    BY <2>1, Distinct
  <2>3. \A q \in Remotes : Knows(q, k)' => Knows(q, k)
    BY <2>1, Distinct
  <2>4. w # r => Out(w)' = Out(w) /\ (Knows(w, k)' <=> Knows(w, k)) /\ page'[w] = page[w]
                 /\ (w \in identified => w \in identified')
    BY <2>1, Distinct
  <2> QED
    BY <2>1, <2>2, <2>3, <2>4, MasterKnowsPrimed DEF MasterKnows
<1>7. CASE UNCHANGED vars
  BY <1>7 DEF vars, handshakeVars, storeVars, channels, MasterKnows, Knows, In, Out,
              Value, IsUpdate, Unset
<1> QED
  BY <1>1, <1>2, <1>3, <1>4, <1>5, <1>6, <1>7 DEF Steps

\* A part of the session of the page of r that has a value of k.
BringsTo(m, r, k) == m.name = "part" /\ m.to = r /\ m.session = page[r] /\ Value(m, k) # Unset

\* An entry is known to a page: what it means after a step.
LEMMA PageKnowsPrimed ==
    ASSUME NEW k \in Keys, NEW r \in Remotes,
           page'[r] # Closed =>
             /\ data'[Master][k] # Unset =>
                  \/ Knows(r, k)' \/ Greeted(r)' \/ \E m \in Out(Master)' : BringsTo(m, r, k)'
             /\ \A u \in In(Master)' : IsUpdate(u, k) =>
                  /\ Knows(r, k)' \/ Greeted(r)'
                  /\ \A x \in In(Master)' :
                       IsInfo(x, r)' /\ Precedes(inbox[Master], x, u)' => Knows(r, k)'
    PROVE  PageKnows(k, r)'
BY DEF PageKnows, BringsTo, IsUpdate, Value, Unset

\* A step that takes no remoteinfo of r, no part to it and no entry, and brings
\* the master none.
LEMMA PageKnowsKept ==
    ASSUME NEW k \in Keys, NEW r \in Remotes, PageKnows(k, r),
           page'[r] = page[r],
           page[r] # Closed => (Knows(r, k) => Knows(r, k)'),
           data'[Master][k] # Unset => data[Master][k] # Unset,
           page[r] # Closed => (Greeted(r) => Greeted(r)'),
           page[r] # Closed =>
             \A m \in Out(Master) : BringsTo(m, r, k) => m \in Out(Master)' \/ Knows(r, k)',
           \A u \in In(Master)' : IsUpdate(u, k) => u \in In(Master),
           \A x, u \in In(Master)' :
             /\ IsInfo(x, r) /\ IsUpdate(u, k) /\ Precedes(inbox[Master], x, u)'
             => x \in In(Master) /\ Precedes(inbox[Master], x, u)
    PROVE  PageKnows(k, r)'
<1>1. \A m : (BringsTo(m, r, k)' <=> BringsTo(m, r, k)) /\ (IsInfo(m, r)' <=> IsInfo(m, r))
  BY DEF BringsTo, IsInfo, Value, Unset
<1>2. page[r] # Closed =>
        /\ data[Master][k] # Unset =>
             \/ Knows(r, k) \/ Greeted(r) \/ \E m \in Out(Master) : BringsTo(m, r, k)
        /\ \A u \in In(Master) : IsUpdate(u, k) =>
             /\ Knows(r, k) \/ Greeted(r)
             /\ \A x \in In(Master) :
                  IsInfo(x, r) /\ Precedes(inbox[Master], x, u) => Knows(r, k)
  BY DEF PageKnows, BringsTo
<1> QED
  BY <1>1, <1>2, PageKnowsPrimed

\* A message is relayed.
LEMMA PageKnowsRelay ==
    ASSUME Joining, Joining', Steps, NEW k \in Keys, NEW w \in Remotes, Writer[k] = w,
           MasterKnows(k, w), NEW r \in Remotes, PageKnows(k, r),
           NEW d \in Devices, NEW m \in Message, IsRelayed(d, m)
    PROVE  PageKnows(k, r)'
<1>1. /\ m \in Out(d) /\ UNCHANGED <<page, data>>
      /\ Out(d) = Out(d)' \cup {m} /\ \A e \in Devices : e # d => Out(e)' = Out(e)
      /\ \A e \in Devices : /\ Reaches(d, m, e) => In(e)' = In(e) \cup {m}
                            /\ ~Reaches(d, m, e) => In(e)' = In(e)
      /\ \A x, y : Precedes(inbox[Master], x, y)' => Precedes(inbox[Master], x, y) \/ y = m
  BY Distinct DEF IsRelayed, Put, Taken, In, Out
<1>2. page[r] # Closed => (Knows(r, k) => Knows(r, k)')
  BY <1>1, KnowsKept, Distinct
<1>3. CASE IsUpdate(m, k)
  <2>1. m.name = "update" /\ Value(m, k) # Unset
    BY <1>3, ValuesOf, Distinct
  <2>2. d = w
    <3>1. d # Master
      BY <1>1, <1>3, Distinct DEF Joining, SendsOnly, IsUpdate
    <3> QED
      BY <1>1, <2>1, <3>1, ValuesFromWriter, Distinct
  <2>3. ASSUME page[r] # Closed
        PROVE  Knows(r, k)'
    <3>1. CASE r = w
      <4>1. Knows(w, k)
        BY <1>1, <1>3, <2>2 DEF MasterKnows
      <4> QED
        BY <1>2, <2>3, <3>1, <4>1
    <3>2. CASE r # w
      <4>1. d \in identified
        BY <2>1, <2>2, RelayedInTime
      <4>2. Reaches(d, m, r)
        BY <1>1, <2>1, <2>2, <2>3, <3>2, <4>1, RelayedTo, Distinct
      <4> QED
        BY <1>1, <2>1, <4>2, KnowsAfter, Distinct
    <3> QED
      BY <3>1, <3>2
  <2> QED
    BY <1>1, <2>3, PageKnowsPrimed
<1>4. CASE ~IsUpdate(m, k)
  <2>1. \A u \in In(Master)' : IsUpdate(u, k) => u \in In(Master)
    BY <1>1, <1>4, Distinct
  <2>2. ASSUME NEW x, NEW u, IsUpdate(u, k), Precedes(inbox[Master], x, u)'
        PROVE  x \in In(Master) /\ Precedes(inbox[Master], x, u)
    BY <1>1, <1>4, <2>2, InQueues, Distinct DEF Joining
  <2>3. ASSUME page[r] # Closed, NEW x \in Out(r) \cup In(Master), IsInfo(x, r)
        PROVE  x \in Out(r)' \cup In(Master)'
    <3>1. CASE x \in In(Master)
      BY <1>1, <3>1, Distinct
    <3>2. CASE x \in Out(r) /\ ~(x = m /\ d = r)
      BY <1>1, <3>2, Distinct
    <3>3. CASE x = m /\ d = r
      <4>1. m.name = "remoteinfo" /\ m.to = Master
        BY <2>3, <3>3, MessageFields DEF IsInfo
      <4>2. r \in identified
        BY <3>3, <4>1, RelayedInTime
      <4>3. Reaches(d, m, Master)
        BY <1>1, <3>3, <4>1, <4>2, RelayedTo, Distinct
      <4> QED
        BY <1>1, <3>3, <4>3, Distinct
    <3> QED
      BY <2>3, <3>1, <3>2, <3>3
  <2>4. page[r] # Closed => (Greeted(r) => Greeted(r)')
    <3>1. \A x : IsInfo(x, r)' <=> IsInfo(x, r)
      BY <1>1 DEF IsInfo
    <3> QED
      BY <2>3, <3>1 DEF Greeted
  <2>5. ASSUME page[r] # Closed, NEW x \in Out(Master), BringsTo(x, r, k)
        PROVE  x \in Out(Master)' \/ Knows(r, k)'
    <3>1. CASE x = m /\ d = Master
      <4>1. r \in identified
        BY <2>5 DEF BringsTo, Joining, GreetsFirst
      <4>2. Reaches(d, m, r)
        BY <1>1, <2>5, <3>1, <4>1, RelayedTo, Distinct DEF BringsTo
      <4> QED
        BY <1>1, <2>5, <3>1, <4>2, KnowsAfter, Distinct DEF BringsTo
    <3>2. CASE ~(x = m /\ d = Master)
      BY <1>1, <2>5, <3>2, Distinct
    <3> QED
      BY <3>1, <3>2
  <2> QED
    BY <1>1, <1>2, <2>1, <2>2, <2>4, <2>5, PageKnowsKept
<1> QED
  BY <1>3, <1>4

\* The master handles a message.
LEMMA PageKnowsMaster ==
    ASSUME Joining, Joining', Steps, NEW k \in Keys, NEW w \in Remotes, Writer[k] = w,
           NEW r \in Remotes, PageKnows(k, r),
           NEW m, NEW u, IsHandled(Master, m, u)
    PROVE  PageKnows(k, r)'
<1>1. /\ m \in Message /\ m \in In(Master) /\ Adopts(Master, m) /\ UNCHANGED page
      /\ Out(Master) \subseteq Out(Master)' /\ ToSet(u) \subseteq Out(Master)'
      /\ Out(r)' = Out(r)
      /\ In(Master) = In(Master)' \cup {m}
      /\ \A y \in In(Master)' : Precedes(inbox[Master], m, y)
      /\ \A x, y : Precedes(inbox[Master], x, y)' => Precedes(inbox[Master], x, y)
  BY Distinct DEF IsHandled, Taken, Joined, In, Out
<1>2. page[r] # Closed => (Knows(r, k) => Knows(r, k)')
  BY <1>1, KnowsKept, Distinct
<1>3. /\ data'[Master][k] = IF Value(m, k) # Unset THEN Value(m, k) ELSE data[Master][k]
      /\ Value(m, k) # Unset => IsUpdate(m, k)
  BY <1>1, ValuesToMaster DEF Adopts
<1>4. \A x : IsInfo(x, r)' <=> IsInfo(x, r)
  BY <1>1 DEF IsInfo
<1>5. ~IsInfo(m, r) => (Greeted(r) => Greeted(r)')
  BY <1>1, <1>4 DEF Greeted
<1>6. CASE IsUpdate(m, k)
  <2>1. ~IsInfo(m, r)
    BY <1>6 DEF IsUpdate, IsInfo
  <2>2. page[r] # Closed => Knows(r, k) \/ Greeted(r)
    BY <1>1, <1>6 DEF PageKnows
  <2>3. page[r] # Closed => Knows(r, k)' \/ Greeted(r)'
    BY <1>2, <1>5, <2>1, <2>2
  <2>4. page[r] # Closed => \A y \in In(Master)' : IsUpdate(y, k) =>
          \A x \in In(Master)' :
            IsInfo(x, r)' /\ Precedes(inbox[Master], x, y)' => Knows(r, k)'
    BY <1>1, <1>2, <1>4 DEF PageKnows
  <2> QED
    BY <1>1, <2>3, <2>4, PageKnowsPrimed
<1>7. CASE IsInfo(m, r)
  <2>1. m.name = "remoteinfo" /\ m.from = r /\ m.session = page[r] /\ Value(m, k) = Unset
    BY <1>7, ValuesOf DEF IsInfo
  <2>2. data'[Master][k] = data[Master][k]
    BY <1>3, <2>1
  <2>3. u = Batch(m.from, m.session)
    BY <2>1 DEF IsHandled
  <2>4. PICK x \in ToSet(u) : IsData(x)
    BY <1>1, <2>1, <2>3, BatchValues
  <2>5. x.name = "part" /\ x.to = m.from /\ x.session = m.session /\ Value(x, k) = data[Master][k]
    BY <1>1, <2>1, <2>3, <2>4, BatchValues
  <2>6. data'[Master][k] # Unset => BringsTo(x, r, k)'
    BY <1>1, <2>1, <2>2, <2>5 DEF BringsTo, Value, Unset
  <2>7. ASSUME page[r] # Closed, NEW y \in In(Master)', IsUpdate(y, k)
        PROVE  Knows(r, k)'
    <3>1. Knows(r, k)
      BY <1>1, <1>7, <2>7 DEF PageKnows
    <3> QED
      BY <1>2, <2>7, <3>1
  <2> QED
    BY <1>1, <2>4, <2>6, <2>7, PageKnowsPrimed
<1>8. CASE ~IsUpdate(m, k) /\ ~IsInfo(m, r)
  <2>1. data'[Master][k] = data[Master][k] /\ (Greeted(r) => Greeted(r)')
    BY <1>3, <1>5, <1>8
  <2> QED
    BY <1>1, <1>2, <2>1, PageKnowsKept
<1> QED
  BY <1>6, <1>7, <1>8

\* An entry is known to a page: a step.
LEMMA StepPageKnows ==
    ASSUME Joining, Joining', Steps, NEW k \in Keys, NEW w \in Remotes, Writer[k] = w,
           MasterKnows(k, w), NEW r \in Remotes, PageKnows(k, r)
    PROVE  PageKnows(k, r)'
<1>1. \A q \in Remotes : page'[q] = page[q] /\ page[q] # Closed => (Knows(q, k) => Knows(q, k)')
  BY KnowsKept, Distinct
<1>2. ASSUME page'[r] = page[r], data'[Master][k] = data[Master][k],
             Out(r) \subseteq Out(r)', Out(Master) \subseteq Out(Master)',
             inbox'[Master] = inbox[Master]
      PROVE  PageKnows(k, r)'
  <2>1. In(Master)' = In(Master)
    BY <1>2 DEF In
  <2>2. \A x : IsInfo(x, r)' <=> IsInfo(x, r)
    BY <1>2 DEF IsInfo
  <2>3. Greeted(r) => Greeted(r)'
    BY <1>2, <2>1, <2>2 DEF Greeted
  <2>4. \A x, y : Precedes(inbox[Master], x, y)' => Precedes(inbox[Master], x, y)
    BY <1>2
  <2> QED
    BY <1>1, <1>2, <2>1, <2>3, <2>4, PageKnowsKept
<1>3. ASSUME NEW d \in Devices, NEW j \in Keys, IsSet(d, j)
      PROVE  PageKnows(k, r)'
  BY <1>2, <1>3, Distinct DEF IsSet, Put, Out
<1>4. ASSUME NEW d \in Devices, NEW m \in Message, IsRelayed(d, m)
      PROVE  PageKnows(k, r)'
  BY <1>4, PageKnowsRelay
<1>5. ASSUME NEW d \in Devices, NEW m, NEW u, IsHandled(d, m, u)
      PROVE  PageKnows(k, r)'
  <2>1. CASE d = Master
    BY <1>5, <2>1, PageKnowsMaster
  <2>2. CASE d # Master
    <3>1. page'[r] = page[r] /\ data'[Master][k] = data[Master][k] /\ inbox'[Master] = inbox[Master]
      BY <1>5, <2>2, Distinct DEF IsHandled, Adopts
    <3>2. Out(r) \subseteq Out(r)' /\ Out(Master) \subseteq Out(Master)'
      BY <1>5, <2>2, Distinct DEF IsHandled, Joined, Out
    <3> QED
      BY <1>2, <3>1, <3>2
  <2> QED
    BY <2>1, <2>2
<1>6. ASSUME NEW q \in Remotes, NEW a, IsSettled(q, a)
      PROVE  PageKnows(k, r)'
  BY <1>2, <1>6, Distinct DEF IsSettled, Put, Out
<1>7. ASSUME NEW q \in Remotes, IsOpened(q)
      PROVE  PageKnows(k, r)'
  <2>1. CASE q # r
    BY <1>2, <1>7, <2>1, Distinct DEF IsOpened, Out
  <2>2. CASE q = r
    <3>1. Info(r, opened + 1) \in Out(r)' /\ page'[r] = opened + 1 /\ opened + 1 \in Sessions
          /\ inbox' = inbox
      BY <1>7, <2>2 DEF IsOpened
    <3>2. Greeted(r)'
      <4>1. PICK i \in Out(r)' : i = Info(r, opened + 1)
        BY <3>1
      <4>2. i.name = "remoteinfo" /\ i.from = r /\ i.session = page'[r]
        BY <3>1, <4>1 DEF Info
      <4>3. IsInfo(i, r)'
        BY <4>2 DEF IsInfo
      <4> QED
        BY <4>3 DEF Greeted
    <3>3. ASSUME NEW x \in In(Master)', IsInfo(x, r)'
          PROVE  FALSE
      <4>1. x \in In(Master) /\ x.name = "remoteinfo" /\ x.session = opened + 1
        BY <3>1, <3>3 DEF In, IsInfo
      <4>2. x.session <= opened
        BY <4>1, Distinct DEF Joining, SessionsApart, InSession
      <4>3. opened \in Nat
        BY DEF Joining, TypeOK
      <4> QED
        BY <4>1, <4>2, <4>3
    <3> QED
      BY <3>2, <3>3, PageKnowsPrimed
  <2> QED
    BY <2>1, <2>2
<1>8. ASSUME NEW q \in Remotes, IsClosed(q)
      PROVE  PageKnows(k, r)'
  <2>1. CASE q # r
    BY <1>2, <1>8, <2>1, Distinct DEF IsClosed, Out
  <2>2. CASE q = r
    <3>1. page'[r] = Closed
      BY <1>8, <2>2 DEF IsClosed
    <3> QED
      BY <3>1, PageKnowsPrimed
  <2> QED
    BY <2>1, <2>2
<1>9. CASE UNCHANGED vars
  BY <1>2, <1>9 DEF vars, handshakeVars, storeVars, channels, Out
<1> QED
  BY <1>3, <1>4, <1>5, <1>6, <1>7, <1>8, <1>9 DEF Steps

\* In every reachable state.
THEOREM AlwaysKnown == Spec => []EntriesKnown
<1>1. Init => EntriesKnown
  <2> SUFFICES ASSUME Init, NEW k \in Keys, NEW w \in Remotes
               PROVE  MasterKnows(k, w) /\ \A r \in Remotes : PageKnows(k, r)
    BY DEF EntriesKnown
  <2>1. /\ \A d \in Devices : Out(d) = {} /\ In(d) = {}
        /\ \A d \in Devices : data[d][k] = Unset
    BY NoMembers DEF Init, Out, In, Empty
  <2>2. \A r \in Remotes : page[r] = Closed
    BY DEF Init
  <2>3. \A d \in Devices : ~Knows(d, k)
    BY <2>1 DEF Knows
  <2> QED
    BY <2>1, <2>2, <2>3, Distinct DEF MasterKnows, PageKnows
<1>2. /\ Joining /\ Joining' /\ [Next]_vars
      /\ EntriesKnown
      => EntriesKnown'
  BY NextDoes, StepMasterKnows, StepPageKnows DEF EntriesKnown
<1> QED
  BY <1>1, <1>2, AlwaysJoining, PTL DEF Spec

\* When nothing is under way, a page that is ready has an entry if and only if
\* the master has it, whoever set it while the page was joining.
THEOREM NoEntryIsMissing == Spec => []SameEntries
<1>1. Joining /\ EntriesKnown /\ MastersEntriesArrive => SameEntries
  <2> SUFFICES ASSUME Joining, EntriesKnown, MastersEntriesArrive, Quiet, NEW r \in ready,
                      NEW k \in Keys
               PROVE  data[r][k] = Unset <=> data[Master][k] = Unset
    BY DEF SameEntries
  <2>1. r \in Remotes /\ page[r] # Closed
    BY DEF Joining, TypeOK
  <2>2. CASE Writer[k] = Master
    BY <2>2 DEF MastersEntriesArrive
  <2>3. CASE Writer[k] \in Remotes
    <3>1. MasterKnows(k, Writer[k]) /\ PageKnows(k, r)
      BY <2>1, <2>3 DEF EntriesKnown
    <3>2. \A d \in Devices : Out(d) = {} /\ In(d) = {}
      BY NoMembers DEF Quiet, In, Out
    <3>3. \A d \in Devices : Knows(d, k) <=> data[d][k] # Unset
      BY <3>2 DEF Knows
    <3>4. data[Master][k] # Unset => Knows(r, k)
      BY <2>1, <3>1, <3>2, Distinct DEF PageKnows, Greeted
    <3>5. Knows(r, k) => Knows(Master, k)
      BY <2>1, <2>3, <3>1, <3>2, Distinct DEF MasterKnows
    <3> QED
      BY <2>1, <3>3, <3>4, <3>5, Distinct
  <2> QED
    BY <2>2, <2>3, Distinct
<1> QED
  BY <1>1, AlwaysJoining, AlwaysKnown, MastersEntriesAreThere, PTL

-----------------------------------------------------------------------------
(* What a page has been given: the steps.                                  *)

\* What it means that a part was given before a step and after it.
LEMMA DoneMeans ==
    ASSUME NEW r \in Remotes, NEW p, page'[r] = page[r]
    PROVE  /\ p \in Done(r) <=>
                /\ p \in Parts
                /\ \/ p \in acked[page[r]] \/ <<page[r], p>> \in loading[r]
                   \/ \E x \in Out(r) \cup In(Master) :
                        x.name = "partack" /\ x.from = r /\ x.session = page[r] /\ x.part = p
           /\ p \in Done(r)' <=>
                /\ p \in Parts
                /\ \/ p \in acked'[page[r]] \/ <<page[r], p>> \in loading'[r]
                   \/ \E x \in Out(r)' \cup In(Master)' :
                        x.name = "partack" /\ x.from = r /\ x.session = page[r] /\ x.part = p
BY DEF Done, Parts, Files

\* A part that is given after a step was given before it, or is given by it.
LEMMA DoneKept ==
    ASSUME NEW r \in Remotes, NEW q, page'[r] = page[r],
           acked'[page[r]] \subseteq acked[page[r]] \cup {q},
           loading'[r] \subseteq loading[r] \cup {<<page[r], q>>},
           \A x \in Out(r)' \cup In(Master)' :
              x.name = "partack" /\ x.from = r /\ x.session = page[r]
              => x \in Out(r) \cup In(Master) \/ x.part = q
    PROVE  Done(r)' \subseteq Done(r) \cup {q}
<1> SUFFICES ASSUME NEW p \in Done(r)', p # q
             PROVE  p \in Done(r)
  OBVIOUS
<1>1. /\ p \in Parts
      /\ \/ p \in acked'[page[r]] \/ <<page[r], p>> \in loading'[r]
         \/ \E x \in Out(r)' \cup In(Master)' :
              x.name = "partack" /\ x.from = r /\ x.session = page[r] /\ x.part = p
  BY DoneMeans
<1>2. <<page[r], p>> # <<page[r], q>>
  OBVIOUS
<1>3. \/ p \in acked[page[r]] \/ <<page[r], p>> \in loading[r]
      \/ \E x \in Out(r) \cup In(Master) :
           x.name = "partack" /\ x.from = r /\ x.session = page[r] /\ x.part = p
  BY <1>1, <1>2
<1> QED
  BY <1>1, <1>3, DoneMeans

\* And none is given by it.
LEMMA DoneSame ==
    ASSUME NEW r \in Remotes, page'[r] = page[r],
           acked'[page[r]] \subseteq acked[page[r]],
           \A l \in loading'[r] : l[1] = page[r] => l \in loading[r],
           \A x \in Out(r)' \cup In(Master)' :
              x.name = "partack" /\ x.from = r /\ x.session = page[r]
              => \/ x \in Out(r) \cup In(Master)
                 \/ x.part \in acked[page[r]] \/ <<page[r], x.part>> \in loading[r]
    PROVE  Done(r)' \subseteq Done(r)
<1> SUFFICES ASSUME NEW p \in Done(r)'
             PROVE  p \in Done(r)
  OBVIOUS
<1>1. /\ p \in Parts
      /\ \/ p \in acked'[page[r]] \/ <<page[r], p>> \in loading'[r]
         \/ \E x \in Out(r)' \cup In(Master)' :
              x.name = "partack" /\ x.from = r /\ x.session = page[r] /\ x.part = p
  BY DoneMeans
<1>2. <<page[r], p>>[1] = page[r]
  OBVIOUS
<1>3. \/ p \in acked[page[r]] \/ <<page[r], p>> \in loading[r]
      \/ \E x \in Out(r) \cup In(Master) :
           x.name = "partack" /\ x.from = r /\ x.session = page[r] /\ x.part = p
  BY <1>1, <1>2
<1> QED
  BY <1>1, <1>3, DoneMeans

\* Of the parts that a page was given, handling m settles that of m alone.
DoneBy(d, m) ==
    \A r \in Remotes : page[r] # Closed => \A p \in Done(r)' :
        \/ p \in Done(r)
        \/ r = d /\ m.name = "part" /\ m.session = page[r] /\ m.part = p

\* Handling a message.
LEMMA HandleSettles ==
    ASSUME Joining, NEW d \in Devices, Handle(d)
    PROVE  DoneBy(d, Head(inbox[d]))
<1> DEFINE m == Head(inbox[d])
<1>1. ASSUME NEW name, Receives(d, name)
      PROVE  /\ m \in Message /\ m.name = name /\ m \in In(d)
             /\ In(Master)' \subseteq In(Master)
  <2>1. /\ m \in Message /\ m.name = name
        /\ \A e \in Devices : e # d => inbox'[e] = inbox[e]
        /\ Taken(inbox[d], inbox'[d], m)
    BY <1>1, ReceiveOne DEF Joining
  <2>2. m \in In(d) /\ In(d)' \subseteq In(d)
    BY <2>1 DEF Taken, In
  <2>3. d # Master => In(Master)' = In(Master)
    BY <2>1, Distinct DEF In
  <2> QED
    BY <2>1, <2>2, <2>3
<1> SUFFICES DoneBy(d, m)
  OBVIOUS
<1> HIDE DEF m
<1>2. ASSUME UNCHANGED <<page, acked, loading>>, \A r \in Remotes : Out(r)' = Out(r),
             In(Master)' \subseteq In(Master)
      PROVE  DoneBy(d, m)
  <2> SUFFICES ASSUME NEW r \in Remotes
               PROVE  Done(r)' \subseteq Done(r)
    BY DEF DoneBy
  <2>1. page'[r] = page[r] /\ acked'[page[r]] = acked[page[r]] /\ loading'[r] = loading[r]
    BY <1>2
  <2>2. Out(r)' \cup In(Master)' \subseteq Out(r) \cup In(Master)
    BY <1>2
  <2> QED
    BY <2>1, <2>2, DoneSame
<1>3. CASE ParseUpdate(d)
  <2>1. In(Master)' \subseteq In(Master)
    BY <1>1, <1>3 DEF ParseUpdate
  <2>2. UNCHANGED <<page, acked, loading>> /\ \A r \in Remotes : Out(r)' = Out(r)
    BY <1>3 DEF ParseUpdate, handshakeVars, Out
  <2> QED
    BY <1>2, <2>1, <2>2
<1>4. CASE d = Master /\ ParseRemoteInfo
  <2>1. In(Master)' \subseteq In(Master)
    BY <1>1, <1>4 DEF ParseRemoteInfo
  <2>2. UNCHANGED <<page, acked, loading>>
    BY <1>4 DEF ParseRemoteInfo, handshakeVars
  <2>3. \A r \in Remotes : out'[r] = out[r]
    BY <1>4, Distinct DEF ParseRemoteInfo, Send, Joining, TypeOK
  <2>4. \A r \in Remotes : Out(r)' = Out(r)
    BY <2>3 DEF Out
  <2> QED
    BY <1>2, <2>1, <2>2, <2>4
<1>5. CASE d = Master /\ ParsePartAck
  <2>1. /\ m \in Message /\ m.name = "partack" /\ m \in In(Master)
        /\ In(Master)' \subseteq In(Master)
    BY <1>1, <1>5 DEF ParsePartAck
  <2>2. /\ acked' = [acked EXCEPT ![m.session] = acked[m.session] \cup {m.part}]
        /\ UNCHANGED <<page, loading>>
    BY <1>5 DEF ParsePartAck, m, Joining, TypeOK
  <2>3. \A r \in Remotes : out'[r] = out[r]
    BY <1>5, Distinct DEF ParsePartAck, Send, Joining, TypeOK
  <2>4. ASSUME NEW r \in Remotes, page[r] # Closed, NEW p \in Done(r)'
        PROVE  p \in Done(r)
    <3>1. page[r] \in Sessions /\ page'[r] = page[r] /\ loading'[r] = loading[r]
      BY <2>2, <2>4 DEF Joining, TypeOK
    <3>2. Out(r)' = Out(r)
      BY <2>3 DEF Out
    <3>3. /\ p \in Parts
          /\ \/ p \in acked'[page[r]] \/ <<page[r], p>> \in loading'[r]
             \/ \E x \in Out(r)' \cup In(Master)' :
                  x.name = "partack" /\ x.from = r /\ x.session = page[r] /\ x.part = p
      BY <2>4, <3>1, DoneMeans
    <3>4. CASE m.session # page[r] \/ p # m.part
      <4>1. p \in acked'[page[r]] => p \in acked[page[r]]
        BY <2>2, <3>1, <3>4 DEF Joining, TypeOK
      <4>2. \/ p \in acked[page[r]] \/ <<page[r], p>> \in loading[r]
            \/ \E x \in Out(r) \cup In(Master) :
                  x.name = "partack" /\ x.from = r /\ x.session = page[r] /\ x.part = p
        BY <2>1, <3>1, <3>2, <3>3, <4>1
      <4> QED
        BY <3>1, <3>3, <4>2, DoneMeans
    <3>5. CASE m.session = page[r] /\ p = m.part
      <4>1. m.from = r
        BY <2>1, <3>5, Distinct DEF Joining, SessionsApart, InSession, PeerOf
      <4> QED
        BY <2>1, <3>1, <3>3, <3>5, <4>1, DoneMeans
    <3> QED
      BY <3>4, <3>5
  <2> QED
    BY <2>4 DEF DoneBy
<1>6. CASE d \in Remotes /\ ParsePart(d)
  <2> DEFINE a == [name |-> "partack", to |-> Master, from |-> d,
                   session |-> m.session, part |-> m.part]
  <2>1. m \in Message /\ m.name = "part" /\ In(Master)' \subseteq In(Master)
    BY <1>1, <1>6 DEF ParsePart
  <2>2. /\ UNCHANGED <<page, acked>>
        /\ \/ /\ loading' = [loading EXCEPT ![d] = loading[d] \cup {<<m.session, m.part>>}]
              /\ UNCHANGED out
           \/ Send(d, <<a>>) /\ UNCHANGED loading
    BY <1>6 DEF ParsePart, m, Settle, Joining, TypeOK
  <2>3. a \in Message /\ a.session = m.session /\ a.part = m.part
    BY <1>6, <2>1, MessageFields DEF Message, PartAck
  <2> HIDE DEF a
  <2>4. /\ \A r \in Remotes : r # d => loading'[r] = loading[r] /\ Out(r)' = Out(r)
        /\ loading'[d] \subseteq loading[d] \cup {<<m.session, m.part>>}
        /\ Out(d)' \subseteq Out(d) \cup {a}
    <3>1. CASE /\ loading' = [loading EXCEPT ![d] = loading[d] \cup {<<m.session, m.part>>}]
               /\ UNCHANGED out
      BY <1>6, <3>1 DEF Joining, TypeOK, Out
    <3>2. CASE Send(d, <<a>>) /\ UNCHANGED loading
      <4>1. /\ \A e \in Devices : e # d => out'[e] = out[e]
            /\ Put(out[d], out'[d], a)
        BY <2>3, <3>2, SendOne DEF Joining
      <4> QED
        BY <3>2, <4>1, Distinct DEF Put, Out
    <3> QED
      BY <2>2, <3>1, <3>2
  <2>5. ASSUME NEW r \in Remotes, page[r] # Closed, r # d
        PROVE  Done(r)' \subseteq Done(r)
    <3>1. /\ page'[r] = page[r] /\ acked'[page[r]] = acked[page[r]]
          /\ loading'[r] = loading[r] /\ Out(r)' = Out(r)
      BY <2>2, <2>4, <2>5
    <3> QED
      BY <2>1, <3>1, DoneSame
  <2>6. CASE page[d] # Closed /\ m.session = page[d]
    <3>1. /\ page'[d] = page[d] /\ acked'[page[d]] = acked[page[d]]
          /\ loading'[d] \subseteq loading[d] \cup {<<page[d], m.part>>}
          /\ \A x \in Out(d)' \cup In(Master)' : x \in Out(d) \cup In(Master) \/ x.part = m.part
      BY <2>1, <2>2, <2>3, <2>4, <2>6
    <3>2. Done(d)' \subseteq Done(d) \cup {m.part}
      BY <1>6, <3>1, DoneKept
    <3> QED
      BY <2>1, <2>5, <2>6, <3>2 DEF DoneBy
  <2>7. CASE page[d] # Closed /\ m.session # page[d]
    <3>1. /\ page'[d] = page[d] /\ acked'[page[d]] = acked[page[d]]
          /\ \A l \in loading'[d] : l[1] = page[d] => l \in loading[d]
          /\ \A x \in Out(d)' \cup In(Master)' :
               x.session = page[d] => x \in Out(d) \cup In(Master)
      BY <2>1, <2>2, <2>3, <2>4, <2>7
    <3>2. Done(d)' \subseteq Done(d)
      BY <1>6, <3>1, DoneSame
    <3> QED
      BY <2>5, <3>2 DEF DoneBy
  <2> QED
    BY <2>5, <2>6, <2>7 DEF DoneBy
<1>7. CASE d \in Remotes /\ ParseInfoAck(d)
  <2>1. In(Master)' \subseteq In(Master)
    BY <1>1, <1>7 DEF ParseInfoAck
  <2>2. UNCHANGED <<page, acked, loading>> /\ \A r \in Remotes : Out(r)' = Out(r)
    BY <1>7 DEF ParseInfoAck, Out
  <2> QED
    BY <1>2, <2>1, <2>2
<1> QED
  BY <1>3, <1>4, <1>5, <1>6, <1>7 DEF Handle

\* A step that gives r no part.
GivesNone(r) == page'[r] = page[r] /\ Done(r)' \subseteq Done(r)

\* Setting an entry, relaying a message and what happens to other pages give no
\* part to a page.
LEMMA OthersGiveNone ==
    ASSUME Joining, NEW r \in Remotes,
           \/ \E d \in Devices, k \in Keys : IsSet(d, k)
           \/ \E d \in Devices, m \in Message : IsRelayed(d, m)
           \/ \E q \in Remotes \ {r} : IsOpened(q) \/ IsClosed(q)
    PROVE  GivesNone(r)
<1>1. ASSUME NEW d \in Devices, NEW k \in Keys, IsSet(d, k)
      PROVE  GivesNone(r)
  <2>1. page' = page /\ acked' = acked /\ loading' = loading /\ In(Master)' = In(Master)
    BY <1>1 DEF IsSet, In
  <2>2. \A x \in Out(r)' : x.name = "partack" => x \in Out(r)
    <3>1. CASE r = d
      BY <1>1, <3>1 DEF IsSet, Put, Out
    <3>2. CASE r # d
      BY <1>1, <3>2, Distinct DEF IsSet, Out
    <3> QED
      BY <3>1, <3>2
  <2> QED
    BY <2>1, <2>2, DoneSame DEF GivesNone
<1>2. ASSUME NEW d \in Devices, NEW m \in Message, IsRelayed(d, m)
      PROVE  GivesNone(r)
  <2>1. page' = page /\ acked' = acked /\ loading' = loading /\ m \in Out(d)
    BY <1>2 DEF IsRelayed
  <2>2. Out(r)' \subseteq Out(r)
    <3>1. CASE r = d
      BY <1>2, <3>1 DEF IsRelayed, Taken, Out
    <3>2. CASE r # d
      BY <1>2, <3>2, Distinct DEF IsRelayed, Out
    <3> QED
      BY <3>1, <3>2
  <2>3. In(Master)' \subseteq In(Master) \cup {m}
    BY <1>2, Distinct DEF IsRelayed, Put, In
  <2>4. m.name = "partack" /\ m.from = r => d = r
    BY <2>1, Distinct DEF Joining, SendsOnly
  <2> QED
    BY <2>1, <2>2, <2>3, <2>4, DoneSame DEF GivesNone
<1>3. ASSUME NEW q \in Remotes, q # r, IsOpened(q) \/ IsClosed(q)
      PROVE  GivesNone(r)
  <2>1. acked' = acked /\ page'[r] = page[r] /\ loading'[r] = loading[r]
    BY <1>3 DEF IsOpened, IsClosed
  <2>2. Out(r)' = Out(r) /\ In(Master)' = In(Master)
    BY <1>3, Distinct DEF IsOpened, IsClosed, Out, In
  <2> QED
    BY <2>1, <2>2, DoneSame DEF GivesNone
<1> QED
  BY <1>1, <1>2, <1>3

\* A script that settles was given before.
LEMMA ScriptGivesNone ==
    ASSUME Joining, NEW q \in Remotes, ScriptSettled(q), NEW r \in Remotes
    PROVE  GivesNone(r)
<1>1. PICK l \in loading[q] : /\ loading' = [loading EXCEPT ![q] = loading[q] \ {l}]
                              /\ Settle(q, l[1], l[2])
  BY DEF ScriptSettled, Joining, TypeOK
<1> DEFINE a == [name |-> "partack", to |-> Master, from |-> q,
                 session |-> l[1], part |-> l[2]]
<1>2. /\ UNCHANGED <<page, acked, inbox>>
      /\ Send(q, <<a>>)
  BY <1>1 DEF ScriptSettled, Settle
<1>3. l[1] \in Sessions /\ l[2] \in Parts /\ l = <<l[1], l[2]>>
  BY <1>1, Distinct DEF Joining, TypeOK
<1>4. a \in Message /\ a.session = l[1] /\ a.part = l[2]
  BY <1>3 DEF Message, PartAck
<1> HIDE DEF a
<1>5. /\ \A e \in Devices : e # q => out'[e] = out[e]
      /\ Put(out[q], out'[q], a)
  BY <1>2, <1>4, SendOne, Distinct DEF Joining
<1>6. loading'[r] \subseteq loading[r]
  BY <1>1 DEF Joining, TypeOK
<1>7. In(Master)' = In(Master)
  BY <1>2 DEF In
<1>8. CASE r = q
  <2>1. Out(r)' = Out(r) \cup {a}
    BY <1>5, <1>8 DEF Put, Out
  <2>2. \A x \in Out(r)' \cup In(Master)' :
              x.name = "partack" /\ x.from = r /\ x.session = page[r]
              => \/ x \in Out(r) \cup In(Master)
                 \/ x.part \in acked[page[r]] \/ <<page[r], x.part>> \in loading[r]
    BY <1>1, <1>3, <1>4, <1>7, <1>8, <2>1
  <2> QED
    BY <1>2, <1>6, <2>2, DoneSame DEF GivesNone
<1>9. CASE r # q
  <2>1. Out(r)' = Out(r)
    BY <1>5, <1>9, Distinct DEF Out
  <2> QED
    BY <1>2, <1>6, <1>7, <2>1, DoneSame DEF GivesNone
<1> QED
  BY <1>8, <1>9

-----------------------------------------------------------------------------
(* The order of the messages of a handshake on their way.                  *)

\* Of the handshake of r, t has no more than s, and in the same order.
Fewer(s, t, r) ==
    /\ \A x \in ToSet(t) : OfHandshake(x, r) => x \in ToSet(s)
    /\ \A x, y : OfHandshake(x, r) /\ OfHandshake(y, r) /\ Precedes(t, x, y) => Precedes(s, x, y)

\* Sequences that have no more.
LEMMA FewerThan ==
    ASSUME NEW r, NEW s, NEW t
    PROVE  /\ s = t => Fewer(s, t, r)
           /\ \A m : Taken(s, t, m) => Fewer(s, t, r)
           /\ \A m : Put(s, t, m) /\ ~OfHandshake(m, r) => Fewer(s, t, r)
           /\ \A u : /\ Joined(s, t, u)
                     /\ \A x \in ToSet(u) : ~OfHandshake(x, r)
                     /\ \A x, y : ~Precedes(u, x, y)
                     => Fewer(s, t, r)
<1>1. s = t => Fewer(s, t, r)
  BY DEF Fewer
<1>2. ASSUME NEW m, Taken(s, t, m)
      PROVE  Fewer(s, t, r)
  BY <1>2 DEF Fewer, Taken
<1>3. ASSUME NEW m, Put(s, t, m), ~OfHandshake(m, r)
      PROVE  Fewer(s, t, r)
  BY <1>3 DEF Fewer, Put
<1>4. ASSUME NEW u, Joined(s, t, u),
             \A x \in ToSet(u) : ~OfHandshake(x, r),
             \A x, y : ~Precedes(u, x, y)
      PROVE  Fewer(s, t, r)
  <2>1. \A x \in ToSet(t) : OfHandshake(x, r) => x \in ToSet(s)
    BY <1>4 DEF Joined
  <2>2. ASSUME NEW x, NEW y, OfHandshake(x, r), OfHandshake(y, r), Precedes(t, x, y)
        PROVE  Precedes(s, x, y)
    <3>1. y \notin ToSet(u)
      BY <1>4, <2>2
    <3> QED
      BY <1>4, <2>2, <3>1 DEF Joined
  <2> QED
    BY <2>1, <2>2 DEF Fewer
<1> QED
  BY <1>1, <1>2, <1>3, <1>4

\* The handshake of r is on the way in the same order, or less of it.
Ordered(r) ==
    /\ \A y \in OnTheWay(r)' : OfHandshake(y, r) => y \in OnTheWay(r)
    /\ \A x, y : OfHandshake(x, r) /\ OfHandshake(y, r) /\ Ahead(r, x, y)' => Ahead(r, x, y)

\* What is in a queue and what is in front of what after a step.
LEMMA AheadAfter ==
    ASSUME NEW r \in Remotes
    PROVE  /\ OnTheWay(r)' = In(r)' \cup Out(Master)' \cup In(Master)' \cup Out(r)'
           /\ \A x, y : Ahead(r, x, y)' <=>
                 \/ Precedes(inbox'[r], x, y) \/ Precedes(out'[Master], x, y)
                 \/ Precedes(inbox'[Master], x, y) \/ Precedes(out'[r], x, y)
                 \/ x \in In(r)' /\ y \in Out(Master)' \cup In(Master)' \cup Out(r)'
                 \/ x \in Out(Master)' /\ y \in In(Master)' \cup Out(r)'
                 \/ x \in In(Master)' /\ y \in Out(r)'
BY DEF OnTheWay, Ahead, Precedes, In, Out

\* When every queue has no more of it.
LEMMA OrderedWhenFewer ==
    ASSUME NEW r \in Remotes,
           Fewer(inbox[r], inbox'[r], r), Fewer(out[Master], out'[Master], r),
           Fewer(inbox[Master], inbox'[Master], r), Fewer(out[r], out'[r], r)
    PROVE  Ordered(r)
<1>1. \A y : OfHandshake(y, r) =>
        /\ y \in In(r)' => y \in In(r)
        /\ y \in Out(Master)' => y \in Out(Master)
        /\ y \in In(Master)' => y \in In(Master)
        /\ y \in Out(r)' => y \in Out(r)
  BY DEF Fewer, In, Out
<1>2. \A x, y : OfHandshake(x, r) /\ OfHandshake(y, r) =>
        /\ Precedes(inbox'[r], x, y) => Precedes(inbox[r], x, y)
        /\ Precedes(out'[Master], x, y) => Precedes(out[Master], x, y)
        /\ Precedes(inbox'[Master], x, y) => Precedes(inbox[Master], x, y)
        /\ Precedes(out'[r], x, y) => Precedes(out[r], x, y)
  BY DEF Fewer
<1>3. \A y \in OnTheWay(r)' : OfHandshake(y, r) => y \in OnTheWay(r)
  BY <1>1, AheadAfter DEF OnTheWay
<1>4. ASSUME NEW x, NEW y, OfHandshake(x, r), OfHandshake(y, r), Ahead(r, x, y)'
      PROVE  Ahead(r, x, y)
  <2>1. \/ Precedes(inbox'[r], x, y) \/ Precedes(out'[Master], x, y)
        \/ Precedes(inbox'[Master], x, y) \/ Precedes(out'[r], x, y)
        \/ x \in In(r)' /\ y \in Out(Master)' \cup In(Master)' \cup Out(r)'
        \/ x \in Out(Master)' /\ y \in In(Master)' \cup Out(r)'
        \/ x \in In(Master)' /\ y \in Out(r)'
    BY <1>4, AheadAfter
  <2> QED
    BY <1>1, <1>2, <1>4, <2>1 DEF Ahead
<1> QED
  BY <1>3, <1>4 DEF Ordered

\* What it means that a handshake is in order before a step and after it.
LEMMA OrderMeans ==
    ASSUME NEW r \in Remotes, page'[r] = page[r], page[r] # Closed
    PROVE  /\ HandshakeOrder(r) <=>
                /\ \A x, y \in OnTheWay(r) :
                     Ahead(r, x, y) /\ OfHandshake(x, r) /\ OfHandshake(y, r)
                     /\ x.session = page[r]
                     => x.name = "part" /\ ComesAfter(y, r, x.part)
                /\ \A p \in Done(r), y \in OnTheWay(r) :
                     OfHandshake(y, r) => ComesAfter(y, r, p)
           /\ HandshakeOrder(r)' <=>
                /\ \A x, y \in OnTheWay(r)' :
                     Ahead(r, x, y)' /\ OfHandshake(x, r) /\ OfHandshake(y, r)
                     /\ x.session = page[r]
                     => x.name = "part" /\ ComesAfter(y, r, x.part)
                /\ \A p \in Done(r)', y \in OnTheWay(r)' :
                     OfHandshake(y, r) => ComesAfter(y, r, p)
BY DEF HandshakeOrder, ComesAfter, OfHandshake

\* Such a step keeps the order.
LEMMA OrderKept ==
    ASSUME Joining, NEW r \in Remotes, HandshakeOrder(r), Ordered(r), GivesNone(r)
    PROVE  HandshakeOrder(r)'
<1>1. CASE page[r] = Closed
  BY <1>1 DEF HandshakeOrder, GivesNone
<1>2. CASE page[r] # Closed
  <2>1. page'[r] = page[r] /\ Done(r)' \subseteq Done(r)
    BY DEF GivesNone
  <2>2. \A x, y : Ahead(r, x, y) => x \in OnTheWay(r) /\ y \in OnTheWay(r)
    BY InQueues, Distinct DEF Joining, Ahead, OnTheWay
  <2>3. ASSUME NEW x, NEW y, Ahead(r, x, y)', OfHandshake(x, r), OfHandshake(y, r),
               x.session = page[r]
        PROVE  x.name = "part" /\ ComesAfter(y, r, x.part)
    BY <1>2, <2>1, <2>2, <2>3, OrderMeans DEF Ordered
  <2>4. ASSUME NEW p \in Done(r)', NEW y \in OnTheWay(r)', OfHandshake(y, r)
        PROVE  ComesAfter(y, r, p)
    BY <1>2, <2>1, <2>4, OrderMeans DEF Ordered
  <2> QED
    BY <1>2, <2>1, <2>3, <2>4, OrderMeans
<1> QED
  BY <1>1, <1>2

\* A message of the handshake is relayed.
LEMMA OrderedRelay ==
    ASSUME Joining, NEW r \in Remotes, NEW d \in Devices, NEW m \in Message, IsRelayed(d, m)
    PROVE  Ordered(r)
<1>1. /\ m \in Out(d) /\ Taken(out[d], out'[d], m)
      /\ \A e \in Devices : e # d => out'[e] = out[e]
      /\ \A e \in Devices :
           /\ Reaches(d, m, e) => Put(inbox[e], inbox'[e], m)
           /\ ~Reaches(d, m, e) => inbox'[e] = inbox[e]
  BY DEF IsRelayed
<1>2. r \in Devices /\ Master \in Devices /\ r # Master
  BY Distinct
<1>3. Fewer(out[Master], out'[Master], r) /\ Fewer(out[r], out'[r], r)
  <2>1. \A e \in Devices : Fewer(out[e], out'[e], r)
    BY <1>1, FewerThan
  <2> QED
    BY <1>2, <2>1
<1>4. CASE ~OfHandshake(m, r)
  <2>1. \A e \in Devices : Fewer(inbox[e], inbox'[e], r)
    BY <1>1, <1>4, FewerThan
  <2> QED
    BY <1>2, <1>3, <2>1, OrderedWhenFewer
<1>5. CASE ~Reaches(d, m, r) /\ ~Reaches(d, m, Master)
  <2>1. inbox'[r] = inbox[r] /\ inbox'[Master] = inbox[Master]
    BY <1>1, <1>2, <1>5
  <2> QED
    BY <1>3, <2>1, FewerThan, OrderedWhenFewer
<1>6. CASE OfHandshake(m, r) /\ m.name = "remoteinfo" /\ Reaches(d, m, Master)
  <2>1. d = r
    BY <1>1, <1>6, Distinct DEF OfHandshake, Joining, SendsOnly
  <2>2. ~Reaches(d, m, r)
    BY <1>1, <1>2, <1>6, MessageFields, RelayedTo
  <2>3. /\ In(r)' = In(r) /\ inbox'[r] = inbox[r]
        /\ Out(Master)' = Out(Master) /\ out'[Master] = out[Master]
        /\ Put(inbox[Master], inbox'[Master], m) /\ In(Master)' = In(Master) \cup {m}
        /\ Out(r) = Out(r)' \cup {m} /\ Taken(out[r], out'[r], m)
    BY <1>1, <1>2, <1>6, <2>1, <2>2 DEF In, Out, Put, Taken
  <2>4. \A y \in OnTheWay(r)' : y \in OnTheWay(r)
    BY <2>3, AheadAfter DEF OnTheWay
  <2>5. ASSUME NEW x, NEW y, Ahead(r, x, y)'
        PROVE  Ahead(r, x, y)
    <3>1. CASE Precedes(inbox'[Master], x, y)
      <4>1. Precedes(inbox[Master], x, y) \/ (x \in In(Master) /\ y = m)
        BY <2>3, <3>1 DEF Put, In
      <4> QED
        BY <2>3, <4>1 DEF Ahead
    <3>2. CASE Precedes(out'[r], x, y)
      BY <2>3, <3>2 DEF Taken, Ahead
    <3>3. CASE x \in In(Master)' /\ y \in Out(r)'
      <4>1. x = m => Precedes(out[r], x, y)
        BY <2>3, <3>3 DEF Taken, Out
      <4> QED
        BY <2>3, <3>3, <4>1 DEF Ahead
    <3>4. CASE \/ Precedes(inbox'[r], x, y) \/ Precedes(out'[Master], x, y)
               \/ x \in In(r)' /\ y \in Out(Master)' \cup In(Master)' \cup Out(r)'
               \/ x \in Out(Master)' /\ y \in In(Master)' \cup Out(r)'
      BY <2>3, <3>4 DEF Ahead
    <3> QED
      BY <2>5, <3>1, <3>2, <3>3, <3>4, AheadAfter
  <2> QED
    BY <2>4, <2>5 DEF Ordered
<1>7. CASE OfHandshake(m, r) /\ m.name = "part" /\ Reaches(d, m, r)
  <2>1. d = Master
    BY <1>1, <1>7, Distinct DEF OfHandshake, Joining, SendsOnly
  <2>2. ~Reaches(d, m, Master)
    BY <1>1, <1>2, <1>7, MessageFields, RelayedTo
  <2>3. /\ In(Master)' = In(Master) /\ inbox'[Master] = inbox[Master]
        /\ Out(r)' = Out(r) /\ out'[r] = out[r]
        /\ Put(inbox[r], inbox'[r], m) /\ In(r)' = In(r) \cup {m}
        /\ Out(Master) = Out(Master)' \cup {m} /\ Taken(out[Master], out'[Master], m)
    BY <1>1, <1>2, <1>7, <2>1, <2>2 DEF In, Out, Put, Taken
  <2>4. \A y \in OnTheWay(r)' : y \in OnTheWay(r)
    BY <2>3, AheadAfter DEF OnTheWay
  <2>5. ASSUME NEW x, NEW y, Ahead(r, x, y)'
        PROVE  Ahead(r, x, y)
    <3>1. CASE Precedes(inbox'[r], x, y)
      <4>1. Precedes(inbox[r], x, y) \/ (x \in In(r) /\ y = m)
        BY <2>3, <3>1 DEF Put, In
      <4> QED
        BY <2>3, <4>1 DEF Ahead
    <3>2. CASE Precedes(out'[Master], x, y)
      BY <2>3, <3>2 DEF Taken, Ahead
    <3>3. CASE x \in In(r)' /\ y \in Out(Master)'
      <4>1. x = m => Precedes(out[Master], x, y)
        BY <2>3, <3>3 DEF Taken, Out
      <4> QED
        BY <2>3, <3>3, <4>1 DEF Ahead
    <3>4. CASE \/ Precedes(inbox'[Master], x, y) \/ Precedes(out'[r], x, y)
               \/ x \in In(r)' /\ y \in In(Master)' \cup Out(r)'
               \/ x \in Out(Master)' /\ y \in In(Master)' \cup Out(r)'
               \/ x \in In(Master)' /\ y \in Out(r)'
      BY <2>3, <3>4 DEF Ahead
    <3> QED
      BY <2>5, <3>1, <3>2, <3>3, <3>4, AheadAfter
  <2> QED
    BY <2>4, <2>5 DEF Ordered
<1>8. OfHandshake(m, r) /\ Reaches(d, m, r) => m.name = "part"
  BY <1>1, <1>2, MessageFields, RelayedTo DEF OfHandshake
<1>9. OfHandshake(m, r) /\ Reaches(d, m, Master) => m.name = "remoteinfo"
  BY <1>1, <1>2, MessageFields, RelayedTo DEF OfHandshake
<1> QED
  BY <1>4, <1>5, <1>6, <1>7, <1>8, <1>9

\* An entry is set, a script settles, or another page opens or closes.
LEMMA OrderedOthers ==
    ASSUME Joining, NEW r \in Remotes,
           \/ \E d \in Devices, k \in Keys : IsSet(d, k)
           \/ \E q \in Remotes : \E a : IsSettled(q, a)
           \/ \E q \in Remotes \ {r} : IsOpened(q) \/ IsClosed(q)
    PROVE  Ordered(r)
<1>1. r \in Devices /\ Master \in Devices /\ r # Master
  BY Distinct
<1>2. ASSUME NEW d \in Devices, NEW m, ~OfHandshake(m, r), Put(out[d], out'[d], m),
             \A e \in Devices : e # d => out'[e] = out[e], inbox' = inbox
      PROVE  Ordered(r)
  <2>1. \A e \in Devices : Fewer(out[e], out'[e], r) /\ Fewer(inbox[e], inbox'[e], r)
    BY <1>2, FewerThan
  <2> QED
    BY <1>1, <2>1, OrderedWhenFewer
<1>3. ASSUME NEW d \in Devices, NEW k \in Keys, IsSet(d, k)
      PROVE  Ordered(r)
  <2>1. ~OfHandshake(NewUpdate(k), r)
    BY <1>3 DEF IsSet, OfHandshake
  <2> QED
    BY <1>2, <1>3, <2>1 DEF IsSet
<1>4. ASSUME NEW q \in Remotes, NEW a, IsSettled(q, a)
      PROVE  Ordered(r)
  <2>1. ~OfHandshake(a, r)
    BY <1>4 DEF IsSettled, IsAck, OfHandshake
  <2> QED
    BY <1>1, <1>2, <1>4, <2>1, Distinct DEF IsSettled
<1>5. ASSUME NEW q \in Remotes \ {r}, IsOpened(q) \/ IsClosed(q)
      PROVE  Ordered(r)
  <2>1. /\ inbox'[r] = inbox[r] /\ inbox'[Master] = inbox[Master]
        /\ out'[r] = out[r] /\ out'[Master] = out[Master]
    BY <1>1, <1>5, Distinct DEF IsOpened, IsClosed
  <2> QED
    BY <2>1, FewerThan, OrderedWhenFewer
<1> QED
  BY <1>3, <1>4, <1>5

\* A message is handled that is no remoteinfo of r.
LEMMA OrderedHandle ==
    ASSUME Joining, NEW r \in Remotes, NEW d \in Devices, NEW m, NEW u, IsHandled(d, m, u),
           ~(m.name = "remoteinfo" /\ m.from = r)
    PROVE  Ordered(r)
<1>1. r \in Devices /\ Master \in Devices /\ r # Master
  BY Distinct
<1>2. \A e \in Devices : Fewer(inbox[e], inbox'[e], r)
  BY FewerThan DEF IsHandled
<1>3. m.name = "remoteinfo" => m.from # r
  OBVIOUS
<1>4. \A e \in Devices : Fewer(out[e], out'[e], r)
  <2>1. \A e \in Devices : e # d => Fewer(out[e], out'[e], r)
    BY FewerThan DEF IsHandled
  <2>2. Joined(out[d], out'[d], u)
    BY DEF IsHandled
  <2>3. CASE (\A x \in ToSet(u) : IsAck(x)) /\ \A x, y : ~Precedes(u, x, y)
    <3>1. \A x \in ToSet(u) : ~OfHandshake(x, r)
      BY <2>3 DEF IsAck, OfHandshake
    <3> QED
      BY <2>1, <2>2, <2>3, <3>1, FewerThan
  <2>4. CASE d = Master /\ m.name = "remoteinfo" /\ u = Batch(m.from, m.session)
    <3>1. \A x \in ToSet(u) : ~OfHandshake(x, r)
      BY <1>3, <2>4, BatchValues DEF OfHandshake, IsHandled
    <3>2. \A x, y : Precedes(out'[d], x, y) /\ OfHandshake(y, r) => Precedes(out[d], x, y)
      <4>1. \A x, y : Precedes(u, x, y) => y \in ToSet(u)
        BY <2>4, BatchValues DEF IsHandled
      <4> QED
        BY <2>2, <3>1, <4>1 DEF Joined
    <3>3. \A x \in ToSet(out'[d]) : OfHandshake(x, r) => x \in ToSet(out[d])
      BY <2>2, <3>1 DEF Joined
    <3> QED
      BY <2>1, <3>2, <3>3 DEF Fewer
  <2> QED
    BY <2>3, <2>4 DEF IsHandled
<1> QED
  BY <1>1, <1>2, <1>4, OrderedWhenFewer

\* The master answers the remoteinfo of r.
LEMMA OrderMaster ==
    ASSUME Joining, NEW r \in Remotes, NEW m, NEW u, IsHandled(Master, m, u),
           m.name = "remoteinfo", m.from = r, HandshakeOrder(r), GivesNone(r)
    PROVE  HandshakeOrder(r)'
<1>1. CASE page[r] = Closed
  BY <1>1 DEF HandshakeOrder, GivesNone
<1> SUFFICES ASSUME page[r] # Closed
             PROVE  HandshakeOrder(r)'
  BY <1>1
<1>2. page'[r] = page[r] /\ Done(r)' \subseteq Done(r)
  BY DEF GivesNone
<1>3. m \in Message /\ m \in In(Master) /\ m \in OnTheWay(r) /\ OfHandshake(m, r)
  BY DEF IsHandled, OnTheWay, OfHandshake
<1>4. /\ \A x, y \in OnTheWay(r) :
           Ahead(r, x, y) /\ OfHandshake(x, r) /\ OfHandshake(y, r)
           /\ x.session = page[r]
           => x.name = "part" /\ ComesAfter(y, r, x.part)
      /\ \A p \in Done(r), y \in OnTheWay(r) :
           OfHandshake(y, r) => ComesAfter(y, r, p)
  BY <1>2, OrderMeans
<1>5. /\ u = Batch(m.from, m.session)
      /\ Joined(out[Master], out'[Master], u) /\ Taken(inbox[Master], inbox'[Master], m)
      /\ inbox'[r] = inbox[r] /\ out'[r] = out[r]
  BY Distinct DEF IsHandled
<1>6. /\ Out(Master)' = Out(Master) \cup ToSet(u)
      /\ In(Master)' \subseteq In(Master)
      /\ In(r)' = In(r) /\ Out(r)' = Out(r)
  BY <1>5 DEF Joined, Taken, In, Out
<1>7. /\ \A x \in ToSet(u) : /\ x.name = "part" /\ x.session = m.session
                             /\ OfHandshake(x, r)
      /\ \A x, y : Precedes(u, x, y) => x \in ToSet(u) /\ y \in ToSet(u) /\ x.part # y.part
  <2> DEFINE b == Batch(m.from, m.session)
  <2>1. ASSUME NEW x \in ToSet(b)
        PROVE  x.name = "part" /\ x.session = m.session /\ x.to = m.from
    BY <1>3, <2>1, BatchValues
  <2>3. ASSUME NEW x, NEW y, Precedes(b, x, y)
        PROVE  x \in ToSet(b) /\ y \in ToSet(b) /\ x.part # y.part
    <3>1. LET v == Batch(m.from, m.session) IN
          \A p, q : Precedes(v, p, q) =>
            p \in ToSet(v) /\ q \in ToSet(v) /\ p.part # q.part /\ ~(IsData(p) /\ IsData(q))
      BY <1>3, BatchValues
    <3> QED
      BY <2>3, <3>1
  <2>2. u = b
    BY <1>5
  <2> HIDE DEF b
  <2> QED
    BY <2>1, <2>2, <2>3 DEF OfHandshake
<1>8. Done(r) = {}
  BY <1>3, <1>4 DEF ComesAfter
<1>9. ASSUME NEW x \in In(r) \cup Out(Master), OfHandshake(x, r)
      PROVE  x.session # page[r]
  <2>1. Ahead(r, x, m) /\ x \in OnTheWay(r)
    BY <1>3, <1>9 DEF Ahead, OnTheWay
  <2> QED
    BY <1>3, <1>4, <1>9, <2>1 DEF ComesAfter
<1>10. ASSUME NEW y \in In(Master)' \cup Out(r), OfHandshake(y, r), m.session = page[r]
       PROVE  FALSE
  <2>1. Ahead(r, m, y) /\ y \in OnTheWay(r)
    BY <1>3, <1>5, <1>6, <1>10 DEF Ahead, OnTheWay, Taken, In
  <2> QED
    BY <1>3, <1>4, <1>10, <2>1
<1>11. \A x, y : Ahead(r, x, y) => x \in OnTheWay(r) /\ y \in OnTheWay(r)
  BY InQueues, Distinct DEF Joining, Ahead, OnTheWay
<1>12. ASSUME NEW x, NEW y, Ahead(r, x, y)', OfHandshake(x, r), OfHandshake(y, r),
              x.session = page[r]
       PROVE  x.name = "part" /\ ComesAfter(y, r, x.part)
  <2>1. CASE Ahead(r, x, y)
    BY <1>4, <1>11, <1>12, <2>1
  <2>2. CASE Precedes(out'[Master], x, y)
    <3>1. CASE Precedes(out[Master], x, y)
      BY <2>1, <3>1 DEF Ahead
    <3>2. CASE Precedes(u, x, y)
      <4>1. x.name = "part" /\ y.name = "part" /\ y.session = page[r] /\ y.part # x.part
        BY <1>7, <1>12, <3>2
      <4> QED
        BY <4>1 DEF ComesAfter
    <3>3. CASE x \in Out(Master) /\ y \in ToSet(u)
      BY <1>9, <1>12, <3>3
    <3> QED
      BY <1>5, <2>2, <3>1, <3>2, <3>3 DEF Joined, Out
  <2>3. CASE x \in In(r)' /\ y \in Out(Master)' \cup In(Master)' \cup Out(r)'
    BY <1>6, <1>9, <1>12, <2>3
  <2>4. CASE x \in Out(Master)' /\ y \in In(Master)' \cup Out(r)'
    BY <1>6, <1>7, <1>9, <1>10, <1>12, <2>4
  <2>5. CASE \/ Precedes(inbox'[r], x, y) \/ Precedes(inbox'[Master], x, y)
             \/ Precedes(out'[r], x, y) \/ (x \in In(Master)' /\ y \in Out(r)')
    <3>1. Ahead(r, x, y)
      BY <1>5, <1>6, <2>5 DEF Ahead, Taken
    <3> QED
      BY <2>1, <3>1
  <2> QED
    BY <1>12, <2>2, <2>3, <2>4, <2>5, AheadAfter
<1> QED
  BY <1>2, <1>8, <1>12, OrderMeans

\* The page of r is given a part.
LEMMA OrderPart ==
    ASSUME Joining, NEW r \in Remotes, NEW m, NEW u, IsHandled(r, m, u),
           m.name = "part", m.session = page[r], page[r] # Closed, HandshakeOrder(r),
           page'[r] = page[r], Done(r)' \subseteq Done(r) \cup {m.part}
    PROVE  HandshakeOrder(r)'
<1>1. r # Master /\ r \in Devices
  BY Distinct
<1>2. Ordered(r)
  BY <1>1, OrderedHandle
<1>3. /\ \A x, y \in OnTheWay(r) :
           Ahead(r, x, y) /\ OfHandshake(x, r) /\ OfHandshake(y, r)
           /\ x.session = page[r]
           => x.name = "part" /\ ComesAfter(y, r, x.part)
      /\ \A p \in Done(r), y \in OnTheWay(r) :
           OfHandshake(y, r) => ComesAfter(y, r, p)
  BY OrderMeans
<1>4. \A x, y : Ahead(r, x, y) => x \in OnTheWay(r) /\ y \in OnTheWay(r)
  BY InQueues, Distinct DEF Joining, Ahead, OnTheWay
<1>5. /\ m \in In(r) /\ m \in OnTheWay(r) /\ Taken(inbox[r], inbox'[r], m)
      /\ inbox'[Master] = inbox[Master] /\ out'[Master] = out[Master]
      /\ Joined(out[r], out'[r], u) /\ m.name # "remoteinfo"
      /\ \A x \in ToSet(u) : IsAck(x)
  BY <1>1, Distinct DEF IsHandled, OnTheWay
<1>6. OfHandshake(m, r)
  BY <1>5 DEF Joining, GetsOnly, OfHandshake
<1>7. ASSUME NEW y \in OnTheWay(r)', OfHandshake(y, r)
      PROVE  Ahead(r, m, y)
  <2>1. CASE y \in In(r)'
    BY <1>5, <2>1 DEF Taken, In, Ahead
  <2>2. CASE y \in Out(Master)' \cup In(Master)'
    BY <1>5, <2>2 DEF Out, In, Ahead
  <2>3. CASE y \in Out(r)'
    <3>1. y \notin ToSet(u)
      BY <1>5, <1>7 DEF IsAck, OfHandshake
    <3>2. y \in Out(r)
      BY <1>5, <2>3, <3>1 DEF Joined, Out
    <3> QED
      BY <1>5, <3>2 DEF Ahead
  <2> QED
    BY <1>7, <2>1, <2>2, <2>3, AheadAfter
<1>8. ASSUME NEW y \in OnTheWay(r)', OfHandshake(y, r), NEW p \in Done(r)'
      PROVE  ComesAfter(y, r, p)
  <2>1. y \in OnTheWay(r)
    BY <1>2, <1>8 DEF Ordered
  <2>2. CASE p \in Done(r)
    BY <1>3, <1>8, <2>1, <2>2
  <2>3. CASE p = m.part
    BY <1>3, <1>5, <1>6, <1>7, <1>8, <2>1, <2>3
  <2> QED
    BY <2>2, <2>3
<1>9. ASSUME NEW x, NEW y, Ahead(r, x, y)', OfHandshake(x, r), OfHandshake(y, r),
             x.session = page[r]
      PROVE  x.name = "part" /\ ComesAfter(y, r, x.part)
  BY <1>2, <1>3, <1>4, <1>9 DEF Ordered
<1> QED
  BY <1>8, <1>9, OrderMeans

\* A page that opens has been given nothing, and nothing of its session is on
\* the way but its greeting.
LEMMA OrderOpen ==
    ASSUME Joining, NEW r \in Remotes, IsOpened(r)
    PROVE  HandshakeOrder(r)'
<1> DEFINE s == opened + 1
<1>1. /\ page'[r] = s /\ s \in Sessions /\ opened \in Nat
      /\ out'[r] = Greeting(r, s) /\ Out(r)' = {Hello, Info(r, s)}
      /\ inbox' = inbox /\ acked' = acked /\ loading[r] = {} /\ loading'[r] = {}
      /\ out'[Master] = out[Master]
  <2>1. /\ page'[r] = s /\ s \in Sessions
        /\ out'[r] = Greeting(r, s) /\ Out(r)' = {Hello, Info(r, s)}
        /\ inbox' = inbox /\ acked' = acked /\ loading[r] = {} /\ loading' = loading
        /\ \A e \in Devices : e # r => out'[e] = out[e]
    BY DEF IsOpened
  <2>2. opened \in Nat /\ Master \in Devices /\ Master # r
    BY Distinct DEF Joining, TypeOK
  <2> QED
    BY <2>1, <2>2
<1>3. ~(s <= opened)
  BY <1>1
<1> HIDE DEF s
<1>2. /\ Hello.name = "identification" /\ Info(r, s).name = "remoteinfo"
      /\ ~OfHandshake(Hello, r)
  <2>1. Hello.name = "identification" /\ Info(r, s).name = "remoteinfo"
    BY <1>1, GreetingIs
  <2> QED
    BY <2>1 DEF OfHandshake
<1>4. \A d \in Devices : \A m \in Out(d) \cup In(d) : m.name \in InSession => m.session # s
  BY <1>3 DEF Joining, SessionsApart
<1>5. acked[s] = {}
  BY <1>1, <1>3 DEF Joining, SessionsApart
<1>6. /\ Out(Master)' = Out(Master) /\ In(Master)' = In(Master) /\ In(r)' = In(r)
  BY <1>1 DEF In, Out
<1>7. ASSUME NEW p \in Done(r)'
      PROVE  FALSE
  <2>1. \/ p \in acked'[page'[r]] \/ <<page'[r], p>> \in loading'[r]
        \/ \E x \in Out(r)' \cup In(Master)' : x.name = "partack" /\ x.session = page'[r]
    BY <1>7 DEF Done
  <2>2. PICK x \in Out(r)' \cup In(Master)' : x.name = "partack" /\ x.session = s
    BY <1>1, <1>5, <2>1
  <2>3. x \in In(Master)
    BY <1>1, <1>2, <1>6, <2>2
  <2> QED
    BY <1>4, <2>2, <2>3, Distinct DEF InSession
<1>8. ASSUME NEW x, NEW y, Ahead(r, x, y)', OfHandshake(x, r), OfHandshake(y, r), x.session = s
      PROVE  FALSE
  <2>1. x \notin Out(Master) \cup In(Master) \cup In(r)
    BY <1>4, <1>8, Distinct DEF OfHandshake, InSession
  <2>2. \/ Precedes(inbox'[r], x, y) \/ Precedes(out'[Master], x, y)
        \/ Precedes(inbox'[Master], x, y) \/ Precedes(out'[r], x, y)
        \/ x \in In(r)' /\ y \in Out(Master)' \cup In(Master)' \cup Out(r)'
        \/ x \in Out(Master)' /\ y \in In(Master)' \cup Out(r)'
        \/ x \in In(Master)' /\ y \in Out(r)'
    BY <1>8, AheadAfter
  <2>3. ~Precedes(inbox[r], x, y) /\ ~Precedes(out[Master], x, y) /\ ~Precedes(inbox[Master], x, y)
    BY <2>1, InQueues, Distinct DEF Joining
  <2>4. Precedes(Greeting(r, s), x, y)
    BY <1>1, <1>6, <2>1, <2>2, <2>3
  <2>5. x = Hello
    BY <1>1, <2>4, GreetingOrder
  <2> QED
    BY <1>2, <1>8, <2>5
<1> QED
  BY <1>1, <1>7, <1>8 DEF HandshakeOrder

\* The handshakes stay in order.
LEMMA StepHandshakes ==
    ASSUME Joining, HandshakesInOrder, [Next]_vars
    PROVE  HandshakesInOrder'
<1> SUFFICES ASSUME NEW r \in Remotes
             PROVE  HandshakeOrder(r)'
  BY DEF HandshakesInOrder
<1>1. HandshakeOrder(r) /\ r \in Devices /\ r # Master
  BY Distinct DEF HandshakesInOrder
<1>2. ASSUME NEW d \in Devices, NEW k \in Keys, Set(d, k)
      PROVE  HandshakeOrder(r)'
  <2>1. IsSet(d, k)
    BY <1>2, SetDoes
  <2> QED
    BY <1>1, <2>1, OthersGiveNone, OrderedOthers, OrderKept
<1>3. ASSUME NEW d \in Devices, Relay(d)
      PROVE  HandshakeOrder(r)'
  <2>1. PICK m \in Message : IsRelayed(d, m)
    BY <1>3, RelayDoes DEF IsRelayed
  <2> QED
    BY <1>1, <2>1, OthersGiveNone, OrderedRelay, OrderKept
<1>4. ASSUME NEW d \in Devices, Handle(d)
      PROVE  HandshakeOrder(r)'
  <2> DEFINE m == Head(inbox[d])
  <2>1. PICK u : IsHandled(d, m, u)
    BY <1>4, HandleDoes
  <2>2. DoneBy(d, m)
    BY <1>4, HandleSettles
  <2> HIDE DEF m
  <2>3. page' = page
    BY <2>1 DEF IsHandled
  <2>4. CASE page[r] = Closed
    BY <2>3, <2>4 DEF HandshakeOrder
  <2>5. CASE page[r] # Closed /\ r = d /\ m.name = "part" /\ m.session = page[r]
    <3>1. Done(r)' \subseteq Done(r) \cup {m.part}
      BY <2>2, <2>5 DEF DoneBy
    <3> QED
      BY <1>1, <2>1, <2>3, <2>5, <3>1, OrderPart
  <2>6. CASE page[r] # Closed /\ ~(r = d /\ m.name = "part" /\ m.session = page[r])
    <3>1. GivesNone(r)
      BY <2>2, <2>3, <2>6 DEF DoneBy, GivesNone
    <3>2. CASE m.name = "remoteinfo" /\ m.from = r
      <4>1. d = Master
        BY <2>1, <3>2, Distinct DEF IsHandled, Joining, GetsOnly
      <4> QED
        BY <1>1, <2>1, <3>1, <3>2, <4>1, OrderMaster
    <3>3. CASE ~(m.name = "remoteinfo" /\ m.from = r)
      BY <1>1, <2>1, <3>1, <3>3, OrderedHandle, OrderKept
    <3> QED
      BY <3>2, <3>3
  <2> QED
    BY <2>4, <2>5, <2>6
<1>5. ASSUME NEW q \in Remotes, ScriptSettled(q)
      PROVE  HandshakeOrder(r)'
  <2>1. PICK a : IsSettled(q, a)
    BY <1>5, ScriptDoes
  <2> QED
    BY <1>1, <1>5, <2>1, ScriptGivesNone, OrderedOthers, OrderKept
<1>6. ASSUME NEW q \in Remotes, OpenPage(q) \/ ClosePage(q)
      PROVE  HandshakeOrder(r)'
  <2>1. IsOpened(q) \/ IsClosed(q)
    BY <1>6, OpenDoes, CloseDoes
  <2>2. CASE q # r
    BY <1>1, <2>1, <2>2, OthersGiveNone, OrderedOthers, OrderKept
  <2>3. CASE q = r /\ IsOpened(q)
    BY <2>3, OrderOpen
  <2>4. CASE q = r /\ IsClosed(q)
    BY <2>4 DEF IsClosed, HandshakeOrder
  <2> QED
    BY <2>1, <2>2, <2>3, <2>4
<1>7. CASE UNCHANGED vars
  BY <1>1, <1>7 DEF vars, handshakeVars, storeVars, channels, HandshakeOrder, OnTheWay, Ahead,
                    Done, ComesAfter, Precedes, In, Out
<1> QED
  BY <1>2, <1>3, <1>4, <1>5, <1>6, <1>7 DEF Next

\* In every reachable state.
THEOREM AlwaysInOrder == Spec => []HandshakesInOrder
<1>1. Init => HandshakesInOrder
  BY DEF Init, HandshakesInOrder, HandshakeOrder
<1>2. Joining /\ HandshakesInOrder /\ [Next]_vars => HandshakesInOrder'
  BY StepHandshakes
<1> QED
  BY <1>1, <1>2, AlwaysJoining, PTL DEF Spec

\* A page that is ready is sent no more parts.
LEMMA ReadyHasNoHandshake ==
    ASSUME Joining, HandshakesInOrder, NEW r \in ready
    PROVE  \A y \in OnTheWay(r) : ~OfHandshake(y, r)
<1>1. r \in Remotes /\ page[r] # Closed /\ acked[page[r]] = Parts
  BY DEF Joining, TypeOK, AcksAreEarned
<1>2. Done(r) = Parts
  BY <1>1 DEF Done
<1> SUFFICES ASSUME NEW y \in OnTheWay(r), OfHandshake(y, r)
             PROVE  FALSE
  OBVIOUS
<1>3. \A p \in Parts : ComesAfter(y, r, p)
  BY <1>1, <1>2 DEF HandshakesInOrder, HandshakeOrder
<1>4. y.name = "part" /\ y.part \notin Parts
  BY <1>3, Distinct DEF ComesAfter
<1>5. y \in Message
  BY <1>1, InQueues, Distinct DEF Joining, OnTheWay
<1> QED
  BY <1>4, <1>5, MessageFields

-----------------------------------------------------------------------------
(* The entries that a remote sets: the steps.                              *)

\* Where the values of k come from in a step, when its writer w sets nothing.
Spreads(k, w) ==
    /\ \A u \in Out(w)' : IsUpdate(u, k) =>
         u \in Out(w) /\ \A m : Precedes(out'[w], m, u) => Precedes(out[w], m, u)
    /\ \A d \in Devices : d # w =>
         /\ \/ data'[d][k] \in {Unset, data[d][k]}
            \/ \E m \in In(d) : data'[d][k] = Value(m, k)
         /\ \A m \in Out(d)' : m \in Out(d) \/ Value(m, k) \in {Unset, data[Master][k]}
    /\ \A d \in Devices : \A m \in In(d)' :
         \/ m \in In(d) \/ Value(m, k) = Unset
         \/ \E e \in Devices : e # w /\ m \in Out(e)
         \/ m \in Out(w) /\ \A u \in Out(w)' : Precedes(out[w], m, u)

\* Where the updates of k come from in a step.
Arrives(k, w) ==
    \A d \in Devices : \A u \in In(d)' : IsUpdate(u, k) =>
        \/ /\ u \in In(d)
           /\ \A m : Precedes(inbox'[d], m, u) => Precedes(inbox[d], m, u)
           /\ \/ data'[d][k] = data[d][k]
              \/ \E m : Precedes(inbox[d], m, u) /\ data'[d][k] = Value(m, k)
        \/ /\ u \in Out(w) /\ d # w
           /\ data'[d][k] = data[d][k]
           /\ \A m : Precedes(inbox'[d], m, u) => m \in In(d)

\* What it means before a step and after it.
LEMMA NewestMeans ==
    ASSUME NEW k \in Keys, NEW w \in Remotes
    PROVE  /\ Newest(k, w)' <=>
                \A u \in Out(w)' : IsUpdate(u, k) =>
                    /\ \A d \in Devices : d # w =>
                         data'[d][k] < u.value /\ \A m \in Out(d)' : Value(m, k) < u.value
                    /\ \A d \in Devices : \A m \in In(d)' : Value(m, k) < u.value
                    /\ \A m \in Out(w)' : Precedes(out'[w], m, u) => Value(m, k) < u.value
           /\ InTurn(k)' <=>
                \A d \in Devices : \A u \in In(d)' : IsUpdate(u, k) =>
                    /\ data'[d][k] < u.value
                    /\ \A m \in In(d)' : Precedes(inbox'[d], m, u) => Value(m, k) < u.value
BY DEF Newest, InTurn, IsUpdate, Value, Precedes

\* A step that spreads the values keeps the updates newest.
LEMMA NewestKept ==
    ASSUME Joining, NEW k \in Keys, NEW w \in Remotes, Newest(k, w), Spreads(k, w)
    PROVE  Newest(k, w)'
<1> SUFFICES ASSUME NEW u \in Out(w)', IsUpdate(u, k)
             PROVE  /\ \A d \in Devices : d # w =>
                         data'[d][k] < u.value /\ \A m \in Out(d)' : Value(m, k) < u.value
                    /\ \A d \in Devices : \A m \in In(d)' : Value(m, k) < u.value
                    /\ \A m \in Out(w)' : Precedes(out'[w], m, u) => Value(m, k) < u.value
  BY NewestMeans
<1>1. u \in Out(w) /\ \A m : Precedes(out'[w], m, u) => Precedes(out[w], m, u)
  BY DEF Spreads
<1>2. /\ \A d \in Devices : d # w =>
           data[d][k] < u.value /\ \A m \in Out(d) : Value(m, k) < u.value
      /\ \A d \in Devices : \A m \in In(d) : Value(m, k) < u.value
      /\ \A m \in Out(w) : Precedes(out[w], m, u) => Value(m, k) < u.value
  BY <1>1 DEF Newest
<1>3. Unset < u.value /\ Master \in Devices /\ Master # w /\ w \in Devices
  <2>1. u \in Message
    BY <1>1, InQueues, Distinct DEF Joining
  <2> QED
    BY <2>1, ValuesOf, Distinct
<1>4. ASSUME NEW d \in Devices, d # w
      PROVE  data'[d][k] < u.value /\ \A m \in Out(d)' : Value(m, k) < u.value
  BY <1>2, <1>3, <1>4 DEF Spreads
<1>5. ASSUME NEW d \in Devices, NEW m \in In(d)'
      PROVE  Value(m, k) < u.value
  BY <1>2, <1>3, <1>5 DEF Spreads
<1>6. ASSUME NEW m \in Out(w)', Precedes(out'[w], m, u)
      PROVE  Value(m, k) < u.value
  <2>1. Precedes(out[w], m, u)
    BY <1>1, <1>6
  <2>2. m \in Out(w)
    BY <1>3, <2>1, InQueues DEF Joining
  <2> QED
    BY <1>2, <2>1, <2>2
<1> QED
  BY <1>4, <1>5, <1>6

\* A step that lets updates arrive keeps them in turn.
LEMMA InTurnKept ==
    ASSUME Joining, NEW k \in Keys, NEW w \in Remotes, Newest(k, w), InTurn(k), Arrives(k, w)
    PROVE  InTurn(k)'
<1> SUFFICES ASSUME NEW d \in Devices, NEW u \in In(d)', IsUpdate(u, k)
             PROVE  /\ data'[d][k] < u.value
                    /\ \A m : Precedes(inbox'[d], m, u) => Value(m, k) < u.value
  BY NewestMeans
<1>1. CASE /\ u \in In(d)
           /\ \A m : Precedes(inbox'[d], m, u) => Precedes(inbox[d], m, u)
           /\ \/ data'[d][k] = data[d][k]
              \/ \E m : Precedes(inbox[d], m, u) /\ data'[d][k] = Value(m, k)
  <2>1. data[d][k] < u.value /\ \A m \in In(d) : Precedes(inbox[d], m, u) => Value(m, k) < u.value
    BY <1>1 DEF InTurn
  <2>2. \A m : Precedes(inbox[d], m, u) => m \in In(d)
    BY InQueues DEF Joining
  <2> QED
    BY <1>1, <2>1, <2>2
<1>2. CASE /\ u \in Out(w) /\ d # w
           /\ data'[d][k] = data[d][k]
           /\ \A m : Precedes(inbox'[d], m, u) => m \in In(d)
  <2>1. data[d][k] < u.value /\ \A m \in In(d) : Value(m, k) < u.value
    BY <1>2 DEF Newest
  <2> QED
    BY <1>2, <2>1
<1> QED
  BY <1>1, <1>2 DEF Arrives

\* Only its writer sends updates of an entry, and they do not come back.
LEMMA OnlyTheWriter ==
    ASSUME Joining, NEW k \in Keys, NEW w \in Remotes, Writer[k] = w
    PROVE  /\ \A d \in Devices : d # w => \A m \in Out(d) : ~IsUpdate(m, k)
           /\ \A m \in In(w) : ~IsUpdate(m, k)
           /\ w \in Devices /\ Master \in Devices /\ w # Master
BY Distinct DEF Joining, SendsOnly, GetsOnly, IsUpdate

\* Setting an entry.
LEMMA UpdatesSet ==
    ASSUME Joining, ValuesBounded, NEW k \in Keys, NEW w \in Remotes, Writer[k] = w,
           Newest(k, w), InTurn(k), NEW d \in Devices, NEW j \in Keys, IsSet(d, j)
    PROVE  Newest(k, w)' /\ InTurn(k)'
<1> DEFINE n == NewUpdate(j)
<1>1. /\ Put(out[d], out'[d], n) /\ \A e \in Devices : e # d => out'[e] = out[e]
      /\ inbox' = inbox /\ d = Writer[j] /\ n \in Message /\ n.value = writes + 1
      /\ Value(n, k) = IF k = j THEN writes + 1 ELSE Unset
      /\ k # j => ~IsUpdate(n, k)
  BY DEF IsSet
<1>2. /\ Out(d)' = Out(d) \cup {n} /\ \A e \in Devices : e # d => Out(e)' = Out(e)
      /\ \A e \in Devices : In(e)' = In(e)
  BY <1>1 DEF Put, Out, In
<1> HIDE DEF n
<1>3. \A e \in Devices : e # w => data'[e][k] = data[e][k]
  BY DEF IsSet
<1>4. Arrives(k, w)
  <2>1. ASSUME NEW e \in Devices, NEW u \in In(e)', IsUpdate(u, k)
        PROVE  u \in In(e) /\ e # w
    BY <1>2, <2>1, OnlyTheWriter
  <2> QED
    BY <1>1, <1>3, <2>1 DEF Arrives
<1>5. InTurn(k)'
  BY <1>4, InTurnKept
<1>6. CASE k # j
  <2>1. ASSUME NEW u \in Out(w)', IsUpdate(u, k)
        PROVE  u \in Out(w) /\ \A m : Precedes(out'[w], m, u) => Precedes(out[w], m, u)
    <3>1. u # n
      BY <1>1, <1>6, <2>1
    <3>2. CASE d = w
      BY <1>1, <1>2, <2>1, <3>1, <3>2 DEF Put
    <3>3. CASE d # w
      BY <1>1, <1>2, <2>1, <3>3, OnlyTheWriter
    <3> QED
      BY <3>2, <3>3
  <2>2. Spreads(k, w)
    BY <1>1, <1>2, <1>3, <1>6, <2>1 DEF Spreads
  <2> QED
    BY <1>5, <2>2, NewestKept
<1>7. CASE k = j
  <2>1. d = w
    BY <1>1, <1>7
  <2>2. /\ \A e \in Devices : data[e][k] < n.value
        /\ \A e \in Devices : \A m \in Out(e) \cup In(e) : Value(m, k) < n.value
    <3>1. \A i \in 0..MaxWrites : i <= writes => i < writes + 1
      BY Numbers
    <3> QED
      BY <1>1, <3>1, Numbers DEF ValuesBounded
  <2> SUFFICES ASSUME NEW u \in Out(w)', IsUpdate(u, k)
               PROVE  /\ \A e \in Devices : e # w =>
                           data'[e][k] < u.value /\ \A m \in Out(e)' : Value(m, k) < u.value
                      /\ \A e \in Devices : \A m \in In(e)' : Value(m, k) < u.value
                      /\ \A m \in Out(w)' : Precedes(out'[w], m, u) => Value(m, k) < u.value
    BY <1>5, NewestMeans
  <2>3. ASSUME NEW m, Precedes(out'[w], m, u)
        PROVE  Precedes(out[w], m, u) \/ (m \in Out(w) /\ u = n)
    BY <1>1, <2>1, <2>3 DEF Put, Out
  <2>4. CASE u = n
    <3>1. \A m : Precedes(out'[w], m, u) => m \in Out(w)
      BY <2>3, InQueues, OnlyTheWriter DEF Joining
    <3> QED
      BY <1>2, <1>3, <2>1, <2>2, <2>4, <3>1, OnlyTheWriter
  <2>5. CASE u # n
    <3>1. u \in Out(w)
      BY <1>2, <2>1, <2>5
    <3>2. \A m : Precedes(out'[w], m, u) => Precedes(out[w], m, u) /\ m \in Out(w)
      BY <2>3, <2>5, InQueues, OnlyTheWriter DEF Joining
    <3>3. /\ \A e \in Devices : e # w =>
               data[e][k] < u.value /\ \A m \in Out(e) : Value(m, k) < u.value
          /\ \A e \in Devices : \A m \in In(e) : Value(m, k) < u.value
          /\ \A m \in Out(w) : Precedes(out[w], m, u) => Value(m, k) < u.value
      BY <3>1 DEF Newest
    <3> QED
      BY <1>2, <1>3, <2>1, <3>2, <3>3
  <2> QED
    BY <2>4, <2>5
<1> QED
  BY <1>6, <1>7

\* Relaying a message.
LEMMA UpdatesRelay ==
    ASSUME Joining, NEW k \in Keys, NEW w \in Remotes, Writer[k] = w,
           Newest(k, w), InTurn(k), NEW d \in Devices, NEW m \in Message, IsRelayed(d, m)
    PROVE  Newest(k, w)' /\ InTurn(k)'
<1>1. /\ m \in Out(d) /\ Taken(out[d], out'[d], m) /\ data' = data
      /\ \A e \in Devices : e # d => out'[e] = out[e]
      /\ \A e \in Devices :
           /\ Reaches(d, m, e) => Put(inbox[e], inbox'[e], m)
           /\ ~Reaches(d, m, e) => inbox'[e] = inbox[e]
  BY DEF IsRelayed
<1>2. \A e \in Devices : /\ \A x \in Out(e)' : x \in Out(e)
                         /\ \A x, y : Precedes(out'[e], x, y) => Precedes(out[e], x, y)
  <2>1. /\ \A x \in Out(d)' : x \in Out(d)
        /\ \A x, y : Precedes(out'[d], x, y) => Precedes(out[d], x, y)
    BY <1>1 DEF Taken, Out
  <2>2. \A e \in Devices : e # d => Out(e)' = Out(e)
    BY <1>1 DEF Out
  <2> QED
    BY <1>1, <2>1, <2>2
<1>3. d = w => \A u \in Out(w)' : Precedes(out[w], m, u)
  BY <1>1 DEF Taken, Out
<1>4. \A e \in Devices : \A x \in In(e)' : x \in In(e) \/ x = m
  BY <1>1 DEF Put, In
<1>5. Spreads(k, w)
  BY <1>1, <1>2, <1>3, <1>4, OnlyTheWriter DEF Spreads
<1>6. ASSUME NEW e \in Devices, NEW u \in In(e)', IsUpdate(u, k)
      PROVE  \/ /\ u \in In(e)
                /\ \A x : Precedes(inbox'[e], x, u) => Precedes(inbox[e], x, u)
             \/ /\ u \in Out(w) /\ e # w
                /\ \A x : Precedes(inbox'[e], x, u) => x \in In(e)
  <2>1. CASE ~Reaches(d, m, e)
    BY <1>1, <1>6, <2>1 DEF In
  <2>2. CASE Reaches(d, m, e) /\ u # m
    BY <1>1, <1>6, <2>2 DEF Put, In
  <2>3. CASE Reaches(d, m, e) /\ u = m
    <3>1. d = w /\ m.name = "update"
      BY <1>1, <1>6, <2>3, OnlyTheWriter DEF IsUpdate
    <3>2. e # w
      BY <1>1, <2>3, <3>1, RelayedTo
    <3>3. \A x : Precedes(inbox[e], x, u) => x \in In(e)
      BY InQueues DEF Joining
    <3> QED
      BY <1>1, <2>3, <3>1, <3>2, <3>3 DEF Put, In
  <2> QED
    BY <2>1, <2>2, <2>3
<1>7. Arrives(k, w)
  BY <1>1, <1>6 DEF Arrives
<1> QED
  BY <1>5, <1>7, NewestKept, InTurnKept

\* Handling a message.
LEMMA UpdatesHandle ==
    ASSUME Joining, NEW k \in Keys, NEW w \in Remotes, Writer[k] = w,
           Newest(k, w), InTurn(k), NEW d \in Devices, NEW m, NEW u, IsHandled(d, m, u)
    PROVE  Newest(k, w)' /\ InTurn(k)'
<1>1. /\ m \in Message /\ m \in In(d) /\ Taken(inbox[d], inbox'[d], m)
      /\ \A e \in Devices : e # d => inbox'[e] = inbox[e]
      /\ Joined(out[d], out'[d], u)
      /\ \A e \in Devices : e # d => out'[e] = out[e]
      /\ data'[d][k] = IF Value(m, k) # Unset THEN Value(m, k) ELSE data[d][k]
      /\ \A e \in Devices : e # d => data'[e][k] = data[e][k]
  BY DEF IsHandled, Adopts
<1>2. ASSUME NEW x \in ToSet(u)
      PROVE  /\ Value(x, k) \in {Unset, data[Master][k]} /\ ~IsUpdate(x, k)
  <2>1. CASE (\A y \in ToSet(u) : IsAck(y)) /\ \A y, z : ~Precedes(u, y, z)
    BY <1>2, <2>1, ValuesOf DEF IsAck
  <2>2. CASE d = Master /\ m.name = "remoteinfo" /\ u = Batch(m.from, m.session)
    BY <1>1, <1>2, <2>2, BatchValues
  <2> QED
    BY <2>1, <2>2 DEF IsHandled
<1>3. ASSUME NEW y, NEW x, Precedes(u, y, x)
      PROVE  ~IsUpdate(x, k)
  <2>1. CASE \A a, b : ~Precedes(u, a, b)
    BY <1>3, <2>1
  <2>2. CASE d = Master /\ m.name = "remoteinfo" /\ u = Batch(m.from, m.session)
    <3>1. LET v == Batch(m.from, m.session) IN
          \A p, q : Precedes(v, p, q) => q \in ToSet(v)
      BY <1>1, <2>2, BatchValues
    <3> QED
      BY <1>2, <1>3, <2>2, <3>1
  <2> QED
    BY <2>1, <2>2 DEF IsHandled
<1>4. ASSUME NEW x \in Out(w)', IsUpdate(x, k)
      PROVE  x \in Out(w) /\ \A y : Precedes(out'[w], y, x) => Precedes(out[w], y, x)
  <2>1. CASE d = w
    <3>1. x \notin ToSet(u)
      BY <1>2, <1>4
    <3> QED
      BY <1>1, <1>3, <1>4, <2>1, <3>1 DEF Joined, Out
  <2>2. CASE d # w
    BY <1>1, <1>4, <2>2, OnlyTheWriter DEF Out
  <2> QED
    BY <2>1, <2>2
<1>5. \A e \in Devices : \A x \in Out(e)' : x \in Out(e) \/ Value(x, k) \in {Unset, data[Master][k]}
  <2>1. \A x \in Out(d)' : x \in Out(d) \/ x \in ToSet(u)
    BY <1>1 DEF Joined, Out
  <2>2. \A e \in Devices : e # d => Out(e)' = Out(e)
    BY <1>1 DEF Out
  <2> QED
    BY <1>2, <2>1, <2>2
<1>6. /\ \A e \in Devices : \A x \in In(e)' : x \in In(e)
      /\ \A e \in Devices : e # d => In(e)' = In(e)
      /\ \A x \in In(d)' : Precedes(inbox[d], m, x)
      /\ \A x, y : Precedes(inbox'[d], x, y) => Precedes(inbox[d], x, y)
  <2>1. /\ \A x \in In(d)' : x \in In(d) /\ Precedes(inbox[d], m, x)
        /\ \A x, y : Precedes(inbox'[d], x, y) => Precedes(inbox[d], x, y)
    BY <1>1 DEF Taken, In
  <2>2. \A e \in Devices : e # d => In(e)' = In(e)
    BY <1>1 DEF In
  <2> QED
    BY <2>1, <2>2
<1>7. Spreads(k, w)
  BY <1>1, <1>4, <1>5, <1>6 DEF Spreads
<1>8. ASSUME NEW e \in Devices, NEW x \in In(e)'
      PROVE  /\ x \in In(e)
             /\ \A y : Precedes(inbox'[e], y, x) => Precedes(inbox[e], y, x)
             /\ \/ data'[e][k] = data[e][k]
                \/ \E y : Precedes(inbox[e], y, x) /\ data'[e][k] = Value(y, k)
  BY <1>1, <1>6, <1>8
<1>9. Arrives(k, w)
  BY <1>8 DEF Arrives
<1> QED
  BY <1>7, <1>9, NewestKept, InTurnKept

\* Opening and closing pages, and what else leaves the updates alone.
LEMMA UpdatesPages ==
    ASSUME Joining, NEW k \in Keys, NEW w \in Remotes, Writer[k] = w,
           Newest(k, w), InTurn(k), NEW r \in Remotes,
           \/ \E a : IsSettled(r, a)
           \/ IsOpened(r) \/ IsClosed(r) \/ UNCHANGED vars
    PROVE  Newest(k, w)' /\ InTurn(k)'
<1> r \in Devices
  BY Distinct
<1>1. CASE \E a : IsSettled(r, a)
  <2>1. PICK a : IsSettled(r, a)
    BY <1>1
  <2>2. /\ Put(out[r], out'[r], a) /\ \A e \in Devices : e # r => out'[e] = out[e]
        /\ data' = data /\ inbox' = inbox
        /\ ~IsUpdate(a, k) /\ Value(a, k) = Unset
    BY <2>1, ValuesOf DEF IsSettled, IsAck
  <2>3. ASSUME NEW u \in Out(w)', IsUpdate(u, k)
        PROVE  u \in Out(w) /\ \A m : Precedes(out'[w], m, u) => Precedes(out[w], m, u)
    <3>1. u # a
      BY <2>2, <2>3
    <3>2. CASE w = r
      BY <2>2, <2>3, <3>1, <3>2 DEF Put, Out
    <3>3. CASE w # r
      BY <2>2, <2>3, <3>3, OnlyTheWriter DEF Out
    <3> QED
      BY <3>2, <3>3
  <2>4. \A d \in Devices : \A m \in Out(d)' : m \in Out(d) \/ Value(m, k) = Unset
    BY <2>2 DEF Put, Out
  <2>5. \A d \in Devices : In(d)' = In(d)
    BY <2>2 DEF In
  <2>6. Spreads(k, w)
    BY <2>2, <2>3, <2>4, <2>5 DEF Spreads
  <2>7. Arrives(k, w)
    BY <2>2, <2>5 DEF Arrives
  <2> QED
    BY <2>6, <2>7, NewestKept, InTurnKept
<1>2. CASE IsOpened(r)
  <2>1. /\ \A d \in Devices : d # r => out'[d] = out[d] /\ data'[d][k] = data[d][k]
        /\ inbox' = inbox /\ data'[r][k] = Unset /\ In(r) = {}
        /\ Out(r)' = {Hello, Info(r, opened + 1)}
    BY <1>2 DEF IsOpened
  <2>2. \A m \in Out(r)' : ~IsUpdate(m, k) /\ Value(m, k) = Unset
    BY <2>1, ValuesOf DEF Hello, Info
  <2>3. \A d \in Devices : d # r => Out(d)' = Out(d)
    BY <2>1 DEF Out
  <2>4. \A d \in Devices : In(d)' = In(d)
    BY <2>1 DEF In
  <2>a. \A u \in Out(w)' : IsUpdate(u, k) =>
          u \in Out(w) /\ \A m : Precedes(out'[w], m, u) => Precedes(out[w], m, u)
    BY <2>1, <2>2, <2>3, OnlyTheWriter
  <2>b. \A d \in Devices : /\ data'[d][k] \in {Unset, data[d][k]}
                           /\ \A m \in Out(d)' : m \in Out(d) \/ Value(m, k) = Unset
    BY <2>1, <2>2, <2>3
  <2>5. Spreads(k, w)
    BY <2>4, <2>a, <2>b DEF Spreads
  <2>6. Arrives(k, w)
    BY <2>1, <2>4 DEF Arrives
  <2> QED
    BY <2>5, <2>6, NewestKept, InTurnKept
<1>3. CASE IsClosed(r)
  <2>1. /\ \A d \in Devices : d # r => out'[d] = out[d] /\ inbox'[d] = inbox[d]
        /\ data' = data /\ Out(r)' = {} /\ In(r)' = {}
    BY <1>3 DEF IsClosed
  <2>2. \A d \in Devices : d # r => Out(d)' = Out(d) /\ In(d)' = In(d)
    BY <2>1 DEF Out, In
  <2>a. \A u \in Out(w)' : u \in Out(w) /\ \A m : Precedes(out'[w], m, u) => Precedes(out[w], m, u)
    BY <2>1, <2>2, OnlyTheWriter
  <2>b. \A d \in Devices : /\ \A m \in Out(d)' : m \in Out(d)
                           /\ \A m \in In(d)' : m \in In(d)
    BY <2>1, <2>2
  <2>3. Spreads(k, w)
    BY <2>1, <2>a, <2>b DEF Spreads
  <2>4. Arrives(k, w)
    BY <2>1, <2>2 DEF Arrives
  <2> QED
    BY <2>3, <2>4, NewestKept, InTurnKept
<1>4. CASE UNCHANGED vars
  <2>1. out' = out /\ inbox' = inbox /\ data' = data
    BY <1>4 DEF vars, channels, storeVars
  <2>2. Spreads(k, w) /\ Arrives(k, w)
    BY <2>1 DEF Spreads, Arrives, Out, In
  <2> QED
    BY <2>2, NewestKept, InTurnKept
<1> QED
  BY <1>1, <1>2, <1>3, <1>4

\* Updates stay newest and in turn: a step.
LEMMA StepUpdates ==
    ASSUME Joining, ValuesBounded, Steps, NEW k \in Keys, NEW w \in Remotes, Writer[k] = w,
           Newest(k, w), InTurn(k)
    PROVE  Newest(k, w)' /\ InTurn(k)'
<1>1. ASSUME NEW d \in Devices, NEW j \in Keys, IsSet(d, j)
      PROVE  Newest(k, w)' /\ InTurn(k)'
  BY <1>1, UpdatesSet
<1>2. ASSUME NEW d \in Devices, NEW m \in Message, IsRelayed(d, m)
      PROVE  Newest(k, w)' /\ InTurn(k)'
  BY <1>2, UpdatesRelay
<1>3. ASSUME NEW d \in Devices, NEW m, NEW u, IsHandled(d, m, u)
      PROVE  Newest(k, w)' /\ InTurn(k)'
  BY <1>3, UpdatesHandle
<1>4. ASSUME NEW r \in Remotes, \/ \E a : IsSettled(r, a)
                                \/ IsOpened(r) \/ IsClosed(r) \/ UNCHANGED vars
      PROVE  Newest(k, w)' /\ InTurn(k)'
  BY <1>4, UpdatesPages
<1> QED
  BY <1>1, <1>2, <1>3, <1>4 DEF Steps

-----------------------------------------------------------------------------
(* The witnesses of an entry.                                              *)

\* What has a value for a device that is ready, or the master, is an update.
LEMMA OnlyUpdates ==
    ASSUME Joining, HandshakesInOrder, NEW k \in Keys, NEW d \in ready \cup {Master}
    PROVE  /\ d \in Devices
           /\ \A m \in In(d) : Value(m, k) # Unset => IsUpdate(m, k)
           /\ \A e \in Devices : \A m \in Out(e) :
                Reaches(e, m, d) /\ Value(m, k) # Unset => IsUpdate(m, k)
<1>1. d \in Devices /\ (d # Master => d \in Remotes)
  BY Distinct DEF Joining, TypeOK
<1>2. ASSUME NEW m \in In(d)
      PROVE  m.name # "part"
  <2>1. CASE d = Master
    BY <1>2, <2>1 DEF Joining, GetsOnly
  <2>2. CASE d # Master
    <3>1. ~OfHandshake(m, d)
      BY <1>1, <1>2, <2>2, ReadyHasNoHandshake DEF OnTheWay
    <3>2. m.name = "part" => m.to = d
      BY <1>1, <1>2, <2>2 DEF Joining, GetsOnly
    <3> QED
      BY <3>1, <3>2 DEF OfHandshake
  <2> QED
    BY <2>1, <2>2
<1>3. ASSUME NEW e \in Devices, NEW m \in Out(e), Reaches(e, m, d)
      PROVE  m.name # "part"
  <2> SUFFICES ASSUME m.name = "part"
               PROVE  FALSE
    OBVIOUS
  <2>1. e = Master /\ m \in Message
    BY <1>3, InQueues, Distinct DEF Joining, SendsOnly
  <2>2. d = m.to /\ d # Master
    <3>1. d = m.to
      BY <1>1, <1>3, <2>1, RelayedTo
    <3> QED
      BY <2>1, <3>1, MessageFields, Distinct
  <2>3. ~OfHandshake(m, d)
    BY <1>3, <2>1, <2>2, ReadyHasNoHandshake DEF OnTheWay
  <2> QED
    BY <2>2, <2>3 DEF OfHandshake
<1>4. \A m : Value(m, k) # Unset /\ m.name # "part" => IsUpdate(m, k)
  BY DEF Value, IsUpdate
<1> QED
  BY <1>1, <1>2, <1>3, <1>4

\* What it means before a step and after it.
LEMMA TellsMeans ==
    ASSUME NEW k \in Keys, NEW w \in Remotes, NEW d, NEW v
    PROVE  /\ TellsItsOwn(k, w)' <=>
                \A t \in Out(w)' : IsUpdate(t, k) =>
                    /\ w \in ready'
                    /\ \A u \in Out(w)' : IsUpdate(u, k) => u.value <= data'[w][k]
                    /\ \E u \in Out(w)' : IsUpdate(u, k) /\ u.value = data'[w][k]
           /\ d = w => (Settles(d, k, w, v)' <=>
                          data'[d][k] = v \/ \E u \in Out(d)' : IsUpdate(u, k))
           /\ d # w => (Settles(d, k, w, v)' <=>
                          /\ data'[d][k] <= v
                          /\ \A m \in In(d)' : Value(m, k) <= v
                          /\ data'[d][k] = v \/ \E u \in In(d)' : IsUpdate(u, k) /\ u.value = v)
BY DEF TellsItsOwn, Settles, IsUpdate, Value

\* The device d has the same value of k, and the same to tell.
SameToTell(k, d) ==
    /\ data'[d][k] = data[d][k]
    /\ \A u : IsUpdate(u, k) => (u \in Out(d)' <=> u \in Out(d))

\* Then what it tells stays its own.
LEMMA TellsKept ==
    ASSUME NEW k \in Keys, NEW w \in Remotes, TellsItsOwn(k, w),
           w \in ready => w \in ready' /\ SameToTell(k, w),
           \A u \in Out(w)' : IsUpdate(u, k) => u \in Out(w)
    PROVE  TellsItsOwn(k, w)'
BY TellsMeans DEF TellsItsOwn, SameToTell

\* What the device d has of k, or is sent, is the same, or it takes an update.
Settling(k, d) ==
    \/ /\ data'[d][k] = data[d][k]
       /\ \A m \in In(d)' : m \in In(d) \/ Value(m, k) = Unset
       /\ \A u \in In(d) : IsUpdate(u, k) => u \in In(d)'
    \/ \E m \in In(d) :
         /\ IsUpdate(m, k) /\ data'[d][k] = m.value
         /\ In(d) = In(d)' \cup {m}

\* Then it settles on the same value.
LEMMA SettlesKept ==
    ASSUME Joining, NEW k \in Keys, NEW w \in Remotes, NEW d \in Devices, d # w,
           NEW v \in 0..MaxWrites, InTurn(k), Settles(d, k, w, v), Settling(k, d)
    PROVE  Settles(d, k, w, v)'
<1>1. /\ data[d][k] <= v
      /\ \A m \in In(d) : Value(m, k) <= v
      /\ data[d][k] = v \/ \E u \in In(d) : IsUpdate(u, k) /\ u.value = v
  BY DEF Settles
<1>2. v \in Nat /\ data[d][k] \in Nat /\ Unset <= v
  BY Numbers, Distinct DEF Unset
<1>3. CASE /\ data'[d][k] = data[d][k]
           /\ \A m \in In(d)' : m \in In(d) \/ Value(m, k) = Unset
           /\ \A u \in In(d) : IsUpdate(u, k) => u \in In(d)'
  BY <1>1, <1>2, <1>3, TellsMeans
<1>4. CASE \E m \in In(d) : /\ IsUpdate(m, k) /\ data'[d][k] = m.value
                            /\ In(d) = In(d)' \cup {m}
  <2>1. PICK m \in In(d) : /\ IsUpdate(m, k) /\ data'[d][k] = m.value
                           /\ In(d) = In(d)' \cup {m}
    BY <1>4
  <2>2. data[d][k] < m.value /\ Value(m, k) = m.value /\ m.value \in Nat
    <3>1. m \in Message
      BY InQueues DEF Joining
    <3> QED
      BY <2>1, <3>1, ValuesOf DEF InTurn
  <2>3. m.value <= v /\ data[d][k] # v
    BY <1>1, <1>2, <2>2
  <2> QED
    BY <1>1, <2>1, <2>3, TellsMeans
<1> QED
  BY <1>3, <1>4 DEF Settling

\* The witnesses settle when every one of them does.
LEMMA AllSettle ==
    ASSUME Joining, NEW k \in Keys, NEW w \in Remotes, InTurn(k), WitnessesSettle(k, w),
           witnesses[k] \subseteq Devices, witnesses'[k] \subseteq witnesses[k],
           w \in witnesses'[k] =>
             \/ SameToTell(k, w)
             \/ \E u \in Out(w)' : IsUpdate(u, k),
           \A d \in witnesses'[k] : d # w => Settling(k, d)
    PROVE  WitnessesSettle(k, w)'
<1>1. PICK v \in 0..MaxWrites : \A d \in witnesses[k] : Settles(d, k, w, v)
  BY DEF WitnessesSettle
<1>2. ASSUME NEW d \in witnesses'[k]
      PROVE  Settles(d, k, w, v)'
  <2>1. CASE d # w
    BY <1>1, <1>2, <2>1, SettlesKept
  <2>2. CASE d = w
    <3>1. data[d][k] = v \/ \E u \in Out(d) : IsUpdate(u, k)
      BY <1>1, <2>2 DEF Settles
    <3>2. data'[d][k] = v \/ \E u \in Out(d)' : IsUpdate(u, k)
      BY <1>2, <2>2, <3>1 DEF SameToTell
    <3> QED
      BY <2>2, <3>2, TellsMeans
  <2> QED
    BY <2>1, <2>2
<1> QED
  BY <1>2 DEF WitnessesSettle

\* What a remote has yet to tell and who is a witness, for a remote w that sets
\* the entry k.
Told(k, w) == TellsItsOwn(k, w) /\ WitnessesSettle(k, w)

\* The updates of k that are under way to the witness d are what they were.
LEMMA SettlingSame ==
    ASSUME NEW k, NEW d, data'[d][k] = data[d][k], inbox'[d] = inbox[d]
    PROVE  Settling(k, d)
BY DEF Settling, In

\* Setting an entry.
LEMMA ToldSet ==
    ASSUME Joining, ValuesBounded, WitnessesReady, NEW k \in Keys, NEW w \in Remotes,
           Writer[k] = w, InTurn(k), Told(k, w),
           NEW d \in Devices, NEW j \in Keys, IsSet(d, j)
    PROVE  Told(k, w)'
<1> DEFINE n == NewUpdate(j)
<1>1. /\ Out(d)' = Out(d) \cup {n} /\ n.value = writes + 1
      /\ data'[d][j] = writes + 1 /\ writes \in Nat
      /\ IsUpdate(n, j) /\ (k # j => ~IsUpdate(n, k))
      /\ d = Writer[j] /\ (d = Master \/ d \in ready) /\ ready' = ready
      /\ witnesses' = witnesses /\ inbox' = inbox
      /\ \A e \in Devices : e # d => out'[e] = out[e]
      /\ \A e \in Devices : e # d \/ j # k => data'[e][k] = data[e][k]
  BY Numbers DEF IsSet, Put, Out
<1>2. \A e \in Devices : e # d => Out(e)' = Out(e)
  BY <1>1 DEF Out
<1> HIDE DEF n
<1>3. w \in Devices /\ witnesses[k] \subseteq Devices /\ w # Master
  BY OnlyTheWriter, Distinct DEF Joining, TypeOK
<1>4. \A e \in Devices : e # w => Settling(k, e)
  BY <1>1, SettlingSame
<1>5. CASE k = j
  <2>1. d = w /\ w \in ready /\ n \in Out(w)'
    BY <1>1, <1>3, <1>5
  <2>2. \A u \in Out(w) : IsUpdate(u, k) => u.value <= writes
    <3>1. \A u : IsUpdate(u, k) => Value(u, k) = u.value
      BY ValuesOf
    <3> QED
      BY <1>3, <3>1 DEF ValuesBounded
  <2>3. \A u \in Out(w) : IsUpdate(u, k) => u.value <= writes + 1
    <3>1. \A i \in 0..MaxWrites : i <= writes => i <= writes + 1
      BY <1>1
    <3>2. \A u \in Out(w) : IsUpdate(u, k) => u.value \in 0..MaxWrites
      <4>1. \A u : IsUpdate(u, k) => Value(u, k) = u.value
        BY ValuesOf
      <4> QED
        BY <1>3, <4>1, Numbers
    <3> QED
      BY <2>2, <3>1, <3>2
  <2>4. TellsItsOwn(k, w)'
    <3>1. writes + 1 <= writes + 1
      BY <1>1
    <3>2. \A u \in Out(w)' : IsUpdate(u, k) => u.value <= data'[w][k]
      BY <1>1, <1>5, <2>1, <2>3, <3>1
    <3> QED
      BY <1>1, <1>5, <2>1, <3>2, TellsMeans
  <2>5. WitnessesSettle(k, w)'
    BY <1>1, <1>3, <1>4, <1>5, <2>1, AllSettle DEF Told
  <2> QED
    BY <2>4, <2>5 DEF Told
<1>6. CASE k # j
  <2>1. SameToTell(k, w) /\ \A u \in Out(w)' : IsUpdate(u, k) => u \in Out(w)
    BY <1>1, <1>2, <1>3, <1>6 DEF SameToTell
  <2>2. TellsItsOwn(k, w)'
    BY <1>1, <2>1, TellsKept DEF Told
  <2>3. WitnessesSettle(k, w)'
    BY <1>1, <1>3, <1>4, <2>1, AllSettle DEF Told
  <2> QED
    BY <2>2, <2>3 DEF Told
<1> QED
  BY <1>5, <1>6

\* Relaying a message: those who are ready, and the master, become witnesses of
\* an update.
LEMMA ToldRelay ==
    ASSUME Joining, HandshakesInOrder, WitnessesReady, NEW k \in Keys, NEW w \in Remotes,
           Writer[k] = w, Newest(k, w), InTurn(k), Told(k, w),
           NEW d \in Devices, NEW m \in Message, IsRelayed(d, m)
    PROVE  Told(k, w)'
<1>1. /\ m \in Out(d) /\ Taken(out[d], out'[d], m) /\ data' = data /\ ready' = ready
      /\ \A e \in Devices : e # d => out'[e] = out[e]
      /\ \A e \in Devices :
           /\ Reaches(d, m, e) => Put(inbox[e], inbox'[e], m)
           /\ ~Reaches(d, m, e) => inbox'[e] = inbox[e]
      /\ witnesses'[k] = IF IsUpdate(m, k) THEN ready \cup {Master} ELSE witnesses[k]
  BY DEF IsRelayed
<1>2. /\ Out(d) = Out(d)' \cup {m} /\ \A u \in Out(d)' : Precedes(out[d], m, u)
      /\ \A e \in Devices : e # d => Out(e)' = Out(e)
      /\ \A e \in Devices : Reaches(d, m, e) => In(e)' = In(e) \cup {m}
      /\ \A e \in Devices : ~Reaches(d, m, e) => In(e)' = In(e)
  BY <1>1 DEF Taken, Put, Out, In
<1>3. w \in Devices /\ witnesses[k] \subseteq Devices /\ w # Master /\ Master \in Devices
  BY OnlyTheWriter, Distinct DEF Joining, TypeOK
<1>4. ASSUME IsUpdate(m, k)
      PROVE  d = w
  BY <1>1, <1>4, OnlyTheWriter
<1>5. TellsItsOwn(k, w)'
  <2> SUFFICES ASSUME NEW t \in Out(w)', IsUpdate(t, k)
               PROVE  /\ w \in ready'
                      /\ \A u \in Out(w)' : IsUpdate(u, k) => u.value <= data'[w][k]
                      /\ \E u \in Out(w)' : IsUpdate(u, k) /\ u.value = data'[w][k]
    BY TellsMeans
  <2>1. t \in Out(w) /\ \A u \in Out(w)' : u \in Out(w)
    BY <1>2, <1>3
  <2>2. /\ w \in ready /\ \A u \in Out(w) : IsUpdate(u, k) => u.value <= data[w][k]
        /\ \E u \in Out(w) : IsUpdate(u, k) /\ u.value = data[w][k]
    BY <2>1 DEF Told, TellsItsOwn
  <2>3. PICK u \in Out(w) : IsUpdate(u, k) /\ u.value = data[w][k]
    BY <2>2
  <2>4. u \in Out(w)'
    <3> SUFFICES ASSUME u \notin Out(w)'
                 PROVE  FALSE
      OBVIOUS
    <3>1. d = w /\ u = m
      BY <1>2, <1>3, <2>3
    <3>2. Precedes(out[w], m, t)
      BY <1>2, <3>1
    <3>3. Value(m, k) < t.value
      BY <1>1, <2>1, <3>1, <3>2 DEF Newest
    <3>4. t.value <= Value(m, k)
      BY <1>1, <2>1, <2>2, <2>3, <3>1, ValuesOf
    <3>5. t.value \in Nat /\ Value(m, k) \in Nat
      <4>1. t \in Message
        BY <1>3, <2>1, InQueues DEF Joining
      <4> QED
        BY <1>1, <4>1, ValuesOf, ValueIsNumber
    <3> QED
      BY <3>3, <3>4, <3>5
  <2> QED
    BY <1>1, <2>1, <2>2, <2>3, <2>4
<1>6. CASE IsUpdate(m, k)
  <2>1. d = w /\ m.value \in 1..MaxWrites /\ m.name = "update" /\ Value(m, k) = m.value
    BY <1>4, <1>6, ValuesOf
  <2>2. /\ w \in ready
        /\ \E u \in Out(w) : IsUpdate(u, k) /\ u.value = data[w][k]
    BY <1>1, <1>6, <2>1 DEF Told, TellsItsOwn
  <2>3. w \in identified
    BY <2>2 DEF Joining, TypeOK
  <2>4. ASSUME NEW e \in ready \cup {Master}
        PROVE  Settles(e, k, w, m.value)'
    <3>1. e \in Devices /\ (e = Master \/ page[e] # Closed)
      BY <1>3, <2>4, Distinct DEF Joining, TypeOK
    <3>2. CASE e = w
      <4>1. PICK u \in Out(w) : IsUpdate(u, k) /\ u.value = data[w][k]
        BY <2>2
      <4>2. u \in Out(w)' \/ data[w][k] = m.value
        BY <1>2, <2>1, <4>1
      <4> QED
        BY <1>1, <3>2, <4>1, <4>2, TellsMeans
    <3>3. CASE e # w
      <4>1. Reaches(d, m, e)
        BY <1>1, <2>1, <2>3, <3>1, <3>3, RelayedTo
      <4>2. In(e)' = In(e) \cup {m}
        BY <1>2, <3>1, <4>1
      <4>3. data[e][k] < m.value /\ \A x \in In(e) : Value(x, k) < m.value
        BY <1>1, <1>6, <2>1, <3>1, <3>3 DEF Newest
      <4>4. data[e][k] \in Nat /\ \A x \in In(e) : Value(x, k) \in Nat
        BY <3>1, Numbers
      <4>5. data'[e][k] <= m.value /\ \A x \in In(e)' : Value(x, k) <= m.value
        BY <1>1, <2>1, <4>2, <4>3, <4>4
      <4> QED
        BY <1>6, <3>3, <4>2, <4>5, TellsMeans
    <3> QED
      BY <3>2, <3>3
  <2>5. m.value \in 0..MaxWrites
    BY <2>1
  <2>6. WitnessesSettle(k, w)'
    BY <1>1, <1>6, <2>4, <2>5 DEF WitnessesSettle
  <2> QED
    BY <1>5, <2>6 DEF Told
<1>7. CASE ~IsUpdate(m, k)
  <2>1. SameToTell(k, w)
    BY <1>1, <1>2, <1>3, <1>7 DEF SameToTell
  <2>2. ASSUME NEW e \in witnesses[k]
        PROVE  Settling(k, e)
    <3>1. e \in ready \cup {Master} /\ e \in Devices
      BY <1>3, <2>2 DEF WitnessesReady
    <3>2. Reaches(d, m, e) => Value(m, k) = Unset
      BY <1>1, <1>7, <3>1, OnlyUpdates
    <3> QED
      BY <1>1, <1>2, <3>1, <3>2 DEF Settling
  <2>3. WitnessesSettle(k, w)'
    BY <1>1, <1>3, <1>7, <2>1, <2>2, AllSettle DEF Told
  <2> QED
    BY <1>5, <2>3 DEF Told
<1> QED
  BY <1>6, <1>7

\* Handling a message.
LEMMA ToldHandle ==
    ASSUME Joining, HandshakesInOrder, WitnessesReady, NEW k \in Keys, NEW w \in Remotes,
           Writer[k] = w, InTurn(k), Told(k, w),
           NEW d \in Devices, NEW m, NEW u, IsHandled(d, m, u)
    PROVE  Told(k, w)'
<1>1. /\ m \in Message /\ m \in In(d) /\ Taken(inbox[d], inbox'[d], m)
      /\ \A e \in Devices : e # d => inbox'[e] = inbox[e]
      /\ Joined(out[d], out'[d], u)
      /\ \A e \in Devices : e # d => out'[e] = out[e]
      /\ data'[d][k] = IF Value(m, k) # Unset THEN Value(m, k) ELSE data[d][k]
      /\ \A e \in Devices : e # d => data'[e][k] = data[e][k]
      /\ witnesses' = witnesses /\ ready \subseteq ready'
  BY DEF IsHandled, Adopts
<1>2. ASSUME NEW x \in ToSet(u)
      PROVE  ~IsUpdate(x, k)
  <2>1. CASE (\A y \in ToSet(u) : IsAck(y)) /\ \A y, z : ~Precedes(u, y, z)
    BY <1>2, <2>1, ValuesOf DEF IsAck
  <2>2. CASE d = Master /\ m.name = "remoteinfo" /\ u = Batch(m.from, m.session)
    BY <1>1, <1>2, <2>2, BatchValues
  <2> QED
    BY <2>1, <2>2 DEF IsHandled
<1>3. /\ Out(d)' = Out(d) \cup ToSet(u) /\ In(d) = In(d)' \cup {m}
      /\ \A e \in Devices : e # d => Out(e)' = Out(e) /\ In(e)' = In(e)
  BY <1>1 DEF Joined, Taken, Out, In
<1>4. w \in Devices /\ witnesses[k] \subseteq Devices /\ w # Master /\ Master \in Devices
  BY OnlyTheWriter, Distinct DEF Joining, TypeOK
<1>5. \A x : IsUpdate(x, k) => (x \in Out(w)' <=> x \in Out(w))
  BY <1>2, <1>3, <1>4
<1>6. ASSUME w \in ready
      PROVE  SameToTell(k, w)
  <2>1. data'[w][k] = data[w][k]
    <3>1. CASE d = w
      <4>1. Value(m, k) = Unset
        BY <1>1, <1>6, <3>1, OnlyUpdates, OnlyTheWriter
      <4> QED
        BY <1>1, <3>1, <4>1
    <3>2. CASE d # w
      BY <1>1, <1>4, <3>2
    <3> QED
      BY <3>1, <3>2
  <2> QED
    BY <1>5, <2>1 DEF SameToTell
<1>7. TellsItsOwn(k, w)'
  BY <1>1, <1>5, <1>6, TellsKept DEF Told
<1>8. ASSUME NEW e \in witnesses[k], e # w
      PROVE  Settling(k, e)
  <2>1. e \in ready \cup {Master} /\ e \in Devices
    BY <1>4, <1>8 DEF WitnessesReady
  <2>2. CASE e # d
    BY <1>1, <2>1, <2>2, SettlingSame
  <2>3. CASE e = d /\ Value(m, k) # Unset
    <3>1. IsUpdate(m, k) /\ Value(m, k) = m.value
      BY <1>1, <2>1, <2>3, OnlyUpdates, ValuesOf
    <3> QED
      BY <1>1, <1>3, <2>3, <3>1 DEF Settling
  <2>4. CASE e = d /\ Value(m, k) = Unset
    <3>1. ~IsUpdate(m, k)
      BY <1>1, <2>4, ValuesOf DEF Unset
    <3> QED
      BY <1>1, <1>3, <2>4, <3>1 DEF Settling
  <2> QED
    BY <2>2, <2>3, <2>4
<1>9. w \in witnesses[k] => SameToTell(k, w)
  BY <1>4, <1>6 DEF WitnessesReady
<1>10. WitnessesSettle(k, w)'
  BY <1>1, <1>4, <1>8, <1>9, AllSettle DEF Told
<1> QED
  BY <1>7, <1>10 DEF Told

\* Opening and closing pages, and what else leaves the updates alone.
LEMMA ToldPages ==
    ASSUME Joining, WitnessesReady, NEW k \in Keys, NEW w \in Remotes,
           Writer[k] = w, InTurn(k), Told(k, w), NEW r \in Remotes,
           \/ \E a : IsSettled(r, a)
           \/ IsOpened(r) \/ IsClosed(r) \/ UNCHANGED vars
    PROVE  Told(k, w)'
<1>1. /\ w \in Devices /\ witnesses[k] \subseteq Devices /\ w # Master /\ Master \in Devices
      /\ r \in Devices /\ r # Master
  BY OnlyTheWriter, Distinct DEF Joining, TypeOK
<1>2. CASE \E a : IsSettled(r, a)
  <2>1. PICK a : IsSettled(r, a)
    BY <1>2
  <2>2. /\ Out(r)' = Out(r) \cup {a} /\ \A e \in Devices : e # r => out'[e] = out[e]
        /\ data' = data /\ inbox' = inbox /\ witnesses' = witnesses /\ ready' = ready
        /\ ~IsUpdate(a, k)
    BY <2>1, ValuesOf DEF IsSettled, IsAck, Put, Out
  <2>3. \A e \in Devices : e # r => Out(e)' = Out(e)
    BY <2>2 DEF Out
  <2>4. SameToTell(k, w)
    BY <1>1, <2>2, <2>3 DEF SameToTell
  <2>5. TellsItsOwn(k, w)'
    BY <2>2, <2>4, TellsKept DEF Told, SameToTell
  <2>6. \A e : Settling(k, e)
    BY <2>2, SettlingSame
  <2>7. WitnessesSettle(k, w)'
    BY <1>1, <2>2, <2>4, <2>6, AllSettle DEF Told
  <2> QED
    BY <2>5, <2>7 DEF Told
<1>3. CASE IsOpened(r)
  <2>1. /\ \A d \in Devices : d # r => out'[d] = out[d] /\ data'[d][k] = data[d][k]
        /\ inbox' = inbox /\ witnesses' = witnesses /\ ready' = ready /\ r \notin ready
        /\ Out(r)' = {Hello, Info(r, opened + 1)}
    BY <1>3 DEF IsOpened
  <2>2. \A m \in Out(r)' : ~IsUpdate(m, k)
    BY <2>1, ValuesOf DEF Hello, Info
  <2>3. \A d \in Devices : d # r => Out(d)' = Out(d)
    BY <2>1 DEF Out
  <2>4. w \in ready => w # r /\ SameToTell(k, w)
    BY <1>1, <2>1, <2>3 DEF SameToTell
  <2>5. TellsItsOwn(k, w)'
    <3>1. \A u \in Out(w)' : IsUpdate(u, k) => u \in Out(w)
      BY <1>1, <2>2, <2>3
    <3> QED
      BY <2>1, <2>4, <3>1, TellsKept DEF Told
  <2>6. \A e \in witnesses[k] : e # r
    BY <1>1, <2>1 DEF WitnessesReady
  <2>7. \A e \in witnesses[k] : Settling(k, e)
    BY <1>1, <2>1, <2>6, SettlingSame
  <2>8. w \in witnesses[k] => SameToTell(k, w)
    BY <1>1, <2>4 DEF WitnessesReady
  <2>9. WitnessesSettle(k, w)'
    BY <1>1, <2>1, <2>7, <2>8, AllSettle DEF Told
  <2> QED
    BY <2>5, <2>9 DEF Told
<1>4. CASE IsClosed(r)
  <2>1. /\ \A d \in Devices : d # r => out'[d] = out[d] /\ inbox'[d] = inbox[d]
        /\ data' = data /\ Out(r)' = {} /\ ready' = ready \ {r}
        /\ witnesses'[k] = witnesses[k] \ {r}
    BY <1>4 DEF IsClosed
  <2>2. \A d \in Devices : d # r => Out(d)' = Out(d)
    BY <2>1 DEF Out
  <2>3. w # r => SameToTell(k, w)
    BY <1>1, <2>1, <2>2 DEF SameToTell
  <2>4. TellsItsOwn(k, w)'
    <3>1. CASE w = r
      BY <2>1, <3>1, TellsMeans
    <3>2. CASE w # r
      BY <1>1, <2>1, <2>2, <2>3, <3>2, TellsKept DEF Told
    <3> QED
      BY <3>1, <3>2
  <2>5. \A e \in witnesses'[k] : Settling(k, e)
    BY <1>1, <2>1, SettlingSame
  <2>6. WitnessesSettle(k, w)'
    BY <1>1, <2>1, <2>3, <2>5, AllSettle DEF Told
  <2> QED
    BY <2>4, <2>6 DEF Told
<1>5. CASE UNCHANGED vars
  <2>1. /\ out' = out /\ inbox' = inbox /\ data' = data /\ ready' = ready
        /\ witnesses' = witnesses
    BY <1>5 DEF vars, channels, storeVars, handshakeVars
  <2>2. SameToTell(k, w) /\ Out(w)' = Out(w) /\ \A e : Settling(k, e)
    BY <2>1 DEF SameToTell, Settling, Out, In
  <2>3. TellsItsOwn(k, w)'
    BY <2>1, <2>2, TellsKept DEF Told
  <2>4. WitnessesSettle(k, w)'
    BY <1>1, <2>1, <2>2, AllSettle DEF Told
  <2> QED
    BY <2>3, <2>4 DEF Told
<1> QED
  BY <1>2, <1>3, <1>4, <1>5

\* Only who is ready, or the master, is a witness: a step.
LEMMA StepWitnesses ==
    ASSUME Steps, WitnessesReady
    PROVE  WitnessesReady'
<1> SUFFICES ASSUME NEW k \in Keys
             PROVE  witnesses'[k] \subseteq ready' \cup {Master}
  BY DEF WitnessesReady
<1>1. witnesses[k] \subseteq ready \cup {Master}
  BY DEF WitnessesReady
<1>2. ASSUME NEW d \in Devices, NEW j \in Keys, IsSet(d, j)
      PROVE  witnesses'[k] \subseteq ready' \cup {Master}
  BY <1>1, <1>2 DEF IsSet
<1>3. ASSUME NEW d \in Devices, NEW m \in Message, IsRelayed(d, m)
      PROVE  witnesses'[k] \subseteq ready' \cup {Master}
  BY <1>1, <1>3 DEF IsRelayed
<1>4. ASSUME NEW d \in Devices, NEW m, NEW u, IsHandled(d, m, u)
      PROVE  witnesses'[k] \subseteq ready' \cup {Master}
  BY <1>1, <1>4 DEF IsHandled
<1>5. ASSUME NEW r \in Remotes, NEW a, IsSettled(r, a)
      PROVE  witnesses'[k] \subseteq ready' \cup {Master}
  BY <1>1, <1>5 DEF IsSettled
<1>6. ASSUME NEW r \in Remotes, IsOpened(r)
      PROVE  witnesses'[k] \subseteq ready' \cup {Master}
  BY <1>1, <1>6 DEF IsOpened
<1>7. ASSUME NEW r \in Remotes, IsClosed(r)
      PROVE  witnesses'[k] \subseteq ready' \cup {Master}
  BY <1>1, <1>7 DEF IsClosed
<1>8. CASE UNCHANGED vars
  BY <1>1, <1>8 DEF vars, storeVars, handshakeVars
<1> QED
  BY <1>2, <1>3, <1>4, <1>5, <1>6, <1>7, <1>8 DEF Steps

\* The entries that remotes set: a step.
LEMMA StepRemotes ==
    ASSUME Joining, HandshakesInOrder, ValuesBounded, WitnessesReady, Steps, RemotesEntries
    PROVE  RemotesEntries'
<1> SUFFICES ASSUME NEW k \in Keys, NEW w \in Remotes, Writer[k] = w
             PROVE  Newest(k, w)' /\ InTurn(k)' /\ Told(k, w)'
  BY DEF RemotesEntries, Told
<1>1. Newest(k, w) /\ InTurn(k) /\ Told(k, w)
  BY DEF RemotesEntries, Told
<1>2. Newest(k, w)' /\ InTurn(k)'
  BY <1>1, StepUpdates
<1>3. ASSUME NEW d \in Devices, NEW j \in Keys, IsSet(d, j)
      PROVE  Told(k, w)'
  BY <1>1, <1>3, ToldSet
<1>4. ASSUME NEW d \in Devices, NEW m \in Message, IsRelayed(d, m)
      PROVE  Told(k, w)'
  BY <1>1, <1>4, ToldRelay
<1>5. ASSUME NEW d \in Devices, NEW m, NEW u, IsHandled(d, m, u)
      PROVE  Told(k, w)'
  BY <1>1, <1>5, ToldHandle
<1>6. ASSUME NEW r \in Remotes, \/ \E a : IsSettled(r, a)
                                \/ IsOpened(r) \/ IsClosed(r) \/ UNCHANGED vars
      PROVE  Told(k, w)'
  BY <1>1, <1>6, ToldPages
<1>7. Told(k, w)'
  BY <1>3, <1>4, <1>5, <1>6 DEF Steps
<1> QED
  BY <1>2, <1>7

\* At first nothing is told, and nobody is a witness.
LEMMA InitRemotes == Init => RemotesEntries /\ WitnessesReady
<1> SUFFICES ASSUME Init
             PROVE  RemotesEntries /\ WitnessesReady
  OBVIOUS
<1>1. /\ \A d \in Devices : Out(d) = {} /\ In(d) = {}
      /\ \A k \in Keys : witnesses[k] = {}
  BY NoMembers DEF Init, Out, In
<1>2. 0 \in 0..MaxWrites
  BY Distinct
<1>3. ASSUME NEW k \in Keys, NEW w \in Remotes
      PROVE  Newest(k, w) /\ InTurn(k) /\ TellsItsOwn(k, w) /\ WitnessesSettle(k, w)
  <2>1. w \in Devices
    BY Distinct
  <2> QED
    BY <1>1, <1>2, <2>1 DEF Newest, InTurn, TellsItsOwn, WitnessesSettle
<1> QED
  BY <1>1, <1>3 DEF RemotesEntries, WitnessesReady

\* The updates of an entry that a remote sets are relayed in the order of its
\* writes and overtake nothing newer, and every witness of one settles on its
\* value: this rests on a page being sent no parts any more once it is ready.
THEOREM AlwaysSettled == Spec => [](RemotesEntries /\ WitnessesReady)
<1> DEFINE Inv == RemotesEntries /\ WitnessesReady
<1>1. Init => Inv
  BY InitRemotes
<1>2. Joining /\ HandshakesInOrder /\ ValuesBounded /\ Inv /\ [Next]_vars => Inv'
  BY NextDoes, StepWitnesses, StepRemotes
<1>3. ValuesBounded /\ MastersEntries => ValuesBounded
  OBVIOUS
<1> HIDE DEF Inv
<1>4. Spec => []Inv
  BY <1>1, <1>2, <1>3, AlwaysJoining, AlwaysInOrder, AlwaysMasters, PTL DEF Spec
<1> QED
  BY <1>4 DEF Inv

\* When nothing is under way, everybody who was ready when an entry was relayed
\* last, and still is, has the same value for it.
THEOREM WitnessesHaveTheSame == Spec => []WitnessesAgree
<1>1. Joining /\ MastersEntriesArrive /\ RemotesEntries /\ WitnessesReady => WitnessesAgree
  <2> SUFFICES ASSUME Joining, MastersEntriesArrive, RemotesEntries, WitnessesReady, Quiet,
                      NEW k \in Keys, NEW d \in witnesses[k], NEW e \in witnesses[k]
               PROVE  data[d][k] = data[e][k]
    BY DEF WitnessesAgree
  <2>1. CASE Writer[k] = Master
    <3>1. \A r \in ready : data[r][k] = data[Master][k]
      BY <2>1 DEF MastersEntriesArrive
    <3>2. d \in ready \cup {Master} /\ e \in ready \cup {Master}
      BY DEF WitnessesReady
    <3> QED
      BY <3>1, <3>2
  <2>2. CASE Writer[k] # Master
    <3>1. Writer[k] \in Remotes
      BY <2>2, Distinct
    <3> DEFINE w == Writer[k]
    <3>2. PICK v \in 0..MaxWrites : \A a \in witnesses[k] : Settles(a, k, w, v)
      BY <3>1 DEF RemotesEntries, WitnessesSettle
    <3>3. \A a \in Devices : Out(a) = {} /\ In(a) = {}
      BY NoMembers DEF Quiet, Out, In
    <3>4. witnesses[k] \subseteq Devices
      BY DEF Joining, TypeOK
    <3>5. \A a \in witnesses[k] : data[a][k] = v
      BY <3>2, <3>3, <3>4 DEF Settles
    <3> QED
      BY <3>5
  <2> QED
    BY <2>1, <2>2
<1> QED
  BY <1>1, AlwaysJoining, MastersEntriesAreThere, AlwaysSettled, PTL

====
