-------------------------- MODULE RemoteLibraryProofs --------------------------
(***************************************************************************)
(* Proofs about RemoteLibrary, for any set of masters and any bound on     *)
(* armed disconnects: the invariants and the action property that its run  *)
(* checks.                                                                 *)
(*                                                                         *)
(* The manager's state runs ahead of the web view, so the invariants are   *)
(* stated of what the view will be once the posted calls are made: Target  *)
(* is the page it will be given, WillBeVisible whether it will be seen.    *)
(* Posting a call and making one change them in the ways that the lemmas   *)
(* on the queue state; the rest is one case per action.                    *)
(***************************************************************************)
EXTENDS RemoteLibrary, SetInduction, SequenceTheorems, TLAPS

-----------------------------------------------------------------------------
(* What the posted calls will have done when all of them are made.         *)

\* The last of a set of positions.
Latest(S) == CHOOSE i \in S : \A j \in S : j <= i

\* The positions of the calls that hide or show the web view.
Sights == {i \in 1..Len(mainQueue) : mainQueue[i].call # "disconnectwebsocket"}

\* The call leaves the web view visible.
Reveals(c) == c = Show \/ (c.call = "load" /\ c.page # Blank)

\* The web view will be visible.
WillBeVisible ==
    IF Sights # {} THEN Reveals(mainQueue[Latest(Sights)]) ELSE visible

\* The page that is shown is to be replaced.
Pending == Loads # {} \/ requested # Nothing

-----------------------------------------------------------------------------
(* The inductive invariant.                                                *)

\* The manager works for native pages only, the page reconnects elsewhere only.
Separate ==
    /\ native => ~reconnecting /\ timers = 0
    /\ ~native => /\ state = "disconnected" /\ ~visible
                  /\ mainQueue = <<>> /\ deferred = {}
    /\ socket # "none" => page \in Servers

\* A master's page that has no open websocket yet is the one the connecting
\* device waits for.
FreshIsAwaited ==
    native /\ page \in Servers /\ socket \in {"none", "opening"} =>
        state = "connecting" /\ ~Pending

\* A master's page that is on its way is the one the connecting device waits
\* for, and the view will be visible exactly when it is not the blank page.
PendingIsAwaited ==
    native /\ Pending =>
        /\ Target \in Servers => state = "connecting"
        /\ WillBeVisible <=> Target # Blank

\* A connected device has nothing posted but the call that shows the page.
ConnectedIsSettled ==
    state = "connected" =>
        /\ socket = "open"
        /\ requested = Nothing
        /\ mainQueue \in {<<>>, <<Show>>}
        /\ mainQueue = <<>> => visible

\* The page of a websocket that is gone will not be seen.
GoneIsHidden ==
    ~IsActive /\ socket \in {"none", "closed"} => ~WillBeVisible

\* The reconnects of a browser are accounted for.
ReconnectsAccounted ==
    /\ ReconnectsOnce
    /\ ~reconnecting /\ socket # "closed" => timers = 0
    /\ reconnecting /\ socket = "open" => requested # Nothing

IInv ==
    /\ LibraryTypeOK
    /\ Separate
    /\ FreshIsAwaited
    /\ PendingIsAwaited
    /\ ConnectedIsSettled
    /\ GoneIsHidden
    /\ ReconnectsAccounted

-----------------------------------------------------------------------------
(* Lemmas on positions.                                                    *)

\* Latest is that position, and the only one after which none comes.
LEMMA LatestIsLast ==
    ASSUME NEW n \in Nat, NEW S \in SUBSET (1..n), S # {}
    PROVE  /\ Latest(S) \in S
           /\ \A j \in S : j <= Latest(S)
           /\ \A i \in S : (\A j \in S : j <= i) => i = Latest(S)
<1>1. \E i \in S : \A j \in S : j <= i
  BY LastPosition
<1>2. Latest(S) \in S /\ \A j \in S : j <= Latest(S)
  BY <1>1 DEF Latest
<1>3. ASSUME NEW i \in S, \A j \in S : j <= i
      PROVE  i = Latest(S)
  <2>1. i <= Latest(S) /\ Latest(S) <= i
    BY <1>2, <1>3
  <2>2. \A j \in S : j \in Nat
    OBVIOUS
  <2>3. i \in Nat /\ Latest(S) \in Nat
    BY <1>2, <2>2
  <2> QED
    BY <2>1, <2>3
<1> QED
  BY <1>2, <1>3

\* When the first call is made, the later ones move down by one position.
LEMMA LatestMovesDown ==
    ASSUME NEW n \in Nat, NEW S \in SUBSET (1..n), S # {}, S # {1},
           NEW T, T = {i \in 1..(n - 1) : i + 1 \in S}
    PROVE  /\ T # {}
           /\ Latest(S) = Latest(T) + 1
<1> DEFINE last == Latest(S)
<1>1. last \in S /\ \A j \in S : j <= last
  BY LatestIsLast
<1>2. last \in 2..n
  <2>1. PICK i \in S : i # 1
    OBVIOUS
  <2>2. i \in 1..n /\ last \in 1..n
    BY <1>1
  <2> QED
    BY <1>1, <2>1, <2>2
<1> HIDE DEF last
<1>3. last - 1 \in T
  BY <1>1, <1>2
<1>4. \A j \in T : j <= last - 1
  BY <1>1, <1>2
<1>5. last - 1 = Latest(T)
  <2>1. T \in SUBSET (1..n)
    OBVIOUS
  <2> QED
    BY <1>3, <1>4, <2>1, LatestIsLast
<1> QED
  BY <1>2, <1>3, <1>5 DEF last

-----------------------------------------------------------------------------
(* Lemmas on the queue of the main thread.                                 *)

\* The page that was asked for last and the sight of the view are those of the
\* last calls of their kind.
LEMMA LatestCalls ==
    /\ Target = IF Loads # {} THEN mainQueue[Latest(Loads)].page
                ELSE IF requested # Nothing THEN requested ELSE page
    /\ Target' = IF Loads' # {} THEN mainQueue'[Latest(Loads')].page
                 ELSE IF requested' # Nothing THEN requested' ELSE page'
BY DEF Target, Latest

\* A posted call comes last; the positions of the others stay.
LEMMA PostedLast ==
    ASSUME LibraryTypeOK, NEW c \in Posted, Post(<<c>>)
    PROVE  /\ Len(mainQueue') = Len(mainQueue) + 1
           /\ mainQueue'[Len(mainQueue) + 1] = c
           /\ \A i \in 1..Len(mainQueue) : mainQueue'[i] = mainQueue[i]
           /\ mainQueue' \in Seq(Posted)
           /\ Len(mainQueue) \in Nat
<1>1. mainQueue \in Seq(Posted) /\ <<c>> \in Seq(Posted) /\ Len(<<c>>) = 1 /\ <<c>>[1] = c
  BY DEF LibraryTypeOK
<1>2. Len(mainQueue) \in Nat
  BY <1>1, LenProperties
<1> QED
  BY <1>1, <1>2, ConcatProperties DEF Post

\* Posting the load of a page makes it the one that was asked for last, and
\* decides what will be seen.
LEMMA PostLoad ==
    ASSUME LibraryTypeOK, NEW p \in Servers \cup {Blank}, Post(<<Load(p)>>)
    PROVE  /\ Loads' # {}
           /\ Target' = p
           /\ WillBeVisible' <=> p # Blank
<1> DEFINE last == Len(mainQueue) + 1
<1>1. Load(p) \in Posted
  BY DEF Posted
<1>2. /\ Len(mainQueue') = last
      /\ last \in Nat \ {0}
      /\ mainQueue'[last] = Load(p)
  BY <1>1, PostedLast
<1>3. last \in Loads' /\ last \in Sights'
  BY <1>2 DEF Loads, Sights, Load
<1>4. Loads' \in SUBSET (1..last) /\ Sights' \in SUBSET (1..last)
  BY <1>2 DEF Loads, Sights
<1>5. Latest(Loads') = last /\ Latest(Sights') = last
  <2>1. \A j \in 1..last : j <= last
    BY <1>2
  <2> HIDE DEF last
  <2> QED
    BY <1>2, <1>3, <1>4, <2>1, LatestIsLast
<1>6. Target' = p
  BY <1>2, <1>3, <1>5, LatestCalls DEF Load
<1>7. WillBeVisible' <=> Reveals(Load(p))
  BY <1>2, <1>3, <1>5 DEF WillBeVisible, Latest
<1> QED
  BY <1>3, <1>6, <1>7 DEF Reveals, Load, Show

\* Posting that the websocket is to be closed changes neither.
LEMMA PostCloseSocket ==
    ASSUME LibraryTypeOK, Post(<<CloseSocket>>),
           visible' = visible, requested' = requested, page' = page
    PROVE  /\ Pending' <=> Pending
           /\ Target' = Target
           /\ WillBeVisible' <=> WillBeVisible
<1>1. CloseSocket \in Posted
  BY DEF Posted
<1>2. /\ Len(mainQueue') = Len(mainQueue) + 1
      /\ mainQueue'[Len(mainQueue) + 1] = CloseSocket
      /\ \A i \in 1..Len(mainQueue) : mainQueue'[i] = mainQueue[i]
      /\ Len(mainQueue) \in Nat
  BY <1>1, PostedLast
<1>3. Loads' = Loads /\ Sights' = Sights
  BY <1>2 DEF Loads, Sights, CloseSocket
<1>4. Loads # {} => Latest(Loads) \in 1..Len(mainQueue)
  BY <1>2, LatestIsLast DEF Loads
<1>5. Sights # {} => Latest(Sights) \in 1..Len(mainQueue)
  BY <1>2, LatestIsLast DEF Sights
<1>6. Target' = Target
  BY <1>2, <1>3, <1>4, LatestCalls
<1>7. WillBeVisible' <=> WillBeVisible
  BY <1>2, <1>3, <1>5 DEF WillBeVisible, Latest
<1> QED
  BY <1>3, <1>6, <1>7 DEF Pending

\* Making the next call changes neither: what it does to the web view is what
\* it was counted for.
LEMMA PostedCallKeeps ==
    ASSUME LibraryTypeOK, PostedCall
    PROVE  /\ mainQueue' \in Seq(Posted)
           /\ Pending' <=> Pending
           /\ Target' = Target
           /\ WillBeVisible' <=> WillBeVisible
<1> DEFINE n == Len(mainQueue)
           c == Head(mainQueue)
<1>1. /\ mainQueue \in Seq(Posted) /\ mainQueue # <<>>
      /\ mainQueue' = Tail(mainQueue)
  BY DEF PostedCall, LibraryTypeOK
<1>2. /\ n \in Nat \ {0}
      /\ mainQueue' \in Seq(Posted)
      /\ Len(mainQueue') = n - 1
      /\ \A i \in 1..(n - 1) : mainQueue'[i] = mainQueue[i + 1]
      /\ c = mainQueue[1] /\ c \in Posted
  BY <1>1, HeadTailProperties, EmptySeq, LenProperties
<1>3. /\ Loads' = {i \in 1..(n - 1) : i + 1 \in Loads}
      /\ Sights' = {i \in 1..(n - 1) : i + 1 \in Sights}
  BY <1>2 DEF Loads, Sights
<1>4. Loads \in SUBSET (1..n) /\ Sights \in SUBSET (1..n)
  BY DEF Loads, Sights
<1>5. /\ Loads \notin {{}, {1}} =>
           Loads' # {} /\ Latest(Loads) = Latest(Loads') + 1
      /\ Sights \notin {{}, {1}} =>
           Sights' # {} /\ Latest(Sights) = Latest(Sights') + 1
  <2> HIDE DEF n
  <2>1. ASSUME NEW S \in SUBSET (1..n), NEW T, T = {i \in 1..(n - 1) : i + 1 \in S},
               S \notin {{}, {1}}
        PROVE  T # {} /\ Latest(S) = Latest(T) + 1
    BY <1>2, <2>1, LatestMovesDown
  <2>2. Loads \notin {{}, {1}} => Loads' # {} /\ Latest(Loads) = Latest(Loads') + 1
    BY <1>3, <1>4, <2>1
  <2>3. Sights \notin {{}, {1}} => Sights' # {} /\ Latest(Sights) = Latest(Sights') + 1
    BY <1>3, <1>4, <2>1
  <2> QED
    BY <2>2, <2>3
<1>6. /\ Loads' # {} => Latest(Loads') \in 1..(n - 1)
      /\ Sights' # {} => Latest(Sights') \in 1..(n - 1)
  <2>1. Loads' \in SUBSET (1..(n - 1)) /\ Sights' \in SUBSET (1..(n - 1))
    BY <1>3
  <2>2. n - 1 \in Nat
    BY <1>2
  <2> HIDE DEF n
  <2> QED
    BY <2>1, <2>2, LatestIsLast
<1>7. /\ Loads \in {{}, {1}} => Loads' = {}
      /\ Sights \in {{}, {1}} => Sights' = {}
  BY <1>2, <1>3
<1>8. Latest({1}) = 1
  BY LatestIsLast, 1 \in Nat
<1>9. /\ 1 \in Loads <=> c.call = "load"
      /\ 1 \in Sights <=> c # CloseSocket
  BY <1>2 DEF Loads, Sights, Posted, Load, Show, CloseSocket
<1>10. page' = page
  BY DEF PostedCall
<1>11. Loads \notin {{}, {1}} => Target' = Target /\ (Pending' <=> Pending)
  BY <1>2, <1>5, <1>6, LatestCalls DEF Pending
<1>12. Loads = {} => Target' = Target /\ (Pending' <=> Pending)
  BY <1>7, <1>9, <1>10, LatestCalls DEF PostedCall, Pending, Show, CloseSocket
<1>13. Loads = {1} => Target' = Target /\ (Pending' <=> Pending)
  <2>1. SUFFICES ASSUME Loads = {1}
                 PROVE  Target' = Target /\ (Pending' <=> Pending)
    OBVIOUS
  <2>2. c.call = "load" /\ requested' = c.page /\ Target = c.page
    BY <1>2, <1>8, <1>9, <2>1, LatestCalls DEF PostedCall, Show, CloseSocket
  <2>3. c.page # Nothing
    BY <1>2, <2>2, ServersAssumption DEF Posted, Load, Show, CloseSocket
  <2> QED
    BY <1>7, <2>1, <2>2, <2>3, LatestCalls DEF Pending
<1>14. Sights \notin {{}, {1}} => (WillBeVisible' <=> WillBeVisible)
  BY <1>2, <1>5, <1>6 DEF WillBeVisible, Latest
<1>15. Sights = {} => (WillBeVisible' <=> WillBeVisible)
  BY <1>7, <1>9 DEF PostedCall, WillBeVisible, Show, CloseSocket
<1>16. Sights = {1} => (WillBeVisible' <=> WillBeVisible)
  <2>1. SUFFICES ASSUME Sights = {1}
                 PROVE  WillBeVisible' <=> WillBeVisible
    OBVIOUS
  <2>2. WillBeVisible <=> Reveals(c)
    BY <1>2, <1>8, <2>1 DEF WillBeVisible
  <2>3. WillBeVisible' <=> visible'
    BY <1>7, <2>1 DEF WillBeVisible
  <2>4. c # CloseSocket
    BY <1>9, <2>1
  <2>5. visible' <=> Reveals(c)
    <3>1. CASE c = Show
      BY <3>1 DEF PostedCall, Reveals, Show, CloseSocket
    <3>2. CASE c # Show
      <4>1. c.call = "load"
        BY <1>2, <2>4, <3>2 DEF Posted, Load, Show, CloseSocket
      <4>2. visible' = (c.page # Blank)
        BY <2>4, <3>2 DEF PostedCall
      <4> QED
        BY <3>2, <4>1, <4>2 DEF Reveals
    <3> QED
      BY <3>1, <3>2
  <2> QED
    BY <2>2, <2>3, <2>5
<1> QED
  BY <1>2, <1>11, <1>12, <1>13, <1>14, <1>15, <1>16

\* An empty queue leaves what is requested, shown and seen.
LEMMA NothingPosted ==
    /\ mainQueue = <<>> =>
         /\ Pending <=> requested # Nothing
         /\ Target = IF requested # Nothing THEN requested ELSE page
         /\ WillBeVisible <=> visible
    /\ mainQueue' = <<>> =>
         /\ Pending' <=> requested' # Nothing
         /\ Target' = IF requested' # Nothing THEN requested' ELSE page'
         /\ WillBeVisible' <=> visible'
<1>1. /\ mainQueue = <<>> => Loads = {} /\ Sights = {}
      /\ mainQueue' = <<>> => Loads' = {} /\ Sights' = {}
  BY DEF Loads, Sights
<1> QED
  BY <1>1, LatestCalls DEF Pending, WillBeVisible

\* A step that leaves the queue alone.
LEMMA QueueStays ==
    ASSUME mainQueue' = mainQueue, visible' = visible
    PROVE  /\ WillBeVisible' <=> WillBeVisible
           /\ requested' = requested /\ page' = page =>
                Target' = Target /\ (Pending' <=> Pending)
<1>1. Loads' = Loads /\ Sights' = Sights
  BY DEF Loads, Sights
<1> QED
  BY <1>1, LatestCalls DEF Pending, WillBeVisible, Latest

-----------------------------------------------------------------------------
(* Every step preserves the inductive invariant.                           *)

\* Only the page's own steps touch the websocket and its reconnects.
LEMMA ReconnectsUntouched ==
    ASSUME IInv, UNCHANGED <<native, socket, reconnecting, timers>>,
           requested' # Nothing \/ requested' = requested
    PROVE  ReconnectsAccounted'
BY DEF IInv, ReconnectsAccounted, ReconnectsOnce

\* connectToServer: asks for a page only when the device is disconnected.
LEMMA ConnectToServerStep ==
    ASSUME IInv, NEW s \in Servers, NEW waiting \in SUBSET Servers,
           native, ConnectToServer(s, waiting),
           UNCHANGED <<native, polls, visible, viewVars>>
    PROVE  IInv'
<1> USE DEF viewVars, reconnectVars
<1>1. LibraryTypeOK /\ Separate /\ FreshIsAwaited /\ PendingIsAwaited
      /\ ConnectedIsSettled /\ GoneIsHidden
  BY DEF IInv
<1>2. ReconnectsAccounted'
  BY ReconnectsUntouched
<1>3. CASE UNCHANGED <<state, mainQueue>>
  <2>1. /\ Target' = Target /\ (Pending' <=> Pending)
        /\ WillBeVisible' <=> WillBeVisible
    BY <1>3, QueueStays
  <2>2. LibraryTypeOK'
    BY <1>1, <1>3 DEF ConnectToServer, LibraryTypeOK
  <2>3. Separate'
    BY <1>1, <1>3 DEF Separate
  <2>4. FreshIsAwaited' /\ PendingIsAwaited'
    BY <1>1, <1>3, <2>1 DEF FreshIsAwaited, PendingIsAwaited
  <2>5. ConnectedIsSettled' /\ GoneIsHidden'
    BY <1>1, <1>3, <2>1 DEF ConnectedIsSettled, GoneIsHidden, IsActive
  <2> QED
    BY <1>2, <2>2, <2>3, <2>4, <2>5 DEF IInv
<1>4. CASE /\ state = "disconnected" /\ state' = "connecting"
           /\ Post(<<Load(s)>>)
           /\ deferred' = waiting
  <2>1. Target' = s /\ (WillBeVisible' <=> s # Blank)
    BY <1>1, <1>4, PostLoad
  <2>2. LibraryTypeOK'
    <3>1. Load(s) \in Posted
      BY DEF Posted
    <3>2. mainQueue' \in Seq(Posted)
      BY <1>1, <1>4, <3>1, PostedLast
    <3> QED
      BY <1>1, <1>4, <3>2 DEF LibraryTypeOK
  <2>3. Separate'
    BY <1>1, <1>4 DEF Separate
  <2>4. FreshIsAwaited' /\ PendingIsAwaited'
    BY <1>1, <1>4, <2>1 DEF FreshIsAwaited, PendingIsAwaited
  <2>5. ConnectedIsSettled' /\ GoneIsHidden'
    BY <1>4 DEF ConnectedIsSettled, GoneIsHidden, IsActive
  <2> QED
    BY <1>2, <2>2, <2>3, <2>4, <2>5 DEF IInv
<1> QED
  BY <1>3, <1>4 DEF ConnectToServer

\* disconnect: leaves a connecting device connecting.
LEMMA DisconnectStep ==
    ASSUME IInv, NEW waiting \in 0..MaxPolls, Disconnect(waiting),
           UNCHANGED <<native, deferred, visible, viewVars>>
    PROVE  IInv'
<1> USE DEF viewVars, reconnectVars
<1>1. LibraryTypeOK /\ Separate /\ FreshIsAwaited /\ PendingIsAwaited
      /\ ConnectedIsSettled /\ GoneIsHidden
  BY DEF IInv
<1>2. ReconnectsAccounted'
  BY ReconnectsUntouched
<1>3. polls' \in 0..MaxPolls
  BY ServersAssumption DEF Disconnect
<1>4. CASE UNCHANGED <<state, mainQueue>>
  <2>1. /\ Target' = Target /\ (Pending' <=> Pending)
        /\ WillBeVisible' <=> WillBeVisible
    BY <1>4, QueueStays
  <2>2. LibraryTypeOK'
    BY <1>1, <1>3, <1>4 DEF LibraryTypeOK
  <2>3. Separate'
    BY <1>1, <1>4 DEF Separate
  <2>4. FreshIsAwaited' /\ PendingIsAwaited'
    BY <1>1, <1>4, <2>1 DEF FreshIsAwaited, PendingIsAwaited
  <2>5. ConnectedIsSettled' /\ GoneIsHidden'
    BY <1>1, <1>4, <2>1 DEF ConnectedIsSettled, GoneIsHidden, IsActive
  <2> QED
    BY <1>2, <2>2, <2>3, <2>4, <2>5 DEF IInv
<1>5. CASE /\ state = "connected" /\ state' = "disconnecting"
           /\ Post(<<CloseSocket>>)
           /\ polls' = waiting
  <2>1. /\ Target' = Target /\ (Pending' <=> Pending)
        /\ WillBeVisible' <=> WillBeVisible
    BY <1>1, <1>5, PostCloseSocket
  <2>2. native /\ socket = "open" /\ requested = Nothing
    BY <1>1, <1>5 DEF Separate, ConnectedIsSettled
  <2>3. LibraryTypeOK'
    <3>1. CloseSocket \in Posted
      BY DEF Posted
    <3>2. mainQueue' \in Seq(Posted)
      BY <1>1, <1>5, <3>1, PostedLast
    <3> QED
      BY <1>1, <1>3, <1>5, <3>2 DEF LibraryTypeOK
  <2>4. Separate'
    BY <1>1, <2>2 DEF Separate
  <2>5. ~Pending
    <3>1. \A i \in 1..Len(mainQueue) : mainQueue[i] = Show
      BY <1>1, <1>5 DEF ConnectedIsSettled
    <3> QED
      BY <2>2, <3>1 DEF Pending, Loads, Show
  <2>6. FreshIsAwaited' /\ PendingIsAwaited'
    BY <2>1, <2>2, <2>5 DEF FreshIsAwaited, PendingIsAwaited
  <2>7. ConnectedIsSettled' /\ GoneIsHidden'
    BY <1>5, <2>2 DEF ConnectedIsSettled, GoneIsHidden
  <2> QED
    BY <1>2, <2>3, <2>4, <2>6, <2>7 DEF IInv
<1> QED
  BY <1>4, <1>5 DEF Disconnect

\* A call of the main thread does to the view what it was counted for; only the
\* websocket that is told to close matters beside it, and a connected device
\* has no such call posted.
LEMMA PostedCallStep ==
    ASSUME IInv, PostedCall
    PROVE  IInv'
<1> USE DEF reconnectVars
<1>1. LibraryTypeOK /\ Separate /\ FreshIsAwaited /\ PendingIsAwaited
      /\ ConnectedIsSettled /\ GoneIsHidden /\ ReconnectsAccounted
  BY DEF IInv
<1>2. /\ mainQueue' \in Seq(Posted)
      /\ Target' = Target /\ (Pending' <=> Pending)
      /\ WillBeVisible' <=> WillBeVisible
  BY <1>1, PostedCallKeeps
<1>3. native
  BY <1>1 DEF Separate, PostedCall
<1>4. /\ socket' = socket \/ (socket = "open" /\ socket' = "closing")
      /\ UNCHANGED <<native, state, deferred, polls, page, loading,
                     reconnecting, timers>>
  BY DEF PostedCall
<1>5. LibraryTypeOK'
  <2>1. Head(mainQueue) \in Posted
    BY <1>1, HeadTailProperties DEF PostedCall, LibraryTypeOK
  <2>2. requested' \in Servers \cup {Blank, Nothing}
    BY <1>1, <2>1 DEF PostedCall, LibraryTypeOK, Posted, Load, Show, CloseSocket
  <2>3. visible' \in BOOLEAN
    BY <1>1 DEF PostedCall, LibraryTypeOK
  <2> QED
    BY <1>1, <1>2, <1>4, <2>2, <2>3 DEF LibraryTypeOK
<1>6. Separate'
  BY <1>1, <1>3, <1>4 DEF Separate
<1>7. FreshIsAwaited' /\ PendingIsAwaited'
  BY <1>1, <1>2, <1>4 DEF FreshIsAwaited, PendingIsAwaited
<1>8. ConnectedIsSettled'
  <2>1. SUFFICES ASSUME state = "connected"
                 PROVE  ConnectedIsSettled'
    BY <1>4 DEF ConnectedIsSettled
  <2>2. mainQueue = <<Show>>
    BY <1>1, <2>1 DEF ConnectedIsSettled, PostedCall
  <2>3. Head(mainQueue) = Show /\ mainQueue' = <<>>
    BY <2>2 DEF PostedCall
  <2>4. visible' /\ UNCHANGED <<requested, socket>>
    BY <2>3 DEF PostedCall, Show, CloseSocket
  <2> QED
    BY <1>1, <2>1, <2>3, <2>4 DEF ConnectedIsSettled
<1>9. GoneIsHidden'
  BY <1>1, <1>2, <1>4 DEF GoneIsHidden, IsActive
<1>10. ReconnectsAccounted'
  BY <1>1, <1>3, <1>4 DEF ReconnectsAccounted, ReconnectsOnce, Separate
<1> QED
  BY <1>5, <1>6, <1>7, <1>8, <1>9, <1>10 DEF IInv

\* A page is asked for in a browser.
LEMMA OpenInBrowserStep ==
    ASSUME IInv, NEW s \in Servers, OpenInBrowser(s)
    PROVE  IInv'
<1> USE DEF OpenInBrowser, managerVars, reconnectVars
<1>1. LibraryTypeOK /\ Separate /\ FreshIsAwaited /\ PendingIsAwaited
      /\ ConnectedIsSettled /\ GoneIsHidden /\ ReconnectsAccounted
  BY DEF IInv
<1>2. LibraryTypeOK' /\ Separate'
  BY <1>1 DEF LibraryTypeOK, Separate
<1>3. FreshIsAwaited' /\ PendingIsAwaited' /\ ConnectedIsSettled'
  BY <1>1 DEF FreshIsAwaited, PendingIsAwaited, ConnectedIsSettled, Separate
<1>4. GoneIsHidden'
  BY <1>1, QueueStays DEF GoneIsHidden, IsActive
<1>5. ReconnectsAccounted'
  BY ReconnectsUntouched, ServersAssumption
<1> QED
  BY <1>2, <1>3, <1>4, <1>5 DEF IInv

\* The page that replaces the shown one was pending, so it is the one that the
\* device waits for, or blank and hidden.
LEMMA PageLoadsStep ==
    ASSUME IInv, PageLoads
    PROVE  IInv'
<1> USE DEF PageLoads, managerVars
<1>1. LibraryTypeOK /\ Separate /\ FreshIsAwaited /\ PendingIsAwaited
      /\ ConnectedIsSettled /\ GoneIsHidden /\ ReconnectsAccounted
  BY DEF IInv
<1>2. /\ Pending /\ Target = requested /\ (WillBeVisible <=> visible)
      /\ ~Pending' /\ Target' = requested /\ (WillBeVisible' <=> visible)
  BY NothingPosted
<1>3. LibraryTypeOK' /\ Separate'
  BY <1>1 DEF LibraryTypeOK, Separate
<1>4. FreshIsAwaited' /\ PendingIsAwaited'
  BY <1>1, <1>2 DEF FreshIsAwaited, PendingIsAwaited
<1>5. ConnectedIsSettled'
  BY <1>1 DEF ConnectedIsSettled
<1>6. GoneIsHidden'
  <2>1. CASE native
    <3>1. requested \in Servers => state = "connecting"
      BY <1>1, <1>2, <2>1 DEF PendingIsAwaited
    <3>2. requested = Blank => ~visible
      BY <1>1, <1>2, <2>1 DEF PendingIsAwaited
    <3> QED
      BY <1>1, <1>2, <3>1, <3>2 DEF GoneIsHidden, IsActive, LibraryTypeOK
  <2>2. CASE ~native
    BY <1>1, <1>2, <2>2 DEF GoneIsHidden, Separate
  <2> QED
    BY <2>1, <2>2
<1>7. ReconnectsAccounted'
  BY DEF ReconnectsAccounted, ReconnectsOnce
<1> QED
  BY <1>3, <1>4, <1>5, <1>6, <1>7 DEF IInv

\* A load that fails leaves the web view its page, a browser an error.
LEMMA LoadFailsStep ==
    ASSUME IInv, LoadFails
    PROVE  IInv'
<1> USE DEF LoadFails, managerVars, reconnectVars
<1>1. LibraryTypeOK /\ Separate /\ FreshIsAwaited /\ PendingIsAwaited
      /\ ConnectedIsSettled /\ GoneIsHidden /\ ReconnectsAccounted
  BY DEF IInv
<1>2. WillBeVisible' <=> WillBeVisible
  BY QueueStays
<1>3. Pending
  BY ServersAssumption DEF Pending
<1>4. LibraryTypeOK' /\ Separate'
  <2>1. CASE /\ native
             /\ UNCHANGED <<page, socket, reconnecting, timers>>
    BY <1>1, <2>1 DEF LibraryTypeOK, Separate
  <2>2. CASE /\ ~native /\ page' = Blank /\ socket' = "none"
             /\ reconnecting' = FALSE /\ timers' = 0
    BY <1>1, <2>2 DEF LibraryTypeOK, Separate
  <2> QED
    BY <2>1, <2>2
<1>5. FreshIsAwaited'
  BY <1>1, <1>3 DEF FreshIsAwaited
<1>6. PendingIsAwaited'
  <2>1. Loads' = Loads
    BY DEF Loads
  <2>2. Loads # {} => Target' = Target
    BY <2>1, LatestCalls
  <2> QED
    BY <1>1, <1>2, <1>3, <2>1, <2>2 DEF PendingIsAwaited, Pending
<1>7. ConnectedIsSettled'
  BY <1>1, ServersAssumption DEF ConnectedIsSettled
<1>8. GoneIsHidden'
  <2>1. CASE native
    BY <1>1, <1>2, <2>1 DEF GoneIsHidden, IsActive
  <2>2. CASE ~native
    BY <1>1, <1>2, <2>2, NothingPosted DEF Separate, GoneIsHidden
  <2> QED
    BY <2>1, <2>2
<1>9. ReconnectsAccounted'
  BY <1>1 DEF ReconnectsAccounted, ReconnectsOnce, Separate
<1> QED
  BY <1>4, <1>5, <1>6, <1>7, <1>8, <1>9 DEF IInv

\* A page that finished loading ends the disconnecting.
LEMMA WebViewDidFinishLoadStep ==
    ASSUME IInv, WebViewDidFinishLoad
    PROVE  IInv'
<1> USE DEF WebViewDidFinishLoad, reconnectVars
<1>1. LibraryTypeOK /\ Separate /\ FreshIsAwaited /\ PendingIsAwaited
      /\ ConnectedIsSettled /\ GoneIsHidden /\ ReconnectsAccounted
  BY DEF IInv
<1>2. /\ Target' = Target /\ (Pending' <=> Pending)
      /\ WillBeVisible' <=> WillBeVisible
  BY QueueStays
<1>3. state' = state \/ (state = "disconnecting" /\ state' = "disconnected")
  OBVIOUS
<1>4. LibraryTypeOK' /\ Separate'
  <2>1. state' \in {"disconnected", "connecting", "connected", "disconnecting"}
    BY <1>1, <1>3 DEF LibraryTypeOK
  <2>2. LibraryTypeOK'
    BY <1>1, <2>1 DEF LibraryTypeOK
  <2> QED
    BY <1>1, <1>3, <2>2 DEF Separate
<1>5. FreshIsAwaited' /\ PendingIsAwaited'
  BY <1>1, <1>2, <1>3 DEF FreshIsAwaited, PendingIsAwaited
<1>6. ConnectedIsSettled' /\ GoneIsHidden'
  BY <1>1, <1>2, <1>3 DEF ConnectedIsSettled, GoneIsHidden, IsActive
<1>7. ReconnectsAccounted'
  BY ReconnectsUntouched
<1> QED
  BY <1>4, <1>5, <1>6, <1>7 DEF IInv

\* The scripts of a page open its websocket.
LEMMA ConnectWebsocketStep ==
    ASSUME IInv, ConnectWebsocket
    PROVE  IInv'
<1> USE DEF ConnectWebsocket, managerVars, reconnectVars
<1>1. LibraryTypeOK /\ Separate /\ FreshIsAwaited /\ PendingIsAwaited
      /\ ConnectedIsSettled /\ GoneIsHidden /\ ReconnectsAccounted
  BY DEF IInv
<1>2. /\ Target' = Target /\ (Pending' <=> Pending)
      /\ WillBeVisible' <=> WillBeVisible
  BY QueueStays
<1>3. LibraryTypeOK' /\ Separate'
  BY <1>1 DEF LibraryTypeOK, Separate
<1>4. FreshIsAwaited' /\ PendingIsAwaited'
  BY <1>1, <1>2 DEF FreshIsAwaited, PendingIsAwaited
<1>5. ConnectedIsSettled' /\ GoneIsHidden'
  BY <1>1 DEF ConnectedIsSettled, GoneIsHidden
<1>6. ReconnectsAccounted'
  BY <1>1 DEF ReconnectsAccounted, ReconnectsOnce
<1> QED
  BY <1>3, <1>4, <1>5, <1>6 DEF IInv

\* A websocket that opens connects the device that waits for its page, for which
\* nothing else is posted or requested; a browser's reconnect loads the page
\* again.
LEMMA WebsocketDidOpenStep ==
    ASSUME IInv, WebsocketDidOpen
    PROVE  IInv'
<1> USE DEF WebsocketDidOpen, reconnectVars
<1>1. LibraryTypeOK /\ Separate /\ FreshIsAwaited /\ PendingIsAwaited
      /\ ConnectedIsSettled /\ GoneIsHidden /\ ReconnectsAccounted
  BY DEF IInv
<1>2. page \in Servers
  BY <1>1 DEF Separate
<1>3. CASE native
  <2>1. /\ ~reconnecting /\ state' = "connected"
        /\ mainQueue' = <<>> \o <<Show>>
        /\ UNCHANGED requested
    BY <1>1, <1>3 DEF Separate, Post
  <2>2. mainQueue' = <<Show>>
    BY <2>1
  <2>3. state = "connecting" /\ ~Pending
    BY <1>1, <1>2, <1>3 DEF FreshIsAwaited
  <2>4. requested = Nothing /\ ~Pending'
    <3>1. \A i \in 1..Len(mainQueue') : mainQueue'[i] = Show
      BY <2>2
    <3> QED
      BY <2>1, <2>3, <3>1 DEF Pending, Loads, Show
  <2>5. LibraryTypeOK'
    BY <1>1, <2>1, <2>2 DEF LibraryTypeOK, Posted
  <2>6. Separate'
    BY <1>1, <1>2, <1>3 DEF Separate
  <2>7. FreshIsAwaited' /\ PendingIsAwaited'
    BY <2>4 DEF FreshIsAwaited, PendingIsAwaited
  <2>8. ConnectedIsSettled' /\ GoneIsHidden'
    BY <2>1, <2>2, <2>4 DEF ConnectedIsSettled, GoneIsHidden
  <2>9. ReconnectsAccounted'
    BY <1>1, <1>3, <2>1 DEF ReconnectsAccounted, ReconnectsOnce
  <2> QED
    BY <2>5, <2>6, <2>7, <2>8, <2>9 DEF IInv
<1>4. CASE ~native
  <2>1. UNCHANGED <<state, mainQueue>>
    BY <1>4
  <2>2. LibraryTypeOK' /\ Separate'
    BY <1>1, <1>2, <2>1 DEF LibraryTypeOK, Separate
  <2>3. FreshIsAwaited' /\ PendingIsAwaited' /\ ConnectedIsSettled'
    BY <1>1, <1>4 DEF FreshIsAwaited, PendingIsAwaited, ConnectedIsSettled, Separate
  <2>4. GoneIsHidden'
    BY DEF GoneIsHidden
  <2>5. ReconnectsAccounted'
    BY <1>1, <1>2, <1>4, ServersAssumption DEF ReconnectsAccounted, ReconnectsOnce
  <2> QED
    BY <2>2, <2>3, <2>4, <2>5 DEF IInv
<1> QED
  BY <1>3, <1>4

\* A websocket that closes makes a native device ask for the blank page, and a
\* browser arm a reconnect unless one is armed.
LEMMA WebsocketDidCloseStep ==
    ASSUME IInv, WebsocketDidClose
    PROVE  IInv'
<1> USE DEF WebsocketDidClose
<1>1. LibraryTypeOK /\ Separate /\ FreshIsAwaited /\ PendingIsAwaited
      /\ ConnectedIsSettled /\ GoneIsHidden /\ ReconnectsAccounted
  BY DEF IInv
<1>2. CASE native
  <2>1. /\ state' = "disconnecting" /\ Post(<<Load(Blank)>>)
        /\ UNCHANGED timers
    BY <1>2
  <2>2. Target' = Blank /\ ~WillBeVisible'
    BY <1>1, <2>1, PostLoad
  <2>3. LibraryTypeOK'
    <3>1. Load(Blank) \in Posted
      BY DEF Posted
    <3>2. mainQueue' \in Seq(Posted)
      BY <1>1, <2>1, <3>1, PostedLast
    <3> QED
      BY <1>1, <2>1, <3>2 DEF LibraryTypeOK
  <2>4. Separate'
    BY <1>1, <1>2, <2>1 DEF Separate
  <2>5. FreshIsAwaited' /\ PendingIsAwaited'
    BY <2>2, ServersAssumption DEF FreshIsAwaited, PendingIsAwaited
  <2>6. ConnectedIsSettled' /\ GoneIsHidden'
    BY <2>1, <2>2 DEF ConnectedIsSettled, GoneIsHidden
  <2>7. ReconnectsAccounted'
    BY <1>1, <1>2, <2>1 DEF Separate, ReconnectsAccounted, ReconnectsOnce
  <2> QED
    BY <2>3, <2>4, <2>5, <2>6, <2>7 DEF IInv
<1>3. CASE ~native
  <2>1. /\ UNCHANGED <<state, mainQueue>>
        /\ timers' = IF reconnecting THEN timers ELSE timers + 1
    BY <1>3
  <2>2. timers' \in Nat
    BY <1>1, <2>1 DEF LibraryTypeOK
  <2>3. LibraryTypeOK' /\ Separate'
    BY <1>1, <1>3, <2>1, <2>2 DEF LibraryTypeOK, Separate
  <2>4. FreshIsAwaited' /\ PendingIsAwaited' /\ ConnectedIsSettled'
    BY <1>1, <1>3, <2>1 DEF FreshIsAwaited, PendingIsAwaited, ConnectedIsSettled,
                            Separate
  <2>5. GoneIsHidden'
    BY <1>1, <1>3, <2>1, NothingPosted DEF GoneIsHidden, Separate
  <2>6. ReconnectsAccounted'
    BY <1>1, <1>3, <2>1 DEF ReconnectsAccounted, ReconnectsOnce
  <2> QED
    BY <2>3, <2>4, <2>5, <2>6 DEF IInv
<1> QED
  BY <1>2, <1>3

\* A reconnect arms itself again, or is spent on an open websocket while the
\* page that it led to is requested.
LEMMA TryWebsocketReconnectStep ==
    ASSUME IInv, TryWebsocketReconnect
    PROVE  IInv'
<1> USE DEF TryWebsocketReconnect, managerVars
<1>1. LibraryTypeOK /\ Separate /\ FreshIsAwaited /\ PendingIsAwaited
      /\ ConnectedIsSettled /\ GoneIsHidden /\ ReconnectsAccounted
  BY DEF IInv
<1>2. ~native /\ timers = 1
  BY <1>1 DEF Separate, ReconnectsAccounted, ReconnectsOnce, LibraryTypeOK
<1>3. timers' \in {0, 1} /\ socket' \in {"open", "opening"}
  BY <1>2
<1>4. LibraryTypeOK' /\ Separate'
  <2>1. reconnecting' \in BOOLEAN
    BY <1>1 DEF LibraryTypeOK
  <2>2. LibraryTypeOK'
    BY <1>1, <1>3, <2>1 DEF LibraryTypeOK
  <2>3. Separate'
    BY <1>1, <1>2 DEF Separate
  <2> QED
    BY <2>2, <2>3
<1>5. FreshIsAwaited' /\ PendingIsAwaited' /\ ConnectedIsSettled'
  BY <1>1, <1>2 DEF FreshIsAwaited, PendingIsAwaited, ConnectedIsSettled, Separate
<1>6. GoneIsHidden'
  BY <1>3 DEF GoneIsHidden
<1>7. ReconnectsAccounted'
  BY <1>1, <1>2, <1>3 DEF ReconnectsAccounted, ReconnectsOnce
<1> QED
  BY <1>4, <1>5, <1>6, <1>7 DEF IInv

\* Every step preserves the inductive invariant.
LEMMA StepPreservesIInv ==
    ASSUME IInv, [LibraryNext]_libraryVars
    PROVE  IInv'
<1>1. LibraryTypeOK /\ Separate
  BY DEF IInv
<1>2. ASSUME NEW s \in Servers, DidReceiveDeviceURL(s)
      PROVE  IInv'
  <2>1. deferred \in SUBSET Servers
    BY <1>1 DEF LibraryTypeOK
  <2> QED
    BY <1>2, <2>1, ConnectToServerStep DEF DidReceiveDeviceURL
<1>3. ASSUME NEW s \in Servers, DeferredConnect(s)
      PROVE  IInv'
  <2>1. deferred \ {s} \in SUBSET Servers
    BY <1>1 DEF LibraryTypeOK
  <2>2. native
    BY <1>1, <1>3 DEF Separate, DeferredConnect
  <2> QED
    BY <1>3, <2>1, <2>2, ConnectToServerStep DEF DeferredConnect
<1>4. CASE EnterBackground
  BY <1>1, <1>4, DisconnectStep DEF EnterBackground, LibraryTypeOK
<1>5. CASE DelayedDisconnect
  <2>1. polls - 1 \in 0..MaxPolls
    BY <1>1, <1>5, ServersAssumption DEF DelayedDisconnect, LibraryTypeOK
  <2> QED
    BY <1>5, <2>1, DisconnectStep DEF DelayedDisconnect
<1>6. CASE UNCHANGED libraryVars
  <2> USE <1>6 DEF libraryVars, managerVars, viewVars, reconnectVars
  <2>1. /\ Target' = Target /\ (Pending' <=> Pending)
        /\ WillBeVisible' <=> WillBeVisible
    BY QueueStays
  <2>2. LibraryTypeOK' /\ Separate' /\ ConnectedIsSettled'
    BY DEF IInv, LibraryTypeOK, Separate, ConnectedIsSettled
  <2>3. FreshIsAwaited' /\ PendingIsAwaited' /\ GoneIsHidden'
    BY <2>1 DEF IInv, FreshIsAwaited, PendingIsAwaited, GoneIsHidden, IsActive
  <2>4. ReconnectsAccounted'
    BY ReconnectsUntouched
  <2> QED
    BY <2>2, <2>3, <2>4 DEF IInv
<1> QED
  BY <1>2, <1>3, <1>4, <1>5, <1>6, PostedCallStep, OpenInBrowserStep, PageLoadsStep,
     LoadFailsStep, WebViewDidFinishLoadStep, ConnectWebsocketStep,
     WebsocketDidOpenStep, WebsocketDidCloseStep, TryWebsocketReconnectStep
     DEF LibraryNext

-----------------------------------------------------------------------------
(* The theorems.                                                           *)

\* The inductive invariant holds of every reachable state.
THEOREM Invariant == LibrarySpec => []IInv
<1>1. LibraryInit => IInv
  <2>1. SUFFICES ASSUME LibraryInit
                 PROVE  IInv
    OBVIOUS
  <2>2. ~Pending /\ Target = Blank /\ ~WillBeVisible
    BY <2>1, NothingPosted DEF LibraryInit
  <2>3. LibraryTypeOK
    <3>1. mainQueue \in Seq(Posted)
      BY <2>1 DEF LibraryInit
    <3>2. polls \in 0..MaxPolls
      BY <2>1, ServersAssumption DEF LibraryInit
    <3> QED
      BY <2>1, <3>1, <3>2 DEF LibraryInit, LibraryTypeOK
  <2>4. Separate /\ FreshIsAwaited /\ ConnectedIsSettled /\ ReconnectsAccounted
    BY <2>1, ServersAssumption DEF LibraryInit, Separate, FreshIsAwaited,
       ConnectedIsSettled, ReconnectsAccounted, ReconnectsOnce
  <2>5. PendingIsAwaited /\ GoneIsHidden
    BY <2>2 DEF PendingIsAwaited, GoneIsHidden
  <2> QED
    BY <2>3, <2>4, <2>5 DEF IInv
<1>2. IInv /\ [LibraryNext]_libraryVars => IInv'
  BY StepPreservesIInv
<1> QED
  BY <1>1, <1>2, PTL DEF LibrarySpec

\* Every variable keeps its type, and at most MaxPolls disconnects are armed.
THEOREM LibraryTypeCorrect == LibrarySpec => []LibraryTypeOK
<1>1. IInv => LibraryTypeOK
  BY DEF IInv
<1> QED
  BY <1>1, Invariant, PTL

\* A connected remote has an open websocket, in the page the view is to show:
\* nativeWebsocketDidOpen comes from the page that the device waited for.
THEOREM ConnectedStaysOpen == LibrarySpec => []ConnectedIsOpen
<1>1. IInv => ConnectedIsOpen
  <2>1. SUFFICES ASSUME IInv, state = "connected"
                 PROVE  socket = "open" /\ Target = page
    BY DEF ConnectedIsOpen
  <2>2. /\ socket = "open" /\ requested = Nothing
        /\ mainQueue \in {<<>>, <<Show>>}
    BY <2>1 DEF IInv, ConnectedIsSettled
  <2>3. Loads = {}
    <3>1. \A i \in 1..Len(mainQueue) : mainQueue[i] = Show
      BY <2>2
    <3> QED
      BY <3>1 DEF Loads, Show
  <2> QED
    BY <2>2, <2>3, LatestCalls
<1> QED
  BY <1>1, Invariant, PTL

\* Once the posted calls are made the user sees the page of a connected remote,
\* and none whose websocket is gone.
THEOREM ScreenFollowsState == LibrarySpec => []ScreenFollows
<1>1. IInv => ScreenFollows
  BY NothingPosted DEF IInv, ConnectedIsSettled, GoneIsHidden, ScreenFollows
<1> QED
  BY <1>1, Invariant, PTL

\* A browser has one reconnect armed while its websocket is closed, and never
\* two: _onWebsocketClose does not arm another while reconnecting.
THEOREM OneReconnectArmed == LibrarySpec => []ReconnectsOnce
<1>1. IInv => ReconnectsOnce
  BY DEF IInv, ReconnectsAccounted
<1> QED
  BY <1>1, Invariant, PTL

\* What a step of an active device asks the web view to show: connectToServer:
\* does nothing for it, and a load that is answered or fails leaves the page
\* that was asked for or the one that is there.
LEMMA ActiveKeepsTarget ==
    ASSUME IInv, [LibraryNext]_libraryVars, IsActive, IsActive'
    PROVE  Target' \in {Target, page}
<1> USE DEF libraryVars, managerVars, viewVars, reconnectVars
<1>1. native /\ LibraryTypeOK
  BY DEF IInv, Separate, IsActive
<1>2. CASE /\ UNCHANGED <<mainQueue, visible, requested, page>>
  BY <1>2, QueueStays
<1>3. ASSUME NEW s \in Servers, NEW waiting, ConnectToServer(s, waiting),
             UNCHANGED <<visible, viewVars>>
      PROVE  UNCHANGED <<mainQueue, visible, requested, page>>
  BY <1>3 DEF ConnectToServer, IsActive
<1>4. ASSUME NEW waiting, Disconnect(waiting), UNCHANGED <<visible, viewVars>>
      PROVE  UNCHANGED <<mainQueue, visible, requested, page>>
  BY <1>4 DEF Disconnect, IsActive
<1>5. CASE PostedCall
  BY <1>1, <1>5, PostedCallKeeps
<1>6. CASE PageLoads
  BY <1>6, NothingPosted DEF PageLoads
<1>7. CASE LoadFails
  <2>1. Loads' = Loads /\ mainQueue' = mainQueue /\ page' = page /\ requested' = Nothing
    BY <1>1, <1>7 DEF LoadFails, Loads
  <2> QED
    BY <2>1, LatestCalls
<1>8. CASE WebsocketDidOpen
  <2>1. ~reconnecting
    BY <1>1 DEF IInv, Separate
  <2>2. mainQueue = <<>> /\ mainQueue' = <<Show>> /\ UNCHANGED <<requested, page>>
    BY <1>1, <1>8, <2>1 DEF WebsocketDidOpen, Post
  <2>3. Loads' = {}
    <3>1. \A i \in 1..Len(mainQueue') : mainQueue'[i] = Show
      BY <2>2
    <3> QED
      BY <3>1 DEF Loads, Show
  <2> QED
    BY <2>2, <2>3, LatestCalls, NothingPosted
<1>9. ~WebsocketDidClose /\ ~TryWebsocketReconnect
      /\ \A s \in Servers : ~OpenInBrowser(s)
  <2>1. timers = 0
    BY <1>1 DEF IInv, Separate
  <2>2. ~TryWebsocketReconnect
    BY <2>1 DEF TryWebsocketReconnect
  <2>3. ~WebsocketDidClose
    BY <1>1 DEF WebsocketDidClose, IsActive
  <2> QED
    BY <1>1, <2>2, <2>3 DEF OpenInBrowser
<1> QED
  BY <1>2, <1>3, <1>4, <1>5, <1>6, <1>7, <1>8, <1>9
     DEF LibraryNext, DidReceiveDeviceURL, DeferredConnect, EnterBackground,
         DelayedDisconnect, WebViewDidFinishLoad, ConnectWebsocket

\* An active remote is never taken over by another master.
THEOREM KeepsItsMaster == LibrarySpec => StaysWithItsMaster
<1>1. IInv /\ [LibraryNext]_libraryVars
        => [IsActive /\ IsActive' => Target' \in {Target, page}]_libraryVars
  BY ActiveKeepsTarget
<1> QED
  BY <1>1, Invariant, PTL DEF LibrarySpec, StaysWithItsMaster
=============================================================================
