----------------------------- MODULE Stitching -----------------------------
(***************************************************************************)
(* Device stitching: the CWStitchManager of the master, which pairs swipes *)
(* and knows where every stitched device lies, and the one on every device *)
(* (the master's own page is one of them), which only knows what it was    *)
(* told.  All messages go over the websockets: up to the master and down   *)
(* to the devices, in order.  A remote may lose its connection and come    *)
(* back under the same identifier with a freshly loaded page.              *)
(***************************************************************************)
EXTENDS StitchGeometry, SequencesExt, FiniteSets

CONSTANTS
    Devices, Master,
    PPI,        \* pixels per inch of a device
    Width,      \* viewport of a device
    Height,
    Offset,     \* where along the edges of a device swipes end
    SwipeEdges, \* the edges of a device that swipes end at
    NoDevice,
    MaxSwipes,  \* bound on swipes
    MaxQuits,   \* bound on attempts to leave a stitch
    MaxDrops    \* bound on lost connections

ASSUME DevicesAssumption ==
    /\ Master \in Devices
    /\ NoDevice \notin Devices
    /\ PPI \in [Devices -> Nat \ {0}]
    /\ Width \in [Devices -> Nat \ {0}]
    /\ Height \in [Devices -> Nat \ {0}]
    /\ \A d \in Devices : Offset[d] \in 0..Width[d] /\ Offset[d] \in 0..Height[d]
    /\ SwipeEdges \in [Devices -> SUBSET Edges]
    /\ {MaxSwipes, MaxQuits, MaxDrops} \subseteq Nat

\* The units are fine enough: the scales of all devices, and their lengths as
\* seen on any other device, are integers (fractions of any kind in the code).
ASSUME ExactUnits ==
    \A d, e \in Devices :
        /\ (PPI[d] * Unit) % PPI[e] = 0
        /\ \A l \in {Width[d], Height[d], Offset[d]} : (l * PPI[e]) % PPI[d] = 0

VARIABLES
    swipes,          \* CWStitchManager._swipes of the master, oldest key first
    placed,          \* the devices that have stitch data on the master
    place,           \* their stitch data (the default for the others)
    connected,       \* devices the master holds connected
    alive,           \* devices whose page and websocket are up
    stitched,        \* _isStitched of a device
    transformation,  \* _deviceTransformation of a device
    location,        \* a CWLocation on a device, in global coordinates
    up,              \* messages from a device to the master
    down,            \* messages from the master to a device
    beside,          \* who a device was placed next to, by which swipes (history)
    steady,          \* devices that never lost their connection (history)
    budget           \* swipes, quits and drops that are left

masterVars == <<swipes, placed, place, connected, beside>>
deviceVars == <<alive, stitched, transformation, location>>
vars == <<masterVars, deviceVars, up, down, steady, budget>>

\* What CWGestures._onUp makes of a swipe it accepts, which ends exactly at an
\* edge, and _onLocalSwipe sends; on the way it goes by its edge.
SwipeOn(d, edge) ==
    [device |-> d, edge |-> edge, width |-> Width[d], height |-> Height[d],
     x |-> CASE edge = "left" -> 0 [] edge = "right" -> Width[d]
             [] OTHER -> Offset[d],
     y |-> CASE edge = "top" -> 0 [] edge = "bottom" -> Height[d]
             [] OTHER -> Offset[d]]

QuitStitch == "quitstitch"
WasStitched(t) == [name |-> "wasstitched", t |-> t]
WasUnstitched(t) == [name |-> "wasunstitched", t |-> t]

\* getDefaultDeviceTransformation.
Default(d) == [x |-> 0, y |-> 0, width |-> Width[d], height |-> Height[d],
               rotation |-> 0, scale |-> Unit]

\* A rectangle at the middle of the viewport that an application marked.
Mark(d) == [x |-> Offset[d], y |-> Offset[d],
            width |-> Width[d] - Offset[d], height |-> Height[d] - Offset[d]]

Swipe == [device : Devices, edge : Edges, width : Nat, height : Nat, x : Nat, y : Nat]
Nobody == [device |-> NoDevice]

\* Every variable has its type; at most one swipe is kept for a device, and
\* nothing is on the way to a page that is gone.
TypeOK ==
    /\ swipes \in Seq([device : Devices, edge : Edges, recent : BOOLEAN])
    /\ \A i, j \in 1..Len(swipes) : swipes[i].device = swipes[j].device => i = j
    /\ placed \subseteq Devices
    /\ place \in [Devices -> Transformation]
    /\ \A d \in Devices \ placed : place[d] = Default(d) /\ beside[d] = Nobody
    /\ beside \in [Devices ->
                     {Nobody} \cup [device : Devices, theirs : Swipe, mine : Swipe]]
    /\ connected \subseteq Devices
    /\ Master \in connected \cap alive
    /\ alive \subseteq Devices
    /\ stitched \in [Devices -> BOOLEAN]
    /\ transformation \in [Devices -> Transformation]
    /\ location \in [Devices -> Rectangle]
    /\ up \in [Devices -> Seq(Edges \cup {QuitStitch})]
    /\ down \in [Devices -> Seq([name : {"wasstitched", "wasunstitched"},
                                 t : Transformation])]
    /\ \A d \in Devices \ alive : down[d] = <<>>
    /\ steady \subseteq alive
    /\ budget \in [swipes : 0..MaxSwipes, quits : 0..MaxQuits, drops : 0..MaxDrops]

Init ==
    /\ swipes = <<>>
    /\ placed = {}
    /\ place = [d \in Devices |-> Default(d)]
    /\ connected = Devices
    /\ alive = Devices
    /\ stitched = [d \in Devices |-> FALSE]
    /\ transformation = [d \in Devices |-> Default(d)]
    /\ location = [d \in Devices |-> Mark(d)]
    /\ up = [d \in Devices |-> <<>>]
    /\ down = [d \in Devices |-> <<>>]
    /\ beside = [d \in Devices |-> Nobody]
    /\ steady = Devices
    /\ budget = [swipes |-> MaxSwipes, quits |-> MaxQuits, drops |-> MaxDrops]

-----------------------------------------------------------------------------
(* The devices.                                                            *)

\* _onLocalSwipe for a swipe CWGestures recognised: it ends at an edge.
LocalSwipe(d, edge) ==
    /\ d \in alive
    /\ budget.swipes > 0
    /\ budget' = [budget EXCEPT !.swipes = @ - 1]
    /\ up' = [up EXCEPT ![d] = Append(@, edge)]
    /\ UNCHANGED <<masterVars, deviceVars, down, steady>>

\* _quitStitch, which every measure of a sensor that moved too far repeats
\* until the device is unstitched, and unstitch(), which asks nothing.
Quit(d) ==
    /\ d \in alive
    /\ budget.quits > 0
    /\ budget' = [budget EXCEPT !.quits = @ - 1]
    /\ up' = [up EXCEPT ![d] = Append(@, QuitStitch)]
    /\ UNCHANGED <<masterVars, deviceVars, down, steady>>

Receives(d, name) ==
    /\ down[d] # <<>>
    /\ Head(down[d]).name = name
    /\ down' = [down EXCEPT ![d] = Tail(@)]

\* The manager and the locations of a device learn that it was stitched.
OnStitched(d) ==
    /\ Receives(d, "wasstitched")
    /\ LET t == Head(down[d]).t IN
         /\ transformation' = [transformation EXCEPT ![d] = t]
         /\ location' = [location EXCEPT ![d] = OnWasStitched(@, t)]
    /\ stitched' = [stitched EXCEPT ![d] = TRUE]
    /\ UNCHANGED <<masterVars, alive, up, steady, budget>>

\* ... and that it was unstitched.
OnUnstitched(d) ==
    /\ Receives(d, "wasunstitched")
    /\ transformation' = [transformation EXCEPT ![d] = Default(d)]
    /\ location' = [location EXCEPT ![d] = OnWasUnstitched(@, Head(down[d]).t)]
    /\ stitched' = [stitched EXCEPT ![d] = FALSE]
    /\ UNCHANGED <<masterVars, alive, up, steady, budget>>

-----------------------------------------------------------------------------
(* The master.                                                             *)

\* Messages for a page that is gone are dropped by the relay.
Tell(d, messages) == IF d \in alive THEN down[d] \o messages ELSE down[d]

\* The swipe that one of device d is paired with: the first one on record that
\* is recent and of another device that is connected (0 if there is none).
Partner(d) ==
    SelectInSeq(swipes, LAMBDA s : /\ s.device # d
                                   /\ s.recent
                                   /\ s.device \in connected)

\* Broken variant: a device may have several.
RememberAll(d, edge) ==
    Append(swipes, [device |-> d, edge |-> edge, recent |-> TRUE])

\* A device has at most one swipe on record.
Remember(d, edge) ==
    LET i == SelectInSeq(swipes, LAMBDA s : s.device = d)
        swipe == [device |-> d, edge |-> edge, recent |-> TRUE]
    IN  IF i = 0 THEN Append(swipes, swipe) ELSE [swipes EXCEPT ![i] = swipe]

\* The reference of the coordinate system that a pair of swipes establishes:
\* the master, if it is one of the two.
Reference(first, second) ==
    IF second.device = Master THEN second.device ELSE first.device

\* The device of swipe new is stitched to that of swipe old; r is told first if
\* it is the reference of a new coordinate system.
StitchTo(old, new, r) ==
    \E t \in {NextTo(old, place[old.device], new, PPI[old.device], PPI[new.device])} :
        /\ placed' = placed \cup {old.device, new.device}
        /\ place' = [place EXCEPT ![new.device] = t]
        /\ beside' = [beside EXCEPT ![new.device] =
                        [device |-> old.device, theirs |-> old, mine |-> new]]
        /\ down' = [down EXCEPT
             ![r] = IF placed = {} THEN Tell(r, <<WasStitched(Default(r))>>) ELSE @,
             ![new.device] = Tell(new.device, <<WasStitched(t)>>)]

\* _detectedStitch: exactly one of the two devices must be stitched already.
DetectedStitch(first, second) ==
    LET r == Reference(first, second)
        known == IF placed = {} THEN {r} ELSE placed
        pair == {first, second}
    IN  \/ \E old, new \in pair :
             /\ old.device \in known
             /\ new.device \notin known
             /\ StitchTo(old, new, r)
        \/ /\ \A s, t \in pair : s.device \in known <=> t.device \in known
           /\ UNCHANGED <<placed, place, beside, down>>

Arrives(d) ==
    /\ up[d] # <<>>
    /\ up' = [up EXCEPT ![d] = Tail(@)]

\* detectedSwipe.
DetectedSwipe(d) ==
    /\ Arrives(d)
    /\ Head(up[d]) # QuitStitch
    /\ LET edge == Head(up[d])
           i == Partner(d)
       IN  \/ /\ d \notin connected
              /\ UNCHANGED <<swipes, placed, place, beside, down>>
           \/ /\ d \in connected
              /\ i # 0
              /\ DetectedStitch(SwipeOn(swipes[i].device, swipes[i].edge), SwipeOn(d, edge))
              /\ UNCHANGED swipes
           \/ /\ d \in connected
              /\ i = 0
              /\ swipes' = Remember(d, edge)
              /\ UNCHANGED <<placed, place, beside, down>>
    /\ UNCHANGED <<connected, deviceVars, steady, budget>>

\* Broken variant: the device is forgotten without being told.
UnstitchSilently(d) == UNCHANGED down

\* getDeviceTransformation, which for the master itself is the one its own page
\* was told last.
KnownTransformation(d) == IF d = Master THEN transformation[d] ELSE place[d]

\* _wasunstitched, with the transformation the device is about to lose.
TellUnstitched(d) ==
    down' = [down EXCEPT ![d] = Tell(d, <<WasUnstitched(KnownTransformation(d))>>)]

\* unstitchDevice.
UnstitchDevice(d) ==
    /\ Arrives(d)
    /\ Head(up[d]) = QuitStitch
    /\ \/ /\ d \notin placed
          /\ UNCHANGED <<placed, place, beside, down>>
       \/ /\ d \in placed
          /\ placed' = placed \ {d}
          /\ place' = [place EXCEPT ![d] = Default(d)]
          /\ beside' = [e \in Devices |->
                          IF e = d \/ beside[e].device = d
                            THEN Nobody ELSE beside[e]]
          /\ TellUnstitched(d)
    /\ UNCHANGED <<swipes, connected, deviceVars, steady, budget>>

\* A second passes: a swipe on record is too old to be paired.
Expire(i) ==
    /\ swipes[i].recent
    /\ swipes' = [swipes EXCEPT ![i].recent = FALSE]
    /\ UNCHANGED <<placed, place, connected, beside, deviceVars, up, down,
                   steady, budget>>

-----------------------------------------------------------------------------
(* Connections.  Nothing is unstitched when a device leaves.               *)

\* The websocket of a remote closes.
Drop(d) ==
    /\ d \in alive \ {Master}
    /\ budget.drops > 0
    /\ budget' = [budget EXCEPT !.drops = @ - 1]
    /\ alive' = alive \ {d}
    /\ down' = [down EXCEPT ![d] = <<>>]
    /\ steady' = steady \ {d}
    /\ UNCHANGED <<masterVars, stitched, transformation, location, up>>

\* _parseRemoteDisconnected.
RemoteDisconnected(d) ==
    /\ d \in connected \ alive
    /\ connected' = connected \ {d}
    /\ UNCHANGED <<swipes, placed, place, beside, deviceVars, up, down, steady,
                   budget>>

\* The page is loaded again and its websocket opens.
Reload(d) ==
    /\ d \notin alive
    /\ alive' = alive \cup {d}
    /\ stitched' = [stitched EXCEPT ![d] = FALSE]
    /\ transformation' = [transformation EXCEPT ![d] = Default(d)]
    /\ location' = [location EXCEPT ![d] = Mark(d)]
    /\ UNCHANGED <<masterVars, up, down, steady, budget>>

\* _parseRemoteInfo.
RemoteInfo(d) ==
    /\ d \in alive \ connected
    /\ connected' = connected \cup {d}
    /\ UNCHANGED <<swipes, placed, place, beside, deviceVars, up, down, steady,
                   budget>>

Handle(d) ==
    \/ OnStitched(d)
    \/ OnUnstitched(d)
    \/ DetectedSwipe(d)
    \/ UnstitchDevice(d)

Next ==
    \/ \E d \in Devices :
         \/ \E edge \in SwipeEdges[d] : LocalSwipe(d, edge)
         \/ Quit(d)
         \/ Handle(d)
         \/ Drop(d)
         \/ RemoteDisconnected(d)
         \/ Reload(d)
         \/ RemoteInfo(d)
    \/ \E i \in 1..Len(swipes) : Expire(i)

\* The run loops of the pages go on; users, sensors and networks are free.
Spec == Init /\ [][Next]_vars /\ \A d \in Devices : WF_vars(Handle(d))

-----------------------------------------------------------------------------
(* Properties.                                                             *)

Viewport(d) == [x |-> 0, y |-> 0, width |-> Width[d], height |-> Height[d]]
EndOf(s) == [x |-> s.x, y |-> s.y, width |-> 0, height |-> 0]

Apart(p, q) ==
    \/ p.x + p.width <= q.x \/ q.x + q.width <= p.x
    \/ p.y + p.height <= q.y \/ q.y + q.height <= p.y

\* The global coordinates fit the table: where CWStitchManager placed a
\* device, CWLocation maps the ends of the two swipes to the same point, and
\* the viewports of the two neighbours touch there without overlapping,
\* however both are turned and whatever their scales are.
NeighboursTouch ==
    \A d \in placed : LET to == beside[d] IN to.device # NoDevice =>
        /\ ToGlobal(EndOf(to.mine), place[d]) = ToGlobal(EndOf(to.theirs), place[to.device])
        /\ Apart(ToGlobal(Viewport(d), place[d]),
                 ToGlobal(Viewport(to.device), place[to.device]))

\* Content has one physical size on all stitched devices, also on those that
\* were stitched along a chain and after devices of the chain have left.
OneSize == \A d, e \in placed : place[d].scale * PPI[e] = place[e].scale * PPI[d]

\* When a device has handled what was sent to it, it is stitched as the master
\* believes, with the same transformation, if its connection never broke.
\* (The master keeps the stitch data of a device whose connection broke.)
SteadyAgree ==
    \A d \in steady : down[d] = <<>> =>
        (stitched[d] <=> d \in placed) /\ transformation[d] = place[d]

\* Being stitched and unstitched in any order leaves what a location marks on
\* its own remote where it was; unless the device is stitched turned, when
\* the handlers leave the rotation out.  (The master may unstitch itself before
\* its own page was told of the stitch, and then undoes another one.)
MarksStay ==
    \A d \in steady \ {Master} : transformation[d].rotation = 0 =>
        ToLocal(location[d], transformation[d]) = Mark(d)

\* A stitched device that asks to leave the stitch is unstitched in the end,
\* though its messages cross those of the master, unless it goes away.
QuitIsHonoured ==
    \A d \in Devices :
        d \in steady /\ stitched[d] /\ Contains(up[d], QuitStitch)
            ~> d \notin steady \/ ~stitched[d]

=============================================================================
