----------------------------- MODULE RemoteLibrary -----------------------------
(***************************************************************************)
(* A device as a remote: the remote web library in a master's page and, on *)
(* a native device, CWRemoteLibraryManager with the web view that shows    *)
(* the page.  Elsewhere a browser shows it; the manager then has no part,  *)
(* and the page itself tries to reconnect.                                 *)
(*                                                                         *)
(* The manager is called on the Bluetooth queue (connectToServer:), on the *)
(* main thread and, synchronously, by the page.  What it wants of the web  *)
(* view it posts to the main queue, so its state runs ahead of the view.   *)
(* A page that was asked for replaces the shown one only when its server   *)
(* answers; until then the old page lives on and may still call.           *)
(*                                                                         *)
(* The web view, the browser and the masters' servers are external.  Soft  *)
(* disconnection is left out: nothing sends _softdisconnect since          *)
(* suspendWebserver no longer does.                                        *)
(***************************************************************************)
EXTENDS Naturals, Sequences

CONSTANTS
    Servers,     \* masters whose URL the device may be given
    Blank,       \* the page about:blank
    Nothing,     \* no page is being loaded
    MaxPolls     \* bound on delayed disconnects armed at once

ASSUME ServersAssumption ==
    /\ Blank \notin Servers /\ Nothing \notin Servers /\ Blank # Nothing
    /\ MaxPolls \in Nat

VARIABLES
    native,     \* isRunningNative of the pages this device shows
    state,      \* CWRemoteLibraryManager.state
    mainQueue,  \* calls posted to the main thread
    deferred,   \* URLs of connectToServer: calls delayed by a second
    polls,      \* disconnect calls delayed by a second
    visible,    \* the web view is not hidden
    page,       \* the page in the web view or browser
    loading,    \* its webViewDidFinishLoad: is still to come
    requested,  \* the page that is to replace it
    socket,     \* the websocket of the page
    reconnecting, \* _isReconnecting of the page
    timers      \* its armed timers for _tryWebsocketReconnect

reconnectVars == <<reconnecting, timers>>
viewVars == <<page, loading, requested, socket, reconnectVars>>
managerVars == <<state, mainQueue, deferred, polls, visible>>
libraryVars == <<native, managerVars, viewVars>>

Load(p) == [call |-> "load", page |-> p]
CloseSocket == [call |-> "disconnectwebsocket", page |-> Blank]
Show == [call |-> "show", page |-> Blank]
Posted == {Load(p) : p \in Servers \cup {Blank}} \cup {CloseSocket, Show}

LibraryTypeOK ==
    /\ native \in BOOLEAN
    /\ state \in {"disconnected", "connecting", "connected", "disconnecting"}
    /\ mainQueue \in Seq(Posted)
    /\ deferred \subseteq Servers
    /\ polls \in 0..MaxPolls
    /\ visible \in BOOLEAN
    /\ page \in Servers \cup {Blank}
    /\ loading \in BOOLEAN
    /\ requested \in Servers \cup {Blank, Nothing}
    /\ socket \in {"none", "opening", "open", "closing", "closed"}
    /\ reconnecting \in BOOLEAN
    /\ timers \in Nat

LibraryInit ==
    /\ native \in BOOLEAN
    /\ state = "disconnected"
    /\ mainQueue = <<>>
    /\ deferred = {}
    /\ polls = 0
    /\ visible = FALSE
    /\ page = Blank
    /\ loading = FALSE
    /\ requested = Nothing
    /\ socket = "none"
    /\ reconnecting = FALSE
    /\ timers = 0

IsActive == state \in {"connecting", "connected"}

Post(calls) == mainQueue' = mainQueue \o calls

-----------------------------------------------------------------------------
(* The manager.                                                            *)

\* Broken variant: a device that is active already is not refused.
ConnectToServerAnyway(s, waiting) ==
    \/ /\ state = "disconnecting"
       /\ deferred' = waiting \cup {s}
       /\ UNCHANGED <<state, mainQueue>>
    \/ /\ state # "disconnecting"
       /\ state' = "connecting"
       /\ Post(<<Load(s)>>)
       /\ deferred' = waiting

\* connectToServer: does nothing for an active device and delays itself by a
\* second when the device is disconnecting.  The load unhides the web view.
ConnectToServer(s, waiting) ==
    \/ /\ IsActive
       /\ deferred' = waiting
       /\ UNCHANGED <<state, mainQueue>>
    \/ /\ state = "disconnecting"
       /\ deferred' = waiting \cup {s}
       /\ UNCHANGED <<state, mainQueue>>
    \/ /\ state = "disconnected"
       /\ state' = "connecting"
       /\ Post(<<Load(s)>>)
       /\ deferred' = waiting

\* A master's URL was accepted: the application checked that the device may
\* become a remote, which by now may no longer hold.
DidReceiveDeviceURL(s) ==
    /\ native
    /\ ConnectToServer(s, deferred)
    /\ UNCHANGED <<native, polls, visible, viewVars>>

\* A delayed connectToServer:, before which nobody checks anything again.
DeferredConnect(s) ==
    /\ s \in deferred
    /\ ConnectToServer(s, deferred \ {s})
    /\ UNCHANGED <<native, polls, visible, viewVars>>

\* disconnect: asks again in a second while the device is connecting.
Disconnect(waiting) ==
    \/ /\ ~IsActive
       /\ polls' = waiting
       /\ UNCHANGED <<state, mainQueue>>
    \/ /\ state = "connecting"
       /\ waiting < MaxPolls
       /\ polls' = waiting + 1
       /\ UNCHANGED <<state, mainQueue>>
    \/ /\ state = "connected"
       /\ state' = "disconnecting"
       /\ Post(<<CloseSocket>>)
       /\ polls' = waiting

\* The app enters the background.
EnterBackground ==
    /\ IsActive
    /\ Disconnect(polls)
    /\ UNCHANGED <<native, deferred, visible, viewVars>>

\* Broken variant: a delayed disconnect that was spent fires again.
DelayedDisconnectRepeats ==
    /\ Disconnect(polls - 1)
    /\ UNCHANGED <<native, deferred, visible, viewVars>>

\* A delayed disconnect; while connecting it only delays itself again.
DelayedDisconnect ==
    /\ polls > 0
    /\ Disconnect(polls - 1)
    /\ UNCHANGED <<native, deferred, visible, viewVars>>

\* The main thread makes the next posted call.  A request to load a page takes
\* the place of one that is still under way.
PostedCall ==
    /\ mainQueue # <<>>
    /\ mainQueue' = Tail(mainQueue)
    /\ LET next == Head(mainQueue) IN
         \/ /\ next.call = "load"
            /\ requested' = next.page
            /\ visible' = (next.page # Blank)
            /\ UNCHANGED socket
         \/ /\ next = Show
            /\ visible' = TRUE
            /\ UNCHANGED <<requested, socket>>
         \/ /\ next = CloseSocket
            /\ socket' = IF socket = "open" THEN "closing" ELSE socket
            /\ UNCHANGED <<requested, visible>>
    /\ UNCHANGED <<native, state, deferred, polls, page, loading, reconnectVars>>

-----------------------------------------------------------------------------
(* The web view or the browser.                                            *)

\* The user of a browser enters the URL of a master, or reloads its page.
OpenInBrowser(s) ==
    /\ ~native
    /\ requested' = s
    /\ UNCHANGED <<native, managerVars, page, loading, socket, reconnectVars>>

\* The server answered: the page replaces the shown one, whose websocket is
\* closed without its handler being called.  The calls posted before are long
\* made by then.
PageLoads ==
    /\ requested # Nothing
    /\ mainQueue = <<>>
    /\ page' = requested
    /\ requested' = Nothing
    /\ loading' = native
    /\ socket' = "none"
    /\ reconnecting' = FALSE
    /\ timers' = 0
    /\ UNCHANGED <<native, managerVars>>

\* The server does not answer.  The web view keeps its page, and the manager has
\* no handler for it; a browser shows an error.
LoadFails ==
    /\ requested \in Servers
    /\ requested' = Nothing
    /\ \/ /\ native
          /\ UNCHANGED <<page, socket, reconnectVars>>
       \/ /\ ~native
          /\ page' = Blank
          /\ socket' = "none"
          /\ reconnecting' = FALSE
          /\ timers' = 0
    /\ UNCHANGED <<native, managerVars, loading>>

\* webViewDidFinishLoad: whichever page it was.
WebViewDidFinishLoad ==
    /\ loading
    /\ loading' = FALSE
    /\ state' = IF state = "disconnecting" THEN "disconnected" ELSE state
    /\ UNCHANGED <<native, mainQueue, deferred, polls, visible, page, requested,
                   socket, reconnectVars>>

-----------------------------------------------------------------------------
(* The page.                                                               *)

\* _connectWebsocket, when the page's scripts are loaded.
ConnectWebsocket ==
    /\ page \in Servers
    /\ socket = "none"
    /\ socket' = "opening"
    /\ UNCHANGED <<native, managerVars, page, loading, requested, reconnectVars>>

\* _onWebsocketOpen with nativeWebsocketDidOpen.  After a reconnect the page is
\* loaded again instead.
WebsocketDidOpen ==
    /\ socket = "opening"
    /\ mainQueue = <<>>
    /\ socket' = "open"
    /\ \/ /\ reconnecting
          /\ requested' = page
          /\ UNCHANGED <<state, mainQueue>>
       \/ /\ ~reconnecting /\ native
          /\ state' = "connected"
          /\ Post(<<Show>>)
          /\ UNCHANGED requested
       \/ /\ ~reconnecting /\ ~native
          /\ UNCHANGED <<state, mainQueue, requested>>
    /\ UNCHANGED <<native, deferred, polls, visible, page, loading, reconnectVars>>

\* Broken variant: the page of the closed websocket stays.
WebsocketDidCloseUnblanked ==
    /\ socket \in {"opening", "open", "closing"}
    /\ native
    /\ socket' = "closed"
    /\ state' = "disconnecting"
    /\ UNCHANGED <<native, mainQueue, deferred, polls, visible, page, loading,
                   requested, reconnectVars>>

\* Broken variant: the native layer is not told of the closed websocket.
WebsocketClosesQuietly ==
    /\ socket \in {"opening", "open", "closing"}
    /\ socket' = "closed"
    /\ UNCHANGED <<native, managerVars, page, loading, requested, reconnectVars>>

\* _onWebsocketClose or _onWebsocketError, once per websocket: native code is
\* told (nativeWebsocketDidClose), a browser arms the first reconnect.
WebsocketDidClose ==
    /\ socket \in {"opening", "open", "closing"}
    /\ socket' = "closed"
    /\ \/ /\ native
          /\ state' = "disconnecting"
          /\ Post(<<Load(Blank)>>)
          /\ UNCHANGED timers
       \/ /\ ~native
          /\ timers' = IF reconnecting THEN timers ELSE timers + 1
          /\ UNCHANGED <<state, mainQueue>>
    /\ UNCHANGED <<native, deferred, polls, visible, page, loading, requested,
                   reconnecting>>

\* Broken variant: the next attempt is not armed.
TryWebsocketReconnectOnce ==
    /\ timers > 0
    /\ socket = "closed"
    /\ reconnecting' = TRUE
    /\ socket' = "opening"
    /\ timers' = timers - 1
    /\ UNCHANGED <<native, managerVars, page, loading, requested>>

\* _tryWebsocketReconnect: arms itself again, except when the websocket is open;
\* while it is opening that is all it does.
TryWebsocketReconnect ==
    /\ timers > 0
    /\ \/ /\ socket = "open"
          /\ timers' = timers - 1
          /\ UNCHANGED <<socket, reconnecting>>
       \/ /\ socket = "closed"
          /\ reconnecting' = TRUE
          /\ socket' = "opening"
          /\ UNCHANGED timers
    /\ UNCHANGED <<native, managerVars, page, loading, requested>>

-----------------------------------------------------------------------------
LibraryNext ==
    \/ \E s \in Servers :
         DidReceiveDeviceURL(s) \/ DeferredConnect(s) \/ OpenInBrowser(s)
    \/ EnterBackground
    \/ DelayedDisconnect
    \/ PostedCall
    \/ PageLoads
    \/ LoadFails
    \/ WebViewDidFinishLoad
    \/ ConnectWebsocket
    \/ WebsocketDidOpen
    \/ WebsocketDidClose
    \/ TryWebsocketReconnect

LibrarySpec == LibraryInit /\ [][LibraryNext]_libraryVars

\* The main thread makes its calls, about:blank loads, a page that is there
\* finishes loading and a websocket that was told to close does.  Servers,
\* the timers and the user owe nothing.
LibraryFairness ==
    /\ WF_libraryVars(PostedCall)
    /\ WF_libraryVars(requested = Blank /\ PageLoads)
    /\ WF_libraryVars(WebViewDidFinishLoad)
    /\ WF_libraryVars(socket = "closing" /\ WebsocketDidClose)

FairLibrarySpec == LibrarySpec /\ LibraryFairness

-----------------------------------------------------------------------------
(* Properties.                                                             *)

Loads == {i \in 1..Len(mainQueue) : mainQueue[i].call = "load"}

\* The page that was asked for last: posted, requested or shown.
Target ==
    IF Loads # {}
      THEN mainQueue[CHOOSE i \in Loads : \A j \in Loads : j <= i].page
      ELSE IF requested # Nothing THEN requested ELSE page

\* A connected remote has an open websocket, in the page the view is to show.
ConnectedIsOpen ==
    state = "connected" => socket = "open" /\ Target = page

\* What the user sees follows the state once the posted calls are made: a
\* connected remote is shown, a page whose websocket is gone is not.
ScreenFollows ==
    mainQueue = <<>> =>
        /\ state = "connected" => visible
        /\ ~IsActive /\ socket \in {"none", "closed"} => ~visible

\* A browser whose websocket closed, or could not be opened again, has one and
\* only one reconnect armed, unless it is loading the page anew.
ReconnectsOnce ==
    /\ timers <= 1
    /\ (~native /\ socket = "closed") \/ reconnecting =>
         timers = 1 \/ requested # Nothing

\* A device that is giving up its role gets back to where it can become a
\* remote again, whatever page and websocket it was caught with.
BackToDisconnected == state = "disconnecting" ~> state = "disconnected"

\* An active remote is never taken over by another master; when a load fails,
\* the page that is still there stays.
StaysWithItsMaster ==
    [][IsActive /\ IsActive' => Target' \in {Target, page}]_libraryVars

=============================================================================
