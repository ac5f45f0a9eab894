-------------------------- MODULE SmartPlaceClient --------------------------
(***************************************************************************)
(* The connection lifecycle of a live SmartPlaceClient (client.py): the    *)
(* run task and its reconnect loop, the discovery and app sockets it       *)
(* publishes in self._ws, the two tasks it spawns per connection           *)
(* (heartbeat and chart poll), aclose, cancellation, and commands issued   *)
(* by callers.  asyncio is cooperative: one action is the code between two *)
(* awaits that can really suspend.  Time is left out (Heartbeat.tla and    *)
(* the README's plan), as are the backoff's values.                        *)
(***************************************************************************)
EXTENDS Naturals, SessionState

CONSTANTS
  Charts     \* the chart ids the installation may announce

VARIABLES
  pc,        \* where the run task is suspended
  ws,        \* what self._ws refers to
  sock,      \* the state of the socket self._ws refers to
  session,   \* self.state, the SessionState
  chartIds,  \* self.state.chart_ids
  bootDone,  \* self._bootstrap_done is set
  heartbeat, \* the task self._heartbeat_task
  poll,      \* the task self._chart_poll_task
  closing,   \* self._closing
  aclose,    \* progress of the aclose() call
  cancelled, \* run()'s task has been asked to cancel
  unwinding, \* a CancelledError is propagating through _run_live_once
  asked,     \* charts this connection requested ChartStands for
  ranged,    \* charts this connection requested ChartStandRange for
  menuHere,  \* MainMenuFinished arrived on this connection
  late,      \* frames handled since aclose() was called, up to MaxLate
  audit      \* the socket of the last command logged as issued

client == <<pc, ws, sock, session, chartIds, bootDone>>
tasks  == <<heartbeat, poll>>
stop   == <<closing, aclose, cancelled, unwinding>>
seen   == <<asked, ranged, menuHere, late, audit>>
vars   == <<pc, ws, sock, session, chartIds, bootDone, heartbeat, poll,
            closing, aclose, cancelled, unwinding,
            asked, ranged, menuHere, late, audit>>
-----------------------------------------------------------------------------
MaxLate == 2   \* bound: one frame more than a closing client should handle

(* Where the run task can be suspended, in the order of the code:          *)
(*   loop       created, not yet running                                   *)
(*   dial       discovery ws_connect in flight                             *)
(*   route      awaiting the first discovery frame                         *)
(*   leave      closing the discovery socket                               *)
(*   page       routed-page GET in flight                                  *)
(*   open       app ws_connect in flight                                   *)
(*   dispatch   awaiting the next app frame                                *)
(*   cancelPoll, cancelHeartbeat   awaiting a task it cancelled            *)
(*   closeApp   closing the app socket                                     *)
(*   sleep      backoff; done: run() has returned or raised                *)
Handshaking == {"dial", "route", "leave", "page", "open"}
TearingDown == {"cancelPoll", "cancelHeartbeat", "closeApp"}
ControlPoint == {"loop", "dispatch", "sleep", "done"}
                  \union Handshaking \union TearingDown

(* "lost": the transport is gone and aiohttp has not noticed; "closing":   *)
(* close() was called while the reader waits and will wake it; only        *)
(* "closed" answers True to ws.closed.                                     *)
SocketState == {"open", "lost", "closing", "closed"}

(* The frames the lifecycle tells apart.  "other" stands for every frame   *)
(* that touches neither the phase nor the charts.                          *)
Frame == [name : {"MainMenuFinished", "StatusContentFinished", "other"},
          charts : {{}}]
           \union [name : {"StatusEntry", "ChartDefinition"},
                   charts : {{c} : c \in Charts}]

IsMenuMarker(f) == f.name = "MainMenuFinished"

TypeOK ==
  /\ pc \in ControlPoint
  /\ ws \in {"none", "discovery", "app"}
  /\ sock \in SocketState
  /\ session \in Session
  /\ chartIds \subseteq Charts
  /\ bootDone \in BOOLEAN
  /\ heartbeat \in {"none", "sleep", "closing"}
  /\ poll \in {"none", "begin", "sleep"}
  /\ closing \in BOOLEAN
  /\ aclose \in {"no", "waiting", "done"}
  /\ cancelled \in BOOLEAN
  /\ unwinding \in BOOLEAN
  /\ asked \subseteq Charts
  /\ ranged \subseteq Charts
  /\ menuHere \in BOOLEAN
  /\ late \in 0..MaxLate
  /\ audit \in {"none", "discovery", "app"}

Init ==
  /\ pc = "loop" /\ ws = "none" /\ sock = "closed"
  /\ session = NewSession
  /\ chartIds = {} /\ bootDone = FALSE
  /\ heartbeat = "none" /\ poll = "none"
  /\ closing = FALSE /\ aclose = "no"
  /\ cancelled = FALSE /\ unwinding = FALSE
  /\ asked = {} /\ ranged = {} /\ menuHere = FALSE
  /\ late = 0 /\ audit = "none"

(* self._ws is None or self._ws.closed: nothing can be sent. *)
NoSocket == ws = "none" \/ sock = "closed"

(* SmartPlaceClient.connected *)
Connected == ~NoSocket

(* A send can raise only once the transport has gone, noticed or not. *)
SendMayFail == sock \in {"lost", "closing"}

(* ws.close(): with a reader waiting in receive() the socket turns closed  *)
(* only when that reader has been woken.                                   *)
CloseCall == IF pc \in {"route", "dispatch"} THEN "closing" ELSE "closed"

(* Fault: an attempt that ends returns from the loop instead of retrying. *)
AfterAttempt_Returns == "done"

(* What follows an attempt, whatever ended it: return when closing or      *)
(* cancelled, else pick a delay and sleep.                                 *)
AfterAttempt == IF closing \/ unwinding THEN "done" ELSE "sleep"
-----------------------------------------------------------------------------
(* The run task.                                                           *)

(* Fault: the loop does not test self._closing after the backoff. *)
NextAttempt_Unchecked ==
  /\ pc \in {"loop", "sleep"}
  /\ pc' = "dial"
  /\ UNCHANGED <<ws, sock, session, chartIds, bootDone, tasks, stop, seen>>

(* while not self._closing: start an attempt.  Also the end of the sleep.  *)
NextAttempt ==
  /\ pc \in {"loop", "sleep"}
  /\ pc' = IF closing THEN "done" ELSE "dial"
  /\ UNCHANGED <<ws, sock, session, chartIds, bootDone, tasks, stop, seen>>

DiscoveryOpened ==
  /\ pc = "dial"
  /\ pc' = "route" /\ ws' = "discovery" /\ sock' = "open"
  /\ UNCHANGED <<session, chartIds, bootDone, tasks, stop, seen>>

(* The first frame is a GoToLinkSSL; leaving the block closes the socket.  *)
RouteArrives ==
  /\ pc = "route"
  /\ session' = OnDiscoveryFrame(session)
  /\ pc' = "leave" /\ sock' = "closed"
  /\ UNCHANGED <<ws, chartIds, bootDone, tasks, stop, seen>>

DiscoveryLeft ==
  /\ pc = "leave"
  /\ pc' = "page" /\ ws' = "none"
  /\ UNCHANGED <<sock, session, chartIds, bootDone, tasks, stop, seen>>

RoutedPageRead ==
  /\ pc = "page"
  /\ pc' = "open"
  /\ UNCHANGED <<ws, sock, session, chartIds, bootDone, tasks, stop, seen>>

(* Any handshake step times out, is refused or answers something else:     *)
(* HostNotOnline, a non-routing frame, a status other than 200.  Leaving   *)
(* the discovery block closes its socket but does not clear self._ws.      *)
HandshakeFails ==
  /\ pc \in Handshaking
  /\ pc' = AfterAttempt /\ sock' = "closed"
  /\ unwinding' = FALSE
  /\ UNCHANGED <<ws, session, chartIds, bootDone, tasks,
                 closing, aclose, cancelled, seen>>

(* The app socket is up and the session routed: send the four bootstrap    *)
(* reads and start the two tasks.                                          *)
AppOpened ==
  /\ pc = "open"
  /\ MayOpenApp(session)
  /\ pc' = "dispatch" /\ ws' = "app" /\ sock' = "open"
  /\ session' = OnAppOpen(session)
  /\ poll' = "begin" /\ heartbeat' = "sleep"
  /\ asked' = {} /\ ranged' = {} /\ menuHere' = FALSE
  /\ UNCHANGED <<chartIds, bootDone, stop, late, audit>>

(* The app socket is up but on_app_open raises: the session was closed     *)
(* while the socket was being opened.                                      *)
AppOpenRejected ==
  /\ pc = "open"
  /\ ~MayOpenApp(session)
  /\ pc' = "closeApp" /\ ws' = "app" /\ sock' = "open"
  /\ UNCHANGED <<session, chartIds, bootDone, tasks, stop, seen>>

(* The transport goes while the bootstrap reads are being sent. *)
BootstrapSendFails ==
  /\ pc = "open"
  /\ MayOpenApp(session)
  /\ pc' = "closeApp" /\ ws' = "app" /\ sock' = "lost"
  /\ session' = OnAppOpen(session)
  /\ UNCHANGED <<chartIds, bootDone, tasks, stop, seen>>

(* A reader woken by close() may still be handed one frame that was on its *)
(* way; the socket is closed from then on.                                 *)
SocketAfterRead == IF sock = "closing" THEN "closed" ELSE sock

(* Fault: the dispatch loop does not test self._closing. *)
AfterFrame_Unchecked == "dispatch"

(* After the handlers: leave the loop when closing. *)
AfterFrame == IF closing THEN "cancelPoll" ELSE "dispatch"

EndsChase(f) == f.name \in {"MainMenuFinished", "StatusContentFinished"}

(* One frame through the dispatch loop: phase, bootstrap event, chart      *)
(* chase, handlers, closing test.                                          *)
DispatchFrame(f) ==
  /\ pc = "dispatch" /\ sock # "closed"
  /\ session' = OnAppFrame(session, IsMenuMarker(f))
  /\ bootDone' = (bootDone \/ IsMenuMarker(f))
  /\ menuHere' = (menuHere \/ IsMenuMarker(f))
  /\ chartIds' = chartIds \union f.charts
  /\ asked' = IF EndsChase(f) THEN asked \union chartIds ELSE asked
  /\ late' = IF closing /\ late < MaxLate THEN late + 1 ELSE late
  /\ pc' = AfterFrame /\ sock' = SocketAfterRead
  /\ UNCHANGED <<ws, tasks, stop, ranged, audit>>

(* The chase's send raises: the exception leaves the dispatch loop before  *)
(* the handlers see the frame.                                             *)
ChaseFails(f) ==
  /\ pc = "dispatch" /\ SendMayFail
  /\ EndsChase(f) /\ chartIds # {}
  /\ session' = OnAppFrame(session, IsMenuMarker(f))
  /\ bootDone' = (bootDone \/ IsMenuMarker(f))
  /\ menuHere' = (menuHere \/ IsMenuMarker(f))
  /\ pc' = "cancelPoll" /\ sock' = SocketAfterRead
  /\ UNCHANGED <<ws, chartIds, tasks, stop, asked, ranged, late, audit>>

(* A frame parse_frame rejects is skipped, the closing test with it. *)
SkipUnparsable ==
  /\ pc = "dispatch" /\ sock # "closed"
  /\ sock' = SocketAfterRead
  /\ UNCHANGED <<pc, ws, session, chartIds, bootDone, tasks, stop, seen>>

(* The stream ends: the server closed it, the transport failed, or close() *)
(* was called on this side.                                                *)
StreamEnds ==
  /\ pc = "dispatch"
  /\ pc' = "cancelPoll" /\ sock' = "closed"
  /\ UNCHANGED <<ws, session, chartIds, bootDone, tasks, stop, seen>>

CancelPoll ==
  /\ pc = "cancelPoll"
  /\ pc' = "cancelHeartbeat" /\ poll' = "none"
  /\ UNCHANGED <<ws, sock, session, chartIds, bootDone, heartbeat, stop, seen>>

(* Fault: the finally block cancels the poll only. *)
CancelHeartbeat_Forgotten ==
  /\ pc = "cancelHeartbeat"
  /\ pc' = "closeApp"
  /\ UNCHANGED <<ws, sock, session, chartIds, bootDone, tasks, stop, seen>>

CancelHeartbeat ==
  /\ pc = "cancelHeartbeat"
  /\ pc' = "closeApp" /\ heartbeat' = "none"
  /\ UNCHANGED <<ws, sock, session, chartIds, bootDone, poll, stop, seen>>

(* Fault: the app socket is dropped without being closed. *)
CloseApp_LeavesOpen ==
  /\ pc = "closeApp"
  /\ pc' = AfterAttempt /\ ws' = "none"
  /\ unwinding' = FALSE
  /\ UNCHANGED <<sock, session, chartIds, bootDone, tasks,
                 closing, aclose, cancelled, seen>>

(* Close the app socket, clear self._ws, call on_disconnect. *)
CloseApp ==
  /\ pc = "closeApp"
  /\ pc' = AfterAttempt /\ ws' = "none" /\ sock' = "closed"
  /\ unwinding' = FALSE
  /\ UNCHANGED <<session, chartIds, bootDone, tasks,
                 closing, aclose, cancelled, seen>>
-----------------------------------------------------------------------------
(* The tasks of one connection.  A task whose cancellation is awaited only *)
(* sees its CancelledError.                                                *)

PollRuns == pc # "cancelPoll"

HeartbeatRuns == pc # "cancelHeartbeat"

(* The immediate range poll, for the charts known when the task starts. *)
PollBegins ==
  /\ poll = "begin" /\ PollRuns
  /\ IF closing \/ (NoSocket /\ chartIds # {})
     THEN poll' = "none" /\ ranged' = ranged
     ELSE poll' = "sleep" /\ ranged' = ranged \union chartIds
  /\ UNCHANGED <<client, heartbeat, stop, asked, menuHere, late, audit>>

(* Fault: the periodic poll only refreshes the ranges. *)
PollTicks_RangesOnly ==
  /\ poll = "sleep" /\ PollRuns
  /\ poll' = IF closing \/ NoSocket THEN "none" ELSE poll
  /\ ranged' = IF closing \/ NoSocket THEN ranged ELSE ranged \union chartIds
  /\ UNCHANGED <<client, heartbeat, stop, asked, menuHere, late, audit>>

(* Each interval: ChartStands, then ChartStandRange, for every chart. *)
PollTicks ==
  /\ poll = "sleep" /\ PollRuns
  /\ IF closing \/ NoSocket
     THEN poll' = "none" /\ UNCHANGED <<asked, ranged>>
     ELSE /\ asked' = asked \union chartIds
          /\ ranged' = ranged \union chartIds
          /\ poll' = poll
  /\ UNCHANGED <<client, heartbeat, stop, menuHere, late, audit>>

PollSendFails ==
  /\ poll # "none" /\ PollRuns
  /\ SendMayFail /\ chartIds # {}
  /\ poll' = "none"
  /\ UNCHANGED <<client, heartbeat, stop, seen>>

(* The interval is over on a connection that is gone or going, or the Ping *)
(* cannot be sent: the task returns.  A Ping that goes out changes nothing *)
(* here.                                                                   *)
HeartbeatStops ==
  /\ heartbeat = "sleep" /\ HeartbeatRuns
  /\ closing \/ NoSocket \/ SendMayFail
  /\ heartbeat' = "none"
  /\ UNCHANGED <<client, poll, stop, seen>>

(* No PongOK for too long: close the socket so that the reader wakes. *)
HeartbeatCloses ==
  /\ heartbeat = "sleep" /\ HeartbeatRuns
  /\ ~closing /\ ~NoSocket
  /\ heartbeat' = "closing" /\ sock' = CloseCall
  /\ UNCHANGED <<pc, ws, session, chartIds, bootDone, poll, stop, seen>>

(* Fault: the heartbeat stays in its close() after the socket has closed. *)
HeartbeatClosed_Lingers ==
  /\ heartbeat = "closing" /\ HeartbeatRuns
  /\ sock = "closed"
  /\ heartbeat' = "closed"
  /\ UNCHANGED <<client, poll, stop, seen>>

HeartbeatClosed ==
  /\ heartbeat = "closing" /\ HeartbeatRuns
  /\ sock = "closed"
  /\ heartbeat' = "none"
  /\ UNCHANGED <<client, poll, stop, seen>>
-----------------------------------------------------------------------------
(* Callers and environment.                                                *)

(* issue() of an audited command (a door press) on a usable socket: sent,  *)
(* then logged.  Without one send raises and the press is dropped.         *)
Press ==
  /\ ~NoSocket
  /\ audit' = ws
  /\ UNCHANGED <<client, tasks, stop, asked, ranged, menuHere, late>>

(* aclose(): set the flag, close the socket self._ws refers to, and close  *)
(* the session once that close has returned.                               *)
CloseRequested ==
  /\ aclose = "no"
  /\ closing' = TRUE
  /\ IF NoSocket
     THEN aclose' = "done" /\ session' = Close(session) /\ sock' = sock
     ELSE aclose' = "waiting" /\ session' = session /\ sock' = CloseCall
  /\ UNCHANGED <<pc, ws, chartIds, bootDone, tasks, cancelled, unwinding, seen>>

CloseFinishes ==
  /\ aclose = "waiting" /\ sock # "closing"
  /\ aclose' = "done" /\ session' = Close(session)
  /\ UNCHANGED <<pc, ws, sock, chartIds, bootDone, tasks,
                 closing, cancelled, unwinding, seen>>

(* cancel() of run()'s task, delivered at the await it is suspended in.    *)
CancelHandshake ==
  /\ pc \in {"loop", "sleep"} \union Handshaking
  /\ ~cancelled /\ cancelled' = TRUE
  /\ pc' = "done" /\ sock' = "closed"
  /\ UNCHANGED <<ws, session, chartIds, bootDone, tasks,
                 closing, aclose, unwinding, seen>>

CancelDispatch ==
  /\ pc = "dispatch"
  /\ ~cancelled /\ cancelled' = TRUE
  /\ unwinding' = TRUE
  /\ pc' = "cancelPoll" /\ sock' = SocketAfterRead
  /\ UNCHANGED <<ws, session, chartIds, bootDone, tasks,
                 closing, aclose, seen>>

(* suppress(CancelledError) around the await of a live child task takes    *)
(* the run task's own cancellation for the child's.                        *)
CancelSwallowed ==
  /\ \/ pc = "cancelPoll" /\ poll # "none"
     \/ pc = "cancelHeartbeat" /\ heartbeat # "none"
  /\ ~cancelled /\ cancelled' = TRUE
  /\ UNCHANGED <<client, tasks, closing, aclose, unwinding, seen>>

(* Cancelled while awaiting app_ws.close(): the rest of the finally block, *)
(* which clears self._ws and calls on_disconnect, is skipped.              *)
CancelCloseApp ==
  /\ pc = "closeApp" /\ sock # "closed"
  /\ ~cancelled /\ cancelled' = TRUE
  /\ pc' = "done" /\ sock' = "closed"
  /\ unwinding' = FALSE
  /\ UNCHANGED <<ws, session, chartIds, bootDone, tasks,
                 closing, aclose, seen>>

SocketLost ==
  /\ sock = "open"
  /\ sock' = "lost"
  /\ UNCHANGED <<pc, ws, session, chartIds, bootDone, tasks, stop, seen>>
-----------------------------------------------------------------------------
Handshake ==
  \/ DiscoveryOpened \/ RouteArrives \/ DiscoveryLeft \/ RoutedPageRead
  \/ AppOpened \/ AppOpenRejected \/ BootstrapSendFails \/ HandshakeFails

Dispatch ==
  \/ \E f \in Frame : DispatchFrame(f)
  \/ \E f \in Frame : ChaseFails(f)
  \/ SkipUnparsable
  \/ StreamEnds

Teardown == CancelPoll \/ CancelHeartbeat \/ CloseApp

PollTask == PollBegins \/ PollTicks \/ PollSendFails

HeartbeatTask == HeartbeatStops \/ HeartbeatCloses \/ HeartbeatClosed

Cancel == CancelHandshake \/ CancelDispatch \/ CancelSwallowed \/ CancelCloseApp

Next ==
  \/ NextAttempt \/ Handshake \/ Dispatch \/ Teardown
  \/ PollTask \/ HeartbeatTask
  \/ Press \/ CloseRequested \/ CloseFinishes \/ Cancel \/ SocketLost

(* What the code and its deadlines guarantee: a sleep ends; a handshake    *)
(* step answers or meets its 30 s deadline; a task that can run runs; a    *)
(* socket that is not open any more ends its stream.  Nothing makes the    *)
(* server stay up, a caller press, close or cancel.                        *)
RunFairness ==
  /\ WF_vars(NextAttempt)
  /\ WF_vars(Handshake)
  /\ WF_vars(StreamEnds /\ sock # "open")
  /\ WF_vars(CancelPoll) /\ WF_vars(CancelHeartbeat) /\ WF_vars(CloseApp)
  /\ WF_vars(PollTask)
  /\ WF_vars(HeartbeatStops) /\ WF_vars(HeartbeatClosed)
  /\ WF_vars(CloseFinishes)

(* A server that was told SocketConnected keeps broadcasting: a client     *)
(* that is being closed is sent one more frame.                            *)
ServerFairness == WF_vars(closing /\ \E f \in Frame : DispatchFrame(f))

Spec == Init /\ [][Next]_vars

FairSpec == Spec /\ RunFairness /\ ServerFairness
-----------------------------------------------------------------------------
(* Safety.                                                                 *)

(* The poll and heartbeat tasks of a connection (client.py:897-909) live   *)
(* only while self._ws is that connection's app socket: neither survives   *)
(* into a handshake, a backoff or the end of run(), where it would send on *)
(* the discovery socket or close the next connection.                      *)
TasksOnlyOnAppSocket ==
  heartbeat # "none" \/ poll # "none" =>
    ws = "app" /\ pc \in {"dispatch", "cancelPoll", "cancelHeartbeat"}

(* A socket that is not closed belongs to a run task that has still to     *)
(* leave the block closing it (client.py:789-812, 844-925): whatever       *)
(* failed, was cancelled or raced, no socket is left behind in a backoff,  *)
(* under the next attempt or after run().                                  *)
NoOrphanSocket ==
  sock # "closed" => pc \in {"route", "dispatch"} \union TearingDown

(* Once aclose() was called at most one more frame reaches the handlers    *)
(* (client.py:1118-1119), even when the call fell in the middle of a       *)
(* handshake that then completes.                                          *)
OneFrameAfterClose == late <= 1

(* A usable phase outlives the connection on purpose (client.py:584-591),  *)
(* but it always rests on a MainMenuFinished that has also released        *)
(* wait_for_bootstrap; a dispatch loop never runs in a handshake phase, so *)
(* its replay-only branch (client.py:1092-1099) is dead in live mode.      *)
PhaseRestsOnMarker ==
  /\ session.phase \in {"BOOTSTRAPPED", "READY"} => session.menuLoaded
  /\ bootDone <=> session.menuLoaded
  /\ pc = "dispatch" => session.phase \notin {"DISCOVERY_OPEN", "ROUTED"}
-----------------------------------------------------------------------------
(* The client implements ConnectionLifecycle.                              *)

Link == CASE pc \in {"loop", "sleep"} -> "idle"
          [] pc \in Handshaking       -> "dialing"
          [] pc = "dispatch"          -> "serving"
          [] pc \in TearingDown       -> "draining"
          [] pc = "done"              -> "ended"

Held == sock # "closed" \/ heartbeat # "none" \/ poll # "none"

Lifecycle == INSTANCE ConnectionLifecycle
               WITH link <- Link, stopping <- closing, held <- Held

(* Every step of the client is a step of the abstract lifecycle or leaves  *)
(* it alone: one connection at a time, all of it released before the next  *)
(* attempt, no attempt after aclose() (client.py:440-484, 776-935).        *)
ImplementsLifecycle == Lifecycle!Spec
-----------------------------------------------------------------------------
(* Liveness.                                                               *)

(* run() ends after aclose(), as the docstring of run says                 *)
(* (client.py:420-423).                                                    *)
StopEnds == Lifecycle!StopEnds

(* A connection whose transport is lost, or whose socket a task of the     *)
(* client closed, is always followed by a new attempt, unless the client   *)
(* is being closed or cancelled (client.py:440-484, 1011-1018, 914-925).   *)
LostConnectionRedials ==
  pc = "dispatch" /\ sock # "open" ~> pc = "dial" \/ closing \/ cancelled

(* Every chart announced on a connection is sooner or later asked for both *)
(* its stands and today's range, wherever it arrives relative to the end   *)
(* markers and the polls (client.py:978-984, 1044-1077), unless the        *)
(* connection ends first.                                                  *)
ChartsAreAsked ==
  \A c \in Charts :
    c \in chartIds /\ pc = "dispatch"
      ~> c \in asked \intersect ranged \/ pc # "dispatch"
-----------------------------------------------------------------------------
(* What the documentation says and the code does not do.                   *)

(* issue: without an open app socket "we must NOT claim the command was    *)
(* issued" (client.py:520-521, 545).                                       *)
IssuedOnlyOnAppSocket == audit # "discovery"

(* "The loop exits ... on CancelledError (re-raised)" (client.py:420-423): *)
(* a cancelled run task never starts another attempt.                      *)
CancelEndsLoop == [][cancelled /\ pc # "dial" => pc' # "dial"]_vars
=============================================================================
