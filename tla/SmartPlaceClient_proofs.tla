----------------------- MODULE SmartPlaceClient_proofs -----------------------
(***************************************************************************)
(* Proofs about SmartPlaceClient, for every set of charts: the type        *)
(* invariant, the four safety invariants of the client_safety run by one   *)
(* inductive invariant, and the refinement of ConnectionLifecycle.         *)
(***************************************************************************)
EXTENDS SmartPlaceClient, TLAPS

(* What the run task owns, by where it is suspended: the socket self._ws    *)
(* refers to, whether that socket may be open, which tasks may live.    *)
Ownership ==
  /\ pc = "route" => ws = "discovery"
  /\ pc \in {"dispatch"} \union TearingDown => ws = "app"
  /\ sock # "closed" => pc \in {"route", "dispatch"} \union TearingDown
  /\ sock = "closing" => pc \in {"route", "dispatch"}
  /\ heartbeat # "none" => pc \in {"dispatch", "cancelPoll", "cancelHeartbeat"}
  /\ poll # "none" => pc \in {"dispatch", "cancelPoll"}

(* The frame counted after aclose() is the last of its run task. *)
LastFrame ==
  /\ late \in {0, 1}
  /\ late = 1 => closing /\ pc \in TearingDown \union {"done"}

(* The inductive invariant. *)
IInv == TypeOK /\ Ownership /\ LastFrame /\ PhaseRestsOnMarker
-----------------------------------------------------------------------------
(* What the session operators preserve: they stay in the type, and leave a *)
(* usable phase resting on the marker.                                     *)
LEMMA SessionTyped ==
  ASSUME NEW s \in Session, NEW m \in BOOLEAN
  PROVE  /\ OnDiscoveryFrame(s) \in Session
         /\ OnAppOpen(s) \in Session
         /\ OnAppFrame(s, m) \in Session
         /\ Close(s) \in Session
BY DEF Session, SessionPhase, OnDiscoveryFrame, OnAppOpen, OnAppFrame, Close

(* The phase and the marker after each session operator. *)
LEMMA SessionFields ==
  ASSUME NEW s \in Session, NEW m \in BOOLEAN
  PROVE  /\ OnDiscoveryFrame(s).phase = "ROUTED"
         /\ OnDiscoveryFrame(s).menuLoaded = s.menuLoaded
         /\ OnAppOpen(s).phase = "APP_OPEN"
         /\ OnAppOpen(s).menuLoaded = s.menuLoaded
         /\ Close(s).phase = "CLOSED"
         /\ Close(s).menuLoaded = s.menuLoaded
         /\ OnAppFrame(s, m).menuLoaded = (s.menuLoaded \/ m)
         /\ OnAppFrame(s, m).phase \in {"BOOTSTRAPPED", "READY"} =>
              \/ s.menuLoaded \/ m
              \/ s.phase \in {"BOOTSTRAPPED", "READY"}
         /\ s.phase \notin {"DISCOVERY_OPEN", "ROUTED"} =>
              OnAppFrame(s, m).phase \notin {"DISCOVERY_OPEN", "ROUTED"}
BY DEF Session, SessionPhase, OnDiscoveryFrame, OnAppOpen, OnAppFrame, Close

(* A frame names known charts only, and its marker test is Boolean. *)
LEMMA FrameFacts ==
  ASSUME NEW f \in Frame
  PROVE  f.charts \subseteq Charts /\ IsMenuMarker(f) \in BOOLEAN
BY DEF Frame, IsMenuMarker

(* The type invariant is inductive on its own. *)
LEMMA TypeStep == TypeOK /\ [Next]_vars => TypeOK'
<1> SUFFICES ASSUME TypeOK, [Next]_vars PROVE TypeOK'
  OBVIOUS
<1> USE DEF TypeOK, ControlPoint, Handshaking, TearingDown, SocketState,
            MaxLate, client, tasks, stop, seen
<1>1. CASE NextAttempt
  BY <1>1 DEF NextAttempt
<1>2. CASE Handshake
  BY <1>2, SessionTyped
  DEF Handshake, DiscoveryOpened, RouteArrives, DiscoveryLeft, RoutedPageRead,
      AppOpened, AppOpenRejected, BootstrapSendFails, HandshakeFails,
      AfterAttempt
<1>3. CASE Dispatch
  <2>1. ASSUME NEW f \in Frame, DispatchFrame(f) PROVE TypeOK'
    BY <2>1, SessionTyped, FrameFacts
    DEF DispatchFrame, AfterFrame, SocketAfterRead
  <2>2. ASSUME NEW f \in Frame, ChaseFails(f) PROVE TypeOK'
    BY <2>2, SessionTyped, FrameFacts DEF ChaseFails, SocketAfterRead
  <2>3. CASE SkipUnparsable \/ StreamEnds
    BY <2>3 DEF SkipUnparsable, StreamEnds, SocketAfterRead
  <2> QED BY <1>3, <2>1, <2>2, <2>3 DEF Dispatch
<1>4. CASE Teardown
  BY <1>4 DEF Teardown, CancelPoll, CancelHeartbeat, CloseApp, AfterAttempt
<1>5. CASE PollTask
  BY <1>5 DEF PollTask, PollBegins, PollTicks, PollSendFails
<1>6. CASE HeartbeatTask
  BY <1>6
  DEF HeartbeatTask, HeartbeatStops, HeartbeatCloses, HeartbeatClosed, CloseCall
<1>7. CASE Press
  BY <1>7 DEF Press
<1>8. CASE CloseRequested \/ CloseFinishes
  BY <1>8, SessionTyped DEF CloseRequested, CloseFinishes, CloseCall
<1>9. CASE Cancel
  BY <1>9
  DEF Cancel, CancelHandshake, CancelDispatch, CancelSwallowed, CancelCloseApp,
      SocketAfterRead
<1>10. CASE SocketLost
  BY <1>10 DEF SocketLost
<1>11. CASE UNCHANGED vars
  BY <1>11 DEF vars
<1> QED
  BY <1>1, <1>2, <1>3, <1>4, <1>5, <1>6, <1>7, <1>8, <1>9, <1>10, <1>11
  DEF Next

(* The constructor leaves a well-typed client. *)
LEMMA TypeInit == Init => TypeOK
<1>1. NewSession \in Session
  BY DEF NewSession, Session, SessionPhase
<1>2. Init => late \in 0..MaxLate
  BY DEF Init, MaxLate
<1> QED
  BY <1>1, <1>2, Zenon
  DEF Init, TypeOK, ControlPoint, Handshaking, TearingDown, SocketState

(* Every reachable state is well typed, whatever the charts. *)
THEOREM TypeCorrect == Spec => []TypeOK
BY TypeInit, TypeStep, PTL DEF Spec
-----------------------------------------------------------------------------
(* Where the run task is bounds what it owns, through every step. *)
LEMMA OwnershipStep == TypeOK /\ Ownership /\ [Next]_vars => Ownership'
<1> SUFFICES ASSUME TypeOK, Ownership, [Next]_vars PROVE Ownership'
  OBVIOUS
<1> USE DEF TypeOK, Ownership, ControlPoint, Handshaking, TearingDown,
            SocketState, client, tasks, stop, seen
<1>1. CASE NextAttempt
  BY <1>1 DEF NextAttempt
<1>2. CASE Handshake
  BY <1>2
  DEF Handshake, DiscoveryOpened, RouteArrives, DiscoveryLeft, RoutedPageRead,
      AppOpened, AppOpenRejected, BootstrapSendFails, HandshakeFails,
      AfterAttempt
<1>3. CASE Dispatch
  BY <1>3
  DEF Dispatch, DispatchFrame, ChaseFails, SkipUnparsable, StreamEnds,
      AfterFrame, SocketAfterRead
<1>4. CASE Teardown
  BY <1>4 DEF Teardown, CancelPoll, CancelHeartbeat, CloseApp, AfterAttempt
<1>5. CASE PollTask
  BY <1>5 DEF PollTask, PollBegins, PollTicks, PollSendFails
<1>6. CASE HeartbeatTask
  BY <1>6
  DEF HeartbeatTask, HeartbeatStops, HeartbeatCloses, HeartbeatClosed,
      CloseCall, NoSocket
<1>7. CASE Press
  BY <1>7 DEF Press
<1>8. CASE CloseRequested \/ CloseFinishes
  BY <1>8 DEF CloseRequested, CloseFinishes, CloseCall, NoSocket
<1>9. CASE Cancel
  BY <1>9
  DEF Cancel, CancelHandshake, CancelDispatch, CancelSwallowed, CancelCloseApp,
      SocketAfterRead
<1>10. CASE SocketLost
  BY <1>10 DEF SocketLost
<1>11. CASE UNCHANGED vars
  BY <1>11 DEF vars
<1> QED
  BY <1>1, <1>2, <1>3, <1>4, <1>5, <1>6, <1>7, <1>8, <1>9, <1>10, <1>11
  DEF Next

(* Only a frame dispatched while closing is counted, and it is the last:   *)
(* the loop is left at once and the run task ends with its teardown.       *)
LEMMA LastFrameStep == TypeOK /\ LastFrame /\ [Next]_vars => LastFrame'
<1> SUFFICES ASSUME TypeOK, LastFrame, [Next]_vars PROVE LastFrame'
  OBVIOUS
<1> USE DEF TypeOK, LastFrame, MaxLate, ControlPoint, Handshaking, TearingDown,
            client, tasks, stop, seen
<1>1. CASE NextAttempt \/ Press \/ SocketLost \/ UNCHANGED vars
  BY <1>1 DEF NextAttempt, Press, SocketLost, vars
<1>2. CASE Handshake
  BY <1>2
  DEF Handshake, DiscoveryOpened, RouteArrives, DiscoveryLeft, RoutedPageRead,
      AppOpened, AppOpenRejected, BootstrapSendFails, HandshakeFails
<1>3. CASE Dispatch
  <2>1. ASSUME NEW f \in Frame, DispatchFrame(f) PROVE LastFrame'
    BY <2>1 DEF DispatchFrame, AfterFrame
  <2>2. ASSUME NEW f \in Frame, ChaseFails(f) PROVE LastFrame'
    BY <2>2 DEF ChaseFails
  <2>3. CASE SkipUnparsable \/ StreamEnds
    BY <2>3 DEF SkipUnparsable, StreamEnds
  <2> QED BY <1>3, <2>1, <2>2, <2>3 DEF Dispatch
<1>4. CASE Teardown
  BY <1>4 DEF Teardown, CancelPoll, CancelHeartbeat, CloseApp, AfterAttempt
<1>5. CASE PollTask \/ HeartbeatTask
  BY <1>5
  DEF PollTask, PollBegins, PollTicks, PollSendFails,
      HeartbeatTask, HeartbeatStops, HeartbeatCloses, HeartbeatClosed
<1>6. CASE CloseRequested \/ CloseFinishes
  BY <1>6 DEF CloseRequested, CloseFinishes
<1>7. CASE Cancel
  BY <1>7
  DEF Cancel, CancelHandshake, CancelDispatch, CancelSwallowed, CancelCloseApp
<1> QED
  BY <1>1, <1>2, <1>3, <1>4, <1>5, <1>6, <1>7 DEF Next

(* The phase is usable only after the marker, which sets the event in the  *)
(* same step.                                                              *)
LEMMA MarkerStep ==
  TypeOK /\ PhaseRestsOnMarker /\ [Next]_vars => PhaseRestsOnMarker'
<1> SUFFICES ASSUME TypeOK, PhaseRestsOnMarker, [Next]_vars
             PROVE  PhaseRestsOnMarker'
  OBVIOUS
<1>0. session \in Session /\ session.menuLoaded \in BOOLEAN
  BY DEF TypeOK, Session
<1> USE DEF PhaseRestsOnMarker, client, tasks, stop, seen
<1>1. CASE /\ UNCHANGED <<session, bootDone>>
           /\ pc' = "dispatch" => pc = "dispatch"
  BY <1>1
<1>2. CASE RouteArrives
  BY <1>0, <1>2, SessionFields DEF RouteArrives
<1>3. CASE AppOpened
  BY <1>0, <1>3, SessionFields DEF AppOpened
<1>4. CASE BootstrapSendFails
  BY <1>0, <1>4, SessionFields DEF BootstrapSendFails
<1>5. CASE Dispatch
  <2>1. ASSUME NEW f \in Frame, DispatchFrame(f) PROVE PhaseRestsOnMarker'
    BY <1>0, <2>1, SessionFields, FrameFacts DEF DispatchFrame
  <2>2. ASSUME NEW f \in Frame, ChaseFails(f) PROVE PhaseRestsOnMarker'
    BY <1>0, <2>2, SessionFields, FrameFacts DEF ChaseFails
  <2>3. CASE SkipUnparsable \/ StreamEnds
    BY <2>3 DEF SkipUnparsable, StreamEnds
  <2> QED BY <1>5, <2>1, <2>2, <2>3 DEF Dispatch
<1>6. CASE CloseRequested \/ CloseFinishes
  BY <1>0, <1>6, SessionFields DEF CloseRequested, CloseFinishes
<1>7. CASE \/ NextAttempt \/ Teardown \/ PollTask \/ HeartbeatTask \/ Press
           \/ Cancel \/ SocketLost \/ UNCHANGED vars
  <2>1. UNCHANGED <<session, bootDone>> /\ (pc' = "dispatch" => pc = "dispatch")
    BY <1>7
    DEF NextAttempt, Teardown, CancelPoll, CancelHeartbeat, CloseApp,
        AfterAttempt, PollTask, PollBegins, PollTicks, PollSendFails,
        HeartbeatTask, HeartbeatStops, HeartbeatCloses, HeartbeatClosed, Press,
        Cancel, CancelHandshake, CancelDispatch, CancelSwallowed,
        CancelCloseApp, SocketLost, vars
  <2> QED BY <1>1, <2>1
<1>8. CASE \/ DiscoveryOpened \/ DiscoveryLeft \/ RoutedPageRead
           \/ AppOpenRejected \/ HandshakeFails
  <2>1. UNCHANGED <<session, bootDone>> /\ (pc' = "dispatch" => pc = "dispatch")
    BY <1>8
    DEF DiscoveryOpened, DiscoveryLeft, RoutedPageRead, AppOpenRejected,
        HandshakeFails, AfterAttempt
  <2> QED BY <1>1, <2>1
<1> QED
  BY <1>2, <1>3, <1>4, <1>5, <1>6, <1>7, <1>8 DEF Next, Handshake

(* The inductive invariant holds before run() is scheduled. *)
LEMMA IInvInit == Init => IInv
<1> SUFFICES ASSUME Init PROVE IInv
  OBVIOUS
<1>1. TypeOK
  BY TypeInit
<1>2. Ownership /\ LastFrame
  BY DEF Init, Ownership, LastFrame, TearingDown
<1>3. PhaseRestsOnMarker
  BY DEF Init, PhaseRestsOnMarker, NewSession
<1> QED BY <1>1, <1>2, <1>3 DEF IInv

(* Every step of the client, its tasks and its callers preserves it. *)
LEMMA IInvStep == IInv /\ [Next]_vars => IInv'
BY TypeStep, OwnershipStep, LastFrameStep, MarkerStep DEF IInv

(* The strengthened invariant holds in every reachable state. *)
THEOREM Invariance == Spec => []IInv
BY IInvInit, IInvStep, PTL DEF Spec

(* No heartbeat or chart poll outlives the connection it was started for   *)
(* (client.py:914-920).                                                    *)
THEOREM TasksBounded == Spec => []TasksOnlyOnAppSocket
<1>1. IInv => TasksOnlyOnAppSocket
  BY DEF IInv, Ownership, TasksOnlyOnAppSocket, TearingDown
<1> QED BY <1>1, Invariance, PTL

(* No socket is left open behind the run task (client.py:789-814, 921-926). *)
THEOREM NoOrphans == Spec => []NoOrphanSocket
<1>1. IInv => NoOrphanSocket
  BY DEF IInv, Ownership, NoOrphanSocket
<1> QED BY <1>1, Invariance, PTL

(* At most one frame is handled after aclose() (client.py:1118-1119).      *)
THEOREM CloseStopsFrames == Spec => []OneFrameAfterClose
<1>1. IInv => OneFrameAfterClose
  BY DEF IInv, LastFrame, OneFrameAfterClose
<1> QED BY <1>1, Invariance, PTL

(* A usable phase rests on a received marker, over any number of           *)
(* connections (protocol.py:519-535, client.py:1103-1105).                 *)
THEOREM MarkerFirst == Spec => []PhaseRestsOnMarker
<1>1. IInv => PhaseRestsOnMarker
  BY DEF IInv
<1> QED BY <1>1, Invariance, PTL
-----------------------------------------------------------------------------
(* The refinement.                                                         *)

(* The abstract state the control point stands for. *)
LEMMA LinkOf ==
  ASSUME pc \in ControlPoint
  PROVE  /\ pc \in {"loop", "sleep"} => Link = "idle"
         /\ pc \in Handshaking => Link = "dialing"
         /\ pc = "dispatch" => Link = "serving"
         /\ pc \in TearingDown => Link = "draining"
         /\ pc = "done" => Link = "ended"
BY DEF Link, ControlPoint, Handshaking, TearingDown

(* The same of the next state. *)
LEMMA LinkOfNext ==
  ASSUME pc' \in ControlPoint
  PROVE  /\ pc' \in {"loop", "sleep"} => Link' = "idle"
         /\ pc' \in Handshaking => Link' = "dialing"
         /\ pc' = "dispatch" => Link' = "serving"
         /\ pc' \in TearingDown => Link' = "draining"
         /\ pc' = "done" => Link' = "ended"
BY DEF Link, ControlPoint, Handshaking, TearingDown

(* Every step from a state of the invariant is a step of the abstract      *)
(* lifecycle or a stutter.                                                 *)
LEMMA StepRefines == IInv /\ IInv' /\ [Next]_vars => [Lifecycle!Next]_(Lifecycle!vars)
<1> SUFFICES ASSUME IInv, IInv', [Next]_vars
             PROVE  [Lifecycle!Next]_(Lifecycle!vars)
  OBVIOUS
<1>0. pc \in ControlPoint /\ pc' \in ControlPoint
  BY DEF IInv, TypeOK
<1> USE <1>0, LinkOf, LinkOfNext
    DEF IInv, Ownership, Held, ControlPoint, Handshaking, TearingDown,
        client, tasks, stop, seen, Lifecycle!vars
<1>1. CASE NextAttempt
  BY <1>1 DEF NextAttempt, Lifecycle!Next, Lifecycle!Dial, Lifecycle!End
<1>2. CASE DiscoveryOpened \/ RouteArrives \/ DiscoveryLeft \/ RoutedPageRead
  BY <1>2
  DEF DiscoveryOpened, RouteArrives, DiscoveryLeft, RoutedPageRead,
      Lifecycle!Next, Lifecycle!Handshake
<1>3. CASE AppOpened \/ AppOpenRejected \/ BootstrapSendFails
  BY <1>3
  DEF AppOpened, AppOpenRejected, BootstrapSendFails,
      Lifecycle!Next, Lifecycle!Establish
<1>4. CASE HandshakeFails
  BY <1>4
  DEF HandshakeFails, AfterAttempt,
      Lifecycle!Next, Lifecycle!Settle, Lifecycle!End
<1>5. CASE Dispatch
  BY <1>5
  DEF Dispatch, DispatchFrame, ChaseFails, SkipUnparsable, StreamEnds,
      AfterFrame, SocketAfterRead,
      Lifecycle!Next, Lifecycle!Drain, Lifecycle!Release
<1>6. CASE CancelPoll \/ CancelHeartbeat
  BY <1>6
  DEF CancelPoll, CancelHeartbeat, Lifecycle!Next, Lifecycle!Release
<1>7. CASE CloseApp
  BY <1>7
  DEF CloseApp, AfterAttempt, Lifecycle!Next, Lifecycle!Settle, Lifecycle!End
<1>8. CASE PollTask
  BY <1>8
  DEF PollTask, PollBegins, PollTicks, PollSendFails,
      Lifecycle!Next, Lifecycle!Release
<1>9. CASE HeartbeatTask
  BY <1>9
  DEF HeartbeatTask, HeartbeatStops, HeartbeatCloses, HeartbeatClosed,
      NoSocket, CloseCall, Lifecycle!Next, Lifecycle!Release
<1>10. CASE Press \/ SocketLost \/ CloseFinishes \/ CancelSwallowed
  <2>1. Link' = Link /\ closing' = closing /\ Held' = Held
    BY <1>10 DEF Press, SocketLost, CloseFinishes, CancelSwallowed
  <2> QED BY <2>1
<1>11. CASE CloseRequested
  BY <1>11
  DEF CloseRequested, NoSocket, CloseCall,
      Lifecycle!Next, Lifecycle!RequestStop
<1>12. CASE CancelHandshake \/ CancelCloseApp
  BY <1>12
  DEF CancelHandshake, CancelCloseApp, Lifecycle!Next, Lifecycle!End
<1>13. CASE CancelDispatch
  BY <1>13
  DEF CancelDispatch, SocketAfterRead, Lifecycle!Next, Lifecycle!Drain
<1>14. CASE UNCHANGED vars
  <2>1. Link' = Link /\ closing' = closing /\ Held' = Held
    BY <1>14 DEF vars
  <2> QED BY <2>1
<1> QED
  BY <1>1, <1>2, <1>3, <1>4, <1>5, <1>6, <1>7, <1>8, <1>9, <1>10, <1>11,
     <1>12, <1>13, <1>14
  DEF Next, Handshake, Teardown, Cancel

(* The client implements the abstract lifecycle: one connection at a time, *)
(* released in full before the next attempt, none started after aclose().  *)
THEOREM Refinement == Spec => ImplementsLifecycle
<1>1. Init => Lifecycle!Init
  <2>1. Init => Link = "idle"
    BY TypeInit, LinkOf DEF Init, TypeOK
  <2>2. Init => closing = FALSE /\ Held = FALSE
    BY DEF Init, Held
  <2> QED BY <2>1, <2>2 DEF Lifecycle!Init
<1> QED
  BY <1>1, StepRefines, Invariance, PTL
  DEF Spec, ImplementsLifecycle, Lifecycle!Spec
=============================================================================
