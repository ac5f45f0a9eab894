------------------------- MODULE Validation_proofs -------------------------
(***************************************************************************)
(* Proofs about Validation, for every set of charts: the type invariant    *)
(* and the four safety invariants of the config flow, on top of the        *)
(* client's inductive invariant.                                           *)
(***************************************************************************)
EXTENDS Validation, SmartPlaceClient_proofs

(* A client of the flow makes one attempt, so that what it remembers of    *)
(* MainMenuFinished is of the connection it has.                           *)
OneAttempt ==
  /\ bootDone <=> menuHere
  /\ pc \in {"loop"} \union Handshaking => ~bootDone

(* Where the flow is bounds what the form, the client and the runner are:  *)
(* a client is closed only to conclude, and only under an ended runner.    *)
FlowShape ==
  /\ form # "validating" => flow = "idle"
  /\ verdict # "none" => flow = "idle"
  /\ flow # "idle" => ~closing
  /\ flow \in {"stopWaiter", "succeed", "fail", "expire"} => RunnerDone
  /\ verdict # "none" => RunnerDone /\ session.phase = "CLOSED"

(* What each turn of the race has established about the bootstrap.         *)
RaceKnows ==
  /\ waiter = "done" => bootDone
  /\ flow = "racing" => waiter \in {"waiting", "done"}
  /\ flow = "racing" /\ RunnerDone /\ bootDone => waiter = "done"
  /\ flow \in {"stopRunner", "succeed"} => bootDone
  /\ flow \in {"stopWaiter", "fail"} => ~bootDone
  /\ flow \in {"unwind", "expire"} => timedOut

(* An undisturbed runner that is past its dispatch loop has a cause, and   *)
(* nobody else has cancelled it.                                           *)
CauseKnown ==
  /\ flow = "racing" =>
       /\ cause # "cancelled"
       /\ pc \in TearingDown \union {"sleep", "done"} => cause # "none"
  /\ flow \in {"stopWaiter", "fail"} =>
       cause \in {"offline", "timeout", "other", "clean"}

(* The inductive invariant. *)
FlowInv ==
  /\ IInv /\ FlowTypeOK
  /\ OneAttempt /\ FlowShape /\ RaceKnows /\ CauseKnown
  /\ BootstrapWins /\ AcceptedIsBootstrapped /\ ErrorNamesCause
-----------------------------------------------------------------------------
(* A form just submitted starts with a client as its constructor leaves it. *)
LEMMA NewClientInv == NewClient => IInv'
<1> SUFFICES ASSUME NewClient PROVE IInv'
  OBVIOUS
<1>1. NewSession \in Session
  BY DEF NewSession, Session, SessionPhase
<1>2. TypeOK'
  <2>1. late' \in 0..MaxLate
    BY DEF NewClient, MaxLate
  <2> QED
    BY <1>1, <2>1, Zenon
    DEF NewClient, TypeOK, ControlPoint, Handshaking, TearingDown, SocketState
<1>3. Ownership' /\ LastFrame'
  BY DEF NewClient, Ownership, LastFrame, TearingDown
<1>4. PhaseRestsOnMarker'
  BY DEF NewClient, PhaseRestsOnMarker, NewSession
<1> QED BY <1>2, <1>3, <1>4 DEF IInv

(* The second cancellation of a runner that is closing its socket only     *)
(* cuts that close short.                                                  *)
LEMMA SwallowedInv == IInv /\ TimeoutSwallowed => IInv'
<1> SUFFICES ASSUME IInv, TimeoutSwallowed PROVE IInv'
  OBVIOUS
<1>1. CASE UNCHANGED vars
  BY <1>1, IInvStep
<1>2. CASE pc = "closeApp" /\ sock # "closed"
  <2> USE <1>2 DEF TimeoutSwallowed, IInv, tasks, seen
  <2>1. TypeOK'
    BY DEF TypeOK, ControlPoint, SocketState
  <2>2. Ownership' /\ LastFrame'
    BY DEF Ownership, LastFrame, TearingDown
  <2>3. PhaseRestsOnMarker'
    BY DEF PhaseRestsOnMarker
  <2> QED BY <2>1, <2>2, <2>3
<1> QED BY <1>1, <1>2 DEF TimeoutSwallowed

(* What a step of the runner, of its children or of its transport does to  *)
(* the client: it is one of the client's own.                              *)
LEMMA RunnerIsClient == Runner => Next
BY DEF Runner, RunnerHandshake, RunnerDispatch, RunnerTeardown, RunnerChildren,
       TransportLost, Next, Handshake, Dispatch

(* Every step of the flow preserves the invariant of the client it has.    *)
LEMMA ClientStep == IInv /\ [FlowNext]_flowVars => IInv'
<1> SUFFICES ASSUME IInv, [FlowNext]_flowVars PROVE IInv'
  OBVIOUS
<1>1. CASE Submit
  BY <1>1, NewClientInv DEF Submit
<1>2. CASE Runner
  BY <1>2, RunnerIsClient, IInvStep
<1>3. CASE WaiterWakes \/ Respond \/ UNCHANGED flowVars
  <2>1. UNCHANGED vars
    BY <1>3 DEF WaiterWakes, Respond, flowVars
  <2> QED BY <2>1, IInvStep
<1>4. CASE ConnectAndBootstrap
  <2>1. [Next]_vars
    BY <1>4
    DEF ConnectAndBootstrap, Bootstrapped, RunnerStopped, RunnerEndedFirst,
        WaiterStopped, RunnerUnwound, Conclude, CancelRunner, Next
  <2> QED BY <2>1, IInvStep
<1>5. CASE TimeoutRacing
  <2>1. [Next]_vars
    BY <1>5 DEF TimeoutRacing, CancelRunner, Next
  <2> QED BY <2>1, IInvStep
<1>6. CASE TimeoutSwallowed
  BY <1>6, SwallowedInv
<1> QED BY <1>1, <1>2, <1>3, <1>4, <1>5, <1>6 DEF FlowNext, FormTimeout

(* What a step under the runner does to the flow: it leaves it where it    *)
(* is. A runner that ends after the bootstrap finds the waiter done; one   *)
(* that leaves its dispatch loop of itself has a cause.                    *)
RunnerStays ==
  /\ form = "validating" /\ ~RunnerDone
  /\ UNCHANGED <<form, flow, waiter, timedOut, verdict, closing>>
  /\ bootDone => bootDone'
  /\ bootDone' <=> menuHere'
  /\ pc' \in {"loop"} \union Handshaking => ~bootDone'
  /\ RunnerDone' /\ bootDone' => waiter # "waiting"
  /\ cause' = cause \/ cause' \in {"offline", "timeout", "other", "clean"}
  /\ ~closing /\ pc \notin TearingDown
       /\ pc' \in TearingDown \union {"sleep", "done"} => cause' # "none"

(* No step of the runner, its children or its transport does more. *)
LEMMA RunnerEffect == FlowInv /\ Runner => RunnerStays
<1> SUFFICES ASSUME FlowInv, Runner PROVE RunnerStays
  OBVIOUS
<1> USE DEF RunnerStays, FlowInv, OneAttempt, IInv, RunnerDone, Running,
            FlowWaits, Handshaking, TearingDown, client, tasks, stop, seen
<1>1. CASE RunnerHandshake
  BY <1>1
  DEF RunnerHandshake, NextAttempt, DiscoveryOpened, RouteArrives,
      DiscoveryLeft, RoutedPageRead, AppOpened, HandshakeFails, AfterAttempt,
      AppOpenRejected, BootstrapSendFails
<1>2. CASE RunnerDispatch
  <2> USE DEF TypeOK
  <2>1. Running /\ FlowWaits
    BY <1>2 DEF RunnerDispatch
  <2>2. CASE \E f \in Frame : DispatchFrame(f) /\ UNCHANGED cause
    BY <2>1, <2>2, FrameFacts DEF DispatchFrame, AfterFrame
  <2>3. CASE \E f \in Frame : ChaseFails(f) /\ cause' = "other"
    BY <2>1, <2>3, FrameFacts DEF ChaseFails
  <2>4. CASE SkipUnparsable /\ UNCHANGED cause
    BY <2>1, <2>4 DEF SkipUnparsable
  <2>5. CASE StreamEnds /\ cause' \in {"clean", "other"}
    BY <2>1, <2>5 DEF StreamEnds
  <2> HIDE DEF RunnerStays
  <2> QED BY <1>2, <2>2, <2>3, <2>4, <2>5 DEF RunnerDispatch
<1>3. CASE RunnerTeardown
  BY <1>3
  DEF RunnerTeardown, WaiterFirst, Teardown, CancelPoll, CancelHeartbeat,
      CloseApp, AfterAttempt
<1>4. CASE RunnerChildren \/ TransportLost
  BY <1>4
  DEF RunnerChildren, TransportLost, SocketLost, PollTask, PollBegins,
      PollTicks, PollSendFails, HeartbeatTask, HeartbeatStops,
      HeartbeatCloses, HeartbeatClosed
<1> QED BY <1>1, <1>2, <1>3, <1>4 DEF Runner
-----------------------------------------------------------------------------
(* The cancellation of a runner that has not ended: it keeps what it knows *)
(* of the bootstrap, and blames nobody else.                               *)
LEMMA CancelEffect ==
  ASSUME FlowInv, CancelRunner
  PROVE  /\ UNCHANGED <<closing, bootDone, menuHere>>
         /\ pc' \in {"loop"} \union Handshaking => pc' = pc
         /\ cause' \in {cause, "cancelled"}
BY DEF CancelRunner, Cancel, CancelHandshake, CancelDispatch, CancelSwallowed,
       CancelCloseApp, Handshaking, client, tasks, stop, seen

(* The flow closes a client whose runner has ended: it has no socket left, *)
(* so the session is closed at once.                                       *)
LEMMA ConcludeEffect ==
  ASSUME FlowInv, Conclude
  PROVE  /\ RunnerDone /\ RunnerDone'
         /\ UNCHANGED <<pc, bootDone, menuHere>>
         /\ session'.phase = "CLOSED"
<1>1. RunnerDone
  BY DEF FlowInv, FlowShape, Conclude
<1>2. sock = "closed"
  BY <1>1 DEF FlowInv, IInv, Ownership, RunnerDone, TearingDown
<1>3. UNCHANGED <<pc, bootDone, menuHere>> /\ session' = Close(session)
  BY <1>2 DEF Conclude, CloseRequested, NoSocket, seen
<1>4. session \in Session
  BY DEF FlowInv, IInv, TypeOK
<1> QED BY <1>1, <1>3, <1>4, SessionFields DEF RunnerDone

(* The form, the flow and its tasks keep their types. *)
LEMMA FlowTypeStep == FlowInv /\ [FlowNext]_flowVars => FlowTypeOK'
<1> SUFFICES ASSUME FlowInv, [FlowNext]_flowVars PROVE FlowTypeOK'
  OBVIOUS
<1>0. TypeOK'
  BY ClientStep DEF FlowInv, IInv
<1> USE <1>0 DEF FlowInv, FlowTypeOK, Forms, Flows, Causes, Verdicts
<1>1. CASE Submit
  BY <1>1 DEF Submit
<1>2. CASE Runner
  BY <1>2, RunnerEffect DEF RunnerStays
<1>3. CASE WaiterWakes \/ Respond
  BY <1>3 DEF WaiterWakes, Respond, validation
<1>4. CASE Bootstrapped \/ TimeoutRacing
  BY <1>4, CancelEffect DEF Bootstrapped, TimeoutRacing
<1>5. CASE RunnerStopped \/ RunnerEndedFirst \/ WaiterStopped \/ RunnerUnwound
  BY <1>5 DEF RunnerStopped, RunnerEndedFirst, WaiterStopped, RunnerUnwound
<1>6. CASE Conclude
  BY <1>6 DEF Conclude, Outcome, Failure
<1>7. CASE TimeoutSwallowed
  BY <1>7 DEF TimeoutSwallowed
<1>8. CASE UNCHANGED flowVars
  BY <1>8 DEF flowVars, validation
<1> QED
  BY <1>1, <1>2, <1>3, <1>4, <1>5, <1>6, <1>7, <1>8
  DEF FlowNext, ConnectAndBootstrap, FormTimeout

(* One attempt per client, and a closed one only under an ended runner. *)
LEMMA ShapeStep ==
  FlowInv /\ [FlowNext]_flowVars => OneAttempt' /\ FlowShape'
<1> SUFFICES ASSUME FlowInv, [FlowNext]_flowVars
             PROVE  OneAttempt' /\ FlowShape'
  OBVIOUS
<1> USE DEF FlowInv, FlowTypeOK, Flows, Verdicts, OneAttempt, FlowShape,
            RunnerDone
<1>1. CASE Submit
  BY <1>1 DEF Submit, NewClient
<1>2. CASE Runner
  BY <1>2, RunnerEffect DEF RunnerStays
<1>3. CASE WaiterWakes \/ Respond
  BY <1>3 DEF WaiterWakes, Respond, validation, vars
<1>4. CASE Bootstrapped \/ TimeoutRacing
  BY <1>4, CancelEffect DEF Bootstrapped, TimeoutRacing, vars
<1>5. CASE RunnerStopped \/ RunnerEndedFirst \/ WaiterStopped \/ RunnerUnwound
  BY <1>5
  DEF RunnerStopped, RunnerEndedFirst, WaiterStopped, RunnerUnwound, vars
<1>6. CASE Conclude
  BY <1>6, ConcludeEffect DEF Conclude
<1>7. CASE TimeoutSwallowed
  BY <1>7 DEF TimeoutSwallowed, Handshaking, seen, vars
<1>8. CASE UNCHANGED flowVars
  BY <1>8 DEF flowVars, validation, vars
<1> QED
  BY <1>1, <1>2, <1>3, <1>4, <1>5, <1>6, <1>7, <1>8
  DEF FlowNext, ConnectAndBootstrap, FormTimeout

(* The flow always knows whether the attempt was bootstrapped, and why it  *)
(* ended if it was not.                                                    *)
LEMMA RaceStep ==
  FlowInv /\ [FlowNext]_flowVars => RaceKnows' /\ CauseKnown'
<1> SUFFICES ASSUME FlowInv, [FlowNext]_flowVars
             PROVE  RaceKnows' /\ CauseKnown'
  OBVIOUS
<1> USE DEF FlowInv, FlowTypeOK, Flows, Causes, FlowShape, RaceKnows,
            CauseKnown, RunnerDone
<1>1. CASE Submit
  BY <1>1 DEF Submit, NewClient, TearingDown
<1>2. CASE Runner
  BY <1>2, RunnerEffect DEF RunnerStays, TearingDown
<1>3. CASE WaiterWakes \/ Respond
  BY <1>3 DEF WaiterWakes, Respond, validation, vars
<1>4. CASE Bootstrapped \/ TimeoutRacing
  BY <1>4, CancelEffect DEF Bootstrapped, TimeoutRacing, vars
<1>5. CASE RunnerStopped \/ RunnerEndedFirst \/ WaiterStopped \/ RunnerUnwound
  BY <1>5
  DEF RunnerStopped, RunnerEndedFirst, WaiterStopped, RunnerUnwound, vars
<1>6. CASE Conclude
  BY <1>6, ConcludeEffect DEF Conclude
<1>7. CASE TimeoutSwallowed
  BY <1>7 DEF TimeoutSwallowed, vars
<1>8. CASE UNCHANGED flowVars
  BY <1>8 DEF flowVars, validation, vars
<1> QED
  BY <1>1, <1>2, <1>3, <1>4, <1>5, <1>6, <1>7, <1>8
  DEF FlowNext, ConnectAndBootstrap, FormTimeout

(* Only Conclude gives a verdict, and after it nothing it rests on moves   *)
(* until the next form is submitted.                                       *)
LEMMA VerdictStep ==
  FlowInv /\ [FlowNext]_flowVars
    => BootstrapWins' /\ AcceptedIsBootstrapped' /\ ErrorNamesCause'
<1> SUFFICES ASSUME FlowInv, [FlowNext]_flowVars
             PROVE  BootstrapWins' /\ AcceptedIsBootstrapped' /\ ErrorNamesCause'
  OBVIOUS
<1> USE DEF FlowInv, FlowTypeOK, Flows, Forms, Causes, Verdicts, OneAttempt,
            FlowShape, RaceKnows, CauseKnown, BootstrapWins,
            AcceptedIsBootstrapped, ErrorNamesCause
<1>1. CASE Submit
  BY <1>1 DEF Submit
<1>2. CASE Conclude
  BY <1>2, ConcludeEffect DEF Conclude, Outcome, Failure
<1>3. CASE Respond
  BY <1>3 DEF Respond, validation, vars
<1>4. CASE Runner
  BY <1>4, RunnerEffect DEF RunnerStays
<1>5. CASE /\ flow # "idle"
           /\ UNCHANGED <<form, verdict>>
  BY <1>5
<1>6. CASE Bootstrapped \/ RunnerStopped \/ RunnerEndedFirst \/ WaiterStopped
             \/ RunnerUnwound \/ FormTimeout
  BY <1>5, <1>6
  DEF Bootstrapped, RunnerStopped, RunnerEndedFirst, WaiterStopped,
      RunnerUnwound, FormTimeout, TimeoutRacing, TimeoutSwallowed
<1>7. CASE WaiterWakes \/ UNCHANGED flowVars
  BY <1>7 DEF WaiterWakes, flowVars, validation, vars
<1> QED
  BY <1>1, <1>2, <1>3, <1>4, <1>6, <1>7 DEF FlowNext, ConnectAndBootstrap
-----------------------------------------------------------------------------
(* The form is shown before anything runs. *)
LEMMA FlowInvInit == FlowInit => FlowInv
<1> SUFFICES ASSUME FlowInit PROVE FlowInv
  OBVIOUS
<1>1. IInv
  BY IInvInit DEF FlowInit
<1> QED
  BY <1>1
  DEF FlowInit, Init, FlowInv, IInv, FlowTypeOK, Forms, Flows, Causes, Verdicts,
      OneAttempt, FlowShape, RaceKnows, CauseKnown, RunnerDone, TearingDown,
      BootstrapWins, AcceptedIsBootstrapped, ErrorNamesCause

(* The inductive invariant holds in every state of the config flow. *)
THEOREM FlowInvariance == FlowSpec => []FlowInv
<1>1. FlowInv /\ [FlowNext]_flowVars => FlowInv'
  BY ClientStep, FlowTypeStep, ShapeStep, RaceStep, VerdictStep DEF FlowInv
<1> QED BY FlowInvInit, <1>1, PTL DEF FlowSpec

(* Every reachable state of the flow and its client is well typed. *)
THEOREM FlowTypeCorrect == FlowSpec => []FlowTypeOK
<1>1. FlowInv => FlowTypeOK
  BY DEF FlowInv
<1> QED BY <1>1, FlowInvariance, PTL

(* A bootstrapped attempt is a good token, whatever ends first, unless the *)
(* form's deadline fired (client.py:753-761).                              *)
THEOREM SuccessWins == FlowSpec => []BootstrapWins
<1>1. FlowInv => BootstrapWins
  BY DEF FlowInv
<1> QED BY <1>1, FlowInvariance, PTL

(* An entry is created only for a token whose own client was bootstrapped  *)
(* (config_flow.py:1-7).                                                   *)
THEOREM EntriesAreBootstrapped == FlowSpec => []AcceptedIsBootstrapped
<1>1. FlowInv => AcceptedIsBootstrapped
  BY DEF FlowInv
<1> QED BY <1>1, FlowInvariance, PTL

(* Nothing of an attempt survives its verdict (client.py:757-772,          *)
(* config_flow.py:115-119).                                                *)
THEOREM NothingLeft == FlowSpec => []VerdictLeavesNothing
<1>1. FlowInv => VerdictLeavesNothing
  BY DEF FlowInv, IInv, Ownership, FlowShape, RunnerDone, TearingDown,
         VerdictLeavesNothing
<1> QED BY <1>1, FlowInvariance, PTL

(* The error shown names what went wrong (config_flow.py:120-131). *)
THEOREM ErrorsNameCause == FlowSpec => []ErrorNamesCause
<1>1. FlowInv => ErrorNamesCause
  BY DEF FlowInv
<1> QED BY <1>1, FlowInvariance, PTL
=============================================================================
