----------------------------- MODULE Validation -----------------------------
(***************************************************************************)
(* The config flow (config_flow.py) and the one-shot attempt it validates  *)
(* a token with (client.py, connect_and_bootstrap): a runner task, which   *)
(* is one _run_live_once of SmartPlaceClient, raced against a task that    *)
(* waits for the bootstrap event, under the deadline of the form.  Every   *)
(* submitted form makes a client of its own.                               *)
(***************************************************************************)
EXTENDS SmartPlaceClient

VARIABLES
  form,        \* what the user sees: the form, a spinner, or the outcome
  flow,        \* where _validate_token is suspended
  waiter,      \* the task bootstrap_wait
  cause,       \* how the runner ended
  timedOut,    \* CONFIG_FLOW_TIMEOUT has fired in this validation
  verdict      \* what _validate_token has returned: "success" for None

validation == <<flow, waiter, cause, timedOut, verdict>>
flowVars == <<vars, form, validation>>
-----------------------------------------------------------------------------
Forms == {"shown", "validating", "entry", "duplicate"}

(*   idle        no validation running                                     *)
(*   racing      awaiting either task                                      *)
(*   stopRunner  bootstrapped; awaiting the runner it cancelled            *)
(*   stopWaiter  the runner ended; awaiting bootstrap_wait, cancelled      *)
(*   unwind      timed out; awaiting the runner it cancelled               *)
(*   succeed, fail, expire   about to close the client and return          *)
Flows == {"idle", "racing", "stopRunner", "stopWaiter", "unwind",
          "succeed", "fail", "expire"}

(*   offline    HostNotOnline                                              *)
(*   timeout    a handshake step met its deadline                          *)
(*   other      any other exception                                        *)
(*   clean      the server closed the app socket; no exception             *)
(*   cancelled  by the flow                                                *)
Causes == {"none", "offline", "timeout", "other", "clean", "cancelled"}

Verdicts == {"none", "success", "invalid_auth", "cannot_connect", "unknown"}

FlowTypeOK ==
  /\ TypeOK
  /\ form \in Forms
  /\ flow \in Flows
  /\ waiter \in {"none", "waiting", "done", "cancelled"}
  /\ cause \in Causes
  /\ timedOut \in BOOLEAN
  /\ verdict \in Verdicts

(* The attempt is over; run()'s loop around it is not used here. *)
RunnerDone == pc \in {"sleep", "done"}

FlowInit ==
  /\ Init
  /\ form = "shown" /\ flow = "idle" /\ waiter = "none"
  /\ cause = "none" /\ timedOut = FALSE /\ verdict = "none"

(* A client just constructed, as Init has it. *)
NewClient ==
  /\ pc' = "loop" /\ ws' = "none" /\ sock' = "closed"
  /\ session' = NewSession
  /\ chartIds' = {} /\ bootDone' = FALSE
  /\ heartbeat' = "none" /\ poll' = "none"
  /\ closing' = FALSE /\ aclose' = "no"
  /\ cancelled' = FALSE /\ unwinding' = FALSE
  /\ asked' = {} /\ ranged' = {} /\ menuHere' = FALSE
  /\ late' = 0 /\ audit' = "none"

(* The user submits a token: a new client and both tasks. *)
Submit ==
  /\ form = "shown"
  /\ NewClient
  /\ form' = "validating" /\ flow' = "racing" /\ waiter' = "waiting"
  /\ cause' = "none" /\ timedOut' = FALSE /\ verdict' = "none"
-----------------------------------------------------------------------------
(* The runner task and its children.                                       *)

(* A task that set() has made ready runs before one that has to be woken   *)
(* by another task's end: the waiter is done before the teardown, which    *)
(* awaits two cancelled tasks, is.                                         *)
WaiterFirst == ~(waiter = "waiting" /\ bootDone)

FlowWaits == UNCHANGED <<form, flow, waiter, timedOut, verdict>>

Running == form = "validating" /\ ~RunnerDone

RunnerHandshake ==
  /\ Running
  /\ \/ /\ \/ pc = "loop" /\ NextAttempt
           \/ DiscoveryOpened \/ RouteArrives \/ DiscoveryLeft
           \/ RoutedPageRead \/ AppOpened
        /\ UNCHANGED cause
     \/ /\ HandshakeFails
        /\ cause' \in {"timeout", "other"}
                        \union (IF pc = "route" THEN {"offline"} ELSE {})
     \/ AppOpenRejected /\ cause' = "other"
     \/ BootstrapSendFails /\ cause' = "other"
  /\ FlowWaits

RunnerDispatch ==
  /\ Running
  /\ \/ \E f \in Frame : DispatchFrame(f) /\ UNCHANGED cause
     \/ SkipUnparsable /\ UNCHANGED cause
     \/ \E f \in Frame : ChaseFails(f) /\ cause' = "other"
     \/ StreamEnds /\ cause' \in {"clean", "other"}
  /\ FlowWaits

RunnerTeardown ==
  /\ Running /\ WaiterFirst
  /\ Teardown
  /\ UNCHANGED cause /\ FlowWaits

RunnerChildren ==
  /\ Running
  /\ PollTask \/ HeartbeatTask
  /\ UNCHANGED cause /\ FlowWaits

TransportLost == Running /\ SocketLost /\ UNCHANGED cause /\ FlowWaits

(* cancel() of the runner, delivered at the await it is suspended in; only *)
(* the teardown's awaits of its children do not end with it.               *)
CancelRunner ==
  /\ Cancel
  /\ cause' = IF pc \in {"cancelPoll", "cancelHeartbeat"} THEN cause
              ELSE "cancelled"

WaiterWakes ==
  /\ waiter = "waiting" /\ bootDone
  /\ waiter' = "done"
  /\ UNCHANGED <<vars, form, flow, cause, timedOut, verdict>>
-----------------------------------------------------------------------------
(* connect_and_bootstrap.                                                  *)

(* Fault: the runner's outcome is looked at first. *)
Bootstrapped_RunnerFirst ==
  /\ flow = "racing" /\ waiter = "done"
  /\ IF RunnerDone
     THEN flow' = "fail" /\ UNCHANGED <<vars, cause>>
     ELSE flow' = "stopRunner" /\ CancelRunner
  /\ UNCHANGED <<form, waiter, timedOut, verdict>>

(* Fault: on success the runner is left to itself. *)
Bootstrapped_LeavesRunner ==
  /\ flow = "racing" /\ waiter = "done"
  /\ flow' = "succeed"
  /\ UNCHANGED <<vars, cause, form, waiter, timedOut, verdict>>

(* asyncio.wait returns and bootstrap_wait is in done: success, whether or *)
(* not the runner is done too; a runner that is not is cancelled and       *)
(* awaited, whatever it then raises.                                       *)
Bootstrapped ==
  /\ flow = "racing" /\ waiter = "done"
  /\ IF RunnerDone
     THEN flow' = "succeed" /\ UNCHANGED <<vars, cause>>
     ELSE flow' = "stopRunner" /\ CancelRunner
  /\ UNCHANGED <<form, waiter, timedOut, verdict>>

RunnerStopped ==
  /\ flow = "stopRunner" /\ RunnerDone
  /\ flow' = "succeed"
  /\ UNCHANGED <<vars, form, waiter, cause, timedOut, verdict>>

(* asyncio.wait returns and only the runner is in done. *)
RunnerEndedFirst ==
  /\ flow = "racing" /\ RunnerDone /\ waiter = "waiting"
  /\ flow' = "stopWaiter"
  /\ UNCHANGED <<vars, form, waiter, cause, timedOut, verdict>>

(* Fault: bootstrap_wait is awaited without having been cancelled. *)
WaiterStopped_NotCancelled ==
  /\ flow = "stopWaiter" /\ waiter = "done"
  /\ flow' = "fail"
  /\ UNCHANGED <<vars, form, waiter, cause, timedOut, verdict>>

WaiterStopped ==
  /\ flow = "stopWaiter"
  /\ waiter' = "cancelled" /\ flow' = "fail"
  /\ UNCHANGED <<vars, form, cause, timedOut, verdict>>

(* The form's deadline cancels the flow in asyncio.wait: the finally block *)
(* cancels a runner that is not done.  Nobody cancels bootstrap_wait.      *)
TimeoutRacing ==
  /\ flow = "racing" /\ ~timedOut
  /\ timedOut' = TRUE
  /\ IF RunnerDone
     THEN flow' = "expire" /\ UNCHANGED <<vars, cause>>
     ELSE flow' = "unwind" /\ CancelRunner
  /\ UNCHANGED <<form, waiter, verdict>>

RunnerUnwound ==
  /\ flow = "unwind" /\ RunnerDone
  /\ flow' = "expire"
  /\ UNCHANGED <<vars, form, waiter, cause, timedOut, verdict>>

(* The deadline falls while a cancelled task is awaited under suppress:    *)
(* the flow's own cancellation is swallowed.  The runner, if it is the one *)
(* awaited, is cancelled once more, which can only cut its close() short.  *)
TimeoutSwallowed ==
  /\ flow \in {"stopRunner", "stopWaiter"} /\ ~timedOut
  /\ timedOut' = TRUE
  /\ IF pc = "closeApp" /\ sock # "closed"
     THEN /\ pc' = "done" /\ sock' = "closed" /\ unwinding' = FALSE
          /\ cause' = "cancelled"
          /\ UNCHANGED <<ws, session, chartIds, bootDone, tasks,
                         closing, aclose, cancelled, seen>>
     ELSE UNCHANGED <<vars, cause>>
  /\ UNCHANGED <<form, flow, waiter, verdict>>
-----------------------------------------------------------------------------
(* _validate_token: what the exception is mapped to.                       *)

(* Fault: the form is handed the cause, for which it has no text. *)
Failure_IsCause == cause

Failure == IF cause \in {"offline", "timeout"} THEN "cannot_connect"
           ELSE "unknown"

(* Fault: an end without an exception counts as a success. *)
Outcome_CleanIsSuccess ==
  CASE flow = "expire" -> "cannot_connect"
    [] flow = "fail" /\ cause = "clean" -> "success"
    [] flow = "fail" -> Failure
    [] flow = "succeed" -> "success"

(* Fault: every failed attempt is reported as no connection. *)
Outcome_NoneUnknown == IF flow = "succeed" THEN "success" ELSE "cannot_connect"

(* SmartPlaceAuthError is caught too, but nothing raises it. *)
Outcome ==
  CASE flow = "expire"  -> "cannot_connect"
    [] flow = "fail"    -> Failure
    [] flow = "succeed" -> "success"

(* The finally block closes the client, which has no socket left and so    *)
(* does not suspend; then the verdict is known.                            *)
Conclude ==
  /\ flow \in {"succeed", "fail", "expire"}
  /\ CloseRequested
  /\ verdict' = Outcome
  /\ flow' = "idle"
  /\ UNCHANGED <<form, waiter, cause, timedOut>>

(* async_step_user, async_step_reauth_confirm: an entry is created or      *)
(* updated on success, unless the same installation is configured already; *)
(* any other verdict shows the form again.                                 *)
Respond ==
  /\ form = "validating" /\ verdict # "none"
  /\ form' \in IF verdict = "success" THEN {"entry", "duplicate"} ELSE {"shown"}
  /\ UNCHANGED <<vars, validation>>

ConnectAndBootstrap ==
  \/ Bootstrapped \/ RunnerStopped \/ RunnerEndedFirst \/ WaiterStopped
  \/ RunnerUnwound \/ Conclude

FormTimeout == TimeoutRacing \/ TimeoutSwallowed

Runner == RunnerHandshake \/ RunnerDispatch \/ RunnerTeardown
            \/ RunnerChildren \/ TransportLost

FlowNext == Submit \/ Runner \/ WaiterWakes \/ ConnectAndBootstrap
              \/ FormTimeout \/ Respond

(* The form's deadline fires if nothing else ends the race; tasks that can *)
(* run run; the server owes nothing.                                       *)
FlowFairness ==
  /\ WF_flowVars(WaiterWakes)
  /\ WF_flowVars(ConnectAndBootstrap)
  /\ WF_flowVars(TimeoutRacing)
  /\ WF_flowVars(Respond)
  /\ WF_flowVars(RunnerHandshake)
  /\ WF_flowVars(RunnerTeardown)

FlowSpec == FlowInit /\ [][FlowNext]_flowVars

FairFlowSpec == FlowSpec /\ FlowFairness
-----------------------------------------------------------------------------
(* Success wins: when the connection is bootstrapped and ends at once, so  *)
(* that both tasks are done when the flow looks, or the runner ends while  *)
(* the flow is still on its way, the token counts as good                  *)
(* (client.py:753-761).  Only the form's own deadline can take it back.    *)
BootstrapWins ==
  verdict # "none" /\ bootDone /\ ~timedOut => verdict = "success"

(* A token is accepted only when this very client saw MainMenuFinished on  *)
(* its app socket (config_flow.py:1-7), never because the attempt merely   *)
(* ended without an error, and an entry exists only after such a verdict.  *)
AcceptedIsBootstrapped ==
  /\ verdict = "success" => menuHere /\ bootDone
  /\ form \in {"entry", "duplicate"} => verdict = "success"

(* When the form answers, nothing of the attempt is left to talk to the    *)
(* server: the runner has ended with its children and its socket, and the  *)
(* session is closed, although cancellations of runner and flow meet in    *)
(* every way (client.py:757-772, config_flow.py:115-119).                  *)
VerdictLeavesNothing ==
  verdict # "none" =>
    /\ RunnerDone /\ sock = "closed"
    /\ heartbeat = "none" /\ poll = "none"
    /\ session.phase = "CLOSED"

(* The error names its cause (config_flow.py:120-131): an offline          *)
(* installation, a stalled step or the form's deadline is cannot_connect;  *)
(* what else failed, a refused connection included, is unknown.            *)
ErrorNamesCause ==
  /\ verdict = "cannot_connect" => timedOut \/ cause \in {"offline", "timeout"}
  /\ verdict = "unknown" => cause \in {"other", "clean"}

(* Every submitted token gets an answer, from a server that stalls or goes *)
(* quiet at any point too (config_flow.py:115-119).                        *)
ValidationAnswers == form = "validating" ~> form # "validating"
=============================================================================
