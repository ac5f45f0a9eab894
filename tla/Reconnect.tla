----------------------------- MODULE Reconnect -----------------------------
(***************************************************************************)
(* The pace of reconnects (client.py: ExponentialBackoff, the outer loop   *)
(* of _run_live_with_reconnect and _postrun_delay) over attempts that take *)
(* time: three handshake steps, each under its own deadline, and a session *)
(* of any length.  Time is discrete; ages that are only compared with a    *)
(* bound stop counting one past it.  No delay is 0, so that no two         *)
(* attempts have one age.  What an attempt does to sockets and tasks is    *)
(* SmartPlaceClient.tla.                                                   *)
(***************************************************************************)
EXTENDS Integers, FiniteSets

CONSTANTS
  Initial,      \* ExponentialBackoff.initial
  Base,         \* ExponentialBackoff.base
  Cap,          \* ExponentialBackoff.cap
  Jitter,       \* ExponentialBackoff.jitter, in percent
  StepTimeout,  \* DISCOVERY_STEP_TIMEOUT
  Threshold     \* _STABLE_RUN_THRESHOLD

ASSUME PaceAssumption ==
  /\ Initial \in Nat \ {0} /\ Base \in Nat \ {0} /\ Jitter \in Nat
  /\ Cap \in Nat /\ Initial <= Cap
  /\ StepTimeout \in Nat /\ Threshold \in Nat

VARIABLES
  stage,    \* what the run task is doing
  step,     \* time spent in the current handshake step
  attempt,  \* time since run_start, at most Threshold + 1
  next,     \* ExponentialBackoff._next
  planned,  \* the last delay before jitter
  left,     \* what is left of the sleep
  outage,   \* time since the last attempt that reset the schedule, or since
            \* run() began, at most Cap
  silent,   \* time without a session since this attempt, or its session's
            \* end, began
  dials     \* ages of the attempts started in the last Threshold

vars == <<stage, step, attempt, next, planned, left, outage, silent, dials>>

(* The three steps with a deadline each; discovery's covers connecting and *)
(* the first frame.                                                        *)
Steps == {"discovery", "page", "open"}

Stage == Steps \union {"serving", "sleep"}

(* What uniform(0, jitter) can make of a delay, in whole units. *)
Jittered(n) == n .. n + (Jitter * n) \div 100

LongestDelay == Cap + (Jitter * Cap) \div 100

Least(a, b) == IF a <= b THEN a ELSE b

TypeOK ==
  /\ stage \in Stage
  /\ step \in 0..StepTimeout
  /\ attempt \in 0..Threshold + 1
  /\ next \in Initial..Cap /\ planned \in 0..Cap /\ left \in Nat
  /\ outage \in 0..Cap
  /\ silent \in Nat
  /\ dials \subseteq 0..Threshold

Init ==
  /\ stage = "discovery" /\ step = 0 /\ attempt = 0
  /\ next = Initial /\ planned = 0 /\ left = 0
  /\ outage = 0 /\ silent = 0
  /\ dials = {0}

(* Fault: one of the steps has no deadline of its own. *)
MayWait_NoDeadline == stage \in Steps \ {"page"} => step < StepTimeout

(* A step that is still running has not met its deadline, a sleep is not   *)
(* over.                                                                   *)
MayWait ==
  /\ stage \in Steps => step < StepTimeout
  /\ stage = "sleep" => left > 0

Tick ==
  /\ MayWait
  /\ step' = IF stage \in Steps THEN Least(step + 1, StepTimeout) ELSE step
  /\ attempt' = IF stage = "sleep" THEN attempt
                ELSE Least(attempt + 1, Threshold + 1)
  /\ left' = IF stage = "sleep" THEN left - 1 ELSE left
  /\ outage' = Least(outage + 1, Cap)
  /\ silent' = IF stage = "serving" THEN 0 ELSE silent + 1
  /\ dials' = {age + 1 : age \in dials} \ {Threshold + 1}
  /\ UNCHANGED <<stage, next, planned>>

(* A handshake step answers in time. *)
StepDone ==
  /\ stage \in Steps
  /\ stage' = CASE stage = "discovery" -> "page"
                [] stage = "page"      -> "open"
                [] stage = "open"      -> "serving"
  /\ step' = 0
  /\ silent' = IF stage' = "serving" THEN 0 ELSE silent
  /\ UNCHANGED <<attempt, next, planned, left, outage, dials>>

(* Fault: the schedule restarts after any attempt that reached the app. *)
Lasting_AnySession == stage = "serving"

(* Fault: the schedule never restarts. *)
Lasting_Never == FALSE

(* _postrun_delay's test: the whole attempt counts, the steps of a         *)
(* handshake that never got to a session included.                         *)
Lasting == attempt > Threshold

(* Fault: the growth has no cap. *)
Advance_Uncapped(n) == Base * n

(* ExponentialBackoff.next: what follows a delay. *)
Advance(n) == Least(Base * n, Cap)

(* The attempt is over, whatever ended it: a step failed or met its        *)
(* deadline, or the session ended.  _postrun_delay restarts the schedule   *)
(* after a lasting attempt, takes the next delay and advances.             *)
AttemptEnds ==
  /\ stage # "sleep"
  /\ stage' = "sleep" /\ step' = 0
  /\ planned' = IF Lasting THEN Initial ELSE next
  /\ next' = Advance(planned')
  /\ left' \in Jittered(planned')
  /\ outage' = IF attempt > Threshold THEN 0 ELSE outage
  /\ UNCHANGED <<attempt, silent, dials>>

(* The sleep is over: while not self._closing. *)
NextAttempt ==
  /\ stage = "sleep" /\ left = 0
  /\ stage' = "discovery" /\ attempt' = 0 /\ silent' = 0
  /\ dials' = dials \union {0}
  /\ UNCHANGED <<step, next, planned, left, outage>>

Next == Tick \/ StepDone \/ AttemptEnds \/ NextAttempt

Spec == Init /\ [][Next]_vars
-----------------------------------------------------------------------------
(* However the server fails, no window as long as the stable-run threshold *)
(* sees more attempts than the doubling schedule allows from its start     *)
(* (client.py:200-211, 486-499): with the defaults six a minute.  A reset  *)
(* cannot speed this up, since the attempt that earned it fills a window.  *)
AttemptsAreSpaced ==
  dials # {} => Initial * (2 ^ (Cardinality(dials) - 1) - 1) <= Threshold

(* The client waits no longer for a server than the server has already     *)
(* kept it waiting: a delay, before jitter, never exceeds the initial one  *)
(* plus the time since the last lasting attempt (client.py:75-81, 497-499).*)
(* Growth of an earlier outage does not reach the next one.  It is the     *)
(* base of 2 that makes the delays before one add up to it.                *)
DelayWithinOutage == stage = "sleep" => planned <= Initial + outage

(* A server that comes back is dialled before long, however the attempts   *)
(* until then went: unless a session is up, the last attempt began no      *)
(* longer ago than three deadlines and the longest delay (client.py:66-73, *)
(* 786-843, 218-222).  It does not matter where a handshake stalls.        *)
NeverSilent ==
  stage # "serving" => silent <= 3 * StepTimeout + LongestDelay
=============================================================================
