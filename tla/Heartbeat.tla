----------------------------- MODULE Heartbeat -----------------------------
(***************************************************************************)
(* The timing of the application heartbeat (client.py, _heartbeat and the  *)
(* PongOK branch of the dispatch loop) over successive connections.  Time  *)
(* is discrete and kept as ages, so that no clock has to be bounded; when  *)
(* the socket closes and how the loop reconnects is SmartPlaceClient.tla.  *)
(***************************************************************************)
EXTENDS Integers, Sequences

CONSTANTS
  Interval,  \* ping_interval
  Timeout,   \* ping_timeout
  Jitter,    \* the latest a sleep may end after its time (a busy loop)
  Latency    \* the slowest answer of a server that hears its clients

(* client.py:1001-1002: no heartbeat runs for an interval of 0 or less. *)
ASSUME TimesAssumption ==
  /\ Interval \in Nat \ {0} /\ Timeout \in Nat
  /\ Jitter \in Nat /\ Latency \in Nat

VARIABLES
  open,       \* the app socket is open and its heartbeat task running
  hears,      \* the server still answers on this connection
  sincePong,  \* now - self._last_pong
  slept,      \* time since the task last went to sleep
  pings       \* ages of the Pings sent and not answered, oldest first

vars == <<open, hears, sincePong, slept, pings>>

TypeOK ==
  /\ open \in BOOLEAN /\ hears \in BOOLEAN
  /\ sincePong \in Nat /\ slept \in Nat
  /\ pings \in Seq(Nat)

(* A fresh connection counts as a sign of life: the clock is seeded. *)
Init ==
  /\ open = TRUE /\ hears = TRUE
  /\ sincePong = 0 /\ slept = 0 /\ pings = << >>

(* Fault: _last_pong is not seeded when a connection opens. *)
Reopen_Unseeded ==
  /\ ~open
  /\ open' = TRUE /\ hears' = TRUE
  /\ slept' = 0 /\ pings' = << >>
  /\ UNCHANGED sincePong

(* The reconnect loop has opened the next connection. *)
Reopen ==
  /\ ~open
  /\ open' = TRUE /\ hears' = TRUE
  /\ sincePong' = 0 /\ slept' = 0 /\ pings' = << >>

(* Time passes, no further than the end of the sleep and the answer a      *)
(* hearing server owes.                                                    *)
Tick ==
  /\ open
  /\ slept < Interval + Jitter
  /\ hears /\ pings # << >> => Head(pings) < Latency
  /\ sincePong' = sincePong + 1
  /\ slept' = slept + 1
  /\ pings' = [i \in DOMAIN pings |-> pings[i] + 1]
  /\ UNCHANGED <<open, hears>>

Awake == open /\ slept >= Interval

(* Fault: the Ping is counted as a sign of life when it is sent. *)
Overdue_FromPing == slept > Interval + Timeout

(* Fault: the allowance for the interval is forgotten. *)
Overdue_TimeoutOnly == sincePong > Timeout

(* The test of one round. *)
Overdue == sincePong > Interval + Timeout

SendPing ==
  /\ Awake /\ ~Overdue
  /\ pings' = Append(pings, 0)
  /\ slept' = 0
  /\ UNCHANGED <<open, hears, sincePong>>

(* Fault: the task gives up without closing the socket. *)
CloseSocket_GivesUp ==
  /\ Awake /\ Overdue
  /\ UNCHANGED vars

CloseSocket ==
  /\ Awake /\ Overdue
  /\ open' = FALSE
  /\ UNCHANGED <<hears, sincePong, slept, pings>>

(* A PongOK reaches the dispatch loop. *)
PongOK ==
  /\ open /\ hears /\ pings # << >>
  /\ sincePong' = 0
  /\ pings' = Tail(pings)
  /\ UNCHANGED <<open, hears, slept>>

(* The server goes deaf above the socket layer. *)
GoDeaf ==
  /\ open /\ hears
  /\ hears' = FALSE
  /\ UNCHANGED <<open, sincePong, slept, pings>>

(* The connection ends for another reason. *)
Drop ==
  /\ open
  /\ open' = FALSE
  /\ UNCHANGED <<hears, sincePong, slept, pings>>

Next == \/ Reopen \/ Tick \/ SendPing \/ CloseSocket \/ PongOK \/ GoDeaf
        \/ Drop

Spec == Init /\ [][Next]_vars

(* Time passes and the task acts when its sleep is over. *)
FairSpec == Spec /\ WF_vars(Tick \/ SendPing \/ CloseSocket \/ PongOK)
-----------------------------------------------------------------------------
(* A connection is never kept longer than two intervals and the timeout    *)
(* after its last sign of life (client.py:1003-1023).  With the defaults   *)
(* 60 s and 30 s: closed 150 s after it, not 30 s.                         *)
DetectionBound ==
  open => sincePong <= 2 * Interval + Timeout + Jitter

(* A server that answers within the timeout, less what the event loop may  *)
(* be late by, is never cut off (client.py:1011), not by the first round   *)
(* of a connection either.                                                 *)
NoFalseAlarm ==
  [][CloseSocket /\ Latency + Jitter <= Timeout => ~hears]_vars

(* A deaf connection does not stay open for ever.                          *)
DeafIsClosed == ~hears ~> ~open
=============================================================================
