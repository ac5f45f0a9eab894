-------------------------- MODULE Heartbeat_proofs --------------------------
(***************************************************************************)
(* The two bounds of Heartbeat.tla for every interval, timeout, jitter and *)
(* latency.                                                                *)
(***************************************************************************)
EXTENDS Heartbeat, TLAPS

(* A round that let the connection live saw sincePong <= Interval + Timeout *)
(* and put the task back to sleep, so sincePong can have grown by no more   *)
(* than the sleep since.                                                    *)
Detection ==
  open => /\ slept <= Interval + Jitter
          /\ sincePong <= Interval + Timeout + slept

(* Pings are answered in the order they were sent. *)
Ordered == \A i, j \in DOMAIN pings : i <= j => pings[j] <= pings[i]

(* While the server hears, the oldest unanswered Ping is younger than the  *)
(* latency and was sent at most one sleep after the last sign of life;     *)
(* with none unanswered, that sign came within the present sleep.          *)
Answers ==
  open /\ hears =>
    IF pings = << >> THEN sincePong <= slept
    ELSE /\ Head(pings) <= Latency
         /\ sincePong <= Head(pings) + Interval + Jitter

IInv == TypeOK /\ Detection /\ Ordered /\ Answers
-----------------------------------------------------------------------------
(* After a tick the ages are still ages, in the same order, one older. *)
LEMMA Older ==
  ASSUME NEW s \in Seq(Nat), NEW t,
         t = [i \in DOMAIN s |-> s[i] + 1]
  PROVE  /\ t \in Seq(Nat)
         /\ t = << >> <=> s = << >>
         /\ s # << >> => Head(t) = Head(s) + 1
         /\ (\A i, j \in DOMAIN s : i <= j => s[j] <= s[i]) =>
               (\A i, j \in DOMAIN t : i <= j => t[j] <= t[i])
OBVIOUS

(* A Ping sent last is the youngest. *)
LEMMA Sent ==
  ASSUME NEW s \in Seq(Nat)
  PROVE  /\ Append(s, 0) \in Seq(Nat) /\ Append(s, 0) # << >>
         /\ s = << >> => Head(Append(s, 0)) = 0
         /\ s # << >> => Head(Append(s, 0)) = Head(s)
         /\ (\A i, j \in DOMAIN s : i <= j => s[j] <= s[i]) =>
               (\A i, j \in DOMAIN Append(s, 0) :
                  i <= j => Append(s, 0)[j] <= Append(s, 0)[i])
OBVIOUS

(* The answer to the oldest Ping leaves the younger ones in order. *)
LEMMA Answered ==
  ASSUME NEW s \in Seq(Nat), s # << >>,
         \A i, j \in DOMAIN s : i <= j => s[j] <= s[i]
  PROVE  /\ Tail(s) \in Seq(Nat)
         /\ Tail(s) # << >> => Head(Tail(s)) <= Head(s)
         /\ \A i, j \in DOMAIN Tail(s) : i <= j => Tail(s)[j] <= Tail(s)[i]
OBVIOUS

(* A freshly opened connection satisfies the inductive invariant: opening  *)
(* counts as a PongOK.                                                     *)
LEMMA Initially == Init => IInv
BY TimesAssumption DEF Init, IInv, TypeOK, Detection, Ordered, Answers

(* Every tick, wake-up, answer, close and reopening preserves it. *)
LEMMA Step == IInv /\ [Next]_vars => IInv'
<1> SUFFICES ASSUME IInv, [Next]_vars PROVE IInv'
  OBVIOUS
<1> USE TimesAssumption DEF IInv, TypeOK, Detection, Ordered, Answers
<1>1. CASE Reopen
  BY <1>1 DEF Reopen
<1>2. CASE Tick
  BY <1>2, Older DEF Tick
<1>3. CASE SendPing
  BY <1>3, Sent DEF SendPing, Awake, Overdue
<1>4. CASE CloseSocket
  BY <1>4 DEF CloseSocket
<1>5. CASE PongOK
  <2>1. /\ Tail(pings) \in Seq(Nat)
        /\ Tail(pings) # << >> => Head(Tail(pings)) <= Head(pings)
        /\ Ordered'
    BY <1>5, Answered DEF PongOK
  <2>2. Tail(pings) # << >> => Head(Tail(pings)) \in Nat
    BY <2>1
  <2>3. TypeOK' /\ Detection'
    BY <1>5, <2>1 DEF PongOK
  <2>4. Answers'
    <3>1. CASE Tail(pings) = << >>
      BY <1>5, <3>1 DEF PongOK
    <3>2. CASE Tail(pings) # << >>
      <4>1. Head(pings) \in Nat /\ Head(pings) <= Latency
        BY <1>5 DEF PongOK
      <4>2. sincePong' = 0 /\ pings' = Tail(pings)
        BY <1>5 DEF PongOK
      <4>3. Head(pings') \in Nat /\ Head(pings') <= Latency
        BY <2>1, <2>2, <3>2, <4>1, <4>2
      <4>4. \A h \in Nat : 0 <= h + Interval + Jitter
        BY ONLY TimesAssumption
      <4>5. pings' # << >>
        BY <3>2, <4>2
      <4> QED BY ONLY <4>2, <4>3, <4>4, <4>5 DEF Answers
    <3> QED BY <3>1, <3>2
  <2> QED BY <2>1, <2>3, <2>4
<1>6. CASE GoDeaf \/ Drop
  BY <1>6 DEF GoDeaf, Drop
<1>7. CASE UNCHANGED vars
  BY <1>7 DEF vars
<1> QED BY <1>1, <1>2, <1>3, <1>4, <1>5, <1>6, <1>7 DEF Next

(* The inductive invariant, types and ages included, holds in every        *)
(* reachable state, for all intervals, timeouts, latencies and jitters.    *)
THEOREM Invariance == Spec => []IInv
BY Initially, Step, PTL DEF Spec

(* No connection outlives its last sign of life by more than two intervals, *)
(* the timeout and one late wake-up (client.py:1003-1023).                  *)
THEOREM Detected == Spec => []DetectionBound
<1>1. IInv => DetectionBound
  BY TimesAssumption DEF IInv, TypeOK, Detection, DetectionBound
<1> QED BY <1>1, Invariance, PTL

(* A server that answers in time is never cut off (client.py:1011).        *)
THEOREM NotCutOff == Spec => NoFalseAlarm
<1>1. IInv /\ [Next]_vars =>
        [CloseSocket /\ Latency + Jitter <= Timeout => ~hears]_vars
  <2> SUFFICES ASSUME IInv, CloseSocket, Latency + Jitter <= Timeout, hears
               PROVE  FALSE
    OBVIOUS
  <2>1. open /\ sincePong > Interval + Timeout
    BY DEF CloseSocket, Awake, Overdue
  <2>2. sincePong <= Latency + Interval + Jitter
    BY <2>1, TimesAssumption DEF IInv, TypeOK, Detection, Answers
  <2> QED BY <2>1, <2>2, TimesAssumption DEF IInv, TypeOK
<1> QED BY <1>1, Invariance, PTL DEF Spec, NoFalseAlarm
=============================================================================
