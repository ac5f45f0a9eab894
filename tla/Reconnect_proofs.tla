------------------------- MODULE Reconnect_proofs -------------------------
(***************************************************************************)
(* Proofs about Reconnect, for every schedule, deadline and threshold: the *)
(* type invariant, that a delay does not exceed the outage it answers, and *)
(* that the client is never quiet for longer than three deadlines and a    *)
(* delay.                                                                  *)
(***************************************************************************)
EXTENDS Reconnect, FiniteSetTheorems, WellFoundedInduction, TLAPS

(* The schedule stays between its ends whatever it has grown to. *)
LEMMA AdvanceTyped ==
  ASSUME NEW n \in Initial..Cap
  PROVE  Advance(n) \in n..Cap
<1>1. Base * n \in Nat /\ n <= Base * n
  BY PaceAssumption
<1> QED BY <1>1, PaceAssumption DEF Advance, Least

(* A jittered delay is no longer than the jittered cap. *)
LEMMA JitterBound ==
  ASSUME NEW n \in 0..Cap, NEW d \in Jittered(n)
  PROVE  d \in n..LongestDelay /\ LongestDelay \in Nat
<1>1. Jitter * n \in Nat /\ Jitter * Cap \in Nat /\ Jitter * n <= Jitter * Cap
  BY PaceAssumption
<1>2. ASSUME NEW a \in Nat, NEW b \in Nat, a <= b
      PROVE  a \div 100 \in Nat /\ b \div 100 \in Nat /\ a \div 100 <= b \div 100
  BY <1>2
<1>3. /\ (Jitter * n) \div 100 \in Nat /\ (Jitter * Cap) \div 100 \in Nat
      /\ (Jitter * n) \div 100 <= (Jitter * Cap) \div 100
  BY <1>1, <1>2
<1> QED BY <1>3, PaceAssumption DEF Jittered, LongestDelay

(* The constructor starts a well-typed schedule. *)
LEMMA TypeInit == Init => TypeOK
BY PaceAssumption DEF Init, TypeOK, Stage, Steps

(* The type invariant is inductive. *)
LEMMA TypeStep == TypeOK /\ [Next]_vars => TypeOK'
<1> SUFFICES ASSUME TypeOK, [Next]_vars PROVE TypeOK'
  OBVIOUS
<1> USE PaceAssumption DEF TypeOK, Stage, Steps
<1>1. CASE Tick
  BY <1>1 DEF Tick, MayWait, Least
<1>2. CASE StepDone
  BY <1>2 DEF StepDone
<1>3. CASE AttemptEnds
  <2>1. planned' \in Initial..Cap
    BY <1>3 DEF AttemptEnds
  <2>2. next' \in Initial..Cap
    BY <1>3, <2>1, AdvanceTyped DEF AttemptEnds
  <2>3. left' \in Nat
    BY <1>3, <2>1, JitterBound DEF AttemptEnds
  <2> QED BY <1>3, <2>1, <2>2, <2>3 DEF AttemptEnds
<1>4. CASE NextAttempt
  BY <1>4 DEF NextAttempt
<1>5. CASE UNCHANGED vars
  BY <1>5 DEF vars
<1> QED BY <1>1, <1>2, <1>3, <1>4, <1>5 DEF Next

(* The schedule, its clocks and its ages stay in range for every initial   *)
(* delay, base, cap and jitter.                                            *)
THEOREM TypeCorrect == Spec => []TypeOK
BY TypeInit, TypeStep, PTL DEF Spec
-----------------------------------------------------------------------------
(* What is left of a sleep will have been added to the outage before the   *)
(* next delay is taken: the schedule has not outgrown the outage by more   *)
(* than its initial delay.                                                 *)
NextWithinOutage ==
  next <= Initial + outage + (IF stage = "sleep" THEN left ELSE 0)

(* What a base of at most 2 makes of a delay. *)
LEMMA AtMostDouble ==
  ASSUME Base <= 2, NEW n \in Initial..Cap
  PROVE  Base * n \in Nat /\ Base * n <= n + n
<1>1. n \in Nat /\ (Base = 1 \/ Base = 2)
  BY PaceAssumption
<1>2. CASE Base = 1
  BY <1>1, <1>2
<1>3. CASE Base = 2
  BY <1>1, <1>3
<1> QED BY <1>1, <1>2, <1>3

(* A base of at most 2 keeps the next delay within the sum of the delays   *)
(* so far and one initial delay.                                           *)
LEMMA OutageStep ==
  ASSUME Base <= 2, TypeOK, NextWithinOutage, DelayWithinOutage, [Next]_vars
  PROVE  NextWithinOutage' /\ DelayWithinOutage'
<1> USE PaceAssumption DEF TypeOK, Stage, Steps, NextWithinOutage, DelayWithinOutage
<1>1. CASE Tick
  BY <1>1 DEF Tick, MayWait, Least
<1>2. CASE StepDone
  BY <1>2 DEF StepDone
<1>3. CASE AttemptEnds
  <2>1. planned' \in Initial..Cap
    BY <1>3 DEF AttemptEnds
  <2>2. planned' <= Initial + outage'
    BY <1>3 DEF AttemptEnds, Lasting
  <2>3. left' >= planned'
    BY <1>3, <2>1, JitterBound DEF AttemptEnds
  <2>4. Base * planned' \in Nat /\ Base * planned' <= planned' + planned'
    BY <2>1, AtMostDouble
  <2>5. next' <= planned' + planned'
    BY <1>3, <2>1, <2>4 DEF AttemptEnds, Advance, Least
  <2>6. outage' \in Nat /\ next' \in Nat /\ left' \in Nat /\ stage' = "sleep"
    BY <1>3, <2>1, <2>3, TypeStep, JitterBound DEF AttemptEnds, Advance, Least
  <2>7. planned' \in Nat /\ Initial \in Nat
    BY <2>1
  <2>8. next' <= Initial + outage' + left'
    <3>1. ASSUME NEW n \in Nat, NEW p \in Nat, NEW o \in Nat, NEW l \in Nat,
                 NEW i \in Nat, n <= p + p, p <= i + o, p <= l
          PROVE  n <= i + o + l
      BY <3>1
    <3> QED BY <3>1, <2>2, <2>3, <2>5, <2>6, <2>7
  <2> QED BY <2>2, <2>6, <2>8
<1>4. CASE NextAttempt
  BY <1>4 DEF NextAttempt
<1>5. CASE UNCHANGED vars
  BY <1>5 DEF vars
<1> QED BY <1>1, <1>2, <1>3, <1>4, <1>5 DEF Next

(* With the base of the code, or a smaller one, the client waits no longer *)
(* for a server than the server has kept it waiting (client.py:75-81,      *)
(* 497-499).                                                               *)
THEOREM DelayBounded == ASSUME Base <= 2 PROVE Spec => []DelayWithinOutage
<1>1. Init => NextWithinOutage /\ DelayWithinOutage
  BY PaceAssumption DEF Init, NextWithinOutage, DelayWithinOutage
<1>2. TypeOK /\ NextWithinOutage /\ DelayWithinOutage /\ [Next]_vars
        => NextWithinOutage' /\ DelayWithinOutage'
  BY OutageStep
<1> QED BY <1>1, <1>2, TypeCorrect, PTL DEF Spec
-----------------------------------------------------------------------------
(* The steps of the handshake that are behind an attempt. *)
StepsBehind == CASE stage = "discovery" -> 0
                 [] stage = "page"      -> StepTimeout
                 [] stage = "open"      -> 2 * StepTimeout
                 [] OTHER               -> 0

(* How long the client has been without a session, by its stage. *)
SilenceByStage ==
  /\ stage \in Steps => silent <= StepsBehind + step
  /\ stage = "serving" => silent = 0
  /\ stage = "sleep" => silent + left <= 3 * StepTimeout + LongestDelay

(* Every step keeps the account. *)
LEMMA SilenceStep == TypeOK /\ SilenceByStage /\ [Next]_vars => SilenceByStage'
<1> SUFFICES ASSUME TypeOK, SilenceByStage, [Next]_vars PROVE SilenceByStage'
  OBVIOUS
<1> USE PaceAssumption DEF TypeOK, Stage, Steps, SilenceByStage, StepsBehind
<1>1. CASE Tick
  BY <1>1 DEF Tick, MayWait, Least
<1>2. CASE StepDone
  BY <1>2 DEF StepDone
<1>3. CASE AttemptEnds
  <2>1. planned' \in 0..Cap
    BY <1>3 DEF AttemptEnds
  <2>2. left' \in 0..LongestDelay /\ LongestDelay \in Nat
    BY <1>3, <2>1, JitterBound DEF AttemptEnds
  <2>3. silent <= 3 * StepTimeout
    BY <1>3 DEF AttemptEnds
  <2> QED BY <1>3, <2>2, <2>3 DEF AttemptEnds
<1>4. CASE NextAttempt
  BY <1>4 DEF NextAttempt
<1>5. CASE UNCHANGED vars
  BY <1>5 DEF vars
<1> QED BY <1>1, <1>2, <1>3, <1>4, <1>5 DEF Next

(* Whatever stalls or fails, the client without a session has dialled no   *)
(* longer ago than three deadlines and the longest delay (client.py:66-73, *)
(* 786-843, 218-222).                                                      *)
THEOREM SilenceBounded == Spec => []NeverSilent
<1>1. Init => SilenceByStage
  BY PaceAssumption DEF Init, SilenceByStage, StepsBehind, Steps
<1>2. TypeOK /\ SilenceByStage => NeverSilent
  <2>1. LongestDelay \in Nat
    BY PaceAssumption, JitterBound DEF Jittered
  <2> QED
    BY <2>1, PaceAssumption
    DEF TypeOK, Stage, Steps, SilenceByStage, StepsBehind, NeverSilent
<1> QED BY <1>1, <1>2, SilenceStep, TypeCorrect, PTL DEF Spec
-----------------------------------------------------------------------------
(* Powers of two, from the number of subsets of 1..k. *)
LEMMA PowerDoubles ==
  ASSUME NEW k \in Nat
  PROVE  /\ 2 ^ k \in Nat /\ 2 ^ k >= 1
         /\ 2 ^ (k + 1) = 2 * 2 ^ k
         /\ 2 ^ 0 = 1
<1> DEFINE S == 1..k
           x == k + 1
           Sub == SUBSET S
           Sup == {T \cup {x} : T \in Sub}
<1>1. \A n \in Nat : /\ IsFiniteSet(SUBSET (1..n))
                     /\ Cardinality(SUBSET (1..n)) = 2 ^ n
  <2> TAKE n \in Nat
  <2>1. IsFiniteSet(1..n) /\ Cardinality(1..n) = n
    BY FS_Interval
  <2> QED BY <2>1, FS_SUBSET
<1>2. /\ IsFiniteSet(Sub) /\ Cardinality(Sub) = 2 ^ k
      /\ Cardinality(Sub) \in Nat /\ Sub # {}
  BY <1>1, FS_CardinalityType
<1>3. SUBSET (1..(k + 1)) = Sub \cup Sup
  <2>1. 1..(k + 1) = S \cup {x}
    OBVIOUS
  <2>2. ASSUME NEW T \in SUBSET (S \cup {x})
        PROVE  T \in Sub \cup Sup
    <3>1. T \ {x} \in Sub
      OBVIOUS
    <3>2. x \in T => T = (T \ {x}) \cup {x}
      OBVIOUS
    <3>3. x \notin T => T \in Sub
      OBVIOUS
    <3> QED BY <3>1, <3>2, <3>3
  <2> HIDE DEF S, x
  <2> QED BY <2>1, <2>2
<1>4. Sub \cap Sup = {}
  <2>1. x \notin S
    OBVIOUS
  <2> HIDE DEF S, x
  <2> QED BY <2>1
<1>5. IsFiniteSet(Sup) /\ Cardinality(Sup) = Cardinality(Sub)
  <2> DEFINE f == [T \in Sub |-> T \cup {x}]
  <2>1. x \notin S
    OBVIOUS
  <2> HIDE DEF S, x
  <2>2. \A T, U \in Sub : T \cup {x} = U \cup {x} => T = U
    BY <2>1
  <2>3. f \in [Sub -> Sup] /\ \A t \in Sup : \E T \in Sub : f[T] = t
    OBVIOUS
  <2>4. \A T, U \in Sub : f[T] = f[U] => T = U
    BY <2>2
  <2> HIDE DEF f, Sub, Sup
  <2>5. f \in Bijection(Sub, Sup)
    BY <2>3, <2>4 DEF Bijection, Injection, Surjection, IsInjective
  <2> QED BY <1>2, <2>5, FS_Bijection DEF ExistsBijection
<1>6. Cardinality(Sub \cap Sup) = 0
  BY <1>4, FS_EmptySet
<1> HIDE DEF Sub, Sup
<1>7. Cardinality(Sub \cup Sup) = 2 * Cardinality(Sub)
  <2>1. Cardinality(Sub \cup Sup)
          = Cardinality(Sub) + Cardinality(Sup) - Cardinality(Sub \cap Sup)
    BY <1>2, <1>5, FS_Union
  <2> QED BY <1>2, <1>5, <1>6, <2>1
<1>8. 2 ^ (k + 1) = 2 * 2 ^ k
  <2>1. k + 1 \in Nat
    OBVIOUS
  <2>2. 2 ^ (k + 1) = Cardinality(SUBSET (1..(k + 1)))
    BY <1>1, <2>1
  <2> QED BY <1>2, <1>3, <1>7, <2>2
<1>9. Cardinality(Sub) # 0
  BY <1>2, FS_EmptySet
<1>10. 2 ^ 0 = 1
  <2>1. SUBSET (1..0) = {{}}
    OBVIOUS
  <2> QED BY <1>1, <2>1, FS_Singleton
<1> QED BY <1>2, <1>8, <1>9, <1>10

(* They grow. *)
LEMMA PowerGrows ==
  ASSUME NEW j \in Nat, NEW k \in Nat, j <= k
  PROVE  2 ^ j <= 2 ^ k
<1>1. \A n \in Nat : /\ IsFiniteSet(SUBSET (1..n))
                     /\ Cardinality(SUBSET (1..n)) = 2 ^ n
  <2> TAKE n \in Nat
  <2>1. IsFiniteSet(1..n) /\ Cardinality(1..n) = n
    BY FS_Interval
  <2> QED BY <2>1, FS_SUBSET
<1>2. SUBSET (1..j) \subseteq SUBSET (1..k)
  OBVIOUS
<1>3. Cardinality(SUBSET (1..j)) <= Cardinality(SUBSET (1..k))
  BY <1>1, <1>2, FS_Subset
<1> QED BY <1>1, <1>3

(* What a unit of time makes of a set of ages. *)
LEMMA AgedByOne ==
  ASSUME NEW S, S \subseteq Nat, IsFiniteSet(S)
  PROVE  LET aged == {age + 1 : age \in S}
         IN  IsFiniteSet(aged) /\ Cardinality(aged) = Cardinality(S)
<1> DEFINE aged == {age + 1 : age \in S}
           f == [age \in S |-> age + 1]
<1>1. f \in Bijection(S, aged)
  BY DEF Bijection, Injection, Surjection, IsInjective
<1> QED BY <1>1, FS_Bijection DEF ExistsBijection
-----------------------------------------------------------------------------
(* The attempts of a window that began after the one of an age. *)
Younger(d, age) == {other \in d : other < age}

(* Counted from the youngest, the attempts of a window lie as far apart as *)
(* the delays between them make them: the sum of a schedule that doubles.  *)
DialsSpread ==
  \A a, y \in dials :
    Younger(dials, y) = {} =>
      Initial * (2 ^ Cardinality(Younger(dials, a)) - 1) <= a - y

(* A delay that has doubled with each attempt of the window, or is at its  *)
(* cap.                                                                    *)
Grown(delay) ==
  dials = {} \/ delay = Cap
    \/ Initial * 2 ^ (Cardinality(dials) - 1) <= delay

(* The schedule has grown with the attempts that are still in the window:  *)
(* an attempt that restarts it has left no other there.                    *)
ScheduleGrown ==
  IF stage = "sleep"
  THEN /\ \A a \in dials : planned <= a + left
       /\ planned \in Initial..Cap /\ next = Advance(planned)
       /\ Grown(planned)
  ELSE /\ \A a \in dials : attempt <= a
       /\ Grown(next)

(* The ages of a window are finitely many. *)
LEMMA DialsFinite ==
  ASSUME TypeOK
  PROVE  /\ IsFiniteSet(dials) /\ Cardinality(dials) \in Nat
         /\ dials # {} => Cardinality(dials) - 1 \in Nat
         /\ \A a : /\ IsFiniteSet(Younger(dials, a))
                  /\ Cardinality(Younger(dials, a)) \in Nat
         /\ \A a \in dials :
              Cardinality(Younger(dials, a)) <= Cardinality(dials) - 1
<1>1. IsFiniteSet(0..Threshold)
  BY PaceAssumption, FS_Interval
<1>2. IsFiniteSet(dials)
  BY <1>1, FS_Subset DEF TypeOK
<1>3. Cardinality(dials) \in Nat
  BY <1>2, FS_CardinalityType
<1>4. dials # {} => Cardinality(dials) # 0
  BY <1>2, FS_EmptySet
<1>5. \A a : /\ IsFiniteSet(Younger(dials, a))
            /\ Cardinality(Younger(dials, a)) \in Nat
  <2> TAKE a
  <2>1. Younger(dials, a) \subseteq dials
    BY DEF Younger
  <2>2. IsFiniteSet(Younger(dials, a))
    BY <1>2, <2>1, FS_Subset
  <2> QED BY <2>2, FS_CardinalityType
<1>6. ASSUME NEW a \in dials
      PROVE  Cardinality(Younger(dials, a)) <= Cardinality(dials) - 1
  <2>1. IsFiniteSet(dials \ {a}) /\ Cardinality(dials \ {a}) = Cardinality(dials) - 1
    BY <1>2, FS_RemoveElement
  <2>2. Younger(dials, a) \subseteq dials \ {a}
    BY DEF Younger, TypeOK
  <2> QED BY <2>1, <2>2, FS_Subset
<1> QED BY <1>2, <1>3, <1>4, <1>5, <1>6

(* Time leaves the attempts as far apart as they were, and drops some. *)
LEMMA TickKeepsSpread ==
  ASSUME TypeOK, DialsSpread, Tick
  PROVE  /\ DialsSpread'
         /\ dials' # {} => dials # {} /\ Cardinality(dials') - 1 \in Nat
         /\ Cardinality(dials') \in Nat
         /\ Cardinality(dials') <= Cardinality(dials)
         /\ \A a \in dials' : a - 1 \in dials
<1>1. dials' = {age + 1 : age \in dials} \ {Threshold + 1}
  BY DEF Tick
<1>2. dials \subseteq Nat /\ \A a \in dials : a <= Threshold
  BY DEF TypeOK
<1>3. \A a \in dials' : a \in Nat /\ a - 1 \in dials
  BY <1>1, <1>2
<1>4. /\ Cardinality(dials') \in Nat
      /\ Cardinality(dials') <= Cardinality(dials)
      /\ dials' # {} => Cardinality(dials') - 1 \in Nat
  <2>1. /\ IsFiniteSet({age + 1 : age \in dials})
        /\ Cardinality({age + 1 : age \in dials}) = Cardinality(dials)
    BY <1>2, DialsFinite, AgedByOne
  <2>2. dials' \subseteq {age + 1 : age \in dials}
    BY <1>1
  <2>3. Cardinality(dials') <= Cardinality({age + 1 : age \in dials})
    BY <2>1, <2>2, FS_Subset
  <2>4. IsFiniteSet(dials')
    BY <2>1, <2>2, FS_Subset
  <2>5. /\ Cardinality(dials') \in Nat
        /\ dials' # {} => Cardinality(dials') # 0
    BY <2>4, FS_CardinalityType, FS_EmptySet
  <2> QED BY <2>1, <2>3, <2>5
<1>5. ASSUME NEW a \in dials'
      PROVE  /\ Younger(dials', a) = {age + 1 : age \in Younger(dials, a - 1)}
             /\ Cardinality(Younger(dials', a))
                  = Cardinality(Younger(dials, a - 1))
  <2>1. a <= Threshold
    BY <1>1, <1>2, PaceAssumption
  <2>2. ASSUME NEW b \in Younger(dials', a)
        PROVE  b \in {age + 1 : age \in Younger(dials, a - 1)}
    <3>1. b \in dials' /\ b < a /\ b - 1 \in dials /\ a \in Nat /\ b \in Nat
      BY <1>3, <2>2 DEF Younger
    <3>2. b - 1 < a - 1 /\ b = (b - 1) + 1
      BY <3>1
    <3> QED BY <3>1, <3>2 DEF Younger
  <2>3. ASSUME NEW b \in Younger(dials, a - 1)
        PROVE  b + 1 \in Younger(dials', a)
    <3>1. b \in dials /\ b < a - 1 /\ b \in Nat /\ a \in Nat
      BY <1>2, <1>3, <2>3 DEF Younger
    <3>2. b + 1 < a /\ b + 1 # Threshold + 1
      BY <2>1, <3>1, PaceAssumption
    <3> QED BY <1>1, <3>1, <3>2 DEF Younger
  <2>4. Younger(dials', a) = {age + 1 : age \in Younger(dials, a - 1)}
    BY <2>2, <2>3
  <2>5. /\ Younger(dials, a - 1) \subseteq Nat
        /\ IsFiniteSet(Younger(dials, a - 1))
    BY <1>2, DialsFinite DEF Younger
  <2> QED BY <2>4, <2>5, AgedByOne
<1>6. DialsSpread'
  <2> SUFFICES ASSUME NEW a \in dials', NEW y \in dials',
                      Younger(dials', y) = {}
               PROVE  Initial * (2 ^ Cardinality(Younger(dials', a)) - 1) <= a - y
    BY DEF DialsSpread
  <2>1. Younger(dials, y - 1) = {}
    BY <1>5
  <2>2. Initial * (2 ^ Cardinality(Younger(dials, a - 1)) - 1)
          <= (a - 1) - (y - 1)
    BY <1>3, <2>1 DEF DialsSpread
  <2>3. a \in Nat /\ y \in Nat
    BY <1>3
  <2> QED BY <1>5, <2>2, <2>3
<1> QED BY <1>3, <1>4, <1>6

(* Time leaves the schedule grown enough. *)
LEMMA TickKeepsGrown ==
  ASSUME TypeOK, DialsSpread, ScheduleGrown, Tick
  PROVE  ScheduleGrown'
<1>1. /\ dials' # {} => dials # {} /\ Cardinality(dials') - 1 \in Nat
      /\ Cardinality(dials') \in Nat
      /\ Cardinality(dials') <= Cardinality(dials)
      /\ \A a \in dials' : a - 1 \in dials
  BY TickKeepsSpread
<1>3. ASSUME NEW delay \in Nat, Grown(delay), dials' # {}, delay # Cap
      PROVE  Initial * 2 ^ (Cardinality(dials') - 1) <= delay
  <2> DEFINE n == Cardinality(dials) - 1
             m == Cardinality(dials') - 1
  <2>1. m \in Nat /\ n \in Nat /\ m <= n
    BY <1>1, <1>3, DialsFinite
  <2>2. Initial * 2 ^ n <= delay
    BY <1>1, <1>3 DEF Grown
  <2> HIDE DEF m, n
  <2>3. 2 ^ m <= 2 ^ n /\ 2 ^ m \in Nat /\ 2 ^ n \in Nat
    BY <2>1, PowerGrows, PowerDoubles
  <2>4. Initial * 2 ^ m <= Initial * 2 ^ n
    BY <2>3, PaceAssumption
  <2>5. /\ Initial * 2 ^ m \in Nat /\ Initial * 2 ^ n \in Nat
    BY <2>3, PaceAssumption
  <2>6. Initial * 2 ^ m <= delay
    BY <1>3, <2>2, <2>4, <2>5
  <2> QED BY <2>6 DEF m
<1>4. /\ Grown(next) => Grown(next)'
      /\ Grown(planned) => Grown(planned)'
  <2>1. /\ next \in Nat /\ planned \in Nat
        /\ UNCHANGED <<next, planned>>
    BY PaceAssumption DEF TypeOK, Tick
  <2> QED BY <1>3, <2>1 DEF Grown
<1>5. CASE stage = "sleep"
  <2>1. \A a \in dials' : planned' <= a + left'
    BY <1>1, <1>5, PaceAssumption DEF Tick, ScheduleGrown, TypeOK, MayWait
  <2> QED BY <1>4, <1>5, <2>1 DEF Tick, ScheduleGrown
<1>6. CASE stage # "sleep"
  <2>1. \A a \in dials' : attempt' <= a
    BY <1>1, <1>6, PaceAssumption DEF Tick, ScheduleGrown, TypeOK, Least
  <2> QED BY <1>4, <1>6, <2>1 DEF Tick, ScheduleGrown
<1> QED BY <1>5, <1>6

(* A delay taken at the end of an attempt has grown with the window's      *)
(* attempts: there are none after a lasting one.                           *)
LEMMA EndKeepsGrown ==
  ASSUME TypeOK, ScheduleGrown, AttemptEnds
  PROVE  ScheduleGrown'
<1>1. planned' \in Initial..Cap /\ next' = Advance(planned')
  BY PaceAssumption DEF AttemptEnds, TypeOK
<1>2. left' \in Nat /\ planned' <= left'
  BY <1>1, JitterBound, PaceAssumption DEF AttemptEnds
<1>3. \A a \in dials' : planned' <= a + left'
  <2>1. \A a \in dials' : a \in Nat
    BY DEF AttemptEnds, TypeOK
  <2>2. planned' \in Nat
    BY <1>1, PaceAssumption
  <2> QED BY <1>2, <2>1, <2>2
<1>4. Grown(planned)'
  <2>1. CASE attempt > Threshold
    <3>1. \A a \in dials : a \in Nat /\ a <= Threshold /\ attempt <= a
      BY <2>1 DEF TypeOK, ScheduleGrown, AttemptEnds
    <3>2. dials = {}
      BY <2>1, <3>1, PaceAssumption DEF TypeOK
    <3> QED BY <3>2 DEF Grown, AttemptEnds
  <2>2. CASE ~(attempt > Threshold)
    BY <2>2 DEF Grown, AttemptEnds, Lasting, ScheduleGrown
  <2> QED BY <2>1, <2>2
<1>5. stage' = "sleep"
  BY DEF AttemptEnds
<1> QED BY <1>1, <1>3, <1>4, <1>5 DEF ScheduleGrown

Earlier == {pair \in Nat \X Nat : pair[1] < pair[2]}

(* Among ages there is a youngest. *)
LEMMA YoungestExists ==
  ASSUME NEW S, S \subseteq Nat, S # {}
  PROVE  \E v \in S : \A b \in S : v <= b
<1>1. IsWellFoundedOn(Earlier, Nat)
  BY NatLessThanWellFounded DEF Earlier, OpToRel
<1>2. PICK v \in S : \A b \in S : ~(<<b, v>> \in Earlier)
  BY <1>1, WFMin
<1>3. \A b \in S : ~(b < v)
  BY <1>2 DEF Earlier
<1>4. \A b \in S : b \in Nat /\ v \in Nat
  OBVIOUS
<1> QED BY <1>3, <1>4

(* In a window there is an oldest. *)
LEMMA OldestExists ==
  ASSUME NEW S, S \subseteq Nat, S # {}, NEW n \in Nat, \A b \in S : b <= n
  PROVE  \E o \in S : \A b \in S : b <= o
<1> DEFINE Behind == {n - b : b \in S}
<1>1. \A b \in S : b \in Nat /\ n - b \in Nat
  OBVIOUS
<1>2. Behind \subseteq Nat /\ Behind # {}
  BY <1>1
<1>3. PICK v \in Behind : \A w \in Behind : v <= w
  BY <1>2, YoungestExists
<1>4. PICK o \in S : v = n - o
  BY <1>3
<1>5. \A b \in S : n - o <= n - b
  BY <1>3, <1>4
<1> QED BY <1>1, <1>5

(* The next attempt begins a delay after the youngest, and the schedule    *)
(* has doubled once more.                                                  *)
LEMMA DialKeepsSpread ==
  ASSUME Base >= 2, Threshold <= Cap,
         TypeOK, DialsSpread, ScheduleGrown, NextAttempt
  PROVE  DialsSpread' /\ ScheduleGrown'
<1> DEFINE n == Cardinality(dials)
           power == 2 ^ (n - 1)
<1>1. /\ dials' = dials \cup {0} /\ stage = "sleep" /\ left = 0
      /\ stage' = "discovery" /\ attempt' = 0 /\ next' = next
  BY DEF NextAttempt
<1>2. /\ planned \in Nat /\ planned >= Initial /\ planned <= Cap
      /\ \A a \in dials : a \in Nat /\ a <= Threshold /\ planned <= a
      /\ next = Advance(planned) /\ Grown(planned)
  BY <1>1, PaceAssumption DEF ScheduleGrown, TypeOK
<1>3. 0 \notin dials
  BY <1>2, PaceAssumption
<1>4. /\ n \in Nat /\ IsFiniteSet(dials)
      /\ Cardinality(dials') = n + 1
      /\ dials # {} => n - 1 \in Nat
  BY <1>1, <1>3, DialsFinite, FS_AddElement
<1>5. 2 ^ 0 = 1
  BY PowerDoubles
<1>6. dials # {} => /\ power \in Nat /\ power >= 1
                   /\ 2 ^ n = 2 * power
  <2> HIDE DEF n
  <2>1. SUFFICES ASSUME n - 1 \in Nat
                 PROVE  /\ 2 ^ (n - 1) \in Nat /\ 2 ^ (n - 1) >= 1
                        /\ 2 ^ ((n - 1) + 1) = 2 * 2 ^ (n - 1)
    BY <1>4
  <2> QED BY <2>1, PowerDoubles
<1>7. ASSUME dials # {}
      PROVE  planned = Cap \/ Initial * power <= planned
  BY <1>2, <1>7 DEF Grown
<1> HIDE DEF n, power
<1>8. Grown(next)'
  <2>1. CASE dials = {}
    <3>1. n = 0
      BY <2>1, FS_EmptySet DEF n
    <3>2. Initial <= next
      BY <1>2, AdvanceTyped, PaceAssumption DEF TypeOK
    <3>3. Initial * 2 ^ (Cardinality(dials') - 1) = Initial
      BY <1>4, <1>5, <3>1, PaceAssumption
    <3> QED BY <1>1, <3>2, <3>3 DEF Grown
  <2>2. CASE dials # {}
    <3>1. 2 ^ (Cardinality(dials') - 1) = 2 * power
      BY <1>4, <1>6, <2>2
    <3>2. Initial * (2 * power) = 2 * (Initial * power)
      BY <1>6, <2>2, PaceAssumption
    <3>3. Base * planned >= 2 * planned /\ Base * planned \in Nat
      BY <1>2, PaceAssumption
    <3>4. Initial * power \in Nat
      BY <1>6, <2>2, PaceAssumption
    <3>5. next = Cap \/ Initial * (2 * power) <= next
      BY <1>2, <1>7, <2>2, <3>2, <3>3, <3>4, PaceAssumption
         DEF Advance, Least
    <3> QED BY <1>1, <3>1, <3>5 DEF Grown
  <2> QED BY <2>1, <2>2
<1>9. ScheduleGrown'
  BY <1>1, <1>2, <1>8 DEF ScheduleGrown
<1>10. DialsSpread'
  <2> SUFFICES ASSUME NEW a \in dials', NEW y \in dials',
                      Younger(dials', y) = {}
               PROVE  Initial * (2 ^ Cardinality(Younger(dials', a)) - 1)
                        <= a - y
    BY DEF DialsSpread
  <2>1. y = 0
    BY <1>1, <1>2, PaceAssumption DEF Younger
  <2>2. CASE a = 0
    <3>1. Younger(dials', a) = {}
      BY <1>1, <1>2, <2>2 DEF Younger
    <3>2. Cardinality(Younger(dials', a)) = 0
      BY <3>1, FS_EmptySet
    <3>3. 2 ^ Cardinality(Younger(dials', a)) = 1
      BY <1>5, <3>2
    <3> QED BY <2>1, <2>2, <3>3, PaceAssumption
  <2>3. CASE a # 0
    <3> DEFINE k == Cardinality(Younger(dials, a))
    <3>1. a \in dials /\ a \in Nat /\ dials # {}
      BY <1>1, <1>2, <2>3
    <3>2. /\ k \in Nat /\ k <= n - 1 /\ n - 1 \in Nat
          /\ IsFiniteSet(Younger(dials, a))
      BY <1>4, <3>1, DialsFinite DEF n
    <3>3. Younger(dials', a) = Younger(dials, a) \cup {0}
      BY <1>1, <1>2, <3>1, <2>3 DEF Younger
    <3>4. 0 \notin Younger(dials, a)
      BY <1>3 DEF Younger
    <3>5. Cardinality(Younger(dials', a)) = k + 1
      BY <3>2, <3>3, <3>4, FS_AddElement
    <3>6. PICK v \in dials : Younger(dials, v) = {}
      <4>1. dials \subseteq Nat
        BY <1>2
      <4>2. PICK v \in dials : \A b \in dials : v <= b
        BY <3>1, <4>1, YoungestExists
      <4>3. \A b \in dials : b \in Nat /\ ~(b < v)
        BY <4>1, <4>2
      <4>4. Younger(dials, v) = {}
        BY <4>3 DEF Younger
      <4> QED BY <4>4
    <3>7. Initial * (2 ^ k - 1) <= a - v /\ v \in Nat /\ planned <= v
      BY <1>2, <3>1, <3>6 DEF DialsSpread
    <3> HIDE DEF k
    <3>8. /\ 2 ^ k \in Nat /\ 2 ^ k >= 1 /\ 2 ^ (k + 1) = 2 * 2 ^ k
          /\ 2 ^ k <= power
      BY <3>2, PowerDoubles, PowerGrows DEF power
    <3>9. /\ Initial * (2 ^ (k + 1) - 1)
               = Initial * (2 ^ k - 1) + Initial * 2 ^ k
          /\ Initial * 2 ^ k <= Initial * power
          /\ Initial * (2 ^ k - 1) \in Nat /\ Initial * 2 ^ k \in Nat
          /\ Initial * power \in Nat
      BY <1>6, <3>1, <3>8, PaceAssumption
    <3>10. CASE Initial * power <= planned
      BY <1>2, <2>1, <3>1, <3>5, <3>7, <3>9, <3>10
    <3>11. CASE planned = Cap
      <4>1. v = Threshold /\ a = Threshold /\ Cap = Threshold
        <5>1. v <= Threshold /\ a <= Threshold /\ planned <= a /\ planned <= v
          BY <1>2, <3>1, <3>6
        <5> QED BY <3>1, <3>7, <3>11, <5>1, PaceAssumption
      <4>2. k = 0
        BY <3>6, <4>1, FS_EmptySet DEF k
      <4>3. Initial * (2 ^ (k + 1) - 1) = Initial
        BY <1>5, <3>8, <4>2, PaceAssumption
      <4> QED BY <2>1, <3>5, <4>1, <4>3, PaceAssumption
    <3> QED BY <1>7, <3>1, <3>10, <3>11
  <2> QED BY <2>2, <2>3
<1> QED BY <1>9, <1>10

(* No window as long as the threshold sees more attempts than the schedule *)
(* allows from its start (client.py:200-211, 486-499), if a delay at least *)
(* doubles, and the cap, once reached, fills a window: the code's base is  *)
(* 2, its cap 60 s and its threshold 60 s.                                 *)
THEOREM AttemptsSpaced ==
  ASSUME Base >= 2, Threshold <= Cap
  PROVE  Spec => []AttemptsAreSpaced
<1> DEFINE Spread == DialsSpread /\ ScheduleGrown
<1>1. Init => Spread
  <2> SUFFICES ASSUME Init PROVE Spread
    OBVIOUS
  <2>1. \A a \in dials : Younger(dials, a) = {} /\ a = 0
    BY DEF Init, Younger
  <2>2. Cardinality({}) = 0 /\ 2 ^ 0 = 1
    BY PowerDoubles, FS_EmptySet
  <2>3. Cardinality(dials) - 1 = 0 /\ next = Initial
    <3>1. dials = {0} /\ next = Initial
      BY DEF Init
    <3>2. Cardinality(dials) = 1
      BY <3>1, FS_Singleton
    <3> QED BY <3>1, <3>2
  <2>4. Initial * 2 ^ (Cardinality(dials) - 1) = Initial
    BY <2>2, <2>3, PaceAssumption
  <2>5. Grown(next)
    BY <2>3, <2>4, PaceAssumption DEF Grown
  <2>6. DialsSpread
    <3> SUFFICES ASSUME NEW a \in dials, NEW y \in dials
                 PROVE  Initial * (2 ^ Cardinality(Younger(dials, a)) - 1)
                          <= a - y
      BY DEF DialsSpread
    <3>1. 2 ^ Cardinality(Younger(dials, a)) = 1
      BY <2>1, <2>2
    <3> QED BY <2>1, <3>1, PaceAssumption
  <2>7. ScheduleGrown
    BY <2>5 DEF Init, ScheduleGrown
  <2> QED BY <2>6, <2>7
<1>2. TypeOK /\ Spread /\ [Next]_vars => Spread'
  <2> SUFFICES ASSUME TypeOK, DialsSpread, ScheduleGrown, [Next]_vars
               PROVE  DialsSpread' /\ ScheduleGrown'
    OBVIOUS
  <2>1. CASE Tick
    BY <2>1, TickKeepsSpread, TickKeepsGrown
  <2>2. CASE StepDone
    <3>1. stage # "sleep" /\ stage' # "sleep"
      BY <2>2 DEF StepDone, Steps
    <3>2. UNCHANGED <<attempt, next, dials>>
      BY <2>2 DEF StepDone
    <3> QED BY <3>1, <3>2 DEF DialsSpread, ScheduleGrown, Grown
  <2>3. CASE AttemptEnds
    <3>1. UNCHANGED dials
      BY <2>3 DEF AttemptEnds
    <3> QED BY <2>3, <3>1, EndKeepsGrown DEF DialsSpread
  <2>4. CASE NextAttempt
    BY <2>4, DialKeepsSpread
  <2>5. CASE UNCHANGED vars
    BY <2>5 DEF vars, DialsSpread, ScheduleGrown, Grown
  <2> QED BY <2>1, <2>2, <2>3, <2>4, <2>5 DEF Next
<1>3. TypeOK /\ Spread => AttemptsAreSpaced
  <2> SUFFICES ASSUME TypeOK, DialsSpread, dials # {}
               PROVE  Initial * (2 ^ (Cardinality(dials) - 1) - 1) <= Threshold
    BY DEF AttemptsAreSpaced
  <2>1. \A a \in dials : a \in Nat /\ a <= Threshold
    BY DEF TypeOK
  <2>2. PICK y \in dials : \A b \in dials : y <= b
    BY <2>1, YoungestExists
  <2>3. PICK o \in dials : \A b \in dials : b <= o
    BY <2>1, OldestExists, PaceAssumption
  <2>4. Younger(dials, y) = {}
    BY <2>1, <2>2 DEF Younger
  <2>5. Younger(dials, o) = dials \ {o}
    BY <2>1, <2>3 DEF Younger
  <2>6. Cardinality(Younger(dials, o)) = Cardinality(dials) - 1
    BY <2>5, DialsFinite, FS_RemoveElement
  <2>7. Initial * (2 ^ (Cardinality(dials) - 1) - 1) <= o - y
    BY <2>4, <2>6 DEF DialsSpread
  <2>8. /\ 2 ^ (Cardinality(dials) - 1) \in Nat
        /\ o \in Nat /\ y \in Nat /\ o <= Threshold
    BY <2>1, DialsFinite, PowerDoubles
  <2> QED BY <2>7, <2>8, PaceAssumption
<1> QED BY <1>1, <1>2, <1>3, TypeCorrect, PTL DEF Spec
=============================================================================
