------------------------ MODULE CostRollover_proofs ------------------------
(***************************************************************************)
(* Proofs about CostRollover, for every length of day, tariff window, set  *)
(* of tariff years, poll and refresh interval and latency within the       *)
(* module's assumptions: the type invariant, and the safety of the price   *)
(* sensor, of today's buckets and of the month's total.                    *)
(***************************************************************************)
EXTENDS CostRollover, SequenceTheorems, WellFoundedInduction, TLAPS

(* The timer is set for the next boundary of the day it was set on.        *)
TimerIsNext ==
  timer > 0 => /\ price = Price(day, now, year)
               /\ timer = NextBoundary(day, now) - now

(* A range frame is of today unless it was asked for before midnight, and  *)
(* so is a bucket, unless it is too old to say.                            *)
AnswersOfToday ==
  \A i \in DOMAIN answers : answers[i].of = 0 \/ answers[i].age > now

BucketsOfToday ==
  \A s \in Series : \/ bucket[s].of = 0 \/ bucket[s].age > now
                    \/ bucket[s].age = SettleTime + 1

(* The answers on their way for a series. *)
Pending(s) == {i \in DOMAIN answers : answers[i].series = s}

(* Polls are Poll apart, so that each answer of a series is followed by a  *)
(* next one no more than Poll younger, or is of the latest poll.           *)
AnswersSpaced(s) ==
  \A i \in Pending(s) :
    \/ \E j \in Pending(s) : j > i /\ answers[i].age <= answers[j].age + Poll
    \/ answers[i].age <= Poll - pollIn

(* The bucket is of the latest poll, or an answer is on its way that is    *)
(* either of the poll after the bucket's or as old as the connection.      *)
BucketFollowed(s) ==
  IF Pending(s) = {} THEN bucket[s].age <= Poll - pollIn
  ELSE \E i \in Pending(s) : \/ bucket[s].age <= answers[i].age + Poll
                             \/ answers[i].age >= served

PollsFollowed ==
  up => \A s \in Series : AnswersSpaced(s) /\ BucketFollowed(s)

(* What Home Assistant shows was computed from the prefix and the buckets  *)
(* of now, at today's rates once a prefix has come today.                  *)
WrittenFollows ==
  /\ written.shown = up
  /\ written.prefix.month = "this" => written.reset = "this"
  /\ up => /\ written.prefix = prefix
           /\ \A s \in Series : written.of[s] = bucket[s].of
           /\ prefix.through = 0 => written.rates = RatesYear(year)

(* Recorder queries return in the order they were asked; one that was      *)
(* asked today is of today, and complete from CompileTime on.              *)
QueriesInOrder ==
  /\ \A i, j \in DOMAIN queries : i < j => queries[i].age >= queries[j].age
  /\ \A i \in DOMAIN queries :
       queries[i].age <= now =>
         /\ ~day.first
         /\ queries[i].through = 0 /\ queries[i].month = "this"
         /\ queries[i].partial => now - queries[i].age < CompileTime

ExactPrefix == [month |-> "this", through |-> 0, partial |-> FALSE]

(* The time of the last refresh, counted from the last midnight. *)
LastRefresh == now - (Refresh - refreshIn)

(* Once a refresh has come late enough in the day, the prefix is the exact *)
(* one and stays it, or a query that will make it so is on its way.        *)
PrefixSettles ==
  /\ day.first /\ LastRefresh >= QueryTime => prefix = ExactPrefix
  /\ ~day.first /\ ~failed /\ LastRefresh >= CompileTime =>
       \/ /\ prefix = ExactPrefix
          /\ \A i \in DOMAIN queries : queries[i].age <= now - CompileTime
       \/ \E i \in DOMAIN queries :
            /\ queries[i].age <= now - CompileTime
            /\ queries[i].age > now - CompileTime - Refresh

(* The inductive invariant. *)
CostInv ==
  /\ CostTypeOK /\ TimerIsNext
  /\ AnswersOfToday /\ BucketsOfToday /\ PollsFollowed
  /\ WrittenFollows /\ QueriesInOrder /\ PrefixSettles
-----------------------------------------------------------------------------
(* Least and greatest elements.                                            *)

Less == {pair \in Nat \X Nat : pair[1] < pair[2]}

(* A set of naturals has a least element. *)
LEMMA LeastNat ==
  ASSUME NEW T, T \subseteq Nat, T # {}
  PROVE  \E x \in T : \A y \in T : x <= y
<1>1. IsWellFoundedOn(Less, Nat)
  BY NatLessThanWellFounded DEF Less, OpToRel
<1>2. PICK x \in T : \A y \in T : ~(<<y, x>> \in Less)
  BY <1>1, WFMin
<1>3. ASSUME NEW y \in T PROVE x <= y
  <2>1. x \in Nat /\ y \in Nat
    OBVIOUS
  <2>2. ~(y < x)
    BY <1>2, <2>1 DEF Less
  <2> QED BY <2>1, <2>2
<1> QED BY <1>3

(* A bounded one also has a greatest. *)
LEMMA GreatestNat ==
  ASSUME NEW T, T \subseteq Nat, T # {},
         NEW n \in Nat, \A y \in T : y <= n
  PROVE  \E x \in T : \A y \in T : x >= y
<1> DEFINE U == {n - y : y \in T}
<1>1. U \subseteq Nat
  <2> SUFFICES ASSUME NEW y \in T PROVE n - y \in Nat
    OBVIOUS
  <2> QED OBVIOUS
<1>2. U # {}
  OBVIOUS
<1>3. PICK z \in U : \A w \in U : z <= w
  <2> HIDE DEF U
  <2> QED BY <1>1, <1>2, LeastNat
<1>4. PICK x \in T : z = n - x
  OBVIOUS
<1>5. ASSUME NEW y \in T PROVE x >= y
  <2>1. n - x <= n - y
    BY <1>3, <1>4
  <2> QED BY <2>1
<1> QED BY <1>5

(* Min is the lower bound that is a member. *)
LEMMA MinIs ==
  ASSUME NEW T, T \subseteq Int, NEW m \in T, \A y \in T : m <= y
  PROVE  Min(T) = m
<1>1. Min(T) \in T /\ \A y \in T : Min(T) <= y
  BY DEF Min
<1>2. Min(T) <= m /\ m <= Min(T)
  BY <1>1
<1>3. Min(T) \in Int /\ m \in Int
  BY <1>1
<1> HIDE DEF Min
<1> QED BY <1>2, <1>3

(* The tables of a year always exist, whether or not it has its own. *)
LEMMA RatesTyped ==
  ASSUME NEW y \in Nat
  PROVE  RatesYear(y) \in TariffYears
<1> DEFINE earlier == {k \in TariffYears : k < y}
<1>1. CASE y \in TariffYears
  BY <1>1 DEF RatesYear
<1>2. CASE y \notin TariffYears /\ earlier # {}
  <2>1. \E x \in earlier : \A k \in earlier : x >= k
    <3>1. earlier \subseteq Nat /\ \A k \in earlier : k <= y
      <4> SUFFICES ASSUME NEW k \in earlier PROVE k \in Nat /\ k <= y
        OBVIOUS
      <4>1. k \in Nat /\ k < y
        BY CalendarAssumption
      <4> QED BY <4>1
    <3> HIDE DEF earlier
    <3> QED BY <1>2, <3>1, GreatestNat
  <2>2. Max(earlier) \in earlier
    BY <2>1 DEF Max
  <2> QED BY <1>2, <2>2 DEF RatesYear
<1>3. CASE y \notin TariffYears /\ earlier = {}
  <2>1. \E x \in TariffYears : \A k \in TariffYears : x <= k
    BY CalendarAssumption, LeastNat
  <2>2. Min(TariffYears) \in TariffYears
    BY <2>1 DEF Min
  <2> QED BY <1>3, <2>2 DEF RatesYear
<1> QED BY <1>1, <1>2, <1>3
-----------------------------------------------------------------------------
(* The calendar.                                                           *)

(* The length of a day, and that the shift is well before its end.         *)
LEMMA DayFacts ==
  ASSUME NEW d \in Day
  PROVE  /\ d.length \in Nat /\ d.sunday \in BOOLEAN /\ d.first \in BOOLEAN
         /\ d.length \in {DayUnits - 1, DayUnits, DayUnits + 1}
         /\ ShiftAt + 1 < d.length /\ d.length - 1 \in Nat
BY CalendarAssumption DEF Day

(* The wall clock is monotonic after the shift, at a fixed distance. *)
LEMMA LocalTimeIs ==
  ASSUME NEW d \in Day, NEW t \in 0 .. d.length - 1, NEW local \in Nat,
         ShiftAt < local
  PROVE  LocalTime(d, t) >= local <=> t >= local + d.length - DayUnits
<1>1. /\ ShiftAt \in Nat /\ DayUnits \in Nat /\ d.length \in Nat
      /\ t \in Nat
  BY DayFacts, CalendarAssumption
<1>2. CASE d.length = DayUnits - 1
  BY <1>1, <1>2 DEF LocalTime
<1>3. CASE d.length = DayUnits
  BY <1>1, <1>3 DEF LocalTime
<1>4. CASE d.length = DayUnits + 1
  BY <1>1, <1>4 DEF LocalTime
<1> QED BY <1>2, <1>3, <1>4, DayFacts

(* The window's edges, by the day's own clock. *)
LEMMA InstantIs ==
  ASSUME NEW d \in Day, NEW local \in Nat, ShiftAt < local, local < DayUnits
  PROVE  /\ InstantOf(d, local) = local + d.length - DayUnits
         /\ InstantOf(d, local) \in 0 .. d.length - 1
<1> DEFINE T == {t \in 0 .. d.length - 1 : LocalTime(d, t) >= local}
           m == local + d.length - DayUnits
<1>1. m \in 0 .. d.length - 1
  BY DayFacts, CalendarAssumption
<1>2. m \in T
  BY <1>1, LocalTimeIs
<1>3. \A t \in T : m <= t
  BY LocalTimeIs, DayFacts, CalendarAssumption
<1>4. T \subseteq Int
  OBVIOUS
<1> HIDE DEF T, m
<1>5. Min(T) = m
  BY <1>2, <1>3, <1>4, MinIs
<1> QED BY <1>1, <1>5 DEF InstantOf, T, m

(* The instants a boundary can be at, in their order. *)
LEMMA EdgesOf ==
  ASSUME NEW d \in Day
  PROVE  /\ InstantOf(d, HtStart) \in Nat /\ InstantOf(d, HtEnd) \in Nat
         /\ InstantOf(d, HtStart) < InstantOf(d, HtEnd)
         /\ InstantOf(d, HtEnd) < d.length
         /\ \A t \in 0 .. d.length - 1 :
              HighTariff(d, t) <=>
                /\ ~d.sunday
                /\ InstantOf(d, HtStart) <= t /\ t < InstantOf(d, HtEnd)
<1>1. /\ HtStart \in Nat /\ ShiftAt < HtStart /\ HtStart < DayUnits
      /\ HtEnd \in Nat /\ ShiftAt < HtEnd /\ HtEnd < DayUnits
      /\ DayUnits \in Nat /\ ShiftAt \in Nat /\ HtStart < HtEnd
  BY CalendarAssumption
<1>2. /\ InstantOf(d, HtStart) = HtStart + d.length - DayUnits
      /\ InstantOf(d, HtStart) \in 0 .. d.length - 1
      /\ InstantOf(d, HtEnd) = HtEnd + d.length - DayUnits
      /\ InstantOf(d, HtEnd) \in 0 .. d.length - 1
  BY <1>1, InstantIs
<1>3. ASSUME NEW t \in 0 .. d.length - 1
      PROVE  HighTariff(d, t) <=>
               /\ ~d.sunday
               /\ InstantOf(d, HtStart) <= t /\ t < InstantOf(d, HtEnd)
  <2>1. /\ LocalTime(d, t) >= HtStart <=> t >= InstantOf(d, HtStart)
        /\ LocalTime(d, t) >= HtEnd <=> t >= InstantOf(d, HtEnd)
    BY <1>1, <1>2, LocalTimeIs
  <2>2. LocalTime(d, t) \in Int
    BY <1>1, DayFacts DEF LocalTime
  <2> QED BY <1>1, <1>2, <2>1, <2>2, DayFacts DEF HighTariff
<1> QED BY <1>1, <1>2, <1>3, DayFacts

(* The next boundary lies ahead, at the latest at midnight, and no edge of *)
(* the window lies between.                                                *)
LEMMA NextBoundaryIs ==
  ASSUME NEW d \in Day, NEW t \in 0 .. d.length - 1
  PROVE  LET n == NextBoundary(d, t)
             E == {InstantOf(d, HtStart), InstantOf(d, HtEnd), d.length}
         IN  n \in E /\ n > t /\ n <= d.length /\ n \in Nat
               /\ \A b \in E : b > t => n <= b
<1> DEFINE E == {InstantOf(d, HtStart), InstantOf(d, HtEnd), d.length}
           T == {b \in E : b > t}
<1>1. E \subseteq Nat /\ d.length \in T
  BY EdgesOf, DayFacts
<1>2. \E m \in T : \A b \in T : m <= b
  <2>1. T \subseteq Nat /\ T # {}
    BY <1>1
  <2> HIDE DEF T
  <2> QED BY <2>1, LeastNat
<1>3. Min(T) \in T /\ \A b \in T : Min(T) <= b
  BY <1>2 DEF Min
<1>4. NextBoundary(d, t) = Min(T)
  BY DEF NextBoundary
<1> HIDE DEF E
<1>5. /\ NextBoundary(d, t) \in E /\ NextBoundary(d, t) > t
      /\ NextBoundary(d, t) \in Nat
      /\ NextBoundary(d, t) <= d.length
      /\ \A b \in E : b > t => NextBoundary(d, t) <= b
  BY <1>1, <1>3, <1>4
<1> QED BY <1>5 DEF E

(* Nothing of the price changes before the next boundary. *)
LEMMA NothingBetween ==
  ASSUME NEW d \in Day, NEW t \in 0 .. d.length - 1, t + 1 < NextBoundary(d, t)
  PROVE  /\ t + 1 \in 0 .. d.length - 1
         /\ NextBoundary(d, t + 1) = NextBoundary(d, t)
         /\ HighTariff(d, t + 1) = HighTariff(d, t)
<1> DEFINE E == {InstantOf(d, HtStart), InstantOf(d, HtEnd), d.length}
<1>1. t + 1 \in 0 .. d.length - 1
  BY NextBoundaryIs, DayFacts
<1>2. \A b \in E : b > t <=> b > t + 1
  BY NextBoundaryIs, EdgesOf, DayFacts
<1>3. NextBoundary(d, t + 1) = NextBoundary(d, t)
  <2>1. {b \in E : b > t + 1} = {b \in E : b > t}
    BY <1>2
  <2> QED BY <2>1 DEF NextBoundary
<1>4. HighTariff(d, t + 1) <=> HighTariff(d, t)
  <2>1. /\ InstantOf(d, HtStart) > t <=> InstantOf(d, HtStart) > t + 1
        /\ InstantOf(d, HtEnd) > t <=> InstantOf(d, HtEnd) > t + 1
    BY <1>2
  <2> QED BY <1>1, <2>1, EdgesOf, DayFacts
<1>5. HighTariff(d, t + 1) \in BOOLEAN /\ HighTariff(d, t) \in BOOLEAN
  BY DEF HighTariff
<1> QED BY <1>1, <1>3, <1>4, <1>5
-----------------------------------------------------------------------------
(* Sequences: the front leaves, the rest moves up.                         *)
LEMMA HeadTail ==
  ASSUME NEW S, NEW q \in Seq(S), q # << >>
  PROVE  /\ 1 \in DOMAIN q /\ Head(q) = q[1] /\ q[1] \in S
         /\ Tail(q) \in Seq(S)
         /\ \A i \in DOMAIN Tail(q) : i + 1 \in DOMAIN q /\ Tail(q)[i] = q[i + 1]
         /\ \A i \in DOMAIN q : i # 1 => i - 1 \in DOMAIN Tail(q)
         /\ \A i \in DOMAIN q : i \in Nat /\ i >= 1
OBVIOUS

(* What is appended comes last. *)
LEMMA AppendIs ==
  ASSUME NEW S, NEW q \in Seq(S), NEW e \in S
  PROVE  /\ Append(q, e) \in Seq(S)
         /\ DOMAIN Append(q, e) = DOMAIN q \union {Len(q) + 1}
         /\ \A i \in DOMAIN q : Append(q, e)[i] = q[i] /\ i < Len(q) + 1
         /\ Append(q, e)[Len(q) + 1] = e
OBVIOUS

(* A sequence whose elements are replaced one by one is one of the same    *)
(* length.                                                                 *)
LEMMA MapIs ==
  ASSUME NEW S, NEW R, NEW q \in Seq(S), NEW r, DOMAIN r = DOMAIN q,
         r = [i \in DOMAIN r |-> r[i]],
         \A i \in DOMAIN q : r[i] \in R
  PROVE  r \in Seq(R)
OBVIOUS

(* The two answers a poll is owed. *)
LEMMA AskedIs ==
  /\ Asked \in Seq(Answer) /\ DOMAIN Asked = {1, 2}
  /\ Asked[1] = [series |-> "HT", of |-> 0, age |-> 0]
  /\ Asked[2] = [series |-> "NT", of |-> 0, age |-> 0]
<1>1. 0 \in 0..Latency
  BY CostAssumption
<1> QED BY <1>1 DEF Asked, Answer, Series, DaysBack

(* A poll's answers follow those already on their way. *)
LEMMA PolledIs ==
  ASSUME NEW q \in Seq(Answer)
  PROVE  /\ q \o Asked \in Seq(Answer)
         /\ DOMAIN (q \o Asked) = DOMAIN q \union {Len(q) + 1, Len(q) + 2}
         /\ \A i \in DOMAIN q : (q \o Asked)[i] = q[i] /\ i < Len(q) + 1
         /\ (q \o Asked)[Len(q) + 1] = [series |-> "HT", of |-> 0, age |-> 0]
         /\ (q \o Asked)[Len(q) + 2] = [series |-> "NT", of |-> 0, age |-> 0]
<1>1. /\ Asked \in Seq(Answer) /\ Len(Asked) = 2
      /\ Asked[1] = [series |-> "HT", of |-> 0, age |-> 0]
      /\ Asked[2] = [series |-> "NT", of |-> 0, age |-> 0]
  BY AskedIs DEF Asked
<1>2. Len(q) \in Nat /\ DOMAIN q = 1..Len(q)
  OBVIOUS
<1> HIDE DEF Asked
<1>3. /\ q \o Asked \in Seq(Answer) /\ Len(q \o Asked) = Len(q) + 2
      /\ \A i \in 1 .. Len(q) + 2 :
           (q \o Asked)[i] = IF i <= Len(q) THEN q[i] ELSE Asked[i - Len(q)]
  BY <1>1, ConcatProperties
<1>4. DOMAIN (q \o Asked) = DOMAIN q \union {Len(q) + 1, Len(q) + 2}
  <2>1. 1..(Len(q) + 2) = 1..Len(q) \union {Len(q) + 1, Len(q) + 2}
    BY <1>2
  <2>2. DOMAIN (q \o Asked) = 1..(Len(q) + 2)
    BY <1>3
  <2> QED BY <1>2, <2>1, <2>2
<1>5. \A i \in DOMAIN q : (q \o Asked)[i] = q[i]
  BY <1>2, <1>3
<1>6. /\ (q \o Asked)[Len(q) + 1] = Asked[1]
      /\ (q \o Asked)[Len(q) + 2] = Asked[2]
  <2>1. /\ Len(q) + 1 \in 1 .. Len(q) + 2 /\ ~(Len(q) + 1 <= Len(q))
        /\ Len(q) + 2 \in 1 .. Len(q) + 2 /\ ~(Len(q) + 2 <= Len(q))
        /\ (Len(q) + 1) - Len(q) = 1 /\ (Len(q) + 2) - Len(q) = 2
    BY <1>2
  <2> QED BY <1>3, <2>1
<1>7. \A i \in DOMAIN q : i < Len(q) + 1
  BY <1>2
<1> QED BY <1>1, <1>3, <1>4, <1>5, <1>6, <1>7
-----------------------------------------------------------------------------
(* Types.                                                                  *)

(* The intervals and delays the invariants count in. *)
LEMMA Durations ==
  /\ Poll \in Nat /\ Poll > 0 /\ Latency \in Nat
  /\ Refresh \in Nat /\ Refresh > 0 /\ QueryTime \in Nat /\ CompileTime \in Nat
  /\ SettleTime = Poll + Latency /\ SettleTime \in Nat
BY CostAssumption DEF SettleTime

(* Whatever the sensor writes is a report. *)
LEMMA WriteTyped ==
  ASSUME CostTypeOK, NEW p \in Prefix \union {NoPrefix},
         NEW b \in [Series -> Bucket], NEW u \in BOOLEAN, Write(p, b, u)
  PROVE  written' \in Report
<1>1. View(p, b, u) \in Report
  <2>1. NotServed \in Report
    BY DEF NotServed, Report, Prefix, NoPrefix, DaysBack
  <2>2. RatesYear(year) \in TariffYears
    BY RatesTyped DEF CostTypeOK
  <2>3. [s \in Series |-> b[s].of] \in [Series -> DaysBack]
    BY DEF Bucket
  <2> QED BY <2>1, <2>2, <2>3 DEF View, Report
<1> QED BY <1>1 DEF Write, CostTypeOK

(* A day further back is still one that is told apart.                     *)
LEMMA OlderTyped ==
  ASSUME NEW n \in DaysBack
  PROVE  Older(n) \in DaysBack /\ Older(n) # 0
BY DEF DaysBack, Older, Least

(* The tags of a prefix stay in their sets when a day begins. *)
LEMMA PrefixAfterTyped ==
  ASSUME NEW p \in Prefix \union {NoPrefix}, NEW m \in BOOLEAN
  PROVE  /\ PrefixAfter(p, m) \in Prefix \union {NoPrefix}
         /\ PrefixAfter(p, m).through # 0
         /\ PrefixAfter(p, m).month = "this" => p.month = "this" /\ ~m
<1>1. CASE p \in Prefix
  BY <1>1, OlderTyped DEF PrefixAfter, Prefix, MonthAfter
<1>2. CASE p = NoPrefix
  <2>1. PrefixAfter(NoPrefix, m) = NoPrefix
    <3>1. Older(2) = 2 /\ MonthAfter("none", m) = "none"
      BY DEF Older, Least, MonthAfter
    <3> DEFINE only == [month : {"none"}, through : {2}, partial : {FALSE}]
    <3>2. NoPrefix \in only
      BY DEF NoPrefix
    <3>3. ASSUME NEW q \in only PROVE q = NoPrefix
      <4>1. q.month = "none" /\ q.through = 2 /\ q.partial = FALSE
        OBVIOUS
      <4>2. q = [month |-> q.month, through |-> q.through, partial |-> q.partial]
        OBVIOUS
      <4> QED BY <4>1, <4>2 DEF NoPrefix
    <3>4. PrefixAfter(NoPrefix, m) \in only
      BY <3>1, <3>2 DEF PrefixAfter
    <3> QED BY <3>3, <3>4
  <2>2. NoPrefix.through # 0 /\ NoPrefix.month # "this"
    BY DEF NoPrefix
  <2> QED BY <1>2, <2>1, <2>2
<1> QED BY <1>1, <1>2

(* The price of any moment of any day has its type. *)
LEMMA PriceTyped ==
  ASSUME NEW d \in Day, NEW t, NEW y \in Nat
  PROVE  Price(d, t, y) \in [rates : TariffYears, stale : BOOLEAN, high : BOOLEAN]
BY RatesTyped DEF Price, RatesStale, HighTariff

(* The timers and the age of the connection, as time passes. *)
LEMMA ElapseTyped ==
  ASSUME CostTypeOK, MayPass, Elapse
  PROVE  /\ timer' \in Nat /\ refreshIn' \in 0..Refresh
         /\ pollIn' \in 0..Poll /\ served' \in 0..SettleTime
         /\ price' = price /\ up' = up
BY Durations DEF CostTypeOK, MayPass, Elapse, Least

(* The ages of what is on its way, as time passes. *)
LEMMA AgesTyped ==
  ASSUME CostTypeOK, MayPass
  PROVE  /\ \A i \in DOMAIN answers : answers[i].age + 1 \in 0..Latency
         /\ \A i \in DOMAIN queries : queries[i].age + 1 \in 0..QueryTime
         /\ \A s \in Series : Least(bucket[s].age + 1, SettleTime + 1)
                               \in 0 .. SettleTime + 1
<1>1. \A i \in DOMAIN answers : answers[i].age \in 0..Latency
  <2>1. \A i \in DOMAIN answers : answers[i] \in Answer
    BY DEF CostTypeOK
  <2> QED BY <2>1 DEF Answer
<1>2. \A i \in DOMAIN queries : queries[i].age \in 0..QueryTime
  <2>1. \A i \in DOMAIN queries : queries[i] \in Query
    BY DEF CostTypeOK
  <2> QED BY <2>1 DEF Query
<1>3. \A s \in Series : bucket[s].age \in 0 .. SettleTime + 1
  BY DEF CostTypeOK, Bucket
<1> QED BY <1>1, <1>2, <1>3, Durations DEF MayPass, Least

(* Every step keeps the types.                                             *)
LEMMA CostTypeStep == CostTypeOK /\ [Next]_vars => CostTypeOK'
<1> SUFFICES ASSUME CostTypeOK, [Next]_vars PROVE CostTypeOK'
  OBVIOUS
<1> USE DEF clock, tariff, link, history
<1>1. CASE Connect
  <2>1. written' \in Report
    BY <1>1, WriteTyped DEF Connect, CostTypeOK
  <2> QED BY <1>1, <2>1, AskedIs, Durations DEF Connect, CostTypeOK
<1>2. CASE Disconnect
  <2>1. written' \in Report
    BY <1>2, WriteTyped DEF Disconnect, CostTypeOK
  <2>2. answers' \in Seq(Answer)
    BY <1>2 DEF Disconnect
  <2>3. up' \in BOOLEAN /\ served' \in 0..SettleTime /\ pollIn' \in 0..Poll
    <3>1. up' = FALSE /\ served' = 0 /\ pollIn' = Poll
      BY <1>2 DEF Disconnect
    <3>2. 0 \in 0..SettleTime /\ Poll \in 0..Poll
      BY Durations
    <3> QED BY <3>1, <3>2
  <2> QED BY <1>2, <2>1, <2>2, <2>3 DEF Disconnect, CostTypeOK
<1>3. CASE PollRanges
  BY <1>3, PolledIs, Durations DEF PollRanges, CostTypeOK
<1>4. CASE AnswerArrives
  <2>1. /\ answers \in Seq(Answer) /\ Head(answers) \in Answer
        /\ Tail(answers) \in Seq(Answer)
    BY <1>4, HeadTail DEF AnswerArrives, CostTypeOK
  <2>2. bucket' \in [Series -> Bucket]
    <3>1. [of |-> Head(answers).of, age |-> Head(answers).age, known |-> TRUE]
            \in Bucket
      BY <2>1, Durations DEF Answer, Bucket
    <3> QED BY <1>4, <2>1, <3>1 DEF AnswerArrives, CostTypeOK
  <2>3. written' \in Report
    <3>1. Write(prefix, bucket', up)
      BY <1>4 DEF AnswerArrives
    <3> QED BY <2>2, <3>1, WriteTyped DEF CostTypeOK
  <2> QED BY <1>4, <2>1, <2>2, <2>3 DEF AnswerArrives, CostTypeOK
<1>5. CASE RefreshPrefix
  <2>1. CASE day.first
    <3>1. Adopt(ExactPrefix) /\ ExactPrefix \in Prefix
      BY <1>5, <2>1 DEF RefreshPrefix, ExactPrefix, Prefix, DaysBack
    <3>2. written' \in Report /\ prefix' \in Prefix
      BY <3>1, WriteTyped DEF Adopt, CostTypeOK
    <3> QED
      BY <1>5, <2>1, <3>2, Durations DEF RefreshPrefix, CostTypeOK
  <2>2. CASE ~day.first
    <3>1. [through |-> 0, month |-> "this", partial |-> now < CompileTime,
           age |-> 0] \in Query
      BY Durations DEF Query, DaysBack
    <3>2. queries' \in Seq(Query)
      BY <1>5, <2>2, <3>1, AppendIs DEF RefreshPrefix, CostTypeOK
    <3> QED BY <1>5, <2>2, <3>2, Durations DEF RefreshPrefix, CostTypeOK
  <2> QED BY <2>1, <2>2
<1>6. CASE QueryReturns \/ QueryFails
  <2>1. /\ queries \in Seq(Query) /\ Head(queries) \in Query
        /\ Tail(queries) \in Seq(Query)
    BY <1>6, HeadTail DEF QueryReturns, QueryFails, CostTypeOK
  <2>2. CASE QueryReturns
    <3>1. PICK partial \in {FALSE, Head(queries).partial} :
            Adopt([month |-> Head(queries).month,
                   through |-> Head(queries).through, partial |-> partial])
      BY <2>2 DEF QueryReturns
    <3>2. prefix' \in Prefix
      BY <2>1, <3>1 DEF Adopt, Prefix, Query
    <3>3. written' \in Report
      BY <3>1, <3>2, WriteTyped DEF Adopt, CostTypeOK
    <3> QED BY <2>1, <2>2, <3>2, <3>3 DEF QueryReturns, CostTypeOK
  <2>3. CASE QueryFails
    BY <2>1, <2>3 DEF QueryFails, CostTypeOK
  <2> QED BY <1>6, <2>2, <2>3
<1>7. CASE TariffBoundary
  <2>1. NextBoundary(day, now) - now \in Nat
    BY NextBoundaryIs DEF CostTypeOK
  <2> QED BY <1>7, <2>1, PriceTyped DEF TariffBoundary, CostTypeOK
<1>8. CASE Tick
  <2>1. MayPass /\ Elapse
    BY <1>8 DEF Tick
  <2>2. answers' \in Seq(Answer)
    <3>1. \A i \in DOMAIN answers : answers[i] \in Answer
      BY DEF CostTypeOK
    <3>2. \A i \in DOMAIN answers : [answers[i] EXCEPT !.age = @ + 1] \in Answer
      BY <2>1, <3>1, AgesTyped DEF Answer
    <3> QED BY <1>8, <3>2, MapIs DEF Tick, CostTypeOK
  <2>3. queries' \in Seq(Query)
    <3>1. \A i \in DOMAIN queries : queries[i] \in Query
      BY DEF CostTypeOK
    <3>2. \A i \in DOMAIN queries : [queries[i] EXCEPT !.age = @ + 1] \in Query
      BY <2>1, <3>1, AgesTyped DEF Query
    <3> QED BY <1>8, <3>2, MapIs DEF Tick, CostTypeOK
  <2>4. bucket' \in [Series -> Bucket]
    BY <1>8, <2>1, AgesTyped DEF Tick, CostTypeOK, Bucket
  <2>5. now' \in 0 .. day'.length - 1
    BY <1>8, DayFacts DEF Tick, CostTypeOK
  <2> QED
    BY <1>8, <2>1, <2>2, <2>3, <2>4, <2>5, ElapseTyped DEF Tick, CostTypeOK
<1>9. CASE Midnight
  <2>1. MayPass /\ Elapse
    BY <1>9 DEF Midnight
  <2>2. answers' \in Seq(Answer)
    <3>1. \A i \in DOMAIN answers : answers[i] \in Answer
      BY DEF CostTypeOK
    <3>2. \A i \in DOMAIN answers :
            [answers[i] EXCEPT !.age = @ + 1, !.of = Older(@)] \in Answer
      BY <2>1, <3>1, AgesTyped, OlderTyped DEF Answer
    <3> QED BY <1>9, <3>2, MapIs DEF Midnight, CostTypeOK
  <2>3. queries' \in Seq(Query)
    <3>1. \A i \in DOMAIN queries : queries[i] \in Query
      BY DEF CostTypeOK
    <3>2. \A i \in DOMAIN queries :
            [queries[i] EXCEPT !.age = @ + 1, !.through = Older(@),
                               !.month = MonthAfter(@, day'.first)] \in Query
      BY <2>1, <3>1, AgesTyped, OlderTyped DEF Query, MonthAfter
    <3> QED BY <1>9, <3>2, MapIs DEF Midnight, CostTypeOK
  <2>4. bucket' \in [Series -> Bucket]
    BY <1>9, <2>1, AgesTyped, OlderTyped DEF Midnight, CostTypeOK, Bucket
  <2>5. day' \in Day /\ now' \in 0 .. day'.length - 1 /\ year' \in Nat
    <3>1. day' \in Day /\ now' = 0
      BY <1>9 DEF Midnight
    <3>2. year' \in {year, year + 1}
      BY <1>9 DEF Midnight
    <3> QED BY <3>1, <3>2, DayFacts DEF CostTypeOK
  <2>6. prefix' \in Prefix \union {NoPrefix}
    BY <1>9, <2>5, PrefixAfterTyped, DayFacts DEF Midnight, CostTypeOK
  <2>7. written' \in Report
    <3>1. PrefixAfter(written.prefix, day'.first) \in Prefix \union {NoPrefix}
      BY <2>5, PrefixAfterTyped, DayFacts DEF CostTypeOK, Report
    <3>2. [s \in Series |-> Older(written.of[s])] \in [Series -> DaysBack]
      BY OlderTyped DEF CostTypeOK, Report
    <3>3. MonthAfter(written.reset, day'.first) \in {"this", "earlier"}
      BY DEF CostTypeOK, Report, MonthAfter
    <3>4. /\ written \in Report
          /\ written' = [written EXCEPT
                           !.reset = MonthAfter(written.reset, day'.first),
                           !.prefix = PrefixAfter(written.prefix, day'.first),
                           !.of = [s \in Series |-> Older(written.of[s])]]
      BY <1>9 DEF Midnight, CostTypeOK
    <3> QED BY <3>1, <3>2, <3>3, <3>4 DEF Report
  <2> QED
    BY <1>9, <2>1, <2>2, <2>3, <2>4, <2>5, <2>6, <2>7, ElapseTyped
    DEF Midnight, CostTypeOK
<1>10. CASE UNCHANGED vars
  BY <1>10 DEF vars, CostTypeOK
<1> QED
  BY <1>1, <1>2, <1>3, <1>4, <1>5, <1>6, <1>7, <1>8, <1>9, <1>10 DEF Next
-----------------------------------------------------------------------------
(* The price.                                                              *)

(* The timer cannot run past a boundary, and midnight is one. *)
LEMMA TimerStep ==
  CostTypeOK /\ TimerIsNext /\ [Next]_vars => TimerIsNext'
<1> SUFFICES ASSUME CostTypeOK, TimerIsNext, [Next]_vars PROVE TimerIsNext'
  OBVIOUS
<1>1. CASE UNCHANGED <<clock, tariff>>
  BY <1>1 DEF TimerIsNext, clock, tariff
<1>2. CASE TariffBoundary
  BY <1>2 DEF TariffBoundary, TimerIsNext, clock
<1>3. CASE Tick
  <2> SUFFICES ASSUME timer' > 0
               PROVE  /\ price' = Price(day', now', year')
                      /\ timer' = NextBoundary(day', now') - now'
    BY DEF TimerIsNext
  <2>1. /\ price = Price(day, now, year) /\ timer = NextBoundary(day, now) - now
        /\ timer' = timer - 1 /\ price' = price
        /\ day' = day /\ year' = year /\ now' = now + 1
    BY <1>3 DEF Tick, MayPass, Elapse, TimerIsNext
  <2>2. /\ day \in Day /\ now \in 0 .. day.length - 1
        /\ NextBoundary(day, now) \in Nat
    BY NextBoundaryIs DEF CostTypeOK
  <2>3. now + 1 < NextBoundary(day, now)
    BY <2>1, <2>2, DayFacts
  <2>4. /\ NextBoundary(day, now + 1) = NextBoundary(day, now)
        /\ HighTariff(day, now + 1) = HighTariff(day, now)
    BY <2>2, <2>3, NothingBetween
  <2>5. Price(day, now + 1, year) = Price(day, now, year)
    BY <2>4 DEF Price
  <2> QED BY <2>1, <2>2, <2>4, <2>5, DayFacts
<1>4. CASE Midnight
  <2>1. /\ timer > 0 /\ timer = NextBoundary(day, now) - now
        /\ timer' = timer - 1 /\ now + 1 = day.length
    BY <1>4 DEF Midnight, MayPass, Elapse, TimerIsNext
  <2>2. /\ NextBoundary(day, now) <= day.length /\ NextBoundary(day, now) \in Nat
        /\ now \in Nat
    BY NextBoundaryIs, DayFacts DEF CostTypeOK
  <2>3. ~(timer' > 0)
    BY <2>1, <2>2
  <2> QED BY <2>3 DEF TimerIsNext
<1>5. CASE \/ Connect \/ Disconnect \/ PollRanges \/ AnswerArrives
           \/ RefreshPrefix \/ QueryReturns \/ QueryFails \/ UNCHANGED vars
  BY <1>1, <1>5
  DEF Connect, Disconnect, PollRanges, AnswerArrives, RefreshPrefix,
      QueryReturns, QueryFails, vars
<1> QED BY <1>2, <1>3, <1>4, <1>5 DEF Next
-----------------------------------------------------------------------------
(* Today's buckets.                                                        *)

(* The elements of what is on its way have their types. *)
LEMMA AnswerFacts ==
  ASSUME CostTypeOK, NEW i \in DOMAIN answers
  PROVE  /\ answers[i].series \in Series /\ answers[i].of \in DaysBack
         /\ answers[i].age \in 0..Latency /\ i \in Nat
<1>1. answers[i] \in Answer /\ i \in Nat
  BY DEF CostTypeOK
<1> QED BY <1>1 DEF Answer

(* The parts of a query that is running.                                   *)
LEMMA QueryFacts ==
  ASSUME CostTypeOK, NEW i \in DOMAIN queries
  PROVE  /\ queries[i].through \in DaysBack
         /\ queries[i].month \in {"this", "earlier"}
         /\ queries[i].partial \in BOOLEAN
         /\ queries[i].age \in 0..QueryTime /\ i \in Nat
<1>1. queries[i] \in Query /\ i \in Nat
  BY DEF CostTypeOK
<1> QED BY <1>1 DEF Query

(* The front answer reaches the bucket of its series. *)
LEMMA ArrivalIs ==
  ASSUME CostTypeOK, AnswerArrives
  PROVE  /\ 1 \in DOMAIN answers /\ answers' = Tail(answers)
         /\ bucket'[answers[1].series].of = answers[1].of
         /\ bucket'[answers[1].series].age = answers[1].age
         /\ \A s \in Series : s # answers[1].series => bucket'[s] = bucket[s]
         /\ \A i \in DOMAIN answers' : i + 1 \in DOMAIN answers /\ answers'[i] = answers[i + 1]
         /\ \A i \in DOMAIN answers : i # 1 => i - 1 \in DOMAIN answers'
         /\ UNCHANGED <<clock, tariff, up, served, pollIn>>
<1>1. answers \in Seq(Answer) /\ answers # << >> /\ answers' = Tail(answers)
  BY DEF AnswerArrives, CostTypeOK
<1>2. bucket' = [bucket EXCEPT ![answers[1].series] =
                   [of |-> answers[1].of, age |-> answers[1].age,
                    known |-> TRUE]]
  BY <1>1, HeadTail DEF AnswerArrives
<1>3. bucket \in [Series -> Bucket] /\ answers[1].series \in Series
  BY <1>1, HeadTail, AnswerFacts DEF CostTypeOK
<1>4. UNCHANGED <<clock, tariff, up, served, pollIn>>
  BY DEF AnswerArrives
<1> QED BY <1>1, <1>2, <1>3, <1>4, HeadTail

(* A poll adds one answer of each series at the end. *)
LEMMA PollIs ==
  ASSUME CostTypeOK, PollRanges
  PROVE  /\ DOMAIN answers' = DOMAIN answers \union {Len(answers) + 1, Len(answers) + 2}
         /\ \A i \in DOMAIN answers : answers'[i] = answers[i] /\ i < Len(answers) + 1
         /\ answers'[Len(answers) + 1] = [series |-> "HT", of |-> 0, age |-> 0]
         /\ answers'[Len(answers) + 2] = [series |-> "NT", of |-> 0, age |-> 0]
         /\ Len(answers) \in Nat
         /\ up /\ pollIn = 0 /\ pollIn' = Poll
         /\ UNCHANGED <<clock, up, served, bucket>>
BY PolledIs DEF PollRanges, CostTypeOK

(* Time passes for the answers and the buckets alike. *)
LEMMA AgeingIs ==
  ASSUME CostTypeOK, Tick \/ Midnight
  PROVE  /\ DOMAIN answers' = DOMAIN answers
         /\ \A i \in DOMAIN answers :
              /\ answers'[i].age = answers[i].age + 1
              /\ answers'[i].series = answers[i].series
              /\ Tick => answers'[i].of = answers[i].of
         /\ \A s \in Series :
              /\ bucket'[s].age = Least(bucket[s].age + 1, SettleTime + 1)
              /\ Tick => bucket'[s].of = bucket[s].of
         /\ MayPass /\ Elapse
<1>1. \A i \in DOMAIN answers : answers[i] \in Answer
  BY DEF CostTypeOK
<1>2. bucket \in [Series -> Bucket]
  BY DEF CostTypeOK
<1>3. CASE Tick
  BY <1>1, <1>2, <1>3 DEF Tick, Answer, Bucket
<1>4. CASE Midnight /\ ~Tick
  BY <1>1, <1>2, <1>4 DEF Midnight, Answer, Bucket
<1> QED BY <1>3, <1>4

(* What is of yesterday has been on its way since before midnight. *)
LEMMA TodayStep ==
  CostTypeOK /\ AnswersOfToday /\ BucketsOfToday /\ [Next]_vars
    => AnswersOfToday' /\ BucketsOfToday'
<1> SUFFICES ASSUME CostTypeOK, AnswersOfToday, BucketsOfToday, [Next]_vars
             PROVE  AnswersOfToday' /\ BucketsOfToday'
  OBVIOUS
<1> USE DEF AnswersOfToday, BucketsOfToday, clock
<1>1. CASE Connect
  BY <1>1, AskedIs DEF Connect
<1>2. CASE Disconnect
  BY <1>2 DEF Disconnect
<1>3. CASE PollRanges
  BY <1>3, PollIs
<1>4. CASE AnswerArrives
  BY <1>4, ArrivalIs
<1>5. CASE Tick
  <2>1. now' = now + 1 /\ now \in Nat
    BY <1>5, DayFacts DEF Tick, CostTypeOK
  <2>2. AnswersOfToday'
    BY <1>5, <2>1, AgeingIs, AnswerFacts
  <2>3. \A s \in Series : bucket[s].age \in Nat
    BY DEF CostTypeOK, Bucket
  <2>4. BucketsOfToday'
    BY <1>5, <2>1, <2>3, AgeingIs, Durations DEF Least, SettleTime
  <2> QED BY <2>2, <2>4
<1>6. CASE Midnight
  <2>1. now' = 0
    BY <1>6 DEF Midnight
  <2>2. AnswersOfToday'
    BY <1>6, <2>1, AgeingIs, AnswerFacts
  <2>3. \A s \in Series : bucket[s].age \in Nat
    BY DEF CostTypeOK, Bucket
  <2>4. BucketsOfToday'
    BY <1>6, <2>1, <2>3, AgeingIs, Durations DEF Least, SettleTime
  <2> QED BY <2>2, <2>4
<1>7. CASE \/ RefreshPrefix \/ QueryReturns \/ QueryFails \/ TariffBoundary
           \/ UNCHANGED vars
  <2>1. UNCHANGED <<now, answers, bucket>>
    BY <1>7
    DEF RefreshPrefix, QueryReturns, QueryFails, TariffBoundary, vars, link
  <2> QED BY <2>1
<1> QED BY <1>1, <1>2, <1>3, <1>4, <1>5, <1>6, <1>7 DEF Next

(* A poll that follows the last: what was of the latest poll is now Poll   *)
(* older than the one just sent.                                           *)
LEMMA PollFollows ==
  ASSUME CostTypeOK, PollsFollowed, PollRanges, NEW s \in Series
  PROVE  AnswersSpaced(s)' /\ BucketFollowed(s)'
<1> DEFINE n == IF s = "HT" THEN Len(answers) + 1 ELSE Len(answers) + 2
<1>1. /\ n \in DOMAIN answers' /\ answers'[n].series = s /\ answers'[n].age = 0
      /\ \A i \in DOMAIN answers : i < n
      /\ \A i \in DOMAIN answers' : i \in DOMAIN answers \/ answers'[i].age = 0
  BY PollIs, AnswerFacts DEF Series
<1>2. /\ up /\ up' = up /\ pollIn = 0 /\ pollIn' = Poll /\ bucket' = bucket
      /\ \A i \in DOMAIN answers : i \in DOMAIN answers' /\ answers'[i] = answers[i]
  BY PollIs
<1>3. \A i \in DOMAIN answers : answers[i].age \in Nat /\ answers[i].series \in Series
  BY AnswerFacts
<1>4. bucket[s].age \in Nat
  BY DEF CostTypeOK, Bucket
<1> HIDE DEF n
<1>5. AnswersSpaced(s) /\ BucketFollowed(s)
  BY <1>2 DEF PollsFollowed
<1>6. AnswersSpaced(s)'
  <2> SUFFICES ASSUME NEW i \in DOMAIN answers', answers'[i].series = s
               PROVE  \/ \E j \in DOMAIN answers' :
                           /\ answers'[j].series = s /\ j > i
                           /\ answers'[i].age <= answers'[j].age + Poll
                      \/ answers'[i].age <= Poll - pollIn'
    BY DEF AnswersSpaced, Pending
  <2>1. CASE i \notin DOMAIN answers
    BY <1>1, <1>2, <2>1, Durations
  <2>2. CASE i \in DOMAIN answers
    <3>1. CASE \E j \in Pending(s) : j > i /\ answers[i].age <= answers[j].age + Poll
      BY <1>2, <2>2, <3>1 DEF Pending
    <3>2. CASE answers[i].age <= Poll - pollIn
      <4>1. answers'[i].age <= answers'[n].age + Poll /\ n > i
        BY <1>1, <1>2, <1>3, <2>2, <3>2, Durations, AnswerFacts, PollIs
      <4> QED BY <1>1, <4>1
    <3>3. i \in Pending(s)
      BY <1>2, <2>2 DEF Pending
    <3> QED BY <1>5, <3>1, <3>2, <3>3 DEF AnswersSpaced
  <2> QED BY <2>1, <2>2
<1>7. BucketFollowed(s)'
  <2>1. n \in Pending(s)'
    BY <1>1 DEF Pending
  <2>2. CASE Pending(s) = {}
    <3>1. bucket'[s].age <= answers'[n].age + Poll
      BY <1>1, <1>2, <1>4, <1>5, <2>2, Durations DEF BucketFollowed
    <3> QED BY <2>1, <3>1 DEF BucketFollowed
  <2>3. CASE Pending(s) # {}
    <3>1. PICK i \in Pending(s) : \/ bucket[s].age <= answers[i].age + Poll
                                 \/ answers[i].age >= served
      BY <1>5, <2>3 DEF BucketFollowed
    <3>2. i \in Pending(s)' /\ answers'[i] = answers[i] /\ served' = served
      BY <1>2, <3>1, PollIs DEF Pending
    <3> QED BY <1>2, <2>1, <3>1, <3>2 DEF BucketFollowed
  <2> QED BY <2>2, <2>3
<1> QED BY <1>6, <1>7

(* An answer that arrives leaves its bucket as old as it was, and the next *)
(* one of its series, if any, no more than Poll younger.                   *)
LEMMA ArrivalFollows ==
  ASSUME CostTypeOK, PollsFollowed, AnswerArrives, up, NEW s \in Series
  PROVE  AnswersSpaced(s)' /\ BucketFollowed(s)'
<1>1. /\ 1 \in DOMAIN answers /\ served' = served /\ pollIn' = pollIn
      /\ \A i \in DOMAIN answers' : i + 1 \in DOMAIN answers /\ answers'[i] = answers[i + 1]
      /\ \A i \in DOMAIN answers : i # 1 => i - 1 \in DOMAIN answers'
  BY ArrivalIs
<1>2. \A i \in DOMAIN answers :
        answers[i].age \in Nat /\ answers[i].series \in Series /\ i \in Nat /\ i >= 1
  BY AnswerFacts, HeadTail DEF CostTypeOK, AnswerArrives
<1>3. /\ \A i \in Pending(s)' : i + 1 \in Pending(s) /\ i \in Nat
      /\ \A i \in Pending(s) : i # 1 => i - 1 \in Pending(s)' /\ answers'[i - 1] = answers[i]
  <2>1. answers' \in Seq(Answer)
    BY HeadTail DEF CostTypeOK, AnswerArrives
  <2>2. \A i \in DOMAIN answers' : i \in Nat
    BY <2>1
  <2>3. \A i \in DOMAIN answers : i # 1 => answers'[i - 1] = answers[i]
    BY <1>1, <1>2
  <2> QED BY <1>1, <2>2, <2>3 DEF Pending
<1>4. AnswersSpaced(s) /\ BucketFollowed(s)
  BY DEF PollsFollowed
<1>5. bucket[s].age \in Nat /\ pollIn \in 0..Poll
  BY DEF CostTypeOK, Bucket
<1>6. AnswersSpaced(s)'
  <2> SUFFICES ASSUME NEW i \in Pending(s)'
               PROVE  \/ \E j \in Pending(s)' :
                           j > i /\ answers'[i].age <= answers'[j].age + Poll
                      \/ answers'[i].age <= Poll - pollIn'
    BY DEF AnswersSpaced
  <2>1. i + 1 \in Pending(s) /\ answers'[i] = answers[i + 1] /\ i \in Nat
    BY <1>1, <1>3 DEF Pending
  <2>2. CASE answers[i + 1].age <= Poll - pollIn
    BY <1>1, <2>1, <2>2
  <2>3. CASE \E j \in Pending(s) :
               j > i + 1 /\ answers[i + 1].age <= answers[j].age + Poll
    <3>1. PICK j \in Pending(s) :
                 j > i + 1 /\ answers[i + 1].age <= answers[j].age + Poll
      BY <2>3
    <3>2. j \in Nat /\ j # 1 /\ j - 1 > i
      BY <1>2, <2>1, <3>1 DEF Pending
    <3>3. j - 1 \in Pending(s)' /\ answers'[j - 1] = answers[j]
      BY <1>3, <3>2
    <3> QED BY <2>1, <3>1, <3>2, <3>3
  <2> QED BY <1>4, <2>1, <2>2, <2>3 DEF AnswersSpaced
<1>7. BucketFollowed(s)'
  <2>1. CASE answers[1].series = s
    <3>1. bucket'[s].age = answers[1].age /\ 1 \in Pending(s)
      BY <1>1, <2>1, ArrivalIs DEF Pending
    <3>2. CASE \E j \in Pending(s) : j > 1 /\ answers[1].age <= answers[j].age + Poll
      <4>1. PICK j \in Pending(s) : j > 1 /\ answers[1].age <= answers[j].age + Poll
        BY <3>2
      <4>2. j - 1 \in Pending(s)' /\ answers'[j - 1] = answers[j]
        BY <1>2, <1>3, <4>1 DEF Pending
      <4> QED BY <3>1, <4>1, <4>2 DEF BucketFollowed
    <3>3. CASE answers[1].age <= Poll - pollIn
      <4>1. \A i \in Pending(s)' : bucket'[s].age <= answers'[i].age + Poll
        <5> SUFFICES ASSUME NEW i \in Pending(s)'
                     PROVE  bucket'[s].age <= answers'[i].age + Poll
          OBVIOUS
        <5>1. answers'[i].age \in Nat
          BY <1>1, <1>2 DEF Pending
        <5>2. answers[1].age \in Nat
          BY <1>1, <1>2
        <5> QED BY <1>5, <3>1, <3>3, <5>1, <5>2, Durations
      <4>2. bucket'[s].age <= Poll - pollIn'
        BY <1>1, <3>1, <3>3
      <4> QED BY <4>1, <4>2 DEF BucketFollowed
    <3> QED BY <1>4, <3>1, <3>2, <3>3 DEF AnswersSpaced
  <2>2. CASE answers[1].series # s
    <3>1. bucket'[s] = bucket[s] /\ 1 \notin Pending(s)
      BY <2>2, ArrivalIs DEF Pending
    <3>2. CASE Pending(s) = {}
      <4>1. Pending(s)' = {}
        BY <1>3, <3>2
      <4> QED BY <1>1, <1>4, <3>1, <3>2, <4>1 DEF BucketFollowed
    <3>3. CASE Pending(s) # {}
      <4>1. PICK i \in Pending(s) : \/ bucket[s].age <= answers[i].age + Poll
                                   \/ answers[i].age >= served
        BY <1>4, <3>3 DEF BucketFollowed
      <4>2. i - 1 \in Pending(s)' /\ answers'[i - 1] = answers[i]
        BY <1>3, <3>1, <4>1
      <4> QED BY <1>1, <3>1, <4>1, <4>2 DEF BucketFollowed
    <3> QED BY <3>2, <3>3
  <2> QED BY <2>1, <2>2
<1> QED BY <1>6, <1>7

(* Time passing changes no difference of ages, and none to the next poll.  *)
LEMMA AgeingFollows ==
  ASSUME CostTypeOK, PollsFollowed, Tick \/ Midnight, up, NEW s \in Series
  PROVE  AnswersSpaced(s)' /\ BucketFollowed(s)'
<1>1. /\ pollIn' = pollIn - 1 /\ pollIn \in 1..Poll
      /\ served' = Least(served + 1, SettleTime) /\ served \in 0..SettleTime
  <2>1. pollIn > 0 /\ pollIn' = pollIn - 1
    BY AgeingIs DEF MayPass, Elapse
  <2>2. served' = Least(served + 1, SettleTime)
    BY AgeingIs DEF Elapse
  <2>3. pollIn \in 0..Poll /\ served \in 0..SettleTime
    BY DEF CostTypeOK
  <2> QED BY <2>1, <2>2, <2>3, Durations
<1>2. /\ Pending(s)' = Pending(s)
      /\ \A i \in Pending(s) : /\ answers'[i].age = answers[i].age + 1
                              /\ answers[i].age \in 0..Latency
      /\ bucket'[s].age = Least(bucket[s].age + 1, SettleTime + 1)
  BY AgeingIs, AnswerFacts DEF Pending
<1>3. bucket[s].age \in 0..(SettleTime + 1)
  BY DEF CostTypeOK, Bucket
<1>4. AnswersSpaced(s) /\ BucketFollowed(s)
  BY DEF PollsFollowed
<1>5. AnswersSpaced(s)'
  <2> SUFFICES ASSUME NEW i \in Pending(s)
               PROVE  \/ \E j \in Pending(s) :
                           j > i /\ answers'[i].age <= answers'[j].age + Poll
                      \/ answers'[i].age <= Poll - pollIn'
    BY <1>2 DEF AnswersSpaced
  <2>1. CASE \E j \in Pending(s) : j > i /\ answers[i].age <= answers[j].age + Poll
    BY <1>2, <2>1, Durations
  <2>2. CASE answers[i].age <= Poll - pollIn
    BY <1>1, <1>2, <2>2, Durations
  <2> QED BY <1>4, <2>1, <2>2 DEF AnswersSpaced
<1>6. BucketFollowed(s)'
  <2>1. CASE Pending(s) = {}
    BY <1>1, <1>2, <1>3, <1>4, <2>1, Durations DEF BucketFollowed, Least
  <2>2. CASE Pending(s) # {}
    <3>1. PICK i \in Pending(s) : \/ bucket[s].age <= answers[i].age + Poll
                                 \/ answers[i].age >= served
      BY <1>4, <2>2 DEF BucketFollowed
    <3>2. \/ bucket'[s].age <= answers'[i].age + Poll
          \/ answers'[i].age >= served'
      BY <1>1, <1>2, <1>3, <3>1, Durations DEF Least
    <3> QED BY <1>2, <2>2, <3>1, <3>2 DEF BucketFollowed
  <2> QED BY <2>1, <2>2
<1> QED BY <1>5, <1>6

(* Every step of a connection that is up keeps its polls in order. *)
LEMMA PollStep ==
  CostTypeOK /\ PollsFollowed /\ [Next]_vars => PollsFollowed'
<1> SUFFICES ASSUME CostTypeOK, PollsFollowed, [Next]_vars PROVE PollsFollowed'
  OBVIOUS
<1>1. CASE Connect
  <2>1. /\ up' = TRUE /\ served' = 0 /\ pollIn' = Poll /\ answers' = Asked
    BY <1>1 DEF Connect
  <2>2. ASSUME NEW s \in Series PROVE AnswersSpaced(s)' /\ BucketFollowed(s)'
    <3>1. PICK n \in DOMAIN answers' : answers'[n].series = s
      BY <2>1, AskedIs DEF Series
    <3>2. \A i \in DOMAIN answers' : answers'[i].age = 0
      BY <2>1, AskedIs
    <3> QED
      BY <2>1, <3>1, <3>2, Durations DEF AnswersSpaced, BucketFollowed, Pending
  <2> QED BY <2>2 DEF PollsFollowed
<1>2. CASE Disconnect
  BY <1>2 DEF Disconnect, PollsFollowed
<1>3. CASE PollRanges
  BY <1>3, PollFollows DEF PollsFollowed
<1>4. CASE AnswerArrives
  <2>1. up' = up
    BY <1>4, ArrivalIs
  <2> QED BY <1>4, <2>1, ArrivalFollows DEF PollsFollowed
<1>5. CASE Tick \/ Midnight
  <2>1. up' = up
    BY <1>5, AgeingIs DEF Elapse
  <2> QED BY <1>5, <2>1, AgeingFollows DEF PollsFollowed
<1>6. CASE \/ RefreshPrefix \/ QueryReturns \/ QueryFails \/ TariffBoundary
           \/ UNCHANGED vars
  <2>1. UNCHANGED link
    BY <1>6
    DEF RefreshPrefix, QueryReturns, QueryFails, TariffBoundary, vars, link
  <2> QED
    BY <2>1
    DEF link, PollsFollowed, AnswersSpaced, BucketFollowed, Pending
<1> QED BY <1>1, <1>2, <1>3, <1>4, <1>5, <1>6 DEF Next
-----------------------------------------------------------------------------
(* The month's total.                                                      *)

(* After a write the report is the view, but for a last_reset that is not  *)
(* compared.                                                               *)
LEMMA WriteIs ==
  ASSUME CostTypeOK, NEW p \in Prefix \union {NoPrefix},
         NEW b \in [Series -> Bucket], NEW u \in BOOLEAN, Write(p, b, u)
  PROVE  /\ written'.shown = u
         /\ \/ written' = written
            \/ written' = View(p, b, u)
         /\ u => /\ written'.prefix = p
                 /\ \A s \in Series : written'.of[s] = b[s].of
                 /\ written'.rates = RatesYear(year)
<1> DEFINE view == View(p, b, u)
<1>1. /\ view.shown = u
      /\ u => /\ view.prefix = p
              /\ \A s \in Series : view.of[s] = b[s].of
              /\ view.rates = RatesYear(year)
  BY DEF View, NotServed
<1>2. [view EXCEPT !.reset = written.reset] = written =>
        /\ written.shown = view.shown /\ written.prefix = view.prefix
        /\ written.of = view.of /\ written.rates = view.rates
  <2>1. /\ [view EXCEPT !.reset = written.reset].shown = view.shown
        /\ [view EXCEPT !.reset = written.reset].prefix = view.prefix
        /\ [view EXCEPT !.reset = written.reset].of = view.of
        /\ [view EXCEPT !.reset = written.reset].rates = view.rates
    BY DEF View, NotServed
  <2> QED BY <2>1
<1>3. written' = IF [view EXCEPT !.reset = written.reset] = written
                 THEN written ELSE view
  BY DEF Write
<1> HIDE DEF view
<1>4. written' = written \/ written' = view
  BY <1>3
<1>5. /\ written'.shown = view.shown /\ written'.prefix = view.prefix
      /\ written'.of = view.of /\ written'.rates = view.rates
  BY <1>2, <1>3
<1> QED BY <1>1, <1>4, <1>5 DEF view

(* A write restores all that WrittenFollows says. *)
LEMMA WriteFollows ==
  ASSUME CostTypeOK, CostTypeOK', WrittenFollows, Write(prefix', bucket', up'),
         UNCHANGED year
  PROVE  WrittenFollows'
<1>1. /\ prefix' \in Prefix \union {NoPrefix} /\ bucket' \in [Series -> Bucket]
      /\ up' \in BOOLEAN
  BY DEF CostTypeOK
<1>2. written'.prefix.month = "this" => written'.reset = "this"
  <2>1. CASE written' = written
    BY <2>1 DEF WrittenFollows
  <2>2. CASE written' = View(prefix', bucket', up')
    BY <2>2 DEF View, NotServed, NoPrefix
  <2> QED BY <1>1, <2>1, <2>2, WriteIs
<1> QED BY <1>1, <1>2, WriteIs DEF WrittenFollows

(* Home Assistant follows the prefix and the buckets through every step;   *)
(* a midnight ages them all, and leaves no prefix complete.                *)
LEMMA WrittenStep ==
  CostTypeOK /\ CostTypeOK' /\ WrittenFollows /\ [Next]_vars => WrittenFollows'
<1> SUFFICES ASSUME CostTypeOK, CostTypeOK', WrittenFollows, [Next]_vars
             PROVE  WrittenFollows'
  OBVIOUS
<1>1. CASE Connect \/ Disconnect \/ AnswerArrives
  <2>1. Write(prefix', bucket', up') /\ UNCHANGED year
    BY <1>1 DEF Connect, Disconnect, AnswerArrives, clock, history
  <2> QED BY <2>1, WriteFollows
<1>2. CASE QueryReturns
  <2>1. Write(prefix', bucket', up') /\ UNCHANGED year
    BY <1>2 DEF QueryReturns, Adopt, clock, link
  <2> QED BY <2>1, WriteFollows
<1>3. CASE UNCHANGED <<written, prefix, bucket, up, year>>
  BY <1>3 DEF WrittenFollows
<1>4. CASE PollRanges \/ QueryFails \/ TariffBoundary \/ UNCHANGED vars
  BY <1>3, <1>4
  DEF PollRanges, QueryFails, TariffBoundary, vars, clock, link, history
<1>5. CASE Tick
  <2>1. UNCHANGED <<written, prefix, up, year>>
    BY <1>5 DEF Tick, Elapse
  <2>2. \A s \in Series : bucket'[s].of = bucket[s].of
    BY <1>5, AgeingIs
  <2> QED BY <2>1, <2>2 DEF WrittenFollows
<1>6. CASE Midnight
  <2>1. day' \in Day
    BY DEF CostTypeOK
  <2>2. /\ written'.shown = written.shown /\ up' = up
        /\ written'.reset = MonthAfter(written.reset, day'.first)
        /\ written'.prefix = PrefixAfter(written.prefix, day'.first)
        /\ \A s \in Series : written'.of[s] = Older(written.of[s])
        /\ prefix' = PrefixAfter(prefix, day'.first)
    BY <1>6 DEF Midnight, Elapse, CostTypeOK, Report
  <2>3. \A s \in Series : bucket'[s].of = Older(bucket[s].of)
    BY <1>6 DEF Midnight, CostTypeOK, Bucket
  <2>4. /\ prefix'.through # 0
        /\ written'.prefix.month = "this" =>
             written.prefix.month = "this" /\ ~day'.first
    <3>1. /\ prefix \in Prefix \union {NoPrefix} /\ day'.first \in BOOLEAN
          /\ written.prefix \in Prefix \union {NoPrefix}
      BY <2>1, DayFacts DEF CostTypeOK, Report
    <3> QED BY <2>2, <3>1, PrefixAfterTyped
  <2>5. written'.prefix.month = "this" => written'.reset = "this"
    BY <2>2, <2>4 DEF WrittenFollows, MonthAfter
  <2>6. up' => /\ written'.prefix = prefix'
               /\ \A s \in Series : written'.of[s] = bucket'[s].of
    BY <2>2, <2>3 DEF WrittenFollows
  <2>7. written'.shown = up'
    BY <2>2 DEF WrittenFollows
  <2> QED BY <2>4, <2>5, <2>6, <2>7 DEF WrittenFollows
<1>7. CASE RefreshPrefix
  <2>1. CASE day.first
    <3>1. Write(prefix', bucket', up') /\ UNCHANGED year
      BY <1>7, <2>1 DEF RefreshPrefix, Adopt, clock, link
    <3> QED BY <3>1, WriteFollows
  <2>2. CASE ~day.first
    BY <1>3, <1>7, <2>2 DEF RefreshPrefix, clock, link
  <2> QED BY <2>1, <2>2
<1> QED BY <1>1, <1>2, <1>4, <1>5, <1>6, <1>7 DEF Next
-----------------------------------------------------------------------------
(* The prefix.                                                             *)

(* The oldest query is the one that returns or fails. *)
LEMMA ReturnIs ==
  ASSUME CostTypeOK, QueryReturns \/ QueryFails
  PROVE  /\ 1 \in DOMAIN queries /\ Head(queries) = queries[1]
         /\ \A i \in DOMAIN queries' :
              /\ i \in Nat /\ i >= 1 /\ i + 1 \in DOMAIN queries
              /\ queries'[i] = queries[i + 1]
         /\ \A i \in DOMAIN queries :
              i # 1 => i - 1 \in DOMAIN queries' /\ queries'[i - 1] = queries[i]
         /\ \A i \in DOMAIN queries : i \in Nat /\ i >= 1
         /\ UNCHANGED <<day, year, now, refreshIn>>
<1>1. queries \in Seq(Query) /\ queries # << >> /\ queries' = Tail(queries)
  BY DEF QueryReturns, QueryFails, CostTypeOK
<1>2. UNCHANGED <<day, year, now, refreshIn>>
  BY DEF QueryReturns, QueryFails, clock
<1>3. \A i \in DOMAIN queries' : i \in Nat /\ i >= 1
  <2>1. queries' \in Seq(Query)
    BY <1>1, HeadTail
  <2> QED BY <2>1
<1>4. /\ 1 \in DOMAIN queries /\ Head(queries) = queries[1]
      /\ \A i \in DOMAIN queries' :
           i + 1 \in DOMAIN queries /\ queries'[i] = queries[i + 1]
      /\ \A i \in DOMAIN queries : i # 1 => i - 1 \in DOMAIN queries'
      /\ \A i \in DOMAIN queries : i \in Nat /\ i >= 1
  BY <1>1, HeadTail
<1>5. ASSUME NEW i \in DOMAIN queries, i # 1
      PROVE  queries'[i - 1] = queries[i]
  <2>1. i - 1 \in DOMAIN queries' /\ i \in Nat /\ (i - 1) + 1 = i
    BY <1>4, <1>5
  <2> QED BY <1>4, <2>1
<1> QED BY <1>2, <1>3, <1>4, <1>5

(* Time passes for the queries too. *)
LEMMA QueriesAge ==
  ASSUME CostTypeOK, Tick \/ Midnight
  PROVE  /\ DOMAIN queries' = DOMAIN queries
         /\ \A i \in DOMAIN queries :
              /\ queries'[i].age = queries[i].age + 1
              /\ Tick => /\ queries'[i].through = queries[i].through
                         /\ queries'[i].month = queries[i].month
                         /\ queries'[i].partial = queries[i].partial
         /\ refreshIn' = refreshIn - 1
<1>1. \A i \in DOMAIN queries : queries[i] \in Query
  BY DEF CostTypeOK
<1>2. CASE Tick
  BY <1>1, <1>2 DEF Tick, Elapse, Query
<1>3. CASE Midnight /\ ~Tick
  BY <1>1, <1>3 DEF Midnight, Elapse, Query
<1> QED BY <1>2, <1>3

(* A refresh on any other day than the first asks for the history so far. *)
LEMMA RefreshIs ==
  ASSUME CostTypeOK, RefreshPrefix, ~day.first
  PROVE  /\ DOMAIN queries' = DOMAIN queries \union {Len(queries) + 1}
         /\ \A i \in DOMAIN queries : queries'[i] = queries[i] /\ i < Len(queries) + 1
         /\ queries'[Len(queries) + 1] =
              [through |-> 0, month |-> "this", partial |-> now < CompileTime,
               age |-> 0]
         /\ prefix' = prefix
<1>1. [through |-> 0, month |-> "this", partial |-> now < CompileTime,
       age |-> 0] \in Query
  BY Durations DEF Query, DaysBack
<1>2. /\ queries' = Append(queries,
                        [through |-> 0, month |-> "this",
                         partial |-> now < CompileTime, age |-> 0])
      /\ prefix' = prefix
  BY DEF RefreshPrefix
<1> QED BY <1>1, <1>2, AppendIs DEF CostTypeOK

(* Queries keep their order, and what one asked today will answer.         *)
LEMMA QueryStep ==
  CostTypeOK /\ QueriesInOrder /\ [Next]_vars => QueriesInOrder'
<1> SUFFICES ASSUME CostTypeOK, QueriesInOrder, [Next]_vars
             PROVE  QueriesInOrder'
  OBVIOUS
<1>0. now \in Nat /\ \A i \in DOMAIN queries : queries[i].age \in Nat /\ i \in Nat
  BY QueryFacts, DayFacts DEF CostTypeOK
<1>1. CASE UNCHANGED <<day, now, queries>>
  BY <1>1 DEF QueriesInOrder
<1>2. CASE \/ Connect \/ Disconnect \/ PollRanges \/ AnswerArrives
           \/ TariffBoundary \/ UNCHANGED vars
  BY <1>1, <1>2
  DEF Connect, Disconnect, PollRanges, AnswerArrives, TariffBoundary, vars,
      clock, history
<1>3. CASE RefreshPrefix
  <2>1. UNCHANGED <<day, now>>
    BY <1>3 DEF RefreshPrefix, clock
  <2>2. CASE day.first
    BY <1>1, <1>3, <2>1, <2>2 DEF RefreshPrefix
  <2>3. CASE ~day.first
    <3> DEFINE n == Len(queries) + 1
    <3>1. /\ DOMAIN queries' = DOMAIN queries \union {n}
          /\ \A i \in DOMAIN queries : queries'[i] = queries[i] /\ i < n
          /\ queries'[n] = [through |-> 0, month |-> "this",
                            partial |-> now < CompileTime, age |-> 0]
      BY <1>3, <2>3, RefreshIs
    <3>2. n \in Nat
      BY DEF CostTypeOK
    <3> HIDE DEF n
    <3>3. ASSUME NEW i \in DOMAIN queries', NEW j \in DOMAIN queries', i < j
          PROVE  queries'[i].age >= queries'[j].age
      BY <1>0, <3>1, <3>2, <3>3 DEF QueriesInOrder
    <3>4. ASSUME NEW i \in DOMAIN queries', queries'[i].age <= now'
          PROVE  /\ ~day'.first
                 /\ queries'[i].through = 0 /\ queries'[i].month = "this"
                 /\ queries'[i].partial => now' - queries'[i].age < CompileTime
      <4>1. CASE i = n
        <5>1. /\ queries'[i].through = 0 /\ queries'[i].month = "this"
              /\ queries'[i].age = 0
              /\ queries'[i].partial = (now < CompileTime)
          BY <3>1, <4>1
        <5>2. queries'[i].partial => now' - queries'[i].age < CompileTime
          <6>1. queries'[i].partial => now < CompileTime
            BY <5>1
          <6>2. now' - queries'[i].age = now
            BY <1>0, <2>1, <5>1
          <6> QED BY <6>1, <6>2
        <5> QED BY <2>1, <2>3, <5>1, <5>2
      <4>2. CASE i # n
        BY <1>0, <2>1, <3>1, <3>4, <4>2 DEF QueriesInOrder
      <4> QED BY <4>1, <4>2
    <3> QED BY <3>3, <3>4 DEF QueriesInOrder
  <2> QED BY <2>2, <2>3
<1>4. CASE QueryReturns \/ QueryFails
  BY <1>0, <1>4, ReturnIs DEF QueriesInOrder
<1>5. CASE Tick
  <2>1. now' = now + 1 /\ day' = day
    BY <1>5 DEF Tick
  <2> QED BY <1>0, <1>5, <2>1, QueriesAge, Durations DEF QueriesInOrder
<1>6. CASE Midnight
  <2>1. now' = 0
    BY <1>6 DEF Midnight
  <2> QED BY <1>0, <1>6, <2>1, QueriesAge DEF QueriesInOrder
<1> QED BY <1>2, <1>3, <1>4, <1>5, <1>6 DEF Next

(* The answer of a query asked once the recorder had the day is exact. *)
LEMMA ExactReturn ==
  ASSUME CostTypeOK, QueriesInOrder, QueryReturns,
         queries[1].age <= now - CompileTime
  PROVE  /\ prefix' = ExactPrefix
         /\ \A i \in DOMAIN queries' : queries'[i].age <= now' - CompileTime
<1>1. /\ 1 \in DOMAIN queries /\ queries[1].age \in Nat /\ now \in Nat
      /\ queries[1].partial \in BOOLEAN
  BY ReturnIs, QueryFacts, DayFacts DEF CostTypeOK
<1>2. /\ queries[1].through = 0 /\ queries[1].month = "this"
      /\ ~queries[1].partial
  BY <1>1, Durations DEF QueriesInOrder
<1>3. prefix' = ExactPrefix
  <2>1. PICK partial \in {FALSE, Head(queries).partial} :
          Adopt([month |-> Head(queries).month,
                 through |-> Head(queries).through, partial |-> partial])
    BY DEF QueryReturns
  <2>2. partial = FALSE
    BY <1>1, <1>2, <2>1, ReturnIs
  <2> QED BY <1>2, <2>1, <2>2, ReturnIs DEF Adopt, ExactPrefix
<1>4. ASSUME NEW i \in DOMAIN queries'
      PROVE  queries'[i].age <= now' - CompileTime
  <2>1. /\ i + 1 \in DOMAIN queries /\ queries'[i] = queries[i + 1]
        /\ 1 < i + 1 /\ now' = now
    BY ReturnIs
  <2>2. queries[1].age >= queries[i + 1].age /\ queries[i + 1].age \in Nat
    BY <1>1, <2>1, QueryFacts DEF QueriesInOrder
  <2> QED BY <1>1, <2>1, <2>2, Durations
<1> QED BY <1>3, <1>4

(* The refresh that falls between CompileTime and a period later, or on    *)
(* the first between QueryTime and that, settles the prefix for the day.   *)
LEMMA SettleStep ==
  CostTypeOK /\ QueriesInOrder /\ PrefixSettles /\ [Next]_vars => PrefixSettles'
<1> SUFFICES ASSUME CostTypeOK, QueriesInOrder, PrefixSettles, [Next]_vars
             PROVE  PrefixSettles'
  OBVIOUS
<1>0. /\ now \in Nat /\ refreshIn \in 0..Refresh /\ day \in Day
      /\ \A i \in DOMAIN queries :
           queries[i].age \in 0..QueryTime /\ i \in Nat
  BY QueryFacts, DayFacts DEF CostTypeOK
<1>1. CASE UNCHANGED <<day, now, refreshIn, queries, prefix, failed>>
  BY <1>1 DEF PrefixSettles, LastRefresh
<1>2. CASE \/ Connect \/ Disconnect \/ PollRanges \/ AnswerArrives
           \/ TariffBoundary \/ UNCHANGED vars
  BY <1>1, <1>2
  DEF Connect, Disconnect, PollRanges, AnswerArrives, TariffBoundary, vars,
      clock, history
<1>3. CASE RefreshPrefix
  <2>1. /\ UNCHANGED <<day, now, failed>> /\ refreshIn = 0 /\ refreshIn' = Refresh
    BY <1>3 DEF RefreshPrefix, clock
  <2>2. CASE day.first
    <3>1. prefix' = ExactPrefix
      BY <1>3, <2>2 DEF RefreshPrefix, Adopt, ExactPrefix
    <3> QED BY <2>1, <2>2, <3>1 DEF PrefixSettles
  <2>3. CASE ~day.first
    <3> DEFINE n == Len(queries) + 1
    <3>1. /\ DOMAIN queries' = DOMAIN queries \union {n}
          /\ \A i \in DOMAIN queries : queries'[i] = queries[i] /\ i < n
          /\ queries'[n].age = 0 /\ prefix' = prefix
      BY <1>3, <2>3, RefreshIs
    <3> HIDE DEF n
    <3>2. LastRefresh = now - Refresh /\ LastRefresh' = now
      BY <1>0, <2>1, Durations DEF LastRefresh
    <3> SUFFICES ASSUME ~failed, now >= CompileTime
                 PROVE  \/ /\ prefix' = ExactPrefix
                           /\ \A i \in DOMAIN queries' :
                                queries'[i].age <= now' - CompileTime
                        \/ \E i \in DOMAIN queries' :
                             /\ queries'[i].age <= now' - CompileTime
                             /\ queries'[i].age > now' - CompileTime - Refresh
      BY <2>1, <2>3, <3>2 DEF PrefixSettles
    <3>3. CASE LastRefresh < CompileTime
      <4>1. /\ queries'[n].age <= now' - CompileTime
            /\ queries'[n].age > now' - CompileTime - Refresh
        BY <1>0, <2>1, <3>1, <3>2, <3>3, Durations
      <4> QED BY <3>1, <4>1
    <3>4. CASE LastRefresh >= CompileTime
      <4>1. CASE /\ prefix = ExactPrefix
                 /\ \A i \in DOMAIN queries : queries[i].age <= now - CompileTime
        <5>1. queries'[n].age <= now - CompileTime
          BY <1>0, <3>1, Durations
        <5> QED BY <2>1, <3>1, <4>1, <5>1
      <4>2. CASE \E i \in DOMAIN queries :
                   /\ queries[i].age <= now - CompileTime
                   /\ queries[i].age > now - CompileTime - Refresh
        BY <2>1, <3>1, <4>2
      <4> QED BY <2>3, <3>4, <4>1, <4>2 DEF PrefixSettles
    <3>5. LastRefresh \in Int /\ CompileTime \in Int
      BY <1>0, <3>2, Durations
    <3> QED BY <3>3, <3>4, <3>5
  <2> QED BY <2>2, <2>3
<1>4. CASE QueryReturns
  <2>1. /\ UNCHANGED <<day, now, refreshIn, failed>>
    BY <1>4, ReturnIs DEF QueryReturns
  <2>2. LastRefresh' = LastRefresh
    BY <2>1 DEF LastRefresh
  <2>3. 1 \in DOMAIN queries
    BY <1>4, ReturnIs
  <2>4. ASSUME day.first, LastRefresh >= QueryTime PROVE FALSE
    <3>1. queries[1].age > now
      BY <1>0, <2>3, <2>4 DEF QueriesInOrder
    <3> QED BY <1>0, <2>3, <2>4, <3>1, Durations DEF LastRefresh
  <2>5. ASSUME ~day.first, ~failed, LastRefresh >= CompileTime
        PROVE  \/ /\ prefix' = ExactPrefix
                  /\ \A i \in DOMAIN queries' :
                       queries'[i].age <= now' - CompileTime
               \/ \E i \in DOMAIN queries' :
                    /\ queries'[i].age <= now' - CompileTime
                    /\ queries'[i].age > now' - CompileTime - Refresh
    <3>1. CASE queries[1].age <= now - CompileTime
      BY <1>4, <3>1, ExactReturn
    <3>2. CASE ~(queries[1].age <= now - CompileTime)
      <4>1. PICK i \in DOMAIN queries :
                   /\ queries[i].age <= now - CompileTime
                   /\ queries[i].age > now - CompileTime - Refresh
        BY <2>3, <2>5, <3>2 DEF PrefixSettles
      <4>2. i - 1 \in DOMAIN queries' /\ queries'[i - 1] = queries[i]
        BY <1>4, <3>2, <4>1, ReturnIs
      <4> QED BY <2>1, <4>1, <4>2
    <3> QED BY <3>1, <3>2
  <2> QED BY <2>1, <2>2, <2>4, <2>5 DEF PrefixSettles
<1>5. CASE QueryFails
  <2>1. /\ UNCHANGED <<day, now, refreshIn, prefix>> /\ failed' = TRUE
    BY <1>5, ReturnIs DEF QueryFails
  <2> QED BY <2>1 DEF PrefixSettles, LastRefresh
<1>6. CASE Tick
  <2>1. /\ UNCHANGED <<day, prefix, failed>>
        /\ now' = now + 1 /\ refreshIn' = refreshIn - 1
    BY <1>6, QueriesAge DEF Tick
  <2>2. LastRefresh' = LastRefresh
    BY <1>0, <2>1, Durations DEF LastRefresh
  <2>3. /\ DOMAIN queries' = DOMAIN queries
        /\ \A i \in DOMAIN queries :
             /\ queries'[i].age <= now' - CompileTime
                  <=> queries[i].age <= now - CompileTime
             /\ queries'[i].age > now' - CompileTime - Refresh
                  <=> queries[i].age > now - CompileTime - Refresh
    BY <1>0, <1>6, <2>1, QueriesAge, Durations
  <2> QED BY <2>1, <2>2, <2>3 DEF PrefixSettles
<1>7. CASE Midnight
  <2>1. now' = 0 /\ refreshIn' = refreshIn - 1
    BY <1>7, QueriesAge DEF Midnight
  <2>2. ~(LastRefresh' >= QueryTime) /\ ~(LastRefresh' >= CompileTime)
    BY <1>0, <2>1, Durations DEF LastRefresh
  <2> QED BY <2>2 DEF PrefixSettles
<1> QED BY <1>2, <1>3, <1>4, <1>5, <1>6, <1>7 DEF Next
-----------------------------------------------------------------------------
(* At midnight of the first day nothing has come. *)
LEMMA CostInit == Init => CostInv
<1> SUFFICES ASSUME Init PROVE CostInv
  OBVIOUS
<1>1. day \in Day /\ now = 0 /\ now \in 0 .. day.length - 1
  BY DayFacts DEF Init
<1>2. year \in Nat
  <2>1. \E x \in TariffYears : \A y \in TariffYears : x <= y
    BY CalendarAssumption, LeastNat
  <2>2. Min(TariffYears) \in TariffYears /\ TariffYears \subseteq Nat
    BY <2>1, CalendarAssumption DEF Min
  <2> QED BY <2>2 DEF Init
<1>3. timer \in Nat /\ price = Price(day, now, year)
        /\ timer = NextBoundary(day, now) - now
  BY <1>1, NextBoundaryIs DEF Init
<1>4. /\ answers \in Seq(Answer) /\ DOMAIN answers = {}
      /\ queries \in Seq(Query) /\ DOMAIN queries = {}
  BY DEF Init
<1>5. bucket \in [Series -> Bucket] /\ \A s \in Series : bucket[s].age = SettleTime + 1
  BY Durations DEF Init, NoBucket, Bucket, DaysBack
<1>6. written \in Report /\ written.shown = FALSE /\ written.prefix.month # "this"
  BY DEF Init, NotServed, Report, NoPrefix, DaysBack
<1>7. CostTypeOK
  <2>1. price \in [rates : TariffYears, stale : BOOLEAN, high : BOOLEAN]
    BY <1>1, <1>2, <1>3, PriceTyped
  <2>2. 0 \in 0..SettleTime /\ Poll \in 0..Poll /\ 0 \in 0..Refresh
    BY Durations
  <2> QED
    BY <1>1, <1>2, <1>3, <1>4, <1>5, <1>6, <2>1, <2>2 DEF Init, CostTypeOK
<1>8. TimerIsNext /\ AnswersOfToday /\ BucketsOfToday /\ PollsFollowed
  BY <1>3, <1>4, <1>5
  DEF Init, TimerIsNext, AnswersOfToday, BucketsOfToday, PollsFollowed
<1>9. WrittenFollows /\ QueriesInOrder
  BY <1>4, <1>6 DEF Init, WrittenFollows, QueriesInOrder
<1>10. PrefixSettles
  <2>1. LastRefresh = 0 - Refresh
    BY Durations DEF Init, LastRefresh
  <2>2. ~(LastRefresh >= QueryTime) /\ ~(LastRefresh >= CompileTime)
    BY <2>1, Durations
  <2> QED BY <2>2 DEF PrefixSettles
<1> QED BY <1>7, <1>8, <1>9, <1>10 DEF CostInv

(* The inductive invariant holds in every reachable state. *)
THEOREM CostInvariance == Spec => []CostInv
<1>1. CostInv /\ [Next]_vars => CostInv'
  BY CostTypeStep, TimerStep, TodayStep, PollStep, WrittenStep, QueryStep,
     SettleStep
  DEF CostInv
<1> QED BY CostInit, <1>1, PTL DEF Spec

(* Every reachable state is well typed: there are rates for every year,    *)
(* and no counter leaves its range.                                        *)
THEOREM CostTypeCorrect == Spec => []CostTypeOK
<1>1. CostInv => CostTypeOK
  BY DEF CostInv
<1> QED BY <1>1, CostInvariance, PTL

(* The price shown is the price of the moment (sensor.py:746-766,          *)
(* tariff.py:148-192).                                                     *)
THEOREM PriceFollowsClock == Spec => []PriceIsCurrent
<1>1. CostInv => PriceIsCurrent
  BY DEF CostInv, TimerIsNext, PriceIsCurrent
<1> QED BY <1>1, CostInvariance, PTL

(* The bucket of a series cannot be older than a poll and its answer. *)
LEMMA SettledBuckets == CostInv => BucketsSettle
<1> SUFFICES ASSUME CostInv, up, served >= SettleTime, NEW s \in Series
             PROVE  /\ bucket[s].age <= SettleTime
                    /\ now >= SettleTime => bucket[s].of = 0
  BY DEF BucketsSettle
<1>1. bucket[s].age \in Nat /\ served \in Nat /\ pollIn \in 0..Poll /\ now \in Nat
  BY DayFacts DEF CostInv, CostTypeOK, Bucket
<1>2. BucketFollowed(s)
  BY DEF CostInv, PollsFollowed
<1>3. bucket[s].age <= SettleTime
  <2>1. CASE Pending(s) = {}
    BY <1>1, <1>2, <2>1, Durations DEF BucketFollowed
  <2>2. CASE Pending(s) # {}
    <3>1. PICK i \in Pending(s) : \/ bucket[s].age <= answers[i].age + Poll
                                 \/ answers[i].age >= served
      BY <1>2, <2>2 DEF BucketFollowed
    <3>2. answers[i].age \in 0..Latency
      BY AnswerFacts DEF Pending, CostInv
    <3> QED BY <1>1, <3>1, <3>2, Durations
  <2> QED BY <2>1, <2>2
<1>4. now >= SettleTime => bucket[s].of = 0
  <2>1. \/ bucket[s].of = 0 \/ bucket[s].age > now
        \/ bucket[s].age = SettleTime + 1
    BY DEF CostInv, BucketsOfToday
  <2> QED BY <1>1, <1>3, <2>1, Durations
<1> QED BY <1>3, <1>4

(* Today's buckets are fresh and the day's own (client.py:1062-1077,       *)
(* state.py:499-514).                                                      *)
THEOREM BucketsAreTodays == Spec => []BucketsSettle
BY SettledBuckets, CostInvariance, PTL

(* The month's total counts every day once, at the right rates, once poll  *)
(* and refresh have been round (sensor.py:885-891, 917-944).               *)
THEOREM MonthCountsEveryDay == Spec => []MonthTotalExact
<1>1. CostInv => MonthTotalExact
  <2> SUFFICES ASSUME CostInv, up, served >= SettleTime, ~failed,
                      now >= SettleTime,
                      now >= CompileTime + Refresh + QueryTime
               PROVE  written = Exact
    BY DEF MonthTotalExact
  <2>1. /\ now \in Nat /\ refreshIn \in 0..Refresh /\ day.first \in BOOLEAN
        /\ \A i \in DOMAIN queries : queries[i].age \in 0..QueryTime
    BY QueryFacts, DayFacts DEF CostInv, CostTypeOK
  <2>2. LastRefresh >= QueryTime /\ LastRefresh >= CompileTime
    BY <2>1, Durations DEF LastRefresh
  <2>3. prefix = ExactPrefix
    <3>1. \A i \in DOMAIN queries : ~(queries[i].age > now - CompileTime - Refresh)
      BY <2>1, Durations
    <3> QED BY <2>1, <2>2, <3>1 DEF CostInv, PrefixSettles
  <2>4. \A s \in Series : bucket[s].of = 0
    <3>1. BucketsSettle
      BY SettledBuckets
    <3> QED BY <3>1 DEF BucketsSettle
  <2>5. /\ written.shown = TRUE /\ written.reset = "this"
        /\ written.prefix = ExactPrefix /\ written.rates = RatesYear(year)
        /\ \A s \in Series : written.of[s] = 0
    BY <2>3, <2>4 DEF CostInv, WrittenFollows, ExactPrefix
  <2>6. written \in Report
    BY DEF CostInv, CostTypeOK
  <2>7. written.of = [s \in Series |-> 0]
    BY <2>5, <2>6 DEF Report
  <2> QED BY <2>5, <2>6, <2>7 DEF Exact, Report, ExactPrefix
<1> QED BY <1>1, CostInvariance, PTL
=============================================================================
