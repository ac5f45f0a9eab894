---------------------------- MODULE CostRollover ----------------------------
(***************************************************************************)
(* The sensors that depend on the calendar (tariff.py, sensor.py): the     *)
(* price with its boundary timer, and the month's cost, which adds today's *)
(* tariff buckets, polled over the connection, to a prefix read from Home  *)
(* Assistant's recorder.  A kWh is represented by the day it was drawn on, *)
(* counted back from today, so that a total is right when it holds the     *)
(* right days.  A day has DayUnits of time, one less or more when daylight *)
(* saving changes.                                                         *)
(***************************************************************************)
EXTENDS Integers, Sequences, FiniteSetsExt

CONSTANTS
  DayUnits,       \* length of a usual day
  HtStart, HtEnd, \* the high tariff's local times
  ShiftAt,        \* the local time skipped or repeated
  TariffYears,    \* the years TARIFFS has an entry for
  LastYear,       \* bound: the calendar does not go past this year
  Poll,           \* CHART_POLL_INTERVAL
  Latency,        \* the slowest answer to a poll
  Refresh,        \* _COST_PREFIX_REFRESH
  QueryTime,      \* the slowest recorder query
  CompileTime     \* how long after midnight the recorder has the whole day

ASSUME CalendarAssumption ==
  /\ {HtStart, HtEnd, ShiftAt, DayUnits} \subseteq Nat
  /\ ShiftAt < HtStart /\ HtStart < HtEnd /\ HtEnd < DayUnits
  /\ TariffYears # {} /\ TariffYears \subseteq Nat /\ LastYear \in Nat
  /\ \E y \in TariffYears : y <= LastYear

ASSUME CostAssumption ==
  /\ {Latency, QueryTime, CompileTime} \subseteq Nat
  /\ {Poll, Refresh} \subseteq Nat \ {0}
  /\ QueryTime <= Refresh

VARIABLES
  day,      \* today: whether a Sunday, whether the 1st, and its length
  year,     \* the calendar year
  now,      \* time since local midnight
  price,    \* what the price sensor last wrote
  timer,    \* time until its boundary refresh
  up,       \* the app socket is up and the poll task running
  served,   \* how long it has been, at most SettleTime
  pollIn,   \* time until the next range poll
  answers,  \* range answers on their way, oldest first
  bucket,   \* chart_today_buckets: the day and the age of each series
  refreshIn,\* time until the next prefix refresh
  queries,  \* recorder queries running, oldest first
  prefix,   \* _prefix_chf: which days it sums
  failed,   \* a recorder query failed since midnight
  written   \* the month sensor's last write

clock == <<day, year, now>>
tariff == <<price, timer>>
link == <<up, served, pollIn, answers, bucket>>
history == <<refreshIn, queries, prefix, failed>>
vars == <<clock, tariff, link, history, written>>
-----------------------------------------------------------------------------
(* The calendar.                                                           *)

(* Daylight saving changes on Sundays only. *)
Day == {d \in [sunday : BOOLEAN, first : BOOLEAN,
               length : {DayUnits - 1, DayUnits, DayUnits + 1}] :
          d.length # DayUnits => d.sunday}

(* The wall clock: a short day skips ShiftAt, a long one repeats it. *)
LocalTime(d, t) ==
  CASE d.length < DayUnits -> IF t < ShiftAt THEN t ELSE t + 1
    [] d.length = DayUnits -> t
    [] d.length > DayUnits -> IF t <= ShiftAt THEN t ELSE t - 1

(* When the wall clock first shows a local time: a datetime built from its *)
(* parts in the tariff's time zone.                                        *)
InstantOf(d, local) == Min({t \in 0 .. d.length - 1 : LocalTime(d, t) >= local})

(* is_high_tariff *)
HighTariff(d, t) ==
  ~d.sunday /\ HtStart <= LocalTime(d, t) /\ LocalTime(d, t) < HtEnd

(* Fault: a year without a table of its own has none. *)
RatesYear_NoFallback(y) == y

(* rates_for: this year's table, else the latest earlier one, else the     *)
(* first.                                                                  *)
RatesYear(y) ==
  LET earlier == {k \in TariffYears : k < y}
  IN  IF y \in TariffYears THEN y
      ELSE IF earlier # {} THEN Max(earlier) ELSE Min(TariffYears)

RatesStale(y) == y \notin TariffYears

(* The state and the attributes of the price sensor. *)
Price(d, t, y) ==
  [rates |-> RatesYear(y), stale |-> RatesStale(y), high |-> HighTariff(d, t)]

(* Fault: midnight is not a boundary. *)
NextBoundary_NoMidnight(d, t) ==
  LET later == {b \in {InstantOf(d, HtStart), InstantOf(d, HtEnd)} : b > t}
  IN  IF later = {} THEN d.length + HtStart ELSE Min(later)

(* next_tariff_boundary: the earliest of the window's edges and midnight   *)
(* strictly after now.  The coming midnight always is, so the later edges  *)
(* the code also lists are never the earliest.                             *)
NextBoundary(d, t) ==
  Min({b \in {InstantOf(d, HtStart), InstantOf(d, HtEnd), d.length} : b > t})
-----------------------------------------------------------------------------
Series == {"HT", "NT"}

SettleTime == Poll + Latency

Least(a, b) == IF a <= b THEN a ELSE b

(* Days are counted back from today: 0, 1, and 2 for any earlier one. *)
DaysBack == 0..2

(* The days a prefix sums: those of a month, before some midnight, the     *)
(* last of them perhaps not compiled yet.                                  *)
Prefix == [month : {"this", "earlier"}, through : DaysBack, partial : BOOLEAN]

NoPrefix == [month |-> "none", through |-> 2, partial |-> FALSE]

(* No range answer has come yet. *)
NoBucket == [of |-> 2, age |-> SettleTime + 1, known |-> FALSE]

Bucket == [of : DaysBack, age : 0 .. SettleTime + 1, known : BOOLEAN]

(* A range answer on its way. *)
Answer == [series : Series, of : DaysBack, age : 0..Latency]

(* A recorder query, with what its answer will sum. *)
Query == [through : DaysBack, month : {"this", "earlier"}, partial : BOOLEAN,
          age : 0..QueryTime]

(* What the month sensor can have written. *)
Report == [shown : BOOLEAN, reset : {"this", "earlier"},
           prefix : Prefix \union {NoPrefix}, of : [Series -> DaysBack],
           rates : TariffYears \union {0}]

NotServed == [shown |-> FALSE, reset |-> "earlier",
              prefix |-> NoPrefix, of |-> [s \in Series |-> 2], rates |-> 0]

CostTypeOK ==
  /\ day \in Day /\ year \in Nat /\ now \in 0 .. day.length - 1
  /\ price \in [rates : TariffYears, stale : BOOLEAN, high : BOOLEAN]
  /\ timer \in Nat
  /\ up \in BOOLEAN /\ served \in 0..SettleTime /\ pollIn \in 0..Poll
  /\ answers \in Seq(Answer)
  /\ bucket \in [Series -> Bucket]
  /\ refreshIn \in 0..Refresh
  /\ queries \in Seq(Query)
  /\ prefix \in Prefix \union {NoPrefix}
  /\ failed \in BOOLEAN
  /\ written \in Report

Init ==
  /\ day \in {d \in Day : d.length = DayUnits} /\ year = Min(TariffYears)
  /\ now = 0
  /\ price = Price(day, 0, year) /\ timer = NextBoundary(day, 0)
  /\ up = FALSE /\ served = 0 /\ pollIn = Poll /\ answers = << >>
  /\ bucket = [s \in Series |-> NoBucket]
  /\ refreshIn = 0 /\ queries = << >> /\ prefix = NoPrefix /\ failed = FALSE
  /\ written = NotServed
-----------------------------------------------------------------------------
(* The month sensor.                                                       *)

(* native_value: unknown until the prefix and a bucket are there; else the *)
(* prefix and today's buckets, at the rates of the moment.  What is not    *)
(* yet known counts as of an earlier day.                                  *)
View(p, b, up_) ==
  IF ~up_ THEN NotServed
  ELSE [shown |-> TRUE, reset |-> "this", prefix |-> p,
        of |-> [s \in Series |-> b[s].of], rates |-> RatesYear(year)]

(* _handle_frame_update: a write only when the report changed; last_reset  *)
(* is computed at the write but is not part of what is compared.           *)
Write(p, b, up_) ==
  LET view == View(p, b, up_)
  IN  written' = IF [view EXCEPT !.reset = written.reset] = written
                 THEN written ELSE view
-----------------------------------------------------------------------------
(* The connection and the range poll.                                      *)

(* _poll_chart_ranges asks for today; the server answers one frame per     *)
(* series.                                                                 *)
Asked == <<[series |-> "HT", of |-> 0, age |-> 0],
           [series |-> "NT", of |-> 0, age |-> 0]>>

(* A connection is up: its poll asks at once.  Its first frame makes the   *)
(* entity available again with the buckets of the snapshot.                *)
Connect ==
  /\ ~up
  /\ up' = TRUE /\ served' = 0 /\ pollIn' = Poll /\ answers' = Asked
  /\ Write(prefix, bucket, TRUE)
  /\ UNCHANGED <<clock, tariff, bucket, history>>

(* The connection is gone with what was on its way; the snapshot stays. *)
Disconnect ==
  /\ up
  /\ up' = FALSE /\ served' = 0 /\ answers' = << >> /\ pollIn' = Poll
  /\ Write(prefix, bucket, FALSE)
  /\ UNCHANGED <<clock, tariff, bucket, history>>

(* Fault: only the first poll of a connection asks for the ranges. *)
PollRanges_Once ==
  /\ up /\ pollIn = 0
  /\ pollIn' = Poll
  /\ UNCHANGED <<clock, tariff, up, served, answers, bucket, history, written>>

PollRanges ==
  /\ up /\ pollIn = 0
  /\ pollIn' = Poll /\ answers' = answers \o Asked
  /\ UNCHANGED <<clock, tariff, up, served, bucket, history, written>>

(* _apply_chart_range_stand: the frame does not say which range it is of,  *)
(* and is filed under today.                                               *)
AnswerArrives ==
  /\ answers # << >>
  /\ LET a == Head(answers) IN
       /\ bucket' = [bucket EXCEPT ![a.series] =
                       [of |-> a.of, age |-> a.age, known |-> TRUE]]
       /\ answers' = Tail(answers)
       /\ Write(prefix, bucket', up)
  /\ UNCHANGED <<clock, tariff, up, served, pollIn, history>>
-----------------------------------------------------------------------------
(* The prefix.                                                             *)

Adopt(p) ==
  /\ prefix' = p
  /\ Write(p, bucket, up)

(* Fault: the prefix is kept on the first day of a month. *)
RefreshPrefix_KeepsOnFirst ==
  /\ refreshIn = 0
  /\ refreshIn' = Refresh
  /\ queries' = IF day.first THEN queries
                ELSE Append(queries, [through |-> 0, month |-> "this",
                                      partial |-> now < CompileTime, age |-> 0])
  /\ UNCHANGED <<clock, tariff, link, failed, prefix, written>>

(* _async_refresh_prefix up to its await: the bounds are taken now.  On    *)
(* the first day of a month there is no history part and nothing to ask.   *)
RefreshPrefix ==
  /\ refreshIn = 0
  /\ refreshIn' = Refresh
  /\ IF day.first
     THEN /\ Adopt([month |-> "this", through |-> 0, partial |-> FALSE])
          /\ UNCHANGED queries
     ELSE /\ queries' = Append(queries,
               [through |-> 0, month |-> "this",
                partial |-> now < CompileTime, age |-> 0])
          /\ UNCHANGED <<prefix, written>>
  /\ UNCHANGED <<clock, tariff, link, failed>>

(* The query returns; one that was asked too soon after midnight may lack  *)
(* the end of the day.                                                     *)
QueryReturns ==
  /\ queries # << >>
  /\ LET q == Head(queries) IN
       \E partial \in {FALSE, q.partial} :
         Adopt([month |-> q.month, through |-> q.through, partial |-> partial])
  /\ queries' = Tail(queries)
  /\ UNCHANGED <<clock, tariff, link, refreshIn, failed>>

(* The query raises: the previous value is kept until the next refresh. *)
QueryFails ==
  /\ queries # << >>
  /\ queries' = Tail(queries) /\ failed' = TRUE
  /\ UNCHANGED <<clock, tariff, link, refreshIn, prefix, written>>
-----------------------------------------------------------------------------
(* The price sensor's _on_tariff_boundary, on time.  A write of a frame's  *)
(* fan-out in between would find nothing changed.                          *)
TariffBoundary ==
  /\ timer = 0
  /\ price' = Price(day, now, year)
  /\ timer' = NextBoundary(day, now) - now
  /\ UNCHANGED <<clock, link, history, written>>

(* Nothing is due: no timer, no poll, no refresh, no answer that may not   *)
(* take longer.                                                            *)
MayPass ==
  /\ timer > 0 /\ refreshIn > 0
  /\ up => pollIn > 0
  /\ \A i \in DOMAIN answers : answers[i].age < Latency
  /\ \A i \in DOMAIN queries : queries[i].age < QueryTime

Elapse ==
  /\ timer' = timer - 1 /\ refreshIn' = refreshIn - 1
  /\ pollIn' = IF up THEN pollIn - 1 ELSE pollIn
  /\ served' = IF up THEN Least(served + 1, SettleTime) ELSE served
  /\ UNCHANGED <<price, up>>

Older(n) == Least(n + 1, 2)

(* Time passes within a day. *)
Tick ==
  /\ MayPass /\ now + 1 < day.length
  /\ now' = now + 1
  /\ Elapse
  /\ answers' = [i \in DOMAIN answers |-> [answers[i] EXCEPT !.age = @ + 1]]
  /\ queries' = [i \in DOMAIN queries |-> [queries[i] EXCEPT !.age = @ + 1]]
  /\ bucket' = [s \in Series |-> [bucket[s] EXCEPT
                  !.age = Least(@ + 1, SettleTime + 1)]]
  /\ UNCHANGED <<day, year, prefix, failed, written>>

(* What a tag of a month is called once a new one may have begun. *)
MonthAfter(m, newMonth) == IF newMonth /\ m = "this" THEN "earlier" ELSE m

PrefixAfter(p, newMonth) ==
  [p EXCEPT !.through = Older(@), !.month = MonthAfter(@, newMonth)]

(* Midnight: any day may follow that can, and every tag is a day older.    *)
(* Two Sundays or two firsts do not follow each other, and a year begins   *)
(* on a first.                                                             *)
Midnight ==
  /\ MayPass /\ now + 1 = day.length
  /\ now' = 0
  /\ day' \in {d \in Day : (day.sunday => ~d.sunday) /\ (day.first => ~d.first)}
  /\ year' \in IF day'.first /\ year < LastYear THEN {year, year + 1} ELSE {year}
  /\ Elapse
  /\ answers' = [i \in DOMAIN answers |->
                   [answers[i] EXCEPT !.age = @ + 1, !.of = Older(@)]]
  /\ queries' = [i \in DOMAIN queries |->
                   [queries[i] EXCEPT !.age = @ + 1, !.through = Older(@),
                                      !.month = MonthAfter(@, day'.first)]]
  /\ bucket' = [s \in Series |-> [bucket[s] EXCEPT
                  !.age = Least(@ + 1, SettleTime + 1), !.of = Older(@)]]
  /\ prefix' = PrefixAfter(prefix, day'.first)
  /\ failed' = FALSE
  /\ written' = [written EXCEPT
                   !.reset = MonthAfter(@, day'.first),
                   !.prefix = PrefixAfter(@, day'.first),
                   !.of = [s \in Series |-> Older(@[s])]]

Next ==
  \/ Connect \/ Disconnect \/ PollRanges \/ AnswerArrives
  \/ RefreshPrefix \/ QueryReturns \/ QueryFails
  \/ TariffBoundary \/ Tick \/ Midnight

Spec == Init /\ [][Next]_vars
-----------------------------------------------------------------------------
(* The price in Home Assistant is the price of the moment, with no frame   *)
(* needed: through Sundays, days of 23 and 25 hours, New Year's rates and  *)
(* years without a table of their own (sensor.py:746-766, tariff.py:148-   *)
(* 192).  At a boundary it is while its timer is due.                      *)
PriceIsCurrent == timer > 0 => price = Price(day, now, year)

(* On a connection that has been up for a poll and its answer, both series *)
(* are no older than that, and once that much of a day has passed they are *)
(* the day's: an answer that crossed midnight, or is of a day before an    *)
(* outage, does not stay filed under today (client.py:1062-1077,           *)
(* state.py:499-514).                                                      *)
BucketsSettle ==
  up /\ served >= SettleTime =>
    \A s \in Series : /\ bucket[s].age <= SettleTime
                      /\ now >= SettleTime => bucket[s].of = 0

Exact == [shown |-> TRUE, reset |-> "this",
          prefix |-> [month |-> "this", through |-> 0, partial |-> FALSE],
          of |-> [s \in Series |-> 0], rates |-> RatesYear(year)]

(* The month's cost counts every day of the month once, at the right       *)
(* year's rates, as soon as the poll and the prefix refresh have both been *)
(* round since midnight (sensor.py:885-891, 917-944): the day that ended   *)
(* is neither lost between live part and history nor in both, and a month  *)
(* that began does not keep the last one's days.                           *)
MonthTotalExact ==
  /\ up /\ served >= SettleTime /\ ~failed
  /\ now >= SettleTime /\ now >= CompileTime + Refresh + QueryTime
  => written = Exact

(* "The month-to-date total resets on the 1st at local midnight"           *)
(* (sensor.py:871-874): what is written with this month's last_reset holds *)
(* no day of an earlier month.                                             *)
MonthResets ==
  written.shown /\ written.reset = "this" => written.prefix.month # "earlier"
=============================================================================
