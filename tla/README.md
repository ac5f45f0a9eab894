# A TLA+ model of the smart-place Home Assistant integration

The repository is a Home Assistant integration for a flat's "Smart Place"
installation: a client library that keeps one websocket open to a vendor server
(`custom_components/smart_place/smart_place_client/`) and the integration that
turns what it hears into entities (`custom_components/smart_place/`).  This
directory models the parts whose difficulty is in the *order* things happen in.
Paths below are relative to `src/custom_components/smart_place/`; `client.py`,
`protocol.py`, `state.py`, `messages.py`, `commands.py` and `tariff.py` are in
`smart_place_client/` there.

- [Inventory](#inventory)
- [How it interacts](#how-it-interacts)
- [Modules](#modules)
- [Runs](#runs)
- [Fairness](#fairness)
- [Proofs](#proofs)
- [What disagrees with the documentation](#what-disagrees-with-the-documentation)
- [Not modelled](#not-modelled)
- [Plan](#plan)

## Inventory

| Component | State | Operations | What makes it correct |
|---|---|---|---|
| Session phase machine, `protocol.py` `SessionState` | phase, `main_menu_loaded`, route, config, chart ids | `on_discovery_frame`, `on_app_open`, `on_app_frame`, `close` | a usable phase rests on the connection's bootstrap marker |
| Live client, `client.py` `SmartPlaceClient` | `_ws`, `_closing`, `_bootstrap_done`, the heartbeat and chart-poll tasks, the run task's control point | `run`, `_run_live_once`, the dispatch loop, `issue`/`send`, `aclose`, cancellation | one connection at a time, fully released before the next; a close ends it; a lost connection is redialled; every chart is asked for |
| Heartbeat, `client.py` `_heartbeat` | `_last_pong`, the task's sleep | Ping, PongOK, the deadline test, close | a deaf server is noticed in bounded time, a punctual one never cut off |
| Reconnect pace, `client.py` `ExponentialBackoff`, `_postrun_delay` | the next delay, `run_start` | next, reset, the handshake steps' deadlines | attempts are spaced however the server fails; an old outage does not slow the next one; the client never goes quiet |
| Camera route and cameras, `client.py` 603-728, `camera.py` | `_camera_route`, its lock, each request; each camera's link and name | `camera_base_url`, `refresh_camera_route`, the two-attempt loop | discoveries never overlap; a retry does not use the route that failed |
| Entry and push entities, `__init__.py`, `entity.py` | snapshot, `connection_healthy`, listeners, each entity's signature | `_on_frame`, fan-out, `trigger_disconnect_notify`, `_handle_frame_update`, the setup window | what is served is shown; a gap shows as unavailable; what was heard in time has its entity |
| Wire messages, `messages.py`, parsers of `protocol.py` | none | `parse_frame`, the registry | each shape reaches the fold under the name, index and payload it expects |
| Commands, `commands.py`, `encode_frame` | none | templates, framing | static |
| Snapshot, `state.py` | the dataclass the entities read | `apply` of each message | order decides nothing; the change flag tells the truth; a re-broadcast is quiet |
| Tariff clock, `tariff.py` | none | tariff at a time, the year's table, next boundary, start of day and month | right on the days of 23 and 25 hours and over New Year |
| Sensors, `sensor.py` | units and rooms read once, the month's prefix, the price's timer | enumeration, states, prefix refresh, boundary timer | each day counts once in the month; the price is the moment's |
| Binary sensors, buttons | what is read once | enumeration, states, press | a press that is not sent is not logged as issued |
| Config flow, `config_flow.py`, `connect_and_bootstrap` | the validation in progress, a client of its own | submit, the race of two tasks, the form's deadline | one verdict that fits, nothing left talking to the server |
| Replay, captures, command line tools | files | play a fixture, redact | developer tools |

## How it interacts

`run()` is a task: dial the discovery server, read one routing frame, close,
fetch the routed page, open the application socket, send four bootstrap reads,
spawn the heartbeat and the chart poll, and read frames until the stream ends.
A `finally` block cancels both tasks, closes the socket and calls
`on_disconnect`; then the loop sleeps and starts again.  The discovery socket
and the app socket share the attribute `self._ws`; the heartbeat, the poll,
callers' commands and `aclose()` all act on whatever it refers to.  The
`SessionState` outlives a connection.

Each frame is handed to the integration's `_on_frame`, which applies it to the
snapshot and calls every entity's listener when the snapshot or `is_healthy`
changed.  An entity writes only when its signature changed.  Some entities also
write on timers of their own, at any moment of the client's life.  Which
entities exist is decided once: setup waits for the bootstrap marker and an
observation window, or gives up waiting, and enumerates them from whatever the
snapshot holds by then.  The cost sensors join three sources that turn over at
midnight separately: the poll's buckets of "today", a prefix read from Home
Assistant's recorder, and the clock.  The config flow runs a client of its own,
whose one connection attempt it races against the bootstrap event.  Camera
requests come from Home Assistant's HTTP side and share one route, which every
(re)connect also sets.

Hard here: asyncio lets other tasks run at every await that really suspends, so
`aclose()`, a cancellation, a press or an entity's timer can fall between any
two steps of a handshake or teardown; transports die unnoticed; the server may
go silent or deaf, or stall in the middle of a handshake; state of one connection
(phase, marker, remembered health, signatures) is still there in the next;
bootstrap frames come in any order and some after the entities were enumerated;
answers asked for on one day arrive on the next.  `PROJECT.json` lists the hazards at
their lines, with the properties that guard them.

## Modules

| Module | Models | Correspondence |
|---|---|---|
| `SessionState` | `SessionState` | a session is `[phase, menuLoaded]`; each method is an operator on it |
| `ConnectionLifecycle` | what `run()` and `aclose()` promise | abstract specification: a link that is idle, dialing, serving, draining or ended, and whether anything is held |
| `SmartPlaceClient` | the client, over `SessionState` | `pc` is the await the run task is suspended in, `ws`/`sock` are what `self._ws` refers to and its state, `heartbeat` and `poll` the two tasks, `aclose`, `cancelled`, `unwinding` the two ways to stop; one action is the code between two suspensions |
| `Integration` | `_on_frame`, the fan-out, the disconnect notification, push entities | extends `SmartPlaceClient`; a dispatched frame and the end of the app socket move both sides, every other client step leaves the integration alone |
| `Heartbeat` | `_heartbeat`, the PongOK branch | discrete time kept as ages: since the last pong, since the task went to sleep, of each unanswered Ping |
| `CameraRoute` | the camera route and the requests sharing it | routes are numbers in the order the server mints them; the lock is its queue of waiters |
| `Reconnect` | the outer loop's pace | a stage per deadline of the handshake, the session and the sleep; ages in place of `run_start`; the schedule's `_next` |
| `Validation` | `config_flow.py` and `connect_and_bootstrap` | extends `SmartPlaceClient`, whose run task is the runner; `flow` is the await the flow is suspended in, `waiter` the second task, `cause` how the runner ended |
| `Messages` | the registry, its patterns and parsers | each group of entries is a sequence, in the file's order; a text is the literal it begins with, the number after it, the separator and the payload's meaning |
| `InstallationState` | `SmartPlaceState.apply` | one operator per method, returning the snapshot and the change flag |
| `Entities` | the four platforms | `Enumerate` is their `async_setup_entry`, an entity keeps what its constructor read, `Signature` is what it would write |
| `Snapshot` | wire to entities | frames arrive, are parsed, folded and fanned out when something changed; setup ends at any point; connections are lost |
| `CostRollover` | `tariff.py`, the price sensor, the month sensor, the range poll | a kWh is the day it was drawn on, counted back from today; a total is right when it holds the right days |
| `*_proofs` | theorems about the module of that name | |
| `MCIntegration` | the symmetry set of that instance | |
| `MCSnapshot` | the catalogue of texts of that instance, and that it satisfies the hypotheses of the proofs | |

Points of the translation a reader should know:

- `sock` tells "open" from "lost" (the transport is gone, aiohttp has not
  noticed) and "closing" (`close()` called under a reader; it turns "closed"
  once the reader is woken).  aiohttp's side of a close is external: the model
  takes the most a reader may still be handed, one frame that was on its way.
- A send can raise only on a socket that is "lost" or "closing", and may then
  raise or not.
- `DispatchFrame` is a whole turn of the loop: phase, bootstrap event, chart
  chase, handlers, closing test.  When the chase's send raises, the handlers do
  not see the frame (`ChaseFails`).
- `finally` blocks run in full in the model except where a cancellation really
  cuts them short (`CancelCloseApp`).  `CancelSwallowed` is the await under
  `contextlib.suppress(asyncio.CancelledError)`.
- In `Integration` the snapshot is one value, what the entities report, and a
  disconnect and its hook are two steps of the client; in `Snapshot` the
  snapshot is the code's and a disconnect and its hook are one step.
- `Reconnect` leaves out sockets and tasks, `SmartPlaceClient` the time.
- `Validation` keeps asyncio's order where the outcome rests on it: the waiter,
  made ready by `set()`, runs before a teardown that has to await two cancelled
  tasks (`WaiterFirst`).
- `Messages` compares whole literals where the code has anchored patterns:
  every pattern continues with digits or a separator after its literal, so two
  patterns can match one text only if their literals are equal.  (That is also
  why the comment that `InfoboardContent` must precede `InfoboardSlot` describes
  no real constraint: `INFOBOARD<n>INHALT:` and `INFOBOARD<n>:` are disjoint.)
- Chart titles are sequences of words.  Their suffix, prefix and dictionary are
  modelled on words, which is where the titles that occur divide.
- `CostRollover` takes the recorder as external: a query returns the whole days
  of the month before the midnight it was asked after, except that one asked
  less than `CompileTime` after midnight may lack the end of the last day; it
  may fail.  `QueryTime <= Refresh` keeps answers of queries in order.
- Definitions whose comment starts with "Fault:" are not part of the system.
  Each is the neighbouring definition with a plausible bug in it; put in its
  place it makes the run named in `PROJECT.json` fail, which is how we know the
  property can fail.

Bounds inside the modules: `MaxLate` (frames counted after a close, 2: one more
than `OneFrameAfterClose` allows), `MaxRoutes` (routes the server mints),
`MaxFrames` (frames parsed in `Snapshot`, the menu marker not counted) and
`LastYear` (the last year of the calendar).  `Reconnect` stops counting an age
one past the bound it is compared with, `CostRollover` counts days back to the
day before yesterday.  Connections, attempts, sessions, submitted forms and days
are unbounded.

## Runs

`tlc -config X.cfg M`, from a few seconds to a minute and a half each; M is the
module of the component, `MCIntegration` for `integration` and `gap_numbers`,
`MCSnapshot` for `snapshot`.

| Run | Asks | Instance |
|---|---|---|
| `client` | Are tasks and sockets bounded by the connection that made them, whatever fails, is closed or is cancelled? Does the client implement `ConnectionLifecycle`? Does `aclose()` end `run()`, is a lost connection redialled, is each announced chart asked for? | two charts, `FairSpec` |
| `integration` | Do entities show what is served and nothing stale, though fan-outs are skipped and listeners raise? | one plain entity, one with its own timer and an awaiting `async_added_to_hass`; two values, symmetric |
| `heartbeat` | Is deafness noticed in bounded time, and only deafness? | interval 6, timeout 3, lateness 1, latency 2 |
| `camera` | Are discoveries serialised, waiters served by a renewed route, retries fresh, and does each request end? | three requests, three routes |
| `reconnect` | Are attempts spaced, delays no longer than the outage, and is the client never quiet for long, wherever an attempt stalls? | delays 1 to 16, 30 % jitter, deadlines of 8, threshold 16 |
| `validation` | Does success win the race, is only a bootstrapped token accepted, is nothing left running, does the error fit and every form answer? | one chart |
| `snapshot` | From wire to entity: is everything shown that was sent, quiet when nothing changed, and built whatever the order of the bootstrap? | any three frames out of the catalogue and the marker, in every order |
| `cost` | Is the price the moment's, and the month's cost exact once poll and refresh have been round? | days of 7, 8 and 9 units, tables for two years, three calendar years |
| the four violation runs | see [below](#what-disagrees-with-the-documentation) | |

Why these are enough.  The charts only meet in set unions, so two distinguish
"one known, one announced later"; liveness is stated per chart.  Two entities
cover one that raises while the other writes, and both kinds of attach; an
entity's state depends on no other entity.  Two values distinguish changed from
unchanged.  The heartbeat's 6/3 keeps the proportion of the defaults 60 s/30 s,
with a lateness and a latency that just satisfy `Latency + Jitter <= Timeout`,
the boundary of `NoFalseAlarm`; the theorems cover all other values.  Three
camera requests are a holder, its successor and one more behind it; three
routes are the failed one, its renewal and a reconnect in between.  When
`MaxRoutes` are minted discoveries fail, so requests still end.

`reconnect` keeps the code's proportions of initial delay 1 and base 2, a cap
equal to the threshold and deadlines of half of it (1, 2, 60 s, 60 s, 30 s
become 1, 2, 16, 16, 8): the schedule goes through all its doublings, a stalled
handshake of two steps reaches the threshold and one of three passes it, which
is the case where an attempt that never got to a session restarts the schedule.

`validation` has one chart because charts change nothing the flow sees.  A
second form after a refused token, with a new client, is part of every run.

`snapshot`'s catalogue has one text or two of each family the fold reads, with
the values it distinguishes (a number and none, off and on, ringing and not,
read and unread, a title with and without site code, with and without unit), a
chart known to both sources of units, with different ones, and a sum over it,
the full and the truncated camera reply, a shape that is parsed and not folded,
one the registry does not know and two payloads that do not parse.  Three
frames are the two whose order is exchanged and one before them, or a value, its
replacement and a frame of another source; properties of pairs
(`FramesCommute`) and of a repetition (`QuietRebroadcast`) quantify over further
texts at every state.

`cost`'s day of 8 has the low tariff, the high tariff and the low tariff again,
and a skipped or repeated hour before the first edge, as the real one.  A poll,
an answer, a refresh, a query and the recorder's lateness together fit into a
day with room to spare; real values fit many times over.

`integration` has `Charts = {}`: charts touch neither side's health, phase or
fan-out, and the chart frames then only repeat "other".

`CHECK_DEADLOCK FALSE` is set where the client is present: `run()` ends after a
close or a cancellation, and a finished client with its callers gone, or a
config flow with its entry made, is a state with no step.  The others never stop
and are checked for deadlock.

## Fairness

`RunFairness` is what the code and its deadlines guarantee: a backoff ends, a
handshake step answers or meets its 30 s deadline, a task that can run runs, and
a socket that is not open any more ends its stream (the closer wakes the reader,
and the transport reports its loss in the end; the heartbeat closes a socket
that does not).  The server's staying up, presses, `aclose()` and cancellation
are never assumed.  `ServerFairness` adds the server's side of the protocol: one
that was told `SocketConnected` keeps broadcasting, so a closing client gets one
more frame.  `StopEnds` needs it and does not hold without (see
[below](#what-disagrees-with-the-documentation)).

`Validation` assumes nothing of the server: the handshake's steps meet their
deadlines, tasks that can run run, and the form's deadline fires while the race
is undecided.  That is enough for `ValidationAnswers`, whatever the server does.

`Reconnect`, `CostRollover` and `Snapshot` state safety only; a deadline there
is a bound on how far time may pass, not a fairness assumption.

In `Heartbeat` time passes and the task acts when its sleep is over.  In
`CameraRoute` every await of a request has a deadline, or is the lock, which
asyncio hands to its first waiter.

## Proofs

Proved with TLAPS for every value of the constants, under the assumptions TLC
evaluates in the runs, each in the module that declares the constants:

| Assumption | Says |
|---|---|
| `TimesAssumption` | the heartbeat's interval is positive, its times natural |
| `RoutesAssumption`, `SnapshotAssumption` | the bound on routes, on frames, is natural |
| `EntitiesAssumption` | timers belong to entities; "unavailable" and "unset" are not values |
| `PaceAssumption` | delays and base are positive, the initial delay is within the cap |
| `CalendarAssumption` | the tariff's window and the hour a clock change shifts lie within the day, in their order; there is a rate table no later than the last year |
| `CostAssumption` | poll and refresh are positive; a recorder query takes no longer than a refresh interval |
| `TextsAssumption` | what the abstraction makes of two families of texts: a title is words, a banner follows a colon and is a notice or its removal; the digits after `CHART` are the beginning of its payload, and so the number of its chart |

Nothing is assumed of `Charts`, `Requests` or `Entities`, finiteness included,
and nothing else of `Texts`.  Four theorems have a hypothesis of their own, in
their statement: a base of the schedule of at most 2 (`DelayBounded`), of at least
2 with a cap that fills the window (`AttemptsSpaced`), that definitions have a
title (`OrderDecidesNothing`), that units are ones the sensors know
(`HeardGetsEntities`).  The last two are evaluated on the catalogue
(`CatalogueAssumption`).

**`SmartPlaceClient_proofs`**: `TypeCorrect`, `TasksBounded`, `NoOrphans`,
`CloseStopsFrames`, `MarkerFirst`, and `Refinement` (the client implements
`ConnectionLifecycle`).  The inductive invariant has four parts.  `Ownership`
says for each control point which socket `self._ws` refers to, whether it may be
unclosed, and which tasks exist: a task is only ever spawned by the step into
`dispatch` and gone before `closeApp`, so this carries `TasksOnlyOnAppSocket`,
`NoOrphanSocket` and the `held` of the refinement.  `LastFrame` says that a
frame handled while closing has taken the loop out of `dispatch`, and that
nothing leads back; without it `OneFrameAfterClose` is not inductive, since a
closing client in `dispatch` with `late = 1` would count to 2.
`PhaseRestsOnMarker` and the type invariant are the others.

**`Integration_proofs`**: `HATypeCorrect`, `HealthBounded`, `GapUnavailable`, `ServedShown`.
Every step of the composition is a step of the client or leaves it alone, so the
client's invariant is carried over by its own lemma.  On top of it
`SignatureShown` (an entity that wrote through its signature shows it),
`ServedIsTold` (while the health last fanned out is good, the signature of an
entity whose last notification did not raise is the value), `HealthInScope` and
`GapIsTold` (after a disconnect was fanned out, what the fan-out wrote is
"unavailable") say what a fan-out that is *skipped* relies on: this is the part
`ServedIsShown` alone does not say.

**`Heartbeat_proofs`**: `Detected` and `NotCutOff`.  A round that let the
connection live saw an age within the allowance and slept since, so the pong age
is at most the allowance plus the time slept (`Detection`).  While the server
hears, its oldest unanswered Ping is no older than the latency and was sent at
most one sleep after the last sign of life (`Answers`, which needs that Pings are
answered in order); with the latency and the lateness within the timeout, the
round's test then cannot succeed.

**`CameraRoute_proofs`**: `Serialised`, `WaitersReuse` and `RetriesAreFresh`.
`OneDiscovery` is inductive; `NoPileOn` needs that routes are handed out in
increasing order (`HandedOut`, `FoundIsNew`) and that a waiter that saw the route
move holds a stale route that differs from the current one (`RenewedIsNew`), so
that the check under the lock succeeds.  `RetryIsFresh` rests on `Freshness`:
the route a discovery was given has not been used by anyone (`FoundIsUnused`),
and while a request waits the current route is the one it read on entry or one
that did not fail it (`RenewedIsSound`).  "Newer than the one that failed" would
be the obvious invariant and is false: an adoption can put back a route older
than the one a reconnect stored meanwhile.

**`Reconnect_proofs`**: `TypeCorrect`, `DelayBounded`, `SilenceBounded` and
`AttemptsSpaced`.
`DelayWithinOutage` is not inductive; what is, is `NextWithinOutage`: the
schedule has not outgrown the outage and what is left of the sleep by more than
the initial delay.  It holds of a base of at most 2, of which the delays before
one add up to it, and `DelayBounded` has that as its hypothesis; the code's base
is 2.0.  `SilenceByStage` keeps the account of how long the client has been
without a session, by the deadlines behind it.

`AttemptsSpaced` bounds the load on the server: no window as long as the
stability threshold sees more attempts than the schedule allows from its start.
It assumes a base of at least 2 and a cap no shorter than the threshold; the
code's are 2.0, 60 s and 60 s, which also satisfy `DelayBounded`.  The property
only counts a window's attempts.  What is inductive says where they lie: counted
from the youngest, an attempt with `k` later ones is at least `k` doubling delays
back (`DialsSpread`), and the next delay is at the cap or has doubled with every
attempt still in the window (`ScheduleGrown`), since an attempt that restarts the
schedule has outlasted the window and left no other in it.  A dial then adds its
age 0 below delays that have already been waited.  The provers know of `2 ^ k`
only that it is a number; that it doubles is proved (`PowerDoubles`) by counting
subsets, and everything else counts sets of attempts.

**`Validation_proofs`**: `FlowTypeCorrect`, `SuccessWins`,
`EntriesAreBootstrapped`, `NothingLeft` and `ErrorsNameCause`.  A step of the
flow's client is a step of `SmartPlaceClient`, whose invariant is carried over,
and a submitted form begins with a client that satisfies it.  `FlowInv` adds that
a client of the flow makes one attempt (`OneAttempt`), so that the bootstrap it
remembers is of the connection it has; where a client may be closed
(`FlowShape`); what each await of the race has established about the bootstrap
(`RaceKnows`); and that an undisturbed runner past its dispatch loop has a cause
(`CauseKnown`), which is what the error is chosen by.

**`CostRollover_proofs`**: `CostTypeCorrect`, `PriceFollowsClock`,
`BucketsAreTodays` and `MonthCountsEveryDay`.  `TimerIsNext` with the lemma that
the tariff does not change strictly between two boundaries, on a day of any
length, gives the price.  For the buckets, each pending answer is followed by one
at most a poll younger, or is of the latest poll (`PollsFollowed`), and an answer
asked for today is of today (`AnswersOfToday`).  For the total, queries return in
the order they were asked (`QueriesInOrder`), and once a refresh has come late
enough in the day the exact prefix is there or the query that brings it is on
its way (`PrefixSettles`); `WrittenFollows` ties what is shown to both.  The
latest boundary before and the earliest after a moment come from the
well-ordering of the naturals in the library.

**`Snapshot_proofs`**: `NothingHidden`, `RebroadcastIsQuiet`, `BannerSurfaces`,
`OrderDecidesNothing`, `HeardStays`, `BroadcastsReachEntities` and
`HeardGetsEntities`.
One lemma per handler of `apply` ("...Settles") says that the fold keeps the
snapshot's shape, reports "unchanged" only of a snapshot it left alone, and
reports it when it is repeated.  One needs an argument of its own: a
definition reports a change by comparing four fields with those of the chart it
found or an empty one, so it could add an empty chart and report nothing; it does
not, because its label keeps a word of the title.  Lemmas about
the registry show that a text which parses is parsed by one entry and that the
banner's is that of its frame.  `SnapshotInv` is the shape, that the health
fanned out is the health, that what is shown is current, and that the banner kept
is the one heard last and has its two sensors.  The maps of the snapshot are
written with `Put` and `Update`, because the provers do not know TLC's `:>` and
`@@`.

The other four rest on a second reading of the fold.  Each frame name that is
folded has one definition in the registry, and so one literal before the number
(`HeadOf`); `Carries` says what a parsed frame keeps of its text.  `FoldsTo` then
gives the snapshot after a fold attribute by attribute and key by key, each from
the frame and from that attribute's old value alone.

`OrderDecidesNothing` follows: frames of two sources differ in name or number
(`Apart`), so what both write are different keys of a map, or different fields
of a chart (`FoldsCommute`).  The session's units do depend on the order, but
enumeration reads them after the chart's own, which the definition has set by
then (`UnitsCommute`).  It needs `Titled`: a definition without a title is not
folded (state.py:526-528), but the session takes its unit all the same
(client.py:977-981), and then the order against a status row decides.

`HeardKept` is the invariant under the two promises to Home Assistant: of every
source, what its last text said is still in the snapshot (`Reading`,
`Charting`) or in the session's units (`Listing`).  It is inductive because a
text of another source writes elsewhere (`Elsewhere`).  That an entity shows it
(`BroadcastsReachEntities`) is this and `NothingHidden`, without hypothesis.
That there is an entity (`HeardGetsEntities`) is this at the moment setup ends;
a chart with a unit that the sensors' table does not know gets none
(sensor.py:214-217), which is why it assumes `UnitsKnown`, and carries it
through the session's units by `UnitsSound`.

Every safety invariant the passing runs check is proved.  What only TLC shows,
and why:

- All liveness, which is out of the prover's reach under fairness: `StopEnds`,
  `LostConnectionRedials`, `ChartsAreAsked`, `DeafIsClosed`, `RequestsEnd`,
  `ValidationAnswers`.
- The violation runs, which are counterexamples.

## What disagrees with the documentation

Each of these has a run that TLC ends with a counterexample.

- `press_on_discovery`: during a reconnect's discovery `self._ws` is the
  discovery socket, so a door press is sent to the discovery server and logged
  as issued (client.py:797, 544; the comment at 520-521 says otherwise).
- `cancel_swallowed`: a cancellation of the run task that is delivered while it
  awaits a child it cancelled is suppressed with the child's, and the client
  redials (client.py:914-919).
- `gap_numbers`: `is_healthy` is true while a later attempt's discovery socket is
  open, on the phase of the last connection; an entity that writes then shows
  the old value as available for the rest of the gap (`__init__.py`:112).
- `month_reset`: on the 1st, until the next refresh of its prefix (up to 15
  minutes), a write of the month's cost reports the new month's `last_reset`
  and all of last month's cost (sensor.py:872-874, 917-944).

These were found while modelling and are described by what does hold:

- `main_menu_loaded` is never reset, so from the second connection on the first
  frame of any kind bootstraps the session (protocol.py:522-532).  A usable phase
  does rest on a marker of some connection (`PhaseRestsOnMarker`).
- An `aclose()` that falls between the two sockets of a handshake finds nothing
  to close; if the server then says nothing, `run()` waits for ever (the
  heartbeat returns without closing when `_closing` is set).  With one more frame
  it ends (`StopEnds`); in Home Assistant the cancellation of the entry's
  background task ends it.
- The heartbeat's deadline is tested once per interval and against the last
  PongOK, so a Ping may stay unanswered for longer than `ping_timeout`
  (client.py:345-347); `DetectionBound` is what holds.
- Of several cameras that failed on one route, one that asks after another has
  renewed it discovers again, since the route it takes for stale is read on
  entry, not the one its fetch used (client.py:643, 637-639).  Those that wait
  for the lock meanwhile do not (`NoPileOn`), and a retry never uses the route
  that failed (`RetryIsFresh`).
- An `aclose()` during discovery closes the session, and a routing frame that
  was on its way opens it again (protocol.py:504 sets the phase whatever it
  was).  CLOSED is therefore not terminal.  What follows from it is bounded by
  `OneFrameAfterClose`, `NoOrphanSocket` and the lifecycle.
- The month sensor subscribes, with its report at that moment as its signature,
  then awaits the recorder; Home Assistant's first write follows and leaves the
  signature alone (sensor.py:902-908, entity.py:57-70).  If the report changed
  in between without a fan-out, the entity shows something its signature does not
  stand for, and a later fan-out of the old signature is skipped: it stays
  unavailable while served, or keeps a value in a gap, until its next own write.
  `Integration` marks such a write "unsigned"; `ServedIsShown` and
  `NoStaleNumbers` exempt it until the entity writes again.
- A handshake may stall in its steps for up to 90 s, longer than the 60 s that
  mark a stable run, and then restarts the schedule although no session was up
  (client.py:497).  Attempts stay spaced all the same (`AttemptsAreSpaced`).
- Between midnight and the first poll and refresh after it, the month's cost may
  lack the day that ended or count it twice, one tariff's bucket may be of the
  new day and the other's of the old, and on 1 January yesterday's buckets are
  priced at the new year's rates.  It is exact afterwards (`MonthTotalExact`).
  What a day consumed after its last poll is in no bucket; the recorder has it
  only if the bucket's sensor was written with it, and a day that ended during
  an outage stays as the last poll before it left it.
- A refreshed prefix that leaves the reported state and attributes as they were
  is not written, so `last_reset` in Home Assistant may then be last month's.
- When the form's deadline ends `connect_and_bootstrap` in its wait, the task
  that waits for the bootstrap event is not cancelled (client.py:768-772 looks
  at the runner only).  It holds no resource; `VerdictLeavesNothing` is about the
  runner, its children, the socket and the session.
- A chart's own unit is that of its first definition, the session's the last
  one heard from either source (state.py:538, client.py:974-981).  Enumeration
  prefers the chart's own, so the order in which the two sources arrive decides
  nothing (`FramesCommute`); that of two definitions with different units would.
  So would that of a status row and a definition without a title, whose unit the
  session takes although nothing else of it is folded (`OrderDecidesNothing`).
- A chart at 89.96 % of its target reads 90.0 % and orange: the percentage is
  rounded, the traffic light is not (sensor.py:512, state.py:173-178).
- A payload that is not a number clears the outdoor temperature, the wind speed
  and a known humidity; for an indoor temperature it is a parse error, and the
  old reading stays (protocol.py:267-276, state.py:411-419).
- A camera keeps the link of the reply seen at setup (camera.py:124), although a
  later reply replaces the snapshot's (state.py:450-473).

## Not modelled

- Commands and their framing: static templates.  Which are sent, and when, is in
  the modules of the client.
- Replay, captures and the command line: developer tools around the client.
  The dispatch loop's replay-only branch is dead in live mode, which
  `PhaseRestsOnMarker` shows.
- The `SmartPlaceAuthError` branches of `run()` and the config flow: no code path
  raises it.
- Intervals of 0 or less, which switch the heartbeat or the poll off.
- A second `aclose()`, and closing the HTTP session the client owns.
- Removal of an entity, unload of the entry, registry pruning: they end at Home
  Assistant's own bookkeeping.
- Amounts of energy and money: days and rate tables stand for them.
- Characters of labels and payloads, the repair of double-encoded text, images
  and log lines.
- Units and classes Home Assistant derives from a sensor, device records.

## Plan

The theorems the plan had are proved.  What is left is removal and unload
composed with `Integration`, if the entry gains state of its own there.
