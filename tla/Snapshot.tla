------------------------------ MODULE Snapshot ------------------------------
(***************************************************************************)
(* From the wire to the entities: frames are parsed, folded into the       *)
(* snapshot and fanned out when something changed (__init__.py:164-174);   *)
(* setup waits for the bootstrap and an observation window, at most so     *)
(* long, and enumerates the entities once (__init__.py:201-212).  Which    *)
(* frames have arrived by then is open, as is every later order.  A lost   *)
(* connection and its hook are one step here; Integration has the gap      *)
(* between them.                                                           *)
(***************************************************************************)
EXTENDS Entities

CONSTANTS Texts,       \* what the server may send
          MaxFrames    \* bound on the frames parsed in a behaviour

ASSUME SnapshotAssumption == MaxFrames \in Nat

(* What three of the texts abstract: a definition's title is words; a      *)
(* banner follows a colon and is a notice, with or without a PIN, or its   *)
(* removal; CHART's digits are the beginning of its raw payload.           *)
ASSUME TextsAssumption ==
  \A text \in Texts :
    LET body == text.body
    IN  /\ body.form = "definition" => body.title \in Seq(STRING)
        /\ text.head = "PERSINFO" =>
             /\ text.sep = ":"
             /\ body.form = "notice" \/ body \in {Empty, Word("Read")}
        /\ text.head = "CHART" /\ body.form = "stand" =>
             body.chart = text.index

(* A head that is followed at once by its value, and one by a number       *)
(* first.                                                                  *)
Plain(text, head) ==
  text.head = head /\ text.index = NoIndex /\ text.sep = ":"

Indexed(text, head) ==
  text.head = head /\ text.index # NoIndex /\ text.sep = ":"

(* The two frames that report a chart's reading. *)
IsStand(text) ==
  /\ text.body.form = "stand"
  /\ \/ Indexed(text, "StandsSingelChartUpdate")
     \/ text.head = "CHART" /\ text.index # NoIndex /\ text.sep = "STAND"

IsDefinition(text) ==
  /\ Indexed(text, "SingelDiagramm")
  /\ text.body.form = "definition" /\ text.body.title # <<>>

(* Every unit the server names is one that the chart sensors know.         *)
UnitsKnown ==
  \A text \in Texts :
    LET body == text.body
    IN  /\ body.form = "definition" => body.unit \in {""} \cup DOMAIN ChartUnitMap
        /\ text.head = "StatusInhaltListe" =>
             \A c \in DOMAIN body.charts : body.charts[c] \in DOMAIN ChartUnitMap

(* Every definition has a title: one without is not folded, though the     *)
(* session takes its unit.                                                 *)
Titled ==
  \A text \in Texts :
    text.body.form = "definition" => text.body.title # <<>>

VARIABLES
  snap,       \* data.state
  units,      \* the session's chart_units
  menu,       \* main_menu_loaded, kept across connections
  healthy,    \* data.is_healthy
  notified,   \* connection_healthy, the health last fanned out
  setup,      \* the platforms have been set up
  entities,
  shown,      \* what each entity last wrote
  heard,      \* the last parsed text of each source
  early,      \* what had been heard when setup ended
  frames

vars == <<snap, units, menu, healthy, notified, setup, entities, shown, heard,
          early, frames>>

Init ==
  /\ snap = SmartPlaceState /\ units = <<>>
  /\ menu = FALSE /\ healthy = FALSE /\ notified = FALSE
  /\ setup = FALSE /\ entities = {} /\ shown = <<>>
  /\ heard = <<>> /\ early = <<>> /\ frames = 0
-----------------------------------------------------------------------------
(* Whose reading a text carries: both kinds of stand frame report the same *)
(* series of a chart.                                                      *)
Source(text) ==
  IF text.head \in {"CHART", "StandsSingelChartUpdate"}
  THEN <<"stand", text.index, text.body.series>>
  ELSE IF text.head = "SingelStandUpdate"
  THEN <<text.head, text.index, text.body.series>>
  ELSE <<text.head, text.index, 0>>

(* parse_frame of every text, once. *)
Parsed == [text \in Texts |-> ParseFrame(text)]

IsMarker(text) == text.head = "GiveMeMainMenuFinished"

Written == [e \in entities |-> Signature(snap', healthy', e)]

(* The session sees the frame first, then the chase, then the entry; the   *)
(* phase is usable once the menu marker has been seen.                     *)
Arrive(text) ==
  LET frame  == Parsed[text]
      folded == Apply(snap, frame)
  IN  /\ frame # ParseError
      /\ IsMarker(text) \/ frames < MaxFrames
      /\ frames' = IF IsMarker(text) THEN frames ELSE frames + 1
      /\ menu' = (menu \/ IsMarker(text))
      /\ healthy' = menu'
      /\ notified' = healthy'
      /\ units' = ChartUnits(units, frame)
      /\ snap' = folded.snap
      /\ shown' = IF folded.changed \/ healthy' # notified THEN Written ELSE shown
      /\ heard' = Put(heard, Source(text), text)
      /\ UNCHANGED <<setup, entities, early>>

(* A frame that does not parse is logged and dropped. *)
Skip(text) == Parsed[text] = ParseError /\ UNCHANGED vars

Drop ==
  /\ healthy
  /\ healthy' = FALSE /\ notified' = FALSE /\ UNCHANGED snap
  /\ shown' = Written
  /\ UNCHANGED <<units, menu, setup, entities, heard, early, frames>>

(* The wait is over: bootstrapped and observed, or timed out. *)
SetupEnds ==
  /\ ~setup /\ setup' = TRUE
  /\ entities' = Enumerate(snap, units)
  /\ shown' = [e \in entities' |-> Signature(snap, healthy, e)]
  /\ early' = heard
  /\ UNCHANGED <<snap, units, menu, healthy, notified, heard, frames>>

Next ==
  \/ \E text \in Texts : Arrive(text)
  \/ \E text \in Texts : Skip(text)
  \/ Drop
  \/ SetupEnds

Spec == Init /\ [][Next]_vars
-----------------------------------------------------------------------------
(* What an entity shows is what it would report now: skipping the fan-out  *)
(* of frames that "changed nothing" hides no change of a value, a name, an *)
(* attribute or the health (state.py:331-345, __init__.py:164-174).        *)
ShownIsCurrent == \A e \in entities : shown[e] = Signature(snap, healthy, e)

(* The server's constant re-broadcast is quiet: a text folded a second     *)
(* time changes nothing and says so (state.py:334-337), so no entity is    *)
(* written at the broadcast's cadence.                                     *)
QuietRebroadcast ==
  \A text \in Texts :
    LET frame == Parsed[text]
        once  == Apply(snap, frame).snap
    IN  Apply(once, frame) = Same(once)

(* The order in which the readings of different sources arrive during the  *)
(* bootstrap decides nothing: neither the snapshot nor which entities are  *)
(* built, although a chart is made by whichever of its frames is first and *)
(* its unit has two sources (state.py:475-545, client.py:971-981).  Two    *)
(* more frames, in either order, within the bound.                         *)
FramesCommute ==
  ~setup /\ frames + 2 <= MaxFrames =>
    \A t, u \in {x \in Texts : Parsed[x] # ParseError} :
      LET f == Parsed[t]  g == Parsed[u]
          fg == Apply(Apply(snap, f).snap, g).snap
          gf == Apply(Apply(snap, g).snap, f).snap
      IN  Source(t) # Source(u) =>
            /\ fg = gf
            /\ Enumerate(fg, ChartUnits(ChartUnits(units, f), g))
                 = Enumerate(gf, ChartUnits(ChartUnits(units, g), f))

(* What the wire says of e's source, for the texts that carry one value: a *)
(* number or none, an alarm that is on unless empty or 00, and indoors 0   *)
(* for no measurement.                                                     *)
ShowsIt(text, e) ==
  LET about(kind) == e.kind = kind /\ e.id = text.index
      value       == shown[e].value
      number      == SafeFloat(text.body)
      alarm       == Flag(text.body \notin {Empty, Word("00")})
      measured    == IF number = Number(0) THEN None ELSE number
  IN  /\ Plain(text, "TEMPOUT") /\ about("outdoor_temperature") => value = number
      /\ Plain(text, "WINDGESCHWINDIGKEIT") /\ about("wind_speed") =>
           value = number
      /\ Plain(text, "REGEN") /\ about("rain") => value = alarm
      /\ Plain(text, "HAGEL") /\ about("hail") => value = alarm
      /\ Indexed(text, "WINDALARM") /\ about("wind_alarm") => value = alarm
      /\ Indexed(text, "TEMPIST") /\ about("indoor_temperature") =>
           value = measured
      /\ Indexed(text, "FEUCHTEIST") /\ about("humidity") => value = measured
      /\ Indexed(text, "SPRECHEN") /\ about("intercom") =>
           (shown[e].attributes.ringing <=> text.body = Word("ring"))
      /\ IsStand(text) /\ about("chart") /\ text.body.series = 1 =>
           value = SafeFloat(text.body.reading)
      /\ IsDefinition(text) /\ about("chart") =>
           shown[e].name = CleanChartLabel(text.body.title)

(* Through parsing, folding, the change gate and the view: an entity that  *)
(* is available shows the last value its source sent, and nothing older    *)
(* once the source has said it has none (messages.py, state.py:378-439,    *)
(* native_value of the sensors).                                           *)
BroadcastReachesEntity ==
  \A e \in entities :
    shown[e] # Unavailable =>
      \A source \in DOMAIN heard : ShowsIt(heard[source], e)

Built(kind, id) == \E e \in entities : e.kind = kind /\ e.id = id

(* What had been heard of a zone and of a chart's unit when setup ended.   *)
ZoneNamed(id) ==
  \E s \in DOMAIN early :
    Indexed(early[s], "INHALTKlimas") /\ early[s].index = id /\ early[s].body # Empty

UnitListed(id) ==
  \E s \in DOMAIN early :
    /\ early[s].head = "StatusInhaltListe"
    /\ early[s].index = NoIndex /\ early[s].sep = "_"
    /\ id \in DOMAIN early[s].body.charts

(* What was heard within the setup window has its entity, whatever else    *)
(* had not arrived yet (sensor.py:166-256, binary_sensor.py:57-76): rain   *)
(* rings the weather alarm, a zone's readings need only the zone, a chart  *)
(* needs only a unit, from either of its two sources.                      *)
HeardIsBuilt ==
  setup =>
    \A source \in DOMAIN early :
      LET text == early[source]
          id   == text.index
      IN  /\ Plain(text, "TEMPOUT") /\ SafeFloat(text.body) # None =>
               Built("outdoor_temperature", id)
          /\ Indexed(text, "WINDALARM") =>
               Built("wind_alarm", id) /\ Built("weather_alarm", NoIndex)
          /\ Plain(text, "REGEN") =>
               Built("rain", id) /\ Built("weather_alarm", NoIndex)
          /\ Indexed(text, "TEMPIST") /\ ZoneNamed(id) =>
               Built("indoor_temperature", id)
          /\ Indexed(text, "SPRECHEN") \/ Indexed(text, "CALLINFO") =>
               Built("intercom", id)
          /\ IsDefinition(text) /\ text.body.fields > 14 /\ text.body.unit # "" =>
               Built("chart", id)
          /\ IsStand(text) /\ UnitListed(id) => Built("chart", id)

(* A banner that comes only after setup still reaches Home Assistant, and  *)
(* a parcel's PIN with it: entities are enumerated once, so these two must *)
(* not wait for a banner to exist (sensor.py:184-189, 203-208).            *)
LateBannerSurfaces ==
  setup /\ healthy /\ <<"PERSINFO", NoIndex, 0>> \in DOMAIN heard =>
    LET body == heard[<<"PERSINFO", NoIndex, 0>>].body
        Shows(kind, value) ==
          \E e \in entities : e.kind = kind /\ shown[e].value = value
    IN  IF body = Word("Read") THEN Shows("person_info", None)
        ELSE Shows("person_info", body) /\ Shows("package_delivery_pin", body.pin)
=============================================================================
