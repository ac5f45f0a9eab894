------------------------------ MODULE Entities ------------------------------
(***************************************************************************)
(* The entities of one config entry: which of them each platform builds    *)
(* from the snapshot when setup ends (sensor.py, binary_sensor.py,         *)
(* camera.py, button.py), what each keeps from that moment, and what it    *)
(* reports of a later snapshot.                                            *)
(***************************************************************************)
EXTENDS InstallationState

(* "fixed" is what the constructor reads once: a unit, a room, a link.     *)
Entity(kind, id, fixed) == [kind |-> kind, id |-> id, fixed |-> fixed]

Single(kind, fixed) == Entity(kind, NoIndex, fixed)

BuiltIf(condition, built) == IF condition THEN built ELSE {}

TemperatureUnitMap == "degC" :> "C" @@ "C" :> "C" @@ "degF" :> "F" @@ "F" :> "F"

WindSpeedUnitMap == "km/h" :> "km/h" @@ "m/s" :> "m/s" @@ "mph" :> "mph"

ChartUnitMap == "KWh" :> "kWh" @@ "kWh" :> "kWh" @@ "Wh" :> "Wh"
                  @@ "l" :> "L" @@ "L" :> "L"

(* The unit the server's hint names, or the one this installation uses.    *)
HintedUnit(snap, signal, map, fallback) ==
  Get(map, Get(snap.unit_hints, signal, ""), fallback)

(* A number is part of the name only where there are several.              *)
Numbered(ids) == Cardinality(ids) > 1
-----------------------------------------------------------------------------
WeatherSensors(snap) ==
  BuiltIf(snap.outdoor_temperature # None,
          {Single("outdoor_temperature",
                  HintedUnit(snap, "TEMPOUT", TemperatureUnitMap, "C"))})
  \cup BuiltIf(snap.wind_speed # None,
          {Single("wind_speed",
                  HintedUnit(snap, "WINDGESCHWINDIGKEIT", WindSpeedUnitMap, "km/h"))})
  \cup BuiltIf(\/ snap.rain_alarm # None
               \/ snap.hail_alarm # None
               \/ snap.wind_alarms # <<>>, {Single("weather_alarm", None)})

ClimateSensors(snap) ==
  LET zones == DOMAIN snap.climate_zones
      Of(kind, readings) ==
        {Entity(kind, z, snap.climate_zones[z]) : z \in zones \cap DOMAIN readings}
  IN  Of("indoor_temperature", snap.indoor_temperatures)
        \cup Of("humidity", snap.humidities)

IntercomIds(snap) == DOMAIN snap.intercom_ringing \cup DOMAIN snap.intercom_callers

(* Fault: the banner's sensors wait for a banner, as the others do. *)
NoticeSensors_Gated(snap) ==
  {Entity("intercom", i, Numbered(IntercomIds(snap))) : i \in IntercomIds(snap)}
    \cup BuiltIf(snap.person_info # None,
                {Single("package_delivery_pin", None), Single("person_info", None)})

NoticeSensors(snap) ==
  {Entity("intercom", i, Numbered(IntercomIds(snap))) : i \in IntercomIds(snap)}
    \cup BuiltIf(snap.infoboard_contents # <<>>, {Single("infoboard", None)})
    \cup {Single("package_delivery_pin", None), Single("person_info", None)}

(* A chart becomes a sensor if its unit is known by now, from its own      *)
(* definition or from the session; the meters a SUMME chart adds up start  *)
(* disabled; the two target sensors need a target by now.                  *)
ChartSensors(snap, units) ==
  LET unit(c)    == IF snap.charts[c].unit # "" THEN snap.charts[c].unit
                    ELSE Get(units, c, "")
      summed     == UNION {snap.charts[c].summed_chart_ids : c \in DOMAIN snap.charts}
      mapped     == {c \in DOMAIN snap.charts : unit(c) \in DOMAIN ChartUnitMap}
      Of(kind, charts) ==
        {Entity(kind, c, [unit |-> ChartUnitMap[unit(c)], enabled |-> c \notin summed]) :
           c \in charts}
      targeted   == mapped \cap DOMAIN snap.chart_targets
  IN  Of("chart", mapped) \cup Of("target_percent", targeted)
        \cup Of("target_status", targeted)

(* _find_electricity_chart_id: the lowest chart of exactly this label.     *)
GridMeters(snap) ==
  {c \in DOMAIN snap.charts : snap.charts[c].label = <<"Electricity">>}

CostSensors(snap) ==
  BuiltIf(GridMeters(snap) # {},
          {Single("electricity_price", None)} \cup
          {Entity(kind, Min(GridMeters(snap)), None) :
             kind \in {"cost_today", "cost_month", "tariff_high", "tariff_low"}})

BinarySensors(snap) ==
  {Single("connection", None)}
    \cup BuiltIf(snap.rain_alarm # None, {Single("rain", None)})
    \cup BuiltIf(snap.hail_alarm # None, {Single("hail", None)})
    \cup BuiltIf(snap.blinds_maintenance # None, {Single("blinds_maintenance", None)})
    \cup {Entity("wind_alarm", z, Numbered(DOMAIN snap.wind_alarms)) :
            z \in DOMAIN snap.wind_alarms}

PinnedCameraNames == <<"Ground floor entrance", "Garage", "Mailbox", "Garage entrance">>

(* The link and the label are those of the reply seen by now.              *)
Cameras(snap) ==
  {Entity("camera", c,
          [link |-> snap.gsa_cameras[c],
           label |-> Get(PinnedCameraNames, c, Get(snap.gsa_door_labels, c, ""))]) :
     c \in DOMAIN snap.gsa_cameras}

DoorButtons ==
  {Single(door, None) :
     door \in {"front_door", "ground_floor_entrance", "garage_entrance", "mailbox"}}

(* async_setup_entry of the four platforms. *)
Enumerate(snap, units) ==
  WeatherSensors(snap) \cup ClimateSensors(snap) \cup NoticeSensors(snap)
    \cup ChartSensors(snap, units) \cup CostSensors(snap)
    \cup BinarySensors(snap) \cup Cameras(snap) \cup DoorButtons
-----------------------------------------------------------------------------
(* A reading of exactly 0.0 indoors stands for no measurement.             *)
NoPlaceholder(reading) == IF reading = Number(0) THEN None ELSE reading

DailySeries == 1
DailyReading(snap, c) ==
  SafeFloat(Get(ChartOf(snap, c).stands, DailySeries, None))

Target(snap, c) == Get(snap.chart_targets, c, None)

(* In tenths of a percent, rounded. *)
TargetPercent(snap, c) ==
  LET current == DailyReading(snap, c)
      target  == Target(snap, c)
  IN  IF current = None \/ target \in {None, Number(0)} THEN None
      ELSE Number((2000 * current.value + target.value) \div (2 * target.value))

TargetStatus(snap, c) == ChartTargetStatus(DailyReading(snap, c), Target(snap, c))

Bucket(snap, c, series) == Get(Get(snap.chart_today_buckets, c, <<>>), series, None)
HighTariff == 97
LowTariff  == 96

(* The split today's cost is computed from; its rates are CostRollover's.  *)
TodaySplit(snap, c) ==
  LET ht == Bucket(snap, c, HighTariff)
      nt == Bucket(snap, c, LowTariff)
  IN  IF ht = None /\ nt = None THEN None
      ELSE [form |-> "split", ht |-> ht, nt |-> nt]

ActiveAlarms(snap) ==
  BuiltIf(snap.rain_alarm = Flag(TRUE), {"rain"})
    \cup BuiltIf(snap.hail_alarm = Flag(TRUE), {"hail"})
    \cup BuiltIf(\E z \in DOMAIN snap.wind_alarms : snap.wind_alarms[z] = Flag(TRUE),
                 {"wind"})

AlarmState(snap) ==
  CASE ActiveAlarms(snap) = {} -> Word("none")
    [] Cardinality(ActiveAlarms(snap)) = 1 ->
         Word(CHOOSE kind \in ActiveAlarms(snap) : TRUE)
    [] OTHER -> Word("multiple")

(* The caller while it rings. *)
IntercomState(snap, i) ==
  IF Get(snap.intercom_ringing, i, None) # Flag(TRUE) THEN None
  ELSE Get(snap.intercom_callers, i, None)

(* The first slot that is not acknowledged. *)
InfoboardState(snap) ==
  LET active == {i \in DOMAIN snap.infoboard_contents :
                   snap.infoboard_contents[i] # None}
  IN  IF active = {} THEN None ELSE snap.infoboard_contents[Min(active)]

(* native_value, is_on; a camera and a button have no state of their own,  *)
(* price and month are CostRollover's.                                     *)
Value(snap, healthy, e) ==
  CASE e.kind \in {"outdoor_temperature", "wind_speed", "person_info"} -> snap[e.kind]
    [] e.kind = "rain" -> snap.rain_alarm
    [] e.kind = "hail" -> snap.hail_alarm
    [] e.kind = "blinds_maintenance" -> snap.blinds_maintenance
    [] e.kind = "wind_alarm" -> Get(snap.wind_alarms, e.id, None)
    [] e.kind = "connection" -> Flag(healthy)
    [] e.kind = "weather_alarm" -> AlarmState(snap)
    [] e.kind = "indoor_temperature" ->
         NoPlaceholder(Get(snap.indoor_temperatures, e.id, None))
    [] e.kind = "humidity" -> NoPlaceholder(Get(snap.humidities, e.id, None))
    [] e.kind = "intercom" -> IntercomState(snap, e.id)
    [] e.kind = "infoboard" -> InfoboardState(snap)
    [] e.kind = "package_delivery_pin" -> PackageDeliveryPin(snap)
    [] e.kind = "chart" -> DailyReading(snap, e.id)
    [] e.kind = "target_percent" -> TargetPercent(snap, e.id)
    [] e.kind = "target_status" -> TargetStatus(snap, e.id)
    [] e.kind = "cost_today" -> TodaySplit(snap, e.id)
    [] e.kind = "tariff_high" -> Bucket(snap, e.id, HighTariff)
    [] e.kind = "tariff_low" -> Bucket(snap, e.id, LowTariff)
    [] OTHER -> None

(* extra_state_attributes, where they say more than the state.             *)
Attributes(snap, e) ==
  CASE e.kind = "chart" ->
         LET stands == ChartOf(snap, e.id).stands
             other  == {s \in DOMAIN stands : s # DailySeries /\ stands[s] # Empty}
         IN  [stands |-> Restrict(stands, other),
              target |-> Target(snap, e.id),
              percent |-> TargetPercent(snap, e.id),
              status |-> TargetStatus(snap, e.id)]
    [] e.kind = "weather_alarm" ->
         [rain |-> snap.rain_alarm = Flag(TRUE), hail |-> snap.hail_alarm = Flag(TRUE),
          zones |-> {z \in DOMAIN snap.wind_alarms : snap.wind_alarms[z] = Flag(TRUE)}]
    [] e.kind = "intercom" ->
         [ringing |-> Get(snap.intercom_ringing, e.id, None) = Flag(TRUE),
          caller |-> Get(snap.intercom_callers, e.id, None)]
    [] e.kind = "infoboard" -> snap.infoboard_contents
    [] e.kind = "cost_today" -> [total |-> Bucket(snap, e.id, 98)]
    [] OTHER -> None

ChartScoped == {"chart", "target_percent", "target_status", "cost_today",
                "cost_month", "tariff_high", "tariff_low"}

(* Chart sensors take their label from the snapshot at every write; the    *)
(* empty label stands for the fallback name.                               *)
Name(snap, e) == IF e.kind \in ChartScoped THEN ChartOf(snap, e.id).label ELSE <<e.kind>>

Available(healthy, e) == healthy \/ e.kind \in {"connection", "electricity_price"}

Unavailable == [form |-> "unavailable"]

(* _report_signature: what would be written now. *)
Signature(snap, healthy, e) ==
  IF ~Available(healthy, e) THEN Unavailable
  ELSE [form |-> "state", name |-> Name(snap, e),
        value |-> Value(snap, healthy, e), attributes |-> Attributes(snap, e)]
=============================================================================
