------------------------- MODULE InstallationState -------------------------
(***************************************************************************)
(* The decoded snapshot of the installation (state.py): how one parsed     *)
(* frame is folded in, and the change flag the fan-out rests on.  The flag *)
(* is computed the way each handler computes it, not by comparing whole    *)
(* snapshots.                                                              *)
(***************************************************************************)
EXTENDS Messages, SequencesExt, TLC

Flag(b) == [form |-> "flag", on |-> b]

(* A banner text; the unlock PIN inside it, or None. *)
Notice(pin) == [form |-> "notice", pin |-> pin]
-----------------------------------------------------------------------------
(* Texts that are only translated: a title is a sequence of words.         *)
SiteCode == "HH77-14-01"

ChartLabelEnglish ==
  << <<<<"Elektro">>, <<"Electricity">>>>,
     <<<<"Waerme">>, <<"Heating">>>>,
     <<<<"Kaltwasser">>, <<"Cold", "water">>>>,
     <<<<"Warmwasser">>, <<"Hot", "water">>>>,
     <<<<"PV", "Anteil", "Elektro">>, <<"PV", "electricity">>>>,
     <<<<"SUMME", "Kaltwasser">>, <<"Cold", "water">>>>,
     <<<<"SUMME", "Warmwasser">>, <<"Hot", "water">>>> >>

(* The site code and what follows it is cut, then the first known German   *)
(* beginning is replaced; numerals stay.                                   *)
CleanChartLabel(title) ==
  LET site    == {i \in 2..Len(title) : title[i] = SiteCode}
      cleaned == IF site = {} THEN title ELSE SubSeq(title, 1, Min(site) - 1)
      known   == {i \in DOMAIN ChartLabelEnglish :
                    IsPrefix(ChartLabelEnglish[i][1], cleaned)}
      first   == ChartLabelEnglish[Min(known)]
  IN  IF known = {} THEN cleaned
      ELSE first[2] \o SubSeq(cleaned, Len(first[1]) + 1, Len(cleaned))

Translated(table, word) == IF word \in DOMAIN table THEN table[word] ELSE word

TranslateCallerLabel(word) ==
  Translated([Wohnungseingang |-> "Front door", Haupteingang |-> "Main entrance",
              Briefkasten |-> "Mailbox", Garagentor |-> "Garage door"], word)

TranslateGsaLabel(word) ==
  Translated([EingangEG |-> "Ground floor entrance", EingangWHG |-> "Front door",
              Briefkasten |-> "Mailbox", Garage |-> "Garage"], word)

(* The trailing tag of a zone's name is dropped.                           *)
ClimateZoneRoom(name) ==
  IF Len(name) > 1 /\ Last(name) \in {"heating", "Heizung"} THEN Front(name) ELSE name
-----------------------------------------------------------------------------
SafeFloat(body) == IF body.form = "number" THEN body ELSE None

AlarmOn(body) == Flag(body \notin {Empty, Word("00")})

UnlessRead(body) == IF body = Word("Read") THEN None ELSE body

(* A list of id^value entries: malformed ones are skipped, the last of an  *)
(* id stands, LEER and the empty text are the empty list.                  *)
Malformed == 0
ParseGsaPairs(entries) ==
  [k \in {entries[i].id : i \in DOMAIN entries} \ {Malformed} |->
     entries[Max({i \in DOMAIN entries : entries[i].id = k})].value]

ChartReading ==
  [unit |-> "", stands |-> <<>>, label |-> <<>>, category |-> "",
   summed_chart_ids |-> {}]

SmartPlaceState ==
  [outdoor_temperature |-> None, wind_speed |-> None, rain_alarm |-> None,
   hail_alarm |-> None, blinds_maintenance |-> None, wind_alarms |-> <<>>,
   charts |-> <<>>, indoor_temperatures |-> <<>>, climate_zones |-> <<>>,
   scenes |-> <<>>, scene_states |-> <<>>, humidities |-> <<>>,
   intercom_ringing |-> <<>>, intercom_callers |-> <<>>,
   infoboard_contents |-> <<>>, person_info |-> None, chart_targets |-> <<>>,
   unit_hints |-> <<>>, chart_today_buckets |-> <<>>, gsa_cameras |-> <<>>,
   gsa_door_labels |-> <<>>]

(* dict.get, an assignment to a key, dict.update. *)
Get(map, key, default) == IF key \in DOMAIN map THEN map[key] ELSE default

Put(map, key, value) ==
  [k \in DOMAIN map \cup {key} |-> IF k = key THEN value ELSE map[k]]

Update(map, other) ==
  [k \in DOMAIN map \cup DOMAIN other |-> Get(other, k, Get(map, k, None))]
-----------------------------------------------------------------------------
(* What folding a frame gives: the snapshot and the change flag. *)
Folded(snap, changed) == [snap |-> snap, changed |-> changed]

Same(snap) == Folded(snap, FALSE)

SetAttr(snap, name, value) ==
  Folded([snap EXCEPT ![name] = value], snap[name] # value)

Differs(map, key, value) == ~(key \in DOMAIN map /\ map[key] = value)

SetKey(snap, name, key, value) ==
  Folded([snap EXCEPT ![name] = Put(@, key, value)],
         Differs(snap[name], key, value))

(* charts.setdefault(id, ChartReading(unit="")) *)
ChartOf(snap, id) == Get(snap.charts, id, ChartReading)

PutChart(snap, id, chart, changed) ==
  Folded([snap EXCEPT !.charts = Put(@, id, chart)], changed)

(* Fault: a stand always starts a new reading of its chart. *)
ApplyStand_Anew(snap, id, series, reading) ==
  PutChart(snap, id, [ChartReading EXCEPT !.stands = Put(<<>>, series, reading)], TRUE)

ApplyStand(snap, id, series, reading) ==
  LET chart == ChartOf(snap, id)
  IN  PutChart(snap, id, [chart EXCEPT !.stands = Put(@, series, reading)],
               Differs(chart.stands, series, reading))

ApplyChartPoint(snap, id, body) ==
  IF body.form # "stand" THEN Same(snap)
  ELSE ApplyStand(snap, id, body.series, body.reading)

ApplyChartStand(snap, body) ==
  IF body.form # "stand" THEN Same(snap)
  ELSE ApplyStand(snap, body.chart, body.series, body.reading)

(* A reading that is no number is dropped and clears nothing. *)
ApplyChartRangeStand(snap, id, body) ==
  IF body.form # "stand" \/ SafeFloat(body.reading) = None THEN Same(snap)
  ELSE LET buckets == Get(snap.chart_today_buckets, id, <<>>)
       IN  Folded([snap EXCEPT !.chart_today_buckets =
                     Put(@, id, Put(buckets, body.series, body.reading))],
                  Differs(buckets, body.series, body.reading))

(* Fault: a new label is stored without reporting a change. *)
ApplyChartDefinition_QuietLabel(snap, id, body) ==
  LET old   == ChartOf(snap, id)
      chart == [old EXCEPT !.label = CleanChartLabel(body.title),
                           !.unit = IF @ = "" THEN body.unit ELSE @,
                           !.summed_chart_ids = body.summed]
  IN  IF body.form # "definition" \/ body.title = <<>> THEN Same(snap)
      ELSE PutChart(snap, id, chart, \/ old.unit # chart.unit
                                     \/ old.summed_chart_ids # chart.summed_chart_ids)

(* The label and the summed charts are replaced; the category too, when    *)
(* the definition has one; the unit only while the chart has none.         *)
ApplyChartDefinition(snap, id, body) ==
  LET old  == ChartOf(snap, id)
      chart ==
        [old EXCEPT !.label = CleanChartLabel(body.title),
                    !.category = IF body.fields > 13 THEN body.category ELSE @,
                    !.unit = IF body.fields > 14 /\ @ = "" THEN body.unit ELSE @,
                    !.summed_chart_ids = body.summed]
  IN  IF body.form # "definition" \/ body.title = <<>> THEN Same(snap)
      ELSE PutChart(snap, id, chart,
                    \/ old.label # chart.label
                    \/ old.category # chart.category
                    \/ old.unit # chart.unit
                    \/ old.summed_chart_ids # chart.summed_chart_ids)

(* A known zone is cleared by an invalid payload, an unknown one is not    *)
(* made by it.                                                             *)
ApplyHumidity(snap, zone, body) ==
  IF SafeFloat(body) = None /\ zone \notin DOMAIN snap.humidities THEN Same(snap)
  ELSE SetKey(snap, "humidities", zone, SafeFloat(body))

ApplyChartTarget(snap, id, body) ==
  IF SafeFloat(body) = None THEN Same(snap)
  ELSE SetKey(snap, "chart_targets", id, SafeFloat(body))

(* Fault: the comparison has used the iterator up, nothing is left to add. *)
ApplyStatusEntry_OneShot(snap, body) ==
  Folded(snap, \E signal \in DOMAIN body.hints :
                 Differs(snap.unit_hints, signal, body.hints[signal]))

(* unit_hints takes every signal named in the row. *)
ApplyStatusEntry(snap, body) ==
  LET hints == body.hints
  IN  IF \A signal \in DOMAIN hints :
           ~Differs(snap.unit_hints, signal, hints[signal])
      THEN Same(snap)
      ELSE Folded([snap EXCEPT !.unit_hints = Update(@, hints)], TRUE)

(* Both maps are replaced, not merged; a field cut off leaves its map.     *)
ApplyGsaConfig(snap, body) ==
  LET cameras == IF body.fields > 3 THEN ParseGsaPairs(body.cameras)
                 ELSE snap.gsa_cameras
      labels  == IF body.fields > 4
                 THEN LET raw == ParseGsaPairs(body.doors)
                      IN  [k \in DOMAIN raw |-> TranslateGsaLabel(raw[k])]
                 ELSE snap.gsa_door_labels
  IN  Folded([snap EXCEPT !.gsa_cameras = cameras, !.gsa_door_labels = labels],
             cameras # snap.gsa_cameras \/ labels # snap.gsa_door_labels)
-----------------------------------------------------------------------------
ApplyNamedValue(snap, frame) ==
  LET name == frame.name
      i    == frame.index
      body == frame.body
  IN  CASE name = "OutdoorTemperature" ->
             SetAttr(snap, "outdoor_temperature", SafeFloat(body))
        [] name = "WindSpeed" -> SetAttr(snap, "wind_speed", SafeFloat(body))
        [] name = "Rain" -> SetAttr(snap, "rain_alarm", AlarmOn(body))
        [] name = "Hail" -> SetAttr(snap, "hail_alarm", AlarmOn(body))
        [] name = "BlindsMaintenance" ->
             SetAttr(snap, "blinds_maintenance", AlarmOn(body))
        [] name = "WindAlarm" /\ i # NoIndex ->
             SetKey(snap, "wind_alarms", i, AlarmOn(body))
        [] name = "ChartPointUpdate" /\ i # NoIndex -> ApplyChartPoint(snap, i, body)
        [] name = "ChartStand" -> ApplyChartStand(snap, body)
        [] name = "ChartRangeStand" /\ i # NoIndex ->
             ApplyChartRangeStand(snap, i, body)
        [] name = "ChartDefinition" /\ i # NoIndex ->
             ApplyChartDefinition(snap, i, body)
        [] name = "SceneState" /\ i # NoIndex ->
             SetKey(snap, "scene_states", i, AlarmOn(body))
        [] name = "Humidity" /\ i # NoIndex -> ApplyHumidity(snap, i, body)
        [] name = "DoorIntercom" /\ i # NoIndex ->
             SetKey(snap, "intercom_ringing", i, Flag(body = Word("ring")))
        [] name = "CallInfo" /\ i # NoIndex ->
             SetKey(snap, "intercom_callers", i, TranslateCallerLabel(body.word))
        [] name = "InfoboardContent" /\ i # NoIndex ->
             SetKey(snap, "infoboard_contents", i, UnlessRead(body))
        [] name = "PersonInfo" -> SetAttr(snap, "person_info", UnlessRead(body))
        [] name = "ChartTarget" /\ i # NoIndex -> ApplyChartTarget(snap, i, body)
        [] name = "StatusEntry" -> ApplyStatusEntry(snap, body)
        [] OTHER -> Same(snap)

ApplyNamedFields(snap, frame) ==
  LET body == frame.body
  IN  CASE frame.name = "ClimateConfig" /\ frame.index # NoIndex /\ body # Empty ->
             SetKey(snap, "climate_zones", frame.index, ClimateZoneRoom(body.title))
        [] frame.name = "SceneConfig" /\ frame.index # NoIndex /\ body # Empty ->
             SetKey(snap, "scenes", frame.index, body.title)
        [] frame.name = "GsaConfig" -> ApplyGsaConfig(snap, body)
        [] OTHER -> Same(snap)

Apply(snap, frame) ==
  CASE frame.type = "Temperature" ->
         SetKey(snap, "indoor_temperatures", frame.index, frame.body)
    [] frame.type = "NamedValue" -> ApplyNamedValue(snap, frame)
    [] frame.type = "NamedFields" -> ApplyNamedFields(snap, frame)
    [] OTHER -> Same(snap)
-----------------------------------------------------------------------------
(* The client's own record of chart units, kept per session: status rows   *)
(* and definitions both write it, the last one stands.                     *)
ChartUnits(units, frame) ==
  LET body == frame.body
  IN  CASE frame.name = "StatusEntry" -> Update(units, body.charts)
        [] frame.name = "ChartDefinition" /\ body.form = "definition"
             /\ body.fields > 14 /\ body.unit # "" -> Put(units, frame.index, body.unit)
        [] OTHER -> units

(* chart_target_status: the traffic light of a reading against its target. *)
ChartTargetStatus(current, target) ==
  IF None \in {current, target} \/ target.value <= 0 THEN None
  ELSE Word(IF 10 * current.value >= 9 * target.value THEN "red"
            ELSE IF 10 * current.value >= 6 * target.value THEN "orange"
            ELSE "green")

PackageDeliveryPin(snap) ==
  IF snap.person_info.form = "notice" THEN snap.person_info.pin ELSE None
=============================================================================
