-------------------------- MODULE Snapshot_proofs --------------------------
(***************************************************************************)
(* Proofs about the snapshot, for any set of texts the server may send.    *)
(* Three arguments, each on the one before.  Handler by handler, a fold    *)
(* keeps the snapshot's shape and says "unchanged" only of a snapshot it   *)
(* left alone.  Through the registry, a folded frame has one definition,   *)
(* and a fold sets each attribute from the frame and that attribute alone  *)
(* (FoldsTo), so the frames of two sources commute.  And by the same       *)
(* reading of a fold, what a source last said stays in the snapshot until  *)
(* it speaks again (HeardKept), so it is built and it is shown.            *)
(***************************************************************************)
EXTENDS Snapshot, WellFoundedInduction, TLAPS

(* The attributes that hold one value, the maps a fold sets one key of,    *)
(* and the maps written in ways of their own.                              *)
Scalars ==
  {"outdoor_temperature", "wind_speed", "rain_alarm", "hail_alarm",
   "blinds_maintenance", "person_info"}

KeyedMaps ==
  {"wind_alarms", "indoor_temperatures", "climate_zones", "scenes",
   "scene_states", "humidities", "intercom_ringing", "intercom_callers",
   "infoboard_contents", "chart_targets"}

OtherMaps ==
  {"charts", "unit_hints", "chart_today_buckets", "gsa_cameras",
   "gsa_door_labels"}

Names == Scalars \cup KeyedMaps \cup OtherMaps

IsMap(map) == map = [k \in DOMAIN map |-> map[k]]

ChartShaped(chart) ==
  /\ IsMap(chart) /\ IsMap(chart.stands)
  /\ DOMAIN chart =
       {"unit", "stands", "label", "category", "summed_chart_ids"}

Shaped(s) ==
  /\ IsMap(s)
  /\ DOMAIN s = Names
  /\ \A name \in KeyedMaps \cup OtherMaps : IsMap(s[name])
  /\ \A c \in DOMAIN s.charts : ChartShaped(s.charts[c])
  /\ \A c \in DOMAIN s.chart_today_buckets : IsMap(s.chart_today_buckets[c])

(* What folding a frame into s gives, and folding it into that again.      *)
Settles(s, once, twice) ==
  /\ Shaped(once.snap)
  /\ once.changed = FALSE => once.snap = s
  /\ twice = Same(once.snap)
-----------------------------------------------------------------------------
(* Setting a key: what is there afterwards, and that it is quiet again.    *)
LEMMA PutMakes ==
  ASSUME NEW map, NEW key, NEW value
  PROVE  /\ IsMap(Put(map, key, value))
         /\ DOMAIN Put(map, key, value) = DOMAIN map \cup {key}
         /\ Put(map, key, value)[key] = value
         /\ \A k \in DOMAIN map : k # key => Put(map, key, value)[k] = map[k]
         /\ ~Differs(Put(map, key, value), key, value)
BY DEF Put, IsMap, Differs

(* Setting a key to what it holds leaves the map as it is.                 *)
LEMMA PutAgain ==
  ASSUME NEW map, IsMap(map), NEW key, NEW value, ~Differs(map, key, value)
  PROVE  Put(map, key, value) = map
BY DEF Put, IsMap, Differs

(* The same of an update with a map.                                       *)
LEMMA UpdateMakes ==
  ASSUME NEW map, NEW other
  PROVE  /\ IsMap(Update(map, other))
         /\ \A k \in DOMAIN other : ~Differs(Update(map, other), k, other[k])
BY DEF Update, IsMap, Differs, Get

(* An update that brings nothing new leaves the map as it is.              *)
LEMMA UpdateAgain ==
  ASSUME NEW map, IsMap(map), NEW other,
         \A k \in DOMAIN other : ~Differs(map, k, other[k])
  PROVE  Update(map, other) = map
BY DEF Update, IsMap, Differs, Get

(* An attribute set to its value leaves the record as it is.               *)
LEMMA SettingAgain ==
  ASSUME NEW s, IsMap(s), NEW name \in DOMAIN s
  PROVE  [s EXCEPT ![name] = s[name]] = s
BY DEF IsMap
-----------------------------------------------------------------------------
(* The whole attribute is replaced.                                        *)
LEMMA SetAttrSettles ==
  ASSUME NEW s, Shaped(s), NEW name \in Scalars, NEW value
  PROVE  LET once == SetAttr(s, name, value)
         IN  Settles(s, once, SetAttr(once.snap, name, value))
<1> DEFINE once == SetAttr(s, name, value)
<1>1. name \in DOMAIN s /\ name \notin KeyedMaps \cup OtherMaps
  BY DEF Shaped, Names, Scalars, KeyedMaps, OtherMaps
<1>2. /\ once.snap = [s EXCEPT ![name] = value]
      /\ once.changed = (s[name] # value)
  BY DEF SetAttr, Folded
<1>3. /\ once.snap[name] = value /\ DOMAIN once.snap = DOMAIN s
      /\ \A n \in Names \ {name} : once.snap[n] = s[n]
  BY <1>1, <1>2 DEF Shaped
<1>4. IsMap(once.snap)
  BY <1>2 DEF IsMap
<1>5. Shaped(once.snap)
  BY <1>1, <1>3, <1>4 DEF Shaped, Names, KeyedMaps, OtherMaps
<1>6. once.changed = FALSE => once.snap = s
  BY <1>1, <1>2, SettingAgain DEF Shaped
<1>7. SetAttr(once.snap, name, value) = Same(once.snap)
  BY <1>1, <1>3, <1>4, SettingAgain DEF SetAttr, Same, Folded
<1> QED BY <1>5, <1>6, <1>7 DEF Settles

(* One key of one map is set.                                              *)
LEMMA SetKeySettles ==
  ASSUME NEW s, Shaped(s), NEW name \in KeyedMaps, NEW key, NEW value
  PROVE  LET once == SetKey(s, name, key, value)
         IN  Settles(s, once, SetKey(once.snap, name, key, value))
<1> DEFINE once == SetKey(s, name, key, value)
           map  == Put(s[name], key, value)
<1>1. /\ name \in DOMAIN s /\ name \notin OtherMaps
      /\ IsMap(s[name])
  BY DEF Shaped, Names, Scalars, KeyedMaps, OtherMaps
<1>2. /\ once.snap = [s EXCEPT ![name] = map]
      /\ once.changed = Differs(s[name], key, value)
  BY <1>1 DEF SetKey, Folded
<1>3. /\ once.snap[name] = map /\ DOMAIN once.snap = DOMAIN s
      /\ \A n \in Names \ {name} : once.snap[n] = s[n]
  BY <1>1, <1>2 DEF Shaped
<1>4. IsMap(once.snap)
  BY <1>2 DEF IsMap
<1>m. IsMap(map) /\ ~Differs(map, key, value)
  BY PutMakes
<1>5. Shaped(once.snap)
  BY <1>1, <1>3, <1>4, <1>m DEF Shaped, Names, KeyedMaps, OtherMaps
<1>6. once.changed = FALSE => once.snap = s
  <2>1. SUFFICES ASSUME ~Differs(s[name], key, value) PROVE once.snap = s
    BY <1>2
  <2>2. map = s[name]
    BY <1>1, <2>1, PutAgain
  <2> QED BY <1>1, <1>2, <2>2, SettingAgain DEF Shaped
<1>7. SetKey(once.snap, name, key, value) = Same(once.snap)
  <2>1. Put(once.snap[name], key, value) = once.snap[name]
    BY <1>3, <1>m, PutAgain
  <2>2. [once.snap EXCEPT ![name] = once.snap[name]] = once.snap
    BY <1>1, <1>3, <1>4, SettingAgain
  <2>3. Differs(once.snap[name], key, value) = FALSE
    BY <1>3, <1>m DEF Differs
  <2>4. SetKey(once.snap, name, key, value)
          = Folded([once.snap EXCEPT ![name] = once.snap[name]], FALSE)
    BY <1>1, <1>3, <2>1, <2>3 DEF SetKey
  <2> QED BY <2>2, <2>4 DEF Same
<1> QED BY <1>5, <1>6, <1>7 DEF Settles
-----------------------------------------------------------------------------
(* The empty map.                                                          *)
LEMMA NoKeys == DOMAIN <<>> = {} /\ IsMap(<<>>)
BY DEF IsMap

(* A chart's reading is there, or starts as the empty one.                 *)
LEMMA ChartOfShaped ==
  ASSUME NEW s, Shaped(s), NEW id
  PROVE  ChartShaped(ChartOf(s, id))
<1>1. ChartShaped(ChartReading)
  BY NoKeys DEF ChartShaped, ChartReading, IsMap
<1> QED BY <1>1 DEF ChartOf, Get, Shaped

(* Putting a chart keeps the shape.                                        *)
LEMMA PutChartMakes ==
  ASSUME NEW s, Shaped(s), NEW id, NEW chart, ChartShaped(chart),
         NEW changed
  PROVE  LET once == PutChart(s, id, chart, changed)
         IN  /\ Shaped(once.snap) /\ once.changed = changed
             /\ id \in DOMAIN once.snap.charts /\ once.snap.charts[id] = chart
             /\ ChartOf(once.snap, id) = chart
<1> DEFINE once == PutChart(s, id, chart, changed)
           map  == Put(s.charts, id, chart)
<1>1. /\ "charts" \in DOMAIN s /\ "charts" \notin KeyedMaps
      /\ "charts" \in OtherMaps
  BY DEF Shaped, Names, KeyedMaps, OtherMaps
<1>2. once.snap = [s EXCEPT !.charts = map] /\ once.changed = changed
  BY <1>1 DEF PutChart, Folded
<1>3. /\ once.snap.charts = map /\ DOMAIN once.snap = DOMAIN s
      /\ \A n \in Names \ {"charts"} : once.snap[n] = s[n]
  BY <1>1, <1>2 DEF Shaped
<1>4. IsMap(once.snap)
  BY <1>2 DEF IsMap
<1>5. /\ IsMap(map) /\ DOMAIN map = DOMAIN s.charts \cup {id}
      /\ map[id] = chart
      /\ \A c \in DOMAIN s.charts : c # id => map[c] = s.charts[c]
  BY DEF Put, IsMap
<1>6. \A c \in DOMAIN map : ChartShaped(map[c])
  BY <1>5 DEF Shaped
<1>7. Shaped(once.snap)
  BY <1>1, <1>3, <1>4, <1>5, <1>6 DEF Shaped, Names, KeyedMaps, OtherMaps
<1>8. ChartOf(once.snap, id) = chart
  BY <1>3, <1>5 DEF ChartOf, Get
<1> QED BY <1>2, <1>3, <1>5, <1>7, <1>8

(* Putting back a chart that is there changes nothing.                     *)
LEMMA PutChartAgain ==
  ASSUME NEW s, Shaped(s), NEW id \in DOMAIN s.charts, NEW changed
  PROVE  PutChart(s, id, s.charts[id], changed) = Folded(s, changed)
<1>1. "charts" \in DOMAIN s /\ IsMap(s) /\ IsMap(s.charts)
  BY DEF Shaped, Names, OtherMaps
<1>2. ~Differs(s.charts, id, s.charts[id])
  BY DEF Differs
<1>3. Put(s.charts, id, s.charts[id]) = s.charts
  BY <1>1, <1>2, PutAgain
<1>4. [s EXCEPT !.charts = s.charts] = s
  BY <1>1, SettingAgain
<1> QED BY <1>1, <1>3, <1>4 DEF PutChart

(* A series of a chart is set; the chart is made if it was not there.      *)
LEMMA ApplyStandSettles ==
  ASSUME NEW s, Shaped(s), NEW id, NEW series, NEW reading
  PROVE  LET once == ApplyStand(s, id, series, reading)
         IN  Settles(s, once, ApplyStand(once.snap, id, series, reading))
<1> DEFINE old   == ChartOf(s, id)
           chart == [old EXCEPT !.stands = Put(@, series, reading)]
           news  == Differs(old.stands, series, reading)
           once  == ApplyStand(s, id, series, reading)
<1>1. ChartShaped(old)
  BY ChartOfShaped
<1>2. once = PutChart(s, id, chart, news)
  BY DEF ApplyStand
<1>3. /\ IsMap(Put(old.stands, series, reading))
      /\ ~Differs(Put(old.stands, series, reading), series, reading)
  BY PutMakes
<1>4. /\ chart.stands = Put(old.stands, series, reading)
      /\ IsMap(chart) /\ DOMAIN chart = DOMAIN old
  BY <1>1 DEF ChartShaped, IsMap
<1>5. ChartShaped(chart)
  BY <1>1, <1>3, <1>4 DEF ChartShaped
<1>6. /\ Shaped(once.snap) /\ once.changed = news
      /\ id \in DOMAIN once.snap.charts /\ once.snap.charts[id] = chart
      /\ ChartOf(once.snap, id) = chart
  BY <1>2, <1>5, PutChartMakes
<1>7. once.changed = FALSE => once.snap = s
  <2>1. SUFFICES ASSUME ~news PROVE once.snap = s
    BY <1>6
  <2>2. id \in DOMAIN s.charts /\ old = s.charts[id]
    BY <2>1, NoKeys DEF Differs, ChartOf, Get, ChartReading
  <2>3. Put(old.stands, series, reading) = old.stands
    BY <1>1, <2>1, PutAgain DEF ChartShaped
  <2>4. [old EXCEPT !.stands = old.stands] = old
    BY <1>1, SettingAgain DEF ChartShaped
  <2>5. chart = old
    BY <1>1, <2>3, <2>4 DEF ChartShaped
  <2>6. PutChart(s, id, s.charts[id], news) = Folded(s, news)
    BY <2>2, PutChartAgain
  <2> QED BY <1>2, <2>2, <2>5, <2>6 DEF Folded
<1>8. ApplyStand(once.snap, id, series, reading) = Same(once.snap)
  <2>1. Put(chart.stands, series, reading) = chart.stands
    BY <1>3, <1>4, PutAgain
  <2>2. [chart EXCEPT !.stands = chart.stands] = chart
    BY <1>5, SettingAgain DEF ChartShaped
  <2>3. [chart EXCEPT !.stands = Put(@, series, reading)] = chart
    BY <1>5, <2>1, <2>2 DEF ChartShaped
  <2>4. Differs(chart.stands, series, reading) = FALSE
    BY <1>3, <1>4 DEF Differs
  <2>5. PutChart(once.snap, id, chart, FALSE) = Folded(once.snap, FALSE)
    BY <1>6, PutChartAgain
  <2>6. ApplyStand(once.snap, id, series, reading)
          = PutChart(once.snap, id,
                     [chart EXCEPT !.stands = Put(@, series, reading)],
                     Differs(chart.stands, series, reading))
    BY <1>6 DEF ApplyStand
  <2> QED BY <2>3, <2>4, <2>5, <2>6 DEF Same
<1> QED BY <1>6, <1>7, <1>8 DEF Settles
-----------------------------------------------------------------------------
(* Min of a set of numbers is one of them.                                 *)
LEMMA LeastOf ==
  ASSUME NEW S, S \subseteq Nat, S # {}
  PROVE  Min(S) \in S /\ \A i \in S : Min(S) <= i
<1> DEFINE Less == {pair \in Nat \X Nat : pair[1] < pair[2]}
<1>1. IsWellFoundedOn(Less, Nat)
  BY NatLessThanWellFounded DEF OpToRel
<1> HIDE DEF Less
<1>2. PICK m \in S : \A i \in S : ~(<<i, m>> \in Less)
  BY <1>1, WFMin
<1>3. ASSUME NEW i \in S PROVE m <= i
  <2>1. m \in Nat /\ i \in Nat
    OBVIOUS
  <2>2. ~(i < m)
    BY <1>2, <2>1 DEF Less
  <2> QED BY <2>1, <2>2
<1>4. \E x \in S : \A y \in S : x <= y
  BY <1>3
<1> QED BY <1>4 DEF Min

(* A title that is words keeps a word when it is cleaned.                  *)
LEMMA LabelHasWords ==
  ASSUME NEW title \in Seq(STRING), title # <<>>
  PROVE  CleanChartLabel(title) # <<>>
<1> DEFINE words   == STRING \cup {"Elektro", "Electricity", "Waerme",
                        "Heating", "Kaltwasser", "Cold", "water", "Warmwasser",
                        "Hot", "PV", "Anteil", "electricity", "SUMME"}
           site    == {i \in 2..Len(title) : title[i] = SiteCode}
           cleaned == IF site = {} THEN title
                      ELSE SubSeq(title, 1, Min(site) - 1)
           known   == {i \in DOMAIN ChartLabelEnglish :
                         IsPrefix(ChartLabelEnglish[i][1], cleaned)}
           first   == ChartLabelEnglish[Min(known)]
           rest    == SubSeq(cleaned, Len(first[1]) + 1, Len(cleaned))
<1>0. title \in Seq(words)
  OBVIOUS
<1>1. cleaned \in Seq(words) /\ cleaned # <<>>
  <2>1. CASE site = {}
    BY <1>0, <2>1
  <2>2. CASE site # {}
    <3>1. site \subseteq Nat
      OBVIOUS
    <3>2. Min(site) \in site
      BY <2>2, <3>1, LeastOf
    <3> DEFINE m == Min(site) - 1
    <3>3. m \in 1..Len(title)
      BY <3>2
    <3>4. cleaned = SubSeq(title, 1, m)
      BY <2>2
    <3> HIDE DEF m, cleaned, site, words
    <3>5. /\ SubSeq(title, 1, m) \in Seq(words)
          /\ Len(SubSeq(title, 1, m)) = m
      BY <1>0, <3>3
    <3> QED BY <3>3, <3>4, <3>5
  <2> QED BY <2>1, <2>2
<1>2. CleanChartLabel(title)
        = IF known = {} THEN cleaned ELSE first[2] \o rest
  BY DEF CleanChartLabel
<1>3. known \subseteq 1..7
  BY DEF ChartLabelEnglish
<1> HIDE DEF known, cleaned, words
<1>4. CASE known = {}
  BY <1>1, <1>2, <1>4
<1>5. CASE known # {}
  <2>1. Min(known) \in 1..7
    <3>1. known \subseteq Nat
      BY <1>3
    <3> QED BY <1>3, <1>5, <3>1, LeastOf
  <2>2. \A i \in 1..7 : /\ ChartLabelEnglish[i][1] \in Seq(words)
                        /\ ChartLabelEnglish[i][2] \in Seq(words)
                        /\ Len(ChartLabelEnglish[i][2]) > 0
    <3> DEFINE Good(entry) == /\ entry[1] \in Seq(words)
                              /\ entry[2] \in Seq(words)
                              /\ Len(entry[2]) > 0
    <3>1. /\ Good(ChartLabelEnglish[1]) /\ Good(ChartLabelEnglish[2])
          /\ Good(ChartLabelEnglish[3]) /\ Good(ChartLabelEnglish[4])
      BY DEF ChartLabelEnglish, words
    <3>2. /\ Good(ChartLabelEnglish[5]) /\ Good(ChartLabelEnglish[6])
          /\ Good(ChartLabelEnglish[7])
      BY DEF ChartLabelEnglish, words
    <3>3. \A i \in 1..7 : i \in {1, 2, 3, 4, 5, 6, 7}
      OBVIOUS
    <3> HIDE DEF Good
    <3>4. \A i \in 1..7 : Good(ChartLabelEnglish[i])
      BY <3>1, <3>2, <3>3
    <3> QED BY <3>4 DEF Good
  <2>3. /\ first[1] \in Seq(words)
        /\ first[2] \in Seq(words)
        /\ Len(first[2]) > 0
    BY <2>1, <2>2
  <2> HIDE DEF first
  <2>4. rest \in Seq(words)
    BY <1>1, <2>3
  <2> HIDE DEF rest
  <2>5. Len(first[2] \o rest) > 0
    BY <2>3, <2>4
  <2> QED BY <1>2, <1>5, <2>5
<1> QED BY <1>4, <1>5
-----------------------------------------------------------------------------
(* A frame that is not folded.                                             *)
LEMMA SameSettles ==
  ASSUME NEW s, Shaped(s)
  PROVE  Settles(s, Same(s), Same(Same(s).snap))
BY DEF Settles, Same, Folded

(* One map of the others is replaced.                                      *)
LEMMA OtherReplaced ==
  ASSUME NEW s, Shaped(s), NEW name \in OtherMaps \ {"charts"}, NEW map,
         IsMap(map),
         name = "chart_today_buckets" => \A c \in DOMAIN map : IsMap(map[c])
  PROVE  LET made == [s EXCEPT ![name] = map]
         IN  /\ Shaped(made) /\ made[name] = map
             /\ map = s[name] => made = s
             /\ [made EXCEPT ![name] = map] = made
<1> DEFINE made == [s EXCEPT ![name] = map]
<1>1. name \in DOMAIN s
  BY DEF Shaped, Names
<1>2. /\ made[name] = map /\ DOMAIN made = DOMAIN s /\ IsMap(made)
      /\ \A n \in Names \ {name} : made[n] = s[n]
  BY <1>1 DEF Shaped, IsMap
<1>3. Shaped(made)
  BY <1>1, <1>2 DEF Shaped, Names, KeyedMaps, OtherMaps
<1>4. map = s[name] => made = s
  BY <1>1, SettingAgain DEF Shaped
<1>5. [made EXCEPT ![name] = map] = made
  BY <1>1, <1>2, SettingAgain
<1> QED BY <1>2, <1>3, <1>4, <1>5

(* A series of today's buckets is set.                                     *)
LEMMA ApplyChartRangeStandSettles ==
  ASSUME NEW s, Shaped(s), NEW id, NEW body
  PROVE  LET once == ApplyChartRangeStand(s, id, body)
         IN  Settles(s, once, ApplyChartRangeStand(once.snap, id, body))
<1> DEFINE Fold(x) == ApplyChartRangeStand(x, id, body)
           once    == Fold(s)
<1>1. CASE body.form # "stand" \/ SafeFloat(body.reading) = None
  <2>1. \A x : Fold(x) = Same(x)
    BY <1>1 DEF ApplyChartRangeStand
  <2>2. once = Same(s) /\ Fold(once.snap) = Same(Same(s).snap)
    BY <2>1
  <2> HIDE DEF Fold, once
  <2>3. Settles(s, once, Fold(once.snap))
    BY <2>2, SameSettles
  <2> QED BY <2>3 DEF Fold, once
<1>2. CASE ~(body.form # "stand" \/ SafeFloat(body.reading) = None)
  <2> DEFINE Old(x) == Get(x.chart_today_buckets, id, <<>>)
             New(x) == Put(x.chart_today_buckets, id,
                           Put(Old(x), body.series, body.reading))
             Says(x) == Differs(Old(x), body.series, body.reading)
  <2>1. ASSUME NEW x, Shaped(x)
        PROVE  Fold(x) = Folded([x EXCEPT !.chart_today_buckets = New(x)],
                                Says(x))
    <3>1. "chart_today_buckets" \in DOMAIN x
      BY <2>1 DEF Shaped, Names, OtherMaps
    <3> QED BY <1>2, <3>1 DEF ApplyChartRangeStand
  <2>2. "chart_today_buckets" \in OtherMaps \ {"charts"}
    BY DEF OtherMaps
  <2>3. ASSUME NEW x, Shaped(x)
        PROVE  /\ IsMap(Old(x)) /\ IsMap(x.chart_today_buckets)
               /\ \A c \in DOMAIN x.chart_today_buckets :
                    IsMap(x.chart_today_buckets[c])
    BY <2>2, <2>3, NoKeys DEF Shaped, Get
  <2>4. ASSUME NEW x, Shaped(x)
        PROVE  /\ IsMap(New(x)) /\ id \in DOMAIN New(x)
               /\ New(x)[id] = Put(Old(x), body.series, body.reading)
               /\ \A c \in DOMAIN New(x) : IsMap(New(x)[c])
    <3> DEFINE inner == Put(Old(x), body.series, body.reading)
    <3>1. IsMap(inner)
      BY PutMakes
    <3> HIDE DEF inner
    <3>2. LET new == Put(x.chart_today_buckets, id, inner)
          IN  /\ IsMap(new) /\ id \in DOMAIN new /\ new[id] = inner
              /\ DOMAIN new = DOMAIN x.chart_today_buckets \cup {id}
              /\ \A c \in DOMAIN x.chart_today_buckets :
                   c # id => new[c] = x.chart_today_buckets[c]
      BY DEF Put, IsMap
    <3>3. LET new == Put(x.chart_today_buckets, id, inner)
          IN  \A c \in DOMAIN new : IsMap(new[c])
      BY <2>3, <2>4, <3>1, <3>2
    <3> QED BY <3>2, <3>3 DEF inner
  <2>5. ASSUME NEW x, Shaped(x), ~Says(x)
        PROVE  New(x) = x.chart_today_buckets
    <3>1. id \in DOMAIN x.chart_today_buckets
      BY <2>5, NoKeys DEF Differs, Get
    <3>2. Put(Old(x), body.series, body.reading) = Old(x)
      BY <2>3, <2>5, PutAgain
    <3>3. ~Differs(x.chart_today_buckets, id, Old(x))
      BY <3>1 DEF Differs, Get
    <3> QED BY <2>3, <2>5, <3>2, <3>3, PutAgain
  <2>6. /\ once = Folded([s EXCEPT !.chart_today_buckets = New(s)], Says(s))
        /\ once.snap = [s EXCEPT !.chart_today_buckets = New(s)]
        /\ once.changed = Says(s)
    BY <2>1 DEF Folded
  <2>7. /\ Shaped(once.snap) /\ once.snap.chart_today_buckets = New(s)
        /\ New(s) = s.chart_today_buckets => once.snap = s
        /\ [once.snap EXCEPT !.chart_today_buckets = New(s)] = once.snap
    BY <2>2, <2>4, <2>6, OtherReplaced
  <2>8. /\ Old(once.snap) = Put(Old(s), body.series, body.reading)
        /\ ~Says(once.snap)
    <3>1. Old(once.snap) = New(s)[id]
      BY <2>4, <2>7 DEF Get
    <3>2. ~Differs(Put(Old(s), body.series, body.reading),
                   body.series, body.reading)
      BY PutMakes
    <3> QED BY <2>4, <3>1, <3>2
  <2>9. Says(once.snap) = FALSE
    BY <2>8 DEF Differs
  <2>10. New(once.snap) = New(s)
    BY <2>5, <2>7, <2>8
  <2> HIDE DEF New, Says, Old
  <2>11. Fold(once.snap) = Same(once.snap)
    BY <2>1, <2>7, <2>9, <2>10 DEF Same
  <2>12. once.changed = FALSE => once.snap = s
    BY <2>5, <2>6, <2>7
  <2> QED BY <2>7, <2>11, <2>12 DEF Settles
<1> QED BY <1>1, <1>2

(* The row's hints replace what was known of their signals.                *)
LEMMA ApplyStatusEntrySettles ==
  ASSUME NEW s, Shaped(s), NEW body
  PROVE  LET once == ApplyStatusEntry(s, body)
         IN  Settles(s, once, ApplyStatusEntry(once.snap, body))
<1> DEFINE hints    == body.hints
           Known(x) == \A signal \in DOMAIN hints :
                         ~Differs(x.unit_hints, signal, hints[signal])
           Fold(x)  == ApplyStatusEntry(x, body)
           once     == Fold(s)
<1>1. "unit_hints" \in OtherMaps \ {"charts"}
  BY DEF OtherMaps
<1>2. \A x : Known(x) => Fold(x) = Same(x)
  BY DEF ApplyStatusEntry
<1>3. CASE Known(s)
  <2>1. once = Same(s) /\ once.snap = s
    BY <1>2, <1>3 DEF Same, Folded
  <2> HIDE DEF once
  <2>2. Fold(once.snap) = Same(once.snap)
    BY <1>2, <1>3, <2>1
  <2> QED BY <2>1, <2>2 DEF Settles, once
<1>4. CASE ~Known(s)
  <2> DEFINE new == Update(s.unit_hints, hints)
  <2>1. "unit_hints" \in DOMAIN s
    BY <1>1 DEF Shaped, Names
  <2>2. /\ once.snap = [s EXCEPT !.unit_hints = new]
        /\ once.changed = TRUE
    BY <1>4, <2>1 DEF ApplyStatusEntry, Folded
  <2>3. /\ IsMap(new)
        /\ \A k \in DOMAIN hints : ~Differs(new, k, hints[k])
    BY UpdateMakes
  <2> HIDE DEF once, new
  <2>4. Shaped(once.snap) /\ once.snap.unit_hints = new
    BY <1>1, <2>2, <2>3, OtherReplaced
  <2>5. Fold(once.snap) = Same(once.snap)
    BY <1>2, <2>3, <2>4
  <2> QED BY <2>2, <2>4, <2>5 DEF Settles, once
<1> QED BY <1>3, <1>4
-----------------------------------------------------------------------------
(* A definition replaces the fields it has; its label has a word, so a     *)
(* chart it makes is never reported as unchanged.                          *)
LEMMA ApplyChartDefinitionSettles ==
  ASSUME NEW s, Shaped(s), NEW id, NEW body,
         body.form = "definition" => body.title \in Seq(STRING)
  PROVE  LET once == ApplyChartDefinition(s, id, body)
         IN  Settles(s, once, ApplyChartDefinition(once.snap, id, body))
<1> DEFINE Fold(x) == ApplyChartDefinition(x, id, body)
           once    == Fold(s)
           Label   == CleanChartLabel(body.title)
           New(o)  ==
             [o EXCEPT !.label = Label,
                       !.category = IF body.fields > 13 THEN body.category
                                    ELSE @,
                       !.unit = IF body.fields > 14 /\ @ = "" THEN body.unit
                                ELSE @,
                       !.summed_chart_ids = body.summed]
           Says(o) == \/ o.label # New(o).label
                      \/ o.category # New(o).category
                      \/ o.unit # New(o).unit
                      \/ o.summed_chart_ids # New(o).summed_chart_ids
<1>1. CASE body.form # "definition" \/ body.title = <<>>
  <2>1. \A x : Fold(x) = Same(x)
    BY <1>1 DEF ApplyChartDefinition
  <2>2. once = Same(s) /\ Fold(once.snap) = Same(Same(s).snap)
    BY <2>1
  <2> HIDE DEF Fold, once
  <2>3. Settles(s, once, Fold(once.snap))
    BY <2>2, SameSettles
  <2> QED BY <2>3 DEF Fold, once
<1>2. CASE ~(body.form # "definition" \/ body.title = <<>>)
  <2> DEFINE old == ChartOf(s, id)
  <2>1. \A x : LET o == ChartOf(x, id)
               IN  Fold(x) = PutChart(x, id, New(o), Says(o))
    BY <1>2 DEF ApplyChartDefinition
  <2>2. Label # <<>>
    BY <1>2, LabelHasWords
  <2> HIDE DEF Label
  <2>3. ASSUME NEW o, ChartShaped(o)
        PROVE  /\ IsMap(New(o)) /\ DOMAIN New(o) = DOMAIN o
               /\ New(o).label = Label /\ New(o).stands = o.stands
               /\ New(o).category = IF body.fields > 13 THEN body.category
                                    ELSE o.category
               /\ New(o).unit = IF body.fields > 14 /\ o.unit = ""
                                THEN body.unit ELSE o.unit
               /\ New(o).summed_chart_ids = body.summed
    BY <2>3 DEF ChartShaped, IsMap
  <2> HIDE DEF New
  <2>4. ASSUME NEW o, ChartShaped(o) PROVE ChartShaped(New(o))
    BY <2>3, <2>4 DEF ChartShaped
  <2>5. ASSUME NEW o, ChartShaped(o), ~Says(o) PROVE New(o) = o
    <3>1. \A k \in DOMAIN o : New(o)[k] = o[k]
      BY <2>3, <2>5 DEF ChartShaped
    <3> QED BY <2>3, <2>5, <3>1 DEF ChartShaped, IsMap
  <2>6. ASSUME NEW o, ChartShaped(o) PROVE ~Says(New(o))
    <3>1. ChartShaped(New(o))
      BY <2>4, <2>6
    <3>2. LET n == New(o)
          IN  /\ New(n).label = n.label /\ New(n).category = n.category
              /\ New(n).summed_chart_ids = n.summed_chart_ids
      BY <2>3, <2>6, <3>1
    <3>3. New(New(o)).unit = New(o).unit
      BY <2>3, <2>6, <3>1
    <3> QED BY <3>2, <3>3
  <2>7. Says(old) \in BOOLEAN /\ Says(New(old)) = FALSE
    BY <2>6, ChartOfShaped
  <2>8. ~Says(old) => id \in DOMAIN s.charts /\ old = s.charts[id]
    <3>1. ~Says(old) => old.label = Label
      BY <2>3, ChartOfShaped
    <3> QED BY <2>2, <3>1 DEF ChartOf, Get, ChartReading
  <2> HIDE DEF Says
  <2>9. ChartShaped(old) /\ ChartShaped(New(old))
    BY <2>4, ChartOfShaped
  <2>10. once = PutChart(s, id, New(old), Says(old))
    BY <2>1
  <2> HIDE DEF once, old, Fold
  <2>11. /\ Shaped(once.snap) /\ once.changed = Says(old)
         /\ id \in DOMAIN once.snap.charts
         /\ once.snap.charts[id] = New(old)
         /\ ChartOf(once.snap, id) = New(old)
    BY <2>9, <2>10, PutChartMakes
  <2>12. once.changed = FALSE => once.snap = s
    <3>1. SUFFICES ASSUME ~Says(old) PROVE once.snap = s
      BY <2>11
    <3>2. id \in DOMAIN s.charts /\ New(old) = s.charts[id]
      BY <2>5, <2>8, <2>9, <3>1
    <3>3. PutChart(s, id, s.charts[id], Says(old)) = Folded(s, Says(old))
      BY <3>2, PutChartAgain
    <3> QED BY <2>10, <3>2, <3>3 DEF Folded
  <2>13. Fold(once.snap) = Same(once.snap)
    <3>1. New(New(old)) = New(old)
      BY <2>5, <2>7, <2>9
    <3>2. Fold(once.snap) = PutChart(once.snap, id, New(old), FALSE)
      BY <2>1, <2>7, <2>11, <3>1
    <3>3. PutChart(once.snap, id, New(old), FALSE) = Folded(once.snap, FALSE)
      BY <2>11, PutChartAgain
    <3> QED BY <3>2, <3>3 DEF Same
  <2>14. Settles(s, once, Fold(once.snap))
    BY <2>11, <2>12, <2>13 DEF Settles
  <2> QED BY <2>14 DEF Fold, once
<1> QED BY <1>1, <1>2

(* The reply replaces the maps it has a field for.                         *)
LEMMA ApplyGsaConfigSettles ==
  ASSUME NEW s, Shaped(s), NEW body
  PROVE  LET once == ApplyGsaConfig(s, body)
         IN  Settles(s, once, ApplyGsaConfig(once.snap, body))
<1> DEFINE cameras == ParseGsaPairs(body.cameras)
           raw     == ParseGsaPairs(body.doors)
           doors   == [k \in DOMAIN raw |-> TranslateGsaLabel(raw[k])]
           Links(x) == IF body.fields > 3 THEN cameras ELSE x.gsa_cameras
           Labels(x) == IF body.fields > 4 THEN doors ELSE x.gsa_door_labels
           With(x, links, labels) ==
             [x EXCEPT !.gsa_cameras = links, !.gsa_door_labels = labels]
           once    == ApplyGsaConfig(s, body)
<1>1. ASSUME NEW x
      PROVE  ApplyGsaConfig(x, body)
               = Folded(With(x, Links(x), Labels(x)),
                        \/ Links(x) # x.gsa_cameras
                        \/ Labels(x) # x.gsa_door_labels)
  BY DEF ApplyGsaConfig
<1>2. IsMap(cameras) /\ IsMap(doors)
  BY DEF IsMap, ParseGsaPairs
<1> HIDE DEF cameras, doors
<1>3. /\ {"gsa_cameras", "gsa_door_labels"} \subseteq DOMAIN s
      /\ {"gsa_cameras", "gsa_door_labels"} \subseteq OtherMaps
      /\ IsMap(s) /\ IsMap(s.gsa_cameras) /\ IsMap(s.gsa_door_labels)
      /\ IsMap(Links(s)) /\ IsMap(Labels(s))
  BY <1>2 DEF Shaped, Names, OtherMaps
<1>4. /\ once.snap = With(s, Links(s), Labels(s))
      /\ once.changed = (\/ Links(s) # s.gsa_cameras
                         \/ Labels(s) # s.gsa_door_labels)
  <2> HIDE DEF With, Links, Labels
  <2> DEFINE says == \/ Links(s) # s.gsa_cameras
                     \/ Labels(s) # s.gsa_door_labels
  <2>1. once = Folded(With(s, Links(s), Labels(s)), says)
    BY <1>1
  <2> HIDE DEF says, once
  <2>2. /\ once.snap = With(s, Links(s), Labels(s))
        /\ once.changed = says
    BY <2>1 DEF Folded
  <2> QED BY <2>2 DEF says
<1> HIDE DEF once, Links, Labels
<1>5. /\ IsMap(once.snap) /\ DOMAIN once.snap = DOMAIN s
      /\ once.snap.gsa_cameras = Links(s)
      /\ once.snap.gsa_door_labels = Labels(s)
      /\ \A n \in Names \ {"gsa_cameras", "gsa_door_labels"} :
           once.snap[n] = s[n]
  <2>1. IsMap(once.snap) /\ DOMAIN once.snap = DOMAIN s
    BY <1>4 DEF IsMap
  <2>2. /\ once.snap.gsa_cameras = Links(s)
        /\ once.snap.gsa_door_labels = Labels(s)
    BY <1>3, <1>4
  <2>3. \A n \in Names \ {"gsa_cameras", "gsa_door_labels"} :
          once.snap[n] = s[n]
    BY <1>4 DEF Shaped
  <2> QED BY <2>1, <2>2, <2>3
<1>6. Shaped(once.snap)
  BY <1>3, <1>5 DEF Shaped, Names, KeyedMaps, OtherMaps
<1>7. ASSUME NEW x, IsMap(x) PROVE With(x, x.gsa_cameras, x.gsa_door_labels) = x
  BY <1>7 DEF IsMap
<1>8. once.changed = FALSE => once.snap = s
  BY <1>3, <1>4, <1>7
<1>9. ApplyGsaConfig(once.snap, body) = Same(once.snap)
  <2>1. /\ Links(once.snap) = once.snap.gsa_cameras
        /\ Labels(once.snap) = once.snap.gsa_door_labels
    BY <1>5 DEF Links, Labels
  <2> HIDE DEF With
  <2>2. ApplyGsaConfig(once.snap, body)
          = Folded(With(once.snap, once.snap.gsa_cameras,
                        once.snap.gsa_door_labels), FALSE)
    BY <1>1, <2>1
  <2> QED BY <1>5, <1>7, <2>2 DEF Same
<1> QED BY <1>6, <1>8, <1>9 DEF Settles, once
-----------------------------------------------------------------------------
(* A zone that is cleared is known from then on.                           *)
LEMMA ApplyHumiditySettles ==
  ASSUME NEW s, Shaped(s), NEW zone, NEW body
  PROVE  LET once == ApplyHumidity(s, zone, body)
         IN  Settles(s, once, ApplyHumidity(once.snap, zone, body))
<1> DEFINE value == SafeFloat(body)
           once  == ApplyHumidity(s, zone, body)
<1>1. CASE value = None /\ zone \notin DOMAIN s.humidities
  <2>1. once = Same(s) /\ once.snap = s
    BY <1>1 DEF ApplyHumidity, Same, Folded
  <2> QED BY <2>1, SameSettles DEF Same, Folded
<1>2. CASE ~(value = None /\ zone \notin DOMAIN s.humidities)
  <2>1. "humidities" \in KeyedMaps /\ "humidities" \in DOMAIN s
    BY DEF KeyedMaps, Shaped, Names
  <2>2. once = SetKey(s, "humidities", zone, value)
    BY <1>2 DEF ApplyHumidity
  <2> HIDE DEF once, value
  <2>3. zone \in DOMAIN once.snap.humidities
    <3>1. once.snap.humidities = Put(s.humidities, zone, value)
      BY <2>1, <2>2 DEF SetKey, Folded
    <3> QED BY <3>1 DEF Put
  <2>4. ApplyHumidity(once.snap, zone, body)
          = SetKey(once.snap, "humidities", zone, value)
    BY <2>3 DEF ApplyHumidity, value
  <2>5. Settles(s, once, SetKey(once.snap, "humidities", zone, value))
    BY <2>1, <2>2, SetKeySettles
  <2> QED BY <2>4, <2>5 DEF once
<1> QED BY <1>1, <1>2

(* A target that is no number is not folded.                               *)
LEMMA ApplyChartTargetSettles ==
  ASSUME NEW s, Shaped(s), NEW id, NEW body
  PROVE  LET once == ApplyChartTarget(s, id, body)
         IN  Settles(s, once, ApplyChartTarget(once.snap, id, body))
<1>1. CASE SafeFloat(body) = None
  BY <1>1, SameSettles DEF ApplyChartTarget
<1>2. CASE SafeFloat(body) # None
  BY <1>2, SetKeySettles DEF ApplyChartTarget, KeyedMaps
<1> QED BY <1>1, <1>2

(* What the body of a chart definition has to be for its handler.          *)
Readable(frame) ==
  frame.body.form = "definition" => frame.body.title \in Seq(STRING)

(* The handlers of _apply_named_value, one by one.                         *)
LEMMA ApplyNamedValueSettles ==
  ASSUME NEW s, Shaped(s), NEW frame, Readable(frame)
  PROVE  LET once == ApplyNamedValue(s, frame)
         IN  Settles(s, once, ApplyNamedValue(once.snap, frame))
<1> DEFINE name    == frame.name
           i       == frame.index
           body    == frame.body
           Fold(x) == ApplyNamedValue(x, frame)
<1> SUFFICES Settles(s, Fold(s), Fold(Fold(s).snap))
  OBVIOUS
<1>1. CASE name = "OutdoorTemperature"
  <2>1. \A x : Fold(x) = SetAttr(x, "outdoor_temperature", SafeFloat(body))
    BY <1>1 DEF ApplyNamedValue
  <2> HIDE DEF Fold, name, i, body
  <2> QED BY <2>1, SetAttrSettles DEF Scalars
<1>2. CASE name = "WindSpeed"
  <2>1. \A x : Fold(x) = SetAttr(x, "wind_speed", SafeFloat(body))
    BY <1>2 DEF ApplyNamedValue
  <2> HIDE DEF Fold, name, i, body
  <2> QED BY <2>1, SetAttrSettles DEF Scalars
<1>3. CASE name = "Rain"
  <2>1. \A x : Fold(x) = SetAttr(x, "rain_alarm", AlarmOn(body))
    BY <1>3 DEF ApplyNamedValue
  <2> HIDE DEF Fold, name, i, body
  <2> QED BY <2>1, SetAttrSettles DEF Scalars
<1>4. CASE name = "Hail"
  <2>1. \A x : Fold(x) = SetAttr(x, "hail_alarm", AlarmOn(body))
    BY <1>4 DEF ApplyNamedValue
  <2> HIDE DEF Fold, name, i, body
  <2> QED BY <2>1, SetAttrSettles DEF Scalars
<1>5. CASE name = "BlindsMaintenance"
  <2>1. \A x : Fold(x) = SetAttr(x, "blinds_maintenance", AlarmOn(body))
    BY <1>5 DEF ApplyNamedValue
  <2> HIDE DEF Fold, name, i, body
  <2> QED BY <2>1, SetAttrSettles DEF Scalars
<1>6. CASE name = "PersonInfo"
  <2>1. \A x : Fold(x) = SetAttr(x, "person_info", UnlessRead(body))
    BY <1>6 DEF ApplyNamedValue
  <2> HIDE DEF Fold, name, i, body
  <2> QED BY <2>1, SetAttrSettles DEF Scalars
<1>7. CASE name = "WindAlarm" /\ i # NoIndex
  <2>1. \A x : Fold(x) = SetKey(x, "wind_alarms", i, AlarmOn(body))
    BY <1>7 DEF ApplyNamedValue
  <2> HIDE DEF Fold, name, i, body
  <2> QED BY <2>1, SetKeySettles DEF KeyedMaps
<1>8. CASE name = "SceneState" /\ i # NoIndex
  <2>1. \A x : Fold(x) = SetKey(x, "scene_states", i, AlarmOn(body))
    BY <1>8 DEF ApplyNamedValue
  <2> HIDE DEF Fold, name, i, body
  <2> QED BY <2>1, SetKeySettles DEF KeyedMaps
<1>9. CASE name = "DoorIntercom" /\ i # NoIndex
  <2>1. \A x : Fold(x) = SetKey(x, "intercom_ringing", i,
                                Flag(body = Word("ring")))
    BY <1>9 DEF ApplyNamedValue
  <2> HIDE DEF Fold, name, i, body
  <2> QED BY <2>1, SetKeySettles DEF KeyedMaps
<1>10. CASE name = "CallInfo" /\ i # NoIndex
  <2>1. \A x : Fold(x) = SetKey(x, "intercom_callers", i,
                                TranslateCallerLabel(body.word))
    BY <1>10 DEF ApplyNamedValue
  <2> HIDE DEF Fold, name, i, body
  <2> QED BY <2>1, SetKeySettles DEF KeyedMaps
<1>11. CASE name = "InfoboardContent" /\ i # NoIndex
  <2>1. \A x : Fold(x) = SetKey(x, "infoboard_contents", i, UnlessRead(body))
    BY <1>11 DEF ApplyNamedValue
  <2> HIDE DEF Fold, name, i, body
  <2> QED BY <2>1, SetKeySettles DEF KeyedMaps
<1>12. CASE name = "ChartRangeStand" /\ i # NoIndex
  <2>1. \A x : Fold(x) = ApplyChartRangeStand(x, i, body)
    BY <1>12 DEF ApplyNamedValue
  <2> HIDE DEF Fold, name, i, body
  <2> QED BY <2>1, ApplyChartRangeStandSettles
<1>13. CASE name = "Humidity" /\ i # NoIndex
  <2>1. \A x : Fold(x) = ApplyHumidity(x, i, body)
    BY <1>13 DEF ApplyNamedValue
  <2> HIDE DEF Fold, name, i, body
  <2> QED BY <2>1, ApplyHumiditySettles
<1>14. CASE name = "ChartTarget" /\ i # NoIndex
  <2>1. \A x : Fold(x) = ApplyChartTarget(x, i, body)
    BY <1>14 DEF ApplyNamedValue
  <2> HIDE DEF Fold, name, i, body
  <2> QED BY <2>1, ApplyChartTargetSettles
<1>15. CASE name = "StatusEntry"
  <2>1. \A x : Fold(x) = ApplyStatusEntry(x, body)
    BY <1>15 DEF ApplyNamedValue
  <2> HIDE DEF Fold, name, i, body
  <2> QED BY <2>1, ApplyStatusEntrySettles
<1>16. CASE name = "ChartDefinition" /\ i # NoIndex
  <2>1. \A x : Fold(x) = ApplyChartDefinition(x, i, body)
    BY <1>16 DEF ApplyNamedValue
  <2>2. body.form = "definition" => body.title \in Seq(STRING)
    BY DEF Readable
  <2> HIDE DEF Fold, name, i, body
  <2> QED BY <2>1, <2>2, ApplyChartDefinitionSettles
<1>17. CASE name = "ChartPointUpdate" /\ i # NoIndex
  <2>1. \A x : Fold(x) = IF body.form # "stand" THEN Same(x)
                         ELSE ApplyStand(x, i, body.series, body.reading)
    BY <1>17 DEF ApplyNamedValue, ApplyChartPoint
  <2> HIDE DEF Fold, name, i, body
  <2> QED BY <2>1, SameSettles, ApplyStandSettles
<1>18. CASE name = "ChartStand"
  <2>1. \A x : Fold(x) = IF body.form # "stand" THEN Same(x)
                         ELSE ApplyStand(x, body.chart, body.series,
                                         body.reading)
    BY <1>18 DEF ApplyNamedValue, ApplyChartStand
  <2> HIDE DEF Fold, name, i, body
  <2> QED BY <2>1, SameSettles, ApplyStandSettles
<1>19. CASE /\ name \notin {"OutdoorTemperature", "WindSpeed", "Rain", "Hail",
                        "BlindsMaintenance", "PersonInfo", "ChartStand",
                        "StatusEntry"}
         /\ \/ i = NoIndex
            \/ name \notin {"WindAlarm", "SceneState", "DoorIntercom",
                           "CallInfo", "InfoboardContent",
                           "ChartRangeStand", "Humidity", "ChartTarget",
                           "ChartDefinition", "ChartPointUpdate"}
  <2>1. \A x : Fold(x) = Same(x)
    BY <1>19 DEF ApplyNamedValue
  <2> HIDE DEF Fold, name, i, body
  <2> QED BY <2>1, SameSettles
<1> HIDE DEF Fold, name, i, body
<1> QED
  BY <1>1, <1>2, <1>3, <1>4, <1>5, <1>6, <1>7, <1>8, <1>9, <1>10, <1>11,
     <1>12, <1>13, <1>14, <1>15, <1>16, <1>17, <1>18, <1>19
(* The handlers of _apply_named_fields.                                    *)
LEMMA ApplyNamedFieldsSettles ==
  ASSUME NEW s, Shaped(s), NEW frame
  PROVE  LET once == ApplyNamedFields(s, frame)
         IN  Settles(s, once, ApplyNamedFields(once.snap, frame))
<1> DEFINE name    == frame.name
           i       == frame.index
           body    == frame.body
           filled  == i # NoIndex /\ body # Empty
           Fold(x) == ApplyNamedFields(x, frame)
<1> SUFFICES Settles(s, Fold(s), Fold(Fold(s).snap))
  OBVIOUS
<1>1. CASE name = "ClimateConfig" /\ filled
  <2>1. \A x : Fold(x) = SetKey(x, "climate_zones", i,
                                ClimateZoneRoom(body.title))
    BY <1>1 DEF ApplyNamedFields
  <2> HIDE DEF Fold, name, i, body
  <2> QED BY <2>1, SetKeySettles DEF KeyedMaps
<1>2. CASE name = "SceneConfig" /\ filled
  <2>1. \A x : Fold(x) = SetKey(x, "scenes", i, body.title)
    BY <1>2 DEF ApplyNamedFields
  <2> HIDE DEF Fold, name, i, body
  <2> QED BY <2>1, SetKeySettles DEF KeyedMaps
<1>3. CASE name = "GsaConfig"
  <2>1. \A x : Fold(x) = ApplyGsaConfig(x, body)
    BY <1>3 DEF ApplyNamedFields
  <2> HIDE DEF Fold, name, i, body
  <2> QED BY <2>1, ApplyGsaConfigSettles
<1>4. CASE /\ name # "GsaConfig"
           /\ ~filled \/ name \notin {"ClimateConfig", "SceneConfig"}
  <2>1. \A x : Fold(x) = Same(x)
    BY <1>4 DEF ApplyNamedFields
  <2> HIDE DEF Fold, name, i, body
  <2> QED BY <2>1, SameSettles
<1> HIDE DEF Fold, name, i, body
<1> QED BY <1>1, <1>2, <1>3, <1>4

(* Folding any frame keeps the snapshot's shape, reports every change and  *)
(* settles (SmartPlaceState.apply).                                        *)
LEMMA ApplySettles ==
  ASSUME NEW s, Shaped(s), NEW frame, Readable(frame)
  PROVE  LET once == Apply(s, frame)
         IN  Settles(s, once, Apply(once.snap, frame))
<1> DEFINE Fold(x) == Apply(x, frame)
<1> SUFFICES Settles(s, Fold(s), Fold(Fold(s).snap))
  OBVIOUS
<1>1. CASE frame.type = "Temperature"
  <2>1. \A x : Fold(x) = SetKey(x, "indoor_temperatures", frame.index,
                                frame.body)
    BY <1>1 DEF Apply
  <2> HIDE DEF Fold
  <2> QED BY <2>1, SetKeySettles DEF KeyedMaps
<1>2. CASE frame.type = "NamedValue"
  <2>1. \A x : Fold(x) = ApplyNamedValue(x, frame)
    BY <1>2 DEF Apply
  <2> HIDE DEF Fold
  <2> QED BY <2>1, ApplyNamedValueSettles
<1>3. CASE frame.type = "NamedFields"
  <2>1. \A x : Fold(x) = ApplyNamedFields(x, frame)
    BY <1>3 DEF Apply
  <2> HIDE DEF Fold
  <2> QED BY <2>1, ApplyNamedFieldsSettles
<1>4. CASE frame.type \notin {"Temperature", "NamedValue", "NamedFields"}
  <2>1. \A x : Fold(x) = Same(x)
    BY <1>4 DEF Apply
  <2> HIDE DEF Fold
  <2> QED BY <2>1, SameSettles
<1> HIDE DEF Fold
<1> QED BY <1>1, <1>2, <1>3, <1>4
-----------------------------------------------------------------------------
(* No other way of writing the snapshot touches the banner.                *)
LEMMA BannerUntouched ==
  ASSUME NEW s, Shaped(s)
  PROVE  /\ Same(s).snap.person_info = s.person_info
         /\ \A name \in Scalars : \A value :
              SetAttr(s, name, value).snap.person_info
                = IF name = "person_info" THEN value ELSE s.person_info
         /\ \A name \in KeyedMaps : \A key, value :
              SetKey(s, name, key, value).snap.person_info = s.person_info
         /\ \A id, chart, changed :
              PutChart(s, id, chart, changed).snap.person_info
                = s.person_info
<1>1. /\ "person_info" \in DOMAIN s
      /\ "person_info" \notin KeyedMaps
  BY DEF Shaped, Names, Scalars, KeyedMaps
<1>2. Same(s).snap.person_info = s.person_info
  BY DEF Same, Folded
<1>3. ASSUME NEW name \in Scalars, NEW value
      PROVE  SetAttr(s, name, value).snap.person_info
               = IF name = "person_info" THEN value ELSE s.person_info
  BY <1>1 DEF SetAttr, Folded
<1>4. ASSUME NEW name \in KeyedMaps, NEW key, NEW value
      PROVE  SetKey(s, name, key, value).snap.person_info = s.person_info
  BY <1>1 DEF SetKey, Folded
<1>5. ASSUME NEW id, NEW chart, NEW changed
      PROVE  PutChart(s, id, chart, changed).snap.person_info
               = s.person_info
  BY <1>1 DEF PutChart, Folded
<1> QED BY <1>2, <1>3, <1>4, <1>5

(* The banner's frame replaces it; every other frame leaves it.            *)
LEMMA BannerFolds ==
  ASSUME NEW s, Shaped(s), NEW frame
  PROVE  Apply(s, frame).snap.person_info
           = IF frame.type = "NamedValue" /\ frame.name = "PersonInfo"
             THEN UnlessRead(frame.body) ELSE s.person_info
<1> DEFINE name == frame.name
           i    == frame.index
           body == frame.body
           Kept(folded) == folded.snap.person_info = s.person_info
<1>0. "person_info" \in DOMAIN s
  BY DEF Shaped, Names, Scalars
<1>1. /\ Kept(Same(s))
      /\ \A n \in Scalars \ {"person_info"} : \A v : Kept(SetAttr(s, n, v))
      /\ \A n \in KeyedMaps : \A k, v : Kept(SetKey(s, n, k, v))
      /\ \A k, chart, changed : Kept(PutChart(s, k, chart, changed))
  BY BannerUntouched
<1>2. \A series, reading, k : Kept(ApplyStand(s, k, series, reading))
  <2> HIDE DEF Kept
  <2> QED BY <1>1 DEF ApplyStand
<1>3. Kept(ApplyChartPoint(s, i, body)) /\ Kept(ApplyChartStand(s, body))
  <2> HIDE DEF Kept
  <2> QED BY <1>1, <1>2 DEF ApplyChartPoint, ApplyChartStand
<1>4. Kept(ApplyChartRangeStand(s, i, body))
  <2>1. \A map, changed :
          Kept(Folded([s EXCEPT !.chart_today_buckets = map], changed))
    BY <1>0 DEF Folded
  <2>2. [s EXCEPT !.chart_today_buckets =
           Put(@, i, Put(Get(s.chart_today_buckets, i, <<>>), body.series,
                         body.reading))]
          = [s EXCEPT !.chart_today_buckets =
               Put(s.chart_today_buckets, i,
                   Put(Get(s.chart_today_buckets, i, <<>>), body.series,
                       body.reading))]
    BY DEF Shaped, Names, OtherMaps
  <2> HIDE DEF Kept
  <2> QED BY <1>1, <2>1, <2>2 DEF ApplyChartRangeStand
<1>5. Kept(ApplyChartDefinition(s, i, body))
  <2> HIDE DEF Kept
  <2> QED BY <1>1 DEF ApplyChartDefinition
<1>6. Kept(ApplyHumidity(s, i, body)) /\ Kept(ApplyChartTarget(s, i, body))
  <2> HIDE DEF Kept
  <2> QED BY <1>1 DEF ApplyHumidity, ApplyChartTarget, KeyedMaps
<1>7. Kept(ApplyStatusEntry(s, body))
  BY <1>0 DEF ApplyStatusEntry, Same, Folded
<1>8. Kept(ApplyGsaConfig(s, body))
  BY <1>0 DEF ApplyGsaConfig, Folded
<1>9. name = "PersonInfo" =>
        ApplyNamedValue(s, frame).snap.person_info = UnlessRead(body)
  <2>1. name = "PersonInfo" =>
          ApplyNamedValue(s, frame)
            = SetAttr(s, "person_info", UnlessRead(body))
    BY DEF ApplyNamedValue
  <2> QED BY <2>1, BannerUntouched DEF Scalars
<1> HIDE DEF Kept
<1>10. name # "PersonInfo" => Kept(ApplyNamedValue(s, frame))
  BY <1>1, <1>3, <1>4, <1>5, <1>6, <1>7
     DEF ApplyNamedValue, Scalars, KeyedMaps
<1>11. Kept(ApplyNamedFields(s, frame))
  BY <1>1, <1>8 DEF ApplyNamedFields, KeyedMaps
<1>12. Kept(SetKey(s, "indoor_temperatures", i, body))
  BY <1>1 DEF KeyedMaps
<1>13. CASE frame.type = "NamedValue" /\ name = "PersonInfo"
  BY <1>9, <1>13 DEF Apply
<1>14. CASE ~(frame.type = "NamedValue" /\ name = "PersonInfo")
  <2>1. Kept(Apply(s, frame))
    BY <1>1, <1>10, <1>11, <1>12, <1>14 DEF Apply
  <2> QED BY <1>14, <2>1 DEF Kept
<1> QED BY <1>13, <1>14
-----------------------------------------------------------------------------
(* What the proofs need of the registry: every definition has a parser     *)
(* that Parse knows, and one definition alone has the name, or the head,   *)
(* of a frame that is folded; only a slot shares the infoboard's head.     *)
Parsers == {"route", "offline", "config", "temperature", "value", "raw",
            "idvalue", "fields", "idfields"}

FoldNames ==
  {"OutdoorTemperature", "WindSpeed", "Rain", "Hail", "BlindsMaintenance",
   "PersonInfo", "StatusEntry", "GsaConfig", "ChartPointUpdate",
   "ChartDefinition", "ChartStand", "ChartRangeStand", "WindAlarm",
   "Temperature", "ClimateConfig", "SceneConfig", "SceneState", "Humidity",
   "DoorIntercom", "CallInfo", "ChartTarget", "InfoboardContent"}

HeadOf(name) ==
  CASE name = "OutdoorTemperature" -> "TEMPOUT"
    [] name = "WindSpeed" -> "WINDGESCHWINDIGKEIT"
    [] name = "Rain" -> "REGEN"
    [] name = "Hail" -> "HAGEL"
    [] name = "BlindsMaintenance" -> "JALWARTUNG"
    [] name = "PersonInfo" -> "PERSINFO"
    [] name = "StatusEntry" -> "StatusInhaltListe"
    [] name = "GsaConfig" -> "GlobalGsa"
    [] name = "ChartPointUpdate" -> "StandsSingelChartUpdate"
    [] name = "ChartDefinition" -> "SingelDiagramm"
    [] name = "ChartStand" -> "CHART"
    [] name = "ChartRangeStand" -> "SingelStandUpdate"
    [] name = "WindAlarm" -> "WINDALARM"
    [] name = "Temperature" -> "TEMPIST"
    [] name = "ClimateConfig" -> "INHALTKlimas"
    [] name = "SceneConfig" -> "INHALTSZENEN"
    [] name = "SceneState" -> "SZENEN"
    [] name = "Humidity" -> "FEUCHTEIST"
    [] name = "DoorIntercom" -> "SPRECHEN"
    [] name = "CallInfo" -> "CALLINFO"
    [] name = "ChartTarget" -> "CHARTZIEL"
    [] name = "InfoboardContent" -> "INFOBOARD"

FoldHeads ==
  {"TEMPOUT", "WINDGESCHWINDIGKEIT", "REGEN", "HAGEL", "JALWARTUNG",
   "PERSINFO", "StatusInhaltListe", "GlobalGsa", "StandsSingelChartUpdate",
   "SingelDiagramm", "CHART", "SingelStandUpdate", "WINDALARM", "TEMPIST",
   "INHALTKlimas", "INHALTSZENEN", "SZENEN", "FEUCHTEIST", "SPRECHEN",
   "CALLINFO", "CHARTZIEL", "INFOBOARD"}

(* The definitions whose frames are folded, by name.                       *)
DefinitionOf(name) ==
  LET head == HeadOf(name)
  IN  CASE name \in {"OutdoorTemperature", "WindSpeed", "Rain", "Hail",
                     "BlindsMaintenance", "PersonInfo"} -> Valued(name, head)
        [] name = "StatusEntry" -> Raw(name, head, "_")
        [] name = "GsaConfig" -> Fields(name, head)
        [] name = "ChartStand" -> Definition(name, head, TRUE, {"STAND"}, "raw")
        [] name = "Temperature" ->
             Definition(name, head, TRUE, {":"}, "temperature")
        [] name = "InfoboardContent" ->
             Definition(name, head, TRUE, {"INHALT:"}, "idvalue")
        [] name \in {"ClimateConfig", "SceneConfig"} -> PerIdFields(name, head)
        [] OTHER -> PerId(name, head)

Known(d) ==
  /\ d.parser \in Parsers
  /\ d.parser = "temperature" => d.name = "Temperature"
  /\ \A n \in FoldNames :
       d.name = n \/ (d.head = HeadOf(n) /\ d.head # "INFOBOARD")
         => d = DefinitionOf(n)

(* The folded heads are told apart by their names.                         *)
LEMMA HeadsDiffer ==
  \A m, n \in FoldNames : HeadOf(m) = HeadOf(n) => m = n
<1> DEFINE NameOf(head) ==
             CASE head = "TEMPOUT" -> "OutdoorTemperature"
               [] head = "WINDGESCHWINDIGKEIT" -> "WindSpeed"
               [] head = "REGEN" -> "Rain"
               [] head = "HAGEL" -> "Hail"
               [] head = "JALWARTUNG" -> "BlindsMaintenance"
               [] head = "PERSINFO" -> "PersonInfo"
               [] head = "StatusInhaltListe" -> "StatusEntry"
               [] head = "GlobalGsa" -> "GsaConfig"
               [] head = "StandsSingelChartUpdate" -> "ChartPointUpdate"
               [] head = "SingelDiagramm" -> "ChartDefinition"
               [] head = "CHART" -> "ChartStand"
               [] head = "SingelStandUpdate" -> "ChartRangeStand"
               [] head = "WINDALARM" -> "WindAlarm"
               [] head = "TEMPIST" -> "Temperature"
               [] head = "INHALTKlimas" -> "ClimateConfig"
               [] head = "INHALTSZENEN" -> "SceneConfig"
               [] head = "SZENEN" -> "SceneState"
               [] head = "FEUCHTEIST" -> "Humidity"
               [] head = "SPRECHEN" -> "DoorIntercom"
               [] head = "CALLINFO" -> "CallInfo"
               [] head = "CHARTZIEL" -> "ChartTarget"
               [] head = "INFOBOARD" -> "InfoboardContent"
<1>1. ASSUME NEW n \in FoldNames PROVE NameOf(HeadOf(n)) = n
  <2>1. n = "OutdoorTemperature" => NameOf(HeadOf(n)) = n
    BY DEF HeadOf
  <2>2. n = "WindSpeed" => NameOf(HeadOf(n)) = n
    BY DEF HeadOf
  <2>3. n = "Rain" => NameOf(HeadOf(n)) = n
    BY DEF HeadOf
  <2>4. n = "Hail" => NameOf(HeadOf(n)) = n
    BY DEF HeadOf
  <2>5. n = "BlindsMaintenance" => NameOf(HeadOf(n)) = n
    BY DEF HeadOf
  <2>6. n = "PersonInfo" => NameOf(HeadOf(n)) = n
    BY DEF HeadOf
  <2>7. n = "StatusEntry" => NameOf(HeadOf(n)) = n
    BY DEF HeadOf
  <2>8. n = "GsaConfig" => NameOf(HeadOf(n)) = n
    BY DEF HeadOf
  <2>9. n = "ChartPointUpdate" => NameOf(HeadOf(n)) = n
    BY DEF HeadOf
  <2>10. n = "ChartDefinition" => NameOf(HeadOf(n)) = n
    BY DEF HeadOf
  <2>11. n = "ChartStand" => NameOf(HeadOf(n)) = n
    BY DEF HeadOf
  <2>12. n = "ChartRangeStand" => NameOf(HeadOf(n)) = n
    BY DEF HeadOf
  <2>13. n = "WindAlarm" => NameOf(HeadOf(n)) = n
    BY DEF HeadOf
  <2>14. n = "Temperature" => NameOf(HeadOf(n)) = n
    BY DEF HeadOf
  <2>15. n = "ClimateConfig" => NameOf(HeadOf(n)) = n
    BY DEF HeadOf
  <2>16. n = "SceneConfig" => NameOf(HeadOf(n)) = n
    BY DEF HeadOf
  <2>17. n = "SceneState" => NameOf(HeadOf(n)) = n
    BY DEF HeadOf
  <2>18. n = "Humidity" => NameOf(HeadOf(n)) = n
    BY DEF HeadOf
  <2>19. n = "DoorIntercom" => NameOf(HeadOf(n)) = n
    BY DEF HeadOf
  <2>20. n = "CallInfo" => NameOf(HeadOf(n)) = n
    BY DEF HeadOf
  <2>21. n = "ChartTarget" => NameOf(HeadOf(n)) = n
    BY DEF HeadOf
  <2>22. n = "InfoboardContent" => NameOf(HeadOf(n)) = n
    BY DEF HeadOf
  <2> HIDE DEF NameOf
  <2> QED
    BY <2>1, <2>2, <2>3, <2>4, <2>5, <2>6, <2>7, <2>8, <2>9, <2>10, <2>11,
       <2>12, <2>13, <2>14, <2>15, <2>16, <2>17, <2>18, <2>19, <2>20, <2>21,
       <2>22 DEF FoldNames
<1> HIDE DEF NameOf
<1> QED BY <1>1

(* They are among the folded heads.                                        *)
LEMMA HeadsListed == \A n \in FoldNames : HeadOf(n) \in FoldHeads
BY DEF FoldNames, FoldHeads, HeadOf

(* A folded definition has its name and its head.                          *)
LEMMA FoldingNamed ==
  \A n \in FoldNames : LET d == DefinitionOf(n)
                       IN  /\ d.name = n /\ d.head = HeadOf(n)
                           /\ d.parser \in Parsers
                           /\ d.parser = "temperature" => n = "Temperature"
BY DEF FoldNames, DefinitionOf, Valued, Raw, Fields, PerId, PerIdFields,
       Definition, Parsers

(* A folded definition is the one of its name and of its head.             *)
LEMMA FoldingKnown == \A n \in FoldNames : Known(DefinitionOf(n))
BY FoldingNamed, HeadsDiffer DEF Known

Sound(s) ==
  /\ s \in Seq({s[i] : i \in DOMAIN s})
  /\ \A i \in DOMAIN s : Known(s[i])

(* The names that a family has the definitions of.                         *)
Covers(s, names) ==
  \A n \in names : \E i \in DOMAIN s : s[i] = DefinitionOf(n)

(* Both survive when two families are joined.                              *)
LEMMA SoundJoined ==
  ASSUME NEW s, NEW t, Sound(s), Sound(t)
  PROVE  /\ Sound(s \o t)
         /\ \A A, B : Covers(s, A) /\ Covers(t, B) => Covers(s \o t, A \cup B)
<1> DEFINE S == {s[i] : i \in DOMAIN s}
           T == {t[i] : i \in DOMAIN t}
           u == s \o t
<1>1. s \in Seq(S) /\ t \in Seq(T)
  BY DEF Sound
<1> HIDE DEF S, T
<1>2. s \in Seq(S \cup T) /\ t \in Seq(S \cup T)
  BY <1>1
<1>3. /\ u \in Seq(S \cup T)
      /\ Len(u) = Len(s) + Len(t)
      /\ \A i \in 1..Len(s) : u[i] = s[i]
      /\ \A i \in 1..Len(t) : u[Len(s) + i] = t[i]
  BY <1>2
<1>4. /\ DOMAIN u = 1..Len(u) /\ DOMAIN s = 1..Len(s)
      /\ DOMAIN t = 1..Len(t) /\ Len(s) \in Nat /\ Len(t) \in Nat
  BY <1>2, <1>3
<1> HIDE DEF u
<1>5. \A j \in DOMAIN u : \/ \E i \in DOMAIN s : u[j] = s[i]
                          \/ \E i \in DOMAIN t : u[j] = t[i]
  <2> SUFFICES ASSUME NEW j \in DOMAIN u
               PROVE  \/ \E i \in DOMAIN s : u[j] = s[i]
                      \/ \E i \in DOMAIN t : u[j] = t[i]
    OBVIOUS
  <2>1. CASE j <= Len(s)
    BY <1>3, <1>4, <2>1
  <2>2. CASE j > Len(s)
    <3>1. j - Len(s) \in 1..Len(t) /\ j = Len(s) + (j - Len(s))
      BY <1>3, <1>4, <2>2
    <3> QED BY <1>3, <1>4, <3>1
  <2> QED BY <1>3, <1>4, <2>1, <2>2
<1>6. /\ \A i \in DOMAIN s : \E j \in DOMAIN u : u[j] = s[i]
      /\ \A i \in DOMAIN t : \E j \in DOMAIN u : u[j] = t[i]
  <2>1. \A i \in DOMAIN s : i \in DOMAIN u /\ u[i] = s[i]
    BY <1>3, <1>4
  <2>2. ASSUME NEW i \in DOMAIN t
        PROVE  Len(s) + i \in DOMAIN u /\ u[Len(s) + i] = t[i]
    BY <1>3, <1>4
  <2> QED BY <2>1, <2>2
<1>7. u \in Seq({u[j] : j \in DOMAIN u})
  BY <1>3
<1>8. \A j \in DOMAIN u : Known(u[j])
  BY <1>5 DEF Sound
<1>9. \A A, B : Covers(s, A) /\ Covers(t, B) => Covers(u, A \cup B)
  BY <1>6 DEF Covers
<1> QED BY <1>7, <1>8, <1>9 DEF Sound, u

(* Known, for each of the registry's constructors.                         *)
LEMMA ConstructorsKnown ==
  \A name, head : name \notin FoldNames /\ head \notin FoldHeads =>
    /\ Known(Valued(name, head)) /\ Known(Fields(name, head))
    /\ Known(Marker(name, head)) /\ Known(OpenMarker(name, head))
    /\ Known(PerId(name, head)) /\ Known(PerIdFields(name, head))
    /\ \A sep : Known(Raw(name, head, sep))
    /\ \A indexed, seps : \A parser \in Parsers \ {"temperature"} :
         Known(Definition(name, head, indexed, seps, parser))
<1>1. \A name, head, indexed, seps : \A parser \in Parsers \ {"temperature"} :
        name \notin FoldNames /\ head \notin FoldHeads =>
          Known(Definition(name, head, indexed, seps, parser))
  BY HeadsListed DEF Known, Definition
<1>2. {"value", "raw", "fields", "idvalue", "idfields"}
        \subseteq Parsers \ {"temperature"}
  BY DEF Parsers
<1> QED
  BY <1>1, <1>2
     DEF Valued, Fields, Marker, OpenMarker, PerId, PerIdFields, Raw

(* An infoboard's slot shares the head of its content.                     *)
LEMMA SlotKnown == Known(PerId("InfoboardSlot", "INFOBOARD"))
BY DEF Known, PerId, Definition, Parsers, FoldNames

(* The lengths the registry is written in.                                 *)
LEMMA ShortSound ==
  /\ \A a :
       Known(a)
         => Sound(<<a>>)
  /\ \A a, b :
       Known(a) /\ Known(b)
         => Sound(<<a, b>>)
  /\ \A a, b, c :
       Known(a) /\ Known(b) /\ Known(c)
         => Sound(<<a, b, c>>)
  /\ \A a, b, c, d :
       Known(a) /\ Known(b) /\ Known(c) /\ Known(d)
         => Sound(<<a, b, c, d>>)
  /\ \A a, b, c, d, e :
       Known(a) /\ Known(b) /\ Known(c) /\ Known(d) /\ Known(e)
         => Sound(<<a, b, c, d, e>>)
  /\ \A a, b, c, d, e, f :
       Known(a) /\ Known(b) /\ Known(c) /\ Known(d) /\ Known(e) /\ Known(f)
         => Sound(<<a, b, c, d, e, f>>)
  /\ \A a, b, c, d, e, f, g, h, i, j :
       Known(a) /\ Known(b) /\ Known(c) /\ Known(d) /\ Known(e) /\ Known(f) /\
       Known(g) /\ Known(h) /\ Known(i) /\ Known(j)
         => Sound(<<a, b, c, d, e, f, g, h, i, j>>)
  /\ \A a, b, c, d, e, f, g, h, i, j, k, l :
       Known(a) /\ Known(b) /\ Known(c) /\ Known(d) /\ Known(e) /\ Known(f) /\
       Known(g) /\ Known(h) /\ Known(i) /\ Known(j) /\ Known(k) /\ Known(l)
         => Sound(<<a, b, c, d, e, f, g, h, i, j, k, l>>)
<1> HIDE DEF Known
<1>1. ASSUME NEW a,
            Known(a)
      PROVE  Sound(<<a>>)
  <2>1. <<a>> \in Seq({a})
    OBVIOUS
  <2> QED BY <1>1, <2>1 DEF Sound
<1>2. ASSUME NEW a, NEW b,
            Known(a), Known(b)
      PROVE  Sound(<<a, b>>)
  <2>1. <<a, b>> \in Seq({a, b})
    OBVIOUS
  <2> QED BY <1>2, <2>1 DEF Sound
<1>3. ASSUME NEW a, NEW b, NEW c,
            Known(a), Known(b), Known(c)
      PROVE  Sound(<<a, b, c>>)
  <2>1. <<a, b, c>> \in Seq({a, b, c})
    OBVIOUS
  <2> QED BY <1>3, <2>1 DEF Sound
<1>4. ASSUME NEW a, NEW b, NEW c, NEW d,
            Known(a), Known(b), Known(c), Known(d)
      PROVE  Sound(<<a, b, c, d>>)
  <2>1. <<a, b, c, d>> \in Seq({a, b, c, d})
    OBVIOUS
  <2> QED BY <1>4, <2>1 DEF Sound
<1>5. ASSUME NEW a, NEW b, NEW c, NEW d, NEW e,
            Known(a), Known(b), Known(c), Known(d), Known(e)
      PROVE  Sound(<<a, b, c, d, e>>)
  <2>1. <<a, b, c, d, e>> \in Seq({a, b, c, d, e})
    OBVIOUS
  <2> QED BY <1>5, <2>1 DEF Sound
<1>6. ASSUME NEW a, NEW b, NEW c, NEW d, NEW e, NEW f,
            Known(a), Known(b), Known(c), Known(d), Known(e), Known(f)
      PROVE  Sound(<<a, b, c, d, e, f>>)
  <2>1. <<a, b, c, d, e, f>> \in Seq({a, b, c, d, e, f})
    OBVIOUS
  <2> QED BY <1>6, <2>1 DEF Sound
<1>7. ASSUME NEW a, NEW b, NEW c, NEW d, NEW e, NEW f, NEW g, NEW h, NEW i, NEW
            j,
            Known(a), Known(b), Known(c), Known(d), Known(e), Known(f),
            Known(g), Known(h), Known(i), Known(j)
      PROVE  Sound(<<a, b, c, d, e, f, g, h, i, j>>)
  <2>1. <<a, b, c, d, e, f, g, h, i, j>> \in Seq({a, b, c, d, e, f, g, h, i, j})
    OBVIOUS
  <2> QED BY <1>7, <2>1 DEF Sound
<1>8. ASSUME NEW a, NEW b, NEW c, NEW d, NEW e, NEW f, NEW g, NEW h, NEW i, NEW
            j, NEW k, NEW l,
            Known(a), Known(b), Known(c), Known(d), Known(e), Known(f),
            Known(g), Known(h), Known(i), Known(j), Known(k), Known(l)
      PROVE  Sound(<<a, b, c, d, e, f, g, h, i, j, k, l>>)
  <2>1. <<a, b, c, d, e, f, g, h, i, j, k, l>>
          \in Seq({a, b, c, d, e, f, g, h, i, j, k, l})
    OBVIOUS
  <2> QED BY <1>8, <2>1 DEF Sound
<1> QED BY <1>1, <1>2, <1>3, <1>4, <1>5, <1>6, <1>7, <1>8

(* The folded definitions as the registry writes them.                     *)
LEMMA AsWritten ==
  /\ "StatusEntry" \in FoldNames
  /\ DefinitionOf("StatusEntry") = Raw("StatusEntry", "StatusInhaltListe", "_")
  /\ "GsaConfig" \in FoldNames
  /\ DefinitionOf("GsaConfig") = Fields("GsaConfig", "GlobalGsa")
  /\ "OutdoorTemperature" \in FoldNames
  /\ DefinitionOf("OutdoorTemperature") = Valued("OutdoorTemperature", "TEMPOUT")
  /\ "WindSpeed" \in FoldNames
  /\ DefinitionOf("WindSpeed") = Valued("WindSpeed", "WINDGESCHWINDIGKEIT")
  /\ "Rain" \in FoldNames
  /\ DefinitionOf("Rain") = Valued("Rain", "REGEN")
  /\ "Hail" \in FoldNames
  /\ DefinitionOf("Hail") = Valued("Hail", "HAGEL")
  /\ "BlindsMaintenance" \in FoldNames
  /\ DefinitionOf("BlindsMaintenance") = Valued("BlindsMaintenance", "JALWARTUNG")
  /\ "PersonInfo" \in FoldNames
  /\ DefinitionOf("PersonInfo") = Valued("PersonInfo", "PERSINFO")
  /\ "Temperature" \in FoldNames
  /\ DefinitionOf("Temperature")
       = Definition("Temperature", "TEMPIST", TRUE, {":"}, "temperature")
  /\ "Humidity" \in FoldNames
  /\ DefinitionOf("Humidity") = PerId("Humidity", "FEUCHTEIST")
  /\ "SceneState" \in FoldNames
  /\ DefinitionOf("SceneState") = PerId("SceneState", "SZENEN")
  /\ "InfoboardContent" \in FoldNames
  /\ DefinitionOf("InfoboardContent")
       = Definition("InfoboardContent", "INFOBOARD", TRUE, {"INHALT:"}, "idvalue")
  /\ "ChartTarget" \in FoldNames
  /\ DefinitionOf("ChartTarget") = PerId("ChartTarget", "CHARTZIEL")
  /\ "WindAlarm" \in FoldNames
  /\ DefinitionOf("WindAlarm") = PerId("WindAlarm", "WINDALARM")
  /\ "DoorIntercom" \in FoldNames
  /\ DefinitionOf("DoorIntercom") = PerId("DoorIntercom", "SPRECHEN")
  /\ "CallInfo" \in FoldNames
  /\ DefinitionOf("CallInfo") = PerId("CallInfo", "CALLINFO")
  /\ "ClimateConfig" \in FoldNames
  /\ DefinitionOf("ClimateConfig") = PerIdFields("ClimateConfig", "INHALTKlimas")
  /\ "SceneConfig" \in FoldNames
  /\ DefinitionOf("SceneConfig") = PerIdFields("SceneConfig", "INHALTSZENEN")
  /\ "ChartPointUpdate" \in FoldNames
  /\ DefinitionOf("ChartPointUpdate")
       = PerId("ChartPointUpdate", "StandsSingelChartUpdate")
  /\ "ChartDefinition" \in FoldNames
  /\ DefinitionOf("ChartDefinition") = PerId("ChartDefinition", "SingelDiagramm")
  /\ "ChartStand" \in FoldNames
  /\ DefinitionOf("ChartStand")
       = Definition("ChartStand", "CHART", TRUE, {"STAND"}, "raw")
  /\ "ChartRangeStand" \in FoldNames
  /\ DefinitionOf("ChartRangeStand")
       = PerId("ChartRangeStand", "SingelStandUpdate")
BY DEF FoldNames, DefinitionOf, HeadOf

(* Each family of the registry is sound.                                   *)
LEMMA FamiliesSound ==
  /\ Sound(Routing) /\ Sound(Bootstrap) /\ Sound(Counters) /\ Sound(Markers)
  /\ Sound(Weather) /\ Sound(Singletons) /\ Sound(Rooms) /\ Sound(Pushes)
  /\ Sound(Configs) /\ Sound(Charts) /\ Sound(RangeReads) /\ Sound(OneOffs)
<1> HIDE DEF Known, Sound
<1>p. Parsers = {"route", "offline", "config", "temperature", "value", "raw",
                 "idvalue", "fields", "idfields"}
  BY DEF Parsers
<1>1. Sound(Routing)
  BY <1>p, ConstructorsKnown, ShortSound DEF Routing, FoldNames, FoldHeads
<1>2. Sound(Bootstrap)
  <2>1. /\ Known(Raw("StatusEntry", "StatusInhaltListe", "_"))
        /\ Known(Fields("GsaConfig", "GlobalGsa"))
    BY FoldingKnown, AsWritten
  <2> QED
    BY <1>p, <2>1, ConstructorsKnown, ShortSound
       DEF Bootstrap, FoldNames, FoldHeads
<1>3. Sound(Counters)
  BY <1>p, ConstructorsKnown, ShortSound DEF Counters, FoldNames, FoldHeads
<1>4. Sound(Markers)
  BY <1>p, ConstructorsKnown, ShortSound DEF Markers, FoldNames, FoldHeads
<1>5. Sound(Weather)
  <2>1. /\ Known(Valued("OutdoorTemperature", "TEMPOUT"))
        /\ Known(Valued("WindSpeed", "WINDGESCHWINDIGKEIT"))
        /\ Known(Valued("Rain", "REGEN"))
        /\ Known(Valued("Hail", "HAGEL"))
        /\ Known(Valued("BlindsMaintenance", "JALWARTUNG"))
    BY FoldingKnown, AsWritten
  <2> QED
    BY <1>p, <2>1, ConstructorsKnown, ShortSound
       DEF Weather, FoldNames, FoldHeads
<1>6. Sound(Singletons)
  <2>1. Known(Valued("PersonInfo", "PERSINFO"))
    BY FoldingKnown, AsWritten
  <2> QED
    BY <1>p, <2>1, ConstructorsKnown, ShortSound
       DEF Singletons, FoldNames, FoldHeads
<1>7. Sound(Rooms)
  <2>1. /\ Known(Definition("Temperature", "TEMPIST", TRUE, {":"}, "temperature"))
        /\ Known(PerId("Humidity", "FEUCHTEIST"))
        /\ Known(PerId("SceneState", "SZENEN"))
        /\ Known(Definition("InfoboardContent", "INFOBOARD", TRUE, {"INHALT:"},
                            "idvalue"))
    BY FoldingKnown, AsWritten
  <2> QED
    BY <1>p, <2>1, ConstructorsKnown, ShortSound, SlotKnown
       DEF Rooms, FoldNames, FoldHeads
<1>8. Sound(Pushes)
  <2>1. /\ Known(PerId("ChartTarget", "CHARTZIEL"))
        /\ Known(PerId("WindAlarm", "WINDALARM"))
        /\ Known(PerId("DoorIntercom", "SPRECHEN"))
        /\ Known(PerId("CallInfo", "CALLINFO"))
    BY FoldingKnown, AsWritten
  <2> QED
    BY <1>p, <2>1, ConstructorsKnown, ShortSound
       DEF Pushes, FoldNames, FoldHeads
<1>9. Sound(Configs)
  <2>1. /\ Known(PerIdFields("ClimateConfig", "INHALTKlimas"))
        /\ Known(PerIdFields("SceneConfig", "INHALTSZENEN"))
    BY FoldingKnown, AsWritten
  <2> QED
    BY <1>p, <2>1, ConstructorsKnown, ShortSound
       DEF Configs, FoldNames, FoldHeads
<1>10. Sound(Charts)
  <2>1. /\ Known(PerId("ChartPointUpdate", "StandsSingelChartUpdate"))
        /\ Known(PerId("ChartDefinition", "SingelDiagramm"))
        /\ Known(Definition("ChartStand", "CHART", TRUE, {"STAND"}, "raw"))
    BY FoldingKnown, AsWritten
  <2> QED
    BY <1>p, <2>1, ConstructorsKnown, ShortSound
       DEF Charts, FoldNames, FoldHeads
<1>11. Sound(RangeReads)
  <2>1. Known(PerId("ChartRangeStand", "SingelStandUpdate"))
    BY FoldingKnown, AsWritten
  <2> QED
    BY <1>p, <2>1, ConstructorsKnown, ShortSound
       DEF RangeReads, FoldNames, FoldHeads
<1>12. Sound(OneOffs)
  BY <1>p, ConstructorsKnown, ShortSound DEF OneOffs, FoldNames, FoldHeads
<1> QED
  BY <1>1, <1>2, <1>3, <1>4, <1>5, <1>6, <1>7, <1>8, <1>9, <1>10, <1>11,
     <1>12

(* The families that have folded definitions have these.                   *)
LEMMA FamiliesCover ==
  /\ Covers(Routing, {})
  /\ Covers(Bootstrap, {"StatusEntry", "GsaConfig"})
  /\ Covers(Counters, {})
  /\ Covers(Markers, {})
  /\ Covers(Weather, {"OutdoorTemperature", "WindSpeed", "Rain", "Hail",
                      "BlindsMaintenance"})
  /\ Covers(Singletons, {"PersonInfo"})
  /\ Covers(Rooms, {"Temperature", "Humidity", "SceneState", "InfoboardContent"})
  /\ Covers(Pushes, {"ChartTarget", "WindAlarm", "DoorIntercom", "CallInfo"})
  /\ Covers(Configs, {"ClimateConfig", "SceneConfig"})
  /\ Covers(Charts, {"ChartPointUpdate", "ChartDefinition", "ChartStand"})
  /\ Covers(RangeReads, {"ChartRangeStand"})
  /\ Covers(OneOffs, {})
<1>1. Covers(Routing, {})
  BY DEF Covers
<1>2. Covers(Bootstrap, {"StatusEntry", "GsaConfig"})
  <2>1. {2, 5} \subseteq DOMAIN Bootstrap
    BY DEF Bootstrap
  <2>2. /\ Bootstrap[2] = Raw("StatusEntry", "StatusInhaltListe", "_")
        /\ Bootstrap[5] = Fields("GsaConfig", "GlobalGsa")
    BY DEF Bootstrap
  <2> QED BY <2>1, <2>2, AsWritten DEF Covers
<1>3. Covers(Counters, {})
  BY DEF Covers
<1>4. Covers(Markers, {})
  BY DEF Covers
<1>5. Covers(Weather, {"OutdoorTemperature", "WindSpeed", "Rain", "Hail",
                       "BlindsMaintenance"})
  <2>1. {1, 2, 3, 4, 5} \subseteq DOMAIN Weather
    BY DEF Weather
  <2>2. /\ Weather[1] = Valued("OutdoorTemperature", "TEMPOUT")
        /\ Weather[2] = Valued("WindSpeed", "WINDGESCHWINDIGKEIT")
        /\ Weather[3] = Valued("Rain", "REGEN")
        /\ Weather[4] = Valued("Hail", "HAGEL")
        /\ Weather[5] = Valued("BlindsMaintenance", "JALWARTUNG")
    BY DEF Weather
  <2> QED BY <2>1, <2>2, AsWritten DEF Covers
<1>6. Covers(Singletons, {"PersonInfo"})
  <2>1. {1} \subseteq DOMAIN Singletons
    BY DEF Singletons
  <2>2. Singletons[1] = Valued("PersonInfo", "PERSINFO")
    BY DEF Singletons
  <2> QED BY <2>1, <2>2, AsWritten DEF Covers
<1>7. Covers(Rooms, {"Temperature", "Humidity", "SceneState", "InfoboardContent"})
  <2>1. {1, 3, 5, 9} \subseteq DOMAIN Rooms
    BY DEF Rooms
  <2>2. /\ Rooms[1]
             = Definition("Temperature", "TEMPIST", TRUE, {":"}, "temperature")
        /\ Rooms[3] = PerId("Humidity", "FEUCHTEIST")
        /\ Rooms[5] = PerId("SceneState", "SZENEN")
        /\ Rooms[9]
             = Definition("InfoboardContent", "INFOBOARD", TRUE, {"INHALT:"}, "idvalue")
    BY DEF Rooms
  <2> QED BY <2>1, <2>2, AsWritten DEF Covers
<1>8. Covers(Pushes, {"ChartTarget", "WindAlarm", "DoorIntercom", "CallInfo"})
  <2>1. {2, 3, 8, 9} \subseteq DOMAIN Pushes
    BY DEF Pushes
  <2>2. /\ Pushes[2] = PerId("ChartTarget", "CHARTZIEL")
        /\ Pushes[3] = PerId("WindAlarm", "WINDALARM")
        /\ Pushes[8] = PerId("DoorIntercom", "SPRECHEN")
        /\ Pushes[9] = PerId("CallInfo", "CALLINFO")
    BY DEF Pushes
  <2> QED BY <2>1, <2>2, AsWritten DEF Covers
<1>9. Covers(Configs, {"ClimateConfig", "SceneConfig"})
  <2>1. {3, 4} \subseteq DOMAIN Configs
    BY DEF Configs
  <2>2. /\ Configs[3] = PerIdFields("ClimateConfig", "INHALTKlimas")
        /\ Configs[4] = PerIdFields("SceneConfig", "INHALTSZENEN")
    BY DEF Configs
  <2> QED BY <2>1, <2>2, AsWritten DEF Covers
<1>10. Covers(Charts, {"ChartPointUpdate", "ChartDefinition", "ChartStand"})
  <2>1. {1, 2, 3} \subseteq DOMAIN Charts
    BY DEF Charts
  <2>2. /\ Charts[1] = PerId("ChartPointUpdate", "StandsSingelChartUpdate")
        /\ Charts[2] = PerId("ChartDefinition", "SingelDiagramm")
        /\ Charts[3] = Definition("ChartStand", "CHART", TRUE, {"STAND"}, "raw")
    BY DEF Charts
  <2> QED BY <2>1, <2>2, AsWritten DEF Covers
<1>11. Covers(RangeReads, {"ChartRangeStand"})
  <2>1. {1} \subseteq DOMAIN RangeReads
    BY DEF RangeReads
  <2>2. RangeReads[1] = PerId("ChartRangeStand", "SingelStandUpdate")
    BY DEF RangeReads
  <2> QED BY <2>1, <2>2, AsWritten DEF Covers
<1>12. Covers(OneOffs, {})
  BY DEF Covers
<1> QED
  BY <1>1, <1>2, <1>3, <1>4, <1>5, <1>6, <1>7, <1>8, <1>9, <1>10, <1>11,
     <1>12

(* The registry, family by family.                                         *)
LEMMA RegistrySound ==
  /\ Sound(KnownMessages)
  /\ Covers(KnownMessages, FoldNames)
<1> DEFINE p1 == Routing \o Bootstrap
           p2 == p1 \o Counters
           p3 == p2 \o Markers
           p4 == p3 \o Weather
           p5 == p4 \o Singletons
           p6 == p5 \o Rooms
           p7 == p6 \o Pushes
           p8 == p7 \o Configs
           p9 == p8 \o Charts
           p10 == p9 \o RangeReads
           p11 == p10 \o OneOffs
           n1 == {} \cup {"StatusEntry", "GsaConfig"}
           n2 == n1 \cup {}
           n3 == n2 \cup {}
           n4 == n3 \cup {"OutdoorTemperature", "WindSpeed", "Rain", "Hail",
                          "BlindsMaintenance"}
           n5 == n4 \cup {"PersonInfo"}
           n6 == n5 \cup {"Temperature", "Humidity", "SceneState", "InfoboardContent"}
           n7 == n6 \cup {"ChartTarget", "WindAlarm", "DoorIntercom", "CallInfo"}
           n8 == n7 \cup {"ClimateConfig", "SceneConfig"}
           n9 == n8 \cup {"ChartPointUpdate", "ChartDefinition", "ChartStand"}
           n10 == n9 \cup {"ChartRangeStand"}
           n11 == n10 \cup {}
<1>1. KnownMessages = p11
  BY DEF KnownMessages
<1>2. FoldNames \subseteq n11
  BY DEF FoldNames
<1> HIDE DEF p1, p2, p3, p4, p5, p6, p7, p8, p9, p10, p11
<1> HIDE DEF n1, n2, n3, n4, n5, n6, n7, n8, n9, n10, n11
<1> HIDE DEF Sound, Covers
<1>3. Sound(p1) /\ Covers(p1, n1)
  BY FamiliesCover, FamiliesSound, SoundJoined DEF p1, n1
<1>4. Sound(p2) /\ Covers(p2, n2)
  BY <1>3, FamiliesCover, FamiliesSound, SoundJoined DEF p2, n2
<1>5. Sound(p3) /\ Covers(p3, n3)
  BY <1>4, FamiliesCover, FamiliesSound, SoundJoined DEF p3, n3
<1>6. Sound(p4) /\ Covers(p4, n4)
  BY <1>5, FamiliesCover, FamiliesSound, SoundJoined DEF p4, n4
<1>7. Sound(p5) /\ Covers(p5, n5)
  BY <1>6, FamiliesCover, FamiliesSound, SoundJoined DEF p5, n5
<1>8. Sound(p6) /\ Covers(p6, n6)
  BY <1>7, FamiliesCover, FamiliesSound, SoundJoined DEF p6, n6
<1>9. Sound(p7) /\ Covers(p7, n7)
  BY <1>8, FamiliesCover, FamiliesSound, SoundJoined DEF p7, n7
<1>10. Sound(p8) /\ Covers(p8, n8)
  BY <1>9, FamiliesCover, FamiliesSound, SoundJoined DEF p8, n8
<1>11. Sound(p9) /\ Covers(p9, n9)
  BY <1>10, FamiliesCover, FamiliesSound, SoundJoined DEF p9, n9
<1>12. Sound(p10) /\ Covers(p10, n10)
  BY <1>11, FamiliesCover, FamiliesSound, SoundJoined DEF p10, n10
<1>13. Sound(p11) /\ Covers(p11, n11)
  BY <1>12, FamiliesCover, FamiliesSound, SoundJoined DEF p11, n11
<1> QED BY <1>1, <1>2, <1>13 DEF Covers
-----------------------------------------------------------------------------
(* The definition a text is parsed by.                                     *)
LEMMA ParsedByOne ==
  ASSUME NEW text
  PROVE  \/ /\ ParseFrame(text) = UnknownFrame(text)
            /\ \A i \in DOMAIN KnownMessages :
                 ~Recognises(KnownMessages[i], text)
         \/ \E i \in DOMAIN KnownMessages :
              /\ Recognises(KnownMessages[i], text)
              /\ Known(KnownMessages[i])
              /\ ParseFrame(text) = Parse(KnownMessages[i], text)
<1> DEFINE hits == {i \in DOMAIN KnownMessages :
                      Recognises(KnownMessages[i], text)}
<1>1. CASE hits = {}
  BY <1>1 DEF ParseFrame
<1>2. CASE hits # {}
  <2>1. hits \subseteq Nat
    BY RegistrySound DEF Sound
  <2>2. Min(hits) \in hits
    BY <1>2, <2>1, LeastOf
  <2>3. ParseFrame(text) = Parse(KnownMessages[Min(hits)], text)
    BY <1>2 DEF ParseFrame
  <2> QED BY <2>2, <2>3, RegistrySound DEF Sound
<1> QED BY <1>1, <1>2

(* A parser keeps the payload or drops it; its result bears the            *)
(* definition's name, or is none of the kinds that are folded.             *)
LEMMA ParseKeeps ==
  ASSUME NEW text, NEW d, Known(d)
  PROVE  LET frame == Parse(d, text)
         IN  /\ frame.body \in {text.body, Empty}
             /\ \/ frame.name = d.name
                \/ frame = ParseError
             /\ frame.type = "Temperature" => d.parser = "temperature"
BY DEF Known, Parsers, Parse, Frame, ParseError

(* So a text's frame carries what its handler needs.                       *)
LEMMA ParsedReadable ==
  ASSUME NEW text,
         text.body.form = "definition" => text.body.title \in Seq(STRING)
  PROVE  Readable(ParseFrame(text))
<1>1. ParseFrame(text).body \in {text.body, Empty}
  BY ParsedByOne, ParseKeeps DEF UnknownFrame, Frame
<1> QED BY <1>1 DEF Readable, Empty

(* A text that a folded definition recognises is parsed by it.             *)
LEMMA RecognisedParsed ==
  ASSUME NEW text, NEW n \in FoldNames, n # "InfoboardContent",
         Recognises(DefinitionOf(n), text)
  PROVE  ParseFrame(text) = Parse(DefinitionOf(n), text)
<1>1. text.head = HeadOf(n) /\ text.head # "INFOBOARD"
  <2>1. text.head = HeadOf(n)
    BY FoldingNamed DEF Recognises
  <2>2. HeadOf("InfoboardContent") = "INFOBOARD" /\ "InfoboardContent" \in FoldNames
    BY DEF HeadOf, FoldNames
  <2> QED BY <2>1, <2>2, HeadsDiffer
<1>2. PICK i \in DOMAIN KnownMessages :
        /\ Recognises(KnownMessages[i], text)
        /\ Known(KnownMessages[i])
        /\ ParseFrame(text) = Parse(KnownMessages[i], text)
  BY RegistrySound, ParsedByOne DEF Covers
<1>3. KnownMessages[i] = DefinitionOf(n)
  BY <1>1, <1>2 DEF Recognises, Known
<1> QED BY <1>2, <1>3

(* A frame with a folded name was parsed by the definition of that name.   *)
LEMMA NamedParsed ==
  ASSUME NEW text, ParseFrame(text).name \in FoldNames
  PROVE  LET d == DefinitionOf(ParseFrame(text).name)
         IN  Recognises(d, text) /\ ParseFrame(text) = Parse(d, text)
<1> DEFINE frame == ParseFrame(text)
<1>1. "none" \notin FoldNames
  BY DEF FoldNames
<1>2. frame # UnknownFrame(text) /\ frame # ParseError
  BY <1>1 DEF UnknownFrame, ParseError, Frame
<1>3. PICK i \in DOMAIN KnownMessages :
        /\ Recognises(KnownMessages[i], text)
        /\ Known(KnownMessages[i])
        /\ frame = Parse(KnownMessages[i], text)
  BY <1>2, ParsedByOne
<1>4. frame.name = KnownMessages[i].name
  BY <1>2, <1>3, ParseKeeps
<1>5. KnownMessages[i] = DefinitionOf(frame.name)
  BY <1>3, <1>4 DEF Known
<1> QED BY <1>3, <1>5
-----------------------------------------------------------------------------
(* The folded names by the type of their frames, and by where the id goes. *)
SingleNames ==
  {"OutdoorTemperature", "WindSpeed", "Rain", "Hail", "BlindsMaintenance",
   "PersonInfo", "StatusEntry", "GsaConfig"}

PerIdNames == FoldNames \ (SingleNames \cup {"ChartStand"})

FieldNames == {"ClimateConfig", "SceneConfig", "GsaConfig"}

(* What a frame that is folded says of the text it was parsed from.        *)
Carries(frame, text) ==
  /\ frame.type = "Temperature" => frame.name = "Temperature"
  /\ frame.name \in FoldNames =>
       /\ text.head = HeadOf(frame.name)
       /\ frame.body = text.body
       /\ frame.type = IF frame.name = "Temperature" THEN "Temperature"
                       ELSE IF frame.name \in FieldNames THEN "NamedFields"
                       ELSE "NamedValue"
       /\ text.index = NoIndex <=> frame.name \in SingleNames
       /\ frame.name \in PerIdNames => frame.index = text.index

(* Every text's frame carries its text.                                    *)
LEMMA ParsedCarries ==
  ASSUME NEW text
  PROVE  Carries(ParseFrame(text), text)
<1> DEFINE frame == ParseFrame(text)
           n     == frame.name
           d     == DefinitionOf(n)
<1>1. frame.type = "Temperature" => frame.name = "Temperature"
  BY ParsedByOne, ParseKeeps DEF UnknownFrame, ParseError, Frame, Known
<1>2. ASSUME n \in FoldNames
      PROVE  /\ text.head = HeadOf(n)
             /\ frame.body = text.body
             /\ frame.type = IF n = "Temperature" THEN "Temperature"
                             ELSE IF n \in FieldNames THEN "NamedFields"
                             ELSE "NamedValue"
             /\ text.index = NoIndex <=> n \in SingleNames
             /\ n \in PerIdNames => frame.index = text.index
  <2>1. Recognises(d, text) /\ frame = Parse(d, text)
    BY <1>2, NamedParsed
  <2>2. /\ d.name = n /\ d.head = HeadOf(n)
        /\ d.indexed <=> n \notin SingleNames
        /\ d.parser = IF n = "Temperature" THEN "temperature"
                      ELSE IF n = "GsaConfig" THEN "fields"
                      ELSE IF n \in FieldNames THEN "idfields"
                      ELSE IF n \in {"StatusEntry", "ChartStand"} THEN "raw"
                      ELSE IF n \in SingleNames THEN "value"
                      ELSE "idvalue"
    BY <1>2
       DEF FoldNames, SingleNames, FieldNames, DefinitionOf, Valued, Raw,
           Fields, PerId,
           PerIdFields, Definition
  <2>3. frame # ParseError
    BY <1>2 DEF ParseError, Frame, FoldNames
  <2> HIDE DEF frame, d
  <2>4. text.head = HeadOf(n) /\ (text.index = NoIndex <=> n \in SingleNames)
    BY <2>1, <2>2 DEF Recognises
  <2>5. /\ frame.body = text.body
        /\ frame.type = IF n = "Temperature" THEN "Temperature"
                        ELSE IF n \in FieldNames THEN "NamedFields"
                        ELSE "NamedValue"
        /\ n \in PerIdNames => frame.index = text.index
    BY <2>1, <2>2, <2>3 DEF Parse, Frame, FieldNames, SingleNames, PerIdNames
  <2> QED BY <2>4, <2>5
<1> QED BY <1>1, <1>2 DEF Carries

(* The banner's texts and no others are parsed to the banner's frame.      *)
LEMMA BannerParsed ==
  ASSUME NEW text
  PROVE  LET frame == ParseFrame(text)
             heads == text.head = "PERSINFO" /\ text.index = NoIndex
         IN  /\ heads /\ text.sep = ":" =>
                  frame = IF text.body = Empty THEN ParseError
                          ELSE Frame("NamedValue", "PersonInfo", NoIndex,
                                     text.body)
             /\ frame.type = "NamedValue" /\ frame.name = "PersonInfo" =>
                  heads /\ frame.body = text.body
<1> DEFINE frame == ParseFrame(text)
           heads == text.head = "PERSINFO" /\ text.index = NoIndex
           d     == DefinitionOf("PersonInfo")
<1>1. /\ d.name = "PersonInfo" /\ d.head = "PERSINFO"
      /\ d.indexed = FALSE /\ d.seps = {":"} /\ d.parser = "value"
  BY DEF DefinitionOf, HeadOf, Valued, Definition
<1>2. "PersonInfo" \in FoldNames \cap SingleNames
  BY DEF FoldNames, SingleNames
<1> HIDE DEF d
<1>3. heads /\ text.sep = ":" => frame = Parse(d, text)
  BY <1>1, <1>2, RecognisedParsed DEF Recognises, d
<1>4. Parse(d, text)
        = IF text.body = Empty THEN ParseError
          ELSE Frame("NamedValue", "PersonInfo", NoIndex, text.body)
  BY <1>1 DEF Parse
<1>5. Carries(frame, text)
  BY ParsedCarries
<1> HIDE DEF frame
<1>6. frame.name = "PersonInfo" => heads /\ frame.body = text.body
  BY <1>2, <1>5 DEF Carries, HeadOf
<1> QED BY <1>3, <1>4, <1>6 DEF frame
-----------------------------------------------------------------------------
(* A stand's chart: CHART's digits are in its payload.                     *)
ChartId(frame) ==
  IF frame.name = "ChartStand" THEN frame.body.chart ELSE frame.index

StandFrame(frame) ==
  /\ frame.name \in {"ChartPointUpdate", "ChartStand"}
  /\ frame.body.form = "stand"

DefinitionFrame(frame) ==
  /\ frame.name = "ChartDefinition"
  /\ frame.body.form = "definition" /\ frame.body.title # <<>>

BucketFrame(frame) ==
  /\ frame.name = "ChartRangeStand"
  /\ frame.body.form = "stand" /\ SafeFloat(frame.body.reading) # None

(* What a stand and a definition make of a chart.                          *)
WithStand(chart, body) ==
  [chart EXCEPT !.stands = Put(@, body.series, body.reading)]

Defined(chart, body) ==
  [chart EXCEPT !.label = CleanChartLabel(body.title),
                !.category = IF body.fields > 13 THEN body.category ELSE @,
                !.unit = IF body.fields > 14 /\ @ = "" THEN body.unit ELSE @,
                !.summed_chart_ids = body.summed]

Charted(charts, frame) ==
  LET old == Get(charts, ChartId(frame), ChartReading)
  IN  IF StandFrame(frame)
      THEN Put(charts, ChartId(frame), WithStand(old, frame.body))
      ELSE IF DefinitionFrame(frame)
      THEN Put(charts, ChartId(frame), Defined(old, frame.body))
      ELSE charts

Bucketed(buckets, frame) ==
  LET body == frame.body
  IN  IF BucketFrame(frame)
      THEN Put(buckets, frame.index,
               Put(Get(buckets, frame.index, <<>>), body.series, body.reading))
      ELSE buckets

DoorLabels(body) ==
  LET raw == ParseGsaPairs(body.doors)
  IN  [k \in DOMAIN raw |-> TranslateGsaLabel(raw[k])]

(* The fold, one attribute at a time: t is s with the frame folded in.     *)
(* Each attribute depends on the frame and on its own old value alone.     *)
FoldsTo(s, frame, t) ==
  LET name == frame.name
      body == frame.body
      One(of, value, old) == IF name = of THEN value ELSE old
      Key(of, value, old) == IF name = of THEN Put(old, frame.index, value) ELSE old
  IN  /\ t.outdoor_temperature
           = One("OutdoorTemperature", SafeFloat(body), s.outdoor_temperature)
      /\ t.wind_speed = One("WindSpeed", SafeFloat(body), s.wind_speed)
      /\ t.rain_alarm = One("Rain", AlarmOn(body), s.rain_alarm)
      /\ t.hail_alarm = One("Hail", AlarmOn(body), s.hail_alarm)
      /\ t.blinds_maintenance
           = One("BlindsMaintenance", AlarmOn(body), s.blinds_maintenance)
      /\ t.person_info = One("PersonInfo", UnlessRead(body), s.person_info)
      /\ t.wind_alarms = Key("WindAlarm", AlarmOn(body), s.wind_alarms)
      /\ t.indoor_temperatures = Key("Temperature", body, s.indoor_temperatures)
      /\ t.climate_zones
           = IF body # Empty
             THEN Key("ClimateConfig", ClimateZoneRoom(body.title), s.climate_zones)
             ELSE s.climate_zones
      /\ t.scenes = IF body # Empty THEN Key("SceneConfig", body.title, s.scenes)
                    ELSE s.scenes
      /\ t.scene_states = Key("SceneState", AlarmOn(body), s.scene_states)
      /\ t.humidities
           = IF SafeFloat(body) # None \/ frame.index \in DOMAIN s.humidities
             THEN Key("Humidity", SafeFloat(body), s.humidities)
             ELSE s.humidities
      /\ t.intercom_ringing
           = Key("DoorIntercom", Flag(body = Word("ring")), s.intercom_ringing)
      /\ t.intercom_callers
           = Key("CallInfo", TranslateCallerLabel(body.word), s.intercom_callers)
      /\ t.infoboard_contents
           = Key("InfoboardContent", UnlessRead(body), s.infoboard_contents)
      /\ t.chart_targets
           = IF SafeFloat(body) # None
             THEN Key("ChartTarget", SafeFloat(body), s.chart_targets)
             ELSE s.chart_targets
      /\ t.charts = Charted(s.charts, frame)
      /\ t.unit_hints
           = One("StatusEntry", Update(s.unit_hints, body.hints), s.unit_hints)
      /\ t.chart_today_buckets = Bucketed(s.chart_today_buckets, frame)
      /\ t.gsa_cameras
           = IF name = "GsaConfig" /\ body.fields > 3
             THEN ParseGsaPairs(body.cameras) ELSE s.gsa_cameras
      /\ t.gsa_door_labels
           = IF name = "GsaConfig" /\ body.fields > 4
             THEN DoorLabels(body) ELSE s.gsa_door_labels

(* Setting one attribute, or one key of one, leaves the others.            *)
SetsOnly(s, t, attr, value) ==
  /\ t[attr] = value
  /\ \A n \in Names \ {attr} : t[n] = s[n]

(* An EXCEPT, SetAttr and SetKey are such settings.                        *)
LEMMA ExceptSets ==
  ASSUME NEW s, DOMAIN s = Names, NEW attr \in Names, NEW value, NEW t,
         t = [s EXCEPT ![attr] = value]
  PROVE  SetsOnly(s, t, attr, value)
BY DEF SetsOnly

(* A scalar set by SetAttr.                                                *)
LEMMA AttrSets ==
  ASSUME NEW s, DOMAIN s = Names, NEW attr \in Scalars, NEW value
  PROVE  SetsOnly(s, SetAttr(s, attr, value).snap, attr, value)
<1>1. SetAttr(s, attr, value).snap = [s EXCEPT ![attr] = value]
  BY DEF SetAttr, Folded
<1> QED BY <1>1, ExceptSets DEF Names

(* A key of a map set by SetKey.                                           *)
LEMMA KeySets ==
  ASSUME NEW s, DOMAIN s = Names, NEW attr \in KeyedMaps, NEW key, NEW value
  PROVE  SetsOnly(s, SetKey(s, attr, key, value).snap, attr,
                  Put(s[attr], key, value))
<1>1. SetKey(s, attr, key, value).snap
        = [s EXCEPT ![attr] = Put(s[attr], key, value)]
  BY DEF SetKey, Folded, Names
<1> QED BY <1>1, ExceptSets DEF Names

(* What Apply does, handler by handler, is the fold of each attribute.     *)
LEMMA AppliesPointwise ==
  ASSUME NEW s, Shaped(s), NEW frame, NEW text, Carries(frame, text)
  PROVE  FoldsTo(s, frame, Apply(s, frame).snap)
<1> DEFINE name == frame.name
           i    == frame.index
           body == frame.body
           t    == Apply(s, frame).snap
           Set(attr, value) == SetsOnly(s, t, attr, value)
<1> SUFFICES FoldsTo(s, frame, t)
  OBVIOUS
<1>n. DOMAIN s = Names
  BY DEF Shaped
<1>p. ASSUME NEW id, NEW chart, NEW changed
      PROVE  PutChart(s, id, chart, changed).snap
               = [s EXCEPT !["charts"] = Put(s.charts, id, chart)]
  BY <1>n DEF PutChart, Folded, Names, OtherMaps
<1>i. name \in PerIdNames => i # NoIndex
  BY DEF Carries, PerIdNames
<1>v. name \in FoldNames \ (FieldNames \cup {"Temperature"}) =>
        Apply(s, frame) = ApplyNamedValue(s, frame)
  BY DEF Carries, Apply
<1>f. name \in FieldNames => Apply(s, frame) = ApplyNamedFields(s, frame)
  BY DEF Carries, Apply, FieldNames, FoldNames
<1>1. CASE name = "OutdoorTemperature"
  <2>1. Apply(s, frame) = SetAttr(s, "outdoor_temperature", SafeFloat(body))
    BY <1>1, <1>v DEF ApplyNamedValue, FoldNames, FieldNames
  <2>2. Set("outdoor_temperature", SafeFloat(body))
    BY <2>1, <1>n, AttrSets DEF Scalars
  <2> HIDE DEF t
  <2> QED
    BY <1>1, <2>2
       DEF SetsOnly, FoldsTo, Charted, StandFrame, DefinitionFrame,
           Bucketed, BucketFrame,
           Names, Scalars, KeyedMaps, OtherMaps
<1>2. CASE name = "WindSpeed"
  <2>1. Apply(s, frame) = SetAttr(s, "wind_speed", SafeFloat(body))
    BY <1>2, <1>v DEF ApplyNamedValue, FoldNames, FieldNames
  <2>2. Set("wind_speed", SafeFloat(body))
    BY <2>1, <1>n, AttrSets DEF Scalars
  <2> HIDE DEF t
  <2> QED
    BY <1>2, <2>2
       DEF SetsOnly, FoldsTo, Charted, StandFrame, DefinitionFrame,
           Bucketed, BucketFrame,
           Names, Scalars, KeyedMaps, OtherMaps
<1>3. CASE name = "Rain"
  <2>1. Apply(s, frame) = SetAttr(s, "rain_alarm", AlarmOn(body))
    BY <1>3, <1>v DEF ApplyNamedValue, FoldNames, FieldNames
  <2>2. Set("rain_alarm", AlarmOn(body))
    BY <2>1, <1>n, AttrSets DEF Scalars
  <2> HIDE DEF t
  <2> QED
    BY <1>3, <2>2
       DEF SetsOnly, FoldsTo, Charted, StandFrame, DefinitionFrame,
           Bucketed, BucketFrame,
           Names, Scalars, KeyedMaps, OtherMaps
<1>4. CASE name = "Hail"
  <2>1. Apply(s, frame) = SetAttr(s, "hail_alarm", AlarmOn(body))
    BY <1>4, <1>v DEF ApplyNamedValue, FoldNames, FieldNames
  <2>2. Set("hail_alarm", AlarmOn(body))
    BY <2>1, <1>n, AttrSets DEF Scalars
  <2> HIDE DEF t
  <2> QED
    BY <1>4, <2>2
       DEF SetsOnly, FoldsTo, Charted, StandFrame, DefinitionFrame,
           Bucketed, BucketFrame,
           Names, Scalars, KeyedMaps, OtherMaps
<1>5. CASE name = "BlindsMaintenance"
  <2>1. Apply(s, frame) = SetAttr(s, "blinds_maintenance", AlarmOn(body))
    BY <1>5, <1>v DEF ApplyNamedValue, FoldNames, FieldNames
  <2>2. Set("blinds_maintenance", AlarmOn(body))
    BY <2>1, <1>n, AttrSets DEF Scalars
  <2> HIDE DEF t
  <2> QED
    BY <1>5, <2>2
       DEF SetsOnly, FoldsTo, Charted, StandFrame, DefinitionFrame,
           Bucketed, BucketFrame,
           Names, Scalars, KeyedMaps, OtherMaps
<1>6. CASE name = "PersonInfo"
  <2>1. Apply(s, frame) = SetAttr(s, "person_info", UnlessRead(body))
    BY <1>6, <1>v DEF ApplyNamedValue, FoldNames, FieldNames
  <2>2. Set("person_info", UnlessRead(body))
    BY <2>1, <1>n, AttrSets DEF Scalars
  <2> HIDE DEF t
  <2> QED
    BY <1>6, <2>2
       DEF SetsOnly, FoldsTo, Charted, StandFrame, DefinitionFrame,
           Bucketed, BucketFrame,
           Names, Scalars, KeyedMaps, OtherMaps
<1>7. CASE name = "WindAlarm"
  <2>1. Apply(s, frame) = SetKey(s, "wind_alarms", i, AlarmOn(body))
    BY <1>7, <1>v, <1>i
       DEF ApplyNamedValue, FoldNames, FieldNames, PerIdNames, SingleNames
  <2>2. Set("wind_alarms", Put(s.wind_alarms, i, AlarmOn(body)))
    BY <2>1, <1>n, KeySets DEF KeyedMaps
  <2> HIDE DEF t
  <2> QED
    BY <1>7, <2>2
       DEF SetsOnly, FoldsTo, Charted, StandFrame, DefinitionFrame,
           Bucketed, BucketFrame,
           Names, Scalars, KeyedMaps, OtherMaps
<1>8. CASE name = "SceneState"
  <2>1. Apply(s, frame) = SetKey(s, "scene_states", i, AlarmOn(body))
    BY <1>8, <1>v, <1>i
       DEF ApplyNamedValue, FoldNames, FieldNames, PerIdNames, SingleNames
  <2>2. Set("scene_states", Put(s.scene_states, i, AlarmOn(body)))
    BY <2>1, <1>n, KeySets DEF KeyedMaps
  <2> HIDE DEF t
  <2> QED
    BY <1>8, <2>2
       DEF SetsOnly, FoldsTo, Charted, StandFrame, DefinitionFrame,
           Bucketed, BucketFrame,
           Names, Scalars, KeyedMaps, OtherMaps
<1>9. CASE name = "DoorIntercom"
  <2>1. Apply(s, frame)
        = SetKey(s, "intercom_ringing", i, Flag(body = Word("ring")))
    BY <1>9, <1>v, <1>i
       DEF ApplyNamedValue, FoldNames, FieldNames, PerIdNames, SingleNames
  <2>2. Set("intercom_ringing",
          Put(s.intercom_ringing, i, Flag(body = Word("ring"))))
    BY <2>1, <1>n, KeySets DEF KeyedMaps
  <2> HIDE DEF t
  <2> QED
    BY <1>9, <2>2
       DEF SetsOnly, FoldsTo, Charted, StandFrame, DefinitionFrame,
           Bucketed, BucketFrame,
           Names, Scalars, KeyedMaps, OtherMaps
<1>10. CASE name = "CallInfo"
  <2>1. Apply(s, frame)
        = SetKey(s, "intercom_callers", i, TranslateCallerLabel(body.word))
    BY <1>10, <1>v, <1>i
       DEF ApplyNamedValue, FoldNames, FieldNames, PerIdNames, SingleNames
  <2>2. Set("intercom_callers",
          Put(s.intercom_callers, i, TranslateCallerLabel(body.word)))
    BY <2>1, <1>n, KeySets DEF KeyedMaps
  <2> HIDE DEF t
  <2> QED
    BY <1>10, <2>2
       DEF SetsOnly, FoldsTo, Charted, StandFrame, DefinitionFrame,
           Bucketed, BucketFrame,
           Names, Scalars, KeyedMaps, OtherMaps
<1>11. CASE name = "InfoboardContent"
  <2>1. Apply(s, frame) = SetKey(s, "infoboard_contents", i, UnlessRead(body))
    BY <1>11, <1>v, <1>i
       DEF ApplyNamedValue, FoldNames, FieldNames, PerIdNames, SingleNames
  <2>2. Set("infoboard_contents",
          Put(s.infoboard_contents, i, UnlessRead(body)))
    BY <2>1, <1>n, KeySets DEF KeyedMaps
  <2> HIDE DEF t
  <2> QED
    BY <1>11, <2>2
       DEF SetsOnly, FoldsTo, Charted, StandFrame, DefinitionFrame,
           Bucketed, BucketFrame,
           Names, Scalars, KeyedMaps, OtherMaps
<1>12. CASE name = "Temperature"
  <2>1. Apply(s, frame) = SetKey(s, "indoor_temperatures", i, body)
    BY <1>12 DEF Carries, Apply, FoldNames
  <2>2. Set("indoor_temperatures", Put(s.indoor_temperatures, i, body))
    BY <2>1, <1>n, KeySets DEF KeyedMaps
  <2> HIDE DEF t
  <2> QED
    BY <1>12, <2>2
       DEF SetsOnly, FoldsTo, Charted, StandFrame, DefinitionFrame,
           Bucketed, BucketFrame,
           Names, Scalars, KeyedMaps, OtherMaps
<1>13. CASE name = "ClimateConfig" /\ (body # Empty)
  <2>1. Apply(s, frame)
        = SetKey(s, "climate_zones", i, ClimateZoneRoom(body.title))
    BY <1>13, <1>f, <1>i
       DEF ApplyNamedFields, FoldNames, FieldNames, PerIdNames, SingleNames,
           Names, OtherMaps, KeyedMaps
  <2>2. Set("climate_zones",
          Put(s.climate_zones, i, ClimateZoneRoom(body.title)))
    BY <2>1, <1>n, KeySets DEF KeyedMaps
  <2> HIDE DEF t
  <2> QED
    BY <1>13, <2>2
       DEF SetsOnly, FoldsTo, Charted, StandFrame, DefinitionFrame,
           Bucketed, BucketFrame,
           Names, Scalars, KeyedMaps, OtherMaps
<1>14. CASE name = "SceneConfig" /\ (body # Empty)
  <2>1. Apply(s, frame) = SetKey(s, "scenes", i, body.title)
    BY <1>14, <1>f, <1>i
       DEF ApplyNamedFields, FoldNames, FieldNames, PerIdNames, SingleNames,
           Names, OtherMaps, KeyedMaps
  <2>2. Set("scenes", Put(s.scenes, i, body.title))
    BY <2>1, <1>n, KeySets DEF KeyedMaps
  <2> HIDE DEF t
  <2> QED
    BY <1>14, <2>2
       DEF SetsOnly, FoldsTo, Charted, StandFrame, DefinitionFrame,
           Bucketed, BucketFrame,
           Names, Scalars, KeyedMaps, OtherMaps
<1>15. CASE /\ name = "Humidity"
            /\ (SafeFloat(body) # None \/ i \in DOMAIN s.humidities)
  <2>1. Apply(s, frame) = SetKey(s, "humidities", i, SafeFloat(body))
    BY <1>15, <1>v, <1>i
       DEF ApplyNamedValue, ApplyHumidity, FoldNames, FieldNames,
           PerIdNames, SingleNames,
           Names, OtherMaps, KeyedMaps
  <2>2. Set("humidities", Put(s.humidities, i, SafeFloat(body)))
    BY <2>1, <1>n, KeySets DEF KeyedMaps
  <2> HIDE DEF t
  <2> QED
    BY <1>15, <2>2
       DEF SetsOnly, FoldsTo, Charted, StandFrame, DefinitionFrame,
           Bucketed, BucketFrame,
           Names, Scalars, KeyedMaps, OtherMaps
<1>16. CASE name = "ChartTarget" /\ (SafeFloat(body) # None)
  <2>1. Apply(s, frame) = SetKey(s, "chart_targets", i, SafeFloat(body))
    BY <1>16, <1>v, <1>i
       DEF ApplyNamedValue, ApplyChartTarget, FoldNames, FieldNames,
           PerIdNames, SingleNames,
           Names, OtherMaps, KeyedMaps
  <2>2. Set("chart_targets", Put(s.chart_targets, i, SafeFloat(body)))
    BY <2>1, <1>n, KeySets DEF KeyedMaps
  <2> HIDE DEF t
  <2> QED
    BY <1>16, <2>2
       DEF SetsOnly, FoldsTo, Charted, StandFrame, DefinitionFrame,
           Bucketed, BucketFrame,
           Names, Scalars, KeyedMaps, OtherMaps
<1>17. CASE name = "ChartPointUpdate" /\ (body.form = "stand")
  <2> DEFINE old  == Get(s.charts, i, ChartReading)
             new  == WithStand(old, body)
             says == Differs(old.stands, body.series, body.reading)
  <2>1. Apply(s, frame) = PutChart(s, i, new, says)
    BY <1>17, <1>v, <1>i
       DEF ApplyNamedValue, ApplyChartPoint, ApplyStand, ChartOf, WithStand,
           FoldNames, FieldNames, PerIdNames, SingleNames,
           Names, OtherMaps, KeyedMaps
  <2> HIDE DEF new, says
  <2>2. Set("charts", Put(s.charts, i, new))
    <3>1. t = [s EXCEPT !["charts"] = Put(s.charts, i, new)]
      BY <2>1, <1>p
    <3> HIDE DEF t
    <3> QED BY <3>1, <1>n, ExceptSets DEF Names, OtherMaps
  <2> HIDE DEF t
  <2> QED
    BY <1>17, <2>2
       DEF SetsOnly, FoldsTo, Charted, StandFrame, DefinitionFrame,
           Bucketed, BucketFrame,
           Names, Scalars, KeyedMaps, OtherMaps, ChartId, new
<1>18. CASE name = "ChartStand" /\ (body.form = "stand")
  <2> DEFINE old  == Get(s.charts, body.chart, ChartReading)
             new  == WithStand(old, body)
             says == Differs(old.stands, body.series, body.reading)
  <2>1. Apply(s, frame) = PutChart(s, body.chart, new, says)
    BY <1>18, <1>v, <1>i
       DEF ApplyNamedValue, ApplyChartStand, ApplyStand, ChartOf, WithStand,
           FoldNames, FieldNames, PerIdNames, SingleNames,
           Names, OtherMaps, KeyedMaps
  <2> HIDE DEF new, says
  <2>2. Set("charts", Put(s.charts, body.chart, new))
    <3>1. t = [s EXCEPT !["charts"] = Put(s.charts, body.chart, new)]
      BY <2>1, <1>p
    <3> HIDE DEF t
    <3> QED BY <3>1, <1>n, ExceptSets DEF Names, OtherMaps
  <2> HIDE DEF t
  <2> QED
    BY <1>18, <2>2
       DEF SetsOnly, FoldsTo, Charted, StandFrame, DefinitionFrame,
           Bucketed, BucketFrame,
           Names, Scalars, KeyedMaps, OtherMaps, ChartId, new
<1>19. CASE /\ name = "ChartDefinition"
            /\ (body.form = "definition" /\ body.title # <<>>)
  <2> DEFINE old  == ChartOf(s, i)
             new  == Defined(old, body)
             says == \/ old.label # new.label
                     \/ old.category # new.category
                     \/ old.unit # new.unit
                     \/ old.summed_chart_ids # new.summed_chart_ids
  <2>1. Apply(s, frame) = PutChart(s, i, new, says)
    BY <1>19, <1>v, <1>i
       DEF ApplyNamedValue, ApplyChartDefinition, Defined, FoldNames,
           FieldNames, PerIdNames, SingleNames,
           Names, OtherMaps, KeyedMaps
  <2> HIDE DEF new, says
  <2>2. Set("charts", Put(s.charts, i, new))
    <3>1. t = [s EXCEPT !["charts"] = Put(s.charts, i, new)]
      BY <2>1, <1>p
    <3> HIDE DEF t
    <3> QED BY <3>1, <1>n, ExceptSets DEF Names, OtherMaps
  <2> HIDE DEF t
  <2> QED
    BY <1>19, <2>2
       DEF SetsOnly, FoldsTo, Charted, StandFrame, DefinitionFrame,
           Bucketed, BucketFrame,
           Names, Scalars, KeyedMaps, OtherMaps, ChartId, ChartOf, new
<1>20. CASE /\ name = "ChartRangeStand"
            /\ (body.form = "stand" /\ SafeFloat(body.reading) # None)
  <2> DEFINE old  == Get(s.chart_today_buckets, i, <<>>)
             new  == Put(s.chart_today_buckets, i,
                         Put(old, body.series, body.reading))
             says == Differs(old, body.series, body.reading)
  <2>1. Apply(s, frame) = Folded([s EXCEPT !["chart_today_buckets"] = new],
                                says)
    BY <1>20, <1>v, <1>i
       DEF ApplyNamedValue, ApplyChartRangeStand, FoldNames, FieldNames,
           PerIdNames, SingleNames,
           Names, OtherMaps, KeyedMaps
  <2> HIDE DEF new, says
  <2>2. Set("chart_today_buckets", new)
    <3>1. t = [s EXCEPT !["chart_today_buckets"] = new]
      BY <2>1, <1>n DEF Folded
    <3> HIDE DEF t, new
    <3> QED BY <3>1, <1>n, ExceptSets DEF Names, OtherMaps
  <2> HIDE DEF t
  <2> QED
    BY <1>20, <2>2
       DEF SetsOnly, FoldsTo, Charted, StandFrame, DefinitionFrame,
           Bucketed, BucketFrame,
           Names, Scalars, KeyedMaps, OtherMaps, new
<1>21. CASE name = "StatusEntry"
  <2> DEFINE new == Update(s.unit_hints, body.hints)
  <2>1. Apply(s, frame) = ApplyStatusEntry(s, body)
    BY <1>21, <1>v DEF ApplyNamedValue, FoldNames, FieldNames
  <2>2. Set("unit_hints", new)
    <3> DEFINE known == \A signal \in DOMAIN body.hints :
                          ~Differs(s.unit_hints, signal, body.hints[signal])
    <3>1. CASE ~known
      <4>1. t = [s EXCEPT !["unit_hints"] = new]
        <5>1. "unit_hints" \in DOMAIN s
          BY <1>n DEF Names, OtherMaps
        <5>2. ApplyStatusEntry(s, body)
                = Folded([s EXCEPT !["unit_hints"] = new], TRUE)
          BY <3>1, <5>1 DEF ApplyStatusEntry
        <5> HIDE DEF new
        <5> QED BY <2>1, <5>2 DEF Folded
      <4> HIDE DEF t, new
      <4> QED BY <4>1, <1>n, ExceptSets DEF Names, OtherMaps
    <3>2. CASE known
      <4>1. t = s
        BY <2>1, <3>2 DEF ApplyStatusEntry, Same, Folded
      <4>2. IsMap(s.unit_hints)
        BY DEF Shaped, OtherMaps
      <4>3. new = s.unit_hints
        BY <3>2, <4>2, UpdateAgain
      <4> HIDE DEF t, new
      <4> QED BY <4>1, <4>3 DEF SetsOnly
    <3> QED BY <3>1, <3>2
  <2> HIDE DEF t
  <2> QED
    BY <1>21, <2>2
       DEF SetsOnly, FoldsTo, Charted, StandFrame, DefinitionFrame,
           Bucketed, BucketFrame,
           Names, Scalars, KeyedMaps, OtherMaps
<1>22. CASE name = "GsaConfig"
  <2> DEFINE cameras == IF body.fields > 3 THEN ParseGsaPairs(body.cameras)
                        ELSE s.gsa_cameras
             labels  == IF body.fields > 4 THEN DoorLabels(body)
                        ELSE s.gsa_door_labels
  <2>1. Apply(s, frame) = ApplyGsaConfig(s, body)
    BY <1>22, <1>f DEF ApplyNamedFields, FieldNames
  <2>2. t = [s EXCEPT !.gsa_cameras = cameras, !.gsa_door_labels = labels]
    BY <2>1 DEF ApplyGsaConfig, Folded, DoorLabels
  <2>3. {"gsa_cameras", "gsa_door_labels"} \subseteq Names
    BY DEF Names, OtherMaps
  <2> HIDE DEF t, cameras, labels
  <2>4. /\ t.gsa_cameras = cameras /\ t.gsa_door_labels = labels
        /\ \A n \in Names \ {"gsa_cameras", "gsa_door_labels"} : t[n] = s[n]
    BY <2>2, <2>3, <1>n
  <2> QED
    BY <1>22, <2>4
       DEF SetsOnly, FoldsTo, Charted, StandFrame, DefinitionFrame,
           Bucketed, BucketFrame,
           Names, Scalars, KeyedMaps, OtherMaps, cameras, labels
<1>23. CASE \/ name \notin FoldNames
            \/ name = "ClimateConfig" /\ body = Empty
            \/ name = "SceneConfig" /\ body = Empty
            \/ /\ name = "Humidity"
               /\ ~(SafeFloat(body) # None \/ i \in DOMAIN s.humidities)
            \/ name = "ChartTarget" /\ SafeFloat(body) = None
            \/ name = "ChartPointUpdate" /\ ~(body.form = "stand")
            \/ name = "ChartStand" /\ ~(body.form = "stand")
            \/ /\ name = "ChartDefinition"
               /\ ~(body.form = "definition" /\ body.title # <<>>)
            \/ /\ name = "ChartRangeStand"
               /\ ~(body.form = "stand" /\ SafeFloat(body.reading) # None)
  <2>1. Apply(s, frame) = Same(s)
    <3>1. CASE name \notin FoldNames
      BY <3>1 DEF Carries, Apply, ApplyNamedValue, ApplyNamedFields, FoldNames
    <3>2. CASE name = "ClimateConfig" /\ body = Empty
      BY <3>2, <1>f, <1>i
         DEF ApplyNamedFields, FoldNames, FieldNames
    <3>3. CASE name = "SceneConfig" /\ body = Empty
      BY <3>3, <1>f, <1>i
         DEF ApplyNamedFields, FoldNames, FieldNames
    <3>4. CASE /\ name = "Humidity"
               /\ ~(SafeFloat(body) # None \/ i \in DOMAIN s.humidities)
      BY <3>4, <1>v, <1>i
         DEF ApplyNamedValue, ApplyHumidity, FoldNames, FieldNames
    <3>5. CASE name = "ChartTarget" /\ SafeFloat(body) = None
      BY <3>5, <1>v, <1>i
         DEF ApplyNamedValue, ApplyChartTarget, FoldNames, FieldNames
    <3>6. CASE name = "ChartPointUpdate" /\ ~(body.form = "stand")
      BY <3>6, <1>v, <1>i
         DEF ApplyNamedValue, ApplyChartPoint, ApplyStand, ChartOf,
             WithStand, FoldNames, FieldNames
    <3>7. CASE name = "ChartStand" /\ ~(body.form = "stand")
      BY <3>7, <1>v, <1>i
         DEF ApplyNamedValue, ApplyChartStand, ApplyStand, ChartOf,
             WithStand, FoldNames, FieldNames
    <3>8. CASE /\ name = "ChartDefinition"
               /\ ~(body.form = "definition" /\ body.title # <<>>)
      BY <3>8, <1>v, <1>i
         DEF ApplyNamedValue, ApplyChartDefinition, Defined, FoldNames,
             FieldNames
    <3>9. CASE /\ name = "ChartRangeStand"
               /\ ~(body.form = "stand" /\ SafeFloat(body.reading) # None)
      BY <3>9, <1>v, <1>i
         DEF ApplyNamedValue, ApplyChartRangeStand, FoldNames, FieldNames
    <3> QED BY <1>23, <3>1, <3>2, <3>3, <3>4, <3>5, <3>6, <3>7, <3>8, <3>9
  <2>2. t = s
    BY <2>1 DEF Same, Folded
  <2> HIDE DEF t
  <2> QED
    BY <1>23, <2>2
       DEF SetsOnly, FoldsTo, Charted, StandFrame, DefinitionFrame,
           Bucketed, BucketFrame,
           Names, Scalars, KeyedMaps, OtherMaps, FoldNames
<1> HIDE DEF t, name, i, body
<1> QED
  BY <1>1, <1>2, <1>3, <1>4, <1>5, <1>6, <1>7, <1>8, <1>9, <1>10,
     <1>11, <1>12, <1>13, <1>14, <1>15, <1>16, <1>17, <1>18, <1>19, <1>20,
     <1>21, <1>22, <1>23
     DEF FoldNames
-----------------------------------------------------------------------------
(* Two keys are set in either order; a key set twice keeps the last value. *)
LEMMA PutsCommute ==
  ASSUME NEW map, NEW k, NEW l, k # l, NEW v, NEW w
  PROVE  /\ Put(Put(map, k, v), l, w) = Put(Put(map, l, w), k, v)
         /\ \A default : Get(Put(map, k, v), l, default) = Get(map, l, default)
BY DEF Put, Get

(* A key set twice keeps the last value.                                  *)
LEMMA PutTwice ==
  ASSUME NEW map, NEW k, NEW v, NEW w
  PROVE  Put(Put(map, k, v), k, w) = Put(map, k, w)
BY DEF Put

(* What is got at a key is what was set there.                             *)
LEMMA PutGot ==
  ASSUME NEW map, NEW k, NEW v, NEW default
  PROVE  Get(Put(map, k, v), k, default) = v
BY DEF Put, Get

(* What a chart is made of after a stand and after a definition.           *)
LEMMA StandMakes ==
  ASSUME NEW chart, ChartShaped(chart), NEW body
  PROVE  LET new == WithStand(chart, body)
         IN  /\ ChartShaped(new)
             /\ new.stands = Put(chart.stands, body.series, body.reading)
             /\ new.unit = chart.unit /\ new.label = chart.label
             /\ new.category = chart.category
             /\ new.summed_chart_ids = chart.summed_chart_ids
<1> DEFINE stands == Put(chart.stands, body.series, body.reading)
           new    == WithStand(chart, body)
<1>1. IsMap(stands)
  BY PutMakes
<1>2. new = [chart EXCEPT !.stands = stands]
  BY DEF WithStand, ChartShaped
<1> HIDE DEF stands, new
<1>3. /\ new.stands = stands /\ new.unit = chart.unit /\ new.label = chart.label
      /\ new.category = chart.category
      /\ new.summed_chart_ids = chart.summed_chart_ids
      /\ IsMap(new) /\ DOMAIN new = DOMAIN chart
  BY <1>2 DEF ChartShaped, IsMap
<1> QED BY <1>1, <1>3 DEF ChartShaped, new, stands

(* A definition leaves the readings and takes the rest from its payload,   *)
(* the unit only while there is none (state.py:475-545).                   *)
LEMMA DefinitionMakes ==
  ASSUME NEW chart, ChartShaped(chart), NEW body
  PROVE  LET new == Defined(chart, body)
         IN  /\ ChartShaped(new)
             /\ new.stands = chart.stands
             /\ new.unit = IF body.fields > 14 /\ chart.unit = "" THEN body.unit
                           ELSE chart.unit
             /\ new.label = CleanChartLabel(body.title)
             /\ new.category = IF body.fields > 13 THEN body.category
                               ELSE chart.category
             /\ new.summed_chart_ids = body.summed
<1> DEFINE label    == CleanChartLabel(body.title)
           category == IF body.fields > 13 THEN body.category ELSE chart.category
           unit     == IF body.fields > 14 /\ chart.unit = "" THEN body.unit
                       ELSE chart.unit
           new      == Defined(chart, body)
<1>2. new = [chart EXCEPT !.label = label, !.category = category, !.unit = unit,
                          !.summed_chart_ids = body.summed]
  BY DEF Defined, ChartShaped
<1> HIDE DEF label, category, unit, new
<1>3. /\ new.stands = chart.stands /\ new.unit = unit /\ new.label = label
      /\ new.category = category
      /\ new.summed_chart_ids = body.summed
      /\ IsMap(new) /\ DOMAIN new = DOMAIN chart
  BY <1>2 DEF ChartShaped, IsMap
<1> QED BY <1>3 DEF ChartShaped, new, label, category, unit

(* Charts with the same five fields are the same.                          *)
LEMMA ChartsEqual ==
  ASSUME NEW c, NEW d, ChartShaped(c), ChartShaped(d),
         c.unit = d.unit, c.stands = d.stands, c.label = d.label,
         c.category = d.category, c.summed_chart_ids = d.summed_chart_ids
  PROVE  c = d
<1>1. \A k \in DOMAIN c : c[k] = d[k]
  BY DEF ChartShaped
<1> QED BY <1>1 DEF ChartShaped, IsMap
-----------------------------------------------------------------------------
(* Frames of different sources, as far as the snapshot's keys go.          *)
ChartFrame(frame) == StandFrame(frame) \/ DefinitionFrame(frame)

Apart(f, g) ==
  /\ f.name = g.name => f.name \notin SingleNames
  /\ f.name = g.name /\ f.name \in PerIdNames
       => \/ f.index # g.index
          \/ f.name \in {"ChartPointUpdate", "ChartRangeStand"}
  /\ StandFrame(f) /\ StandFrame(g) /\ ChartId(f) = ChartId(g)
       => f.body.series # g.body.series
  /\ BucketFrame(f) /\ BucketFrame(g) /\ f.index = g.index
       => f.body.series # g.body.series

(* CHART's digits are the beginning of its payload.                        *)
Digits(text) ==
  text.head = "CHART" /\ text.body.form = "stand" => text.body.chart = text.index

(* Texts of different sources never write the same key with a value that   *)
(* the other would replace.                                                *)
LEMMA SourcesApart ==
  ASSUME NEW f, NEW g, NEW t, NEW u, Carries(f, t), Carries(g, u),
         Digits(t), Digits(u), Source(t) # Source(u)
  PROVE  Apart(f, g)
<1>1. f.name = g.name => f.name \notin SingleNames
  BY DEF Carries, Source, SingleNames, FoldNames, HeadOf
<1>2. f.name = g.name /\ f.name \in PerIdNames
        => \/ f.index # g.index
           \/ f.name \in {"ChartPointUpdate", "ChartRangeStand"}
  BY DEF Carries, Source, PerIdNames, FoldNames, HeadOf
<1>3. StandFrame(f) => /\ t.head \in {"CHART", "StandsSingelChartUpdate"}
                       /\ ChartId(f) = t.index /\ f.body = t.body
  BY
     DEF Carries, StandFrame, ChartId, Digits, PerIdNames, SingleNames,
         FoldNames, HeadOf
<1>4. StandFrame(g) => /\ u.head \in {"CHART", "StandsSingelChartUpdate"}
                       /\ ChartId(g) = u.index /\ g.body = u.body
  BY
     DEF Carries, StandFrame, ChartId, Digits, PerIdNames, SingleNames,
         FoldNames, HeadOf
<1>5. StandFrame(f) /\ StandFrame(g) /\ ChartId(f) = ChartId(g)
        => f.body.series # g.body.series
  BY <1>3, <1>4 DEF Source
<1>6. BucketFrame(f) /\ BucketFrame(g) /\ f.index = g.index
        => f.body.series # g.body.series
  BY
     DEF Carries, BucketFrame, Source, PerIdNames, SingleNames, FoldNames,
         HeadOf
<1> QED BY <1>1, <1>2, <1>5, <1>6 DEF Apart
-----------------------------------------------------------------------------
(* What a frame makes of the chart it is about.                            *)
Renewed(chart, frame) ==
  IF StandFrame(frame) THEN WithStand(chart, frame.body)
  ELSE Defined(chart, frame.body)

(* The reading a chart starts from has the shape of a chart.               *)
LEMMA EmptyChartShaped == ChartShaped(ChartReading)
BY NoKeys DEF ChartShaped, ChartReading, IsMap

(* Two frames about one chart: stands of different series, or a stand and  *)
(* a definition.                                                           *)
LEMMA RenewalsCommute ==
  ASSUME NEW chart, ChartShaped(chart), NEW f, NEW g, Apart(f, g),
         ChartFrame(f), ChartFrame(g), ChartId(f) = ChartId(g)
  PROVE  Renewed(Renewed(chart, f), g) = Renewed(Renewed(chart, g), f)
<1>1. /\ ~(StandFrame(f) /\ DefinitionFrame(f))
      /\ ~(StandFrame(g) /\ DefinitionFrame(g))
  BY DEF StandFrame, DefinitionFrame
<1>2. CASE StandFrame(f) /\ StandFrame(g)
  <2> DEFINE cf == WithStand(chart, f.body)
             cg == WithStand(chart, g.body)
             fg == WithStand(cf, g.body)
             gf == WithStand(cg, f.body)
  <2>1. f.body.series # g.body.series
    BY <1>2 DEF Apart
  <2>2. /\ ChartShaped(cf)
        /\ cf.stands = Put(chart.stands, f.body.series, f.body.reading)
        /\ cf.unit = chart.unit /\ cf.label = chart.label
        /\ cf.category = chart.category
        /\ cf.summed_chart_ids = chart.summed_chart_ids
    BY StandMakes
  <2>3. /\ ChartShaped(cg)
        /\ cg.stands = Put(chart.stands, g.body.series, g.body.reading)
        /\ cg.unit = chart.unit /\ cg.label = chart.label
        /\ cg.category = chart.category
        /\ cg.summed_chart_ids = chart.summed_chart_ids
    BY StandMakes
  <2> HIDE DEF cf, cg
  <2>4. /\ ChartShaped(fg)
        /\ fg.stands = Put(cf.stands, g.body.series, g.body.reading)
        /\ fg.unit = cf.unit /\ fg.label = cf.label
        /\ fg.category = cf.category
        /\ fg.summed_chart_ids = cf.summed_chart_ids
    <3>1. ChartShaped(cf)
      BY <2>2
    <3> QED BY <3>1, StandMakes
  <2>5. /\ ChartShaped(gf)
        /\ gf.stands = Put(cg.stands, f.body.series, f.body.reading)
        /\ gf.unit = cg.unit /\ gf.label = cg.label
        /\ gf.category = cg.category
        /\ gf.summed_chart_ids = cg.summed_chart_ids
    <3>1. ChartShaped(cg)
      BY <2>3
    <3> QED BY <3>1, StandMakes
  <2>6. fg.stands = gf.stands
    BY <2>1, <2>2, <2>3, <2>4, <2>5, PutsCommute
  <2> HIDE DEF fg, gf
  <2>7. fg = gf
    BY <2>2, <2>3, <2>4, <2>5, <2>6, ChartsEqual
  <2> QED BY <1>2, <2>7 DEF Renewed, fg, gf, cf, cg
<1>3. ASSUME NEW a, NEW b, StandFrame(a), DefinitionFrame(b), ~StandFrame(b)
      PROVE  Renewed(Renewed(chart, a), b) = Renewed(Renewed(chart, b), a)
  <2> DEFINE ca == WithStand(chart, a.body)
             cb == Defined(chart, b.body)
             ab == Defined(ca, b.body)
             ba == WithStand(cb, a.body)
  <2>2. /\ ChartShaped(ca)
        /\ ca.stands = Put(chart.stands, a.body.series, a.body.reading)
        /\ ca.unit = chart.unit /\ ca.label = chart.label
        /\ ca.category = chart.category
        /\ ca.summed_chart_ids = chart.summed_chart_ids
    BY StandMakes
  <2>3. /\ ChartShaped(cb) /\ cb.stands = chart.stands
        /\ cb.unit = IF b.body.fields > 14 /\ chart.unit = "" THEN b.body.unit
                     ELSE chart.unit
        /\ cb.label = CleanChartLabel(b.body.title)
        /\ cb.category = IF b.body.fields > 13 THEN b.body.category
                         ELSE chart.category
        /\ cb.summed_chart_ids = b.body.summed
    BY DefinitionMakes
  <2> HIDE DEF ca, cb
  <2>4. /\ ChartShaped(ab) /\ ab.stands = ca.stands
        /\ ab.unit = IF b.body.fields > 14 /\ ca.unit = "" THEN b.body.unit
                     ELSE ca.unit
        /\ ab.label = CleanChartLabel(b.body.title)
        /\ ab.category = IF b.body.fields > 13 THEN b.body.category
                         ELSE ca.category
        /\ ab.summed_chart_ids = b.body.summed
    <3>1. ChartShaped(ca)
      BY <2>2
    <3> QED BY <3>1, DefinitionMakes
  <2>5. /\ ChartShaped(ba)
        /\ ba.stands = Put(cb.stands, a.body.series, a.body.reading)
        /\ ba.unit = cb.unit /\ ba.label = cb.label
        /\ ba.category = cb.category
        /\ ba.summed_chart_ids = cb.summed_chart_ids
    <3>1. ChartShaped(cb)
      BY <2>3
    <3> QED BY <3>1, StandMakes
  <2> HIDE DEF ab, ba
  <2>6. ab = ba
    BY <2>2, <2>3, <2>4, <2>5, ChartsEqual
  <2> QED BY <1>3, <2>6 DEF Renewed, ab, ba, ca, cb
<1>4. ~(DefinitionFrame(f) /\ DefinitionFrame(g))
  BY DEF Apart, DefinitionFrame, ChartId, PerIdNames, FoldNames, SingleNames
<1> QED BY <1>1, <1>2, <1>3, <1>4 DEF ChartFrame

(* The charts after a frame each of two sources, in either order.          *)
LEMMA ChartsCommute ==
  ASSUME NEW charts, \A c \in DOMAIN charts : ChartShaped(charts[c]),
         NEW f, NEW g, Apart(f, g)
  PROVE  Charted(Charted(charts, f), g) = Charted(Charted(charts, g), f)
<1> DEFINE Old(m, h) == Get(m, ChartId(h), ChartReading)
<1>1. \A m, h : Charted(m, h) = IF ChartFrame(h)
                                THEN Put(m, ChartId(h), Renewed(Old(m, h), h))
                                ELSE m
  BY DEF Charted, ChartFrame, Renewed
<1>2. CASE ~(ChartFrame(f) /\ ChartFrame(g))
  BY <1>1, <1>2
<1>3. CASE ChartFrame(f) /\ ChartFrame(g) /\ ChartId(f) # ChartId(g)
  <2> DEFINE cf == Charted(charts, f)
             cg == Charted(charts, g)
             vf == Renewed(Old(charts, f), f)
             vg == Renewed(Old(charts, g), g)
  <2>1. cf = Put(charts, ChartId(f), vf) /\ cg = Put(charts, ChartId(g), vg)
    BY <1>1, <1>3
  <2>2. Old(cf, g) = Old(charts, g) /\ Old(cg, f) = Old(charts, f)
    <3> HIDE DEF cf, cg, vf, vg
    <3> QED BY <1>3, <2>1, PutsCommute
  <2>3. /\ Charted(cf, g) = Put(cf, ChartId(g), vg)
        /\ Charted(cg, f) = Put(cg, ChartId(f), vf)
    BY <1>1, <1>3, <2>2
  <2> HIDE DEF cf, cg, vf, vg
  <2>4. Charted(cf, g) = Charted(cg, f)
    BY <1>3, <2>1, <2>3, PutsCommute
  <2> QED BY <2>4 DEF cf, cg
<1>4. CASE ChartFrame(f) /\ ChartFrame(g) /\ ChartId(f) = ChartId(g)
  <2> DEFINE old == Old(charts, f)
             cf  == Charted(charts, f)
             cg  == Charted(charts, g)
  <2>1. ChartShaped(old) /\ old = Old(charts, g)
    BY <1>4, EmptyChartShaped DEF Get
  <2>2. Renewed(Renewed(old, f), g) = Renewed(Renewed(old, g), f)
    BY <1>4, <2>1, RenewalsCommute
  <2>3. /\ cf = Put(charts, ChartId(f), Renewed(old, f))
        /\ cg = Put(charts, ChartId(f), Renewed(old, g))
    BY <1>1, <1>4, <2>1
  <2> HIDE DEF cf, cg, old
  <2>4. Old(cf, g) = Renewed(old, f) /\ Old(cg, f) = Renewed(old, g)
    BY <1>4, <2>3, PutGot
  <2>5. /\ Charted(cf, g) = Put(cf, ChartId(f), Renewed(Renewed(old, f), g))
        /\ Charted(cg, f) = Put(cg, ChartId(f), Renewed(Renewed(old, g), f))
    BY <1>1, <1>4, <2>4
  <2>6. Charted(cf, g) = Charted(cg, f)
    BY <2>2, <2>3, <2>5, PutTwice
  <2> QED BY <2>6 DEF cf, cg
<1> QED BY <1>2, <1>3, <1>4

(* Today's buckets likewise.                                               *)
LEMMA BucketsCommute ==
  ASSUME NEW buckets, NEW f, NEW g, Apart(f, g)
  PROVE  Bucketed(Bucketed(buckets, f), g) = Bucketed(Bucketed(buckets, g), f)
<1> DEFINE Old(m, h) == Get(m, h.index, <<>>)
           New(map, h) == Put(map, h.body.series, h.body.reading)
<1>1. \A m, h : Bucketed(m, h) = IF BucketFrame(h)
                                 THEN Put(m, h.index, New(Old(m, h), h))
                                 ELSE m
  BY DEF Bucketed
<1> HIDE DEF New
<1>2. CASE ~(BucketFrame(f) /\ BucketFrame(g))
  BY <1>1, <1>2
<1>3. CASE BucketFrame(f) /\ BucketFrame(g) /\ f.index # g.index
  <2> DEFINE bf == Bucketed(buckets, f)
             bg == Bucketed(buckets, g)
             vf == New(Old(buckets, f), f)
             vg == New(Old(buckets, g), g)
  <2>1. bf = Put(buckets, f.index, vf) /\ bg = Put(buckets, g.index, vg)
    BY <1>1, <1>3
  <2>2. Old(bf, g) = Old(buckets, g) /\ Old(bg, f) = Old(buckets, f)
    <3> HIDE DEF bf, bg, vf, vg
    <3> QED BY <1>3, <2>1, PutsCommute
  <2>3. /\ Bucketed(bf, g) = Put(bf, g.index, vg)
        /\ Bucketed(bg, f) = Put(bg, f.index, vf)
    BY <1>1, <1>3, <2>2
  <2> HIDE DEF bf, bg, vf, vg
  <2>4. Bucketed(bf, g) = Bucketed(bg, f)
    BY <1>3, <2>1, <2>3, PutsCommute
  <2> QED BY <2>4 DEF bf, bg
<1>4. CASE BucketFrame(f) /\ BucketFrame(g) /\ f.index = g.index
  <2> DEFINE old == Old(buckets, f)
             bf  == Bucketed(buckets, f)
             bg  == Bucketed(buckets, g)
  <2>1. f.body.series # g.body.series
    BY <1>4 DEF Apart
  <2>2. New(New(old, f), g) = New(New(old, g), f)
    BY <2>1, PutsCommute DEF New
  <2>3. /\ bf = Put(buckets, f.index, New(old, f))
        /\ bg = Put(buckets, f.index, New(old, g))
    BY <1>1, <1>4
  <2> HIDE DEF bf, bg, old
  <2>4. Old(bf, g) = New(old, f) /\ Old(bg, f) = New(old, g)
    BY <1>4, <2>3, PutGot
  <2>5. /\ Bucketed(bf, g) = Put(bf, f.index, New(New(old, f), g))
        /\ Bucketed(bg, f) = Put(bg, f.index, New(New(old, g), f))
    BY <1>1, <1>4, <2>4
  <2>6. Bucketed(bf, g) = Bucketed(bg, f)
    BY <2>2, <2>3, <2>5, PutTwice
  <2> QED BY <2>6 DEF bf, bg
<1> QED BY <1>2, <1>3, <1>4

(* Each attribute of the snapshot after two frames.                        *)
LEMMA FoldsCommute ==
  ASSUME NEW s, Shaped(s), NEW f, NEW g, NEW t, NEW u,
         Carries(f, t), Carries(g, u), Readable(f), Readable(g), Apart(f, g)
  PROVE  /\ Shaped(Apply(s, f).snap) /\ Shaped(Apply(s, g).snap)
         /\ Shaped(Apply(Apply(s, f).snap, g).snap)
         /\ Apply(Apply(s, f).snap, g).snap = Apply(Apply(s, g).snap, f).snap
<1> DEFINE sf == Apply(s, f).snap
           sg == Apply(s, g).snap
           fg == Apply(sf, g).snap
           gf == Apply(sg, f).snap
<1> SUFFICES Shaped(sf) /\ Shaped(sg) /\ Shaped(fg) /\ fg = gf
  OBVIOUS
<1>1. Shaped(sf) /\ Shaped(sg)
  BY ApplySettles DEF Settles
<1>2. FoldsTo(s, f, sf) /\ FoldsTo(s, g, sg)
  BY AppliesPointwise
<1> HIDE DEF sf, sg
<1>3. Shaped(fg) /\ Shaped(gf)
  BY <1>1, ApplySettles DEF Settles
<1>4. FoldsTo(sf, g, fg) /\ FoldsTo(sg, f, gf)
  BY <1>1, AppliesPointwise
<1> HIDE DEF fg, gf
<1>5. fg.outdoor_temperature = gf.outdoor_temperature
  <2>1. \A a, h, b : FoldsTo(a, h, b) =>
          b.outdoor_temperature
            = IF h.name = "OutdoorTemperature" THEN SafeFloat(h.body)
                     ELSE a.outdoor_temperature
    BY DEF FoldsTo
  <2>2. ~(f.name = "OutdoorTemperature" /\ g.name = "OutdoorTemperature")
    BY DEF Apart, SingleNames
  <2> QED BY <1>2, <1>4, <2>1, <2>2
<1>6. fg.wind_speed = gf.wind_speed
  <2>1. \A a, h, b : FoldsTo(a, h, b) =>
          b.wind_speed = IF h.name = "WindSpeed" THEN SafeFloat(h.body)
                     ELSE a.wind_speed
    BY DEF FoldsTo
  <2>2. ~(f.name = "WindSpeed" /\ g.name = "WindSpeed")
    BY DEF Apart, SingleNames
  <2> QED BY <1>2, <1>4, <2>1, <2>2
<1>7. fg.rain_alarm = gf.rain_alarm
  <2>1. \A a, h, b : FoldsTo(a, h, b) =>
          b.rain_alarm = IF h.name = "Rain" THEN AlarmOn(h.body)
                     ELSE a.rain_alarm
    BY DEF FoldsTo
  <2>2. ~(f.name = "Rain" /\ g.name = "Rain")
    BY DEF Apart, SingleNames
  <2> QED BY <1>2, <1>4, <2>1, <2>2
<1>8. fg.hail_alarm = gf.hail_alarm
  <2>1. \A a, h, b : FoldsTo(a, h, b) =>
          b.hail_alarm = IF h.name = "Hail" THEN AlarmOn(h.body)
                     ELSE a.hail_alarm
    BY DEF FoldsTo
  <2>2. ~(f.name = "Hail" /\ g.name = "Hail")
    BY DEF Apart, SingleNames
  <2> QED BY <1>2, <1>4, <2>1, <2>2
<1>9. fg.blinds_maintenance = gf.blinds_maintenance
  <2>1. \A a, h, b : FoldsTo(a, h, b) =>
          b.blinds_maintenance = IF h.name = "BlindsMaintenance" THEN AlarmOn(h.body)
                     ELSE a.blinds_maintenance
    BY DEF FoldsTo
  <2>2. ~(f.name = "BlindsMaintenance" /\ g.name = "BlindsMaintenance")
    BY DEF Apart, SingleNames
  <2> QED BY <1>2, <1>4, <2>1, <2>2
<1>10. fg.person_info = gf.person_info
  <2>1. \A a, h, b : FoldsTo(a, h, b) =>
          b.person_info = IF h.name = "PersonInfo" THEN UnlessRead(h.body)
                     ELSE a.person_info
    BY DEF FoldsTo
  <2>2. ~(f.name = "PersonInfo" /\ g.name = "PersonInfo")
    BY DEF Apart, SingleNames
  <2> QED BY <1>2, <1>4, <2>1, <2>2
<1>11. fg.unit_hints = gf.unit_hints
  <2>1. \A a, h, b : FoldsTo(a, h, b) =>
          b.unit_hints
            = IF h.name = "StatusEntry" THEN Update(a.unit_hints, h.body.hints)
                     ELSE a.unit_hints
    BY DEF FoldsTo
  <2>2. ~(f.name = "StatusEntry" /\ g.name = "StatusEntry")
    BY DEF Apart, SingleNames
  <2> QED BY <1>2, <1>4, <2>1, <2>2
<1>12. fg.gsa_cameras = gf.gsa_cameras
  <2>1. \A a, h, b : FoldsTo(a, h, b) =>
          b.gsa_cameras
            = IF h.name = "GsaConfig" /\ h.body.fields > 3
              THEN ParseGsaPairs(h.body.cameras)
                     ELSE a.gsa_cameras
    BY DEF FoldsTo
  <2>2. ~(f.name = "GsaConfig" /\ g.name = "GsaConfig")
    BY DEF Apart, SingleNames
  <2> QED BY <1>2, <1>4, <2>1, <2>2
<1>13. fg.gsa_door_labels = gf.gsa_door_labels
  <2>1. \A a, h, b : FoldsTo(a, h, b) =>
          b.gsa_door_labels
            = IF h.name = "GsaConfig" /\ h.body.fields > 4
              THEN DoorLabels(h.body)
                     ELSE a.gsa_door_labels
    BY DEF FoldsTo
  <2>2. ~(f.name = "GsaConfig" /\ g.name = "GsaConfig")
    BY DEF Apart, SingleNames
  <2> QED BY <1>2, <1>4, <2>1, <2>2
<1>14. fg.wind_alarms = gf.wind_alarms
  <2>1. \A a, h, b : FoldsTo(a, h, b) =>
          b.wind_alarms =
            IF h.name = "WindAlarm"
            THEN Put(a.wind_alarms, h.index, AlarmOn(h.body))
            ELSE a.wind_alarms
    BY DEF FoldsTo
  <2>2. f.name = "WindAlarm" /\ g.name = "WindAlarm" => f.index # g.index
    BY DEF Apart, PerIdNames, FoldNames, SingleNames
  <2> QED BY <1>2, <1>4, <2>1, <2>2, PutsCommute
<1>15. fg.indoor_temperatures = gf.indoor_temperatures
  <2>1. \A a, h, b : FoldsTo(a, h, b) =>
          b.indoor_temperatures =
            IF h.name = "Temperature"
            THEN Put(a.indoor_temperatures, h.index, h.body)
            ELSE a.indoor_temperatures
    BY DEF FoldsTo
  <2>2. f.name = "Temperature" /\ g.name = "Temperature" => f.index # g.index
    BY DEF Apart, PerIdNames, FoldNames, SingleNames
  <2> QED BY <1>2, <1>4, <2>1, <2>2, PutsCommute
<1>16. fg.scene_states = gf.scene_states
  <2>1. \A a, h, b : FoldsTo(a, h, b) =>
          b.scene_states =
            IF h.name = "SceneState"
            THEN Put(a.scene_states, h.index, AlarmOn(h.body))
            ELSE a.scene_states
    BY DEF FoldsTo
  <2>2. f.name = "SceneState" /\ g.name = "SceneState" => f.index # g.index
    BY DEF Apart, PerIdNames, FoldNames, SingleNames
  <2> QED BY <1>2, <1>4, <2>1, <2>2, PutsCommute
<1>17. fg.intercom_ringing = gf.intercom_ringing
  <2>1. \A a, h, b : FoldsTo(a, h, b) =>
          b.intercom_ringing =
            IF h.name = "DoorIntercom"
            THEN Put(a.intercom_ringing, h.index, Flag(h.body = Word("ring")))
            ELSE a.intercom_ringing
    BY DEF FoldsTo
  <2>2. f.name = "DoorIntercom" /\ g.name = "DoorIntercom" => f.index # g.index
    BY DEF Apart, PerIdNames, FoldNames, SingleNames
  <2> QED BY <1>2, <1>4, <2>1, <2>2, PutsCommute
<1>18. fg.intercom_callers = gf.intercom_callers
  <2>1. \A a, h, b : FoldsTo(a, h, b) =>
          b.intercom_callers =
            IF h.name = "CallInfo"
            THEN Put(a.intercom_callers, h.index,
                     TranslateCallerLabel(h.body.word))
            ELSE a.intercom_callers
    BY DEF FoldsTo
  <2>2. f.name = "CallInfo" /\ g.name = "CallInfo" => f.index # g.index
    BY DEF Apart, PerIdNames, FoldNames, SingleNames
  <2> QED BY <1>2, <1>4, <2>1, <2>2, PutsCommute
<1>19. fg.infoboard_contents = gf.infoboard_contents
  <2>1. \A a, h, b : FoldsTo(a, h, b) =>
          b.infoboard_contents =
            IF h.name = "InfoboardContent"
            THEN Put(a.infoboard_contents, h.index, UnlessRead(h.body))
            ELSE a.infoboard_contents
    BY DEF FoldsTo
  <2>2. f.name = "InfoboardContent" /\ g.name = "InfoboardContent" =>
          f.index # g.index
    BY DEF Apart, PerIdNames, FoldNames, SingleNames
  <2> QED BY <1>2, <1>4, <2>1, <2>2, PutsCommute
<1>20. fg.climate_zones = gf.climate_zones
  <2>1. \A a, h, b : FoldsTo(a, h, b) =>
          b.climate_zones =
            IF h.name = "ClimateConfig" /\ h.body # Empty
            THEN Put(a.climate_zones, h.index, ClimateZoneRoom(h.body.title))
            ELSE a.climate_zones
    BY DEF FoldsTo
  <2>2. f.name = "ClimateConfig" /\ g.name = "ClimateConfig" => f.index # g.index
    BY DEF Apart, PerIdNames, FoldNames, SingleNames
  <2> QED BY <1>2, <1>4, <2>1, <2>2, PutsCommute
<1>21. fg.scenes = gf.scenes
  <2>1. \A a, h, b : FoldsTo(a, h, b) =>
          b.scenes =
            IF h.name = "SceneConfig" /\ h.body # Empty
            THEN Put(a.scenes, h.index, h.body.title)
            ELSE a.scenes
    BY DEF FoldsTo
  <2>2. f.name = "SceneConfig" /\ g.name = "SceneConfig" => f.index # g.index
    BY DEF Apart, PerIdNames, FoldNames, SingleNames
  <2> QED BY <1>2, <1>4, <2>1, <2>2, PutsCommute
<1>22. fg.chart_targets = gf.chart_targets
  <2>1. \A a, h, b : FoldsTo(a, h, b) =>
          b.chart_targets =
            IF h.name = "ChartTarget" /\ SafeFloat(h.body) # None
            THEN Put(a.chart_targets, h.index, SafeFloat(h.body))
            ELSE a.chart_targets
    BY DEF FoldsTo
  <2>2. f.name = "ChartTarget" /\ g.name = "ChartTarget" => f.index # g.index
    BY DEF Apart, PerIdNames, FoldNames, SingleNames
  <2> QED BY <1>2, <1>4, <2>1, <2>2, PutsCommute
<1>23. fg.humidities = gf.humidities
  <2> DEFINE Writes(a, h) ==
               /\ h.name = "Humidity"
               /\ SafeFloat(h.body) # None \/ h.index \in DOMAIN a.humidities
  <2>1. \A a, h, b : FoldsTo(a, h, b) =>
          b.humidities = IF Writes(a, h)
                         THEN Put(a.humidities, h.index, SafeFloat(h.body))
                         ELSE a.humidities
    BY DEF FoldsTo
  <2>2. f.name = "Humidity" /\ g.name = "Humidity" => f.index # g.index
    BY DEF Apart, PerIdNames, FoldNames, SingleNames
  <2>3. \A map, key, value : DOMAIN Put(map, key, value) = DOMAIN map \cup {key}
    BY DEF Put
  <2>4. CASE f.name = "Humidity" /\ g.name = "Humidity"
    <3>a. f.index # g.index
      BY <2>2, <2>4
    <3>b. /\ DOMAIN Put(s.humidities, f.index, SafeFloat(f.body))
               = DOMAIN s.humidities \cup {f.index}
          /\ DOMAIN Put(s.humidities, g.index, SafeFloat(g.body))
               = DOMAIN s.humidities \cup {g.index}
      BY <2>3
    <3>c. /\ sf.humidities \in {s.humidities,
                                 Put(s.humidities, f.index, SafeFloat(f.body))}
          /\ sg.humidities \in {s.humidities,
                                 Put(s.humidities, g.index, SafeFloat(g.body))}
      <4> HIDE DEF Writes
      <4> QED BY <1>2, <2>1
    <3>0. /\ g.index \in DOMAIN sf.humidities <=> g.index \in DOMAIN s.humidities
          /\ f.index \in DOMAIN sg.humidities <=> f.index \in DOMAIN s.humidities
      BY <3>a, <3>b, <3>c
    <3>1. (Writes(sf, g) <=> Writes(s, g)) /\ (Writes(sg, f) <=> Writes(s, f))
      BY <3>0
    <3> HIDE DEF Writes
    <3> QED BY <1>2, <1>4, <2>1, <2>2, <2>4, <3>1, PutsCommute
  <2>5. CASE ~(f.name = "Humidity" /\ g.name = "Humidity")
    BY <1>2, <1>4, <2>1, <2>5
  <2> QED BY <2>4, <2>5
<1>24. fg.charts = gf.charts
  <2>1. \A a, h, b : FoldsTo(a, h, b) => b.charts = Charted(a.charts, h)
    BY DEF FoldsTo
  <2>2. \A c \in DOMAIN s.charts : ChartShaped(s.charts[c])
    BY DEF Shaped
  <2>3. Charted(Charted(s.charts, f), g) = Charted(Charted(s.charts, g), f)
    BY <2>2, ChartsCommute
  <2> QED BY <1>2, <1>4, <2>1, <2>3
<1>25. fg.chart_today_buckets = gf.chart_today_buckets
  <2>1. \A a, h, b : FoldsTo(a, h, b) =>
          b.chart_today_buckets = Bucketed(a.chart_today_buckets, h)
    BY DEF FoldsTo
  <2>2. LET m == s.chart_today_buckets
        IN  Bucketed(Bucketed(m, f), g) = Bucketed(Bucketed(m, g), f)
    BY BucketsCommute
  <2> QED BY <1>2, <1>4, <2>1, <2>2
<1>26. \A n \in Names : fg[n] = gf[n]
  BY <1>5, <1>6, <1>7, <1>8, <1>9, <1>10, <1>11, <1>12, <1>13, <1>14, <1>15,
     <1>16, <1>17, <1>18, <1>19, <1>20, <1>21, <1>22, <1>23, <1>24, <1>25
     DEF Names, Scalars, KeyedMaps, OtherMaps
<1>27. fg = gf
  BY <1>3, <1>26 DEF Shaped, IsMap
<1> QED BY <1>1, <1>3, <1>27
-----------------------------------------------------------------------------
(* A frame by which the session learns a chart's unit from its definition. *)
UnitFrame(frame) ==
  /\ frame.name = "ChartDefinition" /\ frame.body.form = "definition"
  /\ frame.body.fields > 14 /\ frame.body.unit # ""

(* What the session records of a frame (client.py:971-981).                *)
LEMMA UnitsRecorded ==
  ASSUME NEW map, NEW frame
  PROVE  ChartUnits(map, frame)
           = IF frame.name = "StatusEntry" THEN Update(map, frame.body.charts)
             ELSE IF UnitFrame(frame) THEN Put(map, frame.index, frame.body.unit)
             ELSE map
BY DEF ChartUnits, UnitFrame

(* A chart whose definition has a unit has one of its own.                 *)
LEMMA DefinedUnit ==
  ASSUME NEW charts, \A c \in DOMAIN charts : ChartShaped(charts[c]),
         NEW frame, DefinitionFrame(frame), UnitFrame(frame)
  PROVE  /\ frame.index \in DOMAIN Charted(charts, frame)
         /\ Charted(charts, frame)[frame.index].unit # ""
<1> DEFINE old == Get(charts, frame.index, ChartReading)
           new == Defined(old, frame.body)
<1>1. ChartShaped(old)
  BY EmptyChartShaped DEF Get
<1>2. Charted(charts, frame) = Put(charts, frame.index, new)
  BY DEF Charted, ChartId, StandFrame, DefinitionFrame
<1>3. new.unit = IF frame.body.fields > 14 /\ old.unit = "" THEN frame.body.unit
                 ELSE old.unit
  BY <1>1, DefinitionMakes
<1>4. new.unit # ""
  BY <1>3 DEF UnitFrame
<1> HIDE DEF new
<1>5. /\ DOMAIN Put(charts, frame.index, new) = DOMAIN charts \cup {frame.index}
      /\ Put(charts, frame.index, new)[frame.index] = new
  BY DEF Put
<1> QED BY <1>2, <1>4, <1>5

(* The session's units matter to the charts that have none of their own.   *)
LEMMA UnitsAgree ==
  ASSUME NEW s, NEW us, NEW vs,
         \A c \in DOMAIN s.charts :
           s.charts[c].unit = "" => Get(us, c, "") = Get(vs, c, "")
  PROVE  Enumerate(s, us) = Enumerate(s, vs)
<1> DEFINE Unit(m, c) == IF s.charts[c].unit # "" THEN s.charts[c].unit
                         ELSE Get(m, c, "")
           summed     == UNION {s.charts[c].summed_chart_ids : c \in DOMAIN s.charts}
           Mapped(m)  == {c \in DOMAIN s.charts : Unit(m, c) \in DOMAIN ChartUnitMap}
           Of(m, kind, charts) ==
             {Entity(kind, c, [unit |-> ChartUnitMap[Unit(m, c)],
                               enabled |-> c \notin summed]) : c \in charts}
           Targeted(m) == Mapped(m) \cap DOMAIN s.chart_targets
<1>1. \A m : ChartSensors(s, m)
               = Of(m, "chart", Mapped(m)) \cup Of(m, "target_percent", Targeted(m))
                   \cup Of(m, "target_status", Targeted(m))
  BY DEF ChartSensors
<1>2. \A c \in DOMAIN s.charts : Unit(us, c) = Unit(vs, c)
  OBVIOUS
<1>3. Mapped(us) = Mapped(vs)
  <2> HIDE DEF Unit
  <2> QED BY <1>2
<1>4. ASSUME NEW kind, NEW charts, charts \subseteq DOMAIN s.charts
      PROVE  Of(us, kind, charts) = Of(vs, kind, charts)
  <2> HIDE DEF Unit, summed
  <2> QED BY <1>2, <1>4
<1>5. /\ Mapped(us) \subseteq DOMAIN s.charts
      /\ Targeted(us) \subseteq DOMAIN s.charts
  OBVIOUS
<1>6. Targeted(us) = Targeted(vs)
  <2> HIDE DEF Mapped
  <2> QED BY <1>3
<1> HIDE DEF Of, Mapped, Targeted, Unit
<1>7. ChartSensors(s, us) = ChartSensors(s, vs)
  BY <1>1, <1>3, <1>4, <1>5, <1>6
<1> QED BY <1>7 DEF Enumerate

(* So the order of the two frames does not matter to what setup builds.    *)
LEMMA UnitsCommute ==
  ASSUME NEW s, Shaped(s), NEW map, NEW f, NEW g, NEW t, NEW u,
         Carries(f, t), Carries(g, u), Readable(f), Readable(g), Apart(f, g),
         UnitFrame(f) => DefinitionFrame(f), UnitFrame(g) => DefinitionFrame(g)
  PROVE  LET fg == Apply(Apply(s, f).snap, g).snap
         IN  Enumerate(fg, ChartUnits(ChartUnits(map, f), g))
               = Enumerate(fg, ChartUnits(ChartUnits(map, g), f))
<1> DEFINE fg == Apply(Apply(s, f).snap, g).snap
           uf == ChartUnits(ChartUnits(map, f), g)
           ug == ChartUnits(ChartUnits(map, g), f)
<1>1. ~(f.name = "StatusEntry" /\ g.name = "StatusEntry")
  BY DEF Apart, SingleNames
<1>2. UnitFrame(f) /\ UnitFrame(g) => f.index # g.index
  BY DEF UnitFrame, Apart, PerIdNames, FoldNames, SingleNames
<1>3. UnitFrame(f) => f.name # "StatusEntry"
  BY DEF UnitFrame
<1>4. UnitFrame(g) => g.name # "StatusEntry"
  BY DEF UnitFrame
<1>5. ASSUME NEW a, NEW b, UnitFrame(b), NEW c, c # b.index,
             a.name = "StatusEntry"
      PROVE  Get(ChartUnits(ChartUnits(map, a), b), c, "")
               = Get(ChartUnits(ChartUnits(map, b), a), c, "")
  <2>1. b.name # "StatusEntry" /\ ~UnitFrame(a)
    BY <1>5 DEF UnitFrame
  <2>2. /\ ChartUnits(ChartUnits(map, a), b)
             = Put(Update(map, a.body.charts), b.index, b.body.unit)
        /\ ChartUnits(ChartUnits(map, b), a)
             = Update(Put(map, b.index, b.body.unit), a.body.charts)
    BY <1>5, <2>1, UnitsRecorded
  <2> QED BY <1>5, <2>2 DEF Get, Put, Update
<1>6. \A c : \/ Get(uf, c, "") = Get(ug, c, "")
             \/ UnitFrame(f) /\ c = f.index
             \/ UnitFrame(g) /\ c = g.index
  <2> TAKE c
  <2>1. CASE f.name = "StatusEntry" /\ UnitFrame(g)
    BY <1>5, <2>1
  <2>2. CASE g.name = "StatusEntry" /\ UnitFrame(f)
    BY <1>5, <2>2
  <2>3. CASE UnitFrame(f) /\ UnitFrame(g)
    <3>1. /\ \A m : ChartUnits(m, f) = Put(m, f.index, f.body.unit)
          /\ \A m : ChartUnits(m, g) = Put(m, g.index, g.body.unit)
      BY <1>3, <1>4, <2>3, UnitsRecorded
    <3>2. uf = ug
      BY <1>2, <2>3, <3>1, PutsCommute
    <3> QED BY <3>2
  <2>4. CASE f.name # "StatusEntry" /\ ~UnitFrame(f)
    <3>1. \A m : ChartUnits(m, f) = m
      BY <2>4, UnitsRecorded
    <3> QED BY <3>1
  <2>5. CASE g.name # "StatusEntry" /\ ~UnitFrame(g)
    <3>1. \A m : ChartUnits(m, g) = m
      BY <2>5, UnitsRecorded
    <3> QED BY <3>1
  <2> QED BY <1>1, <2>1, <2>2, <2>3, <2>4, <2>5
<1>7. ASSUME NEW a, NEW b, NEW v, NEW w, Carries(a, v), Carries(b, w),
             Readable(a), Readable(b), UnitFrame(b), DefinitionFrame(b)
      PROVE  Apply(Apply(s, a).snap, b).snap.charts[b.index].unit # ""
  <2> DEFINE sa == Apply(s, a).snap
             ab == Apply(sa, b).snap
  <2>1. Shaped(sa)
    BY <1>7, ApplySettles DEF Settles
  <2>2. FoldsTo(sa, b, ab)
    BY <1>7, <2>1, AppliesPointwise
  <2>3. ab.charts = Charted(sa.charts, b)
    BY <2>2 DEF FoldsTo
  <2> HIDE DEF sa, ab
  <2>4. Charted(sa.charts, b)[b.index].unit # ""
    BY <1>7, <2>1, DefinedUnit DEF Shaped
  <2> QED BY <2>3, <2>4 DEF sa, ab
<1>8. fg = Apply(Apply(s, g).snap, f).snap
  BY FoldsCommute
<1>9. UnitFrame(g) => fg.charts[g.index].unit # ""
  BY <1>7
<1>10. UnitFrame(f) => fg.charts[f.index].unit # ""
  BY <1>7, <1>8
<1> HIDE DEF fg, uf, ug
<1>11. \A c \in DOMAIN fg.charts :
         fg.charts[c].unit = "" => Get(uf, c, "") = Get(ug, c, "")
  BY <1>6, <1>9, <1>10
<1>12. Enumerate(fg, uf) = Enumerate(fg, ug)
  BY <1>11, UnitsAgree
<1> QED BY <1>12 DEF fg, uf, ug
-----------------------------------------------------------------------------
BannerSource == <<"PERSINFO", NoIndex, 0>>

(* The banner kept by the snapshot is the one heard last.                  *)
BannerHeard ==
  BannerSource \in DOMAIN heard =>
    LET body == heard[BannerSource].body
    IN  /\ body.form = "notice" \/ body = Word("Read")
        /\ snap.person_info = UnlessRead(body)

(* Its two sensors are among those that setup builds.                      *)
BannerBuilt ==
  setup => {Single("package_delivery_pin", None), Single("person_info", None)}
             \subseteq entities

(* What holds together in every reachable state: the snapshot's shape is   *)
(* what a fold needs, and the health last fanned out is the health, so a   *)
(* step that writes no entity has changed nothing an entity reads.         *)
SnapshotInv ==
  /\ Shaped(snap)
  /\ notified = healthy
  /\ ShownIsCurrent
  /\ BannerHeard
  /\ BannerBuilt

(* The empty snapshot has the shape.                                       *)
LEMMA InitShaped == Shaped(SmartPlaceState)
<1>1. /\ IsMap(SmartPlaceState) /\ DOMAIN SmartPlaceState = Names
  BY DEF IsMap, SmartPlaceState, Names, Scalars, KeyedMaps, OtherMaps
<1>2. \A name \in KeyedMaps \cup OtherMaps : SmartPlaceState[name] = <<>>
  BY DEF SmartPlaceState, KeyedMaps, OtherMaps
<1> QED BY <1>1, <1>2, NoKeys DEF Shaped, OtherMaps

(* The invariant holds before the first frame.                             *)
LEMMA SnapshotInit == Init => SnapshotInv
<1> SUFFICES ASSUME Init PROVE SnapshotInv
  OBVIOUS
<1>1. Shaped(snap)
  BY InitShaped DEF Init
<1> QED
  BY <1>1, NoKeys
     DEF Init, SnapshotInv, ShownIsCurrent, BannerHeard, BannerBuilt

(* The table of parsed texts is parse_frame.                               *)
LEMMA ParsedIs ==
  ASSUME NEW text \in Texts
  PROVE  Parsed[text] = ParseFrame(text) /\ Readable(Parsed[text])
<1>1. text.body.form = "definition" => text.body.title \in Seq(STRING)
  BY TextsAssumption
<1> QED BY <1>1, ParsedReadable DEF Parsed

(* A frame: the gate of the fan-out, and the banner it may carry.          *)
LEMMA ArriveKeeps ==
  ASSUME SnapshotInv, NEW text \in Texts, Arrive(text)
  PROVE  SnapshotInv'
<1> DEFINE frame  == Parsed[text]
           folded == Apply(snap, frame)
<1>1. /\ Shaped(folded.snap)
      /\ folded.changed = FALSE => folded.snap = snap
  BY ParsedIs, ApplySettles DEF SnapshotInv, Settles
<1>2. /\ snap' = folded.snap
      /\ frame # ParseError
      /\ healthy' = menu' /\ notified' = healthy'
      /\ shown' = IF folded.changed \/ healthy' # notified THEN Written
                  ELSE shown
      /\ heard' = Put(heard, Source(text), text)
      /\ UNCHANGED <<setup, entities>>
  BY DEF Arrive
<1>3. ShownIsCurrent'
  <2>1. CASE shown' = Written
    BY <1>2, <2>1 DEF ShownIsCurrent, Written
  <2>2. CASE ~folded.changed /\ healthy' = notified
    <3>1. snap' = snap /\ healthy' = healthy /\ shown' = shown
      BY <1>1, <1>2, <2>2 DEF SnapshotInv
    <3> QED BY <1>2, <3>1 DEF SnapshotInv, ShownIsCurrent
  <2> HIDE DEF folded
  <2> QED BY <1>2, <2>1, <2>2
<1>4. BannerHeard'
  <2>1. snap'.person_info
          = IF frame.type = "NamedValue" /\ frame.name = "PersonInfo"
            THEN UnlessRead(frame.body) ELSE snap.person_info
    BY <1>2, BannerFolds DEF SnapshotInv
  <2>2. Source(text) = BannerSource
          <=> text.head = "PERSINFO" /\ text.index = NoIndex
    BY DEF Source, BannerSource
  <2>3. CASE Source(text) = BannerSource
    <3>1. /\ text.sep = ":"
          /\ text.body.form = "notice" \/ text.body \in {Empty, Word("Read")}
      BY <2>2, <2>3, TextsAssumption
    <3>2. /\ text.body # Empty
          /\ frame = Frame("NamedValue", "PersonInfo", NoIndex, text.body)
      BY <1>2, <2>2, <2>3, <3>1, ParsedIs, BannerParsed
    <3>3. snap'.person_info = UnlessRead(text.body)
      BY <2>1, <3>2 DEF Frame
    <3>4. heard'[BannerSource] = text
      BY <1>2, <2>3 DEF Put
    <3> QED BY <3>1, <3>2, <3>3, <3>4 DEF BannerHeard
  <2>4. CASE Source(text) # BannerSource
    <3>1. ~(frame.type = "NamedValue" /\ frame.name = "PersonInfo")
      BY <2>2, <2>4, ParsedIs, BannerParsed
    <3>2. snap'.person_info = snap.person_info
      BY <2>1, <3>1
    <3>3. /\ BannerSource \in DOMAIN heard' => BannerSource \in DOMAIN heard
          /\ BannerSource \in DOMAIN heard' =>
               heard'[BannerSource] = heard[BannerSource]
      BY <1>2, <2>4 DEF Put
    <3> QED BY <3>2, <3>3 DEF BannerHeard, SnapshotInv
  <2> QED BY <2>3, <2>4
<1>5. BannerBuilt'
  BY <1>2 DEF BannerBuilt, SnapshotInv
<1> QED BY <1>1, <1>2, <1>3, <1>4, <1>5 DEF SnapshotInv

(* A lost connection.                                                      *)
LEMMA DropKeeps ==
  ASSUME SnapshotInv, Drop
  PROVE  SnapshotInv'
<1>1. ShownIsCurrent'
  BY DEF Drop, ShownIsCurrent, Written
<1>2. BannerHeard' /\ BannerBuilt' /\ Shaped(snap)' /\ (notified = healthy)'
  BY DEF Drop, SnapshotInv, BannerHeard, BannerBuilt
<1> QED BY <1>1, <1>2 DEF SnapshotInv

(* The end of setup writes every entity it builds.                         *)
LEMMA SetupEndsKeeps ==
  ASSUME SnapshotInv, SetupEnds
  PROVE  SnapshotInv'
<1>1. ShownIsCurrent'
  BY DEF SetupEnds, ShownIsCurrent
<1>2. BannerBuilt'
  BY DEF SetupEnds, BannerBuilt, Enumerate, NoticeSensors
<1>3. BannerHeard' /\ Shaped(snap)' /\ (notified = healthy)'
  BY DEF SetupEnds, SnapshotInv, BannerHeard
<1> QED BY <1>1, <1>2, <1>3 DEF SnapshotInv

(* Nothing happens.                                                        *)
LEMMA StutterKeeps ==
  ASSUME SnapshotInv, UNCHANGED vars
  PROVE  SnapshotInv'
BY DEF vars, SnapshotInv, ShownIsCurrent, BannerHeard, BannerBuilt

(* The snapshot keeps its shape, and what is shown and what was heard      *)
(* follow it through every frame, every loss of the connection and the end *)
(* of setup.                                                               *)
THEOREM SnapshotInvariance == Spec => []SnapshotInv
<1>1. SnapshotInv /\ [Next]_vars => SnapshotInv'
  <2> SUFFICES ASSUME SnapshotInv, [Next]_vars PROVE SnapshotInv'
    OBVIOUS
  <2>1. CASE \E text \in Texts : Arrive(text)
    BY <2>1, ArriveKeeps
  <2>2. CASE \E text \in Texts : Skip(text)
    BY <2>2, StutterKeeps DEF Skip
  <2>3. CASE Drop
    BY <2>3, DropKeeps
  <2>4. CASE SetupEnds
    BY <2>4, SetupEndsKeeps
  <2>5. CASE UNCHANGED vars
    BY <2>5, StutterKeeps
  <2> QED BY <2>1, <2>2, <2>3, <2>4, <2>5 DEF Next
<1> QED BY <1>1, SnapshotInit, PTL DEF Spec
-----------------------------------------------------------------------------
(* No fold that says "unchanged" hides a change: what an entity shows is   *)
(* what it would report now (state.py:331-345, __init__.py:164-174).       *)
THEOREM NothingHidden == Spec => []ShownIsCurrent
<1>1. SnapshotInv => ShownIsCurrent
  BY DEF SnapshotInv
<1> QED BY <1>1, SnapshotInvariance, PTL

(* Whatever the server sends and whatever has been folded before, a text   *)
(* folded twice in a row changes nothing the second time and says so       *)
(* (state.py:334-337).                                                     *)
THEOREM RebroadcastIsQuiet == Spec => []QuietRebroadcast
<1>1. SnapshotInv => QuietRebroadcast
  <2> SUFFICES ASSUME Shaped(snap), NEW text \in Texts
               PROVE  LET once == Apply(snap, Parsed[text]).snap
                      IN  Apply(once, Parsed[text]) = Same(once)
    BY DEF SnapshotInv, QuietRebroadcast
  <2> QED BY ParsedIs, ApplySettles DEF Settles
<1> QED BY <1>1, SnapshotInvariance, PTL

(* A banner that comes only after setup is shown, and its PIN with it      *)
(* (sensor.py:184-189, 203-208).                                           *)
THEOREM BannerSurfaces == Spec => []LateBannerSurfaces
<1>1. SnapshotInv => LateBannerSurfaces
  <2> SUFFICES ASSUME SnapshotInv, setup, healthy,
                      BannerSource \in DOMAIN heard
               PROVE  LET body == heard[BannerSource].body
                          Shows(kind, value) ==
                            \E e \in entities :
                              e.kind = kind /\ shown[e].value = value
                      IN  IF body = Word("Read") THEN Shows("person_info", None)
                          ELSE /\ Shows("person_info", body)
                               /\ Shows("package_delivery_pin", body.pin)
    BY DEF LateBannerSurfaces, BannerSource
  <2> DEFINE body == heard[BannerSource].body
             info == Single("person_info", None)
             pin  == Single("package_delivery_pin", None)
  <2>1. /\ info \in entities /\ info.kind = "person_info"
        /\ pin \in entities /\ pin.kind = "package_delivery_pin"
    BY DEF SnapshotInv, BannerBuilt, Single, Entity
  <2>2. /\ body.form = "notice" \/ body = Word("Read")
        /\ snap.person_info = UnlessRead(body)
    BY DEF SnapshotInv, BannerHeard
  <2> HIDE DEF info, pin, body
  <2>3. ASSUME NEW e \in entities
        PROVE  shown[e].value = Value(snap, healthy, e)
    <3> DEFINE written == [form |-> "state", name |-> Name(snap, e),
                           value |-> Value(snap, healthy, e),
                           attributes |-> Attributes(snap, e)]
    <3>1. shown[e] = Signature(snap, healthy, e)
      BY DEF SnapshotInv, ShownIsCurrent
    <3>2. Signature(snap, healthy, e) = written
      BY DEF Signature, Available
    <3>3. written.value = Value(snap, healthy, e)
      OBVIOUS
    <3> HIDE DEF written
    <3> QED BY <3>1, <3>2, <3>3
  <2>4. /\ shown[info].value = snap.person_info
        /\ shown[pin].value = PackageDeliveryPin(snap)
    BY <2>1, <2>3 DEF Value
  <2>5. CASE body = Word("Read")
    <3>1. snap.person_info = None
      BY <2>2, <2>5 DEF UnlessRead
    <3> QED BY <2>1, <2>4, <2>5, <3>1 DEF body
  <2>6. CASE body # Word("Read")
    <3>1. snap.person_info = body /\ body.form = "notice"
      BY <2>2, <2>6 DEF UnlessRead
    <3>2. PackageDeliveryPin(snap) = body.pin
      BY <3>1 DEF PackageDeliveryPin
    <3> QED BY <2>1, <2>4, <2>6, <3>1, <3>2 DEF body
  <2> QED BY <2>5, <2>6
<1> QED BY <1>1, SnapshotInvariance, PTL
-----------------------------------------------------------------------------
(* The frames of two sources, in either order, give the same snapshot and  *)
(* the same entities, whatever has been folded before (state.py:475-545,   *)
(* client.py:971-981).  An untitled definition is not folded, but the      *)
(* session takes its unit: without Titled the order can decide a unit.     *)
THEOREM OrderDecidesNothing ==
  ASSUME Titled
  PROVE  Spec => []FramesCommute
<1>1. SnapshotInv => FramesCommute
  <2> SUFFICES ASSUME Shaped(snap), NEW t \in Texts, NEW u \in Texts,
                      Source(t) # Source(u)
               PROVE  LET f  == Parsed[t]
                          g  == Parsed[u]
                          fg == Apply(Apply(snap, f).snap, g).snap
                          gf == Apply(Apply(snap, g).snap, f).snap
                      IN  /\ fg = gf
                          /\ Enumerate(fg, ChartUnits(ChartUnits(units, f), g))
                               = Enumerate(gf, ChartUnits(ChartUnits(units, g), f))
    BY DEF SnapshotInv, FramesCommute
  <2> DEFINE f == Parsed[t]
             g == Parsed[u]
  <2>1. /\ Carries(f, t) /\ Readable(f)
        /\ Carries(g, u) /\ Readable(g)
    BY ParsedIs, ParsedCarries
  <2>2. Digits(t) /\ Digits(u)
    BY TextsAssumption DEF Digits
  <2>3. Apart(f, g)
    BY <2>1, <2>2, SourcesApart
  <2>4. /\ UnitFrame(f) => DefinitionFrame(f)
        /\ UnitFrame(g) => DefinitionFrame(g)
    <3>1. "ChartDefinition" \in FoldNames
      BY DEF FoldNames
    <3> QED BY <2>1, <3>1 DEF Titled, Carries, UnitFrame, DefinitionFrame
  <2> HIDE DEF f, g
  <2>5. Apply(Apply(snap, f).snap, g).snap = Apply(Apply(snap, g).snap, f).snap
    BY <2>1, <2>3, FoldsCommute
  <2>6. LET fg == Apply(Apply(snap, f).snap, g).snap
        IN  Enumerate(fg, ChartUnits(ChartUnits(units, f), g))
              = Enumerate(fg, ChartUnits(ChartUnits(units, g), f))
    BY <2>1, <2>3, <2>4, UnitsCommute
  <2> QED BY <2>5, <2>6 DEF f, g
<1> QED BY <1>1, SnapshotInvariance, PTL
-----------------------------------------------------------------------------
(* What the snapshot holds of a text: the value it carries, at its key.    *)
Reading(s, text) ==
  LET body == text.body
      i    == text.index
      At(map, value) == i \in DOMAIN map /\ map[i] = value
  IN  /\ Plain(text, "TEMPOUT") => s.outdoor_temperature = SafeFloat(body)
      /\ Plain(text, "WINDGESCHWINDIGKEIT") => s.wind_speed = SafeFloat(body)
      /\ Plain(text, "REGEN") => s.rain_alarm = AlarmOn(body)
      /\ Plain(text, "HAGEL") => s.hail_alarm = AlarmOn(body)
      /\ Indexed(text, "WINDALARM") => At(s.wind_alarms, AlarmOn(body))
      /\ Indexed(text, "TEMPIST") =>
           body.form = "number" /\ At(s.indoor_temperatures, body)
      /\ Indexed(text, "INHALTKlimas") /\ body # Empty =>
           i \in DOMAIN s.climate_zones
      /\ Indexed(text, "FEUCHTEIST") =>
           Get(s.humidities, i, None) = SafeFloat(body)
      /\ Indexed(text, "SPRECHEN") =>
           At(s.intercom_ringing, Flag(body = Word("ring")))
      /\ Indexed(text, "CALLINFO") => i \in DOMAIN s.intercom_callers

(* And the charts: a stand in its series, the label of the definition, a   *)
(* unit once one was named.                                                *)
Charting(charts, text) ==
  LET body == text.body
      i    == text.index
  IN  /\ IsStand(text) =>
           /\ i \in DOMAIN charts /\ body.series \in DOMAIN charts[i].stands
           /\ charts[i].stands[body.series] = body.reading
      /\ IsDefinition(text) =>
           /\ i \in DOMAIN charts
           /\ charts[i].label = CleanChartLabel(body.title)
           /\ body.fields > 14 /\ body.unit # "" => charts[i].unit # ""

(* The session's units cover every chart of a status row.                  *)
Listing(map, text) ==
  /\ text.head = "StatusInhaltListe"
  /\ text.index = NoIndex /\ text.sep = "_"
  => DOMAIN text.body.charts \subseteq DOMAIN map

(* Nothing that was heard is lost to a frame of another source.            *)
HeardKept ==
  \A source \in DOMAIN heard :
    LET text == heard[source]
    IN  /\ Source(text) = source
        /\ Reading(snap, text)
        /\ Charting(snap.charts, text)
        /\ Listing(units, text)

(* Only a text of the same source writes where a text is read.             *)
LEMMA Elsewhere ==
  ASSUME NEW frame, NEW u, Carries(frame, u), NEW t, Source(t) # Source(u),
         NEW n \in FoldNames
                     \ {"ChartPointUpdate", "ChartStand", "ChartRangeStand"},
         t.head = HeadOf(n), frame.name = n
  PROVE  /\ n \in SingleNames => t.index # NoIndex
         /\ n \in PerIdNames => frame.index # t.index
<1>1. /\ u.head = t.head
      /\ u.index = NoIndex <=> n \in SingleNames
      /\ n \in PerIdNames => frame.index = u.index
  BY DEF Carries
<1>2. t.head \notin {"CHART", "StandsSingelChartUpdate", "SingelStandUpdate"}
  BY DEF HeadOf, FoldNames
<1>3. t.index # u.index
  BY <1>1, <1>2 DEF Source
<1> QED BY <1>1, <1>3

(* A key that is not set keeps its value.                                  *)
LEMMA KeyKept ==
  ASSUME NEW map, NEW key, NEW value, NEW k, k # key
  PROVE  /\ k \in DOMAIN map => k \in DOMAIN Put(map, key, value)
         /\ k \in DOMAIN map => Put(map, key, value)[k] = map[k]
BY DEF Put

(* So a frame of another source leaves what was read.                      *)
LEMMA ReadingStays ==
  ASSUME NEW s, NEW after, NEW frame, NEW u, Carries(frame, u),
         FoldsTo(s, frame, after), NEW t, Source(t) # Source(u), Reading(s, t)
  PROVE  Reading(after, t)
<1> DEFINE body == t.body
           i    == t.index
           At(map, value) == i \in DOMAIN map /\ map[i] = value
<1>1. ASSUME Plain(t, "TEMPOUT")
      PROVE  after.outdoor_temperature = SafeFloat(body)
  <2>1. frame.name # "OutdoorTemperature"
    BY <1>1, Elsewhere DEF Plain, HeadOf, FoldNames, SingleNames
  <2> QED BY <1>1, <2>1 DEF FoldsTo, Reading
<1>2. ASSUME Plain(t, "WINDGESCHWINDIGKEIT")
      PROVE  after.wind_speed = SafeFloat(body)
  <2>1. frame.name # "WindSpeed"
    BY <1>2, Elsewhere DEF Plain, HeadOf, FoldNames, SingleNames
  <2> QED BY <1>2, <2>1 DEF FoldsTo, Reading
<1>3. ASSUME Plain(t, "REGEN")
      PROVE  after.rain_alarm = AlarmOn(body)
  <2>1. frame.name # "Rain"
    BY <1>3, Elsewhere DEF Plain, HeadOf, FoldNames, SingleNames
  <2> QED BY <1>3, <2>1 DEF FoldsTo, Reading
<1>4. ASSUME Plain(t, "HAGEL")
      PROVE  after.hail_alarm = AlarmOn(body)
  <2>1. frame.name # "Hail"
    BY <1>4, Elsewhere DEF Plain, HeadOf, FoldNames, SingleNames
  <2> QED BY <1>4, <2>1 DEF FoldsTo, Reading
<1>5. ASSUME Indexed(t, "WINDALARM")
      PROVE  At(after.wind_alarms, AlarmOn(body))
  <2>1. frame.name = "WindAlarm" => frame.index # i
    BY <1>5, Elsewhere DEF Indexed, HeadOf, FoldNames, PerIdNames, SingleNames
  <2>2. \/ after.wind_alarms = s.wind_alarms
        \/ /\ after.wind_alarms = Put(s.wind_alarms, frame.index, AlarmOn(frame.body))
           /\ frame.index # i
    BY <2>1 DEF FoldsTo
  <2>3. At(s.wind_alarms, AlarmOn(body))
    BY <1>5 DEF Reading
  <2> QED BY <2>2, <2>3, KeyKept
<1>6. ASSUME Indexed(t, "TEMPIST")
      PROVE  body.form = "number" /\ At(after.indoor_temperatures, body)
  <2>1. frame.name = "Temperature" => frame.index # i
    BY <1>6, Elsewhere DEF Indexed, HeadOf, FoldNames, PerIdNames, SingleNames
  <2>2. \/ after.indoor_temperatures = s.indoor_temperatures
        \/ /\ after.indoor_temperatures
                = Put(s.indoor_temperatures, frame.index, frame.body)
           /\ frame.index # i
    BY <2>1 DEF FoldsTo
  <2>3. body.form = "number" /\ At(s.indoor_temperatures, body)
    BY <1>6 DEF Reading
  <2> QED BY <2>2, <2>3, KeyKept
<1>7. ASSUME Indexed(t, "INHALTKlimas"), body # Empty
      PROVE  i \in DOMAIN after.climate_zones
  <2>1. frame.name = "ClimateConfig" => frame.index # i
    BY <1>7, Elsewhere DEF Indexed, HeadOf, FoldNames, PerIdNames, SingleNames
  <2>2. \/ after.climate_zones = s.climate_zones
        \/ /\ after.climate_zones
                = Put(s.climate_zones, frame.index,
                      ClimateZoneRoom(frame.body.title))
           /\ frame.index # i
    BY <2>1 DEF FoldsTo
  <2>3. i \in DOMAIN s.climate_zones
    BY <1>7 DEF Reading
  <2> QED BY <2>2, <2>3, KeyKept
<1>8. ASSUME Indexed(t, "FEUCHTEIST")
      PROVE  Get(after.humidities, i, None) = SafeFloat(body)
  <2>1. frame.name = "Humidity" => frame.index # i
    BY <1>8, Elsewhere DEF Indexed, HeadOf, FoldNames, PerIdNames, SingleNames
  <2>2. \/ after.humidities = s.humidities
        \/ /\ after.humidities
                = Put(s.humidities, frame.index, SafeFloat(frame.body))
           /\ frame.index # i
    BY <2>1 DEF FoldsTo
  <2>3. Get(s.humidities, i, None) = SafeFloat(body)
    BY <1>8 DEF Reading
  <2>4. frame.index # i =>
          Get(Put(s.humidities, frame.index, SafeFloat(frame.body)), i, None)
            = Get(s.humidities, i, None)
    BY DEF Put, Get
  <2> QED BY <2>2, <2>3, <2>4
<1>9. ASSUME Indexed(t, "SPRECHEN")
      PROVE  At(after.intercom_ringing, Flag(body = Word("ring")))
  <2>1. frame.name = "DoorIntercom" => frame.index # i
    BY <1>9, Elsewhere DEF Indexed, HeadOf, FoldNames, PerIdNames, SingleNames
  <2>2. \/ after.intercom_ringing = s.intercom_ringing
        \/ /\ after.intercom_ringing
                = Put(s.intercom_ringing, frame.index,
                      Flag(frame.body = Word("ring")))
           /\ frame.index # i
    BY <2>1 DEF FoldsTo
  <2>3. At(s.intercom_ringing, Flag(body = Word("ring")))
    BY <1>9 DEF Reading
  <2> QED BY <2>2, <2>3, KeyKept
<1>10. ASSUME Indexed(t, "CALLINFO")
       PROVE  i \in DOMAIN after.intercom_callers
  <2>1. frame.name = "CallInfo" => frame.index # i
    BY <1>10, Elsewhere DEF Indexed, HeadOf, FoldNames, PerIdNames, SingleNames
  <2>2. \/ after.intercom_callers = s.intercom_callers
        \/ /\ after.intercom_callers
                = Put(s.intercom_callers, frame.index,
                      TranslateCallerLabel(frame.body.word))
           /\ frame.index # i
    BY <2>1 DEF FoldsTo
  <2>3. i \in DOMAIN s.intercom_callers
    BY <1>10 DEF Reading
  <2> QED BY <2>2, <2>3, KeyKept
<1> QED
  BY <1>1, <1>2, <1>3, <1>4, <1>5, <1>6, <1>7, <1>8, <1>9, <1>10 DEF Reading
-----------------------------------------------------------------------------
(* A text that a folded definition recognises gives that definition's      *)
(* frame, with the text's payload and digits.                              *)
LEMMA Lands ==
  ASSUME NEW text, ParseFrame(text) # ParseError,
         NEW n \in FoldNames, n # "InfoboardContent",
         Recognises(DefinitionOf(n), text)
  PROVE  LET frame == ParseFrame(text)
         IN  /\ frame.name = n /\ frame.body = text.body
             /\ n \in PerIdNames => frame.index = text.index
<1> DEFINE frame == ParseFrame(text)
<1>1. frame = Parse(DefinitionOf(n), text)
  BY RecognisedParsed
<1>2. Known(DefinitionOf(n)) /\ DefinitionOf(n).name = n
  BY FoldingKnown, FoldingNamed
<1>3. frame.name = n
  BY <1>1, <1>2, ParseKeeps
<1> HIDE DEF frame
<1>4. Carries(frame, text)
  BY ParsedCarries DEF frame
<1> QED BY <1>3, <1>4 DEF Carries, frame

(* The definitions of the heads that are read.                             *)
LEMMA PlainRecognised ==
  ASSUME NEW text,
         NEW n \in {"OutdoorTemperature", "WindSpeed", "Rain", "Hail"},
         Plain(text, HeadOf(n))
  PROVE  Recognises(DefinitionOf(n), text)
BY DEF Plain, Recognises, DefinitionOf, Valued, Definition

(* The same for the heads that a number follows.                           *)
LEMMA IndexedRecognised ==
  ASSUME NEW text,
         NEW n \in {"WindAlarm", "Temperature", "ClimateConfig", "Humidity",
                    "DoorIntercom", "CallInfo", "ChartPointUpdate",
                    "ChartDefinition"},
         Indexed(text, HeadOf(n))
  PROVE  Recognises(DefinitionOf(n), text)
BY DEF Indexed, Recognises, DefinitionOf, PerId, PerIdFields, Definition

(* What a frame sets is what its text says.                                *)
LEMMA ReadingLands ==
  ASSUME NEW s, NEW after, NEW text, ParseFrame(text) # ParseError,
         FoldsTo(s, ParseFrame(text), after)
  PROVE  Reading(after, text)
<1> DEFINE frame == ParseFrame(text)
           body  == text.body
           i     == text.index
           At(map, value) == i \in DOMAIN map /\ map[i] = value
<1>1. ASSUME Plain(text, "TEMPOUT")
      PROVE  after.outdoor_temperature = SafeFloat(body)
  <2>1. frame.name = "OutdoorTemperature" /\ frame.body = body
    BY <1>1, PlainRecognised, Lands DEF HeadOf, FoldNames
  <2> QED BY <2>1 DEF FoldsTo
<1>2. ASSUME Plain(text, "WINDGESCHWINDIGKEIT")
      PROVE  after.wind_speed = SafeFloat(body)
  <2>1. frame.name = "WindSpeed" /\ frame.body = body
    BY <1>2, PlainRecognised, Lands DEF HeadOf, FoldNames
  <2> QED BY <2>1 DEF FoldsTo
<1>3. ASSUME Plain(text, "REGEN")
      PROVE  after.rain_alarm = AlarmOn(body)
  <2>1. frame.name = "Rain" /\ frame.body = body
    BY <1>3, PlainRecognised, Lands DEF HeadOf, FoldNames
  <2> QED BY <2>1 DEF FoldsTo
<1>4. ASSUME Plain(text, "HAGEL")
      PROVE  after.hail_alarm = AlarmOn(body)
  <2>1. frame.name = "Hail" /\ frame.body = body
    BY <1>4, PlainRecognised, Lands DEF HeadOf, FoldNames
  <2> QED BY <2>1 DEF FoldsTo
<1>5. ASSUME Indexed(text, "WINDALARM")
      PROVE  At(after.wind_alarms, AlarmOn(body))
  <2>1. frame.name = "WindAlarm" /\ frame.body = body /\ frame.index = i
    BY <1>5, IndexedRecognised, Lands
       DEF HeadOf, FoldNames, PerIdNames, SingleNames
  <2>2. after.wind_alarms = Put(s.wind_alarms, i, AlarmOn(body))
    BY <2>1 DEF FoldsTo
  <2> QED BY <2>2 DEF Put
<1>6. ASSUME Indexed(text, "TEMPIST")
      PROVE  body.form = "number" /\ At(after.indoor_temperatures, body)
  <2>1. frame.name = "Temperature" /\ frame.body = body /\ frame.index = i
    BY <1>6, IndexedRecognised, Lands
       DEF HeadOf, FoldNames, PerIdNames, SingleNames
  <2>2. after.indoor_temperatures = Put(s.indoor_temperatures, i, body)
    BY <2>1 DEF FoldsTo
  <2>3. frame = Parse(DefinitionOf("Temperature"), text)
    BY <1>6, IndexedRecognised, RecognisedParsed DEF HeadOf, FoldNames
  <2>4. DefinitionOf("Temperature").parser = "temperature"
    BY DEF DefinitionOf, Definition
  <2>5. body.form = "number"
    BY <2>3, <2>4 DEF Parse
  <2> QED BY <2>2, <2>5 DEF Put
<1>7. ASSUME Indexed(text, "INHALTKlimas"), body # Empty
      PROVE  i \in DOMAIN after.climate_zones
  <2>1. frame.name = "ClimateConfig" /\ frame.body = body /\ frame.index = i
    BY <1>7, IndexedRecognised, Lands
       DEF HeadOf, FoldNames, PerIdNames, SingleNames
  <2>2. after.climate_zones = Put(s.climate_zones, i, ClimateZoneRoom(body.title))
    BY <1>7, <2>1 DEF FoldsTo
  <2> QED BY <2>2 DEF Put
<1>8. ASSUME Indexed(text, "FEUCHTEIST")
      PROVE  Get(after.humidities, i, None) = SafeFloat(body)
  <2>1. frame.name = "Humidity" /\ frame.body = body /\ frame.index = i
    BY <1>8, IndexedRecognised, Lands
       DEF HeadOf, FoldNames, PerIdNames, SingleNames
  <2>2. after.humidities
          = IF SafeFloat(body) # None \/ i \in DOMAIN s.humidities
            THEN Put(s.humidities, i, SafeFloat(body)) ELSE s.humidities
    BY <2>1 DEF FoldsTo
  <2>3. Get(Put(s.humidities, i, SafeFloat(body)), i, None) = SafeFloat(body)
    BY PutGot
  <2>4. i \notin DOMAIN s.humidities => Get(s.humidities, i, None) = None
    BY DEF Get
  <2> QED BY <2>2, <2>3, <2>4
<1>9. ASSUME Indexed(text, "SPRECHEN")
      PROVE  At(after.intercom_ringing, Flag(body = Word("ring")))
  <2>1. frame.name = "DoorIntercom" /\ frame.body = body /\ frame.index = i
    BY <1>9, IndexedRecognised, Lands
       DEF HeadOf, FoldNames, PerIdNames, SingleNames
  <2>2. after.intercom_ringing
          = Put(s.intercom_ringing, i, Flag(body = Word("ring")))
    BY <2>1 DEF FoldsTo
  <2> QED BY <2>2 DEF Put
<1>10. ASSUME Indexed(text, "CALLINFO")
      PROVE  i \in DOMAIN after.intercom_callers
  <2>1. frame.name = "CallInfo" /\ frame.body = body /\ frame.index = i
    BY <1>10, IndexedRecognised, Lands
       DEF HeadOf, FoldNames, PerIdNames, SingleNames
  <2>2. after.intercom_callers
          = Put(s.intercom_callers, i, TranslateCallerLabel(body.word))
    BY <2>1 DEF FoldsTo
  <2> QED BY <2>2 DEF Put
<1> QED
  BY <1>1, <1>2, <1>3, <1>4, <1>5, <1>6, <1>7, <1>8, <1>9, <1>10 DEF Reading
-----------------------------------------------------------------------------
(* A chart that a frame is not about stays as it is; the one it is about   *)
(* is there.                                                               *)
LEMMA ChartedElsewhere ==
  ASSUME NEW charts, NEW frame
  PROVE  LET after == Charted(charts, frame)
         IN  /\ \A c \in DOMAIN charts : c \in DOMAIN after
             /\ \A c \in DOMAIN charts :
                  c # ChartId(frame) \/ ~ChartFrame(frame) => after[c] = charts[c]
<1> DEFINE id  == ChartId(frame)
           old == Get(charts, id, ChartReading)
<1>1. CASE StandFrame(frame)
  <2>1. Charted(charts, frame) = Put(charts, id, WithStand(old, frame.body))
    BY <1>1 DEF Charted
  <2> HIDE DEF old, id
  <2> QED BY <1>1, <2>1 DEF Put, ChartFrame, id
<1>2. CASE ~StandFrame(frame) /\ DefinitionFrame(frame)
  <2>1. Charted(charts, frame) = Put(charts, id, Defined(old, frame.body))
    BY <1>2 DEF Charted
  <2> HIDE DEF old, id
  <2> QED BY <1>2, <2>1 DEF Put, ChartFrame, id
<1>3. CASE ~StandFrame(frame) /\ ~DefinitionFrame(frame)
  BY <1>3 DEF Charted
<1> QED BY <1>1, <1>2, <1>3

(* What a stand and a definition leave of the chart they are about.        *)
LEMMA StandCharted ==
  ASSUME NEW charts, \A c \in DOMAIN charts : ChartShaped(charts[c]),
         NEW frame, StandFrame(frame)
  PROVE  LET id    == ChartId(frame)
             old   == Get(charts, id, ChartReading)
             after == Charted(charts, frame)
         IN  /\ id \in DOMAIN after
             /\ after[id].stands
                  = Put(old.stands, frame.body.series, frame.body.reading)
             /\ after[id].label = old.label /\ after[id].unit = old.unit
<1> DEFINE id  == ChartId(frame)
           old == Get(charts, id, ChartReading)
           new == WithStand(old, frame.body)
<1>1. ChartShaped(old)
  BY EmptyChartShaped DEF Get
<1>2. Charted(charts, frame) = Put(charts, id, new)
  BY DEF Charted
<1>3. /\ new.stands = Put(old.stands, frame.body.series, frame.body.reading)
      /\ new.label = old.label /\ new.unit = old.unit
  BY <1>1, StandMakes
<1> HIDE DEF id, old, new
<1>4. id \in DOMAIN Put(charts, id, new) /\ Put(charts, id, new)[id] = new
  BY DEF Put
<1> QED BY <1>2, <1>3, <1>4 DEF id, old

(* A definition leaves the chart's readings, and a unit it has.            *)
LEMMA DefinitionCharted ==
  ASSUME NEW charts, \A c \in DOMAIN charts : ChartShaped(charts[c]),
         NEW frame, DefinitionFrame(frame)
  PROVE  LET id    == frame.index
             old   == Get(charts, id, ChartReading)
             after == Charted(charts, frame)
         IN  /\ id \in DOMAIN after
             /\ after[id].stands = old.stands
             /\ after[id].label = CleanChartLabel(frame.body.title)
             /\ after[id].unit = IF frame.body.fields > 14 /\ old.unit = ""
                                 THEN frame.body.unit ELSE old.unit
<1> DEFINE id  == frame.index
           old == Get(charts, id, ChartReading)
           new == Defined(old, frame.body)
<1>1. ChartShaped(old)
  BY EmptyChartShaped DEF Get
<1>2. Charted(charts, frame) = Put(charts, id, new)
  BY DEF Charted, ChartId, StandFrame, DefinitionFrame
<1>3. /\ new.stands = old.stands
      /\ new.label = CleanChartLabel(frame.body.title)
      /\ new.unit = IF frame.body.fields > 14 /\ old.unit = ""
                    THEN frame.body.unit ELSE old.unit
  BY <1>1, DefinitionMakes
<1> HIDE DEF id, old, new
<1>4. id \in DOMAIN Put(charts, id, new) /\ Put(charts, id, new)[id] = new
  BY DEF Put
<1> QED BY <1>2, <1>3, <1>4 DEF id, old

(* Whose text a frame about a chart is.                                    *)
LEMMA ChartFrameOf ==
  ASSUME NEW frame, NEW u, Carries(frame, u), Digits(u)
  PROVE  /\ StandFrame(frame) =>
              /\ u.head \in {"CHART", "StandsSingelChartUpdate"}
              /\ ChartId(frame) = u.index /\ frame.body = u.body
         /\ DefinitionFrame(frame) =>
              /\ u.head = "SingelDiagramm"
              /\ ChartId(frame) = u.index /\ frame.body = u.body
              /\ frame.index = u.index /\ ~StandFrame(frame)
<1>1. StandFrame(frame) =>
        /\ u.head \in {"CHART", "StandsSingelChartUpdate"}
        /\ ChartId(frame) = u.index /\ frame.body = u.body
  BY
     DEF Carries, StandFrame, ChartId, Digits, PerIdNames, SingleNames,
         FoldNames, HeadOf
<1>2. DefinitionFrame(frame) =>
        /\ u.head = "SingelDiagramm"
        /\ ChartId(frame) = u.index /\ frame.body = u.body
        /\ frame.index = u.index /\ ~StandFrame(frame)
  BY DEF Carries, StandFrame, DefinitionFrame, ChartId, PerIdNames, SingleNames,
         FoldNames, HeadOf
<1> QED BY <1>1, <1>2

(* A frame of another source leaves what the chart says of a text.         *)
LEMMA ChartingStays ==
  ASSUME NEW charts, \A c \in DOMAIN charts : ChartShaped(charts[c]),
         NEW frame, NEW u, Carries(frame, u), Digits(u),
         NEW t, Source(t) # Source(u), Charting(charts, t)
  PROVE  Charting(Charted(charts, frame), t)
<1> DEFINE i     == t.index
           after == Charted(charts, frame)
<1>1. i \in DOMAIN charts => i \in DOMAIN after
  BY ChartedElsewhere
<1>2. CASE i # ChartId(frame) \/ ~ChartFrame(frame)
  <2>1. i \in DOMAIN charts => after[i] = charts[i]
    BY <1>2, ChartedElsewhere
  <2> HIDE DEF after
  <2> QED BY <1>1, <2>1 DEF Charting, after
<1>3. CASE i = ChartId(frame) /\ StandFrame(frame)
  <2>1. u.head \in {"CHART", "StandsSingelChartUpdate"} /\ i = u.index
        /\ frame.body = u.body
    BY <1>3, ChartFrameOf
  <2>2. i \in DOMAIN charts =>
          /\ after[i].stands
               = Put(charts[i].stands, frame.body.series, frame.body.reading)
          /\ after[i].label = charts[i].label /\ after[i].unit = charts[i].unit
    BY <1>3, StandCharted DEF Get
  <2>3. IsStand(t) => t.body.series # frame.body.series
    BY <2>1 DEF IsStand, Indexed, Source
  <2> HIDE DEF after
  <2>4. ASSUME IsStand(t)
        PROVE  /\ i \in DOMAIN after /\ t.body.series \in DOMAIN after[i].stands
               /\ after[i].stands[t.body.series] = t.body.reading
    <3>1. /\ i \in DOMAIN charts /\ t.body.series \in DOMAIN charts[i].stands
          /\ charts[i].stands[t.body.series] = t.body.reading
      BY <2>4 DEF Charting
    <3> QED BY <1>1, <2>2, <2>3, <2>4, <3>1 DEF Put
  <2>5. IsDefinition(t) =>
          /\ i \in DOMAIN after
          /\ after[i].label = CleanChartLabel(t.body.title)
          /\ t.body.fields > 14 /\ t.body.unit # "" => after[i].unit # ""
    BY <1>1, <2>2 DEF Charting
  <2> QED BY <2>4, <2>5 DEF Charting, after
<1>4. CASE i = ChartId(frame) /\ DefinitionFrame(frame)
  <2>1. u.head = "SingelDiagramm" /\ i = u.index /\ frame.index = i
    BY <1>4, ChartFrameOf
  <2>2. ~IsDefinition(t)
    BY <2>1 DEF IsDefinition, Indexed, Source
  <2>3. after[frame.index].stands = Get(charts, frame.index, ChartReading).stands
    BY <1>4, DefinitionCharted
  <2>4. i \in DOMAIN charts => after[i].stands = charts[i].stands
    BY <2>1, <2>3 DEF Get
  <2> HIDE DEF after
  <2> QED BY <1>1, <2>2, <2>4 DEF Charting, after
<1> QED BY <1>2, <1>3, <1>4 DEF ChartFrame

(* What a frame makes of a chart is what its text says.                    *)
LEMMA ChartingLands ==
  ASSUME NEW charts, \A c \in DOMAIN charts : ChartShaped(charts[c]),
         NEW text, Digits(text), ParseFrame(text) # ParseError
  PROVE  Charting(Charted(charts, ParseFrame(text)), text)
<1> DEFINE frame == ParseFrame(text)
           i     == text.index
           body  == text.body
           after == Charted(charts, frame)
<1>1. ASSUME IsStand(text)
      PROVE  /\ i \in DOMAIN after /\ body.series \in DOMAIN after[i].stands
             /\ after[i].stands[body.series] = body.reading
  <2>1. CASE Indexed(text, "StandsSingelChartUpdate")
    <3>1. frame.name = "ChartPointUpdate" /\ frame.body = body
          /\ frame.index = i
      BY <2>1, IndexedRecognised, Lands
         DEF HeadOf, FoldNames, PerIdNames, SingleNames
    <3>2. StandFrame(frame) /\ ChartId(frame) = i
      BY <1>1, <3>1 DEF IsStand, StandFrame, ChartId
    <3>3. /\ i \in DOMAIN after
          /\ after[i].stands
               = Put(Get(charts, i, ChartReading).stands, body.series, body.reading)
      BY <3>1, <3>2, StandCharted
    <3> HIDE DEF after
    <3> QED BY <3>3 DEF Put
  <2>2. CASE text.head = "CHART" /\ i # NoIndex /\ text.sep = "STAND"
    <3>1. Recognises(DefinitionOf("ChartStand"), text)
      BY <2>2 DEF Recognises, DefinitionOf, HeadOf, Definition
    <3>2. frame.name = "ChartStand" /\ frame.body = body
      BY <3>1, Lands DEF FoldNames
    <3>3. StandFrame(frame) /\ ChartId(frame) = i
      BY <1>1, <2>2, <3>2 DEF IsStand, StandFrame, ChartId, Digits
    <3>4. /\ i \in DOMAIN after
          /\ after[i].stands
               = Put(Get(charts, i, ChartReading).stands, body.series, body.reading)
      BY <3>2, <3>3, StandCharted
    <3> HIDE DEF after
    <3> QED BY <3>4 DEF Put
  <2> QED BY <1>1, <2>1, <2>2 DEF IsStand
<1>2. ASSUME IsDefinition(text)
      PROVE  /\ i \in DOMAIN after
             /\ after[i].label = CleanChartLabel(body.title)
             /\ body.fields > 14 /\ body.unit # "" => after[i].unit # ""
  <2>1. frame.name = "ChartDefinition" /\ frame.body = body /\ frame.index = i
    BY <1>2, IndexedRecognised, Lands
       DEF IsDefinition, HeadOf, FoldNames, PerIdNames, SingleNames
  <2>2. DefinitionFrame(frame)
    BY <1>2, <2>1 DEF IsDefinition, DefinitionFrame
  <2>3. /\ i \in DOMAIN after /\ after[i].label = CleanChartLabel(body.title)
    BY <2>1, <2>2, DefinitionCharted
  <2>4. body.fields > 14 /\ body.unit # "" => UnitFrame(frame)
    BY <1>2, <2>1 DEF IsDefinition, UnitFrame
  <2>5. UnitFrame(frame) => after[i].unit # ""
    BY <2>1, <2>2, DefinedUnit
  <2> QED BY <2>3, <2>4, <2>5
<1> QED BY <1>1, <1>2 DEF Charting
-----------------------------------------------------------------------------
(* The session's record only grows, and takes in a status row's charts.    *)
LEMMA ListingStays ==
  ASSUME NEW map, NEW frame, NEW t, Listing(map, t)
  PROVE  Listing(ChartUnits(map, frame), t)
<1>1. DOMAIN map \subseteq DOMAIN ChartUnits(map, frame)
  <2>1. /\ DOMAIN map \subseteq DOMAIN Update(map, frame.body.charts)
        /\ DOMAIN map \subseteq DOMAIN Put(map, frame.index, frame.body.unit)
    BY DEF Update, Put
  <2> QED BY <2>1, UnitsRecorded
<1> QED BY <1>1 DEF Listing

(* A status row that arrives is taken in.                                  *)
LEMMA ListingLands ==
  ASSUME NEW map, NEW text, ParseFrame(text) # ParseError
  PROVE  Listing(ChartUnits(map, ParseFrame(text)), text)
<1> DEFINE frame == ParseFrame(text)
<1> SUFFICES ASSUME text.head = "StatusInhaltListe", text.index = NoIndex,
                    text.sep = "_"
             PROVE  DOMAIN text.body.charts \subseteq DOMAIN ChartUnits(map, frame)
  BY DEF Listing
<1>1. Recognises(DefinitionOf("StatusEntry"), text)
  BY DEF Recognises, DefinitionOf, HeadOf, Raw, Definition
<1>2. frame.name = "StatusEntry" /\ frame.body = text.body
  BY <1>1, Lands DEF FoldNames
<1>3. ChartUnits(map, frame) = Update(map, text.body.charts)
  BY <1>2, UnitsRecorded
<1> QED BY <1>3 DEF Update

(* What a text that arrives makes of the snapshot and the units, and that  *)
(* it parsed.                                                              *)
LEMMA Arrives ==
  ASSUME SnapshotInv, NEW text \in Texts, Arrive(text)
  PROVE  LET frame == ParseFrame(text)
         IN  /\ frame # ParseError /\ Carries(frame, text) /\ Digits(text)
             /\ FoldsTo(snap, frame, snap')
             /\ snap'.charts = Charted(snap.charts, frame)
             /\ \A c \in DOMAIN snap.charts : ChartShaped(snap.charts[c])
             /\ units' = ChartUnits(units, frame)
             /\ heard' = Put(heard, Source(text), text)
             /\ UNCHANGED <<setup, entities, early>>
<1> DEFINE frame == ParseFrame(text)
<1>1. Parsed[text] = frame
  BY ParsedIs
<1>2. /\ frame # ParseError /\ snap' = Apply(snap, frame).snap
      /\ units' = ChartUnits(units, frame)
      /\ heard' = Put(heard, Source(text), text)
      /\ UNCHANGED <<setup, entities, early>>
  BY <1>1 DEF Arrive
<1>3. Carries(frame, text) /\ Digits(text)
  BY ParsedCarries, TextsAssumption DEF Digits
<1>4. Shaped(snap)
  BY DEF SnapshotInv
<1> HIDE DEF frame
<1>5. FoldsTo(snap, frame, snap')
  BY <1>2, <1>3, <1>4, AppliesPointwise
<1>6. snap'.charts = Charted(snap.charts, frame)
  BY <1>5 DEF FoldsTo
<1> QED BY <1>2, <1>3, <1>4, <1>5, <1>6 DEF Shaped, frame

(* A frame adds its own text to what was heard and disturbs no other.      *)
LEMMA ArriveHeard ==
  ASSUME SnapshotInv, HeardKept, NEW text \in Texts, Arrive(text)
  PROVE  HeardKept'
<1> DEFINE frame == ParseFrame(text)
           Holds(t, source) ==
             /\ Source(t) = source
             /\ Reading(snap', t)
             /\ Charting(snap'.charts, t)
             /\ Listing(units', t)
<1>1. /\ frame # ParseError /\ Carries(frame, text) /\ Digits(text)
      /\ FoldsTo(snap, frame, snap')
      /\ snap'.charts = Charted(snap.charts, frame)
      /\ \A c \in DOMAIN snap.charts : ChartShaped(snap.charts[c])
      /\ units' = ChartUnits(units, frame)
      /\ heard' = Put(heard, Source(text), text)
  BY Arrives
<1>2. Holds(text, Source(text))
  BY <1>1, ReadingLands, ChartingLands, ListingLands
<1>3. ASSUME NEW source \in DOMAIN heard, source # Source(text)
      PROVE  Holds(heard[source], source)
  <2> DEFINE t == heard[source]
  <2>1. /\ Source(t) = source
        /\ Reading(snap, t) /\ Charting(snap.charts, t) /\ Listing(units, t)
    BY DEF HeardKept
  <2> HIDE DEF t, frame
  <2>2. Reading(snap', t)
    BY <1>1, <1>3, <2>1, ReadingStays
  <2>3. Charting(snap'.charts, t)
    BY <1>1, <1>3, <2>1, ChartingStays
  <2>4. Listing(units', t)
    BY <1>1, <2>1, ListingStays
  <2> QED BY <2>1, <2>2, <2>3, <2>4 DEF t
<1> HIDE DEF Holds
<1>4. \A source \in DOMAIN heard' : Holds(heard'[source], source)
  BY <1>1, <1>2, <1>3 DEF Put
<1> QED BY <1>4 DEF Holds, HeardKept

(* The last text of every source stays in the snapshot, and in the         *)
(* session's units, until the source speaks again.                         *)
THEOREM HeardStays == Spec => []HeardKept
<1>1. Init => HeardKept
  BY NoKeys DEF Init, HeardKept
<1>2. SnapshotInv /\ HeardKept /\ [Next]_vars => HeardKept'
  <2> SUFFICES ASSUME SnapshotInv, HeardKept, [Next]_vars PROVE HeardKept'
    OBVIOUS
  <2>1. CASE \E text \in Texts : Arrive(text)
    BY <2>1, ArriveHeard
  <2>2. CASE UNCHANGED <<snap, units, heard>>
    BY <2>2 DEF HeardKept
  <2> QED BY <2>1, <2>2 DEF Next, Skip, Drop, SetupEnds, vars
<1> QED BY <1>1, <1>2, SnapshotInvariance, PTL DEF Spec

(* An available entity shows the name, the value and the attributes that   *)
(* it has now.                                                             *)
LEMMA ShownNow ==
  ASSUME SnapshotInv, NEW e \in entities, shown[e] # Unavailable
  PROVE  /\ shown[e].name = Name(snap, e)
         /\ shown[e].value = Value(snap, healthy, e)
         /\ shown[e].attributes = Attributes(snap, e)
<1> DEFINE name       == Name(snap, e)
           value      == Value(snap, healthy, e)
           attributes == Attributes(snap, e)
           written    == [form |-> "state", name |-> name, value |-> value,
                          attributes |-> attributes]
<1>1. shown[e] = Signature(snap, healthy, e)
  BY DEF SnapshotInv, ShownIsCurrent
<1>2. Signature(snap, healthy, e) = written
  BY <1>1 DEF Signature
<1> HIDE DEF name, value, attributes
<1>3. /\ written.name = name /\ written.value = value
      /\ written.attributes = attributes
  OBVIOUS
<1> HIDE DEF written
<1> QED BY <1>1, <1>2, <1>3 DEF name, value, attributes

(* So what the snapshot holds of a text is what its entity shows.          *)
LEMMA ReadingShows ==
  ASSUME SnapshotInv, NEW e \in entities, shown[e] # Unavailable,
         NEW text, Reading(snap, text), Charting(snap.charts, text)
  PROVE  ShowsIt(text, e)
<1> DEFINE about(kind) == e.kind = kind /\ e.id = text.index
           value       == shown[e].value
           number      == SafeFloat(text.body)
           alarm       == Flag(text.body \notin {Empty, Word("00")})
           measured    == IF number = Number(0) THEN None ELSE number
           i           == text.index
<1>1. value = Value(snap, healthy, e)
  BY ShownNow
<1> HIDE DEF value
<1>2. Plain(text, "TEMPOUT") /\ about("outdoor_temperature") => value = number
  BY <1>1 DEF Reading, Value
<1>3. Plain(text, "WINDGESCHWINDIGKEIT") /\ about("wind_speed") => value = number
  BY <1>1 DEF Reading, Value
<1>4. Plain(text, "REGEN") /\ about("rain") => value = alarm
  BY <1>1 DEF Reading, Value, AlarmOn
<1>5. Plain(text, "HAGEL") /\ about("hail") => value = alarm
  BY <1>1 DEF Reading, Value, AlarmOn
<1>6. Indexed(text, "WINDALARM") /\ about("wind_alarm") => value = alarm
  <2>1. about("wind_alarm") => value = Get(snap.wind_alarms, i, None)
    BY <1>1 DEF Value
  <2> QED BY <2>1 DEF Reading, AlarmOn, Get
<1>7. Indexed(text, "TEMPIST") /\ about("indoor_temperature") => value = measured
  <2>1. about("indoor_temperature") =>
          value = NoPlaceholder(Get(snap.indoor_temperatures, i, None))
    BY <1>1 DEF Value
  <2>2. Indexed(text, "TEMPIST") =>
          number = text.body /\ Get(snap.indoor_temperatures, i, None) = text.body
    BY DEF Reading, SafeFloat, Get
  <2> QED BY <2>1, <2>2 DEF NoPlaceholder
<1>8. Indexed(text, "FEUCHTEIST") /\ about("humidity") => value = measured
  <2>1. about("humidity") => value = NoPlaceholder(Get(snap.humidities, i, None))
    BY <1>1 DEF Value
  <2>2. Indexed(text, "FEUCHTEIST") => Get(snap.humidities, i, None) = number
    BY DEF Reading
  <2> QED BY <2>1, <2>2 DEF NoPlaceholder
<1>9. ASSUME Indexed(text, "SPRECHEN"), about("intercom")
      PROVE  shown[e].attributes.ringing <=> text.body = Word("ring")
  <2> DEFINE on == Get(snap.intercom_ringing, i, None) = Flag(TRUE)
             caller == Get(snap.intercom_callers, i, None)
  <2>1. shown[e].attributes = [ringing |-> on, caller |-> caller]
    <3>1. shown[e].attributes = Attributes(snap, e)
      BY ShownNow
    <3> QED BY <1>9, <3>1 DEF Attributes
  <2>2. Get(snap.intercom_ringing, i, None) = Flag(text.body = Word("ring"))
    BY <1>9 DEF Reading, Get
  <2>3. on <=> text.body = Word("ring")
    <3>1. CASE text.body = Word("ring")
      <4>1. Flag(text.body = Word("ring")) = Flag(TRUE)
        BY <3>1 DEF Flag
      <4> QED BY <2>2, <3>1, <4>1
    <3>2. CASE text.body # Word("ring")
      <4>1. Flag(text.body = Word("ring")) = Flag(FALSE)
        BY <3>2 DEF Flag
      <4>2. Flag(FALSE) # Flag(TRUE)
        BY DEF Flag
      <4> QED BY <2>2, <3>2, <4>1, <4>2
    <3> QED BY <3>1, <3>2
  <2> HIDE DEF on, caller
  <2> QED BY <2>1, <2>3
<1>10. IsStand(text) /\ about("chart") /\ text.body.series = 1 =>
         value = SafeFloat(text.body.reading)
  <2>1. about("chart") => value = DailyReading(snap, i)
    BY <1>1 DEF Value
  <2>2. IsStand(text) /\ text.body.series = 1 =>
          Get(ChartOf(snap, i).stands, DailySeries, None) = text.body.reading
    BY DEF Charting, ChartOf, Get, DailySeries
  <2> QED BY <2>1, <2>2 DEF DailyReading
<1>11. IsDefinition(text) /\ about("chart") =>
         shown[e].name = CleanChartLabel(text.body.title)
  <2>1. about("chart") => shown[e].name = ChartOf(snap, i).label
    BY ShownNow DEF Name, ChartScoped
  <2>2. IsDefinition(text) =>
          ChartOf(snap, i).label = CleanChartLabel(text.body.title)
    BY DEF Charting, ChartOf, Get
  <2> QED BY <2>1, <2>2
<1> QED
  BY <1>2, <1>3, <1>4, <1>5, <1>6, <1>7, <1>8, <1>9, <1>10, <1>11
     DEF ShowsIt, value

(* Whatever the server sends, in whatever order and however often the      *)
(* connection is lost, an available entity shows the last value that its   *)
(* source sent (messages.py, state.py:378-439, native_value).              *)
THEOREM BroadcastsReachEntities == Spec => []BroadcastReachesEntity
<1>1. SnapshotInv /\ HeardKept => BroadcastReachesEntity
  <2> SUFFICES ASSUME SnapshotInv, HeardKept, NEW e \in entities,
                      shown[e] # Unavailable, NEW source \in DOMAIN heard
               PROVE  ShowsIt(heard[source], e)
    BY DEF BroadcastReachesEntity
  <2>1. /\ Reading(snap, heard[source])
        /\ Charting(snap.charts, heard[source])
    BY DEF HeardKept
  <2> QED BY <2>1, ReadingShows
<1> QED BY <1>1, SnapshotInvariance, HeardStays, PTL
-----------------------------------------------------------------------------
(* Every unit that the session or a chart has is one that the chart        *)
(* sensors know, where the server names no other.                          *)
UnitsSound ==
  /\ \A c \in DOMAIN units : units[c] \in DOMAIN ChartUnitMap
  /\ \A c \in DOMAIN snap.charts :
       snap.charts[c].unit \in {""} \cup DOMAIN ChartUnitMap

(* A frame records no unit that the chart sensors do not know.             *)
LEMMA ArriveUnits ==
  ASSUME UnitsKnown, SnapshotInv, UnitsSound, NEW text \in Texts, Arrive(text)
  PROVE  UnitsSound'
<1> DEFINE frame == ParseFrame(text)
           id    == ChartId(frame)
           old   == Get(snap.charts, id, ChartReading)
           known == DOMAIN ChartUnitMap
<1>1. /\ Carries(frame, text) /\ Digits(text)
      /\ snap'.charts = Charted(snap.charts, frame)
      /\ \A c \in DOMAIN snap.charts : ChartShaped(snap.charts[c])
      /\ units' = ChartUnits(units, frame)
  BY Arrives
<1>2. /\ text.body.form = "definition" => text.body.unit \in {""} \cup known
      /\ text.head = "StatusInhaltListe" =>
           \A c \in DOMAIN text.body.charts : text.body.charts[c] \in known
  BY DEF UnitsKnown
<1> HIDE DEF frame, known
<1>3. /\ frame.name \in {"StatusEntry", "ChartDefinition"} => frame.body = text.body
      /\ frame.name = "StatusEntry" => text.head = "StatusInhaltListe"
  BY <1>1 DEF Carries, FoldNames, HeadOf
<1>4. \A c \in DOMAIN units' : units'[c] \in known
  <2>0. \A c \in DOMAIN units : units[c] \in known
    BY DEF UnitsSound, known
  <2>1. CASE frame.name = "StatusEntry"
    <3>1. units' = Update(units, text.body.charts)
      BY <1>1, <1>3, <2>1, UnitsRecorded
    <3> QED BY <1>2, <1>3, <2>0, <2>1, <3>1 DEF Update, Get
  <2>2. CASE UnitFrame(frame)
    <3>1. units' = Put(units, frame.index, text.body.unit)
      BY <1>1, <1>3, <2>2, UnitsRecorded DEF UnitFrame
    <3>2. text.body.unit \in known
      BY <1>2, <1>3, <2>2 DEF UnitFrame
    <3> QED BY <2>0, <3>1, <3>2 DEF Put
  <2>3. CASE frame.name # "StatusEntry" /\ ~UnitFrame(frame)
    BY <1>1, <2>0, <2>3, UnitsRecorded
  <2> QED BY <2>1, <2>2, <2>3
<1>5. \A c \in DOMAIN snap'.charts : snap'.charts[c].unit \in {""} \cup known
  <2>0. \A c \in DOMAIN snap.charts : snap.charts[c].unit \in {""} \cup known
    BY DEF UnitsSound, known
  <2>1. old.unit \in {""} \cup known
    BY <2>0 DEF Get, ChartReading
  <2>2. DOMAIN snap'.charts \subseteq DOMAIN snap.charts \cup {id}
    BY <1>1 DEF Charted, Put
  <2>3. \A c \in DOMAIN snap.charts :
          c # id => snap'.charts[c] = snap.charts[c]
    BY <1>1, ChartedElsewhere
  <2>4. CASE StandFrame(frame)
    <3>1. snap'.charts[id].unit = old.unit
      BY <1>1, <2>4, StandCharted
    <3> HIDE DEF id, old
    <3> QED BY <2>0, <2>1, <2>2, <2>3, <3>1
  <2>5. CASE DefinitionFrame(frame)
    <3>1. id = frame.index /\ frame.body = text.body
      BY <1>1, <2>5, ChartFrameOf DEF DefinitionFrame, ChartId
    <3>2. LET before == Get(snap.charts, frame.index, ChartReading).unit
          IN  snap'.charts[frame.index].unit
                = IF frame.body.fields > 14 /\ before = "" THEN frame.body.unit
                  ELSE before
      <4>1. \A c \in DOMAIN snap.charts : ChartShaped(snap.charts[c])
        BY <1>1
      <4>2. LET before == Get(snap.charts, frame.index, ChartReading).unit
            IN  Charted(snap.charts, frame)[frame.index].unit
                  = IF frame.body.fields > 14 /\ before = "" THEN frame.body.unit
                    ELSE before
        BY <2>5, <4>1, DefinitionCharted
      <4> QED BY <1>1, <4>2
    <3>3. frame.body.unit \in {""} \cup known
      BY <1>2, <2>5, <3>1 DEF DefinitionFrame
    <3>4. snap'.charts[id].unit \in {""} \cup known
      BY <2>1, <3>1, <3>2, <3>3
    <3> HIDE DEF id, old
    <3> QED BY <2>0, <2>2, <2>3, <3>4
  <2>6. CASE ~StandFrame(frame) /\ ~DefinitionFrame(frame)
    <3>1. snap'.charts = snap.charts
      BY <1>1, <2>6 DEF Charted
    <3> QED BY <2>0, <3>1
  <2> QED BY <2>4, <2>5, <2>6
<1> QED BY <1>4, <1>5 DEF UnitsSound, known

(* So none is ever recorded.                                               *)
LEMMA UnitsStaySound ==
  ASSUME UnitsKnown
  PROVE  Spec => []UnitsSound
<1>1. Init => UnitsSound
  BY NoKeys DEF Init, UnitsSound, SmartPlaceState
<1>2. SnapshotInv /\ UnitsSound /\ [Next]_vars => UnitsSound'
  <2> SUFFICES ASSUME SnapshotInv, UnitsSound, [Next]_vars PROVE UnitsSound'
    OBVIOUS
  <2>1. CASE \E text \in Texts : Arrive(text)
    BY <2>1, ArriveUnits
  <2>2. CASE UNCHANGED <<snap, units>>
    BY <2>2 DEF UnitsSound
  <2> QED BY <2>1, <2>2 DEF Next, Skip, Drop, SetupEnds, vars
<1> QED BY <1>1, <1>2, SnapshotInvariance, PTL DEF Spec
-----------------------------------------------------------------------------
(* What an enumeration of s has.                                           *)
Listed(s, us, kind, id) ==
  \E e \in Enumerate(s, us) : e.kind = kind /\ e.id = id

(* The kind and the id of an entity are what it was built with.            *)
LEMMA EntityIs ==
  ASSUME NEW kind, NEW id, NEW fixed
  PROVE  Entity(kind, id, fixed).kind = kind /\ Entity(kind, id, fixed).id = id
BY DEF Entity

(* The conditions under which setup builds the weather, room and intercom  *)
(* entities (sensor.py:166-256, binary_sensor.py:57-76).                   *)
LEMMA Builds ==
  ASSUME NEW s, NEW us
  PROVE  /\ s.outdoor_temperature # None =>
              Listed(s, us, "outdoor_temperature", NoIndex)
         /\ s.rain_alarm # None =>
              /\ Listed(s, us, "rain", NoIndex)
              /\ Listed(s, us, "weather_alarm", NoIndex)
         /\ \A z \in DOMAIN s.wind_alarms :
              /\ Listed(s, us, "wind_alarm", z)
              /\ Listed(s, us, "weather_alarm", NoIndex)
         /\ \A z \in DOMAIN s.climate_zones \cap DOMAIN s.indoor_temperatures :
              Listed(s, us, "indoor_temperature", z)
         /\ \A i \in IntercomIds(s) : Listed(s, us, "intercom", i)
<1> DEFINE out == Entity("outdoor_temperature", NoIndex,
                         HintedUnit(s, "TEMPOUT", TemperatureUnitMap, "C"))
           alarm == Entity("weather_alarm", NoIndex, None)
           rain  == Entity("rain", NoIndex, None)
           wind(z)  == Entity("wind_alarm", z, Numbered(DOMAIN s.wind_alarms))
           room(z)  == Entity("indoor_temperature", z, s.climate_zones[z])
           phone(i) == Entity("intercom", i, Numbered(IntercomIds(s)))
           E == Enumerate(s, us)
<1>1. /\ WeatherSensors(s) \subseteq E /\ ClimateSensors(s) \subseteq E
      /\ NoticeSensors(s) \subseteq E /\ BinarySensors(s) \subseteq E
  BY DEF Enumerate
<1>2. /\ s.outdoor_temperature # None => out \in WeatherSensors(s)
      /\ s.rain_alarm # None => alarm \in WeatherSensors(s)
      /\ s.wind_alarms # <<>> => alarm \in WeatherSensors(s)
  BY DEF WeatherSensors, BuiltIf, Single
<1>3. /\ s.rain_alarm # None => rain \in BinarySensors(s)
      /\ \A z \in DOMAIN s.wind_alarms : wind(z) \in BinarySensors(s)
  BY DEF BinarySensors, BuiltIf, Single
<1>4. \A z \in DOMAIN s.climate_zones \cap DOMAIN s.indoor_temperatures :
        room(z) \in ClimateSensors(s)
  BY DEF ClimateSensors
<1>5. \A i \in IntercomIds(s) : phone(i) \in NoticeSensors(s)
  BY DEF NoticeSensors
<1>6. \A z \in DOMAIN s.wind_alarms : s.wind_alarms # <<>>
  BY NoKeys
<1>7. /\ out.kind = "outdoor_temperature" /\ out.id = NoIndex
      /\ alarm.kind = "weather_alarm" /\ alarm.id = NoIndex
      /\ rain.kind = "rain" /\ rain.id = NoIndex
      /\ \A z : wind(z).kind = "wind_alarm" /\ wind(z).id = z
      /\ \A z : room(z).kind = "indoor_temperature" /\ room(z).id = z
      /\ \A i : phone(i).kind = "intercom" /\ phone(i).id = i
  BY EntityIs
<1> HIDE DEF out, alarm, rain, wind, room, phone, E
<1> QED BY <1>1, <1>2, <1>3, <1>4, <1>5, <1>6, <1>7 DEF Listed, E

(* A chart is built if its unit, from either source, is one that is known. *)
LEMMA BuildsChart ==
  ASSUME NEW s, NEW us, NEW c \in DOMAIN s.charts,
         IF s.charts[c].unit # "" THEN s.charts[c].unit \in DOMAIN ChartUnitMap
         ELSE Get(us, c, "") \in DOMAIN ChartUnitMap
  PROVE  Listed(s, us, "chart", c)
<1> DEFINE unit(k) == IF s.charts[k].unit # "" THEN s.charts[k].unit
                      ELSE Get(us, k, "")
           summed == UNION {s.charts[k].summed_chart_ids : k \in DOMAIN s.charts}
           fixed  == [unit |-> ChartUnitMap[unit(c)], enabled |-> c \notin summed]
<1>1. Entity("chart", c, fixed) \in ChartSensors(s, us)
  BY DEF ChartSensors
<1>2. Entity("chart", c, fixed) \in Enumerate(s, us)
  BY <1>1 DEF Enumerate
<1> HIDE DEF fixed
<1>3. /\ Entity("chart", c, fixed).kind = "chart"
      /\ Entity("chart", c, fixed).id = c
  BY DEF Entity
<1> QED BY <1>2, <1>3 DEF Listed

(* The promise of HeardIsBuilt for the texts heard and the entities built. *)
Promised(texts, built, text) ==
  LET Has(kind, id) == \E e \in built : e.kind = kind /\ e.id = id
      id == text.index
      Zoned == \E s \in DOMAIN texts :
                 /\ Indexed(texts[s], "INHALTKlimas") /\ texts[s].index = id
                 /\ texts[s].body # Empty
      InRow == \E s \in DOMAIN texts :
                 /\ texts[s].head = "StatusInhaltListe"
                 /\ texts[s].index = NoIndex /\ texts[s].sep = "_"
                 /\ id \in DOMAIN texts[s].body.charts
  IN  /\ Plain(text, "TEMPOUT") /\ SafeFloat(text.body) # None =>
           Has("outdoor_temperature", id)
      /\ Indexed(text, "WINDALARM") =>
           Has("wind_alarm", id) /\ Has("weather_alarm", NoIndex)
      /\ Plain(text, "REGEN") => Has("rain", id) /\ Has("weather_alarm", NoIndex)
      /\ Indexed(text, "TEMPIST") /\ Zoned => Has("indoor_temperature", id)
      /\ Indexed(text, "SPRECHEN") \/ Indexed(text, "CALLINFO") => Has("intercom", id)
      /\ IsDefinition(text) /\ text.body.fields > 14 /\ text.body.unit # "" =>
           Has("chart", id)
      /\ IsStand(text) /\ InRow => Has("chart", id)

(* HeardIsBuilt is that promise, before a step and after it.               *)
LEMMA HeardIsPromised ==
  /\ HeardIsBuilt <=>
       (setup => \A source \in DOMAIN early : Promised(early, entities, early[source]))
  /\ HeardIsBuilt' <=>
       (setup' => \A source \in DOMAIN early' :
                    Promised(early', entities', early'[source]))
<1>1. HeardIsBuilt <=>
        (setup => \A source \in DOMAIN early :
                    Promised(early, entities, early[source]))
  BY DEF HeardIsBuilt, Built, ZoneNamed, UnitListed, Promised
<1>2. HeardIsBuilt' <=>
        (setup' => \A source \in DOMAIN early' :
                     Promised(early', entities', early'[source]))
  BY DEF HeardIsBuilt, Built, ZoneNamed, UnitListed, Promised, Plain, Indexed,
         IsStand, IsDefinition
<1> QED BY <1>1, <1>2

(* When setup ends, what was heard is built.                               *)
LEMMA SetupBuilds ==
  ASSUME HeardKept, UnitsSound, NEW source \in DOMAIN heard
  PROVE  Promised(heard, Enumerate(snap, units), heard[source])
<1> DEFINE text == heard[source]
           id   == text.index
           Has(kind, k) == Listed(snap, units, kind, k)
           Zoned == \E s \in DOMAIN heard :
                      /\ Indexed(heard[s], "INHALTKlimas") /\ heard[s].index = id
                      /\ heard[s].body # Empty
           InRow == \E s \in DOMAIN heard :
                      /\ heard[s].head = "StatusInhaltListe"
                      /\ heard[s].index = NoIndex /\ heard[s].sep = "_"
                      /\ id \in DOMAIN heard[s].body.charts
<1>1. /\ Reading(snap, text) /\ Charting(snap.charts, text)
      /\ \A s \in DOMAIN heard :
           Reading(snap, heard[s]) /\ Listing(units, heard[s])
  BY DEF HeardKept
<1>2. Zoned => id \in DOMAIN snap.climate_zones
  BY <1>1 DEF Reading
<1>3. InRow => id \in DOMAIN units
  BY <1>1 DEF Listing
<1> HIDE DEF text, Zoned, InRow
<1>4. Plain(text, "TEMPOUT") /\ SafeFloat(text.body) # None =>
        Has("outdoor_temperature", id)
  BY <1>1, Builds DEF Reading, Plain
<1>5. Indexed(text, "WINDALARM") =>
        Has("wind_alarm", id) /\ Has("weather_alarm", NoIndex)
  BY <1>1, Builds DEF Reading
<1>6. Plain(text, "REGEN") => Has("rain", id) /\ Has("weather_alarm", NoIndex)
  <2>1. AlarmOn(text.body) # None
    BY DEF AlarmOn, Flag, None
  <2> QED BY <1>1, <2>1, Builds DEF Reading, Plain
<1>7. Indexed(text, "TEMPIST") /\ Zoned => Has("indoor_temperature", id)
  <2>1. Indexed(text, "TEMPIST") => id \in DOMAIN snap.indoor_temperatures
    BY <1>1 DEF Reading
  <2> QED BY <1>2, <2>1, Builds
<1>8. Indexed(text, "SPRECHEN") \/ Indexed(text, "CALLINFO") => Has("intercom", id)
  BY <1>1, Builds DEF Reading, IntercomIds
<1>9. ASSUME IsDefinition(text), text.body.fields > 14, text.body.unit # ""
      PROVE  Has("chart", id)
  <2>1. id \in DOMAIN snap.charts /\ snap.charts[id].unit # ""
    BY <1>1, <1>9 DEF Charting
  <2>2. snap.charts[id].unit \in DOMAIN ChartUnitMap
    BY <2>1 DEF UnitsSound
  <2> QED BY <2>1, <2>2, BuildsChart
<1>10. ASSUME IsStand(text), InRow
       PROVE  Has("chart", id)
  <2>1. id \in DOMAIN snap.charts
    BY <1>1, <1>10 DEF Charting
  <2>2. Get(units, id, "") \in DOMAIN ChartUnitMap
    <3>1. id \in DOMAIN units /\ units[id] \in DOMAIN ChartUnitMap
      BY <1>3, <1>10 DEF UnitsSound
    <3> QED BY <3>1 DEF Get
  <2>3. snap.charts[id].unit # "" => snap.charts[id].unit \in DOMAIN ChartUnitMap
    BY <2>1 DEF UnitsSound
  <2> QED BY <2>1, <2>2, <2>3, BuildsChart
<1> QED
  BY <1>4, <1>5, <1>6, <1>7, <1>8, <1>9, <1>10
     DEF Promised, Listed, text, Zoned, InRow

(* What was heard when setup ended has its entity, whatever had not been   *)
(* heard: a chart of a unit the sensors do not know has none, hence        *)
(* UnitsKnown (sensor.py:166-256, binary_sensor.py:57-76).                 *)
THEOREM HeardGetsEntities ==
  ASSUME UnitsKnown
  PROVE  Spec => []HeardIsBuilt
<1>1. Init => HeardIsBuilt
  BY DEF Init, HeardIsBuilt
<1>2. HeardKept /\ UnitsSound /\ HeardIsBuilt /\ [Next]_vars => HeardIsBuilt'
  <2> SUFFICES ASSUME HeardKept, UnitsSound, HeardIsBuilt, [Next]_vars
               PROVE  HeardIsBuilt'
    OBVIOUS
  <2>1. CASE SetupEnds
    <3>1. entities' = Enumerate(snap, units) /\ early' = heard
      BY <2>1 DEF SetupEnds
    <3> QED BY <3>1, SetupBuilds, HeardIsPromised
  <2>2. CASE UNCHANGED <<setup, entities, early>>
    BY <2>2, HeardIsPromised
  <2> QED BY <2>1, <2>2 DEF Next, Arrive, Skip, Drop, vars
<1> QED BY <1>1, <1>2, HeardStays, UnitsStaySound, PTL DEF Spec
=============================================================================
