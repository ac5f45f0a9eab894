------------------------------ MODULE Messages ------------------------------
(***************************************************************************)
(* The server's frames: the registry of known shapes (messages.py), how a  *)
(* text is recognised and what it parses to (protocol.py).  A text is      *)
(* abstracted to the literal it begins with, the number that follows it,   *)
(* what separates them from the payload, and the payload's meaning.        *)
(***************************************************************************)
EXTENDS Integers, Sequences, FiniteSetsExt

(* Payloads, by what the parsers tell apart. *)
Empty == [form |-> "empty"]
None == [form |-> "none"]
Word(w) == [form |-> "word", word |-> w]
Number(n) == [form |-> "number", value |-> n]

(* No digits follow the head. *)
NoIndex == 0

Text(head, index, sep, body) ==
  [head |-> head, index |-> index, sep |-> sep, body |-> body]
-----------------------------------------------------------------------------
(* A definition: its name, the head, whether digits follow, what may come  *)
(* next ("end" for $), and which of protocol.py's parsers reads it.        *)
Definition(name, head, indexed, seps, parser) ==
  [name |-> name, head |-> head, indexed |-> indexed, seps |-> seps,
   parser |-> parser]

(* _named_value_parser, _raw_value_parser, _named_fields_parser,           *)
(* _indexed_value_parser, _indexed_fields_parser with the patterns they    *)
(* are registered with.                                                    *)
Valued(name, head)     == Definition(name, head, FALSE, {":"}, "value")
Raw(name, head, sep)   == Definition(name, head, FALSE, {sep}, "raw")
Fields(name, head)     == Definition(name, head, FALSE, {">"}, "fields")
Marker(name, head)     == Definition(name, head, FALSE, {"end"}, "fields")
OpenMarker(name, head) == Definition(name, head, FALSE, {">", "end"}, "fields")
PerId(name, head)      == Definition(name, head, TRUE, {":"}, "idvalue")
PerIdFields(name, head) == Definition(name, head, TRUE, {":"}, "idfields")

Routing ==
  << Definition("GoToLinkSSL", "GoToLinkSSL", FALSE, {":"}, "route"),
     Definition("HostNotOnline", "HostNotOnline", FALSE, {"end"}, "offline") >>

Bootstrap ==
  << Definition("GlobalConfig", "EINSTELLUNGENGLOBAL", FALSE, {">"}, "config"),
     Raw("StatusEntry", "StatusInhaltListe", "_"),
     Valued("BasicInfos", "BasicInfos"),
     Fields("LanguageOptions", "GlobalConfig"),
     Fields("GsaConfig", "GlobalGsa"),
     Raw("AllItems", "AllItemsOhneAdmin", " :") >>

Counters ==
  << Valued("InvoicesPendingCount", "RechnungenAbschliessenCount"),
     Valued("OffersCount", "AngebotCount"),
     Valued("InvoicesCount", "RechnungCount") >>

Markers ==
  << Marker("PongOK", "PongOK"),
     OpenMarker("SocketConnectedFinished", "SocketConnectedFinished"),
     Marker("MainMenuFinished", "GiveMeMainMenuFinished"),
     Marker("StatusContentFinished", "StatusInhaltFinishedListe") >>

(* Fault: the prefixes of two alarms are exchanged. *)
Weather_Exchanged ==
  << Valued("OutdoorTemperature", "TEMPOUT"),
     Valued("WindSpeed", "WINDGESCHWINDIGKEIT"),
     Valued("Rain", "HAGEL"),
     Valued("Hail", "REGEN"),
     Valued("BlindsMaintenance", "JALWARTUNG") >>

Weather ==
  << Valued("OutdoorTemperature", "TEMPOUT"),
     Valued("WindSpeed", "WINDGESCHWINDIGKEIT"),
     Valued("Rain", "REGEN"),
     Valued("Hail", "HAGEL"),
     Valued("BlindsMaintenance", "JALWARTUNG") >>

Singletons ==
  << Valued("PersonInfo", "PERSINFO"),
     Valued("ApiToken", "TOKEN"),
     Raw("SpotifyToken", "SPOTIFYTOKEN", "<"),
     OpenMarker("MediacenterUpdate", "MediacenterUpdateInfos") >>

Rooms ==
  << Definition("Temperature", "TEMPIST", TRUE, {":"}, "temperature"),
     PerId("TemperatureSetpoint", "TEMPSOLL"),
     PerId("Humidity", "FEUCHTEIST"),
     PerId("ClimateInfo", "KLIMASINFO"),
     PerId("SceneState", "SZENEN"),
     PerId("LightState", "leuchte"),
     PerId("BlindState", "JALICO"),
     PerId("Volume", "Vol"),
     Definition("InfoboardContent", "INFOBOARD", TRUE, {"INHALT:"}, "idvalue"),
     PerId("InfoboardSlot", "INFOBOARD") >>

(* Fault: a per-id push is registered as a singleton. *)
Pushes_SingleWindAlarm ==
  << PerId("ChartTarget", "CHARTZIEL"), Valued("WindAlarm", "WINDALARM"),
     PerId("DoorIntercom", "SPRECHEN"), PerId("CallInfo", "CALLINFO") >>

Pushes ==
  << PerId("PackageBox", "PACKETBOX"),
     PerId("ChartTarget", "CHARTZIEL"),
     PerId("WindAlarm", "WINDALARM"),
     PerId("LightsCentral", "LEUCHTENZENTRAL"),
     PerId("BlindsCentral", "JALZENTRAL"),
     PerId("SpeakersCentral", "LAUTSPRECHERZENTRAL"),
     PerId("Mute", "MUTE"),
     PerId("DoorIntercom", "SPRECHEN"),
     PerId("CallInfo", "CALLINFO"),
     PerId("Sound", "SOUND") >>

Configs ==
  << PerIdFields("LightConfig", "INHALTLeuchten"),
     PerIdFields("BlindConfig", "INHALTJalousien"),
     PerIdFields("ClimateConfig", "INHALTKlimas"),
     PerIdFields("SceneConfig", "INHALTSZENEN"),
     PerIdFields("MediacenterConfig", "INHALTMediacenter"),
     PerIdFields("MediaPanelConfig", "INHALTMediaPanel"),
     PerIdFields("VolumeConfig", "INHALTVol"),
     PerIdFields("LightSubMenu", "UnterMenuLeuchten"),
     PerIdFields("BlindSubMenu", "UnterMenuJalousien"),
     PerIdFields("SpeakerSubMenu", "UnterMenuLautsprecher"),
     PerIdFields("QuickStartTile", "IndividuellStart"),
     PerIdFields("Floorplan", "Floorplan") >>

Charts ==
  << PerId("ChartPointUpdate", "StandsSingelChartUpdate"),
     PerId("ChartDefinition", "SingelDiagramm"),
     Definition("ChartStand", "CHART", TRUE, {"STAND"}, "raw"),
     OpenMarker("ChartSumResponse", "GiveMeChartSummeWasGenauBack") >>

RangeReads ==
  << PerId("ChartRangeStand", "SingelStandUpdate"),
     PerId("ChartRangeStartReading", "SingelStand2Update"),
     PerId("ChartRangeEndReading", "SingelStand3Update"),
     PerId("ChartRangeDefinition", "CreateChartSingelDiagramm"),
     PerId("ChartRangePoint", "SingelChartUpdate"),
     Definition("ChartRangeFinished", "FinishSingelChartUpdate", TRUE, {"end"},
                "idvalue") >>

OneOffs == << Definition("PlaySlot", "PLAYSLOT-", TRUE, {"<"}, "raw") >>

KnownMessages ==
  Routing \o Bootstrap \o Counters \o Markers \o Weather \o Singletons
    \o Rooms \o Pushes \o Configs \o Charts \o RangeReads \o OneOffs
-----------------------------------------------------------------------------
(* Every pattern is anchored at both ends of its literal: digits or a      *)
(* separator follow, so equal heads are what a match comes down to.        *)
Recognises(d, text) ==
  /\ d.head = text.head
  /\ d.indexed <=> text.index # NoIndex
  /\ text.sep \in d.seps

Frame(type, name, index, body) ==
  [type |-> type, name |-> name, index |-> index, body |-> body]

ParseError == Frame("ProtocolError", "none", NoIndex, Empty)

UnknownFrame(text) == Frame("UnknownFrame", "none", NoIndex, text.body)

(* Each parser's result, or the ProtocolError it raises.  A raw value      *)
(* keeps the digits in the payload, so its frame has no index.             *)
Parse(d, text) ==
  CASE d.parser = "route" ->
         IF text.body.form = "route"
         THEN Frame("GoToLinkSSL", d.name, NoIndex, text.body) ELSE ParseError
    [] d.parser = "offline" -> Frame("HostNotOnline", d.name, NoIndex, Empty)
    [] d.parser = "config" ->
         IF text.body.form = "sixFields"
         THEN Frame("GlobalConfig", d.name, NoIndex, text.body) ELSE ParseError
    [] d.parser = "temperature" ->
         IF text.body.form = "number"
         THEN Frame("Temperature", d.name, text.index, text.body) ELSE ParseError
    [] d.parser = "value" ->
         IF text.body = Empty THEN ParseError
         ELSE Frame("NamedValue", d.name, NoIndex, text.body)
    [] d.parser = "raw" -> Frame("NamedValue", d.name, NoIndex, text.body)
    [] d.parser = "idvalue" -> Frame("NamedValue", d.name, text.index, text.body)
    [] d.parser = "fields" -> Frame("NamedFields", d.name, NoIndex, text.body)
    [] d.parser = "idfields" -> Frame("NamedFields", d.name, text.index, text.body)

(* parse_frame: the first definition whose pattern matches takes the text. *)
ParseFrame(text) ==
  LET hits == {i \in DOMAIN KnownMessages : Recognises(KnownMessages[i], text)}
  IN  IF hits = {} THEN UnknownFrame(text)
      ELSE Parse(KnownMessages[Min(hits)], text)
=============================================================================
