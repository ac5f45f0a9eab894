----------------------------- MODULE MCSnapshot -----------------------------
(* Model-checking instance of Snapshot: one text or two of each family the *)
(* snapshot folds, the invalid payloads its handlers tell apart, one chart *)
(* known to both unit sources (with different units) and a sum over it,    *)
(* and a shape the registry does not know.                                 *)
EXTENDS Snapshot

Single1(head, body) == Text(head, NoIndex, ":", body)
One(head, id, body) == Text(head, id, ":", body)
Stand(chart, series, reading) ==
  [form |-> "stand", chart |-> chart, series |-> series, reading |-> reading]
Diagram(title, unit, summed) ==
  [form |-> "definition", title |-> title, fields |-> 15, category |-> "Elektro",
   unit |-> unit, summed |-> summed]
Gsa(fields, cameras, doors) ==
  [form |-> "gsa", fields |-> fields, cameras |-> cameras, doors |-> doors]

WeatherTexts ==
  {Single1("TEMPOUT", Number(21)), Single1("TEMPOUT", Word("--")),
   Single1("WINDGESCHWINDIGKEIT", Number(5)),
   Single1("REGEN", Word("01")), Single1("REGEN", Word("00")),
   Single1("HAGEL", Word("00")), Single1("JALWARTUNG", Empty),
   One("WINDALARM", 2, Word("01"))}

RoomTexts ==
  {One("TEMPIST", 1, Number(20)), One("TEMPIST", 1, Word("--")),
   One("INHALTKlimas", 1, [form |-> "names", title |-> <<"Bedroom", "heating">>]),
   One("FEUCHTEIST", 1, Number(40)), One("FEUCHTEIST", 1, Word("--"))}

NoticeTexts ==
  {One("SPRECHEN", 1, Word("ring")), One("SPRECHEN", 1, Word("00")),
   One("CALLINFO", 1, Word("Briefkasten")),
   Text("INFOBOARD", 1, "INHALT:", Word("Read")),
   One("INFOBOARD", 1, Word("slot")),
   Single1("PERSINFO", Notice(Number(4489))), Single1("PERSINFO", Word("Read"))}

ChartTexts ==
  {Text("CHART", 7, "STAND", Stand(7, 1, Number(9))),
   One("StandsSingelChartUpdate", 7, Stand(7, 1, Number(5))),
   One("SingelDiagramm", 7, Diagram(<<"Elektro", SiteCode>>, "KWh", {})),
   One("SingelDiagramm", 7, Diagram(<<"Elektro", "I">>, "", {})),
   One("SingelDiagramm", 9, Diagram(<<"SUMME", "Kaltwasser">>, "l", {7})),
   One("CHARTZIEL", 7, Number(10)),
   One("SingelStandUpdate", 7, Stand(7, 97, Number(3))),
   Text("StatusInhaltListe", NoIndex, "_",
        [form |-> "refs", hints |-> "TEMPOUT" :> "degF", charts |-> 7 :> "l"])}

OtherTexts ==
  {Text("GlobalGsa", NoIndex, ">",
        Gsa(5, <<[id |-> 1, value |-> "/linkmap1"]>>, <<[id |-> 1, value |-> "EingangEG"]>>)),
   Text("GlobalGsa", NoIndex, ">", Gsa(4, <<>>, <<>>)),
   One("NEUHEIT", 1, Word("01")),
   Text("GiveMeMainMenuFinished", NoIndex, "end", Empty)}

ASSUME CatalogueAssumption == UnitsKnown /\ Titled

MCTexts == WeatherTexts \cup RoomTexts \cup NoticeTexts \cup ChartTexts \cup OtherTexts
=============================================================================
