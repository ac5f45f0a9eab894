---------------------------- MODULE SessionState ----------------------------
(***************************************************************************)
(* The phase machine of protocol.py (SessionPhase, SessionState).  It owns *)
(* no socket: the client calls these operators on its own copy of the      *)
(* state.  A session is [phase, menuLoaded]; the parsed route, the         *)
(* GlobalConfig and the chart units are data no property tells apart.      *)
(***************************************************************************)

SessionPhase == {"DISCOVERY_OPEN", "ROUTED", "APP_OPEN", "BOOTSTRAPPED",
                 "READY", "CLOSED"}

Session == [phase : SessionPhase, menuLoaded : BOOLEAN]

NewSession == [phase |-> "DISCOVERY_OPEN", menuLoaded |-> FALSE]

(* A GoToLinkSSL frame routes the session from whatever phase it is in;   *)
(* menuLoaded keeps the value an earlier connection left there.           *)
OnDiscoveryFrame(s) == [s EXCEPT !.phase = "ROUTED"]

(* on_app_open raises ProtocolError unless this holds. *)
MayOpenApp(s) == s.phase = "ROUTED"

OnAppOpen(s) == [s EXCEPT !.phase = "APP_OPEN"]

(* Fault: the phase moves on any frame, marker seen or not. *)
OnAppFrame_AnyFrame(s, isMenuMarker) ==
  [phase |-> IF s.phase = "APP_OPEN" THEN "BOOTSTRAPPED"
             ELSE IF s.phase = "BOOTSTRAPPED" THEN "READY"
             ELSE s.phase,
   menuLoaded |-> s.menuLoaded \/ isMenuMarker]

(* A frame on the app socket: the phase moves one step on every frame once *)
(* the MainMenuFinished marker has been seen.                              *)
OnAppFrame(s, isMenuMarker) ==
  LET loaded == s.menuLoaded \/ isMenuMarker
  IN  [phase |-> IF loaded /\ s.phase = "APP_OPEN" THEN "BOOTSTRAPPED"
                 ELSE IF loaded /\ s.phase = "BOOTSTRAPPED" THEN "READY"
                 ELSE s.phase,
       menuLoaded |-> loaded]

(* Closing is idempotent and allowed in every phase. *)
Close(s) == [s EXCEPT !.phase = "CLOSED"]
=============================================================================
