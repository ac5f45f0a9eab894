---------------------------- MODULE Integration ----------------------------
(***************************************************************************)
(* The Home Assistant side of one config entry (__init__.py, entity.py):   *)
(* the frame handler that applies a frame to the snapshot and fans it out, *)
(* the disconnect notification, and the push entities that write only when *)
(* what they report changed.  Every step of the client is a step of        *)
(* SmartPlaceClient; the two that call back into the integration, a frame  *)
(* handed to the handlers and the end of the app socket, move both.        *)
(***************************************************************************)
EXTENDS SmartPlaceClient

CONSTANTS
  Entities,   \* the push entities of the entry
  OwnTimers,  \* those that also write on a timer of their own
  Values      \* what the snapshot can make an entity report

ASSUME EntitiesAssumption ==
  /\ OwnTimers \subseteq Entities
  /\ Values # {} /\ {"unavailable", "unset"} \intersect Values = {}

VARIABLES
  value,        \* what data.state makes the entities report
  connHealthy,  \* connection_healthy, the health last fanned out
  entity        \* per entity: where it is in its life, what Home Assistant
                \* shows, the signature, whether its last notification
                \* raised, and who wrote last

ha == <<value, connHealthy, entity>>
allVars == <<vars, ha>>

EntityState == [stage  : {"absent", "attached", "added"},
                shown  : Values \union {"unavailable", "unset"},
                sig    : Values \union {"unavailable", "unset"},
                failed : BOOLEAN,
                by     : {"nobody", "fanout", "itself", "unsigned"}]

HATypeOK ==
  /\ value \in Values
  /\ connHealthy \in BOOLEAN
  /\ entity \in [Entities -> EntityState]

HAInit ==
  /\ value \in Values
  /\ connHealthy = FALSE
  /\ entity = [e \in Entities |->
                 [stage |-> "absent", shown |-> "unset", sig |-> "unset",
                  failed |-> FALSE, by |-> "nobody"]]
-----------------------------------------------------------------------------
HealthyPhases == {"APP_OPEN", "BOOTSTRAPPED", "READY"}

(* is_healthy, of a session whose socket is connected or not. *)
Healthy(connected, s) == connected /\ s.phase \in HealthyPhases

(* Fault: an entity without a connection reports no state of its own. *)
Report_Unknown(healthy, v) == IF healthy THEN v ELSE "unknown"

(* What an entity reports: its value, or unavailable.  It depends on       *)
(* nothing but is_healthy at the time it is asked.                         *)
Report(healthy, v) == IF healthy THEN v ELSE "unavailable"

(* Fault: the signature is recorded before the write that may raise. *)
Updated_SignatureFirst(r, report, raises, writer) ==
  IF r.sig = report THEN [r EXCEPT !.failed = FALSE]
  ELSE IF raises THEN [r EXCEPT !.failed = TRUE, !.sig = report]
  ELSE [r EXCEPT !.shown = report, !.sig = report,
                 !.failed = FALSE, !.by = writer]

(* _handle_frame_update: skip an unchanged signature, else write and then  *)
(* record it.  A write that raises leaves it to the next notification.     *)
Updated(r, report, raises, writer) ==
  IF r.sig = report THEN [r EXCEPT !.failed = FALSE]
  ELSE IF raises THEN [r EXCEPT !.failed = TRUE]
  ELSE [r EXCEPT !.shown = report, !.sig = report,
                 !.failed = FALSE, !.by = writer]

(* _notify_listeners: each listener is isolated, and only a value can make *)
(* one raise.                                                              *)
NotifyAll(healthy, v) ==
  \E bad \in SUBSET Entities :
    entity' = [e \in Entities |->
      IF entity[e].stage = "absent" THEN entity[e]
      ELSE Updated(entity[e], Report(healthy, v),
                   healthy /\ e \in bad, "fanout")]

(* Fault: a frame is fanned out only when the snapshot changed. *)
OnFrame_NoTransition(healthy, v) ==
  /\ value' = v
  /\ connHealthy' = healthy
  /\ IF v # value THEN NotifyAll(healthy, v) ELSE UNCHANGED entity

(* _on_frame: apply the frame, fan out a change of the snapshot or of the  *)
(* health.                                                                 *)
OnFrame(healthy, v) ==
  /\ value' = v
  /\ connHealthy' = healthy
  /\ IF v # value \/ healthy # connHealthy
     THEN NotifyAll(healthy, v)
     ELSE UNCHANGED entity

(* Fault: only entities are told of the disconnect; the remembered health  *)
(* survives it.                                                            *)
OnDisconnect_KeepsHealth ==
  /\ NotifyAll(FALSE, value)
  /\ UNCHANGED <<value, connHealthy>>

(* Fault: the remembered health is reset, nobody is told. *)
OnDisconnect_Silent ==
  /\ connHealthy' = FALSE
  /\ UNCHANGED <<value, entity>>

(* trigger_disconnect_notify; self._ws is None by now, so nothing is       *)
(* healthy.                                                                *)
OnDisconnect ==
  /\ connHealthy' = FALSE
  /\ NotifyAll(FALSE, value)
  /\ UNCHANGED value
-----------------------------------------------------------------------------
(* The client's steps with their callbacks.                                *)

(* Only broadcasts that are no lifecycle marker carry values; the handler  *)
(* runs while the socket has not been marked closed yet.                   *)
FrameHandled ==
  \E f \in Frame :
    /\ DispatchFrame(f)
    /\ \E v \in (IF f.name = "other" THEN Values ELSE {value}) :
         OnFrame(Healthy(Connected, session'), v)

Disconnected == CloseApp /\ OnDisconnect

(* Everything the client does without calling the integration. *)
ClientAlone ==
  /\ \/ NextAttempt \/ Handshake
     \/ \E f \in Frame : ChaseFails(f)
     \/ SkipUnparsable \/ StreamEnds
     \/ CancelPoll \/ CancelHeartbeat
     \/ PollTask \/ HeartbeatTask
     \/ Press \/ CloseRequested \/ CloseFinishes \/ Cancel \/ SocketLost
  /\ UNCHANGED ha
-----------------------------------------------------------------------------
(* The entities' own steps.  The current report is read at any moment of   *)
(* the client's life, between connections included.                        *)

Current == Report(Healthy(Connected, session), value)

(* async_added_to_hass, and for an entity that awaits nothing there the    *)
(* first write Home Assistant does right after it.                         *)
Attached(e) ==
  /\ entity[e].stage = "absent"
  /\ entity' = [entity EXCEPT ![e] =
       IF e \in OwnTimers
       THEN [@ EXCEPT !.stage = "attached", !.sig = Current]
       ELSE [@ EXCEPT !.stage = "added", !.sig = Current,
                      !.shown = Current, !.by = "itself"]]
  /\ UNCHANGED <<vars, value, connHealthy>>

(* The recorder has answered the prefix query: Home Assistant's first      *)
(* write, which leaves the signature alone: "unsigned" when the two differ.*)
(* It would raise where the last notification raised, and the entity would *)
(* not be added.                                                           *)
FirstWrite(e) ==
  /\ entity[e].stage = "attached" /\ ~entity[e].failed
  /\ entity' = [entity EXCEPT
       ![e].stage = "added", ![e].shown = Current,
       ![e].by = IF entity[e].sig = Current THEN "itself" ELSE "unsigned"]
  /\ UNCHANGED <<vars, value, connHealthy>>

(* A prefix refresh, tariff boundary or the like, outside the fan-out. *)
OwnWrite(e) ==
  /\ e \in OwnTimers /\ entity[e].stage # "absent"
  /\ entity' = [entity EXCEPT ![e] = Updated(@, Current, FALSE, "itself")]
  /\ UNCHANGED <<vars, value, connHealthy>>

EntityNext == \E e \in Entities : Attached(e) \/ FirstWrite(e) \/ OwnWrite(e)

IntegrationInit == Init /\ HAInit

IntegrationNext == FrameHandled \/ Disconnected \/ ClientAlone \/ EntityNext

IntegrationSpec == IntegrationInit /\ [][IntegrationNext]_allVars
-----------------------------------------------------------------------------
(* Once a frame of the connection has been handled and while the socket    *)
(* is up, every added entity shows the snapshot, although unchanged frames *)
(* are not fanned out, the first frames after a reconnect change nothing,  *)
(* and a listener may raise (__init__.py:164-174, entity.py:57-70).  An    *)
(* entity whose last notification raised is exempt until the next one, and *)
(* one whose first write the signature does not stand for (the README has  *)
(* the schedule) until it writes again.                                    *)
ServedIsShown ==
  pc = "dispatch" /\ connHealthy /\ Healthy(Connected, session) =>
    \A e \in Entities :
      entity[e].stage = "added" /\ ~entity[e].failed /\ entity[e].by # "unsigned"
        => entity[e].shown = value

Gap == pc = "sleep" \/ pc \in Handshaking

(* Between connections no entity shows a value the fan-out left there      *)
(* (__init__.py:135-141).  What an entity writes by itself is the subject  *)
(* of NoStaleNumbers.                                                      *)
FannedOutGapIsUnavailable ==
  Gap => \A e \in Entities :
           entity[e].by = "fanout" => entity[e].shown = "unavailable"

(* The health last fanned out never outlives its app socket, or the first  *)
(* frame of the next connection would not be seen as a transition          *)
(* (__init__.py:126-141, 172-174).                                         *)
HealthIsOfThisSocket == connHealthy => ws = "app"

(* "While disconnected, all entities except Connection show as Unavailable *)
(* so dashboards don't display stale numbers" (DEPLOY.md:146-148): here    *)
(* for the entities whose writes all went through their signature.         *)
NoStaleNumbers ==
  pc = "sleep" => \A e \in Entities :
    entity[e].stage = "added" /\ entity[e].by # "unsigned"
      => entity[e].shown = "unavailable"
=============================================================================
