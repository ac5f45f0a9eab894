------------------------- MODULE Integration_proofs -------------------------
(***************************************************************************)
(* Proofs about Integration, for every set of charts, entities and values. *)
(* The client's own invariant carries over, since every step here is a     *)
(* step of the client or leaves it alone; on top of it, what an entity     *)
(* shows is tied to its signature and the signature to the health last     *)
(* fanned out.                                                             *)
(***************************************************************************)
EXTENDS Integration, SmartPlaceClient_proofs

(* Unless its last write was a first write by Home Assistant, an entity    *)
(* shows what its signature stands for once anything was written.          *)
SignatureShown ==
  \A e \in Entities :
    /\ entity[e].stage = "absent" => entity[e].by = "nobody"
    /\ entity[e].by = "fanout" => entity[e].sig = entity[e].shown
    /\ entity[e].stage = "added" /\ entity[e].by # "unsigned" =>
         entity[e].sig = entity[e].shown

(* While the connection is served in health, no attached entity was told   *)
(* anything but the value, or it raised.                                   *)
ServedIsTold ==
  pc = "dispatch" /\ connHealthy /\ Healthy(Connected, session) =>
    \A e \in Entities :
      entity[e].stage # "absent" /\ ~entity[e].failed => entity[e].sig = value

(* The remembered health is that of the app socket being served or torn    *)
(* down.                                                                   *)
HealthInScope ==
  connHealthy => /\ ws = "app"
                 /\ pc \in {"dispatch", "done"} \union TearingDown

(* Between connections, what the fan-out wrote is "unavailable". *)
GapIsTold ==
  pc \in {"loop", "sleep"} \union Handshaking =>
    \A e \in Entities :
      entity[e].by = "fanout" => entity[e].shown = "unavailable"

(* The inductive invariant. *)
HAInv ==
  HATypeOK /\ SignatureShown /\ ServedIsTold /\ HealthInScope /\ GapIsTold
-----------------------------------------------------------------------------
(* The integration never makes the client take a step of its own. *)
LEMMA ClientSteps == [IntegrationNext]_allVars => [Next]_vars
BY DEF IntegrationNext, allVars, FrameHandled, Disconnected, ClientAlone,
       EntityNext, Attached, FirstWrite, OwnWrite, Next, Dispatch, Teardown

(* A report is a value or "unavailable", by health alone. *)
LEMMA ReportFacts ==
  ASSUME NEW healthy \in BOOLEAN, NEW v \in Values
  PROVE  /\ Report(healthy, v) \in Values \union {"unavailable"}
         /\ healthy => Report(healthy, v) = v
         /\ ~healthy => Report(healthy, v) = "unavailable"
BY DEF Report

(* What a fan-out does to the entities. *)
LEMMA Fanout ==
  ASSUME HATypeOK, SignatureShown,
         NEW healthy \in BOOLEAN, NEW v \in Values, NotifyAll(healthy, v)
  PROVE  /\ entity' \in [Entities -> EntityState]
         /\ SignatureShown'
         /\ \A e \in Entities :
              entity'[e].stage # "absent" /\ ~entity'[e].failed =>
                entity'[e].sig = Report(healthy, v)
         /\ \A e \in Entities : entity'[e].stage = entity[e].stage
         /\ ~healthy => \A e \in Entities :
              entity[e].stage # "absent" => ~entity'[e].failed
<1>1. PICK bad \in SUBSET Entities :
        entity' = [e \in Entities |->
          IF entity[e].stage = "absent" THEN entity[e]
          ELSE Updated(entity[e], Report(healthy, v),
                       healthy /\ e \in bad, "fanout")]
  BY Zenon DEF NotifyAll
<1>2. ASSUME NEW e \in Entities
      PROVE  /\ entity'[e] \in EntityState
             /\ entity'[e].stage = entity[e].stage
             /\ entity'[e].stage = "absent" => entity'[e].by = "nobody"
             /\ entity'[e].by = "fanout" => entity'[e].sig = entity'[e].shown
             /\ entity'[e].stage = "added" /\ entity'[e].by # "unsigned" =>
                  entity'[e].sig = entity'[e].shown
             /\ entity'[e].stage # "absent" /\ ~entity'[e].failed =>
                  entity'[e].sig = Report(healthy, v)
             /\ ~healthy /\ entity[e].stage # "absent" => ~entity'[e].failed
  <2> DEFINE r == entity[e]
             report == Report(healthy, v)
             raises == healthy /\ e \in bad
             u == entity'[e]
  <2>1. r \in EntityState
    BY DEF HATypeOK
  <2>2. /\ r.stage = "absent" => r.by = "nobody"
        /\ r.by = "fanout" => r.sig = r.shown
        /\ r.stage = "added" /\ r.by # "unsigned" => r.sig = r.shown
    BY DEF SignatureShown
  <2>3. /\ report \in Values \union {"unavailable"}
        /\ raises \in BOOLEAN
        /\ ~healthy => ~raises
    BY ReportFacts
  <2>4. u = IF r.stage = "absent" THEN r
            ELSE Updated(r, report, raises, "fanout")
    BY <1>1
  <2> HIDE DEF r, report, raises, u
  <2>5. CASE r.stage = "absent"
    <3>1. u = r
      BY <2>4, <2>5
    <3> QED BY <3>1, <2>1, <2>2, <2>5 DEF u, r
  <2>6. CASE r.stage # "absent"
    <3>1. u = Updated(r, report, raises, "fanout")
      BY <2>4, <2>6
    <3>2. /\ u \in EntityState
          /\ u.stage = r.stage
          /\ ~u.failed => u.sig = report
          /\ ~raises => ~u.failed
          /\ \/ u.by = r.by /\ u.shown = r.shown /\ u.sig = r.sig
             \/ u.by = "fanout" /\ u.shown = report /\ u.sig = report
      BY <3>1, <2>1, <2>3 DEF Updated, EntityState
    <3> QED BY <3>2, <2>2, <2>3, <2>6 DEF u, r, report
  <2> QED BY <2>5, <2>6
<1>3. entity' \in [Entities -> EntityState]
  BY <1>1, <1>2
<1>4. SignatureShown'
  BY <1>2 DEF SignatureShown
<1> QED BY <1>2, <1>3, <1>4

(* What the client's silent steps leave alone: they neither leave the app  *)
(* socket's scope by the front door, nor make a served connection healthy, *)
(* nor enter the gap from outside it.                                      *)
LEMMA AloneFacts ==
  ASSUME IInv, ClientAlone
  PROVE  /\ ws = "app" /\ pc \in {"dispatch", "done"} \union TearingDown =>
              ws' = "app" /\ pc' \in {"dispatch", "done"} \union TearingDown
         /\ pc' = "dispatch" => pc \in {"open", "dispatch"}
         /\ pc = "dispatch" /\ pc' = "dispatch"
              /\ Healthy(Connected, session)' => Healthy(Connected, session)
         /\ pc' \in {"loop", "sleep"} \union Handshaking =>
              pc \in {"loop", "sleep"} \union Handshaking
<1> USE DEF TearingDown, Handshaking, Healthy, HealthyPhases, Connected,
            NoSocket, client, tasks, stop, seen
<1>1. CASE NextAttempt
  BY <1>1 DEF NextAttempt
<1>2. CASE DiscoveryOpened \/ RouteArrives \/ DiscoveryLeft \/ RoutedPageRead
  BY <1>2 DEF DiscoveryOpened, RouteArrives, DiscoveryLeft, RoutedPageRead
<1>3. CASE AppOpened \/ AppOpenRejected \/ BootstrapSendFails
  BY <1>3 DEF AppOpened, AppOpenRejected, BootstrapSendFails
<1>4. CASE HandshakeFails
  BY <1>4 DEF HandshakeFails, AfterAttempt
<1>5. CASE \E f \in Frame : ChaseFails(f)
  BY <1>5 DEF ChaseFails
<1>6. CASE SkipUnparsable \/ StreamEnds
  BY <1>6 DEF SkipUnparsable, StreamEnds, SocketAfterRead
<1>7. CASE CancelPoll \/ CancelHeartbeat
  BY <1>7 DEF CancelPoll, CancelHeartbeat
<1>8. CASE PollTask \/ Press
  BY <1>8 DEF PollTask, PollBegins, PollTicks, PollSendFails, Press
<1>9. CASE HeartbeatTask
  BY <1>9 DEF HeartbeatTask, HeartbeatStops, HeartbeatCloses, HeartbeatClosed,
              CloseCall
<1>10. CASE CloseRequested \/ CloseFinishes
  <2>1. Close(session).phase = "CLOSED"
    BY DEF IInv, TypeOK, Session, Close
  <2> QED BY <2>1, <1>10 DEF CloseRequested, CloseFinishes, CloseCall
<1>11. CASE Cancel
  BY <1>11 DEF Cancel, CancelHandshake, CancelDispatch, CancelSwallowed,
               CancelCloseApp
<1>12. CASE SocketLost
  BY <1>12 DEF SocketLost
<1> QED
  BY <1>1, <1>2, <1>3, <1>4, <1>5, <1>6, <1>7, <1>8, <1>9, <1>10, <1>11, <1>12
  DEF ClientAlone, Handshake

(* In the dispatch loop a frame does not make an unhealthy session healthy. *)
LEMMA FrameKeepsHealth ==
  ASSUME NEW s \in Session, NEW m \in BOOLEAN,
         s.phase \notin {"DISCOVERY_OPEN", "ROUTED"},
         OnAppFrame(s, m).phase \in HealthyPhases
  PROVE  s.phase \in HealthyPhases
BY DEF Session, SessionPhase, OnAppFrame, HealthyPhases

(* A handled frame: the fan-out, or nothing new to tell. *)
LEMMA FrameStep ==
  ASSUME IInv, IInv', HAInv, FrameHandled
  PROVE  HAInv'
<1>1. PICK f \in Frame, v \in Values :
        DispatchFrame(f) /\ OnFrame(Healthy(Connected, session'), v)
  BY DEF FrameHandled, HAInv, HATypeOK
<1> DEFINE h == Healthy(Connected, session')
<1>2. h \in BOOLEAN
  BY DEF Healthy, Connected, NoSocket
<1>3. /\ pc = "dispatch" /\ pc' \in {"dispatch", "cancelPoll"}
      /\ ws = "app" /\ ws' = "app"
      /\ session' = OnAppFrame(session, IsMenuMarker(f))
      /\ Connected
  BY <1>1 DEF DispatchFrame, AfterFrame, IInv, Ownership, TearingDown,
              Connected, NoSocket
<1>4. value' = v /\ connHealthy' = h
  BY <1>1 DEF OnFrame
<1>5. HealthInScope' /\ GapIsTold'
  BY <1>3 DEF HealthInScope, GapIsTold, TearingDown, Handshaking
<1>6. CASE NotifyAll(h, v)
  <2> HIDE DEF h
  <2>1. /\ entity' \in [Entities -> EntityState]
        /\ SignatureShown'
        /\ \A e \in Entities :
             entity'[e].stage # "absent" /\ ~entity'[e].failed =>
               entity'[e].sig = Report(h, v)
    BY <1>2, <1>6, Fanout DEF HAInv
  <2>2. ServedIsTold'
    BY <2>1, <1>2, <1>4, ReportFacts DEF ServedIsTold
  <2>3. HATypeOK'
    BY <2>1, <1>2, <1>4 DEF HATypeOK
  <2> QED BY <2>1, <2>2, <2>3, <1>5 DEF HAInv
<1>7. CASE v = value /\ h = connHealthy /\ UNCHANGED entity
  <2>1. HATypeOK' /\ SignatureShown'
    BY <1>2, <1>4, <1>7 DEF HAInv, HATypeOK, SignatureShown
  <2>2. connHealthy => Healthy(Connected, session)
    <3>1. session \in Session /\ session.phase \notin {"DISCOVERY_OPEN", "ROUTED"}
      BY <1>3 DEF IInv, TypeOK, PhaseRestsOnMarker
    <3> QED BY <3>1, <1>3, <1>7, FrameFacts, FrameKeepsHealth DEF Healthy
  <2>3. ServedIsTold'
    BY <2>2, <1>3, <1>4, <1>7 DEF HAInv, ServedIsTold
  <2> QED BY <2>1, <2>3, <1>5 DEF HAInv
<1> QED BY <1>1, <1>6, <1>7 DEF OnFrame

(* The end of an app socket: everyone is told, nothing is left healthy. *)
LEMMA DisconnectStep ==
  ASSUME IInv, HAInv, Disconnected
  PROVE  HAInv'
<1>1. /\ pc = "closeApp" /\ pc' \in {"done", "sleep"}
      /\ connHealthy' = FALSE /\ value' = value /\ NotifyAll(FALSE, value)
  BY DEF Disconnected, CloseApp, AfterAttempt, OnDisconnect
<1>2. /\ entity' \in [Entities -> EntityState]
      /\ SignatureShown'
      /\ \A e \in Entities :
           entity'[e].stage # "absent" /\ ~entity'[e].failed =>
             entity'[e].sig = Report(FALSE, value)
      /\ \A e \in Entities : entity'[e].stage = entity[e].stage
      /\ \A e \in Entities : entity[e].stage # "absent" => ~entity'[e].failed
  BY <1>1, Fanout DEF HAInv, HATypeOK
<1>3. HATypeOK' /\ ServedIsTold' /\ HealthInScope'
  BY <1>1, <1>2 DEF HAInv, HATypeOK, ServedIsTold, HealthInScope
<1>4. ASSUME NEW e \in Entities, entity'[e].by = "fanout"
      PROVE  entity'[e].shown = "unavailable"
  <2>1. entity'[e].stage # "absent" /\ entity[e].stage # "absent"
    BY <1>2, <1>4 DEF SignatureShown
  <2>2. entity'[e].sig = Report(FALSE, value)
    BY <2>1, <1>2
  <2> QED BY <2>2, <1>2, <1>4 DEF SignatureShown, Report
<1> QED BY <1>2, <1>3, <1>4 DEF HAInv, GapIsTold

(* An entity that attaches or writes by itself uses the current report,    *)
(* and never becomes one the fan-out wrote last.                           *)
LEMMA EntityStep ==
  ASSUME IInv, HAInv, EntityNext
  PROVE  HAInv'
<1>1. PICK e \in Entities : Attached(e) \/ FirstWrite(e) \/ OwnWrite(e)
  BY DEF EntityNext
<1>2. UNCHANGED <<vars, value, connHealthy>>
  BY <1>1 DEF Attached, FirstWrite, OwnWrite
<1>3. /\ Healthy(Connected, session) \in BOOLEAN
      /\ Current \in Values \union {"unavailable"}
      /\ Healthy(Connected, session) => Current = value
  BY DEF Healthy, Connected, NoSocket, Current, Report, HAInv, HATypeOK
<1> DEFINE r == entity[e]
           u == entity'[e]
<1>4. r \in EntityState
  BY DEF HAInv, HATypeOK
<1>5. /\ r.stage = "absent" => r.by = "nobody"
      /\ r.by = "fanout" => r.sig = r.shown
      /\ r.stage = "added" /\ r.by # "unsigned" => r.sig = r.shown
  BY DEF HAInv, SignatureShown
<1>6. e \in DOMAIN entity
  BY DEF HAInv, HATypeOK
<1> HIDE DEF r, u
<1>7. /\ u \in EntityState
      /\ u.stage # "absent"
      /\ u.by = "fanout" => r.by = "fanout" /\ u.sig = r.sig /\ u.shown = r.shown
      /\ u.stage = "added" /\ u.by # "unsigned" => u.sig = u.shown
      /\ ~u.failed => \/ u.sig = Current
                      \/ r.stage # "absent" /\ ~r.failed /\ u.sig = r.sig
      /\ entity' = [entity EXCEPT ![e] = u]
  <2>1. CASE Attached(e)
    <3>1. /\ r.stage = "absent" /\ entity' = [entity EXCEPT ![e] = u]
          /\ u = IF e \in OwnTimers
                 THEN [r EXCEPT !.stage = "attached", !.sig = Current]
                 ELSE [r EXCEPT !.stage = "added", !.sig = Current,
                                !.shown = Current, !.by = "itself"]
      BY <2>1, <1>6 DEF Attached, r, u
    <3> QED BY <3>1, <1>3, <1>4, <1>5 DEF EntityState
  <2>2. CASE FirstWrite(e)
    <3>1. /\ r.stage = "attached" /\ ~r.failed
          /\ entity' = [entity EXCEPT ![e] = u]
          /\ u = [r EXCEPT !.stage = "added", !.shown = Current,
                     !.by = IF r.sig = Current THEN "itself" ELSE "unsigned"]
      BY <2>2, <1>6 DEF FirstWrite, r, u
    <3> QED BY <3>1, <1>3, <1>4 DEF EntityState
  <2>3. CASE OwnWrite(e)
    <3>1. /\ r.stage # "absent" /\ entity' = [entity EXCEPT ![e] = u]
          /\ u = Updated(r, Current, FALSE, "itself")
      BY <2>3, <1>6 DEF OwnWrite, r, u
    <3>2. CASE r.sig = Current
      BY <3>1, <3>2, <1>4, <1>5 DEF Updated, EntityState
    <3>3. CASE r.sig # Current
      BY <3>1, <3>3, <1>3, <1>4 DEF Updated, EntityState
    <3> QED BY <3>2, <3>3
  <2> QED BY <1>1, <2>1, <2>2, <2>3
<1>8. \A d \in Entities : entity'[d] = IF d = e THEN u ELSE entity[d]
  BY <1>7 DEF HAInv, HATypeOK
<1>9. HATypeOK'
  BY <1>2, <1>7 DEF HAInv, HATypeOK
<1>10. SignatureShown'
  BY <1>7, <1>8, <1>5 DEF HAInv, SignatureShown
<1>11. ServedIsTold'
  <2>1. SUFFICES ASSUME pc = "dispatch", connHealthy,
                        Healthy(Connected, session),
                        NEW d \in Entities,
                        entity'[d].stage # "absent", ~entity'[d].failed
                 PROVE  entity'[d].sig = value
    BY <1>2 DEF ServedIsTold, vars, Connected, NoSocket
  <2>2. \A x \in Entities :
          entity[x].stage # "absent" /\ ~entity[x].failed =>
            entity[x].sig = value
    BY <2>1 DEF HAInv, ServedIsTold
  <2> QED BY <2>1, <2>2, <1>3, <1>7, <1>8 DEF r
<1>12. HealthInScope'
  BY <1>2 DEF HAInv, HealthInScope, vars
<1>13. GapIsTold'
  <2>1. SUFFICES ASSUME pc \in {"loop", "sleep"} \union Handshaking,
                        NEW d \in Entities, entity'[d].by = "fanout"
                 PROVE  entity'[d].shown = "unavailable"
    BY <1>2 DEF GapIsTold, vars
  <2>2. \A x \in Entities :
          entity[x].by = "fanout" => entity[x].shown = "unavailable"
    BY <2>1 DEF HAInv, GapIsTold
  <2> QED BY <2>1, <2>2, <1>7, <1>8 DEF r
<1> QED BY <1>9, <1>10, <1>11, <1>12, <1>13 DEF HAInv

(* The client's silent steps leave what was told in force. *)
LEMMA AloneStep ==
  ASSUME IInv, HAInv, ClientAlone
  PROVE  HAInv'
<1>1. UNCHANGED <<value, connHealthy, entity>>
  BY DEF ClientAlone, ha
<1>2. HATypeOK' /\ SignatureShown'
  BY <1>1 DEF HAInv, HATypeOK, SignatureShown
<1>3. HealthInScope'
  BY <1>1, AloneFacts DEF HAInv, HealthInScope
<1>4. GapIsTold'
  BY <1>1, AloneFacts DEF HAInv, GapIsTold
<1>5. ServedIsTold'
  <2>1. SUFFICES ASSUME pc' = "dispatch", connHealthy,
                        Healthy(Connected, session)'
                 PROVE  \A e \in Entities :
                          entity[e].stage # "absent" /\ ~entity[e].failed =>
                            entity[e].sig = value
    BY <1>1 DEF ServedIsTold
  <2>2. pc = "dispatch"
    BY <2>1, AloneFacts DEF HAInv, HealthInScope, TearingDown
  <2>3. Healthy(Connected, session)
    BY <2>1, <2>2, AloneFacts
  <2> QED BY <2>1, <2>2, <2>3 DEF HAInv, ServedIsTold
<1> QED BY <1>2, <1>3, <1>4, <1>5 DEF HAInv

(* Nothing is attached and nothing was healthy at the start. *)
LEMMA HAInitially == IntegrationInit => IInv /\ HAInv
<1> SUFFICES ASSUME IntegrationInit PROVE IInv /\ HAInv
  OBVIOUS
<1>1. IInv
  BY IInvInit DEF IntegrationInit
<1>2. HATypeOK
  BY DEF IntegrationInit, HAInit, HATypeOK, EntityState
<1>3. SignatureShown /\ ServedIsTold /\ HealthInScope /\ GapIsTold
  BY DEF IntegrationInit, HAInit, SignatureShown, ServedIsTold,
         HealthInScope, GapIsTold
<1> QED BY <1>1, <1>2, <1>3 DEF HAInv

(* Both invariants are preserved together. *)
LEMMA HAStep ==
  IInv /\ HAInv /\ [IntegrationNext]_allVars => IInv' /\ HAInv'
<1> SUFFICES ASSUME IInv, HAInv, [IntegrationNext]_allVars
             PROVE  IInv' /\ HAInv'
  OBVIOUS
<1>1. IInv'
  BY ClientSteps, IInvStep
<1>2. CASE IntegrationNext
  BY <1>1, <1>2, FrameStep, DisconnectStep, AloneStep, EntityStep
  DEF IntegrationNext
<1>3. CASE UNCHANGED allVars
  <2>1. UNCHANGED <<pc, ws, sock, session, value, connHealthy, entity>>
    BY <1>3 DEF allVars, vars, ha
  <2>2. HATypeOK' /\ SignatureShown'
    BY <2>1 DEF HAInv, HATypeOK, SignatureShown
  <2>3. ServedIsTold'
    BY <2>1 DEF HAInv, ServedIsTold, Healthy, Connected, NoSocket
  <2>4. HealthInScope' /\ GapIsTold'
    BY <2>1 DEF HAInv, HealthInScope, GapIsTold
  <2> QED BY <1>1, <2>2, <2>3, <2>4 DEF HAInv
<1> QED BY <1>1, <1>2, <1>3

(* The client's invariant and the integration's hold together in every     *)
(* reachable state.                                                        *)
THEOREM HAInvariance == IntegrationSpec => [](IInv /\ HAInv)
BY HAInitially, HAStep, PTL DEF IntegrationSpec

(* The integration's variables keep their types, whatever values and       *)
(* entities there are.                                                     *)
THEOREM HATypeCorrect == IntegrationSpec => []HATypeOK
<1>1. HAInv => HATypeOK
  BY DEF HAInv
<1> QED BY <1>1, HAInvariance, PTL

(* The remembered health never outlives its app socket, so the first frame *)
(* after a reconnect is always seen as a transition                        *)
(* (__init__.py:126-141, 172-174).                                         *)
THEOREM HealthBounded == IntegrationSpec => []HealthIsOfThisSocket
<1>1. HAInv => HealthIsOfThisSocket
  BY DEF HAInv, HealthInScope, HealthIsOfThisSocket
<1> QED BY <1>1, HAInvariance, PTL

(* Between connections no entity shows a value the fan-out left            *)
(* (__init__.py:135-141).                                                  *)
THEOREM GapUnavailable == IntegrationSpec => []FannedOutGapIsUnavailable
<1>1. HAInv => FannedOutGapIsUnavailable
  BY DEF HAInv, GapIsTold, FannedOutGapIsUnavailable, Gap
<1> QED BY <1>1, HAInvariance, PTL

(* A served entity shows the snapshot, skipped fan-outs and raising        *)
(* listeners notwithstanding (__init__.py:164-174, entity.py:57-70).       *)
THEOREM ServedShown == IntegrationSpec => []ServedIsShown
<1>1. HAInv => ServedIsShown
  BY DEF HAInv, SignatureShown, ServedIsTold, ServedIsShown
<1> QED BY <1>1, HAInvariance, PTL
=============================================================================
