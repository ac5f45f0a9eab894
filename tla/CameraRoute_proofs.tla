------------------------ MODULE CameraRoute_proofs ------------------------
(***************************************************************************)
(* Proofs about CameraRoute, for every set of requests and every number of *)
(* routes: discoveries are serialised, no request that saw the route       *)
(* renewed while it waited discovers again, and no retry that follows a    *)
(* refresh uses the route that failed.                                     *)
(***************************************************************************)
EXTENDS CameraRoute, TLAPS

(* The types of everything but the queue, whose content neither property   *)
(* rests on.                                                               *)
RequestsTyped ==
  /\ route \in Route /\ minted \in Route
  /\ req \in [Requests -> RequestState]

(* No route is known that the server has not handed out. *)
HandedOut ==
  /\ route <= minted
  /\ \A r \in Requests : req[r].stale <= minted

(* The route a discovery was given is nobody else's yet. *)
FoundIsNew ==
  \A r \in Requests : req[r].at = "prime" =>
    /\ req[r].found \in 1..minted /\ req[r].found # route
    /\ \A q \in Requests : req[q].stale # req[r].found

(* A waiter that saw the route change sees another one than it read. *)
RenewedIsNew ==
  \A r \in Requests : req[r].at = "wait" /\ req[r].moved =>
    route # NoRoute /\ route # req[r].stale

(* The inductive invariant. *)
IInv ==
  /\ RequestsTyped /\ HandedOut /\ FoundIsNew /\ RenewedIsNew
  /\ OneDiscovery /\ NoPileOn
-----------------------------------------------------------------------------
(* Idle is a request state; what a refresh returns is one too, fetching or *)
(* idle, and has read no newer route.                                      *)
LEMMA ReturnedFacts ==
  ASSUME NEW r \in Requests, req[r] \in RequestState,
         NEW got \in Route, NEW current \in Route,
         NEW state, state = Returned(r, got, current)
  PROVE  /\ state \in RequestState
         /\ state.at \in {"idle", "fetch"}
         /\ state.stale \in {NoRoute, req[r].stale}
         /\ Idle \in RequestState /\ Idle.at = "idle" /\ Idle.stale = NoRoute
<1>1. Idle \in RequestState /\ Idle.at = "idle" /\ Idle.stale = NoRoute
  BY RoutesAssumption DEF Idle, RequestState, Place, Route, NoRoute
<1> QED BY <1>1 DEF Returned, RequestState, Place, Route, NoRoute

(* A request that neither holds the lock nor waits for it afterwards: a    *)
(* new fetch, an end, an answer taken from the shared route.               *)
LEMMA LeaveStep ==
  ASSUME IInv, NEW r \in Requests, NEW state \in RequestState,
         state.at \in {"idle", "fetch"}, state.stale \in {NoRoute, req[r].stale},
         Becomes(r, state), UNCHANGED <<route, minted>>
  PROVE  IInv'
<1>1. /\ \A q \in Requests : req'[q] = IF q = r THEN state ELSE req[q]
      /\ req' \in [Requests -> RequestState]
  BY DEF Becomes, IInv, RequestsTyped
<1>2. RequestsTyped' /\ RenewedIsNew'
  BY <1>1 DEF IInv, RequestsTyped, RenewedIsNew
<1>3. HandedOut'
  BY <1>1, RoutesAssumption DEF IInv, RequestsTyped, HandedOut, Route, NoRoute
<1>4. OneDiscovery' /\ NoPileOn'
  BY <1>1 DEF IInv, OneDiscovery, NoPileOn, Holding
<1>5. FoundIsNew'
  BY <1>1, RoutesAssumption DEF IInv, FoundIsNew, RequestsTyped, Route, NoRoute
<1> QED BY <1>2, <1>3, <1>4, <1>5 DEF IInv

(* A request that enters refresh_camera_route: it has read the current     *)
(* route, and discovers only when nobody else does.                        *)
LEMMA EnterStep ==
  ASSUME IInv, NEW r \in Requests, NEW state \in RequestState,
         NEW why \in {"url", "retry"}, ~Holding(r),
         EnterRefresh(r, state, why), UNCHANGED <<route, minted>>
  PROVE  IInv'
<1>1. PICK s \in RequestState :
        /\ s.at \in {"wait", "discover"} /\ s.stale = route /\ ~s.moved
        /\ s.at = "discover" => ~Locked
        /\ Becomes(r, s)
  <2> DEFINE entered == [state EXCEPT !.stale = route, !.goal = why,
                                      !.found = NoRoute, !.fresh = FALSE,
                                      !.moved = FALSE]
             waiting == [entered EXCEPT !.at = "wait"]
             discovering == [entered EXCEPT !.at = "discover"]
  <2>1. route \in Route /\ NoRoute \in Route
    BY RoutesAssumption DEF IInv, RequestsTyped, Route, NoRoute
  <2>2. /\ waiting \in RequestState /\ waiting.at = "wait"
        /\ waiting.stale = route /\ ~waiting.moved
        /\ discovering \in RequestState /\ discovering.at = "discover"
        /\ discovering.stale = route /\ ~discovering.moved
    BY <2>1 DEF RequestState, Place
  <2>3. \/ Becomes(r, waiting)
        \/ Becomes(r, discovering) /\ ~Locked
    BY Zenon DEF EnterRefresh
  <2> HIDE DEF waiting, discovering
  <2> QED BY <2>2, <2>3
<1>2. /\ \A q \in Requests : req'[q] = IF q = r THEN s ELSE req[q]
      /\ req' \in [Requests -> RequestState]
  BY <1>1 DEF Becomes, IInv, RequestsTyped
<1>3. RequestsTyped' /\ HandedOut' /\ RenewedIsNew'
  BY <1>1, <1>2 DEF IInv, RequestsTyped, HandedOut, RenewedIsNew
<1>4. OneDiscovery' /\ NoPileOn'
  BY <1>1, <1>2 DEF IInv, OneDiscovery, NoPileOn, Holding, Locked
<1>5. FoundIsNew'
  BY <1>1, <1>2 DEF IInv, FoundIsNew
<1> QED BY <1>3, <1>4, <1>5 DEF IInv

(* The camera route is replaced by one that no request has read: an        *)
(* adopted discovery or the route of a new app socket.                     *)
LEMMA RenewStep ==
  ASSUME IInv, RequestsTyped', NEW new \in Route, new # NoRoute,
         route' = new, new <= minted', minted <= minted',
         \A q \in Requests : req[q].stale # new,
         \A q \in Requests : req[q].at = "prime" =>
           req'[q].at # "prime" \/ req[q].found # new,
         \A q \in Requests :
           \/ req'[q] = Noticed(q)
           \/ /\ req'[q].at \in {"idle", "fetch"}
              /\ req'[q].stale \in {NoRoute, req[q].stale}
  PROVE  IInv'
<1>1. \A q \in Requests :
        /\ req'[q].stale \in {NoRoute, req[q].stale}
        /\ req'[q].at \in {"idle", "fetch", req[q].at}
        /\ req'[q].at = "prime" =>
              req[q].at = "prime" /\ req'[q].found = req[q].found
        /\ Holding(q)' => Holding(q) /\ req'[q].moved = req[q].moved
  BY DEF Noticed, Holding, IInv, RequestsTyped, RequestState, Place
<1>2. HandedOut'
  BY <1>1, RoutesAssumption
  DEF IInv, RequestsTyped, RequestState, HandedOut, Route, NoRoute
<1>3. FoundIsNew'
  BY <1>1, RoutesAssumption
  DEF IInv, RequestsTyped, RequestState, FoundIsNew, Route, NoRoute
<1>4. RenewedIsNew'
  BY <1>1 DEF RenewedIsNew
<1>5. OneDiscovery' /\ NoPileOn'
  BY <1>1 DEF IInv, OneDiscovery, NoPileOn
<1> QED BY <1>2, <1>3, <1>4, <1>5 DEF IInv

(* A request that takes the lock on an unchanged route saw it change never. *)
LEMMA AcquireStep ==
  ASSUME IInv, NEW r \in Requests, Acquire(r)
  PROVE  IInv'
<1>1. req[r] \in RequestState /\ route \in Route
  BY DEF IInv, RequestsTyped
<1>2. CASE AlreadyRefreshed(r)
  <2>1. Becomes(r, Returned(r, route, route)) /\ UNCHANGED <<route, minted>>
    BY <1>2 DEF Acquire
  <2> QED BY <2>1, <1>1, ReturnedFacts, LeaveStep
<1>3. CASE ~AlreadyRefreshed(r)
  <2> DEFINE s == [req[r] EXCEPT !.at = "discover"]
  <2>1. /\ Becomes(r, s) /\ UNCHANGED <<route, minted>>
        /\ ~Locked /\ req[r].at = "wait" /\ ~(route # NoRoute /\ route # req[r].stale)
    BY <1>3 DEF Acquire, Granted, AlreadyRefreshed
  <2>2. /\ s \in RequestState /\ s.at = "discover" /\ s.stale = req[r].stale
        /\ s.moved = req[r].moved
    BY <1>1 DEF RequestState, Place
  <2>3. ~req[r].moved
    BY <2>1 DEF IInv, RenewedIsNew
  <2> HIDE DEF s
  <2>4. /\ \A q \in Requests : req'[q] = IF q = r THEN s ELSE req[q]
        /\ req' \in [Requests -> RequestState]
    BY <2>1, <2>2 DEF Becomes, IInv, RequestsTyped
  <2>5. RequestsTyped' /\ HandedOut' /\ RenewedIsNew' /\ FoundIsNew'
    BY <2>1, <2>2, <2>4
    DEF IInv, RequestsTyped, HandedOut, RenewedIsNew, FoundIsNew
  <2>6. OneDiscovery' /\ NoPileOn'
    BY <2>1, <2>2, <2>3, <2>4 DEF IInv, OneDiscovery, NoPileOn, Holding, Locked
  <2> QED BY <2>5, <2>6 DEF IInv
<1> QED BY <1>2, <1>3

(* The routing frame gives the holder a route nobody has seen. *)
LEMMA DiscoveredStep ==
  ASSUME IInv, NEW r \in Requests, Discovered(r)
  PROVE  IInv'
<1> DEFINE s == [req[r] EXCEPT !.at = "prime", !.found = minted + 1]
<1>1. /\ req[r].at = "discover" /\ minted' = minted + 1 /\ route' = route
      /\ Becomes(r, s)
      /\ minted \in Nat /\ minted + 1 \in Route
  BY RoutesAssumption DEF Discovered, IInv, RequestsTyped, Route
<1>2. /\ s \in RequestState /\ s.at = "prime" /\ s.stale = req[r].stale
      /\ s.moved = req[r].moved /\ s.found = minted + 1
  BY <1>1 DEF IInv, RequestsTyped, RequestState, Place
<1> HIDE DEF s
<1>3. /\ \A q \in Requests : req'[q] = IF q = r THEN s ELSE req[q]
      /\ req' \in [Requests -> RequestState]
  BY <1>1, <1>2 DEF Becomes, IInv, RequestsTyped
<1>4. RequestsTyped' /\ RenewedIsNew'
  BY <1>1, <1>2, <1>3 DEF IInv, RequestsTyped, RenewedIsNew
<1>5. OneDiscovery' /\ NoPileOn'
  BY <1>1, <1>2, <1>3 DEF IInv, OneDiscovery, NoPileOn, Holding
<1>6. /\ route \in Nat
      /\ \A q \in Requests : req[q].stale \in Nat /\ req'[q].stale = req[q].stale
  BY <1>2, <1>3, RoutesAssumption DEF IInv, RequestsTyped, RequestState, Route
<1>7. HandedOut'
  BY <1>1, <1>6 DEF IInv, HandedOut
<1>8. FoundIsNew'
  <2>1. SUFFICES ASSUME NEW q \in Requests, req'[q].at = "prime"
                 PROVE  /\ req'[q].found \in 1..minted'
                        /\ req'[q].found # route'
                        /\ \A x \in Requests : req'[x].stale # req'[q].found
    BY DEF FoundIsNew
  <2>2. q = r
    BY <2>1, <1>1, <1>3 DEF IInv, OneDiscovery, Holding
  <2>3. req'[q].found = minted + 1
    BY <2>2, <1>2, <1>3
  <2> QED BY <2>3, <1>1, <1>6 DEF IInv, HandedOut
<1> QED BY <1>4, <1>5, <1>7, <1>8 DEF IInv

(* The holder adopts what its discovery was given. *)
LEMMA AdoptStep ==
  ASSUME IInv, NEW r \in Requests, Adopt(r)
  PROVE  IInv'
<1> DEFINE new == req[r].found
           s == Returned(r, new, new)
<1>1. /\ req[r].at = "prime" /\ route' = new /\ minted' = minted
      /\ req' = [q \in Requests |-> IF q = r THEN s ELSE Noticed(q)]
  BY DEF Adopt
<1>2. /\ new \in Route /\ new # NoRoute /\ new <= minted /\ minted <= minted
      /\ \A q \in Requests : req[q].stale # new
  BY <1>1, RoutesAssumption
  DEF IInv, FoundIsNew, RequestsTyped, RequestState, Route, NoRoute
<1>3. /\ s \in RequestState /\ s.at \in {"idle", "fetch"}
      /\ s.stale \in {NoRoute, req[r].stale}
  BY <1>2, ReturnedFacts DEF IInv, RequestsTyped
<1>4. \A q \in Requests : Noticed(q) \in RequestState
  BY DEF Noticed, IInv, RequestsTyped, RequestState
<1>5. RequestsTyped'
  BY <1>1, <1>2, <1>3, <1>4 DEF IInv, RequestsTyped
<1>6. \A q \in Requests : req[q].at = "prime" => q = r
  BY <1>1 DEF IInv, OneDiscovery, Holding
<1> HIDE DEF s, new
<1> QED BY <1>1, <1>2, <1>3, <1>5, <1>6, RenewStep

(* A reconnect's route is newer than any. *)
LEMMA SeedStep ==
  ASSUME IInv, SeedCameraRoute
  PROVE  IInv'
<1> DEFINE new == minted + 1
<1>1. /\ route' = new /\ minted' = new /\ new \in Route
      /\ req' = [q \in Requests |-> Noticed(q)]
      /\ minted \in Nat /\ route \in Nat
  BY RoutesAssumption DEF SeedCameraRoute, IInv, RequestsTyped, Route
<1>2. \A q \in Requests : /\ Noticed(q) \in RequestState
                          /\ req[q].stale \in Nat
  <2>1. \A q \in Requests : Noticed(q) \in RequestState
    BY DEF Noticed, IInv, RequestsTyped, RequestState
  <2>2. \A q \in Requests : req[q].stale \in Nat
    BY RoutesAssumption DEF IInv, RequestsTyped, RequestState, Route
  <2> QED BY <2>1, <2>2
<1>3. RequestsTyped'
  BY <1>1, <1>2 DEF RequestsTyped
<1>4. /\ new # NoRoute /\ new <= minted' /\ minted <= minted'
      /\ \A q \in Requests : req[q].stale # new
  BY <1>1, <1>2 DEF IInv, HandedOut, NoRoute
<1>5. \A q \in Requests : req[q].at = "prime" => req[q].found # new
  BY <1>1 DEF IInv, FoundIsNew
<1>6. \A q \in Requests : req'[q] = Noticed(q)
  BY <1>1
<1> HIDE DEF new
<1> QED BY <1>1, <1>3, <1>4, <1>5, <1>6, RenewStep

(* No request has read a route or holds the lock at the start. *)
LEMMA Initially == Init => IInv
<1>1. Idle \in RequestState /\ Idle.at = "idle" /\ Idle.stale = 0
  BY RoutesAssumption DEF Idle, RequestState, Place, Route, NoRoute
<1> QED
  BY <1>1, RoutesAssumption
  DEF Init, IInv, RequestsTyped, HandedOut, FoundIsNew, RenewedIsNew,
      OneDiscovery, NoPileOn, Holding, Route, NoRoute

(* Every step of a request, a cancellation and a reconnect preserves it. *)
LEMMA Step == IInv /\ [Next]_vars => IInv'
<1> SUFFICES ASSUME IInv, [Next]_vars PROVE IInv'
  OBVIOUS
<1>1. ASSUME NEW r \in Requests
      PROVE  /\ req[r] \in RequestState /\ route \in Route /\ NoRoute \in Route
             /\ Idle \in RequestState /\ Idle.at = "idle" /\ Idle.stale = NoRoute
  BY RoutesAssumption DEF IInv, RequestsTyped, Idle, RequestState, Place, Route,
                          NoRoute
<1>2. ASSUME NEW r \in Requests, Request(r) PROVE IInv'
  <2>1. CASE route # NoRoute
    <3> DEFINE s == [Idle EXCEPT !.at = "fetch", !.used = route]
    <3>1. s \in RequestState /\ s.at = "fetch" /\ s.stale = NoRoute
      BY <1>1 DEF RequestState, Place
    <3>2. Becomes(r, s) /\ UNCHANGED <<route, minted>>
      BY <1>2, <2>1 DEF Request
    <3> HIDE DEF s
    <3> QED BY <3>1, <3>2, LeaveStep
  <2>2. CASE route = NoRoute
    <3>1. EnterRefresh(r, Idle, "url") /\ ~Holding(r) /\ UNCHANGED <<route, minted>>
      BY <1>2, <2>2 DEF Request, Holding
    <3> QED BY <3>1, <1>1, EnterStep
  <2> QED BY <2>1, <2>2
<1>3. ASSUME NEW r \in Requests, FetchSucceeds(r) \/ Abandon(r) PROVE IInv'
  <2>1. Becomes(r, Idle) /\ UNCHANGED <<route, minted>>
    BY <1>3 DEF FetchSucceeds, Abandon
  <2> QED BY <2>1, <1>1, LeaveStep
<1>4. ASSUME NEW r \in Requests, FetchFails(r) PROVE IInv'
  <2>1. CASE req[r].attempt = 1
    <3> DEFINE s == [req[r] EXCEPT !.failed = req[r].used]
    <3>1. s \in RequestState
      BY <1>1 DEF RequestState
    <3>2. EnterRefresh(r, s, "retry") /\ ~Holding(r) /\ UNCHANGED <<route, minted>>
      BY <1>4, <2>1 DEF FetchFails, Holding
    <3> HIDE DEF s
    <3> QED BY <3>1, <3>2, EnterStep
  <2>2. CASE req[r].attempt # 1
    <3>1. Becomes(r, Idle) /\ UNCHANGED <<route, minted>>
      BY <1>4, <2>2 DEF FetchFails
    <3> QED BY <3>1, <1>1, LeaveStep
  <2> QED BY <2>1, <2>2
<1>5. ASSUME NEW r \in Requests, DiscoveryFails(r) PROVE IInv'
  <2>1. Becomes(r, Returned(r, NoRoute, route)) /\ UNCHANGED <<route, minted>>
    BY <1>5 DEF DiscoveryFails
  <2> QED BY <2>1, <1>1, ReturnedFacts, LeaveStep
<1>6. CASE SeedCameraRoute
  BY <1>6, SeedStep
<1>7. CASE UNCHANGED vars
  BY <1>7 DEF vars, IInv, RequestsTyped, HandedOut, FoundIsNew, RenewedIsNew,
              OneDiscovery, NoPileOn, Holding
<1> QED
  BY <1>2, <1>3, <1>4, <1>5, <1>6, <1>7, AcquireStep, DiscoveredStep, AdoptStep
  DEF Next, Fetched, Answered

(* The inductive invariant holds in every reachable state. *)
THEOREM Invariance == Spec => []IInv
BY Initially, Step, PTL DEF Spec

(* At most one throwaway discovery is in progress, whoever fails or is     *)
(* cancelled (client.py:644).                                              *)
THEOREM Serialised == Spec => []OneDiscovery
<1>1. IInv => OneDiscovery
  BY DEF IInv
<1> QED BY <1>1, Invariance, PTL

(* A request that waited through a renewal of the route does not discover  *)
(* (client.py:645-648).                                                    *)
THEOREM WaitersReuse == Spec => []NoPileOn
<1>1. IInv => NoPileOn
  BY DEF IInv
<1> QED BY <1>1, Invariance, PTL
-----------------------------------------------------------------------------
(* A retry is fresh.                                                       *)

(* What a request fetched with has been handed out, and only a fetch is    *)
(* ever a second attempt.                                                  *)
FetchedOld ==
  \A r \in Requests :
    /\ req[r].used <= minted /\ req[r].failed <= minted
    /\ req[r].attempt = 2 => req[r].at = "fetch"

(* The route a discovery was given has not been used by anyone, so that    *)
(* adopting it never brings a failed one back.                             *)
FoundIsUnused ==
  \A r, q \in Requests : req[r].at = "prime" =>
    req[q].used # req[r].found /\ req[q].failed # req[r].found

(* While a request waits, the camera route is the one it read on entry or  *)
(* one that did not fail it.  It need not be newer: an adoption can put    *)
(* back a route that is older than a reconnect's.                          *)
RenewedIsSound ==
  \A r \in Requests : req[r].at = "wait" =>
    route = req[r].stale \/ route = NoRoute \/ route # req[r].failed

(* The inductive invariant of RetryIsFresh, relative to IInv. *)
Freshness == FetchedOld /\ FoundIsUnused /\ RenewedIsSound /\ RetryIsFresh

(* The fields of what a refresh returns. *)
LEMMA ReturnedFetch ==
  ASSUME NEW r \in Requests, req[r] \in RequestState, req[r].attempt = 1,
         NEW got \in Route, NEW current \in Route,
         NEW state, state = Returned(r, got, current)
  PROVE  /\ state.used \in {NoRoute, got, current}
         /\ state.failed \in {NoRoute, req[r].failed}
         /\ state.attempt = 2 => state.at = "fetch"
         /\ state.attempt = 2 /\ state.fresh => got # NoRoute /\ state.used = current
         /\ state.attempt = 2 => state.failed = req[r].failed
<1> DEFINE next == IF req[r].goal = "url" THEN got ELSE current
           fetching == [req[r] EXCEPT !.at = "fetch", !.used = next,
                                      !.fresh = (got # NoRoute),
                                      !.attempt = IF req[r].goal = "retry"
                                                  THEN 2 ELSE @]
<1>1. CASE next = NoRoute
  <2>1. state = Idle
    BY <1>1 DEF Returned
  <2> QED BY <2>1 DEF Idle
<1>2. CASE next # NoRoute
  <2>1. state = fetching
    BY <1>2 DEF Returned
  <2>2. /\ fetching.used = next /\ fetching.failed = req[r].failed
        /\ fetching.at = "fetch" /\ fetching.fresh = (got # NoRoute)
        /\ fetching.attempt = IF req[r].goal = "retry" THEN 2 ELSE 1
    BY DEF RequestState
  <2> HIDE DEF fetching
  <2>3. state.attempt = 2 => state.used = current
    BY <2>1, <2>2
  <2> QED BY <2>1, <2>2, <2>3
<1> QED BY <1>1, <1>2

(* One request moves to a state that is not "prime", and the camera route  *)
(* stays: enough that what it used was handed out and that its retry, if   *)
(* it is one, is fresh.                                                    *)
LEMMA FreshMove ==
  ASSUME IInv, Freshness, NEW r \in Requests, NEW state \in RequestState,
         Becomes(r, state), UNCHANGED <<route, minted>>,
         state.at # "prime",
         state.used \in {NoRoute, route, req[r].used},
         state.failed \in {NoRoute, req[r].used, req[r].failed},
         state.attempt = 2 => state.at = "fetch",
         state.at = "wait" => state.stale = route,
         state.at = "fetch" /\ state.attempt = 2 /\ state.fresh =>
           state.used # state.failed
  PROVE  Freshness'
<1>1. \A q \in Requests : req'[q] = IF q = r THEN state ELSE req[q]
  BY DEF Becomes, IInv, RequestsTyped
<1>2. /\ route \in Nat /\ minted \in Nat
      /\ \A q \in Requests : req[q].at = "prime" => req[q].found \in 1..minted
  BY RoutesAssumption DEF IInv, FoundIsNew, RequestsTyped, Route
<1>3. FetchedOld'
  BY <1>1, <1>2 DEF Freshness, FetchedOld, IInv, HandedOut, NoRoute
<1>4. FoundIsUnused'
  BY <1>1, <1>2 DEF Freshness, FoundIsUnused, IInv, FoundIsNew, NoRoute
<1>5. RenewedIsSound' /\ RetryIsFresh'
  BY <1>1 DEF Freshness, RenewedIsSound, RetryIsFresh
<1> QED BY <1>3, <1>4, <1>5 DEF Freshness

(* Entering refresh_camera_route: what was used before is remembered, and  *)
(* a waiter has just read the camera route.                                *)
LEMMA FreshEnter ==
  ASSUME IInv, Freshness, NEW r \in Requests, NEW state \in RequestState,
         NEW why \in {"url", "retry"}, state.attempt = 1,
         state.used \in {NoRoute, req[r].used},
         state.failed \in {NoRoute, req[r].used},
         EnterRefresh(r, state, why), UNCHANGED <<route, minted>>
  PROVE  Freshness'
<1> DEFINE entered == [state EXCEPT !.stale = route, !.goal = why,
                                    !.found = NoRoute, !.fresh = FALSE,
                                    !.moved = FALSE]
           waiting == [entered EXCEPT !.at = "wait"]
           discovering == [entered EXCEPT !.at = "discover"]
<1>1. route \in Route /\ NoRoute \in Route
  BY RoutesAssumption DEF IInv, RequestsTyped, Route, NoRoute
<1>2. \A s \in {waiting, discovering} :
        /\ s \in RequestState /\ s.at \in {"wait", "discover"}
        /\ s.stale = route /\ s.attempt = 1
        /\ s.used = state.used /\ s.failed = state.failed
  BY <1>1 DEF RequestState, Place
<1>3. Becomes(r, waiting) \/ Becomes(r, discovering)
  BY Zenon DEF EnterRefresh
<1> HIDE DEF waiting, discovering
<1>4. PICK s \in {waiting, discovering} : Becomes(r, s)
  BY <1>3
<1>5. /\ s \in RequestState /\ s.at \in {"wait", "discover"}
      /\ s.stale = route /\ s.attempt = 1
      /\ s.used = state.used /\ s.failed = state.failed
  BY <1>2
<1> QED BY <1>4, <1>5, FreshMove

(* The camera route becomes one nobody has used: every waiter may take it. *)
LEMMA FreshRenew ==
  ASSUME IInv, IInv', Freshness, NEW r \in Requests,
         Adopt(r) \/ SeedCameraRoute
  PROVE  Freshness'
<1>0. /\ \A q \in Requests : req[q] \in RequestState
      /\ route \in Nat /\ minted \in Nat /\ minted' \in Nat
      /\ req' \in [Requests -> RequestState]
  BY RoutesAssumption DEF IInv, RequestsTyped, Route
<1>1. \A q \in Requests :
        LET n == Noticed(q) IN
          /\ n.at = req[q].at /\ n.used = req[q].used /\ n.failed = req[q].failed
          /\ n.attempt = req[q].attempt /\ n.found = req[q].found
          /\ n.fresh = req[q].fresh
  BY <1>0 DEF Noticed, RequestState
<1>2. CASE Adopt(r)
  <2> DEFINE new == req[r].found
             s == Returned(r, new, new)
  <2>1. /\ req[r].at = "prime" /\ route' = new /\ minted' = minted
        /\ \A q \in Requests : req'[q] = IF q = r THEN s ELSE Noticed(q)
    BY <1>2 DEF Adopt
  <2>2. /\ new \in 1..minted /\ new \in Route /\ req[r].attempt = 1
        /\ \A q \in Requests : req[q].used # new /\ req[q].failed # new
    BY <1>0, <2>1
    DEF IInv, FoundIsNew, RequestState, Freshness, FetchedOld, FoundIsUnused
  <2>3. /\ s.used \in {NoRoute, new} /\ s.failed \in {NoRoute, req[r].failed}
        /\ s.attempt = 2 => s.at = "fetch"
        /\ s.attempt = 2 /\ s.fresh => s.failed = req[r].failed /\ s.used = new
        /\ s.at \in {"idle", "fetch"}
    BY <1>0, <2>2, ReturnedFetch, ReturnedFacts
  <2>4. \A q \in Requests : req[q].at = "prime" => q = r
    BY <2>1 DEF IInv, OneDiscovery, Holding
  <2> HIDE DEF s, new
  <2>5. \A q \in Requests : req'[q].at # "prime"
    BY <1>1, <2>1, <2>3, <2>4
  <2>6. FetchedOld'
    BY <1>0, <1>1, <2>1, <2>2, <2>3 DEF Freshness, FetchedOld, NoRoute
  <2>7. RenewedIsSound'
    BY <1>1, <2>1, <2>2, <2>3 DEF RenewedIsSound
  <2>8. RetryIsFresh'
    BY <1>1, <2>1, <2>2, <2>3 DEF Freshness, RetryIsFresh
  <2> QED BY <2>5, <2>6, <2>7, <2>8 DEF Freshness, FoundIsUnused
<1>3. CASE SeedCameraRoute
  <2>1. /\ route' = minted + 1 /\ minted' = minted + 1
        /\ \A q \in Requests : req'[q] = Noticed(q)
    BY <1>3 DEF SeedCameraRoute
  <2>2. \A q \in Requests : req[q].used \in Nat /\ req[q].failed \in Nat
    BY <1>0, RoutesAssumption DEF RequestState, Route
  <2>3. FetchedOld' /\ RenewedIsSound'
    BY <1>0, <1>1, <2>1, <2>2 DEF Freshness, FetchedOld, RenewedIsSound
  <2>4. FoundIsUnused' /\ RetryIsFresh'
    BY <1>1, <2>1 DEF Freshness, FoundIsUnused, RetryIsFresh
  <2> QED BY <2>3, <2>4 DEF Freshness
<1> QED BY <1>2, <1>3

(* The routing frame's route is newer than any that was used. *)
LEMMA FreshDiscovered ==
  ASSUME IInv, Freshness, NEW r \in Requests, Discovered(r)
  PROVE  Freshness'
<1> DEFINE s == [req[r] EXCEPT !.at = "prime", !.found = minted + 1]
<1>1. /\ req[r].at = "discover" /\ minted' = minted + 1 /\ route' = route
      /\ Becomes(r, s) /\ minted \in Nat
      /\ \A q \in Requests : req[q] \in RequestState
  BY RoutesAssumption DEF Discovered, IInv, RequestsTyped, Route
<1>2. /\ s.at = "prime" /\ s.used = req[r].used /\ s.failed = req[r].failed
      /\ s.attempt = req[r].attempt /\ s.found = minted + 1
  BY <1>1 DEF RequestState
<1> HIDE DEF s
<1>3. \A q \in Requests : req'[q] = IF q = r THEN s ELSE req[q]
  BY <1>1 DEF Becomes, IInv, RequestsTyped
<1>4. \A q \in Requests : req[q].used \in Nat /\ req[q].failed \in Nat
  BY <1>1, RoutesAssumption DEF RequestState, Route
<1>5. FetchedOld'
  BY <1>1, <1>2, <1>3, <1>4 DEF Freshness, FetchedOld
<1>6. FoundIsUnused'
  BY <1>1, <1>2, <1>3, <1>4 DEF Freshness, FoundIsUnused, FetchedOld
<1>7. RenewedIsSound' /\ RetryIsFresh'
  BY <1>1, <1>2, <1>3 DEF Freshness, RenewedIsSound, RetryIsFresh
<1> QED BY <1>5, <1>6, <1>7 DEF Freshness

(* A refresh answers without renewing the route: with the one another      *)
(* request or a connect has set, or with none after a failed discovery.    *)
LEMMA FreshAnswer ==
  ASSUME IInv, Freshness, NEW r \in Requests, req[r].at \in {"wait", "discover"},
         NEW got \in Route, got = NoRoute \/ route # req[r].failed,
         Becomes(r, Returned(r, got, route)), UNCHANGED <<route, minted>>,
         got \in {NoRoute, route}
  PROVE  Freshness'
<1> DEFINE s == Returned(r, got, route)
<1>1. /\ req[r] \in RequestState /\ route \in Route /\ req[r].attempt = 1
  BY DEF IInv, RequestsTyped, RequestState, Freshness, FetchedOld
<1>2. /\ s \in RequestState /\ s.at \in {"idle", "fetch"}
      /\ s.used \in {NoRoute, route} /\ s.failed \in {NoRoute, req[r].failed}
      /\ s.attempt = 2 => s.at = "fetch"
      /\ s.attempt = 2 /\ s.fresh =>
           s.used = route /\ s.failed = req[r].failed /\ got # NoRoute
  BY <1>1, ReturnedFacts, ReturnedFetch
<1>3. Becomes(r, s)
  OBVIOUS
<1> HIDE DEF s
<1> QED BY <1>2, <1>3, FreshMove

(* Every step preserves it. *)
LEMMA FreshStep == IInv /\ IInv' /\ Freshness /\ [Next]_vars => Freshness'
<1> SUFFICES ASSUME IInv, IInv', Freshness, [Next]_vars PROVE Freshness'
  OBVIOUS
<1>1. /\ \A r \in Requests : req[r] \in RequestState
      /\ route \in Route /\ NoRoute \in Route
      /\ Idle \in RequestState /\ Idle.at = "idle" /\ Idle.attempt = 1
      /\ Idle.used = NoRoute /\ Idle.failed = NoRoute
  BY RoutesAssumption
  DEF IInv, RequestsTyped, Idle, RequestState, Place, Route, NoRoute
<1>2. ASSUME NEW r \in Requests, Request(r) PROVE Freshness'
  <2>1. CASE route # NoRoute
    <3> DEFINE s == [Idle EXCEPT !.at = "fetch", !.used = route]
    <3>1. /\ s \in RequestState /\ s.at = "fetch" /\ s.attempt = 1
          /\ s.used = route /\ s.failed = NoRoute
      BY <1>1 DEF RequestState, Place
    <3>2. Becomes(r, s) /\ UNCHANGED <<route, minted>>
      BY <1>2, <2>1 DEF Request
    <3> HIDE DEF s
    <3> QED BY <3>1, <3>2, FreshMove
  <2>2. CASE route = NoRoute
    <3>1. EnterRefresh(r, Idle, "url") /\ UNCHANGED <<route, minted>>
      BY <1>2, <2>2 DEF Request
    <3> QED BY <1>1, <3>1, FreshEnter
  <2> QED BY <2>1, <2>2
<1>3. ASSUME NEW r \in Requests, FetchSucceeds(r) \/ Abandon(r) PROVE Freshness'
  <2>1. Becomes(r, Idle) /\ UNCHANGED <<route, minted>>
    BY <1>3 DEF FetchSucceeds, Abandon
  <2> QED BY <1>1, <2>1, FreshMove
<1>4. ASSUME NEW r \in Requests, FetchFails(r) PROVE Freshness'
  <2>1. CASE req[r].attempt = 1
    <3> DEFINE s == [req[r] EXCEPT !.failed = req[r].used]
    <3>1. /\ s \in RequestState /\ s.attempt = 1
          /\ s.used = req[r].used /\ s.failed = req[r].used
      BY <1>1, <2>1 DEF RequestState
    <3>2. EnterRefresh(r, s, "retry") /\ UNCHANGED <<route, minted>>
      BY <1>4, <2>1 DEF FetchFails
    <3> HIDE DEF s
    <3> QED BY <3>1, <3>2, FreshEnter
  <2>2. CASE req[r].attempt # 1
    <3>1. Becomes(r, Idle) /\ UNCHANGED <<route, minted>>
      BY <1>4, <2>2 DEF FetchFails
    <3> QED BY <1>1, <3>1, FreshMove
  <2> QED BY <2>1, <2>2
<1>5. ASSUME NEW r \in Requests, Acquire(r) PROVE Freshness'
  <2>1. CASE AlreadyRefreshed(r)
    <3>1. /\ Becomes(r, Returned(r, route, route)) /\ UNCHANGED <<route, minted>>
          /\ req[r].at = "wait" /\ route # NoRoute /\ route # req[r].stale
      BY <1>5, <2>1 DEF Acquire, Granted, AlreadyRefreshed
    <3>2. route # req[r].failed
      BY <3>1 DEF Freshness, RenewedIsSound
    <3> QED BY <1>1, <3>1, <3>2, FreshAnswer
  <2>2. CASE ~AlreadyRefreshed(r)
    <3> DEFINE s == [req[r] EXCEPT !.at = "discover"]
    <3>1. /\ Becomes(r, s) /\ UNCHANGED <<route, minted>> /\ req[r].at = "wait"
      BY <1>5, <2>2 DEF Acquire, Granted
    <3>2. /\ s \in RequestState /\ s.at = "discover" /\ s.used = req[r].used
          /\ s.failed = req[r].failed /\ s.attempt = req[r].attempt
      BY <1>1 DEF RequestState, Place
    <3>3. s.attempt # 2
      BY <3>1, <3>2 DEF Freshness, FetchedOld
    <3> HIDE DEF s
    <3> QED BY <3>1, <3>2, <3>3, FreshMove
  <2> QED BY <2>1, <2>2
<1>6. ASSUME NEW r \in Requests, DiscoveryFails(r) PROVE Freshness'
  <2>1. /\ req[r].at = "discover" /\ Becomes(r, Returned(r, NoRoute, route))
        /\ UNCHANGED <<route, minted>>
    BY <1>6 DEF DiscoveryFails
  <2> QED BY <1>1, <2>1, FreshAnswer
<1>7. CASE SeedCameraRoute
  <2>1. CASE Requests = {}
    BY <2>1
    DEF Freshness, FetchedOld, FoundIsUnused, RenewedIsSound, RetryIsFresh
  <2>2. CASE Requests # {}
    BY <1>7, <2>2, FreshRenew
  <2> QED BY <2>1, <2>2
<1>8. CASE UNCHANGED vars
  BY <1>8
  DEF vars, Freshness, FetchedOld, FoundIsUnused, RenewedIsSound, RetryIsFresh
<1> QED
  BY <1>2, <1>3, <1>4, <1>5, <1>6, <1>7, <1>8, FreshRenew, FreshDiscovered
  DEF Next, Fetched, Answered

(* A second attempt that follows a successful refresh never repeats the    *)
(* route that failed, though the camera route is not monotone              *)
(* (camera.py:143-160, client.py:643-661).                                 *)
THEOREM RetriesAreFresh == Spec => []RetryIsFresh
<1>1. Init => Freshness
  <2>1. Idle.at = "idle" /\ Idle.used = 0 /\ Idle.failed = 0 /\ Idle.attempt = 1
    BY DEF Idle, NoRoute
  <2> QED
    BY <2>1
    DEF Init, Freshness, FetchedOld, FoundIsUnused, RenewedIsSound,
        RetryIsFresh, NoRoute
<1>2. Freshness => RetryIsFresh
  BY DEF Freshness
<1> QED BY <1>1, <1>2, FreshStep, Invariance, PTL DEF Spec
=============================================================================
