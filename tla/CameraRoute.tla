---------------------------- MODULE CameraRoute ----------------------------
(***************************************************************************)
(* The camera route of the client (client.py, camera_base_url,             *)
(* refresh_camera_route, _seed_camera_route, _discover_camera_route) and   *)
(* the camera requests of Home Assistant that share it (camera.py, the two *)
(* attempts of async_camera_image and handle_async_mjpeg_stream).  Routes  *)
(* are numbered in the order the server hands them out.  Whether a route   *)
(* still works is the server's business: any fetch may fail.               *)
(***************************************************************************)
EXTENDS Naturals, Sequences

CONSTANTS
  Requests,   \* the camera requests that may be in progress at once
  MaxRoutes   \* bound: routes handed out in a behaviour

ASSUME RoutesAssumption == MaxRoutes \in Nat

NoRoute == 0
Route == 0..MaxRoutes

VARIABLES
  route,    \* self._camera_route
  minted,   \* the last route the server handed out
  queue,    \* requests waiting for self._camera_route_lock, in its order
  req       \* the progress of each request

vars == <<route, minted, queue, req>>

(* Where a request is:                                                     *)
(*   fetch    GET of the camera proxy in flight                            *)
(*   wait     queued for the lock                                          *)
(*   discover, prime   holding the lock: awaiting the routing frame, then  *)
(*            the routed page                                              *)
Place == {"idle", "fetch", "wait", "discover", "prime"}

(* A request: its attempt, whether it refreshes for want of a route        *)
(* ("url") or after a failure ("retry"), the route its URL was built from, *)
(* the one it read on entering refresh_camera_route, the one its discovery *)
(* was given; and three observations: the route its first attempt failed   *)
(* on, whether its refresh returned a route, whether the camera route was  *)
(* set while it waited.                                                    *)
RequestState ==
  [at : Place, attempt : {1, 2}, goal : {"url", "retry"},
   used : Route, stale : Route, found : Route,
   failed : Route, fresh : BOOLEAN, moved : BOOLEAN]

Idle == [at |-> "idle", attempt |-> 1, goal |-> "url",
         used |-> NoRoute, stale |-> NoRoute, found |-> NoRoute,
         failed |-> NoRoute, fresh |-> FALSE, moved |-> FALSE]

TypeOK ==
  /\ route \in Route /\ minted \in Route
  /\ queue \in Seq(Requests)
  /\ req \in [Requests -> RequestState]

Init ==
  /\ route = NoRoute /\ minted = NoRoute /\ queue = << >>
  /\ req = [r \in Requests |-> Idle]

Holding(r) == req[r].at \in {"discover", "prime"}

Locked == \E r \in Requests : Holding(r)

Becomes(r, state) == req' = [req EXCEPT ![r] = state]

(* refresh_camera_route, up to its first suspension: read the current      *)
(* route, then take the lock or queue for it.  A request that takes it at  *)
(* once still sees the route it has just read, so it discovers.            *)
EnterRefresh(r, state, why) ==
  LET entered == [state EXCEPT !.stale = route, !.goal = why,
                               !.found = NoRoute, !.fresh = FALSE,
                               !.moved = FALSE]
  IN  IF Locked \/ queue # << >>
      THEN /\ Becomes(r, [entered EXCEPT !.at = "wait"])
           /\ queue' = Append(queue, r)
      ELSE /\ Becomes(r, [entered EXCEPT !.at = "discover"])
           /\ queue' = queue

(* A snapshot or stream is asked for. *)
Request(r) ==
  /\ req[r].at = "idle"
  /\ IF route # NoRoute
     THEN /\ Becomes(r, [Idle EXCEPT !.at = "fetch", !.used = route])
          /\ queue' = queue
     ELSE EnterRefresh(r, Idle, "url")
  /\ UNCHANGED <<route, minted>>

FetchSucceeds(r) ==
  /\ req[r].at = "fetch"
  /\ Becomes(r, Idle)
  /\ UNCHANGED <<route, minted, queue>>

(* The first failure refreshes the route, the second gives up. *)
FetchFails(r) ==
  /\ req[r].at = "fetch"
  /\ IF req[r].attempt = 1
     THEN EnterRefresh(r, [req[r] EXCEPT !.failed = req[r].used], "retry")
     ELSE Becomes(r, Idle) /\ queue' = queue
  /\ UNCHANGED <<route, minted>>

(* refresh_camera_route returns got, with the camera route now current:    *)
(* camera_base_url uses what it returned; a retry asks camera_base_url,    *)
(* which answers with the current route.                                   *)
Returned(r, got, current) ==
  LET next == IF req[r].goal = "url" THEN got ELSE current
  IN  IF next = NoRoute THEN Idle
      ELSE [req[r] EXCEPT !.at = "fetch", !.used = next,
                          !.fresh = (got # NoRoute),
                          !.attempt = IF req[r].goal = "retry" THEN 2 ELSE @]

(* Fault: any known route is taken for a refreshed one. *)
AlreadyRefreshed_AnyRoute(r) == route # NoRoute

(* Fault: the route is not looked at again under the lock. *)
AlreadyRefreshed_Never(r) == FALSE

(* Another request, or a connect, has set a new route meanwhile. *)
AlreadyRefreshed(r) == route # NoRoute /\ route # req[r].stale

(* Fault: the lock is released before the routed page is read. *)
Granted_Early(r) ==
  /\ req[r].at = "wait" /\ Head(queue) = r
  /\ \A q \in Requests : req[q].at # "discover"

(* The lock is free and r is its first waiter. *)
Granted(r) == ~Locked /\ req[r].at = "wait" /\ Head(queue) = r

(* The lock is acquired; the check under it. *)
Acquire(r) ==
  /\ Granted(r)
  /\ queue' = Tail(queue)
  /\ IF AlreadyRefreshed(r)
     THEN Becomes(r, Returned(r, route, route))
     ELSE Becomes(r, [req[r] EXCEPT !.at = "discover"])
  /\ UNCHANGED <<route, minted>>

(* The routing frame of the throwaway discovery. *)
Discovered(r) ==
  /\ req[r].at = "discover" /\ minted < MaxRoutes
  /\ minted' = minted + 1
  /\ Becomes(r, [req[r] EXCEPT !.at = "prime", !.found = minted + 1])
  /\ UNCHANGED <<route, queue>>

(* Those waiting for the lock see the camera route change. *)
Noticed(q) == [req[q] EXCEPT !.moved = @ \/ req[q].at = "wait"]

(* The routed page was read, or failed, which is ignored: adopt the route  *)
(* and release the lock.                                                   *)
Adopt(r) ==
  /\ req[r].at = "prime"
  /\ route' = req[r].found
  /\ req' = [q \in Requests |->
               IF q = r THEN Returned(r, req[r].found, req[r].found)
               ELSE Noticed(q)]
  /\ UNCHANGED <<minted, queue>>

(* Offline, a wrong frame, a refused connection or the 30 s deadline. *)
DiscoveryFails(r) ==
  /\ req[r].at = "discover"
  /\ Becomes(r, Returned(r, NoRoute, route))
  /\ UNCHANGED <<route, minted, queue>>

(* Fault: a cancelled request leaves its place in the queue behind. *)
Abandon_KeepsPlace(r) ==
  /\ req[r].at # "idle"
  /\ Becomes(r, Idle)
  /\ UNCHANGED <<route, minted, queue>>

(* Home Assistant gives up on a request and cancels it: it leaves the      *)
(* queue or releases the lock.                                             *)
Abandon(r) ==
  /\ req[r].at # "idle"
  /\ Becomes(r, Idle)
  /\ queue' = SelectSeq(queue, LAMBDA q : q # r)
  /\ UNCHANGED <<route, minted>>

(* The client has (re)connected and adopts the route of its app socket.    *)
SeedCameraRoute ==
  /\ minted < MaxRoutes
  /\ minted' = minted + 1 /\ route' = minted + 1
  /\ req' = [q \in Requests |-> Noticed(q)]
  /\ UNCHANGED queue

Fetched(r) == FetchSucceeds(r) \/ FetchFails(r)

Answered(r) == Discovered(r) \/ DiscoveryFails(r)

Next ==
  \/ \E r \in Requests :
       \/ Request(r) \/ Fetched(r) \/ Acquire(r) \/ Answered(r) \/ Adopt(r)
       \/ Abandon(r)
  \/ SeedCameraRoute

Spec == Init /\ [][Next]_vars

(* Every await of a request has a deadline (camera.py:147, client.py:702,  *)
(* 719; a stream's open, camera.py:176, the session's own) or is the lock, *)
(* which wakes its first waiter when it is released.                       *)
Fairness ==
  \A r \in Requests :
    /\ WF_vars(Fetched(r)) /\ WF_vars(Acquire(r))
    /\ WF_vars(Answered(r)) /\ WF_vars(Adopt(r))

FairSpec == Spec /\ Fairness
-----------------------------------------------------------------------------
(* The throwaway discoveries of all cameras are serialised                 *)
(* (client.py:644), whoever is cancelled or fails, so that they never mint *)
(* routes against each other.                                              *)
OneDiscovery == \A r, q \in Requests : Holding(r) /\ Holding(q) => r = q

(* A request that waited for the lock while the camera route was renewed   *)
(* takes the new route and runs no discovery of its own                    *)
(* (client.py:645-648).                                                    *)
NoPileOn == \A r \in Requests : Holding(r) => ~req[r].moved

(* A second attempt that follows a successful refresh never uses the route *)
(* the first attempt failed on, whatever other requests and reconnects do  *)
(* to the shared route in between (camera.py:143-160, client.py:643-661).  *)
RetryIsFresh ==
  \A r \in Requests :
    req[r].at = "fetch" /\ req[r].attempt = 2 /\ req[r].fresh =>
      req[r].used # req[r].failed

(* Every camera request ends, whatever discovery, fetches and other        *)
(* requests do (camera.py:143-161).                                        *)
RequestsEnd == \A r \in Requests : req[r].at # "idle" ~> req[r].at = "idle"
=============================================================================
