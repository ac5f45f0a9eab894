------------------------ MODULE ConnectionLifecycle ------------------------
(***************************************************************************)
(* What run() and aclose() of the live client promise together, without    *)
(* sockets, phases or tasks: connections are served one at a time, each is *)
(* torn down in full before the next attempt, a close request lets the     *)
(* attempt in flight end but starts no other, and nothing is held once     *)
(* run() has ended.                                                        *)
(***************************************************************************)

VARIABLES
  link,      \* what the run task is doing about a connection
  stopping,  \* a close has been requested
  held       \* a socket is not closed, or a task of a connection is alive

vars == <<link, stopping, held>>

Link == {"idle", "dialing", "serving", "draining", "ended"}

Init == link = "idle" /\ stopping = FALSE /\ held = FALSE

(* An attempt starts with nothing left of the one before. *)
Dial ==
  /\ link = "idle" /\ ~stopping /\ ~held
  /\ link' = "dialing"
  /\ UNCHANGED <<stopping, held>>

(* While dialing, sockets come and go. *)
Handshake ==
  /\ link = "dialing"
  /\ held' \in BOOLEAN
  /\ UNCHANGED <<link, stopping>>

(* The application socket is up; it may be refused at once. *)
Establish ==
  /\ link = "dialing"
  /\ link' \in {"serving", "draining"} /\ held' = TRUE
  /\ UNCHANGED stopping

Drain ==
  /\ link = "serving"
  /\ link' = "draining" /\ held' \in BOOLEAN
  /\ UNCHANGED stopping

(* An established connection only ever lets go: its socket is closed under *)
(* the reader, its tasks end.                                              *)
Release ==
  /\ link \in {"serving", "draining"} /\ held
  /\ held' = FALSE
  /\ UNCHANGED <<link, stopping>>

(* The attempt is over and nothing is held: wait for the next. *)
Settle ==
  /\ link \in {"dialing", "draining"} /\ ~stopping
  /\ link' = "idle" /\ held' = FALSE
  /\ UNCHANGED stopping

(* A close request or a cancellation ends the run task, between            *)
(* connections.                                                            *)
End ==
  /\ link \in {"idle", "dialing", "draining"}
  /\ link' = "ended" /\ held' = FALSE
  /\ UNCHANGED stopping

(* The request may come at any time, and may itself let go of what is      *)
(* being drained.                                                          *)
RequestStop ==
  /\ stopping' = TRUE
  /\ \/ held' = held
     \/ link = "draining" /\ held' = FALSE
  /\ UNCHANGED link

Next == \/ Dial \/ Handshake \/ Establish \/ Drain \/ Release \/ Settle
        \/ End \/ RequestStop

Spec == Init /\ [][Next]_vars

(* A requested stop is carried out. *)
StopEnds == stopping ~> link = "ended"
=============================================================================
