-------------------------- MODULE MCActivityBackfill --------------------------
(* Two feeds that are asked for in two processes at once; and the          *)
(* backfills of a feed that is asked for again and again, by the activity  *)
(* page and by the badge. `part` says which.                               *)
EXTENDS ActivityBackfill

CONSTANTS f1, f2, s1

VARIABLE part

Again == INSTANCE ActivityBackfill
           WITH Feeds <- {f1}, Polls <- {f2}, Servers <- {s1},
                MaxChanges <- 2, MaxFaults <- 1

MCInit == part \in {"at once", "again"} /\ Init

MCNext ==
  \/ part = "at once" /\ Next /\ UNCHANGED part
  \/ part = "again" /\ Again!Next /\ UNCHANGED part

MCFairness ==
  \/ part = "at once"
  \/ part = "again" /\ Again!Fairness

MCSpec == MCInit /\ [][MCNext]_<<vars, part>> /\ MCFairness

(* A verified agent's verification reaches the feed that is asked again,   *)
(* although the event was lost or is older than the events; an agent that  *)
(* is older than the events gets one for its state, if there is one.       *)
EventsShown == part = "again" => VerifiedIsShown /\ OldAgentsShown
==============================================================================
