-------------------------- MODULE MCRegistrationPolls --------------------------
(* What a browser asks for again and again: the registrations it waits     *)
(* for, with two users of one tab and with two agents of one user, the     *)
(* badge of new transactions, with both lists and with one, and the pages  *)
(* of the activity feed. `part` says which one moves; the backfills are in *)
(* MCActivityBackfill.                                                     *)
EXTENDS Browser, TLC

CONSTANTS u1, u2, a1, a2, b1

VARIABLE part

TwoOwners == a1 :> u1 @@ a2 :> u1 @@ b1 :> u2

TwoUsers == INSTANCE RegistrationPolls WITH MaxFaults <- 0, MaxReloads <- 0, faults <- tabFaults
OneUser == INSTANCE RegistrationPolls
             WITH MaxSessions <- 1, faults <- tabFaults
OneList == INSTANCE TransactionBadge
             WITH MaxDashboards <- 1, MaxActivities <- 0,
                  seeded <- counting, faults <- badgeFaults

(* Six items, pages of two: one list is longer than what is asked for, and *)
(* the feed is shorter than the lists together.                            *)
LifecycleItems == {1, 5}
PaymentItems == {2, 4, 6}
PurchaseItems == {3}
LateItems == {1, 3}

MCInit ==
  /\ part \in {"two users", "one user", "badge", "one list", "feed"}
  /\ Init /\ Tab!Init /\ Badge!Init /\ Pages!Init
  /\ \A a \in Agents : ~agent[a].verified
  /\ part # "feed" => item = [i \in Pages!Items |-> "absent"]

TabMoves(A) == A /\ UNCHANGED <<vars, badgeVars, feedVars, part>>
BadgeMoves(A) == A /\ UNCHANGED <<vars, tabVars, feedVars, part>>
FeedMoves(A) == A /\ UNCHANGED <<vars, tabVars, badgeVars, part>>

(* Of two users one agent each is submitted, of one user two; the one user *)
(* stays (of one who leaves WaitIsReported claims nothing).                *)
MCNext ==
  \/ part = "two users" /\ TabMoves(TwoUsers!Next) /\ status'[a2] = "none"
  \/ part = "one user" /\ TabMoves(OneUser!Next) /\ status'[b1] = "none"
     /\ (session # None => session' = session)
  \/ part = "badge" /\ BadgeMoves(Badge!Next)
  \/ part = "one list" /\ BadgeMoves(OneList!Next) /\ \A t \in Purchases : created'[t] = 0
  \/ part = "feed" /\ FeedMoves(Pages!Next)

MCVars == <<vars, tabVars, badgeVars, feedVars, part>>

(* The fairness of the modules, of the part that moves.                    *)
MCFairness ==
  /\ WF_MCVars(part = "one user" /\ TabMoves(OneUser!TickStarts))
  /\ WF_MCVars(part = "one user" /\ TabMoves(OneUser!Calls))
  /\ WF_MCVars(part = "one user" /\ TabMoves(OneUser!TickEnds))
  /\ WF_MCVars(part = "one user" /\ TabMoves(OneUser!SessionShown))
  /\ WF_MCVars(part = "one list" /\ BadgeMoves(OneList!Polling))

MCSpec == MCInit /\ [][MCNext]_MCVars /\ MCFairness

(* An agent the browser waits for is reported, or given up with a report,  *)
(* as long as its owner stays: the agents of the one user.                 *)
WaitIsReported == part = "one user" => \A a \in {a1, a2} : OneUser!IsReported(a)

(* Polls that keep coming deliver every change after the first answer: of  *)
(* the one list.                                                           *)
ChangesArrive == part = "one list" => \A t \in Payments \ Hidden : OneList!ChangeArrives(t)
==============================================================================
