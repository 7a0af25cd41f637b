-------------------------- MODULE MCAgentRegistration -------------------------
(* One agent: two polls and a request of the owner, or one poll and two    *)
(* requests of the owner, who keeps looking at the agent.  `part` says     *)
(* which.                                                                  *)
EXTENDS AgentRegistration

CONSTANTS p1, p2, m2

VARIABLE part

MCVars == <<vars, part>>

MCInit == part \in {"polls", "requests"} /\ Init

MCNext ==
  /\ Next
  /\ part = "polls" => manager'[m2] = manager[m2]
  /\ part = "requests" => poll'[p2] = poll[p2]
  /\ UNCHANGED part

(* The fairness of the module, where the owner keeps looking.              *)
Moves(A) == part = "requests" /\ A /\ UNCHANGED part

MCFairness ==
  /\ WF_MCVars(Moves(TxExpires(p1)))
  /\ \A m \in Managers : SF_MCVars(Moves(ManagerStep(m))) /\ SF_MCVars(Moves(ManagerRead(m, "sync")))

MCSpec == MCInit /\ [][MCNext]_MCVars /\ MCFairness

(* The agent does not stay pending when its entry is settled for good: a   *)
(* sync puts right what a stale one wrote.                                 *)
AgentSettles == part = "requests" => PendingAgentSettles
==============================================================================
