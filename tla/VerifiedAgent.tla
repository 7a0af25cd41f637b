---------------------------- MODULE VerifiedAgent -----------------------------
(***************************************************************************)
(* What the verification of an agent promises: its endpoint proves itself  *)
(* before a credential is offered, a credential is accepted before a row   *)
(* is resolved, a row is resolved before the agent is VERIFIED, and that   *)
(* happens before it is announced.  Each of these is one step and none is  *)
(* undone.  AgentVerification implements it with requests that read, call  *)
(* other servers and write.                                                *)
(***************************************************************************)
CONSTANT Credentials    \* those asked for, each with a row of its own

VARIABLES there,     \* is the agent still there?
          proven,    \* has its endpoint ever served a secret of this service?
          offered,   \* credentials offered to the holder
          accepted,  \* those the holder has accepted
          resolved,  \* those whose row says ISSUED
          verified,  \* is the agent VERIFIED?
          announced  \* does the feed say so?

vars == <<there, proven, offered, accepted, resolved, verified, announced>>

Init ==
  /\ there = TRUE /\ proven = FALSE /\ verified = FALSE /\ announced = FALSE
  /\ offered = {} /\ accepted = {} /\ resolved = {}

Prove ==
  /\ ~proven /\ proven' = TRUE
  /\ UNCHANGED <<there, offered, accepted, resolved, verified, announced>>

Offer(c) ==
  /\ proven /\ c \notin offered
  /\ offered' = offered \cup {c}
  /\ UNCHANGED <<there, proven, accepted, resolved, verified, announced>>

Accept(c) ==
  /\ c \in offered \ accepted
  /\ accepted' = accepted \cup {c}
  /\ UNCHANGED <<there, proven, offered, resolved, verified, announced>>

(* The row of an agent that is gone may be resolved by any credential.     *)
Resolve(c) ==
  /\ c \in offered \ resolved
  /\ there => accepted # {}
  /\ resolved' = resolved \cup {c}
  /\ UNCHANGED <<there, proven, offered, accepted, verified, announced>>

Verify ==
  /\ there /\ ~verified /\ resolved # {}
  /\ verified' = TRUE
  /\ UNCHANGED <<there, proven, offered, accepted, resolved, announced>>

Announce ==
  /\ there /\ verified /\ ~announced
  /\ announced' = TRUE
  /\ UNCHANGED <<there, proven, offered, accepted, resolved, verified>>

Leave ==
  /\ there /\ there' = FALSE
  /\ UNCHANGED <<proven, offered, accepted, resolved, verified, announced>>

Next ==
  \/ Prove \/ Verify \/ Announce \/ Leave
  \/ \E c \in Credentials : Offer(c) \/ Accept(c) \/ Resolve(c)

Spec == Init /\ [][Next]_vars
==============================================================================
