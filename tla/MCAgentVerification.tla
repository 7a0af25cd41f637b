------------------------- MODULE MCAgentVerification --------------------------
(* What a user shows that other services have confirmed. The verification  *)
(* of an agent, with its owner's KYC steady (two credentials, a fault, one *)
(* challenge) and changing (one credential, two challenges, and one change *)
(* of KYC, of the registration, or of the agent); and the KYC status of a  *)
(* user. `part` says which one moves.                                      *)
EXTENDS Verifications, TLC

CONSTANT i1

VARIABLE part

MCVars == <<vars, kycVars, part>>

Steady == INSTANCE AgentVerification WITH MaxSecrets <- 1
Changing == INSTANCE AgentVerification WITH Issues <- {i1}, MaxChanges <- 1

MCInit == part \in {"steady", "changing", "kyc"} /\ Init /\ Kyc!Init

AgentMoves(A) == A /\ UNCHANGED <<kycVars, part>>
KycMoves(A) == part = "kyc" /\ A /\ UNCHANGED <<vars, part>>

MCNext ==
  \/ part = "steady" /\ AgentMoves(Steady!Next)
  \/ part = "changing" /\ AgentMoves(Changing!Next)
  \/ KycMoves(Kyc!Next)

(* The fairness of the modules, of the part that moves.                    *)
MCFairness ==
  /\ part = "kyc" \/ Fairness
  /\ \A p \in Polls : WF_MCVars(KycMoves(Kyc!Poll(p)))
  /\ \A p \in Submits : /\ WF_MCVars(KycMoves(Kyc!SubmitWrite(p)))
                        /\ WF_MCVars(KycMoves(Kyc!SubmitReply(p)))
  /\ \A p \in Hooks : WF_MCVars(KycMoves(Kyc!HookStarts(p) \/ Kyc!HookWrite(p)))

MCSpec == MCInit /\ [][MCNext]_MCVars /\ MCFairness

(* REVIEW written over a final status does not last: once Sumsub has       *)
(* answered, the polls find the answer, even if every webhook is lost.     *)
AnswerIsFound == Kyc!AnswerIsFound
==============================================================================
