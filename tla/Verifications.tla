---------------------------- MODULE Verifications -----------------------------
(* What a user shows that others have confirmed: the verification of an    *)
(* agent (AgentVerification), and beside it the KYC status of its owner    *)
(* (KycStatus), on which it depends only as on a value that may change.    *)
EXTENDS AgentVerification

CONSTANTS Submits, Polls, Hooks, MaxAnswers, MaxSubmits, MaxKycFaults

VARIABLES answers, open, webhooks, link, status, kycReq, submits, kycFaults

kycVars == <<answers, open, webhooks, link, status, kycReq, submits, kycFaults>>

Kyc == INSTANCE KycStatus
         WITH MaxFaults <- MaxKycFaults, req <- kycReq, faults <- kycFaults

ASSUME KycAssumption == Kyc!KycAssumption

(* Whatever order submissions, polls and webhooks are applied in, a user   *)
(* is never approved, or rejected, before Sumsub has said so.              *)
KycInvariant == Kyc!KycInvariant
==============================================================================
