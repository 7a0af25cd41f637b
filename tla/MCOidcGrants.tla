------------------------------ MODULE MCOidcGrants ------------------------------
(* The grants of a user: a webapp and a device with everything that may    *)
(* happen; two authorisations of the webapp, accepted one at a time; and   *)
(* the refreshes of tokens. `part` says which one moves.                   *)
EXTENDS OidcTokens, TLC

CONSTANTS f1, f2, s1, s2, s3

VARIABLE part

BothFlows == f1 :> "web" @@ f2 :> "device"
MoreScopes == {{s1}, {s2, s3}}

Consents == INSTANCE OidcGrants
              WITH Kind <- f1 :> "web" @@ f2 :> "web",
                   MaxAdmin <- 0, MaxRevokes <- 0, MaxFaults <- 0

MCInit == part \in {"grants", "consents", "refresh"} /\ Init /\ Refresh!Init

MCNext ==
  \/ part = "grants" /\ Next /\ UNCHANGED <<refreshVars, part>>
  \/ part = "consents" /\ Consents!Next /\ UNCHANGED <<refreshVars, part>>
  \/ part = "refresh" /\ Refresh!Next /\ UNCHANGED <<vars, part>>

MCFairness == part # "consents" \/ Consents!Fairness

MCSpec == MCInit /\ [][MCNext]_<<vars, refreshVars, part>> /\ MCFairness

(* A client that goes on polling gets a token for what was accepted.       *)
AcceptedGetsItsToken == part = "consents" => AcceptedGetsToken
==============================================================================
