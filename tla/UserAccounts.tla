----------------------------- MODULE UserAccounts -----------------------------
(* What a user has from signup on: credits (CreditLedger), and beside them *)
(* a key to the payment node (PaymentNodeKeys).                            *)
EXTENDS CreditLedger

CONSTANTS Requests, Old, Funding, Faulty

VARIABLES userKey, scopes, enabled, refs, req

keyVars == <<userKey, scopes, enabled, refs, req>>

NodeKeys == INSTANCE PaymentNodeKeys

ASSUME KeysAssumption == NodeKeys!KeysAssumption

(* No update of a key's scopes gives it a funding wallet it did not have.  *)
FundingNeverAdded == NodeKeys!FundingNeverAdded

(* A registration that nothing overlapped leaves the key it uses scoped to *)
(* its own wallet and to every wallet of an existing reference.            *)
RegistrationRepairs == NodeKeys!RegistrationRepairs
==============================================================================
