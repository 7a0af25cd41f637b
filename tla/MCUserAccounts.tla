---------------------------- MODULE MCUserAccounts ----------------------------
(* What the requests of a user write for good: the credit ledger, and the  *)
(* key to the payment node. `part` says which one moves.                   *)
EXTENDS UserAccounts, TLC

VARIABLE part

(* The keys start in one of their states where they rest.                  *)
MCInit ==
  /\ part \in {"credits", "keys"}
  /\ Init /\ NodeKeys!Init
  /\ part = "credits" => userKey = None /\ enabled = Requests /\ refs = {}

(* Requests for keys may all be answered; the ledger, whose transactions   *)
(* wait for each other, is checked for deadlock.                           *)
Rests == part = "keys" /\ UNCHANGED <<vars, keyVars, part>>

MCNext ==
  \/ part = "credits" /\ Next /\ UNCHANGED <<keyVars, part>>
  \/ part = "keys" /\ NodeKeys!Next /\ UNCHANGED <<vars, part>>
  \/ Rests

MCSpec == MCInit /\ [][MCNext]_<<vars, keyVars, part>>

(* The transactions of the ledger are interchangeable, and so are requests *)
(* for the key.                                                            *)
Symmetry == Permutations(Txs) \cup Permutations(Requests)
==============================================================================
