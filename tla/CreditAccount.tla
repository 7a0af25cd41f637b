---------------------------- MODULE CreditAccount ----------------------------
(***************************************************************************)
(* What the credit service promises to its callers: an account that is     *)
(* granted once, debited at most once per reference and never below zero,  *)
(* and given back at most once per debit.  Each operation is one step.     *)
(* CreditLedger implements it with interleaved database transactions.      *)
(***************************************************************************)
EXTENDS Integers, FiniteSets

CONSTANTS Users, Refs, INITIAL_CREDIT_GRANT

CREDIT_COST == 1

VARIABLES granted,    \* has the user received the signup grant?
          spent,      \* references the user was charged for
          refunded,   \* references the user got the charge back for
          available   \* the balance the user may still spend

accountVars == <<granted, spent, refunded, available>>

Init ==
  /\ granted = [u \in Users |-> FALSE]
  /\ spent = [u \in Users |-> {}]
  /\ refunded = [u \in Users |-> {}]
  /\ available = [u \in Users |-> 0]

Grant(u) ==
  /\ ~granted[u]
  /\ granted' = [granted EXCEPT ![u] = TRUE]
  /\ available' = [available EXCEPT ![u] = @ + INITIAL_CREDIT_GRANT]
  /\ UNCHANGED <<spent, refunded>>

Spend(u, r) ==
  /\ r \notin spent[u]
  /\ available[u] >= CREDIT_COST
  /\ spent' = [spent EXCEPT ![u] = @ \cup {r}]
  /\ available' = [available EXCEPT ![u] = @ - CREDIT_COST]
  /\ UNCHANGED <<granted, refunded>>

Refund(u, r) ==
  /\ r \in spent[u] \ refunded[u]
  /\ refunded' = [refunded EXCEPT ![u] = @ \cup {r}]
  /\ available' = [available EXCEPT ![u] = @ + CREDIT_COST]
  /\ UNCHANGED <<granted, spent>>

Next == \E u \in Users : \/ Grant(u)
                         \/ \E r \in Refs : Spend(u, r) \/ Refund(u, r)

Spec == Init /\ [][Next]_accountVars
==============================================================================
