---------------------------- MODULE CreditLedger -----------------------------
(***************************************************************************)
(* lib/credits/service.ts: the signup grant, the debit of a Mainnet write  *)
(* and its refund, as the statements of concurrent READ COMMITTED          *)
(* transactions on two tables.                                             *)
(*                                                                         *)
(* A statement that updates a user row waits for the transaction that      *)
(* holds the row, then works on the last committed version; a read sees    *)
(* committed data; the ledger's unique index (userId, reason, reference)   *)
(* is checked at the insert.  A transaction publishes its row version and  *)
(* its ledger entry at commit and may be lost before (crash, expiry).      *)
(***************************************************************************)
EXTENDS Integers, FiniteSets

CONSTANTS Users, Refs, Txs, None, INITIAL_CREDIT_GRANT

ASSUME CreditAssumption ==
  /\ IsFiniteSet(Refs)
  /\ None \notin Users \cup Refs \cup Txs
  /\ INITIAL_CREDIT_GRANT \in Nat

CREDIT_COST == 1

(* A ledger entry: the reason and reference are folded into a kind and the *)
(* reference of the debited request (the grant's is always "signup", a     *)
(* refund's is the debit's with ":refund" appended).                       *)
Kinds == {"grant", "debit", "refund"}
Entry == [kind : Kinds, ref : Refs \cup {None}, balanceAfter : Int]

Delta(kind) == CASE kind = "grant"  -> INITIAL_CREDIT_GRANT
                 [] kind = "debit"  -> -CREDIT_COST
                 [] kind = "refund" -> CREDIT_COST

VARIABLES creditsRemaining,  \* User.creditsRemaining, committed
          ledger,            \* committed CreditLedgerEntry rows of each user
          rowLock,           \* the transaction that updated the user row and is open
          tx                 \* the transactions

vars == <<creditsRemaining, ledger, rowLock, tx>>

PCs == {"idle", "grantFind", "grantRead", "grantUpdate", "debitUpdate",
        "refundFind", "refundDebit", "refundUpdate", "insert", "commit"}

IdleTx == [pc |-> "idle", kind |-> "grant", user |-> None, ref |-> None,
           version |-> 0, balanceAfter |-> 0]

Init ==
  /\ creditsRemaining = [u \in Users |-> 0]
  /\ ledger = [u \in Users |-> {}]
  /\ rowLock = [u \in Users |-> None]
  /\ tx = [t \in Txs |-> IdleTx]

HasEntry(u, kind, r) == \E e \in ledger[u] : e.kind = kind /\ e.ref = r

\* Mutant: the conditional update loses its "gte" filter.
CanPayUnchecked(u) == TRUE
CanPay(u) == creditsRemaining[u] >= CREDIT_COST
RowFree(u) == rowLock[u] = None
\* Mutant: the unique index on (userId, reason, reference) is missing.
NoUniqueIndex(t) == FALSE
UniqueViolation(t) == HasEntry(tx[t].user, tx[t].kind, tx[t].ref)

At(t, pc) == tx[t].pc = pc
Goto(t, pc) == tx' = [tx EXCEPT ![t].pc = pc]
Return(t) == tx' = [tx EXCEPT ![t] = IdleTx]

------------------------------------------------------------------------------
(* Callers.  References are fresh per request; a reference stands for one   *)
(* Mainnet request, since for any other network the service returns before *)
(* it opens a transaction.                                                 *)

Begin(t, u, kind, r, first) ==
  /\ At(t, "idle")
  /\ tx' = [tx EXCEPT ![t] = [pc |-> first, kind |-> kind, user |-> u, ref |-> r,
                              version |-> 0, balanceAfter |-> 0]]
  /\ UNCHANGED <<creditsRemaining, ledger, rowLock>>

GrantInitialCreditsIfNeeded(t, u) == Begin(t, u, "grant", None, "grantFind")
ConsumeCredit(t, u, r) == Begin(t, u, "debit", r, "debitUpdate")
RefundConsumedCredit(t, u, r) == Begin(t, u, "refund", r, "refundFind")

------------------------------------------------------------------------------
(* An update of the user row: wait for the row, increment what is committed *)
(* by then, and remember the balance the ledger entry will record.         *)
TakeRow(t, increment, balanceAfter) ==
  LET u == tx[t].user IN
  /\ RowFree(u)
  /\ rowLock' = [rowLock EXCEPT ![u] = t]
  /\ tx' = [tx EXCEPT ![t] = [pc |-> "insert", kind |-> tx[t].kind,
                              user |-> u, ref |-> tx[t].ref,
                              version |-> creditsRemaining[u] + increment,
                              balanceAfter |-> balanceAfter]]
  /\ UNCHANGED <<creditsRemaining, ledger>>

(* The grant reads the balance it will record before it takes the row.     *)

GrantFindExisting(t) ==
  /\ At(t, "grantFind")
  /\ IF HasEntry(tx[t].user, "grant", None) THEN Return(t) ELSE Goto(t, "grantRead")
  /\ UNCHANGED <<creditsRemaining, ledger, rowLock>>

\* Mutant: the ledger records the balance before the grant.
GrantRecordsOldBalance(t) ==
  /\ At(t, "grantRead")
  /\ tx' = [tx EXCEPT ![t].pc = "grantUpdate",
                      ![t].balanceAfter = creditsRemaining[tx[t].user]]
  /\ UNCHANGED <<creditsRemaining, ledger, rowLock>>

GrantReadBalance(t) ==
  /\ At(t, "grantRead")
  /\ tx' = [tx EXCEPT ![t].pc = "grantUpdate",
                      ![t].balanceAfter = creditsRemaining[tx[t].user]
                                          + INITIAL_CREDIT_GRANT]
  /\ UNCHANGED <<creditsRemaining, ledger, rowLock>>

GrantUpdateUser(t) ==
  /\ At(t, "grantUpdate")
  /\ TakeRow(t, INITIAL_CREDIT_GRANT, tx[t].balanceAfter)

(* The conditional decrement: only a row that can pay is updated.          *)
DebitUpdateUser(t) ==
  /\ At(t, "debitUpdate")
  /\ CanPay(tx[t].user)
  /\ TakeRow(t, -CREDIT_COST, creditsRemaining[tx[t].user] - CREDIT_COST)

(* No row qualifies: InsufficientCreditsError, whoever holds the row.      *)
DebitRefused(t) ==
  /\ At(t, "debitUpdate")
  /\ ~CanPay(tx[t].user)
  /\ Return(t)
  /\ UNCHANGED <<creditsRemaining, ledger, rowLock>>

RefundFindExisting(t) ==
  /\ At(t, "refundFind")
  /\ IF HasEntry(tx[t].user, "refund", tx[t].ref)
     THEN Return(t) ELSE Goto(t, "refundDebit")
  /\ UNCHANGED <<creditsRemaining, ledger, rowLock>>

\* Mutant: the refund does not look for the debit it gives back.
RefundWithoutDebit(t) ==
  /\ At(t, "refundDebit")
  /\ Goto(t, "refundUpdate")
  /\ UNCHANGED <<creditsRemaining, ledger, rowLock>>

RefundFindDebit(t) ==
  /\ At(t, "refundDebit")
  /\ IF HasEntry(tx[t].user, "debit", tx[t].ref)
     THEN Goto(t, "refundUpdate") ELSE Return(t)
  /\ UNCHANGED <<creditsRemaining, ledger, rowLock>>

RefundUpdateUser(t) ==
  /\ At(t, "refundUpdate")
  /\ TakeRow(t, CREDIT_COST, creditsRemaining[tx[t].user] + CREDIT_COST)

------------------------------------------------------------------------------
ReleaseRow(t) ==
  rowLock' = [u \in Users |-> IF rowLock[u] = t THEN None ELSE rowLock[u]]

(* P2002 rolls the transaction back: the grant and the refund take it for  *)
(* "already done", the debit throws it.                                    *)
InsertEntry(t) ==
  /\ At(t, "insert")
  /\ IF UniqueViolation(t)
     THEN Return(t) /\ ReleaseRow(t)
     ELSE Goto(t, "commit") /\ UNCHANGED rowLock
  /\ UNCHANGED <<creditsRemaining, ledger>>

Commit(t) ==
  LET u == tx[t].user IN
  /\ At(t, "commit")
  /\ creditsRemaining' = [creditsRemaining EXCEPT ![u] = tx[t].version]
  /\ ledger' = [ledger EXCEPT ![u] = @ \cup
       {[kind |-> tx[t].kind, ref |-> tx[t].ref, balanceAfter |-> tx[t].balanceAfter]}]
  /\ ReleaseRow(t)
  /\ Return(t)

(* The process dies, the connection drops or the transaction expires.      *)
Abort(t) ==
  /\ ~At(t, "idle")
  /\ ReleaseRow(t)
  /\ Return(t)
  /\ UNCHANGED <<creditsRemaining, ledger>>

Call(t) ==
  \E u \in Users :
    \/ GrantInitialCreditsIfNeeded(t, u)
    \/ \E r \in Refs : ConsumeCredit(t, u, r) \/ RefundConsumedCredit(t, u, r)

Step(t) ==
  \/ GrantFindExisting(t)  \/ GrantReadBalance(t) \/ GrantUpdateUser(t)
  \/ DebitUpdateUser(t)    \/ DebitRefused(t)
  \/ RefundFindExisting(t) \/ RefundFindDebit(t)  \/ RefundUpdateUser(t)
  \/ InsertEntry(t)        \/ Commit(t)

Next == \E t \in Txs : Call(t) \/ Step(t) \/ Abort(t)

Spec == Init /\ [][Next]_vars

------------------------------------------------------------------------------
(* Properties.                                                             *)

Tx == [pc : PCs, kind : Kinds, user : Users \cup {None}, ref : Refs \cup {None},
       version : Int, balanceAfter : Int]

(* Types of the two tables, the row locks and the transactions.            *)
TypeOK ==
  /\ creditsRemaining \in [Users -> Int]
  /\ ledger \in [Users -> SUBSET Entry]
  /\ rowLock \in [Users -> Txs \cup {None}]
  /\ tx \in [Txs -> Tx]
  /\ \A t \in Txs : ~At(t, "idle") => tx[t].user \in Users

RefsOf(u, kind) == {r \in Refs : HasEntry(u, kind, r)}
Granted(u) == HasEntry(u, "grant", None)

(* No interleaving of debits, refunds and grants overdraws an account: the *)
(* conditional decrement in consumeCreditOrThrow is the only guard.        *)
NeverOverdrawn == \A u \in Users : creditsRemaining[u] >= 0

(* The balance is what the committed ledger says: the grant, less a credit *)
(* per debited reference, plus one per refunded reference, although the    *)
(* user row and the ledger are written by different statements and the     *)
(* signup hooks, routes and refunds run concurrently.                      *)
LedgerExplainsBalance ==
  \A u \in Users :
    creditsRemaining[u] = (IF Granted(u) THEN INITIAL_CREDIT_GRANT ELSE 0)
                          - CREDIT_COST * Cardinality(RefsOf(u, "debit"))
                          + CREDIT_COST * Cardinality(RefsOf(u, "refund"))

(* A refund is only ever recorded for a reference that was debited.        *)
RefundsHaveDebits == \A u \in Users : RefsOf(u, "refund") \subseteq RefsOf(u, "debit")

(* The balanceAfter a transaction records is the balance its commit leaves *)
(* behind.  The grant computes it from a balance read before it takes the  *)
(* row, so this rests on the unique index and on no credit existing before *)
(* the grant.                                                              *)
BalanceAfterIsExact ==
  [][\A u \in Users : \A e \in ledger'[u] \ ledger[u] :
       e.balanceAfter = creditsRemaining'[u]]_vars

(* The refinement: the transactions implement the one-step account.        *)
Account == INSTANCE CreditAccount
             WITH granted   <- [u \in Users |-> Granted(u)],
                  spent     <- [u \in Users |-> RefsOf(u, "debit")],
                  refunded  <- [u \in Users |-> RefsOf(u, "refund")],
                  available <- creditsRemaining

(* Every step of the transactions is a step of the promised account or     *)
(* invisible to it: half-done, aborted and duplicate calls change nothing. *)
ImplementsAccount == Account!Spec

------------------------------------------------------------------------------
(* The inductive invariant behind the proofs (CreditLedger_proofs).        *)

LockHeldByWriters ==
  /\ \A t \in Txs : tx[t].pc \in {"insert", "commit"} => rowLock[tx[t].user] = t
  /\ \A u \in Users : rowLock[u] # None =>
       /\ tx[rowLock[u]].user = u
       /\ tx[rowLock[u]].pc \in {"insert", "commit"}

KindMatchesPC ==
  \A t \in Txs :
    /\ tx[t].pc \in {"grantFind", "grantRead", "grantUpdate"} => tx[t].kind = "grant"
    /\ At(t, "debitUpdate") => tx[t].kind = "debit"
    /\ tx[t].pc \in {"refundFind", "refundDebit", "refundUpdate"} => tx[t].kind = "refund"
    /\ ~At(t, "idle") => (tx[t].ref = None <=> tx[t].kind = "grant")

(* What an open transaction knows about the committed state it will replace. *)
PendingVersion ==
  \A t \in Txs :
    /\ tx[t].pc \in {"insert", "commit"} =>
         /\ tx[t].version = creditsRemaining[tx[t].user] + Delta(tx[t].kind)
         /\ tx[t].version >= 0
    /\ At(t, "commit") => ~HasEntry(tx[t].user, tx[t].kind, tx[t].ref)
    /\ tx[t].pc \in {"refundUpdate", "insert", "commit"} /\ tx[t].kind = "refund" =>
         HasEntry(tx[t].user, "debit", tx[t].ref)

(* Before the grant commits an account is empty, whoever has read it.      *)
PendingBalanceAfter ==
  \A t \in Txs :
    /\ tx[t].pc \in {"grantUpdate", "insert", "commit"} /\ tx[t].kind = "grant"
         /\ ~Granted(tx[t].user) => tx[t].balanceAfter = INITIAL_CREDIT_GRANT
    /\ tx[t].pc \in {"insert", "commit"} /\ tx[t].kind # "grant" =>
         tx[t].balanceAfter = tx[t].version

EntriesWellFormed ==
  \A u \in Users : \A e \in ledger[u] : e.ref = None <=> e.kind = "grant"

IInv ==
  /\ TypeOK
  /\ LockHeldByWriters
  /\ KindMatchesPC
  /\ PendingVersion
  /\ PendingBalanceAfter
  /\ EntriesWellFormed
  /\ NeverOverdrawn
  /\ RefundsHaveDebits
  /\ LedgerExplainsBalance
==============================================================================
