-------------------------- MODULE UserAccounts_proofs -------------------------
(***************************************************************************)
(* Proofs about CreditLedger, for any number of users, references and      *)
(* transactions: its types and inductive invariant, that no account is     *)
(* overdrawn, that ledger and balance agree, and that it implements the    *)
(* account of CreditAccount.  And about PaymentNodeKeys, for every set of  *)
(* requests and of funding wallets: its types, that no key is ever given a *)
(* funding wallet, and that a registration nothing overlaps repairs what   *)
(* races have lost.                                                        *)
(***************************************************************************)
EXTENDS UserAccounts, FiniteSetTheorems, TLAPS

(* What IInv says of the two tables alone.                                 *)
TablesAgree ==
  EntriesWellFormed /\ NeverOverdrawn /\ RefundsHaveDebits /\ LedgerExplainsBalance

LEMMA InitIInv == Init => IInv
<1> SUFFICES ASSUME Init PROVE IInv
  OBVIOUS
<1> USE CreditAssumption DEF Init, IdleTx, At
<1>1. TypeOK
  BY DEF TypeOK, Tx, PCs, Kinds
<1>2. /\ LockHeldByWriters /\ KindMatchesPC /\ PendingVersion
      /\ PendingBalanceAfter /\ EntriesWellFormed /\ NeverOverdrawn
  BY DEF LockHeldByWriters, KindMatchesPC, PendingVersion, PendingBalanceAfter,
         EntriesWellFormed, NeverOverdrawn
<1>3. \A u \in Users : RefsOf(u, "debit") = {} /\ RefsOf(u, "refund") = {} /\ ~Granted(u)
  BY DEF RefsOf, Granted, HasEntry
<1>4. RefundsHaveDebits /\ LedgerExplainsBalance
  BY <1>3, FS_EmptySet DEF RefundsHaveDebits, LedgerExplainsBalance, CREDIT_COST
<1>5. QED
  BY <1>1, <1>2, <1>4 DEF IInv

(* A step that writes no table keeps what the tables say of each other.    *)
LEMMA TablesUnchanged ==
  ASSUME TablesAgree, UNCHANGED <<creditsRemaining, ledger>>
  PROVE  TablesAgree' /\ \A u, k, r : HasEntry(u, k, r)' = HasEntry(u, k, r)
<1>1. \A u, k, r : HasEntry(u, k, r)' = HasEntry(u, k, r)
  BY DEF HasEntry
<1>2. \A u, k : RefsOf(u, k)' = RefsOf(u, k) /\ Granted(u)' = Granted(u)
  BY <1>1 DEF RefsOf, Granted
<1>3. QED
  BY <1>1, <1>2 DEF TablesAgree, EntriesWellFormed, NeverOverdrawn,
     RefundsHaveDebits, LedgerExplainsBalance

(* No user has credits before the grant: there is nothing to debit.        *)
LEMMA EmptyBeforeGrant ==
  ASSUME TypeOK, TablesAgree, NEW u \in Users, ~Granted(u)
  PROVE  creditsRemaining[u] = 0
<1>1. /\ IsFiniteSet(RefsOf(u, "debit"))
      /\ Cardinality(RefsOf(u, "refund")) <= Cardinality(RefsOf(u, "debit"))
      /\ Cardinality(RefsOf(u, "debit")) \in Nat
      /\ Cardinality(RefsOf(u, "refund")) \in Nat
  <2>1. IsFiniteSet(RefsOf(u, "debit"))
    BY CreditAssumption, FS_Subset DEF RefsOf
  <2>2. RefsOf(u, "refund") \in SUBSET RefsOf(u, "debit")
    BY DEF TablesAgree, RefundsHaveDebits
  <2>3. /\ IsFiniteSet(RefsOf(u, "refund"))
        /\ Cardinality(RefsOf(u, "refund")) <= Cardinality(RefsOf(u, "debit"))
    BY <2>1, <2>2, FS_Subset
  <2>4. QED
    BY <2>1, <2>3, FS_CardinalityType
<1>2. creditsRemaining[u] \in Int /\ creditsRemaining[u] >= 0
  BY DEF TypeOK, TablesAgree, NeverOverdrawn
<1>3. creditsRemaining[u] = - Cardinality(RefsOf(u, "debit"))
                            + Cardinality(RefsOf(u, "refund"))
  BY <1>1 DEF TablesAgree, LedgerExplainsBalance, CREDIT_COST
<1>4. QED
  BY <1>1, <1>2, <1>3

(* A transaction that only moves on or starts, without touching a row lock.*)
LEMMA BeginKeepsIInv ==
  ASSUME IInv, NEW t \in Txs, Call(t)
  PROVE  IInv'
<1>1. PICK u \in Users, kind \in Kinds, r \in Refs \cup {None},
           first \in {"grantFind", "debitUpdate", "refundFind"} :
        /\ Begin(t, u, kind, r, first)
        /\ r = None <=> kind = "grant"
        /\ first = "grantFind" <=> kind = "grant"
        /\ first = "debitUpdate" <=> kind = "debit"
        /\ first = "refundFind" <=> kind = "refund"
  BY CreditAssumption DEF Call, GrantInitialCreditsIfNeeded, ConsumeCredit,
     RefundConsumedCredit, Kinds
<1>2. TablesAgree' /\ \A v, k, x : HasEntry(v, k, x)' = HasEntry(v, k, x)
  BY <1>1, TablesUnchanged DEF IInv, TablesAgree, Begin
<1> USE <1>1, CreditAssumption DEF Begin, At, IdleTx
<1>3. TypeOK'
  BY DEF IInv, TypeOK, Tx, PCs, Kinds
<1>4. LockHeldByWriters'
  BY DEF IInv, TypeOK, LockHeldByWriters
<1>5. KindMatchesPC'
  BY DEF IInv, TypeOK, Tx, KindMatchesPC
<1>6. PendingVersion'
  BY <1>2 DEF IInv, TypeOK, Tx, PendingVersion
<1>7. PendingBalanceAfter'
  BY <1>2 DEF IInv, TypeOK, Tx, PendingBalanceAfter, Granted
<1>8. QED
  BY <1>2, <1>3, <1>4, <1>5, <1>6, <1>7 DEF IInv, TablesAgree

(* A transaction that reads, or takes the row: no table changes yet.       *)
LEMMA ReadKeepsIInv ==
  ASSUME IInv, NEW t \in Txs,
         \/ GrantFindExisting(t) \/ GrantReadBalance(t)
         \/ DebitRefused(t) \/ RefundFindExisting(t) \/ RefundFindDebit(t)
  PROVE  IInv'
<1> USE CreditAssumption DEF At, Goto, Return, IdleTx
<1>1. TablesAgree' /\ \A v, k, x : HasEntry(v, k, x)' = HasEntry(v, k, x)
  BY TablesUnchanged DEF IInv, TablesAgree, GrantFindExisting, GrantReadBalance,
     DebitRefused, RefundFindExisting, RefundFindDebit
<1>2. tx[t] \in Tx /\ tx[t].user \in Users /\ rowLock' = rowLock
      /\ creditsRemaining' = creditsRemaining /\ ledger' = ledger
      /\ tx[t].pc \notin {"insert", "commit"}
  BY DEF IInv, TypeOK, GrantFindExisting, GrantReadBalance, DebitRefused,
     RefundFindExisting, RefundFindDebit
<1>3. \/ tx' = [tx EXCEPT ![t] = IdleTx]
      \/ tx[t].pc = "grantFind" /\ tx' = [tx EXCEPT ![t].pc = "grantRead"]
      \/ /\ tx[t].pc = "grantRead"
         /\ tx' = [tx EXCEPT ![t].pc = "grantUpdate",
                      ![t].balanceAfter = creditsRemaining[tx[t].user]
                                          + INITIAL_CREDIT_GRANT]
      \/ tx[t].pc = "refundFind" /\ tx' = [tx EXCEPT ![t].pc = "refundDebit"]
      \/ /\ tx[t].pc = "refundDebit" /\ HasEntry(tx[t].user, "debit", tx[t].ref)
         /\ tx' = [tx EXCEPT ![t].pc = "refundUpdate"]
  BY DEF GrantFindExisting, GrantReadBalance, DebitRefused, RefundFindExisting,
     RefundFindDebit
<1>4. TypeOK'
  BY <1>2, <1>3 DEF IInv, TypeOK, Tx, PCs, Kinds
<1>5. /\ \A s \in Txs \ {t} : tx'[s] = tx[s]
      /\ tx'[t].pc \notin {"insert", "commit"}
  BY <1>2, <1>3 DEF IInv, TypeOK, Tx
<1>6. LockHeldByWriters'
  BY <1>2, <1>5 DEF IInv, TypeOK, LockHeldByWriters
<1>7. KindMatchesPC'
  <2>1. /\ tx'[t].pc \in {"grantFind", "grantRead", "grantUpdate"} => tx'[t].kind = "grant"
        /\ tx'[t].pc = "debitUpdate" => tx'[t].kind = "debit"
        /\ tx'[t].pc \in {"refundFind", "refundDebit", "refundUpdate"}
              => tx'[t].kind = "refund"
        /\ tx'[t].pc # "idle" => (tx'[t].ref = None <=> tx'[t].kind = "grant")
    BY <1>2, <1>3 DEF IInv, TypeOK, Tx, KindMatchesPC
  <2>2. QED
    BY <1>5, <2>1 DEF IInv, KindMatchesPC
<1>8. PendingVersion'
  <2>1. tx'[t].pc = "refundUpdate" => HasEntry(tx'[t].user, "debit", tx'[t].ref)
    BY <1>2, <1>3 DEF IInv, TypeOK, Tx, KindMatchesPC, PendingVersion
  <2>2. QED
    BY <1>1, <1>2, <1>5, <2>1 DEF IInv, PendingVersion
<1>9. PendingBalanceAfter'
  <2>1. ~Granted(tx[t].user) => creditsRemaining[tx[t].user] = 0
    BY <1>2, EmptyBeforeGrant DEF IInv, TablesAgree
  <2>2. tx'[t].pc = "grantUpdate" /\ ~Granted(tx'[t].user)
          => tx'[t].balanceAfter = INITIAL_CREDIT_GRANT
    BY <1>2, <1>3, <2>1 DEF IInv, TypeOK, Tx
  <2>3. QED
    BY <1>1, <1>2, <1>5, <2>2 DEF IInv, PendingBalanceAfter, Granted
<1>10. QED
  BY <1>1, <1>4, <1>6, <1>7, <1>8, <1>9 DEF IInv, TablesAgree

(* A transaction that takes the row of its user.                           *)
LEMMA UpdateKeepsIInv ==
  ASSUME IInv, NEW t \in Txs,
         GrantUpdateUser(t) \/ DebitUpdateUser(t) \/ RefundUpdateUser(t)
  PROVE  IInv'
<1> DEFINE u == tx[t].user
<1> USE CreditAssumption DEF At, RowFree, CanPay
<1>1. TablesAgree' /\ \A v, k, x : HasEntry(v, k, x)' = HasEntry(v, k, x)
  BY TablesUnchanged DEF IInv, TablesAgree, GrantUpdateUser, DebitUpdateUser,
     RefundUpdateUser, TakeRow
<1>2. /\ tx[t] \in Tx /\ u \in Users
      /\ rowLock[u] = None /\ rowLock' = [rowLock EXCEPT ![u] = t]
      /\ creditsRemaining' = creditsRemaining /\ ledger' = ledger
      /\ tx[t].pc \in {"grantUpdate", "debitUpdate", "refundUpdate"}
  BY DEF IInv, TypeOK, GrantUpdateUser, DebitUpdateUser, RefundUpdateUser,
     TakeRow
<1>3. \A s \in Txs \ {t} : tx'[s] = tx[s]
  BY DEF IInv, TypeOK, GrantUpdateUser, DebitUpdateUser, RefundUpdateUser,
     TakeRow
<1>4. /\ tx'[t].pc = "insert" /\ tx'[t].user = u
      /\ tx'[t].ref = tx[t].ref /\ tx'[t].kind = tx[t].kind
      /\ tx'[t] \in Tx
      /\ tx'[t].version = creditsRemaining[u] + Delta(tx[t].kind)
      /\ tx'[t].kind # "grant" => tx'[t].balanceAfter = tx'[t].version
      /\ tx'[t].kind = "grant" => tx'[t].balanceAfter = tx[t].balanceAfter
      /\ tx'[t].kind = "debit" => creditsRemaining[u] >= CREDIT_COST
  <2>1. creditsRemaining[u] \in Int
    BY <1>2 DEF IInv, TypeOK
  <2>2. CASE GrantUpdateUser(t)
    BY <1>2, <2>1, <2>2 DEF IInv, TypeOK, Tx, PCs, GrantUpdateUser, TakeRow,
       KindMatchesPC, Delta
  <2>3. CASE DebitUpdateUser(t)
    BY <1>2, <2>1, <2>3 DEF IInv, TypeOK, Tx, PCs, DebitUpdateUser, TakeRow,
       KindMatchesPC, Delta, CREDIT_COST
  <2>4. CASE RefundUpdateUser(t)
    BY <1>2, <2>1, <2>4 DEF IInv, TypeOK, Tx, PCs, RefundUpdateUser, TakeRow,
       KindMatchesPC, Delta, CREDIT_COST
  <2>5. QED
    BY <2>2, <2>3, <2>4
<1>5. TypeOK'
  <2>1. tx' \in [Txs -> Tx]
    <3>1. DOMAIN tx' = Txs /\ tx' = [s \in Txs |-> tx'[s]]
      BY DEF IInv, TypeOK, GrantUpdateUser, DebitUpdateUser, RefundUpdateUser,
     TakeRow
    <3>2. QED
      BY <1>3, <1>4, <3>1 DEF IInv, TypeOK
  <2>2. QED
    BY <1>2, <1>3, <1>4, <2>1 DEF IInv, TypeOK
<1>6. LockHeldByWriters'
  BY <1>2, <1>3, <1>4 DEF IInv, TypeOK, LockHeldByWriters
<1>7. KindMatchesPC'
  BY <1>2, <1>3, <1>4 DEF IInv, KindMatchesPC
<1>8. PendingVersion'
  <2>1. tx'[t].version >= 0
    BY <1>2, <1>4 DEF IInv, TypeOK, Tx, Kinds, NeverOverdrawn, Delta, CREDIT_COST
  <2>2. tx[t].kind = "refund" => HasEntry(u, "debit", tx[t].ref)
    BY <1>2 DEF IInv, PendingVersion, KindMatchesPC
  <2>3. QED
    BY <1>1, <1>2, <1>3, <1>4, <2>1, <2>2 DEF IInv, PendingVersion
<1>9. PendingBalanceAfter'
  BY <1>1, <1>2, <1>3, <1>4 DEF IInv, PendingBalanceAfter, KindMatchesPC, Granted
<1>10. QED
  BY <1>1, <1>5, <1>6, <1>7, <1>8, <1>9 DEF IInv, TablesAgree

(* A transaction that ends without a trace: it gives its row back.         *)
LEMMA RollbackKeepsIInv ==
  ASSUME IInv, NEW t \in Txs, Return(t), ReleaseRow(t),
         UNCHANGED <<creditsRemaining, ledger>>
  PROVE  IInv'
<1> USE CreditAssumption DEF At
<1>1. TablesAgree' /\ \A v, k, x : HasEntry(v, k, x)' = HasEntry(v, k, x)
  BY TablesUnchanged DEF IInv, TablesAgree
<1>2. /\ tx'[t] = IdleTx /\ IdleTx \in Tx /\ IdleTx.pc = "idle"
      /\ \A s \in Txs \ {t} : tx'[s] = tx[s]
      /\ \A v \in Users : rowLock'[v] = IF rowLock[v] = t THEN None ELSE rowLock[v]
  BY DEF Return, ReleaseRow, IInv, TypeOK, IdleTx, Tx, PCs, Kinds
<1>3. TypeOK'
  BY <1>2 DEF Return, ReleaseRow, IInv, TypeOK
<1>4. LockHeldByWriters'
  BY <1>2 DEF IInv, TypeOK, LockHeldByWriters
<1>5. KindMatchesPC' /\ PendingVersion' /\ PendingBalanceAfter'
  BY <1>1, <1>2 DEF IInv, KindMatchesPC, PendingVersion, PendingBalanceAfter, Granted
<1>6. QED
  BY <1>1, <1>3, <1>4, <1>5 DEF IInv, TablesAgree

LEMMA InsertKeepsIInv ==
  ASSUME IInv, NEW t \in Txs, InsertEntry(t)
  PROVE  IInv'
<1>1. CASE UniqueViolation(t)
  BY <1>1, RollbackKeepsIInv DEF InsertEntry
<1>2. CASE ~UniqueViolation(t)
  <2> USE CreditAssumption DEF At
  <2>1. /\ tx[t].pc = "insert" /\ tx[t] \in Tx /\ tx[t].user \in Users
        /\ tx' = [tx EXCEPT ![t].pc = "commit"]
        /\ UNCHANGED <<creditsRemaining, ledger, rowLock>>
    BY <1>2 DEF InsertEntry, Goto, IInv, TypeOK
  <2>2. /\ tx'[t].pc = "commit" /\ tx'[t].user = tx[t].user /\ tx'[t].kind = tx[t].kind
        /\ tx'[t].ref = tx[t].ref /\ tx'[t].version = tx[t].version
        /\ tx'[t].balanceAfter = tx[t].balanceAfter
        /\ \A s \in Txs \ {t} : tx'[s] = tx[s]
    BY <2>1 DEF IInv, TypeOK, Tx
  <2>3. TablesAgree' /\ \A v, k, x : HasEntry(v, k, x)' = HasEntry(v, k, x)
    BY <2>1, TablesUnchanged DEF IInv, TablesAgree
  <2>4. TypeOK'
    BY <2>1 DEF IInv, TypeOK, Tx, PCs
  <2>5. LockHeldByWriters'
    BY <2>1, <2>2 DEF IInv, TypeOK, LockHeldByWriters
  <2>6. KindMatchesPC' /\ PendingBalanceAfter'
    BY <2>1, <2>2, <2>3 DEF IInv, KindMatchesPC, PendingBalanceAfter, Granted
  <2>7. PendingVersion'
    BY <1>2, <2>1, <2>2, <2>3 DEF IInv, PendingVersion, UniqueViolation
  <2>8. QED
    BY <2>3, <2>4, <2>5, <2>6, <2>7 DEF IInv, TablesAgree
<1>3. QED
  BY <1>1, <1>2

(* What a commit writes, seen through the ledger's keys.                   *)
LEMMA CommitWrites ==
  ASSUME IInv, NEW t \in Txs, Commit(t)
  PROVE  LET u == tx[t].user  k == tx[t].kind  r == tx[t].ref IN
         /\ u \in Users /\ k \in Kinds /\ r \in Refs \cup {None}
         /\ r = None <=> k = "grant"
         /\ tx[t].pc = "commit" /\ rowLock[u] = t
         /\ tx[t].version = creditsRemaining[u] + Delta(k)
         /\ creditsRemaining' = [creditsRemaining EXCEPT ![u] = tx[t].version]
         /\ ledger' = [ledger EXCEPT ![u] = ledger[u] \cup
              {[kind |-> k, ref |-> r, balanceAfter |-> tx[t].balanceAfter]}]
         /\ ~HasEntry(u, k, r)
         /\ k = "refund" => HasEntry(u, "debit", r)
         /\ \A v \in Users : \A j, x :
              HasEntry(v, j, x)' <=> HasEntry(v, j, x) \/ (v = u /\ j = k /\ x = r)
<1> DEFINE u == tx[t].user  k == tx[t].kind  r == tx[t].ref
           new == [kind |-> k, ref |-> r, balanceAfter |-> tx[t].balanceAfter]
<1>1. /\ tx[t].pc = "commit" /\ tx[t] \in Tx /\ u \in Users /\ k \in Kinds
      /\ r \in Refs \cup {None}
  BY DEF Commit, At, IInv, TypeOK, Tx
<1>2. /\ rowLock[u] = t
      /\ tx[t].version = creditsRemaining[u] + Delta(k)
      /\ ~HasEntry(u, k, r)
      /\ k = "refund" => HasEntry(u, "debit", r)
      /\ r = None <=> k = "grant"
  BY <1>1 DEF IInv, LockHeldByWriters, PendingVersion, KindMatchesPC, At
<1>3. /\ creditsRemaining' = [creditsRemaining EXCEPT ![u] = tx[t].version]
      /\ ledger' = [ledger EXCEPT ![u] = ledger[u] \cup {new}]
  BY DEF Commit
<1>4. ASSUME NEW v \in Users, NEW j, NEW x
      PROVE  HasEntry(v, j, x)' <=> HasEntry(v, j, x) \/ (v = u /\ j = k /\ x = r)
  <2>1. ledger'[v] = IF v = u THEN ledger[u] \cup {new} ELSE ledger[v]
    BY <1>1, <1>3 DEF IInv, TypeOK
  <2>2. new.kind = k /\ new.ref = r
    OBVIOUS
  <2>3. QED
    BY <2>1, <2>2 DEF HasEntry
<1>5. QED
  BY <1>1, <1>2, <1>3, <1>4

(* The commit keeps the tables in agreement: the new row counts exactly    *)
(* once, and the balance moves by what it is worth.                        *)
LEMMA CommitKeepsTables ==
  ASSUME IInv, NEW t \in Txs, Commit(t)
  PROVE  TablesAgree'
<1> DEFINE u == tx[t].user  k == tx[t].kind  r == tx[t].ref
<1> USE CreditAssumption
<1>1. /\ u \in Users /\ k \in Kinds /\ r \in Refs \cup {None}
      /\ r = None <=> k = "grant"
      /\ tx[t].version = creditsRemaining[u] + Delta(k) /\ tx[t].version >= 0
      /\ creditsRemaining' = [creditsRemaining EXCEPT ![u] = tx[t].version]
      /\ ledger' = [ledger EXCEPT ![u] = ledger[u] \cup
           {[kind |-> k, ref |-> r, balanceAfter |-> tx[t].balanceAfter]}]
      /\ ~HasEntry(u, k, r)
      /\ k = "refund" => HasEntry(u, "debit", r)
      /\ \A v \in Users : \A j, x :
           HasEntry(v, j, x)' <=> HasEntry(v, j, x) \/ (v = u /\ j = k /\ x = r)
  <2>1. tx[t].version >= 0
    BY DEF Commit, At, IInv, PendingVersion
  <2>2. QED
    BY CommitWrites, <2>1
<1>2. /\ creditsRemaining \in [Users -> Int] /\ creditsRemaining[u] \in Int
      /\ Delta("grant") = INITIAL_CREDIT_GRANT /\ Delta("debit") = -1 /\ Delta("refund") = 1
  BY <1>1 DEF IInv, TypeOK, Delta, CREDIT_COST
<1>3. NeverOverdrawn'
  BY <1>1, <1>2 DEF IInv, NeverOverdrawn
<1>4. EntriesWellFormed'
  <2>1. \A v \in Users : ledger'[v] = IF v = u
          THEN ledger[u] \cup
               {[kind |-> k, ref |-> r, balanceAfter |-> tx[t].balanceAfter]}
          ELSE ledger[v]
    BY <1>1 DEF IInv, TypeOK
  <2>2. QED
    BY <1>1, <2>1 DEF IInv, EntriesWellFormed
<1>5. \A v \in Users, j \in Kinds : RefsOf(v, j)' =
        IF v = u /\ j = k /\ k # "grant" THEN RefsOf(v, j) \cup {r} ELSE RefsOf(v, j)
  BY <1>1 DEF RefsOf
<1>6. \A v \in Users : Granted(v)' <=> Granted(v) \/ (v = u /\ k = "grant")
  BY <1>1 DEF Granted
<1>7. RefundsHaveDebits'
  BY <1>1, <1>5 DEF IInv, RefundsHaveDebits, RefsOf, Kinds
<1>8. \A v \in Users, j \in Kinds :
        IsFiniteSet(RefsOf(v, j)) /\ Cardinality(RefsOf(v, j)) \in Nat
  BY FS_Subset, FS_CardinalityType DEF RefsOf
<1>9. \A v \in Users, j \in Kinds : Cardinality(RefsOf(v, j))' =
        IF v = u /\ j = k /\ k # "grant"
        THEN Cardinality(RefsOf(v, j)) + 1 ELSE Cardinality(RefsOf(v, j))
  <2>1. k # "grant" => r \notin RefsOf(u, k)
    BY <1>1 DEF RefsOf
  <2>2. k # "grant" =>
          Cardinality(RefsOf(u, k) \cup {r}) = Cardinality(RefsOf(u, k)) + 1
    BY <1>1, <1>8, <2>1, FS_AddElement
  <2>3. QED
    BY <1>5, <2>2
<1>10. LedgerExplainsBalance'
  <2> SUFFICES ASSUME NEW v \in Users
               PROVE  creditsRemaining'[v] =
                        (IF Granted(v)' THEN INITIAL_CREDIT_GRANT ELSE 0)
                        - Cardinality(RefsOf(v, "debit"))'
                        + Cardinality(RefsOf(v, "refund"))'
    <3>1. \A w \in Users : /\ Cardinality(RefsOf(w, "debit"))' \in Nat
                           /\ Cardinality(RefsOf(w, "refund"))' \in Nat
      BY <1>8, <1>9 DEF Kinds
    <3>2. QED
      BY <3>1 DEF LedgerExplainsBalance, CREDIT_COST
  <2>1. /\ Cardinality(RefsOf(v, "debit")) \in Nat
        /\ Cardinality(RefsOf(v, "refund")) \in Nat
        /\ creditsRemaining[v] = (IF Granted(v) THEN INITIAL_CREDIT_GRANT ELSE 0)
                                 - Cardinality(RefsOf(v, "debit"))
                                 + Cardinality(RefsOf(v, "refund"))
    BY <1>8 DEF IInv, LedgerExplainsBalance, CREDIT_COST, Kinds
  <2>2. CASE v # u
    BY <2>1, <2>2, <1>1, <1>2, <1>6, <1>9 DEF Kinds
  <2>3. CASE v = u
    <3>1. creditsRemaining'[v] = creditsRemaining[v] + Delta(k)
      BY <2>3, <1>1, <1>2
    <3>2. CASE k = "grant"
      <4>1. ~Granted(v) /\ Granted(v)'
        BY <2>3, <3>2, <1>1, <1>6 DEF Granted
      <4>2. QED
        BY <2>1, <2>3, <3>1, <3>2, <4>1, <1>2, <1>9 DEF Kinds
    <3>3. CASE k \in {"debit", "refund"}
      BY <2>1, <2>3, <3>1, <3>3, <1>2, <1>6, <1>9 DEF Kinds
    <3>4. QED
      BY <3>2, <3>3, <1>1 DEF Kinds
  <2>4. QED
    BY <2>2, <2>3
<1>11. QED
  BY <1>3, <1>4, <1>7, <1>10 DEF TablesAgree

LEMMA CommitKeepsIInv ==
  ASSUME IInv, NEW t \in Txs, Commit(t)
  PROVE  IInv'
<1> DEFINE u == tx[t].user  k == tx[t].kind  r == tx[t].ref
<1> USE CreditAssumption DEF At
<1>1. /\ u \in Users /\ k \in Kinds /\ r \in Refs \cup {None}
      /\ tx[t].pc = "commit" /\ rowLock[u] = t
      /\ creditsRemaining' = [creditsRemaining EXCEPT ![u] = tx[t].version]
      /\ ledger' = [ledger EXCEPT ![u] = ledger[u] \cup
           {[kind |-> k, ref |-> r, balanceAfter |-> tx[t].balanceAfter]}]
      /\ \A v \in Users : \A j, x :
           HasEntry(v, j, x)' <=> HasEntry(v, j, x) \/ (v = u /\ j = k /\ x = r)
  BY CommitWrites
<1>2. TablesAgree'
  BY CommitKeepsTables
<1>3. /\ tx'[t] = IdleTx /\ IdleTx \in Tx /\ IdleTx.pc = "idle"
      /\ \A s \in Txs \ {t} : tx'[s] = tx[s]
      /\ \A v \in Users : rowLock'[v] = IF rowLock[v] = t THEN None ELSE rowLock[v]
      /\ tx' = [tx EXCEPT ![t] = IdleTx]
      /\ rowLock' = [v \in Users |-> IF rowLock[v] = t THEN None ELSE rowLock[v]]
  BY DEF Commit, Return, ReleaseRow, IInv, TypeOK, IdleTx, Tx, PCs, Kinds
<1>4. TypeOK'
  <2>1. tx[t].version \in Int /\ tx[t].balanceAfter \in Int
    BY DEF IInv, TypeOK, Tx
  <2>2. [kind |-> k, ref |-> r, balanceAfter |-> tx[t].balanceAfter] \in Entry
    BY <1>1, <2>1 DEF Entry
  <2>3. QED
    BY <1>1, <1>3, <2>1, <2>2 DEF IInv, TypeOK
<1>5. LockHeldByWriters'
  BY <1>1, <1>3 DEF IInv, TypeOK, LockHeldByWriters
<1>6. KindMatchesPC'
  BY <1>3 DEF IInv, KindMatchesPC
(* Any other writer belongs to another user: the row was t's.              *)
<1>7. \A s \in Txs \ {t} : tx[s].pc \in {"insert", "commit"} => tx[s].user # u
  BY <1>1 DEF IInv, LockHeldByWriters
<1>8. PendingVersion'
  <2> SUFFICES ASSUME NEW s \in Txs \ {t}, tx[s].pc # "idle"
               PROVE  /\ tx[s].pc \in {"insert", "commit"} =>
                           /\ tx[s].version = creditsRemaining'[tx[s].user] + Delta(tx[s].kind)
                           /\ tx[s].version >= 0
                      /\ tx[s].pc = "commit"
                           => ~HasEntry(tx[s].user, tx[s].kind, tx[s].ref)'
                      /\ tx[s].pc \in {"refundUpdate", "insert", "commit"}
                           /\ tx[s].kind = "refund"
                           => HasEntry(tx[s].user, "debit", tx[s].ref)'
    BY <1>3 DEF PendingVersion, HasEntry, Delta
  <2>1. tx[s].user \in Users
    BY DEF IInv, TypeOK
  <2>2. tx[s].user # u => creditsRemaining'[tx[s].user] = creditsRemaining[tx[s].user]
    BY <1>1, <2>1 DEF IInv, TypeOK
  <2>3. QED
    <3>1. tx[s].pc \in {"insert", "commit"} =>
            /\ tx[s].version = creditsRemaining[tx[s].user] + Delta(tx[s].kind)
            /\ tx[s].version >= 0
            /\ creditsRemaining'[tx[s].user] = creditsRemaining[tx[s].user]
      BY <1>7, <2>2 DEF IInv, PendingVersion
    <3>2. tx[s].pc = "commit" => ~HasEntry(tx[s].user, tx[s].kind, tx[s].ref)'
      BY <1>1, <1>3, <1>7, <2>1 DEF IInv, PendingVersion
    <3>3. tx[s].pc \in {"refundUpdate", "insert", "commit"} /\ tx[s].kind = "refund"
            => HasEntry(tx[s].user, "debit", tx[s].ref)'
      BY <1>1, <1>3, <2>1 DEF IInv, PendingVersion
    <3>4. QED
      BY <3>1, <3>2, <3>3
<1>9. PendingBalanceAfter'
  <2> SUFFICES ASSUME NEW s \in Txs \ {t}, tx[s].pc # "idle"
               PROVE  /\ tx[s].pc \in {"grantUpdate", "insert", "commit"}
                           /\ tx[s].kind = "grant" /\ ~Granted(tx[s].user)'
                           => tx[s].balanceAfter = INITIAL_CREDIT_GRANT
                      /\ tx[s].pc \in {"insert", "commit"} /\ tx[s].kind # "grant"
                           => tx[s].balanceAfter = tx[s].version
    BY <1>3 DEF PendingBalanceAfter, Granted, HasEntry
  <2>1. tx[s].user \in Users
    BY DEF IInv, TypeOK
  <2>2. Granted(tx[s].user) => Granted(tx[s].user)'
    BY <1>1, <1>3, <2>1 DEF Granted
  <2>3. QED
    BY <2>2 DEF IInv, PendingBalanceAfter
<1>10. QED
  BY <1>2, <1>4, <1>5, <1>6, <1>8, <1>9 DEF IInv, TablesAgree

LEMMA NextKeepsIInv == IInv /\ [Next]_vars => IInv'
<1> SUFFICES ASSUME IInv, [Next]_vars PROVE IInv'
  OBVIOUS
<1>1. CASE UNCHANGED vars
  <2>1. TablesAgree' /\ \A v, k, x : HasEntry(v, k, x)' = HasEntry(v, k, x)
    BY <1>1, TablesUnchanged DEF IInv, TablesAgree, vars
  <2>2. QED
    BY <1>1, <2>1 DEF vars, IInv, TypeOK, LockHeldByWriters, KindMatchesPC,
       PendingVersion, PendingBalanceAfter, Granted, TablesAgree, At
<1>2. ASSUME NEW t \in Txs, Call(t) PROVE IInv'
  BY <1>2, BeginKeepsIInv
<1>3. ASSUME NEW t \in Txs, Step(t) PROVE IInv'
  BY <1>3, ReadKeepsIInv, UpdateKeepsIInv, InsertKeepsIInv, CommitKeepsIInv DEF Step
<1>4. ASSUME NEW t \in Txs, Abort(t) PROVE IInv'
  BY <1>4, RollbackKeepsIInv DEF Abort
<1>5. QED
  BY <1>1, <1>2, <1>3, <1>4 DEF Next

------------------------------------------------------------------------------
(* The inductive invariant holds in every reachable state.                 *)
THEOREM InductiveInvariant == Spec => []IInv
BY InitIInv, NextKeepsIInv, PTL DEF Spec

(* The tables, locks and transactions keep their types.                    *)
THEOREM TypeCorrect == Spec => []TypeOK
<1>1. IInv => TypeOK
  BY DEF IInv
<1>2. QED
  BY <1>1, InductiveInvariant, PTL

(* However the conditional decrements, refunds and grants of service.ts    *)
(* interleave, no account is overdrawn.                                    *)
THEOREM AccountsNeverOverdrawn == Spec => []NeverOverdrawn
<1>1. IInv => NeverOverdrawn
  BY DEF IInv
<1>2. QED
  BY <1>1, InductiveInvariant, PTL

(* User.creditsRemaining and the ledger never disagree, and no refund is   *)
(* recorded without its debit.                                             *)
THEOREM LedgerConsistent == Spec => [](LedgerExplainsBalance /\ RefundsHaveDebits)
<1>1. IInv => LedgerExplainsBalance /\ RefundsHaveDebits
  BY DEF IInv
<1>2. QED
  BY <1>1, InductiveInvariant, PTL

------------------------------------------------------------------------------
(* Only a commit writes the tables.                                        *)
LEMMA OnlyCommitWrites ==
  ASSUME [Next]_vars
  PROVE  UNCHANGED <<creditsRemaining, ledger>> \/ \E t \in Txs : Commit(t)
BY DEF Next, Call, Step, Abort, GrantInitialCreditsIfNeeded, ConsumeCredit,
   RefundConsumedCredit, Begin, GrantFindExisting, GrantReadBalance, GrantUpdateUser,
   DebitUpdateUser, DebitRefused, RefundFindExisting, RefundFindDebit,
   RefundUpdateUser, TakeRow, InsertEntry, vars

(* Every entry's balanceAfter is the balance its transaction leaves, the   *)
(* grant's included, which computes it from an unlocked read.              *)
THEOREM LedgerBalancesExact == Spec => BalanceAfterIsExact
<1> DEFINE Exact == \A u \in Users : \A e \in ledger'[u] \ ledger[u] :
                      e.balanceAfter = creditsRemaining'[u]
<1>1. IInv /\ [Next]_vars => [Exact]_vars
  <2> SUFFICES ASSUME IInv, [Next]_vars PROVE Exact
    OBVIOUS
  <2>1. CASE UNCHANGED <<creditsRemaining, ledger>>
    BY <2>1
  <2>2. ASSUME NEW t \in Txs, Commit(t) PROVE Exact
    <3> DEFINE u == tx[t].user  k == tx[t].kind
    <3>1. /\ u \in Users /\ k \in Kinds
          /\ tx[t].pc = "commit" /\ ~HasEntry(u, k, tx[t].ref)
          /\ (tx[t].ref = None) <=> (k = "grant")
          /\ tx[t].version = creditsRemaining[u] + Delta(k)
          /\ creditsRemaining' = [creditsRemaining EXCEPT ![u] = tx[t].version]
          /\ ledger' = [ledger EXCEPT ![u] = ledger[u] \cup
               {[kind |-> k, ref |-> tx[t].ref, balanceAfter |-> tx[t].balanceAfter]}]
      BY <2>2, CommitWrites
    <3>2. tx[t].balanceAfter = tx[t].version
      <4>1. CASE k = "grant"
        <5>1. ~Granted(u)
          BY <3>1, <4>1 DEF Granted
        <5>2. creditsRemaining[u] = 0
          BY <3>1, <5>1, EmptyBeforeGrant DEF IInv, TablesAgree
        <5>3. tx[t].balanceAfter = INITIAL_CREDIT_GRANT
          BY <3>1, <4>1, <5>1 DEF IInv, PendingBalanceAfter
        <5>4. QED
          BY <3>1, <4>1, <5>2, <5>3, CreditAssumption DEF Delta
      <4>2. CASE k # "grant"
        BY <3>1, <4>2 DEF IInv, PendingBalanceAfter
      <4>3. QED
        BY <4>1, <4>2
    <3>3. \A v \in Users : v # u => ledger'[v] = ledger[v]
      BY <3>1 DEF IInv, TypeOK
    <3>4. /\ creditsRemaining'[u] = tx[t].version
          /\ ledger'[u] = ledger[u] \cup
               {[kind |-> k, ref |-> tx[t].ref, balanceAfter |-> tx[t].balanceAfter]}
      BY <3>1 DEF IInv, TypeOK
    <3>5. QED
      BY <3>2, <3>3, <3>4
  <2>3. QED
    BY <2>1, <2>2, OnlyCommitWrites
<1>2. QED
  BY <1>1, InductiveInvariant, PTL DEF Spec, BalanceAfterIsExact

------------------------------------------------------------------------------
(* The refinement mapping, step by step.                                   *)
LEMMA CommitIsAccountStep ==
  ASSUME IInv, NEW t \in Txs, Commit(t)
  PROVE  Account!Next
<1> DEFINE u == tx[t].user  k == tx[t].kind  r == tx[t].ref
<1>1. /\ u \in Users /\ k \in Kinds /\ r \in Refs \cup {None}
      /\ (r = None) <=> (k = "grant")
      /\ tx[t].pc = "commit" /\ rowLock[u] = t
      /\ tx[t].version = creditsRemaining[u] + Delta(k)
      /\ creditsRemaining' = [creditsRemaining EXCEPT ![u] = tx[t].version]
      /\ ~HasEntry(u, k, r)
      /\ k = "refund" => HasEntry(u, "debit", r)
      /\ \A v \in Users : \A j, x :
           HasEntry(v, j, x)' <=> HasEntry(v, j, x) \/ (v = u /\ j = k /\ x = r)
  BY CommitWrites
<1>2. /\ creditsRemaining[u] \in Int /\ tx[t].version >= 0
  BY <1>1 DEF IInv, TypeOK, PendingVersion
<1>3. \A v \in Users : Granted(v)' = IF v = u /\ k = "grant" THEN TRUE ELSE Granted(v)
  <2>1. \A v \in Users : Granted(v)' <=> (Granted(v) \/ (v = u /\ k = "grant"))
    BY <1>1 DEF Granted
  <2>2. \A v \in Users : Granted(v) \in BOOLEAN /\ Granted(v)' \in BOOLEAN
    BY DEF Granted, HasEntry
  <2>3. QED
    BY <2>1, <2>2
<1>4. \A v \in Users, j \in Kinds : RefsOf(v, j)' =
        IF v = u /\ j = k /\ k # "grant" THEN RefsOf(v, j) \cup {r} ELSE RefsOf(v, j)
  BY <1>1, CreditAssumption DEF RefsOf
<1>5. CASE k = "grant"
  <2>1. Account!Grant(u)
    <3>1. ~Granted(u)
      BY <1>1, <1>5 DEF Granted
    <3>2. creditsRemaining' = [creditsRemaining EXCEPT ![u] = @ + INITIAL_CREDIT_GRANT]
      BY <1>1, <1>5 DEF Delta
    <3>3. [v \in Users |-> Granted(v)'] = [[v \in Users |-> Granted(v)] EXCEPT ![u] = TRUE]
      BY <1>1, <1>3, <1>5
    <3>4. \A v \in Users : /\ RefsOf(v, "debit")' = RefsOf(v, "debit")
                           /\ RefsOf(v, "refund")' = RefsOf(v, "refund")
      BY <1>4, <1>5 DEF Kinds
    <3>5. QED
      BY <1>1, <3>1, <3>2, <3>3, <3>4 DEF Account!Grant
  <2>2. QED
    BY <1>1, <2>1 DEF Account!Next
<1>6. CASE k = "debit"
  <2>1. r \in Refs
    BY <1>1, <1>6
  <2>2. Account!Spend(u, r)
    <3>1. r \notin RefsOf(u, "debit")
      BY <1>1, <1>6 DEF RefsOf
    <3>2. /\ creditsRemaining[u] >= Account!CREDIT_COST
          /\ creditsRemaining' = [creditsRemaining EXCEPT ![u] = @ - Account!CREDIT_COST]
      <4>1. Delta(k) = -1 /\ Account!CREDIT_COST = 1
        BY <1>6 DEF Delta, CREDIT_COST, Account!CREDIT_COST
      <4>2. tx[t].version = creditsRemaining[u] - 1
        BY <1>1, <1>2, <4>1
      <4>3. creditsRemaining[u] >= 1
        BY <1>2, <4>2
      <4>4. creditsRemaining' = [creditsRemaining EXCEPT ![u] = tx[t].version]
        BY <1>1
      <4>5. QED
        BY <4>1, <4>2, <4>3, <4>4
    <3>3. [v \in Users |-> RefsOf(v, "debit")']
            = [[v \in Users |-> RefsOf(v, "debit")] EXCEPT ![u] = @ \cup {r}]
      BY <1>1, <1>4, <1>6 DEF Kinds
    <3>4. \A v \in Users : /\ Granted(v)' = Granted(v)
                           /\ RefsOf(v, "refund")' = RefsOf(v, "refund")
      BY <1>3, <1>4, <1>6 DEF Kinds
    <3>5. QED
      BY <1>1, <3>1, <3>2, <3>3, <3>4 DEF Account!Spend
  <2>3. QED
    BY <1>1, <2>1, <2>2 DEF Account!Next
<1>7. CASE k = "refund"
  <2>1. r \in Refs
    BY <1>1, <1>7
  <2>2. Account!Refund(u, r)
    <3>1. r \in RefsOf(u, "debit") \ RefsOf(u, "refund")
      BY <1>1, <1>7, <2>1 DEF RefsOf
    <3>2. creditsRemaining' = [creditsRemaining EXCEPT ![u] = @ + Account!CREDIT_COST]
      BY <1>1, <1>2, <1>7 DEF Delta, CREDIT_COST, Account!CREDIT_COST
    <3>3. [v \in Users |-> RefsOf(v, "refund")']
            = [[v \in Users |-> RefsOf(v, "refund")] EXCEPT ![u] = @ \cup {r}]
      BY <1>1, <1>4, <1>7 DEF Kinds
    <3>4. \A v \in Users : /\ Granted(v)' = Granted(v)
                           /\ RefsOf(v, "debit")' = RefsOf(v, "debit")
      BY <1>3, <1>4, <1>7 DEF Kinds
    <3>5. QED
      BY <1>1, <3>1, <3>2, <3>3, <3>4 DEF Account!Refund
  <2>3. QED
    BY <1>1, <2>1, <2>2 DEF Account!Next
<1>8. QED
  BY <1>1, <1>5, <1>6, <1>7 DEF Kinds

(* The interleaved transactions implement the one-step account.            *)
THEOREM LedgerImplementsAccount == Spec => ImplementsAccount
<1>1. Init => Account!Init
  BY DEF Init, Account!Init, Granted, HasEntry, RefsOf
<1>2. IInv /\ [Next]_vars => [Account!Next]_(Account!accountVars)
  <2> SUFFICES ASSUME IInv, [Next]_vars
               PROVE  [Account!Next]_(Account!accountVars)
    OBVIOUS
  <2>1. CASE UNCHANGED <<creditsRemaining, ledger>>
    BY <2>1 DEF Account!accountVars, Granted, RefsOf, HasEntry
  <2>2. ASSUME NEW t \in Txs, Commit(t) PROVE Account!Next
    BY <2>2, CommitIsAccountStep
  <2>3. QED
    BY <2>1, <2>2, OnlyCommitWrites
<1>3. QED
  BY <1>1, <1>2, InductiveInvariant, PTL DEF Spec, ImplementsAccount, Account!Spec

------------------------------------------------------------------------------
(* The key to the payment node.                                            *)

(* The fields a beginning request sets are those of a request.             *)
LEMMA BegunRequests ==
  ASSUME NEW x \in NodeKeys!RequestRecords, NEW p \in NodeKeys!PCs,
     NEW kind \in NodeKeys!Kinds, NEW b \in BOOLEAN
  PROVE  /\ [x EXCEPT !.pc = p, !.kind = kind, !.alone = b] \in NodeKeys!RequestRecords
         /\ [x EXCEPT !.alone = b] \in NodeKeys!RequestRecords
BY DEF NodeKeys!RequestRecords

(* The types, for every set of requests and wallets.                       *)
THEOREM KeyTypes == NodeKeys!Spec => []NodeKeys!TypeOK
<1>1. NodeKeys!Init => NodeKeys!TypeOK
  BY KeysAssumption DEF NodeKeys!KeysAssumption, NodeKeys!Init, NodeKeys!TypeOK,
     NodeKeys!Keys, NodeKeys!Wallets, NodeKeys!NewRequest, NodeKeys!RequestRecords,
     NodeKeys!PCs,
     NodeKeys!Kinds, NodeKeys!Scoping
<1>2. NodeKeys!TypeOK /\ [NodeKeys!Next]_NodeKeys!vars => NodeKeys!TypeOK'
  <2> SUFFICES ASSUME NodeKeys!TypeOK, [NodeKeys!Next]_NodeKeys!vars PROVE NodeKeys!TypeOK'
    OBVIOUS
  <2> USE DEF NodeKeys!TypeOK, NodeKeys!RequestRecords, NodeKeys!PCs, NodeKeys!Kinds,
     NodeKeys!Scoping, NodeKeys!Keys, NodeKeys!Wallets
  <2>1. ASSUME NEW r \in Requests, NEW kind \in NodeKeys!Kinds, NodeKeys!Begin(r,
     kind) PROVE NodeKeys!TypeOK'
    <3> DEFINE quiet == \A o \in Requests : ~NodeKeys!InFlight(o)
    <3> DEFINE first == IF kind = "signup" THEN "create" ELSE "read"
    <3>1. quiet \in BOOLEAN /\ first \in NodeKeys!PCs
      OBVIOUS
    <3>2. /\ req' = [q \in Requests |->
               IF q = r THEN [req[r] EXCEPT !.pc = first, !.kind = kind, !.alone = quiet]
               ELSE IF NodeKeys!InFlight(q) THEN [req[q] EXCEPT !.alone = FALSE] ELSE req[q]]
          /\ UNCHANGED <<userKey, scopes, enabled, refs>>
      BY <2>1 DEF NodeKeys!Begin
    <3>0. first \notin NodeKeys!Scoping
      OBVIOUS
    <3> HIDE DEF quiet, first
    <3> HIDE DEF NodeKeys!RequestRecords, NodeKeys!PCs, NodeKeys!Kinds, NodeKeys!Keys,
       NodeKeys!Wallets
    <3>3. req' \in [Requests -> NodeKeys!RequestRecords]
      <4>1. \A q \in Requests : req[q] \in NodeKeys!RequestRecords
        OBVIOUS
      <4>2. \A q \in Requests : [req[q] EXCEPT !.alone = FALSE] \in NodeKeys!RequestRecords
        BY <3>1, <4>1, BegunRequests
      <4>3. [req[r] EXCEPT !.pc = first, !.kind = kind,
         !.alone = quiet] \in NodeKeys!RequestRecords
        BY <3>1, <4>1, BegunRequests
      <4> QED
        BY <3>2, <4>1, <4>2, <4>3
    <3> USE DEF NodeKeys!RequestRecords, NodeKeys!Keys, NodeKeys!Wallets
    <3>4. \A q \in Requests : req'[q].pc \in NodeKeys!Scoping => req'[q].key \in NodeKeys!Keys
      BY <3>2, <3>0
    <3> QED
      BY <3>2, <3>3, <3>4
  <2>2. ASSUME NEW r \in Requests, NodeKeys!ReadKey(r) PROVE NodeKeys!TypeOK'
    BY <2>2 DEF NodeKeys!ReadKey, NodeKeys!At, NodeKeys!Goto, NodeKeys!HaveKey
  <2>3. ASSUME NEW r \in Requests, NodeKeys!CreateKey(r) PROVE NodeKeys!TypeOK'
    BY <2>3 DEF NodeKeys!CreateKey, NodeKeys!At, NodeKeys!Goto, NodeKeys!Fails
  <2>4. ASSUME NEW r \in Requests, NodeKeys!StoreKey(r) PROVE NodeKeys!TypeOK'
    BY <2>4 DEF NodeKeys!StoreKey, NodeKeys!At, NodeKeys!Goto, NodeKeys!Fails
  <2>5. ASSUME NEW r \in Requests, NodeKeys!ReadKeyAgain(r) PROVE NodeKeys!TypeOK'
    BY <2>5 DEF NodeKeys!ReadKeyAgain, NodeKeys!At, NodeKeys!Goto, NodeKeys!HaveKey
  <2>6. ASSUME NEW r \in Requests, NodeKeys!ReadScopes(r) PROVE NodeKeys!TypeOK'
    BY <2>6 DEF NodeKeys!ReadScopes, NodeKeys!At, NodeKeys!Goto, NodeKeys!Fails
  <2>7. ASSUME NEW r \in Requests, NodeKeys!ReadKnown(r) PROVE NodeKeys!TypeOK'
    BY <2>7 DEF NodeKeys!ReadKnown, NodeKeys!At, NodeKeys!Goto, NodeKeys!Fails
  <2>8. ASSUME NEW r \in Requests, NodeKeys!ListFunding(r) PROVE NodeKeys!TypeOK'
    BY <2>8 DEF NodeKeys!ListFunding, NodeKeys!At, NodeKeys!Goto, NodeKeys!Fails
  <2>9. ASSUME NEW r \in Requests, NodeKeys!UpdateScopes(r) PROVE NodeKeys!TypeOK'
    <3>1. NodeKeys!NextWallets(r) \subseteq NodeKeys!Wallets /\ req[r].key \in NodeKeys!Keys
      BY <2>9 DEF NodeKeys!UpdateScopes, NodeKeys!NextWallets, NodeKeys!At
    <3>2. /\ scopes' \in [NodeKeys!Keys -> SUBSET NodeKeys!Wallets]
          /\ enabled' \subseteq NodeKeys!Keys
      BY <2>9, <3>1 DEF NodeKeys!UpdateScopes
    <3> QED
      BY <2>9, <3>2 DEF NodeKeys!UpdateScopes, NodeKeys!At, NodeKeys!Goto, NodeKeys!Fails
  <2>10. ASSUME NEW r \in Requests, NodeKeys!CreateReference(r) PROVE NodeKeys!TypeOK'
    BY <2>10 DEF NodeKeys!CreateReference, NodeKeys!At, NodeKeys!Goto, NodeKeys!Fails
  <2>11. ASSUME NEW w \in NodeKeys!Wallets, NodeKeys!DeleteAgent(w) PROVE NodeKeys!TypeOK'
    BY <2>11 DEF NodeKeys!DeleteAgent
  <2>12. CASE UNCHANGED NodeKeys!vars
    BY <2>12 DEF NodeKeys!vars
  <2> QED
    BY <2>1, <2>2, <2>3, <2>4, <2>5, <2>6, <2>7, <2>8, <2>9, <2>10, <2>11, <2>12
    DEF NodeKeys!Next, NodeKeys!Step
<1> QED
  BY <1>1, <1>2, PTL DEF NodeKeys!Spec

(* The wallets a key is scoped to exclude the funding wallets, whatever    *)
(* the key was scoped to and the references name.                          *)
LEMMA NextWalletsDropFunding ==
  ASSUME NEW r \in Requests PROVE NodeKeys!NextWallets(r) \cap Funding = {}
BY DEF NodeKeys!NextWallets

(* Only UpdateScopes writes the scopes, and what it writes has no funding  *)
(* wallet: getNextWalletScopeIds filters all it puts together.             *)
THEOREM FundingStaysOut == NodeKeys!Spec => FundingNeverAdded
<1> DEFINE Adds == \A k \in NodeKeys!Keys : scopes'[k] \cap Funding \subseteq scopes[k]
<1>1. NodeKeys!TypeOK /\ [NodeKeys!Next]_NodeKeys!vars => [Adds]_NodeKeys!vars
  <2> SUFFICES ASSUME NodeKeys!TypeOK, NodeKeys!Next PROVE Adds
    OBVIOUS
  <2>1. ASSUME NEW r \in Requests, NodeKeys!UpdateScopes(r) PROVE Adds
    BY <2>1, NextWalletsDropFunding DEF NodeKeys!UpdateScopes, NodeKeys!TypeOK,
       NodeKeys!At, NodeKeys!Goto, NodeKeys!Fails
  <2>2. CASE UNCHANGED scopes
    BY <2>2
  <2> QED
    BY <2>1, <2>2 DEF NodeKeys!Next, NodeKeys!Step, NodeKeys!Begin, NodeKeys!ReadKey,
       NodeKeys!CreateKey, NodeKeys!StoreKey, NodeKeys!ReadKeyAgain,
       NodeKeys!ReadScopes, NodeKeys!ReadKnown, NodeKeys!ListFunding,
          NodeKeys!CreateReference, NodeKeys!DeleteAgent
<1>2. NodeKeys!Spec => [][Adds]_NodeKeys!vars
  BY <1>1, KeyTypes, PTL DEF NodeKeys!Spec
<1> QED
  BY <1>2 DEF FundingNeverAdded, NodeKeys!FundingNeverAdded

------------------------------------------------------------------------------
(* What a request that is alone knows is what is there: its key is the     *)
(* stored one, the scopes it has read are the key's, and it knows every    *)
(* reference.                                                              *)
Alone(r) == req[r].alone /\ NodeKeys!InFlight(r)
KnowsKey(r) == req[r].pc \in NodeKeys!Scoping => req[r].key = userKey
KnowsScopes(r) ==
  req[r].pc \in {"known", "funding", "update"} =>
    req[r].current = scopes[userKey] /\ req[r].limited = (userKey \in enabled)
KnowsReferences(r) == req[r].pc \in {"funding", "update"} => refs \subseteq req[r].known
IsScoped(r) ==
  req[r].pc = "scoped" =>
    userKey \in enabled /\ (refs \cup {r}) \ Funding \subseteq scopes[userKey]

(* The inductive invariant: while a request is alone, no other is under    *)
(* way, and so nothing it has read can be stale but by a deletion.         *)
AloneInv ==
  \A r \in Requests : Alone(r) =>
    /\ \A o \in Requests \ {r} : ~NodeKeys!InFlight(o)
    /\ KnowsKey(r) /\ KnowsScopes(r) /\ KnowsReferences(r) /\ IsScoped(r)

(* A step of a request under way touches no other request, and it does not *)
(* make a request alone.                                                   *)
LEMMA OneMoves ==
  ASSUME NodeKeys!TypeOK, AloneInv, NEW r \in Requests, NodeKeys!InFlight(r),
         req'[r].alone = req[r].alone,
         \A o \in Requests \ {r} : req'[o] = req[o],
         Alone(r)' => KnowsKey(r)' /\ KnowsScopes(r)' /\ KnowsReferences(r)' /\ IsScoped(r)'
  PROVE  AloneInv'
<1> SUFFICES ASSUME NEW q \in Requests, Alone(q)'
             PROVE /\ \A o \in Requests \ {q} : ~NodeKeys!InFlight(o)'
                   /\ KnowsKey(q)' /\ KnowsScopes(q)' /\ KnowsReferences(q)' /\ IsScoped(q)'
  BY DEF AloneInv
<1>1. CASE q = r
  BY <1>1 DEF AloneInv, Alone, NodeKeys!InFlight
<1>2. CASE q # r
  \* q was alone already, and yet r was under way.
  BY <1>2 DEF AloneInv, Alone, NodeKeys!InFlight
<1> QED
  BY <1>1, <1>2

LEMMA AloneStep ==
  NodeKeys!TypeOK /\ NodeKeys!TypeOK' /\ AloneInv /\ [NodeKeys!Next]_NodeKeys!vars => AloneInv'
<1> SUFFICES ASSUME NodeKeys!TypeOK, NodeKeys!TypeOK', AloneInv,
   [NodeKeys!Next]_NodeKeys!vars PROVE AloneInv'
  OBVIOUS
<1> USE DEF NodeKeys!At, NodeKeys!Goto, NodeKeys!Fails, NodeKeys!InFlight, NodeKeys!Ended
<1>1. ASSUME NEW r \in Requests, NEW kind \in NodeKeys!Kinds, NodeKeys!Begin(r,
   kind) PROVE AloneInv'
  <2> SUFFICES ASSUME NEW q \in Requests, Alone(q)'
               PROVE /\ \A o \in Requests \ {q} : ~NodeKeys!InFlight(o)'
                     /\ KnowsKey(q)' /\ KnowsScopes(q)' /\ KnowsReferences(q)' /\ IsScoped(q)'
    BY DEF AloneInv
  <2>1. q = r
    BY <1>1 DEF NodeKeys!Begin, Alone, NodeKeys!TypeOK, NodeKeys!RequestRecords
  <2>2. \A o \in Requests : ~NodeKeys!InFlight(o)
    BY <1>1, <2>1 DEF NodeKeys!Begin, Alone, NodeKeys!TypeOK, NodeKeys!RequestRecords
  <2>3. \A o \in Requests \ {q} : ~NodeKeys!InFlight(o)'
    BY <1>1, <2>1, <2>2 DEF NodeKeys!Begin
  <2>4. req'[q].pc \in {"create", "read"}
    BY <1>1, <2>1 DEF NodeKeys!Begin, NodeKeys!TypeOK, NodeKeys!RequestRecords
  <2> QED
    BY <2>3, <2>4 DEF KnowsKey, KnowsScopes, KnowsReferences, IsScoped, NodeKeys!Scoping
<1> USE DEF NodeKeys!TypeOK, NodeKeys!RequestRecords, Alone, KnowsKey, KnowsScopes,
   KnowsReferences,
        IsScoped, NodeKeys!Scoping
<1>2. ASSUME NEW r \in Requests, NodeKeys!ReadKey(r) PROVE AloneInv'
  BY <1>2, OneMoves DEF NodeKeys!ReadKey, NodeKeys!HaveKey
<1>3. ASSUME NEW r \in Requests, NodeKeys!CreateKey(r) PROVE AloneInv'
  BY <1>3, OneMoves DEF NodeKeys!CreateKey
<1>4. ASSUME NEW r \in Requests, NodeKeys!StoreKey(r) PROVE AloneInv'
  BY <1>4, OneMoves DEF NodeKeys!StoreKey
<1>5. ASSUME NEW r \in Requests, NodeKeys!ReadKeyAgain(r) PROVE AloneInv'
  BY <1>5, OneMoves DEF NodeKeys!ReadKeyAgain, NodeKeys!HaveKey
<1>6. ASSUME NEW r \in Requests, NodeKeys!ReadScopes(r) PROVE AloneInv'
  BY <1>6, OneMoves DEF NodeKeys!ReadScopes, AloneInv
<1>7. ASSUME NEW r \in Requests, NodeKeys!ReadKnown(r) PROVE AloneInv'
  BY <1>7, OneMoves DEF NodeKeys!ReadKnown, AloneInv
<1>8. ASSUME NEW r \in Requests, NodeKeys!ListFunding(r) PROVE AloneInv'
  BY <1>8, OneMoves DEF NodeKeys!ListFunding, NodeKeys!AlreadyScoped,
     NodeKeys!NextWallets, AloneInv
<1>9. ASSUME NEW r \in Requests, NodeKeys!UpdateScopes(r) PROVE AloneInv'
  BY <1>9, OneMoves DEF NodeKeys!UpdateScopes, NodeKeys!NextWallets, AloneInv
<1>10. ASSUME NEW r \in Requests, NodeKeys!CreateReference(r) PROVE AloneInv'
  BY <1>10, OneMoves DEF NodeKeys!CreateReference
<1>11. ASSUME NEW w \in NodeKeys!Wallets, NodeKeys!DeleteAgent(w) PROVE AloneInv'
  BY <1>11 DEF NodeKeys!DeleteAgent, AloneInv
<1>12. CASE UNCHANGED NodeKeys!vars
  BY <1>12 DEF NodeKeys!vars, AloneInv
<1> QED
  BY <1>1, <1>2, <1>3, <1>4, <1>5, <1>6, <1>7, <1>8, <1>9, <1>10, <1>11, <1>12
  DEF NodeKeys!Next, NodeKeys!Step

(* A registration that no other request of the user overlaps leaves the    *)
(* stored key limited to wallets, all those of the user's agents among     *)
(* them, in however bad a state races have left the key and its scopes.    *)
THEOREM RegistrationsRepair == NodeKeys!Spec => []RegistrationRepairs
<1>1. NodeKeys!Init => AloneInv
  BY DEF NodeKeys!Init, AloneInv, Alone, NodeKeys!InFlight, NodeKeys!Ended,
     NodeKeys!NewRequest
<1>2. AloneInv => RegistrationRepairs
  BY DEF AloneInv, Alone, RegistrationRepairs, NodeKeys!RegistrationRepairs, IsScoped,
     NodeKeys!At, NodeKeys!InFlight, NodeKeys!Ended
<1> QED
  BY <1>1, <1>2, AloneStep, KeyTypes, PTL DEF NodeKeys!Spec
==============================================================================
