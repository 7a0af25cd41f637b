----------------------------- MODULE InboxAgents ------------------------------
(***************************************************************************)
(* The inbox agents of one slug on Mainnet: POST /api/v1/inbox-agents,     *)
(* DELETE and deregister of an inbox agent, and the refreshes that copy    *)
(* the payment node's registry into InboxAgentReference                    *)
(* (lib/inbox-agents/server.ts and app/api/v1/inbox-agents).               *)
(*                                                                         *)
(* Slugs are independent of each other: the local checks, the advisory     *)
(* lock and the registry search are all per (network, slug).  On another   *)
(* network only the debit and the refund are absent.  The payment node is  *)
(* external.                                                               *)
(***************************************************************************)
EXTENDS Integers, FiniteSets, RegistryStates

CONSTANTS Users, Posts, Managers, None,
          Author,            \* the user who sends each POST
          INITIAL_CREDIT_GRANT,
          MAX_FAULTS         \* bound on lost replies, failed statements, crashes

ASSUME InboxAssumption ==
  /\ Author \in [Posts -> Users]
  /\ None \notin Users \cup Posts \cup Managers
  /\ \A p, e \in Posts : p # <<"saved", e>>      \* ids of rows are unique
  /\ INITIAL_CREDIT_GRANT \in Nat /\ MAX_FAULTS \in Nat

VARIABLES refs,      \* InboxAgentReference rows of the slug
          remote,    \* the payment node's entries; POST p can create entry p
          lock,      \* holder of pg_advisory_xact_lock(network:slug)
          post,      \* the POST requests
          manager,   \* list refreshes, deregister and delete requests
          faults,    \* what went wrong so far, as <<actor, kind>>
          granted, spent, refunded, available   \* the authors' credit accounts

creditVars == <<granted, spent, refunded, available>>
vars == <<refs, remote, lock, post, manager, faults, creditVars>>

Credits == INSTANCE CreditAccount WITH Refs <- Posts

------------------------------------------------------------------------------
(* Registration states and rows.                                           *)
\* Mutant: a requested deregistration does not count as pending.
IsPendingRegistration(s) == s = "RegistrationRequested"
IsPending(s) == s \in {"RegistrationRequested", "DeregistrationRequested"}
IsDeregistered(s) == s = "DeregistrationConfirmed"
IsFailed(s) == s \in {"RegistrationFailed", "DeregistrationFailed"}
IsReusable(s) == IsDeregistered(s) \/ IsFailed(s)

(* A row; a local reservation ("pending:<uuid>") has no entry yet.          *)
Row(id, owner, entry, state) ==
  [id |-> id, owner |-> owner, entry |-> entry, state |-> state]
IsReservation(r) == r.entry = None

SetState(r, s) == (refs \ {r}) \cup {[r EXCEPT !.state = s]}
RowOf(e) == {r \in refs : r.entry = e}

(* saveInboxAgentReference: refuse when the entry's row is another user's, *)
(* else write the row, and create it when there is none (its data includes *)
(* the owner).  A row created between the lookup and the write is found by *)
(* the second lookup; one deleted there makes the write fail.              *)
\* Mutant: the ownership check is dropped and the row is handed over.
NeverOwnedByOther(e, user) == FALSE
OwnedByOther(e, user) == \E r \in RowOf(e) : r.owner # user

SavedRow(e, user, s) ==
  LET id == IF RowOf(e) = {} THEN <<"saved", e>> ELSE (CHOOSE r \in RowOf(e) : TRUE).id
  IN  Row(id, user, e, s)
Saved(e, user, s) == (refs \ RowOf(e)) \cup {SavedRow(e, user, s)}

------------------------------------------------------------------------------
IdlePost == [pc |-> "start", todo |-> {}, row |-> None, seen |-> "absent",
             request |-> "none", entry |-> None, refundable |-> FALSE]
Operations == {"refresh", "deregister", "delete"}
IdleManager == [pc |-> "idle", op |-> "refresh", row |-> None, seen |-> "absent"]

Init ==
  /\ refs = {}
  /\ remote = [e \in Posts |-> "absent"]
  /\ lock = None
  /\ post = [p \in Posts |-> IdlePost]
  /\ manager = [m \in Managers |-> IdleManager]
  /\ faults = {}
  /\ granted = [u \in Users |-> TRUE]
  /\ spent = [u \in Users |-> {}]
  /\ refunded = [u \in Users |-> {}]
  /\ available = [u \in Users |-> INITIAL_CREDIT_GRANT]

At(p, pc) == post[p].pc = pc
Goto(p, pc) == post' = [post EXCEPT ![p].pc = pc]
Fault(who, kind) ==
  /\ Cardinality(faults) < MAX_FAULTS
  /\ faults' = faults \cup {<<who, kind>>}

------------------------------------------------------------------------------
(* POST, 1: findInboxAgentSlugConflict.  The rows read at the start are    *)
(* visited one by one; a pending one is first refreshed from the registry. *)

ScanRows(p) ==
  /\ At(p, "start")
  /\ post' = [post EXCEPT ![p].pc = "scan", ![p].todo = refs]
  /\ UNCHANGED <<refs, remote, lock, manager, faults, creditVars>>

ScanNext(p) ==
  /\ At(p, "scan")
  /\ \/ post[p].todo = {} /\ Goto(p, "registry")
     \/ \E r \in post[p].todo :
          IF IsReservation(r) THEN Goto(p, "failed")
          ELSE IF IsPending(r.state)
               THEN post' = [post EXCEPT ![p].pc = "scanSave", ![p].row = r,
                                         ![p].seen = remote[r.entry]]
          ELSE IF IsReusable(r.state)
               THEN post' = [post EXCEPT ![p].todo = @ \ {r}]
          ELSE Goto(p, "failed")
  /\ UNCHANGED <<refs, remote, lock, manager, faults, creditVars>>

(* The entry read before is written now, however old it is; an entry that  *)
(* was gone ends the registration or the deregistration it was pending for. *)
ScanSave(p) ==
  LET r == post[p].row
      gone == IF r.state = "DeregistrationRequested"
              THEN "DeregistrationConfirmed" ELSE "RegistrationFailed"
      resolved == IF post[p].seen = "absent" THEN gone ELSE post[p].seen
      current == {x \in refs : x.id = r.id}
      continue == IF IsReusable(resolved)
                  THEN post' = [post EXCEPT ![p].pc = "scan", ![p].row = None,
                                              ![p].todo = @ \ {r}]
                  ELSE Goto(p, "failed")
  IN
  /\ At(p, "scanSave")
  /\ \/ Goto(p, "failed") /\ UNCHANGED refs       \* a lookup or a write failed
     \/ /\ post[p].seen # "absent"
        /\ ~OwnedByOther(r.entry, r.owner)
        /\ refs' = Saved(r.entry, r.owner, resolved)
        /\ continue
     \/ /\ post[p].seen = "absent"
        /\ current # {}
        /\ refs' = UNION {SetState(x, resolved) : x \in current}
        /\ continue
  /\ UNCHANGED <<remote, lock, manager, faults, creditVars>>

(* POST, 2: findRegistryInboxAgentSlugConflict looks at the first match    *)
(* only; which one that is, the payment node decides.  Preparing the       *)
(* managed registration may then fail, with nothing to undo.               *)
CheckRegistry(p) ==
  LET matches == {e \in Posts : remote[e] # "absent"} IN
  /\ At(p, "registry")
  /\ \/ /\ matches = {} \/ \E e \in matches : IsReusable(remote[e])
        /\ Goto(p, "reserve")
     \/ /\ \E e \in matches : ~IsReusable(remote[e])
        /\ Goto(p, "failed")
     \/ Goto(p, "failed")
  /\ UNCHANGED <<refs, remote, lock, manager, faults, creditVars>>

(* POST, 3: reserveInboxAgentReference, a transaction under the lock.      *)
\* Mutant: the transaction does not take the advisory lock.
NoAdvisoryLock(p) == TRUE
LockFree(p) == lock = None

Active(r) == ~IsReusable(r.state)

ReserveLock(p) ==
  /\ At(p, "reserve")
  /\ LockFree(p)
  /\ lock' = p
  /\ Goto(p, "reserveCheck")
  /\ UNCHANGED <<refs, remote, manager, faults, creditVars>>

ReserveCheck(p) ==
  /\ At(p, "reserveCheck")
  /\ IF \E r \in refs : Active(r)
     THEN lock' = None /\ Goto(p, "failed")
     ELSE UNCHANGED lock /\ Goto(p, "reserveInsert")
  /\ UNCHANGED <<refs, remote, manager, faults, creditVars>>

ReserveInsert(p) ==
  /\ At(p, "reserveInsert")
  /\ refs' = refs \cup {Row(p, Author[p], None, "RegistrationRequested")}
  /\ lock' = None
  /\ \/ Goto(p, "debit") /\ UNCHANGED faults
     \/ Goto(p, "failed") /\ Fault(p, "rowLeft")      \* the commit went unnoticed
  /\ UNCHANGED <<remote, manager, creditVars>>

(* The time of the transaction runs out, or a statement of it fails.       *)
ReserveFails(p) ==
  /\ post[p].pc \in {"reserve", "reserveCheck", "reserveInsert"}
  /\ lock' = IF lock = p THEN None ELSE lock
  /\ Goto(p, "failed")
  /\ UNCHANGED <<refs, remote, manager, faults, creditVars>>

(* POST, 4: the debit.  Its commit may go unnoticed: then nobody refunds.  *)
Debit(p) ==
  /\ At(p, "debit")
  /\ Credits!Spend(Author[p], p)
  /\ \/ post' = [post EXCEPT ![p].pc = "register", ![p].refundable = TRUE] /\ UNCHANGED faults
     \/ Goto(p, "refund") /\ Fault(p, "debitUnnoticed")
  /\ UNCHANGED <<refs, remote, lock, manager>>

DebitRefused(p) ==
  /\ At(p, "debit")
  /\ available[Author[p]] < Credits!CREDIT_COST
  /\ Goto(p, "refund")
  /\ UNCHANGED <<refs, remote, lock, manager, faults, creditVars>>

(* POST, 5: registerInboxAgent.  The payment node handles the request when *)
(* it arrives, which may be after the caller gave up on it; it may answer  *)
(* with an entry for the slug that is still on chain.                      *)
Live(e) == remote[e] \in LiveStates

SendRegister(p) ==
  /\ At(p, "register")
  /\ post' = [post EXCEPT ![p].pc = "await", ![p].request = "sent"]
  /\ UNCHANGED <<refs, remote, lock, manager, faults, creditVars>>

NodeRegisters(p) ==
  /\ post[p].request = "sent"
  /\ \E e \in {p} \cup {x \in Posts : Live(x)} :
       /\ remote' = [remote EXCEPT ![e] = IF @ = "absent" THEN "RegistrationRequested" ELSE @]
       /\ post' = [post EXCEPT ![p].request = "answered", ![p].entry = e,
                               ![p].seen = remote'[e]]
  /\ UNCHANGED <<refs, lock, manager, faults, creditVars>>

RegisterAnswered(p) ==
  /\ At(p, "await")
  /\ post[p].request = "answered"
  /\ Goto(p, "finalize")
  /\ UNCHANGED <<refs, remote, lock, manager, faults, creditVars>>

RegisterRejected(p) ==
  /\ At(p, "await")
  /\ post[p].request = "sent"
  /\ post' = [post EXCEPT ![p].pc = "refund", ![p].request = "none"]
  /\ UNCHANGED <<refs, remote, lock, manager, faults, creditVars>>

RegisterReplyLost(p) ==
  /\ At(p, "await")
  /\ Fault(p, "replyLost")
  /\ Goto(p, "refund")
  /\ UNCHANGED <<refs, remote, lock, manager, creditVars>>

(* POST, 6: finalizeInboxAgentReservation.  If the entry already has a row *)
(* the reservation is merged into it, unless it is another user's.         *)
Finalize(p) ==
  LET e == post[p].entry
      mine == {r \in refs : r.id = p}
  IN
  /\ At(p, "finalize")
  /\ IF OwnedByOther(e, Author[p])
     THEN Goto(p, "refund") /\ UNCHANGED refs
     ELSE /\ Goto(p, "ok")
          /\ refs' = IF RowOf(e) = {}
                     THEN (refs \ mine) \cup {Row(p, Author[p], e, post[p].seen)}
                     ELSE Saved(e, Author[p], post[p].seen) \ mine
  /\ UNCHANGED <<remote, lock, manager, faults, creditVars>>

\* Mutant: the entry nobody could record is left in the registry.
FinalizeFailsSilently(p) ==
  /\ At(p, "finalize")
  /\ Fault(p, "notPersisted")
  /\ Goto(p, "refund")
  /\ UNCHANGED <<refs, remote, lock, manager, creditVars>>

FinalizeFails(p) ==
  /\ At(p, "finalize")
  /\ Fault(p, "notPersisted")
  /\ Goto(p, "cleanRemote")
  /\ UNCHANGED <<refs, remote, lock, manager, creditVars>>

CleanRemote(p) ==
  /\ At(p, "cleanRemote")
  /\ Goto(p, "refund")
  /\ \/ remote' = [remote EXCEPT ![post[p].entry] = "absent"] /\ UNCHANGED faults
     \/ Fault(p, "entryLeft") /\ UNCHANGED remote
  /\ UNCHANGED <<refs, lock, manager, creditVars>>

(* POST, 7: refundCreditAndCleanupReservation, on every failure after the  *)
(* reservation.  The refund and the deletion swallow their own errors.     *)
\* Mutant: only the reservation is cleaned up.
NoRefund(p) ==
  /\ At(p, "refund")
  /\ Goto(p, "cleanRow")
  /\ UNCHANGED <<refs, remote, lock, manager, faults, creditVars>>

RefundAfterFailure(p) ==
  /\ At(p, "refund")
  /\ Goto(p, "cleanRow")
  /\ IF post[p].refundable
     THEN \/ Credits!Refund(Author[p], p) /\ UNCHANGED faults
          \/ Fault(p, "refundLost") /\ UNCHANGED creditVars
     ELSE UNCHANGED <<faults, creditVars>>
  /\ UNCHANGED <<refs, remote, lock, manager>>

CleanReservation(p) ==
  /\ At(p, "cleanRow")
  /\ Goto(p, "failed")
  /\ \/ refs' = {r \in refs : r.id # p} /\ UNCHANGED faults
     \/ Fault(p, "rowLeft") /\ UNCHANGED refs
  /\ UNCHANGED <<remote, lock, manager, creditVars>>

(* The process serving the request dies; an open transaction rolls back.   *)
InFlight(p) == post[p].pc \notin {"start", "ok", "failed", "crashed"}
Crash(p) ==
  /\ InFlight(p)
  /\ Fault(p, "crash")
  /\ lock' = IF lock = p THEN None ELSE lock
  /\ Goto(p, "crashed")
  /\ UNCHANGED <<refs, remote, manager, creditVars>>

------------------------------------------------------------------------------
(* Refresh of a listed row, deregister and delete: each reads a row and    *)
(* its entry, saves the entry it read and then acts on what it saved.      *)

MayAct(op, s) == \/ op = "deregister" /\ s = "RegistrationConfirmed"
                 \/ op = "delete" /\ s \in {"RegistrationFailed", "DeregistrationConfirmed"}

(* Without an entry to save, the operation goes by the row itself.         *)
ManagerRead(m, op, e) ==
  /\ manager[m].pc = "idle"
  /\ \E r \in RowOf(e) :
       /\ op = "refresh" => IsPending(r.state)
       /\ remote[e] = "absent" => MayAct(op, r.state)
       /\ manager' = [manager EXCEPT ![m] =
            [pc |-> IF remote[e] = "absent" THEN "act" ELSE "save",
             op |-> op, row |-> r, seen |-> remote[e]]]
  /\ UNCHANGED <<refs, remote, lock, post, faults, creditVars>>

ManagerSave(m) ==
  LET r == manager[m].row
      seen == manager[m].seen
  IN
  /\ manager[m].pc = "save"
  /\ IF OwnedByOther(r.entry, r.owner)
     THEN manager' = [manager EXCEPT ![m] = IdleManager] /\ UNCHANGED refs
     ELSE /\ refs' = Saved(r.entry, r.owner, seen)
          /\ manager' = [manager EXCEPT ![m] =
               IF MayAct(manager[m].op, seen)
               THEN [@ EXCEPT !.pc = "act", !.row = SavedRow(r.entry, r.owner, seen)]
               ELSE IdleManager]
  /\ UNCHANGED <<remote, lock, post, faults, creditVars>>

(* The payment node refuses what its entry no longer allows.               *)
ManagerAct(m) ==
  LET e == manager[m].row.entry IN
  /\ manager[m].pc = "act"
  /\ IF manager[m].op = "deregister" /\ remote[e] = "RegistrationConfirmed"
     THEN /\ remote' = [remote EXCEPT ![e] = "DeregistrationRequested"]
          /\ manager' = [manager EXCEPT ![m].pc = "saveReply",
                                        ![m].seen = "DeregistrationRequested"]
     ELSE IF manager[m].op = "delete" /\ remote[e] # "absent"
     THEN /\ remote' = [remote EXCEPT ![e] = "absent"]
          /\ manager' = [manager EXCEPT ![m].pc = "deleteRow"]
     ELSE manager' = [manager EXCEPT ![m] = IdleManager] /\ UNCHANGED remote
  /\ UNCHANGED <<refs, lock, post, faults, creditVars>>

ManagerSaveReply(m) ==
  LET r == manager[m].row IN
  /\ manager[m].pc = "saveReply"
  /\ refs' = IF OwnedByOther(r.entry, r.owner) THEN refs
             ELSE Saved(r.entry, r.owner, manager[m].seen)
  /\ manager' = [manager EXCEPT ![m] = IdleManager]
  /\ UNCHANGED <<remote, lock, post, faults, creditVars>>

ManagerDeleteRow(m) ==
  /\ manager[m].pc = "deleteRow"
  /\ refs' = {r \in refs : r.id # manager[m].row.id}
  /\ manager' = [manager EXCEPT ![m] = IdleManager]
  /\ UNCHANGED <<remote, lock, post, faults, creditVars>>

(* A lost reply, a failed statement or a crash: the rest does not happen.  *)
ManagerDies(m) ==
  /\ manager[m].pc # "idle"
  /\ Fault(m, "crash")
  /\ manager' = [manager EXCEPT ![m] = IdleManager]
  /\ UNCHANGED <<refs, remote, lock, post, creditVars>>

(* The payment node settles what is pending on chain.                      *)
NodeSettles(e) ==
  /\ \E s \in Outcomes(remote[e]) : remote' = [remote EXCEPT ![e] = s]
  /\ UNCHANGED <<refs, lock, post, manager, faults, creditVars>>

------------------------------------------------------------------------------
PostStep(p) ==
  \/ ScanNext(p) \/ ScanSave(p) \/ CheckRegistry(p)
  \/ ReserveLock(p) \/ ReserveCheck(p) \/ ReserveInsert(p) \/ ReserveFails(p)
  \/ Debit(p) \/ DebitRefused(p)
  \/ SendRegister(p) \/ RegisterAnswered(p) \/ RegisterRejected(p) \/ RegisterReplyLost(p)
  \/ Finalize(p) \/ FinalizeFails(p) \/ CleanRemote(p)
  \/ RefundAfterFailure(p) \/ CleanReservation(p)

ManagerStep(m) ==
  \/ ManagerSave(m) \/ ManagerAct(m) \/ ManagerSaveReply(m) \/ ManagerDeleteRow(m)

Next ==
  \/ \E p \in Posts : ScanRows(p) \/ PostStep(p) \/ Crash(p) \/ NodeRegisters(p)
  \/ \E m \in Managers, op \in Operations, e \in Posts : ManagerRead(m, op, e)
  \/ \E m \in Managers : ManagerStep(m) \/ ManagerDies(m)
  \/ \E e \in Posts : NodeSettles(e)

Spec == Init /\ [][Next]_vars

(* Requests run to their end, and owners keep listing their inbox agents:  *)
(* the list refreshes every pending row it shows.                          *)
FairSpec ==
  /\ Spec
  /\ \A m \in Managers : /\ WF_vars(ManagerStep(m))
                         /\ \A e \in Posts : SF_vars(ManagerRead(m, "refresh", e))

------------------------------------------------------------------------------
(* Properties.                                                             *)

Happened(who, kinds) == \E k \in kinds : <<who, k>> \in faults
Finished(p) == post[p].pc \in {"ok", "failed"}

(* Types, and at most one row per payment node entry (the unique index).   *)
TypeOK ==
  /\ \A r \in refs : /\ r.owner \in Users
                     /\ r.entry \in Posts \cup {None}
                     /\ r.state \in RegistrationStates
  /\ \A e \in Posts : Cardinality(RowOf(e)) <= 1
  /\ remote \in [Posts -> EntryStates]
  /\ lock \in Posts \cup {None}
  /\ \A p \in Posts : lock = p => post[p].pc \in {"reserveCheck", "reserveInsert"}

(* However the POSTs for a slug interleave, one reservation exists at most: *)
(* the check under the advisory lock sees what the last holder inserted.   *)
OneReservation == Cardinality({r \in refs : IsReservation(r)}) <= 1

(* As long as no reply was lost and no entry was left behind by a failed   *)
(* clean-up, the payment node never holds two entries for the slug that    *)
(* are registered or on their way, whatever stale refreshes write locally. *)
SlugExclusive ==
  (\A p \in Posts : ~Happened(p, {"replyLost", "entryLeft"}))
  => Cardinality({e \in Posts : Live(e) /\ remote[e] # "DeregistrationFailed"}) <= 1

(* A reservation never outlives its request, except after a crash of the   *)
(* request or a failed deletion (and then nothing ever removes it).        *)
ReservationsHaveRequest ==
  \A r \in refs : IsReservation(r) =>
    InFlight(r.id) \/ Happened(r.id, {"crash", "rowLeft"})

(* The rows and entries of one slug.                                       *)
SlugInvariant == TypeOK /\ OneReservation /\ SlugExclusive /\ ReservationsHaveRequest

(* A finished request has cost a credit exactly if it was answered with    *)
(* success, except where the debit's or the refund's own commit was lost.  *)
ChargeMatchesOutcome ==
  \A p \in Posts :
    /\ At(p, "ok") => p \in spent[Author[p]] \ refunded[Author[p]]
    /\ At(p, "failed") /\ p \in spent[Author[p]] \ refunded[Author[p]] =>
         Happened(p, {"debitUnnoticed", "refundLost"})

(* An entry that is live once its request is answered can be managed: some *)
(* row refers to it, unless the reply was lost, the request crashed or the *)
(* removal of the unrecorded entry failed.                                 *)
NoUnnoticedOrphan ==
  \A e \in Posts :
    Live(e) /\ Finished(e) /\ ~Happened(e, {"replyLost", "crash"}) =>
      \/ RowOf(e) # {}
      \/ \E p \in Posts : Happened(p, {"entryLeft", "crash"}) /\ post[p].entry = e
      \/ \E p \in Posts : InFlight(p) /\ post[p].entry = e

(* No save, refresh, merge or re-creation ever gives an entry's row to     *)
(* another user.                                                           *)
OwnerNeverChanges ==
  [][\A e \in Posts : \A r \in RowOf(e), q \in RowOf(e)' : r.owner = q.owner]_vars

(* A settled entry is not shown as pending for ever: stale answers that    *)
(* overwrite newer ones are themselves overwritten by a later refresh.     *)
PendingRowsSettle ==
  \A e \in Posts :
    []<>~(/\ remote[e] \notin InProgress \cup {"absent"}
          /\ \E r \in RowOf(e) : r.state \in InProgress)

------------------------------------------------------------------------------
(* What texts of the repository say and the code does not keep: TLC        *)
(* refutes these (see the README).                                         *)

(* "The slug remains unavailable until the registry confirms               *)
(* deregistration" (deregister route): no request reserves the slug while  *)
(* an entry whose deregistration was requested is not deregistered.        *)
SlugHeldUntilDeregistered ==
  [][\A p \in Posts : ReserveInsert(p) =>
       \A e \in Posts : remote[e] \notin {"DeregistrationRequested",
                                          "DeregistrationFailed"}]_vars
==============================================================================
