----------------------- MODULE AgentRegistration_proofs -----------------------
(***************************************************************************)
(* Proofs about AgentRegistration, for any number of polls and of requests *)
(* of the owner, and any time-outs: its types and locks; that the entry    *)
(* the agent refers to is never replaced; that an agent shown as           *)
(* registered is identified by an entry that was minted; that what a poll  *)
(* or a sync did reaches the agent's rows and its activity feed; that the  *)
(* rows of an agent never go before their entry; and that an agent is      *)
(* registered once as long as no transaction is abandoned.                 *)
(***************************************************************************)
EXTENDS AgentRegistration, TLAPS

PollPCs == {"start", "lookup", "apply", "event", "lock", "assets", "match", "register",
            "await", "registered", "pending", "timedOut", "error"}
ManagerPCs == {"idle", "lookup", "write", "call", "deregister", "event", "deleteEntry",
               "deleteEvent", "delete", "cascade"}
Requests == {"none", "sent", "handled", "answered", "refused"}
PollRecords == [pc : PollPCs, attempt : BOOLEAN, entry : Polls \cup {None},
                seen : EntryStates, request : Requests]
ManagerRecords == [pc : ManagerPCs, op : Operations, agent : AgentRows \cup {None},
                   ref : RefRows \cup {None}, seen : EntryStates]

Types ==
  /\ agent \in AgentRows \cup {None} /\ ref \in RefRows \cup {None}
  /\ start \in {"agent", "reference", "event", "done"}
  /\ poll \in [Polls -> PollRecords] /\ manager \in [Managers -> ManagerRecords]
  /\ txLock \in Polls \cup {None} /\ deleteLock \in Managers \cup {None}
  /\ entries \in [Polls -> EntryStates]

(* The two rows come one after the other, go together, and nobody manages  *)
(* an agent that has no reference yet.                                     *)
Rows ==
  /\ start = "agent" => agent = None
  /\ start = "reference" => agent # None
  /\ start \in {"agent", "reference"} =>
       ref = None /\ \A m \in Managers : manager[m].pc = "idle"
  /\ start \in {"event", "done"} => (agent = None <=> ref = None)

(* The transaction that holds the reference has found no entry in it.      *)
InTransaction == {"assets", "match", "register", "await"}
Locks ==
  /\ \A p \in Polls : txLock = p =>
       poll[p].pc \in InTransaction /\ ref # None /\ ref.externalId = None
  /\ \A m \in Managers : (deleteLock = m) <=> (manager[m].pc = "cascade")

(* What a reply is applied from is a reply about an entry.                 *)
Replies ==
  /\ \A p \in Polls :
       poll[p].pc = "apply" \/ poll[p].request = "answered" => poll[p].seen # "absent"
  /\ \A m \in Managers :
       /\ manager[m].pc \in {"lookup", "write"} => manager[m].ref # None
       /\ manager[m].pc = "write" => manager[m].seen # "absent"

IInv == Types /\ Rows /\ Locks /\ Replies

(* An entry that is minted stays so: its poll does not register again, and *)
(* what has an identifier is neither requested nor failed.                 *)
BeforeAwait == {"start", "lock", "lookup", "apply", "assets", "register", "match"}
Fresh == {"start", "lock", "lookup", "assets", "register"}
MintedIn(e, ps, es) ==
  /\ e \in Polls /\ ps[e].request \in {"handled", "answered"}
  /\ es[e] \notin {"RegistrationRequested", "RegistrationFailed"}
Minted(e) == MintedIn(e, poll, entries)

MintInv ==
  /\ \A p \in Polls :
       /\ poll[p].pc \in BeforeAwait => poll[p].request = "none"
       /\ poll[p].pc \in Fresh => poll[p].seen = "absent"
       /\ entries[p] # "absent" => poll[p].request \in {"handled", "answered"}
       /\ poll[p].pc = "match" => Minted(poll[p].entry)
       /\ poll[p].pc = "apply" /\ HasIdentifier(poll[p].seen) => Minted(poll[p].entry)
       /\ poll[p].pc = "await" /\ HasIdentifier(poll[p].seen) => Minted(p)
  /\ \A m \in Managers :
       manager[m].pc = "write" /\ HasIdentifier(manager[m].seen)
            => Minted(manager[m].ref.externalId)
  /\ agent # None /\ agent.state = "RegistrationConfirmed" => Minted(agent.identifier)

------------------------------------------------------------------------------
(* Rows are never None.                                                    *)
LEMMA NoRow == None \notin AgentRows /\ None \notin RefRows
BY AgentAssumption

(* What is written to the rows keeps them rows.                            *)
LEMMA WrittenAgents ==
  ASSUME NEW a \in AgentRows, NEW e \in Polls \cup {None}, NEW s \in RegistrationStates
  PROVE  /\ Observed(a, e, s) \in AgentRows
         /\ [a EXCEPT !.state = s] \in AgentRows
         /\ [state |-> s, identifier |-> e] \in AgentRows
BY DEF AgentRows, Observed

(* The same for the reference's row.                                       *)
LEMMA WrittenRefs ==
  ASSUME NEW r \in RefRows, NEW e \in Polls \cup {None}, NEW b \in BOOLEAN,
         NEW t \in {"PENDING", "ACTIVE", "DEREGISTERED"}
  PROVE  /\ [r EXCEPT !.status = t, !.attempt = b] \in RefRows
         /\ [r EXCEPT !.externalId = e, !.attempt = b] \in RefRows
         /\ [r EXCEPT !.attempt = b] \in RefRows
BY DEF RefRows

(* A step of poll p that writes no row keeps the invariant, if it leaves   *)
(* its transaction when it is no longer in one.                            *)
LEMMA PollMoves ==
  ASSUME IInv, NEW p \in Polls, NEW x \in PollRecords,
         poll' = [poll EXCEPT ![p] = x],
         UNCHANGED <<agent, ref, start, manager, deleteLock, entries>>,
         txLock' \in {txLock, None},
         txLock' = p => x.pc \in InTransaction,
         x.pc = "apply" \/ x.request = "answered" => x.seen # "absent"
  PROVE  IInv'
<1>1. poll \in [Polls -> PollRecords]
  BY DEF IInv, Types
<1>2. poll' \in [Polls -> PollRecords] /\ poll'[p] = x
      /\ \A q \in Polls : q # p => poll'[q] = poll[q]
  BY <1>1
<1>3. Types'
  BY <1>2 DEF IInv, Types
<1>4. Rows'
  BY DEF IInv, Rows
<1>5. Locks'
  BY <1>2, AgentAssumption DEF IInv, Locks
<1>6. Replies'
  BY <1>2 DEF IInv, Replies
<1> QED
  BY <1>3, <1>4, <1>5, <1>6 DEF IInv

(* A step of poll p that writes rows and ends its transaction.             *)
LEMMA PollWrites ==
  ASSUME IInv, NEW p \in Polls, NEW x \in PollRecords,
         poll' = [poll EXCEPT ![p] = x],
         agent # None, agent' \in AgentRows,
         ref # None => ref' \in RefRows, ref = None => ref' = None,
         UNCHANGED <<start, manager, deleteLock, entries>>,
         \/ txLock' = None
         \/ txLock' = txLock /\ txLock # p /\ ref' = ref,
         x.pc # "apply", x.request = "answered" => x.seen # "absent"
  PROVE  IInv'
<1>1. poll \in [Polls -> PollRecords]
  BY DEF IInv, Types
<1>2. poll' \in [Polls -> PollRecords] /\ poll'[p] = x
      /\ \A q \in Polls : q # p => poll'[q] = poll[q]
  BY <1>1
<1>3. agent' # None /\ (ref' = None <=> ref = None) /\ ref' \in RefRows \cup {None}
  BY NoRow
<1>4. Types'
  BY <1>2, <1>3 DEF IInv, Types
<1>5. Rows'
  BY <1>3 DEF IInv, Rows
<1>6. Locks'
  BY <1>2, AgentAssumption DEF IInv, Locks
<1>7. Replies'
  BY <1>2 DEF IInv, Replies
<1> QED
  BY <1>4, <1>5, <1>6, <1>7 DEF IInv

(* The typing facts every step starts from.                                *)
LEMMA Typed ==
  ASSUME IInv
  PROVE  /\ agent # None => agent \in AgentRows
         /\ ref # None => ref \in RefRows /\ agent # None
         /\ \A p \in Polls : poll[p] \in PollRecords /\ entries[p] \in EntryStates
         /\ poll \in [Polls -> PollRecords]
BY DEF IInv, Types, Rows

(* PollRead keeps the types, rows, locks and replies.                      *)
LEMMA PollReadInv == ASSUME IInv, NEW p \in Polls, PollRead(p) PROVE IInv'
<1> DEFINE x == poll[p]
<1>0. x \in PollRecords
  BY Typed
<1>x. /\ x.request = "answered" => x.seen # "absent"
      /\ x.pc = "apply" => x.seen # "absent"
      /\ txLock = p => x.pc \in InTransaction
  BY DEF IInv, Replies, Locks
<1>y. x.pc = "start"
  BY DEF PollRead, At
<1> HIDE DEF x
<1>1. CASE \E c \in {"error", "registered"} : poll' = [poll EXCEPT ![p].pc = c]
  <2>1. PICK c \in {"error", "registered"} : poll' = [poll EXCEPT ![p].pc = c]
    BY <1>1
  <2> DEFINE y == [x EXCEPT !.pc = c]
  <2>a. poll' = [poll EXCEPT ![p] = y]
    BY <2>1 DEF At, x
  <2>b. y \in PollRecords
        /\ y.pc = c /\ y.seen = x.seen /\ y.request = x.request
    BY <1>0, <2>1 DEF PollRecords, PollPCs
  <2> HIDE DEF y
  <2>c. txLock' \in {txLock, None} /\ (txLock' = p => y.pc \in InTransaction)
    BY <2>b, <1>x, <1>y DEF PollRead, InTransaction
  <2>d. y.pc = "apply" \/ y.request = "answered" => y.seen # "absent"
    BY <2>b, <2>1, <1>x
  <2>e. UNCHANGED <<agent, ref, start, manager, deleteLock, entries>>
    BY DEF PollRead
  <2> QED
    BY <2>a, <2>b, <2>c, <2>d, <2>e, PollMoves
<1>2. CASE ref # None /\ poll' = [poll EXCEPT ![p].pc = "lock", ![p].attempt = ref.attempt]
  <2> DEFINE y == [x EXCEPT !.pc = "lock", !.attempt = ref.attempt]
  <2>a. poll' = [poll EXCEPT ![p] = y]
    BY <1>2 DEF At, x
  <2>b. y \in PollRecords
        /\ y.pc = "lock" /\ y.seen = x.seen /\ y.request = x.request
    BY <1>0, <1>2, Typed DEF RefRows, PollRecords, PollPCs
  <2> HIDE DEF y
  <2>c. txLock' \in {txLock, None} /\ (txLock' = p => y.pc \in InTransaction)
    BY <2>b, <1>x, <1>y DEF PollRead, InTransaction
  <2>d. y.pc = "apply" \/ y.request = "answered" => y.seen # "absent"
    BY <2>b, <1>x
  <2>e. UNCHANGED <<agent, ref, start, manager, deleteLock, entries>>
    BY DEF PollRead
  <2> QED
    BY <2>a, <2>b, <2>c, <2>d, <2>e, PollMoves
<1>3. CASE ref # None /\ poll' = [poll EXCEPT ![p].pc = "lookup", ![p].entry = ref.externalId]
  <2> DEFINE y == [x EXCEPT !.pc = "lookup", !.entry = ref.externalId]
  <2>a. poll' = [poll EXCEPT ![p] = y]
    BY <1>3 DEF At, x
  <2>b. y \in PollRecords
        /\ y.pc = "lookup" /\ y.seen = x.seen /\ y.request = x.request
    BY <1>0, <1>3, Typed DEF RefRows, PollRecords, PollPCs
  <2> HIDE DEF y
  <2>c. txLock' \in {txLock, None} /\ (txLock' = p => y.pc \in InTransaction)
    BY <2>b, <1>x, <1>y DEF PollRead, InTransaction
  <2>d. y.pc = "apply" \/ y.request = "answered" => y.seen # "absent"
    BY <2>b, <1>x
  <2>e. UNCHANGED <<agent, ref, start, manager, deleteLock, entries>>
    BY DEF PollRead
  <2> QED
    BY <2>a, <2>b, <2>c, <2>d, <2>e, PollMoves
<1> QED
  BY <1>1, <1>2, <1>3 DEF PollRead, Goto

(* PollLookup keeps the types, rows, locks and replies.                    *)
LEMMA PollLookupInv == ASSUME IInv, NEW p \in Polls, PollLookup(p) PROVE IInv'
<1> DEFINE x == poll[p]
<1>0. x \in PollRecords
  BY Typed
<1>x. /\ x.request = "answered" => x.seen # "absent"
      /\ x.pc = "apply" => x.seen # "absent"
      /\ txLock = p => x.pc \in InTransaction
  BY DEF IInv, Replies, Locks
<1>y. x.pc = "lookup"
  BY DEF PollLookup, At
<1> HIDE DEF x
<1>1. CASE poll' = [poll EXCEPT ![p].pc = "pending"]
  <2> DEFINE y == [x EXCEPT !.pc = "pending"]
  <2>a. poll' = [poll EXCEPT ![p] = y]
    BY <1>1 DEF At, x
  <2>b. y \in PollRecords
        /\ y.pc = "pending" /\ y.seen = x.seen /\ y.request = x.request
    BY <1>0 DEF PollRecords, PollPCs
  <2> HIDE DEF y
  <2>c. txLock' \in {txLock, None} /\ (txLock' = p => y.pc \in InTransaction)
    BY <2>b, <1>x, <1>y DEF PollLookup, InTransaction
  <2>d. y.pc = "apply" \/ y.request = "answered" => y.seen # "absent"
    BY <2>b, <1>x
  <2>e. UNCHANGED <<agent, ref, start, manager, deleteLock, entries>>
    BY DEF PollLookup
  <2> QED
    BY <2>a, <2>b, <2>c, <2>d, <2>e, PollMoves
<1>2. CASE /\ Known(x.entry)
           /\ poll' = [poll EXCEPT ![p].pc = "apply", ![p].seen = entries[x.entry]]
  <2>1. entries[x.entry] \in EntryStates /\ entries[x.entry] # "absent"
    BY <1>0, <1>2, Typed DEF Known, PollRecords
  <2> DEFINE y == [x EXCEPT !.pc = "apply", !.seen = entries[x.entry]]
  <2>a. poll' = [poll EXCEPT ![p] = y]
    BY <1>2 DEF At, x
  <2>b. y \in PollRecords
        /\ y.pc = "apply" /\ y.seen = entries[x.entry] /\ y.request = x.request
    BY <1>0, <2>1 DEF PollRecords, PollPCs
  <2> HIDE DEF y
  <2>c. txLock' \in {txLock, None} /\ (txLock' = p => y.pc \in InTransaction)
    BY <2>b, <1>x, <1>y DEF PollLookup, InTransaction
  <2>d. y.pc = "apply" \/ y.request = "answered" => y.seen # "absent"
    BY <2>b, <2>1
  <2>e. UNCHANGED <<agent, ref, start, manager, deleteLock, entries>>
    BY DEF PollLookup
  <2> QED
    BY <2>a, <2>b, <2>c, <2>d, <2>e, PollMoves
<1> QED
  BY <1>1, <1>2 DEF PollLookup, Goto, x

(* PollAssets keeps the types, rows, locks and replies.                    *)
LEMMA PollAssetsInv == ASSUME IInv, NEW p \in Polls, PollAssets(p) PROVE IInv'
<1> DEFINE x == poll[p]
<1>0. x \in PollRecords
  BY Typed
<1>x. /\ x.request = "answered" => x.seen # "absent"
      /\ x.pc = "apply" => x.seen # "absent"
      /\ txLock = p => x.pc \in InTransaction
  BY DEF IInv, Replies, Locks
<1>y. x.pc = "assets"
  BY DEF PollAssets, At
<1> HIDE DEF x
<1>1. CASE \E e \in Polls :
             /\ poll' = [poll EXCEPT ![p].pc = "match", ![p].entry = e,
                                     ![p].seen = "RegistrationConfirmed"]
             /\ UNCHANGED txLock
  <2>1. PICK e \in Polls :
          /\ poll' = [poll EXCEPT ![p].pc = "match", ![p].entry = e,
                                  ![p].seen = "RegistrationConfirmed"]
          /\ UNCHANGED txLock
    BY <1>1
  <2> DEFINE y == [x EXCEPT !.pc = "match", !.entry = e, !.seen = "RegistrationConfirmed"]
  <2>a. poll' = [poll EXCEPT ![p] = y]
    BY <2>1 DEF At, x
  <2>b. y \in PollRecords
        /\ y.pc = "match" /\ y.seen = "RegistrationConfirmed" /\ y.request = x.request
    BY <1>0, <2>1 DEF EntryStates, RegistrationStates, PollRecords, PollPCs
  <2> HIDE DEF y
  <2>c. txLock' \in {txLock, None} /\ (txLock' = p => y.pc \in InTransaction)
    BY <2>b, <2>1 DEF InTransaction
  <2>d. y.pc = "apply" \/ y.request = "answered" => y.seen # "absent"
    BY <2>b, <1>x
  <2>e. UNCHANGED <<agent, ref, start, manager, deleteLock, entries>>
    BY DEF PollAssets
  <2> QED
    BY <2>a, <2>b, <2>c, <2>d, <2>e, PollMoves
<1>2. CASE Goto(p, "register") /\ UNCHANGED txLock
  <2> DEFINE y == [x EXCEPT !.pc = "register"]
  <2>a. poll' = [poll EXCEPT ![p] = y]
    BY <1>2 DEF Goto, x
  <2>b. y \in PollRecords
        /\ y.pc = "register" /\ y.seen = x.seen /\ y.request = x.request
    BY <1>0 DEF PollRecords, PollPCs
  <2> HIDE DEF y
  <2>c. txLock' \in {txLock, None} /\ (txLock' = p => y.pc \in InTransaction)
    BY <2>b, <1>2 DEF InTransaction
  <2>d. y.pc = "apply" \/ y.request = "answered" => y.seen # "absent"
    BY <2>b, <1>x
  <2>e. UNCHANGED <<agent, ref, start, manager, deleteLock, entries>>
    BY DEF PollAssets
  <2> QED
    BY <2>a, <2>b, <2>c, <2>d, <2>e, PollMoves
<1>3. CASE \E c \in {"pending", "error"} : Goto(p, c) /\ Release(p)
  <2>1. PICK c \in {"pending", "error"} : Goto(p, c) /\ Release(p)
    BY <1>3
  <2> DEFINE y == [x EXCEPT !.pc = c]
  <2>a. poll' = [poll EXCEPT ![p] = y]
    BY <2>1 DEF Goto, x
  <2>b. y \in PollRecords
        /\ y.pc = c /\ y.seen = x.seen /\ y.request = x.request
    BY <1>0, <2>1 DEF PollRecords, PollPCs
  <2> HIDE DEF y
  <2>c. txLock' \in {txLock, None} /\ (txLock' = p => y.pc \in InTransaction)
    BY <2>b, <2>1, AgentAssumption DEF Release
  <2>d. y.pc = "apply" \/ y.request = "answered" => y.seen # "absent"
    BY <2>b, <2>1, <1>x
  <2>e. UNCHANGED <<agent, ref, start, manager, deleteLock, entries>>
    BY DEF PollAssets
  <2> QED
    BY <2>a, <2>b, <2>c, <2>d, <2>e, PollMoves
<1> QED
  BY <1>1, <1>2, <1>3 DEF PollAssets

(* PollSend keeps the types, rows, locks and replies.                      *)
LEMMA PollSendInv == ASSUME IInv, NEW p \in Polls, PollSend(p) PROVE IInv'
<1> DEFINE x == poll[p]
<1>0. x \in PollRecords
  BY Typed
<1>x. /\ x.request = "answered" => x.seen # "absent"
      /\ x.pc = "apply" => x.seen # "absent"
      /\ txLock = p => x.pc \in InTransaction
  BY DEF IInv, Replies, Locks
<1>y. x.pc = "register"
  BY DEF PollSend, At
<1> HIDE DEF x
<1> DEFINE y == [x EXCEPT !.pc = "await", !.request = "sent"]
<1>a. poll' = [poll EXCEPT ![p] = y]
  BY DEF PollSend, x
<1>b. y \in PollRecords
      /\ y.pc = "await" /\ y.seen = x.seen /\ y.request = "sent"
  BY <1>0 DEF Requests, PollRecords, PollPCs
<1> HIDE DEF y
<1>c. txLock' \in {txLock, None} /\ (txLock' = p => y.pc \in InTransaction)
  BY <1>b DEF PollSend, InTransaction
<1>d. y.pc = "apply" \/ y.request = "answered" => y.seen # "absent"
  BY <1>b, <1>0
<1>e. UNCHANGED <<agent, ref, start, manager, deleteLock, entries>>
  BY DEF PollSend
<1> QED
  BY <1>a, <1>b, <1>c, <1>d, <1>e, PollMoves

(* NodeAnswers keeps the types, rows, locks and replies.                   *)
LEMMA NodeAnswersInv == ASSUME IInv, NEW p \in Polls, NodeAnswers(p) PROVE IInv'
<1> DEFINE x == poll[p]
<1>0. x \in PollRecords
  BY Typed
<1>x. /\ x.request = "answered" => x.seen # "absent"
      /\ x.pc = "apply" => x.seen # "absent"
      /\ txLock = p => x.pc \in InTransaction
  BY DEF IInv, Replies, Locks
<1> HIDE DEF x
<1> DEFINE y == [x EXCEPT !.request = "answered", !.seen = entries[p]]
<1>a. poll' = [poll EXCEPT ![p] = y]
  BY DEF NodeAnswers, x
<1>b. y \in PollRecords
      /\ y.pc = x.pc /\ y.seen = entries[p] /\ y.request = "answered"
  BY <1>0, Typed DEF Requests, PollRecords, PollPCs
<1> HIDE DEF y
<1>c. txLock' \in {txLock, None} /\ (txLock' = p => y.pc \in InTransaction)
  BY <1>b, <1>x DEF NodeAnswers
<1>d. y.pc = "apply" \/ y.request = "answered" => y.seen # "absent"
  BY <1>b DEF NodeAnswers
<1>e. UNCHANGED <<agent, ref, start, manager, deleteLock, entries>>
  BY DEF NodeAnswers
<1> QED
  BY <1>a, <1>b, <1>c, <1>d, <1>e, PollMoves

(* A poll that fails leaves the rows alone and ends its transaction.       *)
LEMMA PollErrorInv ==
  ASSUME IInv, NEW p \in Polls, PollError(p), UNCHANGED <<start, manager, deleteLock, entries>>
  PROVE  IInv'
<1> DEFINE x == poll[p]
<1>0. x \in PollRecords
  BY Typed
<1>x. x.request = "answered" => x.seen # "absent"
  BY DEF IInv, Replies
<1> HIDE DEF x
<1> DEFINE y == [x EXCEPT !.pc = "error"]
<1>a. poll' = [poll EXCEPT ![p] = y]
  BY DEF PollError, Goto, x
<1>b. y \in PollRecords
      /\ y.pc = "error" /\ y.seen = x.seen /\ y.request = x.request
  BY <1>0 DEF PollRecords, PollPCs
<1> HIDE DEF y
<1>c. txLock' \in {txLock, None} /\ (txLock' = p => y.pc \in InTransaction)
  BY <1>b, AgentAssumption DEF PollError, Release
<1>d. y.pc = "apply" \/ y.request = "answered" => y.seen # "absent"
  BY <1>b, <1>x
<1>e. UNCHANGED <<agent, ref, start, manager, deleteLock, entries>>
  BY DEF PollError
<1> QED
  BY <1>a, <1>b, <1>c, <1>d, <1>e, PollMoves

(* PollApply keeps the types, rows, locks and replies.                     *)
LEMMA PollApplyInv == ASSUME IInv, NEW p \in Polls, PollApply(p) PROVE IInv'
<1> DEFINE x == poll[p]
<1>0. x \in PollRecords
  BY Typed
<1>x. /\ x.request = "answered" => x.seen # "absent"
      /\ x.pc = "apply" => x.seen # "absent"
      /\ txLock = p => x.pc \in InTransaction
  BY DEF IInv, Replies, Locks
<1>y. x.pc = "apply"
  BY DEF PollApply, At
<1> HIDE DEF x
<1>1. PICK c \in {"event", "pending"} : poll' = [poll EXCEPT ![p].pc = c]
  BY DEF PollApply, Goto, AfterWrite
<1>2. CASE agent = None
  <2> DEFINE y == [x EXCEPT !.pc = c]
  <2>a. poll' = [poll EXCEPT ![p] = y]
    BY <1>1 DEF At, x
  <2>b. y \in PollRecords
        /\ y.pc = c /\ y.seen = x.seen /\ y.request = x.request
    BY <1>0, <1>1 DEF PollRecords, PollPCs
  <2> HIDE DEF y
  <2>c. txLock' \in {txLock, None} /\ (txLock' = p => y.pc \in InTransaction)
    BY <2>b, <1>x, <1>y, AgentAssumption DEF InTransaction, PollApply
  <2>d. y.pc = "apply" \/ y.request = "answered" => y.seen # "absent"
    BY <2>b, <1>1, <1>x
  <2>e. UNCHANGED <<agent, ref, start, manager, deleteLock, entries>>
    BY <1>2 DEF PollApply
  <2> QED
    BY <2>a, <2>b, <2>c, <2>d, <2>e, PollMoves
<1>3. CASE agent # None
  <2>1. x.seen \in RegistrationStates /\ x.entry \in Polls \cup {None}
    BY <1>0, <1>x, <1>y DEF PollRecords, EntryStates
  <2>2. agent' = Observed(agent, x.entry, x.seen)
    BY <1>3 DEF PollApply, x
  <2> DEFINE y == [x EXCEPT !.pc = c]
  <2>a. poll' = [poll EXCEPT ![p] = y]
    BY <1>1 DEF At, x
  <2>b. y \in PollRecords
        /\ y.pc = c /\ y.seen = x.seen /\ y.request = x.request
    BY <1>0, <1>1 DEF PollRecords, PollPCs
  <2> HIDE DEF y
  <2>c. txLock' = None \/ (txLock' = txLock /\ txLock # p /\ ref' = ref)
    BY <1>x, <1>y DEF PollApply, InTransaction
  <2>d. y.pc # "apply" /\ (y.request = "answered" => y.seen # "absent")
    BY <2>b, <1>1, <1>x
  <2>e. agent # None /\ agent' \in AgentRows
    BY <1>3, <2>1, <2>2, Typed, WrittenAgents
  <2>f. /\ ref # None => ref' \in RefRows
        /\ ref = None => ref' = None
    BY Typed DEF PollApply
  <2>g. UNCHANGED <<start, manager, deleteLock, entries>>
    BY DEF PollApply
  <2> QED
    BY <2>a, <2>b, <2>c, <2>d, <2>e, <2>f, <2>g, PollWrites
<1> QED
  BY <1>2, <1>3

(* PollMatch keeps the types, rows, locks and replies.                     *)
LEMMA PollMatchInv == ASSUME IInv, NEW p \in Polls, PollMatch(p) PROVE IInv'
<1> DEFINE x == poll[p]
<1>0. x \in PollRecords
  BY Typed
<1>x. /\ x.request = "answered" => x.seen # "absent"
      /\ x.pc = "apply" => x.seen # "absent"
      /\ txLock = p => x.pc \in InTransaction
  BY DEF IInv, Replies, Locks
<1> HIDE DEF x
<1>2. CASE ~TxOpen(p)
  BY <1>2, PollErrorInv DEF PollMatch
<1>3. CASE TxOpen(p)
  <2>1. ref # None /\ agent # None /\ ref \in RefRows /\ agent \in AgentRows
    BY <1>3, Typed DEF IInv, Locks, TxOpen
  <2>2. /\ agent' = [state |-> "RegistrationConfirmed", identifier |-> x.entry]
        /\ ref' = [ref EXCEPT !.status = "ACTIVE", !.attempt = x.attempt]
        /\ Release(p)
    BY <1>3 DEF PollMatch, x
  <2> DEFINE y == [x EXCEPT !.pc = "event"]
  <2>a. poll' = [poll EXCEPT ![p] = y]
    BY <1>3 DEF PollMatch, Goto, x
  <2>b. y \in PollRecords
        /\ y.pc = "event" /\ y.seen = x.seen /\ y.request = x.request
    BY <1>0 DEF PollRecords, PollPCs
  <2> HIDE DEF y
  <2>c. txLock' = None \/ (txLock' = txLock /\ txLock # p /\ ref' = ref)
    BY <1>3, <2>2 DEF Release, TxOpen
  <2>d. y.pc # "apply" /\ (y.request = "answered" => y.seen # "absent")
    BY <2>b, <1>x
  <2>e. agent # None /\ agent' \in AgentRows
    BY <1>0, <2>1, <2>2, WrittenAgents DEF PollRecords, RegistrationStates
  <2>f. /\ ref # None => ref' \in RefRows
        /\ ref = None => ref' = None
    BY <1>0, <2>1, <2>2, WrittenRefs DEF PollRecords
  <2>g. UNCHANGED <<start, manager, deleteLock, entries>>
    BY DEF PollMatch
  <2> QED
    BY <2>a, <2>b, <2>c, <2>d, <2>e, <2>f, <2>g, PollWrites
<1> QED
  BY <1>2, <1>3

(* PollRecord keeps the types, rows, locks and replies.                    *)
LEMMA PollRecordInv == ASSUME IInv, NEW p \in Polls, PollRecord(p) PROVE IInv'
<1> DEFINE x == poll[p]
<1>0. x \in PollRecords
  BY Typed
<1>x. /\ x.request = "answered" => x.seen # "absent"
      /\ x.pc = "apply" => x.seen # "absent"
      /\ txLock = p => x.pc \in InTransaction
  BY DEF IInv, Replies, Locks
<1> HIDE DEF x
<1>1. x.seen \in RegistrationStates
  BY <1>0, <1>x DEF PollRecord, x, PollRecords, EntryStates
<1>2. CASE ~TxOpen(p)
  BY <1>2, PollErrorInv DEF PollRecord
<1>3. CASE TxOpen(p)
  <2>1. ref # None /\ agent # None /\ ref \in RefRows /\ agent \in AgentRows
    BY <1>3, Typed DEF IInv, Locks, TxOpen
  <2>2. /\ agent' = Observed(agent, p, x.seen)
        /\ ref' = [ref EXCEPT !.externalId = p, !.attempt = x.attempt]
        /\ Release(p)
    BY <1>3 DEF PollRecord, x
  <2>3. PICK c \in {"event", "pending"} : poll' = [poll EXCEPT ![p].pc = c]
    BY <1>3 DEF PollRecord, Goto, AfterWrite
  <2> DEFINE y == [x EXCEPT !.pc = c]
  <2>a. poll' = [poll EXCEPT ![p] = y]
    BY <2>3 DEF At, x
  <2>b. y \in PollRecords
        /\ y.pc = c /\ y.seen = x.seen /\ y.request = x.request
    BY <1>0, <2>3 DEF PollRecords, PollPCs
  <2> HIDE DEF y
  <2>c. txLock' = None \/ (txLock' = txLock /\ txLock # p /\ ref' = ref)
    BY <1>3, <2>2 DEF Release, TxOpen
  <2>d. y.pc # "apply" /\ (y.request = "answered" => y.seen # "absent")
    BY <2>b, <1>x, <2>3
  <2>e. agent # None /\ agent' \in AgentRows
    BY <1>1, <2>1, <2>2, WrittenAgents
  <2>f. /\ ref # None => ref' \in RefRows
        /\ ref = None => ref' = None
    BY <1>0, <2>1, <2>2, WrittenRefs DEF PollRecords
  <2>g. UNCHANGED <<start, manager, deleteLock, entries>>
    BY DEF PollRecord
  <2> QED
    BY <2>a, <2>b, <2>c, <2>d, <2>e, <2>f, <2>g, PollWrites
<1> QED
  BY <1>2, <1>3

(* PollHttpTimeout keeps the types, rows, locks and replies.               *)
LEMMA PollHttpTimeoutInv == ASSUME IInv, NEW p \in Polls, PollHttpTimeout(p) PROVE IInv'
<1> DEFINE x == poll[p]
<1>0. x \in PollRecords
  BY Typed
<1>x. /\ x.request = "answered" => x.seen # "absent"
      /\ x.pc = "apply" => x.seen # "absent"
      /\ txLock = p => x.pc \in InTransaction
  BY DEF IInv, Replies, Locks
<1> HIDE DEF x
<1>2. CASE ~TxOpen(p)
  BY <1>2, PollErrorInv DEF PollHttpTimeout
<1>3. CASE TxOpen(p)
  <2>1. ref # None /\ agent # None /\ ref \in RefRows /\ agent \in AgentRows
    BY <1>3, Typed DEF IInv, Locks, TxOpen
  <2>2. /\ agent' = [agent EXCEPT !.state = "RegistrationRequested"]
        /\ ref' = [ref EXCEPT !.attempt = TRUE]
        /\ Release(p)
    BY <1>3 DEF PollHttpTimeout, x
  <2> DEFINE y == [x EXCEPT !.pc = "timedOut"]
  <2>a. poll' = [poll EXCEPT ![p] = y]
    BY <1>3 DEF PollHttpTimeout, Goto, x
  <2>b. y \in PollRecords
        /\ y.pc = "timedOut" /\ y.seen = x.seen /\ y.request = x.request
    BY <1>0 DEF PollRecords, PollPCs
  <2> HIDE DEF y
  <2>c. txLock' = None \/ (txLock' = txLock /\ txLock # p /\ ref' = ref)
    BY <1>3, <2>2 DEF Release, TxOpen
  <2>d. y.pc # "apply" /\ (y.request = "answered" => y.seen # "absent")
    BY <2>b, <1>x
  <2>e. agent # None /\ agent' \in AgentRows
    BY <2>1, <2>2, WrittenAgents DEF RegistrationStates
  <2>f. /\ ref # None => ref' \in RefRows
        /\ ref = None => ref' = None
    BY <1>0, <2>1, <2>2, WrittenRefs DEF PollRecords
  <2>g. UNCHANGED <<start, manager, deleteLock, entries>>
    BY DEF PollHttpTimeout
  <2> QED
    BY <2>a, <2>b, <2>c, <2>d, <2>e, <2>f, <2>g, PollWrites
<1> QED
  BY <1>2, <1>3

(* A step of manager m that writes no row and takes or leaves no lock.     *)
LEMMA ManagerMoves ==
  ASSUME IInv, NEW m \in Managers, NEW x \in ManagerRecords,
         manager' = [manager EXCEPT ![m] = x],
         UNCHANGED <<start, poll, txLock, deleteLock, entries>>,
         UNCHANGED <<agent, ref>> \/ (agent # None /\ agent' \in AgentRows /\
                                      ref' \in RefRows /\ ref # None /\ txLock = None),
         manager[m].pc # "idle", manager[m].pc # "cascade", x.pc # "cascade",
         x.pc \in {"lookup", "write"} => x.ref # None,
         x.pc = "write" => x.seen # "absent"
  PROVE  IInv'
<1>1. manager \in [Managers -> ManagerRecords]
  BY DEF IInv, Types
<1>2. manager' \in [Managers -> ManagerRecords] /\ manager'[m] = x
      /\ \A n \in Managers : n # m => manager'[n] = manager[n]
  BY <1>1
<1>3. Types'
  BY <1>2 DEF IInv, Types
<1>4. Rows'
  BY <1>2, NoRow DEF IInv, Rows
<1>5. Locks'
  BY <1>2, AgentAssumption DEF IInv, Locks
<1>6. Replies'
  BY <1>2 DEF IInv, Replies
<1> QED
  BY <1>3, <1>4, <1>5, <1>6 DEF IInv

(* SyncLookup keeps the types, rows, locks and replies.                    *)
LEMMA SyncLookupInv == ASSUME IInv, NEW m \in Managers, SyncLookup(m) PROVE IInv'
<1> DEFINE x == manager[m]
<1>0. x \in ManagerRecords /\ x.pc = "lookup" /\ x.ref # None
  BY DEF IInv, Types, Replies, SyncLookup
<1> HIDE DEF x
<1>1. CASE Done(m)
  <2>1. IdleManager \in ManagerRecords /\ IdleManager.pc = "idle"
    BY DEF IdleManager, ManagerRecords, ManagerPCs, Operations, EntryStates
  <2> QED
    BY <1>0, <1>1, <2>1, ManagerMoves DEF Done, SyncLookup, x
<1>2. CASE ~Done(m)
  <2>1. x.ref.externalId \in Polls /\ entries[x.ref.externalId] \in EntryStates \ {"absent"}
    BY <1>0, <1>2, Typed DEF SyncLookup, Known, x, ManagerRecords, RefRows
  <2> DEFINE s == entries[x.ref.externalId]
             y == [x EXCEPT !.pc = "write", !.seen = s]
  <2>2. manager' = [manager EXCEPT ![m] = y]
    BY <1>2 DEF SyncLookup, x
  <2>3. y \in ManagerRecords /\ y.pc = "write" /\ y.ref = x.ref /\ y.seen = s
    BY <1>0, <2>1 DEF ManagerRecords, ManagerPCs
  <2>4. s # "absent"
    BY <2>1
  <2>5. UNCHANGED <<start, poll, txLock, deleteLock, entries, agent, ref>>
    BY DEF SyncLookup
  <2> HIDE DEF y, s
  <2> QED
    BY <1>0, <2>2, <2>3, <2>4, <2>5, ManagerMoves DEF x
<1> QED
  BY <1>1, <1>2

(* SyncWrite keeps the types, rows, locks and replies.                     *)
LEMMA SyncWriteInv == ASSUME IInv, NEW m \in Managers, SyncWrite(m) PROVE IInv'
<1> DEFINE x == manager[m]
<1>0. x \in ManagerRecords /\ x.pc = "write" /\ x.ref # None /\ x.seen # "absent"
  BY DEF IInv, Types, Replies, SyncWrite
<1> HIDE DEF x
<1>1. /\ x.seen \in RegistrationStates /\ x.ref.externalId \in Polls \cup {None}
      /\ x.ref.attempt \in BOOLEAN
      /\ x.ref.status \in {"PENDING", "ACTIVE", "DEREGISTERED"}
  BY <1>0 DEF ManagerRecords, RefRows, EntryStates
<1>2. PICK y \in {IdleManager, [x EXCEPT !.pc = "event"]} : manager' = [manager EXCEPT ![m] = y]
  BY DEF SyncWrite, Done, Leave, x
<1>3. y \in ManagerRecords /\ y.pc \in {"idle", "event"}
  BY <1>0, <1>2 DEF IdleManager, ManagerRecords, ManagerPCs, Operations, EntryStates
<1>4. UNCHANGED <<start, poll, txLock, deleteLock, entries>> /\ txLock = None
  BY DEF SyncWrite
<1>5. CASE agent = None
  <2>1. UNCHANGED <<agent, ref>>
    BY <1>5 DEF SyncWrite
  <2> QED
    BY <1>0, <1>2, <1>3, <1>4, <2>1, ManagerMoves DEF x
<1>6. CASE agent # None
  <2>1. agent \in AgentRows /\ ref \in RefRows /\ ref # None
    <3>1. start \notin {"agent", "reference"}
      BY <1>0 DEF IInv, Rows, x
    <3> QED
      BY <1>6, <3>1, Typed DEF IInv, Rows, Types
  <2>2. agent' = Observed(agent, x.ref.externalId, x.seen)
    BY <1>6 DEF SyncWrite, x
  <2>3. PICK t \in {"PENDING", "ACTIVE", "DEREGISTERED"} :
          ref' = [ref EXCEPT !.status = t, !.attempt = x.ref.attempt]
    BY <1>1, <1>6 DEF SyncWrite, x
  <2>4. agent' \in AgentRows
    BY <1>1, <2>1, <2>2, WrittenAgents
  <2>5. ref' \in RefRows
    BY <1>1, <2>1, <2>3, WrittenRefs
  <2> QED
    BY <1>0, <1>2, <1>3, <1>4, <1>6, <2>1, <2>4, <2>5, ManagerMoves DEF x
<1> QED
  BY <1>5, <1>6

(* Deadlock keeps the types, rows, locks and replies.                      *)
LEMMA DeadlockInv == ASSUME IInv, NEW p \in Polls, Deadlock(p) PROVE IInv'
<1>1. CASE PollError(p) /\ UNCHANGED <<manager, deleteLock>>
  BY <1>1, PollErrorInv DEF Deadlock
<1>2. CASE Done(deleteLock) /\ deleteLock' = None /\ UNCHANGED <<agent, ref, poll, txLock>>
  <2>1. IdleManager \in ManagerRecords /\ IdleManager.pc = "idle"
    BY DEF IdleManager, ManagerRecords, ManagerPCs, Operations, EntryStates
  <2>2. manager \in [Managers -> ManagerRecords] /\ deleteLock \in Managers
    BY DEF IInv, Types, Deadlock
  <2>3. /\ manager' \in [Managers -> ManagerRecords]
        /\ \A m \in Managers : manager'[m] = IF m = deleteLock THEN IdleManager ELSE manager[m]
    BY <1>2, <2>1, <2>2 DEF Done
  <2>4. UNCHANGED <<agent, ref, poll, txLock, start, entries>>
    BY <1>2 DEF Deadlock
  <2>5. Types'
    BY <1>2, <2>3, <2>4 DEF IInv, Types
  <2>6. Rows'
    BY <2>1, <2>3, <2>4 DEF IInv, Rows
  <2>7. Locks'
    BY <1>2, <2>1, <2>2, <2>3, <2>4, AgentAssumption DEF IInv, Locks
  <2>8. Replies'
    BY <2>1, <2>3, <2>4 DEF IInv, Replies
  <2> QED
    BY <2>5, <2>6, <2>7, <2>8 DEF IInv
<1> QED
  BY <1>1, <1>2 DEF Deadlock

(* The types, rows, locks and replies, step by step.                       *)
LEMMA InvStep == IInv /\ [Next]_vars => IInv'
<1> SUFFICES ASSUME IInv, [Next]_vars PROVE IInv'
  OBVIOUS
<1> USE AgentAssumption
<1>1. ASSUME StartAgent PROVE IInv'
  BY <1>1 DEF IInv, Types, Rows, Locks, Replies, InTransaction, PollRecords, Requests,
     ManagerRecords, PollPCs, ManagerPCs, EntryStates, RegistrationStates, AgentRows, RefRows,
     Operations, StartAgent
<1>2. ASSUME StartReference PROVE IInv'
  <2>1. ref' = [externalId |-> None, attempt |-> FALSE, status |-> "PENDING"]
    BY <1>2 DEF StartReference
  <2>2. ref' \in RefRows
    BY <2>1 DEF RefRows
  <2>3. ref' # None
    BY <2>2, NoRow
  <2> QED
    BY <1>2, <2>2, <2>3 DEF StartReference, IInv, Types, Rows, Locks, Replies
<1>3. ASSUME StartEvent PROVE IInv'
  BY <1>3 DEF IInv, Types, Rows, Locks, Replies, InTransaction, PollRecords, Requests,
     ManagerRecords, PollPCs, ManagerPCs, EntryStates, RegistrationStates, AgentRows, RefRows,
     Operations, StartEvent
<1>4. ASSUME NEW p \in Polls, PollRead(p) PROVE IInv'
  BY <1>4, PollReadInv
<1>5. ASSUME NEW p \in Polls, PollLookup(p) PROVE IInv'
  BY <1>5, PollLookupInv
<1>6. ASSUME NEW p \in Polls, PollApply(p) PROVE IInv'
  BY <1>6, PollApplyInv
<1>7. ASSUME NEW p \in Polls, PollEvent(p) PROVE IInv'
  BY <1>7 DEF IInv, Types, Rows, Locks, Replies, InTransaction, PollRecords, Requests,
     ManagerRecords, PollPCs, ManagerPCs, EntryStates, RegistrationStates, AgentRows, RefRows,
     Operations, PollEvent, Goto, At
<1>8. ASSUME NEW p \in Polls, PollLock(p) PROVE IInv'
  BY <1>8 DEF IInv, Types, Rows, Locks, Replies, InTransaction, PollRecords, Requests,
     ManagerRecords, PollPCs, ManagerPCs, EntryStates, RegistrationStates, AgentRows, RefRows,
     Operations, PollLock, Goto, At
<1>9. ASSUME NEW p \in Polls, PollLockFails(p) PROVE IInv'
  BY <1>9 DEF IInv, Types, Rows, Locks, Replies, InTransaction, PollRecords, Requests,
     ManagerRecords, PollPCs, ManagerPCs, EntryStates, RegistrationStates, AgentRows, RefRows,
     Operations, PollLockFails, Goto, At
<1>10. ASSUME NEW p \in Polls, PollAssets(p) PROVE IInv'
  BY <1>10, PollAssetsInv
<1>11. ASSUME NEW p \in Polls, PollMatch(p) PROVE IInv'
  BY <1>11, PollMatchInv
<1>12. ASSUME NEW p \in Polls, PollSend(p) PROVE IInv'
  BY <1>12, PollSendInv
<1>13. ASSUME NEW p \in Polls, PollRecord(p) PROVE IInv'
  BY <1>13, PollRecordInv
<1>14. ASSUME NEW p \in Polls, PollHttpTimeout(p) PROVE IInv'
  BY <1>14, PollHttpTimeoutInv
<1>15. ASSUME NEW p \in Polls, PollRefused(p) PROVE IInv'
  BY <1>15, PollErrorInv DEF PollRefused
<1>16. ASSUME NEW p \in Polls, Deadlock(p) PROVE IInv'
  BY <1>16, DeadlockInv
<1>17. ASSUME NEW p \in Polls, TxExpires(p) PROVE IInv'
  BY <1>17 DEF IInv, Types, Rows, Locks, Replies, InTransaction, PollRecords, Requests,
     ManagerRecords, PollPCs, ManagerPCs, EntryStates, RegistrationStates, AgentRows, RefRows,
     Operations, TxExpires
<1>18. ASSUME NEW p \in Polls, NodeRegisters(p) PROVE IInv'
  BY <1>18 DEF IInv, Types, Rows, Locks, Replies, InTransaction, PollRecords, Requests,
     ManagerRecords, PollPCs, ManagerPCs, EntryStates, RegistrationStates, AgentRows, RefRows,
     Operations, NodeRegisters
<1>19. ASSUME NEW p \in Polls, NodeAnswers(p) PROVE IInv'
  BY <1>19, NodeAnswersInv
<1>20. ASSUME NEW p \in Polls, NodeSettles(p) PROVE IInv'
  BY <1>20 DEF IInv, Types, Rows, Locks, Replies, InTransaction, PollRecords, Requests,
     ManagerRecords, PollPCs, ManagerPCs, EntryStates, RegistrationStates, AgentRows, RefRows,
     Operations, NodeSettles, Outcomes
<1>21. ASSUME NEW m \in Managers, SyncLookup(m) PROVE IInv'
  BY <1>21, SyncLookupInv
<1>22. ASSUME NEW m \in Managers, SyncWrite(m) PROVE IInv'
  BY <1>22, SyncWriteInv
<1>23. ASSUME NEW m \in Managers, DeregisterCall(m) PROVE IInv'
  BY <1>23 DEF IInv, Types, Rows, Locks, Replies, InTransaction, PollRecords, Requests,
     ManagerRecords, PollPCs, ManagerPCs, EntryStates, RegistrationStates, AgentRows, RefRows,
     Operations, DeregisterCall, Done, IdleManager
<1>24. ASSUME NEW m \in Managers, DeregisterWrite(m) PROVE IInv'
  BY <1>24 DEF IInv, Types, Rows, Locks, Replies, InTransaction, PollRecords, Requests,
     ManagerRecords, PollPCs, ManagerPCs, EntryStates, RegistrationStates, AgentRows, RefRows,
     Operations, DeregisterWrite, Done, IdleManager, Leave
<1>25. ASSUME NEW m \in Managers, ManagerEvent(m) PROVE IInv'
  BY <1>25 DEF IInv, Types, Rows, Locks, Replies, InTransaction, PollRecords, Requests,
     ManagerRecords, PollPCs, ManagerPCs, EntryStates, RegistrationStates, AgentRows, RefRows,
     Operations, ManagerEvent, Done, IdleManager
<1>26. ASSUME NEW m \in Managers, DeleteEntry(m) PROVE IInv'
  BY <1>26 DEF IInv, Types, Rows, Locks, Replies, InTransaction, PollRecords, Requests,
     ManagerRecords, PollPCs, ManagerPCs, EntryStates, RegistrationStates, AgentRows, RefRows,
     Operations, DeleteEntry, Done, IdleManager, Leave
<1>27. ASSUME NEW m \in Managers, DeleteEvent(m) PROVE IInv'
  BY <1>27 DEF IInv, Types, Rows, Locks, Replies, InTransaction, PollRecords, Requests,
     ManagerRecords, PollPCs, ManagerPCs, EntryStates, RegistrationStates, AgentRows, RefRows,
     Operations, DeleteEvent, Leave
<1>28. ASSUME NEW m \in Managers, DeleteLock(m) PROVE IInv'
  BY <1>28 DEF IInv, Types, Rows, Locks, Replies, InTransaction, PollRecords, Requests,
     ManagerRecords, PollPCs, ManagerPCs, EntryStates, RegistrationStates, AgentRows, RefRows,
     Operations, DeleteLock, Done, IdleManager, Leave
<1>29. ASSUME NEW m \in Managers, DeleteCascade(m) PROVE IInv'
  BY <1>29 DEF IInv, Types, Rows, Locks, Replies, InTransaction, PollRecords, Requests,
     ManagerRecords, PollPCs, ManagerPCs, EntryStates, RegistrationStates, AgentRows, RefRows,
     Operations, DeleteCascade, Done, IdleManager
<1>30. ASSUME NEW m \in Managers, NEW op \in Operations, ManagerRead(m, op) PROVE IInv'
  BY <1>30 DEF IInv, Types, Rows, Locks, Replies, InTransaction, PollRecords, Requests,
     ManagerRecords, PollPCs, ManagerPCs, EntryStates, RegistrationStates, AgentRows, RefRows,
     Operations, ManagerRead, Visible
<1>31. CASE UNCHANGED vars
  BY <1>31 DEF vars, IInv, Types, Rows, Locks, Replies
<1> QED
  BY <1>1, <1>2, <1>3, <1>4, <1>5, <1>6, <1>7, <1>8, <1>9, <1>10, <1>11, <1>12, <1>13, <1>14,
     <1>15, <1>16, <1>17, <1>18, <1>19, <1>20, <1>21, <1>22, <1>23, <1>24, <1>25, <1>26, <1>27,
     <1>28, <1>29, <1>30, <1>31
  DEF Next, PollStep, ManagerStep

(* The initial state has them, and so every state does.                    *)
LEMMA InvInit == Init => IInv
BY AgentAssumption DEF Init, IInv, Types, Rows, Locks, Replies, IdlePoll, IdleManager,
   PollRecords, Requests, ManagerRecords, PollPCs, ManagerPCs, EntryStates, Operations

(* The invariant of the types, rows, locks and replies.                    *)
LEMMA InvAlways == Spec => []IInv
BY InvInit, InvStep, PTL DEF Spec

(* Every state has the types, and the transaction that holds the reference *)
(* row and the DELETE that holds the agent's row are open only while a     *)
(* request needs them.                                                     *)
THEOREM AgentTypes == Spec => []TypeOK
<1>1. IInv => TypeOK
  BY DEF IInv, Types, Rows, Locks, InTransaction, TypeOK
<1> QED
  BY <1>1, InvAlways, PTL

(* Only the creation of the reference and the holder of its lock, which    *)
(* finds it empty, write an externalId.                                    *)
LEMMA ExternalIdStep ==
  ASSUME IInv, Next, ref # None, ref' # None, ref.externalId # None
  PROVE  ref'.externalId = ref.externalId
<1>1. ref \in RefRows
  BY Typed
<1>2. \A r \in RefRows : \A b : \A t :
        [r EXCEPT !.status = t, !.attempt = b].externalId = r.externalId
  BY DEF RefRows
<1>3. start # "reference" /\ \A p \in Polls : txLock # p
  BY DEF IInv, Rows, Locks
<1>4. ASSUME NEW p \in Polls, PollStep(p) PROVE ref' = ref
  BY <1>3, <1>4 DEF PollStep, PollRead, PollLookup, PollApply, PollEvent, PollLock,
     PollLockFails,
     PollAssets, PollMatch, PollSend, PollRecord, PollHttpTimeout, PollRefused, Deadlock,
     PollError, TxOpen
<1>5. ASSUME NEW m \in Managers, SyncWrite(m) PROVE ref'.externalId = ref.externalId
  BY <1>1, <1>2, <1>5 DEF SyncWrite
<1>6. ASSUME NEW m \in Managers, ManagerStep(m), ~SyncWrite(m) PROVE ref' = ref
  BY <1>6 DEF ManagerStep, SyncLookup, DeregisterCall, DeregisterWrite, ManagerEvent,
     DeleteEntry, DeleteEvent, DeleteLock, DeleteCascade
<1>7. ASSUME NEW m \in Managers, NEW op \in Operations, ManagerRead(m, op) PROVE ref' = ref
  BY <1>7 DEF ManagerRead
<1>8. ASSUME NEW p \in Polls,
             TxExpires(p) \/ NodeRegisters(p) \/ NodeAnswers(p) \/ NodeSettles(p)
      PROVE  ref' = ref
  BY <1>8 DEF TxExpires, NodeRegisters, NodeAnswers, NodeSettles
<1> QED
  BY <1>3, <1>4, <1>5, <1>6, <1>7, <1>8 DEF Next, StartAgent, StartReference, StartEvent

(* For any number of polls and syncs, and whatever the time-outs are: the  *)
(* entry an agent refers to is written once.                               *)
THEOREM ExternalIdOnce == Spec => ExternalIdWrittenOnce
<1>1. IInv /\ [Next]_vars => [ref # None /\ ref' # None /\ ref.externalId # None
                              => ref'.externalId = ref.externalId]_vars
  BY ExternalIdStep
<1> QED
  BY <1>1, InvAlways, PTL DEF Spec, ExternalIdWrittenOnce

------------------------------------------------------------------------------
(* A confirmed agent is identified by a minted entry.                      *)

(* A step of poll p, and what it must show of its new record and of the    *)
(* agent's row.                                                            *)
LEMMA MintPoll ==
  ASSUME IInv, MintInv, NEW p \in Polls, NEW y \in PollRecords,
         poll' = [poll EXCEPT ![p] = y], UNCHANGED entries,
         \A m \in Managers : manager'[m] = manager[m] \/ manager'[m].pc = "idle",
         y.pc \in BeforeAwait => y.request = "none",
         y.pc \in Fresh => y.seen = "absent",
         poll[p].request \in {"handled", "answered"} => y.request \in {"handled", "answered"},
         y.pc = "match" => Minted(y.entry),
         y.pc = "apply" /\ HasIdentifier(y.seen) => Minted(y.entry),
         y.pc = "await" /\ HasIdentifier(y.seen) => Minted(p),
         agent' # None /\ agent'.state = "RegistrationConfirmed" => Minted(agent'.identifier)
  PROVE  MintInv'
<1>1. poll \in [Polls -> PollRecords]
  BY DEF IInv, Types
<1>2. /\ poll'[p] = y
      /\ \A q \in Polls : q # p => poll'[q] = poll[q]
  BY <1>1 DEF Minted
<1>3. \A e : Minted(e) => MintedIn(e, poll', entries')
  BY <1>2 DEF Minted, MintedIn
<1>4. \A q \in Polls :
        /\ poll'[q].pc \in BeforeAwait => poll'[q].request = "none"
        /\ poll'[q].pc \in Fresh => poll'[q].seen = "absent"
        /\ entries'[q] # "absent" => poll'[q].request \in {"handled", "answered"}
  BY <1>2 DEF MintInv
<1>5. \A q \in Polls :
        /\ poll'[q].pc = "match" => MintedIn(poll'[q].entry, poll', entries')
        /\ poll'[q].pc = "apply" /\ HasIdentifier(poll'[q].seen)
           => MintedIn(poll'[q].entry, poll', entries')
        /\ poll'[q].pc = "await" /\ HasIdentifier(poll'[q].seen) => MintedIn(q, poll', entries')
  BY <1>2, <1>3 DEF MintInv, Minted
<1>6. \A m \in Managers :
        manager'[m].pc = "write" /\ HasIdentifier(manager'[m].seen)
        => MintedIn(manager'[m].ref.externalId, poll', entries')
  BY <1>3 DEF MintInv, Minted
<1>7. agent' # None /\ agent'.state = "RegistrationConfirmed"
      => MintedIn(agent'.identifier, poll', entries')
  BY <1>3 DEF Minted
<1> QED
  BY <1>4, <1>5, <1>6, <1>7 DEF MintInv, Minted

(* A step that leaves the polls alone and takes no entry back.             *)
LEMMA MintElse ==
  ASSUME IInv, MintInv, UNCHANGED poll,
         \A e \in Polls : /\ Minted(e) => MintedIn(e, poll', entries')
                          /\ entries'[e] # "absent" => entries[e] # "absent",
         \A m \in Managers :
           \/ manager'[m] = manager[m]
           \/ manager'[m].pc = "write" /\ HasIdentifier(manager'[m].seen)
              => Minted(manager'[m].ref.externalId),
         agent' # None /\ agent'.state = "RegistrationConfirmed" => Minted(agent'.identifier)
  PROVE  MintInv'
<1>1. \A e : Minted(e) => MintedIn(e, poll', entries')
  BY DEF Minted, MintedIn
<1>2. \A q \in Polls :
        /\ poll'[q].pc \in BeforeAwait => poll'[q].request = "none"
        /\ poll'[q].pc \in Fresh => poll'[q].seen = "absent"
        /\ entries'[q] # "absent" => poll'[q].request \in {"handled", "answered"}
  BY DEF MintInv
<1>3. \A q \in Polls :
        /\ poll'[q].pc = "match" => MintedIn(poll'[q].entry, poll', entries')
        /\ poll'[q].pc = "apply" /\ HasIdentifier(poll'[q].seen)
           => MintedIn(poll'[q].entry, poll', entries')
        /\ poll'[q].pc = "await" /\ HasIdentifier(poll'[q].seen) => MintedIn(q, poll', entries')
  BY <1>1 DEF MintInv, Minted
<1>4. \A m \in Managers :
        manager'[m].pc = "write" /\ HasIdentifier(manager'[m].seen)
        => MintedIn(manager'[m].ref.externalId, poll', entries')
  BY <1>1 DEF MintInv, Minted
<1>5. agent' # None /\ agent'.state = "RegistrationConfirmed"
      => MintedIn(agent'.identifier, poll', entries')
  BY <1>1 DEF Minted
<1> QED
  BY <1>2, <1>3, <1>4, <1>5 DEF MintInv, Minted

(* A poll that comes to an end, or stays in its transaction.               *)
LEMMA PollGoes ==
  ASSUME IInv, MintInv, NEW p \in Polls, UNCHANGED entries,
         NEW c \in {"error", "pending", "timedOut", "registered", "event", "assets", "register"},
         Goto(p, c), c \in {"assets", "register"} => poll[p].pc \in {"lock", "assets"},
         \A m \in Managers : manager'[m] = manager[m] \/ manager'[m].pc = "idle",
         agent' # None /\ agent'.state = "RegistrationConfirmed" => Minted(agent'.identifier)
  PROVE  MintInv'
<1> DEFINE x == poll[p]
           y == [x EXCEPT !.pc = c]
<1>1. x \in PollRecords
  BY Typed
<1>2. /\ y \in PollRecords /\ poll' = [poll EXCEPT ![p] = y]
      /\ y.pc = c /\ y.seen = x.seen /\ y.request = x.request
  BY <1>1 DEF PollRecords, PollPCs, Goto
<1>3. x.pc \in {"lock", "assets"} => x.request = "none" /\ x.seen = "absent"
  BY DEF MintInv, BeforeAwait, Fresh
<1>4. /\ y.pc \in BeforeAwait => y.request = "none"
      /\ y.pc \in Fresh => y.seen = "absent"
  BY <1>2, <1>3 DEF BeforeAwait, Fresh
<1>5. /\ x.request \in {"handled", "answered"} => y.request \in {"handled", "answered"}
      /\ y.pc \notin {"match", "apply", "await"}
  BY <1>2
<1> HIDE DEF y
<1> QED
  BY <1>2, <1>4, <1>5, MintPoll

(* What the agent's row says when it is not written, and when a reply is   *)
(* applied to it.                                                          *)
LEMMA AgentKept ==
  ASSUME MintInv, agent' = agent
  PROVE  agent' # None /\ agent'.state = "RegistrationConfirmed" => Minted(agent'.identifier)
BY DEF MintInv

(* A reply confirms the entry it is about.                                 *)
LEMMA AgentObserved ==
  ASSUME NEW a, NEW e, NEW s, HasIdentifier(s) => Minted(e), agent' = Observed(a, e, s)
  PROVE  agent' # None /\ agent'.state = "RegistrationConfirmed" => Minted(agent'.identifier)
BY DEF Observed, HasIdentifier

(* PollRead keeps what is minted.                                          *)
LEMMA PollReadMint == ASSUME IInv, MintInv, NEW p \in Polls, PollRead(p) PROVE MintInv'
<1> DEFINE x == poll[p]
<1>1. x \in PollRecords /\ x.pc = "start" /\ x.request = "none" /\ x.seen = "absent"
  BY Typed DEF MintInv, BeforeAwait, Fresh, PollRead, At
<1>2. CASE \E c \in {"error", "registered"} : Goto(p, c)
  BY <1>2, AgentKept, PollGoes DEF PollRead
<1>3. ASSUME NEW a \in BOOLEAN, poll' = [poll EXCEPT ![p].pc = "lock", ![p].attempt = a]
      PROVE  MintInv'
  <2> DEFINE y == [x EXCEPT !.pc = "lock", !.attempt = a]
  <2>1. y \in PollRecords /\ y.pc = "lock" /\ y.seen = "absent" /\ y.request = "none"
    BY <1>1 DEF PollRecords, PollPCs
  <2>2. poll' = [poll EXCEPT ![p] = y]
    BY <1>3
  <2>3. UNCHANGED <<entries, manager, agent>>
    BY DEF PollRead
  <2> HIDE DEF y
  <2> QED
    BY <1>1, <2>1, <2>2, <2>3, AgentKept, MintPoll DEF PollRecords
<1>4. ASSUME NEW e \in Polls \cup {None},
             poll' = [poll EXCEPT ![p].pc = "lookup", ![p].entry = e]
      PROVE  MintInv'
  <2> DEFINE y == [x EXCEPT !.pc = "lookup", !.entry = e]
  <2>1. y \in PollRecords /\ y.pc = "lookup" /\ y.seen = "absent" /\ y.request = "none"
    BY <1>1 DEF PollRecords, PollPCs
  <2>2. poll' = [poll EXCEPT ![p] = y]
    BY <1>4
  <2>3. UNCHANGED <<entries, manager, agent>>
    BY DEF PollRead
  <2> HIDE DEF y
  <2> QED
    BY <1>1, <2>1, <2>2, <2>3, AgentKept, MintPoll DEF PollRecords
<1>5. ref # None => ref.attempt \in BOOLEAN /\ ref.externalId \in Polls \cup {None}
  BY Typed DEF RefRows
<1> QED
  BY <1>2, <1>3, <1>4, <1>5 DEF PollRead

(* PollLookup keeps what is minted.                                        *)
LEMMA PollLookupMint == ASSUME IInv, MintInv, NEW p \in Polls, PollLookup(p) PROVE MintInv'
<1> DEFINE x == poll[p]
           s == entries[x.entry]
           y == [x EXCEPT !.pc = "apply", !.seen = s]
<1>1. x \in PollRecords /\ x.pc = "lookup" /\ x.request = "none"
  BY Typed DEF MintInv, BeforeAwait, PollLookup, At
<1>2. CASE Goto(p, "pending")
  BY <1>2, AgentKept, PollGoes DEF PollLookup
<1>3. CASE Known(x.entry) /\ poll' = [poll EXCEPT ![p].pc = "apply", ![p].seen = s]
  <2>1. x.entry \in Polls /\ s # "absent" /\ s \in EntryStates
    BY <1>1, <1>3, Typed DEF Known, PollRecords
  <2>2. HasIdentifier(s) => Minted(x.entry)
    BY <2>1 DEF MintInv, Minted, MintedIn, HasIdentifier
  <2>3. poll' = [poll EXCEPT ![p] = y]
    BY <1>3
  <2>4. y \in PollRecords /\ y.pc = "apply" /\ y.seen = s /\ y.entry = x.entry
        /\ y.request = "none"
    BY <1>1, <2>1 DEF PollRecords, PollPCs
  <2>5. UNCHANGED <<entries, manager, agent>>
    BY DEF PollLookup
  <2> HIDE DEF y, s
  <2> QED
    BY <1>1, <2>2, <2>3, <2>4, <2>5, AgentKept, MintPoll DEF Fresh
<1> QED
  BY <1>2, <1>3 DEF PollLookup

(* PollApply keeps what is minted.                                         *)
LEMMA PollApplyMint == ASSUME IInv, MintInv, NEW p \in Polls, PollApply(p) PROVE MintInv'
<1>1. PICK c \in {"event", "pending"} : Goto(p, c)
  BY DEF PollApply, AfterWrite
<1>2. agent' # None /\ agent'.state = "RegistrationConfirmed" => Minted(agent'.identifier)
  <2>1. HasIdentifier(poll[p].seen) => Minted(poll[p].entry)
    BY DEF MintInv, PollApply, At
  <2>2. agent' = agent \/ agent' = Observed(agent, poll[p].entry, poll[p].seen)
    BY DEF PollApply
  <2> QED
    BY <2>1, <2>2, AgentKept, AgentObserved
<1>3. UNCHANGED <<entries, manager>>
  BY DEF PollApply
<1> QED
  BY <1>1, <1>2, <1>3, PollGoes

(* PollLock keeps what is minted.                                          *)
LEMMA PollLockMint == ASSUME IInv, MintInv, NEW p \in Polls, PollLock(p) PROVE MintInv'
<1>1. PICK c \in {"error", "pending", "registered", "assets", "register"} : Goto(p, c)
  BY DEF PollLock
<1>2. UNCHANGED <<entries, manager, agent>> /\ poll[p].pc = "lock"
  BY DEF PollLock, At
<1> QED
  BY <1>1, <1>2, AgentKept, PollGoes

(* PollAssets keeps what is minted.                                        *)
LEMMA PollAssetsMint == ASSUME IInv, MintInv, NEW p \in Polls, PollAssets(p) PROVE MintInv'
<1> DEFINE x == poll[p]
<1>1. x \in PollRecords /\ x.pc = "assets" /\ x.request = "none"
  BY Typed DEF MintInv, BeforeAwait, PollAssets, At
<1>2. UNCHANGED <<entries, manager, agent>>
  BY DEF PollAssets
<1>3. CASE \E c \in {"error", "pending", "register"} : Goto(p, c)
  BY <1>1, <1>2, <1>3, AgentKept, PollGoes
<1>4. ASSUME NEW e \in Polls, entries[e] \in LiveStates \ {"RegistrationRequested"},
             poll' = [poll EXCEPT ![p].pc = "match", ![p].entry = e,
                                  ![p].seen = "RegistrationConfirmed"]
      PROVE  MintInv'
  <2> DEFINE y == [x EXCEPT !.pc = "match", !.entry = e, !.seen = "RegistrationConfirmed"]
  <2>1. Minted(e)
    BY <1>4 DEF MintInv, Minted, MintedIn, LiveStates, RegistrationStates
  <2>2. poll' = [poll EXCEPT ![p] = y]
    BY <1>4
  <2>3. y \in PollRecords /\ y.pc = "match" /\ y.entry = e /\ y.request = "none"
    BY <1>1 DEF PollRecords, PollPCs, EntryStates, RegistrationStates
  <2> HIDE DEF y
  <2> QED
    BY <1>1, <1>2, <2>1, <2>2, <2>3, AgentKept, MintPoll DEF Fresh
<1> QED
  BY <1>3, <1>4 DEF PollAssets

(* PollSend keeps what is minted.                                          *)
LEMMA PollSendMint == ASSUME IInv, MintInv, NEW p \in Polls, PollSend(p) PROVE MintInv'
<1> DEFINE x == poll[p]
           y == [x EXCEPT !.pc = "await", !.request = "sent"]
<1>1. x \in PollRecords /\ x.request = "none" /\ x.seen = "absent"
  BY Typed DEF MintInv, BeforeAwait, Fresh, PollSend, At
<1>2. poll' = [poll EXCEPT ![p] = y] /\ UNCHANGED <<entries, manager, agent>>
  BY DEF PollSend
<1>3. y \in PollRecords /\ y.pc = "await" /\ y.seen = "absent" /\ y.request = "sent"
  BY <1>1 DEF PollRecords, PollPCs, Requests
<1> HIDE DEF y
<1> QED
  BY <1>1, <1>2, <1>3, AgentKept, MintPoll DEF BeforeAwait, Fresh, HasIdentifier

(* PollMatch keeps what is minted.                                         *)
LEMMA PollMatchMint == ASSUME IInv, MintInv, NEW p \in Polls, PollMatch(p) PROVE MintInv'
<1>1. PICK c \in {"event", "error"} : Goto(p, c)
  BY DEF PollMatch, PollError
<1>2. UNCHANGED <<entries, manager>>
  BY DEF PollMatch
<1>3. agent' # None /\ agent'.state = "RegistrationConfirmed" => Minted(agent'.identifier)
  <2>1. CASE ~TxOpen(p)
    BY <2>1, AgentKept DEF PollMatch, PollError
  <2>2. CASE TxOpen(p)
    <3>1. agent' = [state |-> "RegistrationConfirmed", identifier |-> poll[p].entry]
      BY <2>2 DEF PollMatch
    <3>2. Minted(poll[p].entry)
      BY DEF MintInv, PollMatch, At
    <3> QED
      BY <3>1, <3>2
  <2> QED
    BY <2>1, <2>2
<1> QED
  BY <1>1, <1>2, <1>3, PollGoes

(* PollRecord keeps what is minted.                                        *)
LEMMA PollRecordMint == ASSUME IInv, MintInv, NEW p \in Polls, PollRecord(p) PROVE MintInv'
<1>1. PICK c \in {"event", "pending", "error"} : Goto(p, c)
  BY DEF PollRecord, PollError, AfterWrite
<1>2. UNCHANGED <<entries, manager>>
  BY DEF PollRecord
<1>3. agent' # None /\ agent'.state = "RegistrationConfirmed" => Minted(agent'.identifier)
  <2>1. CASE ~TxOpen(p)
    BY <2>1, AgentKept DEF PollRecord, PollError
  <2>2. CASE TxOpen(p)
    <3>1. agent' = Observed(agent, p, poll[p].seen)
      BY <2>2 DEF PollRecord
    <3>2. HasIdentifier(poll[p].seen) => Minted(p)
      BY DEF MintInv, PollRecord, At
    <3> QED
      BY <3>1, <3>2, AgentObserved
  <2> QED
    BY <2>1, <2>2
<1> QED
  BY <1>1, <1>2, <1>3, PollGoes

(* PollHttpTimeout keeps what is minted.                                   *)
LEMMA PollHttpTimeoutMint == ASSUME IInv, MintInv, NEW p \in Polls, PollHttpTimeout(p) PROVE MintInv'
<1>1. PICK c \in {"timedOut", "error"} : Goto(p, c)
  BY DEF PollHttpTimeout, PollError
<1>2. UNCHANGED <<entries, manager>>
  BY DEF PollHttpTimeout
<1>3. agent' # None /\ agent'.state = "RegistrationConfirmed" => Minted(agent'.identifier)
  <2>1. CASE ~TxOpen(p)
    BY <2>1, AgentKept DEF PollHttpTimeout, PollError
  <2>2. CASE TxOpen(p)
    <3>1. agent' = [agent EXCEPT !.state = "RegistrationRequested"] /\ agent \in AgentRows
      BY <2>2, Typed DEF PollHttpTimeout, TxOpen, IInv, Locks
    <3> QED
      BY <3>1 DEF AgentRows
  <2> QED
    BY <2>1, <2>2
<1> QED
  BY <1>1, <1>2, <1>3, PollGoes

(* Deadlock keeps what is minted.                                          *)
LEMMA DeadlockMint == ASSUME IInv, MintInv, NEW p \in Polls, Deadlock(p) PROVE MintInv'
<1>1. CASE PollError(p) /\ UNCHANGED <<manager, deleteLock>>
  BY <1>1, AgentKept, PollGoes DEF Deadlock, PollError
<1>2. CASE Done(deleteLock) /\ UNCHANGED <<agent, ref, poll, txLock>>
  <2>1. manager \in [Managers -> ManagerRecords]
    BY DEF IInv, Types
  <2>2. UNCHANGED <<agent, poll, entries>>
        /\ \A m \in Managers : manager'[m] = manager[m] \/ manager'[m].pc = "idle"
    BY <1>2, <2>1 DEF Deadlock, Done, IdleManager
  <2> QED
    BY <2>2, AgentKept, MintElse DEF Minted
<1> QED
  BY <1>1, <1>2 DEF Deadlock

(* NodeAnswers keeps what is minted.                                       *)
LEMMA NodeAnswersMint == ASSUME IInv, MintInv, NEW p \in Polls, NodeAnswers(p) PROVE MintInv'
<1> DEFINE x == poll[p]
           y == [x EXCEPT !.request = "answered", !.seen = entries[p]]
<1>1. x \in PollRecords /\ x.request = "handled" /\ x.pc \notin BeforeAwait
  BY Typed DEF MintInv, NodeAnswers
<1>2. poll' = [poll EXCEPT ![p] = y] /\ UNCHANGED <<entries, manager, agent>>
  BY DEF NodeAnswers
<1>3. y \in PollRecords /\ y.pc = x.pc /\ y.seen = entries[p] /\ y.request = "answered"
  BY <1>1, Typed DEF PollRecords, Requests
<1>4. HasIdentifier(entries[p]) => Minted(p)
  BY <1>1 DEF Minted, MintedIn, HasIdentifier
<1> HIDE DEF y
<1> QED
  BY <1>1, <1>2, <1>3, <1>4, AgentKept, MintPoll DEF BeforeAwait, Fresh

(* The payment node: it registers each poll once, and moves minted entries *)
(* on, never back.                                                         *)
LEMMA NodeRegistersMint == ASSUME IInv, MintInv, NEW p \in Polls, NodeRegisters(p) PROVE MintInv'
<1> DEFINE x == poll[p]
<1>1. poll \in [Polls -> PollRecords] /\ entries \in [Polls -> EntryStates]
  BY DEF IInv, Types
<1>2. x.request = "sent" /\ x.pc \notin BeforeAwait /\ entries[p] = "absent" /\ ~Minted(p)
  BY DEF MintInv, NodeRegisters, Minted, MintedIn
<1>3. UNCHANGED <<manager, agent>>
  BY DEF NodeRegisters
<1>4. PICK q \in {"handled", "refused"} :
        /\ poll' = [poll EXCEPT ![p].request = q]
        /\ q = "refused" => entries' = entries
        /\ q = "handled" => entries' = [entries EXCEPT ![p] = "RegistrationRequested"]
  BY DEF NodeRegisters
<1>5. /\ poll'[p].request = q /\ poll'[p].pc = x.pc
      /\ poll'[p].seen = x.seen /\ poll'[p].entry = x.entry
      /\ \A r \in Polls : r # p => poll'[r] = poll[r] /\ entries'[r] = entries[r]
      /\ q = "refused" => entries'[p] = "absent"
  BY <1>1, <1>2, <1>4 DEF PollRecords
<1>6. \A e : Minted(e) => MintedIn(e, poll', entries')
  BY <1>2, <1>5 DEF Minted, MintedIn
<1>7. \A r \in Polls :
        /\ poll'[r].pc \in BeforeAwait => poll'[r].request = "none"
        /\ poll'[r].pc \in Fresh => poll'[r].seen = "absent"
        /\ entries'[r] # "absent" => poll'[r].request \in {"handled", "answered"}
  BY <1>2, <1>4, <1>5 DEF MintInv
<1>8. \A r \in Polls :
        /\ poll'[r].pc = "match" => MintedIn(poll'[r].entry, poll', entries')
        /\ poll'[r].pc = "apply" /\ HasIdentifier(poll'[r].seen)
           => MintedIn(poll'[r].entry, poll', entries')
        /\ poll'[r].pc = "await" /\ HasIdentifier(poll'[r].seen)
           => MintedIn(r, poll', entries')
  <2>1. \A r \in Polls : poll'[r].pc = poll[r].pc /\ poll'[r].seen = poll[r].seen
                         /\ poll'[r].entry = poll[r].entry
    BY <1>5
  <2> QED
    BY <1>6, <2>1 DEF MintInv
<1>9. \A m \in Managers :
        manager'[m].pc = "write" /\ HasIdentifier(manager'[m].seen)
        => MintedIn(manager'[m].ref.externalId, poll', entries')
  BY <1>3, <1>6 DEF MintInv
<1>10. agent' # None /\ agent'.state = "RegistrationConfirmed"
       => MintedIn(agent'.identifier, poll', entries')
  BY <1>3, <1>6 DEF MintInv
<1> QED
  BY <1>7, <1>8, <1>9, <1>10 DEF MintInv, Minted

(* NodeSettles keeps what is minted.                                       *)
LEMMA NodeSettlesMint == ASSUME IInv, MintInv, NEW p \in Polls, NodeSettles(p) PROVE MintInv'
<1>1. PICK s \in Outcomes(entries[p]) : entries' = [entries EXCEPT ![p] = s]
  BY DEF NodeSettles
<1>2. entries[p] # "absent"
      /\ (entries[p] \notin {"RegistrationRequested", "RegistrationFailed"}
          => s \notin {"RegistrationRequested", "RegistrationFailed"})
  BY <1>1 DEF Outcomes
<1>3. \A e \in Polls : /\ Minted(e) => MintedIn(e, poll', entries')
                       /\ entries'[e] # "absent" => entries[e] # "absent"
  BY <1>1, <1>2 DEF Minted, MintedIn, IInv, Types, NodeSettles
<1> QED
  BY <1>3, AgentKept, MintElse DEF NodeSettles

(* The owner's requests.                                                   *)
LEMMA SyncLookupMint == ASSUME IInv, MintInv, NEW m \in Managers, SyncLookup(m) PROVE MintInv'
<1> DEFINE x == manager[m]
           s == entries[x.ref.externalId]
           y == [x EXCEPT !.pc = "write", !.seen = s]
<1>1. UNCHANGED <<poll, agent, entries>> /\ manager \in [Managers -> ManagerRecords]
      /\ x \in ManagerRecords
  BY DEF SyncLookup, IInv, Types
<1>2. \A e \in Polls : /\ Minted(e) => MintedIn(e, poll', entries')
                       /\ entries'[e] # "absent" => entries[e] # "absent"
  BY <1>1 DEF Minted
<1>3. CASE Done(m)
  <2>1. \A n \in Managers : manager'[n] = manager[n] \/ manager'[n].pc = "idle"
    BY <1>1, <1>3 DEF Done, IdleManager
  <2> QED
    BY <1>1, <1>2, <2>1, AgentKept, MintElse
<1>4. CASE ~Done(m)
  <2>1. x.ref # None /\ Known(x.ref.externalId)
        /\ manager' = [manager EXCEPT ![m].pc = "write", ![m].seen = s]
    BY <1>4 DEF SyncLookup, IInv, Replies
  <2>2. x.ref.externalId \in Polls /\ s # "absent"
    BY <1>1, <2>1 DEF Known, ManagerRecords, RefRows
  <2>3. HasIdentifier(s) => Minted(x.ref.externalId)
    BY <2>2 DEF MintInv, Minted, MintedIn, HasIdentifier
  <2>4. manager' = [manager EXCEPT ![m] = y] /\ y.seen = s /\ y.ref = x.ref
    BY <1>1, <2>1 DEF ManagerRecords
  <2> HIDE DEF y, s
  <2>5. \A n \in Managers :
          \/ manager'[n] = manager[n]
          \/ manager'[n].seen = s /\ manager'[n].ref = x.ref
    BY <1>1, <2>4
  <2>6. \A n \in Managers :
          \/ manager'[n] = manager[n]
          \/ manager'[n].pc = "write" /\ HasIdentifier(manager'[n].seen)
             => Minted(manager'[n].ref.externalId)
    BY <2>3, <2>5
  <2> QED
    BY <1>1, <1>2, <2>6, AgentKept, MintElse
<1> QED
  BY <1>3, <1>4

(* SyncWrite keeps what is minted.                                         *)
LEMMA SyncWriteMint == ASSUME IInv, MintInv, NEW m \in Managers, SyncWrite(m) PROVE MintInv'
<1>1. UNCHANGED <<poll, entries>> /\ manager \in [Managers -> ManagerRecords]
  BY DEF SyncWrite, IInv, Types
<1>2. \A e \in Polls : /\ Minted(e) => MintedIn(e, poll', entries')
                       /\ entries'[e] # "absent" => entries[e] # "absent"
  BY <1>1 DEF Minted
<1>3. \A n \in Managers : manager'[n] = manager[n] \/ manager'[n].pc \in {"idle", "event"}
  BY <1>1 DEF SyncWrite, Done, Leave, IdleManager, ManagerRecords
<1>4. HasIdentifier(manager[m].seen) => Minted(manager[m].ref.externalId)
  BY DEF MintInv, SyncWrite
<1>5. \/ agent' = agent
      \/ agent' = Observed(agent, manager[m].ref.externalId, manager[m].seen)
  BY DEF SyncWrite
<1> QED
  BY <1>1, <1>2, <1>3, <1>4, <1>5, AgentKept, AgentObserved, MintElse

(* OtherRequests keeps what is minted.                                     *)
LEMMA OtherRequestsMint ==
  ASSUME IInv, MintInv, NEW m \in Managers,
         \/ DeregisterCall(m) \/ DeregisterWrite(m) \/ ManagerEvent(m) \/ DeleteEntry(m)
         \/ DeleteEvent(m) \/ DeleteLock(m) \/ DeleteCascade(m)
         \/ \E op \in Operations : ManagerRead(m, op)
  PROVE  MintInv'
<1>1. /\ UNCHANGED poll
      /\ poll \in [Polls -> PollRecords] /\ manager \in [Managers -> ManagerRecords]
      /\ entries \in [Polls -> EntryStates]
  BY DEF DeregisterCall, DeregisterWrite, ManagerEvent, DeleteEntry, DeleteEvent, DeleteLock,
         DeleteCascade, ManagerRead, IInv, Types
<1>2. \/ UNCHANGED entries
      \/ \E e : /\ entries[e] # "absent"
                /\ \E s \in {"DeregistrationRequested", "absent"} :
                     entries' = [entries EXCEPT ![e] = s]
  BY DEF DeregisterCall, DeregisterWrite, ManagerEvent, DeleteEntry, DeleteEvent, DeleteLock,
         DeleteCascade, ManagerRead, Known
<1>3. \A e \in Polls : /\ Minted(e) => MintedIn(e, poll', entries')
                       /\ entries'[e] # "absent" => entries[e] # "absent"
  BY <1>1, <1>2 DEF Minted, MintedIn
<1>4. \A n \in Managers : manager'[n] = manager[n] \/ manager'[n].pc # "write"
  BY <1>1 DEF DeregisterCall, DeregisterWrite, ManagerEvent, DeleteEntry, DeleteEvent,
     DeleteLock,
         DeleteCascade, ManagerRead, Done, Leave, IdleManager, ManagerRecords
<1>5. agent' # None /\ agent'.state = "RegistrationConfirmed" => Minted(agent'.identifier)
  <2>1. \/ agent' = agent \/ agent' = None
        \/ agent # None /\ agent' = [agent EXCEPT !.state = "DeregistrationRequested"]
    BY DEF DeregisterCall, DeregisterWrite, ManagerEvent, DeleteEntry, DeleteEvent, DeleteLock,
           DeleteCascade, ManagerRead
  <2>2. agent # None => [agent EXCEPT !.state = "DeregistrationRequested"].state
                          = "DeregistrationRequested"
    BY Typed DEF AgentRows
  <2> QED
    BY <2>1, <2>2, AgentKept
<1> QED
  BY <1>1, <1>3, <1>4, <1>5, MintElse

(* The creation of the agent, expiring transactions, and polls that only   *)
(* move on.                                                                *)
LEMMA OtherStepsMint ==
  ASSUME IInv, MintInv,
         \/ StartAgent \/ StartReference \/ StartEvent \/ UNCHANGED vars
         \/ \E p \in Polls : TxExpires(p)
  PROVE  MintInv'
<1>1. UNCHANGED <<poll, entries, manager>>
  BY DEF StartAgent, StartReference, StartEvent, TxExpires, vars
<1>2. agent' = agent \/ agent' = [state |-> "RegistrationRequested", identifier |-> None]
  BY DEF StartAgent, StartReference, StartEvent, TxExpires, vars
<1> QED
  BY <1>1, <1>2, AgentKept, MintElse DEF Minted

(* OtherPolls keeps what is minted.                                        *)
LEMMA OtherPollsMint ==
  ASSUME IInv, MintInv, NEW p \in Polls, PollEvent(p) \/ PollLockFails(p) \/ PollRefused(p)
  PROVE  MintInv'
<1>1. PICK c \in {"registered", "error"} : Goto(p, c)
  BY DEF PollEvent, PollLockFails, PollRefused, PollError
<1>2. UNCHANGED <<entries, manager, agent>>
  BY DEF PollEvent, PollLockFails, PollRefused, PollError
<1> QED
  BY <1>1, <1>2, AgentKept, PollGoes

(* The step of what is minted.                                             *)
LEMMA MintStep == IInv /\ MintInv /\ [Next]_vars => MintInv'
<1> SUFFICES ASSUME IInv, MintInv, [Next]_vars PROVE MintInv'
  OBVIOUS
<1>1. ASSUME NEW p \in Polls, PollStep(p) PROVE MintInv'
  BY <1>1, PollReadMint, PollLookupMint, PollApplyMint, PollLockMint, PollAssetsMint,
     PollSendMint, PollMatchMint, PollRecordMint, PollHttpTimeoutMint, DeadlockMint,
     OtherPollsMint DEF PollStep
<1>2. ASSUME NEW m \in Managers, ManagerStep(m) PROVE MintInv'
  BY <1>2, SyncLookupMint, SyncWriteMint, OtherRequestsMint DEF ManagerStep
<1> QED
  BY <1>1, <1>2, NodeRegistersMint, NodeAnswersMint, NodeSettlesMint, OtherRequestsMint,
     OtherStepsMint DEF Next

(* Whatever the polls, syncs and expiring transactions do, and however old *)
(* the reply that is applied: an agent shown as registered is identified   *)
(* by an entry that was minted.                                            *)
THEOREM ConfirmedMinted == Spec => []ConfirmedIsMinted
<1>1. Init => MintInv
  BY AgentAssumption DEF Init, MintInv, IdlePoll, IdleManager, BeforeAwait, Fresh, HasIdentifier
<1>2. IInv /\ MintInv => ConfirmedIsMinted
  BY AgentAssumption DEF MintInv, Minted, MintedIn, ConfirmedIsMinted
<1> QED
  BY <1>1, <1>2, MintStep, InvAlways, PTL DEF Spec

------------------------------------------------------------------------------
(* What requests leave behind. A confirmation is told, or about to be, and *)
(* a sync that read the agent as confirmed may rely on it.                 *)
Told ==
  \/ {"RegistrationConfirmed", "lost"} \cap events # {}
  \/ \E p \in Polls : poll[p].pc = "event" /\ poll[p].seen = "RegistrationConfirmed"
  \/ \E m \in Managers :
       manager[m].pc = "event" /\ manager[m].seen = "RegistrationConfirmed"
SyncKnows(m) ==
  manager[m].pc \in {"lookup", "write"} /\ manager[m].agent.state = "RegistrationConfirmed"

(* A poll that sent a request and did not fail has left its entry in the   *)
(* reference, or the attempt when it timed out.                            *)
Recorded(p) == ref.externalId = p
Attempted == ref.attempt \/ ref.externalId # None
Unfailed == {"event", "pending", "registered", "timedOut"}

PollTold(p) ==
  /\ poll[p].pc = "match" => poll[p].seen = "RegistrationConfirmed"
  /\ poll[p].pc \in {"assets", "match"} => poll[p].attempt
  /\ poll[p].pc = "event" => poll[p].request \in {"none", "answered"}
  /\ start \in {"agent", "reference"} => poll[p].pc \in {"start", "error"}
                                         /\ poll[p].request = "none"
  /\ poll[p].pc \in Unfailed /\ poll[p].request # "none" /\ ref # None =>
       Recorded(p) \/ (poll[p].pc = "timedOut" /\ Attempted)

TellInv ==
  /\ \A p \in Polls : PollTold(p)
  /\ \A m \in Managers : manager[m].pc \in {"lookup", "write"} =>
       /\ manager[m].ref.externalId # None
       /\ ref # None => ref.externalId # None
  /\ /\ agent # None
     /\ agent.state = "RegistrationConfirmed" \/ \E m \in Managers : SyncKnows(m)
     => Told

(* What no step but the deletion takes from the reference.                 *)
RefKept ==
  \/ ref' = None
  \/ /\ ref # None
     /\ ref.externalId # None => ref'.externalId = ref.externalId
     /\ ref.attempt => ref'.attempt \/ ref'.externalId # None

LEMMA StillTold ==
  ASSUME NEW q \in Polls, PollTold(q), RefKept, poll'[q] = poll[q], start' = start
  PROVE  PollTold(q)'
BY AgentAssumption DEF PollTold, Recorded, Attempted, RefKept

(* A step of poll p.                                                       *)
LEMMA PollTells ==
  ASSUME IInv, TellInv, NEW p \in Polls, NEW x,
         poll' = [poll EXCEPT ![p] = x], UNCHANGED <<start, manager>>, events \subseteq events',
         RefKept,
         \/ agent' = agent
         \/ agent # None /\ (\/ agent'.state # "RegistrationConfirmed"
                             \/ x.pc = "event" /\ x.seen = "RegistrationConfirmed"),
         agent # None /\ poll[p].pc = "event" /\ poll[p].seen = "RegistrationConfirmed"
           => {"RegistrationConfirmed", "lost"} \cap events' # {},
         x.pc = "match" => x.seen = "RegistrationConfirmed",
         x.pc \in {"assets", "match"} => x.attempt,
         x.pc = "event" => x.request \in {"none", "answered"},
         start \in {"agent", "reference"} => x.pc \in {"start", "error"} /\ x.request = "none",
         x.pc \in Unfailed /\ x.request # "none" /\ ref' # None =>
           Recorded(p)' \/ (x.pc = "timedOut" /\ Attempted')
  PROVE  TellInv'
<1>1. poll'[p] = x /\ \A q \in Polls \ {p} : poll'[q] = poll[q]
  BY DEF IInv, Types
<1>2. PollTold(p)'
  BY <1>1 DEF PollTold
<1>3. \A q \in Polls : PollTold(q)'
  BY <1>1, <1>2, StillTold DEF TellInv
<1>4. \A m \in Managers : manager'[m].pc \in {"lookup", "write"} =>
        /\ manager'[m].ref.externalId # None
        /\ ref' # None => ref'.externalId # None
  BY DEF TellInv, RefKept
<1>5. agent # None /\ Told => Told'
  BY <1>1 DEF Told
<1>6. ASSUME agent' # None,
             agent'.state = "RegistrationConfirmed" \/ \E m \in Managers : SyncKnows(m)'
      PROVE  Told'
  <2>1. agent # None
    BY <1>6
  <2>2. CASE x.pc = "event" /\ x.seen = "RegistrationConfirmed"
    BY <1>1, <2>2 DEF Told
  <2>3. CASE ~(x.pc = "event" /\ x.seen = "RegistrationConfirmed")
    BY <1>5, <1>6, <2>1, <2>3 DEF TellInv, SyncKnows
  <2> QED
    BY <2>2, <2>3
<1> QED
  BY <1>3, <1>4, <1>6 DEF TellInv

(* A step of manager m.                                                    *)
LEMMA ManagerTells ==
  ASSUME IInv, TellInv, NEW m \in Managers, NEW y,
         manager' = [manager EXCEPT ![m] = y], UNCHANGED <<start, poll>>, events \subseteq events',
         RefKept,
         \/ agent' \in {agent, None}
         \/ agent # None /\ (\/ agent'.state # "RegistrationConfirmed"
                             \/ y.pc = "event" /\ y.seen = "RegistrationConfirmed"
                             \/ SyncKnows(m)),
         agent # None /\ manager[m].pc = "event" /\ manager[m].seen = "RegistrationConfirmed"
           => {"RegistrationConfirmed", "lost"} \cap events' # {},
         y.pc \in {"lookup", "write"} =>
           /\ y.ref.externalId # None
           /\ ref' # None => ref'.externalId # None
           /\ y.agent.state = "RegistrationConfirmed" =>
                SyncKnows(m) \/ agent.state = "RegistrationConfirmed"
  PROVE  TellInv'
<1>1. manager'[m] = y /\ \A n \in Managers \ {m} : manager'[n] = manager[n]
  BY DEF IInv, Types
<1>2. \A q \in Polls : PollTold(q)'
  BY StillTold DEF TellInv
<1>3. \A n \in Managers : manager'[n].pc \in {"lookup", "write"} =>
        /\ manager'[n].ref.externalId # None
        /\ ref' # None => ref'.externalId # None
  BY <1>1 DEF TellInv, RefKept
<1>4. agent # None /\ Told => Told'
  BY <1>1 DEF Told
<1>5. ASSUME agent' # None,
             agent'.state = "RegistrationConfirmed" \/ \E n \in Managers : SyncKnows(n)'
      PROVE  Told'
  <2>1. agent # None
    BY <1>5
  <2>2. CASE y.pc = "event" /\ y.seen = "RegistrationConfirmed"
    BY <1>1, <2>2 DEF Told
  <2>3. CASE ~(y.pc = "event" /\ y.seen = "RegistrationConfirmed")
    <3>1. \A n \in Managers : SyncKnows(n)' =>
            SyncKnows(n) \/ agent.state = "RegistrationConfirmed"
      BY <1>1 DEF SyncKnows
    <3>2. agent'.state = "RegistrationConfirmed" =>
            SyncKnows(m) \/ agent.state = "RegistrationConfirmed"
      BY <1>5, <2>3
    <3> QED
      BY <1>4, <1>5, <2>1, <3>1, <3>2 DEF TellInv
  <2> QED
    BY <2>2, <2>3
<1> QED
  BY <1>2, <1>3, <1>5 DEF TellInv

(* A poll only moves on; what may count as recorded, it never sent.        *)
LEMMA PollOnlyMoves ==
  ASSUME IInv, TellInv, NEW p \in Polls, NEW c \in PollPCs, Goto(p, c),
         UNCHANGED <<start, manager, agent, ref, events>>,
         poll[p].pc # "event", c \in {"start", "lookup", "apply", "lock", "register", "await", "error"}
                               \/ (c \in {"pending", "registered"} /\ poll[p].request = "none"),
         start \in {"agent", "reference"} => c = "error"
  PROVE  TellInv'
<1> DEFINE x == [poll[p] EXCEPT !.pc = c]
<1>1. poll[p] \in PollRecords /\ PollTold(p)
  BY DEF IInv, Types, TellInv
<1>2. /\ poll' = [poll EXCEPT ![p] = x] /\ x.pc = c
      /\ x.seen = poll[p].seen /\ x.request = poll[p].request
  BY <1>1 DEF Goto, PollRecords
<1> HIDE DEF x
<1>3. RefKept
  BY DEF RefKept
<1>4. start \in {"agent", "reference"} => x.pc \in {"start", "error"} /\ x.request = "none"
  BY <1>1, <1>2 DEF PollTold
<1>5. x.pc \in Unfailed /\ x.request # "none" /\ ref' # None =>
        Recorded(p)' \/ (x.pc = "timedOut" /\ Attempted')
  BY <1>2 DEF Unfailed
<1> QED
  BY <1>2, <1>3, <1>4, <1>5, PollTells

(* Where a poll is, the agent has been created.                            *)
LEMMA PollBegan ==
  ASSUME IInv, TellInv, NEW p \in Polls, poll[p].pc \notin {"start", "error"}
  PROVE  start \notin {"agent", "reference"}
BY DEF TellInv, PollTold

------------------------------------------------------------------------------
(* The polls before their transaction.                                     *)
LEMMA PollBegins ==
  ASSUME IInv, TellInv, NEW p \in Polls, NEW x, poll' = [poll EXCEPT ![p] = x],
         poll[p].pc = "start", x.pc \in {"lock", "lookup"},
         UNCHANGED <<agent, ref, start, manager, events>>, start \notin {"agent", "reference"}
  PROVE  TellInv'
<1>1. RefKept
  BY DEF RefKept
<1> QED
  BY <1>1, PollTells DEF Unfailed

LEMMA PollReadTells == ASSUME IInv, MintInv, TellInv, NEW p \in Polls, PollRead(p) PROVE TellInv'
<1>1. /\ poll[p].pc = "start" /\ poll[p] \in PollRecords /\ poll[p].request = "none"
      /\ UNCHANGED <<agent, ref, start, manager, events>>
  BY Typed DEF PollRead, At, MintInv, BeforeAwait
<1>2. start \in {"agent", "reference"} => Goto(p, "error")
  BY DEF PollRead, IInv, Rows
<1>3. CASE \E c \in {"error", "registered"} : Goto(p, c)
  <2>1. PICK c \in {"error", "registered"} :
          Goto(p, c) /\ (start \in {"agent", "reference"} => c = "error")
    BY <1>2, <1>3
  <2> QED
    BY <1>1, <2>1, PollOnlyMoves DEF PollPCs
<1>4. CASE ref # None /\ poll' = [poll EXCEPT ![p].pc = "lock", ![p].attempt = ref.attempt]
  <2> DEFINE x == [poll[p] EXCEPT !.pc = "lock", !.attempt = ref.attempt]
  <2>1. x.pc = "lock" /\ poll' = [poll EXCEPT ![p] = x]
    BY <1>1, <1>4 DEF PollRecords
  <2>2. start \notin {"agent", "reference"}
    BY <1>4 DEF IInv, Rows
  <2> HIDE DEF x
  <2> QED
    BY <1>1, <2>1, <2>2, PollBegins
<1>5. CASE ref # None /\ poll' = [poll EXCEPT ![p].pc = "lookup", ![p].entry = ref.externalId]
  <2> DEFINE x == [poll[p] EXCEPT !.pc = "lookup", !.entry = ref.externalId]
  <2>1. x.pc = "lookup" /\ poll' = [poll EXCEPT ![p] = x]
    BY <1>1, <1>5 DEF PollRecords
  <2>2. start \notin {"agent", "reference"}
    BY <1>5 DEF IInv, Rows
  <2> HIDE DEF x
  <2> QED
    BY <1>1, <2>1, <2>2, PollBegins
<1> QED
  BY <1>3, <1>4, <1>5 DEF PollRead

LEMMA PollLookupTells ==
  ASSUME IInv, MintInv, TellInv, NEW p \in Polls, PollLookup(p) PROVE TellInv'
<1>1. /\ poll[p].pc = "lookup" /\ poll[p] \in PollRecords /\ poll[p].request = "none"
      /\ UNCHANGED <<agent, ref, start, manager, events>>
      /\ start \notin {"agent", "reference"}
  BY Typed, PollBegan DEF PollLookup, At, MintInv, BeforeAwait
<1>2. CASE Goto(p, "pending")
  BY <1>1, <1>2, PollOnlyMoves DEF PollPCs
<1>3. CASE poll' = [poll EXCEPT ![p].pc = "apply", ![p].seen = entries[poll[p].entry]]
  <2> DEFINE x == [poll[p] EXCEPT !.pc = "apply", !.seen = entries[poll[p].entry]]
  <2>1. x.pc = "apply" /\ poll' = [poll EXCEPT ![p] = x]
    BY <1>1, <1>3 DEF PollRecords
  <2> HIDE DEF x
  <2>2. RefKept
    BY <1>1 DEF RefKept
  <2> QED
    BY <1>1, <2>1, <2>2, PollTells DEF Unfailed
<1> QED
  BY <1>2, <1>3 DEF PollLookup

(* A write of what a reply says is told if it is a confirmation.           *)
LEMMA PollApplyTells ==
  ASSUME IInv, MintInv, TellInv, NEW p \in Polls, PollApply(p) PROVE TellInv'
<1>1. /\ poll[p].pc = "apply" /\ poll[p] \in PollRecords /\ poll[p].request = "none"
      /\ UNCHANGED <<ref, start, manager, events>>
      /\ start \notin {"agent", "reference"}
  BY Typed, PollBegan DEF PollApply, At, MintInv, BeforeAwait
<1>2. CASE agent = None
  BY <1>1, <1>2, PollOnlyMoves DEF PollApply, PollPCs
<1>3. CASE agent # None
  <2> DEFINE s == poll[p].seen
             x == [poll[p] EXCEPT !.pc = AfterWrite(s)]
  <2>1. /\ x.pc = AfterWrite(s) /\ x.seen = s /\ x.request = "none"
        /\ poll' = [poll EXCEPT ![p] = x] /\ agent' = Observed(agent, poll[p].entry, s)
    BY <1>1, <1>3 DEF PollApply, Goto, PollRecords
  <2>2. agent'.state = s
    BY <2>1 DEF Observed
  <2>3. x.pc \in {"event", "pending"} /\ (s = "RegistrationConfirmed" => x.pc = "event")
    BY <2>1 DEF AfterWrite, Settled
  <2> HIDE DEF x, s
  <2>4. RefKept
    BY <1>1 DEF RefKept
  <2> QED
    BY <1>1, <1>3, <2>1, <2>2, <2>3, <2>4, PollTells DEF s
<1> QED
  BY <1>2, <1>3

LEMMA PollEventTells ==
  ASSUME IInv, MintInv, TellInv, NEW p \in Polls, PollEvent(p) PROVE TellInv'
<1> DEFINE c == IF poll[p].seen = "RegistrationConfirmed" THEN "registered" ELSE "error"
           x == [poll[p] EXCEPT !.pc = c]
<1>1. /\ poll[p].pc = "event" /\ poll[p] \in PollRecords /\ PollTold(p)
      /\ UNCHANGED <<agent, ref, start, manager>> /\ start \notin {"agent", "reference"}
  BY Typed, PollBegan DEF PollEvent, At, TellInv
<1>2. /\ poll' = [poll EXCEPT ![p] = x] /\ x.pc \in {"registered", "error"}
      /\ x.request = poll[p].request
  BY <1>1 DEF PollEvent, Goto, PollRecords
<1> HIDE DEF x
<1>3. /\ events \subseteq events'
      /\ agent # None /\ poll[p].seen = "RegistrationConfirmed"
           => {"RegistrationConfirmed", "lost"} \cap events' # {}
  BY DEF PollEvent, Record
<1>4. RefKept
  BY <1>1 DEF RefKept
<1>5. x.pc \in Unfailed /\ x.request # "none" /\ ref' # None =>
        Recorded(p)' \/ (x.pc = "timedOut" /\ Attempted')
  BY <1>1, <1>2 DEF PollTold, Unfailed, Recorded, Attempted
<1> QED
  BY <1>1, <1>2, <1>3, <1>4, <1>5, PollTells

------------------------------------------------------------------------------
(* The polls in their transaction.                                         *)
LEMMA PollLockTells ==
  ASSUME IInv, MintInv, TellInv, NEW p \in Polls, PollLock(p) \/ PollLockFails(p) PROVE TellInv'
<1>1. /\ poll[p].pc = "lock" /\ poll[p] \in PollRecords /\ poll[p].request = "none"
      /\ UNCHANGED <<agent, ref, start, manager, events>>
      /\ start \notin {"agent", "reference"}
  BY Typed, PollBegan DEF PollLock, PollLockFails, At, MintInv, BeforeAwait
<1>2. CASE \E c \in {"error", "registered", "pending", "register"} : Goto(p, c)
  BY <1>1, <1>2, PollOnlyMoves DEF PollPCs
<1>3. CASE poll[p].attempt /\ Goto(p, "assets")
  <2> DEFINE x == [poll[p] EXCEPT !.pc = "assets"]
  <2>1. x.pc = "assets" /\ x.attempt /\ poll' = [poll EXCEPT ![p] = x]
    BY <1>1, <1>3 DEF PollRecords, Goto
  <2> HIDE DEF x
  <2>2. RefKept
    BY <1>1 DEF RefKept
  <2> QED
    BY <1>1, <2>1, <2>2, PollTells DEF Unfailed
<1>4. PollLock(p) \/ PollLockFails(p)
  OBVIOUS
<1>5. CASE PollLock(p)
  <2>1. CASE ref = None \/ (ref # None /\ ref.externalId = None)
    BY <1>2, <1>3, <1>5, <2>1 DEF PollLock
  <2>2. CASE ref # None /\ ref.externalId # None
    <3>1. \/ Goto(p, "registered") \/ Goto(p, "error") \/ Goto(p, "pending")
      BY <1>5, <2>2 DEF PollLock
    <3> QED
      BY <1>2, <3>1
  <2> QED
    BY <2>1, <2>2
<1> QED
  BY <1>2, <1>4, <1>5 DEF PollLockFails

LEMMA PollAssetsTells ==
  ASSUME IInv, MintInv, TellInv, NEW p \in Polls, PollAssets(p) PROVE TellInv'
<1>1. /\ poll[p].pc = "assets" /\ poll[p] \in PollRecords /\ poll[p].request = "none"
      /\ UNCHANGED <<agent, ref, start, manager, events>>
      /\ start \notin {"agent", "reference"} /\ poll[p].attempt
  BY Typed, PollBegan DEF PollAssets, At, MintInv, BeforeAwait, TellInv, PollTold
<1>2. CASE \E c \in {"register", "pending", "error"} : Goto(p, c)
  BY <1>1, <1>2, PollOnlyMoves DEF PollPCs
<1>3. ASSUME NEW e \in Polls,
             poll' = [poll EXCEPT ![p].pc = "match", ![p].entry = e,
                                  ![p].seen = "RegistrationConfirmed"]
      PROVE  TellInv'
  <2> DEFINE x == [poll[p] EXCEPT !.pc = "match", !.entry = e, !.seen = "RegistrationConfirmed"]
  <2>1. /\ x.pc = "match" /\ x.attempt /\ x.seen = "RegistrationConfirmed"
        /\ poll' = [poll EXCEPT ![p] = x]
    BY <1>1, <1>3 DEF PollRecords
  <2> HIDE DEF x
  <2>2. RefKept
    BY <1>1 DEF RefKept
  <2> QED
    BY <1>1, <2>1, <2>2, PollTells DEF Unfailed
<1> QED
  BY <1>2, <1>3 DEF PollAssets

LEMMA PollSendTells ==
  ASSUME IInv, MintInv, TellInv, NEW p \in Polls, PollSend(p) PROVE TellInv'
<1> DEFINE x == [poll[p] EXCEPT !.pc = "await", !.request = "sent"]
<1>1. /\ poll[p].pc = "register" /\ poll[p] \in PollRecords
      /\ UNCHANGED <<agent, ref, start, manager, events>>
      /\ start \notin {"agent", "reference"} /\ poll' = [poll EXCEPT ![p] = x]
  BY Typed, PollBegan DEF PollSend, At
<1>2. x.pc = "await"
  BY <1>1 DEF PollRecords
<1> HIDE DEF x
<1>3. RefKept
  BY <1>1 DEF RefKept
<1> QED
  BY <1>1, <1>2, <1>3, PollTells DEF Unfailed

LEMMA PollFailsTells ==
  ASSUME IInv, TellInv, NEW p \in Polls, PollError(p), poll[p].pc # "event",
         UNCHANGED <<start, manager, events>>
  PROVE  TellInv'
BY PollOnlyMoves DEF PollError, PollPCs

LEMMA PollMatchTells ==
  ASSUME IInv, MintInv, TellInv, NEW p \in Polls, PollMatch(p) PROVE TellInv'
<1>1. /\ poll[p].pc = "match" /\ poll[p] \in PollRecords /\ poll[p].request = "none"
      /\ poll[p].seen = "RegistrationConfirmed" /\ poll[p].attempt
      /\ UNCHANGED <<start, manager, events>> /\ start \notin {"agent", "reference"}
  BY Typed, PollBegan DEF PollMatch, At, MintInv, BeforeAwait, TellInv, PollTold
<1>2. CASE ~TxOpen(p)
  BY <1>1, <1>2, PollFailsTells DEF PollMatch
<1>3. CASE TxOpen(p)
  <2>1. ref \in RefRows /\ ref # None /\ agent # None
    BY <1>3, Typed DEF TxOpen, IInv, Locks
  <2> DEFINE x == [poll[p] EXCEPT !.pc = "event"]
  <2>2. /\ x.pc = "event" /\ x.seen = "RegistrationConfirmed" /\ x.request = "none"
        /\ poll' = [poll EXCEPT ![p] = x]
        /\ ref' = [ref EXCEPT !.status = "ACTIVE", !.attempt = poll[p].attempt]
    BY <1>1, <1>3 DEF PollMatch, Goto, PollRecords
  <2> HIDE DEF x
  <2>3. RefKept
    BY <1>1, <2>1, <2>2 DEF RefKept, RefRows
  <2> QED
    BY <1>1, <2>1, <2>2, <2>3, PollTells
<1> QED
  BY <1>2, <1>3

LEMMA PollRecordTells ==
  ASSUME IInv, MintInv, TellInv, NEW p \in Polls, PollRecord(p) PROVE TellInv'
<1>1. /\ poll[p].pc = "await" /\ poll[p] \in PollRecords /\ poll[p].request = "answered"
      /\ UNCHANGED <<start, manager, events>> /\ start \notin {"agent", "reference"}
  BY Typed, PollBegan DEF PollRecord, At
<1>2. CASE ~TxOpen(p)
  BY <1>1, <1>2, PollFailsTells DEF PollRecord
<1>3. CASE TxOpen(p)
  <2>1. ref \in RefRows /\ ref # None /\ agent # None /\ ref.externalId = None
    BY <1>3, Typed DEF TxOpen, IInv, Locks
  <2> DEFINE s == poll[p].seen
             x == [poll[p] EXCEPT !.pc = AfterWrite(s)]
  <2>2. /\ x.pc = AfterWrite(s) /\ x.seen = s /\ x.request = "answered"
        /\ poll' = [poll EXCEPT ![p] = x] /\ agent' = Observed(agent, p, s)
        /\ ref' = [ref EXCEPT !.externalId = p, !.attempt = poll[p].attempt]
    BY <1>1, <1>3 DEF PollRecord, Goto, PollRecords
  <2>3. agent'.state = s
    BY <2>2 DEF Observed
  <2>4. x.pc \in {"event", "pending"} /\ (s = "RegistrationConfirmed" => x.pc = "event")
    BY <2>2 DEF AfterWrite, Settled
  <2> HIDE DEF x, s
  <2>5. ref'.externalId = p /\ p # None
    BY <2>1, <2>2, AgentAssumption DEF RefRows
  <2>6. RefKept
    BY <2>1, <2>5 DEF RefKept
  <2>7. x.pc \in Unfailed /\ x.request # "none" /\ ref' # None =>
          Recorded(p)' \/ (x.pc = "timedOut" /\ Attempted')
    BY <2>1, <2>5 DEF Recorded
  <2> QED
    BY <1>1, <2>1, <2>2, <2>3, <2>4, <2>6, <2>7, PollTells
<1> QED
  BY <1>2, <1>3

LEMMA PollHttpTimeoutTells ==
  ASSUME IInv, MintInv, TellInv, NEW p \in Polls, PollHttpTimeout(p) PROVE TellInv'
<1>1. /\ poll[p].pc = "await" /\ poll[p] \in PollRecords
      /\ UNCHANGED <<start, manager, events>> /\ start \notin {"agent", "reference"}
  BY Typed, PollBegan DEF PollHttpTimeout, At
<1>2. CASE ~TxOpen(p)
  BY <1>1, <1>2, PollFailsTells DEF PollHttpTimeout
<1>3. CASE TxOpen(p)
  <2>1. ref \in RefRows /\ ref # None /\ agent # None /\ agent \in AgentRows
    BY <1>3, Typed DEF TxOpen, IInv, Locks
  <2> DEFINE x == [poll[p] EXCEPT !.pc = "timedOut"]
  <2>2. /\ x.pc = "timedOut" /\ poll' = [poll EXCEPT ![p] = x]
        /\ agent' = [agent EXCEPT !.state = "RegistrationRequested"]
        /\ ref' = [ref EXCEPT !.attempt = TRUE]
    BY <1>1, <1>3 DEF PollHttpTimeout, Goto, PollRecords
  <2> HIDE DEF x
  <2>3. agent'.state = "RegistrationRequested" /\ ref'.attempt /\ ref'.externalId = ref.externalId
    BY <2>1, <2>2 DEF AgentRows, RefRows
  <2>4. RefKept /\ (Recorded(p)' \/ (x.pc = "timedOut" /\ Attempted'))
    BY <2>1, <2>2, <2>3 DEF RefKept, Attempted
  <2> QED
    BY <1>1, <2>1, <2>2, <2>3, <2>4, PollTells
<1> QED
  BY <1>2, <1>3

(* The request of a poll on its way.                                       *)
LEMMA NodeTells ==
  ASSUME IInv, MintInv, TellInv, NEW p \in Polls, NodeRegisters(p) \/ NodeAnswers(p)
  PROVE  TellInv'
<1>1. /\ poll[p] \in PollRecords /\ PollTold(p) /\ poll[p].request \in {"sent", "handled"}
      /\ UNCHANGED <<agent, ref, start, manager, events>>
  BY Typed DEF NodeRegisters, NodeAnswers, TellInv
<1>2. PICK q \in {"handled", "refused", "answered"}, s \in EntryStates :
        poll' = [poll EXCEPT ![p].request = q, ![p].seen = s]
  <2>1. CASE NodeRegisters(p)
    <3>1. PICK q \in {"handled", "refused"} : poll' = [poll EXCEPT ![p].request = q]
      BY <2>1 DEF NodeRegisters
    <3>2. poll' = [poll EXCEPT ![p].request = q, ![p].seen = poll[p].seen]
      BY <1>1, <3>1 DEF PollRecords, IInv, Types
    <3> QED
      BY <1>1, <3>2 DEF PollRecords
  <2>2. CASE NodeAnswers(p)
    BY <2>2, Typed DEF NodeAnswers
  <2> QED
    BY <2>1, <2>2
<1> DEFINE x == [poll[p] EXCEPT !.request = q, !.seen = s]
<1>3. x.pc = poll[p].pc /\ x.request = q /\ poll' = [poll EXCEPT ![p] = x]
  BY <1>1, <1>2 DEF PollRecords
<1> HIDE DEF x
<1>4. x.pc \notin {"event", "match", "assets"} /\ start \notin {"agent", "reference"}
  BY <1>1, <1>3 DEF PollTold, MintInv, BeforeAwait
<1>5. RefKept
  BY <1>1 DEF RefKept
<1>6. x.pc \in Unfailed /\ x.request # "none" /\ ref' # None =>
        Recorded(p)' \/ (x.pc = "timedOut" /\ Attempted')
  BY <1>1, <1>3 DEF PollTold, Recorded, Attempted
<1> QED
  BY <1>1, <1>3, <1>4, <1>5, <1>6, PollTells


(* The other steps a poll is part of: it fails, or the database ends the   *)
(* DELETE that it is deadlocked with.                                      *)
LEMMA DeadlockTells ==
  ASSUME IInv, TellInv, NEW p \in Polls, PollRefused(p) \/ Deadlock(p) PROVE TellInv'
<1>1. UNCHANGED <<start, events>> /\ poll[p].pc # "event"
  BY DEF PollRefused, Deadlock, At
<1>2. CASE PollError(p) /\ UNCHANGED manager
  BY <1>1, <1>2, PollFailsTells
<1>3. CASE /\ deleteLock # None /\ Done(deleteLock)
           /\ UNCHANGED <<agent, ref, poll>>
  <2>1. deleteLock \in Managers /\ manager[deleteLock].pc = "cascade"
    BY <1>3 DEF IInv, Types, Locks
  <2>2. RefKept /\ IdleManager.pc = "idle"
    BY <1>3 DEF RefKept, IdleManager
  <2> QED
    BY <1>1, <1>3, <2>1, <2>2, ManagerTells DEF Done
<1> QED
  BY <1>2, <1>3 DEF PollRefused, Deadlock

------------------------------------------------------------------------------
(* Steps that touch none of this, and the creation of the agent.           *)
LEMMA QuietTells ==
  ASSUME TellInv, UNCHANGED <<agent, ref, start, poll, manager, events>> PROVE TellInv'
BY DEF TellInv, PollTold, Recorded, Attempted, Told, SyncKnows

LEMMA StartTells ==
  ASSUME IInv, TellInv, StartAgent \/ StartReference \/ StartEvent PROVE TellInv'
<1>1. UNCHANGED <<poll, manager>> /\ start' # "agent" /\ events \subseteq events'
      /\ (start' = "reference" => start = "agent")
  BY DEF StartAgent, StartReference, StartEvent, Record
<1>2. CASE StartAgent
  <2>1. agent = None /\ ref = None /\ ref' = None /\ agent'.state # "RegistrationConfirmed"
        /\ \A m \in Managers : manager[m].pc = "idle"
    BY <1>2 DEF StartAgent, IInv, Rows
  <2> QED
    BY <1>1, <1>2, <2>1 DEF StartAgent, TellInv, PollTold, SyncKnows
<1>3. CASE StartReference
  <2>1. \A m \in Managers : manager[m].pc = "idle"
    BY <1>3 DEF StartReference, IInv, Rows
  <2>2. \A p \in Polls : poll[p].request = "none" /\ poll[p].pc \in {"start", "error"}
    BY <1>3 DEF StartReference, TellInv, PollTold
  <2>3. UNCHANGED <<agent, events>>
    BY <1>3 DEF StartReference
  <2>4. \A p \in Polls : PollTold(p)'
    BY <1>1, <2>2 DEF PollTold
  <2>5. agent' # None /\ agent'.state = "RegistrationConfirmed" => Told'
    BY <1>1, <2>3 DEF TellInv, Told
  <2> QED
    BY <1>1, <2>1, <2>4, <2>5 DEF TellInv, SyncKnows
<1>4. CASE StartEvent
  <2>1. UNCHANGED <<agent, ref>> /\ start' = "done"
    BY <1>4 DEF StartEvent
  <2>2. \A p \in Polls : PollTold(p)'
    BY <1>1, <2>1 DEF TellInv, PollTold, Recorded, Attempted
  <2>3. Told => Told'
    BY <1>1 DEF Told
  <2> QED
    BY <1>1, <2>1, <2>2, <2>3 DEF TellInv, SyncKnows
<1> QED
  BY <1>2, <1>3, <1>4

------------------------------------------------------------------------------
(* The owner's requests.                                                   *)
LEMMA ManagerReadTells ==
  ASSUME IInv, TellInv, NEW m \in Managers, NEW op \in Operations, ManagerRead(m, op)
  PROVE  TellInv'
<1>1. PICK c \in {"lookup", "call", "deleteEvent", "deleteEntry"} :
        /\ manager' = [manager EXCEPT ![m] =
             [pc |-> c, op |-> op, agent |-> agent, ref |-> ref, seen |-> "absent"]]
        /\ c = "lookup" => ref.externalId # None
  BY DEF ManagerRead
<1>2. UNCHANGED <<agent, ref, start, poll, events>> /\ manager[m].pc = "idle"
  BY DEF ManagerRead
<1> DEFINE y == [pc |-> c, op |-> op, agent |-> agent, ref |-> ref, seen |-> "absent"]
<1>3. y.pc = c /\ y.agent = agent /\ y.ref = ref
  OBVIOUS
<1>4. manager' = [manager EXCEPT ![m] = y]
  BY <1>1
<1> HIDE DEF y
<1>5. RefKept
  BY <1>2 DEF RefKept
<1> QED
  BY <1>1, <1>2, <1>3, <1>4, <1>5, ManagerTells

LEMMA SyncLookupTells ==
  ASSUME IInv, TellInv, NEW m \in Managers, SyncLookup(m) PROVE TellInv'
<1>1. /\ UNCHANGED <<agent, ref, start, poll, events>> /\ manager[m].pc = "lookup"
      /\ manager[m] \in ManagerRecords
  BY DEF SyncLookup, IInv, Types
<1>2. RefKept
  BY <1>1 DEF RefKept
<1>3. CASE Done(m)
  <2>1. IdleManager.pc = "idle"
    BY DEF IdleManager
  <2> QED
    BY <1>1, <1>2, <1>3, <2>1, ManagerTells DEF Done
<1>4. CASE ~Done(m)
  <2> DEFINE s == entries[manager[m].ref.externalId]
             y == [manager[m] EXCEPT !.pc = "write", !.seen = s]
  <2>1. /\ manager' = [manager EXCEPT ![m] = y] /\ y.pc = "write"
        /\ y.ref = manager[m].ref /\ y.agent = manager[m].agent
    BY <1>1, <1>4 DEF SyncLookup, ManagerRecords
  <2> HIDE DEF y
  <2>2. manager[m].ref.externalId # None /\ (ref # None => ref.externalId # None)
    BY <1>1 DEF TellInv
  <2>3. y.agent.state = "RegistrationConfirmed" => SyncKnows(m)
    BY <1>1, <2>1 DEF SyncKnows
  <2> QED
    BY <1>1, <1>2, <2>1, <2>2, <2>3, ManagerTells
<1> QED
  BY <1>3, <1>4

(* A sync that sees a confirmation tells of it, or read the agent when it  *)
(* was confirmed already.                                                  *)
LEMMA SyncWriteTells ==
  ASSUME IInv, TellInv, NEW m \in Managers, SyncWrite(m) PROVE TellInv'
<1> DEFINE s == manager[m].seen
           y == [manager[m] EXCEPT !.pc = "event"]
<1>1. /\ UNCHANGED <<start, poll, events>> /\ manager[m].pc = "write"
      /\ manager[m] \in ManagerRecords
  BY DEF SyncWrite, IInv, Types
<1>2. IdleManager.pc = "idle"
  BY DEF IdleManager
<1>3. CASE agent = None
  <2>1. RefKept
    BY <1>3 DEF SyncWrite, RefKept, IInv, Rows, Types
  <2> QED
    BY <1>1, <1>2, <1>3, <2>1, ManagerTells DEF SyncWrite, Done
<1>4. CASE agent # None
  <2>1. ref # None /\ ref \in RefRows
    BY <1>1, <1>4 DEF IInv, Rows, Types
  <2>2. ref.externalId # None
    BY <1>1, <2>1 DEF TellInv
  <2>3. PICK t \in {"PENDING", "ACTIVE", "DEREGISTERED"} :
          ref' = [ref EXCEPT !.status = t, !.attempt = manager[m].ref.attempt]
    <3>1. manager[m].ref \in RefRows
      BY <1>1 DEF IInv, Replies, ManagerRecords
    <3> QED
      BY <1>4, <3>1 DEF SyncWrite, RefRows
  <2>4. ref'.externalId = ref.externalId
    BY <2>1, <2>3 DEF RefRows
  <2>5. RefKept
    BY <2>1, <2>2, <2>4 DEF RefKept
  <2>6. agent'.state = s
    BY <1>4 DEF SyncWrite, Observed
  <2>7. y.pc = "event" /\ y.seen = s
    BY <1>1 DEF ManagerRecords
  <2>8. \/ manager' = [manager EXCEPT ![m] = y]
        \/ /\ manager' = [manager EXCEPT ![m] = IdleManager]
           /\ s = "RegistrationConfirmed" => SyncKnows(m)
    BY <1>1, <1>4 DEF SyncWrite, Leave, Done, Announced, SyncKnows
  <2> HIDE DEF s, y
  <2> QED
    BY <1>1, <1>2, <1>4, <2>5, <2>6, <2>7, <2>8, ManagerTells
<1> QED
  BY <1>3, <1>4


(* Deregistering and deleting confirms nothing; the cascade takes both     *)
(* rows.                                                                   *)
LEMMA OtherRequestsTell ==
  ASSUME IInv, TellInv, NEW m \in Managers,
         \/ DeregisterCall(m) \/ DeregisterWrite(m) \/ ManagerEvent(m) \/ DeleteEntry(m)
         \/ DeleteEvent(m) \/ DeleteLock(m) \/ DeleteCascade(m)
  PROVE  TellInv'
<1>1. /\ UNCHANGED <<start, poll>> /\ events \subseteq events'
      /\ manager[m].pc \notin {"lookup", "write"} /\ manager[m] \in ManagerRecords
  BY DEF DeregisterCall, DeregisterWrite, ManagerEvent, DeleteEntry, DeleteEvent, DeleteLock,
         DeleteCascade, Record, IInv, Types
<1>2. PICK c \in ManagerPCs \ {"lookup", "write"}, s \in EntryStates :
        \/ manager' = [manager EXCEPT ![m].pc = c, ![m].seen = s]
        \/ manager' = [manager EXCEPT ![m] = IdleManager]
  <2>1. \A c : [manager EXCEPT ![m].pc = c]
                 = [manager EXCEPT ![m].pc = c, ![m].seen = manager[m].seen]
    BY <1>1 DEF IInv, Types, ManagerRecords
  <2>2. manager[m].seen \in EntryStates /\ "DeregistrationRequested" \in EntryStates
    BY <1>1 DEF ManagerRecords, EntryStates, RegistrationStates
  <2>3. \/ \E c \in {"event", "deleteEvent", "delete", "cascade"} :
             manager' = [manager EXCEPT ![m].pc = c]
        \/ manager' = [manager EXCEPT ![m].pc = "deregister",
                                      ![m].seen = "DeregistrationRequested"]
        \/ manager' = [manager EXCEPT ![m] = IdleManager]
    BY DEF DeregisterCall, DeregisterWrite, ManagerEvent, DeleteEntry, DeleteEvent, DeleteLock,
           DeleteCascade, Leave, Done
  <2> QED
    BY <2>1, <2>2, <2>3 DEF ManagerPCs
<1>3. PICK y : manager' = [manager EXCEPT ![m] = y] /\ y.pc \notin {"lookup", "write"}
  <2>1. IdleManager.pc = "idle"
    BY DEF IdleManager
  <2>2. [manager[m] EXCEPT !.pc = c, !.seen = s].pc = c
    BY <1>1 DEF ManagerRecords
  <2> QED
    BY <1>2, <2>1, <2>2
<1>4. RefKept
  BY DEF RefKept, DeregisterCall, DeregisterWrite, ManagerEvent, DeleteEntry, DeleteEvent,
         DeleteLock, DeleteCascade
<1>5. \/ agent' \in {agent, None}
      \/ agent # None /\ agent'.state # "RegistrationConfirmed"
  BY Typed DEF AgentRows, DeregisterCall, DeregisterWrite, ManagerEvent, DeleteEntry,
     DeleteEvent, DeleteLock, DeleteCascade
<1>6. agent # None /\ manager[m].pc = "event" /\ manager[m].seen = "RegistrationConfirmed"
        => {"RegistrationConfirmed", "lost"} \cap events' # {}
  BY DEF DeregisterCall, DeregisterWrite, ManagerEvent, DeleteEntry, DeleteEvent, DeleteLock,
         DeleteCascade, Record
<1> QED
  BY <1>1, <1>3, <1>4, <1>5, <1>6, ManagerTells

(* The step of what requests leave behind.                                 *)
LEMMA TellStep == IInv /\ MintInv /\ TellInv /\ [Next]_vars => TellInv'
<1> SUFFICES ASSUME IInv, MintInv, TellInv, [Next]_vars PROVE TellInv'
  OBVIOUS
<1>1. ASSUME NEW p \in Polls, PollStep(p) PROVE TellInv'
  BY <1>1, PollReadTells, PollLookupTells, PollApplyTells, PollEventTells, PollLockTells,
     PollAssetsTells, PollSendTells, PollMatchTells, PollRecordTells, PollHttpTimeoutTells,
     DeadlockTells DEF PollStep
<1>2. ASSUME NEW m \in Managers, ManagerStep(m) PROVE TellInv'
  BY <1>2, SyncLookupTells, SyncWriteTells, OtherRequestsTell DEF ManagerStep
<1>3. CASE UNCHANGED vars \/ \E p \in Polls : TxExpires(p) \/ NodeSettles(p)
  BY <1>3, QuietTells DEF vars, TxExpires, NodeSettles
<1> QED
  BY <1>1, <1>2, <1>3, StartTells, NodeTells, ManagerReadTells DEF Next

(* The whole invariant.                                                    *)
LEMMA TellAlways == Spec => [](IInv /\ MintInv /\ TellInv)
<1>1. Init => MintInv
  BY AgentAssumption DEF Init, MintInv, IdlePoll, IdleManager, BeforeAwait, Fresh, HasIdentifier
<1>2. Init => TellInv
  BY DEF Init, TellInv, PollTold, IdlePoll, IdleManager, SyncKnows, Unfailed
<1> QED
  BY <1>1, <1>2, InvInit, InvStep, MintStep, TellStep, PTL DEF Spec

------------------------------------------------------------------------------
(* An agent is deleted after its entry.  A delete request that found an    *)
(* entry in the reference keeps naming the entry the reference names, and  *)
(* once past the payment node that entry is gone.                          *)
Deleting == {"deleteEntry", "deleteEvent", "delete", "cascade"}
Out == {"handled", "answered"}
Deletes(m) ==
  /\ manager[m].ref # None
  /\ manager[m].ref.externalId # None =>
       /\ ref # None => ref.externalId = manager[m].ref.externalId
       /\ manager[m].pc # "deleteEntry" =>
            /\ poll[manager[m].ref.externalId].request \in Out
            /\ entries[manager[m].ref.externalId] = "absent"
DeleteInv ==
  /\ deleteLock # None => agent # None
  /\ \A m \in Managers : manager[m].pc \in Deleting => Deletes(m)

(* What the payment node has handled it does not handle again.             *)
LEMMA GoneStays ==
  ASSUME IInv, MintInv, Next, NEW e \in Polls, poll[e].request \in Out
  PROVE  poll'[e].request \in Out /\ (entries[e] = "absent" => entries'[e] = "absent")
<1> USE DEF Out
<1>0. /\ poll \in [Polls -> PollRecords] /\ entries \in [Polls -> EntryStates]
      /\ poll[e].pc \notin BeforeAwait
  BY DEF IInv, Types, MintInv
<1>a. \A p \in Polls : poll[p] \in PollRecords
  BY <1>0
<1>1. ASSUME NEW p \in Polls, PollStep(p) PROVE poll'[e].request = poll[e].request
  <2>1. \/ poll' = poll
        \/ \E c : Goto(p, c)
        \/ \E x : poll' = [poll EXCEPT ![p] = x] /\ poll[p].pc \in BeforeAwait
    <3>1. CASE PollRead(p)
      <4>1. poll[p].pc \in BeforeAwait
        BY <3>1 DEF PollRead, At, BeforeAwait
      <4> QED
        BY <3>1, <4>1 DEF PollRead
    <3>2. CASE PollLookup(p)
      <4>1. poll[p].pc \in BeforeAwait
        BY <3>2 DEF PollLookup, At, BeforeAwait
      <4> QED
        BY <3>2, <4>1 DEF PollLookup
    <3>3. CASE PollAssets(p)
      <4>1. poll[p].pc \in BeforeAwait
        BY <3>3 DEF PollAssets, At, BeforeAwait
      <4> QED
        BY <3>3, <4>1 DEF PollAssets
    <3>4. CASE PollSend(p)
      <4>1. poll[p].pc \in BeforeAwait
        BY <3>4 DEF PollSend, At, BeforeAwait
      <4> QED
        BY <3>4, <4>1 DEF PollSend
    <3> QED
      BY <1>1, <3>1, <3>2, <3>3, <3>4 DEF PollStep, PollApply, PollEvent, PollLock,
         PollLockFails, PollMatch, PollRecord, PollHttpTimeout, PollRefused, Deadlock, PollError
  <2>2. ASSUME NEW c, Goto(p, c) PROVE poll'[e].request = poll[e].request
    BY <1>0, <1>a, <2>2 DEF Goto, PollRecords
  <2>3. ASSUME NEW x, poll' = [poll EXCEPT ![p] = x], poll[p].pc \in BeforeAwait
        PROVE  poll'[e].request = poll[e].request
    BY <1>0, <2>3
  <2> QED
    BY <2>1, <2>2, <2>3
<1>2. ASSUME NEW p \in Polls, PollStep(p) PROVE entries' = entries
  BY <1>2 DEF PollStep, PollRead, PollLookup, PollApply, PollEvent, PollLock, PollLockFails,
     PollAssets, PollMatch, PollSend, PollRecord, PollHttpTimeout, PollRefused, Deadlock
<1>3. ASSUME NEW p \in Polls, NodeRegisters(p)
      PROVE  poll'[e] = poll[e] /\ entries'[e] = entries[e]
  BY <1>0, <1>3 DEF NodeRegisters
<1>4. ASSUME NEW p \in Polls, NodeAnswers(p)
      PROVE  poll'[e].request \in Out /\ entries' = entries
  BY <1>0, <1>a, <1>4 DEF NodeAnswers, PollRecords
<1>5. ASSUME NEW p \in Polls, NodeSettles(p)
      PROVE  poll' = poll /\ (entries[e] = "absent" => entries'[e] = "absent")
  BY <1>0, <1>5 DEF NodeSettles, Outcomes
<1>6. ASSUME NEW m \in Managers, ManagerStep(m)
      PROVE  poll' = poll /\ (entries[e] = "absent" => entries'[e] = "absent")
  <2>1. CASE DeregisterCall(m)
    BY <1>0, <2>1 DEF DeregisterCall
  <2>2. CASE DeleteEntry(m)
    BY <1>0, <2>2 DEF DeleteEntry
  <2> QED
    BY <1>6, <2>1, <2>2 DEF ManagerStep, SyncLookup, SyncWrite, DeregisterWrite, ManagerEvent,
       DeleteEvent, DeleteLock, DeleteCascade
<1>7. ASSUME NEW m \in Managers, NEW op \in Operations, ManagerRead(m, op)
      PROVE  poll' = poll /\ entries' = entries
  BY <1>7 DEF ManagerRead
<1>8. ASSUME NEW p \in Polls, TxExpires(p) PROVE poll' = poll /\ entries' = entries
  BY <1>8 DEF TxExpires
<1> QED
  BY <1>1, <1>2, <1>3, <1>4, <1>5, <1>6, <1>7, <1>8 DEF Next, StartAgent, StartReference,
     StartEvent

(* How a request comes to be deleting.                                     *)
LEMMA DeleteBegins ==
  ASSUME IInv, Next, NEW m \in Managers, manager'[m].pc \in Deleting, manager'[m] # manager[m]
  PROVE  \/ /\ ref # None /\ ref' = ref /\ manager'[m].ref = ref
            /\ manager'[m].pc # "deleteEntry" => ref.externalId = None
         \/ /\ manager[m].pc = "deleteEntry" /\ manager'[m].ref = manager[m].ref
            /\ Known(manager[m].ref.externalId)
            /\ entries' = [entries EXCEPT ![manager[m].ref.externalId] = "absent"]
         \/ /\ manager[m].pc \in Deleting \ {"deleteEntry"}
            /\ manager'[m].ref = manager[m].ref /\ manager'[m].pc # "deleteEntry"
<1> USE DEF Deleting
<1>0. manager \in [Managers -> ManagerRecords] /\ manager[m] \in ManagerRecords
  BY DEF IInv, Types
<1>1. ASSUME NEW n \in Managers, NEW op \in Operations, ManagerRead(n, op)
      PROVE  /\ ref # None /\ ref' = ref /\ manager'[m].ref = ref
             /\ manager'[m].pc # "deleteEntry" => ref.externalId = None
  <2>1. PICK c \in {"lookup", "call", "deleteEvent", "deleteEntry"} :
          /\ manager' = [manager EXCEPT ![n] =
               [pc |-> c, op |-> op, agent |-> agent, ref |-> ref, seen |-> "absent"]]
          /\ c = "deleteEvent" => ref.externalId = None
    BY <1>1 DEF ManagerRead
  <2>2. n = m /\ manager'[m] =
               [pc |-> c, op |-> op, agent |-> agent, ref |-> ref, seen |-> "absent"]
    BY <1>0, <2>1
  <2>3. ref # None /\ ref' = ref
    BY <1>1 DEF ManagerRead
  <2> QED
    BY <2>1, <2>2, <2>3
<1>2. ASSUME NEW n \in Managers, ManagerStep(n)
      PROVE  \/ /\ manager[m].pc = "deleteEntry" /\ manager'[m].ref = manager[m].ref
                /\ Known(manager[m].ref.externalId)
                /\ entries' = [entries EXCEPT ![manager[m].ref.externalId] = "absent"]
             \/ /\ manager[m].pc \in Deleting \ {"deleteEntry"}
                /\ manager'[m].ref = manager[m].ref /\ manager'[m].pc # "deleteEntry"
  <2>1. \A y : manager' = [manager EXCEPT ![n] = y] => n = m /\ manager'[m] = y
    BY <1>0
  <2>2. \A c : Leave(n, c) => n = m /\ manager'[m].pc = c /\ manager'[m].ref = manager[m].ref
    BY <1>0, <2>1 DEF Leave, ManagerRecords
  <2>3. ~Done(n)
    BY <2>1 DEF Done, IdleManager
  <2>4. CASE SyncLookup(n)
    BY <1>0, <2>1, <2>3, <2>4 DEF SyncLookup, ManagerRecords
  <2>5. CASE SyncWrite(n) \/ DeregisterWrite(n) \/ ManagerEvent(n)
    BY <2>2, <2>3, <2>5 DEF SyncWrite, DeregisterWrite, ManagerEvent
  <2>6. CASE DeregisterCall(n)
    BY <1>0, <2>1, <2>3, <2>6 DEF DeregisterCall, ManagerRecords
  <2>7. CASE DeleteEntry(n)
    BY <2>2, <2>3, <2>7 DEF DeleteEntry
  <2>8. CASE DeleteEvent(n) \/ DeleteLock(n) \/ DeleteCascade(n)
    BY <2>2, <2>3, <2>8 DEF DeleteEvent, DeleteLock, DeleteCascade
  <2> QED
    BY <1>2, <2>4, <2>5, <2>6, <2>7, <2>8 DEF ManagerStep
<1>3. ASSUME NEW p \in Polls, PollStep(p) PROVE FALSE
  <2>1. \/ manager' = manager
        \/ deleteLock # None /\ Done(deleteLock)
    BY <1>3 DEF PollStep, PollRead, PollLookup, PollApply, PollEvent, PollLock, PollLockFails,
       PollAssets, PollMatch, PollSend, PollRecord, PollHttpTimeout, PollRefused, Deadlock
  <2> QED
    BY <1>0, <2>1 DEF Done, IdleManager
<1>4. ASSUME NEW p \in Polls,
             TxExpires(p) \/ NodeRegisters(p) \/ NodeAnswers(p) \/ NodeSettles(p)
      PROVE  FALSE
  BY <1>4 DEF TxExpires, NodeRegisters, NodeAnswers, NodeSettles
<1> QED
  BY <1>1, <1>2, <1>3, <1>4 DEF Next, StartAgent, StartReference, StartEvent

(* Who takes the agent's row.                                              *)
LEMMA RowTaken ==
  ASSUME IInv, Next, deleteLock # None => agent # None, deleteLock' # None
  PROVE  agent' # None
<1>0. \A a \in AgentRows : a # None
  BY NoRow
<1>1. ASSUME NEW p \in Polls, PollStep(p) PROVE agent' # None
  <2>1. deleteLock # None
    BY <1>1 DEF PollStep, PollRead, PollLookup, PollApply, PollEvent, PollLock, PollLockFails,
       PollAssets, PollMatch, PollSend, PollRecord, PollHttpTimeout, PollRefused, Deadlock
  <2> QED
    BY <1>1, <2>1 DEF PollStep, PollRead, PollLookup, PollApply, PollEvent, PollLock,
       PollLockFails, PollAssets, PollMatch, PollSend, PollRecord, PollHttpTimeout,
       PollRefused, PollError, Deadlock
<1>2. ASSUME NEW m \in Managers, ManagerStep(m) PROVE agent' # None
  BY <1>2 DEF ManagerStep, SyncLookup, SyncWrite, DeregisterCall, DeregisterWrite,
     ManagerEvent, DeleteEntry, DeleteEvent, DeleteLock, DeleteCascade
<1>3. ASSUME NEW m \in Managers, NEW op \in Operations, ManagerRead(m, op) PROVE agent' # None
  BY <1>3 DEF ManagerRead
<1>4. ASSUME NEW p \in Polls,
             TxExpires(p) \/ NodeRegisters(p) \/ NodeAnswers(p) \/ NodeSettles(p)
      PROVE  agent' # None
  BY <1>4 DEF TxExpires, NodeRegisters, NodeAnswers, NodeSettles
<1>5. StartAgent \/ StartReference \/ StartEvent => agent' # None
  BY AgentAssumption, <1>0 DEF StartAgent, StartReference, StartEvent, AgentRows,
     RegistrationStates
<1> QED
  BY <1>1, <1>2, <1>3, <1>4, <1>5 DEF Next

(* Only the creation of the agent makes a reference.                       *)
LEMMA RefComes ==
  ASSUME IInv, Next, start \notin {"agent", "reference"}, ref' # None
  PROVE  ref # None
<1>1. start \in {"event", "done"} /\ \A p \in Polls : txLock = p => ref # None
  BY DEF IInv, Types, Locks
<1>2. agent # None => ref # None
  BY <1>1 DEF IInv, Rows
<1>3. ASSUME NEW p \in Polls, PollStep(p) PROVE ref # None
  BY <1>1, <1>3 DEF PollStep, PollRead, PollLookup, PollApply, PollEvent, PollLock,
     PollLockFails, PollAssets, PollMatch, PollSend, PollRecord, PollHttpTimeout,
     PollRefused, PollError, TxOpen, Deadlock
<1>4. ASSUME NEW m \in Managers, ManagerStep(m) PROVE ref # None
  BY <1>2, <1>4 DEF ManagerStep, SyncLookup, SyncWrite, DeregisterCall, DeregisterWrite,
     ManagerEvent, DeleteEntry, DeleteEvent, DeleteLock, DeleteCascade
<1>5. ASSUME NEW m \in Managers, NEW op \in Operations, ManagerRead(m, op) PROVE ref # None
  BY <1>5 DEF ManagerRead
<1>6. ASSUME NEW p \in Polls,
             TxExpires(p) \/ NodeRegisters(p) \/ NodeAnswers(p) \/ NodeSettles(p)
      PROVE  ref # None
  BY <1>6 DEF TxExpires, NodeRegisters, NodeAnswers, NodeSettles
<1> QED
  BY <1>3, <1>4, <1>5, <1>6 DEF Next, StartAgent, StartReference, StartEvent

(* The step of what is deleted.                                            *)
LEMMA DeleteStep == IInv /\ MintInv /\ DeleteInv /\ [Next]_vars => DeleteInv'
<1> SUFFICES ASSUME IInv, MintInv, DeleteInv, [Next]_vars PROVE DeleteInv'
  OBVIOUS
<1>1. CASE UNCHANGED vars
  BY <1>1 DEF vars, DeleteInv, Deletes
<1>2. CASE Next
  <2>1. deleteLock' # None => agent' # None
    BY <1>2, RowTaken DEF DeleteInv
  <2>2. ASSUME NEW m \in Managers, manager'[m].pc \in Deleting PROVE Deletes(m)'
    <3> DEFINE r == manager'[m].ref
               e == r.externalId
    <3>0. /\ manager[m] \in ManagerRecords /\ manager[m].ref \in RefRows \cup {None}
          /\ \A x \in RefRows : x # None /\ x.externalId \in Polls \cup {None}
      BY NoRow DEF IInv, Types, ManagerRecords, RefRows
    <3>1. /\ r # None
          /\ e # None => e \in Polls
          /\ e # None /\ manager'[m].pc # "deleteEntry" =>
               poll[e].request \in Out /\ (entries[e] = "absent" \/ entries'[e] = "absent")
          /\ \/ ref # None /\ ref' = ref /\ r = ref
             \/ manager[m].pc \in Deleting /\ r = manager[m].ref
      <4>1. CASE manager'[m] = manager[m]
        BY <2>2, <3>0, <4>1 DEF DeleteInv, Deletes
      <4>2. CASE /\ ref # None /\ ref' = ref /\ r = ref
                 /\ manager'[m].pc # "deleteEntry" => ref.externalId = None
        <5>1. ref \in RefRows
          BY <4>2, Typed
        <5> QED
          BY <3>0, <4>2, <5>1
      <4>3. CASE /\ manager[m].pc = "deleteEntry" /\ r = manager[m].ref
                 /\ Known(manager[m].ref.externalId)
                 /\ entries' = [entries EXCEPT ![manager[m].ref.externalId] = "absent"]
        <5>1. manager[m].ref # None
          BY <4>3 DEF DeleteInv, Deletes, Deleting
        <5>2. e \in Polls /\ entries[e] # "absent"
          BY <3>0, <4>3, <5>1 DEF Known
        <5>3. poll[e].request \in Out
          BY <5>2 DEF MintInv, Out
        <5>4. entries'[e] = "absent"
          BY <4>3, <5>2 DEF IInv, Types
        <5> QED
          BY <4>3, <5>1, <5>2, <5>3, <5>4 DEF Deleting
      <4>4. CASE /\ manager[m].pc \in Deleting \ {"deleteEntry"}
                 /\ r = manager[m].ref /\ manager'[m].pc # "deleteEntry"
        BY <3>0, <4>4 DEF DeleteInv, Deletes
      <4> QED
        BY <1>2, <2>2, <4>1, <4>2, <4>3, <4>4, DeleteBegins
    <3>2. e # None /\ manager'[m].pc # "deleteEntry" =>
             poll'[e].request \in Out /\ entries'[e] = "absent"
      BY <1>2, <3>1, GoneStays
    <3>3. ASSUME e # None, ref' # None PROVE ref'.externalId = e
      <4>1. CASE ref # None /\ ref' = ref /\ r = ref
        BY <4>1
      <4>2. CASE manager[m].pc \in Deleting /\ r = manager[m].ref
        <5>1. ref # None
          <6>1. start \notin {"agent", "reference"}
            BY <4>2 DEF IInv, Rows, Deleting
          <6> QED
            BY <1>2, <3>3, <6>1, RefComes
        <5>2. ref.externalId = e
          BY <3>3, <4>2, <5>1 DEF DeleteInv, Deletes
        <5> QED
          BY <1>2, <3>3, <5>1, <5>2, ExternalIdStep
      <4> QED
        BY <3>1, <4>1, <4>2
    <3> QED
      BY <3>1, <3>2, <3>3 DEF Deletes
  <2> QED
    BY <2>1, <2>2 DEF DeleteInv
<1> QED
  BY <1>1, <1>2

(* However polls and requests interleave, and whatever the time-outs: a    *)
(* deletion takes the entry the reference names first, or did not know of  *)
(* it.                                                                     *)
THEOREM EntriesGoFirst == Spec => EntryGoesFirst
<1> DEFINE All == IInv /\ MintInv /\ TellInv /\ DeleteInv
<1>1. Init => DeleteInv
  BY DEF Init, DeleteInv, Deleting, IdleManager
<1>2. ASSUME All, [Next]_vars,
             NEW m \in Managers, NEW e \in Polls,
             manager[m].pc = "cascade", agent' = None, entries[e] # "absent",
             manager[m].ref.externalId # None
      PROVE  e # ref.externalId /\ poll[e].pc \in {"await", "error", "timedOut"}
  <2> DEFINE d == manager[m].ref.externalId
  <2>1. deleteLock = m /\ m # None
    BY <1>2, AgentAssumption DEF IInv, Locks
  <2>2. agent # None
    BY <1>2, <2>1 DEF DeleteInv
  <2>3. ref # None
    BY <1>2, <2>2 DEF IInv, Rows, Types
  <2>4. ref.externalId = d /\ entries[d] = "absent"
    BY <1>2, <2>3 DEF DeleteInv, Deletes, Deleting
  <2>5. e # ref.externalId
    BY <1>2, <2>4
  <2>6. poll[e].request \in {"handled", "answered"} /\ poll[e].pc \notin BeforeAwait
        /\ poll[e] \in PollRecords
    BY <1>2 DEF MintInv, IInv, Types
  <2>7. poll[e].pc \in Unfailed \cup {"await", "error"}
    <3>1. poll[e].pc # "lock" /\ poll[e].pc # "start"
      BY <2>6 DEF BeforeAwait
    <3> QED
      BY <2>6, <3>1 DEF BeforeAwait, PollRecords, PollPCs, Unfailed
  <2>8. poll[e].pc \in Unfailed => Recorded(e) \/ poll[e].pc = "timedOut"
    BY <1>2, <2>3, <2>6 DEF TellInv, PollTold
  <2> QED
    BY <2>5, <2>7, <2>8 DEF Recorded
<1>3. All /\ [Next]_vars =>
        [\A m \in Managers, e \in Polls :
           manager[m].pc = "cascade" /\ agent' = None /\ entries[e] # "absent" =>
             \/ manager[m].ref.externalId = None
             \/ e # ref.externalId /\ poll[e].pc \in {"await", "error", "timedOut"}]_vars
  BY <1>2
<1> QED
  BY <1>1, <1>3, TellAlways, DeleteStep, PTL DEF Spec, EntryGoesFirst

------------------------------------------------------------------------------
(* The lock on the reference's row.  A poll that sent a registration, did  *)
(* not fail and did not time out is the one the reference names, and of    *)
(* two that sent one, one has lost it.                                     *)
Sent(p) == poll[p].request \in {"sent", "handled", "answered"}
Named(p) == ref # None /\ ref.externalId = p
LockInv ==
  /\ \A p \in Polls : Named(p) => poll[p].pc \in Unfailed \cup {"error"}
  /\ \A p \in Polls :
       Sent(p) /\ poll[p].pc \in Unfailed \ {"timedOut"} /\ ref # None => Named(p)
  /\ \A p, q \in Polls : Sent(p) /\ Sent(q) /\ p # q => Lost(p) \/ Lost(q)

(* How a poll that waits for the payment node, or is through with it, goes *)
(* on; and how the lock and the reference come to name it.                 *)
Onward(p) ==
  /\ poll[p].pc = "await" =>
       \/ poll'[p].pc \in {"await", "error", "timedOut"}
       \/ txLock = p /\ Named(p)' /\ poll'[p].pc \in {"event", "pending"}
  /\ poll[p].pc = "event" => poll'[p].pc \in {"event", "registered", "error"}
  /\ poll[p].pc \in {"pending", "timedOut", "registered", "error"} => poll'[p].pc = poll[p].pc
  /\ txLock' = p => txLock = p \/ poll[p].pc = "lock"
  /\ Named(p)' => \/ Named(p)
                  \/ poll[p].pc = "await" /\ txLock = p /\ poll'[p].pc \in {"event", "pending"}
  /\ Sent(p)' => \/ Sent(p)
                 \/ /\ poll[p].pc = "register" /\ poll'[p].pc = "await"
                    /\ UNCHANGED <<ref, start, txLock>>
LEMMA PollsGoOnward == ASSUME IInv, Next, NEW p \in Polls PROVE Onward(p)
<1> USE DEF Sent, Named
<1>0. poll \in [Polls -> PollRecords] /\ poll[p] \in PollRecords /\ p # None
  BY AgentAssumption DEF IInv, Types
<1>1. \A q \in Polls : \A x : poll' = [poll EXCEPT ![q] = x] =>
        IF q = p THEN poll'[p] = x ELSE poll'[p] = poll[p]
  BY <1>0
<1>2. ASSUME NEW q \in Polls, NEW c, Goto(q, c)
      PROVE  /\ poll'[p].request = poll[p].request
             /\ poll'[p].pc = IF q = p THEN c ELSE poll[p].pc
  <2>1. poll' = [poll EXCEPT ![q] = [poll[q] EXCEPT !.pc = c]]
    BY <1>2 DEF Goto
  <2>2. poll'[p] = IF q = p THEN [poll[p] EXCEPT !.pc = c] ELSE poll[p]
    BY <1>1, <2>1
  <2> QED
    BY <1>0, <2>2 DEF PollRecords
<1>3. ASSUME NEW q \in Polls, PollError(q), poll[q].pc \in {"match", "await"} PROVE Onward(p)
  BY <1>0, <1>2, <1>3 DEF PollError, Release, Onward
<1>4. ASSUME NEW q \in Polls, PollRead(q) PROVE Onward(p)
  <2>1. poll[q].pc = "start" /\ UNCHANGED <<ref, start, txLock>>
    BY <1>4 DEF PollRead, At
  <2>2. CASE \E c \in {"error", "registered"} : Goto(q, c)
    BY <1>2, <2>1, <2>2 DEF Onward
  <2>3. CASE poll' = [poll EXCEPT ![q].pc = "lock", ![q].attempt = ref.attempt]
    BY <1>0, <1>1, <2>1, <2>3 DEF PollRecords, Onward
  <2>4. CASE poll' = [poll EXCEPT ![q].pc = "lookup", ![q].entry = ref.externalId]
    BY <1>0, <1>1, <2>1, <2>4 DEF PollRecords, Onward
  <2> QED
    BY <1>4, <2>2, <2>3, <2>4 DEF PollRead
<1>5. ASSUME NEW q \in Polls, PollLookup(q) PROVE Onward(p)
  BY <1>0, <1>1, <1>2, <1>5 DEF PollLookup, At, PollRecords, Onward
<1>6. ASSUME NEW q \in Polls, PollLock(q) \/ PollLockFails(q) PROVE Onward(p)
  BY <1>0, <1>2, <1>6 DEF PollLock, PollLockFails, At, Onward
<1>7. ASSUME NEW q \in Polls, PollAssets(q) PROVE Onward(p)
  <2>1. poll[q].pc = "assets" /\ ref' = ref /\ txLock' \in {txLock, None}
    BY <1>7 DEF PollAssets, At, Release
  <2>2. CASE \E c : Goto(q, c)
    BY <1>0, <1>2, <2>1, <2>2 DEF Onward
  <2>3. CASE \E e : poll' = [poll EXCEPT ![q].pc = "match", ![q].entry = e,
                                         ![q].seen = "RegistrationConfirmed"]
    BY <1>0, <1>1, <2>1, <2>3 DEF PollRecords, Onward
  <2> QED
    BY <1>7, <2>2, <2>3 DEF PollAssets
<1>8. ASSUME NEW q \in Polls, PollSend(q) PROVE Onward(p)
  BY <1>0, <1>1, <1>8 DEF PollSend, At, PollRecords, Onward
<1>9. ASSUME NEW q \in Polls, PollApply(q) \/ PollEvent(q) PROVE Onward(p)
  <2>1. PICK c \in {"pending", "event", "registered", "error"} :
          /\ Goto(q, c) /\ poll[q].pc \in {"apply", "event"}
          /\ poll[q].pc = "event" => c \in {"registered", "error"}
    BY <1>9 DEF PollApply, PollEvent, AfterWrite, At
  <2>2. UNCHANGED <<ref, txLock>>
    BY <1>9 DEF PollApply, PollEvent
  <2> QED
    BY <1>2, <2>1, <2>2 DEF Onward
<1>10. ASSUME NEW q \in Polls, PollMatch(q) \/ PollHttpTimeout(q), TxOpen(q) PROVE Onward(p)
  <2>1. PICK c \in {"event", "timedOut"} :
          /\ Goto(q, c) /\ poll[q].pc \in {"match", "await"}
          /\ poll[q].pc = "await" => c = "timedOut"
    BY <1>10 DEF PollMatch, PollHttpTimeout, At
  <2>2. ref \in RefRows /\ ref # None /\ txLock' = None
    BY <1>10, Typed DEF IInv, Locks, TxOpen, PollMatch, PollHttpTimeout, Release
  <2>3. ref'.externalId = ref.externalId
    BY <1>10, <2>2 DEF PollMatch, PollHttpTimeout, RefRows
  <2> QED
    BY <1>0, <1>2, <2>1, <2>2, <2>3 DEF Onward
<1>11. ASSUME NEW q \in Polls, PollRecord(q), TxOpen(q) PROVE Onward(p)
  <2>1. PICK c \in {"event", "pending"} : Goto(q, c) /\ poll[q].pc = "await"
    BY <1>11 DEF PollRecord, AfterWrite, At
  <2>2. ref \in RefRows /\ ref # None /\ txLock = q /\ txLock' = None
    BY <1>11, Typed DEF IInv, Locks, TxOpen, PollRecord, Release
  <2>3. ref'.externalId = q /\ ref' \in RefRows
    BY <1>11, <2>2, Typed DEF PollRecord, RefRows, PollRecords
  <2>4. ref' # None
    BY <2>3, NoRow
  <2> QED
    BY <1>0, <1>2, <2>1, <2>2, <2>3, <2>4 DEF Onward
<1>12. ASSUME NEW q \in Polls,
              PollMatch(q) \/ PollHttpTimeout(q) \/ PollRecord(q), ~TxOpen(q)
       PROVE  Onward(p)
  BY <1>3, <1>12 DEF PollMatch, PollHttpTimeout, PollRecord, At
<1>13. ASSUME NEW q \in Polls, PollRefused(q) \/ Deadlock(q) PROVE Onward(p)
  <2>1. CASE PollError(q)
    BY <1>3, <1>13, <2>1 DEF PollRefused, Deadlock, At
  <2>2. CASE UNCHANGED <<ref, poll, txLock>>
    BY <2>2 DEF Onward
  <2> QED
    BY <1>13, <2>1, <2>2 DEF PollRefused, Deadlock
<1>14. ASSUME NEW q \in Polls, PollStep(q) PROVE Onward(p)
  BY <1>4, <1>5, <1>6, <1>7, <1>8, <1>9, <1>10, <1>11, <1>12, <1>13, <1>14 DEF PollStep
<1>15. ASSUME NEW q \in Polls, NodeRegisters(q) \/ NodeAnswers(q) PROVE Onward(p)
  BY <1>0, <1>15 DEF NodeRegisters, NodeAnswers, PollRecords, Onward
<1>16. ASSUME NEW q \in Polls, TxExpires(q) \/ NodeSettles(q) PROVE Onward(p)
  BY <1>0, <1>16 DEF TxExpires, NodeSettles, Onward
<1>17. ASSUME NEW m \in Managers, SyncWrite(m) PROVE Onward(p)
  <2>1. UNCHANGED <<poll, txLock>>
    BY <1>17 DEF SyncWrite
  <2>2. CASE ref' = ref
    BY <2>1, <2>2 DEF Onward
  <2>3. CASE agent # None
    <3>1. ref \in RefRows \/ ref = None
      BY DEF IInv, Types
    <3>2. start # "agent" /\ (start = "reference" => manager[m].pc = "idle")
      BY <2>3 DEF IInv, Rows
    <3>3. ref # None
      BY <1>17, <2>3, <3>2 DEF IInv, Rows, Types, SyncWrite
    <3>4. ref'.externalId = ref.externalId
      BY <1>17, <2>3, <3>1, <3>3 DEF SyncWrite, RefRows
    <3> QED
      BY <2>1, <3>3, <3>4 DEF Onward
  <2> QED
    BY <1>17, <2>2, <2>3 DEF SyncWrite
<1>18. ASSUME NEW m \in Managers, ManagerStep(m), ~SyncWrite(m) PROVE Onward(p)
  <2>1. UNCHANGED <<poll, txLock>> /\ (ref' = ref \/ ref' = None)
    BY <1>18 DEF ManagerStep, SyncLookup, DeregisterCall, DeregisterWrite, ManagerEvent,
       DeleteEntry, DeleteEvent, DeleteLock, DeleteCascade
  <2> QED
    BY <2>1 DEF Onward
<1>19. ASSUME NEW m \in Managers, NEW op \in Operations, ManagerRead(m, op) PROVE Onward(p)
  BY <1>19 DEF ManagerRead, Onward
<1>20. CASE StartAgent \/ StartReference \/ StartEvent
  BY <1>0, <1>20 DEF StartAgent, StartReference, StartEvent, Onward
<1> QED
  BY <1>14, <1>15, <1>16, <1>17, <1>18, <1>19, <1>20 DEF Next

(* What is lost stays lost.                                                *)
LEMMA LostStays == ASSUME IInv, LockInv, Next, NEW p \in Polls, Lost(p) PROVE Lost(p)'
<1>1. Onward(p) /\ (Named(p) => poll[p].pc \in Unfailed \cup {"error"})
  BY PollsGoOnward DEF LockInv
<1> QED
  BY <1>1 DEF Onward, Lost, Named, Unfailed

(* The step of what the lock keeps.                                        *)
LEMMA LockStep == ASSUME IInv, MintInv, TellInv, LockInv, Next PROVE LockInv'
<1>1. ASSUME NEW p \in Polls, Named(p)' PROVE poll'[p].pc \in Unfailed \cup {"error"}
  <2>1. Onward(p) /\ (Named(p) => poll[p].pc \in Unfailed \cup {"error"})
    BY PollsGoOnward DEF LockInv
  <2> QED
    BY <1>1, <2>1 DEF Onward, Unfailed
<1>2. ASSUME NEW p \in Polls, Sent(p)
      PROVE  /\ poll[p].pc \in Unfailed \cup {"await", "error"}
             /\ ref' # None => ref # None
  <2>1. poll[p] \in PollRecords /\ poll[p].request # "none"
    BY <1>2 DEF IInv, Types, Sent
  <2>2. poll[p].pc \notin BeforeAwait
    BY <2>1 DEF MintInv
  <2>3. poll[p].pc \in Unfailed \cup {"await", "error"}
    BY <2>1, <2>2 DEF BeforeAwait, PollRecords, PollPCs, Unfailed
  <2>4. start \notin {"agent", "reference"}
    BY <2>1 DEF TellInv, PollTold
  <2> QED
    BY <2>3, <2>4, RefComes
<1>3. ASSUME NEW p \in Polls, Sent(p)', poll'[p].pc \in Unfailed \ {"timedOut"}, ref' # None
      PROVE  Named(p)'
  <2>1. Onward(p)
    BY PollsGoOnward
  <2>2. Sent(p)
    BY <1>3, <2>1 DEF Onward, Unfailed
  <2>3. poll[p].pc \in Unfailed \cup {"await", "error"} /\ ref # None
    BY <1>2, <1>3, <2>2
  <2>4. CASE poll[p].pc \in {"await", "error", "timedOut"}
    BY <1>3, <2>1, <2>4 DEF Onward, Unfailed
  <2>5. CASE poll[p].pc \in Unfailed \ {"timedOut"}
    <3>1. ref.externalId = p
      BY <2>2, <2>3, <2>5 DEF LockInv, Named
    <3> QED
      BY <1>3, <2>3, <3>1, ExternalIdStep, AgentAssumption DEF Named
  <2> QED
    BY <2>3, <2>4, <2>5
<1>4. ASSUME NEW p \in Polls, NEW q \in Polls, Sent(p)', ~Sent(p), Sent(q)', p # q
      PROVE  Lost(p)' \/ Lost(q)'
  <2>1. /\ poll[p].pc = "register" /\ poll'[p].pc = "await"
        /\ UNCHANGED <<ref, txLock>>
    BY <1>4, PollsGoOnward DEF Onward
  <2>2. CASE txLock # p
    BY <2>1, <2>2 DEF Lost
  <2>3. CASE txLock = p
    <3>1. ref # None /\ ref.externalId = None
      BY <2>3 DEF IInv, Locks
    <3>2. CASE Sent(q)
      <4>1. poll[q].pc \in Unfailed \cup {"await", "error"} /\ ~Named(q)
        BY <1>2, <3>1, <3>2, AgentAssumption DEF Named
      <4>2. poll[q].pc \in {"await", "error", "timedOut"}
        BY <3>1, <3>2, <4>1 DEF LockInv
      <4>3. Lost(q)
        BY <1>4, <2>3, <4>1, <4>2 DEF Lost, Named
      <4> QED
        BY <4>3, LostStays
    <3>3. CASE ~Sent(q)
      <4>1. poll'[q].pc = "await"
        BY <1>4, <3>3, PollsGoOnward DEF Onward
      <4> QED
        BY <1>4, <2>1, <2>3, <4>1 DEF Lost
    <3> QED
      BY <3>2, <3>3
  <2> QED
    BY <2>2, <2>3
<1>5. ASSUME NEW p \in Polls, NEW q \in Polls, Sent(p)', Sent(q)', p # q
      PROVE  Lost(p)' \/ Lost(q)'
  <2>1. CASE Sent(p) /\ Sent(q)
    BY <1>5, <2>1, LostStays DEF LockInv
  <2> QED
    BY <1>4, <1>5, <2>1
<1> QED
  BY <1>1, <1>3, <1>5 DEF LockInv

(* What the row lock is worth, for any number of polls and whatever the    *)
(* time-outs are: of two registrations of one agent, one was lost, since   *)
(* the transaction that sent it ended first, it failed or it timed out.    *)
(* So duplicates come from nothing else.                                   *)
THEOREM DuplicatesWereLost == Spec => []DuplicatesAreLost
<1>1. Init => LockInv
  BY AgentAssumption DEF Init, IdlePoll, LockInv, Sent, Named
<1>2. IInv /\ MintInv /\ TellInv /\ LockInv /\ [Next]_vars => LockInv'
  <2>1. LockInv /\ UNCHANGED vars => LockInv'
    BY DEF vars, LockInv, Sent, Named, Lost
  <2> QED
    BY <2>1, LockStep
<1>3. MintInv /\ LockInv => DuplicatesAreLost
  BY DEF MintInv, LockInv, Sent, DuplicatesAreLost
<1> QED
  BY <1>1, <1>2, <1>3, TellAlways, PTL DEF Spec

(* The rows of an agent agree with what its requests did, however they     *)
(* interleave: a poll that registered an entry and did not fail has left   *)
(* it in the reference, an agent is shown as registered by a minted entry  *)
(* only, its confirmation reaches the activity feed unless an insert       *)
(* failed, and it is registered again only when a registration was lost.   *)
THEOREM AgentIsTold == Spec => []AgentInvariant
<1>1. IInv => TypeOK
  BY DEF IInv, Types, Rows, Locks, InTransaction, TypeOK
<1>2. MintInv => ConfirmedIsMinted
  BY AgentAssumption DEF MintInv, Minted, MintedIn, ConfirmedIsMinted
<1>3. ASSUME TellInv PROVE RegistrationRecorded
  <2>1. ASSUME NEW p \in Polls, ref # None, poll[p].request \in {"handled", "answered"}
        PROVE  /\ poll[p].pc \in {"event", "pending", "registered"} => ref.externalId = p
               /\ poll[p].pc = "timedOut" => Attempted
    <3>1. poll[p].pc \in Unfailed =>
            ref.externalId = p \/ (poll[p].pc = "timedOut" /\ Attempted)
      BY <1>3, <2>1 DEF TellInv, PollTold, Recorded
    <3>2. ref.externalId = p => Attempted
      BY AgentAssumption DEF Attempted
    <3> QED
      BY <3>1, <3>2 DEF Unfailed
  <2> QED
    BY <2>1 DEF RegistrationRecorded, Attempted
<1>4. TellInv => ConfirmationAnnounced
  BY DEF TellInv, Told, At, ConfirmationAnnounced
<1> QED
  BY <1>1, <1>2, <1>3, <1>4, TellAlways, DuplicatesWereLost, PTL DEF AgentInvariant
==============================================================================
