-------------------------- MODULE AgentRegistration ---------------------------
(***************************************************************************)
(* One agent from POST /api/agents to its deletion: the polls that         *)
(* complete its on-chain registration (lib/agent-registration.ts) and the  *)
(* sync, deregister and delete requests of its owner                       *)
(* (lib/actions/agent.action.ts, lib/deregister-agent.ts).                 *)
(*                                                                         *)
(* The payment node is external; poll p can create its entry p.  A process *)
(* that dies is one that takes no more steps, and whose transaction the    *)
(* database ends (TxExpires).  E-mails are left out.                       *)
(***************************************************************************)
EXTENDS Integers, RegistryStates

CONSTANTS Polls, Managers, None,
          TX_TIMEOUT,                  \* of an interactive transaction, in s
          REGISTER_AGENT_HTTP_TIMEOUT  \* of the race around registerAgent, in s

(* The rows of agent and agent_reference.                                  *)
AgentRows == [state : RegistrationStates, identifier : Polls \cup {None}]
RefRows == [externalId : Polls \cup {None}, attempt : BOOLEAN,
            status : {"PENDING", "ACTIVE", "DEREGISTERED"}]

ASSUME AgentAssumption ==
  /\ None \notin Polls \cup Managers \cup AgentRows \cup RefRows
  /\ TX_TIMEOUT \in Nat /\ REGISTER_AGENT_HTTP_TIMEOUT \in Nat

VARIABLES agent,       \* the row of the agent, or None
          ref,         \* its agent_reference row, or None
          start,       \* progress of POST /api/agents
          poll,        \* complete-registration requests
          manager,     \* sync, deregister and delete requests
          txLock,      \* the poll whose transaction holds the reference row
          deleteLock,  \* the manager whose DELETE holds the agent row
          entries,     \* the payment node's entries of the agent's wallet
          events       \* the kinds of activity events recorded, or lost

vars == <<agent, ref, start, poll, manager, txLock, deleteLock, entries, events>>

------------------------------------------------------------------------------
Operations == {"sync", "deregister", "delete"}
Settled(s) == s \in {"RegistrationConfirmed", "RegistrationFailed"}

(* An entry has an identifier once its asset is minted.                    *)
HasIdentifier(s) ==
  s \notin {"absent", "RegistrationRequested", "RegistrationFailed"}

(* What a reply about entry e in state s does to the agent's row.          *)
\* Mutants: the identifier is not copied; a failed deregistration is ignored.
ObservedState(a, e, s) == [a EXCEPT !.state = s]
ObservedIgnoringFailure(a, e, s) ==
  IF s = "DeregistrationFailed" THEN a
  ELSE [state |-> s, identifier |-> IF HasIdentifier(s) THEN e ELSE a.identifier]
Observed(a, e, s) ==
  [state |-> s, identifier |-> IF HasIdentifier(s) THEN e ELSE a.identifier]

(* getWalletOwnedAgentForUser.                                             *)
Known(e) == e # None /\ entries[e] # "absent"
Visible ==
  /\ agent # None
  /\ \/ ref # None /\ agent.state \notin {"RegistrationConfirmed", "DeregistrationConfirmed"}
     \/ ref # None /\ Known(ref.externalId)
     \/ Known(agent.identifier)

IdlePoll == [pc |-> "start", attempt |-> FALSE, entry |-> None, seen |-> "absent",
             request |-> "none"]
IdleManager == [pc |-> "idle", op |-> "sync", agent |-> None, ref |-> None, seen |-> "absent"]

Init ==
  /\ agent = None /\ ref = None /\ start = "agent"
  /\ poll = [p \in Polls |-> IdlePoll]
  /\ manager = [m \in Managers |-> IdleManager]
  /\ txLock = None /\ deleteLock = None
  /\ entries = [p \in Polls |-> "absent"]
  /\ events = {}

At(p, pc) == poll[p].pc = pc
Goto(p, pc) == poll' = [poll EXCEPT ![p].pc = pc]
Leave(m, pc) == manager' = [manager EXCEPT ![m].pc = pc]
Done(m) == manager' = [manager EXCEPT ![m] = IdleManager]

(* recordAgentActivityEvent swallows its errors, and needs the agent.      *)
Record(kind) ==
  IF agent = None THEN UNCHANGED events
  ELSE events' \in {events \cup {kind}, events \cup {"lost"}}

------------------------------------------------------------------------------
(* POST /api/agents writes the two rows in two statements; the second may  *)
(* never happen.                                                           *)
StartAgent ==
  /\ start = "agent"
  /\ start' = "reference"
  /\ agent' = [state |-> "RegistrationRequested", identifier |-> None]
  /\ UNCHANGED <<ref, poll, manager, txLock, deleteLock, entries, events>>

StartReference ==
  /\ start = "reference"
  /\ start' = "event"
  /\ ref' = [externalId |-> None, attempt |-> FALSE, status |-> "PENDING"]
  /\ UNCHANGED <<agent, poll, manager, txLock, deleteLock, entries, events>>

StartEvent ==
  /\ start = "event"
  /\ start' = "done"
  /\ Record("RegistrationInitiated")
  /\ UNCHANGED <<agent, ref, poll, manager, txLock, deleteLock, entries>>

------------------------------------------------------------------------------
(* A poll, before its transaction: what it reads here it uses to the end.  *)
PollRead(p) ==
  /\ At(p, "start")
  /\ IF ~Visible \/ ref = None THEN Goto(p, "error")
     ELSE IF ref.externalId = None
     THEN poll' = [poll EXCEPT ![p].pc = "lock", ![p].attempt = ref.attempt]
     ELSE IF agent.state = "RegistrationConfirmed" THEN Goto(p, "registered")
     ELSE IF agent.state = "RegistrationFailed" THEN Goto(p, "error")
     ELSE poll' = [poll EXCEPT ![p].pc = "lookup", ![p].entry = ref.externalId]
  /\ UNCHANGED <<agent, ref, start, manager, txLock, deleteLock, entries, events>>

(* A registered agent: the entry's state is copied; every error is caught. *)
PollLookup(p) ==
  /\ At(p, "lookup")
  /\ \/ Goto(p, "pending")
     \/ /\ Known(poll[p].entry)
        /\ poll' = [poll EXCEPT ![p].pc = "apply", ![p].seen = entries[poll[p].entry]]
  /\ UNCHANGED <<agent, ref, start, manager, txLock, deleteLock, entries, events>>

\* Mutant: the confirmation is not announced.
AfterWriteSilently(s) == IF Settled(s) THEN "registered" ELSE "pending"
AfterWrite(s) == IF Settled(s) THEN "event" ELSE "pending"

PollApply(p) ==
  /\ At(p, "apply")
  /\ deleteLock = None
  /\ IF agent = None THEN Goto(p, "pending") /\ UNCHANGED agent
     ELSE /\ agent' = Observed(agent, poll[p].entry, poll[p].seen)
          /\ Goto(p, AfterWrite(poll[p].seen))
  /\ UNCHANGED <<ref, start, manager, txLock, deleteLock, entries, events>>

PollEvent(p) ==
  /\ At(p, "event")
  /\ Record(poll[p].seen)
  /\ Goto(p, IF poll[p].seen = "RegistrationConfirmed" THEN "registered" ELSE "error")
  /\ UNCHANGED <<agent, ref, start, manager, txLock, deleteLock, entries>>

------------------------------------------------------------------------------
(* The transaction of a poll.  Prisma ends it when its time is up, also    *)
(* while the callback is waiting for the payment node; the callback goes   *)
(* on, and its next statement fails.                                       *)
TxOpen(p) == txLock = p
Release(p) == txLock' = IF txLock = p THEN None ELSE txLock

TxExpires(p) ==
  /\ txLock = p
  /\ txLock' = None
  /\ UNCHANGED <<agent, ref, start, poll, manager, deleteLock, entries, events>>

PollError(p) == Goto(p, "error") /\ Release(p) /\ UNCHANGED <<agent, ref>>

\* Mutant: externalId is not looked at again under the lock.
PollLockUnchecked(p) ==
  /\ At(p, "lock")
  /\ txLock = None
  /\ IF ref = None THEN Goto(p, "error") /\ UNCHANGED txLock
     ELSE txLock' = p /\ Goto(p, IF poll[p].attempt THEN "assets" ELSE "register")
  /\ UNCHANGED <<agent, ref, start, manager, deleteLock, entries, events>>

(* SELECT ... FOR UPDATE, and the re-check under it.                       *)
PollLock(p) ==
  /\ At(p, "lock")
  /\ txLock = None
  /\ IF ref = None THEN Goto(p, "error") /\ UNCHANGED txLock
     ELSE IF ref.externalId # None
     THEN /\ Goto(p, CASE agent.state = "RegistrationConfirmed" -> "registered"
                       [] agent.state = "RegistrationFailed" -> "error"
                       [] OTHER -> "pending")
          /\ UNCHANGED txLock
     ELSE txLock' = p /\ Goto(p, IF poll[p].attempt THEN "assets" ELSE "register")
  /\ UNCHANGED <<agent, ref, start, manager, deleteLock, entries, events>>

(* The row stays locked by another poll for longer than the time allows.   *)
PollLockFails(p) ==
  /\ At(p, "lock") /\ txLock # None
  /\ Goto(p, "error")
  /\ UNCHANGED <<agent, ref, start, manager, txLock, deleteLock, entries, events>>

(* After an attempt that timed out: look for its asset in the wallet; with *)
(* none, wait until the cool-down is over.                                 *)
PollAssets(p) ==
  LET minted == {e \in Polls : entries[e] \in LiveStates \ {"RegistrationRequested"}} IN
  /\ At(p, "assets")
  /\ \/ \E e \in minted : poll' = [poll EXCEPT ![p].pc = "match", ![p].entry = e,
                                              ![p].seen = "RegistrationConfirmed"]
                          /\ UNCHANGED txLock
     \/ minted = {} /\ Goto(p, "register") /\ UNCHANGED txLock
     \/ minted = {} /\ Goto(p, IF TxOpen(p) THEN "pending" ELSE "error") /\ Release(p)
     \/ Goto(p, "error") /\ Release(p)
  /\ UNCHANGED <<agent, ref, start, manager, deleteLock, entries, events>>

PollSend(p) ==
  /\ At(p, "register")
  /\ poll' = [poll EXCEPT ![p].pc = "await", ![p].request = "sent"]
  /\ UNCHANGED <<agent, ref, start, manager, txLock, deleteLock, entries, events>>

(* The three ways in which the transaction commits something.  Each writes *)
(* the metadata read before the transaction, and so also its attempt.      *)
PollMatch(p) ==
  /\ At(p, "match")
  /\ IF TxOpen(p)
     THEN /\ deleteLock = None
          /\ ref' = [ref EXCEPT !.status = "ACTIVE", !.attempt = poll[p].attempt]
          /\ agent' = [state |-> "RegistrationConfirmed", identifier |-> poll[p].entry]
          /\ Goto(p, "event") /\ Release(p)
     ELSE PollError(p)
  /\ UNCHANGED <<start, manager, deleteLock, entries, events>>

PollRecord(p) ==
  /\ At(p, "await")
  /\ poll[p].request = "answered"
  /\ IF TxOpen(p)
     THEN /\ deleteLock = None
          /\ ref' = [ref EXCEPT !.externalId = p, !.attempt = poll[p].attempt]
          /\ agent' = Observed(agent, p, poll[p].seen)
          /\ Goto(p, AfterWrite(poll[p].seen)) /\ Release(p)
     ELSE PollError(p)
  /\ UNCHANGED <<start, manager, deleteLock, entries, events>>

(* The race is lost, and the poll answers "pending".  With the shipped     *)
(* values the transaction ended long before; REGISTER_AGENT_HTTP_TIMEOUT   *)
(* must be below its time to commit the attempt.                           *)
\* Mutant: the attempt that timed out is not remembered.
TimeoutForgotten(p) ==
  /\ At(p, "await")
  /\ IF TxOpen(p)
     THEN /\ REGISTER_AGENT_HTTP_TIMEOUT < TX_TIMEOUT
          /\ Goto(p, "timedOut") /\ Release(p) /\ UNCHANGED <<agent, ref>>
     ELSE PollError(p)
  /\ UNCHANGED <<start, manager, deleteLock, entries, events>>

PollHttpTimeout(p) ==
  /\ At(p, "await")
  /\ IF TxOpen(p)
     THEN /\ REGISTER_AGENT_HTTP_TIMEOUT < TX_TIMEOUT
          /\ deleteLock = None
          /\ ref' = [ref EXCEPT !.attempt = TRUE]
          /\ agent' = [agent EXCEPT !.state = "RegistrationRequested"]
          /\ Goto(p, "timedOut") /\ Release(p)
     ELSE PollError(p)
  /\ UNCHANGED <<start, manager, deleteLock, entries, events>>

PollRefused(p) ==
  /\ At(p, "await")
  /\ poll[p].request = "refused"
  /\ PollError(p)
  /\ UNCHANGED <<start, manager, deleteLock, entries, events>>

(* The transaction holds the reference and wants the agent, the DELETE the *)
(* other way round: the database ends one of the two.                      *)
Deadlock(p) ==
  /\ TxOpen(p) /\ deleteLock # None
  /\ At(p, "match") \/ (At(p, "await") /\ poll[p].request = "answered")
  /\ \/ PollError(p) /\ UNCHANGED <<manager, deleteLock>>
     \/ Done(deleteLock) /\ deleteLock' = None /\ UNCHANGED <<agent, ref, poll, txLock>>
  /\ UNCHANGED <<start, entries, events>>

------------------------------------------------------------------------------
(* The payment node: it handles a registration when that arrives, also     *)
(* after its sender gave up on it.                                         *)
NodeRegisters(p) ==
  /\ poll[p].request = "sent"
  /\ \/ /\ entries' = [entries EXCEPT ![p] = "RegistrationRequested"]
        /\ poll' = [poll EXCEPT ![p].request = "handled"]
     \/ /\ poll' = [poll EXCEPT ![p].request = "refused"]
        /\ UNCHANGED entries
  /\ UNCHANGED <<agent, ref, start, manager, txLock, deleteLock, events>>

NodeAnswers(p) ==
  /\ poll[p].request = "handled" /\ entries[p] # "absent"
  /\ poll' = [poll EXCEPT ![p].request = "answered", ![p].seen = entries[p]]
  /\ UNCHANGED <<agent, ref, start, manager, txLock, deleteLock, entries, events>>

NodeSettles(e) ==
  /\ \E s \in Outcomes(entries[e]) : entries' = [entries EXCEPT ![e] = s]
  /\ UNCHANGED <<agent, ref, start, poll, manager, txLock, deleteLock, events>>

------------------------------------------------------------------------------
(* The owner's requests read the rows first and go by what they read.      *)
MayDeregister ==
  /\ agent.state \in {"RegistrationConfirmed", "DeregistrationFailed"}
  /\ agent.identifier # None
StillActive ==
  /\ agent.state \in InProgress \cup {"RegistrationConfirmed"}
  /\ ~(agent.state = "RegistrationConfirmed" /\ agent.identifier = None)

ManagerRead(m, op) ==
  LET go(pc) == manager' = [manager EXCEPT ![m] =
                  [pc |-> pc, op |-> op, agent |-> agent, ref |-> ref, seen |-> "absent"]]
  IN
  /\ manager[m].pc = "idle"
  /\ Visible /\ ref # None
  /\ \/ op = "sync" /\ ref.externalId # None /\ go("lookup")
     \/ op = "deregister" /\ MayDeregister /\ go("call")
     \/ op = "delete" /\ ref.externalId = None /\ go("deleteEvent")
     \/ op = "delete" /\ ref.externalId # None /\ ~StillActive /\ go("deleteEntry")
  /\ UNCHANGED <<agent, ref, start, poll, txLock, deleteLock, entries, events>>

(* syncAgentRegistrationStatusAction.                                      *)
SyncLookup(m) ==
  LET e == manager[m].ref.externalId IN
  /\ manager[m].pc = "lookup"
  /\ IF Known(e) THEN manager' = [manager EXCEPT ![m].pc = "write", ![m].seen = entries[e]]
     ELSE Done(m)
  /\ UNCHANGED <<agent, ref, start, poll, txLock, deleteLock, entries, events>>

Announced == {"RegistrationConfirmed", "RegistrationFailed", "DeregistrationConfirmed"}
SyncWrite(m) ==
  LET old == manager[m].ref
      seen == manager[m].seen
      status == CASE seen = "RegistrationConfirmed" -> "ACTIVE"
                  [] seen = "DeregistrationConfirmed" -> "DEREGISTERED"
                  [] OTHER -> old.status
  IN
  /\ manager[m].pc = "write"
  /\ txLock = None /\ deleteLock = None
  /\ IF agent = None THEN Done(m) /\ UNCHANGED <<agent, ref>>
     ELSE /\ agent' = Observed(agent, old.externalId, seen)
          /\ ref' = [ref EXCEPT !.status = status, !.attempt = old.attempt]
          /\ IF seen # manager[m].agent.state /\ seen \in Announced
             THEN Leave(m, "event") ELSE Done(m)
  /\ UNCHANGED <<start, poll, txLock, deleteLock, entries, events>>

(* deregisterAgentForUser.  The payment node refuses what is not on chain. *)
DeregisterCall(m) ==
  LET e == manager[m].agent.identifier IN
  /\ manager[m].pc = "call"
  /\ \/ /\ entries[e] \in {"RegistrationConfirmed", "DeregistrationFailed"}
        /\ entries' = [entries EXCEPT ![e] = "DeregistrationRequested"]
        /\ manager' = [manager EXCEPT ![m].pc = "deregister",
                                      ![m].seen = "DeregistrationRequested"]
     \/ Done(m) /\ UNCHANGED entries
  /\ UNCHANGED <<agent, ref, start, poll, txLock, deleteLock, events>>

DeregisterWrite(m) ==
  /\ manager[m].pc = "deregister"
  /\ deleteLock = None
  /\ IF agent = None THEN Done(m) /\ UNCHANGED agent
     ELSE agent' = [agent EXCEPT !.state = "DeregistrationRequested"] /\ Leave(m, "event")
  /\ UNCHANGED <<ref, start, poll, txLock, deleteLock, entries, events>>

ManagerEvent(m) ==
  /\ manager[m].pc = "event"
  /\ Record(manager[m].seen)
  /\ Done(m)
  /\ UNCHANGED <<agent, ref, start, poll, txLock, deleteLock, entries>>

\* Mutant: the agent is deleted also when the payment node refuses.
DeleteEntryRefused(m) ==
  LET e == manager[m].ref.externalId IN
  /\ manager[m].pc = "deleteEntry"
  /\ Leave(m, "deleteEvent")
  /\ \/ /\ Known(e) /\ entries[e] \notin LiveStates
        /\ entries' = [entries EXCEPT ![e] = "absent"]
     \/ UNCHANGED entries
  /\ UNCHANGED <<agent, ref, start, poll, txLock, deleteLock, events>>

(* deleteAgentAction.  The payment node deletes failed and deregistered    *)
(* entries only.                                                           *)
DeleteEntry(m) ==
  LET e == manager[m].ref.externalId IN
  /\ manager[m].pc = "deleteEntry"
  /\ \/ /\ Known(e) /\ entries[e] \notin LiveStates
        /\ entries' = [entries EXCEPT ![e] = "absent"]
        /\ Leave(m, "deleteEvent")
     \/ Done(m) /\ UNCHANGED entries
  /\ UNCHANGED <<agent, ref, start, poll, txLock, deleteLock, events>>

DeleteEvent(m) ==
  /\ manager[m].pc = "deleteEvent"
  /\ Record("AgentDeleted")
  /\ Leave(m, "delete")
  /\ UNCHANGED <<agent, ref, start, poll, txLock, deleteLock, entries>>

(* The DELETE takes the agent's row, then the cascade the reference's.     *)
DeleteLock(m) ==
  /\ manager[m].pc = "delete"
  /\ deleteLock = None
  /\ IF agent = None THEN Done(m) /\ UNCHANGED deleteLock
     ELSE deleteLock' = m /\ Leave(m, "cascade")
  /\ UNCHANGED <<agent, ref, start, poll, txLock, entries, events>>

DeleteCascade(m) ==
  /\ manager[m].pc = "cascade"
  /\ txLock = None
  /\ agent' = None /\ ref' = None /\ deleteLock' = None
  /\ Done(m)
  /\ UNCHANGED <<start, poll, txLock, entries, events>>

------------------------------------------------------------------------------
PollStep(p) ==
  \/ PollRead(p) \/ PollLookup(p) \/ PollApply(p) \/ PollEvent(p)
  \/ PollLock(p) \/ PollLockFails(p) \/ PollAssets(p) \/ PollMatch(p) \/ PollSend(p)
  \/ PollRecord(p) \/ PollHttpTimeout(p) \/ PollRefused(p) \/ Deadlock(p)

ManagerStep(m) ==
  \/ SyncLookup(m) \/ SyncWrite(m) \/ DeregisterCall(m) \/ DeregisterWrite(m)
  \/ ManagerEvent(m) \/ DeleteEntry(m) \/ DeleteEvent(m) \/ DeleteLock(m) \/ DeleteCascade(m)

Next ==
  \/ StartAgent \/ StartReference \/ StartEvent
  \/ \E p \in Polls : PollStep(p) \/ TxExpires(p) \/ NodeRegisters(p) \/ NodeAnswers(p)
                      \/ NodeSettles(p)
  \/ \E m \in Managers : ManagerStep(m) \/ \E op \in Operations : ManagerRead(m, op)

Spec == Init /\ [][Next]_vars

(* Transactions end, requests run to their end, and the owner looks at the *)
(* agent again and again, which syncs it.                                  *)
FairSpec ==
  /\ Spec
  /\ \A p \in Polls : WF_vars(TxExpires(p))
  /\ \A m \in Managers : SF_vars(ManagerStep(m)) /\ SF_vars(ManagerRead(m, "sync"))

------------------------------------------------------------------------------
(* Properties.                                                             *)

(* Types; the transaction of a poll is only open while it needs it.        *)
TypeOK ==
  /\ agent \in AgentRows \cup {None}
  /\ ref \in RefRows \cup {None}
  /\ ref # None => agent # None
  /\ entries \in [Polls -> EntryStates]
  /\ \A p \in Polls : txLock = p => /\ poll[p].pc \in {"assets", "match", "register", "await"}
                                    /\ ref # None
  /\ \A m \in Managers : (deleteLock = m) <=> (manager[m].pc = "cascade")

(* However polls, syncs and expiring transactions interleave, the entry    *)
(* the agent refers to is chosen once: a later registration never replaces *)
(* it.                                                                     *)
ExternalIdWrittenOnce ==
  [][ref # None /\ ref' # None /\ ref.externalId # None
     => ref'.externalId = ref.externalId]_vars

(* A poll that registered and ends without an error has recorded its       *)
(* entry, for good; only one that timed out may have left the attempt      *)
(* instead, or another entry in its place.                                 *)
RegistrationRecorded ==
  \A p \in Polls :
    ref # None /\ poll[p].request \in {"handled", "answered"} =>
      /\ poll[p].pc \in {"event", "pending", "registered"} => ref.externalId = p
      /\ poll[p].pc = "timedOut" => ref.attempt \/ ref.externalId # None

(* An agent is only shown as registered when the entry it is identified by *)
(* was minted, however stale the reply that says so.                       *)
ConfirmedIsMinted ==
  agent # None /\ agent.state = "RegistrationConfirmed" =>
    /\ agent.identifier # None
    /\ entries[agent.identifier] \notin {"RegistrationRequested", "RegistrationFailed"}

(* A confirmation reaches the activity feed, whichever request sees it     *)
(* first, unless the insert of an event failed or its request is about to. *)
ConfirmationAnnounced ==
  agent # None /\ agent.state = "RegistrationConfirmed" =>
    \/ {"RegistrationConfirmed", "lost"} \cap events # {}
    \/ \E p \in Polls : At(p, "event") /\ poll[p].seen = "RegistrationConfirmed"
    \/ \E m \in Managers : manager[m].pc = "event"
                           /\ manager[m].seen = "RegistrationConfirmed"

(* The registration that poll p has sent is lost: its transaction ended    *)
(* while it waits, it failed and did not record the entry, or it timed     *)
(* out.                                                                    *)
Lost(p) ==
  \/ poll[p].pc = "await" /\ txLock # p
  \/ poll[p].pc = "error" /\ ~(ref # None /\ ref.externalId = p)
  \/ poll[p].pc = "timedOut"

(* What the lock on the reference's row is worth: an agent is registered   *)
(* once, but for registrations that are lost; also after its deletion, and *)
(* whoever answers late.                                                   *)
DuplicatesAreLost ==
  \A p, q \in Polls :
    entries[p] # "absent" /\ entries[q] # "absent" /\ p # q => Lost(p) \/ Lost(q)

(* The rows of an agent, the state it is shown in, and its entries.        *)
AgentInvariant ==
  /\ TypeOK /\ RegistrationRecorded /\ ConfirmedIsMinted /\ ConfirmationAnnounced
  /\ DuplicatesAreLost

(* The rows of an agent never go before the entry they name.  What a       *)
(* deletion leaves at the payment node is what its request could not know, *)
(* since the reference named no entry when it was read; or an entry whose  *)
(* poll still waits, has failed or timed out, never one a poll answered    *)
(* for.                                                                    *)
EntryGoesFirst ==
  [][\A m \in Managers, e \in Polls :
       manager[m].pc = "cascade" /\ agent' = None /\ entries[e] # "absent" =>
         \/ manager[m].ref.externalId = None
         \/ e # ref.externalId /\ poll[e].pc \in {"await", "error", "timedOut"}]_vars

(* The agent does not stay pending when its entry is settled for good: a   *)
(* sync puts right what a stale one wrote.                                 *)
PendingAgentSettles ==
  []<>~(/\ ref # None /\ agent.state \in InProgress
        /\ ref.externalId # None
        /\ entries[ref.externalId] \notin InProgress \cup {"absent"})

------------------------------------------------------------------------------
(* What texts of the repository say and the code does not keep: TLC        *)
(* refutes these (see the README).                                         *)

(* "exactly one proceeds, no duplicate registration" (the stress test of   *)
(* simultaneous polls): one entry at most.                                 *)
RegisteredOnce ==
  \A p, q \in Polls : entries[p] # "absent" /\ entries[q] # "absent" => p = q

(* "no payment-node entry; allow direct delete" (deleteAgentAction): what  *)
(* is deleted directly has no entry.                                       *)
DirectDeleteHasNoEntry ==
  [][\A m \in Managers : DeleteCascade(m) /\ manager[m].ref.externalId = None
       => \A e \in Polls : entries[e] = "absent"]_vars

(* "Registered locally, not yet submitted to the network registry" (the    *)
(* PENDING status in the schema).                                          *)
PendingNotSubmitted ==
  ref # None /\ ref.status = "PENDING" => ref.externalId = None
==============================================================================
