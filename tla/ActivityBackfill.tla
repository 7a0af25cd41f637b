--------------------------- MODULE ActivityBackfill ---------------------------
(***************************************************************************)
(* The events of the activity feed that requests for the feed add          *)
(* themselves (build-merged-feed.ts): maybeBackfillAgentLifecycleEvents    *)
(* seeds agents that have no event, maybeBackfillMissingAgentVerifiedActi- *)
(* vity adds AgentVerified to agents that are VERIFIED without it.  Each   *)
(* takes an advisory lock of its own and has a cooldown in each server     *)
(* process.  One user, one network.                                        *)
(*                                                                         *)
(* The agents change, and their events are recorded, by the code that      *)
(* AgentRegistration and AgentVerification model: here a writer changes an *)
(* agent, then inserts the event or loses it.                              *)
(***************************************************************************)
EXTENDS Integers, FiniteSets, RegistryStates

CONSTANTS Agents,
          Feeds,      \* requests with the filter all or lifecycle
          Polls,      \* requests with another filter
          Servers,    \* server processes
          None,
          OldStates,  \* states of the agents that are older than the events
          MaxChanges, MaxFaults  \* bounds

ASSUME BackfillAssumption ==
  /\ None \notin Feeds \cup Polls /\ Feeds \cap Polls = {}
  /\ OldStates \subseteq RegistrationStates /\ {MaxChanges, MaxFaults} \subseteq Nat

VARIABLES agent,    \* the agents' rows
          events,   \* the types of each agent's events, counted to EventCap
          owed,     \* events that writers have yet to insert
          cooling,  \* which cooldowns run, of which process
          lock,     \* which request holds which advisory lock
          req,      \* what each request is doing, and what it has read
          seeded, added,   \* how often each backfill wrote to an agent
          changes, faults

store == <<agent, events, owed>>
counts == <<seeded, added>>
budget == <<changes, faults>>
vars == <<store, cooling, lock, req, counts, budget>>

Requests == Feeds \cup Polls
Kinds == {"lifecycle", "verified"}
EventCap == 2
EventTypes == {"RegistrationInitiated", "RegistrationConfirmed", "RegistrationFailed",
               "DeregistrationRequested", "DeregistrationConfirmed", "AgentVerified"}

registrationStateToEventType(s) ==
  CASE s = "RegistrationRequested" -> {"RegistrationInitiated"}
    [] s = "DeregistrationFailed" -> {}
    [] OTHER -> {s}

Idle == [pc |-> "idle", on |-> None, read |-> {}, todo |-> {}]

Init ==
  /\ agent \in [Agents -> [exists : {TRUE}, state : OldStates, verified : BOOLEAN]]
  /\ events = [a \in Agents |-> [t \in EventTypes |-> 0]]
  /\ owed = [a \in Agents |-> {}]
  /\ cooling = [s \in Servers |-> {}]
  /\ lock = [k \in Kinds |-> None]
  /\ req = [r \in Requests |-> Idle]
  /\ seeded = [a \in Agents |-> 0] /\ added = seeded
  /\ changes = 0 /\ faults = 0

HasEvent(a) == \E t \in EventTypes : events[a][t] > 0
IsVerified(a) == agent[a].exists /\ agent[a].verified
At(r, pc) == req[r].pc = pc
Goto(r, pc) == req' = [req EXCEPT ![r].pc = pc]
Server(r) == req[r].on

(* One more event of the given types for every agent of S.                 *)
Insert(S, types(_)) ==
  events' = [a \in Agents |-> [t \in EventTypes |->
    IF a \in S /\ t \in types(a) /\ events[a][t] < EventCap
    THEN events[a][t] + 1 ELSE events[a][t]]]

------------------------------------------------------------------------------
(* Writers: the agent first, then its event, which may fail.               *)
Writes(a, row, type) ==
  /\ agent[a].exists /\ changes < MaxChanges /\ changes' = changes + 1
  /\ agent' = [agent EXCEPT ![a] = row]
  /\ owed' = [owed EXCEPT ![a] = @ \cup type]
  /\ UNCHANGED <<events, cooling, lock, req, counts, faults>>

AgentMoves(a) ==
  \E s \in Outcomes(agent[a].state) :
    Writes(a, [agent[a] EXCEPT !.state = s], registrationStateToEventType(s))

AgentVerifies(a) ==
  /\ ~agent[a].verified
  /\ Writes(a, [agent[a] EXCEPT !.verified = TRUE], {"AgentVerified"})

AgentDeleted(a) == Writes(a, [agent[a] EXCEPT !.exists = FALSE], {})

EventRecorded(a) ==
  /\ \E t \in owed[a] :
       /\ owed' = [owed EXCEPT ![a] = @ \ {t}]
       /\ IF agent[a].exists THEN Insert({a}, LAMBDA b : {t}) ELSE UNCHANGED events
  /\ UNCHANGED <<agent, cooling, lock, req, counts, budget>>

EventLost(a) ==
  /\ faults < MaxFaults /\ faults' = faults + 1
  /\ \E t \in owed[a] : owed' = [owed EXCEPT ![a] = @ \ {t}]
  /\ UNCHANGED <<agent, events, cooling, lock, req, counts, changes>>

------------------------------------------------------------------------------
(* Cooldowns: kept for a minute or two, lost with their process, evicted   *)
(* from a full map.                                                        *)
CooldownEnds(s, k) ==
  /\ k \in cooling[s] /\ cooling' = [cooling EXCEPT ![s] = @ \ {k}]
  /\ UNCHANGED <<store, lock, req, counts, budget>>

Cools(r, k, next) ==
  /\ cooling' = [cooling EXCEPT ![Server(r)] = @ \cup {k}]
  /\ next

End(r) == req' = [req EXCEPT ![r] = Idle]

(* A request comes to some process.                                        *)
Start(r, s) ==
  /\ At(r, "idle")
  /\ req' = [req EXCEPT ![r].on = s, ![r].pc =
       IF r \in Feeds /\ "lifecycle" \notin cooling[s] THEN "agents" ELSE "preview"]
  /\ UNCHANGED <<store, cooling, lock, counts, budget>>

------------------------------------------------------------------------------
(* maybeBackfillAgentLifecycleEvents.                                      *)
ReadAgents(r) ==
  LET all == {[id |-> a, state |-> agent[a].state, verified |-> agent[a].verified] :
                a \in {b \in Agents : agent[b].exists}} IN
  /\ At(r, "agents")
  /\ IF all = {}
     THEN Cools(r, "lifecycle", Goto(r, "preview"))
     ELSE req' = [req EXCEPT ![r].pc = "events", ![r].read = all] /\ UNCHANGED cooling
  /\ UNCHANGED <<store, lock, counts, budget>>

Without(rows) == {x \in rows : ~HasEvent(x.id)}

ReadEvents(r) ==
  /\ At(r, "events")
  /\ IF Without(req[r].read) = {}
     THEN Cools(r, "lifecycle", Goto(r, "preview"))
     ELSE /\ req' = [req EXCEPT ![r].pc = "lock", ![r].todo = Without(req[r].read)]
          /\ UNCHANGED cooling
  /\ UNCHANGED <<store, lock, counts, budget>>

Acquire(r, pc, k, next) ==
  /\ At(r, pc) /\ lock[k] = None
  /\ lock' = [lock EXCEPT ![k] = r] /\ Goto(r, next)
  /\ UNCHANGED <<store, cooling, counts, budget>>

LockLifecycle(r) == Acquire(r, "lock", "lifecycle", "recheck")

\* Mutant: what was read before the lock is taken for granted.
NotChecked(r) == req[r].todo
Rechecked(r) == Without(req[r].todo)

Recheck(r) ==
  /\ At(r, "recheck")
  /\ req' = [req EXCEPT ![r].pc = "seed", ![r].todo = Rechecked(r)]
  /\ UNCHANGED <<store, cooling, lock, counts, budget>>

RowOf(r, a) == CHOOSE x \in req[r].todo : x.id = a
StateType(x) == registrationStateToEventType(x.state)
\* Mutant: AgentVerified for whatever is confirmed.
TypesIfConfirmed(x) ==
  StateType(x) \cup (IF x.state = "RegistrationConfirmed" THEN {"AgentVerified"} ELSE {})
SeedTypes(x) == StateType(x) \cup (IF x.verified THEN {"AgentVerified"} ELSE {})
Seeded(r) == {x.id : x \in {y \in req[r].todo : SeedTypes(y) # {}}}

Unlock(k) == lock' = [lock EXCEPT ![k] = None]

(* The inserts and the commit.  An event of an agent deleted meanwhile     *)
(* violates its foreign key, and nothing is inserted.                      *)
Seed(r) ==
  /\ At(r, "seed") /\ Unlock("lifecycle")
  /\ IF \A a \in Seeded(r) : agent[a].exists
     THEN /\ Insert(Seeded(r), LAMBDA a : SeedTypes(RowOf(r, a)))
          /\ seeded' = [a \in Agents |-> seeded[a] + (IF a \in Seeded(r) THEN 1 ELSE 0)]
          /\ Cools(r, "lifecycle", Goto(r, "preview"))
     ELSE Goto(r, "preview") /\ UNCHANGED <<events, seeded, cooling>>
  /\ UNCHANGED <<agent, owed, added, budget>>

------------------------------------------------------------------------------
(* maybeBackfillMissingAgentVerifiedActivity.                              *)
Preview(r) ==
  /\ At(r, "preview")
  /\ IF "verified" \in cooling[Server(r)] THEN End(r) /\ UNCHANGED cooling
     ELSE IF \E a \in Agents : IsVerified(a) THEN Goto(r, "vlock") /\ UNCHANGED cooling
     ELSE Cools(r, "verified", End(r))
  /\ UNCHANGED <<store, lock, counts, budget>>

LockVerified(r) == Acquire(r, "vlock", "verified", "verified")

ReadVerified(r) ==
  /\ At(r, "verified")
  /\ req' = [req EXCEPT ![r].pc = "missing", ![r].todo = {a \in Agents : IsVerified(a)}]
  /\ UNCHANGED <<store, cooling, lock, counts, budget>>

\* Mutant: any event of the agent is taken for its verification.
Eventless(r) == {a \in req[r].todo : ~HasEvent(a)}
Missing(r) == {a \in req[r].todo : events[a]["AgentVerified"] = 0}

ReadMissing(r) ==
  /\ At(r, "missing")
  /\ req' = [req EXCEPT ![r].pc = "add", ![r].todo = Missing(r)]
  /\ UNCHANGED <<store, cooling, lock, counts, budget>>

Add(r) ==
  /\ At(r, "add") /\ Unlock("verified") /\ End(r)
  /\ IF \A a \in req[r].todo : agent[a].exists
     THEN /\ Insert(req[r].todo, LAMBDA a : {"AgentVerified"})
          /\ added' = [a \in Agents |-> added[a] + (IF a \in req[r].todo THEN 1 ELSE 0)]
          /\ cooling' = [cooling EXCEPT ![Server(r)] = @ \cup {"verified"}]
     ELSE UNCHANGED <<events, added, cooling>>
  /\ UNCHANGED <<agent, owed, seeded, budget>>

(* A transaction fails: it is rolled back, and its cooldown does not run.  *)
TransactionFails(r) ==
  /\ faults < MaxFaults /\ faults' = faults + 1
  /\ lock' = [k \in Kinds |-> IF lock[k] = r THEN None ELSE lock[k]]
  /\ \/ req[r].pc \in {"lock", "recheck", "seed"} /\ Goto(r, "preview")
     \/ req[r].pc \in {"vlock", "verified", "missing", "add"} /\ End(r)
  /\ UNCHANGED <<store, cooling, counts, changes>>

------------------------------------------------------------------------------
RequestStep(r) ==
  \/ ReadAgents(r) \/ ReadEvents(r) \/ LockLifecycle(r) \/ Recheck(r) \/ Seed(r)
  \/ Preview(r) \/ LockVerified(r) \/ ReadVerified(r) \/ ReadMissing(r) \/ Add(r)

Next ==
  \/ \E a \in Agents : AgentMoves(a) \/ AgentVerifies(a) \/ AgentDeleted(a)
                       \/ EventRecorded(a) \/ EventLost(a)
  \/ \E s \in Servers, k \in Kinds : CooldownEnds(s, k)
  \/ \E r \in Requests : (\E s \in Servers : Start(r, s)) \/ RequestStep(r)
                         \/ TransactionFails(r)

Spec == Init /\ [][Next]_vars

(* Cooldowns end by the clock, and the feed is asked for again and again,  *)
(* by the activity page and by the badge (every 25 s); a waiting lock is   *)
(* granted in turn.                                                        *)
Fairness ==
  /\ \A s \in Servers, k \in Kinds : WF_vars(CooldownEnds(s, k))
  /\ \A r \in Requests : /\ WF_vars(\E s \in Servers : Start(r, s))
                         /\ WF_vars(RequestStep(r)) /\ SF_vars(LockLifecycle(r))
                         /\ SF_vars(LockVerified(r))

FairSpec == Spec /\ Fairness

------------------------------------------------------------------------------
(* Properties.                                                             *)

(* Types; a request in a transaction holds its lock, and no other does.    *)
TypeOK ==
  /\ \A a \in Agents : agent[a].state \in RegistrationStates /\ owed[a] \subseteq EventTypes
  /\ events \in [Agents -> [EventTypes -> 0 .. EventCap]]
  /\ cooling \in [Servers -> SUBSET Kinds]
  /\ \A r \in Requests :
       /\ lock["lifecycle"] = r <=> req[r].pc \in {"recheck", "seed"}
       /\ lock["verified"] = r <=> req[r].pc \in {"verified", "missing", "add"}

(* "uses pg_advisory_xact_lock so serverless concurrency does not          *)
(* double-insert": neither backfill writes to an agent twice, in whatever  *)
(* processes it runs.                                                      *)
BackfillsOnce == \A a \in Agents : seeded[a] <= 1 /\ added[a] <= 1

(* The feed does not say that an agent was verified which was not.         *)
VerifiedEventsTrue ==
  \A a \in Agents : events[a]["AgentVerified"] > 0 => agent[a].verified

(* A verified agent's verification reaches the feed, although the event    *)
(* was lost or is older than the events.                                   *)
VerifiedIsShown ==
  \A a \in Agents : IsVerified(a) ~> ~agent[a].exists \/ events[a]["AgentVerified"] > 0

(* An agent that is older than the events gets one for its state, if there *)
(* is one for that state.                                                  *)
OldAgentsShown ==
  \A a \in Agents :
    agent[a].exists /\ registrationStateToEventType(agent[a].state) # {}
      ~> \/ ~agent[a].exists \/ HasEvent(a)
         \/ registrationStateToEventType(agent[a].state) = {}

------------------------------------------------------------------------------
(* What texts of the repository say and the code does not keep: TLC        *)
(* refutes these (see the README).                                         *)

(* "duplicate inserts are still prevented by pg_advisory_xact_lock on the  *)
(* transactional backfill path": the backfills alone give an agent one     *)
(* AgentVerified at most.                                                  *)
VerifiedOnce ==
  \A a \in Agents : agent[a].exists => events[a]["AgentVerified"] <= 1
==============================================================================
