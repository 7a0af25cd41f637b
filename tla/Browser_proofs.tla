---------------------------- MODULE Browser_proofs ----------------------------
(***************************************************************************)
(* Proofs about what a browser asks for, without the bounds of the runs.   *)
(* ActivityBackfill, for every number of agents, requests and processes:   *)
(* each backfill writes to an agent once at most, and no AgentVerified is  *)
(* recorded of an agent that is not.  RegistrationPolls, for every number  *)
(* of users and agents: nobody inherits an agent but by a session that is  *)
(* shown late or replaced, the timer runs, and attempts are not started    *)
(* again.  TransactionBadge, for every set of transactions: a hook counts  *)
(* each once, and skips nothing while one list alone has any.              *)
(* ActivityFeedPages, for every number of items and every limit: no item   *)
(* is on two pages, and steady pages have no gap.                          *)
(***************************************************************************)
EXTENDS Browser, Sequences, FiniteSetTheorems, WellFoundedInduction, TLAPS

Rows == [id : Agents, state : RegistrationStates, verified : BOOLEAN]
PCs == {"idle", "agents", "events", "lock", "recheck", "seed", "preview",
        "vlock", "verified", "missing", "add"}
RequestRecords ==
  [pc : PCs, on : Servers \cup {None}, read : SUBSET Rows, todo : SUBSET (Rows \cup Agents)]

Typed ==
  /\ agent \in [Agents -> [exists : BOOLEAN, state : RegistrationStates, verified : BOOLEAN]]
  /\ events \in [Agents -> [EventTypes -> 0 .. EventCap]]
  /\ owed \in [Agents -> SUBSET EventTypes]
  /\ cooling \in [Servers -> SUBSET Kinds]
  /\ lock \in [Kinds -> Requests \cup {None}]
  /\ req \in [Requests -> RequestRecords]
  /\ seeded \in [Agents -> Nat] /\ added \in [Agents -> Nat]

(* Who holds a lock is in its transaction, and nobody else is.             *)
Holds(r) ==
  /\ lock["lifecycle"] = r <=> req[r].pc \in {"recheck", "seed"}
  /\ lock["verified"] = r <=> req[r].pc \in {"verified", "missing", "add"}

(* What a request has read of the agents: rows that agree on whom they are *)
(* of, and that do not say of an agent that it is verified when it is not. *)
GoodRows(S) ==
  /\ S \subseteq Rows
  /\ \A x, y \in S : x.id = y.id => x = y
  /\ \A x \in S : x.verified => agent[x.id].verified
Read(r) == req[r].pc = "events" => GoodRows(req[r].read)
Todo(r) == req[r].pc \in {"lock", "recheck", "seed"} => GoodRows(req[r].todo)
TodoVerified(r) ==
  req[r].pc \in {"missing", "add"} =>
    req[r].todo \subseteq Agents /\ \A a \in req[r].todo : agent[a].verified

(* Under its lock, what a request is about to write has not been written.  *)
Unwritten(r) ==
  /\ req[r].pc = "seed" => \A x \in req[r].todo : seeded[x.id] = 0
  /\ req[r].pc = "add" => \A a \in req[r].todo : added[a] = 0

(* A backfill that has written has left an event; events stay.             *)
Counted(a) ==
  /\ seeded[a] <= 1 /\ (seeded[a] > 0 => HasEvent(a))
  /\ added[a] <= 1 /\ (added[a] > 0 => events[a]["AgentVerified"] > 0)

Truthful(a) ==
  "AgentVerified" \in owed[a] \/ events[a]["AgentVerified"] > 0 => agent[a].verified

RequestInv(r) == Holds(r) /\ Read(r) /\ Todo(r) /\ TodoVerified(r) /\ Unwritten(r)
AgentInv(a) == Counted(a) /\ Truthful(a)
Inv == Typed /\ (\A r \in Requests : RequestInv(r)) /\ (\A a \in Agents : AgentInv(a))

(* The event types of a state are those an event can have.                 *)
LEMMA StateTypes ==
  ASSUME NEW s \in RegistrationStates
  PROVE  registrationStateToEventType(s) \subseteq EventTypes
BY DEF RegistrationStates, registrationStateToEventType, EventTypes

LEMMA OutcomesAreStates ==
  ASSUME NEW s PROVE Outcomes(s) \subseteq RegistrationStates
BY DEF Outcomes, RegistrationStates

(* Insert adds to the counts of the types it is given, and takes nothing.  *)
(* The types are given as a function F, for a lemma with an operator as    *)
(* its parameter cannot be instantiated.                                   *)
Inserts(S, F) ==
  events' = [a \in Agents |-> [t \in EventTypes |->
    IF a \in S /\ t \in F[a] /\ events[a][t] < EventCap
    THEN events[a][t] + 1 ELSE events[a][t]]]

LEMMA Inserted ==
  ASSUME Typed, NEW S, NEW F, Inserts(S, F)
  PROVE  /\ events' \in [Agents -> [EventTypes -> 0 .. EventCap]]
         /\ \A a \in Agents, t \in EventTypes :
              /\ events[a][t] > 0 => events'[a][t] > 0
              /\ a \in S /\ t \in F[a] => events'[a][t] > 0
              /\ a \notin S \/ t \notin F[a] => events'[a][t] = events[a][t]
<1>1. \A a \in Agents, t \in EventTypes : events[a][t] \in 0 .. 2
  BY DEF Typed, EventCap
<1>2. \A a \in Agents, t \in EventTypes :
        events'[a][t] = IF a \in S /\ t \in F[a] /\ events[a][t] < 2
                        THEN events[a][t] + 1 ELSE events[a][t]
  BY DEF Inserts, EventCap
<1>3. \A a \in Agents, t \in EventTypes : events'[a][t] \in 0 .. 2
  BY <1>1, <1>2
<1>4. events' \in [Agents -> [EventTypes -> 0 .. 2]]
  <2>1. events' = [a \in Agents |-> [t \in EventTypes |-> events'[a][t]]]
    BY Zenon DEF Inserts
  <2> QED
    BY <1>3, <2>1
<1> QED
  BY <1>1, <1>2, <1>4 DEF EventCap

LEMMA InitInv == Init => Inv
<1> SUFFICES ASSUME Init PROVE Inv
  OBVIOUS
<1>0. agent \in [Agents -> [exists : BOOLEAN, state : RegistrationStates, verified : BOOLEAN]]
  <2>1. [exists : {TRUE}, state : OldStates, verified : BOOLEAN]
          \subseteq [exists : BOOLEAN, state : RegistrationStates, verified : BOOLEAN]
    BY BackfillAssumption
  <2> QED
    BY <2>1 DEF Init
<1>1. Typed
  BY <1>0, BackfillAssumption DEF Init, Typed, RequestRecords, PCs, Idle, EventCap, Kinds
<1>2. ASSUME NEW r \in Requests PROVE RequestInv(r)
  BY <1>2, BackfillAssumption DEF Init, Idle, RequestInv, Holds, Read, Todo, TodoVerified,
     Unwritten, Requests, Kinds
<1>3. ASSUME NEW a \in Agents PROVE AgentInv(a)
  BY <1>3 DEF Init, AgentInv, Counted, Truthful, HasEvent, EventTypes
<1> QED
  BY <1>1, <1>2, <1>3 DEF Inv

------------------------------------------------------------------------------
(* Steps of a request that writes no event: what it has read is new.       *)
LEMMA RequestMoves ==
  ASSUME Inv, NEW r \in Requests, UNCHANGED <<store, counts>>,
         cooling' \in [Servers -> SUBSET Kinds],
         lock' \in [Kinds -> Requests \cup {None}],
         req' \in [Requests -> RequestRecords],
         \A o \in Requests \ {r} : req'[o] = req[o],
         \A o \in Requests \ {r}, k \in Kinds : lock'[k] = o <=> lock[k] = o,
         RequestInv(r)'
  PROVE  Inv'
<1>1. Typed'
  BY DEF Inv, Typed, store, counts
<1>2. ASSUME NEW o \in Requests PROVE RequestInv(o)'
  <2>1. CASE o = r
    BY <2>1
  <2>2. CASE o # r
    BY <2>2, <1>2 DEF Inv, RequestInv, Holds, Read, Todo, TodoVerified, Unwritten, GoodRows,
       store, counts, Kinds
  <2> QED
    BY <2>1, <2>2
<1>3. ASSUME NEW a \in Agents PROVE AgentInv(a)'
  BY <1>3 DEF Inv, AgentInv, Counted, Truthful, HasEvent, store, counts
<1> QED
  BY <1>1, <1>2, <1>3 DEF Inv

(* The cooldowns stay sets of kinds.                                       *)
LEMMA Cooldowns ==
  ASSUME Inv, NEW r \in Requests, NEW k \in Kinds,
         cooling' = [cooling EXCEPT ![Server(r)] = @ \cup {k}]
  PROVE  cooling' \in [Servers -> SUBSET Kinds]
BY DEF Inv, Typed

(* A request stays one when what it does and has read changes.             *)
LEMMA Changed ==
  ASSUME Typed, NEW r \in Requests, NEW pc \in PCs, NEW rows \in SUBSET Rows,
         NEW set \in SUBSET (Rows \cup Agents)
  PROVE  /\ [req EXCEPT ![r].pc = pc] \in [Requests -> RequestRecords]
         /\ [req EXCEPT ![r].pc = pc, ![r].read = rows, ![r].todo = set]
              \in [Requests -> RequestRecords]
<1>1. req \in [Requests -> RequestRecords]
  BY DEF Typed
<1>2. /\ [req[r] EXCEPT !.pc = pc] \in RequestRecords
      /\ [req[r] EXCEPT !.pc = pc, !.read = rows, !.todo = set] \in RequestRecords
  BY <1>1 DEF RequestRecords
<1>3. /\ [req EXCEPT ![r].pc = pc] = [req EXCEPT ![r] = [req[r] EXCEPT !.pc = pc]]
      /\ [req EXCEPT ![r].pc = pc, ![r].read = rows, ![r].todo = set]
           = [req EXCEPT ![r] = [req[r] EXCEPT !.pc = pc, !.read = rows, !.todo = set]]
  BY <1>1 DEF RequestRecords
<1> QED
  BY <1>1, <1>2, <1>3

(* Fields that are written over with themselves.                           *)
LEMMA Unread ==
  ASSUME Typed, NEW r \in Requests, NEW pc, NEW rows, NEW set
  PROVE  /\ [req EXCEPT ![r].pc = pc, ![r].read = rows]
              = [req EXCEPT ![r].pc = pc, ![r].read = rows, ![r].todo = req[r].todo]
         /\ [req EXCEPT ![r].pc = pc, ![r].todo = set]
              = [req EXCEPT ![r].pc = pc, ![r].read = req[r].read, ![r].todo = set]
BY DEF Typed, RequestRecords

LEMMA StartStep ==
  ASSUME Inv, NEW r \in Requests, NEW s \in Servers, Start(r, s) PROVE Inv'
<1> DEFINE first == IF r \in Feeds /\ "lifecycle" \notin cooling[s] THEN "agents" ELSE "preview"
<1>1. first \in {"agents", "preview"}
  OBVIOUS
<1>2. /\ req[r].pc = "idle"
      /\ req' = [req EXCEPT ![r].on = s, ![r].pc = first]
      /\ UNCHANGED <<store, counts, cooling, lock>>
  BY DEF Start, At
<1> HIDE DEF first
<1>3. req' \in [Requests -> RequestRecords]
  BY <1>1, <1>2 DEF Inv, Typed, RequestRecords, PCs
<1>4. req'[r].pc = first
  BY <1>2 DEF Inv, Typed, RequestRecords
<1>5. RequestInv(r)'
  BY <1>1, <1>2, <1>4 DEF Inv, RequestInv, Holds, Read, Todo, TodoVerified, Unwritten
<1> QED
  BY <1>2, <1>3, <1>5, RequestMoves DEF Inv, Typed

(* Steps that go on without reading anything new.                          *)
LEMMA GoesOn ==
  ASSUME Inv, NEW r \in Requests, NEW pc, Goto(r, pc),
         \/ req[r].pc \in {"agents", "events"} /\ pc = "preview" /\ UNCHANGED lock
         \/ req[r].pc = "preview" /\ pc = "vlock" /\ UNCHANGED lock
         \/ req[r].pc = "lock" /\ pc = "recheck" /\ lock' = [lock EXCEPT !["lifecycle"] = r]
            /\ lock["lifecycle"] = None
         \/ req[r].pc = "vlock" /\ pc = "verified" /\ lock' = [lock EXCEPT !["verified"] = r]
            /\ lock["verified"] = None,
         UNCHANGED <<store, counts>>,
         cooling' \in [Servers -> SUBSET Kinds]
  PROVE  Inv'
<1>0. pc \in PCs
  BY DEF PCs
<1>1. req' \in [Requests -> RequestRecords]
  BY <1>0, Changed DEF Inv, Goto
<1>2. lock' \in [Kinds -> Requests \cup {None}]
  BY DEF Inv, Typed
<1>3. \A o \in Requests \ {r}, k \in Kinds : lock'[k] = o <=> lock[k] = o
  BY BackfillAssumption DEF Inv, Typed, Requests, Kinds
<1>4. req'[r] = [req[r] EXCEPT !.pc = pc] /\ \A o \in Requests \ {r} : req'[o] = req[o]
  BY DEF Inv, Typed, Goto
<1>5. RequestInv(r)'
  BY <1>2, <1>4 DEF Inv, Typed, RequestRecords, RequestInv, Holds, Read, Todo, TodoVerified,
     Unwritten, GoodRows, store, counts, Kinds
<1> QED
  BY <1>1, <1>2, <1>3, <1>4, <1>5, RequestMoves

(* A request ends, without a lock or giving it up.                         *)
LEMMA Ends ==
  ASSUME Inv, NEW r \in Requests, End(r),
         \/ req[r].pc = "preview" /\ UNCHANGED lock
         \/ /\ req[r].pc \in {"vlock", "verified", "missing", "add"}
            /\ lock' = [k \in Kinds |-> IF lock[k] = r THEN None ELSE lock[k]],
         UNCHANGED <<store, counts>>,
         cooling' \in [Servers -> SUBSET Kinds]
  PROVE  Inv'
<1>1. req' \in [Requests -> RequestRecords]
  BY DEF Inv, Typed, RequestRecords, PCs, End, Idle
<1>2. lock' \in [Kinds -> Requests \cup {None}]
  BY DEF Inv, Typed
<1>3. \A o \in Requests \ {r}, k \in Kinds : lock'[k] = o <=> lock[k] = o
  BY BackfillAssumption DEF Inv, Typed, Requests, Kinds
<1>4. req'[r].pc = "idle" /\ \A o \in Requests \ {r} : req'[o] = req[o]
  BY DEF Inv, Typed, End, Idle
<1>5. lock'["lifecycle"] # r /\ lock'["verified"] # r
  BY BackfillAssumption DEF Inv, Typed, RequestInv, Holds, Requests, Kinds
<1>6. RequestInv(r)'
  BY <1>4, <1>5 DEF RequestInv, Holds, Read, Todo, TodoVerified, Unwritten
<1> QED
  BY <1>1, <1>2, <1>3, <1>4, <1>6, RequestMoves

(* Steps that read: the request's row is set to what pc, read, todo say.   *)
LEMMA Reads ==
  ASSUME Inv, NEW r \in Requests, NEW pc, NEW rows, NEW set,
         req' = [req EXCEPT ![r].pc = pc, ![r].read = rows, ![r].todo = set],
         \/ /\ req[r].pc = "agents" /\ pc = "events"
            /\ set = req[r].todo /\ GoodRows(rows)
         \/ /\ req[r].pc = "events" /\ pc = "lock"
            /\ rows = req[r].read /\ GoodRows(set)
         \/ /\ req[r].pc = "recheck" /\ pc = "seed" /\ rows = req[r].read
            /\ GoodRows(set) /\ \A x \in set : seeded[x.id] = 0
         \/ /\ req[r].pc = "verified" /\ pc = "missing" /\ rows = req[r].read
            /\ set \subseteq Agents /\ \A a \in set : agent[a].verified
         \/ /\ req[r].pc = "missing" /\ pc = "add" /\ rows = req[r].read
            /\ set \subseteq Agents /\ \A a \in set : agent[a].verified /\ added[a] = 0,
         UNCHANGED <<store, cooling, lock, counts>>
  PROVE  Inv'
<1>1. pc \in PCs /\ rows \in SUBSET Rows /\ set \in SUBSET (Rows \cup Agents)
  BY DEF Inv, Typed, RequestRecords, PCs, GoodRows
<1>2. req' \in [Requests -> RequestRecords]
  BY <1>1, Changed DEF Inv
<1>3. /\ req'[r].pc = pc /\ req'[r].read = rows /\ req'[r].todo = set
      /\ \A o \in Requests \ {r} : req'[o] = req[o]
  BY DEF Inv, Typed, RequestRecords
<1>4. cooling' \in [Servers -> SUBSET Kinds] /\ lock' \in [Kinds -> Requests \cup {None}]
  BY DEF Inv, Typed
<1>5. RequestInv(r)'
  BY <1>3 DEF Inv, RequestInv, Holds, Read, Todo, TodoVerified, Unwritten, GoodRows, store, counts
<1> QED
  BY <1>2, <1>3, <1>4, <1>5, RequestMoves

LEMMA ReadAgentsStep == ASSUME Inv, NEW r \in Requests, ReadAgents(r) PROVE Inv'
<1> DEFINE row(a) == [id |-> a, state |-> agent[a].state, verified |-> agent[a].verified]
           all == {row(a) : a \in {b \in Agents : agent[b].exists}}
<1>1. GoodRows(all)
  BY DEF Inv, Typed, GoodRows, Rows
<1>2. \/ Cools(r, "lifecycle", Goto(r, "preview"))
      \/ req' = [req EXCEPT ![r].pc = "events", ![r].read = all] /\ UNCHANGED cooling
  BY DEF ReadAgents
<1>3. req[r].pc = "agents" /\ UNCHANGED <<store, lock, counts>>
  BY DEF ReadAgents, At
<1> HIDE DEF all
<1>4. CASE Cools(r, "lifecycle", Goto(r, "preview"))
  BY <1>3, <1>4, GoesOn, Cooldowns DEF Cools, Kinds
<1>5. CASE req' = [req EXCEPT ![r].pc = "events", ![r].read = all] /\ UNCHANGED cooling
  <2>1. req' = [req EXCEPT ![r].pc = "events", ![r].read = all, ![r].todo = req[r].todo]
    BY <1>5, Unread DEF Inv
  <2>2. UNCHANGED <<store, cooling, lock, counts>>
    BY <1>3, <1>5
  <2> QED
    BY <1>1, <1>3, <2>1, <2>2, Reads
<1> QED
  BY <1>2, <1>4, <1>5

(* What has no event has not been seeded.                                  *)
LEMMA WithoutSeeds ==
  ASSUME Inv, NEW S, GoodRows(S)
  PROVE  GoodRows(Without(S)) /\ \A x \in Without(S) : seeded[x.id] = 0
BY DEF Inv, Typed, AgentInv, Counted, Without, GoodRows, Rows

LEMMA ReadEventsStep == ASSUME Inv, NEW r \in Requests, ReadEvents(r) PROVE Inv'
<1>1. req[r].pc = "events" /\ UNCHANGED <<store, lock, counts>>
  BY DEF ReadEvents, At
<1>2. GoodRows(Without(req[r].read))
  BY <1>1, WithoutSeeds DEF Inv, RequestInv, Read
<1>3. CASE Cools(r, "lifecycle", Goto(r, "preview"))
  BY <1>1, <1>3, GoesOn, Cooldowns DEF Cools, Kinds
<1>4. CASE /\ req' = [req EXCEPT ![r].pc = "lock", ![r].todo = Without(req[r].read)]
           /\ UNCHANGED cooling
  <2>1. req' = [req EXCEPT ![r].pc = "lock", ![r].read = req[r].read,
                           ![r].todo = Without(req[r].read)]
    BY <1>4, Unread DEF Inv
  <2>2. UNCHANGED <<store, cooling, lock, counts>>
    BY <1>1, <1>4
  <2> QED
    BY <1>1, <1>2, <2>1, <2>2, Reads
<1> QED
  BY <1>3, <1>4 DEF ReadEvents

LEMMA RecheckStep == ASSUME Inv, NEW r \in Requests, Recheck(r) PROVE Inv'
<1>1. req[r].pc = "recheck" /\ UNCHANGED <<store, cooling, lock, counts>>
  BY DEF Recheck, At
<1>2. GoodRows(Without(req[r].todo)) /\ \A x \in Without(req[r].todo) : seeded[x.id] = 0
  BY <1>1, WithoutSeeds DEF Inv, RequestInv, Todo
<1>3. req' = [req EXCEPT ![r].pc = "seed", ![r].read = req[r].read,
                         ![r].todo = Without(req[r].todo)]
  BY Unread DEF Recheck, Rechecked, Inv
<1> QED
  BY <1>1, <1>2, <1>3, Reads

LEMMA ReadVerifiedStep == ASSUME Inv, NEW r \in Requests, ReadVerified(r) PROVE Inv'
<1> DEFINE all == {a \in Agents : IsVerified(a)}
<1>1. req[r].pc = "verified" /\ UNCHANGED <<store, cooling, lock, counts>>
  BY DEF ReadVerified, At
<1>2. all \subseteq Agents /\ \A a \in all : agent[a].verified
  BY DEF IsVerified
<1>3. req' = [req EXCEPT ![r].pc = "missing", ![r].read = req[r].read, ![r].todo = all]
  BY Unread DEF ReadVerified, Inv
<1> HIDE DEF all
<1> QED
  BY <1>1, <1>2, <1>3, Reads

LEMMA ReadMissingStep == ASSUME Inv, NEW r \in Requests, ReadMissing(r) PROVE Inv'
<1>1. req[r].pc = "missing" /\ UNCHANGED <<store, cooling, lock, counts>>
  BY DEF ReadMissing, At
<1>2. /\ Missing(r) \subseteq Agents
      /\ \A a \in Missing(r) : agent[a].verified /\ added[a] = 0
  BY <1>1 DEF Missing, Inv, Typed, RequestInv, TodoVerified, AgentInv, Counted
<1>3. req' = [req EXCEPT ![r].pc = "add", ![r].read = req[r].read, ![r].todo = Missing(r)]
  BY Unread DEF ReadMissing, Inv
<1> QED
  BY <1>1, <1>2, <1>3, Reads

LEMMA PreviewStep == ASSUME Inv, NEW r \in Requests, Preview(r) PROVE Inv'
<1>1. req[r].pc = "preview" /\ UNCHANGED <<store, lock, counts>>
  BY DEF Preview, At
<1>2. cooling' \in [Servers -> SUBSET Kinds]
  BY Cooldowns DEF Preview, Cools, Kinds, Inv, Typed
<1>3. End(r) \/ Goto(r, "vlock")
  BY DEF Preview, Cools
<1> QED
  BY <1>1, <1>2, <1>3, Ends, GoesOn

LEMMA LockStep ==
  ASSUME Inv, NEW r \in Requests, LockLifecycle(r) \/ LockVerified(r) PROVE Inv'
<1>1. cooling' \in [Servers -> SUBSET Kinds]
  BY DEF LockLifecycle, LockVerified, Acquire, Inv, Typed
<1> QED
  BY <1>1, GoesOn DEF LockLifecycle, LockVerified, Acquire, At

------------------------------------------------------------------------------
(* Steps that write events.                                                *)

(* What Seed writes of an agent: types of an event, one at least; its      *)
(* verification only if it is verified; and no backfill wrote it before.   *)
LEMMA SeedRows ==
  ASSUME Inv, NEW r \in Requests, req[r].pc = "seed", NEW a \in Seeded(r)
  PROVE  /\ a \in Agents /\ seeded[a] = 0
         /\ SeedTypes(RowOf(r, a)) \subseteq EventTypes /\ SeedTypes(RowOf(r, a)) # {}
         /\ "AgentVerified" \in SeedTypes(RowOf(r, a)) => agent[a].verified
<1>1. GoodRows(req[r].todo) /\ \A x \in req[r].todo : seeded[x.id] = 0
  BY DEF Inv, RequestInv, Todo, Unwritten
<1>2. PICK x \in req[r].todo : x.id = a /\ SeedTypes(x) # {}
  BY DEF Seeded
<1>3. RowOf(r, a) = x
  <2>1. RowOf(r, a) \in req[r].todo /\ RowOf(r, a).id = a
    BY <1>2 DEF RowOf
  <2> QED
    BY <1>1, <1>2, <2>1 DEF GoodRows
<1>4. x.id \in Agents /\ x.state \in RegistrationStates
  BY <1>1, <1>2 DEF GoodRows, Rows
<1>5. StateType(x) \subseteq EventTypes /\ "AgentVerified" \notin StateType(x)
  BY <1>4 DEF StateType, RegistrationStates, registrationStateToEventType, EventTypes
<1>6. SeedTypes(x) \subseteq EventTypes /\ ("AgentVerified" \in SeedTypes(x) => x.verified)
  BY <1>5 DEF SeedTypes, EventTypes
<1> QED
  BY <1>1, <1>2, <1>3, <1>4, <1>6 DEF GoodRows

(* The transaction's end gives up its lock, and no other request's.        *)
LEMMA Unlocked ==
  ASSUME Inv, NEW r \in Requests, NEW k \in Kinds, lock[k] = r, Unlock(k),
         NEW pc, req'[r].pc = pc, pc \in {"preview", "idle"},
         \A o \in Requests \ {r} : req'[o] = req[o],
         \A j \in Kinds \ {k} : lock[j] # r
  PROVE  /\ lock' \in [Kinds -> Requests \cup {None}]
         /\ \A o \in Requests : Holds(o)'
         /\ \A o \in Requests \ {r}, j \in Kinds : lock'[j] = o <=> lock[j] = o
<1>1. lock' \in [Kinds -> Requests \cup {None}] /\ lock' = [lock EXCEPT ![k] = None]
  BY DEF Inv, Typed, Unlock
<1>2. \A o \in Requests : o # None
  BY BackfillAssumption DEF Requests
<1>3. \A o \in Requests \ {r}, j \in Kinds : lock'[j] = o <=> lock[j] = o
  BY <1>1, <1>2 DEF Inv, Typed
<1>4. \A j \in Kinds : lock'[j] # r
  BY <1>1, <1>2 DEF Inv, Typed
<1>5. ASSUME NEW o \in Requests PROVE Holds(o)'
  <2>1. CASE o = r
    BY <1>4, <2>1 DEF Holds, Kinds
  <2>2. CASE o # r
    BY <1>3, <2>2 DEF Inv, RequestInv, Holds, Kinds
  <2> QED
    BY <2>1, <2>2
<1> QED
  BY <1>1, <1>3, <1>5

LEMMA SeedStep == ASSUME Inv, NEW r \in Requests, Seed(r) PROVE Inv'
<1> DEFINE F == [a \in Agents |-> SeedTypes(RowOf(r, a))]
<1>1. /\ req[r].pc = "seed" /\ Unlock("lifecycle") /\ Goto(r, "preview")
      /\ UNCHANGED <<agent, owed, added, budget>>
      /\ lock["lifecycle"] = r /\ lock["verified"] # r
  BY DEF Seed, At, Cools, Inv, RequestInv, Holds
<1>2. /\ req'[r] = [req[r] EXCEPT !.pc = "preview"]
      /\ \A o \in Requests \ {r} : req'[o] = req[o]
      /\ req' \in [Requests -> RequestRecords]
  BY <1>1, Changed DEF Inv, Typed, Goto, PCs
<1>3. req'[r].pc = "preview"
  BY <1>2 DEF Inv, Typed, RequestRecords
<1>4. /\ lock' \in [Kinds -> Requests \cup {None}]
      /\ \A o \in Requests : Holds(o)'
      /\ \A o \in Requests \ {r}, j \in Kinds : lock'[j] = o <=> lock[j] = o
  BY <1>1, <1>2, <1>3, Unlocked DEF Kinds
<1>5. cooling' \in [Servers -> SUBSET Kinds]
  BY Cooldowns DEF Seed, Cools, Kinds, Inv, Typed
<1>6. CASE UNCHANGED <<events, seeded, cooling>>
  <2>1. RequestInv(r)'
    BY <1>3, <1>4 DEF RequestInv, Read, Todo, TodoVerified, Unwritten
  <2>2. UNCHANGED <<store, counts>>
    BY <1>1, <1>6 DEF store, counts
  <2> QED
    BY <1>2, <1>4, <1>5, <2>1, <2>2, RequestMoves
<1>7. CASE /\ Insert(Seeded(r), LAMBDA a : SeedTypes(RowOf(r, a)))
           /\ seeded' = [a \in Agents |-> seeded[a] + (IF a \in Seeded(r) THEN 1 ELSE 0)]
  <2>1. Inserts(Seeded(r), F)
    BY <1>7 DEF Insert, Inserts
  <2>2. \A a \in Agents : F[a] = SeedTypes(RowOf(r, a))
    OBVIOUS
  <2> HIDE DEF F
  <2>3. Typed'
    BY <1>1, <1>2, <1>4, <1>5, <1>7, <2>1, Inserted DEF Inv, Typed
  <2>4. ASSUME NEW o \in Requests PROVE RequestInv(o)'
    <3>1. CASE o = r
      BY <1>3, <1>4, <3>1 DEF RequestInv, Read, Todo, TodoVerified, Unwritten
    <3>2. CASE o # r
      <4>1. req'[o].pc # "seed"
        BY <1>1, <1>2, <3>2 DEF Inv, RequestInv, Holds
      <4> QED
        BY <1>1, <1>2, <1>4, <3>2, <4>1 DEF Inv, RequestInv, Read, Todo, TodoVerified,
           Unwritten, GoodRows
    <3> QED
      BY <3>1, <3>2
  <2>5. ASSUME NEW a \in Agents PROVE AgentInv(a)'
    <3>1. HasEvent(a) => HasEvent(a)'
      BY <2>1, Inserted DEF HasEvent, Inv
    <3>2. seeded'[a] <= 1 /\ (seeded'[a] > 0 => HasEvent(a)')
      <4>1. CASE a \in Seeded(r)
        <5>1. PICK t \in F[a] : t \in EventTypes
          BY <1>1, <2>2, <4>1, SeedRows
        <5>2. events'[a][t] > 0
          BY <2>1, <4>1, <5>1, Inserted DEF Inv
        <5> QED
          BY <1>1, <1>7, <4>1, <5>1, <5>2, SeedRows DEF HasEvent
      <4>2. CASE a \notin Seeded(r)
        BY <1>7, <3>1, <4>2 DEF Inv, Typed, AgentInv, Counted
      <4> QED
        BY <4>1, <4>2
    <3>3. added'[a] <= 1 /\ (added'[a] > 0 => events'[a]["AgentVerified"] > 0)
      BY <1>1, <2>1, Inserted DEF Inv, AgentInv, Counted, EventTypes
    <3>4. Truthful(a)'
      <4>1. a \in Seeded(r) /\ "AgentVerified" \in F[a] => agent[a].verified
        BY <1>1, <2>2, SeedRows
      <4>2. \/ a \in Seeded(r) /\ "AgentVerified" \in F[a]
            \/ events'[a]["AgentVerified"] = events[a]["AgentVerified"]
        BY <2>1, Inserted DEF Inv, EventTypes
      <4> QED
        BY <1>1, <4>1, <4>2 DEF Inv, AgentInv, Truthful
    <3> QED
      BY <3>2, <3>3, <3>4 DEF AgentInv, Counted
  <2> QED
    BY <2>3, <2>4, <2>5 DEF Inv
<1> QED
  BY <1>6, <1>7 DEF Seed

LEMMA AddStep == ASSUME Inv, NEW r \in Requests, Add(r) PROVE Inv'
<1> DEFINE F == [a \in Agents |-> {"AgentVerified"}]
<1>1. /\ req[r].pc = "add" /\ Unlock("verified") /\ End(r)
      /\ UNCHANGED <<agent, owed, seeded, budget>>
      /\ lock["verified"] = r /\ lock["lifecycle"] # r
  BY DEF Add, At, Inv, RequestInv, Holds
<1>2. /\ req'[r].pc = "idle" /\ req' \in [Requests -> RequestRecords]
      /\ \A o \in Requests \ {r} : req'[o] = req[o]
  BY <1>1 DEF Inv, Typed, End, Idle, RequestRecords, PCs
<1>3. /\ lock' \in [Kinds -> Requests \cup {None}]
      /\ \A o \in Requests : Holds(o)'
      /\ \A o \in Requests \ {r}, j \in Kinds : lock'[j] = o <=> lock[j] = o
  BY <1>1, <1>2, Unlocked DEF Kinds
<1>4. cooling' \in [Servers -> SUBSET Kinds]
  <2>1. \/ UNCHANGED cooling
        \/ cooling' = [cooling EXCEPT ![Server(r)] = @ \cup {"verified"}]
    BY DEF Add
  <2> QED
    BY <2>1, Cooldowns DEF Kinds, Inv, Typed
<1>5. CASE UNCHANGED <<events, added, cooling>>
  <2>1. RequestInv(r)'
    BY <1>2, <1>3 DEF RequestInv, Read, Todo, TodoVerified, Unwritten
  <2>2. UNCHANGED <<store, counts>>
    BY <1>1, <1>5 DEF store, counts
  <2> QED
    BY <1>2, <1>3, <1>4, <2>1, <2>2, RequestMoves
<1>6. CASE ~UNCHANGED <<events, added, cooling>>
  <2>0. added' = [a \in Agents |-> added[a] + (IF a \in req[r].todo THEN 1 ELSE 0)]
    BY <1>6 DEF Add
  <2>1. Inserts(req[r].todo, F)
    BY <1>6 DEF Add, Insert, Inserts
  <2>2. \A a \in Agents : F[a] = {"AgentVerified"}
    OBVIOUS
  <2> HIDE DEF F
  <2>3. \A a \in req[r].todo : a \in Agents /\ agent[a].verified /\ added[a] = 0
    BY <1>1 DEF Inv, RequestInv, TodoVerified, Unwritten
  <2>4. Typed'
    <3>1. added' \in [Agents -> Nat]
      BY <2>0 DEF Inv, Typed
    <3>2. events' \in [Agents -> [EventTypes -> 0 .. EventCap]]
      BY <2>1, Inserted DEF Inv
    <3> QED
      BY <1>1, <1>2, <1>3, <1>4, <3>1, <3>2 DEF Inv, Typed
  <2>5. ASSUME NEW o \in Requests PROVE RequestInv(o)'
    <3>1. CASE o = r
      BY <1>2, <1>3, <3>1 DEF RequestInv, Read, Todo, TodoVerified, Unwritten
    <3>2. CASE o # r
      <4>1. req'[o].pc # "add"
        BY <1>1, <1>2, <3>2 DEF Inv, RequestInv, Holds
      <4> QED
        BY <1>1, <1>2, <1>3, <3>2, <4>1 DEF Inv, RequestInv, Read, Todo, TodoVerified,
           Unwritten, GoodRows
    <3> QED
      BY <3>1, <3>2
  <2>6. ASSUME NEW a \in Agents PROVE AgentInv(a)'
    <3>1. HasEvent(a) => HasEvent(a)'
      BY <2>1, Inserted DEF HasEvent, Inv
    <3>2. added'[a] <= 1 /\ (added'[a] > 0 => events'[a]["AgentVerified"] > 0)
      <4>0. "AgentVerified" \in EventTypes
        BY DEF EventTypes
      <4>1. CASE a \in req[r].todo
        <5>1. added'[a] = 1
          BY <2>0, <2>3, <4>1
        <5>2. events'[a]["AgentVerified"] > 0
          BY <2>1, <2>2, <4>0, <4>1, Inserted DEF Inv
        <5> QED
          BY <5>1, <5>2
      <4>2. CASE a \notin req[r].todo
        <5>1. added'[a] = added[a]
          BY <2>0, <4>2 DEF Inv, Typed
        <5>2. events'[a]["AgentVerified"] = events[a]["AgentVerified"]
          BY <2>1, <4>0, <4>2, Inserted DEF Inv
        <5> QED
          BY <5>1, <5>2 DEF Inv, AgentInv, Counted
      <4> QED
        BY <4>1, <4>2
    <3>3. Truthful(a)'
      BY <1>1, <2>1, <2>3, Inserted DEF Inv, AgentInv, Truthful, EventTypes
    <3> QED
      BY <1>1, <3>1, <3>2, <3>3 DEF Inv, AgentInv, Counted
  <2> QED
    BY <2>4, <2>5, <2>6 DEF Inv
<1> QED
  BY <1>5, <1>6

LEMMA FailStep == ASSUME Inv, NEW r \in Requests, TransactionFails(r) PROVE Inv'
<1>1. /\ UNCHANGED <<store, cooling, counts>>
      /\ lock' = [k \in Kinds |-> IF lock[k] = r THEN None ELSE lock[k]]
  BY DEF TransactionFails
<1>2. cooling' \in [Servers -> SUBSET Kinds]
  BY <1>1 DEF Inv, Typed
<1>3. CASE req[r].pc \in {"lock", "recheck", "seed"} /\ Goto(r, "preview")
  <2>1. /\ lock' \in [Kinds -> Requests \cup {None}]
        /\ \A o \in Requests \ {r}, k \in Kinds : lock'[k] = o <=> lock[k] = o
        /\ \A k \in Kinds : lock'[k] # r
    BY <1>1, BackfillAssumption DEF Inv, Typed, Requests, Kinds
  <2>2. req' \in [Requests -> RequestRecords]
    BY <1>3, Changed DEF Inv, Goto, PCs
  <2>3. req'[r].pc = "preview" /\ \A o \in Requests \ {r} : req'[o] = req[o]
    BY <1>3 DEF Inv, Typed, RequestRecords, Goto
  <2>4. RequestInv(r)'
    BY <2>1, <2>3 DEF RequestInv, Holds, Read, Todo, TodoVerified, Unwritten, Kinds
  <2> QED
    BY <1>1, <1>2, <2>1, <2>2, <2>3, <2>4, RequestMoves
<1>4. CASE req[r].pc \in {"vlock", "verified", "missing", "add"} /\ End(r)
  BY <1>1, <1>2, <1>4, Ends
<1> QED
  BY <1>3, <1>4 DEF TransactionFails

------------------------------------------------------------------------------
(* Steps of the writers: agents never cease to be verified.                *)
LEMMA WriterMoves ==
  ASSUME Inv, Typed', UNCHANGED <<lock, req, counts>>,
         \A a \in Agents : agent[a].verified => agent'[a].verified,
         \A a \in Agents : AgentInv(a)'
  PROVE  Inv'
<1>1. ASSUME NEW r \in Requests PROVE RequestInv(r)'
  BY <1>1 DEF Inv, Typed, RequestInv, Holds, Read, Todo, TodoVerified, Unwritten, GoodRows,
     Rows, counts, RequestRecords
<1> QED
  BY <1>1 DEF Inv

LEMMA AgentStep ==
  ASSUME Inv, NEW a \in Agents, AgentMoves(a) \/ AgentVerifies(a) \/ AgentDeleted(a)
  PROVE  Inv'
<1>1. PICK row \in [exists : BOOLEAN, state : RegistrationStates, verified : BOOLEAN],
           type \in SUBSET EventTypes :
        /\ Writes(a, row, type)
        /\ agent[a].verified => row.verified
        /\ "AgentVerified" \in type => row.verified
  <2>1. CASE AgentMoves(a)
    <3>1. PICK s \in Outcomes(agent[a].state) :
            Writes(a, [agent[a] EXCEPT !.state = s], registrationStateToEventType(s))
      BY <2>1 DEF AgentMoves
    <3>2. s \in RegistrationStates
      BY OutcomesAreStates
    <3>3. "AgentVerified" \notin registrationStateToEventType(s)
      BY <3>2 DEF RegistrationStates, registrationStateToEventType
    <3> QED
      BY <3>1, <3>2, <3>3, StateTypes DEF Inv, Typed
  <2>2. CASE AgentVerifies(a)
    <3>1. /\ Writes(a, [agent[a] EXCEPT !.verified = TRUE], {"AgentVerified"})
          /\ {"AgentVerified"} \in SUBSET EventTypes
      BY <2>2 DEF AgentVerifies, EventTypes
    <3>2. [agent[a] EXCEPT !.verified = TRUE]
            \in [exists : BOOLEAN, state : RegistrationStates, verified : BOOLEAN]
      BY DEF Inv, Typed
    <3>3. [agent[a] EXCEPT !.verified = TRUE].verified
      BY DEF Inv, Typed
    <3> QED
      BY <3>1, <3>2, <3>3
  <2>3. CASE AgentDeleted(a)
    <3>1. Writes(a, [agent[a] EXCEPT !.exists = FALSE], {})
      BY <2>3 DEF AgentDeleted
    <3>2. [agent[a] EXCEPT !.exists = FALSE]
            \in [exists : BOOLEAN, state : RegistrationStates, verified : BOOLEAN]
      BY DEF Inv, Typed
    <3>3. [agent[a] EXCEPT !.exists = FALSE].verified = agent[a].verified
      BY DEF Inv, Typed
    <3> QED
      BY <3>1, <3>2, <3>3
  <2> QED
    BY <2>1, <2>2, <2>3
<1>2. Typed'
  <2>1. owed' \in [Agents -> SUBSET EventTypes]
    BY <1>1 DEF Writes, Inv, Typed
  <2>2. agent' \in [Agents -> [exists : BOOLEAN, state : RegistrationStates,
                              verified : BOOLEAN]]
    BY <1>1 DEF Writes, Inv, Typed
  <2> QED
    BY <1>1, <2>1, <2>2 DEF Writes, Inv, Typed, counts
<1>3. \A b \in Agents : agent[b].verified => agent'[b].verified
  BY <1>1 DEF Writes, Inv, Typed
<1>4. ASSUME NEW b \in Agents PROVE AgentInv(b)'
  BY <1>1, <1>3, <1>4 DEF Writes, Inv, Typed, AgentInv, Counted, Truthful, HasEvent, counts
<1> QED
  BY <1>1, <1>2, <1>3, <1>4, WriterMoves DEF Writes

LEMMA EventStep == ASSUME Inv, NEW a \in Agents, EventRecorded(a) PROVE Inv'
<1>1. PICK t \in owed[a] :
        /\ owed' = [owed EXCEPT ![a] = @ \ {t}]
        /\ IF agent[a].exists THEN Insert({a}, LAMBDA b : {t}) ELSE UNCHANGED events
  BY DEF EventRecorded
<1>2. UNCHANGED <<agent, cooling, lock, req, counts>>
  BY DEF EventRecorded
<1> DEFINE F == [b \in Agents |-> {t}]
<1>3. (\A b \in Agents : F[b] = {t}) /\ (UNCHANGED events \/ Inserts({a}, F))
  BY <1>1 DEF Insert, Inserts
<1> HIDE DEF F
<1>4. /\ events' \in [Agents -> [EventTypes -> 0 .. EventCap]]
      /\ \A b \in Agents, u \in EventTypes :
           /\ events[b][u] > 0 => events'[b][u] > 0
           /\ b # a \/ u # t => events'[b][u] = events[b][u]
  <2>1. CASE UNCHANGED events
    BY <2>1 DEF Inv, Typed
  <2>2. CASE Inserts({a}, F)
    BY <1>3, <2>2, Inserted DEF Inv
  <2> QED
    BY <1>3, <2>1, <2>2
<1>5. Typed'
  BY <1>1, <1>2, <1>4 DEF Inv, Typed, counts
<1>6. ASSUME NEW b \in Agents PROVE AgentInv(b)'
  <2>1. HasEvent(b) => HasEvent(b)'
    BY <1>4 DEF HasEvent
  <2>2. Counted(b)'
    BY <1>2, <1>4, <2>1 DEF Inv, AgentInv, Counted, counts, EventTypes
  <2>3. Truthful(b)'
    BY <1>1, <1>2, <1>4 DEF Inv, Typed, AgentInv, Truthful, EventTypes
  <2> QED
    BY <2>2, <2>3 DEF AgentInv
<1> QED
  BY <1>2, <1>5, <1>6, WriterMoves

LEMMA LostStep == ASSUME Inv, NEW a \in Agents, EventLost(a) PROVE Inv'
<1>1. PICK t \in owed[a] : owed' = [owed EXCEPT ![a] = @ \ {t}]
  BY DEF EventLost
<1>2. UNCHANGED <<agent, events, cooling, lock, req, counts>>
  BY DEF EventLost
<1>3. Typed'
  BY <1>1, <1>2 DEF Inv, Typed, counts
<1>4. ASSUME NEW b \in Agents PROVE AgentInv(b)'
  BY <1>1, <1>2, <1>4 DEF Inv, Typed, AgentInv, Counted, Truthful, HasEvent, counts
<1> QED
  BY <1>2, <1>3, <1>4, WriterMoves

LEMMA CooldownStep ==
  ASSUME Inv, NEW s \in Servers, NEW k \in Kinds, CooldownEnds(s, k) PROVE Inv'
<1>1. UNCHANGED <<store, lock, req, counts>> /\ cooling' \in [Servers -> SUBSET Kinds]
  BY DEF CooldownEnds, Inv, Typed
<1>2. Typed'
  BY <1>1 DEF Inv, Typed, store, counts
<1>3. ASSUME NEW b \in Agents PROVE AgentInv(b)'
  BY <1>1, <1>3 DEF Inv, AgentInv, Counted, Truthful, HasEvent, store, counts
<1> QED
  BY <1>1, <1>2, <1>3, WriterMoves DEF store

------------------------------------------------------------------------------
(* Inv is inductive.                                                       *)
THEOREM Invariant == Spec => []Inv
<1>1. Inv /\ [Next]_vars => Inv'
  <2> SUFFICES ASSUME Inv, [Next]_vars PROVE Inv'
    OBVIOUS
  <2>1. CASE UNCHANGED vars
    BY <2>1 DEF vars, store, counts, Inv, Typed, RequestInv, Holds, Read, Todo, TodoVerified,
       Unwritten, GoodRows, AgentInv, Counted, Truthful, HasEvent
  <2>2. ASSUME NEW r \in Requests, RequestStep(r) PROVE Inv'
    BY <2>2, ReadAgentsStep, ReadEventsStep, RecheckStep, SeedStep, PreviewStep,
       ReadVerifiedStep, ReadMissingStep, AddStep, LockStep DEF RequestStep
  <2> QED
    BY <2>1, <2>2, StartStep, FailStep, AgentStep, EventStep, LostStep, CooldownStep DEF Next
<1> QED
  BY <1>1, InitInv, PTL DEF Spec

(* Neither backfill writes to an agent twice, in whatever processes and    *)
(* however many requests it runs: the lock, and the second look under it.  *)
THEOREM WritesOnce == Spec => []BackfillsOnce
<1>1. Inv => BackfillsOnce
  BY DEF Inv, AgentInv, Counted, BackfillsOnce
<1> QED
  BY <1>1, Invariant, PTL

(* No AgentVerified is recorded of an agent that is not verified.          *)
THEOREM VerificationsTrue == Spec => []VerifiedEventsTrue
<1>1. Inv => VerifiedEventsTrue
  BY DEF Inv, AgentInv, Truthful, VerifiedEventsTrue
<1> QED
  BY <1>1, Invariant, PTL

(* The types, and that exactly the request in a transaction has its lock.  *)
THEOREM TypeCorrect == Spec => []TypeOK
<1>1. Inv => TypeOK
  BY DEF Inv, Typed, RequestInv, Holds, TypeOK
<1> QED
  BY <1>1, Invariant, PTL

------------------------------------------------------------------------------
(* The registrations of a tab.                                             *)
Attempted == [ids : SUBSET Agents, tries : [Agents -> 0 .. MaxTries]]
TabTyped ==
  /\ Tab!TypeOK
  /\ storage \in [Users -> Attempted]
  /\ tick \in [on : BOOLEAN, left : SUBSET Agents, done : SUBSET Agents, failed : SUBSET Agents]
  /\ hydrate \in [pc : {"none", "sent", "read"}, ids : SUBSET Agents]
  /\ polls \in [Agents -> Nat]

(* Whoever owns an agent keeps the number of its attempts, in the session  *)
(* and in the storage.                                                     *)
Kept(u, n, S) == \A a \in S : Owner[a] = u => polls[a] <= n[a]
AttemptsKept ==
  /\ Kept(user, tries, Agents \ strays)
  /\ \A u \in Users : Kept(u, storage[u].tries, Agents \ strays)

TabInv ==
  /\ TabTyped /\ Tab!Inherited /\ Tab!TimerRuns
  /\ AttemptsKept

LEMMA OwnersAreUsers ==
  /\ \A a \in Agents : Owner[a] \in Users /\ Owner[a] # None
  /\ MaxTries \in Nat \ {0}
BY BrowserAssumption DEF Tab!PollsAssumption

LEMMA TabInit == Tab!Init => TabInv
<1> SUFFICES ASSUME Tab!Init PROVE TabInv
  OBVIOUS
<1>1. Tab!NoTries \in [Agents -> 0 .. MaxTries] /\ Tab!NoTries \in [Agents -> Nat]
  BY OwnersAreUsers DEF Tab!NoTries
<1>2. TabTyped
  BY <1>1 DEF Tab!Init, TabTyped, Tab!TypeOK, Attempted, Tab!NoTick, Tab!NoHydrate
<1>3. Tab!Inherited /\ Tab!TimerRuns
  BY DEF Tab!Init, Tab!Inherited, Tab!TimerRuns, Tab!NoHydrate
<1>4. AttemptsKept
  BY OwnersAreUsers DEF Tab!Init, AttemptsKept, Kept, Tab!NoTries
<1> QED
  BY <1>2, <1>3, <1>4 DEF TabInv

(* The server, and the calls of a tick.                                    *)
LEMMA TabServer ==
  ASSUME TabInv, NEW a \in Agents,
         Tab!Submit(a) \/ Tab!Settle(a) \/ (\E f \in BOOLEAN : Tab!Call(a, f)) \/ Tab!CallLost(a)
  PROVE  TabInv'
<1>1. UNCHANGED <<session, user, pending, tries, polling, storage, hydrate, notices, polls, strays>>
  BY DEF Tab!Submit, Tab!Settle, Tab!Call, Tab!CallLost, Tab!server, Tab!refs, Tab!ghosts
<1>2. status' \in [Agents -> {"none", "pending", "registered", "failed"}]
  <2>1. status \in [Agents -> {"none", "pending", "registered", "failed"}]
    BY DEF TabInv, TabTyped, Tab!TypeOK
  <2> QED
    BY <2>1 DEF Tab!Submit, Tab!Settle, Tab!Call, Tab!CallLost, Tab!server
<1>3. /\ tick' \in [on : BOOLEAN, left : SUBSET Agents, done : SUBSET Agents, failed : SUBSET Agents]
      /\ tick'.left \cap (tick'.done \cup tick'.failed) = {}
  <2>1. /\ tick \in [on : BOOLEAN, left : SUBSET Agents, done : SUBSET Agents, failed : SUBSET Agents]
        /\ tick.left \cap (tick.done \cup tick.failed) = {}
    BY DEF TabInv, TabTyped, Tab!TypeOK
  <2>2. \/ tick' = tick
        \/ \E S, T \in SUBSET {a} : tick' =
             [tick EXCEPT !.left = @ \ {a}, !.done = @ \cup S, !.failed = @ \cup T]
    <3>1. CASE Tab!Submit(a) \/ Tab!Settle(a)
      BY <3>1 DEF Tab!Submit, Tab!Settle
    <3>2. CASE Tab!CallLost(a)
      <4>1. tick' = [tick EXCEPT !.left = @ \ {a}, !.done = @ \cup {}, !.failed = @ \cup {}]
        BY <2>1, <3>2 DEF Tab!CallLost
      <4> QED
        BY <4>1
    <3>3. ASSUME NEW f \in BOOLEAN, Tab!Call(a, f)
          PROVE  \E S, T \in SUBSET {a} : tick' =
                   [tick EXCEPT !.left = @ \ {a}, !.done = @ \cup S, !.failed = @ \cup T]
      <4>1. PICK c : tick' = [tick EXCEPT !.left = @ \ {a},
                                !.done = IF c = "registered" THEN @ \cup {a} ELSE @,
                                !.failed = IF c = "error" THEN @ \cup {a} ELSE @]
        BY <3>3 DEF Tab!Call
      <4>2. tick' = [tick EXCEPT !.left = @ \ {a},
                       !.done = @ \cup (IF c = "registered" THEN {a} ELSE {}),
                       !.failed = @ \cup (IF c = "error" THEN {a} ELSE {})]
        BY <2>1, <4>1
      <4> QED
        BY <4>2
    <3> QED
      BY <3>1, <3>2, <3>3
  <2> QED
    BY <2>1, <2>2
<1> QED
  BY <1>1, <1>2, <1>3 DEF TabInv, TabTyped, Tab!TypeOK, Tab!Inherited, Tab!TimerRuns,
     AttemptsKept, Kept

(* What is saved is saved for the user of the session, if there is one.    *)
LEMMA Saves ==
  ASSUME TabInv, NEW ids \in SUBSET Agents
  PROVE  /\ Tab!SavePending(ids) \in [Users -> Attempted]
         /\ \A u \in Users : Tab!SavePending(ids)[u] =
              IF u = user THEN [storage[u] EXCEPT !.ids = ids] ELSE storage[u]
<1>1. storage \in [Users -> Attempted] /\ (user = None \/ user \in Users) /\ None \notin Users
  BY BrowserAssumption DEF Tab!PollsAssumption, TabInv, TabTyped, Tab!TypeOK
<1> QED
  BY <1>1 DEF Tab!SavePending, Attempted

(* Agents that were submitted, or the server reports, are added.           *)
LEMMA TabAdds ==
  ASSUME TabInv, NEW S \in SUBSET Agents, pending' = pending \cup S, polling' = TRUE,
         storage' = Tab!SavePending(pending'), strays' = strays \cup Tab!Foreign(S, user),
         hydrate' = hydrate \/ hydrate' = Tab!NoHydrate,
         UNCHANGED <<session, user, status, tries, tick, notices, polls>>
  PROVE  TabInv'
<1>0. /\ strays \subseteq strays' /\ strays' \subseteq Agents
      /\ \A a \in S : Owner[a] = user \/ a \in strays'
  BY DEF TabInv, TabTyped, Tab!TypeOK, Tab!Foreign
<1>1. /\ storage' \in [Users -> Attempted] /\ pending' \subseteq Agents
      /\ \A u \in Users :
           storage'[u] = IF u = user THEN [storage[u] EXCEPT !.ids = pending'] ELSE storage[u]
  <2>1. pending' \in SUBSET Agents /\ tries \in [Agents -> 0 .. MaxTries]
    BY DEF TabInv, TabTyped, Tab!TypeOK
  <2> QED
    BY <2>1, Saves
<1>2. \A u \in Users : storage[u] \in Attempted
  BY DEF TabInv, TabTyped
<1>3. TabTyped'
  <2>1. CASE hydrate' = hydrate
    BY <1>0, <1>1, <2>1 DEF TabInv, TabTyped, Tab!TypeOK
  <2>2. CASE hydrate' = Tab!NoHydrate
    <3>1. hydrate' \in [pc : {"none", "sent", "read"}, ids : SUBSET Agents] /\ hydrate'.pc = "none"
      BY <2>2 DEF Tab!NoHydrate
    <3> QED
      BY <1>0, <1>1, <3>1 DEF TabInv, TabTyped, Tab!TypeOK
  <2> QED
    BY <2>1, <2>2
<1>4. \A a \in pending' \ strays' : Owner[a] = user'
  BY <1>0 DEF TabInv, Tab!Inherited
<1>5. Tab!Inherited'
  <2>1. ASSUME NEW u \in Users, NEW a \in storage'[u].ids \ strays'
        PROVE  Owner[a] = u
    <3>1. CASE u = user
      BY <1>1, <1>2, <1>4, <2>1, <3>1 DEF Attempted
    <3>2. CASE u # user
      BY <1>0, <1>1, <2>1, <3>2 DEF TabInv, Tab!Inherited
    <3> QED
      BY <3>1, <3>2
  <2> QED
    BY <1>4, <2>1 DEF Tab!Inherited
<1>6. AttemptsKept'
  BY <1>0, <1>1, <1>2 DEF TabInv, AttemptsKept, Kept, Attempted
<1> QED
  BY <1>3, <1>5, <1>6 DEF TabInv, Tab!TimerRuns

LEMMA TabAnswers ==
  ASSUME TabInv, (\E a \in Agents : Tab!AddPendingAgent(a)) \/ Tab!HydrateAnswer
  PROVE  TabInv'
<1>1. ASSUME NEW a \in Agents, Tab!AddPendingAgent(a)
      PROVE  TabInv'
  <2>1. PICK S : S = {a}
    OBVIOUS
  <2> QED
    BY <1>1, <2>1, TabAdds DEF Tab!AddPendingAgent, Tab!ghosts
<1>2. CASE Tab!HydrateAnswer /\ hydrate.ids = {}
  <2>1. strays' = strays
    BY <1>2 DEF Tab!HydrateAnswer, Tab!Foreign
  <2> QED
    BY <1>2, <2>1 DEF Tab!HydrateAnswer, Tab!NoHydrate, Tab!server, Tab!ghosts, TabInv, TabTyped,
       Tab!TypeOK, Tab!Inherited, Tab!TimerRuns, AttemptsKept, Kept
<1>3. CASE Tab!HydrateAnswer /\ hydrate.ids # {}
  <2>1. hydrate.ids \in SUBSET Agents
    BY <1>3 DEF TabInv, TabTyped
  <2> QED
    BY <1>3, <2>1, TabAdds DEF Tab!HydrateAnswer, Tab!server, Tab!ghosts
<1> QED
  BY <1>1, <1>2, <1>3

(* A tick gives up or polls what is waited for, and settles it.            *)
LEMMA TabTicks ==
  ASSUME TabInv, pending' \subseteq pending,
         tries' \in [Agents -> 0 .. MaxTries], storage' = Tab!SaveBoth(pending', tries'),
         polls' \in [Agents -> Nat], notices' \in [Agents -> SUBSET Tab!Kinds],
         \A a \in Agents : /\ polls[a] <= tries[a] => polls'[a] <= tries'[a]
                           /\ a \notin pending => polls'[a] <= polls[a],
         tick' \in [on : BOOLEAN, left : SUBSET Agents, done : SUBSET Agents, failed : SUBSET Agents],
         tick'.left \cap (tick'.done \cup tick'.failed) = {},
         UNCHANGED <<session, user, status, polling, hydrate, strays>>
  PROVE  TabInv'
<1>1. /\ user = None \/ user \in Users
      /\ None \notin Users /\ pending \subseteq Agents /\ tries \in [Agents -> 0 .. MaxTries]
      /\ storage \in [Users -> Attempted] /\ polls \in [Agents -> Nat]
  BY BrowserAssumption DEF Tab!PollsAssumption, TabInv, TabTyped, Tab!TypeOK
<1>2. /\ storage' \in [Users -> Attempted] /\ pending' \subseteq Agents
      /\ \A u \in Users :
           storage'[u] = IF u = user THEN [ids |-> pending', tries |-> tries'] ELSE storage[u]
  <2>1. pending' \in SUBSET Agents
    BY <1>1
  <2>2. /\ Tab!SaveBoth(pending', tries') \in [Users -> Attempted]
        /\ \A u \in Users : Tab!SaveBoth(pending', tries')[u] =
             IF u = user THEN [ids |-> pending', tries |-> tries'] ELSE storage[u]
    BY <1>1, <2>1 DEF Tab!SaveBoth, Attempted
  <2> QED
    BY <2>1, <2>2
<1>3. TabTyped'
  BY <1>1, <1>2 DEF TabInv, TabTyped, Tab!TypeOK
<1>4. Tab!TimerRuns'
  BY DEF TabInv, Tab!TimerRuns
<1>5. Tab!Inherited'
  BY <1>1, <1>2 DEF TabInv, Tab!Inherited, Attempted
<1>6. ASSUME NEW a \in Agents \ strays, Owner[a] = user
      PROVE  polls'[a] <= tries'[a]
  BY <1>6 DEF TabInv, AttemptsKept, Kept
<1>7. ASSUME NEW u \in Users, u # user, NEW a \in Agents \ strays, Owner[a] = u
      PROVE  polls'[a] <= storage'[u].tries[a]
  <2>1. polls[a] <= storage[u].tries[a]
    BY <1>7 DEF TabInv, AttemptsKept, Kept
  <2>2. a \notin pending
    BY <1>7 DEF TabInv, Tab!Inherited
  <2>3. /\ polls[a] \in Nat /\ polls'[a] \in Nat /\ storage[u].tries[a] \in Nat
        /\ storage'[u] = storage[u]
    BY <1>1, <1>2, <1>7, OwnersAreUsers DEF Attempted
  <2>4. polls'[a] <= polls[a]
    BY <2>2
  <2> QED
    BY <2>1, <2>3, <2>4
<1>8. AttemptsKept'
  <2>1. ASSUME NEW u \in Users
        PROVE  Kept(u, storage[u].tries, Agents \ strays)'
    <3>1. CASE u = user
      <4>1. storage'[u].tries = tries'
        BY <1>2, <3>1
      <4> QED
        BY <1>6, <3>1, <4>1 DEF Kept
    <3>2. CASE u # user
      BY <1>7, <3>2 DEF Kept
    <3> QED
      BY <3>1, <3>2
  <2> QED
    BY <1>6, <2>1 DEF AttemptsKept, Kept
<1> QED
  BY <1>3, <1>4, <1>5, <1>8 DEF TabInv

LEMMA TabTickSteps ==
  ASSUME TabInv, Tab!TickStops \/ Tab!TickStarts \/ Tab!TickEnds PROVE TabInv'
<1>1. /\ pending \subseteq Agents /\ tries \in [Agents -> 0 .. MaxTries]
      /\ polls \in [Agents -> Nat] /\ notices \in [Agents -> SUBSET Tab!Kinds]
      /\ tick \in [on : BOOLEAN, left : SUBSET Agents, done : SUBSET Agents, failed : SUBSET Agents]
      /\ MaxTries \in Nat \ {0}
  BY OwnersAreUsers DEF TabInv, TabTyped, Tab!TypeOK
<1>2. CASE Tab!TickStops
  BY <1>2 DEF Tab!TickStops, Tab!server, Tab!ghosts, TabInv, TabTyped, Tab!TypeOK,
     Tab!Inherited, Tab!TimerRuns, AttemptsKept, Kept
<1>3. CASE Tab!TickStarts
  <2> DEFINE counted == [a \in Agents |-> IF a \in pending THEN tries[a] + 1 ELSE tries[a]]
             gone == {a \in pending : counted[a] > MaxTries}
             asked == pending \ gone
  <2>1. /\ pending' = asked /\ tries' = Tab!Without(counted, gone)
        /\ tick' = [Tab!NoTick EXCEPT !.on = TRUE, !.left = asked]
        /\ storage' = Tab!SaveBoth(pending', tries') /\ notices' = Tab!Tell(gone, "timedOut")
        /\ polls' = [a \in Agents |-> IF a \in gone THEN 0
                                      ELSE polls[a] + (IF a \in asked THEN 1 ELSE 0)]
        /\ UNCHANGED <<session, user, status, polling, hydrate, strays>>
    BY <1>3 DEF Tab!TickStarts, Tab!server
  <2>2. counted \in [Agents -> Nat] /\ \A a \in Agents \ gone : counted[a] <= MaxTries
    BY <1>1
  <2>3. tries' \in [Agents -> 0 .. MaxTries]
    BY <1>1, <2>1, <2>2 DEF Tab!Without
  <2>4. polls' \in [Agents -> Nat]
    BY <1>1, <2>1
  <2>5. notices' \in [Agents -> SUBSET Tab!Kinds]
    BY <1>1, <2>1 DEF Tab!Tell, Tab!Kinds
  <2>6. ASSUME NEW a \in Agents
        PROVE  /\ polls[a] <= tries[a] => polls'[a] <= tries'[a]
               /\ a \notin pending => polls'[a] <= polls[a]
    <3>1. polls[a] \in Nat /\ tries[a] \in Nat
      BY <1>1
    <3>2. tries'[a] = IF a \in gone THEN 0 ELSE IF a \in pending THEN tries[a] + 1 ELSE tries[a]
      BY <2>1 DEF Tab!Without
    <3>3. polls'[a] = IF a \in gone THEN 0 ELSE polls[a] + (IF a \in pending THEN 1 ELSE 0)
      BY <2>1
    <3> HIDE DEF gone
    <3> QED
      BY <3>1, <3>2, <3>3
  <2>7. /\ tick' \in [on : BOOLEAN, left : SUBSET Agents, done : SUBSET Agents, failed : SUBSET Agents]
        /\ tick'.left \cap (tick'.done \cup tick'.failed) = {}
    BY <1>1, <2>1 DEF Tab!NoTick
  <2>8. pending' \subseteq pending
    BY <2>1
  <2> QED
    BY <2>1, <2>3, <2>4, <2>5, <2>6, <2>7, <2>8, TabTicks
<1>4. CASE Tab!TickEnds /\ tick.done \cup tick.failed = {}
  BY <1>1, <1>4 DEF Tab!TickEnds, Tab!server, Tab!NoTick, TabInv, TabTyped, Tab!TypeOK,
     Tab!Inherited, Tab!TimerRuns, AttemptsKept, Kept
<1>5. CASE Tab!TickEnds /\ tick.done \cup tick.failed # {}
  <2> DEFINE answered == tick.done \cup tick.failed
  <2>1. /\ pending' = pending \ answered /\ tries' = Tab!Without(tries, answered)
        /\ storage' = Tab!SaveBoth(pending', tries') /\ tick' = Tab!NoTick
        /\ notices' = [a \in Agents |->
             Tab!Tell(tick.done, "registered")[a] \cup Tab!Tell(tick.failed, "error")[a]]
        /\ polls' = Tab!Without(polls, answered)
        /\ UNCHANGED <<session, user, status, polling, hydrate, strays>>
    BY <1>5 DEF Tab!TickEnds, Tab!server, Tab!Remaining
  <2>2. tries' \in [Agents -> 0 .. MaxTries] /\ polls' \in [Agents -> Nat]
    BY <1>1, <2>1 DEF Tab!Without
  <2>3. notices' \in [Agents -> SUBSET Tab!Kinds]
    BY <1>1, <2>1 DEF Tab!Tell, Tab!Kinds
  <2>4. ASSUME NEW a \in Agents
        PROVE  /\ polls[a] <= tries[a] => polls'[a] <= tries'[a]
               /\ a \notin pending => polls'[a] <= polls[a]
    <3>1. polls[a] \in Nat
      BY <1>1
    <3>2. /\ tries'[a] = IF a \in answered THEN 0 ELSE tries[a]
          /\ polls'[a] = IF a \in answered THEN 0 ELSE polls[a]
      BY <2>1 DEF Tab!Without
    <3> QED
      BY <3>1, <3>2
  <2>5. /\ tick' \in [on : BOOLEAN, left : SUBSET Agents, done : SUBSET Agents, failed : SUBSET Agents]
        /\ tick'.left \cap (tick'.done \cup tick'.failed) = {}
    BY <2>1 DEF Tab!NoTick
  <2>6. pending' \subseteq pending
    BY <2>1
  <2> QED
    BY <2>1, <2>2, <2>3, <2>4, <2>5, <2>6, TabTicks
<1> QED
  BY <1>2, <1>3, <1>4, <1>5

(* A user is shown: what was stored of this user counts, and whose is not  *)
(* this user's of what the list had is a stray.                            *)
LEMMA TabHydrated ==
  ASSUME TabInv, NEW u \in Users, NEW ids \in SUBSET Agents, NEW n \in [Agents -> 0 .. MaxTries],
         Tab!Hydrated(u, ids, n), user' = u, \A a \in ids \ strays' : Owner[a] = u,
         strays \subseteq strays', strays' \subseteq Agents,
         UNCHANGED <<session, status, notices, polls, tick>>
  PROVE  TabInv'
<1>1. /\ storage \in [Users -> Attempted] /\ polls \in [Agents -> Nat] /\ MaxTries \in Nat
      /\ storage[u] \in Attempted /\ storage[u].ids \subseteq Agents
      /\ storage[u].tries \in [Agents -> 0 .. MaxTries]
  BY OwnersAreUsers DEF TabInv, TabTyped, Attempted
<1>2. /\ pending' = ids \cup storage[u].ids /\ pending' \subseteq Agents
      /\ tries' = [a \in Agents |-> IF storage[u].tries[a] > 0 THEN storage[u].tries[a] ELSE n[a]]
      /\ storage' = [storage EXCEPT ![u].ids = pending'] /\ polling' = (pending' # {})
      /\ hydrate' = [Tab!NoHydrate EXCEPT !.pc = "sent"]
  BY <1>1 DEF Tab!Hydrated, Tab!Starts
<1>3. /\ storage' \in [Users -> Attempted]
      /\ \A v \in Users : /\ storage'[v].tries = storage[v].tries
                          /\ storage'[v].ids = IF v = u THEN pending' ELSE storage[v].ids
  BY <1>1, <1>2 DEF Attempted
<1>4. tries' \in [Agents -> 0 .. MaxTries]
  BY <1>1, <1>2
<1>5. /\ hydrate' \in [pc : {"none", "sent", "read"}, ids : SUBSET Agents] /\ hydrate'.pc = "sent"
  BY <1>2 DEF Tab!NoHydrate
<1>6. /\ tick' \in [on : BOOLEAN, left : SUBSET Agents, done : SUBSET Agents, failed : SUBSET Agents]
      /\ tick'.left \cap (tick'.done \cup tick'.failed) = {}
  BY DEF TabInv, TabTyped, Tab!TypeOK
<1>7. u # None
  BY BrowserAssumption DEF Tab!PollsAssumption
<1>8. TabTyped'
  <2>1. polling' \in BOOLEAN /\ notices' \in [Agents -> SUBSET Tab!Kinds] /\ polls' \in [Agents -> Nat]
        /\ status' \in [Agents -> {"none", "pending", "registered", "failed"}]
        /\ session' \in Users \cup {None}
    BY <1>2 DEF TabInv, TabTyped, Tab!TypeOK
  <2> QED
    BY <1>2, <1>3, <1>4, <1>5, <1>6, <1>7, <2>1 DEF TabTyped, Tab!TypeOK
<1>9. Tab!Inherited'
  BY <1>2, <1>3 DEF TabInv, Tab!Inherited
<1>10. Tab!TimerRuns'
  BY <1>2, <1>5 DEF Tab!TimerRuns
<1>11. \A v \in Users : Kept(v, storage[v].tries, Agents \ strays)'
  BY <1>3 DEF TabInv, AttemptsKept, Kept
<1>12. ASSUME NEW a \in Agents \ strays, Owner[a] = u
       PROVE  polls[a] <= tries'[a]
  <2>1. polls[a] <= storage[u].tries[a]
    BY <1>12 DEF TabInv, AttemptsKept, Kept
  <2>2. polls[a] \in Nat /\ storage[u].tries[a] \in Nat /\ n[a] \in Nat
    BY <1>1
  <2>3. tries'[a] = IF storage[u].tries[a] > 0 THEN storage[u].tries[a] ELSE n[a]
    BY <1>2
  <2> QED
    BY <2>1, <2>2, <2>3
<1>13. AttemptsKept'
  BY <1>11, <1>12 DEF AttemptsKept, Kept
<1> QED
  BY <1>8, <1>9, <1>10, <1>13 DEF TabInv

LEMMA TabSessions ==
  ASSUME TabInv,
         \/ \E u \in Users \cup {None} : Tab!SessionChanges(u)
         \/ Tab!SessionShown \/ Tab!Reload \/ Tab!HydrateRead \/ Tab!HydrateLost
  PROVE  TabInv'
<1>1. /\ session = None \/ session \in Users
      /\ pending \in SUBSET Agents /\ tries \in [Agents -> 0 .. MaxTries] /\ strays \subseteq Agents
      /\ \A a \in pending \ strays : Owner[a] = user
  BY DEF TabInv, TabTyped, Tab!TypeOK, Tab!Inherited
<1>2. /\ Tab!NoTries \in [Agents -> 0 .. MaxTries]
      /\ Tab!NoHydrate \in [pc : {"none", "sent", "read"}, ids : SUBSET Agents]
      /\ Tab!NoHydrate.pc = "none"
      /\ Tab!NoTick \in [on : BOOLEAN, left : SUBSET Agents, done : SUBSET Agents, failed : SUBSET Agents]
      /\ Tab!NoTick.left \cap (Tab!NoTick.done \cup Tab!NoTick.failed) = {}
  BY OwnersAreUsers DEF Tab!NoTries, Tab!NoHydrate, Tab!NoTick
<1>3. CASE Tab!SessionShown /\ session # None
  <2>1. /\ Tab!Hydrated(session, pending, tries) /\ user' = session
        /\ strays' = strays \cup IF user = None THEN {} ELSE Tab!Foreign(pending, session)
        /\ UNCHANGED <<session, status, notices, polls, tick>>
    BY <1>3 DEF Tab!SessionShown, Tab!server, Tab!ghosts
  <2>2. strays \subseteq strays' /\ strays' \subseteq Agents
    BY <1>1, <2>1 DEF Tab!Foreign
  <2>3. \A a \in pending \ strays' : Owner[a] = session
    BY <1>1, <2>1, OwnersAreUsers DEF Tab!Foreign
  <2> QED
    BY <1>1, <1>3, <2>1, <2>2, <2>3, TabHydrated
<1>4. CASE Tab!SessionShown /\ session = None
  <2>1. /\ user' = None /\ pending' = {} /\ polling' = FALSE /\ hydrate' = Tab!NoHydrate
        /\ UNCHANGED <<session, status, tries, storage, tick, notices, polls, strays>>
    BY <1>4 DEF Tab!SessionShown, Tab!Cleared, Tab!server, Tab!ghosts
  <2>2. TabTyped'
    BY <1>2, <2>1 DEF TabInv, TabTyped, Tab!TypeOK
  <2>3. Tab!Inherited' /\ Tab!TimerRuns'
    BY <2>1 DEF TabInv, Tab!Inherited, Tab!TimerRuns
  <2>4. AttemptsKept'
    BY <2>1, OwnersAreUsers DEF TabInv, AttemptsKept, Kept
  <2> QED
    BY <2>2, <2>3, <2>4 DEF TabInv
<1>5. CASE Tab!Reload
  <2>1. /\ user' = None /\ pending' = {} /\ tries' = Tab!NoTries /\ polling' = FALSE
        /\ hydrate' = Tab!NoHydrate /\ tick' = Tab!NoTick
        /\ UNCHANGED <<session, status, storage, notices, polls, strays>>
    BY <1>5 DEF Tab!Reload, Tab!ghosts
  <2>2. TabTyped'
    BY <1>2, <2>1 DEF TabInv, TabTyped, Tab!TypeOK
  <2>3. Tab!Inherited' /\ Tab!TimerRuns'
    BY <2>1 DEF TabInv, Tab!Inherited, Tab!TimerRuns
  <2>4. AttemptsKept'
    BY <2>1, OwnersAreUsers DEF TabInv, AttemptsKept, Kept
  <2> QED
    BY <2>2, <2>3, <2>4 DEF TabInv
<1>6. CASE Tab!HydrateRead \/ Tab!HydrateLost
  <2>1. UNCHANGED <<session, user, status, pending, tries, polling, storage, tick, notices,
                    polls, strays>>
    BY <1>6 DEF Tab!HydrateRead, Tab!HydrateLost, Tab!server, Tab!refs, Tab!ghosts
  <2>2. /\ hydrate' \in [pc : {"none", "sent", "read"}, ids : SUBSET Agents]
        /\ hydrate.pc # "none"
    BY <1>6 DEF Tab!HydrateRead, Tab!HydrateLost, Tab!NoHydrate
  <2> QED
    BY <2>1, <2>2 DEF TabInv, TabTyped, Tab!TypeOK, Tab!Inherited, Tab!TimerRuns,
       AttemptsKept, Kept
<1>7. CASE \E u \in Users \cup {None} : Tab!SessionChanges(u)
  BY <1>7 DEF Tab!SessionChanges, Tab!refs, Tab!ghosts, TabInv, TabTyped, Tab!TypeOK,
     Tab!Inherited, Tab!TimerRuns, AttemptsKept, Kept
<1> QED
  BY <1>3, <1>4, <1>5, <1>6, <1>7

(* However sessions change, are shown late or not at all, and whatever     *)
(* ticks and answers come in which order: nobody waits for another user's  *)
(* agent unless it came while its owner was not shown, or was inherited of *)
(* a user who was replaced without a sign-out; the timer runs while there  *)
(* is something to wait for, and the attempts of an agent are not started  *)
(* again.                                                                  *)
THEOREM TabWaits == Tab!Spec => []TabInvariant
<1>1. TabInv /\ [Tab!Next]_Tab!vars => TabInv'
  <2> SUFFICES ASSUME TabInv, [Tab!Next]_Tab!vars PROVE TabInv'
    OBVIOUS
  <2>1. CASE UNCHANGED Tab!vars
    BY <2>1 DEF Tab!vars, Tab!server, Tab!refs, Tab!ghosts, TabInv, TabTyped, Tab!TypeOK,
       Tab!Inherited, Tab!TimerRuns, AttemptsKept, Kept
  <2> QED
    BY <2>1, TabServer, TabAnswers, TabTickSteps, TabSessions DEF Tab!Next
<1>2. TabInv => TabInvariant
  <2> SUFFICES ASSUME TabInv PROVE Tab!BudgetKept
    BY DEF TabInvariant, Tab!PollsInvariant, TabInv, TabTyped
  <2> SUFFICES ASSUME NEW a \in Agents \ strays PROVE polls[a] <= MaxTries
    BY DEF Tab!BudgetKept
  <2>1. polls[a] \in Nat /\ storage[Owner[a]].tries[a] \in 0 .. MaxTries
    BY OwnersAreUsers DEF TabInv, TabTyped, Attempted
  <2>2. polls[a] <= storage[Owner[a]].tries[a]
    BY OwnersAreUsers DEF TabInv, AttemptsKept, Kept
  <2> QED
    BY <2>1, <2>2, OwnersAreUsers
<1> QED
  BY <1>1, <1>2, TabInit, PTL DEF Tab!Spec

------------------------------------------------------------------------------
(* The badge.  Rows, of transactions that exist, one of each.              *)
Visible == Badge!Transactions \ Hidden
BadgeRows == [id : Badge!Transactions, created : Nat, changed : Nat]
GoodRow(r) ==
  /\ 0 < r.created /\ r.created = created[r.id] /\ r.created <= r.changed
  /\ r.changed <= changed[r.id]
RowsOfNow(S) ==
  /\ S \subseteq BadgeRows /\ (\A r \in S : GoodRow(r))
  /\ \A r, q \in S : r.id = q.id => r = q

BadgeTyped ==
  /\ now \in 1 .. MaxTime /\ {lastUpdate, lastVisit, base} \subseteq 0 .. now
  /\ created \in [Badge!Transactions -> Nat] /\ changed \in [Badge!Transactions -> Nat]
  /\ \A t \in Badge!Transactions : created[t] <= changed[t] /\ changed[t] <= now
  /\ \A t \in Badge!Transactions : created[t] = 0 => changed[t] = 0
  /\ poll \in [pc : {"idle", "lists"}, since : 0 .. now, left : SUBSET Badge!Lists,
               rows : SUBSET BadgeRows, own : BOOLEAN]
  /\ data \in [rows : SUBSET BadgeRows, last : 0 .. now]
  /\ seen \subseteq Visible /\ counting \in BOOLEAN /\ count \in Nat /\ dashboards \in Nat
  /\ delivered \in [Badge!Transactions -> Nat]

(* Rows of lists that have not answered yet are not there; those that are, *)
(* are newer than what was asked for.                                      *)
PollRows ==
  /\ RowsOfNow(poll.rows)
  /\ \A r \in poll.rows, list \in poll.left : r.id \notin list
  /\ \A r \in poll.rows : poll.since # 0 => poll.since < r.changed
DataRows ==
  /\ RowsOfNow(data.rows) /\ \A r \in data.rows : r.id \notin Hidden
  /\ \A r \in data.rows : r.changed <= data.last \/ data.last = 0

(* What is counted: once for each earlier hook, once if this one has.      *)
NewSince == {t \in Visible : created[t] > lastVisit}
Counts ==
  /\ count <= dashboards * Cardinality(NewSince) + Cardinality(seen \cap NewSince)
  /\ ~counting => seen = {}

(* The watermark is that of the hook's own answers.                        *)
Watermarks ==
  /\ base <= lastUpdate /\ (base = 0 => lastUpdate = 0)
  /\ ~poll.own => base = 0
  /\ poll.pc = "lists" /\ poll.own => poll.since = lastUpdate

(* With one list: what changed after the last answer and not after the     *)
(* answer under way is in it.                                              *)
Answered ==
  \A t \in Visible, r \in poll.rows :
    poll.since < changed[t] /\ changed[t] <= r.changed /\ r.id \notin Hidden /\ poll.since # 0
      => \E q \in poll.rows : q.id = t /\ q.changed = changed[t]
OneListKept == Badge!OneListed => Answered /\ Badge!NothingSkipped

BadgeInv == BadgeTyped /\ PollRows /\ DataRows /\ Counts /\ Watermarks /\ OneListKept

LEMMA TransactionsFinite ==
  /\ IsFiniteSet(Badge!Transactions) /\ IsFiniteSet(Visible)
  /\ Payments \cap Purchases = {}
  /\ MaxTime \in Nat \ {0} /\ Limit \in Nat \ {0}
<1>1. IsFiniteSet(Badge!Transactions)
  BY BrowserAssumption DEF Badge!BadgeAssumption, Badge!Transactions, Badge!IsFiniteSet,
     IsFiniteSet
<1> QED
  BY <1>1, FS_Subset, BrowserAssumption DEF Badge!BadgeAssumption, Visible

(* Least and greatest numbers.                                             *)
LEMMA Least ==
  ASSUME NEW S \in SUBSET Nat, S # {}
  PROVE  \E m \in S : \A x \in S : m <= x
<1>1. PICK m \in S : \A x \in S : <<x, m>> \notin OpToRel(<, Nat)
  BY WFMin, NatLessThanWellFounded
<1>2. ASSUME NEW x \in S, x < m PROVE FALSE
  <2>1. x \in Nat /\ m \in Nat
    BY <1>1
  <2>2. <<x, m>> \in OpToRel(<, Nat)
    BY <1>2, <2>1 DEF OpToRel
  <2> QED
    BY <1>1, <2>2
<1>3. ASSUME NEW x \in S PROVE m <= x
  <2>1. x \in Nat /\ m \in Nat
    BY <1>1
  <2>2. ~(x < m)
    BY <1>2
  <2> QED
    BY <2>1, <2>2
<1> QED
  BY <1>1, <1>3

LEMMA HasMax ==
  ASSUME NEW S \in SUBSET Nat, S # {}, NEW n \in Nat, \A x \in S : x <= n
  PROVE  Badge!Max(S) \in S /\ \A x \in S : x <= Badge!Max(S)
<1> DEFINE T == {n - x : x \in S}
<1>1. ASSUME NEW x \in S PROVE x \in Nat /\ n - x \in Nat
  <2>1. x \in Nat /\ x <= n
    OBVIOUS
  <2> QED
    BY <2>1
<1>2. T \in SUBSET Nat
  BY <1>1
<1>3. T # {}
  OBVIOUS
<1>4. PICK y \in T : \A z \in T : y <= z
  <2> HIDE DEF T
  <2> QED
    BY <1>2, <1>3, Least
<1>5. PICK m \in S : y = n - m
  BY <1>4
<1>6. ASSUME NEW x \in S PROVE m >= x
  <2>1. n - m <= n - x
    BY <1>4, <1>5
  <2>2. m \in Nat /\ x \in Nat
    BY <1>1, <1>5
  <2> QED
    BY <2>1, <2>2
<1>7. Badge!Max(S) \in S /\ \A x \in S : Badge!Max(S) >= x
  BY <1>5, <1>6 DEF Badge!Max
<1>8. ASSUME NEW x \in S PROVE x <= Badge!Max(S)
  BY <1>1, <1>7
<1> QED
  BY <1>7, <1>8

(* As many rows as transactions, when there is one of each.                *)
LEMMA AsManyRows ==
  ASSUME NEW S, NEW T, IsFiniteSet(T), \A r \in S : r.id \in T,
         \A r, q \in S : r.id = q.id => r = q
  PROVE  Cardinality(S) \in Nat /\ Cardinality(S) <= Cardinality(T)
<1> DEFINE f == [r \in S |-> r.id]
<1>1. f \in Injection(S, T)
  BY DEF Injection, IsInjective
<1>2. IsFiniteSet(S) /\ Cardinality(S) <= Cardinality(T)
  BY <1>1, FS_Injection
<1> QED
  BY <1>2, FS_CardinalityType

LEMMA MoreTimes ==
  ASSUME NEW d \in Nat, NEW a \in Nat, NEW b \in Nat, a <= b
  PROVE  d * a \in Nat /\ d * a <= d * b /\ (d + 1) * a = d * a + a
<1>1. PICK c \in Nat : b = a + c
  <2>1. b - a \in Nat /\ b = a + (b - a)
    OBVIOUS
  <2> QED
    BY <2>1
<1>2. d * b = d * a + d * c /\ d * c \in Nat /\ d * a \in Nat
  BY <1>1
<1> QED
  BY <1>2

LEMMA DisjointUnion ==
  ASSUME NEW S, NEW T, IsFiniteSet(S), IsFiniteSet(T), S \cap T = {}
  PROVE  Cardinality(S \cup T) = Cardinality(S) + Cardinality(T)
<1>1. Cardinality(S) \in Nat /\ Cardinality(T) \in Nat /\ Cardinality({}) = 0
  BY FS_CardinalityType, FS_EmptySet
<1>2. Cardinality(S \cup T) = Cardinality(S) + Cardinality(T) - Cardinality({})
  BY FS_Union
<1> QED
  BY <1>1, <1>2

LEMMA NewFinite ==
  ASSUME NEW S \in SUBSET Visible
  PROVE  IsFiniteSet(S) /\ Cardinality(S) \in Nat
BY TransactionsFinite, FS_Subset, FS_CardinalityType

(* The badge at first.                                                     *)
LEMMA BadgeInit == Badge!Init => BadgeInv
<1> SUFFICES ASSUME Badge!Init PROVE BadgeInv
  OBVIOUS
<1>1. BadgeTyped
  <2>1. /\ poll \in [pc : {"idle", "lists"}, since : 0 .. now, left : SUBSET Badge!Lists,
                     rows : SUBSET BadgeRows, own : BOOLEAN]
        /\ data \in [rows : SUBSET BadgeRows, last : 0 .. now]
    BY DEF Badge!Init, Badge!NoPoll
  <2>2. /\ created \in [Badge!Transactions -> Nat] /\ changed = created
        /\ delivered \in [Badge!Transactions -> Nat]
        /\ \A t \in Badge!Transactions : created[t] = 0
    BY DEF Badge!Init
  <2>3. now \in 1 .. MaxTime /\ {lastUpdate, lastVisit, base} \subseteq 0 .. now
    BY TransactionsFinite DEF Badge!Init
  <2>4. /\ seen \subseteq Visible /\ counting \in BOOLEAN /\ count \in Nat
        /\ dashboards \in Nat
    BY DEF Badge!Init
  <2> QED
    BY <2>1, <2>2, <2>3, <2>4 DEF BadgeTyped
<1>2. PollRows /\ DataRows
  BY DEF Badge!Init, Badge!NoPoll, PollRows, DataRows, RowsOfNow
<1>3. Counts
  <2>1. Cardinality(NewSince) \in Nat /\ Cardinality(seen \cap NewSince) \in Nat
    BY NewFinite DEF NewSince
  <2>2. 0 * Cardinality(NewSince) = 0
    BY <2>1
  <2> QED
    BY <2>1, <2>2 DEF Badge!Init, Counts
<1>4. Watermarks /\ Answered /\ Badge!NothingSkipped
  BY DEF Badge!Init, Badge!NoPoll, Watermarks, Answered, Badge!NothingSkipped
<1> QED
  BY <1>1, <1>2, <1>3, <1>4 DEF BadgeInv, OneListKept

(* An answer's rows take their effect, on what the hook has counted.       *)
LEMMA EffectCounts ==
  ASSUME BadgeTyped, NEW rows, RowsOfNow(rows), \A r \in rows : r.id \in Visible,
         NEW S \in SUBSET Visible, NEW any \in BOOLEAN, ~any => S = {},
         NEW d \in Nat, count <= d * Cardinality(NewSince) + Cardinality(S \cap NewSince),
         Badge!Effect(rows, S, any), UNCHANGED <<now, created>>
  PROVE  /\ seen' \subseteq Visible /\ counting' \in BOOLEAN /\ count' \in Nat
         /\ lastVisit' \in 0 .. now /\ (~counting' => seen' = {})
         /\ count' <= d * Cardinality(NewSince') + Cardinality(seen' \cap NewSince')
<1> DEFINE K == Cardinality(NewSince)
           ids == {r.id : r \in rows}
           N == Badge!NewOnes(rows, S, any)
<1>1. K \in Nat /\ count \in Nat /\ lastVisit \in 0 .. now /\ now \in Nat
  BY NewFinite DEF NewSince, BadgeTyped
<1>2. CASE rows = {}
  BY <1>1, <1>2 DEF Badge!Effect, Badge!storage, NewSince
<1>3. CASE rows # {} /\ lastVisit = 0
  <2>1. /\ seen' = S \cup ids /\ counting' = TRUE /\ lastVisit' = now /\ count' = 0
    BY <1>3 DEF Badge!Effect
  <2>2. Cardinality(NewSince') \in Nat /\ Cardinality(seen' \cap NewSince') \in Nat
    BY NewFinite DEF NewSince
  <2>3. d * Cardinality(NewSince') \in Nat
    BY <2>2
  <2> QED
    BY <1>1, <2>1, <2>2, <2>3
<1>4. CASE rows # {} /\ lastVisit # 0
  <2>1. /\ seen' = S \cup ids /\ counting' = TRUE /\ lastVisit' = lastVisit
        /\ count' = count + Badge!Cardinality(N)
    BY <1>4 DEF Badge!Effect
  <2>2. NewSince' = NewSince
    BY <2>1 DEF NewSince
  <2> DEFINE new == (ids \ S) \cap NewSince
             old == S \cap NewSince
  <2>3. /\ IsFiniteSet(new) /\ IsFiniteSet(old) /\ Cardinality(new) \in Nat
        /\ Cardinality(old) \in Nat
    <3>1. new \subseteq Visible /\ old \subseteq Visible
      BY DEF NewSince
    <3> QED
      BY <3>1, NewFinite
  <2>4. \A r \in N : r.id \in new
    <3> SUFFICES ASSUME NEW r \in N PROVE r.id \in ids /\ r.id \notin S /\ r.id \in NewSince
      OBVIOUS
    <3>1. r \in rows /\ (any => r.id \notin S) /\ r.created > lastVisit
      BY DEF Badge!NewOnes
    <3>2. r.created = created[r.id] /\ r.id \in Visible
      BY <3>1 DEF RowsOfNow, GoodRow
    <3> QED
      BY <3>1, <3>2 DEF NewSince
  <2>5. \A r, q \in N : r.id = q.id => r = q
    BY DEF Badge!NewOnes, RowsOfNow
  <2> HIDE DEF N
  <2>6. Cardinality(N) \in Nat /\ Cardinality(N) <= Cardinality(new)
    BY <2>3, <2>4, <2>5, AsManyRows
  <2>7. Cardinality(seen' \cap NewSince) = Cardinality(old) + Cardinality(new)
    <3>1. seen' \cap NewSince = old \cup new /\ old \cap new = {}
      BY <2>1
    <3>2. Cardinality(old \cup new) = Cardinality(old) + Cardinality(new)
      BY <2>3, <3>1, DisjointUnion
    <3> QED
      BY <3>1, <3>2
  <2>8. Badge!Cardinality(N) = Cardinality(N)
    BY DEF Badge!Cardinality, Cardinality
  <2>9. d * K \in Nat
    BY <1>1
  <2> HIDE DEF K, new, old
  <2>10. count' <= d * K + Cardinality(seen' \cap NewSince) /\ count' \in Nat
    <3>1. count <= d * K + Cardinality(old)
      BY DEF K, old
    <3> QED
      BY <1>1, <2>1, <2>3, <2>6, <2>7, <2>8, <2>9, <3>1
  <2> QED
    BY <1>1, <2>1, <2>2, <2>10 DEF K
<1> QED
  BY <1>2, <1>3, <1>4

(* A transaction is created, or changes: it is newer than all that anybody *)
(* has asked for or counted.                                               *)
LEMMA NodeStep ==
  ASSUME BadgeInv, NEW t \in Badge!Transactions, Badge!NodeChanges(t) PROVE BadgeInv'
<1>1. /\ now \in Nat /\ now' = now + 1 /\ now < MaxTime
      /\ created' = [created EXCEPT ![t] = IF created[t] = 0 THEN now' ELSE created[t]]
      /\ changed' = [changed EXCEPT ![t] = now']
      /\ UNCHANGED <<poll, data, Badge!hook, Badge!storage, Badge!ghosts, dashboards>>
  BY DEF Badge!NodeChanges, Badge!bounded, BadgeInv, BadgeTyped
<1>2. /\ created \in [Badge!Transactions -> Nat] /\ changed \in [Badge!Transactions -> Nat]
      /\ \A u \in Badge!Transactions : created[u] <= changed[u] /\ changed[u] <= now
      /\ \A u \in Badge!Transactions : created[u] = 0 => changed[u] = 0
  BY DEF BadgeInv, BadgeTyped
<1>3. \A u \in Badge!Transactions :
        /\ created[u] # 0 => created'[u] = created[u]
        /\ created[u] = 0 => created'[u] \in {0, now'}
        /\ changed'[u] \in {changed[u], now'}
  BY <1>1, <1>2
<1>4. BadgeTyped'
  <2>1. /\ created' \in [Badge!Transactions -> Nat] /\ changed' \in [Badge!Transactions -> Nat]
        /\ \A u \in Badge!Transactions : created'[u] <= changed'[u] /\ changed'[u] <= now'
        /\ \A u \in Badge!Transactions : created'[u] = 0 => changed'[u] = 0
    BY <1>1, <1>2
  <2>2. now' \in 1 .. MaxTime /\ 0 .. now \subseteq 0 .. now'
    BY <1>1, TransactionsFinite
  <2>3. /\ poll' \in [pc : {"idle", "lists"}, since : 0 .. now', left : SUBSET Badge!Lists,
                      rows : SUBSET BadgeRows, own : BOOLEAN]
        /\ data' \in [rows : SUBSET BadgeRows, last : 0 .. now']
    BY <1>1, <2>2 DEF BadgeInv, BadgeTyped
  <2>4. /\ {lastUpdate', lastVisit', base'} \subseteq 0 .. now'
        /\ seen' \subseteq Visible /\ counting' \in BOOLEAN /\ count' \in Nat
        /\ dashboards' \in Nat /\ delivered' \in [Badge!Transactions -> Nat]
    BY <1>1, <2>2 DEF BadgeInv, BadgeTyped, Badge!hook, Badge!storage, Badge!ghosts
  <2> QED
    BY <2>1, <2>2, <2>3, <2>4 DEF BadgeTyped
<1>5. ASSUME NEW r \in BadgeRows, GoodRow(r) PROVE GoodRow(r)'
  <2>1. r.id \in Badge!Transactions /\ r.created \in Nat /\ r.changed \in Nat
    BY DEF BadgeRows
  <2> QED
    BY <1>1, <1>2, <1>3, <1>5, <2>1 DEF GoodRow
<1>6. PollRows' /\ DataRows'
  BY <1>1, <1>5 DEF BadgeInv, PollRows, DataRows, RowsOfNow
<1>7. Counts'
  <2>1. NewSince \subseteq NewSince' /\ NewSince' \subseteq Visible
    <3>1. lastVisit' = lastVisit /\ lastVisit \in 0 .. now
      BY <1>1 DEF BadgeInv, BadgeTyped, Badge!storage
    <3> QED
      BY <1>1, <1>2, <1>3, <3>1 DEF NewSince, Visible
  <2>2. seen' = seen /\ count' = count /\ counting' = counting /\ dashboards' = dashboards
    BY <1>1 DEF Badge!hook, Badge!storage
  <2> DEFINE K == Cardinality(NewSince)
             L == Cardinality(NewSince')
             C == Cardinality(seen \cap NewSince)
             D == Cardinality(seen' \cap NewSince')
  <2>3. K \in Nat /\ L \in Nat /\ C \in Nat /\ D \in Nat /\ K <= L /\ C <= D
    <3>1. IsFiniteSet(NewSince') /\ IsFiniteSet(seen' \cap NewSince')
      BY <2>1, NewFinite
    <3>2. seen \cap NewSince \subseteq seen' \cap NewSince'
      BY <2>1, <2>2
    <3> QED
      BY <2>1, <3>1, <3>2, FS_Subset, FS_CardinalityType
  <2>4. count <= dashboards * K + C /\ dashboards \in Nat /\ count \in Nat
    BY DEF BadgeInv, Counts, BadgeTyped
  <2> HIDE DEF K, L, C, D
  <2>5. dashboards * K \in Nat /\ dashboards * K <= dashboards * L
    BY <2>3, <2>4, MoreTimes
  <2>6. dashboards * L \in Nat
    BY <2>3, <2>4
  <2>7. count <= dashboards * L + D
    BY <2>3, <2>4, <2>5, <2>6
  <2> QED
    BY <2>2, <2>7 DEF L, D, BadgeInv, Counts
<1>8. Watermarks'
  BY <1>1 DEF BadgeInv, Watermarks, Badge!hook, Badge!ghosts
<1>9. OneListKept'
  <2> SUFFICES ASSUME Badge!OneListed' PROVE Answered' /\ Badge!NothingSkipped'
    BY DEF OneListKept
  <2>1. Badge!OneListed
    <3>1. PICK list \in Badge!Lists : \A u \in Badge!Transactions \ list : created'[u] = 0
      BY DEF Badge!OneListed
    <3>2. \A u \in Badge!Transactions \ list : created[u] = 0
      BY <1>3, <3>1
    <3> QED
      BY <3>2 DEF Badge!OneListed
  <2>2. Answered /\ Badge!NothingSkipped
    BY <2>1 DEF BadgeInv, OneListKept
  <2>3. \A r \in poll.rows : r.changed <= now /\ r.changed \in Nat
    <3>1. \A r \in poll.rows : r \in BadgeRows /\ r.changed <= changed[r.id]
      BY DEF BadgeInv, PollRows, RowsOfNow, GoodRow
    <3>2. \A r \in poll.rows : r.id \in Badge!Transactions /\ r.changed \in Nat
      BY <3>1 DEF BadgeRows
    <3> QED
      BY <1>1, <1>2, <3>1, <3>2
  <2>4. lastUpdate \in 0 .. now
    BY DEF BadgeInv, BadgeTyped
  <2>5. Answered'
    BY <1>1, <1>2, <1>3, <2>2, <2>3 DEF Answered, Visible
  <2>6. Badge!NothingSkipped'
    BY <1>1, <1>2, <1>3, <2>2, <2>4 DEF Badge!NothingSkipped, Badge!hook, Badge!ghosts
  <2> QED
    BY <2>5, <2>6
<1> QED
  BY <1>4, <1>6, <1>7, <1>8, <1>9 DEF BadgeInv

(* A poll is sent.                                                         *)
LEMMA SendStep == ASSUME BadgeInv, Badge!PollSend PROVE BadgeInv'
<1>1. /\ poll' = [pc |-> "lists", since |-> lastUpdate, left |-> Badge!Lists, rows |-> {},
                  own |-> TRUE]
      /\ UNCHANGED <<Badge!node, data, Badge!hook, Badge!storage, Badge!ghosts, dashboards>>
  BY DEF Badge!PollSend, Badge!NoPoll, Badge!bounded
<1> USE DEF Badge!node, Badge!hook, Badge!storage, Badge!ghosts
<1>2. BadgeTyped'
  <2>1. poll' \in [pc : {"idle", "lists"}, since : 0 .. now', left : SUBSET Badge!Lists,
                   rows : SUBSET BadgeRows, own : BOOLEAN]
    BY <1>1 DEF BadgeInv, BadgeTyped
  <2> QED
    BY <1>1, <2>1 DEF BadgeInv, BadgeTyped
<1>3. PollRows' /\ DataRows' /\ Counts' /\ Watermarks'
  BY <1>1 DEF BadgeInv, PollRows, DataRows, RowsOfNow, GoodRow, Counts, NewSince, Watermarks
<1>4. OneListKept'
  BY <1>1 DEF BadgeInv, OneListKept, Badge!OneListed, Answered, Badge!NothingSkipped
<1> QED
  BY <1>2, <1>3, <1>4 DEF BadgeInv

(* The payment node fails.                                                 *)
LEMMA FailsStep == ASSUME BadgeInv, Badge!PollFails PROVE BadgeInv'
<1>1. /\ poll' = [pc |-> "idle", since |-> 0, left |-> {}, rows |-> {}, own |-> TRUE]
      /\ data' = [rows |-> {}, last |-> 0]
      /\ UNCHANGED <<Badge!node, Badge!hook, Badge!storage, Badge!ghosts, dashboards>>
  BY DEF Badge!PollFails, Badge!NoPoll
<1> USE DEF Badge!node, Badge!hook, Badge!storage, Badge!ghosts
<1>2. BadgeTyped'
  <2>1. poll' \in [pc : {"idle", "lists"}, since : 0 .. now', left : SUBSET Badge!Lists,
                   rows : SUBSET BadgeRows, own : BOOLEAN]
    BY <1>1 DEF BadgeInv, BadgeTyped
  <2>2. data' \in [rows : SUBSET BadgeRows, last : 0 .. now']
    BY <1>1 DEF BadgeInv, BadgeTyped
  <2> QED
    BY <1>1, <2>1, <2>2 DEF BadgeInv, BadgeTyped
<1>3. PollRows' /\ DataRows' /\ Counts' /\ Watermarks'
  BY <1>1 DEF BadgeInv, PollRows, DataRows, RowsOfNow, Counts, NewSince, Watermarks
<1>4. OneListKept'
  BY <1>1 DEF BadgeInv, OneListKept, Badge!OneListed, Answered, Badge!NothingSkipped
<1> QED
  BY <1>2, <1>3, <1>4 DEF BadgeInv

(* The rows of one list's answer: of transactions that exist, of the list, *)
(* changed after what was asked for; an answer of changes that has one row *)
(* has every row that changed before.                                      *)
Answers(list) ==
  IF poll.since = 0 THEN Badge!Newest(list) ELSE Badge!Diff(list, poll.since)

LEMMA AnswerRows ==
  ASSUME BadgeInv, NEW list \in Badge!Lists
  PROVE  /\ Answers(list) \subseteq list /\ list \subseteq Badge!Transactions
         /\ \A t \in Answers(list) : created[t] > 0
         /\ poll.since # 0 => \A t \in Answers(list) : poll.since < changed[t]
<1>1. list \subseteq Badge!Transactions
  BY DEF Badge!Lists, Badge!Transactions
<1>2. /\ created \in [Badge!Transactions -> Nat] /\ changed \in [Badge!Transactions -> Nat]
      /\ \A t \in Badge!Transactions : created[t] = 0 => changed[t] = 0
      /\ poll.since \in Nat
  BY DEF BadgeInv, BadgeTyped
<1>3. CASE poll.since = 0
  BY <1>1, <1>2, <1>3 DEF Answers, Badge!Newest, Badge!FirstBy
<1>4. CASE poll.since # 0
  BY <1>1, <1>2, <1>4 DEF Answers, Badge!Diff, Badge!FirstBy
<1> QED
  BY <1>1, <1>3, <1>4

LEMMA EarlierToo ==
  ASSUME BadgeInv, NEW list \in Badge!Lists, poll.since # 0, NEW t \in list,
         NEW u \in Answers(list), poll.since < changed[t], changed[t] <= changed[u]
  PROVE  t \in Answers(list)
<1> DEFINE S == {v \in list : changed[v] > poll.since}
           Before(v) == {w \in S : changed[w] < changed[v]}
<1>1. /\ list \subseteq Badge!Transactions /\ poll.since \in Nat /\ u \in list
      /\ changed \in [Badge!Transactions -> Nat]
  BY AnswerRows DEF BadgeInv, BadgeTyped, Badge!Lists, Badge!Transactions
<1>2. Answers(list) = {v \in S : Badge!Cardinality(Before(v)) < Limit}
  BY DEF Answers, Badge!Diff, Badge!FirstBy
<1>3. \A v \in S : Badge!Cardinality(Before(v)) = Cardinality(Before(v))
  BY DEF Badge!Cardinality, Cardinality
<1>4. Before(t) \subseteq Before(u)
  BY <1>1
<1>5. IsFiniteSet(Before(u))
  <2>1. Before(u) \subseteq Badge!Transactions
    BY <1>1
  <2> QED
    BY <2>1, TransactionsFinite, FS_Subset
<1>6. /\ Cardinality(Before(t)) \in Nat /\ Cardinality(Before(u)) \in Nat
      /\ Cardinality(Before(t)) <= Cardinality(Before(u))
  BY <1>4, <1>5, FS_Subset, FS_CardinalityType
<1>7. t \in S /\ u \in S
  BY <1>1, <1>2
<1> HIDE DEF Before, S
<1> QED
  BY <1>2, <1>3, <1>6, <1>7, TransactionsFinite

(* One list answers.                                                       *)
LEMMA ReadStep ==
  ASSUME BadgeInv, NEW list \in Badge!Lists, Badge!ReadList(list) PROVE BadgeInv'
<1> DEFINE new == {Badge!Row(t) : t \in Answers(list)}
<1>1. /\ poll.pc = "lists" /\ list \in poll.left
      /\ poll' = [poll EXCEPT !.left = poll.left \ {list}, !.rows = poll.rows \cup new]
      /\ UNCHANGED <<Badge!node, data, Badge!hook, Badge!storage, Badge!ghosts, dashboards>>
  BY DEF Badge!ReadList, Badge!bounded, Answers
<1> USE DEF Badge!node, Badge!hook, Badge!storage, Badge!ghosts
<1>2. /\ poll \in [pc : {"idle", "lists"}, since : 0 .. now, left : SUBSET Badge!Lists,
                   rows : SUBSET BadgeRows, own : BOOLEAN]
      /\ created \in [Badge!Transactions -> Nat] /\ changed \in [Badge!Transactions -> Nat]
      /\ \A u \in Badge!Transactions : created[u] <= changed[u] /\ changed[u] <= now
      /\ \A u \in Badge!Transactions : created[u] = 0 => changed[u] = 0
  BY DEF BadgeInv, BadgeTyped
<1>3. /\ poll'.pc = "lists" /\ poll'.left = poll.left \ {list} /\ poll'.since = poll.since
      /\ poll'.rows = poll.rows \cup new /\ poll'.own = poll.own
  BY <1>1, <1>2
<1>4. \A r \in new : /\ r \in BadgeRows /\ GoodRow(r) /\ r.id \in Answers(list) /\ r.id \in list
                     /\ r.changed = changed[r.id] /\ r = Badge!Row(r.id)
                     /\ poll.since # 0 => poll.since < r.changed
  <2> SUFFICES ASSUME NEW t \in Answers(list)
               PROVE  LET r == Badge!Row(t) IN
                      /\ r \in BadgeRows /\ GoodRow(r) /\ r.id = t /\ r.id \in list
                      /\ r.changed = changed[r.id]
                      /\ poll.since # 0 => poll.since < r.changed
    OBVIOUS
  <2>1. /\ t \in Badge!Transactions /\ t \in list /\ created[t] > 0
        /\ poll.since # 0 => poll.since < changed[t]
    BY AnswerRows
  <2> DEFINE r == Badge!Row(t)
  <2>2. r = [id |-> t, created |-> created[t], changed |-> changed[t]]
    BY DEF Badge!Row
  <2>3. r \in BadgeRows /\ r.id = t /\ r.created = created[t] /\ r.changed = changed[t]
    BY <1>2, <2>1, <2>2 DEF BadgeRows
  <2> HIDE DEF r
  <2>4. GoodRow(r)
    BY <1>2, <2>1, <2>3 DEF GoodRow
  <2> QED
    BY <2>1, <2>3, <2>4 DEF r
<1>5. \A r \in poll.rows : /\ r \in BadgeRows /\ GoodRow(r) /\ r.id \notin list
                           /\ poll.since # 0 => poll.since < r.changed
  BY <1>1 DEF BadgeInv, PollRows, RowsOfNow
<1>6. BadgeTyped'
  <2>1. poll' \in [pc : {"idle", "lists"}, since : 0 .. now', left : SUBSET Badge!Lists,
                   rows : SUBSET BadgeRows, own : BOOLEAN]
    <3>1. poll.rows \cup new \in SUBSET BadgeRows
      BY <1>4, <1>5
    <3> HIDE DEF new
    <3> QED
      BY <1>1, <1>2, <3>1
  <2> HIDE DEF new
  <2> QED
    BY <1>1, <2>1 DEF BadgeInv, BadgeTyped
<1> HIDE DEF new
<1>7. PollRows'
  <2>1. RowsOfNow(poll'.rows)
    <3>1. \A r, q \in poll.rows : r.id = q.id => r = q
      BY DEF BadgeInv, PollRows, RowsOfNow
    <3>2. \A r, q \in new : r.id = q.id => r = q
      BY <1>4
    <3> QED
      BY <1>3, <1>4, <1>5, <3>1, <3>2 DEF RowsOfNow
  <2>2. \A r \in poll'.rows, other \in poll'.left : r.id \notin other
    <3>1. \A other \in poll'.left : other \cap list = {}
      BY <1>2, <1>3, TransactionsFinite DEF Badge!Lists
    <3>2. \A r \in poll.rows, other \in poll.left : r.id \notin other
      BY DEF BadgeInv, PollRows
    <3> QED
      BY <1>3, <1>4, <3>1, <3>2
  <2> QED
    BY <1>1, <1>3, <1>4, <1>5, <2>1, <2>2 DEF PollRows, RowsOfNow, GoodRow
<1>8. DataRows' /\ Counts' /\ Watermarks'
  BY <1>1, <1>3 DEF BadgeInv, DataRows, RowsOfNow, GoodRow, Counts, NewSince, Watermarks
<1>9. OneListKept'
  <2> SUFFICES ASSUME Badge!OneListed PROVE Answered' /\ Badge!NothingSkipped'
    BY <1>1 DEF OneListKept, Badge!OneListed
  <2>1. Badge!NothingSkipped'
    BY <1>1 DEF BadgeInv, OneListKept, Badge!NothingSkipped
  <2>2. PICK only \in Badge!Lists : \A t \in Badge!Transactions \ only : created[t] = 0
    BY DEF Badge!OneListed
  <2>3. CASE list # only
    <3>1. new = {}
      <4> SUFFICES ASSUME NEW r \in new PROVE FALSE
        OBVIOUS
      <4>1. r.id \in list /\ r.id \in Badge!Transactions /\ created[r.id] > 0
        BY <1>4, AnswerRows
      <4>2. list \cap only = {}
        BY <2>3, TransactionsFinite DEF Badge!Lists
      <4> QED
        BY <2>2, <4>1, <4>2
    <3>2. poll'.rows = poll.rows
      BY <1>3, <3>1
    <3>3. Answered
      BY DEF BadgeInv, OneListKept
    <3> QED
      BY <1>1, <1>3, <2>1, <3>2, <3>3 DEF Answered
  <2>4. CASE list = only
    <3>1. poll.rows = {}
      <4> SUFFICES ASSUME NEW r \in poll.rows PROVE FALSE
        OBVIOUS
      <4>1. r.id \in Badge!Transactions /\ created[r.id] > 0 /\ r.id \notin list
        BY <1>5 DEF BadgeRows, GoodRow
      <4> QED
        BY <2>2, <2>4, <4>1
    <3>2. ASSUME NEW t \in Visible, NEW r \in new, poll.since # 0, poll.since < changed[t],
                 changed[t] <= r.changed
          PROVE  Badge!Row(t) \in new
      <4>1. t \in Badge!Transactions /\ poll.since \in Nat
        BY <1>2 DEF Visible
      <4>2. t \in list
        BY <1>2, <2>2, <2>4, <3>2, <4>1
      <4>3. t \in Answers(list)
        BY <1>4, <3>2, <4>2, EarlierToo
      <4> QED
        BY <4>3 DEF new
    <3>3. \A t : Badge!Row(t).id = t /\ Badge!Row(t).changed = changed[t]
      BY DEF Badge!Row
    <3> QED
      BY <1>1, <1>3, <2>1, <3>1, <3>2, <3>3 DEF Answered
  <2> QED
    BY <2>3, <2>4
<1> QED
  BY <1>6, <1>7, <1>8, <1>9 DEF BadgeInv

(* An answer's watermark: that of the newest row, or what was asked for.   *)
LEMMA AnswerMark ==
  ASSUME BadgeInv
  PROVE  /\ Badge!Watermark \in 0 .. now
         /\ \A r \in Badge!Visible : r.changed <= Badge!Watermark
         /\ poll.since <= Badge!Watermark
         /\ Badge!Watermark = poll.since
              \/ \E r \in Badge!Visible : r.changed = Badge!Watermark
<1>1. /\ poll.since \in 0 .. now /\ now \in Nat /\ Badge!Visible \subseteq poll.rows
      /\ \A t \in Badge!Transactions : changed[t] \in Nat /\ changed[t] <= now
  BY DEF BadgeInv, BadgeTyped, Badge!Visible
<1>2. \A r \in poll.rows :
        /\ r.id \in Badge!Transactions /\ r.changed \in Nat /\ r.changed <= changed[r.id]
        /\ poll.since # 0 => poll.since < r.changed
  BY DEF BadgeInv, PollRows, RowsOfNow, GoodRow, BadgeRows
<1>3. CASE Badge!Visible = {}
  BY <1>1, <1>3 DEF Badge!Watermark
<1>4. CASE Badge!Visible # {}
  <2> DEFINE times == {r.changed : r \in Badge!Visible}
  <2>1. times \in SUBSET Nat /\ times # {} /\ \A n \in times : n <= now
    BY <1>1, <1>2, <1>4
  <2>2. Badge!Max(times) \in times /\ \A n \in times : n <= Badge!Max(times)
    <3> HIDE DEF times
    <3> QED
      BY <1>1, <2>1, HasMax
  <2>3. Badge!Watermark = Badge!Max(times)
    BY <1>4 DEF Badge!Watermark
  <2>4. PICK r \in Badge!Visible : r.changed = Badge!Max(times)
    BY <2>2
  <2>5. r \in poll.rows /\ r.changed \in Nat /\ r.changed <= now
    BY <1>1, <2>1, <2>4
  <2>6. poll.since <= r.changed
    BY <1>1, <1>2, <2>5
  <2>7. \A q \in Badge!Visible : q.changed <= r.changed
    BY <2>2, <2>4
  <2> HIDE DEF times
  <2> QED
    BY <1>1, <2>3, <2>4, <2>5, <2>6, <2>7
<1> QED
  BY <1>3, <1>4

(* An answer comes.                                                        *)
LEMMA AnswerStep == ASSUME BadgeInv, Badge!PollAnswer PROVE BadgeInv'
<1> DEFINE next == [rows |-> Badge!Visible, last |-> Badge!Watermark]
           last == Badge!Watermark
           Rows2 == Badge!Visible
<1>1. /\ poll.pc = "lists" /\ data' = next
      /\ lastUpdate' = IF poll.own THEN last ELSE lastUpdate
      /\ base' = IF poll.own /\ base = 0 THEN last ELSE base
      /\ IF data = next THEN UNCHANGED <<seen, counting, lastVisit, count>>
         ELSE Badge!Effect(Rows2, seen, counting)
      /\ delivered' = [t \in Badge!Transactions |->
           IF \E r \in Rows2 : r.id = t THEN (CHOOSE r \in Rows2 : r.id = t).changed
           ELSE delivered[t]]
      /\ poll' = [pc |-> "idle", since |-> 0, left |-> {}, rows |-> {}, own |-> TRUE]
      /\ UNCHANGED <<Badge!node, dashboards>>
  BY DEF Badge!PollAnswer, Badge!NoPoll, Badge!bounded, Badge!storage
<1>2. UNCHANGED <<now, created, changed, dashboards>>
  BY <1>1 DEF Badge!node
<1>3. /\ now \in 1 .. MaxTime /\ {lastUpdate, lastVisit, base} \subseteq 0 .. now
      /\ now \in Nat /\ poll.since \in 0 .. now
      /\ changed \in [Badge!Transactions -> Nat]
  BY DEF BadgeInv, BadgeTyped
<1>4. /\ Rows2 \subseteq poll.rows /\ RowsOfNow(Rows2)
      /\ \A r \in Rows2 : r.id \in Visible /\ r.changed \in Nat /\ r \in BadgeRows
      /\ \A r \in Rows2 : poll.since # 0 => poll.since < r.changed
      /\ \A r \in Rows2 : r.changed <= changed[r.id]
  BY DEF BadgeInv, PollRows, RowsOfNow, GoodRow, BadgeRows, Badge!Visible, Visible
<1>5. /\ last \in 0 .. now /\ poll.since <= last /\ \A r \in Rows2 : r.changed <= last
      /\ last = poll.since \/ \E r \in Rows2 : r.changed = last
  BY AnswerMark
<1>6. /\ base <= lastUpdate /\ (base = 0 => lastUpdate = 0) /\ (~poll.own => base = 0)
      /\ poll.own => poll.since = lastUpdate
  BY <1>1 DEF BadgeInv, Watermarks
<1>7. /\ seen' \subseteq Visible /\ counting' \in BOOLEAN /\ count' \in Nat
      /\ lastVisit' \in 0 .. now /\ (~counting' => seen' = {})
      /\ count' <= dashboards * Cardinality(NewSince') + Cardinality(seen' \cap NewSince')
  <2>1. BadgeTyped /\ Counts
    BY DEF BadgeInv
  <2>2. CASE data = next
    <3>1. UNCHANGED <<seen, counting, lastVisit, count>>
      BY <1>1, <2>2
    <3>2. NewSince' = NewSince
      BY <1>2, <3>1 DEF NewSince
    <3> QED
      BY <2>1, <3>1, <3>2 DEF BadgeTyped, Counts
  <2>3. CASE data # next
    <3>1. Badge!Effect(Rows2, seen, counting)
      BY <1>1, <2>3
    <3>2. /\ seen \in SUBSET Visible /\ counting \in BOOLEAN /\ dashboards \in Nat
          /\ (~counting => seen = {})
          /\ count <= dashboards * Cardinality(NewSince) + Cardinality(seen \cap NewSince)
      BY <2>1 DEF BadgeTyped, Counts
    <3> HIDE DEF Rows2
    <3> QED
      BY <1>2, <1>4, <2>1, <3>1, <3>2, EffectCounts
  <2> QED
    BY <2>2, <2>3
<1> HIDE DEF last, Rows2
<1>8. /\ data' = [rows |-> Rows2, last |-> last] /\ lastUpdate' \in 0 .. now
      /\ base' \in 0 .. now
  BY <1>1, <1>3, <1>5 DEF last, Rows2
<1>9. BadgeTyped'
  <2>1. poll' \in [pc : {"idle", "lists"}, since : 0 .. now', left : SUBSET Badge!Lists,
                   rows : SUBSET BadgeRows, own : BOOLEAN]
    BY <1>1, <1>2, <1>3
  <2>2. data' \in [rows : SUBSET BadgeRows, last : 0 .. now']
    BY <1>2, <1>4, <1>5, <1>8
  <2>3. delivered' \in [Badge!Transactions -> Nat]
    <3>1. \A t \in Badge!Transactions : delivered[t] \in Nat
      BY DEF BadgeInv, BadgeTyped
    <3>2. \A t \in Badge!Transactions :
            (\E r \in Rows2 : r.id = t) => (CHOOSE r \in Rows2 : r.id = t).changed \in Nat
      BY <1>4
    <3> QED
      BY <1>1, <3>1, <3>2
  <2> QED
    BY <1>2, <1>3, <1>7, <1>8, <2>1, <2>2, <2>3 DEF BadgeInv, BadgeTyped
<1>10. PollRows' /\ DataRows'
  <2>1. PollRows'
    BY <1>1 DEF PollRows, RowsOfNow
  <2>2. \A r \in Rows2 : r.id \notin Hidden
    BY DEF Rows2, Badge!Visible
  <2>3. RowsOfNow(data.rows)'
    BY <1>2, <1>4, <1>8 DEF RowsOfNow, GoodRow
  <2> QED
    BY <1>5, <1>8, <2>1, <2>2, <2>3 DEF DataRows
<1>11. Counts'
  BY <1>2, <1>7 DEF Counts
<1>12. Watermarks'
  <2>1. base' <= lastUpdate' /\ (base' = 0 => lastUpdate' = 0)
    <3>1. /\ lastUpdate' = IF poll.own THEN last ELSE lastUpdate
          /\ base' = IF poll.own /\ base = 0 THEN last ELSE base
          /\ base \in Nat /\ lastUpdate \in Nat /\ last \in Nat
      BY <1>1, <1>3, <1>5 DEF last
    <3>2. poll.own => lastUpdate <= last
      BY <1>5, <1>6
    <3> QED
      BY <1>6, <3>1, <3>2
  <2>2. poll'.pc = "idle" /\ poll'.own = TRUE
    BY <1>1
  <2> QED
    BY <2>1, <2>2 DEF Watermarks
<1>13. OneListKept'
  <2> SUFFICES ASSUME Badge!OneListed, NEW t \in Visible, base' # 0, base' < changed[t],
                      changed[t] <= lastUpdate'
               PROVE  delivered'[t] = changed[t]
    BY <1>1, <1>2 DEF OneListKept, Badge!OneListed, Answered, Badge!NothingSkipped, Visible
  <2>1. /\ t \in Badge!Transactions /\ changed[t] \in Nat /\ Answered
        /\ base # 0 /\ base < changed[t] /\ changed[t] <= lastUpdate => delivered[t] = changed[t]
    BY <1>3 DEF Visible, BadgeInv, OneListKept, Badge!NothingSkipped
  <2>2. poll.own /\ base # 0 /\ base' = base /\ lastUpdate' = last
    BY <1>1, <1>3, <1>5, <1>6, <2>1
  <2>3. poll.since = lastUpdate /\ poll.since # 0
    BY <1>3, <1>6, <2>2
  <2>4. CASE changed[t] <= lastUpdate
    <3>1. ~\E r \in Rows2 : r.id = t
      BY <1>3, <1>4, <2>1, <2>3, <2>4
    <3> QED
      BY <1>1, <2>1, <2>2, <2>4, <3>1 DEF Rows2
  <2>5. CASE lastUpdate < changed[t]
    <3>1. PICK r \in Rows2 : r.changed = last
      BY <1>3, <1>5, <2>1, <2>2, <2>3, <2>5
    <3>2. PICK q \in poll.rows : q.id = t /\ q.changed = changed[t]
      BY <1>4, <2>1, <2>2, <2>3, <2>5, <3>1 DEF Answered, Visible
    <3>3. q \in Rows2
      BY <3>2 DEF Rows2, Badge!Visible, Visible
    <3>4. (CHOOSE p \in Rows2 : p.id = t) = q
      BY <1>4, <3>2, <3>3 DEF RowsOfNow
    <3> QED
      BY <1>1, <2>1, <3>2, <3>3, <3>4 DEF Rows2
  <2> QED
    BY <1>3, <2>1, <2>4, <2>5
<1> QED
  BY <1>9, <1>10, <1>11, <1>12, <1>13 DEF BadgeInv

(* The user comes back to the dashboard: one hook more.                    *)
LEMMA DashboardStep == ASSUME BadgeInv, Badge!OpenDashboard PROVE BadgeInv'
<1>1. /\ dashboards' = dashboards + 1 /\ lastUpdate' = 0 /\ base' = 0
      /\ Badge!Effect(data.rows, {}, FALSE)
      /\ poll' = [poll EXCEPT !.own = FALSE]
      /\ UNCHANGED <<now, created, changed, data, delivered>>
  BY DEF Badge!OpenDashboard, Badge!node
<1>2. /\ poll \in [pc : {"idle", "lists"}, since : 0 .. now, left : SUBSET Badge!Lists,
                   rows : SUBSET BadgeRows, own : BOOLEAN]
      /\ now \in Nat /\ dashboards \in Nat /\ count \in Nat
  BY DEF BadgeInv, BadgeTyped
<1>3. /\ poll'.pc = poll.pc /\ poll'.left = poll.left /\ poll'.since = poll.since
      /\ poll'.rows = poll.rows /\ poll'.own = FALSE
  BY <1>1, <1>2
<1>4. /\ seen' \subseteq Visible /\ counting' \in BOOLEAN /\ count' \in Nat
      /\ lastVisit' \in 0 .. now /\ (~counting' => seen' = {})
      /\ count' <= (dashboards + 1) * Cardinality(NewSince') + Cardinality(seen' \cap NewSince')
  <2> DEFINE K == Cardinality(NewSince)
  <2>1. K \in Nat /\ IsFiniteSet(NewSince)
    BY NewFinite DEF NewSince
  <2>2. Cardinality(seen \cap NewSince) \in Nat /\ Cardinality(seen \cap NewSince) <= K
    BY <2>1, FS_Subset, FS_CardinalityType
  <2>3. count <= dashboards * K + Cardinality(seen \cap NewSince)
    BY DEF BadgeInv, Counts
  <2>4. Cardinality({} \cap NewSince) = 0
    BY FS_EmptySet
  <2> HIDE DEF K
  <2>5. dashboards * K \in Nat /\ (dashboards + 1) * K = dashboards * K + K
    BY <1>2, <2>1, MoreTimes
  <2>6. count <= (dashboards + 1) * K + Cardinality({} \cap NewSince)
    BY <1>2, <2>1, <2>2, <2>3, <2>4, <2>5
  <2>7. /\ RowsOfNow(data.rows) /\ \A r \in data.rows : r.id \in Visible
        /\ BadgeTyped
    BY DEF BadgeInv, DataRows, RowsOfNow, BadgeRows, Visible
  <2>8. dashboards + 1 \in Nat /\ {} \in SUBSET Visible /\ FALSE \in BOOLEAN
    BY <1>2
  <2> QED
    BY <1>1, <2>6, <2>7, <2>8, EffectCounts DEF K
<1>5. BadgeTyped'
  <2>1. poll' \in [pc : {"idle", "lists"}, since : 0 .. now', left : SUBSET Badge!Lists,
                   rows : SUBSET BadgeRows, own : BOOLEAN]
    BY <1>1, <1>2
  <2>2. {lastUpdate', lastVisit', base'} \subseteq 0 .. now' /\ dashboards' \in Nat
    BY <1>1, <1>2, <1>4
  <2> QED
    BY <1>1, <1>4, <2>1, <2>2 DEF BadgeInv, BadgeTyped
<1>6. PollRows' /\ DataRows'
  BY <1>1, <1>3 DEF BadgeInv, PollRows, DataRows, RowsOfNow, GoodRow
<1>7. Counts' /\ Watermarks'
  BY <1>1, <1>3, <1>4 DEF Counts, Watermarks
<1>8. OneListKept'
  BY <1>1, <1>3 DEF BadgeInv, OneListKept, Badge!OneListed, Answered, Badge!NothingSkipped
<1> QED
  BY <1>5, <1>6, <1>7, <1>8 DEF BadgeInv

(* The activity page is opened: nothing is new any more.                   *)
LEMMA ActivityStep == ASSUME BadgeInv, Badge!OpenActivity PROVE BadgeInv'
<1>1. /\ lastUpdate' = 0 /\ base' = 0 /\ seen' = {} /\ counting' = FALSE
      /\ lastVisit' = now /\ count' = 0
      /\ poll' = [poll EXCEPT !.own = FALSE]
      /\ UNCHANGED <<now, created, changed, data, delivered, dashboards>>
  BY DEF Badge!OpenActivity, Badge!node
<1>2. /\ poll \in [pc : {"idle", "lists"}, since : 0 .. now, left : SUBSET Badge!Lists,
                   rows : SUBSET BadgeRows, own : BOOLEAN]
      /\ now \in Nat /\ dashboards \in Nat
  BY DEF BadgeInv, BadgeTyped
<1>3. /\ poll'.pc = poll.pc /\ poll'.left = poll.left /\ poll'.since = poll.since
      /\ poll'.rows = poll.rows /\ poll'.own = FALSE
  BY <1>1, <1>2
<1>4. BadgeTyped'
  <2>1. poll' \in [pc : {"idle", "lists"}, since : 0 .. now', left : SUBSET Badge!Lists,
                   rows : SUBSET BadgeRows, own : BOOLEAN]
    BY <1>1, <1>2
  <2>2. {lastUpdate', lastVisit', base'} \subseteq 0 .. now'
    BY <1>1, <1>2
  <2> QED
    BY <1>1, <2>1, <2>2 DEF BadgeInv, BadgeTyped
<1>5. PollRows' /\ DataRows' /\ Watermarks'
  BY <1>1, <1>3 DEF BadgeInv, PollRows, DataRows, RowsOfNow, GoodRow, Watermarks
<1>6. Counts'
  <2>1. Cardinality(NewSince') \in Nat /\ Cardinality(seen' \cap NewSince') \in Nat
    BY NewFinite DEF NewSince
  <2>2. dashboards' * Cardinality(NewSince') \in Nat
    BY <1>1, <1>2, <2>1
  <2> QED
    BY <1>1, <2>1, <2>2 DEF Counts
<1>7. OneListKept'
  BY <1>1, <1>3 DEF BadgeInv, OneListKept, Badge!OneListed, Answered, Badge!NothingSkipped
<1> QED
  BY <1>4, <1>5, <1>6, <1>7 DEF BadgeInv

(* However the lists' answers, changes, failures and visits of the pages   *)
(* interleave, no hook counts a transaction twice or one older than the    *)
(* last visit; while one list alone has transactions, a change after the   *)
(* first answer and not after the watermark has been delivered, whatever   *)
(* the limit of an answer and however many rows of other agents it has.    *)
THEOREM BadgeCounts == Badge!Spec => []BadgeInvariant
<1>1. BadgeInv /\ [Badge!Next]_Badge!vars => BadgeInv'
  <2> SUFFICES ASSUME BadgeInv, [Badge!Next]_Badge!vars PROVE BadgeInv'
    OBVIOUS
  <2>1. CASE UNCHANGED Badge!vars
    BY <2>1 DEF Badge!vars, Badge!node, Badge!hook, Badge!storage, Badge!ghosts, Badge!bounded,
       BadgeInv, BadgeTyped, PollRows, DataRows, RowsOfNow, GoodRow, Counts, NewSince,
       Watermarks, OneListKept, Badge!OneListed, Answered, Badge!NothingSkipped
  <2> QED
    BY <2>1, NodeStep, SendStep, ReadStep, AnswerStep, FailsStep, DashboardStep, ActivityStep
       DEF Badge!Next, Badge!Polling
<1>2. BadgeInv => BadgeInvariant
  <2> SUFFICES ASSUME BadgeInv PROVE BadgeInvariant
    OBVIOUS
  <2>1. Badge!TypeOK
    BY DEF Badge!TypeOK, BadgeInv, BadgeTyped, DataRows, Visible
  <2>2. Badge!BadgeCountsOnce
    <3> DEFINE K == Cardinality(NewSince)
               C == Cardinality(seen \cap NewSince)
    <3>1. IsFiniteSet(NewSince) /\ K \in Nat /\ C \in Nat /\ C <= K
      BY NewFinite, FS_Subset, FS_CardinalityType DEF NewSince
    <3>2. count <= dashboards * K + C /\ dashboards \in Nat /\ count \in Nat
      BY DEF BadgeInv, Counts, BadgeTyped
    <3>3. Badge!Cardinality(NewSince) = K
      BY DEF Badge!Cardinality, Cardinality
    <3> HIDE DEF K, C
    <3>4. dashboards * K \in Nat /\ (dashboards + 1) * K = dashboards * K + K
      BY <3>1, <3>2, MoreTimes
    <3>5. count <= (dashboards + 1) * K
      BY <3>1, <3>2, <3>4
    <3>6. 1 + dashboards = dashboards + 1
      BY <3>2
    <3> QED
      BY <3>3, <3>5, <3>6 DEF Badge!BadgeCountsOnce, NewSince, Visible
  <2>3. Badge!OneListed => Badge!NothingSkipped
    BY DEF BadgeInv, OneListKept
  <2> QED
    BY <2>1, <2>2, <2>3 DEF BadgeInvariant, Badge!BadgeInvariant
<1> QED
  BY <1>1, <1>2, BadgeInit, PTL DEF Badge!Spec

------------------------------------------------------------------------------
(* The pages of the feed.  First sets of items, which are dates.           *)
LEMMA FeedConstants ==
  /\ Pages!Items \subseteq Nat /\ IsFiniteSet(Pages!Items) /\ None \notin Pages!Items
  /\ PAGE \in Nat \ {0} /\ LIST_LIMIT \in Nat \ {0} /\ FEED_LIMIT \in Nat \ {0}
<1>1. IsFiniteSet(Pages!Items)
  BY BrowserAssumption DEF Pages!FeedAssumption, Pages!IsFiniteSet, IsFiniteSet
<1> QED
  BY <1>1, BrowserAssumption DEF Pages!FeedAssumption

Above(S, i) == {j \in S : i < j}

LEMMA FewerItems ==
  ASSUME NEW T \in SUBSET Pages!Items, NEW S \in SUBSET T
  PROVE  /\ IsFiniteSet(S) /\ IsFiniteSet(T)
         /\ Cardinality(S) \in Nat /\ Cardinality(T) \in Nat
         /\ Cardinality(S) <= Cardinality(T) /\ (Cardinality(S) = Cardinality(T) => S = T)
<1>1. IsFiniteSet(T)
  BY FeedConstants, FS_Subset
<1>2. IsFiniteSet(S) /\ Cardinality(S) <= Cardinality(T)
  BY <1>1, FS_Subset
<1>3. Cardinality(T) = Cardinality(S) => S = T
  BY <1>1, FS_Subset
<1> QED
  BY <1>1, <1>2, <1>3, FS_CardinalityType

LEMMA ItemsAbove ==
  ASSUME NEW S \in SUBSET Pages!Items, NEW i
  PROVE  Above(S, i) \in SUBSET Pages!Items /\ Cardinality(Above(S, i)) \in Nat
<1>1. Above(S, i) \in SUBSET S
  BY DEF Above
<1> QED
  BY <1>1, FewerItems

(* A finite set has a newest item: one with the fewest items above it.     *)
LEMMA Greatest ==
  ASSUME NEW S \in SUBSET Pages!Items, S # {}
  PROVE  \E m \in S : \A x \in S : x <= m
<1> DEFINE sizes == {Cardinality(Above(S, i)) : i \in S}
<1>1. sizes \in SUBSET Nat /\ sizes # {}
  BY ItemsAbove
<1>2. PICK n \in sizes : \A k \in sizes : n <= k
  <2> HIDE DEF sizes
  <2> QED
    BY <1>1, Least
<1>3. PICK m \in S : n = Cardinality(Above(S, m))
  OBVIOUS
<1>4. ASSUME NEW x \in S, m < x PROVE FALSE
  <2>1. S \subseteq Nat
    BY FeedConstants
  <2>2. Above(S, x) \subseteq Above(S, m) /\ x \in Above(S, m) /\ x \notin Above(S, x)
    BY <1>3, <1>4, <2>1 DEF Above
  <2>3. Above(S, x) # Above(S, m)
    BY <2>2
  <2>4. Cardinality(Above(S, m)) <= Cardinality(Above(S, x))
    BY <1>2, <1>3
  <2>5. /\ Cardinality(Above(S, x)) <= Cardinality(Above(S, m))
        /\ Cardinality(Above(S, x)) \in Nat /\ Cardinality(Above(S, m)) \in Nat
        /\ Cardinality(Above(S, x)) = Cardinality(Above(S, m)) => Above(S, x) = Above(S, m)
    BY <2>2, ItemsAbove, FewerItems
  <2> QED
    BY <2>3, <2>4, <2>5
<1>5. ASSUME NEW x \in S PROVE x <= m
  BY <1>4, <1>5, FeedConstants
<1> QED
  BY <1>5

LEMMA PagesMaxMin ==
  ASSUME NEW S \in SUBSET Pages!Items, S # {}
  PROVE  /\ Pages!Max(S) \in S /\ \A x \in S : x <= Pages!Max(S)
         /\ Pages!Min(S) \in S /\ \A x \in S : Pages!Min(S) <= x
<1>1. \E m \in S : \A x \in S : m >= x
  BY Greatest, FeedConstants
<1>2. \E m \in S : \A x \in S : m <= x
  BY Least, FeedConstants
<1>3. Pages!Max(S) \in S /\ \A x \in S : Pages!Max(S) >= x
  BY <1>1 DEF Pages!Max
<1>4. Pages!Min(S) \in S /\ \A x \in S : Pages!Min(S) <= x
  BY <1>2 DEF Pages!Min
<1> QED
  BY <1>3, <1>4, FeedConstants

(* The newest n of a set: of those that are newer, none is missing; and    *)
(* they are all, or n at least.                                            *)
LEMMA NewestIs ==
  ASSUME NEW S \in SUBSET Pages!Items, NEW n
  PROVE  Pages!Newest(S, n) = {i \in S : Cardinality(Above(S, i)) < n}
<1>1. \A i \in S : {j \in S : j > i} = Above(S, i)
  BY FeedConstants DEF Above
<1>2. \A T : Pages!Cardinality(T) = Cardinality(T)
  BY DEF Pages!Cardinality, Cardinality
<1> QED
  BY <1>1, <1>2 DEF Pages!Newest

LEMMA NewestHas ==
  ASSUME NEW S \in SUBSET Pages!Items, NEW n \in Nat \ {0}
  PROVE  /\ Pages!Newest(S, n) \subseteq S
         /\ \A i \in Pages!Newest(S, n), j \in S : i <= j => j \in Pages!Newest(S, n)
         /\ S # {} => Pages!Newest(S, n) # {}
         /\ Pages!Newest(S, n) # S => n <= Cardinality(Pages!Newest(S, n))
<1> DEFINE N == Pages!Newest(S, n)
<1>1. N = {i \in S : Cardinality(Above(S, i)) < n}
  BY NewestIs
<1>2. N \subseteq S /\ \A x \in S : x \in Nat
  BY <1>1, FeedConstants
<1> HIDE DEF N
<1>3. ASSUME NEW i \in N, NEW j \in S, i <= j PROVE j \in N
  <2>1. Above(S, j) \subseteq Above(S, i)
    BY <1>2, <1>3 DEF Above
  <2>2. /\ Cardinality(Above(S, j)) <= Cardinality(Above(S, i))
        /\ Cardinality(Above(S, j)) \in Nat /\ Cardinality(Above(S, i)) \in Nat
    BY <2>1, ItemsAbove, FewerItems
  <2> QED
    BY <1>1, <2>2
<1>4. ASSUME S # {} PROVE N # {}
  <2>1. PICK m \in S : \A x \in S : x <= m
    BY <1>4, Greatest
  <2>2. Above(S, m) = {}
    BY <1>2, <2>1 DEF Above
  <2>3. Cardinality(Above(S, m)) = 0
    BY <2>2, FS_EmptySet
  <2> QED
    BY <1>1, <2>3
<1>5. ASSUME N # S PROVE n <= Cardinality(N)
  <2>1. S \ N # {} /\ S \ N \in SUBSET Pages!Items
    BY <1>1, <1>5
  <2>2. PICK m \in S \ N : \A x \in S \ N : x <= m
    BY <2>1, Greatest
  <2>3. Above(S, m) \subseteq N
    BY <1>2, <2>2 DEF Above
  <2>4. n <= Cardinality(Above(S, m)) /\ Cardinality(Above(S, m)) \in Nat
    BY <1>1, <2>2, ItemsAbove
  <2>5. N \in SUBSET Pages!Items
    BY <1>1
  <2>6. Cardinality(Above(S, m)) <= Cardinality(N) /\ Cardinality(N) \in Nat
    BY <2>3, <2>5, FewerItems
  <2> QED
    BY <2>4, <2>6
<1> QED
  BY <1>1, <1>3, <1>4, <1>5 DEF N

(* More items above leave no more room below.                              *)
LEMMA NewestShrinks ==
  ASSUME NEW S \in SUBSET Pages!Items, NEW T \in SUBSET Pages!Items, S \subseteq T,
         NEW n \in Nat
  PROVE  Pages!Newest(T, n) \cap S \subseteq Pages!Newest(S, n)
<1> SUFFICES ASSUME NEW i \in Pages!Newest(T, n) \cap S PROVE i \in Pages!Newest(S, n)
  OBVIOUS
<1>1. Above(S, i) \subseteq Above(T, i)
  BY DEF Above
<1>2. /\ Cardinality(Above(S, i)) <= Cardinality(Above(T, i))
      /\ Cardinality(Above(S, i)) \in Nat /\ Cardinality(Above(T, i)) \in Nat
  BY <1>1, ItemsAbove, FewerItems
<1> QED
  BY <1>2, NewestIs

(* The feed before it is cut, and what the pages of it have.               *)
Present == {i \in Pages!Items : item[i] # "absent"}
Merged ==
  (Lifecycle \cup (Pages!ListOf(FeedPayments) \cup Pages!ListOf(FeedPurchases)))
    \cap Pages!Shown
ItemsOf(s) == UNION {s[k].items : k \in DOMAIN s}
NextOf(s) == s[Len(s)].next

(* Each page is below the page before it, and the next one starts below    *)
(* the least item of the last.                                             *)
Chain(s) ==
  /\ \A k, l \in DOMAIN s : k < l => \A i \in s[k].items, j \in s[l].items : j < i
  /\ s # <<>> /\ NextOf(s) # None =>
       NextOf(s) \in s[Len(s)].items /\ \A i \in ItemsOf(s) : NextOf(s) <= i

(* What the feed has and the pages S of it do not have, is above them or   *)
(* below them, and then there is a next page or the feed was full.         *)
Filled(S, shown) == FEED_LIMIT <= Cardinality(S \cup {i \in shown : \A j \in S : j < i})
NoGap(s, merged, shown) ==
  ItemsOf(s) # {} =>
    \A i \in merged \ ItemsOf(s) :
      \/ \A j \in ItemsOf(s) : j < i
      \/ /\ \A j \in ItemsOf(s) : i < j
         /\ NextOf(s) # None \/ Filled(ItemsOf(s), shown)

FeedTyped ==
  /\ item \in [Pages!Items -> {"absent", "shown", "hidden"}]
  /\ pages \in Seq(Pages!Pages) /\ error \in {"none", "stale", "failed"}
  /\ fetch \in [mode : {"idle", "all", "more"}, want : Nat, got : Seq(Pages!Pages),
                steady : BOOLEAN]
  /\ Len(fetch.got) <= fetch.want /\ throttled \in BOOLEAN /\ steady \in BOOLEAN
Chained ==
  /\ Chain(pages) /\ ItemsOf(pages) \subseteq Present
  /\ Chain(fetch.got) /\ ItemsOf(fetch.got) \subseteq Present
Asked ==
  /\ fetch.mode # "all" => fetch.got = <<>>
  /\ fetch.got # <<>> => NextOf(fetch.got) # None
  /\ fetch.mode = "more" => pages # <<>> /\ NextOf(pages) # None
Gapless ==
  /\ steady => NoGap(pages, Merged, Pages!Shown)
  /\ fetch.steady => NoGap(fetch.got, Merged, Pages!Shown)
FeedInv == FeedTyped /\ Chained /\ Asked /\ Gapless

LEMMA ItemSets ==
  ASSUME FeedTyped
  PROVE  /\ Pages!Shown \subseteq Present /\ Present \subseteq Pages!Items
         /\ Merged \subseteq Pages!Shown
         /\ \A list \in SUBSET Pages!Items : Pages!ListOf(list) \subseteq list \cap Present
<1>1. Pages!Shown \subseteq Present /\ Present \subseteq Pages!Items
  BY DEF Pages!Shown, Present
<1>2. ASSUME NEW list \in SUBSET Pages!Items
      PROVE  Pages!ListOf(list) \subseteq list \cap Present
  <2>1. {i \in list : item[i] # "absent"} \in SUBSET Pages!Items
    OBVIOUS
  <2> QED
    BY <2>1, FeedConstants, NewestHas DEF Pages!ListOf, Present
<1> QED
  BY <1>1, <1>2 DEF Merged

(* What the server makes of the lists.                                     *)
LEMMA FeedIs ==
  ASSUME FeedTyped, NEW answers \in BOOLEAN
  PROVE  /\ Pages!Feed(answers) \subseteq Pages!Shown
         /\ Pages!Feed(TRUE) = Pages!Newest(Merged, FEED_LIMIT)
<1> DEFINE transactions ==
             IF answers THEN Pages!ListOf(FeedPayments) \cup Pages!ListOf(FeedPurchases) ELSE {}
           all == (Lifecycle \cup transactions) \cap Pages!Shown
<1>1. Pages!Feed(answers) = Pages!Newest(all, FEED_LIMIT)
  BY DEF Pages!Feed
<1>2. all \in SUBSET Pages!Items /\ all \subseteq Pages!Shown
  BY ItemSets
<1>3. Pages!Newest(all, FEED_LIMIT) \subseteq all
  <2> HIDE DEF all
  <2> QED
    BY <1>2, FeedConstants, NewestHas
<1>4. Pages!Feed(TRUE) = Pages!Newest(Merged, FEED_LIMIT)
  BY DEF Pages!Feed, Merged
<1> QED
  BY <1>1, <1>2, <1>3, <1>4

LEMMA PageHas ==
  ASSUME NEW rest \in SUBSET Pages!Items
  PROVE  LET page == Pages!PageOf(rest) IN
         /\ page \in Pages!Pages /\ page.items \subseteq rest
         /\ \A i \in page.items, j \in rest \ page.items : j < i
         /\ page.next = None => page.items = rest
         /\ page.next # None => page.next \in page.items
                                  /\ \A i \in page.items : page.next <= i
<1> DEFINE N == Pages!Newest(rest, PAGE)
           page == Pages!PageOf(rest)
<1>1. /\ N \subseteq rest /\ (\A i \in N, j \in rest : i <= j => j \in N)
      /\ rest # {} => N # {}
  BY FeedConstants, NewestHas
<1>2. page = [items |-> N, next |-> IF N # rest THEN Pages!Min(N) ELSE None]
  BY DEF Pages!PageOf
<1> HIDE DEF N
<1>3. page.items = N /\ page.next = IF N # rest THEN Pages!Min(N) ELSE None
  BY <1>2
<1>4. \A i \in rest : i \in Nat
  BY FeedConstants
<1>5. ASSUME NEW i \in N, NEW j \in rest \ N PROVE j < i
  BY <1>1, <1>4, <1>5
<1>6. N # rest => Pages!Min(N) \in N /\ \A i \in N : Pages!Min(N) <= i
  <2>1. N # rest => N # {} /\ N \in SUBSET Pages!Items
    BY <1>1
  <2> QED
    BY <2>1, PagesMaxMin
<1>7. N # rest => Pages!Min(N) # None
  BY <1>1, <1>6, FeedConstants
<1>8. page \in Pages!Pages
  BY <1>1, <1>2, <1>6 DEF Pages!Pages
<1> HIDE DEF page
<1> QED
  BY <1>1, <1>3, <1>5, <1>6, <1>7, <1>8 DEF page

(* A page more.                                                            *)
LEMMA OneMore ==
  ASSUME NEW s \in Seq(Pages!Pages), NEW page \in Pages!Pages
  PROVE  LET more == Append(s, page) IN
         /\ more \in Seq(Pages!Pages) /\ more # <<>> /\ Len(more) = Len(s) + 1
         /\ DOMAIN more = DOMAIN s \cup {Len(s) + 1} /\ Len(s) + 1 \notin DOMAIN s
         /\ \A k \in DOMAIN s : more[k] = s[k]
         /\ more[Len(s) + 1] = page /\ NextOf(more) = page.next
         /\ ItemsOf(more) = ItemsOf(s) \cup page.items
<1> DEFINE more == Append(s, page)
<1>1. /\ more \in Seq(Pages!Pages) /\ Len(more) = Len(s) + 1 /\ Len(s) \in Nat
      /\ more # <<>>
  OBVIOUS
<1>2. DOMAIN more = 1 .. Len(s) + 1 /\ DOMAIN s = 1 .. Len(s)
  BY <1>1
<1>3. (\A k \in DOMAIN s : more[k] = s[k]) /\ more[Len(s) + 1] = page
  OBVIOUS
<1> HIDE DEF more
<1>4. DOMAIN more = DOMAIN s \cup {Len(s) + 1} /\ Len(s) + 1 \notin DOMAIN s
  BY <1>1, <1>2
<1>5. ItemsOf(more) = ItemsOf(s) \cup page.items
  BY <1>3, <1>4 DEF ItemsOf
<1>6. NextOf(more) = page.next
  BY <1>1, <1>3 DEF NextOf
<1> QED
  BY <1>1, <1>3, <1>4, <1>5, <1>6 DEF more

LEMMA SomeItems ==
  ASSUME NEW s \in Seq(Pages!Pages)
  PROVE  /\ ItemsOf(s) \in SUBSET Pages!Items /\ \A i \in ItemsOf(s) : i \in Nat
         /\ s # <<>> => s[Len(s)].items \subseteq ItemsOf(s)
<1>1. \A k \in DOMAIN s : s[k].items \in SUBSET Pages!Items
  <2>1. \A k \in DOMAIN s : s[k] \in Pages!Pages
    OBVIOUS
  <2> QED
    BY <2>1 DEF Pages!Pages
<1>2. s # <<>> => Len(s) \in DOMAIN s
  OBVIOUS
<1> QED
  BY <1>1, <1>2, FeedConstants DEF ItemsOf

LEMMA ChainMore ==
  ASSUME NEW s \in Seq(Pages!Pages), Chain(s), NEW rest \in SUBSET Pages!Items,
         s # <<>> => NextOf(s) # None /\ \A i \in rest : i < NextOf(s)
  PROVE  Chain(Append(s, Pages!PageOf(rest)))
<1> DEFINE page == Pages!PageOf(rest)
           more == Append(s, page)
<1>1. /\ page \in Pages!Pages /\ page.items \subseteq rest
      /\ page.next # None => page.next \in page.items
                               /\ \A i \in page.items : page.next <= i
  BY PageHas
<1>2. \A i \in rest : i \in Nat
  BY FeedConstants
<1> HIDE DEF page
<1>3. /\ more # <<>> /\ Len(more) = Len(s) + 1 /\ DOMAIN more = DOMAIN s \cup {Len(s) + 1}
      /\ DOMAIN s = 1 .. Len(s) /\ Len(s) \in Nat
      /\ \A k \in DOMAIN s : more[k] = s[k]
      /\ more[Len(s) + 1] = page /\ NextOf(more) = page.next
      /\ ItemsOf(more) = ItemsOf(s) \cup page.items
  BY <1>1, OneMore
<1> HIDE DEF more
<1>4. ASSUME s # <<>>, NEW i \in ItemsOf(s), NEW j \in page.items PROVE j < i
  <2>1. NextOf(s) \in ItemsOf(s) /\ NextOf(s) <= i
    BY <1>4, SomeItems DEF Chain, NextOf
  <2>2. i \in Nat /\ NextOf(s) \in Nat
    BY <2>1, SomeItems
  <2>3. j < NextOf(s) /\ j \in Nat
    BY <1>1, <1>2, <1>4
  <2> QED
    BY <2>1, <2>2, <2>3
<1>5. ASSUME NEW k \in DOMAIN more, NEW l \in DOMAIN more, k < l,
             NEW i \in more[k].items, NEW j \in more[l].items
      PROVE  j < i
  <2>1. k \in DOMAIN s
    BY <1>3, <1>5
  <2>2. CASE l \in DOMAIN s
    BY <1>3, <1>5, <2>1, <2>2 DEF Chain
  <2>3. CASE l = Len(s) + 1
    <3>1. j \in page.items /\ i \in ItemsOf(s) /\ s # <<>>
      BY <1>3, <1>5, <2>1, <2>3 DEF ItemsOf
    <3> QED
      BY <1>4, <3>1
  <2> QED
    BY <1>3, <2>2, <2>3
<1>6. ASSUME page.next # None
      PROVE  page.next \in page.items /\ \A i \in ItemsOf(more) : page.next <= i
  <2>1. page.next \in page.items /\ \A i \in page.items : page.next <= i
    BY <1>1, <1>6
  <2>2. ASSUME NEW i \in ItemsOf(s) PROVE page.next <= i
    <3>1. s # <<>>
      BY DEF ItemsOf
    <3>2. page.next < i /\ page.next \in Nat /\ i \in Nat
      BY <1>1, <1>2, <1>4, <2>1, <3>1, SomeItems
    <3> QED
      BY <3>2
  <2> QED
    BY <1>3, <2>1, <2>2
<1>7. more[Len(more)] = page
  BY <1>3
<1> QED
  BY <1>3, <1>5, <1>6, <1>7 DEF Chain, more, page

LEMMA GapMore ==
  ASSUME FeedTyped, NEW s \in Seq(Pages!Pages), Chain(s), NEW c \in Pages!Items \cup {None},
         NoGap(s, Merged, Pages!Shown),
         s = <<>> => c = None,
         s # <<>> => c = NextOf(s) /\ c # None /\ c \in Pages!Feed(TRUE)
  PROVE  NoGap(Append(s, Pages!PageOf(Pages!After(Pages!Feed(TRUE), c))), Merged, Pages!Shown)
<1> DEFINE feed == Pages!Feed(TRUE)
           rest == Pages!After(feed, c)
           page == Pages!PageOf(rest)
           more == Append(s, page)
<1>1. Merged \in SUBSET Pages!Items /\ Pages!Shown \in SUBSET Pages!Items
  BY ItemSets
<1>2. /\ feed \subseteq Merged /\ (\A i \in feed, j \in Merged : i <= j => j \in feed)
      /\ feed # Merged => FEED_LIMIT <= Cardinality(feed)
      /\ feed \subseteq Pages!Shown
  <2>1. feed = Pages!Newest(Merged, FEED_LIMIT) /\ feed \subseteq Pages!Shown
    BY FeedIs
  <2> HIDE DEF feed
  <2> QED
    BY <1>1, <2>1, FeedConstants, NewestHas
<1> HIDE DEF feed
<1>3. rest = {i \in feed : c = None \/ i < c} /\ rest \in SUBSET Pages!Items
  BY <1>1, <1>2 DEF Pages!After
<1> HIDE DEF rest
<1>4. /\ page \in Pages!Pages /\ page.items \subseteq rest
      /\ \A i \in page.items, j \in rest \ page.items : j < i
      /\ page.next = None => page.items = rest
  BY <1>3, PageHas
<1> HIDE DEF page
<1>5. NextOf(more) = page.next /\ ItemsOf(more) = ItemsOf(s) \cup page.items
  BY <1>4, OneMore
<1> HIDE DEF more
<1>6. \A i \in Merged : i \in Nat
  BY <1>1, FeedConstants
<1>7. \A i \in ItemsOf(s) : i \in Nat
  BY SomeItems
<1>8. ItemsOf(s) # {} => s # <<>>
  BY DEF ItemsOf
<1>9. s # <<>> => c \in ItemsOf(s) /\ c \in Nat /\ c \in feed /\ \A i \in ItemsOf(s) : c <= i
  BY <1>7, SomeItems DEF Chain, NextOf, feed
<1> DEFINE old == ItemsOf(s)
           all == ItemsOf(more)
<1> HIDE DEF old, all
<1>10. all = old \cup page.items /\ (\A i \in all : i \in Nat) /\ all \in SUBSET Pages!Items
  BY <1>1, <1>2, <1>3, <1>4, <1>5, <1>6, <1>7, SomeItems DEF old, all
<1>11. old # {} => \A i \in Merged \ old : (\A j \in old : j < i) \/ (\A j \in old : i < j)
  BY DEF NoGap, old
(* What is not on the pages is above all of them, or below all of them.    *)
<1>12. ASSUME NEW i \in Merged \ all
       PROVE  \/ old # {} /\ \A j \in all : j < i
              \/ (\A j \in all : i < j) /\ (i \in rest \/ i \notin feed)
  <2>1. CASE old # {} /\ \A j \in old : j < i
    <3>1. c \in old /\ c \in Nat /\ c < i /\ c # None
      BY <1>8, <1>9, <2>1 DEF old
    <3>2. \A j \in page.items : j < c /\ j \in Nat
      BY <1>2, <1>3, <1>4, <1>6, <3>1
    <3> QED
      BY <1>6, <1>10, <2>1, <3>1, <3>2
  <2>2. CASE old = {} \/ \A j \in old : i < j
    <3>1. \A j \in old : i < j
      BY <2>2
    <3>2. c = None \/ i < c
      BY <1>9, <3>1 DEF old
    <3>3. CASE i \in feed
      <4>1. i \in rest \ page.items
        BY <1>3, <1>10, <3>2, <3>3
      <4> QED
        BY <1>4, <1>10, <3>1, <4>1
    <3>4. CASE i \notin feed
      <4>1. ASSUME NEW j \in page.items PROVE i < j
        <5>1. j \in feed /\ j \in Nat /\ i \in Nat
          BY <1>2, <1>3, <1>4, <1>6
        <5>2. ~(j <= i)
          BY <1>2, <3>4, <5>1
        <5> QED
          BY <5>1, <5>2
      <4> QED
        BY <1>10, <3>1, <3>4, <4>1
    <3> QED
      BY <3>3, <3>4
  <2> QED
    BY <1>10, <1>11, <1>12, <2>1, <2>2
(* When nothing is left below, and the feed was cut, it was full.          *)
<1>13. ASSUME page.next = None, NEW i \in Merged \ feed, \A j \in all : i < j
       PROVE  Filled(all, Pages!Shown)
  <2> DEFINE top == {k \in Pages!Shown : \A j \in all : j < k}
  <2>1. feed \subseteq all \cup top
    <3> SUFFICES ASSUME NEW f \in feed, f \notin all PROVE f \in top
      OBVIOUS
    <3>1. f \in Merged \ all /\ f \in Pages!Shown
      BY <1>2
    <3>2. f \notin rest
      BY <1>4, <1>10, <1>13
    <3> QED
      BY <1>12, <3>1, <3>2
  <2>2. all \cup top \in SUBSET Pages!Items
    BY <1>1, <1>10
  <2>3. FEED_LIMIT <= Cardinality(feed)
    BY <1>2, <1>13
  <2>4. /\ Cardinality(feed) <= Cardinality(all \cup top)
        /\ Cardinality(feed) \in Nat /\ Cardinality(all \cup top) \in Nat
    <3> HIDE DEF top
    <3> QED
      BY <2>1, <2>2, FewerItems
  <2>5. FEED_LIMIT <= Cardinality(all \cup top)
    <3> HIDE DEF top
    <3> QED
      BY <2>3, <2>4, FeedConstants
  <2> QED
    BY <2>5 DEF Filled
<1>14. ASSUME all # {}, NEW i \in Merged \ all
       PROVE  \/ \A j \in all : j < i
              \/ (\A j \in all : i < j) /\ (page.next # None \/ Filled(all, Pages!Shown))
  <2>1. CASE page.next # None
    BY <1>12, <2>1
  <2>2. CASE page.next = None
    <3>1. i \notin rest
      BY <1>4, <1>10, <2>2
    <3> QED
      BY <1>12, <1>13, <2>2, <3>1
  <2> QED
    BY <2>1, <2>2
<1>15. NoGap(more, Merged, Pages!Shown)
  BY <1>5, <1>14 DEF NoGap, all
<1> QED
  BY <1>15 DEF more, page, rest, feed

(* Items that come on top leave no gap.                                    *)
LEMMA GapStays ==
  ASSUME NEW s \in Seq(Pages!Pages), NEW M \in SUBSET Pages!Items, NEW M2,
         NEW S \in SUBSET Pages!Items, NEW S2 \in SUBSET Pages!Items,
         NEW i, M2 \subseteq M \cup {i}, S \subseteq S2, \A j \in ItemsOf(s) : j < i,
         NoGap(s, M, S)
  PROVE  NoGap(s, M2, S2)
<1> DEFINE L == ItemsOf(s)
<1>1. L \in SUBSET Pages!Items
  BY SomeItems
<1> HIDE DEF L
<1>2. ASSUME Filled(L, S) PROVE Filled(L, S2)
  <2> DEFINE top == L \cup {k \in S : \A j \in L : j < k}
             top2 == L \cup {k \in S2 : \A j \in L : j < k}
  <2>1. top \subseteq top2 /\ top2 \in SUBSET Pages!Items
    BY <1>1
  <2>2. FEED_LIMIT <= Cardinality(top)
    BY <1>2 DEF Filled
  <2> HIDE DEF top, top2
  <2>3. FEED_LIMIT <= Cardinality(top2)
    BY <2>1, <2>2, FewerItems, FeedConstants
  <2> QED
    BY <2>3 DEF Filled, top2
<1> QED
  BY <1>2 DEF NoGap, L

(* The feed at first.                                                      *)
LEMMA NoPages == Chain(<<>>) /\ ItemsOf(<<>>) = {}
BY DEF Chain, ItemsOf

LEMMA FeedInit == Pages!Init => FeedInv
<1> SUFFICES ASSUME Pages!Init PROVE FeedInv
  OBVIOUS
<1>1. /\ pages = <<>> /\ error = "none" /\ throttled = FALSE /\ steady = TRUE
      /\ fetch = [mode |-> "all", want |-> 1, got |-> <<>>, steady |-> TRUE]
      /\ item \in [Pages!Items -> {"absent", "shown", "hidden"}]
  BY DEF Pages!Init, Pages!Fetching, Pages!Idle
<1>2. FeedTyped
  <2>1. fetch \in [mode : {"idle", "all", "more"}, want : Nat, got : Seq(Pages!Pages),
                   steady : BOOLEAN]
    BY <1>1
  <2>2. Len(fetch.got) <= fetch.want
    BY <1>1
  <2> QED
    BY <1>1, <2>1, <2>2 DEF FeedTyped
<1>3. Chained /\ Asked /\ Gapless
  BY <1>1, NoPages DEF Chained, Asked, Gapless, NoGap
<1> QED
  BY <1>2, <1>3 DEF FeedInv

(* Items that come and go; on top, or no longer steady.                    *)
LEMMA TopArrives ==
  ASSUME FeedInv, NEW i \in Pages!Items, \A j \in Pages!Items : item[j] # "absent" => j < i,
         item[i] = "absent", NEW new \in {"shown", "hidden"},
         item' = [item EXCEPT ![i] = new]
  PROVE  /\ Merged' \subseteq Merged \cup {i} /\ Pages!Shown \subseteq Pages!Shown'
         /\ Pages!Shown' \in SUBSET Pages!Items
<1>1. /\ item \in [Pages!Items -> {"absent", "shown", "hidden"}]
      /\ FeedTyped
  BY DEF FeedInv, FeedTyped
<1>2. /\ Pages!Shown \subseteq Pages!Shown' /\ Pages!Shown' \subseteq Pages!Shown \cup {i}
      /\ Pages!Shown' \subseteq Pages!Items
  BY <1>1 DEF Pages!Shown
<1>3. ASSUME NEW list \in SUBSET Pages!Items
      PROVE  Pages!ListOf(list)' \subseteq Pages!ListOf(list) \cup {i}
  <2> DEFINE S == {j \in list : item[j] # "absent"}
             T == {j \in list : item'[j] # "absent"}
  <2>1. S \in SUBSET Pages!Items /\ T \in SUBSET Pages!Items /\ S \subseteq T
        /\ T \subseteq S \cup {i}
    BY <1>1
  <2>2. Pages!ListOf(list) = Pages!Newest(S, LIST_LIMIT)
    BY DEF Pages!ListOf
  <2>3. Pages!ListOf(list)' = Pages!Newest(T, LIST_LIMIT)
    BY DEF Pages!ListOf, Pages!Newest
  <2> HIDE DEF S, T
  <2>4. /\ Pages!Newest(T, LIST_LIMIT) \subseteq T
        /\ Pages!Newest(T, LIST_LIMIT) \cap S \subseteq Pages!Newest(S, LIST_LIMIT)
    BY <2>1, FeedConstants, NewestHas, NewestShrinks
  <2> QED
    BY <2>1, <2>2, <2>3, <2>4
<1>4. /\ Pages!ListOf(FeedPayments)' \subseteq Pages!ListOf(FeedPayments) \cup {i}
      /\ Pages!ListOf(FeedPurchases)' \subseteq Pages!ListOf(FeedPurchases) \cup {i}
  BY <1>3 DEF Pages!Items
<1> QED
  BY <1>2, <1>4 DEF Merged

LEMMA ItemStep ==
  ASSUME FeedInv, NEW i \in Pages!Items,
         Pages!ItemArrives(i) \/ Pages!ItemEnters(i) \/ Pages!ItemGoes(i)
  PROVE  FeedInv'
<1>1. PICK yes \in BOOLEAN, new \in {"shown", "hidden"} :
        /\ item' = [item EXCEPT ![i] = new]
        /\ Pages!Steady(yes) /\ UNCHANGED <<pages, error, throttled>>
        /\ yes => /\ item[i] = "absent"
                  /\ \A j \in Pages!Items : item[j] # "absent" => j < i
  <2>1. CASE Pages!ItemArrives(i)
    BY <2>1 DEF Pages!ItemArrives
  <2>2. CASE Pages!ItemEnters(i)
    BY <2>2 DEF Pages!ItemEnters
  <2>3. CASE Pages!ItemGoes(i)
    BY <2>3 DEF Pages!ItemGoes
  <2> QED
    BY <2>1, <2>2, <2>3
<1>2. /\ FeedTyped /\ item \in [Pages!Items -> {"absent", "shown", "hidden"}]
      /\ fetch \in [mode : {"idle", "all", "more"}, want : Nat, got : Seq(Pages!Pages),
                    steady : BOOLEAN]
      /\ steady \in BOOLEAN /\ pages \in Seq(Pages!Pages) /\ Len(fetch.got) <= fetch.want
  BY DEF FeedInv, FeedTyped
<1>3. /\ steady' = (steady /\ yes) /\ fetch' = [fetch EXCEPT !.steady = fetch.steady /\ yes]
  BY <1>1 DEF Pages!Steady
<1>4. /\ fetch'.mode = fetch.mode /\ fetch'.want = fetch.want /\ fetch'.got = fetch.got
      /\ fetch'.steady = (fetch.steady /\ yes) /\ fetch.got \in Seq(Pages!Pages)
  BY <1>2, <1>3
<1>5. FeedTyped'
  <2>1. fetch' \in [mode : {"idle", "all", "more"}, want : Nat, got : Seq(Pages!Pages),
                    steady : BOOLEAN]
    BY <1>2, <1>3
  <2>2. item' \in [Pages!Items -> {"absent", "shown", "hidden"}] /\ steady' \in BOOLEAN
    BY <1>1, <1>2, <1>3
  <2> QED
    BY <1>1, <1>2, <1>4, <2>1, <2>2 DEF FeedTyped
<1>6. Present \subseteq Present'
  BY <1>1, <1>2 DEF Present
<1>7. Chained' /\ Asked'
  BY <1>1, <1>4, <1>6 DEF FeedInv, Chained, Asked, Chain, ItemsOf, NextOf
<1>8. CASE ~yes
  BY <1>3, <1>4, <1>5, <1>7, <1>8 DEF FeedInv, Gapless
<1>9. CASE yes
  <2>1. /\ Merged' \subseteq Merged \cup {i} /\ Pages!Shown \subseteq Pages!Shown'
        /\ Pages!Shown' \in SUBSET Pages!Items
    BY <1>1, <1>9, TopArrives
  <2>2. Merged \in SUBSET Pages!Items /\ Pages!Shown \in SUBSET Pages!Items
    BY <1>2, ItemSets
  <2>3. \A j \in ItemsOf(pages) \cup ItemsOf(fetch.got) : j < i
    BY <1>1, <1>9 DEF FeedInv, Chained, Present
  <2>4. steady' => NoGap(pages, Merged', Pages!Shown')
    BY <1>2, <1>3, <2>1, <2>2, <2>3, GapStays DEF FeedInv, Gapless
  <2>5. fetch'.steady => NoGap(fetch.got, Merged', Pages!Shown')
    <3>1. fetch'.steady => fetch.steady
      BY <1>4
    <3>2. fetch.steady => NoGap(fetch.got, Merged, Pages!Shown)
      BY DEF FeedInv, Gapless
    <3>3. NoGap(fetch.got, Merged, Pages!Shown)
            => NoGap(fetch.got, Merged', Pages!Shown')
      <4>1. fetch.got \in Seq(Pages!Pages) /\ \A j \in ItemsOf(fetch.got) : j < i
        BY <1>4, <2>3
      <4> QED
        BY <2>1, <2>2, <4>1, GapStays
    <3> QED
      BY <3>1, <3>2, <3>3
  <2>6. Gapless'
    BY <1>1, <1>4, <2>4, <2>5 DEF Gapless
  <2> QED
    BY <1>5, <1>7, <2>6 DEF FeedInv
<1> QED
  BY <1>8, <1>9

(* A fetch that starts, and ends without pages; those that are there stay. *)
LEMMA QueryMoves ==
  ASSUME FeedInv, UNCHANGED item,
         NEW m \in {"idle", "all", "more"}, NEW n \in Nat,
         fetch' = [mode |-> m, want |-> n, got |-> <<>>, steady |-> TRUE],
         \/ UNCHANGED <<pages, steady>>
         \/ pages' = <<>> /\ steady' = TRUE,
         m = "more" => pages' # <<>> /\ NextOf(pages') # None,
         error' \in {"none", "stale", "failed"}, throttled' \in BOOLEAN
  PROVE  FeedInv'
<1>1. /\ fetch'.mode = m /\ fetch'.got = <<>> /\ fetch'.want = n /\ fetch'.steady = TRUE
      /\ fetch' \in [mode : {"idle", "all", "more"}, want : Nat, got : Seq(Pages!Pages),
                     steady : BOOLEAN]
  OBVIOUS
<1>2. UNCHANGED <<Present, Merged, Pages!Shown>>
  BY DEF Present, Merged, Pages!Shown, Pages!ListOf
<1>3. FeedTyped'
  <2>1. pages' \in Seq(Pages!Pages) /\ steady' \in BOOLEAN
    <3>1. pages \in Seq(Pages!Pages) /\ steady \in BOOLEAN /\ <<>> \in Seq(Pages!Pages)
      BY DEF FeedInv, FeedTyped
    <3> QED
      BY <3>1
  <2>2. Len(fetch'.got) <= fetch'.want
    BY <1>1
  <2> QED
    BY <1>1, <2>1, <2>2 DEF FeedInv, FeedTyped
<1>4. /\ Chain(pages') /\ ItemsOf(pages') \subseteq Present
      /\ steady' => NoGap(pages', Merged, Pages!Shown)
  <2>1. CASE UNCHANGED <<pages, steady>>
    BY <2>1 DEF FeedInv, Chained, Gapless
  <2>2. CASE pages' = <<>>
    BY <2>2, NoPages DEF NoGap
  <2> QED
    BY <2>1, <2>2
<1>5. Chained'
  BY <1>1, <1>2, <1>4, NoPages DEF Chained
<1>6. Asked'
  BY <1>1 DEF Asked
<1>7. Gapless'
  BY <1>1, <1>2, <1>4, NoPages DEF Gapless, NoGap
<1> QED
  BY <1>3, <1>5, <1>6, <1>7 DEF FeedInv

LEMMA QuerySteps ==
  ASSUME FeedInv,
         Pages!RefetchTick \/ Pages!LoadMore \/ Pages!RequestFails
           \/ (Pages!Stale /\ UNCHANGED item)
  PROVE  FeedInv'
<1>1. error \in {"none", "stale", "failed"} /\ throttled \in BOOLEAN /\ pages \in Seq(Pages!Pages)
  BY DEF FeedInv, FeedTyped
<1>2. CASE Pages!RefetchTick
  <2>1. Pages!Max({1, Len(pages)}) \in Nat
    <3>1. Len(pages) \in Nat
      BY <1>1
    <3>2. \E m \in {1, Len(pages)} : \A x \in {1, Len(pages)} : m >= x
      BY <3>1
    <3> QED
      BY <3>1, <3>2 DEF Pages!Max
  <2> QED
    BY <1>1, <1>2, <2>1, QueryMoves DEF Pages!RefetchTick, Pages!Fetching, Pages!Idle
<1>3. CASE Pages!LoadMore
  BY <1>1, <1>3, QueryMoves
     DEF Pages!LoadMore, Pages!Fetching, Pages!Idle, Pages!Last, NextOf
<1>4. CASE Pages!RequestFails
  BY <1>1, <1>4, QueryMoves DEF Pages!RequestFails, Pages!Idle
<1>5. CASE Pages!Stale /\ UNCHANGED item
  BY <1>1, <1>5, QueryMoves DEF Pages!Stale, Pages!Fetching, Pages!Idle
<1> QED
  BY <1>2, <1>3, <1>4, <1>5

(* A page comes: after those of its fetch, or after those there are.       *)
LEMMA ReceiveStep ==
  ASSUME FeedInv, NEW answers \in BOOLEAN, fetch.mode # "idle",
         Pages!Cursor = None \/ Pages!Cursor \in Pages!Feed(answers),
         Pages!Receive(Pages!PageOf(Pages!After(Pages!Feed(answers), Pages!Cursor)), answers),
         UNCHANGED <<item, throttled>>
  PROVE  FeedInv'
<1> DEFINE c == Pages!Cursor
           s == IF fetch.mode = "all" THEN fetch.got ELSE pages
           rest == Pages!After(Pages!Feed(answers), c)
           page == Pages!PageOf(rest)
           more == Append(s, page)
<1>1. /\ FeedTyped /\ pages \in Seq(Pages!Pages) /\ fetch.got \in Seq(Pages!Pages)
      /\ fetch.mode \in {"all", "more"} /\ fetch.want \in Nat /\ fetch.steady \in BOOLEAN
      /\ fetch \in [mode : {"idle", "all", "more"}, want : Nat, got : Seq(Pages!Pages),
                    steady : BOOLEAN]
      /\ steady \in BOOLEAN /\ throttled \in BOOLEAN
  BY DEF FeedInv, FeedTyped
<1>2. /\ s \in Seq(Pages!Pages) /\ Chain(s) /\ ItemsOf(s) \subseteq Present
      /\ s = <<>> => c = None
      /\ s # <<>> => c = NextOf(s) /\ c # None
  <2>1. CASE fetch.mode = "all"
    BY <1>1, <2>1 DEF FeedInv, Chained, Asked, Pages!Cursor, Pages!Last, NextOf
  <2>2. CASE fetch.mode = "more"
    BY <1>1, <2>2 DEF FeedInv, Chained, Asked, Pages!Cursor, Pages!Last, NextOf
  <2> QED
    BY <1>1, <2>1, <2>2
<1>3. /\ c \in Pages!Items \cup {None} /\ rest \in SUBSET Present
      /\ Pages!Feed(answers) \subseteq Present
      /\ s # <<>> => c \in Pages!Feed(answers) /\ \A i \in rest : i < NextOf(s)
  <2>1. Pages!Feed(answers) \subseteq Present /\ Present \subseteq Pages!Items
    BY <1>1, FeedIs, ItemSets
  <2> QED
    BY <1>2, <2>1 DEF Pages!After
<1>4. /\ page \in Pages!Pages /\ page.items \subseteq rest
  BY <1>1, <1>3, ItemSets, PageHas
<1>5. Chain(more)
  BY <1>1, <1>2, <1>3, ItemSets, ChainMore
<1>6. more \in Seq(Pages!Pages) /\ ItemsOf(more) \subseteq Present /\ more # <<>>
      /\ NextOf(more) = page.next
  <2> HIDE DEF s, rest, page
  <2> QED
    BY <1>2, <1>3, <1>4, OneMore
<1>7. ASSUME answers, NoGap(s, Merged, Pages!Shown)
      PROVE  NoGap(more, Merged, Pages!Shown)
  <2>1. answers = TRUE
    BY <1>7
  <2> QED
    BY <1>1, <1>2, <1>3, <1>7, <2>1, GapMore
<1>8. UNCHANGED <<Present, Merged, Pages!Shown>>
  BY DEF Present, Merged, Pages!Shown, Pages!ListOf
<1> DEFINE got == Append(fetch.got, page)
           goesOn == fetch.mode = "all" /\ Len(got) < fetch.want /\ page.next # None
<1>9. CASE goesOn
  <2>1. /\ fetch' = [fetch EXCEPT !.got = got, !.steady = fetch.steady /\ answers]
        /\ UNCHANGED <<pages, error, steady>> /\ got = more /\ fetch.mode = "all"
    BY <1>9 DEF Pages!Receive
  <2>2. Len(more) <= fetch.want /\ page.next # None
    BY <1>1, <1>6, <1>9, <2>1
  <2> HIDE DEF goesOn, got, more, page
  <2>3. /\ fetch'.mode = "all" /\ fetch'.got = more /\ fetch'.want = fetch.want
        /\ fetch'.steady = (fetch.steady /\ answers)
        /\ fetch' \in [mode : {"idle", "all", "more"}, want : Nat, got : Seq(Pages!Pages),
                       steady : BOOLEAN]
    BY <1>1, <1>6, <2>1
  <2>4. FeedTyped'
    BY <2>1, <2>2, <2>3 DEF FeedInv, FeedTyped
  <2>5. Chained'
    BY <1>5, <1>6, <1>8, <2>1, <2>3 DEF FeedInv, Chained
  <2>6. Asked'
    BY <1>6, <2>2, <2>3 DEF Asked
  <2>7. Gapless'
    <3>1. fetch'.steady => NoGap(more, Merged, Pages!Shown)
      BY <1>7, <2>1, <2>3 DEF FeedInv, Gapless
    <3> QED
      BY <1>8, <2>1, <2>3, <3>1 DEF FeedInv, Gapless
  <2> QED
    BY <2>4, <2>5, <2>6, <2>7 DEF FeedInv
<1>10. CASE ~goesOn
  <2>1. /\ pages' = IF fetch.mode = "all" THEN got ELSE pages \o got
        /\ steady' = ((IF fetch.mode = "all" THEN fetch.steady ELSE steady) /\ answers)
        /\ error' = "none"
        /\ fetch' = [mode |-> "idle", want |-> 0, got |-> <<>>, steady |-> TRUE]
    BY <1>10 DEF Pages!Receive, Pages!Idle
  <2>2. pages' = more
    <3>1. CASE fetch.mode = "all"
      BY <2>1, <3>1
    <3>2. CASE fetch.mode = "more"
      <4>1. fetch.got = <<>>
        BY <3>2 DEF FeedInv, Asked
      <4>2. pages' = pages \o Append(<<>>, page) /\ more = Append(pages, page)
        BY <2>1, <3>2, <4>1
      <4> HIDE DEF page, more
      <4>3. pages \o Append(<<>>, page) = Append(pages, page)
        BY <1>1, <1>4
      <4> QED
        BY <4>2, <4>3
    <3> QED
      BY <1>1, <3>1, <3>2
  <2> HIDE DEF goesOn, got, more, page
  <2>3. /\ fetch'.mode = "idle" /\ fetch'.got = <<>> /\ fetch'.steady = TRUE
        /\ Len(fetch'.got) <= fetch'.want
        /\ fetch' \in [mode : {"idle", "all", "more"}, want : Nat, got : Seq(Pages!Pages),
                       steady : BOOLEAN]
    BY <2>1
  <2>4. FeedTyped'
    BY <1>1, <1>6, <2>1, <2>2, <2>3 DEF FeedTyped
  <2>5. Chained'
    BY <1>5, <1>6, <1>8, <2>2, <2>3, NoPages DEF Chained
  <2>6. Asked'
    BY <2>3 DEF Asked
  <2>7. Gapless'
    <3>1. steady' => NoGap(more, Merged, Pages!Shown)
      BY <1>7, <2>1 DEF FeedInv, Gapless
    <3> QED
      BY <1>8, <2>2, <2>3, <3>1, NoPages DEF Gapless, NoGap
  <2> QED
    BY <2>4, <2>5, <2>6, <2>7 DEF FeedInv
<1> QED
  BY <1>9, <1>10

LEMMA PageStep == ASSUME FeedInv, Pages!PageAnswered PROVE FeedInv'
<1>1. PICK answers \in BOOLEAN :
        /\ fetch.mode # "idle"
        /\ IF Pages!Cursor # None /\ Pages!Cursor \notin Pages!Feed(answers) THEN Pages!Stale
           ELSE /\ Pages!Receive(Pages!PageOf(Pages!After(Pages!Feed(answers), Pages!Cursor)),
                                 answers)
                /\ UNCHANGED throttled
        /\ UNCHANGED item
  BY DEF Pages!PageAnswered
<1>2. CASE Pages!Cursor # None /\ Pages!Cursor \notin Pages!Feed(answers)
  BY <1>1, <1>2, QuerySteps
<1>3. CASE Pages!Cursor = None \/ Pages!Cursor \in Pages!Feed(answers)
  BY <1>1, <1>3, ReceiveStep
<1> QED
  BY <1>2, <1>3

LEMMA ThrottleStep ==
  ASSUME FeedInv, UNCHANGED <<item, pages, error, fetch, steady>>, throttled' \in BOOLEAN
  PROVE  FeedInv'
<1>1. UNCHANGED <<Present, Merged, Pages!Shown>>
  BY DEF Present, Merged, Pages!Shown, Pages!ListOf
<1>2. FeedTyped'
  BY DEF FeedInv, FeedTyped
<1>3. Chained' /\ Asked'
  BY <1>1 DEF FeedInv, Chained, Asked, Chain, ItemsOf, NextOf
<1>4. Gapless'
  <2>1. UNCHANGED <<NoGap(pages, Merged, Pages!Shown), NoGap(fetch.got, Merged, Pages!Shown)>>
    BY <1>1 DEF NoGap, ItemsOf, NextOf, Filled
  <2> QED
    BY <2>1 DEF FeedInv, Gapless
<1> QED
  BY <1>2, <1>3, <1>4 DEF FeedInv

(* Whatever comes, goes, fails and is asked for again in between, no item  *)
(* is on two pages of the feed; and while items only arrive on top and the *)
(* payment node answers, the pages have no gap, for every number of items  *)
(* and every limit.                                                        *)
THEOREM FeedHasNoGap == Pages!Spec => []FeedInvariant
<1>1. FeedInv /\ [Pages!Next]_Pages!vars => FeedInv'
  <2> SUFFICES ASSUME FeedInv, [Pages!Next]_Pages!vars PROVE FeedInv'
    OBVIOUS
  <2>1. CASE UNCHANGED Pages!vars
    BY <2>1, ThrottleStep DEF Pages!vars, FeedInv, FeedTyped
  <2>2. CASE Pages!ThrottleEnds
    BY <2>2, ThrottleStep DEF Pages!ThrottleEnds
  <2> QED
    BY <2>1, <2>2, ItemStep, QuerySteps, PageStep DEF Pages!Next
<1>2. FeedInv => FeedInvariant
  <2> SUFFICES ASSUME FeedInv PROVE FeedInvariant
    OBVIOUS
  <2> DEFINE L == Pages!Listed
  <2>1. /\ FeedTyped /\ pages \in Seq(Pages!Pages)
        /\ \A k \in DOMAIN pages : pages[k] \in Pages!Pages
    BY DEF FeedInv, FeedTyped
  <2>2. L = ItemsOf(pages) /\ L \in SUBSET Pages!Items
    BY <2>1, SomeItems DEF Pages!Listed, ItemsOf
  <2>3. Pages!TypeOK
    BY <2>1 DEF Pages!TypeOK, FeedTyped
  <2>4. Pages!PagesDisjoint
    BY DEF Pages!PagesDisjoint, FeedInv, Chained, Chain
  <2>5. Pages!PagesContiguous
    <3> SUFFICES ASSUME steady, L # {}, NEW i \in Pages!Feed(TRUE) \ L
                 PROVE  \/ i > Pages!Max(L)
                        \/ /\ i < Pages!Min(L)
                           /\ Pages!Last(pages).next # None \/ Pages!Full
      BY DEF Pages!PagesContiguous
    <3> HIDE DEF L
    <3>1. i \in Merged \ L /\ i \in Pages!Items
      <4>1. Pages!Feed(TRUE) = Pages!Newest(Merged, FEED_LIMIT) /\ Merged \in SUBSET Pages!Items
        BY <2>1, FeedIs, ItemSets
      <4> QED
        BY <4>1, FeedConstants, NewestHas
    <3>2. \/ \A j \in L : j < i
          \/ (\A j \in L : i < j) /\ (NextOf(pages) # None \/ Filled(L, Pages!Shown))
      BY <2>2, <3>1 DEF FeedInv, Gapless, NoGap
    <3>3. /\ Pages!Max(L) \in L /\ (\A x \in L : x <= Pages!Max(L))
          /\ Pages!Min(L) \in L /\ Pages!Max(L) \in Nat /\ Pages!Min(L) \in Nat /\ i \in Nat
      BY <2>2, <3>1, PagesMaxMin, FeedConstants
    <3>4. Filled(L, Pages!Shown) => Pages!Full
      <4> DEFINE top == {k \in Pages!Shown : \A j \in L : j < k}
                 top2 == {k \in Pages!Shown : k > Pages!Max(L)}
      <4>1. (\A k \in Pages!Shown : k \in Nat) /\ \A j \in L : j \in Nat
        BY <2>1, <2>2, ItemSets, FeedConstants
      <4>2. ASSUME NEW k \in Pages!Shown PROVE (\A j \in L : j < k) <=> k > Pages!Max(L)
        BY <3>3, <4>1, <4>2
      <4>3. top = top2
        BY <4>2
      <4>4. Pages!Cardinality(L \cup top2) = Cardinality(L \cup top2)
        BY DEF Pages!Cardinality, Cardinality
      <4>5. Filled(L, Pages!Shown) <=> FEED_LIMIT <= Cardinality(L \cup top)
        BY DEF Filled
      <4>6. Pages!Full <=> Pages!Cardinality(L \cup top2) >= FEED_LIMIT
        BY DEF Pages!Full, L
      <4>7. L \cup top2 \in SUBSET Pages!Items
        BY <2>1, <2>2, ItemSets
      <4>8. Cardinality(L \cup top2) \in Nat
        BY <4>7, FewerItems
      <4> HIDE DEF top, top2
      <4> QED
        BY <4>3, <4>4, <4>5, <4>6, <4>8, FeedConstants
    <3> QED
      BY <3>2, <3>3, <3>4 DEF Pages!Last, NextOf
  <2> QED
    BY <2>3, <2>4, <2>5 DEF FeedInvariant, Pages!PagesInvariant
<1> QED
  BY <1>1, <1>2, FeedInit, PTL DEF Pages!Spec
==============================================================================
