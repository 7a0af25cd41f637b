--------------------------- MODULE TransactionBadge ---------------------------
(***************************************************************************)
(* The badge that counts new transactions: the hook of the dashboard and   *)
(* the activity page (useNewTransactionsCount.ts) polls the server, which  *)
(* asks the payment node for what changed since the watermark of the       *)
(* previous answer (loadActivityTransactionFeedPart of                     *)
(* build-merged-feed.ts), and adds what is new to a count kept in the      *)
(* browser.                                                                *)
(*                                                                         *)
(* The payment node is external: it lists its newest transactions, and the *)
(* ones changed after a time, oldest change first, Limit of them at most.  *)
(***************************************************************************)
EXTENDS Integers, FiniteSets, FiniteSetsExt

CONSTANTS Payments, Purchases,  \* the transactions of the two lists
          Hidden,               \* those of no agent of the user's
          Limit,                \* listLimit and diffLimit
          MaxTime, MaxDashboards, MaxActivities, MaxFaults  \* bounds

BadgeAssumption ==
  /\ Payments \cap Purchases = {} /\ Hidden \subseteq Payments \cup Purchases
  /\ IsFiniteSet(Payments \cup Purchases)
  /\ {Limit, MaxTime} \subseteq Nat \ {0} /\ {MaxDashboards, MaxActivities, MaxFaults} \subseteq Nat

VARIABLES now,         \* the time of the latest change
          created,     \* when each transaction was created, 0 for not yet
          changed,     \* when it changed last
          poll,        \* the request under way
          data,        \* the latest answer, as the query cache keeps it
          lastUpdate,  \* the mounted hook's watermark, 0 for none
          seen, seeded,       \* what the mounted hook has counted already
          lastVisit, count,   \* localStorage: 0 for no visit yet
          base, delivered,    \* only properties read these
          dashboards, activities, faults  \* bounded

node == <<now, created, changed>>
hook == <<lastUpdate, seen, seeded>>
storage == <<lastVisit, count>>
ghosts == <<base, delivered>>
bounded == <<dashboards, activities, faults>>
vars == <<node, poll, data, hook, storage, ghosts, bounded>>

Transactions == Payments \cup Purchases
Lists == {Payments, Purchases} \ {{}}
NoPoll == [pc |-> "idle", since |-> 0, left |-> {}, rows |-> {}, own |-> TRUE]

Init ==
  /\ now = 1 /\ created = [t \in Transactions |-> 0] /\ changed = created
  /\ poll = NoPoll /\ data = [rows |-> {}, last |-> 0]
  /\ lastUpdate = 0 /\ seen = {} /\ seeded = FALSE
  /\ lastVisit = 0 /\ count = 0
  /\ base = 0 /\ delivered = [t \in Transactions |-> 0]
  /\ dashboards = 0 /\ activities = 0 /\ faults = 0

------------------------------------------------------------------------------
(* The payment node: a transaction is created, or its state changes.       *)
NodeChanges(t) ==
  /\ now < MaxTime /\ now' = now + 1
  /\ created' = [created EXCEPT ![t] = IF @ = 0 THEN now' ELSE @]
  /\ changed' = [changed EXCEPT ![t] = now']
  /\ UNCHANGED <<poll, data, hook, storage, ghosts, bounded>>

FirstBy(S, rank(_)) == {t \in S : Cardinality({u \in S : rank(u) < rank(t)}) < Limit}
Newest(list) == LET S == {t \in list : created[t] # 0} IN FirstBy(S, LAMBDA t : -created[t])
Diff(list, since) == LET S == {t \in list : changed[t] > since} IN FirstBy(S, LAMBDA t : changed[t])

------------------------------------------------------------------------------
(* The server: the two lists are asked for at once and answer in any order.*)
PollSend ==
  /\ poll.pc = "idle"
  /\ poll' = [NoPoll EXCEPT !.pc = "lists", !.since = lastUpdate, !.left = Lists]
  /\ UNCHANGED <<node, data, hook, storage, ghosts, bounded>>

Row(t) == [id |-> t, created |-> created[t], changed |-> changed[t]]

ReadList(list) ==
  /\ poll.pc = "lists" /\ list \in poll.left
  /\ LET ids == IF poll.since = 0 THEN Newest(list) ELSE Diff(list, poll.since)
     IN  poll' = [poll EXCEPT !.left = @ \ {list}, !.rows = @ \cup {Row(t) : t \in ids}]
  /\ UNCHANGED <<node, data, hook, storage, ghosts, bounded>>

Visible == {r \in poll.rows : r.id \notin Hidden}

\* Mutant: the watermark of the first answer stays.
FirstWatermark ==
  IF poll.since # 0 \/ Visible = {} THEN poll.since ELSE Max({r.changed : r \in Visible})
Watermark ==
  IF Visible = {} THEN poll.since ELSE Max({r.changed : r \in Visible})

------------------------------------------------------------------------------
(* The hook: an answer changes the cached data, and data that changed has  *)
(* its effect, given what the mounted hook has counted and whether it has  *)
(* counted anything yet.                                                   *)
\* Mutant: the effect does not look at what was counted before.
UnseenOrNot(rows, counted, any) == {r \in rows : r.created > lastVisit}
NewOnes(rows, counted, any) ==
  {r \in rows : (any => r.id \notin counted) /\ r.created > lastVisit}

Effect(rows, counted, any) ==
  IF rows = {} THEN seen' = counted /\ seeded' = any /\ UNCHANGED storage
  ELSE /\ seen' = counted \cup {r.id : r \in rows} /\ seeded' = TRUE
       /\ IF lastVisit = 0
          THEN lastVisit' = now /\ count' = 0
          ELSE /\ count' = count + Cardinality(NewOnes(rows, counted, any))
               /\ UNCHANGED lastVisit

PollAnswer ==
  /\ poll.pc = "lists" /\ poll.left = {}
  /\ LET next == [rows |-> Visible, last |-> Watermark] IN
     /\ data' = next
     /\ lastUpdate' = IF poll.own THEN next.last ELSE lastUpdate
     /\ base' = IF poll.own /\ base = 0 THEN next.last ELSE base
     /\ IF data = next THEN UNCHANGED <<seen, seeded, storage>>
        ELSE Effect(next.rows, seen, seeded)
  /\ delivered' = [t \in Transactions |->
       IF \E r \in Visible : r.id = t
       THEN (CHOOSE r \in Visible : r.id = t).changed ELSE delivered[t]]
  /\ poll' = NoPoll
  /\ UNCHANGED <<node, bounded>>

(* The payment node fails: an empty answer, without a watermark.           *)
PollFails ==
  /\ poll.pc = "lists" /\ faults < MaxFaults /\ faults' = faults + 1
  /\ data' = [rows |-> {}, last |-> 0]
  /\ poll' = NoPoll
  /\ UNCHANGED <<node, hook, storage, ghosts, dashboards, activities>>

(* The user comes back to the dashboard: a hook of its own, with nothing   *)
(* seen, over the data in the cache.                                       *)
OpenDashboard ==
  /\ dashboards < MaxDashboards /\ dashboards' = dashboards + 1
  /\ lastUpdate' = 0 /\ base' = 0
  /\ Effect(data.rows, {}, FALSE)
  /\ poll' = [poll EXCEPT !.own = FALSE]
  /\ UNCHANGED <<node, data, delivered, activities, faults>>

(* The user opens the activity page, which marks everything as read.       *)
OpenActivity ==
  /\ activities < MaxActivities /\ activities' = activities + 1
  /\ lastUpdate' = 0 /\ base' = 0 /\ seen' = {} /\ seeded' = FALSE
  /\ lastVisit' = now /\ count' = 0
  /\ poll' = [poll EXCEPT !.own = FALSE]
  /\ UNCHANGED <<node, data, delivered, dashboards, faults>>

------------------------------------------------------------------------------
Polling == PollSend \/ (\E list \in Lists : ReadList(list)) \/ PollAnswer
Next ==
  \/ \E t \in Transactions : NodeChanges(t)
  \/ Polling \/ PollFails \/ OpenDashboard \/ OpenActivity

Spec == Init /\ [][Next]_vars

(* The hook polls every 25 s while its page is open.                       *)
Fairness == WF_vars(Polling)

FairSpec == Spec /\ Fairness

------------------------------------------------------------------------------
(* Properties.                                                             *)

(* Types; no watermark is ahead of the answer it came with, and nothing of *)
(* other agents reaches the browser.                                       *)
TypeOK ==
  /\ now \in 1 .. MaxTime /\ {lastUpdate, lastVisit, base} \subseteq 0 .. now
  /\ \A t \in Transactions : created[t] <= changed[t] /\ changed[t] <= now
  /\ poll.pc \in {"idle", "lists"} /\ poll.since <= now /\ poll.left \subseteq Lists
  /\ seen \subseteq Transactions \ Hidden /\ seeded \in BOOLEAN
  /\ \A r \in data.rows : r.changed <= data.last \/ data.last = 0

(* "Only count rows that are unseen and newer than lastVisit": no hook      *)
(* counts a transaction twice, or one older than the last visit. A visit   *)
(* of the dashboard has a hook of its own.                                 *)
BadgeCountsOnce ==
  count <= (1 + dashboards) * Cardinality({t \in Transactions \ Hidden : created[t] > lastVisit})

(* "diff lastUpdate never skips visible items": a change that came after   *)
(* the first answer and is not after the watermark has been delivered.     *)
NothingSkipped ==
  \A t \in Transactions \ Hidden :
    base # 0 /\ base < changed[t] /\ changed[t] <= lastUpdate => delivered[t] = changed[t]

(* It is kept while one list alone has transactions.                       *)
OneListed == \E list \in Lists : \A t \in Transactions \ list : created[t] = 0

(* What a hook has counted and asked for.                                  *)
BadgeInvariant == TypeOK /\ BadgeCountsOnce /\ (OneListed => NothingSkipped)

(* Polls that keep coming deliver every change that comes after a hook's   *)
(* first answer, however many come at once, as long as fewer rows of other *)
(* agents than fit into an answer are among them.                          *)
ChangeArrives(t) == base # 0 /\ base < changed[t] ~> base = 0 \/ delivered[t] = changed[t]
ChangesArrive == \A t \in Transactions \ Hidden : ChangeArrives(t)
==============================================================================
