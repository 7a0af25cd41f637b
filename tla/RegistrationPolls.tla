-------------------------- MODULE RegistrationPolls --------------------------
(***************************************************************************)
(* The browser waits for registrations (RegistrationCompletionProvider of  *)
(* registration-completion-context.tsx): agents that were submitted are    *)
(* polled by an interval timer until they are answered or have been polled *)
(* MaxTries times.  What is waited for is kept in refs of the mounted      *)
(* provider and in the session storage of the tab, per user; the server is *)
(* asked, too, for agents that the browser has forgotten.                  *)
(*                                                                         *)
(* One provider that stays mounted but for reloads.  The browser's session *)
(* changes in another tab, to nobody or at once to somebody else (an admin *)
(* who impersonates); useSession shows it here some time later, and may    *)
(* miss what was between.  The registrations themselves are                *)
(* AgentRegistration's: here an agent that is submitted settles at some    *)
(* time.                                                                   *)
(***************************************************************************)
EXTENDS Integers, FiniteSets

CONSTANTS Users, Agents, Owner, None,
          MaxTries,  \* MAX_POLL_ATTEMPTS
          MaxSessions, MaxReloads, MaxFaults  \* bounds

PollsAssumption ==
  /\ None \notin Users /\ Owner \in [Agents -> Users]
  /\ MaxTries \in Nat \ {0} /\ {MaxSessions, MaxReloads, MaxFaults} \subseteq Nat

VARIABLES session,   \* whose session the browser has: the server's answers go by it
          user,      \* whom useSession shows to the provider
          status,    \* the agents, as the server knows them
          reply,     \* submissions whose reply is under way
          pending, tries, polling,  \* pendingRef, retryCountRef, the interval
          storage,   \* sessionStorage, per user
          tick,      \* the tick under way (isPollingRef), and its results
          hydrate,   \* the question for the server's pending agents
          notices,   \* what the user was told of each agent
          polls,     \* polls of an agent since it was last answered or given up
          strays,    \* agents that came to another user's list
          sessions, reloads, faults

refs == <<pending, tries, polling>>
server == <<session, status, reply>>
ghosts == <<notices, polls>>
budget == <<sessions, reloads, faults>>
vars == <<user, server, refs, storage, tick, hydrate, ghosts, strays, budget>>

NoTries == [a \in Agents |-> 0]
NoTick == [on |-> FALSE, left |-> {}, done |-> {}, failed |-> {}]
NoHydrate == [pc |-> "none", ids |-> {}]
Kinds == {"registered", "error", "timedOut"}

Init ==
  /\ session = None /\ user = None
  /\ status = [a \in Agents |-> "none"] /\ reply = {}
  /\ pending = {} /\ tries = NoTries /\ polling = FALSE
  /\ storage = [u \in Users |-> [ids |-> {}, tries |-> NoTries]]
  /\ tick = NoTick /\ hydrate = NoHydrate
  /\ notices = [a \in Agents |-> {}] /\ polls = NoTries /\ strays = {}
  /\ sessions = 0 /\ reloads = 0 /\ faults = 0

(* Saved for the user that is shown; for none, nothing is.                 *)
SavePending(ids) ==
  IF user = None THEN storage
  ELSE [storage EXCEPT ![user].ids = ids]
SaveBoth(ids, counts) ==
  IF user = None THEN storage
  ELSE [storage EXCEPT ![user] = [ids |-> ids, tries |-> counts]]

Without(counts, ids) == [a \in Agents |-> IF a \in ids THEN 0 ELSE counts[a]]
Foreign(ids, u) == {a \in ids : Owner[a] # u}
Tell(ids, kind) ==
  [a \in Agents |-> IF a \in ids THEN notices[a] \cup {kind} ELSE notices[a]]

------------------------------------------------------------------------------
(* The server: an agent is submitted by the dialog, and settles.           *)
Submit(a) ==
  /\ session = Owner[a] /\ status[a] = "none"
  /\ status' = [status EXCEPT ![a] = "pending"] /\ reply' = reply \cup {a}
  /\ UNCHANGED <<session, user, refs, storage, tick, hydrate, ghosts, budget, strays>>

Settle(a) ==
  /\ status[a] = "pending"
  /\ \E s \in {"registered", "failed"} : status' = [status EXCEPT ![a] = s]
  /\ UNCHANGED <<session, user, reply, refs, storage, tick, hydrate, ghosts, budget, strays>>

(* addPendingAgent, on the reply to the dialog.                            *)
AddPendingAgent(a) ==
  /\ a \in reply /\ reply' = reply \ {a}
  /\ pending' = pending \cup {a} /\ polling' = TRUE
  /\ storage' = SavePending(pending')
  /\ strays' = strays \cup Foreign({a}, user)
  /\ UNCHANGED <<session, user, status, tries, tick, hydrate, ghosts, budget>>

------------------------------------------------------------------------------
(* The interval's tick: counts every agent's attempt, gives up those that  *)
(* have had theirs, and asks for the others at once.                       *)
TickStops ==
  /\ polling /\ pending = {} /\ polling' = FALSE
  /\ UNCHANGED <<user, server, pending, tries, storage, tick, hydrate, ghosts, budget, strays>>

TickStarts ==
  LET counted == [a \in Agents |-> IF a \in pending THEN tries[a] + 1 ELSE tries[a]]
      gone == {a \in pending : counted[a] > MaxTries}
      asked == pending \ gone
  IN
  /\ polling /\ pending # {} /\ ~tick.on
  /\ tick' = [NoTick EXCEPT !.on = TRUE, !.left = asked]
  /\ pending' = asked /\ tries' = Without(counted, gone)
  /\ storage' = SaveBoth(pending', tries')
  /\ notices' = Tell(gone, "timedOut")
  /\ polls' = [a \in Agents |-> IF a \in gone THEN 0
                                ELSE polls[a] + (IF a \in asked THEN 1 ELSE 0)]
  /\ UNCHANGED <<user, server, polling, hydrate, budget, strays>>

(* completeRegistrationIfReadyAction, under the session of the moment: an  *)
(* agent of somebody else is not found, and any exception is an error.     *)
Answers(a) ==
  IF session # Owner[a] \/ status[a] = "failed" THEN {"error"}
  ELSE IF status[a] = "registered" THEN {"registered"} ELSE {"pending"}

Call(a, failing) ==
  /\ a \in tick.left
  /\ \E s \in (IF failing THEN {"error"} ELSE Answers(a)) :
       tick' = [tick EXCEPT !.left = @ \ {a},
         !.done = IF s = "registered" THEN @ \cup {a} ELSE @,
         !.failed = IF s = "error" THEN @ \cup {a} ELSE @]
  /\ faults' = IF failing THEN faults + 1 ELSE faults
  /\ faults' <= MaxFaults
  /\ UNCHANGED <<user, server, refs, storage, hydrate, ghosts, sessions, reloads, strays>>

(* The call is lost: settled as rejected, asked again by the next tick.    *)
CallLost(a) ==
  /\ a \in tick.left /\ faults < MaxFaults /\ faults' = faults + 1
  /\ tick' = [tick EXCEPT !.left = @ \ {a}]
  /\ UNCHANGED <<user, server, refs, storage, hydrate, ghosts, sessions, reloads, strays>>

\* Mutant: of what the tick began with, and not of what came meanwhile.
RemainingOfTick(ids) == {a \in pending : tries[a] > 0} \ ids
Remaining(ids) == pending \ ids

TickEnds ==
  LET answered == tick.done \cup tick.failed IN
  /\ tick.on /\ tick.left = {} /\ tick' = NoTick
  /\ IF answered = {} THEN UNCHANGED <<pending, tries, storage, notices, polls>>
     ELSE /\ pending' = Remaining(answered) /\ tries' = Without(tries, answered)
          /\ storage' = SaveBoth(pending', tries')
          /\ notices' = [a \in Agents |->
               Tell(tick.done, "registered")[a] \cup Tell(tick.failed, "error")[a]]
          /\ polls' = Without(polls, answered)
  /\ UNCHANGED <<user, server, polling, hydrate, budget, strays>>

------------------------------------------------------------------------------
(* Sessions: the effects of another user, and of a provider mounted again. *)
Starts(ids) == ids # {}

Hydrated(u, ids, counts) ==
  /\ pending' = ids \cup storage[u].ids
  /\ tries' = [a \in Agents |-> IF storage[u].tries[a] > 0 THEN storage[u].tries[a]
                                ELSE counts[a]]
  /\ storage' = [storage EXCEPT ![u].ids = pending']
  /\ polling' = Starts(pending')
  /\ hydrate' = [NoHydrate EXCEPT !.pc = "sent"]

SessionChanges(u) ==
  /\ u # session /\ session' = u
  /\ sessions' = IF u = None THEN sessions ELSE sessions + 1
  /\ sessions' <= MaxSessions
  /\ UNCHANGED <<user, status, reply, refs, storage, tick, hydrate, ghosts, strays, reloads, faults>>

\* Mutant: the next user inherits.
Kept == pending
Cleared == {}

(* The list is cleared when nobody is shown; another user who is shown at  *)
(* once goes on with the list of the one before.                           *)
SessionShown ==
  /\ user # session /\ user' = session
  /\ IF session = None
     THEN /\ pending' = Cleared /\ polling' = FALSE /\ hydrate' = NoHydrate
          /\ UNCHANGED <<tries, storage, strays>>
     ELSE /\ Hydrated(session, pending, tries)
          /\ strays' = strays \cup IF user = None THEN {} ELSE Foreign(pending, session)
  /\ UNCHANGED <<server, tick, ghosts, budget>>

(* A new page: refs, timers and whatever was under way are gone, and       *)
(* nobody is shown before the session has been fetched.                    *)
Reload ==
  /\ reloads < MaxReloads /\ reloads' = reloads + 1
  /\ user' = None /\ reply' = {} /\ tick' = NoTick /\ hydrate' = NoHydrate
  /\ pending' = {} /\ tries' = NoTries /\ polling' = FALSE
  /\ UNCHANGED <<session, status, storage, ghosts, sessions, faults, strays>>

(* getPendingRegistrationAgentIdsAction; an error is no agent.             *)
HydrateRead ==
  /\ hydrate.pc = "sent"
  /\ hydrate' = [pc |-> "read",
                  ids |-> {a \in Agents : Owner[a] = session /\ status[a] = "pending"}]
  /\ UNCHANGED <<user, server, refs, storage, tick, ghosts, budget, strays>>

HydrateLost ==
  /\ hydrate.pc = "sent" /\ faults < MaxFaults /\ faults' = faults + 1
  /\ hydrate' = NoHydrate
  /\ UNCHANGED <<user, server, refs, storage, tick, ghosts, sessions, reloads, strays>>

HydrateAnswer ==
  /\ hydrate.pc = "read" /\ hydrate' = NoHydrate
  /\ IF hydrate.ids = {} THEN UNCHANGED <<pending, polling, storage>>
     ELSE /\ pending' = pending \cup hydrate.ids /\ polling' = TRUE
          /\ storage' = SavePending(pending')
  /\ strays' = strays \cup Foreign(hydrate.ids, user)
  /\ UNCHANGED <<user, server, tries, tick, ghosts, budget>>

------------------------------------------------------------------------------
Calls == \E a \in Agents : Call(a, FALSE)
Next ==
  \/ \E a \in Agents : \/ Submit(a) \/ Settle(a) \/ AddPendingAgent(a)
                       \/ Call(a, FALSE) \/ Call(a, TRUE) \/ CallLost(a)
  \/ TickStops \/ TickStarts \/ TickEnds
  \/ (\E u \in Users \cup {None} : SessionChanges(u)) \/ SessionShown \/ Reload
  \/ HydrateRead \/ HydrateLost \/ HydrateAnswer

Spec == Init /\ [][Next]_vars

(* The interval ticks every 5 s, calls return, and a page that is mounted  *)
(* fetches the session.                                                    *)
Fairness ==
  WF_vars(TickStarts) /\ WF_vars(Calls) /\ WF_vars(TickEnds) /\ WF_vars(SessionShown)

FairSpec == Spec /\ Fairness

------------------------------------------------------------------------------
(* Properties.                                                             *)

(* Types; a tick asks for agents whose attempt it has counted.             *)
TypeOK ==
  /\ {session, user} \subseteq Users \cup {None} /\ strays \subseteq Agents
  /\ status \in [Agents -> {"none", "pending", "registered", "failed"}]
  /\ pending \subseteq Agents /\ tries \in [Agents -> 0 .. MaxTries]
  /\ notices \in [Agents -> SUBSET Kinds] /\ polling \in BOOLEAN
  /\ tick.left \cap (tick.done \cup tick.failed) = {}
  /\ hydrate.pc # "none" => user # None

(* Nobody waits for another user's agents, but for the strays: a reply to  *)
(* the dialog that came when its owner was not shown, an answer for a      *)
(* session not yet shown, and the list of a user who was replaced without  *)
(* a sign-out that was shown.  After a sign-out that was shown, nothing is *)
(* inherited.                                                              *)
Inherited ==
  /\ \A a \in pending \ strays : Owner[a] = user
  /\ \A u \in Users : \A a \in storage[u].ids \ strays : Owner[a] = u

(* The interval runs while there is something to wait for.                 *)
TimerRuns == pending # {} => polling

(* A reload or a new session does not start the count of attempts again    *)
(* (a stray is counted in another user's session).                         *)
BudgetKept == \A a \in Agents \ strays : polls[a] <= MaxTries

(* What a tab waits for.                                                   *)
PollsInvariant == TypeOK /\ Inherited /\ TimerRuns /\ BudgetKept

(* An agent the browser waits for is reported, or given up with a report,  *)
(* as long as its owner stays, whatever pages are loaded meanwhile.        *)
IsReported(a) == a \in pending /\ user = Owner[a] ~> session # Owner[a] \/ notices[a] # {}
WaitReported == \A a \in Agents : IsReported(a)

------------------------------------------------------------------------------
(* What texts of the repository say and the code does not keep: TLC        *)
(* refutes these (see the README).                                         *)

(* "Clear in-memory pending when user logs out so next user doesn't        *)
(* inherit": nobody waits for another user's agents.                       *)
NotInherited == \A a \in pending : user # None => Owner[a] = user

(* "Poll until status is registered or the user gives up": an agent is     *)
(* reported as failed only if it has failed.                               *)
FailureIsReal == \A a \in Agents : "error" \in notices[a] => status[a] = "failed"
==============================================================================
