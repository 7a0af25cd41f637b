---------------------------- MODULE EmailSendLimit ----------------------------
(***************************************************************************)
(* lib/auth/email-send-rate-limit.ts: concurrent calls of                  *)
(* checkAndIncrementEmailSendLimit for one address, each a read and then a *)
(* write of its EmailSendRateLimit row, and resetEmailSendLimit, which     *)
(* deletes the row after a sign-in.                                        *)
(***************************************************************************)
EXTENDS Integers, FiniteSets

CONSTANTS Callers,        \* the requests that may be in flight at once
          MAX_ATTEMPTS,   \* EMAIL_SEND_RATE_LIMIT_MAX_ATTEMPTS
          WINDOW,         \* EMAIL_SEND_RATE_LIMIT_WINDOW_MS, in ticks
          MAX_RETRIES,    \* MAX_CONCURRENCY_RETRIES
          MAX_TIME,       \* bound on the clock
          None

ASSUME LimitAssumption ==
  /\ IsFiniteSet(Callers)
  /\ MAX_ATTEMPTS \in Nat \ {0} /\ WINDOW \in Nat \ {0}
  /\ MAX_RETRIES \in Nat /\ MAX_TIME \in Nat
  /\ None \notin [count : Nat, windowStart : Nat]

VARIABLES row,     \* the row of the address, or None
          clock,
          call,    \* what each caller is doing
          sends    \* history: sends allowed in the window since the last reset

vars == <<row, clock, call, sends>>

Rows == [count : Nat, windowStart : Nat]
Fresh(now) == [count |-> 1, windowStart |-> now]
Expired(r, now) == now - r.windowStart >= WINDOW
\* Mutant: one send too many.
AlmostFull(r) == r.count > MAX_ATTEMPTS
Full(r) == r.count >= MAX_ATTEMPTS

PCs == {"idle", "find", "create", "roll", "increment",
        "allowed", "refused", "exhausted", "error"}
Returned == {"allowed", "refused", "exhausted", "error"}

(* resets, which only properties read, counts the resets during the call;  *)
(* MANY stands for any number of them that is too large to matter.         *)
MANY == MAX_RETRIES + 1
NewCall == [pc |-> "idle", now |-> 0, attempt |-> 0, resets |-> 0]

Init ==
  /\ row = None
  /\ clock = 0
  /\ call = [c \in Callers |-> NewCall]
  /\ sends = 0

At(c, pc) == call[c].pc = pc
Goto(c, pc) == call' = [call EXCEPT ![c].pc = pc]

------------------------------------------------------------------------------
(* An attempt takes the time and then reads the row.                       *)
Begin(c) ==
  /\ At(c, "idle") \/ call[c].pc \in Returned
  /\ call' = [call EXCEPT ![c] = [pc |-> "find", now |-> clock, attempt |-> 0, resets |-> 0]]
  /\ UNCHANGED <<row, clock, sends>>

Find(c) ==
  /\ At(c, "find")
  /\ Goto(c, IF row = None THEN "create"
             ELSE IF Expired(row, call[c].now) THEN "roll"
             ELSE IF Full(row) THEN "refused" ELSE "increment")
  /\ UNCHANGED <<row, clock, sends>>

\* Mutant: the loser of the race for the row gives up.
CreateOnce(c) ==
  /\ At(c, "create")
  /\ IF row = None
     THEN row' = Fresh(call[c].now) /\ sends' = 1 /\ Goto(c, "allowed")
     ELSE Goto(c, "exhausted") /\ UNCHANGED <<row, sends>>
  /\ UNCHANGED clock

(* The loser of the race for the row tries again, MAX_RETRIES times.       *)
Create(c) ==
  /\ At(c, "create")
  /\ IF row = None
     THEN /\ row' = Fresh(call[c].now)
          /\ sends' = 1
          /\ Goto(c, "allowed")
     ELSE /\ call' = [call EXCEPT ![c] =
               IF @.attempt < MAX_RETRIES
               THEN [pc |-> "find", now |-> clock, attempt |-> @.attempt + 1, resets |-> @.resets]
               ELSE [@ EXCEPT !.pc = "exhausted"]]
          /\ UNCHANGED <<row, sends>>
  /\ UNCHANGED clock

\* Mutants: the count outlives its window; the row is deleted and created anew.
RollKeepsCount(c) ==
  LET now == call[c].now IN
  /\ At(c, "roll")
  /\ IF row = None THEN Goto(c, "error") /\ UNCHANGED <<row, sends>>
     ELSE /\ row' = [row EXCEPT !.windowStart = now]
          /\ sends' = IF Expired(row, now) THEN 1 ELSE sends + 1
          /\ Goto(c, "allowed")
  /\ UNCHANGED clock

(* The window is over, or was when the caller looked.                      *)
Roll(c) ==
  LET now == call[c].now IN
  /\ At(c, "roll")
  /\ IF row = None THEN Goto(c, "error") /\ UNCHANGED <<row, sends>>
     ELSE /\ row' = Fresh(now)
          /\ sends' = IF Expired(row, now) THEN 1 ELSE sends + 1
          /\ Goto(c, "allowed")
  /\ UNCHANGED clock

Increment(c) ==
  /\ At(c, "increment")
  /\ IF row = None THEN Goto(c, "error") /\ UNCHANGED <<row, sends>>
     ELSE /\ row' = [row EXCEPT !.count = @ + 1]
          /\ sends' = sends + 1
          /\ Goto(c, "allowed")
  /\ UNCHANGED clock

InFlight(c) == call[c].pc \in {"find", "create", "roll", "increment"}

(* A statement fails, or the process dies.                                 *)
Dies(c) ==
  /\ InFlight(c)
  /\ Goto(c, "idle")
  /\ UNCHANGED <<row, clock, sends>>

(* resetEmailSendLimit.                                                    *)
Noticed(k) == IF k.resets < MANY THEN [k EXCEPT !.resets = @ + 1] ELSE k

ResetEmailSendLimit ==
  /\ row # None
  /\ row' = None
  /\ sends' = 0
  /\ call' = [c \in Callers |-> IF InFlight(c) THEN Noticed(call[c]) ELSE call[c]]
  /\ UNCHANGED clock

Tick ==
  /\ clock < MAX_TIME
  /\ clock' = clock + 1
  /\ UNCHANGED <<row, call, sends>>

CallStep(c) ==
  \/ Begin(c) \/ Find(c) \/ Create(c) \/ Roll(c) \/ Increment(c) \/ Dies(c)

Next == (\E c \in Callers : CallStep(c)) \/ ResetEmailSendLimit \/ Tick

Spec == Init /\ [][Next]_vars

------------------------------------------------------------------------------
(* Properties.                                                             *)

Calls == [pc : PCs, now : 0..MAX_TIME, attempt : 0..MAX_RETRIES, resets : 0..MANY]

(* Types; a window never starts in the future.                             *)
TypeOK ==
  /\ row \in Rows \cup {None}
  /\ row # None => row.windowStart <= clock
  /\ clock \in 0..MAX_TIME
  /\ call \in [Callers -> Calls]
  /\ \A c \in Callers : call[c].now <= clock
  /\ sends \in Nat

(* Callers that read the counter together overshoot the limit by less than *)
(* their number: every increment is one of a caller in flight.             *)
CounterBounded ==
  row # None => row.count <= MAX_ATTEMPTS - 1 + Cardinality(Callers)

(* Nobody is refused early: what the counter shows was really sent in the  *)
(* window, whatever stale windows and increments were written meanwhile.   *)
CountedSendsHappened == row # None => row.count <= sends

(* A caller that ran out of retries lost its row to a reset each time: two *)
(* callers alone never end there, nor any number of them.                  *)
ExhaustedNeedsResets ==
  \A c \in Callers : At(c, "exhausted") => call[c].resets >= MAX_RETRIES

(* The update finds its row unless a reset came between.                   *)
ErrorNeedsReset ==
  \A c \in Callers : At(c, "error") => call[c].resets >= 1

------------------------------------------------------------------------------
(* The inductive invariant behind the proofs (EmailSendLimit_proofs).      *)

(* Every caller about to increment may still do so.                        *)
Incrementing == {c \in Callers : At(c, "increment")}
RoomForIncrements ==
  row # None =>
    row.count + Cardinality(Incrementing) <= MAX_ATTEMPTS - 1 + Cardinality(Callers)

(* A lost race and a free row again: a reset lies between.                 *)
RetriesNeedResets ==
  \A c \in Callers :
    LET k == call[c] IN
    /\ At(c, "create") \/ (At(c, "find") /\ row = None) => k.resets >= k.attempt
    /\ At(c, "find") => k.resets >= k.attempt - 1
    /\ k.pc \in {"roll", "increment"} /\ row = None => k.resets >= 1

IInv ==
  /\ TypeOK
  /\ RoomForIncrements
  /\ RetriesNeedResets
  /\ CountedSendsHappened
  /\ ExhaustedNeedsResets
  /\ ErrorNeedsReset

------------------------------------------------------------------------------
(* What texts of the repository say and the code does not keep: TLC        *)
(* refutes these (see the README).                                         *)

(* "concurrent callers may overshoot the cap by at most the number of      *)
(* in-flight requests": of the sends, not of the counter.                  *)
OvershootBounded == sends <= MAX_ATTEMPTS + Cardinality(Callers)
==============================================================================
