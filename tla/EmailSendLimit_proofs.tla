------------------------ MODULE EmailSendLimit_proofs ------------------------
(***************************************************************************)
(* Proofs about EmailSendLimit for every finite set of callers, every      *)
(* limit, window and number of retries.                                    *)
(***************************************************************************)
EXTENDS EmailSendLimit, FiniteSetTheorems, TLAPS

LEMMA InitIInv == Init => IInv
<1> SUFFICES ASSUME Init PROVE IInv
  OBVIOUS
<1> USE LimitAssumption DEF Init, NewCall, At
<1>1. TypeOK
  BY DEF TypeOK, Calls, PCs, MANY
<1>2. QED
  BY <1>1 DEF IInv, RoomForIncrements, RetriesNeedResets, CountedSendsHappened,
              ExhaustedNeedsResets, ErrorNeedsReset

(* How many callers can be about to increment.                             *)
LEMMA IncrementingSize ==
  /\ IsFiniteSet(Incrementing)
  /\ Cardinality(Incrementing) \in Nat /\ Cardinality(Callers) \in Nat
  /\ Cardinality(Incrementing) <= Cardinality(Callers)
  /\ \A c \in Callers \ Incrementing : Cardinality(Incrementing) <= Cardinality(Callers) - 1
<1>1. Incrementing \in SUBSET Callers /\ IsFiniteSet(Callers)
  BY LimitAssumption DEF Incrementing
<1>2. /\ IsFiniteSet(Incrementing)
      /\ Cardinality(Incrementing) \in Nat /\ Cardinality(Callers) \in Nat
      /\ Cardinality(Incrementing) <= Cardinality(Callers)
  BY <1>1, FS_Subset, FS_CardinalityType
<1>3. ASSUME NEW c \in Callers \ Incrementing
      PROVE  Cardinality(Incrementing) <= Cardinality(Callers) - 1
  <2>1. Incrementing \in SUBSET (Callers \ {c})
    BY <1>1
  <2>2. /\ IsFiniteSet(Callers \ {c})
        /\ Cardinality(Callers \ {c}) = Cardinality(Callers) - 1
    BY <1>1, FS_RemoveElement
  <2>3. QED
    BY <2>1, <2>2, FS_Subset
<1>4. QED
  BY <1>2, <1>3

(* A step of one caller that stays within the types keeps what RetriesNeed-*)
(* Resets and its kin say of the others, as long as the row stays as it is *)
(* or comes into being.                                                    *)
LEMMA OthersKeepResets ==
  ASSUME IInv, NEW c \in Callers, NEW k, call' = [call EXCEPT ![c] = k],
         row' = row \/ row' # None, NEW d \in Callers \ {c}
  PROVE  /\ call'[d] = call[d]
         /\ (At(d, "create") \/ (At(d, "find") /\ row = None) => call[d].resets >= call[d].attempt)'
         /\ (At(d, "find") => call[d].resets >= call[d].attempt - 1)'
         /\ (call[d].pc \in {"roll", "increment"} /\ row = None => call[d].resets >= 1)'
         /\ (At(d, "exhausted") => call[d].resets >= MAX_RETRIES)'
         /\ (At(d, "error") => call[d].resets >= 1)'
<1>1. call'[d] = call[d]
  BY DEF IInv, TypeOK
<1>2. QED
  BY <1>1 DEF IInv, RetriesNeedResets, ExhaustedNeedsResets, ErrorNeedsReset, At

(* What remains to be shown of a caller's step: about the caller itself,   *)
(* about the row and about the increments to come.                         *)
LEMMA CallerStepKeepsIInv ==
  ASSUME IInv, NEW c \in Callers, NEW k \in Calls, call' = [call EXCEPT ![c] = k],
         clock' = clock, k.now <= clock,
         row' = row \/ row' # None, row' \in Rows \cup {None},
         row' # None => row'.windowStart <= clock /\ row'.count <= sends',
         sends' \in Nat, RoomForIncrements',
         k.pc = "create" \/ (k.pc = "find" /\ row' = None) => k.resets >= k.attempt,
         k.pc = "find" => k.resets >= k.attempt - 1,
         k.pc \in {"roll", "increment"} /\ row' = None => k.resets >= 1,
         k.pc = "exhausted" => k.resets >= MAX_RETRIES,
         k.pc = "error" => k.resets >= 1
  PROVE  IInv'
<1>1. call'[c] = k
  BY DEF IInv, TypeOK
<1>2. TypeOK'
  BY <1>1 DEF IInv, TypeOK
<1>3. RetriesNeedResets' /\ ExhaustedNeedsResets' /\ ErrorNeedsReset'
  BY <1>1, OthersKeepResets DEF RetriesNeedResets, ExhaustedNeedsResets, ErrorNeedsReset, At
<1>4. CountedSendsHappened'
  BY DEF CountedSendsHappened
<1>5. QED
  BY <1>2, <1>3, <1>4 DEF IInv

(* What IInv says of the row is what a step that keeps it needs.           *)
LEMMA RowFacts ==
  ASSUME IInv
  PROVE  /\ row \in Rows \cup {None} /\ sends \in Nat /\ clock \in Nat
         /\ row # None => /\ row \in Rows /\ row.count \in Nat
                          /\ row.windowStart <= clock /\ row.count <= sends
BY LimitAssumption DEF IInv, TypeOK, CountedSendsHappened, Rows

(* How a step of one caller changes the set of those about to increment.   *)
LEMMA IncrementingChange ==
  ASSUME TypeOK, NEW c \in Callers, NEW k, call' = [call EXCEPT ![c] = k]
  PROVE  Incrementing' = IF k.pc = "increment" THEN Incrementing \cup {c}
                         ELSE Incrementing \ {c}
BY DEF TypeOK, Incrementing, At

(* A caller that does not become one about to increment leaves room.       *)
LEMMA SameRowKeepsRoom ==
  ASSUME IInv, NEW c \in Callers, NEW k, call' = [call EXCEPT ![c] = k],
         k.pc # "increment", row' = row
  PROVE  RoomForIncrements'
<1>1. Incrementing' = Incrementing \ {c}
  BY IncrementingChange DEF IInv
<1>2. /\ Cardinality(Incrementing') \in Nat
      /\ Cardinality(Incrementing') <= Cardinality(Incrementing)
  BY <1>1, IncrementingSize, FS_Subset, FS_CardinalityType
<1>3. row # None => row.count \in Nat
  BY LimitAssumption DEF IInv, TypeOK, Rows
<1>4. QED
  BY <1>2, <1>3, IncrementingSize, LimitAssumption DEF IInv, RoomForIncrements

(* A row that starts a window has room for all the other callers.          *)
LEMMA FreshRowHasRoom ==
  ASSUME IInv, NEW c \in Callers, NEW k, call' = [call EXCEPT ![c] = k],
         k.pc # "increment", call[c].pc # "increment", NEW now, row' = Fresh(now)
  PROVE  RoomForIncrements'
<1>1. Incrementing' = Incrementing /\ c \notin Incrementing
  BY IncrementingChange DEF IInv, Incrementing, At
<1>2. Cardinality(Incrementing) <= Cardinality(Callers) - 1
  BY <1>1, IncrementingSize
<1>3. row'.count = 1
  BY DEF Fresh
<1>4. QED
  BY <1>1, <1>2, <1>3, IncrementingSize, LimitAssumption DEF RoomForIncrements

LEMMA BeginKeepsIInv ==
  ASSUME IInv, NEW c \in Callers, Begin(c)
  PROVE  IInv'
<1> DEFINE k == [pc |-> "find", now |-> clock, attempt |-> 0, resets |-> 0]
<1>1. call' = [call EXCEPT ![c] = k] /\ UNCHANGED <<row, clock, sends>>
  BY DEF Begin
<1>2. k \in Calls /\ k.pc = "find" /\ k.now = clock /\ k.attempt = 0 /\ k.resets = 0
  BY LimitAssumption DEF Calls, PCs, MANY, IInv, TypeOK
<1>3. RoomForIncrements'
  BY <1>1, <1>2, SameRowKeepsRoom
<1>4. clock' = clock /\ row' = row /\ sends' = sends
  BY <1>1
<1> HIDE DEF k
<1>5. clock \in Nat /\ k.now <= clock /\ k.resets >= k.attempt /\ k.resets >= k.attempt - 1
  BY <1>2, RowFacts
<1>6. QED
  BY <1>1, <1>2, <1>3, <1>4, <1>5, RowFacts, CallerStepKeepsIInv

(* What IInv says of one caller.                                           *)
LEMMA CallFacts ==
  ASSUME IInv, NEW c \in Callers
  PROVE  /\ call[c] \in Calls /\ call[c].now \in 0..MAX_TIME /\ call[c].now <= clock
         /\ call[c].attempt \in 0..MAX_RETRIES /\ call[c].resets \in 0..MANY
         /\ call[c].pc = "create" \/ (call[c].pc = "find" /\ row = None)
              => call[c].resets >= call[c].attempt
         /\ call[c].pc = "find" => call[c].resets >= call[c].attempt - 1
         /\ call[c].pc \in {"roll", "increment"} /\ row = None => call[c].resets >= 1
BY DEF IInv, TypeOK, RetriesNeedResets, Calls, At

(* A step that only moves a caller on to another place in its program.     *)
LEMMA GotoIs ==
  ASSUME IInv, NEW c \in Callers, NEW pc \in PCs, Goto(c, pc)
  PROVE  \E k \in Calls :
           /\ call' = [call EXCEPT ![c] = k] /\ k.pc = pc
           /\ k.now = call[c].now /\ k.attempt = call[c].attempt /\ k.resets = call[c].resets
<1> DEFINE k == [call[c] EXCEPT !.pc = pc]
<1>1. /\ k \in Calls /\ k.pc = pc
      /\ k.now = call[c].now /\ k.attempt = call[c].attempt /\ k.resets = call[c].resets
  BY CallFacts DEF Calls
<1>2. call' = [call EXCEPT ![c] = k]
  BY DEF Goto
<1>3. QED
  BY <1>1, <1>2

LEMMA FindKeepsIInv ==
  ASSUME IInv, NEW c \in Callers, Find(c)
  PROVE  IInv'
<1>1. At(c, "find") /\ row' = row /\ clock' = clock /\ sends' = sends
  BY DEF Find
<1> DEFINE pc == IF row = None THEN "create"
                 ELSE IF Expired(row, call[c].now) THEN "roll"
                 ELSE IF Full(row) THEN "refused" ELSE "increment"
<1>2. pc \in PCs /\ Goto(c, pc)
  BY DEF Find, PCs
<1>3. /\ pc \in {"create", "roll", "refused", "increment"}
      /\ pc = "create" => row = None
      /\ pc = "roll" => row # None
      /\ pc = "increment" => row # None /\ ~Full(row)
  OBVIOUS
<1> HIDE DEF pc
<1>4. PICK k \in Calls : /\ call' = [call EXCEPT ![c] = k] /\ k.pc = pc
                         /\ k.now = call[c].now /\ k.attempt = call[c].attempt
                         /\ k.resets = call[c].resets
  BY <1>2, GotoIs
<1>5. RoomForIncrements'
  <2>1. CASE pc # "increment"
    BY <1>1, <1>4, <2>1, SameRowKeepsRoom
  <2>2. CASE pc = "increment"
    <3>1. Incrementing' = Incrementing \cup {c} /\ c \notin Incrementing
      BY <1>1, <1>4, <2>2, IncrementingChange DEF IInv, Incrementing, At
    <3>2. Cardinality(Incrementing') = Cardinality(Incrementing) + 1
      BY <3>1, IncrementingSize, FS_AddElement
    <3>3. Cardinality(Incrementing) <= Cardinality(Callers) - 1
      BY <3>1, IncrementingSize
    <3>4. row # None /\ row.count \in Nat /\ row.count <= MAX_ATTEMPTS - 1
      BY <1>3, <2>2, RowFacts, LimitAssumption DEF Full
    <3>5. QED
      BY <1>1, <3>2, <3>3, <3>4, IncrementingSize, LimitAssumption DEF RoomForIncrements
  <2>3. QED
    BY <2>1, <2>2
<1>6. k.now <= clock /\ (k.pc = "create" => k.resets >= k.attempt)
  BY <1>1, <1>3, <1>4, CallFacts DEF At
<1>7. QED
  BY <1>1, <1>3, <1>4, <1>5, <1>6, RowFacts, CallerStepKeepsIInv

LEMMA CreateKeepsIInv ==
  ASSUME IInv, NEW c \in Callers, Create(c)
  PROVE  IInv'
<1>1. At(c, "create") /\ clock' = clock
  BY DEF Create
<1>2. CASE row = None
  <2>1. row' = Fresh(call[c].now) /\ sends' = 1 /\ Goto(c, "allowed")
    BY <1>2 DEF Create
  <2>2. PICK k \in Calls : call' = [call EXCEPT ![c] = k] /\ k.pc = "allowed"
                           /\ k.now = call[c].now
    BY <2>1, GotoIs DEF PCs
  <2>3. row' \in Rows /\ row' # None /\ row'.count = 1 /\ row'.windowStart = call[c].now
    BY <2>1, CallFacts, LimitAssumption DEF Fresh, Rows
  <2>4. RoomForIncrements'
    BY <1>1, <2>1, <2>2, FreshRowHasRoom DEF At
  <2>5. /\ sends' \in Nat /\ row'.windowStart <= clock /\ row'.count <= sends'
        /\ k.now <= clock
    BY <2>1, <2>2, <2>3, CallFacts
  <2>6. QED
    BY <1>1, <2>2, <2>3, <2>4, <2>5, CallerStepKeepsIInv
<1>3. CASE row # None
  <2> DEFINE k == IF call[c].attempt < MAX_RETRIES
                  THEN [pc |-> "find", now |-> clock, attempt |-> call[c].attempt + 1,
                        resets |-> call[c].resets]
                  ELSE [call[c] EXCEPT !.pc = "exhausted"]
  <2>1. call' = [call EXCEPT ![c] = k] /\ row' = row /\ sends' = sends
    BY <1>3 DEF Create
  <2>2. call[c].resets >= call[c].attempt
    BY <1>1, CallFacts DEF At
  <2>3. /\ k \in Calls /\ k.pc \in {"find", "exhausted"} /\ k.now <= clock
        /\ k.pc = "find" => k.resets >= k.attempt - 1
        /\ k.pc = "exhausted" => k.resets >= MAX_RETRIES
    BY <2>2, CallFacts, LimitAssumption DEF Calls, PCs, MANY, IInv, TypeOK
  <2> HIDE DEF k
  <2>4. RoomForIncrements'
    BY <2>1, <2>3, SameRowKeepsRoom
  <2>5. QED
    BY <1>1, <1>3, <2>1, <2>3, <2>4, RowFacts, CallerStepKeepsIInv
<1>4. QED
  BY <1>2, <1>3

(* The row is gone: the update fails, and a reset was noticed.             *)
LEMMA ErrorKeepsIInv ==
  ASSUME IInv, NEW c \in Callers, call[c].pc \in {"roll", "increment"}, row = None,
         Goto(c, "error"), UNCHANGED <<row, clock, sends>>
  PROVE  IInv'
<1>1. PICK k \in Calls : /\ call' = [call EXCEPT ![c] = k] /\ k.pc = "error"
                         /\ k.now = call[c].now /\ k.resets = call[c].resets
  BY GotoIs DEF PCs
<1>2. RoomForIncrements'
  BY <1>1, SameRowKeepsRoom
<1>3. k.resets >= 1 /\ k.now <= clock
  BY <1>1, CallFacts
<1>4. row' = row /\ clock' = clock /\ sends' = sends
  OBVIOUS
<1>5. QED
  BY <1>1, <1>2, <1>3, <1>4, RowFacts, CallerStepKeepsIInv

LEMMA RollKeepsIInv ==
  ASSUME IInv, NEW c \in Callers, Roll(c)
  PROVE  IInv'
<1>1. At(c, "roll") /\ clock' = clock
  BY DEF Roll
<1>2. CASE row = None
  BY <1>1, <1>2, ErrorKeepsIInv DEF Roll, At
<1>3. CASE row # None
  <2>1. /\ row' = Fresh(call[c].now) /\ Goto(c, "allowed")
        /\ sends' = IF Expired(row, call[c].now) THEN 1 ELSE sends + 1
    BY <1>3 DEF Roll
  <2>2. PICK k \in Calls : call' = [call EXCEPT ![c] = k] /\ k.pc = "allowed"
                           /\ k.now = call[c].now
    BY <2>1, GotoIs DEF PCs
  <2>3. row' \in Rows /\ row' # None /\ row'.count = 1 /\ row'.windowStart = call[c].now
    BY <2>1, CallFacts, LimitAssumption DEF Fresh, Rows
  <2>4. sends' \in Nat /\ sends' >= 1
    BY <2>1, RowFacts
  <2>5. RoomForIncrements'
    BY <1>1, <2>1, <2>2, FreshRowHasRoom DEF At
  <2>6. QED
    BY <1>1, <2>2, <2>3, <2>4, <2>5, CallFacts, CallerStepKeepsIInv
<1>4. QED
  BY <1>2, <1>3

LEMMA IncrementKeepsIInv ==
  ASSUME IInv, NEW c \in Callers, Increment(c)
  PROVE  IInv'
<1>1. At(c, "increment") /\ clock' = clock
  BY DEF Increment
<1>2. CASE row = None
  BY <1>1, <1>2, ErrorKeepsIInv DEF Increment, At
<1>3. CASE row # None
  <2>1. /\ row' = [row EXCEPT !.count = @ + 1] /\ sends' = sends + 1 /\ Goto(c, "allowed")
    BY <1>3 DEF Increment
  <2>2. PICK k \in Calls : call' = [call EXCEPT ![c] = k] /\ k.pc = "allowed"
                           /\ k.now = call[c].now
    BY <2>1, GotoIs DEF PCs
  <2>3. /\ row' \in Rows /\ row' # None /\ row'.count = row.count + 1
        /\ row'.windowStart = row.windowStart
    BY <1>3, <2>1, RowFacts, LimitAssumption DEF Rows
  <2>4. RoomForIncrements'
    <3>1. Incrementing' = Incrementing \ {c} /\ c \in Incrementing
      BY <1>1, <2>2, IncrementingChange DEF IInv, Incrementing, At
    <3>2. Cardinality(Incrementing') = Cardinality(Incrementing) - 1
      BY <3>1, IncrementingSize, FS_RemoveElement
    <3>3. row.count \in Nat
          /\ row.count + Cardinality(Incrementing) <= MAX_ATTEMPTS - 1 + Cardinality(Callers)
      BY <1>3, RowFacts DEF IInv, RoomForIncrements
    <3>4. QED
      BY <2>3, <3>2, <3>3, IncrementingSize, LimitAssumption DEF RoomForIncrements
  <2>5. /\ sends' \in Nat /\ row'.windowStart <= clock /\ row'.count <= sends'
        /\ k.now <= clock
    BY <1>3, <2>1, <2>2, <2>3, RowFacts, CallFacts
  <2>6. QED
    BY <1>1, <2>2, <2>3, <2>4, <2>5, CallerStepKeepsIInv
<1>4. QED
  BY <1>2, <1>3

LEMMA DiesKeepsIInv ==
  ASSUME IInv, NEW c \in Callers, Dies(c)
  PROVE  IInv'
<1>1. Goto(c, "idle") /\ row' = row /\ clock' = clock /\ sends' = sends
  BY DEF Dies
<1>2. PICK k \in Calls : call' = [call EXCEPT ![c] = k] /\ k.pc = "idle"
                         /\ k.now = call[c].now
  BY <1>1, GotoIs DEF PCs
<1>3. RoomForIncrements'
  BY <1>1, <1>2, SameRowKeepsRoom
<1>4. QED
  BY <1>1, <1>2, <1>3, RowFacts, CallFacts, CallerStepKeepsIInv

(* A reset that a call in flight notices.                                  *)
LEMMA NoticedFacts ==
  ASSUME NEW k \in Calls
  PROVE  /\ Noticed(k) \in Calls
         /\ Noticed(k).pc = k.pc /\ Noticed(k).now = k.now /\ Noticed(k).attempt = k.attempt
         /\ Noticed(k).resets = IF k.resets < MANY THEN k.resets + 1 ELSE k.resets
BY LimitAssumption DEF Noticed, Calls, MANY

LEMMA ResetKeepsIInv ==
  ASSUME IInv, ResetEmailSendLimit
  PROVE  IInv'
<1>1. /\ row' = None /\ sends' = 0 /\ clock' = clock
      /\ call' = [c \in Callers |-> IF InFlight(c) THEN Noticed(call[c]) ELSE call[c]]
  BY DEF ResetEmailSendLimit
<1>2. ASSUME NEW c \in Callers
      PROVE  /\ call'[c] \in Calls /\ call'[c].pc = call[c].pc
             /\ call'[c].now = call[c].now /\ call'[c].attempt = call[c].attempt
             /\ call'[c].resets \in 0..MANY
             /\ InFlight(c) => call'[c].resets >= call[c].resets + 1 \/ call'[c].resets = MANY
             /\ ~InFlight(c) => call'[c] = call[c]
  BY <1>1, NoticedFacts, CallFacts, LimitAssumption DEF MANY
<1>3. TypeOK'
  BY <1>1, <1>2 DEF IInv, TypeOK
<1>4. RetriesNeedResets'
  <2>1. ASSUME NEW c \in Callers
        PROVE  /\ (At(c, "create") \/ (At(c, "find") /\ row = None)
                     => call[c].resets >= call[c].attempt)'
               /\ (At(c, "find") => call[c].resets >= call[c].attempt - 1)'
               /\ (call[c].pc \in {"roll", "increment"} /\ row = None => call[c].resets >= 1)'
    BY <1>2, CallFacts, LimitAssumption DEF At, InFlight, MANY
  <2>2. QED
    BY <2>1 DEF RetriesNeedResets
<1>5. ExhaustedNeedsResets' /\ ErrorNeedsReset'
  BY <1>2 DEF IInv, ExhaustedNeedsResets, ErrorNeedsReset, At, InFlight
<1>6. QED
  BY <1>1, <1>3, <1>4, <1>5 DEF IInv, RoomForIncrements, CountedSendsHappened

(* Nothing but the clock changes, or nothing at all.                       *)
LEMMA IdleKeepsIInv ==
  ASSUME IInv, UNCHANGED <<row, call, sends>>, clock' \in 0..MAX_TIME, clock' >= clock
  PROVE  IInv'
<1>1. TypeOK'
  <2>1. clock \in 0..MAX_TIME /\ \A c \in Callers : call[c].now \in 0..MAX_TIME
    BY CallFacts DEF IInv, TypeOK
  <2>2. \A c \in Callers : call[c].now <= clock'
    BY <2>1, CallFacts, LimitAssumption
  <2>3. row # None => row.windowStart <= clock'
    BY <2>1, LimitAssumption DEF IInv, TypeOK, Rows
  <2>4. QED
    BY <2>2, <2>3 DEF IInv, TypeOK
<1>2. RoomForIncrements' /\ RetriesNeedResets' /\ CountedSendsHappened'
      /\ ExhaustedNeedsResets' /\ ErrorNeedsReset'
  BY DEF IInv, RoomForIncrements, Incrementing, RetriesNeedResets, CountedSendsHappened,
         ExhaustedNeedsResets, ErrorNeedsReset, At
<1>3. QED
  BY <1>1, <1>2 DEF IInv

LEMMA NextKeepsIInv == IInv /\ [Next]_vars => IInv'
<1> SUFFICES ASSUME IInv, [Next]_vars PROVE IInv'
  OBVIOUS
<1>1. ASSUME NEW c \in Callers, CallStep(c) PROVE IInv'
  BY <1>1, BeginKeepsIInv, FindKeepsIInv, CreateKeepsIInv, RollKeepsIInv,
     IncrementKeepsIInv, DiesKeepsIInv DEF CallStep
<1>2. CASE ResetEmailSendLimit
  BY <1>2, ResetKeepsIInv
<1>3. CASE Tick
  <2>1. clock' \in 0..MAX_TIME /\ clock' >= clock /\ UNCHANGED <<row, call, sends>>
    BY <1>3, LimitAssumption DEF Tick, IInv, TypeOK
  <2>2. QED
    BY <2>1, IdleKeepsIInv
<1>4. CASE UNCHANGED vars
  <2>1. clock' \in 0..MAX_TIME /\ clock' >= clock /\ UNCHANGED <<row, call, sends>>
    BY <1>4, LimitAssumption DEF vars, IInv, TypeOK
  <2>2. QED
    BY <2>1, IdleKeepsIInv
<1>5. QED
  BY <1>1, <1>2, <1>3, <1>4 DEF Next

(* The inductive invariant of checkAndIncrementEmailSendLimit holds in     *)
(* every reachable state, for any number of callers.                       *)
THEOREM LimitInvariant == Spec => []IInv
BY InitIInv, NextKeepsIInv, PTL DEF Spec

(* Callers that read the counter of an address together, in whatever       *)
(* order they write it, take it past the limit by less than their number.  *)
THEOREM CounterNeverOvershoots == Spec => []CounterBounded
<1>1. IInv => CounterBounded
  <2> SUFFICES ASSUME IInv, row # None
               PROVE  row.count <= MAX_ATTEMPTS - 1 + Cardinality(Callers)
    BY DEF CounterBounded
  <2>1. row.count + Cardinality(Incrementing) <= MAX_ATTEMPTS - 1 + Cardinality(Callers)
    BY DEF IInv, RoomForIncrements
  <2>2. QED
    BY <2>1, RowFacts, IncrementingSize, LimitAssumption
<1>2. QED
  BY <1>1, LimitInvariant, PTL

(* Every send the counter of an address shows was allowed in its window:   *)
(* no interleaving of creations, roll-overs and resets refuses a send on   *)
(* account of sends of an earlier window.                                  *)
THEOREM NobodyRefusedEarly == Spec => []CountedSendsHappened
<1>1. IInv => CountedSendsHappened
  BY DEF IInv
<1>2. QED
  BY <1>1, LimitInvariant, PTL

(* The retry loop runs out only when a reset deleted the row in between,   *)
(* once for every retry: the callers alone never exhaust it.               *)
THEOREM RetriesSuffice == Spec => []ExhaustedNeedsResets
<1>1. IInv => ExhaustedNeedsResets
  BY DEF IInv
<1>2. QED
  BY <1>1, LimitInvariant, PTL

(* A call's update misses its row only when a reset came between.          *)
THEOREM OnlyResetsCauseErrors == Spec => []ErrorNeedsReset
<1>1. IInv => ErrorNeedsReset
  BY DEF IInv
<1>2. QED
  BY <1>1, LimitInvariant, PTL
==============================================================================
