---------------------------- MODULE MipJobs_proofs ----------------------------
(***************************************************************************)
(* Proofs about MipJobs, for every number of polls, inputs and faults: no  *)
(* work before the payment, a result the payment node took, a job for      *)
(* whoever paid, and answers that stay in the conversation.                *)
(***************************************************************************)
EXTENDS MipJobs, TLAPS

CallRecords == [pc : PCs, seen : Statuses \cup {None}, conversation : Conversations,
                finish : BOOLEAN, alone : BOOLEAN]

Typed ==
  /\ agent \in {"ready", "unusable", "deleted"}
  /\ start \in {"idle", "create", "replied", "failed"}
  /\ payment \in {"free", "none", "requested", "locked", "submitted", "closed"}
  /\ job \in JobRecords \cup {None}
  /\ call \in [Callers -> CallRecords]
  /\ submitted \subseteq Conversations
  /\ everLocked \in BOOLEAN /\ faults \in 0 .. MAX_FAULTS

(* A message that is appended is in the conversation, and the others stay. *)
LEMMA Appended ==
  ASSUME NEW s \in Conversations, NEW c \in Callers
  PROVE  /\ Append(s, c) \in Conversations /\ Contains(Append(s, c), c)
         /\ \A x : Contains(s, x) => Contains(Append(s, c), x)
<1>1. Append(s, c) \in Seq(Callers) /\ Len(Append(s, c)) = Len(s) + 1
  BY DEF Conversations
<1>2. Append(s, c)[Len(s) + 1] = c /\ \A i \in 1 .. Len(s) : Append(s, c)[i] = s[i]
  BY DEF Conversations
<1>3. Len(s) \in Nat
  BY DEF Conversations
<1> QED
  BY <1>1, <1>2, <1>3 DEF Contains, Conversations

LEMMA TranscriptTyped ==
  ASSUME Typed, NEW i \in Inputs PROVE Transcript(i) \in Conversations
BY Appended DEF Typed, CallRecords, Transcript, Callers

LEMMA IdleTyped ==
  Idle \in CallRecords /\ [Idle EXCEPT !.pc = "refused"] \in CallRecords
<1>1. <<>> \in Conversations
  BY DEF Conversations
<1>2. {"idle", "refused"} \subseteq PCs
  BY DEF PCs
<1>3. Idle \in CallRecords
  BY <1>1, <1>2 DEF CallRecords, Idle
<1> HIDE DEF Idle
<1> QED
  BY <1>2, <1>3 DEF CallRecords

(* What a call does next, and whether it is over, leaves it a call.        *)
LEMMA CallMoves ==
  ASSUME Typed, NEW c \in Callers, NEW pc \in PCs
  PROVE  /\ Goto(c, pc) => /\ call' \in [Callers -> CallRecords]
                           /\ call'[c] = [call[c] EXCEPT !.pc = pc]
                           /\ \A d \in Callers \ {c} : call'[d] = call[d]
         /\ Return(c) => /\ call' \in [Callers -> CallRecords]
                         /\ call'[c].pc \in {"idle", "refused"}
                         /\ call'[c].alone = FALSE
                         /\ c \in Polls => call'[c].pc = "idle"
                         /\ \A d \in Callers \ {c} : call'[d] = call[d]
<1>1. [call[c] EXCEPT !.pc = pc] \in CallRecords
  BY DEF Typed, CallRecords
<1>2. Idle \in CallRecords /\ [Idle EXCEPT !.pc = "refused"] \in CallRecords
  BY IdleTyped
<1>3. Goto(c, pc) => call' = [call EXCEPT ![c] = [call[c] EXCEPT !.pc = pc]]
  BY DEF Goto
<1>4. /\ Idle.pc = "idle" /\ Idle.alone = FALSE
      /\ [Idle EXCEPT !.pc = "refused"].pc = "refused"
      /\ [Idle EXCEPT !.pc = "refused"].alone = FALSE
  BY DEF Idle
<1> QED
  BY <1>1, <1>2, <1>3, <1>4 DEF Typed, Return

LEMMA Faulted == ASSUME Typed, Fault \/ OK PROVE faults' \in 0 .. MAX_FAULTS
BY MipAssumption DEF Typed, Fault, OK

LEMMA InitTyped == Init => Typed
<1> SUFFICES ASSUME Init PROVE Typed
  OBVIOUS
<1>1. call \in [Callers -> CallRecords]
  BY IdleTyped DEF Init
<1>2. submitted \subseteq Conversations /\ everLocked \in BOOLEAN
  BY DEF Init
<1>3. faults \in 0 .. MAX_FAULTS
  BY MipAssumption DEF Init
<1> QED
  BY <1>1, <1>2, <1>3 DEF Init, Typed

LEMMA TypedStep == Typed /\ [Next]_vars => Typed'
<1> SUFFICES ASSUME Typed, [Next]_vars PROVE Typed'
  OBVIOUS
<1>1. ASSUME StartPayment \/ StartCreate PROVE Typed'
  <2>1. NewJob("AWAITING_PAYMENT") \in JobRecords /\ NewJob("RUNNING") \in JobRecords
    BY DEF NewJob, JobRecords, Statuses, Conversations
  <2>2. faults' \in 0 .. MAX_FAULTS
    BY <1>1, Faulted DEF StartPayment, StartCreate, OK
  <2> QED
    BY <1>1, <2>1, <2>2 DEF StartPayment, StartCreate, Typed
<1>2. ASSUME NEW c \in Polls, ResumeRead(c) PROVE Typed'
  <2>1. [call[c] EXCEPT !.pc = "agent", !.seen = job.status] \in CallRecords
    BY <1>2 DEF ResumeRead, Typed, JobRecords, CallRecords, PCs, Callers
  <2> QED
    BY <1>2, <2>1 DEF ResumeRead, Typed, Callers
<1>3. ASSUME NEW c \in Polls, ResumeStep(c) PROVE Typed'
  <2>1. c \in Callers
    BY DEF Callers
  <2>2. PICK pc \in PCs : Goto(c, pc) \/ Return(c)
    BY <1>3 DEF ResumeStep, ResumeAgent, ResumePayment, ResumeClaim, ResumeRefresh,
       ResumePrompt, ResumeAnswer, ResumeFail, PCs
  <2>3. call' \in [Callers -> CallRecords]
    BY <2>1, <2>2, CallMoves
  <2>4. job' = None \/ job' \in JobRecords
    <3>1. <<c>> \in Conversations
      BY <2>1 DEF Conversations
    <3>2. /\ job \in JobRecords => [job EXCEPT !.status = "RUNNING"] \in JobRecords
          /\ job \in JobRecords => [job EXCEPT !.status = "FAILED"] \in JobRecords
          /\ job \in JobRecords =>
               [job EXCEPT !.status = "AWAITING_INPUT", !.conversation = <<c>>] \in JobRecords
      BY <3>1 DEF JobRecords, Statuses
    <3> QED
      BY <1>3, <3>2 DEF ResumeStep, ResumeAgent, ResumePayment, ResumeClaim, ResumeRefresh,
         ResumePrompt, ResumeAnswer, ResumeFail, Typed
  <2>5. faults' \in 0 .. MAX_FAULTS
    BY <1>3, Faulted DEF ResumeStep, ResumeAgent, ResumePayment, ResumeClaim, ResumeRefresh,
       ResumePrompt, ResumeAnswer, ResumeFail, OK
  <2>6. UNCHANGED <<agent, start, payment, submitted, everLocked>>
    BY <1>3 DEF ResumeStep, ResumeAgent, ResumePayment, ResumeClaim, ResumeRefresh,
       ResumePrompt, ResumeAnswer, ResumeFail
  <2> QED
    BY <2>3, <2>4, <2>5, <2>6 DEF Typed
<1>4. ASSUME NEW i \in Inputs, InputStep(i) PROVE Typed'
  <2>1. i \in Callers
    BY DEF Callers
  <2>2. Transcript(i) \in Conversations
    BY TranscriptTyped
  <2>3. call' \in [Callers -> CallRecords]
    <3>1. CASE \E pc \in PCs : Goto(i, pc) \/ Return(i)
      BY <2>1, <3>1, CallMoves
    <3>2. ASSUME NEW finish \in BOOLEAN, job # None,
                 call' = [call EXCEPT ![i].pc = "agent", ![i].finish = finish,
                                      ![i].conversation = job.conversation]
          PROVE  call' \in [Callers -> CallRecords]
      <4>1. [call[i] EXCEPT !.pc = "agent", !.finish = finish,
                            !.conversation = job.conversation] \in CallRecords
        BY <2>1, <3>2 DEF Typed, JobRecords, CallRecords, PCs
      <4> QED
        BY <2>1, <3>2, <4>1 DEF Typed
    <3>3. ASSUME NEW b \in BOOLEAN,
                 call' = [call EXCEPT ![i].pc = "answered", ![i].alone = b]
          PROVE  call' \in [Callers -> CallRecords]
      <4>1. [call[i] EXCEPT !.pc = "answered", !.alone = b] \in CallRecords
        BY <2>1 DEF Typed, CallRecords, PCs
      <4> QED
        BY <2>1, <3>3, <4>1 DEF Typed
    <3>4. CASE InputRead(i)
      BY <3>1, <3>2, <3>4 DEF InputRead, PCs
    <3>5. CASE InputAnswer(i)
      <4> DEFINE lonely == \A c \in Callers \ {i} : ~InFlight(c)
      <4>1. lonely \in BOOLEAN
        OBVIOUS
      <4>2. \/ call' = [call EXCEPT ![i].pc = "answered", ![i].alone = lonely]
            \/ Return(i)
        BY <3>5 DEF InputAnswer
      <4> HIDE DEF lonely
      <4> QED
        BY <3>1, <3>3, <4>1, <4>2 DEF PCs
    <3>6. CASE InputAgent(i) \/ InputSubmit(i) \/ InputComplete(i) \/ InputPrompt(i)
      BY <3>1, <3>6 DEF InputAgent, InputSubmit, InputComplete, InputPrompt, PCs
    <3> QED
      BY <1>4, <3>4, <3>5, <3>6 DEF InputStep
  <2>4. job' = None \/ job' \in JobRecords
    <3>1. /\ job \in JobRecords =>
               [job EXCEPT !.status = "COMPLETED", !.output = Transcript(i)] \in JobRecords
          /\ job \in JobRecords =>
               [job EXCEPT !.status = "AWAITING_INPUT", !.conversation = Transcript(i)]
                 \in JobRecords
      BY <2>2 DEF JobRecords, Statuses
    <3> QED
      BY <1>4, <3>1 DEF InputStep, InputRead, InputAgent, InputSubmit, InputComplete,
         InputPrompt, InputAnswer, Typed
  <2>5. faults' \in 0 .. MAX_FAULTS
    BY <1>4, Faulted DEF InputStep, InputRead, InputAgent, InputSubmit, InputComplete,
       InputPrompt, InputAnswer, OK
  <2>6. /\ payment' \in {payment, "submitted"}
        /\ submitted' \in {submitted, submitted \cup {Transcript(i)}}
        /\ UNCHANGED <<agent, start, everLocked>>
    BY <1>4 DEF InputStep, InputRead, InputAgent, InputSubmit, InputComplete, InputPrompt,
       InputAnswer
  <2> QED
    BY <2>2, <2>3, <2>4, <2>5, <2>6 DEF Typed
<1>5. ASSUME NEW c \in Callers, Dies(c) PROVE Typed'
  <2>1. call' \in [Callers -> CallRecords]
    BY <1>5, CallMoves DEF Dies, PCs
  <2> QED
    BY <1>5, <2>1, Faulted DEF Dies, Typed
<1>6. ASSUME PurchaserPays \/ PaymentCloses \/ AgentUnusable \/ AgentDeleted PROVE Typed'
  BY <1>6 DEF PurchaserPays, PaymentCloses, AgentUnusable, AgentDeleted, Typed
<1>7. CASE UNCHANGED vars
  BY <1>7 DEF vars, Typed
<1> QED
  BY <1>1, <1>2, <1>3, <1>4, <1>5, <1>6, <1>7 DEF Next

(* The types, for every number of calls.                                   *)
THEOREM TypeCorrect == Spec => []TypeOK
<1>1. Typed => TypeOK
  BY DEF Typed, TypeOK, CallRecords, JobRecords, Conversations
<1> QED
  BY <1>1, InitTyped, TypedStep, PTL DEF Spec

------------------------------------------------------------------------------
(* What the purchaser has paid for is there: start_job replies only when   *)
(* the job is stored, and only then is there something to pay.             *)
Stored == start = "replied" \/ everLocked => job # None \/ agent = "deleted"

(* Until the purchaser has paid: polls find the job waiting, and inputs    *)
(* are refused.                                                            *)
UnpaidPoll(c) ==
  /\ call[c].pc \in {"idle", "agent", "payment", "fail"}
  /\ call[c].pc = "agent" => call[c].seen = "AWAITING_PAYMENT"
UnpaidInput(i) == call[i].pc \in {"idle", "refused"}
Unpaid ==
  /\ payment \in {"locked", "submitted"} => everLocked
  /\ Paid /\ ~everLocked =>
       /\ job # None => job.status \in {"AWAITING_PAYMENT", "FAILED"}
       /\ \A c \in Polls : UnpaidPoll(c)
       /\ \A i \in Inputs : UnpaidInput(i)

(* What is, or is about to be, the job's result was taken by the node.     *)
Results ==
  Paid =>
    /\ job # None /\ job.status = "COMPLETED" => job.output \in submitted
    /\ \A i \in Inputs : At(i, "complete") => Transcript(i) \in submitted

Inv == Typed /\ Stored /\ Unpaid /\ Results

LEMMA PollsAndInputs == /\ \A c \in Polls : c \in Callers /\ c \notin Inputs
                        /\ \A i \in Inputs : i \in Callers /\ i \notin Polls
BY MipAssumption DEF Callers

(* A job whose status is written stays one, and is not None; so does one   *)
(* whose conversation or output is written with it.                        *)
LEMMA StatusChanges ==
  ASSUME NEW j \in JobRecords, NEW s \in Statuses
  PROVE  /\ [j EXCEPT !.status = s] # None /\ [j EXCEPT !.status = s].status = s
         /\ [j EXCEPT !.status = s].conversation = j.conversation
<1>1. [j EXCEPT !.status = s] \in JobRecords
  BY DEF JobRecords
<1> QED
  BY <1>1, MipAssumption DEF JobRecords

LEMMA AnswerStored ==
  ASSUME job \in JobRecords, NEW t \in Conversations
  PROVE  LET j == [job EXCEPT !.status = "AWAITING_INPUT", !.conversation = t] IN
         j # None /\ j.status = "AWAITING_INPUT" /\ j.conversation = t
<1>1. [job EXCEPT !.status = "AWAITING_INPUT", !.conversation = t] \in JobRecords
  BY DEF JobRecords, Statuses
<1> QED
  BY <1>1, MipAssumption DEF JobRecords

LEMMA OutputStored ==
  ASSUME job \in JobRecords, NEW t \in Conversations
  PROVE  LET j == [job EXCEPT !.status = "COMPLETED", !.output = t] IN
         /\ j # None /\ j.status = "COMPLETED"
         /\ j.conversation = job.conversation /\ j.output = t
<1>1. [job EXCEPT !.status = "COMPLETED", !.output = t] \in JobRecords
  BY DEF JobRecords, Statuses
<1> QED
  BY <1>1, MipAssumption DEF JobRecords

(* What a step of a poll may do: to the job, and to the call.              *)
PollMoves(c) ==
  LET before == call[c].pc
      after == call'[c].pc IN
  \/ job' = job /\ after = "idle" /\ before # "idle"
  \/ /\ job' = job
     /\ \/ before = "agent" /\ after = "fail"
        \/ before = "agent" /\ call[c].seen = "AWAITING_PAYMENT" /\ after = "payment"
        \/ before = "agent" /\ call[c].seen # "AWAITING_PAYMENT" /\ after = "refresh"
        \/ before = "payment" /\ after = "claim" /\ payment = "locked"
        \/ before = "refresh" /\ after = "prompt" /\ job # None /\ job.status = "RUNNING"
        \/ before = "prompt" /\ after \in {"answer", "fail"}
        \/ before = "answer" /\ after = "fail"
  \/ /\ job # None /\ job' # None
     /\ \/ /\ before = "claim" /\ after = "refresh"
           /\ job.status = "AWAITING_PAYMENT" /\ job'.status = "RUNNING"
           /\ job'.conversation = job.conversation
        \/ before = "answer" /\ after = "idle" /\ job'.status = "AWAITING_INPUT"
        \/ /\ before = "fail" /\ after = "idle" /\ job'.status = "FAILED"
           /\ job'.conversation = job.conversation

LEMMA PollStep ==
  ASSUME Typed, NEW c \in Polls, ResumeStep(c)
  PROVE  /\ UNCHANGED <<agent, start, payment, submitted, everLocked>>
         /\ \A d \in Callers \ {c} : call'[d] = call[d]
         /\ PollMoves(c)
<1> USE PollsAndInputs
<1>1. PICK pc \in PCs : Goto(c, pc) \/ Return(c)
  BY DEF ResumeStep, ResumeAgent, ResumePayment, ResumeClaim, ResumeRefresh,
     ResumePrompt, ResumeAnswer, ResumeFail, PCs
<1>2. \A d \in Callers \ {c} : call'[d] = call[d]
  BY <1>1, CallMoves
<1>3. UNCHANGED <<agent, start, payment, submitted, everLocked>>
  BY DEF ResumeStep, ResumeAgent, ResumePayment, ResumeClaim, ResumeRefresh,
     ResumePrompt, ResumeAnswer, ResumeFail
<1>4. \A p : Goto(c, p) => call'[c].pc = p
  BY DEF Goto, Typed, CallRecords
<1>5. Return(c) => call'[c].pc = "idle"
  BY CallMoves, <1>1
<1> USE DEF PollMoves, At
<1>6. CASE ResumeAgent(c)
  BY <1>2, <1>3, <1>4, <1>5, <1>6 DEF ResumeAgent
<1>7. CASE ResumePayment(c)
  BY <1>2, <1>3, <1>4, <1>5, <1>7 DEF ResumePayment, PaymentLocked
<1>8. CASE ResumeClaim(c)
  <2>0. "RUNNING" \in Statuses
    BY DEF Statuses
  <2>1. job \in JobRecords =>
          /\ [job EXCEPT !.status = "RUNNING"] # None
          /\ [job EXCEPT !.status = "RUNNING"].status = "RUNNING"
          /\ [job EXCEPT !.status = "RUNNING"].conversation = job.conversation
    BY <2>0, StatusChanges
  <2> QED
    BY <1>2, <1>3, <1>4, <1>5, <1>8, <2>1 DEF ResumeClaim, Typed, Statuses
<1>9. CASE ResumeRefresh(c)
  BY <1>2, <1>3, <1>4, <1>5, <1>9 DEF ResumeRefresh
<1>10. CASE ResumePrompt(c)
  BY <1>2, <1>3, <1>4, <1>5, <1>10 DEF ResumePrompt
<1>11. CASE ResumeAnswer(c)
  <2>1. <<c>> \in Conversations
    BY DEF Conversations
  <2>2. PICK t \in Conversations : t = <<c>>
    BY <2>1
  <2> QED
    BY <1>2, <1>3, <1>4, <1>5, <1>11, <2>2, AnswerStored DEF ResumeAnswer, Typed
<1>12. CASE ResumeFail(c)
  <2>0. "FAILED" \in Statuses
    BY DEF Statuses
  <2>1. job \in JobRecords =>
          /\ [job EXCEPT !.status = "FAILED"] # None
          /\ [job EXCEPT !.status = "FAILED"].status = "FAILED"
          /\ [job EXCEPT !.status = "FAILED"].conversation = job.conversation
    BY <2>0, StatusChanges
  <2> QED
    BY <1>2, <1>3, <1>4, <1>5, <1>12, <2>1 DEF ResumeFail, Typed, Statuses
<1> QED
  BY <1>6, <1>7, <1>8, <1>9, <1>10, <1>11, <1>12 DEF ResumeStep

(* What a step of an input may do.                                         *)
InputMoves(i) ==
  LET before == call[i].pc
      after == call'[i].pc
      kept == call'[i].conversation = call[i].conversation /\ ~call'[i].alone IN
  \/ /\ job' = job /\ after = "refused" /\ ~call'[i].alone
     /\ before = "idle" => start = "replied"
  \/ /\ job' = job /\ before = "idle" /\ after = "agent" /\ start = "replied"
     /\ job # None /\ job.status = "AWAITING_INPUT"
     /\ call'[i].conversation = job.conversation /\ ~call'[i].alone
  \/ /\ job' = job /\ kept
     /\ \/ before = "agent" /\ after \in {"prompt", "submit"}
        \/ before = "agent" /\ after = "complete" /\ ~Paid
        \/ before = "submit" /\ after = "complete" /\ Transcript(i) \in submitted'
        \/ before = "prompt" /\ after = "answer"
  \/ /\ job # None /\ job' # None
     /\ \/ /\ before = "complete" /\ after = "completed" /\ kept
           /\ job'.status = "COMPLETED" /\ job'.output = Transcript(i)
           /\ job'.conversation = job.conversation
        \/ /\ before = "answer" /\ after = "answered" /\ job'.status = "AWAITING_INPUT"
           /\ job'.conversation = Transcript(i)
           /\ call'[i].alone => \A c \in Callers \ {i} : ~InFlight(c)

LEMMA InputSteps ==
  ASSUME Typed, NEW i \in Inputs, InputStep(i),
         \A j \in Inputs : call[j].pc # "answered" => ~call[j].alone
  PROVE  /\ UNCHANGED <<agent, start, everLocked>> /\ submitted \subseteq submitted'
         /\ payment' = payment \/ (payment \in {"locked", "submitted"} /\ payment' = "submitted")
         /\ \A d \in Callers \ {i} : call'[d] = call[d]
         /\ InputMoves(i)
         /\ call[i].pc \notin {"refused", "completed", "answered"}
<1> USE PollsAndInputs
<1>1. \A p : Goto(i, p) => /\ call'[i].pc = p /\ call'[i].alone = call[i].alone
                           /\ call'[i].conversation = call[i].conversation
                           /\ \A d \in Callers \ {i} : call'[d] = call[d]
  BY DEF Goto, Typed, CallRecords
<1>2. Return(i) => /\ call'[i].pc = "refused" /\ ~call'[i].alone
                   /\ \A d \in Callers \ {i} : call'[d] = call[d]
  <2>1. [Idle EXCEPT !.pc = "refused"].pc = "refused" /\ ~[Idle EXCEPT !.pc = "refused"].alone
    BY DEF Idle
  <2> QED
    BY <2>1 DEF Return, Typed
<1>3. CASE InputRead(i)
  <2>1. CASE Return(i)
    BY <1>2, <1>3, <2>1 DEF InputRead, InputMoves, At
  <2>2. CASE ~Return(i)
    <3>1. PICK finish \in BOOLEAN :
            call' = [call EXCEPT ![i].pc = "agent", ![i].finish = finish,
                                 ![i].conversation = job.conversation]
      BY <1>3, <2>2 DEF InputRead
    <3>2. /\ call'[i].pc = "agent" /\ call'[i].conversation = job.conversation
          /\ call'[i].alone = call[i].alone
          /\ \A d \in Callers \ {i} : call'[d] = call[d]
      BY <3>1 DEF Typed, CallRecords
    <3> QED
      BY <1>3, <2>2, <3>2 DEF InputRead, InputMoves, At
  <2> QED
    BY <2>1, <2>2
<1>4. CASE InputAgent(i)
  BY <1>1, <1>2, <1>4 DEF InputAgent, InputMoves, At
<1>5. CASE InputSubmit(i)
  BY <1>1, <1>2, <1>5 DEF InputSubmit, InputMoves, At, Takes
<1>6. CASE InputComplete(i)
  <2>1. PICK t \in Conversations : t = Transcript(i)
    BY TranscriptTyped
  <2> QED
    BY <1>1, <1>2, <1>6, <2>1, OutputStored DEF InputComplete, InputMoves, At, Typed
<1>7. CASE InputPrompt(i)
  BY <1>1, <1>2, <1>7 DEF InputPrompt, InputMoves, At
<1>8. CASE InputAnswer(i)
  <2>1. PICK t \in Conversations : t = Transcript(i)
    BY TranscriptTyped
  <2> DEFINE lonely == \A c \in Callers \ {i} : ~InFlight(c)
  <2>3. \/ call' = [call EXCEPT ![i].pc = "answered", ![i].alone = lonely]
           /\ job # None /\ job' = [job EXCEPT !.status = "AWAITING_INPUT", !.conversation = t]
        \/ Return(i) /\ job' = job
    BY <1>8, <2>1 DEF InputAnswer
  <2>4. lonely \in BOOLEAN
    OBVIOUS
  <2> HIDE DEF lonely
  <2>5. call' = [call EXCEPT ![i].pc = "answered", ![i].alone = lonely] =>
          /\ call'[i].pc = "answered" /\ (call'[i].alone => lonely)
          /\ \A d \in Callers \ {i} : call'[d] = call[d]
    BY <2>4 DEF Typed, CallRecords
  <2>6. lonely => \A c \in Callers \ {i} : ~InFlight(c)
    BY DEF lonely
  <2> QED
    BY <1>2, <1>8, <2>1, <2>3, <2>5, <2>6, AnswerStored DEF InputAnswer, InputMoves, At, Typed
<1> QED
  BY <1>3, <1>4, <1>5, <1>6, <1>7, <1>8 DEF InputStep

------------------------------------------------------------------------------
(* An input that is not over reads no older conversation than an answer    *)
(* that was stored alone: there was no other call under way then, no poll  *)
(* can start the job again, and every later input reads what is stored.    *)
Keeps(i) ==
  /\ job # None => job.status \in {"AWAITING_INPUT"} \cup Finals /\ Contains(job.conversation, i)
  /\ \A c \in Polls : call[c].pc \notin {"prompt", "answer"}
  /\ \A j \in Inputs : InFlight(j) => Contains(call[j].conversation, i)
Kept ==
  /\ \A i \in Inputs : At(i, "answered") /\ call[i].alone => Keeps(i)
  /\ \A i \in Inputs : ~At(i, "answered") => ~call[i].alone
  /\ \A i \in Inputs : ~At(i, "idle") => start = "replied"

IInv == Inv /\ Kept

LEMMA InitIInv == Init => IInv
<1> SUFFICES ASSUME Init PROVE IInv
  OBVIOUS
<1>1. \A c \in Callers : call[c].pc = "idle" /\ ~call[c].alone
  BY DEF Init, Idle
<1>2. job = None /\ ~everLocked /\ start = "idle" /\ payment \in {"free", "none"}
  BY DEF Init
<1> QED
  BY <1>1, <1>2, InitTyped DEF IInv, Inv, Stored, Unpaid, UnpaidPoll, UnpaidInput, Results,
     Kept, At, Callers

LEMMA PollKeeps ==
  ASSUME IInv, Typed', NEW c \in Polls, ResumeRead(c) \/ ResumeStep(c) PROVE IInv'
<1> USE PollsAndInputs
<1>1. /\ UNCHANGED <<agent, start, payment, submitted, everLocked>>
      /\ \A d \in Callers \ {c} : call'[d] = call[d]
      /\ \/ PollMoves(c)
         \/ job' = job /\ job # None /\ job.status \notin Finals
            /\ call'[c].pc = "agent" /\ call'[c].seen = job.status
  BY PollStep DEF ResumeRead, IInv, Inv, Typed, CallRecords
<1>2. Stored'
  BY <1>1 DEF IInv, Inv, Stored, PollMoves
<1>3. Unpaid'
  <2> SUFFICES ASSUME Paid, ~everLocked
               PROVE  /\ job' # None => job'.status \in {"AWAITING_PAYMENT", "FAILED"}
                      /\ \A d \in Polls : UnpaidPoll(d)'
                      /\ \A i \in Inputs : UnpaidInput(i)'
    BY <1>1 DEF IInv, Inv, Unpaid, Paid
  <2>1. /\ job # None => job.status \in {"AWAITING_PAYMENT", "FAILED"}
        /\ \A d \in Polls : UnpaidPoll(d)
        /\ \A i \in Inputs : UnpaidInput(i)
        /\ payment # "locked"
    BY DEF IInv, Inv, Unpaid
  <2>2. UnpaidPoll(c)' /\ (job' # None => job'.status \in {"AWAITING_PAYMENT", "FAILED"})
    BY <1>1, <2>1 DEF UnpaidPoll, PollMoves, Finals
  <2>3. \A d \in Polls \ {c} : UnpaidPoll(d)'
    BY <1>1, <2>1 DEF UnpaidPoll
  <2>4. \A i \in Inputs : UnpaidInput(i)'
    BY <1>1, <2>1 DEF UnpaidInput
  <2> QED
    BY <2>2, <2>3, <2>4
<1>4. Results'
  BY <1>1 DEF IInv, Inv, Results, Paid, PollMoves, At, Transcript
<1>5. Kept'
  <2>1. ASSUME NEW i \in Inputs, At(i, "answered")', call'[i].alone PROVE Keeps(i)'
    <3>1. Keeps(i)
      BY <1>1, <2>1 DEF IInv, Kept, At
    <3>2. /\ job' # None => job'.status \in {"AWAITING_INPUT"} \cup Finals
                            /\ Contains(job'.conversation, i)
          /\ call'[c].pc \notin {"prompt", "answer"}
      BY <1>1, <3>1 DEF Keeps, PollMoves, Finals
    <3> QED
      BY <1>1, <3>1, <3>2 DEF Keeps, InFlight
  <2> QED
    BY <1>1, <2>1 DEF IInv, Kept, At
<1> QED
  BY <1>2, <1>3, <1>4, <1>5 DEF IInv, Inv

LEMMA InputKeeps ==
  ASSUME IInv, Typed', NEW i \in Inputs, InputStep(i) PROVE IInv'
<1> USE PollsAndInputs
<1>1. /\ UNCHANGED <<agent, start, everLocked>> /\ submitted \subseteq submitted'
      /\ payment' = payment \/ (payment \in {"locked", "submitted"} /\ payment' = "submitted")
      /\ \A d \in Callers \ {i} : call'[d] = call[d]
      /\ InputMoves(i)
      /\ call[i].pc \notin {"refused", "completed", "answered"}
  BY InputSteps DEF IInv, Inv, Kept, At
<1>2. Paid' = Paid
  BY <1>1 DEF Paid
<1>3. Stored'
  BY <1>1 DEF IInv, Inv, Stored, InputMoves
<1>4. Unpaid'
  <2> SUFFICES ASSUME Paid, ~everLocked
               PROVE  /\ job' # None => job'.status \in {"AWAITING_PAYMENT", "FAILED"}
                      /\ \A d \in Polls : UnpaidPoll(d)'
                      /\ \A j \in Inputs : UnpaidInput(j)'
    BY <1>1, <1>2 DEF IInv, Inv, Unpaid
  <2>1. /\ job # None => job.status \in {"AWAITING_PAYMENT", "FAILED"}
        /\ \A d \in Polls : UnpaidPoll(d)
        /\ \A j \in Inputs : UnpaidInput(j)
    BY DEF IInv, Inv, Unpaid
  <2>2. job' = job /\ UnpaidInput(i)'
    BY <1>1, <2>1 DEF UnpaidInput, InputMoves
  <2> QED
    BY <1>1, <2>1, <2>2 DEF UnpaidPoll, UnpaidInput
<1>5. Results'
  <2> SUFFICES ASSUME Paid
               PROVE  /\ job' # None /\ job'.status = "COMPLETED" => job'.output \in submitted'
                      /\ \A j \in Inputs : At(j, "complete")' => Transcript(j)' \in submitted'
    BY <1>2 DEF Results
  <2>1. /\ job # None /\ job.status = "COMPLETED" => job.output \in submitted
        /\ \A j \in Inputs : At(j, "complete") => Transcript(j) \in submitted
    BY DEF IInv, Inv, Results
  <2>2. job' # None /\ job'.status = "COMPLETED" => job'.output \in submitted'
    BY <1>1, <2>1 DEF InputMoves, At
  <2>3. At(i, "complete")' => Transcript(i)' \in submitted'
    BY <1>1 DEF InputMoves, At, Transcript
  <2>4. \A j \in Inputs \ {i} : At(j, "complete")' => Transcript(j)' \in submitted'
    BY <1>1, <2>1 DEF At, Transcript
  <2> QED
    BY <2>2, <2>3, <2>4
<1>6. Kept'
  <2>1. ASSUME NEW k \in Inputs, At(k, "answered")', call'[k].alone, k # i PROVE Keeps(k)'
    <3>1. Keeps(k)
      BY <1>1, <2>1 DEF IInv, Kept, At
    <3>2. InFlight(i) => Contains(Transcript(i), k)
      BY <3>1, Appended DEF Keeps, Transcript, IInv, Inv, Typed, CallRecords
    <3>3. /\ job' # None => job'.status \in {"AWAITING_INPUT"} \cup Finals
                            /\ Contains(job'.conversation, k)
          /\ InFlight(i)' => Contains(call'[i].conversation, k)
      BY <1>1, <3>1, <3>2 DEF Keeps, InputMoves, Finals, InFlight
    <3> QED
      BY <1>1, <3>1, <3>3 DEF Keeps, InFlight
  <2>2. ASSUME At(i, "answered")', call'[i].alone PROVE Keeps(i)'
    <3>1. /\ \A c \in Callers \ {i} : ~InFlight(c)
          /\ job'.status = "AWAITING_INPUT" /\ job'.conversation = Transcript(i)
      BY <1>1, <2>2 DEF InputMoves, At
    <3>2. Contains(Transcript(i), i)
      BY Appended DEF Transcript, IInv, Inv, Typed, CallRecords
    <3> QED
      BY <1>1, <2>2, <3>1, <3>2 DEF Keeps, InFlight, At
  <2>3. ~At(i, "answered")' => ~call'[i].alone
    BY <1>1 DEF InputMoves, At, IInv, Kept
  <2>4. ~At(i, "idle")' => start' = "replied"
    BY <1>1 DEF InputMoves, At, IInv, Kept
  <2> QED
    BY <1>1, <2>1, <2>2, <2>3, <2>4 DEF IInv, Kept, At
<1> QED
  BY <1>3, <1>4, <1>5, <1>6 DEF IInv, Inv

LEMMA DeathKeeps ==
  ASSUME IInv, Typed', NEW c \in Callers, Dies(c) PROVE IInv'
<1> USE PollsAndInputs
<1>1. /\ call'[c].pc \in {"idle", "refused"} /\ ~call'[c].alone
      /\ c \in Polls => call'[c].pc = "idle"
      /\ \A d \in Callers \ {c} : call'[d] = call[d]
      /\ call[c].pc # "idle"
      /\ UNCHANGED <<agent, start, payment, job, submitted, everLocked>>
  BY CallMoves DEF Dies, IInv, Inv, PCs, InFlight
<1>2. call'[c].pc = "idle" => c \in Polls
  <2>1. c \notin Polls => call' = [call EXCEPT ![c] = [Idle EXCEPT !.pc = "refused"]]
    BY DEF Dies, Return
  <2>2. [Idle EXCEPT !.pc = "refused"].pc = "refused"
    BY DEF Idle
  <2> QED
    BY <2>1, <2>2 DEF IInv, Inv, Typed
<1>3. Stored'
  BY <1>1 DEF IInv, Inv, Stored
<1>4. Unpaid'
  BY <1>1, <1>2 DEF IInv, Inv, Unpaid, UnpaidPoll, UnpaidInput, Paid
<1>5. Results'
  BY <1>1 DEF IInv, Inv, Results, Paid, At, Transcript
<1>6. Kept'
  BY <1>1 DEF IInv, Kept, Keeps, At, InFlight
<1> QED
  BY <1>3, <1>4, <1>5, <1>6 DEF IInv, Inv

LEMMA OtherSteps ==
  ASSUME IInv, Typed',
         \/ StartPayment \/ StartCreate \/ PurchaserPays \/ PaymentCloses
         \/ AgentUnusable \/ AgentDeleted
  PROVE  IInv'
<1> USE PollsAndInputs
<1>1. UNCHANGED <<call, submitted>>
  BY DEF StartPayment, StartCreate, PurchaserPays, PaymentCloses, AgentUnusable, AgentDeleted
<1>2. CASE StartCreate
  <2>1. /\ NewJob("AWAITING_PAYMENT") # None /\ NewJob("RUNNING") # None
        /\ NewJob("AWAITING_PAYMENT").status = "AWAITING_PAYMENT"
        /\ NewJob("RUNNING").status = "RUNNING"
    <3>1. NewJob("AWAITING_PAYMENT") \in JobRecords /\ NewJob("RUNNING") \in JobRecords
      BY DEF NewJob, JobRecords, Statuses, Conversations
    <3> QED
      BY <3>1, MipAssumption DEF NewJob
  <2>2. /\ UNCHANGED <<agent, payment, everLocked>> /\ start = "create"
        /\ start' = "replied" => job' # None
        /\ job' # job => /\ job' # None /\ job'.status \in {"AWAITING_PAYMENT", "RUNNING"}
                         /\ Paid => job'.status = "AWAITING_PAYMENT"
        /\ start' # "replied" => job' = job
    BY <1>2, <2>1 DEF StartCreate
  <2>3. \A i \in Inputs : ~At(i, "answered")
    BY <2>2 DEF IInv, Kept, At
  <2>4. Stored'
    BY <2>2 DEF IInv, Inv, Stored
  <2>5. Unpaid'
    BY <1>1, <2>2 DEF IInv, Inv, Unpaid, UnpaidPoll, UnpaidInput, Paid
  <2>6. Results'
    BY <1>1, <2>2 DEF IInv, Inv, Results, Paid, At, Transcript
  <2>7. Kept'
    BY <1>1, <2>2, <2>3 DEF IInv, Kept, At
  <2> QED
    BY <2>4, <2>5, <2>6, <2>7 DEF IInv, Inv
<1>3. CASE AgentDeleted
  BY <1>1, <1>3 DEF AgentDeleted, IInv, Inv, Stored, Unpaid, UnpaidPoll, UnpaidInput, Results,
     Paid, At, Transcript, Kept, Keeps, InFlight
<1>4. CASE StartPayment \/ PurchaserPays \/ PaymentCloses \/ AgentUnusable
  <2>1. /\ UNCHANGED job /\ Paid' = Paid /\ (everLocked => everLocked')
        /\ start = "replied" => start' = "replied"
        /\ start' = "replied" => start = "replied"
        /\ agent = "deleted" => agent' = "deleted"
        /\ everLocked' => everLocked \/ start = "replied"
        /\ payment' \in {"locked", "submitted"} => everLocked'
    BY <1>4 DEF StartPayment, PurchaserPays, PaymentCloses, AgentUnusable, Paid, IInv, Inv, Unpaid
  <2>2. Stored'
    BY <2>1 DEF IInv, Inv, Stored
  <2>3. Unpaid'
    BY <1>1, <2>1 DEF IInv, Inv, Unpaid, UnpaidPoll, UnpaidInput
  <2>4. Results'
    BY <1>1, <2>1 DEF IInv, Inv, Results, At, Transcript
  <2>5. Kept'
    BY <1>1, <2>1 DEF IInv, Kept, Keeps, At, InFlight
  <2> QED
    BY <2>2, <2>3, <2>4, <2>5 DEF IInv, Inv
<1> QED
  BY <1>2, <1>3, <1>4

------------------------------------------------------------------------------
(* IInv is inductive.                                                      *)
THEOREM Invariant == Spec => []IInv
<1>1. IInv /\ [Next]_vars => IInv'
  <2> SUFFICES ASSUME IInv, [Next]_vars PROVE IInv'
    OBVIOUS
  <2>1. Typed'
    BY TypedStep DEF IInv, Inv
  <2>2. CASE UNCHANGED vars
    BY <2>1, <2>2 DEF vars, IInv, Inv, Stored, Unpaid, UnpaidPoll, UnpaidInput, Results, Paid,
       At, Transcript, Kept, Keeps, InFlight
  <2> QED
    BY <2>1, <2>2, PollKeeps, InputKeeps, DeathKeeps, OtherSteps DEF Next
<1> QED
  BY <1>1, InitIInv, PTL DEF Spec

(* Langdock is not asked for a paid job before its payment was locked.     *)
THEOREM PaymentFirst == Spec => []NoWorkBeforePayment
<1>1. IInv => NoWorkBeforePayment
  BY DEF IInv, Inv, Unpaid, UnpaidPoll, UnpaidInput, NoWorkBeforePayment, At, Callers
<1> QED
  BY <1>1, Invariant, PTL

(* A completed paid job stores a result the payment node took.             *)
THEOREM ResultsSubmitted == Spec => []CompletedWasSubmitted
<1>1. IInv => CompletedWasSubmitted
  BY DEF IInv, Inv, Results, CompletedWasSubmitted
<1> QED
  BY <1>1, Invariant, PTL

(* Nobody pays for a job that was never stored.                            *)
THEOREM PaidJobsStored == Spec => []PayersHaveJob
<1>1. IInv => PayersHaveJob
  BY DEF IInv, Inv, Stored, PayersHaveJob
<1> QED
  BY <1>1, Invariant, PTL

(* An answer stored while no other call was under way stays.               *)
THEOREM AnswersStay == Spec => []AnswersKept
<1>1. IInv => AnswersKept
  BY DEF IInv, Kept, Keeps, AnswersKept
<1> QED
  BY <1>1, Invariant, PTL
==============================================================================
