------------------------------- MODULE MipJobs --------------------------------
(***************************************************************************)
(* lib/mip/langdock-runtime.ts: one job of one agent, from start_job to    *)
(* its completion.  Polls run resumeLangdockJob (the background run that   *)
(* start_job spawns is one more of them), inputs run                       *)
(* provideLangdockJobInput; every await is a step.                         *)
(*                                                                         *)
(* External: the payment node with the purchaser behind it, and Langdock,  *)
(* which answers or fails.  A message of the conversation is named by the  *)
(* call that asked for it: a poll stands for the prompt and its answer, an *)
(* input for the message and its answer.  Hashes are injective: a          *)
(* transcript is its own hash.                                             *)
(***************************************************************************)
EXTENDS Integers, Sequences, SequencesExt

CONSTANTS Polls,       \* callers of status, again and again
          Inputs,      \* calls of provide_input, each made once
          None,
          MAX_FAULTS   \* bound on crashes, lost replies and failed statements

Callers == Polls \cup Inputs
Statuses == {"AWAITING_PAYMENT", "RUNNING", "AWAITING_INPUT", "COMPLETED", "FAILED"}
Conversations == Seq(Callers)
JobRecords == [status : Statuses, conversation : Conversations,
               output : Conversations \cup {None}]

ASSUME MipAssumption ==
  /\ Polls \cap Inputs = {} /\ None \notin Callers \cup JobRecords
  /\ MAX_FAULTS \in Nat

VARIABLES agent,      \* "ready", "unusable" (its connection or config), "deleted"
          start,      \* progress of start_job
          payment,    \* what the payment node knows of the job's payment
          job,        \* the job's row, or None
          call,       \* what each poll and input is doing
          submitted,  \* the transcripts whose hash the node accepted
          everLocked, \* history: the purchaser paid
          faults

vars == <<agent, start, payment, job, call, submitted, everLocked, faults>>

Paid == payment # "free"
Finals == {"COMPLETED", "FAILED"}

NewJob(status) == [status |-> status, conversation |-> <<>>, output |-> None]
(* alone, which only properties read: no other call was under way when an  *)
(* input's answer was stored.                                              *)
Idle == [pc |-> "idle", seen |-> None, conversation |-> <<>>, finish |-> FALSE, alone |-> FALSE]

Init ==
  /\ agent = "ready"
  /\ start = "idle"
  /\ payment \in {"free", "none"}
  /\ job = None
  /\ call = [c \in Callers |-> Idle]
  /\ submitted = {} /\ everLocked = FALSE
  /\ faults = 0

At(c, pc) == call[c].pc = pc
Goto(c, pc) == call' = [call EXCEPT ![c].pc = pc]
(* A poll may call again; an input is over.                                *)
Return(c) == call' = [call EXCEPT ![c] = IF c \in Polls THEN Idle ELSE [Idle EXCEPT !.pc = "refused"]]
InFlight(c) == call[c].pc \notin {"idle", "refused", "completed", "answered"}
Fault == faults < MAX_FAULTS /\ faults' = faults + 1
OK == UNCHANGED faults

------------------------------------------------------------------------------
(* startLangdockJob: the payment, then the job, then the reply.            *)
StartPayment ==
  /\ start = "idle"
  /\ agent = "ready"
  /\ IF Paid THEN payment' = "requested" ELSE UNCHANGED payment
  /\ start' = "create"
  /\ UNCHANGED <<agent, job, call, submitted, everLocked, faults>>

\* Mutant: the purchaser hears of the payment before the job is stored.
CreateAfterReply ==
  /\ start \in {"create", "replied"}
  /\ start' = "replied"
  /\ job' \in {job, NewJob(IF Paid THEN "AWAITING_PAYMENT" ELSE "RUNNING")}
  /\ UNCHANGED <<agent, payment, call, submitted, everLocked, faults>>
StartCreate ==
  /\ start = "create"
  /\ \/ /\ OK
        /\ agent # "deleted"
        /\ job' = NewJob(IF Paid THEN "AWAITING_PAYMENT" ELSE "RUNNING")
        /\ start' = "replied"
     \/ /\ Fault \/ (OK /\ agent = "deleted")
        /\ start' = "failed"
        /\ UNCHANGED job
  /\ UNCHANGED <<agent, payment, call, submitted, everLocked>>

------------------------------------------------------------------------------
(* resumeLangdockJob.                                                      *)
\* Mutant: a job found running is left to the caller that claimed it.
ResumeUnlessRunning(c) ==
  /\ c \in Polls /\ At(c, "idle")
  /\ job # None
  /\ job.status \notin Finals \cup {"RUNNING"}
  /\ call' = [call EXCEPT ![c].pc = "agent", ![c].seen = job.status]
  /\ UNCHANGED <<agent, start, payment, job, submitted, everLocked, faults>>
ResumeRead(c) ==
  /\ c \in Polls /\ At(c, "idle")
  /\ job # None
  /\ job.status \notin Finals
  /\ call' = [call EXCEPT ![c].pc = "agent", ![c].seen = job.status]
  /\ UNCHANGED <<agent, start, payment, job, submitted, everLocked, faults>>

ResumeAgent(c) ==
  /\ c \in Polls /\ At(c, "agent")
  /\ Goto(c, IF agent # "ready" THEN "fail"
             ELSE IF call[c].seen = "AWAITING_PAYMENT" THEN "payment" ELSE "refresh")
  /\ UNCHANGED <<agent, start, payment, job, submitted, everLocked, faults>>

(* resolvePaymentLocked: no client, an error or another state is "no".     *)
\* Mutant: without a client, "yes".
LockedOrUnknown(p) == p \in {"locked", "requested"}
PaymentLocked(p) == p = "locked"

ResumePayment(c) ==
  /\ At(c, "payment")
  /\ \/ PaymentLocked(payment) /\ Goto(c, "claim") /\ OK
     \/ ~PaymentLocked(payment) /\ Return(c) /\ OK
     \/ Fault /\ Return(c)
  /\ UNCHANGED <<agent, start, payment, job, submitted, everLocked>>

ResumeClaim(c) ==
  /\ At(c, "claim")
  /\ IF job # None /\ job.status = "AWAITING_PAYMENT"
     THEN job' = [job EXCEPT !.status = "RUNNING"] /\ Goto(c, "refresh")
     ELSE Return(c) /\ UNCHANGED job
  /\ UNCHANGED <<agent, start, payment, submitted, everLocked, faults>>

\* Mutant: whatever the job waits for, it is run.
RefreshUnchecked(c) ==
  /\ At(c, "refresh")
  /\ IF job # None THEN Goto(c, "prompt") ELSE Return(c)
  /\ UNCHANGED <<agent, start, payment, job, submitted, everLocked, faults>>
ResumeRefresh(c) ==
  /\ At(c, "refresh")
  /\ IF job # None /\ job.status = "RUNNING" THEN Goto(c, "prompt") ELSE Return(c)
  /\ UNCHANGED <<agent, start, payment, job, submitted, everLocked, faults>>

(* Langdock is asked; whatever goes wrong up to the update makes it fail.  *)
ResumePrompt(c) ==
  /\ At(c, "prompt")
  /\ Goto(c, "answer") \/ Goto(c, "fail")
  /\ UNCHANGED <<agent, start, payment, job, submitted, everLocked, faults>>

ResumeAnswer(c) ==
  /\ c \in Polls /\ At(c, "answer")
  /\ \/ /\ OK /\ job # None
        /\ job' = [job EXCEPT !.status = "AWAITING_INPUT", !.conversation = <<c>>]
        /\ Return(c)
     \/ /\ Fault \/ (OK /\ job = None)
        /\ Goto(c, "fail") /\ UNCHANGED job
  /\ UNCHANGED <<agent, start, payment, submitted, everLocked>>

ResumeFail(c) ==
  /\ At(c, "fail")
  /\ \/ OK /\ job # None /\ job' = [job EXCEPT !.status = "FAILED"]
     \/ (Fault \/ (OK /\ job = None)) /\ UNCHANGED job
  /\ Return(c)
  /\ UNCHANGED <<agent, start, payment, submitted, everLocked>>

------------------------------------------------------------------------------
(* provideLangdockJobInput.  The transcript is the conversation it read    *)
(* with its own message.                                                   *)
Transcript(i) == Append(call[i].conversation, i)

InputRead(i) ==
  /\ i \in Inputs /\ At(i, "idle")
  /\ start = "replied"
  /\ IF job # None /\ job.status = "AWAITING_INPUT"
     THEN \E finish \in BOOLEAN :
            call' = [call EXCEPT ![i].pc = "agent", ![i].finish = finish,
                                 ![i].conversation = job.conversation]
     ELSE Return(i)
  /\ UNCHANGED <<agent, start, payment, job, submitted, everLocked, faults>>

InputAgent(i) ==
  /\ i \in Inputs /\ At(i, "agent")
  /\ IF agent # "ready" THEN Return(i)
     ELSE Goto(i, IF ~call[i].finish THEN "prompt" ELSE IF Paid THEN "submit" ELSE "complete")
  /\ UNCHANGED <<agent, start, payment, job, submitted, everLocked, faults>>

(* The node takes a result of a locked payment, perhaps another one later. *)
Takes(p) == p \in {"locked", "submitted"}

\* Mutant: a failed submission is logged, and the job completed.
SubmitIgnoresFailure(i) ==
  /\ At(i, "submit")
  /\ \/ /\ Takes(payment)
        /\ payment' = "submitted"
        /\ submitted' = submitted \cup {Transcript(i)}
     \/ UNCHANGED <<payment, submitted>>
  /\ Goto(i, "complete")
  /\ UNCHANGED <<agent, start, job, everLocked, faults>>
InputSubmit(i) ==
  /\ At(i, "submit")
  /\ \/ /\ Takes(payment)
        /\ payment' = "submitted"
        /\ submitted' = submitted \cup {Transcript(i)}
        /\ \/ OK /\ Goto(i, "complete")
           \/ Fault /\ Return(i)
     \/ /\ payment # "locked"
        /\ Return(i) /\ OK
        /\ UNCHANGED <<payment, submitted>>
     \/ Fault /\ Return(i) /\ UNCHANGED <<payment, submitted>>
  /\ UNCHANGED <<agent, start, job, everLocked>>

InputComplete(i) ==
  /\ At(i, "complete")
  /\ \/ /\ OK /\ job # None
        /\ job' = [job EXCEPT !.status = "COMPLETED", !.output = Transcript(i)]
        /\ Goto(i, "completed")
     \/ (Fault \/ (OK /\ job = None)) /\ Return(i) /\ UNCHANGED job
  /\ UNCHANGED <<agent, start, payment, submitted, everLocked>>

InputPrompt(i) ==
  /\ i \in Inputs /\ At(i, "prompt")
  /\ Goto(i, "answer") \/ Return(i)
  /\ UNCHANGED <<agent, start, payment, job, submitted, everLocked, faults>>

InputAnswer(i) ==
  /\ i \in Inputs /\ At(i, "answer")
  /\ \/ /\ OK /\ job # None
        /\ job' = [job EXCEPT !.status = "AWAITING_INPUT", !.conversation = Transcript(i)]
        /\ call' = [call EXCEPT ![i].pc = "answered",
                                ![i].alone = \A c \in Callers \ {i} : ~InFlight(c)]
     \/ (Fault \/ (OK /\ job = None)) /\ Return(i) /\ UNCHANGED job
  /\ UNCHANGED <<agent, start, payment, submitted, everLocked>>

------------------------------------------------------------------------------
(* The purchaser pays what the reply names; a payment may end unserved.    *)
PurchaserPays ==
  /\ payment = "requested" /\ start = "replied"
  /\ payment' = "locked" /\ everLocked' = TRUE
  /\ UNCHANGED <<agent, start, job, call, submitted, faults>>

PaymentCloses ==
  /\ payment \in {"requested", "locked", "submitted"}
  /\ payment' = "closed"
  /\ UNCHANGED <<agent, start, job, call, submitted, everLocked, faults>>

(* The agent loses its connection, or is deleted, and its jobs with it.    *)
AgentUnusable ==
  /\ agent = "ready"
  /\ agent' = "unusable"
  /\ UNCHANGED <<start, payment, job, call, submitted, everLocked, faults>>

AgentDeleted ==
  /\ agent # "deleted"
  /\ agent' = "deleted"
  /\ job' = None
  /\ UNCHANGED <<start, payment, call, submitted, everLocked, faults>>

(* A process dies between two steps.                                       *)
Dies(c) ==
  /\ InFlight(c) /\ Fault /\ Return(c)
  /\ UNCHANGED <<agent, start, payment, job, submitted, everLocked>>

------------------------------------------------------------------------------
ResumeStep(c) ==
  \/ ResumeAgent(c) \/ ResumePayment(c) \/ ResumeClaim(c) \/ ResumeRefresh(c)
  \/ ResumePrompt(c) \/ ResumeAnswer(c) \/ ResumeFail(c)
InputStep(i) ==
  \/ InputRead(i) \/ InputAgent(i) \/ InputSubmit(i) \/ InputComplete(i)
  \/ InputPrompt(i) \/ InputAnswer(i)

Next ==
  \/ StartPayment \/ StartCreate
  \/ \E c \in Polls : ResumeRead(c) \/ ResumeStep(c)
  \/ \E i \in Inputs : InputStep(i)
  \/ \E c \in Callers : Dies(c)
  \/ PurchaserPays \/ PaymentCloses \/ AgentUnusable \/ AgentDeleted

Spec == Init /\ [][Next]_vars

(* The purchaser polls again and again, and a call under way goes on.      *)
FairSpec ==
  /\ Spec
  /\ \A c \in Polls : SF_vars(ResumeRead(c)) /\ WF_vars(ResumeStep(c))

------------------------------------------------------------------------------
(* Properties.                                                             *)

PCs == {"idle", "agent", "payment", "claim", "refresh", "prompt", "answer", "fail",
        "submit", "complete", "refused", "completed", "answered"}

(* Types.                                                                  *)
TypeOK ==
  /\ agent \in {"ready", "unusable", "deleted"}
  /\ start \in {"idle", "create", "replied", "failed"}
  /\ payment \in {"free", "none", "requested", "locked", "submitted", "closed"}
  /\ job \in JobRecords \cup {None}
  /\ \A c \in Callers : /\ call[c].pc \in PCs /\ call[c].seen \in Statuses \cup {None}
                         /\ call[c].conversation \in Conversations
                         /\ call[c].finish \in BOOLEAN /\ call[c].alone \in BOOLEAN
  /\ submitted \subseteq Conversations
  /\ everLocked \in BOOLEAN /\ faults \in 0..MAX_FAULTS

(* Langdock is not asked for a paid job before its payment was locked,     *)
(* whoever polls and whatever was read before the claim.                   *)
NoWorkBeforePayment ==
  Paid /\ ~everLocked =>
    /\ \A c \in Callers : ~At(c, "prompt")
    /\ job # None => job.status \in {"AWAITING_PAYMENT", "FAILED"}

(* A paid job that is completed stores a result the payment node accepted, *)
(* whichever of the calls that wrote its row came last.                    *)
CompletedWasSubmitted ==
  job # None /\ job.status = "COMPLETED" /\ Paid => job.output \in submitted

(* Nobody pays for a job that was never stored.                            *)
PayersHaveJob == everLocked => job # None \/ agent = "deleted"

(* An input that was answered while no other call was under way stays in   *)
(* the conversation: no later poll starts the job again, no later input    *)
(* goes by an older conversation.                                          *)
AnswersKept ==
  \A i \in Inputs :
    At(i, "answered") /\ call[i].alone /\ job # None => Contains(job.conversation, i)

(* Crashed runs and claims are taken up by later polls: a job that can run *)
(* does not wait for ever.                                                 *)
Runnable ==
  job # None /\ (job.status = "RUNNING" \/ (job.status = "AWAITING_PAYMENT" /\ payment = "locked"))
JobsGetAnswered == Runnable ~> ~Runnable

------------------------------------------------------------------------------
(* What texts of the repository say and the code does not keep: TLC        *)
(* refutes these (see the README).                                         *)

(* "does not run Langdock when another request already claimed the job"    *)
OneRunAtATime ==
  Paid => \A c, d \in Polls : At(c, "prompt") /\ At(d, "prompt") => c = d

(* "continues HITL conversation until the purchaser finishes the job"      *)
CompletedIsFinal ==
  [][job # None /\ job.status = "COMPLETED" =>
       job' = None \/ job'.status = "COMPLETED"]_vars
==============================================================================
