------------------------------ MODULE KycStatus ------------------------------
(***************************************************************************)
(* The KYC status of one user: the verification row the user is linked to, *)
(* written by the user's own submission and by polls (kyc.action.ts) and   *)
(* by Sumsub's webhooks (webhooks/sumsub/route.ts). A KYB status of an     *)
(* organization is written by the same webhook and by nothing else.        *)
(*                                                                         *)
(* Sumsub is external: it reviews, lets a rejected user submit again,      *)
(* answers polls, and repeats a webhook until it is accepted or too old.   *)
(* Each process serves one request after another; the row a process        *)
(* creates is named after it, for it can create only one.                  *)
(***************************************************************************)
EXTENDS Integers, Sequences, SequencesExt

CONSTANTS Submits, Polls, Hooks,  \* the processes of each kind
          None,
          MaxAnswers, MaxSubmits, MaxFaults  \* bounds

KycAssumption ==
  /\ Submits \cap Polls = {} /\ (Submits \cup Polls) \cap Hooks = {}
  /\ None \notin Submits \cup Polls \cup Hooks
  /\ None \notin {"GREEN", "RED", "APPROVED", "REJECTED", "PENDING", "REVIEW"}
  /\ {MaxAnswers, MaxSubmits, MaxFaults} \subseteq Nat

VARIABLES answers,   \* Sumsub's reviews of the applicant, oldest first
          open,      \* whether a review is under way
          webhooks,  \* the reviews Sumsub still has to deliver
          link,      \* the verification row the user is linked to, or None
          status,    \* the status of each row, None for a row that is not there
          req,       \* what each process is doing, and what it has read
          submits, faults

vars == <<answers, open, webhooks, link, status, req, submits, faults>>
sumsub == <<answers, open, webhooks>>
rows == <<link, status>>

Processes == Submits \cup Polls \cup Hooks
Creators == Submits \cup Hooks
Final == {"APPROVED", "REJECTED"}
Statuses == Final \cup {"PENDING", "REVIEW"}
Idle == [pc |-> "idle", row |-> None, answer |-> None, hook |-> 0, settled |-> FALSE]

Init ==
  /\ answers = <<>> /\ open = TRUE /\ webhooks = {}
  /\ link = None /\ status = [p \in Creators |-> None]
  /\ req = [p \in Processes |-> Idle]
  /\ submits = 0 /\ faults = 0

At(p, pc) == req[p].pc = pc
End(p) == req' = [req EXCEPT ![p] = Idle]
Fault == faults < MaxFaults /\ faults' = faults + 1

Result == IF open THEN None ELSE Last(answers)

------------------------------------------------------------------------------
(* Sumsub.                                                                 *)
Review(a) ==
  /\ open /\ Len(answers) < MaxAnswers
  /\ answers' = Append(answers, a) /\ open' = FALSE
  /\ webhooks' = webhooks \cup {Len(answers) + 1}
  /\ UNCHANGED <<rows, req, submits, faults>>

SubmitAgain ==
  /\ Result = "RED"
  /\ open' = TRUE
  /\ UNCHANGED <<answers, webhooks, rows, req, submits, faults>>

(* A signature older than five minutes is refused.                         *)
HookExpires(n) ==
  /\ n \in webhooks /\ Fault
  /\ webhooks' = webhooks \ {n}
  /\ UNCHANGED <<answers, open, rows, req, submits>>

------------------------------------------------------------------------------
\* Mutant: a review without a result passes.
ParseUnlessRed(a) == IF a = "RED" THEN "REJECTED" ELSE "APPROVED"
ParseReviewResult(a) ==
  CASE a = "GREEN" -> "APPROVED" [] a = "RED" -> "REJECTED" [] OTHER -> "REVIEW"

\* Mutant: only an approval ends a review.
IsApproval(a) == a = "GREEN"
IsVerificationFinal(a) == a \in {"GREEN", "RED"}

(* Update the row that was found, or create one and link it to the user.   *)
Write(p, s) ==
  IF req[p].row = None
  THEN link' = p /\ status' = [status EXCEPT ![p] = s]
  ELSE link' = link /\ status' = [status EXCEPT ![req[p].row] = s]

------------------------------------------------------------------------------
(* markKycAsSubmittedAction.                                               *)
SubmitRead(p) ==
  /\ At(p, "idle") /\ submits < MaxSubmits
  /\ submits' = submits + 1
  /\ req' = [req EXCEPT ![p] = [Idle EXCEPT !.pc = "submit", !.row = link,
                                            !.settled = ~open]]
  /\ UNCHANGED <<sumsub, rows, faults>>

SubmitWrite(p) ==
  /\ At(p, "submit")
  /\ Write(p, "REVIEW")
  /\ req' = [req EXCEPT ![p].pc = "submitted"]
  /\ UNCHANGED <<sumsub, submits, faults>>

SubmitReply(p) ==
  At(p, "submitted") /\ End(p) /\ UNCHANGED <<sumsub, rows, submits, faults>>

------------------------------------------------------------------------------
(* getKycStatusAction, for a user whose status is not final.               *)
Asks == link # None /\ status[link] \in {"PENDING", "REVIEW"}

PollRead(p) ==
  /\ At(p, "idle") /\ Asks
  /\ req' = [req EXCEPT ![p] = [Idle EXCEPT !.pc = "ask", !.row = link]]
  /\ UNCHANGED <<sumsub, rows, submits, faults>>

PollAsk(p) ==
  /\ At(p, "ask")
  /\ IF IsVerificationFinal(Result)
     THEN req' = [req EXCEPT ![p].pc = "answer", ![p].answer = Result]
     ELSE End(p)
  /\ UNCHANGED <<sumsub, rows, submits, faults>>

PollWrite(p) ==
  /\ At(p, "answer")
  /\ Write(p, ParseReviewResult(req[p].answer))
  /\ End(p)
  /\ UNCHANGED <<sumsub, submits, faults>>

------------------------------------------------------------------------------
(* The webhook of review n. A payload may lack the result; a reply may be  *)
(* lost after the write, and the webhook comes again.                      *)
HookRead(p, n, a) ==
  /\ At(p, "idle") /\ n \in webhooks
  /\ a \in {answers[n], None}
  /\ req' = [req EXCEPT ![p] = [Idle EXCEPT !.pc = "hook", !.row = link,
                                            !.answer = a, !.hook = n]]
  /\ UNCHANGED <<sumsub, rows, submits, faults>>

HookWrite(p) ==
  /\ At(p, "hook")
  /\ Write(p, ParseReviewResult(req[p].answer))
  /\ End(p)
  /\ \/ webhooks' = webhooks \ {req[p].hook} /\ UNCHANGED faults
     \/ Fault /\ UNCHANGED webhooks
  /\ UNCHANGED <<answers, open, submits>>

(* A request ends with an error, or its process dies.                      *)
Dies(p) ==
  /\ ~At(p, "idle") /\ Fault /\ End(p)
  /\ UNCHANGED <<sumsub, rows, submits>>

------------------------------------------------------------------------------
Submit(p) == SubmitRead(p) \/ SubmitWrite(p) \/ SubmitReply(p)
Poll(p) == PollRead(p) \/ PollAsk(p) \/ PollWrite(p)
HookStarts(p) == \E n \in webhooks, a \in {"GREEN", "RED", None} : HookRead(p, n, a)

Next ==
  \/ \E a \in {"GREEN", "RED"} : Review(a)
  \/ SubmitAgain
  \/ \E n \in webhooks : HookExpires(n)
  \/ \E p \in Submits : Submit(p)
  \/ \E p \in Polls : Poll(p)
  \/ \E p \in Hooks : HookStarts(p) \/ HookWrite(p)
  \/ \E p \in Processes : Dies(p)

Spec == Init /\ [][Next]_vars

(* The account and verification pages ask when they open, the latter polls *)
(* for a while if it shows REVIEW; the user keeps coming back. Requests    *)
(* under way go on, and Sumsub repeats its webhooks. A user need not       *)
(* submit.                                                                 *)
Fairness ==
  /\ \A p \in Polls : WF_vars(Poll(p))
  /\ \A p \in Submits : WF_vars(SubmitWrite(p)) /\ WF_vars(SubmitReply(p))
  /\ \A p \in Hooks : WF_vars(HookStarts(p) \/ HookWrite(p))

FairSpec == Spec /\ Fairness

------------------------------------------------------------------------------
(* Properties.                                                             *)

(* Types; a process that writes to a row writes to one that is there, and  *)
(* the user is linked to one that is there.                                *)
TypeOK ==
  /\ answers \in Seq({"GREEN", "RED"}) /\ Len(answers) <= MaxAnswers
  /\ open \in BOOLEAN /\ (answers = <<>> => open)
  /\ webhooks \subseteq 1 .. Len(answers)
  /\ link \in Creators \cup {None}
  /\ status \in [Creators -> Statuses \cup {None}]
  /\ link # None => status[link] # None
  /\ \A p \in Processes : req[p].row # None => status[req[p].row] # None
  /\ \A p \in Polls : ~At(p, "idle") => req[p].row # None
  /\ submits \in 0 .. MaxSubmits /\ faults \in 0 .. MaxFaults

(* Whatever order submissions, polls and webhooks are applied in, a user   *)
(* is never approved, or rejected, before Sumsub has said so.              *)
StatusFromSumsub ==
  \A p \in Creators :
    /\ status[p] = "APPROVED" => "GREEN" \in Range(answers)
    /\ status[p] = "REJECTED" => "RED" \in Range(answers)

(* What the rows say.                                                      *)
KycInvariant == TypeOK /\ StatusFromSumsub

(* REVIEW written over a final status, by a late submission or a webhook   *)
(* without a result, does not last: once Sumsub has answered, the polls    *)
(* find the answer, even if every webhook is lost.                         *)
Settled == link # None /\ status[link] \in Final
AnswerIsFound == (link # None /\ ~open) ~> (open \/ Settled)

------------------------------------------------------------------------------
(* What texts of the repository say and the code does not keep: TLC        *)
(* refutes these (see the README).                                         *)

(* "KycVerification holds the overall/current status": with nothing under  *)
(* way and nothing to deliver, a final status is Sumsub's current one.     *)
Quiet == webhooks = {} /\ \A p \in Processes : At(p, "idle")
StatusIsCurrent ==
  Quiet /\ ~open /\ Settled => status[link] = ParseReviewResult(Last(answers))

(* "check status immediately": a submission that Sumsub had answered when  *)
(* it began returns with the answer.                                       *)
SubmissionChecksStatus ==
  \A p \in Submits : At(p, "submitted") /\ req[p].settled => open \/ Settled
==============================================================================
