-------------------------- MODULE AgentVerification --------------------------
(***************************************************************************)
(* The verification of one registered agent by a Veridian credential:      *)
(* credentials are issued (credentials/issue), their acceptance by the     *)
(* holder is noticed by polls of one row (credentials/status) and of all   *)
(* pending rows (credentials/reconcile), and the agent becomes VERIFIED,   *)
(* by those or by agents/[agentId]/verify.                                 *)
(*                                                                         *)
(* Issue request i offers credential i and creates row i. The credential   *)
(* server, the holder's wallet and the agent's own endpoint are external;  *)
(* so are the writers of the KYC status and of the registration.           *)
(***************************************************************************)
EXTENDS Integers, Sequences, SequencesExt

CONSTANTS Issues, Checks, Reconciles, Verifies,  \* requests of each kind
          Foreign,  \* credentials the holder's AID has for other agents
          None,
          MaxSecrets, MaxChanges, MaxFaults      \* bounds

ASSUME VerificationAssumption ==
  /\ None \notin Issues \cup Foreign /\ Issues \cap Foreign = {}
  /\ Issues \cap (Checks \cup Reconciles \cup Verifies) = {}
  /\ Checks \cap Reconciles = {} /\ (Checks \cup Reconciles) \cap Verifies = {}
  /\ None \notin {"PENDING", "ISSUED"}
  /\ {MaxSecrets, MaxChanges, MaxFaults} \subseteq Nat

VARIABLES kyc,       \* whether the owner's KYC status is APPROVED
          agent,     \* the agent's row
          deployed,  \* the secret in the agent's environment, 0 for none
          rows,      \* the credential row of each issue request
          offered,   \* the credentials issued for the agent, oldest first
          accepted,  \* those the holder has accepted
          announced, \* AgentVerified events, counted to EventCap
          req,       \* what each request is doing, and what it has read
          changes, faults

vars == <<kyc, agent, deployed, rows, offered, accepted, announced, req, changes, faults>>
veridian == <<offered, accepted>>
budget == <<changes, faults>>

Requests == Issues \cup Checks \cup Reconciles \cup Verifies
Credentials == Issues \cup Foreign
EventCap == 2
NoRow == [status |-> None, cred |-> None]
Idle == [pc |-> "idle", row |-> None, todo |-> {}, owned |-> FALSE, mine |-> FALSE,
         secret |-> 0, cred |-> None, prior |-> FALSE]

Init ==
  /\ kyc = TRUE
  /\ agent = [exists |-> TRUE, confirmed |-> TRUE, verified |-> FALSE,
              cred |-> None, secret |-> 0]
  /\ deployed = 0
  /\ rows = [i \in Issues |-> NoRow]
  /\ offered = <<>> /\ accepted = {} /\ announced = 0
  /\ req = [r \in Requests |-> Idle]
  /\ changes = 0 /\ faults = 0

At(r, pc) == req[r].pc = pc
Goto(r, pc) == req' = [req EXCEPT ![r].pc = pc]
(* An issue request is one of a kind; the others serve again and again.    *)
End(r) == req' = [req EXCEPT ![r] = [Idle EXCEPT !.pc = IF r \in Issues THEN "done" ELSE "idle"]]
Fault == faults < MaxFaults /\ faults' = faults + 1
Pending == {i \in Issues : rows[i].status = "PENDING"}
Issued == {i \in Issues : rows[i].status = "ISSUED"}

------------------------------------------------------------------------------
(* The world outside.                                                      *)
Change == changes < MaxChanges /\ changes' = changes + 1

KycChanges ==
  /\ Change /\ kyc' = ~kyc
  /\ UNCHANGED <<agent, deployed, rows, veridian, announced, req, faults>>

AgentDeregistered ==
  /\ Change /\ agent.exists /\ agent' = [agent EXCEPT !.confirmed = FALSE]
  /\ UNCHANGED <<kyc, deployed, rows, veridian, announced, req, faults>>

(* The rows of credentials stay, without their agent.                      *)
AgentDeleted ==
  /\ Change /\ agent.exists /\ agent' = [agent EXCEPT !.exists = FALSE]
  /\ UNCHANGED <<kyc, deployed, rows, veridian, announced, req, faults>>

SecretDeployed ==
  /\ deployed # agent.secret /\ deployed' = agent.secret
  /\ UNCHANGED <<kyc, agent, rows, veridian, announced, req, budget>>

HolderAccepts(c) ==
  /\ c \in Range(offered) \ accepted
  /\ accepted' = accepted \cup {c}
  /\ UNCHANGED <<kyc, agent, deployed, rows, offered, announced, req, budget>>

(* agents/[agentId]/verification-challenge, which the owner's dialog calls *)
(* one request at a time: a new challenge and a new secret.                *)
RefreshChallenge ==
  /\ agent.exists /\ agent.confirmed /\ agent.secret < MaxSecrets
  /\ agent' = [agent EXCEPT !.secret = @ + 1]
  /\ UNCHANGED <<kyc, deployed, rows, veridian, announced, req, budget>>

------------------------------------------------------------------------------
(* credentials/issue.                                                      *)
IssueKyc(r) ==
  /\ At(r, "idle") /\ kyc /\ Goto(r, "agent")
  /\ UNCHANGED <<kyc, agent, deployed, rows, veridian, announced, budget>>

IssueAgent(r) ==
  /\ At(r, "agent")
  /\ IF agent.exists /\ agent.confirmed /\ agent.secret # 0
     THEN req' = [req EXCEPT ![r].pc = "fetch", ![r].secret = agent.secret]
     ELSE End(r)
  /\ UNCHANGED <<kyc, agent, deployed, rows, veridian, announced, budget>>

\* Mutant: the answer of the agent's endpoint is not compared.
FetchUnchecked(r) ==
  /\ At(r, "fetch") /\ Goto(r, "offer")
  /\ UNCHANGED <<kyc, agent, deployed, rows, veridian, announced, budget>>

IssueFetch(r) ==
  /\ At(r, "fetch")
  /\ IF deployed = req[r].secret THEN Goto(r, "offer") ELSE End(r)
  /\ UNCHANGED <<kyc, agent, deployed, rows, veridian, announced, budget>>

(* Known to the server although its reply may be lost (Dies).              *)
IssueOffer(r) ==
  /\ At(r, "offer")
  /\ offered' = Append(offered, r) /\ Goto(r, "row")
  /\ UNCHANGED <<kyc, agent, deployed, rows, accepted, announced, budget>>

(* A row for an agent deleted since violates its foreign key.              *)
IssueRow(r) ==
  /\ At(r, "row")
  /\ rows' = IF agent.exists
             THEN [rows EXCEPT ![r].status = "PENDING"] ELSE rows
  /\ End(r)
  /\ UNCHANGED <<kyc, agent, deployed, veridian, announced, budget>>

------------------------------------------------------------------------------
(* What the credential server lists for the AID, narrowed to the agent if  *)
(* its identifier is known; the latest one of those.                       *)
\* Mutant: any credential of the schema will do.
OfSchema(r) == accepted \cup Foreign
Matching(r) == IF req[r].mine THEN accepted ELSE accepted \cup Foreign
Latest(S) ==
  LET mine == {i \in DOMAIN offered : offered[i] \in S}
  IN  IF mine # {} THEN offered[Max(mine)] ELSE CHOOSE c \in S : TRUE

Found(r, next) ==
  req' = [req EXCEPT ![r].pc = next, ![r].cred = Latest(Matching(r))]

(* credentials/status: row, agent, credentials; a row that is not PENDING  *)
(* is answered at once, and so is one that is not there.                   *)
CheckRead(r, i) ==
  /\ At(r, "idle") /\ i \in Pending
  /\ req' = [req EXCEPT ![r].pc = "ident", ![r].row = i, ![r].owned = agent.exists]
  /\ UNCHANGED <<kyc, agent, deployed, rows, veridian, announced, budget>>

CheckIdent(r) ==
  /\ At(r, "ident")
  /\ req' = [req EXCEPT ![r].pc = "list", ![r].mine = req[r].owned /\ agent.exists]
  /\ UNCHANGED <<kyc, agent, deployed, rows, veridian, announced, budget>>

CheckList(r) ==
  /\ At(r, "list")
  /\ IF Matching(r) = {} THEN End(r) ELSE Found(r, "row")
  /\ UNCHANGED <<kyc, agent, deployed, rows, veridian, announced, budget>>

\* Mutant: the credential is recorded, the status left as it was.
ResolvedLater(c) == [status |-> "PENDING", cred |-> c]
Resolved(c) == [status |-> "ISSUED", cred |-> c]

CheckRow(r) ==
  /\ At(r, "row")
  /\ rows' = [rows EXCEPT ![req[r].row] = Resolved(req[r].cred)]
  /\ IF req[r].owned THEN Goto(r, "prior") ELSE End(r)
  /\ UNCHANGED <<kyc, agent, deployed, veridian, announced, budget>>

CheckPrior(r) ==
  /\ At(r, "prior")
  /\ req' = [req EXCEPT ![r].pc = "agent", ![r].prior = agent.exists /\ agent.verified]
  /\ UNCHANGED <<kyc, agent, deployed, rows, veridian, announced, budget>>

(* An update of an agent that is gone throws.                              *)
Verify(r) == agent' = [agent EXCEPT !.verified = TRUE, !.cred = req[r].cred]

\* Mutant: the status is read again after the update.
AnnouncesIfStillUnverified(r) == FALSE
Announces(r) == ~req[r].prior

CheckAgent(r) ==
  /\ At(r, "agent")
  /\ IF agent.exists
     THEN Verify(r) /\ IF Announces(r) THEN Goto(r, "event") ELSE End(r)
     ELSE End(r) /\ UNCHANGED agent
  /\ UNCHANGED <<kyc, deployed, rows, veridian, announced, budget>>

(* recordAgentActivityEvent, which needs the agent's row.                  *)
RecordEvent(r) ==
  /\ At(r, "event")
  /\ announced' = IF agent.exists /\ announced < EventCap THEN announced + 1 ELSE announced
  /\ End(r)
  /\ UNCHANGED <<kyc, agent, deployed, rows, veridian, budget>>

------------------------------------------------------------------------------
(* credentials/reconcile.                                                  *)
Todo == Pending

ReconcileRead(r) ==
  /\ At(r, "idle") /\ agent.exists /\ Todo # {}
  /\ req' = [req EXCEPT ![r].pc = "list", ![r].todo = Todo, ![r].mine = TRUE]
  /\ UNCHANGED <<kyc, agent, deployed, rows, veridian, announced, budget>>

SkipRow(r, i) == [req EXCEPT ![r].pc = "list", ![r].todo = @ \ {i}]

(* The next pending row; no match leaves it and goes on.                   *)
ReconcileList(r) ==
  /\ At(r, "list")
  /\ \/ req[r].todo = {} /\ End(r)
     \/ \E i \in req[r].todo :
          req' = IF Matching(r) = {} THEN SkipRow(r, i)
                 ELSE [SkipRow(r, i) EXCEPT ![r].pc = "row", ![r].row = i,
                                          ![r].cred = Latest(Matching(r))]
  /\ UNCHANGED <<kyc, agent, deployed, rows, veridian, announced, budget>>

ReconcileRow(r) ==
  /\ At(r, "row")
  /\ rows' = [rows EXCEPT ![req[r].row] = Resolved(req[r].cred)]
  /\ Goto(r, "agent")
  /\ UNCHANGED <<kyc, agent, deployed, veridian, announced, budget>>

(* An error is caught, and the next row tried.                             *)
ReconcileAgent(r) ==
  /\ At(r, "agent")
  /\ IF agent.exists THEN Verify(r) /\ Goto(r, "event")
                     ELSE Goto(r, "list") /\ UNCHANGED agent
  /\ UNCHANGED <<kyc, deployed, rows, veridian, announced, budget>>

(* One statement for a row fails, and the loop goes on.                    *)
ReconcileFails(r) ==
  /\ Fault
  /\ \/ req[r].pc \in {"row", "agent"} /\ Goto(r, "list")
     \/ At(r, "list") /\ \E i \in req[r].todo : req' = SkipRow(r, i)
  /\ UNCHANGED <<kyc, agent, deployed, rows, veridian, announced, changes>>

------------------------------------------------------------------------------
(* agents/[agentId]/verify: KYC, an ISSUED row, then any credential of the *)
(* schema that the SDK picks among those of the AID.                       *)
\* Mutant: any row will do, also one that is PENDING.
HasRow == Pending \cup Issued # {}
HasCredential == Issued # {}

VerifyRead(r) ==
  /\ At(r, "idle") /\ agent.exists /\ kyc /\ HasCredential
  /\ Goto(r, "list")
  /\ UNCHANGED <<kyc, agent, deployed, rows, veridian, announced, budget>>

VerifyList(r) ==
  /\ At(r, "list")
  /\ IF accepted \cup Foreign = {} THEN End(r)
     ELSE \E c \in accepted \cup Foreign :
            req' = [req EXCEPT ![r].pc = "agent", ![r].cred = c]
  /\ UNCHANGED <<kyc, agent, deployed, rows, veridian, announced, budget>>

VerifyAgent(r) ==
  /\ At(r, "agent")
  /\ IF agent.exists THEN Verify(r) /\ Goto(r, "event")
                     ELSE End(r) /\ UNCHANGED agent
  /\ UNCHANGED <<kyc, deployed, rows, veridian, announced, budget>>

(* A request ends with an error, or its process dies.                      *)
Dies(r) ==
  /\ req[r].pc \notin {"idle", "done"} /\ Fault /\ End(r)
  /\ UNCHANGED <<kyc, agent, deployed, rows, veridian, announced, changes>>

------------------------------------------------------------------------------
Issue(r) ==
  IssueKyc(r) \/ IssueAgent(r) \/ IssueFetch(r) \/ IssueOffer(r) \/ IssueRow(r)
CheckStarts(r) == \E i \in Issues : CheckRead(r, i)
CheckGoesOn(r) ==
  \/ CheckIdent(r) \/ CheckList(r) \/ CheckRow(r) \/ CheckPrior(r) \/ CheckAgent(r)
  \/ RecordEvent(r)
ReconcileGoesOn(r) ==
  ReconcileList(r) \/ ReconcileRow(r) \/ ReconcileAgent(r) \/ RecordEvent(r)
(* The page of an agent that is not VERIFIED calls it.                     *)
PageOpens(r) == ~agent.verified /\ ReconcileRead(r)
VerifyGoesOn(r) == VerifyList(r) \/ VerifyAgent(r) \/ RecordEvent(r)
World ==
  \/ KycChanges \/ AgentDeregistered \/ AgentDeleted \/ SecretDeployed \/ RefreshChallenge
  \/ \E c \in Issues : HolderAccepts(c)

Next ==
  \/ World
  \/ \E r \in Issues : Issue(r)
  \/ \E r \in Checks : CheckStarts(r) \/ CheckGoesOn(r)
  \/ \E r \in Reconciles : ReconcileRead(r) \/ ReconcileGoesOn(r) \/ ReconcileFails(r)
  \/ \E r \in Verifies : VerifyRead(r) \/ VerifyGoesOn(r)
  \/ \E r \in Requests : Dies(r)

Spec == Init /\ [][Next]_vars

(* The agent's page is opened again, and requests under way go on.         *)
Fairness ==
  /\ \A r \in Reconciles : WF_vars(PageOpens(r) \/ ReconcileGoesOn(r))
  /\ \A r \in Checks : WF_vars(CheckGoesOn(r))
  /\ \A r \in Verifies : WF_vars(VerifyGoesOn(r))

FairSpec == Spec /\ Fairness

------------------------------------------------------------------------------
(* Properties.                                                             *)

PCs == {"idle", "agent", "fetch", "offer", "row", "ident", "list", "prior", "event", "done"}
(* Types; a request that updates a row read one that is there.             *)
TypeOK ==
  /\ {kyc, agent.exists, agent.confirmed, agent.verified} \subseteq BOOLEAN
  /\ agent.cred \in Credentials \cup {None}
  /\ {agent.secret, deployed} \subseteq 0 .. MaxSecrets
  /\ \A i \in Issues : rows[i].status \in {None, "PENDING", "ISSUED"}
  /\ IsInjective(offered) /\ accepted \subseteq Range(offered)
  /\ announced \in 0 .. EventCap
  /\ \A r \in Requests : req[r].pc \in PCs /\ req[r].todo \subseteq Pending \cup Issued
  /\ \A r \in Checks \cup Reconciles :
       At(r, "row") => req[r].row \in Pending \cup Issued /\ req[r].cred # None

(* An agent is VERIFIED only with a credential that was asked for through  *)
(* this service and accepted by its holder.                                *)
VerifiedHasCredential == agent.exists /\ agent.verified => Issued # {}

(* A row is resolved by a credential accepted by the holder and issued for *)
(* this agent, never by one of another agent of the same AID, as long as   *)
(* the agent is there to be verified by it.                                *)
ResolvedByOwnCredential ==
  agent.exists => \A i \in Issued : rows[i].cred \in accepted

(* Unless a fault intervened, an agent that became VERIFIED is announced,  *)
(* or about to be, however status polls, reconciliations and verifications *)
(* interleave: not each of them may leave it to another.                   *)
VerifiedIsAnnounced ==
  faults = 0 /\ agent.exists /\ agent.verified =>
    announced > 0 \/ \E r \in Requests : At(r, "event")

(* However challenges are refreshed while issue requests use the one they  *)
(* have read: a credential is offered only on a secret that this service   *)
(* made for the agent and its endpoint has served (since then both may     *)
(* have a later one), and no agent is VERIFIED whose endpoint never did.   *)
EndpointProven ==
  /\ \A r \in Issues : req[r].pc \in {"offer", "row"} => req[r].secret \in 1 .. deployed
  /\ agent.verified => deployed # 0

(* What an agent is verified by, and who learns of it.                     *)
CredentialInvariant ==
  /\ TypeOK /\ VerifiedHasCredential /\ ResolvedByOwnCredential
  /\ VerifiedIsAnnounced /\ EndpointProven

(* Statement by statement and between each other's calls, the requests do  *)
(* what the verification of an agent promises: no step is taken before the *)
(* one it rests on, and none is undone.                                    *)
Promise ==
  INSTANCE VerifiedAgent
    WITH Credentials <- Issues, there <- agent.exists, proven <- deployed # 0,
         offered <- Range(offered), resolved <- Issued, verified <- agent.verified,
         announced <- announced > 0
KeepsPromise == Promise!Spec

(* "Handles the case where the user accepted the credential in Veridian    *)
(* after the dialog was closed": the page's reconciliations resolve a row. *)
AcceptedResolves ==
  (Pending # {} /\ accepted # {}) ~> (Issued # {} \/ ~agent.exists)

------------------------------------------------------------------------------
(* What texts of the repository say and the code does not keep: TLC        *)
(* refutes these (see the README).                                         *)

(* "One resolved is enough to flip the agent to VERIFIED".                 *)
ResolvedVerifies == (Issued # {}) ~> (agent.verified \/ ~agent.exists)

(* "issue a new challenge and invalidate the previous": a credential is    *)
(* issued on an answer to the challenge in force.                          *)
IssuedOnCurrentChallenge ==
  [][\A r \in Issues : offered' = Append(offered, r) => req[r].secret = agent.secret]_vars
==============================================================================
