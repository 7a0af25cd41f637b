------------------------- MODULE Verifications_proofs -------------------------
(***************************************************************************)
(* Proofs about Verifications, for any number of requests of each kind.    *)
(*                                                                         *)
(* The invariant of an agent's verification says what each request knows   *)
(* where it is (ReqOK). It is kept by the steps of the others since no     *)
(* step undoes what another one may have read (Monotone): a row that is    *)
(* resolved stays so, an agent that is VERIFIED stays so, a deleted one    *)
(* stays deleted, an accepted credential stays accepted. What the endpoint *)
(* has proved (Proven) and the order of offer, row, update and event       *)
(* (Ordered) are kept beside it, and give the refinement of VerifiedAgent. *)
(***************************************************************************)
EXTENDS Verifications, WellFoundedInduction, TLAPS

(* A bounded set of naturals has a greatest member.                        *)
LEMMA MaxExists ==
  ASSUME NEW S \in SUBSET Nat, NEW n \in Nat, S # {}, \A x \in S : x <= n
  PROVE  Max(S) \in S
<1> DEFINE T == {n - x : x \in S}
<1>1. T \subseteq Nat /\ T # {}
  <2>1. \A x \in S : n - x \in Nat
    OBVIOUS
  <2> QED
    BY <2>1
<1>2. PICK t \in T : \A y \in T : ~(<<y, t>> \in OpToRel(<, Nat))
  BY <1>1, WFMin, NatLessThanWellFounded
<1>3. \A y \in T : ~(y < t)
  BY <1>1, <1>2 DEF OpToRel
<1>4. PICK x \in S : t = n - x
  BY <1>2
<1>5. \A y \in S : x >= y
  BY <1>3, <1>4
<1> QED
  BY <1>5 DEF Max

------------------------------------------------------------------------------
(* The verification of an agent: types.                                    *)
ReqRecords == [pc : PCs, row : Issues \cup {None}, todo : SUBSET Issues, owned : BOOLEAN,
               mine : BOOLEAN, secret : 0 .. MaxSecrets, cred : Credentials \cup {None},
               prior : BOOLEAN]
AgentRecords == [exists : BOOLEAN, confirmed : BOOLEAN, verified : BOOLEAN,
                 cred : Credentials \cup {None}, secret : 0 .. MaxSecrets]
RowRecords == [status : {None, "PENDING", "ISSUED"}, cred : Credentials \cup {None}]

Types ==
  /\ kyc \in BOOLEAN /\ agent \in AgentRecords /\ deployed \in 0 .. MaxSecrets
  /\ rows \in [Issues -> RowRecords] /\ offered \in Seq(Issues)
  /\ announced \in 0 .. EventCap /\ faults \in Nat
  /\ req \in [Requests -> ReqRecords]

(* What each kind of request does, and what it knows where it is.          *)
IssueOK(r) ==
  /\ req[r].pc \in {"idle", "agent", "fetch", "offer", "row", "done"}
  /\ req[r].pc \in {"idle", "agent", "fetch", "offer"} => r \notin Range(offered)
  /\ req[r].pc # "done" => rows[r].status = None
  /\ req[r].todo = {}

(* A row is there before it is resolved; what resolves it is accepted, as  *)
(* long as the agent was there to narrow the search to its credentials.    *)
RowOK(r) ==
  req[r].pc = "row" => /\ req[r].row \in Pending \cup Issued /\ req[r].cred \in Credentials
                       /\ agent.exists => req[r].cred \in accepted

CheckOK(r) ==
  /\ req[r].pc \in {"idle", "ident", "list", "row", "prior", "agent", "event"}
  /\ req[r].pc \in {"ident", "list"} => req[r].row \in Pending \cup Issued
  /\ req[r].pc = "ident" /\ agent.exists => req[r].owned
  /\ req[r].pc \in {"list", "row"} /\ agent.exists => req[r].mine
  /\ req[r].pc \in {"prior", "agent", "event"} => Issued # {}
  /\ req[r].pc = "agent" /\ req[r].prior => agent.verified

ReconcileOK(r) ==
  /\ req[r].pc \in {"idle", "list", "row", "agent", "event"}
  /\ req[r].pc # "idle" => req[r].mine
  /\ req[r].pc \in {"agent", "event"} => Issued # {}

VerifyOK(r) ==
  /\ req[r].pc \in {"idle", "list", "agent", "event"}
  /\ req[r].pc # "idle" => Issued # {}

ReqOK(r) ==
  /\ r \in Issues => IssueOK(r)
  /\ r \in Checks => CheckOK(r)
  /\ r \in Reconciles => ReconcileOK(r)
  /\ r \in Verifies => VerifyOK(r)
  /\ r \in Checks \cup Reconciles => RowOK(r)
  /\ req[r].todo \subseteq Pending \cup Issued

Offers == IsInjective(offered) /\ accepted \subseteq Range(offered)
Resolutions ==
  /\ agent.verified => Issued # {}
  /\ agent.exists => \A i \in Issued : rows[i].cred \in accepted

IInv == Types /\ Offers /\ Resolutions /\ \A r \in Requests : ReqOK(r)

(* What is never undone, but for what the requests of S themselves do.     *)
Monotone(S) ==
  /\ Issued \subseteq Issued' /\ Pending \cup Issued \subseteq Pending' \cup Issued'
  /\ agent'.exists => agent.exists
  /\ agent.verified => agent'.verified
  /\ accepted \subseteq accepted'
  /\ \A q \in Issues \ S : /\ rows[q].status = None => rows'[q].status = None
                           /\ q \notin Range(offered) => q \notin Range(offered')

------------------------------------------------------------------------------
(* Requests are of one kind.                                               *)
LEMMA Kinds ==
  /\ \A r \in Issues : r \notin Checks /\ r \notin Reconciles /\ r \notin Verifies
  /\ \A r \in Checks : r \notin Issues /\ r \notin Reconciles /\ r \notin Verifies
  /\ \A r \in Reconciles : r \notin Issues /\ r \notin Checks /\ r \notin Verifies
  /\ \A r \in Verifies : r \notin Issues /\ r \notin Checks /\ r \notin Reconciles
BY VerificationAssumption

(* What the others know stays true.                                        *)
LEMMA OthersOK ==
  ASSUME NEW S, NEW q \in Requests \ S, ReqOK(q), Monotone(S), req'[q] = req[q]
  PROVE  ReqOK(q)'
<1>1. q \in Issues => IssueOK(q)'
  BY DEF ReqOK, IssueOK, Monotone
<1>2. q \in Checks => CheckOK(q)'
  BY DEF ReqOK, CheckOK, Monotone
<1>3. q \in Reconciles => ReconcileOK(q)'
  BY DEF ReqOK, ReconcileOK, Monotone
<1>4. q \in Verifies => VerifyOK(q)'
  BY DEF ReqOK, VerifyOK, Monotone
<1>5. q \in Checks \cup Reconciles => RowOK(q)'
  BY DEF ReqOK, RowOK, Monotone
<1> QED
  BY <1>1, <1>2, <1>3, <1>4, <1>5 DEF ReqOK, Monotone

(* A step of request r.                                                    *)
LEMMA Moves ==
  ASSUME IInv, NEW r \in Requests, \A q \in Requests \ {r} : req'[q] = req[q],
         Types', Offers', Resolutions', Monotone({r}), ReqOK(r)'
  PROVE  IInv'
BY OthersOK DEF IInv

(* A step that changes nothing but request r.                              *)
LEMMA OnlyMoves ==
  ASSUME IInv, NEW r \in Requests, NEW x \in ReqRecords, req' = [req EXCEPT ![r] = x],
         UNCHANGED <<kyc, agent, deployed, rows, veridian, announced>>, faults' \in Nat,
         ReqOK(r)'
  PROVE  IInv' /\ req'[r] = x
<1>1. req' \in [Requests -> ReqRecords] /\ req'[r] = x
      /\ \A q \in Requests \ {r} : req'[q] = req[q]
  BY DEF IInv, Types
<1>2. Types'
  BY <1>1 DEF IInv, Types, veridian
<1>3. Offers' /\ Resolutions'
  BY DEF IInv, Offers, Resolutions, Issued, veridian
<1>4. Monotone({r})
  BY DEF Monotone, Issued, Pending, veridian
<1> QED
  BY <1>1, <1>2, <1>3, <1>4, Moves

(* The end of a request: an issue request is over, another one may be      *)
(* served again.                                                           *)
LEMMA Ends ==
  ASSUME Types, NEW r \in Requests, End(r)
  PROVE  /\ \A q \in Requests \ {r} : req'[q] = req[q]
         /\ req' \in [Requests -> ReqRecords]
         /\ req'[r].pc = (IF r \in Issues THEN "done" ELSE "idle")
         /\ req'[r].todo = {}
         /\ ReqOK(r)'
<1> DEFINE x == [Idle EXCEPT !.pc = IF r \in Issues THEN "done" ELSE "idle"]
<1>1. x \in ReqRecords /\ x.pc = (IF r \in Issues THEN "done" ELSE "idle") /\ x.todo = {}
  <2>1. MaxSecrets \in Nat
    BY VerificationAssumption
  <2>2. Idle \in ReqRecords /\ Idle.todo = {}
    BY <2>1 DEF Idle, ReqRecords, PCs
  <2> QED
    BY <2>2 DEF ReqRecords, PCs
<1>2. req' = [req EXCEPT ![r] = x]
  BY DEF End
<1> HIDE DEF x
<1>3. /\ req'[r] = x /\ req' \in [Requests -> ReqRecords]
      /\ \A q \in Requests \ {r} : req'[q] = req[q]
  BY <1>1, <1>2 DEF Types
<1>4. ReqOK(r)'
  BY <1>1, <1>3, Kinds DEF ReqOK, IssueOK, CheckOK, ReconcileOK, VerifyOK, RowOK
<1> QED
  BY <1>1, <1>3, <1>4

LEMMA OnlyEnds ==
  ASSUME IInv, NEW r \in Requests, End(r),
         UNCHANGED <<kyc, agent, deployed, rows, veridian, announced>>, faults' \in Nat
  PROVE  IInv'
<1>1. Types' /\ \A q \in Requests \ {r} : req'[q] = req[q]
  BY Ends DEF IInv, Types, veridian
<1>2. Offers' /\ Resolutions' /\ Monotone({r})
  BY DEF IInv, Offers, Resolutions, Monotone, Issued, Pending, veridian
<1> QED
  BY <1>1, <1>2, Ends, Moves DEF IInv

------------------------------------------------------------------------------
(* Steps outside, which no request makes.                                  *)
LEMMA WorldSteps ==
  ASSUME IInv, World
  PROVE  IInv'
<1>1. UNCHANGED <<rows, offered, announced, req, faults>>
  BY DEF World, KycChanges, AgentDeregistered, AgentDeleted, SecretDeployed, RefreshChallenge,
         HolderAccepts, veridian, budget
<1>2. /\ kyc' \in BOOLEAN /\ agent' \in AgentRecords /\ deployed' \in 0 .. MaxSecrets
      /\ agent'.exists => agent.exists
  <2>1. kyc \in BOOLEAN /\ agent \in AgentRecords /\ deployed \in 0 .. MaxSecrets
        /\ agent.secret \in 0 .. MaxSecrets
    BY DEF IInv, Types, AgentRecords
  <2>2. CASE KycChanges
    BY <2>1, <2>2 DEF KycChanges, AgentRecords
  <2>3. CASE AgentDeregistered \/ AgentDeleted
    BY <2>1, <2>3 DEF AgentDeregistered, AgentDeleted, AgentRecords
  <2>4. CASE SecretDeployed
    BY <2>1, <2>4 DEF SecretDeployed, AgentRecords
  <2>5. CASE RefreshChallenge
    <3>1. agent.secret + 1 \in 0 .. MaxSecrets
      BY <2>1, <2>5, VerificationAssumption DEF RefreshChallenge
    <3> QED
      BY <2>1, <2>5, <3>1 DEF RefreshChallenge, AgentRecords
  <2>6. CASE \E c \in Issues : HolderAccepts(c)
    BY <2>1, <2>6 DEF HolderAccepts, AgentRecords
  <2> QED
    BY <2>2, <2>3, <2>4, <2>5, <2>6 DEF World
<1>3. agent'.verified = agent.verified
  <2>1. agent \in AgentRecords
    BY DEF IInv, Types
  <2> QED
    BY <2>1 DEF World, KycChanges, AgentDeregistered, AgentDeleted, SecretDeployed,
       RefreshChallenge, HolderAccepts, AgentRecords
<1>4. accepted \subseteq accepted' /\ accepted' \subseteq Range(offered)
  BY DEF World, KycChanges, AgentDeregistered, AgentDeleted, SecretDeployed,
     RefreshChallenge, HolderAccepts, IInv, Offers, veridian
<1>5. Types'
  BY <1>1, <1>2 DEF IInv, Types
<1>6. Offers'
  BY <1>1, <1>4 DEF IInv, Offers
<1>7. Resolutions'
  BY <1>1, <1>2, <1>3, <1>4 DEF IInv, Resolutions, Issued
<1>8. ASSUME NEW r \in Requests
      PROVE  ReqOK(r)'
  <2>1. Monotone({})
    BY <1>1, <1>2, <1>3, <1>4 DEF Monotone, Issued, Pending
  <2> QED
    BY <1>1, <2>1, OthersOK DEF IInv
<1> QED
  BY <1>5, <1>6, <1>7, <1>8 DEF IInv

------------------------------------------------------------------------------
(* The requests of credentials/issue.                                      *)
LEMMA IssueSteps ==
  ASSUME IInv, NEW r \in Issues, Issue(r)
  PROVE  IInv'
<1>1. r \in Requests /\ IssueOK(r) /\ req[r] \in ReqRecords /\ faults \in Nat
      /\ r \notin Checks /\ r \notin Reconciles /\ r \notin Verifies
  BY Kinds DEF Requests, IInv, ReqOK, Types
<1>2. ASSUME NEW x \in ReqRecords, req' = [req EXCEPT ![r] = x],
             UNCHANGED <<kyc, agent, deployed, rows, veridian, announced, faults>>,
             x.pc \in {"agent", "fetch", "offer"}, x.todo = {},
             req[r].pc \in {"idle", "agent", "fetch"}
      PROVE  IInv'
  <2>1. req'[r] = x
    BY <1>1, <1>2 DEF IInv, Types
  <2>2. ReqOK(r)'
    BY <1>1, <1>2, <2>1 DEF ReqOK, IssueOK, veridian
  <2> QED
    BY <1>1, <1>2, <2>2, OnlyMoves
<1>3. CASE IssueKyc(r)
  <2> DEFINE x == [req[r] EXCEPT !.pc = "agent"]
  <2>1. x \in ReqRecords /\ x.pc = "agent" /\ x.todo = {} /\ req' = [req EXCEPT ![r] = x]
    BY <1>1, <1>3 DEF IssueKyc, Goto, ReqRecords, PCs, IssueOK
  <2> HIDE DEF x
  <2> QED
    BY <1>2, <1>3, <2>1 DEF IssueKyc, At, budget
<1>4. CASE IssueAgent(r)
  <2>1. CASE End(r)
    BY <1>1, <1>4, <2>1, OnlyEnds DEF IssueAgent, budget
  <2>2. CASE req' = [req EXCEPT ![r].pc = "fetch", ![r].secret = agent.secret]
    <3> DEFINE x == [req[r] EXCEPT !.pc = "fetch", !.secret = agent.secret]
    <3>1. agent.secret \in 0 .. MaxSecrets
      BY DEF IInv, Types, AgentRecords
    <3>2. x \in ReqRecords /\ x.pc = "fetch" /\ x.todo = {} /\ req' = [req EXCEPT ![r] = x]
      BY <1>1, <2>2, <3>1 DEF ReqRecords, PCs, IssueOK
    <3> HIDE DEF x
    <3> QED
      BY <1>2, <1>4, <3>2 DEF IssueAgent, At, budget
  <2> QED
    BY <1>4, <2>1, <2>2 DEF IssueAgent
<1>5. CASE IssueFetch(r)
  <2>1. CASE End(r)
    BY <1>1, <1>5, <2>1, OnlyEnds DEF IssueFetch, budget
  <2>2. CASE Goto(r, "offer")
    <3> DEFINE x == [req[r] EXCEPT !.pc = "offer"]
    <3>1. x \in ReqRecords /\ x.pc = "offer" /\ x.todo = {} /\ req' = [req EXCEPT ![r] = x]
      BY <1>1, <2>2 DEF Goto, ReqRecords, PCs, IssueOK
    <3> HIDE DEF x
    <3> QED
      BY <1>2, <1>5, <3>1 DEF IssueFetch, At, budget
  <2> QED
    BY <1>5, <2>1, <2>2 DEF IssueFetch
<1>6. CASE IssueOffer(r)
  <2> DEFINE x == [req[r] EXCEPT !.pc = "row"]
  <2>1. x \in ReqRecords /\ x.pc = "row" /\ x.todo = {} /\ req' = [req EXCEPT ![r] = x]
    BY <1>1, <1>6 DEF IssueOffer, Goto, ReqRecords, PCs, IssueOK
  <2> HIDE DEF x
  <2>2. /\ req' \in [Requests -> ReqRecords] /\ req'[r] = x
        /\ \A q \in Requests \ {r} : req'[q] = req[q]
    BY <1>1, <2>1 DEF IInv, Types
  <2>3. /\ UNCHANGED <<kyc, agent, deployed, rows, accepted, announced, faults>>
        /\ offered' = Append(offered, r) /\ req[r].pc = "offer" /\ offered \in Seq(Issues)
    BY <1>6 DEF IssueOffer, At, budget, IInv, Types
  <2>4. r \notin Range(offered) /\ rows[r].status = None
    BY <1>1, <2>3 DEF IssueOK
  <2>5. /\ offered' \in Seq(Issues) /\ DOMAIN offered' = 1 .. (Len(offered) + 1)
        /\ DOMAIN offered = 1 .. Len(offered) /\ offered'[Len(offered) + 1] = r
        /\ \A i \in 1 .. Len(offered) : offered'[i] = offered[i]
        /\ Len(offered) \in Nat
    BY <2>3
  <2>6. Range(offered') = Range(offered) \cup {r}
    BY <2>5 DEF Range
  <2>7. IsInjective(offered')
    <3> SUFFICES ASSUME NEW i \in DOMAIN offered', NEW j \in DOMAIN offered',
                        offered'[i] = offered'[j]
                 PROVE  i = j
      BY DEF IsInjective
    <3>1. \A k \in 1 .. Len(offered) : offered[k] # r
      BY <2>4, <2>5 DEF Range
    <3>2. CASE i \in 1 .. Len(offered) /\ j \in 1 .. Len(offered)
      BY <2>5, <3>2 DEF IInv, Offers, IsInjective
    <3>3. CASE ~(i \in 1 .. Len(offered) /\ j \in 1 .. Len(offered))
      BY <2>5, <3>1, <3>3
    <3> QED
      BY <3>2, <3>3
  <2>8. Types' /\ Offers' /\ Resolutions'
    BY <2>2, <2>3, <2>5, <2>6, <2>7 DEF IInv, Types, Offers, Resolutions, Issued
  <2>9. Monotone({r})
    BY <2>3, <2>6 DEF Monotone, Issued, Pending
  <2>10. ReqOK(r)'
    BY <1>1, <2>1, <2>2, <2>3, <2>4 DEF ReqOK, IssueOK
  <2> QED
    BY <1>1, <2>2, <2>8, <2>9, <2>10, Moves
<1>7. CASE IssueRow(r)
  <2>1. /\ End(r) /\ UNCHANGED <<kyc, agent, deployed, offered, accepted, announced, faults>>
        /\ rows \in [Issues -> RowRecords] /\ rows[r].status = None
        /\ rows' = rows \/ rows' = [rows EXCEPT ![r].status = "PENDING"]
    BY <1>1, <1>7 DEF IssueRow, At, budget, veridian, IInv, Types, IssueOK
  <2>2. /\ rows' \in [Issues -> RowRecords] /\ rows'[r].status \in {None, "PENDING"}
        /\ \A i \in Issues \ {r} : rows'[i] = rows[i]
    BY <2>1 DEF RowRecords
  <2>3. Issued' = Issued /\ Pending \subseteq Pending'
    BY <2>1, <2>2, VerificationAssumption DEF Issued, Pending
  <2>4. Types' /\ Offers'
    BY <1>1, <2>1, <2>2, Ends DEF IInv, Types, Offers
  <2>5. Resolutions'
    BY <2>1, <2>2, <2>3, VerificationAssumption DEF IInv, Resolutions, Issued
  <2>6. Monotone({r})
    BY <2>1, <2>2, <2>3 DEF Monotone
  <2> QED
    BY <1>1, <2>1, <2>4, <2>5, <2>6, Ends, Moves DEF IInv
<1> QED
  BY <1>3, <1>4, <1>5, <1>6, <1>7 DEF Issue

------------------------------------------------------------------------------
(* The latest of some credentials is one of them.                          *)
LEMMA LatestIsOne ==
  ASSUME offered \in Seq(Issues), NEW S, S # {}
  PROVE  Latest(S) \in S
<1> DEFINE mine == {i \in DOMAIN offered : offered[i] \in S}
<1>1. mine \in SUBSET Nat /\ Len(offered) \in Nat /\ \A i \in mine : i <= Len(offered)
  OBVIOUS
<1>2. mine # {} => Max(mine) \in mine
  <2> HIDE DEF mine
  <2> QED
    BY <1>1, MaxExists
<1>3. mine # {} => offered[Max(mine)] \in S
  BY <1>2
<1> QED
  BY <1>3 DEF Latest

(* What a search of the credential server finds.                           *)
LEMMA FoundOne ==
  ASSUME IInv, NEW r \in Requests, Matching(r) # {}
  PROVE  /\ Latest(Matching(r)) \in Credentials
         /\ req[r].mine => Latest(Matching(r)) \in accepted
<1>1. Latest(Matching(r)) \in Matching(r)
  BY LatestIsOne DEF IInv, Types
<1>2. accepted \subseteq Issues
  BY DEF IInv, Types, Offers, Range
<1> QED
  BY <1>1, <1>2 DEF Matching, Credentials

(* A credential row is resolved.                                           *)
LEMMA RowStep ==
  ASSUME IInv, NEW r \in Checks \cup Reconciles, req[r].pc = "row",
         rows' = [rows EXCEPT ![req[r].row] = Resolved(req[r].cred)],
         UNCHANGED <<agent, offered, accepted>>
  PROVE  /\ rows' \in [Issues -> RowRecords] /\ Issued' # {} /\ Offers' /\ Resolutions'
         /\ Monotone({r})
<1> DEFINE i == req[r].row
           c == req[r].cred
<1>1. /\ i \in Issues /\ i \in Pending \cup Issued /\ c \in Credentials
      /\ agent.exists => c \in accepted
      /\ rows \in [Issues -> RowRecords]
  BY DEF IInv, Types, ReqOK, RowOK, Pending, Issued, Requests
<1> HIDE DEF i, c
<1>2. rows' \in [Issues -> RowRecords]
  BY <1>1 DEF Resolved, RowRecords, i, c
<1>3. rows'[i].status = "ISSUED" /\ rows'[i].cred = c
      /\ \A j \in Issues \ {i} : rows'[j] = rows[j]
  BY <1>1 DEF Resolved, i, c
<1>4. /\ Issued' = Issued \cup {i}
      /\ Pending \cup Issued \subseteq Pending' \cup Issued'
  BY <1>1, <1>3 DEF Issued, Pending
<1>5. rows[i].status # None
  BY <1>1, VerificationAssumption DEF Pending, Issued
<1>6. Offers' /\ Resolutions'
  BY <1>1, <1>3, <1>4 DEF IInv, Offers, Resolutions, Issued
<1>7. Monotone({r})
  BY <1>3, <1>4, <1>5 DEF Monotone
<1> QED
  BY <1>2, <1>4, <1>6, <1>7

(* The agent becomes VERIFIED by what resolved a row.                      *)
LEMMA VerifyStep ==
  ASSUME IInv, NEW r \in Requests, Issued # {}, Verify(r), UNCHANGED <<rows, offered, accepted>>
  PROVE  agent' \in AgentRecords /\ agent'.verified /\ agent'.exists = agent.exists
         /\ Offers' /\ Resolutions' /\ Monotone({r})
<1>1. req[r].cred \in Credentials \cup {None} /\ agent \in AgentRecords
  BY DEF IInv, Types, ReqRecords
<1>2. agent' \in AgentRecords /\ agent'.verified /\ agent'.exists = agent.exists
  BY <1>1 DEF Verify, AgentRecords
<1>3. Offers' /\ Resolutions' /\ Monotone({r})
  BY <1>2 DEF IInv, Offers, Resolutions, Issued, Pending, Monotone
<1> QED
  BY <1>2, <1>3

(* Nothing but where request r is.                                         *)
LEMMA Gone ==
  ASSUME Types, NEW r \in Requests, NEW c \in PCs, Goto(r, c)
  PROVE  /\ \A q \in Requests \ {r} : req'[q] = req[q]
         /\ req' \in [Requests -> ReqRecords]
         /\ req'[r].pc = c /\ req'[r].todo = req[r].todo /\ req'[r].row = req[r].row
         /\ req'[r].mine = req[r].mine /\ req'[r].owned = req[r].owned
         /\ req'[r].cred = req[r].cred /\ req'[r].prior = req[r].prior
<1> DEFINE x == [req[r] EXCEPT !.pc = c]
<1>1. req[r] \in ReqRecords
  BY DEF Types
<1>2. /\ x \in ReqRecords /\ x.pc = c /\ x.todo = req[r].todo /\ x.row = req[r].row
      /\ x.mine = req[r].mine /\ x.owned = req[r].owned
      /\ x.cred = req[r].cred /\ x.prior = req[r].prior
  BY <1>1 DEF ReqRecords
<1>3. req' = [req EXCEPT ![r] = x]
  BY DEF Goto
<1> HIDE DEF x
<1> QED
  BY <1>2, <1>3 DEF Types

(* The event is recorded, or not, at the end of a request.                 *)
LEMMA RecordStep ==
  ASSUME IInv, NEW r \in Requests, RecordEvent(r)
  PROVE  IInv'
<1>1. UNCHANGED <<kyc, agent, deployed, rows, offered, accepted, faults>> /\ End(r)
  BY DEF RecordEvent, veridian, budget
<1>2. announced' \in 0 .. EventCap
  BY DEF RecordEvent, IInv, Types, EventCap
<1>3. Types' /\ Offers' /\ Resolutions' /\ Monotone({r})
  BY <1>1, <1>2, Ends DEF IInv, Types, Offers, Resolutions, Monotone, Issued, Pending
<1> QED
  BY <1>1, <1>3, Ends, Moves DEF IInv

LEMMA DiesStep ==
  ASSUME IInv, NEW r \in Requests, Dies(r)
  PROVE  IInv'
<1>1. faults' \in Nat
  BY DEF Dies, Fault, IInv, Types
<1> QED
  BY <1>1, OnlyEnds DEF Dies

------------------------------------------------------------------------------
(* The polls of one row.                                                   *)
LEMMA CheckSteps ==
  ASSUME IInv, NEW r \in Checks, CheckStarts(r) \/ CheckGoesOn(r)
  PROVE  IInv'
<1>1. /\ r \in Requests /\ CheckOK(r) /\ RowOK(r) /\ req[r] \in ReqRecords /\ faults \in Nat
      /\ req[r].todo \subseteq Pending \cup Issued
      /\ r \notin Issues /\ r \notin Reconciles /\ r \notin Verifies
  BY Kinds DEF Requests, IInv, ReqOK, Types
<1>2. agent.exists \in BOOLEAN /\ agent.verified \in BOOLEAN
  BY DEF IInv, Types, AgentRecords
<1>3. CASE CheckStarts(r)
  <2>1. PICK i \in Pending : CheckRead(r, i)
    BY <1>3 DEF CheckStarts, CheckRead
  <2> DEFINE x == [req[r] EXCEPT !.pc = "ident", !.row = i, !.owned = agent.exists]
  <2>2. i \in Issues
    BY DEF Pending
  <2>3. /\ x \in ReqRecords /\ x.pc = "ident" /\ x.row = i /\ x.owned = agent.exists
        /\ x.todo = req[r].todo
    BY <1>1, <1>2, <2>2 DEF ReqRecords, PCs
  <2>4. req' = [req EXCEPT ![r] = x]
        /\ UNCHANGED <<kyc, agent, deployed, rows, veridian, announced, faults>>
    BY <2>1 DEF CheckRead, budget
  <2> HIDE DEF x
  <2>5. req'[r] = x
    BY <1>1, <2>4 DEF IInv, Types
  <2>6. ReqOK(r)'
    BY <1>1, <2>3, <2>4, <2>5 DEF ReqOK, CheckOK, RowOK, Pending, Issued, veridian
  <2> QED
    BY <1>1, <2>3, <2>4, <2>6, OnlyMoves
<1>4. CASE CheckIdent(r)
  <2> DEFINE x == [req[r] EXCEPT !.pc = "list", !.mine = req[r].owned /\ agent.exists]
  <2>1. /\ x \in ReqRecords /\ x.pc = "list" /\ x.row = req[r].row
        /\ x.mine = (req[r].owned /\ agent.exists) /\ x.todo = req[r].todo
    BY <1>1, <1>2 DEF ReqRecords, PCs
  <2>2. req' = [req EXCEPT ![r] = x] /\ req[r].pc = "ident"
        /\ UNCHANGED <<kyc, agent, deployed, rows, veridian, announced, faults>>
    BY <1>4 DEF CheckIdent, At, budget
  <2> HIDE DEF x
  <2>3. req'[r] = x
    BY <1>1, <2>2 DEF IInv, Types
  <2>4. ReqOK(r)'
    BY <1>1, <2>1, <2>2, <2>3 DEF ReqOK, CheckOK, RowOK, Pending, Issued, veridian
  <2> QED
    BY <1>1, <2>1, <2>2, <2>4, OnlyMoves
<1>5. CASE CheckList(r)
  <2>1. req[r].pc = "list" /\ UNCHANGED <<kyc, agent, deployed, rows, veridian, announced, faults>>
    BY <1>5 DEF CheckList, At, budget
  <2>2. CASE End(r)
    BY <1>1, <2>1, <2>2, OnlyEnds
  <2>3. CASE Matching(r) # {} /\ Found(r, "row")
    <3> DEFINE c == Latest(Matching(r))
               x == [req[r] EXCEPT !.pc = "row", !.cred = c]
    <3>1. c \in Credentials /\ (req[r].mine => c \in accepted)
      BY <1>1, <2>3, FoundOne
    <3> HIDE DEF c
    <3>2. /\ x \in ReqRecords /\ x.pc = "row" /\ x.row = req[r].row /\ x.cred = c
          /\ x.mine = req[r].mine /\ x.todo = req[r].todo
      BY <1>1, <3>1 DEF ReqRecords, PCs
    <3>3. req' = [req EXCEPT ![r] = x]
      BY <2>3 DEF Found, c
    <3> HIDE DEF x
    <3>4. req'[r] = x
      BY <1>1, <3>3 DEF IInv, Types
    <3>5. ReqOK(r)'
      BY <1>1, <2>1, <3>1, <3>2, <3>4 DEF ReqOK, CheckOK, RowOK, Pending, Issued, veridian
    <3> QED
      BY <1>1, <2>1, <3>2, <3>3, <3>5, OnlyMoves
  <2> QED
    BY <1>5, <2>2, <2>3 DEF CheckList
<1>6. CASE CheckRow(r)
  <2>1. /\ req[r].pc = "row"
        /\ UNCHANGED <<kyc, agent, deployed, offered, accepted, announced, faults>>
        /\ rows' = [rows EXCEPT ![req[r].row] = Resolved(req[r].cred)]
        /\ End(r) \/ Goto(r, "prior")
    BY <1>6 DEF CheckRow, At, budget, veridian
  <2>2. /\ rows' \in [Issues -> RowRecords] /\ Issued' # {} /\ Offers' /\ Resolutions'
        /\ Monotone({r})
    BY <1>1, <2>1, RowStep
  <2>3. /\ \A q \in Requests \ {r} : req'[q] = req[q]
        /\ req' \in [Requests -> ReqRecords] /\ ReqOK(r)'
    <3>1. CASE End(r)
      BY <1>1, <3>1, Ends DEF IInv
    <3>2. CASE Goto(r, "prior")
      <4>1. /\ \A q \in Requests \ {r} : req'[q] = req[q]
            /\ req' \in [Requests -> ReqRecords] /\ req'[r].pc = "prior"
            /\ req'[r].todo = req[r].todo
        BY <1>1, <3>2, Gone DEF IInv, PCs
      <4>2. ReqOK(r)'
        BY <1>1, <2>2, <4>1 DEF ReqOK, CheckOK, RowOK, Monotone
      <4> QED
        BY <4>1, <4>2
    <3> QED
      BY <2>1, <3>1, <3>2
  <2>4. Types'
    BY <2>1, <2>2, <2>3 DEF IInv, Types
  <2> QED
    BY <1>1, <2>2, <2>3, <2>4, Moves
<1>7. CASE CheckPrior(r)
  <2> DEFINE x == [req[r] EXCEPT !.pc = "agent", !.prior = agent.exists /\ agent.verified]
  <2>1. /\ x \in ReqRecords /\ x.pc = "agent" /\ x.prior = (agent.exists /\ agent.verified)
        /\ x.todo = req[r].todo
    BY <1>1, <1>2 DEF ReqRecords, PCs
  <2>2. req' = [req EXCEPT ![r] = x] /\ req[r].pc = "prior"
        /\ UNCHANGED <<kyc, agent, deployed, rows, veridian, announced, faults>>
    BY <1>7 DEF CheckPrior, At, budget
  <2> HIDE DEF x
  <2>3. req'[r] = x
    BY <1>1, <2>2 DEF IInv, Types
  <2>4. ReqOK(r)'
    BY <1>1, <2>1, <2>2, <2>3 DEF ReqOK, CheckOK, RowOK, Pending, Issued, veridian
  <2> QED
    BY <1>1, <2>1, <2>2, <2>4, OnlyMoves
<1>8. CASE CheckAgent(r)
  <2>1. /\ req[r].pc = "agent" /\ Issued # {}
        /\ UNCHANGED <<kyc, deployed, rows, veridian, offered, accepted, announced, faults>>
    BY <1>1, <1>8 DEF CheckAgent, At, budget, veridian, CheckOK
  <2>2. CASE End(r) /\ UNCHANGED agent
    BY <1>1, <2>1, <2>2, OnlyEnds
  <2>3. CASE Verify(r) /\ (Goto(r, "event") \/ End(r))
    <3>1. agent' \in AgentRecords /\ agent'.verified
          /\ Offers' /\ Resolutions' /\ Monotone({r})
      BY <1>1, <2>1, <2>3, VerifyStep
    <3>2. /\ \A q \in Requests \ {r} : req'[q] = req[q]
          /\ req' \in [Requests -> ReqRecords] /\ ReqOK(r)'
      <4>1. CASE End(r)
        BY <1>1, <4>1, Ends DEF IInv
      <4>2. CASE Goto(r, "event")
        <5>1. /\ \A q \in Requests \ {r} : req'[q] = req[q]
              /\ req' \in [Requests -> ReqRecords] /\ req'[r].pc = "event"
              /\ req'[r].todo = req[r].todo
          BY <1>1, <4>2, Gone DEF IInv, PCs
        <5>2. ReqOK(r)'
          BY <1>1, <2>1, <3>1, <5>1 DEF ReqOK, CheckOK, RowOK, Monotone
        <5> QED
          BY <5>1, <5>2
      <4> QED
        BY <2>3, <4>1, <4>2
    <3>3. Types'
      BY <2>1, <3>1, <3>2 DEF IInv, Types
    <3> QED
      BY <1>1, <3>1, <3>2, <3>3, Moves
  <2> QED
    BY <1>8, <2>2, <2>3, Zenon DEF CheckAgent
<1>9. CASE RecordEvent(r)
  BY <1>1, <1>9, RecordStep
<1> QED
  BY <1>3, <1>4, <1>5, <1>6, <1>7, <1>8, <1>9 DEF CheckGoesOn

------------------------------------------------------------------------------
(* The reconciliations of all pending rows.                                *)
LEMMA ReconcileSteps ==
  ASSUME IInv, NEW r \in Reconciles, ReconcileRead(r) \/ ReconcileGoesOn(r) \/ ReconcileFails(r)
  PROVE  IInv'
<1>1. /\ r \in Requests /\ ReconcileOK(r) /\ RowOK(r) /\ req[r] \in ReqRecords /\ faults \in Nat
      /\ req[r].todo \subseteq Pending \cup Issued
      /\ r \notin Issues /\ r \notin Checks /\ r \notin Verifies
  BY Kinds DEF Requests, IInv, ReqOK, Types
<1>2. ASSUME NEW i \in req[r].todo, req[r].pc = "list"
      PROVE  LET x == [req[r] EXCEPT !.pc = "list", !.todo = @ \ {i}]
             IN  /\ SkipRow(r, i) = [req EXCEPT ![r] = x]
                 /\ x \in ReqRecords /\ x.pc = "list" /\ x.mine
                 /\ x.todo \subseteq Pending \cup Issued
                 /\ i \in Issues /\ i \in Pending \cup Issued
  <2> DEFINE x == [req[r] EXCEPT !.pc = "list", !.todo = @ \ {i}]
  <2>1. /\ x \in ReqRecords /\ x.pc = "list" /\ x.mine = req[r].mine
        /\ x.todo = req[r].todo \ {i} /\ i \in Issues
    BY <1>1 DEF ReqRecords, PCs
  <2>2. SkipRow(r, i) = [req EXCEPT ![r] = x]
    BY <1>1 DEF SkipRow, IInv, Types
  <2>3. req[r].mine
    BY <1>1, <1>2 DEF ReconcileOK
  <2> QED
    BY <1>1, <2>1, <2>2, <2>3
<1>3. ASSUME NEW i \in req[r].todo, req[r].pc = "list", req' = SkipRow(r, i),
             UNCHANGED <<kyc, agent, deployed, rows, veridian, announced>>, faults' \in Nat
      PROVE  IInv'
  <2>1. PICK x \in ReqRecords : /\ req' = [req EXCEPT ![r] = x] /\ x.pc = "list" /\ x.mine
                                /\ x.todo \subseteq Pending \cup Issued
    BY <1>2, <1>3
  <2>2. req'[r] = x
    BY <1>1, <2>1 DEF IInv, Types
  <2>3. ReqOK(r)'
    BY <1>1, <1>3, <2>1, <2>2 DEF ReqOK, ReconcileOK, RowOK, Pending, Issued, veridian
  <2> QED
    BY <1>1, <1>3, <2>1, <2>3, OnlyMoves
<1>4. ASSUME Goto(r, "list"), req[r].pc # "idle",
             UNCHANGED <<kyc, agent, deployed, rows, veridian, announced>>, faults' \in Nat
      PROVE  IInv'
  <2> DEFINE x == [req[r] EXCEPT !.pc = "list"]
  <2>1. x \in ReqRecords /\ x.pc = "list" /\ x.mine = req[r].mine /\ x.todo = req[r].todo
    BY <1>1 DEF ReqRecords, PCs
  <2>2. req' = [req EXCEPT ![r] = x]
    BY <1>4 DEF Goto
  <2> HIDE DEF x
  <2>3. req'[r] = x
    BY <1>1, <2>2 DEF IInv, Types
  <2>4. ReqOK(r)'
    BY <1>1, <1>4, <2>1, <2>3 DEF ReqOK, ReconcileOK, RowOK, Pending, Issued, veridian
  <2> QED
    BY <1>1, <1>4, <2>1, <2>2, <2>4, OnlyMoves
<1>5. CASE ReconcileRead(r)
  <2> DEFINE x == [req[r] EXCEPT !.pc = "list", !.todo = Todo, !.mine = TRUE]
  <2>1. x \in ReqRecords /\ x.pc = "list" /\ x.mine /\ x.todo = Pending
    BY <1>1 DEF ReqRecords, PCs, Todo, Pending
  <2>2. req' = [req EXCEPT ![r] = x]
        /\ UNCHANGED <<kyc, agent, deployed, rows, veridian, announced, faults>>
    BY <1>5 DEF ReconcileRead, budget
  <2> HIDE DEF x
  <2>3. req'[r] = x
    BY <1>1, <2>2 DEF IInv, Types
  <2>4. ReqOK(r)'
    BY <1>1, <2>1, <2>2, <2>3 DEF ReqOK, ReconcileOK, RowOK, Pending, Issued, veridian
  <2> QED
    BY <1>1, <2>1, <2>2, <2>4, OnlyMoves
<1>6. CASE ReconcileList(r)
  <2>1. req[r].pc = "list" /\ UNCHANGED <<kyc, agent, deployed, rows, veridian, announced, faults>>
    BY <1>6 DEF ReconcileList, At, budget
  <2>2. CASE End(r)
    BY <1>1, <2>1, <2>2, OnlyEnds
  <2>3. ASSUME NEW i \in req[r].todo, req' = SkipRow(r, i)
        PROVE  IInv'
    BY <1>1, <1>3, <2>1, <2>3
  <2>4. ASSUME NEW i \in req[r].todo, Matching(r) # {},
               req' = [SkipRow(r, i) EXCEPT ![r].pc = "row", ![r].row = i,
                                            ![r].cred = Latest(Matching(r))]
        PROVE  IInv'
    <3> DEFINE c == Latest(Matching(r))
    <3>1. c \in Credentials /\ (req[r].mine => c \in accepted)
      BY <1>1, <2>4, FoundOne
    <3>2. req[r].mine
      BY <1>1, <2>1 DEF ReconcileOK
    <3> HIDE DEF c
    <3>3. PICK y \in ReqRecords : /\ SkipRow(r, i) = [req EXCEPT ![r] = y] /\ y.mine
                                  /\ y.todo \subseteq Pending \cup Issued
                                  /\ i \in Issues /\ i \in Pending \cup Issued
      BY <1>2, <2>1, <2>4
    <3> DEFINE x == [y EXCEPT !.pc = "row", !.row = i, !.cred = c]
    <3>4. /\ x \in ReqRecords /\ x.pc = "row" /\ x.row = i /\ x.cred = c /\ x.mine = y.mine
          /\ x.todo = y.todo
      BY <3>1, <3>3 DEF ReqRecords, PCs
    <3>5. req' = [req EXCEPT ![r] = x]
      BY <1>1, <2>4, <3>3 DEF IInv, Types, c
    <3> HIDE DEF x
    <3>6. req'[r] = x
      BY <1>1, <3>5 DEF IInv, Types
    <3>7. ReqOK(r)'
      BY <1>1, <2>1, <3>1, <3>2, <3>3, <3>4, <3>6
      DEF ReqOK, ReconcileOK, RowOK, Pending, Issued, veridian
    <3> QED
      BY <1>1, <2>1, <3>4, <3>5, <3>7, OnlyMoves
  <2> QED
    BY <1>6, <2>2, <2>3, <2>4 DEF ReconcileList
<1>7. CASE ReconcileRow(r)
  <2>1. /\ req[r].pc = "row"
        /\ UNCHANGED <<kyc, agent, deployed, offered, accepted, announced, faults>>
        /\ rows' = [rows EXCEPT ![req[r].row] = Resolved(req[r].cred)]
        /\ Goto(r, "agent")
    BY <1>7 DEF ReconcileRow, At, budget, veridian
  <2>2. /\ rows' \in [Issues -> RowRecords] /\ Issued' # {} /\ Offers' /\ Resolutions'
        /\ Monotone({r})
    BY <1>1, <2>1, RowStep
  <2>3. /\ \A q \in Requests \ {r} : req'[q] = req[q]
        /\ req' \in [Requests -> ReqRecords] /\ req'[r].pc = "agent"
        /\ req'[r].todo = req[r].todo /\ req'[r].mine = req[r].mine
    BY <1>1, <2>1, Gone DEF IInv, PCs
  <2>4. ReqOK(r)'
    BY <1>1, <2>1, <2>2, <2>3 DEF ReqOK, ReconcileOK, RowOK, Monotone
  <2>5. Types'
    BY <2>1, <2>2, <2>3 DEF IInv, Types
  <2> QED
    BY <1>1, <2>2, <2>3, <2>4, <2>5, Moves
<1>8. CASE ReconcileAgent(r)
  <2>1. /\ req[r].pc = "agent" /\ Issued # {} /\ req[r].mine
        /\ UNCHANGED <<kyc, deployed, rows, veridian, offered, accepted, announced, faults>>
    BY <1>1, <1>8 DEF ReconcileAgent, At, budget, veridian, ReconcileOK
  <2>2. CASE Goto(r, "list") /\ UNCHANGED agent
    BY <1>1, <1>4, <2>1, <2>2
  <2>3. CASE Verify(r) /\ Goto(r, "event")
    <3>1. agent' \in AgentRecords /\ Offers' /\ Resolutions' /\ Monotone({r})
      BY <1>1, <2>1, <2>3, VerifyStep
    <3>2. /\ \A q \in Requests \ {r} : req'[q] = req[q]
          /\ req' \in [Requests -> ReqRecords] /\ req'[r].pc = "event"
          /\ req'[r].todo = req[r].todo /\ req'[r].mine = req[r].mine
      BY <1>1, <2>3, Gone DEF IInv, PCs
    <3>3. ReqOK(r)'
      BY <1>1, <2>1, <3>1, <3>2 DEF ReqOK, ReconcileOK, RowOK, Monotone
    <3>4. Types'
      BY <2>1, <3>1, <3>2 DEF IInv, Types
    <3> QED
      BY <1>1, <3>1, <3>2, <3>3, <3>4, Moves
  <2> QED
    BY <1>8, <2>2, <2>3, Zenon DEF ReconcileAgent
<1>9. CASE RecordEvent(r)
  BY <1>1, <1>9, RecordStep
<1>10. CASE ReconcileFails(r)
  <2>1. faults' \in Nat /\ UNCHANGED <<kyc, agent, deployed, rows, veridian, announced>>
    BY <1>1, <1>10 DEF ReconcileFails, Fault
  <2>2. CASE req[r].pc \in {"row", "agent"} /\ Goto(r, "list")
    BY <1>4, <2>1, <2>2
  <2>3. CASE req[r].pc = "list" /\ \E i \in req[r].todo : req' = SkipRow(r, i)
    BY <1>3, <2>1, <2>3
  <2> QED
    BY <1>10, <2>2, <2>3 DEF ReconcileFails, At
<1> QED
  BY <1>5, <1>6, <1>7, <1>8, <1>9, <1>10 DEF ReconcileGoesOn

------------------------------------------------------------------------------
(* The verifications that the owner asks for.                              *)
LEMMA VerifySteps ==
  ASSUME IInv, NEW r \in Verifies, VerifyRead(r) \/ VerifyGoesOn(r)
  PROVE  IInv'
<1>1. /\ r \in Requests /\ VerifyOK(r) /\ req[r] \in ReqRecords /\ faults \in Nat
      /\ req[r].todo \subseteq Pending \cup Issued
      /\ r \notin Issues /\ r \notin Checks /\ r \notin Reconciles
  BY Kinds DEF Requests, IInv, ReqOK, Types
<1>2. ASSUME NEW x \in ReqRecords, req' = [req EXCEPT ![r] = x], x.todo = req[r].todo,
             x.pc \in {"list", "agent"}, Issued # {},
             UNCHANGED <<kyc, agent, deployed, rows, veridian, announced, faults>>
      PROVE  IInv'
  <2>1. req'[r] = x
    BY <1>1, <1>2 DEF IInv, Types
  <2>2. ReqOK(r)'
    BY <1>1, <1>2, <2>1 DEF ReqOK, VerifyOK, Pending, Issued
  <2> QED
    BY <1>1, <1>2, <2>2, OnlyMoves
<1>3. CASE VerifyRead(r)
  <2> DEFINE x == [req[r] EXCEPT !.pc = "list"]
  <2>1. x \in ReqRecords /\ x.pc = "list" /\ x.todo = req[r].todo /\ req' = [req EXCEPT ![r] = x]
    BY <1>1, <1>3 DEF VerifyRead, Goto, ReqRecords, PCs
  <2> HIDE DEF x
  <2> QED
    BY <1>2, <1>3, <2>1 DEF VerifyRead, HasCredential, budget
<1>4. CASE VerifyList(r)
  <2>1. /\ req[r].pc = "list" /\ Issued # {}
        /\ UNCHANGED <<kyc, agent, deployed, rows, veridian, announced, faults>>
    BY <1>1, <1>4 DEF VerifyList, At, budget, VerifyOK
  <2>2. CASE End(r)
    BY <1>1, <2>1, <2>2, OnlyEnds
  <2>3. ASSUME NEW c \in accepted \cup Foreign,
               req' = [req EXCEPT ![r].pc = "agent", ![r].cred = c]
        PROVE  IInv'
    <3> DEFINE x == [req[r] EXCEPT !.pc = "agent", !.cred = c]
    <3>1. c \in Credentials
      BY DEF IInv, Types, Offers, Range, Credentials
    <3>2. x \in ReqRecords /\ x.pc = "agent" /\ x.todo = req[r].todo
          /\ req' = [req EXCEPT ![r] = x]
      BY <1>1, <2>3, <3>1 DEF ReqRecords, PCs
    <3> HIDE DEF x
    <3> QED
      BY <1>2, <2>1, <3>2
  <2> QED
    BY <1>4, <2>2, <2>3 DEF VerifyList
<1>5. CASE VerifyAgent(r)
  <2>1. /\ req[r].pc = "agent" /\ Issued # {}
        /\ UNCHANGED <<kyc, deployed, rows, veridian, offered, accepted, announced, faults>>
    BY <1>1, <1>5 DEF VerifyAgent, At, budget, veridian, VerifyOK
  <2>2. CASE End(r) /\ UNCHANGED agent
    BY <1>1, <2>1, <2>2, OnlyEnds
  <2>3. CASE Verify(r) /\ Goto(r, "event")
    <3>1. agent' \in AgentRecords /\ Offers' /\ Resolutions' /\ Monotone({r})
      BY <1>1, <2>1, <2>3, VerifyStep
    <3>2. /\ \A q \in Requests \ {r} : req'[q] = req[q]
          /\ req' \in [Requests -> ReqRecords] /\ req'[r].pc = "event"
          /\ req'[r].todo = req[r].todo
      BY <1>1, <2>3, Gone DEF IInv, PCs
    <3>3. ReqOK(r)'
      BY <1>1, <2>1, <3>1, <3>2 DEF ReqOK, VerifyOK, Monotone
    <3>4. Types'
      BY <2>1, <3>1, <3>2 DEF IInv, Types
    <3> QED
      BY <1>1, <3>1, <3>2, <3>3, <3>4, Moves
  <2> QED
    BY <1>5, <2>2, <2>3, Zenon DEF VerifyAgent
<1>6. CASE RecordEvent(r)
  BY <1>1, <1>6, RecordStep
<1> QED
  BY <1>3, <1>4, <1>5, <1>6 DEF VerifyGoesOn

------------------------------------------------------------------------------
LEMMA InitIInv == Init => IInv
<1> SUFFICES ASSUME Init
             PROVE  IInv
  OBVIOUS
<1>1. MaxSecrets \in Nat /\ None \notin {"PENDING", "ISSUED"}
  BY VerificationAssumption
<1>2. Idle \in ReqRecords
  BY <1>1 DEF Idle, ReqRecords, PCs
<1>3. agent \in AgentRecords /\ ~agent.verified /\ deployed \in 0 .. MaxSecrets
  BY <1>1 DEF Init, AgentRecords
<1>4. rows \in [Issues -> RowRecords] /\ \A i \in Issues : rows[i].status = None
  BY DEF Init, NoRow, RowRecords
<1>5. Issued = {}
  BY <1>1, <1>4 DEF Issued
<1>6. req \in [Requests -> ReqRecords] /\ \A r \in Requests : req[r] = Idle
  BY <1>2 DEF Init
<1>7. Types
  BY <1>3, <1>4, <1>6 DEF Init, Types, EventCap
<1>8. Offers /\ Range(offered) = {}
  BY DEF Init, Offers, IsInjective, Range
<1>9. Resolutions
  BY <1>3, <1>5 DEF Resolutions
<1>10. ASSUME NEW r \in Requests
       PROVE  ReqOK(r)
  BY <1>4, <1>6, <1>8 DEF ReqOK, IssueOK, CheckOK, ReconcileOK, VerifyOK, RowOK, Idle
<1> QED
  BY <1>7, <1>8, <1>9, <1>10 DEF IInv

LEMMA StepIInv == IInv /\ [Next]_vars => IInv'
<1> SUFFICES ASSUME IInv, [Next]_vars
             PROVE  IInv'
  OBVIOUS
<1>1. CASE UNCHANGED vars
  BY <1>1 DEF vars, veridian, IInv, Types, Offers, Resolutions, ReqOK, IssueOK, CheckOK,
     ReconcileOK, VerifyOK, RowOK, Issued, Pending
<1> QED
  BY <1>1, WorldSteps, IssueSteps, CheckSteps, ReconcileSteps, VerifySteps, DiesStep DEF Next

LEMMA Invariant == Spec => []IInv
BY InitIInv, StepIInv, PTL DEF Spec

------------------------------------------------------------------------------
(* The announcement: a step of request r leaves the others where they are, *)
LEMMA OneMoves ==
  ASSUME Types, NEW r \in Requests,
         \/ Issue(r) \/ CheckStarts(r) \/ CheckGoesOn(r) \/ ReconcileRead(r)
         \/ ReconcileGoesOn(r) \/ VerifyRead(r) \/ VerifyGoesOn(r)
  PROVE  \A q \in Requests \ {r} : req'[q] = req[q]
<1>1. DOMAIN req = Requests
  BY DEF Types
<1>2. CASE Issue(r)
  BY <1>1, <1>2 DEF Issue, IssueKyc, IssueAgent, IssueFetch, IssueOffer, IssueRow, End, Goto
<1>3. CASE CheckStarts(r)
  BY <1>1, <1>3 DEF CheckStarts, CheckRead
<1>4. CASE CheckGoesOn(r)
  BY <1>1, <1>4 DEF CheckGoesOn, CheckIdent, CheckList, CheckRow, CheckPrior, CheckAgent,
     RecordEvent, Found, End, Goto
<1>5. CASE ReconcileRead(r) \/ ReconcileGoesOn(r)
  BY <1>1, <1>5 DEF ReconcileRead, ReconcileGoesOn, ReconcileList, ReconcileRow, ReconcileAgent,
     RecordEvent, SkipRow, End, Goto
<1>6. CASE VerifyRead(r) \/ VerifyGoesOn(r)
  BY <1>1, <1>6 DEF VerifyRead, VerifyGoesOn, VerifyList, VerifyAgent, RecordEvent, End, Goto
<1> QED
  BY <1>2, <1>3, <1>4, <1>5, <1>6

(* and it begins with the agent VERIFIED, unless r itself is to announce   *)
(* it next or is just doing so.                                            *)
LEMMA WhoVerifies ==
  ASSUME IInv, NEW r \in Requests,
         \/ r \in Issues /\ Issue(r)
         \/ r \in Checks /\ (CheckStarts(r) \/ CheckGoesOn(r))
         \/ r \in Reconciles /\ (ReconcileRead(r) \/ ReconcileGoesOn(r))
         \/ r \in Verifies /\ (VerifyRead(r) \/ VerifyGoesOn(r)),
         agent'.exists, agent'.verified
  PROVE  /\ faults' = faults
         /\ \/ At(r, "event")' /\ announced' = announced
            \/ announced' > 0
            \/ ~At(r, "event") /\ announced' = announced /\ agent.exists /\ agent.verified
<1>1. agent \in AgentRecords /\ announced \in 0 .. EventCap /\ Types
  BY DEF IInv, Types
<1>2. CASE RecordEvent(r)
  BY <1>1, <1>2 DEF RecordEvent, EventCap, budget
<1>3. CASE r \in Issues /\ Issue(r)
  BY <1>3 DEF Issue, IssueKyc, IssueAgent, IssueFetch, IssueOffer, IssueRow, At, budget
<1>4. CASE r \in Checks /\ (CheckStarts(r) \/ CheckIdent(r) \/ CheckList(r) \/ CheckRow(r)
                            \/ CheckPrior(r))
  BY <1>4 DEF CheckStarts, CheckRead, CheckIdent, CheckList, CheckRow, CheckPrior, At, budget
<1>5. CASE r \in Checks /\ CheckAgent(r)
  <2>1. /\ req[r].pc = "agent" /\ faults' = faults /\ announced' = announced
        /\ agent.exists
    BY <1>1, <1>5 DEF CheckAgent, At, budget, AgentRecords
  <2>2. CASE Goto(r, "event")
    BY <1>1, <2>1, <2>2, Gone DEF At, PCs
  <2>3. CASE ~Announces(r)
    <3>1. agent.verified
      BY <1>5, <2>1, <2>3 DEF Announces, IInv, ReqOK, CheckOK
    <3> QED
      BY <2>1, <3>1 DEF At
  <2> QED
    BY <1>5, <2>1, <2>2, <2>3, Zenon DEF CheckAgent
<1>6. CASE r \in Reconciles /\ (ReconcileRead(r) \/ ReconcileList(r) \/ ReconcileRow(r))
  BY <1>6 DEF ReconcileRead, ReconcileList, ReconcileRow, At, budget
<1>7. CASE ReconcileAgent(r) \/ VerifyAgent(r)
  <2>1. agent.exists /\ faults' = faults /\ announced' = announced
    BY <1>1, <1>7 DEF ReconcileAgent, VerifyAgent, budget, AgentRecords
  <2>2. Goto(r, "event")
    BY <1>7, <2>1, Zenon DEF ReconcileAgent, VerifyAgent
  <2> QED
    BY <1>1, <2>1, <2>2, Gone DEF At, PCs
<1>8. CASE r \in Verifies /\ (VerifyRead(r) \/ VerifyList(r))
  BY <1>8 DEF VerifyRead, VerifyList, At, budget
<1> QED
  BY <1>2, <1>3, <1>4, <1>5, <1>6, <1>7, <1>8
  DEF CheckGoesOn, ReconcileGoesOn, VerifyGoesOn

LEMMA StepAnnounced ==
  ASSUME IInv, VerifiedIsAnnounced, [Next]_vars
  PROVE  VerifiedIsAnnounced'
<1> SUFFICES ASSUME faults' = 0, agent'.exists, agent'.verified
             PROVE  announced' > 0 \/ \E q \in Requests : At(q, "event")'
  BY DEF VerifiedIsAnnounced
<1>1. Types
  BY DEF IInv
<1>2. ~Fault
  BY <1>1 DEF Fault, Types
<1>3. CASE UNCHANGED vars
  BY <1>3 DEF vars, VerifiedIsAnnounced, At
<1>4. CASE World
  <2>1. UNCHANGED <<announced, req, faults>>
    BY <1>4 DEF World, KycChanges, AgentDeregistered, AgentDeleted, SecretDeployed,
       RefreshChallenge, HolderAccepts, budget
  <2>2. agent.exists /\ agent.verified
    <3>1. agent \in AgentRecords
      BY <1>1 DEF Types
    <3> QED
      BY <1>4, <3>1 DEF World, KycChanges, AgentDeregistered, AgentDeleted, SecretDeployed,
         RefreshChallenge, HolderAccepts, AgentRecords
  <2> QED
    BY <2>1, <2>2 DEF VerifiedIsAnnounced, At
<1>5. ASSUME NEW r \in Requests,
             \/ r \in Issues /\ Issue(r)
             \/ r \in Checks /\ (CheckStarts(r) \/ CheckGoesOn(r))
             \/ r \in Reconciles /\ (ReconcileRead(r) \/ ReconcileGoesOn(r))
             \/ r \in Verifies /\ (VerifyRead(r) \/ VerifyGoesOn(r))
      PROVE  announced' > 0 \/ \E q \in Requests : At(q, "event")'
  <2>1. /\ faults' = faults
        /\ \/ At(r, "event")' /\ announced' = announced
           \/ announced' > 0
           \/ ~At(r, "event") /\ announced' = announced /\ agent.exists /\ agent.verified
    BY <1>5, WhoVerifies
  <2>2. \A q \in Requests \ {r} : req'[q] = req[q]
    BY <1>1, <1>5, OneMoves
  <2>3. CASE ~At(r, "event") /\ announced' = announced /\ agent.exists /\ agent.verified
    <3>1. announced > 0 \/ \E q \in Requests \ {r} : At(q, "event")
      BY <2>1, <2>3 DEF VerifiedIsAnnounced
    <3> QED
      BY <2>2, <2>3, <3>1 DEF At
  <2> QED
    BY <2>1, <2>3
<1>6. \A r \in Requests : ~Dies(r) /\ ~ReconcileFails(r)
  BY <1>2 DEF Dies, ReconcileFails
<1>7. Issues \cup Checks \cup Reconciles \cup Verifies \subseteq Requests
  BY DEF Requests
<1> QED
  BY <1>3, <1>4, <1>5, <1>6, <1>7 DEF Next

(* However polls, reconciliations and verifications interleave, none of    *)
(* them leaves the AgentVerified event to another: as long as nothing      *)
(* fails, an agent that is VERIFIED was announced or is about to be.       *)
THEOREM VerificationIsAnnounced == Spec => []VerifiedIsAnnounced
<1>1. Init => VerifiedIsAnnounced
  BY DEF Init, VerifiedIsAnnounced
<1>2. IInv /\ VerifiedIsAnnounced /\ [Next]_vars => VerifiedIsAnnounced'
  BY StepAnnounced
<1> QED
  BY <1>1, <1>2, Invariant, PTL DEF Spec

------------------------------------------------------------------------------
(* The challenge. The secret that an issue request has read was given out  *)
(* by then, and once the endpoint has answered it was deployed; secrets    *)
(* are only replaced by later ones, and rows are created after an answer.  *)
Proven ==
  /\ deployed <= agent.secret
  /\ \A r \in Issues :
       /\ req[r].pc = "fetch" => req[r].secret \in 1 .. agent.secret
       /\ req[r].pc \in {"offer", "row"} => req[r].secret \in 1 .. deployed
  /\ Pending \cup Issued # {} => deployed # 0

(* What is proven stays so while secrets grow, no issue request goes on,   *)
(* and no row is created.                                                  *)
LEMMA StaysProven ==
  ASSUME IInv, Proven, agent' \in AgentRecords, deployed' \in 0 .. MaxSecrets,
         deployed <= deployed', agent.secret <= agent'.secret, deployed' <= agent'.secret,
         \A r \in Issues : req'[r] = req[r] \/ req'[r].pc \notin {"fetch", "offer", "row"},
         Pending' \cup Issued' # {} => Pending \cup Issued # {}
  PROVE  Proven'
<1>1. /\ agent.secret \in Nat /\ agent'.secret \in Nat /\ deployed \in Nat /\ deployed' \in Nat
      /\ \A r \in Issues : req[r].secret \in Nat
  BY VerificationAssumption DEF IInv, Types, AgentRecords, ReqRecords, Requests
<1>2. ASSUME NEW r \in Issues
      PROVE  /\ req'[r].pc = "fetch" => req'[r].secret \in 1 .. agent'.secret
             /\ req'[r].pc \in {"offer", "row"} => req'[r].secret \in 1 .. deployed'
  BY <1>1, <1>2 DEF Proven
<1>3. Pending' \cup Issued' # {} => deployed' # 0
  BY <1>1 DEF Proven
<1> QED
  BY <1>2, <1>3 DEF Proven

(* A challenge is refreshed, a secret deployed, or something else changes. *)
LEMMA WorldProven ==
  ASSUME IInv, Proven, World
  PROVE  Proven'
<1>1. /\ agent \in AgentRecords /\ agent.secret \in Nat /\ deployed \in Nat
      /\ agent' \in AgentRecords /\ deployed' \in 0 .. MaxSecrets
  BY WorldSteps, VerificationAssumption DEF IInv, Types, AgentRecords
<1>2. UNCHANGED <<rows, req>>
  BY DEF World, KycChanges, AgentDeregistered, AgentDeleted, SecretDeployed, RefreshChallenge,
         HolderAccepts
<1>3. deployed <= deployed' /\ agent.secret <= agent'.secret /\ deployed' <= agent'.secret
  <2>1. deployed <= agent.secret
    BY DEF Proven
  <2>2. CASE KycChanges \/ \E c \in Issues : HolderAccepts(c)
    BY <1>1, <2>1, <2>2 DEF KycChanges, HolderAccepts
  <2>3. CASE AgentDeregistered \/ AgentDeleted
    BY <1>1, <2>1, <2>3 DEF AgentDeregistered, AgentDeleted, AgentRecords
  <2>4. CASE SecretDeployed
    BY <1>1, <2>1, <2>4 DEF SecretDeployed
  <2>5. CASE RefreshChallenge
    BY <1>1, <2>1, <2>5 DEF RefreshChallenge, AgentRecords
  <2> QED
    BY <2>2, <2>3, <2>4, <2>5 DEF World
<1> QED
  BY <1>1, <1>2, <1>3, StaysProven DEF Pending, Issued

(* An issue request reads the secret, has it answered, and offers the      *)
(* credential although the challenge may have been refreshed meanwhile.    *)
LEMMA IssueProven ==
  ASSUME IInv, Proven, NEW r \in Issues, Issue(r)
  PROVE  Proven'
<1>1. /\ r \in Requests /\ Types /\ req \in [Requests -> ReqRecords]
      /\ agent \in AgentRecords /\ agent.secret \in Nat /\ deployed \in 0 .. MaxSecrets
      /\ deployed \in Nat /\ deployed <= agent.secret
  BY VerificationAssumption DEF Requests, IInv, Types, AgentRecords, Proven
<1>2. UNCHANGED <<agent, deployed>>
  BY DEF Issue, IssueKyc, IssueAgent, IssueFetch, IssueOffer, IssueRow
<1>3. \A q \in Issues \ {r} : req'[q] = req[q]
  BY <1>1, OneMoves DEF Requests
<1>4. ASSUME req'[r] = req[r] \/ req'[r].pc \notin {"fetch", "offer", "row"},
             Pending' \cup Issued' # {} => Pending \cup Issued # {}
      PROVE  Proven'
  BY <1>1, <1>2, <1>3, <1>4, StaysProven
<1>5. ASSUME /\ req'[r].pc = "fetch" => req'[r].secret \in 1 .. agent.secret
             /\ req'[r].pc \in {"offer", "row"} => req'[r].secret \in 1 .. deployed,
             UNCHANGED rows
      PROVE  Proven'
  BY <1>2, <1>3, <1>5 DEF Proven, Pending, Issued
<1>6. CASE End(r)
  <2>1. req'[r].pc = "done"
    BY <1>1, <1>6, Ends
  <2>2. CASE UNCHANGED rows
    BY <1>4, <2>1, <2>2 DEF Pending, Issued
  <2>3. CASE IssueRow(r)
    <3>1. deployed # 0
      BY <1>1, <2>3 DEF IssueRow, At, Proven
    <3> QED
      BY <1>1, <1>2, <1>3, <2>1, <3>1 DEF Proven
  <2> QED
    BY <2>2, <2>3 DEF Issue, IssueKyc, IssueAgent, IssueFetch, IssueOffer
<1>7. CASE IssueKyc(r) /\ Goto(r, "agent")
  <2>1. req'[r].pc = "agent" /\ UNCHANGED rows
    BY <1>1, <1>7 DEF IssueKyc, Goto
  <2> QED
    BY <1>5, <2>1
<1>8. CASE IssueAgent(r) /\ ~End(r)
  <2>1. /\ req' = [req EXCEPT ![r].pc = "fetch", ![r].secret = agent.secret]
        /\ agent.secret # 0 /\ UNCHANGED rows
    BY <1>8 DEF IssueAgent
  <2>2. req'[r].pc = "fetch" /\ req'[r].secret = agent.secret
    BY <1>1, <2>1 DEF ReqRecords
  <2> QED
    BY <1>1, <1>5, <2>1, <2>2
<1>9. CASE IssueFetch(r) /\ ~End(r)
  <2>1. Goto(r, "offer") /\ req[r].pc = "fetch" /\ deployed = req[r].secret /\ UNCHANGED rows
    BY <1>9 DEF IssueFetch, At
  <2>2. req'[r].pc = "offer" /\ req'[r].secret = req[r].secret
    BY <1>1, <2>1 DEF Goto, ReqRecords
  <2>3. req[r].secret \in 1 .. deployed
    BY <1>1, <2>1 DEF Proven
  <2> QED
    BY <1>5, <2>1, <2>2, <2>3
<1>10. CASE IssueOffer(r)
  <2>1. Goto(r, "row") /\ req[r].pc = "offer" /\ UNCHANGED rows
    BY <1>10 DEF IssueOffer, At
  <2>2. req'[r].pc = "row" /\ req'[r].secret = req[r].secret
    BY <1>1, <2>1 DEF Goto, ReqRecords
  <2>3. req[r].secret \in 1 .. deployed
    BY <2>1 DEF Proven
  <2> QED
    BY <1>5, <2>1, <2>2, <2>3
<1>11. IssueRow(r) => End(r)
  BY DEF IssueRow
<1> QED
  BY <1>6, <1>7, <1>8, <1>9, <1>10, <1>11 DEF Issue, IssueKyc

(* The requests that follow a credential create no row and no secret.      *)
LEMMA FollowersProven ==
  ASSUME IInv, Proven, NEW r \in Requests \ Issues,
         \/ r \in Checks /\ (CheckStarts(r) \/ CheckGoesOn(r))
         \/ r \in Reconciles /\ (ReconcileRead(r) \/ ReconcileGoesOn(r) \/ ReconcileFails(r))
         \/ r \in Verifies /\ (VerifyRead(r) \/ VerifyGoesOn(r))
         \/ Dies(r)
  PROVE  Proven'
<1>1. /\ Types /\ agent \in AgentRecords /\ agent.secret \in Nat /\ deployed \in 0 .. MaxSecrets
      /\ deployed \in Nat /\ deployed <= agent.secret /\ DOMAIN req = Requests
      /\ Issues \subseteq Requests
  BY VerificationAssumption DEF Requests, IInv, Types, AgentRecords, Proven
<1>2. \A q \in Issues : req'[q] = req[q]
  <2>1. CASE Dies(r)
    BY <1>1, <2>1, Ends DEF Dies
  <2>2. CASE ReconcileFails(r)
    BY <1>1, <2>2 DEF ReconcileFails, Goto, SkipRow
  <2> QED
    BY <1>1, <2>1, <2>2, OneMoves
<1>3. UNCHANGED deployed
  <2>1. CASE CheckStarts(r) \/ CheckGoesOn(r)
    BY <2>1 DEF CheckStarts, CheckRead, CheckGoesOn, CheckIdent, CheckList, CheckRow,
       CheckPrior, CheckAgent, RecordEvent
  <2>2. CASE ReconcileRead(r) \/ ReconcileGoesOn(r) \/ ReconcileFails(r)
    BY <2>2 DEF ReconcileRead, ReconcileGoesOn, ReconcileList, ReconcileRow, ReconcileAgent,
       RecordEvent, ReconcileFails
  <2>3. CASE VerifyRead(r) \/ VerifyGoesOn(r) \/ Dies(r)
    BY <2>3 DEF VerifyRead, VerifyGoesOn, VerifyList, VerifyAgent, RecordEvent, Dies
  <2> QED
    BY <2>1, <2>2, <2>3
<1>4. agent' \in AgentRecords /\ agent'.secret = agent.secret
  <2>1. CASE UNCHANGED agent
    BY <1>1, <2>1
  <2>2. CASE Verify(r)
    BY <1>1, <2>2 DEF Verify, AgentRecords, IInv, Types, ReqRecords
  <2>3. UNCHANGED agent \/ Verify(r)
    BY Zenon DEF CheckStarts, CheckRead, CheckGoesOn, CheckIdent, CheckList, CheckRow,
       CheckPrior, CheckAgent, RecordEvent, ReconcileRead, ReconcileGoesOn, ReconcileList,
       ReconcileRow, ReconcileAgent, ReconcileFails, VerifyRead, VerifyGoesOn, VerifyList,
       VerifyAgent, Dies
  <2> QED
    BY <2>1, <2>2, <2>3
<1>5. Pending' \cup Issued' # {} => Pending \cup Issued # {}
  <2>1. CASE UNCHANGED rows
    BY <2>1 DEF Pending, Issued
  <2>2. CASE r \in Checks /\ CheckRow(r)
    BY <2>2 DEF CheckRow, At, IInv, ReqOK, RowOK
  <2>3. CASE r \in Reconciles /\ ReconcileRow(r)
    BY <2>3 DEF ReconcileRow, At, IInv, ReqOK, RowOK
  <2> QED
    BY <2>1, <2>2, <2>3 DEF CheckStarts, CheckRead, CheckGoesOn, CheckIdent, CheckList,
       CheckPrior, CheckAgent, RecordEvent, ReconcileRead, ReconcileGoesOn, ReconcileList,
       ReconcileAgent, ReconcileFails, VerifyRead, VerifyGoesOn, VerifyList, VerifyAgent, Dies
<1> QED
  BY <1>1, <1>2, <1>3, <1>4, <1>5, StaysProven

LEMMA StepProven ==
  ASSUME IInv, Proven, [Next]_vars
  PROVE  Proven'
<1>1. CASE UNCHANGED vars
  BY <1>1 DEF vars, Proven, Pending, Issued
<1>2. ASSUME NEW r \in Issues, Dies(r)
      PROVE  Proven'
  <2>1. /\ r \in Requests /\ agent \in AgentRecords /\ agent.secret \in Nat /\ deployed \in Nat
        /\ Types /\ deployed \in 0 .. MaxSecrets /\ deployed <= agent.secret
    BY VerificationAssumption DEF Requests, IInv, Types, AgentRecords, Proven
  <2>2. UNCHANGED <<agent, deployed, rows>> /\ End(r)
    BY <1>2 DEF Dies
  <2>3. req'[r].pc = "done" /\ \A q \in Issues \ {r} : req'[q] = req[q]
    BY <2>1, <2>2, Ends DEF Requests
  <2> QED
    BY <2>1, <2>2, <2>3, StaysProven DEF Pending, Issued
<1>3. Checks \cup Reconciles \cup Verifies \subseteq Requests \ Issues
  BY Kinds DEF Requests
<1> QED
  BY <1>1, <1>2, <1>3, WorldProven, IssueProven, FollowersProven DEF Next

(* However often the challenge is refreshed while issue requests use the   *)
(* one they have read: a credential is offered only on a secret that the   *)
(* agent's endpoint has served, and no agent is VERIFIED without one.      *)
THEOREM IssuedOnProof == Spec => []EndpointProven
<1>1. Init => Proven
  <2> SUFFICES ASSUME Init
               PROVE  Proven
    OBVIOUS
  <2>1. Pending = {} /\ Issued = {}
    BY VerificationAssumption DEF Init, NoRow, Pending, Issued
  <2>2. deployed = 0 /\ agent.secret = 0 /\ \A r \in Issues : req[r].pc = "idle"
    BY DEF Init, Idle, Requests
  <2> QED
    BY <2>1, <2>2 DEF Proven
<1>2. IInv /\ Proven /\ [Next]_vars => Proven'
  BY StepProven
<1>3. IInv /\ Proven => EndpointProven
  BY DEF IInv, Resolutions, Proven, EndpointProven
<1> QED
  BY <1>1, <1>2, <1>3, Invariant, PTL DEF Spec

(* An agent is VERIFIED only after a row was resolved, and a row only by a *)
(* credential of this agent that its holder has accepted, whatever issues, *)
(* polls, reconciliations and verifications do between each other's steps; *)
(* it is announced, and its endpoint was proven.                           *)
THEOREM VerificationIsFounded == Spec => []CredentialInvariant
<1>1. IInv => TypeOK /\ VerifiedHasCredential /\ ResolvedByOwnCredential
  <2> SUFFICES ASSUME IInv
               PROVE  TypeOK /\ VerifiedHasCredential /\ ResolvedByOwnCredential
    OBVIOUS
  <2>1. /\ kyc \in BOOLEAN /\ agent \in AgentRecords /\ deployed \in 0 .. MaxSecrets
        /\ rows \in [Issues -> RowRecords] /\ announced \in 0 .. EventCap
        /\ req \in [Requests -> ReqRecords]
    BY DEF IInv, Types
  <2>2. /\ {kyc, agent.exists, agent.confirmed, agent.verified} \subseteq BOOLEAN
        /\ agent.cred \in Credentials \cup {None}
        /\ {agent.secret, deployed} \subseteq 0 .. MaxSecrets
    BY <2>1 DEF AgentRecords
  <2>3. \A i \in Issues : rows[i].status \in {None, "PENDING", "ISSUED"}
    BY <2>1 DEF RowRecords
  <2>4. \A r \in Requests : req[r].pc \in PCs /\ req[r].todo \subseteq Pending \cup Issued
    BY <2>1 DEF IInv, ReqOK, ReqRecords
  <2>5. \A r \in Checks \cup Reconciles :
          At(r, "row") => req[r].row \in Pending \cup Issued /\ req[r].cred # None
    BY VerificationAssumption DEF IInv, ReqOK, RowOK, At, Requests, Credentials
  <2>6. TypeOK
    BY <2>1, <2>2, <2>3, <2>4, <2>5 DEF TypeOK, IInv, Offers
  <2>7. VerifiedHasCredential /\ ResolvedByOwnCredential
    BY DEF IInv, Resolutions, VerifiedHasCredential, ResolvedByOwnCredential
  <2> QED
    BY <2>6, <2>7
<1> QED
  BY <1>1, Invariant, VerificationIsAnnounced, IssuedOnProof, PTL DEF CredentialInvariant

------------------------------------------------------------------------------
(* The promise. A row is created after its credential was offered, and the *)
(* verification is announced after it was written.                         *)
Ordered ==
  /\ \A r \in Issues : req[r].pc = "row" \/ rows[r].status # None => r \in Range(offered)
  /\ \A r \in Requests : req[r].pc = "event" => agent.verified

(* A step that leaves the offers and the rows' existence alone, and whose  *)
(* request, if it goes on to announce, leaves the agent VERIFIED.          *)
LEMMA StaysOrdered ==
  ASSUME Ordered, UNCHANGED offered, agent.verified => agent'.verified,
         \A q \in Issues : rows'[q].status # None => rows[q].status # None \/ req[q].pc = "row",
         \A q \in Requests : \/ req'[q] = req[q]
                             \/ /\ q \in Issues => req'[q].pc # "row"
                                /\ req'[q].pc = "event" => agent'.verified
  PROVE  Ordered'
BY DEF Ordered, Requests

LEMMA WorldOrdered ==
  ASSUME IInv, Ordered, World
  PROVE  Ordered'
<1>1. UNCHANGED <<rows, offered, req>>
  BY DEF World, KycChanges, AgentDeregistered, AgentDeleted, SecretDeployed, RefreshChallenge,
         HolderAccepts, veridian
<1>2. agent'.verified = agent.verified
  <2>1. agent \in AgentRecords
    BY DEF IInv, Types
  <2> QED
    BY <2>1 DEF World, KycChanges, AgentDeregistered, AgentDeleted, SecretDeployed,
       RefreshChallenge, HolderAccepts, AgentRecords
<1> QED
  BY <1>1, <1>2, StaysOrdered

(* The offer is the only step that reaches the row.                        *)
LEMMA IssueOrdered ==
  ASSUME IInv, Ordered, NEW r \in Issues, Issue(r)
  PROVE  Ordered'
<1>1. /\ r \in Requests /\ Types /\ DOMAIN req = Requests /\ req \in [Requests -> ReqRecords]
      /\ Issues \subseteq Requests /\ rows \in [Issues -> RowRecords] /\ offered \in Seq(Issues)
  BY DEF Requests, IInv, Types
<1>2. UNCHANGED agent /\ \A q \in Requests \ {r} : req'[q] = req[q]
  BY <1>1, OneMoves DEF Issue, IssueKyc, IssueAgent, IssueFetch, IssueOffer, IssueRow
<1>3. CASE IssueOffer(r)
  <2>1. /\ Goto(r, "row") /\ offered' = Append(offered, r) /\ UNCHANGED rows
    BY <1>3 DEF IssueOffer
  <2>2. req'[r].pc = "row"
    BY <1>1, <2>1 DEF Goto, ReqRecords
  <2>3. r \in Range(offered') /\ Range(offered) \subseteq Range(offered')
    <3>1. /\ DOMAIN offered' = 1 .. (Len(offered) + 1) /\ DOMAIN offered = 1 .. Len(offered)
          /\ offered'[Len(offered) + 1] = r /\ Len(offered) \in Nat
          /\ \A i \in 1 .. Len(offered) : offered'[i] = offered[i]
      BY <1>1, <2>1
    <3> QED
      BY <3>1 DEF Range
  <2> QED
    BY <1>1, <1>2, <2>1, <2>2, <2>3 DEF Ordered
<1>4. CASE ~IssueOffer(r)
  <2>1. UNCHANGED offered
    BY <1>4 DEF Issue, IssueKyc, IssueAgent, IssueFetch, IssueRow, veridian
  <2>2. \A q \in Issues : rows'[q].status # None => rows[q].status # None \/ req[q].pc = "row"
    <3>1. CASE UNCHANGED rows
      BY <3>1
    <3>2. CASE IssueRow(r)
      BY <1>1, <3>2 DEF IssueRow, At, RowRecords
    <3> QED
      BY <1>4, <3>1, <3>2 DEF Issue, IssueKyc, IssueAgent, IssueFetch
  <2>3. req'[r].pc # "row" /\ req'[r].pc # "event"
    <3>1. CASE End(r)
      BY <1>1, <3>1, Ends
    <3>2. CASE IssueAgent(r) /\ ~End(r)
      <4>1. req' = [req EXCEPT ![r].pc = "fetch", ![r].secret = agent.secret]
        BY <3>2 DEF IssueAgent
      <4> QED
        BY <1>1, <4>1 DEF ReqRecords
    <3>3. CASE Goto(r, "agent") \/ Goto(r, "offer")
      BY <1>1, <3>3 DEF Goto, ReqRecords
    <3> QED
      BY <1>4, <3>1, <3>2, <3>3 DEF Issue, IssueKyc, IssueFetch, IssueRow
  <2> QED
    BY <1>2, <2>1, <2>2, <2>3, StaysOrdered
<1> QED
  BY <1>3, <1>4

(* What a following request does to the agent, the rows and itself.        *)
LEMMA FollowerMoves ==
  ASSUME IInv, NEW r \in Requests \ Issues,
         \/ r \in Checks /\ (CheckStarts(r) \/ CheckGoesOn(r))
         \/ r \in Reconciles /\ (ReconcileRead(r) \/ ReconcileGoesOn(r) \/ ReconcileFails(r))
         \/ r \in Verifies /\ (VerifyRead(r) \/ VerifyGoesOn(r))
         \/ Dies(r)
  PROVE  /\ UNCHANGED <<deployed, offered, accepted>>
         /\ \A q \in Requests \ {r} : req'[q] = req[q]
         /\ \/ UNCHANGED <<agent, rows, announced>>
            \/ /\ Verify(r) /\ agent.exists /\ Issued # {} /\ UNCHANGED <<rows, announced>>
            \/ /\ r \in Checks \cup Reconciles /\ At(r, "row")
               /\ rows' = [rows EXCEPT ![req[r].row] = Resolved(req[r].cred)]
               /\ UNCHANGED <<agent, announced>>
            \/ /\ At(r, "event") /\ RecordEvent(r) /\ UNCHANGED <<agent, rows>>
<1>1. Types /\ DOMAIN req = Requests /\ r \in Requests
  BY DEF IInv, Types
<1>2. \A q \in Requests \ {r} : req'[q] = req[q]
  <2>1. CASE Dies(r)
    BY <1>1, <2>1, Ends DEF Dies
  <2>2. CASE ReconcileFails(r)
    BY <1>1, <2>2 DEF ReconcileFails, Goto, SkipRow
  <2> QED
    BY <1>1, <2>1, <2>2, OneMoves
<1>3. CASE RecordEvent(r)
  BY <1>2, <1>3 DEF RecordEvent, veridian, At
<1>4. CASE r \in Checks /\ (CheckStarts(r) \/ CheckIdent(r) \/ CheckList(r) \/ CheckPrior(r))
  BY <1>2, <1>4 DEF CheckStarts, CheckRead, CheckIdent, CheckList, CheckPrior, veridian
<1>5. CASE r \in Checks /\ CheckRow(r)
  BY <1>2, <1>5 DEF CheckRow, veridian
<1>6. CASE r \in Checks /\ CheckAgent(r)
  <2>1. Issued # {}
    BY <1>6 DEF IInv, ReqOK, CheckOK, CheckAgent, At
  <2>2. /\ UNCHANGED <<deployed, offered, accepted, rows, announced>>
        /\ (agent.exists /\ Verify(r)) \/ UNCHANGED agent
    BY <1>6, Zenon DEF CheckAgent, veridian
  <2> QED
    BY <1>2, <2>1, <2>2
<1>7. CASE r \in Reconciles /\ (ReconcileRead(r) \/ ReconcileList(r) \/ ReconcileFails(r))
  BY <1>2, <1>7 DEF ReconcileRead, ReconcileList, ReconcileFails, veridian
<1>8. CASE r \in Reconciles /\ ReconcileRow(r)
  BY <1>2, <1>8 DEF ReconcileRow, veridian
<1>9. CASE r \in Reconciles /\ ReconcileAgent(r)
  <2>1. Issued # {}
    BY <1>9 DEF IInv, ReqOK, ReconcileOK, ReconcileAgent, At
  <2>2. /\ UNCHANGED <<deployed, offered, accepted, rows, announced>>
        /\ (agent.exists /\ Verify(r)) \/ UNCHANGED agent
    BY <1>9, Zenon DEF ReconcileAgent, veridian
  <2> QED
    BY <1>2, <2>1, <2>2
<1>10. CASE (r \in Verifies /\ (VerifyRead(r) \/ VerifyList(r))) \/ Dies(r)
  BY <1>2, <1>10 DEF VerifyRead, VerifyList, Dies, veridian
<1>11. CASE r \in Verifies /\ VerifyAgent(r)
  <2>1. Issued # {}
    BY <1>11 DEF IInv, ReqOK, VerifyOK, VerifyAgent, At
  <2>2. /\ UNCHANGED <<deployed, offered, accepted, rows, announced>>
        /\ (agent.exists /\ Verify(r)) \/ UNCHANGED agent
    BY <1>11, Zenon DEF VerifyAgent, veridian
  <2> QED
    BY <1>2, <2>1, <2>2
<1> QED
  BY <1>3, <1>4, <1>5, <1>6, <1>7, <1>8, <1>9, <1>10, <1>11
  DEF CheckGoesOn, ReconcileGoesOn, VerifyGoesOn

LEMMA FollowersOrdered ==
  ASSUME IInv, Ordered, NEW r \in Requests \ Issues,
         \/ r \in Checks /\ (CheckStarts(r) \/ CheckGoesOn(r))
         \/ r \in Reconciles /\ (ReconcileRead(r) \/ ReconcileGoesOn(r) \/ ReconcileFails(r))
         \/ r \in Verifies /\ (VerifyRead(r) \/ VerifyGoesOn(r))
         \/ Dies(r)
  PROVE  Ordered'
<1>1. /\ Types /\ DOMAIN req = Requests /\ r \in Requests /\ agent \in AgentRecords
      /\ rows \in [Issues -> RowRecords]
  BY DEF IInv, Types
<1>2. UNCHANGED offered /\ \A q \in Requests \ {r} : req'[q] = req[q]
  BY FollowerMoves
<1>3. agent.verified => agent'.verified
  BY <1>1, FollowerMoves DEF Verify, AgentRecords
<1>4. \A q \in Issues : rows'[q].status # None => rows[q].status # None
  <2>1. CASE UNCHANGED rows
    BY <2>1
  <2>2. CASE r \in Checks \cup Reconciles /\ At(r, "row")
             /\ rows' = [rows EXCEPT ![req[r].row] = Resolved(req[r].cred)]
    <3>1. rows[req[r].row].status # None
      BY <2>2, VerificationAssumption DEF At, IInv, ReqOK, RowOK, Pending, Issued
    <3> QED
      BY <1>1, <2>2, <3>1
  <2> QED
    BY <2>1, <2>2, FollowerMoves
<1>5. req'[r] = req[r] \/ (req'[r].pc = "event" => agent'.verified)
  <2>1. CASE End(r)
    BY <1>1, <2>1, Ends
  <2>2. CASE Goto(r, "event") /\ Verify(r)
    BY <1>1, <2>2 DEF Verify, AgentRecords
  <2>3. CASE req'[r].pc # "event"
    BY <2>3
  <2>4. \A c \in {"prior", "agent", "list"} : Goto(r, c) => req'[r].pc # "event"
    BY <1>1, Gone DEF PCs
  <2>5. ASSUME NEW i, req' = SkipRow(r, i)
        PROVE  req'[r].pc # "event"
    BY <1>1, <2>5 DEF SkipRow, Types, ReqRecords
  <2>6. CASE r \in Checks /\ (CheckStarts(r) \/ CheckGoesOn(r))
    <3>1. CASE CheckStarts(r) \/ CheckIdent(r) \/ CheckPrior(r)
      <4>1. req[r] \in ReqRecords
        BY <1>1 DEF Types
      <4>2. CASE CheckStarts(r)
        BY <1>1, <4>1, <4>2 DEF CheckStarts, CheckRead, ReqRecords
      <4>3. CASE CheckIdent(r)
        BY <1>1, <4>1, <4>3 DEF CheckIdent, ReqRecords
      <4>4. CASE CheckPrior(r)
        BY <1>1, <4>1, <4>4 DEF CheckPrior, ReqRecords
      <4> QED
        BY <3>1, <4>2, <4>3, <4>4
    <3>2. CASE CheckList(r)
      BY <1>1, <2>1, <2>3, <3>2 DEF CheckList, Found, Types, ReqRecords
    <3>3. CASE CheckRow(r)
      BY <2>1, <2>3, <2>4, <3>3 DEF CheckRow
    <3>4. CASE CheckAgent(r)
      BY <2>1, <2>2, <3>4, Zenon DEF CheckAgent
    <3> QED
      BY <2>1, <2>6, <3>1, <3>2, <3>3, <3>4 DEF CheckGoesOn, RecordEvent
  <2>7. CASE r \in Reconciles /\ (ReconcileRead(r) \/ ReconcileGoesOn(r) \/ ReconcileFails(r))
    <3>1. CASE ReconcileRead(r)
      BY <1>1, <2>3, <3>1 DEF ReconcileRead, Types, ReqRecords
    <3>2. CASE ReconcileList(r) /\ ~End(r)
      <4>1. PICK i \in req[r].todo :
              req' = IF Matching(r) = {} THEN SkipRow(r, i)
                     ELSE [SkipRow(r, i) EXCEPT ![r].pc = "row", ![r].row = i,
                                              ![r].cred = Latest(Matching(r))]
        BY <3>2 DEF ReconcileList
      <4>2. CASE Matching(r) # {}
        BY <1>1, <2>3, <4>1, <4>2 DEF SkipRow, Types, ReqRecords
      <4> QED
        BY <2>3, <2>5, <4>1, <4>2
    <3>3. CASE ReconcileRow(r)
      BY <2>3, <2>4, <3>3 DEF ReconcileRow
    <3>4. CASE ReconcileAgent(r)
      BY <2>2, <2>3, <2>4, <3>4, Zenon DEF ReconcileAgent
    <3>5. CASE ReconcileFails(r)
      BY <2>3, <2>4, <2>5, <3>5 DEF ReconcileFails
    <3> QED
      BY <2>1, <2>7, <3>1, <3>2, <3>3, <3>4, <3>5 DEF ReconcileGoesOn, RecordEvent
  <2>8. CASE r \in Verifies /\ (VerifyRead(r) \/ VerifyGoesOn(r))
    <3>1. CASE VerifyRead(r)
      BY <2>3, <2>4, <3>1 DEF VerifyRead
    <3>2. CASE VerifyList(r)
      BY <1>1, <2>1, <2>3, <3>2 DEF VerifyList, Types, ReqRecords
    <3>3. CASE VerifyAgent(r)
      BY <2>1, <2>2, <3>3, Zenon DEF VerifyAgent
    <3> QED
      BY <2>1, <2>8, <3>1, <3>2, <3>3 DEF VerifyGoesOn, RecordEvent
  <2> QED
    BY <2>1, <2>6, <2>7, <2>8 DEF Dies
<1> QED
  BY <1>1, <1>2, <1>3, <1>4, <1>5, StaysOrdered

LEMMA StepOrdered ==
  ASSUME IInv, Ordered, [Next]_vars
  PROVE  Ordered'
<1>1. CASE UNCHANGED vars
  BY <1>1 DEF vars, veridian, Ordered
<1>2. ASSUME NEW r \in Issues, Dies(r)
      PROVE  Ordered'
  <2>1. r \in Requests /\ Types
    BY DEF Requests, IInv
  <2>2. UNCHANGED <<agent, rows, offered>> /\ End(r)
    BY <1>2 DEF Dies, veridian
  <2>3. req'[r].pc = "done" /\ \A q \in Requests \ {r} : req'[q] = req[q]
    BY <2>1, <2>2, Ends
  <2> QED
    BY <2>2, <2>3, StaysOrdered
<1>3. Checks \cup Reconciles \cup Verifies \subseteq Requests \ Issues
  BY Kinds DEF Requests
<1> QED
  BY <1>1, <1>2, <1>3, WorldOrdered, IssueOrdered, FollowersOrdered DEF Next

(* A step that shows nothing to who only looks at what is promised.        *)
LEMMA Stutters ==
  ASSUME UNCHANGED <<offered, accepted>>, Issued' = Issued,
         agent'.exists = agent.exists, agent'.verified = agent.verified,
         deployed' = deployed, announced' = announced
  PROVE  UNCHANGED Promise!vars
BY DEF Promise!vars

(* The first secret that is deployed proves the endpoint, a deletion is    *)
(* the agent's leave, and a credential is accepted.                        *)
LEMMA WorldPromise ==
  ASSUME IInv, Proven, World
  PROVE  [Promise!Next]_(Promise!vars)
<1>1. /\ agent \in AgentRecords /\ agent.secret \in Nat /\ deployed \in Nat
      /\ deployed <= agent.secret
  BY VerificationAssumption DEF IInv, Types, AgentRecords, Proven
<1>2. UNCHANGED <<rows, offered, announced>> /\ Issued' = Issued
  BY DEF World, KycChanges, AgentDeregistered, AgentDeleted, SecretDeployed, RefreshChallenge,
         HolderAccepts, veridian, Issued
<1>3. CASE KycChanges
  BY <1>2, <1>3, Stutters DEF KycChanges, veridian
<1>4. CASE AgentDeregistered \/ RefreshChallenge
  <2>1. /\ agent'.exists = agent.exists /\ agent'.verified = agent.verified
        /\ UNCHANGED <<accepted, deployed>>
    BY <1>1, <1>4 DEF AgentDeregistered, RefreshChallenge, AgentRecords, veridian
  <2> QED
    BY <1>2, <2>1, Stutters
<1>5. CASE AgentDeleted
  <2>1. /\ agent.exists /\ agent'.exists = FALSE /\ agent'.verified = agent.verified
        /\ UNCHANGED <<accepted, deployed>>
    BY <1>1, <1>5 DEF AgentDeleted, AgentRecords, veridian
  <2>2. Promise!Leave
    BY <1>2, <2>1 DEF Promise!Leave
  <2> QED
    BY <2>2 DEF Promise!Next
<1>6. CASE SecretDeployed
  <2>1. deployed' # 0 /\ UNCHANGED <<agent, accepted>>
    BY <1>1, <1>6 DEF SecretDeployed, veridian
  <2>2. CASE deployed = 0
    <3>1. Promise!Prove
      BY <1>2, <2>1, <2>2 DEF Promise!Prove
    <3> QED
      BY <3>1 DEF Promise!Next
  <2>3. CASE deployed # 0
    BY <1>2, <2>1, <2>3 DEF Promise!vars
  <2> QED
    BY <2>2, <2>3
<1>7. ASSUME NEW c \in Issues, HolderAccepts(c)
      PROVE  Promise!Next
  <2>1. c \in Range(offered) \ accepted /\ accepted' = accepted \cup {c}
        /\ UNCHANGED <<agent, deployed>>
    BY <1>7 DEF HolderAccepts
  <2>2. Promise!Accept(c)
    BY <1>2, <2>1 DEF Promise!Accept
  <2> QED
    BY <2>2 DEF Promise!Next
<1> QED
  BY <1>3, <1>4, <1>5, <1>6, <1>7 DEF World

(* A credential is offered after the endpoint has answered.                *)
LEMMA IssuePromise ==
  ASSUME IInv, Proven, NEW r \in Issues, Issue(r)
  PROVE  [Promise!Next]_(Promise!vars)
<1>1. /\ rows \in [Issues -> RowRecords] /\ offered \in Seq(Issues) /\ deployed \in Nat
      /\ IssueOK(r) /\ req[r].secret \in Nat
  BY VerificationAssumption DEF IInv, Types, ReqOK, Requests, ReqRecords
<1>2. UNCHANGED <<agent, deployed, accepted, announced>>
  BY DEF Issue, IssueKyc, IssueAgent, IssueFetch, IssueOffer, IssueRow, veridian
<1>3. CASE IssueOffer(r)
  <2>1. /\ req[r].pc = "offer" /\ offered' = Append(offered, r) /\ UNCHANGED rows
    BY <1>3 DEF IssueOffer, At
  <2>2. r \notin Range(offered) /\ deployed # 0
    BY <1>1, <2>1 DEF IssueOK, Proven
  <2>3. Range(offered') = Range(offered) \cup {r}
    <3>1. /\ DOMAIN offered' = 1 .. (Len(offered) + 1) /\ DOMAIN offered = 1 .. Len(offered)
          /\ offered'[Len(offered) + 1] = r /\ Len(offered) \in Nat
          /\ \A i \in 1 .. Len(offered) : offered'[i] = offered[i]
      BY <1>1, <2>1
    <3> QED
      BY <3>1 DEF Range
  <2>4. Issued' = Issued
    BY <2>1 DEF Issued
  <2>5. Promise!Offer(r)
    BY <1>2, <2>2, <2>3, <2>4 DEF Promise!Offer
  <2> QED
    BY <2>5 DEF Promise!Next
<1>4. CASE IssueRow(r)
  <2>1. rows[r].status = None /\ UNCHANGED offered
        /\ (rows' = rows \/ rows' = [rows EXCEPT ![r].status = "PENDING"])
    BY <1>1, <1>4 DEF IssueRow, At, IssueOK, veridian
  <2>2. Issued' = Issued
    BY <1>1, <2>1, VerificationAssumption DEF Issued, RowRecords
  <2> QED
    BY <1>2, <2>1, <2>2, Stutters
<1>5. CASE IssueKyc(r) \/ IssueAgent(r) \/ IssueFetch(r)
  <2>1. UNCHANGED <<rows, offered>>
    BY <1>5 DEF IssueKyc, IssueAgent, IssueFetch, veridian
  <2> QED
    BY <1>2, <2>1, Stutters DEF Issued
<1> QED
  BY <1>3, <1>4, <1>5 DEF Issue

(* A row is resolved, the agent VERIFIED, the verification announced.      *)
LEMMA FollowersPromise ==
  ASSUME IInv, Ordered, NEW r \in Requests \ Issues,
         \/ r \in Checks /\ (CheckStarts(r) \/ CheckGoesOn(r))
         \/ r \in Reconciles /\ (ReconcileRead(r) \/ ReconcileGoesOn(r) \/ ReconcileFails(r))
         \/ r \in Verifies /\ (VerifyRead(r) \/ VerifyGoesOn(r))
         \/ Dies(r)
  PROVE  [Promise!Next]_(Promise!vars)
<1>1. /\ agent \in AgentRecords /\ rows \in [Issues -> RowRecords] /\ r \in Requests
      /\ announced \in Nat
  BY DEF IInv, Types, EventCap
<1>2. UNCHANGED <<deployed, offered, accepted>>
  BY FollowerMoves
<1>3. CASE UNCHANGED <<agent, rows, announced>>
  BY <1>2, <1>3, Stutters DEF Issued
<1>4. CASE Verify(r) /\ agent.exists /\ Issued # {} /\ UNCHANGED <<rows, announced>>
  <2>1. agent'.exists = agent.exists /\ agent'.verified = TRUE /\ Issued' = Issued
    BY <1>1, <1>4 DEF Verify, AgentRecords, Issued
  <2>2. CASE agent.verified
    BY <1>1, <1>2, <1>4, <2>1, <2>2, Stutters DEF AgentRecords
  <2>3. CASE ~agent.verified
    <3>1. Promise!Verify
      BY <1>2, <1>4, <2>1, <2>3 DEF Promise!Verify
    <3> QED
      BY <3>1 DEF Promise!Next
  <2> QED
    BY <2>2, <2>3
<1>5. CASE /\ r \in Checks \cup Reconciles /\ At(r, "row")
           /\ rows' = [rows EXCEPT ![req[r].row] = Resolved(req[r].cred)]
           /\ UNCHANGED <<agent, announced>>
  <2> DEFINE i == req[r].row
  <2>1. /\ i \in Pending \cup Issued /\ i \in Issues
        /\ agent.exists => accepted # {}
    BY <1>1, <1>5 DEF At, IInv, ReqOK, RowOK, Pending, Issued
  <2>2. i \in Range(offered)
    BY <2>1, VerificationAssumption DEF Ordered, Pending, Issued
  <2> HIDE DEF i
  <2>3. Issued' = Issued \cup {i}
    BY <1>1, <1>5, <2>1 DEF Issued, Resolved, i
  <2>4. CASE i \in Issued
    <3>1. Issued' = Issued
      BY <2>3, <2>4
    <3> QED
      BY <1>2, <1>5, <3>1, Stutters
  <2>5. CASE i \notin Issued
    <3>1. Promise!Resolve(i)
      BY <1>2, <1>5, <2>1, <2>2, <2>3, <2>5 DEF Promise!Resolve
    <3> QED
      BY <2>1, <3>1 DEF Promise!Next
  <2> QED
    BY <2>4, <2>5
<1>6. CASE At(r, "event") /\ RecordEvent(r) /\ UNCHANGED <<agent, rows>>
  <2>1. agent.verified
    BY <1>1, <1>6 DEF Ordered, At
  <2>2. announced' = IF agent.exists /\ announced < EventCap THEN announced + 1 ELSE announced
    BY <1>6 DEF RecordEvent
  <2>3. CASE announced' = announced
    BY <1>2, <1>6, <2>3, Stutters DEF Issued
  <2>4. CASE announced > 0 /\ announced' = announced + 1
    <3>1. (announced' > 0) = (announced > 0)
      BY <1>1, <2>4
    <3>2. Issued' = Issued
      BY <1>6 DEF Issued
    <3> QED
      BY <1>2, <1>6, <3>1, <3>2 DEF Promise!vars
  <2>5. CASE ~(announced > 0) /\ announced' = announced + 1 /\ agent.exists
    <3>1. announced' > 0
      BY <1>1, <2>5
    <3>2. Issued' = Issued
      BY <1>6 DEF Issued
    <3>3. Promise!Announce
      BY <1>2, <1>6, <2>1, <2>5, <3>1, <3>2 DEF Promise!Announce
    <3> QED
      BY <3>3 DEF Promise!Next
  <2> QED
    BY <2>2, <2>3, <2>4, <2>5
<1> QED
  BY <1>3, <1>4, <1>5, <1>6, FollowerMoves

(* Statement by statement and between each other's calls, the requests do  *)
(* what VerifiedAgent promises: the endpoint proves itself before a        *)
(* credential is offered, which is accepted before a row is resolved,      *)
(* which is before the agent is VERIFIED, which is before it is announced; *)
(* and no step is undone.                                                  *)
THEOREM VerificationKeepsPromise == Spec => KeepsPromise
<1>1. Init => Proven /\ Ordered /\ Promise!Init
  <2> SUFFICES ASSUME Init
               PROVE  Proven /\ Ordered /\ Promise!Init
    OBVIOUS
  <2>1. Pending = {} /\ Issued = {} /\ \A r \in Issues : rows[r].status = None
    BY VerificationAssumption DEF Init, NoRow, Pending, Issued
  <2>2. /\ deployed = 0 /\ agent.secret = 0 /\ agent.exists = TRUE /\ agent.verified = FALSE
        /\ announced = 0 /\ accepted = {} /\ Range(offered) = {}
        /\ \A r \in Requests : req[r].pc = "idle"
    BY DEF Init, Idle, Range
  <2>3. Proven /\ Ordered
    BY <2>1, <2>2 DEF Proven, Ordered, Requests
  <2>4. Promise!Init
    BY <2>1, <2>2 DEF Promise!Init
  <2> QED
    BY <2>3, <2>4
<1>2. IInv /\ Proven /\ Ordered /\ [Next]_vars => Proven' /\ Ordered'
  BY StepProven, StepOrdered
<1>3. IInv /\ Proven /\ Ordered /\ [Next]_vars => [Promise!Next]_(Promise!vars)
  <2> SUFFICES ASSUME IInv, Proven, Ordered, [Next]_vars
               PROVE  [Promise!Next]_(Promise!vars)
    OBVIOUS
  <2>1. CASE UNCHANGED vars
    BY <2>1, Stutters DEF vars, veridian, Issued
  <2>2. ASSUME NEW r \in Issues, Dies(r)
        PROVE  [Promise!Next]_(Promise!vars)
    BY <2>2, Stutters DEF Dies, veridian, Issued
  <2>3. Checks \cup Reconciles \cup Verifies \subseteq Requests \ Issues
    BY Kinds DEF Requests
  <2> QED
    BY <2>1, <2>2, <2>3, WorldPromise, IssuePromise, FollowersPromise DEF Next
<1> QED
  BY <1>1, <1>2, <1>3, Invariant, PTL DEF Spec, KeepsPromise, Promise!Spec

------------------------------------------------------------------------------
(* The KYC status: what the processes know where they are.                 *)
Answers == {"GREEN", "RED"}
KycRecords == [pc : {"idle", "submit", "submitted", "ask", "answer", "hook"},
               row : Kyc!Creators \cup {None}, answer : Answers \cup {None}, hook : Nat,
               settled : BOOLEAN]

KycTypes ==
  /\ answers \in Seq(Answers) /\ Len(answers) <= MaxAnswers
  /\ open \in BOOLEAN /\ (answers = <<>> => open)
  /\ webhooks \subseteq 1 .. Len(answers)
  /\ link \in Kyc!Creators \cup {None}
  /\ status \in [Kyc!Creators -> Kyc!Statuses \cup {None}]
  /\ submits \in 0 .. MaxSubmits /\ kycFaults \in 0 .. MaxKycFaults
  /\ kycReq \in [Kyc!Processes -> KycRecords]

Linked == link # None => status[link] # None

(* A poll has found a row; what a process was answered Sumsub has said.    *)
ProcessOK(p) ==
  /\ kycReq[p].row # None => status[kycReq[p].row] # None
  /\ p \in Submits => kycReq[p].pc \in {"idle", "submit", "submitted"}
  /\ p \in Polls => /\ kycReq[p].pc \in {"idle", "ask", "answer"}
                    /\ kycReq[p].pc # "idle" => kycReq[p].row # None
  /\ p \in Hooks => kycReq[p].pc \in {"idle", "hook"}
  /\ kycReq[p].answer # None => \E n \in 1 .. Len(answers) : answers[n] = kycReq[p].answer

Said ==
  \A p \in Kyc!Creators :
    /\ status[p] = "APPROVED" => \E n \in 1 .. Len(answers) : answers[n] = "GREEN"
    /\ status[p] = "REJECTED" => \E n \in 1 .. Len(answers) : answers[n] = "RED"

KycInv == KycTypes /\ Linked /\ Said /\ \A p \in Kyc!Processes : ProcessOK(p)

(* Sumsub forgets no answer, and no row goes away.                         *)
KycMonotone ==
  /\ \A a : (\E n \in 1 .. Len(answers) : answers[n] = a)
            => \E n \in 1 .. Len(answers') : answers'[n] = a
  /\ \A p \in Kyc!Creators : status[p] # None => status'[p] # None

LEMMA KycOthers ==
  ASSUME KycTypes, NEW p \in Kyc!Processes, ProcessOK(p), KycMonotone, kycReq'[p] = kycReq[p]
  PROVE  ProcessOK(p)'
<1>1. kycReq[p].row \in Kyc!Creators \cup {None}
  BY DEF KycTypes, KycRecords
<1> QED
  BY <1>1 DEF ProcessOK, KycMonotone

LEMMA KycKinds ==
  /\ \A p \in Submits : p \notin Polls /\ p \notin Hooks
  /\ \A p \in Polls : p \notin Submits /\ p \notin Hooks
  /\ \A p \in Hooks : p \notin Submits /\ p \notin Polls
  /\ {MaxAnswers, MaxSubmits, MaxKycFaults} \subseteq Nat
  /\ None \notin Answers \cup Kyc!Statuses \cup Kyc!Creators
BY KycAssumption DEF Kyc!KycAssumption, Answers, Kyc!Statuses, Kyc!Final, Kyc!Creators

(* A step of process p.                                                    *)
LEMMA KycMoves ==
  ASSUME KycInv, NEW p \in Kyc!Processes, NEW x \in KycRecords, kycReq' = [kycReq EXCEPT ![p] = x],
         answers' \in Seq(Answers), Len(answers') <= MaxAnswers,
         open' \in BOOLEAN, answers' = <<>> => open', webhooks' \subseteq 1 .. Len(answers'),
         link' \in Kyc!Creators \cup {None},
         status' \in [Kyc!Creators -> Kyc!Statuses \cup {None}],
         submits' \in 0 .. MaxSubmits, kycFaults' \in 0 .. MaxKycFaults,
         Linked', Said', KycMonotone, kycReq'[p] = x => ProcessOK(p)'
  PROVE  KycInv'
<1>1. /\ kycReq' \in [Kyc!Processes -> KycRecords] /\ kycReq'[p] = x
      /\ \A q \in Kyc!Processes \ {p} : kycReq'[q] = kycReq[q]
  BY DEF KycInv, KycTypes
<1>2. KycTypes'
  BY <1>1 DEF KycTypes
<1> QED
  BY <1>1, <1>2, KycOthers DEF KycInv

(* Process p only reads, or ends.                                          *)
LEMMA KycReads ==
  ASSUME KycInv, NEW p \in Kyc!Processes, NEW x \in KycRecords, kycReq' = [kycReq EXCEPT ![p] = x],
         UNCHANGED <<answers, open, webhooks, link, status>>,
         submits' \in 0 .. MaxSubmits, kycFaults' \in 0 .. MaxKycFaults,
         x.row \in {None, link, kycReq[p].row},
         x.answer # None => \E n \in 1 .. Len(answers) : answers[n] = x.answer,
         p \in Submits => x.pc \in {"idle", "submit", "submitted"},
         p \in Polls => x.pc \in {"idle", "ask", "answer"} /\ (x.pc # "idle" => x.row # None),
         p \in Hooks => x.pc \in {"idle", "hook"}
  PROVE  KycInv'
<1>1. ProcessOK(p) /\ Linked /\ Said
  BY DEF KycInv
<1>2. kycReq'[p] = x => ProcessOK(p)'
  BY <1>1 DEF ProcessOK, Linked
<1>3. Linked' /\ Said' /\ KycMonotone
  BY <1>1 DEF Linked, Said, KycMonotone
<1> QED
  BY <1>2, <1>3, KycMoves DEF KycInv, KycTypes

LEMMA KycIdle ==
  /\ Kyc!Idle \in KycRecords /\ Kyc!Idle.row = None /\ Kyc!Idle.answer = None
  /\ Kyc!Idle.pc = "idle"
BY DEF Kyc!Idle, KycRecords

(* A process that ends.                                                    *)
LEMMA KycEnds ==
  ASSUME KycInv, NEW p \in Kyc!Processes, Kyc!End(p),
         UNCHANGED <<answers, open, webhooks, link, status>>,
         submits' \in 0 .. MaxSubmits, kycFaults' \in 0 .. MaxKycFaults
  PROVE  KycInv'
BY KycReads, KycIdle DEF Kyc!End

(* A process writes what its answer says, or REVIEW.                       *)
LEMMA KycWrites ==
  ASSUME KycInv, NEW p \in Kyc!Processes, NEW s \in Kyc!Statuses, Kyc!Write(p, s),
         kycReq[p].row = None => p \in Kyc!Creators,
         s = "APPROVED" => \E n \in 1 .. Len(answers) : answers[n] = "GREEN",
         s = "REJECTED" => \E n \in 1 .. Len(answers) : answers[n] = "RED",
         answers' = answers
  PROVE  /\ link' \in Kyc!Creators \cup {None}
         /\ status' \in [Kyc!Creators -> Kyc!Statuses \cup {None}]
         /\ Linked' /\ Said' /\ KycMonotone
         /\ kycReq[p].row # None => status'[kycReq[p].row] # None
<1> DEFINE q == IF kycReq[p].row = None THEN p ELSE kycReq[p].row
<1>1. /\ kycReq[p].row \in Kyc!Creators \cup {None} /\ ProcessOK(p) /\ Linked /\ Said
      /\ link \in Kyc!Creators \cup {None} /\ status \in [Kyc!Creators -> Kyc!Statuses \cup {None}]
  BY DEF KycInv, KycTypes, KycRecords
<1>2. q \in Kyc!Creators
  BY <1>1
<1>3. status' = [status EXCEPT ![q] = s] /\ link' \in {link, q}
  BY DEF Kyc!Write
<1>4. kycReq[p].row # None => q = kycReq[p].row
  OBVIOUS
<1> HIDE DEF q
<1>5. /\ status'[q] = s /\ \A c \in Kyc!Creators \ {q} : status'[c] = status[c]
      /\ status' \in [Kyc!Creators -> Kyc!Statuses \cup {None}]
  BY <1>1, <1>2, <1>3
<1>6. s # None
  BY KycKinds
<1> QED
  BY <1>1, <1>2, <1>3, <1>4, <1>5, <1>6 DEF Linked, Said, KycMonotone

------------------------------------------------------------------------------
(* Sumsub's own steps.                                                     *)
LEMMA SumsubSteps ==
  ASSUME KycInv,
         \/ \E a \in Answers : Kyc!Review(a)
         \/ Kyc!SubmitAgain
         \/ \E n \in webhooks : Kyc!HookExpires(n)
  PROVE  KycInv'
<1>1. /\ UNCHANGED <<link, status, kycReq, submits>>
      /\ kycFaults' \in 0 .. MaxKycFaults
  BY KycKinds
  DEF Kyc!Review, Kyc!SubmitAgain, Kyc!HookExpires, Kyc!rows, Kyc!Fault, KycInv, KycTypes
<1>2. answers \in Seq(Answers) /\ Len(answers) \in Nat /\ MaxAnswers \in Nat
      /\ webhooks \subseteq 1 .. Len(answers)
  BY KycKinds DEF KycInv, KycTypes
<1>3. /\ answers' \in Seq(Answers) /\ Len(answers') <= MaxAnswers
      /\ open' \in BOOLEAN /\ (answers' = <<>> => open') /\ webhooks' \subseteq 1 .. Len(answers')
      /\ Len(answers) <= Len(answers')
      /\ \A n \in 1 .. Len(answers) : answers'[n] = answers[n]
  <2>1. CASE \E a \in Answers : Kyc!Review(a)
    <3>1. PICK a \in Answers : Kyc!Review(a)
      BY <2>1
    <3>2. /\ answers' = Append(answers, a) /\ open' = FALSE /\ Len(answers) < MaxAnswers
          /\ webhooks' = webhooks \cup {Len(answers) + 1}
      BY <3>1 DEF Kyc!Review
    <3>3. /\ answers' \in Seq(Answers) /\ Len(answers') = Len(answers) + 1
          /\ \A n \in 1 .. Len(answers) : answers'[n] = answers[n]
      BY <1>2, <3>2
    <3>4. answers' # <<>>
      <4>1. Len(answers') # 0
        BY <1>2, <3>3
      <4>2. Len(<<>>) = 0
        OBVIOUS
      <4> QED
        BY <4>1, <4>2
    <3>5. webhooks' \subseteq 1 .. Len(answers') /\ Len(answers') <= MaxAnswers
      <4> DEFINE n == Len(answers)
      <4>1. n \in Nat /\ n < MaxAnswers /\ Len(answers') = n + 1
            /\ webhooks \subseteq 1 .. n /\ webhooks' = webhooks \cup {n + 1}
        BY <1>2, <3>2, <3>3
      <4> HIDE DEF n
      <4>2. 1 .. n \subseteq 1 .. (n + 1) /\ n + 1 \in 1 .. (n + 1)
        BY <4>1
      <4>3. webhooks' \subseteq 1 .. (n + 1)
        BY <4>1, <4>2
      <4>4. n + 1 <= MaxAnswers
        BY <1>2, <4>1
      <4> QED
        BY <4>1, <4>3, <4>4
    <3>6. Len(answers) <= Len(answers')
      BY <1>2, <3>3
    <3>7. open' = FALSE
      BY <3>2
    <3> QED
      BY <3>3, <3>4, <3>5, <3>6, <3>7
  <2>2. CASE Kyc!SubmitAgain
    BY <1>2, <2>2 DEF Kyc!SubmitAgain, KycInv, KycTypes
  <2>3. CASE \E n \in webhooks : Kyc!HookExpires(n)
    BY <1>2, <2>3 DEF Kyc!HookExpires, KycInv, KycTypes
  <2> QED
    BY <2>1, <2>2, <2>3
<1>4. \A a : (\E n \in 1 .. Len(answers) : answers[n] = a)
             => \E n \in 1 .. Len(answers') : answers'[n] = a
  <2>1. 1 .. Len(answers) \subseteq 1 .. Len(answers')
    BY <1>2, <1>3
  <2> QED
    BY <1>3, <2>1
<1>5. KycMonotone /\ Linked' /\ Said'
  BY <1>1, <1>4 DEF KycInv, KycMonotone, Linked, Said
<1>6. \A p \in Kyc!Processes : ProcessOK(p)'
  BY <1>1, <1>5, KycOthers DEF KycInv
<1>7. KycTypes'
  BY <1>1, <1>3 DEF KycInv, KycTypes
<1> QED
  BY <1>5, <1>6, <1>7 DEF KycInv

------------------------------------------------------------------------------
(* What a review is turned into.                                           *)
LEMMA Parsed ==
  ASSUME NEW a \in Answers \cup {None}
  PROVE  /\ Kyc!ParseReviewResult(a) \in Kyc!Statuses
         /\ Kyc!ParseReviewResult(a) = "APPROVED" => a = "GREEN"
         /\ Kyc!ParseReviewResult(a) = "REJECTED" => a = "RED"
<1>1. a = "GREEN" \/ a = "RED" \/ (a # "GREEN" /\ a # "RED")
  OBVIOUS
<1> QED
  BY <1>1 DEF Kyc!ParseReviewResult, Kyc!Statuses, Kyc!Final

LEMMA SubmitSteps ==
  ASSUME KycInv, NEW p \in Submits, Kyc!Submit(p)
  PROVE  KycInv'
<1>1. /\ p \in Kyc!Processes /\ p \in Kyc!Creators /\ p \notin Polls /\ p \notin Hooks
      /\ kycReq[p] \in KycRecords /\ ProcessOK(p) /\ KycTypes
      /\ MaxSubmits \in Nat
  BY KycKinds DEF Kyc!Processes, Kyc!Creators, KycInv, KycTypes
<1>2. CASE Kyc!SubmitRead(p)
  <2> DEFINE x == [Kyc!Idle EXCEPT !.pc = "submit", !.row = link, !.settled = ~open]
  <2>1. x \in KycRecords /\ x.pc = "submit" /\ x.row = link /\ x.answer = None
    BY <1>1 DEF Kyc!Idle, KycRecords, KycTypes
  <2>2. /\ kycReq' = [kycReq EXCEPT ![p] = x]
        /\ UNCHANGED <<answers, open, webhooks, link, status, kycFaults>>
        /\ submits' \in 0 .. MaxSubmits
    BY <1>1, <1>2 DEF Kyc!SubmitRead, Kyc!sumsub, Kyc!rows, KycTypes
  <2> HIDE DEF x
  <2> QED
    BY <1>1, <2>1, <2>2, KycReads DEF KycTypes
<1>3. CASE Kyc!SubmitWrite(p)
  <2> DEFINE x == [kycReq[p] EXCEPT !.pc = "submitted"]
  <2>1. x \in KycRecords /\ x.pc = "submitted" /\ x.row = kycReq[p].row /\ x.answer = kycReq[p].answer
    BY <1>1 DEF KycRecords
  <2>2. /\ kycReq' = [kycReq EXCEPT ![p] = x] /\ Kyc!Write(p, "REVIEW")
        /\ UNCHANGED <<answers, open, webhooks, submits, kycFaults>>
    BY <1>3 DEF Kyc!SubmitWrite, Kyc!sumsub
  <2> HIDE DEF x
  <2>3. "REVIEW" \in Kyc!Statuses
    BY DEF Kyc!Statuses
  <2>4. /\ link' \in Kyc!Creators \cup {None}
        /\ status' \in [Kyc!Creators -> Kyc!Statuses \cup {None}]
        /\ Linked' /\ Said' /\ KycMonotone
        /\ kycReq[p].row # None => status'[kycReq[p].row] # None
    BY <1>1, <2>2, <2>3, KycWrites
  <2>5. kycReq'[p] = x => ProcessOK(p)'
    BY <1>1, <2>1, <2>2, <2>4 DEF ProcessOK
  <2> QED
    BY <1>1, <2>1, <2>2, <2>4, <2>5, KycMoves DEF KycTypes
<1>4. CASE Kyc!SubmitReply(p)
  BY <1>1, <1>4, KycEnds DEF Kyc!SubmitReply, Kyc!sumsub, Kyc!rows, KycTypes
<1> QED
  BY <1>2, <1>3, <1>4 DEF Kyc!Submit

LEMMA PollSteps ==
  ASSUME KycInv, NEW p \in Polls, Kyc!Poll(p)
  PROVE  KycInv'
<1>1. /\ p \in Kyc!Processes /\ p \notin Submits /\ p \notin Hooks
      /\ kycReq[p] \in KycRecords /\ ProcessOK(p) /\ KycTypes
  BY KycKinds DEF Kyc!Processes, KycInv, KycTypes
<1>2. CASE Kyc!PollRead(p)
  <2> DEFINE x == [Kyc!Idle EXCEPT !.pc = "ask", !.row = link]
  <2>1. x \in KycRecords /\ x.pc = "ask" /\ x.row = link /\ x.answer = None /\ link # None
    BY <1>1, <1>2 DEF Kyc!PollRead, Kyc!Asks, Kyc!Idle, KycRecords, KycTypes
  <2>2. /\ kycReq' = [kycReq EXCEPT ![p] = x]
        /\ UNCHANGED <<answers, open, webhooks, link, status, submits, kycFaults>>
    BY <1>2 DEF Kyc!PollRead, Kyc!sumsub, Kyc!rows
  <2> HIDE DEF x
  <2> QED
    BY <1>1, <2>1, <2>2, KycReads DEF KycTypes
<1>3. CASE Kyc!PollAsk(p)
  <2>1. /\ UNCHANGED <<answers, open, webhooks, link, status, submits, kycFaults>>
        /\ kycReq[p].pc = "ask"
    BY <1>3 DEF Kyc!PollAsk, Kyc!At, Kyc!sumsub, Kyc!rows
  <2>2. CASE Kyc!End(p)
    BY <1>1, <2>1, <2>2, KycEnds DEF KycTypes
  <2>3. CASE /\ Kyc!IsVerificationFinal(Kyc!Result)
             /\ kycReq' = [kycReq EXCEPT ![p].pc = "answer", ![p].answer = Kyc!Result]
    <3> DEFINE a == Kyc!Result
               x == [kycReq[p] EXCEPT !.pc = "answer", !.answer = a]
    <3>1. a \in Answers /\ ~open
      BY <2>3, KycKinds DEF Kyc!IsVerificationFinal, Kyc!Result, Answers
    <3>2. /\ answers \in Seq(Answers) /\ answers # <<>> /\ a = answers[Len(answers)]
      BY <1>1, <3>1 DEF KycTypes, Kyc!Result, Kyc!Last
    <3>3. Len(answers) \in 1 .. Len(answers)
      BY <3>2
    <3> HIDE DEF a
    <3>4. x \in KycRecords /\ x.pc = "answer" /\ x.row = kycReq[p].row /\ x.answer = a
      BY <1>1, <3>1 DEF KycRecords
    <3>5. kycReq' = [kycReq EXCEPT ![p] = x]
      BY <2>3 DEF a
    <3> HIDE DEF x
    <3>6. x.row # None
      BY <1>1, <2>1, <3>4 DEF ProcessOK
    <3> QED
      BY <1>1, <2>1, <3>2, <3>3, <3>4, <3>5, <3>6, KycReads DEF KycTypes
  <2> QED
    BY <1>3, <2>2, <2>3 DEF Kyc!PollAsk
<1>4. CASE Kyc!PollWrite(p)
  <2> DEFINE s == Kyc!ParseReviewResult(kycReq[p].answer)
  <2>1. /\ kycReq[p].pc = "answer" /\ Kyc!Write(p, s) /\ Kyc!End(p)
        /\ UNCHANGED <<answers, open, webhooks, submits, kycFaults>>
    BY <1>4 DEF Kyc!PollWrite, Kyc!At, Kyc!sumsub
  <2>2. /\ s \in Kyc!Statuses
        /\ s = "APPROVED" => \E n \in 1 .. Len(answers) : answers[n] = "GREEN"
        /\ s = "REJECTED" => \E n \in 1 .. Len(answers) : answers[n] = "RED"
    <3>1. kycReq[p].answer \in Answers \cup {None} /\ "GREEN" # None /\ "RED" # None
      BY <1>1, KycKinds DEF KycRecords, Answers
    <3> QED
      BY <1>1, <3>1, Parsed DEF ProcessOK
  <2> HIDE DEF s
  <2>3. kycReq[p].row # None
    BY <1>1, <2>1 DEF ProcessOK
  <2>4. /\ link' \in Kyc!Creators \cup {None}
        /\ status' \in [Kyc!Creators -> Kyc!Statuses \cup {None}]
        /\ Linked' /\ Said' /\ KycMonotone
    BY <1>1, <2>1, <2>2, <2>3, KycWrites
  <2>5. kycReq'[p] = Kyc!Idle => ProcessOK(p)'
    BY KycIdle DEF ProcessOK
  <2> QED
    BY <1>1, <2>1, <2>4, <2>5, KycMoves, KycIdle DEF KycTypes, Kyc!End
<1> QED
  BY <1>2, <1>3, <1>4 DEF Kyc!Poll

LEMMA HookSteps ==
  ASSUME KycInv, NEW p \in Hooks, Kyc!HookStarts(p) \/ Kyc!HookWrite(p)
  PROVE  KycInv'
<1>1. /\ p \in Kyc!Processes /\ p \in Kyc!Creators /\ p \notin Submits /\ p \notin Polls
      /\ kycReq[p] \in KycRecords /\ ProcessOK(p) /\ KycTypes
  BY KycKinds DEF Kyc!Processes, Kyc!Creators, KycInv, KycTypes
<1>2. CASE Kyc!HookStarts(p)
  <2>1. PICK n \in webhooks, a \in {"GREEN", "RED", None} : Kyc!HookRead(p, n, a)
    BY <1>2 DEF Kyc!HookStarts
  <2> DEFINE x == [Kyc!Idle EXCEPT !.pc = "hook", !.row = link, !.answer = a, !.hook = n]
  <2>2. n \in 1 .. Len(answers) /\ n \in Nat
    BY <1>1 DEF KycTypes
  <2>3. a # None => a = answers[n]
    BY <2>1 DEF Kyc!HookRead
  <2>4. x \in KycRecords /\ x.pc = "hook" /\ x.row = link /\ x.answer = a
    BY <1>1, <2>2 DEF Kyc!Idle, KycRecords, KycTypes, Answers
  <2>5. /\ kycReq' = [kycReq EXCEPT ![p] = x]
        /\ UNCHANGED <<answers, open, webhooks, link, status, submits, kycFaults>>
    BY <2>1 DEF Kyc!HookRead, Kyc!sumsub, Kyc!rows
  <2> HIDE DEF x
  <2> QED
    BY <1>1, <2>2, <2>3, <2>4, <2>5, KycReads DEF KycTypes
<1>3. CASE Kyc!HookWrite(p)
  <2> DEFINE s == Kyc!ParseReviewResult(kycReq[p].answer)
  <2>1. /\ Kyc!Write(p, s) /\ Kyc!End(p) /\ UNCHANGED <<answers, open, submits>>
        /\ webhooks' \subseteq webhooks
        /\ kycFaults' = kycFaults \/ Kyc!Fault
    BY <1>3 DEF Kyc!HookWrite
  <2>2. /\ s \in Kyc!Statuses
        /\ s = "APPROVED" => \E n \in 1 .. Len(answers) : answers[n] = "GREEN"
        /\ s = "REJECTED" => \E n \in 1 .. Len(answers) : answers[n] = "RED"
    <3>1. kycReq[p].answer \in Answers \cup {None} /\ "GREEN" # None /\ "RED" # None
      BY <1>1, KycKinds DEF KycRecords, Answers
    <3> QED
      BY <1>1, <3>1, Parsed DEF ProcessOK
  <2> HIDE DEF s
  <2>3. /\ link' \in Kyc!Creators \cup {None}
        /\ status' \in [Kyc!Creators -> Kyc!Statuses \cup {None}]
        /\ Linked' /\ Said' /\ KycMonotone
    BY <1>1, <2>1, <2>2, KycWrites
  <2>4. kycReq'[p] = Kyc!Idle => ProcessOK(p)'
    BY KycIdle DEF ProcessOK
  <2>5. kycFaults' \in 0 .. MaxKycFaults /\ webhooks' \subseteq 1 .. Len(answers')
    BY <1>1, <2>1, KycKinds DEF KycTypes, Kyc!Fault
  <2> QED
    BY <1>1, <2>1, <2>3, <2>4, <2>5, KycMoves, KycIdle DEF KycTypes, Kyc!End
<1> QED
  BY <1>2, <1>3

------------------------------------------------------------------------------
LEMMA InitKyc == Kyc!Init => KycInv
<1> SUFFICES ASSUME Kyc!Init
             PROVE  KycInv
  OBVIOUS
<1>1. KycTypes
  BY KycKinds, KycIdle DEF Kyc!Init, KycTypes
<1>2. Linked /\ Said
  BY KycKinds DEF Kyc!Init, Linked, Said, Kyc!Statuses, Kyc!Final
<1>3. ASSUME NEW p \in Kyc!Processes
      PROVE  ProcessOK(p)
  <2>1. kycReq[p] = Kyc!Idle
    BY DEF Kyc!Init
  <2> QED
    BY <2>1, KycIdle DEF ProcessOK
<1> QED
  BY <1>1, <1>2, <1>3 DEF KycInv

LEMMA StepKyc == KycInv /\ [Kyc!Next]_Kyc!vars => KycInv'
<1> SUFFICES ASSUME KycInv, [Kyc!Next]_Kyc!vars
             PROVE  KycInv'
  OBVIOUS
<1>1. CASE UNCHANGED Kyc!vars
  BY <1>1 DEF Kyc!vars, KycInv, KycTypes, Linked, Said, ProcessOK
<1>2. ASSUME NEW p \in Kyc!Processes, Kyc!Dies(p)
      PROVE  KycInv'
  <2>1. kycFaults' \in 0 .. MaxKycFaults
    BY <1>2, KycKinds DEF Kyc!Dies, Kyc!Fault, KycInv, KycTypes
  <2> QED
    BY <1>2, <2>1, KycEnds DEF Kyc!Dies, Kyc!sumsub, Kyc!rows, KycInv, KycTypes
<1> QED
  BY <1>1, <1>2, SumsubSteps, SubmitSteps, PollSteps, HookSteps DEF Kyc!Next, Answers

(* Whatever order submissions, polls and webhooks are applied in, and      *)
(* whichever of them fail or come again, a user is never approved, or      *)
(* rejected, before Sumsub has said so.                                    *)
THEOREM KycIsFromSumsub == Kyc!Spec => []KycInvariant
<1>1. KycInv => KycInvariant
  <2> SUFFICES ASSUME KycInv
               PROVE  KycInvariant
    OBVIOUS
  <2>1. Kyc!TypeOK
    BY DEF KycInv, KycTypes, Linked, ProcessOK, Kyc!TypeOK, Kyc!At, Answers, Kyc!Processes
  <2>2. Kyc!StatusFromSumsub
    BY DEF KycInv, KycTypes, Said, Kyc!StatusFromSumsub, Kyc!Range
  <2> QED
    BY <2>1, <2>2 DEF KycInvariant, Kyc!KycInvariant
<1> QED
  BY <1>1, InitKyc, StepKyc, PTL DEF Kyc!Spec
==============================================================================
