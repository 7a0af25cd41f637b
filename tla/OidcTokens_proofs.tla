-------------------------- MODULE OidcTokens_proofs ---------------------------
(***************************************************************************)
(* Proofs about OidcGrants, for every set of scopes, codes and requests:   *)
(* what is stored is what the client may have, a code gives one token, and *)
(* consents given one at a time are kept; and about OidcRefresh: the       *)
(* tokens of a chain agree on their sid.                                   *)
(***************************************************************************)
EXTENDS OidcTokens, FiniteSetTheorems, TLAPS

FlowRecords == [pc : {"none", "asked", "approved", "gone"}, scope : SUBSET Scopes]
ApprovalRecords == [pc : {"idle", "find", "read", "write", "consent"},
                    flow : Flows \cup {None}, read : SUBSET Allowed]
ExchangeRecords == [pc : {"idle", "delete", "poll", "resolveDevice", "resolve", "create"},
                    flow : Flows \cup {None}, scopes : SUBSET Scopes]

Typed ==
  /\ flow \in [Flows -> FlowRecords]
  /\ approval \in [Approvals -> ApprovalRecords]
  /\ exchange \in [Exchanges -> ExchangeRecords]
  /\ grants \in [Kinds -> SUBSET Allowed]
  /\ tokens \subseteq issued

(* Requests under way have a code.                                         *)
Busy ==
  /\ \A a \in Approvals : approval[a].pc # "idle" => approval[a].flow \in Flows
  /\ \A e \in Exchanges : exchange[e].pc # "idle" => exchange[e].flow \in Flows

(* A request that has taken a code: the code is gone, nobody else has it,  *)
(* and no token was issued for it yet.                                     *)
Taken(e) == exchange[e].pc \in {"resolveDevice", "resolve", "create"}
Exclusive ==
  /\ \A e \in Exchanges : Taken(e) =>
       /\ flow[exchange[e].flow].pc = "gone"
       /\ \A t \in issued : t.flow # exchange[e].flow
       /\ \A d \in Exchanges : Taken(d) /\ exchange[d].flow = exchange[e].flow => d = e
  /\ \A t \in issued : t.flow \in Flows /\ flow[t.flow].pc = "gone"
  /\ OneTokenPerCode

Inv == Typed /\ Busy /\ Exclusive

(* What the schema of the API scopes leaves is what the client may have.   *)
LEMMA SanitizedAllowed == \A scopes : Sanitized(scopes) \subseteq Allowed
BY DEF Sanitized

LEMMA KindsOfFlows == \A f \in Flows : Kind[f] \in Kinds
BY OidcAssumption

(* Fields that are written leave the records what they are.                *)
LEMMA ApprovalChanges ==
  ASSUME NEW x \in ApprovalRecords, NEW pc \in {"idle", "find", "read", "write", "consent"}
  PROVE  /\ [x EXCEPT !.pc = pc] \in ApprovalRecords /\ [x EXCEPT !.pc = pc].flow = x.flow
         /\ \A read \in SUBSET Allowed :
              /\ [x EXCEPT !.pc = pc, !.read = read] \in ApprovalRecords
              /\ [x EXCEPT !.pc = pc, !.read = read].flow = x.flow
         /\ \A f \in Flows :
              /\ [x EXCEPT !.pc = pc, !.flow = f] \in ApprovalRecords
              /\ [x EXCEPT !.pc = pc, !.flow = f].flow = f
BY DEF ApprovalRecords

LEMMA ExchangeChanges ==
  ASSUME NEW x \in ExchangeRecords,
         NEW pc \in {"idle", "delete", "poll", "resolveDevice", "resolve", "create"}
  PROVE  /\ \A scopes \in SUBSET Scopes :
              /\ [x EXCEPT !.pc = pc, !.scopes = scopes] \in ExchangeRecords
              /\ [x EXCEPT !.pc = pc, !.scopes = scopes].pc = pc
              /\ [x EXCEPT !.pc = pc, !.scopes = scopes].flow = x.flow
         /\ \A f \in Flows :
              /\ [x EXCEPT !.pc = pc, !.flow = f] \in ExchangeRecords
              /\ [x EXCEPT !.pc = pc, !.flow = f].pc = pc
              /\ [x EXCEPT !.pc = pc, !.flow = f].flow = f
BY DEF ExchangeRecords

LEMMA IdleRecords == /\ NoApproval \in ApprovalRecords /\ NoApproval.pc = "idle"
                     /\ NoExchange \in ExchangeRecords /\ NoExchange.pc = "idle"
BY DEF NoApproval, ApprovalRecords, NoExchange, ExchangeRecords

LEMMA InitInv == Init => Inv
BY OidcAssumption DEF Init, Inv, Typed, Busy, Exclusive, Taken, OneTokenPerCode, FlowRecords,
   ApprovalRecords, ExchangeRecords, NoApproval, NoExchange, NoGrants, Kinds

(* A step of the user or of an approval: codes that are gone stay gone.    *)
LEMMA ApprovalSide ==
  ASSUME Inv, UNCHANGED <<exchange, issued>>,
         flow' \in [Flows -> FlowRecords],
         \A f \in Flows : flow[f].pc = "gone" => flow'[f].pc = "gone",
         approval' \in [Approvals -> ApprovalRecords],
         \A a \in Approvals : approval'[a].pc # "idle" => approval'[a].flow \in Flows,
         grants' \in [Kinds -> SUBSET Allowed], tokens' \subseteq issued
  PROVE  Inv'
BY DEF Inv, Typed, Busy, Exclusive, Taken, OneTokenPerCode

(* A step of a token request that takes no code and issues no token.       *)
LEMMA ExchangeSide ==
  ASSUME Inv, NEW e \in Exchanges, UNCHANGED <<flow, approval, grants, tokens, issued>>,
         NEW x \in ExchangeRecords, exchange' = [exchange EXCEPT ![e] = x],
         x.pc # "idle" => x.flow \in Flows,
         x.pc \in {"resolveDevice", "resolve", "create"} =>
           Taken(e) /\ x.flow = exchange[e].flow
  PROVE  Inv'
BY DEF Inv, Typed, Busy, Exclusive, Taken, OneTokenPerCode

(* A code that is not gone yet is taken by the request that makes it so.   *)
LEMMA Takes ==
  ASSUME Inv, NEW e \in Exchanges, NEW f \in Flows, flow[f].pc # "gone",
         flow' = [flow EXCEPT ![f].pc = "gone"],
         UNCHANGED <<approval, grants, tokens, issued>>,
         NEW x \in ExchangeRecords, exchange' = [exchange EXCEPT ![e] = x], x.flow = f,
         ~Taken(e)
  PROVE  Inv'
<1>1. flow' \in [Flows -> FlowRecords]
  BY DEF Inv, Typed, FlowRecords
<1>2. /\ flow'[f].pc = "gone"
      /\ \A g \in Flows \ {f} : flow'[g] = flow[g]
  BY DEF Inv, Typed, FlowRecords
<1>3. \A d \in Exchanges \ {e} : exchange'[d] = exchange[d]
  BY DEF Inv, Typed
<1>4. exchange'[e] = x
  BY DEF Inv, Typed
<1>5. \A d \in Exchanges : Taken(d) => exchange[d].flow # f
  BY DEF Inv, Exclusive
<1>6. Typed' /\ Busy'
  BY <1>1, <1>3, <1>4 DEF Inv, Typed, Busy
<1>7. Exclusive'
  <2>1. ASSUME NEW d \in Exchanges, Taken(d)'
        PROVE  /\ flow'[exchange'[d].flow].pc = "gone"
               /\ \A t \in issued' : t.flow # exchange'[d].flow
               /\ \A c \in Exchanges : Taken(c)' /\ exchange'[c].flow = exchange'[d].flow => c = d
    <3>1. CASE d = e
      BY <1>2, <1>3, <1>4, <1>5, <3>1 DEF Inv, Exclusive, Taken
    <3>2. CASE d # e
      BY <1>2, <1>3, <1>4, <1>5, <2>1, <3>2 DEF Inv, Busy, Exclusive, Taken
    <3> QED
      BY <3>1, <3>2
  <2>2. \A t \in issued' : t.flow \in Flows /\ flow'[t.flow].pc = "gone"
    BY <1>2 DEF Inv, Exclusive
  <2> QED
    BY <2>1, <2>2 DEF Exclusive, Inv, OneTokenPerCode
<1> QED
  BY <1>6, <1>7 DEF Inv

------------------------------------------------------------------------------
(* Steps of the flows and of the requests that accept.                     *)
LEMMA FlowStep ==
  ASSUME Inv, NEW f \in Flows, Ask(f) \/ Deny(f) PROVE Inv'
<1>1. UNCHANGED <<approval, exchange, grants, tokens, issued>>
  BY DEF Ask, Deny, ghosts
<1>2. /\ flow' \in [Flows -> FlowRecords]
      /\ \A g \in Flows : flow[g].pc = "gone" => flow'[g].pc = "gone"
  <2>1. CASE Ask(f)
    <3>1. PICK scope \in SUBSET Scopes : flow' = [flow EXCEPT ![f] = [pc |-> "asked", scope |-> scope]]
      <4>1. PICK asked \in Requests, cut \in BOOLEAN :
              flow' = [flow EXCEPT ![f] =
                [pc |-> "asked", scope |-> IF cut THEN asked \cap Allowed ELSE asked]]
        BY <2>1 DEF Ask
      <4> QED
        BY <4>1, OidcAssumption
    <3> QED
      BY <2>1, <3>1 DEF Ask, Inv, Typed, FlowRecords
  <2>2. CASE Deny(f)
    BY <2>2 DEF Deny, Inv, Typed, FlowRecords
  <2> QED
    BY <2>1, <2>2
<1> QED
  BY <1>1, <1>2, ApprovalSide DEF Inv, Typed, Busy

LEMMA BeginStep ==
  ASSUME Inv, NEW a \in Approvals, NEW f \in Flows, SubmitConsent(a, f) \/ Approve(a, f)
  PROVE  Inv'
<1>1. UNCHANGED <<exchange, grants, tokens, issued>>
  BY DEF SubmitConsent, Approve, ghosts
<1>2. PICK pc \in {"read", "find"} : approval' = [approval EXCEPT ![a] = [NoApproval EXCEPT !.pc = pc, !.flow = f]]
  BY DEF SubmitConsent, Approve, GrantsFirst
<1>3. PICK x \in ApprovalRecords : x = [NoApproval EXCEPT !.pc = pc, !.flow = f] /\ x.flow = f
  <2>1. /\ [NoApproval EXCEPT !.pc = pc, !.flow = f] \in ApprovalRecords
        /\ [NoApproval EXCEPT !.pc = pc, !.flow = f].flow = f
    <3>1. pc \in {"idle", "find", "read", "write", "consent"}
      OBVIOUS
    <3> QED
      BY <3>1, IdleRecords DEF ApprovalRecords
  <2> QED
    BY <2>1
<1>4. /\ approval' \in [Approvals -> ApprovalRecords]
      /\ \A b \in Approvals : approval'[b].pc # "idle" => approval'[b].flow \in Flows
  BY <1>2, <1>3 DEF Inv, Typed, Busy
<1>5. /\ flow' \in [Flows -> FlowRecords]
      /\ \A g \in Flows : flow[g].pc = "gone" => flow'[g].pc = "gone"
  BY DEF SubmitConsent, Approve, Inv, Typed, FlowRecords
<1> QED
  BY <1>1, <1>4, <1>5, ApprovalSide DEF Inv, Typed

LEMMA ApprovalStep ==
  ASSUME Inv, NEW a \in Approvals,
         ReadGrants(a) \/ WriteGrants(a) \/ Consent(a) \/ FindCode(a) \/ ApprovalDies(a)
  PROVE  Inv'
<1>1. UNCHANGED <<exchange, tokens, issued>> /\ approval[a].pc # "idle"
  BY DEF ReadGrants, WriteGrants, Consent, FindCode, ApprovalDies, ghosts
<1>2. approval[a].flow \in Flows /\ Kind[approval[a].flow] \in Kinds
  BY <1>1, KindsOfFlows DEF Inv, Busy
<1>3. NoApproval \in ApprovalRecords /\ NoApproval.pc = "idle"
  BY IdleRecords
<1>4. PICK x \in ApprovalRecords :
        /\ approval' = [approval EXCEPT ![a] = x]
        /\ x.pc # "idle" => x.flow = approval[a].flow
  <2>0. approval[a] \in ApprovalRecords
    BY DEF Inv, Typed
  <2>5. \A pc \in {"idle", "find", "read", "write", "consent"} :
          /\ [approval[a] EXCEPT !.pc = pc] \in ApprovalRecords
          /\ [approval[a] EXCEPT !.pc = pc].flow = approval[a].flow
    BY <1>2, <2>0, ApprovalChanges
  <2>1. CASE ReadGrants(a)
    <3>1. PICK read \in SUBSET Allowed : read = Sanitized(grants[Kind[approval[a].flow]])
      BY SanitizedAllowed
    <3>2. /\ [approval[a] EXCEPT !.pc = "write", !.read = read] \in ApprovalRecords
          /\ [approval[a] EXCEPT !.pc = "write", !.read = read].flow = approval[a].flow
      BY <1>2, <2>0, ApprovalChanges
    <3>3. \/ approval' = [approval EXCEPT ![a] = [approval[a] EXCEPT !.pc = "write", !.read = read]]
          \/ approval' = [approval EXCEPT ![a] = [approval[a] EXCEPT !.pc = "consent"]]
          \/ approval' = [approval EXCEPT ![a] = NoApproval]
      BY <2>1, <3>1 DEF ReadGrants
    <3> QED
      BY <1>3, <2>5, <3>2, <3>3
  <2>2. CASE WriteGrants(a)
    <3>1. PICK read \in SUBSET Allowed : read = {}
      OBVIOUS
    <3>2. /\ [approval[a] EXCEPT !.pc = "consent", !.read = read] \in ApprovalRecords
          /\ [approval[a] EXCEPT !.pc = "consent", !.read = read].flow = approval[a].flow
      BY <1>2, <2>0, ApprovalChanges
    <3>3. \/ approval' = [approval EXCEPT ![a] = [approval[a] EXCEPT !.pc = "consent", !.read = read]]
          \/ approval' = [approval EXCEPT ![a] = NoApproval]
      BY <2>2, <3>1 DEF WriteGrants
    <3> QED
      BY <1>3, <3>2, <3>3
  <2>3. CASE Consent(a) \/ ApprovalDies(a)
    BY <1>3, <2>3 DEF Consent, ApprovalDies
  <2>4. CASE FindCode(a)
    <3>1. \/ approval' = [approval EXCEPT ![a] = [approval[a] EXCEPT !.pc = "read"]]
          \/ approval' = [approval EXCEPT ![a] = NoApproval]
      BY <2>4 DEF FindCode
    <3> QED
      BY <1>3, <2>5, <3>1
  <2> QED
    BY <2>1, <2>2, <2>3, <2>4
<1>5. /\ approval' \in [Approvals -> ApprovalRecords]
      /\ \A b \in Approvals : approval'[b].pc # "idle" => approval'[b].flow \in Flows
  BY <1>2, <1>4 DEF Inv, Typed, Busy
<1>6. grants' \in [Kinds -> SUBSET Allowed]
  <2>1. CASE WriteGrants(a)
    BY <1>2, <2>1, SanitizedAllowed DEF WriteGrants, Inv, Typed
  <2>2. CASE UNCHANGED grants
    BY <2>2 DEF Inv, Typed
  <2> QED
    BY <2>1, <2>2 DEF ReadGrants, Consent, FindCode, ApprovalDies
<1>7. /\ flow' \in [Flows -> FlowRecords]
      /\ \A g \in Flows : flow[g].pc = "gone" => flow'[g].pc = "gone"
  <2>1. CASE Consent(a)
    BY <1>2, <2>1 DEF Consent, Inv, Typed, FlowRecords
  <2>2. CASE UNCHANGED flow
    BY <2>2 DEF Inv, Typed
  <2> QED
    BY <2>1, <2>2 DEF ReadGrants, WriteGrants, FindCode, ApprovalDies
<1> QED
  BY <1>1, <1>5, <1>6, <1>7, ApprovalSide DEF Inv, Typed

(* The admin's form, and a user who terminates a client.                   *)
LEMMA GrantStep ==
  ASSUME Inv, NEW k \in Kinds, AdminSaves(k) \/ revokeOidcClientConnection(k) PROVE Inv'
<1>1. UNCHANGED <<flow, approval, exchange, issued>> /\ tokens' \subseteq tokens
  BY DEF AdminSaves, revokeOidcClientConnection
<1>2. grants' \in [Kinds -> SUBSET Allowed]
  BY SanitizedAllowed DEF AdminSaves, revokeOidcClientConnection, Inv, Typed
<1> QED
  BY <1>1, <1>2, ApprovalSide DEF Inv, Typed, Busy

------------------------------------------------------------------------------
(* Steps of the token requests.                                            *)
LEMMA ReadStep ==
  ASSUME Inv, NEW e \in Exchanges, NEW f \in Flows, ReadCode(e, f) \/ ReadDeviceCode(e, f)
  PROVE  Inv'
<1>1. UNCHANGED <<flow, approval, grants, tokens, issued>>
  BY DEF ReadCode, ReadDeviceCode, ghosts
<1>2. flow[f].scope \in SUBSET Scopes
  BY DEF Inv, Typed, FlowRecords
<1>3. PICK x \in ExchangeRecords :
        exchange' = [exchange EXCEPT ![e] = x] /\ x.flow = f /\ x.pc \in {"delete", "poll"}
  <2>1. CASE ReadCode(e, f)
    <3>1. /\ [NoExchange EXCEPT !.pc = "delete", !.flow = f] \in ExchangeRecords
          /\ [NoExchange EXCEPT !.pc = "delete", !.flow = f].flow = f
          /\ [NoExchange EXCEPT !.pc = "delete", !.flow = f].pc = "delete"
      BY IdleRecords, ExchangeChanges
    <3> QED
      BY <2>1, <3>1 DEF ReadCode
  <2>2. CASE ReadDeviceCode(e, f)
    <3>1. [pc |-> "poll", flow |-> f, scopes |-> flow[f].scope] \in ExchangeRecords
      BY <1>2 DEF ExchangeRecords
    <3> QED
      BY <2>2, <3>1 DEF ReadDeviceCode
  <2> QED
    BY <2>1, <2>2
<1> QED
  BY <1>1, <1>3, ExchangeSide

LEMMA DeleteStep == ASSUME Inv, NEW e \in Exchanges, DeleteCode(e) PROVE Inv'
<1> DEFINE f == exchange[e].flow
<1>1. f \in Flows /\ exchange[e].pc = "delete" /\ exchange[e] \in ExchangeRecords
      /\ flow[f].scope \in SUBSET Scopes
  BY DEF DeleteCode, Inv, Busy, Typed, FlowRecords
<1>2. CASE Deleted(f)
  <2>1. PICK scopes \in SUBSET Scopes : scopes = flow[f].scope
    BY <1>1
  <2>2. exchange' = [exchange EXCEPT ![e] =
          [exchange[e] EXCEPT !.pc = "resolve", !.scopes = scopes]]
    BY <1>2, <2>1 DEF DeleteCode
  <2>3. PICK x \in ExchangeRecords : exchange' = [exchange EXCEPT ![e] = x] /\ x.flow = f
    <3>1. /\ [exchange[e] EXCEPT !.pc = "resolve", !.scopes = scopes] \in ExchangeRecords
          /\ [exchange[e] EXCEPT !.pc = "resolve", !.scopes = scopes].flow = f
      BY <1>1, ExchangeChanges
    <3> QED
      BY <2>2, <3>1
  <2> QED
    BY <1>1, <1>2, <2>3, Takes DEF DeleteCode, Deleted, Taken, ghosts
<1>3. CASE ~Deleted(f)
  <2>1. flow' = flow
    BY <1>1, <1>3 DEF DeleteCode, Deleted, Inv, Typed, FlowRecords
  <2> QED
    BY <1>3, <2>1, IdleRecords, ExchangeSide DEF DeleteCode, ghosts
<1> QED
  BY <1>2, <1>3

LEMMA PollStep == ASSUME Inv, NEW e \in Exchanges, Poll(e) PROVE Inv'
<1> DEFINE f == exchange[e].flow
<1>1. f \in Flows /\ exchange[e].pc = "poll" /\ exchange[e] \in ExchangeRecords
  BY DEF Poll, Inv, Busy, Typed
<1>2. CASE flow[f].pc = "approved"
  <2>1. exchange' = [exchange EXCEPT ![e] = [exchange[e] EXCEPT !.pc = "resolveDevice"]]
    BY <1>2 DEF Poll
  <2>2. PICK x \in ExchangeRecords : x = [exchange[e] EXCEPT !.pc = "resolveDevice"]
    BY <1>1 DEF ExchangeRecords
  <2>3. x.flow = f
    BY <1>1, <2>2 DEF ExchangeRecords
  <2> QED
    BY <1>1, <1>2, <2>1, <2>2, <2>3, Takes DEF Poll, Taken, ghosts
<1>3. CASE flow[f].pc # "approved"
  BY <1>3, IdleRecords, ExchangeSide DEF Poll, ghosts
<1> QED
  BY <1>2, <1>3

LEMMA ResolveStep ==
  ASSUME Inv, NEW e \in Exchanges, ResolveDevice(e) \/ Resolve(e) PROVE Inv'
<1>1. UNCHANGED <<flow, approval, grants, tokens, issued>>
      /\ exchange[e].pc \in {"resolveDevice", "resolve"} /\ exchange[e] \in ExchangeRecords
  BY DEF ResolveDevice, Resolve, Inv, Typed
<1>2. PICK pc \in {"resolve", "create"}, scopes \in SUBSET Scopes :
        exchange' = [exchange EXCEPT ![e] = [exchange[e] EXCEPT !.pc = pc, !.scopes = scopes]]
  <2>1. CASE ResolveDevice(e)
    <3>1. PICK scopes \in SUBSET Scopes : scopes = Granted("device", exchange[e].scopes)
      BY SanitizedAllowed, OidcAssumption DEF Granted
    <3>2. exchange' = [exchange EXCEPT ![e] =
            [exchange[e] EXCEPT !.pc = "resolve", !.scopes = scopes]]
      BY <2>1, <3>1 DEF ResolveDevice
    <3> QED
      BY <3>2
  <2>2. CASE Resolve(e)
    <3>1. PICK scopes \in SUBSET Scopes : scopes = Granted(Kind[exchange[e].flow], exchange[e].scopes)
      BY SanitizedAllowed, OidcAssumption DEF Granted
    <3>2. exchange' = [exchange EXCEPT ![e] =
            [exchange[e] EXCEPT !.pc = "create", !.scopes = scopes]]
      BY <2>2, <3>1 DEF Resolve
    <3> QED
      BY <3>2
  <2> QED
    BY <2>1, <2>2
<1>3. exchange[e].flow \in Flows
  BY <1>1 DEF Inv, Busy
<1>4. PICK x \in ExchangeRecords :
        x = [exchange[e] EXCEPT !.pc = pc, !.scopes = scopes] /\ x.flow = exchange[e].flow
  <2>1. /\ [exchange[e] EXCEPT !.pc = pc, !.scopes = scopes] \in ExchangeRecords
        /\ [exchange[e] EXCEPT !.pc = pc, !.scopes = scopes].flow = exchange[e].flow
    <3>1. pc \in {"idle", "delete", "poll", "resolveDevice", "resolve", "create"}
      OBVIOUS
    <3> QED
      BY <3>1, <1>1 DEF ExchangeRecords
  <2> QED
    BY <2>1
<1> QED
  BY <1>1, <1>2, <1>3, <1>4, ExchangeSide DEF Taken

LEMMA DiesStep == ASSUME Inv, NEW e \in Exchanges, ExchangeDies(e) PROVE Inv'
BY IdleRecords, ExchangeSide DEF ExchangeDies, ghosts

(* The token of a code that one request has, and that had none.            *)
LEMMA CreateStep == ASSUME Inv, NEW e \in Exchanges, Create(e) PROVE Inv'
<1> DEFINE f == exchange[e].flow
           token == [by |-> e, flow |-> f, scopes |-> exchange[e].scopes]
<1>1. /\ Taken(e) /\ token.flow = f /\ f \in Flows
      /\ tokens' = tokens \cup {token} /\ issued' = issued \cup {token}
      /\ exchange' = [exchange EXCEPT ![e] = NoExchange]
      /\ UNCHANGED <<flow, approval, grants>>
  BY DEF Create, Taken, Inv, Busy
<1>2. /\ flow[f].pc = "gone" /\ \A t \in issued : t.flow # f
      /\ \A d \in Exchanges : Taken(d) /\ exchange[d].flow = f => d = e
  BY <1>1 DEF Inv, Exclusive
<1> HIDE DEF token, f
<1>3. ~Taken(e)' /\ \A d \in Exchanges \ {e} : exchange'[d] = exchange[d]
  BY <1>1, IdleRecords DEF Inv, Typed, Taken
<1>4. Typed' /\ Busy'
  BY <1>1, IdleRecords DEF Inv, Typed, Busy
<1>5. Exclusive'
  <2>1. ASSUME NEW d \in Exchanges, Taken(d)'
        PROVE  /\ flow'[exchange'[d].flow].pc = "gone"
               /\ \A t \in issued' : t.flow # exchange'[d].flow
               /\ \A c \in Exchanges : Taken(c)' /\ exchange'[c].flow = exchange'[d].flow => c = d
    <3>1. d # e /\ Taken(d) /\ exchange'[d] = exchange[d] /\ exchange[d].flow # f
      BY <1>2, <1>3, <2>1 DEF Taken
    <3> QED
      BY <1>1, <1>3, <3>1 DEF Inv, Exclusive, Taken
  <2>2. \A t \in issued' : t.flow \in Flows /\ flow'[t.flow].pc = "gone"
    BY <1>1, <1>2 DEF Inv, Exclusive
  <2>3. OneTokenPerCode'
    BY <1>1, <1>2 DEF Inv, Exclusive, OneTokenPerCode
  <2> QED
    BY <2>1, <2>2, <2>3 DEF Exclusive
<1> QED
  BY <1>4, <1>5 DEF Inv

------------------------------------------------------------------------------
(* Inv is inductive.                                                       *)
THEOREM Invariant == Spec => []Inv
<1>1. Inv /\ [Next]_vars => Inv'
  <2> SUFFICES ASSUME Inv, [Next]_vars PROVE Inv'
    OBVIOUS
  <2>1. CASE UNCHANGED vars
    BY <2>1 DEF vars, ghosts, Inv, Typed, Busy, Exclusive, Taken, OneTokenPerCode
  <2> QED
    BY <2>1, FlowStep, BeginStep, ApprovalStep, GrantStep, ReadStep, DeleteStep, PollStep,
       ResolveStep, DiesStep, CreateStep DEF Next, Polls, ExchangeStep
<1> QED
  BY <1>1, InitInv, PTL DEF Spec

(* Of all the requests that come with a code, one gets a token: the count  *)
(* of the delete, and better-auth's device code, are looked at.            *)
THEOREM OneToken == Spec => []OneTokenPerCode
<1>1. Inv => OneTokenPerCode
  BY DEF Inv, Exclusive
<1> QED
  BY <1>1, Invariant, PTL

(* The types, and that stored grants are scopes the client may have.       *)
THEOREM TypeCorrect == Spec => []TypeOK
<1>1. Inv => TypeOK
  BY DEF Inv, Typed, TypeOK, FlowRecords, ApprovalRecords, ExchangeRecords
<1> QED
  BY <1>1, Invariant, PTL

------------------------------------------------------------------------------
(* Consents of the webapp, accepted by one request at a time: what that    *)
(* has read is what is stored, and what was agreed to is stored.           *)
Alone == admin = 0 /\ revokes = 0 /\ \A a, b \in Approvals : a = b
OfWeb(a) == approval[a].pc # "idle" /\ Kind[approval[a].flow] = "web"
Honoured ==
  /\ Sanitized(agreed["web"]) \subseteq grants["web"]
  /\ \A a \in Approvals :
       /\ approval[a].pc # "idle" => flow[approval[a].flow].pc # "none"
       /\ approval[a].pc = "write" /\ OfWeb(a) => approval[a].read = grants["web"]
       /\ approval[a].pc = "consent" =>
            OfWeb(a) /\ Sanitized(flow[approval[a].flow].scope) \subseteq grants["web"]
  /\ \A r \in removed : r.client = "web" => ~r.agreed
HonourInv == Alone => Honoured

GhostTypes == admin \in Nat /\ revokes \in Nat /\ agreed \in [Kinds -> SUBSET Scopes]

(* A step that neither approves nor stores anything.                       *)
LEMMA HonourKept ==
  ASSUME HonourInv, Inv, UNCHANGED <<approval, grants, agreed, removed, admin, revokes>>,
         \A f \in Flows : flow[f].pc # "none" =>
           flow'[f].pc # "none" /\ flow'[f].scope = flow[f].scope
  PROVE  HonourInv'
BY DEF HonourInv, Alone, Honoured, OfWeb, Inv, Busy

(* Codes change hands, and keep their scope.                               *)
LEMMA FlowHonour ==
  ASSUME HonourInv, Inv, NEW f \in Flows, Ask(f) \/ Deny(f) \/ Polls(f) PROVE HonourInv'
<1>1. UNCHANGED <<approval, grants, agreed, removed, admin, revokes>>
  BY DEF Ask, Deny, Polls, ReadCode, ReadDeviceCode, ghosts, budget
<1>2. \A g \in Flows : flow[g].pc # "none" => flow'[g].pc # "none" /\ flow'[g].scope = flow[g].scope
  BY DEF Ask, Deny, Polls, ReadCode, ReadDeviceCode, Inv, Typed, FlowRecords
<1> QED
  BY <1>1, <1>2, HonourKept

(* The admin and the user who terminates a client are counted.             *)
LEMMA GrantHonour ==
  ASSUME HonourInv, Inv, NEW k \in Kinds, AdminSaves(k) \/ revokeOidcClientConnection(k),
         GhostTypes
  PROVE  HonourInv'
BY DEF HonourInv, Alone, GhostTypes, AdminSaves, revokeOidcClientConnection

(* A token request takes out what is not stored, hence not agreed to.      *)
LEMMA ExchangeHonour ==
  ASSUME HonourInv, Inv, NEW e \in Exchanges, ExchangeStep(e) \/ ExchangeDies(e)
  PROVE  HonourInv'
<1>1. \A g \in Flows : flow[g].pc # "none" => flow'[g].pc # "none" /\ flow'[g].scope = flow[g].scope
  BY DEF ExchangeStep, ExchangeDies, DeleteCode, Poll, ResolveDevice, Resolve, Create, Inv, Typed,
         FlowRecords
<1>2. UNCHANGED <<approval, grants, agreed, admin, revokes>>
  BY DEF ExchangeStep, ExchangeDies, DeleteCode, Poll, ResolveDevice, Resolve, Create, ghosts,
         budget
<1>3. CASE removed' = removed
  BY <1>1, <1>2, <1>3, HonourKept
<1>4. CASE \E k \in Kinds : \E scopes : Removes(k, scopes)
  <2> SUFFICES ASSUME Alone' PROVE Honoured'
    BY DEF HonourInv
  <2>1. Honoured
    BY <1>2 DEF HonourInv, Alone
  <2>2. \A r \in removed' : r.client = "web" => ~r.agreed
    <3> PICK k \in Kinds : \E scopes : Removes(k, scopes)
      BY <1>4
    <3>1. PICK scopes : Removes(k, scopes)
      OBVIOUS
    <3>2. \A t : t \in Sanitized(scopes) \ Granted("web", scopes) => t \notin agreed["web"]
      BY <2>1 DEF Honoured, Sanitized, Granted
    <3>3. ASSUME NEW r \in removed' \ removed, r.client = "web"
          PROVE  ~r.agreed
      <4>1. PICK t \in Sanitized(scopes) \ Granted(k, scopes) :
              r = [client |-> k, scope |-> t, agreed |-> t \in agreed[k]]
        BY <3>1, <3>3 DEF Removes
      <4>2. k = "web" /\ r.agreed = (t \in agreed[k])
        BY <3>3, <4>1
      <4> QED
        BY <3>2, <4>2
    <3> QED
      BY <2>1, <3>3 DEF Honoured
  <2> QED
    BY <1>1, <1>2, <2>1, <2>2 DEF Honoured, OfWeb, Inv, Busy
<1> QED
  BY <1>3, <1>4, KindsOfFlows DEF ExchangeStep, ExchangeDies, DeleteCode, Poll, ResolveDevice,
     Resolve, Create, ghosts, Inv, Busy, Kinds

(* What is to be shown of the one request that accepts: what it stores,    *)
(* and where it goes.                                                      *)
LEMMA HonourGoes ==
  ASSUME Honoured, Inv, Alone, NEW a \in Approvals, NEW y,
         approval' = [approval EXCEPT ![a] = y], UNCHANGED removed,
         Sanitized(agreed'["web"]) \subseteq grants'["web"],
         y.pc # "idle" => flow'[y.flow].pc # "none",
         y.pc = "write" /\ Kind[y.flow] = "web" => y.read = grants'["web"],
         y.pc = "consent" => /\ Kind[y.flow] = "web"
                             /\ Sanitized(flow'[y.flow].scope) \subseteq grants'["web"]
  PROVE  Honoured'
<1>1. approval'[a] = y /\ \A b \in Approvals : b = a
  BY DEF Inv, Typed, Alone
<1> QED
  BY <1>1 DEF Honoured, OfWeb

(* Its steps.                                                              *)
LEMMA ApprovalHonour ==
  ASSUME HonourInv, Inv, GhostTypes, NEW a \in Approvals,
         \/ \E f \in Flows : SubmitConsent(a, f) \/ Approve(a, f)
         \/ ReadGrants(a) \/ WriteGrants(a) \/ Consent(a) \/ FindCode(a) \/ ApprovalDies(a)
  PROVE  HonourInv'
<1> SUFFICES ASSUME Alone' PROVE Honoured'
  BY DEF HonourInv
<1>1. Alone /\ Honoured /\ UNCHANGED removed
  BY DEF HonourInv, Alone, SubmitConsent, Approve, ReadGrants, WriteGrants, Consent, FindCode,
         ApprovalDies, ghosts, budget
<1>2. /\ approval \in [Approvals -> ApprovalRecords] /\ approval[a] \in ApprovalRecords
      /\ flow \in [Flows -> FlowRecords] /\ grants \in [Kinds -> SUBSET Allowed]
      /\ \A b \in Approvals : b = a
      /\ approval[a].pc # "idle" => approval[a].flow \in Flows
  BY <1>1 DEF Inv, Typed, Busy, Alone
<1>3. \A g \in Flows : flow'[g].scope = flow[g].scope /\ (flow[g].pc # "none" => flow'[g].pc # "none")
  <2>1. \A g \in Flows, c \in {"approved", "gone"} :
          flow' = [flow EXCEPT ![g].pc = c] =>
            \A h \in Flows : flow'[h].scope = flow[h].scope
                             /\ (flow[h].pc # "none" => flow'[h].pc # "none")
    BY <1>2 DEF FlowRecords
  <2>2. \/ flow' = flow
        \/ \E g \in Flows, c \in {"approved", "gone"} : flow' = [flow EXCEPT ![g].pc = c]
    BY <1>2 DEF SubmitConsent, Approve, ReadGrants, WriteGrants, Consent, FindCode, ApprovalDies
  <2> QED
    BY <2>1, <2>2
<1>4. NoApproval.pc = "idle"
  BY IdleRecords
<1>5. Sanitized(agreed["web"]) \subseteq grants["web"]
  BY <1>1 DEF Honoured
<1>6. CASE approval' = [approval EXCEPT ![a] = NoApproval] /\ UNCHANGED <<agreed, grants>>
  BY <1>1, <1>4, <1>5, <1>6, HonourGoes
<1>7. ASSUME NEW g \in Flows, SubmitConsent(a, g) \/ Approve(a, g)
      PROVE  Honoured'
  <2>1. PICK pc \in {"read", "find"} :
          approval' = [approval EXCEPT ![a] = [NoApproval EXCEPT !.pc = pc, !.flow = g]]
    BY <1>7 DEF SubmitConsent, Approve, GrantsFirst
  <2>2. PICK y : y = [NoApproval EXCEPT !.pc = pc, !.flow = g]
    OBVIOUS
  <2>3. y.pc = pc /\ y.flow = g
    BY <2>2 DEF NoApproval
  <2>4. flow'[g].pc # "none"
    <3>1. flow[g].pc = "asked"
      BY <1>7 DEF SubmitConsent, Approve
    <3> QED
      BY <1>3, <3>1
  <2>5. grants' = grants /\ agreed'["web"] = agreed["web"]
    BY <1>7 DEF GhostTypes, SubmitConsent, Approve, Add, ghosts, Kinds
  <2> QED
    BY <1>1, <1>5, <2>1, <2>2, <2>3, <2>4, <2>5, HonourGoes
<1> DEFINE f == approval[a].flow
<1>8. CASE ReadGrants(a)
  <2>1. f \in Flows /\ flow[f].pc # "none" /\ UNCHANGED <<flow, grants, agreed>>
    BY <1>1, <1>2, <1>8 DEF ReadGrants, Honoured, ghosts
  <2>2. CASE flow[f].scope # {}
    <3>1. PICK y : y = [approval[a] EXCEPT !.pc = "write", !.read = Sanitized(grants[Kind[f]])]
      OBVIOUS
    <3>2. y.pc = "write" /\ y.flow = f /\ y.read = Sanitized(grants[Kind[f]])
      BY <1>2, <3>1 DEF ApprovalRecords
    <3>3. Kind[f] = "web" => y.read = grants["web"]
      BY <1>2, <3>2 DEF Sanitized, Kinds
    <3>4. approval' = [approval EXCEPT ![a] = y]
      BY <1>8, <2>2, <3>1 DEF ReadGrants
    <3> QED
      BY <1>1, <1>5, <2>1, <3>2, <3>3, <3>4, HonourGoes
  <2>3. CASE flow[f].scope = {} /\ Kind[f] = "web"
    <3>1. PICK y : y = [approval[a] EXCEPT !.pc = "consent"]
      OBVIOUS
    <3>2. y.pc = "consent" /\ y.flow = f
      BY <1>2, <3>1 DEF ApprovalRecords
    <3>3. approval' = [approval EXCEPT ![a] = y]
      BY <1>8, <2>3, <3>1 DEF ReadGrants
    <3>4. Sanitized(flow'[f].scope) \subseteq grants'["web"]
      BY <2>1, <2>3 DEF Sanitized
    <3> QED
      BY <1>1, <1>5, <2>1, <2>3, <3>2, <3>3, <3>4, HonourGoes
  <2>4. CASE flow[f].scope = {} /\ Kind[f] # "web"
    BY <1>6, <1>8, <2>1, <2>4 DEF ReadGrants
  <2> QED
    BY <2>2, <2>3, <2>4
<1>9. CASE WriteGrants(a)
  <2>1. f \in Flows /\ flow[f].pc # "none" /\ UNCHANGED <<flow, agreed>>
    BY <1>1, <1>2, <1>9 DEF WriteGrants, Honoured, ghosts
  <2>2. grants' = [grants EXCEPT ![Kind[f]] =
                     Sanitized(approval[a].read \cup flow[f].scope)]
    BY <1>9 DEF WriteGrants, Merged
  <2>3. CASE Kind[f] = "web"
    <3>1. approval[a].read = grants["web"]
      BY <1>1, <1>9, <2>3 DEF Honoured, OfWeb, WriteGrants
    <3>2. grants'["web"] = Sanitized(grants["web"] \cup flow[f].scope)
      BY <1>2, <2>2, <2>3, <3>1 DEF Kinds
    <3>3. /\ grants["web"] \subseteq grants'["web"]
          /\ Sanitized(flow[f].scope) \subseteq grants'["web"]
      BY <1>2, <3>2 DEF Sanitized, Kinds
    <3>4. PICK y : y = [approval[a] EXCEPT !.pc = "consent", !.read = {}]
      OBVIOUS
    <3>5. y.pc = "consent" /\ y.flow = f
      BY <1>2, <3>4 DEF ApprovalRecords
    <3>6. approval' = [approval EXCEPT ![a] = y]
      BY <1>9, <2>3, <3>4 DEF WriteGrants
    <3>7. Sanitized(agreed'["web"]) \subseteq grants'["web"]
      BY <1>5, <2>1, <3>3
    <3> QED
      BY <1>1, <2>1, <2>3, <3>3, <3>5, <3>6, <3>7, HonourGoes
  <2>4. CASE Kind[f] # "web"
    <3>1. grants'["web"] = grants["web"]
      BY <1>2, <2>2, <2>4 DEF Kinds
    <3>2. approval' = [approval EXCEPT ![a] = NoApproval]
      BY <1>9, <2>4 DEF WriteGrants
    <3> QED
      BY <1>1, <1>4, <1>5, <2>1, <3>1, <3>2, HonourGoes
  <2> QED
    BY <2>3, <2>4
<1>10. CASE Consent(a)
  <2>1. /\ Kind[f] = "web" /\ Sanitized(flow[f].scope) \subseteq grants["web"]
        /\ grants' = grants /\ approval' = [approval EXCEPT ![a] = NoApproval]
    BY <1>1, <1>10 DEF Consent, Honoured, OfWeb
  <2>2. Sanitized(agreed'["web"]) \subseteq grants'["web"]
    <3>1. agreed' = agreed \/ agreed' = Add(agreed, "web", flow[f].scope)
      BY <1>10 DEF Consent
    <3>2. agreed \in [Kinds -> SUBSET Scopes]
      BY DEF GhostTypes
    <3> QED
      BY <1>5, <2>1, <3>1, <3>2 DEF Add, Sanitized, Kinds
  <2> QED
    BY <1>1, <1>4, <2>1, <2>2, HonourGoes
<1>11. CASE FindCode(a)
  <2>1. /\ UNCHANGED <<flow, agreed, grants>> /\ f \in Flows /\ flow[f].pc # "none"
    BY <1>1, <1>2, <1>11 DEF FindCode, Honoured, ghosts
  <2>2. CASE flow[f].pc = "gone"
    BY <1>6, <1>11, <2>1, <2>2 DEF FindCode
  <2>3. CASE flow[f].pc # "gone"
    <3>1. PICK y : y = [approval[a] EXCEPT !.pc = "read"]
      OBVIOUS
    <3>2. y.pc = "read" /\ y.flow = f
      BY <1>2, <3>1 DEF ApprovalRecords
    <3>3. approval' = [approval EXCEPT ![a] = y]
      BY <1>11, <2>3, <3>1 DEF FindCode
    <3> QED
      BY <1>1, <1>5, <2>1, <3>2, <3>3, HonourGoes
  <2> QED
    BY <2>2, <2>3
<1> QED
  BY <1>6, <1>7, <1>8, <1>9, <1>10, <1>11 DEF ApprovalDies, ghosts

LEMMA GhostsTyped == GhostTypes /\ Inv /\ [Next]_vars => GhostTypes'
<1> SUFFICES ASSUME GhostTypes, Inv, [Next]_vars PROVE GhostTypes'
  OBVIOUS
<1>1. CASE UNCHANGED vars
  BY <1>1 DEF vars, ghosts, budget, GhostTypes
<1>2. ASSUME NEW f \in Flows, Ask(f) \/ Deny(f) \/ Polls(f)
      PROVE  GhostTypes'
  BY <1>2 DEF GhostTypes, Ask, Deny, Polls, ReadCode, ReadDeviceCode, ghosts, budget
<1>3. ASSUME NEW a \in Approvals,
             \/ \E f \in Flows : SubmitConsent(a, f) \/ Approve(a, f)
             \/ ReadGrants(a) \/ WriteGrants(a) \/ Consent(a) \/ FindCode(a) \/ ApprovalDies(a)
      PROVE  GhostTypes'
  <2>1. UNCHANGED <<admin, revokes>>
    BY <1>3 DEF SubmitConsent, Approve, ReadGrants, WriteGrants, Consent, FindCode, ApprovalDies,
       ghosts, budget
  <2>2. \/ agreed' = agreed
        \/ \E k \in Kinds, f \in Flows : agreed' = Add(agreed, k, flow[f].scope)
    BY <1>3 DEF Inv, Busy, Kinds, SubmitConsent, Approve, ReadGrants, WriteGrants, Consent,
       FindCode, ApprovalDies, ghosts
  <2>3. \A f \in Flows : flow[f].scope \subseteq Scopes
    BY DEF Inv, Typed, FlowRecords
  <2> QED
    BY <2>1, <2>2, <2>3 DEF GhostTypes, Add
<1>4. ASSUME NEW e \in Exchanges, ExchangeStep(e) \/ ExchangeDies(e)
      PROVE  GhostTypes'
  BY <1>4 DEF GhostTypes, ExchangeStep, ExchangeDies, DeleteCode, Poll, ResolveDevice, Resolve,
     Create, ghosts, budget
<1>5. ASSUME NEW k \in Kinds, AdminSaves(k) \/ revokeOidcClientConnection(k)
      PROVE  GhostTypes'
  BY <1>5, OidcAssumption DEF GhostTypes, AdminSaves, revokeOidcClientConnection, Sanitized,
     OidcAssumption
<1> QED
  BY <1>1, <1>2, <1>3, <1>4, <1>5 DEF Next

LEMMA StepHonour ==
  GhostTypes /\ HonourInv /\ Inv /\ [Next]_vars => GhostTypes' /\ HonourInv'
<1> SUFFICES ASSUME GhostTypes, HonourInv, Inv, [Next]_vars PROVE HonourInv'
  BY GhostsTyped
<1>1. CASE UNCHANGED vars
  BY <1>1 DEF vars, ghosts, budget, HonourInv, Alone, Honoured, OfWeb
<1> QED
  BY <1>1, FlowHonour, ApprovalHonour, ExchangeHonour, GrantHonour DEF Next

(* No scope of the webapp that was agreed to is taken out, as long as one  *)
(* request accepts at a time and nobody else has written the grants: what  *)
(* addUserOidcGrantScopes merges is what it has read.                      *)
THEOREM ConsentsHonoured == Spec => []ConsentsAreHonoured
<1>1. Init => GhostTypes /\ HonourInv
  BY DEF Init, GhostTypes, HonourInv, Honoured, OfWeb, NoApproval, NoGrants, Sanitized, Kinds
<1>2. HonourInv => ConsentsAreHonoured
  BY DEF HonourInv, Alone, Honoured, ConsentsAreHonoured
<1> QED
  BY <1>1, <1>2, StepHonour, Invariant, PTL DEF Spec

------------------------------------------------------------------------------
(* Refreshes. Rows of tokens have one id each, counted from 1.             *)
Sids == {Refresh!OfLogin(c) : c \in 1 .. logins} \cup {Refresh!OfRow(k) : k \in Refresh!Ids}
RowRecords ==
  [id : Refresh!Ids, sid : Sids \cup {None}, chain : 1 .. logins]

RowsNumbered ==
  /\ IsFiniteSet(rows) /\ rows \subseteq RowRecords
  /\ \A k \in Refresh!Ids : \E row \in rows : row.id = k
  /\ \A r, s \in rows : r.id = s.id => r = s

RefreshRecords ==
  [pc : {"idle", "rotate", "carry", "mint"}, old : Refresh!Ids \cup {None},
   new : Refresh!Ids \cup {None}, sid : Sids \cup {None}]

RefreshTypes ==
  /\ RowsNumbered /\ logins \in Nat
  /\ request \in [Refreshes -> RefreshRecords]
  /\ known \subseteq Refresh!Ids
  /\ \A m \in minted : m.chain \in 1 .. logins

(* What the clients were told: the id_tokens, and the sid a token they     *)
(* have would give its next one.                                           *)
Chain(k) == Refresh!Row(k).chain
Sid(k) == Refresh!SidOf(Refresh!Row(k))
Told == minted \cup {[chain |-> Chain(k), sid |-> Sid(k)] : k \in known}
Agree(T) == \A m, n \in T : m.chain = n.chain /\ m.chain \notin broken => m.sid = n.sid

(* A refresh hands on the sid of the old token, or its chain is broken;    *)
(* until it is answered nobody else has the new token.                     *)
HasNew(r) == request[r].pc \in {"carry", "mint"}
RefreshOK(r) ==
  /\ request[r].pc # "idle" => request[r].old \in known
  /\ request[r].pc = "rotate" =>
       Chain(request[r].old) \in broken \/ request[r].sid = Sid(request[r].old)
  /\ HasNew(r) => /\ request[r].new \in Refresh!Ids
                  /\ Chain(request[r].new) = Chain(request[r].old)
  /\ request[r].pc = "carry" =>
       /\ request[r].new \notin known /\ request[r].sid # None
       /\ Chain(request[r].old) \in broken \/ request[r].sid = Sid(request[r].old)
  /\ request[r].pc = "mint" =>
       Chain(request[r].old) \in broken \/ Sid(request[r].new) = Sid(request[r].old)
NewsDiffer ==
  \A r, q \in Refreshes : r # q /\ HasNew(r) /\ HasNew(q) => request[r].new # request[q].new

RefreshInv ==
  RefreshTypes /\ Agree(Told) /\ (\A r \in Refreshes : RefreshOK(r)) /\ NewsDiffer

------------------------------------------------------------------------------
(* The ids are those of the library's cardinality.                         *)
LEMMA IdsAre == Refresh!Ids = 1 .. Cardinality(rows)
BY DEF Refresh!Ids, Refresh!Cardinality, Cardinality

(* The row of an id.                                                       *)
LEMMA RowOf ==
  ASSUME RowsNumbered
  PROVE  /\ \A k \in Refresh!Ids : Refresh!Row(k) \in rows /\ Refresh!Row(k).id = k
         /\ \A r \in rows : Refresh!Row(r.id) = r /\ r.id \in Refresh!Ids
<1>1. ASSUME NEW k \in Refresh!Ids
      PROVE  Refresh!Row(k) \in rows /\ Refresh!Row(k).id = k
  BY DEF RowsNumbered, Refresh!Row
<1>2. \A r \in rows : r.id \in Refresh!Ids
  BY DEF RowsNumbered, RowRecords
<1> QED
  BY <1>1, <1>2 DEF RowsNumbered

(* An added row has the next id, and the others keep theirs.               *)
LEMMA RowAdded ==
  ASSUME RowsNumbered, logins \in Nat, logins' \in Nat, logins <= logins', NEW row,
         row.id = Cardinality(rows) + 1, rows' = rows \cup {row},
         row \in RowRecords'
  PROVE  /\ RowsNumbered' /\ Refresh!Ids \subseteq Refresh!Ids' /\ Sids \subseteq Sids'
         /\ row.id \in Refresh!Ids' \ Refresh!Ids
         /\ Refresh!Row(row.id)' = row
         /\ \A k \in Refresh!Ids : Refresh!Row(k)' = Refresh!Row(k)
<1> DEFINE n == Cardinality(rows)
<1>1. n \in Nat /\ Refresh!Ids = 1 .. n
  BY FS_CardinalityType, IdsAre DEF RowsNumbered
<1>2. row \notin rows
  BY <1>1, RowOf
<1>3. IsFiniteSet(rows') /\ Cardinality(rows') = n + 1
  BY <1>2, FS_AddElement DEF RowsNumbered
<1>4. Refresh!Ids' = 1 .. (n + 1)
  <2>1. Refresh!Ids' = 1 .. Cardinality(rows')
    BY DEF Refresh!Ids, Refresh!Cardinality, Cardinality
  <2> QED
    BY <1>3, <2>1
<1>5. row.id = n + 1
  OBVIOUS
<1> HIDE DEF n
<1>6. /\ Refresh!Ids \subseteq Refresh!Ids' /\ row.id \in Refresh!Ids' \ Refresh!Ids
      /\ Refresh!Ids' = Refresh!Ids \cup {row.id}
  BY <1>1, <1>4, <1>5
<1>7. Sids \subseteq Sids' /\ 1 .. logins \subseteq 1 .. logins'
  <2>1. 1 .. logins \subseteq 1 .. logins'
    OBVIOUS
  <2> QED
    BY <1>6, <2>1 DEF Sids, Refresh!OfLogin, Refresh!OfRow
<1>8. rows' \subseteq RowRecords'
  BY <1>6, <1>7 DEF RowsNumbered, RowRecords
<1>9. /\ \A k \in Refresh!Ids' : \E r \in rows' : r.id = k
      /\ \A r, s \in rows' : r.id = s.id => r = s
  BY <1>6, RowOf DEF RowsNumbered
<1>10. RowsNumbered'
  BY <1>3, <1>8, <1>9 DEF RowsNumbered
<1>11. \A r \in rows' : Refresh!Row(r.id)' = r
  <2> SUFFICES ASSUME NEW r \in rows'
               PROVE  (CHOOSE s \in rows' : s.id = r.id) = r
    BY DEF Refresh!Row
  <2> QED
    BY <1>9
<1>12. \A k \in Refresh!Ids : Refresh!Row(k)' = Refresh!Row(k)
  BY <1>11, RowOf
<1> QED
  BY <1>6, <1>7, <1>10, <1>11, <1>12

(* A row is updated, and the others are not.                               *)
LEMMA RowChanged ==
  ASSUME RowsNumbered, NEW k \in Refresh!Ids, NEW row \in RowRecords, row.id = k,
         rows' = (rows \ {Refresh!Row(k)}) \cup {row}, logins' = logins
  PROVE  /\ RowsNumbered' /\ Refresh!Ids' = Refresh!Ids /\ Sids' = Sids
         /\ Refresh!Row(k)' = row
         /\ \A j \in Refresh!Ids \ {k} : Refresh!Row(j)' = Refresh!Row(j)
<1> DEFINE n == Cardinality(rows)
           old == Refresh!Row(k)
<1>1. n \in Nat /\ old \in rows /\ old.id = k
  BY FS_CardinalityType, RowOf DEF RowsNumbered
<1>2. row \notin rows \ {old}
  BY <1>1 DEF RowsNumbered
<1>3. IsFiniteSet(rows \ {old}) /\ Cardinality(rows \ {old}) = n - 1
  BY <1>1, FS_RemoveElement DEF RowsNumbered
<1>4. IsFiniteSet(rows') /\ Cardinality(rows') = n
  <2>1. Cardinality(rows') = (n - 1) + 1 /\ IsFiniteSet(rows')
    BY <1>2, <1>3, FS_AddElement
  <2> QED
    BY <1>1, <2>1
<1>5. Refresh!Ids' = Refresh!Ids
  <2>1. Refresh!Ids' = 1 .. Cardinality(rows')
    BY DEF Refresh!Ids, Refresh!Cardinality, Cardinality
  <2> QED
    BY <1>4, <2>1, IdsAre
<1>6. Sids' = Sids /\ RowRecords' = RowRecords
  BY <1>5 DEF Sids, RowRecords
<1> HIDE DEF n, old
<1>7. /\ \A j \in Refresh!Ids' : \E r \in rows' : r.id = j
      /\ \A r, s \in rows' : r.id = s.id => r = s
  <2>1. rows' = (rows \ {old}) \cup {row}
    BY DEF old
  <2>2. \A r \in rows \ {old} : r.id # k
    BY <1>1 DEF RowsNumbered
  <2>3. \A r, s \in rows' : r.id = s.id => r = s
    BY <2>1, <2>2 DEF RowsNumbered
  <2>4. \A j \in Refresh!Ids : \E r \in rows' : r.id = j
    BY <1>1, <2>1 DEF RowsNumbered
  <2> QED
    BY <1>5, <2>3, <2>4
<1>8. rows' \subseteq RowRecords'
  BY <1>6 DEF RowsNumbered
<1>9. RowsNumbered'
  BY <1>4, <1>7, <1>8 DEF RowsNumbered
<1>10. \A r \in rows' : Refresh!Row(r.id)' = r
  <2> SUFFICES ASSUME NEW r \in rows'
               PROVE  (CHOOSE s \in rows' : s.id = r.id) = r
    BY DEF Refresh!Row
  <2> QED
    BY <1>7
<1>11. \A j \in Refresh!Ids \ {k} : Refresh!Row(j) \in rows' /\ Refresh!Row(j).id = j
  BY <1>1, RowOf DEF old
<1> QED
  BY <1>5, <1>6, <1>9, <1>10, <1>11

------------------------------------------------------------------------------
(* An id has a sid, its own or that of its row.                            *)
LEMMA SidIs ==
  ASSUME RowsNumbered, NEW k \in Refresh!Ids
  PROVE  Sid(k) \in Sids /\ Sid(k) # None /\ Chain(k) \in 1 .. logins
<1>1. Refresh!Row(k) \in RowRecords /\ Refresh!Row(k).id = k
  BY RowOf DEF RowsNumbered
<1>2. k \in Nat
  BY FS_CardinalityType, IdsAre DEF RowsNumbered
<1>3. Refresh!OfRow(k) # None
  BY <1>2, RefreshAssumption DEF Refresh!RefreshAssumption, Refresh!OfRow
<1>4. Refresh!OfRow(k) \in Sids
  BY DEF Sids
<1> QED
  BY <1>1, <1>3, <1>4 DEF Sid, Chain, Refresh!SidOf, RowRecords

(* What a step leaves, but for the sid of the id `new`.                    *)
Kept(new) ==
  /\ Refresh!Ids \subseteq Refresh!Ids' /\ known \subseteq known' /\ broken \subseteq broken'
  /\ \A k \in Refresh!Ids : Chain(k)' = Chain(k)
  /\ \A k \in Refresh!Ids \ {new} : Sid(k)' = Sid(k)

LEMMA OtherRefresh ==
  ASSUME NEW q \in Refreshes, NEW new, RefreshOK(q), known \subseteq Refresh!Ids, new \notin known,
         Kept(new), request'[q] = request[q], HasNew(q) => request[q].new # new,
         request[q].pc = "carry" => request[q].new \notin known'
  PROVE  RefreshOK(q)'
BY DEF RefreshOK, HasNew, Kept

LEMMA StillAgree ==
  ASSUME Agree(Told), broken \subseteq broken', \A t \in Told' : t \in Told \/ t.chain \in broken'
  PROVE  Agree(Told)'
BY DEF Agree

LEMMA RowsStay ==
  ASSUME RowsNumbered, UNCHANGED <<rows, logins>>
  PROVE  /\ RowsNumbered' /\ Refresh!Ids' = Refresh!Ids /\ Sids' = Sids
         /\ RefreshRecords' = RefreshRecords
         /\ \A k : Chain(k)' = Chain(k) /\ Sid(k)' = Sid(k)
<1>1. Refresh!Ids' = Refresh!Ids
  BY DEF Refresh!Ids
<1>2. Sids' = Sids
  BY <1>1 DEF Sids
<1>3. RowRecords' = RowRecords /\ RefreshRecords' = RefreshRecords
  BY <1>1, <1>2 DEF RowRecords, RefreshRecords
<1>4. RowsNumbered'
  BY <1>1, <1>3 DEF RowsNumbered
<1>5. \A k : Refresh!Row(k)' = Refresh!Row(k)
  BY DEF Refresh!Row
<1>6. \A k : Chain(k)' = Chain(k) /\ Sid(k)' = Sid(k)
  BY <1>5 DEF Chain, Sid, Refresh!SidOf, Refresh!OfRow
<1> QED
  BY <1>1, <1>2, <1>3, <1>4, <1>6

(* A step of request r that writes no row; it may make a token known that  *)
(* no other request holds.                                                 *)
LEMMA RefreshMoves ==
  ASSUME RefreshInv, NEW r \in Refreshes, NEW x \in RefreshRecords,
         request' = [request EXCEPT ![r] = x], UNCHANGED <<rows, logins>>,
         known \subseteq known', known' \subseteq Refresh!Ids, broken \subseteq broken',
         \A m \in minted' : m.chain \in 1 .. logins,
         \A q \in Refreshes \ {r} : request[q].pc = "carry" => request[q].new \notin known',
         x.pc \in {"carry", "mint"} => HasNew(r) /\ x.new = request[r].new,
         \A t \in Told' : t \in Told \/ t.chain \in broken',
         request'[r] = x => RefreshOK(r)'
  PROVE  RefreshInv'
<1>1. RefreshTypes /\ RowsNumbered
  BY DEF RefreshInv, RefreshTypes
<1>2. /\ RowsNumbered' /\ Refresh!Ids' = Refresh!Ids /\ RefreshRecords' = RefreshRecords
      /\ \A k : Chain(k)' = Chain(k) /\ Sid(k)' = Sid(k)
  BY <1>1, RowsStay
<1>3. /\ request' \in [Refreshes -> RefreshRecords] /\ request'[r] = x
      /\ \A q \in Refreshes \ {r} : request'[q] = request[q]
  BY <1>1 DEF RefreshTypes
<1>4. RefreshTypes'
  BY <1>1, <1>2, <1>3 DEF RefreshTypes
<1>5. Agree(Told)'
  BY StillAgree DEF RefreshInv
<1>6. ASSUME NEW q \in Refreshes \ {r}
      PROVE  RefreshOK(q)'
  <2>1. request'[q] = request[q] /\ RefreshOK(q)
    BY <1>3 DEF RefreshInv
  <2> QED
    BY <1>2, <2>1 DEF RefreshOK, HasNew
<1>7. NewsDiffer'
  BY <1>3 DEF RefreshInv, NewsDiffer, HasNew
<1> QED
  BY <1>3, <1>4, <1>5, <1>6, <1>7 DEF RefreshInv

LEMMA RefreshIdle ==
  /\ Refresh!Idle \in RefreshRecords
  /\ Refresh!Idle.pc = "idle"
BY DEF Refresh!Idle, RefreshRecords

(* A request ends, with the token it made or without.                      *)
LEMMA RefreshEnds ==
  ASSUME RefreshInv, NEW r \in Refreshes, request' = [request EXCEPT ![r] = Refresh!Idle],
         UNCHANGED <<rows, logins, broken>>,
         \/ known' = known /\ minted' = minted
         \/ /\ request[r].pc = "mint" /\ known' = known \cup {request[r].new}
            /\ minted' \subseteq minted \cup
                 {[chain |-> Chain(request[r].new), sid |-> Sid(request[r].new)]}
  PROVE  RefreshInv'
<1> DEFINE new == request[r].new
           old == request[r].old
           fact(k) == [chain |-> Chain(k), sid |-> Sid(k)]
<1>1. RefreshTypes /\ RowsNumbered /\ RefreshOK(r) /\ NewsDiffer
      /\ known \subseteq Refresh!Ids /\ \A m \in minted : m.chain \in 1 .. logins
  BY DEF RefreshInv, RefreshTypes
<1>2. \A k : Chain(k)' = Chain(k) /\ Sid(k)' = Sid(k)
  BY <1>1, RowsStay
<1>3. request'[r] = Refresh!Idle => RefreshOK(r)'
  BY RefreshIdle DEF RefreshOK, HasNew
<1>4. CASE known' = known /\ minted' = minted
  <2>1. Told' = Told
    BY <1>2, <1>4 DEF Told
  <2>2. \A q \in Refreshes : request[q].pc = "carry" => request[q].new \notin known'
    BY <1>4 DEF RefreshInv, RefreshOK
  <2> QED
    BY <1>1, <1>3, <1>4, <2>1, <2>2, RefreshMoves, RefreshIdle
<1>5. CASE /\ request[r].pc = "mint" /\ known' = known \cup {new}
           /\ minted' \subseteq minted \cup {fact(new)}
  <2>1. /\ old \in known /\ new \in Refresh!Ids /\ Chain(new) = Chain(old)
        /\ Chain(old) \in broken \/ Sid(new) = Sid(old)
    BY <1>1, <1>5 DEF RefreshOK, HasNew
  <2>2. Chain(new) \in 1 .. logins
    BY <1>1, <2>1, SidIs
  <2>3. fact(old) \in Told
    BY <2>1 DEF Told
  <2>4. Told' \subseteq Told \cup {fact(new)}
    BY <1>2, <1>5 DEF Told
  <2>5. fact(new) \in Told \/ fact(new).chain \in broken'
    BY <2>1, <2>3
  <2>6. \A q \in Refreshes \ {r} : request[q].pc = "carry" => request[q].new \notin known'
    BY <1>1, <1>5 DEF RefreshInv, RefreshOK, NewsDiffer, HasNew
  <2>7. \A m \in minted' : m.chain \in 1 .. logins
    BY <1>1, <1>5, <2>2
  <2>8. known \subseteq known' /\ known' \subseteq Refresh!Ids
    BY <1>1, <1>5, <2>1
  <2>9. \A t \in Told' : t \in Told \/ t.chain \in broken'
    BY <2>4, <2>5
  <2> HIDE DEF fact, new, old
  <2> QED
    BY <1>1, <1>3, <2>6, <2>7, <2>8, <2>9, RefreshMoves, RefreshIdle
<1> QED
  BY <1>4, <1>5

------------------------------------------------------------------------------
(* The old token's session is read, or is not.                             *)
LEMMA ReadSteps ==
  ASSUME RefreshInv, NEW r \in Refreshes, Refresh!ReadSession(r) \/ Refresh!ReadFails(r)
  PROVE  RefreshInv'
<1>1. RefreshTypes /\ RowsNumbered /\ known \subseteq Refresh!Ids
      /\ \A m \in minted : m.chain \in 1 .. logins
  BY DEF RefreshInv, RefreshTypes
<1>2. /\ UNCHANGED <<rows, known, minted, logins>> /\ broken \subseteq broken'
      /\ \A k : Chain(k)' = Chain(k) /\ Sid(k)' = Sid(k)
  <2>1. UNCHANGED <<rows, known, minted, logins>> /\ broken \subseteq broken'
    BY DEF Refresh!ReadSession, Refresh!ReadFails
  <2> QED
    BY <1>1, <2>1, RowsStay
<1>3. PICK id \in known, x \in RefreshRecords :
        /\ request' = [request EXCEPT ![r] = x] /\ x.pc = "rotate" /\ x.old = id
        /\ Chain(id) \in broken' \/ x.sid = Sid(id)
  <2>1. CASE Refresh!ReadSession(r)
    <3>1. PICK id \in known : request' = [request EXCEPT ![r] =
            [Refresh!Idle EXCEPT !.pc = "rotate", !.old = id, !.sid = Sid(id)]]
      BY <2>1 DEF Refresh!ReadSession, Sid
    <3> DEFINE x == [Refresh!Idle EXCEPT !.pc = "rotate", !.old = id, !.sid = Sid(id)]
    <3>2. Sid(id) \in Sids /\ id \in Refresh!Ids
      BY <1>1, SidIs
    <3>3. x \in RefreshRecords /\ x.pc = "rotate" /\ x.old = id /\ x.sid = Sid(id)
      BY <3>2 DEF Refresh!Idle, RefreshRecords
    <3> QED
      BY <3>1, <3>3
  <2>2. CASE Refresh!ReadFails(r)
    <3>1. PICK id \in known :
            /\ request' = [request EXCEPT ![r] = [Refresh!Idle EXCEPT !.pc = "rotate", !.old = id]]
            /\ Chain(id) \in broken'
      BY <2>2 DEF Refresh!ReadFails, Chain
    <3> DEFINE x == [Refresh!Idle EXCEPT !.pc = "rotate", !.old = id]
    <3>2. x \in RefreshRecords /\ x.pc = "rotate" /\ x.old = id
      BY <1>1 DEF Refresh!Idle, RefreshRecords
    <3> QED
      BY <3>1, <3>2
  <2> QED
    BY <2>1, <2>2
<1>4. request'[r] = x => RefreshOK(r)'
  BY <1>2, <1>3 DEF RefreshOK, HasNew
<1>5. Told' = Told
  BY <1>2 DEF Told
<1>6. \A q \in Refreshes : request[q].pc = "carry" => request[q].new \notin known'
  BY <1>2 DEF RefreshInv, RefreshOK
<1> QED
  BY <1>1, <1>2, <1>3, <1>4, <1>5, <1>6, RefreshMoves

(* The row of the new tokens.                                              *)
LEMMA RotateStep ==
  ASSUME RefreshInv, NEW r \in Refreshes, Refresh!Rotate(r)
  PROVE  RefreshInv'
<1> DEFINE old == request[r].old
           sid == request[r].sid
<1>0. PICK row : row = Refresh!NewRow(None, Chain(old))
  OBVIOUS
<1> DEFINE x == [request[r] EXCEPT !.pc = IF sid # None THEN "carry" ELSE "mint", !.new = row.id]
<1>1. /\ RefreshTypes /\ RowsNumbered /\ known \subseteq Refresh!Ids /\ logins \in Nat
      /\ \A m \in minted : m.chain \in 1 .. logins
      /\ request[r] \in RefreshRecords /\ RefreshOK(r) /\ NewsDiffer
  BY DEF RefreshInv, RefreshTypes
<1>2. /\ request[r].pc = "rotate" /\ rows' = rows \cup {row}
      /\ request' = [request EXCEPT ![r] = x]
      /\ UNCHANGED <<known, minted, broken, logins>>
  BY <1>0 DEF Refresh!Rotate, Chain
<1>3. /\ old \in known /\ old \in Refresh!Ids /\ Chain(old) \in 1 .. logins
      /\ Chain(old) \in broken \/ (sid = Sid(old) /\ sid # None)
  BY <1>1, <1>2, SidIs DEF RefreshOK
<1>4. row.id = Cardinality(rows) + 1
  BY <1>0 DEF Refresh!NewRow, Refresh!Cardinality, Cardinality
<1>5. row \in RowRecords'
  <2>1. Cardinality(rows) \in Nat /\ Refresh!Ids = 1 .. Cardinality(rows)
    BY <1>1, FS_CardinalityType, IdsAre DEF RowsNumbered
  <2>2. row \notin rows
    BY <1>1, <1>4, <2>1, RowOf
  <2>3. Cardinality(rows') = Cardinality(rows) + 1
    BY <1>1, <1>2, <2>2, FS_AddElement DEF RowsNumbered
  <2>4. Refresh!Ids' = 1 .. Cardinality(rows')
    BY DEF Refresh!Ids, Refresh!Cardinality, Cardinality
  <2>5. row.id \in Refresh!Ids'
    BY <1>4, <2>1, <2>3, <2>4
  <2>6. row = [id |-> row.id, sid |-> None, chain |-> Chain(old)]
    BY <1>0 DEF Refresh!NewRow
  <2> QED
    BY <1>2, <1>3, <2>5, <2>6 DEF RowRecords
<1>6. row.sid = None /\ row.chain = Chain(old)
  BY <1>0 DEF Refresh!NewRow
<1>7. /\ RowsNumbered' /\ Refresh!Ids \subseteq Refresh!Ids' /\ Sids \subseteq Sids'
      /\ row.id \in Refresh!Ids' \ Refresh!Ids
      /\ Refresh!Row(row.id)' = row
      /\ \A k \in Refresh!Ids : Refresh!Row(k)' = Refresh!Row(k)
  <2>1. rows' = rows \cup {row} /\ logins' = logins /\ logins \in Nat /\ RowsNumbered
    BY <1>1, <1>2
  <2>2. logins' \in Nat /\ logins <= logins'
    BY <2>1
  <2> HIDE DEF x, old, sid
  <2> QED
    BY <1>4, <1>5, <2>1, <2>2, RowAdded
<1>8. /\ \A k \in Refresh!Ids : Chain(k)' = Chain(k) /\ Sid(k)' = Sid(k)
      /\ Chain(row.id)' = Chain(old)
  BY <1>6, <1>7 DEF Chain, Sid, Refresh!SidOf, Refresh!OfRow
<1>9. /\ x \in RefreshRecords' /\ x.old = old /\ x.new = row.id /\ x.sid = sid
      /\ x.pc = (IF sid # None THEN "carry" ELSE "mint")
      /\ RefreshRecords \subseteq RefreshRecords'
  BY <1>1, <1>7 DEF RefreshRecords
<1> HIDE DEF x
<1>10. /\ request' \in [Refreshes -> RefreshRecords'] /\ request'[r] = x
       /\ \A q \in Refreshes \ {r} : request'[q] = request[q]
  BY <1>1, <1>2, <1>9 DEF RefreshTypes
<1>11. RefreshTypes'
  BY <1>1, <1>2, <1>7, <1>10 DEF RefreshTypes
<1>12. Told' = Told
  BY <1>1, <1>2, <1>8 DEF Told
<1>13. Agree(Told)'
  BY <1>2, <1>12 DEF RefreshInv, Agree
<1>14. RefreshOK(r)'
  <2>1. /\ request'[r].old = old /\ request'[r].new = row.id /\ request'[r].sid = sid
        /\ request'[r].pc = (IF sid # None THEN "carry" ELSE "mint")
    BY <1>9, <1>10
  <2>2. /\ old \in known' /\ broken' = broken /\ row.id \in Refresh!Ids' /\ row.id \notin known'
    BY <1>1, <1>2, <1>3, <1>7
  <2>3. PICK o, n : o = old /\ n = row.id
    OBVIOUS
  <2>4. Chain(o)' = Chain(o) /\ Sid(o)' = Sid(o) /\ Chain(n)' = Chain(o)
    BY <1>3, <1>8, <2>3
  <2>5. Chain(o) \in broken \/ (sid = Sid(o) /\ sid # None)
    BY <1>3, <2>3
  <2> HIDE DEF old, sid
  <2> QED
    BY <2>1, <2>2, <2>3, <2>4, <2>5 DEF RefreshOK, HasNew
<1>15. ASSUME NEW q \in Refreshes \ {r}
       PROVE  RefreshOK(q)'
  <2>1. RefreshOK(q) /\ request'[q] = request[q]
    BY <1>10 DEF RefreshInv
  <2> QED
    BY <1>1, <1>2, <1>7, <1>8, <2>1 DEF RefreshOK, HasNew
<1>16. NewsDiffer'
  <2>1. \A q \in Refreshes : HasNew(q) => request[q].new \in Refresh!Ids
    BY DEF RefreshInv, RefreshOK
  <2> QED
    BY <1>1, <1>7, <1>9, <1>10, <2>1 DEF NewsDiffer, HasNew
<1> QED
  BY <1>11, <1>13, <1>14, <1>15, <1>16 DEF RefreshInv

(* The session is written to the new row, which nobody else has.           *)
LEMMA CarryStep ==
  ASSUME RefreshInv, NEW r \in Refreshes, Refresh!Carry(r)
  PROVE  RefreshInv'
<1>0. PICK old, new, sid, was :
        /\ old = request[r].old /\ new = request[r].new /\ sid = request[r].sid
        /\ was = Refresh!Row(new)
  OBVIOUS
<1>1. /\ RefreshTypes /\ RowsNumbered /\ known \subseteq Refresh!Ids
      /\ request[r] \in RefreshRecords /\ RefreshOK(r) /\ NewsDiffer
      /\ \A m \in minted : m.chain \in 1 .. logins
  BY DEF RefreshInv, RefreshTypes
<1>2. /\ request[r].pc = "carry" /\ request' = [request EXCEPT ![r].pc = "mint"]
      /\ rows' = (rows \ {was}) \cup {[was EXCEPT !.sid = sid]}
      /\ UNCHANGED <<known, minted, broken, logins>>
  BY <1>0 DEF Refresh!Carry, Refresh!CarriedTo
<1>3. /\ old \in known /\ new \in Refresh!Ids /\ new \notin known /\ Chain(new) = Chain(old)
      /\ sid \in Sids /\ sid # None
      /\ Chain(old) \in broken \/ sid = Sid(old)
  BY <1>0, <1>1, <1>2 DEF RefreshOK, HasNew, RefreshRecords
<1>4. PICK row : row = [was EXCEPT !.sid = sid]
  OBVIOUS
<1>5. /\ row \in RowRecords /\ row.id = new /\ row.sid = sid /\ row.chain = was.chain
  <2>1. was \in RowRecords /\ was.id = new
    BY <1>0, <1>1, <1>3, RowOf DEF RowsNumbered
  <2> QED
    BY <1>3, <1>4, <2>1 DEF RowRecords
<1>6. /\ RowsNumbered' /\ Refresh!Ids' = Refresh!Ids /\ Sids' = Sids
      /\ Refresh!Row(new)' = row
      /\ \A k \in Refresh!Ids \ {new} : Refresh!Row(k)' = Refresh!Row(k)
  <2>1. rows' = (rows \ {Refresh!Row(new)}) \cup {row}
    BY <1>0, <1>2, <1>4
  <2> QED
    BY <1>1, <1>2, <1>3, <1>5, <2>1, RowChanged
<1>7. /\ \A k \in Refresh!Ids \ {new} : Chain(k)' = Chain(k) /\ Sid(k)' = Sid(k)
      /\ Chain(new)' = Chain(new) /\ Sid(new)' = sid
  BY <1>0, <1>3, <1>5, <1>6 DEF Chain, Sid, Refresh!SidOf, Refresh!OfRow
<1>8. PICK x \in RefreshRecords :
        /\ x.pc = "mint" /\ x.old = old /\ x.new = new /\ request' = [request EXCEPT ![r] = x]
  <2> DEFINE x == [request[r] EXCEPT !.pc = "mint"]
  <2>1. x \in RefreshRecords /\ x.pc = "mint" /\ x.old = old /\ x.new = new
    BY <1>0, <1>1 DEF RefreshRecords
  <2> QED
    BY <1>2, <2>1
<1>9. /\ request' \in [Refreshes -> RefreshRecords] /\ request'[r] = x
      /\ \A q \in Refreshes \ {r} : request'[q] = request[q]
  BY <1>1, <1>8 DEF RefreshTypes
<1>10. RefreshRecords' = RefreshRecords
  BY <1>6 DEF RefreshRecords
<1>11. RefreshTypes'
  BY <1>1, <1>2, <1>6, <1>9, <1>10 DEF RefreshTypes
<1>12. Agree(Told)'
  <2>1. Told' = Told
    BY <1>1, <1>2, <1>3, <1>7 DEF Told
  <2> QED
    BY <1>2, <2>1 DEF RefreshInv, Agree
<1>13. RefreshOK(r)'
  <2>1. Chain(old)' = Chain(old) /\ Sid(old)' = Sid(old)
    BY <1>1, <1>3, <1>7
  <2>2. Chain(old)' \in broken' \/ Sid(new)' = Sid(old)'
    BY <1>2, <1>3, <1>7, <2>1
  <2>3. Chain(new)' = Chain(old)' /\ old \in known' /\ new \in Refresh!Ids'
    BY <1>2, <1>3, <1>6, <1>7, <2>1
  <2> QED
    BY <1>8, <1>9, <2>2, <2>3 DEF RefreshOK, HasNew
<1>14. ASSUME NEW q \in Refreshes \ {r}
       PROVE  RefreshOK(q)'
  <2>1. RefreshOK(q) /\ request'[q] = request[q]
    BY <1>9 DEF RefreshInv
  <2>2. Kept(new)
    BY <1>2, <1>6, <1>7 DEF Kept
  <2>3. HasNew(q) => request[q].new # new
    BY <1>0, <1>1, <1>2 DEF NewsDiffer, HasNew
  <2>4. request[q].pc = "carry" => request[q].new \notin known'
    BY <1>2, <2>1 DEF RefreshOK
  <2> QED
    BY <1>1, <1>3, <2>1, <2>2, <2>3, <2>4, OtherRefresh
<1>15. NewsDiffer'
  BY <1>0, <1>1, <1>2, <1>8, <1>9 DEF NewsDiffer, HasNew
<1> QED
  BY <1>11, <1>12, <1>13, <1>14, <1>15 DEF RefreshInv

(* The write fails, and breaks the chain.                                  *)
LEMMA CarryFailsStep ==
  ASSUME RefreshInv, NEW r \in Refreshes, Refresh!CarryFails(r)
  PROVE  RefreshInv'
<1>1. /\ RefreshTypes /\ RowsNumbered /\ known \subseteq Refresh!Ids
      /\ request[r] \in RefreshRecords /\ RefreshOK(r)
      /\ \A m \in minted : m.chain \in 1 .. logins
  BY DEF RefreshInv, RefreshTypes
<1>2. /\ request[r].pc = "carry" /\ request' = [request EXCEPT ![r].pc = "mint"]
      /\ broken' = broken \cup {Chain(request[r].old)}
      /\ UNCHANGED <<rows, known, minted, logins>>
  BY DEF Refresh!CarryFails, Refresh!Breaks, Chain
<1>3. PICK x \in RefreshRecords :
        /\ x.pc = "mint" /\ x.old = request[r].old /\ x.new = request[r].new
        /\ request' = [request EXCEPT ![r] = x]
  <2> DEFINE x == [request[r] EXCEPT !.pc = "mint"]
  <2>1. x \in RefreshRecords /\ x.pc = "mint" /\ x.old = request[r].old /\ x.new = request[r].new
    BY <1>1 DEF RefreshRecords
  <2> QED
    BY <1>2, <2>1
<1>4. /\ \A k : Chain(k)' = Chain(k) /\ Sid(k)' = Sid(k)
      /\ Refresh!Ids' = Refresh!Ids
  BY <1>1, <1>2, RowsStay
<1>5. Told' = Told
  BY <1>2, <1>4 DEF Told
<1>6. request'[r] = x => RefreshOK(r)'
  BY <1>1, <1>2, <1>3, <1>4 DEF RefreshOK, HasNew
<1>7. \A q \in Refreshes : request[q].pc = "carry" => request[q].new \notin known'
  BY <1>2 DEF RefreshInv, RefreshOK
<1> QED
  BY <1>1, <1>2, <1>3, <1>5, <1>6, <1>7, RefreshMoves DEF HasNew

(* A login begins a chain.                                                 *)
LEMMA LoginStep ==
  ASSUME RefreshInv, Refresh!Login
  PROVE  RefreshInv'
<1>1. /\ RefreshTypes /\ RowsNumbered /\ known \subseteq Refresh!Ids /\ logins \in Nat
      /\ \A m \in minted : m.chain \in 1 .. logins
      /\ \A r \in Refreshes : RefreshOK(r)
  BY DEF RefreshInv, RefreshTypes
<1>2. /\ logins' = logins + 1 /\ UNCHANGED <<request, broken>>
  BY DEF Refresh!Login
<1>3. PICK sid \in {Refresh!OfLogin(logins'), None} : \E row :
        /\ row = [id |-> Cardinality(rows) + 1, sid |-> sid, chain |-> logins']
        /\ rows' = rows \cup {row} /\ known' = known \cup {row.id}
        /\ minted' = minted \cup {[chain |-> row.chain, sid |-> Refresh!SidOf(row)]}
  BY DEF Refresh!Login, Refresh!NewRow, Refresh!Mints, Refresh!SidOf,
     Refresh!Cardinality, Cardinality
<1>4. PICK row :
        /\ row = [id |-> Cardinality(rows) + 1, sid |-> sid, chain |-> logins']
        /\ rows' = rows \cup {row} /\ known' = known \cup {row.id}
        /\ minted' = minted \cup {[chain |-> row.chain, sid |-> Refresh!SidOf(row)]}
  BY <1>3
<1>5. row \in RowRecords'
  <2>1. Cardinality(rows) \in Nat /\ Refresh!Ids = 1 .. Cardinality(rows)
    BY <1>1, FS_CardinalityType, IdsAre DEF RowsNumbered
  <2>2. row \notin rows
    BY <1>1, <1>4, <2>1, RowOf
  <2>3. Cardinality(rows') = Cardinality(rows) + 1
    BY <1>1, <1>4, <2>2, FS_AddElement DEF RowsNumbered
  <2>4. Refresh!Ids' = 1 .. Cardinality(rows')
    BY DEF Refresh!Ids, Refresh!Cardinality, Cardinality
  <2>5. row.id \in Refresh!Ids' /\ row.chain \in 1 .. logins'
    BY <1>1, <1>2, <1>4, <2>1, <2>3, <2>4
  <2>6. sid \in Sids' \cup {None}
    <3>1. logins' \in 1 .. logins'
      BY <1>1, <1>2
    <3> QED
      BY <3>1 DEF Sids
  <2> QED
    BY <1>4, <2>5, <2>6 DEF RowRecords
<1>6. /\ RowsNumbered' /\ Refresh!Ids \subseteq Refresh!Ids' /\ Sids \subseteq Sids'
      /\ row.id \in Refresh!Ids' \ Refresh!Ids
      /\ Refresh!Row(row.id)' = row
      /\ \A k \in Refresh!Ids : Refresh!Row(k)' = Refresh!Row(k)
  <2>1. logins' \in Nat /\ logins <= logins' /\ row.id = Cardinality(rows) + 1
    BY <1>1, <1>2, <1>4
  <2> QED
    BY <1>1, <1>4, <1>5, <2>1, RowAdded
<1>7. /\ \A k \in Refresh!Ids : Chain(k)' = Chain(k) /\ Sid(k)' = Sid(k)
      /\ Chain(row.id)' = logins' /\ Sid(row.id)' = Refresh!SidOf(row)
  BY <1>4, <1>6 DEF Chain, Sid, Refresh!SidOf, Refresh!OfRow
<1>8. /\ 1 .. logins \subseteq 1 .. logins' /\ logins' \in 1 .. logins' /\ logins' \notin 1 .. logins
  BY <1>1, <1>2
<1>9. RefreshTypes'
  <2>1. RefreshRecords \subseteq RefreshRecords'
    BY <1>6 DEF RefreshRecords
  <2>2. request' \in [Refreshes -> RefreshRecords'] /\ logins' \in Nat
    BY <1>1, <1>2, <2>1 DEF RefreshTypes
  <2>3. known' \subseteq Refresh!Ids' /\ \A m \in minted' : m.chain \in 1 .. logins'
    BY <1>1, <1>4, <1>6, <1>8
  <2> QED
    BY <1>6, <2>2, <2>3 DEF RefreshTypes
<1>10. Agree(Told)'
  <2> DEFINE fact == [chain |-> logins', sid |-> Refresh!SidOf(row)]
  <2>1. Told' = Told \cup {fact}
    BY <1>1, <1>4, <1>7 DEF Told
  <2>2. \A t \in Told : t.chain # fact.chain
    BY <1>1, <1>8, SidIs DEF Told
  <2> HIDE DEF fact
  <2> QED
    BY <1>2, <2>1, <2>2 DEF RefreshInv, Agree
<1>11. ASSUME NEW q \in Refreshes
       PROVE  RefreshOK(q)'
  <2>1. Kept(row.id)
    BY <1>2, <1>4, <1>6, <1>7 DEF Kept
  <2>2. row.id \notin known /\ request'[q] = request[q] /\ RefreshOK(q)
    BY <1>1, <1>2, <1>6
  <2>3. HasNew(q) => request[q].new # row.id
    BY <1>6, <2>2 DEF RefreshOK
  <2>4. request[q].pc = "carry" => request[q].new \notin known'
    BY <1>4, <2>2, <2>3 DEF RefreshOK, HasNew
  <2> QED
    BY <1>1, <2>1, <2>2, <2>3, <2>4, OtherRefresh
<1>12. NewsDiffer'
  BY <1>2 DEF RefreshInv, NewsDiffer, HasNew
<1> QED
  BY <1>9, <1>10, <1>11, <1>12 DEF RefreshInv

------------------------------------------------------------------------------
LEMMA InitRefresh == Refresh!Init => RefreshInv
<1> SUFFICES ASSUME Refresh!Init
             PROVE  RefreshInv
  OBVIOUS
<1>1. Refresh!Ids = {}
  BY IdsAre, FS_EmptySet DEF Refresh!Init
<1>2. RowsNumbered
  BY <1>1, FS_EmptySet DEF Refresh!Init, RowsNumbered
<1>3. \A r \in Refreshes : request[r] = Refresh!Idle
  BY DEF Refresh!Init
<1>4. RefreshTypes
  BY <1>1, <1>2, RefreshIdle DEF Refresh!Init, RefreshTypes
<1>5. Told = {}
  BY DEF Refresh!Init, Told
<1> QED
  BY <1>3, <1>4, <1>5, RefreshIdle DEF RefreshInv, Agree, RefreshOK, HasNew, NewsDiffer

LEMMA StepRefresh == RefreshInv /\ [Refresh!Next]_Refresh!vars => RefreshInv'
<1> SUFFICES ASSUME RefreshInv, [Refresh!Next]_Refresh!vars
             PROVE  RefreshInv'
  OBVIOUS
<1>1. CASE UNCHANGED Refresh!vars
  <2>1. UNCHANGED <<rows, request, known, minted, broken, logins>>
    BY <1>1 DEF Refresh!vars
  <2>2. RowsNumbered /\ RefreshTypes
    BY DEF RefreshInv, RefreshTypes
  <2>3. /\ RowsNumbered' /\ Refresh!Ids' = Refresh!Ids /\ Sids' = Sids
        /\ RefreshRecords' = RefreshRecords
        /\ \A k : Chain(k)' = Chain(k) /\ Sid(k)' = Sid(k)
    BY <2>1, <2>2, RowsStay
  <2>4. RefreshTypes'
    BY <2>1, <2>2, <2>3 DEF RefreshTypes
  <2>5. Agree(Told)' /\ NewsDiffer'
    BY <2>1, <2>3 DEF RefreshInv, Agree, Told, NewsDiffer, HasNew
  <2>6. \A r \in Refreshes : RefreshOK(r)'
    BY <2>1, <2>3 DEF RefreshInv, RefreshOK, HasNew
  <2> QED
    BY <2>4, <2>5, <2>6 DEF RefreshInv
<1>2. ASSUME NEW r \in Refreshes, Refresh!Answer(r) \/ Refresh!MintFails(r) \/ Refresh!Dies(r)
      PROVE  RefreshInv'
  <2>1. CASE Refresh!Answer(r)
    <3>1. Refresh!Row(request[r].new).id = request[r].new
      <4>1. RefreshOK(r) /\ RowsNumbered /\ request[r].pc = "mint"
        BY <2>1 DEF RefreshInv, RefreshTypes, Refresh!Answer
      <4> QED
        BY <4>1, RowOf DEF RefreshOK, HasNew
    <3>2. /\ request' = [request EXCEPT ![r] = Refresh!Idle]
          /\ UNCHANGED <<rows, logins, broken>> /\ request[r].pc = "mint"
          /\ known' = known \cup {request[r].new}
          /\ minted' = minted \cup {[chain |-> Chain(request[r].new), sid |-> Sid(request[r].new)]}
      BY <2>1, <3>1 DEF Refresh!Answer, Refresh!Mints, Chain, Sid, Refresh!SidOf
    <3> QED
      BY <3>2, RefreshEnds
  <2>2. CASE Refresh!MintFails(r)
    BY <2>2, RefreshEnds DEF Refresh!MintFails
  <2>3. CASE Refresh!Dies(r)
    BY <2>3, RefreshEnds DEF Refresh!Dies
  <2> QED
    BY <1>2, <2>1, <2>2, <2>3
<1> QED
  BY <1>1, <1>2, LoginStep, ReadSteps, RotateStep, CarryStep, CarryFailsStep DEF Refresh!Next

(* However many refreshes of a chain of tokens run at once, whichever of   *)
(* their tokens is refreshed again, and whatever requests die: as long as  *)
(* the sid was read and written every time, the id_tokens of the chain     *)
(* have the same one.                                                      *)
THEOREM ChainKeepsSid == Refresh!Spec => []RefreshInvariant
<1>1. RefreshInv => RefreshInvariant
  <2> SUFFICES ASSUME RefreshInv
               PROVE  RefreshInvariant
    OBVIOUS
  <2>1. RefreshTypes /\ RowsNumbered
    BY DEF RefreshInv, RefreshTypes
  <2>2. {row.id : row \in rows} = Refresh!Ids
    BY <2>1, RowOf DEF RowsNumbered
  <2>3. known \subseteq Refresh!Ids
        /\ \A r \in Refreshes : {request[r].old, request[r].new} \subseteq Refresh!Ids \cup {None}
    BY <2>1 DEF RefreshTypes, RefreshRecords
  <2>4. \A row \in rows : row.sid # None => row.sid.id \in Refresh!Ids \cup 1 .. logins
    BY <2>1 DEF RowsNumbered, RowRecords, Sids, Refresh!OfLogin, Refresh!OfRow
  <2>5. Refresh!SidKept
    BY DEF RefreshInv, Agree, Told, Refresh!SidKept
  <2> QED
    BY <2>2, <2>3, <2>4, <2>5 DEF RefreshInvariant, Refresh!RefreshInvariant, Refresh!TypeOK
<1> QED
  BY <1>1, InitRefresh, StepRefresh, PTL DEF Refresh!Spec
==============================================================================
