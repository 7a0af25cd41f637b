------------------------------ MODULE OidcGrants ------------------------------
(***************************************************************************)
(* API scopes of OIDC tokens.  A client asks for scopes, by an authorize   *)
(* request (the webapp) or a device code (the CLI); the user accepts; what *)
(* was accepted is added to the stored grants of user and client, a read,  *)
(* a merge and a write (addUserOidcGrantScopes); and the token has those   *)
(* of the requested scopes that are stored when it is issued.              *)
(*                                                                         *)
(* One user with a verified address.  better-auth keeps the codes: what it *)
(* does to them is one step, as the routes see it.                         *)
(***************************************************************************)
EXTENDS Integers, FiniteSets

CONSTANTS Scopes, Allowed,      \* API scopes; those the client may have
          Requests,             \* sets of scopes that are asked for
          Flows, Kind,          \* authorisations, of the webapp or of a device
          Approvals, Exchanges, \* requests that accept, that ask for the token
          None,
          MaxAdmin, MaxRevokes, MaxFaults \* bounds

Kinds == {"web", "device"}

ASSUME OidcAssumption ==
  /\ Allowed \subseteq Scopes /\ Requests \subseteq SUBSET Scopes
  /\ Kind \in [Flows -> Kinds] /\ None \notin Flows
  /\ {MaxAdmin, MaxRevokes, MaxFaults} \subseteq Nat

VARIABLES flow,      \* the code: who has answered, and the scope asked for
          approval, exchange,
          grants,    \* oidcUserGrant, per client; no row is no scope
          tokens,    \* tokens that are stored
          issued,    \* every token that was
          agreed,    \* scopes accepted and not taken back since
          removed,   \* scopes that were taken out as not granted
          admin, revokes, faults

ghosts == <<issued, agreed, removed>>
budget == <<admin, revokes, faults>>
vars == <<flow, approval, exchange, grants, tokens, ghosts, budget>>

NoApproval == [pc |-> "idle", flow |-> None, read |-> {}]
NoExchange == [pc |-> "idle", flow |-> None, scopes |-> {}]
NoGrants == [k \in Kinds |-> {}]

Init ==
  /\ flow = [f \in Flows |-> [pc |-> "none", scope |-> {}]]
  /\ approval = [a \in Approvals |-> NoApproval]
  /\ exchange = [e \in Exchanges |-> NoExchange]
  /\ grants = NoGrants /\ tokens = {}
  /\ issued = {} /\ agreed = NoGrants /\ removed = {}
  /\ admin = 0 /\ revokes = 0 /\ faults = 0

Add(record, k, scopes) == [record EXCEPT ![k] = @ \cup scopes]

------------------------------------------------------------------------------
(* An authorize request is cut to what the client may have; a request for  *)
(* a device code is, if it is a form.                                      *)
Ask(f) ==
  /\ flow[f].pc = "none"
  /\ \E scope \in Requests, cut \in (IF Kind[f] = "web" THEN {TRUE} ELSE BOOLEAN) :
       flow' = [flow EXCEPT ![f] =
         [pc |-> "asked", scope |-> IF cut THEN scope \cap Allowed ELSE scope]]
  /\ UNCHANGED <<approval, exchange, grants, tokens, ghosts, budget>>

Deny(f) ==
  /\ flow[f].pc = "asked" /\ flow' = [flow EXCEPT ![f].pc = "gone"]
  /\ UNCHANGED <<approval, exchange, grants, tokens, ghosts, budget>>

------------------------------------------------------------------------------
(* addUserOidcGrantScopes.                                                 *)
\* Mutant: the row is overwritten.
NotMerged(read, asked) == asked
Merged(read, asked) == read \cup asked
Sanitized(scopes) == scopes \cap Allowed

ReadGrants(a) ==
  LET f == approval[a].flow IN
  /\ approval[a].pc = "read"
  /\ approval' = [approval EXCEPT ![a] =
       IF flow[f].scope # {}
       THEN [@ EXCEPT !.pc = "write", !.read = Sanitized(grants[Kind[f]])]
       ELSE IF Kind[f] = "web" THEN [@ EXCEPT !.pc = "consent"] ELSE NoApproval]
  /\ UNCHANGED <<flow, exchange, grants, tokens, ghosts, budget>>

WriteGrants(a) ==
  LET f == approval[a].flow IN
  /\ approval[a].pc = "write"
  /\ grants' = [grants EXCEPT ![Kind[f]] =
                  Sanitized(Merged(approval[a].read, flow[f].scope))]
  /\ approval' = [approval EXCEPT ![a] =
       IF Kind[f] = "web" THEN [@ EXCEPT !.pc = "consent", !.read = {}] ELSE NoApproval]
  /\ UNCHANGED <<flow, exchange, tokens, ghosts, budget>>

(* The webapp: POST /oidc/consent/submit stores the scopes and then lets   *)
(* better-auth turn the consent code into an authorization code.           *)
GrantsFirst == "read"

SubmitConsent(a, f) ==
  /\ Kind[f] = "web" /\ flow[f].pc = "asked" /\ approval[a].pc = "idle"
  /\ approval' = [approval EXCEPT ![a] = [NoApproval EXCEPT !.pc = GrantsFirst, !.flow = f]]
  /\ UNCHANGED <<flow, exchange, grants, tokens, ghosts, budget>>

Consent(a) ==
  LET f == approval[a].flow IN
  /\ approval[a].pc = "consent"
  /\ approval' = [approval EXCEPT ![a] = NoApproval]
  /\ IF flow[f].pc = "asked"
     THEN /\ flow' = [flow EXCEPT ![f].pc = "approved"]
          /\ agreed' = Add(agreed, "web", flow[f].scope)
     ELSE UNCHANGED <<flow, agreed>>
  /\ UNCHANGED <<exchange, grants, tokens, issued, removed, budget>>

(* The device: POST /api/auth/device/approve lets better-auth approve the  *)
(* code and then stores the scopes of the code, if it finds it.            *)
Approve(a, f) ==
  /\ Kind[f] = "device" /\ flow[f].pc = "asked" /\ approval[a].pc = "idle"
  /\ flow' = [flow EXCEPT ![f].pc = "approved"]
  /\ approval' = [approval EXCEPT ![a] = [NoApproval EXCEPT !.pc = "find", !.flow = f]]
  /\ agreed' = Add(agreed, "device", flow[f].scope)
  /\ UNCHANGED <<exchange, grants, tokens, issued, removed, budget>>

FindCode(a) ==
  /\ approval[a].pc = "find"
  /\ approval' = [approval EXCEPT ![a] =
       IF flow[approval[a].flow].pc = "gone" THEN NoApproval ELSE [@ EXCEPT !.pc = "read"]]
  /\ UNCHANGED <<flow, exchange, grants, tokens, ghosts, budget>>

ApprovalDies(a) ==
  /\ approval[a].pc # "idle" /\ faults < MaxFaults /\ faults' = faults + 1
  /\ approval' = [approval EXCEPT ![a] = NoApproval]
  /\ UNCHANGED <<flow, exchange, grants, tokens, ghosts, admin, revokes>>

------------------------------------------------------------------------------
(* resolveOidcScopeGrantSet with the stored grants enforced.               *)
Granted(k, scopes) == Sanitized(scopes) \cap grants[k]

Removes(k, scopes) ==
  removed' = removed \cup
    {[client |-> k, scope |-> s, agreed |-> s \in agreed[k]] :
       s \in Sanitized(scopes) \ Granted(k, scopes)}

(* The webapp's code: read, checked, deleted (of two requests one deletes  *)
(* it).                                                                    *)
ReadCode(e, f) ==
  /\ Kind[f] = "web" /\ flow[f].pc = "approved" /\ exchange[e].pc = "idle"
  /\ exchange' = [exchange EXCEPT ![e] = [NoExchange EXCEPT !.pc = "delete", !.flow = f]]
  /\ UNCHANGED <<flow, approval, grants, tokens, ghosts, budget>>

\* Mutants: the count of the delete is not looked at, or never right.
AnyCount(f) == TRUE
NeverCounted(f) == FALSE
Deleted(f) == flow[f].pc # "gone"

DeleteCode(e) ==
  LET f == exchange[e].flow IN
  /\ exchange[e].pc = "delete"
  /\ flow' = [flow EXCEPT ![f].pc = "gone"]
  /\ exchange' = [exchange EXCEPT ![e] =
       IF Deleted(f) THEN [@ EXCEPT !.pc = "resolve", !.scopes = flow[f].scope] ELSE NoExchange]
  /\ UNCHANGED <<approval, grants, tokens, ghosts, budget>>

(* The device's code: read, and then better-auth takes an approved code    *)
(* for a session.  The session's scopes go through an authorize request    *)
(* and its code, both of this request, and are resolved once more.         *)
ReadDeviceCode(e, f) ==
  /\ Kind[f] = "device" /\ flow[f].pc \in {"asked", "approved"} /\ exchange[e].pc = "idle"
  /\ exchange' = [exchange EXCEPT ![e] =
       [pc |-> "poll", flow |-> f, scopes |-> flow[f].scope]]
  /\ UNCHANGED <<flow, approval, grants, tokens, ghosts, budget>>

Poll(e) ==
  LET f == exchange[e].flow IN
  /\ exchange[e].pc = "poll"
  /\ IF flow[f].pc = "approved"
     THEN /\ flow' = [flow EXCEPT ![f].pc = "gone"]
          /\ exchange' = [exchange EXCEPT ![e].pc = "resolveDevice"]
     ELSE exchange' = [exchange EXCEPT ![e] = NoExchange] /\ UNCHANGED flow
  /\ UNCHANGED <<approval, grants, tokens, ghosts, budget>>

ResolveDevice(e) ==
  /\ exchange[e].pc = "resolveDevice"
  /\ exchange' = [exchange EXCEPT ![e] =
       [@ EXCEPT !.pc = "resolve", !.scopes = Granted("device", exchange[e].scopes)]]
  /\ Removes("device", exchange[e].scopes)
  /\ UNCHANGED <<flow, approval, grants, tokens, issued, agreed, budget>>

Resolve(e) ==
  LET k == Kind[exchange[e].flow] IN
  /\ exchange[e].pc = "resolve"
  /\ exchange' = [exchange EXCEPT ![e] =
       [@ EXCEPT !.pc = "create", !.scopes = Granted(k, exchange[e].scopes)]]
  /\ Removes(k, exchange[e].scopes)
  /\ UNCHANGED <<flow, approval, grants, tokens, issued, agreed, budget>>

Create(e) ==
  LET token == [by |-> e, flow |-> exchange[e].flow, scopes |-> exchange[e].scopes] IN
  /\ exchange[e].pc = "create" /\ exchange' = [exchange EXCEPT ![e] = NoExchange]
  /\ tokens' = tokens \cup {token} /\ issued' = issued \cup {token}
  /\ UNCHANGED <<flow, approval, grants, agreed, removed, budget>>

ExchangeDies(e) ==
  /\ exchange[e].pc # "idle" /\ faults < MaxFaults /\ faults' = faults + 1
  /\ exchange' = [exchange EXCEPT ![e] = NoExchange]
  /\ UNCHANGED <<flow, approval, grants, tokens, ghosts, admin, revokes>>

------------------------------------------------------------------------------
(* The admin's form writes what it shows, or all that is allowed; the user *)
(* terminates a client.                                                    *)
AdminSaves(k) ==
  /\ admin < MaxAdmin /\ admin' = admin + 1
  /\ \E scopes \in Requests \cup {Allowed, {}} :
       /\ grants' = [grants EXCEPT ![k] = Sanitized(scopes)]
       /\ agreed' = [agreed EXCEPT ![k] = Sanitized(scopes)]
  /\ UNCHANGED <<flow, approval, exchange, tokens, issued, removed, revokes, faults>>

revokeOidcClientConnection(k) ==
  /\ revokes < MaxRevokes /\ revokes' = revokes + 1
  /\ grants' = [grants EXCEPT ![k] = {}] /\ agreed' = [agreed EXCEPT ![k] = {}]
  /\ tokens' = {t \in tokens : Kind[t.flow] # k}
  /\ UNCHANGED <<flow, approval, exchange, issued, removed, admin, faults>>

------------------------------------------------------------------------------
ExchangeStep(e) ==
  \/ DeleteCode(e) \/ Poll(e) \/ ResolveDevice(e) \/ Resolve(e) \/ Create(e)
Polls(f) == \E e \in Exchanges : ReadCode(e, f) \/ ReadDeviceCode(e, f)

Next ==
  \/ \E f \in Flows : Ask(f) \/ Deny(f) \/ Polls(f)
  \/ \E a \in Approvals : \/ \E f \in Flows : SubmitConsent(a, f) \/ Approve(a, f)
                          \/ ReadGrants(a) \/ WriteGrants(a) \/ Consent(a) \/ FindCode(a)
                          \/ ApprovalDies(a)
  \/ \E e \in Exchanges : ExchangeStep(e) \/ ExchangeDies(e)
  \/ \E k \in Kinds : AdminSaves(k) \/ revokeOidcClientConnection(k)

Spec == Init /\ [][Next]_vars

(* Clients ask again until they have their token, and requests go on.      *)
Fairness ==
  /\ \A f \in Flows : SF_vars(Polls(f))
  /\ \A e \in Exchanges : WF_vars(ExchangeStep(e))

FairSpec == Spec /\ Fairness

------------------------------------------------------------------------------
(* Properties.                                                             *)

(* Types; what is stored is what the client may have.                      *)
TypeOK ==
  /\ flow \in [Flows -> [pc : {"none", "asked", "approved", "gone"}, scope : SUBSET Scopes]]
  /\ approval \in [Approvals -> [pc : {"idle", "find", "read", "write", "consent"},
                                 flow : Flows \cup {None}, read : SUBSET Allowed]]
  /\ exchange \in [Exchanges -> [pc : {"idle", "delete", "poll", "resolveDevice", "resolve", "create"},
                                 flow : Flows \cup {None}, scopes : SUBSET Scopes]]
  /\ grants \in [Kinds -> SUBSET Allowed]
  /\ tokens \subseteq issued

(* However many requests come with a code, one of them gets a token.       *)
OneTokenPerCode ==
  \A t, u \in issued : t.flow = u.flow => t = u

(* "scope has not been approved for this user yet": a scope taken out of a *)
(* token for that reason was not approved.                                 *)
RemovedWasUnapproved == \A r \in removed : ~r.agreed

(* It is kept for the webapp as long as authorisations are accepted one at *)
(* a time and nobody else writes the grants.                               *)
ConsentsAreHonoured ==
  admin = 0 /\ revokes = 0 /\ (\A a, b \in Approvals : a = b)
    => \A r \in removed : r.client = "web" => ~r.agreed

(* A client that goes on polling gets a token for what was accepted.       *)
AcceptedGetsToken ==
  \A f \in Flows : flow[f].pc = "approved" ~> \E t \in issued : t.flow = f
==============================================================================
