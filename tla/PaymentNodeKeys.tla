--------------------------- MODULE PaymentNodeKeys ----------------------------
(***************************************************************************)
(* The API key one user has at the payment node: created at signup or when *)
(* it is first missing (on-signup.ts, get-user-client.ts), and scoped to   *)
(* the selling wallets of the user's agents by every registration of an    *)
(* agent (wallet-scopes.ts, agent-registration.ts).                        *)
(*                                                                         *)
(* Request r creates key r at most, and registers an agent with wallet r.  *)
(* The node is external: it creates keys and replaces the scopes of one.   *)
(***************************************************************************)
EXTENDS FiniteSets

CONSTANTS Requests, None,
          Old,       \* a key stored before, if there is one
          Funding,   \* wallets configured to fund registrations
          Faulty     \* whether calls and statements may fail

KeysAssumption ==
  /\ None \notin Requests \cup {Old} /\ Old \notin Requests
  /\ Requests \cap Funding = {} /\ Faulty \in BOOLEAN

VARIABLES userKey,   \* the key in the user's row, or None
          scopes,    \* the wallets each key of the node is scoped to
          enabled,   \* the keys whose scopes limit them (walletScopeEnabled)
          refs,      \* the selling wallets of the user's agent references
          req        \* what each request is doing, and what it has read

vars == <<userKey, scopes, enabled, refs, req>>

Keys == Requests \cup {Old}
Wallets == Requests \cup Funding
(* alone, which only properties read: no other request has been under way  *)
(* since this one began.                                                   *)
NewRequest == [pc |-> "idle", kind |-> "register", key |-> None,
               current |-> {}, limited |-> FALSE, known |-> {}, alone |-> TRUE]

(* An old key and an old reference may name a funding wallet.              *)
Init ==
  /\ userKey \in {None, Old}
  /\ scopes \in [Keys -> SUBSET Funding]
  /\ \A k \in Keys : userKey # k => scopes[k] = {}
  /\ enabled \in {Requests, Keys}
  /\ refs \in SUBSET Funding
  /\ req = [r \in Requests |-> NewRequest]

At(r, pc) == req[r].pc = pc
Goto(r, pc) == req' = [req EXCEPT ![r].pc = pc]
Ended == {"idle", "failed", "done"}
InFlight(r) == req[r].pc \notin Ended
Fails(r, pc) == Faulty /\ Goto(r, pc)

------------------------------------------------------------------------------
(* createPaymentNodeKeyForUser in the hook that has just created the user  *)
(* (auth.ts); a registration; another call that needs the user's token.    *)
NewUser == userKey = None /\ refs = {} /\ \A r \in Requests : At(r, "idle")

Begin(r, kind) ==
  /\ At(r, "idle")
  /\ kind = "signup" => NewUser
  /\ req' = [q \in Requests |->
       IF q = r THEN [req[r] EXCEPT !.pc = IF kind = "signup" THEN "create" ELSE "read",
                                    !.kind = kind,
                                    !.alone = \A o \in Requests : ~InFlight(o)]
       ELSE IF InFlight(q) THEN [req[q] EXCEPT !.alone = FALSE] ELSE req[q]]
  /\ UNCHANGED <<userKey, scopes, enabled, refs>>

(* getPaymentNodeApiKeyTokenForUser.                                       *)
HaveKey(r) ==
  IF req[r].kind = "register"
  THEN req' = [req EXCEPT ![r].pc = "status", ![r].key = userKey]
  ELSE Goto(r, "done")

ReadKey(r) ==
  /\ At(r, "read")
  /\ IF userKey = None THEN Goto(r, "create") ELSE HaveKey(r)
  /\ UNCHANGED <<userKey, scopes, enabled, refs>>

(* Errors of the provisioning are swallowed; a key may be left behind.     *)
CreateKey(r) ==
  /\ At(r, "create")
  /\ \/ Goto(r, "store") \/ Fails(r, "reread")
  /\ UNCHANGED <<userKey, scopes, enabled, refs>>

StoreKey(r) ==
  /\ At(r, "store")
  /\ \/ userKey' = r /\ Goto(r, "reread")
     \/ Fails(r, "reread") /\ UNCHANGED userKey
  /\ UNCHANGED <<scopes, enabled, refs>>

ReadKeyAgain(r) ==
  /\ At(r, "reread")
  /\ IF userKey = None THEN Goto(r, "failed") ELSE HaveKey(r)
  /\ UNCHANGED <<userKey, scopes, enabled, refs>>

------------------------------------------------------------------------------
(* ensureUserPaymentNodeKeyScopedToWallets.                                *)
ReadScopes(r) ==
  /\ At(r, "status")
  /\ \/ req' = [req EXCEPT ![r].pc = "known", ![r].current = scopes[req[r].key],
                            ![r].limited = req[r].key \in enabled]
     \/ Fails(r, "failed")
  /\ UNCHANGED <<userKey, scopes, enabled, refs>>

ReadKnown(r) ==
  /\ At(r, "known")
  /\ \/ req' = [req EXCEPT ![r].pc = "funding", ![r].known = refs]
     \/ Fails(r, "failed")
  /\ UNCHANGED <<userKey, scopes, enabled, refs>>

\* Mutants: only what was asked for is filtered; known wallets are left out.
FiltersRequestedOnly(r) == req[r].current \cup req[r].known \cup ({r} \ Funding)
ForgetsKnown(r) == (req[r].current \cup {r}) \ Funding
NextWallets(r) == (req[r].current \cup req[r].known \cup {r}) \ Funding

AlreadyScoped(r) == req[r].limited /\ req[r].current = NextWallets(r)

ListFunding(r) ==
  /\ At(r, "funding")
  /\ \/ Goto(r, IF AlreadyScoped(r) THEN "scoped" ELSE "update")
     \/ Fails(r, "failed")
  /\ UNCHANGED <<userKey, scopes, enabled, refs>>

(* The reply may be lost after the node has replaced the scopes.           *)
UpdateScopes(r) ==
  /\ At(r, "update")
  /\ \/ /\ scopes' = [scopes EXCEPT ![req[r].key] = NextWallets(r)]
        /\ enabled' = enabled \cup {req[r].key}
        /\ Goto(r, "scoped") \/ Fails(r, "failed")
     \/ Fails(r, "failed") /\ UNCHANGED <<scopes, enabled>>
  /\ UNCHANGED <<userKey, refs>>

(* agent.create, agentReference.create.                                    *)
CreateReference(r) ==
  /\ At(r, "scoped")
  /\ \/ refs' = refs \cup {r} /\ Goto(r, "done")
     \/ Fails(r, "failed") /\ UNCHANGED refs
  /\ UNCHANGED <<userKey, scopes, enabled>>

(* An agent is deleted with its reference; scopes stay.                    *)
DeleteAgent(w) ==
  /\ w \in refs
  /\ refs' = refs \ {w}
  /\ UNCHANGED <<userKey, scopes, enabled, req>>

Kinds == {"signup", "register", "token"}
Step(r) ==
  \/ \E kind \in Kinds : Begin(r, kind)
  \/ ReadKey(r) \/ CreateKey(r) \/ StoreKey(r) \/ ReadKeyAgain(r)
  \/ ReadScopes(r) \/ ReadKnown(r) \/ ListFunding(r) \/ UpdateScopes(r)
  \/ CreateReference(r)

Next == (\E r \in Requests : Step(r)) \/ (\E w \in Wallets : DeleteAgent(w))

Spec == Init /\ [][Next]_vars

------------------------------------------------------------------------------
(* Properties.                                                             *)

PCs == {"idle", "read", "create", "store", "reread", "status", "known", "funding",
        "update", "scoped", "failed", "done"}
Scoping == {"status", "known", "funding", "update", "scoped"}
RequestRecords ==
  [pc : PCs, kind : Kinds, key : Keys \cup {None},
   current : SUBSET Wallets, limited : BOOLEAN, known : SUBSET Wallets, alone : BOOLEAN]

(* Types; a request that scopes a key has one.                             *)
TypeOK ==
  /\ userKey \in Keys \cup {None}
  /\ scopes \in [Keys -> SUBSET Wallets]
  /\ enabled \subseteq Keys
  /\ refs \subseteq Wallets
  /\ req \in [Requests -> RequestRecords]
  /\ \A r \in Requests : req[r].pc \in Scoping => req[r].key \in Keys

(* "Never add those wallets to user API-key scopes": no key gets a funding *)
(* wallet, whatever references, stale scopes and other keys say.           *)
FundingNeverAdded ==
  [][\A k \in Keys : scopes'[k] \cap Funding \subseteq scopes[k]]_vars

(* A registration that no other request of the user overlapped leaves the  *)
(* stored key limited to wallets, every wallet of the user among them,     *)
(* those included that keys and scopes replaced by earlier races had lost. *)
RegistrationRepairs ==
  \A r \in Requests : At(r, "scoped") /\ req[r].alone =>
    userKey \in enabled /\ (refs \cup {r}) \ Funding \subseteq scopes[userKey]

------------------------------------------------------------------------------
(* What texts of the repository say and the code does not keep: TLC        *)
(* refutes these (see the README).                                         *)

(* "preserving current payment-node and agent wallet IDs": a registration  *)
(* that succeeded keeps its wallet in the scopes of the user's key.        *)
WalletsPreserved ==
  \A r \in Requests : At(r, "done") /\ req[r].kind = "register" => r \in scopes[userKey]
==============================================================================
