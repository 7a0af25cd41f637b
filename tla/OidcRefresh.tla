------------------------------ MODULE OidcRefresh ------------------------------
(***************************************************************************)
(* A refresh of OIDC tokens (exchangeRefreshGrantForOidcToken): better-auth*)
(* makes a row for the new tokens, which does not know the session of the  *)
(* old one; the route has read it before and writes it to the new row, and *)
(* an id_token is minted with the `sid` of the row.  A row without one has *)
(* the sid that is derived from its id.                                    *)
(*                                                                         *)
(* Tokens that were refreshed stay usable in the model: a client whose     *)
(* answer was lost asks with the old one, and two may ask at once.         *)
(***************************************************************************)
EXTENDS Integers, FiniteSets

CONSTANTS Requests,                      \* refreshes under way
          None,
          MaxRows, MaxLogins, MaxErrors, MaxDeaths  \* bounds

RefreshAssumption ==
  /\ {MaxRows, MaxLogins, MaxErrors, MaxDeaths} \subseteq Nat
  /\ None \notin Nat /\ None \notin [of : {"login", "row"}, id : Nat]

VARIABLES rows,     \* oauthAccessToken: the sid, the login of the chain
          request,
          known,    \* tokens that a client has
          minted,   \* sids of the id_tokens, with their chain
          broken,   \* chains whose sid was not read or not written
          logins, errors, deaths

vars == <<rows, request, known, minted, broken, logins, errors, deaths>>

Ids == 1 .. Cardinality(rows)
Row(id) == CHOOSE r \in rows : r.id = id
Idle == [pc |-> "idle", old |-> None, new |-> None, sid |-> None]

\* A sid is that of a login, or that derived from a row.
OfLogin(c) == [of |-> "login", id |-> c]
OfRow(id) == [of |-> "row", id |-> id]

Init ==
  /\ rows = {} /\ request = [r \in Requests |-> Idle]
  /\ known = {} /\ minted = {} /\ broken = {}
  /\ logins = 0 /\ errors = 0 /\ deaths = 0

NewRow(sid, chain) == [id |-> Cardinality(rows) + 1, sid |-> sid, chain |-> chain]

\* Mutant: a row without a sid has none to carry.
StoredSid(row) == row.sid
SidOf(row) == IF row.sid # None THEN row.sid ELSE OfRow(row.id)

(* createIdTokenForAccessTokenRecord.                                      *)
Mints(row) ==
  minted' = minted \cup
    {[chain |-> row.chain, sid |-> IF row.sid # None THEN row.sid ELSE OfRow(row.id)]}

(* An authorization code is exchanged, now or before rows had a sid.       *)
Login ==
  /\ logins < MaxLogins /\ Cardinality(rows) < MaxRows /\ logins' = logins + 1
  /\ \E sid \in {OfLogin(logins'), None} :
       LET row == NewRow(sid, logins') IN
       /\ rows' = rows \cup {row} /\ known' = known \cup {row.id}
       /\ Mints(row)
  /\ UNCHANGED <<request, broken, errors, deaths>>

------------------------------------------------------------------------------
Fails(r) == errors < MaxErrors /\ errors' = errors + 1
Breaks(r) == broken' = broken \cup {Row(request[r].old).chain}

(* The session of the old token is read; without it the refresh goes on.   *)
ReadSession(r) ==
  /\ request[r].pc = "idle"
  /\ \E id \in known :
       request' = [request EXCEPT ![r] =
         [Idle EXCEPT !.pc = "rotate", !.old = id, !.sid = SidOf(Row(id))]]
  /\ UNCHANGED <<rows, known, minted, broken, logins, errors, deaths>>

ReadFails(r) ==
  /\ request[r].pc = "idle" /\ Fails(r)
  /\ \E id \in known :
       /\ request' = [request EXCEPT ![r] = [Idle EXCEPT !.pc = "rotate", !.old = id]]
       /\ broken' = broken \cup {Row(id).chain}
  /\ UNCHANGED <<rows, known, minted, logins, deaths>>

(* better-auth's refresh.                                                  *)
Rotate(r) ==
  LET row == NewRow(None, Row(request[r].old).chain) IN
  /\ request[r].pc = "rotate" /\ Cardinality(rows) < MaxRows
  /\ rows' = rows \cup {row}
  /\ request' = [request EXCEPT ![r] =
       [@ EXCEPT !.pc = IF request[r].sid # None THEN "carry" ELSE "mint", !.new = row.id]]
  /\ UNCHANGED <<known, minted, broken, logins, errors, deaths>>

(* carryForwardOauthAccessTokenOidcSessionId.                              *)
CarriedTo(r) == request[r].new

Carry(r) ==
  LET row == Row(CarriedTo(r)) IN
  /\ request[r].pc = "carry"
  /\ rows' = (rows \ {row}) \cup {[row EXCEPT !.sid = request[r].sid]}
  /\ request' = [request EXCEPT ![r].pc = "mint"]
  /\ UNCHANGED <<known, minted, broken, logins, errors, deaths>>

CarryFails(r) ==
  /\ request[r].pc = "carry" /\ Fails(r) /\ Breaks(r)
  /\ request' = [request EXCEPT ![r].pc = "mint"]
  /\ UNCHANGED <<rows, known, minted, logins, deaths>>

(* createIdTokenForRefreshToken, and the answer, with or without it.       *)
Answer(r) ==
  LET row == Row(request[r].new) IN
  /\ request[r].pc = "mint"
  /\ Mints(row) /\ known' = known \cup {row.id}
  /\ request' = [request EXCEPT ![r] = Idle]
  /\ UNCHANGED <<rows, broken, logins, errors, deaths>>

MintFails(r) ==
  /\ request[r].pc = "mint" /\ Fails(r)
  /\ known' = known \cup {request[r].new}
  /\ request' = [request EXCEPT ![r] = Idle]
  /\ UNCHANGED <<rows, minted, broken, logins, deaths>>

(* The server dies, or the answer is lost.                                 *)
Dies(r) ==
  /\ request[r].pc # "idle" /\ deaths < MaxDeaths /\ deaths' = deaths + 1
  /\ request' = [request EXCEPT ![r] = Idle]
  /\ UNCHANGED <<rows, known, minted, broken, logins, errors>>

Next ==
  \/ Login
  \/ \E r \in Requests :
       \/ ReadSession(r) \/ ReadFails(r) \/ Rotate(r) \/ Carry(r) \/ CarryFails(r)
       \/ Answer(r) \/ MintFails(r) \/ Dies(r)

Spec == Init /\ [][Next]_vars

------------------------------------------------------------------------------
(* Properties.                                                             *)

(* Types; rows have one id each, and clients and requests have rows.       *)
TypeOK ==
  /\ {r.id : r \in rows} = Ids
  /\ known \subseteq Ids
  /\ \A r \in Requests : {request[r].old, request[r].new} \subseteq Ids \cup {None}
  /\ \A row \in rows : row.sid # None => row.sid.id \in Ids \cup 1 .. logins

(* A chain of refreshes keeps its sid if that was read and written at      *)
(* every refresh, whatever was refreshed twice, at once, or by a request   *)
(* that died.                                                              *)
SidKept ==
  \A m, n \in minted : m.chain = n.chain /\ m.chain \notin broken => m.sid = n.sid

(* What refreshed tokens say.                                              *)
RefreshInvariant == TypeOK /\ SidKept

------------------------------------------------------------------------------
(* What texts of the repository say and the code does not keep: TLC        *)
(* refutes these (see the README).                                         *)

(* "tokens in the same refresh chain share a stable sid".                  *)
SidStable == \A m, n \in minted : m.chain = n.chain => m.sid = n.sid
==============================================================================
