-------------------------- MODULE InboxAgents_proofs --------------------------
(***************************************************************************)
(* Proofs about InboxAgents, for any number of requests, of owners who     *)
(* refresh, deregister and delete, and of faults: one reservation and one  *)
(* standing entry per slug, rows that keep their owner, entries that are   *)
(* not orphaned unnoticed, and charges that match what was answered.       *)
(***************************************************************************)
EXTENDS InboxAgents, FiniteSetTheorems, TLAPS

(* Types.                                                                  *)
PostPCs == {"start", "scan", "scanSave", "registry", "reserve", "reserveCheck",
            "reserveInsert", "debit", "register", "await", "finalize", "cleanRemote",
            "refund", "cleanRow", "ok", "failed", "crashed"}
Ids == Posts \cup {<<"saved", e>> : e \in Posts}
Rows == [id : Ids, owner : Users, entry : Posts \cup {None}, state : RegistrationStates]
PostRecords == [pc : PostPCs, todo : SUBSET Rows, row : Rows \cup {None}, seen : EntryStates,
                request : {"none", "sent", "answered"}, entry : Posts \cup {None},
                refundable : BOOLEAN]
ManagerRecords == [pc : {"idle", "save", "act", "saveReply", "deleteRow"}, op : Operations,
                   row : Rows \cup {None}, seen : EntryStates]

Types ==
  /\ refs \subseteq Rows /\ remote \in [Posts -> EntryStates]
  /\ lock \in Posts \cup {None}
  /\ post \in [Posts -> PostRecords] /\ manager \in [Managers -> ManagerRecords]

(* Where a POST is: its request to the payment node, and its reservation,  *)
(* which is there from its insertion to its end, or for ever.              *)
Reservation(p) == Row(p, Author[p], None, "RegistrationRequested")
BeforeAwait == {"start", "scan", "scanSave", "registry", "reserve", "reserveCheck",
                "reserveInsert", "debit", "register"}
Holding == {"debit", "register", "await", "finalize", "cleanRemote", "refund", "cleanRow"}
Locking == {"reserveCheck", "reserveInsert"}
Registering == {"await", "finalize", "cleanRemote", "crashed"}

PostOK(p, x, rs, fs) ==
  /\ x.pc \in BeforeAwait => x.request = "none"
  /\ x.pc = "await" => x.request # "none"
  /\ x.pc \in {"finalize", "cleanRemote", "ok"} => x.request = "answered"
  /\ x.request = "answered" => x.entry \in Posts /\ x.seen # "absent"
  /\ x.request = "sent" => x.pc \in {"await", "crashed"} \/ <<p, "replyLost">> \in fs
  /\ x.pc = "crashed" => <<p, "crash">> \in fs
  /\ x.pc \in Holding \/ (x.pc = "crashed" /\ x.request # "none") => Reservation(p) \in rs
  /\ Reservation(p) \in rs =>
       \/ x.pc \in Holding
       \/ x.pc \in {"failed", "crashed"} /\ (<<p, "crash">> \in fs \/ <<p, "rowLeft">> \in fs)

PostInv ==
  /\ \A p \in Posts : PostOK(p, post[p], refs, faults)
  /\ \A p \in Posts : lock = p <=> post[p].pc \in Locking
  /\ \A p \in Posts : At(p, "reserveInsert") => \A r \in refs : ~IsReservation(r)

(* The row of an entry: its id is that of the POST that recorded it, or    *)
(* one of its own.  Once true this stays true, also of a copy of the row.  *)
Identified(r, ps) ==
  /\ r \in Rows /\ r.entry \in Posts /\ ps[r.entry].request = "answered"
  /\ \/ r.id = <<"saved", r.entry>>
     \/ r.id \in Posts /\ ps[r.id].pc = "ok" /\ ps[r.id].entry = r.entry

RowInv ==
  /\ \A r \in refs : Identified(r, post) \/ \E p \in Posts : r = Reservation(p)
  /\ \A r, q \in refs : r.entry = q.entry => r = q

CopyInv ==
  /\ \A p \in Posts :
       /\ \A r \in post[p].todo : IsReservation(r) \/ Identified(r, post)
       /\ At(p, "scanSave") => Identified(post[p].row, post)
       /\ post[p].request = "answered" => post[post[p].entry].request = "answered"
  /\ \A m \in Managers : manager[m].pc # "idle" => Identified(manager[m].row, post)
  /\ \A m \in Managers : manager[m].pc \in {"save", "saveReply"} => manager[m].seen # "absent"

(* What the payment node has was registered by the POST it is named after, *)
(* which is about to record it unless it has failed to.                    *)
EntryInv ==
  \A e \in Posts :
    /\ remote[e] # "absent" => post[e].request = "answered" /\ post[e].entry = e
    /\ Live(e) => \/ RowOf(e) # {}
                  \/ post[e].pc \in Registering
                  \/ <<e, "replyLost">> \in faults \/ <<e, "entryLeft">> \in faults

(* A row is deleted after its entry, and the entry does not come back.     *)
DeletedInv ==
  \A m \in Managers : manager[m].pc = "deleteRow" => remote[manager[m].row.entry] = "absent"

(* An entry that stands, registered or on its way, has never been anything *)
(* else, so whatever was read about it is that it stands.                  *)
StandingStates == LiveStates \ {"DeregistrationFailed"}
Standing(e) == remote[e] \in StandingStates
TruthInv ==
  \A e \in Posts : Standing(e) =>
    /\ \A r \in refs : r.entry = e => r.state \in StandingStates
    /\ \A p \in Posts : At(p, "scanSave") /\ post[p].row.entry = e =>
                          post[p].seen \in StandingStates
    /\ \A p \in Posts : post[p].request = "answered" /\ post[p].entry = e =>
                          post[p].seen \in StandingStates
    /\ \A m \in Managers : manager[m].pc \in {"save", "saveReply"} /\ manager[m].row.entry = e =>
                             manager[m].seen \in StandingStates

(* While no reply was lost and no entry left behind: whoever may register  *)
(* has the reservation, and nothing stands when it is made.                *)
NoFault == \A p \in Posts : <<p, "replyLost">> \notin faults /\ <<p, "entryLeft">> \notin faults
StandingInv ==
  NoFault =>
    /\ \A p, e \in Posts : Reservation(p) \in refs /\ post[p].request # "answered" => ~Standing(e)
    /\ \A p, e \in Posts : At(p, "reserveInsert") => ~Standing(e)
    /\ \A e, d \in Posts : Standing(e) /\ Standing(d) => e = d

IInv ==
  Types /\ PostInv /\ RowInv /\ CopyInv /\ EntryInv /\ DeletedInv /\ TruthInv /\ StandingInv

(* How a step may change the rows: what it writes is true and has the      *)
(* owner of the row it replaces, and a live entry keeps its row.           *)
RowChange ==
  /\ refs' \subseteq Rows
  /\ \A r \in refs' :
       \/ r \in refs
       \/ Identified(r, post') /\ (Standing(r.entry) => r.state \in StandingStates)
       \/ \E p \in Posts : r = Reservation(p)
  /\ \A r, q \in refs' : r.entry = q.entry => r = q
  /\ \A e \in Posts : RowOf(e) # {} /\ Live(e) => \E r \in refs' : r.entry = e
  /\ \A r \in refs, q \in refs' : r.entry = q.entry /\ r.entry # None => r.owner = q.owner

(* How a step other than a registration may change the entries.            *)
RemoteChange ==
  /\ remote' \in [Posts -> EntryStates]
  /\ \A e \in Posts : /\ remote[e] = "absent" => remote'[e] = "absent"
                      /\ remote'[e] \in LiveStates => Live(e)
                      /\ remote'[e] \in StandingStates => Standing(e)

------------------------------------------------------------------------------
(* A set whose members are all equal has one member at most.               *)
LEMMA AtMostOne ==
  ASSUME NEW S, \A x, y \in S : x = y
  PROVE  Cardinality(S) <= 1
<1>1. CASE S = {}
  BY <1>1, FS_EmptySet
<1>2. CASE S # {}
  <2>1. PICK x \in S : TRUE
    BY <1>2
  <2>2. S = {x}
    BY <2>1
  <2> QED
    BY <2>2, FS_Singleton
<1> QED
  BY <1>1, <1>2

(* None is nobody's request, and a row's own id is nobody's either.        *)
LEMMA Distinct == None \notin Posts /\ \A p, e \in Posts : p # <<"saved", e>>
BY InboxAssumption

(* What a POST was answered stays as it is.                                *)
LEMMA IdentifiedStays ==
  ASSUME Types, PostInv, NEW r, Identified(r, post), NEW p \in Posts, NEW x \in PostRecords,
         post' = [post EXCEPT ![p] = x],
         post[p].request = "answered" => x.request = "answered" /\ x.entry = post[p].entry,
         At(p, "ok") => x.pc = "ok"
  PROVE  Identified(r, post')
<1>1. post \in [Posts -> PostRecords]
  BY DEF Types
<1>2. post'[p] = x /\ \A q \in Posts : q # p => post'[q] = post[q]
  BY <1>1
<1>3. At(p, "ok") => post[p].request = "answered"
  BY DEF PostInv, PostOK, At
<1> QED
  BY <1>2, <1>3 DEF Identified, At

(* A row is a reservation of a POST, or the row of an entry.               *)
LEMMA RowKinds ==
  ASSUME RowInv, NEW r \in refs
  PROVE  /\ IsReservation(r) <=> \E p \in Posts : r = Reservation(p)
         /\ ~IsReservation(r) <=> Identified(r, post)
         /\ ~IsReservation(r) <=> r.entry \in Posts
<1>1. \A p \in Posts : Reservation(p).entry = None
  BY DEF Reservation, Row
<1>2. Identified(r, post) => r.entry \in Posts
  BY DEF Identified
<1> QED
  BY <1>1, <1>2, Distinct DEF RowInv, IsReservation

(* A row with the id of an entry's row is of the same entry, now or when   *)
(* the row was copied.                                                     *)
LEMMA SameEntry ==
  ASSUME Types, PostInv, RowInv, NEW r, Identified(r, post), NEW q \in refs, q.id = r.id
  PROVE  q.entry = r.entry
<1>1. ASSUME NEW p \in Posts, q = Reservation(p)
      PROVE  FALSE
  <2>1. q.id = p /\ post[p].pc # "ok"
    BY <1>1 DEF Reservation, Row, PostInv, PostOK, Holding
  <2> QED
    BY <2>1, Distinct DEF Identified
<1>2. Identified(q, post)
  BY <1>1 DEF RowInv
<1>3. CASE r.id = <<"saved", r.entry>>
  BY <1>2, <1>3, Distinct DEF Identified
<1>4. CASE r.id \in Posts /\ post[r.id].entry = r.entry
  BY <1>2, <1>4, Distinct DEF Identified
<1> QED
  BY <1>3, <1>4 DEF Identified

(* A step of POST p that registers no entry keeps the invariant.           *)
LEMMA PostMoves ==
  ASSUME IInv, NEW p \in Posts, NEW x \in PostRecords,
         post' = [post EXCEPT ![p] = x], manager' = manager,
         RowChange, RemoteChange, faults \subseteq faults',
         lock' \in Posts \cup {None}, (lock' = p) <=> (x.pc \in Locking),
         \A q \in Posts \ {p} : (lock' = q) <=> (lock = q),
         PostOK(p, x, refs', faults'),
         \A q \in Posts \ {p} : Reservation(q) \in refs' <=> Reservation(q) \in refs,
         Reservation(p) \in refs' \ refs => At(p, "reserveInsert") /\ x.pc # "reserveInsert",
         x.pc = "reserveInsert" =>
           (\A r \in refs : ~IsReservation(r)) /\ (NoFault => \A e \in Posts : ~Standing(e)),
         post[p].request = "answered" =>
           x.request = "answered" /\ x.entry = post[p].entry /\ x.seen = post[p].seen,
         x.request = "answered" => post[p].request = "answered",
         At(p, "ok") => x.pc = "ok",
         \A r \in x.todo : IsReservation(r) \/ Identified(r, post),
         x.pc = "scanSave" =>
           Identified(x.row, post) /\ (Standing(x.row.entry) => x.seen \in StandingStates),
         post[p].pc \in Registering /\ remote'[p] \in LiveStates =>
           \/ x.pc \in Registering
           \/ \E r \in refs' : r.entry = p
           \/ <<p, "replyLost">> \in faults' \/ <<p, "entryLeft">> \in faults'
  PROVE  IInv'
<1>1. post' \in [Posts -> PostRecords] /\ post'[p] = x
      /\ \A q \in Posts : q # p => post'[q] = post[q]
  BY DEF IInv, Types
<1>2. ASSUME NEW r, Identified(r, post)
      PROVE  Identified(r, post')
  BY <1>2, IdentifiedStays DEF IInv
<1>3. \A q \in Posts : Reservation(q).entry = None /\ Reservation(q).id = q
  BY DEF Reservation, Row
<1>4. \A r \in refs' : \/ IsReservation(r) /\ \E q \in Posts : r = Reservation(q)
                       \/ ~IsReservation(r) /\ Identified(r, post') /\ r.entry \in Posts
  BY <1>2, <1>3, Distinct DEF IInv, RowInv, RowChange, IsReservation, Identified
<1>5. Types'
  BY <1>1 DEF IInv, Types, RowChange, RemoteChange
<1>6. PostInv'
  <2>1. ASSUME NEW q \in Posts
        PROVE  PostOK(q, post'[q], refs', faults')
    <3>1. CASE q = p
      BY <1>1, <3>1
    <3>2. CASE q # p
      BY <1>1, <3>2 DEF IInv, PostInv, PostOK
    <3> QED
      BY <3>1, <3>2
  <2>2. ASSUME NEW q \in Posts
        PROVE  lock' = q <=> post'[q].pc \in Locking
    BY <1>1 DEF IInv, PostInv
  <2>3. ASSUME NEW q \in Posts, post'[q].pc = "reserveInsert", NEW r \in refs', IsReservation(r)
        PROVE  FALSE
    <3>1. PICK o \in Posts : r = Reservation(o)
      BY <1>4, <2>3
    <3>2. Reservation(o) \notin refs
      BY <1>1, <1>3, <2>3 DEF IInv, PostInv, At, IsReservation
    <3>3. o = p /\ At(p, "reserveInsert") /\ q # p
      BY <1>1, <2>3, <3>1, <3>2
    <3> QED
      BY <1>1, <2>3, <3>3, Distinct DEF IInv, PostInv, At, Locking
  <2> QED
    BY <2>1, <2>2, <2>3 DEF PostInv, At
<1>7. RowInv'
  BY <1>4 DEF RowInv, RowChange
<1>8. CopyInv'
  <2>1. ASSUME NEW q \in Posts, NEW r \in post'[q].todo
        PROVE  IsReservation(r) \/ Identified(r, post')
    BY <1>1, <1>2 DEF IInv, CopyInv
  <2>2. ASSUME NEW q \in Posts, post'[q].pc = "scanSave"
        PROVE  Identified(post'[q].row, post')
    BY <1>1, <1>2, <2>2 DEF IInv, CopyInv, At
  <2>3. ASSUME NEW q \in Posts, post'[q].request = "answered"
        PROVE  post'[post'[q].entry].request = "answered"
    <3>1. post[q].request = "answered" /\ post'[q].entry = post[q].entry
      BY <1>1, <2>3
    <3>2. post[q].entry \in Posts /\ post[post[q].entry].request = "answered"
      BY <3>1 DEF IInv, CopyInv, PostInv, PostOK
    <3> QED
      BY <1>1, <3>1, <3>2
  <2>4. ASSUME NEW m \in Managers, manager[m].pc # "idle"
        PROVE  Identified(manager[m].row, post')
    BY <1>2, <2>4 DEF IInv, CopyInv
  <2> QED
    BY <2>1, <2>2, <2>3, <2>4 DEF IInv, CopyInv, At
<1>9. EntryInv'
  <2>1. ASSUME NEW e \in Posts, remote'[e] # "absent"
        PROVE  post'[e].request = "answered" /\ post'[e].entry = e
    BY <1>1, <2>1 DEF IInv, EntryInv, RemoteChange
  <2>2. ASSUME NEW e \in Posts, remote'[e] \in LiveStates
        PROVE  \/ \E r \in refs' : r.entry = e
               \/ post'[e].pc \in Registering
               \/ <<e, "replyLost">> \in faults' \/ <<e, "entryLeft">> \in faults'
    <3>1. Live(e)
      BY <2>2 DEF RemoteChange
    <3> QED
      BY <1>1, <2>2, <3>1 DEF IInv, EntryInv, RowChange
  <2> QED
    BY <2>1, <2>2 DEF EntryInv, Live, RowOf
<1>10. DeletedInv'
  BY DEF IInv, DeletedInv, CopyInv, Identified, RemoteChange
<1>11. TruthInv'
  <2> SUFFICES ASSUME NEW e \in Posts, remote'[e] \in StandingStates
               PROVE  /\ \A r \in refs' : r.entry = e => r.state \in StandingStates
                      /\ \A q \in Posts : post'[q].pc = "scanSave" /\ post'[q].row.entry = e =>
                                            post'[q].seen \in StandingStates
                      /\ \A q \in Posts : post'[q].request = "answered" /\ post'[q].entry = e =>
                                            post'[q].seen \in StandingStates
                      /\ \A m \in Managers :
                           manager[m].pc \in {"save", "saveReply"} /\ manager[m].row.entry = e =>
                             manager[m].seen \in StandingStates
    BY DEF TruthInv, Standing, At
  <2>1. Standing(e)
    BY DEF RemoteChange
  <2>2. \A r \in refs' : r.entry = e => r.state \in StandingStates
    BY <1>3, <2>1, Distinct DEF IInv, TruthInv, RowChange
  <2>3. \A q \in Posts : post'[q].pc = "scanSave" /\ post'[q].row.entry = e =>
                           post'[q].seen \in StandingStates
    BY <1>1, <2>1 DEF IInv, TruthInv, At
  <2>4. \A q \in Posts : post'[q].request = "answered" /\ post'[q].entry = e =>
                           post'[q].seen \in StandingStates
    BY <1>1, <2>1 DEF IInv, TruthInv
  <2> QED
    BY <2>1, <2>2, <2>3, <2>4 DEF IInv, TruthInv
<1>12. StandingInv'
  <2>1. NoFault' => NoFault
    BY DEF NoFault
  <2>2. \A e \in Posts : remote'[e] \in StandingStates => Standing(e)
    BY DEF RemoteChange
  <2>3. At(p, "reserveInsert") => \A e \in Posts : NoFault => ~Standing(e)
    BY DEF IInv, StandingInv
  <2>4. ASSUME NoFault', NEW q \in Posts, NEW e \in Posts, Reservation(q) \in refs',
               post'[q].request # "answered", Standing(e)
        PROVE  FALSE
    BY <1>1, <2>1, <2>3, <2>4 DEF IInv, StandingInv
  <2>5. ASSUME NoFault', NEW q \in Posts, NEW e \in Posts, post'[q].pc = "reserveInsert",
               Standing(e)
        PROVE  FALSE
    BY <1>1, <2>1, <2>5 DEF IInv, StandingInv, At
  <2>6. NoFault' => \A e, d \in Posts : Standing(e) /\ Standing(d) => e = d
    BY <2>1 DEF IInv, StandingInv
  <2> QED
    BY <2>2, <2>4, <2>5, <2>6 DEF StandingInv, Standing, At, Reservation, Row
<1> QED
  BY <1>5, <1>6, <1>7, <1>8, <1>9, <1>10, <1>11, <1>12 DEF IInv

(* A step of a refresh, a deregistration or a deletion.                    *)
LEMMA ManagerMoves ==
  ASSUME IInv, NEW m \in Managers, NEW y \in ManagerRecords,
         manager' = [manager EXCEPT ![m] = y], UNCHANGED <<post, lock>>,
         RowChange, RemoteChange, faults \subseteq faults',
         \A q \in Posts : Reservation(q) \in refs' <=> Reservation(q) \in refs,
         y.pc # "idle" => Identified(y.row, post),
         y.pc \in {"save", "saveReply"} =>
           y.seen # "absent" /\ (remote'[y.row.entry] \in StandingStates => y.seen \in StandingStates),
         y.pc = "deleteRow" => remote'[y.row.entry] = "absent"
  PROVE  IInv'
<1>1. manager' \in [Managers -> ManagerRecords] /\ manager'[m] = y
      /\ \A n \in Managers : n # m => manager'[n] = manager[n]
  BY DEF IInv, Types
<1>2. \A q \in Posts : Reservation(q).entry = None /\ Reservation(q).id = q
  BY DEF Reservation, Row
<1>3. \A r \in refs' : \/ IsReservation(r) /\ \E q \in Posts : r = Reservation(q)
                       \/ ~IsReservation(r) /\ Identified(r, post) /\ r.entry \in Posts
  BY <1>2, Distinct DEF IInv, RowInv, RowChange, IsReservation, Identified
<1>4. Types'
  BY <1>1 DEF IInv, Types, RowChange, RemoteChange
<1>5. PostInv'
  <2>1. \A q \in Posts : PostOK(q, post[q], refs', faults')
    BY DEF IInv, PostInv, PostOK
  <2>2. \A r \in refs' : IsReservation(r) => r \in refs
    BY <1>3
  <2> QED
    BY <2>1, <2>2 DEF IInv, PostInv, At
<1>6. RowInv'
  BY <1>3 DEF RowInv, RowChange
<1>7. CopyInv'
  BY <1>1 DEF IInv, CopyInv, At
<1>8. EntryInv'
  BY DEF IInv, EntryInv, RowOf, Live, RowChange, RemoteChange
<1>9. DeletedInv'
  BY <1>1 DEF IInv, DeletedInv, CopyInv, Identified, RemoteChange
<1>10. TruthInv'
  <2> SUFFICES ASSUME NEW e \in Posts, remote'[e] \in StandingStates
               PROVE  /\ \A r \in refs' : r.entry = e => r.state \in StandingStates
                      /\ \A q \in Posts : At(q, "scanSave") /\ post[q].row.entry = e =>
                                            post[q].seen \in StandingStates
                      /\ \A q \in Posts : post[q].request = "answered" /\ post[q].entry = e =>
                                            post[q].seen \in StandingStates
                      /\ \A n \in Managers :
                           manager'[n].pc \in {"save", "saveReply"} /\ manager'[n].row.entry = e =>
                             manager'[n].seen \in StandingStates
    BY DEF TruthInv, Standing, At
  <2>1. Standing(e)
    BY DEF RemoteChange
  <2>2. \A r \in refs' : r.entry = e => r.state \in StandingStates
    BY <1>2, <2>1, Distinct DEF IInv, TruthInv, RowChange
  <2> QED
    BY <1>1, <2>1, <2>2 DEF IInv, TruthInv
<1>11. StandingInv'
  <2>1. NoFault' => NoFault
    BY DEF NoFault
  <2>2. \A e \in Posts : remote'[e] \in StandingStates => Standing(e)
    BY DEF RemoteChange
  <2> QED
    BY <2>1, <2>2 DEF IInv, StandingInv, Standing, At, Reservation, Row
<1> QED
  BY <1>4, <1>5, <1>6, <1>7, <1>8, <1>9, <1>10, <1>11 DEF IInv

(* A step that writes no row, or no entry.                                 *)
LEMMA RowsUnchanged ==
  ASSUME IInv, UNCHANGED refs
  PROVE  RowChange
BY DEF IInv, Types, RowInv, RowChange, RowOf

LEMMA EntriesUnchanged ==
  ASSUME IInv, UNCHANGED remote
  PROVE  RemoteChange
BY DEF IInv, Types, RemoteChange, Live, Standing

(* The payment node removes an entry, or moves it on.                      *)
LEMMA EntryMoves ==
  ASSUME IInv, NEW e \in Posts, NEW s \in EntryStates, remote' = [remote EXCEPT ![e] = s],
         remote[e] = "absent" => s = "absent",
         s \in LiveStates => Live(e), s \in StandingStates => Standing(e)
  PROVE  RemoteChange
BY DEF IInv, Types, RemoteChange, Live, Standing

(* Saving what was read of an entry: its row says so, and keeps its owner  *)
(* and its id.                                                             *)
LEMMA SavedRows ==
  ASSUME IInv, NEW e \in Posts, NEW user \in Users, NEW s \in RegistrationStates,
         post[e].request = "answered", ~OwnedByOther(e, user)
  PROVE  /\ Identified(SavedRow(e, user, s), post)
         /\ SavedRow(e, user, s).entry = e /\ SavedRow(e, user, s).state = s
         /\ SavedRow(e, user, s).owner = user
         /\ \A r \in refs : r.entry = e => r.owner = user /\ r.id = SavedRow(e, user, s).id
         /\ \A r \in Saved(e, user, s) :
              r = SavedRow(e, user, s) \/ (r \in refs /\ r.entry # e)
         /\ \A r \in refs : r.entry # e => r \in Saved(e, user, s)
         /\ SavedRow(e, user, s) \in Saved(e, user, s)
<1> DEFINE w == SavedRow(e, user, s)
<1>1. \A r \in refs : r.entry = e => r.owner = user
  BY DEF OwnedByOther, RowOf
<1>2. w.entry = e /\ w.state = s /\ w.owner = user
  BY DEF SavedRow, Row
<1>3. CASE RowOf(e) = {}
  <2>1. w = Row(<<"saved", e>>, user, e, s)
    BY <1>3 DEF SavedRow
  <2>2. w \in Rows /\ w.id = <<"saved", e>>
    BY <2>1 DEF Row, Rows, Ids
  <2>3. Identified(w, post)
    BY <1>2, <2>2 DEF Identified
  <2> QED
    BY <1>1, <1>2, <1>3, <2>3 DEF Saved, RowOf
<1>4. CASE RowOf(e) # {}
  <2>1. PICK r \in RowOf(e) : r = CHOOSE q \in RowOf(e) : TRUE
    BY <1>4
  <2>2. r \in refs /\ r.entry = e /\ \A q \in refs : q.entry = e => q = r
    BY <2>1 DEF RowOf, IInv, RowInv
  <2>3. w = Row(r.id, user, e, s)
    BY <1>4, <2>1 DEF SavedRow
  <2>4. Identified(r, post)
    BY <2>2, RowKinds DEF IInv
  <2>5. w \in Rows /\ w.id = r.id
    BY <2>3, <2>4 DEF Row, Rows, Identified
  <2>6. Identified(w, post)
    BY <1>2, <2>2, <2>4, <2>5 DEF Identified
  <2> QED
    BY <1>1, <1>2, <2>2, <2>5, <2>6 DEF Saved, RowOf
<1> QED
  BY <1>3, <1>4

(* What a save changes.                                                    *)
LEMMA SaveChanges ==
  ASSUME IInv, NEW e \in Posts, NEW user \in Users, NEW s \in RegistrationStates,
         post[e].request = "answered", ~OwnedByOther(e, user),
         Standing(e) => s \in StandingStates,
         Identified(SavedRow(e, user, s), post'), refs' = Saved(e, user, s)
  PROVE  RowChange /\ \A q \in Posts : Reservation(q) \in refs' <=> Reservation(q) \in refs
<1> DEFINE w == SavedRow(e, user, s)
<1>1. /\ w.entry = e /\ w.state = s /\ w.owner = user /\ w \in refs' /\ w \in Rows
      /\ \A r \in refs : r.entry = e => r.owner = user
      /\ \A r \in refs' : r = w \/ (r \in refs /\ r.entry # e)
      /\ \A r \in refs : r.entry # e => r \in refs'
  BY SavedRows DEF Identified
<1>2. \A q \in Posts : Reservation(q).entry # e
  BY Distinct DEF Reservation, Row
<1>3. refs' \subseteq Rows
  BY <1>1 DEF IInv, Types
<1>4. \A r, q \in refs' : r.entry = q.entry => r = q
  BY <1>1 DEF IInv, RowInv
<1>5. \A d \in Posts : RowOf(d) # {} => \E r \in refs' : r.entry = d
  BY <1>1 DEF RowOf
<1>6. \A r \in refs, q \in refs' : r.entry = q.entry /\ r.entry # None => r.owner = q.owner
  BY <1>1 DEF IInv, RowInv
<1>7. RowChange
  BY <1>1, <1>3, <1>4, <1>5, <1>6 DEF RowChange
<1> HIDE DEF w
<1> QED
  BY <1>1, <1>2, <1>7

------------------------------------------------------------------------------
(* A POST that only moves on.                                              *)
LEMMA Gone ==
  ASSUME Types, NEW p \in Posts, NEW c \in PostPCs, Goto(p, c)
  PROVE  /\ [post[p] EXCEPT !.pc = c] \in PostRecords
         /\ post' = [post EXCEPT ![p] = [post[p] EXCEPT !.pc = c]]
         /\ LET x == [post[p] EXCEPT !.pc = c]
            IN  /\ x.pc = c /\ x.request = post[p].request /\ x.entry = post[p].entry
                /\ x.seen = post[p].seen /\ x.todo = post[p].todo /\ x.row = post[p].row
                /\ x.refundable = post[p].refundable
<1>1. post[p] \in PostRecords
  BY DEF Types
<1>2. [post[p] EXCEPT !.pc = c] \in PostRecords
  BY <1>1 DEF PostRecords
<1>3. post' = [post EXCEPT ![p] = [post[p] EXCEPT !.pc = c]]
  BY DEF Goto
<1> QED
  BY <1>1, <1>2, <1>3 DEF PostRecords

(* What must hold where it goes.                                           *)
LEMMA GoneOK ==
  ASSUME NEW p \in Posts, NEW x \in PostRecords, NEW c \in PostPCs, NEW rs, NEW fs,
         x.request = "answered" => x.entry \in Posts /\ x.seen # "absent",
         c \in BeforeAwait => x.request = "none",
         c = "await" => x.request # "none",
         c \in {"finalize", "cleanRemote", "ok"} => x.request = "answered",
         x.request = "sent" => c \in {"await", "crashed"} \/ <<p, "replyLost">> \in fs,
         c = "crashed" => <<p, "crash">> \in fs,
         c \in Holding \/ (c = "crashed" /\ x.request # "none") => Reservation(p) \in rs,
         Reservation(p) \in rs =>
           \/ c \in Holding
           \/ c \in {"failed", "crashed"} /\ (<<p, "crash">> \in fs \/ <<p, "rowLeft">> \in fs)
  PROVE  PostOK(p, [x EXCEPT !.pc = c], rs, fs)
<1> DEFINE y == [x EXCEPT !.pc = c]
<1>1. y.pc = c /\ y.request = x.request /\ y.entry = x.entry /\ y.seen = x.seen
  BY DEF PostRecords
<1> HIDE DEF y
<1> QED
  BY <1>1 DEF PostOK

LEMMA PostGoes ==
  ASSUME IInv, NEW p \in Posts, NEW c \in PostPCs \ {"scanSave"}, Goto(p, c), ~At(p, "ok"),
         UNCHANGED manager, RowChange, RemoteChange, faults \subseteq faults',
         lock' \in Posts \cup {None}, (lock' = p) <=> (c \in Locking),
         \A q \in Posts \ {p} : (lock' = q) <=> (lock = q),
         PostOK(p, [post[p] EXCEPT !.pc = c], refs', faults'),
         \A q \in Posts \ {p} : Reservation(q) \in refs' <=> Reservation(q) \in refs,
         Reservation(p) \in refs' \ refs => At(p, "reserveInsert") /\ c # "reserveInsert",
         c = "reserveInsert" =>
           (\A r \in refs : ~IsReservation(r)) /\ (NoFault => \A e \in Posts : ~Standing(e)),
         post[p].pc \in Registering /\ remote'[p] \in LiveStates =>
           \/ c \in Registering
           \/ \E r \in refs' : r.entry = p
           \/ <<p, "replyLost">> \in faults' \/ <<p, "entryLeft">> \in faults'
  PROVE  IInv'
<1> DEFINE x == [post[p] EXCEPT !.pc = c]
<1>1. /\ x \in PostRecords /\ post' = [post EXCEPT ![p] = x]
      /\ x.pc = c /\ x.request = post[p].request /\ x.entry = post[p].entry
      /\ x.seen = post[p].seen /\ x.todo = post[p].todo
  BY Gone DEF IInv
<1>2. \A r \in x.todo : IsReservation(r) \/ Identified(r, post)
  BY <1>1 DEF IInv, CopyInv
<1>3. PostOK(p, x, refs', faults')
  OBVIOUS
<1> HIDE DEF x
<1> QED
  BY <1>1, <1>2, <1>3, PostMoves

LEMMA PostGoesOn ==
  ASSUME IInv, NEW p \in Posts, NEW c \in PostPCs \ (Locking \cup {"scanSave"}), Goto(p, c),
         UNCHANGED <<refs, remote, lock, manager>>, faults \subseteq faults',
         post[p].pc \notin Locking \cup {"ok"},
         PostOK(p, [post[p] EXCEPT !.pc = c], refs, faults'),
         post[p].pc \in Registering /\ Live(p) =>
           \/ c \in Registering \/ RowOf(p) # {}
           \/ <<p, "replyLost">> \in faults' \/ <<p, "entryLeft">> \in faults'
  PROVE  IInv'
<1>1. RowChange /\ RemoteChange
  BY RowsUnchanged, EntriesUnchanged
<1>2. lock # p /\ lock \in Posts \cup {None}
  BY DEF IInv, PostInv, Types
<1>3. c # "reserveInsert" /\ ~At(p, "ok")
  BY DEF Locking, At
<1>4. \/ \E r \in refs : r.entry = p
      \/ ~(\E r \in RowOf(p) : TRUE)
  BY DEF RowOf
<1> QED
  BY <1>1, <1>2, <1>3, <1>4, PostGoes DEF Live

LEMMA ScanRowsStep ==
  ASSUME IInv, NEW p \in Posts, ScanRows(p)
  PROVE  IInv'
<1> DEFINE x == [post[p] EXCEPT !.pc = "scan", !.todo = refs]
<1>1. post[p] \in PostRecords /\ refs \subseteq Rows
  BY DEF IInv, Types
<1>2. /\ x \in PostRecords /\ x.pc = "scan" /\ x.request = post[p].request
      /\ x.entry = post[p].entry /\ x.seen = post[p].seen /\ x.todo = refs
  BY <1>1 DEF PostRecords, PostPCs
<1>3. post' = [post EXCEPT ![p] = x]
  BY DEF ScanRows
<1>4. RowChange /\ RemoteChange
  BY RowsUnchanged, EntriesUnchanged DEF ScanRows
<1>5. PostOK(p, x, refs, faults)
  BY <1>2 DEF IInv, PostInv, PostOK, ScanRows, At, BeforeAwait, Holding
<1>6. \A r \in refs : IsReservation(r) \/ Identified(r, post)
  BY RowKinds DEF IInv
<1>7. lock # p /\ lock \in Posts \cup {None} /\ x.pc \notin Locking \cup Registering
  BY <1>2 DEF IInv, PostInv, Types, ScanRows, At, Locking, Registering
<1>8. post[p].pc = "start" /\ post[p].request # "answered"
  BY DEF ScanRows, At, IInv, PostInv, PostOK, BeforeAwait
<1> HIDE DEF x
<1>9. UNCHANGED <<refs, lock, manager, faults>>
  BY DEF ScanRows
<1> QED
  BY <1>2, <1>3, <1>4, <1>5, <1>6, <1>7, <1>8, <1>9, PostMoves DEF At, Registering

LEMMA ScanNextStep ==
  ASSUME IInv, NEW p \in Posts, ScanNext(p)
  PROVE  IInv'
<1>1. /\ UNCHANGED <<refs, remote, lock, manager, faults>>
      /\ post[p].pc = "scan" /\ post[p].request = "none" /\ post[p] \in PostRecords
  BY DEF ScanNext, At, IInv, Types, PostInv, PostOK, BeforeAwait
<1>2. Reservation(p) \notin refs /\ lock # p /\ lock \in Posts \cup {None}
  BY <1>1 DEF IInv, Types, PostInv, PostOK, Holding, Locking
<1>3. RowChange /\ RemoteChange
  BY <1>1, RowsUnchanged, EntriesUnchanged
<1>4. ASSUME NEW c \in {"registry", "failed"}, Goto(p, c)
      PROVE  IInv'
  <2>1. PostOK(p, [post[p] EXCEPT !.pc = c], refs, faults)
    BY <1>1, <1>2, GoneOK DEF BeforeAwait, Holding, PostPCs
  <2> QED
    BY <1>1, <1>4, <2>1, PostGoesOn DEF PostPCs, Locking, Registering
<1>5. ASSUME NEW r \in post[p].todo, ~IsReservation(r),
             post' = [post EXCEPT ![p].pc = "scanSave", ![p].row = r,
                                  ![p].seen = remote[r.entry]]
      PROVE  IInv'
  <2> DEFINE x == [post[p] EXCEPT !.pc = "scanSave", !.row = r, !.seen = remote[r.entry]]
  <2>1. Identified(r, post)
    BY <1>5 DEF IInv, CopyInv
  <2>2. r \in Rows /\ remote[r.entry] \in EntryStates
    BY <2>1 DEF Identified, IInv, Types
  <2>3. /\ x \in PostRecords /\ x.pc = "scanSave" /\ x.request = "none"
        /\ x.seen = remote[r.entry] /\ x.row = r /\ x.todo = post[p].todo
    BY <1>1, <2>2 DEF PostRecords, PostPCs
  <2>4. PostOK(p, x, refs, faults)
    BY <1>1, <1>2, <2>3 DEF PostOK, BeforeAwait, Holding
  <2>5. \A q \in x.todo : IsReservation(q) \/ Identified(q, post)
    BY <2>3 DEF IInv, CopyInv
  <2>6. Standing(r.entry) => x.seen \in StandingStates
    BY <2>3 DEF Standing
  <2>7. post' = [post EXCEPT ![p] = x] /\ x.pc \notin Locking
    BY <1>5, <2>3 DEF Locking
  <2> HIDE DEF x
  <2> QED
    BY <1>1, <1>2, <1>3, <2>1, <2>3, <2>4, <2>5, <2>6, <2>7, PostMoves DEF At, Registering
<1>6. ASSUME NEW r \in post[p].todo, post' = [post EXCEPT ![p].todo = @ \ {r}]
      PROVE  IInv'
  <2> DEFINE x == [post[p] EXCEPT !.todo = @ \ {r}]
  <2>1. /\ x \in PostRecords /\ x.pc = "scan" /\ x.request = "none"
        /\ x.seen = post[p].seen /\ x.row = post[p].row /\ x.todo = post[p].todo \ {r}
    BY <1>1 DEF PostRecords
  <2>2. PostOK(p, x, refs, faults)
    BY <1>1, <1>2, <2>1 DEF PostOK, BeforeAwait, Holding
  <2>3. \A q \in x.todo : IsReservation(q) \/ Identified(q, post)
    BY <2>1 DEF IInv, CopyInv
  <2>4. post' = [post EXCEPT ![p] = x] /\ x.pc \notin Locking
    BY <1>6, <2>1 DEF Locking
  <2> HIDE DEF x
  <2> QED
    BY <1>1, <1>2, <1>3, <2>1, <2>2, <2>3, <2>4, PostMoves DEF At, Registering
<1>7. \/ \E c \in {"registry", "failed"} : Goto(p, c)
      \/ \E r \in post[p].todo :
           ~IsReservation(r) /\ post' = [post EXCEPT ![p].pc = "scanSave", ![p].row = r,
                                                    ![p].seen = remote[r.entry]]
      \/ \E r \in post[p].todo : post' = [post EXCEPT ![p].todo = @ \ {r}]
  BY Zenon DEF ScanNext
<1> QED
  BY <1>4, <1>5, <1>6, <1>7

(* The end of a pending registration or deregistration in the row of an    *)
(* entry that was gone when it was read.                                   *)
LEMMA SettleChanges ==
  ASSUME IInv, NEW r, Identified(r, post), NEW s \in RegistrationStates, ~Standing(r.entry),
         \A q : Identified(q, post) => Identified(q, post'),
         {q \in refs : q.id = r.id} # {},
         refs' = UNION {SetState(q, s) : q \in {o \in refs : o.id = r.id}}
  PROVE  RowChange /\ \A q \in Posts : Reservation(q) \in refs' <=> Reservation(q) \in refs
<1>1. PICK o \in refs : o.id = r.id
  OBVIOUS
<1>2. \A q \in refs : q.id = r.id => q.entry = r.entry
  BY SameEntry DEF IInv
<1>3. {q \in refs : q.id = r.id} = {o}
  BY <1>1, <1>2 DEF IInv, RowInv
<1> DEFINE w == [o EXCEPT !.state = s]
<1>4. refs' = (refs \ {o}) \cup {w}
  BY <1>3 DEF SetState
<1>5. o.entry = r.entry /\ r.entry \in Posts
  BY <1>1, <1>2 DEF Identified
<1>6. Identified(o, post) /\ o \in Rows
  BY <1>5, RowKinds DEF IInv, Identified
<1>7. /\ w \in Rows /\ w.entry = o.entry /\ w.owner = o.owner /\ w.id = o.id
  BY <1>6 DEF Rows
<1>8. Identified(w, post)
  BY <1>6, <1>7 DEF Identified
<1>9. \A q \in Posts : Reservation(q) # o /\ Reservation(q) # w
  BY <1>5, <1>7, Distinct DEF Reservation, Row
<1> HIDE DEF w
<1>10. refs' \subseteq Rows
  BY <1>4, <1>7 DEF IInv, Types
<1>11. \A q \in refs' : q \in refs \/ (Identified(q, post') /\ ~Standing(q.entry))
  BY <1>4, <1>5, <1>7, <1>8
<1>12. \A q, t \in refs' : q.entry = t.entry => q = t
  BY <1>4, <1>7 DEF IInv, RowInv
<1>13. \A e \in Posts : RowOf(e) # {} => \E q \in refs' : q.entry = e
  BY <1>4, <1>7 DEF RowOf
<1>14. \A q \in refs, t \in refs' : q.entry = t.entry => q.owner = t.owner
  BY <1>4, <1>7 DEF IInv, RowInv
<1> QED
  BY <1>4, <1>9, <1>10, <1>11, <1>12, <1>13, <1>14 DEF RowChange

LEMMA ScanSaveStep ==
  ASSUME IInv, NEW p \in Posts, ScanSave(p)
  PROVE  IInv' /\ RowChange
<1> DEFINE r == post[p].row
           gone == IF r.state = "DeregistrationRequested"
                   THEN "DeregistrationConfirmed" ELSE "RegistrationFailed"
           resolved == IF post[p].seen = "absent" THEN gone ELSE post[p].seen
           x == [post[p] EXCEPT !.pc = "scan", !.row = None, !.todo = @ \ {r}]
           Continues == post' = [post EXCEPT ![p] = x] \/ Goto(p, "failed")
<1>1. /\ UNCHANGED <<remote, lock, manager, faults>>
      /\ post[p].pc = "scanSave" /\ post[p].request = "none" /\ post[p] \in PostRecords
  BY DEF ScanSave, At, IInv, Types, PostInv, PostOK, BeforeAwait
<1>2. Reservation(p) \notin refs /\ lock # p /\ lock \in Posts \cup {None}
  BY <1>1 DEF IInv, Types, PostInv, PostOK, Holding, Locking
<1>3. RemoteChange
  BY <1>1, EntriesUnchanged
<1>4. /\ Identified(r, post) /\ r \in Rows /\ r.entry \in Posts /\ r.owner \in Users
      /\ post[r.entry].request = "answered"
      /\ Standing(r.entry) => post[p].seen \in StandingStates
  BY <1>1 DEF IInv, CopyInv, TruthInv, At, Identified, Rows
<1>5. PostOK(p, [post[p] EXCEPT !.pc = "failed"], refs, faults)
  BY <1>1, <1>2, GoneOK DEF BeforeAwait, Holding, PostPCs
<1>6. /\ x \in PostRecords /\ x.pc = "scan" /\ x.request = "none"
      /\ x.seen = post[p].seen /\ x.todo = post[p].todo \ {r}
  BY <1>1 DEF PostRecords, PostPCs
<1>7. PostOK(p, x, refs, faults)
  BY <1>1, <1>2, <1>6 DEF PostOK, BeforeAwait, Holding
<1>8. \A q \in x.todo : IsReservation(q) \/ Identified(q, post)
  BY <1>6 DEF IInv, CopyInv
<1>9. CASE Goto(p, "failed") /\ UNCHANGED refs
  BY <1>1, <1>5, <1>9, PostGoesOn, RowsUnchanged DEF PostPCs, Locking, Registering
<1>10. ASSUME Continues, NEW q, Identified(q, post)
       PROVE  Identified(q, post')
  <2>1. CASE post' = [post EXCEPT ![p] = x]
    BY <1>1, <1>6, <1>10, <2>1, IdentifiedStays DEF IInv, At
  <2>2. CASE Goto(p, "failed")
    <3> DEFINE y == [post[p] EXCEPT !.pc = "failed"]
    <3>1. y \in PostRecords /\ post' = [post EXCEPT ![p] = y]
      BY <2>2, Gone DEF IInv, PostPCs
    <3> HIDE DEF y
    <3> QED
      BY <1>1, <1>10, <3>1, IdentifiedStays DEF IInv, At
  <2> QED
    BY <1>10, <2>1, <2>2
<1>11. ASSUME Continues, RowChange,
              \A q \in Posts : Reservation(q) \in refs' <=> Reservation(q) \in refs
       PROVE  IInv'
  <2>1. CASE post' = [post EXCEPT ![p] = x]
    <3>1. PostOK(p, x, refs', faults')
      BY <1>1, <1>7, <1>11 DEF PostOK
    <3>2. x.pc \notin Locking /\ x.pc # "reserveInsert" /\ x.pc # "scanSave"
      BY <1>6 DEF Locking
    <3> HIDE DEF x
    <3> QED
      BY <1>1, <1>2, <1>3, <1>6, <1>8, <1>11, <2>1, <3>1, <3>2, PostMoves DEF At, Registering
  <2>2. CASE Goto(p, "failed")
    <3>1. PostOK(p, [post[p] EXCEPT !.pc = "failed"], refs', faults')
      BY <1>1, <1>5, <1>11 DEF PostOK
    <3> QED
      BY <1>1, <1>2, <1>3, <1>11, <2>2, <3>1, PostGoes DEF At, PostPCs, Locking, Registering
  <2> QED
    BY <1>11, <2>1, <2>2
<1>12. CASE /\ post[p].seen # "absent" /\ ~OwnedByOther(r.entry, r.owner)
            /\ refs' = Saved(r.entry, r.owner, resolved) /\ Continues
  <2>1. resolved = post[p].seen /\ resolved \in RegistrationStates
    BY <1>1, <1>12 DEF PostRecords, EntryStates
  <2>2. Identified(SavedRow(r.entry, r.owner, resolved), post')
    BY <1>4, <1>10, <1>12, <2>1, SavedRows
  <2>3. RowChange /\ \A q \in Posts : Reservation(q) \in refs' <=> Reservation(q) \in refs
    <3> HIDE DEF resolved, r
    <3> QED
      BY <1>4, <1>12, <2>1, <2>2, SaveChanges
  <2> QED
    BY <1>11, <1>12, <2>3
<1>13. CASE /\ post[p].seen = "absent" /\ {q \in refs : q.id = r.id} # {}
            /\ refs' = UNION {SetState(q, resolved) : q \in {o \in refs : o.id = r.id}}
            /\ Continues
  <2>1. resolved \in RegistrationStates
    BY <1>13 DEF RegistrationStates
  <2>2. ~Standing(r.entry)
    BY <1>4, <1>13 DEF StandingStates, LiveStates, RegistrationStates
  <2>3. RowChange /\ \A q \in Posts : Reservation(q) \in refs' <=> Reservation(q) \in refs
    <3>1. \A q : Identified(q, post) => Identified(q, post')
      BY <1>10, <1>13
    <3> HIDE DEF resolved, r
    <3> QED
      BY <1>4, <1>13, <2>1, <2>2, <3>1, SettleChanges
  <2> QED
    BY <1>11, <1>13, <2>3
<1> QED
  BY <1>9, <1>12, <1>13 DEF ScanSave

(* Steps that only go on from a place without the lock to another.         *)
LEMMA GoesOnSteps ==
  ASSUME IInv, NEW p \in Posts,
         \/ CheckRegistry(p) \/ DebitRefused(p) \/ RegisterAnswered(p)
         \/ RegisterReplyLost(p) \/ FinalizeFails(p) \/ RefundAfterFailure(p)
  PROVE  IInv'
<1>1. post[p] \in PostRecords /\ PostOK(p, post[p], refs, faults)
  BY DEF IInv, Types, PostInv
<1>2. CASE CheckRegistry(p)
  <2>1. PICK c \in {"reserve", "failed"} : Goto(p, c)
    BY <1>2 DEF CheckRegistry
  <2>2. /\ post[p].pc = "registry" /\ post[p].request = "none" /\ Reservation(p) \notin refs
        /\ UNCHANGED <<refs, remote, lock, manager, faults>>
    BY <1>1, <1>2 DEF CheckRegistry, At, PostOK, BeforeAwait, Holding
  <2>3. PostOK(p, [post[p] EXCEPT !.pc = c], refs, faults)
    BY <1>1, <2>2, GoneOK DEF Holding, PostPCs
  <2>4. c \in PostPCs \ (Locking \cup {"scanSave"})
    BY DEF PostPCs, Locking
  <2> QED
    BY <2>1, <2>2, <2>3, <2>4, PostGoesOn DEF Locking, Registering
<1>3. CASE DebitRefused(p)
  <2>1. PostOK(p, [post[p] EXCEPT !.pc = "refund"], refs, faults)
    BY <1>1, <1>3, GoneOK DEF DebitRefused, At, PostOK, BeforeAwait, Holding, PostPCs
  <2> QED
    BY <1>3, <2>1, PostGoesOn DEF DebitRefused, At, PostPCs, Locking, Registering
<1>4. CASE RegisterAnswered(p)
  <2>1. PostOK(p, [post[p] EXCEPT !.pc = "finalize"], refs, faults)
    BY <1>1, <1>4, GoneOK DEF RegisterAnswered, At, PostOK, BeforeAwait, Holding, PostPCs
  <2> QED
    BY <1>4, <2>1, PostGoesOn DEF RegisterAnswered, At, PostPCs, Locking, Registering
<1>5. CASE RegisterReplyLost(p)
  <2>1. faults \subseteq faults' /\ <<p, "replyLost">> \in faults'
    BY <1>5 DEF RegisterReplyLost, Fault
  <2>2. PostOK(p, [post[p] EXCEPT !.pc = "refund"], refs, faults')
    BY <1>1, <1>5, <2>1, GoneOK DEF RegisterReplyLost, At, PostOK, BeforeAwait, Holding, PostPCs
  <2> QED
    BY <1>5, <2>1, <2>2, PostGoesOn DEF RegisterReplyLost, At, PostPCs, Locking, Registering
<1>6. CASE FinalizeFails(p)
  <2>1. faults \subseteq faults'
    BY <1>6 DEF FinalizeFails, Fault
  <2>2. PostOK(p, [post[p] EXCEPT !.pc = "cleanRemote"], refs, faults')
    BY <1>1, <1>6, <2>1, GoneOK DEF FinalizeFails, At, PostOK, BeforeAwait, Holding, PostPCs
  <2> QED
    BY <1>6, <2>1, <2>2, PostGoesOn DEF FinalizeFails, At, PostPCs, Locking, Registering
<1>7. CASE RefundAfterFailure(p)
  <2>1. faults \subseteq faults'
    BY <1>7 DEF RefundAfterFailure, Fault
  <2>2. PostOK(p, [post[p] EXCEPT !.pc = "cleanRow"], refs, faults')
    BY <1>1, <1>7, <2>1, GoneOK DEF RefundAfterFailure, At, PostOK, BeforeAwait, Holding, PostPCs
  <2> QED
    BY <1>7, <2>1, <2>2, PostGoesOn DEF RefundAfterFailure, At, PostPCs, Locking, Registering
<1> QED
  BY <1>2, <1>3, <1>4, <1>5, <1>6, <1>7

LEMMA DebitStep ==
  ASSUME IInv, NEW p \in Posts, Debit(p)
  PROVE  IInv'
<1>1. post[p] \in PostRecords /\ PostOK(p, post[p], refs, faults) /\ post[p].pc = "debit"
  BY DEF IInv, Types, PostInv, Debit, At
<1>2. CASE Goto(p, "refund") /\ Fault(p, "debitUnnoticed")
  <2>1. faults \subseteq faults'
    BY <1>2 DEF Fault
  <2>2. PostOK(p, [post[p] EXCEPT !.pc = "refund"], refs, faults')
    BY <1>1, <2>1, GoneOK DEF PostOK, BeforeAwait, Holding, PostPCs
  <2> QED
    BY <1>1, <1>2, <2>1, <2>2, PostGoesOn DEF Debit, PostPCs, Locking, Registering
<1>3. CASE /\ post' = [post EXCEPT ![p].pc = "register", ![p].refundable = TRUE]
           /\ UNCHANGED faults
  <2> DEFINE x == [post[p] EXCEPT !.pc = "register", !.refundable = TRUE]
  <2>1. /\ x \in PostRecords /\ x.pc = "register" /\ x.request = post[p].request
        /\ x.entry = post[p].entry /\ x.seen = post[p].seen /\ x.todo = post[p].todo
    BY <1>1 DEF PostRecords, PostPCs
  <2>2. PostOK(p, x, refs, faults)
    BY <1>1, <2>1 DEF PostOK, BeforeAwait, Holding
  <2>3. \A r \in x.todo : IsReservation(r) \/ Identified(r, post)
    BY <2>1 DEF IInv, CopyInv
  <2>4. lock # p /\ lock \in Posts \cup {None} /\ x.pc \notin Locking
    BY <1>1, <2>1 DEF IInv, PostInv, Types, Locking
  <2>5. post' = [post EXCEPT ![p] = x] /\ UNCHANGED <<refs, remote, lock, manager, faults>>
    BY <1>3 DEF Debit
  <2>6. RowChange /\ RemoteChange
    BY <2>5, RowsUnchanged, EntriesUnchanged
  <2> HIDE DEF x
  <2> QED
    BY <1>1, <2>1, <2>2, <2>3, <2>4, <2>5, <2>6, PostMoves DEF At, Registering
<1> QED
  BY <1>2, <1>3 DEF Debit

(* The request to the payment node leaves, or is answered with an error.   *)
LEMMA RequestSteps ==
  ASSUME IInv, NEW p \in Posts, SendRegister(p) \/ RegisterRejected(p)
  PROVE  IInv'
<1> PICK c \in {"await", "refund"}, q \in {"sent", "none"} :
      /\ \/ At(p, "register") /\ c = "await" /\ q = "sent"
         \/ At(p, "await") /\ post[p].request = "sent" /\ c = "refund" /\ q = "none"
      /\ post' = [post EXCEPT ![p].pc = c, ![p].request = q]
      /\ UNCHANGED <<refs, remote, lock, manager, faults>>
  BY Zenon DEF SendRegister, RegisterRejected
<1> DEFINE x == [post[p] EXCEPT !.pc = c, !.request = q]
<1>1. post[p] \in PostRecords /\ PostOK(p, post[p], refs, faults)
  BY DEF IInv, Types, PostInv
<1>2. /\ x \in PostRecords /\ x.pc = c /\ x.request = q
      /\ x.entry = post[p].entry /\ x.seen = post[p].seen /\ x.todo = post[p].todo
  BY <1>1 DEF PostRecords, PostPCs
<1>3. PostOK(p, x, refs, faults)
  BY <1>1, <1>2 DEF At, PostOK, BeforeAwait, Holding
<1>4. \A r \in x.todo : IsReservation(r) \/ Identified(r, post)
  BY <1>2 DEF IInv, CopyInv
<1>5. lock # p /\ lock \in Posts \cup {None} /\ x.pc \notin Locking
  BY <1>2 DEF IInv, PostInv, Types, At, Locking
<1>6. RowChange /\ RemoteChange
  BY RowsUnchanged, EntriesUnchanged
<1>7. post[p].request # "answered"
  BY <1>1 DEF At, PostOK, BeforeAwait
<1>8. remote[p] = "absent"
  BY <1>7 DEF IInv, EntryInv
<1>9. remote'[p] \notin LiveStates
  BY <1>8 DEF LiveStates, RegistrationStates
<1>10. post' = [post EXCEPT ![p] = x]
  OBVIOUS
<1> HIDE DEF x
<1> QED
  BY <1>2, <1>3, <1>4, <1>5, <1>6, <1>7, <1>9, <1>10, PostMoves DEF At

LEMMA CrashStep ==
  ASSUME IInv, NEW p \in Posts, Crash(p)
  PROVE  IInv'
<1>1. /\ post[p] \in PostRecords /\ PostOK(p, post[p], refs, faults)
      /\ post[p].pc \in PostPCs \ {"start", "ok", "failed", "crashed"}
  BY DEF IInv, Types, PostInv, Crash, InFlight, PostRecords
<1>2. faults \subseteq faults' /\ <<p, "crash">> \in faults'
  BY DEF Crash, Fault
<1>3. PostOK(p, [post[p] EXCEPT !.pc = "crashed"], refs, faults')
  <2>1. post[p].pc \in BeforeAwait \cup Holding
    BY <1>1 DEF PostPCs, BeforeAwait, Holding
  <2>2. post[p].request # "none" => Reservation(p) \in refs
    BY <1>1, <2>1 DEF PostOK
  <2>3. "crashed" \notin BeforeAwait \cup Holding
    BY DEF BeforeAwait, Holding
  <2> QED
    BY <1>1, <1>2, <2>2, <2>3, GoneOK DEF PostOK, PostPCs
<1>4. /\ lock' \in Posts \cup {None} /\ lock' # p
      /\ \A q \in Posts \ {p} : (lock' = q) <=> (lock = q)
  BY Distinct DEF Crash, IInv, Types
<1>5. RowChange /\ RemoteChange
  BY RowsUnchanged, EntriesUnchanged DEF Crash
<1> QED
  BY <1>1, <1>2, <1>3, <1>4, <1>5, PostGoes DEF Crash, At, PostPCs, Locking, Registering

(* A POST in the reservation's transaction, or waiting for its lock.       *)
LEMMA ReserveLockSteps ==
  ASSUME IInv, NEW p \in Posts, ReserveLock(p) \/ ReserveFails(p)
  PROVE  IInv'
<1>1. /\ post[p] \in PostRecords /\ PostOK(p, post[p], refs, faults)
      /\ post[p].pc \in {"reserve", "reserveCheck", "reserveInsert"}
      /\ UNCHANGED <<refs, remote, manager, faults>>
  BY DEF IInv, Types, PostInv, ReserveLock, ReserveFails, At
<1>2. post[p].request = "none" /\ Reservation(p) \notin refs
  BY <1>1 DEF PostOK, BeforeAwait, Holding
<1>3. \A c \in {"reserveCheck", "failed"} : PostOK(p, [post[p] EXCEPT !.pc = c], refs, faults)
  BY <1>1, <1>2, GoneOK DEF BeforeAwait, Holding, PostPCs
<1>4. RowChange /\ RemoteChange
  BY <1>1, RowsUnchanged, EntriesUnchanged
<1>5. CASE ReserveLock(p)
  <2>1. /\ lock' = p /\ lock = None /\ Goto(p, "reserveCheck")
    BY <1>5 DEF ReserveLock, LockFree
  <2> QED
    BY <1>1, <1>3, <1>4, <2>1, Distinct, PostGoes DEF At, PostPCs, Locking, Registering
<1>6. CASE ReserveFails(p)
  <2>1. /\ lock' \in Posts \cup {None} /\ lock' # p /\ Goto(p, "failed")
        /\ \A q \in Posts \ {p} : (lock' = q) <=> (lock = q)
    BY <1>6, Distinct DEF ReserveFails, IInv, Types
  <2> QED
    BY <1>1, <1>3, <1>4, <2>1, PostGoes DEF At, PostPCs, Locking, Registering
<1> QED
  BY <1>5, <1>6

(* A check under the lock that finds no active row: no reservation is      *)
(* there, and no entry stands.                                             *)
LEMMA NothingStands ==
  ASSUME IInv, \A r \in refs : ~Active(r)
  PROVE  /\ \A r \in refs : ~IsReservation(r)
         /\ NoFault => \A e \in Posts : ~Standing(e)
<1>1. \A r \in refs : r.state \notin StandingStates
  BY DEF Active, IsReusable, IsDeregistered, IsFailed, StandingStates, LiveStates,
         RegistrationStates
<1>2. \A p \in Posts : Reservation(p) \notin refs
  BY <1>1 DEF Reservation, Row, StandingStates, LiveStates, RegistrationStates
<1>3. \A r \in refs : ~IsReservation(r)
  BY <1>2, RowKinds DEF IInv
<1>4. ASSUME NoFault, NEW e \in Posts, Standing(e)
      PROVE  FALSE
  <2>1. RowOf(e) = {}
    BY <1>1, <1>4 DEF IInv, TruthInv, RowOf
  <2>2. Live(e) /\ remote[e] # "absent"
    BY <1>4 DEF Live, Standing, StandingStates, LiveStates, RegistrationStates
  <2>3. post[e].pc \in Registering /\ post[e].request = "answered"
    BY <1>4, <2>1, <2>2 DEF IInv, EntryInv, NoFault
  <2>4. Reservation(e) \in refs
    BY <2>3 DEF IInv, PostInv, PostOK, Registering, Holding
  <2> QED
    BY <1>2, <2>4
<1> QED
  BY <1>3, <1>4

LEMMA ReserveCheckStep ==
  ASSUME IInv, NEW p \in Posts, ReserveCheck(p)
  PROVE  IInv'
<1>1. /\ post[p] \in PostRecords /\ PostOK(p, post[p], refs, faults)
      /\ post[p].pc = "reserveCheck" /\ lock = p
      /\ UNCHANGED <<refs, remote, manager, faults>>
  BY DEF IInv, Types, PostInv, ReserveCheck, At, Locking
<1>2. post[p].request = "none" /\ Reservation(p) \notin refs
  BY <1>1 DEF PostOK, BeforeAwait, Holding
<1>3. \A c \in {"reserveInsert", "failed"} : PostOK(p, [post[p] EXCEPT !.pc = c], refs, faults)
  BY <1>1, <1>2, GoneOK DEF BeforeAwait, Holding, PostPCs
<1>4. RowChange /\ RemoteChange
  BY <1>1, RowsUnchanged, EntriesUnchanged
<1>5. CASE lock' = None /\ Goto(p, "failed")
  BY <1>1, <1>3, <1>4, <1>5, Distinct, PostGoes DEF At, PostPCs, Locking, Registering
<1>6. CASE (\A r \in refs : ~Active(r)) /\ UNCHANGED lock /\ Goto(p, "reserveInsert")
  <2>1. /\ \A r \in refs : ~IsReservation(r)
        /\ NoFault => \A e \in Posts : ~Standing(e)
    BY <1>6, NothingStands
  <2> QED
    BY <1>1, <1>3, <1>4, <1>6, <2>1, Distinct, PostGoes DEF At, PostPCs, Locking, Registering
<1> QED
  BY <1>5, <1>6 DEF ReserveCheck

LEMMA ReserveInsertStep ==
  ASSUME IInv, NEW p \in Posts, ReserveInsert(p)
  PROVE  IInv' /\ RowChange
<1>1. /\ post[p] \in PostRecords /\ PostOK(p, post[p], refs, faults)
      /\ post[p].pc = "reserveInsert" /\ lock = p
      /\ UNCHANGED <<remote, manager>> /\ lock' = None
      /\ \A r \in refs : ~IsReservation(r)
  BY DEF IInv, Types, PostInv, ReserveInsert, At, Locking
<1>2. refs' = refs \cup {Reservation(p)}
  BY DEF ReserveInsert, Reservation
<1>3. \A q \in Posts : Reservation(q).entry = None /\ Reservation(q).id = q
  BY DEF Reservation, Row
<1>4. Reservation(p) \in Rows
  BY InboxAssumption DEF Reservation, Row, Rows, Ids, RegistrationStates
<1>5. RowChange
  <2>1. \A r, q \in refs' : r.entry = q.entry => r = q
    BY <1>1, <1>2, <1>3 DEF IInv, RowInv, IsReservation
  <2>2. \A r \in refs, q \in refs' : r.entry = q.entry /\ r.entry # None => r.owner = q.owner
    BY <1>2, <1>3 DEF IInv, RowInv
  <2> QED
    BY <1>2, <1>4, <2>1, <2>2 DEF RowChange, IInv, Types, RowOf
<1>6. /\ RemoteChange
      /\ \A q \in Posts \ {p} : Reservation(q) \in refs' <=> Reservation(q) \in refs
  BY <1>1, <1>2, <1>3, EntriesUnchanged
<1>7. /\ faults \subseteq faults'
      /\ \/ Goto(p, "debit")
         \/ Goto(p, "failed") /\ <<p, "rowLeft">> \in faults'
  BY DEF ReserveInsert, Fault
<1>8. post[p].request = "none" /\ Reservation(p) \in refs'
  BY <1>1, <1>2 DEF PostOK, BeforeAwait
<1>9. CASE Goto(p, "debit")
  <2>1. PostOK(p, [post[p] EXCEPT !.pc = "debit"], refs', faults')
    BY <1>1, <1>8, GoneOK DEF Holding, PostPCs
  <2> QED
    BY <1>1, <1>5, <1>6, <1>7, <1>9, <2>1, Distinct, PostGoes DEF At, PostPCs, Locking, Registering
<1>10. CASE Goto(p, "failed") /\ <<p, "rowLeft">> \in faults'
  <2>1. PostOK(p, [post[p] EXCEPT !.pc = "failed"], refs', faults')
    BY <1>1, <1>8, <1>10, GoneOK DEF BeforeAwait, Holding, PostPCs
  <2> QED
    BY <1>1, <1>5, <1>6, <1>7, <1>10, <2>1, Distinct, PostGoes
       DEF At, PostPCs, Locking, Registering
<1> QED
  BY <1>5, <1>7, <1>9, <1>10

(* A POST that still owns its reservation has given its id to no row.      *)
LEMMA OwnRow ==
  ASSUME IInv, NEW p \in Posts, post[p].pc # "ok", NEW r \in refs, r.id = p
  PROVE  r = Reservation(p)
<1>1. ~Identified(r, post)
  BY Distinct DEF Identified
<1> QED
  BY <1>1 DEF IInv, RowInv, Reservation, Row

LEMMA CleanReservationStep ==
  ASSUME IInv, NEW p \in Posts, CleanReservation(p)
  PROVE  IInv' /\ RowChange
<1>1. /\ post[p] \in PostRecords /\ PostOK(p, post[p], refs, faults)
      /\ post[p].pc = "cleanRow" /\ Goto(p, "failed") /\ lock # p /\ lock \in Posts \cup {None}
      /\ UNCHANGED <<remote, lock, manager>>
  BY DEF IInv, Types, PostInv, CleanReservation, At, Locking
<1>2. CASE Fault(p, "rowLeft") /\ UNCHANGED refs
  <2>1. faults \subseteq faults' /\ <<p, "rowLeft">> \in faults'
    BY <1>2 DEF Fault
  <2>2. /\ post[p].request = "answered" => post[p].entry \in Posts /\ post[p].seen # "absent"
        /\ post[p].request = "sent" => <<p, "replyLost">> \in faults'
    BY <1>1, <2>1 DEF PostOK
  <2>3. PostOK(p, [post[p] EXCEPT !.pc = "failed"], refs, faults')
    BY <1>1, <2>1, <2>2, GoneOK DEF BeforeAwait, Holding, PostPCs
  <2> QED
    BY <1>1, <1>2, <2>1, <2>3, PostGoesOn, RowsUnchanged DEF PostPCs, Locking, Registering
<1>3. CASE refs' = {r \in refs : r.id # p} /\ UNCHANGED faults
  <2>1. \A r \in refs : r \in refs' \/ r = Reservation(p)
    BY <1>1, <1>3, OwnRow
  <2>2. \A q \in Posts : Reservation(q).entry = None /\ Reservation(q).id = q
    BY DEF Reservation, Row
  <2>3. RowChange
    <3>1. \A e \in Posts : RowOf(e) # {} => \E r \in refs' : r.entry = e
      BY <2>1, <2>2, Distinct DEF RowOf
    <3> QED
      BY <1>3, <3>1 DEF RowChange, IInv, Types, RowInv
  <2>4. \A q \in Posts \ {p} : Reservation(q) \in refs' <=> Reservation(q) \in refs
    BY <1>3, <2>2
  <2>5. Reservation(p) \notin refs'
    BY <1>3, <2>2
  <2>6. PostOK(p, [post[p] EXCEPT !.pc = "failed"], refs', faults')
    BY <1>1, <1>3, <2>5, GoneOK DEF PostOK, BeforeAwait, Holding, PostPCs
  <2>7. RemoteChange
    BY <1>1, EntriesUnchanged
  <2> QED
    BY <1>1, <1>3, <2>3, <2>4, <2>5, <2>6, <2>7, PostGoes DEF At, PostPCs, Locking, Registering
<1> QED
  BY <1>2, <1>3 DEF CleanReservation

LEMMA CleanRemoteStep ==
  ASSUME IInv, NEW p \in Posts, CleanRemote(p)
  PROVE  IInv'
<1> DEFINE e == post[p].entry
<1>1. /\ post[p] \in PostRecords /\ PostOK(p, post[p], refs, faults)
      /\ post[p].pc = "cleanRemote" /\ Goto(p, "refund") /\ lock # p /\ lock \in Posts \cup {None}
      /\ UNCHANGED <<refs, lock, manager>>
  BY DEF IInv, Types, PostInv, CleanRemote, At, Locking
<1>2. e \in Posts /\ post[p].request = "answered"
  BY <1>1 DEF PostOK
<1>3. faults \subseteq faults'
  BY DEF CleanRemote, Fault
<1>4. PostOK(p, [post[p] EXCEPT !.pc = "refund"], refs, faults')
  BY <1>1, <1>2, <1>3, GoneOK DEF PostOK, BeforeAwait, Holding, PostPCs
<1>5. CASE Fault(p, "entryLeft") /\ UNCHANGED remote
  <2>1. <<p, "entryLeft">> \in faults'
    BY <1>5 DEF Fault
  <2> QED
    BY <1>1, <1>3, <1>4, <1>5, <2>1, PostGoesOn DEF PostPCs, Locking, Registering
<1>6. CASE remote' = [remote EXCEPT ![e] = "absent"]
  <2>1. RemoteChange
    <3> HIDE DEF e
    <3> QED
      BY <1>2, <1>6, EntryMoves DEF EntryStates, StandingStates, LiveStates, RegistrationStates
  <2>2. remote'[p] \notin LiveStates
    <3>1. CASE e = p
      BY <1>2, <1>6, <3>1 DEF IInv, Types, LiveStates, RegistrationStates
    <3>2. CASE e # p
      BY <1>2, <1>6, <3>2 DEF IInv, EntryInv, Types, LiveStates, RegistrationStates
    <3> QED
      BY <3>1, <3>2
  <2>3. RowChange
    BY <1>1, RowsUnchanged
  <2> QED
    BY <1>1, <1>3, <1>4, <2>1, <2>2, <2>3, PostGoes DEF At, PostPCs, Locking, Registering
<1> QED
  BY <1>5, <1>6 DEF CleanRemote

(* The reservation becomes the entry's row, or goes when the entry has a   *)
(* row of the same owner.                                                  *)
LEMMA FinalizeStep ==
  ASSUME IInv, NEW p \in Posts, Finalize(p)
  PROVE  IInv' /\ RowChange
<1> DEFINE e == post[p].entry
           s == post[p].seen
           mine == {r \in refs : r.id = p}
           w == Row(p, Author[p], e, s)
<1>1. /\ post[p] \in PostRecords /\ PostOK(p, post[p], refs, faults)
      /\ post[p].pc = "finalize" /\ lock # p /\ lock \in Posts \cup {None}
      /\ UNCHANGED <<remote, lock, manager, faults>>
  BY DEF IInv, Types, PostInv, Finalize, At, Locking
<1>2. /\ e \in Posts /\ post[p].request = "answered" /\ s \in RegistrationStates
      /\ post[e].request = "answered" /\ Author[p] \in Users
      /\ Reservation(p) \in refs /\ (Standing(e) => s \in StandingStates)
  BY <1>1, InboxAssumption DEF PostOK, PostRecords, EntryStates, Holding, IInv, CopyInv, TruthInv
<1>3. RemoteChange
  BY <1>1, EntriesUnchanged
<1>4. \A q \in Posts : Reservation(q).entry = None /\ Reservation(q).id = q
  BY DEF Reservation, Row
<1>5. remote'[p] \in LiveStates => e = p
  BY <1>1 DEF IInv, EntryInv, LiveStates, RegistrationStates
<1>6. CASE OwnedByOther(e, Author[p]) /\ Goto(p, "refund") /\ UNCHANGED refs
  <2>1. PostOK(p, [post[p] EXCEPT !.pc = "refund"], refs, faults)
    BY <1>1, <1>2, GoneOK DEF PostOK, BeforeAwait, Holding, PostPCs
  <2>2. RowOf(e) # {}
    BY <1>6 DEF OwnedByOther
  <2>3. Live(p) => RowOf(p) # {}
    BY <1>1, <1>5, <2>2 DEF Live
  <2> QED
    BY <1>1, <1>6, <2>1, <2>3, PostGoesOn, RowsUnchanged DEF PostPCs, Locking, Registering
<1>7. ASSUME Goto(p, "ok")
      PROVE  /\ \A r : Identified(r, post) => Identified(r, post')
             /\ post'[p].pc = "ok" /\ post'[p].entry = e
             /\ \A q \in Posts : post[q].request = "answered" => post'[q].request = "answered"
  <2> DEFINE x == [post[p] EXCEPT !.pc = "ok"]
  <2>1. /\ x \in PostRecords /\ post' = [post EXCEPT ![p] = x] /\ x.pc = "ok"
        /\ x.request = post[p].request /\ x.entry = post[p].entry
    BY <1>7, Gone DEF IInv, PostPCs
  <2> HIDE DEF x
  <2>2. ASSUME NEW r, Identified(r, post)
        PROVE  Identified(r, post')
    BY <2>1, <2>2, IdentifiedStays DEF IInv
  <2>3. post'[p] = x /\ \A q \in Posts : q # p => post'[q] = post[q]
    BY <2>1 DEF IInv, Types
  <2> QED
    BY <2>1, <2>2, <2>3
<1>8. ASSUME Goto(p, "ok"), RowChange, Reservation(p) \notin refs',
             \A q \in Posts \ {p} : Reservation(q) \in refs' <=> Reservation(q) \in refs,
             \E r \in refs' : r.entry = e
      PROVE  IInv'
  <2>1. /\ post[p] \in PostRecords /\ post[p].request = "answered"
        /\ post[p].entry \in Posts /\ post[p].seen # "absent"
    BY <1>1 DEF PostOK
  <2>2. "ok" \in PostPCs /\ "ok" \notin BeforeAwait \cup Holding
    BY DEF PostPCs, BeforeAwait, Holding
  <2>3. PostOK(p, [post[p] EXCEPT !.pc = "ok"], refs', faults')
    BY <1>8, <2>1, <2>2, GoneOK
  <2> QED
    BY <1>1, <1>3, <1>5, <1>8, <2>3, PostGoes DEF At, PostPCs, Locking, Registering
<1>9. CASE /\ RowOf(e) = {} /\ Goto(p, "ok")
           /\ refs' = (refs \ mine) \cup {w}
  <2>1. w.id = p /\ w.owner = Author[p] /\ w.entry = e /\ w.state = s /\ w \in Rows
    BY <1>2 DEF Row, Rows, Ids
  <2>2. Identified(w, post')
    BY <1>2, <1>7, <1>9, <2>1 DEF Identified
  <2>3. mine = {Reservation(p)}
    BY <1>1, <1>2, <1>4, OwnRow
  <2> HIDE DEF w, s, e, mine
  <2>4. \A r \in refs : r.entry # e
    BY <1>9 DEF RowOf
  <2>5. RowChange
    <3>1. refs' \subseteq Rows
      BY <1>9, <2>1 DEF IInv, Types
    <3>2. \A r \in refs' : r \in refs \/ (Identified(r, post')
                                         /\ (Standing(r.entry) => r.state \in StandingStates))
      BY <1>2, <1>9, <2>1, <2>2
    <3>3. \A r, q \in refs' : r.entry = q.entry => r = q
      BY <1>9, <2>1, <2>4 DEF IInv, RowInv
    <3>4. \A d \in Posts : RowOf(d) # {} => \E r \in refs' : r.entry = d
      BY <1>4, <1>9, <2>3, Distinct DEF RowOf
    <3>5. \A r \in refs, q \in refs' : r.entry = q.entry => r.owner = q.owner
      BY <1>9, <2>1, <2>4 DEF IInv, RowInv
    <3> QED
      BY <3>1, <3>2, <3>3, <3>4, <3>5 DEF RowChange
  <2>6. \A q \in Posts : Reservation(q) # w
    BY <1>2, <1>4, <2>1, Distinct
  <2> QED
    BY <1>4, <1>8, <1>9, <2>1, <2>3, <2>5, <2>6
<1>10. CASE /\ ~OwnedByOther(e, Author[p]) /\ RowOf(e) # {} /\ Goto(p, "ok")
            /\ refs' = Saved(e, Author[p], s) \ mine
  <2> DEFINE v == SavedRow(e, Author[p], s)
  <2>1. mine = {Reservation(p)}
    BY <1>1, <1>2, <1>4, OwnRow
  <2>2. /\ Identified(v, post) /\ v.entry = e /\ v.state = s /\ v.owner = Author[p]
        /\ v \in Saved(e, Author[p], s) /\ v \in Rows
        /\ \A r \in refs : r.entry = e => r.owner = Author[p]
        /\ \A r \in Saved(e, Author[p], s) : r = v \/ (r \in refs /\ r.entry # e)
        /\ \A r \in refs : r.entry # e => r \in Saved(e, Author[p], s)
    <3> HIDE DEF e, s
    <3> QED
      BY <1>2, <1>10, SavedRows DEF Identified
  <2> HIDE DEF v, s, e, mine
  <2>3. \A q \in Posts : Reservation(q) # v /\ Reservation(q).entry # e
    BY <1>2, <1>4, <2>2, Distinct
  <2>4. v \in refs' /\ (\A r \in refs' : r = v \/ (r \in refs /\ r.entry # e))
        /\ \A r \in refs : r.entry # e => r \in refs' \/ r = Reservation(p)
    BY <1>10, <2>1, <2>2, <2>3
  <2>5. RowChange
    <3>1. refs' \subseteq Rows
      BY <2>2, <2>4 DEF IInv, Types
    <3>2. \A r \in refs' : r \in refs \/ (Identified(r, post')
                                         /\ (Standing(r.entry) => r.state \in StandingStates))
      BY <1>2, <1>7, <1>10, <2>2, <2>4
    <3>3. \A r, q \in refs' : r.entry = q.entry => r = q
      BY <2>2, <2>4 DEF IInv, RowInv
    <3>4. \A d \in Posts : RowOf(d) # {} => \E r \in refs' : r.entry = d
      BY <1>4, <2>2, <2>4, Distinct DEF RowOf
    <3>5. \A r \in refs, q \in refs' : r.entry = q.entry => r.owner = q.owner
      BY <2>2, <2>4 DEF IInv, RowInv
    <3> QED
      BY <3>1, <3>2, <3>3, <3>4, <3>5 DEF RowChange
  <2>6. Reservation(p) \notin refs'
    BY <1>10, <2>1
  <2>7. \A q \in Posts \ {p} : Reservation(q) \in refs' <=> Reservation(q) \in refs
    BY <1>4, <2>3, <2>4
  <2> QED
    BY <1>8, <1>10, <2>2, <2>4, <2>5, <2>6, <2>7
<1>11. \/ OwnedByOther(e, Author[p]) /\ Goto(p, "refund") /\ UNCHANGED refs
       \/ RowOf(e) = {} /\ Goto(p, "ok") /\ refs' = (refs \ mine) \cup {w}
       \/ /\ ~OwnedByOther(e, Author[p]) /\ RowOf(e) # {} /\ Goto(p, "ok")
          /\ refs' = Saved(e, Author[p], s) \ mine
  BY Zenon DEF Finalize
<1> HIDE DEF e, s, mine, w
<1>12. RowChange
  BY <1>6, <1>9, <1>10, <1>11, RowsUnchanged
<1> QED
  BY <1>6, <1>9, <1>10, <1>11, <1>12

(* The payment node registers: the entry of the request, or one that is    *)
(* there.  Without faults the request has the only reservation, and        *)
(* nothing stood before.                                                   *)
LEMMA NodeRegistersStep ==
  ASSUME IInv, NEW p \in Posts, NodeRegisters(p)
  PROVE  IInv'
<1>1. PICK e \in {p} \cup {x \in Posts : Live(x)} :
        /\ remote' = [remote EXCEPT ![e] = IF @ = "absent" THEN "RegistrationRequested" ELSE @]
        /\ post' = [post EXCEPT ![p].request = "answered", ![p].entry = e, ![p].seen = remote'[e]]
  BY DEF NodeRegisters
<1>2. /\ post[p].request = "sent" /\ UNCHANGED <<refs, lock, manager, faults>>
      /\ post \in [Posts -> PostRecords] /\ remote \in [Posts -> EntryStates]
      /\ PostOK(p, post[p], refs, faults)
  BY DEF NodeRegisters, IInv, Types, PostInv
<1> DEFINE x == [post[p] EXCEPT !.request = "answered", !.entry = e, !.seen = remote'[e]]
<1>3. remote[p] = "absent" /\ \A q \in Posts : post[q].request = "answered" => q # p
  BY <1>2 DEF IInv, EntryInv
<1>4. /\ remote'[e] = (IF e = p THEN "RegistrationRequested" ELSE remote[e])
      /\ \A d \in Posts : d # p => remote'[d] = remote[d]
      /\ e # p => Live(e) /\ remote'[p] = remote[p]
      /\ remote'[e] \in LiveStates
      /\ remote' \in [Posts -> EntryStates] /\ e \in Posts
  BY <1>1, <1>2, <1>3 DEF EntryStates, RegistrationStates, Live, LiveStates
<1>5. remote'[e] \in EntryStates /\ remote'[e] # "absent"
  BY <1>4 DEF EntryStates, RegistrationStates, LiveStates
<1>6. /\ x \in PostRecords /\ x.pc = post[p].pc /\ x.request = "answered" /\ x.entry = e
      /\ x.seen = remote'[e] /\ x.todo = post[p].todo /\ x.row = post[p].row
      /\ post' = [post EXCEPT ![p] = x]
  BY <1>1, <1>2, <1>4, <1>5 DEF PostRecords
<1> HIDE DEF x
<1>7. post' \in [Posts -> PostRecords] /\ post'[p] = x
      /\ \A q \in Posts : q # p => post'[q] = post[q]
  BY <1>2, <1>6
<1>8. ASSUME NEW r, Identified(r, post)
      PROVE  Identified(r, post') /\ r.entry # p
  BY <1>2, <1>6, <1>8, IdentifiedStays DEF IInv, Identified, PostOK, At
<1>9. x.pc \notin BeforeAwait \cup {"scanSave"}
  BY <1>2, <1>6 DEF PostOK, BeforeAwait
<1>10. Types'
  BY <1>2, <1>4, <1>7 DEF IInv, Types
<1>11. PostInv'
  <2>1. PostOK(p, x, refs, faults)
    BY <1>2, <1>4, <1>5, <1>6, <1>9 DEF PostOK
  <2> QED
    BY <1>2, <1>6, <1>7, <2>1 DEF IInv, PostInv, At
<1>12. RowInv'
  BY <1>2, <1>8 DEF IInv, RowInv, Reservation, Row
<1>13. post'[e].request = "answered"
  BY <1>3, <1>4, <1>6, <1>7 DEF IInv, EntryInv, Live, LiveStates, RegistrationStates
<1>14. CopyInv'
  <2>1. \A q \in Posts : /\ \A r \in post'[q].todo : IsReservation(r) \/ Identified(r, post')
                         /\ post'[q].pc = "scanSave" => Identified(post'[q].row, post')
    BY <1>6, <1>7, <1>8, <1>9 DEF IInv, CopyInv, At
  <2>2. ASSUME NEW q \in Posts, post'[q].request = "answered"
        PROVE  post'[post'[q].entry].request = "answered"
    <3>1. CASE q = p
      BY <1>6, <1>7, <1>13, <3>1
    <3>2. CASE q # p
      <4>1. post[q].entry \in Posts /\ post[post[q].entry].request = "answered"
        BY <1>7, <2>2, <3>2 DEF IInv, CopyInv, PostInv, PostOK
      <4> QED
        BY <1>6, <1>7, <3>2, <4>1
    <3> QED
      BY <3>1, <3>2
  <2> QED
    BY <1>2, <1>8, <2>1, <2>2 DEF IInv, CopyInv, At
<1>15. EntryInv'
  <2>1. ASSUME NEW d \in Posts, remote'[d] # "absent"
        PROVE  post'[d].request = "answered" /\ post'[d].entry = d
    BY <1>3, <1>4, <1>6, <1>7, <2>1 DEF IInv, EntryInv
  <2>2. ASSUME NEW d \in Posts, remote'[d] \in LiveStates
        PROVE  \/ RowOf(d) # {} \/ post'[d].pc \in Registering
               \/ <<d, "replyLost">> \in faults \/ <<d, "entryLeft">> \in faults
    <3>1. CASE d = p
      BY <1>2, <1>6, <1>7, <3>1 DEF PostOK, Registering
    <3>2. CASE d # p
      BY <1>4, <1>7, <2>2, <3>2 DEF IInv, EntryInv, Live
    <3> QED
      BY <3>1, <3>2
  <2> QED
    BY <1>2, <2>1, <2>2 DEF EntryInv, Live, RowOf
<1>16. DeletedInv'
  BY <1>2, <1>4, <1>8 DEF IInv, DeletedInv, CopyInv, Identified
<1>17. TruthInv'
  <2> SUFFICES ASSUME NEW d \in Posts, remote'[d] \in StandingStates
               PROVE  /\ \A r \in refs : r.entry = d => r.state \in StandingStates
                      /\ \A q \in Posts : post'[q].pc = "scanSave" /\ post'[q].row.entry = d =>
                                            post'[q].seen \in StandingStates
                      /\ \A q \in Posts : post'[q].request = "answered" /\ post'[q].entry = d =>
                                            post'[q].seen \in StandingStates
                      /\ \A m \in Managers :
                           manager[m].pc \in {"save", "saveReply"} /\ manager[m].row.entry = d =>
                             manager[m].seen \in StandingStates
    BY <1>2 DEF TruthInv, Standing, At
  <2>1. CASE d = p
    <3>1. \A r \in refs : r.entry # p
      BY <1>8, Distinct DEF IInv, RowInv, Reservation, Row
    <3>2. \A q \in Posts : post'[q].pc = "scanSave" => post'[q].row.entry # p
      BY <1>6, <1>7, <1>8, <1>9 DEF IInv, CopyInv, At
    <3>3. \A q \in Posts : q # p /\ post'[q].request = "answered" => post'[q].entry # p
      BY <1>3, <1>7 DEF IInv, CopyInv
    <3>4. \A m \in Managers : manager[m].pc # "idle" => manager[m].row.entry # p
      BY <1>8 DEF IInv, CopyInv
    <3> QED
      BY <1>6, <1>7, <2>1, <3>1, <3>2, <3>3, <3>4
  <2>2. CASE d # p
    <3>1. Standing(d)
      BY <1>4, <2>2 DEF Standing
    <3> QED
      BY <1>6, <1>7, <1>9, <3>1 DEF IInv, TruthInv, At
  <2> QED
    BY <2>1, <2>2
<1>18. StandingInv'
  <2> SUFFICES ASSUME NoFault
               PROVE  /\ \A q, d \in Posts : Reservation(q) \in refs /\ post'[q].request # "answered"
                                                => remote'[d] \notin StandingStates
                      /\ \A q, d \in Posts : post'[q].pc = "reserveInsert"
                                                => remote'[d] \notin StandingStates
                      /\ \A d, c \in Posts : remote'[d] \in StandingStates
                                               /\ remote'[c] \in StandingStates => d = c
    BY <1>2 DEF StandingInv, NoFault, Standing, At, Reservation, Row
  <2>1. Reservation(p) \in refs
    BY <1>2 DEF PostOK, NoFault, Holding
  <2>2. \A d \in Posts : remote[d] \notin StandingStates
    BY <1>2, <2>1 DEF IInv, StandingInv, Standing
  <2>3. \A d \in Posts : remote'[d] \in StandingStates => d = p
    BY <1>4, <2>2
  <2>4. \A q \in Posts : Reservation(q).entry = None /\ Reservation(q).id = q
    BY DEF Reservation, Row
  <2>5. \A q \in Posts : Reservation(q) \in refs => q = p
    BY <2>1, <2>4 DEF IInv, RowInv
  <2>6. \A q \in Posts : post'[q].pc # "reserveInsert"
    BY <1>6, <1>7, <1>9, <2>1, <2>4 DEF IInv, PostInv, At, IsReservation, BeforeAwait
  <2> QED
    BY <1>6, <1>7, <2>3, <2>5, <2>6
<1> QED
  BY <1>10, <1>11, <1>12, <1>14, <1>15, <1>16, <1>17, <1>18 DEF IInv

------------------------------------------------------------------------------
(* Refreshes, deregistrations and deletions.                               *)
LEMMA ManagerReadStep ==
  ASSUME IInv, NEW m \in Managers, NEW op \in Operations, NEW e \in Posts, ManagerRead(m, op, e)
  PROVE  IInv'
<1>1. PICK r \in RowOf(e) : manager' = [manager EXCEPT ![m] =
            [pc |-> IF remote[e] = "absent" THEN "act" ELSE "save",
             op |-> op, row |-> r, seen |-> remote[e]]]
  BY DEF ManagerRead
<1> DEFINE y == [pc |-> IF remote[e] = "absent" THEN "act" ELSE "save",
                 op |-> op, row |-> r, seen |-> remote[e]]
<1>2. r \in refs /\ r.entry = e
  BY DEF RowOf
<1>3. Identified(r, post) /\ r \in Rows
  BY <1>2, RowKinds DEF IInv, Identified
<1>4. /\ y \in ManagerRecords /\ y.pc \in {"act", "save"} /\ y.row = r /\ y.seen = remote[e]
      /\ y.pc = "save" => y.seen # "absent"
  BY <1>3 DEF ManagerRecords, IInv, Types
<1> HIDE DEF y
<1>5. RowChange /\ RemoteChange
  BY RowsUnchanged, EntriesUnchanged DEF ManagerRead
<1> QED
  BY <1>1, <1>2, <1>3, <1>4, <1>5, ManagerMoves DEF ManagerRead, y

LEMMA IdleRecord == IdleManager \in ManagerRecords /\ IdleManager.pc = "idle"
BY DEF IdleManager, ManagerRecords, Operations, EntryStates

LEMMA ManagerSaveStep ==
  ASSUME IInv, NEW m \in Managers, ManagerSave(m)
  PROVE  IInv' /\ RowChange
<1> DEFINE r == manager[m].row
           seen == manager[m].seen
           w == SavedRow(r.entry, r.owner, seen)
           y == [manager[m] EXCEPT !.pc = "act", !.row = w]
<1>1. /\ manager[m] \in ManagerRecords /\ manager[m].pc = "save"
      /\ UNCHANGED <<remote, lock, post, faults>>
  BY DEF IInv, Types, ManagerSave
<1>2. /\ Identified(r, post) /\ r.entry \in Posts /\ r.owner \in Users
      /\ post[r.entry].request = "answered" /\ seen \in RegistrationStates
      /\ Standing(r.entry) => seen \in StandingStates
  BY <1>1 DEF IInv, CopyInv, TruthInv, Identified, Rows, ManagerRecords, EntryStates
<1>3. RemoteChange
  BY <1>1, EntriesUnchanged
<1>4. CASE OwnedByOther(r.entry, r.owner)
  <2>1. manager' = [manager EXCEPT ![m] = IdleManager] /\ UNCHANGED refs
    BY <1>4 DEF ManagerSave
  <2>2. RowChange
    BY <2>1, RowsUnchanged
  <2> QED
    BY <1>1, <1>3, <2>1, <2>2, IdleRecord, ManagerMoves
<1>5. CASE ~OwnedByOther(r.entry, r.owner)
  <2>1. /\ refs' = Saved(r.entry, r.owner, seen)
        /\ \/ manager' = [manager EXCEPT ![m] = y]
           \/ manager' = [manager EXCEPT ![m] = IdleManager]
    BY <1>5 DEF ManagerSave
  <2>2. Identified(w, post) /\ w \in Rows
    <3> HIDE DEF r, seen
    <3> QED
      BY <1>2, <1>5, SavedRows DEF Identified
  <2>3. RowChange /\ \A q \in Posts : Reservation(q) \in refs' <=> Reservation(q) \in refs
    <3>1. Identified(SavedRow(r.entry, r.owner, seen), post')
      BY <1>1, <2>2
    <3> HIDE DEF r, seen
    <3> QED
      BY <1>2, <1>5, <2>1, <3>1, SaveChanges
  <2>4. y \in ManagerRecords /\ y.pc = "act" /\ y.row = w
    <3> HIDE DEF w
    <3> QED
      BY <1>1, <2>2 DEF ManagerRecords
  <2> HIDE DEF y, w
  <2>5. CASE manager' = [manager EXCEPT ![m] = y]
    BY <1>1, <1>3, <2>2, <2>3, <2>4, <2>5, ManagerMoves
  <2>6. CASE manager' = [manager EXCEPT ![m] = IdleManager]
    BY <1>1, <1>3, <2>3, <2>6, IdleRecord, ManagerMoves
  <2> QED
    BY <2>1, <2>3, <2>5, <2>6
<1> QED
  BY <1>4, <1>5

LEMMA ManagerActStep ==
  ASSUME IInv, NEW m \in Managers, ManagerAct(m)
  PROVE  IInv'
<1> DEFINE r == manager[m].row
           e == manager[m].row.entry
<1>1. /\ manager[m] \in ManagerRecords /\ manager[m].pc = "act"
      /\ UNCHANGED <<refs, lock, post, faults>>
  BY DEF IInv, Types, ManagerAct
<1>2. Identified(r, post) /\ e \in Posts
  BY <1>1 DEF IInv, CopyInv, Identified
<1>3. RowChange
  BY <1>1, RowsUnchanged
<1>4. CASE /\ remote[e] = "RegistrationConfirmed"
           /\ remote' = [remote EXCEPT ![e] = "DeregistrationRequested"]
           /\ manager' = [manager EXCEPT ![m].pc = "saveReply", ![m].seen = "DeregistrationRequested"]
  <2> DEFINE y == [manager[m] EXCEPT !.pc = "saveReply", !.seen = "DeregistrationRequested"]
  <2>1. y \in ManagerRecords /\ y.pc = "saveReply" /\ y.row = r /\ y.seen = "DeregistrationRequested"
    BY <1>1 DEF ManagerRecords, EntryStates, RegistrationStates
  <2>2. y.seen # "absent" /\ y.seen \in StandingStates
    BY <2>1 DEF StandingStates, LiveStates, RegistrationStates
  <2>3. RemoteChange
    <3> HIDE DEF e
    <3> QED
      BY <1>2, <1>4, EntryMoves
         DEF EntryStates, StandingStates, LiveStates, RegistrationStates, Live, Standing
  <2>4. manager' = [manager EXCEPT ![m] = y]
    BY <1>4
  <2> HIDE DEF y
  <2> QED
    BY <1>1, <1>2, <1>3, <2>1, <2>2, <2>3, <2>4, ManagerMoves
<1>5. CASE /\ remote[e] # "absent" /\ remote' = [remote EXCEPT ![e] = "absent"]
           /\ manager' = [manager EXCEPT ![m].pc = "deleteRow"]
  <2> DEFINE y == [manager[m] EXCEPT !.pc = "deleteRow"]
  <2>1. y \in ManagerRecords /\ y.pc = "deleteRow" /\ y.row = r
    BY <1>1 DEF ManagerRecords
  <2>2. RemoteChange
    <3> HIDE DEF e
    <3> QED
      BY <1>2, <1>5, EntryMoves DEF EntryStates, StandingStates, LiveStates, RegistrationStates
  <2>3. manager' = [manager EXCEPT ![m] = y] /\ remote'[y.row.entry] = "absent"
    BY <1>2, <1>5, <2>1 DEF IInv, Types
  <2> HIDE DEF y
  <2> QED
    BY <1>1, <1>2, <1>3, <2>1, <2>2, <2>3, ManagerMoves
<1>6. CASE manager' = [manager EXCEPT ![m] = IdleManager] /\ UNCHANGED remote
  BY <1>1, <1>3, <1>6, EntriesUnchanged, IdleRecord, ManagerMoves
<1> QED
  BY <1>4, <1>5, <1>6 DEF ManagerAct

LEMMA ManagerSaveReplyStep ==
  ASSUME IInv, NEW m \in Managers, ManagerSaveReply(m)
  PROVE  IInv' /\ RowChange
<1> DEFINE r == manager[m].row
           seen == manager[m].seen
<1>1. /\ manager[m] \in ManagerRecords /\ manager[m].pc = "saveReply"
      /\ UNCHANGED <<remote, lock, post, faults>>
      /\ manager' = [manager EXCEPT ![m] = IdleManager]
  BY DEF IInv, Types, ManagerSaveReply
<1>2. /\ Identified(r, post) /\ r.entry \in Posts /\ r.owner \in Users
      /\ post[r.entry].request = "answered" /\ seen \in RegistrationStates
      /\ Standing(r.entry) => seen \in StandingStates
  BY <1>1 DEF IInv, CopyInv, TruthInv, Identified, Rows, ManagerRecords, EntryStates
<1>3. RemoteChange
  BY <1>1, EntriesUnchanged
<1>4. RowChange /\ \A q \in Posts : Reservation(q) \in refs' <=> Reservation(q) \in refs
  <2>1. CASE OwnedByOther(r.entry, r.owner)
    <3>1. UNCHANGED refs
      BY <2>1 DEF ManagerSaveReply
    <3> QED
      BY <3>1, RowsUnchanged
  <2>2. CASE ~OwnedByOther(r.entry, r.owner)
    <3>1. refs' = Saved(r.entry, r.owner, seen)
      BY <2>2 DEF ManagerSaveReply
    <3> HIDE DEF r, seen
    <3>2. Identified(SavedRow(r.entry, r.owner, seen), post')
      BY <1>1, <1>2, <2>2, SavedRows
    <3> QED
      BY <1>2, <2>2, <3>1, <3>2, SaveChanges
  <2> QED
    BY <2>1, <2>2
<1> QED
  BY <1>1, <1>3, <1>4, IdleRecord, ManagerMoves

(* Only the deleted entry's row goes.                                      *)
LEMMA ManagerDeleteRowStep ==
  ASSUME IInv, NEW m \in Managers, ManagerDeleteRow(m)
  PROVE  IInv' /\ RowChange
<1> DEFINE r == manager[m].row
<1>1. /\ manager[m].pc = "deleteRow"
      /\ UNCHANGED <<remote, lock, post, faults>>
      /\ manager' = [manager EXCEPT ![m] = IdleManager]
      /\ refs' = {q \in refs : q.id # r.id}
  BY DEF ManagerDeleteRow
<1>2. Identified(r, post) /\ r.entry \in Posts /\ remote[r.entry] = "absent"
  BY <1>1 DEF IInv, CopyInv, DeletedInv, Identified
<1>3. \A q \in refs : q \in refs' \/ q.entry = r.entry
  BY <1>1, <1>2, SameEntry DEF IInv
<1>4. RowChange
  <2>1. ~Live(r.entry)
    BY <1>2 DEF Live, LiveStates, RegistrationStates
  <2>2. \A e \in Posts : RowOf(e) # {} /\ Live(e) => \E q \in refs' : q.entry = e
    BY <1>3, <2>1 DEF RowOf
  <2> QED
    BY <1>1, <2>2 DEF RowChange, IInv, Types, RowInv
<1>5. \A q \in Posts : Reservation(q) \in refs' <=> Reservation(q) \in refs
  BY <1>1, <1>2, <1>3, Distinct DEF Reservation, Row
<1>6. RemoteChange
  BY <1>1, EntriesUnchanged
<1> QED
  BY <1>1, <1>4, <1>5, <1>6, IdleRecord, ManagerMoves

LEMMA ManagerDiesStep ==
  ASSUME IInv, NEW m \in Managers, ManagerDies(m)
  PROVE  IInv'
<1>1. /\ UNCHANGED <<refs, remote, lock, post>> /\ manager' = [manager EXCEPT ![m] = IdleManager]
      /\ faults \subseteq faults'
  BY DEF ManagerDies, Fault
<1> QED
  BY <1>1, RowsUnchanged, EntriesUnchanged, IdleRecord, ManagerMoves

LEMMA NodeSettlesStep ==
  ASSUME IInv, NEW e \in Posts, NodeSettles(e)
  PROVE  IInv'
<1>1. PICK s \in Outcomes(remote[e]) : remote' = [remote EXCEPT ![e] = s]
  BY DEF NodeSettles
<1>2. UNCHANGED <<refs, lock, post, manager, faults>>
  BY DEF NodeSettles
<1>3. remote[e] \in InProgress
  BY <1>1 DEF Outcomes, InProgress, NodeSettles
<1>4. \/ remote[e] = "RegistrationRequested" /\ s \in {"RegistrationConfirmed", "RegistrationFailed"}
      \/ remote[e] = "DeregistrationRequested" /\ s \in {"DeregistrationConfirmed", "DeregistrationFailed"}
  BY <1>1, <1>3 DEF Outcomes, InProgress
<1>5. RemoteChange
  BY <1>1, <1>4, EntryMoves
     DEF EntryStates, StandingStates, LiveStates, RegistrationStates, Live, Standing
<1>6. RowChange
  BY <1>2, RowsUnchanged
<1>7. /\ post[e] \in PostRecords /\ post' = [post EXCEPT ![e] = post[e]]
      /\ PostOK(e, post[e], refs', faults') /\ lock' \in Posts \cup {None}
      /\ (lock' = e) <=> (post[e].pc \in Locking)
      /\ post[e].pc = "reserveInsert" => \A r \in refs : ~IsReservation(r)
  BY <1>2 DEF IInv, Types, PostInv, PostOK, At
<1>8. /\ post[e].pc = "reserveInsert" => (NoFault => \A d \in Posts : ~Standing(d))
      /\ \A r \in post[e].todo : IsReservation(r) \/ Identified(r, post)
      /\ post[e].pc = "scanSave" =>
           Identified(post[e].row, post)
             /\ (Standing(post[e].row.entry) => post[e].seen \in StandingStates)
  BY DEF IInv, StandingInv, CopyInv, TruthInv, At, Identified
<1>9. remote'[e] \in LiveStates => Live(e)
  BY <1>5 DEF RemoteChange
<1>10. Live(e) => RowOf(e) # {} \/ post[e].pc \in Registering
                    \/ <<e, "replyLost">> \in faults \/ <<e, "entryLeft">> \in faults
  BY DEF IInv, EntryInv
<1>11. RowOf(e) # {} => \E r \in refs' : r.entry = e
  BY <1>2 DEF RowOf
<1> QED
  BY <1>2, <1>5, <1>6, <1>7, <1>8, <1>9, <1>10, <1>11, PostMoves DEF At

------------------------------------------------------------------------------
(* The invariant.                                                          *)
LEMMA InitIInv == Init => IInv
<1> SUFFICES ASSUME Init
             PROVE  IInv
  OBVIOUS
<1>1. IdlePost \in PostRecords
  BY DEF IdlePost, PostRecords, PostPCs, EntryStates
<1>2. /\ refs = {} /\ lock = None /\ faults = {}
      /\ \A p \in Posts : post[p] = IdlePost /\ remote[p] = "absent"
      /\ \A m \in Managers : manager[m] = IdleManager
      /\ post \in [Posts -> PostRecords] /\ manager \in [Managers -> ManagerRecords]
      /\ remote \in [Posts -> EntryStates]
  BY <1>1, IdleRecord DEF Init, EntryStates
<1>3. /\ IdlePost.pc = "start" /\ IdlePost.request = "none" /\ IdlePost.todo = {}
  BY DEF IdlePost
<1>4. Types
  BY <1>2 DEF Types
<1>5. PostInv
  BY <1>2, <1>3, Distinct DEF PostInv, PostOK, BeforeAwait, Holding, Locking, At
<1>6. RowInv /\ CopyInv
  BY <1>2, <1>3, IdleRecord DEF RowInv, CopyInv, At
<1>7. EntryInv /\ DeletedInv
  BY <1>2, IdleRecord DEF EntryInv, DeletedInv, Live, LiveStates, RegistrationStates
<1>8. TruthInv /\ StandingInv
  BY <1>2 DEF TruthInv, StandingInv, Standing, StandingStates, LiveStates, RegistrationStates
<1> QED
  BY <1>4, <1>5, <1>6, <1>7, <1>8 DEF IInv

LEMMA StepIInv == IInv /\ [Next]_vars => IInv' /\ RowChange
<1> SUFFICES ASSUME IInv, [Next]_vars
             PROVE  IInv' /\ RowChange
  OBVIOUS
<1>1. ASSUME UNCHANGED refs, IInv'
      PROVE  IInv' /\ RowChange
  BY <1>1, RowsUnchanged
<1>2. CASE UNCHANGED vars
  <2>1. IInv'
    BY <1>2 DEF vars, IInv, Types, PostInv, PostOK, RowInv, CopyInv, Identified, EntryInv,
       DeletedInv, TruthInv, StandingInv, NoFault, Standing, Live, RowOf, At, Reservation, Row
  <2> QED
    BY <1>1, <1>2, <2>1 DEF vars
<1>3. ASSUME NEW p \in Posts, ScanRows(p) \/ ScanNext(p) \/ CheckRegistry(p)
      PROVE  IInv' /\ UNCHANGED refs
  BY <1>3, ScanRowsStep, ScanNextStep, GoesOnSteps DEF ScanRows, ScanNext, CheckRegistry
<1>4. ASSUME NEW p \in Posts, ReserveLock(p) \/ ReserveCheck(p) \/ ReserveFails(p)
      PROVE  IInv' /\ UNCHANGED refs
  BY <1>4, ReserveLockSteps, ReserveCheckStep DEF ReserveLock, ReserveCheck, ReserveFails
<1>5. ASSUME NEW p \in Posts, Debit(p) \/ DebitRefused(p) \/ RefundAfterFailure(p)
      PROVE  IInv' /\ UNCHANGED refs
  BY <1>5, DebitStep, GoesOnSteps DEF Debit, DebitRefused, RefundAfterFailure
<1>6. ASSUME NEW p \in Posts, SendRegister(p) \/ RegisterRejected(p)
      PROVE  IInv' /\ UNCHANGED refs
  BY <1>6, RequestSteps DEF SendRegister, RegisterRejected
<1>7. ASSUME NEW p \in Posts, RegisterAnswered(p) \/ RegisterReplyLost(p) \/ FinalizeFails(p)
      PROVE  IInv' /\ UNCHANGED refs
  BY <1>7, GoesOnSteps DEF RegisterAnswered, RegisterReplyLost, FinalizeFails
<1>8. ASSUME NEW p \in Posts, CleanRemote(p) \/ Crash(p) \/ NodeRegisters(p)
      PROVE  IInv' /\ UNCHANGED refs
  BY <1>8, CleanRemoteStep, CrashStep, NodeRegistersStep DEF CleanRemote, Crash, NodeRegisters
<1>9. ASSUME NEW p \in Posts,
             ScanSave(p) \/ ReserveInsert(p) \/ Finalize(p) \/ CleanReservation(p)
      PROVE  IInv' /\ RowChange
  BY <1>9, ScanSaveStep, ReserveInsertStep, FinalizeStep, CleanReservationStep
<1>10. ASSUME NEW m \in Managers, NEW op \in Operations, NEW e \in Posts, ManagerRead(m, op, e)
       PROVE  IInv' /\ UNCHANGED refs
  BY <1>10, ManagerReadStep DEF ManagerRead
<1>11. ASSUME NEW m \in Managers, ManagerAct(m) \/ ManagerDies(m)
       PROVE  IInv' /\ UNCHANGED refs
  BY <1>11, ManagerActStep, ManagerDiesStep DEF ManagerAct, ManagerDies
<1>12. ASSUME NEW m \in Managers, ManagerSave(m) \/ ManagerSaveReply(m) \/ ManagerDeleteRow(m)
       PROVE  IInv' /\ RowChange
  BY <1>12, ManagerSaveStep, ManagerSaveReplyStep, ManagerDeleteRowStep
<1>13. ASSUME NEW e \in Posts, NodeSettles(e)
       PROVE  IInv' /\ UNCHANGED refs
  BY <1>13, NodeSettlesStep DEF NodeSettles
<1>14. ASSUME NEW p \in Posts, ScanRows(p) \/ PostStep(p) \/ Crash(p) \/ NodeRegisters(p)
       PROVE  IInv' /\ RowChange
  <2>1. CASE ScanSave(p) \/ ReserveInsert(p) \/ Finalize(p) \/ CleanReservation(p)
    BY <1>9, <2>1
  <2>2. CASE \/ ScanRows(p) \/ ScanNext(p) \/ CheckRegistry(p)
             \/ ReserveLock(p) \/ ReserveCheck(p) \/ ReserveFails(p)
    BY <1>1, <1>3, <1>4, <2>2
  <2>3. CASE \/ Debit(p) \/ DebitRefused(p) \/ RefundAfterFailure(p)
             \/ SendRegister(p) \/ RegisterRejected(p)
    BY <1>1, <1>5, <1>6, <2>3
  <2>4. CASE \/ RegisterAnswered(p) \/ RegisterReplyLost(p) \/ FinalizeFails(p)
             \/ CleanRemote(p) \/ Crash(p) \/ NodeRegisters(p)
    BY <1>1, <1>7, <1>8, <2>4
  <2> QED
    BY <1>14, <2>1, <2>2, <2>3, <2>4, Zenon DEF PostStep
<1>15. ASSUME NEW m \in Managers, ManagerStep(m) \/ ManagerDies(m)
       PROVE  IInv' /\ RowChange
  BY <1>1, <1>11, <1>12, <1>15, Zenon DEF ManagerStep
<1>16. CASE Next
  BY <1>1, <1>10, <1>13, <1>14, <1>15, <1>16, Zenon DEF Next
<1> QED
  BY <1>2, <1>16

------------------------------------------------------------------------------
(* What a POST has cost so far.                                            *)
Charged(p) == p \in spent[Author[p]] \ refunded[Author[p]]
Unspent(p) == p \notin spent[Author[p]] /\ p \notin refunded[Author[p]]

ChargeOK(p, x, charged, unspent, fs) ==
  /\ x.pc \in BeforeAwait \ {"register"} => ~x.refundable /\ unspent
  /\ x.pc \in {"register", "await", "finalize", "cleanRemote"} => x.refundable /\ charged
  /\ x.pc = "ok" => charged
  /\ x.pc = "refund" /\ x.refundable => charged
  /\ x.pc = "refund" /\ ~x.refundable /\ charged => <<p, "debitUnnoticed">> \in fs
  /\ x.pc \in {"cleanRow", "failed"} /\ charged =>
       <<p, "debitUnnoticed">> \in fs \/ <<p, "refundLost">> \in fs

ChargeInv ==
  /\ spent \in [Users -> SUBSET Posts] /\ refunded \in [Users -> SUBSET Posts]
  /\ \A p \in Posts : ChargeOK(p, post[p], Charged(p), Unspent(p), faults)

(* A step of one POST that costs nothing.                                  *)
LEMMA ChargeKept ==
  ASSUME ChargeInv, NEW p \in Posts, \A q \in Posts \ {p} : post'[q] = post[q],
         faults \subseteq faults', UNCHANGED <<spent, refunded>>,
         ChargeOK(p, post'[p], Charged(p), Unspent(p), faults')
  PROVE  ChargeInv'
<1>1. \A q \in Posts : (Charged(q)' <=> Charged(q)) /\ (Unspent(q)' <=> Unspent(q))
  BY DEF Charged, Unspent
<1>2. ASSUME NEW q \in Posts
      PROVE  ChargeOK(q, post'[q], Charged(q), Unspent(q), faults')
  BY DEF ChargeInv, ChargeOK
<1> QED
  BY <1>1, <1>2 DEF ChargeInv, ChargeOK

(* Where a POST goes, and what it may refund there.                        *)
LEMMA ChargeGoes ==
  ASSUME IInv, ChargeInv, NEW p \in Posts, NEW c \in PostPCs, Goto(p, c),
         faults \subseteq faults', UNCHANGED <<spent, refunded>>,
         ChargeOK(p, post[p], Charged(p), Unspent(p), faults) =>
           ChargeOK(p, [pc |-> c, refundable |-> post[p].refundable],
                    Charged(p), Unspent(p), faults')
  PROVE  ChargeInv'
<1> DEFINE x == [post[p] EXCEPT !.pc = c]
<1>1. x.pc = c /\ x.refundable = post[p].refundable /\ x \in PostRecords
      /\ post' = [post EXCEPT ![p] = x]
  BY Gone DEF IInv
<1> HIDE DEF x
<1>2. post'[p] = x /\ \A q \in Posts \ {p} : post'[q] = post[q]
  BY <1>1 DEF IInv, Types
<1>3. ChargeOK(p, x, Charged(p), Unspent(p), faults')
  BY <1>1 DEF ChargeInv, ChargeOK
<1> QED
  BY <1>2, <1>3, ChargeKept

LEMMA DebitCharges ==
  ASSUME IInv, ChargeInv, NEW p \in Posts, Debit(p)
  PROVE  ChargeInv'
<1>1. /\ post[p] \in PostRecords /\ post[p].pc = "debit" /\ Author[p] \in Users
      /\ spent \in [Users -> SUBSET Posts] /\ refunded \in [Users -> SUBSET Posts]
      /\ post \in [Posts -> PostRecords]
  BY InboxAssumption DEF Debit, At, IInv, Types, ChargeInv
<1>2. ~post[p].refundable /\ Unspent(p)
  BY <1>1 DEF ChargeInv, ChargeOK, BeforeAwait
<1>3. spent' = [spent EXCEPT ![Author[p]] = @ \cup {p}] /\ refunded' = refunded
      /\ faults \subseteq faults'
  BY DEF Debit, Credits!Spend, Fault
<1>4. Charged(p)' /\ \A q \in Posts \ {p} : (Charged(q)' <=> Charged(q))
                                             /\ (Unspent(q)' <=> Unspent(q))
  BY <1>1, <1>2, <1>3, InboxAssumption DEF Charged, Unspent
<1>5. spent' \in [Users -> SUBSET Posts]
  BY <1>1, <1>3
<1>6. /\ \A q \in Posts \ {p} : post'[q] = post[q]
      /\ \/ post'[p].pc = "register" /\ post'[p].refundable
         \/ post'[p].pc = "refund" /\ ~post'[p].refundable /\ <<p, "debitUnnoticed">> \in faults'
  <2>1. CASE post' = [post EXCEPT ![p].pc = "register", ![p].refundable = TRUE]
    BY <1>1, <2>1 DEF PostRecords
  <2>2. CASE Goto(p, "refund") /\ Fault(p, "debitUnnoticed")
    BY <1>1, <1>2, <2>2 DEF Goto, Fault, PostRecords
  <2> QED
    BY <2>1, <2>2 DEF Debit
<1>7. ChargeOK(p, post'[p], TRUE, FALSE, faults')
  BY <1>6 DEF ChargeOK, BeforeAwait
<1>8. ~Unspent(p)'
  BY <1>4 DEF Charged, Unspent
<1>9. \A q \in Posts \ {p} : ChargeOK(q, post'[q], Charged(q), Unspent(q), faults')
  BY <1>3, <1>6 DEF ChargeInv, ChargeOK
<1> QED
  BY <1>1, <1>3, <1>4, <1>5, <1>7, <1>8, <1>9 DEF ChargeInv, ChargeOK

LEMMA RefundCharges ==
  ASSUME IInv, ChargeInv, NEW p \in Posts, RefundAfterFailure(p)
  PROVE  ChargeInv'
<1>1. /\ post[p] \in PostRecords /\ post[p].pc = "refund" /\ Author[p] \in Users
      /\ spent \in [Users -> SUBSET Posts] /\ refunded \in [Users -> SUBSET Posts]
      /\ post \in [Posts -> PostRecords] /\ Goto(p, "cleanRow") /\ faults \subseteq faults'
  BY InboxAssumption DEF RefundAfterFailure, At, IInv, Types, ChargeInv, Fault
<1>2. CASE UNCHANGED <<spent, refunded>> /\ (post[p].refundable => <<p, "refundLost">> \in faults')
  <2>1. ChargeOK(p, post[p], Charged(p), Unspent(p), faults) =>
          ChargeOK(p, [pc |-> "cleanRow", refundable |-> post[p].refundable],
                   Charged(p), Unspent(p), faults')
    BY <1>1, <1>2 DEF ChargeOK, BeforeAwait
  <2> QED
    BY <1>1, <1>2, <2>1, ChargeGoes DEF PostPCs
<1>3. CASE Credits!Refund(Author[p], p)
  <2>1. spent' = spent /\ refunded' = [refunded EXCEPT ![Author[p]] = @ \cup {p}]
    BY <1>3 DEF Credits!Refund
  <2>2. ~Charged(p)' /\ \A q \in Posts \ {p} : (Charged(q)' <=> Charged(q))
                                                /\ (Unspent(q)' <=> Unspent(q))
    BY <1>1, <2>1, InboxAssumption DEF Charged, Unspent
  <2>3. post'[p].pc = "cleanRow" /\ \A q \in Posts \ {p} : post'[q] = post[q]
    BY <1>1 DEF Goto, PostRecords
  <2>4. \A q \in Posts \ {p} : ChargeOK(q, post'[q], Charged(q), Unspent(q), faults')
    BY <1>1, <2>3 DEF ChargeInv, ChargeOK
  <2>5. ChargeOK(p, post'[p], FALSE, Unspent(p)', faults')
    BY <2>3 DEF ChargeOK, BeforeAwait
  <2> QED
    BY <1>1, <2>1, <2>2, <2>4, <2>5 DEF ChargeInv, ChargeOK
<1> QED
  BY <1>2, <1>3 DEF RefundAfterFailure, Fault, creditVars

(* Steps at which nothing is charged or given back.                        *)
LEMMA FreeSteps ==
  ASSUME IInv, ChargeInv, NEW p \in Posts,
         \/ ScanRows(p) \/ ScanNext(p) \/ ScanSave(p) \/ SendRegister(p)
         \/ RegisterRejected(p) \/ NodeRegisters(p)
  PROVE  ChargeInv'
<1>1. /\ post[p] \in PostRecords /\ post \in [Posts -> PostRecords]
      /\ UNCHANGED <<spent, refunded, faults>>
      /\ ChargeOK(p, post[p], Charged(p), Unspent(p), faults)
  BY DEF ScanRows, ScanNext, ScanSave, SendRegister, RegisterRejected, NodeRegisters,
         creditVars, IInv, Types, ChargeInv
<1>2. ASSUME \A q \in Posts \ {p} : post'[q] = post[q],
             post'[p].refundable = post[p].refundable,
             \/ post'[p].pc = post[p].pc
             \/ post[p].pc \in {"start", "scan", "scanSave"}
                  /\ post'[p].pc \in {"scan", "scanSave", "registry", "failed"}
             \/ post[p].pc = "register" /\ post'[p].pc = "await"
             \/ post[p].pc = "await" /\ post'[p].pc = "refund"
      PROVE  ChargeInv'
  <2>1. ChargeOK(p, post'[p], Charged(p), Unspent(p), faults')
    BY <1>1, <1>2 DEF ChargeOK, BeforeAwait, Charged, Unspent
  <2> QED
    BY <1>1, <1>2, <2>1, ChargeKept
<1>3. ASSUME NEW c, Goto(p, c)
      PROVE  /\ \A q \in Posts \ {p} : post'[q] = post[q]
             /\ post'[p].refundable = post[p].refundable /\ post'[p].pc = c
  BY <1>1, <1>3 DEF Goto, PostRecords
<1>4. CASE ScanRows(p)
  BY <1>1, <1>2, <1>4 DEF ScanRows, At, PostRecords
<1>5. CASE ScanNext(p)
  <2>1. /\ \A q \in Posts \ {p} : post'[q] = post[q]
        /\ post'[p].refundable = post[p].refundable
        /\ post'[p].pc \in {"scan", "scanSave", "registry", "failed"}
    <3>1. CASE Goto(p, "registry") \/ Goto(p, "failed")
      BY <1>3, <3>1
    <3>2. CASE \E r \in post[p].todo :
                 post' = [post EXCEPT ![p].pc = "scanSave", ![p].row = r,
                                      ![p].seen = remote[r.entry]]
      BY <1>1, <3>2 DEF PostRecords
    <3>3. CASE \E r \in post[p].todo : post' = [post EXCEPT ![p].todo = @ \ {r}]
      BY <1>1, <1>5, <3>3 DEF ScanNext, At, PostRecords
    <3> QED
      BY <1>5, <3>1, <3>2, <3>3, Zenon DEF ScanNext
  <2> QED
    BY <1>2, <1>5, <2>1 DEF ScanNext, At
<1>6. CASE ScanSave(p)
  <2>1. /\ \A q \in Posts \ {p} : post'[q] = post[q]
        /\ post'[p].refundable = post[p].refundable
        /\ post'[p].pc \in {"scan", "failed"}
    <3>1. CASE Goto(p, "failed")
      BY <1>3, <3>1
    <3>2. CASE post' = [post EXCEPT ![p].pc = "scan", ![p].row = None,
                                    ![p].todo = @ \ {post[p].row}]
      BY <1>1, <3>2 DEF PostRecords
    <3>3. \/ Goto(p, "failed")
          \/ post' = [post EXCEPT ![p].pc = "scan", ![p].row = None,
                                  ![p].todo = @ \ {post[p].row}]
      BY <1>6, Zenon DEF ScanSave
    <3> QED
      BY <3>1, <3>2, <3>3
  <2> QED
    BY <1>2, <1>6, <2>1 DEF ScanSave, At
<1>7. CASE SendRegister(p) \/ RegisterRejected(p)
  BY <1>1, <1>2, <1>7 DEF SendRegister, RegisterRejected, At, PostRecords
<1>8. CASE NodeRegisters(p)
  <2>1. PICK e, s : post' = [post EXCEPT ![p].request = "answered", ![p].entry = e, ![p].seen = s]
    BY <1>8 DEF NodeRegisters
  <2>2. /\ \A q \in Posts \ {p} : post'[q] = post[q]
        /\ post'[p].refundable = post[p].refundable /\ post'[p].pc = post[p].pc
    BY <1>1, <2>1 DEF PostRecords
  <2> QED
    BY <1>2, <2>2
<1> QED
  BY <1>4, <1>5, <1>6, <1>7, <1>8

LEMMA MovingSteps ==
  ASSUME IInv, ChargeInv, NEW p \in Posts,
         \/ CheckRegistry(p) \/ ReserveLock(p) \/ ReserveCheck(p) \/ ReserveInsert(p)
         \/ ReserveFails(p) \/ DebitRefused(p) \/ RegisterAnswered(p) \/ RegisterReplyLost(p)
         \/ Finalize(p) \/ FinalizeFails(p) \/ CleanRemote(p) \/ CleanReservation(p) \/ Crash(p)
  PROVE  ChargeInv'
<1> DEFINE Moves(from, to) == post[p].pc \in from /\ \E c \in to : Goto(p, c)
<1>1. UNCHANGED <<spent, refunded>> /\ faults \subseteq faults'
  BY Zenon DEF CheckRegistry, ReserveLock, ReserveCheck, ReserveInsert, ReserveFails, DebitRefused,
     RegisterAnswered, RegisterReplyLost, Finalize, FinalizeFails, CleanRemote,
     CleanReservation, Crash, creditVars, Fault
<1>2. \/ Moves({"registry", "reserve", "reserveCheck", "reserveInsert"},
               {"reserve", "reserveCheck", "reserveInsert", "debit", "failed"})
      \/ Moves({"debit"}, {"refund"})
      \/ Moves({"await"}, {"finalize", "refund"})
      \/ Moves({"finalize"}, {"ok", "refund", "cleanRemote"})
      \/ Moves({"cleanRemote"}, {"refund"}) \/ Moves({"cleanRow"}, {"failed"})
      \/ Goto(p, "crashed")
  BY DEF CheckRegistry, ReserveLock, ReserveCheck, ReserveInsert, ReserveFails, DebitRefused,
     RegisterAnswered, RegisterReplyLost, Finalize, FinalizeFails, CleanRemote,
     CleanReservation, Crash, At
<1>3. ASSUME NEW c \in PostPCs, Goto(p, c),
             ChargeOK(p, post[p], Charged(p), Unspent(p), faults) =>
               ChargeOK(p, [pc |-> c, refundable |-> post[p].refundable],
                        Charged(p), Unspent(p), faults')
      PROVE  ChargeInv'
  BY <1>1, <1>3, ChargeGoes
<1>4. Charged(p) => ~Unspent(p)
  BY DEF Charged, Unspent
<1>5. ASSUME NEW c \in {"reserve", "reserveCheck", "reserveInsert", "debit", "failed"}, Goto(p, c),
             post[p].pc \in {"registry", "reserve", "reserveCheck", "reserveInsert"}
      PROVE  ChargeInv'
  BY <1>1, <1>3, <1>4, <1>5 DEF ChargeOK, BeforeAwait, PostPCs
<1>6. ASSUME Goto(p, "refund"), post[p].pc \in {"debit", "await", "finalize", "cleanRemote"}
      PROVE  ChargeInv'
  BY <1>1, <1>3, <1>4, <1>6 DEF ChargeOK, BeforeAwait, PostPCs
<1>7. ASSUME NEW c \in {"finalize", "ok", "cleanRemote"}, Goto(p, c),
             post[p].pc \in {"await", "finalize"}
      PROVE  ChargeInv'
  BY <1>1, <1>3, <1>4, <1>7 DEF ChargeOK, BeforeAwait, PostPCs
<1>8. ASSUME Goto(p, "failed"), post[p].pc = "cleanRow"
      PROVE  ChargeInv'
  BY <1>1, <1>3, <1>4, <1>8 DEF ChargeOK, BeforeAwait, PostPCs
<1>9. ASSUME Goto(p, "crashed")
      PROVE  ChargeInv'
  BY <1>1, <1>3, <1>9 DEF ChargeOK, BeforeAwait, PostPCs
<1> QED
  BY <1>2, <1>5, <1>6, <1>7, <1>8, <1>9

LEMMA StepCharge == IInv /\ ChargeInv /\ [Next]_vars => ChargeInv'
<1> SUFFICES ASSUME IInv, ChargeInv, [Next]_vars
             PROVE  ChargeInv'
  OBVIOUS
<1>1. ASSUME UNCHANGED <<post, spent, refunded>>, faults \subseteq faults'
      PROVE  ChargeInv'
  BY <1>1 DEF ChargeInv, ChargeOK, Charged, Unspent
<1>2. CASE UNCHANGED vars
  BY <1>1, <1>2 DEF vars, creditVars
<1>3. ASSUME NEW p \in Posts, ScanRows(p) \/ PostStep(p) \/ Crash(p) \/ NodeRegisters(p)
      PROVE  ChargeInv'
  BY <1>3, FreeSteps, MovingSteps, DebitCharges, RefundCharges, Zenon DEF PostStep
<1>4. ASSUME NEW m \in Managers, NEW op \in Operations, NEW e \in Posts, ManagerRead(m, op, e)
      PROVE  ChargeInv'
  BY <1>1, <1>4 DEF ManagerRead, creditVars
<1>5. ASSUME NEW m \in Managers, ManagerStep(m) \/ ManagerDies(m)
      PROVE  ChargeInv'
  BY <1>1, <1>5 DEF ManagerStep, ManagerSave, ManagerAct, ManagerSaveReply, ManagerDeleteRow,
     ManagerDies, Fault, creditVars
<1>6. ASSUME NEW e \in Posts, NodeSettles(e)
      PROVE  ChargeInv'
  BY <1>1, <1>6 DEF NodeSettles, creditVars
<1>7. CASE Next
  BY <1>3, <1>4, <1>5, <1>6, <1>7, Zenon DEF Next
<1> QED
  BY <1>2, <1>7

LEMMA InitCharge == Init => ChargeInv
BY InboxAssumption DEF Init, ChargeInv, ChargeOK, IdlePost, Charged, Unspent, BeforeAwait

LEMMA Invariant == Spec => [](IInv /\ ChargeInv)
<1>1. IInv /\ ChargeInv /\ [Next]_vars => (IInv /\ ChargeInv)'
  BY StepIInv, StepCharge
<1> QED
  BY InitIInv, InitCharge, <1>1, PTL DEF Spec

------------------------------------------------------------------------------
(* However the requests for a slug interleave, with stale refreshes,       *)
(* deletions and faults: rows are unique per entry, one reservation exists *)
(* at most, a reservation has its request unless that crashed or could not *)
(* delete it, and while no reply was lost and no clean-up failed the       *)
(* payment node never holds two standing entries.                          *)
THEOREM SlugsAreExclusive == Spec => []SlugInvariant
<1>1. IInv => SlugInvariant
  <2> SUFFICES ASSUME IInv
               PROVE  SlugInvariant
    OBVIOUS
  <2>1. TypeOK
    <3>1. \A r \in refs : r.owner \in Users /\ r.entry \in Posts \cup {None}
                            /\ r.state \in RegistrationStates
      BY DEF IInv, Types, Rows
    <3>2. ASSUME NEW e \in Posts
          PROVE  Cardinality(RowOf(e)) <= 1
      <4>1. \A r, q \in RowOf(e) : r = q
        BY DEF IInv, RowInv, RowOf
      <4> QED
        BY <4>1, AtMostOne
    <3>3. \A p \in Posts : lock = p => post[p].pc \in {"reserveCheck", "reserveInsert"}
      BY DEF IInv, PostInv, Locking
    <3> QED
      BY <3>1, <3>2, <3>3 DEF TypeOK, IInv, Types
  <2>2. OneReservation
    <3>1. \A r, q \in {x \in refs : IsReservation(x)} : r = q
      BY DEF IInv, RowInv, IsReservation
    <3> QED
      BY <3>1, AtMostOne DEF OneReservation
  <2>3. SlugExclusive
    <3> SUFFICES ASSUME \A p \in Posts : ~Happened(p, {"replyLost", "entryLeft"})
                 PROVE  Cardinality({e \in Posts : Live(e) /\ remote[e] # "DeregistrationFailed"}) <= 1
      BY DEF SlugExclusive
    <3>1. NoFault
      BY DEF Happened, NoFault
    <3>2. \A e \in Posts : Live(e) /\ remote[e] # "DeregistrationFailed" => Standing(e)
      BY DEF Live, Standing, StandingStates
    <3>3. \A d, e \in {x \in Posts : Live(x) /\ remote[x] # "DeregistrationFailed"} : d = e
      BY <3>1, <3>2 DEF IInv, StandingInv
    <3> QED
      BY <3>3, AtMostOne
  <2>4. ReservationsHaveRequest
    <3> SUFFICES ASSUME NEW r \in refs, IsReservation(r)
                 PROVE  InFlight(r.id) \/ Happened(r.id, {"crash", "rowLeft"})
      BY DEF ReservationsHaveRequest
    <3>1. PICK p \in Posts : r = Reservation(p)
      BY RowKinds DEF IInv
    <3>2. r.id = p
      BY <3>1 DEF Reservation, Row
    <3>3. \/ post[p].pc \in Holding
          \/ <<p, "crash">> \in faults \/ <<p, "rowLeft">> \in faults
      BY <3>1 DEF IInv, PostInv, PostOK
    <3> QED
      BY <3>2, <3>3 DEF Holding, InFlight, Happened
  <2> QED
    BY <2>1, <2>2, <2>3, <2>4 DEF SlugInvariant
<1> QED
  BY <1>1, Invariant, PTL

(* A request that answered with success has cost its author a credit, and  *)
(* one that failed has not, unless the commit of the debit or of the       *)
(* refund went unnoticed.                                                  *)
THEOREM ChargesMatch == Spec => []ChargeMatchesOutcome
<1>1. ChargeInv => ChargeMatchesOutcome
  BY DEF ChargeInv, ChargeOK, Charged, ChargeMatchesOutcome, At, Happened
<1> QED
  BY <1>1, Invariant, PTL

(* An entry that is live when its request has been answered can be         *)
(* managed, unless a lost reply, a crash or a failed clean-up says why not. *)
THEOREM OrphansAreNoticed == Spec => []NoUnnoticedOrphan
<1>1. IInv => NoUnnoticedOrphan
  <2> SUFFICES ASSUME IInv, NEW e \in Posts, Live(e), Finished(e),
                      ~Happened(e, {"replyLost", "crash"})
               PROVE  \/ RowOf(e) # {}
                      \/ \E p \in Posts : Happened(p, {"entryLeft", "crash"}) /\ post[p].entry = e
    BY DEF NoUnnoticedOrphan
  <2>1. post[e].pc \notin Registering /\ <<e, "replyLost">> \notin faults
    BY DEF Finished, Registering, Happened
  <2>2. RowOf(e) # {} \/ <<e, "entryLeft">> \in faults
    BY <2>1 DEF IInv, EntryInv
  <2>3. post[e].entry = e
    BY DEF IInv, EntryInv, Live, LiveStates, RegistrationStates
  <2> QED
    BY <2>2, <2>3 DEF Happened
<1> QED
  BY <1>1, Invariant, PTL

(* No save, refresh, merge or re-creation, however stale what it writes,   *)
(* gives an entry's row to another user.                                   *)
THEOREM OwnersKeepRows == Spec => OwnerNeverChanges
<1>1. IInv /\ [Next]_vars => \A e \in Posts : \A r \in RowOf(e), q \in RowOf(e)' : r.owner = q.owner
  <2> SUFFICES ASSUME IInv, [Next]_vars, NEW e \in Posts, NEW r \in RowOf(e), NEW q \in RowOf(e)'
               PROVE  r.owner = q.owner
    OBVIOUS
  <2>1. r \in refs /\ q \in refs' /\ r.entry = e /\ q.entry = e
    BY DEF RowOf
  <2> QED
    BY <2>1, StepIInv, Distinct DEF RowChange
<1> QED
  BY <1>1, Invariant, PTL DEF Spec, OwnerNeverChanges
==============================================================================
