--------------------------- MODULE ActivityFeedPages ---------------------------
(***************************************************************************)
(* GET /api/activity with a cursor (api/activity/route.ts), and the        *)
(* infinite query of the activity page that asks for it                    *)
(* (hooks/use-activity-feed-infinite-query.ts and its table): one filter,  *)
(* one network.                                                            *)
(*                                                                         *)
(* An item is its date; dates differ.  TanStack Query and the payment node *)
(* are external.  Retries of a call are part of the call.                  *)
(***************************************************************************)
EXTENDS Integers, Sequences, FiniteSets, FiniteSetsExt, SequencesExt

CONSTANTS Lifecycle, Payments, Purchases,  \* the items of each list, by date
          Late,          \* items that may enter the feed at an older date
          PAGE,          \* ACTIVITY_FETCH_LIMIT
          LIST_LIMIT,    \* listLimit, of payments and of purchases
          FEED_LIMIT,    \* ACTIVITY_MERGED_FEED_LIMIT
          None, MaxFaults

Items == Lifecycle \cup Payments \cup Purchases

FeedAssumption ==
  /\ Items \subseteq Nat /\ IsFiniteSet(Items) /\ None \notin Items /\ Late \subseteq Items
  /\ {PAGE, LIST_LIMIT, FEED_LIMIT} \subseteq Nat \ {0} /\ MaxFaults \in Nat

VARIABLES item,       \* each item: absent, shown by the filter, or hidden
          pages,      \* the pages the query holds
          error,      \* the query's error: none, stale or failed
          fetch,      \* the fetch under way
          throttled,  \* the last reset was less than 1.5 s ago
          steady,     \* history: nothing left the feed or entered it late, and
                      \* the payment node answered, since the pages were begun
          faults

vars == <<item, pages, error, fetch, throttled, steady, faults>>
query == <<pages, error, fetch, throttled>>

Idle == [mode |-> "idle", want |-> 0, got |-> <<>>, steady |-> TRUE]
Fetching(mode, n) == [Idle EXCEPT !.mode = mode, !.want = n]

Init ==
  /\ item \in [Items -> {"absent", "shown", "hidden"}]
  /\ \A i \in Lifecycle : item[i] # "hidden"
  /\ pages = <<>> /\ error = "none" /\ fetch = Fetching("all", 1)
  /\ throttled = FALSE /\ steady = TRUE /\ faults = 0

------------------------------------------------------------------------------
(* The server: each list is cut, transactions that the filter hides are    *)
(* left out, and what is merged is cut again.                              *)
Newest(S, n) == {i \in S : Cardinality({j \in S : j > i}) < n}
Shown == {i \in Items : item[i] = "shown"}
ListOf(list) == Newest({i \in list : item[i] # "absent"}, LIST_LIMIT)

Feed(answers) ==
  LET transactions == IF answers THEN ListOf(Payments) \cup ListOf(Purchases) ELSE {}
  IN  Newest((Lifecycle \cup transactions) \cap Shown, FEED_LIMIT)

\* Mutant: the cursor's own item is on the next page again.
FromCursor(feed, cursor) == {i \in feed : cursor = None \/ i <= cursor}
After(feed, cursor) == {i \in feed : cursor = None \/ i < cursor}

PageOf(rest) ==
  LET page == Newest(rest, PAGE) IN
  [items |-> page,
   next |-> IF page # rest THEN Min(page) ELSE None]

------------------------------------------------------------------------------
(* The feed changes.  An item comes as the newest one, unless it tells of  *)
(* a verification that is older; a transaction may come without being      *)
(* shown, enter with a state that the filter asks for, and go with its     *)
(* state or its agent.                                                     *)
Steady(yes) ==
  /\ steady' = (steady /\ yes)
  /\ fetch' = [fetch EXCEPT !.steady = @ /\ yes]

ItemArrives(i) ==
  LET newest == \A j \in Items : item[j] # "absent" => j < i IN
  /\ item[i] = "absent"
  /\ newest \/ i \in Late \cap Lifecycle
  /\ \E s \in {"shown", "hidden"} :
       /\ s = "hidden" => i \notin Lifecycle
       /\ item' = [item EXCEPT ![i] = s]
  /\ Steady(newest)
  /\ UNCHANGED <<pages, error, throttled, faults>>

ItemEnters(i) ==
  /\ i \in Late /\ item[i] = "hidden"
  /\ item' = [item EXCEPT ![i] = "shown"]
  /\ Steady(FALSE)
  /\ UNCHANGED <<pages, error, throttled, faults>>

ItemGoes(i) ==
  /\ i \notin Lifecycle /\ item[i] = "shown"
  /\ item' = [item EXCEPT ![i] = "hidden"]
  /\ Steady(FALSE)
  /\ UNCHANGED <<pages, error, throttled, faults>>

------------------------------------------------------------------------------
(* The query.                                                              *)
RefetchTick ==
  /\ fetch.mode = "idle" /\ error # "stale"
  /\ fetch' = Fetching("all", Max({1, Len(pages)}))
  /\ UNCHANGED <<item, pages, error, throttled, steady, faults>>

LoadMore ==
  /\ fetch.mode # "more" /\ error # "failed"
  /\ pages # <<>> /\ Last(pages).next # None
  /\ fetch' = Fetching("more", 1)
  /\ UNCHANGED <<item, pages, error, throttled, steady, faults>>

(* The cursor of the next request.                                         *)
Cursor ==
  IF fetch.mode = "more" THEN Last(pages).next
  ELSE IF fetch.got = <<>> THEN None ELSE Last(fetch.got).next

(* The answer has another page; all pages of a refetch come in together.   *)
Receive(page, answers) ==
  LET got == Append(fetch.got, page) IN
  IF fetch.mode = "all" /\ Len(got) < fetch.want /\ page.next # None
  THEN /\ fetch' = [fetch EXCEPT !.got = got, !.steady = @ /\ answers]
       /\ UNCHANGED <<pages, error, steady>>
  ELSE /\ pages' = IF fetch.mode = "all" THEN got ELSE pages \o got
       /\ steady' = ((IF fetch.mode = "all" THEN fetch.steady ELSE steady) /\ answers)
       /\ error' = "none" /\ fetch' = Idle

(* Status 410: the table resets the query, but not twice in 1.5 seconds.   *)
Stale ==
  IF throttled
  THEN /\ error' = "stale" /\ fetch' = Idle
       /\ UNCHANGED <<pages, throttled, steady>>
  ELSE /\ pages' = <<>> /\ error' = "none" /\ fetch' = Fetching("all", 1)
       /\ throttled' = TRUE /\ steady' = TRUE

(* Without the payment node the feed is that of the lifecycle events.      *)
PageAnswered ==
  \E answers \in BOOLEAN :
    /\ fetch.mode # "idle"
    /\ answers \/ faults < MaxFaults
    /\ faults' = IF answers THEN faults ELSE faults + 1
    /\ IF Cursor # None /\ Cursor \notin Feed(answers) THEN Stale
       ELSE /\ Receive(PageOf(After(Feed(answers), Cursor)), answers)
            /\ UNCHANGED throttled
    /\ UNCHANGED item

RequestFails ==
  /\ fetch.mode # "idle" /\ faults < MaxFaults /\ faults' = faults + 1
  /\ error' = "failed" /\ fetch' = Idle
  /\ UNCHANGED <<item, pages, throttled, steady>>

ThrottleEnds ==
  /\ throttled /\ throttled' = FALSE
  /\ UNCHANGED <<item, pages, error, fetch, steady, faults>>

------------------------------------------------------------------------------
Next ==
  \/ \E i \in Items : ItemArrives(i) \/ ItemEnters(i) \/ ItemGoes(i)
  \/ RefetchTick \/ LoadMore \/ PageAnswered \/ RequestFails \/ ThrottleEnds

Spec == Init /\ [][Next]_vars

Fairness == WF_vars(RefetchTick) /\ WF_vars(PageAnswered) /\ WF_vars(ThrottleEnds)
FairSpec == Spec /\ Fairness

------------------------------------------------------------------------------
(* Properties.                                                             *)
Pages == [items : SUBSET Items, next : Items \cup {None}]

(* Types; no fetch has more pages than it wants.                           *)
TypeOK ==
  /\ item \in [Items -> {"absent", "shown", "hidden"}]
  /\ \A k \in DOMAIN pages : pages[k] \in Pages
  /\ error \in {"none", "stale", "failed"}
  /\ fetch.mode \in {"idle", "all", "more"} /\ Len(fetch.got) <= fetch.want
  /\ {throttled, steady} \subseteq BOOLEAN

Listed == UNION {pages[k].items : k \in DOMAIN pages}

(* Whatever comes and goes between two requests, the pages go on where the *)
(* page before them ended: no item is on two of them.                      *)
PagesDisjoint ==
  \A k, l \in DOMAIN pages : k < l =>
    \A i \in pages[k].items, j \in pages[l].items : j < i

(* As long as items only arrive on top and the payment node answers, the   *)
(* pages have no gap, and the end of the results is the end of the feed,   *)
(* unless the feed was full.                                               *)
Full == Cardinality(Listed \cup {i \in Shown : i > Max(Listed)}) >= FEED_LIMIT

PagesContiguous ==
  steady /\ Listed # {} =>
    \A i \in Feed(TRUE) \ Listed :
      i > Max(Listed) \/ (i < Min(Listed) /\ (Last(pages).next # None \/ Full))

PagesInvariant == TypeOK /\ PagesDisjoint /\ PagesContiguous

------------------------------------------------------------------------------
(* What texts of the repository say and the code does not keep: TLC        *)
(* refutes these (see the README).                                         *)

(* "Stale cursor must recover via resetQueries in the table"               *)
(* (use-activity-feed-infinite-query.ts:77), and so without the user: not  *)
(* when the last reset was a moment ago, for then nothing asks again.      *)
StaleRecovers == []<>(error # "stale")
==============================================================================
