------------------------------- MODULE Browser --------------------------------
(* What a browser asks for again and again: the activity feed, whose       *)
(* requests add missing events (ActivityBackfill); and beside it its pages *)
(* (ActivityFeedPages), the badge that counts new transactions             *)
(* (TransactionBadge), and the registrations that a tab waits for          *)
(* (RegistrationPolls).                                                    *)
EXTENDS ActivityBackfill

CONSTANTS Users, Owner, MaxTries, MaxSessions, MaxReloads,
          Payments, Purchases, Hidden, Limit, MaxTime, MaxDashboards, MaxActivities,
          Lifecycle, FeedPayments, FeedPurchases, Late, PAGE, LIST_LIMIT, FEED_LIMIT

VARIABLES session, user, status, reply, pending, tries, polling, storage, tick, hydrate,
          notices, polls, strays, sessions, reloads, tabFaults,
          now, created, changed, poll, data, lastUpdate, seen, counting, lastVisit, count,
          base, delivered, dashboards, activities, badgeFaults,
          item, pages, error, fetch, throttled, steady, feedFaults

tabVars == <<session, user, status, reply, pending, tries, polling, storage, tick, hydrate,
             notices, polls, strays, sessions, reloads, tabFaults>>
badgeVars == <<now, created, changed, poll, data, lastUpdate, seen, counting, lastVisit,
               count, base, delivered, dashboards, activities, badgeFaults>>
feedVars == <<item, pages, error, fetch, throttled, steady, feedFaults>>

Tab == INSTANCE RegistrationPolls WITH faults <- tabFaults
Badge == INSTANCE TransactionBadge WITH seeded <- counting, faults <- badgeFaults
Pages == INSTANCE ActivityFeedPages
           WITH Payments <- FeedPayments, Purchases <- FeedPurchases, faults <- feedFaults

ASSUME BrowserAssumption ==
  Tab!PollsAssumption /\ Badge!BadgeAssumption /\ Pages!FeedAssumption

(* Nobody waits for another user's agents, but for those that came while   *)
(* the owner was not shown, or were inherited of a user who was replaced   *)
(* without a sign-out; the timer runs while there is something to wait     *)
(* for; no reload starts the attempts again.                               *)
TabInvariant == Tab!PollsInvariant

(* No hook counts a transaction twice, or one older than the last visit;   *)
(* while one list alone has transactions, a change that came after the     *)
(* first answer and is not after the watermark has been delivered.         *)
BadgeInvariant == Badge!BadgeInvariant

(* The pages of the feed have no item twice, whatever comes and goes, and  *)
(* no gap while items only arrive on top and the payment node answers.     *)
FeedInvariant == Pages!PagesInvariant
==============================================================================
