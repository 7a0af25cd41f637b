# A verification project for masumi-saas

masumi-saas is a Next.js application in which users register AI agents and
inbox agents on the Cardano chain. It keeps its own rows in PostgreSQL (through
Prisma) and has an external *payment node* register, confirm and deregister the
entries on chain. Nearly every operation is a sequence of database statements
and HTTP calls with no common transaction, run by any number of server
processes at once. This project models the parts where the order of these steps
decides whether credits, slugs, registrations, jobs, verifications and grants
stay consistent, and the parts of the browser that ask again and again.

The modules are TLA+; TLC checks them on small instances, TLAPS proves theorems
about all of them for every instance.

## 1. The system and its parts

| Part | State | Operations | Who it works with |
|---|---|---|---|
| Credits, `lib/credits/service.ts` | `User.creditsRemaining`, `CreditLedgerEntry` | grant at signup, debit of a Mainnet write, refund | every route that writes to Mainnet |
| Inbox agents, `lib/inbox-agents/server.ts`, `app/api/v1/inbox-agents` | `InboxAgentReference` rows, an advisory lock per slug | register, list with refresh, deregister, delete | credits, payment node |
| Agent registration, `lib/agent-registration.ts`, `lib/actions/agent.action.ts`, `lib/deregister-agent.ts`, `lib/agents/wallet-ownership.ts` | `Agent`, `AgentReference` (its metadata JSON too), activity events | create, complete (polled by the browser), sync, deregister, delete | keys, payment node, activity feed |
| Payment-node keys, `lib/payment-node/{get-user-client,on-signup,wallet-scopes}.ts` | the user's encrypted key, the key's wallet scopes at the node | lazy provisioning, scoping | every call to the node |
| MIP jobs, `lib/mip/langdock-runtime.ts` | `MipJob` rows | start, status (resumes the job), provide input | payment node, Langdock |
| Rate limits, `lib/auth/email-send-rate-limit.ts`, `lib/api/rate-limit.ts` | `EmailSendRateLimit` rows; a map in memory or Redis | check and count, reset | auth, public routes |
| KYC and KYB, `lib/actions/kyc.action.ts`, `app/api/webhooks/sumsub` | verification rows | submit, webhook, status check | Sumsub |
| Verification credentials, `app/api/credentials`, `app/api/agents/[agentId]/verify` | `VeridianCredential` rows, the agent's verification status and challenge | challenge, issue, status, reconcile, verify | Veridian, KYC, agents |
| Authentication and OIDC, `lib/auth`, `app/oidc`, `app/api/auth` | sessions, codes, tokens (better-auth); `OidcUserGrant` | sign in, consent, device flow, exchange, refresh, revoke | every route |
| Activity feed, `app/api/activity` | `AgentActivityEvent` rows; cooldowns in each process; pages and badge in the browser | backfill, merge, page, count what is new | agents, verification, payment node |
| Browser, `registration-completion-context.tsx`, `useNewTransactionsCount.ts` | refs, timers, session storage | poll `complete-registration`, poll for transactions | agent registration, activity feed |
| Organizations, `lib/actions/organization.action.ts` | members, invitations (better-auth) | create, invite, change role, remove | sessions |
| Earnings, dashboard, v1 proxies, integrations, payment-node client | one encrypted secret per integration | sum, forward, call | payment node |

They meet in four places: the user's row (credits, key, KYC), the agent's rows
(registration, credentials, jobs, feed), the browser that drives what nobody
else drives (registrations are completed, jobs resumed, credentials reconciled
only when a page asks), and the payment node, which handles calls when they
arrive, also when the caller has given up on them.

What makes each of them hard, and what makes it correct:

* **Credits** - concurrent READ COMMITTED transactions on one user row, a read
  before the update that computes what the ledger records, refunds that may run
  twice. Correct when nobody is overdrawn, ledger and balance agree, each
  reference is debited and refunded once at most.
* **Inbox agents** - local check, lock, reservation, debit, remote registration
  and recording are separate steps, each may fail, and refreshes write back old
  answers in between. Correct when a slug is reserved and registered once, a
  failed request costs nothing and leaves nothing, a row never changes hands.
* **Agent registration** - a row lock held by a transaction that the database
  client ends after 5 s while the callback waits up to 60 s for the node; polls
  that use metadata read before the lock; deletes, syncs and deregistrations
  that go by rows read earlier. Correct when an agent refers to the entry that was made
  for it, is shown as registered only if it is, and gets out of "pending".
* **Keys** - two requests provision at once; scopes are read, merged and written
  back at another service. Correct when no key spends from a funding wallet, and
  a registration leaves the user's key able to use the wallets of the user.
* **Jobs** - every status poll of a running job runs it, inputs overwrite each
  other, a result is submitted before it is stored. Correct when nobody works
  unpaid, who pays has a job, and what is completed was submitted.
* **Limits** - a counter read before it is incremented, a row deleted between.
* **KYC** - three writers of one row, messages applied in order of arrival.
  Correct when no status says more than Sumsub has, and an answer is found.
* **Credentials** - rows, Veridian and the agent are changed one after the other
  by four endpoints. Correct when an agent is verified by its own accepted
  credential, and that is announced.
* **Activity** - events are inserted after what they tell and may be lost; reads of
  the feed repair them under locks; lists read at several times share a
  watermark and a cursor. Correct when nothing is added twice, nothing untrue is
  told, nothing is left out between pages or polls.
* **Browser** - ticks, replies and answers that are handled in another session than
  they began in; a session that is shown late, or goes from one user to another.
  Correct when nobody waits for another's agents without need, and every wait ends.
* **OIDC** - scopes are accepted, stored and read by three requests, codes are
  deleted to take them, a session id is carried from row to row. Correct when a
  code gives one token, with the scopes that were accepted.

`PROJECT.json` lists every hazard found, at its line, with the properties that
cover it or the reason why none does.

## 2. Plan

All parts are done; what they leave out is in section 8.

| | Modules | Composition, abstraction, proofs |
|---|---|---|
| 1 | `CreditAccount`, `CreditLedger` | ledger implements account; everything proved |
| 2 | `InboxAgents` | uses `CreditAccount` as its account; all safety properties proved |
| 3 | `AgentRegistration` | shares `RegistryStates` with 2 and 9; all safety properties proved |
| 4 | `EmailSendLimit` | the bounded overshoot of the counter and the retry loop, proved for every number of callers |
| 5 | `PaymentNodeKeys` | both safety properties proved |
| 6 | `MipJobs` | all safety properties proved |
| 7 | `KycStatus` | order of submissions, polls and webhooks; proved |
| 8 | `VerifiedAgent`, `AgentVerification` | rests on the KYC of 7 and the registration of 3 as external actors, and implements `VerifiedAgent`; proved |
| 9 | `ActivityBackfill`, `TransactionBadge`, `ActivityFeedPages` | the writers of 3 and 8 as external actors; all safety properties proved |
| 10 | `RegistrationPolls` | the browser's side of 3; proved |
| 11 | `OidcGrants`, `OidcRefresh` | all safety properties proved |
| 12 | `UserAccounts` (1 and 5), `Verifications` (7 and 8), `OidcTokens` (11), `Browser` (9 and 10) | what belongs to one user, one verification, one client, one browser, side by side; the proofs are about these |

Every invariant, every action property and both refinements that a passing run
checks are also theorems; the liveness properties are not (section 6).

## 3. The modules

### CreditLedger, CreditAccount

`CreditAccount` is what the service promises: a grant, a debit per reference if
the balance allows it, a refund per debited reference, each in one step and
each once at most.

`CreditLedger` is the code. Its state is the two tables as committed, the row
lock of each user and the open transactions; each action is one statement.

| Code | Actions |
|---|---|
| `grantInitialCreditsIfNeeded` | `GrantFindExisting`, `GrantReadBalance`, `GrantUpdateUser`, `InsertEntry`, `Commit` |
| `consumeCreditOrThrow` | `DebitUpdateUser` or `DebitRefused`, `InsertEntry`, `Commit` |
| `refundConsumedCredit` | `RefundFindExisting`, `RefundFindDebit`, `RefundUpdateUser`, `InsertEntry`, `Commit` |
| a lost connection, a crash, an expired transaction | `Abort`, at any step |

An update waits for the row and then works on what is committed; a read does
not wait. The unique index on (user, reason, reference) is checked at the
insert. Only Mainnet requests open a transaction, so every reference of the model
stands for one. A debit and the refund of the same reference may be called any
number of times, in any order, by any number of transactions.

### InboxAgents

One slug on Mainnet. A POST runs through its steps with a program counter; what
it read at a step (`seen`, `todo`, `entry`) it uses at later ones. The credits
of its author are `CreditAccount`, taken in one step each: what `CreditLedger`
is shown to implement. The advisory lock is one variable, since the lock's key
is the slug.

| Code | Actions |
|---|---|
| `findInboxAgentSlugConflict` | `ScanRows`, `ScanNext`, `ScanSave`, `CheckRegistry` |
| `reserveInboxAgentReference` | `ReserveLock`, `ReserveCheck`, `ReserveInsert`, `ReserveFails` |
| the debit, `registerInboxAgent` | `Debit`, `DebitRefused`, `SendRegister`, `RegisterAnswered`, `RegisterRejected`, `RegisterReplyLost` |
| `finalizeInboxAgentReservation` and its catch | `Finalize`, `FinalizeFails`, `CleanRemote` |
| `refundCreditAndCleanupReservation` | `RefundAfterFailure`, `CleanReservation` |
| list, deregister, delete | `ManagerRead`, `ManagerSave`, `ManagerAct`, `ManagerSaveReply`, `ManagerDeleteRow` |
| the payment node (external) | `NodeRegisters`, `NodeSettles` |
| crash of a request, a lost reply, a commit nobody saw | `Crash`, `ManagerDies`, and the alternatives that call `Fault` |

`faults` remembers who suffered what, so that a property can say exactly which
failures it excuses. A failure of a call that changes nothing (a failed lookup, a
refused registration) is not a fault and costs nothing.

### AgentRegistration

One agent and its reference row. A poll is a `complete-registration` request; a
manager is a sync, a deregistration or a deletion by the owner, including a list of
agents that syncs them. `txLock` is the row lock of `SELECT ... FOR UPDATE` and
with it the transaction: when Prisma ends it (`TxExpires`) the callback goes on,
and every write after that fails. `deleteLock` is the agent row held by a DELETE that still
has to cascade to the reference.

| Code | Actions |
|---|---|
| `registerAgentOnChainUntilSetup` | `StartAgent`, `StartReference`, `StartEvent` |
| `completeOnChainRegistration`, externalId known | `PollRead`, `PollLookup`, `PollApply`, `PollEvent` |
| the same, its transaction | `PollLock`, `PollAssets`, `PollMatch`, `PollSend`, `PollRecord`, `PollHttpTimeout`, `PollRefused` |
| `syncAgentRegistrationStatusAction` | `ManagerRead`, `SyncLookup`, `SyncWrite`, `ManagerEvent` |
| `deregisterAgentForUser` | `ManagerRead`, `DeregisterCall`, `DeregisterWrite`, `ManagerEvent` |
| `deleteAgentAction` | `ManagerRead`, `DeleteEvent`, `DeleteEntry`, `DeleteLock`, `DeleteCascade` |
| Prisma and PostgreSQL (external) | `TxExpires`, `PollLockFails`, `Deadlock` |
| the payment node (external) | `NodeRegisters`, `NodeAnswers`, `NodeSettles` |

`TX_TIMEOUT` and `REGISTER_AGENT_HTTP_TIMEOUT` only decide which of the two can
come first. With the shipped 5 s and 60 s the branch that handles the time-out
of the race never commits. The run `agent_sync` makes the transaction
longer (90 s) so that this branch, the wallet lookup and the cool-down are checked too;
it leaves nothing out, since a transaction may still end at any moment and the
constants stand in no other guard. A poll whose race is lost answers "pending" like
others; the model calls it `timedOut` for the properties to tell it apart.

`RegistryStates` holds the states both share and how the node moves its entries.
The `...Requested` and `...Initiated` states are one, since this code treats
them alike everywhere.

### EmailSendLimit

The row of one address. A call of `checkAndIncrementEmailSendLimit` takes the
time, reads the row, and then writes by what it read; between its steps others
write the row, the clock moves on and a sign-in deletes the row.

| Code | Actions |
|---|---|
| the loop, `now` | `Begin`, the retry in `Create` |
| `findUnique` and the branches on it | `Find` |
| `create`, P2002 | `Create` |
| `update` with a new window, with an increment | `Roll`, `Increment` |
| `resetEmailSendLimit` | `ResetEmailSendLimit` |
| a failed statement, a crash; time (external) | `Dies`; `Tick` |

`create` and `update` are one action each, as each is one statement. An `update` whose row
is gone throws: the call ends in `error`. `sends` counts the sends
allowed since the row came into being or its window was really over, whatever the
row says; `resets` counts the resets a call lived through. Properties alone
read them. Times are those of one clock: the servers' clocks are taken to agree.

### PaymentNodeKeys

The key of one user and the scopes of every key made for them at the node.
Request `r` may create key `r` and registers an agent with wallet `r`; `Old` is
a key stored before, `Funding` the wallets configured to fund registrations,
which an old key or an old reference may name. `alone` is a history bit: no
other request has been under way since this one began.

| Code | Actions |
|---|---|
| `getPaymentNodeApiKeyTokenForUser` | `Begin`, `ReadKey`, `ReadKeyAgain` |
| `createPaymentNodeKeyForUser`, also from the signup hook (`NewUser`) | `CreateKey`, `StoreKey` |
| `ensureUserPaymentNodeKeyScopedToWallets` | `ReadScopes`, `ReadKnown`, `ListFunding`, `UpdateScopes` |
| `startRegistration`, its rows | `CreateReference` |
| deletion of an agent | `DeleteAgent` |

Every call to the node and every statement may fail, and a call that failed may
have been carried out.

### MipJobs

One job of one agent. Polls run `resumeLangdockJob` (the background run that
`start_job` spawns is one more of them), inputs run `provideLangdockJobInput`.
A message of the conversation is named after the call that asked for it.

| Code | Actions |
|---|---|
| `startLangdockJob` | `StartPayment`, `StartCreate` |
| `resumeLangdockJob` | `ResumeRead`, `ResumeAgent`, `ResumePayment`, `ResumeClaim`, `ResumeRefresh`, `ResumePrompt`, `ResumeAnswer`, `ResumeFail` |
| `provideLangdockJobInput` | `InputRead`, `InputAgent`, `InputSubmit`, `InputComplete`, `InputPrompt`, `InputAnswer` |
| purchaser and payment node (external) | `PurchaserPays`, `PaymentCloses` |
| the agent's connection removed, the agent deleted | `AgentUnusable`, `AgentDeleted` |
| a process dies | `Dies`; alternatives that call `Fault` lose a statement or an answer |

### KycStatus

The verification row the user is linked to. A submission, a poll and a webhook
each read it first and write by what they read. A KYB row is written by the same
webhook alone: the instance without submissions and polls.

| Code | Actions |
|---|---|
| `markKycAsSubmittedAction` | `SubmitRead`, `SubmitWrite`, `SubmitReply` |
| `getKycStatusAction` | `PollRead`, `PollAsk`, `PollWrite` |
| `POST /api/webhooks/sumsub` | `HookRead`, `HookWrite`, `HookExpires` |
| Sumsub (external) | `Review`, `SubmitAgain` |
| errors, a process dies | `Dies`; a reply that is lost after the write (`HookWrite`) makes Sumsub repeat the webhook |

### VerifiedAgent, AgentVerification

`VerifiedAgent` is what the verification of an agent promises: `Prove`, `Offer`,
`Accept`, `Resolve`, `Verify` and `Announce`, each one step that rests on an
earlier one and is never undone. An agent that is deleted (`Leave`) becomes
neither VERIFIED nor announced.

`AgentVerification` is the code.
One agent, the credential rows asked for it and what Veridian offers under the
AID it shares with other agents (`Foreign`). KYC, the registration and the
agent's deletion are external here: they are `KycStatus` and `AgentRegistration`.

| Code | Actions |
|---|---|
| `verification-challenge` | `RefreshChallenge` |
| `credentials/issue` | `IssueKyc`, `IssueAgent`, `IssueFetch`, `IssueOffer`, `IssueRow` |
| `credentials/status` | `CheckRead`, `CheckIdent`, `CheckList`, `CheckRow`, `CheckPrior`, `CheckAgent`, `RecordEvent` |
| `credentials/reconcile` | `ReconcileRead`, `ReconcileList`, `ReconcileRow`, `ReconcileAgent`, `RecordEvent`, `ReconcileFails` |
| `agents/[agentId]/verify` | `VerifyRead`, `VerifyList`, `VerifyAgent`, `RecordEvent` |
| operator, holder's wallet (external) | `SecretDeployed`, `HolderAccepts` |
| the parts around it | `KycChanges`, `AgentDeregistered`, `AgentDeleted` |
| a process dies | `Dies` |

The refinement (`Promise`) reads "proven" as: a secret of this service was ever
deployed; "resolved" as the rows that are `ISSUED`; "announced" as at least one
event. `requestAgentVerificationAction`, which writes `REVIEW` over the agent's
verification status whatever it is, has no caller in the repository and is left
out; with one, a verified agent could lose its status, which `VerifiedAgent` does not allow.

### ActivityBackfill

The events that requests for the feed add themselves. Agents change and their
events are recorded, or lost, by external writers.

| Code | Actions |
|---|---|
| `maybeBackfillAgentLifecycleEvents` | `Start`, `ReadAgents`, `ReadEvents`, `LockLifecycle`, `Recheck`, `Seed` |
| `maybeBackfillMissingAgentVerifiedActivity` | `Preview`, `LockVerified`, `ReadVerified`, `ReadMissing`, `Add` |
| its cooldowns, per process | set by the actions above, `CooldownEnds` |
| writers: registration, verification, deletion | `AgentMoves`, `AgentVerifies`, `AgentDeleted`, then `EventRecorded` or `EventLost` |
| a transaction fails | `TransactionFails` |

`seeded` and `added` count how often each backfill wrote to an agent; `events`
counts to `EventCap`, above which no property tells counts apart.

### TransactionBadge, ActivityFeedPages

`TransactionBadge` is a hook that polls and the server's answer to it, from two
lists of the payment node; the node changes between the two.

| Code | Actions |
|---|---|
| `useNewTransactionsCount`, its query | `PollSend`, `ReadList`, `PollAnswer`, `PollFails`; the effect runs in `PollAnswer` |
| dashboard and activity page mount | `OpenDashboard`, `OpenActivity` |
| payment node (external) | `NodeChanges` |

`ActivityFeedPages` is the infinite query of the activity page: the cursor of a
page is found again in the feed as it is when the next page is asked for.

| Code | Actions |
|---|---|
| `useActivityFeedInfiniteQuery` | `RefetchTick`, `PageAnswered`, `RequestFails` |
| the table: load more, reset of a stale cursor | `LoadMore`, `Stale` (in `PageAnswered`), `ThrottleEnds` |
| `GET /api/activity` | `After`, `PageOf`, in `PageAnswered` |
| feed (external) | `ItemArrives`, `ItemEnters`, `ItemGoes` |

### RegistrationPolls

The provider that waits for registrations, in one tab: its refs, its timer, its
session storage per user.

| Code | Actions |
|---|---|
| the register dialog, `addPendingAgent` | `Submit`, `AddPendingAgent` |
| `tick` | `TickStops`, `TickStarts`, `Call`, `CallLost`, `TickEnds` |
| a session that changes in another tab | `SessionChanges` |
| `useSession`: clear effect, hydrate effect | `SessionShown`, `Hydrated` |
| the provider mounted again | `Reload` |
| hydrate's question for the server's agents | `HydrateRead`, `HydrateAnswer`, `HydrateLost` |
| the registration itself (external) | `Settle` |

The provider stays mounted but for reloads. `session` is whose session cookie
the browser has, by which the server answers; `user` is whom `useSession` shows to
this tab. Another tab may sign in and out, or go from one user to another at once,
as an admin does who impersonates somebody and ends it. This tab is shown the session
of some later moment, so it may miss a sign-out. The code clears the
list only when nobody is shown; when another user is, it goes on with the list of the
one before and saves it for the new one. `strays` remembers the agents that came
into another user's list so, by a reply while the owner was not shown, or by an
answer for a session that was not shown yet; the invariants speak of the others.
Signing out or impersonating in the same tab is a `SessionChanges` with a
`Reload`.

### OidcGrants, OidcRefresh

What this repository adds to better-auth, which is external. `OidcGrants` is one
user, an authorisation code or device code per flow, and the stored grants.

| Code | Actions |
|---|---|
| device code request; authorize request | `Ask` |
| `POST /oidc/consent/submit` | `SubmitConsent`, `ReadGrants`, `WriteGrants`, `Consent` |
| `POST /api/auth/device/approve` | `Approve`, `FindCode`, `ReadGrants`, `WriteGrants` |
| `handleMasumiAuthorizationCodeGrant` | `ReadCode`, `DeleteCode`, `Resolve`, `Create` |
| `exchangeDeviceGrantForOidcToken` | `ReadDeviceCode`, `Poll`, `ResolveDevice` |
| admin's grants page, revocation | `AdminSaves`, `revokeOidcClientConnection` |
| refusal; a process dies (external) | `Deny`; `ApprovalDies`, `ExchangeDies` |

`OidcRefresh` is the `sid` along a chain of refreshed tokens: `Login`,
`ReadSession`, `Rotate` (better-auth), `Carry`, `Answer`, with `ReadFails`,
`CarryFails` and `MintFails` for the three places that catch. A token that was
refreshed is taken to stay usable, since better-auth's source is not here: this
only adds behaviours.

### UserAccounts, Verifications, OidcTokens, Browser

Each puts two parts side by side that belong together and share no state in the
model: a user's credits and the user's key to the payment node; the
verification of an agent and the KYC of its owner, of which the former sees
only a value that may change (`KycChanges`); how tokens are granted and how
they are refreshed; the feed's backfills and what a browser keeps of feed,
badge and registrations. They have no code of their own. The runs and the proof
modules extend them, so that what is checked and what is proved is the same
definition.

## 4. The runs

A run that composes two parts which share nothing runs them side by side: a
constant variable `part`, chosen at the start, says which one moves in a
behaviour, and the others rest in an initial state. So each part is checked
in full without the product of their states. Where such a run states a property under a name
of its own, it is the conjunction of named properties of the modules, given below.

| Run | What it asks | Instance |
|---|---|---|
| `accounts` | no overdraft, ledger equals balance, `balanceAfter` exact, refinement; no key gains a funding wallet, a registration nothing overlapped repairs the key | ledger: 1 user, 3 references, 3 transactions, a grant of 2; keys: 3 requests, 1 funding wallet, faults everywhere |
| `inbox_agents` | `SlugInvariant` (types, one reservation, one live entry, reservations end), charges match outcomes, no unnoticed orphan, owners never change | 3 POSTs of 2 users with 1 credit each, 1 manager, 1 fault |
| `inbox_refresh` | rows do not stay pending for ever (liveness) | 2 POSTs of 2 users, 2 managers, no fault |
| `agent_sync` | `AgentInvariant` (types, confirmed only if minted, confirmations announced, registrations recorded, registered twice only if one registration was lost), the entry is written once and goes before the agent's rows do; agents do not stay pending (liveness) | 90 s against 60 s; 2 polls and 1 manager, or 1 poll and 2 managers under fairness |
| `email_limit` | the counter's overshoot, nothing counted that was not sent, retries end only by resets | 3 callers, 2 sends per window of 1 tick, 2 retries, clock up to 2 |
| `mip_jobs` | nothing runs unpaid, what is completed was submitted, payers have a job, answers stay, runnable jobs are taken up (liveness) | 2 polls, 2 inputs, 1 fault; paid or free |
| `verification` | `CredentialInvariant` (types, verified only with an issued credential, resolved by the agent's own, announced, endpoint proven before an offer), `VerifiedAgent` implemented, an accepted credential resolves (liveness); `KycInvariant` (types, no status before Sumsub's), Sumsub's answer is found (liveness) | 2 credentials and a fault, or 1 and a change; 1 status poll, 1 reconcile, 1 verify, 1 credential of another agent, 1 challenge with the former and 2 with the latter; KYC: 1 submitter, 1 poller, 1 webhook process, 2 reviews, 2 submissions, 2 faults |
| `activity_backfill` | each backfill writes once, no untrue verification; verified and old agents are shown (liveness) | 1 agent; 2 feeds in 2 processes and 1 change, or a feed and a badge in 1 process, 2 changes and a fault |
| `client_polls` | `TabInvariant` (types, nobody inherits but strays, timer runs, attempts bounded), `BadgeInvariant` (types, counted once; nothing skipped while one list alone has transactions), `FeedInvariant` (types, pages disjoint and contiguous); waits are reported, changes arrive (liveness) | tab: 2 users with an agent each, 2 sessions that begin, no reload; 1 user with 2 agents who stays, a reload, a call that is lost or throws. Badge: 2 lists and 2 visits, or 1 list and a second hook; answers of 2 rows, 4 changes, a failed poll. Feed: 6 items, pages of 2, 2 per list, 4 per feed, 1 failure |
| `oidc` | one token per code, consents accepted one at a time are honoured, `RefreshInvariant` (types, the sid is kept), an accepted client gets its token (liveness) | a webapp and a device, 2 exchanges, an admin, a revocation, a fault; 2 authorisations of the webapp; 2 refreshes of 2 logins, 5 rows, an error, a death |
| `agent_duplicate`, `mip_double_run` | two statements of the repository that its code does not keep (section 7) | the smallest instance that shows each |

Why these bounds suffice for the questions. Rows, locks and ledgers of
different users never meet, so one user is enough for the ledger; three
transactions are the fewest in which one acts between two others, and three
debits compete for two credits. Two users are needed for
ownership and one of them sends two requests; three requests give a holder of the lock, one
waiting and one that comes later. `MAX_FAULTS` and its like bound lost replies,
failed statements and crashes in the guard of every fault; one fault shows each
failure and each failure of a clean-up alone, since the
properties name what they excuse per actor. Two polls are the
fewest that can register twice; more polls repeat what the second does. The
polls of an instance bound the entries of the node: poll p can create entry p.
A third request for a key acts between the two that race and is the later one
that repairs. A second poll of a job meets every step of the first, a second
input every step of the first; the rows of two jobs never meet. In
`email_limit` a third caller sees the row after a race of two and two
windows can end (`MAX_TIME`). Two reviews are a rejection and
its repetition; a webhook of the first may come after the second. Two
credentials of one agent are the fewest that one issued credential can both
resolve; two challenges are a refresh while a request uses the first. Backfills of different agents meet only in a lock, so one agent and two
requests show every order of look, lock, second look and write. In
`client_polls` the answers are shorter than what there is to tell, by design:
limits of two are passed by three transactions, pages of two by a feed of four.
In `oidc` two exchanges race for each code; five rows are two logins and three
refreshes.

`CHECK_DEADLOCK FALSE` is set where the system may be done: requests that are made
once and answered, bounded changes that are used up. In `accounts`
and `email_limit` calls can always come and deadlock is checked (the keys of
`accounts`, whose requests end, may rest by `Rests`).

The passing runs reach every action; `PollAssets` and `PollMatch` fire because
`agent_sync` has the longer transaction (section 3).

## 5. Fairness

Safety runs assume none. The liveness properties assume what drives the code:

* Inbox agents and agents (`inbox_refresh`, `agent_sync`): a request under way
  goes on (weak fairness; strong for agents, where a step waits for a lock that
  others take again and again, and PostgreSQL queues the waiters), an open
  transaction ends (`TxExpires`: Prisma's time-out), and the owner's page keeps
  listing or syncing every row it shows (strong fairness of `ManagerRead` with
  "refresh" or "sync"). Nothing is assumed of the payment node, of POSTs and
  polls, or of the owner's deregistrations and deletions. The properties
  therefore say "if the entry is settled for good".
* Jobs: the purchaser polls again and again (strong fairness of `ResumeRead`),
  and a poll under way goes on. Nothing is assumed of inputs, of the
  payment or of Langdock, which may fail. A death of a poll is a fault and bounded.
* KYC: the user keeps coming back while the status is REVIEW. The account page and the
  verification page ask when they open, the verification wizard every 4 s and
  120 times at most. Requests go on, Sumsub repeats its webhooks. Any
  webhook may be lost, and no user need submit.
* Verification: the page of an agent that is not verified reconciles whenever it
  is opened, and it is opened again; requests go on.
* Backfills: cooldowns end by the clock, the feed is asked for again by the
  activity page and by the badge, and a waiter for an advisory lock gets it (strong
  fairness: PostgreSQL queues).
* Browser: intervals fire (5 s for registrations, 25 s for the badge), calls
  return, and a page that was loaded fetches the session (`SessionShown`); a call
  that is lost is a bounded fault. A wait is claimed to end for as long as the
  session is the owner's, across reloads, so the user of that part of the run stays.
* OIDC: clients ask again until they have their token (strong fairness: another
  request may hold the code for a moment), requests go on. No fault is allowed in
  this part of the run, since a code whose exchange died is gone.

## 6. What is proved

The proofs are in modules of their own. All hold for every value of the
constants that satisfies the assumption named in the module, which says that
identifiers differ (from each other, from `None`, and from the few strings they
could be confused with) and that bounds are numbers. TLC has checked the
inductive invariants on the instances of the runs.

| Module | Theorems |
|---|---|
| `UserAccounts_proofs` | credits: `TypeCorrect`, `InductiveInvariant`, `AccountsNeverOverdrawn`, `LedgerConsistent` (refunds have debits, too), `LedgerBalancesExact`, `LedgerImplementsAccount`; keys: `KeyTypes`, `FundingStaysOut`, `RegistrationsRepair` |
| `InboxAgents_proofs` | `SlugsAreExclusive`, `ChargesMatch`, `OrphansAreNoticed`, `OwnersKeepRows` |
| `AgentRegistration_proofs` | `AgentTypes`, `ExternalIdOnce`, `ConfirmedMinted`, `AgentIsTold`, `EntriesGoFirst`, `DuplicatesWereLost` |
| `EmailSendLimit_proofs` | `LimitInvariant`, `CounterNeverOvershoots`, `NobodyRefusedEarly`, `RetriesSuffice`, `OnlyResetsCauseErrors` |
| `MipJobs_proofs` | `TypeCorrect`, `Invariant`, `PaymentFirst`, `ResultsSubmitted`, `PaidJobsStored`, `AnswersStay` |
| `Verifications_proofs` | `VerificationIsFounded`, `VerificationIsAnnounced`, `IssuedOnProof`, `VerificationKeepsPromise`, `KycIsFromSumsub` |
| `Browser_proofs` | backfills: `Invariant`, `WritesOnce`, `VerificationsTrue`, `TypeCorrect`; tab: `TabWaits`; badge: `BadgeCounts`; pages: `FeedHasNoGap` |
| `OidcTokens_proofs` | `Invariant`, `OneToken`, `TypeCorrect`, `ChainKeepsSid`, `ConsentsHonoured` |

The arguments.

**Credits.** "No overdraft" is not inductive: a transaction that holds the row
will publish a version computed earlier. `IInv` therefore says what an open
transaction knows:

* `LockHeldByWriters`: a transaction about to insert or commit holds the row of
  its user, and only such a transaction holds one. So the committed balance
  cannot change under it.
* `PendingVersion`: what it will publish is the committed balance plus its own
  change, and not negative; a transaction about to commit has no entry for its reference
  yet, and a refund's debit is committed. So the commit adds exactly one entry and
  exactly its amount.
* `PendingBalanceAfter`: a debit or refund records what it publishes. The grant
  records a balance read before it took the row; this is right only because
  nothing can be debited before the grant commits, and a second grant dies at the
  unique index.
* `KindMatchesPC`, `EntriesWellFormed`: which step belongs to which kind of
  transaction, which entry has a reference.

The refinement follows because only a commit changes the
account, and its case analysis by kind gives `Grant`, `Spend` or `Refund`.

**E-mail limit.** A caller that has passed the check will increment whatever the counter
is by then, so the bound on the counter is not inductive. `RoomForIncrements` adds
those callers to it: counter plus callers about to increment stays below limit
plus callers. A caller enters that set only with the counter below the limit,
when the set has at most all callers; an increment moves one caller from the
set to the counter; a row that starts a window counts one, and its author is not
in the set. `RetriesNeedResets` ties attempts to resets: losing a race means the
row is there, and a caller finds it missing again only after a reset, which every
call in flight counts.

**Inbox agents.** What a step may do to the rows and to the entries of the node
is stated once (`RowChange`, `RemoteChange`): what is written to a row names an
entry that a POST was answered with, keeps the owner, and leaves a live entry
its row. A step of a request that obeys both keeps the invariant of
everybody else (`PostMoves`, `ManagerMoves`), so each action needs only its own case.
`PostInv` ties a reservation to the step its POST is at, so there is one as long as
the advisory lock's holder looks before it inserts. That two entries never
stand at once (`StandingInv`) is subtle, since stale answers are written back all
the time: it holds because a row that names a standing entry, and every answer
about it that is waiting to be written, says that it stands (`TruthInv`).
A row that a refresh re-creates has an id of its own, `<<"saved", e>>`; `Identified`
says which id belongs to which entry, and is what keeps an update by id from
reaching the row of another. `ChargeInv` follows a POST's credit from its debit on:
where it is `refundable`, the credit is spent.

**Keys.** `FundingNeverAdded` needs only that what an update writes is what was
asked for and known without the funding wallets, and what the key was read to
have. `RegistrationRepairs` is about a request that nothing overlapped, so its
invariant says of a request that is `alone` that what it has read is what there
is: the key it uses is the stored one, the wallets it knows are those of the
references; and that two requests under way are never alone.

**Jobs.** `IInv` has four parts. `Stored`: the reply, and with it any payment,
comes after the row, and only the agent's deletion removes it. `Unpaid`: before
the payment is locked no caller is past the look at the payment, and no row past
AWAITING_PAYMENT but FAILED. `Results`: a finish that is about to complete a
paid job has had its own transcript accepted; rows only get their output so.
`Kept`: from the answer that nothing overlapped on, every input goes by a conversation that has
it, and no poll is on its way to start the conversation again, since the job
waits for input and polls run it only while it is RUNNING.

**Backfills.** Each has an advisory lock and looks again under it. The invariant
says who holds a lock (`Holds`), that what a holder is about to write has not
been written (`Unwritten`: between second look and insert nobody else has the lock), and
that who was written to has an event (`Counted`, so that every later second look
sees it). `Truthful`, with `Read` and `Todo`, carries "verified" from the row that
was read to the event: verification is never taken back.

**OIDC.** A request that has taken a code is the only one (`Exclusive`): the
code is gone, so no other request can take it, and no token was made of it.
In a chain of refreshes the clients were told something twice: by an id_token,
and by having a refresh token from whose row the next sid will be taken. `Agree`
says that all of it (`Told`) agrees within a chain that no error has broken. A
refresh keeps it since what it will write is the sid of the token it refreshes,
and nobody has the new token before it is answered (`RefreshOK`), nor does
another refresh write to its row (`NewsDiffer`).
`ConsentsAreHonoured` is about the webapp, where the scopes are stored before
the code is good for a token, as long as one request accepts at a time and
neither an admin nor a revocation has written the grants; requests may die anywhere,
and devices may be authorised in between. `Honoured` says that what was agreed to is stored,
that what the request has read is what is stored, and that the scopes of a code
whose consent is about to be given are stored already. For the device the code
is approved first, so a token asked for in between lacks the scopes whatever the
number of requests; nothing is claimed of it.

**Verification.** Requests know something about rows, the agent and the
accepted credentials that was read several steps ago (`ReqOK`). It stays true because no
step undoes it (`Monotone`): rows that are resolved, agents that are VERIFIED,
agents that are gone, credentials that are accepted stay so. What a request
resolves a row by was narrowed to the agent's own credentials, as long as the
agent is there. For the announcement one fact more is needed
(`WhoVerifies`): a step after which the agent is VERIFIED either began so, or leaves
its request with the announcement to make.

An issue request uses a challenge it read two calls ago, and in the meantime it
may be refreshed and deployed again, so what the offer rests on need not be the
challenge in force (section 7). What remains true is `Proven`: secrets are numbered as
they are made, an endpoint serves none but those, and a request that is past the
fetch holds one that has been deployed. Rows are only created after that, so an
agent cannot become VERIFIED whose endpoint never proved itself (`IssuedOnProof`).

The refinement of `VerifiedAgent` needs the other end as well: `Ordered` says that
a row comes after the offer of its credential and an event after the agent was
written. With it each statement is looked at once (`WorldPromise`, `IssuePromise`,
`FollowersPromise`): a resolution of a row that is resolved already, a
verification of a VERIFIED agent and a second event are stutters, and all the
rest of a request is.

**KYC.** The same argument: Sumsub forgets no answer and no row goes away
(`KycMonotone`), so an answer that a poll or a webhook carries has been given when
it is written, however late (`Said`).

**Agents.** The lock's holder has found no externalId in the row it locked, and
nobody else writes one while it holds the lock (`Locks`); when the transaction ends
early the write fails. So the one writer writes where nothing is (`ExternalIdOnce`),
whatever the time-outs. A confirmation is applied from a reply that may be old: `MintInv`
says that a poll's registration is sent once, hence an entry that was
minted stays so, and every reply that is waiting to be applied and has an
identifier names a minted entry (`ConfirmedMinted`). `TellInv` follows what
requests leave behind: a poll whose request was sent and which ends without an
error has its entry in the reference (`Recorded`), or the attempt when it timed out
(`Attempted`), which only the deletion takes away (`RefKept`): a sync that writes back metadata it read
before an attempt can erase it only after an externalId was recorded. A
confirmation that is shown was told, or its request is about to (`Told`); a sync
that saw none because it read the agent as confirmed already (`SyncKnows`)
relies on the one that wrote that. `AgentIsTold` is all of `AgentInvariant`, for
all time-outs.

`EntriesGoFirst` is about a deletion that goes by the reference it read. `DeleteInv`
says of one that read an entry that the reference still names it, since an
externalId is not replaced, and, once past the call to the node, that the entry is gone
and stays so: the node has handled its registration and handles none twice
(`GoneStays`). What else the node may have is then by `TellInv` of a poll that
waits, has failed or timed out, for one that answered has recorded its entry.

`DuplicatesWereLost` says what the row lock achieves, whatever the time-outs are.
A registration is `Lost` when the transaction that sent it is gone before the
answer is recorded, when it failed, or when it timed out; what is lost stays so
(`LostStays`). `LockInv`: a poll that was answered and did not time out is the one
the reference names, and nobody is named while waiting. So when a poll sends a
registration under its lock, where the reference names none, all that was sent
before is lost; and one sent without the lock is lost itself. `Onward` says
how one step can move a poll, the lock and the name in the reference.

**Tab.** Agents come into the list by a reply, by an answer of the server
(`TabAdds`) or with the session that is shown (`TabHydrated`); what is the shown
user's, or a stray, stays so until the list is cleared, and nothing else is saved for
anybody. Attempts are counted in memory and in the storage; `AttemptsKept` says that
the storage has all that was tried, except of strays, so that a reload goes on
from there. `Browser_proofs` needs no bound on sessions and reloads, so it also has
the reload with two users that the run leaves out.

**Badge.** Each earlier hook has counted each transaction once at most, this one
what it has seen: `Counts` has these as two summands, since "count is at most
hooks times transactions" does not say which of them the present hook may still
count. A visit that marks everything as read begins both again. For the watermark, `Answered`:
an answer that has one row has every visible row that changed before it and
after what was asked for, because what is cut off an answer is newer than what is not.
This is of one list; with two the answer of the later one reaches past what the
earlier one was asked for (section 7).

**Pages.** `Chain` is local: each page is below the page before, and a next
cursor is the least item there is; so disjointness survives whatever comes and goes.
That steady pages have no gap is not inductive of the feed as it is cut: a
hidden transaction that arrives can push one out of its list and so let an older
item into the feed. `NoGap` is about the merged feed before the last cut
(`Merged`), which gains nothing but on top while it is steady; what is below the pages' end is
then either in reach of a next page, or the feed was full when they were read.

Of `CreditAccount` and `VerifiedAgent` there is no theorem of their own: their steps are
what `LedgerImplementsAccount` and `VerificationKeepsPromise` are about.
Out of the prover's reach: liveness under fairness and ENABLED, induction over
data and RECURSIVE operators; the modules use none of the latter. So
`PendingRowsSettle`, `AgentSettles`, `JobsGetAnswered`, `AcceptedResolves`,
`AnswerIsFound`, `EventsShown`, `WaitIsReported`, `ChangesArrive` and
`AcceptedGetsItsToken` stay with TLC.

## 7. What the runs found

Two runs are expected to fail, each on a sentence of the repository:

* `agent_duplicate`: the stress test of simultaneous polls says "exactly one proceeds, no
  duplicate registration"; the transaction that guards it ends after 5 s while the
  registration may take 60 s (`agent-registration.ts:628`). `DuplicatesAreLost`
  and its theorem say that nothing else leads to one: of two registrations, one was lost.
* `mip_double_run`: a test says "does not run Langdock when another request
  already claimed the job"; only the step out of AWAITING_PAYMENT is claimed, and
  every poll that finds the job RUNNING prompts Langdock again
  (`langdock-runtime.ts:228`). That is also what saves a job whose run has crashed
  (`JobsGetAnswered`).

The last section of a module states what else a text of the repository says
and the code does not keep. To see the behaviour, put the name under INVARIANTS or
PROPERTIES of the run's configuration (of an instance of the module alone):

| Property | Text | What happens |
|---|---|---|
| `InboxAgents!SlugHeldUntilDeregistered` | deregister route: "The slug remains unavailable until the registry confirms deregistration" | a deregistration that fails counts as reusable and frees the slug |
| `AgentRegistration!DirectDeleteHasNoEntry` | "Legacy agent ... no payment-node entry; allow direct delete" | the null `externalId` it goes by is also that of a registration on its way |
| `AgentRegistration!PendingNotSubmitted` | `PENDING` is "not yet submitted" | stays on submitted references |
| `EmailSendLimit!OvershootBounded` | "concurrent callers may overshoot the cap by at most the number of in-flight requests" | a late roll-over sets the counter of a window in use back to one; the counter keeps the bound, the sends do not |
| `PaymentNodeKeys!WalletsPreserved` | "preserving current payment-node and agent wallet IDs" | two updates at once lose a wallet, and the registration succeeds; a later one repairs it |
| `MipJobs!CompletedIsFinal` | "continues HITL conversation until the purchaser finishes the job" | the answer to an older input reopens a completed job |
| `KycStatus!StatusIsCurrent` | "KycVerification holds the overall/current status" | the webhook of an older review comes last |
| `KycStatus!SubmissionChecksStatus` | "check status immediately" | a submission writes REVIEW over the answer and does not ask |
| `AgentVerification!ResolvedVerifies` | "One resolved is enough to flip the agent to VERIFIED" | a crash between row and agent: the row is no longer pending and nobody looks at it again |
| `AgentVerification!IssuedOnCurrentChallenge` | "issue a new challenge and invalidate the previous" | the challenge was read before two calls to other servers |
| `ActivityBackfill!VerifiedOnce` | "duplicate inserts are still prevented by pg_advisory_xact_lock" | the two backfills have different locks, and a writer's own event may come after either |
| `RegistrationPolls!NotInherited` | "Clear in-memory pending when user logs out so next user doesn't inherit" | a submission's reply that comes after the next sign-in adds to that user's list; a session that goes from one user to another, or whose end is not shown before the next, hands the whole list on, in memory and in storage |
| `RegistrationPolls!FailureIsReal` | "Poll until status is registered or the user gives up" | calls that fail use up the attempts, and the end is reported as an error |
| `TransactionBadge!NothingSkipped`, with two lists | "diff lastUpdate never skips visible items" | the lists are read at two times and share a watermark |
| `TransactionBadge!BadgeCountsOnce`, without the factor for dashboards | "Only count rows that are unseen" | what was seen is kept by the mounted hook, the count in localStorage: coming back to the dashboard counts cached rows again |
| `ActivityFeedPages!StaleRecovers` | "Stale cursor must recover via resetQueries in the table" | not when the last reset was less than 1.5 s ago: nothing asks again |
| `OidcGrants!RemovedWasUnapproved`, with two approvals at once or an admin | "scope has not been approved for this user yet" | the later write of a read and merge loses the scopes of the other |
| `OidcRefresh!SidStable` | "tokens in the same refresh chain share a stable sid" | reading or carrying it over may fail, is logged, and the new row derives a sid of its own |

Seen while modelling, with no sentence to hold the code against:

* Inbox agents: a crash between reservation and outcome leaves a `pending:` row
  that blocks the slug for good; after `DeregistrationFailed` an inbox agent can
  be neither deregistered nor deleted; a stale save can re-create the row of a
  deleted entry, which is then pending for good (`PendingRowsSettle` speaks of
  entries the node still has).
* Agents: `agent.create` and `agentReference.create` are two statements; an agent
  whose reference was never written cannot be completed, and is not shown to its
  owner.
* Keys: a provisioning that is overtaken or fails leaves a key at the node that
  nobody knows; scopes never shrink when an agent is deleted.
* Jobs: providing input does not resume a job, and a job that was claimed and
  lost waits for a status poll; two inputs that finish at once may submit two results,
  of which the stored one is that of the later.
* KYC: two creations at once leave a row no user is linked to. The tables of
  submissions (`KycSubmission`, `KybSubmission`) are never written.
* Verification: `reconcile` announces every time, so two requests announce a
  verification twice; `verify` picks a credential by its schema, also one of another
  agent of the AID (its row was resolved by its own); an offer whose row was lost in a crash
  stays with Veridian; of two challenges made at once the page may show the one
  that is not stored.
* Activity: a poll behind a full answer of rows of other agents does not move on;
  switching the network keeps the watermark; a lost event of an agent that has
  another event is not restored, except AgentVerified.
* Browser: an agent that was given up is polled again after a reload, when the
  server still calls it pending; the agents page starts over when its cursor is
  unknown, and its "load more" is not cancelled by a new filter.
* OIDC: a request for a device code that is JSON is not cut to what the client
  may have; the grants are, and so is the token.

## 8. Not modelled, and why

Most of the repository's lines are not code of its own: more than half are the generated
Prisma client and the generated types of the payment node's API, and of the
rest the larger part is pages, components, messages and tests. The modules cover the
operations that change shared state in several steps; what is left is below.

* Organizations, sign-in, sessions, passwords, API keys: configuration of and
  calls to better-auth, whose source is not here.
* Earnings, dashboard, v1 proxies, integrations, payment-node client: no
  state of their own, or one statement; requests, parsing and sums.
* The request limits of `lib/api/rate-limit.ts`: one synchronous step on a map in
  memory, or one call to a Redis library.
* UI, texts, e-mail templates, generated code, API documents, scripts.
* In the modelled parts: field values of a registration, choice of wallets and
  payment sources, pagination of the registry, the confirmation e-mail,
  authorisation and validation before the first state is read. In the model a
  request starts where these have passed; failing there changes nothing.
* The debit of `POST /api/agents` and of the payment and registry proxies: a call of
  `CreditLedger`'s debit with no refund.

Assumptions the modules make about the world: times of changes and dates of
items differ (`TransactionBadge`, `ActivityFeedPages`), the servers' clocks
agree (`EmailSendLimit`), hashes are injective (`MipJobs`), an agent's credentials
are under one AID and KYC verification is enabled (`AgentVerification`).
