# Salmor / LeadPilot: specification and proofs

Salmor ("Saathi", package `leadpilot`) runs Meta ads for small businesses and answers the leads
they bring on WhatsApp. This directory holds TLA+ models of the parts of it where the order of
steps decides whether money is spent or a customer is answered, the TLC runs that check them on
small instances, and TLAPS proofs of the most important properties for every instance.
Paths below are relative to the package, `src/src/leadpilot`, unless they start with `src/`.

## 1. The system

Six kinds of process share one Postgres database and one Redis broker: the app's API
(`bff/`), the webhook service (`webhook/`), two kinds of Celery workers (`worker/`), Celery beat
for the cron jobs, and a Next.js front end that only calls the API. A request or a task opens
one or several transactions (`core/db.py`: commit at the end of the block, rollback on any
exception, read-committed); everything outside the database (Meta's Graph API, WhatsApp,
Razorpay, the language models) is called from inside them and is not rolled back with them.
That is where nearly all of what can go wrong comes from.

| component | code | state it keeps | operations | what makes it correct |
|---|---|---|---|---|
| transactional outbox | `core/outbox.py`, `saathi/workflow/runner.py`, `saathi/outbound.py` | rows `outbox`, `dlq`, `messages.status` | enqueue, claim, drain, done, retry, reap, purge | every effect is delivered or parked; a row is worked on by one worker; a repeat is explained by a loss |
| send handler | `saathi/workflow/effects.py`, `integrations/whatsapp/` | `messages.status` | send one message | SENT only when the provider took it; an earlier SENT ends a redelivery |
| campaign launch | `saathi/pipeline.py:372-551`, `integrations/meta/cloud.py` | Meta's campaign, ad sets, ads; rows `campaigns`, `ad_sets`; `accounts.phase`, `trust_score` | find or create, claim, build the tiers, switch on, commit | nothing spends that we do not know of, nothing half-built; no duplicates |
| WhatsApp intake | `webhook/app.py`, `core/routing.py`, `worker/dispatch.py`, `worker/tasks/closer.py` | `inbound_events`, the queue | record, enqueue, run, retry, acknowledge | what was accepted is handled; a redelivery changes nothing |
| Closer orchestration | `saathi/orchestrator.py`, `saathi/agents/closer.py` | `leads`, `conversations`, `messages`, `bookings` | handle one inbound message | applied once, always answered or handed to the owner; one booking; steps back for the owner |
| owner's inbox | `bff/routers/leads.py`, `bookings.py` | the same rows | take over, set a status, book, cancel | the owner's word is not overwritten |
| lead cron jobs | `worker/tasks/maintenance.py` | the same rows | mark silent leads, re-engage | no lead is chased that answered or was closed |
| Instant-Form leads | `core/webhooks.py:78-111`, `webhook/app.py:157-211` | `leads` | webhook, poll | every form becomes one lead, and the owner hears of it once |
| live state | `saathi/pipeline.py:283-328`, `bff/routers/settings.py`, `admin.py` | `accounts.phase`, `pause_reason`, `phase_before_pause`, campaign status here and on Meta | pause, resume, kill switch | what is paused here does not spend there; nobody overrides the owner's pause |
| billing and trials | `bff/routers/billing.py`, `core/webhooks.py:28-75`, `maintenance.py:450-508` | `subscriptions`, `invoices`, `wallet_ledger` | subscribe, Razorpay events, trial sweep, top-up | a client who pays is not paused; one invoice per period |
| optimizer | `saathi/pipeline.py:553-920`, `saathi/guardrails/` | ad set status and budgets, `accounts.phase` | kill, scale, reallocate, recover, emergency stop | budgets stay within the owner's; a pause is not undone |
| approvals | `saathi/pipeline.py`, `bff/routers/agents.py`, `maintenance.py` | `approvals`, `creatives`, `accounts.phase` | produce a batch, decide, veto window, regenerate | a batch is decided once; an account never waits for nothing |
| accounts and sessions | `bff/routers/auth.py`, `onboarding.py`, `common/auth.py`, `scripts/` | `auth_otps`, `users`, `accounts`, `wa_routes`, token versions | OTP, sign-up, refresh, logout, erase, connect a number, provision | a user has one account, an erased one's is closed; a number stays with its tenant |
| resilience | `common/ratelimit.py`, `common/http_retry.py` | counters, breaker state | count, retry, trip | a repeated request does no harm |
| the rest | agents, providers, memory, guardrail patterns, partner, reports, money | profiles, memory, templates | single-transaction updates, calls of models | see section 7 |

How they interact. The webhook hands events to the closer queue; the orchestrator writes its
reply into the outbox in the transaction that applies the message; the runner delivers it. The
pipeline's phases (`ONBOARDING`, `RESEARCHED`, `CREATIVE_GENERATED`, `PENDING_APPROVAL`,
`APPROVED`, `LIVE`, `OPTIMIZING`, `FATIGUE_REFRESH`, `PAUSED`, ...) are moved by the API, by
cron every ten minutes and by tasks, any of which may run side by side on the same account.
Billing and admin call `set_live_state`, as the owner's pause does.

The hard behaviours are listed as hazards in `PROJECT.json`, each at the line where it bites and
with the properties that cover it, or a note why none does.

## 2. The modules

| module | what it is | code |
|---|---|---|
| `EffectLedger` | what the outbox promises, without its mechanism | docstring of `core/outbox.py` |
| `Outbox` | outbox, drain loop, send handler, reaper, retention | as above |
| `MCOutbox` | finite instances | |
| `OutboxProofs` | proofs about `Outbox` | |
| `Launch`, `LaunchProofs` | `launch_campaigns`, its concurrent callers, Meta; proofs | `saathi/pipeline.py:372-551` |
| `Intake` | webhook, closer task, orchestrator, owner, cron | as above |
| `LiveState` | pauses, resumes, payments, trial sweep, optimizer runs, Meta | `saathi/pipeline.py:283-328`, `574-815` and their callers |
| `MCLiveState`, `LiveStateProofs` | finite instances, proofs | |
| `Approvals`, `ApprovalsProofs` | from the research to the launch: batches, owner, veto cron, autopilot; proofs | `saathi/pipeline.py:95-281`, `bff/routers/agents.py`, `worker/tasks/maintenance.py:81-265` |
| `Budgets`, `BudgetsProofs` | who decides what Meta may spend a day; proofs | `saathi/pipeline.py:553-920`, `saathi/guardrails/spend.py`, `bff/routers/settings.py`, `onboarding.py:75-106` |
| `FormLeads` | Instant Forms: webhook, poll, the text to the owner | `webhook/app.py:157-211`, `core/webhooks.py:78-111`, `worker/tasks/` |
| `IntakeProofs` | proofs about the two ways a lead comes in, `Intake` and `FormLeads` | |
| `Billing` | mandates, Razorpay's events, invoices | `bff/routers/billing.py`, `core/webhooks.py:28-75`, `webhook/app.py:215-260` |
| `MCBilling`, `BillingProofs` | finite instance, proofs | |
| `Accounts`, `MCAccounts`, `AccountsProofs` | sign-up, tokens, erasure, late writes of a phase, numbers, a partner's clients, scripts; finite instance; proofs | `bff/routers/auth.py`, `onboarding.py`, `partner.py`, `scripts/` |

The grain is the same in all of them: a step is one committed transaction, one query whose
answer is used later, or one call of an outside service; what the code does between two such
points is one step. Operators named `X_Something` just before an operator `X`, with a comment that begins
"Mutant", are bugs that `X` could plausibly have had: replacing `X` by one of them must break a
property. They are used nowhere else.

### Outbox

A row of `outbox` is a `Step` (its unique key is `(account_id, step_id)`), a row of `messages` a
`Message`. `EnqueueSend` inserts the message always and the row only if its key is free
(`ON CONFLICT DO NOTHING`). `Claim(w)` takes any set of due rows up to the batch size: `FOR UPDATE
SKIP LOCKED` makes the order irrelevant. The entries are copies, so each worker has a `snap` of
the attempts it read. The handler is four kinds of step: `Begin` (the SENT check), the provider's call with
its three outcomes (accepted, refused, accepted but the answer lost), `CommitSent` or
`CommitFails`; then the runner's `MarkDone` or `MarkRetry`, each in a transaction of its own and
each writing whatever the row's status is now, as the code does. `GoesStale` is the passing of the
reaper's ten minutes: for a row nobody holds at any time, for one whose worker is only slow at most
`MaxOverlaps` times. `Purge` deletes settled rows and waits until no worker holds them: a task is
killed after an hour, rows are kept a week.

`messages.status` is three-valued (ABSENT, QUEUED, SENT): the statuses that Meta's callbacks add
afterwards play no part in delivery. `drain_until_empty` is `Claim` again. `snap` and `job` are
reset when a worker puts a row down; that is canonicalisation, the code has no such variable.

### Launch

One account at phase APPROVED with any number of callers (the endpoint, the task it queues,
`progress_accounts`). Each caller's local variables are variables of the model: what it read
(`trustRead`, `target`, `missing`, `listed`) and what it has not committed (`made`). Meta keeps
`campaigns`, `adsets` and `ads`, and which of the first two are on; ours are `rowStatus`, `rowMeta`,
`adsetRows`, `phase`, `trust`. The claim of the row is a transaction of its own, as in the code;
everything else commits at the end. `Fail` at any step loses the caller's transaction and keeps
Meta's state. `find_campaign_by_name` is exact about what it finds (any campaign of the name, on or
off). `RepeatCreate` is `request_with_retry` posting a creation again whose answer was lost: the
campaign, ad set or ad then exists twice, and the code goes on with the second. Ads are created
PAUSED and stay so (see section 8), so being on is said of campaigns and ad sets only; one creative
stands for all. Left out: targeting, the plan's contents; the exit for an account without approved
creatives is in `Approvals`.

### Intake

The messages of one customer of one account; different phones share nothing. A lead and a chat are
named after the message that created them; `Known` is one that existed before, or an Instant Form's.
`handle_inbound` is four steps: `Read` (the SELECTs, and the transaction's start, which is the
`created_at` of a lead it inserts: `elders` holds, for each lead, the ones whose transaction began
before its own, and the latest lead is the one to which all the others are elders), `Flush` (the INSERT and the UPDATE that take the chat's
row lock), `Answer` (the model's reply, and `_ensure_booking`'s SELECT), `Commit` (one of three ways
to end: degraded, blocked, replied). The ORM writes only attributes that changed, so what a task
writes is a record with a `KEEP` value: a task that did not change a field does not overwrite it.
Statuses are two-valued (`OVER` is `_TERMINAL`), states too (`HANDOFF` or one of Saathi's), since
the properties tell no others apart. The task's failures are `TaskFails` (an exception: retried,
then dropped), `WorkerDies` (the worker with its task unacknowledged: redelivered, as tasks are
acknowledged late) and `ChildDies` (only the child process that runs the task, killed or at its hard time
limit: the worker then acknowledges the task, as `task_reject_on_worker_lost` is not set, and the
message is lost). `HookFails`
is the webhook dying, or the broker refusing, between the committed event and the enqueue.
The owner's requests (writing, a status, a booking or its cancellation, a lead entered by hand), a
form that becomes a lead and the cron job are single transactions and single steps, limited by `MaxOutside`.
Left out: texts, captured fields, scores, junk counting, `re_engage`, message status callbacks, and
routing of phones to accounts.

### LiveState

One launched account with its campaign and subscription. A session of a caller (`at`) loads the
account, the campaign and, for a payment, the subscription in one step (`saw`); each call of the Graph API
is a step that Meta obeys at once; the commit writes the attributes whose new value (`new`)
differs from the loaded one, as the ORM does (`core/db.py:44`), so that sessions which overlap mix
their results column by column. `Fail` before the commit loses the rows and keeps what Meta was told.
`OwnerPause`, `AdminPause` and `TrialPause` differ in their guard and in the reason they give; they
share `PauseCampaign`. `OwnerResume` and `Pay` share `ResumeCampaign` and `ResumeAdSet`; the payment
looks at the reason first. `Charged` (Razorpay) and `MarkPaid` (the admin) do the same to this
state. `Optimize` reads the active ad sets, `Restart` is the recovery of an
account without any, `Judge` decides on the fresh insights, `PauseAdSet` tells Meta. What the rules
compute is free: any set of ad sets may be killed, and the emergency stop may come at any run.
The daily sweep is two transactions: `SweepSelect`, `SweepCommit` (our rows, in SQL) and then
`TrialPause` (Meta, a session that may fail and is not tried again).

`stop` and `disturbed` are history. `stop` is "yes" from the moment Meta has obeyed an owner's pause
of a running account until a resume is asked for, and "relabelled" once our rows give `trial` as the
reason of the pause. A pause that reaches Meta while some resume is already under way is not counted:
which of the two wins is a matter of luck in the code. `disturbed` says that calls have overlapped or
failed. Left out: `FATIGUE_REFRESH`, a phase no code sets; `CHURNED`; accounts without a campaign. Budgets
are in `Budgets`, invoices in `Billing`.

### Approvals

One account from its research on. A `job` is a session of `run_research`, `run_creative`, the launch, a
decision of the owner (`decide`) or the veto cron (`auto`); it is a record of what the session has
read, and of whether cron or the owner began it. `Progress` is `progress_accounts`, which begins what
`PhaseCallsFor` the phase; `RunByHand` is the owner's button, which asks no such thing. `Load` reads
and may then talk to a model for minutes; the `Commit…` actions write what the code writes, the phase
only if it differs from what was read (`Written`), as the session flushes late. The veto cron takes
three transactions (`SelectOverdue`, `ClaimBatch`, `ReadBatch` with `CommitPromotion`), and `Crash`
may fall between any two. `Fail` is an exception: the jobs of cron then write to the anomaly queue,
which is `reported`. A tap on one ad (`Tap`), the autopilot's settings and a connection are single
transactions. `says`, `ruled`, `claimed` and `crossed` are history: the owner's last word on an ad,
her verdicts on a batch, whether cron was first, and whether a promotion that had read an ad as a
draft was still open when she rejected it. Left out: texts, images and notifications; the campaign
itself is in `Launch`.

### Budgets

One launched account with at most three ad sets, one per tier, as `BudgetTiers` folds the daily
budget into what Meta accepts: with a minimum of 7, 30 is one tier and 50 is three. A `run` is one session of
`run_optimization` or `reconcile_budgets`: `StartRun` (or `RecoverAndRun`, when none is on) loads, then
each ad set is kept, killed, scaled or refreshed in any order, as the numbers that the rules judge are a
free choice; `EmergencyStop`, `Reallocate` of the freed budget, the sweep of rejected ads and the
commit follow. `ClampScale` and `CapToAccountBudget` are the integer arithmetic of the code, in small units.
The owner has two ways to set her budget. The settings (`SetDaily`) write it, at least ₹100, and while
the account runs the same session computes the shares anew and tells Meta (`StartReconcile`,
`PushBudget`, `CommitReconcile`). Onboarding's form (`SetBusiness`) writes it in any phase, whatever the
amount, and tells nobody; 0 there switches the cap off, a branch of `CapToAccountBudget`. `Pause` and
`Resume` are one step each here, taken apart in `LiveState`. `stale` is history: the ad sets that run on
with a budget from before the owner's last choice, because it came by the form or while they were paused.

### FormLeads

Forms, each an id at Meta. `Deliver`, `Fetch`, `Capture`, `Insert` and `Alert` are the webhook's thread
(its event is committed first); `StartPoll`, `PollForm`, `PollInsert` and `PollAlert` the cron job, which
captures in the same way: the SELECT for a lead of that form is a step, the INSERT another, and the
unique index decides. Meta delivers until it gets its 200, whoever fails; `LeadSmsCrash` is a worker
that dies after the text and before the acknowledgement. `Disconnect`, `TokenDies` and `Reconnect`
are the page's connection; `inError` is the error that a failed poll writes there. The module shares no
name with `Intake` (hence `FormInit`, `FormNext`, `FormTypeOK`), since one module proves about both.

### Billing

One account. `Subscribe` reads the row and creates a mandate at Razorpay, `CommitSubscribe` writes
its id; two calls may be between the two. Razorpay's side is `log`, the events it has sent
(`Report`), in the order in which they happened, and `month`; `Deliver`, `LoadEvent` and
`CommitEvent` handle them in any order and several at a time. An event that is recorded and then
fails (`FailEvent`) is lost, as the redelivery is a duplicate. `applied` counts its commits.
`gst_paise` and `with_gst` are the code's integers. The trial's end and payments by hand are single
transactions but for the sweep's selection. Amounts are the tier's price; the wallet and the invoice
documents are left out.

### Accounts

A user, its tenant and the account of its own are identified by a phone; the tenant of a partner or an
admin may have client accounts beside it (`CreateClient`), which a token of `open_sub_account` opens
(`Scope`). `SendCode` writes a code; a verification is
`ReadCode`, `ConsumeCode`, `LookUpUser`, `SignUpUser`, `SignUpAccount`, each a transaction or a query
whose answer is used later. Erasure, provisioning and the connection of a number are two transactions
each. `route` is the account that a number's messages go to: `LookUpRoute` leads a number of the same
tenant to the account of the token, and refuses one of another tenant; `InsertRoute` meets the unique
index. A request or a job that writes the phase (`writing`) reads the account in one step, `AskBusiness`
with `ReadBusiness` for onboarding and `StartWork` for research, the ads, the launch and the
optimizer, and writes it in another, `CommitPhase`, over whatever has been written in between, as the
session flushes at its commit (`core/db.py:44`). `PauseAny` is the trial sweep or an admin. `closed` is
`accounts.deleted_at`; `overtaken` is history: a closed account whose phase has been written since.
Logout and the erasure raise the token version, after which the access tokens of that phone
are worth nothing (`loggedIn`); a refresh token of a user that still exists goes on working
(`refreshable`). The scripts of the team are actions (`MintLogin`, `ProvisionUser`,
`ProvisionAccount`, `CreateAdmin`). `halfDone` is history: a call died between its transactions. What
becomes of a client's account after its creation is left out, but for the number led to it.

## 3. The runs

| run | instance | result |
|---|---|---|
| `outbox_exclusive` | 2 rows, 2 messages, 2 workers, batches of 2, 2 attempts, 1 crash, no overlap; fairness | all hold, and the outbox implements `EffectLedger` |
| `outbox_overlap` | the same, one overlap, one row without a handler; fairness | DONE still means SENT, every row settles |
| `launch` | 2 callers, 2 tiers, 3 campaign ids, 1 failure; fairness; deadlock checked | all hold, and it goes live |
| `intake` | 2 messages, 1 retry, 2 failures, 1 outside step; fairness | all hold; a queued message is processed, dropped or lost with its child |
| `intake_lost` | 1 message, 3 retries, 1 failure; fairness | **violated**: a recorded message is never handled |
| `live_state` | 2 sessions, 2 ad sets, 3 calls, 1 failure; symmetry | all hold |
| `live_owners_pause` | 1 session, 3 calls, no failure | **violated**: a payment ends the owner's pause |
| `approvals` | 2 jobs, 2 batches of 1 ad, given up after 2 (3 in the code), 1 thing by hand, 1 failure; from RESEARCHED, assisted; fairness | all hold |
| `budgets` | 1 session at a time, budgets 30 and 50 by the settings and 0 and 20 by the form, a minimum of 7, 2 optimizer runs, 2 things by hand, 1 failure | all hold |
| `billing` | 2 tiers, 2 calls of subscribe, 2 mandates, 3 events, 2 months, 1 failure; symmetry | all hold |
| `form_leads` | 2 forms, 2 failures; fairness | all hold, every form becomes a lead |
| `accounts` | 2 phones, 1 code, 2 logins, 1 number, 1 client, 1 admin, 1 session that writes a phase, 1 failure; symmetry | all hold |

What the properties say (a `TypeOK` of each module aside):

* `ExclusiveClaim`: while no batch outlives the reaper's cutoff, a row is in one worker's hands.
  `RepeatsAreLosses`: the provider gets a message again only after an acceptance nobody could record.
  `DeadMeansParked`: a row is in the dead-letter queue once, exactly when it is DEAD.
  `RetriesAreCounted` (an action property): a live row's attempts never go down, although they are
  written from a value read at the claim. `DoneMeansSent`: even when the reaper gives a live
  worker's row away, DONE implies SENT. `EveryEffectSettles`: every row is delivered or parked.
* `ImplementsLedger`: the refinement. The mapping calls an effect carried once its message is SENT,
  and owed, settled or parked by its status.
* `OrphanNeverSpends`: only the claimed campaign is ever switched on, also when Meta has made a
  campaign twice. `LiveIsComplete`: an ad set is on only with its ad, a campaign only with all its
  tiers built and on, and a row is ACTIVE only for such a one. `TrustEarnedOnce`: racing callers earn
  one point of trust, because they write a value they read. `NoDuplicates`, `EventuallyLive`: a retried launch
  is completed and stacks nothing, unless calls overlap or Meta's answer to a creation is lost.
* `AppliedOnce`: one IN row and at most one reply per message, whatever is retried.
  `ProcessedIsAnswered`: no event is marked processed before the customer has an answer or the
  owner a notice. `ClosersBookOnce`: tasks side by side propose one booking per chat of a lead,
  which rests on the row lock that the flush takes, not on the SELECT. `QueuedIsSettled`: a queued message is
  processed, dropped after its retries, or lost with a child process that was killed under it; nothing
  leaves it waiting for ever.
* `StopIsObeyed`: once Meta has obeyed the owner's pause, nothing but the owner's resume switches the
  campaign on: not a payment, not the optimizer's recovery, not the admin, in any order and with
  sessions that fail half-way. It rests on the payment looking at the reason before it resumes, and on
  the recovery touching ad sets only. `RowsMatchMeta`: without overlaps and failures, our rows and Meta agree
  about the campaign and every ad set whenever nobody is at work. `PaidRuns`: in the same
  circumstances a client who has paid is not left in a trial pause.
* `VetoHolds`: an ad the owner has rejected stays rejected through every later approval of its
  batch, by her or by cron. `LaunchedWasCleared`: what is launched is compliant and was cleared, by
  a tap, a verdict, a window's silence or full autopilot. `OwnersCallStands`: a batch she has turned
  down before cron claimed it has no approved ad but those she tapped. `AutopilotMovesOn`
  (liveness): under assisted autopilot an account that its owner never touches goes live or is
  reported; it names the accounts that do wait, one whose process died between two commits and one
  with Meta but without WhatsApp.
* `WithinBudget`: hourly scaling, reallocation, recovery and the owner's changes, in any order,
  keep the sum of what Meta may spend within the daily budget, as long as no `stale` ad set is on: one
  that Meta was not told of her last choice. It excludes sessions that overlap or fail, and ad sets at
  Meta's minimum. `OneRefreshADay`: two refreshed ads in 24 hours at most, where the second is one
  run's that does not see its own unflushed decision; runs that overlap or fail are excluded here,
  too, since neither of two sees the other's decision and a failed one leaves none.
* `PaidIsInvoiced`: a paid period has an invoice, in whatever order activation and charge arrive, and one
  only unless two sessions run side by side. `StatusFollowsMandate`: when all events have been
  handled in order, the subscription says what the last event of its own mandate says.
* `OneLeadPerForm`: one lead, one notification, and one text unless a worker died before its
  acknowledgement, though webhook and poll meet. `FormsBecomeLeads` (liveness): whatever the webhook
  loses, the poll brings, as long as it reaches Meta within seven days.
* `AccountMatchesUser`: a user has an open account and an erased one's is closed, whoever races to sign
  up, provision or erase, unless a process died in between. An erased one's phase is CHURNED unless a
  session has written it after the erasure, which the code does not prevent (section 8); its
  `deleted_at` stays. `NumbersStay` (an action property): a number that is registered never leaves
  the tenant that registered it, whoever else had found it free; among a partner's accounts it may
  change hands.

### What the violations show

* `intake_lost`. `webhook/app.py:107` says that what was accepted is durably recorded, hence the
  constant 200. It is recorded, but if the enqueue fails nothing looks for the event again:
  the redelivery is dropped as a duplicate, and no job scans unprocessed events, although the
  migration `src/alembic/versions/0006_indexes_retention.py:4-5` indexes for such a scan.
* `live_owners_pause`. `maintenance.py:473-474` says that an owner's own pause is never confused with
  a trial pause. The UPDATE there does leave a paused account alone, but the second phase of the sweep calls
  `set_live_state` for every expired trial, paused or not, and that overwrites `pause_reason` with
  `trial`. When the client pays, `apply_razorpay_event` finds a trial pause and switches the
  campaign back on, against the owner's stop. No overlap and no failure is needed.

### Why the bounds are enough

Two workers, callers, jobs or messages are what every race here needs: each of them is between one
step's read and another's write. Two rows in batches of two let a worker die with one row in hand and one
still to do. Two attempts separate a retry from the last failure. One crash and one overlap give
one row two owners in turn; the proofs cover any number. Three campaign ids are one for each of two
callers and one for a creation that is repeated. In `Intake`, two failures put one in the first attempt
and one in the retry; one outside step between two messages is the takeover, the booking or the form
that a task has not seen. In `LiveState` two sessions overlap in every way, since a third could only
add a read before and a write after; three calls are a pause, a payment and an optimizer's run, to
which the sweep adds its own; two ad sets let an emergency stop or a resume die with one done and one to do.
In `Approvals` two batches are a rejected one and the one regenerated from it, after which cron gives
up; one ad per batch is enough for properties that speak of one ad. It starts from RESEARCHED, as
ONBOARDING adds a single step before it. In `Budgets` the amounts are chosen so that a share falls
below the minimum and is folded away (30), three tiers are launched with TESTING at the
minimum (50), a rise of 20% rounds down and the cap cuts in; two runs and two
things by hand are a kill, a pause, a resume and a run that recovers. One session at a time is
enough there, as both properties leave overlaps out; the type invariant is proved for any number. In
`Accounts` one session on its way to write a phase is what an erasure can be overtaken by, one client is
a second account of a tenant, and one code suffices because an admin, or the provisioning, brings
the second phone in. In `Billing` two mandates are
the old and the new one, three events an activation, a charge and a cancellation in any order. Two
forms, phones and codes can be mixed up; two failures strike webhook and poll of the same form. The
counters (`dlq`, `accepted`, `applied`, `trust`, `notices`, ...) are naturals bounded by the budgets, not
by a state constraint.

Symmetry is used only in runs without liveness (`live_state`, `billing`, `accounts`). Deadlock is
checked in `Launch`, whose callers never stop; a system whose messages are all handled and whose budgets
are used up does stop, so the other configurations switch it off.

### Fairness

`Outbox`: weak; beat runs the drain every 5 s and the reaper every 60 s
(`worker/celery_app.py:57-66`), a worker that does not die goes on, and time passes; none is
assumed of crashes, of the provider's goodwill or of the purge. `WF(WorkerStep(w))` is over the
disjunction, so the provider may refuse every time: the attempts' limit, not luck, is what settles a
row. `Launch`: weak; `progress_accounts` calls again every ten minutes until the account is LIVE.
`Intake`: weak; a webhook thread that does not fail enqueues, the broker delivers what it holds, and
a worker that does not fail goes on. `FormLeads`: weak; Meta delivers until it is answered, and the
poll runs every ten minutes. `Approvals`: weak for the jobs under way and for time; strong for the
two crons' selections, which run every ten minutes and every hour and take every account they find,
while a job of the owner may make the account unselectable again and again. Failures are unfair and
bounded; the owner owes nothing. `LiveState`, `Budgets`, `Billing` and `Accounts` state no liveness:
the code promises no second attempt of anything in them.

## 4. What is proved

For any set of steps, messages, callers, tiers, forms, phones and so on, and any value of the bounds.
Except where it says otherwise, `Spec` is all that is assumed: sessions overlap, fail and die.

**`OutboxProofs`**, with any number of overlaps: `TypeCorrectness`, `DoneMeansSentHolds`. The
invariant `BaseInv` adds to the two `StageInv` (where a worker stands and what it
holds agree), `HeldInv` (a held row exists, and its claim found it below the limit), `RowInv` (a
row names an inserted message) and `ReturnedInv` (the handler has returned only with
SENT). The last is the reason `DoneMeansSent` survives two owners of a row: SENT is never taken
back, so an out-of-date `mark_done` is early for the row but not for the message. `HeldInv`'s
bound on `snap` is the reason attempts never pass the limit.

Assuming `MaxOverlaps = 0` (no batch outlives the reaper's ten minutes): `ExclusiveClaimHolds`,
`RepeatsAreLossesHolds`, `DeadMeansParkedHolds`, `RetriesAreAlwaysCounted` and
`OutboxRefinesLedger`. `OwnedInv` strengthens `BaseInv` by `OwnInv` (a held row is IN_PROGRESS, not
stale and held once, and its `snap` is the row's count), `PathInv` (a message is named by one row),
`SendInv` (a worker that is sending holds a message that is not yet SENT) and `AccountInv`
(acceptances are losses, plus one if recorded or on the way to being recorded). `OwnInv` makes the write of
`mark_retry`, which counts from what the claim read, one more than the row's count. The refinement has one lemma
per action that `EffectLedger` can see (a row enqueued, the commit of SENT, done, parked, purged), each
showing which step of the ledger it is; all others stutter. It is the safety part of `ImplementsLedger`.

**`LaunchProofs`**: `OrphanNeverSpendsHolds`, `LiveIsCompleteHolds`, `TrustEarnedOnceHolds`.
`LaunchInv` says in addition: a caller past the claim works on the campaign the row names
(`OneTarget`), and so is the ad set in its hands (`InHandIsOurs`); an ad set has its ad before it is
switched on (`AdFirst`); whatever a caller has placed and put down is on (`PlacedIsOn`), and what is
missing from its list has a row or is in its hands (`PlacedHasRow`); a caller about to commit has
seen its campaign switched on with every tier (`CommitIsComplete`); and the trust a caller read is 0
until some caller has committed (`TrustIsFresh`), from which one write or several give 1.

`LaunchTypeCorrect` needs `MetaInv` (what is on, listed or named by a row exists).
`RetriesStackNothing` needs `QuietInv`, which says of undisturbed calls what the code's
look-before-create must have seen: at `create` Meta has no campaign (`OneCampaign`); an ad set
that the list read before the loop has not got is of a tier placed since (`OneAdset`); at `ad` the ad
set has none (`OneAd`); what is missing or about to be added has no row (`OneRow`). A call that fails leaves
things behind, but never a list that is still believed: that is `Alone`. Cardinalities are
hidden in `AtMostOne` and `NewAdsetIs`; the invariants say that two elements are the same.

**`IntakeProofs`**: `AppliedOnceHolds`, `ProcessedIsAnsweredHolds`. `AnswerInv` adds `StageApplies`
(a task has applied its message exactly when it is past its commit, so the check made before the
transaction still holds at the commit: only the task of a message applies it),
`AppliedIsAnswered` and `MarkedIsApplied`. `IntakeTypeCorrect`, `CloserBooksOnce`: `IntakeInv` adds that a
task has its event (`AcceptInv`); that a transaction works on a chat of its lead or on a new one nobody
else sees, and a chat never changes its lead (`ChatInv`); that the chat's row is locked from the flush to
the commit (`LockInv`); and, the heart of it, that while a task is about to insert a booking every booking of
that lead is another chat's (`ProposeInv`). A commit of another task keeps the last, because two
tasks past their flush are in different chats.

**`LiveStateProofs`**: `LiveTypeCorrectness` (it contains that a resume always leads to a running phase,
whatever two pauses have made of `phase_before_pause`, lemma `ResumedRuns`) and
`StopIsObeyedHolds`. `StopInv` says of a stop in force: the campaign is off; our rows do not call it a
trial pause, so no payment can begin to resume; and no session is about to switch the campaign on. The
last is why the history variable ignores a pause that meets a resume under way.
`RowsAlwaysMatchMeta` and `WhoPaysRuns` rest on `SoloInv`, for undisturbed sessions: one at a time
(`Lone`); what a session will commit is what it has told Meta so far (`MatchInv`); what it has read
is still so, and nothing pays for an account in a trial pause but the session that will end it
(`PaidInv`). The last covers the sweep, which selects and pauses in two steps.

**`ApprovalsProofs`**: `ApprovalsTypeCorrect`, `VetoAlwaysHolds`, `LaunchedWasAlwaysCleared`,
`OwnersCallAlwaysStands`. The properties speak of rows, but what breaks them would be a session that read
drafts before the owner spoke and writes after. So `ApprovalsInv` says it of the sessions: none that is to
promote has read an ad as a draft that its owner rejected before, unless their sessions
crossed (`VetoInv`); what one is to promote is compliant, of its batch, and, for a cron, overdue and
claimed; what one is to launch was cleared when it read it, and clearing is never taken back (`JobInv`);
an approved ad was tapped, ruled on, claimed by the cron or asked nobody (`ApprovedInv`).

**`BillingProofs`**: `PaidIsInvoicedHolds`, `GstRoundsHalfUp`. `BillingInv` adds that only what
Razorpay has sent is handled (`SentInv`) and, the heart of it, what a session that has loaded but
not committed may still rely on (`SawInv`): an invoice it has seen stays, since no code deletes
one, and one it has missed is still missing unless another session has committed meanwhile. The
second theorem is about `gst_paise`: for every amount it is within half a paisa of 18%, and rounds
up at exactly half. `BillingTypeCorrect`, `StatusFollowsLastEvent`: `RowInv` adds that the mandate of a call
that has not committed is nobody else's and unknown to Razorpay's reports (`FreshInv`), and,
while nothing fails, overlaps or overtakes, that events are done in their order (`InOrder`), that what a
session has read is what it will overwrite (`ReadIsCurrent`), and that the last event done of the row's
own mandate is what the row says (`SaysLast`). `FreshInv` is why a new mandate, which starts with no
events, cannot make an old event the last of its own. That a last event exists is the least-element theorem of
the library, applied to the events from the back.

**`AccountsProofs`**: `AccountsTypeCorrect`, `AccountAlwaysMatchesUser` and the action property
`NumbersNeverMove`. `AccountsInv` adds: at most one call is to create the account of a phone, and it has a
user but no account yet (`CreatorInv`, what the unique index on the phone gives to racing sign-ups); an
owner without an account waits for that call, an erased one whose account is open for the second
half of the erasure, unless a process died between the two (`OwnerInv`); only `create_admin` brings
an erased user back, with another role (`ErasingInv`); and what is closed is CHURNED or was overtaken, an
owner's is closed only with its user, and only an account has a phase that a session may write
(`PhaseInv`). `NumbersNeverMove` needs of it only that a connection under way has an account of its own
tenant in hand: the look-up before may be out of date, and the unique index decides.

**`IntakeProofs`**, about `FormLeads`: `FormsTypeCorrect`, `FormsBecomeOneLead`. `FormInv` adds that a notification
and a lead come together (`NoticeInv`) and that of webhook, poll and queue one at most still
owes the text, only for a lead, and only while every text sent so far was a dying worker's (`TextInv`).

**`BudgetsProofs`**: `BudgetsTypeCorrect`, `SpendingStaysWithinBudget`, `RefreshesAreRare`, and two
theorems about the integer arithmetic they rest on. `BudgetTiersFit`: a launch shares out no more than
the daily budget. `CapLeavesRoom`: the cap never cuts, and whatever it raises leaves all that
are on within the budget, unless that is 0, when it raises as proposed. `BudgetsInv` adds that a session holds amounts of the launched ad sets only,
at least the minimum for each (`SessionInv`), and, for undisturbed sessions (`SoloInv`): one is open at a time
(`Alone`); the rows it has read are still so, and what it will commit is what it has told Meta so far
(`MatchInv`), so that the cap, which looks at the session's own amounts, speaks of Meta's; an owner's new
budget is pushed in shares of what was read (`PushInv`); the ad sets that are on and not stale spend no
more than the daily budget together, and none that could come back on spends more alone
(`SpendInv`), which is what a recovery needs; and a second refresh means that the first has been
asked for by the same run (`FreshInv`). `SpendInv` is suspended while shares are pushed, when some ad sets have
the new budget and some the old; at the commit the shares, each rounded down, sum to the new one at
most (`SharesFit`); and a budget of 0, which lifts the cap, has left every launched ad set stale, until the
settings share out another. `BudgetsAssumption` asks of the budgets that a launch or the settings
accept to be the minimum at least, and, where the minimum is no multiple of 20 paise, two more
(section 8); `settings.py:58` asks for ₹100, and the minimum is ₹90. Of those that onboarding's form
takes it asks nothing.

Each action has a lemma, with a step for each conjunct of the invariant it may disturb. TLC
checked the inductive invariants on the runs' instances before they were proved.

Assumptions: those of the modules (`StepAssumption`, `MessageAssumption`, `BoundAssumption`,
`LaunchAssumption`, `IntakeAssumption`, `LiveAssumption`, `ApprovalsAssumption`,
`BillingAssumption`, `AccountsAssumption`, `FormLeadsAssumption`, `BudgetsAssumption`: distinct null
values, bounds are naturals, starting values are legal) and, where said, `MaxOverlaps = 0`.

## 5. What is only model-checked

* Liveness, which needs ENABLED: `EveryEffectSettles`, `EventuallyLive`, `QueuedIsSettled`,
  `AutopilotMovesOn`, `FormsBecomeLeads`, and of `ImplementsLedger` the fairness part.
* The two runs that expect a violation, whose counterexamples are TLC's.

Every other property of the runs is a theorem.

## 6. Plan

1. The composition of `Launch` with `LiveState`: a launch commits LIVE over a pause committed while
   it was building (`pipeline.py:538`).
2. The wallet, and `re_engage`.

## 7. What is not modelled, and why

The agents and their language and image models are inputs (a reply, a failure): what they
say is out of a model checker's reach, as are the patterns of the content guardrails. Row-level
security and tenancy belong to the database. The evening report is best effort by design. Of a partner's
tenant, the creation and the opening of client accounts are in `Accounts`; its figures only read, and the
clients' own course is that of any account. `refresh_stale_research` changes a profile and no phase, and the rollup
of insights only feeds the rules whose verdicts are free choices here. `core/idempotency.py`, the
circuit breaker of `common/http_retry.py` and the transition table of `saathi/phases.py` are called
by nothing. Rate limits only refuse requests. Configuration, logging, wording and the front end have
no behaviour over time that matters here.

## 8. Observed while modelling

What the code does that a reader may not expect, and that no run states as a property, because
nothing in the repository promises otherwise or because one line shows it.

* Ads. `create_ad` makes an ad PAUSED by default (`integrations/meta/cloud.py:189`); neither the launch nor a
  rotation says otherwise, and nothing switches an ad on later, while `docs/MANUAL_ONBOARDING.md:65` says
  that they go live. Two launches side by side that both list the ad sets before either has made one
  build a tier twice, and switch both on (`pipeline.py:455` says "never a dup").
* Sending. A redelivery after a lost answer sends again, which `effects.py:1-2` denies; `RepeatsAreLosses`
  is what does hold. The HOT-lead alert is enqueued before the commit it speaks of (`orchestrator.py:232`).
* Lost messages. A closer's task whose child process is killed, out of memory or at `task_time_limit`, is
  acknowledged by Celery and never runs again: `task_acks_late` without `task_reject_on_worker_lost`
  (`worker/celery_app.py:39-45`). The event stays unprocessed, and its redelivery is a duplicate.
* Leads. Saathi answers after the owner's takeover and takes the chat back (`leads.py:241`). A
  Closer's commit overwrites a status that the owner set meanwhile (`orchestrator.py:324`), and her
  booking can stand beside a Closer's (`bookings.py:80`). Her message and a Closer's commit update
  lead and chat in different orders, which the database may have to break as a deadlock
  (`leads.py:240`). A form stored without details is never filled in by the poll
  (`webhook/app.py:159-160`). `processed_at` is never loaded, so the task's check of it never stops
  a repetition (`core/routing.py:56`). Two overlapping runs of `re_engage` leave one template
  message QUEUED (`maintenance.py:391`). The reply window is 72 h in `orchestrator.py:55`, 24 h in
  the docs.
* Phases and money. Research or creatives asked for by hand put a later phase back (`pipeline.py:138`,
  `236`). A resume restores old budgets (`pipeline.py:318`, `settings.py:182`). Onboarding's form changes the
  daily budget of a LIVE account without a minimum and without telling its ad sets
  (`onboarding.py:38`, `105`), and a budget of 0 there switches off the cap on hourly raises
  (`pipeline.py:902`). The monthly cap is looked
  at only in `agents.py:198`. A launch with a daily budget of exactly Meta's minimum folds three rounded shares
  into one, which loses up to two paise and falls below the minimum, unless the minimum is a multiple of
  20 paise, as the default is (`pipeline.py:353-369`, `common/config.py:83`). The account's insights sum only the ad sets that are still ACTIVE
  (`pipeline.py:786`), and the partner's totals count each level again (`partner.py:89`, `156`). A
  change of tier leaves the old mandate charging (`billing.py:72`). Two top-ups of the wallet at
  once lose one (`billing.py:133`).
* Accounts. Deleting an account leaves its campaign on (`auth.py:217`), and its phone can never sign up
  again (`auth.py:129`). The phase CHURNED of an erased account is overwritten by whoever loaded the account
  before: `set_business` (`onboarding.py:93`), research (`pipeline.py:138`), an optimizer run
  (`pipeline.py:814`); and later by the trial sweep and an admin's pause, which do not look at
  `deleted_at` (`maintenance.py:498-502`, `admin.py:156`). With the token that opens a client's account, whose
  subject is the partner's own user, `delete_my_account` erases the partner and closes the client
  (`partner.py:140`, `auth.py:208-217`). `scripts/provision_client.py:104` passes silently over a number that
  another tenant holds.
