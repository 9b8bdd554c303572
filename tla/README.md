# Verification of histae-api

TLA+ models of histae-api, a NestJS API over PostgreSQL
(raw SQL), Redis, S3, Stripe, FCM and the SMS provider Sweego. The modules are
translated from the TypeScript and SQL under `src/`; TLC checks small instances
and TLAPS proves the central invariants for every value of the constants.

## 1. The system and its parts

Everything durable is in PostgreSQL. Request handlers are short transactions,
most of them under a row lock on the account (`user_account ... FOR UPDATE`),
an advisory lock on a phone, or a unique index. Whatever needs the network
happens outside transactions: it is either requested through the outbox and
retried, or bracketed by two transactions between which anything may happen.

| Part | State | Operations | What is hard |
| --- | --- | --- | --- |
| Outbox (`src/src/outbox`) | `outbox_event` | enqueue, requeue, claim, renew, complete, reschedule, retry and discard dead letters, purge | leases that lapse under a running handler, requeue during a run, crashes, statements that fail, attempts |
| Mobile sessions (`auth`, `mobile`) | `refresh_token_family`, `refresh_tokens`, `device_token` | login, refresh (rotation and replay detection), logout, revoke, register device, ban, erasure, purge | reads before the account lock, double use of one token, requests that outlive a ban |
| One-time codes (`auth/otp.*`, `sweego-*`) | `otp_verification` | send, receipt, outcome, webhook, consume, purge | webhooks before, after and against the answer of `/send`; supersession; retries |
| Account erasure (`privacy/erasure.*`, `database/account-activity`) | `deleted_at`, checkpoints, advisory session locks | request, deactivate, drain activity, delete in batches, anonymise | external writers in flight, lost session locks, restarts |
| Photos (`photos`, `moderation`, `admin-photo`) | `user_photo`, `photo_upload_request`, `content_moderation_case`, S3 objects | upload, process, activate, delete, clean up, review | crash between S3 and SQL, concurrent uploads, cleanup against slow uploads |
| Matches and swipes (`matches`, `discovery`) | `match_init`, `match_state`, `continuation_usage`, `swipe_decision`, `chat_message` | swipe, match, reveal, consent, expire, message, read, block, purge | mutual swipes, consent quota, deadlines, idempotent messages |
| Billing (`billing`) | `billing_customer`, `billing_checkout_session`, `user_subscription`, `stripe_webhook_event` | checkout, webhook, reconciliation, cancellation | duplicated and reordered webhooks next to snapshots, customer created twice |
| Notifications (`mobile/notification-*`) | `notification`, push attempts, `device_token` | create with its outbox event, push per device, forget dead tokens | retries of partly sent pushes |
| Administrators (`admin-auth`, `admin`) | WebAuthn credentials, challenges, sessions, audit | bootstrap, login, recovery, ban | single-use challenges, last passkey |
| Privacy (`privacy`, `operations/maintenance-*`) | data subject requests, consents, exports, retention, status of passes | open, process, export, purge | purges that meet live rows, passes of several processes, snapshots while rows change |
| Profiles, texts, traits, questions, plans, reports | profile, consents, answers, moderation cases | edit, consent, analyse, review | checks that are stale when the write happens, decisions about a text that changed |
| Lists and feed (`common/pagination`, `discovery`) | none | pages by cursor | rows that change between pages, precision of dates |
| Adapters (`redis`, `ratelimit`, `storage`, `config`, `operations`) | caches, counters, metrics | | no protocol of their own |

How they interact: producers (photos, erasure, notifications, billing) insert
outbox rows in their own transactions, and the worker calls their handlers;
sessions, devices, bans and erasure share the account lock; a consumed code
leads to a session; erasure deletes sessions by trigger. `PROJECT.json` lists
every part with what is and is not modelled, and the hazards at their lines.

## 2. Modules

| Module | Models |
| --- | --- |
| `Outbox` | table, producers, administrators, workers and their faults |
| `RefreshSessions` | sessions, tokens, devices, concurrent requests, bans, erasure, retention |
| `OtpDelivery` | deliveries, send, provider outcomes, webhooks, consumption |
| `PhotoLifecycle` | uploads, object store, moderation cases, the three ways a photo is removed |
| `AccountErasure` | requests, workflow row, erasure event, runs, activity locks; implements `ErasureContract` |
| `ErasureContract` | what an erasure promises, without its machinery |
| `BillingProjection` | a subscription at Stripe and in the database: webhooks, snapshots, their dates |
| `CheckoutCustomer` | how an account gets and loses its Stripe customer: checkout, watchdog, erasure |
| `SwipeMatch` | two likes, the match they make, blocks |
| `MatchLifecycle` | windows, reveals, consents, quota, messages, maintenance |
| `DiscoveryFeed` | a walk through the feed while candidates change |
| `KeysetPaging` | the paginated lists and their cursors |
| `AdminAuth` | enrolment tokens, challenges, passkeys, sessions of an administrator |
| `ProfileConsents` | legal choices and the data that rests on them, positions and their sweep |
| `ContentModeration` | profile texts, their cases, administrators that decide |
| `DataExport` | slots, temporary files, snapshot, streaming |
| `NotificationPush` | notifications, one job per device, what makes a push still due |
| `RetentionMaintenance` | batches of the retention pass, its lock, the row about the latest pass |
| `Matching` | `MatchLifecycle`, and an instance of `SwipeMatch`, where its matches come from |
| `Billing` | `BillingProjection`, and an instance of `CheckoutCustomer`: the two halves of billing |
| `Administration` | `AdminAuth`, and instances of `ContentModeration` and `KeysetPaging`: what administrators do |
| `Services` | instances of `NotificationPush`, `ProfileConsents`, `RetentionMaintenance`, `DiscoveryFeed` and `DataExport` |
| `OutboxProofs` | theorems about `Outbox` and `NotificationPush` |
| `RefreshSessionsProofs` | theorems about `RefreshSessions`, `RetentionMaintenance`, `DiscoveryFeed` and `DataExport` |
| `OtpDeliveryProofs`, `PhotoLifecycleProofs` | theorems about the module of that name |
| `AccountErasureProofs` | theorems about `AccountErasure`, its refinement of `ErasureContract`, and `ProfileConsents` |
| `AdminAuthProofs` | theorems about `AdminAuth`, `ContentModeration` and `KeysetPaging` |
| `BillingProjectionProofs` | theorems about `BillingProjection` and `CheckoutCustomer` |
| `MatchLifecycleProofs` | theorems about `MatchLifecycle` and `SwipeMatch` |
| `MCOutbox`, `MCRefreshSessions`, `MCOtpDelivery`, `MCPhotoLifecycle`, `MCSwipeMatch` | constants, bounds and symmetry of one module |
| `MCAccountErasure` | `AccountErasure`, and an instance of `PhotoLifecycle` for its liveness |
| `MCBilling` | the parts of `Billing` |
| `MCMatch` | the parts of `Matching`, with `MatchLifecycle` twice (two matches and the quota; one match and its conversation) |
| `MCAdministration` | the parts of `Administration`, with `AdminAuth` twice (enrolment; passkeys) |
| `MCServices` | the parts of `Services`, and an instance of `MatchLifecycle` for its liveness |

The four modules that compose others name the constants and variables of each
part; the MC module and the proof modules extend them, so that the runs and the
theorems speak of the same instances and the same named properties.

An MC module that holds several parts runs one of them per behaviour: the
variable `part` is chosen in the initial state, and the variables of the other
parts keep one initial value. So one run asks several questions without the
product of their state spaces. The fairness of a part is stated in the MC module,
next to the actions it is about.

Operators whose comment begins with "Mutant:" are plausible bugs of the
definition that follows them. No specification uses them; with the definition
replaced by its mutant, the property named in `PROJECT.json` fails, which shows
that the property is about that piece of code. `PROJECT.json` names one mutant
for each property; where a property is a conjunction, each conjunct has a mutant
of its own (section 3).

How the modules meet. `Outbox` establishes that an event is handled at least once
and never forgotten; `PhotoLifecycle`, `AccountErasure`, `CheckoutCustomer` and
`NotificationPush` use their events as such a queue (a job may run again after a
failure, a crash or beside an older run) and show what their handlers make of
it. `AccountErasure` and `PhotoLifecycle` share the activity lock: the first has
any operation of the owner as an item that appears, the second the upload in all
its steps. `SwipeMatch` ends where `MatchLifecycle` begins: with the row of the
match. `RetentionMaintenance` has the machinery of the retention pass; what a
purge does to sessions, codes, consents and requests is in their modules.

### Outbox

One SQL statement or transaction is one step. `row[e]` is the row with unique
key `e`; instead of timestamps it says whether `available_at` has passed
(`due`), whether the lease is older than the lock timeout (`stale`) and whether
a resolved row is past its retention (`aged`). `run[h]` is the position of
`process(event)` in one `runOnce` of one worker: queued behind its group,
running its handler, acknowledging, or in the catch block. `poll[w]` are the
`runOnce` the process awaits, at most one in the code; runs of an earlier one
may survive it, because `Promise.all` rejects as soon as one `process()` does.

Handlers are kept by outcome: done, error, or (erasure only) deferred, with a
checkpoint that may be followed by an error. The model has the producers as
they write the row (`enqueue` is `ON CONFLICT DO NOTHING`, `requeue` resets,
`scheduleDue` reopens resolved rows only, `saveCustomer` withdraws a
reconciliation that is no longer needed), the administrator's retry and discard,
the batch order and the CHECK on `attempts`, which fails the whole batch.

Faults are `crash` (a process dies; its successor has a new `workerId`), `lapse`
(a lease of a live run lapses because its handler, or the group before it, takes
too long) and `write` (the reschedule statement throws, before or after
committing). Any other statement may throw at any time, before or after its
commit; this needs no bound because it leads to the catch block.

### RefreshSessions

A request is an unlocked read (the account found by `verifyOtp`, the family the
guard admits, the candidate token of `lockToken`) followed by one transaction
under the account lock; bans, erasures and purges interleave in between. All
refresh tokens have the same lifetime, so within a family they expire in the
order of issue; dates become that order. A token with a wrong secret is rejected
by the first read and has no action. `uses` counts, up to two, the rotations
that found the stored token; it exists for the properties only.

### OtpDelivery

Every write is one transaction under the advisory lock of the phone. The
deliveries are named by `attempt_number`. The call of the provider is the time a
delivery spends in `sending`; the answer may be a receipt, a rejection, an
unknown outcome, or never come (crash, failing statement). Webhooks need no
queue: any signed event about a stored delivery may be applied at any time and
any number of times, which covers delay, duplication and reordering, and events
that arrive before `/send` returns. `newest`, `consumed` and `refused` are
histories for the properties.

Assumed: `OTP_TTL` does not change while codes are live (codes of a phone expire
in the order they were asked for), and the purge job's clock agrees with the
database. The settlement deadline is read by one statement only, so whether it
has passed is a choice of that statement.

### PhotoLifecycle

Each transaction, each statement outside one and each request to the object
store is a step of an upload (`upload[p]`, one fresh id each) or of a remover
(`task[r]`: the `photo.delete` handler, the hourly cleanup, the erasure).
`store` is what S3 holds; a PUT lands at some time while it is awaited, or is
cut off by a crash. Faults are a crash, a failing store, an upload slower than the
30 minutes of the cleanup (`slow`) and the loss of the connection that holds the
activity lock (`lock`).

### AccountErasure and ErasureContract

A run of `ErasureService.process` is: claim, read, exclusive activity lock, read
again, work of the current step outside the database, checkpoint under the fence
on the lease. Two runs exist because a lease may lapse under a live run, in
another process or in the same one (`Process`), where `locked_by` cannot tell
them apart. `ErasureContract` has three variables and five actions: an account
is frozen once, what it owns then only disappears except for operations already
under way, and it is declared erased once, with nothing left. The mapping
(`Contract == INSTANCE ErasureContract WITH ...`) sends the state of the account
to `phase`, what still has a row or an object to `owned` and operations in
flight to `pending`; `ImplementsContract` is checked as a property.

### BillingProjection and CheckoutCustomer

The history at Stripe is a sequence of changes; each emits webhooks that arrive
in any order, repeatedly or never. Events are dated in whole seconds, snapshots
in ticks (`TicksPerSecond`), which is where their comparison is hard. A snapshot
takes its date before it asks Stripe and is applied only if the projection has
not changed meanwhile.

`CheckoutCustomer` keeps attempts by their `Idempotency-Key`. Stripe answers a
repeated POST of one key with the first customer until it forgets the key, 24
hours later at the earliest. Assumed, as docs/account-erasure.md does: no POST
that began inside the window of 23 hours is still on the network when Stripe
forgets its key (the guards of `TurnsLate` and `Forget`).

### SwipeMatch, MatchLifecycle, DiscoveryFeed, KeysetPaging

The transactions that insert a match and a block share no lock, so `SwipeMatch`
splits each into the statement that reads and the commit that publishes. In
`MatchLifecycle` every command waits for the row lock and reads the clock when
it has it; dates are ticks left, so time is not bounded, and a transaction or a
pass holds its own date for at most `MaxAge` ticks. `DiscoveryFeed` has one
request as batches of two queries each, with rows that move between them.
`KeysetPaging` states once what all lists share, with a record per list: whether
it has an offset, whether rows move, how its cursor is written (microseconds, or
a JavaScript date cut to milliseconds), and the two branches of the match query.
In the modules that read pages, `ORDER BY ... LIMIT` is the set of the rows that
have fewer than the limit before them (`Rank`, `Slice`, `Take`, `Page`), and a cursor is the
last of them (`LastOf`).

### AdminAuth, ProfileConsents, ContentModeration

A request is the series of its transactions; what the guard, the token check or
the screen of an administrator saw may be stale in the last one. The consents
have two processes on two versions of the legal documents, as during a rollout.
A case holds no text: a decision is about what the row holds, hence `seen`.

### DataExport, NotificationPush, RetentionMaintenance

An export takes a slot, writes a temporary file from one repeatable-read
snapshot page by page, and streams it; every step may fail, the removal of the
file included. A push is decided when it is attempted, not when it was queued:
`Deliverable` reads the phone, the session, the account and the source then. A
retention batch is one transaction under a lock that is only tried; the model
keeps the two shapes of its statements, which rows are past their date
(`expired`) and which date comes before which (`older`), and the row counts,
which are short when another transaction deletes a row a statement waits for.
Clocks of the processes are taken to agree.

## 3. Runs

| Run | Instance | Checks |
| --- | --- | --- |
| `outbox_core` | 2 workers, a photo deletion, a reconciliation and an erasure, 2 requests each, budget 2, batches of 2, groups of 1, 2 crashes or lapses | `NoLostRequest`, `DeadLetterEarned`, `PendingHasBudget`, `NoLeakedLease` |
| `outbox_live` | a photo deletion and a push, one worker whose `runOnce` may overlap, 2 faults of any kind | `EventuallySettled` |
| `sessions` | 2 requests at once; one account with 3 tokens, or two accounts with 2 tokens that share a push token | `DoubleUseRevokes`, `OneLineage`, `DevicesFollowSession`, `ClosedAccountNoSession` |
| `otp_order` | 3 codes of one phone with the same digits, erasure of the account | `OnlyNewestSignsIn`, `RefusalIsFinal`, `CurrentCodeKept` |
| `photo_race` | 2 uploads with 2 keys, handler, cleanup, erasure, one fault of any kind | `PhotosConsistent`, `NoOrphanObject` |
| `erasure_runs` | 2 runs of one process, 2 requests, 2 items, 2 faults; or one photo with its removers | `ErasureConsistent`, `ErasureProgress`, `ImplementsContract`, `PhotosProgress` |
| `billing` | 3 changes over 2 subscriptions, 2 ticks a second, customer deletion; or 2 checkout keys, 2 requests, watchdog, erasure | `ProjectionConsistent`, `ClosedAccountUntouched`, `Converges`, `CustomersConsistent`, `CreationResolved` |
| `match` | 2 matches that share an account; or one match with messages; or the swipes of a pair; 2 commands each | `MatchesConsistent`, `CommandsLawful`, `SwipesConsistent` |
| `administration` | 2 tokens and 3 challenges; or 2 passkeys and 2 sessions; or texts with 2 administrators; or a walk through any of the 14 lists | `AdminConsistent`, `PasskeysKept`, `TextsConsistent`, `NoBlindOverride`, `ListsConsistent` |
| `services` | 4 candidates; 2 phones and 3 sessions; 2 exports; 2 processes that sweep; 2 versions of the documents | `FeedConsistent`, `PushConsistent`, `ExportConsistent`, `RetentionConsistent`, `ConsentsConsistent` |
| `services_live` | smaller instances of the feed, the retention, the positions and a match | `WalkEnds`, `NothingExpiredStays`, `PositionForgotten`, `MatchSettles` |
| `swipe_block` | one pair, 2 requests, one block | violated: `BlockedNotMatched` |

Most of the properties named `...Consistent` and the like are conjunctions of a
component's invariants, each stated and commented in the module, with the type
invariant among them (the types of `Outbox`, `RefreshSessions` and `OtpDelivery`
are proved instead). Each conjunct is about code of its own, and fails when that
code is replaced by its mutant:

| Property | Conjunct: mutant that breaks it |
| --- | --- |
| `PhotosConsistent` | `TypeOK`, `RequestFollowsPhoto`: `DiscardRowOnly`; `ReadyHasObject`: `ActivateAnyStatus`; `OnePhoto`: `ActivateKeepsPrevious`; `ErasureComplete`: `CreateProcessingUnchecked` |
| `PhotosProgress` | `RemovedInTheEnd`: `StaleUploads`; `ErasureGoesOn`: `LeaveKeepsLock` |
| `ErasureConsistent` | `TypeOK`: `CreateSecondRequest`; `CompletedMeansErased`: `TryExclusiveShared`; `AnonymizedOnce`: `AdvanceTrusting`; `NotForgotten`: `DeferredAcknowledges` |
| `ErasureProgress` | `ForwardOnly`: `UpdateStartedRequest`; `AcceptedIsErased`: `DeferredAcknowledges` |
| `ProjectionConsistent` | `TypeOK`: `CreatedAtCeiling`; `SnapshotHonest`: `ReadStripeThenDate`; `AcceptedPaymentKept`: `InvoiceAnyOrder` |
| `CustomersConsistent` | `TypeOK`: `OtherLiveNever`; `OneCustomerPerAttempt`: `ResolvingAnyTime`; `NoLostCustomer`: `UndoAlwaysMarks`; `ErasedMeansGone`: `BeginCustomerCreationUnlocked` |
| `MatchesConsistent` | `TypeOK`: `CreateMessageTwice`; `QuotaExact`: `ContinueAgain`; `RevealAnnounced`: `RecordRevealOwnUnseen` |
| `CommandsLawful` | `QuotaRespected`: `QuotaReachedFirstFree`; `DeadlineKept`: `ContinueAsked`; `MessagesWhileOpen`: `CreateMessageUnlocked`; `KeptUntilPurge`: `OverAny` |
| `SwipesConsistent` | `TypeOK`: `InsertUnkeyed`; `MutualLikesMatched`: `RecordSwipeOnce` |
| `AdminConsistent` | `TypeOK`: `IssueBeside`; `UsedOnce`: `EnrolOnCheck`; `NoSessionOutlivesCredential`: `CompleteAuthenticationStale` |
| `PasskeysKept` | `LastCredentialKept`: `RevokeAnyCredential`; `CounterNeverFalls`: `CompleteAuthenticationLast` |
| `TextsConsistent` | `TypeOK`: `UpsertBioInserts`; `StatusEarned`: `ReplaceInPlace`; `EveryTextHasACase`: `DeleteQuestionOnly` |
| `ListsConsistent` | `TypeOK`: `AppearsUndated`; `EachShownOnce`: `PageShort` |
| `FeedConsistent` | `TypeOK`: `ReadsOn`; `EachProfileOnce`: `SwipedTargetIdsStops` |
| `PushConsistent` | `TypeOK`: `RevokedKept`; `NoPushLost`: `PushFailsQuietly`; `SentTwiceOnlyInDoubt`: `EnqueueAgain` |
| `ExportConsistent` | `TypeOK`: `WriteLate`; `ExportIsSnapshot`: `SourceCommitted`; `SlotsAccounted`: `CatchKeepsSlot`; `NothingLeftBehind`: `CatchOnly` |
| `RetentionConsistent` | `TypeOK`: `LeadAnyway`; `FamiliesGoLast`: `AnyFamily`; `CleanMeansClean`: `FullBeyond` |
| `ConsentsConsistent` | `TypeOK`: `RecordedBeside`; `DataRestsOnConsent`: `LockLegalChoicesNot`; `ShownIsEnforced`: `PurgeableAny` |

Bounds. Two workers are what a lapsed lease needs: the late owner and the new
one; the requeue and the retry of a dead letter need a second request; a budget of
two separates a retry from the last attempt. Two requests with three tokens
reach a rotation, its replay and a rotation of the child. Three codes reach a
superseded code between two others. Two requests of anything are what a race
needs; pages and batches are of one or two rows, so that a page is full, partly
full and empty with a handful of rows; two ticks a second, or a millisecond,
separate the coarse date from the fine one. One or two faults can fall between
any two steps. What counts only for properties saturates, and dates are kept as
what is asked of them, so time itself has no bound in most modules; the others
name theirs (`MaxTick`, `MaxAge`, `MaxEvents`, `MaxChanges`, ...). Symmetry is
used where ids are interchangeable, and in no run with a liveness property.
Deadlock is checked in the outbox runs; elsewhere ids are finite and everything
may end used up, erased or purged.

Fairness. `Outbox`: the interval timer keeps polling, statements answer or throw,
handlers have bounded network delays, and clocks advance. The other liveness
properties ask for the same of their timers, workers and statements (`MCSpec` of
`MCAccountErasure` and `MCBilling`, `MCFairSpec` of `MCServices`): uploads, runs
and requests that have begun go on or fail, leases and dates pass, the hourly and
daily passes come back. Strong fairness stands where a step may fail any number
of times but not for ever: a snapshot that webhooks overtake
(`ApplySubscription`), a maintenance batch of matches that gets through.
`WalkEnds` is about a client that asks on. Nothing obliges a producer, an owner,
an administrator, a webhook or a fault.

### The violated run

`swipe_block`: routes.md says that a block closes the matches of the pair and
keeps them from being created again. Block and match are inserted by transactions
without a lock in common; neither sees the other, and the blocked pair keeps an
active match.

### Further divergences between code and documents

The models have the following behaviours too. Where a checked property would meet
one, the property says which case it leaves out.

* Outbox: the documents promise at most ten attempts. A claim spends an attempt,
  but only `reschedule()` compares attempts with the budget, so an event whose
  worker dies each time is taken again beyond it. `PendingHasBudget` is about
  what waits in the queue.
* Outbox: "at most five concurrent handlers". When one `reschedule()` throws,
  `Promise.all` rejects, `polling` is cleared while siblings still run, and the
  next poll starts a full group beside them. The same process may then claim a
  requeued event while an old handler of it still runs; `locked_by` names the
  process, so the old run acknowledges a request it never saw. `outbox_core`
  therefore has no failing `reschedule()`; `outbox_live` has.
* Outbox: a row at the CHECK bound of `attempts` makes the UPDATE of its whole
  batch fail, at every poll (`AttemptsCheck` is out of reach in the runs).
* Codes: two documents say that codes are deleted when the account is erased;
  only their expiry deletes them.
* Photos: a comment says that maintenance removes an object whose activation was
  refused; it finds objects by their rows only. If an upload loses its lock, or
  takes longer than the 30 minutes of the cleanup, while its PUT is under way, the
  object stays without a row: the condition of `NoOrphanObject`.
* Billing: an event older than a known snapshot is answered with an error, and
  retried by Stripe, where the documents say that it is ignored. After
  `customer.deleted` a late event is projected and reconciliation leaves the
  customer out: the condition of `Converges`.
* Checkout: the erasure waits for a watchdog that skips closed accounts; the
  watchdog makes a detached customer active again.
* Swipes: decisions outlive the match; one more like by one side makes a second
  match from them.
* Lists: three administrative lists make their cursor of a JavaScript date, and
  rows of the same millisecond may be on no page: the condition in `Owed`.
* Positions: the sweep selects by date and deletes by user, so it can take a
  position that was written in between.
* Retention: `work_remaining` is also set by a pass that lost the lock between two
  batches; a process that is turned away by the lock has already replaced the run
  in the status row, so the outcome of the pass that worked is lost.

## 4. Proofs

Theorems hold for any number of events, workers, accounts, tokens, codes, photos,
changes at Stripe, matches and faults. Every safety invariant of a passing run and
every action property without fairness is the conclusion of one. Assumptions on
constants are the named `ASSUME`s of each module, which TLC evaluates in every run
that extends it. A part that is an instance has no `ASSUME` of its own there; its theorem
states what it assumes of the constants (`...Names`): that a bound is a number, that a
set of rows is finite, that a page, a batch or a budget is not zero (which
`src/src/config` enforces for those it reads), that ids have an order, and that
the value for NULL is not a name. The instances of the runs satisfy them. Each inductive
invariant was checked by TLC on a small instance before it was proved. The proofs
have one layout: what each step does to a row (an effect lemma), what a step that
leaves a part alone preserves (a frame lemma), one lemma for each part of the
invariant or for each action, the step, and the theorems.

**Outbox.** `TypeCorrect` (including the lock constraint of the table) and
`BudgetKept` (`PendingHasBudget`) need no strengthening beyond the types.
`RequestsAnswered` (`NoLostRequest`), `DeadLettersEarned` (`DeadLetterEarned`) and
`LeasesAnswered` (`NoLeakedLease`) assume that the reschedule statement cannot fail
(`"write" \notin Faults`; the second divergence of section 3 shows that the
assumption is needed). The invariant of the first two adds
`OneRunOnce` (runs belong to the one `runOnce` that is awaited), `Fence` (a run
whose `locked_by` and status still match the row has seen the last request) and
`Answered` (what a fresh run is about to write is in the history). `Fence` is the
heart: requeue clears the lease, so an older run can match again only if its own
process claims the event again, which `OneRunOnce` excludes. `LeasesAnswered` has
an invariant of its own: every lease of a live process is that of a run it awaits.

**RefreshSessions.** `TypeCorrect`, `ReplayCloses` (`DoubleUseRevokes`),
`LineageKept` (`OneLineage`, `LiveTokenUsable`), `DevicesFollow`
(`DevicesFollowSession`) and `NothingSurvivesClosing` (`ClosedAccountNoSession`)
follow from one invariant:
`Lineage` (stored tokens belong to stored families, generations of a family are
distinct, the live token is the newest, the family lives until its newest token
expires), `Closing` (what a revoked or deleted family may still have), and
`RequestsConsistent` (what a request remembers from its unlocked read is still
true of the immutable columns). `LineageKept` needs the dates: a child expires
after its parent, so a purge never takes the token that bounds the family.

**OtpDelivery.** `TypeCorrect`, `NewestCodeOnly` (`OneUsableCode`,
`OnlyNewestSignsIn`), `CodesKept` (the action property `CurrentCodeKept`) and
`RefusalsFinal` (`RefusalIsFinal`, assuming that one delivery has one message and
one transaction id). The invariant is about two deliveries of a phone, the older
`d` and the newer `n`: `Barrier` (the newest confirmed delivery is stored as long
as an older one is, because the purge goes by date), `Retired` (if `n` is
confirmed, `d` is used, failed, or expired with `n` used), `Marked` (a delivery
that was used before its confirmation was retired together with all older ones)
and `ExpiryOrder`. `Marked` is what makes `activate` correct when it returns
early on a used row. The argument also shows that the search for a newer
`sent_at` in `activate` is a second line of defence: the activation of the newer
code has already marked the older one.

**AccountErasure.** `ErasureSound` (`ErasureConsistent`), `NeverBack`
(`ForwardOnly`) and `ContractImplemented`, the refinement of `ErasureContract`, for
any batch size and any number of runs, lapsed leases and lost locks. The heart of
the invariant is `Frozen`: a run that has had the exclusive lock, even one that
has lost it since, has no operation of the owner beside it, because the account
was closed before and an operation looks at it under the shared lock. So a kind of
data that a run has found empty stays empty (`Cleared`, `RunsSound`), although the
run writes its step much later. `Held` and `Stored` say what an operation holds
and in which order it writes, `Workflow` that the request, the workflow row, its
event and the account agree. The sessions of runs and of operations are assumed to
be different holders of the activity lock.

**AdminAuth.** `AdministratorSafe` (`AdminConsistent`) and `LastPasskeyKept` (the
action property `PasskeysKept`). A challenge is consumed in one transaction and
used in another, so the invariant follows it in between: `Spent` (what a request
holds, or has used, is consumed) and `Apart` (a challenge that is held is held once
and has not been used). `Bound` ties live sessions to active passkeys. `Spares` is
why two sessions that revoke each other's passkey leave one: the session that asks
is that of another passkey, still stored when the transaction runs. `Shaped` says
what a request names at each of its steps, `Gone` that nothing comes back after
the erasure.

**PhotoLifecycle.** `PhotosSound` (`PhotosConsistent`) and `NoOrphans`
(`NoOrphanObject`). `Written`: an upload writes its row first and its object last.
`Marked`: whatever a remover still aims at is `deleting` or gone, and never comes
back from that, which is what makes its unlocked DELETE safe for a shown photo.
`Single` and `Followed` are the unique indexes and the requests, row by row;
`Closing` says that one remover at most erases an account. `NoOrphanObject` is
conditional on no upload outliving its lock or the cleanup window (`Punctual`);
then `Sheltered` holds: a running upload has its row, fresh, and its lock, and an
object whose deletion was confirmed does not come back before its row goes.

**BillingProjection.** `ProjectionSound` (`ProjectionConsistent`) and
`ClosedUntouched` (the action property `ClosedAccountUntouched`), for any history
at Stripe and any resolution of the dates. `Timed`: the history is in the order of
its dates; a webhook is dated at the beginning of the second of its change, hence
never later, and everything before that second is an earlier change. `Prefetched`:
what an invoice event fetched is not older than the event. `Dated`: a snapshot has
everything that was there when it began. `Recorded` strengthens
`AcceptedPaymentKept`: the row of an invoice is at least as recent as every
accepted payment, and is paid if it is of the same second.

**MatchLifecycle.** `MatchesSound` (`MatchesConsistent`) and `CommandsSound` (the
four action properties of `CommandsLawful`), for finite sets of accounts, matches
and keys of any size. `Counting`: a second consent that holds the lock of its match
finds the match as it left it, with the other consent recorded and the window open
by its own clock, because everybody else asks for the lock first (`Locked`: it has
one owner) and a tick takes as much from the window as it adds to the age of the
consent. With `Consents` (before the confirmation there is the initiator's consent
or none) the second consent therefore always confirms the match, so nothing is
charged for nothing; `Settled` (a match that was charged for is never open to
consents again) excludes that one is charged twice. This also shows that the
UPDATE that confirms always finds its row once the charge is made. `KeyedOnce` and
`SentByPair` are the unique index; they bound a conversation by two messages for
each key, which justifies `MaxMessages`.

**SwipeMatch** (`MatchLifecycleProofs`). `SwipesSound` (`SwipesConsistent`). The
property speaks of the moment when no request of the pair is left;
`LikesFollowed` says what holds at each step before. Two likes that hold have
made their match already, or were hindered by a crash or a refusal, or are
followed by a request that recorded a like of the pair and has yet to look for the
other one or to make the match (`Followed`). Whichever like is recorded last, its
request finds both, and the unique key of the pair makes a second insert a no-op,
so no order of the steps loses the match.

**CheckoutCustomer** (`BillingProjectionProofs`). `CustomersSound`
(`CustomersConsistent`). `CreationSound` ties an attempt to what Stripe remembers
of its key: as long as Stripe may still be asked, it knows the key or has no
customer of it, and the customer it answers with, or that is recorded, is the only
one. `OnePending`: one attempt of the account is live at a time, by the partial
unique index. `RequestSound`, `WorkerSound` and `ErasureSound` say what a request,
the watchdog and the erasure may still rely on of what they read in an earlier
transaction; the last one that the pass of the erasure that sees all creations
has every attempt before it that has a customer or may still get one. Together:
every customer at Stripe is the one in the mapping or belongs to an attempt that
is still looked at, and none is left when the Stripe step of the erasure is done.
The assumption about POSTs on the network (section 2) is a guard of the model and
so of the theorem.

**ContentModeration** (`AdminAuthProofs`). `TextsSound` (`TextsConsistent`) and
`NoBlindOverrides` (the action property `NoBlindOverride`). `OneCase` is the unique
indexes on the source of a case. `ScreenCurrent`: a screen whose version is that of
the case shows the text the row holds now, because a new text and a decision both
raise the version in the transaction that makes them. Every step leaves a case
and its text alone, removes it, starts it again for a new text, inserts it, or
decides on it (`CaseStep`); the invariant is proved for these five.

**NotificationPush** (`OutboxProofs`). `PushesSound` (`PushConsistent`), from one
invariant about a job: `JobRefers` (a job has its notification, and its device as
long as it names one), `JobBudget` (a job the worker may take has attempts left),
`JobCount` (every push but the last had an answer that was lost, and each of these
is a fault) and `JobDue` (a job is due, or was not at some time; an acknowledged
one was sent, or was not due at some time). Assumed: a job is tried at least once.

**ProfileConsents** (`AccountErasureProofs`). `ConsentsSound`
(`ConsentsConsistent`). `Superseded`: every event of a choice but the latest is
withdrawn, so the active row is the latest event or there is none
(`ActiveIsLatest`), also after a purge. `Standing`: until the erasure the latest
event is active exactly if it is a consent. `DataSound`: the sex, the preferences
and the position are stored only with a choice that stands (`Stands`), because the
write looks at the active row again under its lock and a withdrawal clears what
rests on the choice in its own transaction, whichever process and version of the
documents it comes from.

**RetentionMaintenance** (`RefreshSessionsProofs`). `RetentionSound`
(`RetentionConsistent`). The rows of a table that are past their date are in one
order (`Dates`), and a family is not past its date before its tokens
(`FamilyDates`), so that no statement takes a family that has tokens left.
`CutSound` and `Clean`: a pass remembers what was past its date when its last
batch began, and if it succeeds without work remaining it has left none of that.
The step from "fewer rows than the limit were deleted" to "all were" is
`ShortMeansAll`: the oldest row that is left would have a whole batch before it.

**KeysetPaging** (`AdminAuthProofs`). `ListsSound` (`ListsConsistent`), for each of
the 14 lists. `PageIsSlice`: a page is a piece of the rows after the cursor, also
where the query cuts two branches on their own before it cuts their union.
`Placed`: a row that is owed (`stable`) has been shown once when it is not after the
cursor, and not at all when it is; and the cursor tells it from all other rows
(`Told`). For the lists whose cursor is a JavaScript date this is what `Owed`
demands: no other row is in its millisecond.

**DiscoveryFeed** (`RefreshSessionsProofs`). `FeedSound` (`FeedConsistent`).
`FeedOrder`: distance and id order the candidates. `FeedReads`: what a request has
read lies between the cursor of the client and its own, and what it has just
read comes after its own. `Met` says where a candidate that is owed is in the request
under way, `Counted` that it has been shown once when it is not after the cursor of
the client and not at all when it is; a failing request leaves that cursor alone.
`FeedSized` bounds what a request reads by the page and one batch.

**DataExport** (`RefreshSessionsProofs`). `ExportSound` (`ExportConsistent`).
`ReadSoFar`: while pages are written, the document holds each row of the snapshot
up to the cursor of the section that is open once, and no other; `PageRead` shows
that a page keeps this, with `PageOfKeys`: a page that is not full is all that is
left, also when the collection is an exact multiple of the page. So a document
that is closed is `Complete`, and it is in the access log before the first byte
leaves (`Noted`). `Filed` follows the temporary directory, and the counter of places is the
number of requests that hold one (`Held`), because a place is given back by
whichever of the two ends comes first and never before (`SoundExport`: no request
but one that is over has given it back).

Model-checked only: liveness (`EventuallySettled`, `ErasureProgress`,
`PhotosProgress`, `Converges`, `CreationResolved`, `WalkEnds`, `NothingExpiredStays`,
`PositionForgotten`, `MatchSettles`), which rests on fairness and is outside the
prover together with `ENABLED`; the safety part of `ErasureProgress` is the theorem
`NeverBack`. `BlockedNotMatched` does not hold.

## 5. Plan

1. An abstract at-least-once queue, with `Outbox` shown to implement it, and its
   consumers stated over that queue.
2. Deadlock of the erasure and the watchdog, which the hazards list without a
   property.

## 6. Not modelled

Cryptography (JWT, WebAuthn assertions, webhook signatures, phone encryption),
payload validation and formatting, metrics and other read-only queries, the score
of candidates, Redis caches and rate limits, image conversion and the remote
classifier (kept by their outcomes), the realtime streams, catalogue edits of
traits, questions and plans, the status of reports, HTTP plumbing,
configuration. They carry no protocol of their own or only decide which requests
reach the transactions modelled here. Inside modelled parts: the cache of the
OAuth token of FCM, names of passkeys and audit rows. A deadlock between two
transactions is resolved by PostgreSQL with an error and is not a behaviour of the
models.
