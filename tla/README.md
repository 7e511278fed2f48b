# TLA+ specifications of core-be

core-be is a multi-tenant SaaS backend: a Fastify API and BullMQ workers around
Postgres (with row-level security), Redis, Stripe, Resend and S3. Almost every
request handler is sequential and its tests cover it well. What tests hardly
reach is the space between the processes: a worker dies after the commit and
before the mark, a sweep re-enqueues what is still running, a verification
fills a cache that a logout has just emptied, Stripe delivers an event before
the request that caused it has written its row. The modules here model those
parts, TLC checks them on small instances, and TLAPS proves every safety property
that the passing runs check for every number of requests, rows, jobs and faults.

Source paths below are relative to `src/src/`.

- [1. The system](#1-the-system)
- [2. Modules](#2-modules)
- [3. Runs](#3-runs)
- [4. What the models show beside the properties](#4-what-the-models-show-beside-the-properties)
- [5. Proofs](#5-proofs)
- [6. Not modelled](#6-not-modelled)

## 1. The system

### Processes and stores

| Actor | Runs | Shares |
| --- | --- | --- |
| API process (many) | Fastify hooks and handlers; one request is one chain of awaits | Postgres, Redis |
| Worker process (many) | BullMQ processors, at-least-once: a job whose worker died is handed out again once or twice (`maxStalledCount`), then fails, and a failed attempt is retried up to `attempts` times | Postgres, Redis, the providers |
| Repeatable jobs | sweeps: ledger reclaim, Stripe catch-up, mail outbox, commit-dispatch recovery, DLQ auto-retry, upload sweep, session cleanup | all of the above |
| Stripe, Resend, S3, webhook receivers | external; a call may fail before or after it took effect | idempotency keys |

Ledger and outbox statements mostly run without an enclosing transaction, so each
SQL statement and each Redis command is a step of its own; statements inside one
database context commit together, and at READ COMMITTED each of them sees what
others have committed in between.

### Parts

| Part | State | Hard behaviours | Module |
| --- | --- | --- | --- |
| HTTP idempotency (`shared/middlewares/core/idempotency.middleware.ts`) | a Redis entry per scoped key, a claim counter per actor | concurrent claims, lost Redis answers, death before the final write | `Idempotency` |
| Stripe event ledger (`domains/billing/sub-domains/stripe-webhook`) | `stripe_webhook_events`, BullMQ jobs with remembered ids | lost and repeated deliveries, leases, death between commit and mark | `StripeLedger`, `Inbox` |
| Subscriptions (`domains/billing/sub-domains/subscription`) | rows with a watermark, tombstones, the create lock, the subscriptions at Stripe | events in any order, read / call / write without a transaction, compensation | `StripeBilling` |
| Mail outbox (`infrastructure/mail`) | `mail_outbox` rows, mail jobs, dedupe markers | duplicate jobs, a body read before the claim and scrubbed after sending | `MailOutbox` |
| Commit dispatch (`core/events/event-bus.ts`, `infrastructure/queue/commit-dispatch`) | a Redis list per request, a sorted set, an in-memory queue | flush and recovery on one list, tasks in Redis before their rows are committed | `CommitDispatch` |
| Sessions (`domains/auth/sub-domains/auth-session`) | `auth.sessions`, the Redis cache of valid access tokens | verifications in flight during a revocation, two refreshes of one secret, concurrent logins at the cap | `AuthSession` |
| MFA, passkeys, login methods (`domains/auth`) | `auth_methods`, passkeys, `is_mfa_enabled`, recovery codes, MFA sessions, attempt counters | one code presented twice at once, a burst of attempts, two deletions of the last two methods | `Credentials` |
| Memberships, invitations, seats, API keys (`domains/tenancy`) | memberships, invitations, the owner, keys, the seat ceiling | additions at the ceiling, a transfer that crosses a removal | `Membership` |
| Permission cache (`domains/tenancy`) | a version per organization, a value and a recompute lock per user | a recompute that read before a change and writes after its invalidation | `PermissionCache` |
| Uploads (`domains/upload`) | rows, two S3 keys per upload, presigned URLs | the client replaces the object while it is verified, confirm against sweep | `Upload` |
| Outbound webhooks (`domains/notify/sub-domains/webhook`) | delivery attempts, jobs | stalled jobs, leases, an accepted POST whose outcome is lost | `WebhookDelivery` |
| Dead-letter queue (`infrastructure/queue/dlq`) | ledger, mirror, replay counters | a replay added and not counted, a budget, a batch that newer rows must get into | `DeadLetter` |

`PROJECT.json` lists these and the parts that are not modelled under "components",
and under "hazards" the lines of code where the hard behaviours bite, each with
the property that would notice.

## 2. Modules

| Module | Models | Steps |
| --- | --- | --- |
| `Idempotency` | the `X-Idempotency-Key` middleware, driven by the request lifecycle | one per Redis round trip |
| `StripeLedger` | ingress, ledger, queue, workers, both sweeps | one per ledger statement or queue call |
| `Inbox` | what the ledger promises: stored before acknowledged, effective before settled, nothing undone but by who did not hear of it | abstract |
| `StripeBilling` | the HTTP operations on a subscription, Stripe, and the dispatch of its events | one per statement that commits alone, one per Stripe call |
| `MailOutbox` | producers, mail jobs, Resend, the sweeper | one per statement |
| `CommitDispatch` | scheduling, flush, acknowledgement, recovery | one per Redis command |
| `AuthSession` | login, verification, refresh, rebinding and every kind of revocation | one per statement or Redis command others can observe |
| `Credentials` | enrolment, second factor, recovery, linking and deleting | the same |
| `Membership` | members, invitations, ownership, seats, keys | one per statement of a transaction |
| `PermissionCache` | reading through the cache, recompute, both invalidations | one per Redis command |
| `Upload` | creation, confirm, delete, the sweep, S3 | one per statement or S3 call |
| `DeadLetter` | failed jobs, ledger, mirror, automatic and manual replay | one per statement or queue call |
| `WebhookDelivery` | deliveries, composed with `DeadLetter` by extending it | one per statement, one per POST |
| `MC...` | the instances TLC checks | |
| `...Proofs` | the theorems (section 5) | |

### Idempotency

`cache` is the Redis entry per scoped key: absent, in flight or completed, with
the request that wrote it (`by`, a history field) and its fingerprint. `claims` is
the counter of `IDEMPOTENCY_PER_ACTOR_RATE_CHECK_AND_INCR_LUA`. `phase` follows a
request through `idempotencyClaimPreHandler` (`get`, `cap`, `setnx`, `race`), its
handler, `idempotencyOnSend` (`responded`) and `idempotencyOnResponse` (`done`).
`Serve` is `serveIdempotencyCacheHit`: replay, 409 in flight, or 422 for another
payload. `StoreUnavailable` is the 503 of a failed Redis call, whose command may
have been executed. `Expire` is the TTL of an entry: a placeholder expires under
a live handler only if `SlowHandlers` is true. Keys, payloads and responses are
model values; one actor, because the counter and the keys are scoped by actor.

### StripeLedger and Inbox

`status`, `fresh` (`attempt_count = 0`) and `stale` (`updated_at` before the
lease) are the columns that the WHERE clause of `tryReclaimEvent` tells apart.
A job `e \in Events` is the one with id `stripe-event-<e>`, which BullMQ refuses
while it remembers it (`ForgetJob` ends that); `FreshJobs` are the jobs that the
sweeps add under a new id. A worker goes through `Start` (fetch the event from
Stripe), `Claim` (the INSERT), `Reclaim` (the UPDATE), `Dispatch`, `MarkProcessed`
or `MarkFailed`, and each of them can fail or be cut off by the death of the worker
(`JobDies`); what failed may have been written (`ClaimFails`, and `unheard` for a
`markProcessed` whose answer was lost). A dispatch
commits or throws; what it writes is `StripeBilling`. The catch-up lists one page of the
newest events inside its window: `aged` counts the events that have left the
window, and `Later` events after the ones that are followed push them off the page.

`Inbox` is the promise to Stripe and to the rest of the system, sets of events that
grow, with one exception: who settled an event and was not told so may open it again
(`Reopen`). `StripeLedger` implements it: an event is stored when it has a row,
confirmed when its delivery was answered 200, effective when a dispatch of it
committed, settled when its row says processed.

### StripeBilling

`sstatus`, `splan`, `scape` are the subscriptions at Stripe. Each change there
(`Change`) creates an event with the state it leaves behind; `etype`, `esub`,
`estatus`, `eplan`, `ecape`, `ecreated` record it, and any event that is not
`done` may be dispatched at any time, repeatedly. `rstatus`, `rplan`, `rcape`, `wm`
are the row, `wm` being `last_stripe_event_created_at`. `now` counts half seconds:
a local stamp is `now`, the time of an event is rounded down to its second
(`Sec`), as `event.created` is. A request goes through `precheck` (create only), `stripe`,
`stamp` (its `new Date()`), `write`, and `compensate` on the error path of create
and changePlan. `Collides` is the pair of unique indexes. A dispatch is one
transaction, but the tombstone, the existence check and the fallback insert see
what others committed in between, hence the steps of `pc`.

### MailOutbox

A row is named by its dedupe key. `old` and `stale` are the two cutoffs of the
sweeper; `body` tells whether the rendered body is still there (both terminal
marks scrub it). A producer is `dispatchNotificationEmail`: it looks for the marker,
records the row, enqueues and marks; its slot is then free for the next run of the
same job. A mail job reads the row (`findMailOutboxById`), claims it, parses the
addresses, calls Resend and marks the row; `seen` is what its read found.
`calls` counts what Resend accepted for a row, `unheard` holds the sent rows whose
worker lost the answer to `markMailOutboxSent`. `overdue` is a history variable:
some delivery has outlasted `MAIL_OUTBOX_RECLAIM_SENDING_MINUTES`.

### CommitDispatch

A task `<<r, i>>` is the i-th side effect of request r, with a row of its own.
`pend` is the Redis list of a request, `index` the sorted set, `old` its members
older than two minutes, `mem` and `marker` the in-memory queue and the note that
there is something in Redis. Flush and recovery run the same loop (`consume`,
`next`, `exec`, `lrem`, `llen`, `del`), as agents of one set. `handled` records that an execution
returned normally, `slow` that a request was still live after two minutes.

### AuthSession

The sessions of one user in the order of `created_at`. Access tokens and refresh
secrets are numbers from one counter, so a secret knows whether it is the present
one (`ref`), the previous one (`prev`, with the reuse `grace`) or older. `cache` is
the Redis key of a token: absent, the session it is valid for, or
`SESSION_TOKEN_REVOKED_TOMBSTONE`. `pend` is what a request has still to
invalidate after its rows are written; a password change does it inside its
transaction, hence `txpurge`. `orphans` names the tokens a rotation replaced after
it had read an older one: the code invalidates the token it has read.

### Credentials

One user. Each TOTP secret has one code and its enrolment one recovery code; a
request presents a right or a wrong one. `mlock` is the credential-mutation lock,
`ticket` the MFA sessions, `attempts` the counter whose INCR precedes the
comparison, `seen` the replay keys. `strayed` is a history variable for a deletion of a
TOTP row past the lock (section 4).

### Membership

One team organization. `st`, `joined` and `inv` are the live membership of a user
and its invitation, `lock` the `MEMBERSHIP_SEAT` advisory lock with the row of the
subscription. A request reads, asks for a seat, and writes in separate steps;
`stale` records which kinds of write were made on a read that was outdated by then; a
transfer to a member whom an open request is about to demote (`Demotes`) counts as one.

### PermissionCache

A cached set of codes is represented by the changes it does *not* reflect. A change
is named by the request that committed it; when its invalidation is over, the name
becomes `Gone`, and when it died or failed, `Lost`. The property is then that no
value under the present version lacks `Gone`. `Miss`, `Lock`, `DoubleCheck`,
`Recompute`, `Commit` (the script that checks the nonce) and `Release` are the
reader; `ReadVersion`, `Del` and `Bump` the two invalidations.

### Upload

`pending` and `public` are the objects under the two S3 keys, each of a class the
checks tell apart: good, short (HEAD differs) or forged (the bytes differ). While
`url` holds, the client may replace the pending object at any time. A confirm goes
`head`, `bytes`, `copy`, `mark`, `drop`; a COPY may take effect although its answer is
lost, and an open circuit ends in `fail` (`CircuitOpen`). A deletion is of one upload, or of all
of an owner or organization (`reach`); `Cap` and `OrgCap` are the two quotas, `Shared` the
uploads under the second. `HasETag` tells whether the store's GET names the version
that a COPY can insist on; the sanitizer of SVG files is trusted. The sweep does the same for each stale row
inside one transaction, so its `marked`, `failed` and `orphan` become visible only
at `SweepCommit`, while its S3 calls are visible at once.

### DeadLetter and WebhookDelivery

A job `<<d, k>>` is the k-th job of the delivery `d`; 0 is the producer's, the others
are replays. `DeadLetter` has the queue with its count of `stalls`, the ledger (`book`, in the order of
`failed_at`), its mirror, the sweeper with budget (`tries`) and cooldown, and the
operator. A job whose data the schema refuses becomes a letter at once (`Refuse`), and its
payload may be lost with it (`lame`); such a row is skipped by every sweep. Of the rows of
other queues, `held` is the number that are skipped so at the head of the batch. `todo` holds the positions in `book` that the sweeper has still to look at,
`Letter` is the row at the first of them. `WebhookDelivery` extends it with the rows and the workers: the claim is
three statements (`ClaimPending`, `ClaimFailed`, `ClaimStale`), and `mine` is the set of workers
that have claimed the row and not settled it. `Stall` hands a job out again whose worker is
dead, or goes on, and fails it after `MaxStalled` times. `BypassRls` says whether the
statements after the response see any row: the hosted roles are subject to row level
security and the database context has ended by then, so the mark of a failed enqueue
(`Marked`) has no effect. `stranded` collects the deliveries that nobody is left to settle.

### How they compose

`WebhookDelivery` contains `DeadLetter`, and `StripeLedger` implements `Inbox`. The
others meet at interfaces that are facts of one and assumptions of the next. The
ledger promises that an event is dispatched until it is processed; `StripeBilling`
takes exactly that (`FairSpec`: weak fairness of `DispatchStep`), and not that one
worker does it, since an event may be dispatched again after any failure. Commit
dispatch may add a mail job for a row that was rolled back; `MailOutbox` has that
job as `Phantom`. The final write of `Idempotency` follows the handler's commit in
the same lifecycle hook that starts the flush of `CommitDispatch`. `Membership`'s
writes are the changes that `PermissionCache` invalidates, and its `ceiling` moves
as the plan in `StripeBilling` does. A login that `Credentials` grants ends in
`AuthSession`'s login.

## 3. Runs

| Run | Instance | Distinct states | Checks |
| --- | --- | --- | --- |
| `idempotency` | 3 requests, 1 key, 2 payloads, cap 2 | 639,650 | `OneExecutionPerKey` `ReplayIsGenuine` `KeyUnlocks` |
| `stripe_ledger` | 1 event and 1 later one, page of 1, 1 sweep job slot, 1 delivery slot used twice, 2 attempts, 2 faults | 372,581 | `OneWorkerPerEvent` `ImplementsInbox` `EventuallyProcessed` |
| `stripe_billing` | 2 subscriptions, 2 requests of any kind, 2 plans, 3 events, 1 fault | 595,280 | `TerminalIsOver` `TwoLiveNeedAFault` `DeletionSticks` |
| `stripe_billing_deletion` | 1 subscription, 2 requests, 4 events, no fault | stops at the violation | `DeletionReachesRow` |
| `mail_outbox` | 2 rows, 1 producer slot, 2 jobs, 2 attempts, batch of 1, 1 fault | 394,644 | `OneSenderPerRow` `BodyIsIntact` `SecondCallNeedsFault` `EventuallySettled` |
| `commit_dispatch` | 1 request with 2 tasks (one cleaned up on failure), 3 faults | 130,007 | `AppendedIsKept` `SecondOutcomeNeedsFault` `EventuallyExecuted` |
| `session` | 2 requests, 2 sessions, cap 1, 3 tokens, 1 fault | 1,813,951 | `SessionCap` `CachedIsCurrent` `InactiveNotCached` `KillNeedsStaleSecret` |
| `credentials` | 2 requests, 2 login methods, 1 passkey, 2 TOTP secrets, 1 MFA session, 1 attempt | 1,481,138 | `FlagMatchesTotp` `SingleUse` `AttemptBudget` `OldCodesDie` |
| `credentials_deletes` | the same | stops at the violation | `LoginMethodKept` |
| `tenancy` | `Membership`: 2 requests, 3 users, ceilings 1 and 2, the founder creates keys; `PermissionCache`: 2 requests, 1 user, versions 0 to 2 | 1,388,327 | `OwnerActive` `KeysOfMembers` `InvitationMatches` `AddsFitCeiling` `InvalidatedForGood` |
| `upload` | 2 requests, the sweep, 1 upload of an organization, 2 faults | 429,684 | `ServedHasObject` `PublishedAsVerified` `NoOrphanObject` `PendingSettles` |
| `webhook_delivery` | 1 delivery, 2 workers, 3 replays, 2 attempts, 2 stalls, budget 1, batch of 2, 1 fault | 135,218 | `OneSender` `CopiesNeedFaults` `ReplayBudget` `SentIsFinal` `LettersResolve` `DeliveriesSettle` |

The properties, in words:

- **OneExecutionPerKey**: between the SET NX of a request and its final SET or DEL
  no other request with the key executes. The final writes do not look at what
  they replace, so this is about what every interleaving of GET, cap, SET NX, SET
  and DEL can leave in the cache. **ReplayIsGenuine**: what is replayed was the
  committed success of a request with the same key and payload, even if handlers
  outlive the placeholder. **KeyUnlocks**: no crash or lost answer locks a key for
  good.
- **ImplementsInbox**: the refinement. **OneWorkerPerEvent**: the lease excludes a
  second worker while none outlasts it. **EventuallyProcessed**: all deliveries may
  be lost, all attempts exhausted; an event is processed all the same, unless it never got
  a row before it left the catch-up's window or page.
- **TerminalIsOver**, **DeletionSticks**: the row of a subscription follows Stripe
  although events come late, twice and in the wrong order, and HTTP operations
  write what they decided before their Stripe call. **TwoLiveNeedAFault**: two live
  subscriptions of one organization need a create that failed half way.
- **OneSenderPerRow**, **SecondCallNeedsFault**, **BodyIsIntact**: one worker sends a
  row, once, with its body, although the processor reads the row before it claims
  it. **EventuallySettled**: what the queue loses the sweeper finds.
- **AppendedIsKept**, **SecondOutcomeNeedsFault**, **EventuallyExecuted**: a side effect
  that reached Redis is executed, and has a second outcome (another job, or the
  cleanup of a failed enqueue) only after a fault, by flush and recovery together.
- **SessionCap**: concurrent logins do not exceed the cap. **CachedIsCurrent**,
  **InactiveNotCached**: no verification in flight brings a revoked, replaced or
  deactivated token back into the cache. **KillNeedsStaleSecret**: a retried or
  concurrent refresh is not taken for reuse.
- **FlagMatchesTotp**: `is_mfa_enabled` agrees with the TOTP rows. **SingleUse**,
  **AttemptBudget**, **OldCodesDie**: what may be used once or a few times is, also in a
  burst.
- **AddsFitCeiling**, **OwnerActive**, **KeysOfMembers**, **InvitationMatches**: seats,
  ownership, keys and invitations agree with the memberships, except after the
  crossings each of them names (section 4).
- **InvalidatedForGood**: after an invalidation nobody is served what preceded it.
- **ServedHasObject**, **PublishedAsVerified**, **PendingSettles**: rows and objects agree,
  what is published was verified, everything is settled. **NoOrphanObject**: a row
  does not vanish and leave a published object behind, unless two worked on the upload at
  once or one failed after S3 had written the object.
- **OneSender**, **SentIsFinal**, **CopiesNeedFaults**, **DeliveriesSettle**: a delivery is
  sent by one worker, once unless something failed, and is settled, unless its job was
  never added, was refused or stalled too often, or its outcome could not be recorded.
  **ReplayBudget**, **LettersResolve**: dead letters are replayed within their budget, and
  every one that can be replayed gets its turn, unless rows that are only skipped fill the
  batch.

### Bounds, and why they are enough

`MaxFaults` (`MaxFailures` in `StripeLedger`) bounds crashes and failed calls: one lets every step fail once, two
(`stripe_ledger`, `upload`) or three (`commit_dispatch`) also fail what makes up for
it. `MaxAttempts` of a job is 2, the least number with a retry that is not the
last. Two requests or workers give every pair that can cross: in the permission cache a
reader and a writer, or two of one kind. Larger sets are left to the proof. One key, event, upload or
delivery suffices where rows do not interact (in the ledger, one event and a later one that pushes it
off the page); the mail sweeper, whose batch makes
rows compete, has two rows and a batch of one. Two sessions with a cap of one make
every login evict; three tokens are one login and two rotations. An attempt budget
of one makes every second attempt exceed it. Three users are an owner, a member
who may become one, and one more to take the last seat. `MaxTime` 5 is two and a
half seconds: events before, within and after the second of a local stamp. Three
replays of a delivery are its automatic one, the manual one and one that a fault
adds; a batch of two has room for a row behind one that is only skipped, and is full with two. `MaxVer`, `MaxMint` and `NTotp` bound counters that grow with each operation;
each lets the operation happen at least twice.

`MCTenancy` joins two modules that do not read each other's state: a behaviour is one of
the first or one of the second. It stops where a history variable has silenced the
properties, and it never changes back: at `wrapped`, which loses nothing, and at states
with both an owner and a seat written on an outdated read (`OneCrossing`).
Of those only `KeysOfMembers` still says something, and it is proved without bounds.

`CHECK_DEADLOCK FALSE` where the requests, deliveries and faults of an instance are
finite and the system then rests; `AuthSession`, `Credentials`, `Membership` and
`PermissionCache` always have a step to take, and there TLC looks for deadlocks as well. Symmetry
(requests, and what they only compare) is used in runs without liveness only.

### Fairness, and why the code justifies it

Weak fairness of the steps of a request, a delivery, a producer, a job and a
worker: the event loop finishes what it started and BullMQ hands out every waiting
job; a crash is a step of its own and not fair. Weak fairness of the sweeps and of the
recovery job: they are repeatable jobs. Weak fairness of `Age` (of mail rows), `LeaseExpires`,
`Expire`, `UrlExpires` and `CooldownEnds`: time passes. Strong fairness of the enqueue of a
sweep in `StripeLedger`: it waits for a free slot only because the model bounds the
slots. Not fair: Stripe's deliveries, the lease of a webhook row (it has no effect
unless a job comes back), every fault, an operator, and what a customer does.

## 4. What the models show beside the properties

Two runs state what a comment says and end in an execution of the code that
breaks it. `stripe_billing_deletion`: "a late `.created` will materialise the row and a
retry of this deletion will then cancel it" (`stripe-webhook.service.ts:621`). An
HTTP operation stamps the row in the second of the deletion, or after it.
`markCanceled` then matches nothing, the tombstone row collides with the unique
index, the error aborts the transaction, and so does every retry.
`credentials_deletes`: "two concurrent deletes cannot each see 'one other left' and both
succeed" (`auth-method.service.ts:224`). The EXISTS and the UPDATE of a deletion are one
statement, but at READ COMMITTED each of two such statements sees the other's row as it
was, and both succeed: the user is left without a login method.

The conditions in the properties (`stale`, `crossed`, `unsure`, ...) are not
there for convenience: each stands for executions of the code that the models
contain and that a reader of the comments might not expect.

**Billing**
- Two catch-up runs that overlap can both dispatch an event, where
  `stripe-webhook.queue.ts:81` says that "the second hits
  `still_processing_within_lease` and exits": a row inserted by a worker has
  `attempt_count` 0, which is also what a row looks like that nobody has claimed
  (`OverlappingCatchups = TRUE`).
- A lone create can be rolled back: its own created event inserts the row first,
  its INSERT violates the index, and it cancels the subscription it has just made.
  `subscription.service.ts:690` speaks only of a concurrent create.
- A row inserted between the UPDATE that found none and the check that finds it
  makes a newer updated event look stale; it is dropped. Events of one second can
  leave row and Stripe apart in the same way, until the next event.
- A plan change whose write is refused and whose compensation fails leaves the new
  price at Stripe and the old one in the row (`subscription.service.ts:882`).
- A ledger worker that outlasts its lease and then fails overwrites `processed`
  with `failed` (`StalledWorkers = TRUE`); the event is dispatched again. So does one whose
  `markProcessed` commits and whose answer is lost (`unheard`): the catch block calls
  `markFailed`, which looks at the id alone.
- "any event still missing past the page boundary is recovered on the next run"
  (`stripe-webhook-event-catchup.processor.ts:47`): the next run lists the newest page again.
  An event that newer ones have pushed off it, or that is older than the window, is
  not listed any more.

**Mail and commit dispatch**
- Addresses are parsed after the claim and outside the `try`: a corrupt row keeps its
  claim, its retry is answered `in_flight`, and the sweeper repeats this. The comment
  at `mail.processor.ts:170` says that such a row "throws early (and retries)".
- A worker that loses the answer to `markMailOutboxSent` treats the mail as failed; after its
  last attempt it writes `failed` over `sent` (`unheard`).
- `settleAndAwaitOrganizationRlsTransaction` always answers `no_transaction`, so
  tasks of a rolled-back handler are flushed as well (`request-lifecycle.middleware.ts:26`).
- LLEN and DEL of an acknowledgement are two commands. A task appended between
  them is deleted with the list; this needs a request that is still appending when
  the recovery job works on its list, that is after two minutes.
- A handler slower than the 60 seconds of its placeholder can be executed a second
  time by a retry with the same key (`SlowHandlers = TRUE`).

**Accounts**
- A rotation invalidates the access token it has read; one that a rebind has put in
  its place in between stays cached until it expires (`orphans`).
- `AuthMethodService.delete` of an MFA_TOTP row takes no mutation lock and leaves
  `is_mfa_enabled` set (`strayed`).

**Tenancy**
- A transfer of ownership that crosses a suspension or removal of the new owner can
  leave the organization with an owner who is not active; `organization.repository.ts:467`
  says that it "can never end up owned by a suspended/removed member". The EXISTS there
  sees what is committed: it does not see a request that has read that its member is not
  the owner and is about to suspend them.
- A PATCH from SUSPENDED to INVITED takes a seat without the check that
  `docs/reference/architecture/production-audit-decisions.md:63` describes for a
  reactivation.
- The version key of the permission cache, which lives for a day after the last bump,
  can expire while values of its version live or are being computed; after the
  reset the count comes to that version again (`wrapped`). `permission-cache.service.ts:60` calls the reset harmless.

**Uploads**
- Overlapping confirms, or a confirm and the sweep, can turn UPLOADED into FAILED or
  delete the row (`crossed`), where `upload.service.ts:572` says "Idempotent for
  already-UPLOADED rows".
- The sweep deletes the pending object before its transaction commits; after a
  rollback the published object is left behind (`halfway`).
- A COPY whose answer is lost publishes an object that its row may never name (`halfway`).
- An open circuit throws an error that is not an `ExternalServiceError`: confirm marks the
  upload FAILED, where the comment (`upload.service.ts:550`) says that a "circuit-open" "must NOT
  mark a valid upload FAILED".
- A confirm before the object has landed fails the row; `upload.overview.md:52` says
  that it stays `pending`.

**Webhooks and dead letters**
- A worker that dies while its row is SENDING has its job re-run within the lease;
  the claim is answered `in_flight`, the job is done, and the row stays SENDING
  (`stranded`). `docs/reference/runtime/workers-and-events.md:113` says that it is
  reclaimed on retry.
- The same happens when the secret cannot be decrypted: the error is thrown between the
  claim and the `try`, and the retry finds the row in flight.
- `markDeliveryAttemptEnqueueFailed` is there "so the row does not remain stuck in `PENDING`
  without a worker job" (`webhook-delivery.repository.ts:92`). It runs after the response,
  outside any database context; under forced row level security its UPDATE finds no
  row, and the row stays PENDING (`stranded`). Under a role that bypasses it
  (`BypassRls = TRUE`) the mark is written, whatever the status is (`unsure`): if it
  falls on a row that a worker has claimed, the row is FAILED under the sender and a second
  worker may claim it (`robbed`).
- The recording of an outcome does not look at the claimant it replaces (`robbed`).
- A job that stalls once more than `maxStalledCount` allows fails without a dead letter.
- A ledger row whose payload cannot be rebuilt is skipped by the sweeper, neither counted nor
  resolved (`dlq-replay.util.ts:300`). It stays at the head of the batch, and as many such
  rows as the batch holds keep all newer ones from being replayed (`lame`, `held`).
- A replay starts at attempt 1, so the claim refuses it for a FAILED row with
  `attempt_count` 1 or more: such a replay changes nothing.
- `getDlqAutoRetryState` answers `null` when Redis fails, and the comment says "skip
  retry for safety" (`dlq-auto-retry.store.ts:43`); the caller takes `null` for a row
  that was never replayed. This is why `ReplayBudget` grows with the faults.
- The `UnrecoverableError` of an empty secret does not become a dead letter, where
  `webhook-delivery.worker.ts:406` says that it "lands in the DLQ".

## 5. Proofs

Each theorem holds for every value of the constants that the ASSUMEs of its
module admit: any number of requests, keys, events, jobs, rows, sessions, tokens,
attempts and faults. Each has the form `Spec => []P` (or `Spec => [][A]_vars`, or for the refinement
`Spec => Inbox!Spec` under the mapping) and follows from an inductive invariant
`IInv`: `InitIInv`, one lemma or step per action for `IInv /\ [Next]_vars => IInv'`,
and `Spec => []IInv` by PTL.

| Module | Theorems (property) |
| --- | --- |
| `SingleUseProofs`, on `Idempotency` | `KeyTypeCorrect`, `ExecutionIsExclusive` (`OneExecutionPerKey`), `ReplaysAreGenuine` (`ReplayIsGenuine`) |
| and on `Credentials` | `FlagMatches` (`FlagMatchesTotp`), `UsedOnce` (`SingleUse`), `BudgetKept` (`AttemptBudget`), `OldCodesAreDead` (`OldCodesDie`) |
| `IntakeProofs`, on `StripeLedger` | `LedgerTypeCorrect`, `ProcessedIsAlwaysApplied`, `AckedIsAlwaysDurable`, `LeaseExcludes` (`OneWorkerPerEvent`), `ProcessedStays`, `LedgerImplementsInbox` (`ImplementsInbox`) |
| and on `Upload` | `ServedIsThere` (`ServedHasObject`), `PublishedWasVerified` (`PublishedAsVerified`), `NoObjectIsOrphaned` (`NoOrphanObject`) |
| `MailOutboxProofs` | `TypeCorrect`, `SendersAreExclusive` (`OneSenderPerRow`), `NoEmptyEmail` (`BodyIsIntact`), `SentStays`, `CallsNeedFaults` (`SecondCallNeedsFault`) |
| `CommitDispatchProofs` | `TypeCorrect`, `NothingAppendedIsLost` (`AppendedIsKept`), `CommitComesFirst`, `OutcomesNeedFaults` (`SecondOutcomeNeedsFault`) |
| `TenancyProofs`, on `Membership` | `OwnerStaysActive` (`OwnerActive`), `KeysDieWithMembers` (`KeysOfMembers`), `InvitationsMatch` (`InvitationMatches`), `AddsFit` (`AddsFitCeiling`) |
| and on `PermissionCache` | `CacheTypeCorrect`, `InvalidationIsFinal` (`InvalidatedForGood`) |
| `AuthSessionProofs` | `TypeCorrect`, `CapHolds` (`SessionCap`), `CacheIsCurrent` (`CachedIsCurrent`), `DeactivationClosesCache` (`InactiveNotCached`), `ReuseNeedsStaleSecret` (`KillNeedsStaleSecret`) |
| `StripeBillingProofs` | `TypeCorrect`, `TerminalStays`, `WatermarkStaysMonotone`, `DeletionsStick` (`DeletionSticks`), `NobodyIsCutOff` (`TerminalIsOver`), `TwoLiveAfterAFault` (`TwoLiveNeedAFault`) |
| `WebhookDeliveryProofs` | `OneSenderOnly` (`OneSender`), `CopiesCostFaults` (`CopiesNeedFaults`), `SentStaysSent` (`SentIsFinal`), and of `DeadLetter` `BudgetOfReplays` (`ReplayBudget`) |

Where two models share a proof module, the names of one of them carry a prefix:
`KeyInit` to `KeySpec` in `Idempotency`, `LedgerInit` to `LedgerFairSpec` in
`StripeLedger`, `CacheInit` to `CacheSpec` in `PermissionCache`.

The assumptions are about the constants only: bounds are natural numbers, some at
least 1; the null value is not a request, a job or a row; ids of different kinds
differ; workers and users are finitely many, because their number is counted.

### The arguments

- **Idempotency.** `HolderOwnsEntry`: a request past its claim finds its own
  placeholder in the cache, so a second SET NX cannot succeed; it survives the
  unconditional SET and DEL because only a holder executes them. `EntryOfWriter`,
  `CompletedIsSuccess` and `PendingIsSuccess` carry the replay: an entry has the key
  and payload of its writer, and a completed one or a stashed one is a committed
  success.
- **Credentials.** A thing that succeeds once is taken before it succeeds: the code
  by its replay key, the recovery code by its UPDATE, the MFA session by its GETDEL.
  `Spending` says that who may still succeed with it has taken it and is alone, and
  that nobody may once it has succeeded; it needs `Enrols`, because an enrolment brings
  the codes it later spends. `Budget` counts the requests between the INCR and the
  comparison (`Comparing`) against the budget. `Flags` says that what `deleteMfa` listed
  under the lock is what is there, up to rows removed past the lock.
- **StripeLedger.** `Basic` needs no condition: a worker about to mark an event has
  seen its dispatch commit (`MarkingIsApplied`), a delivery past its first statement
  has its row. `Exclusive` needs workers within their lease and catch-ups that do
  not overlap: the holder's row is processing and not stale (`HolderHasLease`), and
  the holder of a row with `attempt_count` 0 inserted it itself and has no
  competitor (`InserterIsAlone`). Neither is shown action by action: a step lets jobs
  and rows go on in a few ways (`Proper`), and only one job may come to hold a row,
  if nobody does (`Single`); these give `Basic` and `Exclusive`, and every action has
  them (`EveryStep`). A lost answer of `markProcessed` is a case of its own (`MarkLost`): the
  holder finds its row processed, and `unheard`. The refinement needs both: each action is
  one action of `Inbox` for one event that `IInv` shows to be admissible, or leaves its sets alone.
- **StripeBilling.** The argument is by effect. Whatever action is taken, it makes at
  most one change at Stripe (`StripeEffect`) and writes at most one row
  (`RowEffect`): not backwards in time, not out of a terminal status except to
  CANCELED, terminal only for a subscription that is over. The four properties follow from
  the effects, which spares a case for each action and property. `EventsKnown`
  (an event describes its subscription as it was, and what is over stays over),
  `RequestsKnown` and `DispatchesKnown` are what the actions need to have them.
  `TwoLiveNeedAFault` is a second induction: at most one row is mutable (`OneRow`), and a
  live subscription has it, or a create that will still write it or cancel, or one
  that failed half way (`Tracked`); a create past its check is alone (`Locked`, `Alone`).
- **MailOutbox.** While no claim was overdue, who holds a row finds it sending and
  not stale, or sent by its own mark whose answer was lost (`Claims`), so it is alone (`Sole`). For `BodyIsIntact`: a row that can
  still be claimed has its body (`Bodies`), and a job that read a scrubbed one read
  a terminal row, which stays terminal, so that its claim misses (`Reads`). This
  half does not depend on `overdue`.
- **CommitDispatch.** Unless a request was slow, whoever works on its list does so
  when the request appends no more (`Over`), so a list found empty stays empty until
  it is deleted (`Emptied`), and an agent past an execution may remove its task
  (`Done`). `Rows` and `Flushes` tie the flush to the end of the handler. The lemma
  `LeastNat` (a nonempty set of naturals has a least element) gives the first task
  of a list.
- **Membership.** `Requests`: a request finds the membership it has read, because a
  row that goes ends the requests that have read it. `Owners` and `Seats` are what an
  open transaction promises the next statement: the owner to be is active and nobody
  is about to remove them, and there is room for one more while the seat lock is
  held. `Spared`: nobody is about to demote the owner, unless a transfer crossed it.
  `Invites` ties `joined` to the invitation, `KeysJoined` a key to its creator.
  The action property follows from `Seats`: only the holder of the lock adds a
  member whose seat was asked for.
- **PermissionCache.** `InvalidatedForGood` is about values that are cached; a recompute in flight will
  become one. `ValFresh` says the same of the codes it has computed, as long as it
  can still commit under the present version; `LackDel` and
  `ValDel` cover the time between the version read and the DEL, `CachedPast` and
  `ComputingPast` say that nothing is ever ahead of the version.
- **AuthSession.** Rely and guarantee. `Own(p)` is what the request `p` needs of the
  shared state between its steps (the rows it picked are still those to evict, what
  a verification read still stands or a tombstone waits for it, its secret is as old
  as it was), `Shared` the properties of rows and cache. `Rely(q)` is what `q`
  needs of a step of others; `Kept` shows that it preserves `Own(q)`. It remains to
  show for each action that it establishes `Own` of its own request and `Shared`, and
  guarantees `Rely` to all others, which the few kinds of effect (`LocalStep`,
  `TombStep`, `RevokeStep`, `EvictStep`, `TokenStep`, `EnvStep`) give to the actions
  that have them.
- **Upload.** `Sole`: while two have not worked on an upload, its one worker finds the
  row as the first SELECT did. So who publishes an object will mark it, unless the answer
  was lost (`halfway`), and `Published` can say of every object under a final key that its row has it, or is about to be
  marked. `Served` has the object before the mark; `Verified` carries the verified
  bytes from the read to the copy, through the ETag or the dead URL. `SweepShape`
  places each upload in one phase of the sweep.
- **WebhookDelivery and DeadLetter.** `CopiesNeedFaults` is an argument by potential.
  For each delivery, `Paid` adds up the copies delivered, the workers that may still
  deliver one or free the row (`Hot`), one if the row can be claimed (`Open`) and one
  if its producer may still mark it; the sum is at most one more than the faults. Each
  action keeps the sum, or is a fault. The claim moves the one from `Open` to `Hot`;
  a retry moves it back, and a replay finds nothing, because the row is FAILED with an
  attempt (`Taken`, `Attempts`) or the producer's job is still to be retried.
  Refused jobs and lost answers are faults, and pay for what they open.
  `Counted` does the same for the replays of a letter: they are in its count, except for
  those a fault has paid for and the one between `add` and `count`. `Claimed` gives
  `OneSender`, and `SentIsFinal` follows from the guards of the writes.

Candidates for `IInv` were checked with TLC on small instances before they were proved.

### Only model-checked

Liveness under fairness is out of the prover's reach, and stays with TLC: `KeyUnlocks`,
`EventuallyProcessed`, `EventuallySettled`, `EventuallyExecuted`, `PendingSettles`,
`LettersResolve`, `DeliveriesSettle`. Every other property of the passing runs has a theorem.

## 6. Not modelled

Formatting, logging, metrics, translation of messages, signature verification and
authentication headers. Of the modelled parts:

- **Idempotency**: the limit on the size of a cached body is a nondeterministic
  choice (`Respond` may stash nothing); entries of older releases.
- **StripeLedger**: the batch size of the reclaim sweep, the retention of the ledger.
- **StripeBilling**: seats and the seat-quantity queue, trial dates, local-only
  subscriptions without a Stripe price, `PATCH` of a subscription; `trialing`,
  `unpaid` and `paused` behave as `active` and `past_due` do.
- **MailOutbox**: rendering; the reclaim window that an open circuit widens only
  delays `Age`.
- **CommitDispatch**: the 24-hour TTL of a list, entries that do not parse, the batch
  limit of the recovery job, the `emit` fan-out to in-process handlers.
- **AuthSession**: the signing of tokens, cookies, the touch of the last activity.
- **Credentials**: passkey ceremonies, OAuth handshakes, email codes, hashing; a TOTP
  code does not age.
- **Membership**: roles, the caps on pending invitations and keys, the expiry and
  resending of invitations, key rotation, the seat-sync queue.
- **PermissionCache**: what a permission is, and the CRUD of roles.
- **Upload**: more than one owner or organization, read URLs, quota by size, what the
  sanitizer does.
- **WebhookDelivery, DeadLetter**: signatures and secret rotation, URL checks, the
  subscription filter; the 30-day expiry of a replay counter; other queues, beyond the
  number of their rows that the sweeper keeps skipping. (The sweeper also skips rows whose
  queue has an open circuit; the webhook queue has none.)

Of the other parts:

- the circuit breaker and outbound calls: their callers see a call that fails or is
  delayed, which the calling modules have as a fault or a slow step;
- notifications, beyond the e-mail producer in `MailOutbox` and the task in
  `CommitDispatch`; users and personal-data export, beyond deactivation in
  `AuthSession` and the task in `CommitDispatch`;
- the audit outbox: a drain pass is one transaction over rows it has locked, so
  passes do not see each other;
- database contexts: they decide which statements commit together, and each module
  takes that as the granularity of its steps;
- the plans catalog (single-row writes), the storage adapter (I/O), observability,
  configuration and scripts, the MCP server and API reference.

Most of the repository's lines are routes, schemas, validators, serializers,
repositories of single statements, and configuration. They have no state of their
own and no step that another process could fall into, and a model of them would
repeat their text; the mapped lines are therefore a small share of the whole.
