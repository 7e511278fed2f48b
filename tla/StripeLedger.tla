---------------------------- MODULE StripeLedger ----------------------------
(***************************************************************************)
(* The Stripe webhook pipeline of domains/billing/sub-domains/             *)
(* stripe-webhook: the HTTP ingress that writes the event ledger before it *)
(* acknowledges Stripe, the BullMQ queue, the workers that claim, dispatch *)
(* and mark an event, the reclaim sweep over failed and stuck rows, and    *)
(* the catch-up sweep over events that never arrived.                      *)
(*                                                                         *)
(* Events are 1..N in the order Stripe creates them; of the Later ones     *)
(* after them only their place on the page matters.  What an event does    *)
(* to the subscription rows is StripeBilling's subject; here a dispatch    *)
(* commits or throws.  Ledger statements autocommit, so each statement of  *)
(* tryClaimEvent, the dispatch and each mark are separate steps.           *)
(***************************************************************************)
EXTENDS Naturals, FiniteSets

CONSTANTS
    N,                   \* number of Stripe events followed
    Later,               \* events Stripe creates after them, that take room on the page
    FreshJobs,           \* slots for jobs with a fresh id (both sweeps)
    Deliveries,          \* concurrent HTTP deliveries
    MaxAttempts,         \* attempts of a BullMQ job (5)
    PageSize,            \* STRIPE_WEBHOOK_EVENT_CATCHUP_PAGE_SIZE
    MaxDeliveries,       \* bound: deliveries Stripe makes
    MaxFailures,         \* bound: crashes and failed calls
    StalledWorkers,      \* may a live worker outlast the ledger lease?
    OverlappingCatchups  \* may a catch-up run before the last one's job started?

ASSUME LedgerBoundsAssumption ==
    /\ N \in Nat /\ Later \in Nat /\ PageSize \in Nat /\ MaxDeliveries \in Nat /\ MaxFailures \in Nat
    /\ MaxAttempts \in Nat \ {0}

ASSUME LedgerModesAssumption == StalledWorkers \in BOOLEAN /\ OverlappingCatchups \in BOOLEAN

Events == 1..N

\* The job with id stripe-event-<e> is named by e, the fresh ones by their slot.
Jobs == Events \cup FreshJobs

ASSUME JobsAssumption == Events \cap FreshJobs = {}

VARIABLES
    emitted,     \* events 1..emitted exist at Stripe
    aged,        \* events 1..aged are older than the catch-up window
    status,      \* event -> processing_status of its ledger row, or "absent"
    fresh,       \* event -> attempt_count = 0
    stale,       \* event -> updated_at is older than the lease
    applied,     \* event -> has a dispatch of it committed?
    acked,       \* events a delivery of which was answered 200
    unheard,     \* processed events whose worker never got markProcessed's answer
    phase,       \* delivery -> its step
    target,      \* delivery -> its event
    step,        \* job -> its step
    ev,          \* job -> its event
    tries,       \* job -> failed attempts
    stalled,     \* job -> has BullMQ recovered it from a dead worker?
    reclaims,    \* ids the reclaim sweep has read and not enqueued yet
    catchups,    \* ids the catch-up sweep has found missing and not enqueued yet
    delivered,   \* deliveries made
    failures     \* crashes and failed calls suffered

stripe == <<emitted, aged>>
ledger == <<status, fresh, stale>>
http == <<phase, target>>
job == <<step, ev, tries, stalled>>

ledgerVars == <<stripe, ledger, applied, acked, unheard, http, job, reclaims, catchups, delivered, failures>>

Statuses == {"absent", "processing", "processed", "failed"}
HttpSteps == {"idle", "reclaim", "enqueue"}
Holding == {"dispatch", "mark_processed", "mark_failed"}
Active == {"claim", "reclaim"} \cup Holding
JobSteps == {"none", "wait", "completed", "failed"} \cup Active

LedgerTypeOK ==
    /\ emitted \in 0..(N + Later) /\ aged \in 0..N
    /\ status \in [Events -> Statuses]
    /\ fresh \in [Events -> BOOLEAN]
    /\ stale \in [Events -> BOOLEAN]
    /\ applied \in [Events -> BOOLEAN]
    /\ acked \in SUBSET Events
    /\ unheard \in SUBSET Events
    /\ phase \in [Deliveries -> HttpSteps]
    /\ target \in [Deliveries -> 0..N]
    /\ step \in [Jobs -> JobSteps]
    /\ ev \in [Jobs -> 0..N]
    /\ tries \in [Jobs -> 0..MaxAttempts]
    /\ stalled \in [Jobs -> BOOLEAN]
    /\ reclaims \in SUBSET Events
    /\ catchups \in SUBSET Events
    /\ delivered \in 0..MaxDeliveries
    /\ failures \in 0..MaxFailures

LedgerInit ==
    /\ emitted = 0 /\ aged = 0
    /\ status = [e \in Events |-> "absent"]
    /\ fresh = [e \in Events |-> FALSE]
    /\ stale = [e \in Events |-> FALSE]
    /\ applied = [e \in Events |-> FALSE]
    /\ acked = {}
    /\ unheard = {}
    /\ phase = [d \in Deliveries |-> "idle"]
    /\ target = [d \in Deliveries |-> 0]
    /\ step = [j \in Jobs |-> "none"]
    /\ ev = [j \in Jobs |-> IF j \in Events THEN j ELSE 0]
    /\ tries = [j \in Jobs |-> 0]
    /\ stalled = [j \in Jobs |-> FALSE]
    /\ reclaims = {}
    /\ catchups = {}
    /\ delivered = 0
    /\ failures = 0

Failure == failures < MaxFailures /\ failures' = failures + 1

\* Stripe creates the next event.
Emit ==
    /\ emitted < N + Later
    /\ emitted' = emitted + 1
    /\ UNCHANGED <<aged, unheard, ledger, applied, acked, http, job, reclaims, catchups, delivered, failures>>

\* STRIPE_WEBHOOK_EVENT_CATCHUP_WINDOW_MINUTES pass since the next event followed.
Age ==
    /\ aged < emitted /\ aged < N
    /\ aged' = aged + 1
    /\ UNCHANGED <<emitted, unheard, ledger, applied, acked, http, job, reclaims, catchups, delivered, failures>>

-----------------------------------------------------------------------------
(* tryClaimEvent and tryReclaimEvent.                                      *)

\* Every write of a row sets updated_at.
WriteEvent(e, st, fr) ==
    /\ status' = [status EXCEPT ![e] = st]
    /\ fresh' = [fresh EXCEPT ![e] = fr]
    /\ stale' = [stale EXCEPT ![e] = FALSE]

\* INSERT ... ON CONFLICT DO NOTHING.
InsertRow(e) == WriteEvent(e, "processing", TRUE)

\* Mutant: any row that is being processed can be taken over.
ReclaimableWithinLease(e) == status[e] \in {"failed", "processing"}

\* The WHERE clause of tryReclaimEvent.
Reclaimable(e) ==
    \/ status[e] = "failed"
    \/ status[e] = "processing" /\ (stale[e] \/ fresh[e])

\* Its UPDATE: attempt_count + 1.
ReclaimRow(e) == WriteEvent(e, "processing", FALSE)

-----------------------------------------------------------------------------
(* ingestEvent, one step per await.                                        *)

GoHttp(d, next) == phase' = [phase EXCEPT ![d] = next] /\ UNCHANGED target

\* The INSERT and, when it conflicts, the SELECT of tryClaimEvent.
IngestClaim(d, e) ==
    /\ phase[d] = "idle"
    /\ e <= emitted
    /\ delivered < MaxDeliveries
    /\ delivered' = delivered + 1
    /\ target' = [target EXCEPT ![d] = e]
    /\ \/ /\ status[e] = "absent"
          /\ InsertRow(e)
          /\ phase' = [phase EXCEPT ![d] = "enqueue"]
          /\ UNCHANGED acked
       \/ /\ status[e] = "processed"
          /\ acked' = acked \cup {e}
          /\ UNCHANGED <<ledger, phase>>
       \/ /\ status[e] \in {"processing", "failed"}
          /\ phase' = [phase EXCEPT ![d] = "reclaim"]
          /\ UNCHANGED <<ledger, acked>>
    /\ UNCHANGED <<stripe, unheard, applied, job, reclaims, catchups, failures>>

\* tryReclaimEvent; a row still within its lease is answered 200 as well.
IngestReclaim(d) ==
    /\ phase[d] = "reclaim"
    /\ LET e == target[d] IN
       IF Reclaimable(e)
       THEN ReclaimRow(e) /\ GoHttp(d, "enqueue") /\ UNCHANGED acked
       ELSE GoHttp(d, "idle") /\ acked' = acked \cup {e} /\ UNCHANGED ledger
    /\ UNCHANGED <<stripe, unheard, applied, job, reclaims, catchups, delivered, failures>>

AddJob(j, e) ==
    /\ step' = [step EXCEPT ![j] = "wait"]
    /\ ev' = [ev EXCEPT ![j] = e]
    /\ tries' = [tries EXCEPT ![j] = 0]
    /\ stalled' = [stalled EXCEPT ![j] = FALSE]

\* queue.add with a job id BullMQ still knows adds nothing.
AddMainJob(e) ==
    IF step[e] = "none" THEN AddJob(e, e) ELSE UNCHANGED job

IngestEnqueue(d) ==
    /\ phase[d] = "enqueue"
    /\ LET e == target[d] IN
       /\ AddMainJob(e)
       /\ acked' = acked \cup {e}
       /\ GoHttp(d, "idle")
    /\ UNCHANGED <<stripe, unheard, ledger, applied, reclaims, catchups, delivered, failures>>

(***************************************************************************)
(* The process dies or the enqueue fails, its job possibly added: Stripe   *)
(* is not answered 200.                                                    *)
(***************************************************************************)
IngestFails(d) ==
    /\ phase[d] # "idle"
    /\ Failure
    /\ \/ phase[d] = "enqueue" /\ AddMainJob(target[d])
       \/ UNCHANGED job
    /\ GoHttp(d, "idle")
    /\ UNCHANGED <<stripe, unheard, ledger, applied, acked, reclaims, catchups, delivered>>

-----------------------------------------------------------------------------
(* processStripeWebhookJob and handleEvent.                                *)

GoJob(j, next) == step' = [step EXCEPT ![j] = next] /\ UNCHANGED <<ev, tries, stalled>>

\* A failed attempt waits for its backoff, or was the last one.
FailAttempt(j) ==
    /\ tries' = [tries EXCEPT ![j] = @ + 1]
    /\ step' = [step EXCEPT ![j] = IF tries[j] + 1 < MaxAttempts THEN "wait" ELSE "failed"]
    /\ UNCHANGED <<ev, stalled>>

\* A worker takes the job and fetches the event from Stripe.
Start(j) ==
    /\ step[j] = "wait"
    /\ GoJob(j, "claim")
    /\ UNCHANGED <<stripe, unheard, ledger, applied, acked, http, reclaims, catchups, delivered, failures>>

StartFails(j) ==
    /\ step[j] = "wait"
    /\ Failure
    /\ FailAttempt(j)
    /\ UNCHANGED <<stripe, unheard, ledger, applied, acked, http, reclaims, catchups, delivered>>

\* The INSERT and the SELECT of tryClaimEvent; a processed event ends the job.
Claim(j) ==
    /\ step[j] = "claim"
    /\ LET e == ev[j] IN
       \/ /\ status[e] = "absent"
          /\ InsertRow(e)
          /\ GoJob(j, "dispatch")
       \/ /\ status[e] = "processed"
          /\ GoJob(j, "completed")
          /\ UNCHANGED ledger
       \/ /\ status[e] \in {"processing", "failed"}
          /\ GoJob(j, "reclaim")
          /\ UNCHANGED ledger
    /\ UNCHANGED <<stripe, unheard, applied, acked, http, reclaims, catchups, delivered, failures>>

\* tryReclaimEvent; ConflictError while another worker holds the lease.
Reclaim(j) ==
    /\ step[j] = "reclaim"
    /\ LET e == ev[j] IN
       IF Reclaimable(e)
       THEN ReclaimRow(e) /\ GoJob(j, "dispatch")
       ELSE FailAttempt(j) /\ UNCHANGED ledger
    /\ UNCHANGED <<stripe, unheard, applied, acked, http, reclaims, catchups, delivered, failures>>

(***************************************************************************)
(* A statement of the claim fails outside the try, its write possibly      *)
(* committed: the attempt is over and nothing is marked.                   *)
(***************************************************************************)
ClaimFails(j) ==
    /\ step[j] \in {"claim", "reclaim"}
    /\ Failure
    /\ FailAttempt(j)
    /\ \/ step[j] = "claim" /\ status[ev[j]] = "absent" /\ InsertRow(ev[j])
       \/ step[j] = "reclaim" /\ Reclaimable(ev[j]) /\ ReclaimRow(ev[j])
       \/ UNCHANGED ledger
    /\ UNCHANGED <<stripe, unheard, applied, acked, http, reclaims, catchups, delivered>>

\* dispatchEvent commits in its organization transaction.
Dispatch(j) ==
    /\ step[j] = "dispatch"
    /\ applied' = [applied EXCEPT ![ev[j]] = TRUE]
    /\ GoJob(j, "mark_processed")
    /\ UNCHANGED <<stripe, unheard, ledger, acked, http, reclaims, catchups, delivered, failures>>

\* Mutant: an error of the dispatch is swallowed.
DispatchThrowsUnnoticed(j) ==
    /\ step[j] = "dispatch"
    /\ Failure
    /\ GoJob(j, "mark_processed")
    /\ UNCHANGED <<stripe, unheard, ledger, applied, acked, http, reclaims, catchups, delivered>>

\* It throws, having rolled back or with the answer to its COMMIT lost.
DispatchThrows(j) ==
    /\ step[j] = "dispatch"
    /\ Failure
    /\ \/ applied' = [applied EXCEPT ![ev[j]] = TRUE]
       \/ UNCHANGED applied
    /\ GoJob(j, "mark_failed")
    /\ UNCHANGED <<stripe, unheard, ledger, acked, http, reclaims, catchups, delivered>>

\* The UPDATE matches the event id alone, whatever the row's status or attempt.
MarkProcessed(j) ==
    /\ step[j] = "mark_processed"
    /\ WriteEvent(ev[j], "processed", fresh[ev[j]])
    /\ GoJob(j, "completed")
    /\ UNCHANGED <<stripe, unheard, applied, acked, http, reclaims, catchups, delivered, failures>>

(***************************************************************************)
(* An error of markProcessed is caught with the others, also when its      *)
(* UPDATE committed and only the answer was lost.                          *)
(***************************************************************************)
MarkProcessedFails(j) ==
    /\ step[j] = "mark_processed"
    /\ Failure
    /\ \/ WriteEvent(ev[j], "processed", fresh[ev[j]]) /\ unheard' = unheard \cup {ev[j]}
       \/ UNCHANGED <<ledger, unheard>>
    /\ GoJob(j, "mark_failed")
    /\ UNCHANGED <<stripe, applied, acked, http, reclaims, catchups, delivered>>

\* The event id alone again: a row the worker has just marked processed, unheard, too.
MarkFailed(j) ==
    /\ step[j] = "mark_failed"
    /\ WriteEvent(ev[j], "failed", fresh[ev[j]])
    /\ FailAttempt(j)
    /\ unheard' = unheard \ {ev[j]}
    /\ UNCHANGED <<stripe, applied, acked, http, reclaims, catchups, delivered, failures>>

\* With the UPDATE committed this is MarkFailed.
MarkFailedFails(j) ==
    /\ step[j] = "mark_failed"
    /\ Failure
    /\ FailAttempt(j)
    /\ UNCHANGED <<stripe, unheard, ledger, applied, acked, http, reclaims, catchups, delivered>>

\* The worker dies: BullMQ runs a stalled job once more, then fails it.
JobDies(j) ==
    /\ step[j] \in Active
    /\ Failure
    /\ step' = [step EXCEPT ![j] = IF stalled[j] THEN "failed" ELSE "wait"]
    /\ stalled' = [stalled EXCEPT ![j] = TRUE]
    /\ UNCHANGED <<ev, tries, stripe, unheard, ledger, applied, acked, http, reclaims, catchups, delivered>>

\* BullMQ forgets a finished job after its retention.
ForgetJob(e) ==
    /\ step[e] \in {"completed", "failed"}
    /\ step' = [step EXCEPT ![e] = "none"]
    /\ tries' = [tries EXCEPT ![e] = 0]
    /\ stalled' = [stalled EXCEPT ![e] = FALSE]
    /\ UNCHANGED <<ev, stripe, unheard, ledger, applied, acked, http, reclaims, catchups, delivered, failures>>

\* 15 minutes pass since the row was written.
LeaseExpires(e) ==
    /\ status[e] = "processing"
    /\ ~stale[e]
    /\ StalledWorkers \/ \A j \in Jobs : step[j] \in Holding => ev[j] # e
    /\ stale' = [stale EXCEPT ![e] = TRUE]
    /\ UNCHANGED <<status, fresh, stripe, unheard, applied, acked, http, job, reclaims, catchups, delivered, failures>>

-----------------------------------------------------------------------------
(* The two sweeps: each reads, then enqueues what it read id by id.        *)

\* Mutant: the sweep looks for failed rows only.
ReclaimScanFailedOnly ==
    /\ reclaims = {}
    /\ reclaims' = {e \in Events : status[e] = "failed"}
    /\ reclaims' # {}
    /\ UNCHANGED <<stripe, unheard, ledger, applied, acked, http, job, catchups, delivered, failures>>

\* sweepReclaimableEvents
ReclaimScan ==
    /\ reclaims = {}
    /\ reclaims' = {e \in Events : \/ status[e] = "failed"
                                   \/ status[e] = "processing" /\ stale[e]}
    /\ reclaims' # {}
    /\ UNCHANGED <<stripe, unheard, ledger, applied, acked, http, job, catchups, delivered, failures>>

\* listRecentStripeEvents: of the events in the window, the newest page alone.
NewestPage == {e \in Events : aged < e /\ e <= emitted /\ emitted < e + PageSize}

\* findExistingStripeEventIds finds no row for these.
CatchupScan ==
    /\ catchups = {}
    /\ catchups' = {e \in NewestPage : status[e] = "absent"}
    /\ catchups' # {}
    /\ UNCHANGED <<stripe, unheard, ledger, applied, acked, http, job, reclaims, delivered, failures>>

Unfinished(j) == step[j] \in {"wait"} \cup Active

\* A fresh job id: the job of a finished slot is another job.
AddFreshJob(f, e) == ~Unfinished(f) /\ AddJob(f, e)

ReclaimEnqueue(e, f) ==
    /\ e \in reclaims
    /\ AddFreshJob(f, e)
    /\ reclaims' = reclaims \ {e}
    /\ UNCHANGED <<stripe, unheard, ledger, applied, acked, http, catchups, delivered, failures>>

CatchupEnqueue(e, f) ==
    /\ e \in catchups
    /\ OverlappingCatchups \/ \A g \in FreshJobs : Unfinished(g) => ev[g] # e
    /\ AddFreshJob(f, e)
    /\ catchups' = catchups \ {e}
    /\ UNCHANGED <<stripe, unheard, ledger, applied, acked, http, reclaims, delivered, failures>>

\* An enqueue error is logged and the id skipped until the next sweep.
EnqueueSkips(e) ==
    /\ e \in reclaims \cup catchups
    /\ Failure
    /\ reclaims' = reclaims \ {e}
    /\ catchups' = catchups \ {e}
    /\ UNCHANGED <<stripe, unheard, ledger, applied, acked, http, job, delivered>>

-----------------------------------------------------------------------------
HttpStep(d) == IngestReclaim(d) \/ IngestEnqueue(d)

JobStep(j) ==
    \/ Start(j) \/ Claim(j) \/ Reclaim(j) \/ Dispatch(j)
    \/ MarkProcessed(j) \/ MarkFailed(j)

JobFault(j) ==
    \/ StartFails(j) \/ ClaimFails(j) \/ DispatchThrows(j) \/ MarkProcessedFails(j)
    \/ MarkFailedFails(j) \/ JobDies(j)

LedgerNext ==
    \/ Emit \/ Age
    \/ \E d \in Deliveries :
          \/ \E e \in Events : IngestClaim(d, e)
          \/ HttpStep(d)
          \/ IngestFails(d)
    \/ \E j \in Jobs : JobStep(j) \/ JobFault(j)
    \/ \E e \in Events : ForgetJob(e) \/ LeaseExpires(e) \/ EnqueueSkips(e)
    \/ ReclaimScan \/ CatchupScan
    \/ \E e \in Events, f \in FreshJobs : ReclaimEnqueue(e, f) \/ CatchupEnqueue(e, f)

LedgerSpec == LedgerInit /\ [][LedgerNext]_ledgerVars

(***************************************************************************)
(* The event loop finishes what it started, BullMQ hands out every waiting *)
(* job, both sweeps are repeatable jobs, and time passes.  An enqueue of a *)
(* sweep waits for a free slot only because the model bounds the slots.    *)
(* Stripe's deliveries are not fair: any of them may be lost.              *)
(***************************************************************************)
LedgerFairSpec ==
    /\ LedgerSpec
    /\ \A d \in Deliveries : WF_ledgerVars(HttpStep(d))
    /\ \A j \in Jobs : WF_ledgerVars(JobStep(j))
    /\ \A e \in Events : WF_ledgerVars(LeaseExpires(e))
    /\ WF_ledgerVars(ReclaimScan) /\ WF_ledgerVars(CatchupScan)
    /\ \A e \in Events :
          /\ SF_ledgerVars(\E f \in FreshJobs : ReclaimEnqueue(e, f))
          /\ SF_ledgerVars(\E f \in FreshJobs : CatchupEnqueue(e, f))
-----------------------------------------------------------------------------
(***************************************************************************)
(* A processed row means the event's writes are committed: no order of     *)
(* ingress, retries, sweeps, crashes and failed marks lets the ledger      *)
(* claim an event whose dispatch never committed.                          *)
(***************************************************************************)
ProcessedIsApplied ==
    \A e \in Events : status[e] = "processed" => applied[e]

(***************************************************************************)
(* Stripe is answered 200 only once the ledger holds the event, so that a  *)
(* lost job can be found again by the reclaim sweep (sec-B finding #6).    *)
(***************************************************************************)
AckedIsDurable ==
    \A e \in acked : status[e] # "absent"

(***************************************************************************)
(* The ledger lease is a lock: while no live worker outlasts the lease and *)
(* no catch-up overtakes the last one's job, at most one worker is between *)
(* its claim and its mark of an event, whatever ingress, retries and       *)
(* sweeps enqueue.                                                         *)
(***************************************************************************)
OneWorkerPerEvent ==
    ~StalledWorkers /\ ~OverlappingCatchups =>
        \A i, j \in Jobs :
            /\ step[i] \in Holding
            /\ step[j] \in Holding
            /\ ev[i] = ev[j]
            => i = j

(***************************************************************************)
(* "the previous worker's writes will fail-on-RETURNING once it revives":  *)
(* a row that is processed stays so, unless the worker that marked it      *)
(* never heard of it: the catch of handleEvent then marks it failed, by    *)
(* the event id alone.                                                     *)
(***************************************************************************)
ProcessedIsFinal ==
    [][\A e \in Events \ unheard :
          status[e] = "processed" => status'[e] = "processed"]_ledgerVars

(***************************************************************************)
(* The pipeline implements Inbox: an event has its row before Stripe is    *)
(* answered 200 and before a worker dispatches it, it is marked processed  *)
(* only after a dispatch committed, and no late mark, retry or sweep takes *)
(* any of that back, but for the worker that lost the answer to its own    *)
(* markProcessed: it reopens the event, once.                              *)
(***************************************************************************)
Box == INSTANCE Inbox WITH
           stored    <- {e \in Events : status[e] # "absent"},
           confirmed <- acked,
           effective <- {e \in Events : applied[e]},
           settled   <- {e \in Events : status[e] = "processed"},
           unheard   <- unheard

ImplementsInbox == Box!Spec

(***************************************************************************)
(* Every event is eventually processed, and stays so: lost deliveries, a   *)
(* redelivery that takes the row's first claim from the waiting worker,    *)
(* jobs that exhaust their attempts, job ids BullMQ still remembers and    *)
(* crashes between any two steps only delay it.  The one event that is     *)
(* lost is the one that never got a row while the catch-up could list it:  *)
(* all its deliveries were lost, and the window or the page left it behind.*)
(***************************************************************************)
EventuallyProcessed ==
    \A e \in Events : e <= emitted ~>
        [](status[e] = "processed" \/ (status[e] = "absent" /\ e \notin NewestPage))
=============================================================================
