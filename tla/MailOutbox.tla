----------------------------- MODULE MailOutbox -----------------------------
(***************************************************************************)
(* The transactional mail outbox: producers insert a row and add a BullMQ  *)
(* job for it, mail workers claim the row, call Resend and settle the row, *)
(* and a sweeper re-enqueues what the queue lost.  No transaction spans    *)
(* two statements of a worker, so each statement is a step.                *)
(*                                                                         *)
(* A row is named by its dedupe_key: the unique index keeps one row per    *)
(* key, and a producer without a key is a producer of a key of its own.    *)
(* Time is what the cutoffs tell apart: a pending row is old or not, a     *)
(* sending row stale or not.  A job slot is used again once its job ended. *)
(***************************************************************************)
EXTENDS Naturals, FiniteSets

CONSTANTS
    NMails,       \* bound: rows, in the order of created_at
    Producers,    \* bound: producers running at a time
    Jobs,         \* bound: jobs in the queue at a time
    MaxAttempts,  \* MAIL_QUEUE_MAX_ATTEMPTS
    Batch,        \* MAIL_OUTBOX_SWEEP_BATCH_SIZE
    MaxFaults,    \* bound: crashes, failed calls and failed statements
    Corrupt       \* rows whose to_addresses do not parse

Mails == 1..NMails

ASSUME BoundsAssumption ==
    /\ MaxFaults \in Nat
    /\ NMails \in Nat \ {0}
    /\ MaxAttempts \in Nat \ {0}
    /\ Batch \in Nat \ {0}
    /\ Corrupt \subseteq Mails

VARIABLES
    status,   \* row -> its status, or "absent"
    body,     \* row -> does it hold the rendered body?
    old,      \* rows created before the cutoff for pending rows
    stale,    \* rows whose claim is older than the cutoff for sending rows
    unheard,  \* sent rows whose worker never got the answer to markMailOutboxSent
    calls,    \* row -> calls Resend accepted, all under one idempotency key
    jat,      \* job -> its step
    jmail,    \* job -> its mailOutboxId
    tries,    \* job -> attemptsMade
    stalls,   \* job -> times it stalled
    seen,     \* job -> did the row it read hold its body?
    err,      \* job -> the error it caught
    pat,      \* producer -> its step
    pmail,    \* producer -> the mail it produces
    marker,   \* mails with a marker in Redis that they were dispatched
    sat,      \* the sweeper's step
    todo,     \* ids the sweeper has still to enqueue
    room,     \* what reclaiming left of the batch
    overdue,  \* has a live worker's claim become stale?
    faults    \* faults suffered

row == <<status, body, old, stale, unheard>>
job == <<jat, jmail, tries, stalls, seen, err>>
producer == <<pat, pmail, marker>>
sweeper == <<sat, todo, room>>

vars == <<row, calls, job, producer, sweeper, overdue, faults>>

Statuses == {"absent", "pending", "sending", "sent", "failed"}

\* Between its claim and its last write a job holds the row.
Holding == {"parse", "send", "mark", "catch"}
JobSteps == {"free", "waiting", "claim", "look", "throw"} \cup Holding
Errors == {"none", "circuit_open", "error"}

TypeOK ==
    /\ status \in [Mails -> Statuses]
    /\ body \in [Mails -> BOOLEAN]
    /\ old \subseteq Mails
    /\ stale \subseteq Mails
    /\ unheard \subseteq Mails
    /\ calls \in [Mails -> Nat]
    /\ jat \in [Jobs -> JobSteps]
    /\ jmail \in [Jobs -> Mails]
    /\ tries \in [Jobs -> 0..(MaxAttempts - 1)]
    /\ stalls \in [Jobs -> 0..1]
    /\ seen \in [Jobs -> BOOLEAN]
    /\ err \in [Jobs -> Errors]
    /\ pat \in [Producers -> {"idle", "record", "mark", "dispatch"}]
    /\ pmail \in [Producers -> Mails]
    /\ marker \subseteq Mails
    /\ sat \in {"idle", "scan", "enqueue"}
    /\ todo \subseteq Mails
    /\ room \in 0..Batch
    /\ overdue \in BOOLEAN
    /\ faults \in 0..MaxFaults

Init ==
    /\ status = [m \in Mails |-> "absent"]
    /\ body = [m \in Mails |-> FALSE]
    /\ old = {} /\ stale = {} /\ unheard = {}
    /\ calls = [m \in Mails |-> 0]
    /\ jat = [j \in Jobs |-> "free"]
    /\ jmail = [j \in Jobs |-> 1]
    /\ tries = [j \in Jobs |-> 0]
    /\ stalls = [j \in Jobs |-> 0]
    /\ seen = [j \in Jobs |-> FALSE]
    /\ err = [j \in Jobs |-> "none"]
    /\ pat = [p \in Producers |-> "idle"]
    /\ pmail = [p \in Producers |-> 1]
    /\ marker = {}
    /\ sat = "idle" /\ todo = {} /\ room = 0
    /\ overdue = FALSE
    /\ faults = 0

Fault == faults < MaxFaults /\ faults' = faults + 1

Free == {j \in Jobs : jat[j] = "free"}
Holders(m) == {j \in Jobs : jmail[j] = m /\ jat[j] \in Holding}

Go(j, next) == jat' = [jat EXCEPT ![j] = next]

\* queue.add: a job without a jobId of its own is never a duplicate.
enqueueMailOutboxJob(m) ==
    LET j == CHOOSE k \in Free : TRUE IN
    /\ Free # {}
    /\ Go(j, "waiting")
    /\ jmail' = [jmail EXCEPT ![j] = m]
    /\ UNCHANGED <<tries, stalls, seen, err>>

-----------------------------------------------------------------------------
(* dispatchNotificationEmail, the producer with a dedupe key; the others   *)
(* record the row and dispatch it without looking for a marker.            *)

GoProducer(p, next) == pat' = [pat EXCEPT ![p] = next]
EndProducer(p) == GoProducer(p, "idle") /\ pmail' = [pmail EXCEPT ![p] = 1]

\* isNotificationEmailDispatched; a marker ends the run before its first write.
Produce(p, m) ==
    /\ pat[p] = "idle"
    /\ m \notin marker
    /\ GoProducer(p, "record")
    /\ pmail' = [pmail EXCEPT ![p] = m]
    /\ UNCHANGED <<row, calls, job, marker, sweeper, overdue, faults>>

\* ON CONFLICT (dedupe_key) DO NOTHING, then the row that is there.
insertMailOutbox(p) ==
    LET m == pmail[p] IN
    /\ pat[p] = "record"
    /\ status' = [status EXCEPT ![m] = IF @ = "absent" THEN "pending" ELSE @]
    /\ body' = [body EXCEPT ![m] = status[m] = "absent" \/ @]
    /\ GoProducer(p, "mark")
    /\ UNCHANGED <<old, stale, unheard, calls, job, pmail, marker, sweeper, overdue, faults>>

markNotificationEmailDispatched(p) ==
    /\ pat[p] = "mark"
    /\ marker' = marker \cup {pmail[p]}
    /\ GoProducer(p, "dispatch")
    /\ UNCHANGED <<row, calls, job, pmail, sweeper, overdue, faults>>

dispatchOutboxEmail(p) ==
    /\ pat[p] = "dispatch"
    /\ enqueueMailOutboxJob(pmail[p])
    /\ EndProducer(p)
    /\ UNCHANGED <<row, calls, marker, sweeper, overdue, faults>>

\* The enqueue fails and is logged, or the producer dies at any of its steps.
ProducerFails(p) ==
    /\ pat[p] \in {"record", "mark", "dispatch"}
    /\ Fault
    /\ EndProducer(p)
    /\ UNCHANGED <<row, calls, job, marker, sweeper, overdue>>

ProducerStep(p) ==
    \/ insertMailOutbox(p) \/ markNotificationEmailDispatched(p) \/ dispatchOutboxEmail(p)

-----------------------------------------------------------------------------
(* processMailOutboxJob.                                                   *)

\* The job leaves the queue: completed, or failed for good.
Leave(j) ==
    /\ Go(j, "free")
    /\ jmail' = [jmail EXCEPT ![j] = 1]
    /\ tries' = [tries EXCEPT ![j] = 0]
    /\ stalls' = [stalls EXCEPT ![j] = 0]
    /\ seen' = [seen EXCEPT ![j] = FALSE]
    /\ err' = [err EXCEPT ![j] = "none"]

\* A job for a row whose insert has not committed, or never will.
Phantom(m) ==
    /\ status[m] = "absent"
    /\ Fault
    /\ enqueueMailOutboxJob(m)
    /\ UNCHANGED <<row, calls, producer, sweeper, overdue>>

findMailOutboxById(j) ==
    LET m == jmail[j] IN
    /\ jat[j] = "waiting"
    /\ IF status[m] = "absent"
       THEN Leave(j)
       ELSE /\ Go(j, "claim")
            /\ seen' = [seen EXCEPT ![j] = body[m]]
            /\ UNCHANGED <<jmail, tries, stalls, err>>
    /\ UNCHANGED <<row, calls, producer, sweeper, overdue, faults>>

\* Mutant: the claim takes a row another worker is sending.
ClaimUnlessTerminal(j) ==
    LET m == jmail[j] IN
    /\ jat[j] = "claim"
    /\ IF status[m] \in {"pending", "sending"}
       THEN /\ status' = [status EXCEPT ![m] = "sending"]
            /\ stale' = stale \ {m}
            /\ Go(j, "parse")
       ELSE Go(j, "look") /\ UNCHANGED <<status, stale>>
    /\ UNCHANGED <<body, old, unheard, calls, jmail, tries, stalls, seen, err, producer, sweeper, overdue, faults>>

\* UPDATE ... SET status = 'sending' WHERE status = 'pending'
tryClaimPendingMailOutbox(j) ==
    LET m == jmail[j] IN
    /\ jat[j] = "claim"
    /\ IF status[m] = "pending"
       THEN /\ status' = [status EXCEPT ![m] = "sending"]
            /\ stale' = stale \ {m}
            /\ Go(j, "parse")
       ELSE Go(j, "look") /\ UNCHANGED <<status, stale>>
    /\ UNCHANGED <<body, old, unheard, calls, jmail, tries, stalls, seen, err, producer, sweeper, overdue, faults>>

\* The SELECT after a missed claim: sent and in flight complete the job, in
\* flight even when the row is pending again; failed fails it for good.
ClaimMissed(j) ==
    /\ jat[j] = "look"
    /\ Leave(j)
    /\ UNCHANGED <<row, calls, producer, sweeper, overdue, faults>>

\* z.array(z.email()).parse throws outside the try block: the claim stays.
ParseAddresses(j) ==
    /\ jat[j] = "parse"
    /\ Go(j, IF jmail[j] \in Corrupt THEN "throw" ELSE "send")
    /\ UNCHANGED <<row, calls, jmail, tries, stalls, seen, err, producer, sweeper, overdue, faults>>

sendEmail(j) ==
    LET m == jmail[j] IN
    /\ jat[j] = "send"
    /\ calls' = [calls EXCEPT ![m] = @ + 1]
    /\ Go(j, "mark")
    /\ UNCHANGED <<row, jmail, tries, stalls, seen, err, producer, sweeper, overdue, faults>>

\* The circuit is open, Resend refuses, or its answer is lost.
SendFails(j) ==
    LET m == jmail[j] IN
    /\ jat[j] = "send"
    /\ Fault
    /\ \E e \in {"circuit_open", "error"}, accepted \in {0, 1} :
          /\ e = "circuit_open" => accepted = 0
          /\ err' = [err EXCEPT ![j] = e]
          /\ calls' = [calls EXCEPT ![m] = @ + accepted]
    /\ Go(j, "catch")
    /\ UNCHANGED <<row, jmail, tries, stalls, seen, producer, sweeper, overdue>>

\* Mutant: the row is left to the sweeper.
MarkSentForgotten(j) ==
    /\ jat[j] = "mark"
    /\ Leave(j)
    /\ UNCHANGED <<row, calls, producer, sweeper, overdue, faults>>

\* Unconditionally; the body is scrubbed.
markMailOutboxSent(j) ==
    LET m == jmail[j] IN
    /\ jat[j] = "mark"
    /\ status' = [status EXCEPT ![m] = "sent"]
    /\ body' = [body EXCEPT ![m] = FALSE]
    /\ Leave(j)
    /\ UNCHANGED <<old, stale, unheard, calls, producer, sweeper, overdue, faults>>

\* Its failure is caught like one of the call, its UPDATE committed or not.
MarkSentFails(j) ==
    LET m == jmail[j] IN
    /\ jat[j] = "mark"
    /\ Fault
    /\ \/ /\ status' = [status EXCEPT ![m] = "sent"]
          /\ body' = [body EXCEPT ![m] = FALSE]
          /\ unheard' = unheard \cup {m}
          /\ UNCHANGED <<old, stale>>
       \/ UNCHANGED row
    /\ err' = [err EXCEPT ![j] = "error"]
    /\ Go(j, "catch")
    /\ UNCHANGED <<calls, jmail, tries, stalls, seen, producer, sweeper, overdue>>

isFinalJobAttempt(j) == tries[j] + 1 >= MaxAttempts

markMailOutboxFailed(m) ==
    /\ status' = [status EXCEPT ![m] = "failed"]
    /\ body' = [body EXCEPT ![m] = FALSE]

\* Mutant: the release scrubs the body as the two marks do.
ReleaseScrubbed(m) ==
    /\ status' = [status EXCEPT ![m] = IF @ = "sending" THEN "pending" ELSE @]
    /\ body' = [body EXCEPT ![m] = FALSE]

releaseMailOutboxClaim(m) ==
    /\ status' = [status EXCEPT ![m] = IF @ = "sending" THEN "pending" ELSE @]
    /\ UNCHANGED body

Catch(j) ==
    /\ jat[j] = "catch"
    /\ IF isFinalJobAttempt(j) /\ err[j] # "circuit_open"
       THEN markMailOutboxFailed(jmail[j])
       ELSE releaseMailOutboxClaim(jmail[j])
    /\ unheard' = unheard \ {jmail[j]}
    /\ Go(j, "throw")
    /\ UNCHANGED <<old, stale, calls, jmail, tries, stalls, seen, err, producer, sweeper, overdue, faults>>

\* A statement outside the try block fails: the read, the claim before or
\* after it took effect, the look after it, or a write of the catch block.
StatementFails(j) ==
    /\ jat[j] \in {"waiting", "claim", "look", "parse", "catch"}
    /\ Fault
    /\ Go(j, "throw")
    /\ UNCHANGED <<row, calls, jmail, tries, stalls, seen, err, producer, sweeper, overdue>>

\* BullMQ: another attempt, or the dead-letter queue.
AttemptFails(j) ==
    /\ jat[j] = "throw"
    /\ IF isFinalJobAttempt(j)
       THEN Leave(j)
       ELSE /\ Go(j, "waiting")
            /\ tries' = [tries EXCEPT ![j] = @ + 1]
            /\ seen' = [seen EXCEPT ![j] = FALSE]
            /\ err' = [err EXCEPT ![j] = "none"]
            /\ UNCHANGED <<jmail, stalls>>
    /\ UNCHANGED <<row, calls, producer, sweeper, overdue, faults>>

\* The worker dies: the job stalls, and is failed the second time.
Crash(j) ==
    /\ jat[j] \notin {"free", "waiting"}
    /\ Fault
    /\ IF stalls[j] = 1
       THEN Leave(j)
       ELSE /\ Go(j, "waiting")
            /\ stalls' = [stalls EXCEPT ![j] = 1]
            /\ seen' = [seen EXCEPT ![j] = FALSE]
            /\ err' = [err EXCEPT ![j] = "none"]
            /\ UNCHANGED <<jmail, tries>>
    /\ UNCHANGED <<row, calls, producer, sweeper, overdue>>

JobStep(j) ==
    \/ findMailOutboxById(j) \/ tryClaimPendingMailOutbox(j) \/ ClaimMissed(j) \/ ParseAddresses(j)
    \/ sendEmail(j) \/ markMailOutboxSent(j) \/ Catch(j) \/ AttemptFails(j)

JobFault(j) == SendFails(j) \/ MarkSentFails(j) \/ StatementFails(j) \/ Crash(j)

-----------------------------------------------------------------------------
(* runMailOutboxSweeperJob.                                                *)

\* Rows age; the cutoff for sending rows lies far above a delivery.
Age(m) ==
    /\ \/ status[m] = "pending" /\ m \notin old /\ old' = old \cup {m} /\ UNCHANGED stale
       \/ /\ status[m] = "sending" /\ m \notin stale
          /\ stale' = stale \cup {m}
          /\ Holders(m) = {}
          /\ UNCHANGED old
    /\ UNCHANGED <<status, body, unheard, calls, job, producer, sweeper, overdue, faults>>

\* A delivery takes longer than the cutoff all the same.
Overrun(m) ==
    /\ status[m] = "sending" /\ m \notin stale /\ Holders(m) # {}
    /\ Fault
    /\ stale' = stale \cup {m}
    /\ overdue' = TRUE
    /\ UNCHANGED <<status, body, old, unheard, calls, job, producer, sweeper>>

\* The oldest Batch claims past the cutoff; which are oldest is left open.
\* The UPDATE repeats the conditions of the SELECT before it.
reclaimStaleSendingMailOutboxIds ==
    LET found == {m \in Mails : status[m] = "sending" /\ m \in stale} IN
    /\ sat = "idle"
    /\ \E ids \in SUBSET found :
          /\ Cardinality(ids) = IF Cardinality(found) < Batch THEN Cardinality(found) ELSE Batch
          /\ status' = [m \in Mails |-> IF m \in ids THEN "pending" ELSE status[m]]
          /\ stale' = stale \ ids
          /\ todo' = ids
          /\ room' = Batch - Cardinality(ids)
    /\ sat' = "scan"
    /\ UNCHANGED <<body, old, unheard, calls, job, producer, overdue, faults>>

\* Mutant: off by one.
ScanOneLess ==
    LET found == {m \in Mails : status[m] = "pending" /\ m \in old} IN
    /\ sat = "scan"
    /\ todo' = todo \cup {m \in found : Cardinality({k \in found : k < m}) + 1 < room}
    /\ room' = 0
    /\ sat' = "enqueue"
    /\ UNCHANGED <<row, calls, job, producer, overdue, faults>>

findStalePendingMailOutboxIds ==
    LET found == {m \in Mails : status[m] = "pending" /\ m \in old} IN
    /\ sat = "scan"
    /\ todo' = todo \cup {m \in found : Cardinality({k \in found : k < m}) < room}
    /\ room' = 0
    /\ sat' = "enqueue"
    /\ UNCHANGED <<row, calls, job, producer, overdue, faults>>

\* One enqueue per id; an error is logged and left to the next sweep.
SweepEnqueue ==
    /\ sat = "enqueue" /\ todo # {}
    /\ \E m \in todo :
          /\ todo' = todo \ {m}
          /\ \/ enqueueMailOutboxJob(m) /\ UNCHANGED faults
             \/ Fault /\ UNCHANGED job
    /\ UNCHANGED <<row, calls, producer, sat, room, overdue>>

SweepEnds ==
    /\ sat = "enqueue" /\ todo = {}
    /\ sat' = "idle"
    /\ UNCHANGED <<row, calls, job, producer, todo, room, overdue, faults>>

SweepCrashes ==
    /\ sat # "idle"
    /\ Fault
    /\ sat' = "idle" /\ todo' = {} /\ room' = 0
    /\ UNCHANGED <<row, calls, job, producer, overdue>>

Sweep ==
    \/ reclaimStaleSendingMailOutboxIds \/ findStalePendingMailOutboxIds
    \/ SweepEnqueue \/ SweepEnds

-----------------------------------------------------------------------------
Next ==
    \/ \E p \in Producers :
          \/ \E m \in Mails : Produce(p, m)
          \/ ProducerStep(p)
          \/ ProducerFails(p)
    \/ \E m \in Mails : Phantom(m) \/ Age(m) \/ Overrun(m)
    \/ \E j \in Jobs : JobStep(j) \/ JobFault(j)
    \/ Sweep
    \/ SweepCrashes

Spec == Init /\ [][Next]_vars

(***************************************************************************)
(* Producers and workers run, time passes, and the sweeper is a repeatable *)
(* job.                                                                    *)
(***************************************************************************)
FairSpec ==
    /\ Spec
    /\ \A p \in Producers : WF_vars(ProducerStep(p))
    /\ \A j \in Jobs : WF_vars(JobStep(j))
    /\ \A m \in Mails : WF_vars(Age(m))
    /\ WF_vars(Sweep)

-----------------------------------------------------------------------------
(***************************************************************************)
(* The atomic claim: whatever duplicates producers, retries and sweeps put *)
(* in the queue, one worker at a time sends a row, unless a delivery       *)
(* outlasts MAIL_OUTBOX_RECLAIM_SENDING_MINUTES.                           *)
(***************************************************************************)
OneSenderPerRow ==
    ~overdue => \A m \in Mails : \A j, k \in Holders(m) : j = k

(***************************************************************************)
(* The processor reads the row before it claims it.  What it read is never *)
(* a body scrubbed by markMailOutboxSent or markMailOutboxFailed, overdue  *)
(* deliveries included: no email leaves empty.                             *)
(***************************************************************************)
BodyIsIntact ==
    \A j \in Jobs : jat[j] \in {"parse", "send"} => seen[j]

(***************************************************************************)
(* A second call to Resend for one row needs a fault, so that the          *)
(* idempotency key only has to collapse calls whose answer, mark or worker *)
(* was lost.                                                               *)
(***************************************************************************)
SecondCallNeedsFault ==
    \A m \in Mails : calls[m] <= 1 + faults

(***************************************************************************)
(* sent is reported only of an email Resend accepted, and is final: the    *)
(* unconditional markMailOutboxFailed of another job never overwrites it,  *)
(* unless a delivery was overdue.  The last attempt of a job that lost the *)
(* answer to its own markMailOutboxSent does write failed over it.         *)
(***************************************************************************)
SentIsFinal ==
    [][\A m \in Mails : status[m] = "sent" =>
          /\ calls[m] > 0
          /\ ~overdue /\ m \notin unheard => status'[m] = "sent"]_vars

(***************************************************************************)
(* Every row is sent or failed in the end: a job lost to an enqueue error, *)
(* a crash, a skipped attempt or the dead-letter queue is made up for by   *)
(* the sweeper, and its batch starves no row.                              *)
(***************************************************************************)
EventuallySettled ==
    \A m \in Mails : status[m] # "absent" ~> status[m] \in {"sent", "failed"}
=============================================================================
