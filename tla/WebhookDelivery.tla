-------------------------- MODULE WebhookDelivery --------------------------
(***************************************************************************)
(* Outbound webhooks (domains/notify/sub-domains/webhook): a delivery      *)
(* attempt is a row inserted with the event, whose job is added after the  *)
(* commit.  Workers claim the row (tryMarkSending), POST to the            *)
(* subscriber, and record the outcome, each in a transaction of its own.   *)
(* A job that throws is tried again, and after its last attempt becomes a  *)
(* dead letter (module DeadLetter), whose replays reach the same workers.  *)
(***************************************************************************)
EXTENDS DeadLetter

CONSTANTS
    Workers,
    None,
    BypassRls  \* the API's database role is not subject to row level security:
               \* a local one; a hosted API refuses to start with it

ASSUME WorkersAssumption == None \notin Jobs /\ IsFiniteSet(Workers) /\ BypassRls \in BOOLEAN

VARIABLES
    row,       \* delivery -> status
    count,     \* delivery -> attempt_count
    old,       \* rows whose sent_at is older than the lease
    owed,      \* committed deliveries whose enqueue has not run
    enabled,   \* the webhook is enabled and not deleted
    pc,        \* worker -> what it does next
    on,        \* worker -> the job it runs
    nth,       \* worker -> attemptsMade + 1 of its copy of the job
    holds,     \* workers that hold the lock of their job
    mine,      \* workers that have claimed the row and not yet settled it
    got,       \* history: delivery -> POSTs the subscriber has accepted
    unsure,    \* history: the job was added, but its producer saw an error
    robbed,    \* history: the row was taken from a worker that still has it
    stranded   \* history: nobody is left to record an outcome

local == <<pc, on, nth, holds, mine>>
table == <<row, count, old, owed, enabled>>
history == <<got, unsure, robbed, stranded>>
vars == <<queue, ledger, faults, local, table, history>>

Status == {"none", "PENDING", "SENDING", "FAILED", "SENT"}
Claiming == {"read", "pending", "failed", "stale"}

TypeOK ==
    /\ QueueTypeOK
    /\ row \in [Deliveries -> Status]
    /\ count \in [Deliveries -> 0..MaxAttempts]
    /\ old \in SUBSET Deliveries /\ owed \in SUBSET Deliveries
    /\ enabled \in BOOLEAN
    /\ pc \in [Workers -> Claiming \cup
                 {"idle", "post", "sent", "refused", "fail", "giveup", "done", "throw", "unrecoverable"}]
    /\ on \in [Workers -> Jobs \cup {None}]
    /\ nth \in [Workers -> 0..MaxAttempts]
    /\ holds \in SUBSET Workers /\ mine \in SUBSET Workers
    /\ got \in [Deliveries -> 0..MaxAttempts * (1 + NReplays)]
    /\ unsure \in SUBSET Deliveries /\ robbed \in SUBSET Deliveries
    /\ stranded \in SUBSET Deliveries

Init ==
    /\ QueueInit
    /\ row = [d \in Deliveries |-> "none"]
    /\ count = [d \in Deliveries |-> 0]
    /\ old = {} /\ owed = {}
    /\ enabled = TRUE
    /\ pc = [w \in Workers |-> "idle"]
    /\ on = [w \in Workers |-> None]
    /\ nth = [w \in Workers |-> 0]
    /\ holds = {} /\ mine = {}
    /\ got = [d \in Deliveries |-> 0]
    /\ unsure = {} /\ robbed = {} /\ stranded = {}

\* The delivery a worker is about.
Of(w) == on[w][1]

-----------------------------------------------------------------------------
(* The producer.                                                           *)

\* dispatchOrganizationWebhooks: the PENDING row commits with the event; the
\* handler leaves the enqueue to the end of the request, in memory.  An error
\* before that is only logged.
Request(d) ==
    /\ enabled
    /\ row[d] = "none"
    /\ row' = [row EXCEPT ![d] = "PENDING"]
    /\ \/ owed' = owed \cup {d} /\ UNCHANGED <<stranded, faults>>
       \/ Fault /\ stranded' = stranded \cup {d} /\ UNCHANGED owed
    /\ UNCHANGED <<queue, ledger, local, count, old, enabled, got, unsure, robbed>>

\* markDeliveryAttemptEnqueueFailed writes FAILED over anything.  It runs in
\* onResponse, when the request's database context has ended: a role that is
\* subject to row level security sees no row to update.
Marked(d) == IF BypassRls THEN [row EXCEPT ![d] = "FAILED"] ELSE row

\* enqueueWebhookDeliveryByAttemptId, and the mark if it throws.
Enqueue(d) ==
    /\ d \in owed \ unsure
    /\ owed' = owed \ {d}
    /\ \/ job' = [job EXCEPT ![<<d, 0>>] = "waiting"] /\ UNCHANGED <<row, stranded, faults>>
       \/ /\ Fault
          /\ row' = Marked(d)
          /\ stranded' = stranded \cup {d}
          /\ UNCHANGED job
    /\ UNCHANGED <<made, stalls, ledger, local, count, old, enabled, got, unsure, robbed>>

\* The job is added, but the answer is lost; the mark comes later.
EnqueueUnanswered(d) ==
    /\ d \in owed \ unsure
    /\ Fault
    /\ job' = [job EXCEPT ![<<d, 0>>] = "waiting"]
    /\ unsure' = unsure \cup {d}
    /\ UNCHANGED <<made, stalls, ledger, local, table, got, robbed, stranded>>

MarkEnqueueFailed(d) ==
    /\ d \in owed \cap unsure
    /\ owed' = owed \ {d}
    /\ row' = Marked(d)
    /\ robbed' = IF BypassRls /\ \E v \in mine : Of(v) = d THEN robbed \cup {d} ELSE robbed
    /\ UNCHANGED <<queue, ledger, faults, local, count, old, enabled, got, unsure, stranded>>

\* The process dies between the commit and the enqueue.
ProducerDies(d) ==
    /\ d \in owed
    /\ Fault
    /\ owed' = owed \ {d}
    /\ stranded' = IF d \in unsure THEN stranded ELSE stranded \cup {d}
    /\ UNCHANGED <<queue, ledger, local, row, count, old, enabled, got, unsure, robbed>>

\* update and delete of the webhook.
Toggle ==
    /\ enabled' = ~enabled
    /\ UNCHANGED <<queue, ledger, faults, local, row, count, old, owed, history>>

-----------------------------------------------------------------------------
(* A worker.                                                               *)

Goto(w, to) == pc' = [pc EXCEPT ![w] = to]
KeepsJob == UNCHANGED <<on, nth, holds>>
KeepsLocal == KeepsJob /\ UNCHANGED mine

Start(w, j) ==
    /\ pc[w] = "idle"
    /\ job[j] = "waiting"
    /\ job' = [job EXCEPT ![j] = "active"]
    /\ on' = [on EXCEPT ![w] = j]
    /\ nth' = [nth EXCEPT ![w] = made[j] + 1]
    /\ holds' = holds \cup {w}
    /\ Goto(w, "read")
    /\ UNCHANGED <<made, stalls, ledger, faults, mine, table, history>>

\* The job's data is not what the schema wants: the worker does not start.
RefuseJob(j) ==
    /\ job[j] = "waiting"
    /\ Refuse(j)
    /\ stranded' = stranded \cup {j[1]}
    /\ UNCHANGED <<local, table, got, unsure, robbed>>

\* Mutant: without the guard on SENT.
RecordOutcomeAnyway(w, status) ==
    /\ row' = [row EXCEPT ![Of(w)] = status]
    /\ robbed' = IF \E v \in mine \ {w} : Of(v) = Of(w)
                 THEN robbed \cup {Of(w)} ELSE robbed

\* recordOutcome: SENT is never overwritten, anything else is.
RecordOutcome(w, status) ==
    /\ row' = [row EXCEPT ![Of(w)] = IF @ = "SENT" THEN @ ELSE status]
    /\ robbed' = IF \E v \in mine \ {w} : Of(v) = Of(w)
                 THEN robbed \cup {Of(w)} ELSE robbed

\* Mutant: the job of a disabled webhook is done, and its row left alone.
ReadWebhookDrops(w) ==
    /\ pc[w] = "read"
    /\ Goto(w, IF enabled THEN "pending" ELSE "done")
    /\ KeepsLocal
    /\ UNCHANGED <<queue, ledger, faults, table, history>>

\* The webhook may have been disabled since: FAILED, and the job is done.
ReadWebhook(w) ==
    /\ pc[w] = "read"
    /\ \/ enabled /\ Goto(w, "pending") /\ UNCHANGED <<row, robbed>>
       \/ ~enabled /\ RecordOutcome(w, "FAILED") /\ Goto(w, "done")
    /\ KeepsLocal
    /\ UNCHANGED <<queue, ledger, faults, count, old, owed, enabled, got, unsure, stranded>>

\* One UPDATE of tryMarkSending; a row it takes is SENDING from now on.
Take(w, claimable, otherwise) ==
    /\ \/ /\ claimable
          /\ row' = [row EXCEPT ![Of(w)] = "SENDING"]
          /\ count' = [count EXCEPT ![Of(w)] = nth[w]]
          /\ old' = old \ {Of(w)}
          /\ mine' = mine \cup {w}
          /\ Goto(w, "post")
       \/ /\ ~claimable
          /\ Goto(w, otherwise)
          /\ UNCHANGED <<row, count, old, mine>>
    /\ UNCHANGED <<queue, ledger, faults, on, nth, holds, owed, enabled, history>>

ClaimPending(w) == pc[w] = "pending" /\ Take(w, row[Of(w)] = "PENDING", "failed")

ClaimFailed(w) ==
    /\ pc[w] = "failed"
    /\ Take(w, row[Of(w)] = "FAILED" /\ count[Of(w)] < nth[w], "stale")

\* Mutant: the reclaim does not look at the lease.
ClaimStaleAtOnce(w) == pc[w] = "stale" /\ Take(w, row[Of(w)] = "SENDING", "done")

\* The SELECT after it tells already_sent from in_flight; both are done.
ClaimStale(w) ==
    pc[w] = "stale" /\ Take(w, row[Of(w)] = "SENDING" /\ Of(w) \in old, "done")

\* An error in the claim, the commit's answer included, is recorded.
ClaimFails(w) ==
    /\ pc[w] \in Claiming
    /\ Fault
    /\ Goto(w, "fail")
    /\ KeepsLocal
    /\ UNCHANGED <<queue, ledger, table, history>>

\* The secret: it cannot be decrypted, and the row stays SENDING; or it is
\* empty, which is recorded and not retried.
SecretFails(w) ==
    /\ pc[w] = "post"
    /\ Fault
    /\ \/ Goto(w, "throw") /\ stranded' = stranded \cup {Of(w)}
       \/ Goto(w, "giveup") /\ UNCHANGED stranded
    /\ KeepsLocal
    /\ UNCHANGED <<queue, ledger, table, got, unsure, robbed>>

\* Mutant: only some of the 2xx answers count as success.
PostRefusesSome(w) ==
    /\ pc[w] = "post"
    /\ got' = [got EXCEPT ![Of(w)] = @ + 1]
    /\ \/ Goto(w, "sent") \/ Goto(w, "fail")
    /\ KeepsLocal
    /\ UNCHANGED <<queue, ledger, faults, table, unsure, robbed, stranded>>

\* The POST: accepted; refused; not sent (the circuit is open); accepted with
\* the answer lost.
Post(w) ==
    /\ pc[w] = "post"
    /\ \/ /\ got' = [got EXCEPT ![Of(w)] = @ + 1]
          /\ Goto(w, "sent")
          /\ UNCHANGED faults
       \/ /\ Goto(w, "refused") \/ Goto(w, "fail")
          /\ UNCHANGED <<got, faults>>
       \/ /\ Fault
          /\ got' = [got EXCEPT ![Of(w)] = @ + 1]
          /\ Goto(w, "fail")
    /\ KeepsLocal
    /\ UNCHANGED <<queue, ledger, table, unsure, robbed, stranded>>

\* SENT; an error here, after the UPDATE or before it, is taken for a failure
\* of the delivery.
RecordSent(w) ==
    /\ pc[w] = "sent"
    /\ \/ RecordOutcome(w, "SENT") /\ mine' = mine \ {w} /\ Goto(w, "done") /\ UNCHANGED faults
       \/ Fault /\ RecordOutcome(w, "SENT") /\ Goto(w, "fail") /\ UNCHANGED mine
       \/ Fault /\ Goto(w, "fail") /\ UNCHANGED <<row, robbed, mine>>
    /\ KeepsJob
    /\ UNCHANGED <<queue, ledger, count, old, owed, enabled, got, unsure, stranded>>

\* FAILED, then the error goes on to BullMQ.  If a refusal cannot be recorded,
\* before or after the UPDATE, that is recorded as a failure once more; if
\* that fails too, or the secret was empty, nobody records it.
RecordFailed(w) ==
    /\ pc[w] \in {"refused", "fail", "giveup"}
    /\ \/ /\ RecordOutcome(w, "FAILED")
          /\ mine' = mine \ {w}
          /\ Goto(w, IF pc[w] = "giveup" THEN "unrecoverable" ELSE "throw")
          /\ UNCHANGED <<faults, stranded>>
       \/ /\ Fault
          /\ \/ RecordOutcome(w, "FAILED") /\ mine' = mine \ {w}
             \/ UNCHANGED <<row, robbed, mine>>
          /\ \/ pc[w] = "refused" /\ Goto(w, "fail") /\ UNCHANGED stranded
             \/ pc[w] # "refused" /\ Goto(w, "throw") /\ stranded' = stranded \cup {Of(w)}
    /\ KeepsJob
    /\ UNCHANGED <<queue, ledger, count, old, owed, enabled, got, unsure>>

\* BullMQ takes the result from the worker that holds the job's lock.
End(w) ==
    /\ pc[w] \in {"done", "throw", "unrecoverable"}
    /\ Goto(w, "idle")
    /\ on' = [on EXCEPT ![w] = None]
    /\ nth' = [nth EXCEPT ![w] = 0]
    /\ holds' = holds \ {w} /\ mine' = mine \ {w}
    /\ \/ w \notin holds /\ UNCHANGED <<queue, ledger, faults>>
       \/ w \in holds /\ pc[w] = "done" /\ Finish(on[w])
       \/ w \in holds /\ pc[w] = "throw" /\ Throw(on[w])
       \/ w \in holds /\ pc[w] = "unrecoverable" /\ GiveUp(on[w])
    /\ UNCHANGED <<table, history>>

\* The job stalls and is handed out again, unless it has stalled too often:
\* then it fails, without a letter.  Its worker is dead, or goes on.
Stall(w) ==
    LET j == on[w]
        again == stalls[j] < MaxStalled
    IN  /\ w \in holds
        /\ Fault
        /\ job' = [job EXCEPT ![j] = IF again THEN "waiting" ELSE "failed"]
        /\ stalls' = [stalls EXCEPT ![j] = IF again THEN @ + 1 ELSE @]
        /\ holds' = holds \ {w}
        /\ stranded' = IF again /\ w \notin mine THEN stranded ELSE stranded \cup {Of(w)}
        /\ \/ /\ Goto(w, "idle")
              /\ on' = [on EXCEPT ![w] = None]
              /\ nth' = [nth EXCEPT ![w] = 0]
              /\ mine' = mine \ {w}
           \/ UNCHANGED <<pc, on, nth, mine>>
        /\ UNCHANGED <<made, ledger, table, got, unsure, robbed>>

\* WEBHOOK_DELIVERY_STUCK_SENDING_LEASE_MINUTES after the claim: longer than
\* any delivery takes, unless its worker was held up.
LeaseEnds(d) ==
    /\ row[d] = "SENDING" /\ d \notin old
    /\ old' = old \cup {d}
    /\ \/ (\A w \in mine : Of(w) # d) /\ UNCHANGED <<faults, robbed>>
       \/ (\E w \in mine : Of(w) = d) /\ Fault /\ robbed' = robbed \cup {d}
    /\ UNCHANGED <<queue, ledger, local, row, count, owed, enabled, got, unsure, stranded>>

Step(w) ==
    \/ \E j \in Jobs : Start(w, j)
    \/ ReadWebhook(w) \/ ClaimPending(w) \/ ClaimFailed(w) \/ ClaimStale(w)
    \/ Post(w) \/ RecordSent(w) \/ RecordFailed(w)
    \/ End(w)

Webhooks == UNCHANGED <<local, table, history>>

Next ==
    \/ \E d \in Deliveries : \/ Request(d) \/ Enqueue(d) \/ EnqueueUnanswered(d)
                             \/ MarkEnqueueFailed(d) \/ ProducerDies(d) \/ LeaseEnds(d)
    \/ Toggle
    \/ \E w \in Workers : Step(w) \/ ClaimFails(w) \/ SecretFails(w) \/ Stall(w)
    \/ (Sweeper \/ SweepDies \/ OthersHold) /\ Webhooks
    \/ \E j \in Jobs : RefuseJob(j) \/ ((CooldownEnds(j) \/ ManualReplay(j)) /\ Webhooks)

\* Processes that are up make progress and are restarted; the sweep is a
\* repeatable job; cooldowns pass.  Nothing makes an operator act, a lease
\* matter or an event happen.
Fairness ==
    /\ \A d \in Deliveries : WF_vars(Enqueue(d)) /\ WF_vars(MarkEnqueueFailed(d))
    /\ \A w \in Workers : WF_vars(Step(w))
    /\ WF_vars(Sweeper /\ Webhooks)
    /\ \A j \in Jobs : WF_vars(CooldownEnds(j) /\ Webhooks)

Spec == Init /\ [][Next]_vars /\ Fairness

-----------------------------------------------------------------------------
(* Properties.                                                             *)

Senders(d) == {w \in mine : Of(w) = d}

\* Two workers never deliver the same row at once, whatever jobs exist for
\* it, unless the lease ended under the first, or a worker without a claim or
\* the producer recorded an outcome over the first one's.
OneSender == \A d \in Deliveries \ robbed : Cardinality(Senders(d)) <= 1

\* A delivered row stays SENT, whatever fails and whoever else works on it;
\* only under a role that bypasses row level security does a producer that
\* added the job and saw an error mark it as never enqueued.
SentIsFinal ==
    [][\A d \in Deliveries :
          row[d] = "SENT" /\ ~(BypassRls /\ d \in unsure) => row'[d] = "SENT"]_vars

\* The subscriber accepts an event twice only after something failed, and a
\* failure costs it at most one more copy: neither retries nor replays of a
\* dead letter deliver again what was delivered.
CopiesNeedFaults == \A d \in Deliveries : got[d] <= 1 + faults

\* A delivery that was committed ends SENT or FAILED, unless its job was never
\* added (the producer died or Redis failed: the mark does not reach the row),
\* was refused as invalid or stalled too often, or its outcome could not be
\* recorded.
DeliveriesSettle ==
    \A d \in Deliveries :
        row[d] = "PENDING" ~> row[d] \in {"SENT", "FAILED"} \/ d \in stranded
=============================================================================
