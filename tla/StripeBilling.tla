--------------------------- MODULE StripeBilling ---------------------------
(***************************************************************************)
(* The subscription rows of one organization, written from two sides: the  *)
(* HTTP operations of SubscriptionService (create, changePlan, cancel,     *)
(* resume, offboarding), each of which reads the row, calls Stripe outside *)
(* any transaction and writes the row afterwards, and the dispatch of      *)
(* Stripe's events by StripeWebhookService, in any order.                  *)
(*                                                                         *)
(* Time runs in halves of a second: a watermark stamped with new Date()    *)
(* keeps the half, Stripe's event.created does not.  Local and Stripe      *)
(* clocks agree.  Subscriptions are numbered in the order Stripe mints     *)
(* them.  A dispatch is one transaction at READ COMMITTED: each statement  *)
(* is a step, and what it wrote appears with the step that commits.        *)
(***************************************************************************)
EXTENDS Naturals, FiniteSets

CONSTANTS
    NSubs,       \* bound: subscriptions Stripe mints
    Reqs,        \* HTTP requests
    Plans,       \* prices of the local catalog
    Unsynced,    \* a Stripe price without a local plan
    Ops,         \* the operations requests may carry out
    MaxTime,     \* bound on the clock
    MaxEvents,   \* bound: events Stripe emits
    MaxFaults,   \* bound: crashes and failed calls
    LockLapses,  \* may a create outlive its Redis lock?
    LateWrites   \* may time pass between new Date() and its UPDATE?

AllOps == {"create", "change", "cancel", "cancel_now", "resume"}

ASSUME BoundsAssumption ==
    /\ NSubs \in Nat /\ MaxTime \in Nat /\ MaxEvents \in Nat /\ MaxFaults \in Nat
    /\ MaxTime >= 2

ASSUME SetsAssumption == Ops \subseteq AllOps /\ Unsynced \notin Plans

ASSUME ModesAssumption == LockLapses \in BOOLEAN /\ LateWrites \in BOOLEAN

Subs == 1..NSubs
Ids == 1..MaxEvents
None == "none"

ASSUME NoneAssumption == None \notin Reqs /\ None \notin Plans \cup {Unsynced}

VARIABLES
    now,      \* the clock
    sstatus,  \* subscription -> its status at Stripe, or None
    splan,    \* subscription -> its price at Stripe
    scape,    \* subscription -> cancel_at_period_end at Stripe
    n,        \* events 1..n exist
    etype,    \* event -> created, updated or deleted
    esub,     \* event -> its subscription
    ecreated, \* event -> event.created
    estatus,  \* event -> the subscription's status, price and flag then
    eplan,
    ecape,
    pc,       \* event -> the statement its dispatch is at
    done,     \* events the ledger holds as processed
    rstatus,  \* subscription -> status of its local row, or "absent"
    rplan,    \* subscription -> plan_id
    rcape,    \* subscription -> cancel_at_period_end
    wm,       \* subscription -> last_stripe_event_created_at
    tomb,     \* subscription -> deleted_event_created_at of its tombstone, or 0
    op,       \* request -> its operation
    at,       \* request -> its step
    tgt,      \* request -> its subscription
    plan,     \* request -> the plan asked for
    prev,     \* request -> the plan read before the change
    stamp,    \* request -> its new Date()
    answer,   \* request -> its answer
    lock,     \* the organization's create lock: its holder, or None
    faults    \* faults suffered

stripe == <<sstatus, splan, scape, n, etype, esub, ecreated, estatus, eplan, ecape>>
rows == <<rstatus, rplan, rcape, wm>>
req == <<op, at, tgt, plan, prev, stamp, answer>>

vars == <<now, stripe, pc, done, rows, tomb, req, lock, faults>>

\* trialing, unpaid and paused fare as active and past_due do.
statusMap == [incomplete |-> "INCOMPLETE", active |-> "ACTIVE", past_due |-> "PAST_DUE",
              canceled |-> "CANCELED", incomplete_expired |-> "INCOMPLETE_EXPIRED"]

StripeStatuses == {"incomplete", "active", "past_due", "canceled", "incomplete_expired"}
RowStatuses == {"INCOMPLETE", "ACTIVE", "PAST_DUE", "CANCELED", "INCOMPLETE_EXPIRED", "absent"}

\* INACTIVE_SUBSCRIPTION_STATUSES, and their counterparts at Stripe.
Inactive == {"CANCELED", "INCOMPLETE_EXPIRED"}
Over == {"canceled", "incomplete_expired"}

\* event.created has a resolution of one second.
Sec(t) == t - (t % 2)

Prices == Plans \cup {Unsynced}

EventTypes == {"created", "updated", "deleted"}

Dispatches == {"idle", "tombstone", "exists", "insert", "recheck", "entomb"}
Steps == {"idle", "precheck", "stripe", "stamp", "write", "compensate", "done"}
Answers == {None, "ok", "conflict", "rolled_back", "unavailable", "not_found", "lost"}

TypeOK ==
    /\ now \in 2..MaxTime
    /\ sstatus \in [Subs -> StripeStatuses \cup {None}]
    /\ splan \in [Subs -> Prices \cup {None}]
    /\ scape \in [Subs -> BOOLEAN]
    /\ n \in 0..MaxEvents
    /\ etype \in [Ids -> EventTypes \cup {None}]
    /\ esub \in [Ids -> 0..NSubs]
    /\ ecreated \in [Ids -> 0..MaxTime]
    /\ estatus \in [Ids -> StripeStatuses \cup {None}]
    /\ eplan \in [Ids -> Prices \cup {None}]
    /\ ecape \in [Ids -> BOOLEAN]
    /\ pc \in [Ids -> Dispatches]
    /\ done \in SUBSET (1..n)
    /\ rstatus \in [Subs -> RowStatuses]
    /\ rplan \in [Subs -> Plans \cup {None}]
    /\ rcape \in [Subs -> BOOLEAN]
    /\ wm \in [Subs -> 0..MaxTime]
    /\ tomb \in [Subs -> 0..MaxTime]
    /\ op \in [Reqs -> AllOps \cup {None}]
    /\ at \in [Reqs -> Steps]
    /\ tgt \in [Reqs -> 0..NSubs]
    /\ plan \in [Reqs -> Plans \cup {None}]
    /\ prev \in [Reqs -> Plans \cup {None}]
    /\ stamp \in [Reqs -> 0..MaxTime]
    /\ answer \in [Reqs -> Answers]
    /\ lock \in Reqs \cup {None}
    /\ faults \in 0..MaxFaults

Init ==
    /\ now = 2
    /\ sstatus = [s \in Subs |-> None]
    /\ splan = [s \in Subs |-> None]
    /\ scape = [s \in Subs |-> FALSE]
    /\ n = 0
    /\ etype = [i \in Ids |-> None]
    /\ esub = [i \in Ids |-> 0]
    /\ ecreated = [i \in Ids |-> 0]
    /\ estatus = [i \in Ids |-> None]
    /\ eplan = [i \in Ids |-> None]
    /\ ecape = [i \in Ids |-> FALSE]
    /\ pc = [i \in Ids |-> "idle"]
    /\ done = {}
    /\ rstatus = [s \in Subs |-> "absent"]
    /\ rplan = [s \in Subs |-> None]
    /\ rcape = [s \in Subs |-> FALSE]
    /\ wm = [s \in Subs |-> 0]
    /\ tomb = [s \in Subs |-> 0]
    /\ op = [r \in Reqs |-> None]
    /\ at = [r \in Reqs |-> "idle"]
    /\ tgt = [r \in Reqs |-> 0]
    /\ plan = [r \in Reqs |-> None]
    /\ prev = [r \in Reqs |-> None]
    /\ stamp = [r \in Reqs |-> 0]
    /\ answer = [r \in Reqs |-> None]
    /\ lock = None
    /\ faults = 0

Fault == faults < MaxFaults /\ faults' = faults + 1

\* The clock; a stamp is written at once unless LateWrites.
Tick ==
    /\ now < MaxTime
    /\ LateWrites \/ \A r \in Reqs : at[r] # "write"
    /\ now' = now + 1
    /\ UNCHANGED <<stripe, pc, done, rows, tomb, req, lock, faults>>

-----------------------------------------------------------------------------
(* Stripe.                                                                 *)

\* Subscription s changes and an event carries its new state.
Change(s, type, status, price, cape) ==
    /\ n < MaxEvents
    /\ n' = n + 1
    /\ etype' = [etype EXCEPT ![n + 1] = type]
    /\ esub' = [esub EXCEPT ![n + 1] = s]
    /\ ecreated' = [ecreated EXCEPT ![n + 1] = Sec(now)]
    /\ estatus' = [estatus EXCEPT ![n + 1] = status]
    /\ eplan' = [eplan EXCEPT ![n + 1] = price]
    /\ ecape' = [ecape EXCEPT ![n + 1] = cape]
    /\ sstatus' = [sstatus EXCEPT ![s] = status]
    /\ splan' = [splan EXCEPT ![s] = price]
    /\ scape' = [scape EXCEPT ![s] = cape]

Live(s) == sstatus[s] \notin Over \cup {None}

\* Customers and billing periods act some time after the last change.
Later(s) == \A i \in 1..n : esub[i] = s => ecreated[i] < Sec(now)

\* The customer confirms the payment, a second or more after the row led them to it.
Pay(s) ==
    /\ sstatus[s] = "incomplete"
    /\ rstatus[s] = "INCOMPLETE"
    /\ Later(s) /\ wm[s] < Sec(now)
    /\ Change(s, "updated", "active", splan[s], scape[s])

PaymentFails(s) ==
    /\ sstatus[s] = "active"
    /\ Later(s)
    /\ Change(s, "updated", "past_due", splan[s], scape[s])

\* 23 hours without a payment: no request on the subscription lasts as long.
Abandon(s) ==
    /\ sstatus[s] = "incomplete"
    /\ Later(s) /\ wm[s] < Sec(now)
    /\ \A r \in Reqs : tgt[r] = s => at[r] = "done"
    /\ Change(s, "updated", "incomplete_expired", splan[s], scape[s])

\* An operator swaps the price in Stripe's Dashboard.
Swap(s, p) ==
    /\ sstatus[s] = "active"
    /\ p # splan[s]
    /\ Change(s, "updated", "active", p, scape[s])

\* The period or the dunning ends, or an operator cancels.
End(s) ==
    /\ sstatus[s] \in {"active", "past_due"}
    /\ Later(s)
    /\ Change(s, "deleted", "canceled", splan[s], scape[s])

StripeStep(s) ==
    /\ \/ Pay(s) \/ PaymentFails(s) \/ Abandon(s) \/ End(s)
       \/ \E p \in Prices : Swap(s, p)
    /\ UNCHANGED <<now, pc, done, rows, tomb, req, lock, faults>>

-----------------------------------------------------------------------------
(* The rows, as subscription.repository writes them.                       *)

WriteRow(s, status, p, cape, t) ==
    /\ rstatus' = [rstatus EXCEPT ![s] = status]
    /\ rplan' = [rplan EXCEPT ![s] = p]
    /\ rcape' = [rcape EXCEPT ![s] = cape]
    /\ wm' = [wm EXCEPT ![s] = t]

Mutable(s) == rstatus[s] \notin Inactive \cup {"absent"}

\* findActiveByOrganization
ActiveRow == \E s \in Subs : Mutable(s)

\* The two unique indexes: one row per subscription, one active row.
Collides(s, status) ==
    rstatus[s] # "absent" \/ (status \notin Inactive /\ ActiveRow)

-----------------------------------------------------------------------------
(* SubscriptionService.create, under the organization's Redis lock.        *)

Go(r, next) == at' = [at EXCEPT ![r] = next]

Finish(r, a) == Go(r, "done") /\ answer' = [answer EXCEPT ![r] = a]

\* Compare-and-delete; its error is swallowed and leaves the lock to its TTL.
Release(r) == lock' \in {lock, IF lock = r THEN None ELSE lock}

\* Mutant: without the lock.
CreateBeginUnlocked(r, p) ==
    /\ at[r] = "idle"
    /\ "create" \in Ops
    /\ op' = [op EXCEPT ![r] = "create"]
    /\ plan' = [plan EXCEPT ![r] = p]
    /\ Go(r, "precheck")
    /\ UNCHANGED <<now, stripe, pc, done, rows, tomb, tgt, prev, stamp, answer, lock, faults>>

\* withRedisLock: SET NX, or 409 once the wait is over.
CreateBegin(r, p) ==
    /\ at[r] = "idle"
    /\ "create" \in Ops
    /\ op' = [op EXCEPT ![r] = "create"]
    /\ plan' = [plan EXCEPT ![r] = p]
    /\ IF lock = None
       THEN Go(r, "precheck") /\ lock' = r /\ UNCHANGED answer
       ELSE Finish(r, "conflict") /\ UNCHANGED lock
    /\ UNCHANGED <<now, stripe, pc, done, rows, tomb, tgt, prev, stamp, faults>>

CreateCheck(r) ==
    /\ at[r] = "precheck"
    /\ IF ActiveRow
       THEN Finish(r, "conflict") /\ Release(r)
       ELSE Go(r, "stripe") /\ UNCHANGED <<answer, lock>>
    /\ UNCHANGED <<now, stripe, pc, done, rows, tomb, op, tgt, plan, prev, stamp, faults>>

Minted(s) == sstatus[s] # None

\* payment_behavior default_incomplete: no payment yet.
Mint(r, s) ==
    /\ ~Minted(s)
    /\ \A t \in 1..(s - 1) : Minted(t)
    /\ Change(s, "created", "incomplete", plan[r], FALSE)

CreateCall(r) ==
    /\ at[r] = "stripe" /\ op[r] = "create"
    /\ \E s \in Subs : Mint(r, s) /\ tgt' = [tgt EXCEPT ![r] = s]
    /\ Go(r, "stamp")
    /\ UNCHANGED <<now, pc, done, rows, tomb, op, plan, prev, stamp, answer, lock, faults>>

\* The call fails, its subscription possibly minted.
CreateCallFails(r) ==
    /\ at[r] = "stripe" /\ op[r] = "create"
    /\ Fault
    /\ \/ \E s \in Subs : Mint(r, s) /\ tgt' = [tgt EXCEPT ![r] = s]
       \/ UNCHANGED <<stripe, tgt>>
    /\ Finish(r, "unavailable")
    /\ Release(r)
    /\ UNCHANGED <<now, pc, done, rows, tomb, op, plan, prev, stamp>>

\* new Date() of the write to come.
Stamp(r) ==
    /\ at[r] = "stamp"
    /\ stamp' = [stamp EXCEPT ![r] = now]
    /\ Go(r, "write")
    /\ UNCHANGED <<now, stripe, pc, done, rows, tomb, op, tgt, plan, prev, answer, lock, faults>>

InsertCreated(r) == WriteRow(tgt[r], "INCOMPLETE", plan[r], FALSE, stamp[r])

CreateWrite(r) ==
    /\ at[r] = "write" /\ op[r] = "create"
    /\ IF Collides(tgt[r], "INCOMPLETE")
       THEN Go(r, "compensate") /\ UNCHANGED <<rows, answer, lock>>
       ELSE InsertCreated(r) /\ Finish(r, "ok") /\ Release(r)
    /\ UNCHANGED <<now, stripe, pc, done, tomb, op, tgt, plan, prev, stamp, faults>>

\* A database error; the row may be there if the answer to COMMIT was lost.
CreateWriteFails(r) ==
    /\ at[r] = "write" /\ op[r] = "create"
    /\ Fault
    /\ \/ ~Collides(tgt[r], "INCOMPLETE") /\ InsertCreated(r)
       \/ UNCHANGED rows
    /\ Go(r, "compensate")
    /\ UNCHANGED <<now, stripe, pc, done, tomb, op, tgt, plan, prev, stamp, answer, lock>>

CancelAtStripe(s) == Change(s, "deleted", "canceled", splan[s], scape[s])

\* compensateFailedCreate; its own error is swallowed.
CreateCompensate(r) ==
    /\ at[r] = "compensate" /\ op[r] = "create"
    /\ \/ Live(tgt[r]) /\ CancelAtStripe(tgt[r]) /\ UNCHANGED faults
       \/ ~Live(tgt[r]) /\ UNCHANGED <<stripe, faults>>
       \/ Live(tgt[r]) /\ Fault /\ UNCHANGED stripe
    /\ Finish(r, "rolled_back")
    /\ Release(r)
    /\ UNCHANGED <<now, pc, done, rows, tomb, op, tgt, plan, prev, stamp>>

\* The lock's TTL, under a live holder only if it may lapse.
LockExpires ==
    /\ lock # None
    /\ LockLapses \/ at[lock] = "done"
    /\ lock' = None
    /\ UNCHANGED <<now, stripe, pc, done, rows, tomb, req, faults>>

-----------------------------------------------------------------------------
(* changePlan, cancel, resume and cancelActiveForOrganizationOffboarding:  *)
(* read the row, call Stripe, write the row.                               *)

\* The read: an INCOMPLETE subscription is canceled at once.
Read(r, o, s, p) ==
    /\ at[r] = "idle"
    /\ o \in Ops \ {"create"}
    /\ Mutable(s)
    /\ op' = [op EXCEPT ![r] = IF o = "cancel" /\ rstatus[s] = "INCOMPLETE"
                               THEN "cancel_now" ELSE o]
    /\ tgt' = [tgt EXCEPT ![r] = s]
    /\ plan' = [plan EXCEPT ![r] = p]
    /\ prev' = [prev EXCEPT ![r] = rplan[s]]
    /\ Go(r, "stripe")
    /\ UNCHANGED <<now, stripe, pc, done, rows, tomb, stamp, answer, lock, faults>>

Mutate(o, s, p) ==
    \/ o = "change" /\ Change(s, "updated", sstatus[s], p, scape[s])
    \/ o = "cancel" /\ Change(s, "updated", sstatus[s], splan[s], TRUE)
    \/ o = "resume" /\ Change(s, "updated", sstatus[s], splan[s], FALSE)
    \/ o = "cancel_now" /\ CancelAtStripe(s)

Call(r) ==
    /\ at[r] = "stripe" /\ op[r] # "create"
    /\ Live(tgt[r])
    /\ Mutate(op[r], tgt[r], plan[r])
    /\ Go(r, "stamp")
    /\ UNCHANGED <<now, pc, done, rows, tomb, op, tgt, plan, prev, stamp, answer, lock, faults>>

\* Mutant: a failed call is logged and the row written all the same.
CallFailsOpen(r) ==
    /\ at[r] = "stripe" /\ op[r] # "create"
    /\ Fault
    /\ Go(r, "stamp")
    /\ UNCHANGED <<now, stripe, pc, done, rows, tomb, op, tgt, plan, prev, stamp, answer, lock>>

\* 503: Stripe refuses a subscription that is over, or the call fails.
CallFails(r) ==
    /\ at[r] = "stripe" /\ op[r] # "create"
    /\ \/ ~Live(tgt[r]) /\ UNCHANGED <<stripe, faults>>
       \/ Live(tgt[r]) /\ Fault /\ (UNCHANGED stripe \/ Mutate(op[r], tgt[r], plan[r]))
    /\ Finish(r, "unavailable")
    /\ UNCHANGED <<now, pc, done, rows, tomb, op, tgt, plan, prev, stamp, lock>>

\* What each operation SETs, with the watermark.
Update(r) ==
    LET s == tgt[r] IN
    WriteRow(s,
        IF op[r] = "cancel_now" THEN "CANCELED" ELSE rstatus[s],
        IF op[r] = "change" THEN plan[r] ELSE rplan[s],
        CASE op[r] = "cancel" -> TRUE
          [] op[r] = "resume" -> FALSE
          [] OTHER -> rcape[s],
        stamp[r])

\* The error path: only changePlan compensates.
WriteRefused(r) ==
    IF op[r] = "change"
    THEN Go(r, "compensate") /\ UNCHANGED answer
    ELSE Finish(r, "not_found")

\* repository.update refuses a row that has become terminal.
Write(r) ==
    /\ at[r] = "write" /\ op[r] # "create"
    /\ IF Mutable(tgt[r])
       THEN Update(r) /\ Finish(r, "ok")
       ELSE WriteRefused(r) /\ UNCHANGED rows
    /\ UNCHANGED <<now, stripe, pc, done, tomb, op, tgt, plan, prev, stamp, lock, faults>>

WriteFails(r) ==
    /\ at[r] = "write" /\ op[r] # "create"
    /\ Fault
    /\ \/ Mutable(tgt[r]) /\ Update(r)
       \/ UNCHANGED rows
    /\ WriteRefused(r)
    /\ UNCHANGED <<now, stripe, pc, done, tomb, op, tgt, plan, prev, stamp, lock>>

\* compensatePlanChange; its own error is swallowed.
Compensate(r) ==
    /\ at[r] = "compensate" /\ op[r] = "change"
    /\ \/ /\ Live(tgt[r])
          /\ Mutate("change", tgt[r], prev[r])
          /\ UNCHANGED faults
       \/ ~Live(tgt[r]) /\ UNCHANGED <<stripe, faults>>
       \/ Live(tgt[r]) /\ Fault /\ UNCHANGED stripe
    /\ Finish(r, "rolled_back")
    /\ UNCHANGED <<now, pc, done, rows, tomb, op, tgt, plan, prev, stamp, lock>>

\* The API process dies; a lock it holds is left to its TTL.
Crash(r) ==
    /\ at[r] \notin {"idle", "done"}
    /\ Fault
    /\ Finish(r, "lost")
    /\ UNCHANGED <<now, stripe, pc, done, rows, tomb, op, tgt, plan, prev, stamp, lock>>

RequestStep(r) ==
    \/ CreateCheck(r) \/ CreateCall(r) \/ Stamp(r) \/ CreateWrite(r) \/ CreateCompensate(r)
    \/ Call(r) \/ Write(r) \/ Compensate(r)

RequestFault(r) ==
    CreateCallFails(r) \/ CreateWriteFails(r) \/ CallFails(r) \/ WriteFails(r) \/ Crash(r)

-----------------------------------------------------------------------------
(* StripeWebhookService.dispatchEvent.                                     *)

GoEvent(i, next) == pc' = [pc EXCEPT ![i] = next] /\ UNCHANGED done

\* The dispatch commits and the ledger marks the event processed.
Processed(i) == pc' = [pc EXCEPT ![i] = "idle"] /\ done' = done \cup {i}

\* It throws: the ledger retries it later.
Throw(i) == GoEvent(i, "idle")

Dispatchable(i, types) == i <= n /\ i \notin done /\ pc[i] = "idle" /\ etype[i] \in types

\* A price without a local plan keeps the row's plan.
Resolved(i, otherwise) == IF eplan[i] = Unsynced THEN otherwise ELSE eplan[i]

\* syncFromStripeProviderSubscription
Sync(i) ==
    /\ Dispatchable(i, {"created", "updated"})
    /\ LET s == esub[i] IN
       IF Mutable(s) /\ wm[s] < ecreated[i]
       THEN /\ WriteRow(s, statusMap[estatus[i]], Resolved(i, rplan[s]), ecape[i], ecreated[i])
            /\ Processed(i)
       ELSE GoEvent(i, "tombstone") /\ UNCHANGED rows
    /\ UNCHANGED <<now, stripe, tomb, req, lock, faults>>

\* findSubscriptionDeletionTombstone
CheckTombstone(i) ==
    /\ pc[i] = "tombstone"
    /\ IF tomb[esub[i]] >= ecreated[i] THEN Processed(i) ELSE GoEvent(i, "exists")
    /\ UNCHANGED <<now, stripe, rows, tomb, req, lock, faults>>

\* A row is left alone as stale; without one only .created can make it.
CheckExists(i) ==
    /\ pc[i] = "exists"
    /\ IF rstatus[esub[i]] # "absent" THEN Processed(i)
       ELSE GoEvent(i, IF etype[i] = "created" /\ eplan[i] # Unsynced
                       THEN "insert" ELSE "recheck")
    /\ UNCHANGED <<now, stripe, rows, tomb, req, lock, faults>>

\* A unique violation aborts the transaction, so the query that follows throws.
FallbackInsert(i) ==
    /\ pc[i] = "insert"
    /\ LET status == statusMap[estatus[i]] IN
       IF Collides(esub[i], status)
       THEN Throw(i) /\ UNCHANGED rows
       ELSE WriteRow(esub[i], status, eplan[i], FALSE, ecreated[i]) /\ Processed(i)
    /\ UNCHANGED <<now, stripe, tomb, req, lock, faults>>

Recheck(i) ==
    /\ pc[i] = "recheck"
    /\ IF rstatus[esub[i]] # "absent" THEN Processed(i) ELSE Throw(i)
    /\ UNCHANGED <<now, stripe, rows, tomb, req, lock, faults>>

\* The WHERE clause of markCanceledByProviderSubscriptionId.
Cancelable(i) == rstatus[esub[i]] # "absent" /\ wm[esub[i]] <= ecreated[i]

CancelRow(i) == WriteRow(esub[i], "CANCELED", rplan[esub[i]], rcape[esub[i]], ecreated[i])

\* Mutant: a deletion without a row is logged and taken as processed.
MarkCanceledOrLog(i) ==
    /\ Dispatchable(i, {"deleted"})
    /\ IF Cancelable(i) THEN CancelRow(i) ELSE UNCHANGED rows
    /\ Processed(i)
    /\ UNCHANGED <<now, stripe, tomb, req, lock, faults>>

MarkCanceled(i) ==
    /\ Dispatchable(i, {"deleted"})
    /\ IF Cancelable(i)
       THEN CancelRow(i) /\ Processed(i)
       ELSE GoEvent(i, "entomb") /\ UNCHANGED rows
    /\ UNCHANGED <<now, stripe, tomb, req, lock, faults>>

\* recordSubscriptionDeletionTombstone keeps the latest deletion.
Bury(i) ==
    tomb' = [tomb EXCEPT ![esub[i]] = IF @ < ecreated[i] THEN ecreated[i] ELSE @]

(***************************************************************************)
(* The tombstone, then a CANCELED row, in one transaction: a row that is   *)
(* there after all is a unique violation, and the second attempt to cancel *)
(* it runs in the aborted transaction.  Only an unresolved price gets as   *)
(* far as that second attempt.                                             *)
(***************************************************************************)
Entomb(i) ==
    /\ pc[i] = "entomb"
    /\ \/ /\ eplan[i] # Unsynced /\ rstatus[esub[i]] = "absent"
          /\ WriteRow(esub[i], "CANCELED", eplan[i], FALSE, ecreated[i])
          /\ Bury(i) /\ Processed(i)
       \/ /\ eplan[i] = Unsynced /\ Cancelable(i)
          /\ CancelRow(i)
          /\ Bury(i) /\ Processed(i)
       \/ /\ IF eplan[i] = Unsynced THEN ~Cancelable(i) ELSE rstatus[esub[i]] # "absent"
          /\ Throw(i)
          /\ UNCHANGED <<rows, tomb>>
    /\ UNCHANGED <<now, stripe, req, lock, faults>>

\* The worker dies in its transaction.
DispatchAborts(i) ==
    /\ pc[i] # "idle"
    /\ Fault
    /\ Throw(i)
    /\ UNCHANGED <<now, stripe, rows, tomb, req, lock>>

\* It dies between the commit and markProcessed: the event is dispatched again.
MarkLost(i) ==
    /\ i \in done
    /\ Fault
    /\ done' = done \ {i}
    /\ UNCHANGED <<now, stripe, pc, rows, tomb, req, lock>>

DispatchStep(i) ==
    \/ Sync(i) \/ CheckTombstone(i) \/ CheckExists(i) \/ FallbackInsert(i) \/ Recheck(i)
    \/ MarkCanceled(i) \/ Entomb(i)

-----------------------------------------------------------------------------
Next ==
    \/ Tick
    \/ \E s \in Subs : StripeStep(s)
    \/ \E r \in Reqs :
          \/ \E p \in Plans : CreateBegin(r, p)
          \/ \E o \in AllOps, s \in Subs, p \in Plans : Read(r, o, s, p)
          \/ RequestStep(r)
          \/ RequestFault(r)
    \/ LockExpires
    \/ \E i \in Ids : DispatchStep(i) \/ DispatchAborts(i) \/ MarkLost(i)

Spec == Init /\ [][Next]_vars

(***************************************************************************)
(* Requests run to their end and the ledger dispatches every event until   *)
(* it is processed.                                                        *)
(***************************************************************************)
FairSpec ==
    /\ Spec
    /\ \A r \in Reqs : WF_vars(RequestStep(r))
    /\ \A i \in Ids : WF_vars(DispatchStep(i))

-----------------------------------------------------------------------------
(***************************************************************************)
(* "Terminal subscriptions are immutable": no event, however late, and no  *)
(* HTTP write whose read came before the cancellation brings a CANCELED or *)
(* INCOMPLETE_EXPIRED row back to a status that grants entitlement.        *)
(***************************************************************************)
TerminalIsFinal ==
    [][\A s \in Subs : rstatus[s] \in Inactive => rstatus'[s] \in Inactive]_vars

(***************************************************************************)
(* The watermark of a row never moves back, whichever of the HTTP          *)
(* operations and the dispatches of out-of-order, repeated and same-second *)
(* events write it, as long as a write follows its new Date() at once.     *)
(***************************************************************************)
WatermarkMonotone ==
    [][~LateWrites => \A s \in Subs : wm[s] <= wm'[s]]_vars

(***************************************************************************)
(* Once the ledger holds a deletion as processed the row is CANCELED, the  *)
(* row being made for the purpose if the deletion came first: no .created  *)
(* or .updated of the subscription delivered later, no HTTP create that    *)
(* had not inserted yet, resurrects it (BILL-03, audit-#1).                *)
(***************************************************************************)
DeletionSticks ==
    \A i \in done : etype[i] = "deleted" => rstatus[esub[i]] = "CANCELED"

(***************************************************************************)
(* Nobody is cut off while Stripe bills them: a row is terminal only if    *)
(* the subscription is over at Stripe.                                     *)
(***************************************************************************)
TerminalIsOver ==
    \A s \in Subs : rstatus[s] \in Inactive => sstatus[s] \in Over

(***************************************************************************)
(* One organization has two live subscriptions at Stripe only after a      *)
(* create failed half way: its answer was lost, it died, or its            *)
(* compensation failed.  Concurrent creates alone never get there while    *)
(* the lock holds.                                                         *)
(***************************************************************************)
TwoLiveNeedAFault ==
    ~LockLapses =>
        \A s, t \in Subs : Live(s) /\ Live(t) /\ s # t =>
            \E r \in Reqs : /\ op[r] = "create"
                            /\ tgt[r] \in {s, t}
                            /\ answer[r] \in {"unavailable", "lost", "rolled_back"}

(***************************************************************************)
(* "a retry of this deletion will then cancel it": a deletion at Stripe    *)
(* eventually reaches the row.                                             *)
(***************************************************************************)
DeletionReachesRow ==
    \A s \in Subs : sstatus[s] = "canceled" /\ Mutable(s) ~> ~Mutable(s)
=============================================================================
