--------------------------- MODULE CommitDispatch ---------------------------
(***************************************************************************)
(* Side effects after a commit: a request schedules a task for each row it *)
(* writes (a mail, a notification, an export), in a list in Redis named by *)
(* the request, or in memory when Redis fails or no request id is at hand. *)
(* After the response flushOnCommit executes the tasks and acknowledges    *)
(* each one; the recovery job does the same for requests that a sorted set *)
(* lists for longer than two minutes.  Every Redis command is a step.      *)
(*                                                                         *)
(* A task is the row it is about.  The 24-hour TTL of the lists and        *)
(* entries that do not parse are left out.                                 *)
(***************************************************************************)
EXTENDS Naturals

CONSTANTS
    Requests,   \* HTTP requests
    NTasks,     \* bound: rows, and tasks, of a request
    Recovery,   \* the recovery job, which runs one at a time
    Cleaned,    \* numbers of tasks whose failed enqueue deletes or fails the row
    MaxFaults   \* bound: crashes, failed calls and slow requests

Tasks == Requests \X (1..NTasks)
Agents == Requests \cup {Recovery}

ASSUME BoundsAssumption ==
    /\ NTasks \in Nat \ {0} /\ MaxFaults \in Nat
    /\ Requests # {} /\ Recovery \notin Requests
    /\ Cleaned \subseteq 1..NTasks

VARIABLES
    row,      \* task -> its row in Postgres
    sched,    \* tasks that have been scheduled
    pend,     \* tasks in the pending lists of their requests
    index,    \* requests in the recovery sorted set
    old,      \* requests whose entry there is older than two minutes
    jobs,     \* task -> jobs added for it
    rat,      \* request -> "run", "flush", "done" or "dead"
    marker,   \* pendingCommitDispatchRequestIds
    mem,      \* tasks in the onCommit queues of their requests
    at,       \* agent -> its step in the loop over a list
    req,      \* agent -> the request whose list it works on
    todo,     \* agent -> tasks it has read and not yet executed
    cur,      \* agent -> the task it executes
    stale,    \* requests the recovery job has still to visit
    handled,  \* tasks whose execution returned normally (history)
    durable,  \* tasks that were appended to a list (history)
    slow,     \* has a request outlived the two minutes? (history)
    faults    \* faults suffered

store == <<pend, index, old>>
memory == <<marker, mem>>
loop == <<at, req, todo, cur>>
effects == <<jobs, handled>>
vars == <<row, sched, store, effects, rat, memory, loop, stale, durable, slow, faults>>

LoopSteps == {"idle", "consume", "zrem", "next", "exec", "lrem", "llen", "del", "memory"}

TypeOK ==
    /\ row \in [Tasks -> {"none", "open", "committed", "rolledback", "cleaned"}]
    /\ sched \subseteq Tasks /\ pend \subseteq Tasks /\ mem \subseteq Tasks
    /\ handled \subseteq Tasks /\ durable \subseteq Tasks
    /\ index \subseteq Requests /\ old \subseteq Requests
    /\ marker \subseteq Requests /\ stale \subseteq Requests
    /\ jobs \in [Tasks -> Nat]
    /\ rat \in [Requests -> {"run", "flush", "done", "dead"}]
    /\ at \in [Agents -> LoopSteps] /\ at[Recovery] # "memory"
    /\ req \in [Agents -> Requests]
    /\ todo \in [Agents -> SUBSET Tasks]
    /\ cur \in [Agents -> Tasks]
    /\ slow \in BOOLEAN
    /\ faults \in 0..MaxFaults

Of(r) == {t \in Tasks : t[1] = r}

\* A request works on its own list; the recovery job starts anywhere.
Own(a) == CHOOSE r \in Requests : a \in Requests => r = a

\* The lists and queues are worked off in their order.
First(S) == CHOOSE t \in S : \A u \in S : t[2] <= u[2]

Init ==
    /\ row = [t \in Tasks |-> "none"]
    /\ sched = {} /\ pend = {} /\ mem = {} /\ handled = {} /\ durable = {}
    /\ index = {} /\ old = {} /\ marker = {} /\ stale = {}
    /\ jobs = [t \in Tasks |-> 0]
    /\ rat = [r \in Requests |-> "run"]
    /\ at = [a \in Agents |-> "idle"]
    /\ req = [a \in Agents |-> Own(a)]
    /\ todo = [a \in Agents |-> {}]
    /\ cur = [a \in Agents |-> <<Own(a), 1>>]
    /\ slow = FALSE
    /\ faults = 0

Fault == faults < MaxFaults /\ faults' = faults + 1

-----------------------------------------------------------------------------
(* The handler: its transactions are one after the other, and a task is    *)
(* scheduled within the transaction of its row or after it.                *)

Live(r) == rat[r] \in {"run", "flush"}
Open(r) == {t \in Of(r) : row[t] = "open"}
Unscheduled(r) == {t \in Of(r) \ sched : row[t] \in {"open", "committed"}}

\* The handler writes the next row, its own or an event handler's.
WriteRow(r, t) ==
    /\ rat[r] = "run" /\ Unscheduled(r) = {}
    /\ t \in Of(r) /\ row[t] = "none"
    /\ \A u \in Of(r) : u[2] < t[2] => row[u] # "none"
    /\ \A u \in Of(r) : row[u] # "rolledback"
    /\ row' = [row EXCEPT ![t] = "open"]
    /\ UNCHANGED <<sched, store, effects, rat, memory, loop, stale, durable, slow, faults>>

Commit(r) ==
    /\ rat[r] = "run" /\ Open(r) # {}
    /\ row' = [t \in Tasks |-> IF t \in Open(r) THEN "committed" ELSE row[t]]
    /\ UNCHANGED <<sched, store, effects, rat, memory, loop, stale, durable, slow, faults>>

\* The handler throws.
Rollback(r) ==
    /\ rat[r] = "run" /\ Open(r) # {}
    /\ row' = [t \in Tasks |-> IF t \in Open(r) THEN "rolledback" ELSE row[t]]
    /\ UNCHANGED <<sched, store, effects, rat, memory, loop, stale, durable, slow, faults>>

\* MULTI RPUSH, EXPIRE, ZADD now
appendCommitDispatchTask(r, t) ==
    /\ pend' = pend \cup {t}
    /\ index' = index \cup {r}
    /\ old' = old \ {r}
    /\ durable' = durable \cup {t}

scheduleCommitDispatch(r, t) ==
    /\ rat[r] = "run" /\ t \in Unscheduled(r)
    /\ sched' = sched \cup {t}
    /\ appendCommitDispatchTask(r, t)
    /\ marker' = marker \cup {r}
    /\ UNCHANGED <<row, mem, effects, rat, loop, stale, slow, faults>>

\* Without a request id, or after a failed append that may have taken
\* effect, the task is queued in memory.
scheduleInMemory(r, t) ==
    /\ rat[r] = "run" /\ t \in Unscheduled(r)
    /\ sched' = sched \cup {t}
    /\ mem' = mem \cup {t}
    /\ \/ UNCHANGED <<store, durable, faults>>
       \/ Fault /\ appendCommitDispatchTask(r, t)
    /\ UNCHANGED <<row, marker, effects, rat, loop, stale, slow>>

Go(a, step) == at' = [at EXCEPT ![a] = step]

\* The response is sent.  settleAndAwaitOrganizationRlsTransaction always
\* answers no_transaction, so flushOnCommit runs after a rollback too.
flushOnCommit(r) ==
    /\ rat[r] = "run" /\ Open(r) = {} /\ Unscheduled(r) = {}
    /\ rat' = [rat EXCEPT ![r] = "flush"]
    /\ marker' = marker \ {r}
    /\ Go(r, IF r \in marker THEN "consume" ELSE "memory")
    /\ UNCHANGED <<row, sched, store, effects, mem, req, todo, cur, stale, durable, slow, faults>>

\* The process dies and Postgres rolls its open transaction back.
Crash(r) ==
    /\ Live(r)
    /\ Fault
    /\ rat' = [rat EXCEPT ![r] = "dead"]
    /\ row' = [t \in Tasks |-> IF t \in Open(r) THEN "rolledback" ELSE row[t]]
    /\ marker' = marker \ {r}
    /\ mem' = mem \ Of(r)
    /\ Go(r, "idle")
    /\ todo' = [todo EXCEPT ![r] = {}]
    /\ UNCHANGED <<sched, store, effects, req, cur, stale, durable, slow>>

-----------------------------------------------------------------------------
(* The loop over a list, of flushOnCommit and of the recovery job.         *)

\* Where an agent goes when it is through with a list, or failed to read it.
After(a) == IF a = Recovery THEN "idle" ELSE "memory"

\* LRANGE
consumeCommitDispatchTasks(a) ==
    LET found == pend \cap Of(req[a]) IN
    /\ at[a] = "consume"
    /\ todo' = [todo EXCEPT ![a] = found]
    /\ Go(a, IF found = {} THEN "zrem" ELSE "next")
    /\ UNCHANGED <<row, sched, store, effects, rat, memory, req, cur, stale, durable, slow, faults>>

\* Its failure ends the flush of the list, or the run of the recovery job.
ConsumeFails(a) ==
    /\ at[a] \in {"consume", "zrem"}
    /\ Fault
    /\ Go(a, After(a))
    /\ stale' = IF a = Recovery THEN {} ELSE stale
    /\ UNCHANGED <<row, sched, store, effects, rat, memory, req, todo, cur, durable, slow>>

ConsumeEmpty(a) ==
    /\ at[a] = "zrem"
    /\ index' = index \ {req[a]}
    /\ old' = old \ {req[a]}
    /\ Go(a, After(a))
    /\ UNCHANGED <<row, sched, pend, effects, rat, memory, req, todo, cur, stale, durable, slow, faults>>

NextTask(a) ==
    /\ at[a] = "next"
    /\ IF todo[a] = {}
       THEN Go(a, After(a)) /\ UNCHANGED <<todo, cur>>
       ELSE /\ cur' = [cur EXCEPT ![a] = First(todo[a])]
            /\ todo' = [todo EXCEPT ![a] = @ \ {First(@)}]
            /\ Go(a, "exec")
    /\ UNCHANGED <<row, sched, store, effects, rat, memory, req, stale, durable, slow, faults>>

AddJob(t) ==
    /\ jobs' = [jobs EXCEPT ![t] = @ + 1]
    /\ handled' = handled \cup {t}

\* The enqueue is executed.
executeCommitDispatchTask(a) ==
    /\ at[a] = "exec"
    /\ AddJob(cur[a])
    /\ Go(a, "lrem")
    /\ UNCHANGED <<row, sched, store, rat, memory, req, todo, cur, stale, durable, slow, faults>>

\* The row of a notification is deleted, that of an export set to FAILED.
CleanRow(t) ==
    row' = [row EXCEPT ![t] = IF @ = "committed" THEN "cleaned" ELSE @]

\* Mutant: a failed enqueue is acknowledged.
ExecuteFailsUnnoticed(a) ==
    /\ at[a] = "exec"
    /\ Fault
    /\ Go(a, "lrem")
    /\ UNCHANGED <<row, sched, store, effects, rat, memory, req, todo, cur, stale, durable, slow>>

\* The enqueue fails, or its answer is lost.  The error of a mail is caught
\* in the loop; that of another task is made up for, and the task is done,
\* unless the write that makes up for it fails as well.
ExecuteFails(a) ==
    LET t == cur[a] IN
    /\ at[a] = "exec"
    /\ Fault
    /\ \E added \in {0, 1} : jobs' = [jobs EXCEPT ![t] = @ + added]
    /\ \/ t[2] \in Cleaned /\ CleanRow(t) /\ handled' = handled \cup {t} /\ Go(a, "lrem")
       \/ Go(a, "next") /\ UNCHANGED <<row, handled>>
    /\ UNCHANGED <<sched, store, rat, memory, req, todo, cur, stale, durable, slow>>

\* Mutant: LREM of a string that is not in the list.
AckLremMisses(a) ==
    /\ at[a] = "lrem"
    /\ Go(a, "llen")
    /\ UNCHANGED <<row, sched, store, effects, rat, memory, req, todo, cur, stale, durable, slow, faults>>

\* acknowledgeCommitDispatchTask: LREM, LLEN, and MULTI DEL, ZREM
AckLrem(a) ==
    /\ at[a] = "lrem"
    /\ pend' = pend \ {cur[a]}
    /\ Go(a, "llen")
    /\ UNCHANGED <<row, sched, index, old, effects, rat, memory, req, todo, cur, stale, durable, slow, faults>>

AckLlen(a) ==
    /\ at[a] = "llen"
    /\ Go(a, IF pend \cap Of(req[a]) = {} THEN "del" ELSE "next")
    /\ UNCHANGED <<row, sched, store, effects, rat, memory, req, todo, cur, stale, durable, slow, faults>>

AckDel(a) ==
    /\ at[a] = "del"
    /\ pend' = pend \ Of(req[a])
    /\ index' = index \ {req[a]}
    /\ old' = old \ {req[a]}
    /\ Go(a, "next")
    /\ UNCHANGED <<row, sched, effects, rat, memory, req, todo, cur, stale, durable, slow, faults>>

AckFails(a) ==
    /\ at[a] \in {"lrem", "llen", "del"}
    /\ Fault
    /\ Go(a, "next")
    /\ UNCHANGED <<row, sched, store, effects, rat, memory, req, todo, cur, stale, durable, slow>>

\* The tasks in memory, errors logged.
RunInMemory(r) ==
    /\ at[r] = "memory"
    /\ IF mem \cap Of(r) = {}
       THEN /\ Go(r, "idle")
            /\ rat' = [rat EXCEPT ![r] = "done"]
            /\ UNCHANGED <<row, effects, mem, faults>>
       ELSE LET t == First(mem \cap Of(r)) IN
            /\ mem' = mem \ {t}
            /\ \/ AddJob(t) /\ UNCHANGED <<row, faults>>
               \/ /\ Fault
                  /\ \E added \in {0, 1} : jobs' = [jobs EXCEPT ![t] = @ + added]
                  /\ IF t[2] \in Cleaned THEN CleanRow(t) ELSE UNCHANGED row
                  /\ UNCHANGED handled
            /\ UNCHANGED <<at, rat>>
    /\ UNCHANGED <<sched, store, marker, req, todo, cur, stale, durable, slow>>

LoopStep(a) ==
    \/ consumeCommitDispatchTasks(a) \/ ConsumeEmpty(a) \/ NextTask(a)
    \/ executeCommitDispatchTask(a) \/ AckLrem(a) \/ AckLlen(a) \/ AckDel(a)

LoopFault(a) == ConsumeFails(a) \/ ExecuteFails(a) \/ AckFails(a)

-----------------------------------------------------------------------------
(* runCommitDispatchRecoveryJob.                                           *)

\* Entries age; that of a live request only when the request is slow.
Age(r) ==
    /\ r \in index \ old /\ ~Live(r)
    /\ old' = old \cup {r}
    /\ UNCHANGED <<row, sched, pend, index, effects, rat, memory, loop, stale, durable, slow, faults>>

SlowRequest(r) ==
    /\ r \in index \ old /\ Live(r)
    /\ Fault
    /\ old' = old \cup {r}
    /\ slow' = TRUE
    /\ UNCHANGED <<row, sched, pend, index, effects, rat, memory, loop, stale, durable>>

\* Mutant: LIMIT with offset and count swapped.
ListNothing ==
    /\ at[Recovery] = "idle" /\ stale = {} /\ old # {}
    /\ stale' = {}
    /\ UNCHANGED <<row, sched, store, effects, rat, memory, loop, durable, slow, faults>>

listStaleCommitDispatchRequestIds ==
    /\ at[Recovery] = "idle" /\ stale = {} /\ old # {}
    /\ stale' = old
    /\ UNCHANGED <<row, sched, store, effects, rat, memory, loop, durable, slow, faults>>

RecoverRequest(r) ==
    /\ at[Recovery] = "idle" /\ r \in stale
    /\ stale' = stale \ {r}
    /\ req' = [req EXCEPT ![Recovery] = r]
    /\ Go(Recovery, "consume")
    /\ UNCHANGED <<row, sched, store, effects, rat, memory, todo, cur, durable, slow, faults>>

RecoveryCrashes ==
    /\ at[Recovery] # "idle" \/ stale # {}
    /\ Fault
    /\ Go(Recovery, "idle")
    /\ todo' = [todo EXCEPT ![Recovery] = {}]
    /\ stale' = {}
    /\ UNCHANGED <<row, sched, store, effects, rat, memory, req, cur, durable, slow>>

Recover == listStaleCommitDispatchRequestIds \/ LoopStep(Recovery) \/ \E r \in Requests : RecoverRequest(r)

-----------------------------------------------------------------------------
RequestStep(r) ==
    \/ \E t \in Tasks : scheduleCommitDispatch(r, t) \/ scheduleInMemory(r, t)
    \/ Commit(r)
    \/ flushOnCommit(r)
    \/ LoopStep(r)
    \/ RunInMemory(r)

Next ==
    \/ \E r \in Requests :
          \/ RequestStep(r)
          \/ \E t \in Tasks : WriteRow(r, t)
          \/ Rollback(r) \/ Crash(r) \/ Age(r) \/ SlowRequest(r)
    \/ Recover
    \/ RecoveryCrashes
    \/ \E a \in Agents : LoopFault(a)

Spec == Init /\ [][Next]_vars

(***************************************************************************)
(* Requests run to their end, time passes, and the recovery job is         *)
(* repeatable.                                                             *)
(***************************************************************************)
FairSpec ==
    /\ Spec
    /\ \A r \in Requests : WF_vars(RequestStep(r)) /\ WF_vars(Age(r))
    /\ WF_vars(Recover)

-----------------------------------------------------------------------------
(***************************************************************************)
(* reaudit-#2: a task appended to Redis stays in its list, and its request *)
(* in the sorted set, until an execution of it returned normally, whatever *)
(* crashes and whoever flushes, unless a request outlives the two minutes. *)
(***************************************************************************)
AppendedIsKept ==
    ~slow => \A t \in durable \ handled : t \in pend /\ t[1] \in index

(***************************************************************************)
(* A task is executed only when the transaction of its row is over:        *)
(* neither the flush nor the recovery job overtakes a commit, unless a     *)
(* request outlives the two minutes.                                       *)
(***************************************************************************)
NotBeforeSettled ==
    ~slow => \A t \in Tasks : row[t] = "open" => jobs[t] = 0

(***************************************************************************)
(* A task ends in one job or in the clean-up of its row: each further job, *)
(* and a clean-up of a row whose job was added, takes a fault of its own.  *)
(* Flush and recovery do not both execute a task.                          *)
(***************************************************************************)
SecondOutcomeNeedsFault ==
    \A t \in Tasks : jobs[t] + (IF row[t] = "cleaned" THEN 1 ELSE 0) <= 1 + faults

(***************************************************************************)
(* A task that reached Redis is executed in the end, unless a request      *)
(* outlives the two minutes.                                               *)
(***************************************************************************)
EventuallyExecuted ==
    \A t \in Tasks : t \in durable ~> (t \in handled \/ slow)
=============================================================================
