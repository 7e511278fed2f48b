----------------------------- MODULE DeadLetter -----------------------------
(***************************************************************************)
(* Jobs of one BullMQ queue that can be replayed, and what happens to them *)
(* after their last attempt (infrastructure/queue/dlq): the ledger         *)
(* audit.dead_letter_jobs in Postgres, its mirror in the <queue>-dlq queue *)
(* in Redis, the sweeper that replays ledger rows with a budget and a      *)
(* cooldown, and the operator's replay of a mirrored job.                  *)
(*                                                                         *)
(* The ledger and the sweeper's batch are shared with the other queues     *)
(* that can be replayed; of their rows only the number is modelled that    *)
(* the sweeper skips again and again.                                      *)
(*                                                                         *)
(* A job is <<d, k>>: the k-th job added for the delivery d; k = 0 is the  *)
(* one the producer adds, the others are replays.  A job fails for good at *)
(* most once, so it also names its ledger row.  The queue's workers are in *)
(* the module that extends this one.                                       *)
(***************************************************************************)
EXTENDS Naturals, Sequences, FiniteSets

CONSTANTS
    Deliveries,
    NReplays,      \* bound: replays ever added for a delivery
    MaxAttempts,   \* attempts of a job its producer adds
    MaxStalled,    \* maxStalledCount of the queue's workers
    MaxCount,      \* DLQ_AUTO_RETRY_MAX_COUNT
    Batch,         \* DLQ_AUTO_RETRY_BATCH_SIZE
    MaxFaults      \* bound: failed calls, statements and processes

ASSUME DeadLetterAssumption ==
    /\ NReplays \in Nat /\ MaxStalled \in Nat /\ MaxCount \in Nat /\ MaxFaults \in Nat
    /\ MaxAttempts \in Nat \ {0} /\ Batch \in Nat \ {0}

Jobs == Deliveries \X (0..NReplays)

VARIABLES
    job,       \* job -> absent, waiting, active, done or failed
    made,      \* job -> attemptsMade
    stalls,    \* job -> times it has stalled
    book,      \* the rows of the ledger in the order of failed_at
    lame,      \* rows whose payload_summary does not give the job's payload
    held,      \* older rows of other queues the sweeper skips: their payload
               \* is lost too, or the circuit of their service is open
    resolved,  \* rows with auto_retry_resolved_at
    young,     \* rows whose failed_at is within the cooldown
    cooling,   \* rows whose lastAttemptAt is within the cooldown
    tries,     \* row -> the count in Redis
    mirror,    \* jobs in the dead-letter queue
    spc,       \* the sweeper: idle, next, add or count
    todo,      \* the rows the sweeper has still to look at: positions in book
    manual,    \* the operator has replayed a job (bound: once)
    replays,   \* history: row -> replays the sweeper has added for it
    faults     \* faults suffered

ledger == <<book, lame, held, resolved, young, cooling, tries, mirror, spc, todo, manual, replays>>
queue == <<job, made, stalls>>

QueueTypeOK ==
    /\ job \in [Jobs -> {"absent", "waiting", "active", "done", "failed"}]
    /\ made \in [Jobs -> 0..MaxAttempts]
    /\ stalls \in [Jobs -> 0..MaxStalled]
    /\ book \in Seq(Jobs) /\ Len(book) <= Cardinality(Jobs)
    /\ lame \in SUBSET Jobs /\ held \in 0..Batch
    /\ resolved \in SUBSET Jobs /\ young \in SUBSET Jobs /\ cooling \in SUBSET Jobs
    /\ tries \in [Jobs -> 0..MaxCount]
    /\ mirror \in SUBSET Jobs
    /\ spc \in {"idle", "next", "add", "count"}
    /\ todo \in SUBSET (1..Len(book)) /\ Cardinality(todo) <= Batch
    /\ manual \in BOOLEAN
    /\ replays \in [Jobs -> 0..NReplays]
    /\ faults \in 0..MaxFaults

QueueInit ==
    /\ job = [j \in Jobs |-> "absent"]
    /\ made = [j \in Jobs |-> 0]
    /\ stalls = [j \in Jobs |-> 0]
    /\ book = <<>> /\ lame = {} /\ held = 0
    /\ resolved = {} /\ young = {} /\ cooling = {} /\ mirror = {}
    /\ tries = [j \in Jobs |-> 0]
    /\ spc = "idle" /\ todo = {}
    /\ manual = FALSE
    /\ replays = [j \in Jobs |-> 0]
    /\ faults = 0

Fault == faults < MaxFaults /\ faults' = faults + 1

-----------------------------------------------------------------------------
(* The end of a job.                                                       *)

\* resolveJobMaxAttempts: a replay is added without the queue's defaults.
AttemptsOf(j) == IF j[2] = 0 THEN MaxAttempts ELSE 1

Finish(j) == job' = [job EXCEPT ![j] = "done"] /\ UNCHANGED <<made, stalls, ledger, faults>>

\* An UnrecoverableError is not retried and leaves no letter.
GiveUp(j) == job' = [job EXCEPT ![j] = "failed"] /\ UNCHANGED <<made, stalls, ledger, faults>>

\* recordDeadLetterFailure: the ledger, then the mirror; either may fail.
DeadLetter(j, rows, mirrored) ==
    /\ book' = book \o rows
    /\ young' = IF rows = <<>> THEN young ELSE young \cup {j}
    /\ mirror' = mirror \cup mirrored
    /\ UNCHANGED <<held, resolved, cooling, tries, spc, todo, manual, replays>>

\* parseJobDataOrDeadLetter: a job whose data the schema refuses becomes a
\* dead letter at once; what made it invalid may be what a replay needs.
Refuse(j) ==
    /\ Fault
    /\ job' = [job EXCEPT ![j] = "failed"]
    /\ lame' \in {lame, lame \cup {j}}
    /\ \E rows \in {<<>>, <<j>>}, mirrored \in {{}, {j}} : DeadLetter(j, rows, mirrored)
    /\ UNCHANGED <<made, stalls>>

\* The attempt has thrown: another one, or the dead letter.
Throw(j) ==
    /\ made' = [made EXCEPT ![j] = @ + 1]
    /\ \/ /\ made[j] + 1 < AttemptsOf(j)
          /\ job' = [job EXCEPT ![j] = "waiting"]
          /\ UNCHANGED <<ledger, faults>>
       \/ /\ made[j] + 1 >= AttemptsOf(j)
          /\ job' = [job EXCEPT ![j] = "failed"]
          /\ \/ DeadLetter(j, <<j>>, {j}) /\ UNCHANGED faults
             \/ Fault /\ \E rows \in {<<>>, <<j>>}, mirrored \in {{}, {j}} : DeadLetter(j, rows, mirrored)
          /\ UNCHANGED lame
    /\ UNCHANGED stalls

-----------------------------------------------------------------------------
(* Replays.                                                                *)

\* The job a replay of j adds; it has no job id that could collide.
Fresh(j) == {k \in Jobs : /\ k[1] = j[1] /\ k[2] > 0 /\ job[k] = "absent"
                          /\ \A n \in 1..(k[2] - 1) : job[<<j[1], n>>] # "absent"}

Added(j) == \E k \in Fresh(j) : job' = [job EXCEPT ![k] = "waiting"]

\* replayDeadLetterJob.
ManualReplay(j) ==
    /\ ~manual
    /\ j \in mirror \ lame
    /\ Added(j)
    /\ manual' = TRUE
    /\ \/ mirror' = mirror \ {j} /\ UNCHANGED faults
       \/ Fault /\ UNCHANGED mirror
    /\ UNCHANGED <<made, stalls, book, lame, held, resolved, young, cooling, tries, spc, todo, replays>>

\* findDeadLetterJobsForAutoRetry: the oldest ones, up to the batch size.
Due == {i \in 1..Len(book) : book[i] \notin resolved \cup young}
Scanned == {i \in Due : Cardinality({k \in Due : k <= i}) <= Batch - held}

SweepScan ==
    /\ spc = "idle" /\ Scanned # {}
    /\ spc' = "next"
    /\ todo' = Scanned
    /\ UNCHANGED <<queue, book, lame, held, resolved, young, cooling, tries, mirror, manual, replays, faults>>

\* Rows of the other queues get stuck at the head of the ledger, or leave it.
OthersHold ==
    /\ Fault
    /\ held' \in 0..Batch
    /\ UNCHANGED <<queue, book, lame, resolved, young, cooling, tries, mirror, spc, todo, manual, replays>>

\* The row the sweeper is at.
First == CHOOSE i \in todo : \A k \in todo : i <= k
Letter == book[First]

\* The sweeper goes on with the next row, or is done.
NextRow ==
    /\ todo' = todo \ {First}
    /\ spc' = IF todo' = {} THEN "idle" ELSE "next"

\* Mutant: a row whose budget is used up is skipped, but not resolved.
SweepRowSkips ==
    LET j == Letter
    IN  /\ spc = "next"
        /\ \/ /\ tries[j] >= MaxCount \/ j \in cooling \cup lame
              /\ NextRow
              /\ UNCHANGED <<resolved, faults>>
           \/ /\ tries[j] < MaxCount /\ j \notin cooling \cup lame
              /\ spc' = "add"
              /\ UNCHANGED <<resolved, todo, faults>>
        /\ UNCHANGED <<queue, book, lame, held, young, cooling, tries, mirror, manual, replays>>

\* getDlqAutoRetryState and what follows from it: a row without a payload is
\* skipped like one in its cooldown, neither counted nor resolved.  (The queue
\* of this module has no circuit.)  When Redis does not answer, the row counts
\* as never retried: count 0, which is the whole budget if MaxCount is 0.
SweepRow ==
    LET j == Letter
    IN  /\ spc = "next"
        /\ \/ /\ tries[j] >= MaxCount
              /\ resolved' = resolved \cup {j}
              /\ NextRow
              /\ UNCHANGED faults
           \/ /\ tries[j] < MaxCount /\ j \in cooling \cup lame
              /\ NextRow
              /\ UNCHANGED <<resolved, faults>>
           \/ /\ tries[j] < MaxCount /\ j \notin cooling \cup lame
              /\ spc' = "add"
              /\ UNCHANGED <<resolved, todo, faults>>
           \/ /\ tries[j] >= MaxCount \/ j \in cooling
              /\ MaxCount > 0 /\ j \notin lame
              /\ Fault
              /\ spc' = "add"
              /\ UNCHANGED <<resolved, todo>>
        /\ UNCHANGED <<queue, book, lame, held, young, cooling, tries, mirror, manual, replays>>

\* autoReplayDeadLetterFromLedger: the job, the mirror, the audit entry.  An
\* error, before or after the job was added, ends the work on this row.
SweepAdd ==
    LET j == Letter
    IN  /\ spc = "add"
        /\ \/ /\ Added(j)
              /\ replays' = [replays EXCEPT ![j] = @ + 1]
              /\ \/ mirror' = mirror \ {j} /\ spc' = "count" /\ UNCHANGED <<todo, faults>>
                 \/ Fault /\ NextRow /\ mirror' \in {mirror, mirror \ {j}}
           \/ /\ Fault
              /\ NextRow
              /\ UNCHANGED <<job, replays, mirror>>
        /\ UNCHANGED <<made, stalls, book, lame, held, resolved, young, cooling, tries, manual>>

\* Mutant: the count is not written.
SweepCountForgets ==
    /\ spc = "count"
    /\ cooling' = cooling \cup {Letter}
    /\ NextRow
    /\ UNCHANGED <<queue, book, lame, held, resolved, young, tries, mirror, manual, replays, faults>>

\* recordDlqAutoRetryAttempt: without an answer to the GET it counts from 0,
\* without one to the SET not at all.
SweepCount ==
    LET j == Letter
    IN  /\ spc = "count"
        /\ \/ /\ tries' = [tries EXCEPT ![j] = IF @ < MaxCount THEN @ + 1 ELSE @]
              /\ cooling' = cooling \cup {j}
              /\ UNCHANGED faults
           \/ /\ Fault
              /\ \/ tries' = [tries EXCEPT ![j] = 1] /\ cooling' = cooling \cup {j}
                 \/ UNCHANGED <<tries, cooling>>
        /\ NextRow
        /\ UNCHANGED <<queue, book, lame, held, resolved, young, mirror, manual, replays>>

\* The worker of the sweeper dies.
SweepDies ==
    /\ spc # "idle"
    /\ Fault
    /\ spc' = "idle" /\ todo' = {}
    /\ UNCHANGED <<queue, book, lame, held, resolved, young, cooling, tries, mirror, manual, replays>>

\* DLQ_AUTO_RETRY_COOLDOWN_MINUTES have passed.
CooldownEnds(j) ==
    /\ j \in young \cup cooling
    /\ young' = young \ {j} /\ cooling' = cooling \ {j}
    /\ UNCHANGED <<queue, book, lame, held, resolved, tries, mirror, spc, todo, manual, replays, faults>>

Sweeper == SweepScan \/ SweepRow \/ SweepAdd \/ SweepCount

-----------------------------------------------------------------------------
(* Properties.                                                             *)

\* "Maximum automated replays per audit.dead_letter_jobs row": a row is
\* replayed no more than MaxCount times, and a failure of Redis or of the
\* sweeper costs at most one more budget.
ReplayBudget == \A j \in Jobs : replays[j] <= MaxCount * (1 + faults)

\* Every ledger row whose payload can be rebuilt is resolved in the end, and
\* rows that keep failing do not keep the sweeper's batch from newer ones,
\* unless rows that are only skipped (lost payloads, the held rows of other
\* queues) fill the batch: these are neither counted nor resolved.
LettersResolve ==
    \A j \in Jobs :
        (\E i \in 1..Len(book) : book[i] = j)
            ~> \/ j \in resolved \cup lame
               \/ held + Cardinality({i \in 1..Len(book) : book[i] \in lame}) >= Batch
=============================================================================
