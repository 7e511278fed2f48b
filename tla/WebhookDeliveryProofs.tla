----------------------- MODULE WebhookDeliveryProofs ------------------------
(***************************************************************************)
(* The safety properties of WebhookDelivery and of DeadLetter beneath it,  *)
(* for any number of deliveries, workers, attempts, replays and faults.    *)
(*                                                                         *)
(* That copies need faults is a potential argument (Paid): what was        *)
(* delivered, the workers that may still deliver (Hot), and one if the     *)
(* row can be claimed once more (Open) or a producer may still mark it,    *)
(* are together at most one more than the faults so far.  A step that      *)
(* makes the sum grow is a fault.  The replays are counted likewise        *)
(* (Counted): all are in the count of the letter, but for those a fault    *)
(* has paid for and the one that is about to be counted.                   *)
(***************************************************************************)
EXTENDS WebhookDelivery, WellFoundedInduction, TLAPS

-----------------------------------------------------------------------------
(* The strengthening.                                                      *)

QueueShape ==
    /\ job \in [Jobs -> {"absent", "waiting", "active", "done", "failed"}]
    /\ made \in [Jobs -> Nat]
    /\ book \in Seq(Jobs) /\ mirror \in SUBSET Jobs
    /\ spc \in {"idle", "next", "add", "count"}
    /\ todo \in SUBSET (1..Len(book)) /\ (spc # "idle" => todo # {})
    /\ faults \in Nat

WorkShape ==
    /\ row \in [Deliveries -> Status]
    /\ pc \in [Workers -> Claiming \cup
                 {"idle", "post", "sent", "refused", "fail", "giveup", "done", "throw", "unrecoverable"}]
    /\ on \in [Workers -> Jobs \cup {None}]
    /\ mine \in SUBSET Workers /\ holds \in SUBSET Workers
    /\ owed \in SUBSET Deliveries /\ old \in SUBSET Deliveries
    /\ nth \in [Workers -> Nat] /\ count \in [Deliveries -> Nat] /\ got \in [Deliveries -> Nat]

\* A worker that is not idle runs a job that was added; dead letters are of
\* jobs that were added.
Running ==
    /\ \A w \in Workers : IF pc[w] = "idle" THEN w \notin mine \cup holds
                          ELSE on[w] \in Jobs /\ job[on[w]] # "absent"
    /\ \A i \in 1..Len(book) : job[book[i]] # "absent"
    /\ \A j \in mirror : job[j] # "absent"

\* A claim is made after the row was looked at.
Sending == \A w \in mine : pc[w] \notin Claiming \cup {"done"}

\* Dead letters are of jobs that failed for good, and so are the jobs whose
\* delivery has replays.
Dead ==
    /\ \A i \in 1..Len(book) : job[book[i]] = "failed"
    /\ \A j \in mirror : job[j] = "failed"
    /\ \A j \in Jobs : j[2] # 0 /\ job[j] # "absent" => job[<<j[1], 0>>] = "failed"

Unstarted(d) == \A j \in Jobs : j[1] = d => job[j] = "absent"

\* Until the enqueue, nobody has touched the row.
Owing ==
    /\ \A d \in Deliveries : row[d] = "none" => Unstarted(d) /\ d \notin unsure
    /\ \A d \in owed \ unsure : Unstarted(d) /\ row[d] = "PENDING"

\* A row a worker has claimed cannot be claimed by another.
Claimed ==
    /\ \A w \in mine : Of(w) \notin robbed => row[Of(w)] \in {"SENDING", "SENT"} /\ Of(w) \notin old
    /\ \A v, w \in mine : Of(v) = Of(w) /\ Of(w) \notin robbed => v = w

Counts ==
    /\ tries \in [Jobs -> 0..MaxCount]
    /\ replays \in [Jobs -> Nat]

\* What the replays of j may cost at most: its count and a budget per fault.
Covered(j) == tries[j] + MaxCount * faults

\* The replays of a row are in its count, but for those a fault has paid for
\* and for the one that is about to be counted.
CountedFor(j) ==
    /\ \/ replays[j] <= Covered(j)
       \/ spc = "count" /\ Letter = j /\ tries[j] < MaxCount /\ replays[j] <= Covered(j) + 1
    /\ spc = "add" /\ Letter = j => tries[j] < MaxCount \/ replays[j] + 1 <= Covered(j)

Counted ==
    /\ spc \in {"add", "count"} => MaxCount > 0
    /\ \A j \in Jobs : CountedFor(j)

\* A job that is being run has one worker with its lock.
Locks ==
    /\ \A w \in holds : job[on[w]] = "active"
    /\ \A v, w \in holds : on[v] = on[w] => v = w

\* A replay has one attempt.
Attempts ==
    /\ \A w \in Workers : pc[w] # "idle" => nth[w] > 0 /\ (on[w][2] # 0 => nth[w] = 1)
    /\ \A j \in Jobs : j[2] # 0 /\ job[j] \in {"absent", "waiting", "active"} => made[j] = 0

\* A claim leaves its attempt in the row.
Taken ==
    /\ \A d \in Deliveries : row[d] = "SENDING" => count[d] > 0
    /\ \A w \in mine : count[Of(w)] > 0

\* Workers that may still deliver, or make a row claimable again.
Hot(d) ==
    {w \in Workers : /\ pc[w] # "idle" /\ Of(w) = d
                     /\ \/ pc[w] \in {"post", "refused", "fail", "giveup"}
                        \/ pc[w] \in {"throw", "unrecoverable"} /\ w \in mine
                        \/ pc[w] \in Claiming /\ w \notin holds}

\* The producer's job may still be tried again.
Retried(d) ==
    /\ job[<<d, 0>>] \notin {"done", "failed"}
    /\ \A w \in holds : on[w] = <<d, 0>> => pc[w] # "done"

\* The row can be claimed, now or when its lease ends.
Open(d) ==
    \/ row[d] \in {"none", "PENDING"}
    \/ row[d] = "FAILED" /\ (count[d] = 0 \/ Retried(d))
    \/ row[d] = "SENDING" /\ (d \in old \/ \A w \in mine : Of(w) # d)

\* What was delivered, and what may still be, was paid for.
PaidFor(d) ==
    got[d] + Cardinality(Hot(d)) + (IF Open(d) THEN 1 ELSE 0) + (IF d \in owed \cap unsure THEN 1 ELSE 0)
        <= 1 + faults

Paid == \A d \in Deliveries : PaidFor(d)

IInv == QueueShape /\ WorkShape /\ Running /\ Sending /\ Dead /\ Owing /\ Claimed /\ Counts /\ Counted /\ Locks /\ Attempts /\ Taken /\ Paid

-----------------------------------------------------------------------------
(* What the actions do.                                                    *)

\* A job's end in the books: a ledger row and a mirrored job at most.
Booked(j) ==
    /\ UNCHANGED <<tries, spc, todo, replays>>
    /\ book' = book \/ book' = book \o <<j>>
    /\ mirror' = mirror \/ mirror' = mirror \cup {j}
    /\ faults' = faults \/ faults' = faults + 1

LEMMA EndQueue ==
    ASSUME QueueShape, WorkShape, Running, NEW w \in Workers, End(w)
    PROVE  /\ Booked(on[w])
           /\ \/ w \notin holds /\ UNCHANGED <<queue, ledger>>
              \/ /\ w \in holds
                 /\ \E s \in {"done", "failed", "waiting"} :
                        /\ job' = [job EXCEPT ![on[w]] = s]
                        /\ pc[w] = "done" => s = "done"
                        /\ s = "waiting" => on[w][2] = 0
                        /\ s # "failed" => UNCHANGED ledger
                 /\ \/ made' = made
                    \/ made' = [made EXCEPT ![on[w]] = @ + 1] /\ pc[w] = "throw"
<1> on[w] \in Jobs /\ job[on[w]] # "absent" /\ made[on[w]] \in Nat
  BY Zenon DEF Running, End, QueueShape, WorkShape
<1>1. CASE w \notin holds
  BY Zenon, <1>1 DEF End, Booked, queue, ledger
<1>2. CASE w \in holds /\ pc[w] = "done" /\ Finish(on[w])
  BY Zenon, <1>2 DEF Finish, Booked, queue, ledger
<1>3. CASE w \in holds /\ pc[w] = "unrecoverable" /\ GiveUp(on[w])
  BY Zenon, <1>3 DEF GiveUp, Booked, queue, ledger
<1>4. CASE w \in holds /\ pc[w] = "throw" /\ Throw(on[w])
  <2>1. CASE made[on[w]] + 1 < AttemptsOf(on[w]) /\ job' = [job EXCEPT ![on[w]] = "waiting"] /\ UNCHANGED <<ledger, faults>>
    <3>1. on[w][2] = 0
      BY <2>1 DEF AttemptsOf
    <3> QED  BY Zenon, <1>4, <2>1, <3>1 DEF Throw, Booked, ledger
  <2>2. CASE /\ job' = [job EXCEPT ![on[w]] = "failed"]
             /\ \E rows \in {<<>>, <<on[w]>>}, mirrored \in {{}, {on[w]}} : DeadLetter(on[w], rows, mirrored)
             /\ faults' = faults \/ faults' = faults + 1
    <3>1. PICK rows \in {<<>>, <<on[w]>>}, mirrored \in {{}, {on[w]}} : DeadLetter(on[w], rows, mirrored)
      BY Zenon, <2>2
    <3>2. book' = book \/ book' = book \o <<on[w]>>
      <4>1. book \o <<>> = book
        BY DEF QueueShape
      <4> QED  BY Zenon, <3>1, <4>1 DEF DeadLetter
    <3>3. mirror' = mirror \/ mirror' = mirror \cup {on[w]}
      BY Zenon, <3>1 DEF DeadLetter
    <3>4. UNCHANGED <<tries, spc, todo, replays>>
      BY Zenon, <3>1 DEF DeadLetter
    <3> QED  BY Zenon, <1>4, <2>2, <3>2, <3>3, <3>4 DEF Throw, Booked
  <2> QED  BY Zenon, <1>4, <2>1, <2>2 DEF Throw, Fault
<1> QED  BY Zenon, <1>1, <1>2, <1>3, <1>4 DEF End

\* The steps of a worker.
Work(w) == Step(w) \/ ClaimFails(w) \/ SecretFails(w) \/ Stall(w)

\* A step of w that is not a start or an end of a job, nor a stall.
Inside(w) ==
    \/ ReadWebhook(w) \/ ClaimPending(w) \/ ClaimFailed(w) \/ ClaimStale(w)
    \/ Post(w) \/ RecordSent(w) \/ RecordFailed(w) \/ ClaimFails(w) \/ SecretFails(w)

LEMMA WorkCases ==
    ASSUME NEW w \in Workers, Work(w)
    PROVE  (\E j \in Jobs : Start(w, j)) \/ Inside(w) \/ End(w) \/ Stall(w)
BY Zenon DEF Work, Step, Inside

\* A claim that succeeds.
TakesRow(w) ==
    /\ pc[w] \in Claiming
    /\ \/ row[Of(w)] = "PENDING"
       \/ row[Of(w)] = "FAILED" /\ count[Of(w)] < nth[w]
       \/ row[Of(w)] = "SENDING" /\ Of(w) \in old
    /\ row' = [row EXCEPT ![Of(w)] = "SENDING"]
    /\ count' = [count EXCEPT ![Of(w)] = nth[w]]
    /\ old' = old \ {Of(w)}
    /\ mine' = mine \cup {w}
    /\ pc' = [pc EXCEPT ![w] = "post"]
    /\ UNCHANGED <<faults, got, robbed>>

\* The row is left as it is; the worker goes on to the next statement.
Passes(w) ==
    /\ pc[w] \in Claiming
    /\ \E to \in Claiming \cup {"done"} : pc' = [pc EXCEPT ![w] = to]
    /\ UNCHANGED <<row, count, old, mine, faults, got, robbed>>

\* An outcome is recorded.
Outcome(w, status) ==
    /\ row' = [row EXCEPT ![Of(w)] = IF @ = "SENT" THEN @ ELSE status]
    /\ robbed' = IF \E v \in mine \ {w} : Of(v) = Of(w)
                 THEN robbed \cup {Of(w)} ELSE robbed
    /\ UNCHANGED <<count, old, got>>

Disabled(w) ==
    /\ pc[w] = "read" /\ Outcome(w, "FAILED") /\ pc' = [pc EXCEPT ![w] = "done"]
    /\ UNCHANGED <<mine, faults>>

Delivered(w) ==
    /\ pc[w] = "sent" /\ Outcome(w, "SENT") /\ mine' = mine \ {w}
    /\ pc' = [pc EXCEPT ![w] = "done"] /\ UNCHANGED faults

DeliveredUnseen(w) ==
    /\ pc[w] = "sent" /\ Outcome(w, "SENT") /\ pc' = [pc EXCEPT ![w] = "fail"]
    /\ faults' = faults + 1 /\ UNCHANGED mine

Failed(w) ==
    /\ pc[w] \in {"refused", "fail", "giveup"} /\ Outcome(w, "FAILED") /\ mine' = mine \ {w}
    /\ \E to \in {"throw", "unrecoverable"} : pc' = [pc EXCEPT ![w] = to]
    /\ UNCHANGED faults

FailedUnseen(w) ==
    /\ pc[w] \in {"refused", "fail", "giveup"} /\ Outcome(w, "FAILED") /\ mine' = mine \ {w}
    /\ \E to \in {"fail", "throw"} : pc' = [pc EXCEPT ![w] = to]
    /\ faults' = faults + 1

\* A fault, or a refusal, that leaves the table alone.
Moves(w) ==
    /\ UNCHANGED <<row, count, old, mine, robbed>>
    /\ \/ /\ pc[w] = "post" /\ \E to \in {"refused", "fail"} : pc' = [pc EXCEPT ![w] = to]
          /\ UNCHANGED <<got, faults>>
       \/ /\ pc[w] = "post" /\ got' = [got EXCEPT ![Of(w)] = @ + 1]
          /\ \/ pc' = [pc EXCEPT ![w] = "sent"] /\ UNCHANGED faults
             \/ pc' = [pc EXCEPT ![w] = "fail"] /\ faults' = faults + 1
       \/ /\ pc[w] \in Claiming \cup {"post", "sent", "refused", "fail", "giveup"}
          /\ \E to \in {"fail", "throw", "giveup"} : pc' = [pc EXCEPT ![w] = to]
          /\ (pc[w] \in Claiming \cup {"sent"} => pc' = [pc EXCEPT ![w] = "fail"])
          /\ UNCHANGED got
          /\ faults' = faults + 1

LEMMA InsideIs ==
    ASSUME NEW w \in Workers, Inside(w)
    PROVE  /\ UNCHANGED <<queue, ledger, on, nth, holds, owed, enabled, unsure>>
           /\ \/ TakesRow(w) \/ Passes(w) \/ Disabled(w) \/ Delivered(w)
              \/ DeliveredUnseen(w) \/ Failed(w) \/ FailedUnseen(w) \/ Moves(w)
<1>1. CASE ReadWebhook(w)
  BY Zenon, <1>1 DEF ReadWebhook, KeepsLocal, KeepsJob, Goto, Passes, Disabled, Outcome, RecordOutcome, Claiming
<1>2. CASE ClaimPending(w)
  BY Zenon, <1>2 DEF ClaimPending, Take, Goto, Passes, TakesRow, Claiming, history
<1>3. CASE ClaimFailed(w)
  BY Zenon, <1>3 DEF ClaimFailed, Take, Goto, Passes, TakesRow, Claiming, history
<1>4. CASE ClaimStale(w)
  BY Zenon, <1>4 DEF ClaimStale, Take, Goto, Passes, TakesRow, Claiming, history
<1>5. CASE Post(w)
  BY Zenon, <1>5 DEF Post, Goto, Fault, KeepsLocal, KeepsJob, Moves, table
<1>6. CASE RecordSent(w)
  BY Zenon, <1>6 DEF RecordSent, Goto, Fault, KeepsJob, Moves, Delivered, DeliveredUnseen, Outcome, RecordOutcome
<1>7. CASE RecordFailed(w)
  BY Zenon, <1>7 DEF RecordFailed, Goto, Fault, KeepsJob, Moves, Failed, FailedUnseen, Outcome, RecordOutcome, Claiming
<1>8. CASE ClaimFails(w)
  BY Zenon, <1>8 DEF ClaimFails, Goto, Fault, KeepsLocal, KeepsJob, Moves, table, history
<1>9. CASE SecretFails(w)
  BY Zenon, <1>9 DEF SecretFails, Goto, Fault, KeepsLocal, KeepsJob, Moves, table, Claiming
<1> QED  BY <1>1, <1>2, <1>3, <1>4, <1>5, <1>6, <1>7, <1>8, <1>9, Zenon DEF Inside

\* What a step of w leaves alone: the other workers, the rows it is not about
\* and the jobs it does not run.
Frame(w) ==
    /\ \A v \in Workers \ {w} :
           /\ pc'[v] = pc[v] /\ on'[v] = on[v] /\ nth'[v] = nth[v]
           /\ v \in mine' <=> v \in mine
           /\ v \in holds' <=> v \in holds
    /\ \A d \in Deliveries : pc[w] = "idle" \/ d # Of(w) =>
           /\ row'[d] = row[d] /\ count'[d] = count[d] /\ got'[d] = got[d]
           /\ d \in old' <=> d \in old
           /\ d \in robbed' <=> d \in robbed
    /\ \A j \in Jobs : j # on[w] /\ j # on'[w] => job'[j] = job[j] /\ made'[j] = made[j]
    /\ UNCHANGED <<owed, unsure>>
    /\ faults' = faults \/ faults' = faults + 1

LEMMA OnJob ==
    ASSUME Running, WorkShape, NEW w \in Workers, pc[w] # "idle"
    PROVE  on[w] \in Jobs /\ job[on[w]] # "absent" /\ Of(w) \in Deliveries
BY Zenon DEF Running, Jobs, Of

LEMMA WorkFrame ==
    ASSUME QueueShape, WorkShape, Running, NEW w \in Workers, Work(w)
    PROVE  Frame(w)
<1>1. CASE \E j \in Jobs : Start(w, j)
  <2>1. PICK j \in Jobs : Start(w, j)
    BY Zenon, <1>1
  <2>2. \A v \in Workers \ {w} :
           /\ pc'[v] = pc[v] /\ on'[v] = on[v] /\ nth'[v] = nth[v]
           /\ v \in mine' <=> v \in mine
           /\ v \in holds' <=> v \in holds
    BY Zenon, <2>1 DEF Start, Goto, WorkShape
  <2>3. \A k \in Jobs : k # on'[w] => job'[k] = job[k] /\ made'[k] = made[k]
    BY Zenon, <2>1 DEF Start, WorkShape, QueueShape
  <2>4. UNCHANGED <<row, count, got, old, robbed, owed, unsure, faults>>
    BY Zenon, <2>1 DEF Start, table, history
  <2> QED  BY <2>2, <2>3, <2>4, Zenon DEF Frame
<1>2. CASE Inside(w)
  <2>1. UNCHANGED <<queue, on, nth, holds, owed, unsure>>
    BY <1>2, InsideIs, Zenon
  <2>2. \A v \in Workers \ {w} : pc'[v] = pc[v] /\ (v \in mine' <=> v \in mine)
    BY <1>2, InsideIs DEF TakesRow, Passes, Disabled, Delivered, DeliveredUnseen, Failed, FailedUnseen, Moves, WorkShape
  <2>3. \A d \in Deliveries : d # Of(w) =>
           /\ row'[d] = row[d] /\ count'[d] = count[d] /\ got'[d] = got[d]
           /\ d \in old' <=> d \in old
           /\ d \in robbed' <=> d \in robbed
    BY <1>2, InsideIs DEF TakesRow, Passes, Disabled, Delivered, DeliveredUnseen, Failed, FailedUnseen, Moves, Outcome, WorkShape
  <2>4. pc[w] # "idle"
    BY Zenon, <1>2, InsideIs DEF TakesRow, Passes, Disabled, Delivered, DeliveredUnseen, Failed, FailedUnseen, Moves, Claiming
  <2>5. faults' = faults \/ faults' = faults + 1
    BY Zenon, <1>2, InsideIs DEF TakesRow, Passes, Disabled, Delivered, DeliveredUnseen, Failed, FailedUnseen, Moves
  <2> QED  BY <2>1, <2>2, <2>3, <2>4, <2>5, Zenon DEF Frame, queue
<1>3. CASE End(w)
  <2>1. on[w] \in Jobs
    BY Zenon, <1>3, OnJob DEF End
  <2>2. \A v \in Workers \ {w} :
           /\ pc'[v] = pc[v] /\ on'[v] = on[v] /\ nth'[v] = nth[v]
           /\ v \in mine' <=> v \in mine
           /\ v \in holds' <=> v \in holds
    BY Zenon, <1>3 DEF End, Goto, WorkShape
  <2>3. \A k \in Jobs : k # on[w] => job'[k] = job[k] /\ made'[k] = made[k]
    BY SMTT(60), <1>3, <2>1, EndQueue DEF queue, QueueShape
  <2>4. UNCHANGED <<row, count, got, old, robbed, owed, unsure>>
    BY Zenon, <1>3 DEF End, table, history
  <2>5. faults' = faults \/ faults' = faults + 1
    BY <1>3, EndQueue, Zenon DEF Booked
  <2> QED  BY <2>2, <2>3, <2>4, <2>5, Zenon DEF Frame
<1>4. CASE Stall(w)
  <2>1. on[w] \in Jobs
    BY Zenon, <1>4 DEF Stall, Running
  <2>2. \A v \in Workers \ {w} :
           /\ pc'[v] = pc[v] /\ on'[v] = on[v] /\ nth'[v] = nth[v]
           /\ v \in mine' <=> v \in mine
           /\ v \in holds' <=> v \in holds
    BY Zenon, <1>4 DEF Stall, Goto, WorkShape
  <2>3. \A k \in Jobs : k # on[w] => job'[k] = job[k] /\ made'[k] = made[k]
    BY Zenon, <1>4, <2>1 DEF Stall, QueueShape
  <2>4. UNCHANGED <<row, count, got, old, robbed, owed, unsure>> /\ faults' = faults + 1
    BY Zenon, <1>4 DEF Stall, table, Fault
  <2> QED  BY <2>2, <2>3, <2>4, Zenon DEF Frame
<1> QED  BY WorkCases, <1>1, <1>2, <1>3, <1>4, Zenon

\* The sweeper, the operator and the clock.
Replaying == \/ (Sweeper \/ SweepDies \/ OthersHold) /\ Webhooks
             \/ \E j \in Jobs : (CooldownEnds(j) \/ ManualReplay(j)) /\ Webhooks

Producing(d) == \/ Request(d) \/ Enqueue(d) \/ EnqueueUnanswered(d)
                \/ MarkEnqueueFailed(d) \/ ProducerDies(d) \/ LeaseEnds(d)

LEMMA NextCases ==
    ASSUME [Next]_vars
    PROVE  \/ \E d \in Deliveries : Producing(d)
           \/ \E w \in Workers : Work(w)
           \/ Replaying
           \/ \E j \in Jobs : RefuseJob(j)
           \/ UNCHANGED <<queue, ledger, faults, local, row, count, old, owed, history>>
BY Zenon DEF Next, Producing, Work, Replaying, Toggle, vars, table

\* Numbers: a set of positions that is not empty has a first one.
LEMMA Least ==
    ASSUME NEW X \in SUBSET Nat, X # {}
    PROVE  \E m \in X : \A n \in X : m <= n
<1> DEFINE R == {ss \in Nat \X Nat : ss[1] < ss[2]}
<1>1. IsWellFoundedOn(R, Nat)
  BY Zenon, NatLessThanWellFounded DEF OpToRel
<1>2. PICK m \in X : \A n \in X : ~(<<n, m>> \in R)
  <2> HIDE DEF R
  <2> QED  BY Zenon, <1>1, WFMin
<1>3. ASSUME NEW n \in X
      PROVE  m <= n
  <2>1. m \in Nat /\ n \in Nat /\ ~(n < m)
    BY Zenon, <1>2, <1>3
  <2> QED  BY <2>1
<1> QED  BY Zenon, <1>2, <1>3

LEMMA FirstIn ==
    ASSUME QueueShape, todo # {}
    PROVE  First \in todo /\ First \in 1..Len(book) /\ Letter \in Jobs
<1>1. todo \in SUBSET Nat
  BY DEF QueueShape
<1>2. PICK i \in todo : \A k \in todo : i <= k
  BY Zenon, <1>1, Least
<1>3. First \in todo
  BY <1>2, Zenon DEF First
<1>4. First \in 1..Len(book)
  BY Zenon, <1>3 DEF QueueShape
<1>5. Letter \in Jobs
  BY <1>4 DEF Letter, QueueShape
<1> QED  BY Zenon, <1>3, <1>4, <1>5

\* What a replay does to the queue: a job that is new, for a delivery that
\* has had a job before.
LEMMA ReplayQueue ==
    ASSUME QueueShape, Running, Dead, Replaying
    PROVE  /\ UNCHANGED <<made, local, table, history>>
           /\ book' = book /\ mirror' \in SUBSET mirror
           /\ faults' = faults \/ faults' = faults + 1
           /\ \/ job' = job
              \/ \E j, k \in Jobs :
                    /\ job[j] = "failed" /\ k[1] = j[1] /\ k[2] # 0 /\ job[k] = "absent"
                    /\ job' = [job EXCEPT ![k] = "waiting"]
<1>1. CASE SweepScan /\ Webhooks
  BY Zenon, <1>1 DEF SweepScan, Webhooks, queue
<1>2. CASE SweepRow /\ Webhooks
  BY Zenon, <1>2 DEF SweepRow, Webhooks, queue, Fault
<1>3. CASE SweepAdd /\ Webhooks
  <2>1. First \in 1..Len(book) /\ Letter \in Jobs
    BY Zenon, <1>3, FirstIn DEF SweepAdd, QueueShape
  <2>2. job[Letter] = "failed"
    BY Zenon, <2>1 DEF Dead, Letter
  <2>3. \/ job' = job
        \/ \E k \in Fresh(Letter) : job' = [job EXCEPT ![k] = "waiting"]
    BY <1>3, Zenon DEF SweepAdd, Added
  <2>4. \/ job' = job
        \/ \E k \in Jobs : /\ k[1] = Letter[1] /\ k[2] # 0 /\ job[k] = "absent"
                           /\ job' = [job EXCEPT ![k] = "waiting"]
    BY <2>3 DEF Fresh
  <2>5. /\ book' = book /\ mirror' \in SUBSET mirror /\ UNCHANGED made
        /\ faults' = faults \/ faults' = faults + 1
    BY Zenon, <1>3 DEF SweepAdd, Fault
  <2> QED  BY <1>3, <2>1, <2>2, <2>4, <2>5, Zenon DEF Webhooks
<1>4. CASE SweepCount /\ Webhooks
  BY Zenon, <1>4 DEF SweepCount, Webhooks, queue, Fault
<1>5. CASE SweepDies /\ Webhooks
  BY Zenon, <1>5 DEF SweepDies, Webhooks, queue, Fault
<1>6. CASE \E j \in Jobs : CooldownEnds(j) /\ Webhooks
  BY Zenon, <1>6 DEF CooldownEnds, Webhooks, queue
<1>7. CASE \E j \in Jobs : ManualReplay(j) /\ Webhooks
  <2>1. PICK j \in Jobs : ManualReplay(j) /\ Webhooks
    BY <1>7, Zenon
  <2>2. job[j] = "failed"
    BY <2>1, Zenon DEF Dead, ManualReplay
  <2>3. \E k \in Jobs : /\ k[1] = j[1] /\ k[2] # 0 /\ job[k] = "absent"
                        /\ job' = [job EXCEPT ![k] = "waiting"]
    <3>1. PICK k \in Fresh(j) : job' = [job EXCEPT ![k] = "waiting"]
      BY <2>1, Zenon DEF ManualReplay, Added
    <3>2. k \in Jobs /\ k[1] = j[1] /\ k[2] # 0 /\ job[k] = "absent"
      BY DEF Fresh, Jobs
    <3> QED  BY <3>1, <3>2, Zenon
  <2>4. /\ book' = book /\ mirror' \in SUBSET mirror /\ UNCHANGED made
        /\ faults' = faults \/ faults' = faults + 1
    BY Zenon, <2>1 DEF ManualReplay, Fault
  <2> QED  BY <2>1, <2>2, <2>3, <2>4, Zenon DEF Webhooks
<1>8. CASE OthersHold /\ Webhooks
  BY Zenon, <1>8 DEF OthersHold, Webhooks, queue, Fault
<1> QED  BY <1>1, <1>2, <1>3, <1>4, <1>5, <1>6, <1>7, <1>8, Zenon DEF Replaying, Sweeper

\* A job that is refused fails, with a letter or without.
LEMMA RefuseIs ==
    ASSUME QueueShape, NEW j \in Jobs, RefuseJob(j)
    PROVE  /\ Booked(j) /\ faults' = faults + 1
           /\ job[j] = "waiting" /\ job' = [job EXCEPT ![j] = "failed"]
           /\ UNCHANGED <<made, local, pc, on, nth, holds, mine>>
           /\ UNCHANGED <<row, count, old, owed, got, unsure, robbed>>
<1>1. /\ faults' = faults + 1 /\ job[j] = "waiting" /\ job' = [job EXCEPT ![j] = "failed"]
      /\ UNCHANGED <<made, local, pc, on, nth, holds, mine>>
      /\ UNCHANGED <<row, count, old, owed, got, unsure, robbed>>
  BY Zenon DEF RefuseJob, Refuse, Fault, local, table
<1>2. PICK rows \in {<<>>, <<j>>}, mirrored \in {{}, {j}} : DeadLetter(j, rows, mirrored)
  BY Zenon DEF RefuseJob, Refuse
<1>3. book' = book \/ book' = book \o <<j>>
  <2>1. book \o <<>> = book
    BY DEF QueueShape
  <2> QED  BY Zenon, <1>2, <2>1 DEF DeadLetter
<1>4. (mirror' = mirror \/ mirror' = mirror \cup {j}) /\ UNCHANGED <<tries, spc, todo, replays>>
  BY Zenon, <1>2 DEF DeadLetter
<1> QED  BY Zenon, <1>1, <1>3, <1>4 DEF Booked

\* It was waiting, and no other job changes.
LEMMA RefuseJobs ==
    ASSUME QueueShape, NEW j \in Jobs, RefuseJob(j), NEW k \in Jobs
    PROVE  job'[k] = job[k] \/ (job[k] = "waiting" /\ job'[k] = "failed" /\ k = j)
BY Zenon, RefuseIs DEF QueueShape

-----------------------------------------------------------------------------
(* Types.                                                                  *)

\* The part of the ledger that only the sweeper changes.
LEMMA BookedQueue ==
    ASSUME QueueShape, NEW j \in Jobs, Booked(j), job' \in [Jobs -> {"absent", "waiting", "active", "done", "failed"}],
           made' \in [Jobs -> Nat]
    PROVE  QueueShape'
<1>1. book' \in Seq(Jobs) /\ Len(book) <= Len(book') /\ Len(book) \in Nat /\ Len(book') \in Nat
  <2>1. CASE book' = book
    BY <2>1 DEF QueueShape
  <2>2. CASE book' = book \o <<j>>
    BY <2>2 DEF QueueShape
  <2> QED  BY <2>1, <2>2, Zenon DEF Booked
<1>2. todo' \in SUBSET (1..Len(book')) /\ (spc' # "idle" => todo' # {})
  BY <1>1 DEF QueueShape, Booked
<1>3. mirror' \in SUBSET Jobs /\ faults' \in Nat /\ spc' \in {"idle", "next", "add", "count"}
  BY DEF QueueShape, Booked
<1> QED  BY <1>1, <1>2, <1>3, Zenon DEF QueueShape

LEMMA QuietQueue ==
    ASSUME QueueShape, UNCHANGED <<tries, spc, todo, replays, book, mirror>>, faults' = faults \/ faults' = faults + 1,
           job' \in [Jobs -> {"absent", "waiting", "active", "done", "failed"}],
           made' \in [Jobs -> Nat]
    PROVE  QueueShape'
BY DEF QueueShape

LEMMA InsideShape ==
    ASSUME QueueShape, WorkShape, Running, NEW w \in Workers, Inside(w)
    PROVE  QueueShape' /\ WorkShape'
<1>1. UNCHANGED <<queue, ledger, on, nth, holds, owed, enabled, unsure>>
  BY InsideIs, Zenon
<1>2. faults' = faults \/ faults' = faults + 1
  BY Zenon, InsideIs DEF TakesRow, Passes, Disabled, Delivered, DeliveredUnseen, Failed, FailedUnseen, Moves
<1>3. QueueShape'
  BY <1>1, <1>2 DEF QueueShape, queue, ledger
<1>4. pc[w] # "idle"
  BY Zenon, InsideIs DEF TakesRow, Passes, Disabled, Delivered, DeliveredUnseen, Failed, FailedUnseen, Moves, Claiming
<1>5. Of(w) \in Deliveries
  BY <1>4, OnJob, Zenon
<1>6. pc' \in [Workers -> Claiming \cup
                 {"idle", "post", "sent", "refused", "fail", "giveup", "done", "throw", "unrecoverable"}]
  BY InsideIs DEF TakesRow, Passes, Disabled, Delivered, DeliveredUnseen, Failed, FailedUnseen, Moves, WorkShape
<1>7. row' \in [Deliveries -> Status]
  BY <1>5, InsideIs DEF TakesRow, Passes, Disabled, Delivered, DeliveredUnseen, Failed, FailedUnseen, Moves, Outcome, WorkShape, Status
<1>8. mine' \in SUBSET Workers /\ old' \in SUBSET Deliveries
  BY InsideIs DEF TakesRow, Passes, Disabled, Delivered, DeliveredUnseen, Failed, FailedUnseen, Moves, Outcome, WorkShape
<1>9. count' \in [Deliveries -> Nat] /\ got' \in [Deliveries -> Nat]
  BY <1>5, InsideIs DEF TakesRow, Passes, Disabled, Delivered, DeliveredUnseen, Failed, FailedUnseen, Moves, Outcome, WorkShape
<1> QED  BY Zenon, <1>1, <1>3, <1>6, <1>7, <1>8, <1>9 DEF WorkShape

LEMMA WorkTypes ==
    ASSUME QueueShape, WorkShape, Running, NEW w \in Workers, Work(w)
    PROVE  QueueShape' /\ WorkShape'
<1>1. CASE \E j \in Jobs : Start(w, j)
  <2>1. PICK j \in Jobs : Start(w, j)
    BY Zenon, <1>1
  <2>2. QueueShape'
    BY Zenon, <2>1 DEF Start, QueueShape, ledger
  <2>3. WorkShape'
    BY <2>1 DEF Start, Goto, WorkShape, QueueShape, table, history, Claiming
  <2> QED  BY Zenon, <2>2, <2>3
<1>2. CASE Inside(w)
  BY Zenon, <1>2, InsideShape
<1>3. CASE End(w)
  <2>1. on[w] \in Jobs
    BY Zenon, <1>3, OnJob DEF End
  <2>2. job' \in [Jobs -> {"absent", "waiting", "active", "done", "failed"}]
    BY Zenon, <1>3, <2>1, EndQueue DEF queue, QueueShape
  <2>3. made' \in [Jobs -> Nat]
    BY SMTT(60), <1>3, <2>1, EndQueue DEF queue, QueueShape
  <2>4. QueueShape'
    BY Zenon, <1>3, <2>1, <2>2, <2>3, EndQueue, BookedQueue
  <2>5. WorkShape'
    BY Zenon, <1>3 DEF End, Goto, WorkShape, table, history
  <2> QED  BY Zenon, <2>4, <2>5
<1>4. CASE Stall(w)
  <2>1. on[w] \in Jobs
    BY Zenon, <1>4 DEF Stall, Running
  <2>2. QueueShape'
    BY <1>4, <2>1 DEF Stall, QueueShape, ledger, Fault
  <2>3. WorkShape'
    BY <1>4 DEF Stall, Goto, WorkShape, table
  <2> QED  BY Zenon, <2>2, <2>3
<1> QED  BY WorkCases, <1>1, <1>2, <1>3, <1>4, Zenon

LEMMA ProducingTypes ==
    ASSUME QueueShape, WorkShape, NEW d \in Deliveries, Producing(d)
    PROVE  QueueShape' /\ WorkShape'
<1>0. <<d, 0>> \in Jobs
  BY DeadLetterAssumption DEF Jobs
<1>1. CASE Request(d)
  <2>1. UNCHANGED <<queue, ledger, local, count, old, got>> /\ (faults' = faults \/ faults' = faults + 1)
    BY <1>1, Zenon DEF Request, Fault
  <2>2. QueueShape'
    BY Zenon, <2>1, QuietQueue DEF queue, ledger, QueueShape
  <2>3. row' \in [Deliveries -> Status] /\ owed' \in SUBSET Deliveries
    BY Zenon, <1>1 DEF Request, WorkShape, Status
  <2> QED  BY Zenon, <2>1, <2>2, <2>3 DEF WorkShape, local
<1>2. CASE Enqueue(d)
  <2>1. QueueShape'
    <3>1. job' \in [Jobs -> {"absent", "waiting", "active", "done", "failed"}]
      BY Zenon, <1>0, <1>2 DEF Enqueue, QueueShape
    <3>2. faults' = faults \/ faults' = faults + 1
      BY <1>2, Zenon DEF Enqueue, Fault
    <3>3. UNCHANGED <<made, ledger>>
      BY <1>2, Zenon DEF Enqueue
    <3> QED  BY Zenon, <3>1, <3>2, <3>3, QuietQueue DEF ledger, QueueShape
  <2>2. row' \in [Deliveries -> Status] /\ owed' \in SUBSET Deliveries
    BY Zenon, <1>2 DEF Enqueue, Marked, WorkShape, Status
  <2>3. UNCHANGED <<local, count, old, got>>
    BY <1>2, Zenon DEF Enqueue
  <2> QED  BY Zenon, <2>1, <2>2, <2>3 DEF WorkShape, local
<1>3. CASE EnqueueUnanswered(d)
  BY SMTT(60), <1>0, <1>3 DEF EnqueueUnanswered, QueueShape, WorkShape, ledger, local, table, Fault
<1>4. CASE MarkEnqueueFailed(d)
  BY Zenon, <1>4 DEF MarkEnqueueFailed, Marked, QueueShape, WorkShape, Status, queue, ledger, local
<1>5. CASE ProducerDies(d)
  BY <1>5 DEF ProducerDies, QueueShape, WorkShape, queue, ledger, local, Fault
<1>6. CASE LeaseEnds(d)
  BY <1>6 DEF LeaseEnds, QueueShape, WorkShape, queue, ledger, local, Fault
<1> QED  BY <1>1, <1>2, <1>3, <1>4, <1>5, <1>6, Zenon DEF Producing

LEMMA RefuseTypes ==
    ASSUME QueueShape, WorkShape, NEW j \in Jobs, RefuseJob(j)
    PROVE  QueueShape' /\ WorkShape'
<1>1. job' \in [Jobs -> {"absent", "waiting", "active", "done", "failed"}] /\ made' \in [Jobs -> Nat]
  BY Zenon, RefuseIs DEF QueueShape
<1>2. QueueShape'
  BY Zenon, <1>1, RefuseIs, BookedQueue
<1>3. WorkShape'
  BY Zenon, RefuseIs DEF WorkShape
<1> QED  BY Zenon, <1>2, <1>3

\* The sweeper's positions are positions of the ledger.
LEMMA NextRowShape ==
    ASSUME QueueShape, spc # "idle", NextRow, book' = book
    PROVE  /\ spc' \in {"idle", "next", "add", "count"}
           /\ todo' \in SUBSET (1..Len(book')) /\ (spc' # "idle" => todo' # {})
BY Zenon DEF QueueShape, NextRow

-----------------------------------------------------------------------------
(* What runs was added.                                                    *)

\* A job that was added stays added.
LEMMA AddedStays ==
    ASSUME QueueShape, WorkShape, Running, Dead, [Next]_vars, NEW j \in Jobs, job[j] # "absent"
    PROVE  job'[j] # "absent"
<1>1. ASSUME NEW d \in Deliveries, Producing(d)
      PROVE  job'[j] # "absent"
  BY Zenon, <1>1 DEF Producing, Request, Enqueue, EnqueueUnanswered, MarkEnqueueFailed, ProducerDies, LeaseEnds, QueueShape, queue
<1>2. ASSUME NEW w \in Workers, Work(w)
      PROVE  job'[j] # "absent"
  <2>1. CASE \E k \in Jobs : Start(w, k)
    BY Zenon, <2>1 DEF Start, QueueShape
  <2>2. CASE Inside(w)
    BY <2>2, InsideIs, Zenon DEF queue
  <2>3. CASE End(w)
    BY Zenon, <2>3, EndQueue DEF QueueShape, queue
  <2>4. CASE Stall(w)
    BY Zenon, <2>4 DEF Stall, QueueShape
  <2> QED  BY <1>2, WorkCases, <2>1, <2>2, <2>3, <2>4, Zenon
<1>3. CASE Replaying
  BY Zenon, <1>3, ReplayQueue DEF QueueShape
<1>4. ASSUME NEW k \in Jobs, RefuseJob(k)
      PROVE  job'[j] # "absent"
  BY Zenon, <1>4, RefuseJobs
<1> QED  BY <1>1, <1>2, <1>3, <1>4, NextCases, Zenon DEF queue

\* The worker itself, after its step.
LEMMA WorkSelf ==
    ASSUME QueueShape, WorkShape, Running, NEW w \in Workers, Work(w)
    PROVE  IF pc'[w] = "idle" THEN w \notin mine' \cup holds'
           ELSE on'[w] \in Jobs /\ job'[on'[w]] # "absent"
<1>1. CASE \E j \in Jobs : Start(w, j)
  BY <1>1 DEF Start, Goto, QueueShape, WorkShape
<1>2. CASE Inside(w)
  <2>1. pc[w] # "idle"
    BY Zenon, <1>2, InsideIs DEF TakesRow, Passes, Disabled, Delivered, DeliveredUnseen, Failed, FailedUnseen, Moves, Claiming
  <2>2. pc'[w] # "idle"
    BY Zenon, <1>2, InsideIs DEF TakesRow, Passes, Disabled, Delivered, DeliveredUnseen, Failed, FailedUnseen, Moves, Claiming, WorkShape
  <2>3. UNCHANGED <<job, on>>
    BY <1>2, InsideIs, Zenon DEF queue
  <2> QED  BY <2>1, <2>2, <2>3, OnJob, Zenon
<1>3. CASE End(w)
  BY Zenon, <1>3 DEF End, Goto, WorkShape
<1>4. CASE Stall(w)
  <2>1. pc[w] # "idle" /\ on[w] \in Jobs
    BY Zenon, <1>4 DEF Stall, Running
  <2>2. CASE pc' = [pc EXCEPT ![w] = "idle"] /\ mine' = mine \ {w}
    BY Zenon, <1>4, <2>2 DEF Stall, WorkShape
  <2>3. CASE UNCHANGED <<pc, on, nth, mine>>
    BY Zenon, <1>4, <2>1, <2>3 DEF Stall, QueueShape
  <2> QED  BY <1>4, <2>2, <2>3, Zenon DEF Stall, Goto
<1> QED  BY WorkCases, <1>1, <1>2, <1>3, <1>4, Zenon

LEMMA LocalStays ==
    ASSUME QueueShape, WorkShape, Running, Dead, [Next]_vars, UNCHANGED local
    PROVE  \A w \in Workers : IF pc'[w] = "idle" THEN w \notin mine' \cup holds'
                              ELSE on'[w] \in Jobs /\ job'[on'[w]] # "absent"
BY AddedStays, Zenon DEF Running, local

\* A letter is of a job that was added.
LEMMA BookedAdded ==
    ASSUME QueueShape, WorkShape, Running, Dead, [Next]_vars, NEW j \in Jobs, job[j] # "absent", Booked(j)
    PROVE  /\ \A i \in 1..Len(book') : job'[book'[i]] # "absent"
           /\ \A k \in mirror' : job'[k] # "absent"
<1>1. ASSUME NEW i \in 1..Len(book')
      PROVE  job'[book'[i]] # "absent"
  <2>1. CASE book' = book
    BY <2>1, AddedStays DEF Running, QueueShape
  <2>2. CASE book' = book \o <<j>>
    <3>1. book'[i] \in Jobs /\ job[book'[i]] # "absent"
      <4>1. CASE i \in 1..Len(book)
        BY <2>2, <4>1 DEF Running, QueueShape
      <4>2. CASE i \notin 1..Len(book)
        BY <2>2, <4>2 DEF QueueShape
      <4> QED  BY Zenon, <4>1, <4>2
    <3> QED  BY Zenon, <3>1, AddedStays
  <2> QED  BY <2>1, <2>2, Zenon DEF Booked
<1>2. \A k \in mirror' : job'[k] # "absent"
  BY Zenon, AddedStays DEF Booked, Running, QueueShape
<1> QED  BY Zenon, <1>1, <1>2

LEMMA RunningNext ==
    ASSUME QueueShape, WorkShape, Running, Dead, [Next]_vars
    PROVE  Running'
<1>1. ASSUME NEW d \in Deliveries, Producing(d)
      PROVE  Running'
  <2>1. UNCHANGED <<local, ledger>>
    BY <1>1, Zenon DEF Producing, Request, Enqueue, EnqueueUnanswered, MarkEnqueueFailed, ProducerDies, LeaseEnds
  <2>2. \A i \in 1..Len(book') : job'[book'[i]] # "absent"
    BY SMTT(60), <2>1, AddedStays DEF ledger, Running, QueueShape
  <2>3. \A j \in mirror' : job'[j] # "absent"
    BY Zenon, <2>1, AddedStays DEF ledger, Running, QueueShape
  <2> QED  BY <2>1, <2>2, <2>3, LocalStays, Zenon DEF Running
<1>2. ASSUME NEW w \in Workers, Work(w)
      PROVE  Running'
  <2>1. ASSUME NEW v \in Workers
        PROVE  IF pc'[v] = "idle" THEN v \notin mine' \cup holds'
               ELSE on'[v] \in Jobs /\ job'[on'[v]] # "absent"
    <3>1. CASE v = w
      BY <1>2, <3>1, WorkSelf, Zenon
    <3>2. CASE v # w
      <4>1. /\ pc'[v] = pc[v] /\ on'[v] = on[v]
            /\ v \in mine' <=> v \in mine
            /\ v \in holds' <=> v \in holds
        BY <1>2, <3>2, WorkFrame, Zenon DEF Frame
      <4>2. CASE pc[v] = "idle"
        BY <4>1, <4>2, Zenon DEF Running
      <4>3. CASE pc[v] # "idle"
        BY <4>1, <4>3, OnJob, AddedStays, Zenon
      <4> QED  BY Zenon, <4>2, <4>3
    <3> QED  BY Zenon, <3>1, <3>2
  <2>2. UNCHANGED <<book, mirror>> \/ (on[w] \in Jobs /\ job[on[w]] # "absent" /\ Booked(on[w]))
    <3>1. CASE \E j \in Jobs : Start(w, j)
      BY <3>1, Zenon DEF Start, ledger
    <3>2. CASE Inside(w)
      BY <3>2, InsideIs, Zenon DEF ledger
    <3>3. CASE End(w)
      BY Zenon, <3>3, EndQueue, OnJob DEF End
    <3>4. CASE Stall(w)
      BY <3>4, Zenon DEF Stall, ledger
    <3> QED  BY <1>2, WorkCases, <3>1, <3>2, <3>3, <3>4, Zenon
  <2>3. CASE UNCHANGED <<book, mirror>>
    <3>1. \A i \in 1..Len(book') : job'[book'[i]] # "absent"
      BY <2>3, AddedStays DEF Running, QueueShape
    <3>2. \A j \in mirror' : job'[j] # "absent"
      BY Zenon, <2>3, AddedStays DEF Running, QueueShape
    <3> QED  BY <2>1, <3>1, <3>2, Zenon DEF Running
  <2>4. CASE on[w] \in Jobs /\ job[on[w]] # "absent" /\ Booked(on[w])
    BY <2>1, <2>4, BookedAdded, Zenon DEF Running
  <2> QED  BY <2>2, <2>3, <2>4, Zenon
<1>3. CASE Replaying
  <2>1. UNCHANGED local /\ book' = book /\ mirror' \in SUBSET mirror
    BY <1>3, ReplayQueue, Zenon
  <2>2. \A i \in 1..Len(book') : job'[book'[i]] # "absent"
    BY <2>1, AddedStays DEF Running, QueueShape
  <2>3. \A j \in mirror' : job'[j] # "absent"
    BY Zenon, <2>1, AddedStays DEF Running, QueueShape
  <2> QED  BY <2>1, <2>2, <2>3, LocalStays, Zenon DEF Running
<1>4. CASE UNCHANGED <<queue, ledger, faults, local, row, count, old, owed, history>>
  BY <1>4, Zenon DEF Running, queue, ledger, local
<1>5. ASSUME NEW j \in Jobs, RefuseJob(j)
      PROVE  Running'
  <2>1. UNCHANGED local /\ Booked(j) /\ job[j] # "absent"
    BY Zenon, <1>5, RefuseIs
  <2> QED  BY <2>1, BookedAdded, LocalStays, Zenon DEF Running
<1> QED  BY <1>1, <1>2, <1>3, <1>4, <1>5, NextCases, Zenon

-----------------------------------------------------------------------------
(* Until the enqueue.                                                      *)

LEMMA WorkAddsNone ==
    ASSUME QueueShape, WorkShape, Running, NEW w \in Workers, Work(w), NEW j \in Jobs, job[j] = "absent"
    PROVE  job'[j] = "absent"
<1>1. CASE \E k \in Jobs : Start(w, k)
  BY Zenon, <1>1 DEF Start, QueueShape
<1>2. CASE Inside(w)
  BY <1>2, InsideIs, Zenon DEF queue
<1>3. CASE End(w)
  <2>1. on[w] \in Jobs /\ on[w] # j
    BY Zenon, <1>3, OnJob DEF End
  <2> QED  BY Zenon, <1>3, <2>1, EndQueue DEF queue, QueueShape
<1>4. CASE Stall(w)
  <2>1. on[w] \in Jobs /\ on[w] # j
    BY Zenon, <1>4, OnJob DEF Stall, Running
  <2> QED  BY Zenon, <1>4, <2>1 DEF Stall, QueueShape
<1> QED  BY WorkCases, <1>1, <1>2, <1>3, <1>4, Zenon

\* Only the enqueue adds the first job of a delivery.
LEMMA FirstJob ==
    ASSUME QueueShape, WorkShape, Running, Dead, [Next]_vars, NEW d \in Deliveries,
           Unstarted(d), ~Unstarted(d)'
    PROVE  d \in owed \ unsure /\ d \notin owed' \ unsure'
<1>1. PICK j \in Jobs : j[1] = d /\ job[j] = "absent" /\ job'[j] # "absent"
  BY Zenon DEF Unstarted
<1>2. ASSUME NEW e \in Deliveries, Producing(e)
      PROVE  d \in owed \ unsure /\ d \notin owed' \ unsure'
  <2>1. Enqueue(e) \/ EnqueueUnanswered(e)
    BY <1>1, <1>2, Zenon DEF Producing, Request, MarkEnqueueFailed, ProducerDies, LeaseEnds, queue
  <2>2. e = d
    BY <1>1, <2>1 DEF Enqueue, EnqueueUnanswered, QueueShape
  <2> QED  BY <2>1, <2>2, Zenon DEF Enqueue, EnqueueUnanswered
<1>3. ASSUME NEW w \in Workers, Work(w)
      PROVE  FALSE
  BY <1>1, <1>3, WorkAddsNone, Zenon
<1>4. CASE Replaying
  <2>1. PICK i, k \in Jobs : /\ job[i] = "failed" /\ k[1] = i[1]
                             /\ job' = [job EXCEPT ![k] = "waiting"]
    BY <1>1, <1>4, ReplayQueue, Zenon
  <2>2. j = k
    BY Zenon, <1>1, <2>1 DEF QueueShape
  <2> QED  BY <1>1, <2>1, <2>2, Zenon DEF Unstarted
<1>5. ASSUME NEW k \in Jobs, RefuseJob(k)
      PROVE  FALSE
  BY Zenon, <1>1, <1>5, RefuseJobs
<1> QED  BY <1>1, <1>2, <1>3, <1>4, <1>5, NextCases, Zenon DEF queue

\* A worker does not touch the row of a delivery without a job.
LEMMA UntouchedRow ==
    ASSUME QueueShape, WorkShape, Running, NEW w \in Workers, Work(w), NEW d \in Deliveries, Unstarted(d)
    PROVE  row'[d] = row[d] /\ UNCHANGED <<owed, unsure>>
<1>1. pc[w] = "idle" \/ d # Of(w)
  BY OnJob, Zenon DEF Unstarted, Of
<1> QED  BY <1>1, WorkFrame, Zenon DEF Frame

LEMMA OwingNext ==
    ASSUME QueueShape, WorkShape, Running, Dead, Owing, [Next]_vars
    PROVE  Owing'
<1>1. ASSUME NEW d \in Deliveries, row'[d] = "none"
      PROVE  row[d] = "none" /\ (d \in unsure' => d \in unsure)
  <2>1. ASSUME NEW e \in Deliveries, Producing(e)
        PROVE  row[d] = "none" /\ (d \in unsure' => d \in unsure)
    <3>1. row[d] = "none"
      BY Zenon, <1>1, <2>1 DEF Producing, Request, Enqueue, EnqueueUnanswered, MarkEnqueueFailed, Marked, ProducerDies, LeaseEnds, WorkShape, table
    <3>2. d \notin owed \ unsure
      BY <3>1, Zenon DEF Owing
    <3> QED  BY Zenon, <2>1, <3>1, <3>2 DEF Producing, Request, Enqueue, EnqueueUnanswered, MarkEnqueueFailed, ProducerDies, LeaseEnds, history
  <2>2. ASSUME NEW w \in Workers, Work(w)
        PROVE  row[d] = "none" /\ (d \in unsure' => d \in unsure)
    <3>1. CASE pc[w] = "idle" \/ d # Of(w)
      BY <1>1, <2>2, <3>1, WorkFrame, Zenon DEF Frame
    <3>2. CASE pc[w] # "idle" /\ d = Of(w)
      <4>1. ~(\E j \in Jobs : Start(w, j))
        BY <3>2, Zenon DEF Start
      <4>2. CASE Inside(w)
        BY Zenon, <1>1, <3>2, <4>2, InsideIs DEF TakesRow, Passes, Disabled, Delivered, DeliveredUnseen, Failed, FailedUnseen, Moves, Outcome, WorkShape
      <4>3. CASE End(w) \/ Stall(w)
        BY <1>1, <4>3, Zenon DEF End, Stall, table, history
      <4> QED  BY <2>2, <4>1, <4>2, <4>3, WorkCases, Zenon
    <3> QED  BY Zenon, <3>1, <3>2
  <2>3. CASE Replaying
    BY <1>1, <2>3, ReplayQueue, Zenon DEF table, history
  <2>4. ASSUME NEW j \in Jobs, RefuseJob(j)
        PROVE  row[d] = "none" /\ (d \in unsure' => d \in unsure)
    BY Zenon, <1>1, <2>4, RefuseIs
  <2> QED  BY <1>1, <2>1, <2>2, <2>3, <2>4, NextCases, Zenon DEF history
<1>2. ASSUME NEW d \in Deliveries, row'[d] = "none"
      PROVE  Unstarted(d)' /\ d \notin unsure'
  <2>1. Unstarted(d) /\ d \notin owed \ unsure /\ d \notin unsure
    BY <1>1, <1>2, Zenon DEF Owing
  <2> QED  BY <1>1, <1>2, <2>1, FirstJob, Zenon
<1>3. ASSUME NEW d \in owed' \ unsure'
      PROVE  Unstarted(d)' /\ row'[d] = "PENDING"
  <2>0. d \in Deliveries
    <3>1. owed' \in SUBSET Deliveries
      <4>1. ASSUME NEW e \in Deliveries, Producing(e)
            PROVE  WorkShape'
        BY Zenon, <4>1, ProducingTypes
      <4>2. ASSUME NEW w \in Workers, Work(w)
            PROVE  WorkShape'
        BY Zenon, <4>2, WorkTypes
      <4>3. CASE Replaying
        <5>1. UNCHANGED <<local, table, history>>
          BY <4>3, ReplayQueue, Zenon
        <5> QED  BY <5>1, Zenon DEF WorkShape, local, table, history
      <4>4. ASSUME NEW j \in Jobs, RefuseJob(j)
            PROVE  WorkShape'
        BY Zenon, <4>4, RefuseTypes
      <4> QED  BY Zenon, <4>1, <4>2, <4>3, <4>4, NextCases DEF WorkShape
    <3> QED  BY Zenon, <3>1
  <2>1. CASE d \in owed \ unsure
    <3>1. Unstarted(d) /\ row[d] = "PENDING"
      BY <2>1, Zenon DEF Owing
    <3>2. Unstarted(d)'
      BY <1>3, <2>0, <3>1, FirstJob, Zenon
    <3>3. ASSUME NEW e \in Deliveries, Producing(e)
          PROVE  row'[d] = "PENDING"
      BY Zenon, <1>3, <2>0, <2>1, <3>1, <3>3 DEF Producing, Request, Enqueue, EnqueueUnanswered, MarkEnqueueFailed, Marked, ProducerDies, LeaseEnds, WorkShape, table
    <3>4. ASSUME NEW w \in Workers, Work(w)
          PROVE  row'[d] = "PENDING"
      BY <2>0, <3>1, <3>4, UntouchedRow, Zenon
    <3>5. CASE Replaying
      BY <3>1, <3>2, <3>5, ReplayQueue, Zenon DEF table
    <3>6. ASSUME NEW j \in Jobs, RefuseJob(j)
          PROVE  row'[d] = "PENDING"
      BY Zenon, <3>1, <3>6, RefuseIs
    <3> QED  BY <3>1, <3>2, <3>3, <3>4, <3>5, <3>6, NextCases, Zenon
  <2>2. CASE d \notin owed \ unsure
    <3>1. Request(d)
      <4>1. ASSUME NEW e \in Deliveries, Producing(e)
            PROVE  Request(d)
        <5>1. Request(e) /\ e = d
          BY Zenon, <1>3, <2>2, <4>1 DEF Producing, Request, Enqueue, EnqueueUnanswered, MarkEnqueueFailed, ProducerDies, LeaseEnds, table, history
        <5> QED  BY Zenon, <5>1
      <4>2. ASSUME NEW w \in Workers, Work(w)
            PROVE  FALSE
        BY <1>3, <2>2, <4>2, WorkFrame, Zenon DEF Frame
      <4>3. CASE Replaying
        BY <1>3, <2>2, <4>3, ReplayQueue, Zenon DEF table, history
      <4>4. ASSUME NEW j \in Jobs, RefuseJob(j)
            PROVE  FALSE
        BY Zenon, <1>3, <2>2, <4>4, RefuseIs
      <4> QED  BY <1>3, <2>2, <4>1, <4>2, <4>3, <4>4, NextCases, Zenon DEF history
    <3>2. Unstarted(d) /\ row'[d] = "PENDING" /\ job' = job
      BY Zenon, <2>0, <3>1 DEF Owing, Request, WorkShape, queue
    <3> QED  BY <3>2, Zenon DEF Unstarted
  <2> QED  BY Zenon, <2>1, <2>2
<1> QED  BY <1>2, <1>3, Zenon DEF Owing

-----------------------------------------------------------------------------
(* Claims.                                                                 *)

\* Nobody else has the row that a step of w makes claimable.
LEMMA ClaimedOther ==
    ASSUME QueueShape, WorkShape, Running, Claimed, NEW w \in Workers, Work(w),
           NEW v \in Workers \ {w}, v \in mine', Of(v)' \notin robbed'
    PROVE  /\ v \in mine /\ Of(v)' = Of(v) /\ Of(v) \notin robbed
           /\ row'[Of(v)] \in {"SENDING", "SENT"} /\ Of(v) \notin old'
           /\ w \in mine' => pc'[w] # "idle" /\ Of(w)' # Of(v)
<1>1. v \in mine /\ Of(v)' = Of(v) /\ pc[v] # "idle" /\ pc'[v] = pc[v]
  BY WorkFrame, Zenon DEF Frame, Of, Running
<1>2. Of(v) \in Deliveries
  BY <1>1, OnJob, Zenon
<1>3. Of(v) \notin robbed
  <2>1. CASE \E j \in Jobs : Start(w, j)
    BY <1>1, <2>1, Zenon DEF Start, history
  <2>2. CASE Inside(w)
    BY <1>1, <2>2, InsideIs DEF TakesRow, Passes, Disabled, Delivered, DeliveredUnseen, Failed, FailedUnseen, Moves, Outcome
  <2>3. CASE End(w) \/ Stall(w)
    <3>1. robbed' = robbed
      BY Zenon, <2>3 DEF End, Stall, history
    <3> QED  BY <1>1, <3>1, Zenon
  <2> QED  BY <2>1, <2>2, <2>3, WorkCases, Zenon
<1>4. /\ row[Of(v)] \in {"SENDING", "SENT"} /\ Of(v) \notin old
      /\ w \in mine => Of(w) # Of(v)
  BY <1>1, <1>3, Zenon DEF Claimed
<1>5. CASE pc[w] = "idle"
  <2>1. PICK j \in Jobs : Start(w, j)
    BY Zenon, <1>5, WorkCases, InsideIs DEF TakesRow, Passes, Disabled, Delivered, DeliveredUnseen, Failed, FailedUnseen, Moves, Claiming, End, Stall, Running
  <2>2. UNCHANGED <<row, old, mine>> /\ w \notin mine
    BY <1>5, <2>1, Zenon DEF Start, table, Running
  <2> QED  BY <1>1, <1>3, <1>4, <2>2, Zenon
<1>6. CASE pc[w] # "idle" /\ Of(w) # Of(v)
  <2>1. row'[Of(v)] = row[Of(v)] /\ (Of(v) \in old' <=> Of(v) \in old)
    BY <1>2, <1>6, WorkFrame, Zenon DEF Frame
  <2>2. w \in mine' => pc'[w] # "idle"
    BY WorkSelf, Zenon
  <2>3. w \in mine' => Of(w)' = Of(w)
    <3>1. CASE Inside(w)
      BY <3>1, InsideIs, Zenon DEF Of
    <3>2. CASE End(w)
      BY <3>2, Zenon DEF End
    <3>3. CASE Stall(w)
      BY Zenon, <3>3 DEF Stall, Of
    <3> QED  BY <1>6, <3>1, <3>2, <3>3, WorkCases, Zenon DEF Start
  <2> QED  BY <1>1, <1>3, <1>4, <1>6, <2>1, <2>2, <2>3, Zenon
<1>7. CASE pc[w] # "idle" /\ Of(w) = Of(v)
  <2>0. w \notin mine
    BY Zenon, <1>4, <1>7
  <2>1. CASE Inside(w)
    <3>1. ~TakesRow(w)
      BY Zenon, <1>4, <1>7 DEF TakesRow
    <3>2. ~(Disabled(w) \/ Delivered(w) \/ DeliveredUnseen(w) \/ Failed(w) \/ FailedUnseen(w))
      BY Zenon, <1>1, <1>7 DEF Disabled, Delivered, DeliveredUnseen, Failed, FailedUnseen, Outcome
    <3>3. UNCHANGED <<row, old, mine>>
      BY <2>1, <3>1, <3>2, InsideIs, Zenon DEF Passes, Moves
    <3> QED  BY <1>1, <1>3, <1>4, <2>0, <3>3, Zenon
  <2>2. CASE End(w) \/ Stall(w)
    <3>1. UNCHANGED <<row, old>> /\ w \notin mine'
      BY Zenon, <2>0, <2>2 DEF End, Stall, table
    <3> QED  BY <1>1, <1>3, <1>4, <3>1, Zenon
  <2> QED  BY <1>7, <2>1, <2>2, WorkCases, Zenon DEF Start
<1> QED  BY Zenon, <1>5, <1>6, <1>7

LEMMA SendingNext ==
    ASSUME QueueShape, WorkShape, Running, Dead, Sending, [Next]_vars
    PROVE  Sending'
<1>1. ASSUME NEW w \in Workers, Work(w)
      PROVE  Sending'
  <2>1. ASSUME NEW v \in mine', v # w
        PROVE  pc'[v] \notin Claiming \cup {"done"}
    <3>1. v \in mine
      <4>1. mine' \subseteq Workers
        BY Zenon, <1>1, WorkTypes DEF WorkShape
      <4> QED  BY <1>1, <2>1, <4>1, WorkFrame, Zenon DEF Frame
    <3>2. pc'[v] = pc[v]
      BY Zenon, <1>1, <2>1, <3>1, WorkFrame DEF Frame, WorkShape
    <3> QED  BY <3>1, <3>2, Zenon DEF Sending
  <2>2. ASSUME w \in mine'
        PROVE  pc'[w] \notin Claiming \cup {"done"}
    <3>1. CASE \E j \in Jobs : Start(w, j)
      BY <2>2, <3>1, Zenon DEF Start, Running
    <3>2. CASE Inside(w)
      BY <2>2, <3>2, InsideIs DEF TakesRow, Passes, Disabled, Delivered, DeliveredUnseen, Failed, FailedUnseen, Moves, Claiming, Sending, WorkShape
    <3>3. CASE End(w)
      BY <2>2, <3>3, Zenon DEF End
    <3>4. CASE Stall(w)
      BY Zenon, <2>2, <3>4 DEF Stall, Sending
    <3> QED  BY <1>1, <3>1, <3>2, <3>3, <3>4, WorkCases, Zenon
  <2> QED  BY <2>1, <2>2, Zenon DEF Sending
<1>2. ASSUME NEW d \in Deliveries, Producing(d)
      PROVE  UNCHANGED local
  BY <1>2, Zenon DEF Producing, Request, Enqueue, EnqueueUnanswered, MarkEnqueueFailed, ProducerDies, LeaseEnds
<1>3. CASE Replaying
  BY <1>3, ReplayQueue, Zenon DEF Sending, local
<1>4. ASSUME NEW j \in Jobs, RefuseJob(j)
      PROVE  UNCHANGED local
  BY Zenon, <1>4, RefuseIs
<1> QED  BY <1>1, <1>2, <1>3, <1>4, NextCases, Zenon DEF Sending, local

LEMMA ClaimedSelf ==
    ASSUME QueueShape, WorkShape, Running, Sending, Claimed, NEW w \in Workers, Work(w),
           w \in mine', Of(w)' \notin robbed'
    PROVE  row'[Of(w)'] \in {"SENDING", "SENT"} /\ Of(w)' \notin old'
<1>0. pc[w] # "idle"
  <2>1. ~(\E j \in Jobs : Start(w, j))
    BY Zenon DEF Start, Running
  <2> QED  BY Zenon, <2>1, WorkCases, InsideIs DEF TakesRow, Passes, Disabled, Delivered, DeliveredUnseen, Failed, FailedUnseen, Moves, Claiming, End, Stall, Running
<1>1. Of(w) \in Deliveries
  BY <1>0, OnJob, Zenon
<1>2. CASE Inside(w)
  <2>1. Of(w)' = Of(w)
    BY <1>2, InsideIs, Zenon DEF Of
  <2>2. CASE TakesRow(w)
    BY Zenon, <1>1, <2>1, <2>2 DEF TakesRow, WorkShape
  <2>3. CASE Passes(w) \/ Moves(w)
    BY <2>1, <2>3, Zenon DEF Passes, Moves, Claimed
  <2>4. CASE Disabled(w)
    BY Zenon, <2>4 DEF Disabled, Sending, Claiming
  <2>5. CASE Delivered(w) \/ Failed(w) \/ FailedUnseen(w)
    BY Zenon, <2>5 DEF Delivered, Failed, FailedUnseen
  <2>6. CASE DeliveredUnseen(w)
    BY Zenon, <1>1, <2>1, <2>6 DEF DeliveredUnseen, Outcome, WorkShape, Claimed
  <2> QED  BY <1>2, <2>2, <2>3, <2>4, <2>5, <2>6, InsideIs, Zenon
<1>3. CASE End(w)
  BY <1>3, Zenon DEF End
<1>4. CASE Stall(w)
  <2>1. UNCHANGED <<on, mine, row, old, robbed>>
    BY Zenon, <1>4 DEF Stall, table
  <2> QED  BY <2>1, Zenon DEF Claimed, Of
<1> QED  BY <1>0, <1>2, <1>3, <1>4, WorkCases, Zenon DEF Start

LEMMA ClaimedNext ==
    ASSUME QueueShape, WorkShape, Running, Dead, Sending, Owing, Claimed, [Next]_vars
    PROVE  Claimed'
<1>1. ASSUME NEW w \in Workers, Work(w)
      PROVE  Claimed'
  <2>0. mine' \subseteq Workers
    BY Zenon, <1>1, WorkTypes DEF WorkShape
  <2>1. ASSUME NEW v \in mine', Of(v)' \notin robbed'
        PROVE  row'[Of(v)'] \in {"SENDING", "SENT"} /\ Of(v)' \notin old'
    <3>1. CASE v = w
      BY <1>1, <2>1, <3>1, ClaimedSelf, Zenon
    <3>2. CASE v # w
      <4>1. v \in Workers \ {w}
        BY Zenon, <2>0, <3>2
      <4>2. Of(v)' = Of(v) /\ row'[Of(v)] \in {"SENDING", "SENT"} /\ Of(v) \notin old'
        BY <1>1, <2>1, <4>1, ClaimedOther, Zenon
      <4> QED  BY Zenon, <4>2
    <3> QED  BY Zenon, <3>1, <3>2
  <2>2. ASSUME NEW u \in mine', NEW v \in mine', Of(u)' = Of(v)', Of(v)' \notin robbed', u # v
        PROVE  FALSE
    <3>1. CASE u = w
      BY <1>1, <2>0, <2>2, <3>1, ClaimedOther, Zenon
    <3>2. CASE v = w
      <4>1. u \in Workers \ {w} /\ Of(u)' \notin robbed'
        BY <2>0, <2>2, <3>2, Zenon
      <4> QED  BY <1>1, <2>2, <3>2, <4>1, ClaimedOther, Zenon
    <3>3. CASE u # w /\ v # w
      <4>1. u \in Workers \ {w} /\ v \in Workers \ {w} /\ Of(u)' \notin robbed'
        BY <2>0, <2>2, <3>3, Zenon
      <4>2. u \in mine /\ v \in mine /\ Of(u)' = Of(u) /\ Of(v)' = Of(v) /\ Of(v) \notin robbed
        BY <1>1, <2>2, <4>1, ClaimedOther, Zenon
      <4> QED  BY <2>2, <4>2, Zenon DEF Claimed
    <3> QED  BY Zenon, <3>1, <3>2, <3>3
  <2> QED  BY <2>1, <2>2, Zenon DEF Claimed
<1>2. ASSUME NEW d \in Deliveries, Producing(d)
      PROVE  Claimed'
  <2>1. UNCHANGED <<local, on, mine>>
    BY <1>2, Zenon DEF Producing, Request, Enqueue, EnqueueUnanswered, MarkEnqueueFailed, ProducerDies, LeaseEnds, local
  <2>2. \A e \in robbed : e \in robbed'
    BY Zenon, <1>2 DEF Producing, Request, Enqueue, EnqueueUnanswered, MarkEnqueueFailed, ProducerDies, LeaseEnds, history
  <2>3. ASSUME NEW w \in mine, Of(w) \notin robbed'
        PROVE  row'[Of(w)] \in {"SENDING", "SENT"} /\ Of(w) \notin old'
    <3>1. w \in Workers /\ pc[w] # "idle"
      BY Zenon DEF Running, WorkShape
    <3>2. on[w] \in Jobs /\ job[on[w]] # "absent" /\ Of(w) \in Deliveries
      BY <3>1, OnJob, Zenon
    <3>3. row[Of(w)] \in {"SENDING", "SENT"} /\ Of(w) \notin old
      BY <2>2, <2>3, Zenon DEF Claimed
    <3>4. CASE Request(d)
      BY Zenon, <3>2, <3>3, <3>4 DEF Request, WorkShape
    <3>5. CASE Enqueue(d)
      <4>1. Of(w) # d
        BY <3>2, <3>5, Zenon DEF Enqueue, Owing, Unstarted, Of
      <4> QED  BY Zenon, <3>2, <3>3, <3>5, <4>1 DEF Enqueue, Marked, WorkShape
    <3>6. CASE EnqueueUnanswered(d) \/ ProducerDies(d)
      BY <3>3, <3>6, Zenon DEF EnqueueUnanswered, ProducerDies, table
    <3>7. CASE MarkEnqueueFailed(d)
      <4>1. BypassRls => Of(w) # d
        BY Zenon, <2>3, <3>7 DEF MarkEnqueueFailed
      <4> QED  BY Zenon, <3>2, <3>3, <3>7, <4>1 DEF MarkEnqueueFailed, Marked, WorkShape
    <3>8. CASE LeaseEnds(d)
      <4>1. Of(w) # d
        BY Zenon, <2>3, <3>8 DEF LeaseEnds
      <4> QED  BY Zenon, <3>2, <3>3, <3>8, <4>1 DEF LeaseEnds, WorkShape
    <3> QED  BY <1>2, <3>4, <3>5, <3>6, <3>7, <3>8, Zenon DEF Producing
  <2> QED  BY <2>1, <2>2, <2>3, Zenon DEF Claimed, Of
<1>3. CASE Replaying
  <2>1. UNCHANGED <<on, mine, row, old, robbed>>
    BY <1>3, ReplayQueue, Zenon DEF local, table, history
  <2> QED  BY <2>1, Zenon DEF Claimed, Of
<1>4. ASSUME NEW j \in Jobs, RefuseJob(j)
      PROVE  Claimed'
  <2>1. UNCHANGED <<on, mine, row, old, robbed>>
    BY Zenon, <1>4, RefuseIs
  <2> QED  BY <2>1, Zenon DEF Claimed, Of
<1> QED  BY <1>1, <1>2, <1>3, <1>4, NextCases, Zenon DEF Claimed, local, history, Of

-----------------------------------------------------------------------------
(* Locks and attempts.                                                     *)

LEMMA LocksNext ==
    ASSUME QueueShape, WorkShape, Running, Dead, Owing, Locks, [Next]_vars
    PROVE  Locks'
<1>0. \A w \in holds : w \in Workers /\ on[w] \in Jobs /\ job[on[w]] = "active"
  BY Zenon DEF Running, WorkShape, Locks
<1>1. ASSUME NEW w \in Workers, Work(w)
      PROVE  Locks'
  <2>0. holds' \subseteq Workers
    BY Zenon, <1>1, WorkTypes DEF WorkShape
  <2>1. \A v \in holds' : v # w => v \in holds /\ on'[v] = on[v]
    BY <1>1, <2>0, WorkFrame, Zenon DEF Frame
  <2>2. CASE \E j \in Jobs : Start(w, j)
    <3>1. PICK j \in Jobs : Start(w, j)
      BY Zenon, <2>2
    <3>2. on'[w] = j /\ job'[j] = "active" /\ job[j] = "waiting"
      BY Zenon, <3>1 DEF Start, WorkShape, QueueShape
    <3>3. \A v \in holds : on[v] # j /\ job'[on[v]] = "active"
      BY Zenon, <1>0, <3>1 DEF Start, QueueShape
    <3>4. \A v \in holds' : job'[on'[v]] = "active"
      BY <2>1, <3>2, <3>3, Zenon
    <3>5. ASSUME NEW u \in holds', NEW v \in holds', on'[u] = on'[v], u # v
          PROVE  FALSE
      <4>1. CASE u = w
        BY Zenon, <2>1, <3>2, <3>3, <3>5, <4>1
      <4>2. CASE v = w
        BY Zenon, <2>1, <3>2, <3>3, <3>5, <4>2
      <4>3. CASE u # w /\ v # w
        BY <2>1, <3>5, <4>3, Zenon DEF Locks
      <4> QED  BY Zenon, <4>1, <4>2, <4>3
    <3> QED  BY <3>4, <3>5, Zenon DEF Locks
  <2>3. CASE Inside(w)
    BY <2>3, InsideIs, Zenon DEF Locks, queue
  <2>4. CASE End(w) \/ Stall(w)
    <3>1. holds' = holds \ {w}
      BY <2>4, Zenon DEF End, Stall
    <3>2. pc[w] # "idle" /\ (w \in holds => on[w] \in Jobs)
      BY Zenon, <1>0, <2>4 DEF End, Stall, Running
    <3>3. \A v \in holds' : job'[on[v]] = job[on[v]]
      <4>1. CASE End(w)
        BY <1>0, <3>1, <3>2, <4>1, EndQueue DEF Locks, QueueShape, queue
      <4>2. CASE Stall(w)
        BY Zenon, <1>0, <3>1, <3>2, <4>2 DEF Stall, Locks, QueueShape
      <4> QED  BY Zenon, <2>4, <4>1, <4>2
    <3>4. \A v \in holds' : v \in holds /\ on'[v] = on[v]
      BY Zenon, <2>1, <3>1
    <3>5. \A v \in holds' : job'[on'[v]] = "active"
      BY Zenon, <3>3, <3>4 DEF Locks
    <3>6. \A u, v \in holds' : on'[u] = on'[v] => u = v
      BY Zenon, <3>4 DEF Locks
    <3> QED  BY <3>5, <3>6, Zenon DEF Locks
  <2> QED  BY <1>1, <2>2, <2>3, <2>4, WorkCases, Zenon
<1>2. ASSUME NEW d \in Deliveries, Producing(d)
      PROVE  Locks'
  <2>1. UNCHANGED <<on, holds>>
    BY <1>2, Zenon DEF Producing, Request, Enqueue, EnqueueUnanswered, MarkEnqueueFailed, ProducerDies, LeaseEnds, local
  <2>2. \A w \in holds : job'[on[w]] = "active"
    <3>1. CASE job' = job
      BY <1>0, <3>1, Zenon
    <3>2. CASE Enqueue(d) \/ EnqueueUnanswered(d)
      <4>1. job[<<d, 0>>] = "absent" /\ <<d, 0>> \in Jobs
        <5>1. <<d, 0>> \in Jobs /\ <<d, 0>>[1] = d
          BY DeadLetterAssumption DEF Jobs
        <5> QED  BY <3>2, <5>1, Zenon DEF Enqueue, EnqueueUnanswered, Owing, Unstarted
      <4> QED  BY Zenon, <1>0, <3>2, <4>1 DEF Enqueue, EnqueueUnanswered, QueueShape
    <3> QED  BY <1>2, <3>1, <3>2, Zenon DEF Producing, Request, MarkEnqueueFailed, ProducerDies, LeaseEnds, queue
  <2> QED  BY <2>1, <2>2, Zenon DEF Locks
<1>3. CASE Replaying
  <2>1. UNCHANGED <<on, holds>>
    BY <1>3, ReplayQueue, Zenon DEF local
  <2>2. \A w \in holds : job'[on[w]] = "active"
    BY Zenon, <1>0, <1>3, ReplayQueue DEF QueueShape
  <2> QED  BY <2>1, <2>2, Zenon DEF Locks
<1>4. ASSUME NEW j \in Jobs, RefuseJob(j)
      PROVE  Locks'
  <2>1. UNCHANGED <<on, holds>>
    BY Zenon, <1>4, RefuseIs
  <2>2. \A w \in holds : job'[on[w]] = "active"
    BY Zenon, <1>0, <1>4, RefuseJobs
  <2> QED  BY <2>1, <2>2, Zenon DEF Locks
<1> QED  BY <1>1, <1>2, <1>3, <1>4, NextCases, Zenon DEF Locks, queue, local

LEMMA AttemptsNext ==
    ASSUME QueueShape, WorkShape, Running, Dead, Locks, Attempts, [Next]_vars
    PROVE  Attempts'
<1>1. ASSUME NEW w \in Workers, Work(w)
      PROVE  Attempts'
  <2>1. \A v \in Workers \ {w} : pc'[v] # "idle" => nth'[v] > 0 /\ (on'[v][2] # 0 => nth'[v] = 1)
    <3>1. \A v \in Workers \ {w} : pc'[v] = pc[v] /\ on'[v] = on[v] /\ nth'[v] = nth[v]
      BY <1>1, WorkFrame, Zenon DEF Frame
    <3> QED  BY Zenon, <3>1 DEF Attempts
  <2>2. CASE \E j \in Jobs : Start(w, j)
    <3>1. PICK j \in Jobs : Start(w, j)
      BY Zenon, <2>2
    <3>2. nth'[w] > 0 /\ (on'[w][2] # 0 => nth'[w] = 1)
      <4>1. nth'[w] = made[j] + 1 /\ on'[w] = j /\ made[j] \in Nat /\ job[j] = "waiting"
        BY Zenon, <3>1 DEF Start, WorkShape, QueueShape
      <4>2. j[2] # 0 => made[j] = 0
        BY Zenon, <4>1 DEF Attempts
      <4> QED  BY <4>1, <4>2
    <3>3. \A k \in Jobs : k[2] # 0 /\ job'[k] \in {"absent", "waiting", "active"} => made'[k] = 0
      BY Zenon, <3>1 DEF Start, QueueShape, Attempts
    <3> QED  BY <2>1, <3>2, <3>3, Zenon DEF Attempts
  <2>3. CASE Inside(w)
    <3>1. UNCHANGED <<queue, on, nth>>
      BY <2>3, InsideIs, Zenon
    <3>2. pc[w] # "idle"
      BY Zenon, <2>3, InsideIs DEF TakesRow, Passes, Disabled, Delivered, DeliveredUnseen, Failed, FailedUnseen, Moves, Claiming
    <3> QED  BY <2>1, <3>1, <3>2, Zenon DEF Attempts, queue
  <2>4. CASE End(w)
    <3>1. pc'[w] = "idle"
      BY Zenon, <2>4 DEF End, Goto, WorkShape
    <3>2. ASSUME NEW k \in Jobs, k[2] # 0, job'[k] \in {"absent", "waiting", "active"}
          PROVE  made'[k] = 0
      <4>1. on[w] \in Jobs
        BY Zenon, <2>4, OnJob DEF End
      <4>2. job'[k] = job[k] /\ made'[k] = made[k]
        BY Zenon, <2>4, <3>2, <4>1, EndQueue DEF QueueShape, queue
      <4> QED  BY <3>2, <4>2, Zenon DEF Attempts
    <3> QED  BY <2>1, <3>1, <3>2, Zenon DEF Attempts
  <2>5. CASE Stall(w)
    <3>1. on[w] \in Jobs /\ pc[w] # "idle"
      BY Zenon, <2>5 DEF Stall, Running
    <3>2. pc'[w] # "idle" => UNCHANGED <<pc, on, nth>>
      BY Zenon, <2>5 DEF Stall, Goto, WorkShape
    <3>3. \A k \in Jobs : made'[k] = made[k] /\ (job'[k] = job[k] \/ k = on[w])
      BY Zenon, <2>5, <3>1 DEF Stall, QueueShape
    <3>4. on[w][2] # 0 => made[on[w]] = 0
      BY Zenon, <2>5, <3>1 DEF Stall, Attempts, Locks
    <3> QED  BY <2>1, <3>1, <3>2, <3>3, <3>4, Zenon DEF Attempts
  <2> QED  BY <1>1, <2>2, <2>3, <2>4, <2>5, WorkCases, Zenon
<1>2. ASSUME NEW d \in Deliveries, Producing(d)
      PROVE  Attempts'
  <2>1. UNCHANGED <<pc, on, nth, made>>
    BY <1>2, Zenon DEF Producing, Request, Enqueue, EnqueueUnanswered, MarkEnqueueFailed, ProducerDies, LeaseEnds, local, queue
  <2>2. \A j \in Jobs : j[2] # 0 => job'[j] = job[j]
    BY <1>2 DEF Producing, Request, Enqueue, EnqueueUnanswered, MarkEnqueueFailed, ProducerDies, LeaseEnds, queue, QueueShape
  <2> QED  BY <2>1, <2>2, Zenon DEF Attempts
<1>3. CASE Replaying
  <2>1. UNCHANGED <<pc, on, nth, made>>
    BY <1>3, ReplayQueue, Zenon DEF local
  <2>2. \A j \in Jobs : job'[j] = job[j] \/ job[j] = "absent"
    BY Zenon, <1>3, ReplayQueue DEF QueueShape
  <2> QED  BY <2>1, <2>2, Zenon DEF Attempts
<1>4. ASSUME NEW k \in Jobs, RefuseJob(k)
      PROVE  Attempts'
  <2>1. UNCHANGED <<pc, on, nth, made>>
    BY Zenon, <1>4, RefuseIs
  <2>2. \A j \in Jobs : job'[j] = job[j] \/ job'[j] = "failed"
    BY Zenon, <1>4, RefuseJobs
  <2> QED  BY <2>1, <2>2, Zenon DEF Attempts
<1> QED  BY <1>1, <1>2, <1>3, <1>4, NextCases, Zenon DEF Attempts, queue, local

LEMMA TakenNext ==
    ASSUME QueueShape, WorkShape, Running, Dead, Attempts, Taken, [Next]_vars
    PROVE  Taken'
<1>1. ASSUME NEW w \in Workers, Work(w)
      PROVE  Taken'
  <2>1. CASE \E j \in Jobs : Start(w, j)
    <3>1. UNCHANGED <<row, count, mine>> /\ w \notin mine
      BY <2>1, Zenon DEF Start, table, Running
    <3>2. \A v \in mine : on'[v] = on[v]
      BY SMTT(60), <1>1, <3>1, WorkFrame DEF Frame, WorkShape
    <3> QED  BY <3>1, <3>2, Zenon DEF Taken, Of
  <2>2. CASE Inside(w)
    <3>0. on' = on /\ pc[w] # "idle"
      BY Zenon, <2>2, InsideIs DEF TakesRow, Passes, Disabled, Delivered, DeliveredUnseen, Failed, FailedUnseen, Moves, Claiming
    <3>1. Of(w) \in Deliveries
      BY <3>0, OnJob, Zenon
    <3>2. CASE TakesRow(w)
      <4>1. nth[w] > 0 /\ nth[w] \in Nat
        BY Zenon, <3>0 DEF Attempts, WorkShape
      <4>2. count'[Of(w)] > 0
        BY Zenon, <3>1, <3>2, <4>1 DEF TakesRow, WorkShape
      <4>3. \A d \in Deliveries : d # Of(w) => row'[d] = row[d] /\ count'[d] = count[d]
        BY Zenon, <3>2 DEF TakesRow, WorkShape
      <4>4. \A d \in Deliveries : row'[d] = "SENDING" => count'[d] > 0
        BY <4>2, <4>3, Zenon DEF Taken
      <4>5. ASSUME NEW v \in mine'
            PROVE  count'[Of(v)] > 0
        <5>1. v = w \/ v \in mine
          BY Zenon, <3>2 DEF TakesRow
        <5>2. CASE v \in mine
          <6>1. Of(v) \in Deliveries
            BY Zenon, <5>2, OnJob DEF Running, WorkShape
          <6> QED  BY <5>2, <6>1, <4>2, <4>3, Zenon DEF Taken
        <5> QED  BY Zenon, <4>2, <5>1, <5>2
      <4> QED  BY <3>0, <4>4, <4>5, Zenon DEF Taken, Of
    <3>3. CASE ~TakesRow(w)
      <4>1. count' = count /\ mine' \subseteq mine
        BY Zenon, <2>2, <3>3, InsideIs DEF Passes, Disabled, Delivered, DeliveredUnseen, Failed, FailedUnseen, Moves, Outcome
      <4>2. \A d \in Deliveries : row'[d] = "SENDING" => row[d] = "SENDING"
        BY Zenon, <2>2, <3>1, <3>3, InsideIs DEF Passes, Disabled, Delivered, DeliveredUnseen, Failed, FailedUnseen, Moves, Outcome, WorkShape
      <4> QED  BY <3>0, <4>1, <4>2, Zenon DEF Taken, Of
    <3> QED  BY Zenon, <3>2, <3>3
  <2>3. CASE End(w) \/ Stall(w)
    <3>1. UNCHANGED <<row, count>> /\ mine' \subseteq mine
      BY Zenon, <2>3 DEF End, Stall, table
    <3>2. \A v \in mine' : on'[v] = on[v]
      <4>1. CASE End(w)
        BY Zenon, <4>1 DEF End, WorkShape
      <4>2. CASE Stall(w)
        BY Zenon, <4>2 DEF Stall, WorkShape
      <4> QED  BY Zenon, <2>3, <4>1, <4>2
    <3> QED  BY <3>1, <3>2, Zenon DEF Taken, Of
  <2> QED  BY <1>1, <2>1, <2>2, <2>3, WorkCases, Zenon
<1>2. ASSUME NEW d \in Deliveries, Producing(d)
      PROVE  Taken'
  <2>1. UNCHANGED <<on, mine, count>>
    BY <1>2, Zenon DEF Producing, Request, Enqueue, EnqueueUnanswered, MarkEnqueueFailed, ProducerDies, LeaseEnds, local, table
  <2>2. \A e \in Deliveries : row'[e] = "SENDING" => row[e] = "SENDING"
    BY Zenon, <1>2 DEF Producing, Request, Enqueue, EnqueueUnanswered, MarkEnqueueFailed, Marked, ProducerDies, LeaseEnds, table, WorkShape
  <2> QED  BY <2>1, <2>2, Zenon DEF Taken, Of
<1>3. CASE Replaying
  BY <1>3, ReplayQueue, Zenon DEF Taken, local, table, Of
<1>4. ASSUME NEW j \in Jobs, RefuseJob(j)
      PROVE  Taken'
  <2>1. UNCHANGED <<on, mine, row, count>>
    BY Zenon, <1>4, RefuseIs
  <2> QED  BY <2>1, Zenon DEF Taken, Of
<1> QED  BY <1>1, <1>2, <1>3, <1>4, NextCases, Zenon DEF Taken, local, Of

-----------------------------------------------------------------------------
(* Dead letters.                                                           *)

\* The first job of a delivery whose enqueue is due was not added yet.
LEMMA NotEnqueued ==
    ASSUME Owing, NEW d \in owed \ unsure, d \in Deliveries
    PROVE  <<d, 0>> \in Jobs /\ job[<<d, 0>>] = "absent"
<1>1. <<d, 0>> \in Jobs /\ <<d, 0>>[1] = d
  BY DeadLetterAssumption DEF Jobs
<1> QED  BY <1>1, Zenon DEF Owing, Unstarted

LEMMA FailedStays ==
    ASSUME QueueShape, WorkShape, Running, Dead, Owing, Locks, [Next]_vars, NEW j \in Jobs, job[j] = "failed"
    PROVE  job'[j] = "failed"
<1>1. ASSUME NEW d \in Deliveries, Producing(d)
      PROVE  job'[j] = "failed"
  <2>1. CASE Enqueue(d) \/ EnqueueUnanswered(d)
    <3>1. <<d, 0>> \in Jobs /\ job[<<d, 0>>] = "absent"
      BY <2>1, NotEnqueued, Zenon DEF Enqueue, EnqueueUnanswered
    <3> QED  BY Zenon, <2>1, <3>1 DEF Enqueue, EnqueueUnanswered, QueueShape
  <2> QED  BY <1>1, <2>1, Zenon DEF Producing, Request, MarkEnqueueFailed, ProducerDies, LeaseEnds, queue
<1>2. ASSUME NEW w \in Workers, Work(w)
      PROVE  job'[j] = "failed"
  <2>0. w \in holds => on[w] # j
    BY Zenon DEF Locks
  <2>1. CASE \E k \in Jobs : Start(w, k)
    BY Zenon, <2>1 DEF Start, QueueShape
  <2>2. CASE Inside(w)
    BY <2>2, InsideIs, Zenon DEF queue
  <2>3. CASE End(w)
    BY Zenon, <2>0, <2>3, EndQueue DEF QueueShape, queue
  <2>4. CASE Stall(w)
    BY Zenon, <2>0, <2>4 DEF Stall, QueueShape
  <2> QED  BY <1>2, WorkCases, <2>1, <2>2, <2>3, <2>4, Zenon
<1>3. CASE Replaying
  BY Zenon, <1>3, ReplayQueue DEF QueueShape
<1>4. ASSUME NEW k \in Jobs, RefuseJob(k)
      PROVE  job'[j] = "failed"
  BY Zenon, <1>4, RefuseJobs
<1> QED  BY <1>1, <1>2, <1>3, <1>4, NextCases, Zenon DEF queue

\* A letter is of a job that has failed.
LEMMA BookedFailed ==
    ASSUME QueueShape, WorkShape, Running, Dead, Owing, Locks, [Next]_vars,
           NEW j \in Jobs, Booked(j), job'[j] = "failed"
    PROVE  /\ \A i \in 1..Len(book') : job'[book'[i]] = "failed"
           /\ \A k \in mirror' : job'[k] = "failed"
<1>1. \A k \in mirror' : job'[k] = "failed"
  BY Zenon, FailedStays DEF Booked, Dead, QueueShape
<1>2. ASSUME NEW i \in 1..Len(book')
      PROVE  job'[book'[i]] = "failed"
  <2>1. CASE i \in 1..Len(book)
    <3>1. book'[i] = book[i] /\ book[i] \in Jobs
      BY <2>1 DEF Booked, QueueShape
    <3> QED  BY <2>1, <3>1, FailedStays, Zenon DEF Dead
  <2>2. CASE i \notin 1..Len(book)
    <3>1. book'[i] = j
      BY <1>2, <2>2 DEF Booked, QueueShape
    <3> QED  BY Zenon, <3>1
  <2> QED  BY Zenon, <2>1, <2>2
<1> QED  BY Zenon, <1>1, <1>2

LEMMA DeadNext ==
    ASSUME QueueShape, WorkShape, Running, Owing, Locks, Dead, [Next]_vars
    PROVE  Dead'
<1>0. ASSUME NEW j \in Jobs
      PROVE  <<j[1], 0>> \in Jobs /\ (j[2] = 0 => j = <<j[1], 0>>)
  BY DeadLetterAssumption DEF Jobs
<1>1. ASSUME book' = book, mirror' \in SUBSET mirror
      PROVE  /\ \A i \in 1..Len(book') : job'[book'[i]] = "failed"
             /\ \A j \in mirror' : job'[j] = "failed"
  BY <1>1, FailedStays DEF Dead, QueueShape
<1>2. ASSUME \A j \in Jobs : j[2] # 0 => (job'[j] # "absent" => job[j] # "absent")
      PROVE  \A j \in Jobs : j[2] # 0 /\ job'[j] # "absent" => job'[<<j[1], 0>>] = "failed"
  BY <1>0, <1>2, FailedStays, Zenon DEF Dead
<1>3. ASSUME NEW d \in Deliveries, Producing(d)
      PROVE  Dead'
  <2>1. UNCHANGED <<book, mirror>>
    BY <1>3, Zenon DEF Producing, Request, Enqueue, EnqueueUnanswered, MarkEnqueueFailed, ProducerDies, LeaseEnds, ledger
  <2>2. \A j \in Jobs : j[2] # 0 => job'[j] = job[j]
    BY <1>3 DEF Producing, Request, Enqueue, EnqueueUnanswered, MarkEnqueueFailed, ProducerDies, LeaseEnds, queue, QueueShape
  <2>3. \A j \in Jobs : j[2] # 0 /\ job'[j] # "absent" => job'[<<j[1], 0>>] = "failed"
    BY <2>2, <1>2, Zenon
  <2> QED  BY <1>1, <2>1, <2>3, Zenon DEF Dead
<1>4. ASSUME NEW w \in Workers, Work(w)
      PROVE  Dead'
  <2>1. \A j \in Jobs : j[2] # 0 /\ job'[j] # "absent" => job'[<<j[1], 0>>] = "failed"
    BY <1>2, <1>4, WorkAddsNone, Zenon
  <2>2. CASE UNCHANGED <<book, mirror>>
    BY <1>1, <2>1, <2>2, Zenon DEF Dead
  <2>3. CASE End(w) /\ ~UNCHANGED <<book, mirror>>
    <3>1. on[w] \in Jobs
      BY Zenon, <2>3, OnJob DEF End
    <3>2. Booked(on[w]) /\ job'[on[w]] = "failed"
      <4>1. /\ Booked(on[w])
            /\ \E s \in {"done", "failed", "waiting"} :
                  /\ job' = [job EXCEPT ![on[w]] = s]
                  /\ s # "failed" => UNCHANGED ledger
        BY <2>3, EndQueue, Zenon DEF ledger
      <4>2. job' = [job EXCEPT ![on[w]] = "failed"]
        BY <2>3, <4>1, Zenon DEF ledger
      <4> QED  BY Zenon, <3>1, <4>1, <4>2 DEF QueueShape
    <3> QED  BY <2>1, <3>1, <3>2, BookedFailed, Zenon DEF Dead
  <2> QED  BY <1>4, <2>2, <2>3, WorkCases, InsideIs, Zenon DEF Start, Stall, ledger
<1>5. CASE Replaying
  <2>1. book' = book /\ mirror' \in SUBSET mirror
    BY <1>5, ReplayQueue, Zenon
  <2>2. CASE job' = job
    <3>1. \A j \in Jobs : j[2] # 0 /\ job'[j] # "absent" => job'[<<j[1], 0>>] = "failed"
      BY <2>2, Zenon DEF Dead
    <3> QED  BY <1>1, <2>1, <3>1, Zenon DEF Dead
  <2>3. CASE job' # job
    <3>1. PICK i \in Jobs, k \in Jobs :
             /\ job[i] = "failed" /\ k[1] = i[1] /\ k[2] # 0 /\ job[k] = "absent"
             /\ job' = [job EXCEPT ![k] = "waiting"]
      BY <1>5, <2>3, ReplayQueue, Zenon
    <3>2. ASSUME NEW j \in Jobs, j[2] # 0, job'[j] # "absent"
          PROVE  job'[<<j[1], 0>>] = "failed"
      <4>1. CASE j = k
        <5>1. job[<<i[1], 0>>] = "failed" /\ <<i[1], 0>> \in Jobs
          BY Zenon, <1>0, <3>1 DEF Dead
        <5>2. job'[<<i[1], 0>>] = "failed"
          BY Zenon, <5>1, FailedStays
        <5> QED  BY Zenon, <3>1, <4>1, <5>2
      <4>2. CASE j # k
        <5>1. job[j] # "absent"
          BY Zenon, <3>1, <3>2, <4>2 DEF QueueShape
        <5> QED  BY <1>0, <3>2, <5>1, FailedStays, Zenon DEF Dead
      <4> QED  BY Zenon, <4>1, <4>2
    <3> QED  BY <1>1, <2>1, <3>2, Zenon DEF Dead
  <2> QED  BY Zenon, <2>2, <2>3
<1>6. CASE UNCHANGED <<queue, ledger, faults, local, row, count, old, owed, history>>
  BY <1>6, Zenon DEF Dead, queue, ledger
<1>7. ASSUME NEW k \in Jobs, RefuseJob(k)
      PROVE  Dead'
  <2>1. Booked(k) /\ job'[k] = "failed"
    BY Zenon, <1>7, RefuseIs DEF QueueShape
  <2>2. \A j \in Jobs : j[2] # 0 => (job'[j] # "absent" => job[j] # "absent")
    BY Zenon, <1>7, RefuseJobs
  <2>3. \A j \in Jobs : j[2] # 0 /\ job'[j] # "absent" => job'[<<j[1], 0>>] = "failed"
    BY <1>2, <2>2, Zenon
  <2> QED  BY <2>1, <2>3, BookedFailed, Zenon DEF Dead
<1> QED  BY <1>3, <1>4, <1>5, <1>6, <1>7, NextCases, Zenon

-----------------------------------------------------------------------------
(* What was paid for.                                                      *)

\* What the row, the producer and the worker w may still cost.
Cost(d, w) ==
    got[d] + (IF w \in Hot(d) THEN 1 ELSE 0) + (IF Open(d) THEN 1 ELSE 0)
           + (IF d \in owed \cap unsure THEN 1 ELSE 0)

\* The other workers cost what they did.
LEMMA HotOthers ==
    ASSUME NEW w \in Workers, Frame(w), NEW d, NEW v \in Workers \ {w}
    PROVE  v \in Hot(d)' <=> v \in Hot(d)
<1>1. /\ pc'[v] = pc[v] /\ on'[v] = on[v]
      /\ v \in mine' <=> v \in mine
      /\ v \in holds' <=> v \in holds
  BY Zenon DEF Frame
<1> QED  BY Zenon, <1>1 DEF Hot, Of

\* A start costs nothing.
LEMMA StartCost ==
    ASSUME QueueShape, WorkShape, Running, NEW w \in Workers, NEW j \in Jobs, Start(w, j), NEW d \in Deliveries
    PROVE  Cost(d, w)' + faults <= Cost(d, w) + faults'
<1>1. w \notin Hot(d)'
  <2>1. pc'[w] = "read" /\ w \in holds'
    BY Zenon DEF Start, Goto, WorkShape
  <2> QED  BY Zenon, <2>1 DEF Hot, Claiming
<1>2. UNCHANGED <<row, count, old, owed, got, unsure, mine, faults>>
  BY Zenon DEF Start, table, history
<1>3. \A v \in Workers : v # w => pc'[v] = pc[v] /\ on'[v] = on[v]
  BY Zenon DEF Start, Goto, WorkShape
<1>4. w \notin mine /\ w \notin holds /\ holds \subseteq holds' /\ holds \subseteq Workers /\ mine \subseteq Workers
  BY Zenon DEF Start, Running, WorkShape
<1>5. Retried(d)' => Retried(d)
  <2>1. ASSUME job'[<<d, 0>>] \notin {"done", "failed"}
        PROVE  job[<<d, 0>>] \notin {"done", "failed"}
    <3>1. <<d, 0>> \in Jobs
      BY DeadLetterAssumption DEF Jobs
    <3> QED  BY Zenon, <2>1, <3>1 DEF Start, QueueShape
  <2>2. \A v \in holds : v \in holds' /\ pc'[v] = pc[v] /\ on'[v] = on[v]
    BY Zenon, <1>3, <1>4
  <2> QED  BY <2>1, <2>2, Zenon DEF Retried
<1>6. \A v \in mine : Of(v)' = Of(v)
  BY Zenon, <1>3, <1>4 DEF Of
<1>7. Open(d)' => Open(d)
  BY <1>2, <1>5, <1>6, Zenon DEF Open
<1>8. got[d] \in Nat /\ faults \in Nat
  BY Zenon DEF QueueShape, WorkShape
<1> QED  BY <1>1, <1>2, <1>7, <1>8 DEF Cost

\* Rows that w is not about cost what they did.
LEMMA ForeignCost ==
    ASSUME QueueShape, WorkShape, Running, NEW w \in Workers, Work(w), pc[w] # "idle",
           NEW d \in Deliveries, d # Of(w)
    PROVE  Cost(d, w)' + faults <= Cost(d, w) + faults'
<1>1. Frame(w)
  BY Zenon, WorkFrame
<1>2. pc'[w] # "idle" => on'[w] = on[w]
  <2>1. CASE Inside(w)
    BY <2>1, InsideIs, Zenon
  <2>2. CASE End(w)
    BY Zenon, <2>2 DEF End, Goto, WorkShape
  <2>3. CASE Stall(w)
    BY Zenon, <2>3 DEF Stall, Goto, WorkShape
  <2> QED  BY <2>1, <2>2, <2>3, WorkCases, Zenon DEF Start
<1>3. /\ w \in mine' \cup holds' => Of(w)' # d /\ on'[w] # <<d, 0>>
      /\ w \in mine \cup holds => Of(w) # d /\ on[w] # <<d, 0>>
  <2>1. w \in mine' \cup holds' => pc'[w] # "idle"
    BY WorkSelf, Zenon
  <2>2. on[w] # <<d, 0>>
    BY DEF Of
  <2> QED  BY Zenon, <1>2, <2>1, <2>2 DEF Of
<1>4. w \notin Hot(d)'
  BY Zenon, <1>2 DEF Hot, Of
<1>5. job'[<<d, 0>>] = job[<<d, 0>>]
  <2>1. <<d, 0>> \in Jobs /\ <<d, 0>> # on[w]
    BY DeadLetterAssumption DEF Jobs, Of
  <2>2. CASE Inside(w)
    BY <2>2, InsideIs, Zenon DEF queue
  <2>3. CASE End(w)
    BY Zenon, <2>1, <2>3, EndQueue, OnJob DEF queue, QueueShape
  <2>4. CASE Stall(w)
    BY Zenon, <2>1, <2>4, OnJob DEF Stall, QueueShape
  <2> QED  BY <2>2, <2>3, <2>4, WorkCases, Zenon DEF Start
<1>6. /\ row'[d] = row[d] /\ count'[d] = count[d] /\ got'[d] = got[d] /\ UNCHANGED <<owed, unsure>>
      /\ d \in old' <=> d \in old
      /\ faults' = faults \/ faults' = faults + 1
  BY <1>1, Zenon DEF Frame
<1>7. \A v \in Workers : v # w =>
         /\ pc'[v] = pc[v] /\ on'[v] = on[v]
         /\ v \in mine' <=> v \in mine
         /\ v \in holds' <=> v \in holds
  BY <1>1, Zenon DEF Frame
<1>8. Retried(d)' => Retried(d)
  <2>1. \A v \in holds : on[v] = <<d, 0>> => v \in holds' /\ on'[v] = <<d, 0>> /\ pc'[v] = pc[v]
    BY Zenon, <1>3, <1>7 DEF WorkShape
  <2> QED  BY <1>5, <2>1, Zenon DEF Retried
<1>9. (\A v \in mine' : Of(v)' # d) => (\A v \in mine : Of(v) # d)
  <2>1. \A v \in mine : Of(v) = d => v \in mine' /\ Of(v)' = d
    BY Zenon, <1>3, <1>7 DEF WorkShape, Of
  <2> QED  BY <2>1, Zenon
<1>10. Open(d)' => Open(d)
  BY <1>6, <1>8, <1>9, Zenon DEF Open
<1>11. got[d] \in Nat /\ faults \in Nat
  BY Zenon DEF QueueShape, WorkShape
<1> QED  BY <1>4, <1>6, <1>10, <1>11 DEF Cost

\* The row w is about, when w runs its job.
LEMMA RetriedStays ==
    ASSUME WorkShape, NEW w \in Workers, NEW d, UNCHANGED <<job, on, holds>>, pc[w] # "done",
           \A v \in Workers \ {w} : pc'[v] = pc[v], Retried(d)'
    PROVE  Retried(d)
<1>1. \A v \in holds : v = w \/ pc'[v] = pc[v]
  BY Zenon DEF WorkShape
<1> QED  BY <1>1, Zenon DEF Retried

LEMMA InsideFacts ==
    ASSUME QueueShape, WorkShape, Running, NEW w \in Workers, Inside(w)
    PROVE  /\ UNCHANGED <<job, on, nth, holds, owed, unsure>>
           /\ \A v \in Workers \ {w} : pc'[v] = pc[v]
           /\ Of(w) \in Deliveries /\ Of(w)' = Of(w) /\ pc[w] \notin {"idle", "done"}
           /\ got[Of(w)] \in Nat /\ faults \in Nat
<1>1. UNCHANGED <<job, on, nth, holds, owed, unsure>>
  BY InsideIs, Zenon DEF queue
<1>2. pc[w] \notin {"idle", "done"}
  BY Zenon, InsideIs DEF TakesRow, Passes, Disabled, Delivered, DeliveredUnseen, Failed, FailedUnseen, Moves, Claiming
<1>3. \A v \in Workers \ {w} : pc'[v] = pc[v]
  BY InsideIs DEF TakesRow, Passes, Disabled, Delivered, DeliveredUnseen, Failed, FailedUnseen, Moves, WorkShape
<1>4. Of(w) \in Deliveries
  BY Zenon, <1>2, OnJob
<1>5. Of(w)' = Of(w)
  BY Zenon, <1>1 DEF Of
<1>6. got[Of(w)] \in Nat /\ faults \in Nat
  BY Zenon, <1>4 DEF QueueShape, WorkShape
<1> QED  BY Zenon, <1>1, <1>2, <1>3, <1>4, <1>5, <1>6

\* A claim: either the row was open, or w does not hold its job's lock.
LEMMA TakeCost ==
    ASSUME QueueShape, WorkShape, Running, Locks, Attempts, NEW w \in Workers, Inside(w), TakesRow(w),
           NEW d \in Deliveries, d = Of(w)
    PROVE  Cost(d, w)' + faults <= Cost(d, w) + faults'
<1>1. /\ UNCHANGED <<job, on, nth, holds, owed, unsure>>
      /\ Of(w)' = d /\ pc[w] # "idle"
      /\ got[d] \in Nat /\ faults \in Nat
  BY Zenon, InsideFacts
<1>2. ~Open(d)'
  <2>1. row'[d] = "SENDING" /\ d \notin old' /\ w \in mine'
    BY Zenon, <1>1 DEF TakesRow, WorkShape
  <2> QED  BY Zenon, <1>1, <2>1 DEF Open
<1>3. Open(d) \/ w \in Hot(d)
  <2>1. CASE row[d] = "PENDING" \/ (row[d] = "SENDING" /\ d \in old)
    BY Zenon, <2>1 DEF Open
  <2>2. CASE w \notin holds
    BY Zenon, <1>1, <2>2 DEF Hot, TakesRow
  <2>3. CASE row[d] = "FAILED" /\ count[d] < nth[w] /\ w \in holds
    <3>1. nth[w] \in Nat /\ count[d] \in Nat
      BY Zenon, <1>1 DEF WorkShape
    <3>2. CASE on[w][2] # 0
      <4>1. nth[w] = 1
        BY Zenon, <1>1, <3>2 DEF Attempts
      <4>2. count[d] = 0
        BY <2>3, <3>1, <4>1
      <4> QED  BY Zenon, <2>3, <4>2 DEF Open
    <3>3. CASE on[w][2] = 0
      <4>1. on[w] = <<d, 0>>
        BY <1>1, <3>3, OnJob DEF Jobs, Of
      <4>2. job[<<d, 0>>] = "active" /\ \A v \in holds : on[v] = <<d, 0>> => v = w
        BY Zenon, <2>3, <4>1 DEF Locks
      <4>3. pc[w] # "done"
        BY Zenon DEF TakesRow, Claiming
      <4>4. Retried(d)
        BY Zenon, <4>2, <4>3 DEF Retried
      <4> QED  BY Zenon, <2>3, <4>4 DEF Open
    <3> QED  BY Zenon, <3>2, <3>3
  <2> QED  BY Zenon, <2>1, <2>2, <2>3 DEF TakesRow
<1>4. got' = got /\ faults' = faults
  BY Zenon DEF TakesRow
<1>5. Cost(d, w)' <= got[d] + 1 + (IF d \in owed \cap unsure THEN 1 ELSE 0)
  BY <1>1, <1>2, <1>4 DEF Cost
<1>6. Cost(d, w) >= got[d] + 1 + (IF d \in owed \cap unsure THEN 1 ELSE 0)
  BY <1>1, <1>3 DEF Cost
<1> QED  BY <1>1, <1>4, <1>5, <1>6 DEF Cost

\* A disabled webhook: the row of another worker's claim was claimed for the
\* producer's job, or is claimed by a replay after that job has failed.
LEMMA DisabledCost ==
    ASSUME QueueShape, WorkShape, Running, Dead, Locks, Taken, NEW w \in Workers, Inside(w), Disabled(w),
           NEW d \in Deliveries, d = Of(w)
    PROVE  Cost(d, w)' + faults <= Cost(d, w) + faults'
<1>1. /\ UNCHANGED <<job, on, nth, holds, owed, unsure>>
      /\ \A v \in Workers \ {w} : pc'[v] = pc[v]
      /\ Of(w)' = d /\ pc[w] \notin {"idle", "done"}
      /\ got[d] \in Nat /\ faults \in Nat
  BY Zenon, InsideFacts
<1>2. pc'[w] = "done" /\ UNCHANGED <<count, got, faults>> /\ pc[w] = "read"
  BY Zenon DEF Disabled, Outcome, WorkShape
<1>3. w \notin Hot(d)'
  BY Zenon, <1>2 DEF Hot, Claiming
<1>4. Open(d)' => Open(d) \/ w \in Hot(d)
  <2>1. CASE w \notin holds
    BY Zenon, <1>1, <1>2, <2>1 DEF Hot, Claiming
  <2>2. CASE w \in holds /\ Open(d)'
    <3>1. row'[d] = IF row[d] = "SENT" THEN "SENT" ELSE "FAILED"
      BY Zenon DEF Disabled, Outcome, WorkShape
    <3>2. row[d] # "SENT" /\ row'[d] = "FAILED" /\ (count[d] = 0 \/ Retried(d)')
      BY Zenon, <1>2, <2>2, <3>1 DEF Open
    <3>3. Retried(d)' => Retried(d)
      BY Zenon, <1>1, RetriedStays
    <3>4. CASE row[d] = "FAILED"
      BY <3>2, <3>3, <3>4, Zenon DEF Open
    <3>5. CASE row[d] = "SENDING"
      <4>1. Retried(d)'
        BY <3>2, <3>5 DEF Taken, WorkShape
      <4>2. on[w] # <<d, 0>>
        BY <1>1, <1>2, <2>2, <4>1, Zenon DEF Retried
      <4>3. on[w] \in Jobs /\ on[w][1] = d /\ job[on[w]] # "absent"
        BY Zenon, <1>1, OnJob DEF Of
      <4>4. on[w][2] # 0
        BY <4>2, <4>3 DEF Jobs
      <4>5. job[<<d, 0>>] = "failed"
        BY Zenon, <4>3, <4>4 DEF Dead
      <4> QED  BY <1>1, <4>1, <4>5, Zenon DEF Retried
    <3>6. CASE row[d] \in {"none", "PENDING"}
      BY <3>6, Zenon DEF Open
    <3> QED  BY Zenon, <3>2, <3>4, <3>5, <3>6 DEF WorkShape, Status
  <2> QED  BY Zenon, <2>1, <2>2
<1> QED  BY <1>1, <1>2, <1>3, <1>4 DEF Cost

LEMMA MovesCost ==
    ASSUME QueueShape, WorkShape, Running, NEW w \in Workers, Inside(w), Moves(w) \/ Passes(w),
           NEW d \in Deliveries, d = Of(w)
    PROVE  Cost(d, w)' + faults <= Cost(d, w) + faults'
<1>1. /\ UNCHANGED <<job, on, nth, holds, owed, unsure>>
      /\ \A v \in Workers \ {w} : pc'[v] = pc[v]
      /\ Of(w)' = d /\ pc[w] \notin {"idle", "done"}
      /\ got[d] \in Nat /\ faults \in Nat
  BY Zenon, InsideFacts
<1>2. UNCHANGED <<row, count, old, mine>>
  BY Zenon DEF Moves, Passes
<1>3. Open(d)' => Open(d)
  <2>1. Retried(d)' => Retried(d)
    BY Zenon, <1>1, RetriedStays
  <2> QED  BY <1>1, <1>2, <2>1, Zenon DEF Open, Of
<1>4. CASE Passes(w)
  <2>1. w \in Hot(d)' => w \in Hot(d)
    BY Zenon, <1>1, <1>4 DEF Passes, Hot, WorkShape, Claiming
  <2>2. UNCHANGED <<got, faults>>
    BY <1>4, Zenon DEF Passes
  <2> QED  BY SMTT(60), <1>1, <1>3, <2>1, <2>2 DEF Cost
<1>5. CASE pc[w] = "post" /\ UNCHANGED <<got, faults>>
  <2>1. w \in Hot(d)
    BY Zenon, <1>5 DEF Hot
  <2> QED  BY <1>1, <1>3, <1>5, <2>1 DEF Cost
<1>6. CASE /\ pc[w] = "post" /\ got' = [got EXCEPT ![Of(w)] = @ + 1]
           /\ \/ pc' = [pc EXCEPT ![w] = "sent"] /\ UNCHANGED faults
              \/ pc' = [pc EXCEPT ![w] = "fail"] /\ faults' = faults + 1
  <2>1. w \in Hot(d)
    BY Zenon, <1>6 DEF Hot
  <2>2. got'[d] = got[d] + 1
    BY Zenon, <1>6 DEF WorkShape
  <2>3. CASE pc' = [pc EXCEPT ![w] = "sent"] /\ UNCHANGED faults
    <3>1. pc'[w] = "sent"
      BY Zenon, <2>3 DEF WorkShape
    <3>2. w \notin Hot(d)'
      BY Zenon, <3>1 DEF Hot, Claiming
    <3> QED  BY <1>1, <1>3, <2>1, <2>2, <2>3, <3>2 DEF Cost
  <2>4. CASE faults' = faults + 1
    BY <1>1, <1>3, <2>1, <2>2, <2>4 DEF Cost
  <2> QED  BY Zenon, <1>6, <2>3, <2>4
<1>7. CASE faults' = faults + 1 /\ UNCHANGED got
  BY <1>1, <1>3, <1>7 DEF Cost
<1> QED  BY <1>4, <1>5, <1>6, <1>7, Zenon DEF Moves

LEMMA OutcomeCost ==
    ASSUME QueueShape, WorkShape, Running, NEW w \in Workers, Inside(w), Delivered(w) \/ DeliveredUnseen(w) \/ Failed(w) \/ FailedUnseen(w),
           NEW d \in Deliveries, d = Of(w)
    PROVE  Cost(d, w)' + faults <= Cost(d, w) + faults'
<1>1. UNCHANGED <<owed, unsure>> /\ got[d] \in Nat /\ faults \in Nat /\ pc[w] # "idle"
  BY Zenon, InsideFacts
<1>2. got' = got
  BY Zenon DEF Delivered, DeliveredUnseen, Failed, FailedUnseen, Outcome
<1>3. CASE Delivered(w) \/ DeliveredUnseen(w)
  <2>1. row'[d] = "SENT"
    BY Zenon, <1>3 DEF Delivered, DeliveredUnseen, Outcome, WorkShape
  <2>2. ~Open(d)'
    BY Zenon, <2>1 DEF Open
  <2>3. CASE Delivered(w)
    <3>1. pc'[w] = "done" /\ faults' = faults
      BY Zenon, <2>3 DEF Delivered, WorkShape
    <3>2. w \notin Hot(d)'
      BY Zenon, <3>1 DEF Hot, Claiming
    <3> QED  BY <1>1, <1>2, <2>2, <3>1, <3>2 DEF Cost
  <2>4. CASE DeliveredUnseen(w)
    <3>1. faults' = faults + 1
      BY <2>4, Zenon DEF DeliveredUnseen
    <3> QED  BY <1>1, <1>2, <2>2, <3>1 DEF Cost
  <2> QED  BY Zenon, <1>3, <2>3, <2>4
<1>4. CASE Failed(w)
  <2>1. w \in Hot(d)
    BY Zenon, <1>1, <1>4 DEF Failed, Hot
  <2>2. pc'[w] \in {"throw", "unrecoverable"} /\ w \notin mine' /\ faults' = faults
    BY Zenon, <1>4 DEF Failed, WorkShape
  <2>3. w \notin Hot(d)'
    BY Zenon, <2>2 DEF Hot, Claiming
  <2> QED  BY SMTT(60), <1>1, <1>2, <2>1, <2>2, <2>3 DEF Cost
<1>5. CASE FailedUnseen(w)
  <2>1. w \in Hot(d)
    BY Zenon, <1>1, <1>5 DEF FailedUnseen, Hot
  <2>2. faults' = faults + 1
    BY Zenon, <1>5 DEF FailedUnseen
  <2> QED  BY SMTT(60), <1>1, <1>2, <2>1, <2>2 DEF Cost
<1> QED  BY Zenon, <1>3, <1>4, <1>5

\* The end of a job: the row of a claim that was not settled opens.
LEMMA EndCost ==
    ASSUME QueueShape, WorkShape, Running, Sending, Locks, NEW w \in Workers, End(w),
           NEW d \in Deliveries, d = Of(w)
    PROVE  Cost(d, w)' + faults <= Cost(d, w) + faults'
<1>1. /\ UNCHANGED <<row, count, old, owed, got, unsure>> /\ pc'[w] = "idle"
      /\ pc[w] \in {"done", "throw", "unrecoverable"}
      /\ holds' = holds \ {w} /\ mine' = mine \ {w}
  BY Zenon DEF End, Goto, WorkShape, table, history
<1>2. \A v \in Workers \ {w} : pc'[v] = pc[v] /\ on'[v] = on[v]
  BY Zenon DEF End, Goto, WorkShape
<1>3. faults \in Nat /\ got[d] \in Nat /\ faults' \in Nat /\ faults <= faults'
  <2>1. faults' = faults \/ faults' = faults + 1
    BY EndQueue, Zenon DEF Booked
  <2>2. faults \in Nat /\ got[d] \in Nat
    BY Zenon DEF QueueShape, WorkShape
  <2> QED  BY <2>1, <2>2
<1>4. w \notin Hot(d)'
  BY Zenon, <1>1 DEF Hot
<1>5. <<d, 0>> \in Jobs /\ on[w] \in Jobs
  BY <1>1, OnJob, DeadLetterAssumption DEF Jobs
<1>6. Retried(d)' => Retried(d)
  <2>1. ASSUME Retried(d)'
        PROVE  Retried(d)
    <3>1. job[<<d, 0>>] \notin {"done", "failed"}
      <4>1. CASE w \in holds /\ on[w] = <<d, 0>>
        BY Zenon, <4>1 DEF Locks
      <4>2. CASE ~(w \in holds /\ on[w] = <<d, 0>>)
        <5>1. job'[<<d, 0>>] = job[<<d, 0>>]
          BY Zenon, <1>5, <4>2, EndQueue DEF queue, QueueShape
        <5> QED  BY <2>1, <5>1, Zenon DEF Retried
      <4> QED  BY Zenon, <4>1, <4>2
    <3>2. ASSUME w \in holds, on[w] = <<d, 0>>, pc[w] = "done"
          PROVE  FALSE
      <4>1. job'[<<d, 0>>] = "done"
        BY Zenon, <1>5, <3>2, EndQueue DEF QueueShape
      <4> QED  BY Zenon, <2>1, <4>1 DEF Retried
    <3>3. \A v \in holds : v # w => v \in holds' /\ pc'[v] = pc[v] /\ on'[v] = on[v]
      BY Zenon, <1>1, <1>2 DEF WorkShape
    <3> QED  BY <2>1, <3>1, <3>2, <3>3, Zenon DEF Retried
  <2> QED  BY Zenon, <2>1
<1>7. ASSUME Open(d)', ~Open(d)
      PROVE  w \in Hot(d)
  <2>1. row[d] = "SENDING" /\ d \notin old /\ (\A v \in mine' : Of(v)' # d)
    BY <1>1, <1>6, <1>7, Zenon DEF Open
  <2>2. PICK v \in mine : Of(v) = d
    BY <1>7, <2>1, Zenon DEF Open
  <2>3. v = w
    BY Zenon, <1>1, <1>2, <2>1, <2>2 DEF WorkShape, Of
  <2>4. w \in mine /\ pc[w] \in {"throw", "unrecoverable"}
    BY Zenon, <1>1, <2>3 DEF Sending
  <2> QED  BY Zenon, <2>4 DEF Hot
<1> QED  BY SMTT(60), <1>1, <1>3, <1>4, <1>7 DEF Cost

LEMMA StallCost ==
    ASSUME QueueShape, WorkShape, Running, Locks, NEW w \in Workers, Stall(w),
           NEW d \in Deliveries, d = Of(w)
    PROVE  Cost(d, w)' + faults <= Cost(d, w) + faults'
<1>1. /\ UNCHANGED <<row, count, old, owed, got, unsure>> /\ faults' = faults + 1
      /\ w \in holds /\ holds' = holds \ {w} /\ pc[w] # "idle"
  BY Zenon DEF Stall, table, Fault, Running
<1>2. faults \in Nat /\ got[d] \in Nat
  BY Zenon DEF QueueShape, WorkShape
<1>3. CASE pc' = [pc EXCEPT ![w] = "idle"]
  <2>1. pc'[w] = "idle"
    BY Zenon, <1>3 DEF WorkShape
  <2>2. w \notin Hot(d)'
    BY Zenon, <2>1 DEF Hot
  <2> QED  BY <1>1, <1>2, <2>2 DEF Cost
<1>4. CASE UNCHANGED <<pc, on, nth, mine>>
  <2>1. ASSUME Open(d)', ~Open(d)
        PROVE  w \notin Hot(d)'
    <3>0. \A v : Of(v)' = Of(v)
      BY <1>4, Zenon DEF Of
    <3>1. Retried(d)' /\ ~Retried(d)
      BY Zenon, <1>1, <1>4, <2>1, <3>0 DEF Open
    <3>2. job[<<d, 0>>] \notin {"done", "failed"}
      <4>1. CASE on[w] = <<d, 0>>
        BY Zenon, <1>1, <4>1 DEF Locks
      <4>2. CASE on[w] # <<d, 0>>
        <5>1. <<d, 0>> \in Jobs
          BY DeadLetterAssumption DEF Jobs
        <5>2. job'[<<d, 0>>] = job[<<d, 0>>]
          BY Zenon, <4>2, <5>1 DEF Stall, QueueShape
        <5> QED  BY <3>1, <5>2, Zenon DEF Retried
      <4> QED  BY Zenon, <4>1, <4>2
    <3>3. PICK v \in holds : on[v] = <<d, 0>> /\ pc[v] = "done"
      BY <3>1, <3>2, Zenon DEF Retried
    <3>4. v = w
      BY Zenon, <1>1, <1>4, <3>1, <3>3 DEF Retried
    <3>5. pc'[w] = "done"
      BY Zenon, <1>4, <3>3, <3>4
    <3> QED  BY Zenon, <3>5 DEF Hot, Claiming
  <2> QED  BY <1>1, <1>2, <2>1 DEF Cost
<1> QED  BY <1>3, <1>4, Zenon DEF Stall, Goto

LEMMA PaidWork ==
    ASSUME QueueShape, WorkShape, Running, Sending, Dead, Locks, Attempts, Taken, NEW w \in Workers, Work(w),
           NEW d \in Deliveries
    PROVE  Cost(d, w)' + faults <= Cost(d, w) + faults'
<1>1. CASE \E j \in Jobs : Start(w, j)
  BY <1>1, StartCost, Zenon
<1>2. CASE ~(\E j \in Jobs : Start(w, j))
  <2>1. Inside(w) \/ End(w) \/ Stall(w)
    BY <1>2, WorkCases, Zenon
  <2>2. pc[w] # "idle"
    BY Zenon, <2>1, InsideFacts DEF End, Stall, Running
  <2>3. CASE d # Of(w)
    BY <2>2, <2>3, ForeignCost, Zenon
  <2>4. CASE d = Of(w) /\ Inside(w)
    BY <2>4, InsideIs, TakeCost, DisabledCost, MovesCost, OutcomeCost, Zenon
  <2>5. CASE d = Of(w) /\ End(w)
    BY <2>5, EndCost, Zenon
  <2>6. CASE d = Of(w) /\ Stall(w)
    BY <2>6, StallCost, Zenon
  <2> QED  BY Zenon, <2>1, <2>3, <2>4, <2>5, <2>6
<1> QED  BY Zenon, <1>1, <1>2

\* The producer and the lease.
LEMMA PaidProducing ==
    ASSUME QueueShape, WorkShape, Owing, NEW d \in Deliveries, Producing(d), NEW e \in Deliveries
    PROVE  got'[e] + (IF Open(e)' THEN 1 ELSE 0) + (IF e \in owed' \cap unsure' THEN 1 ELSE 0) + faults
               <= got[e] + (IF Open(e) THEN 1 ELSE 0) + (IF e \in owed \cap unsure THEN 1 ELSE 0) + faults'
<1>1. UNCHANGED <<local, count, got>> /\ (faults' = faults \/ faults' = faults + 1)
  BY Zenon DEF Producing, Request, Enqueue, EnqueueUnanswered, MarkEnqueueFailed, ProducerDies, LeaseEnds, table, history, Fault
<1>2. got[e] \in Nat /\ faults \in Nat
  BY Zenon DEF QueueShape, WorkShape
<1>3. \A v : Of(v)' = Of(v)
  BY <1>1, Zenon DEF Of, local
<1>4. CASE e # d
  <2>1. row'[e] = row[e] /\ (e \in old' <=> e \in old) /\ (e \in owed' \cap unsure' <=> e \in owed \cap unsure)
    BY Zenon, <1>4 DEF Producing, Request, Enqueue, EnqueueUnanswered, MarkEnqueueFailed, ProducerDies, LeaseEnds, table, history, WorkShape, Marked
  <2>2. job'[<<e, 0>>] = job[<<e, 0>>]
    <3>1. <<e, 0>> \in Jobs
      BY DeadLetterAssumption DEF Jobs
    <3> QED  BY Zenon, <1>4, <3>1 DEF Producing, Request, Enqueue, EnqueueUnanswered, MarkEnqueueFailed, ProducerDies, LeaseEnds, queue, QueueShape
  <2>3. Retried(e)' => Retried(e)
    BY <1>1, <2>2, Zenon DEF Retried, local
  <2>4. Open(e)' => Open(e)
    BY Zenon, <1>1, <1>3, <2>1, <2>3 DEF Open, local
  <2> QED  BY <1>1, <1>2, <2>1, <2>4
<1>5. CASE e = d
  <2>1. CASE Request(d)
    <3>1. Open(e) /\ ~(e \in owed' \cap unsure')
      BY Zenon, <1>5, <2>1 DEF Open, Request, Owing
    <3> QED  BY <1>1, <1>2, <3>1
  <2>2. CASE Enqueue(d)
    <3>1. Open(e) /\ ~(e \in owed' \cap unsure')
      BY Zenon, <1>5, <2>2 DEF Open, Enqueue, Owing
    <3> QED  BY <1>1, <1>2, <3>1
  <2>3. CASE EnqueueUnanswered(d)
    <3>1. Open(e) /\ faults' = faults + 1
      BY Zenon, <1>5, <2>3 DEF Open, EnqueueUnanswered, Owing, Fault
    <3> QED  BY <1>1, <1>2, <3>1
  <2>4. CASE MarkEnqueueFailed(d)
    <3>1. e \in owed \cap unsure /\ e \notin owed' /\ faults' = faults
      BY Zenon, <1>5, <2>4 DEF MarkEnqueueFailed
    <3> QED  BY <1>1, <1>2, <3>1
  <2>5. CASE ProducerDies(d)
    <3>1. faults' = faults + 1 /\ e \notin owed'
      BY Zenon, <1>5, <2>5 DEF ProducerDies, Fault
    <3> QED  BY <1>1, <1>2, <3>1
  <2>6. CASE LeaseEnds(d)
    <3>1. UNCHANGED <<owed, unsure>>
      BY <2>6, Zenon DEF LeaseEnds
    <3>2. Open(e) \/ faults' = faults + 1
      BY Zenon, <1>5, <2>6 DEF LeaseEnds, Open, Fault
    <3> QED  BY <1>1, <1>2, <3>1, <3>2
  <2> QED  BY <2>1, <2>2, <2>3, <2>4, <2>5, <2>6, Zenon DEF Producing
<1> QED  BY Zenon, <1>4, <1>5

LEMMA PaidReplaying ==
    ASSUME QueueShape, WorkShape, Running, Dead, Replaying, NEW e \in Deliveries
    PROVE  got'[e] + (IF Open(e)' THEN 1 ELSE 0) + (IF e \in owed' \cap unsure' THEN 1 ELSE 0) + faults
               <= got[e] + (IF Open(e) THEN 1 ELSE 0) + (IF e \in owed \cap unsure THEN 1 ELSE 0) + faults'
<1>1. UNCHANGED <<local, on, mine, holds, pc, row, count, old, owed, unsure, got>>
  BY ReplayQueue, Zenon DEF local, table, history
<1>2. faults' = faults \/ faults' = faults + 1
  BY ReplayQueue, Zenon
<1>3. job'[<<e, 0>>] = job[<<e, 0>>]
  <2>1. <<e, 0>> \in Jobs
    BY DeadLetterAssumption DEF Jobs
  <2>2. \/ job' = job
        \/ \E k \in Jobs : k[2] # 0 /\ job' = [job EXCEPT ![k] = "waiting"]
    BY ReplayQueue, Zenon
  <2>3. ASSUME NEW k \in Jobs, k[2] # 0
        PROVE  k # <<e, 0>>
    BY <2>3
  <2> QED  BY Zenon, <2>1, <2>2, <2>3 DEF QueueShape
<1>4. Retried(e)' => Retried(e)
  BY <1>1, <1>3, Zenon DEF Retried
<1>5. \A v : Of(v)' = Of(v)
  BY <1>1, Zenon DEF Of
<1>6. Open(e)' => Open(e)
  BY Zenon, <1>1, <1>4, <1>5 DEF Open
<1>7. got[e] \in Nat /\ faults \in Nat
  BY Zenon DEF QueueShape, WorkShape
<1> QED  BY <1>1, <1>2, <1>6, <1>7

-----------------------------------------------------------------------------
(* The budget of replays.                                                  *)

LEMMA Budgets ==
    ASSUME NEW f \in Nat
    PROVE  /\ MaxCount * f \in Nat /\ MaxCount * (f + 1) = MaxCount * f + MaxCount
           /\ MaxCount * (1 + f) = MaxCount * f + MaxCount
BY DeadLetterAssumption

LEMMA LetterStays ==
    ASSUME QueueShape, spc # "idle", UNCHANGED todo, NEW j \in Jobs, book' = book \/ book' = book \o <<j>>
    PROVE  Letter' = Letter
<1>1. First' = First
  BY Zenon DEF First
<1>2. First \in 1..Len(book)
  BY Zenon, FirstIn DEF QueueShape
<1>3. book'[First] = book[First]
  BY <1>2 DEF QueueShape
<1> QED  BY <1>1, <1>3, Zenon DEF Letter

\* What neither the sweeper nor the operator does.
LEMMA CountedQuiet ==
    ASSUME QueueShape, Counts, Counted, UNCHANGED <<tries, spc, todo, replays>>,
           spc # "idle" => Letter' = Letter, faults' = faults \/ faults' = faults + 1
    PROVE  Counts' /\ Counted'
<1>1. Counts'
  BY Zenon DEF Counts
<1>2. ASSUME NEW j \in Jobs
      PROVE  CountedFor(j)'
  <2>1. CountedFor(j)
    BY Zenon DEF Counted
  <2>2. /\ Covered(j) \in Nat /\ Covered(j)' \in Nat /\ Covered(j) <= Covered(j)'
        /\ tries[j] \in Nat /\ replays[j] \in Nat
    <3>1. tries[j] \in Nat /\ replays[j] \in Nat /\ faults \in Nat /\ MaxCount \in Nat
      BY DeadLetterAssumption DEF Counts, QueueShape
    <3>2. MaxCount * faults \in Nat /\ MaxCount * (faults + 1) = MaxCount * faults + MaxCount
      BY Zenon, <3>1, Budgets
    <3> DEFINE x == MaxCount * faults
               y == MaxCount * faults'
    <3>3. x \in Nat /\ (y = x \/ y = x + MaxCount)
      BY Zenon, <3>2
    <3>4. Covered(j) = tries[j] + x /\ Covered(j)' = tries[j] + y
      BY Zenon DEF Covered
    <3> HIDE DEF x, y
    <3> QED  BY <3>1, <3>3, <3>4
  <2> QED  BY <2>1, <2>2 DEF CountedFor
<1>3. spc' \in {"add", "count"} => MaxCount > 0
  BY Zenon DEF Counted
<1> QED  BY <1>1, <1>2, <1>3, Zenon DEF Counted

\* The numbers of a row before and after a step of the sweeper.
LEMMA CoveredIs ==
    ASSUME QueueShape, Counts, NEW j \in Jobs
    PROVE  /\ tries[j] \in Nat /\ tries[j] <= MaxCount /\ replays[j] \in Nat /\ MaxCount \in Nat
           /\ MaxCount * faults \in Nat
           /\ Covered(j) = tries[j] + MaxCount * faults
           /\ MaxCount * (faults + 1) = MaxCount * faults + MaxCount
<1>1. tries[j] \in Nat /\ tries[j] <= MaxCount /\ replays[j] \in Nat /\ MaxCount \in Nat /\ faults \in Nat
  BY DeadLetterAssumption DEF Counts, QueueShape
<1> QED  BY Zenon, <1>1, Budgets DEF Covered

LEMMA CountsNext ==
    ASSUME QueueShape, Counts, Counted, Sweeper \/ SweepDies
    PROVE  Counts'
<1>1. CASE SweepCount
  <2>1. Letter \in Jobs /\ MaxCount > 0
    BY Zenon, <1>1, FirstIn DEF SweepCount, Counted, QueueShape
  <2>2. UNCHANGED replays
    BY <1>1, Zenon DEF SweepCount
  <2>3. tries' \in [Jobs -> 0..MaxCount]
    BY <1>1, <2>1, DeadLetterAssumption DEF SweepCount, Counts
  <2> QED  BY <2>2, <2>3, Zenon DEF Counts
<1>2. CASE SweepAdd
  <2>1. Letter \in Jobs
    BY Zenon, <1>2, FirstIn DEF SweepAdd, QueueShape
  <2> QED  BY <1>2, <2>1 DEF SweepAdd, Counts
<1>3. CASE SweepScan \/ SweepRow \/ SweepDies
  BY <1>3, Zenon DEF SweepScan, SweepRow, SweepDies, Counts
<1> QED  BY <1>1, <1>2, <1>3, Zenon DEF Sweeper

\* No row is being replayed after the step: its replays are covered.
LEMMA CountedRest ==
    ASSUME QueueShape, QueueShape', Counts, Counts', spc' \in {"idle", "next"},
           \A j \in Jobs : replays'[j] <= Covered(j)'
    PROVE  Counted'
BY Zenon DEF Counted, CountedFor

LEMMA RowStep ==
    ASSUME QueueShape, QueueShape', Counts, Counts', Counted, SweepRow
    PROVE  Counted'
<1>0. UNCHANGED <<tries, replays, book>> /\ spc = "next" /\ (faults' = faults \/ faults' = faults + 1)
  BY Zenon DEF SweepRow, Fault
<1>1. ASSUME NEW j \in Jobs
      PROVE  replays[j] <= Covered(j) /\ Covered(j) <= Covered(j)'
  <2>1. replays[j] <= Covered(j)
    BY Zenon, <1>0 DEF Counted, CountedFor
  <2>2. Covered(j)' = tries[j] + MaxCount * faults'
    BY Zenon, <1>0 DEF Covered
  <2> QED  BY <1>0, <2>1, <2>2, CoveredIs
<1>2. ASSUME NEW j \in Jobs
      PROVE  replays'[j] <= Covered(j)'
  <2>1. Covered(j) \in Nat /\ Covered(j)' \in Nat /\ replays[j] \in Nat
    BY <1>0, CoveredIs DEF Covered
  <2> QED  BY <1>0, <1>1, <2>1
<1>3. CASE spc' \in {"idle", "next"}
  BY Zenon, <1>2, <1>3, CountedRest
<1>4. CASE spc' = "add" /\ UNCHANGED todo
  <2>0. Letter' = Letter /\ Letter \in Jobs
    <3>1. Letter \in Jobs
      BY Zenon, <1>0, FirstIn DEF QueueShape
    <3> QED  BY Zenon, <1>0, <1>4, <3>1, LetterStays
  <2>1. MaxCount > 0
    <3>1. tries[Letter] \in Nat /\ MaxCount \in Nat
      BY Zenon, <2>0, CoveredIs
    <3>2. tries[Letter] < MaxCount \/ MaxCount > 0
      BY Zenon, <1>4 DEF SweepRow, NextRow
    <3> QED  BY <3>1, <3>2
  <2>2. ASSUME NEW j \in Jobs, j = Letter
        PROVE  tries'[j] < MaxCount \/ replays'[j] + 1 <= Covered(j)'
    <3>1. CASE faults' = faults + 1
      <4>1. Covered(j)' = tries[j] + MaxCount * (faults + 1)
        BY Zenon, <1>0, <3>1 DEF Covered
      <4> QED  BY <1>0, <1>1, <2>1, <4>1, CoveredIs
    <3>2. CASE faults' = faults
      <4>1. tries[j] < MaxCount
        BY <1>0, <1>4, <2>2, <3>2, CoveredIs DEF SweepRow, Fault, QueueShape, NextRow
      <4> QED  BY Zenon, <1>0, <4>1
    <3> QED  BY Zenon, <1>0, <3>1, <3>2
  <2> QED  BY Zenon, <1>2, <1>4, <2>0, <2>1, <2>2 DEF Counted, CountedFor
<1> QED  BY Zenon, <1>3, <1>4 DEF SweepRow, NextRow

LEMMA AddStep ==
    ASSUME QueueShape, QueueShape', Counts, Counts', Counted, SweepAdd
    PROVE  Counted'
<1>0. UNCHANGED <<tries, book>> /\ spc = "add" /\ (faults' = faults \/ faults' = faults + 1) /\ MaxCount > 0
  BY Zenon DEF SweepAdd, Fault, Counted
<1>1. Letter \in Jobs
  BY Zenon, <1>0, FirstIn DEF QueueShape
<1>2. ASSUME NEW j \in Jobs
      PROVE  replays[j] <= Covered(j) /\ (j = Letter => tries[j] < MaxCount \/ replays[j] + 1 <= Covered(j))
  BY Zenon, <1>0 DEF Counted, CountedFor
<1>3. ASSUME NEW j \in Jobs
      PROVE  /\ replays'[j] \in Nat /\ replays'[j] <= replays[j] + 1 /\ (j # Letter => replays'[j] = replays[j])
             /\ Covered(j)' = tries[j] + MaxCount * faults'
  <2>1. Covered(j)' = tries[j] + MaxCount * faults'
    BY Zenon, <1>0 DEF Covered
  <2>2. replays[j] \in Nat
    BY Zenon, CoveredIs
  <2> QED  BY <1>1, <2>1, <2>2 DEF SweepAdd, Counts
<1>4. CASE faults' = faults + 1
  <2>1. ASSUME NEW j \in Jobs
        PROVE  replays'[j] <= Covered(j)'
    BY <1>0, <1>2, <1>3, <1>4, CoveredIs
  <2>2. spc' \in {"idle", "next"}
    BY <1>4 DEF SweepAdd, NextRow, QueueShape
  <2> QED  BY Zenon, <2>1, <2>2, CountedRest
<1>5. CASE faults' = faults
  <2>1. spc' = "count" /\ UNCHANGED todo
    BY <1>5 DEF SweepAdd, Fault, QueueShape
  <2>2. Letter' = Letter
    BY Zenon, <1>0, <1>1, <2>1, LetterStays
  <2>3. ASSUME NEW j \in Jobs
        PROVE  CountedFor(j)'
    <3>1. Covered(j)' = Covered(j)
      BY Zenon, <1>3, <1>5 DEF Covered
    <3>2. CASE j # Letter
      BY Zenon, <1>2, <1>3, <2>1, <2>2, <3>1, <3>2 DEF CountedFor
    <3>3. CASE j = Letter
      <4>1. tries[j] < MaxCount \/ replays[j] + 1 <= Covered(j)
        BY Zenon, <1>2, <3>3
      <4>2. replays'[j] <= Covered(j) + 1 /\ (replays[j] + 1 <= Covered(j) => replays'[j] <= Covered(j))
        BY <1>2, <1>3, CoveredIs
      <4> QED  BY Zenon, <1>0, <2>1, <2>2, <3>1, <3>3, <4>1, <4>2 DEF CountedFor
    <3> QED  BY Zenon, <3>2, <3>3
  <2> QED  BY <1>0, <2>3, Zenon DEF Counted
<1> QED  BY Zenon, <1>0, <1>4, <1>5

LEMMA CountStep ==
    ASSUME QueueShape, QueueShape', Counts, Counts', Counted, SweepCount
    PROVE  Counted'
<1>0. UNCHANGED <<replays, book>> /\ spc = "count" /\ (faults' = faults \/ faults' = faults + 1) /\ MaxCount > 0
  BY Zenon DEF SweepCount, Fault, Counted
<1>1. Letter \in Jobs
  BY Zenon, <1>0, FirstIn DEF QueueShape
<1>2. ASSUME NEW j \in Jobs
      PROVE  \/ replays[j] <= Covered(j)
             \/ Letter = j /\ tries[j] < MaxCount /\ replays[j] <= Covered(j) + 1
  BY Zenon DEF Counted, CountedFor
<1>3. ASSUME NEW j \in Jobs
      PROVE  replays'[j] <= Covered(j)'
  <2>0. Covered(j)' = tries'[j] + MaxCount * faults' /\ tries'[j] \in Nat
    BY <1>3 DEF Covered, Counts
  <2>1. CASE j # Letter
    <3>1. tries'[j] = tries[j]
      BY Zenon, <2>1 DEF SweepCount, Counts
    <3> QED  BY <1>0, <1>2, <2>0, <2>1, <3>1, CoveredIs
  <2>2. CASE j = Letter /\ faults' = faults
    <3>1. tries'[j] = IF tries[j] < MaxCount THEN tries[j] + 1 ELSE tries[j]
      BY <2>2 DEF SweepCount, Counts, Fault, QueueShape
    <3> QED  BY <1>0, <1>2, <2>0, <2>2, <3>1, CoveredIs
  <2>3. CASE j = Letter /\ faults' = faults + 1
    <3>1. tries'[j] = 1 \/ tries'[j] = tries[j]
      BY <2>3 DEF SweepCount, Counts, QueueShape
    <3> QED  BY <1>0, <1>2, <2>0, <2>3, <3>1, CoveredIs
  <2> QED  BY Zenon, <1>0, <2>1, <2>2, <2>3
<1>4. spc' \in {"idle", "next"}
  BY Zenon DEF SweepCount, NextRow
<1> QED  BY Zenon, <1>3, <1>4, CountedRest

LEMMA DiesStep ==
    ASSUME QueueShape, QueueShape', Counts, Counts', Counted, SweepDies \/ SweepScan
    PROVE  Counted'
<1>0. UNCHANGED <<replays, tries>> /\ spc' \in {"idle", "next"}
  BY Zenon DEF SweepDies, SweepScan
<1>1. ASSUME NEW j \in Jobs
      PROVE  replays'[j] <= Covered(j)'
  <2>0. Covered(j)' = tries[j] + MaxCount * faults'
    BY Zenon, <1>0 DEF Covered
  <2>1. CASE SweepDies
    <3>1. faults' = faults + 1 /\ (replays[j] <= Covered(j) \/ (replays[j] <= Covered(j) + 1 /\ MaxCount > 0))
      BY Zenon, <2>1 DEF SweepDies, Fault, Counted, CountedFor
    <3> QED  BY <1>0, <2>0, <3>1, CoveredIs
  <2>2. CASE SweepScan
    <3>1. faults' = faults /\ replays[j] <= Covered(j)
      BY Zenon, <2>2 DEF SweepScan, Counted, CountedFor
    <3> QED  BY Zenon, <1>0, <2>0, <3>1, CoveredIs
  <2> QED  BY Zenon, <2>1, <2>2
<1> QED  BY Zenon, <1>0, <1>1, CountedRest

LEMMA CountedNext ==
    ASSUME QueueShape, WorkShape, Running, Dead, QueueShape', Counts, Counted, [Next]_vars
    PROVE  Counts' /\ Counted'
<1>1. ASSUME NEW d \in Deliveries, Producing(d)
      PROVE  Counts' /\ Counted'
  <2>1. UNCHANGED <<tries, spc, todo, replays, book>> /\ (faults' = faults \/ faults' = faults + 1)
    BY <1>1, Zenon DEF Producing, Request, Enqueue, EnqueueUnanswered, MarkEnqueueFailed, ProducerDies, LeaseEnds, ledger, Fault
  <2>2. Letter' = Letter
    BY Zenon, <2>1 DEF Letter, First
  <2> QED  BY <2>1, <2>2, CountedQuiet, Zenon
<1>2. ASSUME NEW w \in Workers, Work(w)
      PROVE  Counts' /\ Counted'
  <2>0. faults' = faults \/ faults' = faults + 1
    BY <1>2, WorkFrame, Zenon DEF Frame
  <2>1. CASE UNCHANGED ledger
    <3>1. Letter' = Letter /\ UNCHANGED <<tries, spc, todo, replays>>
      BY Zenon, <2>1 DEF Letter, First, ledger
    <3> QED  BY <2>0, <3>1, CountedQuiet, Zenon
  <2>2. CASE End(w)
    <3>1. on[w] \in Jobs /\ Booked(on[w])
      BY Zenon, <2>2, EndQueue, OnJob DEF End
    <3>2. spc # "idle" => Letter' = Letter
      BY <3>1, LetterStays, Zenon DEF Booked
    <3> QED  BY <2>0, <3>1, <3>2, CountedQuiet, Zenon DEF Booked
  <2> QED  BY <1>2, <2>1, <2>2, WorkCases, InsideIs, Zenon DEF Start, Stall
<1>3. CASE Sweeper \/ SweepDies
  <2>1. Counts'
    BY Zenon, <1>3, CountsNext
  <2> QED  BY <1>3, <2>1, RowStep, AddStep, CountStep, DiesStep, Zenon DEF Sweeper
<1>4. CASE Replaying /\ ~(Sweeper \/ SweepDies)
  <2>1. OthersHold \/ \E j \in Jobs : CooldownEnds(j) \/ ManualReplay(j)
    BY <1>4, Zenon DEF Replaying
  <2>2. UNCHANGED <<tries, spc, todo, replays, book>> /\ (faults' = faults \/ faults' = faults + 1)
    BY <2>1, Zenon DEF CooldownEnds, ManualReplay, OthersHold, Fault
  <2>3. Letter' = Letter
    BY Zenon, <2>2 DEF Letter, First
  <2> QED  BY <2>2, <2>3, CountedQuiet, Zenon
<1>5. CASE UNCHANGED <<queue, ledger, faults, local, row, count, old, owed, history>>
  <2>1. UNCHANGED <<tries, spc, todo, replays, book>> /\ faults' = faults
    BY <1>5, Zenon DEF ledger
  <2>2. Letter' = Letter
    BY Zenon, <2>1 DEF Letter, First
  <2> QED  BY <2>1, <2>2, CountedQuiet, Zenon
<1>6. ASSUME NEW j \in Jobs, RefuseJob(j)
      PROVE  Counts' /\ Counted'
  <2>1. Booked(j)
    BY Zenon, <1>6, RefuseIs
  <2>2. spc # "idle" => Letter' = Letter
    BY <2>1, LetterStays, Zenon DEF Booked
  <2> QED  BY <2>1, <2>2, CountedQuiet, Zenon DEF Booked
<1> QED  BY <1>1, <1>2, <1>3, <1>4, <1>5, <1>6, NextCases, Zenon

-----------------------------------------------------------------------------
(* Facts about cardinality, for the copies of a job and the sweep's batch. *)
INSTANCE FiniteSetTheorems

LEMMA ReplayingTypes ==
    ASSUME QueueShape, WorkShape, Running, Dead, Replaying
    PROVE  QueueShape' /\ WorkShape'
<1>1. /\ UNCHANGED <<made, local, table, history>>
      /\ book' = book /\ mirror' \in SUBSET mirror
      /\ faults' = faults \/ faults' = faults + 1
  BY ReplayQueue, Zenon
<1>2. job' \in [Jobs -> {"absent", "waiting", "active", "done", "failed"}]
  BY Zenon, ReplayQueue DEF QueueShape
<1>3. /\ spc' \in {"idle", "next", "add", "count"}
      /\ todo' \in SUBSET (1..Len(book')) /\ (spc' # "idle" => todo' # {})
  <2>1. CASE SweepScan
    <3>1. Scanned \in SUBSET (1..Len(book))
      BY DEF Scanned, Due
    <3> QED  BY Zenon, <1>1, <2>1, <3>1 DEF SweepScan
  <2>2. CASE SweepRow
    BY Zenon, <1>1, <2>2, NextRowShape DEF SweepRow, QueueShape
  <2>3. CASE SweepAdd
    BY Zenon, <1>1, <2>3, NextRowShape DEF SweepAdd, QueueShape
  <2>4. CASE SweepCount
    BY Zenon, <1>1, <2>4, NextRowShape DEF SweepCount, QueueShape
  <2>5. CASE SweepDies
    BY Zenon, <2>5 DEF SweepDies, QueueShape
  <2>6. CASE UNCHANGED <<spc, todo>>
    BY Zenon, <1>1, <2>6 DEF QueueShape
  <2> QED  BY <2>1, <2>2, <2>3, <2>4, <2>5, <2>6, Zenon DEF Replaying, Sweeper, CooldownEnds, ManualReplay, OthersHold
<1>4. QueueShape'
  BY <1>1, <1>2, <1>3 DEF QueueShape
<1>5. WorkShape'
  BY <1>1, Zenon DEF WorkShape, local, table, history
<1> QED  BY Zenon, <1>4, <1>5

\* A set that one element may enter or leave.
LEMMA OneElement ==
    ASSUME NEW S, NEW T, NEW x, IsFiniteSet(S), T \subseteq S \cup {x}, S \subseteq T \cup {x}
    PROVE  /\ Cardinality(S) \in Nat /\ Cardinality(T) \in Nat
           /\ Cardinality(T) + (IF x \in S THEN 1 ELSE 0) = Cardinality(S) + (IF x \in T THEN 1 ELSE 0)
<1>0. Cardinality(S) \in Nat
  BY Zenon, FS_CardinalityType
<1>1. CASE x \in S <=> x \in T
  <2>1. S = T
    BY <1>1
  <2> QED  BY Zenon, <1>0, <2>1
<1>2. CASE x \in S /\ x \notin T
  <2>1. T = S \ {x}
    BY Zenon, <1>2
  <2>2. Cardinality(T) = Cardinality(S) - 1 /\ Cardinality(T) \in Nat
    BY Zenon, <1>2, <2>1, FS_RemoveElement, FS_CardinalityType
  <2> QED  BY <1>0, <1>2, <2>2
<1>3. CASE x \notin S /\ x \in T
  <2>1. T = S \cup {x}
    BY Zenon, <1>3
  <2>2. Cardinality(T) = Cardinality(S) + 1
    BY Zenon, <1>3, <2>1, FS_AddElement
  <2> QED  BY <1>0, <1>3, <2>2
<1> QED  BY Zenon, <1>1, <1>2, <1>3

LEMMA HotFinite ==
    ASSUME NEW d
    PROVE  IsFiniteSet(Hot(d)) /\ Cardinality(Hot(d)) \in Nat /\ Hot(d) \subseteq Workers
<1>1. Hot(d) \subseteq Workers
  BY Zenon DEF Hot
<1> QED  BY Zenon, <1>1, FS_Subset, FS_CardinalityType, WorkersAssumption

\* A step of one worker is paid for when it costs no more than its faults.
LEMMA PaidStep ==
    ASSUME QueueShape, WorkShape, QueueShape', WorkShape', NEW d \in Deliveries, NEW w \in Workers, PaidFor(d),
           \A v \in Workers \ {w} : v \in Hot(d)' <=> v \in Hot(d),
           Cost(d, w)' + faults <= Cost(d, w) + faults'
    PROVE  PaidFor(d)'
<1> DEFINE S == Hot(d)
           T == Hot(d)'
<1>1. IsFiniteSet(S) /\ S \subseteq Workers
  BY Zenon, HotFinite
<1>2. T \subseteq Workers
  BY Zenon DEF Hot
<1>3. T \subseteq S \cup {w} /\ S \subseteq T \cup {w}
  BY Zenon, <1>1, <1>2
<1>4. /\ Cardinality(S) \in Nat /\ Cardinality(T) \in Nat
      /\ Cardinality(T) + (IF w \in S THEN 1 ELSE 0) = Cardinality(S) + (IF w \in T THEN 1 ELSE 0)
  <2> HIDE DEF S, T
  <2> QED  BY Zenon, <1>1, <1>3, OneElement
<1>5. got[d] \in Nat /\ got'[d] \in Nat /\ faults \in Nat /\ faults' \in Nat
  BY Zenon DEF QueueShape, WorkShape
<1> DEFINE a == IF w \in S THEN 1 ELSE 0
           b == IF w \in T THEN 1 ELSE 0
           o == IF Open(d) THEN 1 ELSE 0
           p == IF Open(d)' THEN 1 ELSE 0
           m == IF d \in owed \cap unsure THEN 1 ELSE 0
           n == IF d \in owed' \cap unsure' THEN 1 ELSE 0
<1>6. a \in 0..1 /\ b \in 0..1 /\ o \in 0..1 /\ p \in 0..1 /\ m \in 0..1 /\ n \in 0..1
  OBVIOUS
<1>7. Cardinality(T) + a = Cardinality(S) + b
  BY Zenon, <1>4
<1>8. got'[d] + b + p + n + faults <= got[d] + a + o + m + faults'
  BY Zenon DEF Cost
<1>9. got[d] + Cardinality(S) + o + m <= 1 + faults
  BY Zenon DEF PaidFor
<1>10. got'[d] + Cardinality(T) + p + n <= 1 + faults'
  <2> HIDE DEF a, b, o, p, m, n, S, T
  <2> QED  BY <1>4, <1>5, <1>6, <1>7, <1>8, <1>9
<1> QED  BY Zenon, <1>10 DEF PaidFor

\* The same when no worker moves.
LEMMA PaidQuiet ==
    ASSUME QueueShape, WorkShape, QueueShape', WorkShape', NEW d \in Deliveries, PaidFor(d), UNCHANGED local,
           got'[d] + (IF Open(d)' THEN 1 ELSE 0) + (IF d \in owed' \cap unsure' THEN 1 ELSE 0) + faults
               <= got[d] + (IF Open(d) THEN 1 ELSE 0) + (IF d \in owed \cap unsure THEN 1 ELSE 0) + faults'
    PROVE  PaidFor(d)'
<1>1. Hot(d)' = Hot(d)
  BY Zenon DEF Hot, local, Of
<1>2. Cardinality(Hot(d)) \in Nat
  BY Zenon, HotFinite
<1>3. got[d] \in Nat /\ got'[d] \in Nat /\ faults \in Nat /\ faults' \in Nat
  BY Zenon DEF QueueShape, WorkShape
<1> DEFINE o == IF Open(d) THEN 1 ELSE 0
           p == IF Open(d)' THEN 1 ELSE 0
           m == IF d \in owed \cap unsure THEN 1 ELSE 0
           n == IF d \in owed' \cap unsure' THEN 1 ELSE 0
<1>4. o \in 0..1 /\ p \in 0..1 /\ m \in 0..1 /\ n \in 0..1
  OBVIOUS
<1>5. got'[d] + p + n + faults <= got[d] + o + m + faults'
  OBVIOUS
<1>6. got[d] + Cardinality(Hot(d)) + o + m <= 1 + faults
  BY Zenon DEF PaidFor
<1>7. got'[d] + Cardinality(Hot(d)) + p + n <= 1 + faults'
  <2> HIDE DEF o, p, m, n
  <2> QED  BY <1>2, <1>3, <1>4, <1>5, <1>6
<1> QED  BY Zenon, <1>1, <1>7 DEF PaidFor

LEMMA PaidNext ==
    ASSUME QueueShape, WorkShape, QueueShape', WorkShape', Running, Sending, Dead, Owing, Locks, Attempts, Taken,
           Paid, [Next]_vars
    PROVE  Paid'
<1>1. ASSUME NEW e \in Deliveries
      PROVE  PaidFor(e)'
  <2>0. PaidFor(e)
    BY Zenon DEF Paid
  <2>1. ASSUME NEW w \in Workers, Work(w)
        PROVE  PaidFor(e)'
    <3>1. \A v \in Workers \ {w} : v \in Hot(e)' <=> v \in Hot(e)
      BY <2>1, WorkFrame, HotOthers, Zenon
    <3>2. Cost(e, w)' + faults <= Cost(e, w) + faults'
      BY <2>1, PaidWork, Zenon
    <3> QED  BY <2>0, <3>1, <3>2, PaidStep, Zenon
  <2>2. ASSUME NEW d \in Deliveries, Producing(d)
        PROVE  PaidFor(e)'
    <3>1. UNCHANGED local
      BY <2>2, Zenon DEF Producing, Request, Enqueue, EnqueueUnanswered, MarkEnqueueFailed, ProducerDies, LeaseEnds
    <3> QED  BY <2>0, <2>2, <3>1, PaidProducing, PaidQuiet, Zenon
  <2>3. CASE Replaying
    <3>1. UNCHANGED local
      BY <2>3, ReplayQueue, Zenon
    <3> QED  BY <2>0, <2>3, <3>1, PaidReplaying, PaidQuiet, Zenon
  <2>4. CASE UNCHANGED <<queue, ledger, faults, local, row, count, old, owed, history>>
    <3>1. Open(e)' <=> Open(e)
      <4>1. Retried(e)' <=> Retried(e)
        BY <2>4, Zenon DEF Retried, queue, local
      <4>2. \A v : Of(v)' = Of(v)
        BY <2>4, Zenon DEF Of, local
      <4> QED  BY Zenon, <2>4, <4>1, <4>2 DEF Open, local
    <3>2. Hot(e)' = Hot(e)
      BY Zenon, <2>4 DEF Hot, Of, local
    <3> QED  BY Zenon, <2>0, <2>4, <3>1, <3>2 DEF PaidFor, history
  <2>5. ASSUME NEW j \in Jobs, RefuseJob(j)
        PROVE  PaidFor(e)'
    <3>1. UNCHANGED <<local, got, owed, unsure>> /\ faults' = faults + 1
      BY Zenon, <2>5, RefuseIs
    <3>2. got[e] \in Nat /\ faults \in Nat
      BY Zenon DEF QueueShape, WorkShape
    <3>3. got'[e] + (IF Open(e)' THEN 1 ELSE 0) + (IF e \in owed' \cap unsure' THEN 1 ELSE 0) + faults
              <= got[e] + (IF Open(e) THEN 1 ELSE 0) + (IF e \in owed \cap unsure THEN 1 ELSE 0) + faults'
      BY <3>1, <3>2
    <3> QED  BY <2>0, <3>1, <3>3, PaidQuiet, Zenon
  <2> QED  BY <2>1, <2>2, <2>3, <2>4, <2>5, NextCases, Zenon
<1> QED  BY <1>1, Zenon DEF Paid

-----------------------------------------------------------------------------
(* The theorems.                                                           *)

LEMMA InitIInv ==
    ASSUME Init
    PROVE  IInv
<1>1. QueueShape
  BY DEF Init, QueueInit, QueueShape
<1>2. WorkShape
  BY Zenon DEF Init, WorkShape, Status, Claiming
<1>3. Running /\ Sending /\ Dead
  BY DEF Init, QueueInit, Running, Sending, Dead
<1>4. Owing
  BY Zenon DEF Init, QueueInit, Owing, Unstarted
<1>5. Claimed /\ Locks /\ Taken
  BY Zenon DEF Init, Claimed, Locks, Taken
<1>6. Counts
  BY DeadLetterAssumption DEF Init, QueueInit, Counts
<1>7. Counted
  <2>1. ASSUME NEW j \in Jobs
        PROVE  replays[j] <= Covered(j)
    <3>1. replays[j] = 0 /\ tries[j] = 0 /\ faults = 0
      BY Zenon DEF Init, QueueInit
    <3> QED  BY <3>1, Budgets DEF Covered
  <2> QED  BY Zenon, <2>1 DEF Init, QueueInit, Counted, CountedFor
<1>8. Attempts
  BY Zenon DEF Init, QueueInit, Attempts
<1>9. Paid
  <2>1. ASSUME NEW d \in Deliveries
        PROVE  PaidFor(d)
    <3>1. Hot(d) = {}
      BY Zenon DEF Init, Hot
    <3>2. Cardinality(Hot(d)) = 0
      BY Zenon, <3>1, FS_EmptySet
    <3>3. got[d] = 0 /\ faults = 0 /\ owed = {}
      BY Zenon DEF Init, QueueInit
    <3> QED  BY <3>2, <3>3 DEF PaidFor
  <2> QED  BY <2>1, Zenon DEF Paid
<1> QED  BY <1>1, <1>2, <1>3, <1>4, <1>5, <1>6, <1>7, <1>8, <1>9, Zenon DEF IInv

LEMMA IInvNext ==
    ASSUME IInv, [Next]_vars
    PROVE  IInv'
<1> USE DEF IInv
<1>1. QueueShape' /\ WorkShape'
  <2>1. CASE UNCHANGED <<queue, ledger, faults, local, row, count, old, owed, history>>
    BY Zenon, <2>1 DEF QueueShape, WorkShape, queue, ledger, local, history
  <2> QED  BY <2>1, NextCases, ProducingTypes, WorkTypes, ReplayingTypes, RefuseTypes, Zenon
<1>2. Running' /\ Sending' /\ Dead' /\ Owing' /\ Claimed'
  BY RunningNext, SendingNext, DeadNext, OwingNext, ClaimedNext, Zenon
<1>3. Locks' /\ Attempts' /\ Taken'
  BY LocksNext, AttemptsNext, TakenNext, Zenon
<1>4. Counts' /\ Counted'
  BY <1>1, CountedNext, Zenon
<1>5. Paid'
  BY <1>1, PaidNext, Zenon
<1> QED  BY <1>1, <1>2, <1>3, <1>4, <1>5, Zenon

\* The strengthening holds in every state of queue, ledger, rows and workers.
THEOREM Inductive == Spec => []IInv
<1>1. Init => IInv
  BY Zenon, InitIInv
<1>2. IInv /\ [Next]_vars => IInv'
  BY Zenon, IInvNext
<1> QED  BY <1>1, <1>2, PTL DEF Spec

\* tryMarkSending: the claim excludes a second sender, for any number of
\* workers, jobs and replays, while no lease ends under a sender and nobody
\* without a claim writes the row.
THEOREM OneSenderOnly == Spec => []OneSender
<1>1. IInv => OneSender
  <2>1. ASSUME IInv, NEW d \in Deliveries \ robbed
        PROVE  Cardinality(Senders(d)) <= 1
    <3>1. \A v, w \in Senders(d) : v = w
      BY <2>1, Zenon DEF IInv, Claimed, Senders
    <3>2. CASE Senders(d) = {}
      BY <3>2, FS_EmptySet
    <3>3. CASE Senders(d) # {}
      <4>1. PICK w : Senders(d) = {w}
        BY Zenon, <3>1, <3>3
      <4> QED  BY <4>1, FS_Singleton
    <3> QED  BY Zenon, <3>2, <3>3
  <2> QED  BY Zenon, <2>1 DEF OneSender
<1> QED  BY <1>1, Inductive, PTL

\* requestWebhookDelivery to recordOutcome: a subscriber gets at most one copy
\* more than there were failures, whatever is retried, stalled and replayed.
THEOREM CopiesCostFaults == Spec => []CopiesNeedFaults
<1>1. IInv => CopiesNeedFaults
  <2>1. ASSUME IInv, NEW d \in Deliveries
        PROVE  got[d] <= 1 + faults
    <3>1. got[d] \in Nat /\ faults \in Nat /\ PaidFor(d)
      BY Zenon, <2>1 DEF IInv, WorkShape, QueueShape, Paid
    <3>2. Cardinality(Hot(d)) \in Nat
      BY Zenon, HotFinite
    <3> QED  BY <3>1, <3>2 DEF PaidFor
  <2> QED  BY Zenon, <2>1 DEF CopiesNeedFaults
<1> QED  BY <1>1, Inductive, PTL

\* runDlqAutoRetryJob and recordDlqAutoRetryAttempt: the automatic replays of
\* a dead letter stay within the budget, one more budget per failure, for any
\* budget (0 included), batch size and number of letters.
THEOREM BudgetOfReplays == Spec => []ReplayBudget
<1>1. IInv => ReplayBudget
  <2>1. ASSUME IInv, NEW j \in Jobs
        PROVE  replays[j] <= MaxCount * (1 + faults)
    <3>1. CountedFor(j) /\ QueueShape /\ Counts
      BY <2>1, Zenon DEF IInv, Counted
    <3>2. replays[j] <= Covered(j) \/ (tries[j] < MaxCount /\ replays[j] <= Covered(j) + 1)
      BY Zenon, <3>1 DEF CountedFor
    <3>3. MaxCount * (1 + faults) = MaxCount * faults + MaxCount
      BY Zenon, <3>1, Budgets DEF QueueShape
    <3> QED  BY <3>1, <3>2, <3>3, CoveredIs
  <2> QED  BY Zenon, <2>1 DEF ReplayBudget
<1> QED  BY <1>1, Inductive, PTL

LEMMA SentStays ==
    ASSUME IInv, [Next]_vars, NEW d \in Deliveries, row[d] = "SENT", ~(BypassRls /\ d \in unsure)
    PROVE  row'[d] = "SENT"
<1>1. QueueShape /\ WorkShape /\ Running /\ Dead /\ Owing
  BY Zenon DEF IInv
<1>2. ASSUME NEW e \in Deliveries, Producing(e)
      PROVE  row'[d] = "SENT"
  <2>1. CASE Enqueue(e)
    <3>1. e # d
      BY Zenon, <1>1, <2>1 DEF Enqueue, Owing
    <3> QED  BY Zenon, <1>1, <2>1, <3>1 DEF Enqueue, Marked, WorkShape
  <2>2. CASE Request(e)
    BY Zenon, <1>1, <2>2 DEF Request, WorkShape
  <2>3. CASE MarkEnqueueFailed(e)
    BY Zenon, <1>1, <2>3 DEF MarkEnqueueFailed, Marked, WorkShape
  <2> QED  BY <1>2, <2>1, <2>2, <2>3, Zenon DEF Producing, EnqueueUnanswered, ProducerDies, LeaseEnds, table
<1>3. ASSUME NEW w \in Workers, Work(w)
      PROVE  row'[d] = "SENT"
  <2>1. CASE Inside(w)
    BY Zenon, <1>1, <2>1, InsideIs DEF TakesRow, Passes, Disabled, Delivered, DeliveredUnseen, Failed, FailedUnseen, Moves, Outcome, WorkShape
  <2> QED  BY <1>3, <2>1, WorkCases, Zenon DEF Start, End, Stall, table
<1>4. CASE Replaying
  BY <1>1, <1>4, ReplayQueue, Zenon DEF table
<1>5. ASSUME NEW j \in Jobs, RefuseJob(j)
      PROVE  row'[d] = "SENT"
  BY Zenon, <1>1, <1>5, RefuseIs
<1> QED  BY <1>2, <1>3, <1>4, <1>5, NextCases, Zenon

\* recordOutcome never overwrites SENT, and no claim takes a SENT row; only
\* markDeliveryAttemptEnqueueFailed of a producer that saw an error does, when
\* its role bypasses row level security.
THEOREM SentStaysSent == Spec => SentIsFinal
<1>1. IInv /\ [Next]_vars => [\A d \in Deliveries :
                              row[d] = "SENT" /\ ~(BypassRls /\ d \in unsure) => row'[d] = "SENT"]_vars
  BY Zenon, SentStays
<1> QED  BY <1>1, Inductive, PTL DEF Spec, SentIsFinal

=============================================================================
