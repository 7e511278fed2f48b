-------------------------- MODULE MailOutboxProofs --------------------------
(***************************************************************************)
(* Proofs about MailOutbox for any number of rows, producers, jobs,        *)
(* attempts and faults.  The strengthening: while no claim was overdue a   *)
(* worker that holds a row finds it sending and not stale, or sent by its  *)
(* own mark whose answer was lost; a row that may still be sent has its    *)
(* body; a job that read a scrubbed body read a terminal row, which stays  *)
(* terminal, so that its claim misses.                                     *)
(*                                                                         *)
(* The number of calls is bounded by an account per row: the calls made,   *)
(* the workers that may still call or release, and one more while the row  *)
(* may be claimed add up to at most one call and one for each fault.       *)
(***************************************************************************)
EXTENDS MailOutbox, FiniteSetTheorems, TLAPS

Terminal == {"sent", "failed"}

Sole ==
    \A j, k \in Jobs :
        ~overdue /\ jat[j] \in Holding /\ jat[k] \in Holding /\ jmail[j] = jmail[k] => j = k

Claims ==
    \A j \in Jobs : ~overdue /\ jat[j] \in Holding =>
        \/ status[jmail[j]] = "sending" /\ jmail[j] \notin stale
        \/ jat[j] = "catch" /\ status[jmail[j]] = "sent" /\ jmail[j] \in unheard

Bodies == \A m \in Mails : status[m] \in {"pending", "sending"} => body[m]

Reads ==
    \A j \in Jobs :
        /\ jat[j] = "claim" => seen[j] \/ status[jmail[j]] \in Terminal
        /\ jat[j] \in {"parse", "send"} => seen[j]

Accepted ==
    /\ \A j \in Jobs : jat[j] = "mark" => calls[jmail[j]] > 0
    /\ \A m \in Mails : status[m] = "sent" => calls[m] > 0

IInv == TypeOK /\ Sole /\ Claims /\ Bodies /\ Reads /\ Accepted

-----------------------------------------------------------------------------
(* A new job takes a free slot. *)
LEMMA FreeSlot == ASSUME Free # {} PROVE (CHOOSE k \in Free : TRUE) \in Free
  OBVIOUS

(* What a reclaim leaves of the batch is a number within it. *)
LEMMA Room ==
    ASSUME NEW found \in SUBSET Mails, NEW ids \in SUBSET found,
           Cardinality(ids) = IF Cardinality(found) < Batch THEN Cardinality(found) ELSE Batch
    PROVE  Batch - Cardinality(ids) \in 0..Batch
<1>1. IsFiniteSet(Mails)
  BY FS_Interval, BoundsAssumption DEF Mails
<1>2. IsFiniteSet(found) /\ IsFiniteSet(ids)
  BY Zenon, <1>1, FS_Subset
<1>3. Cardinality(found) \in Nat /\ Cardinality(ids) \in Nat
  BY Zenon, <1>2, FS_CardinalityType
<1> QED
  BY <1>3, BoundsAssumption

LEMMA InitIInv == Init => IInv
<1> SUFFICES ASSUME Init PROVE IInv
  OBVIOUS
<1>1. 1 \in Mails /\ 0 \in 0..(MaxAttempts - 1) /\ 0 \in 0..Batch /\ 0 \in 0..MaxFaults
  BY BoundsAssumption DEF Mails
<1>2. TypeOK
  <2> DEFINE Tries == 0..(MaxAttempts - 1)
             Rooms == 0..Batch
             Faults == 0..MaxFaults
  <2>1. 0 \in Tries /\ 0 \in Rooms /\ 0 \in Faults /\ 0 \in 0..1
    BY <1>1
  <2> HIDE DEF Tries, Rooms, Faults
  <2>2. tries \in [Jobs -> Tries] /\ room \in Rooms /\ faults \in Faults
    BY Zenon, <2>1 DEF Init
  <2>3. stalls \in [Jobs -> 0..1]
    BY Zenon, <2>1 DEF Init
  <2>4. /\ status \in [Mails -> Statuses] /\ body \in [Mails -> BOOLEAN]
        /\ old \subseteq Mails /\ stale \subseteq Mails /\ unheard \subseteq Mails /\ calls \in [Mails -> Nat]
    BY Zenon DEF Init, Statuses
  <2>5. /\ jat \in [Jobs -> JobSteps] /\ jmail \in [Jobs -> Mails]
        /\ seen \in [Jobs -> BOOLEAN] /\ err \in [Jobs -> Errors]
    BY Zenon, <1>1 DEF Init, JobSteps, Errors
  <2>6. /\ pat \in [Producers -> {"idle", "record", "mark", "dispatch"}]
        /\ pmail \in [Producers -> Mails]
        /\ marker \subseteq Mails /\ sat \in {"idle", "scan", "enqueue"}
        /\ todo \subseteq Mails /\ overdue \in BOOLEAN
    BY ZenonT(30), <1>1 DEF Init
  <2> QED
    BY Zenon, <2>2, <2>3, <2>4, <2>5, <2>6 DEF TypeOK, Tries, Rooms, Faults
<1>3. Sole /\ Claims /\ Bodies /\ Reads /\ Accepted
  BY Zenon DEF Init, Sole, Claims, Bodies, Reads, Accepted, Holding
<1> QED
  BY Zenon, <1>2, <1>3 DEF IInv

(* Steps that leave the jobs and overdue alone. *)
LEMMA ProducerKeeps ==
    ASSUME IInv, NEW p \in Producers, NEW m \in Mails,
           \/ Produce(p, m) \/ insertMailOutbox(p)
           \/ markNotificationEmailDispatched(p) \/ ProducerFails(p)
    PROVE  IInv'
<1> USE BoundsAssumption DEF IInv, TypeOK, Mails
<1>1. CASE Produce(p, m)
  BY Zenon, <1>1 DEF Produce, GoProducer, row, job, sweeper, Sole, Claims, Bodies, Reads, Accepted
<1>2. CASE insertMailOutbox(p)
  BY ZenonT(60), <1>2 DEF insertMailOutbox, GoProducer, job, sweeper, Sole, Claims, Bodies, Reads, Accepted, Statuses, Terminal
<1>3. CASE markNotificationEmailDispatched(p)
  BY ZenonT(60), <1>3 DEF markNotificationEmailDispatched, GoProducer, row, job, sweeper, Sole, Claims, Bodies, Reads, Accepted
<1>4. CASE ProducerFails(p)
  <2>1. /\ pat' = [pat EXCEPT ![p] = "idle"] /\ pmail' = [pmail EXCEPT ![p] = 1]
        /\ UNCHANGED <<row, calls, job, marker, sweeper, overdue>>
    BY Zenon, <1>4 DEF ProducerFails, EndProducer, GoProducer
  <2>2. pat' \in [Producers -> {"idle", "record", "mark", "dispatch"}] /\ pmail' \in [Producers -> Mails]
    BY <2>1
  <2>3. faults' \in 0..MaxFaults
    BY <1>4 DEF ProducerFails, Fault
  <2> QED
    BY Zenon, <2>1, <2>2, <2>3 DEF row, job, sweeper, Sole, Claims, Bodies, Reads, Accepted
<1> QED
  BY ZenonT(30), <1>1, <1>2, <1>3, <1>4

(* A new job holds nothing and has read nothing. *)
LEMMA EnqueueKeeps ==
    ASSUME IInv, NEW m \in Mails, enqueueMailOutboxJob(m), UNCHANGED <<row, calls, overdue>>
    PROVE  /\ Sole' /\ Claims' /\ Bodies' /\ Reads' /\ Accepted'
           /\ jat' \in [Jobs -> JobSteps] /\ jmail' \in [Jobs -> Mails]
<1> DEFINE j == CHOOSE k \in Free : TRUE
<1>1. j \in Jobs /\ jat[j] = "free"
  BY Zenon, FreeSlot DEF enqueueMailOutboxJob, Free
<1>2. jat' = [jat EXCEPT ![j] = "waiting"] /\ jmail' = [jmail EXCEPT ![j] = m] /\ seen' = seen
  BY Zenon DEF enqueueMailOutboxJob, Go
<1> HIDE DEF j
<1> QED
  BY <1>1, <1>2 DEF IInv, TypeOK, row, Sole, Claims, Bodies, Reads, Accepted, Holding, JobSteps

(* A job that leaves the queue leaves the others alone. *)
LEMMA JobLeaves ==
    ASSUME TypeOK, NEW j \in Jobs, Leave(j)
    PROVE  /\ jat' \in [Jobs -> JobSteps] /\ jmail' \in [Jobs -> Mails]
           /\ tries' \in [Jobs -> 0..(MaxAttempts - 1)] /\ stalls' \in [Jobs -> 0..1]
           /\ seen' \in [Jobs -> BOOLEAN] /\ err' \in [Jobs -> Errors]
           /\ jat'[j] = "free"
           /\ \A k \in Jobs \ {j} : jat'[k] = jat[k] /\ jmail'[k] = jmail[k] /\ seen'[k] = seen[k]
<1> DEFINE Tries == 0..(MaxAttempts - 1)
<1>1. 1 \in Mails /\ 0 \in Tries /\ 0 \in 0..1
  BY BoundsAssumption DEF Mails
<1> HIDE DEF Tries
<1>2. tries' \in [Jobs -> Tries]
  BY Zenon, <1>1 DEF TypeOK, Leave, Tries
<1>3. stalls' \in [Jobs -> 0..1]
  BY Zenon, <1>1 DEF TypeOK, Leave
<1>4. /\ jat' \in [Jobs -> JobSteps] /\ jmail' \in [Jobs -> Mails]
      /\ seen' \in [Jobs -> BOOLEAN] /\ err' \in [Jobs -> Errors]
  BY Zenon, <1>1 DEF TypeOK, Leave, Go, JobSteps, Errors
<1>5. /\ jat'[j] = "free"
      /\ \A k \in Jobs \ {j} : jat'[k] = jat[k] /\ jmail'[k] = jmail[k] /\ seen'[k] = seen[k]
  BY Zenon DEF TypeOK, Leave, Go
<1> QED
  BY Zenon, <1>2, <1>3, <1>4, <1>5 DEF Tries

(* Steps of the jobs. *)
LEMMA JobKeeps ==
    ASSUME IInv, NEW j \in Jobs, JobStep(j) \/ JobFault(j)
    PROVE  IInv'
<1> USE BoundsAssumption DEF IInv, TypeOK, Sole, Claims, Bodies, Reads, Accepted, Go, Fault,
        row, producer, sweeper, Holding, JobSteps, Statuses, Errors, Terminal
<1>1. CASE findMailOutboxById(j)
  <2>1. CASE Leave(j) /\ UNCHANGED <<row, calls, producer, sweeper, overdue, faults>>
    BY SMTT(60), <2>1, JobLeaves
  <2>2. CASE status[jmail[j]] # "absent"
    BY <1>1, <2>2 DEF findMailOutboxById
  <2> QED
    BY Zenon, <1>1, <2>1, <2>2 DEF findMailOutboxById
<1>2. CASE tryClaimPendingMailOutbox(j)
  BY <1>2 DEF tryClaimPendingMailOutbox
<1>3. CASE ClaimMissed(j)
  BY SMTT(60), <1>3, JobLeaves DEF ClaimMissed
<1>4. CASE ParseAddresses(j)
  BY <1>4 DEF ParseAddresses
<1>5. CASE sendEmail(j)
  BY <1>5 DEF sendEmail
<1>6. CASE markMailOutboxSent(j)
  BY SMTT(30), <1>6, JobLeaves DEF markMailOutboxSent
<1>7. CASE Catch(j)
  <2>1. CASE markMailOutboxFailed(jmail[j])
    BY SMTT(30), <1>7, <2>1 DEF Catch, markMailOutboxFailed
  <2>2. CASE releaseMailOutboxClaim(jmail[j])
    BY SMTT(30), <1>7, <2>2 DEF Catch, releaseMailOutboxClaim
  <2> QED
    BY Zenon, <1>7, <2>1, <2>2 DEF Catch
<1>8. CASE AttemptFails(j)
  <2>1. CASE Leave(j) /\ UNCHANGED <<row, calls, producer, sweeper, overdue, faults>>
    BY SMTT(60), <2>1, JobLeaves
  <2>2. CASE ~isFinalJobAttempt(j)
    <3>1. tries[j] + 1 \in 0..(MaxAttempts - 1) /\ tries' = [tries EXCEPT ![j] = @ + 1]
      BY <1>8, <2>2 DEF AttemptFails, isFinalJobAttempt
    <3>2. tries' \in [Jobs -> 0..(MaxAttempts - 1)]
      BY Zenon, <3>1
    <3>3. /\ jat' = [jat EXCEPT ![j] = "waiting"]
          /\ seen' = [seen EXCEPT ![j] = FALSE] /\ err' = [err EXCEPT ![j] = "none"]
          /\ UNCHANGED <<row, calls, producer, sweeper, overdue, faults, jmail, stalls>>
      BY Zenon, <1>8, <2>2 DEF AttemptFails
    <3>4. jat' \in [Jobs -> JobSteps] /\ seen' \in [Jobs -> BOOLEAN] /\ err' \in [Jobs -> Errors]
      BY Zenon, <3>3
    <3>5. Sole' /\ Claims' /\ Bodies' /\ Reads' /\ Accepted'
      BY <3>3
    <3> HIDE DEF Sole, Claims, Bodies, Reads, Accepted
    <3> QED
      BY Zenon, <3>2, <3>3, <3>4, <3>5
  <2> QED
    BY Zenon, <1>8, <2>1, <2>2 DEF AttemptFails
<1>9. CASE SendFails(j)
  BY <1>9 DEF SendFails
<1>10. CASE MarkSentFails(j)
  <2>1. CASE UNCHANGED row
    BY <1>10, <2>1 DEF MarkSentFails
  <2>2. CASE /\ status' = [status EXCEPT ![jmail[j]] = "sent"]
             /\ body' = [body EXCEPT ![jmail[j]] = FALSE]
             /\ unheard' = unheard \cup {jmail[j]}
             /\ UNCHANGED <<old, stale>>
    <3>1. /\ jat[j] = "mark" /\ jat' = [jat EXCEPT ![j] = "catch"]
          /\ err' = [err EXCEPT ![j] = "error"]
          /\ UNCHANGED <<calls, jmail, tries, stalls, seen, producer, sweeper, overdue>>
          /\ Fault
      BY Zenon, <1>10 DEF MarkSentFails, Go
    <3>2. faults' \in 0..MaxFaults
      BY <3>1
    <3>3. TypeOK'
      <4>1. status' \in [Mails -> Statuses]
        BY <2>2
      <4>2. body' \in [Mails -> BOOLEAN]
        BY <2>2
      <4>3. unheard' \subseteq Mails
        BY <2>2
      <4>4. jat' \in [Jobs -> JobSteps] /\ err' \in [Jobs -> Errors]
        BY Zenon, <3>1
      <4> HIDE DEF Statuses, JobSteps, Errors, Sole, Claims, Bodies, Reads, Accepted
      <4> QED
        BY Zenon, <2>2, <3>1, <3>2, <4>1, <4>2, <4>3, <4>4
    <3>4. Bodies' /\ Reads' /\ Accepted'
      BY SMTT(30), <2>2, <3>1
    <3>5. Sole' /\ Claims'
      BY SMTT(30), <2>2, <3>1
    <3> HIDE DEF Sole, Claims, Bodies, Reads, Accepted
    <3> QED
      BY Zenon, <3>3, <3>4, <3>5
  <2> QED
    BY Zenon, <1>10, <2>1, <2>2 DEF MarkSentFails
<1>11. CASE StatementFails(j)
  BY SMTT(30), <1>11 DEF StatementFails
<1>12. CASE Crash(j)
  <2>1. faults' \in 0..MaxFaults /\ UNCHANGED <<row, calls, producer, sweeper, overdue>>
    BY <1>12 DEF Crash
  <2>2. CASE Leave(j)
    <3>1. TypeOK'
      BY Zenon, <2>1, <2>2, JobLeaves
    <3>2. Sole' /\ Claims' /\ Bodies' /\ Reads' /\ Accepted'
      BY SMTT(60), <2>1, <2>2, JobLeaves
    <3> QED
      BY Zenon, <3>1, <3>2
  <2>3. CASE stalls[j] # 1
    <3>1. /\ jat' = [jat EXCEPT ![j] = "waiting"] /\ stalls' = [stalls EXCEPT ![j] = 1]
          /\ seen' = [seen EXCEPT ![j] = FALSE] /\ err' = [err EXCEPT ![j] = "none"]
          /\ UNCHANGED <<jmail, tries>>
      BY Zenon, <1>12, <2>3 DEF Crash
    <3>2. TypeOK'
      BY <2>1, <3>1
    <3>3. Sole' /\ Claims' /\ Bodies' /\ Reads' /\ Accepted'
      BY <2>1, <3>1
    <3> QED
      BY Zenon, <3>2, <3>3
  <2> QED
    BY Zenon, <1>12, <2>2, <2>3 DEF Crash
<1> QED
  BY Zenon, <1>1, <1>2, <1>3, <1>4, <1>5, <1>6, <1>7, <1>8, <1>9, <1>10, <1>11, <1>12 DEF JobStep, JobFault
(* Ageing, overruns and the sweeper. *)
LEMMA SweepKeeps ==
    ASSUME IInv, NEW m \in Mails,
           \/ Age(m) \/ Overrun(m) \/ reclaimStaleSendingMailOutboxIds
           \/ findStalePendingMailOutboxIds \/ SweepEnds \/ SweepCrashes
    PROVE  IInv'
<1> USE DEF IInv, TypeOK, Sole, Claims, Bodies, Reads, Accepted, job, producer, sweeper, Holding
<1>1. CASE Age(m)
  BY <1>1 DEF Age, Holders
<1>2. CASE Overrun(m)
  BY <1>2, BoundsAssumption DEF Overrun, Fault
<1>3. CASE reclaimStaleSendingMailOutboxIds
  <2>1. PICK ids \in SUBSET {k \in Mails : status[k] = "sending" /\ k \in stale} :
          /\ status' = [k \in Mails |-> IF k \in ids THEN "pending" ELSE status[k]]
          /\ stale' = stale \ ids
          /\ todo' = ids
          /\ room' = Batch - Cardinality(ids)
          /\ Cardinality(ids) = IF Cardinality({k \in Mails : status[k] = "sending" /\ k \in stale}) < Batch
                                THEN Cardinality({k \in Mails : status[k] = "sending" /\ k \in stale})
                                ELSE Batch
    BY ZenonT(30), <1>3 DEF reclaimStaleSendingMailOutboxIds
  <2>2. room' \in 0..Batch
    BY Zenon, <2>1, Room
  <2>3. sat' = "scan" /\ UNCHANGED <<body, old, unheard, calls, job, producer, overdue, faults>>
    BY Zenon, <1>3 DEF reclaimStaleSendingMailOutboxIds
  <2>4. TypeOK'
    <3>1. status' \in [Mails -> Statuses]
      <4>1. \A k \in Mails : (IF k \in ids THEN "pending" ELSE status[k]) \in Statuses
        <5>1. "pending" \in Statuses /\ \A k \in Mails : status[k] \in Statuses
          BY DEF Statuses
        <5> HIDE DEF IInv
        <5> QED
          BY Zenon, <5>1
      <4> HIDE DEF TypeOK, Sole, Claims, Bodies, Reads, Accepted
      <4> QED
        BY Zenon, <2>1, <4>1
    <3>2. stale' \subseteq Mails /\ todo' \subseteq Mails
      BY Zenon, <2>1
    <3> QED
      BY Zenon, <2>2, <2>3, <3>1, <3>2
  <2>5. Sole' /\ Claims' /\ Bodies' /\ Reads' /\ Accepted'
    BY SMTT(30), <2>1, <2>3 DEF Terminal
  <2> QED
    BY Zenon, <2>4, <2>5
<1>4. CASE findStalePendingMailOutboxIds
  <2>1. todo' \subseteq Mails /\ room' \in 0..Batch
    BY SMTT(30), <1>4, BoundsAssumption DEF findStalePendingMailOutboxIds
  <2>2. sat' = "enqueue" /\ UNCHANGED <<row, calls, job, producer, overdue, faults>>
    BY Zenon, <1>4 DEF findStalePendingMailOutboxIds
  <2> QED
    BY Zenon, <2>1, <2>2 DEF row
<1>5. CASE SweepEnds
  BY Zenon, <1>5 DEF SweepEnds, row
<1>6. CASE SweepCrashes
  BY <1>6, BoundsAssumption DEF SweepCrashes, Fault, row
<1> QED
  BY Zenon, <1>1, <1>2, <1>3, <1>4, <1>5, <1>6

(* The three places that add a job. *)
LEMMA AddKeeps ==
    ASSUME IInv, \/ \E p \in Producers : dispatchOutboxEmail(p)
                 \/ \E m \in Mails : Phantom(m)
                 \/ SweepEnqueue
    PROVE  IInv'
<1>1. ASSUME NEW p \in Producers, dispatchOutboxEmail(p) PROVE IInv'
  <2>1. /\ enqueueMailOutboxJob(pmail[p]) /\ pmail[p] \in Mails
        /\ UNCHANGED <<row, calls, marker, sweeper, overdue, faults, tries, stalls, seen, err>>
        /\ pat' = [pat EXCEPT ![p] = "idle"] /\ pmail' = [pmail EXCEPT ![p] = 1]
    BY Zenon, <1>1 DEF dispatchOutboxEmail, EndProducer, GoProducer, enqueueMailOutboxJob, IInv, TypeOK
  <2>2. /\ pat' \in [Producers -> {"idle", "record", "mark", "dispatch"}]
        /\ pmail' \in [Producers -> Mails]
    BY <2>1, BoundsAssumption DEF IInv, TypeOK, Mails
  <2> QED
    BY Zenon, <2>1, <2>2, EnqueueKeeps DEF IInv, TypeOK, row, sweeper
<1>2. ASSUME NEW m \in Mails, Phantom(m) PROVE IInv'
  <2>1. /\ enqueueMailOutboxJob(m) /\ faults' \in 0..MaxFaults
        /\ UNCHANGED <<row, calls, producer, sweeper, overdue, tries, stalls, seen, err>>
    BY <1>2, BoundsAssumption DEF Phantom, Fault, enqueueMailOutboxJob, IInv, TypeOK
  <2> QED
    BY Zenon, <2>1, EnqueueKeeps DEF IInv, TypeOK, row, producer, sweeper
<1>3. ASSUME SweepEnqueue PROVE IInv'
  <2>1. PICK m \in todo : /\ todo' = todo \ {m}
                          /\ \/ enqueueMailOutboxJob(m) /\ UNCHANGED faults
                             \/ Fault /\ UNCHANGED job
    BY Zenon, <1>3 DEF SweepEnqueue
  <2>2. m \in Mails /\ todo' \subseteq Mails /\ UNCHANGED <<row, calls, producer, sat, room, overdue>>
    BY Zenon, <1>3, <2>1 DEF SweepEnqueue, IInv, TypeOK
  <2>3. CASE enqueueMailOutboxJob(m) /\ UNCHANGED faults
    <3>1. UNCHANGED <<tries, stalls, seen, err>>
      BY Zenon, <2>3 DEF enqueueMailOutboxJob
    <3> QED
      BY Zenon, <2>2, <2>3, <3>1, EnqueueKeeps DEF IInv, TypeOK, row, producer
  <2>4. CASE Fault /\ UNCHANGED job
    <3>1. faults' \in 0..MaxFaults
      BY <2>4, BoundsAssumption DEF Fault, IInv, TypeOK
    <3> QED
      BY Zenon, <2>2, <2>4, <3>1 DEF IInv, TypeOK, row, job, producer, Sole, Claims, Bodies, Reads, Accepted
  <2> QED
    BY Zenon, <2>1, <2>3, <2>4
<1> QED
  BY Zenon, <1>1, <1>2, <1>3

LEMMA StepIInv == IInv /\ [Next]_vars => IInv'
<1> SUFFICES ASSUME IInv, [Next]_vars PROVE IInv'
  OBVIOUS
<1>1. CASE Next
  <2>1. Mails # {}
    BY SMTT(30), BoundsAssumption DEF Mails
  <2> QED
    BY Zenon, <1>1, <2>1, ProducerKeeps, JobKeeps, SweepKeeps, AddKeeps DEF Next, ProducerStep, Sweep
<1>2. CASE UNCHANGED vars
  BY Zenon, <1>2 DEF vars, row, job, producer, sweeper, IInv, TypeOK, Sole, Claims, Bodies, Reads, Accepted
<1> QED
  BY Zenon, <1>1, <1>2

-----------------------------------------------------------------------------
(* The account of a row. *)
Weighing == {"parse", "send", "catch"}
Engaged(m) == {j \in Jobs : jmail[j] = m /\ jat[j] \in Weighing}
Claimable(m) ==
    \/ status[m] \in {"absent", "pending"}
    \/ status[m] = "sending" /\ (m \in stale \/ Holders(m) = {})
Token(m) == IF Claimable(m) THEN 1 ELSE 0

\* Jobs need not be finite; the engaged ones are.
Account(m) ==
    /\ IsFiniteSet(Engaged(m))
    /\ calls[m] + Cardinality(Engaged(m)) + Token(m) <= 1 + faults

Accounts == \A m \in Mails : Account(m)

\* A step of job j on row m touches nothing of another row or job ...
Moves(j, m) ==
    /\ \A k \in Jobs \ {j} : jat'[k] = jat[k] /\ jmail'[k] = jmail[k]
    /\ jmail'[j] = m \/ jat'[j] = "free"
    /\ \A n \in Mails \ {m} :
           status'[n] = status[n] /\ calls'[n] = calls[n] /\ (n \in stale' <=> n \in stale)
    /\ faults' = faults \/ faults' = faults + 1

\* ... and what it weighed before is enough for what it weighs after, the call
\* it made and the claim it may have left behind, or a fault pays for it.
Weight(j) == IF jat[j] \in Weighing THEN 1 ELSE 0
Pays(j, m) ==
    calls'[m] + Weight(j)' + Token(m)' + faults <= calls[m] + Weight(j) + Token(m) + faults'

(* A step that engages nobody, calls nobody and makes no row claimable     *)
(* keeps the accounts; a fault pays for one row that becomes claimable.    *)
LEMMA AccountKept ==
    ASSUME TypeOK, TypeOK', Accounts, NEW m \in Mails,
           Engaged(m)' = Engaged(m), calls'[m] = calls[m],
           faults' = faults \/ faults' = faults + 1,
           Claimable(m)' => Claimable(m) \/ faults' = faults + 1
    PROVE  Account(m)'
<1>1. /\ IsFiniteSet(Engaged(m)) /\ calls[m] \in Nat /\ faults \in Nat
      /\ calls[m] + Cardinality(Engaged(m)) + Token(m) <= 1 + faults
  BY DEF Accounts, Account, TypeOK
<1>2. Cardinality(Engaged(m)) \in Nat
  BY Zenon, <1>1, FS_CardinalityType
<1>3. Cardinality(Engaged(m)') = Cardinality(Engaged(m))
  OBVIOUS
<1>4. Token(m) \in {0, 1} /\ Token(m)' \in {0, 1} /\ (Token(m)' = 1 => Token(m) = 1 \/ faults' = faults + 1)
  BY Zenon DEF Token
<1>5. calls'[m] + Cardinality(Engaged(m)') + Token(m)' <= 1 + faults'
  BY <1>1, <1>2, <1>3, <1>4
<1> QED
  BY Zenon, <1>1, <1>5 DEF Account

(* What a job that moves does to the sets: only those of its own row       *)
(* change, and only by the job itself.                                     *)
LEMMA JobMoves ==
    ASSUME TypeOK, TypeOK', NEW j \in Jobs, NEW m \in Mails, jmail[j] = m,
           \A k \in Jobs \ {j} : jat'[k] = jat[k] /\ jmail'[k] = jmail[k],
           jmail'[j] = m \/ jat'[j] = "free"
    PROVE  /\ \A n \in Mails \ {m} : Engaged(n)' = Engaged(n) /\ Holders(n)' = Holders(n)
           /\ jat'[j] \in Weighing => Engaged(m)' = Engaged(m) \cup {j}
           /\ jat'[j] \notin Weighing => Engaged(m)' = Engaged(m) \ {j}
           /\ jat'[j] \in Holding => Holders(m)' # {}
           /\ jat[j] \notin Holding /\ Holders(m)' = {} => Holders(m) = {}
<1>1. ASSUME NEW n \in Mails \ {m}
      PROVE  Engaged(n)' = Engaged(n) /\ Holders(n)' = Holders(n)
  <2>1. \A k \in Jobs : (jmail'[k] = n /\ jat'[k] \in Weighing) <=> (jmail[k] = n /\ jat[k] \in Weighing)
    BY Zenon, <1>1 DEF Weighing
  <2>2. \A k \in Jobs : (jmail'[k] = n /\ jat'[k] \in Holding) <=> (jmail[k] = n /\ jat[k] \in Holding)
    BY Zenon, <1>1 DEF Holding
  <2> QED
    BY Zenon, <2>1, <2>2 DEF Engaged, Holders
<1>2. jat'[j] \in Weighing => Engaged(m)' = Engaged(m) \cup {j}
  <2>1. jat'[j] \in Weighing => jmail'[j] = m
    BY Zenon DEF Weighing
  <2> QED
    BY Zenon, <2>1 DEF Engaged
<1>3. jat'[j] \notin Weighing => Engaged(m)' = Engaged(m) \ {j}
  BY Zenon DEF Engaged
<1>4. jat'[j] \in Holding => Holders(m)' # {}
  BY Zenon DEF Holders, Holding
<1>5. jat[j] \notin Holding /\ Holders(m)' = {} => Holders(m) = {}
  BY Zenon DEF Holders
<1> QED
  BY Zenon, <1>1, <1>2, <1>3, <1>4, <1>5

(* A job that moves and pays keeps every account. *)
LEMMA AccountOfJob ==
    ASSUME TypeOK, TypeOK', Accounts, NEW j \in Jobs, NEW m \in Mails, jmail[j] = m,
           Moves(j, m), Pays(j, m)
    PROVE  Accounts'
<1>1. /\ \A n \in Mails \ {m} : Engaged(n)' = Engaged(n) /\ Holders(n)' = Holders(n)
      /\ jat'[j] \in Weighing => Engaged(m)' = Engaged(m) \cup {j}
      /\ jat'[j] \notin Weighing => Engaged(m)' = Engaged(m) \ {j}
  BY Zenon, JobMoves DEF Moves
<1>2. ASSUME NEW n \in Mails \ {m} PROVE Account(n)'
  <2>1. Claimable(n)' => Claimable(n)
    BY Zenon, <1>1, <1>2 DEF Claimable, Moves
  <2> QED
    BY Zenon, <1>1, <1>2, <2>1, AccountKept DEF Moves
<1>3. Account(m)'
  <2>1. /\ IsFiniteSet(Engaged(m)) /\ calls[m] \in Nat /\ faults \in Nat /\ calls'[m] \in Nat
        /\ calls[m] + Cardinality(Engaged(m)) + Token(m) <= 1 + faults
    BY DEF Accounts, Account, TypeOK
  <2>2. jat[j] \in Weighing <=> j \in Engaged(m)
    BY Zenon DEF Engaged
  <2>3. /\ Cardinality(Engaged(m)) \in Nat /\ IsFiniteSet(Engaged(m)')
        /\ Cardinality(Engaged(m)') = Cardinality(Engaged(m)) + Weight(j)' - Weight(j)
    <3> DEFINE S == Engaged(m)
               T == Engaged(m)'
    <3>1. IsFiniteSet(S) /\ Weight(j) = IF j \in S THEN 1 ELSE 0
      BY Zenon, <2>1, <2>2 DEF Weight
    <3>2. \/ T = S \cup {j} /\ Weight(j)' = 1
          \/ T = S \ {j} /\ Weight(j)' = 0
      BY Zenon, <1>1 DEF Weight
    <3> HIDE DEF S, T
    <3>3. Cardinality(S) \in Nat
      BY Zenon, <3>1, FS_CardinalityType
    <3>4. CASE T = S \cup {j} /\ Weight(j)' = 1
      <4>1. IsFiniteSet(S \cup {j}) /\ Cardinality(S \cup {j}) = IF j \in S THEN Cardinality(S) ELSE Cardinality(S) + 1
        BY Zenon, <3>1, FS_AddElement
      <4>2. IsFiniteSet(T) /\ Cardinality(T) = IF j \in S THEN Cardinality(S) ELSE Cardinality(S) + 1
        BY Zenon, <3>4, <4>1
      <4>3. Cardinality(T) = Cardinality(S) + Weight(j)' - Weight(j)
        BY <3>1, <3>3, <3>4, <4>2
      <4> QED
        BY Zenon, <3>3, <4>2, <4>3 DEF S, T
    <3>5. CASE T = S \ {j} /\ Weight(j)' = 0
      <4>1. IsFiniteSet(S \ {j}) /\ Cardinality(S \ {j}) = IF j \in S THEN Cardinality(S) - 1 ELSE Cardinality(S)
        BY Zenon, <3>1, FS_RemoveElement
      <4>2. IsFiniteSet(T) /\ Cardinality(T) = IF j \in S THEN Cardinality(S) - 1 ELSE Cardinality(S)
        BY Zenon, <3>5, <4>1
      <4>3. Cardinality(T) = Cardinality(S) + Weight(j)' - Weight(j)
        BY <3>1, <3>3, <3>5, <4>2
      <4> QED
        BY Zenon, <3>3, <4>2, <4>3 DEF S, T
    <3> QED
      BY Zenon, <3>2, <3>4, <3>5
  <2>4. Token(m) \in {0, 1} /\ Token(m)' \in {0, 1}
    BY Zenon DEF Token
  <2>6. Weight(j) \in {0, 1} /\ Weight(j)' \in {0, 1} /\ faults' \in Nat
    BY DEF Weight, TypeOK
  <2>5. calls'[m] + Cardinality(Engaged(m)') + Token(m)' <= 1 + faults'
    BY <2>1, <2>3, <2>4, <2>6 DEF Pays
  <2> QED
    BY Zenon, <2>3, <2>5 DEF Account
<1> QED
  BY Zenon, <1>2, <1>3 DEF Accounts

(* The steps of a job keep the accounts. *)
LEMMA JobAccounts ==
    ASSUME TypeOK, TypeOK', Accounts, NEW j \in Jobs, JobStep(j) \/ JobFault(j)
    PROVE  Accounts'
<1> SUFFICES ASSUME NEW m \in Mails, jmail[j] = m PROVE Accounts'
  BY Zenon DEF TypeOK
<1> DEFINE Same == status'[m] = status[m] /\ calls'[m] = calls[m] /\ (m \in stale' <=> m \in stale)
           Faulted == faults' = faults + 1
           Claim == /\ jat[j] = "claim" /\ jat'[j] = "parse" /\ m \notin stale'
                    /\ status[m] = "pending" /\ status'[m] = "sending" /\ calls'[m] = calls[m]
           Idle == jat[j] \in {"parse", "catch"} \/ jat[j] \notin Holding \/ Faulted
           Drop == jat'[j] \notin Holding /\ Same /\ Idle
           Parse == jat[j] = "parse" /\ jat'[j] = "send" /\ Same
           Send == /\ jat[j] = "send" /\ jat'[j] = "mark" /\ calls'[m] = calls[m] + 1
                   /\ status'[m] = status[m] /\ (m \in stale' <=> m \in stale)
           Lost == /\ jat[j] = "send" /\ jat'[j] = "catch" /\ calls'[m] \in {calls[m], calls[m] + 1}
                   /\ status'[m] = status[m] /\ (m \in stale' <=> m \in stale) /\ Faulted
           Unmarked == /\ jat[j] = "mark" /\ jat'[j] = "catch" /\ calls'[m] = calls[m]
                       /\ status'[m] \in {status[m], "sent"} /\ (m \in stale' <=> m \in stale) /\ Faulted
           Mark == jat[j] = "mark" /\ jat'[j] = "free" /\ status'[m] = "sent" /\ calls'[m] = calls[m]
           Caught == jat[j] = "catch" /\ jat'[j] = "throw" /\ calls'[m] = calls[m]
<1>1. ASSUME Moves(j, m),
             Claim \/ Drop \/ Parse \/ Send \/ Lost \/ Unmarked \/ Mark \/ Caught
      PROVE  Accounts'
  <2>1. /\ jat'[j] \in Holding => Holders(m)' # {}
        /\ jat[j] \notin Holding /\ Holders(m)' = {} => Holders(m) = {}
    BY Zenon, <1>1, JobMoves DEF Moves
  <2>2. calls[m] \in Nat /\ faults \in Nat
    BY DEF TypeOK
  <2>3. Token(m) \in {0, 1} /\ Token(m)' \in {0, 1} /\ Weight(j) \in {0, 1} /\ Weight(j)' \in {0, 1}
    BY Zenon DEF Token, Weight
  <2>4. faults' = faults \/ Faulted
    BY Zenon, <1>1 DEF Moves
  <2>8. Claim => Pays(j, m)
    <3>1. Claim => Holders(m)' # {}
      BY Zenon, <2>1 DEF Holding
    <3>2. Claim => Token(m) = 1 /\ Token(m)' = 0
      BY Zenon, <3>1 DEF Token, Claimable
    <3>3. Claim => Weight(j) = 0 /\ Weight(j)' = 1
      BY Zenon DEF Weight, Weighing
    <3>4. Claim => calls'[m] = calls[m]
      OBVIOUS
    <3> HIDE DEF Claim
    <3> QED
      BY SMTT(20), <2>2, <2>4, <3>2, <3>3, <3>4 DEF Pays
  <2>9. Drop => Pays(j, m)
    <3>1. Drop /\ ~Faulted => Weight(j)' = 0 /\ Weight(j) + Token(m) >= Token(m)'
      BY SMTT(20), <2>1, <2>3 DEF Token, Claimable, Weight, Weighing, Holding
    <3>2. Drop => Weight(j)' = 0
      BY Zenon DEF Weight, Weighing, Holding
    <3> QED
      BY SMTT(20), <2>2, <2>3, <2>4, <3>1, <3>2 DEF Pays
  <2>5. Parse \/ Send \/ Lost \/ Unmarked => Token(m)' <= Token(m)
    <3>1. Parse \/ Send \/ Lost \/ Unmarked => jat'[j] \in Holding
      BY Zenon DEF Holding
    <3>2. (Parse \/ Send \/ Lost \/ Unmarked) /\ Claimable(m)' => Claimable(m)
      BY Zenon, <2>1, <3>1 DEF Claimable
    <3> HIDE DEF Parse, Send, Lost, Unmarked
    <3> QED
      BY SMTT(20), <3>2 DEF Token
  <2>6. /\ Parse => Weight(j) = 1 /\ Weight(j)' = 1 /\ calls'[m] = calls[m]
        /\ Send => Weight(j) = 1 /\ Weight(j)' = 0 /\ calls'[m] = calls[m] + 1
        /\ Lost => Weight(j) = 1 /\ Weight(j)' = 1 /\ calls'[m] \in {calls[m], calls[m] + 1} /\ Faulted
        /\ Unmarked => Weight(j) = 0 /\ Weight(j)' = 1 /\ calls'[m] = calls[m] /\ Faulted
        /\ Mark => Weight(j) = 0 /\ Weight(j)' = 0 /\ calls'[m] = calls[m]
        /\ Caught => Weight(j) = 1 /\ Weight(j)' = 0 /\ calls'[m] = calls[m]
    BY Zenon DEF Weight, Weighing
  <2>7. Mark => Token(m)' = 0
    BY Zenon DEF Token, Claimable
  <2>10. Parse \/ Send \/ Lost \/ Unmarked \/ Mark \/ Caught => Pays(j, m)
    <3> HIDE DEF Parse, Send, Lost, Unmarked, Mark, Caught
    <3> QED
      BY SMTT(20), <2>2, <2>3, <2>4, <2>5, <2>6, <2>7 DEF Pays
  <2> QED
    BY Zenon, <1>1, AccountOfJob, <2>8, <2>9, <2>10
<1>2. CASE findMailOutboxById(j)
  <2>1. /\ \A k \in Jobs \ {j} : jat'[k] = jat[k] /\ jmail'[k] = jmail[k]
        /\ jat'[j] \in {"free", "claim", "waiting"} /\ (jmail'[j] = m \/ jat'[j] = "free")
    BY <1>2 DEF findMailOutboxById, Leave, Go, TypeOK
  <2>2. UNCHANGED <<status, stale, calls>> /\ faults' = faults
    BY Zenon, <1>2 DEF findMailOutboxById, row
  <2>3. Moves(j, m)
    BY Zenon, <2>1, <2>2 DEF Moves
  <2>4. Drop
    BY Zenon, <1>2, <2>1, <2>2 DEF findMailOutboxById, Holding
  <2> QED
    BY Zenon, <1>1, <2>3, <2>4
<1>3. CASE tryClaimPendingMailOutbox(j)
  BY <1>1, <1>3 DEF tryClaimPendingMailOutbox, Go, Moves, Holding, TypeOK, row
<1>4. CASE ClaimMissed(j)
  BY Zenon, <1>1, <1>4 DEF ClaimMissed, Leave, Go, Moves, Holding, TypeOK, row
<1>5. CASE ParseAddresses(j)
  BY Zenon, <1>1, <1>5 DEF ParseAddresses, Go, Moves, Holding, TypeOK, row
<1>6. CASE sendEmail(j)
  BY Zenon, <1>1, <1>6 DEF sendEmail, Go, Moves, Holding, TypeOK, row
<1>7. CASE markMailOutboxSent(j)
  BY Zenon, <1>1, <1>7 DEF markMailOutboxSent, Leave, Go, Moves, Holding, TypeOK, row
<1>8. CASE Catch(j)
  BY <1>1, <1>8 DEF Catch, markMailOutboxFailed, releaseMailOutboxClaim, Go, Moves, Holding, TypeOK, row
<1>9. CASE AttemptFails(j)
  <2>1. /\ \A k \in Jobs \ {j} : jat'[k] = jat[k] /\ jmail'[k] = jmail[k]
        /\ jat'[j] \in {"free", "claim", "waiting"} /\ (jmail'[j] = m \/ jat'[j] = "free")
    BY <1>9 DEF AttemptFails, Leave, Go, TypeOK
  <2>2. UNCHANGED <<status, stale, calls>> /\ faults' = faults
    BY Zenon, <1>9 DEF AttemptFails, row
  <2>3. Moves(j, m)
    BY Zenon, <2>1, <2>2 DEF Moves
  <2>4. Drop
    BY Zenon, <1>9, <2>1, <2>2 DEF AttemptFails, Holding
  <2> QED
    BY Zenon, <1>1, <2>3, <2>4
<1>10. CASE SendFails(j)
  <2>1. jat[j] = "send" /\ jat' = [jat EXCEPT ![j] = "catch"] /\ UNCHANGED <<status, stale, jmail>> /\ Faulted
    BY Zenon, <1>10 DEF SendFails, Fault, Go, row
  <2>2. PICK accepted \in {0, 1} : calls' = [calls EXCEPT ![m] = @ + accepted]
    BY Zenon, <1>10 DEF SendFails
  <2>3. Moves(j, m)
    BY Zenon, <2>1, <2>2 DEF Moves, TypeOK
  <2>4. Lost
    BY <2>1, <2>2 DEF TypeOK
  <2> QED
    BY Zenon, <1>1, <2>3, <2>4
<1>11. CASE MarkSentFails(j)
  <2>1. jat[j] = "mark" /\ jat' = [jat EXCEPT ![j] = "catch"] /\ UNCHANGED <<stale, jmail, calls>> /\ Faulted
    BY Zenon, <1>11 DEF MarkSentFails, Fault, Go, row
  <2>2. status' = status \/ status' = [status EXCEPT ![m] = "sent"]
    BY Zenon, <1>11 DEF MarkSentFails, row
  <2>3. Moves(j, m)
    BY ZenonT(30), <2>1, <2>2 DEF Moves, TypeOK
  <2>4. Unmarked
    BY Zenon, <2>1, <2>2 DEF TypeOK
  <2> QED
    BY Zenon, <1>1, <2>3, <2>4
<1>12. CASE StatementFails(j)
  BY Zenon, <1>1, <1>12 DEF StatementFails, Fault, Go, Moves, Holding, TypeOK, row
<1>13. CASE Crash(j)
  <2>1. /\ \A k \in Jobs \ {j} : jat'[k] = jat[k] /\ jmail'[k] = jmail[k]
        /\ jat'[j] \in {"free", "claim", "waiting"} /\ (jmail'[j] = m \/ jat'[j] = "free")
    BY <1>13 DEF Crash, Leave, Go, TypeOK
  <2>2. UNCHANGED <<status, stale, calls>> /\ faults' = faults + 1
    BY Zenon, <1>13 DEF Crash, Fault, row
  <2>3. Moves(j, m)
    BY Zenon, <2>1, <2>2 DEF Moves
  <2>4. Drop
    BY Zenon, <1>13, <2>1, <2>2 DEF Crash, Holding
  <2> QED
    BY Zenon, <1>1, <2>3, <2>4
<1> QED
  BY Zenon, <1>2, <1>3, <1>4, <1>5, <1>6, <1>7, <1>8, <1>9, <1>10, <1>11, <1>12, <1>13 DEF JobStep, JobFault

(* A step that engages no job and makes no row claimable, but for a fault. *)
LEMMA OtherAccounts ==
    ASSUME TypeOK, TypeOK', Accounts, calls' = calls,
           faults' = faults \/ faults' = faults + 1,
           \A n \in Mails :
               /\ Engaged(n)' = Engaged(n) /\ Holders(n)' = Holders(n)
               /\ Claimable(n)' => Claimable(n) \/ faults' = faults + 1
    PROVE  Accounts'
  BY Zenon, AccountKept DEF Accounts

(* A new job is neither engaged nor a holder. *)
LEMMA EnqueueEngagesNone ==
    ASSUME TypeOK, NEW m \in Mails, enqueueMailOutboxJob(m)
    PROVE  \A n \in Mails : Engaged(n)' = Engaged(n) /\ Holders(n)' = Holders(n)
<1> DEFINE j == CHOOSE k \in Free : TRUE
<1>1. j \in Jobs /\ jat[j] = "free"
  BY Zenon, FreeSlot DEF enqueueMailOutboxJob, Free
<1>2. jat' = [jat EXCEPT ![j] = "waiting"] /\ jmail' = [jmail EXCEPT ![j] = m]
  BY Zenon DEF enqueueMailOutboxJob, Go
<1> HIDE DEF j
<1>3. \A k \in Jobs : \/ jat'[k] = jat[k] /\ jmail'[k] = jmail[k]
                      \/ jat[k] = "free" /\ jat'[k] = "waiting"
  BY Zenon, <1>1, <1>2 DEF TypeOK
<1> QED
  BY Zenon, <1>3 DEF Engaged, Holders, Weighing, Holding

(* Every step keeps the accounts. *)
LEMMA StepAccounts == TypeOK /\ TypeOK' /\ Accounts /\ [Next]_vars => Accounts'
<1> SUFFICES ASSUME TypeOK, TypeOK', Accounts, [Next]_vars PROVE Accounts'
  OBVIOUS
<1>1. ASSUME NEW m \in Mails, enqueueMailOutboxJob(m), UNCHANGED <<row, calls>>,
             faults' = faults \/ faults' = faults + 1
      PROVE  Accounts'
  <2>1. \A n \in Mails : Engaged(n)' = Engaged(n) /\ Holders(n)' = Holders(n)
    BY Zenon, <1>1, EnqueueEngagesNone
  <2>2. \A n \in Mails : Claimable(n)' => Claimable(n)
    BY Zenon, <1>1, <2>1 DEF Claimable, row
  <2> QED
    BY Zenon, <1>1, <2>1, <2>2, OtherAccounts
<1>2. ASSUME UNCHANGED job, calls' = calls, faults' = faults \/ faults' = faults + 1,
             \A n \in Mails : Claimable(n)' => Claimable(n) \/ faults' = faults + 1
      PROVE  Accounts'
  <2>1. \A n \in Mails : Engaged(n)' = Engaged(n) /\ Holders(n)' = Holders(n)
    BY Zenon, <1>2 DEF Engaged, Holders, job
  <2> QED
    BY Zenon, <1>2, <2>1, OtherAccounts
<1>3. ASSUME UNCHANGED <<job, row, calls>>, faults' = faults \/ faults' = faults + 1
      PROVE  Accounts'
  <2>1. \A n \in Mails : Claimable(n)' => Claimable(n)
    BY Zenon, <1>3 DEF Claimable, Holders, row, job
  <2> QED
    BY Zenon, <1>2, <1>3, <2>1
<1>4. ASSUME NEW p \in Producers, NEW m \in Mails, Produce(p, m) PROVE Accounts'
  BY Zenon, <1>3, <1>4 DEF Produce
<1>5. ASSUME NEW p \in Producers, insertMailOutbox(p) PROVE Accounts'
  <2>1. \A n \in Mails : Claimable(n)' => Claimable(n)
    BY Zenon, <1>5 DEF insertMailOutbox, Claimable, Holders, job, TypeOK
  <2> QED
    BY Zenon, <1>2, <1>5, <2>1 DEF insertMailOutbox
<1>6. ASSUME NEW p \in Producers, markNotificationEmailDispatched(p) \/ ProducerFails(p) PROVE Accounts'
  BY Zenon, <1>3, <1>6 DEF markNotificationEmailDispatched, ProducerFails, Fault
<1>7. ASSUME NEW p \in Producers, dispatchOutboxEmail(p) PROVE Accounts'
  BY Zenon, <1>1, <1>7 DEF dispatchOutboxEmail, TypeOK
<1>8. ASSUME NEW m \in Mails, Phantom(m) PROVE Accounts'
  BY Zenon, <1>1, <1>8 DEF Phantom, Fault
<1>9. ASSUME NEW m \in Mails, Age(m) PROVE Accounts'
  <2>1. \A n \in Mails : Claimable(n)' => Claimable(n)
    <3>1. UNCHANGED <<status, jat, jmail>>
      BY Zenon, <1>9 DEF Age, job
    <3>2. \A n \in Mails : Holders(n)' = Holders(n)
      BY Zenon, <3>1 DEF Holders
    <3>3. stale' = stale \/ (stale' = stale \cup {m} /\ Holders(m) = {})
      BY Zenon, <1>9 DEF Age
    <3> QED
      BY Zenon, <3>1, <3>2, <3>3 DEF Claimable
  <2> QED
    BY Zenon, <1>2, <1>9, <2>1 DEF Age
<1>10. ASSUME NEW m \in Mails, Overrun(m) PROVE Accounts'
  BY Zenon, <1>2, <1>10 DEF Overrun, Fault
<1>11. ASSUME reclaimStaleSendingMailOutboxIds PROVE Accounts'
  <2>1. \A n \in Mails : Claimable(n)' => Claimable(n)
    <3>1. PICK ids \in SUBSET {k \in Mails : status[k] = "sending" /\ k \in stale} :
            /\ status' = [k \in Mails |-> IF k \in ids THEN "pending" ELSE status[k]]
            /\ stale' = stale \ ids
      BY ZenonT(30), <1>11 DEF reclaimStaleSendingMailOutboxIds
    <3>2. UNCHANGED job
      BY Zenon, <1>11 DEF reclaimStaleSendingMailOutboxIds
    <3> QED
      BY Zenon, <3>1, <3>2 DEF Claimable, Holders, job
  <2> QED
    BY Zenon, <1>2, <1>11, <2>1 DEF reclaimStaleSendingMailOutboxIds
<1>12. ASSUME findStalePendingMailOutboxIds \/ SweepEnds \/ SweepCrashes PROVE Accounts'
  BY Zenon, <1>3, <1>12 DEF findStalePendingMailOutboxIds, SweepEnds, SweepCrashes, Fault
<1>13. ASSUME SweepEnqueue PROVE Accounts'
  <2>1. PICK m \in Mails : \/ enqueueMailOutboxJob(m) /\ UNCHANGED faults
                           \/ Fault /\ UNCHANGED job
    BY Zenon, <1>13 DEF SweepEnqueue, TypeOK
  <2>2. UNCHANGED <<row, calls>>
    BY Zenon, <1>13 DEF SweepEnqueue
  <2> QED
    BY Zenon, <1>1, <1>3, <2>1, <2>2 DEF Fault
<1>14. CASE UNCHANGED vars
  BY Zenon, <1>3, <1>14 DEF vars
<1> QED
  BY Zenon, <1>4, <1>5, <1>6, <1>7, <1>8, <1>9, <1>10, <1>11, <1>12, <1>13, <1>14, JobAccounts
     DEF Next, ProducerStep, Sweep

(* No job is engaged at the start, and every row may be claimed once. *)
LEMMA InitAccounts == Init => Accounts
<1> SUFFICES ASSUME Init, NEW m \in Mails PROVE Account(m)
  BY Zenon DEF Accounts
<1>1. Engaged(m) = {} /\ calls[m] = 0 /\ faults = 0
  BY Zenon DEF Init, Engaged, Weighing
<1>2. IsFiniteSet(Engaged(m)) /\ Cardinality(Engaged(m)) = 0
  BY Zenon, <1>1, FS_EmptySet
<1> QED
  BY <1>1, <1>2 DEF Account, Token

-----------------------------------------------------------------------------
(* The inductive invariant holds in every reachable state. *)
THEOREM Invariance == Spec => []IInv
  BY InitIInv, StepIInv, PTL DEF Spec

(* Type correctness: a job never exceeds MAIL_QUEUE_MAX_ATTEMPTS and a     *)
(* sweep never exceeds its batch.                                          *)
THEOREM TypeCorrect == Spec => []TypeOK
<1>1. IInv => TypeOK
  BY Zenon DEF IInv
<1> QED
  BY <1>1, Invariance, PTL

(* The claim of tryClaimPendingMailOutbox is exclusive as long as no       *)
(* delivery outlasts the reclaim cutoff, for any number of duplicate jobs. *)
THEOREM SendersAreExclusive == Spec => []OneSenderPerRow
<1>1. IInv => OneSenderPerRow
  BY Zenon DEF IInv, Sole, OneSenderPerRow, Holders
<1> QED
  BY <1>1, Invariance, PTL

(* processMailOutboxJob never sends a scrubbed body although it reads the  *)
(* row before it claims it, overdue deliveries included.                   *)
THEOREM NoEmptyEmail == Spec => []BodyIsIntact
<1>1. IInv => BodyIsIntact
  BY Zenon DEF IInv, Reads, BodyIsIntact
<1> QED
  BY <1>1, Invariance, PTL

(* Each call to Resend for a row beyond the first is paid for by a fault:  *)
(* a crash, a lost answer, a failed statement or an overdue delivery.      *)
(* Duplicate jobs, sweeps and reclaims alone never make one.               *)
THEOREM CallsNeedFaults == Spec => []SecondCallNeedsFault
<1>1. TypeOK /\ Accounts => SecondCallNeedsFault
  <2> SUFFICES ASSUME TypeOK, Accounts, NEW m \in Mails PROVE calls[m] <= 1 + faults
    BY Zenon DEF SecondCallNeedsFault
  <2>1. /\ IsFiniteSet(Engaged(m)) /\ calls[m] \in Nat /\ faults \in Nat
        /\ calls[m] + Cardinality(Engaged(m)) + Token(m) <= 1 + faults
    BY DEF Accounts, Account, TypeOK
  <2>2. Cardinality(Engaged(m)) \in Nat /\ Token(m) \in {0, 1}
    BY Zenon, <2>1, FS_CardinalityType DEF Token
  <2> QED
    BY <2>1, <2>2
<1> QED
  BY <1>1, InitAccounts, StepAccounts, TypeCorrect, PTL DEF Spec

(* A row markMailOutboxSent finalised was accepted by Resend and is never  *)
(* given another status, as long as no delivery was overdue and the worker *)
(* that marked it heard of it.                                             *)
THEOREM SentStays == Spec => SentIsFinal
<1> DEFINE Kept == \A m \in Mails :
                     status[m] = "sent" =>
                       /\ calls[m] > 0
                       /\ ~overdue /\ m \notin unheard => status'[m] = "sent"
<1>1. IInv /\ [Next]_vars => [Kept]_vars
  <2>1. \A m \in Mails : IInv /\ status[m] = "sent" => calls[m] > 0
    BY Zenon DEF IInv, Accepted
  <2> SUFFICES ASSUME IInv, Next, NEW m \in Mails, status[m] = "sent", ~overdue, m \notin unheard
               PROVE  status'[m] = "sent"
    BY Zenon, <2>1 DEF Kept
  <2> USE DEF IInv, TypeOK, row
  <2>2. ASSUME NEW p \in Producers, ProducerStep(p) \/ ProducerFails(p) \/ \E k \in Mails : Produce(p, k)
        PROVE  status'[m] = "sent"
    BY Zenon, <2>2 DEF ProducerStep, ProducerFails, Produce, insertMailOutbox,
                markNotificationEmailDispatched, dispatchOutboxEmail
  <2>3. ASSUME NEW j \in Jobs, JobStep(j) PROVE status'[m] = "sent"
    <3>1. jat[j] \in Holding => jmail[j] # m
      BY Zenon DEF Claims
    <3> QED
      BY Zenon, <2>3, <3>1 DEF JobStep, findMailOutboxById, tryClaimPendingMailOutbox, ClaimMissed, ParseAddresses,
           sendEmail, markMailOutboxSent, Catch, AttemptFails, markMailOutboxFailed, releaseMailOutboxClaim, Holding
  <2>4. ASSUME NEW j \in Jobs, JobFault(j) PROVE status'[m] = "sent"
    BY Zenon, <2>4 DEF JobFault, SendFails, MarkSentFails, StatementFails, Crash
  <2>5. ASSUME Sweep \/ SweepCrashes \/ \E k \in Mails : Phantom(k) \/ Age(k) \/ Overrun(k)
        PROVE  status'[m] = "sent"
    BY ZenonT(30), <2>5 DEF Sweep, SweepCrashes, Phantom, Age, Overrun, reclaimStaleSendingMailOutboxIds,
                findStalePendingMailOutboxIds, SweepEnqueue, SweepEnds
  <2> QED
    BY Zenon, <2>2, <2>3, <2>4, <2>5 DEF Next
<1> QED
  BY <1>1, Invariance, PTL DEF Spec, SentIsFinal
=============================================================================
