------------------------ MODULE CommitDispatchProofs ------------------------
(***************************************************************************)
(* Proofs about CommitDispatch for any number of requests, tasks and       *)
(* faults.  The strengthening says whose tasks an agent holds (Lists), that *)
(* an agent past the execution of a task is entitled to remove it (Done),  *)
(* and that, unless a request was slow, whoever works on the list of a     *)
(* request does so when the request appends no more (Over), so that a list *)
(* found empty stays empty until it is deleted (Emptied).                  *)
(*                                                                         *)
(* The outcomes of a task are bounded by an account: what it came to so    *)
(* far and the places from which it may still be executed without a fault. *)
(***************************************************************************)
EXTENDS CommitDispatch, WellFoundedInduction, TLAPS

(* A nonempty set of natural numbers has a least element: the fact behind  *)
(* every list that is worked off from its oldest entry.                    *)
LEMMA LeastNat ==
    ASSUME NEW N \in SUBSET Nat, N # {}
    PROVE  \E n \in N : \A k \in N : n <= k
<1> DEFINE R == OpToRel(<, Nat)
<1>1. PICK n \in N : \A k \in N : ~(<<k, n>> \in R)
  <2>1. IsWellFoundedOn(R, Nat)
    BY Zenon, NatLessThanWellFounded
  <2> HIDE DEF R
  <2> QED
    BY Zenon, <2>1, WFMin
<1>2. ASSUME NEW k \in N, k < n PROVE FALSE
  <2>1. <<k, n>> \in R
    BY Zenon, <1>2 DEF OpToRel
  <2> HIDE DEF R
  <2> QED
    BY Zenon, <1>1, <2>1
<1> HIDE DEF R
<1> QED
  BY <1>1, <1>2

Ended(r) == rat[r] \in {"done", "dead"}

Lists ==
    /\ pend \subseteq sched /\ mem \subseteq sched /\ durable \subseteq sched
    /\ \A a \in Agents : \A t \in todo[a] : t \in sched /\ t[1] = req[a]
    /\ \A a \in Agents : at[a] \in {"idle", "consume", "zrem", "memory"} => todo[a] = {}
    /\ \A a \in Agents : at[a] \in {"exec", "lrem", "llen", "del"} => cur[a] \in sched /\ cur[a][1] = req[a]

Rows ==
    /\ \A t \in Tasks : jobs[t] > 0 => t \in sched
    /\ \A t \in sched : row[t] # "none"
    /\ \A t \in Tasks : row[t] = "open" => rat[t[1]] = "run"

Flushes ==
    \A r \in Requests : req[r] = r /\ (at[r] # "idle" => rat[r] = "flush")

Done ==
    \A a \in Agents : at[a] \in {"lrem", "llen", "del"} => cur[a] \in handled

Over ==
    ~slow =>
        /\ \A r \in old \cup stale : Ended(r)
        /\ at[Recovery] # "idle" => Ended(req[Recovery])

Emptied ==
    ~slow => \A a \in Agents : at[a] \in {"zrem", "del"} =>
        \A t \in durable : t[1] = req[a] => t \in handled

IInv ==
    /\ TypeOK /\ Lists /\ Rows /\ Flushes /\ Done /\ Over /\ Emptied
    /\ AppendedIsKept /\ NotBeforeSettled

-----------------------------------------------------------------------------
(* A nonempty list has a first task. *)
LEMMA FirstOf ==
    ASSUME NEW S \in SUBSET Tasks, S # {}
    PROVE  First(S) \in S
<1> DEFINE N == {t[2] : t \in S}
<1>1. N \in SUBSET Nat /\ N # {}
  BY BoundsAssumption DEF Tasks
<1> HIDE DEF N
<1>2. PICK n \in N : \A k \in N : n <= k
  BY Zenon, <1>1, LeastNat
<1>3. PICK t \in S : t[2] = n /\ \A u \in S : t[2] <= u[2]
  BY Zenon, <1>2 DEF N
<1> QED
  BY Zenon, <1>3 DEF First

LEMMA TaskFact == \A t \in Tasks : t[1] \in Requests
  BY Zenon DEF Tasks

LEMMA FaultFact == TypeOK /\ Fault => faults' \in 0..MaxFaults
  BY BoundsAssumption DEF TypeOK, Fault

LEMMA OwnFact == \A a \in Agents : Own(a) \in Requests /\ (a \in Requests => Own(a) = a)
  BY Zenon, BoundsAssumption DEF Own, Agents

LEMMA InitIInv == Init => IInv
<1> SUFFICES ASSUME Init PROVE IInv
  OBVIOUS
<1>1. \A a \in Agents : <<Own(a), 1>> \in Tasks
  BY OwnFact, BoundsAssumption DEF Tasks
<1>2. Recovery \in Agents /\ Requests \subseteq Agents
  BY Zenon DEF Agents
<1>3. /\ at \in [Agents -> LoopSteps] /\ at[Recovery] # "memory"
      /\ req \in [Agents -> Requests] /\ cur \in [Agents -> Tasks]
      /\ todo \in [Agents -> SUBSET Tasks]
  BY Zenon, <1>1, <1>2, OwnFact DEF Init, LoopSteps
<1>4. /\ row \in [Tasks -> {"none", "open", "committed", "rolledback", "cleaned"}]
      /\ jobs \in [Tasks -> Nat]
      /\ rat \in [Requests -> {"run", "flush", "done", "dead"}]
  BY Zenon DEF Init
<1>5. faults \in 0..MaxFaults
  BY BoundsAssumption DEF Init
<1>6. TypeOK
  BY <1>3, <1>4, <1>5, Zenon DEF Init, TypeOK
<1>7. Lists /\ Rows /\ Flushes /\ Done /\ Over /\ Emptied /\ AppendedIsKept /\ NotBeforeSettled
  BY <1>2, OwnFact DEF Init, Lists, Rows, Flushes, Done, Over, Emptied, AppendedIsKept, NotBeforeSettled
<1> QED
  BY Zenon, <1>6, <1>7 DEF IInv

(* Steps of the handlers. *)
LEMMA HandlerKeeps ==
    ASSUME IInv, NEW r \in Requests, NEW t \in Tasks,
           \/ WriteRow(r, t) \/ Commit(r) \/ Rollback(r) \/ scheduleCommitDispatch(r, t)
           \/ scheduleInMemory(r, t) \/ flushOnCommit(r) \/ Crash(r)
    PROVE  IInv'
<1>0. /\ TypeOK /\ Lists /\ Rows /\ Flushes /\ Done /\ Over /\ Emptied
      /\ AppendedIsKept /\ NotBeforeSettled
  BY Zenon DEF IInv
<1>b. r \in Agents /\ Recovery \in Agents /\ r # Recovery
  BY Zenon, BoundsAssumption DEF Agents
<1>1. CASE WriteRow(r, t)
  <2>1. /\ rat[r] = "run" /\ t[1] = r /\ row[t] = "none"
        /\ row' = [row EXCEPT ![t] = "open"]
        /\ UNCHANGED <<sched, pend, index, old, jobs, handled, rat, marker, mem, at, req, todo, cur, stale, durable, slow, faults>>
    BY Zenon, <1>1 DEF WriteRow, Of, store, memory, loop, effects
  <2>2. TypeOK'
    BY Zenon, <1>0, <2>1 DEF TypeOK
  <2>3. Rows'
    BY Zenon, <1>0, <2>1, TaskFact DEF Rows, TypeOK
  <2>4. NotBeforeSettled'
    BY <1>0, <2>1 DEF NotBeforeSettled, TypeOK, Lists, Rows
  <2>5. Lists' /\ Flushes' /\ Done'
    BY <1>0, <2>1, Zenon DEF Lists, Flushes, Done
  <2>6. Over' /\ Emptied' /\ AppendedIsKept'
    BY <1>0, <2>1, Zenon DEF Over, Emptied, AppendedIsKept, Ended
  <2> QED
    BY Zenon, <2>2, <2>3, <2>4, <2>5, <2>6 DEF IInv
<1>2. CASE Commit(r)
  <2>1. /\ row' = [u \in Tasks |-> IF u \in Open(r) THEN "committed" ELSE row[u]]
        /\ UNCHANGED <<sched, pend, index, old, jobs, handled, rat, marker, mem, at, req, todo, cur, stale, durable, slow, faults>>
    BY Zenon, <1>2 DEF Commit, store, memory, loop, effects
  <2>2. TypeOK'
    BY Zenon, <1>0, <2>1 DEF TypeOK
  <2>3. Rows'
    BY Zenon, <1>0, <2>1 DEF Rows, TypeOK
  <2>4. NotBeforeSettled'
    BY Zenon, <1>0, <2>1 DEF NotBeforeSettled, TypeOK
  <2>5. Lists' /\ Flushes' /\ Done'
    BY <1>0, <2>1, Zenon DEF Lists, Flushes, Done
  <2>6. Over' /\ Emptied' /\ AppendedIsKept'
    BY <1>0, <2>1, Zenon DEF Over, Emptied, AppendedIsKept, Ended
  <2> QED
    BY Zenon, <2>2, <2>3, <2>4, <2>5, <2>6 DEF IInv
<1>3. CASE Rollback(r)
  <2>1. /\ row' = [u \in Tasks |-> IF u \in Open(r) THEN "rolledback" ELSE row[u]]
        /\ UNCHANGED <<sched, pend, index, old, jobs, handled, rat, marker, mem, at, req, todo, cur, stale, durable, slow, faults>>
    BY Zenon, <1>3 DEF Rollback, store, memory, loop, effects
  <2>2. TypeOK'
    BY Zenon, <1>0, <2>1 DEF TypeOK
  <2>3. Rows'
    BY Zenon, <1>0, <2>1 DEF Rows, TypeOK
  <2>4. NotBeforeSettled'
    BY Zenon, <1>0, <2>1 DEF NotBeforeSettled, TypeOK
  <2>5. Lists' /\ Flushes' /\ Done'
    BY <1>0, <2>1, Zenon DEF Lists, Flushes, Done
  <2>6. Over' /\ Emptied' /\ AppendedIsKept'
    BY <1>0, <2>1, Zenon DEF Over, Emptied, AppendedIsKept, Ended
  <2> QED
    BY Zenon, <2>2, <2>3, <2>4, <2>5, <2>6 DEF IInv
<1>4. CASE scheduleCommitDispatch(r, t)
  <2>1. /\ rat[r] = "run" /\ t[1] = r /\ row[t] # "none"
        /\ sched' = sched \cup {t} /\ pend' = pend \cup {t} /\ durable' = durable \cup {t}
        /\ index' = index \cup {r} /\ old' = old \ {r} /\ marker' = marker \cup {r}
        /\ UNCHANGED <<row, jobs, handled, rat, mem, at, req, todo, cur, stale, slow, faults>>
    BY Zenon, <1>4 DEF scheduleCommitDispatch, appendCommitDispatchTask, Unscheduled, Of, memory, loop, effects
  <2>2. TypeOK'
    BY Zenon, <1>0, <2>1 DEF TypeOK
  <2>3. Lists'
    BY Zenon, <1>0, <2>1 DEF Lists, TypeOK
  <2>4. Rows'
    BY Zenon, <1>0, <2>1 DEF Rows, TypeOK
  <2>5. Over'
    BY Zenon, <1>0, <2>1 DEF Over, Ended, TypeOK
  <2>6. Emptied'
    BY <1>0, <2>1 DEF Emptied, TypeOK, Flushes, Over, Ended, Agents
  <2>7. AppendedIsKept'
    BY Zenon, <1>0, <2>1 DEF AppendedIsKept, TypeOK
  <2>8. Flushes' /\ Done' /\ NotBeforeSettled'
    BY <1>0, <2>1, Zenon DEF Flushes, Done, NotBeforeSettled
  <2> QED
    BY Zenon, <2>2, <2>3, <2>4, <2>5, <2>6, <2>7, <2>8 DEF IInv
<1>5. CASE scheduleInMemory(r, t)
  <2>1. /\ rat[r] = "run" /\ t[1] = r /\ row[t] # "none"
        /\ sched' = sched \cup {t} /\ mem' = mem \cup {t}
        /\ UNCHANGED <<row, jobs, handled, rat, marker, at, req, todo, cur, stale, slow>>
    BY Zenon, <1>5 DEF scheduleInMemory, Unscheduled, Of, loop, effects
  <2>2. CASE UNCHANGED <<pend, index, old, durable, faults>>
    <3>1. TypeOK'
      BY Zenon, <1>0, <2>1, <2>2 DEF TypeOK
    <3>2. Lists'
      BY Zenon, <1>0, <2>1, <2>2 DEF Lists, TypeOK
    <3>3. Rows'
      BY Zenon, <1>0, <2>1, <2>2 DEF Rows, TypeOK
    <3>4. Flushes' /\ Done' /\ Over'
      BY <1>0, <2>1, <2>2, Zenon DEF Flushes, Done, Over, Ended
    <3>5. Emptied' /\ AppendedIsKept' /\ NotBeforeSettled'
      BY <1>0, <2>1, <2>2, Zenon DEF Emptied, AppendedIsKept, NotBeforeSettled
    <3> QED
      BY Zenon, <3>1, <3>2, <3>3, <3>4, <3>5 DEF IInv
  <2>3. CASE /\ pend' = pend \cup {t} /\ durable' = durable \cup {t}
             /\ index' = index \cup {r} /\ old' = old \ {r}
             /\ faults' \in 0..MaxFaults
    <3>1. TypeOK'
      BY Zenon, <1>0, <2>1, <2>3 DEF TypeOK
    <3>2. Lists'
      BY Zenon, <1>0, <2>1, <2>3 DEF Lists, TypeOK
    <3>3. Rows'
      BY Zenon, <1>0, <2>1, <2>3 DEF Rows, TypeOK
    <3>4. Over'
      BY Zenon, <1>0, <2>1, <2>3 DEF Over, Ended, TypeOK
    <3>5. Emptied'
      BY <1>0, <2>1, <2>3 DEF Emptied, TypeOK, Flushes, Over, Ended, Agents
    <3>6. AppendedIsKept'
      BY Zenon, <1>0, <2>1, <2>3 DEF AppendedIsKept, TypeOK
    <3>7. Flushes' /\ Done' /\ NotBeforeSettled'
      BY <1>0, <2>1, <2>3, Zenon DEF Flushes, Done, NotBeforeSettled
    <3> QED
      BY Zenon, <3>1, <3>2, <3>3, <3>4, <3>5, <3>6, <3>7 DEF IInv
  <2> QED
    BY Zenon, <1>0, <1>5, <2>2, <2>3, FaultFact DEF scheduleInMemory, appendCommitDispatchTask, store
<1>6. CASE flushOnCommit(r)
  <2>1. /\ rat[r] = "run" /\ \A u \in Tasks : u[1] = r => row[u] # "open"
        /\ rat' = [rat EXCEPT ![r] = "flush"] /\ marker' = marker \ {r}
        /\ at' = [at EXCEPT ![r] = IF r \in marker THEN "consume" ELSE "memory"]
        /\ UNCHANGED <<row, sched, pend, index, old, jobs, handled, mem, req, todo, cur, stale, durable, slow, faults>>
    BY Zenon, <1>6 DEF flushOnCommit, Open, Of, Go, store, effects
  <2>2. TypeOK'
    BY Zenon, <1>0, <2>1, <1>b DEF TypeOK, LoopSteps, Agents
  <2>3. Lists'
    BY <1>0, <2>1 DEF Lists, TypeOK, Flushes, Agents
  <2>4. Rows'
    BY Zenon, <1>0, <2>1, TaskFact DEF Rows, TypeOK
  <2>5. Flushes'
    BY Zenon, <1>0, <2>1 DEF Flushes, TypeOK, Agents
  <2>6. Done'
    BY Zenon, <1>0, <2>1 DEF Done, TypeOK, Agents
  <2>7. Over'
    BY Zenon, <1>0, <2>1, <1>b DEF Over, Ended, TypeOK, Agents
  <2>8. Emptied'
    BY Zenon, <1>0, <2>1 DEF Emptied, TypeOK, Agents
  <2>9. AppendedIsKept' /\ NotBeforeSettled'
    BY <1>0, <2>1, Zenon DEF AppendedIsKept, NotBeforeSettled
  <2> QED
    BY Zenon, <2>2, <2>3, <2>4, <2>5, <2>6, <2>7, <2>8, <2>9 DEF IInv
<1>7. CASE Crash(r)
  <2>1. /\ rat' = [rat EXCEPT ![r] = "dead"]
        /\ row' = [u \in Tasks |-> IF u[1] = r /\ row[u] = "open" THEN "rolledback" ELSE row[u]]
        /\ at' = [at EXCEPT ![r] = "idle"] /\ todo' = [todo EXCEPT ![r] = {}]
        /\ marker' = marker \ {r} /\ mem' \subseteq mem
        /\ faults' \in 0..MaxFaults
        /\ UNCHANGED <<sched, pend, index, old, jobs, handled, req, cur, stale, durable, slow>>
    BY Zenon, <1>0, <1>7, FaultFact DEF Crash, Open, Of, Go, store, effects
  <2>2. TypeOK'
    BY Zenon, <1>0, <2>1, <1>b DEF TypeOK, LoopSteps, Agents
  <2>3. Lists'
    BY Zenon, <1>0, <2>1 DEF Lists, TypeOK, Agents
  <2>4. Rows'
    BY Zenon, <1>0, <2>1, TaskFact DEF Rows, TypeOK
  <2>5. Flushes'
    BY Zenon, <1>0, <2>1 DEF Flushes, TypeOK, Agents
  <2>6. Done'
    BY Zenon, <1>0, <2>1 DEF Done, TypeOK, Agents
  <2>7. Over'
    BY Zenon, <1>0, <2>1, <1>b DEF Over, Ended, TypeOK, Agents
  <2>8. Emptied'
    BY Zenon, <1>0, <2>1 DEF Emptied, TypeOK, Agents
  <2>9. NotBeforeSettled'
    BY Zenon, <1>0, <2>1 DEF NotBeforeSettled, TypeOK
  <2>10. AppendedIsKept'
    BY <1>0, <2>1, Zenon DEF AppendedIsKept
  <2> QED
    BY Zenon, <2>2, <2>3, <2>4, <2>5, <2>6, <2>7, <2>8, <2>9, <2>10 DEF IInv
<1> QED
  BY Zenon, <1>1, <1>2, <1>3, <1>4, <1>5, <1>6, <1>7

(* Steps of the loop over a list. *)
LEMMA LoopKeeps ==
    ASSUME IInv, NEW a \in Agents, LoopStep(a) \/ LoopFault(a)
    PROVE  IInv'
<1>0. /\ TypeOK /\ Lists /\ Rows /\ Flushes /\ Done /\ Over /\ Emptied
      /\ AppendedIsKept /\ NotBeforeSettled
  BY Zenon DEF IInv
<1>1. CASE consumeCommitDispatchTasks(a)
  <2>1. /\ at[a] = "consume"
        /\ todo' = [todo EXCEPT ![a] = pend \cap Of(req[a])]
        /\ at' = [at EXCEPT ![a] = IF pend \cap Of(req[a]) = {} THEN "zrem" ELSE "next"]
        /\ UNCHANGED <<row, sched, pend, index, old, jobs, handled, rat, marker, mem, req, cur, stale, durable, slow, faults>>
    BY Zenon, <1>1 DEF consumeCommitDispatchTasks, Go, store, effects, memory
  <2>2. TypeOK'
    BY <1>0, <2>1 DEF TypeOK, LoopSteps, Of
  <2>3. Lists'
    BY Zenon, <1>0, <2>1 DEF Lists, TypeOK, Of
  <2>4. Flushes'
    BY Zenon, <1>0, <2>1 DEF Flushes, TypeOK, Agents
  <2>5. Done'
    BY Zenon, <1>0, <2>1 DEF Done, TypeOK
  <2>6. Over'
    BY Zenon, <1>0, <2>1 DEF Over, Ended, TypeOK, Agents
  <2>7. Emptied'
    BY Zenon, <1>0, <2>1 DEF Emptied, TypeOK, AppendedIsKept, Of
  <2>8. Rows' /\ AppendedIsKept' /\ NotBeforeSettled'
    BY <1>0, <2>1, Zenon DEF Rows, AppendedIsKept, NotBeforeSettled
  <2> QED
    BY Zenon, <2>2, <2>3, <2>4, <2>5, <2>6, <2>7, <2>8 DEF IInv
<1>2. CASE ConsumeEmpty(a)
  <2>1. /\ at[a] = "zrem"
        /\ index' = index \ {req[a]} /\ old' = old \ {req[a]}
        /\ at' = [at EXCEPT ![a] = After(a)]
        /\ UNCHANGED <<row, sched, pend, jobs, handled, rat, marker, mem, req, todo, cur, stale, durable, slow, faults>>
    BY Zenon, <1>2 DEF ConsumeEmpty, Go, store, effects, memory
  <2>2. TypeOK'
    BY Zenon, <1>0, <2>1 DEF TypeOK, LoopSteps, After, Agents
  <2>3. Lists'
    BY Zenon, <1>0, <2>1 DEF Lists, TypeOK, After
  <2>4. Flushes'
    BY Zenon, <1>0, <2>1 DEF Flushes, TypeOK, Agents, After
  <2>5. Done'
    BY Zenon, <1>0, <2>1 DEF Done, TypeOK, After
  <2>6. Over'
    BY Zenon, <1>0, <2>1 DEF Over, Ended, TypeOK, Agents, After
  <2>7. Emptied'
    BY Zenon, <1>0, <2>1 DEF Emptied, TypeOK, After
  <2>8. AppendedIsKept'
    BY Zenon, <1>0, <2>1 DEF AppendedIsKept, TypeOK, Emptied
  <2>9. Rows' /\ NotBeforeSettled'
    BY <1>0, <2>1, Zenon DEF Rows, NotBeforeSettled
  <2> QED
    BY Zenon, <2>2, <2>3, <2>4, <2>5, <2>6, <2>7, <2>8, <2>9 DEF IInv
<1>3. CASE NextTask(a)
  <2>1. CASE todo[a] = {}
    <3>1. /\ at[a] = "next" /\ at' = [at EXCEPT ![a] = After(a)]
          /\ UNCHANGED <<row, sched, pend, index, old, jobs, handled, rat, marker, mem, req, todo, cur, stale, durable, slow, faults>>
      BY Zenon, <1>3, <2>1 DEF NextTask, Go, store, effects, memory
    <3>2. TypeOK'
      BY Zenon, <1>0, <2>1, <3>1 DEF TypeOK, LoopSteps, After, Agents
    <3>3. Lists'
      BY Zenon, <1>0, <2>1, <3>1 DEF Lists, TypeOK, After
    <3>4. Flushes'
      BY Zenon, <1>0, <2>1, <3>1 DEF Flushes, TypeOK, Agents, After
    <3>5. Done'
      BY Zenon, <1>0, <2>1, <3>1 DEF Done, TypeOK, After
    <3>6. Over'
      BY Zenon, <1>0, <2>1, <3>1 DEF Over, Ended, TypeOK, Agents, After
    <3>7. Emptied'
      BY Zenon, <1>0, <2>1, <3>1 DEF Emptied, TypeOK, After
    <3>8. Rows' /\ AppendedIsKept' /\ NotBeforeSettled'
      BY <1>0, <2>1, <3>1, Zenon DEF Rows, AppendedIsKept, NotBeforeSettled
    <3> QED
      BY Zenon, <3>2, <3>3, <3>4, <3>5, <3>6, <3>7, <3>8 DEF IInv
  <2>2. CASE todo[a] # {}
    <3> DEFINE t == First(todo[a])
    <3>1. t \in todo[a] /\ t \in Tasks
      BY Zenon, <1>0, <2>2, FirstOf DEF TypeOK
    <3>2. /\ at[a] = "next" /\ at' = [at EXCEPT ![a] = "exec"]
          /\ cur' = [cur EXCEPT ![a] = t] /\ todo' = [todo EXCEPT ![a] = todo[a] \ {t}]
          /\ UNCHANGED <<row, sched, pend, index, old, jobs, handled, rat, marker, mem, req, stale, durable, slow, faults>>
      BY Zenon, <1>3, <2>2 DEF NextTask, Go, store, effects, memory
    <3> HIDE DEF t
    <3>3. TypeOK'
      BY <1>0, <3>1, <3>2 DEF TypeOK, LoopSteps
    <3>4. Lists'
      BY Zenon, <1>0, <3>1, <3>2 DEF Lists, TypeOK
    <3>5. Flushes'
      BY Zenon, <1>0, <3>1, <3>2 DEF Flushes, TypeOK, Agents
    <3>6. Done'
      BY Zenon, <1>0, <3>1, <3>2 DEF Done, TypeOK
    <3>7. Over'
      BY Zenon, <1>0, <3>1, <3>2 DEF Over, Ended, TypeOK, Agents
    <3>8. Emptied'
      BY Zenon, <1>0, <3>1, <3>2 DEF Emptied, TypeOK
    <3>9. Rows' /\ AppendedIsKept' /\ NotBeforeSettled'
      BY <1>0, <3>1, <3>2, Zenon DEF Rows, AppendedIsKept, NotBeforeSettled
    <3> QED
      BY Zenon, <3>3, <3>4, <3>5, <3>6, <3>7, <3>8, <3>9 DEF IInv
  <2> QED
    BY Zenon, <2>1, <2>2
<1>4. CASE executeCommitDispatchTask(a)
  <2>1. /\ at[a] = "exec"
        /\ jobs' = [jobs EXCEPT ![cur[a]] = @ + 1] /\ handled' = handled \cup {cur[a]}
        /\ at' = [at EXCEPT ![a] = "lrem"]
        /\ UNCHANGED <<row, sched, pend, index, old, rat, marker, mem, req, todo, cur, stale, durable, slow, faults>>
    BY Zenon, <1>4 DEF executeCommitDispatchTask, AddJob, Go, store, memory
  <2>2. TypeOK'
    BY <1>0, <2>1 DEF TypeOK, LoopSteps
  <2>3. Lists'
    BY Zenon, <1>0, <2>1 DEF Lists, TypeOK
  <2>4. Rows'
    BY Zenon, <1>0, <2>1 DEF Rows, TypeOK, Lists
  <2>5. Flushes'
    BY Zenon, <1>0, <2>1 DEF Flushes, TypeOK, Agents
  <2>6. Done'
    BY Zenon, <1>0, <2>1 DEF Done, TypeOK
  <2>7. Over'
    BY Zenon, <1>0, <2>1 DEF Over, Ended, TypeOK, Agents
  <2>8. Emptied'
    BY Zenon, <1>0, <2>1 DEF Emptied, TypeOK
  <2>9. AppendedIsKept'
    BY Zenon, <1>0, <2>1 DEF AppendedIsKept, TypeOK
  <2>10. NotBeforeSettled'
    BY <1>0, <2>1, TaskFact DEF NotBeforeSettled, TypeOK, Lists, Rows, Flushes, Over, Ended, Agents
  <2> QED
    BY Zenon, <2>2, <2>3, <2>4, <2>5, <2>6, <2>7, <2>8, <2>9, <2>10 DEF IInv
<1>5. CASE AckLrem(a)
  <2>1. /\ at[a] = "lrem"
        /\ pend' = pend \ {cur[a]}
        /\ at' = [at EXCEPT ![a] = "llen"]
        /\ UNCHANGED <<row, sched, index, old, jobs, handled, rat, marker, mem, req, todo, cur, stale, durable, slow, faults>>
    BY Zenon, <1>5 DEF AckLrem, Go, effects, memory
  <2>2. TypeOK'
    BY <1>0, <2>1 DEF TypeOK, LoopSteps
  <2>3. Lists'
    BY Zenon, <1>0, <2>1 DEF Lists, TypeOK
  <2>4. Flushes'
    BY Zenon, <1>0, <2>1 DEF Flushes, TypeOK, Agents
  <2>5. Done'
    BY Zenon, <1>0, <2>1 DEF Done, TypeOK
  <2>6. Over'
    BY Zenon, <1>0, <2>1 DEF Over, Ended, TypeOK, Agents
  <2>7. Emptied'
    BY Zenon, <1>0, <2>1 DEF Emptied, TypeOK
  <2>8. AppendedIsKept'
    BY Zenon, <1>0, <2>1 DEF AppendedIsKept, TypeOK, Done
  <2>9. Rows' /\ NotBeforeSettled'
    BY <1>0, <2>1, Zenon DEF Rows, NotBeforeSettled
  <2> QED
    BY Zenon, <2>2, <2>3, <2>4, <2>5, <2>6, <2>7, <2>8, <2>9 DEF IInv
<1>6. CASE AckLlen(a)
  <2>1. /\ at[a] = "llen"
        /\ at' = [at EXCEPT ![a] = IF pend \cap Of(req[a]) = {} THEN "del" ELSE "next"]
        /\ UNCHANGED <<row, sched, pend, index, old, jobs, handled, rat, marker, mem, req, todo, cur, stale, durable, slow, faults>>
    BY Zenon, <1>6 DEF AckLlen, Go, store, effects, memory
  <2>2. TypeOK'
    BY <1>0, <2>1 DEF TypeOK, LoopSteps
  <2>3. Lists'
    BY Zenon, <1>0, <2>1 DEF Lists, TypeOK
  <2>4. Flushes'
    BY Zenon, <1>0, <2>1 DEF Flushes, TypeOK, Agents
  <2>5. Done'
    BY Zenon, <1>0, <2>1 DEF Done, TypeOK
  <2>6. Over'
    BY Zenon, <1>0, <2>1 DEF Over, Ended, TypeOK, Agents
  <2>7. Emptied'
    BY Zenon, <1>0, <2>1 DEF Emptied, TypeOK, AppendedIsKept, Of
  <2>8. Rows' /\ AppendedIsKept' /\ NotBeforeSettled'
    BY <1>0, <2>1, Zenon DEF Rows, AppendedIsKept, NotBeforeSettled
  <2> QED
    BY Zenon, <2>2, <2>3, <2>4, <2>5, <2>6, <2>7, <2>8 DEF IInv
<1>7. CASE AckDel(a)
  <2>1. /\ at[a] = "del"
        /\ pend' = pend \ Of(req[a])
        /\ index' = index \ {req[a]} /\ old' = old \ {req[a]}
        /\ at' = [at EXCEPT ![a] = "next"]
        /\ UNCHANGED <<row, sched, jobs, handled, rat, marker, mem, req, todo, cur, stale, durable, slow, faults>>
    BY Zenon, <1>7 DEF AckDel, Go, effects, memory
  <2>2. TypeOK'
    BY <1>0, <2>1 DEF TypeOK, LoopSteps
  <2>3. Lists'
    BY Zenon, <1>0, <2>1 DEF Lists, TypeOK
  <2>4. Flushes'
    BY Zenon, <1>0, <2>1 DEF Flushes, TypeOK, Agents
  <2>5. Done'
    BY Zenon, <1>0, <2>1 DEF Done, TypeOK
  <2>6. Over'
    BY Zenon, <1>0, <2>1 DEF Over, Ended, TypeOK, Agents
  <2>7. Emptied'
    BY Zenon, <1>0, <2>1 DEF Emptied, TypeOK
  <2>8. AppendedIsKept'
    BY Zenon, <1>0, <2>1 DEF AppendedIsKept, TypeOK, Emptied, Of
  <2>9. Rows' /\ NotBeforeSettled'
    BY <1>0, <2>1, Zenon DEF Rows, NotBeforeSettled
  <2> QED
    BY Zenon, <2>2, <2>3, <2>4, <2>5, <2>6, <2>7, <2>8, <2>9 DEF IInv
<1>8. CASE ConsumeFails(a)
  <2>1. /\ at[a] \in {"consume", "zrem"}
        /\ stale' \subseteq stale
        /\ faults' \in 0..MaxFaults
        /\ at' = [at EXCEPT ![a] = After(a)]
        /\ UNCHANGED <<row, sched, pend, index, old, jobs, handled, rat, marker, mem, req, todo, cur, durable, slow>>
    BY Zenon, <1>0, <1>8, FaultFact DEF ConsumeFails, Go, store, effects, memory
  <2>2. TypeOK'
    BY Zenon, <1>0, <2>1 DEF TypeOK, LoopSteps, After, Agents
  <2>3. Lists'
    BY Zenon, <1>0, <2>1 DEF Lists, TypeOK, After
  <2>4. Flushes'
    BY Zenon, <1>0, <2>1 DEF Flushes, TypeOK, Agents, After
  <2>5. Done'
    BY Zenon, <1>0, <2>1 DEF Done, TypeOK, After
  <2>6. Over'
    BY Zenon, <1>0, <2>1 DEF Over, Ended, TypeOK, Agents, After
  <2>7. Emptied'
    BY Zenon, <1>0, <2>1 DEF Emptied, TypeOK, After
  <2>8. Rows' /\ AppendedIsKept' /\ NotBeforeSettled'
    BY <1>0, <2>1, Zenon DEF Rows, AppendedIsKept, NotBeforeSettled
  <2> QED
    BY Zenon, <2>2, <2>3, <2>4, <2>5, <2>6, <2>7, <2>8 DEF IInv
<1>9. CASE ExecuteFails(a)
  <2>1. /\ at[a] = "exec" /\ faults' \in 0..MaxFaults
        /\ UNCHANGED <<sched, pend, index, old, rat, marker, mem, req, todo, cur, stale, durable, slow>>
    BY <1>0, <1>9, FaultFact, Zenon DEF ExecuteFails, store, memory
  <2>2. /\ jobs' \in [Tasks -> Nat]
        /\ \A u \in Tasks : u # cur[a] => jobs'[u] = jobs[u]
    BY <1>0, <1>9 DEF ExecuteFails, TypeOK
  <2>3. /\ row' \in [Tasks -> {"none", "open", "committed", "rolledback", "cleaned"}]
        /\ \A u \in Tasks : row'[u] # row[u] => row[u] = "committed" /\ row'[u] = "cleaned"
    BY Zenon, <1>0, <1>9 DEF ExecuteFails, CleanRow, TypeOK
  <2>4. \/ at' = [at EXCEPT ![a] = "lrem"] /\ handled' = handled \cup {cur[a]}
        \/ at' = [at EXCEPT ![a] = "next"] /\ handled' = handled
    BY Zenon, <1>9 DEF ExecuteFails, Go
  <2>5. at' \in [Agents -> LoopSteps] /\ at'[Recovery] # "memory" /\ handled' \subseteq Tasks
    <3>1. CASE at' = [at EXCEPT ![a] = "lrem"] /\ handled' = handled \cup {cur[a]}
      BY <1>0, <3>1 DEF TypeOK, LoopSteps
    <3>2. CASE at' = [at EXCEPT ![a] = "next"] /\ handled' = handled
      BY <1>0, <3>2 DEF TypeOK, LoopSteps
    <3> QED
      BY <2>4, <3>1, <3>2, Zenon
  <2>6. TypeOK'
    BY Zenon, <1>0, <2>1, <2>2, <2>3, <2>5 DEF TypeOK
  <2>7. Lists'
    BY <1>0, <2>1, <2>2, <2>3, <2>4, <2>5 DEF Lists, TypeOK
  <2>8. Rows'
    BY <1>0, <2>1, <2>2, <2>3, <2>4, <2>5 DEF Rows, TypeOK, Lists
  <2>9. Flushes'
    BY <1>0, <2>1, <2>2, <2>3, <2>4, <2>5 DEF Flushes, TypeOK, Agents
  <2>10. Done'
    BY Zenon, <1>0, <2>1, <2>2, <2>3, <2>4, <2>5 DEF Done, TypeOK
  <2>11. Over'
    BY Zenon, <1>0, <2>1, <2>2, <2>3, <2>4, <2>5 DEF Over, Ended, TypeOK, Agents
  <2>12. Emptied'
    BY <1>0, <2>1, <2>2, <2>3, <2>4, <2>5 DEF Emptied, TypeOK
  <2>13. AppendedIsKept'
    BY Zenon, <1>0, <2>1, <2>2, <2>3, <2>4, <2>5 DEF AppendedIsKept, TypeOK
  <2>14. NotBeforeSettled'
    <3>1. cur[a] \in sched /\ cur[a] \in Tasks /\ cur[a][1] = req[a]
      BY Zenon, <1>0, <2>1 DEF Lists, TypeOK
    <3>2. ~slow => rat[req[a]] # "run"
      BY Zenon, <1>0, <2>1 DEF Flushes, Over, Ended, Agents
    <3>3. ~slow => row[cur[a]] # "open"
      BY Zenon, <1>0, <3>1, <3>2 DEF Rows
    <3>4. \A u \in Tasks : row'[u] = "open" => row[u] = "open"
      BY Zenon, <2>3
    <3> QED
      BY Zenon, <1>0, <2>1, <2>2, <3>3, <3>4 DEF NotBeforeSettled
  <2> QED
    BY Zenon, <2>6, <2>7, <2>8, <2>9, <2>10, <2>11, <2>12, <2>13, <2>14 DEF IInv
<1>10. CASE AckFails(a)
  <2>1. /\ at[a] \in {"lrem", "llen", "del"}
        /\ faults' \in 0..MaxFaults
        /\ at' = [at EXCEPT ![a] = "next"]
        /\ UNCHANGED <<row, sched, pend, index, old, jobs, handled, rat, marker, mem, req, todo, cur, stale, durable, slow>>
    BY Zenon, <1>0, <1>10, FaultFact DEF AckFails, Go, store, effects, memory
  <2>2. TypeOK'
    BY <1>0, <2>1 DEF TypeOK, LoopSteps
  <2>3. Lists'
    BY Zenon, <1>0, <2>1 DEF Lists, TypeOK
  <2>4. Flushes'
    BY Zenon, <1>0, <2>1 DEF Flushes, TypeOK, Agents
  <2>5. Done'
    BY Zenon, <1>0, <2>1 DEF Done, TypeOK
  <2>6. Over'
    BY Zenon, <1>0, <2>1 DEF Over, Ended, TypeOK, Agents
  <2>7. Emptied'
    BY Zenon, <1>0, <2>1 DEF Emptied, TypeOK
  <2>8. Rows' /\ AppendedIsKept' /\ NotBeforeSettled'
    BY <1>0, <2>1, Zenon DEF Rows, AppendedIsKept, NotBeforeSettled
  <2> QED
    BY Zenon, <2>2, <2>3, <2>4, <2>5, <2>6, <2>7, <2>8 DEF IInv
<1> QED
  BY Zenon, <1>1, <1>2, <1>3, <1>4, <1>5, <1>6, <1>7, <1>8, <1>9, <1>10 DEF LoopStep, LoopFault

(* The tasks in memory, ageing and the recovery job. *)
LEMMA RecoveryKeeps ==
    ASSUME IInv, NEW r \in Requests,
           \/ RunInMemory(r) \/ Age(r) \/ SlowRequest(r)
           \/ listStaleCommitDispatchRequestIds \/ RecoverRequest(r) \/ RecoveryCrashes
    PROVE  IInv'
<1>0. /\ TypeOK /\ Lists /\ Rows /\ Flushes /\ Done /\ Over /\ Emptied
      /\ AppendedIsKept /\ NotBeforeSettled
  BY Zenon DEF IInv
<1>b. r \in Agents /\ Recovery \in Agents /\ r # Recovery
  BY Zenon, BoundsAssumption DEF Agents
<1>1. CASE RunInMemory(r)
  <2>1. CASE mem \cap Of(r) = {}
    <3>1. /\ at[r] = "memory" /\ at' = [at EXCEPT ![r] = "idle"] /\ rat' = [rat EXCEPT ![r] = "done"]
          /\ UNCHANGED <<row, sched, pend, index, old, jobs, handled, marker, mem, req, todo, cur, stale, durable, slow, faults>>
      BY Zenon, <1>1, <2>1 DEF RunInMemory, Go, store, effects
    <3>2. TypeOK'
      BY Zenon, <1>0, <1>b, <3>1 DEF TypeOK, LoopSteps
    <3>3. Lists'
      BY Zenon, <1>0, <1>b, <3>1 DEF Lists, TypeOK
    <3>4. Rows'
      BY Zenon, <1>0, <1>b, <3>1, TaskFact DEF Rows, TypeOK, Flushes
    <3>5. Flushes'
      BY Zenon, <1>0, <1>b, <3>1 DEF Flushes, TypeOK, Agents
    <3>6. Done'
      BY Zenon, <1>0, <1>b, <3>1 DEF Done, TypeOK
    <3>7. Over'
      BY Zenon, <1>0, <1>b, <3>1 DEF Over, Ended, TypeOK
    <3>8. Emptied'
      BY Zenon, <1>0, <1>b, <3>1 DEF Emptied, TypeOK
    <3>9. AppendedIsKept' /\ NotBeforeSettled'
      BY <1>0, <1>b, <3>1, Zenon DEF AppendedIsKept, NotBeforeSettled
    <3> QED
      BY Zenon, <3>2, <3>3, <3>4, <3>5, <3>6, <3>7, <3>8, <3>9 DEF IInv
  <2>2. CASE mem \cap Of(r) # {}
    <3> DEFINE t == First(mem \cap Of(r))
    <3>1. t \in mem /\ t \in Tasks /\ t[1] = r
      <4>1. mem \cap Of(r) \in SUBSET Tasks
        BY Zenon DEF Of
      <4>2. t \in mem \cap Of(r)
        BY Zenon, <2>2, <4>1, FirstOf
      <4> HIDE DEF t
      <4> QED
        BY Zenon, <4>2 DEF Of
    <3>2. /\ at[r] = "memory" /\ mem' = mem \ {t}
          /\ UNCHANGED <<at, rat, sched, pend, index, old, marker, req, todo, cur, stale, durable, slow>>
      BY <1>1, <2>2, Zenon DEF RunInMemory, store
    <3>0. \/ AddJob(t) /\ UNCHANGED <<row, faults>>
          \/ /\ Fault
             /\ \E added \in {0, 1} : jobs' = [jobs EXCEPT ![t] = @ + added]
             /\ CleanRow(t) \/ UNCHANGED row
             /\ UNCHANGED handled
      BY <1>1, <2>2, Zenon DEF RunInMemory
    <3> HIDE DEF t
    <3>3. jobs' \in [Tasks -> Nat] /\ \A u \in Tasks : u # t => jobs'[u] = jobs[u]
      BY <1>0, <3>0, <3>1 DEF AddJob, TypeOK
    <3>4. /\ row' \in [Tasks -> {"none", "open", "committed", "rolledback", "cleaned"}]
          /\ \A u \in Tasks : row'[u] # row[u] => row[u] = "committed" /\ row'[u] = "cleaned"
      BY <1>0, <3>0, <3>1 DEF CleanRow, TypeOK
    <3>5. /\ faults' \in 0..MaxFaults
          /\ handled \subseteq handled' /\ handled' \subseteq handled \cup {t}
      <4>1. faults' \in 0..MaxFaults
        BY <1>0, <3>0, FaultFact, Zenon DEF TypeOK
      <4> QED
        BY Zenon, <3>0, <4>1 DEF AddJob
    <3>6. rat[r] = "flush"
      BY Zenon, <1>0, <3>2 DEF Flushes
    <3>7. TypeOK'
      BY Zenon, <1>0, <3>1, <3>2, <3>3, <3>4, <3>5, <3>6 DEF TypeOK
    <3>8. Lists'
      BY <1>0, <3>2, Zenon DEF Lists
    <3>9. Rows'
      BY <1>0, <3>1, <3>2, <3>3, <3>4 DEF Rows, TypeOK, Lists
    <3>10. Done'
      BY <1>0, <3>2, <3>5, Zenon DEF Done
    <3>11. Emptied'
      BY <1>0, <3>2, <3>5, Zenon DEF Emptied
    <3>12. AppendedIsKept'
      BY Zenon, <1>0, <3>2, <3>5 DEF AppendedIsKept
    <3>13. NotBeforeSettled'
      BY <1>0, <3>1, <3>2, <3>3, <3>4, <3>6 DEF NotBeforeSettled, TypeOK, Rows
    <3>14. Flushes' /\ Over'
      BY <1>0, <3>1, <3>2, <3>3, <3>4, <3>5, <3>6, Zenon DEF Flushes, Over, Ended
    <3> QED
      BY Zenon, <3>7, <3>8, <3>9, <3>10, <3>11, <3>12, <3>13, <3>14 DEF IInv
  <2> QED
    BY Zenon, <2>1, <2>2
<1>2. CASE Age(r)
  <2>1. /\ rat[r] \notin {"run", "flush"}
        /\ old' = old \cup {r}
        /\ UNCHANGED <<row, sched, pend, index, jobs, handled, rat, marker, mem, at, req, todo, cur, stale, durable, slow, faults>>
    BY Zenon, <1>2 DEF Age, Live, effects, memory, loop
  <2>2. TypeOK'
    BY Zenon, <1>0, <2>1 DEF TypeOK
  <2>3. Over'
    BY Zenon, <1>0, <2>1 DEF Over, Ended, TypeOK
  <2>4. Lists' /\ Rows' /\ Flushes'
    BY <1>0, <2>1, Zenon DEF Lists, Rows, Flushes
  <2>5. Done' /\ Emptied' /\ AppendedIsKept'
    BY <1>0, <2>1, Zenon DEF Done, Emptied, AppendedIsKept
  <2>6. NotBeforeSettled'
    BY <1>0, <2>1, Zenon DEF NotBeforeSettled
  <2> QED
    BY Zenon, <2>2, <2>3, <2>4, <2>5, <2>6 DEF IInv
<1>3. CASE SlowRequest(r)
  <2>1. /\ old' = old \cup {r} /\ slow' = TRUE
        /\ faults' \in 0..MaxFaults
        /\ UNCHANGED <<row, sched, pend, index, jobs, handled, rat, marker, mem, at, req, todo, cur, stale, durable>>
    BY Zenon, <1>0, <1>3, FaultFact DEF SlowRequest, effects, memory, loop
  <2>2. TypeOK'
    BY Zenon, <1>0, <2>1 DEF TypeOK
  <2>3. Over'
    BY <1>0, <2>1, Zenon DEF Over, Ended
  <2>4. Emptied'
    BY <1>0, <2>1, Zenon DEF Emptied
  <2>5. AppendedIsKept'
    BY <1>0, <2>1, Zenon DEF AppendedIsKept
  <2>6. NotBeforeSettled'
    BY <1>0, <2>1, Zenon DEF NotBeforeSettled
  <2>7. Lists' /\ Rows' /\ Flushes'
    BY <1>0, <2>1, Zenon DEF Lists, Rows, Flushes
  <2>8. Done'
    BY <1>0, <2>1, Zenon DEF Done
  <2> QED
    BY Zenon, <2>2, <2>3, <2>4, <2>5, <2>6, <2>7, <2>8 DEF IInv
<1>4. CASE listStaleCommitDispatchRequestIds
  <2>1. /\ stale' = old
        /\ UNCHANGED <<row, sched, pend, index, old, jobs, handled, rat, marker, mem, at, req, todo, cur, durable, slow, faults>>
    BY Zenon, <1>4 DEF listStaleCommitDispatchRequestIds, store, effects, memory, loop
  <2>2. TypeOK'
    BY Zenon, <1>0, <2>1 DEF TypeOK
  <2>3. Over'
    BY <1>0, <2>1, Zenon DEF Over, Ended
  <2>4. Lists' /\ Rows' /\ Flushes'
    BY <1>0, <2>1, Zenon DEF Lists, Rows, Flushes
  <2>5. Done' /\ Emptied' /\ AppendedIsKept'
    BY <1>0, <2>1, Zenon DEF Done, Emptied, AppendedIsKept
  <2>6. NotBeforeSettled'
    BY <1>0, <2>1, Zenon DEF NotBeforeSettled
  <2> QED
    BY Zenon, <2>2, <2>3, <2>4, <2>5, <2>6 DEF IInv
<1>5. CASE RecoverRequest(r)
  <2>1. /\ at[Recovery] = "idle" /\ r \in stale /\ stale' = stale \ {r}
        /\ req' = [req EXCEPT ![Recovery] = r]
        /\ at' = [at EXCEPT ![Recovery] = "consume"]
        /\ UNCHANGED <<row, sched, pend, index, old, jobs, handled, rat, marker, mem, todo, cur, durable, slow, faults>>
    BY Zenon, <1>5 DEF RecoverRequest, Go, store, effects, memory
  <2>2. TypeOK'
    BY Zenon, <1>0, <2>1, <1>b DEF TypeOK, LoopSteps
  <2>3. Lists'
    BY Zenon, <1>0, <2>1, <1>b DEF Lists, TypeOK
  <2>4. Flushes'
    BY Zenon, <1>0, <2>1, <1>b, BoundsAssumption DEF Flushes, TypeOK, Agents
  <2>5. Done'
    BY Zenon, <1>0, <2>1, <1>b DEF Done, TypeOK
  <2>6. Over'
    BY Zenon, <1>0, <2>1, <1>b DEF Over, Ended, TypeOK
  <2>7. Emptied'
    BY Zenon, <1>0, <2>1, <1>b DEF Emptied, TypeOK
  <2>8. Rows' /\ AppendedIsKept' /\ NotBeforeSettled'
    BY <1>0, <2>1, Zenon DEF Rows, AppendedIsKept, NotBeforeSettled
  <2> QED
    BY Zenon, <2>2, <2>3, <2>4, <2>5, <2>6, <2>7, <2>8 DEF IInv
<1>6. CASE RecoveryCrashes
  <2>1. /\ at' = [at EXCEPT ![Recovery] = "idle"] /\ todo' = [todo EXCEPT ![Recovery] = {}]
        /\ stale' = {}
        /\ faults' \in 0..MaxFaults
        /\ UNCHANGED <<row, sched, pend, index, old, jobs, handled, rat, marker, mem, req, cur, durable, slow>>
    BY Zenon, <1>0, <1>6, FaultFact DEF RecoveryCrashes, Go, store, effects, memory
  <2>2. TypeOK'
    BY Zenon, <1>0, <2>1, <1>b DEF TypeOK, LoopSteps
  <2>3. Lists'
    BY Zenon, <1>0, <2>1, <1>b DEF Lists, TypeOK
  <2>4. Flushes'
    BY Zenon, <1>0, <2>1, <1>b, BoundsAssumption DEF Flushes, TypeOK, Agents
  <2>5. Done'
    BY Zenon, <1>0, <2>1, <1>b DEF Done, TypeOK
  <2>6. Over'
    BY Zenon, <1>0, <2>1, <1>b DEF Over, Ended, TypeOK
  <2>7. Emptied'
    BY Zenon, <1>0, <2>1, <1>b DEF Emptied, TypeOK
  <2>8. Rows' /\ AppendedIsKept' /\ NotBeforeSettled'
    BY <1>0, <2>1, Zenon DEF Rows, AppendedIsKept, NotBeforeSettled
  <2> QED
    BY Zenon, <2>2, <2>3, <2>4, <2>5, <2>6, <2>7, <2>8 DEF IInv
<1> QED
  BY Zenon, <1>1, <1>2, <1>3, <1>4, <1>5, <1>6

LEMMA StepIInv == IInv /\ [Next]_vars => IInv'
<1> SUFFICES ASSUME IInv, [Next]_vars PROVE IInv'
  OBVIOUS
<1>1. CASE Next
  <2>1. Requests # {} /\ Tasks # {} /\ Requests \subseteq Agents /\ Recovery \in Agents
    <3>1. PICK r \in Requests : TRUE
      BY Zenon, BoundsAssumption
    <3>2. <<r, 1>> \in Tasks
      BY BoundsAssumption DEF Tasks
    <3> QED
      BY Zenon, <3>1, <3>2 DEF Agents
  <2>2. ASSUME NEW r \in Requests, RequestStep(r) PROVE IInv'
    BY Zenon, <2>1, <2>2, HandlerKeeps, LoopKeeps, RecoveryKeeps DEF RequestStep
  <2>3. ASSUME Recover PROVE IInv'
    BY Zenon, <2>1, <2>3, LoopKeeps, RecoveryKeeps DEF Recover
  <2> QED
    BY Zenon, <1>1, <2>1, <2>2, <2>3, HandlerKeeps, LoopKeeps, RecoveryKeeps DEF Next
<1>2. CASE UNCHANGED vars
  <2>0. /\ TypeOK /\ Lists /\ Rows /\ Flushes /\ Done /\ Over /\ Emptied
        /\ AppendedIsKept /\ NotBeforeSettled
    BY Zenon DEF IInv
  <2>1. UNCHANGED <<row, sched, pend, index, old, jobs, handled, rat, marker, mem, at, req, todo, cur,
                    stale, durable, slow, faults>>
    BY Zenon, <1>2 DEF vars, store, effects, memory, loop
  <2>2. TypeOK'
    BY Zenon, <2>0, <2>1 DEF TypeOK
  <2>3. Lists' /\ Rows' /\ Flushes' /\ Done'
    BY <2>0, <2>1, Zenon DEF Lists, Rows, Flushes, Done
  <2>4. Over' /\ Emptied' /\ AppendedIsKept' /\ NotBeforeSettled'
    BY <2>0, <2>1, Zenon DEF Over, Ended, Emptied, AppendedIsKept, NotBeforeSettled
  <2> QED
    BY Zenon, <2>2, <2>3, <2>4 DEF IInv
<1> QED
  BY Zenon, <1>1, <1>2

-----------------------------------------------------------------------------
(* The inductive invariant holds in every reachable state. *)
THEOREM Invariance == Spec => []IInv
  BY InitIInv, StepIInv, PTL DEF Spec

(* Type correctness of the lists, the sorted set and the loops. *)
THEOREM TypeCorrect == Spec => []TypeOK
<1>1. IInv => TypeOK
  BY Zenon DEF IInv
<1> QED
  BY <1>1, Invariance, PTL

(* What appendCommitDispatchTask wrote survives crashes, failed enqueues   *)
(* and concurrent loops until executeCommitDispatchTask returned, as long  *)
(* as no request outlives COMMIT_DISPATCH_RECOVERY_AFTER_MS.               *)
THEOREM NothingAppendedIsLost == Spec => []AppendedIsKept
<1>1. IInv => AppendedIsKept
  BY Zenon DEF IInv
<1> QED
  BY <1>1, Invariance, PTL

(* Neither flushOnCommit nor the recovery job enqueues a job for a row     *)
(* whose transaction is open, under the same condition.                    *)
THEOREM CommitComesFirst == Spec => []NotBeforeSettled
<1>1. IInv => NotBeforeSettled
  BY Zenon DEF IInv
<1> QED
  BY <1>1, Invariance, PTL

-----------------------------------------------------------------------------
(* The account of a task: its outcomes so far, and one for each place from *)
(* which it may still be executed without a fault.                         *)

Exposed(r) == r \in old \cup stale \/ (at[Recovery] = "consume" /\ req[Recovery] = r)
Unsent(t) == t \notin sched /\ rat[t[1]] = "run"
UnsentExposed(t) == Unsent(t) /\ Exposed(t[1])
Takes(a, t) == t \in todo[a] \/ (at[a] = "exec" /\ cur[a] = t)
Owns(a, t) == Takes(a, t) \/ (at[a] = "lrem" /\ cur[a] = t)

\* The flush will read the task, or the recovery job will: once the flush is
\* over without having removed it, or before, when the request was slow.
WillFlush(t) == t \in pend /\ (rat[t[1]] = "run" \/ at[t[1]] = "consume")
WillRecover(t) ==
    /\ t \in pend /\ ~Owns(Recovery, t)
    /\ Exposed(t[1]) \/ (~WillFlush(t) /\ ~Owns(t[1], t))
IsCleaned(t) == row[t] = "cleaned"
Queued(t) == t \in mem

\* What was made of the task, where it may wait before its flush, and after.
Ind(b) == IF b THEN 1 ELSE 0
Made(t) == jobs[t] + Ind(IsCleaned(t))
Early(t) == Ind(Unsent(t)) + Ind(UnsentExposed(t)) + Ind(Queued(t))
Late(t) == Ind(Takes(t[1], t)) + Ind(Takes(Recovery, t)) + Ind(WillFlush(t)) + Ind(WillRecover(t))
Outcomes(t) == Made(t) + Early(t) + Late(t)

Once == \A a \in Agents : at[a] = "exec" => cur[a] \notin todo[a]
Accounts == Once /\ \A t \in Tasks : Outcomes(t) <= 1 + faults

Balanced(t) == Outcomes(t)' + faults <= Outcomes(t) + faults'

\* At most one place is added, for one that is lost or for a fault.
Quiet(t) ==
    /\ jobs'[t] = jobs[t] /\ (IsCleaned(t)' => IsCleaned(t))
    /\ (Unsent(t)' => Unsent(t)) /\ (UnsentExposed(t)' => UnsentExposed(t))
    /\ (Queued(t)' => Queued(t)) /\ (Takes(t[1], t)' => Takes(t[1], t))
    /\ (Takes(Recovery, t)' => Takes(Recovery, t)) /\ (WillFlush(t)' => WillFlush(t))
    /\ \/ WillRecover(t)' => WillRecover(t)
       \/ WillFlush(t) /\ ~WillFlush(t)'
       \/ Takes(t[1], t) /\ ~Takes(t[1], t)'
       \/ Takes(Recovery, t) /\ ~Takes(Recovery, t)'
       \/ faults' = faults + 1

(* The parts of an account are numbers. *)
LEMMA Parts ==
    ASSUME TypeOK, TypeOK', NEW t \in Tasks
    PROVE  /\ Made(t) \in Nat /\ Made(t)' \in Nat /\ Early(t) \in Nat /\ Early(t)' \in Nat
           /\ Late(t) \in Nat /\ Late(t)' \in Nat /\ faults \in Nat /\ faults' \in Nat
<1>1. jobs[t] \in Nat /\ jobs'[t] \in Nat /\ faults \in Nat /\ faults' \in Nat
  BY DEF TypeOK
<1>2. Made(t) \in Nat /\ Made(t)' \in Nat
  BY <1>1 DEF Made, Ind
<1>3. Early(t) \in Nat /\ Early(t)' \in Nat
  BY DEF Early, Ind
<1>4. Late(t) \in Nat /\ Late(t)' \in Nat
  BY DEF Late, Ind
<1> QED
  BY Zenon, <1>1, <1>2, <1>3, <1>4

(* A quiet step is balanced. *)
LEMMA QuietIsBalanced ==
    ASSUME TypeOK, TypeOK', NEW t \in Tasks, Quiet(t), faults' = faults \/ faults' = faults + 1
    PROVE  Balanced(t)
<1>1. jobs[t] \in Nat /\ faults \in Nat
  BY DEF TypeOK
<1>2. Made(t)' <= Made(t)
  BY <1>1 DEF Quiet, Made, Ind
<1>3. Early(t)' <= Early(t)
  BY DEF Quiet, Early, Ind
<1>4. Late(t)' <= Late(t) + (faults' - faults)
  BY <1>1 DEF Quiet, Late, Ind
<1> QED
  BY <1>1, <1>2, <1>3, <1>4, Parts DEF Balanced, Outcomes

\* What the invariant says about the agents that may hold a task.
LEMMA AgentFacts ==
    ASSUME IInv, NEW t \in Tasks
    PROVE  /\ t[1] \in Requests /\ t[1] \in Agents /\ Recovery \in Agents /\ t[1] # Recovery
           /\ req[t[1]] = t[1] /\ (at[t[1]] # "idle" => rat[t[1]] = "flush")
           /\ at[t[1]] \in {"idle", "consume"} => todo[t[1]] = {}
           /\ at[Recovery] \in {"idle", "consume"} => todo[Recovery] = {}
           /\ (t \in pend => t \in sched) /\ (t \in mem => t \in sched)
           /\ \A a \in Agents : Owns(a, t) => req[a] = t[1] /\ t \in sched
<1>0. TypeOK /\ Lists /\ Flushes
  BY Zenon DEF IInv
<1>1. t[1] \in Requests /\ t[1] \in Agents /\ Recovery \in Agents /\ t[1] # Recovery
  BY Zenon, TaskFact, BoundsAssumption DEF Agents
<1>2. /\ req[t[1]] = t[1] /\ (at[t[1]] # "idle" => rat[t[1]] = "flush")
      /\ at[t[1]] \in {"idle", "consume"} => todo[t[1]] = {}
      /\ at[Recovery] \in {"idle", "consume"} => todo[Recovery] = {}
      /\ (t \in pend => t \in sched) /\ (t \in mem => t \in sched)
  BY Zenon, <1>0, <1>1 DEF Lists, Flushes
<1>3. \A a \in Agents : Owns(a, t) => req[a] = t[1] /\ t \in sched
  BY Zenon, <1>0 DEF Lists, Owns, Takes
<1> QED
  BY Zenon, <1>1, <1>2, <1>3

(* Handlers and crashes: nothing is executed. *)
LEMMA HandlerQuiet ==
    ASSUME IInv, IInv', NEW u \in Tasks, NEW r \in Requests, NEW t \in Tasks,
           WriteRow(r, t) \/ Commit(r) \/ Rollback(r) \/ flushOnCommit(r) \/ Crash(r)
    PROVE  Quiet(u)
<1>0. TypeOK
  BY Zenon DEF IInv
<1>a. /\ u[1] \in Requests /\ u[1] \in Agents /\ Recovery \in Agents /\ u[1] # Recovery
      /\ req[u[1]] = u[1] /\ (at[u[1]] # "idle" => rat[u[1]] = "flush")
      /\ at[u[1]] \in {"idle", "consume"} => todo[u[1]] = {}
  BY Zenon, AgentFacts
<1>b. r \in Agents /\ r # Recovery
  BY Zenon, BoundsAssumption DEF Agents
<1>1. ASSUME UNCHANGED <<sched, pend, old, jobs, rat, mem, at, req, todo, cur, stale, faults>>,
             IsCleaned(u)' => IsCleaned(u)
      PROVE  Quiet(u)
  BY Zenon, <1>1 DEF Quiet, Unsent, UnsentExposed, Exposed, Queued, Takes, Owns, WillFlush, WillRecover
<1>2. CASE WriteRow(r, t)
  <2>1. IsCleaned(u)' => IsCleaned(u)
    BY Zenon, <1>0, <1>2 DEF WriteRow, IsCleaned, TypeOK
  <2> QED
    BY Zenon, <1>1, <1>2, <2>1 DEF WriteRow, store, memory, loop, effects
<1>3. CASE Commit(r)
  <2>1. IsCleaned(u)' => IsCleaned(u)
    BY Zenon, <1>0, <1>3 DEF Commit, IsCleaned, TypeOK
  <2> QED
    BY Zenon, <1>1, <1>3, <2>1 DEF Commit, store, memory, loop, effects
<1>4. CASE Rollback(r)
  <2>1. IsCleaned(u)' => IsCleaned(u)
    BY Zenon, <1>0, <1>4 DEF Rollback, IsCleaned, TypeOK
  <2> QED
    BY Zenon, <1>1, <1>4, <2>1 DEF Rollback, store, memory, loop, effects
<1>5. CASE flushOnCommit(r)
  <2>1. /\ rat[r] = "run" /\ rat' = [rat EXCEPT ![r] = "flush"]
        /\ at' = [at EXCEPT ![r] = IF r \in marker THEN "consume" ELSE "memory"]
        /\ UNCHANGED <<row, sched, pend, old, jobs, mem, req, todo, cur, stale, faults>>
    BY Zenon, <1>5 DEF flushOnCommit, Go, store, effects
  <2>2. at'[Recovery] = at[Recovery] /\ (rat'[u[1]] = rat[u[1]] \/ rat[u[1]] = "run")
    BY Zenon, <1>0, <1>a, <1>b, <2>1 DEF TypeOK
  <2>3. at[r] = "idle"
    BY Zenon, <1>b, <2>1 DEF IInv, Flushes
  <2>4. at'[u[1]] = at[u[1]] \/ (u[1] = r /\ at[u[1]] = "idle" /\ at'[u[1]] \in {"consume", "memory"})
    BY Zenon, <1>0, <1>a, <2>1, <2>3 DEF TypeOK
  <2>5. /\ IsCleaned(u)' => IsCleaned(u)
        /\ Exposed(u[1])' = Exposed(u[1])
        /\ Takes(Recovery, u)' = Takes(Recovery, u) /\ Owns(Recovery, u)' = Owns(Recovery, u)
    BY Zenon, <2>1, <2>2 DEF IsCleaned, Exposed, Takes, Owns
  <2>6. Takes(u[1], u)' = Takes(u[1], u) /\ (Owns(u[1], u)' = Owns(u[1], u))
    BY Zenon, <2>1, <2>4 DEF Takes, Owns
  <2>7. (Unsent(u)' => Unsent(u)) /\ (Queued(u)' => Queued(u)) /\ (UnsentExposed(u)' => UnsentExposed(u))
    BY Zenon, <1>0, <1>a, <2>1, <2>5 DEF Unsent, Queued, UnsentExposed, TypeOK
  <2>8. WillFlush(u)' => WillFlush(u)
    BY Zenon, <1>0, <1>a, <2>1, <2>4 DEF WillFlush, TypeOK
  <2>9. WillRecover(u)' => WillRecover(u) \/ (WillFlush(u) /\ ~WillFlush(u)')
    BY Zenon, <2>1, <2>5, <2>6 DEF WillRecover
  <2> QED
    BY Zenon, <2>1, <2>5, <2>6, <2>7, <2>8, <2>9 DEF Quiet
<1>6. CASE Crash(r)
  <2>1. /\ rat' = [rat EXCEPT ![r] = "dead"]
        /\ row' = [v \in Tasks |-> IF v \in Open(r) THEN "rolledback" ELSE row[v]]
        /\ at' = [at EXCEPT ![r] = "idle"] /\ todo' = [todo EXCEPT ![r] = {}]
        /\ mem' = mem \ Of(r) /\ faults' = faults + 1
        /\ UNCHANGED <<sched, pend, old, jobs, req, cur, stale>>
    BY Zenon, <1>6 DEF Crash, Fault, Go, store, effects
  <2>2. /\ at'[Recovery] = at[Recovery] /\ todo'[Recovery] = todo[Recovery]
        /\ rat'[u[1]] = "run" => rat[u[1]] = "run"
        /\ at'[u[1]] \in {at[u[1]], "idle"} /\ todo'[u[1]] \subseteq todo[u[1]]
    BY Zenon, <1>0, <1>a, <1>b, <2>1 DEF TypeOK
  <2>3. IsCleaned(u)' => IsCleaned(u)
    BY Zenon, <1>0, <2>1 DEF IsCleaned, TypeOK
  <2>4. /\ Exposed(u[1])' = Exposed(u[1]) /\ Takes(Recovery, u)' = Takes(Recovery, u)
    BY Zenon, <2>1, <2>2 DEF Exposed, Takes
  <2>5. Takes(u[1], u)' => Takes(u[1], u)
    BY Zenon, <2>1, <2>2 DEF Takes
  <2>6. (Unsent(u)' => Unsent(u)) /\ (Queued(u)' => Queued(u)) /\ (UnsentExposed(u)' => UnsentExposed(u))
    BY Zenon, <2>1, <2>2, <2>4 DEF Unsent, Queued, UnsentExposed
  <2>7. WillFlush(u)' => WillFlush(u)
    BY Zenon, <2>1, <2>2 DEF WillFlush
  <2> QED
    BY Zenon, <2>1, <2>3, <2>4, <2>5, <2>6, <2>7 DEF Quiet
<1> QED
  BY Zenon, <1>2, <1>3, <1>4, <1>5, <1>6

(* Steps of the loop that read, acknowledge or fail to. *)
LEMMA LoopQuiet ==
    ASSUME IInv, IInv', NEW u \in Tasks, NEW a \in Agents,
           \/ ConsumeEmpty(a) \/ NextTask(a) \/ AckLrem(a) \/ AckLlen(a) \/ AckDel(a)
           \/ ConsumeFails(a) \/ AckFails(a)
    PROVE  Quiet(u)
<1>0. TypeOK /\ TypeOK'
  BY Zenon DEF IInv
<1>a. u[1] \in Agents /\ Recovery \in Agents /\ u[1] # Recovery
  BY Zenon, AgentFacts
<1> DEFINE Moves(step) ==
        /\ at' = [at EXCEPT ![a] = step] /\ step # "consume"
        /\ UNCHANGED <<row, sched, jobs, rat, mem, req>>
        /\ pend' \subseteq pend /\ old' \subseteq old /\ stale' \subseteq stale
<1>1. ASSUME NEW step, Moves(step)
      PROVE  /\ jobs'[u] = jobs[u] /\ (IsCleaned(u)' => IsCleaned(u))
             /\ Unsent(u)' => Unsent(u)
             /\ Exposed(u[1])' => Exposed(u[1])
             /\ UnsentExposed(u)' => UnsentExposed(u)
             /\ Queued(u)' => Queued(u)
             /\ WillFlush(u)' => WillFlush(u)
             /\ \A b \in Agents : at'[b] = at[b] \/ (b = a /\ at'[b] = step)
  <2>1. \A b \in Agents : at'[b] = at[b] \/ (b = a /\ at'[b] = step)
    BY Zenon, <1>0, <1>1 DEF TypeOK
  <2>2. Exposed(u[1])' => Exposed(u[1])
    BY Zenon, <1>1, <1>a, <2>1 DEF Exposed
  <2>3. WillFlush(u)' => WillFlush(u)
    BY Zenon, <1>1, <1>a, <2>1 DEF WillFlush
  <2>4. (IsCleaned(u)' => IsCleaned(u)) /\ (Unsent(u)' => Unsent(u)) /\ (Queued(u)' => Queued(u))
    BY Zenon, <1>1 DEF IsCleaned, Unsent, Queued
  <2> QED
    BY Zenon, <1>1, <2>1, <2>2, <2>3, <2>4 DEF UnsentExposed
<1>2. ASSUME NEW step, Moves(step), step # "exec", at[a] # "exec", UNCHANGED <<todo, cur>>
      PROVE  \A b \in Agents : Takes(b, u)' = Takes(b, u)
  BY Zenon, <1>1, <1>2 DEF Takes
<1>3. CASE AckFails(a) \/ ConsumeFails(a)
  <2>1. PICK step : Moves(step) /\ step # "exec"
    BY Zenon, <1>3 DEF AckFails, ConsumeFails, Go, After, store, effects, memory
  <2>2. at[a] # "exec" /\ UNCHANGED <<todo, cur>> /\ faults' = faults + 1
    BY Zenon, <1>3 DEF AckFails, ConsumeFails, Fault
  <2>3. \A b \in Agents : Takes(b, u)' = Takes(b, u)
    BY Zenon, <1>2, <2>1, <2>2
  <2> QED
    BY Zenon, <1>1, <1>a, <2>1, <2>2, <2>3 DEF Quiet
<1>4. CASE ConsumeEmpty(a) \/ AckLrem(a) \/ AckLlen(a) \/ AckDel(a)
  <2>1. PICK step : Moves(step) /\ step \notin {"exec", "lrem"}
    BY SMTT(20), <1>4 DEF ConsumeEmpty, AckLrem, AckLlen, AckDel, Go, After, store, effects, memory
  <2>2. /\ at[a] \notin {"exec", "consume"} /\ UNCHANGED <<todo, cur, faults, req>>
        /\ at[a] = "lrem" => pend' = pend \ {cur[a]}
    BY Zenon, <1>4 DEF ConsumeEmpty, AckLrem, AckLlen, AckDel
  <2>3. \A b \in Agents : Takes(b, u)' = Takes(b, u)
    BY Zenon, <1>2, <2>1, <2>2
  <2>4. \A b \in Agents : u \in pend' => Owns(b, u)' = Owns(b, u)
    BY Zenon, <1>1, <2>1, <2>2, <2>3 DEF Owns
  <2>5. WillFlush(u) /\ u \in pend' => WillFlush(u)'
    BY Zenon, <1>1, <1>a, <2>1, <2>2 DEF WillFlush
  <2>6. u \in pend' => u \in pend
    BY Zenon, <2>1
  <2>7. WillRecover(u)' => WillRecover(u)
    BY Zenon, <1>1, <1>a, <2>1, <2>4, <2>5, <2>6 DEF WillRecover
  <2> QED
    BY Zenon, <1>1, <1>a, <2>1, <2>3, <2>7 DEF Quiet
<1>5. CASE NextTask(a)
  <2>1. /\ at[a] = "next" /\ UNCHANGED <<pend, old, stale, faults, row, sched, jobs, rat, mem, req>>
    BY Zenon, <1>5 DEF NextTask, store, effects, memory
  <2>2. CASE todo[a] = {}
    <3>1. PICK step : Moves(step) /\ step \notin {"exec", "lrem"}
      BY <1>5, <2>1, <2>2 DEF NextTask, Go, After
    <3>2. UNCHANGED <<todo, cur>>
      BY Zenon, <1>5, <2>2 DEF NextTask
    <3>3. \A b \in Agents : Takes(b, u)' = Takes(b, u) /\ Owns(b, u)' = Owns(b, u)
      BY Zenon, <1>1, <2>1, <3>1, <3>2 DEF Takes, Owns
    <3>4. WillFlush(u)' = WillFlush(u)
      BY Zenon, <1>1, <1>a, <2>1, <3>1 DEF WillFlush
    <3>5. WillRecover(u)' => WillRecover(u)
      BY Zenon, <1>1, <1>a, <2>1, <3>1, <3>3, <3>4 DEF WillRecover
    <3> QED
      BY Zenon, <1>1, <1>a, <3>1, <3>3, <3>5 DEF Quiet
  <2>3. CASE todo[a] # {}
    <3> DEFINE f == First(todo[a])
    <3>1. /\ Moves("exec") /\ cur' = [cur EXCEPT ![a] = f] /\ todo' = [todo EXCEPT ![a] = todo[a] \ {f}]
      BY Zenon, <1>5, <2>1, <2>3 DEF NextTask, Go
    <3>2. f \in todo[a]
      BY Zenon, <1>0, <2>3, FirstOf DEF TypeOK
    <3> HIDE DEF f
    <3>3. \A b \in Agents : b # a => at'[b] = at[b] /\ cur'[b] = cur[b] /\ todo'[b] = todo[b]
      BY Zenon, <1>0, <3>1 DEF TypeOK
    <3>4. at'[a] = "exec" /\ cur'[a] = f /\ todo'[a] = todo[a] \ {f}
      BY Zenon, <1>0, <3>1 DEF TypeOK
    <3>5. \A b \in Agents : Takes(b, u)' = Takes(b, u) /\ Owns(b, u)' = Owns(b, u)
      BY Zenon, <2>1, <3>2, <3>3, <3>4 DEF Takes, Owns
    <3>6. WillFlush(u)' = WillFlush(u)
      BY Zenon, <1>a, <2>1, <3>3, <3>4 DEF WillFlush
    <3>7. WillRecover(u)' => WillRecover(u)
      BY Zenon, <1>1, <1>a, <2>1, <3>1, <3>5, <3>6 DEF WillRecover
    <3> QED
      BY Zenon, <1>1, <1>a, <3>1, <3>5, <3>7 DEF Quiet
  <2> QED
    BY Zenon, <2>2, <2>3
<1> QED
  BY Zenon, <1>3, <1>4, <1>5

(* Ageing and the steps of the recovery job outside the loop. *)
LEMMA RecoveryQuiet ==
    ASSUME IInv, IInv', NEW u \in Tasks, NEW r \in Requests,
           Age(r) \/ listStaleCommitDispatchRequestIds \/ RecoverRequest(r) \/ RecoveryCrashes
    PROVE  Quiet(u)
<1>0. TypeOK
  BY Zenon DEF IInv
<1>a. /\ u[1] \in Agents /\ Recovery \in Agents /\ u[1] # Recovery
      /\ at[u[1]] # "idle" => rat[u[1]] = "flush"
      /\ at[u[1]] \in {"idle", "consume"} => todo[u[1]] = {}
      /\ u \in pend => u \in sched
      /\ at[Recovery] \in {"idle", "consume"} => todo[Recovery] = {}
  BY Zenon, AgentFacts
<1>1. CASE Age(r)
  <2>1. /\ rat[r] \notin {"run", "flush"} /\ old' = old \cup {r}
        /\ UNCHANGED <<row, sched, pend, jobs, rat, mem, at, req, todo, cur, stale, faults>>
    BY Zenon, <1>1 DEF Age, Live, effects, memory, loop
  <2>2. /\ (IsCleaned(u)' => IsCleaned(u)) /\ (Unsent(u)' => Unsent(u)) /\ (Queued(u)' => Queued(u))
        /\ WillFlush(u)' = WillFlush(u)
        /\ \A b \in Agents : Takes(b, u)' = Takes(b, u) /\ Owns(b, u)' = Owns(b, u)
    BY Zenon, <2>1 DEF IsCleaned, Unsent, Queued, WillFlush, Takes, Owns
  <2>3. Exposed(u[1])' => Exposed(u[1]) \/ u[1] = r
    BY Zenon, <2>1 DEF Exposed
  <2>4. UnsentExposed(u)' => UnsentExposed(u)
    BY Zenon, <2>1, <2>2, <2>3 DEF UnsentExposed, Unsent
  <2>5. u[1] = r => ~WillFlush(u) /\ ~Owns(u[1], u)
    BY Zenon, <1>a, <2>1 DEF WillFlush, Owns, Takes
  <2>6. WillRecover(u)' => WillRecover(u)
    BY Zenon, <1>a, <2>1, <2>2, <2>3, <2>5 DEF WillRecover
  <2> QED
    BY Zenon, <1>a, <2>1, <2>2, <2>4, <2>6 DEF Quiet
<1>2. CASE listStaleCommitDispatchRequestIds
  <2>1. /\ stale' = old
        /\ UNCHANGED <<row, sched, pend, old, jobs, rat, mem, at, req, todo, cur, faults>>
    BY Zenon, <1>2 DEF listStaleCommitDispatchRequestIds, store, effects, memory, loop
  <2>2. Exposed(u[1])' => Exposed(u[1])
    BY Zenon, <2>1 DEF Exposed
  <2>3. /\ (IsCleaned(u)' => IsCleaned(u)) /\ (Unsent(u)' => Unsent(u)) /\ (Queued(u)' => Queued(u))
        /\ WillFlush(u)' = WillFlush(u)
        /\ \A b \in Agents : Takes(b, u)' = Takes(b, u) /\ Owns(b, u)' = Owns(b, u)
    BY Zenon, <2>1 DEF IsCleaned, Unsent, Queued, WillFlush, Takes, Owns
  <2>4. (UnsentExposed(u)' => UnsentExposed(u)) /\ (WillRecover(u)' => WillRecover(u))
    BY Zenon, <1>a, <2>1, <2>2, <2>3 DEF UnsentExposed, WillRecover
  <2> QED
    BY Zenon, <1>a, <2>1, <2>3, <2>4 DEF Quiet
<1>3. CASE RecoverRequest(r)
  <2>1. /\ at[Recovery] = "idle" /\ r \in stale /\ stale' = stale \ {r}
        /\ req' = [req EXCEPT ![Recovery] = r] /\ at' = [at EXCEPT ![Recovery] = "consume"]
        /\ UNCHANGED <<row, sched, pend, old, jobs, rat, mem, todo, cur, faults>>
    BY Zenon, <1>3 DEF RecoverRequest, Go, store, effects, memory
  <2>2. at'[u[1]] = at[u[1]] /\ req'[Recovery] = r /\ at'[Recovery] = "consume"
    BY Zenon, <1>0, <1>a, <2>1 DEF TypeOK
  <2>3. Exposed(u[1])' => Exposed(u[1])
    BY Zenon, <2>1, <2>2 DEF Exposed
  <2>4. /\ (IsCleaned(u)' => IsCleaned(u)) /\ (Unsent(u)' => Unsent(u)) /\ (Queued(u)' => Queued(u))
        /\ WillFlush(u)' = WillFlush(u)
    BY Zenon, <2>1, <2>2 DEF IsCleaned, Unsent, Queued, WillFlush
  <2>5. /\ Takes(u[1], u)' = Takes(u[1], u) /\ Owns(u[1], u)' = Owns(u[1], u)
        /\ Takes(Recovery, u)' = Takes(Recovery, u) /\ Owns(Recovery, u)' = Owns(Recovery, u)
    BY Zenon, <2>1, <2>2 DEF Takes, Owns
  <2>6. (UnsentExposed(u)' => UnsentExposed(u)) /\ (WillRecover(u)' => WillRecover(u))
    BY Zenon, <2>1, <2>3, <2>4, <2>5 DEF UnsentExposed, WillRecover
  <2> QED
    BY Zenon, <2>1, <2>4, <2>5, <2>6 DEF Quiet
<1>4. CASE RecoveryCrashes
  <2>1. /\ at' = [at EXCEPT ![Recovery] = "idle"] /\ todo' = [todo EXCEPT ![Recovery] = {}]
        /\ stale' = {} /\ faults' = faults + 1
        /\ UNCHANGED <<row, sched, pend, old, jobs, rat, mem, req, cur>>
    BY Zenon, <1>4 DEF RecoveryCrashes, Fault, Go, store, effects, memory
  <2>2. /\ at'[u[1]] = at[u[1]] /\ todo'[u[1]] = todo[u[1]]
        /\ at'[Recovery] = "idle" /\ todo'[Recovery] = {}
    BY Zenon, <1>0, <1>a, <2>1 DEF TypeOK
  <2>3. Exposed(u[1])' => Exposed(u[1])
    BY Zenon, <2>1, <2>2 DEF Exposed
  <2>4. /\ (IsCleaned(u)' => IsCleaned(u)) /\ (Unsent(u)' => Unsent(u)) /\ (Queued(u)' => Queued(u))
        /\ WillFlush(u)' = WillFlush(u)
    BY Zenon, <2>1, <2>2 DEF IsCleaned, Unsent, Queued, WillFlush
  <2>5. Takes(u[1], u)' = Takes(u[1], u) /\ (Takes(Recovery, u)' => Takes(Recovery, u))
    BY Zenon, <2>1, <2>2 DEF Takes
  <2> QED
    BY Zenon, <2>1, <2>3, <2>4, <2>5 DEF Quiet, UnsentExposed
<1> QED
  BY Zenon, <1>1, <1>2, <1>3, <1>4

(* A request that outlives the two minutes pays for the recovery job that  *)
(* overtakes it.                                                           *)
LEMMA SlowBalanced ==
    ASSUME IInv, IInv', NEW u \in Tasks, NEW r \in Requests, SlowRequest(r)
    PROVE  Balanced(u)
<1>0. jobs[u] \in Nat /\ faults \in Nat
  BY DEF IInv, TypeOK
<1>1. /\ old' = old \cup {r} /\ faults' = faults + 1
      /\ UNCHANGED <<row, sched, pend, jobs, rat, mem, at, req, todo, cur, stale>>
  BY Zenon DEF SlowRequest, Fault, effects, memory, loop
<1>2. /\ IsCleaned(u)' = IsCleaned(u) /\ Unsent(u)' = Unsent(u) /\ Queued(u)' = Queued(u)
      /\ WillFlush(u)' = WillFlush(u) /\ Takes(u[1], u)' = Takes(u[1], u)
      /\ Takes(Recovery, u)' = Takes(Recovery, u)
  BY Zenon, <1>1 DEF IsCleaned, Unsent, Queued, WillFlush, Takes
<1>3. u \in pend => u \in sched
  BY Zenon, AgentFacts
<1>7. Unsent(u) => ~WillRecover(u)'
  BY Zenon, <1>1, <1>3 DEF Unsent, WillRecover
<1>5. Made(u)' = Made(u)
  BY Zenon, <1>1, <1>2 DEF Made, Ind
<1>6. Unsent(u) => Early(u)' <= Early(u) + 1 /\ Late(u)' <= Late(u)
  BY <1>2, <1>3, <1>7 DEF Early, Late, Ind
<1>8. ~Unsent(u) => Early(u)' <= Early(u) /\ Late(u)' <= Late(u) + 1
  BY <1>2 DEF Early, Late, Ind, UnsentExposed
<1> QED
  BY <1>0, <1>1, <1>5, <1>6, <1>8, Parts DEF IInv, Balanced, Outcomes

(* A task that is scheduled is in one place; in two after a failed append. *)
LEMMA ScheduleBalanced ==
    ASSUME IInv, IInv', NEW u \in Tasks, NEW r \in Requests, NEW t \in Tasks,
           scheduleCommitDispatch(r, t) \/ scheduleInMemory(r, t)
    PROVE  Balanced(u)
<1>0. jobs[u] \in Nat /\ faults \in Nat
  BY SMTT(20) DEF IInv, TypeOK
<1>a. /\ u[1] \in Agents /\ Recovery \in Agents
      /\ (u \in pend => u \in sched) /\ (u \in mem => u \in sched)
      /\ \A a \in Agents : Owns(a, u) => u \in sched
  BY Zenon, AgentFacts
<1>1. /\ rat[r] = "run" /\ t[1] = r /\ t \notin sched /\ sched' = sched \cup {t}
      /\ UNCHANGED <<row, jobs, rat, at, req, todo, cur, stale>>
  BY Zenon DEF scheduleCommitDispatch, scheduleInMemory, Unscheduled, Of, effects, loop
<1>2. /\ IsCleaned(u)' = IsCleaned(u)
      /\ \A b \in Agents : Takes(b, u)' = Takes(b, u) /\ Owns(b, u)' = Owns(b, u)
  BY Zenon, <1>1 DEF IsCleaned, Takes, Owns
<1>3. \/ /\ pend' = pend \cup {t} /\ old' = old \ {r} /\ UNCHANGED <<mem, faults>>
      \/ /\ mem' = mem \cup {t} /\ UNCHANGED <<pend, old, faults>>
      \/ /\ mem' = mem \cup {t} /\ pend' = pend \cup {t} /\ old' = old \ {r} /\ faults' = faults + 1
  BY Zenon DEF scheduleCommitDispatch, scheduleInMemory, appendCommitDispatchTask, Fault, store
<1>4. Exposed(u[1])' => Exposed(u[1])
  BY Zenon, <1>1, <1>3 DEF Exposed
<1>5. CASE u # t
  <2>1. (Unsent(u)' => Unsent(u)) /\ (UnsentExposed(u)' => UnsentExposed(u)) /\ (Queued(u)' => Queued(u))
    BY Zenon, <1>1, <1>3, <1>4, <1>5 DEF Unsent, UnsentExposed, Queued
  <2>2. (u \in pend' <=> u \in pend) /\ WillFlush(u)' = WillFlush(u)
    BY Zenon, <1>1, <1>3, <1>5 DEF WillFlush
  <2>3. WillRecover(u)' => WillRecover(u)
    BY Zenon, <1>a, <1>2, <1>4, <2>2 DEF WillRecover
  <2>4. jobs'[u] = jobs[u] /\ (faults' = faults \/ faults' = faults + 1)
    BY Zenon, <1>1, <1>3
  <2> QED
    BY Zenon, <1>a, <1>2, <2>1, <2>2, <2>3, <2>4, QuietIsBalanced DEF IInv, Quiet
<1>6. CASE u = t
  <2>1. /\ Unsent(u) /\ ~Unsent(u)' /\ ~UnsentExposed(u)' /\ (Exposed(u[1]) => UnsentExposed(u))
        /\ ~Queued(u) /\ ~WillFlush(u) /\ ~WillRecover(u)
    BY Zenon, <1>a, <1>1, <1>6 DEF Unsent, UnsentExposed, Queued, WillFlush, WillRecover
  <2>2. (u \in pend' => WillFlush(u)') /\ (WillRecover(u)' => u \in pend' /\ Exposed(u[1])')
    BY Zenon, <1>1, <1>6 DEF WillFlush, WillRecover
  <2>3. WillFlush(u)' => u \in pend'
    BY Zenon DEF WillFlush
  <2>4. \/ ~Queued(u)' /\ faults' = faults
        \/ u \notin pend' /\ faults' = faults
        \/ faults' = faults + 1
    BY Zenon, <1>a, <1>1, <1>3, <1>6 DEF Queued
  <2>5. jobs'[u] = jobs[u]
    BY Zenon, <1>1
  <2> QED
    <3>1. Made(u)' = Made(u)
      BY Zenon, <1>2, <2>5 DEF Made, Ind
    <3>2. /\ Queued(u)' => Early(u)' <= Early(u) - Ind(UnsentExposed(u))
          /\ ~Queued(u)' => Early(u)' <= Early(u) - 1 - Ind(UnsentExposed(u))
      BY <2>1 DEF Early, Ind
    <3>3. /\ u \in pend' => Late(u)' <= Late(u) + 1 + Ind(UnsentExposed(u))
          /\ u \notin pend' => Late(u)' <= Late(u)
      BY <1>a, <1>2, <1>4, <2>1, <2>2, <2>3 DEF Late, Ind
    <3>4. Ind(UnsentExposed(u)) \in {0, 1}
      BY Zenon DEF Ind
    <3> QED
      BY SMTT(20), <1>0, <2>4, <3>1, <3>2, <3>3, <3>4, Parts DEF IInv, Balanced, Outcomes
<1> QED
  BY Zenon, <1>5, <1>6

(* A read turns the right to read a task into the right to execute it. *)
LEMMA ConsumeBalanced ==
    ASSUME IInv, IInv', NEW u \in Tasks, NEW a \in Agents, consumeCommitDispatchTasks(a)
    PROVE  Balanced(u)
<1>0. TypeOK /\ jobs[u] \in Nat /\ faults \in Nat
  BY DEF IInv, TypeOK
<1>a. /\ u[1] \in Agents /\ Recovery \in Agents /\ u[1] # Recovery
      /\ req[u[1]] = u[1] /\ (at[u[1]] # "idle" => rat[u[1]] = "flush")
      /\ \A b \in Requests : req[b] = b
  BY Zenon, AgentFacts DEF IInv, Flushes
<1>b. todo[a] = {}
  BY Zenon DEF consumeCommitDispatchTasks, IInv, Lists
<1>1. /\ at[a] = "consume" /\ todo' = [todo EXCEPT ![a] = pend \cap Of(req[a])]
      /\ at' = [at EXCEPT ![a] = IF pend \cap Of(req[a]) = {} THEN "zrem" ELSE "next"]
      /\ UNCHANGED <<row, sched, pend, old, jobs, rat, mem, req, cur, stale, faults>>
  BY Zenon DEF consumeCommitDispatchTasks, Go, store, effects, memory
<1>2. \A b \in Agents : b # a => at'[b] = at[b] /\ todo'[b] = todo[b]
  BY Zenon, <1>0, <1>1 DEF TypeOK
<1>3. at'[a] \in {"zrem", "next"} /\ todo'[a] = pend \cap Of(req[a])
  BY Zenon, <1>0, <1>1 DEF TypeOK
<1>4. \A b \in Agents : b # a => Takes(b, u)' = Takes(b, u) /\ Owns(b, u)' = Owns(b, u)
  BY Zenon, <1>1, <1>2 DEF Takes, Owns
<1>5. /\ ~Takes(a, u) /\ ~Owns(a, u) /\ Takes(a, u)' = (u \in pend /\ u[1] = req[a])
      /\ Owns(a, u)' = (u \in pend /\ u[1] = req[a])
  BY Zenon, <1>b, <1>1, <1>3 DEF Takes, Owns, Of
<1>6. IsCleaned(u)' = IsCleaned(u) /\ Unsent(u)' = Unsent(u) /\ Queued(u)' = Queued(u)
  BY Zenon, <1>1 DEF IsCleaned, Unsent, Queued
<1>7. (Exposed(u[1])' => Exposed(u[1])) /\ (a # Recovery => Exposed(u[1])' = Exposed(u[1]))
  BY Zenon, <1>a, <1>1, <1>2, <1>3 DEF Exposed
<1>8. UnsentExposed(u)' => UnsentExposed(u)
  BY Zenon, <1>6, <1>7 DEF UnsentExposed
<1>13. Made(u)' = Made(u) /\ Early(u)' <= Early(u)
  BY <1>1, <1>6, <1>8 DEF Made, Early, Ind
<1>9. a # u[1] => WillFlush(u)' = WillFlush(u)
  BY Zenon, <1>a, <1>1, <1>2 DEF WillFlush
<1>10. a = u[1] => WillFlush(u) = (u \in pend) /\ ~WillFlush(u)'
  BY <1>a, <1>1, <1>3 DEF WillFlush
<1>11. CASE u \in pend /\ u[1] = req[a]
  <2>1. CASE a = Recovery
    <3>1. Exposed(u[1])
      BY Zenon, <1>1, <1>11, <2>1 DEF Exposed
    <3>2. WillRecover(u) /\ ~WillRecover(u)'
      BY Zenon, <1>5, <1>11, <2>1, <3>1 DEF WillRecover
    <3> QED
      <4>1. Late(u)' <= Late(u)
        BY SMTT(20), <1>a, <1>4, <1>5, <1>9, <1>11, <2>1, <3>2 DEF Late, Ind
      <4> QED
        BY SMTT(20), <1>0, <1>1, <1>13, <4>1, Parts DEF IInv, Balanced, Outcomes
  <2>2. CASE a # Recovery
    <3>1. a = u[1]
      BY Zenon, <1>a, <1>11, <2>2 DEF Agents
    <3>2. WillRecover(u)' => WillRecover(u)
      BY Zenon, <1>a, <1>1, <1>4, <1>5, <1>7, <1>11, <2>2, <3>1 DEF WillRecover
    <3> QED
      <4>1. Late(u)' <= Late(u)
        BY <1>a, <1>4, <1>5, <1>10, <1>11, <2>2, <3>1, <3>2 DEF Late, Ind
      <4> QED
        BY <1>0, <1>1, <1>13, <4>1, Parts DEF IInv, Balanced, Outcomes
  <2> QED
    BY Zenon, <2>1, <2>2
<1>12. CASE ~(u \in pend /\ u[1] = req[a])
  <2>1. a = u[1] => u \notin pend
    BY Zenon, <1>a, <1>12
  <2>2. \A b \in Agents : (Takes(b, u)' <=> Takes(b, u)) /\ (Owns(b, u)' <=> Owns(b, u))
    BY Zenon, <1>4, <1>5, <1>12
  <2>3. WillFlush(u)' <=> WillFlush(u)
    BY Zenon, <1>9, <1>10, <2>1
  <2>4. WillRecover(u)' => WillRecover(u)
    BY Zenon, <1>a, <1>1, <1>7, <2>2, <2>3 DEF WillRecover
  <2> QED
    <3>0. (Takes(u[1], u)' <=> Takes(u[1], u)) /\ (Takes(Recovery, u)' <=> Takes(Recovery, u))
      BY Zenon, <1>a, <2>2
    <3>1. Late(u)' <= Late(u)
      BY <2>3, <2>4, <3>0 DEF Late, Ind
    <3> QED
      BY <1>0, <1>1, <1>13, <3>1, Parts DEF IInv, Balanced, Outcomes
<1> QED
  BY Zenon, <1>11, <1>12

(* An execution turns the right to execute into an outcome, or a fault     *)
(* pays for the second one.                                                *)
LEMMA ExecuteBalanced ==
    ASSUME IInv, IInv', Once, NEW u \in Tasks, NEW a \in Agents,
           executeCommitDispatchTask(a) \/ ExecuteFails(a)
    PROVE  Balanced(u)
<1>0. TypeOK /\ jobs[u] \in Nat /\ faults \in Nat
  BY DEF IInv, TypeOK
<1>a. /\ u[1] \in Agents /\ Recovery \in Agents /\ u[1] # Recovery
      /\ \A b \in Agents : Owns(b, u) => req[b] = u[1]
      /\ \A b \in Requests : req[b] = b
  BY Zenon, AgentFacts DEF IInv, Flushes
<1>1. /\ at[a] = "exec" /\ cur[a] \in Tasks /\ cur[a] \notin todo[a]
      /\ UNCHANGED <<sched, pend, old, rat, mem, req, todo, cur, stale>>
  BY Zenon, <1>0 DEF executeCommitDispatchTask, ExecuteFails, Once, store, memory, TypeOK
<1>2. /\ at'[a] \in {"lrem", "next"}
      /\ \A b \in Agents : b # a => at'[b] = at[b]
  BY SMTT(20), <1>0 DEF executeCommitDispatchTask, ExecuteFails, Go, TypeOK
<1>3. \A b \in Agents : b # a => Takes(b, u)' = Takes(b, u) /\ Owns(b, u)' = Owns(b, u)
  BY Zenon, <1>1, <1>2 DEF Takes, Owns
<1>4. /\ Takes(a, u)' = (u \in todo[a]) /\ (u = cur[a] => Takes(a, u) /\ ~Takes(a, u)')
      /\ u # cur[a] => Takes(a, u)' = Takes(a, u) /\ Owns(a, u)' = Owns(a, u)
  BY <1>1, <1>2 DEF Takes, Owns
<1>5. Unsent(u)' = Unsent(u) /\ Queued(u)' = Queued(u)
  BY Zenon, <1>1 DEF Unsent, Queued
<1>6. Exposed(u[1])' = Exposed(u[1]) /\ WillFlush(u)' = WillFlush(u)
  BY Zenon, <1>a, <1>1, <1>2 DEF Exposed, WillFlush
<1>7. UnsentExposed(u)' = UnsentExposed(u)
  BY Zenon, <1>5, <1>6 DEF UnsentExposed
<1>10. Early(u)' = Early(u)
  BY Zenon, <1>5, <1>7 DEF Early, Ind
<1>8. CASE u # cur[a]
  <2>1. jobs'[u] = jobs[u] /\ IsCleaned(u)' = IsCleaned(u)
    BY Zenon, <1>0, <1>1, <1>8 DEF executeCommitDispatchTask, ExecuteFails, AddJob, CleanRow, IsCleaned, TypeOK
  <2>2. faults' = faults \/ faults' = faults + 1
    BY Zenon DEF executeCommitDispatchTask, ExecuteFails, Fault
  <2>3. \A b \in Agents : Takes(b, u)' = Takes(b, u) /\ Owns(b, u)' = Owns(b, u)
    BY Zenon, <1>3, <1>4, <1>8
  <2>4. WillRecover(u)' = WillRecover(u)
    BY Zenon, <1>a, <1>1, <1>6, <2>3 DEF WillRecover
  <2> QED
    BY Zenon, <1>a, <1>5, <1>6, <1>7, <2>1, <2>2, <2>3, <2>4, QuietIsBalanced DEF IInv, Quiet
<1>9. CASE u = cur[a]
  <2>1. a = u[1] \/ a = Recovery
    BY Zenon, <1>a, <1>4, <1>9 DEF Owns, Agents
  <2>2. at'[a] = "lrem" => WillRecover(u)' = WillRecover(u)
    <3>1. Owns(a, u) /\ (at'[a] = "lrem" => Owns(a, u)')
      BY Zenon, <1>1, <1>4, <1>9 DEF Owns
    <3> QED
      BY Zenon, <1>a, <1>1, <1>3, <1>6, <2>1, <3>1 DEF WillRecover
  <2>5. /\ Takes(u[1], u)' => Takes(u[1], u)
        /\ Takes(Recovery, u)' => Takes(Recovery, u)
        /\ (Takes(u[1], u) /\ ~Takes(u[1], u)') \/ (Takes(Recovery, u) /\ ~Takes(Recovery, u)')
        /\ WillFlush(u)' <=> WillFlush(u)
    BY Zenon, <1>a, <1>3, <1>4, <1>6, <1>9, <2>1
  <2>6. Late(u)' <= Late(u) /\ (at'[a] = "lrem" => Late(u)' <= Late(u) - 1)
    BY SMTT(20), <2>2, <2>5 DEF Late, Ind
  <2>3. CASE executeCommitDispatchTask(a)
    <3>1. jobs'[u] = jobs[u] + 1 /\ IsCleaned(u)' = IsCleaned(u) /\ faults' = faults /\ at'[a] = "lrem"
      BY Zenon, <1>0, <1>1, <1>9, <2>3 DEF executeCommitDispatchTask, AddJob, Go, IsCleaned, TypeOK
    <3> QED
      <4>1. Made(u)' = Made(u) + 1
        BY SMTT(20), <1>0, <3>1 DEF Made, Ind
      <4> QED
        BY SMTT(20), <1>0, <1>10, <2>6, <3>1, <4>1, Parts DEF IInv, Balanced, Outcomes
  <2>4. CASE ExecuteFails(a)
    <3>1. jobs'[u] \in {jobs[u], jobs[u] + 1} /\ faults' = faults + 1
      BY <1>0, <1>1, <1>9, <2>4 DEF ExecuteFails, Fault, TypeOK
    <3>2. at'[a] = "lrem" \/ IsCleaned(u)' = IsCleaned(u)
      BY Zenon, <1>0, <2>4 DEF ExecuteFails, Go, IsCleaned, TypeOK
    <3> QED
      <4>1. /\ Made(u)' <= Made(u) + 2
            /\ at'[a] # "lrem" => Made(u)' <= Made(u) + 1
        BY SMTT(20), <1>0, <3>1, <3>2 DEF Made, Ind
      <4> QED
        BY SMTT(20), <1>0, <1>10, <2>6, <3>1, <4>1, Parts DEF IInv, Balanced, Outcomes
  <2> QED
    BY Zenon, <2>3, <2>4
<1> QED
  BY Zenon, <1>8, <1>9

(* A task in memory is executed once. *)
LEMMA MemoryBalanced ==
    ASSUME IInv, IInv', NEW u \in Tasks, NEW r \in Requests, RunInMemory(r)
    PROVE  Balanced(u)
<1>0. TypeOK /\ jobs[u] \in Nat /\ faults \in Nat
  BY DEF IInv, TypeOK
<1>a. /\ u[1] \in Agents /\ Recovery \in Agents /\ u[1] # Recovery /\ r \in Agents /\ r # Recovery
      /\ at[u[1]] # "idle" => rat[u[1]] = "flush"
  BY Zenon, AgentFacts, BoundsAssumption DEF Agents
<1>1. at[r] = "memory" /\ UNCHANGED <<sched, pend, old, req, todo, cur, stale>>
  BY Zenon DEF RunInMemory, store
<1>2. CASE mem \cap Of(r) = {}
  <2>1. /\ at' = [at EXCEPT ![r] = "idle"] /\ rat' = [rat EXCEPT ![r] = "done"]
        /\ UNCHANGED <<row, jobs, mem, faults>>
    BY Zenon, <1>2 DEF RunInMemory, Go, effects
  <2>2. /\ at'[Recovery] = at[Recovery]
        /\ \/ at'[u[1]] = at[u[1]] /\ rat'[u[1]] = rat[u[1]]
           \/ at[u[1]] = "memory" /\ at'[u[1]] = "idle" /\ rat[u[1]] # "run" /\ rat'[u[1]] # "run"
    BY <1>0, <1>a, <1>1, <2>1 DEF TypeOK
  <2>3. /\ IsCleaned(u)' = IsCleaned(u) /\ Unsent(u)' = Unsent(u) /\ Queued(u)' = Queued(u)
        /\ Exposed(u[1])' = Exposed(u[1]) /\ WillFlush(u)' = WillFlush(u)
    BY Zenon, <1>1, <2>1, <2>2 DEF IsCleaned, Unsent, Queued, Exposed, WillFlush
  <2>4. /\ Takes(u[1], u)' = Takes(u[1], u) /\ Owns(u[1], u)' = Owns(u[1], u)
        /\ Takes(Recovery, u)' = Takes(Recovery, u) /\ Owns(Recovery, u)' = Owns(Recovery, u)
    BY Zenon, <1>1, <2>2 DEF Takes, Owns
  <2>5. UnsentExposed(u)' = UnsentExposed(u) /\ WillRecover(u)' = WillRecover(u)
    BY Zenon, <1>1, <2>3, <2>4 DEF UnsentExposed, WillRecover
  <2> QED
    BY Zenon, <2>1, <2>3, <2>4, <2>5, QuietIsBalanced DEF IInv, Quiet
<1>3. CASE mem \cap Of(r) # {}
  <2> DEFINE t == First(mem \cap Of(r))
  <2>1. /\ mem' = mem \ {t} /\ UNCHANGED <<at, rat>>
        /\ \/ jobs' = [jobs EXCEPT ![t] = @ + 1] /\ UNCHANGED <<row, faults>>
           \/ /\ faults' = faults + 1
              /\ \E added \in {0, 1} : jobs' = [jobs EXCEPT ![t] = @ + added]
              /\ row' = row \/ row' = [row EXCEPT ![t] = IF @ = "committed" THEN "cleaned" ELSE @]
    BY Zenon, <1>3 DEF RunInMemory, AddJob, Fault, CleanRow
  <2>2. t \in mem
    BY <1>0, <1>3, FirstOf DEF TypeOK
  <2> HIDE DEF t
  <2>3. /\ Unsent(u)' = Unsent(u) /\ Exposed(u[1])' = Exposed(u[1]) /\ WillFlush(u)' = WillFlush(u)
        /\ \A b \in Agents : Takes(b, u)' = Takes(b, u) /\ Owns(b, u)' = Owns(b, u)
    BY Zenon, <1>1, <2>1 DEF Unsent, Exposed, WillFlush, Takes, Owns
  <2>4. UnsentExposed(u)' = UnsentExposed(u) /\ WillRecover(u)' = WillRecover(u)
    BY Zenon, <1>a, <1>1, <2>3 DEF UnsentExposed, WillRecover
  <2>5. CASE u = t
    <3>1. Queued(u) /\ ~Queued(u)'
      BY Zenon, <2>1, <2>2, <2>5 DEF Queued
    <3>2. \/ jobs'[u] = jobs[u] + 1 /\ faults' = faults /\ IsCleaned(u)' = IsCleaned(u)
          \/ jobs'[u] \in {jobs[u], jobs[u] + 1} /\ faults' = faults + 1
      BY <1>0, <2>1, <2>5 DEF IsCleaned, TypeOK
    <3> QED
      <4>1. Made(u)' <= Made(u) + 1 + (faults' - faults)
        BY <1>0, <3>2 DEF Made, Ind
      <4>2. Early(u)' = Early(u) - 1
        BY SMTT(20), <2>3, <2>4, <3>1 DEF Early, Ind
      <4>3. Late(u)' = Late(u)
        BY Zenon, <1>a, <2>3, <2>4 DEF Late, Ind
      <4> QED
        BY <1>0, <4>1, <4>2, <4>3, Parts DEF IInv, Balanced, Outcomes
  <2>6. CASE u # t
    <3>1. Queued(u)' = Queued(u)
      BY <2>1, <2>6 DEF Queued
    <3>2. jobs'[u] = jobs[u] /\ IsCleaned(u)' = IsCleaned(u) /\ (faults' = faults \/ faults' = faults + 1)
      BY Zenon, <1>0, <2>1, <2>6 DEF IsCleaned, TypeOK
    <3> QED
      BY Zenon, <1>a, <2>3, <2>4, <3>1, <3>2, QuietIsBalanced DEF IInv, Quiet
  <2> QED
    BY Zenon, <2>5, <2>6
<1> QED
  BY Zenon, <1>2, <1>3

(* No agent has read a task twice. *)
LEMMA StepOnce == IInv /\ Once /\ [Next]_vars => Once'
<1> SUFFICES ASSUME IInv, Once, [Next]_vars, NEW b \in Agents, at'[b] = "exec"
             PROVE  cur'[b] \notin todo'[b]
  BY Zenon DEF Once
<1>0. TypeOK
  BY Zenon DEF IInv
<1>1. ASSUME at'[b] = at[b], UNCHANGED <<todo, cur>> PROVE cur'[b] \notin todo'[b]
  BY Zenon, <1>1 DEF Once
<1>2. ASSUME NEW r \in Requests, RunInMemory(r) \/ flushOnCommit(r) \/ Crash(r) PROVE cur'[b] \notin todo'[b]
  <2>1. PICK step : (at' = [at EXCEPT ![r] = step] /\ step # "exec") \/ at' = at
    BY Zenon, <1>2 DEF RunInMemory, flushOnCommit, Crash, Go
  <2>2. at'[b] = at[b]
    BY Zenon, <1>0, <2>1 DEF TypeOK
  <2>3. cur' = cur /\ todo'[b] \subseteq todo[b]
    BY Zenon, <1>0, <1>2 DEF RunInMemory, flushOnCommit, Crash, TypeOK
  <2> QED
    BY Zenon, <2>2, <2>3 DEF Once
<1>3. ASSUME NEW a \in Agents, LoopStep(a) \/ LoopFault(a) PROVE cur'[b] \notin todo'[b]
  <2>1. CASE NextTask(a)
    <3>1. CASE b = a
      BY <1>0, <2>1, <3>1 DEF NextTask, Go, After, TypeOK
    <3>2. CASE b # a
      <4>1. at'[b] = at[b] /\ cur'[b] = cur[b] /\ todo'[b] = todo[b]
        BY Zenon, <1>0, <2>1, <3>2 DEF NextTask, Go, TypeOK
      <4> QED
        BY Zenon, <4>1 DEF Once
    <3> QED
      BY Zenon, <3>1, <3>2
  <2>2. CASE ~NextTask(a)
    <3>1. PICK step : at' = [at EXCEPT ![a] = step] /\ step # "exec"
      BY Zenon, <1>3, <2>2 DEF LoopStep, LoopFault, Go, After, consumeCommitDispatchTasks, ConsumeEmpty,
           executeCommitDispatchTask, AckLrem, AckLlen, AckDel, ConsumeFails, ExecuteFails, AckFails
    <3>2. b # a /\ at'[b] = at[b]
      BY Zenon, <1>0, <3>1 DEF TypeOK
    <3>3. cur' = cur /\ todo'[b] = todo[b]
      BY Zenon, <1>0, <1>3, <2>2, <3>2 DEF LoopStep, LoopFault, consumeCommitDispatchTasks, ConsumeEmpty,
           executeCommitDispatchTask, AckLrem, AckLlen, AckDel, ConsumeFails, ExecuteFails, AckFails, TypeOK
    <3> QED
      BY Zenon, <3>2, <3>3 DEF Once
  <2> QED
    BY Zenon, <2>1, <2>2
<1>4. ASSUME NEW r \in Requests, NEW t \in Tasks,
             \/ WriteRow(r, t) \/ Commit(r) \/ Rollback(r) \/ scheduleCommitDispatch(r, t)
             \/ scheduleInMemory(r, t) \/ Age(r) \/ SlowRequest(r) \/ listStaleCommitDispatchRequestIds
      PROVE  cur'[b] \notin todo'[b]
  <2>1. UNCHANGED <<at, todo, cur>>
    BY Zenon, <1>4 DEF WriteRow, Commit, Rollback, scheduleCommitDispatch, scheduleInMemory, Age, SlowRequest,
         listStaleCommitDispatchRequestIds, loop
  <2> QED
    BY Zenon, <1>1, <2>1
<1>5. ASSUME NEW r \in Requests, RecoverRequest(r) \/ RecoveryCrashes PROVE cur'[b] \notin todo'[b]
  <2>1. at'[b] = at[b] /\ cur' = cur /\ todo'[b] \subseteq todo[b]
    BY Zenon, <1>0, <1>5 DEF RecoverRequest, RecoveryCrashes, Go, TypeOK
  <2> QED
    BY Zenon, <2>1 DEF Once
<1>6. CASE UNCHANGED vars
  BY Zenon, <1>1, <1>6 DEF vars, loop
<1>7. PICK r \in Requests : <<r, 1>> \in Tasks
  BY BoundsAssumption DEF Tasks
<1>8. Recovery \in Agents /\ Requests \subseteq Agents
  BY Zenon DEF Agents
<1> QED
  BY Zenon, <1>2, <1>3, <1>4, <1>5, <1>6, <1>7, <1>8 DEF Next, RequestStep, Recover

(* Every step keeps the accounts. *)
LEMMA StepAccounts == IInv /\ IInv' /\ Accounts /\ [Next]_vars => Accounts'
<1> SUFFICES ASSUME IInv, IInv', Accounts, [Next]_vars PROVE Accounts'
  OBVIOUS
<1>1. Once /\ Once'
  BY Zenon, StepOnce DEF Accounts
<1>2. ASSUME NEW u \in Tasks, Balanced(u) PROVE Outcomes(u)' <= 1 + faults'
  <2>1. Outcomes(u) <= 1 + faults /\ jobs[u] \in Nat /\ jobs'[u] \in Nat /\ faults \in Nat /\ faults' \in Nat
    BY DEF Accounts, IInv, TypeOK
  <2>2. Outcomes(u) \in Nat /\ Outcomes(u)' \in Nat
    BY Parts DEF IInv, Outcomes
  <2> QED
    BY SMTT(20), <1>2, <2>1, <2>2 DEF Balanced
<1>3. faults' = faults \/ faults' = faults + 1
  <2>1. ASSUME NEW r \in Requests, NEW t \in Tasks,
               \/ WriteRow(r, t) \/ Commit(r) \/ Rollback(r) \/ scheduleCommitDispatch(r, t)
               \/ scheduleInMemory(r, t) \/ flushOnCommit(r) \/ Crash(r) \/ RunInMemory(r)
        PROVE  faults' = faults \/ faults' = faults + 1
    BY Zenon, <2>1 DEF WriteRow, Commit, Rollback, scheduleCommitDispatch, scheduleInMemory, flushOnCommit,
         Crash, RunInMemory, Fault
  <2>2. ASSUME NEW a \in Agents, LoopStep(a) \/ LoopFault(a)
        PROVE  faults' = faults \/ faults' = faults + 1
    BY Zenon, <2>2 DEF LoopStep, LoopFault, consumeCommitDispatchTasks, ConsumeEmpty, NextTask,
         executeCommitDispatchTask, AckLrem, AckLlen, AckDel, ConsumeFails, ExecuteFails, AckFails, Fault
  <2>3. ASSUME NEW r \in Requests,
               \/ Age(r) \/ SlowRequest(r) \/ listStaleCommitDispatchRequestIds \/ RecoverRequest(r)
               \/ RecoveryCrashes \/ UNCHANGED vars
        PROVE  faults' = faults \/ faults' = faults + 1
    BY Zenon, <2>3 DEF Age, SlowRequest, listStaleCommitDispatchRequestIds, RecoverRequest, RecoveryCrashes, Fault, vars
  <2>4. PICK r \in Requests : <<r, 1>> \in Tasks
    BY BoundsAssumption DEF Tasks
  <2>5. Recovery \in Agents /\ Requests \subseteq Agents
    BY Zenon DEF Agents
  <2> QED
    BY Zenon, <2>1, <2>2, <2>3, <2>4, <2>5 DEF Next, RequestStep, Recover
<1>4. ASSUME NEW u \in Tasks PROVE Balanced(u)
  <2>0. Quiet(u) => Balanced(u)
    BY Zenon, <1>3, QuietIsBalanced DEF IInv
  <2>1. ASSUME NEW r \in Requests, NEW t \in Tasks,
               \/ WriteRow(r, t) \/ Commit(r) \/ Rollback(r) \/ scheduleCommitDispatch(r, t)
               \/ scheduleInMemory(r, t) \/ flushOnCommit(r) \/ Crash(r) \/ RunInMemory(r)
        PROVE  Balanced(u)
    BY Zenon, <2>0, <2>1, HandlerQuiet, ScheduleBalanced, MemoryBalanced
  <2>2. ASSUME NEW a \in Agents, LoopStep(a) \/ LoopFault(a) PROVE Balanced(u)
    BY Zenon, <1>1, <2>0, <2>2, LoopQuiet, ConsumeBalanced, ExecuteBalanced DEF LoopStep, LoopFault
  <2>3. ASSUME NEW r \in Requests,
               \/ Age(r) \/ SlowRequest(r) \/ listStaleCommitDispatchRequestIds \/ RecoverRequest(r)
               \/ RecoveryCrashes
        PROVE  Balanced(u)
    BY Zenon, <2>0, <2>3, RecoveryQuiet, SlowBalanced
  <2>4. CASE UNCHANGED vars
    <3>1. Quiet(u)
      BY Zenon, <2>4 DEF vars, store, effects, memory, loop, Quiet, IsCleaned, Unsent, UnsentExposed, Exposed,
           Queued, Takes, Owns, WillFlush, WillRecover
    <3> QED
      BY Zenon, <2>0, <3>1
  <2>5. PICK r \in Requests : <<r, 1>> \in Tasks
    BY BoundsAssumption DEF Tasks
  <2>6. Recovery \in Agents /\ Requests \subseteq Agents
    BY Zenon DEF Agents
  <2> QED
    BY Zenon, <2>1, <2>2, <2>3, <2>4, <2>5, <2>6 DEF Next, RequestStep, Recover
<1> QED
  BY Zenon, <1>1, <1>2, <1>4 DEF Accounts

(* At the start a task has no outcome, and one way to get one. *)
LEMMA InitAccounts == Init => Accounts
<1> SUFFICES ASSUME Init PROVE Accounts
  OBVIOUS
<1>1. Once
  BY Zenon DEF Init, Once
<1>2. ASSUME NEW t \in Tasks PROVE Outcomes(t) <= 1 + faults
  <2>1. t[1] \in Agents /\ Recovery \in Agents
    BY Zenon, TaskFact DEF Agents
  <2>2. /\ ~IsCleaned(t) /\ ~Queued(t) /\ ~WillFlush(t) /\ ~WillRecover(t)
        /\ ~Takes(t[1], t) /\ ~Takes(Recovery, t) /\ jobs[t] = 0 /\ faults = 0
    BY Zenon, <2>1 DEF Init, IsCleaned, Queued, WillFlush, WillRecover, Takes
  <2>3. ~UnsentExposed(t)
    BY Zenon, <2>1 DEF Init, UnsentExposed, Exposed
  <2> QED
    <3>1. Made(t) = 0 /\ Early(t) <= 1 /\ Late(t) = 0
      BY <2>2, <2>3 DEF Made, Early, Late, Ind
    <3>2. Early(t) \in Nat
      BY DEF Early, Ind
    <3> QED
      BY SMTT(20), <2>2, <3>1, <3>2 DEF Outcomes
<1> QED
  BY Zenon, <1>1, <1>2 DEF Accounts

(* A task ends in one job, or in the clean-up of its row; each further     *)
(* outcome is paid for by a fault.                                         *)
THEOREM OutcomesNeedFaults == Spec => []SecondOutcomeNeedsFault
<1>1. IInv /\ Accounts => SecondOutcomeNeedsFault
  <2> SUFFICES ASSUME IInv, Accounts, NEW t \in Tasks
               PROVE  jobs[t] + (IF row[t] = "cleaned" THEN 1 ELSE 0) <= 1 + faults
    BY Zenon DEF SecondOutcomeNeedsFault
  <2>1. jobs[t] \in Nat /\ faults \in Nat /\ Outcomes(t) <= 1 + faults
    BY DEF IInv, TypeOK, Accounts
  <2> QED
    <3>1. Made(t) = jobs[t] + (IF row[t] = "cleaned" THEN 1 ELSE 0) /\ Made(t) \in Nat
      BY <2>1 DEF Made, Ind, IsCleaned
    <3>2. Early(t) \in Nat /\ Late(t) \in Nat
      BY DEF Early, Late, Ind
    <3> QED
      BY <2>1, <3>1, <3>2 DEF Outcomes
<1> QED
  BY <1>1, InitAccounts, StepAccounts, Invariance, PTL DEF Spec
=============================================================================
