-------------------------- MODULE SingleUseProofs ---------------------------
(***************************************************************************)
(* What a caller presents counts once: proofs about Idempotency and about  *)
(* Credentials, for any number of requests, keys, secrets and sessions.    *)
(*                                                                         *)
(* The entries of the idempotency store say who wrote them (KeyIInv).      *)
(*                                                                         *)
(* Of a credential, Spending says that whoever may still succeed with a    *)
(* one-time thing has taken it for good and is alone; Budget, that the     *)
(* requests between the count and the comparison are within the budget;    *)
(* Flags, that what deleteMfa has read under the lock is what there is.    *)
(***************************************************************************)
EXTENDS Idempotency, Credentials, TLAPS

-----------------------------------------------------------------------------
(* Idempotency.                                                            *)
(* The strengthening: what an entry says of the request that wrote it.     *)

\* Before its claim is decided a keyed request has answered nothing.
Undecided ==
    \A r \in Requests :
        /\ phase[r] = "idle" => key[r] = NoKey
        /\ phase[r] \in {"get", "cap", "setnx", "race"} => key[r] \in CacheKeys
        /\ phase[r] \in {"idle", "get", "cap", "setnx", "race", "handler"} => reply[r] = Nothing
        /\ phase[r] # "idle" /\ key[r] # NoKey => body[r] \in Fingerprints

\* An entry carries the key and the payload of its writer.
EntryOfWriter ==
    \A k \in CacheKeys : cache[k] # Absent =>
        /\ cache[k].state # "absent"
        /\ cache[k].by \in Requests
        /\ key[cache[k].by] = k
        /\ cache[k].fp = body[cache[k].by]

\* A completed entry was written by a committed success.
CompletedIsSuccess ==
    \A k \in CacheKeys : cache[k].state = "completed" =>
        /\ committed[cache[k].by]
        /\ reply[cache[k].by] = "ok"
        /\ phase[cache[k].by] = "done"

\* So is every snapshot waiting to be written.
PendingIsSuccess ==
    \A r \in Requests : pending[r] =>
        /\ phase[r] = "responded"
        /\ key[r] # NoKey
        /\ committed[r]
        /\ reply[r] = "ok"

\* A success is answered after its commit, and a replay ends its request.
Answered ==
    \A r \in Requests :
        /\ reply[r] = "ok" => committed[r] /\ phase[r] \in {"responded", "done"}
        /\ reply[r] = "replay" => phase[r] = "done"

\* Unless handlers outlive the TTL, a live claim is in the cache.
HolderOwnsEntry ==
    ~SlowHandlers => \A r \in Requests : Holding(r) => cache[key[r]] = InFlight(r)

KeyIInv ==
    /\ KeyTypeOK
    /\ Undecided
    /\ EntryOfWriter
    /\ CompletedIsSuccess
    /\ PendingIsSuccess
    /\ Answered
    /\ HolderOwnsEntry
    /\ ReplayIsGenuine

-----------------------------------------------------------------------------
USE DEF Nothing, NoKey

LEMMA KeyInitIInv == KeyInit => KeyIInv
BY KeyAssumption, CapAssumption
DEF KeyInit, KeyIInv, KeyTypeOK, Undecided, EntryOfWriter, CompletedIsSuccess,
    PendingIsSuccess, Answered, HolderOwnsEntry, ReplayIsGenuine, Holding,
    Entries, Absent, InFlight, Phases, Replies

(***************************************************************************)
(* The final write of a request, the one that may overwrite or delete what *)
(* others wrote: by HolderOwnsEntry it meets only its own entry.           *)
(***************************************************************************)
LEMMA OnResponseKeepsIInv ==
    ASSUME KeyIInv, NEW r \in Requests, NEW stored \in BOOLEAN, OnResponse(r, stored)
    PROVE  KeyIInv'
<1> USE KeyAssumption, CapAssumption DEF OnResponse
<1>1. KeyTypeOK'
  <2>1. key[r] # NoKey => Completed(r) \in Entries /\ Absent \in Entries
    BY Zenon DEF KeyIInv, KeyTypeOK, Undecided, Entries, Completed, Absent
  <2>2. cache' \in [CacheKeys -> Entries]
    BY Zenon, <2>1 DEF KeyIInv, KeyTypeOK
  <2>. QED BY Zenon, <2>2 DEF KeyIInv, KeyTypeOK, Phases
<1>2. Undecided'
  BY Zenon DEF KeyIInv, KeyTypeOK, Undecided, Phases
<1>3. EntryOfWriter'
  BY DEF KeyIInv, KeyTypeOK, EntryOfWriter, Completed, Absent
<1>4. CompletedIsSuccess'
  BY DEF KeyIInv, KeyTypeOK, EntryOfWriter, CompletedIsSuccess, PendingIsSuccess, Completed, Absent
<1>5. PendingIsSuccess' /\ Answered' /\ ReplayIsGenuine'
  BY DEF KeyIInv, KeyTypeOK, PendingIsSuccess, Answered, ReplayIsGenuine
<1>6. HolderOwnsEntry'
  <2>. SUFFICES ASSUME ~SlowHandlers, NEW q \in Requests, Holding(q)'
                PROVE  cache'[key[q]] = InFlight(q)
    BY Zenon DEF HolderOwnsEntry, InFlight
  <2>1. q # r /\ Holding(q) /\ key[q] \in CacheKeys
    BY Zenon DEF Holding, KeyIInv, KeyTypeOK
  <2>2. cache[key[q]] = InFlight(q)
    BY Zenon, <2>1 DEF KeyIInv, HolderOwnsEntry
  <2>3. key[q] # key[r]
    <3>1. Holding(r) => cache[key[r]] = InFlight(r)
      BY Zenon DEF KeyIInv, HolderOwnsEntry
    <3>2. InFlight(q) # InFlight(r)
      BY Zenon, <2>1 DEF InFlight
    <3>. QED BY Zenon, <2>1, <2>2, <3>1, <3>2 DEF Holding
  <2>. QED BY Zenon, <2>1, <2>2, <2>3 DEF KeyIInv, KeyTypeOK
<1>. QED BY Zenon, <1>1, <1>2, <1>3, <1>4, <1>5, <1>6 DEF KeyIInv

LEMMA KeyNextIInv == KeyIInv /\ [KeyNext]_keyVars => KeyIInv'
<1> SUFFICES ASSUME KeyIInv, [KeyNext]_keyVars PROVE KeyIInv'
  OBVIOUS
<1>1. ASSUME NEW r \in Requests, NEW k \in CacheKeys \cup {NoKey}, NEW f \in Fingerprints, Arrive(r, k, f) PROVE KeyIInv'
  BY <1>1, KeyAssumption, CapAssumption
  DEF Arrive, KeyIInv, KeyTypeOK, Undecided, EntryOfWriter, CompletedIsSuccess,
      PendingIsSuccess, Answered, HolderOwnsEntry, ReplayIsGenuine, Holding,
      Entries, Absent, InFlight, Phases, Replies
<1>2. ASSUME NEW r \in Requests, Reject(r) PROVE KeyIInv'
  BY <1>2, KeyAssumption, CapAssumption
  DEF Reject, Answer, KeyIInv, KeyTypeOK, Undecided, EntryOfWriter, CompletedIsSuccess,
      PendingIsSuccess, Answered, HolderOwnsEntry, ReplayIsGenuine, Holding,
      Entries, Absent, InFlight, Phases, Replies
<1>3. ASSUME NEW r \in Requests, ClaimGet(r) PROVE KeyIInv'
  BY SMTT(60), <1>3, KeyAssumption, CapAssumption
  DEF ClaimGet, Serve, SendReplay, Answer, KeyIInv, KeyTypeOK, Undecided, EntryOfWriter, CompletedIsSuccess,
      PendingIsSuccess, Answered, HolderOwnsEntry, ReplayIsGenuine, Holding,
      Entries, Absent, InFlight, Phases, Replies
<1>4. ASSUME NEW r \in Requests, EnforceCap(r) PROVE KeyIInv'
  BY <1>4, KeyAssumption, CapAssumption
  DEF EnforceCap, Answer, KeyIInv, KeyTypeOK, Undecided, EntryOfWriter, CompletedIsSuccess,
      PendingIsSuccess, Answered, HolderOwnsEntry, ReplayIsGenuine, Holding,
      Entries, Absent, InFlight, Phases, Replies
<1>5. ASSUME NEW r \in Requests, ClaimSet(r) PROVE KeyIInv'
  <2>. USE <1>5, KeyAssumption, CapAssumption DEF ClaimSet
  <2>1. InFlight(r) \in Entries /\ key[r] \in CacheKeys
    BY Zenon DEF KeyIInv, KeyTypeOK, Undecided, Entries, InFlight
  <2>2. KeyTypeOK'
    BY <2>1 DEF KeyIInv, KeyTypeOK, Phases
  <2>3. Undecided' /\ PendingIsSuccess' /\ Answered' /\ ReplayIsGenuine'
    BY DEF KeyIInv, KeyTypeOK, Undecided, PendingIsSuccess, Answered, ReplayIsGenuine
  <2>4. EntryOfWriter' /\ CompletedIsSuccess'
    BY <2>1 DEF KeyIInv, KeyTypeOK, EntryOfWriter, CompletedIsSuccess, InFlight, Absent
  <2>5. HolderOwnsEntry'
    BY <2>1 DEF KeyIInv, KeyTypeOK, HolderOwnsEntry, Holding, InFlight, Absent
  <2>. QED BY Zenon, <2>2, <2>3, <2>4, <2>5 DEF KeyIInv
<1>6. ASSUME NEW r \in Requests, ClaimRace(r) PROVE KeyIInv'
  BY SMTT(30), <1>6, KeyAssumption, CapAssumption
  DEF ClaimRace, Serve, SendReplay, Answer, KeyIInv, KeyTypeOK, Undecided, EntryOfWriter, CompletedIsSuccess,
      PendingIsSuccess, Answered, HolderOwnsEntry, ReplayIsGenuine, Holding,
      Entries, Absent, InFlight, Phases, Replies
<1>7. ASSUME NEW r \in Requests, Commit(r) PROVE KeyIInv'
  BY <1>7, KeyAssumption, CapAssumption
  DEF Commit, KeyIInv, KeyTypeOK, Undecided, EntryOfWriter, CompletedIsSuccess,
      PendingIsSuccess, Answered, HolderOwnsEntry, ReplayIsGenuine, Holding,
      Entries, Absent, InFlight, Phases, Replies
<1>8. ASSUME NEW r \in Requests, NEW s \in {"ok", "error"}, NEW c \in BOOLEAN, Respond(r, s, c) PROVE KeyIInv'
  BY <1>8, KeyAssumption, CapAssumption
  DEF Respond, KeyIInv, KeyTypeOK, Undecided, EntryOfWriter, CompletedIsSuccess,
      PendingIsSuccess, Answered, HolderOwnsEntry, ReplayIsGenuine, Holding,
      Entries, Absent, InFlight, Phases, Replies
<1>9. ASSUME NEW r \in Requests, StoreUnavailable(r) PROVE KeyIInv'
  <2>. USE <1>9, KeyAssumption, CapAssumption DEF StoreUnavailable, Answer
  <2>1. InFlight(r) \in Entries /\ key[r] \in CacheKeys
    BY Zenon DEF KeyIInv, KeyTypeOK, Undecided, Entries, InFlight
  <2>2. KeyTypeOK'
    BY Zenon, <2>1 DEF KeyIInv, KeyTypeOK, Phases, Replies
  <2>3. Undecided' /\ PendingIsSuccess' /\ Answered' /\ ReplayIsGenuine'
    BY DEF KeyIInv, KeyTypeOK, Undecided, PendingIsSuccess, Answered, ReplayIsGenuine
  <2>4. EntryOfWriter' /\ CompletedIsSuccess'
    BY <2>1 DEF KeyIInv, KeyTypeOK, EntryOfWriter, CompletedIsSuccess, InFlight, Absent
  <2>5. HolderOwnsEntry'
    BY <2>1 DEF KeyIInv, KeyTypeOK, HolderOwnsEntry, Holding, InFlight, Absent
  <2>. QED BY Zenon, <2>2, <2>3, <2>4, <2>5 DEF KeyIInv
<1>10. ASSUME NEW r \in Requests, ProcessDies(r) PROVE KeyIInv'
  BY <1>10, KeyAssumption, CapAssumption
  DEF ProcessDies, KeyIInv, KeyTypeOK, Undecided, EntryOfWriter, CompletedIsSuccess,
      PendingIsSuccess, Answered, HolderOwnsEntry, ReplayIsGenuine, Holding,
      Entries, Absent, InFlight, Phases, Replies
<1>11. ASSUME NEW k \in CacheKeys, Expire(k) PROVE KeyIInv'
  BY <1>11, KeyAssumption, CapAssumption
  DEF Expire, KeyIInv, KeyTypeOK, Undecided, EntryOfWriter, CompletedIsSuccess,
      PendingIsSuccess, Answered, HolderOwnsEntry, ReplayIsGenuine, Holding,
      Entries, Absent, InFlight, Phases, Replies
<1>12. ASSUME ExpireWindow \/ UNCHANGED keyVars PROVE KeyIInv'
  BY <1>12, KeyAssumption, CapAssumption
  DEF ExpireWindow, keyVars, KeyIInv, KeyTypeOK, Undecided, EntryOfWriter, CompletedIsSuccess,
      PendingIsSuccess, Answered, HolderOwnsEntry, ReplayIsGenuine, Holding,
      Entries, Absent, InFlight, Phases, Replies
<1>. QED
  BY Zenon, <1>1, <1>2, <1>3, <1>4, <1>5, <1>6, <1>7, <1>8, <1>9, <1>10, <1>11, <1>12,
     OnResponseKeepsIInv DEF KeyNext, Step

-----------------------------------------------------------------------------
(***************************************************************************)
(* The state of the middleware is always well formed: entries, phases and  *)
(* answers stay in their sets and the claim counter within the cap.        *)
(***************************************************************************)
THEOREM KeyTypeCorrect == KeySpec => []KeyTypeOK
<1>1. KeyIInv => KeyTypeOK
  BY Zenon DEF KeyIInv
<1>. QED BY <1>1, KeyInitIInv, KeyNextIInv, PTL DEF KeySpec

(***************************************************************************)
(* For every number of requests: while handlers finish within the          *)
(* placeholder's TTL, no two requests with one idempotency key execute at  *)
(* the same time.                                                          *)
(***************************************************************************)
THEOREM ExecutionIsExclusive == KeySpec => []OneExecutionPerKey
<1>1. KeyIInv => OneExecutionPerKey
  <2>. SUFFICES ASSUME KeyIInv, ~SlowHandlers, NEW q \in Requests, NEW r \in Requests,
                       Holding(q), Holding(r), key[q] = key[r]
                PROVE  q = r
    BY Zenon DEF OneExecutionPerKey
  <2>1. InFlight(q).by = InFlight(r).by
    BY Zenon DEF KeyIInv, HolderOwnsEntry
  <2>. QED BY Zenon, <2>1 DEF InFlight
<1>. QED BY <1>1, KeyInitIInv, KeyNextIInv, PTL DEF KeySpec

(***************************************************************************)
(* For every number of requests, slow handlers, crashes and Redis errors   *)
(* included: what is replayed is the committed success of a request with   *)
(* the same key and payload.                                               *)
(***************************************************************************)
THEOREM ReplaysAreGenuine == KeySpec => []ReplayIsGenuine
<1>1. KeyIInv => ReplayIsGenuine
  BY Zenon DEF KeyIInv
<1>. QED BY <1>1, KeyInitIInv, KeyNextIInv, PTL DEF KeySpec

-----------------------------------------------------------------------------
(* Credentials.                                                            *)
(* The strengthening.                                                      *)

\* Where a request is says what it is and what it has read.
ShapeOk(p) ==
    /\ pc[p] \notin {"finish", "commit"} => listed[p] = {}
    /\ pc[p] = "lock" => op[p] = "enroll"
    /\ pc[p] = "revoke" => op[p] = "delete_mfa"
    /\ op[p] = "enroll" => pc[p] \in {"replay", "lock", "commit"}
    /\ op[p] = "delete_mfa" => pc[p] \in {"revoke", "commit"} /\ mlock = p
    /\ op[p] = "enroll" /\ pc[p] = "commit" => mlock = p
    /\ pc[p] \in {"replay", "finish"} => arg[p] \in Totps

Shapes == \A p \in Proc : ShapeOk(p)

\* A secret is enrolled once, by one request.
Enrols ==
    /\ \A p \in Proc : op[p] = "enroll" =>
          /\ arg[p] \in Totps /\ arg[p] <= made /\ stage # arg[p] /\ rcode[arg[p]] = "absent"
          /\ \A q \in Proc : op[q] = "enroll" /\ arg[q] = arg[p] => q = p
    /\ stage # 0 => stage <= made /\ rcode[stage] = "absent"
    /\ \A n \in Totps : n > made => rcode[n] = "absent"

\* Who still has a one-time thing to spend.
Holds(p, x) ==
    \/ /\ pc[p] = "finish" /\ x = <<IF listed[p] = {} THEN "code" ELSE "recovery", arg[p]>>
    \/ /\ tick[p] # None /\ x = <<"session", tick[p]>>

\* It has been taken for good.
Taken(x) ==
    \/ x[1] = "code" /\ x[2] \in seen
    \/ x[1] = "recovery" /\ rcode[x[2]] = "used"
    \/ x[1] = "session" /\ ticket[x[2]] = "spent"

Spending ==
    \A x \in OneTime :
        /\ grants[x] <= 1
        /\ grants[x] = 1 => Taken(x) /\ \A p \in Proc : ~Holds(p, x)
        /\ \A p, q \in Proc : Holds(p, x) => Taken(x) /\ (Holds(q, x) => p = q)

\* Requests counted in this window that have yet to compare their code.
Comparing == {p \in counted : pc[p] = "compare"}

Budget ==
    /\ IsFiniteSet(counted)
    /\ tried + Cardinality(Comparing) <= attempts
    /\ tried + Cardinality(Comparing) <= MaxAttempts

OneCode == \A m, n \in Totps : rcode[m] = "unused" /\ rcode[n] = "unused" => m = n

\* What deleteMfa has read under the lock is what there is, unless a row was
\* removed past the lock.
Flags ==
    /\ FlagMatchesTotp
    /\ \A p \in Proc : op[p] = "delete_mfa" /\ pc[p] = "commit" =>
          /\ totps \ {arg[p]} \subseteq listed[p]
          /\ listed[p] # totps \ {arg[p]} => strayed

IInv == TypeOK /\ Shapes /\ Enrols /\ Spending /\ Budget /\ OneCode /\ Flags

-----------------------------------------------------------------------------
(* What a step does to the requests.                                       *)

Kept(q) ==
    /\ op'[q] = op[q] /\ pc'[q] = pc[q] /\ arg'[q] = arg[q]
    /\ tick'[q] = tick[q] /\ listed'[q] = listed[q]

Gone(q) == op'[q] = "none" /\ pc'[q] = "idle" /\ tick'[q] = None /\ listed'[q] = {}

\* The request begins no enrolment.
NoEnrol(q) == op'[q] = "enroll" => op[q] = "enroll" /\ arg'[q] = arg[q]

\* It does not come to compare its code.
NoCompare(q) == pc'[q] = "compare" => pc[q] = "compare"

\* It takes nothing that can be spent once only.
NoTake(q) ==
    /\ pc'[q] = "finish" => pc[q] = "finish" /\ listed'[q] = listed[q] /\ arg'[q] = arg[q]
    /\ tick'[q] \in {tick[q], None}

\* It revokes no TOTP row.
NoRevoke(q) ==
    op'[q] = "delete_mfa" /\ pc'[q] = "commit" =>
        op[q] = "delete_mfa" /\ pc[q] = "commit" /\ arg'[q] = arg[q] /\ listed'[q] = listed[q]

Quiet(q) == NoEnrol(q) /\ NoCompare(q) /\ NoTake(q) /\ NoRevoke(q)

\* The lock leaves nobody but p.
Alone(p) == \A q \in Proc \ {p} : Kept(q) /\ (mlock = q => mlock' = q)

LEMMA KeptQuiet == ASSUME NEW q, Kept(q) PROVE Quiet(q)
  BY Zenon DEF Kept, Quiet, NoEnrol, NoCompare, NoTake, NoRevoke

LEMMA GoneQuiet == ASSUME NEW q, Gone(q) PROVE Quiet(q)
  BY Zenon DEF Gone, Quiet, NoEnrol, NoCompare, NoTake, NoRevoke

LEMMA AloneQuiet == ASSUME NEW p, Alone(p) PROVE \A q \in Proc \ {p} : Quiet(q)
  BY Zenon, KeptQuiet DEF Alone

LEMMA ResetEffect ==
    ASSUME NEW p \in Proc, TypeOK, Reset(p)
    PROVE  Gone(p) /\ \A q \in Proc \ {p} : Kept(q)
  BY Zenon DEF Reset, Gone, Kept, TypeOK

LEMMA GoEffect ==
    ASSUME NEW p \in Proc, NEW next, TypeOK, Go(p, next), UNCHANGED <<op, arg, tick, listed>>
    PROVE  /\ \A q \in Proc \ {p} : Kept(q)
           /\ pc'[p] = next /\ op'[p] = op[p] /\ arg'[p] = arg[p] /\ tick'[p] = tick[p]
           /\ listed'[p] = listed[p]
  BY Zenon DEF Go, Kept, TypeOK

LEMMA ReadEffect ==
    ASSUME NEW p \in Proc, NEW next, NEW S, TypeOK, Go(p, next), UNCHANGED <<op, arg, tick>>,
           listed' = [listed EXCEPT ![p] = S]
    PROVE  /\ \A q \in Proc \ {p} : Kept(q)
           /\ pc'[p] = next /\ op'[p] = op[p] /\ arg'[p] = arg[p] /\ tick'[p] = tick[p]
           /\ listed'[p] = S
  BY Zenon DEF Go, Kept, TypeOK

LEMMA BeginEffect ==
    ASSUME NEW p \in Proc, NEW what, NEW next, NEW x, TypeOK, Begin(p, what, next, x),
           UNCHANGED <<tick, listed>>
    PROVE  /\ \A q \in Proc \ {p} : Kept(q)
           /\ pc[p] = "idle" /\ pc'[p] = next /\ op'[p] = what /\ arg'[p] = x
           /\ tick'[p] = tick[p] /\ listed'[p] = listed[p]
  BY Zenon DEF Begin, Go, Kept, TypeOK

LEMMA UnlockEffect ==
    ASSUME NEW p \in Proc, Unlock(p)
    PROVE  \A q \in Proc \ {p} : mlock = q => mlock' = q
  BY Zenon DEF Unlock

LEMMA LocalKept == ASSUME UNCHANGED local PROVE \A q \in Proc : Kept(q)
  BY Zenon DEF local, Kept

\* The steps of one request.
Acts(p) ==
    \/ Attempt(p) \/ Compare(p) \/ Replay(p) \/ Recover(p) \/ Finish(p)
    \/ EnrollTake(p) \/ EnrollLock(p) \/ EnrollCommit(p)
    \/ DeleteMfaRevoke(p) \/ DeleteMfaCommit(p)
    \/ DeleteCommit(p) \/ RevokePasskeyCommit(p) \/ Crash(p)
    \/ \E x \in 0..NTotp :
        \/ StepUp(p, x)
        \/ \E k \in Tickets, next \in {"attempt", "recover"} : TakeTicket(p, k, x, next)
    \/ \E n \in Totps : DeleteMfa(p, n)
    \/ \E m \in Totps \cup Logins : Delete(p, m)
    \/ \E k \in Passkeys : RevokePasskey(p, k)

Environment ==
    \/ EnrollInit \/ CounterExpires
    \/ \E k \in Tickets : IssueTicket(k)
    \/ \E m \in Logins : AddMethod(m)
    \/ \E k \in Passkeys : RegisterPasskey(k)

LEMMA NextParts == Next <=> (\E p \in Proc : Acts(p)) \/ Environment
  BY Zenon DEF Next, Acts, Environment

LEMMA TakeTicketEffect ==
    ASSUME NEW p \in Proc, NEW k, NEW x, NEW next, TypeOK, TakeTicket(p, k, x, next)
    PROVE  /\ \A q \in Proc \ {p} : Kept(q)
           /\ pc[p] = "idle" /\ pc'[p] = next /\ op'[p] = "mfa_login" /\ arg'[p] = x
           /\ tick'[p] = k /\ listed'[p] = listed[p]
  BY Zenon DEF TakeTicket, Begin, Go, Kept, TypeOK

LEMMA ActsAlone ==
    ASSUME NEW p \in Proc, TypeOK, Acts(p)
    PROVE  Alone(p)
  <1>a. ASSUME Reset(p), Unlock(p) PROVE Alone(p)
    BY Zenon, <1>a, ResetEffect, UnlockEffect DEF Alone
  <1>b. ASSUME Reset(p), UNCHANGED mlock PROVE Alone(p)
    BY Zenon, <1>b, ResetEffect DEF Alone
  <1>c. ASSUME NEW next, Go(p, next), UNCHANGED <<op, arg, tick, listed, mlock>> PROVE Alone(p)
    BY Zenon, <1>c, GoEffect DEF Alone
  <1>d. ASSUME NEW what, NEW next, NEW x, Begin(p, what, next, x), UNCHANGED <<tick, listed>>,
               mlock' = mlock \/ mlock = None
        PROVE  Alone(p)
    BY Zenon, <1>d, BeginEffect, KindsAssumption DEF Alone
  <1>1. CASE Attempt(p)
    BY Zenon, <1>1, <1>b, <1>c DEF Attempt
  <1>2. CASE Compare(p)
    BY Zenon, <1>2, <1>b, <1>c DEF Compare
  <1>3. CASE Replay(p)
    BY Zenon, <1>3, <1>b, <1>c DEF Replay
  <1>4. CASE Recover(p)
    BY Zenon, <1>4, <1>b, ReadEffect DEF Recover, Alone
  <1>5. CASE Finish(p)
    BY Zenon, <1>5, <1>b DEF Finish
  <1>6. CASE EnrollTake(p)
    <2>1. CASE Begin(p, "enroll", "replay", stage)
      BY Zenon, <1>6, <2>1, <1>d DEF EnrollTake
    <2>2. CASE UNCHANGED <<op, pc, arg>>
      BY Zenon, <1>6, <2>2 DEF EnrollTake, Alone, Kept
    <2>3. QED
      BY Zenon, <1>6, <2>1, <2>2 DEF EnrollTake
  <1>7. CASE EnrollLock(p)
    BY Zenon, <1>7, ReadEffect, KindsAssumption DEF EnrollLock, Alone
  <1>8. CASE EnrollCommit(p)
    BY Zenon, <1>8, <1>a DEF EnrollCommit
  <1>9. CASE DeleteMfaRevoke(p)
    BY Zenon, <1>9, ReadEffect DEF DeleteMfaRevoke, Alone
  <1>10. CASE DeleteMfaCommit(p)
    BY Zenon, <1>10, <1>a DEF DeleteMfaCommit
  <1>11. CASE DeleteCommit(p)
    BY Zenon, <1>11, <1>b DEF DeleteCommit
  <1>12. CASE RevokePasskeyCommit(p)
    BY Zenon, <1>12, <1>a DEF RevokePasskeyCommit
  <1>13. CASE Crash(p)
    BY Zenon, <1>13, <1>a DEF Crash
  <1>14. ASSUME NEW x \in 0..NTotp, StepUp(p, x) PROVE Alone(p)
    BY Zenon, <1>14, <1>d DEF StepUp
  <1>15. ASSUME NEW x, NEW k, NEW next, TakeTicket(p, k, x, next) PROVE Alone(p)
    BY Zenon, <1>15, TakeTicketEffect DEF TakeTicket, Alone
  <1>16. ASSUME NEW n \in Totps, DeleteMfa(p, n) PROVE Alone(p)
    BY Zenon, <1>16, <1>d DEF DeleteMfa
  <1>17. ASSUME NEW m, Delete(p, m) PROVE Alone(p)
    BY Zenon, <1>17, <1>d DEF Delete
  <1>18. ASSUME NEW k \in Passkeys, RevokePasskey(p, k) PROVE Alone(p)
    BY Zenon, <1>18, <1>d DEF RevokePasskey
  <1>19. QED
    BY Zenon, <1>1, <1>2, <1>3, <1>4, <1>5, <1>6, <1>7, <1>8, <1>9, <1>10, <1>11, <1>12, <1>13, <1>14,
       <1>15, <1>16, <1>17, <1>18 DEF Acts

LEMMA EnvironmentKept == ASSUME Environment PROVE (\A q \in Proc : Kept(q)) /\ UNCHANGED mlock
  BY Zenon, LocalKept DEF Environment, EnrollInit, CounterExpires, IssueTicket, AddMethod, RegisterPasskey

-----------------------------------------------------------------------------
(* Shapes.                                                                 *)

LEMMA ActsShape ==
    ASSUME NEW p \in Proc, TypeOK, Shapes, Enrols, Acts(p)
    PROVE  ShapeOk(p)'
  <1>0. ShapeOk(p)
    BY Zenon DEF Shapes
  <1>a. ASSUME Reset(p) PROVE ShapeOk(p)'
    BY Zenon, <1>a, ResetEffect DEF Gone, ShapeOk
  <1>1. CASE Attempt(p)
    <2>1. CASE Go(p, "compare") /\ UNCHANGED <<op, arg, tick, listed>>
      BY <1>0, <1>1, <2>1, GoEffect DEF Attempt, ShapeOk
    <2>2. QED
      BY Zenon, <1>1, <1>a, <2>1 DEF Attempt
  <1>2. CASE Compare(p)
    <2>1. CASE arg[p] \in totps /\ Go(p, "replay") /\ UNCHANGED <<op, arg, tick, listed>>
      <3>1. arg[p] \in Totps
        BY Zenon, <2>1 DEF TypeOK
      <3>2. QED
        BY <1>0, <1>2, <2>1, <3>1, GoEffect DEF Compare, ShapeOk
    <2>2. QED
      BY Zenon, <1>2, <1>a, <2>1 DEF Compare
  <1>3. CASE Replay(p)
    <2>1. CASE /\ Go(p, IF op[p] = "enroll" THEN "lock" ELSE "finish")
               /\ UNCHANGED <<op, arg, tick, listed>>
      <3>1. /\ pc'[p] = IF op[p] = "enroll" THEN "lock" ELSE "finish"
            /\ op'[p] = op[p] /\ arg'[p] = arg[p] /\ listed'[p] = listed[p]
        BY Zenon, <2>1, GoEffect
      <3>2. QED
        BY Zenon, <1>0, <1>3, <3>1 DEF Replay, ShapeOk
    <2>2. QED
      BY Zenon, <1>3, <1>a, <2>1 DEF Replay
  <1>4. CASE Recover(p)
    <2>1. CASE /\ arg[p] \in Totps /\ Go(p, "finish") /\ listed' = [listed EXCEPT ![p] = {arg[p]}]
               /\ UNCHANGED <<op, arg, tick>>
      <3>1. pc'[p] = "finish" /\ op'[p] = op[p] /\ arg'[p] = arg[p]
        BY Zenon, <2>1, ReadEffect
      <3>2. QED
        BY Zenon, <1>0, <1>4, <2>1, <3>1 DEF Recover, ShapeOk
    <2>2. QED
      BY Zenon, <1>4, <1>a, <2>1 DEF Recover
  <1>5. CASE EnrollTake(p)
    <2>1. CASE Begin(p, "enroll", "replay", stage)
      <3>1. stage \in Totps
        BY <1>5, BoundsAssumption DEF EnrollTake, TypeOK, Totps
      <3>2. /\ pc[p] = "idle" /\ pc'[p] = "replay" /\ op'[p] = "enroll" /\ arg'[p] = stage
            /\ listed'[p] = listed[p]
        BY <1>5, <2>1, BeginEffect DEF EnrollTake
      <3>3. QED
        BY Zenon, <1>0, <3>1, <3>2 DEF ShapeOk
    <2>2. CASE UNCHANGED <<op, pc, arg>>
      BY Zenon, <1>0, <1>5, <2>2 DEF EnrollTake, ShapeOk
    <2>3. QED
      BY Zenon, <1>5, <2>1, <2>2 DEF EnrollTake
  <1>6. CASE EnrollLock(p)
    <2>1. pc'[p] = "commit" /\ op'[p] = op[p] /\ arg'[p] = arg[p] /\ mlock' = p /\ pc[p] = "lock"
      BY Zenon, <1>6, ReadEffect DEF EnrollLock
    <2>2. QED
      BY Zenon, <1>0, <2>1 DEF ShapeOk
  <1>7. CASE DeleteMfaRevoke(p)
    <2>1. /\ pc'[p] = "commit" /\ op'[p] = op[p] /\ arg'[p] = arg[p] /\ mlock' = mlock
          /\ pc[p] = "revoke"
      BY Zenon, <1>7, ReadEffect DEF DeleteMfaRevoke
    <2>2. QED
      BY Zenon, <1>0, <2>1 DEF ShapeOk
  <1>8. ASSUME NEW x \in 0..NTotp, StepUp(p, x) PROVE ShapeOk(p)'
    <2>1. pc[p] = "idle" /\ pc'[p] = "attempt" /\ op'[p] = "step_up" /\ listed'[p] = listed[p]
      BY Zenon, <1>8, BeginEffect DEF StepUp
    <2>2. QED
      BY Zenon, <1>0, <2>1 DEF ShapeOk
  <1>9. ASSUME NEW x, NEW k, NEW next \in {"attempt", "recover"}, TakeTicket(p, k, x, next)
        PROVE  ShapeOk(p)'
    <2>1. pc[p] = "idle" /\ pc'[p] = next /\ op'[p] = "mfa_login" /\ listed'[p] = listed[p]
      BY <1>9, TakeTicketEffect
    <2>2. QED
      BY Zenon, <1>0, <2>1 DEF ShapeOk
  <1>10. ASSUME NEW n \in Totps, DeleteMfa(p, n) PROVE ShapeOk(p)'
    <2>1. /\ pc[p] = "idle" /\ pc'[p] = "revoke" /\ op'[p] = "delete_mfa" /\ listed'[p] = listed[p]
          /\ mlock' = p
      BY Zenon, <1>10, BeginEffect DEF DeleteMfa
    <2>2. QED
      BY Zenon, <1>0, <2>1 DEF ShapeOk
  <1>11. ASSUME NEW m, Delete(p, m) PROVE ShapeOk(p)'
    <2>1. pc'[p] = "commit" /\ op'[p] = "delete"
      BY Zenon, <1>11, BeginEffect DEF Delete
    <2>2. QED
      BY Zenon, <2>1 DEF ShapeOk
  <1>12. ASSUME NEW k \in Passkeys, RevokePasskey(p, k) PROVE ShapeOk(p)'
    <2>1. pc'[p] = "commit" /\ op'[p] = "revoke_passkey"
      BY Zenon, <1>12, BeginEffect DEF RevokePasskey
    <2>2. QED
      BY Zenon, <2>1 DEF ShapeOk
  <1>13. CASE Reset(p)
    BY Zenon, <1>13, <1>a
  <1>14. QED
    BY Zenon, <1>1, <1>2, <1>3, <1>4, <1>5, <1>6, <1>7, <1>8, <1>9, <1>10, <1>11, <1>12, <1>13
       DEF Acts, Finish, EnrollCommit, DeleteMfaCommit, DeleteCommit, RevokePasskeyCommit, Crash

LEMMA ShapeKept ==
    ASSUME NEW q \in Proc, ShapeOk(q), Kept(q), mlock = q => mlock' = q
    PROVE  ShapeOk(q)'
  BY Zenon DEF ShapeOk, Kept

LEMMA NextShapes ==
    ASSUME TypeOK, Shapes, Enrols, Next
    PROVE  Shapes'
  <1>1. ASSUME NEW p \in Proc, Acts(p) PROVE Shapes'
    <2>1. \A q \in Proc \ {p} : ShapeOk(q)'
      BY Zenon, <1>1, ActsAlone, ShapeKept DEF Alone, Shapes
    <2>2. QED
      BY Zenon, <1>1, <2>1, ActsShape DEF Shapes
  <1>2. CASE Environment
    BY Zenon, <1>2, EnvironmentKept, ShapeKept DEF Shapes
  <1>3. QED
    BY Zenon, <1>1, <1>2, NextParts

-----------------------------------------------------------------------------
(* Enrolments.                                                             *)

LEMMA EnrolsStay ==
    ASSUME TypeOK, Enrols, \A q \in Proc : NoEnrol(q), UNCHANGED <<stage, made>>,
           \A n \in Totps : rcode[n] = "absent" => rcode'[n] = "absent"
    PROVE  Enrols'
  <1>1. ASSUME NEW q \in Proc, op'[q] = "enroll"
        PROVE  /\ arg'[q] \in Totps /\ arg'[q] <= made' /\ stage' # arg'[q]
               /\ rcode'[arg'[q]] = "absent"
    BY <1>1 DEF Enrols, NoEnrol
  <1>2. ASSUME NEW q \in Proc, NEW r \in Proc, op'[q] = "enroll", op'[r] = "enroll", arg'[q] = arg'[r]
        PROVE  r = q
    BY <1>2 DEF Enrols, NoEnrol
  <1>3. stage' # 0 => stage' <= made' /\ rcode'[stage'] = "absent"
    <2>1. stage # 0 => stage \in Totps
      BY BoundsAssumption DEF TypeOK, Totps
    <2>2. QED
      BY Zenon, <2>1 DEF Enrols
  <1>4. \A n \in Totps : n > made' => rcode'[n] = "absent"
    BY Zenon DEF Enrols
  <1>5. QED
    BY Zenon, <1>1, <1>2, <1>3, <1>4 DEF Enrols

\* Only EnrollTake begins an enrolment.
LEMMA ActsNoEnrol ==
    ASSUME NEW p \in Proc, TypeOK, Acts(p), ~EnrollTake(p)
    PROVE  \A q \in Proc : NoEnrol(q)
  <1>0. \A q \in Proc \ {p} : NoEnrol(q)
    BY Zenon, ActsAlone, AloneQuiet DEF Quiet
  <1>a. ASSUME Reset(p) PROVE NoEnrol(p)
    BY Zenon, <1>a, ResetEffect, GoneQuiet DEF Quiet
  <1>b. ASSUME UNCHANGED <<op, arg>> PROVE NoEnrol(p)
    BY Zenon, <1>b DEF NoEnrol
  <1>c. ASSUME NEW what, NEW next, NEW x, Begin(p, what, next, x), what # "enroll" PROVE NoEnrol(p)
    BY Zenon, <1>c DEF Begin, NoEnrol, TypeOK
  <1>1. ASSUME Attempt(p) \/ Compare(p) \/ Replay(p) \/ Recover(p) PROVE NoEnrol(p)
    BY Zenon, <1>1, <1>a, <1>b DEF Attempt, Compare, Replay, Recover
  <1>2. ASSUME EnrollLock(p) \/ DeleteMfaRevoke(p) PROVE NoEnrol(p)
    BY Zenon, <1>2, <1>b DEF EnrollLock, DeleteMfaRevoke
  <1>3. ASSUME NEW x \in 0..NTotp, StepUp(p, x) PROVE NoEnrol(p)
    BY Zenon, <1>3, <1>c DEF StepUp
  <1>4. ASSUME NEW x, NEW k, NEW next, TakeTicket(p, k, x, next) PROVE NoEnrol(p)
    BY Zenon, <1>4, <1>c DEF TakeTicket
  <1>5. ASSUME NEW n \in Totps, DeleteMfa(p, n) PROVE NoEnrol(p)
    BY Zenon, <1>5, <1>c DEF DeleteMfa
  <1>6. ASSUME NEW m, Delete(p, m) PROVE NoEnrol(p)
    BY Zenon, <1>6, <1>c DEF Delete
  <1>7. ASSUME NEW k \in Passkeys, RevokePasskey(p, k) PROVE NoEnrol(p)
    BY Zenon, <1>7, <1>c DEF RevokePasskey
  <1>9. NoEnrol(p)
    BY Zenon, <1>1, <1>2, <1>3, <1>4, <1>5, <1>6, <1>7, <1>a
       DEF Acts, Finish, EnrollCommit, DeleteMfaCommit, DeleteCommit, RevokePasskeyCommit, Crash
  <1>10. QED
    BY Zenon, <1>0, <1>9

\* A recovery code that exists does not become one that does not, and the
\* other way round only in EnrollCommit.
LEMMA ActsFrame ==
    ASSUME NEW p \in Proc, Acts(p)
    PROVE  /\ ~EnrollTake(p) => UNCHANGED <<stage, made>>
           /\ ~EnrollCommit(p) /\ ~Recover(p) => UNCHANGED rcode
           /\ ~Finish(p) => UNCHANGED grants
  <1>1. ~EnrollTake(p) => UNCHANGED <<stage, made>>
    BY Zenon DEF Acts, Attempt, Compare, Replay, Recover, Finish, EnrollLock, EnrollCommit, DeleteMfaRevoke,
           DeleteMfaCommit, DeleteCommit, RevokePasskeyCommit, Crash, StepUp, TakeTicket, DeleteMfa,
           Delete, RevokePasskey, redis
  <1>2. ~EnrollCommit(p) /\ ~Recover(p) => UNCHANGED rcode
    BY Zenon DEF Acts, Attempt, Compare, Replay, Finish, EnrollTake, EnrollLock, DeleteMfaRevoke,
           DeleteMfaCommit, DeleteCommit, RevokePasskeyCommit, Crash, StepUp, TakeTicket, DeleteMfa,
           Delete, RevokePasskey, accounts
  <1>3. ~Finish(p) => UNCHANGED grants
    BY Zenon DEF Acts, Attempt, Compare, Replay, Recover, EnrollTake, EnrollLock, EnrollCommit, DeleteMfaRevoke,
           DeleteMfaCommit, DeleteCommit, RevokePasskeyCommit, Crash, StepUp, TakeTicket, DeleteMfa,
           Delete, RevokePasskey, history
  <1>4. QED
    BY Zenon, <1>1, <1>2, <1>3

LEMMA NextEnrols ==
    ASSUME TypeOK, Shapes, Enrols, Next
    PROVE  Enrols'
  <1>1. ASSUME NEW p \in Proc, EnrollTake(p) PROVE Enrols'
    <2>0. stage \in Totps /\ stage <= made /\ rcode[stage] = "absent" /\ stage' = 0
          /\ UNCHANGED <<made, rcode>>
      BY <1>1, BoundsAssumption DEF EnrollTake, Enrols, TypeOK, Totps, accounts
    <2>1. CASE Begin(p, "enroll", "replay", stage)
      <3>1. /\ \A q \in Proc \ {p} : Kept(q)
            /\ op'[p] = "enroll" /\ arg'[p] = stage
        BY <1>1, <2>1, BeginEffect DEF EnrollTake
      <3>2. ASSUME NEW q \in Proc, op'[q] = "enroll", q # p
            PROVE  /\ arg'[q] = arg[q] /\ arg[q] \in Totps /\ arg[q] <= made /\ stage # arg[q]
                   /\ rcode[arg[q]] = "absent" /\ op[q] = "enroll"
        BY Zenon, <3>1, <3>2 DEF Kept, Enrols
      <3>3. ASSUME NEW q \in Proc, op'[q] = "enroll"
            PROVE  /\ arg'[q] \in Totps /\ arg'[q] <= made' /\ stage' # arg'[q]
                   /\ rcode'[arg'[q]] = "absent"
        <4>1. arg'[q] \in Totps /\ arg'[q] <= made /\ rcode[arg'[q]] = "absent"
          BY Zenon, <2>0, <3>1, <3>2, <3>3
        <4>2. arg'[q] # 0
          BY <4>1, BoundsAssumption DEF Totps
        <4>3. QED
          BY Zenon, <2>0, <4>1, <4>2
      <3>4. ASSUME NEW q \in Proc, NEW r \in Proc, op'[q] = "enroll", op'[r] = "enroll", arg'[r] = arg'[q]
            PROVE  r = q
        <4>1. CASE q = p \/ r = p
          BY Zenon, <3>1, <3>2, <3>4, <4>1
        <4>2. CASE q # p /\ r # p
          BY <3>2, <3>4, <4>2 DEF Enrols
        <4>3. QED
          BY Zenon, <4>1, <4>2
      <3>5. \A n \in Totps : n > made' => rcode'[n] = "absent"
        BY Zenon, <2>0 DEF Enrols
      <3>6. QED
        BY Zenon, <2>0, <3>3, <3>4, <3>5 DEF Enrols
    <2>2. CASE UNCHANGED <<op, pc, arg>>
      <3>1. \A q \in Proc : op[q] = "enroll" => arg[q] # 0
        BY BoundsAssumption DEF Enrols, Totps
      <3>2. QED
        BY Zenon, <2>0, <2>2, <3>1 DEF Enrols
    <2>3. QED
      BY Zenon, <1>1, <2>1, <2>2 DEF EnrollTake
  <1>2. ASSUME NEW p \in Proc, EnrollCommit(p) PROVE Enrols'
    <2>1. op[p] = "enroll" /\ rcode' = Rcodes(arg[p]) /\ UNCHANGED <<stage, made>>
      BY Zenon, <1>2 DEF EnrollCommit, redis
    <2>2. Gone(p) /\ \A q \in Proc \ {p} : Kept(q)
      BY Zenon, <1>2, ResetEffect DEF EnrollCommit
    <2>3. \A n \in Totps : rcode[n] = "absent" /\ n # arg[p] => rcode'[n] = "absent"
      BY Zenon, <2>1 DEF Rcodes
    <2>4. ASSUME NEW q \in Proc, op'[q] = "enroll"
          PROVE  op[q] = "enroll" /\ q # p /\ arg'[q] = arg[q] /\ arg[q] # arg[p]
      BY Zenon, <2>1, <2>2, <2>4 DEF Gone, Kept, Enrols
    <2>5. ASSUME NEW q \in Proc, op'[q] = "enroll"
          PROVE  /\ arg'[q] \in Totps /\ arg'[q] <= made' /\ stage' # arg'[q]
                 /\ rcode'[arg'[q]] = "absent"
      BY <2>1, <2>3, <2>4, <2>5 DEF Enrols
    <2>6. ASSUME NEW q \in Proc, NEW r \in Proc, op'[q] = "enroll", op'[r] = "enroll", arg'[q] = arg'[r]
          PROVE  r = q
      BY <2>4, <2>6 DEF Enrols
    <2>7. stage' # 0 => stage' <= made' /\ rcode'[stage'] = "absent"
      <3>1. stage # 0 => stage \in Totps /\ stage # arg[p]
        BY <2>1, BoundsAssumption DEF TypeOK, Totps, Enrols
      <3>2. QED
        BY Zenon, <2>1, <2>3, <3>1 DEF Enrols
    <2>8. \A n \in Totps : n > made' => rcode'[n] = "absent"
      <3>1. arg[p] \in Totps /\ arg[p] <= made /\ made \in Nat
        BY <2>1, BoundsAssumption DEF Enrols, TypeOK
      <3>2. \A n \in Totps : n > made => n # arg[p]
        BY <3>1, BoundsAssumption DEF Totps
      <3>3. QED
        BY Zenon, <2>1, <2>3, <3>2 DEF Enrols
    <2>9. QED
      BY Zenon, <2>5, <2>6, <2>7, <2>8 DEF Enrols
  <1>3. ASSUME NEW p \in Proc, Acts(p), ~EnrollTake(p), ~EnrollCommit(p) PROVE Enrols'
    <2>1. \A n \in Totps : rcode[n] = "absent" => rcode'[n] = "absent"
      <3>1. CASE Recover(p)
        BY Zenon, <3>1 DEF Recover, TypeOK
      <3>2. CASE ~Recover(p)
        BY Zenon, <1>3, <3>2, ActsFrame
      <3>3. QED
        BY Zenon, <3>1, <3>2
    <2>2. QED
      BY Zenon, <1>3, <2>1, ActsNoEnrol, ActsFrame, EnrolsStay
  <1>4. CASE EnrollInit
    <2>1. made' = made + 1 /\ stage' = made + 1 /\ made + 1 \in Totps /\ made \in Nat
      BY <1>4, BoundsAssumption DEF EnrollInit, TypeOK, Totps
    <2>2. UNCHANGED <<rcode, op, arg>>
      BY Zenon, <1>4 DEF EnrollInit, accounts, local
    <2>3. ASSUME NEW q \in Proc, op[q] = "enroll"
          PROVE  arg[q] \in Totps /\ arg[q] <= made + 1 /\ arg[q] # made + 1
      BY <2>1, <2>3, BoundsAssumption DEF Enrols, Totps
    <2>4. rcode[made + 1] = "absent"
      BY <2>1 DEF Enrols
    <2>5. \A n \in Totps : n > made + 1 => n > made
      BY <2>1, BoundsAssumption DEF Totps
    <2>6. QED
      BY <2>1, <2>2, <2>3, <2>4, <2>5 DEF Enrols
  <1>5. CASE Environment /\ ~EnrollInit
    <2>1. UNCHANGED <<rcode, stage, made>>
      BY Zenon, <1>5 DEF Environment, CounterExpires, IssueTicket, AddMethod, RegisterPasskey, accounts, redis
    <2>2. \A q \in Proc : NoEnrol(q)
      BY Zenon, <1>5, EnvironmentKept, KeptQuiet DEF Quiet
    <2>3. QED
      BY Zenon, <2>1, <2>2, EnrolsStay
  <1>6. QED
    BY Zenon, <1>1, <1>2, <1>3, <1>4, <1>5, NextParts DEF Acts

-----------------------------------------------------------------------------
(* One-time things.                                                        *)

TakenStays == \A x \in OneTime : Taken(x) => Taken(x)'

LEMMA NoTakeHolds ==
    ASSUME NEW q, NEW x, NoTake(q), Holds(q, x)'
    PROVE  Holds(q, x)
  BY Zenon DEF NoTake, Holds

LEMMA SpendStays ==
    ASSUME Spending, \A q \in Proc : NoTake(q), UNCHANGED grants, TakenStays
    PROVE  Spending'
  <1> SUFFICES ASSUME NEW x \in OneTime
               PROVE  /\ grants'[x] <= 1
                      /\ grants'[x] = 1 => Taken(x)' /\ \A p \in Proc : ~Holds(p, x)'
                      /\ \A p, q \in Proc : Holds(p, x)' => Taken(x)' /\ (Holds(q, x)' => p = q)
    BY Zenon DEF Spending
  <1>1. \A q \in Proc : Holds(q, x)' => Holds(q, x)
    BY Zenon, NoTakeHolds
  <1>2. Taken(x) => Taken(x)'
    BY Zenon DEF TakenStays
  <1>3. /\ grants[x] <= 1
        /\ grants[x] = 1 => Taken(x) /\ \A p \in Proc : ~Holds(p, x)
        /\ \A p, q \in Proc : Holds(p, x) => Taken(x) /\ (Holds(q, x) => p = q)
    BY Zenon DEF Spending
  <1>4. QED
    BY Zenon, <1>1, <1>2, <1>3

\* One request takes one thing that nobody had taken.
LEMMA SpendTakes ==
    ASSUME TypeOK, Spending, NEW p \in Proc, NEW y \in OneTime,
           \A q \in Proc \ {p} : NoTake(q),
           \A x : Holds(p, x)' => Holds(p, x) \/ x = y,
           ~Taken(y), Taken(y)', UNCHANGED grants, TakenStays
    PROVE  Spending'
  <1> SUFFICES ASSUME NEW x \in OneTime
               PROVE  /\ grants'[x] <= 1
                      /\ grants'[x] = 1 => Taken(x)' /\ \A q \in Proc : ~Holds(q, x)'
                      /\ \A q, r \in Proc : Holds(q, x)' => Taken(x)' /\ (Holds(r, x)' => q = r)
    BY Zenon DEF Spending
  <1>1. \A q \in Proc \ {p} : Holds(q, x)' => Holds(q, x)
    BY Zenon, NoTakeHolds
  <1>2. Taken(x) => Taken(x)'
    BY Zenon DEF TakenStays
  <1>3. /\ grants[x] <= 1
        /\ grants[x] = 1 => Taken(x) /\ \A q \in Proc : ~Holds(q, x)
        /\ \A q, r \in Proc : Holds(q, x) => Taken(x) /\ (Holds(r, x) => q = r)
    BY Zenon DEF Spending
  <1>4. CASE x = y
    BY Zenon, <1>1, <1>3, <1>4
  <1>5. CASE x # y
    <2>1. \A q \in Proc : Holds(q, x)' => Holds(q, x)
      BY Zenon, <1>1, <1>5
    <2>2. QED
      BY Zenon, <1>2, <1>3, <2>1
  <1>6. QED
    BY Zenon, <1>4, <1>5

LEMMA TakenFrom ==
    ASSUME TypeOK, seen \subseteq seen',
           \A n \in Totps : rcode[n] = "used" => rcode'[n] = "used",
           \A k \in Tickets : ticket[k] = "spent" => ticket'[k] = "spent"
    PROVE  TakenStays
  <1> SUFFICES ASSUME NEW x \in OneTime, Taken(x) PROVE Taken(x)'
    BY Zenon DEF TakenStays
  <1>1. CASE x[1] = "code" /\ x[2] \in seen
    BY Zenon, <1>1 DEF Taken
  <1>2. CASE x[1] = "recovery" /\ rcode[x[2]] = "used"
    <2>1. x[2] \in Totps
      BY Zenon, <1>2 DEF OneTime
    <2>2. QED
      BY Zenon, <1>2, <2>1 DEF Taken
  <1>3. CASE x[1] = "session" /\ ticket[x[2]] = "spent"
    <2>1. x[2] \in Tickets
      BY Zenon, <1>3 DEF OneTime
    <2>2. QED
      BY Zenon, <1>3, <2>1 DEF Taken
  <1>4. QED
    BY Zenon, <1>1, <1>2, <1>3 DEF Taken

LEMMA NextTaken ==
    ASSUME TypeOK, Enrols, Next
    PROVE  TakenStays
  <1>1. seen \subseteq seen'
    BY DEF Next, Attempt, Compare, Replay, Recover, Finish, EnrollTake, EnrollLock, EnrollCommit,
           DeleteMfaRevoke, DeleteMfaCommit, DeleteCommit, RevokePasskeyCommit, Crash, StepUp, TakeTicket,
           DeleteMfa, Delete, RevokePasskey, EnrollInit, CounterExpires, IssueTicket, AddMethod,
           RegisterPasskey, redis
  <1>2. \A n \in Totps : rcode[n] = "used" => rcode'[n] = "used"
    <2>1. ASSUME NEW p \in Proc, EnrollCommit(p), NEW n \in Totps, rcode[n] = "used" PROVE rcode'[n] = "used"
      <3>1. rcode[arg[p]] = "absent"
        BY Zenon, <2>1 DEF EnrollCommit, Enrols
      <3>2. QED
        BY Zenon, <2>1, <3>1 DEF EnrollCommit, Rcodes
    <2>2. ASSUME NEW p \in Proc, Recover(p), NEW n \in Totps, rcode[n] = "used" PROVE rcode'[n] = "used"
      BY Zenon, <2>2 DEF Recover, TypeOK
    <2>3. ASSUME NEW p \in Proc, Acts(p), NEW n \in Totps, rcode[n] = "used" PROVE rcode'[n] = "used"
      BY Zenon, <2>1, <2>2, <2>3, ActsFrame
    <2>4. Environment => rcode' = rcode
      BY Zenon DEF Environment, EnrollInit, CounterExpires, IssueTicket, AddMethod, RegisterPasskey, accounts
    <2>5. QED
      BY Zenon, <2>3, <2>4, NextParts
  <1>3. \A k \in Tickets : ticket[k] = "spent" => ticket'[k] = "spent"
    <2>1. ASSUME NEW p, NEW k, NEW x, NEW next, TakeTicket(p, k, x, next)
          PROVE  \A j \in Tickets : ticket[j] = "spent" => ticket'[j] = "spent"
      BY Zenon, <2>1 DEF TakeTicket, TypeOK
    <2>2. ASSUME NEW k, IssueTicket(k)
          PROVE  \A j \in Tickets : ticket[j] = "spent" => ticket'[j] = "spent"
      BY Zenon, <2>2 DEF IssueTicket, TypeOK
    <2>3. QED
      BY <2>1, <2>2
         DEF Next, Attempt, Compare, Replay, Recover, Finish, EnrollTake, EnrollLock, EnrollCommit,
             DeleteMfaRevoke, DeleteMfaCommit, DeleteCommit, RevokePasskeyCommit, Crash, StepUp,
             DeleteMfa, Delete, RevokePasskey, EnrollInit, CounterExpires, AddMethod,
             RegisterPasskey, redis
  <1>4. QED
    BY Zenon, <1>1, <1>2, <1>3, TakenFrom

\* A code, a recovery code and an MFA session are taken in these steps only.
LEMMA ActsNoTake ==
    ASSUME NEW p \in Proc, TypeOK, Shapes, Acts(p), ~Replay(p), ~Recover(p),
           \A k \in Tickets, x \in 0..NTotp, next \in {"attempt", "recover"} : ~TakeTicket(p, k, x, next)
    PROVE  \A q \in Proc : NoTake(q)
  <1>0. \A q \in Proc \ {p} : NoTake(q)
    BY Zenon, ActsAlone, AloneQuiet DEF Quiet
  <1>a. ASSUME Reset(p) PROVE NoTake(p)
    BY Zenon, <1>a, ResetEffect, GoneQuiet DEF Quiet
  <1>b. ASSUME NEW next, Go(p, next), next # "finish", UNCHANGED tick PROVE NoTake(p)
    BY Zenon, <1>b DEF Go, NoTake, TypeOK
  <1>c. ASSUME NEW what, NEW next, NEW x, Begin(p, what, next, x), next # "finish", UNCHANGED tick
        PROVE  NoTake(p)
    BY Zenon, <1>c, <1>b DEF Begin
  <1>1. ASSUME Attempt(p) \/ Compare(p) PROVE NoTake(p)
    BY Zenon, <1>1, <1>a, <1>b DEF Attempt, Compare
  <1>2. ASSUME EnrollLock(p) \/ DeleteMfaRevoke(p) PROVE NoTake(p)
    BY Zenon, <1>2, <1>b DEF EnrollLock, DeleteMfaRevoke
  <1>3. ASSUME NEW x \in 0..NTotp, StepUp(p, x) PROVE NoTake(p)
    BY Zenon, <1>3, <1>c DEF StepUp
  <1>4. ASSUME EnrollTake(p) PROVE NoTake(p)
    <2>1. CASE Begin(p, "enroll", "replay", stage)
      BY Zenon, <1>4, <2>1, <1>c DEF EnrollTake
    <2>2. CASE UNCHANGED <<op, pc, arg>>
      BY Zenon, <1>4, <2>2 DEF EnrollTake, NoTake
    <2>3. QED
      BY Zenon, <1>4, <2>1, <2>2 DEF EnrollTake
  <1>5. ASSUME NEW n \in Totps, DeleteMfa(p, n) PROVE NoTake(p)
    BY Zenon, <1>5, <1>c DEF DeleteMfa
  <1>6. ASSUME NEW m, Delete(p, m) PROVE NoTake(p)
    BY Zenon, <1>6, <1>c DEF Delete
  <1>7. ASSUME NEW k \in Passkeys, RevokePasskey(p, k) PROVE NoTake(p)
    BY Zenon, <1>7, <1>c DEF RevokePasskey
  <1>8. NoTake(p)
    BY Zenon, <1>a, <1>1, <1>2, <1>3, <1>4, <1>5, <1>6, <1>7
       DEF Acts, Finish, EnrollCommit, DeleteMfaCommit, DeleteCommit, RevokePasskeyCommit, Crash
  <1>9. QED
    BY Zenon, <1>0, <1>8

LEMMA ReplaySpends ==
    ASSUME NEW p \in Proc, TypeOK, Shapes, Enrols, Spending, Replay(p)
    PROVE  Spending'
  <1>0. TakenStays /\ grants' = grants
    BY Zenon, NextTaken DEF Next, Replay, history
  <1>1. CASE Reset(p)
    <2>1. \A q \in Proc : NoTake(q)
      BY Zenon, <1>1, ResetEffect, GoneQuiet, KeptQuiet DEF Quiet
    <2>2. QED
      BY Zenon, <1>0, <2>1, SpendStays
  <1>2. CASE /\ arg[p] \notin seen /\ seen' = seen \cup {arg[p]}
             /\ Go(p, IF op[p] = "enroll" THEN "lock" ELSE "finish")
             /\ UNCHANGED <<op, arg, tick, listed>>
    <2>1. /\ \A q \in Proc \ {p} : Kept(q)
          /\ pc'[p] = (IF op[p] = "enroll" THEN "lock" ELSE "finish") /\ arg'[p] = arg[p]
          /\ tick'[p] = tick[p] /\ listed'[p] = listed[p]
      BY Zenon, <1>2, GoEffect
    <2>2. pc[p] = "replay" /\ arg[p] \in Totps /\ listed[p] = {}
      BY Zenon DEF Replay, Shapes, ShapeOk
    <2>3. \A q \in Proc \ {p} : NoTake(q)
      BY Zenon, <2>1, KeptQuiet DEF Quiet
    <2>4. PICK y \in OneTime : y = <<"code", arg[p]>>
      BY Zenon, <2>2 DEF OneTime
    <2>5. ~Taken(y) /\ Taken(y)'
      BY Zenon, <1>2, <2>4 DEF Taken
    <2>6. \A x : Holds(p, x)' => Holds(p, x) \/ x = y
      BY <2>1, <2>2, <2>4 DEF Holds
    <2>7. QED
      BY Zenon, <1>0, <2>3, <2>5, <2>6, SpendTakes
  <1>3. QED
    BY Zenon, <1>1, <1>2 DEF Replay

LEMMA RecoverSpends ==
    ASSUME NEW p \in Proc, TypeOK, Shapes, Enrols, Spending, Recover(p)
    PROVE  Spending'
  <1>0. TakenStays /\ grants' = grants
    BY Zenon, NextTaken DEF Next, Recover, history
  <1>1. CASE Reset(p)
    <2>1. \A q \in Proc : NoTake(q)
      BY Zenon, <1>1, ResetEffect, GoneQuiet, KeptQuiet DEF Quiet
    <2>2. QED
      BY Zenon, <1>0, <2>1, SpendStays
  <1>2. CASE /\ arg[p] \in Totps /\ rcode[arg[p]] = "unused"
             /\ rcode' = [rcode EXCEPT ![arg[p]] = "used"]
             /\ Go(p, "finish") /\ listed' = [listed EXCEPT ![p] = {arg[p]}]
             /\ UNCHANGED <<op, arg, tick>>
    <2>1. /\ \A q \in Proc \ {p} : Kept(q)
          /\ pc'[p] = "finish" /\ arg'[p] = arg[p] /\ tick'[p] = tick[p] /\ listed'[p] = {arg[p]}
      BY Zenon, <1>2, ReadEffect
    <2>2. \A q \in Proc \ {p} : NoTake(q)
      BY Zenon, <2>1, KeptQuiet DEF Quiet
    <2>3. PICK y \in OneTime : y = <<"recovery", arg[p]>>
      BY Zenon, <1>2 DEF OneTime
    <2>4. ~Taken(y)
      BY Zenon, <1>2, <2>3 DEF Taken
    <2>5. Taken(y)'
      <3>1. rcode'[arg[p]] = "used"
        BY Zenon, <1>2 DEF TypeOK
      <3>2. QED
        BY Zenon, <2>3, <3>1 DEF Taken
    <2>6. \A x : Holds(p, x)' => Holds(p, x) \/ x = y
      <3>1. listed'[p] # {}
        BY Zenon, <2>1
      <3>2. (IF listed'[p] = {} THEN "code" ELSE "recovery") = "recovery"
        BY Zenon, <3>1
      <3>3. <<IF listed'[p] = {} THEN "code" ELSE "recovery", arg'[p]>> = y
        BY Zenon, <2>1, <2>3, <3>2
      <3>4. QED
        BY Zenon, <2>1, <3>3 DEF Holds
    <2>7. QED
      BY Zenon, <1>0, <2>2, <2>4, <2>5, <2>6, SpendTakes
  <1>3. QED
    BY Zenon, <1>1, <1>2 DEF Recover

LEMMA TakeTicketSpends ==
    ASSUME NEW p \in Proc, NEW k \in Tickets, NEW x \in 0..NTotp, NEW next \in {"attempt", "recover"},
           TypeOK, Shapes, Enrols, Spending, TakeTicket(p, k, x, next)
    PROVE  Spending'
  <1>0. TakenStays /\ grants' = grants
    BY Zenon, NextTaken DEF Next, TakeTicket, history
  <1>1. /\ \A q \in Proc \ {p} : Kept(q)
        /\ pc'[p] = next /\ tick'[p] = k
    BY TakeTicketEffect
  <1>2. \A q \in Proc \ {p} : NoTake(q)
    BY Zenon, <1>1, KeptQuiet DEF Quiet
  <1>3. PICK y \in OneTime : y = <<"session", k>>
    BY Zenon DEF OneTime
  <1>4. ~Taken(y)
    BY Zenon, <1>3 DEF Taken, TakeTicket
  <1>5. Taken(y)'
    BY Zenon, <1>3 DEF Taken, TakeTicket, TypeOK
  <1>6. \A z : Holds(p, z)' => Holds(p, z) \/ z = y
    BY Zenon, <1>1, <1>3 DEF Holds
  <1>7. QED
    BY Zenon, <1>0, <1>2, <1>4, <1>5, <1>6, SpendTakes

LEMMA FinishSpends ==
    ASSUME NEW p \in Proc, TypeOK, Shapes, Enrols, Spending, Finish(p)
    PROVE  Spending'
  <1> SUFFICES ASSUME NEW x \in OneTime
               PROVE  /\ grants'[x] <= 1
                      /\ grants'[x] = 1 => Taken(x)' /\ \A q \in Proc : ~Holds(q, x)'
                      /\ \A q, r \in Proc : Holds(q, x)' => Taken(x)' /\ (Holds(r, x)' => q = r)
    BY Zenon DEF Spending
  <1>1. Gone(p) /\ \A q \in Proc \ {p} : Kept(q)
    BY Zenon, ResetEffect DEF Finish
  <1>2. ~Holds(p, x)'
    BY Zenon, <1>1 DEF Gone, Holds
  <1>3. \A q \in Proc \ {p} : Holds(q, x)' => Holds(q, x)
    BY Zenon, <1>1, KeptQuiet, NoTakeHolds DEF Quiet
  <1>4. Taken(x) => Taken(x)'
    BY Zenon, NextTaken DEF Next, TakenStays
  <1>5. /\ grants[x] <= 1 /\ grants[x] \in Nat
        /\ grants[x] = 1 => Taken(x) /\ \A q \in Proc : ~Holds(q, x)
        /\ \A q, r \in Proc : Holds(q, x) => Taken(x) /\ (Holds(r, x) => q = r)
    BY Zenon DEF Spending, TypeOK
  <1>6. x \in Consumed(p) <=> Holds(p, x)
    BY Zenon DEF Consumed, Holds, Finish
  <1>7. grants'[x] = IF Holds(p, x) THEN grants[x] + 1 ELSE grants[x]
    BY Zenon, <1>6 DEF Finish
  <1>8. CASE Holds(p, x)
    <2>1. grants[x] = 0 /\ Taken(x) /\ \A q \in Proc \ {p} : ~Holds(q, x)
      BY <1>5, <1>8
    <2>2. grants'[x] = 1
      BY <1>7, <1>8, <2>1
    <2>3. \A q \in Proc : ~Holds(q, x)'
      BY Zenon, <1>2, <1>3, <2>1
    <2>4. QED
      BY <1>4, <2>1, <2>2, <2>3
  <1>9. CASE ~Holds(p, x)
    <2>1. grants'[x] = grants[x]
      BY Zenon, <1>7, <1>9
    <2>2. \A q \in Proc : Holds(q, x)' => Holds(q, x)
      BY Zenon, <1>2, <1>3
    <2>3. QED
      BY Zenon, <1>4, <1>5, <2>1, <2>2
  <1>10. QED
    BY Zenon, <1>8, <1>9

LEMMA NextSpending ==
    ASSUME TypeOK, Shapes, Enrols, Spending, Next
    PROVE  Spending'
  <1>0. TakenStays
    BY Zenon, NextTaken
  <1>1. ASSUME NEW p \in Proc, Replay(p) PROVE Spending'
    BY Zenon, <1>1, ReplaySpends
  <1>2. ASSUME NEW p \in Proc, Recover(p) PROVE Spending'
    BY Zenon, <1>2, RecoverSpends
  <1>3. ASSUME NEW p \in Proc, NEW k \in Tickets, NEW x \in 0..NTotp, NEW next \in {"attempt", "recover"},
               TakeTicket(p, k, x, next)
        PROVE  Spending'
    BY Zenon, <1>3, TakeTicketSpends
  <1>4. ASSUME NEW p \in Proc, Finish(p) PROVE Spending'
    BY Zenon, <1>4, FinishSpends
  <1>5. ASSUME NEW p \in Proc, Acts(p), ~Replay(p), ~Recover(p), ~Finish(p),
               \A k \in Tickets, x \in 0..NTotp, next \in {"attempt", "recover"} :
                   ~TakeTicket(p, k, x, next)
        PROVE  Spending'
    BY Zenon, <1>0, <1>5, ActsNoTake, ActsFrame, SpendStays
  <1>6. CASE Environment
    <2>1. grants' = grants
      BY Zenon, <1>6 DEF Environment, EnrollInit, CounterExpires, IssueTicket, AddMethod, RegisterPasskey, history
    <2>2. \A q \in Proc : NoTake(q)
      BY Zenon, <1>6, EnvironmentKept, KeptQuiet DEF Quiet
    <2>3. QED
      BY Zenon, <1>0, <2>1, <2>2, SpendStays
  <1>7. QED
    BY Zenon, <1>1, <1>2, <1>3, <1>4, <1>5, <1>6, NextParts

-----------------------------------------------------------------------------
(* Recovery codes.                                                         *)

LEMMA NextOneCode ==
    ASSUME TypeOK, OneCode, Next
    PROVE  OneCode'
  <1>1. ASSUME NEW p \in Proc, EnrollCommit(p) PROVE OneCode'
    <2>1. \A n \in Totps : rcode'[n] = "unused" => n = arg[p]
      BY Zenon, <1>1 DEF EnrollCommit, Rcodes
    <2>2. QED
      BY Zenon, <2>1 DEF OneCode
  <1>2. ASSUME NEW p \in Proc, Recover(p) PROVE OneCode'
    <2>1. \A n \in Totps : rcode'[n] = "unused" => rcode[n] = "unused"
      BY Zenon, <1>2 DEF Recover, TypeOK
    <2>2. QED
      BY Zenon, <2>1 DEF OneCode
  <1>3. ASSUME NEW p \in Proc, Acts(p), ~EnrollCommit(p), ~Recover(p) PROVE OneCode'
    BY Zenon, <1>3, ActsFrame DEF OneCode
  <1>4. CASE Environment
    BY Zenon, <1>4 DEF Environment, EnrollInit, CounterExpires, IssueTicket, AddMethod, RegisterPasskey, accounts,
                OneCode
  <1>5. QED
    BY Zenon, <1>1, <1>2, <1>3, <1>4, NextParts DEF Acts

-----------------------------------------------------------------------------
(* The flag.                                                               *)

LEMMA FlagsStay ==
    ASSUME Flags, UNCHANGED <<totps, mfa, strayed>>, \A q \in Proc : NoRevoke(q)
    PROVE  Flags'
  BY Zenon DEF Flags, FlagMatchesTotp, NoRevoke

LEMMA ActsNoRevoke ==
    ASSUME NEW p \in Proc, TypeOK, Shapes, Acts(p), ~DeleteMfaRevoke(p)
    PROVE  \A q \in Proc : NoRevoke(q)
  <1>0. \A q \in Proc \ {p} : NoRevoke(q)
    BY Zenon, ActsAlone, AloneQuiet DEF Quiet
  <1>a. ASSUME Reset(p) PROVE NoRevoke(p)
    BY Zenon, <1>a, ResetEffect, GoneQuiet DEF Quiet
  <1>b. ASSUME NEW next, Go(p, next), next # "commit" PROVE NoRevoke(p)
    BY Zenon, <1>b DEF Go, NoRevoke, TypeOK
  <1>c. ASSUME NEW what, NEW next, NEW x, Begin(p, what, next, x), what # "delete_mfa" \/ next # "commit"
        PROVE  NoRevoke(p)
    BY Zenon, <1>c DEF Begin, Go, NoRevoke, TypeOK
  <1>1. ASSUME Attempt(p) \/ Compare(p) \/ Replay(p) \/ Recover(p) PROVE NoRevoke(p)
    BY Zenon, <1>1, <1>a, <1>b DEF Attempt, Compare, Replay, Recover
  <1>2. ASSUME EnrollLock(p) PROVE NoRevoke(p)
    <2>1. op[p] = "enroll" /\ op' = op
      BY Zenon, <1>2 DEF EnrollLock, Shapes, ShapeOk
    <2>2. QED
      BY Zenon, <2>1 DEF NoRevoke
  <1>3. ASSUME NEW x \in 0..NTotp, StepUp(p, x) PROVE NoRevoke(p)
    BY Zenon, <1>3, <1>c DEF StepUp
  <1>4. ASSUME EnrollTake(p) PROVE NoRevoke(p)
    <2>1. CASE Begin(p, "enroll", "replay", stage)
      BY Zenon, <1>4, <2>1, <1>c DEF EnrollTake
    <2>2. CASE UNCHANGED <<op, pc, arg>>
      BY Zenon, <1>4, <2>2 DEF EnrollTake, NoRevoke
    <2>3. QED
      BY Zenon, <1>4, <2>1, <2>2 DEF EnrollTake
  <1>5. ASSUME NEW n \in Totps, DeleteMfa(p, n) PROVE NoRevoke(p)
    BY Zenon, <1>5, <1>c DEF DeleteMfa
  <1>6. ASSUME NEW m, Delete(p, m) PROVE NoRevoke(p)
    BY Zenon, <1>6, <1>c DEF Delete
  <1>7. ASSUME NEW k \in Passkeys, RevokePasskey(p, k) PROVE NoRevoke(p)
    BY Zenon, <1>7, <1>c DEF RevokePasskey
  <1>8. ASSUME NEW x, NEW k, NEW next \in {"attempt", "recover"}, TakeTicket(p, k, x, next)
        PROVE  NoRevoke(p)
    BY Zenon, <1>8, <1>c DEF TakeTicket
  <1>9. NoRevoke(p)
    BY Zenon, <1>a, <1>1, <1>2, <1>3, <1>4, <1>5, <1>6, <1>7, <1>8
       DEF Acts, Finish, EnrollCommit, DeleteMfaCommit, DeleteCommit, RevokePasskeyCommit, Crash
  <1>10. QED
    BY Zenon, <1>0, <1>9

LEMMA NextFlags ==
    ASSUME TypeOK, Shapes, Enrols, Flags, Next
    PROVE  Flags'
  <1>1. ASSUME NEW p \in Proc, EnrollCommit(p) PROVE Flags'
    <2>1. mlock = p
      BY Zenon, <1>1 DEF EnrollCommit, Shapes, ShapeOk
    <2>2. \A q \in Proc : ~(op'[q] = "delete_mfa" /\ pc'[q] = "commit")
      <3>1. Gone(p) /\ \A q \in Proc \ {p} : Kept(q)
        BY Zenon, <1>1, ResetEffect DEF EnrollCommit
      <3>2. \A q \in Proc \ {p} : op[q] # "delete_mfa"
        BY Zenon, <2>1 DEF Shapes, ShapeOk
      <3>3. QED
        BY Zenon, <3>1, <3>2 DEF Gone, Kept
    <2>3. FlagMatchesTotp'
      BY Zenon, <1>1 DEF EnrollCommit, FlagMatchesTotp
    <2>4. QED
      BY Zenon, <2>2, <2>3 DEF Flags
  <1>2. ASSUME NEW p \in Proc, DeleteMfaRevoke(p) PROVE Flags'
    <2>1. /\ \A q \in Proc \ {p} : Kept(q)
          /\ arg'[p] = arg[p] /\ listed'[p] = totps \ {arg[p]}
      BY Zenon, <1>2, ReadEffect DEF DeleteMfaRevoke
    <2>2. UNCHANGED <<totps, mfa, strayed>>
      BY Zenon, <1>2 DEF DeleteMfaRevoke, accounts, history
    <2>3. FlagMatchesTotp'
      BY Zenon, <2>2 DEF Flags, FlagMatchesTotp
    <2>4. ASSUME NEW q \in Proc, op'[q] = "delete_mfa", pc'[q] = "commit"
          PROVE  totps' \ {arg'[q]} \subseteq listed'[q] /\ (listed'[q] # totps' \ {arg'[q]} => strayed')
      <3>1. CASE q = p
        BY Zenon, <2>1, <2>2, <3>1
      <3>2. CASE q # p
        BY Zenon, <2>1, <2>2, <2>4, <3>2 DEF Kept, Flags
      <3>3. QED
        BY Zenon, <3>1, <3>2
    <2>5. QED
      BY Zenon, <2>3, <2>4 DEF Flags
  <1>3. ASSUME NEW p \in Proc, DeleteMfaCommit(p) PROVE Flags'
    <2>0. op[p] = "delete_mfa" /\ pc[p] = "commit" /\ mlock = p
      BY Zenon, <1>3 DEF DeleteMfaCommit, Shapes, ShapeOk
    <2>1. \A q \in Proc : op'[q] # "delete_mfa"
      <3>1. Gone(p) /\ \A q \in Proc \ {p} : Kept(q)
        BY Zenon, <1>3, ResetEffect DEF DeleteMfaCommit
      <3>2. \A q \in Proc \ {p} : op[q] # "delete_mfa"
        BY Zenon, <2>0 DEF Shapes, ShapeOk
      <3>3. QED
        BY Zenon, <3>1, <3>2 DEF Gone, Kept
    <2>2. totps \ {arg[p]} \subseteq listed[p] /\ (listed[p] # totps \ {arg[p]} => strayed)
      BY Zenon, <2>0 DEF Flags
    <2>3. totps' = totps \ {arg[p]} /\ mfa' = (mfa /\ listed[p] # {}) /\ strayed' = strayed
      BY Zenon, <1>3 DEF DeleteMfaCommit, history
    <2>4. FlagMatchesTotp
      BY Zenon DEF Flags
    <2>5. ASSUME totps' # {} PROVE mfa'
      <3>1. totps # {} /\ listed[p] # {}
        BY Zenon, <2>2, <2>3, <2>5
      <3>2. QED
        BY Zenon, <2>3, <2>4, <3>1 DEF FlagMatchesTotp
    <2>6. ASSUME mfa' PROVE totps' # {} \/ strayed'
      <3>1. listed[p] # {}
        BY Zenon, <2>3, <2>6
      <3>2. QED
        BY Zenon, <2>2, <2>3, <3>1
    <2>7. QED
      BY Zenon, <2>1, <2>5, <2>6 DEF Flags, FlagMatchesTotp
  <1>4. ASSUME NEW p \in Proc, DeleteCommit(p) PROVE Flags'
    <2>1. \A q \in Proc : NoRevoke(q)
      BY Zenon, <1>4, ResetEffect, GoneQuiet, KeptQuiet DEF Quiet, DeleteCommit
    <2>2. mfa' = mfa
      BY Zenon, <1>4 DEF DeleteCommit
    <2>3. CASE arg[p] \in Totps
      <3>1. totps' \subseteq totps /\ strayed'
        BY Zenon, <1>4, <2>3 DEF DeleteCommit
      <3>2. QED
        BY Zenon, <2>1, <2>2, <3>1 DEF Flags, FlagMatchesTotp, NoRevoke
    <2>4. CASE arg[p] \notin Totps
      <3>1. UNCHANGED <<totps, strayed>>
        BY Zenon, <1>4, <2>4 DEF DeleteCommit
      <3>2. QED
        BY Zenon, <2>1, <2>2, <3>1, FlagsStay
    <2>5. QED
      BY Zenon, <2>3, <2>4
  <1>5. ASSUME NEW p \in Proc, Acts(p), ~EnrollCommit(p), ~DeleteMfaRevoke(p), ~DeleteMfaCommit(p),
               ~DeleteCommit(p)
        PROVE  Flags'
    <2>1. UNCHANGED <<totps, mfa, strayed>>
      BY Zenon, <1>5 DEF Acts, Attempt, Compare, Replay, Recover, Finish, EnrollTake, EnrollLock,
                  RevokePasskeyCommit, Crash, StepUp, TakeTicket, DeleteMfa, Delete, RevokePasskey,
                  accounts, history
    <2>2. QED
      BY Zenon, <1>5, <2>1, ActsNoRevoke, FlagsStay
  <1>6. CASE Environment
    <2>1. UNCHANGED <<totps, mfa, strayed>>
      BY Zenon, <1>6 DEF Environment, EnrollInit, CounterExpires, IssueTicket, AddMethod, RegisterPasskey,
                  accounts, history
    <2>2. \A q \in Proc : NoRevoke(q)
      BY Zenon, <1>6, EnvironmentKept, KeptQuiet DEF Quiet
    <2>3. QED
      BY Zenon, <2>1, <2>2, FlagsStay
  <1>7. QED
    BY Zenon, <1>1, <1>2, <1>3, <1>4, <1>5, <1>6, NextParts DEF Acts

-----------------------------------------------------------------------------
(* Types.                                                                  *)

AccountsOK ==
    /\ methods \in SUBSET Logins /\ totps \in SUBSET Totps /\ keys \in SUBSET Passkeys
    /\ hash \in BOOLEAN /\ mfa \in BOOLEAN /\ requires \in BOOLEAN
    /\ rcode \in [Totps -> {"absent", "unused", "used"}]

RedisOK ==
    /\ stage \in 0..NTotp /\ made \in 0..NTotp
    /\ ticket \in [Tickets -> {"none", "open", "spent"}]
    /\ attempts \in 0..MaxAttempts + 1
    /\ seen \in SUBSET Totps

LocalOK ==
    /\ mlock \in Proc \cup {None}
    /\ op \in [Proc -> Ops] /\ pc \in [Proc -> Steps]
    /\ arg \in [Proc -> 0..NTotp \cup Logins \cup Passkeys]
    /\ tick \in [Proc -> Tickets \cup {None}]
    /\ listed \in [Proc -> SUBSET Totps]

HistoryOK ==
    /\ counted \in SUBSET Proc /\ tried \in Nat
    /\ grants \in [OneTime -> Nat]
    /\ strayed \in BOOLEAN

LEMMA TypeParts == TypeOK <=> AccountsOK /\ RedisOK /\ LocalOK /\ HistoryOK
  BY Zenon DEF TypeOK, AccountsOK, RedisOK, LocalOK, HistoryOK

LEMMA ActsAccounts ==
    ASSUME NEW p \in Proc, TypeOK, Shapes, Enrols, Acts(p)
    PROVE  AccountsOK'
  <1>0. AccountsOK
    BY Zenon, TypeParts
  <1>1. CASE UNCHANGED <<accounts, requires>>
    BY Zenon, <1>0, <1>1 DEF AccountsOK, accounts
  <1>2. CASE Recover(p)
    <2>1. rcode' \in [Totps -> {"absent", "unused", "used"}]
      BY Zenon, <1>0, <1>2 DEF Recover, AccountsOK
    <2>2. QED
      BY Zenon, <1>0, <1>2, <2>1 DEF Recover, AccountsOK
  <1>3. CASE EnrollCommit(p)
    <2>1. arg[p] \in Totps
      BY Zenon, <1>3 DEF EnrollCommit, Enrols
    <2>2. rcode' \in [Totps -> {"absent", "unused", "used"}]
      BY Zenon, <1>0, <1>3 DEF EnrollCommit, Rcodes, AccountsOK
    <2>3. totps' \in SUBSET Totps
      BY Zenon, <1>0, <1>3, <2>1 DEF EnrollCommit, AccountsOK
    <2>4. QED
      BY Zenon, <1>0, <1>3, <2>2, <2>3 DEF EnrollCommit, AccountsOK
  <1>4. CASE DeleteMfaCommit(p)
    BY Zenon, <1>0, <1>4 DEF DeleteMfaCommit, AccountsOK
  <1>5. CASE DeleteCommit(p)
    BY Zenon, <1>0, <1>5 DEF DeleteCommit, AccountsOK
  <1>6. CASE RevokePasskeyCommit(p)
    BY Zenon, <1>0, <1>6 DEF RevokePasskeyCommit, AccountsOK
  <1>7. QED
    BY Zenon, <1>1, <1>2, <1>3, <1>4, <1>5, <1>6
       DEF Acts, Attempt, Compare, Replay, Finish, EnrollTake, EnrollLock, DeleteMfaRevoke, Crash, StepUp,
           TakeTicket, DeleteMfa, Delete, RevokePasskey

LEMMA ActsRedis ==
    ASSUME NEW p \in Proc, TypeOK, Shapes, Acts(p)
    PROVE  RedisOK'
  <1>0. RedisOK
    BY Zenon, TypeParts
  <1>1. CASE UNCHANGED redis
    BY Zenon, <1>0, <1>1 DEF RedisOK, redis
  <1>2. CASE Attempt(p)
    <2>1. attempts' \in 0..MaxAttempts + 1
      BY <1>0, <1>2, BoundsAssumption DEF Attempt, RedisOK
    <2>2. QED
      BY Zenon, <1>0, <1>2, <2>1 DEF Attempt, RedisOK
  <1>3. CASE Replay(p)
    <2>1. arg[p] \in Totps
      BY Zenon, <1>3 DEF Replay, Shapes, ShapeOk
    <2>2. seen' \in SUBSET Totps
      BY Zenon, <1>0, <1>3, <2>1 DEF Replay, RedisOK
    <2>3. QED
      BY Zenon, <1>0, <1>3, <2>2 DEF Replay, RedisOK
  <1>4. CASE Finish(p)
    <2>1. attempts' \in 0..MaxAttempts + 1
      BY <1>4, BoundsAssumption DEF Finish
    <2>2. QED
      BY Zenon, <1>0, <1>4, <2>1 DEF Finish, RedisOK
  <1>5. CASE EnrollTake(p)
    <2>1. stage' \in 0..NTotp
      BY <1>5, BoundsAssumption DEF EnrollTake
    <2>2. QED
      BY Zenon, <1>0, <1>5, <2>1 DEF EnrollTake, RedisOK
  <1>6. ASSUME NEW x, NEW k, NEW next, TakeTicket(p, k, x, next) PROVE RedisOK'
    <2>1. ticket' \in [Tickets -> {"none", "open", "spent"}]
      BY Zenon, <1>0, <1>6 DEF TakeTicket, RedisOK
    <2>2. QED
      BY Zenon, <1>0, <1>6, <2>1 DEF TakeTicket, RedisOK
  <1>7. QED
    BY Zenon, <1>1, <1>2, <1>3, <1>4, <1>5, <1>6
       DEF Acts, Compare, Recover, EnrollLock, EnrollCommit, DeleteMfaRevoke, DeleteMfaCommit, DeleteCommit,
           RevokePasskeyCommit, Crash, StepUp, DeleteMfa, Delete, RevokePasskey

LEMMA ResetType ==
    ASSUME NEW p \in Proc, LocalOK, Reset(p), mlock' \in Proc \cup {None}
    PROVE  LocalOK'
  <1>1. 0 \in 0..NTotp
    BY BoundsAssumption
  <1>2. QED
    BY Zenon, <1>1 DEF LocalOK, Reset, Ops, Steps

LEMMA GoType ==
    ASSUME NEW p \in Proc, NEW next \in Steps, LocalOK, Go(p, next), UNCHANGED <<op, arg, tick>>,
           listed' \in [Proc -> SUBSET Totps], mlock' \in Proc \cup {None}
    PROVE  LocalOK'
  BY Zenon DEF LocalOK, Go

LEMMA BeginType ==
    ASSUME NEW p \in Proc, NEW what \in Ops, NEW next \in Steps,
           NEW x \in 0..NTotp \cup Logins \cup Passkeys, LocalOK,
           Begin(p, what, next, x), UNCHANGED listed,
           tick' \in [Proc -> Tickets \cup {None}], mlock' \in Proc \cup {None}
    PROVE  LocalOK'
  BY Zenon DEF LocalOK, Begin, Go

LEMMA ActsLocal ==
    ASSUME NEW p \in Proc, TypeOK, Shapes, Enrols, Acts(p)
    PROVE  LocalOK'
  <1>0. LocalOK /\ AccountsOK
    BY Zenon, TypeParts
  <1>1. mlock \in Proc \cup {None} /\ listed \in [Proc -> SUBSET Totps] /\ tick \in [Proc -> Tickets \cup {None}]
    BY Zenon, <1>0 DEF LocalOK
  <1>a. ASSUME Reset(p), Unlock(p) \/ UNCHANGED mlock PROVE LocalOK'
    BY Zenon, <1>0, <1>1, <1>a, ResetType DEF Unlock
  <1>b. ASSUME NEW next \in Steps, Go(p, next), UNCHANGED <<op, arg, tick, listed, mlock>> PROVE LocalOK'
    BY Zenon, <1>0, <1>1, <1>b, GoType
  <1>c. ASSUME NEW what \in Ops, NEW next \in Steps, NEW x \in 0..NTotp \cup Logins \cup Passkeys,
               Begin(p, what, next, x), UNCHANGED <<listed, tick>>, mlock' \in {mlock, p}
        PROVE  LocalOK'
    BY Zenon, <1>0, <1>1, <1>c, BeginType
  <1>d. \A n \in Totps : n \in 0..NTotp
    BY BoundsAssumption DEF Totps
  <1>2. CASE Attempt(p) \/ Compare(p)
    BY Zenon, <1>2, <1>a, <1>b DEF Attempt, Compare, Steps
  <1>3. CASE Replay(p)
    <2>1. (IF op[p] = "enroll" THEN "lock" ELSE "finish") \in Steps
      BY Zenon DEF Steps
    <2>2. QED
      BY Zenon, <1>3, <1>a, <1>b, <2>1 DEF Replay
  <1>4. CASE Recover(p)
    <2>1. CASE /\ arg[p] \in Totps /\ Go(p, "finish") /\ listed' = [listed EXCEPT ![p] = {arg[p]}]
               /\ UNCHANGED <<op, arg, tick>>
      <3>1. listed' \in [Proc -> SUBSET Totps]
        BY Zenon, <1>1, <2>1
      <3>2. QED
        BY Zenon, <1>0, <1>1, <1>4, <2>1, <3>1, GoType DEF Recover, Steps
    <2>2. QED
      BY Zenon, <1>4, <1>a, <2>1 DEF Recover
  <1>5. CASE EnrollTake(p)
    <2>1. stage \in 0..NTotp
      BY Zenon DEF TypeOK
    <2>2. CASE Begin(p, "enroll", "replay", stage)
      BY Zenon, <1>5, <1>c, <2>1, <2>2 DEF EnrollTake, Ops, Steps
    <2>3. CASE UNCHANGED <<op, pc, arg>>
      BY Zenon, <1>0, <1>5, <2>3 DEF EnrollTake, LocalOK
    <2>4. QED
      BY Zenon, <1>5, <2>2, <2>3 DEF EnrollTake
  <1>6. CASE EnrollLock(p)
    <2>1. listed' \in [Proc -> SUBSET Totps]
      BY Zenon, <1>0, <1>1, <1>6 DEF EnrollLock, AccountsOK
    <2>2. QED
      BY Zenon, <1>0, <1>6, <2>1, GoType DEF EnrollLock, Steps
  <1>7. CASE DeleteMfaRevoke(p)
    <2>1. listed' \in [Proc -> SUBSET Totps]
      BY Zenon, <1>0, <1>1, <1>7 DEF DeleteMfaRevoke, AccountsOK
    <2>2. QED
      BY Zenon, <1>0, <1>1, <1>7, <2>1, GoType DEF DeleteMfaRevoke, Steps
  <1>8. ASSUME NEW x \in 0..NTotp, StepUp(p, x) PROVE LocalOK'
    BY Zenon, <1>8, <1>c DEF StepUp, Ops, Steps
  <1>9. ASSUME NEW x \in 0..NTotp, NEW k \in Tickets, NEW next \in {"attempt", "recover"},
               TakeTicket(p, k, x, next)
        PROVE  LocalOK'
    <2>1. tick' \in [Proc -> Tickets \cup {None}]
      BY Zenon, <1>1, <1>9 DEF TakeTicket
    <2>2. QED
      BY <1>0, <1>1, <1>9, <2>1, BeginType DEF TakeTicket, Ops, Steps
  <1>10. ASSUME NEW n \in Totps, DeleteMfa(p, n) PROVE LocalOK'
    BY Zenon, <1>10, <1>c, <1>d DEF DeleteMfa, Ops, Steps
  <1>11. ASSUME NEW m \in Totps \cup Logins, Delete(p, m) PROVE LocalOK'
    BY Zenon, <1>11, <1>c, <1>d DEF Delete, Ops, Steps
  <1>12. ASSUME NEW k \in Passkeys, RevokePasskey(p, k) PROVE LocalOK'
    BY Zenon, <1>12, <1>c DEF RevokePasskey, Ops, Steps
  <1>13. CASE Reset(p) /\ (Unlock(p) \/ UNCHANGED mlock)
    BY Zenon, <1>13, <1>a
  <1>14. QED
    BY Zenon, <1>2, <1>3, <1>4, <1>5, <1>6, <1>7, <1>8, <1>9, <1>10, <1>11, <1>12, <1>13
       DEF Acts, Finish, EnrollCommit, DeleteMfaCommit, DeleteCommit, RevokePasskeyCommit, Crash

LEMMA ActsHistory ==
    ASSUME NEW p \in Proc, TypeOK, Acts(p)
    PROVE  HistoryOK'
  <1>0. HistoryOK
    BY Zenon, TypeParts
  <1>1. CASE UNCHANGED history
    BY Zenon, <1>0, <1>1 DEF HistoryOK, history
  <1>2. CASE Attempt(p)
    BY Zenon, <1>0, <1>2 DEF Attempt, HistoryOK
  <1>3. CASE Compare(p)
    BY <1>0, <1>3 DEF Compare, HistoryOK
  <1>4. CASE Finish(p)
    <2>1. grants' \in [OneTime -> Nat]
      BY <1>0, <1>4 DEF Finish, HistoryOK
    <2>2. QED
      BY Zenon, <1>0, <1>4, <2>1 DEF Finish, HistoryOK
  <1>5. CASE DeleteCommit(p)
    BY Zenon, <1>0, <1>5 DEF DeleteCommit, HistoryOK
  <1>6. ASSUME NEW m, Delete(p, m) PROVE HistoryOK'
    BY Zenon, <1>0, <1>6 DEF Delete, HistoryOK, history
  <1>7. QED
    BY Zenon, <1>1, <1>2, <1>3, <1>4, <1>5, <1>6
       DEF Acts, Replay, Recover, EnrollTake, EnrollLock, EnrollCommit, DeleteMfaRevoke, DeleteMfaCommit,
           RevokePasskeyCommit, Crash, StepUp, TakeTicket, DeleteMfa, RevokePasskey

LEMMA NextType ==
    ASSUME TypeOK, Shapes, Enrols, Next
    PROVE  TypeOK'
  <1>0. AccountsOK /\ RedisOK /\ LocalOK /\ HistoryOK
    BY Zenon, TypeParts
  <1>1. ASSUME NEW p \in Proc, Acts(p) PROVE TypeOK'
    BY Zenon, <1>1, ActsAccounts, ActsRedis, ActsLocal, ActsHistory
       DEF TypeOK, AccountsOK, RedisOK, LocalOK, HistoryOK
  <1>2. CASE EnrollInit
    <2>1. stage' \in 0..NTotp /\ made' \in 0..NTotp
      BY <1>0, <1>2, BoundsAssumption DEF EnrollInit, RedisOK
    <2>2. QED
      BY Zenon, <1>2, <2>1 DEF EnrollInit, TypeOK, accounts, local, history
  <1>3. CASE CounterExpires
    <2>1. attempts' \in 0..MaxAttempts + 1
      BY <1>3, BoundsAssumption DEF CounterExpires
    <2>2. QED
      BY Zenon, <1>3, <2>1 DEF CounterExpires, TypeOK, accounts, local
  <1>4. ASSUME NEW k \in Tickets, IssueTicket(k) PROVE TypeOK'
    <2>1. ticket' \in [Tickets -> {"none", "open", "spent"}]
      BY Zenon, <1>4 DEF IssueTicket, TypeOK
    <2>2. QED
      BY Zenon, <1>4, <2>1 DEF IssueTicket, TypeOK, accounts, local, history
  <1>5. ASSUME NEW m \in Logins, AddMethod(m) PROVE TypeOK'
    BY Zenon, <1>5 DEF AddMethod, TypeOK, redis, local, history
  <1>6. ASSUME NEW k \in Passkeys, RegisterPasskey(k) PROVE TypeOK'
    BY Zenon, <1>6 DEF RegisterPasskey, TypeOK, redis, local, history
  <1>7. QED
    BY Zenon, <1>1, <1>2, <1>3, <1>4, <1>5, <1>6, NextParts DEF Environment

-----------------------------------------------------------------------------
(* Facts about cardinality, for the budget of guesses. *)
INSTANCE FiniteSetTheorems

-----------------------------------------------------------------------------
(* The attempt budget.                                                     *)

LEMMA BudgetStays ==
    ASSUME TypeOK, Budget, UNCHANGED <<attempts, tried, counted>>, \A q \in Proc : NoCompare(q)
    PROVE  Budget'
  <1>1. Comparing' \subseteq Comparing
    BY Zenon DEF Comparing, NoCompare, TypeOK
  <1>2. IsFiniteSet(Comparing)
    BY Zenon, FS_Subset DEF Comparing, Budget
  <1>3. /\ Cardinality(Comparing') <= Cardinality(Comparing)
        /\ Cardinality(Comparing) \in Nat /\ Cardinality(Comparing') \in Nat
    BY Zenon, <1>1, <1>2, FS_Subset, FS_CardinalityType
  <1>4. tried \in Nat /\ attempts \in Nat /\ MaxAttempts \in Nat
    BY BoundsAssumption DEF TypeOK
  <1>5. QED
    BY <1>3, <1>4 DEF Budget

LEMMA WindowEnds ==
    ASSUME attempts' = 0, counted' = {}, tried' = 0
    PROVE  Budget'
  <1>1. Comparing' = {}
    BY Zenon DEF Comparing
  <1>2. Cardinality(Comparing') = 0 /\ IsFiniteSet(counted')
    BY Zenon, <1>1, FS_EmptySet
  <1>3. QED
    BY <1>2, BoundsAssumption DEF Budget

LEMMA AttemptBudgets ==
    ASSUME NEW p \in Proc, TypeOK, Budget, Attempt(p)
    PROVE  Budget'
  <1>0. /\ tried \in Nat /\ attempts \in Nat /\ MaxAttempts \in Nat
        /\ tried' = tried /\ attempts <= attempts'
    BY BoundsAssumption DEF TypeOK, Attempt
  <1>1. IsFiniteSet(Comparing)
    BY Zenon, FS_Subset DEF Comparing, Budget
  <1>2. CASE Reset(p) /\ UNCHANGED counted
    <2>1. \A q \in Proc : NoCompare(q)
      BY Zenon, <1>2, ResetEffect, GoneQuiet, KeptQuiet DEF Quiet
    <2>2. Comparing' \subseteq Comparing
      BY Zenon, <1>2, <2>1 DEF Comparing, NoCompare, TypeOK
    <2>3. /\ Cardinality(Comparing') <= Cardinality(Comparing)
          /\ Cardinality(Comparing) \in Nat /\ Cardinality(Comparing') \in Nat
      BY Zenon, <1>1, <2>2, FS_Subset, FS_CardinalityType
    <2>4. attempts' \in Nat
      BY <1>0 DEF Attempt
    <2>5. QED
      BY <1>0, <1>2, <2>3, <2>4 DEF Budget
  <1>3. CASE attempts < MaxAttempts /\ Go(p, "compare") /\ counted' = counted \cup {p}
    <2>1. Comparing' = Comparing \cup {p} /\ p \notin Comparing
      BY Zenon, <1>3 DEF Comparing, Attempt, Go, TypeOK
    <2>2. Cardinality(Comparing') = Cardinality(Comparing) + 1 /\ Cardinality(Comparing) \in Nat
      BY Zenon, <1>1, <2>1, FS_AddElement, FS_CardinalityType
    <2>3. IsFiniteSet(counted')
      BY Zenon, <1>3, FS_AddElement DEF Budget
    <2>4. attempts' = attempts + 1
      BY <1>0, <1>3 DEF Attempt
    <2>5. QED
      BY <1>0, <1>3, <2>2, <2>3, <2>4 DEF Budget
  <1>4. QED
    BY Zenon, <1>2, <1>3 DEF Attempt

LEMMA CompareBudgets ==
    ASSUME NEW p \in Proc, TypeOK, Budget, Compare(p)
    PROVE  Budget'
  <1>0. tried \in Nat /\ attempts \in Nat /\ MaxAttempts \in Nat /\ UNCHANGED <<attempts, counted>>
    <2>1. tried \in Nat /\ attempts \in 0..MaxAttempts + 1 /\ UNCHANGED <<attempts, counted>>
      BY Zenon DEF TypeOK, Compare, redis
    <2>2. QED
      BY <2>1, BoundsAssumption
  <1>1. IsFiniteSet(Comparing)
    BY Zenon, FS_Subset DEF Comparing, Budget
  <1>2. (\A q \in Proc \ {p} : Kept(q)) /\ pc'[p] # "compare"
    <2>1. CASE Reset(p)
      BY Zenon, <2>1, ResetEffect DEF Gone
    <2>2. CASE Go(p, "replay") /\ UNCHANGED <<op, arg, tick, listed>>
      BY SMTT(60), <2>2, GoEffect
    <2>3. QED
      BY Zenon, <2>1, <2>2 DEF Compare
  <1>3. Comparing' = Comparing \ {p}
    BY Zenon, <1>0, <1>2 DEF Comparing, Kept, TypeOK
  <1>4. p \in Comparing <=> p \in counted
    BY Zenon DEF Comparing, Compare
  <1>5. /\ Cardinality(Comparing') = IF p \in counted THEN Cardinality(Comparing) - 1
                                                    ELSE Cardinality(Comparing)
        /\ Cardinality(Comparing) \in Nat
    BY Zenon, <1>1, <1>3, <1>4, FS_RemoveElement, FS_CardinalityType
  <1>6. tried' = IF p \in counted THEN tried + 1 ELSE tried
    BY Zenon DEF Compare
  <1>7. QED
    BY <1>0, <1>5, <1>6 DEF Budget

LEMMA ActsNoCompare ==
    ASSUME NEW p \in Proc, TypeOK, Acts(p), ~Attempt(p)
    PROVE  \A q \in Proc : NoCompare(q)
  <1>0. \A q \in Proc \ {p} : NoCompare(q)
    BY Zenon, ActsAlone, AloneQuiet DEF Quiet
  <1>a. ASSUME Reset(p) PROVE NoCompare(p)
    BY Zenon, <1>a, ResetEffect, GoneQuiet DEF Quiet
  <1>b. ASSUME NEW next, Go(p, next), next # "compare" PROVE NoCompare(p)
    BY Zenon, <1>b DEF Go, NoCompare, TypeOK
  <1>c. ASSUME NEW what, NEW next, NEW x, Begin(p, what, next, x), next # "compare" PROVE NoCompare(p)
    BY Zenon, <1>c, <1>b DEF Begin
  <1>1. ASSUME Compare(p) \/ Replay(p) \/ Recover(p) PROVE NoCompare(p)
    BY Zenon, <1>1, <1>a, <1>b DEF Compare, Replay, Recover
  <1>2. ASSUME EnrollLock(p) \/ DeleteMfaRevoke(p) PROVE NoCompare(p)
    BY Zenon, <1>2, <1>b DEF EnrollLock, DeleteMfaRevoke
  <1>3. ASSUME NEW x \in 0..NTotp, StepUp(p, x) PROVE NoCompare(p)
    BY Zenon, <1>3, <1>c DEF StepUp
  <1>4. ASSUME EnrollTake(p) PROVE NoCompare(p)
    <2>1. CASE Begin(p, "enroll", "replay", stage)
      BY Zenon, <1>4, <2>1, <1>c DEF EnrollTake
    <2>2. CASE UNCHANGED <<op, pc, arg>>
      BY Zenon, <1>4, <2>2 DEF EnrollTake, NoCompare
    <2>3. QED
      BY Zenon, <1>4, <2>1, <2>2 DEF EnrollTake
  <1>5. ASSUME NEW n \in Totps, DeleteMfa(p, n) PROVE NoCompare(p)
    BY Zenon, <1>5, <1>c DEF DeleteMfa
  <1>6. ASSUME NEW m, Delete(p, m) PROVE NoCompare(p)
    BY Zenon, <1>6, <1>c DEF Delete
  <1>7. ASSUME NEW k \in Passkeys, RevokePasskey(p, k) PROVE NoCompare(p)
    BY Zenon, <1>7, <1>c DEF RevokePasskey
  <1>8. ASSUME NEW x, NEW k, NEW next \in {"attempt", "recover"}, TakeTicket(p, k, x, next)
        PROVE  NoCompare(p)
    BY Zenon, <1>8, <1>c DEF TakeTicket
  <1>9. NoCompare(p)
    BY Zenon, <1>a, <1>1, <1>2, <1>3, <1>4, <1>5, <1>6, <1>7, <1>8
       DEF Acts, Finish, EnrollCommit, DeleteMfaCommit, DeleteCommit, RevokePasskeyCommit, Crash
  <1>10. QED
    BY Zenon, <1>0, <1>9

LEMMA NextBudget ==
    ASSUME TypeOK, Budget, Next
    PROVE  Budget'
  <1>1. ASSUME NEW p \in Proc, Attempt(p) PROVE Budget'
    BY Zenon, <1>1, AttemptBudgets
  <1>2. ASSUME NEW p \in Proc, Compare(p) PROVE Budget'
    BY Zenon, <1>2, CompareBudgets
  <1>3. ASSUME NEW p \in Proc, Finish(p) PROVE Budget'
    BY Zenon, <1>3, WindowEnds DEF Finish
  <1>4. ASSUME NEW p \in Proc, Acts(p), ~Attempt(p), ~Compare(p), ~Finish(p) PROVE Budget'
    <2>1. UNCHANGED <<attempts, tried, counted>>
      BY Zenon, <1>4 DEF Acts, Replay, Recover, EnrollTake, EnrollLock, EnrollCommit, DeleteMfaRevoke,
                  DeleteMfaCommit, DeleteCommit, RevokePasskeyCommit, Crash, StepUp, TakeTicket,
                  DeleteMfa, Delete, RevokePasskey, redis, history
    <2>2. QED
      BY Zenon, <1>4, <2>1, ActsNoCompare, BudgetStays
  <1>5. CASE CounterExpires
    BY Zenon, <1>5, WindowEnds DEF CounterExpires
  <1>6. CASE Environment /\ ~CounterExpires
    <2>1. UNCHANGED <<attempts, tried, counted>>
      BY Zenon, <1>6 DEF Environment, EnrollInit, IssueTicket, AddMethod, RegisterPasskey, redis, history
    <2>2. \A q \in Proc : NoCompare(q)
      BY Zenon, <1>6, EnvironmentKept, KeptQuiet DEF Quiet
    <2>3. QED
      BY Zenon, <2>1, <2>2, BudgetStays
  <1>7. QED
    BY Zenon, <1>1, <1>2, <1>3, <1>4, <1>5, <1>6, NextParts DEF Acts

-----------------------------------------------------------------------------
(* The theorems.                                                           *)

LEMMA InitIInv == Init => IInv
  <1> SUFFICES ASSUME Init PROVE IInv
    OBVIOUS
  <1>0. 0 \in 0..NTotp /\ 0 \in 0..MaxAttempts + 1 /\ MaxAttempts \in Nat
    BY BoundsAssumption
  <1>1. TypeOK
    BY Zenon, <1>0 DEF Init, TypeOK, Ops, Steps
  <1>2. Shapes
    BY Zenon DEF Init, Shapes, ShapeOk
  <1>3. Enrols
    BY Zenon DEF Init, Enrols
  <1>4. Spending
    BY DEF Init, Spending, Holds
  <1>5. Budget
    <2>1. Comparing = {} /\ counted = {} /\ tried = 0 /\ attempts = 0
      BY Zenon DEF Init, Comparing
    <2>2. QED
      BY <1>0, <2>1, FS_EmptySet DEF Budget
  <1>6. OneCode
    BY Zenon DEF Init, OneCode
  <1>7. Flags
    BY Zenon DEF Init, Flags, FlagMatchesTotp
  <1>8. QED
    BY Zenon, <1>1, <1>2, <1>3, <1>4, <1>5, <1>6, <1>7 DEF IInv

LEMMA NextIInv == IInv /\ [Next]_vars => IInv'
  <1>1. ASSUME IInv, Next PROVE IInv'
    BY Zenon, <1>1, NextType, NextShapes, NextEnrols, NextSpending, NextBudget, NextOneCode, NextFlags
       DEF IInv
  <1>2. ASSUME IInv, UNCHANGED vars PROVE IInv'
    <2>1. UNCHANGED <<accounts, requires, redis, mlock, local, history>>
      BY Zenon, <1>2 DEF vars
    <2>2. TypeOK'
      BY Zenon, <1>2, <2>1 DEF IInv, TypeOK, accounts, redis, local, history
    <2>3. Shapes' /\ Enrols'
      <3>1. UNCHANGED <<op, pc, arg, listed, mlock, made, stage, rcode>>
        BY Zenon, <2>1 DEF accounts, redis, local
      <3>2. Shapes'
        BY Zenon, <1>2, <3>1 DEF IInv, Shapes, ShapeOk
      <3>3. Enrols'
        BY Zenon, <1>2, <3>1 DEF IInv, Enrols
      <3>4. QED
        BY Zenon, <3>2, <3>3
    <2>4. Spending'
      <3>1. \A q \in Proc : NoTake(q)
        BY Zenon, <2>1, LocalKept, KeptQuiet DEF Quiet
      <3>2. TakenStays /\ grants' = grants
        BY Zenon, <2>1 DEF TakenStays, Taken, accounts, redis, history
      <3>3. QED
        BY Zenon, <1>2, <3>1, <3>2, SpendStays DEF IInv
    <2>5. Budget' /\ OneCode'
      BY Zenon, <1>2, <2>1 DEF IInv, Budget, Comparing, OneCode, accounts, redis, local, history
    <2>6. Flags'
      BY Zenon, <1>2, <2>1 DEF IInv, Flags, FlagMatchesTotp, accounts, local, history
    <2>7. QED
      BY Zenon, <2>2, <2>3, <2>4, <2>5, <2>6 DEF IInv
  <1>3. QED
    BY Zenon, <1>1, <1>2

\* The strengthening holds in every state of the account.
THEOREM Inductive == Spec => []IInv
  BY InitIInv, NextIInv, PTL DEF Spec

\* enrollConfirm and deleteMfa write is_mfa_enabled under the row lock of the
\* user: the flag matches the TOTP rows for any number of requests.
THEOREM FlagMatches == Spec => []FlagMatchesTotp
  <1>1. IInv => FlagMatchesTotp
    BY Zenon DEF IInv, Flags
  <1>2. QED
    BY <1>1, Inductive, PTL

\* The replay guard, the UPDATE of a recovery code and the GETDEL of an MFA
\* session each let one request through, however many present the same.
THEOREM UsedOnce == Spec => []SingleUse
  <1>1. IInv => SingleUse
    BY Zenon DEF IInv, Spending, SingleUse
  <1>2. QED
    BY <1>1, Inductive, PTL

\* consumeMfaVerificationAttempt counts before the code is compared: the
\* budget of a window holds for any burst and any MAX_MFA_VERIFICATION_ATTEMPTS.
THEOREM BudgetKept == Spec => []AttemptBudget
  <1>1. ASSUME IInv PROVE AttemptBudget
    <2>1. IsFiniteSet(Comparing)
      BY Zenon, <1>1, FS_Subset DEF IInv, Budget, Comparing
    <2>2. Cardinality(Comparing) \in Nat /\ tried \in Nat /\ MaxAttempts \in Nat
      BY Zenon, <1>1, <2>1, FS_CardinalityType, BoundsAssumption DEF IInv, TypeOK
    <2>3. QED
      BY <1>1, <2>2 DEF IInv, Budget, AttemptBudget
  <1>2. QED
    BY <1>1, Inductive, PTL

\* enrollConfirm replaces the recovery codes with the secret: the codes of at
\* most one enrolment are usable.
THEOREM OldCodesAreDead == Spec => []OldCodesDie
  <1>1. ASSUME IInv PROVE OldCodesDie
    <2> DEFINE S == {n \in Totps : rcode[n] = "unused"}
    <2>1. S = {} \/ \E n \in Totps : S = {n}
      BY <1>1 DEF IInv, OneCode
    <2> HIDE DEF S
    <2>2. Cardinality(S) = 0 \/ Cardinality(S) = 1
      <3>1. CASE S = {}
        BY Zenon, <3>1, FS_EmptySet
      <3>2. CASE \E n \in Totps : S = {n}
        BY Zenon, <3>2, FS_Singleton
      <3>3. QED
        BY Zenon, <2>1, <3>1, <3>2
    <2>3. Cardinality(S) <= 1
      BY <2>2
    <2>4. QED
      BY Zenon, <2>3 DEF OldCodesDie, S
  <1>2. QED
    BY <1>1, Inductive, PTL

=============================================================================
