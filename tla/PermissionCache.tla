--------------------------- MODULE PermissionCache ---------------------------
(***************************************************************************)
(* The Redis cache of permission codes of one organization: the cache      *)
(* version of the organization, the value keys perm:<version>:<user> and   *)
(* the recompute lock of each user, beside the roles and memberships in    *)
(* Postgres the codes are computed from.                                   *)
(*                                                                         *)
(* A set of codes is modelled by the changes it does not reflect: the      *)
(* processes that have committed such a change and are still to invalidate *)
(* the cache, Gone for a change whose invalidation is over, and Lost for   *)
(* one whose invalidation failed or died with its process.                 *)
(***************************************************************************)
EXTENDS Naturals

CONSTANTS
    Req,     \* concurrent requests
    Subject, \* users
    MaxVer,  \* bound: the cache version stays below it
    Gone,    \* a request that is over
    Lost,    \* a request whose invalidation did not happen
    Nil

ASSUME ProcAssumption == {Gone, Lost, Nil} \cap Req = {} /\ Gone # Lost /\ Gone # Nil

ASSUME MaxVerAssumption == MaxVer \in Nat

VARIABLES
    ver,     \* the version key, 0 when it is absent
    cached,  \* pairs <<version, user>> with a value key
    lack,    \* version -> user -> changes the value does not reflect
    holder,  \* user -> request whose nonce the recompute lock holds
    step,    \* request -> next step
    usr,     \* request -> the user it is about, Nil for all
    at,      \* request -> the version it has read
    val,     \* request -> changes the codes it has computed do not reflect
    wrapped  \* history: the version key expired before its value keys

cache == <<ver, cached, lack, holder>>
requests == <<step, usr, at, val>>
cacheVars == <<cache, requests, wrapped>>

Versions == 0..MaxVer
Changes == Req \cup {Gone, Lost}
Readers == {"lock", "check", "compute", "commit", "release"}
Writers == {"version", "del", "backstop", "bump"}

CacheTypeOK ==
    /\ ver \in Versions
    /\ cached \in SUBSET (Versions \X Subject)
    /\ lack \in [Versions -> [Subject -> SUBSET Changes]]
    /\ holder \in [Subject -> Req \cup {Nil, Gone}]
    /\ step \in [Req -> {"idle"} \cup Readers \cup Writers]
    /\ usr \in [Req -> Subject \cup {Nil}]
    /\ at \in [Req -> Versions]
    /\ val \in [Req -> SUBSET Changes]
    /\ wrapped \in BOOLEAN

CacheInit ==
    /\ ver = 0
    /\ cached = {}
    /\ lack = [v \in Versions |-> [u \in Subject |-> {}]]
    /\ holder = [u \in Subject |-> Nil]
    /\ step = [p \in Req |-> "idle"]
    /\ usr = [p \in Req |-> Nil]
    /\ at = [p \in Req |-> 0]
    /\ val = [p \in Req |-> {}]
    /\ wrapped = FALSE

Enter(p, next) == step' = [step EXCEPT ![p] = next]

\* The request of p is over: what it had changed is Gone, or Lost.
Renamed(changes, p, as) == IF p \in changes THEN (changes \ {p}) \cup {as} ELSE changes

Forget(p, as) ==
    /\ Enter(p, "idle")
    /\ usr' = [usr EXCEPT ![p] = Nil]
    /\ at' = [at EXCEPT ![p] = 0]
    /\ val' = [q \in Req |-> IF q = p THEN {} ELSE Renamed(val[q], p, as)]

\* The value keys in del are deleted and the request of p is over.
Drop(del, p, as) ==
    /\ cached' = cached \ del
    /\ lack' = [v \in Versions |-> [u \in Subject |->
                   IF <<v, u>> \in del THEN {} ELSE Renamed(lack[v][u], p, as)]]

-----------------------------------------------------------------------------
(* withPermissionCacheRecomputeLock.  A hit, in Redis or while waiting for  *)
(* the lock, changes nothing, and an error of Redis counts as a miss.       *)

Miss(p, u) ==
    /\ step[p] = "idle"
    /\ Enter(p, "lock")
    /\ usr' = [usr EXCEPT ![p] = u]
    /\ UNCHANGED <<cache, at, val, wrapped>>

\* SET NX; a waiter goes on without the lock when it has polled long enough.
Lock(p) ==
    LET u == usr[p]
    IN  /\ step[p] = "lock"
        /\ holder' = IF holder[u] = Nil THEN [holder EXCEPT ![u] = p] ELSE holder
        /\ Enter(p, "check")
        /\ UNCHANGED <<ver, cached, lack, usr, at, val, wrapped>>

\* The version is read before the database is.
DoubleCheck(p) ==
    /\ step[p] = "check"
    /\ \/ <<ver, usr[p]>> \in cached /\ Enter(p, "release") /\ UNCHANGED at
       \/ Enter(p, "compute") /\ at' = [at EXCEPT ![p] = ver]
    /\ UNCHANGED <<cache, usr, val, wrapped>>

\* The changes committed so far are in what the database answers.
Recompute(p) ==
    /\ step[p] = "compute"
    /\ Enter(p, "commit")
    /\ UNCHANGED <<cache, usr, at, val, wrapped>>

\* commitCachedPermissionsIfLockHeld, under the version read before the codes.
Commit(p) ==
    LET u == usr[p]
    IN  /\ step[p] = "commit"
        /\ \/ /\ holder[u] = p
              /\ cached' = cached \cup {<<at[p], u>>}
              /\ lack' = [lack EXCEPT ![at[p]][u] = val[p]]
           \/ UNCHANGED <<cached, lack>>
        /\ Enter(p, "release")
        /\ at' = [at EXCEPT ![p] = 0]
        /\ val' = [val EXCEPT ![p] = {}]
        /\ UNCHANGED <<ver, holder, usr, wrapped>>

\* The lock is deleted if it is still ours, or left to its TTL if that fails.
Release(p) ==
    LET u == usr[p]
    IN  /\ step[p] = "release"
        /\ \/ holder' = [holder EXCEPT ![u] = IF @ = p THEN Nil ELSE @]
           \/ holder[u] = p /\ holder' = [holder EXCEPT ![u] = Gone]
        /\ Forget(p, Gone)
        /\ UNCHANGED <<ver, cached, lack, wrapped>>

-----------------------------------------------------------------------------
(* Changes of memberships and roles.                                       *)

\* The transaction of a change commits: the values there are, and the codes
\* being computed, do not reflect it.
Commits(p, users, next) ==
    /\ step[p] = "idle"
    /\ Enter(p, next)
    /\ lack' = [v \in Versions |-> [u \in Subject |->
                   IF u \in users /\ <<v, u>> \in cached THEN lack[v][u] \cup {p} ELSE lack[v][u]]]
    /\ val' = [q \in Req |-> IF step[q] = "commit" /\ usr[q] \in users THEN val[q] \cup {p} ELSE val[q]]
    /\ UNCHANGED <<ver, cached, holder, at, wrapped>>

\* A membership is created, changed or deleted, or an invitation accepted.
ChangeMember(p, u) ==
    /\ Commits(p, {u}, "version")
    /\ usr' = [usr EXCEPT ![p] = u]

\* The permissions of a role, or the organization itself, are changed.
ChangeRole(p) ==
    /\ Commits(p, Subject, "bump")
    /\ UNCHANGED usr

\* invalidatePermissions: the version, then one DEL of value and lock; the
\* organization's version is bumped if either fails.
ReadVersion(p) ==
    /\ step[p] = "version"
    /\ \/ Enter(p, "del") /\ at' = [at EXCEPT ![p] = ver]
       \/ Enter(p, "backstop") /\ UNCHANGED at
    /\ UNCHANGED <<cache, usr, val, wrapped>>

\* Mutant: an in-flight recompute keeps its lock.
DelValueOnly(p) ==
    /\ step[p] = "del"
    /\ Drop({<<at[p], usr[p]>>}, p, Gone)
    /\ Forget(p, Gone)
    /\ UNCHANGED <<ver, holder, wrapped>>

Del(p) ==
    /\ step[p] = "del"
    /\ Drop({<<at[p], usr[p]>>}, p, Gone)
    /\ holder' = [holder EXCEPT ![usr[p]] = Nil]
    /\ Forget(p, Gone)
    /\ UNCHANGED <<ver, wrapped>>

DelFails(p) ==
    /\ step[p] = "del"
    /\ Enter(p, "backstop")
    /\ at' = [at EXCEPT ![p] = 0]
    /\ UNCHANGED <<cache, usr, val, wrapped>>

\* invalidateOrganizationPermissions, and the backstop above: INCR.
Bump(p) ==
    /\ step[p] \in {"backstop", "bump"}
    /\ ver < MaxVer /\ ver' = ver + 1
    /\ Drop({}, p, Gone)
    /\ Forget(p, Gone)
    /\ UNCHANGED <<holder, wrapped>>

\* The INCR fails too, or the process dies before it.
InvalidationLost(p) ==
    /\ step[p] \in Writers
    /\ Drop({}, p, Lost)
    /\ Forget(p, Lost)
    /\ UNCHANGED <<ver, holder, wrapped>>

ReaderDies(p) ==
    /\ step[p] \in Readers
    /\ holder' = [u \in Subject |-> IF holder[u] = p THEN Gone ELSE holder[u]]
    /\ Forget(p, Gone)
    /\ UNCHANGED <<ver, cached, lack, wrapped>>

-----------------------------------------------------------------------------
(* TTLs.                                                                   *)

ValueExpires(v, u) ==
    /\ <<v, u>> \in cached
    /\ cached' = cached \ {<<v, u>>}
    /\ lack' = [lack EXCEPT ![v][u] = {}]
    /\ UNCHANGED <<ver, holder, requests, wrapped>>

\* A recompute may outlast its lock.
LockExpires(u) ==
    /\ holder[u] # Nil
    /\ holder' = [holder EXCEPT ![u] = Nil]
    /\ UNCHANGED <<ver, cached, lack, requests, wrapped>>

\* Requests that may yet write a value.
Computing == {p \in Req : step[p] \in {"compute", "commit"} /\ holder[usr[p]] = p}

\* A day after the last bump: the values of earlier versions, and the locks
\* of requests that have read one, are long gone; those of the present
\* version need not be.
VersionExpires ==
    /\ ver > 0 /\ ver' = 0
    /\ \A c \in cached : c[1] = ver
    /\ \A p \in Computing : at[p] = ver
    /\ wrapped' = (wrapped \/ cached # {} \/ Computing # {})
    /\ UNCHANGED <<cached, lack, holder, requests>>

CacheStep(p) ==
    \/ Lock(p) \/ DoubleCheck(p) \/ Recompute(p) \/ Commit(p) \/ Release(p)
    \/ ReadVersion(p) \/ Del(p) \/ DelFails(p) \/ Bump(p) \/ InvalidationLost(p) \/ ReaderDies(p)

Expire(v, u) == ValueExpires(v, u) \/ LockExpires(u)

CacheNext ==
    \/ \E p \in Req : CacheStep(p) \/ ChangeRole(p) \/ \E u \in Subject : Miss(p, u) \/ ChangeMember(p, u)
    \/ \E v \in Versions, u \in Subject : Expire(v, u)
    \/ VersionExpires

CacheSpec == CacheInit /\ [][CacheNext]_cacheVars

-----------------------------------------------------------------------------
(* Properties.                                                             *)

\* Once the invalidation of a change is over, no request is answered from a
\* value that does not reflect it, whatever recomputes were in flight: the
\* DEL takes their lock away, and the INCR leaves them an old version.
InvalidatedForGood == ~wrapped => \A u \in Subject : Gone \notin lack[ver][u]
=============================================================================
