---------------------------- MODULE Idempotency ----------------------------
(***************************************************************************)
(* The X-Idempotency-Key middleware and the response lifecycle that drives *)
(* it (shared/middlewares/core/idempotency.middleware.ts and               *)
(* request-lifecycle.middleware.ts).                                       *)
(*                                                                         *)
(* Requests run concurrently, on any number of API processes; what they    *)
(* share is Redis: one entry per scoped cache key and one claim counter    *)
(* per actor.  Every await of the middleware on Redis is a step of its     *)
(* own, so the GET, the cap script, the SET NX and the final SET or DEL of *)
(* different requests interleave freely.                                   *)
(***************************************************************************)
EXTENDS Naturals, FiniteSets

CONSTANTS
    Requests,      \* HTTP write requests
    CacheKeys,     \* scoped cache keys (actor and X-Idempotency-Key) of one actor
    Fingerprints,  \* digests of method, route and body
    Cap,           \* IDEMPOTENCY_PER_ACTOR_CAP
    SlowHandlers   \* may a handler run longer than the placeholder's TTL?

ASSUME CapAssumption == Cap \in Nat

ASSUME SlowAssumption == SlowHandlers \in BOOLEAN

Nothing == "none"
NoKey == "no_key"

ASSUME KeyAssumption == /\ NoKey \notin CacheKeys
                        /\ Nothing \notin Fingerprints
                        /\ Nothing \notin Requests

VARIABLES
    cache,      \* cacheKey -> the Redis entry, or Absent
    claims,     \* the actor's counter of the current cap window
    phase,      \* request -> where its lifecycle stands
    key,        \* request -> its cache key, or NoKey
    body,       \* request -> its fingerprint
    committed,  \* request -> has its business transaction committed?
    pending,    \* request -> _idempotencyPendingCompleted is set
    reply,      \* request -> what its client received
    replayed    \* request -> the request whose response it was replayed

keyVars == <<cache, claims, phase, key, body, committed, pending, reply, replayed>>

Absent == [state |-> "absent", by |-> Nothing, fp |-> Nothing]
InFlight(r) == [state |-> "in_flight", by |-> r, fp |-> body[r]]
Completed(r) == [state |-> "completed", by |-> r, fp |-> body[r]]

Phases == {"idle", "get", "cap", "setnx", "race", "handler", "responded", "done"}

Replies == {Nothing, "ok", "error", "replay", "in_flight_409", "conflict_409",
            "key_reuse_422", "cap_429", "unavailable_503", "lost"}

Entries == [state: {"absent", "in_flight", "completed"},
            by: Requests \cup {Nothing}, fp: Fingerprints \cup {Nothing}]

KeyTypeOK ==
    /\ cache \in [CacheKeys -> Entries]
    /\ claims \in 0..Cap
    /\ phase \in [Requests -> Phases]
    /\ key \in [Requests -> CacheKeys \cup {NoKey}]
    /\ body \in [Requests -> Fingerprints \cup {Nothing}]
    /\ committed \in [Requests -> BOOLEAN]
    /\ pending \in [Requests -> BOOLEAN]
    /\ reply \in [Requests -> Replies]
    /\ replayed \in [Requests -> Requests \cup {Nothing}]

KeyInit ==
    /\ cache = [k \in CacheKeys |-> Absent]
    /\ claims = 0
    /\ phase = [r \in Requests |-> "idle"]
    /\ key = [r \in Requests |-> NoKey]
    /\ body = [r \in Requests |-> Nothing]
    /\ committed = [r \in Requests |-> FALSE]
    /\ pending = [r \in Requests |-> FALSE]
    /\ reply = [r \in Requests |-> Nothing]
    /\ replayed = [r \in Requests |-> Nothing]

\* The middleware answers r itself: the handler does not run.
Answer(r, a) ==
    /\ reply' = [reply EXCEPT ![r] = a]
    /\ phase' = [phase EXCEPT ![r] = "done"]

\* A malformed key, or none on a route that requires one.
Reject(r) ==
    /\ phase[r] = "idle"
    /\ Answer(r, "error")
    /\ UNCHANGED <<cache, claims, key, body, committed, pending, replayed>>

(***************************************************************************)
(* Arrival.  A request without a key, on an excluded route or without an   *)
(* authenticated actor (k = NoKey) goes to its handler unprotected; any    *)
(* other one starts the claim.                                             *)
(***************************************************************************)
Arrive(r, k, f) ==
    /\ phase[r] = "idle"
    /\ key' = [key EXCEPT ![r] = k]
    /\ body' = [body EXCEPT ![r] = f]
    /\ phase' = [phase EXCEPT ![r] = IF k = NoKey THEN "handler" ELSE "get"]
    /\ UNCHANGED <<cache, claims, committed, pending, reply, replayed>>

\* sendCachedIdempotencyResponse
SendReplay(r, e) ==
    /\ Answer(r, "replay")
    /\ replayed' = [replayed EXCEPT ![r] = e.by]

\* Mutant: the fingerprint is not compared.
ServeAnyPayload(r, e, otherwise) ==
    IF e.state = "completed"
    THEN SendReplay(r, e)
    ELSE Answer(r, otherwise) /\ UNCHANGED replayed

(***************************************************************************)
(* serveIdempotencyCacheHit and handleIdempotencyClaimRace answer alike,   *)
(* but for the conflict each reports (otherwise).                          *)
(***************************************************************************)
Serve(r, e, otherwise) ==
    IF e.fp # Nothing /\ e.fp # body[r]
    THEN Answer(r, "key_reuse_422") /\ UNCHANGED replayed
    ELSE IF e.state = "completed"
         THEN SendReplay(r, e)
         ELSE Answer(r, otherwise) /\ UNCHANGED replayed

\* The GET of idempotencyClaimPreHandler.
ClaimGet(r) ==
    /\ phase[r] = "get"
    /\ IF cache[key[r]] # Absent
       THEN Serve(r, cache[key[r]], "in_flight_409")
       ELSE /\ phase' = [phase EXCEPT ![r] = "cap"]
            /\ UNCHANGED <<reply, replayed>>
    /\ UNCHANGED <<cache, claims, key, body, committed, pending>>

(***************************************************************************)
(* enforceIdempotencyPerActorCap: the check and the INCR are one script.   *)
(* An error of the script admits the request and may come before or after  *)
(* the increment.                                                          *)
(***************************************************************************)
EnforceCap(r) ==
    /\ phase[r] = "cap"
    /\ \/ /\ claims >= Cap
          /\ Answer(r, "cap_429")
          /\ UNCHANGED claims
       \/ /\ claims < Cap
          /\ claims' = claims + 1
          /\ phase' = [phase EXCEPT ![r] = "setnx"]
          /\ UNCHANGED reply
       \/ /\ phase' = [phase EXCEPT ![r] = "setnx"]
          /\ UNCHANGED <<claims, reply>>
    /\ UNCHANGED <<cache, key, body, committed, pending, replayed>>

\* Mutant: SET without NX.
ClaimSetOverwrites(r) ==
    /\ phase[r] = "setnx"
    /\ cache' = [cache EXCEPT ![key[r]] = InFlight(r)]
    /\ phase' = [phase EXCEPT ![r] = "handler"]
    /\ UNCHANGED <<claims, key, body, committed, pending, reply, replayed>>

\* SET NX EX of the placeholder: claim the key, or lose the race for it.
ClaimSet(r) ==
    /\ phase[r] = "setnx"
    /\ IF cache[key[r]] = Absent
       THEN /\ cache' = [cache EXCEPT ![key[r]] = InFlight(r)]
            /\ phase' = [phase EXCEPT ![r] = "handler"]
       ELSE /\ phase' = [phase EXCEPT ![r] = "race"]
            /\ UNCHANGED cache
    /\ UNCHANGED <<claims, key, body, committed, pending, reply, replayed>>

(***************************************************************************)
(* respondIdempotencyStoreUnavailable: the GET or the SET NX failed, and a *)
(* SET NX whose answer was lost may have written the placeholder.          *)
(***************************************************************************)
StoreUnavailable(r) ==
    /\ phase[r] \in {"get", "setnx"}
    /\ Answer(r, "unavailable_503")
    /\ \/ UNCHANGED cache
       \/ /\ phase[r] = "setnx"
          /\ cache[key[r]] = Absent
          /\ cache' = [cache EXCEPT ![key[r]] = InFlight(r)]
    /\ UNCHANGED <<claims, key, body, committed, pending, replayed>>

\* handleIdempotencyClaimRace: the second GET may fail or find nothing.
ClaimRace(r) ==
    /\ phase[r] = "race"
    /\ \/ Serve(r, cache[key[r]], "conflict_409")
       \/ Answer(r, "conflict_409") /\ UNCHANGED replayed
    /\ UNCHANGED <<cache, claims, key, body, committed, pending>>

\* The handler's business transaction commits.
Commit(r) ==
    /\ phase[r] = "handler"
    /\ ~committed[r]
    /\ committed' = [committed EXCEPT ![r] = TRUE]
    /\ UNCHANGED <<cache, claims, phase, key, body, pending, reply, replayed>>

(***************************************************************************)
(* The handler returns and the response leaves through idempotencyOnSend:  *)
(* a success follows the commit, an error may come before or after it.     *)
(* The snapshot is stashed for a claimed success that is small enough and  *)
(* holds no secret (cacheable).                                            *)
(***************************************************************************)
Respond(r, status, cacheable) ==
    /\ phase[r] = "handler"
    /\ status = "ok" => committed[r]
    /\ reply' = [reply EXCEPT ![r] = status]
    /\ pending' = [pending EXCEPT ![r] = key[r] # NoKey /\ status = "ok" /\ cacheable]
    /\ phase' = [phase EXCEPT ![r] = "responded"]
    /\ UNCHANGED <<cache, claims, key, body, committed, replayed>>

(***************************************************************************)
(* idempotencyOnResponse, after the client has its answer: overwrite the   *)
(* entry with the completed one, or delete it.  Neither checks that the    *)
(* entry is still this request's.  A Redis error is swallowed (stored =    *)
(* FALSE) and leaves the entry as it is.                                   *)
(***************************************************************************)
OnResponse(r, stored) ==
    /\ phase[r] = "responded"
    /\ phase' = [phase EXCEPT ![r] = "done"]
    /\ pending' = [pending EXCEPT ![r] = FALSE]
    /\ cache' = IF key[r] = NoKey \/ ~stored
                THEN cache
                ELSE [cache EXCEPT ![key[r]] = IF pending[r] THEN Completed(r) ELSE Absent]
    /\ UNCHANGED <<claims, key, body, committed, reply, replayed>>

\* The API process dies: the client gets nothing more, Redis keeps its entry.
ProcessDies(r) ==
    /\ phase[r] \in Phases \ {"idle", "done"}
    /\ phase' = [phase EXCEPT ![r] = "done"]
    /\ reply' = [reply EXCEPT ![r] = IF reply[r] = Nothing THEN "lost" ELSE reply[r]]
    /\ pending' = [pending EXCEPT ![r] = FALSE]
    /\ UNCHANGED <<cache, claims, key, body, committed, replayed>>

\* A request is between its claim and the end of its lifecycle.
Holding(r) == phase[r] \in {"handler", "responded"} /\ key[r] # NoKey

\* Mutant: the placeholder is written without EX.
ExpireCompletedOnly(k) ==
    /\ cache[k].state = "completed"
    /\ \A r \in Requests : key[r] = k => phase[r] \in {"idle", "done"}
    /\ cache' = [cache EXCEPT ![k] = Absent]
    /\ UNCHANGED <<claims, phase, key, body, committed, pending, reply, replayed>>

(***************************************************************************)
(* Redis expires an entry.  The placeholder's 60 seconds run out under a   *)
(* live owner only if handlers may be that slow; the 24 hours of a         *)
(* completed entry outlast every request that could still be running.      *)
(***************************************************************************)
Expire(k) ==
    /\ cache[k] # Absent
    /\ cache[k].state = "in_flight" /\ ~SlowHandlers =>
           ~(Holding(cache[k].by) /\ key[cache[k].by] = k)
    /\ cache[k].state = "completed" =>
           \A r \in Requests : key[r] = k => phase[r] \in {"idle", "done"}
    /\ cache' = [cache EXCEPT ![k] = Absent]
    /\ UNCHANGED <<claims, phase, key, body, committed, pending, reply, replayed>>

\* The cap window ends.
ExpireWindow ==
    /\ claims > 0
    /\ claims' = 0
    /\ UNCHANGED <<cache, phase, key, body, committed, pending, reply, replayed>>

Step(r) ==
    \/ ClaimGet(r)
    \/ EnforceCap(r)
    \/ ClaimSet(r)
    \/ ClaimRace(r)
    \/ Commit(r)
    \/ \E s \in {"ok", "error"}, c \in BOOLEAN : Respond(r, s, c)
    \/ \E stored \in BOOLEAN : OnResponse(r, stored)

KeyNext ==
    \/ \E r \in Requests :
          \/ \E k \in CacheKeys \cup {NoKey}, f \in Fingerprints : Arrive(r, k, f)
          \/ Reject(r)
          \/ Step(r)
          \/ StoreUnavailable(r)
          \/ ProcessDies(r)
    \/ \E k \in CacheKeys : Expire(k)
    \/ ExpireWindow

KeySpec == KeyInit /\ [][KeyNext]_keyVars

(***************************************************************************)
(* Node runs every admitted request to the end of its lifecycle and Redis  *)
(* expires every placeholder: neither is left undone for ever.             *)
(***************************************************************************)
KeyFairSpec ==
    /\ KeySpec
    /\ \A r \in Requests : WF_keyVars(Step(r))
    /\ \A k \in CacheKeys : WF_keyVars(Expire(k) /\ cache[k].state = "in_flight")

-----------------------------------------------------------------------------
(***************************************************************************)
(* Two requests with one key never execute at the same time: from the SET  *)
(* NX of one to its final SET or DEL no other gets past the claim, however *)
(* the GETs, cap scripts and SETs of the others interleave and whatever    *)
(* they overwrite or delete.  Holds when handlers finish within the        *)
(* placeholder's TTL.                                                      *)
(***************************************************************************)
OneExecutionPerKey ==
    ~SlowHandlers =>
        \A q, r \in Requests : Holding(q) /\ Holding(r) /\ key[q] = key[r] => q = r

(***************************************************************************)
(* A replayed response is the stored answer of a request that had the same *)
(* key and the same fingerprint, answered a success and committed.  An     *)
(* error, a rolled-back write, an in-flight placeholder or another         *)
(* payload's response is never replayed, late writes, crashes, expiries    *)
(* and slow handlers included.                                             *)
(***************************************************************************)
ReplayIsGenuine ==
    \A r \in Requests : reply[r] = "replay" =>
        LET q == replayed[r] IN
            /\ q \in Requests \ {r}
            /\ committed[q]
            /\ reply[q] = "ok"
            /\ key[q] = key[r]
            /\ body[q] = body[r]

(***************************************************************************)
(* No key stays locked: a placeholder, even one whose request crashed, was *)
(* answered 503 or could not write its outcome, eventually gives way.      *)
(***************************************************************************)
KeyUnlocks ==
    \A k \in CacheKeys :
        cache[k].state = "in_flight" ~> cache[k].state # "in_flight"
=============================================================================
