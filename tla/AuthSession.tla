---------------------------- MODULE AuthSession ----------------------------
(***************************************************************************)
(* The sessions of one user, domains/auth/sub-domains/auth-session: rows   *)
(* of auth.sessions in Postgres, the Redis cache of access tokens known to *)
(* be valid, and the requests that create, verify, refresh, rebind and     *)
(* revoke sessions concurrently.                                           *)
(*                                                                         *)
(* Sessions are 1..NSess in the order of created_at.  Access tokens and    *)
(* refresh secrets are numbered by one counter: number n is the n-th token *)
(* signed, and the secret issued with it, if one was.  A request is one    *)
(* step per Postgres statement or Redis command that others can observe.   *)
(***************************************************************************)
EXTENDS Naturals, FiniteSets

CONSTANTS
    Proc,          \* concurrent requests
    NSess,         \* bound: sessions ever created
    Cap,           \* MAX_ACTIVE_SESSIONS_PER_USER
    MaxMint,       \* bound: tokens ever signed
    MaxFaults,     \* bound: failed Redis writes and crashed requests
    None

ASSUME BoundsAssumption ==
    /\ NSess \in Nat /\ MaxMint \in Nat /\ MaxFaults \in Nat
    /\ Cap \in Nat \ {0}

ASSUME NoneAssumption == None \notin Proc

Sessions == 1..NSess
Tokens == 1..MaxMint

\* SESSION_TOKEN_REVOKED_TOMBSTONE.
Tombstone == NSess + 1

VARIABLES
    row,        \* session -> its row: absent, live, revoked (is_revoked) or purged
    expired,    \* session -> expires_at has passed
    tok,        \* session -> token_hash
    ref,        \* session -> refresh_token_hash
    prev,       \* session -> previous_refresh_token_hash, 0 when null
    grace,      \* session -> refresh_token_rotated_at is within the reuse grace
    cache,      \* token -> its key in Redis: the session cached, 0 or Tombstone
    active,     \* the user's status is ACTIVE
    lock,       \* holder of the per-user session quota lock
    minted,     \* tokens signed so far
    op,         \* request -> what it does
    pc,         \* request -> its next step
    ses,        \* request -> the session it is about
    hand,       \* request -> the token it holds
    sec,        \* request -> the refresh secret it presents
    pick,       \* request -> the rows it is to revoke, or has locked
    pend,       \* request -> tokens it still has to invalidate
    orphans,    \* history: tokens replaced by a rotation that had read an older one
    faults      \* faults suffered

rows == <<row, expired, tok, ref, prev, grace>>
local == <<op, pc, ses, hand, sec, pick, pend>>
vars == <<rows, cache, active, lock, minted, local, orphans, faults>>

Ops == {"none", "login", "password", "verify", "logout", "refresh", "rebind", "revoke"}
Steps == {"idle", "select", "purge", "txpurge", "read", "status", "store", "update",
          "find", "bust", "detect", "revoke_all"}

TypeOK ==
    /\ row \in [Sessions -> {"absent", "live", "revoked", "purged"}]
    /\ expired \in [Sessions -> BOOLEAN]
    /\ tok \in [Sessions -> 0..MaxMint]
    /\ ref \in [Sessions -> 0..MaxMint]
    /\ prev \in [Sessions -> 0..MaxMint]
    /\ grace \in [Sessions -> BOOLEAN]
    /\ cache \in [Tokens -> 0..NSess + 1]
    /\ active \in BOOLEAN
    /\ lock \in Proc \cup {None}
    /\ minted \in 0..MaxMint
    /\ op \in [Proc -> Ops]
    /\ pc \in [Proc -> Steps]
    /\ ses \in [Proc -> 0..NSess]
    /\ hand \in [Proc -> 0..MaxMint]
    /\ sec \in [Proc -> 0..MaxMint]
    /\ pick \in [Proc -> SUBSET Sessions]
    /\ pend \in [Proc -> SUBSET Tokens]
    /\ orphans \in SUBSET Tokens
    /\ faults \in 0..MaxFaults

Init ==
    /\ row = [s \in Sessions |-> "absent"]
    /\ expired = [s \in Sessions |-> FALSE]
    /\ tok = [s \in Sessions |-> 0]
    /\ ref = [s \in Sessions |-> 0]
    /\ prev = [s \in Sessions |-> 0]
    /\ grace = [s \in Sessions |-> FALSE]
    /\ cache = [t \in Tokens |-> 0]
    /\ active = TRUE
    /\ lock = None
    /\ minted = 0
    /\ op = [p \in Proc |-> "none"]
    /\ pc = [p \in Proc |-> "idle"]
    /\ ses = [p \in Proc |-> 0]
    /\ hand = [p \in Proc |-> 0]
    /\ sec = [p \in Proc |-> 0]
    /\ pick = [p \in Proc |-> {}]
    /\ pend = [p \in Proc |-> {}]
    /\ orphans = {}
    /\ faults = 0

Fault == faults < MaxFaults /\ faults' = faults + 1

Go(p, next) == pc' = [pc EXCEPT ![p] = next]

\* The request p starts.
Begin(p, what, next) ==
    /\ pc[p] = "idle"
    /\ op' = [op EXCEPT ![p] = what]
    /\ Go(p, next)

\* The request p is over.
Reset(p) ==
    /\ op' = [op EXCEPT ![p] = "none"]
    /\ pc' = [pc EXCEPT ![p] = "idle"]
    /\ ses' = [ses EXCEPT ![p] = 0]
    /\ hand' = [hand EXCEPT ![p] = 0]
    /\ sec' = [sec EXCEPT ![p] = 0]
    /\ pick' = [pick EXCEPT ![p] = {}]
    /\ pend' = [pend EXCEPT ![p] = {}]

\* Postgres: a row an open transaction has updated cannot be updated by another.
RowFree(s) == \A q \in Proc : pc[q] = "txpurge" => s \notin pick[q]

Present(s) == row[s] \in {"live", "revoked"}

\* The rows of a WHERE is_revoked = false AND expires_at > now().
LiveSessions == {s \in Sessions : row[s] = "live" /\ ~expired[s]}

\* UPDATE ... SET is_revoked = true on the rows S.
SetRevoked(S) == row' = [s \in Sessions |-> IF s \in S THEN "revoked" ELSE row[s]]

\* RETURNING token_hash.
TokensOf(S) == {tok[s] : s \in S} \cap Tokens

-----------------------------------------------------------------------------
(* The cache of valid tokens.  A request holds a token far less long than  *)
(* a tombstone lives, so a tombstone never expires under one that does.    *)

PutTombstone(t) == cache' = [cache EXCEPT ![t] = Tombstone]

\* Mutant: the populate overwrites whatever the key holds.
StoreOverwrites(t, s) == IF expired[s] THEN cache[t] ELSE s

\* SET NX with the TTL capped by the session's remaining lifetime.
Store(t, s) == IF cache[t] = 0 /\ ~expired[s] THEN s ELSE cache[t]

\* One invalidateCachedSessionToken; a Redis error is logged and swallowed.
Invalidate(p, t) ==
    /\ pc[p] \in {"purge", "txpurge"}
    /\ t \in pend[p]
    /\ pend' = [pend EXCEPT ![p] = @ \ {t}]
    /\ \/ PutTombstone(t) /\ UNCHANGED faults
       \/ Fault /\ UNCHANGED cache
    /\ UNCHANGED <<rows, active, lock, minted, op, pc, ses, hand, sec, pick, orphans>>

InvalidateDone(p) ==
    /\ pc[p] = "purge"
    /\ pend[p] = {}
    /\ Reset(p)
    /\ UNCHANGED <<rows, cache, active, lock, minted, orphans, faults>>

InUse(t) ==
    \E p \in Proc :
        \/ hand[p] = t
        \/ pc[p] = "txpurge" /\ \E s \in pick[p] : tok[s] = t

\* A key reaches its TTL.
KeyExpires(t) ==
    /\ cache[t] \in Sessions \/ (cache[t] = Tombstone /\ ~InUse(t))
    /\ cache' = [cache EXCEPT ![t] = 0]
    /\ UNCHANGED <<rows, active, lock, minted, local, orphans, faults>>

-----------------------------------------------------------------------------
(* createSessionForUser.                                                   *)

\* Bound: every request that may sign a token finds one left.
CanMint ==
    minted + Cardinality({q \in Proc : op[q] \in {"login", "refresh", "rebind"}}) < MaxMint

\* The rows beyond the Cap - 1 newest live ones (ORDER BY created_at DESC OFFSET).
BeyondNewest(S) ==
    /\ S \subseteq LiveSessions
    /\ LET kept == LiveSessions \ S
       IN  /\ Cardinality(kept) <= Cap - 1
           /\ S # {} => Cardinality(kept) = Cap - 1
           /\ \A k \in kept, s \in S : s < k

\* Mutant: the quota lock is not taken.
LoginSelectUnlocked(p) ==
    /\ active
    /\ CanMint /\ row[NSess] = "absent"
    /\ Begin(p, "login", "select")
    /\ \E S \in SUBSET Sessions : BeyondNewest(S) /\ pick' = [pick EXCEPT ![p] = S]
    /\ UNCHANGED <<rows, cache, active, lock, minted, ses, hand, sec, pend, orphans, faults>>

\* The quota lock, then the SELECT of the rows to evict.
LoginSelect(p) ==
    /\ active
    /\ CanMint /\ row[NSess] = "absent"
    /\ lock = None
    /\ lock' = p
    /\ Begin(p, "login", "select")
    /\ \E S \in SUBSET Sessions : BeyondNewest(S) /\ pick' = [pick EXCEPT ![p] = S]
    /\ UNCHANGED <<rows, cache, active, minted, ses, hand, sec, pend, orphans, faults>>

NextSession(n) == row[n] = "absent" /\ \A m \in Sessions : m < n => row[m] # "absent"

\* The UPDATE of the rows S and the INSERT of n, committed together.
EvictAndInsert(S, n) ==
    /\ minted < MaxMint
    /\ minted' = minted + 1
    /\ row' = [s \in Sessions |->
                   IF s = n THEN "live" ELSE IF s \in S THEN "revoked" ELSE row[s]]
    /\ tok' = [tok EXCEPT ![n] = minted + 1]
    /\ ref' = [ref EXCEPT ![n] = minted + 1]
    /\ UNCHANGED <<expired, prev, grace>>

Evicted(p) == {s \in pick[p] : Present(s)}

Unlock(p) == lock' = IF lock = p THEN None ELSE lock

\* The transaction commits and the evicted tokens remain to be invalidated.
LoginCommit(p) ==
    /\ pc[p] = "select"
    /\ \A s \in pick[p] : RowFree(s)
    /\ \E n \in Sessions : NextSession(n) /\ EvictAndInsert(Evicted(p), n)
    /\ Unlock(p)
    /\ pend' = [pend EXCEPT ![p] = TokensOf(Evicted(p))]
    /\ pick' = [pick EXCEPT ![p] = {}]
    /\ Go(p, "purge")
    /\ UNCHANGED <<cache, active, op, ses, hand, sec, orphans, faults>>

\* Inside the transaction of an email login the UPDATE is not committed yet
\* when the evicted tokens are invalidated.
LoginUpdate(p) ==
    /\ pc[p] = "select"
    /\ \A s \in pick[p] : RowFree(s)
    /\ pend' = [pend EXCEPT ![p] = TokensOf(Evicted(p))]
    /\ pick' = [pick EXCEPT ![p] = Evicted(p)]
    /\ Go(p, "txpurge")
    /\ UNCHANGED <<rows, cache, active, lock, minted, op, ses, hand, sec, orphans, faults>>

EmailLoginCommit(p) ==
    /\ pc[p] = "txpurge"
    /\ op[p] = "login"
    /\ pend[p] = {}
    /\ \E n \in Sessions : NextSession(n) /\ EvictAndInsert(pick[p], n)
    /\ Unlock(p)
    /\ Reset(p)
    /\ UNCHANGED <<cache, active, orphans, faults>>

-----------------------------------------------------------------------------
(* verifyActiveAccessToken.  A hit changes nothing and is not a step.      *)

VerifyMiss(p, t) ==
    /\ t <= minted
    /\ cache[t] \notin Sessions
    /\ Begin(p, "verify", "read")
    /\ hand' = [hand EXCEPT ![p] = t]
    /\ UNCHANGED <<rows, cache, active, lock, minted, ses, sec, pick, pend, orphans, faults>>

\* findActiveByTokenHash; without a row the request is refused.
VerifyRead(p) ==
    /\ pc[p] = "read"
    /\ \/ \E s \in LiveSessions :
              /\ tok[s] = hand[p]
              /\ ses' = [ses EXCEPT ![p] = s]
              /\ Go(p, "status")
              /\ UNCHANGED <<op, hand, sec, pick, pend>>
       \/ (\A s \in LiveSessions : tok[s] # hand[p]) /\ Reset(p)
    /\ UNCHANGED <<rows, cache, active, lock, minted, orphans, faults>>

\* Mutant: the user's status is not checked.
VerifyStatusSkipped(p) ==
    /\ pc[p] = "status"
    /\ Go(p, "store")
    /\ UNCHANGED <<rows, cache, active, lock, minted, op, ses, hand, sec, pick, pend, orphans, faults>>

VerifyStatus(p) ==
    /\ pc[p] = "status"
    /\ \/ active /\ Go(p, "store") /\ UNCHANGED <<op, ses, hand, sec, pick, pend>>
       \/ ~active /\ Reset(p)
    /\ UNCHANGED <<rows, cache, active, lock, minted, orphans, faults>>

VerifyStore(p) ==
    /\ pc[p] = "store"
    /\ cache' = [cache EXCEPT ![hand[p]] = Store(hand[p], ses[p])]
    /\ Reset(p)
    /\ UNCHANGED <<rows, active, lock, minted, orphans, faults>>

-----------------------------------------------------------------------------
(* Revocation: one session, all of them, all but the caller's, logout.     *)

Revoke(p, s) ==
    /\ Present(s)
    /\ RowFree(s)
    /\ Begin(p, "revoke", "purge")
    /\ SetRevoked({s})
    /\ pend' = [pend EXCEPT ![p] = TokensOf({s})]
    /\ UNCHANGED <<expired, tok, ref, prev, grace, cache, active, lock, minted,
                   ses, hand, sec, pick, orphans, faults>>

RevokeAll(p) ==
    /\ Begin(p, "revoke", "revoke_all")
    /\ UNCHANGED <<rows, cache, active, lock, minted, ses, hand, sec, pick, pend, orphans, faults>>

\* suspendUser and adminUpdateUser: the status commits, then all sessions are revoked.
Deactivate(p) ==
    /\ active
    /\ active' = FALSE
    /\ Begin(p, "revoke", "revoke_all")
    /\ UNCHANGED <<rows, cache, lock, minted, ses, hand, sec, pick, pend, orphans, faults>>

Reactivate ==
    /\ ~active
    /\ active' = TRUE
    /\ UNCHANGED <<rows, cache, lock, minted, local, orphans, faults>>

\* revokeAllByUserId: every row that is not revoked, expired or not.
NotRevoked == {s \in Sessions : row[s] = "live"}

RevokeAllRows(p) ==
    /\ pc[p] = "revoke_all"
    /\ \A s \in NotRevoked : RowFree(s)
    /\ SetRevoked(NotRevoked)
    /\ pend' = [pend EXCEPT ![p] = TokensOf(NotRevoked)]
    /\ Go(p, "purge")
    /\ UNCHANGED <<expired, tok, ref, prev, grace, cache, active, lock, minted,
                   op, ses, hand, sec, pick, orphans, faults>>

\* resetPassword and changePassword revoke inside the transaction that writes
\* the password, so the tokens are invalidated before it commits.  A change
\* spares the caller's token t; t = 0 spares none.
PasswordUpdate(p, t) ==
    LET S == {s \in NotRevoked : tok[s] # t}
    IN  /\ t <= minted
        /\ \A s \in S : RowFree(s)
        /\ Begin(p, "password", "txpurge")
        /\ pick' = [pick EXCEPT ![p] = S]
        /\ pend' = [pend EXCEPT ![p] = TokensOf(S)]
        /\ UNCHANGED <<rows, cache, active, lock, minted, ses, hand, sec, orphans, faults>>

PasswordCommit(p) ==
    /\ pc[p] = "txpurge"
    /\ op[p] = "password"
    /\ pend[p] = {}
    /\ SetRevoked(pick[p])
    /\ Reset(p)
    /\ UNCHANGED <<expired, tok, ref, prev, grace, cache, active, lock, minted, orphans, faults>>

\* revokeSessionByAccessToken: the tombstone first, then the UPDATE.
Logout(p, t) ==
    /\ t <= minted
    /\ Begin(p, "logout", "update")
    /\ hand' = [hand EXCEPT ![p] = t]
    /\ \/ PutTombstone(t) /\ UNCHANGED faults
       \/ Fault /\ UNCHANGED cache
    /\ UNCHANGED <<rows, active, lock, minted, ses, sec, pick, pend, orphans>>

LogoutUpdate(p) ==
    LET S == {s \in Sessions : Present(s) /\ tok[s] = hand[p]}
    IN  /\ pc[p] = "update"
        /\ op[p] = "logout"
        /\ \A s \in S : RowFree(s)
        /\ SetRevoked(S)
        /\ Reset(p)
        /\ UNCHANGED <<expired, tok, ref, prev, grace, cache, active, lock, minted, orphans, faults>>

-----------------------------------------------------------------------------
(* refreshToken with refreshSessionCredentials, and the organization       *)
(* switch with rebindAccessToken.                                          *)

\* The row is loaded, revoked or not; the secret r is whatever the client sends.
Refresh(p, s, r) ==
    /\ Present(s)
    /\ ~expired[s]
    /\ active
    /\ CanMint
    /\ r <= minted
    /\ Begin(p, "refresh", "find")
    /\ ses' = [ses EXCEPT ![p] = s]
    /\ sec' = [sec EXCEPT ![p] = r]
    /\ UNCHANGED <<rows, cache, active, lock, minted, hand, pick, pend, orphans, faults>>

Rebind(p, s) ==
    /\ Present(s)
    /\ active
    /\ CanMint
    /\ Begin(p, "rebind", "find")
    /\ ses' = [ses EXCEPT ![p] = s]
    /\ UNCHANGED <<rows, cache, active, lock, minted, hand, sec, pick, pend, orphans, faults>>

\* findByPublicId; a rebind of a missing or revoked row is refused.
Find(p) ==
    /\ pc[p] = "find"
    /\ \/ /\ row[ses[p]] = "live"
          /\ hand' = [hand EXCEPT ![p] = tok[ses[p]]]
          /\ Go(p, "bust")
          /\ UNCHANGED <<op, ses, sec, pick, pend>>
       \/ /\ row[ses[p]] # "live" /\ op[p] = "refresh"
          /\ Go(p, "detect")
          /\ UNCHANGED <<op, ses, hand, sec, pick, pend>>
       \/ row[ses[p]] # "live" /\ op[p] = "rebind" /\ Reset(p)
    /\ UNCHANGED <<rows, cache, active, lock, minted, orphans, faults>>

\* The token read is invalidated before the UPDATE.
Bust(p) ==
    /\ pc[p] = "bust"
    /\ Go(p, "update")
    /\ \/ PutTombstone(hand[p]) /\ UNCHANGED faults
       \/ Fault /\ UNCHANGED cache
    /\ UNCHANGED <<rows, active, lock, minted, op, ses, hand, sec, pick, pend, orphans>>

\* The row of s gets the token n; was is the token the request had read.
SetToken(s, n, was) ==
    /\ tok' = [tok EXCEPT ![s] = n]
    /\ orphans' = IF tok[s] # was THEN orphans \cup ({tok[s]} \cap Tokens) ELSE orphans

\* Mutant: only the current secret is accepted.
SecretFitsNoGrace(s, r) == ref[s] = r

\* The current secret, or the previous one within the reuse grace.
SecretFits(s, r) == ref[s] = r \/ (prev[s] = r /\ grace[s])

\* The WHERE clause of rotateSessionCredentials.
Rotatable(p) ==
    /\ ses[p] \in LiveSessions
    /\ SecretFits(ses[p], sec[p])

Rotate(p) ==
    LET s == ses[p]
    IN  /\ pc[p] = "update"
        /\ op[p] = "refresh"
        /\ RowFree(s)
        /\ Rotatable(p)
        /\ minted < MaxMint
        /\ minted' = minted + 1
        /\ SetToken(s, minted + 1, hand[p])
        /\ prev' = [prev EXCEPT ![s] = ref[s]]
        /\ ref' = [ref EXCEPT ![s] = minted + 1]
        /\ grace' = [grace EXCEPT ![s] = TRUE]
        /\ Reset(p)
        /\ UNCHANGED <<row, expired, cache, active, lock, faults>>

RotateRefused(p) ==
    /\ pc[p] = "update"
    /\ op[p] = "refresh"
    /\ RowFree(ses[p])
    /\ ~Rotatable(p)
    /\ Go(p, "detect")
    /\ UNCHANGED <<rows, cache, active, lock, minted, op, ses, hand, sec, pick, pend, orphans, faults>>

\* Reuse detection: a row, revoked or not, whose secret is another one.
Detect(p) ==
    LET s == ses[p]
    IN  /\ pc[p] = "detect"
        /\ \/ /\ row[s] = "live" /\ ref[s] # sec[p]
              /\ Go(p, "revoke_all")
              /\ UNCHANGED <<op, ses, hand, sec, pick, pend>>
           \/ ~(row[s] = "live" /\ ref[s] # sec[p]) /\ Reset(p)
        /\ UNCHANGED <<rows, cache, active, lock, minted, orphans, faults>>

\* rotateTokenHashAndOrganization: by public id alone, revoked or not.
RebindUpdate(p) ==
    LET s == ses[p]
    IN  /\ pc[p] = "update"
        /\ op[p] = "rebind"
        /\ RowFree(s)
        /\ minted < MaxMint
        /\ minted' = minted + 1
        /\ IF Present(s) THEN SetToken(s, minted + 1, hand[p]) ELSE UNCHANGED <<tok, orphans>>
        /\ Reset(p)
        /\ UNCHANGED <<row, expired, ref, prev, grace, cache, active, lock, faults>>

-----------------------------------------------------------------------------
(* The environment.                                                        *)

\* expires_at passes, and with it the keys of the session, whose TTL it caps.
Expire(s) ==
    /\ row[s] # "absent"
    /\ ~expired[s]
    /\ expired' = [expired EXCEPT ![s] = TRUE]
    /\ cache' = [t \in Tokens |-> IF cache[t] = s THEN 0 ELSE cache[t]]
    /\ UNCHANGED <<row, tok, ref, prev, grace, active, lock, minted, local, orphans, faults>>

GraceEnds(s) ==
    /\ grace[s]
    /\ grace' = [grace EXCEPT ![s] = FALSE]
    /\ UNCHANGED <<row, expired, tok, ref, prev, cache, active, lock, minted, local, orphans, faults>>

\* The session cleanup deletes expired rows, and revoked ones that were created
\* before the cutoff, however short ago they were revoked.
Cleanup(s) ==
    /\ Present(s)
    /\ RowFree(s)
    /\ expired[s] \/ row[s] = "revoked"
    /\ row' = [row EXCEPT ![s] = "purged"]
    /\ UNCHANGED <<expired, tok, ref, prev, grace, cache, active, lock, minted, local, orphans, faults>>

\* The process serving p dies; its open transaction rolls back.
Crash(p) ==
    /\ pc[p] # "idle"
    /\ Fault
    /\ Unlock(p)
    /\ Reset(p)
    /\ UNCHANGED <<rows, cache, active, minted, orphans>>

Step(p) ==
    \/ LoginCommit(p) \/ LoginUpdate(p) \/ EmailLoginCommit(p)
    \/ InvalidateDone(p) \/ \E t \in Tokens : Invalidate(p, t)
    \/ VerifyRead(p) \/ VerifyStatus(p) \/ VerifyStore(p)
    \/ RevokeAllRows(p) \/ PasswordCommit(p) \/ LogoutUpdate(p)
    \/ Find(p) \/ Bust(p) \/ Rotate(p) \/ RotateRefused(p) \/ Detect(p) \/ RebindUpdate(p)

Next ==
    \/ \E p \in Proc :
        \/ Step(p) \/ Crash(p)
        \/ LoginSelect(p) \/ RevokeAll(p) \/ Deactivate(p) \/ PasswordUpdate(p, 0)
        \/ \E t \in Tokens : VerifyMiss(p, t) \/ Logout(p, t) \/ PasswordUpdate(p, t)
        \/ \E s \in Sessions : Revoke(p, s) \/ Rebind(p, s) \/ \E r \in Tokens : Refresh(p, s, r)
    \/ Reactivate
    \/ \E s \in Sessions : Expire(s) \/ GraceEnds(s) \/ Cleanup(s)
    \/ \E t \in Tokens : KeyExpires(t)

Spec == Init /\ [][Next]_vars

-----------------------------------------------------------------------------
(* Properties.                                                             *)

\* createSessionForUser: concurrent logins never leave a user with more than
\* MAX_ACTIVE_SESSIONS_PER_USER live sessions.
SessionCap == Cardinality(LiveSessions) <= Cap

\* A request that still has to invalidate t.
Pending(t) == \E p \in Proc : t \in pend[p]

\* invalidateCachedSessionToken, rotateSessionCredentials, rebindAccessToken:
\* a token is cached as valid only for a session that is not revoked and whose
\* token it still is, whatever verifications were in flight; unless the request
\* that ended it has not come to it yet, a rotation replaced it that had read
\* an older one, or Redis or a request failed.
CachedIsCurrent ==
    faults = 0 =>
        \A t \in Tokens, s \in Sessions :
            cache[t] = s => (row[s] = "live" /\ tok[s] = t) \/ t \in orphans \/ Pending(t)

\* verifyActiveAccessToken and revokeAllSessionsForDeactivatedUser: when the
\* user is not ACTIVE and the deactivation has revoked the sessions, no token
\* is cached as valid, also not for a session a login created meanwhile.
InactiveNotCached ==
    faults = 0 /\ ~active /\ (\A p \in Proc : pc[p] # "revoke_all") =>
        \A t \in Tokens : cache[t] \in Sessions => t \in orphans \/ Pending(t)

\* The reuse grace of rotateSessionCredentials: a refresh that ends all of the
\* user's sessions presented a secret that was superseded twice or longer than
\* the grace ago, or its session had expired; a retry of a refresh whose
\* answer was lost does not.
KillNeedsStaleSecret ==
    \A p \in Proc :
        pc[p] = "revoke_all" /\ op[p] = "refresh" =>
            LET s == ses[p] IN expired[s] \/ prev[s] # sec[p] \/ ~grace[s]
=============================================================================
