------------------------- MODULE AuthSessionProofs --------------------------
(***************************************************************************)
(* Proofs about AuthSession for any number of requests, sessions, tokens   *)
(* and faults.  The inductive invariant says of every request (Own) what   *)
(* the rows and the cache owe it: a login holds the quota lock and leaves  *)
(* room for the session it will insert; what a refresh takes for a stolen  *)
(* secret stays stale; and, while nothing failed, a token that a request   *)
(* is about to end, or has read as valid, is a tombstone, about to become  *)
(* one, or still the token of its session.  Rely(q) is what a step of      *)
(* another may do to the request q: q keeps Own(q) through it (Kept), so   *)
(* an action owes Rely to the others, Own to itself, and the invariants    *)
(* of rows and cache (Shared).                                             *)
(***************************************************************************)
EXTENDS AuthSession, FiniteSetTheorems, TLAPS

RowTypes ==
    /\ row \in [Sessions -> {"absent", "live", "revoked", "purged"}]
    /\ expired \in [Sessions -> BOOLEAN]
    /\ tok \in [Sessions -> 0..MaxMint]
    /\ ref \in [Sessions -> 0..MaxMint]
    /\ prev \in [Sessions -> 0..MaxMint]
    /\ grace \in [Sessions -> BOOLEAN]

LocalTypes ==
    /\ op \in [Proc -> Ops]
    /\ pc \in [Proc -> Steps]
    /\ ses \in [Proc -> 0..NSess]
    /\ hand \in [Proc -> 0..MaxMint]
    /\ sec \in [Proc -> 0..MaxMint]
    /\ pick \in [Proc -> SUBSET Sessions]
    /\ pend \in [Proc -> SUBSET Tokens]

RestTypes ==
    /\ cache \in [Tokens -> 0..NSess + 1]
    /\ active \in BOOLEAN
    /\ lock \in Proc \cup {None}
    /\ minted \in 0..MaxMint
    /\ orphans \in SUBSET Tokens
    /\ faults \in 0..MaxFaults

LEMMA Types == TypeOK <=> RowTypes /\ LocalTypes /\ RestTypes
  BY Zenon DEF TypeOK, RowTypes, LocalTypes, RestTypes

LEMMA TypesNext == RowTypes' /\ LocalTypes' /\ RestTypes' => TypeOK'
  BY Zenon DEF TypeOK, RowTypes, LocalTypes, RestTypes

-----------------------------------------------------------------------------
(* What a request relies on. *)

LoggingIn(p) == pc[p] = "select" \/ (pc[p] = "txpurge" /\ op[p] = "login")
Locks(p) == LoggingIn(p) => lock = p
Room(p) == LoggingIn(p) => Cardinality(LiveSessions \ pick[p]) <= Cap - 1

SecretOld(p) == sec[p] <= minted
SessionKnown(p) ==
    op[p] \in {"refresh", "rebind"} => ses[p] \in Sessions /\ row[ses[p]] # "absent"
Stale(s, r) == expired[s] \/ (ref[s] # r /\ (prev[s] # r \/ ~grace[s]))
SecretStale(p) ==
    op[p] = "refresh" =>
        /\ pc[p] = "detect" /\ row[ses[p]] = "live" => Stale(ses[p], sec[p])
        /\ pc[p] = "revoke_all" => Stale(ses[p], sec[p])

HandKnown(p) ==
    /\ pc[p] \in {"read", "status", "store"} => hand[p] \in Tokens
    /\ pc[p] \in {"find", "status", "store"} => ses[p] \in Sessions
PickKnown(p) == pc[p] = "txpurge" => \A s \in pick[p] : row[s] # "absent"
PendLate(p) == pend[p] # {} => pc[p] \in {"purge", "txpurge"}

Tombed(t) == cache[t] = Tombstone
Dead(t) == t \in orphans \/ Pending(t) \/ Tombed(t)
PickDead(p) ==
    faults = 0 /\ pc[p] = "txpurge" =>
        \A s \in pick[p] : tok[s] \in Tokens => tok[s] \in pend[p] \/ Tombed(tok[s])
HandDead(p) ==
    faults = 0 /\ pc[p] = "update" /\ hand[p] \in Tokens => Tombed(hand[p])
Current(s, t) == row[s] = "live" /\ tok[s] = t
ReadStands(p) ==
    faults = 0 /\ pc[p] \in {"status", "store"} =>
        Current(ses[p], hand[p]) \/ Dead(hand[p]) \/ expired[ses[p]]
Closed == ~active /\ \A p \in Proc : pc[p] # "revoke_all"
ReadVoid(p) ==
    faults = 0 /\ Closed /\ pc[p] = "store" => Dead(hand[p]) \/ expired[ses[p]]

Own(p) ==
    /\ Locks(p) /\ Room(p) /\ SecretOld(p) /\ SessionKnown(p) /\ SecretStale(p)
    /\ HandKnown(p) /\ PickKnown(p) /\ PendLate(p)
    /\ PickDead(p) /\ HandDead(p) /\ ReadStands(p) /\ ReadVoid(p)

ExpiredUncached == \A s \in Sessions, t \in Tokens : expired[s] => cache[t] # s

Shared == SessionCap /\ ExpiredUncached /\ CachedIsCurrent /\ InactiveNotCached

IInv == TypeOK /\ (\A p \in Proc : Own(p)) /\ Shared

-----------------------------------------------------------------------------
SameLocals(q) ==
    /\ op'[q] = op[q] /\ pc'[q] = pc[q] /\ ses'[q] = ses[q] /\ hand'[q] = hand[q]
    /\ sec'[q] = sec[q] /\ pick'[q] = pick[q] /\ pend'[q] = pend[q]

RowsRely(q) ==
    /\ \A s \in Sessions : row[s] # "absent" => row'[s] # "absent" /\ (row'[s] = "live" => row[s] = "live")
    /\ \A s \in Sessions : expired[s] => expired'[s]
    /\ LoggingIn(q) => lock' = lock /\ LiveSessions' \subseteq LiveSessions

SecretRely ==
    /\ minted <= minted'
    /\ \A s \in Sessions : row[s] # "absent" =>
           \/ ref'[s] = ref[s] /\ prev'[s] = prev[s] /\ (grace'[s] => grace[s])
           \/ ref'[s] = minted + 1 /\ prev'[s] = ref[s]

CacheRely(q) ==
    /\ pc[q] = "txpurge" => \A s \in pick[q] : tok'[s] = tok[s]
    /\ faults' = 0 => faults = 0
    /\ faults' = 0 => \A t \in Tokens : Tombed(t) /\ InUse(t) => Tombed(t)'

ReadRely(q) ==
    faults' = 0 /\ pc[q] \in {"status", "store"} =>
        /\ Dead(hand[q]) => Dead(hand[q])'
        /\ Current(ses[q], hand[q]) => Current(ses[q], hand[q])' \/ Dead(hand[q])' \/ expired'[ses[q]]
        /\ Closed' => Closed \/ Dead(hand[q])' \/ expired'[ses[q]]

Rely(q) == RowsRely(q) /\ SecretRely /\ CacheRely(q) /\ ReadRely(q)

-----------------------------------------------------------------------------
(* Facts about the constants and finite sets of sessions. *)
LEMMA Ranges ==
    /\ 0 \in 0..MaxMint /\ 0 \in 0..NSess /\ 0 \in 0..MaxFaults
    /\ Sessions \subseteq 0..NSess /\ Tokens \subseteq 0..MaxMint
    /\ Sessions \subseteq 0..NSess + 1 /\ 0 \in 0..NSess + 1
    /\ Tombstone \in 0..NSess + 1 /\ Tombstone \notin Sessions /\ Tombstone # 0
    /\ 0 \notin Sessions /\ 0 \notin Tokens
  BY BoundsAssumption DEF Sessions, Tokens, Tombstone

LEMMA MintRange ==
    ASSUME minted \in 0..MaxMint, minted < MaxMint
    PROVE  minted + 1 \in 0..MaxMint /\ minted \in Nat /\ minted <= minted + 1
  BY BoundsAssumption

LEMMA FaultRange == faults \in 0..MaxFaults /\ Fault => faults' \in 0..MaxFaults /\ faults' # 0
  BY BoundsAssumption DEF Fault

LEMMA FewerSessions ==
    ASSUME NEW S, NEW T \in SUBSET Sessions, S \subseteq T
    PROVE  Cardinality(S) <= Cardinality(T) /\ Cardinality(S) \in Nat /\ Cardinality(T) \in Nat
<1>1. IsFiniteSet(Sessions)
  BY FS_Interval, BoundsAssumption DEF Sessions
<1>2. IsFiniteSet(T)
  BY Zenon, <1>1, FS_Subset
<1> QED
  BY Zenon, <1>2, FS_Subset, FS_CardinalityType

LEMMA StillCapped ==
    ASSUME NEW S, NEW T \in SUBSET Sessions, S \subseteq T, Cardinality(T) <= Cap
    PROVE  Cardinality(S) <= Cap
<1>1. Cardinality(S) <= Cardinality(T) /\ Cardinality(S) \in Nat /\ Cardinality(T) \in Nat
  BY Zenon, FewerSessions
<1> QED
  BY <1>1, BoundsAssumption

LEMMA OneMore ==
    ASSUME NEW S \in SUBSET Sessions, NEW n \in Sessions, Cardinality(S) <= Cap - 1
    PROVE  Cardinality(S \cup {n}) <= Cap
<1>1. IsFiniteSet(Sessions)
  BY FS_Interval, BoundsAssumption DEF Sessions
<1>2. IsFiniteSet(S)
  BY Zenon, <1>1, FS_Subset
<1>3. Cardinality(S \cup {n}) = IF n \in S THEN Cardinality(S) ELSE Cardinality(S) + 1
  BY Zenon, <1>2, FS_AddElement
<1>4. Cardinality(S) \in Nat
  BY Zenon, <1>2, FS_CardinalityType
<1> QED
  BY <1>3, <1>4, BoundsAssumption

(* A request keeps what it relies on through the steps of the others. *)
LEMMA Kept ==
    ASSUME TypeOK, NEW q \in Proc, Own(q), SameLocals(q), Rely(q), minted' \in Nat
    PROVE  Own(q)'
<1>0. /\ Locks(q) /\ Room(q) /\ SecretOld(q) /\ SessionKnown(q) /\ SecretStale(q)
      /\ HandKnown(q) /\ PickKnown(q) /\ PendLate(q)
      /\ PickDead(q) /\ HandDead(q) /\ ReadStands(q) /\ ReadVoid(q)
  BY Zenon DEF Own
<1>1. /\ op'[q] = op[q] /\ pc'[q] = pc[q] /\ ses'[q] = ses[q] /\ hand'[q] = hand[q]
      /\ sec'[q] = sec[q] /\ pick'[q] = pick[q] /\ pend'[q] = pend[q]
  BY Zenon DEF SameLocals
<1>2. RowsRely(q) /\ SecretRely /\ CacheRely(q) /\ ReadRely(q)
  BY Zenon DEF Rely
<1>3. Locks(q)'
  BY <1>0, <1>1, <1>2, Zenon DEF Locks, LoggingIn, RowsRely
<1>4. Room(q)'
  <2> SUFFICES ASSUME LoggingIn(q)' PROVE Cardinality(LiveSessions' \ pick'[q]) <= Cap - 1
    BY Zenon DEF Room
  <2>1. LoggingIn(q)
    BY <1>1, Zenon DEF LoggingIn
  <2>2. LiveSessions' \ pick'[q] \subseteq LiveSessions \ pick[q] /\ LiveSessions \ pick[q] \in SUBSET Sessions
    BY Zenon, <1>1, <1>2, <2>1 DEF RowsRely, LiveSessions
  <2>3. Cardinality(LiveSessions \ pick[q]) <= Cap - 1
    BY <1>0, <2>1, Zenon DEF Room
  <2> HIDE DEF LiveSessions
  <2> QED
    BY <2>2, <2>3, FewerSessions, BoundsAssumption
<1>5. SecretOld(q)' /\ sec[q] \in Nat /\ minted \in Nat /\ sec[q] <= minted
  <2>1. sec[q] \in Nat /\ minted \in Nat
    BY BoundsAssumption DEF TypeOK
  <2> QED
    BY <1>0, <1>1, <1>2, <2>1 DEF SecretOld, SecretRely
<1>6. SessionKnown(q)'
  BY <1>0, <1>1, <1>2, Zenon DEF SessionKnown, RowsRely
<1>7. SecretStale(q)'
  <2>1. ASSUME NEW s \in Sessions, row[s] # "absent", Stale(s, sec[q]) PROVE Stale(s, sec[q])'
    <3>1. CASE expired[s]
      BY <1>2, <2>1, <3>1, Zenon DEF Stale, RowsRely
    <3>2. CASE ref'[s] = ref[s] /\ prev'[s] = prev[s] /\ (grace'[s] => grace[s])
      BY <1>1, <1>2, <2>1, <3>2, Zenon DEF Stale, RowsRely
    <3>3. CASE ref'[s] = minted + 1 /\ prev'[s] = ref[s] /\ ~expired[s]
      <4>1. minted + 1 # sec[q]
        BY <1>5
      <4> QED
        BY Zenon, <1>1, <2>1, <3>3, <4>1 DEF Stale
    <3> QED
      BY Zenon, <1>2, <2>1, <3>1, <3>2, <3>3 DEF SecretRely
  <2>2. op[q] = "refresh" => ses[q] \in Sessions /\ row[ses[q]] # "absent" /\ (row'[ses[q]] = "live" => row[ses[q]] = "live")
    BY Zenon, <1>0, <1>2 DEF SessionKnown, RowsRely
  <2> HIDE DEF Stale
  <2> QED
    BY Zenon, <1>0, <1>1, <2>1, <2>2 DEF SecretStale
<1>8. HandKnown(q)' /\ PendLate(q)'
  BY <1>0, <1>1, Zenon DEF HandKnown, PendLate
<1>9. PickKnown(q)'
  <2>1. pick[q] \in SUBSET Sessions
    BY Zenon DEF TypeOK
  <2> QED
    BY Zenon, <1>0, <1>1, <1>2, <2>1 DEF PickKnown, RowsRely
<1>10. PickDead(q)'
  <2> SUFFICES ASSUME faults' = 0, pc[q] = "txpurge", NEW s \in pick[q], tok'[s] \in Tokens
               PROVE  tok'[s] \in pend[q] \/ cache'[tok'[s]] = Tombstone
    BY Zenon, <1>1 DEF PickDead, Tombed
  <2>1. tok'[s] = tok[s] /\ faults = 0
    BY <1>2, Zenon DEF CacheRely
  <2>2. tok[s] \in pend[q] \/ Tombed(tok[s])
    BY Zenon, <1>0, <2>1 DEF PickDead
  <2>3. InUse(tok[s])
    BY Zenon DEF InUse
  <2> QED
    BY Zenon, <1>2, <2>1, <2>2, <2>3 DEF CacheRely, Tombed
<1>11. HandDead(q)'
  <2>1. InUse(hand[q])
    BY Zenon DEF InUse
  <2> QED
    BY Zenon, <1>0, <1>1, <1>2, <2>1 DEF HandDead, CacheRely, Tombed
<1>12. ReadStands(q)'
  <2> SUFFICES ASSUME faults' = 0, pc[q] \in {"status", "store"}
               PROVE  Current(ses[q], hand[q])' \/ Dead(hand[q])' \/ expired'[ses[q]]
    BY Zenon, <1>1 DEF ReadStands, Current, Dead, Tombed, Pending
  <2>1. faults = 0 /\ (expired[ses[q]] => expired'[ses[q]])
    BY Zenon, <1>0, <1>2 DEF CacheRely, RowsRely, HandKnown
  <2> QED
    BY <1>0, <1>2, <2>1, Zenon DEF ReadStands, ReadRely
<1>13. ReadVoid(q)'
  <2> SUFFICES ASSUME faults' = 0, Closed', pc[q] = "store"
               PROVE  Dead(hand[q])' \/ expired'[ses[q]]
    BY Zenon, <1>1 DEF ReadVoid, Dead, Tombed, Pending
  <2>1. faults = 0 /\ (expired[ses[q]] => expired'[ses[q]])
    BY Zenon, <1>0, <1>2 DEF CacheRely, RowsRely, HandKnown
  <2> QED
    BY <1>0, <1>2, <2>1, Zenon DEF ReadVoid, ReadRely
<1> QED
  BY <1>3, <1>4, <1>5, <1>6, <1>7, <1>8, <1>9, <1>10, <1>11, <1>12, <1>13, Zenon DEF Own

(* A step of p, and one of the environment. *)
LEMMA StepIInv ==
    ASSUME IInv, NEW p \in Proc, TypeOK', Own(p)', Shared',
           \A q \in Proc \ {p} : SameLocals(q) /\ Rely(q)
    PROVE  IInv'
<1>1. minted' \in Nat
  BY BoundsAssumption DEF TypeOK
<1>2. \A q \in Proc \ {p} : Own(q)'
  BY <1>1, Kept, Zenon DEF IInv
<1> QED
  BY <1>2, Zenon DEF IInv

LEMMA EnvIInv ==
    ASSUME IInv, TypeOK', Shared', \A q \in Proc : SameLocals(q) /\ Rely(q)
    PROVE  IInv'
<1>1. minted' \in Nat
  BY BoundsAssumption DEF TypeOK
<1>2. \A q \in Proc : Own(q)'
  BY <1>1, Kept, Zenon DEF IInv
<1> QED
  BY <1>2, Zenon DEF IInv

LEMMA OwnPlain ==
    ASSUME NEW p \in Proc,
           pc'[p] \notin {"select", "txpurge", "status", "store", "update", "detect"},
           pc'[p] = "revoke_all" => op'[p] # "refresh",
           SecretOld(p)', SessionKnown(p)', HandKnown(p)', PendLate(p)'
    PROVE  Own(p)'
<1>1. Locks(p)' /\ Room(p)'
  BY Zenon DEF Locks, Room, LoggingIn
<1>2. SecretStale(p)' /\ PickKnown(p)'
  BY Zenon DEF SecretStale, PickKnown
<1>3. PickDead(p)' /\ HandDead(p)' /\ ReadStands(p)' /\ ReadVoid(p)'
  BY Zenon DEF PickDead, HandDead, ReadStands, ReadVoid
<1> QED
  BY <1>1, <1>2, <1>3, Zenon DEF Own

(* The end of a request. *)
LEMMA ResetOwn ==
    ASSUME TypeOK, NEW p \in Proc, Reset(p), minted' \in Nat
    PROVE  /\ Own(p)' /\ LocalTypes' /\ pc'[p] = "idle" /\ pend'[p] = {}
           /\ \A q \in Proc \ {p} : SameLocals(q)
<1>1. /\ op' = [op EXCEPT ![p] = "none"] /\ pc' = [pc EXCEPT ![p] = "idle"]
      /\ ses' = [ses EXCEPT ![p] = 0] /\ hand' = [hand EXCEPT ![p] = 0]
      /\ sec' = [sec EXCEPT ![p] = 0] /\ pick' = [pick EXCEPT ![p] = {}]
      /\ pend' = [pend EXCEPT ![p] = {}]
  BY Zenon DEF Reset
<1>2. LocalTypes
  BY Zenon, Types
<1>3. op'[p] = "none" /\ pc'[p] = "idle" /\ sec'[p] = 0 /\ pend'[p] = {}
  BY Zenon, <1>1, <1>2 DEF LocalTypes
<1>4. LocalTypes'
  <2>1. "none" \in Ops /\ "idle" \in Steps
    BY Zenon DEF Ops, Steps
  <2> QED
    BY Zenon, <1>1, <1>2, <2>1, Ranges DEF LocalTypes
<1>5. \A q \in Proc \ {p} : SameLocals(q)
  BY Zenon, <1>1, <1>2 DEF LocalTypes, SameLocals
<1>6. SecretOld(p)' /\ SessionKnown(p)' /\ HandKnown(p)' /\ PendLate(p)'
  BY <1>3 DEF SecretOld, SessionKnown, HandKnown, PendLate
<1>7. Own(p)'
  BY Zenon, <1>3, <1>6, OwnPlain
<1> QED
  BY Zenon, <1>3, <1>4, <1>5, <1>7

(* A step that leaves rows and cache alone. *)
LEMMA LocalStep ==
    ASSUME IInv, NEW p \in Proc,
           UNCHANGED <<row, expired, tok, ref, prev, grace, cache, orphans, faults>>,
           minted' = minted \/ (minted < MaxMint /\ minted' = minted + 1),
           LocalTypes', lock' \in Proc \cup {None}, active' \in BOOLEAN, Own(p)',
           \A q \in Proc \ {p} : SameLocals(q),
           pend[p] \subseteq pend'[p],
           lock' = lock \/ lock = None,
           pc'[p] = "revoke_all" \/ (active' = active /\ pc[p] # "revoke_all")
    PROVE  IInv'
<1>0. TypeOK /\ (\A q \in Proc : Own(q)) /\ Shared
  BY Zenon DEF IInv
<1>1. TypeOK'
  <2>1. RowTypes /\ RestTypes
    BY Zenon, <1>0, Types
  <2>2. RowTypes'
    BY <2>1, Zenon DEF RowTypes
  <2>4. minted' \in 0..MaxMint
    BY Zenon, <2>1, MintRange DEF RestTypes
  <2>3. RestTypes'
    BY <2>1, <2>4, Zenon DEF RestTypes
  <2> QED
    BY Zenon, <2>2, <2>3, TypesNext
<1>2. Closed' => Closed
  BY Zenon DEF Closed, SameLocals
<1>3. \A t : Pending(t) => Pending(t)'
  BY Zenon DEF Pending, SameLocals
<1>4. \A t : Dead(t) => Dead(t)'
  BY Zenon, <1>3 DEF Dead, Tombed
<1>5. ASSUME NEW q \in Proc \ {p} PROVE Rely(q)
  <2>1. RowsRely(q)
    <3>1. LoggingIn(q) => lock' = lock
      BY Zenon, <1>0, NoneAssumption DEF Own, Locks
    <3> QED
      BY Zenon, <3>1 DEF RowsRely, LiveSessions
  <2>2. SecretRely
    <3>1. minted \in Nat
      BY <1>0, BoundsAssumption DEF TypeOK
    <3> QED
      BY <3>1 DEF SecretRely
  <2>3. CacheRely(q)
    BY Zenon DEF CacheRely, Tombed
  <2>4. ReadRely(q)
    <3>1. hand'[q] = hand[q] /\ ses'[q] = ses[q]
      BY Zenon DEF SameLocals
    <3>2. Dead(hand[q]) => Dead(hand[q])'
      BY Zenon, <1>4, <3>1
    <3>3. Current(ses[q], hand[q]) => Current(ses[q], hand[q])'
      BY Zenon, <3>1 DEF Current
    <3> QED
      BY <1>2, <3>2, <3>3, Zenon DEF ReadRely
  <2> QED
    BY <2>1, <2>2, <2>3, <2>4, Zenon DEF Rely
<1>6. Shared'
  <2>1. SessionCap' /\ ExpiredUncached'
    BY <1>0, Zenon DEF Shared, SessionCap, LiveSessions, ExpiredUncached
  <2>2. CachedIsCurrent'
    BY Zenon, <1>0, <1>3 DEF Shared, CachedIsCurrent
  <2>3. InactiveNotCached'
    BY Zenon, <1>0, <1>2, <1>3 DEF Shared, InactiveNotCached, Closed
  <2> QED
    BY <2>1, <2>2, <2>3, Zenon DEF Shared
<1> QED
  BY Zenon, <1>1, <1>5, <1>6, StepIInv

(* A key becomes a tombstone, or Redis fails. *)
LEMMA TombStep ==
    ASSUME IInv, NEW p \in Proc, NEW t \in 0..MaxMint,
           UNCHANGED <<row, expired, tok, ref, prev, grace, active, lock, minted, orphans>>,
           \/ cache' = [cache EXCEPT ![t] = Tombstone] /\ faults' = faults
           \/ Fault /\ cache' = cache,
           LocalTypes', Own(p)', \A q \in Proc \ {p} : SameLocals(q),
           pend[p] \ {t} \subseteq pend'[p], pc[p] # "revoke_all"
    PROVE  IInv'
<1>0. TypeOK /\ (\A q \in Proc : Own(q)) /\ Shared
  BY Zenon DEF IInv
<1>a. RowTypes /\ RestTypes /\ LocalTypes
  BY Zenon, <1>0, Types
<1>1. TypeOK'
  <2>2. RowTypes'
    BY <1>a, Zenon DEF RowTypes
  <2>3. cache' \in [Tokens -> 0..NSess + 1]
    BY Zenon, <1>a, Ranges DEF RestTypes
  <2>4. faults' \in 0..MaxFaults
    BY Zenon, <1>a, FaultRange DEF RestTypes
  <2>5. RestTypes'
    BY <1>a, <2>3, <2>4, Zenon DEF RestTypes
  <2> QED
    BY Zenon, <2>2, <2>5, TypesNext
<1>2. Closed' => Closed
  BY Zenon DEF Closed, SameLocals
<1>b. faults' = 0 => faults = 0 /\ cache' = [cache EXCEPT ![t] = Tombstone]
  BY Zenon, <1>a, FaultRange DEF RestTypes
<1>c. \A u \in Tokens : cache'[u] # cache[u] => cache'[u] = Tombstone
  BY Zenon, <1>a DEF RestTypes
<1>d. \A u \in Tokens : Tombed(u) => Tombed(u)'
  BY Zenon, <1>c DEF Tombed
<1>e. \A u \in Tokens : faults' = 0 => (u = t => cache'[u] = Tombstone)
  BY Zenon, <1>a, <1>b DEF RestTypes
<1>3. faults' = 0 => \A u \in Tokens : Pending(u) => Pending(u)' \/ cache'[u] = Tombstone
  BY Zenon, <1>e DEF Pending, SameLocals
<1>4. faults' = 0 => \A u \in Tokens : Dead(u) => Dead(u)'
  BY Zenon, <1>3, <1>d DEF Dead, Tombed
<1>5. ASSUME NEW q \in Proc \ {p} PROVE Rely(q)
  <2>1. RowsRely(q)
    BY Zenon DEF RowsRely, LiveSessions
  <2>2. SecretRely
    <3>1. minted \in Nat
      BY <1>0, BoundsAssumption DEF TypeOK
    <3> QED
      BY <3>1 DEF SecretRely
  <2>3. CacheRely(q)
    BY <1>b, <1>d, Zenon DEF CacheRely
  <2>4. ReadRely(q)
    <3>1. hand'[q] = hand[q] /\ ses'[q] = ses[q]
      BY Zenon DEF SameLocals
    <3>4. pc[q] \in {"status", "store"} => hand[q] \in Tokens
      BY Zenon, <1>0 DEF Own, HandKnown
    <3>2. faults' = 0 /\ pc[q] \in {"status", "store"} /\ Dead(hand[q]) => Dead(hand[q])'
      BY Zenon, <1>4, <3>1, <3>4
    <3>3. Current(ses[q], hand[q]) => Current(ses[q], hand[q])'
      BY Zenon, <3>1 DEF Current
    <3> QED
      BY <1>2, <3>2, <3>3, Zenon DEF ReadRely
  <2> QED
    BY <2>1, <2>2, <2>3, <2>4, Zenon DEF Rely
<1>6. Shared'
  <2>1. SessionCap'
    BY <1>0, Zenon DEF Shared, SessionCap, LiveSessions
  <2>2. ExpiredUncached'
    BY Zenon, <1>0, <1>c, Ranges DEF Shared, ExpiredUncached
  <2>3. CachedIsCurrent'
    BY Zenon, <1>0, <1>b, <1>c, <1>3, Ranges DEF Shared, CachedIsCurrent
  <2>4. InactiveNotCached'
    BY Zenon, <1>0, <1>2, <1>b, <1>c, <1>3, Ranges DEF Shared, InactiveNotCached, Closed
  <2> QED
    BY <2>1, <2>2, <2>3, <2>4, Zenon DEF Shared
<1> QED
  BY Zenon, <1>1, <1>5, <1>6, StepIInv

(* The rows S are revoked, their tokens are tombstones or on their way. *)
LEMMA RevokeStep ==
    ASSUME IInv, NEW p \in Proc, NEW S \in SUBSET Sessions,
           \A s \in S : row[s] # "absent", SetRevoked(S),
           UNCHANGED <<expired, tok, ref, prev, grace, cache, active, lock, minted, orphans, faults>>,
           LocalTypes', Own(p)', \A q \in Proc \ {p} : SameLocals(q),
           pend[p] \subseteq pend'[p],
           faults = 0 => \A s \in S : tok[s] \in Tokens => tok[s] \in pend'[p] \/ Tombed(tok[s]),
           pc[p] # "revoke_all" \/ S = NotRevoked
    PROVE  IInv'
<1>0. TypeOK /\ (\A q \in Proc : Own(q)) /\ Shared
  BY Zenon DEF IInv
<1>a. RowTypes /\ RestTypes
  BY Zenon, <1>0, Types
<1>b. /\ \A s \in S : row'[s] = "revoked"
      /\ \A s \in Sessions \ S : row'[s] = row[s]
  BY Zenon DEF SetRevoked
<1>1. TypeOK'
  <2>1. row' \in [Sessions -> {"absent", "live", "revoked", "purged"}]
    BY Zenon, <1>a DEF RowTypes, SetRevoked
  <2>2. RowTypes'
    BY <1>a, <2>1, Zenon DEF RowTypes
  <2>3. RestTypes'
    BY <1>a, Zenon DEF RestTypes
  <2> QED
    BY Zenon, <2>2, <2>3, TypesNext
<1>3. \A t : Pending(t) => Pending(t)'
  BY Zenon DEF Pending, SameLocals
<1>4. \A t : Dead(t) => Dead(t)'
  BY Zenon, <1>3 DEF Dead, Tombed
<1>c. faults = 0 => \A s \in S : tok[s] \in Tokens => Dead(tok[s])'
  BY Zenon DEF Dead, Pending, Tombed
<1>d. faults = 0 => \A s \in Sessions, t \in Tokens : Current(s, t) /\ s \in S => Dead(t)'
  BY Zenon, <1>c DEF Current
<1>e. \A s \in Sessions \ S, t \in Tokens : Current(s, t) => row'[s] = "live" /\ tok'[s] = t
  BY Zenon, <1>b DEF Current
<1>f. S = NotRevoked => \A s \in Sessions, t \in Tokens : Current(s, t) => s \in S
  BY Zenon DEF Current, NotRevoked
<1>2. Closed' => Closed \/ S = NotRevoked
  BY Zenon DEF Closed, SameLocals
<1>5. ASSUME NEW q \in Proc \ {p} PROVE Rely(q)
  <2>1. RowsRely(q)
    BY Zenon, <1>b DEF RowsRely, LiveSessions
  <2>2. SecretRely
    <3>1. minted \in Nat
      BY <1>0, BoundsAssumption DEF TypeOK
    <3> QED
      BY <3>1 DEF SecretRely
  <2>3. CacheRely(q)
    BY Zenon DEF CacheRely, Tombed
  <2>4. ReadRely(q)
    <3> SUFFICES ASSUME faults' = 0, pc[q] \in {"status", "store"} PROVE ReadRely(q)
      BY Zenon DEF ReadRely
    <3>1. hand'[q] = hand[q] /\ ses'[q] = ses[q]
      BY Zenon DEF SameLocals
    <3>2. hand[q] \in Tokens /\ ses[q] \in Sessions
      BY Zenon, <1>0 DEF Own, HandKnown
    <3>3. Dead(hand[q]) => Dead(hand[q])'
      BY Zenon, <1>4, <3>1
    <3>4. Current(ses[q], hand[q]) => Current(ses[q], hand[q])' \/ Dead(hand[q])'
      BY Zenon, <1>d, <1>e, <3>1, <3>2 DEF Current
    <3>5. Current(ses[q], hand[q]) \/ Dead(hand[q]) \/ expired[ses[q]]
      BY Zenon, <1>0 DEF Own, ReadStands
    <3>6. S = NotRevoked => Dead(hand[q])' \/ expired'[ses[q]]
      BY Zenon, <1>d, <1>f, <3>1, <3>2, <3>3, <3>5
    <3> QED
      BY <1>2, <3>3, <3>4, <3>6, Zenon DEF ReadRely
  <2> QED
    BY <2>1, <2>2, <2>3, <2>4, Zenon DEF Rely
<1>6. Shared'
  <2>1. SessionCap'
    <3>1. LiveSessions' \subseteq LiveSessions /\ LiveSessions \in SUBSET Sessions
      BY Zenon, <1>b DEF LiveSessions
    <3>2. Cardinality(LiveSessions) <= Cap
      BY Zenon, <1>0 DEF Shared, SessionCap
    <3> QED
      BY Zenon, <3>1, <3>2, StillCapped DEF SessionCap
  <2>2. ExpiredUncached'
    BY <1>0, Zenon DEF Shared, ExpiredUncached
  <2>3. CachedIsCurrent'
    <3> SUFFICES ASSUME faults = 0, NEW t \in Tokens, NEW s \in Sessions, cache[t] = s
                 PROVE  (row'[s] = "live" /\ tok'[s] = t) \/ t \in orphans \/ Pending(t)'
      BY Zenon DEF CachedIsCurrent
    <3>1. Current(s, t) \/ t \in orphans \/ Pending(t)
      BY Zenon, <1>0 DEF Shared, CachedIsCurrent, Current
    <3>2. Dead(t)' => t \in orphans \/ Pending(t)'
      BY Zenon, Ranges DEF Dead, Tombed
    <3> QED
      BY Zenon, <1>3, <1>d, <1>e, <3>1, <3>2
  <2>4. InactiveNotCached'
    <3> SUFFICES ASSUME faults = 0, Closed', NEW t \in Tokens, cache[t] \in Sessions
                 PROVE  t \in orphans \/ Pending(t)'
      BY Zenon DEF InactiveNotCached, Closed
    <3>1. CASE Closed
      BY Zenon, <1>0, <1>3, <3>1 DEF Shared, InactiveNotCached, Closed
    <3>2. CASE S = NotRevoked
      <4>1. Current(cache[t], t) \/ t \in orphans \/ Pending(t)
        BY Zenon, <1>0 DEF Shared, CachedIsCurrent, Current
      <4>2. Dead(t)' => t \in orphans \/ Pending(t)'
        BY Zenon, Ranges DEF Dead, Tombed
      <4> QED
        BY Zenon, <1>3, <1>d, <1>f, <3>2, <4>1, <4>2
    <3> QED
      BY Zenon, <1>2, <3>1, <3>2
  <2> QED
    BY <2>1, <2>2, <2>3, <2>4, Zenon DEF Shared
<1> QED
  BY Zenon, <1>1, <1>5, <1>6, StepIInv

(* A login revokes the rows S and inserts the session n. *)
LEMMA EvictStep ==
    ASSUME IInv, NEW p \in Proc, LoggingIn(p), NEW S \in SUBSET Sessions, NEW n \in Sessions,
           \A s \in S : row[s] # "absent", LiveSessions \cap pick[p] \subseteq S,
           row[n] = "absent", EvictAndInsert(S, n), Unlock(p),
           UNCHANGED <<cache, active, orphans, faults>>,
           LocalTypes', Own(p)', \A q \in Proc \ {p} : SameLocals(q),
           pend[p] \subseteq pend'[p], pc[p] # "revoke_all",
           faults = 0 => \A s \in S : tok[s] \in Tokens => tok[s] \in pend'[p] \/ Tombed(tok[s])
    PROVE  IInv'
<1>0. TypeOK /\ (\A q \in Proc : Own(q)) /\ Shared
  BY Zenon DEF IInv
<1>a. RowTypes /\ RestTypes
  BY Zenon, <1>0, Types
<1>b. /\ row'[n] = "live"
      /\ \A s \in S : row'[s] = "revoked"
      /\ \A s \in Sessions \ (S \cup {n}) : row'[s] = row[s]
      /\ \A s \in Sessions \ {n} : tok'[s] = tok[s] /\ ref'[s] = ref[s]
      /\ UNCHANGED <<expired, prev, grace>>
  BY Zenon, <1>a DEF EvictAndInsert, RowTypes
<1>m. minted' \in 0..MaxMint /\ minted <= minted'
  BY Zenon, <1>a, MintRange DEF EvictAndInsert, RestTypes
<1>1. TypeOK'
  <2>1. row' \in [Sessions -> {"absent", "live", "revoked", "purged"}]
    BY Zenon, <1>a DEF RowTypes, EvictAndInsert
  <2>2. tok' \in [Sessions -> 0..MaxMint] /\ ref' \in [Sessions -> 0..MaxMint]
    BY Zenon, <1>a, MintRange DEF RowTypes, RestTypes, EvictAndInsert
  <2>3. RowTypes'
    BY <1>a, <1>b, <2>1, <2>2, Zenon DEF RowTypes
  <2>4. lock' \in Proc \cup {None}
    BY Zenon, <1>a DEF RestTypes, Unlock
  <2>5. RestTypes'
    BY <1>a, <1>m, <2>4, Zenon DEF RestTypes
  <2> QED
    BY Zenon, <2>3, <2>5, TypesNext
<1>3. \A t : Pending(t) => Pending(t)'
  BY Zenon DEF Pending, SameLocals
<1>4. \A t : Dead(t) => Dead(t)'
  BY Zenon, <1>3 DEF Dead, Tombed
<1>c. faults = 0 => \A s \in S : tok[s] \in Tokens => Dead(tok[s])'
  <2>1. \A s \in S : s # n
    OBVIOUS
  <2> QED
    BY Zenon, <1>b, <2>1 DEF Dead, Pending, Tombed
<1>d. faults = 0 => \A s \in Sessions, t \in Tokens : Current(s, t) /\ s \in S => Dead(t)'
  <2>1. \A s \in S : tok'[s] = tok[s]
    BY Zenon, <1>b
  <2> QED
    BY Zenon, <1>c, <2>1 DEF Current
<1>e. \A s \in Sessions \ S, t \in Tokens : Current(s, t) => row'[s] = "live" /\ tok'[s] = t
  BY Zenon, <1>b DEF Current
<1>2. Closed' => Closed
  BY Zenon DEF Closed, SameLocals
<1>5. ASSUME NEW q \in Proc \ {p} PROVE Rely(q)
  <2>1. RowsRely(q)
    <3>1. ~LoggingIn(q)
      BY Zenon, <1>0 DEF Own, Locks
    <3>2. \A s \in Sessions : row[s] # "absent" => row'[s] # "absent" /\ (row'[s] = "live" => row[s] = "live")
      BY Zenon, <1>b
    <3> QED
      BY <1>b, <3>1, <3>2, Zenon DEF RowsRely
  <2>2. SecretRely
    BY Zenon, <1>b, <1>m DEF SecretRely
  <2>3. CacheRely(q)
    <3>1. pc[q] = "txpurge" => \A s \in pick[q] : s \in Sessions /\ row[s] # "absent"
      BY Zenon, <1>0 DEF Own, PickKnown, TypeOK
    <3>2. pc[q] = "txpurge" => \A s \in pick[q] : tok'[s] = tok[s]
      BY Zenon, <1>b, <3>1
    <3> QED
      BY Zenon, <3>2 DEF CacheRely, Tombed
  <2>4. ReadRely(q)
    <3> SUFFICES ASSUME faults' = 0, pc[q] \in {"status", "store"} PROVE ReadRely(q)
      BY Zenon DEF ReadRely
    <3>1. hand'[q] = hand[q] /\ ses'[q] = ses[q]
      BY Zenon DEF SameLocals
    <3>2. hand[q] \in Tokens /\ ses[q] \in Sessions
      BY Zenon, <1>0 DEF Own, HandKnown
    <3>3. Dead(hand[q]) => Dead(hand[q])'
      BY Zenon, <1>4, <3>1
    <3>4. Current(ses[q], hand[q]) => Current(ses[q], hand[q])' \/ Dead(hand[q])'
      BY Zenon, <1>d, <1>e, <3>1, <3>2 DEF Current
    <3> QED
      BY <1>2, <3>3, <3>4, Zenon DEF ReadRely
  <2> QED
    BY <2>1, <2>2, <2>3, <2>4, Zenon DEF Rely
<1>6. Shared'
  <2>1. SessionCap'
    <3>1. LiveSessions' \subseteq (LiveSessions \ pick[p]) \cup {n}
      BY Zenon, <1>b DEF LiveSessions
    <3>2. LiveSessions \ pick[p] \in SUBSET Sessions
      BY Zenon DEF LiveSessions
    <3>3. Cardinality(LiveSessions \ pick[p]) <= Cap - 1
      BY Zenon, <1>0 DEF Own, Room
    <3> DEFINE K == LiveSessions \ pick[p]
    <3>4. K \in SUBSET Sessions /\ Cardinality(K) <= Cap - 1 /\ LiveSessions' \subseteq K \cup {n}
      BY Zenon, <3>1, <3>2, <3>3
    <3> HIDE DEF K
    <3>5. Cardinality(K \cup {n}) <= Cap
      BY Zenon, <3>4, OneMore
    <3>6. K \cup {n} \in SUBSET Sessions
      BY Zenon, <3>4
    <3> QED
      BY Zenon, <3>4, <3>5, <3>6, StillCapped DEF SessionCap
  <2>2. ExpiredUncached'
    BY <1>0, <1>b, Zenon DEF Shared, ExpiredUncached
  <2>3. CachedIsCurrent'
    <3> SUFFICES ASSUME faults = 0, NEW t \in Tokens, NEW s \in Sessions, cache[t] = s
                 PROVE  (row'[s] = "live" /\ tok'[s] = t) \/ t \in orphans \/ Pending(t)'
      BY Zenon DEF CachedIsCurrent
    <3>1. Current(s, t) \/ t \in orphans \/ Pending(t)
      BY Zenon, <1>0 DEF Shared, CachedIsCurrent, Current
    <3>2. Dead(t)' => t \in orphans \/ Pending(t)'
      BY Zenon, Ranges DEF Dead, Tombed
    <3> QED
      BY Zenon, <1>3, <1>d, <1>e, <3>1, <3>2
  <2>4. InactiveNotCached'
    BY Zenon, <1>0, <1>2, <1>3 DEF Shared, InactiveNotCached, Closed
  <2> QED
    BY <2>1, <2>2, <2>3, <2>4, Zenon DEF Shared
<1> QED
  BY Zenon, <1>1, <1>5, <1>6, StepIInv

(* The session s gets a new token, and perhaps a new secret. *)
LEMMA TokenStep ==
    ASSUME IInv, NEW p \in Proc, NEW s \in Sessions,
           pc[p] = "update", RowFree(s), minted < MaxMint, minted' = minted + 1,
           SetToken(s, minted + 1, hand[p]), Reset(p),
           UNCHANGED <<row, expired, cache, active, lock, faults>>,
           \/ UNCHANGED <<ref, prev, grace>>
           \/ /\ prev' = [prev EXCEPT ![s] = ref[s]]
              /\ ref' = [ref EXCEPT ![s] = minted + 1]
              /\ grace' = [grace EXCEPT ![s] = TRUE]
    PROVE  IInv'
<1>0. TypeOK /\ (\A q \in Proc : Own(q)) /\ Shared
  BY Zenon DEF IInv
<1>a. RowTypes /\ RestTypes
  BY Zenon, <1>0, Types
<1>m. minted' \in 0..MaxMint /\ minted <= minted' /\ minted' \in Nat
  BY <1>a, MintRange, BoundsAssumption DEF RestTypes
<1>r. /\ Own(p)' /\ LocalTypes' /\ pc'[p] = "idle"
      /\ \A q \in Proc \ {p} : SameLocals(q)
  BY Zenon, <1>0, <1>m, ResetOwn
<1>b. /\ \A u \in Sessions \ {s} : tok'[u] = tok[u] /\ ref'[u] = ref[u] /\ prev'[u] = prev[u] /\ grace'[u] = grace[u]
      /\ \/ ref'[s] = ref[s] /\ prev'[s] = prev[s] /\ grace'[s] = grace[s]
         \/ ref'[s] = minted + 1 /\ prev'[s] = ref[s]
  <2>1. \A u \in Sessions \ {s} : tok'[u] = tok[u]
    BY Zenon, <1>a DEF SetToken, RowTypes
  <2>2. CASE UNCHANGED <<ref, prev, grace>>
    BY Zenon, <2>1, <2>2
  <2>3. CASE /\ prev' = [prev EXCEPT ![s] = ref[s]]
             /\ ref' = [ref EXCEPT ![s] = minted + 1]
             /\ grace' = [grace EXCEPT ![s] = TRUE]
    BY Zenon, <1>a, <2>1, <2>3 DEF RowTypes
  <2> QED
    BY <2>2, <2>3, Zenon
<1>o. orphans \subseteq orphans' /\ (tok[s] # hand[p] /\ tok[s] \in Tokens => tok[s] \in orphans')
  BY Zenon DEF SetToken
<1>1. TypeOK'
  <2>1. tok' \in [Sessions -> 0..MaxMint]
    BY Zenon, <1>a, <1>m DEF RowTypes, SetToken
  <2>2. ref' \in [Sessions -> 0..MaxMint] /\ prev' \in [Sessions -> 0..MaxMint] /\ grace' \in [Sessions -> BOOLEAN]
    <3>1. CASE UNCHANGED <<ref, prev, grace>>
      BY Zenon, <1>a, <3>1 DEF RowTypes
    <3>2. CASE /\ prev' = [prev EXCEPT ![s] = ref[s]]
               /\ ref' = [ref EXCEPT ![s] = minted + 1]
               /\ grace' = [grace EXCEPT ![s] = TRUE]
      BY Zenon, <1>a, <1>m, <3>2 DEF RowTypes
    <3> QED
      BY <3>1, <3>2, Zenon
  <2>3. RowTypes'
    BY <1>a, <2>1, <2>2, Zenon DEF RowTypes
  <2>4. orphans' \in SUBSET Tokens
    BY Zenon, <1>a DEF RestTypes, SetToken
  <2>5. RestTypes'
    BY <1>a, <1>m, <2>4, Zenon DEF RestTypes
  <2> QED
    BY Zenon, <1>r, <2>3, <2>5, TypesNext
<1>3. \A t : Pending(t) => Pending(t)'
  <2>1. pend[p] = {}
    BY Zenon, <1>0 DEF Own, PendLate
  <2> QED
    BY Zenon, <1>r, <2>1 DEF Pending, SameLocals
<1>4. \A t : Dead(t) => Dead(t)'
  BY Zenon, <1>3, <1>o DEF Dead, Tombed
<1>d. faults = 0 => \A t \in Tokens : Current(s, t) => t \in orphans' \/ Tombed(t)
  BY Zenon, <1>0, <1>o DEF Current, Own, HandDead
<1>e. \A u \in Sessions \ {s}, t \in Tokens : Current(u, t) => row'[u] = "live" /\ tok'[u] = t
  BY Zenon, <1>b DEF Current
<1>2. Closed' => Closed
  BY Zenon, <1>r DEF Closed, SameLocals
<1>5. ASSUME NEW q \in Proc \ {p} PROVE SameLocals(q) /\ Rely(q)
  <2>0. SameLocals(q)
    BY Zenon, <1>r
  <2>1. RowsRely(q)
    BY Zenon DEF RowsRely, LiveSessions
  <2>2. SecretRely
    BY Zenon, <1>b, <1>m DEF SecretRely
  <2>3. CacheRely(q)
    <3>1. pc[q] = "txpurge" => \A u \in pick[q] : u \in Sessions /\ u # s
      BY <1>0 DEF RowFree, TypeOK
    <3>2. pc[q] = "txpurge" => \A u \in pick[q] : tok'[u] = tok[u]
      BY Zenon, <1>b, <3>1
    <3> QED
      BY Zenon, <3>2 DEF CacheRely, Tombed
  <2>4. ReadRely(q)
    <3> SUFFICES ASSUME faults' = 0, pc[q] \in {"status", "store"} PROVE ReadRely(q)
      BY Zenon DEF ReadRely
    <3>1. hand'[q] = hand[q] /\ ses'[q] = ses[q]
      BY Zenon, <2>0 DEF SameLocals
    <3>2. hand[q] \in Tokens /\ ses[q] \in Sessions
      BY Zenon, <1>0 DEF Own, HandKnown
    <3>3. Dead(hand[q]) => Dead(hand[q])'
      BY Zenon, <1>4, <3>1
    <3>4. Current(ses[q], hand[q]) => Current(ses[q], hand[q])' \/ Dead(hand[q])'
      BY <1>d, <1>e, <3>1, <3>2 DEF Current, Dead, Tombed
    <3> QED
      BY <1>2, <3>3, <3>4, Zenon DEF ReadRely
  <2> QED
    BY <2>0, <2>1, <2>2, <2>3, <2>4, Zenon DEF Rely
<1>6. Shared'
  <2>1. SessionCap' /\ ExpiredUncached'
    BY <1>0, Zenon DEF Shared, SessionCap, LiveSessions, ExpiredUncached
  <2>3. CachedIsCurrent'
    <3> SUFFICES ASSUME faults = 0, NEW t \in Tokens, NEW u \in Sessions, cache[t] = u
                 PROVE  (row'[u] = "live" /\ tok'[u] = t) \/ t \in orphans' \/ Pending(t)'
      BY Zenon DEF CachedIsCurrent
    <3>1. Current(u, t) \/ t \in orphans \/ Pending(t)
      BY Zenon, <1>0 DEF Shared, CachedIsCurrent, Current
    <3>2. ~Tombed(t)
      BY Zenon, Ranges DEF Tombed
    <3> QED
      BY <1>3, <1>d, <1>e, <1>o, <3>1, <3>2
  <2>4. InactiveNotCached'
    BY Zenon, <1>0, <1>2, <1>3, <1>o DEF Shared, InactiveNotCached, Closed
  <2> QED
    BY <2>1, <2>3, <2>4, Zenon DEF Shared
<1> QED
  BY Zenon, <1>1, <1>5, <1>6, <1>r, StepIInv

(* Time passes, rows are cleaned up, an administrator reactivates the user. *)
LEMMA EnvStep ==
    ASSUME IInv, TypeOK',
           UNCHANGED <<op, pc, ses, hand, sec, pick, pend, tok, ref, prev, lock, minted, orphans, faults>>,
           active => active',
           \A s \in Sessions : row'[s] = row[s] \/ (row'[s] = "purged" /\ (row[s] = "live" => expired'[s])),
           \A s \in Sessions : (expired[s] => expired'[s]) /\ (grace'[s] => grace[s]),
           \A t \in Tokens : cache'[t] = cache[t] \/ (cache'[t] = 0 /\ ~(Tombed(t) /\ InUse(t))),
           \A s \in Sessions, t \in Tokens : expired'[s] => cache'[t] # s
    PROVE  IInv'
<1>0. TypeOK /\ (\A q \in Proc : Own(q)) /\ Shared
  BY Zenon DEF IInv
<1>1. \A t : Pending(t)' <=> Pending(t)
  BY Zenon DEF Pending
<1>2. Closed' => Closed
  BY Zenon DEF Closed
<1>3. LiveSessions' \subseteq LiveSessions /\ LiveSessions \in SUBSET Sessions
  BY Zenon DEF LiveSessions
<1>4. \A t \in Tokens : Tombed(t) /\ InUse(t) => Tombed(t)'
  BY Zenon DEF Tombed
<1>5. ASSUME NEW q \in Proc PROVE SameLocals(q) /\ Rely(q)
  <2>0. SameLocals(q)
    BY Zenon DEF SameLocals
  <2>1. RowsRely(q)
    BY Zenon, <1>3 DEF RowsRely
  <2>2. SecretRely
    <3>1. minted \in Nat
      BY <1>0, BoundsAssumption DEF TypeOK
    <3> QED
      BY <3>1 DEF SecretRely
  <2>3. CacheRely(q)
    BY <1>4, Zenon DEF CacheRely
  <2>4. ReadRely(q)
    <3> SUFFICES ASSUME pc[q] \in {"status", "store"} PROVE ReadRely(q)
      BY Zenon DEF ReadRely
    <3>1. hand[q] \in Tokens /\ ses[q] \in Sessions
      BY Zenon, <1>0 DEF Own, HandKnown
    <3>2. InUse(hand[q])
      BY Zenon DEF InUse
    <3>3. Dead(hand[q]) => Dead(hand[q])'
      BY Zenon, <1>1, <1>4, <3>1, <3>2 DEF Dead, Tombed
    <3>4. Current(ses[q], hand[q]) => Current(ses[q], hand[q])' \/ expired'[ses[q]]
      BY Zenon, <3>1 DEF Current
    <3> QED
      BY <1>2, <3>3, <3>4, Zenon DEF ReadRely
  <2> QED
    BY <2>0, <2>1, <2>2, <2>3, <2>4, Zenon DEF Rely
<1>6. Shared'
  <2>1. SessionCap'
    <3>1. Cardinality(LiveSessions) <= Cap
      BY Zenon, <1>0 DEF Shared, SessionCap
    <3> QED
      BY Zenon, <1>3, <3>1, StillCapped DEF SessionCap
  <2>2. ExpiredUncached'
    BY Zenon DEF ExpiredUncached
  <2>3. CachedIsCurrent'
    <3> SUFFICES ASSUME faults = 0, NEW t \in Tokens, NEW s \in Sessions, cache'[t] = s
                 PROVE  (row'[s] = "live" /\ tok[s] = t) \/ t \in orphans \/ Pending(t)'
      BY Zenon DEF CachedIsCurrent
    <3>1. cache[t] = s /\ ~expired'[s]
      BY Zenon, Ranges
    <3> QED
      BY Zenon, <1>0, <1>1, <3>1 DEF Shared, CachedIsCurrent
  <2>4. InactiveNotCached'
    <3> SUFFICES ASSUME faults = 0, Closed', NEW t \in Tokens, cache'[t] \in Sessions
                 PROVE  t \in orphans \/ Pending(t)'
      BY Zenon DEF InactiveNotCached, Closed
    <3>1. cache[t] \in Sessions
      BY Zenon, Ranges
    <3> QED
      BY Zenon, <1>0, <1>1, <1>2, <3>1 DEF Shared, InactiveNotCached, Closed
  <2> QED
    BY <2>1, <2>2, <2>3, <2>4, Zenon DEF Shared
<1> QED
  BY Zenon, <1>5, <1>6, EnvIInv

LEMMA ExpireIInv == ASSUME IInv, NEW s \in Sessions, Expire(s) PROVE IInv'
<1>0. TypeOK /\ ExpiredUncached
  BY Zenon DEF IInv, Shared
<1>a. RowTypes /\ RestTypes /\ LocalTypes
  BY Zenon, <1>0, Types
<1>1. /\ expired'[s] = TRUE
      /\ \A u \in Sessions \ {s} : expired'[u] = expired[u]
  BY Zenon, <1>a DEF Expire, RowTypes
<1>2. \A t \in Tokens : cache'[t] = IF cache[t] = s THEN 0 ELSE cache[t]
  BY Zenon DEF Expire
<1>3. TypeOK'
  <2>1. expired' \in [Sessions -> BOOLEAN]
    BY Zenon, <1>a DEF Expire, RowTypes
  <2>2. cache' \in [Tokens -> 0..NSess + 1]
    BY Zenon, <1>a, Ranges DEF Expire, RestTypes
  <2>3. RowTypes'
    BY <1>a, <2>1, Zenon DEF Expire, RowTypes
  <2>4. RestTypes'
    BY <1>a, <2>2, Zenon DEF Expire, RestTypes
  <2>5. LocalTypes'
    BY <1>a, Zenon DEF Expire, LocalTypes, local
  <2> QED
    BY Zenon, <2>3, <2>4, <2>5, TypesNext
<1>4. \A t \in Tokens : cache'[t] = cache[t] \/ (cache'[t] = 0 /\ ~(Tombed(t) /\ InUse(t)))
  BY Zenon, <1>2, Ranges DEF Tombed
<1>5. \A u \in Sessions, t \in Tokens : expired'[u] => cache'[t] # u
  <2> SUFFICES ASSUME NEW u \in Sessions, NEW t \in Tokens, expired'[u]
               PROVE  cache'[t] # u
    BY Zenon
  <2>1. cache'[t] = 0 \/ (cache'[t] = cache[t] /\ cache[t] # s)
    BY Zenon, <1>2
  <2>2. u = s \/ cache[t] # u
    BY Zenon, <1>0, <1>1 DEF ExpiredUncached
  <2> QED
    BY Zenon, <2>1, <2>2, Ranges
<1>6. UNCHANGED <<op, pc, ses, hand, sec, pick, pend, row, tok, ref, prev, grace, active, lock, minted, orphans, faults>>
  BY Zenon DEF Expire, local
<1> QED
  BY Zenon, <1>1, <1>3, <1>4, <1>5, <1>6, EnvStep

LEMMA GraceEndsIInv == ASSUME IInv, NEW s \in Sessions, GraceEnds(s) PROVE IInv'
<1>0. TypeOK /\ ExpiredUncached
  BY Zenon DEF IInv, Shared
<1>a. RowTypes /\ RestTypes /\ LocalTypes
  BY Zenon, <1>0, Types
<1>1. UNCHANGED <<op, pc, ses, hand, sec, pick, pend, row, expired, tok, ref, prev, cache, active, lock, minted, orphans, faults>>
  BY Zenon DEF GraceEnds, local
<1>2. grace' \in [Sessions -> BOOLEAN] /\ \A u \in Sessions : grace'[u] => grace[u]
  BY Zenon, <1>a DEF GraceEnds, RowTypes
<1>3. TypeOK'
  <2>1. RowTypes'
    BY <1>a, <1>1, <1>2, Zenon DEF RowTypes
  <2>2. RestTypes' /\ LocalTypes'
    BY <1>a, <1>1, Zenon DEF RestTypes, LocalTypes
  <2> QED
    BY Zenon, <2>1, <2>2, TypesNext
<1>4. \A u \in Sessions, t \in Tokens : expired'[u] => cache'[t] # u
  BY Zenon, <1>0, <1>1 DEF ExpiredUncached
<1> QED
  BY Zenon, <1>1, <1>2, <1>3, <1>4, EnvStep

LEMMA CleanupIInv == ASSUME IInv, NEW s \in Sessions, Cleanup(s) PROVE IInv'
<1>0. TypeOK /\ ExpiredUncached
  BY Zenon DEF IInv, Shared
<1>a. RowTypes /\ RestTypes /\ LocalTypes
  BY Zenon, <1>0, Types
<1>1. UNCHANGED <<op, pc, ses, hand, sec, pick, pend, expired, tok, ref, prev, grace, cache, active, lock, minted, orphans, faults>>
  BY Zenon DEF Cleanup, local
<1>2. /\ row' \in [Sessions -> {"absent", "live", "revoked", "purged"}]
      /\ \A u \in Sessions : row'[u] = row[u] \/ (row'[u] = "purged" /\ (row[u] = "live" => expired[u]))
  BY Zenon, <1>a DEF Cleanup, RowTypes, Present
<1>3. TypeOK'
  <2>1. RowTypes'
    BY <1>a, <1>1, <1>2, Zenon DEF RowTypes
  <2>2. RestTypes' /\ LocalTypes'
    BY <1>a, <1>1, Zenon DEF RestTypes, LocalTypes
  <2> QED
    BY Zenon, <2>1, <2>2, TypesNext
<1>4. \A u \in Sessions, t \in Tokens : expired'[u] => cache'[t] # u
  BY Zenon, <1>0, <1>1 DEF ExpiredUncached
<1> QED
  BY Zenon, <1>1, <1>2, <1>3, <1>4, EnvStep

LEMMA KeyExpiresIInv == ASSUME IInv, NEW k \in Tokens, KeyExpires(k) PROVE IInv'
<1>0. TypeOK /\ ExpiredUncached
  BY Zenon DEF IInv, Shared
<1>a. RowTypes /\ RestTypes /\ LocalTypes
  BY Zenon, <1>0, Types
<1>1. UNCHANGED <<op, pc, ses, hand, sec, pick, pend, row, expired, tok, ref, prev, grace, active, lock, minted, orphans, faults>>
  BY Zenon DEF KeyExpires, local, rows
<1>2. /\ cache' \in [Tokens -> 0..NSess + 1]
      /\ \A t \in Tokens : cache'[t] = IF t = k THEN 0 ELSE cache[t]
  BY Zenon, <1>a, Ranges DEF KeyExpires, RestTypes
<1>3. TypeOK'
  <2>1. RestTypes'
    BY <1>a, <1>1, <1>2, Zenon DEF RestTypes
  <2>2. RowTypes' /\ LocalTypes'
    BY <1>a, <1>1, Zenon DEF RowTypes, LocalTypes
  <2> QED
    BY Zenon, <2>1, <2>2, TypesNext
<1>4. \A u \in Sessions, t \in Tokens : expired'[u] => cache'[t] # u
  BY Zenon, <1>0, <1>1, <1>2, Ranges DEF ExpiredUncached
<1>5. \A t \in Tokens : cache'[t] = cache[t] \/ (cache'[t] = 0 /\ ~(Tombed(t) /\ InUse(t)))
  <2>1. ~(Tombed(k) /\ InUse(k))
    BY Zenon, Ranges DEF KeyExpires, Tombed
  <2> QED
    BY Zenon, <1>2, <2>1
<1> QED
  BY Zenon, <1>1, <1>3, <1>4, <1>5, EnvStep

LEMMA ReactivateIInv == ASSUME IInv, Reactivate PROVE IInv'
<1>0. TypeOK /\ ExpiredUncached
  BY Zenon DEF IInv, Shared
<1>a. RowTypes /\ RestTypes /\ LocalTypes
  BY Zenon, <1>0, Types
<1>1. UNCHANGED <<op, pc, ses, hand, sec, pick, pend, row, expired, tok, ref, prev, grace, cache, lock, minted, orphans, faults>>
  BY Zenon DEF Reactivate, local, rows
<1>2. active' = TRUE
  BY Zenon DEF Reactivate
<1>3. TypeOK'
  <2>1. RestTypes'
    BY Zenon, <1>a, <1>1, <1>2 DEF RestTypes
  <2>2. RowTypes' /\ LocalTypes'
    BY <1>a, <1>1, Zenon DEF RowTypes, LocalTypes
  <2> QED
    BY Zenon, <2>1, <2>2, TypesNext
<1>4. \A u \in Sessions, t \in Tokens : expired'[u] => cache'[t] # u
  BY Zenon, <1>0, <1>1 DEF ExpiredUncached
<1> QED
  BY Zenon, <1>1, <1>2, <1>3, <1>4, EnvStep

LEMMA CrashIInv == ASSUME IInv, NEW p \in Proc, Crash(p) PROVE IInv'
<1>0. TypeOK /\ (\A q \in Proc : Own(q)) /\ Shared
  BY Zenon DEF IInv
<1>a. RowTypes /\ RestTypes
  BY Zenon, <1>0, Types
<1>u. UNCHANGED <<row, expired, tok, ref, prev, grace, cache, active, minted, orphans>> /\ Unlock(p) /\ Reset(p) /\ Fault
  BY Zenon DEF Crash, rows
<1>m. minted' \in Nat /\ minted \in Nat
  BY <1>a, <1>u, BoundsAssumption DEF RestTypes
<1>r. Own(p)' /\ LocalTypes' /\ \A q \in Proc \ {p} : SameLocals(q)
  BY Zenon, <1>0, <1>m, <1>u, ResetOwn
<1>f. faults' \in 0..MaxFaults /\ faults' # 0
  BY Zenon, <1>a, <1>u, FaultRange DEF RestTypes
<1>1. TypeOK'
  <2>1. lock' \in Proc \cup {None}
    BY Zenon, <1>a, <1>u DEF RestTypes, Unlock
  <2>2. RestTypes'
    BY <1>a, <1>f, <1>u, <2>1, Zenon DEF RestTypes
  <2>3. RowTypes'
    BY <1>a, <1>u, Zenon DEF RowTypes
  <2> QED
    BY Zenon, <1>r, <2>2, <2>3, TypesNext
<1>2. ASSUME NEW q \in Proc \ {p} PROVE SameLocals(q) /\ Rely(q)
  <2>1. RowsRely(q)
    <3>1. LoggingIn(q) => lock' = lock
      BY Zenon, <1>0, <1>u DEF Own, Locks, Unlock
    <3> QED
      BY Zenon, <1>u, <3>1 DEF RowsRely, LiveSessions
  <2>2. SecretRely
    BY <1>m, <1>u DEF SecretRely
  <2>3. CacheRely(q) /\ ReadRely(q)
    BY Zenon, <1>f, <1>u DEF CacheRely, ReadRely
  <2> QED
    BY <1>r, <2>1, <2>2, <2>3, Zenon DEF Rely
<1>3. Shared'
  <2>1. SessionCap' /\ ExpiredUncached'
    BY <1>0, <1>u, Zenon DEF Shared, SessionCap, LiveSessions, ExpiredUncached
  <2>2. CachedIsCurrent' /\ InactiveNotCached'
    BY Zenon, <1>f DEF CachedIsCurrent, InactiveNotCached
  <2> QED
    BY <2>1, <2>2, Zenon DEF Shared
<1> QED
  BY Zenon, <1>1, <1>2, <1>3, <1>r, StepIInv

LEMMA VerifyStoreIInv == ASSUME IInv, NEW p \in Proc, VerifyStore(p) PROVE IInv'
<1>0. TypeOK /\ (\A q \in Proc : Own(q)) /\ Shared
  BY Zenon DEF IInv
<1>a. RowTypes /\ RestTypes
  BY Zenon, <1>0, Types
<1>u. /\ UNCHANGED <<row, expired, tok, ref, prev, grace, active, lock, minted, orphans, faults>>
      /\ Reset(p) /\ pc[p] = "store"
  BY Zenon DEF VerifyStore, rows
<1>m. minted' \in Nat /\ minted \in Nat
  BY <1>a, <1>u, BoundsAssumption DEF RestTypes
<1>r. Own(p)' /\ LocalTypes' /\ pc'[p] = "idle" /\ \A q \in Proc \ {p} : SameLocals(q)
  BY Zenon, <1>0, <1>m, <1>u, ResetOwn
<1>h. hand[p] \in Tokens /\ ses[p] \in Sessions /\ pend[p] = {}
  BY Zenon, <1>0, <1>u DEF Own, HandKnown, PendLate
<1>c. /\ \A t \in Tokens \ {hand[p]} : cache'[t] = cache[t]
      /\ \/ cache'[hand[p]] = cache[hand[p]]
         \/ cache[hand[p]] = 0 /\ ~expired[ses[p]] /\ cache'[hand[p]] = ses[p]
  BY Zenon, <1>a, <1>h DEF VerifyStore, Store, RestTypes
<1>1. TypeOK'
  <2>1. Store(hand[p], ses[p]) \in 0..NSess + 1
    BY Zenon, <1>a, <1>h, Ranges DEF Store, RestTypes
  <2>2. cache' \in [Tokens -> 0..NSess + 1]
    BY Zenon, <1>a, <2>1 DEF RestTypes, VerifyStore
  <2>3. RestTypes'
    BY <1>a, <1>u, <2>2, Zenon DEF RestTypes
  <2>4. RowTypes'
    BY <1>a, <1>u, Zenon DEF RowTypes
  <2> QED
    BY Zenon, <1>r, <2>3, <2>4, TypesNext
<1>2. Closed' => Closed
  BY Zenon, <1>r, <1>u DEF Closed, SameLocals
<1>3. \A t : Pending(t) => Pending(t)'
  BY Zenon, <1>h, <1>r DEF Pending, SameLocals
<1>d. \A t \in Tokens : Tombed(t) => Tombed(t)'
  BY Zenon, <1>c, Ranges DEF Tombed
<1>4. \A t \in Tokens : Dead(t) => Dead(t)'
  BY Zenon, <1>3, <1>d, <1>u DEF Dead, Tombed
<1>5. ASSUME NEW q \in Proc \ {p} PROVE SameLocals(q) /\ Rely(q)
  <2>0. SameLocals(q)
    BY Zenon, <1>r
  <2>1. RowsRely(q)
    BY Zenon, <1>u DEF RowsRely, LiveSessions
  <2>2. SecretRely
    BY <1>m, <1>u DEF SecretRely
  <2>3. CacheRely(q)
    BY <1>d, <1>u, Zenon DEF CacheRely
  <2>4. ReadRely(q)
    <3>1. hand'[q] = hand[q] /\ ses'[q] = ses[q]
      BY Zenon, <2>0 DEF SameLocals
    <3>2. pc[q] \in {"status", "store"} => hand[q] \in Tokens
      BY Zenon, <1>0 DEF Own, HandKnown
    <3>3. pc[q] \in {"status", "store"} /\ Dead(hand[q]) => Dead(hand[q])'
      BY Zenon, <1>4, <3>1, <3>2
    <3>4. Current(ses[q], hand[q]) => Current(ses[q], hand[q])'
      BY Zenon, <1>u, <3>1 DEF Current
    <3> QED
      BY <1>2, <3>3, <3>4, Zenon DEF ReadRely
  <2> QED
    BY <2>0, <2>1, <2>2, <2>3, <2>4, Zenon DEF Rely
<1>6. Shared'
  <2>1. SessionCap'
    BY <1>0, <1>u, Zenon DEF Shared, SessionCap, LiveSessions
  <2>2. ExpiredUncached'
    BY <1>0, <1>c, <1>h, <1>u DEF Shared, ExpiredUncached
  <2>3. CachedIsCurrent'
    <3> SUFFICES ASSUME faults = 0, NEW t \in Tokens, NEW s \in Sessions, cache'[t] = s
                 PROVE  Current(s, t) \/ t \in orphans \/ Pending(t)
      BY Zenon, <1>3, <1>u DEF CachedIsCurrent, Current
    <3>1. CASE cache[t] = s
      BY Zenon, <1>0, <3>1 DEF Shared, CachedIsCurrent, Current
    <3>2. CASE cache[t] # s
      <4>1. t = hand[p] /\ s = ses[p] /\ cache[t] = 0 /\ ~expired[s]
        BY Zenon, <1>c, <3>2
      <4>2. Current(s, t) \/ Dead(t)
        BY Zenon, <1>0, <1>u, <4>1 DEF Own, ReadStands
      <4> QED
        BY Zenon, <4>1, <4>2, Ranges DEF Dead, Tombed
    <3> QED
      BY Zenon, <3>1, <3>2
  <2>4. InactiveNotCached'
    <3> SUFFICES ASSUME faults = 0, Closed', NEW t \in Tokens, cache'[t] \in Sessions
                 PROVE  t \in orphans \/ Pending(t)
      BY Zenon, <1>3, <1>u DEF InactiveNotCached, Closed
    <3>1. CASE cache[t] \in Sessions
      BY Zenon, <1>0, <1>2, <3>1 DEF Shared, InactiveNotCached, Closed
    <3>2. CASE cache[t] \notin Sessions
      <4>1. t = hand[p] /\ cache[t] = 0 /\ ~expired[ses[p]]
        BY Zenon, <1>c, <3>2
      <4>2. Dead(t)
        BY Zenon, <1>0, <1>2, <1>u, <4>1 DEF Own, ReadVoid
      <4> QED
        BY Zenon, <4>1, <4>2, Ranges DEF Dead, Tombed
    <3> QED
      BY Zenon, <3>1, <3>2
  <2> QED
    BY <2>1, <2>2, <2>3, <2>4, Zenon DEF Shared
<1> QED
  BY Zenon, <1>1, <1>5, <1>6, <1>r, StepIInv

-----------------------------------------------------------------------------
(* The actions.  A request writes some of its own state. *)

Writes(p) ==
    /\ op' = [op EXCEPT ![p] = op'[p]] /\ pc' = [pc EXCEPT ![p] = pc'[p]]
    /\ ses' = [ses EXCEPT ![p] = ses'[p]] /\ hand' = [hand EXCEPT ![p] = hand'[p]]
    /\ sec' = [sec EXCEPT ![p] = sec'[p]]
    /\ pick' = [pick EXCEPT ![p] = pick'[p]] /\ pend' = [pend EXCEPT ![p] = pend'[p]]

LocalTyped(p) ==
    /\ op[p] \in Ops /\ pc[p] \in Steps /\ ses[p] \in 0..NSess /\ hand[p] \in 0..MaxMint
    /\ sec[p] \in 0..MaxMint /\ pick[p] \in SUBSET Sessions /\ pend[p] \in SUBSET Tokens

LEMMA LocalWrite ==
    ASSUME TypeOK, NEW p \in Proc, Writes(p), LocalTyped(p)'
    PROVE  LocalTypes' /\ (\A q \in Proc \ {p} : SameLocals(q))
<1>1. LocalTypes
  BY Zenon, Types
<1>2. op' \in [Proc -> Ops] /\ \A q \in Proc \ {p} : op'[q] = op[q]
  BY Zenon, <1>1 DEF LocalTypes, LocalTyped, Writes
<1>3. pc' \in [Proc -> Steps] /\ \A q \in Proc \ {p} : pc'[q] = pc[q]
  BY Zenon, <1>1 DEF LocalTypes, LocalTyped, Writes
<1>4. ses' \in [Proc -> 0..NSess] /\ \A q \in Proc \ {p} : ses'[q] = ses[q]
  BY Zenon, <1>1 DEF LocalTypes, LocalTyped, Writes
<1>5. hand' \in [Proc -> 0..MaxMint] /\ \A q \in Proc \ {p} : hand'[q] = hand[q]
  BY Zenon, <1>1 DEF LocalTypes, LocalTyped, Writes
<1>6. sec' \in [Proc -> 0..MaxMint] /\ \A q \in Proc \ {p} : sec'[q] = sec[q]
  BY Zenon, <1>1 DEF LocalTypes, LocalTyped, Writes
<1>7. pick' \in [Proc -> SUBSET Sessions] /\ \A q \in Proc \ {p} : pick'[q] = pick[q]
  BY Zenon, <1>1 DEF LocalTypes, LocalTyped, Writes
<1>8. pend' \in [Proc -> SUBSET Tokens] /\ \A q \in Proc \ {p} : pend'[q] = pend[q]
  BY Zenon, <1>1 DEF LocalTypes, LocalTyped, Writes
<1>9. LocalTypes'
  BY <1>2, <1>3, <1>4, <1>5, <1>6, <1>7, <1>8, Zenon DEF LocalTypes
<1>10. \A q \in Proc \ {p} : SameLocals(q)
  BY <1>2, <1>3, <1>4, <1>5, <1>6, <1>7, <1>8, Zenon DEF SameLocals
<1> QED
  BY Zenon, <1>9, <1>10

LEMMA LocalRanges == ASSUME TypeOK, NEW p \in Proc PROVE LocalTyped(p)
  BY Zenon DEF TypeOK, LocalTyped

(* A request that holds no row. *)
LEMMA OwnLate ==
    ASSUME NEW p \in Proc, pc'[p] \notin {"select", "txpurge"}, pc'[p] # "revoke_all",
           SecretOld(p)', SessionKnown(p)', HandKnown(p)', PendLate(p)',
           SecretStale(p)', HandDead(p)', ReadStands(p)', ReadVoid(p)'
    PROVE  Own(p)'
<1>1. Locks(p)' /\ Room(p)'
  BY Zenon DEF Locks, Room, LoggingIn
<1>2. PickKnown(p)' /\ PickDead(p)'
  BY Zenon DEF PickKnown, PickDead
<1> QED
  BY <1>1, <1>2, Zenon DEF Own

LEMMA QuitIInv ==
    ASSUME IInv, NEW p \in Proc, Reset(p), pend[p] = {}, pc[p] # "revoke_all",
           UNCHANGED <<row, expired, tok, ref, prev, grace, cache, active, lock, orphans, faults>>,
           minted' = minted \/ (minted < MaxMint /\ minted' = minted + 1)
    PROVE  IInv'
<1>0. TypeOK
  BY Zenon DEF IInv
<1>1. minted' \in Nat /\ lock' \in Proc \cup {None} /\ active' \in BOOLEAN
  BY <1>0, BoundsAssumption DEF TypeOK
<1>2. Own(p)' /\ LocalTypes' /\ pc'[p] = "idle" /\ \A q \in Proc \ {p} : SameLocals(q)
  BY Zenon, <1>0, <1>1, ResetOwn
<1> QED
  BY Zenon, <1>1, <1>2, LocalStep

LEMMA TokensOfFact ==
    ASSUME NEW S \in SUBSET Sessions
    PROVE  TokensOf(S) \in SUBSET Tokens /\ \A s \in S : tok[s] \in Tokens => tok[s] \in TokensOf(S)
  BY Zenon DEF TokensOf

LEMMA LoginSelectIInv == ASSUME IInv, NEW p \in Proc, LoginSelect(p) PROVE IInv'
<1>0. TypeOK /\ Own(p)
  BY Zenon DEF IInv
<1>1. PICK S \in SUBSET Sessions : BeyondNewest(S) /\ pick' = [pick EXCEPT ![p] = S]
  BY Zenon DEF LoginSelect
<1>u. /\ UNCHANGED <<row, expired, tok, ref, prev, grace, cache, active, minted, ses, hand, sec, pend, orphans, faults>>
      /\ lock = None /\ lock' = p /\ pc[p] = "idle"
      /\ op' = [op EXCEPT ![p] = "login"] /\ pc' = [pc EXCEPT ![p] = "select"]
  BY Zenon DEF LoginSelect, Begin, Go, rows
<1>p. pend[p] = {}
  BY Zenon, <1>0, <1>u DEF Own, PendLate
<1>w. Writes(p) /\ LocalTyped(p)
  <2>1. Writes(p)
    BY Zenon, <1>0, <1>1, <1>u DEF Writes, TypeOK, Go
  <2> QED
    BY Zenon, <1>0, <2>1, LocalRanges
<1>s. "login" \in Ops /\ "select" \in Steps
  BY Zenon DEF Ops, Steps
<1>n. /\ op'[p] = "login" /\ pc'[p] = "select" /\ ses'[p] = ses[p] /\ hand'[p] = hand[p]
      /\ sec'[p] = sec[p] /\ pick'[p] = S /\ pend'[p] = pend[p]
  BY Zenon, <1>0, <1>1, <1>u DEF TypeOK, Go
<1>l. LocalTypes' /\ (\A q \in Proc \ {p} : SameLocals(q))
  <2>1. LocalTyped(p)'
    BY Zenon, <1>n, <1>s, <1>w DEF LocalTyped
  <2> QED
    BY Zenon, <1>0, <1>w, <2>1, LocalWrite
<1>o. Own(p)'
  <2>1. Locks(p)' /\ SessionKnown(p)' /\ SecretStale(p)' /\ HandKnown(p)' /\ PickKnown(p)' /\ PendLate(p)'
    BY Zenon, <1>n, <1>p, <1>u DEF Locks, SessionKnown, SecretStale, HandKnown, PickKnown, PendLate
  <2>2. PickDead(p)' /\ HandDead(p)' /\ ReadStands(p)' /\ ReadVoid(p)'
    BY Zenon, <1>n DEF PickDead, HandDead, ReadStands, ReadVoid
  <2>3. SecretOld(p)'
    BY Zenon, <1>0, <1>n, <1>u DEF Own, SecretOld
  <2>4. Room(p)'
    BY Zenon, <1>1, <1>n, <1>u DEF Room, BeyondNewest, LiveSessions
  <2> QED
    BY <2>1, <2>2, <2>3, <2>4, Zenon DEF Own
<1>t. lock' \in Proc \cup {None} /\ active' \in BOOLEAN
  BY Zenon, <1>0, <1>u DEF TypeOK
<1> QED
  BY Zenon, <1>l, <1>n, <1>o, <1>t, <1>u, LocalStep

LEMMA LoginUpdateIInv == ASSUME IInv, NEW p \in Proc, LoginUpdate(p) PROVE IInv'
<1>0. TypeOK /\ Own(p)
  BY Zenon DEF IInv
<1>u. /\ UNCHANGED <<row, expired, tok, ref, prev, grace, cache, active, lock, minted, op, ses, hand, sec, orphans, faults>>
      /\ pc[p] = "select" /\ pc' = [pc EXCEPT ![p] = "txpurge"]
      /\ pick' = [pick EXCEPT ![p] = Evicted(p)] /\ pend' = [pend EXCEPT ![p] = TokensOf(Evicted(p))]
  BY Zenon DEF LoginUpdate, Go, rows
<1>p. pend[p] = {}
  BY Zenon, <1>0, <1>u DEF Own, PendLate
<1>e. Evicted(p) \in SUBSET Sessions /\ (\A s \in Evicted(p) : row[s] # "absent")
  BY Zenon, <1>0 DEF TypeOK, Evicted, Present
<1>v. TokensOf(Evicted(p)) \in SUBSET Tokens /\ \A s \in Evicted(p) : tok[s] \in Tokens => tok[s] \in TokensOf(Evicted(p))
  BY Zenon, <1>e, TokensOfFact
<1>w. Writes(p) /\ LocalTyped(p)
  <2>1. Writes(p)
    BY Zenon, <1>0, <1>u DEF Writes, TypeOK, Go
  <2> QED
    BY Zenon, <1>0, <2>1, LocalRanges
<1>s. "txpurge" \in Steps
  BY Zenon DEF Steps
<1>n. /\ op'[p] = op[p] /\ pc'[p] = "txpurge" /\ ses'[p] = ses[p] /\ hand'[p] = hand[p]
      /\ sec'[p] = sec[p] /\ pick'[p] = Evicted(p) /\ pend'[p] = TokensOf(Evicted(p))
  BY Zenon, <1>0, <1>u DEF TypeOK, Go
<1>l. LocalTypes' /\ (\A q \in Proc \ {p} : SameLocals(q))
  <2>1. LocalTyped(p)'
    BY Zenon, <1>n, <1>s, <1>w, <1>e, <1>v DEF LocalTyped
  <2> QED
    BY Zenon, <1>0, <1>w, <2>1, LocalWrite
<1>o. Own(p)'
  <2>1. Locks(p)' /\ SecretStale(p)' /\ HandKnown(p)' /\ PendLate(p)'
    BY Zenon, <1>0, <1>n, <1>u DEF Own, Locks, LoggingIn, SecretStale, HandKnown, PendLate
  <2>2. HandDead(p)' /\ ReadStands(p)' /\ ReadVoid(p)'
    BY Zenon, <1>n DEF HandDead, ReadStands, ReadVoid
  <2>3. SecretOld(p)' /\ SessionKnown(p)'
    BY Zenon, <1>0, <1>n, <1>u DEF Own, SecretOld, SessionKnown
  <2>4. Room(p)'
    <3>1. LiveSessions' \ Evicted(p) = LiveSessions \ pick[p]
      BY Zenon, <1>u DEF LiveSessions, Evicted, Present
    <3>2. Cardinality(LiveSessions \ pick[p]) <= Cap - 1
      BY Zenon, <1>0, <1>u DEF Own, Room, LoggingIn
    <3> QED
      BY Zenon, <1>n, <3>1, <3>2 DEF Room
  <2>5. PickKnown(p)'
    BY Zenon, <1>e, <1>n, <1>u DEF PickKnown
  <2>6. PickDead(p)'
    BY Zenon, <1>n, <1>u, <1>v DEF PickDead
  <2> QED
    BY <2>1, <2>2, <2>3, <2>4, <2>5, <2>6, Zenon DEF Own
<1>t. lock' \in Proc \cup {None} /\ active' \in BOOLEAN
  BY Zenon, <1>0, <1>u DEF TypeOK
<1> QED
  BY Zenon, <1>l, <1>n, <1>o, <1>p, <1>t, <1>u, LocalStep

LEMMA InvalidateDoneIInv == ASSUME IInv, NEW p \in Proc, InvalidateDone(p) PROVE IInv'
  BY Zenon, QuitIInv DEF InvalidateDone, rows

LEMMA VerifyMissIInv == ASSUME IInv, NEW p \in Proc, NEW t \in Tokens, VerifyMiss(p, t) PROVE IInv'
<1>0. TypeOK /\ Own(p)
  BY Zenon DEF IInv
<1>u. /\ UNCHANGED <<row, expired, tok, ref, prev, grace, cache, active, lock, minted, ses, sec, pick, pend, orphans, faults>>
      /\ pc[p] = "idle" /\ op' = [op EXCEPT ![p] = "verify"] /\ pc' = [pc EXCEPT ![p] = "read"]
      /\ hand' = [hand EXCEPT ![p] = t]
  BY Zenon DEF VerifyMiss, Begin, Go, rows
<1>p. pend[p] = {}
  BY Zenon, <1>0, <1>u DEF Own, PendLate
<1>w. Writes(p) /\ LocalTyped(p)
  <2>1. Writes(p)
    BY Zenon, <1>0, <1>u DEF Writes, TypeOK, Go
  <2> QED
    BY Zenon, <1>0, <2>1, LocalRanges
<1>s. "verify" \in Ops /\ "read" \in Steps /\ t \in 0..MaxMint
  BY Zenon, Ranges DEF Ops, Steps
<1>n. /\ op'[p] = "verify" /\ pc'[p] = "read" /\ ses'[p] = ses[p] /\ hand'[p] = t
      /\ sec'[p] = sec[p] /\ pick'[p] = pick[p] /\ pend'[p] = pend[p]
  BY Zenon, <1>0, <1>u DEF TypeOK, Go
<1>l. LocalTypes' /\ (\A q \in Proc \ {p} : SameLocals(q))
  <2>1. LocalTyped(p)'
    BY Zenon, <1>n, <1>s, <1>w DEF LocalTyped
  <2> QED
    BY Zenon, <1>0, <1>w, <2>1, LocalWrite
<1>o. Own(p)'
  <2>1. SecretOld(p)'
    BY Zenon, <1>0, <1>n, <1>u DEF Own, SecretOld
  <2>2. SessionKnown(p)' /\ HandKnown(p)' /\ PendLate(p)'
    BY Zenon, <1>n, <1>p DEF SessionKnown, HandKnown, PendLate
  <2> QED
    BY Zenon, <1>n, <2>1, <2>2, OwnPlain
<1>t. lock' \in Proc \cup {None} /\ active' \in BOOLEAN
  BY Zenon, <1>0, <1>u DEF TypeOK
<1> QED
  BY Zenon, <1>l, <1>n, <1>o, <1>p, <1>t, <1>u, LocalStep

LEMMA VerifyReadIInv == ASSUME IInv, NEW p \in Proc, VerifyRead(p) PROVE IInv'
<1>0. TypeOK /\ Own(p)
  BY Zenon DEF IInv
<1>u. UNCHANGED <<row, expired, tok, ref, prev, grace, cache, active, lock, minted, orphans, faults>> /\ pc[p] = "read"
  BY Zenon DEF VerifyRead, rows
<1>p. pend[p] = {} /\ hand[p] \in Tokens
  BY Zenon, <1>0, <1>u DEF Own, PendLate, HandKnown
<1>1. CASE Reset(p)
  BY Zenon, <1>1, <1>p, <1>u, QuitIInv
<1>2. ASSUME NEW s \in LiveSessions, tok[s] = hand[p], ses' = [ses EXCEPT ![p] = s],
             Go(p, "status"), UNCHANGED <<op, hand, sec, pick, pend>>
      PROVE  IInv'
  <2>w. Writes(p) /\ LocalTyped(p)
    <3>1. Writes(p)
      BY Zenon, <1>0, <1>2 DEF Writes, TypeOK, Go
    <3> QED
      BY Zenon, <1>0, <3>1, LocalRanges
  <2>s. "status" \in Steps /\ s \in Sessions /\ s \in 0..NSess /\ row[s] = "live"
    BY Zenon, Ranges DEF Steps, LiveSessions
  <2>n. /\ op'[p] = op[p] /\ pc'[p] = "status" /\ ses'[p] = s /\ hand'[p] = hand[p]
        /\ sec'[p] = sec[p] /\ pick'[p] = pick[p] /\ pend'[p] = pend[p]
    BY Zenon, <1>0, <1>2 DEF TypeOK, Go
  <2>l. LocalTypes' /\ (\A q \in Proc \ {p} : SameLocals(q))
    <3>1. LocalTyped(p)'
      BY Zenon, <2>n, <2>s, <2>w DEF LocalTyped
    <3> QED
      BY Zenon, <1>0, <2>w, <3>1, LocalWrite
  <2>o. Own(p)'
    <3>1. SecretOld(p)'
      BY Zenon, <1>0, <1>u, <2>n DEF Own, SecretOld
    <3>2. SessionKnown(p)' /\ HandKnown(p)' /\ PendLate(p)'
      BY Zenon, <1>p, <1>u, <2>n, <2>s DEF SessionKnown, HandKnown, PendLate
    <3>3. SecretStale(p)' /\ HandDead(p)' /\ ReadVoid(p)'
      BY Zenon, <2>n DEF SecretStale, HandDead, ReadVoid
    <3>4. ReadStands(p)'
      BY Zenon, <1>2, <1>u, <2>n, <2>s DEF ReadStands, Current
    <3> QED
      BY Zenon, <2>n, <3>1, <3>2, <3>3, <3>4, OwnLate
  <2>t. lock' \in Proc \cup {None} /\ active' \in BOOLEAN
    BY Zenon, <1>0, <1>u DEF TypeOK
  <2> QED
    BY Zenon, <1>p, <1>u, <2>l, <2>n, <2>o, <2>t, LocalStep
<1> QED
  BY Zenon, <1>1, <1>2 DEF VerifyRead

LEMMA VerifyStatusIInv == ASSUME IInv, NEW p \in Proc, VerifyStatus(p) PROVE IInv'
<1>0. TypeOK /\ Own(p)
  BY Zenon DEF IInv
<1>u. UNCHANGED <<row, expired, tok, ref, prev, grace, cache, active, lock, minted, orphans, faults>> /\ pc[p] = "status"
  BY Zenon DEF VerifyStatus, rows
<1>p. pend[p] = {} /\ hand[p] \in Tokens /\ ses[p] \in Sessions
  BY Zenon, <1>0, <1>u DEF Own, PendLate, HandKnown
<1>1. CASE Reset(p)
  BY Zenon, <1>1, <1>p, <1>u, QuitIInv
<1>2. ASSUME active, Go(p, "store"), UNCHANGED <<op, ses, hand, sec, pick, pend>>
      PROVE  IInv'
  <2>w. Writes(p) /\ LocalTyped(p)
    <3>1. Writes(p)
      BY Zenon, <1>0, <1>2 DEF Writes, TypeOK, Go
    <3> QED
      BY Zenon, <1>0, <3>1, LocalRanges
  <2>s. "store" \in Steps
    BY Zenon DEF Steps
  <2>n. /\ op'[p] = op[p] /\ pc'[p] = "store" /\ ses'[p] = ses[p] /\ hand'[p] = hand[p]
        /\ sec'[p] = sec[p] /\ pick'[p] = pick[p] /\ pend'[p] = pend[p]
    BY Zenon, <1>0, <1>2 DEF TypeOK, Go
  <2>l. LocalTypes' /\ (\A q \in Proc \ {p} : SameLocals(q))
    <3>1. LocalTyped(p)'
      BY Zenon, <2>n, <2>s, <2>w DEF LocalTyped
    <3> QED
      BY Zenon, <1>0, <2>w, <3>1, LocalWrite
  <2>o. Own(p)'
    <3>1. SecretOld(p)' /\ SessionKnown(p)'
      BY Zenon, <1>0, <1>u, <2>n DEF Own, SecretOld, SessionKnown
    <3>2. HandKnown(p)' /\ PendLate(p)'
      BY Zenon, <1>p, <1>u, <2>n DEF HandKnown, PendLate
    <3>3. SecretStale(p)' /\ HandDead(p)'
      BY Zenon, <2>n DEF SecretStale, HandDead
    <3>4. ReadVoid(p)'
      BY Zenon, <1>2, <1>u DEF ReadVoid, Closed
    <3>5. ReadStands(p)'
      <4>1. faults = 0 => Current(ses[p], hand[p]) \/ Dead(hand[p]) \/ expired[ses[p]]
        BY Zenon, <1>0, <1>u DEF Own, ReadStands
      <4>2. \A t : Dead(t) => t \in orphans' \/ Pending(t)' \/ cache'[t] = Tombstone
        BY Zenon, <1>2, <1>u DEF Dead, Pending, Tombed
      <4> QED
        BY Zenon, <1>u, <2>n, <4>1, <4>2 DEF ReadStands, Current, Dead, Tombed
    <3> QED
      BY Zenon, <2>n, <3>1, <3>2, <3>3, <3>4, <3>5, OwnLate
  <2>t. lock' \in Proc \cup {None} /\ active' \in BOOLEAN
    BY Zenon, <1>0, <1>u DEF TypeOK
  <2> QED
    BY Zenon, <1>p, <1>u, <2>l, <2>n, <2>o, <2>t, LocalStep
<1> QED
  BY Zenon, <1>1, <1>2 DEF VerifyStatus

LEMMA RevokeAllIInv == ASSUME IInv, NEW p \in Proc, RevokeAll(p) PROVE IInv'
<1>0. TypeOK /\ Own(p)
  BY Zenon DEF IInv
<1>u. /\ UNCHANGED <<row, expired, tok, ref, prev, grace, cache, active, lock, minted, ses, hand, sec, pick, pend, orphans, faults>>
      /\ pc[p] = "idle" /\ op' = [op EXCEPT ![p] = "revoke"] /\ pc' = [pc EXCEPT ![p] = "revoke_all"]
  BY Zenon DEF RevokeAll, Begin, Go, rows
<1>p. pend[p] = {}
  BY Zenon, <1>0, <1>u DEF Own, PendLate
<1>w. Writes(p) /\ LocalTyped(p)
  <2>1. Writes(p)
    BY Zenon, <1>0, <1>u DEF Writes, TypeOK
  <2> QED
    BY Zenon, <1>0, <2>1, LocalRanges
<1>s. "revoke" \in Ops /\ "revoke_all" \in Steps
  BY Zenon DEF Ops, Steps
<1>n. /\ op'[p] = "revoke" /\ pc'[p] = "revoke_all" /\ ses'[p] = ses[p] /\ hand'[p] = hand[p]
      /\ sec'[p] = sec[p] /\ pick'[p] = pick[p] /\ pend'[p] = pend[p]
  BY Zenon, <1>0, <1>u DEF TypeOK
<1>l. LocalTypes' /\ (\A q \in Proc \ {p} : SameLocals(q))
  <2>1. LocalTyped(p)'
    BY Zenon, <1>n, <1>s, <1>w DEF LocalTyped
  <2> QED
    BY Zenon, <1>0, <1>w, <2>1, LocalWrite
<1>o. Own(p)'
  <2>1. SecretOld(p)'
    BY Zenon, <1>0, <1>n, <1>u DEF Own, SecretOld
  <2>2. SessionKnown(p)' /\ HandKnown(p)' /\ PendLate(p)'
    BY Zenon, <1>n, <1>p DEF SessionKnown, HandKnown, PendLate
  <2> QED
    BY Zenon, <1>n, <2>1, <2>2, OwnPlain
<1>t. lock' \in Proc \cup {None} /\ active' \in BOOLEAN
  BY Zenon, <1>0, <1>u DEF TypeOK
<1> QED
  BY Zenon, <1>l, <1>n, <1>o, <1>p, <1>t, <1>u, LocalStep

LEMMA DeactivateIInv == ASSUME IInv, NEW p \in Proc, Deactivate(p) PROVE IInv'
<1>0. TypeOK /\ Own(p)
  BY Zenon DEF IInv
<1>u. /\ UNCHANGED <<row, expired, tok, ref, prev, grace, cache, lock, minted, ses, hand, sec, pick, pend, orphans, faults>>
      /\ active' = FALSE /\ pc[p] = "idle" /\ op' = [op EXCEPT ![p] = "revoke"] /\ pc' = [pc EXCEPT ![p] = "revoke_all"]
  BY Zenon DEF Deactivate, Begin, Go, rows
<1>p. pend[p] = {}
  BY Zenon, <1>0, <1>u DEF Own, PendLate
<1>w. Writes(p) /\ LocalTyped(p)
  <2>1. Writes(p)
    BY Zenon, <1>0, <1>u DEF Writes, TypeOK
  <2> QED
    BY Zenon, <1>0, <2>1, LocalRanges
<1>s. "revoke" \in Ops /\ "revoke_all" \in Steps
  BY Zenon DEF Ops, Steps
<1>n. /\ op'[p] = "revoke" /\ pc'[p] = "revoke_all" /\ ses'[p] = ses[p] /\ hand'[p] = hand[p]
      /\ sec'[p] = sec[p] /\ pick'[p] = pick[p] /\ pend'[p] = pend[p]
  BY Zenon, <1>0, <1>u DEF TypeOK
<1>l. LocalTypes' /\ (\A q \in Proc \ {p} : SameLocals(q))
  <2>1. LocalTyped(p)'
    BY Zenon, <1>n, <1>s, <1>w DEF LocalTyped
  <2> QED
    BY Zenon, <1>0, <1>w, <2>1, LocalWrite
<1>o. Own(p)'
  <2>1. SecretOld(p)'
    BY Zenon, <1>0, <1>n, <1>u DEF Own, SecretOld
  <2>2. SessionKnown(p)' /\ HandKnown(p)' /\ PendLate(p)'
    BY Zenon, <1>n, <1>p DEF SessionKnown, HandKnown, PendLate
  <2> QED
    BY Zenon, <1>n, <2>1, <2>2, OwnPlain
<1>t. lock' \in Proc \cup {None} /\ active' \in BOOLEAN
  BY Zenon, <1>0, <1>u DEF TypeOK
<1> QED
  BY Zenon, <1>l, <1>n, <1>o, <1>p, <1>t, <1>u, LocalStep

LEMMA PasswordUpdateIInv == ASSUME IInv, NEW p \in Proc, NEW t \in 0..MaxMint, PasswordUpdate(p, t) PROVE IInv'
<1> DEFINE S == {s \in NotRevoked : tok[s] # t}
<1>0. TypeOK /\ Own(p)
  BY Zenon DEF IInv
<1>u. /\ UNCHANGED <<row, expired, tok, ref, prev, grace, cache, active, lock, minted, ses, hand, sec, orphans, faults>>
      /\ pc[p] = "idle" /\ op' = [op EXCEPT ![p] = "password"] /\ pc' = [pc EXCEPT ![p] = "txpurge"]
      /\ pick' = [pick EXCEPT ![p] = S] /\ pend' = [pend EXCEPT ![p] = TokensOf(S)]
  BY Zenon DEF PasswordUpdate, Begin, Go, rows
<1>p. pend[p] = {}
  BY Zenon, <1>0, <1>u DEF Own, PendLate
<1>e. /\ S \in SUBSET Sessions /\ (\A s \in S : row[s] # "absent") /\ TokensOf(S) \in SUBSET Tokens
      /\ \A s \in S : tok[s] \in Tokens => tok[s] \in TokensOf(S)
  BY Zenon, TokensOfFact DEF NotRevoked
<1> HIDE DEF S
<1>w. Writes(p) /\ LocalTyped(p)
  <2>1. Writes(p)
    BY Zenon, <1>0, <1>u DEF Writes, TypeOK
  <2> QED
    BY Zenon, <1>0, <2>1, LocalRanges
<1>s. "password" \in Ops /\ "txpurge" \in Steps
  BY Zenon DEF Ops, Steps
<1>n. /\ op'[p] = "password" /\ pc'[p] = "txpurge" /\ ses'[p] = ses[p] /\ hand'[p] = hand[p]
      /\ sec'[p] = sec[p] /\ pick'[p] = S /\ pend'[p] = TokensOf(S)
  BY Zenon, <1>0, <1>u DEF TypeOK
<1>l. LocalTypes' /\ (\A q \in Proc \ {p} : SameLocals(q))
  <2>1. LocalTyped(p)'
    BY Zenon, <1>n, <1>s, <1>e, <1>w DEF LocalTyped
  <2> QED
    BY Zenon, <1>0, <1>w, <2>1, LocalWrite
<1>o. Own(p)'
  <2>1. Locks(p)' /\ Room(p)' /\ SessionKnown(p)' /\ SecretStale(p)' /\ HandKnown(p)' /\ PendLate(p)'
    BY Zenon, <1>n DEF Locks, Room, LoggingIn, SessionKnown, SecretStale, HandKnown, PendLate
  <2>2. HandDead(p)' /\ ReadStands(p)' /\ ReadVoid(p)'
    BY Zenon, <1>n DEF HandDead, ReadStands, ReadVoid
  <2>3. SecretOld(p)'
    BY Zenon, <1>0, <1>n, <1>u DEF Own, SecretOld
  <2>4. PickKnown(p)'
    BY Zenon, <1>e, <1>n, <1>u DEF PickKnown
  <2>5. PickDead(p)'
    BY Zenon, <1>e, <1>n, <1>u DEF PickDead
  <2> QED
    BY <2>1, <2>2, <2>3, <2>4, <2>5, Zenon DEF Own
<1>t. lock' \in Proc \cup {None} /\ active' \in BOOLEAN
  BY Zenon, <1>0, <1>u DEF TypeOK
<1> QED
  BY Zenon, <1>l, <1>n, <1>o, <1>p, <1>t, <1>u, LocalStep

LEMMA RefreshIInv == ASSUME IInv, NEW p \in Proc, NEW s \in Sessions, NEW r \in Tokens, Refresh(p, s, r) PROVE IInv'
<1>0. TypeOK /\ Own(p)
  BY Zenon DEF IInv
<1>u. /\ UNCHANGED <<row, expired, tok, ref, prev, grace, cache, active, lock, minted, hand, pick, pend, orphans, faults>>
      /\ pc[p] = "idle" /\ op' = [op EXCEPT ![p] = "refresh"] /\ pc' = [pc EXCEPT ![p] = "find"]
      /\ ses' = [ses EXCEPT ![p] = s] /\ sec' = [sec EXCEPT ![p] = r] /\ row[s] # "absent" /\ r <= minted
  BY Zenon DEF Refresh, Begin, Go, rows, Present
<1>p. pend[p] = {}
  BY Zenon, <1>0, <1>u DEF Own, PendLate
<1>w. Writes(p) /\ LocalTyped(p)
  <2>1. Writes(p)
    BY Zenon, <1>0, <1>u DEF Writes, TypeOK
  <2> QED
    BY Zenon, <1>0, <2>1, LocalRanges
<1>s. "refresh" \in Ops /\ "find" \in Steps /\ s \in 0..NSess /\ r \in 0..MaxMint
  BY Zenon, Ranges DEF Ops, Steps
<1>n. /\ op'[p] = "refresh" /\ pc'[p] = "find" /\ ses'[p] = s /\ hand'[p] = hand[p]
      /\ sec'[p] = r /\ pick'[p] = pick[p] /\ pend'[p] = pend[p]
  BY Zenon, <1>0, <1>u DEF TypeOK
<1>l. LocalTypes' /\ (\A q \in Proc \ {p} : SameLocals(q))
  <2>1. LocalTyped(p)'
    BY Zenon, <1>n, <1>s, <1>w DEF LocalTyped
  <2> QED
    BY Zenon, <1>0, <1>w, <2>1, LocalWrite
<1>o. Own(p)'
  <2>1. SecretOld(p)'
    BY Zenon, <1>n, <1>u DEF SecretOld
  <2>2. SessionKnown(p)' /\ HandKnown(p)' /\ PendLate(p)'
    BY Zenon, <1>n, <1>p, <1>u DEF SessionKnown, HandKnown, PendLate
  <2> QED
    BY Zenon, <1>n, <2>1, <2>2, OwnPlain
<1>t. lock' \in Proc \cup {None} /\ active' \in BOOLEAN
  BY Zenon, <1>0, <1>u DEF TypeOK
<1> QED
  BY Zenon, <1>l, <1>n, <1>o, <1>p, <1>t, <1>u, LocalStep

LEMMA RebindIInv == ASSUME IInv, NEW p \in Proc, NEW s \in Sessions, Rebind(p, s) PROVE IInv'
<1>0. TypeOK /\ Own(p)
  BY Zenon DEF IInv
<1>u. /\ UNCHANGED <<row, expired, tok, ref, prev, grace, cache, active, lock, minted, hand, sec, pick, pend, orphans, faults>>
      /\ pc[p] = "idle" /\ op' = [op EXCEPT ![p] = "rebind"] /\ pc' = [pc EXCEPT ![p] = "find"]
      /\ ses' = [ses EXCEPT ![p] = s] /\ row[s] # "absent"
  BY Zenon DEF Rebind, Begin, Go, rows, Present
<1>p. pend[p] = {}
  BY Zenon, <1>0, <1>u DEF Own, PendLate
<1>w. Writes(p) /\ LocalTyped(p)
  <2>1. Writes(p)
    BY Zenon, <1>0, <1>u DEF Writes, TypeOK
  <2> QED
    BY Zenon, <1>0, <2>1, LocalRanges
<1>s. "rebind" \in Ops /\ "find" \in Steps /\ s \in 0..NSess
  BY Zenon, Ranges DEF Ops, Steps
<1>n. /\ op'[p] = "rebind" /\ pc'[p] = "find" /\ ses'[p] = s /\ hand'[p] = hand[p]
      /\ sec'[p] = sec[p] /\ pick'[p] = pick[p] /\ pend'[p] = pend[p]
  BY Zenon, <1>0, <1>u DEF TypeOK
<1>l. LocalTypes' /\ (\A q \in Proc \ {p} : SameLocals(q))
  <2>1. LocalTyped(p)'
    BY Zenon, <1>n, <1>s, <1>w DEF LocalTyped
  <2> QED
    BY Zenon, <1>0, <1>w, <2>1, LocalWrite
<1>o. Own(p)'
  <2>1. SecretOld(p)'
    BY Zenon, <1>0, <1>n, <1>u DEF Own, SecretOld
  <2>2. SessionKnown(p)' /\ HandKnown(p)' /\ PendLate(p)'
    BY Zenon, <1>n, <1>p, <1>u DEF SessionKnown, HandKnown, PendLate
  <2> QED
    BY Zenon, <1>n, <2>1, <2>2, OwnPlain
<1>t. lock' \in Proc \cup {None} /\ active' \in BOOLEAN
  BY Zenon, <1>0, <1>u DEF TypeOK
<1> QED
  BY Zenon, <1>l, <1>n, <1>o, <1>p, <1>t, <1>u, LocalStep

LEMMA FindIInv == ASSUME IInv, NEW p \in Proc, Find(p) PROVE IInv'
<1>0. TypeOK /\ Own(p)
  BY Zenon DEF IInv
<1>u. UNCHANGED <<row, expired, tok, ref, prev, grace, cache, active, lock, minted, orphans, faults>> /\ pc[p] = "find"
  BY Zenon DEF Find, rows
<1>p. pend[p] = {} /\ ses[p] \in Sessions
  BY Zenon, <1>0, <1>u DEF Own, PendLate, HandKnown
<1>s. "bust" \in Steps /\ "detect" \in Steps
  BY Zenon DEF Steps
<1>t. lock' \in Proc \cup {None} /\ active' \in BOOLEAN
  BY Zenon, <1>0, <1>u DEF TypeOK
<1>1. CASE Reset(p)
  BY Zenon, <1>1, <1>p, <1>u, QuitIInv
<1>2. ASSUME hand' = [hand EXCEPT ![p] = tok[ses[p]]], Go(p, "bust"), UNCHANGED <<op, ses, sec, pick, pend>>
      PROVE  IInv'
  <2>w. Writes(p)
    BY Zenon, <1>0, <1>2 DEF Writes, TypeOK, Go
  <2>n. /\ op'[p] = op[p] /\ pc'[p] = "bust" /\ ses'[p] = ses[p] /\ hand'[p] = tok[ses[p]]
        /\ sec'[p] = sec[p] /\ pick'[p] = pick[p] /\ pend'[p] = pend[p]
    BY Zenon, <1>0, <1>2 DEF TypeOK, Go
  <2>l. LocalTypes' /\ (\A q \in Proc \ {p} : SameLocals(q))
    <3>1. tok[ses[p]] \in 0..MaxMint
      BY Zenon, <1>0, <1>p DEF TypeOK
    <3>2. LocalTyped(p)'
      BY Zenon, <1>0, <1>s, <2>n, <3>1, LocalRanges DEF LocalTyped
    <3> QED
      BY Zenon, <1>0, <2>w, <3>2, LocalWrite
  <2>o. Own(p)'
    <3>1. SecretOld(p)' /\ SessionKnown(p)'
      BY Zenon, <1>0, <1>u, <2>n DEF Own, SecretOld, SessionKnown
    <3>2. HandKnown(p)' /\ PendLate(p)'
      BY Zenon, <1>p, <2>n DEF HandKnown, PendLate
    <3> QED
      BY Zenon, <2>n, <3>1, <3>2, OwnPlain
  <2> QED
    BY Zenon, <1>p, <1>t, <1>u, <2>l, <2>n, <2>o, LocalStep
<1>3. ASSUME row[ses[p]] # "live", Go(p, "detect"), UNCHANGED <<op, ses, hand, sec, pick, pend>>
      PROVE  IInv'
  <2>w. Writes(p)
    BY Zenon, <1>0, <1>3 DEF Writes, TypeOK, Go
  <2>n. /\ op'[p] = op[p] /\ pc'[p] = "detect" /\ ses'[p] = ses[p] /\ hand'[p] = hand[p]
        /\ sec'[p] = sec[p] /\ pick'[p] = pick[p] /\ pend'[p] = pend[p]
    BY Zenon, <1>0, <1>3 DEF TypeOK, Go
  <2>l. LocalTypes' /\ (\A q \in Proc \ {p} : SameLocals(q))
    <3>1. LocalTyped(p)'
      BY Zenon, <1>0, <1>s, <2>n, LocalRanges DEF LocalTyped
    <3> QED
      BY Zenon, <1>0, <2>w, <3>1, LocalWrite
  <2>o. Own(p)'
    <3>1. SecretOld(p)' /\ SessionKnown(p)'
      BY Zenon, <1>0, <1>u, <2>n DEF Own, SecretOld, SessionKnown
    <3>2. HandKnown(p)' /\ PendLate(p)'
      BY Zenon, <1>p, <2>n DEF HandKnown, PendLate
    <3>3. SecretStale(p)'
      BY Zenon, <1>3, <1>u, <2>n DEF SecretStale
    <3>4. HandDead(p)' /\ ReadStands(p)' /\ ReadVoid(p)'
      BY Zenon, <2>n DEF HandDead, ReadStands, ReadVoid
    <3> QED
      BY Zenon, <2>n, <3>1, <3>2, <3>3, <3>4, OwnLate
  <2> QED
    BY Zenon, <1>p, <1>t, <1>u, <2>l, <2>n, <2>o, LocalStep
<1> QED
  BY Zenon, <1>1, <1>2, <1>3 DEF Find

LEMMA RotateRefusedIInv == ASSUME IInv, NEW p \in Proc, RotateRefused(p) PROVE IInv'
<1>0. TypeOK /\ Own(p)
  BY Zenon DEF IInv
<1>u. /\ UNCHANGED <<row, expired, tok, ref, prev, grace, cache, active, lock, minted, op, ses, hand, sec, pick, pend, orphans, faults>>
      /\ pc[p] = "update" /\ op[p] = "refresh" /\ ~Rotatable(p) /\ pc' = [pc EXCEPT ![p] = "detect"]
  BY Zenon DEF RotateRefused, Go, rows
<1>p. pend[p] = {}
  BY Zenon, <1>0, <1>u DEF Own, PendLate
<1>w. Writes(p) /\ LocalTyped(p)
  <2>1. Writes(p)
    BY Zenon, <1>0, <1>u DEF Writes, TypeOK
  <2> QED
    BY Zenon, <1>0, <2>1, LocalRanges
<1>s. "detect" \in Steps
  BY Zenon DEF Steps
<1>n. /\ op'[p] = op[p] /\ pc'[p] = "detect" /\ ses'[p] = ses[p] /\ hand'[p] = hand[p]
      /\ sec'[p] = sec[p] /\ pick'[p] = pick[p] /\ pend'[p] = pend[p]
  BY Zenon, <1>0, <1>u DEF TypeOK
<1>l. LocalTypes' /\ (\A q \in Proc \ {p} : SameLocals(q))
  <2>1. LocalTyped(p)'
    BY Zenon, <1>n, <1>s, <1>w DEF LocalTyped
  <2> QED
    BY Zenon, <1>0, <1>w, <2>1, LocalWrite
<1>o. Own(p)'
  <2>1. SecretOld(p)' /\ SessionKnown(p)'
    BY Zenon, <1>0, <1>n, <1>u DEF Own, SecretOld, SessionKnown
  <2>2. HandKnown(p)' /\ PendLate(p)'
    BY Zenon, <1>n, <1>p DEF HandKnown, PendLate
  <2>3. SecretStale(p)'
    <3>1. ses[p] \in Sessions
      BY Zenon, <1>0, <1>u DEF Own, SessionKnown
    <3>2. row[ses[p]] = "live" => Stale(ses[p], sec[p])
      BY Zenon, <1>u, <3>1 DEF Rotatable, LiveSessions, SecretFits, Stale
    <3> QED
      BY Zenon, <1>n, <1>u, <3>2 DEF SecretStale, Stale
  <2>4. HandDead(p)' /\ ReadStands(p)' /\ ReadVoid(p)'
    BY Zenon, <1>n DEF HandDead, ReadStands, ReadVoid
  <2> QED
    BY Zenon, <1>n, <2>1, <2>2, <2>3, <2>4, OwnLate
<1>t. lock' \in Proc \cup {None} /\ active' \in BOOLEAN
  BY Zenon, <1>0, <1>u DEF TypeOK
<1> QED
  BY Zenon, <1>l, <1>n, <1>o, <1>p, <1>t, <1>u, LocalStep

LEMMA DetectIInv == ASSUME IInv, NEW p \in Proc, Detect(p) PROVE IInv'
<1>0. TypeOK /\ Own(p)
  BY Zenon DEF IInv
<1>u. UNCHANGED <<row, expired, tok, ref, prev, grace, cache, active, lock, minted, orphans, faults>> /\ pc[p] = "detect"
  BY Zenon DEF Detect, rows
<1>p. pend[p] = {}
  BY Zenon, <1>0, <1>u DEF Own, PendLate
<1>1. CASE Reset(p)
  BY Zenon, <1>1, <1>p, <1>u, QuitIInv
<1>2. ASSUME row[ses[p]] = "live", Go(p, "revoke_all"), UNCHANGED <<op, ses, hand, sec, pick, pend>>
      PROVE  IInv'
  <2>w. Writes(p)
    BY Zenon, <1>0, <1>2 DEF Writes, TypeOK, Go
  <2>n. /\ op'[p] = op[p] /\ pc'[p] = "revoke_all" /\ ses'[p] = ses[p] /\ hand'[p] = hand[p]
        /\ sec'[p] = sec[p] /\ pick'[p] = pick[p] /\ pend'[p] = pend[p]
    BY Zenon, <1>0, <1>2 DEF TypeOK, Go
  <2>l. LocalTypes' /\ (\A q \in Proc \ {p} : SameLocals(q))
    <3>1. "revoke_all" \in Steps
      BY Zenon DEF Steps
    <3>2. LocalTyped(p)'
      BY Zenon, <1>0, <2>n, <3>1, LocalRanges DEF LocalTyped
    <3> QED
      BY Zenon, <1>0, <2>w, <3>2, LocalWrite
  <2>o. Own(p)'
    <3>1. SecretOld(p)' /\ SessionKnown(p)'
      BY Zenon, <1>0, <1>u, <2>n DEF Own, SecretOld, SessionKnown
    <3>2. HandKnown(p)' /\ PendLate(p)' /\ PickKnown(p)' /\ PickDead(p)'
      BY Zenon, <1>p, <2>n DEF HandKnown, PendLate, PickKnown, PickDead
    <3>3. SecretStale(p)'
      <4>1. op[p] = "refresh" => Stale(ses[p], sec[p])
        BY Zenon, <1>0, <1>2, <1>u DEF Own, SecretStale
      <4> QED
        BY Zenon, <1>u, <2>n, <4>1 DEF SecretStale, Stale
    <3>4. HandDead(p)' /\ ReadStands(p)' /\ ReadVoid(p)'
      BY Zenon, <2>n DEF HandDead, ReadStands, ReadVoid
    <3>5. Locks(p)' /\ Room(p)'
      BY Zenon, <2>n DEF Locks, Room, LoggingIn
    <3> QED
      BY <3>1, <3>2, <3>3, <3>4, <3>5, Zenon DEF Own
  <2>t. lock' \in Proc \cup {None} /\ active' \in BOOLEAN
    BY Zenon, <1>0, <1>u DEF TypeOK
  <2> QED
    BY Zenon, <1>p, <1>u, <2>l, <2>n, <2>o, <2>t, LocalStep
<1> QED
  BY Zenon, <1>1, <1>2 DEF Detect

LEMMA LogoutIInv == ASSUME IInv, NEW p \in Proc, NEW t \in Tokens, Logout(p, t) PROVE IInv'
<1>0. TypeOK /\ Own(p)
  BY Zenon DEF IInv
<1>u. /\ UNCHANGED <<row, expired, tok, ref, prev, grace, active, lock, minted, ses, sec, pick, pend, orphans>>
      /\ pc[p] = "idle" /\ op' = [op EXCEPT ![p] = "logout"] /\ pc' = [pc EXCEPT ![p] = "update"]
      /\ hand' = [hand EXCEPT ![p] = t]
      /\ \/ cache' = [cache EXCEPT ![t] = Tombstone] /\ faults' = faults
         \/ Fault /\ cache' = cache
  BY Zenon DEF Logout, Begin, Go, rows, PutTombstone
<1>p. pend[p] = {}
  BY Zenon, <1>0, <1>u DEF Own, PendLate
<1>f. faults' = 0 => faults = 0 /\ cache' = [cache EXCEPT ![t] = Tombstone]
  BY Zenon, <1>0, <1>u, FaultRange DEF TypeOK
<1>c. faults' = 0 => \A u \in Tokens : cache'[u] = IF u = t THEN Tombstone ELSE cache[u]
  BY Zenon, <1>0, <1>f DEF TypeOK
<1>w. Writes(p) /\ LocalTyped(p)
  <2>1. Writes(p)
    BY Zenon, <1>0, <1>u DEF Writes, TypeOK
  <2> QED
    BY Zenon, <1>0, <2>1, LocalRanges
<1>s. "logout" \in Ops /\ "update" \in Steps /\ t \in 0..MaxMint
  BY Zenon, Ranges DEF Ops, Steps
<1>n. /\ op'[p] = "logout" /\ pc'[p] = "update" /\ ses'[p] = ses[p] /\ hand'[p] = t
      /\ sec'[p] = sec[p] /\ pick'[p] = pick[p] /\ pend'[p] = pend[p]
  BY Zenon, <1>0, <1>u DEF TypeOK
<1>l. LocalTypes' /\ (\A q \in Proc \ {p} : SameLocals(q))
  <2>1. LocalTyped(p)'
    BY Zenon, <1>n, <1>s, <1>w DEF LocalTyped
  <2> QED
    BY Zenon, <1>0, <1>w, <2>1, LocalWrite
<1>o. Own(p)'
  <2>1. SecretOld(p)'
    BY Zenon, <1>0, <1>n, <1>u DEF Own, SecretOld
  <2>2. SessionKnown(p)'
    BY Zenon, <1>n DEF SessionKnown
  <2>3. HandKnown(p)' /\ PendLate(p)' /\ SecretStale(p)'
    BY Zenon, <1>n, <1>p DEF HandKnown, PendLate, SecretStale
  <2>4. ReadStands(p)' /\ ReadVoid(p)'
    BY Zenon, <1>n DEF ReadStands, ReadVoid
  <2>5. HandDead(p)'
    BY Zenon, <1>c, <1>n DEF HandDead, Tombed
  <2> QED
    BY Zenon, <1>n, <2>1, <2>2, <2>3, <2>4, <2>5, OwnLate
<1> QED
  BY Zenon, <1>l, <1>n, <1>o, <1>p, <1>s, <1>u, TombStep

LEMMA BustIInv == ASSUME IInv, NEW p \in Proc, Bust(p) PROVE IInv'
<1>0. TypeOK /\ Own(p)
  BY Zenon DEF IInv
<1>u. /\ UNCHANGED <<row, expired, tok, ref, prev, grace, active, lock, minted, op, ses, hand, sec, pick, pend, orphans>>
      /\ pc[p] = "bust" /\ pc' = [pc EXCEPT ![p] = "update"]
      /\ \/ cache' = [cache EXCEPT ![hand[p]] = Tombstone] /\ faults' = faults
         \/ Fault /\ cache' = cache
  BY Zenon DEF Bust, Go, rows, PutTombstone
<1>p. pend[p] = {}
  BY Zenon, <1>0, <1>u DEF Own, PendLate
<1>f. faults' = 0 => faults = 0 /\ cache' = [cache EXCEPT ![hand[p]] = Tombstone]
  BY Zenon, <1>0, <1>u, FaultRange DEF TypeOK
<1>c. faults' = 0 => \A u \in Tokens : cache'[u] = IF u = hand[p] THEN Tombstone ELSE cache[u]
  BY Zenon, <1>0, <1>f DEF TypeOK
<1>w. Writes(p) /\ LocalTyped(p)
  <2>1. Writes(p)
    BY Zenon, <1>0, <1>u DEF Writes, TypeOK
  <2> QED
    BY Zenon, <1>0, <2>1, LocalRanges
<1>s. "update" \in Steps
  BY Zenon DEF Steps
<1>n. /\ op'[p] = op[p] /\ pc'[p] = "update" /\ ses'[p] = ses[p] /\ hand'[p] = hand[p]
      /\ sec'[p] = sec[p] /\ pick'[p] = pick[p] /\ pend'[p] = pend[p]
  BY Zenon, <1>0, <1>u DEF TypeOK
<1>l. LocalTypes' /\ (\A q \in Proc \ {p} : SameLocals(q))
  <2>1. LocalTyped(p)'
    BY Zenon, <1>n, <1>s, <1>w DEF LocalTyped
  <2> QED
    BY Zenon, <1>0, <1>w, <2>1, LocalWrite
<1>o. Own(p)'
  <2>1. SecretOld(p)'
    BY Zenon, <1>0, <1>n, <1>u DEF Own, SecretOld
  <2>2. SessionKnown(p)'
    BY Zenon, <1>0, <1>n, <1>u DEF Own, SessionKnown
  <2>3. HandKnown(p)' /\ PendLate(p)' /\ SecretStale(p)'
    BY Zenon, <1>n, <1>p DEF HandKnown, PendLate, SecretStale
  <2>4. ReadStands(p)' /\ ReadVoid(p)'
    BY Zenon, <1>n DEF ReadStands, ReadVoid
  <2>5. HandDead(p)'
    BY Zenon, <1>c, <1>n DEF HandDead, Tombed
  <2> QED
    BY Zenon, <1>n, <2>1, <2>2, <2>3, <2>4, <2>5, OwnLate
<1>t. hand[p] \in 0..MaxMint
  BY Zenon, <1>0 DEF TypeOK
<1> QED
  BY Zenon, <1>l, <1>n, <1>o, <1>p, <1>t, <1>u, TombStep

LEMMA InvalidateIInv == ASSUME IInv, NEW p \in Proc, NEW t \in Tokens, Invalidate(p, t) PROVE IInv'
<1>0. TypeOK /\ Own(p)
  BY Zenon DEF IInv
<1>u. /\ UNCHANGED <<row, expired, tok, ref, prev, grace, active, lock, minted, op, pc, ses, hand, sec, pick, orphans>>
      /\ pc[p] \in {"purge", "txpurge"} /\ pend' = [pend EXCEPT ![p] = @ \ {t}]
      /\ \/ cache' = [cache EXCEPT ![t] = Tombstone] /\ faults' = faults
         \/ Fault /\ cache' = cache
  BY Zenon DEF Invalidate, rows, PutTombstone
<1>f. faults' = 0 => faults = 0 /\ cache' = [cache EXCEPT ![t] = Tombstone]
  BY Zenon, <1>0, <1>u, FaultRange DEF TypeOK
<1>c. faults' = 0 => \A u \in Tokens : cache'[u] = IF u = t THEN Tombstone ELSE cache[u]
  BY Zenon, <1>0, <1>f DEF TypeOK
<1>w. Writes(p) /\ LocalTyped(p)
  <2>1. Writes(p)
    BY Zenon, <1>0, <1>u DEF Writes, TypeOK
  <2> QED
    BY Zenon, <1>0, <2>1, LocalRanges
<1>n. /\ op'[p] = op[p] /\ pc'[p] = pc[p] /\ ses'[p] = ses[p] /\ hand'[p] = hand[p]
      /\ sec'[p] = sec[p] /\ pick'[p] = pick[p] /\ pend'[p] = pend[p] \ {t}
  BY Zenon, <1>0, <1>u DEF TypeOK
<1>l. LocalTypes' /\ (\A q \in Proc \ {p} : SameLocals(q))
  <2>1. LocalTyped(p)'
    BY Zenon, <1>n, <1>w DEF LocalTyped
  <2> QED
    BY Zenon, <1>0, <1>w, <2>1, LocalWrite
<1>o. Own(p)'
  <2>1. SecretOld(p)' /\ SessionKnown(p)'
    BY Zenon, <1>0, <1>n, <1>u DEF Own, SecretOld, SessionKnown
  <2>2. Locks(p)'
    BY Zenon, <1>0, <1>n, <1>u DEF Own, Locks, LoggingIn
  <2>3. Room(p)'
    <3>1. LoggingIn(p)' => LoggingIn(p)
      BY Zenon, <1>n DEF LoggingIn
    <3>2. LiveSessions' = LiveSessions
      BY Zenon, <1>u DEF LiveSessions
    <3> QED
      BY Zenon, <1>0, <1>n, <3>1, <3>2 DEF Own, Room
  <2>4. HandKnown(p)' /\ PendLate(p)' /\ SecretStale(p)'
    BY Zenon, <1>n, <1>u DEF HandKnown, PendLate, SecretStale
  <2>5. HandDead(p)' /\ ReadStands(p)' /\ ReadVoid(p)'
    BY Zenon, <1>n, <1>u DEF HandDead, ReadStands, ReadVoid
  <2>6. PickKnown(p)'
    BY Zenon, <1>0, <1>n, <1>u DEF Own, PickKnown
  <2>7. PickDead(p)'
    <3> SUFFICES ASSUME faults' = 0, pc[p] = "txpurge", NEW s \in pick[p], tok[s] \in Tokens
                 PROVE  tok[s] \in pend[p] \ {t} \/ cache'[tok[s]] = Tombstone
      BY Zenon, <1>n, <1>u DEF PickDead, Tombed
    <3>1. tok[s] \in pend[p] \/ Tombed(tok[s])
      BY Zenon, <1>0, <1>f DEF Own, PickDead
    <3> QED
      BY Zenon, <1>c, <3>1 DEF Tombed
  <2> QED
    BY <2>1, <2>2, <2>3, <2>4, <2>5, <2>6, <2>7, Zenon DEF Own
<1>t. t \in 0..MaxMint
  BY Zenon, Ranges
<1> QED
  BY Zenon, <1>l, <1>n, <1>o, <1>t, <1>u, TombStep

LEMMA RevokeIInv == ASSUME IInv, NEW p \in Proc, NEW s \in Sessions, Revoke(p, s) PROVE IInv'
<1>0. TypeOK /\ Own(p)
  BY Zenon DEF IInv
<1>u. /\ UNCHANGED <<expired, tok, ref, prev, grace, cache, active, lock, minted, ses, hand, sec, pick, orphans, faults>>
      /\ pc[p] = "idle" /\ op' = [op EXCEPT ![p] = "revoke"] /\ pc' = [pc EXCEPT ![p] = "purge"]
      /\ pend' = [pend EXCEPT ![p] = TokensOf({s})] /\ row[s] # "absent" /\ SetRevoked({s})
  BY Zenon DEF Revoke, Begin, Go, Present
<1>p. pend[p] = {}
  BY Zenon, <1>0, <1>u DEF Own, PendLate
<1>e. /\ {s} \in SUBSET Sessions /\ TokensOf({s}) \in SUBSET Tokens
      /\ \A x \in {s} : tok[x] \in Tokens => tok[x] \in TokensOf({s})
  BY Zenon, TokensOfFact
<1>w. Writes(p) /\ LocalTyped(p)
  <2>1. Writes(p)
    BY Zenon, <1>0, <1>u DEF Writes, TypeOK
  <2> QED
    BY Zenon, <1>0, <2>1, LocalRanges
<1>s. "revoke" \in Ops /\ "purge" \in Steps
  BY Zenon DEF Ops, Steps
<1>n. /\ op'[p] = "revoke" /\ pc'[p] = "purge" /\ ses'[p] = ses[p] /\ hand'[p] = hand[p]
      /\ sec'[p] = sec[p] /\ pick'[p] = pick[p] /\ pend'[p] = TokensOf({s})
  BY Zenon, <1>0, <1>u DEF TypeOK
<1>l. LocalTypes' /\ (\A q \in Proc \ {p} : SameLocals(q))
  <2>1. LocalTyped(p)'
    BY Zenon, <1>n, <1>s, <1>e, <1>w DEF LocalTyped
  <2> QED
    BY Zenon, <1>0, <1>w, <2>1, LocalWrite
<1>o. Own(p)'
  <2>1. SecretOld(p)'
    BY Zenon, <1>0, <1>n, <1>u DEF Own, SecretOld
  <2>2. SessionKnown(p)'
    BY Zenon, <1>n DEF SessionKnown
  <2>3. HandKnown(p)' /\ PendLate(p)'
    BY Zenon, <1>n DEF HandKnown, PendLate
  <2> QED
    BY Zenon, <1>n, <2>1, <2>2, <2>3, OwnPlain
<1> QED
  BY Zenon, <1>l, <1>n, <1>o, <1>p, <1>e, <1>u, RevokeStep

LEMMA RevokeAllRowsIInv == ASSUME IInv, NEW p \in Proc, RevokeAllRows(p) PROVE IInv'
<1>0. TypeOK /\ Own(p)
  BY Zenon DEF IInv
<1>u. /\ UNCHANGED <<expired, tok, ref, prev, grace, cache, active, lock, minted, op, ses, hand, sec, pick, orphans, faults>>
      /\ pc[p] = "revoke_all" /\ pc' = [pc EXCEPT ![p] = "purge"]
      /\ pend' = [pend EXCEPT ![p] = TokensOf(NotRevoked)] /\ SetRevoked(NotRevoked)
  BY Zenon DEF RevokeAllRows, Go
<1>p. pend[p] = {}
  BY Zenon, <1>0, <1>u DEF Own, PendLate
<1>e. /\ NotRevoked \in SUBSET Sessions /\ (\A s \in NotRevoked : row[s] # "absent")
      /\ TokensOf(NotRevoked) \in SUBSET Tokens
      /\ \A s \in NotRevoked : tok[s] \in Tokens => tok[s] \in TokensOf(NotRevoked)
  BY Zenon, TokensOfFact DEF NotRevoked
<1> HIDE DEF NotRevoked
<1>w. Writes(p) /\ LocalTyped(p)
  <2>1. Writes(p)
    BY Zenon, <1>0, <1>u DEF Writes, TypeOK
  <2> QED
    BY Zenon, <1>0, <2>1, LocalRanges
<1>s. "purge" \in Steps
  BY Zenon DEF Steps
<1>n. /\ op'[p] = op[p] /\ pc'[p] = "purge" /\ ses'[p] = ses[p] /\ hand'[p] = hand[p]
      /\ sec'[p] = sec[p] /\ pick'[p] = pick[p] /\ pend'[p] = TokensOf(NotRevoked)
  BY Zenon, <1>0, <1>u DEF TypeOK
<1>l. LocalTypes' /\ (\A q \in Proc \ {p} : SameLocals(q))
  <2>1. LocalTyped(p)'
    BY Zenon, <1>n, <1>s, <1>e, <1>w DEF LocalTyped
  <2> QED
    BY Zenon, <1>0, <1>w, <2>1, LocalWrite
<1>o. Own(p)'
  <2>1. SecretOld(p)'
    BY Zenon, <1>0, <1>n, <1>u DEF Own, SecretOld
  <2>2. SessionKnown(p)'
    <3>1. \A s \in Sessions : row[s] # "absent" => row'[s] # "absent"
      BY Zenon, <1>u DEF SetRevoked
    <3> QED
      BY Zenon, <1>0, <1>n, <3>1 DEF Own, SessionKnown
  <2>3. HandKnown(p)' /\ PendLate(p)'
    BY Zenon, <1>n DEF HandKnown, PendLate
  <2> QED
    BY Zenon, <1>n, <2>1, <2>2, <2>3, OwnPlain
<1> QED
  BY Zenon, <1>l, <1>n, <1>o, <1>p, <1>e, <1>u, RevokeStep

LEMMA PasswordCommitIInv == ASSUME IInv, NEW p \in Proc, PasswordCommit(p) PROVE IInv'
<1>0. TypeOK /\ Own(p)
  BY Zenon DEF IInv
<1>u. /\ UNCHANGED <<expired, tok, ref, prev, grace, cache, active, lock, minted, orphans, faults>>
      /\ pc[p] = "txpurge" /\ pend[p] = {} /\ SetRevoked(pick[p]) /\ Reset(p)
  BY Zenon DEF PasswordCommit
<1>1. pick[p] \in SUBSET Sessions /\ minted' \in Nat
  BY <1>0, <1>u, BoundsAssumption DEF TypeOK
<1>2. \A s \in pick[p] : row[s] # "absent"
  BY Zenon, <1>0, <1>u DEF Own, PickKnown
<1>3. faults = 0 => \A s \in pick[p] : tok[s] \in Tokens => Tombed(tok[s])
  BY Zenon, <1>0, <1>u DEF Own, PickDead
<1>4. Own(p)' /\ LocalTypes' /\ pend'[p] = {} /\ \A q \in Proc \ {p} : SameLocals(q)
  BY Zenon, <1>0, <1>1, <1>u, ResetOwn
<1> QED
  BY Zenon, <1>1, <1>2, <1>3, <1>4, <1>u, RevokeStep

LEMMA LogoutUpdateIInv == ASSUME IInv, NEW p \in Proc, LogoutUpdate(p) PROVE IInv'
<1> DEFINE S == {s \in Sessions : Present(s) /\ tok[s] = hand[p]}
<1>0. TypeOK /\ Own(p)
  BY Zenon DEF IInv
<1>u. /\ UNCHANGED <<expired, tok, ref, prev, grace, cache, active, lock, minted, orphans, faults>>
      /\ pc[p] = "update" /\ SetRevoked(S) /\ Reset(p)
  BY Zenon DEF LogoutUpdate
<1>1. S \in SUBSET Sessions /\ (\A s \in S : row[s] # "absent" /\ tok[s] = hand[p])
  BY Zenon DEF Present
<1> HIDE DEF S
<1>2. pend[p] = {} /\ minted' \in Nat
  BY <1>0, <1>u, BoundsAssumption DEF Own, PendLate, TypeOK
<1>3. faults = 0 => \A s \in S : tok[s] \in Tokens => Tombed(tok[s])
  BY Zenon, <1>0, <1>1, <1>u DEF Own, HandDead
<1>4. Own(p)' /\ LocalTypes' /\ pend'[p] = {} /\ \A q \in Proc \ {p} : SameLocals(q)
  BY Zenon, <1>0, <1>2, <1>u, ResetOwn
<1> QED
  BY Zenon, <1>1, <1>2, <1>3, <1>4, <1>u, RevokeStep

LEMMA EmailLoginCommitIInv == ASSUME IInv, NEW p \in Proc, EmailLoginCommit(p) PROVE IInv'
<1>0. TypeOK /\ Own(p)
  BY Zenon DEF IInv
<1>u. /\ UNCHANGED <<cache, active, orphans, faults>>
      /\ pc[p] = "txpurge" /\ op[p] = "login" /\ pend[p] = {} /\ Unlock(p) /\ Reset(p)
  BY Zenon DEF EmailLoginCommit
<1>n. PICK n \in Sessions : row[n] = "absent" /\ EvictAndInsert(pick[p], n)
  BY Zenon DEF EmailLoginCommit, NextSession
<1>1. pick[p] \in SUBSET Sessions /\ minted' \in Nat
  <2>1. pick[p] \in SUBSET Sessions /\ minted \in Nat
    BY <1>0, BoundsAssumption DEF TypeOK
  <2> QED
    BY <1>n, <2>1 DEF EvictAndInsert
<1>2. \A s \in pick[p] : row[s] # "absent"
  BY Zenon, <1>0, <1>u DEF Own, PickKnown
<1>3. faults = 0 => \A s \in pick[p] : tok[s] \in Tokens => Tombed(tok[s])
  BY Zenon, <1>0, <1>u DEF Own, PickDead
<1>4. Own(p)' /\ LocalTypes' /\ pend'[p] = {} /\ \A q \in Proc \ {p} : SameLocals(q)
  BY Zenon, <1>0, <1>1, <1>u, ResetOwn
<1>5. LoggingIn(p)
  BY Zenon, <1>u DEF LoggingIn
<1> QED
  BY Zenon, <1>1, <1>2, <1>3, <1>4, <1>5, <1>n, <1>u, EvictStep

LEMMA LoginCommitIInv == ASSUME IInv, NEW p \in Proc, LoginCommit(p) PROVE IInv'
<1>0. TypeOK /\ Own(p)
  BY Zenon DEF IInv
<1>u. /\ UNCHANGED <<cache, active, op, ses, hand, sec, orphans, faults>>
      /\ pc[p] = "select" /\ Unlock(p) /\ pc' = [pc EXCEPT ![p] = "purge"]
      /\ pick' = [pick EXCEPT ![p] = {}] /\ pend' = [pend EXCEPT ![p] = TokensOf(Evicted(p))]
  BY Zenon DEF LoginCommit, Go
<1>p. pend[p] = {}
  BY Zenon, <1>0, <1>u DEF Own, PendLate
<1>i. PICK i \in Sessions : row[i] = "absent" /\ EvictAndInsert(Evicted(p), i)
  BY Zenon DEF LoginCommit, NextSession
<1>e. /\ Evicted(p) \in SUBSET Sessions /\ (\A s \in Evicted(p) : row[s] # "absent")
      /\ LiveSessions \cap pick[p] \subseteq Evicted(p)
  BY Zenon, <1>0 DEF TypeOK, Evicted, Present, LiveSessions
<1>v. /\ TokensOf(Evicted(p)) \in SUBSET Tokens
      /\ \A s \in Evicted(p) : tok[s] \in Tokens => tok[s] \in TokensOf(Evicted(p))
  BY Zenon, <1>e, TokensOfFact
<1>m. minted \in Nat /\ minted' = minted + 1 /\ sec[p] \in Nat
  <2>1. minted \in Nat /\ sec[p] \in Nat
    BY <1>0, BoundsAssumption DEF TypeOK
  <2> QED
    BY Zenon, <1>i, <2>1 DEF EvictAndInsert
<1>g. LoggingIn(p)
  BY Zenon, <1>u DEF LoggingIn
<1>w. Writes(p) /\ LocalTyped(p)
  <2>1. Writes(p)
    BY Zenon, <1>0, <1>u DEF Writes, TypeOK
  <2> QED
    BY Zenon, <1>0, <2>1, LocalRanges
<1>s. "purge" \in Steps
  BY Zenon DEF Steps
<1>n. /\ op'[p] = op[p] /\ pc'[p] = "purge" /\ ses'[p] = ses[p] /\ hand'[p] = hand[p]
      /\ sec'[p] = sec[p] /\ pick'[p] = {} /\ pend'[p] = TokensOf(Evicted(p))
  BY Zenon, <1>0, <1>u DEF TypeOK
<1>l. LocalTypes' /\ (\A q \in Proc \ {p} : SameLocals(q))
  <2>1. LocalTyped(p)'
    BY Zenon, <1>n, <1>s, <1>v, <1>w DEF LocalTyped
  <2> QED
    BY Zenon, <1>0, <1>w, <2>1, LocalWrite
<1>o. Own(p)'
  <2>1. SecretOld(p)'
    <3>1. sec[p] <= minted
      BY <1>0, Zenon DEF Own, SecretOld
    <3>2. sec[p] <= minted'
      BY <1>m, <3>1
    <3>3. sec'[p] = sec[p]
      BY <1>n, Zenon
    <3> QED
      BY <3>2, <3>3, Zenon DEF SecretOld
  <2>2. SessionKnown(p)'
    <3>1. \A s \in Sessions : row[s] # "absent" => row'[s] # "absent"
      BY Zenon, <1>i DEF EvictAndInsert
    <3> QED
      BY Zenon, <1>0, <1>n, <3>1 DEF Own, SessionKnown
  <2>3. HandKnown(p)' /\ PendLate(p)'
    BY Zenon, <1>n DEF HandKnown, PendLate
  <2> QED
    BY Zenon, <1>n, <2>1, <2>2, <2>3, OwnPlain
<1> QED
  BY Zenon, <1>e, <1>g, <1>i, <1>l, <1>n, <1>o, <1>p, <1>u, <1>v, EvictStep

LEMMA RotateIInv == ASSUME IInv, NEW p \in Proc, Rotate(p) PROVE IInv'
<1>1. ses[p] \in Sessions
  BY Zenon DEF Rotate, Rotatable, LiveSessions
<1>2. /\ pc[p] = "update" /\ RowFree(ses[p]) /\ minted < MaxMint /\ minted' = minted + 1
      /\ SetToken(ses[p], minted + 1, hand[p]) /\ Reset(p)
      /\ prev' = [prev EXCEPT ![ses[p]] = ref[ses[p]]]
      /\ ref' = [ref EXCEPT ![ses[p]] = minted + 1]
      /\ grace' = [grace EXCEPT ![ses[p]] = TRUE]
      /\ UNCHANGED <<row, expired, cache, active, lock, faults>>
  BY Zenon DEF Rotate
<1> QED
  BY Zenon, <1>1, <1>2, TokenStep

LEMMA RebindUpdateIInv == ASSUME IInv, NEW p \in Proc, RebindUpdate(p) PROVE IInv'
<1>0. TypeOK /\ Own(p)
  BY Zenon DEF IInv
<1>1. /\ pc[p] = "update" /\ op[p] = "rebind" /\ RowFree(ses[p]) /\ minted < MaxMint /\ minted' = minted + 1
      /\ Reset(p) /\ UNCHANGED <<row, expired, ref, prev, grace, cache, active, lock, faults>>
  BY Zenon DEF RebindUpdate
<1>2. ses[p] \in Sessions /\ pend[p] = {}
  BY Zenon, <1>0, <1>1 DEF Own, SessionKnown, PendLate
<1>3. CASE SetToken(ses[p], minted + 1, hand[p])
  BY Zenon, <1>1, <1>2, <1>3, TokenStep
<1>4. CASE UNCHANGED <<tok, orphans>>
  BY Zenon, <1>1, <1>2, <1>4, QuitIInv
<1> QED
  BY Zenon, <1>3, <1>4 DEF RebindUpdate

-----------------------------------------------------------------------------
LEMMA InitIInv == Init => IInv
<1> SUFFICES ASSUME Init PROVE IInv
  OBVIOUS
<1>1. TypeOK
  <2>1. RowTypes
    BY Zenon, Ranges DEF Init, RowTypes
  <2>2. LocalTypes
    <3>1. "none" \in Ops /\ "idle" \in Steps
      BY Zenon DEF Ops, Steps
    <3> QED
      BY Zenon, <3>1, Ranges DEF Init, LocalTypes
  <2>3. RestTypes
    BY Zenon, Ranges DEF Init, RestTypes
  <2> QED
    BY Zenon, <2>1, <2>2, <2>3, Types
<1>2. ASSUME NEW p \in Proc PROVE Own(p)
  <2>1. op[p] = "none" /\ pc[p] = "idle" /\ sec[p] = 0 /\ pend[p] = {} /\ minted = 0
    BY Zenon, <1>2 DEF Init
  <2>2. Locks(p) /\ Room(p) /\ SessionKnown(p) /\ SecretStale(p)
    BY <2>1, Zenon DEF Locks, Room, LoggingIn, SessionKnown, SecretStale
  <2>5. SecretOld(p)
    BY <2>1 DEF SecretOld
  <2>3. HandKnown(p) /\ PickKnown(p) /\ PendLate(p)
    BY Zenon, <2>1 DEF HandKnown, PickKnown, PendLate
  <2>4. PickDead(p) /\ HandDead(p) /\ ReadStands(p) /\ ReadVoid(p)
    BY Zenon, <2>1 DEF PickDead, HandDead, ReadStands, ReadVoid
  <2> QED
    BY <2>2, <2>3, <2>4, <2>5, Zenon DEF Own
<1>3. Shared
  <2>1. SessionCap
    <3>1. LiveSessions = {}
      BY Zenon DEF Init, LiveSessions
    <3>2. Cardinality({}) = 0
      BY Zenon, FS_EmptySet
    <3> QED
      BY <3>1, <3>2, BoundsAssumption DEF SessionCap
  <2>2. ExpiredUncached /\ CachedIsCurrent /\ InactiveNotCached
    BY Zenon, Ranges DEF Init, ExpiredUncached, CachedIsCurrent, InactiveNotCached
  <2> QED
    BY <2>1, <2>2, Zenon DEF Shared
<1> QED
  BY <1>1, <1>2, <1>3, Zenon DEF IInv

LEMMA StepPreserves == ASSUME IInv, NEW p \in Proc, Step(p) PROVE IInv'
<1>1. CASE LoginCommit(p) \/ LoginUpdate(p) \/ EmailLoginCommit(p) \/ InvalidateDone(p)
  BY <1>1, LoginCommitIInv, LoginUpdateIInv, EmailLoginCommitIInv, InvalidateDoneIInv, Zenon
<1>2. CASE \E t \in Tokens : Invalidate(p, t)
  BY <1>2, InvalidateIInv, Zenon
<1>3. CASE VerifyRead(p) \/ VerifyStatus(p) \/ VerifyStore(p)
  BY <1>3, VerifyReadIInv, VerifyStatusIInv, VerifyStoreIInv, Zenon
<1>4. CASE RevokeAllRows(p) \/ PasswordCommit(p) \/ LogoutUpdate(p)
  BY <1>4, RevokeAllRowsIInv, PasswordCommitIInv, LogoutUpdateIInv, Zenon
<1>5. CASE Find(p) \/ Bust(p) \/ Rotate(p)
  BY <1>5, FindIInv, BustIInv, RotateIInv, Zenon
<1>6. CASE RotateRefused(p) \/ Detect(p) \/ RebindUpdate(p)
  BY <1>6, RotateRefusedIInv, DetectIInv, RebindUpdateIInv, Zenon
<1> QED
  BY <1>1, <1>2, <1>3, <1>4, <1>5, <1>6, Zenon DEF Step

LEMMA NextIInv == IInv /\ [Next]_vars => IInv'
<1> SUFFICES ASSUME IInv, [Next]_vars PROVE IInv'
  OBVIOUS
<1>1. ASSUME NEW p \in Proc, Step(p) \/ Crash(p) PROVE IInv'
  BY <1>1, StepPreserves, CrashIInv, Zenon
<1>2. ASSUME NEW p \in Proc, LoginSelect(p) \/ RevokeAll(p) \/ Deactivate(p) \/ PasswordUpdate(p, 0)
      PROVE  IInv'
  <2>1. 0 \in 0..MaxMint
    BY Zenon, Ranges
  <2> QED
    BY <1>2, <2>1, LoginSelectIInv, RevokeAllIInv, DeactivateIInv, PasswordUpdateIInv, Zenon
<1>3. ASSUME NEW p \in Proc, NEW t \in Tokens, VerifyMiss(p, t) \/ Logout(p, t) \/ PasswordUpdate(p, t)
      PROVE  IInv'
  <2>1. t \in 0..MaxMint
    BY Zenon, Ranges
  <2> QED
    BY <1>3, <2>1, VerifyMissIInv, LogoutIInv, PasswordUpdateIInv, Zenon
<1>4. ASSUME NEW p \in Proc, NEW s \in Sessions,
             Revoke(p, s) \/ Rebind(p, s) \/ \E r \in Tokens : Refresh(p, s, r)
      PROVE  IInv'
  BY <1>4, RevokeIInv, RebindIInv, RefreshIInv, Zenon
<1>5. ASSUME NEW s \in Sessions, Expire(s) \/ GraceEnds(s) \/ Cleanup(s) PROVE IInv'
  BY <1>5, ExpireIInv, GraceEndsIInv, CleanupIInv, Zenon
<1>6. ASSUME NEW t \in Tokens, KeyExpires(t) PROVE IInv'
  BY <1>6, KeyExpiresIInv, Zenon
<1>7. CASE Reactivate
  BY <1>7, ReactivateIInv, Zenon
<1>8. CASE UNCHANGED vars
  <2>1. UNCHANGED <<row, expired, tok, ref, prev, grace, cache, active, lock, minted,
                    op, pc, ses, hand, sec, pick, pend, orphans, faults>>
    BY Zenon, <1>8 DEF vars, rows, local
  <2>2. TypeOK' /\ \A u \in Sessions, t \in Tokens : expired'[u] => cache'[t] # u
    <3>1. TypeOK'
      BY <2>1, Zenon DEF IInv, TypeOK
    <3>2. ExpiredUncached
      BY Zenon DEF IInv, Shared
    <3> QED
      BY Zenon, <2>1, <3>1, <3>2 DEF ExpiredUncached
  <2> QED
    BY Zenon, <2>1, <2>2, EnvStep
<1> QED
  BY <1>1, <1>2, <1>3, <1>4, <1>5, <1>6, <1>7, <1>8, Zenon DEF Next

LEMMA Invariant == Spec => []IInv
  BY InitIInv, NextIInv, PTL DEF Spec

-----------------------------------------------------------------------------
(* Every variable keeps its type, for any number of requests, sessions,    *)
(* tokens and faults.                                                      *)
THEOREM TypeCorrect == Spec => []TypeOK
<1>1. IInv => TypeOK
  BY Zenon DEF IInv
<1> QED
  BY <1>1, Invariant, PTL

(* createSessionForUser keeps a user within MAX_ACTIVE_SESSIONS_PER_USER   *)
(* live sessions however many logins run at once: the quota lock covers    *)
(* the SELECT of the rows to evict and the INSERT, and nothing else adds a *)
(* live session between them.                                              *)
THEOREM CapHolds == Spec => []SessionCap
<1>1. IInv => SessionCap
  BY Zenon DEF IInv, Shared
<1> QED
  BY <1>1, Invariant, PTL

(* While nothing has failed, a token is cached as valid only for the live  *)
(* session that still holds it, or its invalidation is under way, or a     *)
(* rotation that had read an older token replaced it: the SET NX of        *)
(* verifyActiveAccessToken never outlives the tombstone of a revocation.   *)
THEOREM CacheIsCurrent == Spec => []CachedIsCurrent
<1>1. IInv => CachedIsCurrent
  BY Zenon DEF IInv, Shared
<1> QED
  BY <1>1, Invariant, PTL

(* Once the deactivation of a user has revoked the sessions, no token of   *)
(* that user is cached as valid, not even by a verification that had read  *)
(* the session before.                                                     *)
THEOREM DeactivationClosesCache == Spec => []InactiveNotCached
<1>1. IInv => InactiveNotCached
  BY Zenon DEF IInv, Shared
<1> QED
  BY <1>1, Invariant, PTL

(* Reuse detection ends all sessions of a user only for a secret that is   *)
(* stale for good: no interleaving of refreshes lets the retry of a        *)
(* refresh within the grace do it.                                         *)
THEOREM ReuseNeedsStaleSecret == Spec => []KillNeedsStaleSecret
<1>1. IInv => KillNeedsStaleSecret
  <2> SUFFICES ASSUME IInv, NEW p \in Proc, pc[p] = "revoke_all", op[p] = "refresh"
               PROVE  expired[ses[p]] \/ prev[ses[p]] # sec[p] \/ ~grace[ses[p]]
    BY Zenon DEF KillNeedsStaleSecret
  <2>1. Stale(ses[p], sec[p])
    BY Zenon DEF IInv, Own, SecretStale
  <2> QED
    BY Zenon, <2>1 DEF Stale
<1> QED
  BY <1>1, Invariant, PTL

=============================================================================
