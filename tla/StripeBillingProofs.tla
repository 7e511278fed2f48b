------------------------ MODULE StripeBillingProofs ------------------------
(***************************************************************************)
(* The safety of the subscription rows for any number of subscriptions,    *)
(* requests, plans, events and faults.  The argument is by effect: every   *)
(* step makes at most one change at Stripe and writes at most one row, and *)
(* what such a change or write may be (StripeEffect, RowEffect) is enough  *)
(* for the invariants.                                                     *)
(*                                                                         *)
(* That two live subscriptions need a failed create is a second induction, *)
(* on top of the first: what a step may do to a create (CreateMove) and to *)
(* the set of mutable rows (RowMove).                                      *)
(***************************************************************************)
EXTENDS StripeBilling, TLAPS

-----------------------------------------------------------------------------
(* The strengthening.                                                      *)

\* An event describes a subscription as it was; what is over stays over.
EventsKnown ==
    \A i \in 1..n :
        /\ esub[i] \in Subs
        /\ etype[i] \in EventTypes
        /\ estatus[i] \in StripeStatuses
        /\ ecreated[i] <= now
        /\ etype[i] = "deleted" => estatus[i] = "canceled"
        /\ estatus[i] \in Over => sstatus[esub[i]] \in Over

\* A dispatch under way belongs to an event of its kind.
DispatchesKnown ==
    \A i \in Ids : pc[i] # "idle" =>
        /\ i <= n
        /\ pc[i] = "entomb" <=> etype[i] = "deleted"
        /\ pc[i] = "insert" => eplan[i] # Unsynced

\* A request past its read has a subscription, over if it canceled it.
RequestsKnown ==
    \A r \in Reqs :
        /\ \/ at[r] \in {"stamp", "write", "compensate"}
           \/ at[r] = "stripe" /\ op[r] # "create"
           => tgt[r] \in Subs
        /\ at[r] \in {"stamp", "write"} /\ op[r] = "cancel_now" => sstatus[tgt[r]] \in Over
        /\ at[r] = "precheck" => op[r] = "create"
        /\ stamp[r] <= now
        /\ at[r] = "write" /\ ~LateWrites => stamp[r] = now

\* No watermark lies in the future, and no row has none.
RowsKnown ==
    \A s \in Subs : wm[s] <= now /\ (rstatus[s] = "absent" => wm[s] = 0)

IInv ==
    /\ TypeOK
    /\ EventsKnown
    /\ DispatchesKnown
    /\ RequestsKnown
    /\ RowsKnown
    /\ TerminalIsOver
    /\ DeletionSticks

-----------------------------------------------------------------------------
(* Effects.                                                                *)

\* One subscription that is not over changes, and one event says so.
StripeEffect ==
    \/ UNCHANGED stripe
    \/ \E s \in Subs, type \in EventTypes, stat \in StripeStatuses,
          p \in Prices \cup {None}, cape \in BOOLEAN :
          /\ Change(s, type, stat, p, cape)
          /\ sstatus[s] \notin Over
          /\ type = "deleted" => stat = "canceled"

\* One row is written, not backwards in time, not out of CANCELED, terminal
\* only for a subscription that is over.
RowEffect ==
    \/ UNCHANGED rows
    \/ \E s \in Subs, stat \in RowStatuses \ {"absent"}, p \in Plans \cup {None},
          cape \in BOOLEAN, t \in 0..now :
          /\ WriteRow(s, stat, p, cape, t)
          /\ ~LateWrites => wm[s] <= t
          /\ rstatus[s] \in Inactive => stat = "CANCELED"
          /\ stat \in Inactive => sstatus[s] \in Over

USE BoundsAssumption, SetsAssumption, ModesAssumption, NoneAssumption

LEMMA SecFact ==
    ASSUME NEW t \in Nat
    PROVE  Sec(t) \in 0..t
BY DEF Sec

-----------------------------------------------------------------------------
(* Every step has the effects.                                             *)

LEMMA MutateEffect ==
    ASSUME TypeOK, NEW o, NEW s \in Subs, NEW p \in Prices \cup {None},
           Live(s), Mutate(o, s, p)
    PROVE  StripeEffect
<1>1. sstatus[s] \in StripeStatuses \ Over /\ splan[s] \in Prices \cup {None} /\ scape[s] \in BOOLEAN
  BY Zenon DEF TypeOK, Live
<1>2. CASE o = "change" /\ Change(s, "updated", sstatus[s], p, scape[s])
  BY Zenon, <1>1, <1>2 DEF StripeEffect, EventTypes
<1>3. CASE o = "cancel" /\ Change(s, "updated", sstatus[s], splan[s], TRUE)
  BY Zenon, <1>1, <1>3 DEF StripeEffect, EventTypes
<1>4. CASE o = "resume" /\ Change(s, "updated", sstatus[s], splan[s], FALSE)
  BY Zenon, <1>1, <1>4 DEF StripeEffect, EventTypes
<1>5. CASE o = "cancel_now" /\ CancelAtStripe(s)
  BY Zenon, <1>1, <1>5 DEF StripeEffect, EventTypes, CancelAtStripe, StripeStatuses
<1> QED
  BY Zenon, <1>2, <1>3, <1>4, <1>5 DEF Mutate

LEMMA MintEffect ==
    ASSUME TypeOK, NEW r \in Reqs, NEW s \in Subs, Mint(r, s)
    PROVE  StripeEffect
<1>1. plan[r] \in Prices \cup {None} /\ sstatus[s] \notin Over
  BY Zenon DEF TypeOK, Mint, Minted, Prices, None, Over
<1>2. "created" \in EventTypes /\ "incomplete" \in StripeStatuses
  BY Zenon DEF EventTypes, StripeStatuses
<1> QED
  BY Zenon, <1>1, <1>2 DEF StripeEffect, Mint

LEMMA StepStripeEffect ==
    ASSUME IInv, [Next]_vars
    PROVE  StripeEffect
<1>0. TypeOK
  BY Zenon DEF IInv
<1>1. ASSUME NEW s \in Subs, StripeStep(s) PROVE StripeEffect
  <2>1. splan[s] \in Prices \cup {None} /\ scape[s] \in BOOLEAN
    BY Zenon, <1>0 DEF TypeOK
  <2>2. CASE Pay(s)
    BY Zenon, <2>1, <2>2 DEF Pay, StripeEffect, EventTypes, StripeStatuses, Over
  <2>3. CASE PaymentFails(s)
    BY Zenon, <2>1, <2>3 DEF PaymentFails, StripeEffect, EventTypes, StripeStatuses, Over
  <2>4. CASE Abandon(s)
    BY Zenon, <2>1, <2>4 DEF Abandon, StripeEffect, EventTypes, StripeStatuses, Over
  <2>5. CASE End(s)
    BY Zenon, <2>1, <2>5 DEF End, StripeEffect, EventTypes, StripeStatuses, Over
  <2>6. ASSUME NEW p \in Prices, Swap(s, p) PROVE StripeEffect
    BY Zenon, <2>1, <2>6 DEF Swap, StripeEffect, EventTypes, StripeStatuses, Over
  <2> QED
    BY Zenon, <1>1, <2>2, <2>3, <2>4, <2>5, <2>6 DEF StripeStep
<1>2. ASSUME NEW r \in Reqs, CreateCall(r) \/ CreateCallFails(r) PROVE StripeEffect
  BY Zenon, <1>0, <1>2, MintEffect DEF CreateCall, CreateCallFails, StripeEffect
<1>3. ASSUME NEW r \in Reqs, CreateCompensate(r) PROVE StripeEffect
  <2>1. tgt[r] \in Subs
    BY Zenon, <1>3 DEF IInv, RequestsKnown, CreateCompensate
  <2>2. CASE UNCHANGED stripe
    BY Zenon, <2>2 DEF StripeEffect
  <2>3. CASE Live(tgt[r]) /\ CancelAtStripe(tgt[r])
    <3>1. Mutate("cancel_now", tgt[r], None)
      BY Zenon, <2>3 DEF Mutate
    <3> QED
      BY Zenon, <1>0, <2>1, <2>3, <3>1, MutateEffect
  <2> QED
    BY Zenon, <1>3, <2>2, <2>3 DEF CreateCompensate
<1>4. ASSUME NEW r \in Reqs, Call(r) \/ CallFails(r) PROVE StripeEffect
  <2>1. tgt[r] \in Subs /\ plan[r] \in Prices \cup {None}
    BY Zenon, <1>0, <1>4 DEF IInv, RequestsKnown, Call, CallFails, TypeOK, Prices
  <2>2. CASE UNCHANGED stripe
    BY Zenon, <2>2 DEF StripeEffect
  <2>3. CASE Live(tgt[r]) /\ Mutate(op[r], tgt[r], plan[r])
    BY Zenon, <1>0, <2>1, <2>3, MutateEffect
  <2> QED
    BY Zenon, <1>4, <2>2, <2>3 DEF Call, CallFails
<1>5. ASSUME NEW r \in Reqs, Compensate(r) PROVE StripeEffect
  <2>1. tgt[r] \in Subs /\ prev[r] \in Prices \cup {None}
    BY Zenon, <1>0, <1>5 DEF IInv, RequestsKnown, Compensate, TypeOK, Prices
  <2>2. CASE UNCHANGED stripe
    BY Zenon, <2>2 DEF StripeEffect
  <2>3. CASE Live(tgt[r]) /\ Mutate("change", tgt[r], prev[r])
    BY Zenon, <1>0, <2>1, <2>3, MutateEffect
  <2> QED
    BY Zenon, <1>5, <2>2, <2>3 DEF Compensate
<1>6. ASSUME NEW r \in Reqs,
             \/ \E p \in Plans : CreateBegin(r, p)
             \/ \E o \in AllOps, s \in Subs, p \in Plans : Read(r, o, s, p)
             \/ CreateCheck(r) \/ Stamp(r) \/ CreateWrite(r) \/ Write(r)
             \/ CreateWriteFails(r) \/ WriteFails(r) \/ Crash(r)
      PROVE  StripeEffect
  BY Zenon, <1>6 DEF CreateBegin, Read, CreateCheck, Stamp, CreateWrite, Write, CreateWriteFails,
     WriteFails, Crash, StripeEffect
<1>7. ASSUME NEW i \in Ids, DispatchStep(i) \/ DispatchAborts(i) \/ MarkLost(i)
      PROVE  StripeEffect
  BY Zenon, <1>7 DEF DispatchStep, DispatchAborts, MarkLost, Sync, CheckTombstone, CheckExists,
     FallbackInsert, Recheck, MarkCanceled, Entomb, StripeEffect
<1>8. CASE Tick \/ LockExpires \/ UNCHANGED vars
  BY Zenon, <1>8 DEF Tick, LockExpires, vars, StripeEffect
<1> QED
  BY Zenon, <1>1, <1>2, <1>3, <1>4, <1>5, <1>6, <1>7, <1>8 DEF Next, RequestStep, RequestFault

LEMMA StatusMapFact ==
    ASSUME NEW stat \in StripeStatuses
    PROVE  /\ statusMap[stat] \in RowStatuses \ {"absent"}
           /\ statusMap[stat] \in Inactive => stat \in Over
BY DEF StripeStatuses, statusMap, RowStatuses, Inactive, Over

\* What an HTTP write leaves behind.
LEMMA UpdateEffect ==
    ASSUME IInv, NEW r \in Reqs, at[r] = "write", op[r] # "create",
           Mutable(tgt[r]), Update(r)
    PROVE  RowEffect
<1> DEFINE s == tgt[r]
           stat == IF op[r] = "cancel_now" THEN "CANCELED" ELSE rstatus[s]
           p == IF op[r] = "change" THEN plan[r] ELSE rplan[s]
           cape == CASE op[r] = "cancel" -> TRUE
                     [] op[r] = "resume" -> FALSE
                     [] OTHER -> rcape[s]
<1>1. s \in Subs /\ stamp[r] \in 0..now /\ wm[s] <= now /\ (~LateWrites => stamp[r] = now)
  BY DEF IInv, RequestsKnown, RowsKnown, TypeOK
<1>2. p \in Plans \cup {None} /\ cape \in BOOLEAN
  BY Zenon, <1>1 DEF IInv, TypeOK
<1>3. stat \in RowStatuses \ {"absent"} /\ rstatus[s] \notin Inactive
  BY Zenon, <1>1 DEF IInv, TypeOK, Mutable, RowStatuses
<1>4. stat \in Inactive => sstatus[s] \in Over
  BY Zenon, <1>1, <1>3 DEF IInv, RequestsKnown
<1>5. WriteRow(s, stat, p, cape, stamp[r])
  BY Zenon DEF Update
<1>6. ~LateWrites => wm[s] <= stamp[r]
  BY Zenon, <1>1
<1> HIDE DEF s, stat, p, cape
<1> QED
  BY <1>1, <1>2, <1>3, <1>4, <1>5, <1>6 DEF RowEffect

LEMMA StepRowEffect ==
    ASSUME IInv, [Next]_vars
    PROVE  RowEffect
<1>0. TypeOK
  BY Zenon DEF IInv
<1>1. ASSUME NEW r \in Reqs, CreateWrite(r) \/ CreateWriteFails(r) PROVE RowEffect
  <2>1. CASE UNCHANGED rows
    BY Zenon, <2>1 DEF RowEffect
  <2>2. CASE InsertCreated(r) /\ ~Collides(tgt[r], "INCOMPLETE")
    <3>1. tgt[r] \in Subs /\ stamp[r] \in 0..now /\ plan[r] \in Plans \cup {None}
      BY SMTT(60), <1>0, <1>1 DEF IInv, RequestsKnown, TypeOK, CreateWrite, CreateWriteFails
    <3>2. rstatus[tgt[r]] = "absent" /\ wm[tgt[r]] <= stamp[r]
      BY <2>2, <3>1 DEF Collides, IInv, RowsKnown
    <3>3. "INCOMPLETE" \in RowStatuses \ {"absent"} /\ "INCOMPLETE" \notin Inactive /\ "absent" \notin Inactive
      BY Zenon DEF RowStatuses, Inactive
    <3> QED
      BY Zenon, <2>2, <3>1, <3>2, <3>3 DEF RowEffect, InsertCreated
  <2> QED
    BY Zenon, <1>1, <2>1, <2>2 DEF CreateWrite, CreateWriteFails
<1>2. ASSUME NEW r \in Reqs, Write(r) \/ WriteFails(r) PROVE RowEffect
  <2>1. CASE UNCHANGED rows
    BY Zenon, <2>1 DEF RowEffect
  <2>2. CASE Mutable(tgt[r]) /\ Update(r)
    BY Zenon, <1>2, <2>2, UpdateEffect DEF Write, WriteFails
  <2> QED
    BY Zenon, <1>2, <2>1, <2>2 DEF Write, WriteFails
<1>3. ASSUME NEW i \in Ids, i <= n
      PROVE  /\ esub[i] \in Subs
             /\ ecreated[i] \in 0..now
             /\ ecape[i] \in BOOLEAN
             /\ rplan[esub[i]] \in Plans \cup {None}
             /\ rcape[esub[i]] \in BOOLEAN
             /\ eplan[i] # Unsynced => eplan[i] \in Plans \cup {None}
             /\ statusMap[estatus[i]] \in RowStatuses \ {"absent"}
             /\ statusMap[estatus[i]] \in Inactive => sstatus[esub[i]] \in Over
             /\ etype[i] = "deleted" => sstatus[esub[i]] \in Over
  <2>1. i \in 1..n
    BY <1>0, <1>3 DEF TypeOK, Ids
  <2>2. esub[i] \in Subs /\ ecreated[i] \in 0..now /\ estatus[i] \in StripeStatuses
    BY <1>0, <1>3, <2>1 DEF IInv, EventsKnown, TypeOK
  <2>3. /\ ecape[i] \in BOOLEAN
        /\ rplan[esub[i]] \in Plans \cup {None}
        /\ rcape[esub[i]] \in BOOLEAN
        /\ eplan[i] # Unsynced => eplan[i] \in Plans \cup {None}
    BY Zenon, <1>0, <1>3, <2>2 DEF TypeOK, Prices
  <2>4. /\ estatus[i] \in Over => sstatus[esub[i]] \in Over
        /\ etype[i] = "deleted" => estatus[i] = "canceled"
    BY Zenon, <2>1 DEF IInv, EventsKnown
  <2> QED
    BY Zenon, <2>2, <2>3, <2>4, StatusMapFact DEF Over
<1>4. ASSUME NEW i \in Ids, Sync(i) PROVE RowEffect
  <2>1. CASE UNCHANGED rows
    BY Zenon, <2>1 DEF RowEffect
  <2>2. CASE /\ Mutable(esub[i]) /\ wm[esub[i]] < ecreated[i]
             /\ WriteRow(esub[i], statusMap[estatus[i]], Resolved(i, rplan[esub[i]]), ecape[i], ecreated[i])
    <3>1. Resolved(i, rplan[esub[i]]) \in Plans \cup {None}
      BY Zenon, <1>3, <1>4 DEF Sync, Dispatchable, Resolved
    <3>2. rstatus[esub[i]] \notin Inactive /\ wm[esub[i]] <= ecreated[i]
      BY SMTT(60), <1>0, <1>3, <1>4, <2>2 DEF Mutable, TypeOK, Sync, Dispatchable
    <3> QED
      BY <1>3, <1>4, <2>2, <3>1, <3>2 DEF RowEffect, Sync, Dispatchable
  <2> QED
    BY Zenon, <1>4, <2>1, <2>2 DEF Sync
<1>5. ASSUME NEW i \in Ids, FallbackInsert(i) PROVE RowEffect
  <2>1. CASE UNCHANGED rows
    BY Zenon, <2>1 DEF RowEffect
  <2>2. CASE /\ ~Collides(esub[i], statusMap[estatus[i]])
             /\ WriteRow(esub[i], statusMap[estatus[i]], eplan[i], FALSE, ecreated[i])
    <3>1. i <= n /\ eplan[i] # Unsynced
      BY Zenon, <1>5 DEF FallbackInsert, IInv, DispatchesKnown
    <3>2. rstatus[esub[i]] = "absent" /\ wm[esub[i]] <= ecreated[i] /\ "absent" \notin Inactive
      BY <1>3, <2>2, <3>1 DEF Collides, IInv, RowsKnown, Inactive
    <3>3. /\ esub[i] \in Subs /\ ecreated[i] \in 0..now /\ eplan[i] \in Plans \cup {None}
          /\ statusMap[estatus[i]] \in RowStatuses \ {"absent"}
          /\ statusMap[estatus[i]] \in Inactive => sstatus[esub[i]] \in Over
      BY Zenon, <1>3, <3>1
    <3> QED
      BY Zenon, <2>2, <3>2, <3>3 DEF RowEffect
  <2> QED
    BY Zenon, <1>5, <2>1, <2>2 DEF FallbackInsert
<1>6. ASSUME NEW i \in Ids, i <= n, etype[i] = "deleted", Cancelable(i), CancelRow(i)
      PROVE  RowEffect
  <2>1. "CANCELED" \in RowStatuses \ {"absent"}
    BY Zenon DEF RowStatuses
  <2> QED
    BY <1>3, <1>6, <2>1 DEF RowEffect, CancelRow, Cancelable
<1>7. ASSUME NEW i \in Ids, MarkCanceled(i) PROVE RowEffect
  BY Zenon, <1>6, <1>7 DEF MarkCanceled, Dispatchable, RowEffect
<1>8. ASSUME NEW i \in Ids, Entomb(i) PROVE RowEffect
  <2>1. i <= n /\ etype[i] = "deleted"
    BY Zenon, <1>8 DEF Entomb, IInv, DispatchesKnown
  <2>2. CASE UNCHANGED rows
    BY Zenon, <2>2 DEF RowEffect
  <2>3. CASE Cancelable(i) /\ CancelRow(i)
    BY Zenon, <1>6, <2>1, <2>3
  <2>4. CASE /\ eplan[i] # Unsynced /\ rstatus[esub[i]] = "absent"
             /\ WriteRow(esub[i], "CANCELED", eplan[i], FALSE, ecreated[i])
    <3>1. wm[esub[i]] <= ecreated[i] /\ "CANCELED" \in RowStatuses \ {"absent"}
      BY SMTT(60), <1>3, <2>1, <2>4 DEF IInv, RowsKnown, RowStatuses
    <3> QED
      BY Zenon, <1>3, <2>1, <2>4, <3>1 DEF RowEffect
  <2> QED
    BY Zenon, <1>8, <2>2, <2>3, <2>4 DEF Entomb
<1>9. CASE \/ Tick \/ LockExpires \/ UNCHANGED vars
           \/ \E s \in Subs : StripeStep(s)
           \/ \E i \in Ids : \/ CheckTombstone(i) \/ CheckExists(i) \/ Recheck(i)
                             \/ DispatchAborts(i) \/ MarkLost(i)
  BY Zenon, <1>9 DEF Tick, LockExpires, vars, StripeStep, CheckTombstone, CheckExists, Recheck,
     DispatchAborts, MarkLost, RowEffect
<1>10. ASSUME NEW r \in Reqs,
              \/ \E p \in Plans : CreateBegin(r, p)
              \/ \E o \in AllOps, s \in Subs, p \in Plans : Read(r, o, s, p)
              \/ CreateCheck(r) \/ CreateCall(r) \/ Stamp(r) \/ CreateCompensate(r)
              \/ Call(r) \/ Compensate(r) \/ CreateCallFails(r) \/ CallFails(r) \/ Crash(r)
       PROVE  RowEffect
  BY Zenon, <1>10 DEF CreateBegin, Read, CreateCheck, CreateCall, Stamp, CreateCompensate, Call,
     Compensate, CreateCallFails, CallFails, Crash, RowEffect
<1> QED
  BY Zenon, <1>1, <1>2, <1>4, <1>5, <1>7, <1>8, <1>9, <1>10
     DEF Next, RequestStep, RequestFault, DispatchStep

-----------------------------------------------------------------------------
(* What the effects preserve.                                              *)

TypeStripe ==
    /\ sstatus \in [Subs -> StripeStatuses \cup {None}]
    /\ splan \in [Subs -> Prices \cup {None}]
    /\ scape \in [Subs -> BOOLEAN]
    /\ n \in 0..MaxEvents
    /\ etype \in [Ids -> EventTypes \cup {None}]
    /\ esub \in [Ids -> 0..NSubs]
    /\ ecreated \in [Ids -> 0..MaxTime]
    /\ estatus \in [Ids -> StripeStatuses \cup {None}]
    /\ eplan \in [Ids -> Prices \cup {None}]
    /\ ecape \in [Ids -> BOOLEAN]

TypeRows ==
    /\ rstatus \in [Subs -> RowStatuses]
    /\ rplan \in [Subs -> Plans \cup {None}]
    /\ rcape \in [Subs -> BOOLEAN]
    /\ wm \in [Subs -> 0..MaxTime]

TypeReq ==
    /\ op \in [Reqs -> AllOps \cup {None}]
    /\ at \in [Reqs -> Steps]
    /\ tgt \in [Reqs -> 0..NSubs]
    /\ plan \in [Reqs -> Plans \cup {None}]
    /\ prev \in [Reqs -> Plans \cup {None}]
    /\ stamp \in [Reqs -> 0..MaxTime]
    /\ answer \in [Reqs -> Answers]

TypeRest ==
    /\ now \in 2..MaxTime
    /\ pc \in [Ids -> Dispatches]
    /\ tomb \in [Subs -> 0..MaxTime]
    /\ lock \in Reqs \cup {None}
    /\ faults \in 0..MaxFaults

LEMMA TypePartsNext ==
    ASSUME TypeStripe', TypeRows', TypeReq', TypeRest', done' \in SUBSET (1..n')
    PROVE  TypeOK'
BY Zenon DEF TypeOK, TypeStripe, TypeRows, TypeReq, TypeRest

\* What is over at Stripe stays over, and events keep what they say.
StripeMonotone ==
    /\ n' \in Nat /\ n <= n'
    /\ \A s \in Subs : sstatus[s] \in Over => sstatus'[s] \in Over
    /\ \A i \in 1..n : etype'[i] = etype[i] /\ esub'[i] = esub[i] /\ eplan'[i] = eplan[i]

LEMMA StripePreserved ==
    ASSUME TypeOK, EventsKnown, StripeEffect, now' \in Nat, now <= now'
    PROVE  TypeStripe' /\ EventsKnown' /\ StripeMonotone
<1>1. CASE UNCHANGED stripe
  <2>1. TypeStripe' /\ StripeMonotone
    BY <1>1 DEF TypeOK, TypeStripe, StripeMonotone, stripe
  <2>2. EventsKnown'
    BY SMTT(60), <1>1 DEF TypeOK, EventsKnown, stripe, Ids
  <2> QED
    BY Zenon, <2>1, <2>2
<1>2. ASSUME NEW s \in Subs, NEW type \in EventTypes, NEW stat \in StripeStatuses,
             NEW p \in Prices \cup {None}, NEW cape \in BOOLEAN,
             Change(s, type, stat, p, cape), sstatus[s] \notin Over,
             type = "deleted" => stat = "canceled"
      PROVE  TypeStripe' /\ EventsKnown' /\ StripeMonotone
  <2>1. n \in Nat /\ n + 1 \in Ids /\ s \in 0..NSubs /\ Sec(now) \in 0..MaxTime
        /\ Sec(now) <= now' /\ n \in 0..MaxEvents
    <3>1. n \in 0..MaxEvents /\ n < MaxEvents /\ now \in 2..MaxTime
      BY Zenon, <1>2 DEF TypeOK, Change
    <3>2. Sec(now) \in 0..now
      BY <3>1, SecFact
    <3> QED
      BY <3>1, <3>2 DEF Ids, Subs
  <2>2. TypeStripe'
    BY SMTT(60), <1>2, <2>1 DEF TypeOK, TypeStripe, Change
  <2>3. StripeMonotone
    BY SMTT(60), <1>2, <2>1 DEF TypeOK, StripeMonotone, Change, Ids
  <2>4. ASSUME NEW i \in 1..n'
        PROVE  /\ esub'[i] \in Subs
               /\ etype'[i] \in EventTypes
               /\ estatus'[i] \in StripeStatuses
               /\ ecreated'[i] <= now'
               /\ etype'[i] = "deleted" => estatus'[i] = "canceled"
               /\ estatus'[i] \in Over => sstatus'[esub'[i]] \in Over
    <3>1. CASE i = n + 1
      BY Zenon, <1>2, <2>1, <3>1 DEF TypeOK, Change
    <3>2. CASE i \in 1..n
      <4>1. i \in Ids /\ i # n + 1
        BY <2>1, <3>2 DEF Ids
      <4>2. /\ esub'[i] = esub[i] /\ etype'[i] = etype[i] /\ estatus'[i] = estatus[i]
            /\ ecreated'[i] = ecreated[i]
        BY Zenon, <1>2, <4>1 DEF Change, TypeOK
      <4>3. /\ esub[i] \in Subs /\ etype[i] \in EventTypes /\ estatus[i] \in StripeStatuses
            /\ ecreated[i] <= now
            /\ etype[i] = "deleted" => estatus[i] = "canceled"
            /\ estatus[i] \in Over => sstatus[esub[i]] \in Over
        BY Zenon, <3>2 DEF EventsKnown
      <4>4. ecreated[i] <= now'
        BY <4>1, <4>3 DEF TypeOK
      <4> QED
        BY Zenon, <2>3, <4>2, <4>3, <4>4 DEF StripeMonotone
    <3> QED
      BY <1>2, <2>1, <2>4, <3>1, <3>2 DEF Change
  <2> QED
    BY Zenon, <2>2, <2>3, <2>4 DEF EventsKnown
<1> QED
  BY Zenon, <1>1, <1>2 DEF StripeEffect

\* A terminal row stays terminal, a CANCELED one CANCELED.
RowsMonotone ==
    \A s \in Subs :
        /\ rstatus[s] \in Inactive => rstatus'[s] \in Inactive
        /\ rstatus[s] = "CANCELED" => rstatus'[s] = "CANCELED"
        /\ ~LateWrites => wm[s] <= wm'[s]

LEMMA RowsPreserved ==
    ASSUME TypeOK, RowsKnown, TerminalIsOver, RowEffect, StripeMonotone,
           now' \in Nat, now <= now'
    PROVE  TypeRows' /\ RowsKnown' /\ TerminalIsOver' /\ RowsMonotone
<1>1. CASE UNCHANGED rows
  BY SMTT(60), <1>1 DEF rows, TypeOK, TypeRows, RowsKnown, TerminalIsOver, RowsMonotone, StripeMonotone
<1>2. ASSUME NEW s \in Subs, NEW stat \in RowStatuses \ {"absent"},
             NEW p \in Plans \cup {None}, NEW cape \in BOOLEAN, NEW t \in 0..now,
             WriteRow(s, stat, p, cape, t),
             ~LateWrites => wm[s] <= t,
             rstatus[s] \in Inactive => stat = "CANCELED",
             stat \in Inactive => sstatus[s] \in Over
      PROVE  TypeRows' /\ RowsKnown' /\ TerminalIsOver' /\ RowsMonotone
  <2>1. t \in 0..MaxTime /\ t <= now'
    BY <1>2 DEF TypeOK
  <2>2. TypeRows'
    BY Zenon, <1>2, <2>1 DEF TypeOK, TypeRows, WriteRow
  <2>3. RowsKnown'
    BY <1>2, <2>1 DEF TypeOK, RowsKnown, WriteRow
  <2>4. TerminalIsOver'
    BY Zenon, <1>2 DEF TypeOK, TerminalIsOver, WriteRow, StripeMonotone
  <2>5. RowsMonotone
    BY <1>2 DEF TypeOK, RowsMonotone, WriteRow, Inactive
  <2> QED
    BY Zenon, <2>2, <2>3, <2>4, <2>5
<1> QED
  BY Zenon, <1>1, <1>2 DEF RowEffect

LEMMA StepTime ==
    ASSUME TypeOK, [Next]_vars
    PROVE  now' \in Nat /\ now <= now'
<1>1. CASE Tick
  BY <1>1 DEF Tick, TypeOK
<1>2. CASE UNCHANGED now
  BY <1>2 DEF TypeOK
<1>3. ASSUME NEW r \in Reqs,
             \/ \E p \in Plans : CreateBegin(r, p)
             \/ \E o \in AllOps, s \in Subs, p \in Plans : Read(r, o, s, p)
             \/ RequestStep(r) \/ RequestFault(r)
      PROVE  UNCHANGED now
  BY Zenon, <1>3 DEF CreateBegin, Read, RequestStep, RequestFault, CreateCheck, CreateCall, Stamp,
     CreateWrite, CreateCompensate, Call, Write, Compensate, CreateCallFails, CreateWriteFails,
     CallFails, WriteFails, Crash
<1>4. ASSUME NEW i \in Ids, DispatchStep(i) \/ DispatchAborts(i) \/ MarkLost(i)
      PROVE  UNCHANGED now
  BY Zenon, <1>4 DEF DispatchStep, DispatchAborts, MarkLost, Sync, CheckTombstone, CheckExists,
     FallbackInsert, Recheck, MarkCanceled, Entomb
<1>5. CASE LockExpires \/ UNCHANGED vars \/ \E s \in Subs : StripeStep(s)
  BY Zenon, <1>2, <1>5 DEF LockExpires, vars, StripeStep
<1> QED
  BY Zenon, <1>1, <1>2, <1>3, <1>4, <1>5 DEF Next

-----------------------------------------------------------------------------
(* The requests.                                                           *)

LEMMA RequestsKept ==
    ASSUME TypeOK, RequestsKnown, StripeMonotone, UNCHANGED req, now' \in Nat, now <= now',
           now' # now => LateWrites \/ \A r \in Reqs : at[r] # "write"
    PROVE  TypeReq' /\ RequestsKnown'
<1>1. TypeReq'
  BY Zenon DEF TypeOK, TypeReq, req
<1>2. RequestsKnown'
  BY SMTT(60) DEF TypeOK, RequestsKnown, StripeMonotone, req, Subs
<1> QED
  BY Zenon, <1>1, <1>2

\* The requests other than r, when r alone moves.
Others(r) ==
    \A q \in Reqs \ {r} :
        /\ op'[q] = op[q] /\ at'[q] = at[q] /\ tgt'[q] = tgt[q] /\ stamp'[q] = stamp[q]

\* What RequestsKnown says of one request.
Known(r) ==
    /\ \/ at[r] \in {"stamp", "write", "compensate"}
       \/ at[r] = "stripe" /\ op[r] # "create"
       => tgt[r] \in Subs
    /\ at[r] \in {"stamp", "write"} /\ op[r] = "cancel_now" => sstatus[tgt[r]] \in Over
    /\ at[r] = "precheck" => op[r] = "create"
    /\ stamp[r] <= now
    /\ at[r] = "write" /\ ~LateWrites => stamp[r] = now

LEMMA OthersKnown ==
    ASSUME TypeOK, RequestsKnown, StripeMonotone, UNCHANGED now, NEW r \in Reqs,
           Others(r), Known(r)'
    PROVE  RequestsKnown'
<1>1. ASSUME NEW q \in Reqs \ {r} PROVE Known(q)'
  BY Zenon DEF Others, RequestsKnown, StripeMonotone, Known
<1>2. \A q \in Reqs : Known(q)'
  BY Zenon, <1>1
<1> QED
  BY Zenon, <1>2 DEF RequestsKnown, Known

\* The fields of r that a request step may set, and to what.
Frame(r) ==
    /\ op' = op \/ \E v \in AllOps : op' = [op EXCEPT ![r] = v]
    /\ \E v \in Steps : at' = [at EXCEPT ![r] = v]
    /\ tgt' = tgt \/ \E v \in Subs : tgt' = [tgt EXCEPT ![r] = v]
    /\ plan' = plan \/ \E v \in Plans : plan' = [plan EXCEPT ![r] = v]
    /\ prev' = prev \/ \E v \in Plans \cup {None} : prev' = [prev EXCEPT ![r] = v]
    /\ stamp' = stamp \/ stamp' = [stamp EXCEPT ![r] = now]
    /\ answer' = answer \/ \E v \in Answers : answer' = [answer EXCEPT ![r] = v]
    /\ now' = now

LEMMA FrameMoves ==
    ASSUME TypeReq, now \in 0..MaxTime, NEW r \in Reqs, Frame(r)
    PROVE  TypeReq' /\ Others(r)
<1>1. op' \in [Reqs -> AllOps \cup {None}] /\ \A q \in Reqs \ {r} : op'[q] = op[q]
  BY DEF TypeReq, Frame
<1>2. at' \in [Reqs -> Steps] /\ \A q \in Reqs \ {r} : at'[q] = at[q]
  BY DEF TypeReq, Frame
<1>3. tgt' \in [Reqs -> 0..NSubs] /\ \A q \in Reqs \ {r} : tgt'[q] = tgt[q]
  BY DEF TypeReq, Frame, Subs
<1>4. plan' \in [Reqs -> Plans \cup {None}]
  BY DEF TypeReq, Frame
<1>5. prev' \in [Reqs -> Plans \cup {None}]
  BY Zenon DEF TypeReq, Frame
<1>6. stamp' \in [Reqs -> 0..MaxTime] /\ \A q \in Reqs \ {r} : stamp'[q] = stamp[q]
  BY DEF TypeReq, Frame
<1>7. answer' \in [Reqs -> Answers]
  BY Zenon DEF TypeReq, Frame
<1>8. TypeReq'
  BY <1>1, <1>2, <1>3, <1>4, <1>5, <1>6, <1>7, Zenon DEF TypeReq
<1>9. Others(r)
  BY <1>1, <1>2, <1>3, <1>6, Zenon DEF Others
<1> QED
  BY Zenon, <1>8, <1>9

\* A request that is over, or goes to compensate, needs little.
LEMMA Rests ==
    ASSUME RequestsKnown, NEW r \in Reqs, stamp' = stamp, now' = now,
           at'[r] = "done" \/ (at'[r] = "compensate" /\ tgt' = tgt /\ at[r] = "write")
    PROVE  Known(r)'
BY Zenon DEF RequestsKnown, Known

LEMMA RequestMoves ==
    ASSUME TypeOK, RequestsKnown, NEW r \in Reqs,
           \/ \E p \in Plans : CreateBegin(r, p)
           \/ \E o \in AllOps, s \in Subs, p \in Plans : Read(r, o, s, p)
           \/ RequestStep(r)
           \/ RequestFault(r)
    PROVE  TypeReq' /\ Others(r) /\ (StripeMonotone => Known(r)')
<1>a. TypeReq /\ now \in 0..MaxTime
  BY DEF TypeOK, TypeReq
<1>b. at \in [Reqs -> Steps] /\ op \in [Reqs -> AllOps \cup {None}] /\ tgt \in [Reqs -> 0..NSubs]
      /\ stamp \in [Reqs -> 0..MaxTime]
  BY Zenon, <1>a DEF TypeReq
<1>1. ASSUME NEW p \in Plans, CreateBegin(r, p)
      PROVE  TypeReq' /\ Others(r) /\ (StripeMonotone => Known(r)')
  <2>1. Frame(r)
    BY Zenon, <1>1 DEF CreateBegin, Finish, Frame, Go, Steps, Answers, AllOps
  <2>2. /\ at'[r] = "done" \/ (at'[r] = "precheck" /\ op'[r] = "create")
        /\ stamp' = stamp /\ now' = now
    BY Zenon, <1>b, <1>1 DEF CreateBegin, Finish, Go
  <2>9. Known(r)'
    BY Zenon, <2>2, Rests DEF Known, RequestsKnown
  <2> QED
    BY Zenon, <1>a, <2>1, <2>9, FrameMoves
<1>2. ASSUME NEW o \in AllOps, NEW s \in Subs, NEW p \in Plans, Read(r, o, s, p)
      PROVE  TypeReq' /\ Others(r) /\ (StripeMonotone => Known(r)')
  <2>0. rplan[s] \in Plans \cup {None}
    BY Zenon DEF TypeOK
  <2>1. Frame(r)
    BY Zenon, <1>2, <2>0 DEF Read, Frame, Go, Steps, AllOps
  <2>2. /\ at'[r] = "stripe" /\ tgt'[r] = s /\ stamp' = stamp /\ now' = now
    BY Zenon, <1>b, <1>2 DEF Read, Go
  <2>9. Known(r)'
    BY Zenon, <2>2 DEF Known, RequestsKnown
  <2> QED
    BY Zenon, <1>a, <2>1, <2>9, FrameMoves
<1>3. CASE CreateCheck(r)
  <2>1. Frame(r)
    BY Zenon, <1>3 DEF CreateCheck, Finish, Frame, Go, Steps, Answers
  <2>2. /\ at'[r] = "done" \/ (at'[r] = "stripe" /\ at[r] = "precheck" /\ op' = op)
        /\ stamp' = stamp /\ now' = now
    BY Zenon, <1>b, <1>3 DEF CreateCheck, Finish, Go
  <2>9. Known(r)'
    BY Zenon, <2>2, Rests DEF Known, RequestsKnown
  <2> QED
    BY Zenon, <1>a, <2>1, <2>9, FrameMoves
<1>4. CASE CreateCall(r)
  <2>1. Frame(r)
    BY Zenon, <1>4 DEF CreateCall, Frame, Go, Steps, Answers
  <2>2. at'[r] = "stamp" /\ tgt'[r] \in Subs /\ op'[r] = "create" /\ stamp' = stamp /\ now' = now
    BY Zenon, <1>b, <1>4 DEF CreateCall, Go
  <2>9. Known(r)'
    BY Zenon, <2>2 DEF Known, RequestsKnown
  <2> QED
    BY Zenon, <1>a, <2>1, <2>9, FrameMoves
<1>5. CASE CreateCallFails(r)
  <2>1. Frame(r)
    BY Zenon, <1>5 DEF CreateCallFails, Finish, Frame, Go, Steps, Answers
  <2>2. at'[r] = "done" /\ stamp' = stamp /\ now' = now
    BY Zenon, <1>b, <1>5 DEF CreateCallFails, Finish, Go
  <2>9. Known(r)'
    BY Zenon, <2>2, Rests
  <2> QED
    BY Zenon, <1>a, <2>1, <2>9, FrameMoves
<1>6. CASE Stamp(r)
  <2>1. Frame(r)
    BY Zenon, <1>6 DEF Stamp, Frame, Go, Steps, Answers
  <2>2. /\ at[r] = "stamp" /\ at'[r] = "write" /\ stamp'[r] = now /\ now' = now
        /\ op' = op /\ tgt' = tgt /\ sstatus' = sstatus
    BY Zenon, <1>b, <1>6 DEF Stamp, Go, stripe
  <2>3. now <= now
    BY <1>a
  <2>9. Known(r)'
    BY Zenon, <2>2, <2>3 DEF Known, RequestsKnown
  <2> QED
    BY Zenon, <1>a, <2>1, <2>9, FrameMoves
<1>7. CASE CreateWrite(r)
  <2>1. Frame(r)
    BY Zenon, <1>7 DEF CreateWrite, Finish, Frame, Go, Steps, Answers
  <2>2. /\ at'[r] = "done" \/ at'[r] = "compensate"
        /\ at[r] = "write" /\ tgt' = tgt /\ stamp' = stamp /\ now' = now
    BY Zenon, <1>b, <1>7 DEF CreateWrite, Finish, Go
  <2>9. Known(r)'
    BY Zenon, <2>2, Rests
  <2> QED
    BY Zenon, <1>a, <2>1, <2>9, FrameMoves
<1>8. CASE CreateWriteFails(r)
  <2>1. Frame(r)
    BY Zenon, <1>8 DEF CreateWriteFails, Frame, Go, Steps, Answers
  <2>2. /\ at'[r] = "done" \/ at'[r] = "compensate"
        /\ at[r] = "write" /\ tgt' = tgt /\ stamp' = stamp /\ now' = now
    BY Zenon, <1>b, <1>8 DEF CreateWriteFails, Finish, Go
  <2>9. Known(r)'
    BY Zenon, <2>2, Rests
  <2> QED
    BY Zenon, <1>a, <2>1, <2>9, FrameMoves
<1>9. CASE CreateCompensate(r)
  <2>1. Frame(r)
    BY Zenon, <1>9 DEF CreateCompensate, Finish, Frame, Go, Steps, Answers
  <2>2. at'[r] = "done" /\ stamp' = stamp /\ now' = now
    BY Zenon, <1>b, <1>9 DEF CreateCompensate, Finish, Go
  <2>9. Known(r)'
    BY Zenon, <2>2, Rests
  <2> QED
    BY Zenon, <1>a, <2>1, <2>9, FrameMoves
<1>10. CASE Call(r)
  <2>1. Frame(r)
    BY Zenon, <1>10 DEF Call, Frame, Go, Steps, Answers
  <2>2. /\ at[r] = "stripe" /\ op[r] # "create" /\ at'[r] = "stamp"
        /\ op' = op /\ tgt' = tgt /\ stamp' = stamp /\ now' = now
    BY Zenon, <1>b, <1>10 DEF Call, Go
  <2>3. tgt[r] \in Subs
    BY Zenon, <2>2 DEF RequestsKnown
  <2>4. op[r] = "cancel_now" => sstatus'[tgt[r]] = "canceled"
    BY Zenon, <1>10, <2>3 DEF Call, Mutate, CancelAtStripe, Change, TypeOK
  <2>9. Known(r)'
    BY Zenon, <2>2, <2>3, <2>4 DEF Known, RequestsKnown, Over
  <2> QED
    BY Zenon, <1>a, <2>1, <2>9, FrameMoves
<1>11. CASE CallFails(r)
  <2>1. Frame(r)
    BY Zenon, <1>11 DEF CallFails, Finish, Frame, Go, Steps, Answers
  <2>2. at'[r] = "done" /\ stamp' = stamp /\ now' = now
    BY Zenon, <1>b, <1>11 DEF CallFails, Finish, Go
  <2>9. Known(r)'
    BY Zenon, <2>2, Rests
  <2> QED
    BY Zenon, <1>a, <2>1, <2>9, FrameMoves
<1>12. CASE Write(r)
  <2>1. Frame(r)
    BY Zenon, <1>12 DEF Write, WriteRefused, Finish, Frame, Go, Steps, Answers
  <2>2. /\ at'[r] = "done" \/ at'[r] = "compensate"
        /\ at[r] = "write" /\ tgt' = tgt /\ stamp' = stamp /\ now' = now
    BY Zenon, <1>b, <1>12 DEF Write, WriteRefused, Finish, Go
  <2>9. Known(r)'
    BY Zenon, <2>2, Rests
  <2> QED
    BY Zenon, <1>a, <2>1, <2>9, FrameMoves
<1>13. CASE WriteFails(r)
  <2>1. Frame(r)
    BY Zenon, <1>13 DEF WriteFails, WriteRefused, Finish, Frame, Go, Steps, Answers
  <2>2. /\ at'[r] = "done" \/ at'[r] = "compensate"
        /\ at[r] = "write" /\ tgt' = tgt /\ stamp' = stamp /\ now' = now
    BY Zenon, <1>b, <1>13 DEF WriteFails, WriteRefused, Finish, Go
  <2>9. Known(r)'
    BY Zenon, <2>2, Rests
  <2> QED
    BY Zenon, <1>a, <2>1, <2>9, FrameMoves
<1>14. CASE Compensate(r)
  <2>1. Frame(r)
    BY Zenon, <1>14 DEF Compensate, Finish, Frame, Go, Steps, Answers
  <2>2. at'[r] = "done" /\ stamp' = stamp /\ now' = now
    BY Zenon, <1>b, <1>14 DEF Compensate, Finish, Go
  <2>9. Known(r)'
    BY Zenon, <2>2, Rests
  <2> QED
    BY Zenon, <1>a, <2>1, <2>9, FrameMoves
<1>15. CASE Crash(r)
  <2>1. Frame(r)
    BY Zenon, <1>15 DEF Crash, Finish, Frame, Go, Steps, Answers
  <2>2. at'[r] = "done" /\ stamp' = stamp /\ now' = now
    BY Zenon, <1>b, <1>15 DEF Crash, Finish, Go
  <2>9. Known(r)'
    BY Zenon, <2>2, Rests
  <2> QED
    BY Zenon, <1>a, <2>1, <2>9, FrameMoves
<1> QED
  BY Zenon, <1>1, <1>2, <1>3, <1>4, <1>5, <1>6, <1>7, <1>8, <1>9, <1>10, <1>11,
     <1>12, <1>13, <1>14, <1>15, Zenon
     DEF RequestStep, RequestFault

-----------------------------------------------------------------------------
(* The dispatches.                                                         *)

\* One dispatch moves; the event of a deletion is processed with its row CANCELED.
DispatchMove(i) ==
    /\ pc' \in [Ids -> Dispatches]
    /\ \A j \in Ids \ {i} : pc'[j] = pc[j]
    /\ pc'[i] # "idle" =>
          /\ i <= n
          /\ pc'[i] = "entomb" <=> etype[i] = "deleted"
          /\ pc'[i] = "insert" => eplan[i] # Unsynced
    /\ done' \subseteq done \cup {i}
    /\ i \in done' \ done => i <= n /\ (etype[i] = "deleted" => rstatus'[esub[i]] = "CANCELED")

LEMMA DispatchMoves ==
    ASSUME IInv, NEW i \in Ids, DispatchStep(i) \/ DispatchAborts(i) \/ MarkLost(i)
    PROVE  DispatchMove(i)
<1> USE DEF DispatchMove, GoEvent, Processed, Throw, Dispatchable, Dispatches
<1>0. /\ pc \in [Ids -> Dispatches]
      /\ i \in done => i <= n
      /\ i <= n => esub[i] \in Subs
      /\ rstatus \in [Subs -> RowStatuses]
      /\ pc[i] # "idle" =>
            /\ i <= n
            /\ pc[i] = "entomb" <=> etype[i] = "deleted"
            /\ pc[i] = "insert" => eplan[i] # Unsynced
  <2>1. /\ pc \in [Ids -> Dispatches] /\ rstatus \in [Subs -> RowStatuses]
        /\ n \in 0..MaxEvents /\ done \in SUBSET (1..n)
    BY Zenon DEF IInv, TypeOK
  <2>2. \A j \in 1..n : esub[j] \in Subs
    BY Zenon DEF IInv, EventsKnown
  <2>3. (i \in done => i <= n) /\ (i <= n => i \in 1..n)
    BY <2>1 DEF Ids
  <2> QED
    BY Zenon, <2>1, <2>2, <2>3 DEF IInv, DispatchesKnown
<1>1. CASE Sync(i)
  BY Zenon, <1>0, <1>1 DEF Sync
<1>2. CASE CheckTombstone(i)
  BY Zenon, <1>0, <1>2 DEF CheckTombstone
<1>3. CASE CheckExists(i)
  BY Zenon, <1>0, <1>3 DEF CheckExists
<1>4. CASE FallbackInsert(i)
  BY Zenon, <1>0, <1>4 DEF FallbackInsert
<1>5. CASE Recheck(i)
  BY Zenon, <1>0, <1>5 DEF Recheck
<1>6. CASE MarkCanceled(i)
  BY Zenon, <1>0, <1>6 DEF MarkCanceled, CancelRow, WriteRow
<1>7. CASE Entomb(i)
  BY Zenon, <1>0, <1>7 DEF Entomb, CancelRow, WriteRow
<1>8. CASE DispatchAborts(i)
  BY Zenon, <1>0, <1>8 DEF DispatchAborts
<1>9. CASE MarkLost(i)
  BY Zenon, <1>0, <1>9 DEF MarkLost
<1> QED
  BY Zenon, <1>1, <1>2, <1>3, <1>4, <1>5, <1>6, <1>7, <1>8, <1>9 DEF DispatchStep

LEMMA DispatchesPreserved ==
    ASSUME IInv, StripeMonotone, RowsMonotone,
           UNCHANGED <<pc, done>> \/ \E i \in Ids : DispatchMove(i)
    PROVE  DispatchesKnown' /\ DeletionSticks' /\ done' \in SUBSET (1..n')
<1>0. /\ n \in 0..MaxEvents /\ n' \in Nat /\ n <= n'
      /\ done \in SUBSET (1..n)
      /\ \A j \in Ids : j <= n => j \in 1..n /\ esub[j] \in Subs
      /\ \A j \in 1..n : esub[j] \in Subs /\ etype'[j] = etype[j] /\ esub'[j] = esub[j]
                         /\ eplan'[j] = eplan[j]
  <2>1. n \in 0..MaxEvents /\ done \in SUBSET (1..n)
    BY Zenon DEF IInv, TypeOK
  <2>2. \A j \in 1..n : esub[j] \in Subs
    BY Zenon DEF IInv, EventsKnown
  <2>3. \A j \in Ids : j <= n => j \in 1..n
    BY <2>1 DEF Ids
  <2> QED
    BY Zenon, <2>1, <2>2, <2>3 DEF StripeMonotone
<1>1. CASE UNCHANGED <<pc, done>>
  <2>1. DispatchesKnown'
    BY <1>0, <1>1 DEF IInv, DispatchesKnown, Ids
  <2>2. DeletionSticks'
    BY Zenon, <1>0, <1>1 DEF IInv, DeletionSticks, RowsMonotone
  <2> QED
    BY <1>0, <1>1, <2>1, <2>2
<1>2. ASSUME NEW i \in Ids, DispatchMove(i)
      PROVE  DispatchesKnown' /\ DeletionSticks' /\ done' \in SUBSET (1..n')
  <2>1. DispatchesKnown'
    <3>1. ASSUME NEW j \in Ids, pc'[j] # "idle"
          PROVE  /\ j <= n'
                 /\ pc'[j] = "entomb" <=> etype'[j] = "deleted"
                 /\ pc'[j] = "insert" => eplan'[j] # Unsynced
      <4>1. /\ j <= n
            /\ pc'[j] = "entomb" <=> etype[j] = "deleted"
            /\ pc'[j] = "insert" => eplan[j] # Unsynced
        BY SMTT(60), <1>2, <3>1 DEF DispatchMove, IInv, DispatchesKnown
      <4>2. j \in Nat
        BY DEF Ids
      <4> QED
        BY <1>0, <4>1, <4>2
    <3> QED
      BY Zenon, <3>1 DEF DispatchesKnown
  <2>2. done' \in SUBSET (1..n)
    BY <1>0, <1>2 DEF DispatchMove
  <2>3. DeletionSticks'
    <3>1. ASSUME NEW j \in done', etype'[j] = "deleted" PROVE rstatus'[esub'[j]] = "CANCELED"
      <4>1. j \in 1..n
        BY Zenon, <2>2
      <4>2. CASE j \in done
        BY Zenon, <1>0, <3>1, <4>1, <4>2 DEF IInv, DeletionSticks, RowsMonotone
      <4>3. CASE j \notin done
        BY ZenonT(60), <1>0, <1>2, <3>1, <4>1, <4>3 DEF DispatchMove
      <4> QED
        BY Zenon, <4>2, <4>3
    <3> QED
      BY Zenon, <3>1 DEF DeletionSticks
  <2> QED
    BY <1>0, <2>1, <2>2, <2>3
<1> QED
  BY Zenon, <1>1, <1>2

-----------------------------------------------------------------------------
(* The inductive invariant.                                                *)

LEMMA StepRest ==
    ASSUME IInv, [Next]_vars
    PROVE  now' \in 2..MaxTime /\ tomb' \in [Subs -> 0..MaxTime]
           /\ lock' \in Reqs \cup {None} /\ faults' \in 0..MaxFaults
<1>0. TypeRest /\ TypeOK
  BY Zenon DEF IInv, TypeOK, TypeRest
<1> USE <1>0 DEF TypeRest, Fault
<1>1. CASE Tick \/ LockExpires \/ UNCHANGED vars \/ \E s \in Subs : StripeStep(s)
  <2>1. CASE Tick
    <3>1. now < MaxTime /\ now' = now + 1 /\ UNCHANGED <<tomb, lock, faults>>
      BY Zenon, <2>1 DEF Tick
    <3>2. now' \in 2..MaxTime
      BY <3>1
    <3> QED
      BY Zenon, <3>1, <3>2
  <2>2. CASE LockExpires
    BY Zenon, <2>2 DEF LockExpires
  <2>3. CASE UNCHANGED vars
    BY Zenon, <2>3 DEF vars
  <2>4. CASE \E s \in Subs : StripeStep(s)
    BY Zenon, <2>4 DEF StripeStep
  <2> QED
    BY Zenon, <1>1, <2>1, <2>2, <2>3, <2>4
<1>2. ASSUME NEW r \in Reqs,
             \/ \E p \in Plans : CreateBegin(r, p)
             \/ \E o \in AllOps, s \in Subs, p \in Plans : Read(r, o, s, p)
             \/ CreateCheck(r) \/ CreateCall(r) \/ Stamp(r) \/ CreateWrite(r) \/ Call(r) \/ Write(r)
      PROVE  now' \in 2..MaxTime /\ tomb' \in [Subs -> 0..MaxTime]
             /\ lock' \in Reqs \cup {None} /\ faults' \in 0..MaxFaults
  BY Zenon, <1>2 DEF CreateBegin, Read, CreateCheck, CreateCall, Stamp, CreateWrite, Call, Write, Release
<1>3. ASSUME NEW r \in Reqs, CreateCompensate(r) \/ Compensate(r) \/ RequestFault(r)
      PROVE  now' \in 2..MaxTime /\ tomb' \in [Subs -> 0..MaxTime]
             /\ lock' \in Reqs \cup {None} /\ faults' \in 0..MaxFaults
  <2>1. UNCHANGED <<now, tomb>>
    BY Zenon, <1>3 DEF RequestFault, CreateCompensate, Compensate, CreateCallFails, CreateWriteFails,
       CallFails, WriteFails, Crash
  <2>2. lock' \in {lock, None}
    BY Zenon, <1>3 DEF RequestFault, CreateCompensate, Compensate, CreateCallFails, CreateWriteFails,
       CallFails, WriteFails, Crash, Release
  <2>3. UNCHANGED faults \/ Fault
    BY Zenon, <1>3 DEF RequestFault, CreateCompensate, Compensate, CreateCallFails, CreateWriteFails,
       CallFails, WriteFails, Crash
  <2> QED
    BY <2>1, <2>2, <2>3
<1>4. ASSUME NEW i \in Ids,
             \/ Sync(i) \/ CheckTombstone(i) \/ CheckExists(i) \/ FallbackInsert(i) \/ Recheck(i)
             \/ MarkCanceled(i) \/ DispatchAborts(i) \/ MarkLost(i)
      PROVE  now' \in 2..MaxTime /\ tomb' \in [Subs -> 0..MaxTime]
             /\ lock' \in Reqs \cup {None} /\ faults' \in 0..MaxFaults
  <2>1. UNCHANGED <<now, tomb, lock>>
    BY Zenon, <1>4 DEF Sync, CheckTombstone, CheckExists, FallbackInsert, Recheck, MarkCanceled,
       DispatchAborts, MarkLost
  <2>2. UNCHANGED faults \/ Fault
    BY Zenon, <1>4 DEF Sync, CheckTombstone, CheckExists, FallbackInsert, Recheck, MarkCanceled,
       DispatchAborts, MarkLost
  <2> QED
    BY <2>1, <2>2
<1>5. ASSUME NEW i \in Ids, Entomb(i)
      PROVE  now' \in 2..MaxTime /\ tomb' \in [Subs -> 0..MaxTime]
             /\ lock' \in Reqs \cup {None} /\ faults' \in 0..MaxFaults
  <2>1. ecreated[i] \in 0..MaxTime
    BY Zenon DEF TypeOK
  <2> QED
    BY Zenon, <1>5, <2>1 DEF Entomb, Bury
<1> QED
  BY Zenon, <1>1, <1>2, <1>3, <1>4, <1>5 DEF Next, RequestStep, DispatchStep

LEMMA InitIInv == Init => IInv
<1> SUFFICES ASSUME Init PROVE IInv
  OBVIOUS
<1>1. TypeOK
  <2>1. /\ 2 \in 2..MaxTime /\ 0 \in 0..MaxTime /\ 0 \in 0..NSubs
        /\ 0 \in 0..MaxEvents /\ 0 \in 0..MaxFaults
    OBVIOUS
  <2> QED
    BY Zenon, <2>1 DEF Init, TypeOK, RowStatuses, Dispatches, Steps, Answers
<1>2. EventsKnown /\ DispatchesKnown /\ RequestsKnown
  <2>1. EventsKnown
    BY DEF Init, EventsKnown
  <2>2. DispatchesKnown
    BY Zenon DEF Init, DispatchesKnown
  <2>3. RequestsKnown
    <3>1. 0 <= now
      BY DEF Init
    <3> QED
      BY Zenon, <3>1 DEF Init, RequestsKnown
  <2> QED
    BY Zenon, <2>1, <2>2, <2>3
<1>3. RowsKnown /\ TerminalIsOver /\ DeletionSticks
  BY DEF Init, RowsKnown, TerminalIsOver, DeletionSticks, Inactive
<1> QED
  BY Zenon, <1>1, <1>2, <1>3 DEF IInv

LEMMA StepIInv ==
    ASSUME IInv, [Next]_vars
    PROVE  IInv' /\ RowsMonotone
<1>0. TypeOK /\ EventsKnown /\ RequestsKnown /\ RowsKnown /\ TerminalIsOver
  BY Zenon DEF IInv
<1>1. now' \in Nat /\ now <= now'
  BY Zenon, <1>0, StepTime
<1>2. TypeStripe' /\ EventsKnown' /\ StripeMonotone
  BY Zenon, <1>0, <1>1, StepStripeEffect, StripePreserved
<1>3. TypeRows' /\ RowsKnown' /\ TerminalIsOver' /\ RowsMonotone
  BY Zenon, <1>0, <1>1, <1>2, StepRowEffect, RowsPreserved
<1>4. CASE \/ Tick \/ LockExpires \/ UNCHANGED vars \/ \E s \in Subs : StripeStep(s)
  <2>1. TypeReq' /\ RequestsKnown'
    <3>1. UNCHANGED req /\ (now' # now => LateWrites \/ \A r \in Reqs : at[r] # "write")
      BY Zenon, <1>4 DEF Tick, LockExpires, vars, StripeStep
    <3> QED
      BY Zenon, <1>0, <1>1, <1>2, <3>1, RequestsKept
  <2>2. UNCHANGED <<pc, done>>
    BY Zenon, <1>4 DEF Tick, LockExpires, vars, StripeStep
  <2>3. DispatchesKnown' /\ DeletionSticks' /\ done' \in SUBSET (1..n')
    BY Zenon, <1>2, <1>3, <2>2, DispatchesPreserved
  <2>4. TypeRest'
    BY Zenon, <1>0, <2>2, StepRest DEF TypeRest, TypeOK
  <2> QED
    BY Zenon, <1>2, <1>3, <2>1, <2>3, <2>4, TypePartsNext DEF IInv
<1>5. ASSUME NEW r \in Reqs,
             \/ \E p \in Plans : CreateBegin(r, p)
             \/ \E o \in AllOps, s \in Subs, p \in Plans : Read(r, o, s, p)
             \/ RequestStep(r)
             \/ RequestFault(r)
      PROVE  IInv'
  <2>1. UNCHANGED <<now, pc, done>>
    BY Zenon, <1>5 DEF CreateBegin, Read, RequestStep, RequestFault, CreateCheck, CreateCall, Stamp,
       CreateWrite, CreateCompensate, Call, Write, Compensate, CreateCallFails,
       CreateWriteFails, CallFails, WriteFails, Crash
  <2>2. TypeReq' /\ RequestsKnown'
    BY Zenon, <1>0, <1>2, <1>5, <2>1, RequestMoves, OthersKnown
  <2>3. DispatchesKnown' /\ DeletionSticks' /\ done' \in SUBSET (1..n')
    BY Zenon, <1>2, <1>3, <2>1, DispatchesPreserved
  <2>4. TypeRest'
    BY Zenon, <1>0, <2>1, StepRest DEF TypeRest, TypeOK
  <2> QED
    BY Zenon, <1>2, <1>3, <2>2, <2>3, <2>4, TypePartsNext DEF IInv
<1>6. ASSUME NEW i \in Ids, DispatchStep(i) \/ DispatchAborts(i) \/ MarkLost(i)
      PROVE  IInv'
  <2>1. UNCHANGED <<now, req>>
    BY Zenon, <1>6 DEF DispatchStep, DispatchAborts, MarkLost, Sync, CheckTombstone, CheckExists,
       FallbackInsert, Recheck, MarkCanceled, Entomb
  <2>2. TypeReq' /\ RequestsKnown'
    BY Zenon, <1>0, <1>1, <1>2, <2>1, RequestsKept
  <2>3. DispatchMove(i) /\ pc' \in [Ids -> Dispatches]
    BY Zenon, <1>6, DispatchMoves DEF DispatchMove
  <2>4. DispatchesKnown' /\ DeletionSticks' /\ done' \in SUBSET (1..n')
    BY Zenon, <1>2, <1>3, <2>3, DispatchesPreserved
  <2>5. TypeRest'
    BY Zenon, <2>3, StepRest DEF TypeRest
  <2> QED
    BY Zenon, <1>2, <1>3, <2>2, <2>4, <2>5, TypePartsNext DEF IInv
<1> QED
  BY Zenon, <1>3, <1>4, <1>5, <1>6 DEF Next

-----------------------------------------------------------------------------
(* The theorems.                                                           *)

(***************************************************************************)
(* The inductive invariant: what the handlers rely on without checking it, *)
(* such as a pending cancellation's subscription being over at Stripe.     *)
(***************************************************************************)
THEOREM Invariance == Spec => []IInv
<1>1. IInv /\ [Next]_vars => IInv'
  BY Zenon, StepIInv
<1> QED
  BY InitIInv, <1>1, PTL DEF Spec

\* The variables keep their types, whatever the numbers of actors and events.
THEOREM TypeCorrect == Spec => []TypeOK
<1>1. IInv => TypeOK
  BY Zenon DEF IInv
<1> QED
  BY Invariance, <1>1, PTL

(***************************************************************************)
(* No late event and no HTTP write brings a terminal row back              *)
(* (subscription.repository's guards on status).                           *)
(***************************************************************************)
THEOREM TerminalStays == Spec => TerminalIsFinal
<1> DEFINE Stays == \A s \in Subs : rstatus[s] \in Inactive => rstatus'[s] \in Inactive
<1>1. IInv /\ [Next]_vars => [Stays]_vars
  BY Zenon, StepIInv DEF RowsMonotone
<1> QED
  BY Invariance, <1>1, PTL DEF Spec, TerminalIsFinal

(***************************************************************************)
(* The watermark never moves back while a write follows its new Date() at  *)
(* once: the guards on last_stripe_event_created_at suffice.               *)
(***************************************************************************)
THEOREM WatermarkStaysMonotone == Spec => WatermarkMonotone
<1> DEFINE Grows == ~LateWrites => \A s \in Subs : wm[s] <= wm'[s]
<1>1. IInv /\ [Next]_vars => [Grows]_vars
  BY Zenon, StepIInv DEF RowsMonotone
<1> QED
  BY Invariance, <1>1, PTL DEF Spec, WatermarkMonotone

(***************************************************************************)
(* A processed deletion leaves a CANCELED row for good, whatever arrives   *)
(* later and whichever faults come in between.                             *)
(***************************************************************************)
THEOREM DeletionsStick == Spec => []DeletionSticks
<1>1. IInv => DeletionSticks
  BY Zenon DEF IInv
<1> QED
  BY Invariance, <1>1, PTL

(***************************************************************************)
(* A row is terminal only if the subscription is over at Stripe, although  *)
(* calls to Stripe and writes of the row are separate steps.               *)
(***************************************************************************)
THEOREM NobodyIsCutOff == Spec => []TerminalIsOver
<1>1. IInv => TerminalIsOver
  BY Zenon DEF IInv
<1> QED
  BY Invariance, <1>1, PTL

-----------------------------------------------------------------------------
(* Two live subscriptions.  A live subscription is tracked: by its row, by *)
(* the create that minted it, or by a failed one, which excuses it.  While *)
(* the lock holds, a create past its precheck is alone.                    *)

Failed == {"unavailable", "lost", "rolled_back"}
Minting == {"stamp", "write", "compensate"}

Creating(r) == op[r] = "create" /\ at[r] \in {"precheck", "stripe"} \cup Minting
Excused(s) == \E r \in Reqs : op[r] = "create" /\ tgt[r] = s /\ answer[r] \in Failed
Pending(s) == \E r \in Reqs : op[r] = "create" /\ tgt[r] = s /\ at[r] \in Minting

Answered == \A r \in Reqs : answer[r] # None => at[r] = "done"
Locked == ~LockLapses => \A r \in Reqs : Creating(r) => lock = r
OneRow == \A s, t \in Subs : Mutable(s) /\ Mutable(t) => s = t
Tracked == \A s \in Subs : Live(s) => Mutable(s) \/ Pending(s) \/ Excused(s)
Alone ==
    ~LockLapses =>
        \A r \in Reqs, s \in Subs : Creating(r) /\ at[r] # "precheck" /\ Live(s) =>
            Excused(s) \/ (tgt[r] = s /\ at[r] # "stripe")

Creates == Answered /\ Locked /\ OneRow /\ Tracked /\ Alone
\* The requests other than r stand still, and r was not done.
Only(r) ==
    /\ at[r] # "done"
    /\ \A q \in Reqs \ {r} :
          op'[q] = op[q] /\ at'[q] = at[q] /\ tgt'[q] = tgt[q] /\ answer'[q] = answer[q]

NoneBorn == \A s \in Subs : Live(s)' => Live(s)

\* What a step may do to a create.
Rest ==
    /\ UNCHANGED <<op, at, tgt, answer>>
    /\ ~LockLapses => \A q \in Reqs : lock = q /\ at[q] # "done" => lock' = q
    /\ NoneBorn
Begins(r) ==
    /\ Only(r) /\ at'[r] = "precheck" /\ answer'[r] = answer[r] /\ at[r] = "idle"
    /\ lock = None /\ lock' = r /\ NoneBorn
Passes(r) ==
    /\ Only(r) /\ at[r] = "precheck" /\ at'[r] = "stripe" /\ answer'[r] = answer[r]
    /\ op[r] = "create" /\ lock' = lock /\ ~ActiveRow /\ NoneBorn
Mints(r) ==
    /\ Only(r) /\ at[r] = "stripe" /\ at'[r] = "stamp" /\ answer'[r] = answer[r]
    /\ op[r] = "create" /\ op'[r] = "create" /\ lock' = lock
    /\ tgt'[r] \in Subs /\ \A s \in Subs : Live(s)' => Live(s) \/ s = tgt'[r]
Stays(r) ==
    /\ Only(r) /\ at[r] \in Minting /\ at'[r] \in Minting /\ answer'[r] = answer[r]
    /\ op[r] = "create" /\ op'[r] = "create" /\ tgt'[r] = tgt[r] /\ lock' = lock /\ NoneBorn
Leaves(r) ==
    /\ Only(r) /\ ~Creating(r)'
    /\ lock' = lock \/ lock = r
    /\ answer'[r] # answer[r] => at'[r] = "done"
    /\ op[r] = "create" /\ at[r] \in Minting =>
          /\ op'[r] = "create" /\ tgt'[r] = tgt[r]
          /\ answer'[r] \in Failed \/ Mutable(tgt[r])'
    /\ \A s \in Subs : Live(s)' =>
          Live(s) \/ (op'[r] = "create" /\ tgt'[r] = s /\ answer'[r] \in Failed)

CreateMove ==
    Rest \/ \E r \in Reqs : Begins(r) \/ Passes(r) \/ Mints(r) \/ Stays(r) \/ Leaves(r)

\* Rows become mutable one at a time.
RowMove ==
    \/ \A s \in Subs : Mutable(s)' => Mutable(s)
    \/ ~ActiveRow /\ \E s \in Subs : \A t \in Subs : Mutable(t)' => t = s

\* A change of a live subscription bears none.
LEMMA ChangeBearsNone ==
    ASSUME TypeOK, NEW s \in Subs, NEW type, NEW stat, NEW p, NEW cape,
           Live(s), Change(s, type, stat, p, cape)
    PROVE  NoneBorn
  BY Zenon DEF TypeOK, Change, Live, NoneBorn

LEMMA MutateBearsNone ==
    ASSUME TypeOK, NEW o, NEW s \in Subs, NEW p, Live(s), Mutate(o, s, p)
    PROVE  NoneBorn
  BY Zenon, ChangeBearsNone DEF Mutate, CancelAtStripe

LEMMA StillBearsNone ==
    ASSUME UNCHANGED stripe
    PROVE  NoneBorn
  BY Zenon DEF stripe, NoneBorn, Live

LEMMA MintBears ==
    ASSUME TypeOK, NEW r \in Reqs, NEW s \in Subs, Mint(r, s)
    PROVE  \A t \in Subs : Live(t)' => Live(t) \/ t = s
  BY Zenon DEF TypeOK, Mint, Change, Live

\* Requests that create.
LEMMA CreateMoves ==
    ASSUME TypeOK, RequestsKnown, NEW r \in Reqs,
           \/ \E p \in Plans : CreateBegin(r, p)
           \/ CreateCheck(r) \/ CreateCall(r) \/ CreateCallFails(r)
    PROVE  CreateMove
<1>0. /\ at \in [Reqs -> Steps] /\ op \in [Reqs -> AllOps \cup {None}]
      /\ tgt \in [Reqs -> 0..NSubs] /\ answer \in [Reqs -> Answers]
  BY Zenon DEF TypeOK
<1>1. ASSUME NEW p \in Plans, CreateBegin(r, p) PROVE CreateMove
  <2>1. Only(r) /\ at[r] = "idle" /\ NoneBorn
    BY Zenon, <1>0, <1>1, StillBearsNone DEF CreateBegin, Finish, Go, Only
  <2>2. CASE lock = None
    <3>1. at'[r] = "precheck" /\ answer'[r] = answer[r] /\ lock' = r
      BY Zenon, <1>0, <1>1, <2>2 DEF CreateBegin, Go
    <3> QED
      BY Zenon, <2>1, <2>2, <3>1 DEF CreateMove, Begins
  <2>3. CASE lock # None
    <3>1. at'[r] = "done" /\ lock' = lock
      BY Zenon, <1>0, <1>1, <2>3 DEF CreateBegin, Finish, Go
    <3> QED
      BY Zenon, <2>1, <3>1 DEF CreateMove, Leaves, Creating, Minting, NoneBorn
  <2> QED
    BY Zenon, <2>2, <2>3
<1>2. CASE CreateCheck(r)
  <2>1. Only(r) /\ at[r] = "precheck" /\ op[r] = "create" /\ NoneBorn
    BY Zenon, <1>0, <1>2, StillBearsNone DEF CreateCheck, Finish, Go, Only, RequestsKnown
  <2>2. CASE ActiveRow
    <3>1. at'[r] = "done" /\ (lock' = lock \/ lock = r)
      BY Zenon, <1>0, <1>2, <2>2 DEF CreateCheck, Finish, Go, Release
    <3> QED
      BY Zenon, <2>1, <3>1 DEF CreateMove, Leaves, Creating, Minting, NoneBorn
  <2>3. CASE ~ActiveRow
    <3>1. at'[r] = "stripe" /\ answer'[r] = answer[r] /\ lock' = lock
      BY Zenon, <1>0, <1>2, <2>3 DEF CreateCheck, Go
    <3> QED
      BY Zenon, <2>1, <2>3, <3>1 DEF CreateMove, Passes
  <2> QED
    BY Zenon, <2>2, <2>3
<1>3. CASE CreateCall(r)
  <2>1. PICK s \in Subs : Mint(r, s) /\ tgt' = [tgt EXCEPT ![r] = s]
    BY Zenon, <1>3 DEF CreateCall
  <2>2. /\ Only(r) /\ at[r] = "stripe" /\ at'[r] = "stamp" /\ answer'[r] = answer[r]
        /\ op[r] = "create" /\ op'[r] = "create" /\ lock' = lock /\ tgt'[r] = s
    BY Zenon, <1>0, <1>3, <2>1 DEF CreateCall, Go, Only
  <2>3. \A t \in Subs : Live(t)' => Live(t) \/ t = s
    BY Zenon, <2>1, MintBears
  <2> QED
    BY Zenon, <2>2, <2>3 DEF CreateMove, Mints
<1>4. CASE CreateCallFails(r)
  <2>1. /\ at[r] = "stripe" /\ at'[r] = "done" /\ (lock' = lock \/ lock = r)
        /\ op[r] = "create" /\ op'[r] = "create" /\ answer'[r] = "unavailable"
    BY Zenon, <1>0, <1>4 DEF CreateCallFails, Finish, Go, Release
  <2>2. Only(r)
    BY Zenon, <1>0, <1>4 DEF CreateCallFails, Finish, Go, Only
  <2>3. \A t \in Subs : Live(t)' => Live(t) \/ tgt'[r] = t
    <3>1. CASE UNCHANGED <<stripe, tgt>>
      BY Zenon, <3>1, StillBearsNone DEF NoneBorn
    <3>2. ASSUME NEW s \in Subs, Mint(r, s), tgt' = [tgt EXCEPT ![r] = s]
          PROVE  \A t \in Subs : Live(t)' => Live(t) \/ tgt'[r] = t
      <4>1. tgt'[r] = s
        BY Zenon, <1>0, <3>2
      <4> QED
        BY Zenon, <3>2, <4>1, MintBears
    <3> QED
      BY Zenon, <1>4, <3>1, <3>2 DEF CreateCallFails
  <2> QED
    BY Zenon, <2>1, <2>2, <2>3 DEF CreateMove, Leaves, Creating, Minting, Failed
<1> QED
  BY Zenon, <1>1, <1>2, <1>3, <1>4

LEMMA CreateEndMoves ==
    ASSUME TypeOK, RequestsKnown, NEW r \in Reqs,
           \/ (Stamp(r) /\ op[r] = "create") \/ CreateWrite(r) \/ CreateWriteFails(r)
           \/ CreateCompensate(r) \/ Crash(r)
    PROVE  CreateMove
<1>0. /\ at \in [Reqs -> Steps] /\ op \in [Reqs -> AllOps \cup {None}]
      /\ tgt \in [Reqs -> 0..NSubs] /\ answer \in [Reqs -> Answers]
      /\ rstatus \in [Subs -> RowStatuses]
  BY Zenon DEF TypeOK
<1>1. CASE Stamp(r) /\ op[r] = "create"
  <2>1. /\ Only(r) /\ at[r] \in Minting /\ at'[r] \in Minting /\ answer'[r] = answer[r]
        /\ op[r] = "create" /\ op'[r] = "create" /\ tgt'[r] = tgt[r] /\ lock' = lock
    BY Zenon, <1>0, <1>1 DEF Stamp, Go, Only, Minting
  <2> QED
    BY Zenon, <1>1, <2>1, StillBearsNone DEF CreateMove, Stays, Stamp
<1>2. CASE CreateWrite(r)
  <2>1. /\ Only(r) /\ at[r] \in Minting /\ op[r] = "create" /\ op'[r] = "create"
        /\ tgt'[r] = tgt[r]
    BY Zenon, <1>0, <1>2 DEF CreateWrite, Finish, Go, Only, Minting
  <2>2. NoneBorn
    BY Zenon, <1>2, StillBearsNone DEF CreateWrite
  <2>3. tgt[r] \in Subs
    BY Zenon, <1>2 DEF CreateWrite, RequestsKnown
  <2>4. CASE Collides(tgt[r], "INCOMPLETE")
    <3>1. at'[r] \in Minting /\ answer'[r] = answer[r] /\ lock' = lock
      BY Zenon, <1>0, <1>2, <2>4 DEF CreateWrite, Go, Minting
    <3> QED
      BY Zenon, <2>1, <2>2, <3>1 DEF CreateMove, Stays
  <2>5. CASE ~Collides(tgt[r], "INCOMPLETE")
    <3>1. at'[r] = "done" /\ (lock' = lock \/ lock = r)
      BY Zenon, <1>0, <1>2, <2>5 DEF CreateWrite, Finish, Go, Release
    <3>2. Mutable(tgt[r])'
      <4>1. rstatus'[tgt[r]] = "INCOMPLETE" /\ tgt' = tgt
        BY Zenon, <1>0, <1>2, <2>3, <2>5 DEF CreateWrite, InsertCreated, WriteRow
      <4> QED
        BY Zenon, <4>1 DEF Mutable, Inactive
    <3> QED
      BY Zenon, <2>1, <2>2, <3>1, <3>2 DEF CreateMove, Leaves, Creating, Minting, NoneBorn
  <2> QED
    BY Zenon, <2>4, <2>5
<1>3. CASE CreateWriteFails(r)
  <2>1. /\ Only(r) /\ at[r] \in Minting /\ at'[r] \in Minting /\ answer'[r] = answer[r]
        /\ op[r] = "create" /\ op'[r] = "create" /\ tgt'[r] = tgt[r] /\ lock' = lock
    BY Zenon, <1>0, <1>3 DEF CreateWriteFails, Go, Only, Minting
  <2> QED
    BY Zenon, <1>3, <2>1, StillBearsNone DEF CreateMove, Stays, CreateWriteFails
<1>4. CASE CreateCompensate(r)
  <2>1. /\ Only(r) /\ op[r] = "create" /\ op'[r] = "create" /\ tgt'[r] = tgt[r]
        /\ at'[r] = "done" /\ answer'[r] = "rolled_back" /\ (lock' = lock \/ lock = r)
    BY Zenon, <1>0, <1>4 DEF CreateCompensate, Finish, Go, Only, Release
  <2>2. tgt[r] \in Subs
    BY Zenon, <1>4 DEF CreateCompensate, RequestsKnown
  <2>3. NoneBorn
    BY Zenon, <1>4, <2>2, StillBearsNone, ChangeBearsNone DEF CreateCompensate, CancelAtStripe
  <2> QED
    BY Zenon, <2>1, <2>3 DEF CreateMove, Leaves, Creating, Minting, NoneBorn, Failed
<1>5. CASE Crash(r)
  <2>1. /\ Only(r) /\ op'[r] = op[r] /\ tgt'[r] = tgt[r]
        /\ at'[r] = "done" /\ answer'[r] = "lost" /\ lock' = lock
    BY Zenon, <1>0, <1>5 DEF Crash, Finish, Go, Only
  <2>2. NoneBorn
    BY Zenon, <1>5, StillBearsNone DEF Crash
  <2> QED
    BY Zenon, <2>1, <2>2 DEF CreateMove, Leaves, Creating, Minting, NoneBorn, Failed
<1> QED
  BY Zenon, <1>1, <1>2, <1>3, <1>4, <1>5

\* The other operations, the events and the rest of Stripe.
LEMMA OtherMoves ==
    ASSUME TypeOK, RequestsKnown, NEW r \in Reqs,
           \/ \E o \in AllOps, s \in Subs, p \in Plans : Read(r, o, s, p)
           \/ (Stamp(r) /\ op[r] # "create") \/ Call(r) \/ CallFails(r) \/ Write(r)
           \/ WriteFails(r) \/ Compensate(r)
    PROVE  CreateMove
<1>0. /\ at \in [Reqs -> Steps] /\ op \in [Reqs -> AllOps \cup {None}]
      /\ tgt \in [Reqs -> 0..NSubs] /\ answer \in [Reqs -> Answers]
  BY Zenon DEF TypeOK
<1>1. ASSUME Only(r), op'[r] # "create", op[r] # "create" \/ at[r] = "idle", lock' = lock,
             answer'[r] # answer[r] => at'[r] = "done", NoneBorn
      PROVE  CreateMove
  BY Zenon, <1>1 DEF CreateMove, Leaves, Creating, Minting, NoneBorn
<1>2. ASSUME NEW o \in AllOps, NEW s \in Subs, NEW p \in Plans, Read(r, o, s, p)
      PROVE  CreateMove
  <2>1. /\ Only(r) /\ op'[r] # "create" /\ at[r] = "idle" /\ lock' = lock
        /\ answer'[r] = answer[r]
    BY Zenon, <1>0, <1>2 DEF Read, Go, Only
  <2>2. NoneBorn
    BY Zenon, <1>2, StillBearsNone DEF Read
  <2> QED
    BY Zenon, <1>1, <2>1, <2>2
<1>3. CASE Stamp(r) /\ op[r] # "create"
  <2>1. /\ Only(r) /\ op'[r] # "create" /\ lock' = lock /\ answer'[r] = answer[r]
    BY Zenon, <1>0, <1>3 DEF Stamp, Go, Only
  <2>2. NoneBorn
    BY Zenon, <1>3, StillBearsNone DEF Stamp
  <2> QED
    BY Zenon, <1>1, <1>3, <2>1, <2>2
<1>4. CASE Call(r)
  <2>1. /\ Only(r) /\ op'[r] # "create" /\ op[r] # "create" /\ lock' = lock /\ answer'[r] = answer[r]
    BY Zenon, <1>0, <1>4 DEF Call, Go, Only
  <2>2. tgt[r] \in Subs
    BY Zenon, <1>4 DEF Call, RequestsKnown
  <2>3. NoneBorn
    BY Zenon, <1>4, <2>2, MutateBearsNone DEF Call
  <2> QED
    BY Zenon, <1>1, <2>1, <2>3
<1>5. CASE CallFails(r)
  <2>1. /\ Only(r) /\ op'[r] # "create" /\ op[r] # "create" /\ lock' = lock /\ at'[r] = "done"
    BY Zenon, <1>0, <1>5 DEF CallFails, Finish, Go, Only
  <2>2. tgt[r] \in Subs
    BY Zenon, <1>5 DEF CallFails, RequestsKnown
  <2>3. NoneBorn
    BY Zenon, <1>5, <2>2, MutateBearsNone, StillBearsNone DEF CallFails
  <2> QED
    BY Zenon, <1>1, <2>1, <2>3
<1>6. CASE Write(r) \/ WriteFails(r)
  <2>1. /\ Only(r) /\ op'[r] # "create" /\ op[r] # "create" /\ lock' = lock
        /\ answer'[r] # answer[r] => at'[r] = "done"
    BY Zenon, <1>0, <1>6 DEF Write, WriteFails, WriteRefused, Finish, Go, Only
  <2>2. NoneBorn
    BY Zenon, <1>6, StillBearsNone DEF Write, WriteFails
  <2> QED
    BY Zenon, <1>1, <2>1, <2>2
<1>7. CASE Compensate(r)
  <2>1. /\ Only(r) /\ op'[r] # "create" /\ op[r] # "create" /\ lock' = lock /\ at'[r] = "done"
    BY Zenon, <1>0, <1>7 DEF Compensate, Finish, Go, Only
  <2>2. tgt[r] \in Subs
    BY Zenon, <1>7 DEF Compensate, RequestsKnown
  <2>3. NoneBorn
    BY Zenon, <1>7, <2>2, MutateBearsNone, StillBearsNone DEF Compensate
  <2> QED
    BY Zenon, <1>1, <2>1, <2>3
<1> QED
  BY Zenon, <1>2, <1>3, <1>4, <1>5, <1>6, <1>7

LEMMA StepCreateMove ==
    ASSUME IInv, [Next]_vars
    PROVE  CreateMove
<1>0. TypeOK /\ RequestsKnown
  BY Zenon DEF IInv
<1>1. ASSUME UNCHANGED req, UNCHANGED lock, NoneBorn PROVE CreateMove
  BY Zenon, <1>1 DEF CreateMove, Rest, req
<1>2. ASSUME NEW s \in Subs, StripeStep(s) PROVE CreateMove
  <2>1. UNCHANGED req /\ UNCHANGED lock
    BY Zenon, <1>2 DEF StripeStep
  <2>2. Live(s)
    BY Zenon, <1>2 DEF StripeStep, Pay, PaymentFails, Abandon, Swap, End, Live, Over, None
  <2>3. NoneBorn
    BY Zenon, <1>0, <1>2, <2>2, ChangeBearsNone
       DEF StripeStep, Pay, PaymentFails, Abandon, Swap, End
  <2> QED
    BY Zenon, <1>1, <2>1, <2>3
<1>3. CASE LockExpires
  <2>1. NoneBorn
    BY Zenon, <1>3, StillBearsNone DEF LockExpires
  <2> QED
    BY Zenon, <1>3, <2>1 DEF LockExpires, CreateMove, Rest, req
<1>4. ASSUME Tick \/ UNCHANGED vars PROVE CreateMove
  <2>1. UNCHANGED req /\ UNCHANGED lock /\ UNCHANGED stripe
    BY Zenon, <1>4 DEF Tick, vars
  <2> QED
    BY Zenon, <1>1, <2>1, StillBearsNone
<1>5. ASSUME NEW i \in Ids, DispatchStep(i) \/ DispatchAborts(i) \/ MarkLost(i)
      PROVE  CreateMove
  <2>1. UNCHANGED req /\ UNCHANGED lock /\ UNCHANGED stripe
    BY Zenon, <1>5 DEF DispatchStep, DispatchAborts, MarkLost, Sync, CheckTombstone, CheckExists,
       FallbackInsert, Recheck, MarkCanceled, Entomb
  <2> QED
    BY Zenon, <1>1, <2>1, StillBearsNone
<1>6. ASSUME NEW r \in Reqs, RequestStep(r) \/ RequestFault(r) PROVE CreateMove
  BY Zenon, <1>0, <1>6, CreateMoves, CreateEndMoves, OtherMoves DEF RequestStep, RequestFault
<1>7. ASSUME NEW r \in Reqs,
             \/ \E p \in Plans : CreateBegin(r, p)
             \/ \E o \in AllOps, s \in Subs, p \in Plans : Read(r, o, s, p)
      PROVE  CreateMove
  BY Zenon, <1>0, <1>7, CreateMoves, OtherMoves
<1> QED
  BY Zenon, <1>2, <1>3, <1>4, <1>5, <1>6, <1>7 DEF Next

\* No step makes a second row mutable: the partial unique index.
LEMMA WriteRowMove ==
    ASSUME TypeOK, NEW s \in Subs, NEW stat, NEW p, NEW cape, NEW t,
           WriteRow(s, stat, p, cape, t),
           stat \in Inactive \/ Mutable(s) \/ ~ActiveRow
    PROVE  RowMove
<1>1. /\ rstatus'[s] = stat
      /\ \A u \in Subs : u # s => rstatus'[u] = rstatus[u]
  BY Zenon DEF TypeOK, WriteRow
<1>2. CASE stat \in Inactive \/ Mutable(s)
  BY Zenon, <1>1, <1>2 DEF RowMove, Mutable
<1>3. CASE ~ActiveRow
  <2>1. \A u \in Subs : Mutable(u)' => u = s
    BY Zenon, <1>1, <1>3 DEF Mutable, ActiveRow
  <2> QED
    BY Zenon, <1>3, <2>1 DEF RowMove
<1> QED
  BY Zenon, <1>2, <1>3

LEMMA StepRowMove ==
    ASSUME IInv, [Next]_vars
    PROVE  RowMove
<1>0. TypeOK /\ RequestsKnown
  BY Zenon DEF IInv
<1>1. ASSUME UNCHANGED rows PROVE RowMove
  BY Zenon, <1>1 DEF RowMove, rows, Mutable
<1>2. ASSUME Tick \/ LockExpires \/ UNCHANGED vars \/ \E s \in Subs : StripeStep(s)
      PROVE  RowMove
  BY Zenon, <1>1, <1>2 DEF Tick, LockExpires, vars, StripeStep
<1>3. ASSUME NEW r \in Reqs, CreateWrite(r) \/ CreateWriteFails(r) PROVE RowMove
  <2>1. tgt[r] \in Subs
    BY Zenon, <1>3 DEF CreateWrite, CreateWriteFails, RequestsKnown, IInv
  <2>2. UNCHANGED rows \/ (~Collides(tgt[r], "INCOMPLETE") /\ InsertCreated(r))
    BY Zenon, <1>3 DEF CreateWrite, CreateWriteFails
  <2>3. ~Collides(tgt[r], "INCOMPLETE") => ~ActiveRow
    BY Zenon DEF Collides, Inactive
  <2> QED
    BY Zenon, <1>0, <1>1, <2>1, <2>2, <2>3, WriteRowMove DEF InsertCreated
<1>4. ASSUME NEW r \in Reqs, Write(r) \/ WriteFails(r) PROVE RowMove
  <2>1. tgt[r] \in Subs
    BY Zenon, <1>4 DEF Write, WriteFails, RequestsKnown, IInv
  <2>2. UNCHANGED rows \/ (Mutable(tgt[r]) /\ Update(r))
    BY Zenon, <1>4 DEF Write, WriteFails
  <2> QED
    BY Zenon, <1>0, <1>1, <2>1, <2>2, WriteRowMove DEF Update
<1>5. ASSUME NEW r \in Reqs, RequestStep(r) \/ RequestFault(r) PROVE RowMove
  <2>1. \/ UNCHANGED rows \/ CreateWrite(r) \/ CreateWriteFails(r) \/ Write(r) \/ WriteFails(r)
    BY Zenon, <1>5 DEF RequestStep, RequestFault, CreateCheck, CreateCall, Stamp, CreateCompensate,
       Call, Compensate, CreateCallFails, CallFails, Crash
  <2> QED
    BY Zenon, <1>1, <1>3, <1>4, <2>1
<1>6. ASSUME NEW r \in Reqs,
             \/ \E p \in Plans : CreateBegin(r, p)
             \/ \E o \in AllOps, s \in Subs, p \in Plans : Read(r, o, s, p)
      PROVE  RowMove
  BY Zenon, <1>1, <1>6 DEF CreateBegin, Read
<1>7. ASSUME NEW i \in Ids, DispatchStep(i) \/ DispatchAborts(i) \/ MarkLost(i)
      PROVE  RowMove
  <2>0. CASE UNCHANGED rows
    BY Zenon, <1>1, <2>0
  <2>1. CASE ~UNCHANGED rows
    <3>1. Sync(i) \/ FallbackInsert(i) \/ MarkCanceled(i) \/ Entomb(i)
      BY Zenon, <1>7, <2>1 DEF DispatchStep, DispatchAborts, MarkLost, CheckTombstone, CheckExists, Recheck
    <3>2. esub[i] \in Subs
      <4>1. i <= n
        BY Zenon, <3>1 DEF IInv, DispatchesKnown, Sync, MarkCanceled, FallbackInsert, Entomb, Dispatchable
      <4>2. n \in Nat /\ i \in 1..n
        BY <1>0, <4>1 DEF TypeOK, Ids
      <4> QED
        BY Zenon, <4>2 DEF IInv, EventsKnown
    <3>3. CASE Sync(i)
      BY Zenon, <1>0, <2>1, <3>2, <3>3, WriteRowMove DEF Sync
    <3>4. CASE FallbackInsert(i)
      <4>1. ~Collides(esub[i], statusMap[estatus[i]])
        BY Zenon, <2>1, <3>4 DEF FallbackInsert
      <4>2. statusMap[estatus[i]] \in Inactive \/ ~ActiveRow
        BY Zenon, <4>1 DEF Collides
      <4> QED
        BY Zenon, <1>0, <2>1, <3>2, <3>4, <4>1, <4>2, WriteRowMove DEF FallbackInsert
    <3>5. CASE MarkCanceled(i) \/ Entomb(i)
      <4>1. \E p, cape, t : WriteRow(esub[i], "CANCELED", p, cape, t)
        BY Zenon, <2>1, <3>5 DEF MarkCanceled, Entomb, CancelRow
      <4>2. "CANCELED" \in Inactive
        BY Zenon DEF Inactive
      <4> QED
        BY Zenon, <1>0, <3>2, <4>1, <4>2, WriteRowMove
    <3> QED
      BY Zenon, <3>1, <3>3, <3>4, <3>5
  <2> QED
    BY Zenon, <2>0, <2>1
<1> QED
  BY Zenon, <1>2, <1>5, <1>6, <1>7 DEF Next

\* A mutable row stays as long as its subscription lives.
LEMMA LiveRowsStay ==
    ASSUME IInv, IInv', [Next]_vars, NEW s \in Subs, Mutable(s), Live(s)'
    PROVE  Mutable(s)'
<1>1. RowEffect
  BY Zenon, StepRowEffect
<1>2. rstatus'[s] # "absent"
  <2>1. CASE UNCHANGED rows
    BY Zenon, <2>1 DEF rows, Mutable
  <2>2. ASSUME NEW u \in Subs, NEW stat \in RowStatuses \ {"absent"}, NEW p, NEW cape, NEW t,
               WriteRow(u, stat, p, cape, t)
        PROVE  rstatus'[s] # "absent"
    BY Zenon, <2>2 DEF IInv, TypeOK, WriteRow, Mutable
  <2> QED
    BY Zenon, <1>1, <2>1, <2>2 DEF RowEffect
<1>3. rstatus'[s] \notin Inactive
  BY Zenon DEF IInv, TerminalIsOver, Live
<1> QED
  BY Zenon, <1>2, <1>3 DEF Mutable

LEMMA StepCreates ==
    ASSUME IInv, IInv', [Next]_vars, Creates
    PROVE  Creates'
<1>0. CreateMove /\ RowMove
  BY Zenon, StepCreateMove, StepRowMove
<1>a. Answered /\ Locked /\ OneRow /\ Tracked /\ Alone
  BY Zenon DEF Creates
<1>1. Answered'
  BY Zenon, <1>0, <1>a DEF CreateMove, Rest, Begins, Passes, Mints, Stays, Leaves, Only, Answered
<1>2. OneRow'
  BY Zenon, <1>0, <1>a DEF RowMove, OneRow, ActiveRow
<1>3. Locked'
  <2>1. CASE Rest
    BY Zenon, <1>a, <2>1 DEF Rest, Locked, Creating, Minting
  <2>2. ASSUME NEW r \in Reqs, Begins(r) PROVE Locked'
    <3>1. lock = None /\ lock' = r /\ Only(r) /\ None \notin Reqs
      BY Zenon, <2>2, NoneAssumption DEF Begins
    <3>2. ASSUME NEW q \in Reqs, q # r, Creating(q)' PROVE Creating(q)
      BY Zenon, <3>1, <3>2 DEF Only, Creating
    <3> QED
      BY Zenon, <1>a, <3>1, <3>2 DEF Locked
  <2>3. ASSUME NEW r \in Reqs, Passes(r) \/ Mints(r) \/ Stays(r) PROVE Locked'
    BY Zenon, <1>a, <2>3 DEF Passes, Mints, Stays, Only, Locked, Creating, Minting
  <2>4. ASSUME NEW r \in Reqs, Leaves(r) PROVE Locked'
    BY <1>a, <2>4 DEF Leaves, Only, Locked, Creating, Minting
  <2> QED
    BY Zenon, <1>0, <2>1, <2>2, <2>3, <2>4 DEF CreateMove
<1>4. ASSUME NEW s \in Subs, Excused(s) PROVE Excused(s)'
  <2>1. PICK q \in Reqs : op[q] = "create" /\ tgt[q] = s /\ answer[q] \in Failed
    BY Zenon, <1>4 DEF Excused
  <2>2. at[q] = "done"
    BY Zenon, <1>a, <2>1 DEF Answered, Failed, None
  <2>3. op'[q] = op[q] /\ tgt'[q] = tgt[q] /\ answer'[q] = answer[q]
    BY Zenon, <1>0, <2>2 DEF CreateMove, Rest, Begins, Passes, Mints, Stays, Leaves, Only
  <2> QED
    BY Zenon, <2>1, <2>3 DEF Excused
<1>5. ASSUME NEW s \in Subs, Pending(s), Live(s)' PROVE Mutable(s)' \/ Pending(s)' \/ Excused(s)'
  <2>1. PICK q \in Reqs : op[q] = "create" /\ tgt[q] = s /\ at[q] \in Minting
    BY Zenon, <1>5 DEF Pending
  <2>2. /\ op'[q] = "create" /\ tgt'[q] = s
        /\ at'[q] \in Minting \/ answer'[q] \in Failed \/ Mutable(s)'
    <3>1. ASSUME NEW r \in Reqs, r # q, Only(r)
          PROVE  op'[q] = "create" /\ tgt'[q] = s /\ at'[q] \in Minting
      BY Zenon, <2>1, <3>1 DEF Only
    <3>2. CASE Rest
      BY Zenon, <2>1, <3>2 DEF Rest
    <3>3. ASSUME NEW r \in Reqs, r # q, Begins(r) \/ Passes(r) \/ Mints(r) \/ Stays(r) \/ Leaves(r)
          PROVE  op'[q] = "create" /\ tgt'[q] = s /\ at'[q] \in Minting
      BY Zenon, <3>1, <3>3 DEF Begins, Passes, Mints, Stays, Leaves
    <3>4. CASE Begins(q) \/ Passes(q) \/ Mints(q)
      BY Zenon, <2>1, <3>4 DEF Begins, Passes, Mints, Minting
    <3>5. CASE Stays(q)
      BY Zenon, <2>1, <3>5 DEF Stays
    <3>6. CASE Leaves(q)
      <4>1. /\ op'[q] = "create" /\ tgt'[q] = tgt[q]
            /\ answer'[q] \in Failed \/ Mutable(tgt[q])'
        BY Zenon, <2>1, <3>6 DEF Leaves
      <4> QED
        BY Zenon, <2>1, <4>1 DEF Mutable
    <3> QED
      BY Zenon, <1>0, <3>2, <3>3, <3>4, <3>5, <3>6 DEF CreateMove
  <2> QED
    BY Zenon, <2>2 DEF Pending, Excused
<1>6. ASSUME NEW s \in Subs, Live(s)', ~Live(s)
      PROVE  \/ Excused(s)' /\ \E r \in Reqs : Leaves(r)
             \/ \E r \in Reqs : Mints(r) /\ tgt'[r] = s
  BY Zenon, <1>0, <1>6 DEF CreateMove, Rest, NoneBorn, Begins, Passes, Mints, Stays, Leaves, Excused
<1>7. Tracked'
  <2> SUFFICES ASSUME NEW s \in Subs, Live(s)' PROVE Mutable(s)' \/ Pending(s)' \/ Excused(s)'
    BY Zenon DEF Tracked
  <2>1. CASE Live(s)
    BY Zenon, <1>a, <1>4, <1>5, <2>1, LiveRowsStay DEF Tracked
  <2>2. CASE ~Live(s)
    <3>1. ASSUME NEW r \in Reqs, Mints(r), tgt'[r] = s PROVE Pending(s)'
      BY Zenon, <3>1 DEF Mints, Pending, Minting
    <3> QED
      BY Zenon, <1>6, <2>2, <3>1
  <2> QED
    BY Zenon, <2>1, <2>2

<1>8. Alone'
  <2> SUFFICES ASSUME ~LockLapses, NEW r \in Reqs, NEW s \in Subs,
                      Creating(r)', at'[r] # "precheck", Live(s)'
               PROVE  Excused(s)' \/ (tgt'[r] = s /\ at'[r] # "stripe")
    BY Zenon DEF Alone
  <2>1. CASE ~Live(s)
    <3>1. ASSUME NEW m \in Reqs, Mints(m), tgt'[m] = s PROVE tgt'[r] = s /\ at'[r] # "stripe"
      <4>1. Creating(m)' /\ at'[m] = "stamp"
        BY Zenon, <3>1 DEF Mints, Creating, Minting
      <4>2. m = r
        BY Zenon, <1>3, <4>1 DEF Locked
      <4> QED
        BY Zenon, <3>1, <4>1, <4>2
    <3> QED
      BY Zenon, <1>6, <2>1, <3>1
  <2>2. CASE Live(s) /\ Creating(r) /\ at[r] # "precheck"
    <3>1. CASE Excused(s)
      BY Zenon, <1>4, <3>1
    <3>2. CASE tgt[r] = s /\ at[r] # "stripe"
      <4>1. at[r] \in Minting
        BY Zenon, <2>2, <3>2 DEF Creating
      <4>2. tgt'[r] = s /\ at'[r] \in Minting
        <5>1. CASE Rest
          BY Zenon, <3>2, <4>1, <5>1 DEF Rest
        <5>2. ASSUME NEW q \in Reqs, q # r, Only(q) PROVE tgt'[r] = s /\ at'[r] \in Minting
          BY Zenon, <3>2, <4>1, <5>2 DEF Only
        <5>3. ASSUME NEW q \in Reqs, q # r,
                     Begins(q) \/ Passes(q) \/ Mints(q) \/ Stays(q) \/ Leaves(q)
              PROVE  tgt'[r] = s /\ at'[r] \in Minting
          BY Zenon, <5>2, <5>3 DEF Begins, Passes, Mints, Stays, Leaves
        <5>4. CASE Begins(r) \/ Passes(r) \/ Mints(r)
          BY Zenon, <4>1, <5>4 DEF Begins, Passes, Mints, Minting
        <5>5. CASE Stays(r)
          BY Zenon, <3>2, <5>5 DEF Stays
        <5>6. CASE Leaves(r)
          BY Zenon, <5>6 DEF Leaves
        <5> QED
          BY Zenon, <1>0, <5>1, <5>3, <5>4, <5>5, <5>6 DEF CreateMove
      <4> QED
        BY Zenon, <4>2 DEF Minting
    <3> QED
      BY Zenon, <1>a, <2>2, <3>1, <3>2 DEF Alone
  <2>3. CASE Live(s) /\ ~(Creating(r) /\ at[r] # "precheck")
    <3>1. Passes(r)
      <4>1. CASE Rest
        BY Zenon, <2>3, <4>1 DEF Rest, Creating
      <4>2. ASSUME NEW q \in Reqs, q # r, Only(q) PROVE FALSE
        BY Zenon, <2>3, <4>2 DEF Only, Creating
      <4>3. ASSUME NEW q \in Reqs, q # r,
                   Begins(q) \/ Passes(q) \/ Mints(q) \/ Stays(q) \/ Leaves(q)
            PROVE  FALSE
        BY Zenon, <4>2, <4>3 DEF Begins, Passes, Mints, Stays, Leaves
      <4>4. CASE Begins(r) \/ Leaves(r)
        BY Zenon, <4>4 DEF Begins, Leaves
      <4>5. CASE Mints(r) \/ Stays(r)
        BY Zenon, <2>3, <4>5 DEF Mints, Stays, Creating, Minting
      <4> QED
        BY Zenon, <1>0, <4>1, <4>3, <4>4, <4>5 DEF CreateMove
    <3>2. Creating(r) /\ at[r] = "precheck" /\ ~Mutable(s)
      BY Zenon, <3>1 DEF Passes, Creating, ActiveRow
    <3>3. ~Pending(s)
      <4>1. ASSUME NEW q \in Reqs, op[q] = "create", at[q] \in Minting PROVE FALSE
        <5>1. Creating(q) /\ q # r
          BY Zenon, <3>2, <4>1 DEF Creating, Minting
        <5> QED
          BY Zenon, <1>a, <3>2, <5>1 DEF Locked
      <4> QED
        BY Zenon, <4>1 DEF Pending
    <3> QED
      BY Zenon, <1>a, <1>4, <2>3, <3>2, <3>3 DEF Tracked
  <2> QED
    BY Zenon, <2>1, <2>2, <2>3
<1> QED
  BY Zenon, <1>1, <1>2, <1>3, <1>7, <1>8 DEF Creates

LEMMA InitCreates == Init => Creates
<1> SUFFICES ASSUME Init PROVE Creates
  OBVIOUS
<1>1. \A s \in Subs : ~Live(s) /\ ~Mutable(s)
  BY Zenon DEF Init, Live, Mutable
<1>2. \A r \in Reqs : answer[r] = None /\ ~Creating(r)
  BY Zenon DEF Init, Creating, Minting
<1> QED
  BY Zenon, <1>1, <1>2 DEF Creates, Answered, Locked, OneRow, Tracked, Alone

(***************************************************************************)
(* While the create lock outlives its holder's work, one organization has  *)
(* two live subscriptions at Stripe only after a create failed half way,   *)
(* whatever the other operations and the dispatch of events do to the rows *)
(* that SubscriptionService.create checks.                                 *)
(***************************************************************************)
THEOREM TwoLiveAfterAFault == Spec => []TwoLiveNeedAFault
<1>1. Creates => TwoLiveNeedAFault
  <2> SUFFICES ASSUME Creates, ~LockLapses, NEW s \in Subs, NEW t \in Subs,
                      Live(s), Live(t), s # t
               PROVE  Excused(s) \/ Excused(t)
    BY DEF TwoLiveNeedAFault, Excused, Failed
  <2>1. Locked /\ OneRow /\ Tracked /\ Alone
    BY Zenon DEF Creates
  <2>2. ASSUME NEW u \in Subs, NEW v \in Subs, u # v, Live(u), Live(v), Pending(u) PROVE Excused(v)
    <3>1. PICK q \in Reqs : op[q] = "create" /\ tgt[q] = u /\ at[q] \in Minting
      BY Zenon, <2>2 DEF Pending
    <3> QED
      BY Zenon, <2>1, <2>2, <3>1 DEF Alone, Creating, Minting
  <2> QED
    BY Zenon, <2>1, <2>2 DEF Tracked, OneRow
<1>2. IInv /\ Creates /\ [Next]_vars => Creates'
  BY Zenon, StepIInv, StepCreates
<1> QED
  BY <1>1, <1>2, InitCreates, Invariance, PTL DEF Spec

=============================================================================
