----------------------------- MODULE Membership -----------------------------
(***************************************************************************)
(* The members of one team organization with a subscription: the live row  *)
(* of tenancy.memberships each user has (at most one, by the partial       *)
(* unique index), the invitation that created it, the owner, the API keys  *)
(* members have created, and the seat ceiling an added member is held to.  *)
(*                                                                         *)
(* Postgres runs at READ COMMITTED: a transaction is one step per          *)
(* statement others can observe.  The permissions each route asks for, the *)
(* roles, and the emails are left out.                                     *)
(***************************************************************************)
EXTENDS Naturals, FiniteSets

CONSTANTS
    Proc,        \* concurrent requests
    User,
    Founder,     \* the user who has created the organization
    Creator,     \* users who create API keys
    Ceilings,    \* seat ceilings billing may decide on
    Plans,       \* included_seats of the plans to move to
    None

ASSUME FounderAssumption == Founder \in User

ASSUME UsersAssumption == IsFiniteSet(User) /\ None \notin Proc

ASSUME CeilingsAssumption == Ceilings \subseteq Nat \ {0}

VARIABLES
    owner,   \* organizations.owner_user_id
    st,      \* user -> status of the live membership, none without one
    joined,  \* user -> joined_at of the live row is set
    inv,     \* user -> state of the invitation of the live row
    keys,    \* users with a live API key they have created
    ceiling, \* subscriptions.seats ?? included_seats of the plan
    lock,    \* holder of the MEMBERSHIP_SEAT lock and of the subscription row
    op, pc,  \* process -> what it does, and its next step
    tgt,     \* process -> the user it is about
    want,    \* process -> the status to write
    cand,    \* process -> members whose rows to suspend
    stale    \* history: kinds of crossings in which a read was outdated when it was used

tables == <<owner, st, joined, inv, keys>>
local == <<op, pc, tgt, want, cand>>
vars == <<tables, ceiling, lock, local, stale>>

Live == {"INVITED", "ACTIVE", "SUSPENDED"}
Ops == {"none", "create", "update", "remove", "transfer", "suspend", "key"}
Steps == {"idle", "seat", "write", "row", "commit"}

TypeOK ==
    /\ owner \in User
    /\ st \in [User -> Live \cup {"none"}]
    /\ joined \in [User -> BOOLEAN]
    /\ inv \in [User -> {"none", "pending", "accepted", "revoked"}]
    /\ keys \in SUBSET User
    /\ ceiling \in Ceilings
    /\ lock \in Proc \cup {None}
    /\ op \in [Proc -> Ops] /\ pc \in [Proc -> Steps]
    /\ tgt \in [Proc -> User \cup {None}]
    /\ want \in [Proc -> Live \cup {"none"}]
    /\ cand \in [Proc -> SUBSET User]
    /\ stale \in SUBSET {"owner", "seat", "key"}

\* An organization that has just subscribed: the founder is its only member.
Init ==
    /\ owner = Founder
    /\ st = [u \in User |-> IF u = Founder THEN "ACTIVE" ELSE "none"]
    /\ joined = [u \in User |-> u = Founder]
    /\ inv = [u \in User |-> "none"]
    /\ keys = {}
    /\ ceiling \in Ceilings
    /\ lock = None
    /\ op = [p \in Proc |-> "none"] /\ pc = [p \in Proc |-> "idle"]
    /\ tgt = [p \in Proc |-> None]
    /\ want = [p \in Proc |-> "none"]
    /\ cand = [p \in Proc |-> {}]
    /\ stale = {}

\* membershipStatusConsumesSeat, countActiveByOrganization.
Consumes(s) == s \in {"INVITED", "ACTIVE"}
Used == Cardinality({u \in User : Consumes(st[u])})

\* assertSeatAvailableForMemberAdd.
SeatFree == Used < ceiling

Go(p, next) == pc' = [pc EXCEPT ![p] = next]

Begin(p, what, next, u) ==
    /\ pc[p] = "idle"
    /\ op' = [op EXCEPT ![p] = what]
    /\ tgt' = [tgt EXCEPT ![p] = u]
    /\ Go(p, next)

At(p, what, step) == op[p] = what /\ pc[p] = step

Reset(done) ==
    /\ op' = [p \in Proc |-> IF p \in done THEN "none" ELSE op[p]]
    /\ pc' = [p \in Proc |-> IF p \in done THEN "idle" ELSE pc[p]]
    /\ tgt' = [p \in Proc |-> IF p \in done THEN None ELSE tgt[p]]
    /\ want' = [p \in Proc |-> IF p \in done THEN "none" ELSE want[p]]
    /\ lock' = IF lock \in done THEN None ELSE lock

\* The request of p is over, committed or refused.
End(p) == Reset({p}) /\ cand' = [cand EXCEPT ![p] = {}]

\* Postgres: an open transaction has deleted the row of u.
RowFree(u) == \A q \in Proc : ~(At(q, "remove", "commit") /\ tgt[q] = u)

\* An open transfer has already looked at the membership of u.
TransferOpen(u) == \E q \in Proc : At(q, "transfer", "commit") /\ tgt[q] = u

\* The request of q has read that u is not the owner, and is about to write
\* another status than ACTIVE to the row of u without looking again.
Demotes(q, u) == (op[q] = "update" /\ tgt[q] = u /\ want[q] # "ACTIVE") \/ u \in cand[q]

\* softDelete of the row of u, by the request of p; its invitation is dead.
\* A request that has read this row will not find it again, even if u gets
\* another one, and is refused.
DropRow(p, u) ==
    LET done == {q \in Proc : q = p \/ (op[q] \in {"update", "remove"} /\ tgt[q] = u)}
    IN  /\ st' = [st EXCEPT ![u] = "none"]
        /\ joined' = [joined EXCEPT ![u] = FALSE]
        /\ inv' = [inv EXCEPT ![u] = "none"]
        /\ Reset(done)
        /\ cand' = [q \in Proc |-> IF q \in done THEN {} ELSE cand[q] \ {u}]

Note(kind, outdated) == stale' = IF outdated THEN stale \cup {kind} ELSE stale

-----------------------------------------------------------------------------
(* MembershipService.create.                                               *)

\* Mutant: the count is taken without the advisory lock.
CreateCheckUnlocked(p, u) ==
    /\ SeatFree
    /\ Begin(p, "create", "commit", u)
    /\ UNCHANGED <<tables, ceiling, lock, want, cand, stale>>

CreateCheck(p, u) ==
    /\ lock = None /\ lock' = p
    /\ SeatFree
    /\ Begin(p, "create", "commit", u)
    /\ UNCHANGED <<tables, ceiling, want, cand, stale>>

\* The unique index refuses a second live row.  createForMembership adds the
\* invitation; its quota, which refuses one too many, is left out.
CreateCommit(p) ==
    LET u == tgt[p]
    IN  /\ At(p, "create", "commit")
        /\ RowFree(u)
        /\ \/ /\ st[u] = "none"
              /\ st' = [st EXCEPT ![u] = "INVITED"]
              /\ inv' = [inv EXCEPT ![u] = "pending"]
           \/ /\ st[u] # "none"
              /\ UNCHANGED <<st, inv>>
        /\ End(p)
        /\ UNCHANGED <<owner, joined, keys, ceiling, stale>>

-----------------------------------------------------------------------------
(* MembershipService.update: the status of somebody else's membership.     *)

UpdateRead(p, u, s) ==
    /\ st[u] # "none" /\ u # owner
    /\ s = "ACTIVE" => joined[u]
    /\ Begin(p, "update", IF s = "ACTIVE" /\ st[u] # "ACTIVE" THEN "seat" ELSE "write", u)
    /\ want' = [want EXCEPT ![p] = s]
    /\ UNCHANGED <<tables, ceiling, lock, cand, stale>>

UpdateSeat(p) ==
    /\ At(p, "update", "seat")
    /\ lock = None
    /\ \/ /\ SeatFree
          /\ lock' = p
          /\ Go(p, "write")
          /\ UNCHANGED <<op, tgt, want, cand>>
       \/ ~SeatFree /\ End(p)
    /\ UNCHANGED <<tables, ceiling, stale>>

\* The UPDATE looks neither at the status nor at the owner again.
UpdateWrite(p) ==
    LET u == tgt[p]
        kinds == (IF TransferOpen(u) /\ want[p] # "ACTIVE" THEN {"owner"} ELSE {})
                 \cup (IF Consumes(want[p]) /\ ~Consumes(st[u]) /\ lock # p THEN {"seat"} ELSE {})
    IN  /\ At(p, "update", "write")
        /\ RowFree(u)
        /\ st' = [st EXCEPT ![u] = want[p]]
        /\ joined' = [joined EXCEPT ![u] = @ \/ want[p] = "ACTIVE"]
        /\ stale' = stale \cup kinds
        /\ End(p)
        /\ UNCHANGED <<owner, inv, keys, ceiling>>

-----------------------------------------------------------------------------
(* MembershipService.delete and leaveOrganization.                         *)

RemoveRead(p, u) ==
    /\ st[u] # "none" /\ u # owner
    /\ Begin(p, "remove", "row", u)
    /\ UNCHANGED <<tables, ceiling, lock, want, cand, stale>>

\* Mutant: softDelete without its NOT EXISTS over the owner.
RemoveRowUnguarded(p) ==
    /\ At(p, "remove", "row")
    /\ RowFree(tgt[p])
    /\ Go(p, "commit")
    /\ Note("owner", TransferOpen(tgt[p]))
    /\ UNCHANGED <<tables, ceiling, lock, op, tgt, want, cand>>

\* softDelete: the statement sees the owner that is committed by now.
RemoveRow(p) ==
    /\ At(p, "remove", "row")
    /\ RowFree(tgt[p])
    /\ \/ /\ tgt[p] # owner
          /\ Go(p, "commit")
          /\ Note("owner", TransferOpen(tgt[p]))
          /\ UNCHANGED <<lock, op, tgt, want, cand>>
       \/ /\ tgt[p] = owner
          /\ End(p)
          /\ UNCHANGED stale
    /\ UNCHANGED <<tables, ceiling>>

\* Mutant: the keys of the member who has left stay alive.
RemoveCommitKeepsKeys(p) ==
    /\ At(p, "remove", "commit")
    /\ DropRow(p, tgt[p])
    /\ UNCHANGED <<owner, keys, ceiling, stale>>

\* revokeApiKeysForDepartedMember, in the same transaction.
RemoveCommit(p) ==
    /\ At(p, "remove", "commit")
    /\ DropRow(p, tgt[p])
    /\ keys' = keys \ {tgt[p]}
    /\ UNCHANGED <<owner, ceiling, stale>>

-----------------------------------------------------------------------------
(* MembershipService.transferOwnership.                                    *)

TransferRead(p, u) ==
    /\ u # owner
    /\ st[u] = "ACTIVE"
    /\ Begin(p, "transfer", "row", u)
    /\ UNCHANGED <<tables, ceiling, lock, want, cand, stale>>

\* updateOwner: the UPDATE of the organization row, which another open
\* transfer holds, sees the memberships that are committed by now.
TransferRow(p) ==
    /\ At(p, "transfer", "row")
    /\ \A q \in Proc : ~At(q, "transfer", "commit")
    /\ \/ /\ st[tgt[p]] = "ACTIVE"
          /\ Go(p, "commit")
          /\ Note("owner", ~RowFree(tgt[p]))
          /\ UNCHANGED <<lock, op, tgt, want, cand>>
       \/ /\ st[tgt[p]] # "ACTIVE"
          /\ End(p)
          /\ UNCHANGED stale
    /\ UNCHANGED <<tables, ceiling>>

TransferCommit(p) ==
    /\ At(p, "transfer", "commit")
    /\ owner' = tgt[p]
    /\ Note("owner", \E q \in Proc : Demotes(q, tgt[p]))
    /\ End(p)
    /\ UNCHANGED <<st, joined, inv, keys, ceiling>>

-----------------------------------------------------------------------------
(* Billing: the ceiling, and the suspension changePlan asks for.           *)

\* A plan change writes the row of the subscription, which an open seat check
\* has locked.  That a dunning subscription has lapsed is read from the clock
\* once, in the check: a lapse before the commit counts as one after it.
CeilingChange(n) ==
    /\ n # ceiling
    /\ lock = None
    /\ ceiling' = n
    /\ UNCHANGED <<tables, lock, local, stale>>

\* suspendExcessActiveMembers: who may be suspended (the latest to join
\* first; the model lets it be any of them).
Candidates == {u \in User : st[u] = "ACTIVE" /\ u # owner}

\* suspendExcessActiveMembersToFitCeiling, n being the included_seats of the
\* plan changePlan has moved to.
SuspendRead(p, n) ==
    /\ Used > n
    /\ \E C \in SUBSET Candidates :
          /\ C # {}
          /\ Cardinality(C) = Used - n \/ (C = Candidates /\ Cardinality(C) < Used - n)
          /\ cand' = [cand EXCEPT ![p] = C]
    /\ Begin(p, "suspend", "write", None)
    /\ UNCHANGED <<tables, ceiling, lock, want, stale>>

\* The UPDATE is by id alone: it looks neither at the status nor at the owner.
SuspendWrite(p) ==
    /\ At(p, "suspend", "write")
    /\ \A u \in cand[p] : RowFree(u)
    /\ st' = [u \in User |-> IF u \in cand[p] THEN "SUSPENDED" ELSE st[u]]
    /\ Note("owner", \E u \in cand[p] : TransferOpen(u))
    /\ End(p)
    /\ UNCHANGED <<owner, joined, inv, keys, ceiling>>

-----------------------------------------------------------------------------
(* Invitations and API keys.                                               *)

\* MemberInvitationService.accept: both UPDATEs take effect or neither.  An
\* invitation that has expired is one that nobody accepts.
Accept(u) ==
    /\ inv[u] = "pending" /\ st[u] = "INVITED"
    /\ RowFree(u)
    /\ inv' = [inv EXCEPT ![u] = "accepted"]
    /\ st' = [st EXCEPT ![u] = "ACTIVE"]
    /\ joined' = [joined EXCEPT ![u] = TRUE]
    /\ UNCHANGED <<owner, keys, ceiling, lock, local, stale>>

\* Mutant: the membership the invitation has created is left behind.
RevokeInvitationOnly(u) ==
    /\ st[u] # "none" /\ inv[u] = "pending"
    /\ RowFree(u)
    /\ inv' = [inv EXCEPT ![u] = "revoked"]
    /\ UNCHANGED <<owner, st, joined, keys, ceiling, lock, local, stale>>

\* MemberInvitationService.revoke: an invitation that has not been accepted,
\* and the membership it has created.
RevokeInvitation(u) ==
    /\ st[u] # "none" /\ inv[u] = "pending"
    /\ RowFree(u)
    /\ \/ u # owner /\ DropRow(None, u)
       \/ u = owner /\ inv' = [inv EXCEPT ![u] = "revoked"] /\ UNCHANGED <<st, joined, lock, local>>
    /\ UNCHANGED <<owner, keys, ceiling, stale>>

\* OrganizationApiKeyService.create: the caller's permissions are looked at
\* before the transaction that inserts the key.
KeyCheck(p, u) ==
    /\ u \in Creator
    /\ st[u] = "ACTIVE"
    /\ Begin(p, "key", "write", u)
    /\ UNCHANGED <<tables, ceiling, lock, want, cand, stale>>

KeyInsert(p) ==
    /\ At(p, "key", "write")
    /\ keys' = keys \cup {tgt[p]}
    /\ Note("key", st[tgt[p]] # "ACTIVE" \/ ~RowFree(tgt[p]))
    /\ End(p)
    /\ UNCHANGED <<owner, st, joined, inv, ceiling>>

KeyDelete(u) ==
    /\ u \in keys
    /\ keys' = keys \ {u}
    /\ UNCHANGED <<owner, st, joined, inv, ceiling, lock, local, stale>>

\* The process dies, and its transaction is rolled back.
Crash(p) ==
    /\ pc[p] # "idle"
    /\ End(p)
    /\ UNCHANGED <<tables, ceiling, stale>>

Request(p) ==
    \/ \E u \in User : CreateCheck(p, u) \/ RemoveRead(p, u) \/ TransferRead(p, u) \/ KeyCheck(p, u)
    \/ \E u \in User, s \in Live : UpdateRead(p, u, s)
    \/ \E n \in Plans : SuspendRead(p, n)

Step(p) ==
    \/ CreateCommit(p) \/ UpdateSeat(p) \/ UpdateWrite(p) \/ RemoveRow(p) \/ RemoveCommit(p)
    \/ TransferRow(p) \/ TransferCommit(p) \/ SuspendWrite(p) \/ KeyInsert(p)

Next ==
    \/ \E p \in Proc : Request(p) \/ Step(p) \/ Crash(p)
    \/ \E u \in User : Accept(u) \/ RevokeInvitation(u) \/ KeyDelete(u)
    \/ \E n \in Ceilings : CeilingChange(n)

Spec == Init /\ [][Next]_vars

-----------------------------------------------------------------------------
(* Properties.                                                             *)

\* What adds a member keeps the organization within its seat ceiling, as
\* long as every seat has been asked for (assertSeatAvailableForMemberAdd
\* under the advisory lock).  A PATCH that makes a suspended member INVITED,
\* or ACTIVE on an outdated status, asks for none.
AddsFitCeiling == [][Used' > Used /\ "seat" \notin stale' => Used' <= ceiling]_vars

\* updateOwner "can never end up owned by a suspended/removed member": each of
\* delete, leaveOrganization, update and suspendExcessActiveMembers spares the
\* owner, and a transfer takes an active member.  Excluded is a transfer that
\* commits between another request's read of the owner and its UPDATE, or
\* whose UPDATE and the other one do not see each other.
OwnerActive == "owner" \notin stale => st[owner] = "ACTIVE"

\* Nobody who has left the organization has a live API key there, unless the
\* key's creation crossed the departure (revokeApiKeysForDepartedMember).
KeysOfMembers == "key" \notin stale => \A u \in keys : st[u] # "none"

\* Membership and invitation tell the same story: a member has joined exactly
\* when the invitation is accepted, only a joined member is active, and one
\* who has not joined still has an invitation to accept (unless the owner
\* was removed in the crossing above: their invitation cannot be revoked).
InvitationMatches ==
    "owner" \notin stale => \A u \in User \ {Founder} : st[u] # "none" =>
        /\ joined[u] <=> inv[u] = "accepted"
        /\ st[u] = "ACTIVE" => joined[u]
        /\ ~joined[u] => inv[u] = "pending"
=============================================================================
