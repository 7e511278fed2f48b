------------------------------ MODULE MCTenancy ------------------------------
(***************************************************************************)
(* Instances of Membership and of PermissionCache for TLC.  Neither reads  *)
(* what the other writes (PermissionCache has writers of its own for the   *)
(* changes of roles and members), so a behaviour is one of the first or    *)
(* one of the second, never a product of the two.                          *)
(***************************************************************************)
EXTENDS Membership, PermissionCache, TLC

VARIABLE part  \* which of the two runs

TenancyInit == Init /\ CacheInit /\ part \in {"members", "cache"}

TenancyNext ==
    \/ part = "members" /\ Next /\ UNCHANGED <<cacheVars, part>>
    \/ part = "cache" /\ CacheNext /\ UNCHANGED <<vars, part>>

TenancySpec == TenancyInit /\ [][TenancyNext]_<<vars, cacheVars, part>>

\* The founder is told apart by the initial state only.
Symmetry == Permutations(Proc) \cup Permutations(User \ {Founder})

\* Bound: not both an owner and a seat from an outdated read.  Only
\* KeysOfMembers says something of such a state; it is proved without bounds.
OneCrossing == ~({"owner", "seat"} \subseteq stale)

\* Once the version has wrapped InvalidatedForGood says nothing more, and
\* wrapped stays TRUE.
NotWrapped == ~wrapped
=============================================================================
