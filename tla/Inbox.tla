------------------------------- MODULE Inbox -------------------------------
(***************************************************************************)
(* What the Stripe webhook pipeline promises, whatever its queue, workers  *)
(* and sweeps do: an event is stored before its sender is told so and      *)
(* before anything acts on it, it is settled only after its effects are    *)
(* committed, and nothing of this is undone: only who settled an event     *)
(* without hearing of it may open it again, once.  StripeLedger implements *)
(* it.                                                                     *)
(***************************************************************************)
CONSTANT Events

VARIABLES
    stored,     \* events with a row
    confirmed,  \* events whose sender was answered
    effective,  \* events whose effects are committed
    settled,    \* events that are marked as processed
    unheard     \* settled events whose settling was not answered

vars == <<stored, confirmed, effective, settled, unheard>>

Init ==
    /\ stored = {} /\ confirmed = {}
    /\ effective = {} /\ settled = {} /\ unheard = {}

Store(e) ==
    /\ stored' = stored \cup {e}
    /\ UNCHANGED <<confirmed, effective, settled, unheard>>

Confirm(e) ==
    /\ e \in stored
    /\ confirmed' = confirmed \cup {e}
    /\ UNCHANGED <<stored, effective, settled, unheard>>

TakeEffect(e) ==
    /\ e \in stored
    /\ effective' = effective \cup {e}
    /\ UNCHANGED <<stored, confirmed, settled, unheard>>

Settle(e) ==
    /\ e \in effective
    /\ settled' = settled \cup {e}
    /\ unheard' \in {unheard, unheard \cup {e}}
    /\ UNCHANGED <<stored, confirmed, effective>>

Reopen(e) ==
    /\ e \in unheard
    /\ settled' = settled \ {e}
    /\ unheard' = unheard \ {e}
    /\ UNCHANGED <<stored, confirmed, effective>>

Next == \E e \in Events : Store(e) \/ Confirm(e) \/ TakeEffect(e) \/ Settle(e) \/ Reopen(e)

Spec == Init /\ [][Next]_vars
=============================================================================
