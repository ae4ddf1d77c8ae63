---------------------------- MODULE NewestWindow ----------------------------
(***************************************************************************)
(* What a store that keeps "the latest Max" of something promises while    *)
(* writers and trimmers run at the same time: what was dropped stays       *)
(* dropped, and an entry is only dropped once Max others at least as new   *)
(* have been accepted.                                                     *)
(***************************************************************************)
EXTENDS Naturals, FiniteSets

CONSTANT Max

VARIABLES
    accepted,   \* every entry that was ever stored: records with a field stamp
    kept        \* the entries that are still there

Superseded(e, entries) ==
    Cardinality({a \in entries \ {e} : a.stamp >= e.stamp}) >= Max

Init == accepted = {} /\ kept = {}

\* Entries come, entries go, or both at once.
Move ==
    /\ accepted \subseteq accepted'
    /\ kept' \subseteq kept \cup (accepted' \ accepted)
    /\ \A e \in accepted' \ kept' : Superseded(e, accepted')

Spec == Init /\ [][Move]_<<accepted, kept>>
=============================================================================
