-------------------------- MODULE AtomicDocuments --------------------------
(***************************************************************************)
(* What the governed write promises whoever reads the documents and the    *)
(* journal together, without the staging, the backups, the undoing and the *)
(* recovery that bring it about: an action happens to all its documents at *)
(* once, and once only; it can be taken back while it is the last on each  *)
(* of them, at once again, and each then holds what it held before.        *)
(* Nothing else changes a document.                                        *)
(***************************************************************************)
CONSTANTS
    Documents,
    Actions,
    First       \* [Documents -> content], before any action

VARIABLES
    doc,        \* [Documents -> content]; an action's output is its name
    kept,       \* the actions that count, with what their documents held before
    over        \* actions taken back, or given up before they happened

vars == <<doc, kept, over>>

Init ==
    /\ doc = First
    /\ kept = {}
    /\ over = {}

Apply(k, on) ==
    /\ k \notin over
    /\ \A e \in kept : e.act # k
    /\ doc' = [d \in Documents |-> IF d \in on THEN k ELSE doc[d]]
    /\ kept' = kept \cup {[act |-> k, held |-> [d \in on |-> doc[d]]]}
    /\ UNCHANGED over

Revert(e) ==
    /\ \A d \in DOMAIN e.held : doc[d] = e.act
    /\ doc' = [d \in Documents |-> IF d \in DOMAIN e.held THEN e.held[d] ELSE doc[d]]
    /\ kept' = kept \ {e}
    /\ over' = over \cup {e.act}

GiveUp(k) ==
    /\ \A e \in kept : e.act # k
    /\ over' = over \cup {k}
    /\ UNCHANGED <<doc, kept>>

Next ==
    \/ \E k \in Actions, on \in SUBSET Documents : Apply(k, on)
    \/ \E e \in kept : Revert(e)
    \/ \E k \in Actions : GiveUp(k)

Spec == Init /\ [][Next]_vars
=============================================================================
