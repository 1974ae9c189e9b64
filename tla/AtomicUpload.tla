---------------------------- MODULE AtomicUpload ----------------------------
(***************************************************************************)
(* What an upload promises its client, without the transaction, the        *)
(* staging and the shutdown that bring it about: a file appears whole or   *)
(* not at all, the answer is given once and after the file, and says       *)
(* whether there is one.  A client that has gone gets no answer.           *)
(***************************************************************************)
CONSTANTS Requests, Answers   \* Answers: what a client may be told, with "ok"

VARIABLES stored, answer

vars == <<stored, answer>>

Init ==
    /\ stored = [r \in Requests |-> "absent"]
    /\ answer = [r \in Requests |-> "none"]

Store(r) ==
    /\ stored[r] = "absent"
    /\ answer[r] = "none"
    /\ stored' = [stored EXCEPT ![r] = "whole"]
    /\ UNCHANGED answer

Answer(r) ==
    /\ answer[r] = "none"
    /\ \E a \in Answers :
          /\ a = "ok" <=> stored[r] = "whole"
          /\ answer' = [answer EXCEPT ![r] = a]
    /\ UNCHANGED stored

Next == \E r \in Requests : Store(r) \/ Answer(r)

Spec == Init /\ [][Next]_vars
=============================================================================
