------------------------------ MODULE WorkerRpc ------------------------------
(***************************************************************************)
(* What the Supervisor relies on when it calls a runtime worker: a call    *)
(* settles once, it succeeds only if the worker performed it, a failed     *)
(* call is in doubt (the worker may have performed it, or may still do     *)
(* so), and a closed client takes no further call.                         *)
(*                                                                         *)
(* The promise is read off IRuntimeSupervisorClients and the callers in    *)
(* src/src/lib/runtime/supervisor.ts; WorkerClient implements it.          *)
(***************************************************************************)
CONSTANTS Requests,        \* the calls that may be made
          FailureCodes     \* the error codes a call may be rejected with

VARIABLES outcome,         \* what the caller of each request knows
          performed,       \* the requests whose effect the worker has carried out
          closed           \* the client has been shut down

vars == <<outcome, performed, closed>>

Unsettled == {r \in Requests : outcome[r] \in {"idle", "waiting"}}

Init ==
    /\ outcome = [r \in Requests |-> "idle"]
    /\ performed = {}
    /\ closed = FALSE

\* A call is accepted and is now outstanding.
Call(r) ==
    /\ ~closed
    /\ outcome[r] = "idle"
    /\ outcome' = [outcome EXCEPT ![r] = "waiting"]
    /\ UNCHANGED <<performed, closed>>

\* The worker carries a request out, at most once, whatever the caller was told
\* in the meantime.
Perform(r) ==
    /\ outcome[r] # "idle"
    /\ r \notin performed
    /\ performed' = performed \union {r}
    /\ UNCHANGED <<outcome, closed>>

\* The caller learns that the request was performed.
Acknowledge(r) ==
    /\ outcome[r] = "waiting"
    /\ r \in performed
    /\ outcome' = [outcome EXCEPT ![r] = "ok"]
    /\ UNCHANGED <<performed, closed>>

\* A set of calls fails together: one refused call, one that timed out, or every
\* outstanding call of a worker that went away.
Fail(S) ==
    /\ S # {}
    /\ \E code \in FailureCodes :
          outcome' = [r \in Requests |-> IF r \in S THEN code ELSE outcome[r]]
    /\ UNCHANGED <<performed, closed>>

\* The client closes; no call stays outstanding.
Close ==
    /\ ~closed
    /\ closed' = TRUE
    /\ \E code \in FailureCodes :
          outcome' = [r \in Requests |-> IF outcome[r] = "waiting" THEN code ELSE outcome[r]]
    /\ UNCHANGED performed

Next ==
    \/ \E r \in Requests : Call(r) \/ Perform(r) \/ Acknowledge(r)
    \/ \E S \in SUBSET Unsettled : Fail(S)
    \/ Close

Spec == Init /\ [][Next]_vars
==============================================================================
