----------------------------- MODULE WorkerClient -----------------------------
(***************************************************************************)
(* RuntimeWorkerClient (src/src/lib/runtime/worker-client.ts): the object  *)
(* through which the Supervisor drives one forked worker process.  It      *)
(* spawns the child, correlates replies with pending requests by id, times *)
(* requests out, and replaces a failed child after a growing delay.        *)
(*                                                                         *)
(* The client runs on Node's event loop.  A message, a child event or a    *)
(* timer is a macrotask and is one action; it starts only when no promise  *)
(* reaction is waiting (EventLoopIdle).  The reaction modelled is the      *)
(* catch handler of waitUntilReady; callers run either in a macrotask or   *)
(* in a reaction, so their calls are not held back.                        *)
(*                                                                         *)
(* Child processes are numbered in the order they are spawned; 0 stands    *)
(* for null.  A request is named by its message id.                        *)
(***************************************************************************)
EXTENDS Naturals, FiniteSets

CONSTANTS Requests,         \* the message ids a run may use
          NoRequest,        \* readyPromise = null
          MaxChild,         \* bound: child processes a run may spawn
          MaxPending,       \* options.maxPendingRequests
          InitialBackoff,   \* options.restartBackoffMs
          MaxBackoff        \* options.maxRestartBackoffMs

ASSUME ClientAssumption ==
    /\ NoRequest \notin Requests
    /\ MaxChild \in Nat \ {0}
    /\ MaxPending \in Nat
    /\ InitialBackoff \in Nat \ {0}
    /\ MaxBackoff \in Nat \ {0}
    /\ InitialBackoff <= MaxBackoff

Children == 1..MaxChild

FailureCodes == {"unsupported-runtime-command", "worker-not-connected",
                 "worker-overloaded", "worker-timeout", "worker-exited",
                 "worker-error", "worker-shutdown", "worker-command-failed",
                 "invalid-worker-reply"}

Outcomes == {"idle", "waiting", "ok"} \union FailureCodes

\* What the worker may send back for a command.  "mismatched" has the wrong
\* source, target or type; "malformed" does not parse but names the command;
\* "badPayload" is ok with a payload of the wrong shape; "anonymous" does not
\* parse and names no command.
Replies == {"ok", "failed", "mismatched", "malformed", "badPayload", "anonymous"}

VARIABLES
    \* fields of the client
    stopped, child, restartTimer, backoff, pending, readyPromise,
    \* what callers hold: the state of each promise, the child each call was made
    \* on, and the calls whose rejection waitUntilReady still has to catch
    outcome, target, probes,
    \* child processes as the parent and the kernel see them
    spawned, running, connected, listening, killed,
    \* the commands on their way through the worker
    stage, performed

clientVars == <<stopped, child, restartTimer, backoff, pending, readyPromise>>
callVars   == <<outcome, target, probes>>
childVars  == <<spawned, running, connected, listening, killed>>
workVars   == <<stage, performed>>
vars == <<clientVars, callVars, childVars, workVars>>

\* Where a command is: not handed to IPC, in the pipe to the child, in the
\* child's handler, answered with a reply now in the pipe back, or gone.
Stages == {"unsent", "toChild", "handling", "gone"} \union Replies

TypeOK ==
    /\ stopped \in BOOLEAN
    /\ child \in 0..MaxChild
    /\ restartTimer \in 0..MaxBackoff
    /\ backoff \in 1..MaxBackoff
    /\ pending \in SUBSET Requests
    /\ readyPromise \in Requests \union {NoRequest}
    /\ outcome \in [Requests -> Outcomes]
    /\ target \in [Requests -> 0..MaxChild]
    /\ probes \in SUBSET Requests
    /\ spawned \in 0..MaxChild
    /\ running \in SUBSET Children
    /\ connected \in SUBSET Children
    /\ listening \in SUBSET Children
    /\ killed \in SUBSET Children
    /\ stage \in [Requests -> Stages]
    /\ performed \in SUBSET Requests

Init ==
    /\ stopped = FALSE
    /\ child = 0
    /\ restartTimer = 0
    /\ backoff = InitialBackoff
    /\ pending = {}
    /\ readyPromise = NoRequest
    /\ outcome = [r \in Requests |-> "idle"]
    /\ target = [r \in Requests |-> 0]
    /\ probes = {}
    /\ spawned = 0
    /\ running = {}
    /\ connected = {}
    /\ listening = {}
    /\ killed = {}
    /\ stage = [r \in Requests |-> "unsent"]
    /\ performed = {}

-------------------------------------------------------------------------------
(* Helpers of the class                                                      *)

Lesser(a, b) == IF a < b THEN a ELSE b

\* Mutant: the map is cleared and the promises are forgotten.
RejectNone(oc, waiting, code) == oc

\* rejectPending: every pending promise is rejected with the same error.
RejectAll(oc, waiting, code) ==
    [r \in Requests |-> IF r \in waiting THEN code ELSE oc[r]]

\* start() as request() and waitUntilReady() call it: spawn only when there is
\* neither a child nor a scheduled restart.
MustSpawn == child = 0 /\ restartTimer = 0

StartedChild == IF MustSpawn THEN spawned + 1 ELSE child

StartEffect ==
    IF MustSpawn
    THEN /\ spawned < MaxChild
         /\ spawned' = spawned + 1
         /\ running' = running \union {spawned + 1}
         /\ connected' = connected \union {spawned + 1}
    ELSE UNCHANGED <<spawned, running, connected>>

StartListening == IF MustSpawn THEN listening \union {spawned + 1} ELSE listening

ScheduleRestart ==
    IF stopped \/ restartTimer # 0
    THEN UNCHANGED <<restartTimer, backoff>>
    ELSE /\ restartTimer' = Lesser(backoff, MaxBackoff)
         /\ backoff' = Lesser(2 * backoff, MaxBackoff)

\* handleChildFailure(c, err) past its guard this.child === c.  oc and waiting
\* are the promises and the pending map as the caller of handleChildFailure
\* leaves them.
FailChildAlive(c, code, oc, waiting) ==  \* Mutant: without child.kill.
    /\ child' = 0
    /\ outcome' = RejectAll(oc, waiting, code)
    /\ pending' = {}
    /\ listening' = StartListening \ {c}
    /\ ScheduleRestart
    /\ UNCHANGED killed

FailChildForGood(c, code, oc, waiting) ==  \* Mutant: without scheduleRestart.
    /\ child' = 0
    /\ outcome' = RejectAll(oc, waiting, code)
    /\ pending' = {}
    /\ killed' = killed \union {c}
    /\ listening' = StartListening \ {c}
    /\ UNCHANGED <<restartTimer, backoff>>

FailChild(c, code, oc, waiting) ==
    /\ child' = 0
    /\ outcome' = RejectAll(oc, waiting, code)
    /\ pending' = {}
    /\ killed' = killed \union {c}
    /\ listening' = StartListening \ {c}
    /\ ScheduleRestart

-------------------------------------------------------------------------------
(* Calls on the client                                                       *)

\* The promise of a call that is rejected without reaching the child.
Refuse(r, code) ==
    /\ outcome' = [outcome EXCEPT ![r] = code]
    /\ target' = [target EXCEPT ![r] = child]
    /\ UNCHANGED <<stopped, child, restartTimer, backoff, pending, childVars, workVars>>

RequestRefused(r) ==
    \/ stopped /\ Refuse(r, "worker-shutdown")
    \/ ~stopped /\ child = 0 /\ restartTimer # 0 /\ Refuse(r, "worker-not-connected")

\* The map of pending requests is full; start() has come first and may have spawned.
RequestOverloaded(r) ==
    /\ ~stopped
    /\ MustSpawn \/ (child # 0 /\ child \in connected)
    /\ Cardinality(pending) >= MaxPending
    /\ StartEffect
    /\ child' = StartedChild
    /\ listening' = StartListening
    /\ outcome' = [outcome EXCEPT ![r] = "worker-overloaded"]
    /\ target' = [target EXCEPT ![r] = StartedChild]
    /\ UNCHANGED <<stopped, restartTimer, backoff, pending, killed, workVars>>

\* An unregistered command, or a payload its schema rejects; start() is not called.
RequestInvalid(r) == ~stopped /\ Refuse(r, "unsupported-runtime-command")

\* child.connected is already false: the child is failed before its exit event.
RequestDisconnected(r) ==
    /\ ~stopped
    /\ child # 0
    /\ child \notin connected
    /\ target' = [target EXCEPT ![r] = child]
    /\ FailChild(child, "worker-not-connected",
                 [outcome EXCEPT ![r] = "worker-not-connected"], pending)
    /\ UNCHANGED <<stopped, spawned, running, connected, workVars>>

CanSend ==
    /\ ~stopped
    /\ MustSpawn \/ (child # 0 /\ child \in connected)
    /\ Cardinality(pending) < MaxPending

RequestSent(r) ==
    /\ CanSend
    /\ StartEffect
    /\ child' = StartedChild
    /\ listening' = StartListening
    /\ pending' = pending \union {r}
    /\ outcome' = [outcome EXCEPT ![r] = "waiting"]
    /\ target' = [target EXCEPT ![r] = StartedChild]
    /\ stage' = [stage EXCEPT ![r] = "toChild"]
    /\ UNCHANGED <<stopped, restartTimer, backoff, killed, performed>>

\* child.send throws after the request was registered: failSend, inside request().
RequestSendThrows(r) ==
    /\ CanSend
    /\ StartEffect
    /\ target' = [target EXCEPT ![r] = StartedChild]
    /\ FailChild(StartedChild, "worker-not-connected",
                 [outcome EXCEPT ![r] = "worker-not-connected"], pending)
    /\ UNCHANGED <<stopped, workVars>>

Request(r) ==
    /\ outcome[r] = "idle"
    /\ \/ RequestRefused(r) /\ UNCHANGED readyPromise
       \/ RequestInvalid(r) /\ UNCHANGED readyPromise
       \/ RequestOverloaded(r) /\ UNCHANGED readyPromise
       \/ RequestSent(r) /\ UNCHANGED readyPromise
       \/ (RequestDisconnected(r) \/ RequestSendThrows(r)) /\ readyPromise' = NoRequest
    /\ UNCHANGED probes

\* waitUntilReady() with no readyPromise: r is the readiness request.  The promise
\* is stored after request() returns, whatever request() did to the field.
WaitUntilReady(r) ==
    /\ ~stopped
    /\ readyPromise = NoRequest
    /\ outcome[r] = "idle"
    /\ \/ RequestRefused(r) \/ RequestOverloaded(r) \/ RequestSent(r)
       \/ RequestDisconnected(r) \/ RequestSendThrows(r)
    /\ readyPromise' = r
    /\ probes' = probes \union {r}

\* start(), also waitUntilReady() of a client without a readiness command.
Start ==
    /\ ~stopped
    /\ MustSpawn
    /\ StartEffect
    /\ child' = StartedChild
    /\ listening' = StartListening
    /\ UNCHANGED <<stopped, restartTimer, backoff, pending, readyPromise, callVars,
                   killed, workVars>>

ClearRestartTimer == restartTimer' = 0

Shutdown ==
    /\ ~stopped
    /\ stopped' = TRUE
    /\ ClearRestartTimer
    /\ outcome' = RejectAll(outcome, pending, "worker-shutdown")
    /\ pending' = {}
    /\ readyPromise' = NoRequest
    /\ child' = 0
    /\ listening' = listening \ {child}
    /\ killed' = IF child = 0 THEN killed ELSE killed \union {child}
    /\ UNCHANGED <<backoff, target, probes, spawned, running, connected, workVars>>

-------------------------------------------------------------------------------
(* The catch handler of waitUntilReady                                       *)

\* A readiness request that was rejected and whose catch has not run.
MustCatch(r) == r \in probes /\ outcome[r] \in FailureCodes

EventLoopIdle == \A r \in Requests : ~MustCatch(r)

RestartCodes == {"worker-timeout", "worker-not-connected", "worker-error", "worker-exited"}

CatchReadiness(r) ==
    /\ MustCatch(r)
    /\ probes' = probes \ {r}
    /\ readyPromise' = NoRequest
    /\ IF target[r] # 0 /\ outcome[r] \in RestartCodes /\ child = target[r]
       THEN FailChild(child, outcome[r], outcome, pending)
       ELSE UNCHANGED <<child, restartTimer, backoff, pending, outcome, listening, killed>>
    /\ UNCHANGED <<stopped, target, spawned, running, connected, workVars>>

-------------------------------------------------------------------------------
(* Timers                                                                    *)

Timeout(r) ==
    /\ EventLoopIdle
    /\ r \in pending
    /\ pending' = pending \ {r}
    /\ outcome' = [outcome EXCEPT ![r] = "worker-timeout"]
    /\ UNCHANGED <<stopped, child, restartTimer, backoff, readyPromise, target, probes,
                   childVars, workVars>>

\* The restart timer's callback spawns without looking at this.child.
RestartFires ==
    /\ EventLoopIdle
    /\ restartTimer # 0
    /\ restartTimer' = 0
    /\ IF stopped
       THEN UNCHANGED <<child, spawned, running, connected, listening>>
       ELSE /\ spawned < MaxChild
            /\ spawned' = spawned + 1
            /\ child' = spawned + 1
            /\ running' = running \union {spawned + 1}
            /\ connected' = connected \union {spawned + 1}
            /\ listening' = listening \union {spawned + 1}
    /\ UNCHANGED <<stopped, backoff, pending, readyPromise, callVars, killed, workVars>>

-------------------------------------------------------------------------------
(* Events of a child the client still listens to                             *)

ForgetReadiness == readyPromise' = NoRequest

\* handleChildFailure as an event listener: a child other than the current one
\* is ignored.
OnChildFailure(c, code) ==
    /\ IF child = c
       THEN FailChild(c, code, outcome, pending) /\ ForgetReadiness
       ELSE UNCHANGED <<child, restartTimer, backoff, pending, readyPromise, outcome,
                        listening, killed>>
    /\ UNCHANGED <<stopped, target, probes, spawned, running, connected, workVars>>

ExitEvent(c) ==
    /\ EventLoopIdle
    /\ c \in listening \ running
    /\ OnChildFailure(c, "worker-exited")

ErrorEvent(c) ==
    /\ EventLoopIdle
    /\ c \in listening
    /\ OnChildFailure(c, "worker-error")

\* child.connected turns false once the process is gone, before its exit event.
ChannelCloses(c) ==
    /\ EventLoopIdle
    /\ c \in connected \ running
    /\ connected' = connected \ {c}
    /\ UNCHANGED <<clientVars, callVars, spawned, running, listening, killed, workVars>>

\* The callback of child.send reports an error: the command never left.
SendCallbackError(r) ==
    /\ EventLoopIdle
    /\ stage[r] = "toChild"
    /\ stage' = [stage EXCEPT ![r] = "gone"]
    /\ IF r \in pending
       THEN LET rejected == [outcome EXCEPT ![r] = "worker-not-connected"]
                rest     == pending \ {r}
            IN  IF child = target[r]
                THEN /\ FailChild(child, "worker-not-connected", rejected, rest)
                     /\ ForgetReadiness
                ELSE /\ outcome' = rejected
                     /\ pending' = rest
                     /\ UNCHANGED <<child, restartTimer, backoff, readyPromise, listening,
                                    killed>>
       ELSE UNCHANGED <<child, restartTimer, backoff, pending, readyPromise, outcome,
                        listening, killed>>
    /\ UNCHANGED <<stopped, target, probes, spawned, running, connected, performed>>

\* What handleMessage makes of a reply to a pending request.
ReplyOutcome(kind) ==
    CASE kind = "ok"     -> "ok"
      [] kind = "failed" -> "worker-command-failed"
      [] OTHER           -> "invalid-worker-reply"

\* The restart delay is reset by a reply that is a success and parses.
BackoffAfter(kind) == IF kind = "ok" THEN InitialBackoff ELSE backoff

\* Mutant: a reply is taken although its request is no longer pending.
AwaitedOrLate(r) == stage[r] # "anonymous"

Awaited(r) == stage[r] # "anonymous" /\ r \in pending

\* handleMessage: an anonymous reply, or one to a request no longer pending, is
\* dropped.
ReceiveReply(r) ==
    /\ EventLoopIdle
    /\ stage[r] \in Replies
    /\ target[r] \in listening
    /\ stage' = [stage EXCEPT ![r] = "gone"]
    /\ IF Awaited(r)
       THEN /\ pending' = pending \ {r}
            /\ outcome' = [outcome EXCEPT ![r] = ReplyOutcome(stage[r])]
            /\ backoff' = BackoffAfter(stage[r])
       ELSE UNCHANGED <<pending, outcome, backoff>>
    /\ UNCHANGED <<stopped, child, restartTimer, readyPromise, target, probes, childVars,
                   performed>>

-------------------------------------------------------------------------------
(* The child process.  Killing a child sends SIGTERM, so a killed child may  *)
(* go on for a while; any child may die at any point.                        *)

ChildDies(c) ==
    /\ c \in running
    /\ running' = running \ {c}
    /\ UNCHANGED <<clientVars, callVars, spawned, connected, listening, killed, workVars>>

\* process.on('message'): an async handler, so several commands are in progress at
\* once and finish in any order.
ChildReceives(r) ==
    /\ stage[r] = "toChild"
    /\ target[r] \in running
    /\ stage' = [stage EXCEPT ![r] = "handling"]
    /\ UNCHANGED <<clientVars, callVars, childVars, performed>>

ChildPerforms(r) ==
    /\ stage[r] = "handling"
    /\ target[r] \in running
    /\ r \notin performed
    /\ performed' = performed \union {r}
    /\ UNCHANGED <<clientVars, callVars, childVars, stage>>

\* service.handleCommand returns, or the worker's catch block answers with an
\* invalid-command reply; only a success reply says the effect was carried out.
ChildReplies(r, kind) ==
    /\ stage[r] = "handling"
    /\ target[r] \in running
    /\ kind \in {"ok", "badPayload"} => r \in performed
    /\ stage' = [stage EXCEPT ![r] = kind]
    /\ UNCHANGED <<clientVars, callVars, childVars, performed>>

-------------------------------------------------------------------------------
Next ==
    \/ \E r \in Requests :
          \/ Request(r) \/ WaitUntilReady(r) \/ CatchReadiness(r)
          \/ Timeout(r) \/ SendCallbackError(r) \/ ReceiveReply(r)
          \/ ChildReceives(r) \/ ChildPerforms(r)
          \/ \E kind \in Replies : ChildReplies(r, kind)
    \/ \E c \in Children : ExitEvent(c) \/ ErrorEvent(c) \/ ChannelCloses(c) \/ ChildDies(c)
    \/ Start \/ Shutdown \/ RestartFires

Spec == Init /\ [][Next]_vars

\* Timers fire, promise reactions run, and the kernel reports a dead child and
\* ends a killed one.  Nothing obliges a worker to answer or a caller to call.
Fairness ==
    /\ \A r \in Requests : WF_vars(Timeout(r)) /\ WF_vars(CatchReadiness(r))
    /\ \A c \in Children : WF_vars(ExitEvent(c)) /\ WF_vars(c \in killed /\ ChildDies(c))
    /\ WF_vars(RestartFires)

FairSpec == Spec /\ Fairness

-------------------------------------------------------------------------------
(* Properties                                                                *)

\* No caller is left hanging: a promise is unsettled exactly while the client
\* holds the entry, and so the timer, that will settle it (request, failSend,
\* handleMessage, rejectPending).
PendingIsWaiting == pending = {r \in Requests : outcome[r] = "waiting"}

\* Every pending request was made on the current child: no request waits for the
\* answer of a child that was replaced (handleChildFailure rejects before the
\* restart timer can spawn).
PendingOnCurrentChild == \A r \in pending : child # 0 /\ target[r] = child

\* A call that resolved was carried out by the worker, whatever happened in between:
\* timeouts, late replies, restarts.
ResolvedWasPerformed == \A r \in Requests : outcome[r] = "ok" => r \in performed

\* A process the client no longer refers to has been told to die: neither start(),
\* the restart timer (which does not look at this.child) nor a failure drops the
\* only reference to a live worker.
NoLeakedWorker == \A c \in running : c # child => c \in killed

\* A client that was started and not shut down has a child or a scheduled restart,
\* never neither and never both.
NeverWedged == spawned > 0 /\ ~stopped => (child = 0 <=> restartTimer # 0)

\* A readiness promise that succeeded speaks of the current child, not of a
\* predecessor that answered before it failed.
ReadyIsCurrent ==
    readyPromise # NoRequest /\ outcome[readyPromise] = "ok" => target[readyPromise] = child

\* After shutdown() nothing is referenced, listened to, scheduled or pending.
QuietAfterShutdown ==
    stopped => child = 0 /\ restartTimer = 0 /\ pending = {} /\ listening = {}
                         /\ readyPromise = NoRequest

\* No call, timer or late event brings a worker up again after shutdown().
NoSpawnAfterShutdown == [][stopped => spawned' = spawned]_vars

\* The restart delay falls back only when a pending request succeeds: a worker that
\* fails again and again, or answers nonsense, is restarted ever more slowly.
BackoffFallsOnSuccess ==
    [][backoff' < backoff => \E r \in pending : outcome'[r] = "ok"]_vars

\* The client does what the Supervisor relies on.
Rpc == INSTANCE WorkerRpc WITH closed <- stopped
RpcSpec == Rpc!Spec

\* Every call settles, even one the worker never answers.
EveryCallSettles ==
    \A r \in Requests : outcome[r] = "waiting" ~> outcome[r] # "waiting"

\* A child that died is replaced, unless the client is shut down or the run has used
\* up its MaxChild processes.
DeadWorkerReplaced ==
    (child # 0 /\ child \notin running) ~>
        (stopped \/ spawned = MaxChild \/ child \in running)
===============================================================================
