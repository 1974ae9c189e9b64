-------------------------- MODULE WorkerClientProofs --------------------------
(***************************************************************************)
(* Machine-checked safety of RuntimeWorkerClient, for any set of requests, *)
(* any number of child processes and any back-off bounds.                  *)
(***************************************************************************)
EXTENDS WorkerClient, TLAPS

-------------------------------------------------------------------------------
(* Type correctness                                                          *)

\* The doubled and capped delay stays in the range of the back-off.
LEMMA CappedDelay ==
    ASSUME NEW b \in 1..MaxBackoff
    PROVE  /\ Lesser(b, MaxBackoff) = b
           /\ Lesser(2 * b, MaxBackoff) \in 1..MaxBackoff
           /\ Lesser(2 * b, MaxBackoff) >= b
BY ClientAssumption DEF Lesser

\* scheduleRestart keeps the timer and the delay in range and never shortens the delay.
LEMMA ScheduleRestartType ==
    ASSUME TypeOK, ScheduleRestart
    PROVE  /\ restartTimer' \in 0..MaxBackoff
           /\ backoff' \in 1..MaxBackoff
           /\ backoff' >= backoff
<1>1. CASE stopped \/ restartTimer # 0
  BY <1>1, ClientAssumption DEF TypeOK, ScheduleRestart
<1>2. CASE ~(stopped \/ restartTimer # 0)
  <2>1. backoff \in 1..MaxBackoff
    BY DEF TypeOK
  <2>2. restartTimer' = backoff /\ backoff' = Lesser(2 * backoff, MaxBackoff)
    BY <1>2, <2>1, CappedDelay DEF ScheduleRestart
  <2> QED
    BY <2>1, <2>2, CappedDelay, ClientAssumption
<1> QED
  BY <1>1, <1>2

\* start() spawns within the bound, and the child it leaves is a child process or null.
LEMMA StartType ==
    ASSUME TypeOK, StartEffect
    PROVE  /\ spawned' \in 0..MaxChild
           /\ running' \in SUBSET Children
           /\ connected' \in SUBSET Children
           /\ StartedChild \in 0..MaxChild
           /\ StartListening \in SUBSET Children
           /\ MustSpawn => StartedChild \in Children
<1>1. CASE MustSpawn
  <2>1. spawned + 1 \in Children /\ spawned' = spawned + 1
    BY <1>1, ClientAssumption DEF TypeOK, StartEffect, Children
  <2>2. running' \in SUBSET Children /\ connected' \in SUBSET Children
    BY <1>1, <2>1 DEF TypeOK, StartEffect
  <2>3. StartListening \in SUBSET Children /\ StartedChild \in Children
    BY <1>1, <2>1 DEF TypeOK, StartedChild, StartListening
  <2> QED
    BY <2>1, <2>2, <2>3, ClientAssumption DEF Children
<1>2. CASE ~MustSpawn
  BY <1>2 DEF TypeOK, StartEffect, StartedChild, StartListening
<1> QED
  BY <1>1, <1>2

\* The fields handleChildFailure writes stay in their types.
LEMMA FailChildType ==
    ASSUME TypeOK,
           NEW c \in Children, NEW code \in FailureCodes,
           NEW oc \in [Requests -> Outcomes], NEW waiting \in SUBSET Requests,
           StartListening \in SUBSET Children,
           FailChild(c, code, oc, waiting)
    PROVE  /\ child' \in 0..MaxChild
           /\ outcome' \in [Requests -> Outcomes]
           /\ pending' \in SUBSET Requests
           /\ killed' \in SUBSET Children
           /\ listening' \in SUBSET Children
           /\ restartTimer' \in 0..MaxBackoff
           /\ backoff' \in 1..MaxBackoff
<1>1. restartTimer' \in 0..MaxBackoff /\ backoff' \in 1..MaxBackoff
  BY ScheduleRestartType DEF FailChild
<1>2. code \in Outcomes
  BY DEF Outcomes
<1>3. outcome' \in [Requests -> Outcomes]
  BY <1>2 DEF FailChild, RejectAll
<1> QED
  BY <1>1, <1>3, ClientAssumption DEF FailChild, TypeOK, Children

\* The codes the client itself uses.
LEMMA Codes ==
    /\ {"unsupported-runtime-command", "worker-not-connected", "worker-overloaded",
        "worker-timeout", "worker-exited", "worker-error", "worker-shutdown",
        "worker-command-failed", "invalid-worker-reply"} \subseteq FailureCodes
    /\ FailureCodes \subseteq Outcomes
    /\ {"idle", "waiting", "ok"} \subseteq Outcomes
    /\ {"idle", "waiting", "ok"} \cap FailureCodes = {}
BY DEF FailureCodes, Outcomes

\* request() up to the choice of what happens to readyPromise and probes.
CallStep(r) ==
    RequestRefused(r) \/ RequestInvalid(r) \/ RequestOverloaded(r)
        \/ RequestDisconnected(r) \/ RequestSent(r) \/ RequestSendThrows(r)

LEMMA CallType ==
    ASSUME TypeOK, NEW r \in Requests, CallStep(r),
           readyPromise' \in Requests \union {NoRequest}, probes' \in SUBSET Requests
    PROVE  TypeOK'
<1> USE Codes
<1>0. StartListening \in SUBSET Children \/ MustSpawn
  BY DEF StartListening, TypeOK
<1>1. CASE RequestRefused(r) \/ RequestInvalid(r)
  BY <1>1 DEF RequestRefused, RequestInvalid, Refuse, TypeOK, childVars, workVars
<1>2. CASE RequestDisconnected(r)
  <2>1. StartListening = listening
    BY <1>2 DEF RequestDisconnected, StartListening, MustSpawn
  <2>2. child \in Children
    BY <1>2, ClientAssumption DEF RequestDisconnected, TypeOK, Children
  <2>3. [outcome EXCEPT ![r] = "worker-not-connected"] \in [Requests -> Outcomes]
    BY DEF TypeOK
  <2>4. StartListening \in SUBSET Children /\ pending \in SUBSET Requests
    BY <2>1 DEF TypeOK
  <2>5. FailChild(child, "worker-not-connected",
                  [outcome EXCEPT ![r] = "worker-not-connected"], pending)
    BY <1>2 DEF RequestDisconnected
  <2>6. /\ child' \in 0..MaxChild
        /\ outcome' \in [Requests -> Outcomes]
        /\ pending' \in SUBSET Requests
        /\ killed' \in SUBSET Children
        /\ listening' \in SUBSET Children
        /\ restartTimer' \in 0..MaxBackoff
        /\ backoff' \in 1..MaxBackoff
    BY <2>2, <2>3, <2>4, <2>5, FailChildType
  <2> QED
    BY <1>2, <2>6 DEF RequestDisconnected, TypeOK, workVars
<1>3. CASE RequestSent(r)
  BY <1>3, StartType DEF RequestSent, TypeOK, Stages
<1>4. CASE RequestSendThrows(r)
  <2>1. StartEffect
    BY <1>4 DEF RequestSendThrows
  <2>2. StartedChild \in Children
    BY <1>4, <2>1, StartType, ClientAssumption
    DEF RequestSendThrows, CanSend, StartedChild, TypeOK, Children
  <2>3. [outcome EXCEPT ![r] = "worker-not-connected"] \in [Requests -> Outcomes]
    BY DEF TypeOK
  <2>4. StartListening \in SUBSET Children /\ pending \in SUBSET Requests
    BY <2>1, StartType DEF TypeOK
  <2>5. FailChild(StartedChild, "worker-not-connected",
                  [outcome EXCEPT ![r] = "worker-not-connected"], pending)
    BY <1>4 DEF RequestSendThrows
  <2>6. /\ child' \in 0..MaxChild
        /\ outcome' \in [Requests -> Outcomes]
        /\ pending' \in SUBSET Requests
        /\ killed' \in SUBSET Children
        /\ listening' \in SUBSET Children
        /\ restartTimer' \in 0..MaxBackoff
        /\ backoff' \in 1..MaxBackoff
    BY <2>2, <2>3, <2>4, <2>5, FailChildType
  <2>7. target' \in [Requests -> 0..MaxChild]
    BY <1>4, <2>2, ClientAssumption DEF RequestSendThrows, TypeOK, Children
  <2> QED
    BY <1>4, <2>1, <2>6, <2>7, StartType DEF RequestSendThrows, TypeOK, workVars
<1>5. CASE RequestOverloaded(r)
  BY <1>5, StartType DEF RequestOverloaded, TypeOK, workVars
<1> QED
  BY <1>1, <1>2, <1>3, <1>4, <1>5 DEF CallStep

\* handleChildFailure on the current child, from an event, a send callback or the
\* readiness catch.
LEMMA FailureType ==
    ASSUME TypeOK, NEW c \in Children, c = child, NEW code \in FailureCodes,
           NEW oc \in [Requests -> Outcomes], NEW waiting \in SUBSET Requests,
           FailChild(c, code, oc, waiting),
           readyPromise' \in Requests \union {NoRequest}, probes' \in SUBSET Requests,
           stage' \in [Requests -> Stages],
           UNCHANGED <<stopped, target, spawned, running, connected, performed>>
    PROVE  TypeOK'
<1>1. StartListening \in SUBSET Children
  BY ClientAssumption DEF StartListening, MustSpawn, Children, TypeOK
<1>2. /\ child' \in 0..MaxChild
      /\ outcome' \in [Requests -> Outcomes]
      /\ pending' \in SUBSET Requests
      /\ killed' \in SUBSET Children
      /\ listening' \in SUBSET Children
      /\ restartTimer' \in 0..MaxBackoff
      /\ backoff' \in 1..MaxBackoff
  BY <1>1, FailChildType
<1> QED
  BY <1>2 DEF TypeOK

\* A command that left for a child left for a real one (failSend never meets null),
\* and its caller has a promise.
SentToChild ==
    \A r \in Requests : stage[r] # "unsent" => target[r] # 0 /\ outcome[r] # "idle"

LEMMA InitType == Init => TypeOK /\ SentToChild
<1> SUFFICES ASSUME Init PROVE TypeOK /\ SentToChild
  OBVIOUS
<1>1. 1 <= InitialBackoff /\ InitialBackoff <= MaxBackoff /\ InitialBackoff \in Nat
      /\ MaxBackoff \in Nat
  BY ClientAssumption
<1>2. backoff \in 1..MaxBackoff /\ restartTimer \in 0..MaxBackoff
  BY <1>1 DEF Init
<1>3. child \in 0..MaxChild /\ spawned \in 0..MaxChild /\ target \in [Requests -> 0..MaxChild]
  BY ClientAssumption DEF Init
<1> QED
  BY <1>2, <1>3 DEF Init, TypeOK, SentToChild, Outcomes, Stages

\* Every step preserves the types.
LEMMA StepType == TypeOK /\ SentToChild /\ [Next]_vars => TypeOK'
<1> SUFFICES ASSUME TypeOK, SentToChild, [Next]_vars PROVE TypeOK'
  OBVIOUS
<1> USE Codes
<1>1. ASSUME NEW r \in Requests, Request(r) PROVE TypeOK'
  <2>1. CallStep(r) /\ probes' = probes
        /\ readyPromise' \in {readyPromise, NoRequest}
    BY <1>1 DEF Request, CallStep
  <2> QED
    BY <2>1, CallType DEF TypeOK
<1>2. ASSUME NEW r \in Requests, WaitUntilReady(r) PROVE TypeOK'
  <2>1. CallStep(r) /\ probes' = probes \union {r} /\ readyPromise' = r
    BY <1>2 DEF WaitUntilReady, CallStep
  <2> QED
    BY <2>1, CallType DEF TypeOK
<1>3. ASSUME NEW r \in Requests, CatchReadiness(r) PROVE TypeOK'
  <2>1. CASE target[r] # 0 /\ outcome[r] \in RestartCodes /\ child = target[r]
    <3>1. child \in Children /\ outcome[r] \in FailureCodes
      BY <1>3, <2>1, ClientAssumption DEF TypeOK, Children, CatchReadiness, MustCatch
    <3> QED
      BY <1>3, <2>1, <3>1, FailureType DEF CatchReadiness, TypeOK, workVars
  <2>2. CASE ~(target[r] # 0 /\ outcome[r] \in RestartCodes /\ child = target[r])
    BY <1>3, <2>2 DEF CatchReadiness, TypeOK, workVars
  <2> QED
    BY <2>1, <2>2
<1>4. ASSUME NEW r \in Requests, Timeout(r) PROVE TypeOK'
  BY <1>4 DEF Timeout, TypeOK, childVars, workVars
<1>5. ASSUME NEW r \in Requests, SendCallbackError(r) PROVE TypeOK'
  <2>1. stage' \in [Requests -> Stages]
    BY <1>5 DEF SendCallbackError, ForgetReadiness, TypeOK, Stages
  <2>2. [outcome EXCEPT ![r] = "worker-not-connected"] \in [Requests -> Outcomes]
    BY DEF TypeOK
  <2>3. CASE r \in pending /\ child = target[r]
    <3>1. child \in Children
      BY <1>5, <2>3, ClientAssumption
      DEF SendCallbackError, ForgetReadiness, SentToChild, TypeOK, Children
    <3>2. pending \ {r} \in SUBSET Requests
      BY DEF TypeOK
    <3>3. FailChild(child, "worker-not-connected",
                    [outcome EXCEPT ![r] = "worker-not-connected"], pending \ {r})
          /\ readyPromise' = NoRequest
          /\ UNCHANGED <<stopped, target, probes, spawned, running, connected, performed>>
      BY <1>5, <2>3 DEF SendCallbackError, ForgetReadiness
    <3>4. probes' \in SUBSET Requests
      BY <3>3 DEF TypeOK
    <3> QED
      BY <2>1, <2>2, <3>1, <3>2, <3>3, <3>4, FailureType
  <2>4. CASE ~(r \in pending /\ child = target[r])
    BY <1>5, <2>1, <2>2, <2>4 DEF SendCallbackError, ForgetReadiness, TypeOK
  <2> QED
    BY <2>3, <2>4
<1>6. ASSUME NEW r \in Requests, ReceiveReply(r) PROVE TypeOK'
  <2>1. stage' \in [Requests -> Stages]
    BY <1>6 DEF ReceiveReply, Awaited, TypeOK, Stages
  <2>2. ReplyOutcome(stage[r]) \in Outcomes
    BY DEF ReplyOutcome
  <2>3. BackoffAfter(stage[r]) \in 1..MaxBackoff
    BY ClientAssumption DEF BackoffAfter, TypeOK
  <2> QED
    BY <1>6, <2>1, <2>2, <2>3 DEF ReceiveReply, Awaited, TypeOK, childVars
<1>7. ASSUME NEW r \in Requests, ChildReceives(r) PROVE TypeOK'
  BY <1>7 DEF ChildReceives, TypeOK, Stages, clientVars, callVars, childVars
<1>8. ASSUME NEW r \in Requests, ChildPerforms(r) PROVE TypeOK'
  BY <1>8 DEF ChildPerforms, TypeOK, clientVars, callVars, childVars
<1>9. ASSUME NEW r \in Requests, NEW kind \in Replies, ChildReplies(r, kind) PROVE TypeOK'
  BY <1>9 DEF ChildReplies, TypeOK, Stages, clientVars, callVars, childVars
<1>10. ASSUME NEW c \in Children, ExitEvent(c) \/ ErrorEvent(c) PROVE TypeOK'
  <2>1. PICK code \in FailureCodes : OnChildFailure(c, code)
    BY <1>10 DEF ExitEvent, ErrorEvent
  <2>2. CASE child = c
    BY <2>1, <2>2, FailureType DEF OnChildFailure, ForgetReadiness, TypeOK, workVars
  <2>3. CASE child # c
    BY <2>1, <2>3 DEF OnChildFailure, ForgetReadiness, TypeOK, workVars
  <2> QED
    BY <2>2, <2>3
<1>11. ASSUME NEW c \in Children, ChannelCloses(c) PROVE TypeOK'
  BY <1>11 DEF ChannelCloses, TypeOK, clientVars, callVars, workVars
<1>12. ASSUME NEW c \in Children, ChildDies(c) PROVE TypeOK'
  BY <1>12 DEF ChildDies, TypeOK, clientVars, callVars, workVars
<1>13. CASE Start
  BY <1>13, StartType DEF Start, TypeOK, callVars, workVars
<1>14. CASE Shutdown
  <2>1. outcome' \in [Requests -> Outcomes]
    BY <1>14 DEF Shutdown, ClearRestartTimer, RejectAll, TypeOK
  <2>2. killed' \in SUBSET Children
    BY <1>14, ClientAssumption DEF Shutdown, ClearRestartTimer, TypeOK, Children
  <2> QED
    BY <1>14, <2>1, <2>2, ClientAssumption DEF Shutdown, ClearRestartTimer, TypeOK, workVars
<1>15. CASE RestartFires
  <2>1. CASE stopped
    BY <1>15, <2>1, ClientAssumption DEF RestartFires, TypeOK, callVars, workVars
  <2>2. CASE ~stopped
    <3>1. spawned + 1 \in Children /\ spawned + 1 \in 0..MaxChild
      BY <1>15, <2>2, ClientAssumption DEF RestartFires, TypeOK, Children
    <3> QED
      BY <1>15, <2>2, <3>1, ClientAssumption DEF RestartFires, TypeOK, callVars, workVars
  <2> QED
    BY <2>1, <2>2
<1>16. CASE UNCHANGED vars
  BY <1>16 DEF vars, clientVars, callVars, childVars, workVars, TypeOK
<1> QED
  BY <1>1, <1>2, <1>3, <1>4, <1>5, <1>6, <1>7, <1>8, <1>9, <1>10, <1>11, <1>12, <1>13,
     <1>14, <1>15, <1>16 DEF Next

-------------------------------------------------------------------------------
(* The inductive invariant                                                   *)

\* A success reply is on its way only for a command that was carried out.
AnsweredWasPerformed ==
    \A r \in Requests : stage[r] \in {"ok", "badPayload"} => r \in performed

\* A promise that waits or was resolved belongs to a call that reached a child.
LiveCallHasChild ==
    \A r \in Requests : outcome[r] \in {"waiting", "ok"} => target[r] # 0

\* The calls: what callers, the pending map and the worker know of them.
CallInv ==
    /\ SentToChild
    /\ AnsweredWasPerformed
    /\ LiveCallHasChild
    /\ PendingIsWaiting
    /\ PendingOnCurrentChild
    /\ ResolvedWasPerformed
    /\ ReadyIsCurrent

\* Listeners are attached to the current child and to no other.
ListensToChild == listening = IF child = 0 THEN {} ELSE {child}

\* Children are numbered as they are spawned.
Numbered == child <= spawned /\ running \subseteq 1..spawned

\* The processes: which one is referenced, which ones are on their way out.
ChildInv ==
    /\ ListensToChild
    /\ Numbered
    /\ spawned = 0 => restartTimer = 0
    /\ NeverWedged
    /\ NoLeakedWorker
    /\ QuietAfterShutdown

IInv == TypeOK /\ CallInv /\ ChildInv

LEMMA InitInv == Init => IInv
<1> SUFFICES ASSUME Init PROVE IInv
  OBVIOUS
<1>1. TypeOK /\ SentToChild
  BY InitType
<1>2. CallInv
  BY <1>1, ClientAssumption
  DEF Init, CallInv, AnsweredWasPerformed, LiveCallHasChild, PendingIsWaiting,
      PendingOnCurrentChild, ResolvedWasPerformed, ReadyIsCurrent
<1>3. ChildInv
  BY ClientAssumption
  DEF Init, ChildInv, ListensToChild, Numbered, NeverWedged, NoLeakedWorker, QuietAfterShutdown
<1> QED
  BY <1>1, <1>2, <1>3 DEF IInv

\* handleChildFailure past its guard settles every pending call and leaves a
\* scheduled restart in place of the child.
LEMMA FailChildEffect ==
    ASSUME IInv, ~stopped, restartTimer = 0,
           NEW c, NEW code, NEW oc, NEW waiting, FailChild(c, code, oc, waiting)
    PROVE  /\ child' = 0 /\ pending' = {}
           /\ killed' = killed \union {c}
           /\ listening' = StartListening \ {c}
           /\ outcome' = [r \in Requests |-> IF r \in waiting THEN code ELSE oc[r]]
           /\ restartTimer' # 0
<1>1. restartTimer' = backoff
  BY CappedDelay DEF FailChild, ScheduleRestart, IInv, TypeOK
<1>2. backoff # 0
  BY DEF IInv, TypeOK
<1> QED
  BY <1>1, <1>2 DEF FailChild, RejectAll

\* A failure of child c, the current one or one spawned in this very step, keeps the
\* process part of the invariant.
LEMMA FailureChildInv ==
    ASSUME IInv, ~stopped, restartTimer = 0, UNCHANGED stopped,
           NEW c \in Nat \ {0}, NEW code, NEW oc, NEW waiting, FailChild(c, code, oc, waiting),
           \/ c = child /\ UNCHANGED <<spawned, running>>
           \/ /\ child = 0 /\ c = spawned + 1 /\ spawned' = spawned + 1
              /\ running' = running \union {c}
    PROVE  ChildInv'
<1>1. /\ child' = 0 /\ pending' = {} /\ killed' = killed \union {c}
      /\ listening' = StartListening \ {c} /\ restartTimer' # 0
  BY FailChildEffect
<1>2. spawned \in Nat /\ running \subseteq 1..spawned /\ child <= spawned
  BY DEF IInv, TypeOK, ChildInv, Numbered
<1>3. spawned' \in Nat /\ spawned' # 0 /\ Numbered'
  <2>1. CASE c = child /\ UNCHANGED <<spawned, running>>
    BY <1>1, <1>2, <2>1 DEF Numbered
  <2>2. CASE spawned' = spawned + 1 /\ running' = running \union {c} /\ c = spawned + 1
    <3>1. 1..spawned \subseteq 1..(spawned + 1) /\ c \in 1..(spawned + 1)
      BY <1>2, <2>2
    <3> QED
      BY <1>1, <1>2, <2>2, <3>1 DEF Numbered
  <2> QED
    BY <2>1, <2>2
<1>4. ListensToChild'
  BY <1>1, <1>2 DEF ListensToChild, IInv, ChildInv, StartListening, MustSpawn
<1>5. NoLeakedWorker'
  BY <1>1, <1>2 DEF NoLeakedWorker, IInv, ChildInv
<1> QED
  BY <1>1, <1>3, <1>4, <1>5 DEF ChildInv, NeverWedged, QuietAfterShutdown

\* A failure of the current child keeps the call part of the invariant: every call
\* but the failed request r itself is as it was or rejected, and r is rejected too.
LEMMA FailureCallInv ==
    ASSUME IInv, ~stopped, restartTimer = 0, TypeOK',
           NEW c, NEW code \in FailureCodes, NEW waiting, FailChild(c, code, outcome, waiting),
           waiting = pending,
           UNCHANGED <<target, stage, performed>>,
           readyPromise' = NoRequest
    PROVE  CallInv'
<1>1. /\ child' = 0 /\ pending' = {}
      /\ outcome' = [q \in Requests |-> IF q \in waiting THEN code ELSE outcome[q]]
  BY FailChildEffect
<1>2. \A q \in Requests : \/ outcome'[q] = outcome[q] /\ outcome[q] # "waiting"
                          \/ outcome'[q] = code /\ outcome[q] = "waiting"
  BY <1>1 DEF IInv, CallInv, PendingIsWaiting
<1>3. code \notin {"idle", "waiting", "ok"}
  BY Codes
<1> QED
  BY <1>1, <1>2, <1>3
  DEF IInv, CallInv, SentToChild, AnsweredWasPerformed, LiveCallHasChild, PendingIsWaiting,
      PendingOnCurrentChild, ResolvedWasPerformed, ReadyIsCurrent

-------------------------------------------------------------------------------
(* The invariant is preserved: calls                                         *)

\* A call that is refused, or that fails the child as it is made, leaves its own
\* promise rejected and, in the second case, every pending one.
LEMMA RejectedCallInv ==
    ASSUME IInv, TypeOK', NEW r \in Requests, outcome[r] = "idle",
           NEW code \in FailureCodes,
           UNCHANGED <<stage, performed>>,
           \A q \in Requests \ {r} : target'[q] = target[q],
           outcome'[r] = code,
           \/ /\ child' = child /\ pending' = pending
              /\ \A q \in Requests \ {r} : outcome'[q] = outcome[q]
              /\ readyPromise' \in {readyPromise, r}
           \/ /\ pending' = {}
              /\ \A q \in Requests \ {r} :
                    outcome'[q] = IF q \in pending THEN code ELSE outcome[q]
              /\ readyPromise' \in {NoRequest, r}
    PROVE  CallInv'
<1>1. code \notin {"idle", "waiting", "ok"}
  BY Codes
<1>2. r \notin pending /\ stage[r] = "unsent"
  BY DEF IInv, CallInv, PendingIsWaiting, SentToChild
<1>3. SentToChild' /\ AnsweredWasPerformed' /\ LiveCallHasChild' /\ ResolvedWasPerformed'
  BY <1>1, <1>2
  DEF IInv, CallInv, SentToChild, AnsweredWasPerformed, LiveCallHasChild, ResolvedWasPerformed
<1>4. PendingIsWaiting'
  BY <1>1, <1>2 DEF IInv, TypeOK, CallInv, PendingIsWaiting
<1>5. PendingOnCurrentChild'
  BY <1>2 DEF IInv, TypeOK, CallInv, PendingOnCurrentChild
<1>6. ReadyIsCurrent'
  BY <1>1, <1>2, ClientAssumption DEF IInv, TypeOK, CallInv, ReadyIsCurrent
<1> QED
  BY <1>3, <1>4, <1>5, <1>6 DEF CallInv

\* The numbers and functions of the state, as the provers like them.
LEMMA Ranges ==
    ASSUME IInv
    PROVE  /\ spawned \in Nat /\ child \in Nat /\ outcome \in [Requests -> Outcomes]
           /\ target \in [Requests -> 0..MaxChild]
BY ClientAssumption DEF IInv, TypeOK

\* A call rejected before it reaches a child.
LEMMA RefusedInv ==
    ASSUME IInv, TypeOK', NEW r \in Requests, outcome[r] = "idle",
           RequestRefused(r) \/ RequestInvalid(r),
           readyPromise' \in {readyPromise, r}, stopped => UNCHANGED readyPromise
    PROVE  CallInv' /\ ChildInv'
<1> USE Codes
<1>1. PICK code \in FailureCodes : Refuse(r, code)
  BY DEF RequestRefused, RequestInvalid
<1>2. /\ UNCHANGED <<stage, performed, child, pending, stopped, restartTimer, spawned,
                     running, listening, killed>>
      /\ readyPromise' \in {readyPromise, r}
      /\ outcome' = [outcome EXCEPT ![r] = code]
      /\ target' = [target EXCEPT ![r] = child]
  BY <1>1 DEF Refuse, childVars, workVars
<1>3. CallInv'
  BY Ranges, <1>2, RejectedCallInv
<1>4. ListensToChild' /\ Numbered' /\ NoLeakedWorker' /\ NeverWedged'
      /\ (spawned' = 0 => restartTimer' = 0)
  BY <1>2 DEF IInv, ChildInv, ListensToChild, Numbered, NeverWedged, NoLeakedWorker
<1>5. QuietAfterShutdown'
  BY <1>2 DEF IInv, ChildInv, QuietAfterShutdown
<1> QED
  BY <1>3, <1>4, <1>5 DEF ChildInv

\* A call handed to the child, which start() may just have spawned.
LEMMA SentInv ==
    ASSUME IInv, TypeOK', NEW r \in Requests, outcome[r] = "idle", RequestSent(r),
           readyPromise' \in {readyPromise, r}
    PROVE  CallInv' /\ ChildInv'
<1> USE Codes
<1>1. /\ ~stopped /\ UNCHANGED <<stopped, restartTimer, backoff, killed, performed>>
      /\ StartEffect /\ child' = StartedChild /\ listening' = StartListening
      /\ pending' = pending \union {r}
      /\ outcome' = [outcome EXCEPT ![r] = "waiting"]
      /\ target' = [target EXCEPT ![r] = StartedChild]
      /\ stage' = [stage EXCEPT ![r] = "toChild"]
  BY DEF RequestSent, CanSend
<1>2. StartedChild # 0 /\ StartedChild \in Nat
  BY Ranges DEF RequestSent, CanSend, StartedChild
<1>3. MustSpawn => pending = {}
  BY DEF MustSpawn, IInv, CallInv, PendingOnCurrentChild
<1>4. StartedChild = child \/ MustSpawn
  BY DEF StartedChild
<1>6. SentToChild' /\ AnsweredWasPerformed' /\ LiveCallHasChild' /\ ResolvedWasPerformed'
  BY Ranges, <1>1, <1>2
  DEF IInv, CallInv, SentToChild, AnsweredWasPerformed, LiveCallHasChild,
      ResolvedWasPerformed, TypeOK
<1>7. PendingIsWaiting' /\ PendingOnCurrentChild'
  BY Ranges, <1>1, <1>2, <1>3, <1>4
  DEF IInv, TypeOK, CallInv, PendingIsWaiting, PendingOnCurrentChild
<1>8. ReadyIsCurrent'
  <2>1. CASE readyPromise' = r
    BY Ranges, <1>1, <2>1 DEF ReadyIsCurrent
  <2>2. CASE readyPromise' # r
    BY Ranges, <1>1, <1>4, <2>2
    DEF ReadyIsCurrent, IInv, TypeOK, CallInv, LiveCallHasChild, MustSpawn
  <2> QED
    BY <2>1, <2>2
<1>9. ChildInv'
  <2>1. CASE MustSpawn
    BY Ranges, <1>1, <2>1
    DEF MustSpawn, StartEffect, StartedChild, StartListening, IInv, ChildInv, TypeOK,
        ListensToChild, Numbered, NeverWedged, NoLeakedWorker, QuietAfterShutdown
  <2>2. CASE ~MustSpawn
    BY Ranges, <1>1, <2>2
    DEF StartEffect, StartedChild, StartListening, IInv, ChildInv, TypeOK,
        ListensToChild, Numbered, NeverWedged, NoLeakedWorker, QuietAfterShutdown
  <2> QED
    BY <2>1, <2>2
<1> QED
  BY <1>6, <1>7, <1>8, <1>9 DEF CallInv

\* A call refused by a full map, after start() may have spawned a child.
LEMMA OverloadedInv ==
    ASSUME IInv, TypeOK', NEW r \in Requests, outcome[r] = "idle", RequestOverloaded(r),
           readyPromise' \in {readyPromise, r}
    PROVE  CallInv' /\ ChildInv'
<1> USE Codes
<1>1. /\ ~stopped /\ UNCHANGED <<stopped, restartTimer, backoff, killed, performed, stage,
                                  pending>>
      /\ StartEffect /\ child' = StartedChild /\ listening' = StartListening
      /\ outcome' = [outcome EXCEPT ![r] = "worker-overloaded"]
      /\ target' = [target EXCEPT ![r] = StartedChild]
  BY DEF RequestOverloaded, workVars
<1>2. StartedChild # 0 /\ StartedChild \in Nat
  BY Ranges DEF RequestOverloaded, StartedChild
<1>3. MustSpawn => pending = {}
  BY DEF MustSpawn, IInv, CallInv, PendingOnCurrentChild
<1>4. StartedChild = child \/ MustSpawn
  BY DEF StartedChild
<1>6. SentToChild' /\ AnsweredWasPerformed' /\ LiveCallHasChild' /\ ResolvedWasPerformed'
  BY Ranges, <1>1, <1>2
  DEF IInv, CallInv, SentToChild, AnsweredWasPerformed, LiveCallHasChild,
      ResolvedWasPerformed, TypeOK
<1>7. PendingIsWaiting' /\ PendingOnCurrentChild'
  BY Ranges, <1>1, <1>2, <1>3, <1>4
  DEF IInv, TypeOK, CallInv, PendingIsWaiting, PendingOnCurrentChild
<1>8. ReadyIsCurrent'
  <2>1. CASE readyPromise' = r
    BY Ranges, <1>1, <2>1 DEF ReadyIsCurrent
  <2>2. CASE readyPromise' # r
    BY Ranges, <1>1, <1>4, <2>2
    DEF ReadyIsCurrent, IInv, TypeOK, CallInv, LiveCallHasChild, MustSpawn
  <2> QED
    BY <2>1, <2>2
<1>9. ChildInv'
  <2>1. CASE MustSpawn
    BY Ranges, <1>1, <2>1
    DEF MustSpawn, StartEffect, StartedChild, StartListening, IInv, ChildInv, TypeOK,
        ListensToChild, Numbered, NeverWedged, NoLeakedWorker, QuietAfterShutdown
  <2>2. CASE ~MustSpawn
    BY Ranges, <1>1, <2>2
    DEF StartEffect, StartedChild, StartListening, IInv, ChildInv, TypeOK,
        ListensToChild, Numbered, NeverWedged, NoLeakedWorker, QuietAfterShutdown
  <2> QED
    BY <2>1, <2>2
<1> QED
  BY <1>6, <1>7, <1>8, <1>9 DEF CallInv

\* A call that finds the channel closed fails the child.
LEMMA DisconnectedInv ==
    ASSUME IInv, TypeOK', NEW r \in Requests, outcome[r] = "idle", RequestDisconnected(r),
           readyPromise' \in {NoRequest, r}
    PROVE  CallInv' /\ ChildInv'
<1> USE Codes
<1> DEFINE code == "worker-not-connected"
<1>1. /\ ~stopped /\ child # 0 /\ UNCHANGED <<stopped, spawned, running, stage, performed>>
      /\ FailChild(child, code, [outcome EXCEPT ![r] = code], pending)
      /\ target' = [target EXCEPT ![r] = child]
  BY DEF RequestDisconnected, workVars
<1>2. restartTimer = 0
  BY Ranges, <1>1 DEF IInv, ChildInv, NeverWedged, Numbered
<1>3. ChildInv'
  BY Ranges, <1>1, <1>2, FailureChildInv
<1>4. /\ pending' = {}
      /\ outcome' = [q \in Requests |-> IF q \in pending THEN code
                                       ELSE [outcome EXCEPT ![r] = code][q]]
  BY <1>1 DEF FailChild, RejectAll
<1>6. CallInv'
  BY Ranges, <1>1, <1>4, RejectedCallInv
<1> QED
  BY <1>3, <1>6

\* A call whose send throws fails the child, even one just spawned.
LEMMA SendThrowsInv ==
    ASSUME IInv, TypeOK', NEW r \in Requests, outcome[r] = "idle", RequestSendThrows(r),
           readyPromise' \in {NoRequest, r}
    PROVE  CallInv' /\ ChildInv'
<1> USE Codes
<1> DEFINE code == "worker-not-connected"
<1>1. /\ CanSend /\ StartEffect /\ UNCHANGED <<stopped, stage, performed>>
      /\ FailChild(StartedChild, code, [outcome EXCEPT ![r] = code], pending)
      /\ target' = [target EXCEPT ![r] = StartedChild]
  BY DEF RequestSendThrows, workVars
<1>2. ~stopped /\ restartTimer = 0
  BY Ranges, <1>1 DEF CanSend, MustSpawn, IInv, ChildInv, NeverWedged, Numbered
<1>3. StartedChild \in Nat \ {0}
  BY Ranges, <1>1 DEF CanSend, StartedChild
<1>4. \/ StartedChild = child /\ UNCHANGED <<spawned, running>>
      \/ /\ child = 0 /\ StartedChild = spawned + 1 /\ spawned' = spawned + 1
         /\ running' = running \union {StartedChild}
  BY <1>1 DEF StartEffect, StartedChild, MustSpawn
<1>5. ChildInv'
  BY <1>1, <1>2, <1>3, <1>4, FailureChildInv
<1>6. /\ pending' = {}
      /\ outcome' = [q \in Requests |-> IF q \in pending THEN code
                                       ELSE [outcome EXCEPT ![r] = code][q]]
  BY <1>1 DEF FailChild, RejectAll
<1>8. CallInv'
  BY Ranges, <1>1, <1>6, RejectedCallInv
<1> QED
  BY <1>5, <1>8

-------------------------------------------------------------------------------
(* The invariant is preserved: timers, events and the child process          *)

\* A failure of the current child outside request(): pending calls are rejected.
LEMMA FailureInv ==
    ASSUME IInv, TypeOK', child # 0, NEW code \in FailureCodes,
           FailChild(child, code, outcome, pending), readyPromise' = NoRequest,
           UNCHANGED <<stopped, target, spawned, running, stage, performed>>
    PROVE  CallInv' /\ ChildInv'
<1>1. ~stopped /\ restartTimer = 0
  BY Ranges DEF IInv, ChildInv, NeverWedged, Numbered, QuietAfterShutdown
<1> QED
  BY <1>1, Ranges, FailureCallInv, FailureChildInv

\* A step that settles at most request r, a pending one, and leaves the client's
\* other fields alone.
LEMMA SettleInv ==
    ASSUME IInv, TypeOK', NEW r \in Requests,
           UNCHANGED <<stopped, child, restartTimer, readyPromise, target, spawned, running,
                       listening, killed, performed>>,
           \A q \in Requests \ {r} : stage'[q] = stage[q],
           stage'[r] \in {stage[r], "gone"},
           stage[r] = "unsent" => stage'[r] = "unsent",
           \/ UNCHANGED <<pending, outcome>>
           \/ /\ r \in pending /\ pending' = pending \ {r}
              /\ \E result \in FailureCodes \union {"ok"} :
                    /\ result = "ok" => r \in performed
                    /\ outcome' = [outcome EXCEPT ![r] = result]
    PROVE  CallInv' /\ ChildInv'
<1> USE Codes
<1>1. ChildInv'
  BY DEF IInv, ChildInv, ListensToChild, Numbered, NeverWedged, NoLeakedWorker,
         QuietAfterShutdown
<1>2. SentToChild' /\ AnsweredWasPerformed'
  BY Ranges DEF IInv, CallInv, SentToChild, AnsweredWasPerformed
<1>3. LiveCallHasChild' /\ ResolvedWasPerformed'
  BY Ranges DEF IInv, CallInv, LiveCallHasChild, ResolvedWasPerformed, PendingIsWaiting
<1>4. PendingIsWaiting' /\ PendingOnCurrentChild'
  BY Ranges DEF IInv, CallInv, PendingIsWaiting, PendingOnCurrentChild
<1>5. ReadyIsCurrent'
  BY Ranges, ClientAssumption
  DEF IInv, TypeOK, CallInv, ReadyIsCurrent, PendingIsWaiting, PendingOnCurrentChild
<1> QED
  BY <1>1, <1>2, <1>3, <1>4, <1>5 DEF CallInv

\* A new child where there was neither a child nor, from now on, a restart timer.
LEMMA SpawnInv ==
    ASSUME IInv, TypeOK', ~stopped, child = 0, restartTimer' = 0,
           child' = spawned + 1, spawned' = spawned + 1,
           running' = running \union {spawned + 1},
           listening' = listening \union {spawned + 1},
           UNCHANGED <<stopped, pending, readyPromise, outcome, target, killed, stage, performed>>
    PROVE  CallInv' /\ ChildInv'
<1>1. pending = {}
  BY DEF IInv, CallInv, PendingOnCurrentChild
<1>2. ReadyIsCurrent'
  BY DEF IInv, TypeOK, CallInv, ReadyIsCurrent, LiveCallHasChild
<1>3. CallInv'
  BY <1>1, <1>2
  DEF IInv, CallInv, SentToChild, AnsweredWasPerformed, LiveCallHasChild, PendingIsWaiting,
      PendingOnCurrentChild, ResolvedWasPerformed
<1>4. Numbered'
  <2>1. 1..spawned \subseteq 1..(spawned + 1) /\ spawned + 1 \in 1..(spawned + 1)
    BY Ranges
  <2>2. running \subseteq 1..spawned
    BY DEF IInv, ChildInv, Numbered
  <2>3. running' \subseteq 1..(spawned + 1)
    BY <2>1, <2>2
  <2> QED
    BY <2>3, Ranges DEF Numbered
<1>5. ListensToChild' /\ NeverWedged' /\ QuietAfterShutdown' /\ spawned' # 0
  BY Ranges DEF IInv, ChildInv, ListensToChild, NeverWedged, QuietAfterShutdown
<1>6. NoLeakedWorker'
  <2>1. \A c \in running : c \in killed
    BY Ranges DEF IInv, ChildInv, NoLeakedWorker, Numbered
  <2> QED
    BY <2>1 DEF NoLeakedWorker
<1>7. ChildInv'
  BY <1>4, <1>5, <1>6 DEF ChildInv
<1> QED
  BY <1>3, <1>7

\* Every step preserves the invariant.
LEMMA StepInv == IInv /\ [Next]_vars => IInv'
<1> SUFFICES ASSUME IInv, [Next]_vars PROVE CallInv' /\ ChildInv'
  BY StepType DEF IInv, CallInv
<1>0. TypeOK'
  BY StepType DEF IInv, CallInv
<1> USE Codes
<1>1. ASSUME NEW r \in Requests, Request(r) PROVE CallInv' /\ ChildInv'
  <2>1. outcome[r] = "idle"
    BY <1>1 DEF Request
  <2>2. CASE (RequestRefused(r) \/ RequestInvalid(r)) /\ UNCHANGED readyPromise
    BY <1>0, <2>1, <2>2, RefusedInv
  <2>3. CASE RequestSent(r) /\ UNCHANGED readyPromise
    BY <1>0, <2>1, <2>3, SentInv
  <2>4. CASE RequestDisconnected(r) /\ readyPromise' = NoRequest
    BY <1>0, <2>1, <2>4, DisconnectedInv
  <2>5. CASE RequestSendThrows(r) /\ readyPromise' = NoRequest
    BY <1>0, <2>1, <2>5, SendThrowsInv
  <2>6. CASE RequestOverloaded(r) /\ UNCHANGED readyPromise
    BY <1>0, <2>1, <2>6, OverloadedInv
  <2> QED
    BY <1>1, <2>2, <2>3, <2>4, <2>5, <2>6 DEF Request
<1>2. ASSUME NEW r \in Requests, WaitUntilReady(r) PROVE CallInv' /\ ChildInv'
  BY <1>0, <1>2, RefusedInv, OverloadedInv, SentInv, DisconnectedInv, SendThrowsInv
  DEF WaitUntilReady
<1>3. ASSUME NEW r \in Requests, CatchReadiness(r) PROVE CallInv' /\ ChildInv'
  <2>1. CASE target[r] # 0 /\ outcome[r] \in RestartCodes /\ child = target[r]
    <3>1. outcome[r] \in FailureCodes
      BY <1>3 DEF CatchReadiness, MustCatch
    <3> QED
      BY <1>0, <1>3, <2>1, <3>1, FailureInv DEF CatchReadiness, workVars
  <2>2. CASE ~(target[r] # 0 /\ outcome[r] \in RestartCodes /\ child = target[r])
    BY <1>3, <2>2
    DEF CatchReadiness, workVars, IInv, CallInv, ChildInv, SentToChild, AnsweredWasPerformed,
        LiveCallHasChild, PendingIsWaiting, PendingOnCurrentChild, ResolvedWasPerformed,
        ReadyIsCurrent, ListensToChild, Numbered, NeverWedged, NoLeakedWorker,
        QuietAfterShutdown
  <2> QED
    BY <2>1, <2>2
<1>4. ASSUME NEW r \in Requests, Timeout(r) PROVE CallInv' /\ ChildInv'
  BY <1>0, <1>4, SettleInv DEF Timeout, childVars, workVars
<1>5. ASSUME NEW r \in Requests, SendCallbackError(r) PROVE CallInv' /\ ChildInv'
  <2>1. CASE r \in pending
    <3> DEFINE code == "worker-not-connected"
    <3>1. child = target[r] /\ child # 0
      BY <2>1 DEF IInv, CallInv, PendingOnCurrentChild
    <3>2. /\ FailChild(child, code, [outcome EXCEPT ![r] = code], pending \ {r})
          /\ readyPromise' = NoRequest
          /\ stage' = [stage EXCEPT ![r] = "gone"] /\ stage[r] # "unsent"
          /\ UNCHANGED <<stopped, target, spawned, running, performed>>
      BY <1>5, <2>1, <3>1 DEF SendCallbackError, ForgetReadiness
    <3>3. ~stopped /\ restartTimer = 0
      BY <3>1, Ranges DEF IInv, ChildInv, NeverWedged, Numbered, QuietAfterShutdown
    <3>4. ChildInv'
      BY <3>1, <3>2, <3>3, Ranges, FailureChildInv
    <3>5. /\ child' = 0 /\ pending' = {}
          /\ outcome' = [q \in Requests |-> IF q \in pending THEN code ELSE outcome[q]]
      BY <2>1, <3>2, <3>3, FailChildEffect, Ranges DEF FailChild, RejectAll
    <3>6. CallInv'
      BY <1>0, <3>2, <3>5, Ranges
      DEF IInv, TypeOK, CallInv, SentToChild, AnsweredWasPerformed, LiveCallHasChild,
          PendingIsWaiting, PendingOnCurrentChild, ResolvedWasPerformed, ReadyIsCurrent
    <3> QED
      BY <3>4, <3>6
  <2>2. CASE r \notin pending
    BY <1>0, <1>5, <2>2, SettleInv DEF SendCallbackError, ForgetReadiness, IInv, TypeOK
  <2> QED
    BY <2>1, <2>2
<1>6. ASSUME NEW r \in Requests, ReceiveReply(r) PROVE CallInv' /\ ChildInv'
  <2>1. stage[r] # "unsent" /\ stage' = [stage EXCEPT ![r] = "gone"]
    BY <1>6 DEF ReceiveReply, Awaited, Replies
  <2>2. CASE stage[r] # "anonymous" /\ r \in pending
    <3>1. ReplyOutcome(stage[r]) \in FailureCodes \union {"ok"}
          /\ (ReplyOutcome(stage[r]) = "ok" => r \in performed)
      BY DEF ReplyOutcome, IInv, CallInv, AnsweredWasPerformed
    <3> QED
      BY <1>0, <1>6, <2>1, <2>2, <3>1, SettleInv DEF ReceiveReply, Awaited, IInv, TypeOK, childVars
  <2>3. CASE ~(stage[r] # "anonymous" /\ r \in pending)
    BY <1>0, <1>6, <2>1, <2>3, SettleInv DEF ReceiveReply, Awaited, IInv, TypeOK, childVars
  <2> QED
    BY <2>2, <2>3
<1>7. ASSUME NEW r \in Requests,
             ChildReceives(r) \/ ChildPerforms(r) \/ \E kind \in Replies : ChildReplies(r, kind)
      PROVE  CallInv' /\ ChildInv'
  <2>1. UNCHANGED <<clientVars, callVars, childVars>> /\ stage[r] \in {"toChild", "handling"}
        /\ performed \subseteq performed'
    BY <1>7 DEF ChildReceives, ChildPerforms, ChildReplies
  <2>2. SentToChild' /\ AnsweredWasPerformed'
    BY <1>7, <2>1
    DEF ChildReceives, ChildPerforms, ChildReplies, IInv, TypeOK, CallInv, SentToChild,
        AnsweredWasPerformed, Replies, callVars
  <2> QED
    BY <2>1, <2>2
    DEF clientVars, callVars, childVars, IInv, CallInv, ChildInv, LiveCallHasChild,
        PendingIsWaiting, PendingOnCurrentChild, ResolvedWasPerformed, ReadyIsCurrent,
        ListensToChild, Numbered, NeverWedged, NoLeakedWorker, QuietAfterShutdown
<1>8. ASSUME NEW c \in Children, ExitEvent(c) \/ ErrorEvent(c) PROVE CallInv' /\ ChildInv'
  <2>1. PICK code \in FailureCodes : OnChildFailure(c, code)
    BY <1>8 DEF ExitEvent, ErrorEvent
  <2>2. child = c
    BY <1>8 DEF ExitEvent, ErrorEvent, IInv, ChildInv, ListensToChild
  <2>3. child # 0
    BY <2>2 DEF Children
  <2> QED
    BY <1>0, <2>1, <2>2, <2>3, FailureInv DEF OnChildFailure, ForgetReadiness, workVars
<1>9. ASSUME NEW c \in Children, ChannelCloses(c) \/ ChildDies(c) PROVE CallInv' /\ ChildInv'
  <2>1. UNCHANGED <<clientVars, callVars, workVars, spawned, listening, killed>>
        /\ running' \subseteq running
    BY <1>9 DEF ChannelCloses, ChildDies
  <2> QED
    BY <2>1
    DEF clientVars, callVars, workVars, IInv, CallInv, ChildInv, SentToChild,
        AnsweredWasPerformed, LiveCallHasChild, PendingIsWaiting, PendingOnCurrentChild,
        ResolvedWasPerformed, ReadyIsCurrent, ListensToChild, Numbered, NeverWedged,
        NoLeakedWorker, QuietAfterShutdown
<1>10. CASE Start
  <2>1. MustSpawn /\ ~stopped
    BY <1>10 DEF Start
  <2> QED
    BY <1>0, <1>10, <2>1, SpawnInv
    DEF Start, MustSpawn, StartEffect, StartedChild, StartListening, callVars, workVars
<1>11. CASE RestartFires
  <2>1. child = 0 /\ ~stopped
    BY <1>11, Ranges
    DEF RestartFires, IInv, TypeOK, ChildInv, NeverWedged, Numbered, QuietAfterShutdown
  <2> QED
    BY <1>0, <1>11, <2>1, SpawnInv DEF RestartFires, callVars, workVars
<1>12. CASE Shutdown
  <2>1. /\ stopped' /\ restartTimer' = 0 /\ pending' = {} /\ readyPromise' = NoRequest
        /\ child' = 0 /\ listening' = listening \ {child}
        /\ killed' = IF child = 0 THEN killed ELSE killed \union {child}
        /\ outcome' = [q \in Requests |-> IF q \in pending THEN "worker-shutdown" ELSE outcome[q]]
        /\ UNCHANGED <<target, spawned, running, stage, performed>>
    BY <1>12 DEF Shutdown, ClearRestartTimer, RejectAll, workVars
  <2>2. CallInv'
    BY <2>1, Ranges
    DEF IInv, CallInv, SentToChild, AnsweredWasPerformed, LiveCallHasChild, PendingIsWaiting,
        PendingOnCurrentChild, ResolvedWasPerformed, ReadyIsCurrent
  <2>3. ChildInv'
    BY <2>1, Ranges, ClientAssumption
    DEF IInv, TypeOK, Children, ChildInv, ListensToChild, Numbered, NeverWedged,
        NoLeakedWorker, QuietAfterShutdown
  <2> QED
    BY <2>2, <2>3
<1>13. CASE UNCHANGED vars
  BY <1>13
  DEF vars, clientVars, callVars, childVars, workVars, IInv, CallInv, ChildInv, SentToChild,
      AnsweredWasPerformed, LiveCallHasChild, PendingIsWaiting, PendingOnCurrentChild,
      ResolvedWasPerformed, ReadyIsCurrent, ListensToChild, Numbered, NeverWedged,
      NoLeakedWorker, QuietAfterShutdown
<1> QED
  BY <1>1, <1>2, <1>3, <1>4, <1>5, <1>6, <1>7, <1>8, <1>9, <1>10, <1>11, <1>12, <1>13
  DEF Next

-------------------------------------------------------------------------------
(* The theorems                                                              *)

\* The inductive invariant holds throughout.
THEOREM Invariance == Spec => []IInv
BY InitInv, StepInv, PTL DEF Spec

\* Every field of the client, every promise and every process keeps its type.
THEOREM TypeCorrect == Spec => []TypeOK
BY Invariance, PTL DEF IInv

\* No caller is left hanging on a promise whose entry and timer are gone.
THEOREM NoForgottenCall == Spec => []PendingIsWaiting
BY Invariance, PTL DEF IInv, CallInv

\* No request waits for the answer of a replaced child.
THEOREM NoStalePending == Spec => []PendingOnCurrentChild
BY Invariance, PTL DEF IInv, CallInv

\* A call resolves only if the worker carried it out.
THEOREM NoPhantomResult == Spec => []ResolvedWasPerformed
BY Invariance, PTL DEF IInv, CallInv

\* A successful readiness promise speaks of the current child.
THEOREM ReadinessIsCurrent == Spec => []ReadyIsCurrent
BY Invariance, PTL DEF IInv, CallInv

\* Every live worker is either referenced or told to die.
THEOREM NoLeak == Spec => []NoLeakedWorker
BY Invariance, PTL DEF IInv, ChildInv

\* A started client always has a child or a scheduled restart, and not both.
THEOREM AlwaysRecovering == Spec => []NeverWedged
BY Invariance, PTL DEF IInv, ChildInv

\* After shutdown() nothing is referenced, scheduled or pending.
THEOREM ShutdownIsQuiet == Spec => []QuietAfterShutdown
BY Invariance, PTL DEF IInv, ChildInv

\* A step of the client never starts a process once the client is stopped.
THEOREM ShutdownIsFinal == Spec => NoSpawnAfterShutdown
<1>1. IInv /\ [Next]_vars => [stopped => spawned' = spawned]_vars
  <2> SUFFICES ASSUME IInv, Next, stopped PROVE spawned' = spawned
    BY DEF vars, childVars
  <2>1. ASSUME NEW r \in Requests,
               Request(r) \/ WaitUntilReady(r) \/ CatchReadiness(r) \/ Timeout(r)
                 \/ SendCallbackError(r) \/ ReceiveReply(r)
        PROVE  spawned' = spawned
    BY <2>1
    DEF Request, WaitUntilReady, RequestRefused, RequestInvalid, Refuse, RequestOverloaded,
        RequestDisconnected, RequestSent, RequestSendThrows, CanSend, CatchReadiness, Timeout, SendCallbackError,
        ReceiveReply, childVars
  <2>2. ASSUME NEW r \in Requests,
               ChildReceives(r) \/ ChildPerforms(r) \/ \E kind \in Replies : ChildReplies(r, kind)
        PROVE  spawned' = spawned
    BY <2>2 DEF ChildReceives, ChildPerforms, ChildReplies, childVars
  <2>3. ASSUME NEW c \in Children,
               ExitEvent(c) \/ ErrorEvent(c) \/ ChannelCloses(c) \/ ChildDies(c)
        PROVE  spawned' = spawned
    BY <2>3 DEF ExitEvent, ErrorEvent, OnChildFailure, ForgetReadiness, ChannelCloses, ChildDies
  <2>4. ASSUME Start \/ Shutdown \/ RestartFires PROVE spawned' = spawned
    BY <2>4 DEF Start, Shutdown, ClearRestartTimer, RestartFires
  <2> QED
    BY <2>1, <2>2, <2>3, <2>4 DEF Next
<1> QED
  BY <1>1, Invariance, PTL DEF Spec, NoSpawnAfterShutdown

\* The restart delay falls back only on the success of a pending request.
THEOREM BackoffResets == Spec => BackoffFallsOnSuccess
<1> DEFINE Falls == backoff' < backoff => \E r \in pending : outcome'[r] = "ok"
<1>1. IInv /\ [Next]_vars => [Falls]_vars
  <2> SUFFICES ASSUME IInv, Next PROVE Falls
    OBVIOUS
  <2>1. backoff \in Nat /\ outcome \in [Requests -> Outcomes]
    BY ClientAssumption DEF IInv, TypeOK
  <2>2. ASSUME ScheduleRestart PROVE Falls
    BY <2>1, <2>2, ScheduleRestartType, ClientAssumption DEF IInv, TypeOK
  <2>3. ASSUME UNCHANGED backoff PROVE Falls
    BY <2>1, <2>3
  <2>4. ASSUME NEW r \in Requests, Request(r) \/ WaitUntilReady(r) PROVE Falls
    BY <2>2, <2>3, <2>4
    DEF Request, WaitUntilReady, RequestRefused, RequestInvalid, Refuse, RequestOverloaded,
        RequestDisconnected, RequestSent, RequestSendThrows, FailChild
  <2>5. ASSUME NEW r \in Requests,
               CatchReadiness(r) \/ Timeout(r) \/ SendCallbackError(r) PROVE Falls
    BY <2>2, <2>3, <2>5 DEF CatchReadiness, Timeout, SendCallbackError, ForgetReadiness, FailChild
  <2>6. ASSUME NEW r \in Requests, ReceiveReply(r) PROVE Falls
    <3>1. CASE stage[r] = "ok" /\ r \in pending
      BY <2>1, <2>6, <3>1 DEF ReceiveReply, Awaited, ReplyOutcome
    <3>2. CASE ~(stage[r] = "ok" /\ r \in pending)
      BY <2>3, <2>6, <3>2 DEF ReceiveReply, Awaited, BackoffAfter
    <3> QED
      BY <3>1, <3>2
  <2>7. ASSUME NEW c \in Children, ExitEvent(c) \/ ErrorEvent(c) PROVE Falls
    BY <2>2, <2>3, <2>7 DEF ExitEvent, ErrorEvent, OnChildFailure, ForgetReadiness, FailChild
  <2>8. ASSUME \/ \E r \in Requests : \/ ChildReceives(r) \/ ChildPerforms(r)
                                     \/ \E kind \in Replies : ChildReplies(r, kind)
               \/ \E c \in Children : ChannelCloses(c) \/ ChildDies(c)
               \/ Start \/ Shutdown \/ RestartFires
        PROVE  Falls
    BY <2>3, <2>8
    DEF ChildReceives, ChildPerforms, ChildReplies, ChannelCloses, ChildDies, Start, Shutdown,
        ClearRestartTimer, RestartFires, clientVars
  <2> QED
    BY <2>4, <2>5, <2>6, <2>7, <2>8 DEF Next
<1> QED
  BY <1>1, Invariance, PTL DEF Spec, BackoffFallsOnSuccess

-------------------------------------------------------------------------------
(* The client implements the abstract call                                   *)

\* Calls that fail together in one step, as WorkerRpc sees them.
LEMMA FailsTogether ==
    ASSUME IInv, TypeOK', NEW S \in SUBSET Rpc!Unsettled, NEW code \in FailureCodes,
           outcome' = [q \in Requests |-> IF q \in S THEN code ELSE outcome[q]],
           UNCHANGED <<performed, stopped>>
    PROVE  [Rpc!Next]_Rpc!vars
<1>1. CASE S = {}
  <2>1. outcome' = outcome
    BY <1>1 DEF IInv, TypeOK
  <2> QED
    BY <2>1 DEF Rpc!vars
<1>2. CASE S # {}
  <2>1. Rpc!Fail(S)
    BY <1>2 DEF Rpc!Fail
  <2> QED
    BY <2>1 DEF Rpc!Next
<1> QED
  BY <1>1, <1>2

\* Every step of the client is a step of the abstract call, or changes nothing it
\* speaks of.
LEMMA RpcStep == IInv /\ TypeOK' /\ [Next]_vars => [Rpc!Next]_Rpc!vars
<1> SUFFICES ASSUME IInv, TypeOK', [Next]_vars PROVE [Rpc!Next]_Rpc!vars
  OBVIOUS
<1> USE Codes
<1>a. pending \subseteq Rpc!Unsettled /\ outcome \in [Requests -> Outcomes]
      /\ \A r \in Requests : outcome[r] = "idle" => r \in Rpc!Unsettled
  BY DEF IInv, TypeOK, CallInv, PendingIsWaiting, Rpc!Unsettled
<1>1. ASSUME NEW r \in Requests, CallStep(r), outcome[r] = "idle" PROVE [Rpc!Next]_Rpc!vars
  <2>1. CASE RequestSent(r)
    <3>1. Rpc!Call(r)
      BY <1>1, <2>1 DEF RequestSent, CanSend, Rpc!Call
    <3> QED
      BY <3>1 DEF Rpc!Next
  <2>2. CASE RequestRefused(r) \/ RequestInvalid(r)
    <3>1. PICK code \in FailureCodes : Refuse(r, code)
      BY <2>2 DEF RequestRefused, RequestInvalid
    <3>2. outcome' = [q \in Requests |-> IF q \in {r} THEN code ELSE outcome[q]]
      BY <1>a, <3>1 DEF Refuse
    <3>3. {r} \in SUBSET Rpc!Unsettled /\ UNCHANGED <<performed, stopped>>
      BY <1>a, <1>1, <3>1 DEF Refuse, workVars
    <3> QED
      BY <3>2, <3>3, FailsTogether
  <2>3. CASE RequestDisconnected(r) \/ RequestSendThrows(r)
    <3> DEFINE code == "worker-not-connected"
    <3>1. outcome' = [q \in Requests |-> IF q \in pending THEN code
                                       ELSE [outcome EXCEPT ![r] = code][q]]
          /\ UNCHANGED <<performed, stopped>>
      BY <2>3 DEF RequestDisconnected, RequestSendThrows, FailChild, RejectAll, workVars
    <3>2. outcome' = [q \in Requests |-> IF q \in pending \union {r} THEN code ELSE outcome[q]]
      BY <1>a, <3>1
    <3>3. pending \union {r} \in SUBSET Rpc!Unsettled
      BY <1>a, <1>1
    <3> QED
      BY <3>1, <3>2, <3>3, FailsTogether
  <2>4. CASE RequestOverloaded(r)
    <3>1. outcome' = [q \in Requests |-> IF q \in {r} THEN "worker-overloaded" ELSE outcome[q]]
      BY <1>a, <2>4 DEF RequestOverloaded
    <3>2. {r} \in SUBSET Rpc!Unsettled /\ UNCHANGED <<performed, stopped>>
      BY <1>a, <1>1, <2>4 DEF RequestOverloaded, workVars
    <3> QED
      BY <3>1, <3>2, FailsTogether
  <2> QED
    BY <1>1, <2>1, <2>2, <2>3, <2>4 DEF CallStep
<1>2. ASSUME NEW r \in Requests, Request(r) \/ WaitUntilReady(r) PROVE [Rpc!Next]_Rpc!vars
  BY <1>1, <1>2 DEF Request, WaitUntilReady, CallStep
<1>3. ASSUME NEW code \in FailureCodes, NEW c, FailChild(c, code, outcome, pending),
             UNCHANGED <<performed, stopped>>
      PROVE  [Rpc!Next]_Rpc!vars
  BY <1>a, <1>3, FailsTogether DEF FailChild, RejectAll
<1>4. ASSUME NEW r \in Requests, CatchReadiness(r) PROVE [Rpc!Next]_Rpc!vars
  <2>1. outcome[r] \in FailureCodes /\ UNCHANGED <<performed, stopped>>
    BY <1>4 DEF CatchReadiness, MustCatch, workVars
  <2> QED
    BY <1>3, <1>4, <2>1 DEF CatchReadiness, Rpc!vars
<1>5. ASSUME NEW r \in pending, NEW code \in FailureCodes,
             outcome' = [outcome EXCEPT ![r] = code], UNCHANGED <<performed, stopped>>
      PROVE  [Rpc!Next]_Rpc!vars
  <2>1. outcome' = [q \in Requests |-> IF q \in {r} THEN code ELSE outcome[q]]
    BY <1>a, <1>5
  <2>2. {r} \in SUBSET Rpc!Unsettled
    BY <1>a
  <2> QED
    BY <1>5, <2>1, <2>2, FailsTogether
<1>6. ASSUME NEW r \in Requests, Timeout(r) PROVE [Rpc!Next]_Rpc!vars
  BY <1>5, <1>6 DEF Timeout, workVars
<1>7. ASSUME NEW r \in Requests, SendCallbackError(r) PROVE [Rpc!Next]_Rpc!vars
  <2>1. CASE r \in pending
    <3> DEFINE code == "worker-not-connected"
    <3>1. child = target[r]
      BY <2>1 DEF IInv, CallInv, PendingOnCurrentChild
    <3>2. outcome' = [q \in Requests |-> IF q \in pending \ {r} THEN code
                                       ELSE [outcome EXCEPT ![r] = code][q]]
          /\ UNCHANGED <<performed, stopped>>
      BY <1>7, <2>1, <3>1 DEF SendCallbackError, ForgetReadiness, FailChild, RejectAll
    <3>3. outcome' = [q \in Requests |-> IF q \in pending THEN code ELSE outcome[q]]
      BY <1>a, <2>1, <3>2
    <3> QED
      BY <1>a, <3>2, <3>3, FailsTogether
  <2>2. CASE r \notin pending
    BY <1>7, <2>2 DEF SendCallbackError, ForgetReadiness, Rpc!vars
  <2> QED
    BY <2>1, <2>2
<1>8. ASSUME NEW r \in Requests, ReceiveReply(r) PROVE [Rpc!Next]_Rpc!vars
  <2>0. UNCHANGED <<performed, stopped>>
    BY <1>8 DEF ReceiveReply, Awaited
  <2>1. CASE ~(stage[r] # "anonymous" /\ r \in pending)
    BY <1>8, <2>0, <2>1 DEF ReceiveReply, Awaited, Rpc!vars
  <2>2. CASE r \in pending /\ stage[r] = "ok"
    <3>1. outcome' = [outcome EXCEPT ![r] = "ok"] /\ r \in performed /\ outcome[r] = "waiting"
      BY <1>8, <2>2
      DEF ReceiveReply, Awaited, ReplyOutcome, IInv, CallInv, AnsweredWasPerformed, PendingIsWaiting
    <3>2. Rpc!Acknowledge(r)
      BY <2>0, <3>1 DEF Rpc!Acknowledge
    <3> QED
      BY <3>2 DEF Rpc!Next
  <2>3. CASE r \in pending /\ stage[r] \notin {"anonymous", "ok"}
    <3>1. ReplyOutcome(stage[r]) \in FailureCodes
      BY <2>3 DEF ReplyOutcome
    <3> QED
      BY <1>5, <1>8, <2>0, <2>3, <3>1 DEF ReceiveReply, Awaited
  <2> QED
    BY <2>1, <2>2, <2>3
<1>9. ASSUME NEW r \in Requests, ChildPerforms(r) PROVE [Rpc!Next]_Rpc!vars
  <2>1. outcome[r] # "idle"
    BY <1>9 DEF ChildPerforms, IInv, CallInv, SentToChild
  <2>2. Rpc!Perform(r)
    BY <1>9, <2>1 DEF ChildPerforms, Rpc!Perform, clientVars, callVars
  <2> QED
    BY <2>2 DEF Rpc!Next
<1>10. ASSUME NEW c \in Children, ExitEvent(c) \/ ErrorEvent(c) PROVE [Rpc!Next]_Rpc!vars
  <2>1. PICK code \in FailureCodes : OnChildFailure(c, code)
    BY <1>10 DEF ExitEvent, ErrorEvent
  <2> QED
    BY <1>3, <2>1 DEF OnChildFailure, ForgetReadiness, Rpc!vars, workVars
<1>11. CASE Shutdown
  <2>1. /\ ~stopped /\ stopped' = TRUE /\ UNCHANGED performed
        /\ outcome' = [q \in Requests |-> IF q \in pending THEN "worker-shutdown" ELSE outcome[q]]
    BY <1>11 DEF Shutdown, ClearRestartTimer, RejectAll, workVars
  <2>2. outcome' = [q \in Requests |-> IF outcome[q] = "waiting" THEN "worker-shutdown"
                                     ELSE outcome[q]]
    BY <2>1 DEF IInv, CallInv, PendingIsWaiting
  <2>3. Rpc!Close
    BY <2>1, <2>2 DEF Rpc!Close
  <2> QED
    BY <2>3 DEF Rpc!Next
<1>12. ASSUME \/ \E r \in Requests : ChildReceives(r) \/ \E kind \in Replies : ChildReplies(r, kind)
              \/ \E c \in Children : ChannelCloses(c) \/ ChildDies(c)
              \/ Start \/ RestartFires \/ UNCHANGED vars
       PROVE  [Rpc!Next]_Rpc!vars
  <2>1. UNCHANGED <<outcome, performed, stopped>>
    BY <1>12
    DEF ChildReceives, ChildReplies, ChannelCloses, ChildDies, Start, RestartFires, vars,
        clientVars, callVars, workVars
  <2> QED
    BY <2>1 DEF Rpc!vars
<1> QED
  BY <1>2, <1>4, <1>6, <1>7, <1>8, <1>9, <1>10, <1>11, <1>12 DEF Next

\* RuntimeWorkerClient does what the Supervisor relies on: calls settle once, succeed
\* only if performed, and none is taken after shutdown().
THEOREM ImplementsRpc == Spec => RpcSpec
<1>1. Init => Rpc!Init
  BY DEF Init, Rpc!Init
<1>2. IInv /\ IInv' /\ [Next]_vars => [Rpc!Next]_Rpc!vars
  BY RpcStep DEF IInv
<1> QED
  BY <1>1, <1>2, Invariance, PTL DEF Spec, RpcSpec, Rpc!Spec
===============================================================================
