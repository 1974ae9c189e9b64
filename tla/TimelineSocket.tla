---------------------------- MODULE TimelineSocket ----------------------------
(***************************************************************************)
(* One timeline WebSocket served by the Timeline Worker                   *)
(* (src/lib/runtime/timeline-ws.ts), the Supervisor's subscriber maps     *)
(* (src/lib/runtime/supervisor.ts) and what the worker holds for it.      *)
(*                                                                         *)
(* A connection changes the transcript it follows whenever the client     *)
(* asks, the agent's session changes or a prompt claim is resolved; each  *)
(* change is a run of subscribeLive that awaits the Supervisor twice, and *)
(* runs overlap.  A run is named by a member of Runs, which is also the   *)
(* id of the subscription it makes; Watch is the id of the session watch. *)
(***************************************************************************)
EXTENDS Integers, SequencesExt

CONSTANTS
    Runs,       \* runs of subscribeLive; bounds how many there are
    Paths,      \* transcripts
    Watch,      \* the session watch's subscription
    None,
    MaxGen,     \* bound: generations, the runs' and the unsubscribes'
    MaxFaults   \* bound: requests that fail and exits of the Timeline Worker

ASSUME SocketAssumption ==
    /\ Watch \notin Runs /\ None \notin Runs \cup {Watch} \cup Paths
    /\ MaxGen \in Nat /\ MaxFaults \in Nat

Ids == Runs \cup {Watch}

VARIABLES
    conn,     \* the connection's state (IRuntimeTimelineConnectionState)
    run,      \* per run: where it is, its generation, path and origin
    opening,  \* the connection's own start
    subs,     \* timelineLiveSubscribers and timelineSessionWatchSubscribers
    ipc,      \* commands on their way to the worker, in order
    held,     \* the subscriptions the worker keeps
    lost,     \* subscriptions whose unsubscribe will never reach the worker
    faults

vars == <<conn, run, opening, subs, ipc, held, lost, faults>>

Unused == [at |-> "unused", gen |-> 0, path |-> None, origin |-> None]

Init ==
    /\ conn = [cleaned |-> FALSE, closing |-> FALSE, liveId |-> None,
               watchId |-> None, path |-> None, gen |-> 0, failed |-> FALSE]
    /\ run = [r \in Runs |-> Unused]
    /\ opening = "detect"
    /\ subs = {} /\ ipc = <<>> /\ held = {} /\ lost = {}
    /\ faults = 0

Fault == faults < MaxFaults /\ faults' = faults + 1

(***************************************************************************)
(* The Supervisor's unsubscribe: its own entry goes at once; the command  *)
(* is sent, or is refused because the worker is not ready, and the caller *)
(* only counts the failure.                                               *)
(***************************************************************************)
Unsubscribe(gone) ==
    /\ subs' = subs \ ToSet(gone)
    /\ \/ /\ ipc' = ipc \o [i \in DOMAIN gone |-> [op |-> "unsubscribe", id |-> gone[i]]]
          /\ UNCHANGED <<lost, faults>>
       \/ /\ gone # <<>>
          /\ Fault
          /\ lost' = lost \cup ToSet(gone)
          /\ UNCHANGED ipc

KeepSubscriptions == UNCHANGED <<subs, ipc, lost, faults>>

Send(id) ==
    /\ subs' = subs \cup {id}
    /\ ipc' = Append(ipc, [op |-> "subscribe", id |-> id])

Mine(id) == IF id = None THEN <<>> ELSE <<id>>

(***************************************************************************)
(* subscribeLive.  Begin runs up to the first await: the generation is    *)
(* counted even when the connection is gone, and a previous subscription  *)
(* is taken out of the state before it is unsubscribed.                   *)
(***************************************************************************)
Active(r) == run[r].at \notin {"unused", "done"}

Begin(r, p, origin) ==
    /\ run[r].at = "unused" /\ conn.gen < MaxGen
    /\ conn' = [conn EXCEPT !.gen = @ + 1,
                            !.liveId = IF conn.cleaned THEN @ ELSE None]
    /\ run' = [run EXCEPT ![r] =
                 [at |-> IF conn.cleaned THEN "done"
                         ELSE IF conn.liveId = None THEN "ask" ELSE "dropping",
                  gen |-> conn.gen + 1, path |-> p, origin |-> origin]]
    /\ IF conn.cleaned THEN KeepSubscriptions ELSE Unsubscribe(Mine(conn.liveId))

(* A timeline:subscribe message, or a timeline:resume that was resolved. *)
MessageSubscribe(r, p) ==
    /\ Begin(r, p, "message")
    /\ UNCHANGED <<opening, held>>

(* A session-changed event, while the session watch has our callback. *)
SessionChanged(r, p) ==
    /\ Watch \in subs /\ ~conn.cleaned
    /\ p # conn.path
    /\ Begin(r, p, "session")
    /\ UNCHANGED <<opening, held>>

(* A prompt claim; one refresh at a time. *)
ClaimRefresh(r, p) ==
    /\ ~conn.cleaned
    /\ \A q \in Runs : run[q].origin = "claim" => ~Active(q)
    /\ p # conn.path
    /\ Begin(r, p, "claim")
    /\ UNCHANGED <<opening, held>>

\* Mutant: the generation is not looked at after an await.
SupersededByEnd(r) == conn.cleaned

Superseded(r) == conn.cleaned \/ run[r].gen # conn.gen

\* Mutant: nothing is asked for once the previous subscription is dropped.
DroppedStops(r) ==
    /\ run[r].at = "dropping"
    /\ run' = [run EXCEPT ![r].at = "done"]
    /\ UNCHANGED <<conn, opening, subs, ipc, held, lost, faults>>

(* The unsubscribe of the previous subscription came back, or failed. *)
Dropped(r) ==
    /\ run[r].at = "dropping"
    /\ run' = [run EXCEPT ![r].at = IF Superseded(r) THEN "done" ELSE "ask"]
    /\ UNCHANGED <<conn, opening, subs, ipc, held, lost, faults>>

(* subscribeTimelineLive: the Supervisor notes the callbacks and asks. *)
Ask(r) ==
    /\ run[r].at = "ask"
    /\ run' = [run EXCEPT ![r].at = "waiting"]
    /\ Send(r)
    /\ UNCHANGED <<conn, opening, held, lost, faults>>

(* The reply is for nobody any more: the new subscription is given back. *)
AnsweredTooLate(r) ==
    /\ run[r].at = "answered"
    /\ Superseded(r)
    /\ run' = [run EXCEPT ![r].at = "done"]
    /\ Unsubscribe(<<r>>)
    /\ UNCHANGED <<conn, opening, held>>

Answered(r) ==
    /\ run[r].at = "answered"
    /\ ~Superseded(r)
    /\ run' = [run EXCEPT ![r].at = "done"]
    /\ conn' = [conn EXCEPT !.liveId = r, !.path = run[r].path]
    /\ UNCHANGED <<opening, subs, ipc, held, lost, faults>>

(* A failed subscribe is shown, and closes the connection, only if it was *)
(* the opening's; of the others no more than a counter is kept.            *)
FailedOpening(failed) == \E r \in failed : run[r].origin = "opening"

(* The request times out; the worker may act on it all the same. *)
TimesOut(r) ==
    /\ run[r].at \in {"waiting", "answered"}
    /\ Fault
    /\ run' = [run EXCEPT ![r].at = "done"]
    /\ conn' = [conn EXCEPT !.closing = @ \/ FailedOpening({r}), !.failed = TRUE]
    /\ subs' = subs \ {r}
    /\ lost' = lost \cup {r}
    /\ UNCHANGED <<opening, ipc, held>>

-----------------------------------------------------------------------------
(* timeline:unsubscribe. *)
MessageUnsubscribe ==
    /\ ~conn.cleaned
    /\ conn' = [conn EXCEPT !.gen = @ + 1, !.liveId = None,
                            !.path = IF conn.liveId = None THEN @ ELSE None]
    /\ conn.gen < MaxGen
    /\ Unsubscribe(Mine(conn.liveId))
    /\ UNCHANGED <<run, opening, held>>

(* The socket closes or fails, at any time: cleanup. *)
Cleanup ==
    /\ ~conn.cleaned
    /\ conn' = [conn EXCEPT !.cleaned = TRUE, !.liveId = None, !.watchId = None,
                            !.path = None]
    /\ Unsubscribe(Mine(conn.liveId) \o Mine(conn.watchId))
    /\ UNCHANGED <<run, opening, held>>

(***************************************************************************)
(* The connection's start: the agent is detected, the session watch is    *)
(* subscribed, the transcript is resolved and followed.                   *)
(***************************************************************************)
Detected ==
    /\ opening = "detect"
    /\ IF conn.cleaned
       THEN opening' = "done"
       ELSE \/ opening' = "starting"
            \/ opening' = "done"           \* not installed
    /\ UNCHANGED <<conn, run, subs, ipc, held, lost, faults>>

(* subscribeTimelineSessionWatch, past ensureStarted: the socket may have *)
(* closed meanwhile, which is found out when the watch is answered.       *)
Started ==
    /\ opening = "starting"
    /\ opening' = "watching"
    /\ Send(Watch)
    /\ UNCHANGED <<conn, run, held, lost, faults>>

\* Mutant: the session watch is noted without asking whether we closed.
WatchAnsweredAnyway ==
    /\ opening = "watched"
    /\ opening' = "resolve"
    /\ conn' = [conn EXCEPT !.watchId = Watch]
    /\ KeepSubscriptions
    /\ UNCHANGED <<run, held>>

WatchAnswered ==
    /\ opening = "watched"
    /\ IF conn.cleaned
       THEN /\ opening' = "done"
            /\ UNCHANGED conn
            /\ Unsubscribe(<<Watch>>)
       ELSE /\ opening' = "resolve"
            /\ conn' = [conn EXCEPT !.watchId = Watch]
            /\ KeepSubscriptions
    /\ UNCHANGED <<run, held>>

WatchTimesOut ==
    /\ opening \in {"watching", "watched"}
    /\ Fault
    /\ opening' = "done"
    /\ conn' = [conn EXCEPT !.closing = TRUE, !.failed = TRUE]
    /\ subs' = subs \ {Watch}
    /\ lost' = lost \cup {Watch}
    /\ UNCHANGED <<run, ipc, held>>

Resolved(r, p) ==
    /\ opening = "resolve"
    /\ ~conn.cleaned
    /\ opening' = "done"
    /\ Begin(r, p, "opening")
    /\ UNCHANGED <<held>>

(* There is no transcript yet, or the connection is gone. *)
NotResolved ==
    /\ opening = "resolve"
    /\ opening' = "done"
    /\ UNCHANGED <<conn, run, subs, ipc, held, lost, faults>>

(***************************************************************************)
(* The worker takes its commands in order; a subscribe adds the           *)
(* subscriber before its first await.                                     *)
(***************************************************************************)
WorkerSubscribes ==
    /\ ipc # <<>> /\ Head(ipc).op = "subscribe"
    /\ LET id == Head(ipc).id
       IN  /\ held' = held \cup {id}
           /\ run' = [r \in Runs |-> IF r = id /\ run[r].at = "waiting"
                                      THEN [run[r] EXCEPT !.at = "answered"]
                                      ELSE run[r]]
           /\ opening' = IF id = Watch /\ opening = "watching" THEN "watched"
                         ELSE opening
    /\ ipc' = Tail(ipc)
    /\ UNCHANGED <<conn, subs, lost, faults>>

WorkerUnsubscribes ==
    /\ ipc # <<>> /\ Head(ipc).op = "unsubscribe"
    /\ held' = held \ {Head(ipc).id}
    /\ ipc' = Tail(ipc)
    /\ UNCHANGED <<conn, run, opening, subs, lost, faults>>

(* What the requests that came back with an error leave. *)
Fail(failed, watchFailed) ==
    /\ run' = [r \in Runs |-> IF r \in failed THEN [run[r] EXCEPT !.at = "done"]
                               ELSE run[r]]
    /\ opening' = IF watchFailed THEN "done" ELSE opening
    /\ conn' = [conn EXCEPT !.closing = @ \/ watchFailed \/ FailedOpening(failed),
                            !.failed = @ \/ watchFailed \/ failed # {}]

(* The worker refuses a subscribe (its path is not allowed, or the        *)
(* provider unknown) and keeps nothing of it; nothing of the worker's     *)
(* depends on when the refusal arrives, so its way back is no step.       *)
WorkerRefuses ==
    LET id == Head(ipc).id
    IN  /\ ipc # <<>> /\ Head(ipc).op = "subscribe"
        /\ Fault
        /\ ipc' = Tail(ipc)
        /\ subs' = subs \ {id}
        /\ Fail({r \in Runs : r = id /\ run[r].at = "waiting"},
                id = Watch /\ opening = "watching")
        /\ UNCHANGED <<held, lost>>

(* The worker exits: requests are refused, the subscribers are told and   *)
(* forgotten, and what it held is gone.                                   *)
WorkerExits ==
    /\ Fault
    /\ held' = {} /\ ipc' = <<>> /\ subs' = {}
    /\ Fail({r \in Runs : run[r].at \in {"waiting", "answered"}},
            opening \in {"watching", "watched"})
    /\ UNCHANGED lost

RunStep(r) ==
    \/ \E p \in Paths : \/ MessageSubscribe(r, p) \/ SessionChanged(r, p)
                         \/ ClaimRefresh(r, p) \/ Resolved(r, p)
    \/ Dropped(r) \/ Ask(r) \/ Answered(r) \/ AnsweredTooLate(r) \/ TimesOut(r)

Next ==
    \/ \E r \in Runs : RunStep(r)
    \/ MessageUnsubscribe \/ Cleanup
    \/ Detected \/ Started \/ WatchAnswered \/ WatchTimesOut \/ NotResolved
    \/ WorkerSubscribes \/ WorkerRefuses \/ WorkerUnsubscribes \/ WorkerExits

Spec == Init /\ [][Next]_vars

(***************************************************************************)
(* Awaits come back, the worker takes its commands, and a socket that     *)
(* closeRetryable was called on closes.                                   *)
(***************************************************************************)
Fairness ==
    /\ \A r \in Runs : WF_vars(Dropped(r) \/ Ask(r) \/ Answered(r) \/ AnsweredTooLate(r))
    /\ WF_vars(Detected) /\ WF_vars(Started)
    /\ WF_vars(WatchAnswered) /\ WF_vars(NotResolved)
    /\ WF_vars(WorkerSubscribes \/ WorkerUnsubscribes)
    /\ WF_vars(conn.closing /\ Cleanup)

FairSpec == Spec /\ Fairness

-----------------------------------------------------------------------------
\* Every variable stays in its domain; a connection that closed holds
\* nothing, and no run is of a later generation than the connection.
TypeOK ==
    /\ conn \in [cleaned : BOOLEAN, closing : BOOLEAN, liveId : Runs \cup {None},
                 watchId : {Watch, None}, path : Paths \cup {None}, gen : 0..MaxGen,
                 failed : BOOLEAN]
    /\ run \in [Runs -> [at : {"unused", "dropping", "ask", "waiting", "answered", "done"},
                        gen : 0..MaxGen, path : Paths \cup {None},
                        origin : {None, "message", "session", "claim", "opening"}]]
    /\ conn.cleaned => conn.liveId = None /\ conn.watchId = None
    /\ \A r \in Runs : run[r].gen <= conn.gen
    /\ opening \in {"detect", "starting", "watching", "watched", "resolve", "done"}
    /\ subs \subseteq Ids /\ held \subseteq Ids /\ lost \subseteq Ids
    /\ ipc \in Seq([op : {"subscribe", "unsubscribe"}, id : Ids])

(***************************************************************************)
(* Whoever is newest wins: the subscription the connection holds is that  *)
(* of the last change asked for, however the answers were ordered, and    *)
(* an explicit unsubscribe is not undone by an answer on its way.         *)
(***************************************************************************)
NewestIsHeld ==
    conn.liveId # None =>
      run[conn.liveId].gen = conn.gen /\ run[conn.liveId].path = conn.path

(***************************************************************************)
(* The Supervisor has no callback of this connection that nobody will     *)
(* remove: it is the one held, or a run that will look at it is waiting.  *)
(***************************************************************************)
CallbacksAreOwned ==
    \A id \in subs :
      \/ id \in {conn.liveId, conn.watchId}
      \/ id \in Runs /\ run[id].at \in {"waiting", "answered"}
      \/ id = Watch /\ opening \in {"watching", "watched"}

(***************************************************************************)
(* The worker keeps a subscription only as long as the Supervisor does or *)
(* until the unsubscribe on its way arrives; the exceptions are requests  *)
(* that failed, after which nobody tells the worker.                      *)
(***************************************************************************)
WorkerHoldsNoMore ==
    \A id \in held :
      \/ id \in subs \cup lost
      \/ \E i \in DOMAIN ipc : ipc[i] = [op |-> "unsubscribe", id |-> id]

(***************************************************************************)
(* A connection that closed leaves nothing behind, in the Supervisor and, *)
(* failed requests aside, in the worker, whatever was on its way.         *)
(***************************************************************************)
ClosedLeavesNothing ==
    conn.cleaned ~> [](subs = {} /\ held \subseteq lost)

(***************************************************************************)
(* The newest change is served unless it fails or the client leaves.      *)
(***************************************************************************)
NewestIsServed ==
    \A r \in Runs :
      Active(r) ~> (\/ conn.liveId = r \/ run[r].gen < conn.gen
                    \/ conn.cleaned \/ conn.failed)

=============================================================================
