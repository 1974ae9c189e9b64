---------------------------- MODULE TerminalAttach ----------------------------
(***************************************************************************)
(* One terminal session shared by several WebSocket connections:           *)
(*   - the connections, src/src/lib/runtime/terminal-ws.ts;                *)
(*   - the Supervisor's subscriber map, its single attach attempt and its  *)
(*     single detach in flight, src/src/lib/runtime/supervisor.ts;         *)
(*   - the Terminal Worker, which owns the pty that streams the tmux       *)
(*     session, src/src/lib/runtime/terminal/;                             *)
(*   - the Storage Worker, which says whether the tab is ready, and one    *)
(*     deletion or restart of the tab.                                     *)
(*                                                                         *)
(* Every map of the code is keyed by session name, so one session is       *)
(* enough.  The channels to the workers are FIFO.  The Supervisor is one   *)
(* event loop: a message, a socket event or a timer is one action together *)
(* with the promise reactions it releases; the tab operation continues in  *)
(* an action of its own, which runs before the next event (EventLoopIdle). *)
(* A pty is known to the worker's map (pty) or lost by it (strays).        *)
(***************************************************************************)
EXTENDS Naturals, Sequences, FiniteSets

CONSTANTS Subscribers,     \* the connections of a run, each used once
          MaxQueued,       \* MAX_QUEUED_INPUT_FRAMES
          NoOne,           \* no subscriber: undefined, or the tab operation as a sender
          Operations,      \* what may be done to the tab: "delete", "restart"
          Faults           \* what may go wrong: "timeout", "exit", "backpressure", "shellExit"

ASSUME AttachAssumption ==
    /\ NoOne \notin Subscribers
    /\ MaxQueued \in Nat
    /\ Operations \subseteq {"delete", "restart"}
    /\ Faults \subseteq {"timeout", "exit", "backpressure", "shellExit"}

Ids == Subscribers \union {NoOne}

\* "rollback" is the terminal.kill-session sent when a restart fails.
TerminalCommands == {"attach", "detach", "write", "kill", "create", "rollback"}
StorageCommands  == {"check", "delete", "createPending", "finalize", "failPending"}
Events           == {"backpressure"}

KillCommands  == {"kill", "rollback"}
\* The steps of the tab operation that wait for a worker; each has the name of the
\* command it waits for.
TerminalSteps == {"kill", "create", "rollback"}
StorageSteps  == {"delete", "createPending", "finalize", "failPending"}

Command == [type : TerminalCommands \union StorageCommands, id : Ids]
Message == [type : TerminalCommands \union StorageCommands \union Events, id : Ids, ok : BOOLEAN]

Cmd(type, id)       == [type |-> type, id |-> id]
Answer(cmd, ok)     == [type |-> cmd.type, id |-> cmd.id, ok |-> ok]

VARIABLES
    \* connections: the socket, how far handleRuntimeTerminalConnection got, the input
    \* frames it holds, and the connections whose first frame is with the worker
    ws, phase, queued, writing,
    \* terminalSubscribers, terminalAttachAttempts and terminalDetachPromises of the session
    subs, attempt, detaching,
    \* IPC with the Terminal Worker and with the Storage Worker
    toWorker, toSup, toStorage, fromStorage,
    \* the Terminal Worker: alive, attachedSessions, attached, ptys it lost, commands
    \* whose handler awaits tmux
    workerUp, attachedSession, pty, strays, busy,
    \* the tmux session, the tab's row, and the operation on the tab
    tmux, tab, op,
    \* history: a backpressure event has closed a connection that waited for its attach
    joinerClosed

connVars    == <<ws, phase, queued, writing>>
supVars     == <<subs, attempt, detaching>>
storageVars == <<toStorage, fromStorage, tab>>
workerVars  == <<workerUp, attachedSession, pty, strays, busy>>
vars == <<connVars, supVars, toWorker, toSup, storageVars, workerVars, tmux, op, joinerClosed>>

\* The attempt is in the map while it waits for a detach, while terminal.attach is
\* pending, and after a failure until the owner's detach has settled.
Attempt == [owner : Ids, ids : SUBSET Subscribers,
            state : {"none", "waiting", "requested", "failed"}]

NoAttempt == [owner |-> NoOne, ids |-> {}, state |-> "none"]

OpSteps == {"none", "attempt", "done"} \union TerminalSteps \union StorageSteps

TypeOK ==
    /\ ws \in [Subscribers -> {"none", "open", "closing", "closed"}]
    /\ phase \in [Subscribers -> {"idle", "checking", "joining", "attached", "over"}]
    /\ queued \in [Subscribers -> 0..MaxQueued]
    /\ writing \in SUBSET Subscribers
    /\ subs \in SUBSET Subscribers
    /\ attempt \in Attempt
    /\ detaching \in Ids
    /\ toWorker \in Seq(Command)
    /\ toSup \in Seq(Message)
    /\ toStorage \in Seq(Command)
    /\ fromStorage \in Seq(Message)
    /\ workerUp \in BOOLEAN
    /\ attachedSession \in BOOLEAN
    /\ pty \in {"none", "live", "ended"}
    /\ strays \in Nat
    /\ busy \in SUBSET Command
    /\ tmux \in BOOLEAN
    /\ tab \in {"ready", "pending", "failed", "deleted"}
    /\ joinerClosed \in BOOLEAN
    /\ op \in [kind : {"none"} \union Operations, step : OpSteps, lost : BOOLEAN,
               result : {"none", "deleted", "restarted", "failed"}]

Init ==
    /\ ws = [s \in Subscribers |-> "none"]
    /\ phase = [s \in Subscribers |-> "idle"]
    /\ queued = [s \in Subscribers |-> 0]
    /\ writing = {}
    /\ subs = {}
    /\ attempt = NoAttempt
    /\ detaching = NoOne
    /\ toWorker = <<>>
    /\ toSup = <<>>
    /\ toStorage = <<>>
    /\ fromStorage = <<>>
    /\ workerUp = TRUE
    /\ attachedSession = FALSE
    /\ pty = "none"
    /\ strays = 0
    /\ busy = {}
    /\ tmux = TRUE
    /\ tab = "ready"
    /\ op = [kind |-> "none", step |-> "none", lost |-> FALSE, result |-> "none"]
    /\ joinerClosed = FALSE

-------------------------------------------------------------------------------
(* The event loop of the Supervisor                                          *)

AttemptPending == attempt.state \in {"waiting", "requested"}

\* A promise reaction of the tab operation that has not run: the attach attempt it
\* waits for has settled, or the worker could not take its command.
OpMustContinue == (op.step = "attempt" /\ ~AttemptPending) \/ op.lost

EventLoopIdle == ~OpMustContinue

-------------------------------------------------------------------------------
(* Subscribers of the session                                                *)

\* closeTerminalSubscribers: the sockets are told to close and the map entry goes.
CloseSubscribers ==
    /\ subs' = {}
    /\ ws' = [s \in Subscribers |-> IF s \in subs /\ ws[s] = "open" THEN "closing" ELSE ws[s]]

\* requestTerminalDetach: joined to the detach in flight if there is one; a worker
\* that is down refuses at once and the failure is hidden.
RequestDetach(tag) ==
    IF detaching # NoOne \/ ~workerUp
    THEN UNCHANGED <<detaching, toWorker>>
    ELSE /\ detaching' = tag
         /\ toWorker' = Append(toWorker, Cmd("detach", tag))

\* Mutant: the stream is given up whenever a subscriber leaves.
LastLeavesAlways(leavers) == leavers # {} /\ subs # {}

\* detachTerminal of the subscribers in leavers, one after the other: only the one
\* that empties the map requests the detach.
LastLeaves(leavers) == leavers # {} /\ subs # {} /\ subs \subseteq leavers

Leave(leavers) ==
    /\ subs' = subs \ leavers
    /\ IF LastLeaves(leavers)
       THEN \E tag \in leavers : RequestDetach(tag)
       ELSE UNCHANGED <<detaching, toWorker>>

Joiners == {s \in Subscribers : phase[s] = "joining"}

\* The socket of a joiner may be gone by the time the attach succeeds: the
\* connection then detaches at once.
GoneJoiners == {s \in Joiners : ws[s] # "open"}

\* Mutant: it leaves the map, but nobody looks whether it was the last.
AttemptSucceedsDropping ==
    /\ phase' = [s \in Subscribers |->
                    IF s \in GoneJoiners THEN "over"
                    ELSE IF s \in Joiners THEN "attached" ELSE phase[s]]
    /\ subs' = subs \ GoneJoiners
    /\ attempt' = NoAttempt
    /\ UNCHANGED <<ws, detaching, toWorker>>

AttemptSucceeds ==
    /\ phase' = [s \in Subscribers |->
                    IF s \in GoneJoiners THEN "over"
                    ELSE IF s \in Joiners THEN "attached" ELSE phase[s]]
    /\ Leave(GoneJoiners)
    /\ attempt' = NoAttempt
    /\ UNCHANGED ws

\* Every connection that joined the attempt is rejected and closes its socket.
RejectJoiners ==
    /\ phase' = [s \in Subscribers |-> IF s \in Joiners THEN "over" ELSE phase[s]]
    /\ ws' = [s \in Subscribers |-> IF s \in Joiners /\ ws[s] = "open" THEN "closing" ELSE ws[s]]

\* Mutant: only the owner of the attempt is taken out of the map.
AttemptFailsForOwner ==
    /\ RejectJoiners
    /\ subs' = subs \ {attempt.owner}
    /\ detaching' = attempt.owner
    /\ toWorker' = Append(toWorker, Cmd("detach", attempt.owner))
    /\ attempt' = [attempt EXCEPT !.state = "failed"]

\* The attempt stays in the map, rejected, while the owner awaits its detach.
AttemptFails ==
    /\ RejectJoiners
    /\ subs' = subs \ attempt.ids
    /\ detaching' = attempt.owner
    /\ toWorker' = Append(toWorker, Cmd("detach", attempt.owner))
    /\ attempt' = [attempt EXCEPT !.state = "failed"]

\* Mutant: the attach that waited for the detach is forgotten.
DetachSettlesAlone ==
    /\ detaching' = NoOne
    /\ attempt' = IF attempt.state = "failed" THEN NoAttempt ELSE attempt
    /\ UNCHANGED toWorker

\* The detach in flight has settled: an attach that waited for it is sent, and the
\* owner of a failed attempt drops it.
DetachSettles ==
    /\ detaching' = NoOne
    /\ CASE attempt.state = "waiting" ->
              /\ attempt' = [attempt EXCEPT !.state = "requested"]
              /\ toWorker' = Append(toWorker, Cmd("attach", attempt.owner))
         [] attempt.state = "failed" ->
              attempt' = NoAttempt /\ UNCHANGED toWorker
         [] OTHER -> UNCHANGED <<attempt, toWorker>>

-------------------------------------------------------------------------------
(* Connections                                                               *)

\* A client opens the WebSocket and attachTerminal asks storage whether the tab of
\* the session is ready.
Connect(s) ==
    /\ EventLoopIdle
    /\ phase[s] = "idle"
    /\ ws' = [ws EXCEPT ![s] = "open"]
    /\ phase' = [phase EXCEPT ![s] = "checking"]
    /\ toStorage' = Append(toStorage, Cmd("check", s))
    /\ UNCHANGED <<queued, writing, supVars, toWorker, toSup, fromStorage, tab, workerVars, tmux,
                   op, joinerClosed>>

\* The close event of the socket, after the client left or after ws.close().
SocketCloses(s) ==
    /\ EventLoopIdle
    /\ ws[s] \in {"open", "closing"}
    /\ ws' = [ws EXCEPT ![s] = "closed"]
    /\ IF phase[s] = "attached"
       THEN phase' = [phase EXCEPT ![s] = "over"] /\ Leave({s})
       ELSE UNCHANGED <<phase, subs, detaching, toWorker>>
    /\ UNCHANGED <<queued, writing, attempt, toSup, storageVars, workerVars, tmux, op,
                   joinerClosed>>

\* The attach is rejected: the connection closes its socket.
RejectAttach(s) ==
    /\ phase' = [phase EXCEPT ![s] = "over"]
    /\ ws' = [ws EXCEPT ![s] = IF ws[s] = "open" THEN "closing" ELSE ws[s]]

\* Mutant: the attempt in the map is not looked at.
FirstIgnoringAttempt == subs = {}

First == attempt.state = "none" /\ subs = {}

\* attachTerminal after the readiness check.
JoinSession(s) ==
    \* There is an attempt in the map: join it.
    \/ /\ AttemptPending
       /\ subs' = subs \union {s}
       /\ attempt' = [attempt EXCEPT !.ids = @ \union {s}]
       /\ phase' = [phase EXCEPT ![s] = "joining"]
       /\ UNCHANGED <<ws, detaching, toWorker>>
    \* It has failed already: rejected with everyone who joined it.
    \/ /\ attempt.state = "failed"
       /\ subs' = subs \ (attempt.ids \union {s})
       /\ attempt' = [attempt EXCEPT !.ids = @ \union {s}]
       /\ RejectAttach(s)
       /\ UNCHANGED <<detaching, toWorker>>
    \* Others are attached: join the fan-out, unless the socket closed meanwhile.
    \/ /\ attempt.state = "none"
       /\ subs # {}
       /\ phase' = [phase EXCEPT ![s] = IF ws[s] = "open" THEN "attached" ELSE "over"]
       /\ subs' = IF ws[s] = "open" THEN subs \union {s} ELSE subs
       /\ UNCHANGED <<ws, attempt, detaching, toWorker>>
    \* First of the session: own a new attempt, which waits for a detach in flight.
    \/ /\ First
       /\ workerUp
       /\ subs' = {s}
       /\ phase' = [phase EXCEPT ![s] = "joining"]
       /\ attempt' = [owner |-> s, ids |-> {s},
                      state |-> IF detaching = NoOne THEN "requested" ELSE "waiting"]
       /\ toWorker' = IF detaching = NoOne THEN Append(toWorker, Cmd("attach", s)) ELSE toWorker
       /\ UNCHANGED <<ws, detaching>>
    \* The worker is down: terminal.attach and the detach after it are refused at once.
    \/ /\ First
       /\ ~workerUp
       /\ RejectAttach(s)
       /\ UNCHANGED <<supVars, toWorker>>

\* The reply to storage.get-ready-terminal-tab-by-session.
CheckReply(s) ==
    /\ EventLoopIdle
    /\ fromStorage # <<>>
    /\ Head(fromStorage).type = "check" /\ Head(fromStorage).id = s
    /\ fromStorage' = Tail(fromStorage)
    /\ IF phase[s] # "checking"
       THEN UNCHANGED <<ws, phase, supVars, toWorker>>
       ELSE IF Head(fromStorage).ok
            THEN JoinSession(s)
            ELSE RejectAttach(s) /\ UNCHANGED <<supVars, toWorker>>
    /\ UNCHANGED <<queued, writing, toSup, toStorage, tab, workerVars, tmux, op, joinerClosed>>

MayQueue(s) == queued[s] < MaxQueued

\* An input that cannot be taken or that failed closes the socket and detaches the
\* connection; before the attach has settled, the closed socket is all that tells.
GiveUp(s) ==
    /\ ws' = [ws EXCEPT ![s] = IF ws[s] = "open" THEN "closing" ELSE ws[s]]
    /\ IF phase[s] = "attached"
       THEN phase' = [phase EXCEPT ![s] = "over"] /\ Leave({s})
       ELSE UNCHANGED <<phase, subs, detaching, toWorker>>

\* An input frame arrives; it waits for the attach and for the frames before it.
FrameArrives(s) ==
    /\ EventLoopIdle
    /\ ws[s] = "open"
    /\ IF MayQueue(s)
       THEN /\ queued' = [queued EXCEPT ![s] = @ + 1]
            /\ UNCHANGED <<ws, phase, subs, detaching, toWorker>>
       ELSE GiveUp(s) /\ UNCHANGED queued
    /\ UNCHANGED <<writing, attempt, toSup, storageVars, workerVars, tmux, op, joinerClosed>>

\* writeTerminal or resizeTerminal of the first frame, for an active subscriber; an
\* open subscriber that is attached has a worker that is up (AttachedHasWorker).
Write(s) ==
    /\ EventLoopIdle
    /\ phase[s] = "attached" /\ ws[s] = "open" /\ s \in subs
    /\ queued[s] > 0 /\ s \notin writing
    /\ workerUp
    /\ writing' = writing \union {s}
    /\ toWorker' = Append(toWorker, Cmd("write", s))
    /\ UNCHANGED <<ws, phase, queued, supVars, toSup, storageVars, workerVars, tmux, op,
                   joinerClosed>>

\* The frame is done with; the frames of a connection that is over become no-ops.
WriteEnds(s) ==
    /\ writing' = writing \ {s}
    /\ queued' = [queued EXCEPT ![s] = IF phase[s] = "attached" THEN @ - 1 ELSE 0]

-------------------------------------------------------------------------------
(* Messages of the Terminal Worker, in the order they were sent              *)

Received(type) == EventLoopIdle /\ toSup # <<>> /\ Head(toSup).type = type

AttachReply ==
    /\ Received("attach")
    /\ toSup' = Tail(toSup)
    /\ IF attempt.state = "requested" /\ attempt.owner = Head(toSup).id
       THEN IF Head(toSup).ok THEN AttemptSucceeds ELSE AttemptFails
       ELSE UNCHANGED <<ws, phase, supVars, toWorker>>
    /\ UNCHANGED <<queued, writing, storageVars, workerVars, tmux, op, joinerClosed>>

DetachReply ==
    /\ Received("detach")
    /\ toSup' = Tail(toSup)
    /\ IF detaching = Head(toSup).id
       THEN DetachSettles
       ELSE UNCHANGED <<attempt, detaching, toWorker>>
    /\ UNCHANGED <<connVars, subs, storageVars, workerVars, tmux, op, joinerClosed>>

WriteReply ==
    /\ Received("write")
    /\ toSup' = Tail(toSup)
    /\ LET s == Head(toSup).id
       IN /\ IF s \in writing THEN WriteEnds(s) ELSE UNCHANGED <<writing, queued>>
          /\ IF s \in writing /\ ~Head(toSup).ok
             THEN GiveUp(s)
             ELSE UNCHANGED <<ws, phase, subs, detaching, toWorker>>
    /\ UNCHANGED <<attempt, storageVars, workerVars, tmux, op, joinerClosed>>

\* onTerminalWorkerEvent for terminal.backpressure: whoever subscribes now is closed.
BackpressureEvent ==
    /\ Received("backpressure")
    /\ toSup' = Tail(toSup)
    /\ CloseSubscribers
    /\ joinerClosed' = (joinerClosed \/ Joiners \cap subs # {})
    /\ UNCHANGED <<phase, queued, writing, attempt, detaching, toWorker, storageVars, workerVars,
                   tmux, op>>

-------------------------------------------------------------------------------
(* Timeouts of commands, and the exit of the Terminal Worker                 *)

MayTimeOut == "timeout" \in Faults /\ EventLoopIdle

AttachTimeout ==
    /\ MayTimeOut
    /\ attempt.state = "requested"
    /\ AttemptFails
    /\ UNCHANGED <<queued, writing, toSup, storageVars, workerVars, tmux, op, joinerClosed>>

DetachTimeout ==
    /\ MayTimeOut
    /\ detaching # NoOne
    /\ DetachSettles
    /\ UNCHANGED <<connVars, subs, toSup, storageVars, workerVars, tmux, op, joinerClosed>>

WriteTimeout(s) ==
    /\ MayTimeOut
    /\ s \in writing
    /\ WriteEnds(s)
    /\ GiveUp(s)
    /\ UNCHANGED <<attempt, toSup, storageVars, workerVars, tmux, op, joinerClosed>>

CheckTimeout(s) ==
    /\ MayTimeOut
    /\ phase[s] = "checking"
    /\ RejectAttach(s)
    /\ UNCHANGED <<queued, writing, supVars, toWorker, toSup, storageVars, workerVars, tmux, op,
                   joinerClosed>>

ClearSession ==
    /\ subs' = {}
    /\ attempt' = NoAttempt
    /\ detaching' = NoOne

\* The exit event of the worker: its client rejects every pending command, the
\* Supervisor closes every subscriber and clears its three maps, and every attach
\* attempt, detach and input ends rejected.  The worker's ptys die with it; a tmux
\* command it had started may still run to its end.
WorkerExit ==
    /\ EventLoopIdle
    /\ "exit" \in Faults
    /\ workerUp
    /\ workerUp' = FALSE
    /\ toWorker' = <<>>
    /\ toSup' = <<>>
    /\ attachedSession' = FALSE
    /\ pty' = "none"
    /\ strays' = 0
    /\ busy' = {}
    /\ tmux' \in {tmux} \union (IF \E c \in busy : c.type \in KillCommands THEN {FALSE} ELSE {})
                        \union (IF \E c \in busy : c.type = "create" THEN {TRUE} ELSE {})
    /\ ClearSession
    /\ writing' = {}
    /\ phase' = [s \in Subscribers |->
                    IF s \in Joiners \/ (s \in writing /\ phase[s] = "attached") THEN "over"
                    ELSE phase[s]]
    /\ ws' = [s \in Subscribers |->
                 IF ws[s] = "open" /\ (s \in subs \/ s \in Joiners) THEN "closing" ELSE ws[s]]
    /\ queued' = [s \in Subscribers |-> IF s \in writing THEN 0 ELSE queued[s]]
    /\ op' = IF op.step \in TerminalSteps THEN [op EXCEPT !.lost = TRUE] ELSE op
    /\ UNCHANGED <<storageVars, joinerClosed>>

\* The client of the worker has spawned a new one.
WorkerRestart ==
    /\ ~workerUp
    /\ workerUp' = TRUE
    /\ UNCHANGED <<connVars, supVars, toWorker, toSup, storageVars, attachedSession, pty,
                   strays, busy, tmux, op, joinerClosed>>

-------------------------------------------------------------------------------
(* The Terminal Worker.  Its handlers are asynchronous: attach, kill and     *)
(* create await tmux, so a later command may be handled before they end.     *)

Arrived(type) == workerUp /\ toWorker # <<>> /\ Head(toWorker).type = type

Reply(cmd, ok) == toSup' = Append(toSup, Answer(cmd, ok))

HandlesAttach ==
    /\ Arrived("attach")
    /\ toWorker' = Tail(toWorker)
    /\ attachedSession' = TRUE
    /\ IF pty # "none"
       THEN Reply(Head(toWorker), TRUE) /\ UNCHANGED busy
       ELSE busy' = busy \union {Head(toWorker)} /\ UNCHANGED toSup
    /\ UNCHANGED <<connVars, supVars, storageVars, workerUp, pty, strays, tmux, op, joinerClosed>>

\* tmux has-session has answered: the pty is spawned and put in the map, over
\* whatever the map holds by now, or the attach fails.
AttachEnds(cmd) ==
    /\ workerUp
    /\ cmd \in busy /\ cmd.type = "attach"
    /\ busy' = busy \ {cmd}
    /\ IF tmux
       THEN /\ pty' = "live"
            /\ strays' = IF pty = "live" THEN strays + 1 ELSE strays
            /\ Reply(cmd, TRUE)
            /\ UNCHANGED attachedSession
       ELSE /\ attachedSession' = FALSE
            /\ Reply(cmd, FALSE)
            /\ UNCHANGED <<pty, strays>>
    /\ UNCHANGED <<connVars, supVars, toWorker, storageVars, workerUp, tmux, op, joinerClosed>>

\* detachSession: the pty of the map is killed, its exit is no longer listened to.
DropStream ==
    /\ attachedSession' = FALSE
    /\ pty' = "none"

HandlesDetach ==
    /\ Arrived("detach")
    /\ toWorker' = Tail(toWorker)
    /\ DropStream
    /\ Reply(Head(toWorker), TRUE)
    /\ UNCHANGED <<connVars, supVars, storageVars, workerUp, strays, busy, tmux, op, joinerClosed>>

HandlesWrite ==
    /\ Arrived("write")
    /\ toWorker' = Tail(toWorker)
    /\ Reply(Head(toWorker), pty # "none")
    /\ UNCHANGED <<connVars, supVars, storageVars, workerVars, tmux, op, joinerClosed>>

HandlesKill ==
    /\ Arrived("kill") \/ Arrived("rollback")
    /\ toWorker' = Tail(toWorker)
    /\ DropStream
    /\ busy' = busy \union {Head(toWorker)}
    /\ UNCHANGED <<connVars, supVars, toSup, storageVars, workerUp, strays, tmux, op, joinerClosed>>

\* The ptys that show the session end with it.
SessionEnds ==
    /\ tmux' = FALSE
    /\ pty' = IF pty = "live" THEN "ended" ELSE pty
    /\ strays' = 0

\* tmux kill-session; its failure is swallowed.
KillEnds(cmd) ==
    /\ workerUp
    /\ cmd \in busy /\ cmd.type \in KillCommands
    /\ busy' = busy \ {cmd}
    /\ SessionEnds
    /\ Reply(cmd, TRUE)
    /\ UNCHANGED <<connVars, supVars, toWorker, storageVars, workerUp, attachedSession, op,
                   joinerClosed>>

HandlesCreate ==
    /\ Arrived("create")
    /\ toWorker' = Tail(toWorker)
    /\ busy' = busy \union {Head(toWorker)}
    /\ UNCHANGED <<connVars, supVars, toSup, storageVars, workerUp, attachedSession, pty,
                   strays, tmux, op, joinerClosed>>

\* tmux new-session fails if the session exists; if the configuration cannot be
\* sourced the new session is killed again.
CreateEnds(cmd, ok) ==
    /\ workerUp
    /\ cmd \in busy /\ cmd.type = "create"
    /\ ok => ~tmux
    /\ busy' = busy \ {cmd}
    /\ tmux' = (tmux \/ ok)
    /\ Reply(cmd, ok)
    /\ UNCHANGED <<connVars, supVars, toWorker, storageVars, workerUp, attachedSession, pty,
                   strays, op, joinerClosed>>

\* The exit event of the pty of the map.
PtyExit ==
    /\ pty = "ended"
    /\ pty' = "none"
    /\ UNCHANGED <<connVars, supVars, toWorker, toSup, storageVars, workerUp, attachedSession,
                   strays, busy, tmux, op, joinerClosed>>

\* appendStdout over the limit, on output of any pty that is still listened to.
Backpressure ==
    /\ "backpressure" \in Faults
    /\ workerUp
    /\ attachedSession
    /\ pty = "live" \/ strays > 0
    /\ DropStream
    /\ toSup' = Append(toSup, [type |-> "backpressure", id |-> NoOne, ok |-> TRUE])
    /\ UNCHANGED <<connVars, supVars, toWorker, storageVars, workerUp, strays, busy, tmux, op,
                   joinerClosed>>

\* The shell in the session exits, and tmux ends the session.
ShellExits ==
    /\ "shellExit" \in Faults
    /\ tmux
    /\ SessionEnds
    /\ UNCHANGED <<connVars, supVars, toWorker, toSup, storageVars, workerUp, attachedSession,
                   busy, op, joinerClosed>>

-------------------------------------------------------------------------------
(* The Storage Worker: each command is one transaction, answered in order    *)

StorageHandles ==
    /\ toStorage # <<>>
    /\ toStorage' = Tail(toStorage)
    /\ LET cmd == Head(toStorage)
           ok  == CASE cmd.type = "check"         -> tab = "ready"
                    [] cmd.type = "createPending" -> tab = "deleted"
                    [] cmd.type = "delete"        -> tab # "deleted"
                    [] OTHER                      -> tab = "pending"
       IN /\ fromStorage' = Append(fromStorage, Answer(cmd, ok))
          /\ tab' = IF ~ok THEN tab
                    ELSE CASE cmd.type = "check"         -> tab
                           [] cmd.type = "delete"        -> "deleted"
                           [] cmd.type = "createPending" -> "pending"
                           [] cmd.type = "finalize"      -> "ready"
                           [] cmd.type = "failPending"   -> "failed"
    /\ UNCHANGED <<connVars, supVars, toWorker, toSup, workerVars, tmux, op, joinerClosed>>

-------------------------------------------------------------------------------
(* The operation on the tab                                                  *)

\* Mutant: subscribers are closed before the row is deleted, not after.
NextStepCloseFirst(kind, ok) ==
    CASE op.step = "none"    -> "attempt"
      [] op.step = "attempt" -> "delete"
      [] op.step = "delete"  -> IF ok THEN "kill" ELSE "done"
      [] op.step = "kill"    -> IF kind = "delete" THEN "done" ELSE "createPending"
      [] OTHER               -> "done"

\* deleteTerminalTab: storage.delete-terminal-tab, close the subscribers and wait for
\* their attach attempt, kill-session.  restartTerminalTab: close and wait, delete,
\* kill, then create the tab and its session again; a failure after the pending row
\* was created kills the session and marks the row failed.
NextStep(kind, ok) ==
    CASE op.step = "none"          -> IF kind = "delete" THEN "delete" ELSE "attempt"
      [] op.step = "attempt"       -> IF kind = "delete" THEN "kill" ELSE "delete"
      [] op.step = "delete"        -> IF ~ok THEN "done"
                                      ELSE IF kind = "delete" THEN "attempt" ELSE "kill"
      [] op.step = "kill"          -> IF kind = "delete" THEN "done" ELSE "createPending"
      [] op.step = "createPending" -> IF ok THEN "create" ELSE "done"
      [] op.step = "create"        -> IF ok THEN "finalize" ELSE "rollback"
      [] op.step = "finalize"      -> IF ok THEN "done" ELSE "rollback"
      [] op.step = "rollback"      -> "failPending"
      [] op.step = "failPending"   -> "done"

Result ==
    CASE op.step = "kill"     -> "deleted"
      [] op.step = "finalize" -> "restarted"
      [] OTHER                -> "failed"

\* The step op.step has ended; a command to a worker that is down is lost at once.
Advance(kind, ok) ==
    LET next == NextStep(kind, ok)
    IN /\ op' = [kind   |-> kind,
                 step   |-> next,
                 lost   |-> next \in TerminalSteps /\ ~workerUp,
                 result |-> IF next = "done" THEN Result ELSE "none"]
       /\ toWorker' = IF next \in TerminalSteps /\ workerUp
                      THEN Append(toWorker, Cmd(next, NoOne)) ELSE toWorker
       /\ toStorage' = IF next \in StorageSteps
                       THEN Append(toStorage, Cmd(next, NoOne)) ELSE toStorage
       /\ IF next = "attempt" THEN CloseSubscribers ELSE UNCHANGED <<ws, subs>>
       /\ UNCHANGED <<phase, queued, writing, attempt, detaching, tab, workerVars, tmux,
                      joinerClosed>>

OpStart(kind) ==
    /\ EventLoopIdle
    /\ op.step = "none"
    /\ Advance(kind, TRUE)
    /\ UNCHANGED <<toSup, fromStorage>>

OpContinues ==
    /\ OpMustContinue
    /\ Advance(op.kind, ~op.lost)
    /\ UNCHANGED <<toSup, fromStorage>>

OpTerminalReply ==
    /\ \E type \in TerminalSteps : Received(type)
    /\ toSup' = Tail(toSup)
    /\ IF op.step = Head(toSup).type
       THEN Advance(op.kind, Head(toSup).ok)
       ELSE UNCHANGED <<connVars, supVars, toWorker, toStorage, tab, workerVars, tmux, op,
                        joinerClosed>>
    /\ UNCHANGED fromStorage

OpStorageReply ==
    /\ EventLoopIdle
    /\ fromStorage # <<>>
    /\ Head(fromStorage).id = NoOne
    /\ fromStorage' = Tail(fromStorage)
    /\ IF op.step = Head(fromStorage).type
       THEN Advance(op.kind, Head(fromStorage).ok)
       ELSE UNCHANGED <<connVars, supVars, toWorker, toStorage, tab, workerVars, tmux, op,
                        joinerClosed>>
    /\ UNCHANGED toSup

OpTimeout ==
    /\ MayTimeOut
    /\ op.step \in TerminalSteps \union StorageSteps
    /\ Advance(op.kind, FALSE)
    /\ UNCHANGED <<toSup, fromStorage>>

-------------------------------------------------------------------------------
ConnectionStep(s) ==
    \/ Connect(s) \/ SocketCloses(s) \/ CheckReply(s) \/ FrameArrives(s) \/ Write(s)
    \/ WriteTimeout(s) \/ CheckTimeout(s)

WorkerStep ==
    \/ HandlesAttach \/ HandlesDetach \/ HandlesWrite \/ HandlesKill \/ HandlesCreate
    \/ \E cmd \in busy : \/ AttachEnds(cmd)
                         \/ KillEnds(cmd)
                         \/ \E ok \in BOOLEAN : CreateEnds(cmd, ok)
    \/ PtyExit \/ Backpressure \/ WorkerRestart

Next ==
    \/ \E s \in Subscribers : ConnectionStep(s)
    \/ AttachReply \/ DetachReply \/ WriteReply \/ BackpressureEvent
    \/ AttachTimeout \/ DetachTimeout
    \/ WorkerStep \/ WorkerExit \/ ShellExits
    \/ StorageHandles
    \/ \E kind \in Operations : OpStart(kind)
    \/ OpContinues \/ OpTerminalReply \/ OpStorageReply \/ OpTimeout

Spec == Init /\ [][Next]_vars

\* The timer of every pending command fires, promise reactions run and a socket that
\* is closing closes.  Nothing obliges a worker to answer or a client to leave.
Fairness ==
    /\ \A s \in Subscribers : /\ WF_vars(CheckTimeout(s))
                              /\ WF_vars(WriteTimeout(s))
                              /\ WF_vars(ws[s] = "closing" /\ SocketCloses(s))
    /\ WF_vars(AttachTimeout) /\ WF_vars(DetachTimeout)
    /\ WF_vars(OpTimeout) /\ WF_vars(OpContinues)

FairSpec == Spec /\ Fairness

-------------------------------------------------------------------------------
(* Properties                                                                *)

\* The fan-out map never holds a connection that is gone, and never loses one that
\* is being served: every exit path of handleRuntimeTerminalConnection detaches, and
\* every removal from the map closes the socket.  Only a worker that is up has
\* subscribers: its exit closes them all, and an attach to a worker that is down is
\* refused at once (onTerminalWorkerExit, attachTerminal).
SubscriptionsAreLive ==
    /\ \A s \in Subscribers :
          /\ s \in subs => phase[s] = "joining" \/ (phase[s] = "attached" /\ ws[s] = "open")
          /\ phase[s] = "attached" /\ ws[s] = "open" => s \in subs
    /\ subs # {} => workerUp

\* The worker never gives a stream up under a connection that was told it is
\* attached (requestTerminalDetach is sent by the last subscriber only, and a new
\* attach waits for it).
DetachSparesSubscribers ==
    [][HandlesDetach => \A s \in Subscribers : ~(phase[s] = "attached" /\ s \in subs)]_vars

\* "Terminal Worker owns at most one pty attach/stdout stream per session."
NoSecondStream == strays = 0

\* Nothing is on its way: no command, message, attempt, detach or operation, and
\* every close event has been handled.
Quiet ==
    /\ toWorker = <<>> /\ toSup = <<>> /\ busy = {}
    /\ attempt.state = "none" /\ detaching = NoOne
    /\ op.step \in {"none", "done"}
    /\ pty # "ended"
    /\ \A s \in Subscribers : phase[s] = "attached" => ws[s] = "open"

\* When the last subscriber has gone the worker keeps no stream of the session: the
\* successful attach of a session nobody waits for any more is followed by a detach.
NoOrphanStream == Quiet /\ subs = {} => pty = "none" /\ strays = 0

\* Nothing but an event that closes a connection while it waits for its attach leaves
\* the worker with such a stream: not the deletion or restart of the tab, not a worker
\* exit, not a shell that ends, not any order of connections.
OrphanOnlyByEvent == ~joinerClosed => NoOrphanStream

\* A session with subscribers is streamed to them for as long as its shell lives and
\* nobody restarts the tab: no order of attaches, detaches, deletions and worker exits
\* leaves a subscriber with a stream that was closed under it.
SubscribersHaveStream ==
    Quiet /\ subs # {} /\ tmux /\ op.kind # "restart" => pty = "live" /\ attachedSession

\* The two together: there is never a second stream, and a session with subscribers has
\* its one (attachTerminal, which shares an attempt, and detachTerminal, which gives the
\* stream up with the last subscriber only).
OneStream == NoSecondStream /\ SubscribersHaveStream

\* When a tab has been deleted no connection is subscribed to its session or will
\* be: a check that storage answered before the deletion is overtaken by it.
DeletedSessionIsQuiet ==
    op.result = "deleted" => subs = {} /\ attempt.state \in {"none", "failed"}

\* A connection that asked for a session is attached or rejected, although no worker
\* may ever answer: the check, the detach it waits for and the attach all time out.
ConnectionSettles ==
    \A s \in Subscribers :
        phase[s] \in {"checking", "joining"} ~> phase[s] \in {"attached", "over"}

\* The deletion or restart of a tab comes to an end; its wait for an attach attempt
\* "is bounded by the existing WorkerClient command timeout".
OperationEnds == op.step # "none" ~> op.step = "done"
===============================================================================
