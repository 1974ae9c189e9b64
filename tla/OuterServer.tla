---------------------------- MODULE OuterServer ----------------------------
(***************************************************************************)
(* The outer HTTP server: createOuterServerLifecycle and the dispatcher's  *)
(* upgraded sockets (lib/server-http-dispatcher.ts) around the upload      *)
(* server of UploadServer, with what server.ts puts into them.             *)
(*                                                                         *)
(* start() sweeps the uploads and then listens; shutdown() closes the      *)
(* listener, drains the uploads, stops the runtime, the WebSocket services *)
(* and every socket, in that order, and may be called while listening is   *)
(* still under way.                                                        *)
(***************************************************************************)
EXTENDS UploadServer

CONSTANT Sockets   \* connections that ask for an upgrade (WebSockets)

VARIABLES
    start,      \* startPromise, see StartStates
    stop,       \* the step shutdown() is at, see StopStates
    port,       \* "unbound", "binding", "bound", "closed"
    late,       \* pendingListen: shutdown() found listen() under way
    upgraded,   \* "none", "connected", "open" (in upgradedSockets), "closed"
    refusing,   \* terminatingUpgrades
    runtimeUp   \* lock, port file and runtime supervisor

lifecycle == <<start, stop, port, late, upgraded, refusing, runtimeUp>>
vars == <<uploadVars, lifecycle>>

\* sweep: awaits uploadServer.start().  listen: awaits listen().  undo: it
\* failed and awaits shutdown().
StartStates == {"no", "sweep", "listen", "undo", "resolved", "rejected"}
\* uploads, runtime, webSockets, clients: the operation awaited.  late:
\* awaits pendingListen.  close: awaits the callbacks of server.close().
StopStates == {"no", "uploads", "runtime", "webSockets", "clients", "late",
               "close", "done"}

Init ==
    /\ UploadInit
    /\ start = "no"
    /\ stop = "no"
    /\ port = "unbound"
    /\ late = FALSE
    /\ upgraded = [s \in Sockets |-> "none"]
    /\ refusing = FALSE
    /\ runtimeUp = TRUE

-----------------------------------------------------------------------------
(* start() *)

Start ==
    /\ start = "no" /\ stop = "no"
    /\ start' = "sweep"
    /\ StartSweep
    /\ UNCHANGED <<handler, tx, aborted, cause, file, admission, closing, drain, awaited,
                   stop, port, late, upgraded, refusing, runtimeUp>>

\* shutdown(): flags, server.close(), and the first call of its task.  A
\* second call, and the one of a failed start, gets the first one's promise.
ShutdownNow ==
    /\ stop' = "uploads"
    /\ late' = (start = "listen")
    /\ port' = IF port = "bound" THEN "closed" ELSE port
    /\ ShutdownUploads

UploadsUntouched == UNCHANGED <<handler, tx, aborted, cause, file, admission, awaited>>

\* The sweep is over: listen, unless shutdown() came first.
Swept ==
    /\ start = "sweep" /\ maint \notin {"off", "first"}
    /\ IF stop = "no"
       THEN /\ start' = "listen"
            /\ port' = "binding"
       ELSE /\ start' = "undo"
            /\ UNCHANGED port
    /\ UNCHANGED <<uploadVars, stop, late, upgraded, refusing, runtimeUp>>

\* listen() settles.  It binds, perhaps on the fallback port, or fails; a
\* server.close() in the meantime makes it fail whether the port is bound by
\* then or not, or comes too early to be noticed.
Listened ==
    /\ start = "listen"
    /\ \/ /\ port' = "bound"
          /\ \/ /\ stop = "no"
                /\ start' = "resolved"
             \/ /\ stop # "no"
                /\ start' = "undo"
          /\ UNCHANGED <<uploadVars, stop, late>>
       \/ /\ port' = "unbound"
          /\ start' = "undo"
          /\ UNCHANGED <<uploadVars, stop, late>>
    /\ UNCHANGED <<upgraded, refusing, runtimeUp>>

\* A failed start shuts down and reports its own error.
UndoStart ==
    /\ start = "undo" /\ stop = "no"
    /\ ShutdownNow
    /\ UploadsUntouched
    /\ UNCHANGED <<start, upgraded, refusing, runtimeUp>>

StartRejects ==
    /\ start = "undo" /\ stop = "done"
    /\ start' = "rejected"
    /\ UNCHANGED <<uploadVars, stop, port, late, upgraded, refusing, runtimeUp>>

-----------------------------------------------------------------------------
(* shutdown() *)

\* SIGTERM, SIGINT, or the caller of start().
Shutdown ==
    /\ stop = "no" /\ start # "undo"
    /\ ShutdownNow
    /\ UploadsUntouched
    /\ UNCHANGED <<start, upgraded, refusing, runtimeUp>>

UploadsDrained ==
    /\ stop = "uploads" /\ drain = "done"
    /\ stop' = "runtime"
    /\ UNCHANGED <<uploadVars, start, port, late, upgraded, refusing, runtimeUp>>

\* releaseLock, removePortFile and the supervisor's shutdown.
RuntimeStopped ==
    /\ stop = "runtime"
    /\ stop' = "webSockets"
    /\ runtimeUp' = FALSE
    /\ UNCHANGED <<uploadVars, start, port, late, upgraded, refusing>>

\* The WebSocket services' own shutdowns and the grace period; they close
\* what they know of.
WebSocketsStopped ==
    /\ stop = "webSockets"
    /\ stop' = "clients"
    /\ \E known \in SUBSET {s \in Sockets : upgraded[s] = "open"} :
          upgraded' = [s \in Sockets |-> IF s \in known THEN "closed" ELSE upgraded[s]]
    /\ UNCHANGED <<uploadVars, start, port, late, refusing, runtimeUp>>

OpenConnections == {r \in Requests : conn[r] = "open"}

\* closeAllConnections destroys what speaks HTTP, not what was upgraded.
CloseAllConnections(states) ==
    /\ Hangup(OpenConnections)
    /\ upgraded' = [s \in Sockets |-> IF upgraded[s] \in states THEN "closed" ELSE upgraded[s]]

\* terminateWsClients, terminateUpgradedSockets, closeAllConnections.
ClientsTerminated ==
    /\ stop = "clients"
    /\ refusing' = TRUE
    /\ CloseAllConnections({"connected", "open"})
    /\ stop' = IF late THEN "late" ELSE "close"
    /\ UNCHANGED <<at, answer, tx, file, admission, server, start, port, late, runtimeUp>>

\* Mutant: what a pending listen bound is not closed again.
LateIgnored ==
    /\ stop = "late" /\ start # "listen"
    /\ stop' = "close"
    /\ UNCHANGED <<uploadVars, start, port, late, upgraded, refusing, runtimeUp>>

\* pendingListen has settled: close what it bound and who connected to it.
LateListenClosed ==
    /\ stop = "late" /\ start # "listen"
    /\ port' = IF port = "bound" THEN "closed" ELSE port
    /\ CloseAllConnections({"connected"})
    /\ stop' = "close"
    /\ UNCHANGED <<at, answer, tx, file, admission, server, start, late, refusing, runtimeUp>>

\* server.close() calls back when no connection is left.
ServerClosed ==
    /\ stop = "close"
    /\ OpenConnections = {}
    /\ \A s \in Sockets : upgraded[s] \notin {"connected", "open"}
    /\ stop' = "done"
    /\ UNCHANGED <<uploadVars, start, port, late, upgraded, refusing, runtimeUp>>

-----------------------------------------------------------------------------
(* Clients *)

ClientConnects(r) ==
    /\ port = "bound"
    /\ Connect(r)
    /\ UNCHANGED lifecycle

SocketConnects(s) ==
    /\ port = "bound"
    /\ upgraded[s] = "none"
    /\ upgraded' = [upgraded EXCEPT ![s] = "connected"]
    /\ UNCHANGED <<uploadVars, start, stop, port, late, refusing, runtimeUp>>

\* handleUpgrade: a socket is remembered, and refused once the server has
\* begun to terminate them.
Upgrade(s) ==
    /\ upgraded[s] = "connected"
    /\ upgraded' = [upgraded EXCEPT ![s] = IF refusing THEN "closed" ELSE "open"]
    /\ UNCHANGED <<uploadVars, start, stop, port, late, refusing, runtimeUp>>

SocketCloses(s) ==
    /\ upgraded[s] \in {"connected", "open"}
    /\ upgraded' = [upgraded EXCEPT ![s] = "closed"]
    /\ UNCHANGED <<uploadVars, start, stop, port, late, refusing, runtimeUp>>

Starting == Start \/ Swept \/ Listened \/ UndoStart \/ StartRejects
Stopping == UploadsDrained \/ RuntimeStopped \/ WebSocketsStopped
            \/ ClientsTerminated \/ LateListenClosed \/ ServerClosed

Next ==
    \/ Starting \/ Shutdown \/ Stopping
    \/ \E r \in Requests : ClientConnects(r)
    \/ \E s \in Sockets : SocketConnects(s) \/ Upgrade(s) \/ SocketCloses(s)
    \/ UploadStep /\ UNCHANGED lifecycle

Spec == Init /\ [][Next]_vars

(***************************************************************************)
(* The server's own steps happen: promises settle and calls to the file    *)
(* system come back, well or badly.  As long as nobody shuts the server    *)
(* down the timers fire (the absolute one of an upload whatever the client *)
(* does); a shutdown is to end without them.  No failure is owed, and      *)
(* clients and signals owe nothing.                                        *)
(***************************************************************************)
Fairness ==
    /\ WF_vars(Starting)
    /\ WF_vars(Stopping)
    /\ WF_vars((Sweep \/ Drain \/ Drained) /\ UNCHANGED lifecycle)
    /\ \A r \in Requests :
          /\ WF_vars(Handle(r) /\ UNCHANGED lifecycle)
          /\ WF_vars(Transact(r) /\ UNCHANGED lifecycle)
          /\ WF_vars(stop = "no" /\ TimeOut(r) /\ UNCHANGED lifecycle)

FairSpec == Spec /\ Fairness

-----------------------------------------------------------------------------
(* Properties *)

TypeOK ==
    /\ UploadTypeOK
    /\ start \in StartStates
    /\ stop \in StopStates
    /\ port \in {"unbound", "binding", "bound", "closed"}
    /\ late \in BOOLEAN
    /\ upgraded \in [Sockets -> {"none", "connected", "open", "closed"}]
    /\ refusing \in BOOLEAN
    /\ runtimeUp \in BOOLEAN

\* The runtime outlives the uploads, and a shutdown that has resolved leaves
\* nothing: no port, not even one a pending listen bound afterwards, no
\* connection, no upgraded socket, no transaction, no sweep, no runtime
\* (createOuterServerLifecycle.shutdown).
NothingAfterShutdown ==
    /\ ~runtimeUp => Active = {} /\ maint \notin {"first", "running", "timer"}
    /\ stop = "done" =>
          /\ port \notin {"binding", "bound"}
          /\ OpenConnections = {}
          /\ \A s \in Sockets : upgraded[s] \notin {"connected", "open"}
          /\ ~runtimeUp

\* The uploads keep the promise of AtomicUpload: a file is published whole
\* or not at all, before the one answer, which says whether it was.
Promise == INSTANCE AtomicUpload
AtomicUploads == Promise!Spec

\* Whatever state start(), the uploads and the sockets are in, shutdown()
\* resolves: nothing it waits for waits for a client, or for a time limit.
ShutdownEnds == stop # "no" ~> stop = "done"

\* Every admitted transaction ends, and gives back its lease, though the
\* client sends nothing and keeps its connection: the timers end it, or the
\* shutdown does (createTrackedTransaction).
UploadsEnd == \A r \in Requests : tx[r] = "created" ~> tx[r] = "ended"
=============================================================================
