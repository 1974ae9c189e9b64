---------------------------- MODULE InstanceLock ----------------------------
(***************************************************************************)
(* The lock file ~/.codexmux/cmux.lock, which is to keep a second server   *)
(* from running on the same data directory (lib/lock.ts), and the start    *)
(* and the end of the server around it (server.ts).                        *)
(*                                                                         *)
(* A process is named by its pid.  The pid of a process that has ended can *)
(* come back as an unrelated program ("foreign") or as a new server.  The  *)
(* file is named by the process that created it: whoever unlinks it, its   *)
(* creator still writes into the inode it opened, so "written" belongs to  *)
(* the creator and not to the name.                                        *)
(*                                                                         *)
(* pc[p] is where p stands in start(): each value but the settled ones is  *)
(* an await, or a system call of its own, at which others take steps.      *)
(***************************************************************************)
EXTENDS FiniteSets

CONSTANTS
    Pids,       \* the pids of the machine
    NoOne,      \* no process; no lock file
    Stranger,   \* a program that is not codexmux and listens on the port
    Events      \* what may happen besides starts: a subset of AllEvents

AllEvents == {"crash", "terminate", "bootFails", "pidReuse",
              "slowHealth", "portTaken", "overlap"}

ASSUME NamesDiffer == NoOne \notin Pids /\ Stranger \notin Pids /\ NoOne # Stranger
ASSUME EventsKnown == Events \subseteq AllEvents

VARIABLES
    pc,         \* [Pids -> State]
    lockFile,   \* the creator of the file that has the name, or NoOne
    written,    \* written[p]: the file p created last has its content
    onPort,     \* who answers on the requested port: a pid, Stranger or NoOne
    disorder,   \* history: the lock could not be relied on (see below)
    killed      \* history: a server was killed

lockVars == <<pc, lockFile, written, onPort, disorder, killed>>
history == <<disorder, killed>>

(***************************************************************************)
(* off, stopped (a server ended or was killed), refused (exit 1: already   *)
(* running) and failed (start() rejected): no process has the pid.         *)
(* foreign: another program has it.                                        *)
(* create: about to open(file, 'wx').  write: created, content not yet in. *)
(* read: EEXIST, about to read.  probe: waiting for /api/health.           *)
(* remove: about to unlink.  recreate: about to open again.                *)
(* boot: acquireLock returned, start() not listening yet.                  *)
(* closing: shutdown() has closed the listener and awaits the uploads.     *)
(* yield: it has read its own pid and is about to unlink.  leaving: the    *)
(* lock is given back, the rest of the shutdown awaited.  release: in the  *)
(* exit handler.  unlink: there, as yield.                                 *)
(***************************************************************************)
Down == {"off", "stopped", "refused", "failed"}
Acquiring == {"create", "write", "read", "probe", "remove", "recreate"}
Running == {"boot", "listening", "closing", "yield", "leaving"}
Exiting == {"release", "unlink"}
State == Down \cup {"foreign"} \cup Acquiring \cup Running \cup Exiting

Alive(p) == pc[p] \notin Down
Server(p) == pc[p] \in Acquiring \cup Running \cup Exiting

MoveTo(p, s) == pc' = [pc EXCEPT ![p] = s]

\* Nobody but p is on its way up or down.
Quiet(p) == \A q \in Pids \ {p} : pc[q] \in Down \cup {"foreign", "listening"}

\* disorder: the port was taken at the outset, a start or stop overlapped
\* another, or a health check of the listener came too late.
Undisturbed(p) ==
    /\ Quiet(p) \/ "overlap" \in Events
    /\ disorder' = (disorder \/ ~Quiet(p))

LockInit ==
    /\ pc = [p \in Pids |-> "off"]
    /\ lockFile = NoOne
    /\ written = [p \in Pids |-> FALSE]
    /\ onPort \in {NoOne} \cup {s \in {Stranger} : "portTaken" \in Events}
    /\ disorder = (onPort = Stranger)
    /\ killed = FALSE

-----------------------------------------------------------------------------
(* acquireLock *)

\* start() calls acquireLock(port) before anything else.
StartServer(p) ==
    /\ pc[p] \in Down
    /\ Undisturbed(p)
    /\ MoveTo(p, "create")
    /\ UNCHANGED <<lockFile, written, onPort, killed>>

\* open(LOCK_FILE, 'wx'): the file is there, and empty, if it was not.
OpenExclusive(p) ==
    /\ lockFile = NoOne
    /\ lockFile' = p
    /\ written' = [written EXCEPT ![p] = FALSE]
    /\ MoveTo(p, "write")
    /\ UNCHANGED <<onPort, history>>

Create(p) == pc[p] = "create" /\ OpenExclusive(p)

CreateRefused(p) ==
    /\ pc[p] = "create"
    /\ lockFile # NoOne
    /\ MoveTo(p, "read")
    /\ UNCHANGED <<lockFile, written, onPort, history>>

\* fd.writeFile: into the inode p created, whatever has become of its name.
\* start() then registers the exit handler before it awaits anything else.
WriteContent(p) ==
    /\ pc[p] = "write"
    /\ written' = [written EXCEPT ![p] = TRUE]
    /\ MoveTo(p, "boot")
    /\ UNCHANGED <<lockFile, onPort, history>>

\* readLockData returns null when the file is gone, or still empty.
Readable == lockFile # NoOne /\ written[lockFile]

\* The read, and the checks made on its result before anything else is
\* awaited: no lock to speak of, this process's pid, a dead pid, a live one.
ReadStale(p) ==
    /\ pc[p] = "read"
    /\ Readable => lockFile # p /\ ~Alive(lockFile)
    /\ MoveTo(p, "remove")
    /\ UNCHANGED <<lockFile, written, onPort, history>>

\* A lock with this pid was left by an earlier process of the same pid.
ReadOwn(p) ==
    /\ pc[p] = "read"
    /\ Readable
    /\ lockFile = p
    /\ MoveTo(p, "boot")
    /\ UNCHANGED <<lockFile, written, onPort, history>>

ReadLive(p) ==
    /\ pc[p] = "read"
    /\ Readable
    /\ lockFile # p
    /\ Alive(lockFile)
    /\ MoveTo(p, "probe")
    /\ UNCHANGED <<lockFile, written, onPort, history>>

\* /api/health on the recorded port, which is the requested one, answers
\* app = codexmux: "already running".
ProbeAnswered(p) ==
    /\ pc[p] = "probe"
    /\ onPort \in Pids
    /\ MoveTo(p, "refused")
    /\ UNCHANGED <<lockFile, written, onPort, history>>

\* Mutant: the lock is reclaimed whatever the health check says.
ProbeIgnored(p) ==
    /\ pc[p] = "probe"
    /\ MoveTo(p, "remove")
    /\ UNCHANGED <<lockFile, written, onPort, history>>

\* Refused, or another program's answer, or none within two seconds.
ProbeFailed(p) ==
    /\ pc[p] = "probe"
    /\ onPort \in Pids => "slowHealth" \in Events
    /\ disorder' = (disorder \/ onPort \in Pids)
    /\ MoveTo(p, "remove")
    /\ UNCHANGED <<lockFile, written, onPort, killed>>

\* Mutant: a stale lock is not unlinked before the second open.
RemoveSkipped(p) ==
    /\ pc[p] = "remove"
    /\ MoveTo(p, "recreate")
    /\ UNCHANGED <<lockFile, written, onPort, history>>

\* removeStaleLock: unlinks whatever has the name by now.
Remove(p) ==
    /\ pc[p] = "remove"
    /\ lockFile' = NoOne
    /\ MoveTo(p, "recreate")
    /\ UNCHANGED <<written, onPort, history>>

Recreate(p) == pc[p] = "recreate" /\ OpenExclusive(p)

\* EEXIST the second time is not caught: start() rejects and the process ends.
RecreateRefused(p) ==
    /\ pc[p] = "recreate"
    /\ lockFile # NoOne
    /\ MoveTo(p, "failed")
    /\ UNCHANGED <<lockFile, written, onPort, history>>

-----------------------------------------------------------------------------
(* The server's life with the lock *)

\* Mutant: no second port is tried.
ListenOrFail(p) ==
    /\ pc[p] = "boot"
    /\ onPort' = IF onPort = NoOne THEN p ELSE onPort
    /\ MoveTo(p, IF onPort = NoOne THEN "listening" ELSE "failed")
    /\ UNCHANGED <<lockFile, written, history>>

\* The rest of start(), up to listenWithFallback, which takes another port
\* when the requested one is in use; the lock keeps the requested one.
Listen(p) ==
    /\ pc[p] = "boot"
    /\ onPort' = IF onPort = NoOne THEN p ELSE onPort
    /\ MoveTo(p, "listening")
    /\ UNCHANGED <<lockFile, written, history>>

\* Mutant: the exit handler was not registered.
BootFailsKeepingLock(p) ==
    /\ "bootFails" \in Events
    /\ pc[p] = "boot"
    /\ MoveTo(p, "stopped")
    /\ UNCHANGED <<lockFile, written, onPort, history>>

\* start() rejects, which ends the process; when it could not listen, the
\* shutdown of createOuterServerLifecycle comes first.
BootFails(p) ==
    /\ "bootFails" \in Events
    /\ pc[p] = "boot"
    /\ \E next \in {"closing", "release"} : MoveTo(p, next)
    /\ UNCHANGED <<lockFile, written, onPort, history>>

ClosePort(p) == onPort' = IF onPort = p THEN NoOne ELSE onPort

\* SIGTERM or SIGINT once the server listens: it stops listening at once,
\* waits for its uploads, gives the lock back and stops the rest.
Terminate(p) ==
    /\ "terminate" \in Events
    /\ pc[p] = "listening"
    /\ Undisturbed(p)
    /\ ClosePort(p)
    /\ MoveTo(p, "closing")
    /\ UNCHANGED <<lockFile, written, killed>>

\* The WebSockets and the grace period are over; process.exit runs the exit
\* handler.
Exit(p) ==
    /\ pc[p] = "leaving"
    /\ MoveTo(p, "release")
    /\ UNCHANGED <<lockFile, written, onPort, history>>

\* releaseLock, which the shutdown calls before it stops the rest, and the exit
\* handler once more: reads the file, and unlinks it when it holds this pid; the
\* two system calls are synchronous here, but not to other processes.
ReleaseRead(p) ==
    /\ LET own == lockFile = p /\ written[p] IN
       \/ pc[p] = "closing" /\ MoveTo(p, IF own THEN "yield" ELSE "leaving")
       \/ pc[p] = "release" /\ MoveTo(p, IF own THEN "unlink" ELSE "stopped")
    /\ UNCHANGED <<lockFile, written, onPort, history>>

ReleaseUnlink(p) ==
    /\ \/ pc[p] = "yield" /\ MoveTo(p, "leaving")
       \/ pc[p] = "unlink" /\ MoveTo(p, "stopped")
    /\ lockFile' = NoOne
    /\ UNCHANGED <<written, onPort, history>>

-----------------------------------------------------------------------------
(* The machine *)

\* SIGKILL, a power loss, a signal before the handlers are there.
Crash(p) ==
    /\ "crash" \in Events
    /\ Server(p)
    /\ ClosePort(p)
    /\ killed' = TRUE
    /\ MoveTo(p, "stopped")
    /\ UNCHANGED <<lockFile, written, disorder>>

\* Another program gets the pid, or ends.
ForeignStarts(p) ==
    /\ "pidReuse" \in Events
    /\ pc[p] \in Down
    /\ MoveTo(p, "foreign")
    /\ UNCHANGED <<lockFile, written, onPort, history>>

ForeignEnds(p) ==
    /\ pc[p] = "foreign"
    /\ MoveTo(p, "stopped")
    /\ UNCHANGED <<lockFile, written, onPort, history>>

-----------------------------------------------------------------------------
Acquire(p) ==
    \/ StartServer(p) \/ Create(p) \/ CreateRefused(p) \/ WriteContent(p)
    \/ ReadStale(p) \/ ReadOwn(p) \/ ReadLive(p)
    \/ ProbeAnswered(p) \/ ProbeFailed(p)
    \/ Remove(p) \/ Recreate(p) \/ RecreateRefused(p)

Serve(p) ==
    \/ Listen(p) \/ BootFails(p) \/ Terminate(p) \/ Exit(p)
    \/ ReleaseRead(p) \/ ReleaseUnlink(p)

Machine(p) == Crash(p) \/ ForeignStarts(p) \/ ForeignEnds(p)

LockNext == \E p \in Pids : Acquire(p) \/ Serve(p) \/ Machine(p)

LockSpec == LockInit /\ [][LockNext]_lockVars

-----------------------------------------------------------------------------
(* Properties *)

LockTypeOK ==
    /\ pc \in [Pids -> State]
    /\ lockFile \in Pids \cup {NoOne}
    /\ written \in [Pids -> BOOLEAN]
    /\ onPort \in Pids \cup {NoOne, Stranger}
    /\ disorder \in BOOLEAN
    /\ killed \in BOOLEAN

(* "cmux.lock: single-instance guard": from the return of acquireLock to   *)
(* the exit, one process at most runs on the data directory.               *)
AtMostOne ==
    \A p, q \in Pids : pc[p] \in Running /\ pc[q] \in Running => p = q

(* Two servers never run on the data directory at once, through kills at   *)
(* any step, leftover files and reused pids, as long as starts and stops   *)
(* did not overlap, the port was free and the running server answered its  *)
(* health check in time (acquireLock).                                     *)
OneInstance == ~disorder => AtMostOne

(* A crash leaves the file behind, empty or full, and its pid may go to    *)
(* another program or to the next server; whatever is left, a start that   *)
(* has the machine to itself gets past it and never dies on it.            *)
LeftoverNeverFatal == ~disorder => \A p \in Pids : pc[p] # "failed"

(* Servers that race for the lock do not all lose: when no server was      *)
(* stopped or killed, every start is over, and one was refused or failed,  *)
(* then one is serving (acquireLock, in every interleaving).               *)
SomeoneServes ==
    (\A p \in Pids : pc[p] \in {"off", "refused", "failed", "listening"})
        /\ (\E p \in Pids : pc[p] \in {"refused", "failed"})
    => \E p \in Pids : pc[p] = "listening"

(* A process that ends by itself leaves no lock of its own, however its    *)
(* release interleaves with others reclaiming the lock: without kills the  *)
(* file, when there is one, names a process that is still there.           *)
NoLeftoverLock == ~killed /\ lockFile \in Pids => Alive(lockFile)
=============================================================================
