---------------------------- MODULE InstallSlot ----------------------------
(***************************************************************************)
(* The agent installer (lib/install-server.ts): one install session at a   *)
(* time, a shell on a pty behind a WebSocket.  Before the first setup is   *)
(* complete a local browser may use it without a login ("setup"), as long  *)
(* as its lease holds: the setup is still pending.  The lease is read      *)
(* before every step and every frame, and every 500 ms.                    *)
(*                                                                         *)
(* handleConnection holds the slot across four awaits, during which the    *)
(* socket may close, the pty may exit, the server may shut down and        *)
(* another connection may find the slot free.                              *)
(***************************************************************************)
EXTENDS Naturals, Sequences

CONSTANTS
    Conns,      \* connections to /api/install
    MaxFrames   \* frames a connection may have queued; one more aborts it

ASSUME FramesAreNat == MaxFrames \in Nat

VARIABLES
    pc,         \* where handleConnection stands, see ConnStates
    mode,       \* admittedMode: "setup" or "login"
    ws,         \* "none", "open", "closing" (by the server), "closed"
    aborted,    \* the handler's flag
    pty,        \* "none", "spawning", "live", "dead"
    slot,       \* Idle, Starting(c) or Active(c)
    frames,     \* queued input: what the setup was when each frame came
    read,       \* lease reads under way: what held when the read began
    command,    \* the delayed command: "none", "scheduled", "done"
    watch,      \* the lease watcher: "none", "scheduled"
    shuttingDown,
    setup,      \* "pending", "completed"
    tooLate     \* history: a "setup" frame that came after the setup was typed

vars == <<pc, mode, ws, aborted, pty, slot, frames, read, command, watch,
          shuttingDown, setup, tooLate>>

\* auth: awaits authorizeRequest.  lease1, lease2: awaits the lease before
\* and after the shell is spawned.  spawn: awaits spawnPty.
ConnStates == {"off", "auth", "lease1", "spawn", "lease2", "active", "done"}
Readers == {"start", "input", "command", "watch"}

Idle == [state |-> "idle"]
Starting(c) == [state |-> "starting", owner |-> c]
Active(c) == [state |-> "active", owner |-> c]
Slots == {Idle} \cup {Starting(c) : c \in Conns} \cup {Active(c) : c \in Conns}
Holds(c) == slot \in {Starting(c), Active(c)}

Init ==
    /\ pc = [c \in Conns |-> "off"]
    /\ mode \in [Conns -> {"setup", "login"}]
    /\ ws = [c \in Conns |-> "none"]
    /\ aborted = [c \in Conns |-> FALSE]
    /\ pty = [c \in Conns |-> "none"]
    /\ slot = Idle
    /\ frames = [c \in Conns |-> <<>>]
    /\ read = [c \in Conns |-> [k \in Readers |-> "none"]]
    /\ command = [c \in Conns |-> "none"]
    /\ watch = [c \in Conns |-> "none"]
    /\ shuttingDown = FALSE
    /\ setup = "pending"
    /\ tooLate = FALSE

-----------------------------------------------------------------------------
(* Pieces of the handlers *)

Goto(c, s) == pc' = [pc EXCEPT ![c] = s]

CloseSocket(c) == ws' = [ws EXCEPT ![c] = IF @ = "open" THEN "closing" ELSE @]

\* cleanupOwnedSlot: cleanupStarting or cleanupActive, for the owner only.
\* The shell goes with the slot and the scheduled tasks are cancelled.  A
\* shell that is still being spawned is left to the handler.
GiveUp(c) ==
    /\ slot' = IF Holds(c) THEN Idle ELSE slot
    /\ pty' = [pty EXCEPT ![c] = IF Holds(c) /\ @ = "live" THEN "dead" ELSE @]
    /\ command' = [command EXCEPT ![c] = IF Holds(c) /\ @ = "scheduled" THEN "none" ELSE @]
    /\ watch' = [watch EXCEPT ![c] = IF Holds(c) THEN "none" ELSE @]

\* abort(code, reason), and failActive with the flag set before it.
Abort(c) ==
    /\ aborted' = [aborted EXCEPT ![c] = TRUE]
    /\ GiveUp(c)
    /\ CloseSocket(c)

NothingGivenUp == UNCHANGED <<slot, pty, command, watch, aborted, ws>>

\* checkSetupLease begins: it cannot answer what did not hold since.
BeginRead(c, k) ==
    read' = [read EXCEPT ![c][k] = IF setup = "pending" THEN "valid" ELSE "stale"]
EndRead(c, k) == read' = [read EXCEPT ![c][k] = "none"]

\* "valid" only if the setup was pending when the read began; "completed" if
\* it is complete now, "unavailable" at any time.
LeaseMayHold(c, k) == read[c][k] = "valid"

Activate(c) ==
    /\ Goto(c, "active")
    /\ slot' = Active(c)
    /\ command' = [command EXCEPT ![c] = "scheduled"]
    /\ watch' = [watch EXCEPT ![c] = IF mode[c] = "setup" THEN "scheduled" ELSE "none"]

-----------------------------------------------------------------------------
(* handleConnection *)

Connect(c) ==
    /\ pc[c] = "off"
    /\ mode[c] = "setup" => setup = "pending"
    /\ IF shuttingDown
       THEN /\ Goto(c, "done")
            /\ ws' = [ws EXCEPT ![c] = "closing"]
            /\ aborted' = [aborted EXCEPT ![c] = TRUE]
       ELSE /\ Goto(c, "auth")
            /\ ws' = [ws EXCEPT ![c] = "open"]
            /\ UNCHANGED aborted
    /\ UNCHANGED <<mode, pty, slot, frames, read, command, watch, shuttingDown, setup, tooLate>>

\* The fresh authorization, the command and the slot decide.  A setup-local
\* connection reads its lease once more before it is told of a refusal,
\* which only words the refusal.
Authorized(c) ==
    /\ pc[c] = "auth"
    /\ \/ /\ aborted[c]
          /\ Goto(c, "done")
          /\ NothingGivenUp /\ UNCHANGED read
       \/ /\ ~aborted[c]
          /\ Goto(c, "done")
          /\ Abort(c) /\ UNCHANGED read
       \/ /\ ~aborted[c] /\ ~shuttingDown /\ slot = Idle
          /\ slot' = Starting(c)
          /\ IF mode[c] = "setup"
             THEN Goto(c, "lease1") /\ BeginRead(c, "start") /\ UNCHANGED pty
             ELSE Goto(c, "spawn") /\ pty' = [pty EXCEPT ![c] = "spawning"] /\ UNCHANGED read
          /\ UNCHANGED <<aborted, ws, command, watch>>
    /\ UNCHANGED <<mode, frames, shuttingDown, setup, tooLate>>

Lease1(c) ==
    /\ pc[c] = "lease1"
    /\ EndRead(c, "start")
    /\ IF aborted[c] \/ slot # Starting(c)
       THEN Goto(c, "done") /\ NothingGivenUp
       ELSE \/ /\ LeaseMayHold(c, "start")
               /\ Goto(c, "spawn")
               /\ pty' = [pty EXCEPT ![c] = "spawning"]
               /\ UNCHANGED <<slot, command, watch, aborted, ws>>
            \/ Goto(c, "done") /\ Abort(c)
    /\ UNCHANGED <<mode, frames, shuttingDown, setup, tooLate>>

\* Mutant: the slot is not looked at when the shell has been spawned.
SpawnedAnyway(c) ==
    /\ pc[c] = "spawn"
    /\ pty' = [pty EXCEPT ![c] = "live"]
    /\ IF mode[c] = "setup"
       THEN Goto(c, "lease2") /\ BeginRead(c, "start") /\ UNCHANGED <<slot, command, watch>>
       ELSE Activate(c) /\ UNCHANGED read
    /\ UNCHANGED <<mode, ws, aborted, frames, shuttingDown, setup, tooLate>>

\* The shell is there; whoever lost the slot meanwhile destroys it.
Spawned(c) ==
    /\ pc[c] = "spawn"
    /\ IF aborted[c] \/ shuttingDown \/ slot # Starting(c)
       THEN /\ Goto(c, "done")
            /\ pty' = [pty EXCEPT ![c] = "dead"]
            /\ slot' = IF slot = Starting(c) THEN Idle ELSE slot
            /\ UNCHANGED <<read, command, watch>>
       ELSE /\ pty' = [pty EXCEPT ![c] = "live"]
            /\ IF mode[c] = "setup"
               THEN Goto(c, "lease2") /\ BeginRead(c, "start") /\ UNCHANGED <<slot, command, watch>>
               ELSE Activate(c) /\ UNCHANGED read
    /\ UNCHANGED <<mode, ws, aborted, frames, shuttingDown, setup, tooLate>>

SpawnFails(c) ==
    /\ pc[c] = "spawn"
    /\ Goto(c, "done")
    /\ pty' = [pty EXCEPT ![c] = "none"]
    /\ slot' = IF slot = Starting(c) THEN Idle ELSE slot
    /\ aborted' = [aborted EXCEPT ![c] = TRUE]
    /\ CloseSocket(c)
    /\ UNCHANGED <<mode, frames, read, command, watch, shuttingDown, setup, tooLate>>

Lease2(c) ==
    /\ pc[c] = "lease2"
    /\ EndRead(c, "start")
    /\ IF aborted[c] \/ shuttingDown \/ slot # Starting(c)
       THEN /\ Goto(c, "done")
            /\ GiveUp(c) /\ UNCHANGED <<aborted, ws>>
       ELSE \/ LeaseMayHold(c, "start") /\ Activate(c) /\ UNCHANGED <<pty, aborted, ws>>
            \/ Goto(c, "done") /\ Abort(c)
    /\ UNCHANGED <<mode, frames, shuttingDown, setup, tooLate>>

-----------------------------------------------------------------------------
(* The socket and its input *)

\* A frame is queued; one too many, or too large, aborts.
Message(c) ==
    /\ pc[c] \notin {"off", "done"}
    /\ ws[c] \in {"open", "closing"}
    /\ ~aborted[c]
    /\ \/ /\ Len(frames[c]) < MaxFrames
          /\ frames' = [frames EXCEPT ![c] = Append(@, setup)]
          /\ NothingGivenUp
       \/ /\ Abort(c)
          /\ UNCHANGED frames
    /\ UNCHANGED <<pc, mode, read, shuttingDown, setup, tooLate>>

Drop(c) == frames' = [frames EXCEPT ![c] = Tail(@)]
TypeFrame(c) == tooLate' = (tooLate \/ (mode[c] = "setup" /\ Head(frames[c]) = "completed"))

\* Mutant: the lease is not read for a frame.
InputUnchecked(c) ==
    /\ pc[c] \in {"active", "done"} /\ frames[c] # <<>> /\ read[c]["input"] = "none"
    /\ Drop(c)
    /\ IF aborted[c] \/ slot # Active(c)
       THEN NothingGivenUp /\ UNCHANGED tooLate
       ELSE \/ TypeFrame(c) /\ NothingGivenUp
            \/ Abort(c) /\ UNCHANGED tooLate
    /\ UNCHANGED <<pc, mode, read, shuttingDown, setup>>

\* processInput, one frame at a time, once the session is ready.  What the
\* pty throws when it is written to aborts the session.
Input(c) ==
    /\ pc[c] \in {"active", "done"} /\ frames[c] # <<>> /\ read[c]["input"] = "none"
    /\ \/ /\ aborted[c] \/ slot # Active(c)
          /\ Drop(c)
          /\ NothingGivenUp /\ UNCHANGED <<read, tooLate>>
       \/ /\ ~aborted[c] /\ slot = Active(c) /\ mode[c] = "setup"
          /\ BeginRead(c, "input")
          /\ NothingGivenUp /\ UNCHANGED <<frames, tooLate>>
       \/ /\ ~aborted[c] /\ slot = Active(c) /\ mode[c] = "login"
          /\ Drop(c)
          /\ \/ TypeFrame(c) /\ NothingGivenUp
             \/ Abort(c) /\ UNCHANGED tooLate
          /\ UNCHANGED read
    /\ UNCHANGED <<pc, mode, shuttingDown, setup>>

InputLease(c) ==
    /\ read[c]["input"] # "none"
    /\ EndRead(c, "input")
    /\ Drop(c)
    /\ IF aborted[c] \/ slot # Active(c)
       THEN NothingGivenUp /\ UNCHANGED tooLate
       ELSE \/ LeaseMayHold(c, "input") /\ TypeFrame(c) /\ NothingGivenUp
            \/ Abort(c) /\ UNCHANGED tooLate
    /\ UNCHANGED <<pc, mode, shuttingDown, setup>>

\* The close event, of the client's or after the server's close().
CloseEvent(c) ==
    /\ ws[c] \in {"open", "closing"}
    /\ ws' = [ws EXCEPT ![c] = "closed"]
    /\ aborted' = [aborted EXCEPT ![c] = TRUE]
    /\ IF aborted[c] THEN UNCHANGED <<slot, pty, command, watch>> ELSE GiveUp(c)
    /\ UNCHANGED <<pc, mode, frames, read, shuttingDown, setup, tooLate>>

-----------------------------------------------------------------------------
(* The session's tasks and its shell *)

\* The command is typed 300 ms after the start, when the lease still holds;
\* a pty that throws ends the session.
Command(c) ==
    /\ command[c] = "scheduled" /\ read[c]["command"] = "none"
    /\ \/ /\ mode[c] = "setup"
          /\ BeginRead(c, "command") /\ NothingGivenUp
       \/ /\ mode[c] = "login"
          /\ command' = [command EXCEPT ![c] = "done"]
          /\ UNCHANGED <<slot, pty, watch, aborted, ws, read>>
       \/ /\ mode[c] = "login"
          /\ Abort(c) /\ UNCHANGED read
    /\ UNCHANGED <<pc, mode, frames, shuttingDown, setup, tooLate>>

CommandLease(c) ==
    /\ read[c]["command"] # "none"
    /\ EndRead(c, "command")
    /\ IF slot # Active(c)
       THEN NothingGivenUp
       ELSE \/ /\ LeaseMayHold(c, "command")
               /\ command' = [command EXCEPT ![c] = "done"]
               /\ UNCHANGED <<slot, pty, watch, aborted, ws>>
            \/ Abort(c)
    /\ UNCHANGED <<pc, mode, frames, shuttingDown, setup, tooLate>>

Watch(c) ==
    /\ watch[c] = "scheduled" /\ read[c]["watch"] = "none"
    /\ BeginRead(c, "watch")
    /\ UNCHANGED <<pc, mode, ws, aborted, pty, slot, frames, command, watch, shuttingDown, setup, tooLate>>

\* Mutant: the watcher runs once.
WatchLeaseOnce(c) ==
    /\ read[c]["watch"] # "none"
    /\ EndRead(c, "watch")
    /\ IF slot # Active(c)
       THEN NothingGivenUp
       ELSE \/ /\ LeaseMayHold(c, "watch")
               /\ watch' = [watch EXCEPT ![c] = "none"]
               /\ UNCHANGED <<slot, pty, command, aborted, ws>>
            \/ Abort(c)
    /\ UNCHANGED <<pc, mode, frames, shuttingDown, setup, tooLate>>

\* It schedules itself again for as long as the lease holds.
WatchLease(c) ==
    /\ read[c]["watch"] # "none"
    /\ EndRead(c, "watch")
    /\ IF slot # Active(c)
       THEN NothingGivenUp
       ELSE \/ LeaseMayHold(c, "watch") /\ NothingGivenUp
            \/ Abort(c)
    /\ UNCHANGED <<pc, mode, frames, shuttingDown, setup, tooLate>>

\* The shell exits by itself; it is not destroyed again.
ShellExits(c) ==
    /\ pty[c] = "live"
    /\ aborted' = [aborted EXCEPT ![c] = @ \/ slot = Starting(c)]
    /\ GiveUp(c)
    /\ CloseSocket(c)
    /\ UNCHANGED <<pc, mode, frames, read, shuttingDown, setup, tooLate>>

\* Output finds the socket's buffer full, or cannot be sent.
OutputFails(c) ==
    /\ slot = Active(c)
    /\ GiveUp(c)
    /\ CloseSocket(c)
    /\ UNCHANGED <<pc, mode, aborted, frames, read, shuttingDown, setup, tooLate>>

\* shutdown(): whoever has the slot is given up.
Shutdown ==
    /\ ~shuttingDown
    /\ shuttingDown' = TRUE
    /\ IF slot # Idle
       THEN GiveUp(slot.owner) /\ CloseSocket(slot.owner)
       ELSE UNCHANGED <<slot, pty, command, watch, ws>>
    /\ UNCHANGED <<pc, mode, aborted, frames, read, setup, tooLate>>

\* The administrator finishes the first setup.
CompleteSetup ==
    /\ setup = "pending"
    /\ setup' = "completed"
    /\ UNCHANGED <<pc, mode, ws, aborted, pty, slot, frames, read, command, watch,
                   shuttingDown, tooLate>>

Handler(c) == Authorized(c) \/ Lease1(c) \/ Spawned(c) \/ SpawnFails(c) \/ Lease2(c)
Tasks(c) ==
    \/ Input(c) \/ InputLease(c) \/ Command(c) \/ CommandLease(c)

Next ==
    \/ \E c \in Conns :
          \/ Connect(c) \/ Handler(c) \/ Message(c) \/ CloseEvent(c)
          \/ Tasks(c) \/ Watch(c) \/ WatchLease(c) \/ ShellExits(c) \/ OutputFails(c)
    \/ Shutdown \/ CompleteSetup

Spec == Init /\ [][Next]_vars

(***************************************************************************)
(* Promises settle and timers fire.  Nobody has to connect, type or leave, *)
(* a shell need not exit, the setup need not be completed.                 *)
(***************************************************************************)
Fairness ==
    \A c \in Conns :
        /\ WF_vars(Handler(c))
        /\ WF_vars(Watch(c))
        /\ WF_vars(WatchLease(c))

FairSpec == Spec /\ Fairness

-----------------------------------------------------------------------------
(* Properties *)

\* Every variable stays in its domain, and no queue exceeds its limit (the
\* state of createInstallServer and of its connections).
TypeOK ==
    /\ pc \in [Conns -> ConnStates]
    /\ mode \in [Conns -> {"setup", "login"}]
    /\ ws \in [Conns -> {"none", "open", "closing", "closed"}]
    /\ aborted \in [Conns -> BOOLEAN]
    /\ pty \in [Conns -> {"none", "spawning", "live", "dead"}]
    /\ slot \in Slots
    /\ frames \in [Conns -> Seq({"pending", "completed"})]
    /\ \A c \in Conns : Len(frames[c]) <= MaxFrames
    /\ read \in [Conns -> [Readers -> {"none", "valid", "stale"}]]
    /\ command \in [Conns -> {"none", "scheduled", "done"}]
    /\ watch \in [Conns -> {"none", "scheduled"}]
    /\ shuttingDown \in BOOLEAN
    /\ setup \in {"pending", "completed"}
    /\ tooLate \in BOOLEAN

\* A shell lives only as long as its connection has the slot, so there is
\* one at most and nothing outlives the shutdown but a spawn under way; and
\* a session that is active has its shell.
ShellHasSlot ==
    /\ \A c \in Conns : pty[c] = "live" => Holds(c)
    /\ \A c \in Conns : slot = Active(c) => pty[c] = "live" /\ pc[c] = "active"
    /\ \A c \in Conns : slot = Starting(c) => pc[c] \in {"lease1", "spawn", "lease2"}
    /\ shuttingDown => slot = Idle

\* What a browser without a login types after the setup was completed never
\* reaches the shell, however the lease reads and the frames interleave.
LeaseHonoured == ~tooLate

\* A shell ends with its socket, and with the lease it was started under.
ShellEnds ==
    \A c \in Conns :
        (ws[c] = "closed" \/ (mode[c] = "setup" /\ setup = "completed"))
            ~> pty[c] \notin {"spawning", "live"}
=============================================================================
