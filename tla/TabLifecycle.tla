---------------------------- MODULE TabLifecycle ----------------------------
(***************************************************************************)
(* The life of terminal tabs in Runtime v2: the Supervisor creates,        *)
(* restarts and deletes them, deletes the workspace, and reconciles rows   *)
(* with tmux sessions when it starts (lib/runtime/supervisor.ts), through  *)
(* the Storage Worker, which keeps a row per tab (runtime/storage/         *)
(* repository.ts), and the Terminal Worker, which runs tmux (runtime/      *)
(* terminal/terminal-worker-runtime.ts).                                   *)
(*                                                                         *)
(* A call to a worker is what WorkerRpc makes of it: it is answered with   *)
(* the result of what the worker did, or fails while the worker may still  *)
(* carry it out ("late").  Several calls of one kind are performed in any  *)
(* order: tmux commands overlap in the worker.  Subscribers of a session   *)
(* are the subject of TerminalAttach and left out, as are shells that end  *)
(* by themselves.  There is one workspace with its pane.                   *)
(***************************************************************************)
EXTENDS FiniteSets, Naturals

CONSTANTS
    Tabs,        \* tab ids; each names a session too
    Callers,     \* requests in progress at a time
    Boot,        \* the start of the Supervisor, a caller of its own
    NoTab,
    MaxFailures, \* bound: how many calls to a worker fail
    MaxCrashes   \* bound: how often the server, and perhaps the machine, dies

ASSUME TabNames == Boot \notin Callers /\ NoTab \notin Tabs
ASSUME FaultBounds == MaxFailures \in Nat /\ MaxCrashes \in Nat

VARIABLES
    row,         \* [Tabs -> lifecycle_state], "none": no row
    workspace,   \* the workspace row, and its pane, exist
    tmux,        \* SUBSET Tabs: the sessions there are
    op,          \* what each caller is doing
    late,        \* calls given up by their caller that may still be performed
    made,        \* ids handed out by createTerminalTab
    known,       \* ids a client can name: their row has been ready
    \* history: the faults that happened, and the tabs of failed calls and those
    \* a restart of which met another operation on them
    faults, disturbed

vars == <<row, workspace, tmux, op, late, made, known, faults, disturbed>>
store == <<row, workspace, known>>

(***************************************************************************)
(* A step has the name of the command it waits for.  "undo" is the         *)
(* terminal.kill-session of the catch clause.                              *)
(***************************************************************************)
StorageSteps == {"ensure", "createPending", "finalize", "failPending", "failReady",
                 "delete", "deleteWorkspace", "listPending", "listReady"}
TerminalSteps == {"create", "kill", "undo", "has"}
Steps == {"idle", "down", "up"} \cup StorageSteps \cup TerminalSteps
Kinds == {"none", "create", "restart", "delete", "deleteWorkspace", "start"}

Op == [kind : Kinds, tab : Tabs \cup {NoTab}, step : Steps, todo : SUBSET Tabs,
       call : {"none", "sent", "ok", "error"}, reply : SUBSET Tabs]

At(kind, step) == [kind |-> kind, tab |-> NoTab, step |-> step, todo |-> {},
                   call |-> "none", reply |-> {}]
Idle == At("none", "idle")
Down == At("start", "down")
Up   == At("start", "up")

All == Callers \cup {Boot}
Started == op[Boot] = Up
Active(c) == op[c].kind \notin {"none", "start"}

Init ==
    /\ row = [t \in Tabs |-> "none"]
    /\ workspace = TRUE
    /\ tmux = {}
    /\ op = [c \in All |-> IF c = Boot THEN Down ELSE Idle]
    /\ late = {} /\ made = {} /\ known = {}
    /\ faults = [terminal |-> 0, storage |-> 0, crash |-> 0] /\ disturbed = {}

-----------------------------------------------------------------------------
(* The Supervisor: one action per continuation of an await                 *)

Send(c, step, t, todo) ==
    op' = [op EXCEPT ![c] = [@ EXCEPT !.step = step, !.tab = t, !.todo = todo,
                                      !.call = "sent", !.reply = {}]]

Ends(c) == op' = [op EXCEPT ![c] = Idle]

Succeeded(c, step) == op[c].step = step /\ op[c].call = "ok"
Failed(c, step) == op[c].step = step /\ op[c].call = "error"
Answered(c, step) == Succeeded(c, step) \/ Failed(c, step)

Creation(c) == op[c].kind \in {"create", "restart"}

\* A restart meets another operation on its tab.
Restarting(t) == \E c \in Callers : op[c].kind = "restart" /\ op[c].tab = t
Touched(t) == \E c \in Callers : Active(c) /\ (op[c].tab = t \/ op[c].kind = "deleteWorkspace")

\* A request awaits ensureStarted() first; what it does before its first command
\* changes nothing here.
Begin(c, kind, step, t) ==
    /\ Started /\ op[c] = Idle
    /\ op' = [op EXCEPT ![c] = [At(kind, step) EXCEPT !.tab = t, !.call = "sent"]]

BeginCreate(c, t) ==
    /\ t \notin made
    /\ \E step \in {"ensure", "createPending"} : Begin(c, "create", step, t)
    /\ made' = made \cup {t}
    /\ UNCHANGED <<store, tmux, late, faults, disturbed>>

BeginRestart(c, t) ==
    /\ t \in known
    /\ \E step \in {"ensure", "delete"} : Begin(c, "restart", step, t)
    /\ disturbed' = IF Touched(t) THEN disturbed \cup {t} ELSE disturbed
    /\ UNCHANGED <<store, tmux, late, made, faults>>

BeginDelete(c, t) ==
    /\ t \in known
    /\ Begin(c, "delete", "delete", t)
    /\ disturbed' = IF Restarting(t) THEN disturbed \cup {t} ELSE disturbed
    /\ UNCHANGED <<store, tmux, late, made, faults>>

BeginDeleteWorkspace(c) ==
    /\ Begin(c, "deleteWorkspace", "deleteWorkspace", NoTab)
    /\ disturbed' = disturbed \cup {t \in Tabs : Restarting(t)}
    /\ UNCHANGED <<store, tmux, late, made, faults>>

\* createTerminalTab and restartTerminalTab.
PaneEnsured(c) ==
    /\ Creation(c) /\ Succeeded(c, "ensure")
    /\ Send(c, IF op[c].kind = "create" THEN "createPending" ELSE "delete", op[c].tab, {})

OldRowDeleted(c) ==
    /\ op[c].kind = "restart" /\ Succeeded(c, "delete")
    /\ Send(c, "kill", op[c].tab, {})

OldSessionKilled(c) ==
    /\ op[c].kind = "restart" /\ Answered(c, "kill")
    /\ Send(c, "createPending", op[c].tab, {})

IntentRecorded(c) ==
    /\ Creation(c) /\ Succeeded(c, "createPending")
    /\ Send(c, "create", op[c].tab, {})

\* Mutant: finalizes whatever the Terminal Worker answered.
SessionCreatedOrNot(c) ==
    /\ Creation(c) /\ Answered(c, "create")
    /\ Send(c, "finalize", op[c].tab, {})

SessionCreated(c) ==
    /\ Creation(c) /\ Succeeded(c, "create")
    /\ Send(c, "finalize", op[c].tab, {})

\* Mutant: the catch clause without terminal.kill-session.
CreationFailedKeepsSession(c) ==
    /\ Creation(c) /\ (Failed(c, "create") \/ Failed(c, "finalize"))
    /\ Send(c, "failPending", op[c].tab, {})

CreationFailed(c) ==
    /\ Creation(c) /\ (Failed(c, "create") \/ Failed(c, "finalize"))
    /\ Send(c, "undo", op[c].tab, {})

\* Mutant: a restart leaves its new row to the next start.
SessionUndoneOnly(c) ==
    /\ Creation(c) /\ Answered(c, "undo")
    /\ IF op[c].kind = "create" THEN Send(c, "failPending", op[c].tab, {}) ELSE Ends(c)

SessionUndone(c) ==
    /\ Creation(c) /\ Answered(c, "undo")
    /\ Send(c, "failPending", op[c].tab, {})

CreationEnds(c) ==
    /\ Creation(c)
    /\ \/ Succeeded(c, "finalize") \/ Answered(c, "failPending")
       \/ \E step \in {"ensure", "delete", "createPending"} : Failed(c, step)
    /\ Ends(c)

\* deleteTerminalTab
TabDeleted(c) ==
    /\ op[c].kind = "delete" /\ Succeeded(c, "delete")
    /\ IF op[c].reply = {} THEN Ends(c) ELSE Send(c, "kill", op[c].tab, {})

DeletionEnds(c) ==
    /\ op[c].kind = "delete" /\ (Failed(c, "delete") \/ Answered(c, "kill"))
    /\ Ends(c)

\* deleteWorkspace kills one returned session after the other.
KillNext(c, sessions) ==
    IF sessions = {} THEN Ends(c)
    ELSE \E t \in sessions : Send(c, "kill", t, sessions \ {t})

WorkspaceDeleted(c) ==
    /\ op[c].kind = "deleteWorkspace" /\ Succeeded(c, "deleteWorkspace")
    /\ KillNext(c, op[c].reply)

WorkspaceSessionKilled(c) ==
    /\ op[c].kind = "deleteWorkspace" /\ Answered(c, "kill")
    /\ KillNext(c, op[c].todo)

WorkspaceDeletionFails(c) ==
    /\ op[c].kind = "deleteWorkspace" /\ Failed(c, "deleteWorkspace")
    /\ Ends(c)

RequestContinues(c) ==
    \/ PaneEnsured(c) \/ OldRowDeleted(c) \/ OldSessionKilled(c) \/ IntentRecorded(c)
    \/ SessionCreated(c) \/ CreationFailed(c) \/ SessionUndone(c) \/ CreationEnds(c)
    \/ TabDeleted(c) \/ DeletionEnds(c)
    \/ WorkspaceDeleted(c) \/ WorkspaceSessionKilled(c) \/ WorkspaceDeletionFails(c)

Continue(c) ==
    /\ RequestContinues(c)
    /\ UNCHANGED <<store, tmux, late, made, faults, disturbed>>

-----------------------------------------------------------------------------
(* ensureStarted: reconcileTerminalTabs before the first request           *)

BootCall(step, t, todo) == Send(Boot, step, t, todo)

NextPending(todo) ==
    IF todo = {} THEN BootCall("listReady", NoTab, {})
    ELSE \E t \in todo : BootCall("kill", t, todo \ {t})

NextReady(todo) ==
    IF todo = {} THEN op' = [op EXCEPT ![Boot] = Up]
    ELSE \E t \in todo : BootCall("has", t, todo \ {t})

StartBegins ==
    /\ op[Boot] = Down
    /\ op' = [op EXCEPT ![Boot] = [At("start", "listPending") EXCEPT !.call = "sent"]]

PendingListed == Succeeded(Boot, "listPending") /\ NextPending(op[Boot].reply)

PendingKilled == Answered(Boot, "kill") /\ BootCall("failPending", op[Boot].tab, op[Boot].todo)

\* Mutant: a storage error does not stop the reconciliation.
PendingFailedOrNot == Answered(Boot, "failPending") /\ NextPending(op[Boot].todo)

PendingFailed == Succeeded(Boot, "failPending") /\ NextPending(op[Boot].todo)

ReadyListed == Succeeded(Boot, "listReady") /\ NextReady(op[Boot].reply)

PresenceKnown ==
    /\ Succeeded(Boot, "has")
    /\ IF op[Boot].reply = {} THEN BootCall("failReady", op[Boot].tab, op[Boot].todo)
       ELSE NextReady(op[Boot].todo)

ReadyFailed == Succeeded(Boot, "failReady") /\ NextReady(op[Boot].todo)

\* The catch clause of startInternal ends the workers; the next ensureStarted()
\* starts again.
StartFails ==
    /\ \E step \in {"listPending", "failPending", "listReady", "has", "failReady"} :
           Failed(Boot, step)
    /\ op' = [op EXCEPT ![Boot] = Down]
    /\ late' = {}
    /\ UNCHANGED <<store, tmux, made, faults, disturbed>>

StartContinues ==
    /\ \/ StartBegins \/ PendingListed \/ PendingKilled \/ PendingFailed
       \/ ReadyListed \/ PresenceKnown \/ ReadyFailed
    /\ UNCHANGED <<store, tmux, late, made, faults, disturbed>>

-----------------------------------------------------------------------------
(* What the workers do: command cmd about tab t succeeds (ok) or not, and  *)
(* answers with reply.                                                     *)

SetRow(t, state) == row' = [row EXCEPT ![t] = state]

EnsuresPane(ok, reply) ==
    /\ workspace' = TRUE /\ ok /\ reply = {}
    /\ UNCHANGED <<row, known, tmux>>

CreatesPending(t, ok, reply) ==
    /\ ok = (workspace /\ row[t] = "none") /\ reply = {}
    /\ IF ok THEN SetRow(t, "pending") ELSE UNCHANGED row
    /\ UNCHANGED <<workspace, known, tmux>>

Finalizes(t, ok, reply) ==
    /\ ok = (row[t] = "pending") /\ reply = {}
    /\ IF ok THEN SetRow(t, "ready") /\ known' = known \cup {t}
       ELSE UNCHANGED <<row, known>>
    /\ UNCHANGED <<workspace, tmux>>

FailsRow(t, state, ok, reply) ==
    /\ ok = (row[t] = state) /\ reply = {}
    /\ IF ok THEN SetRow(t, "failed") ELSE UNCHANGED row
    /\ UNCHANGED <<workspace, known, tmux>>

\* The session is returned for the caller to kill it, unless the row had failed.
DeletesTab(t, ok, reply) ==
    /\ ok /\ reply = {u \in {t} : row[u] \in {"pending", "ready"}}
    /\ SetRow(t, "none")
    /\ UNCHANGED <<workspace, known, tmux>>

DeletesWorkspace(ok, reply) ==
    /\ ok /\ reply = {t \in Tabs : row[t] \in {"pending", "ready"}}
    /\ workspace' = FALSE
    /\ row' = [t \in Tabs |-> "none"]
    /\ UNCHANGED <<known, tmux>>

Lists(state, ok, reply) ==
    /\ ok /\ reply = {t \in Tabs : row[t] = state}
    /\ UNCHANGED <<store, tmux>>

\* tmux refuses a second session of the name; the directory may be gone, or the
\* configuration may not load, in which case the new session is killed again.
CreatesSession(t, ok, reply) ==
    /\ ok => t \notin tmux
    /\ reply = {}
    /\ tmux' = IF ok THEN tmux \cup {t} ELSE tmux
    /\ UNCHANGED store

KillsSession(t, ok, reply) ==
    /\ ok /\ reply = {}
    /\ tmux' = tmux \ {t}
    /\ UNCHANGED store

LooksForSession(t, ok, reply) ==
    /\ ok /\ reply = {t} \cap tmux
    /\ UNCHANGED <<store, tmux>>

Does(cmd, t, ok, reply) ==
    \/ cmd = "ensure" /\ EnsuresPane(ok, reply)
    \/ cmd = "createPending" /\ CreatesPending(t, ok, reply)
    \/ cmd = "finalize" /\ Finalizes(t, ok, reply)
    \/ cmd = "failPending" /\ FailsRow(t, "pending", ok, reply)
    \/ cmd = "failReady" /\ FailsRow(t, "ready", ok, reply)
    \/ cmd = "delete" /\ DeletesTab(t, ok, reply)
    \/ cmd = "deleteWorkspace" /\ DeletesWorkspace(ok, reply)
    \/ cmd = "listPending" /\ Lists("pending", ok, reply)
    \/ cmd = "listReady" /\ Lists("ready", ok, reply)
    \/ cmd = "create" /\ CreatesSession(t, ok, reply)
    \/ cmd \in {"kill", "undo"} /\ KillsSession(t, ok, reply)
    \/ cmd = "has" /\ LooksForSession(t, ok, reply)

WorkerPerforms(c) ==
    /\ op[c].call = "sent"
    /\ \E ok \in BOOLEAN, reply \in SUBSET Tabs :
           /\ Does(op[c].step, op[c].tab, ok, reply)
           /\ op' = [op EXCEPT ![c].call = IF ok THEN "ok" ELSE "error", ![c].reply = reply]
    /\ UNCHANGED <<late, made, faults, disturbed>>

-----------------------------------------------------------------------------
(* Failures *)

\* What a caller is told of a command that may not have been carried out yet: the
\* Terminal Worker answers a kill with success also when tmux failed.
Excuses(cmd) == IF cmd \in {"kill", "undo"} THEN {"ok", "error"} ELSE {"error"}

\* A call times out, its worker exits or tmux does not obey; the command may still
\* be carried out.
CallFails(c) ==
    /\ op[c].call = "sent"
    /\ faults.terminal + faults.storage < MaxFailures
    /\ faults' = IF op[c].step \in StorageSteps
                 THEN [faults EXCEPT !.storage = @ + 1] ELSE [faults EXCEPT !.terminal = @ + 1]
    /\ \E answer \in Excuses(op[c].step) : op' = [op EXCEPT ![c].call = answer]
    /\ late' = late \cup {<<op[c].step, op[c].tab>>}
    /\ disturbed' = disturbed \cup (IF op[c].tab = NoTab THEN Tabs ELSE {op[c].tab})
    /\ UNCHANGED <<store, tmux, made>>

LatePerformed(call) ==
    /\ \E ok \in BOOLEAN, reply \in SUBSET Tabs : Does(call[1], call[2], ok, reply)
    /\ late' = late \ {call}
    /\ UNCHANGED <<op, made, faults, disturbed>>

\* The server dies, and its workers with it; if the machine went down too, every
\* tmux session is gone.  Calls under way were carried out before or never are.
ServerDies ==
    /\ faults.crash < MaxCrashes
    /\ faults' = [faults EXCEPT !.crash = @ + 1]
    /\ op' = [c \in All |-> IF c = Boot THEN Down ELSE Idle]
    /\ tmux' \in {tmux, {}}
    /\ late' = {}
    /\ UNCHANGED <<store, made, disturbed>>

Next ==
    \/ \E c \in Callers, t \in Tabs : BeginCreate(c, t) \/ BeginRestart(c, t) \/ BeginDelete(c, t)
    \/ \E c \in Callers : BeginDeleteWorkspace(c) \/ Continue(c)
    \/ StartContinues \/ StartFails
    \/ \E c \in All : WorkerPerforms(c) \/ CallFails(c)
    \/ \E call \in late : LatePerformed(call)
    \/ ServerDies

Spec == Init /\ [][Next]_vars

-----------------------------------------------------------------------------
(* Properties *)

TypeOK ==
    /\ row \in [Tabs -> {"none", "pending", "ready", "failed"}]
    /\ workspace \in BOOLEAN
    /\ tmux \subseteq Tabs
    /\ op \in [All -> Op]
    /\ late \subseteq (StorageSteps \cup TerminalSteps) \X (Tabs \cup {NoTab})
    /\ made \subseteq Tabs /\ known \subseteq Tabs /\ disturbed \subseteq Tabs
    /\ faults \in [terminal : 0..MaxFailures, storage : 0..MaxFailures, crash : 0..MaxCrashes]

\* The steps of a creation between the recording of the intent and its end.
Settling(c) ==
    /\ Creation(c)
    /\ \/ op[c].step \in {"create", "undo"}
       \/ op[c].step = "createPending" /\ op[c].call = "ok"
       \/ op[c].step = "finalize" /\ op[c].call # "ok"
       \/ op[c].step = "failPending" /\ op[c].call = "sent"

(* No intent is forgotten: once the Supervisor is up, every pending row    *)
(* belongs to a creation in progress that is still to finalize it or to    *)
(* fail it, whatever the other operations and the Terminal Worker do. Only *)
(* a storage call that fails leaves one behind, until the next start.      *)
PendingIsOwned ==
    Started /\ faults.storage = 0 =>
        \A t \in Tabs : row[t] = "pending" => \E c \in Callers : op[c].tab = t /\ Settling(c)

(* "Startup reconciliation is complete only when every stale pending       *)
(* terminal tab is durably transitioned": whatever failed, and whatever    *)
(* earlier starts left half done, the Supervisor comes up without pending  *)
(* rows, and without ready rows that have no session.                      *)
StartReconciles ==
    [][~Started /\ Started'
       => \A t \in Tabs : row[t] # "pending" /\ (row[t] = "ready" => t \in tmux)]_vars

Quiet == Started /\ \A c \in Callers : op[c] = Idle

(* No session is leaked: when nothing is in progress a session belongs to  *)
(* a ready row, in every interleaving of creations, deletions and a        *)
(* deletion of the workspace; a crash can only leave one whose row was     *)
(* deleted.  Excepted are tabs a call about which failed and those of      *)
(* which a restart met another operation: there one caller's catch clause  *)
(* fails the other's row.                                                  *)
NoLeakedSession ==
    Quiet => \A t \in tmux \ disturbed :
                 row[t] = "ready" \/ (row[t] = "none" /\ faults.crash > 0)

(* A ready tab has its session while the Supervisor is up, with the same   *)
(* exceptions: rows turn ready after their session is there, are deleted   *)
(* before it is killed, and a row whose session did not survive is failed  *)
(* by the next start.                                                      *)
ReadyHasSession ==
    Started => \A t \in Tabs \ disturbed : row[t] = "ready" => t \in tmux
=============================================================================
