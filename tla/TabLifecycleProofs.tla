------------------------- MODULE TabLifecycleProofs -------------------------
(***************************************************************************)
(* Proofs about TabLifecycle for any number of tabs, callers, failures and *)
(* crashes.  The first part shows that a pending row is never forgotten    *)
(* while the Supervisor is up, and that a start is complete when it        *)
(* succeeds; the second, by an induction of its own on top of the first,   *)
(* that no session is leaked and that a ready tab has its session.         *)
(***************************************************************************)
EXTENDS TabLifecycle, TLAPS

Commands == StorageSteps \cup TerminalSteps
NeedsTab == Commands \ {"listPending", "listReady", "deleteWorkspace"}

\* A command about a tab names one.
Named ==
    /\ \A c \in All : op[c].step \in NeedsTab => op[c].tab \in Tabs
    /\ \A call \in late : call[1] \in NeedsTab => call[2] \in Tabs

Fits(kind, step) ==
    \/ /\ kind \in {"create", "restart"}
       /\ step \in {"ensure", "createPending", "create", "finalize", "undo", "failPending"}
    \/ kind = "restart" /\ step \in {"delete", "kill"}
    \/ kind = "delete" /\ step \in {"delete", "kill"}
    \/ kind = "deleteWorkspace" /\ step \in {"deleteWorkspace", "kill"}

BootSteps == {"listPending", "kill", "failPending", "listReady", "has", "failReady"}

\* Who does what: requests run while the Supervisor is up only.
Shape ==
    /\ \A c \in Callers : \/ op[c] = Idle
                          \/ Started /\ Fits(op[c].kind, op[c].step)
    /\ op[Boot] = Up \/ op[Boot] = Down \/ (op[Boot].kind = "start" /\ op[Boot].step \in BootSteps)

BootAt(step) == op[Boot].step = step
BootHas(step) == Succeeded(Boot, step)
BootNamed(t) == t = op[Boot].tab

\* Rows a start has not got to yet: those that may be pending ...
MayBePending(t) ==
    \/ BootAt("down") \/ (BootAt("listPending") /\ ~BootHas("listPending"))
    \/ BootHas("listPending") /\ t \in op[Boot].reply
    \/ (BootAt("kill") \/ BootAt("failPending")) /\ t \in op[Boot].todo
    \/ (BootAt("kill") \/ (BootAt("failPending") /\ ~BootHas("failPending"))) /\ BootNamed(t)

\* ... and those that may be ready without a session.
MayLackSession(t) ==
    \/ BootAt("down") \/ BootAt("listPending") \/ BootAt("kill") \/ BootAt("failPending")
    \/ BootAt("listReady") /\ (~BootHas("listReady") \/ t \in op[Boot].reply)
    \/ (BootAt("has") \/ BootAt("failReady")) /\ t \in op[Boot].todo
    \/ BootAt("has") /\ ~(BootHas("has") /\ op[Boot].reply # {}) /\ BootNamed(t)
    \/ BootAt("failReady") /\ ~BootHas("failReady") /\ BootNamed(t)

\* Tabs of which a start kills the session.
Condemned(t) ==
    \/ BootHas("listPending") /\ t \in op[Boot].reply
    \/ (BootAt("kill") \/ BootAt("failPending")) /\ (t \in op[Boot].todo \/ BootNamed(t))

\* A start leaves neither pending rows nor ready rows without session behind it, and
\* takes no session from a ready row.
RowIsSound(t) ==
    /\ row[t] = "pending" => MayBePending(t)
    /\ row[t] = "ready" => t \in tmux \/ MayLackSession(t)
    /\ Condemned(t) => row[t] # "ready"

Reconciling == ~Started => \A t \in Tabs : RowIsSound(t)

\* The commands a start may have given up are its own.
StartGivesUp ==
    ~Started =>
        \A call \in late :
            /\ call[1] \in BootSteps
            /\ call[1] = "kill" => row[call[2]] # "ready"

\* A storage command is given up by a storage call that failed.
LateIsFault == faults.storage = 0 => \A call \in late : call[1] \in TerminalSteps

Inv == TypeOK /\ Named /\ Shape /\ Reconciling /\ StartGivesUp /\ LateIsFault /\ PendingIsOwned

-----------------------------------------------------------------------------
(* What the operators the actions are built from do *)

\* Names of callers and steps differ where the actions tell them apart.
LEMMA CallersAreAll == Boot \in All /\ Boot \notin Callers /\ Callers \subseteq All /\ NoTab \notin Tabs
BY TabNames DEF All

\* Send changes the caller's own entry only.
LEMMA SendIs ==
  ASSUME TypeOK, NEW c \in All, NEW step \in Commands, NEW t \in Tabs \cup {NoTab},
         NEW todo \in SUBSET Tabs, Send(c, step, t, todo)
  PROVE  /\ op' \in [All -> Op]
         /\ op'[c] = [kind |-> op[c].kind, tab |-> t, step |-> step, todo |-> todo,
                      call |-> "sent", reply |-> {}]
         /\ \A d \in All : d # c => op'[d] = op[d]
BY DEF TypeOK, Op, Send, Commands, Steps

\* So does the end of a request.
LEMMA EndsIs ==
  ASSUME TypeOK, NEW c \in All, Ends(c)
  PROVE  /\ op' \in [All -> Op]
         /\ op'[c] = Idle
         /\ \A d \in All : d # c => op'[d] = op[d]
BY DEF TypeOK, Op, Ends, Idle, At, Kinds, Steps

\* A command keeps the types of what it changes.
LEMMA DoesTypes ==
  ASSUME TypeOK, NEW cmd \in Commands, NEW t \in Tabs \cup {NoTab}, NEW ok \in BOOLEAN,
         NEW reply \in SUBSET Tabs, cmd \in NeedsTab => t \in Tabs, Does(cmd, t, ok, reply)
  PROVE  /\ row' \in [Tabs -> {"none", "pending", "ready", "failed"}]
         /\ workspace' \in BOOLEAN
         /\ tmux' \subseteq Tabs
         /\ known' \subseteq Tabs
<1>1. CASE cmd \in {"createPending", "finalize", "failPending", "failReady", "delete"}
  BY <1>1 DEF TypeOK, Commands, NeedsTab, StorageSteps, TerminalSteps, Does,
              CreatesPending, Finalizes, FailsRow, DeletesTab, SetRow
<1>2. CASE cmd \in {"ensure", "deleteWorkspace", "listPending", "listReady"}
  BY <1>2 DEF TypeOK, Does, EnsuresPane, DeletesWorkspace, Lists, store
<1>3. CASE cmd \in TerminalSteps
  BY <1>3 DEF TypeOK, Commands, NeedsTab, TerminalSteps, StorageSteps, Does,
              CreatesSession, KillsSession, LooksForSession, store
<1>. QED  BY <1>1, <1>2, <1>3 DEF Commands, StorageSteps

\* What a command makes of a row and of a session.
LEMMA DoesRows ==
  ASSUME TypeOK, NEW cmd \in Commands, NEW t \in Tabs \cup {NoTab}, NEW ok \in BOOLEAN,
         NEW reply \in SUBSET Tabs, cmd \in NeedsTab => t \in Tabs, Does(cmd, t, ok, reply)
  PROVE  /\ \A u \in Tabs : row'[u] = "pending" =>
                row[u] = "pending" \/ (cmd = "createPending" /\ u = t /\ ok)
         /\ \A u \in Tabs : row'[u] = "ready" => row[u] = "ready" \/ cmd = "finalize"
         /\ cmd \in {"finalize", "failPending"} => row'[t] # "pending"
         /\ cmd = "failReady" => row'[t] # "ready"
         /\ cmd \in TerminalSteps => row' = row
         /\ \A u \in tmux : u \in tmux' \/ (cmd \in {"kill", "undo"} /\ u = t)
         /\ cmd = "listPending" => reply = {u \in Tabs : row'[u] = "pending"}
         /\ cmd = "listReady" => reply = {u \in Tabs : row'[u] = "ready"}
         /\ cmd = "has" => reply = {t} \cap tmux'
BY DEF TypeOK, Commands, NeedsTab, StorageSteps, TerminalSteps, Does, EnsuresPane,
       CreatesPending, Finalizes, FailsRow, DeletesTab, DeletesWorkspace, Lists,
       CreatesSession, KillsSession, LooksForSession, SetRow, store

-----------------------------------------------------------------------------
(* The steps of requests *)

\* What every step of a request c does to op: it waits for a command of its kind or
\* ends, and goes on settling what it was settling.
Moves(c) ==
    /\ op' \in [All -> Op]
    /\ \A d \in All : d # c => op'[d] = op[d]
    /\ op'[c] = Idle \/ Fits(op'[c].kind, op'[c].step)
    /\ op'[c].step \in NeedsTab => op'[c].tab \in Tabs
    /\ Settling(c) => Settling(c)' /\ op'[c].tab = op[c].tab

\* One case for each continuation.
LEMMA RequestMoves ==
  ASSUME Inv, NEW c \in Callers, RequestContinues(c)
  PROVE  Moves(c) /\ Started
<1>. USE CallersAreAll
<1>0. /\ c \in All /\ op[c] \in Op /\ TypeOK
      /\ op[c].step \in NeedsTab => op[c].tab \in Tabs
      /\ op[c] = Idle \/ (Started /\ Fits(op[c].kind, op[c].step))
  BY DEF Inv, TypeOK, Named, Shape
<1>1. op[c] # Idle /\ op[c].kind \notin {"none", "start"}
  BY <1>0 DEF RequestContinues, PaneEnsured, OldRowDeleted, OldSessionKilled, IntentRecorded,
              SessionCreated, CreationFailed, SessionUndone, CreationEnds, TabDeleted,
              DeletionEnds, WorkspaceDeleted, WorkspaceSessionKilled, WorkspaceDeletionFails,
              Creation, Idle, At
<1>2. Started
  BY <1>0, <1>1
<1>3. CASE Ends(c) /\ ~Settling(c)
  <2>1. /\ op' \in [All -> Op] /\ op'[c] = Idle
        /\ \A d \in All : d # c => op'[d] = op[d]
    BY <1>0, <1>3, EndsIs
  <2>2. op'[c].step \notin NeedsTab
    BY <2>1 DEF Idle, At, NeedsTab, Commands, StorageSteps, TerminalSteps
  <2>. QED  BY <1>2, <1>3, <2>1, <2>2 DEF Moves
<1>4. ASSUME NEW step \in Commands, NEW t \in Tabs, NEW todo \in SUBSET Tabs,
             Send(c, step, t, todo), Fits(op[c].kind, step),
             Settling(c) => t = op[c].tab /\ step \in {"create", "undo", "finalize", "failPending"}
      PROVE  Moves(c)
  <2>1. /\ op' \in [All -> Op]
        /\ op'[c] = [kind |-> op[c].kind, tab |-> t, step |-> step, todo |-> todo,
                     call |-> "sent", reply |-> {}]
        /\ \A d \in All : d # c => op'[d] = op[d]
    BY <1>0, <1>4, SendIs
  <2>2. Settling(c) => Settling(c)'
    BY <1>4, <2>1 DEF Settling, Creation
  <2>. QED  BY <1>4, <2>1, <2>2 DEF Moves
<1>. USE DEF Creation, Succeeded, Failed, Answered
<1>b. \A step \in {"ensure", "delete", "kill", "createPending", "create", "finalize", "undo",
                   "failPending"} : step \in NeedsTab /\ step \in Commands
  BY DEF NeedsTab, Commands, StorageSteps, TerminalSteps
<1>5. CASE PaneEnsured(c)
  <2>1. op[c].tab \in Tabs /\ ~Settling(c)
    BY <1>0, <1>5, <1>b DEF PaneEnsured, Settling
  <2>2. PICK step \in {"createPending", "delete"} :
             Send(c, step, op[c].tab, {}) /\ Fits(op[c].kind, step)
    BY <1>5 DEF PaneEnsured, Fits
  <2>. QED  BY <1>2, <1>4, <1>b, <2>1, <2>2
<1>6. CASE OldRowDeleted(c) \/ OldSessionKilled(c)
  <2>1. op[c].tab \in Tabs /\ ~Settling(c)
    BY <1>0, <1>6, <1>b DEF OldRowDeleted, OldSessionKilled, Settling
  <2>2. PICK step \in {"kill", "createPending"} :
             Send(c, step, op[c].tab, {}) /\ Fits(op[c].kind, step)
    BY <1>6 DEF OldRowDeleted, OldSessionKilled, Fits
  <2>. QED  BY <1>2, <1>4, <1>b, <2>1, <2>2
<1>7. CASE IntentRecorded(c) \/ SessionCreated(c) \/ CreationFailed(c) \/ SessionUndone(c)
  <2>1. op[c].tab \in Tabs
    BY <1>0, <1>7, <1>b DEF IntentRecorded, SessionCreated, CreationFailed, SessionUndone
  <2>2. PICK step \in {"create", "undo", "finalize", "failPending"} :
             Send(c, step, op[c].tab, {}) /\ Fits(op[c].kind, step)
    BY <1>7 DEF IntentRecorded, SessionCreated, CreationFailed, SessionUndone, Fits
  <2>. QED  BY <1>2, <1>4, <1>b, <2>1, <2>2
<1>9. CASE CreationEnds(c)
  BY <1>3, <1>9 DEF CreationEnds, Settling
<1>10. CASE TabDeleted(c) \/ DeletionEnds(c)
  <2>1. ~Settling(c)
    BY <1>10 DEF TabDeleted, DeletionEnds, Settling, Creation
  <2>2. CASE Ends(c)
    BY <1>3, <2>1, <2>2
  <2>3. CASE ~Ends(c)
    <3>1. op[c].tab \in Tabs /\ Send(c, "kill", op[c].tab, {}) /\ Fits(op[c].kind, "kill")
      BY <1>0, <1>10, <1>b, <2>3 DEF TabDeleted, DeletionEnds, Fits
    <3>. QED  BY <1>2, <1>4, <1>b, <2>1, <3>1
  <2>. QED  BY <2>2, <2>3
<1>11. CASE WorkspaceDeleted(c) \/ WorkspaceSessionKilled(c) \/ WorkspaceDeletionFails(c)
  <2>1. ~Settling(c) /\ op[c].kind = "deleteWorkspace"
    BY <1>11 DEF WorkspaceDeleted, WorkspaceSessionKilled, WorkspaceDeletionFails, Settling, Creation
  <2>2. CASE Ends(c)
    BY <1>3, <2>1, <2>2
  <2>3. CASE ~Ends(c)
    <3>1. PICK t \in Tabs, todo \in SUBSET Tabs : Send(c, "kill", t, todo)
      <4>1. op[c].reply \subseteq Tabs /\ op[c].todo \subseteq Tabs
        BY <1>0 DEF Op
      <4>2. \E sessions \in SUBSET Tabs : KillNext(c, sessions)
        BY <1>11, <2>3, <4>1 DEF WorkspaceDeleted, WorkspaceSessionKilled, WorkspaceDeletionFails
      <4>. QED  BY <2>3, <4>2 DEF KillNext
    <3>2. Fits(op[c].kind, "kill")
      BY <2>1 DEF Fits
    <3>. QED  BY <1>2, <1>4, <1>b, <2>1, <3>1, <3>2
  <2>. QED  BY <2>2, <2>3
<1>. QED  BY <1>2, <1>5, <1>6, <1>7, <1>9, <1>10, <1>11 DEF RequestContinues

\* A request that begins waits for the first command of its kind.
LEMMA BeginMoves ==
  ASSUME Inv, NEW c \in Callers, NEW kind \in Kinds, NEW step \in Commands,
         NEW t \in Tabs \cup {NoTab}, Begin(c, kind, step, t), Fits(kind, step),
         step \in NeedsTab => t \in Tabs
  PROVE  Moves(c) /\ Started
<1>1. c \in All /\ op \in [All -> Op] /\ op[c] = Idle /\ Started
  BY CallersAreAll DEF Inv, TypeOK, Begin
<1>2. /\ op' \in [All -> Op]
      /\ op'[c] = [kind |-> kind, tab |-> t, step |-> step, todo |-> {}, call |-> "sent", reply |-> {}]
      /\ \A d \in All : d # c => op'[d] = op[d]
  BY <1>1 DEF Begin, At, Op, Steps, Commands
<1>3. ~Settling(c)
  BY <1>1 DEF Settling, Creation, Idle, At
<1>. QED  BY <1>1, <1>2, <1>3 DEF Moves

\* Such a step keeps the invariant when it changes nothing else.
LEMMA MovesKeepInv ==
  ASSUME Inv, NEW c \in Callers, Moves(c), Started, UNCHANGED <<store, tmux, late, faults>>,
         made' \subseteq Tabs, disturbed' \subseteq Tabs
  PROVE  Inv'
<1>. USE CallersAreAll
<1>0. /\ TypeOK /\ Named /\ Shape /\ Reconciling /\ LateIsFault /\ PendingIsOwned
      /\ c \in All /\ c # Boot /\ op'[Boot] = op[Boot] /\ Started'
  BY DEF Inv, Moves, Started
<1>1. TypeOK'
  BY <1>0 DEF TypeOK, Moves, store
<1>2. Named'
  BY <1>0 DEF Named, Moves
<1>3. Shape'
  BY <1>0 DEF Shape, Moves
<1>4. Reconciling' /\ StartGivesUp'
  BY <1>0 DEF Reconciling, StartGivesUp
<1>5. LateIsFault'
  BY <1>0 DEF LateIsFault
<1>6. PendingIsOwned'
  <2>. SUFFICES ASSUME faults.storage = 0, NEW t \in Tabs, row[t] = "pending"
                PROVE  \E d \in Callers : op'[d].tab = t /\ Settling(d)'
    BY <1>0 DEF PendingIsOwned, store
  <2>1. PICK d \in Callers : op[d].tab = t /\ Settling(d)
    BY <1>0 DEF PendingIsOwned
  <2>2. CASE d = c
    BY <2>1, <2>2 DEF Moves
  <2>3. CASE d # c
    <3>1. op'[d] = op[d] /\ op'[d].tab = t
      BY <2>1, <2>3 DEF Moves
    <3>2. Settling(d)'
      BY <2>1, <3>1 DEF Settling, Creation
    <3>. QED  BY <3>1, <3>2
  <2>. QED  BY <2>2, <2>3
<1>. QED  BY <1>1, <1>2, <1>3, <1>4, <1>5, <1>6 DEF Inv

\* Beginnings and continuations of requests.
LEMMA RequestsKeepInv ==
  ASSUME Inv, NEW c \in Callers, NEW t,
         \/ t \in Tabs /\ (BeginCreate(c, t) \/ BeginRestart(c, t) \/ BeginDelete(c, t))
         \/ BeginDeleteWorkspace(c) \/ Continue(c)
  PROVE  Inv'
<1>. USE CallersAreAll
<1>0. TypeOK
  BY DEF Inv
<1>1. CASE t \in Tabs /\ BeginCreate(c, t)
  <2>1. PICK step \in {"ensure", "createPending"} : Begin(c, "create", step, t)
    BY <1>1 DEF BeginCreate
  <2>2. "create" \in Kinds /\ step \in Commands /\ Fits("create", step)
    BY DEF Kinds, Commands, StorageSteps, Fits
  <2>3. Moves(c) /\ Started
    BY <1>1, <2>1, <2>2, BeginMoves
  <2>. QED  BY <1>0, <1>1, <2>3, MovesKeepInv DEF BeginCreate, TypeOK
<1>2. CASE t \in Tabs /\ BeginRestart(c, t)
  <2>1. PICK step \in {"ensure", "delete"} : Begin(c, "restart", step, t)
    BY <1>2 DEF BeginRestart
  <2>2. "restart" \in Kinds /\ step \in Commands /\ Fits("restart", step)
    BY DEF Kinds, Commands, StorageSteps, Fits
  <2>3. Moves(c) /\ Started
    BY <1>2, <2>1, <2>2, BeginMoves
  <2>. QED  BY <1>0, <1>2, <2>3, MovesKeepInv DEF BeginRestart, TypeOK
<1>3. CASE t \in Tabs /\ BeginDelete(c, t)
  <2>1. "delete" \in Kinds /\ "delete" \in Commands /\ Fits("delete", "delete")
    BY DEF Kinds, Commands, StorageSteps, Fits
  <2>2. Moves(c) /\ Started
    BY <1>3, <2>1, BeginMoves DEF BeginDelete
  <2>. QED  BY <1>0, <1>3, <2>2, MovesKeepInv DEF BeginDelete, TypeOK
<1>4. CASE BeginDeleteWorkspace(c)
  <2>1. /\ "deleteWorkspace" \in Kinds /\ "deleteWorkspace" \in Commands \ NeedsTab
        /\ Fits("deleteWorkspace", "deleteWorkspace")
    BY DEF Kinds, Commands, NeedsTab, StorageSteps, Fits
  <2>2. Moves(c) /\ Started
    BY <1>4, <2>1, BeginMoves DEF BeginDeleteWorkspace
  <2>. QED  BY <1>0, <1>4, <2>2, MovesKeepInv DEF BeginDeleteWorkspace, TypeOK
<1>5. CASE Continue(c)
  <2>1. Moves(c) /\ Started
    BY <1>5, RequestMoves DEF Continue
  <2>. QED  BY <1>0, <1>5, <2>1, MovesKeepInv DEF Continue, TypeOK
<1>. QED  BY <1>1, <1>2, <1>3, <1>4, <1>5

-----------------------------------------------------------------------------
(* The workers and their failures *)

\* Who waits for an answer waits for a command: a request of a Supervisor that is up,
\* or its start.
LEMMA Waiting ==
  ASSUME Inv, NEW c \in All, op[c].call = "sent"
  PROVE  /\ op[c].step \in Commands /\ op[c].tab \in Tabs \cup {NoTab}
         /\ op[c].step \in NeedsTab => op[c].tab \in Tabs
         /\ op[c] # Idle
         /\ c \in Callers => Started /\ Fits(op[c].kind, op[c].step)
         /\ c = Boot => ~Started /\ op[c].kind = "start" /\ op[c].step \in BootSteps
<1>1. op[c] \in Op /\ Named /\ Shape
  BY DEF Inv, TypeOK
<1>2. op[c] # Idle /\ op[c] # Up /\ op[c] # Down
  BY DEF Idle, Up, Down, At
<1>3. c \in Callers => Started /\ Fits(op[c].kind, op[c].step)
  BY <1>1, <1>2 DEF Shape
<1>4. c = Boot => ~Started /\ op[c].kind = "start" /\ op[c].step \in BootSteps
  BY <1>1, <1>2 DEF Shape, Started
<1>5. op[c].step \in Commands
  BY <1>3, <1>4 DEF All, Fits, BootSteps, Commands, StorageSteps, TerminalSteps
<1>. QED  BY <1>1, <1>2, <1>3, <1>4, <1>5 DEF Named, Op

\* An answer, or the news of a failure, changes call and reply of the caller's entry.
Hears(c, answer, reply) ==
    /\ op' \in [All -> Op]
    /\ \A d \in All : d # c => op'[d] = op[d]
    /\ op'[c] = [kind |-> op[c].kind, tab |-> op[c].tab, step |-> op[c].step,
                 todo |-> op[c].todo, call |-> answer, reply |-> reply]

\* Both kinds of news have this form.
LEMMA HearsIs ==
  ASSUME TypeOK, NEW c \in All, NEW answer \in {"ok", "error"}, NEW reply \in SUBSET Tabs,
         \/ op' = [op EXCEPT ![c].call = answer, ![c].reply = reply]
         \/ op' = [op EXCEPT ![c].call = answer] /\ reply = op[c].reply
  PROVE  Hears(c, answer, reply)
<1>1. op \in [All -> Op] /\ op[c] \in Op
  BY DEF TypeOK
<1>2. /\ op' = [op EXCEPT ![c] = op'[c]]
      /\ op'[c] = [kind |-> op[c].kind, tab |-> op[c].tab, step |-> op[c].step,
                   todo |-> op[c].todo, call |-> answer, reply |-> reply]
  BY <1>1 DEF Op
<1>3. op'[c] \in Op
  BY <1>1, <1>2 DEF Op
<1>. QED  BY <1>1, <1>2, <1>3 DEF Hears

\* Nobody starts, ends or turns to another tab by hearing one.
LEMMA HearsShape ==
  ASSUME Inv, NEW c \in All, op[c].call = "sent", NEW answer \in {"ok", "error"},
         NEW reply \in SUBSET Tabs, Hears(c, answer, reply)
  PROVE  Shape' /\ (Started' <=> Started) /\ \A d \in All : op'[d].step \in NeedsTab => op'[d].tab \in Tabs
<1>1. Started' <=> Started
  <2>1. CASE c = Boot
    <3>1. ~Started
      BY <2>1, Waiting
    <3>2. op'[Boot].call # Up.call
      BY <2>1 DEF Hears, Up, At
    <3>. QED  BY <3>1, <3>2 DEF Started
  <2>2. CASE c # Boot
    BY <2>2, CallersAreAll DEF Started, Hears
  <2>. QED  BY <2>1, <2>2
<1>2. Shape'
  BY <1>1, Waiting, CallersAreAll DEF Inv, Shape, Hears, All
<1>3. \A d \in All : op'[d].step \in NeedsTab => op'[d].tab \in Tabs
  BY DEF Inv, Named, Hears
<1>. QED  BY <1>1, <1>2, <1>3

\* The answer to a command that was carried out.
LEMMA WorkerKeepsInv ==
  ASSUME Inv, NEW c \in All, WorkerPerforms(c)
  PROVE  Inv'
<1>. USE CallersAreAll
<1>0. /\ TypeOK /\ Named /\ Shape /\ Reconciling /\ StartGivesUp /\ LateIsFault /\ PendingIsOwned
      /\ op[c].call = "sent" /\ UNCHANGED <<late, made, faults, disturbed>>
  BY DEF Inv, WorkerPerforms
<1>. DEFINE cmd == op[c].step
            t == op[c].tab
<1>1. PICK ok \in BOOLEAN, reply \in SUBSET Tabs :
          /\ Does(cmd, t, ok, reply)
          /\ op' = [op EXCEPT ![c].call = IF ok THEN "ok" ELSE "error", ![c].reply = reply]
  BY DEF WorkerPerforms
<1>. DEFINE answer == IF ok THEN "ok" ELSE "error"
<1>2. Hears(c, answer, reply)
  BY <1>0, <1>1, HearsIs
<1>3. /\ cmd \in Commands /\ t \in Tabs \cup {NoTab} /\ (cmd \in NeedsTab => t \in Tabs)
      /\ c \in Callers => Started /\ Fits(op[c].kind, cmd)
      /\ c = Boot => ~Started /\ cmd \in BootSteps
  BY <1>0, Waiting
<1>4. /\ row' \in [Tabs -> {"none", "pending", "ready", "failed"}]
      /\ workspace' \in BOOLEAN
      /\ tmux' \subseteq Tabs
      /\ known' \subseteq Tabs
  BY <1>0, <1>1, <1>3, DoesTypes
<1>5. /\ \A u \in Tabs : row'[u] = "pending" =>
             row[u] = "pending" \/ (cmd = "createPending" /\ u = t /\ ok)
      /\ \A u \in Tabs : row'[u] = "ready" => row[u] = "ready" \/ cmd = "finalize"
      /\ cmd \in {"finalize", "failPending"} => row'[t] # "pending"
      /\ cmd = "failReady" => row'[t] # "ready"
      /\ cmd \in TerminalSteps => row' = row
      /\ \A u \in tmux : u \in tmux' \/ (cmd \in {"kill", "undo"} /\ u = t)
      /\ cmd = "listPending" => reply = {u \in Tabs : row'[u] = "pending"}
      /\ cmd = "listReady" => reply = {u \in Tabs : row'[u] = "ready"}
      /\ cmd = "has" => reply = {t} \cap tmux'
  BY <1>0, <1>1, <1>3, DoesRows
<1>6. Shape' /\ (Started' <=> Started) /\ \A d \in All : op'[d].step \in NeedsTab => op'[d].tab \in Tabs
  BY <1>0, <1>2, HearsShape
<1>7. TypeOK'
  BY <1>0, <1>2, <1>4 DEF TypeOK, Hears
<1>8. Named' /\ LateIsFault'
  BY <1>0, <1>6 DEF Named, LateIsFault
<1>. HIDE DEF cmd, t, answer
<1>9. Reconciling' /\ StartGivesUp'
  <2>. SUFFICES ASSUME ~Started PROVE Reconciling' /\ StartGivesUp'
    BY <1>6 DEF Reconciling, StartGivesUp
  <2>1. c = Boot /\ cmd \in BootSteps
    BY <1>3 DEF All
  <2>2. /\ op'[Boot] = [kind |-> op[Boot].kind, tab |-> t, step |-> cmd,
                         todo |-> op[Boot].todo, call |-> answer, reply |-> reply]
        /\ op[Boot].step = cmd /\ op[Boot].tab = t /\ op[Boot].call = "sent"
        /\ answer \in {"ok", "error"}
    BY <1>0, <1>2, <2>1 DEF Hears, cmd, t, answer
  <2>3. /\ \A u \in Tabs : row'[u] = "pending" => row[u] = "pending"
        /\ \A u \in Tabs : row'[u] = "ready" => row[u] = "ready"
    BY <1>5, <2>1 DEF BootSteps
  <2>4. ASSUME NEW u \in Tabs
        PROVE  RowIsSound(u)'
    <3>1. /\ row[u] = "pending" => MayBePending(u)
          /\ row[u] = "ready" => u \in tmux \/ MayLackSession(u)
          /\ Condemned(u) => row[u] # "ready"
      BY <1>0 DEF Reconciling, RowIsSound
    <3>2. row'[u] = "pending" => MayBePending(u)'
      BY <1>5, <2>2, <2>3, <3>1 DEF MayBePending, BootAt, BootHas, BootNamed, Succeeded
    <3>3. row'[u] = "ready" => u \in tmux' \/ MayLackSession(u)'
      BY <1>5, <2>1, <2>2, <2>3, <3>1 DEF MayLackSession, Condemned, BootAt, BootHas, BootNamed,
                                          Succeeded, BootSteps
    <3>4. Condemned(u)' => row'[u] # "ready"
      BY <1>5, <2>2, <2>3, <3>1 DEF Condemned, BootAt, BootHas, BootNamed, Succeeded
    <3>. QED  BY <3>2, <3>3, <3>4 DEF RowIsSound
  <2>5. Reconciling'
    BY <2>4 DEF Reconciling
  <2>6. StartGivesUp'
    <3>1. \A call \in late : call[1] = "kill" => call[2] \in Tabs
      BY <1>0 DEF Named, NeedsTab, Commands, TerminalSteps
    <3>. QED  BY <1>0, <2>3, <3>1 DEF StartGivesUp
  <2>. QED  BY <2>5, <2>6
<1>10. PendingIsOwned'
  <2>. SUFFICES ASSUME Started, faults.storage = 0, NEW u \in Tabs, row'[u] = "pending"
                PROVE  \E d \in Callers : op'[d].tab = u /\ Settling(d)'
    BY <1>0, <1>6 DEF PendingIsOwned
  <2>1. c \in Callers /\ Fits(op[c].kind, cmd)
    BY <1>3 DEF All
  <2>2. /\ op'[c] = [kind |-> op[c].kind, tab |-> t, step |-> cmd,
                      todo |-> op[c].todo, call |-> answer, reply |-> reply]
        /\ op[c].step = cmd /\ op[c].tab = t /\ op[c].call = "sent"
        /\ answer = IF ok THEN "ok" ELSE "error"
    BY <1>0, <1>2 DEF Hears, cmd, t, answer
  <2>3. CASE cmd = "createPending" /\ u = t /\ ok
    BY <2>1, <2>2, <2>3 DEF Settling, Creation, Fits
  <2>4. CASE row[u] = "pending"
    <3>1. PICK d \in Callers : op[d].tab = u /\ Settling(d)
      BY <1>0, <2>4 DEF PendingIsOwned
    <3>2. CASE d # c
      <4>1. op'[d] = op[d]
        BY <1>2, <3>2 DEF Hears
      <4>. QED  BY <3>1, <4>1 DEF Settling, Creation
    <3>3. CASE d = c
      <4>1. cmd \notin {"finalize", "failPending"}
        BY <1>5, <2>2, <3>1, <3>3
      <4>. QED  BY <2>2, <3>1, <3>3, <4>1 DEF Settling, Creation
    <3>. QED  BY <3>2, <3>3
  <2>. QED  BY <1>5, <2>3, <2>4
<1>. QED  BY <1>7, <1>8, <1>6, <1>9, <1>10 DEF Inv

\* A failure of a call that may still be carried out.
LEMMA FailureKeepsInv ==
  ASSUME Inv, NEW c \in All, CallFails(c)
  PROVE  Inv'
<1>. USE CallersAreAll
<1>0. /\ TypeOK /\ Named /\ Shape /\ Reconciling /\ StartGivesUp /\ LateIsFault /\ PendingIsOwned
      /\ op[c].call = "sent" /\ UNCHANGED <<store, tmux, made>>
      /\ op[c] \in Op
  BY DEF Inv, CallFails, TypeOK
<1>1. PICK answer \in {"ok", "error"} :
          /\ op[c].step \in {"kill", "undo"} \/ answer = "error"
          /\ op' = [op EXCEPT ![c].call = answer]
  BY DEF CallFails, Excuses
<1>2. Hears(c, answer, op[c].reply)
  BY <1>0, <1>1, HearsIs DEF Op
<1>3. /\ op[c].step \in Commands /\ op[c].tab \in Tabs \cup {NoTab}
      /\ op[c].step \in NeedsTab => op[c].tab \in Tabs
      /\ c \in Callers => Started /\ Fits(op[c].kind, op[c].step)
      /\ c = Boot => ~Started /\ op[c].step \in BootSteps
  BY <1>0, Waiting
<1>4. late' = late \cup {<<op[c].step, op[c].tab>>}
  BY DEF CallFails
<1>5. /\ faults' \in [terminal : 0..MaxFailures, storage : 0..MaxFailures, crash : 0..MaxCrashes]
      /\ faults'.storage = 0 => faults.storage = 0 /\ op[c].step \in TerminalSteps
  BY <1>0, <1>3, FaultBounds DEF CallFails, TypeOK, Commands
<1>6. TypeOK'
  <2>1. disturbed' \subseteq Tabs
    BY <1>0, <1>3 DEF CallFails, TypeOK
  <2>. QED  BY <1>0, <1>2, <1>3, <1>4, <1>5, <2>1 DEF TypeOK, Hears, store, Commands
<1>7. Shape' /\ (Started' <=> Started) /\ \A d \in All : op'[d].step \in NeedsTab => op'[d].tab \in Tabs
  BY <1>0, <1>2, HearsShape DEF Op
<1>8. Named' /\ LateIsFault'
  BY <1>0, <1>3, <1>4, <1>5, <1>7 DEF Named, LateIsFault
<1>9. Reconciling' /\ StartGivesUp'
  <2>. SUFFICES ASSUME ~Started PROVE Reconciling' /\ StartGivesUp'
    BY <1>7 DEF Reconciling, StartGivesUp
  <2>1. c = Boot /\ op[Boot].step \in BootSteps
    BY <1>3 DEF All
  <2>2. /\ op'[Boot].step = op[Boot].step /\ op'[Boot].tab = op[Boot].tab
        /\ op'[Boot].todo = op[Boot].todo /\ op'[Boot].call = answer
        /\ op[Boot].call = "sent" /\ (op[Boot].step # "kill" => answer = "error")
    BY <1>0, <1>1, <1>2, <2>1 DEF Hears, BootSteps
  <2>3. \A u \in Tabs : RowIsSound(u)'
    BY <1>0, <2>1, <2>2 DEF Reconciling, RowIsSound, MayBePending, MayLackSession, Condemned,
                            BootAt, BootHas, BootNamed, Succeeded, BootSteps, store
  <2>4. op[c].step = "kill" => row[op[c].tab] # "ready"
    <3>. SUFFICES ASSUME op[c].step = "kill" PROVE row[op[c].tab] # "ready"
      OBVIOUS
    <3>1. op[c].tab \in Tabs /\ Condemned(op[c].tab)
      BY <1>3, <2>1 DEF Condemned, BootAt, BootNamed, NeedsTab, Commands, TerminalSteps
    <3>. QED  BY <1>0, <3>1 DEF Reconciling, RowIsSound
  <2>. QED  BY <1>0, <1>4, <2>1, <2>3, <2>4 DEF Reconciling, StartGivesUp, store
<1>10. PendingIsOwned'
  <2>. SUFFICES ASSUME Started, faults'.storage = 0, NEW u \in Tabs, row[u] = "pending"
                PROVE  \E d \in Callers : op'[d].tab = u /\ Settling(d)'
    BY <1>0, <1>7 DEF PendingIsOwned, store
  <2>1. PICK d \in Callers : op[d].tab = u /\ Settling(d)
    BY <1>0, <1>5 DEF PendingIsOwned
  <2>2. op[c].step \in TerminalSteps
    BY <1>5
  <2>. QED  BY <1>2, <2>1, <2>2 DEF Hears, Settling, Creation, TerminalSteps
<1>. QED  BY <1>6, <1>7, <1>8, <1>9, <1>10 DEF Inv

\* A given up command that is carried out.
LEMMA LateKeepsInv ==
  ASSUME Inv, NEW call \in late, LatePerformed(call)
  PROVE  Inv'
<1>0. /\ TypeOK /\ Named /\ Shape /\ Reconciling /\ StartGivesUp /\ LateIsFault /\ PendingIsOwned
      /\ UNCHANGED <<op, made, faults, disturbed>> /\ late' \subseteq late
  BY DEF Inv, LatePerformed
<1>1. /\ call[1] \in Commands /\ call[2] \in Tabs \cup {NoTab}
      /\ call[1] \in NeedsTab => call[2] \in Tabs
  BY <1>0 DEF TypeOK, Named, Commands
<1>2. PICK ok \in BOOLEAN, reply \in SUBSET Tabs : Does(call[1], call[2], ok, reply)
  BY DEF LatePerformed
<1>3. /\ row' \in [Tabs -> {"none", "pending", "ready", "failed"}]
      /\ workspace' \in BOOLEAN
      /\ tmux' \subseteq Tabs
      /\ known' \subseteq Tabs
  BY <1>0, <1>1, <1>2, DoesTypes
<1>4. /\ \A u \in Tabs : row'[u] = "pending" => row[u] = "pending" \/ call[1] = "createPending"
      /\ \A u \in Tabs : row'[u] = "ready" => row[u] = "ready" \/ call[1] = "finalize"
      /\ call[1] \in TerminalSteps => row' = row
      /\ \A u \in tmux : u \in tmux' \/ (call[1] \in {"kill", "undo"} /\ u = call[2])
  BY <1>0, <1>1, <1>2, DoesRows
<1>5. TypeOK' /\ Named' /\ Shape' /\ LateIsFault' /\ (Started' <=> Started)
  BY <1>0, <1>3 DEF TypeOK, Named, Shape, LateIsFault, Started
<1>6. Reconciling' /\ StartGivesUp'
  <2>. SUFFICES ASSUME ~Started PROVE Reconciling' /\ StartGivesUp'
    BY <1>5 DEF Reconciling, StartGivesUp
  <2>1. call[1] \in BootSteps /\ (call[1] = "kill" => row[call[2]] # "ready")
    BY <1>0 DEF StartGivesUp
  <2>2. \A u \in Tabs : RowIsSound(u)'
    BY <1>0, <1>4, <2>1 DEF Reconciling, RowIsSound, MayBePending, MayLackSession, Condemned,
                            BootAt, BootHas, BootNamed, Succeeded, BootSteps
  <2>3. \A other \in late : other[1] = "kill" => other[2] \in Tabs
    BY <1>0 DEF Named, NeedsTab, Commands, TerminalSteps
  <2>. QED  BY <1>0, <1>4, <2>1, <2>2, <2>3 DEF Reconciling, StartGivesUp, BootSteps
<1>7. PendingIsOwned'
  <2>. SUFFICES ASSUME Started, faults.storage = 0 PROVE PendingIsOwned'
    BY <1>0, <1>5 DEF PendingIsOwned
  <2>1. row' = row
    BY <1>0, <1>4 DEF LateIsFault
  <2>. QED  BY <1>0, <2>1 DEF PendingIsOwned, Settling, Creation
<1>. QED  BY <1>5, <1>6, <1>7 DEF Inv

\* The server and its workers end.
LEMMA CrashKeepsInv ==
  ASSUME Inv, ServerDies
  PROVE  Inv'
<1>. USE CallersAreAll
<1>1. /\ TypeOK /\ late' = {} /\ UNCHANGED <<store, made, disturbed>> /\ tmux' \in {tmux, {}}
      /\ op' = [c \in All |-> IF c = Boot THEN Down ELSE Idle]
  BY DEF Inv, ServerDies
<1>2. faults' \in [terminal : 0..MaxFailures, storage : 0..MaxFailures, crash : 0..MaxCrashes]
  BY <1>1, FaultBounds DEF ServerDies, TypeOK
<1>3. /\ op'[Boot] = Down /\ \A c \in Callers : op'[c] = Idle
      /\ Down.step = "down" /\ Idle.step = "idle" /\ Down # Up
      /\ Down \in Op /\ Idle \in Op
  BY <1>1 DEF Down, Idle, Up, At, Op, Kinds, Steps
<1>4. TypeOK'
  BY <1>1, <1>2, <1>3 DEF TypeOK, store
<1>5. Named' /\ Shape' /\ StartGivesUp' /\ LateIsFault' /\ PendingIsOwned'
  BY <1>1, <1>3 DEF Named, Shape, StartGivesUp, LateIsFault, PendingIsOwned, Started, All,
                    NeedsTab, Commands, StorageSteps, TerminalSteps
<1>6. Reconciling'
  BY <1>1, <1>3 DEF Reconciling, RowIsSound, MayBePending, MayLackSession, Condemned, BootAt,
                    BootHas, BootNamed, Succeeded
<1>. QED  BY <1>4, <1>5, <1>6 DEF Inv

-----------------------------------------------------------------------------
(* The start of the Supervisor *)

\* A start that fails leaves everything to the next one.
LEMMA StartFailsKeepsInv ==
  ASSUME Inv, StartFails
  PROVE  Inv'
<1>. USE CallersAreAll
<1>0. /\ TypeOK /\ Named /\ Shape
      /\ late' = {} /\ UNCHANGED <<store, tmux, made, faults, disturbed>>
      /\ op' = [op EXCEPT ![Boot] = Down]
  BY DEF Inv, StartFails
<1>1. ~Started
  BY DEF StartFails, Started, Failed, Up, At
<1>2. /\ op' \in [All -> Op] /\ op'[Boot] = Down
      /\ \A c \in Callers : op'[c] = op[c] /\ op[c] = Idle
  <2>1. Down \in Op
    BY DEF Down, At, Op, Kinds, Steps
  <2>. QED  BY <1>0, <1>1, <2>1 DEF TypeOK, Shape
<1>3. Down.step = "down" /\ Idle.step = "idle" /\ Down # Up
  BY DEF Down, Idle, Up, At
<1>4. TypeOK'
  BY <1>0, <1>2 DEF TypeOK, store
<1>5. Named' /\ Shape' /\ StartGivesUp' /\ LateIsFault' /\ PendingIsOwned'
  BY <1>0, <1>2, <1>3 DEF Named, Shape, StartGivesUp, LateIsFault, PendingIsOwned, Started, All,
                          NeedsTab, Commands, StorageSteps, TerminalSteps
<1>6. Reconciling'
  BY <1>0, <1>2, <1>3 DEF Reconciling, RowIsSound, MayBePending, MayLackSession, Condemned,
                          BootAt, BootHas, BootNamed, Succeeded
<1>. QED  BY <1>4, <1>5, <1>6 DEF Inv

\* What a step of the start does: it waits for its next command or is up, and no row
\* it was to see to slips through.
StartMoves ==
    /\ op' \in [All -> Op]
    /\ \A c \in Callers : op'[c] = op[c]
    /\ op'[Boot] = Up \/ (op'[Boot].kind = "start" /\ op'[Boot].step \in BootSteps)
    /\ op'[Boot].step \in NeedsTab => op'[Boot].tab \in Tabs
    /\ \A u \in Tabs : RowIsSound(u)'

\* One case for each continuation of the start.
LEMMA StartProgresses ==
  ASSUME Inv, StartContinues
  PROVE  ~Started /\ StartMoves
<1>. USE CallersAreAll
<1>0. /\ TypeOK /\ Named /\ Shape /\ Reconciling /\ op[Boot] \in Op
      /\ op[Boot].todo \subseteq Tabs /\ op[Boot].reply \subseteq Tabs
      /\ op[Boot].step \in NeedsTab => op[Boot].tab \in Tabs
      /\ UNCHANGED <<row, tmux>>
  BY DEF Inv, TypeOK, Op, Named, StartContinues, store
<1>1. ~Started /\ op[Boot].kind = "start"
  <2>1. ~Started
    BY DEF StartContinues, StartBegins, PendingListed, PendingKilled, PendingFailed, ReadyListed,
           PresenceKnown, ReadyFailed, Succeeded, Failed, Answered, Started, Up, Down, At
  <2>. QED  BY <1>0, <2>1 DEF Shape, Started, Down, At
<1>2. \A u \in Tabs : RowIsSound(u)
  BY <1>0, <1>1 DEF Reconciling
<1>3. ASSUME NEW step \in BootSteps, NEW t \in Tabs \cup {NoTab}, NEW todo \in SUBSET Tabs,
             BootCall(step, t, todo)
      PROVE  /\ op' \in [All -> Op]
             /\ op'[Boot] = [kind |-> "start", tab |-> t, step |-> step, todo |-> todo,
                             call |-> "sent", reply |-> {}]
             /\ \A c \in Callers : op'[c] = op[c]
  <2>1. step \in Commands
    BY DEF BootSteps, Commands, StorageSteps, TerminalSteps
  <2>. QED  BY <1>0, <1>1, <1>3, <2>1, SendIs DEF BootCall
<1>b. {"kill", "failPending", "has", "failReady"} \subseteq NeedsTab
  BY DEF NeedsTab, Commands, StorageSteps, TerminalSteps
<1>c. "listReady" \notin NeedsTab /\ "listPending" \notin NeedsTab /\ "up" \notin NeedsTab
  BY DEF NeedsTab, Commands, StorageSteps, TerminalSteps
<1>4. ASSUME NEW step \in {"kill", "failPending", "has", "failReady"}, NEW t \in Tabs,
             NEW todo \in SUBSET Tabs, BootCall(step, t, todo),
             \A u \in Tabs : RowIsSound(u)'
      PROVE  StartMoves
  <2>1. step \in BootSteps /\ t \in Tabs \cup {NoTab}
    BY <1>4 DEF BootSteps
  <2>2. /\ op' \in [All -> Op] /\ \A c \in Callers : op'[c] = op[c]
        /\ op'[Boot] = [kind |-> "start", tab |-> t, step |-> step, todo |-> todo,
                        call |-> "sent", reply |-> {}]
    <3>1. BootCall(step, t, todo)
      BY <1>4
    <3>. QED  BY ONLY <1>3, <2>1, <3>1, todo \in SUBSET Tabs
  <2>. QED  BY <1>4, <2>1, <2>2 DEF StartMoves
<1>. USE DEF RowIsSound, MayBePending, MayLackSession, Condemned, BootAt, BootHas, BootNamed,
             Succeeded
<1>5. CASE StartBegins
  <2>1. /\ op' \in [All -> Op] /\ op[Boot] = Down
        /\ op'[Boot] = [kind |-> "start", tab |-> NoTab, step |-> "listPending", todo |-> {},
                        call |-> "sent", reply |-> {}]
        /\ \A c \in Callers : op'[c] = op[c]
    BY <1>0, <1>5 DEF StartBegins, TypeOK, At, Op, Kinds, Steps, StorageSteps
  <2>2. \A u \in Tabs : RowIsSound(u)'
    BY <1>0, <1>2, <2>1
  <2>. QED  BY <1>1, <1>c, <2>1, <2>2 DEF StartMoves, BootSteps
<1>6. CASE PendingListed \/ PendingFailed
  <2>1. PICK todo \in SUBSET Tabs :
            /\ NextPending(todo)
            /\ \A u \in Tabs : /\ row[u] = "pending" => u \in todo
                               /\ u \in todo => row[u] # "ready"
    BY <1>0, <1>2, <1>6 DEF PendingListed, PendingFailed
  <2>2. CASE todo = {}
    <3>1. BootCall("listReady", NoTab, {})
      BY <2>1, <2>2 DEF NextPending
    <3>2. /\ op' \in [All -> Op] /\ \A c \in Callers : op'[c] = op[c]
          /\ op'[Boot] = [kind |-> "start", tab |-> NoTab, step |-> "listReady", todo |-> {},
                          call |-> "sent", reply |-> {}]
      BY <1>3, <3>1 DEF BootSteps
    <3>3. \A u \in Tabs : RowIsSound(u)'
      BY <1>0, <2>1, <2>2, <3>2
    <3>. QED  BY <1>1, <1>c, <3>2, <3>3 DEF StartMoves, BootSteps
  <2>3. CASE todo # {}
    <3>1. PICK t \in todo : BootCall("kill", t, todo \ {t})
      BY <2>1, <2>3 DEF NextPending
    <3>2. op'[Boot] = [kind |-> "start", tab |-> t, step |-> "kill", todo |-> todo \ {t},
                       call |-> "sent", reply |-> {}]
      BY <1>3, <3>1 DEF BootSteps
    <3>3. \A u \in Tabs : RowIsSound(u)'
      BY <1>0, <2>1, <3>2
    <3>. QED  BY <1>1, <1>4, <3>1, <3>3
  <2>. QED  BY <2>2, <2>3
<1>7. CASE PendingKilled
  <2>1. op[Boot].step = "kill" /\ op[Boot].tab \in Tabs
    BY <1>0, <1>7, <1>b DEF PendingKilled, Answered, Failed
  <2>2. BootCall("failPending", op[Boot].tab, op[Boot].todo)
    BY <1>7 DEF PendingKilled
  <2>3. op'[Boot] = [kind |-> "start", tab |-> op[Boot].tab, step |-> "failPending",
                     todo |-> op[Boot].todo, call |-> "sent", reply |-> {}]
    BY <1>0, <1>3, <2>1, <2>2 DEF BootSteps
  <2>4. \A u \in Tabs : RowIsSound(u)'
    BY <1>0, <1>2, <2>1, <2>3
  <2>. QED  BY <1>0, <1>1, <1>4, <2>1, <2>2, <2>4
<1>8. CASE PresenceKnown /\ op[Boot].reply = {}
  <2>1. op[Boot].step = "has" /\ op[Boot].tab \in Tabs
    BY <1>0, <1>8, <1>b DEF PresenceKnown
  <2>2. BootCall("failReady", op[Boot].tab, op[Boot].todo)
    BY <1>8 DEF PresenceKnown
  <2>3. op'[Boot] = [kind |-> "start", tab |-> op[Boot].tab, step |-> "failReady",
                     todo |-> op[Boot].todo, call |-> "sent", reply |-> {}]
    BY <1>0, <1>3, <2>1, <2>2 DEF BootSteps
  <2>4. \A u \in Tabs : RowIsSound(u)'
    BY <1>0, <1>2, <2>1, <2>3
  <2>. QED  BY <1>0, <1>1, <1>4, <2>1, <2>2, <2>4
<1>9. CASE ReadyListed \/ (PresenceKnown /\ op[Boot].reply # {}) \/ ReadyFailed
  <2>1. PICK todo \in SUBSET Tabs :
            /\ NextReady(todo)
            /\ \A u \in Tabs : /\ row[u] # "pending"
                               /\ row[u] = "ready" => u \in tmux \/ u \in todo
    BY <1>0, <1>2, <1>9 DEF ReadyListed, PresenceKnown, ReadyFailed
  <2>2. CASE todo = {}
    <3>1. /\ op' \in [All -> Op] /\ op'[Boot] = Up /\ \A c \in Callers : op'[c] = op[c]
      BY <1>0, <2>1, <2>2 DEF NextReady, TypeOK, Up, At, Op, Kinds, Steps
    <3>2. Up.step = "up"
      BY DEF Up, At
    <3>3. \A u \in Tabs : RowIsSound(u)'
      BY <1>0, <2>1, <2>2, <3>1, <3>2
    <3>. QED  BY <1>1, <1>c, <3>1, <3>2, <3>3 DEF StartMoves
  <2>3. CASE todo # {}
    <3>1. PICK t \in todo : BootCall("has", t, todo \ {t})
      BY <2>1, <2>3 DEF NextReady
    <3>2. op'[Boot] = [kind |-> "start", tab |-> t, step |-> "has", todo |-> todo \ {t},
                       call |-> "sent", reply |-> {}]
      BY <1>3, <3>1 DEF BootSteps
    <3>3. \A u \in Tabs : RowIsSound(u)'
      BY <1>0, <2>1, <3>2
    <3>. QED  BY <1>1, <1>4, <3>1, <3>3
  <2>. QED  BY <2>2, <2>3
<1>. QED  BY <1>5, <1>6, <1>7, <1>8, <1>9 DEF StartContinues

\* The steps of a start that goes on keep the invariant.
LEMMA StartKeepsInv ==
  ASSUME Inv, StartContinues
  PROVE  Inv'
<1>. USE CallersAreAll
<1>0. /\ TypeOK /\ Named /\ Shape /\ StartGivesUp /\ LateIsFault
      /\ UNCHANGED <<store, tmux, late, made, faults, disturbed>>
  BY DEF Inv, StartContinues
<1>1. ~Started /\ StartMoves
  BY StartProgresses
<1>2. \A c \in Callers : op'[c] = Idle
  BY <1>0, <1>1 DEF Shape, StartMoves
<1>3. TypeOK' /\ LateIsFault'
  BY <1>0, <1>1 DEF TypeOK, LateIsFault, StartMoves, store
<1>4. Named' /\ Shape'
  BY <1>0, <1>1, <1>2 DEF Named, Shape, StartMoves, All, Idle, At, NeedsTab, Commands,
                          StorageSteps, TerminalSteps
<1>5. Reconciling' /\ StartGivesUp'
  BY <1>0, <1>1 DEF Reconciling, StartGivesUp, StartMoves, store
<1>6. PendingIsOwned'
  <2>. SUFFICES ASSUME op'[Boot] = Up, NEW u \in Tabs PROVE row'[u] # "pending"
    BY DEF PendingIsOwned, Started
  <2>. QED  BY <1>1 DEF StartMoves, RowIsSound, MayBePending, BootAt, BootHas, Succeeded, Up, At
<1>. QED  BY <1>3, <1>4, <1>5, <1>6 DEF Inv

-----------------------------------------------------------------------------
(* The theorems *)

\* Nothing is there in the beginning, and the Supervisor is down.
LEMMA InitInv == ASSUME Init PROVE Inv
<1>1. /\ op[Boot] = Down /\ \A c \in Callers : op[c] = Idle
      /\ Down.step = "down" /\ Idle.step = "idle" /\ Down # Up
      /\ Down \in Op /\ Idle \in Op /\ late = {}
  BY CallersAreAll DEF Init, All, Down, Idle, Up, At, Op, Kinds, Steps
<1>2. TypeOK
  BY <1>1, FaultBounds DEF Init, TypeOK
<1>3. Named /\ Shape /\ StartGivesUp /\ LateIsFault /\ PendingIsOwned
  BY <1>1 DEF Named, Shape, StartGivesUp, LateIsFault, PendingIsOwned, Started, All,
              NeedsTab, Commands, StorageSteps, TerminalSteps
<1>4. Reconciling
  BY <1>1 DEF Init, Reconciling, RowIsSound, MayBePending, MayLackSession, Condemned, BootAt,
              BootHas, BootNamed, Succeeded
<1>. QED  BY <1>2, <1>3, <1>4 DEF Inv

\* A step that changes nothing keeps the invariant.
LEMMA StutterKeepsInv == ASSUME Inv, UNCHANGED vars PROVE Inv'
BY DEF vars, Inv, TypeOK, Named, Shape, Reconciling, RowIsSound, MayBePending, MayLackSession,
       Condemned, BootAt, BootHas, BootNamed, Succeeded, StartGivesUp, LateIsFault,
       PendingIsOwned, Settling, Creation, Started

\* One case for each action.
LEMMA NextKeepsInv == ASSUME Inv, [Next]_vars PROVE Inv'
<1>1. CASE \E c \in Callers, t \in Tabs :
               BeginCreate(c, t) \/ BeginRestart(c, t) \/ BeginDelete(c, t)
  BY <1>1, RequestsKeepInv
<1>2. CASE \E c \in Callers : BeginDeleteWorkspace(c) \/ Continue(c)
  BY <1>2, RequestsKeepInv
<1>3. CASE StartContinues
  BY <1>3, StartKeepsInv
<1>4. CASE StartFails
  BY <1>4, StartFailsKeepsInv
<1>5. CASE \E c \in All : WorkerPerforms(c) \/ CallFails(c)
  BY <1>5, WorkerKeepsInv, FailureKeepsInv
<1>6. CASE \E call \in late : LatePerformed(call)
  BY <1>6, LateKeepsInv
<1>7. CASE ServerDies
  BY <1>7, CrashKeepsInv
<1>8. CASE UNCHANGED vars
  BY <1>8, StutterKeepsInv
<1>. QED  BY <1>1, <1>2, <1>3, <1>4, <1>5, <1>6, <1>7, <1>8 DEF Next

\* The induction.
LEMMA Invariant == Spec => []Inv
<1>1. Init => Inv
  BY InitInv
<1>2. Inv /\ [Next]_vars => Inv'
  BY NextKeepsInv
<1>. QED  BY <1>1, <1>2, PTL DEF Spec

\* Rows, sessions and calls have their types in every state.
THEOREM TypeCorrect == Spec => []TypeOK
<1>1. Inv => TypeOK
  BY DEF Inv
<1>. QED  BY <1>1, Invariant, PTL

\* While the Supervisor is up a pending row belongs to a creation that is still to
\* finalize it or to fail it, unless a storage call failed.
THEOREM NoForgottenIntent == Spec => []PendingIsOwned
<1>1. Inv => PendingIsOwned
  BY DEF Inv
<1>. QED  BY <1>1, Invariant, PTL

\* Whatever failed before, the Supervisor comes up without pending rows and without
\* ready rows that have no session.
THEOREM CompleteStart == Spec => StartReconciles
<1>. DEFINE Sound == \A t \in Tabs : row[t] # "pending" /\ (row[t] = "ready" => t \in tmux)
            Step == ~Started /\ Started' => Sound
<1>1. Inv /\ [Next]_vars => [Step]_vars
  <2>. SUFFICES ASSUME Inv, Next, ~Started, Started' PROVE Sound
    OBVIOUS
  <2>1. CASE StartContinues
    <3>1. /\ op'[Boot] = Up /\ UNCHANGED <<row, tmux>> /\ \A u \in Tabs : RowIsSound(u)'
      BY <2>1, StartProgresses DEF StartMoves, StartContinues, store, Started
    <3>. QED  BY <3>1 DEF RowIsSound, MayBePending, MayLackSession, BootAt, BootHas, Succeeded,
                          Up, At
  <2>2. CASE StartFails \/ ServerDies
    BY <2>2, CallersAreAll DEF StartFails, ServerDies, Started, Inv, TypeOK, Up, Down, At
  <2>3. CASE \E c \in All : WorkerPerforms(c) \/ CallFails(c)
    <3>1. PICK c \in All : WorkerPerforms(c) \/ CallFails(c)
      BY <2>3
    <3>2. PICK answer \in {"ok", "error"}, reply \in SUBSET Tabs : Hears(c, answer, reply)
      <4>. op[c].reply \in SUBSET Tabs /\ TypeOK
        BY DEF Inv, TypeOK, Op
      <4>1. CASE WorkerPerforms(c)
        BY <4>1, HearsIs DEF WorkerPerforms
      <4>2. CASE CallFails(c)
        <5>1. PICK answer \in {"ok", "error"} : op' = [op EXCEPT ![c].call = answer]
          BY <4>2 DEF CallFails, Excuses
        <5>. QED  BY <5>1, HearsIs
      <4>. QED  BY <3>1, <4>1, <4>2
    <3>3. op[c].call = "sent"
      BY <3>1 DEF WorkerPerforms, CallFails
    <3>. QED  BY <3>2, <3>3, HearsShape
  <2>4. CASE \E call \in late : LatePerformed(call)
    BY <2>4 DEF LatePerformed, Started
  <2>5. CASE \E c \in Callers : \/ BeginDeleteWorkspace(c) \/ Continue(c)
                                \/ \E t \in Tabs : BeginCreate(c, t) \/ BeginRestart(c, t) \/ BeginDelete(c, t)
    BY <2>5, RequestMoves DEF BeginDeleteWorkspace, BeginCreate, BeginRestart, BeginDelete, Begin, Continue
  <2>. QED  BY <2>1, <2>2, <2>3, <2>4, <2>5 DEF Next
<1>2. [][Step]_vars => StartReconciles
  BY DEF StartReconciles
<1>. QED  BY <1>1, <1>2, Invariant, PTL DEF Spec

-----------------------------------------------------------------------------
(* Rows and sessions *)

Waits(c, step) == op[c].step = step /\ op[c].call = "sent"

Creates(c, t) == Creation(c) /\ op[c].tab = t
On(c, t) == op[c].kind \in {"create", "restart", "delete"} /\ op[c].tab = t

\* A creation of which nothing is recorded, and a restart that has not deleted yet.
Fresh(c) ==
    /\ op[c].kind = "create"
    /\ op[c].step = "ensure" \/ (op[c].step = "createPending" /\ ~Succeeded(c, "createPending"))

Outset(c) ==
    /\ op[c].kind = "restart"
    /\ op[c].step = "ensure" \/ (op[c].step = "delete" /\ ~Succeeded(c, "delete"))

\* Where a creation stands when its tab has no session.
Sessionless(c) ==
    \/ op[c].step \in {"createPending", "failPending"}
    \/ op[c].step = "create" /\ ~Succeeded(c, "create")
    \/ Answered(c, "undo")
    \/ op[c].kind = "create" /\ op[c].step = "ensure"
    \/ op[c].kind = "restart" /\ Answered(c, "kill")

\* Row and session follow the creation of the tab.
CreatorIsSound(c, t) ==
    Creates(c, t) =>
        /\ t \in made
        /\ row[t] = "pending" => Settling(c)
        /\ row[t] = "ready" => Succeeded(c, "finalize") \/ Outset(c)
        /\ row[t] = "failed" => Answered(c, "failPending") \/ Outset(c)
        /\ Sessionless(c) => t \notin tmux
        /\ (Succeeded(c, "create") \/ Waits(c, "finalize")) /\ row[t] = "pending" => t \in tmux
        /\ op[c].kind = "create" /\ ~Succeeded(c, "finalize") => t \notin known

\* A deletion has removed the row: of its tab, or of all.
Removes(c, t) ==
    \/ op[c].kind = "delete" /\ op[c].tab = t /\ (Succeeded(c, "delete") \/ op[c].step = "kill")
    \/ op[c].kind = "deleteWorkspace" /\ Succeeded(c, "deleteWorkspace") /\ t \in op[c].reply
    \/ /\ op[c].kind = "deleteWorkspace" /\ op[c].step = "kill"
       /\ t \in op[c].todo \/ op[c].tab = t

RemoverIsSound(c, t) ==
    /\ Removes(c, t) => row[t] = "none" /\ t \in made
    /\ op[c].kind = "delete" /\ op[c].tab = t => t \in known
    /\ op[c].step = "deleteWorkspace" => op[c].tab = NoTab

\* A restart is alone on its tab, and a creation has it to itself until the row is there.
Apart(c, d, t) ==
    /\ op[c].kind = "restart" /\ op[c].tab = t => ~On(d, t) /\ op[d].kind # "deleteWorkspace"
    /\ Creates(c, t) => ~Creates(d, t)
    /\ Creates(c, t) /\ Fresh(c) => ~Removes(d, t)

\* The caller will kill the session of the tab.
WillKill(c, t) ==
    \/ Creates(c, t) /\ \/ Succeeded(c, "create") \/ Waits(c, "undo")
                        \/ op[c].step = "finalize" /\ ~Succeeded(c, "finalize")
    \/ op[c].kind = "restart" /\ op[c].tab = t /\ (Succeeded(c, "delete") \/ Waits(c, "kill"))
    \/ /\ op[c].kind = "delete" /\ op[c].tab = t
       /\ Waits(c, "kill") \/ (Succeeded(c, "delete") /\ op[c].reply # {})
    \/ op[c].kind = "deleteWorkspace" /\ Succeeded(c, "deleteWorkspace") /\ t \in op[c].reply
    \/ /\ op[c].kind = "deleteWorkspace" /\ op[c].step = "kill"
       /\ t \in op[c].todo \/ (op[c].tab = t /\ op[c].call = "sent")

\* The start fails the row of a tab only when the session is gone.
BootIsSound(t) ==
    /\ op[Boot].tab = t
    /\ \/ op[Boot].step \in {"failPending", "failReady"}
       \/ Answered(Boot, "kill")
       \/ Succeeded(Boot, "has") /\ op[Boot].reply = {}
    => t \notin tmux

StateIsSound(t) ==
    /\ row[t] = "failed" => t \notin tmux
    /\ row[t] = "ready" /\ Started => t \in tmux
    /\ row[t] = "pending" /\ Started => \E c \in Callers : Creates(c, t)
    /\ row[t] = "none" /\ t \in tmux => faults.crash > 0 \/ \E c \in Callers : WillKill(c, t)
    /\ t \notin made => row[t] = "none" /\ t \notin tmux
    /\ t \in known => t \in made
    /\ \A call \in late : call[2] \notin {t, NoTab} /\ call[1] # "deleteWorkspace"

TabIsSound(t) ==
    /\ \A c \in Callers : CreatorIsSound(c, t) /\ RemoverIsSound(c, t)
    /\ \A c, d \in Callers : c # d => Apart(c, d, t)
    /\ BootIsSound(t)
    /\ StateIsSound(t)

\* What holds of the tabs no call about which failed and no restart of which met
\* another operation.
Undisturbed == \A t \in Tabs \ disturbed : TabIsSound(t)

\* Who is not concerned by a step stays sound.
LEMMA OthersStaySound ==
  ASSUME NEW t, NEW d, op'[d] = op[d], row'[t] = row[t], t \in tmux' <=> t \in tmux,
         t \in known' <=> t \in known, t \in made => t \in made',
         CreatorIsSound(d, t), RemoverIsSound(d, t)
  PROVE  CreatorIsSound(d, t)' /\ RemoverIsSound(d, t)'
BY DEF CreatorIsSound, RemoverIsSound, Creates, Creation, Settling, Outset, Sessionless, Waits,
       Removes, Succeeded, Failed, Answered

\* A step of a request goes on with what it was doing to the tab.
Carries(c, t) ==
    /\ op'[c].kind \in {op[c].kind, "none"}
    /\ On(c, t)' => On(c, t)
    /\ Fresh(c)' => Fresh(c)
    /\ Removes(c, t)' => Removes(c, t)
    /\ op'[c].step # "deleteWorkspace"
    /\ CreatorIsSound(c, t)'
    /\ WillKill(c, t) /\ t \in tmux => WillKill(c, t)'

\* One case for each continuation.
LEMMA RequestCarries ==
  ASSUME Inv, NEW c \in Callers, RequestContinues(c), NEW t \in Tabs,
         UNCHANGED <<store, tmux, made>>, CreatorIsSound(c, t), RemoverIsSound(c, t)
  PROVE  Carries(c, t)
<1>. USE CallersAreAll
<1>0. /\ c \in All /\ op[c] \in Op /\ TypeOK
      /\ op[c].step \in NeedsTab => op[c].tab \in Tabs
      /\ UNCHANGED <<row, known>>
  BY DEF Inv, TypeOK, Named, store
<1>b. \A step \in {"ensure", "delete", "kill", "createPending", "create", "finalize", "undo",
                   "failPending"} : step \in NeedsTab /\ step \in Commands
  BY DEF NeedsTab, Commands, StorageSteps, TerminalSteps
<1>. USE DEF Succeeded, Failed, Answered
<1>1. ASSUME Ends(c), WillKill(c, t) => t \notin tmux
      PROVE  Carries(c, t)
  <2>1. op'[c] = Idle
    BY <1>0, <1>1, EndsIs
  <2>. QED  BY <1>1, <2>1 DEF Carries, Idle, At, On, Fresh, Removes, CreatorIsSound, Creates, Creation
<1>2. ASSUME NEW step \in {"delete", "kill", "createPending", "create", "finalize", "undo",
                           "failPending"},
             Send(c, step, op[c].tab, {}), op[c].tab \in Tabs
      PROVE  op'[c] = [kind |-> op[c].kind, tab |-> op[c].tab, step |-> step, todo |-> {},
                       call |-> "sent", reply |-> {}]
  <2>1. step \in Commands /\ {} \in SUBSET Tabs /\ op[c].tab \in Tabs \cup {NoTab}
    BY <1>2, <1>b
  <2>2. /\ TypeOK /\ c \in All
        /\ Send(c, step, op[c].tab, {})
    BY <1>0, <1>2
  <2>. HIDE DEF Succeeded, Failed, Answered
  <2>. QED  BY ONLY <2>1, <2>2, SendIs
<1>. USE DEF Carries, On, Fresh, Removes, CreatorIsSound, RemoverIsSound, Creates, Creation,
             Settling, Outset, Sessionless, Waits, WillKill
<1>3. CASE PaneEnsured(c)
  <2>1. PICK step \in {"createPending", "delete"} :
             Send(c, step, op[c].tab, {}) /\ (step = "createPending" <=> op[c].kind = "create")
    BY <1>3 DEF PaneEnsured
  <2>2. op'[c] = [kind |-> op[c].kind, tab |-> op[c].tab, step |-> step, todo |-> {},
                  call |-> "sent", reply |-> {}]
    BY <1>0, <1>2, <1>3, <1>b, <2>1 DEF PaneEnsured
  <2>. QED  BY <1>0, <1>3, <2>1, <2>2 DEF PaneEnsured
<1>4. CASE OldRowDeleted(c)
  BY <1>0, <1>2, <1>4, <1>b DEF OldRowDeleted
<1>5. CASE OldSessionKilled(c)
  BY <1>0, <1>2, <1>5, <1>b DEF OldSessionKilled
<1>6. CASE IntentRecorded(c)
  BY <1>0, <1>2, <1>6, <1>b DEF IntentRecorded
<1>7. CASE SessionCreated(c)
  BY <1>0, <1>2, <1>7, <1>b DEF SessionCreated
<1>8. CASE CreationFailed(c)
  BY <1>0, <1>2, <1>8, <1>b DEF CreationFailed
<1>9. CASE SessionUndone(c)
  BY <1>0, <1>2, <1>9, <1>b DEF SessionUndone
<1>10. CASE CreationEnds(c)
  <2>1. Ends(c)
    BY <1>10 DEF CreationEnds
  <2>2. ~WillKill(c, t)
    BY <1>10 DEF CreationEnds
  <2>. QED  BY <1>1, <2>1, <2>2
<1>11. CASE TabDeleted(c) \/ DeletionEnds(c)
  <2>1. CASE DeletionEnds(c) \/ op[c].reply = {}
    <3>1. Ends(c) /\ ~WillKill(c, t)
      BY <1>11, <2>1 DEF TabDeleted, DeletionEnds
    <3>. QED  BY <1>1, <3>1
  <2>2. CASE TabDeleted(c) /\ op[c].reply # {}
    BY <1>0, <1>2, <1>b, <2>2 DEF TabDeleted
  <2>. QED  BY <1>11, <2>1, <2>2
<1>12. CASE WorkspaceDeleted(c) \/ WorkspaceSessionKilled(c) \/ WorkspaceDeletionFails(c)
  <2>1. CASE WorkspaceDeletionFails(c)
    BY <1>1, <2>1 DEF WorkspaceDeletionFails
  <2>2. CASE ~WorkspaceDeletionFails(c)
    <3>1. PICK sessions \in SUBSET Tabs :
              /\ KillNext(c, sessions)
              /\ WillKill(c, t) => t \in sessions
              /\ t \in sessions => Removes(c, t)
              /\ op[c].kind = "deleteWorkspace"
      BY <1>0, <1>12, <2>2 DEF WorkspaceDeleted, WorkspaceSessionKilled, Op
    <3>2. CASE sessions = {}
      BY <1>1, <3>1, <3>2 DEF KillNext
    <3>3. CASE sessions # {}
      <4>1. PICK u \in sessions : Send(c, "kill", u, sessions \ {u})
        BY <3>1, <3>3 DEF KillNext
      <4>2. op'[c] = [kind |-> op[c].kind, tab |-> u, step |-> "kill", todo |-> sessions \ {u},
                      call |-> "sent", reply |-> {}]
        <5>1. /\ "kill" \in Commands /\ sessions \ {u} \in SUBSET Tabs /\ u \in Tabs \cup {NoTab}
              /\ TypeOK /\ c \in All
          BY <1>0, <1>b
        <5>. QED  BY ONLY <4>1, <5>1, SendIs
      <4>. QED  BY <3>1, <4>1, <4>2
    <3>. QED  BY <3>2, <3>3
  <2>. QED  BY <2>1, <2>2
<1>. QED  BY <1>3, <1>4, <1>5, <1>6, <1>7, <1>8, <1>9, <1>10, <1>11, <1>12 DEF RequestContinues

\* Such a step keeps the tab sound.
LEMMA ContinueKeepsSound ==
  ASSUME Inv, NEW c \in Callers, Continue(c), NEW t \in Tabs, TabIsSound(t)
  PROVE  TabIsSound(t)'
<1>. USE CallersAreAll
<1>0. /\ c # Boot /\ Moves(c) /\ Started /\ Started'
      /\ UNCHANGED <<row, known, tmux, late, made, faults, disturbed>>
      /\ \A d \in All : d # c => op'[d] = op[d]
  BY RequestMoves DEF Continue, Moves, Started, store
<1>1. Carries(c, t)
  BY RequestCarries DEF Continue, TabIsSound
<1>2. \A d \in Callers : CreatorIsSound(d, t)' /\ RemoverIsSound(d, t)'
  <2>1. CreatorIsSound(c, t)' /\ RemoverIsSound(c, t)'
    BY <1>0, <1>1 DEF Carries, RemoverIsSound, TabIsSound, On
  <2>2. ASSUME NEW d \in Callers, d # c PROVE CreatorIsSound(d, t)' /\ RemoverIsSound(d, t)'
    BY <1>0, <2>2, OthersStaySound DEF TabIsSound
  <2>. QED  BY <2>1, <2>2
<1>3. \A d, e \in Callers : d # e => Apart(d, e, t)'
  <2>. SUFFICES ASSUME NEW d \in Callers, NEW e \in Callers, d # e PROVE Apart(d, e, t)'
    OBVIOUS
  <2>0. Apart(d, e, t)
    BY DEF TabIsSound
  <2>1. CASE d = c
    BY <1>0, <1>1, <2>0, <2>1 DEF Apart, Carries, On, Creates, Creation, Removes, Succeeded
  <2>2. CASE e = c
    BY <1>0, <1>1, <2>0, <2>2 DEF Apart, Carries, On, Creates, Creation, Fresh, Succeeded
  <2>3. CASE d # c /\ e # c
    BY <1>0, <2>0, <2>3 DEF Apart, On, Creates, Creation, Fresh, Removes, Succeeded
  <2>. QED  BY <2>1, <2>2, <2>3
<1>4. BootIsSound(t)'
  BY <1>0 DEF BootIsSound, TabIsSound, Succeeded, Failed, Answered
<1>5. StateIsSound(t)'
  <2>1. row[t] = "pending" => \E d \in Callers : Creates(d, t)'
    <3>. SUFFICES ASSUME row[t] = "pending" PROVE \E d \in Callers : Creates(d, t)'
      OBVIOUS
    <3>1. PICK d \in Callers : Creates(d, t)
      BY <1>0 DEF TabIsSound, StateIsSound
    <3>2. CASE d = c
      BY <1>0, <3>1, <3>2 DEF TabIsSound, CreatorIsSound, Moves, Settling, Creates
    <3>3. CASE d # c
      BY <1>0, <3>1, <3>3 DEF Creates, Creation
    <3>. QED  BY <3>2, <3>3
  <2>2. row[t] = "none" /\ t \in tmux => faults.crash > 0 \/ \E d \in Callers : WillKill(d, t)'
    <3>. SUFFICES ASSUME row[t] = "none", t \in tmux, NEW d \in Callers, WillKill(d, t)
                  PROVE  WillKill(d, t)'
      BY DEF TabIsSound, StateIsSound
    <3>1. CASE d = c
      BY <1>1, <3>1 DEF Carries
    <3>2. CASE d # c
      BY <1>0, <3>2 DEF WillKill, Creates, Creation, Succeeded, Waits
    <3>. QED  BY <3>1, <3>2
  <2>. QED  BY <1>0, <2>1, <2>2 DEF TabIsSound, StateIsSound
<1>. QED  BY <1>2, <1>3, <1>4, <1>5 DEF TabIsSound

\* A request that begins meets a tab at rest, or one it may share.
LEMMA BeginKeepsSound ==
  ASSUME Inv, NEW c \in Callers, NEW u, NEW t \in Tabs \ disturbed', TabIsSound(t),
         \/ u \in Tabs /\ (BeginCreate(c, u) \/ BeginRestart(c, u) \/ BeginDelete(c, u))
         \/ BeginDeleteWorkspace(c)
  PROVE  TabIsSound(t)'
<1>. USE CallersAreAll
<1>0. /\ c # Boot /\ op[c] = Idle /\ Started /\ Started' /\ Idle.kind = "none"
      /\ UNCHANGED <<row, known, tmux, late, faults>>
      /\ \A d \in All : d # c => op'[d] = op[d]
      /\ c \in All /\ op \in [All -> Op] /\ t \in Tabs
      /\ made \subseteq made'
  BY DEF Inv, TypeOK, BeginCreate, BeginRestart, BeginDelete, BeginDeleteWorkspace, Begin, Started,
         Idle, At, store
<1>1. PICK kind \in {"create", "restart", "delete", "deleteWorkspace"}, step \in Commands,
           v \in Tabs \cup {NoTab} :
         /\ op'[c] = [kind |-> kind, tab |-> v, step |-> step, todo |-> {}, call |-> "sent",
                      reply |-> {}]
         /\ kind = "create" => step \in {"ensure", "createPending"}
         /\ kind = "restart" => step \in {"ensure", "delete"}
         /\ kind \in {"delete", "deleteWorkspace"} => step = kind
         /\ kind = "deleteWorkspace" => v = NoTab
         /\ kind = "create" => v \notin made /\ v \in made'
         /\ kind \in {"restart", "delete"} => v \in known
         /\ kind = "restart" /\ v = t => ~Touched(t)
         /\ (kind = "delete" /\ v = t) \/ kind = "deleteWorkspace" => ~Restarting(t)
  <2>0. ASSUME NEW kind \in {"create", "restart", "delete", "deleteWorkspace"},
               NEW step \in Commands, NEW v, Begin(c, kind, step, v)
        PROVE  op'[c] = [kind |-> kind, tab |-> v, step |-> step, todo |-> {}, call |-> "sent",
                         reply |-> {}]
    BY <1>0, <2>0 DEF Begin, At
  <2>. USE DEF Commands, StorageSteps, TerminalSteps
  <2>1. CASE u \in Tabs /\ BeginCreate(c, u)
    <3>1. PICK step \in {"ensure", "createPending"} : Begin(c, "create", step, u)
      BY <2>1 DEF BeginCreate
    <3>. QED  BY <2>0, <2>1, <3>1 DEF BeginCreate
  <2>2. CASE u \in Tabs /\ BeginRestart(c, u)
    <3>1. PICK step \in {"ensure", "delete"} : Begin(c, "restart", step, u)
      BY <2>2 DEF BeginRestart
    <3>2. u = t => ~Touched(t)
      BY <2>2 DEF BeginRestart
    <3>. QED  BY <2>0, <2>2, <3>1, <3>2 DEF BeginRestart
  <2>3. CASE u \in Tabs /\ BeginDelete(c, u)
    <3>1. u = t => ~Restarting(t)
      BY <2>3 DEF BeginDelete
    <3>. QED  BY <2>0, <2>3, <3>1 DEF BeginDelete
  <2>4. CASE BeginDeleteWorkspace(c)
    <3>1. ~Restarting(t)
      BY <2>4 DEF BeginDeleteWorkspace
    <3>. QED  BY <2>0, <2>4, <3>1 DEF BeginDeleteWorkspace
  <2>. QED  BY <2>1, <2>2, <2>3, <2>4
<1>2. \A d \in Callers : /\ Creates(d, t) \/ Removes(d, t) \/ On(d, t) => t \in made
                         /\ CreatorIsSound(d, t) /\ RemoverIsSound(d, t)
                         /\ d # c => Apart(c, d, t) /\ Apart(d, c, t)
  BY DEF TabIsSound, CreatorIsSound, RemoverIsSound, StateIsSound, On, Creates, Creation
<1>3. ~Removes(c, t)' /\ (Creates(c, t)' => v = t /\ kind \in {"create", "restart"})
  BY <1>1 DEF Removes, Creates, Creation, Succeeded
<1>4. \A d \in Callers : CreatorIsSound(d, t)' /\ RemoverIsSound(d, t)'
  <2>1. CreatorIsSound(c, t)'
    <3>. SUFFICES ASSUME v = t, kind \in {"create", "restart"} PROVE CreatorIsSound(c, t)'
      BY <1>3 DEF CreatorIsSound
    <3>1. CASE kind = "create"
      <4>1. row[t] = "none" /\ t \notin tmux /\ t \notin known /\ t \in made'
        BY <1>1, <3>1 DEF TabIsSound, StateIsSound
      <4>. QED  BY <1>0, <4>1, <1>1, <3>1 DEF CreatorIsSound, Succeeded
    <3>2. CASE kind = "restart"
      <4>1. row[t] # "pending" /\ t \in made'
        BY <1>0, <1>1, <3>2 DEF TabIsSound, StateIsSound, Touched, Creates, Creation, Active, TypeOK, Inv
      <4>. QED  BY <1>0, <4>1, <1>1, <3>2 DEF CreatorIsSound, Outset, Sessionless, Succeeded, Failed, Answered, Waits
    <3>. QED  BY <3>1, <3>2
  <2>2. RemoverIsSound(c, t)'
    BY <1>0, <1>1, <1>3 DEF RemoverIsSound
  <2>3. ASSUME NEW d \in Callers, d # c PROVE CreatorIsSound(d, t)' /\ RemoverIsSound(d, t)'
    BY <1>0, <1>2, <2>3, OthersStaySound
  <2>. QED  BY <2>1, <2>2, <2>3
<1>5. ASSUME NEW d \in Callers, d # c PROVE Apart(c, d, t)' /\ Apart(d, c, t)'
  <2>1. /\ On(d, t)' <=> On(d, t)
        /\ Creates(d, t)' <=> Creates(d, t)
        /\ Removes(d, t)' <=> Removes(d, t)
        /\ op'[d].kind = op[d].kind /\ op'[d].tab = op[d].tab
    BY <1>0, <1>5 DEF On, Creates, Creation, Removes, Succeeded
  <2>2. CASE v = t /\ kind = "create"
    BY <1>0, <1>1, <1>2, <1>3, <2>1, <2>2 DEF Apart, On, Creates, Creation
  <2>3. CASE v = t /\ kind = "restart"
    <3>1. ~On(d, t) /\ op[d].kind # "deleteWorkspace"
      BY <1>1, <2>3 DEF Touched, Active, On
    <3>. QED  BY <1>0, <1>1, <1>3, <2>1, <2>3, <3>1 DEF Apart, On, Creates, Creation, Removes
  <2>4. CASE v # t \/ kind \in {"delete", "deleteWorkspace"}
    <3>1. ~Creates(c, t)' /\ (op'[c].kind = "restart" => op'[c].tab # t)
      BY <1>1, <1>3, <2>4
    <3>2. op[d].kind = "restart" /\ op[d].tab = t => ~On(c, t)' /\ op'[c].kind # "deleteWorkspace"
      BY <1>1, <2>4 DEF Restarting, On
    <3>. QED  BY <1>3, <2>1, <3>1, <3>2 DEF Apart
  <2>. QED  BY <1>1, <2>2, <2>3, <2>4
<1>6. \A d, e \in Callers : d # e => Apart(d, e, t)'
  <2>. SUFFICES ASSUME NEW d \in Callers, NEW e \in Callers, d # e, d # c, e # c PROVE Apart(d, e, t)'
    BY <1>5
  <2>. QED  BY <1>0 DEF TabIsSound, Apart, On, Creates, Creation, Fresh, Removes, Succeeded
<1>7. BootIsSound(t)'
  BY <1>0 DEF BootIsSound, TabIsSound, Succeeded, Failed, Answered
<1>8. StateIsSound(t)'
  <2>1. ASSUME NEW d \in Callers, Creates(d, t) \/ WillKill(d, t)
        PROVE  (Creates(d, t) => Creates(d, t)') /\ (WillKill(d, t) => WillKill(d, t)')
    <3>1. d # c
      BY <1>0, <2>1 DEF Creates, Creation, WillKill
    <3>. QED  BY <1>0, <3>1 DEF Creates, Creation, WillKill, Succeeded, Waits
  <2>. QED  BY <1>0, <2>1 DEF TabIsSound, StateIsSound
<1>. QED  BY <1>4, <1>6, <1>7, <1>8 DEF TabIsSound

-----------------------------------------------------------------------------
\* What a step that tells caller c the outcome of its command must show of the tab.
Reported(c, t) ==
    /\ \A d \in Callers : CreatorIsSound(d, t)' /\ RemoverIsSound(d, t)'
    /\ c \in Callers /\ Removes(c, t)' =>
           Removes(c, t) \/ \A d \in Callers : ~(Creates(d, t) /\ Fresh(d))
    /\ row'[t] = "failed" => t \notin tmux'
    /\ row'[t] = "ready" /\ Started => t \in tmux'
    /\ row'[t] = "pending" => row[t] = "pending" \/ (c \in Callers /\ Creates(c, t))
    /\ row'[t] = "none" /\ t \in tmux' =>
           \/ row[t] = "none" /\ t \in tmux /\ (c \in Callers /\ WillKill(c, t) => WillKill(c, t)')
           \/ c \in Callers /\ WillKill(c, t)'
    /\ t \notin made => row'[t] = "none" /\ t \notin tmux'
    /\ t \in known' => t \in made

LEMMA ReportKeepsSound ==
  ASSUME Inv, NEW c \in All, op[c].call = "sent", NEW answer \in {"ok", "error"},
         NEW reply \in SUBSET Tabs, Hears(c, answer, reply), NEW t \in Tabs, TabIsSound(t),
         made' = made, faults'.crash = faults.crash,
         \A call \in late' : call[2] \notin {t, NoTab} /\ call[1] # "deleteWorkspace",
         Reported(c, t), BootIsSound(t)'
  PROVE  TabIsSound(t)'
<1>. USE CallersAreAll
<1>1. /\ \A d \in All : d # c => op'[d] = op[d]
      /\ op'[c] = [kind |-> op[c].kind, tab |-> op[c].tab, step |-> op[c].step,
                   todo |-> op[c].todo, call |-> answer, reply |-> reply]
      /\ Started' <=> Started
  BY HearsShape DEF Hears
<1>2. \A d \in Callers : /\ op'[d].kind = op[d].kind /\ op'[d].tab = op[d].tab
                         /\ Creates(d, t)' <=> Creates(d, t)
                         /\ On(d, t)' <=> On(d, t)
                         /\ Fresh(d)' => Fresh(d)
  BY <1>1 DEF Creates, On, Creation, Fresh, Succeeded
<1>3. \A d \in Callers : d # c => (Removes(d, t)' <=> Removes(d, t))
  BY <1>1 DEF Removes, Succeeded
<1>4. \A d, e \in Callers : d # e => Apart(d, e, t)'
  BY <1>2, <1>3 DEF TabIsSound, Apart, Reported
<1>5. row'[t] = "pending" /\ Started' => \E d \in Callers : Creates(d, t)'
  BY <1>1, <1>2 DEF TabIsSound, StateIsSound, Reported
<1>6. row'[t] = "none" /\ t \in tmux' => faults'.crash > 0 \/ \E d \in Callers : WillKill(d, t)'
  <2>1. \A d \in Callers : d # c /\ WillKill(d, t) => WillKill(d, t)'
    BY <1>1 DEF WillKill, Creates, Creation, Succeeded, Waits
  <2>. QED  BY <2>1 DEF TabIsSound, StateIsSound, Reported
<1>. QED  BY <1>1, <1>4, <1>5, <1>6 DEF TabIsSound, StateIsSound, Reported

\* A command about another tab, or one whose failure is reported for another tab,
\* leaves this one alone.
LEMMA ElsewhereKeepsSound ==
  ASSUME Inv, NEW c \in All, op[c].call = "sent", NEW answer \in {"ok", "error"},
         NEW reply \in SUBSET Tabs, Hears(c, answer, reply), NEW t \in Tabs, TabIsSound(t),
         made' = made, faults'.crash = faults.crash,
         \A call \in late' : call[2] \notin {t, NoTab} /\ call[1] # "deleteWorkspace",
         op[c].tab # t, op[c].step # "deleteWorkspace",
         row'[t] = row[t], t \in tmux' <=> t \in tmux, t \in known' <=> t \in known
  PROVE  TabIsSound(t)'
<1>. USE CallersAreAll
<1>1. /\ \A d \in All : d # c => op'[d] = op[d]
      /\ op'[c] = [kind |-> op[c].kind, tab |-> op[c].tab, step |-> op[c].step,
                   todo |-> op[c].todo, call |-> answer, reply |-> reply]
  BY DEF Hears
<1>2. \A d \in Callers : CreatorIsSound(d, t)' /\ RemoverIsSound(d, t)'
  <2>1. c \in Callers => CreatorIsSound(c, t)' /\ RemoverIsSound(c, t)'
    BY <1>1 DEF TabIsSound, CreatorIsSound, RemoverIsSound, Creates, Removes, Succeeded
  <2>2. \A d \in Callers : d # c => CreatorIsSound(d, t)' /\ RemoverIsSound(d, t)'
    BY <1>1, OthersStaySound DEF TabIsSound
  <2>. QED  BY <2>1, <2>2
<1>3. c \in Callers => (Removes(c, t)' => Removes(c, t)) /\ (WillKill(c, t) => WillKill(c, t)')
  BY <1>1 DEF Removes, WillKill, Creates, Succeeded, Waits
<1>4. BootIsSound(t)'
  BY <1>1 DEF BootIsSound, TabIsSound, Succeeded, Failed, Answered
<1>5. \/ row[t] = "none" /\ t \in tmux /\ (c \in Callers /\ WillKill(c, t) => WillKill(c, t)')
      \/ row[t] # "none" \/ t \notin tmux
  BY <1>3
<1>6. Reported(c, t)
  BY <1>2, <1>3, <1>5 DEF Reported, TabIsSound, StateIsSound
<1>. QED  BY <1>4, <1>6, ReportKeepsSound

\* The commands of the start: it lists rows, kills, looks for sessions and fails rows.
LEMMA BootPerformsKeepsSound ==
  ASSUME Inv, WorkerPerforms(Boot), NEW t \in Tabs, TabIsSound(t), op[Boot].tab = t
  PROVE  TabIsSound(t)'
<1>. USE CallersAreAll
<1>0. /\ TypeOK /\ op[Boot].call = "sent" /\ UNCHANGED <<late, made, faults, disturbed>>
      /\ op[Boot].step \in BootSteps /\ ~Started
      /\ \A d \in Callers : op[d] = Idle
  BY Waiting DEF Inv, Shape, WorkerPerforms
<1>1. PICK ok \in BOOLEAN, reply \in SUBSET Tabs :
          /\ Does(op[Boot].step, t, ok, reply)
          /\ op' = [op EXCEPT ![Boot].call = IF ok THEN "ok" ELSE "error", ![Boot].reply = reply]
  BY DEF WorkerPerforms
<1>. DEFINE answer == IF ok THEN "ok" ELSE "error"
<1>2. Hears(Boot, answer, reply)
  BY <1>0, <1>1, HearsIs
<1>3. /\ \A d \in Callers : op'[d] = Idle
      /\ op'[Boot] = [kind |-> op[Boot].kind, tab |-> t, step |-> op[Boot].step,
                      todo |-> op[Boot].todo, call |-> answer, reply |-> reply]
  BY <1>0, <1>2 DEF Hears
<1>4. /\ row'[t] = "failed" => row[t] = "failed" \/ op[Boot].step \in {"failPending", "failReady"}
      /\ row'[t] \in {row[t], "failed"} /\ (row[t] = "none" => row'[t] = "none")
      /\ t \in tmux' => t \in tmux /\ op[Boot].step # "kill"
      /\ op[Boot].step = "has" /\ reply = {} => t \notin tmux
      /\ known' = known
  BY <1>0, <1>1 DEF TypeOK, BootSteps, Does, FailsRow, Lists, KillsSession, LooksForSession,
                    SetRow, store
<1>5. \A d \in Callers : CreatorIsSound(d, t)' /\ RemoverIsSound(d, t)' /\ ~Creates(d, t) /\ ~WillKill(d, t)
  BY <1>0, <1>3 DEF Idle, At, CreatorIsSound, RemoverIsSound, Creates, Creation, Removes, Succeeded, WillKill
<1>6. BootIsSound(t)'
  BY <1>0, <1>3, <1>4 DEF BootIsSound, TabIsSound, Succeeded, Failed, Answered
<1>7. Reported(Boot, t)
  BY <1>0, <1>4, <1>5 DEF Reported, TabIsSound, StateIsSound, BootIsSound
<1>8. \A call \in late' : call[2] \notin {t, NoTab} /\ call[1] # "deleteWorkspace"
  BY <1>0 DEF TabIsSound, StateIsSound
<1>. QED  BY <1>0, <1>2, <1>6, <1>7, <1>8, ReportKeepsSound

\* What a command makes of its tab, of the others and of all of them.
LEMMA DoesToTab ==
  ASSUME TypeOK, NEW cmd \in Commands, NEW u \in Tabs \cup {NoTab}, NEW ok \in BOOLEAN,
         NEW reply \in SUBSET Tabs, cmd \in NeedsTab => u \in Tabs, Does(cmd, u, ok, reply),
         NEW t \in Tabs
  PROVE  /\ u # t /\ cmd # "deleteWorkspace" =>
                row'[t] = row[t] /\ (t \in tmux' <=> t \in tmux) /\ (t \in known' <=> t \in known)
         /\ cmd \in StorageSteps => tmux' = tmux
         /\ cmd \in TerminalSteps => row' = row
         /\ cmd # "finalize" => known' = known
         /\ u = t =>
            /\ cmd = "ensure" => row'[t] = row[t]
            /\ cmd = "createPending" => IF ok THEN row[t] = "none" /\ row'[t] = "pending"
                                        ELSE row'[t] = row[t]
            /\ cmd = "finalize" => /\ ok <=> row[t] = "pending"
                                   /\ row'[t] = IF ok THEN "ready" ELSE row[t]
                                   /\ t \in known' <=> t \in known \/ ok
            /\ cmd = "failPending" => row'[t] = IF row[t] = "pending" THEN "failed" ELSE row[t]
            /\ cmd = "delete" => /\ ok /\ row'[t] = "none"
                                 /\ reply = {} => row[t] \in {"none", "failed"}
            /\ cmd = "create" => /\ ok => t \in tmux'
                                 /\ ~ok => tmux' = tmux
            /\ cmd \in {"kill", "undo"} => ok /\ t \notin tmux'
         /\ cmd = "deleteWorkspace" =>
                ok /\ row'[t] = "none" /\ (t \in reply <=> row[t] \in {"pending", "ready"})
BY DEF TypeOK, Commands, NeedsTab, StorageSteps, TerminalSteps, Does, EnsuresPane,
       CreatesPending, Finalizes, FailsRow, DeletesTab, DeletesWorkspace, Lists,
       CreatesSession, KillsSession, LooksForSession, SetRow, store

\* The commands of requests about the tab, and of the deletion of the workspace.
LEMMA RequestPerformsKeepsSound ==
  ASSUME Inv, NEW c \in Callers, WorkerPerforms(c), NEW t \in Tabs, TabIsSound(t),
         op[c].tab = t \/ op[c].step = "deleteWorkspace"
  PROVE  TabIsSound(t)'
<1>. USE CallersAreAll
<1>. DEFINE cmd == op[c].step
<1>0. /\ TypeOK /\ op[c].call = "sent" /\ UNCHANGED <<late, made, faults, disturbed>>
      /\ cmd \in Commands /\ op[c].tab \in Tabs \cup {NoTab} /\ (cmd \in NeedsTab => op[c].tab \in Tabs)
      /\ Started /\ Fits(op[c].kind, cmd) /\ c \in All
  BY Waiting DEF Inv, WorkerPerforms
<1>1. PICK ok \in BOOLEAN, reply \in SUBSET Tabs :
          /\ Does(cmd, op[c].tab, ok, reply)
          /\ op' = [op EXCEPT ![c].call = IF ok THEN "ok" ELSE "error", ![c].reply = reply]
  BY DEF WorkerPerforms
<1>. DEFINE answer == IF ok THEN "ok" ELSE "error"
<1>2. Hears(c, answer, reply)
  BY <1>0, <1>1, HearsIs
<1>3. /\ \A d \in All : d # c => op'[d] = op[d]
      /\ op'[c] = [kind |-> op[c].kind, tab |-> op[c].tab, step |-> cmd, todo |-> op[c].todo,
                   call |-> answer, reply |-> reply]
  BY <1>2 DEF Hears
<1>4. /\ CreatorIsSound(c, t) /\ RemoverIsSound(c, t) /\ StateIsSound(t)
      /\ \A d \in Callers : CreatorIsSound(d, t) /\ RemoverIsSound(d, t)
      /\ \A d \in Callers : d # c => Apart(c, d, t) /\ Apart(d, c, t)
  BY DEF TabIsSound
<1>5. BootIsSound(t)'
  BY <1>0, <1>3 DEF BootIsSound, Started, Up, At, Succeeded, Failed, Answered
<1>6. \A call \in late' : call[2] \notin {t, NoTab} /\ call[1] # "deleteWorkspace"
  BY <1>0, <1>4 DEF StateIsSound
<1>7. ASSUME Reported(c, t) PROVE TabIsSound(t)'
  BY <1>0, <1>2, <1>5, <1>6, <1>7, ReportKeepsSound
<1>. HIDE DEF cmd
<1>8. CASE Creation(c) /\ cmd # "delete" /\ cmd # "kill"
  <2>0. /\ op[c].tab = t /\ Creates(c, t) /\ t \in made
        /\ cmd \in {"ensure", "createPending", "create", "finalize", "undo", "failPending"}
        /\ \A d \in Callers : d # c => ~Creates(d, t) /\ ~Creates(d, t)'
    BY <1>0, <1>3, <1>4, <1>8 DEF Fits, Creation, Creates, CreatorIsSound, Apart, cmd
  <2>. USE DEF Succeeded, Failed, Answered, Waits, cmd
  <2>1. CreatorIsSound(c, t)'
    BY <1>0, <1>1, <1>3, <1>4, <1>8, <2>0, DoesToTab
       DEF CreatorIsSound, Creates, Creation, Settling, Outset, Sessionless, StorageSteps, TerminalSteps
  <2>2. RemoverIsSound(c, t)' /\ ~Removes(c, t)'
    BY <1>3, <1>4, <1>8, <2>0 DEF RemoverIsSound, Removes, Creation
  <2>3. ASSUME NEW d \in Callers, d # c PROVE CreatorIsSound(d, t)' /\ RemoverIsSound(d, t)'
    <3>1. CreatorIsSound(d, t)'
      BY <2>0, <2>3 DEF CreatorIsSound
    <3>2. Removes(d, t)' <=> Removes(d, t)
      BY <1>3, <2>3 DEF Removes
    <3>3. t \in known => t \in known'
      BY <1>0, <1>1, <2>0, DoesToTab
    <3>4. Removes(d, t) => row'[t] = "none"
      BY <1>0, <1>1, <1>4, <1>8, <2>0, <2>3, DoesToTab
         DEF RemoverIsSound, Removes, Apart, On, Fresh, Creation, StorageSteps, TerminalSteps
    <3>. QED  BY <1>0, <1>3, <1>4, <2>3, <3>1, <3>2, <3>3, <3>4 DEF RemoverIsSound
  <2>4. /\ row'[t] = "failed" => t \notin tmux'
        /\ row'[t] = "ready" => t \in tmux'
        /\ row'[t] = "none" /\ t \in tmux' =>
               \/ row[t] = "none" /\ t \in tmux /\ (WillKill(c, t) => WillKill(c, t)')
               \/ WillKill(c, t)'
        /\ t \in known' => t \in made
    BY <1>0, <1>1, <1>3, <1>4, <1>8, <2>0, DoesToTab
       DEF CreatorIsSound, StateIsSound, Creates, Creation, Settling, Outset, Sessionless, WillKill,
           StorageSteps, TerminalSteps
  <2>. QED  BY <1>7, <1>0, <2>0, <2>1, <2>2, <2>3, <2>4 DEF Reported
<1>9. CASE cmd = "delete" \/ cmd = "kill"
  <2>0. op[c].tab = t /\ op[c].kind \in {"restart", "delete", "deleteWorkspace"}
        /\ (cmd = "delete" => op[c].kind # "deleteWorkspace")
    BY <1>0, <1>9 DEF Fits, cmd
  <2>. USE DEF Succeeded, Failed, Answered, Waits, cmd
  <2>1. /\ row'[t] = "none" /\ (cmd = "kill" => t \notin tmux')
        /\ cmd = "delete" => tmux' = tmux
        /\ known' = known /\ t \in made
    <3>1. t \in made
      BY <1>0, <1>4, <1>9, <2>0 DEF CreatorIsSound, RemoverIsSound, StateIsSound, Creates, Creation, Removes
    <3>2. CASE cmd = "delete"
      BY <1>0, <1>1, <2>0, <3>1, <3>2, DoesToTab DEF StorageSteps
    <3>3. CASE cmd = "kill"
      <4>1. row[t] = "none"
        BY <1>0, <1>4, <2>0, <3>3
           DEF CreatorIsSound, RemoverIsSound, Creates, Creation, Settling, Outset, Removes, TypeOK
      <4>. QED  BY <1>0, <1>1, <2>0, <3>1, <3>3, <4>1, DoesToTab DEF TerminalSteps
    <3>. QED  BY <1>9, <3>2, <3>3
  <2>2. CreatorIsSound(c, t)' /\ RemoverIsSound(c, t)'
    BY <1>0, <1>3, <1>4, <1>9, <2>0, <2>1
       DEF CreatorIsSound, RemoverIsSound, Creates, Creation, Sessionless, Removes
  <2>3. ASSUME NEW d \in Callers, d # c PROVE CreatorIsSound(d, t)' /\ RemoverIsSound(d, t)'
    BY <1>0, <1>3, <1>4, <1>9, <2>1, <2>3
       DEF CreatorIsSound, RemoverIsSound, Creates, Creation, Sessionless, Outset, Settling, Removes
  <2>4. Removes(c, t)' => Removes(c, t) \/ \A d \in Callers : ~(Creates(d, t) /\ Fresh(d))
    BY <1>3, <1>4, <1>9, <2>0 DEF Removes, RemoverIsSound, CreatorIsSound, Creates, Creation, Fresh
  <2>5. t \in tmux' => \/ row[t] = "none" /\ t \in tmux /\ (WillKill(c, t) => WillKill(c, t)')
                       \/ WillKill(c, t)'
    <3>1. CASE cmd = "kill"
      BY <2>1, <3>1
    <3>2. CASE cmd = "delete"
      <4>1. ok /\ (reply = {} => row[t] \in {"none", "failed"})
        BY <1>0, <1>1, <2>0, <3>2, DoesToTab
      <4>2. CASE op[c].kind = "restart" \/ reply # {}
        BY <1>3, <2>0, <3>2, <4>1, <4>2 DEF WillKill
      <4>3. CASE op[c].kind = "delete" /\ reply = {}
        BY <1>0, <1>3, <1>4, <2>1, <3>2, <4>1, <4>3 DEF StateIsSound, WillKill, Creates, Creation
      <4>. QED  BY <2>0, <3>2, <4>2, <4>3
    <3>. QED  BY <1>9, <3>1, <3>2
  <2>. QED  BY <1>4, <1>7, <2>1, <2>2, <2>3, <2>4, <2>5 DEF Reported, StateIsSound
<1>10. CASE cmd = "deleteWorkspace"
  <2>0. op[c].kind = "deleteWorkspace" /\ op[c].tab = NoTab
    BY <1>0, <1>4, <1>10 DEF Fits, RemoverIsSound, cmd
  <2>. USE DEF Succeeded, Failed, Answered, Waits, cmd
  <2>1. /\ row'[t] = "none" /\ tmux' = tmux /\ known' = known
        /\ ok /\ (t \in reply <=> row[t] \in {"pending", "ready"})
    BY <1>0, <1>1, <1>10, DoesToTab DEF StorageSteps
  <2>2. CreatorIsSound(c, t)' /\ RemoverIsSound(c, t)'
    BY <1>0, <1>3, <1>4, <1>10, <2>0, <2>1
       DEF CreatorIsSound, RemoverIsSound, Creates, Creation, Removes, StateIsSound
  <2>3. ASSUME NEW d \in Callers, d # c PROVE CreatorIsSound(d, t)' /\ RemoverIsSound(d, t)'
    BY <1>0, <1>3, <1>4, <1>10, <2>1, <2>3
       DEF CreatorIsSound, RemoverIsSound, Creates, Creation, Sessionless, Outset, Settling, Removes
  <2>4. Removes(c, t)' => Removes(c, t) \/ \A d \in Callers : ~(Creates(d, t) /\ Fresh(d))
    BY <1>3, <1>4, <1>10, <2>0, <2>1 DEF Removes, CreatorIsSound, Creates, Creation, Fresh, Settling, Outset
  <2>5. t \in tmux' => \/ row[t] = "none" /\ t \in tmux /\ (WillKill(c, t) => WillKill(c, t)')
                       \/ WillKill(c, t)'
    BY <1>0, <1>3, <1>4, <1>10, <2>0, <2>1 DEF StateIsSound, WillKill, Creates, Creation, TypeOK
  <2>. QED  BY <1>4, <1>7, <2>1, <2>2, <2>3, <2>4, <2>5 DEF Reported, StateIsSound
<1>. QED  BY <1>0, <1>8, <1>9, <1>10 DEF Fits, Creation, cmd

\* A step of a worker: about this tab, about another, or about all.
LEMMA WorkerKeepsSound ==
  ASSUME Inv, NEW c \in All, WorkerPerforms(c), NEW t \in Tabs, TabIsSound(t)
  PROVE  TabIsSound(t)'
<1>. USE CallersAreAll
<1>1. CASE c = Boot /\ op[c].tab = t
  BY <1>1, BootPerformsKeepsSound
<1>2. CASE c \in Callers /\ (op[c].tab = t \/ op[c].step = "deleteWorkspace")
  BY <1>2, RequestPerformsKeepsSound
<1>3. CASE op[c].tab # t /\ op[c].step # "deleteWorkspace"
  <2>0. /\ TypeOK /\ op[c].call = "sent" /\ UNCHANGED <<late, made, faults>>
        /\ op[c].step \in Commands /\ op[c].tab \in Tabs \cup {NoTab}
        /\ op[c].step \in NeedsTab => op[c].tab \in Tabs
    BY Waiting DEF Inv, WorkerPerforms
  <2>1. PICK ok \in BOOLEAN, reply \in SUBSET Tabs :
            /\ Does(op[c].step, op[c].tab, ok, reply)
            /\ op' = [op EXCEPT ![c].call = IF ok THEN "ok" ELSE "error", ![c].reply = reply]
    BY DEF WorkerPerforms
  <2>2. PICK answer \in {"ok", "error"} : Hears(c, answer, reply)
    BY <2>0, <2>1, HearsIs
  <2>3. row'[t] = row[t] /\ (t \in tmux' <=> t \in tmux) /\ (t \in known' <=> t \in known)
    BY <1>3, <2>0, <2>1, DoesToTab
  <2>4. \A call \in late' : call[2] \notin {t, NoTab} /\ call[1] # "deleteWorkspace"
    BY <2>0 DEF TabIsSound, StateIsSound
  <2>. QED  BY <1>3, <2>0, <2>2, <2>3, <2>4, ElsewhereKeepsSound
<1>4. c = Boot => op[c].step # "deleteWorkspace"
  BY Waiting DEF WorkerPerforms, BootSteps
<1>. QED  BY <1>1, <1>2, <1>3, <1>4 DEF All

\* A call that fails disturbs the tab it is about, or all of them.
LEMMA FailureKeepsSound ==
  ASSUME Inv, NEW c \in All, CallFails(c), NEW t \in Tabs \ disturbed', TabIsSound(t)
  PROVE  TabIsSound(t)'
<1>. USE CallersAreAll
<1>0. /\ TypeOK /\ op[c].call = "sent" /\ UNCHANGED <<row, known, tmux, made>>
      /\ op[c].tab \notin {t, NoTab} /\ op[c].reply \in SUBSET Tabs
      /\ late' = late \cup {<<op[c].step, op[c].tab>>}
  BY DEF Inv, TypeOK, Op, CallFails, store
<1>1. op[c].step # "deleteWorkspace"
  <2>1. CASE c = Boot
    BY <1>0, <2>1, Waiting DEF BootSteps
  <2>2. CASE c \in Callers
    BY <1>0, <2>2 DEF TabIsSound, RemoverIsSound
  <2>. QED  BY <2>1, <2>2 DEF All
<1>2. PICK answer \in {"ok", "error"} : op' = [op EXCEPT ![c].call = answer]
  BY DEF CallFails, Excuses
<1>3. Hears(c, answer, op[c].reply)
  BY <1>0, <1>2, HearsIs
<1>4. faults'.crash = faults.crash
  BY <1>0 DEF CallFails, TypeOK
<1>5. \A call \in late' : call[2] \notin {t, NoTab} /\ call[1] # "deleteWorkspace"
  BY <1>0, <1>1 DEF TabIsSound, StateIsSound
<1>. QED  BY <1>0, <1>1, <1>3, <1>4, <1>5, ElsewhereKeepsSound

\* A command performed late is about a disturbed tab.
LEMMA LateKeepsSound ==
  ASSUME Inv, NEW call \in late, LatePerformed(call), NEW t \in Tabs, TabIsSound(t)
  PROVE  TabIsSound(t)'
<1>0. /\ TypeOK /\ UNCHANGED <<op, made, faults>> /\ late' \subseteq late
      /\ call[1] \in Commands /\ call[2] \in Tabs \cup {NoTab}
      /\ call[1] \in NeedsTab => call[2] \in Tabs
      /\ call[2] # t /\ call[1] # "deleteWorkspace"
  BY DEF Inv, TypeOK, Named, LatePerformed, TabIsSound, StateIsSound, Commands
<1>1. row'[t] = row[t] /\ (t \in tmux' <=> t \in tmux) /\ (t \in known' <=> t \in known)
  <2>1. PICK ok \in BOOLEAN, reply \in SUBSET Tabs : Does(call[1], call[2], ok, reply)
    BY DEF LatePerformed
  <2>2. PICK cmd \in Commands, u \in Tabs \cup {NoTab} : cmd = call[1] /\ u = call[2]
    BY <1>0
  <2>. QED  BY <1>0, <2>1, <2>2, DoesToTab
<1>2. \A d \in Callers : CreatorIsSound(d, t)' /\ RemoverIsSound(d, t)'
  BY <1>0, <1>1, OthersStaySound DEF TabIsSound
<1>. QED  BY <1>0, <1>1, <1>2
          DEF TabIsSound, Apart, On, Creates, Creation, Fresh, Removes, BootIsSound, StateIsSound,
              WillKill, Waits, Started, Succeeded, Failed, Answered

\* A crash leaves nobody with a claim, and accounts for what is left.
LEMMA CrashKeepsSound ==
  ASSUME Inv, ServerDies, NEW t \in Tabs, TabIsSound(t)
  PROVE  TabIsSound(t)'
<1>. USE CallersAreAll
<1>1. /\ \A d \in Callers : op'[d] = Idle
      /\ op'[Boot] = Down /\ ~Started'
      /\ UNCHANGED <<row, known, made>> /\ tmux' \subseteq tmux /\ late' = {}
  BY DEF ServerDies, All, store, Started, Up, Down, At
<1>2. faults'.crash > 0
  BY FaultBounds DEF ServerDies, Inv, TypeOK
<1>. QED  BY <1>1, <1>2
          DEF TabIsSound, CreatorIsSound, RemoverIsSound, Apart, On, Creates, Creation, Removes,
              BootIsSound, StateIsSound, Idle, Down, At, Succeeded, Failed, Answered

\* The start goes on, or fails: it turns to the row of a tab only when the session is
\* gone, and the Supervisor comes up with ready rows that have their sessions.
LEMMA StartKeepsSound ==
  ASSUME Inv, StartContinues \/ StartFails, NEW t \in Tabs, TabIsSound(t)
  PROVE  TabIsSound(t)'
<1>. USE CallersAreAll
<1>1. /\ \A d \in Callers : op'[d] = Idle /\ op[d] = Idle
      /\ UNCHANGED <<row, known, tmux, late, made, faults>> \/ StartFails
      /\ UNCHANGED <<row, known, tmux, made, faults>> /\ late' \subseteq late
      /\ Started' => row[t] # "pending" /\ (row[t] = "ready" => t \in tmux)
  <2>1. CASE StartContinues
    <3>1. /\ ~Started /\ UNCHANGED <<row, known, tmux, late, made, faults>>
          /\ \A u \in Tabs : RowIsSound(u)'
          /\ \A d \in Callers : op'[d] = op[d]
      BY <2>1, StartProgresses DEF StartMoves, StartContinues, store
    <3>2. Started' => row[t] # "pending" /\ (row[t] = "ready" => t \in tmux)
      BY <3>1 DEF RowIsSound, MayBePending, MayLackSession, BootAt, BootHas, Succeeded, Started, Up, At
    <3>. QED  BY <3>1, <3>2 DEF Inv, Shape
  <2>2. CASE StartFails
    <3>1. ~Started /\ ~Started' /\ \A d \in Callers : op'[d] = op[d]
      BY <2>2 DEF StartFails, Started, Failed, Inv, TypeOK, Up, Down, At
    <3>. QED  BY <2>2, <3>1 DEF StartFails, store, Inv, Shape
  <2>. QED  BY <2>1, <2>2
<1>2. BootIsSound(t)'
  <2>0. /\ TypeOK /\ BootIsSound(t)
        /\ UNCHANGED tmux
    BY <1>1 DEF Inv, TabIsSound
  <2>1. CASE StartFails
    BY <2>0, <2>1 DEF StartFails, TypeOK, BootIsSound, Down, At
  <2>2. ASSUME NEW step \in BootSteps, NEW u \in Tabs \cup {NoTab}, NEW todo \in SUBSET Tabs,
               BootCall(step, u, todo),
               u = t /\ step \in {"failPending", "failReady"} => t \notin tmux
        PROVE  BootIsSound(t)'
    <3>1. op'[Boot] = [kind |-> op[Boot].kind, tab |-> u, step |-> step, todo |-> todo,
                       call |-> "sent", reply |-> {}]
      <4>1. step \in Commands
        BY <2>2 DEF BootSteps, Commands, StorageSteps, TerminalSteps
      <4>. QED  BY <2>0, <2>2, <4>1, SendIs DEF BootCall
    <3>. QED  BY <2>0, <2>2, <3>1 DEF BootIsSound, Succeeded, Failed, Answered
  <2>3. op[Boot].reply \subseteq Tabs /\ op[Boot].todo \subseteq Tabs /\ op[Boot].tab \in Tabs \cup {NoTab}
    BY <2>0 DEF TypeOK, Op
  <2>4. ASSUME NEW todo \in SUBSET Tabs, NextPending(todo) \/ NextReady(todo) PROVE BootIsSound(t)'
    <3>1. CASE op' = [op EXCEPT ![Boot] = Up]
      BY <2>0, <3>1 DEF TypeOK, BootIsSound, Up, At
    <3>2. CASE ~(op' = [op EXCEPT ![Boot] = Up])
      BY <2>2, <2>4, <3>2 DEF NextPending, NextReady, BootSteps
    <3>. QED  BY <3>1, <3>2
  <2>5. CASE StartBegins
    BY <2>0, <2>5 DEF StartBegins, TypeOK, BootIsSound, At, Succeeded, Failed, Answered
  <2>6. CASE PendingListed \/ PendingFailed \/ ReadyListed \/ ReadyFailed
    BY <2>3, <2>4, <2>6 DEF PendingListed, PendingFailed, ReadyListed, ReadyFailed
  <2>7. CASE PendingKilled
    BY <2>0, <2>2, <2>3, <2>7 DEF PendingKilled, BootIsSound, BootSteps
  <2>8. CASE PresenceKnown
    BY <2>0, <2>2, <2>3, <2>4, <2>8 DEF PresenceKnown, BootIsSound, BootSteps
  <2>. QED  BY <2>1, <2>5, <2>6, <2>7, <2>8 DEF StartContinues
<1>3. StateIsSound(t)'
  BY <1>1 DEF TabIsSound, StateIsSound, WillKill, Creates, Creation, Idle, At
<1>. QED  BY <1>1, <1>2, <1>3
          DEF TabIsSound, CreatorIsSound, RemoverIsSound, Apart, On, Creates, Creation, Removes, Idle, At

\* Nothing is there in the beginning.
LEMMA InitUndisturbed == ASSUME Init PROVE Undisturbed
<1>1. \A c \in Callers : op[c] = Idle
  BY CallersAreAll DEF Init, All
<1>2. op[Boot] = Down
  BY CallersAreAll DEF Init, All
<1>. QED  BY <1>1, <1>2, CallersAreAll
          DEF Init, Undisturbed, TabIsSound, CreatorIsSound, RemoverIsSound, Apart, On, Creates,
              Creation, Removes, BootIsSound, StateIsSound, Idle, Down, At

\* Tabs stay disturbed.
LEMMA DisturbedStays ==
  ASSUME Inv, [Next]_vars
  PROVE  disturbed \subseteq disturbed'
BY DEF Next, vars, BeginCreate, BeginRestart, BeginDelete, BeginDeleteWorkspace, Continue,
       StartContinues, StartFails, WorkerPerforms, CallFails, LatePerformed, ServerDies

\* The second induction, on top of the first.
LEMMA UndisturbedInvariant == Spec => []Undisturbed
<1>1. Init => Undisturbed
  BY InitUndisturbed
<1>2. Inv /\ Undisturbed /\ [Next]_vars => Undisturbed'
  <2>. SUFFICES ASSUME Inv, Undisturbed, [Next]_vars, NEW t \in Tabs \ disturbed'
                PROVE  TabIsSound(t)'
    BY DEF Undisturbed
  <2>0. TabIsSound(t)
    BY DisturbedStays DEF Undisturbed
  <2>1. CASE \E c \in Callers, u \in Tabs :
                 BeginCreate(c, u) \/ BeginRestart(c, u) \/ BeginDelete(c, u)
    BY <2>0, <2>1, BeginKeepsSound
  <2>2. CASE \E c \in Callers : BeginDeleteWorkspace(c) \/ Continue(c)
    BY <2>0, <2>2, BeginKeepsSound, ContinueKeepsSound
  <2>3. CASE StartContinues \/ StartFails
    BY <2>0, <2>3, StartKeepsSound
  <2>4. CASE \E c \in All : WorkerPerforms(c) \/ CallFails(c)
    BY <2>0, <2>4, WorkerKeepsSound, FailureKeepsSound
  <2>5. CASE \E call \in late : LatePerformed(call)
    BY <2>0, <2>5, LateKeepsSound
  <2>6. CASE ServerDies
    BY <2>0, <2>6, CrashKeepsSound
  <2>7. CASE UNCHANGED vars
    BY <2>0, <2>7
       DEF vars, TabIsSound, CreatorIsSound, RemoverIsSound, Apart, On, Creates, Creation, Fresh,
           Settling, Outset, Sessionless, Removes, BootIsSound, StateIsSound, WillKill, Waits,
           Started, Succeeded, Failed, Answered
  <2>. QED  BY <2>1, <2>2, <2>3, <2>4, <2>5, <2>6, <2>7 DEF Next
<1>. QED  BY <1>1, <1>2, Invariant, PTL DEF Spec

\* When nothing is in progress a session belongs to a ready row, or a crash is to
\* account for it: of tabs no call about which failed and no restart of which met
\* another operation.
THEOREM NoSessionIsLeaked == Spec => []NoLeakedSession
<1>1. Inv /\ Undisturbed => NoLeakedSession
  <2>. SUFFICES ASSUME Inv, Undisturbed, Quiet, NEW t \in tmux \ disturbed
                PROVE  row[t] = "ready" \/ (row[t] = "none" /\ faults.crash > 0)
    BY DEF NoLeakedSession
  <2>1. t \in Tabs /\ TabIsSound(t) /\ Started /\ \A c \in Callers : op[c] = Idle
    BY DEF Inv, TypeOK, Undisturbed, Quiet
  <2>2. \A c \in Callers : ~Creates(c, t) /\ ~WillKill(c, t)
    BY <2>1 DEF Creates, Creation, WillKill, Idle, At
  <2>3. row[t] \in {"none", "pending", "ready", "failed"}
    BY <2>1 DEF Inv, TypeOK
  <2>. QED  BY <2>1, <2>2, <2>3 DEF TabIsSound, StateIsSound
<1>. QED  BY <1>1, Invariant, UndisturbedInvariant, PTL

\* A ready tab has its session while the Supervisor is up, with the same exceptions.
THEOREM ReadyTabHasSession == Spec => []ReadyHasSession
<1>1. Undisturbed => ReadyHasSession
  BY DEF Undisturbed, ReadyHasSession, TabIsSound, StateIsSound
<1>. QED  BY <1>1, UndisturbedInvariant, PTL

=============================================================================
