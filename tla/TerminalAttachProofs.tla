------------------------- MODULE TerminalAttachProofs -------------------------
(***************************************************************************)
(* Proofs about TerminalAttach for any number of connections, any bound on *)
(* queued input and any operation on the tab.                              *)
(*                                                                         *)
(* Each invariant is proved with the help of those before it.  Under every *)
(* fault:                                                                  *)
(*   - Typed;                                                              *)
(*   - FanOut, what the subscriber map and the attach attempt say of the   *)
(*     connections;                                                        *)
(*   - Order, the order in which attach and detach commands are sent;      *)
(*   - Deletion, what a deletion leaves behind;                            *)
(*   - Detaching, nobody is served while a detach is in flight;            *)
(*   - Dead, a worker that is down has no pty;                             *)
(*   - Kills, only a deletion or a restart kills the session;              *)
(*   - OneDelete, the row of the tab is deleted at most once.              *)
(* When no command times out (a late answer is then impossible):           *)
(*   - OneAttach, a single attach is under way, and one stream;            *)
(*   - Tended, a stream is watched or will be given up;                    *)
(*   - Streamed, a connection that is served has a stream, or an event     *)
(*     will say that it has none.                                          *)
(***************************************************************************)
EXTENDS TerminalAttach, TLAPS

-----------------------------------------------------------------------------
(* Queues *)

LEMMA AppendIs ==
  ASSUME NEW S, NEW q \in Seq(S), NEW e \in S
  PROVE  /\ Append(q, e) \in Seq(S)
         /\ Len(q) \in Nat /\ Len(Append(q, e)) = Len(q) + 1
         /\ \A i \in 1..Len(q) : Append(q, e)[i] = q[i]
         /\ Append(q, e)[Len(q) + 1] = e
OBVIOUS

LEMMA TailIs ==
  ASSUME NEW S, NEW q \in Seq(S), q # <<>>
  PROVE  /\ Tail(q) \in Seq(S)
         /\ Len(q) \in Nat \ {0} /\ Len(Tail(q)) = Len(q) - 1
         /\ \A i \in 1..Len(q) - 1 : Tail(q)[i] = q[i + 1]
         /\ Head(q) = q[1] /\ Head(q) \in S
OBVIOUS

-----------------------------------------------------------------------------
(* Types *)

\* What TypeOK needs to be inductive: storage gets storage commands, only a frame that
\* is queued is with the worker, only a step that waits for the worker can lose it.
Typed ==
    /\ TypeOK
    /\ toStorage \in Seq([type : StorageCommands, id : Ids])
    /\ \A s \in writing : queued[s] > 0
    /\ op.lost => op.step \in TerminalSteps
    /\ op.step # "none" => op.kind \in Operations
    /\ op.step = "none" => op.kind = "none" /\ op.result = "none"

LEMMA CommandTypes ==
  /\ \A type \in TerminalCommands \union StorageCommands, id \in Ids :
         /\ Cmd(type, id) \in Command
         /\ Cmd(type, id).type = type /\ Cmd(type, id).id = id
  /\ \A c \in Command, ok \in BOOLEAN :
         /\ Answer(c, ok) \in Message
         /\ Answer(c, ok).type = c.type /\ Answer(c, ok).id = c.id /\ Answer(c, ok).ok = ok
         /\ c = Cmd(c.type, c.id)
  /\ Subscribers \subseteq Ids /\ NoOne \in Ids /\ NoOne \notin Subscribers
BY AttachAssumption DEF Cmd, Command, Answer, Message, Ids

States == {"none", "waiting", "requested", "failed"}

LEMMA AttemptTypes ==
  /\ NoAttempt \in Attempt
  /\ NoAttempt.owner = NoOne /\ NoAttempt.ids = {} /\ NoAttempt.state = "none"
  /\ \A a \in Attempt :
        /\ a.owner \in Ids /\ a.ids \in SUBSET Subscribers /\ a.state \in States
        /\ \A x \in SUBSET Subscribers :
              /\ [a EXCEPT !.ids = x] \in Attempt
              /\ [a EXCEPT !.ids = x].owner = a.owner
              /\ [a EXCEPT !.ids = x].ids = x
              /\ [a EXCEPT !.ids = x].state = a.state
        /\ \A st \in States :
              /\ [a EXCEPT !.state = st] \in Attempt
              /\ [a EXCEPT !.state = st].owner = a.owner
              /\ [a EXCEPT !.state = st].ids = a.ids
              /\ [a EXCEPT !.state = st].state = st
  /\ \A x \in Subscribers, st \in States :
        [owner |-> x, ids |-> {x}, state |-> st] \in Attempt
<1>1. /\ NoAttempt \in Attempt
      /\ NoAttempt.owner = NoOne /\ NoAttempt.ids = {} /\ NoAttempt.state = "none"
  BY CommandTypes DEF NoAttempt, Attempt
<1>2. ASSUME NEW a \in Attempt
      PROVE  a.owner \in Ids /\ a.ids \in SUBSET Subscribers /\ a.state \in States
  BY DEF Attempt, States
<1>3. ASSUME NEW a \in Attempt, NEW x \in SUBSET Subscribers
      PROVE  /\ [a EXCEPT !.ids = x] \in Attempt
             /\ [a EXCEPT !.ids = x].owner = a.owner
             /\ [a EXCEPT !.ids = x].ids = x
             /\ [a EXCEPT !.ids = x].state = a.state
  BY DEF Attempt
<1>4. ASSUME NEW a \in Attempt, NEW st \in States
      PROVE  /\ [a EXCEPT !.state = st] \in Attempt
             /\ [a EXCEPT !.state = st].owner = a.owner
             /\ [a EXCEPT !.state = st].ids = a.ids
             /\ [a EXCEPT !.state = st].state = st
  BY DEF Attempt, States
<1>5. ASSUME NEW x \in Subscribers, NEW st \in States
      PROVE  [owner |-> x, ids |-> {x}, state |-> st] \in Attempt
  BY CommandTypes DEF Attempt, States
<1>. QED  BY <1>1, <1>2, <1>3, <1>4, <1>5

\* The last subscriber that leaves asks for a detach, unless one is in flight.
LEMMA LeaveIs ==
  ASSUME TypeOK, NEW leavers \in SUBSET Subscribers, Leave(leavers)
  PROVE  /\ subs' = subs \ leavers
         /\ detaching' \in Ids /\ toWorker' \in Seq(Command)
         /\ \/ UNCHANGED <<detaching, toWorker>>
            \/ /\ LastLeaves(leavers) /\ subs' = {} /\ detaching = NoOne /\ detaching' \in leavers
               /\ toWorker' = Append(toWorker, Cmd("detach", detaching'))
<1>1. subs' = subs \ leavers
  BY DEF Leave
<1>2. CASE LastLeaves(leavers)
  <2>1. PICK tag \in leavers : RequestDetach(tag)
    BY <1>2 DEF Leave
  <2>2. Cmd("detach", tag) \in Command /\ tag \in Ids
    BY CommandTypes DEF TerminalCommands
  <2>3. subs' = {}
    BY <1>1, <1>2 DEF LastLeaves
  <2>4. CASE UNCHANGED <<detaching, toWorker>>
    BY <1>1, <2>4 DEF TypeOK
  <2>5. CASE detaching = NoOne /\ detaching' = tag /\ toWorker' = Append(toWorker, Cmd("detach", tag))
    <3>1. toWorker' \in Seq(Command)
      BY <2>2, <2>5, AppendIs DEF TypeOK
    <3>. QED  BY <1>1, <1>2, <2>2, <2>3, <2>5, <3>1
  <2>. QED  BY <2>1, <2>4, <2>5 DEF RequestDetach
<1>3. CASE ~LastLeaves(leavers)
  BY <1>1, <1>3 DEF Leave, TypeOK
<1>. QED  BY <1>2, <1>3

\* Steps of the Terminal Worker change its own state and the channels it uses.
LEMMA WorkerFrame ==
  ASSUME WorkerStep \/ ShellExits
  PROVE  UNCHANGED <<ws, phase, queued, writing, subs, attempt, detaching, toStorage, fromStorage,
                     tab, op, joinerClosed>>
<1>. USE DEF connVars, supVars, storageVars
<1>1. CASE HandlesAttach \/ HandlesDetach \/ HandlesKill \/ HandlesCreate
  BY <1>1 DEF HandlesAttach, HandlesDetach, HandlesKill, HandlesCreate
<1>2. CASE HandlesWrite
  BY <1>2 DEF HandlesWrite
<1>3. ASSUME NEW cmd \in busy, AttachEnds(cmd) \/ KillEnds(cmd)
      PROVE  UNCHANGED <<ws, phase, queued, writing, subs, attempt, detaching, toStorage,
                         fromStorage, tab, op, joinerClosed>>
  BY <1>3 DEF AttachEnds, KillEnds
<1>4. ASSUME NEW cmd \in busy, NEW ok \in BOOLEAN, CreateEnds(cmd, ok)
      PROVE  UNCHANGED <<ws, phase, queued, writing, subs, attempt, detaching, toStorage,
                         fromStorage, tab, op, joinerClosed>>
  BY <1>4 DEF CreateEnds
<1>5. CASE PtyExit \/ Backpressure \/ WorkerRestart \/ ShellExits
  BY <1>5 DEF PtyExit, Backpressure, WorkerRestart, ShellExits
<1>. QED  BY <1>1, <1>2, <1>3, <1>4, <1>5 DEF WorkerStep

LEMMA WorkerLives ==
  ASSUME WorkerStep \/ ShellExits
  PROVE  workerUp' = workerUp \/ workerUp' = TRUE
<1>1. CASE HandlesAttach \/ HandlesDetach \/ HandlesKill \/ HandlesCreate
  BY <1>1 DEF HandlesAttach, HandlesDetach, HandlesKill, HandlesCreate
<1>2. CASE HandlesWrite
  BY <1>2 DEF HandlesWrite, workerVars
<1>3. ASSUME NEW cmd \in busy, AttachEnds(cmd) \/ KillEnds(cmd)
      PROVE  workerUp' = workerUp
  BY <1>3 DEF AttachEnds, KillEnds
<1>4. ASSUME NEW cmd \in busy, NEW ok \in BOOLEAN, CreateEnds(cmd, ok)
      PROVE  workerUp' = workerUp
  BY <1>4 DEF CreateEnds
<1>5. CASE PtyExit \/ Backpressure \/ WorkerRestart \/ ShellExits
  BY <1>5 DEF PtyExit, Backpressure, WorkerRestart, ShellExits
<1>. QED  BY <1>1, <1>2, <1>3, <1>4, <1>5 DEF WorkerStep

\* What they do to the channels: a command that arrives is taken, an answer or an event
\* is sent.
LEMMA WorkerTypes ==
  ASSUME TypeOK, WorkerStep \/ ShellExits
  PROVE  /\ toWorker' \in Seq(Command) /\ toSup' \in Seq(Message)
         /\ busy' \in SUBSET Command /\ strays' \in Nat /\ pty' \in {"none", "live", "ended"}
         /\ tmux' \in BOOLEAN /\ attachedSession' \in BOOLEAN /\ workerUp' \in BOOLEAN
<1>. DEFINE Fine == /\ toWorker' \in Seq(Command) /\ toSup' \in Seq(Message)
                    /\ busy' \in SUBSET Command /\ strays' \in Nat
                    /\ pty' \in {"none", "live", "ended"}
                    /\ tmux' \in BOOLEAN /\ attachedSession' \in BOOLEAN /\ workerUp' \in BOOLEAN
<1>. SUFFICES Fine
  OBVIOUS
<1>. USE DEF TypeOK
<1>1. ASSUME toWorker # <<>>, toWorker' = Tail(toWorker)
      PROVE  /\ Head(toWorker) \in Command /\ toWorker' \in Seq(Command)
             /\ busy \union {Head(toWorker)} \in SUBSET Command
             /\ \A ok \in BOOLEAN : Append(toSup, Answer(Head(toWorker), ok)) \in Seq(Message)
  BY <1>1, TailIs, CommandTypes, AppendIs
<1>2. \A cmd \in busy, ok \in BOOLEAN : Append(toSup, Answer(cmd, ok)) \in Seq(Message)
  BY CommandTypes, AppendIs
<1>3. CASE HandlesAttach
  BY <1>1, <1>3 DEF HandlesAttach, Arrived, Reply
<1>4. CASE HandlesDetach
  BY <1>1, <1>4 DEF HandlesDetach, Arrived, Reply, DropStream
<1>5. CASE HandlesWrite
  BY <1>1, <1>5 DEF HandlesWrite, Arrived, Reply, workerVars
<1>6. CASE HandlesKill
  BY <1>1, <1>6 DEF HandlesKill, Arrived, DropStream
<1>7. CASE HandlesCreate
  BY <1>1, <1>7 DEF HandlesCreate, Arrived
<1>8. ASSUME NEW cmd \in busy, AttachEnds(cmd)  PROVE Fine
  <2>1. CASE tmux
    <3>1. pty' \in {"none", "live", "ended"} /\ strays' \in Nat
      BY <1>8, <2>1 DEF AttachEnds
    <3>. QED  BY <1>2, <1>8, <2>1, <3>1 DEF AttachEnds, Reply
  <2>2. CASE ~tmux
    BY <1>2, <1>8, <2>2 DEF AttachEnds, Reply
  <2>. QED  BY <2>1, <2>2
<1>9. ASSUME NEW cmd \in busy, KillEnds(cmd)  PROVE Fine
  BY <1>2, <1>9 DEF KillEnds, Reply, SessionEnds
<1>10. ASSUME NEW cmd \in busy, NEW ok \in BOOLEAN, CreateEnds(cmd, ok)  PROVE Fine
  BY <1>2, <1>10 DEF CreateEnds, Reply
<1>11. CASE Backpressure
  <2>1. [type |-> "backpressure", id |-> NoOne, ok |-> TRUE] \in Message
    BY CommandTypes DEF Message, Events
  <2>. QED  BY <1>11, <2>1, AppendIs DEF Backpressure, DropStream
<1>12. CASE PtyExit
  BY <1>12 DEF PtyExit
<1>13. CASE WorkerRestart
  BY <1>13 DEF WorkerRestart
<1>14. CASE ShellExits
  <2>1. pty' \in {"none", "live", "ended"} /\ strays' \in Nat /\ tmux' \in BOOLEAN
    BY <1>14 DEF ShellExits, SessionEnds
  <2>. QED  BY <1>14, <2>1 DEF ShellExits
<1>. HIDE DEF Fine, TypeOK
<1>. QED  BY <1>3, <1>4, <1>5, <1>6, <1>7, <1>8, <1>9, <1>10, <1>11, <1>12, <1>13, <1>14
          DEF WorkerStep

\* The alternatives of JoinSession.
JoinsAttempt(s) ==
    /\ AttemptPending
    /\ subs' = subs \union {s}
    /\ attempt' = [attempt EXCEPT !.ids = @ \union {s}]
    /\ phase' = [phase EXCEPT ![s] = "joining"]
    /\ UNCHANGED <<ws, detaching, toWorker>>

JoinsFailed(s) ==
    /\ attempt.state = "failed"
    /\ subs' = subs \ (attempt.ids \union {s})
    /\ attempt' = [attempt EXCEPT !.ids = @ \union {s}]
    /\ RejectAttach(s)
    /\ UNCHANGED <<detaching, toWorker>>

JoinsOthers(s) ==
    /\ attempt.state = "none" /\ subs # {}
    /\ phase' = [phase EXCEPT ![s] = IF ws[s] = "open" THEN "attached" ELSE "over"]
    /\ subs' = IF ws[s] = "open" THEN subs \union {s} ELSE subs
    /\ UNCHANGED <<ws, attempt, detaching, toWorker>>

JoinsFirst(s) ==
    /\ First /\ workerUp
    /\ subs' = {s}
    /\ phase' = [phase EXCEPT ![s] = "joining"]
    /\ attempt' = [owner |-> s, ids |-> {s},
                   state |-> IF detaching = NoOne THEN "requested" ELSE "waiting"]
    /\ toWorker' = IF detaching = NoOne THEN Append(toWorker, Cmd("attach", s)) ELSE toWorker
    /\ UNCHANGED <<ws, detaching>>

JoinsNoWorker(s) ==
    /\ First /\ ~workerUp
    /\ RejectAttach(s)
    /\ UNCHANGED <<subs, attempt, detaching, toWorker>>

LEMMA JoinCases ==
  ASSUME NEW s \in Subscribers, JoinSession(s)
  PROVE  \/ JoinsAttempt(s) \/ JoinsFailed(s) \/ JoinsOthers(s) \/ JoinsFirst(s)
         \/ JoinsNoWorker(s)
BY DEF JoinSession, JoinsAttempt, JoinsFailed, JoinsOthers, JoinsFirst, JoinsNoWorker, supVars

\* Steps that change subscribers, as far as types go.
LEMMA SupervisorTypes ==
  ASSUME TypeOK,
         \/ \E s \in Subscribers :
               \/ GiveUp(s) /\ UNCHANGED attempt
               \/ RejectAttach(s) /\ UNCHANGED <<supVars, toWorker>>
               \/ JoinSession(s)
         \/ AttemptSucceeds
         \/ attempt.state = "requested" /\ AttemptFails
         \/ CloseSubscribers /\ UNCHANGED <<phase, attempt, detaching, toWorker>>
         \/ DetachSettles /\ UNCHANGED <<ws, phase, subs>>
  PROVE  /\ ws' \in [Subscribers -> {"none", "open", "closing", "closed"}]
         /\ phase' \in [Subscribers -> {"idle", "checking", "joining", "attached", "over"}]
         /\ subs' \in SUBSET Subscribers
         /\ attempt' \in Attempt
         /\ detaching' \in Ids
         /\ toWorker' \in Seq(Command)
<1>. DEFINE Fine == /\ ws' \in [Subscribers -> {"none", "open", "closing", "closed"}]
                    /\ phase' \in [Subscribers ->
                                     {"idle", "checking", "joining", "attached", "over"}]
                    /\ subs' \in SUBSET Subscribers
                    /\ attempt' \in Attempt
                    /\ detaching' \in Ids
                    /\ toWorker' \in Seq(Command)
<1>. SUFFICES Fine
  OBVIOUS
<1>. USE DEF TypeOK
<1>1. \A x \in Ids : /\ Append(toWorker, Cmd("attach", x)) \in Seq(Command)
                     /\ Append(toWorker, Cmd("detach", x)) \in Seq(Command)
  <2>1. \A x \in Ids : Cmd("attach", x) \in Command /\ Cmd("detach", x) \in Command
    BY CommandTypes DEF TerminalCommands
  <2>. QED  BY <2>1, AppendIs
<1>2. attempt \in Attempt
  OBVIOUS
<1>4. ASSUME NEW s \in Subscribers, GiveUp(s), UNCHANGED attempt  PROVE Fine
  <2>1. CASE phase[s] = "attached"
    <3>1. Leave({s})
      BY <1>4, <2>1 DEF GiveUp
    <3>2. subs' \in SUBSET Subscribers /\ detaching' \in Ids /\ toWorker' \in Seq(Command)
      BY <3>1, LeaveIs
    <3>. QED  BY <1>4, <2>1, <3>2 DEF GiveUp
  <2>2. CASE phase[s] # "attached"
    BY <1>4, <2>2 DEF GiveUp
  <2>. QED  BY <2>1, <2>2
<1>5. ASSUME NEW s \in Subscribers, RejectAttach(s), UNCHANGED <<supVars, toWorker>>  PROVE Fine
  BY <1>5 DEF RejectAttach, supVars
<1>6. ASSUME NEW s \in Subscribers, JoinSession(s)  PROVE Fine
  <2>1. CASE JoinsAttempt(s)
    <3>1. attempt.ids \union {s} \in SUBSET Subscribers
      BY <1>2, AttemptTypes
    <3>2. [attempt EXCEPT !.ids = attempt.ids \union {s}] \in Attempt
      BY <1>2, <3>1, AttemptTypes
    <3>. QED  BY <2>1, <3>2 DEF JoinsAttempt
  <2>2. CASE JoinsFailed(s)
    <3>1. attempt.ids \union {s} \in SUBSET Subscribers
      BY <1>2, AttemptTypes
    <3>2. [attempt EXCEPT !.ids = attempt.ids \union {s}] \in Attempt
      BY <1>2, <3>1, AttemptTypes
    <3>. QED  BY <2>2, <3>2 DEF JoinsFailed, RejectAttach
  <2>3. CASE JoinsOthers(s)
    BY <2>3 DEF JoinsOthers
  <2>4. CASE JoinsFirst(s)
    <3>1. /\ [owner |-> s, ids |-> {s}, state |-> "requested"] \in Attempt
          /\ [owner |-> s, ids |-> {s}, state |-> "waiting"] \in Attempt
      BY AttemptTypes DEF States
    <3>2. attempt' \in Attempt /\ toWorker' \in Seq(Command)
      BY <1>1, <2>4, <3>1, CommandTypes DEF JoinsFirst
    <3>. QED  BY <2>4, <3>2 DEF JoinsFirst
  <2>5. CASE JoinsNoWorker(s)
    BY <2>5 DEF JoinsNoWorker, RejectAttach, supVars
  <2>. HIDE DEF Fine, TypeOK
  <2>. QED  BY <1>6, JoinCases, <2>1, <2>2, <2>3, <2>4, <2>5
<1>7. CASE AttemptSucceeds
  <2>1. Leave(GoneJoiners) /\ GoneJoiners \in SUBSET Subscribers
    BY <1>7 DEF AttemptSucceeds, GoneJoiners, Joiners
  <2>2. subs' \in SUBSET Subscribers /\ detaching' \in Ids /\ toWorker' \in Seq(Command)
    BY <2>1, LeaveIs
  <2>. QED  BY AttemptTypes, <1>7, <2>2 DEF AttemptSucceeds
<1>8. CASE attempt.state = "requested" /\ AttemptFails
  <2>1. [attempt EXCEPT !.state = "failed"] \in Attempt /\ attempt.owner \in Ids
    BY <1>2, AttemptTypes DEF States
  <2>. QED  BY <1>1, <1>8, <2>1 DEF AttemptFails, RejectJoiners
<1>9. CASE CloseSubscribers /\ UNCHANGED <<phase, attempt, detaching, toWorker>>
  BY <1>9 DEF CloseSubscribers
<1>10. CASE DetachSettles /\ UNCHANGED <<ws, phase, subs>>
  <2>1. CASE attempt.state = "waiting"
    <3>1. [attempt EXCEPT !.state = "requested"] \in Attempt /\ attempt.owner \in Ids
      BY <1>2, AttemptTypes DEF States
    <3>2. /\ attempt' = [attempt EXCEPT !.state = "requested"]
          /\ toWorker' = Append(toWorker, Cmd("attach", attempt.owner))
          /\ detaching' = NoOne
      BY <1>10, <2>1 DEF DetachSettles
    <3>3. NoOne \in Ids
      BY CommandTypes
    <3>. QED  BY <1>1, <1>10, <3>1, <3>2, <3>3
  <2>2. CASE attempt.state = "failed"
    <3>1. attempt' = NoAttempt /\ toWorker' = toWorker /\ detaching' = NoOne
      BY <1>10, <2>2 DEF DetachSettles
    <3>. QED  BY <1>10, <3>1, AttemptTypes, CommandTypes
  <2>3. CASE attempt.state \notin {"waiting", "failed"}
    <3>1. attempt' = attempt /\ toWorker' = toWorker /\ detaching' = NoOne
      BY <1>10, <2>3 DEF DetachSettles
    <3>. QED  BY <1>2, <1>10, <3>1, CommandTypes
  <2>. QED  BY <2>1, <2>2, <2>3
<1>. HIDE DEF Fine, TypeOK
<1>. QED  BY <1>4, <1>5, <1>6, <1>7, <1>8, <1>9, <1>10

\* A step of the tab operation.
LEMMA AdvanceIs ==
  ASSUME Typed, NEW kind \in Operations, NEW ok \in BOOLEAN, Advance(kind, ok),
         op.step # "done", op.step # "none" => kind = op.kind
  PROVE  LET next == NextStep(kind, ok)
         IN  /\ next \in OpSteps \ {"none"}
             /\ op'.kind = kind /\ op'.step = next /\ op'.lost = (next \in TerminalSteps /\ ~workerUp)
             /\ op'.result = IF next = "done" THEN Result ELSE "none"
             /\ op' \in [kind : {"none"} \union Operations, step : OpSteps, lost : BOOLEAN,
                         result : {"none", "deleted", "restarted", "failed"}]
             /\ op'.lost => next \in TerminalSteps
             /\ \/ toWorker' = toWorker
                \/ next \in TerminalSteps /\ toWorker' = Append(toWorker, Cmd(next, NoOne))
             /\ \/ toStorage' = toStorage
                \/ next \in StorageSteps /\ toStorage' = Append(toStorage, Cmd(next, NoOne))
             /\ toWorker' \in Seq(Command)
             /\ toStorage' \in Seq([type : StorageCommands, id : Ids])
             /\ subs' \in SUBSET Subscribers
             /\ ws' \in [Subscribers -> {"none", "open", "closing", "closed"}]
<1>. DEFINE next == NextStep(kind, ok)
<1>. USE DEF Typed, TypeOK
<1>1. next \in OpSteps \ {"none"}
  BY AttachAssumption DEF NextStep, OpSteps, TerminalSteps, StorageSteps
<1>2. Result \in {"none", "deleted", "restarted", "failed"}
  BY DEF Result
<1>3. /\ next \in TerminalSteps => Append(toWorker, Cmd(next, NoOne)) \in Seq(Command)
      /\ next \in StorageSteps
            => Append(toStorage, Cmd(next, NoOne)) \in Seq([type : StorageCommands, id : Ids])
  BY AppendIs, CommandTypes DEF TerminalSteps, StorageSteps, TerminalCommands, StorageCommands, Cmd
<1>. HIDE DEF next
<1>4. op' = [kind   |-> kind, step   |-> next,
             lost   |-> next \in TerminalSteps /\ ~workerUp,
             result |-> IF next = "done" THEN Result ELSE "none"]
  BY DEF Advance, next
<1>5. subs' \in SUBSET Subscribers /\ ws' \in [Subscribers -> {"none", "open", "closing", "closed"}]
  BY DEF Advance, CloseSubscribers
<1>6. /\ toWorker' = IF next \in TerminalSteps /\ workerUp
                     THEN Append(toWorker, Cmd(next, NoOne)) ELSE toWorker
      /\ toStorage' = IF next \in StorageSteps
                      THEN Append(toStorage, Cmd(next, NoOne)) ELSE toStorage
  BY DEF Advance, next
<1>. QED  BY <1>1, <1>2, <1>3, <1>4, <1>5, <1>6 DEF next

\* Whoever continues the tab operation has begun it and not ended it.
LEMMA OpMoves ==
  ASSUME Typed, (\E kind \in Operations : OpStart(kind)) \/ OpContinues
                 \/ OpTerminalReply \/ OpStorageReply \/ OpTimeout
  PROVE  \/ UNCHANGED <<connVars, supVars, toWorker, toStorage, tab, workerVars, tmux, op,
                        joinerClosed>>
         \/ \E kind \in Operations, ok \in BOOLEAN :
               /\ Advance(kind, ok) /\ op.step # "done"
               /\ op.step # "none" => kind = op.kind
<1>. USE DEF Typed, TypeOK
<1>1. ASSUME NEW kind \in Operations, OpStart(kind)
      PROVE  Advance(kind, TRUE) /\ op.step = "none"
  BY <1>1 DEF OpStart
<1>2. CASE OpContinues
  <2>1. op.step \in {"attempt"} \union TerminalSteps
    BY <1>2 DEF OpContinues, OpMustContinue
  <2>. QED  BY <1>2, <2>1 DEF OpContinues, TerminalSteps
<1>3. CASE OpTerminalReply
  <2>1. toSup # <<>> /\ Head(toSup).type \in TerminalSteps /\ Head(toSup).ok \in BOOLEAN
    <3>1. toSup # <<>> /\ Head(toSup).type \in TerminalSteps
      BY <1>3 DEF OpTerminalReply, Received
    <3>2. Head(toSup) \in Message
      BY <3>1, TailIs
    <3>. QED  BY <3>1, <3>2 DEF Message
  <2>. QED  BY <1>3, <2>1 DEF OpTerminalReply, TerminalSteps
<1>4. CASE OpStorageReply
  <2>1. Head(fromStorage).ok \in BOOLEAN /\ Head(fromStorage).type \notin {"done", "none"}
    <3>1. Head(fromStorage) \in Message
      BY <1>4, TailIs DEF OpStorageReply
    <3>. QED  BY <3>1 DEF Message, TerminalCommands, StorageCommands, Events
  <2>. QED  BY <1>4, <2>1 DEF OpStorageReply
<1>5. CASE OpTimeout
  BY <1>5 DEF OpTimeout, TerminalSteps, StorageSteps
<1>. QED  BY <1>1, <1>2, <1>3, <1>4, <1>5

StorageCmd == [type : StorageCommands, id : Ids]

LEMMA StorageCmdIs == StorageCmd \subseteq Command /\ Seq(StorageCmd) \subseteq Seq(Command)
<1>1. StorageCmd \subseteq Command
  BY DEF StorageCmd, Command
<1>2. ASSUME NEW q \in Seq(StorageCmd)  PROVE q \in Seq(Command)
  <2>1. Len(q) \in Nat /\ q \in [1..Len(q) -> StorageCmd]
    OBVIOUS
  <2>2. q \in [1..Len(q) -> Command]
    BY <1>1, <2>1
  <2>. QED  BY <2>1, <2>2
<1>. QED  BY <1>1, <1>2

LEMMA TypedInit == Init => Typed
<1>1. NoAttempt \in Attempt /\ NoOne \in Ids
  BY AttemptTypes, CommandTypes
<1>2. MaxQueued \in Nat
  BY AttachAssumption
<1>3. ASSUME Init
      PROVE  /\ ws \in [Subscribers -> {"none", "open", "closing", "closed"}]
             /\ phase \in [Subscribers -> {"idle", "checking", "joining", "attached", "over"}]
             /\ queued \in [Subscribers -> 0..MaxQueued]
             /\ op \in [kind : {"none"} \union Operations, step : OpSteps, lost : BOOLEAN,
                        result : {"none", "deleted", "restarted", "failed"}]
  BY <1>2, <1>3 DEF Init, OpSteps
<1>4. ASSUME Init
      PROVE  /\ toWorker \in Seq(Command) /\ toStorage \in Seq(Command)
             /\ toSup \in Seq(Message) /\ fromStorage \in Seq(Message)
             /\ toStorage \in Seq([type : StorageCommands, id : Ids])
  BY <1>4 DEF Init
<1>5. ASSUME Init
      PROVE  /\ writing = {} /\ subs = {} /\ attempt = NoAttempt /\ detaching = NoOne
             /\ workerUp = TRUE /\ attachedSession = FALSE /\ pty = "none" /\ strays = 0
             /\ busy = {} /\ tmux = TRUE /\ tab = "ready" /\ joinerClosed = FALSE
             /\ op.lost = FALSE /\ op.step = "none" /\ op.kind = "none" /\ op.result = "none"
  BY <1>5 DEF Init
<1>6. ASSUME Init  PROVE TypeOK
  BY <1>1, <1>3, <1>4, <1>5, <1>6 DEF TypeOK
<1>7. ASSUME Init  PROVE Typed
  BY <1>4, <1>5, <1>6, <1>7 DEF Typed
<1>. QED  BY <1>7

LEMMA TypedNext == Typed /\ [Next]_vars => Typed'
<1>a. ASSUME Typed, UNCHANGED vars  PROVE Typed'
  BY <1>a DEF Typed, TypeOK, vars, connVars, supVars, storageVars, workerVars
<1>. SUFFICES ASSUME Typed, Next  PROVE Typed'
  BY <1>a
<1>0. TypeOK
  BY DEF Typed
<1>. USE DEF Typed, TypeOK
<1>1. ASSUME NEW s \in Subscribers, Connect(s)  PROVE Typed'
  <2>1. Cmd("check", s) \in StorageCmd
    BY CommandTypes DEF StorageCmd, StorageCommands, Cmd
  <2>2. toStorage' \in Seq(StorageCmd)
    BY <1>1, <2>1, AppendIs DEF Connect, StorageCmd
  <2>3. toStorage' \in Seq(Command) /\ toStorage' \in Seq([type : StorageCommands, id : Ids])
    BY <2>2, StorageCmdIs DEF StorageCmd
  <2>4. ws' \in [Subscribers -> {"none", "open", "closing", "closed"}] /\
        phase' \in [Subscribers -> {"idle", "checking", "joining", "attached", "over"}]
    BY <1>1 DEF Connect
  <2>5. UNCHANGED <<queued, writing, subs, attempt, detaching, toWorker, toSup, fromStorage, tab,
                    workerUp, attachedSession, pty, strays, busy, tmux, op, joinerClosed>>
    BY <1>1 DEF Connect, supVars, workerVars
  <2>. QED  BY <2>3, <2>4, <2>5
<1>2. ASSUME NEW s \in Subscribers, SocketCloses(s)  PROVE Typed'
  <2>1. CASE phase[s] = "attached"
    <3>1. Leave({s})
      BY <1>2, <2>1 DEF SocketCloses
    <3>2. subs' \in SUBSET Subscribers /\ detaching' \in Ids /\ toWorker' \in Seq(Command)
      BY <1>0, <3>1, LeaveIs
    <3>3. ws' \in [Subscribers -> {"none", "open", "closing", "closed"}] /\
          phase' \in [Subscribers -> {"idle", "checking", "joining", "attached", "over"}]
      BY <1>2, <2>1 DEF SocketCloses
    <3>4. UNCHANGED <<queued, writing, attempt, toSup, toStorage, fromStorage, tab, workerUp,
                      attachedSession, pty, strays, busy, tmux, op, joinerClosed>>
      BY <1>2 DEF SocketCloses, storageVars, workerVars
    <3>. QED  BY <3>2, <3>3, <3>4
  <2>2. CASE phase[s] # "attached"
    BY <1>2, <2>2 DEF SocketCloses, storageVars, workerVars
  <2>. QED  BY <2>1, <2>2
<1>3. ASSUME NEW s \in Subscribers, CheckReply(s)  PROVE Typed'
  <2>1. fromStorage' \in Seq(Message)
    BY <1>3, TailIs DEF CheckReply
  <2>2. CASE UNCHANGED <<ws, phase, supVars, toWorker>>
    BY <1>3, <2>1, <2>2 DEF CheckReply, supVars, workerVars
  <2>3. CASE RejectAttach(s) /\ UNCHANGED <<supVars, toWorker>>
    <3>1. ws' \in [Subscribers -> {"none", "open", "closing", "closed"}] /\
          phase' \in [Subscribers -> {"idle", "checking", "joining", "attached", "over"}]
      BY <2>3 DEF RejectAttach
    <3>. QED  BY <1>3, <2>1, <2>3, <3>1 DEF CheckReply, supVars, workerVars
  <2>4. CASE JoinSession(s)
    <3>. HIDE DEF Typed, TypeOK
    <3>1. /\ ws' \in [Subscribers -> {"none", "open", "closing", "closed"}]
          /\ phase' \in [Subscribers -> {"idle", "checking", "joining", "attached", "over"}]
          /\ subs' \in SUBSET Subscribers /\ attempt' \in Attempt
          /\ detaching' \in Ids /\ toWorker' \in Seq(Command)
      BY <1>0, <2>4, SupervisorTypes
    <3>. QED  BY <1>3, <2>1, <3>1 DEF CheckReply, workerVars, Typed, TypeOK
  <2>. QED  BY <1>3, <2>2, <2>3, <2>4 DEF CheckReply
<1>. DEFINE Conn == /\ ws' \in [Subscribers -> {"none", "open", "closing", "closed"}]
                    /\ phase' \in [Subscribers ->
                                     {"idle", "checking", "joining", "attached", "over"}]
                    /\ subs' \in SUBSET Subscribers
                    /\ detaching' \in Ids
                    /\ toWorker' \in Seq(Command)
<1>4. ASSUME NEW s \in Subscribers, UNCHANGED attempt, GiveUp(s)  PROVE Conn
  <2>. HIDE DEF Typed, TypeOK
  <2>. QED  BY <1>0, <1>4, SupervisorTypes
<1>5. ASSUME NEW s \in Subscribers, UNCHANGED attempt,
             UNCHANGED <<ws, phase, subs, detaching, toWorker>>  PROVE Conn
  BY <1>5
<1>6. ASSUME NEW s \in Subscribers, WriteEnds(s), s \in writing
      PROVE  /\ queued' \in [Subscribers -> 0..MaxQueued] /\ writing' \in SUBSET Subscribers
             /\ \A t \in writing' : queued'[t] > 0
  BY <1>6, AttachAssumption DEF WriteEnds
<1>. HIDE DEF Conn
<1>7. ASSUME NEW s \in Subscribers, FrameArrives(s)  PROVE Typed'
  <2>1. Conn
    BY <1>4, <1>5, <1>7 DEF FrameArrives
  <2>2. queued' \in [Subscribers -> 0..MaxQueued] /\ \A t \in writing : queued'[t] > 0
    <3>1. CASE UNCHANGED queued
      BY <3>1
    <3>2. CASE queued[s] < MaxQueued /\ queued' = [queued EXCEPT ![s] = queued[s] + 1]
      BY <3>2, AttachAssumption
    <3>. QED  BY <1>7, <3>1, <3>2 DEF FrameArrives, MayQueue
  <2>. QED  BY <1>7, <2>1, <2>2 DEF FrameArrives, storageVars, workerVars, Conn
<1>8. ASSUME NEW s \in Subscribers, Write(s)  PROVE Typed'
  <2>1. Cmd("write", s) \in Command
    BY CommandTypes DEF TerminalCommands
  <2>2. toWorker' \in Seq(Command)
    BY <1>8, <2>1, AppendIs DEF Write
  <2>. QED  BY <1>8, <2>2 DEF Write, supVars, storageVars, workerVars
<1>9. ASSUME NEW s \in Subscribers, WriteTimeout(s)  PROVE Typed'
  <2>1. Conn /\ UNCHANGED <<attempt, toSup, storageVars, workerVars, tmux, op, joinerClosed>>
    BY <1>4, <1>9 DEF WriteTimeout
  <2>2. /\ queued' \in [Subscribers -> 0..MaxQueued] /\ writing' \in SUBSET Subscribers
        /\ \A t \in writing' : queued'[t] > 0
    BY <1>6, <1>9 DEF WriteTimeout
  <2>. QED  BY <2>1, <2>2 DEF storageVars, workerVars, Conn
<1>10. ASSUME NEW s \in Subscribers, CheckTimeout(s)  PROVE Typed'
  <2>1. ws' \in [Subscribers -> {"none", "open", "closing", "closed"}] /\
        phase' \in [Subscribers -> {"idle", "checking", "joining", "attached", "over"}]
    BY <1>10 DEF CheckTimeout, RejectAttach
  <2>. QED  BY <1>10, <2>1 DEF CheckTimeout, supVars, storageVars, workerVars
<1>11. ASSUME toSup # <<>>, toSup' = Tail(toSup)
       PROVE  toSup' \in Seq(Message) /\ Head(toSup) \in Message
  BY <1>11, TailIs
<1>12. CASE AttachReply \/ AttachTimeout
  <2>1. toSup' \in Seq(Message)
    BY <1>11, <1>12 DEF AttachReply, AttachTimeout, Received
  <2>f. UNCHANGED <<queued, writing, toStorage, fromStorage, tab, workerUp, attachedSession, pty,
                    strays, busy, tmux, op, joinerClosed>>
    BY <1>12 DEF AttachReply, AttachTimeout, storageVars, workerVars
  <2>2. CASE UNCHANGED <<ws, phase, supVars, toWorker>>
    BY <2>f, <2>1, <2>2 DEF supVars
  <2>3. CASE AttemptSucceeds \/ (attempt.state = "requested" /\ AttemptFails)
    <3>. HIDE DEF Typed, TypeOK
    <3>1. Conn /\ attempt' \in Attempt
      BY <1>0, <2>3, SupervisorTypes DEF Conn
    <3>. QED  BY <2>f, <2>1, <3>1 DEF Typed, TypeOK, Conn
  <2>. HIDE DEF Typed, TypeOK
  <2>. QED  BY <1>12, <2>2, <2>3 DEF AttachReply, AttachTimeout
<1>13. CASE DetachReply \/ DetachTimeout
  <2>1. toSup' \in Seq(Message)
    BY <1>11, <1>13 DEF DetachReply, DetachTimeout, Received
  <2>f. UNCHANGED <<ws, phase, queued, writing, subs, toStorage, fromStorage, tab, workerUp,
                    attachedSession, pty, strays, busy, tmux, op, joinerClosed>>
    BY <1>13 DEF DetachReply, DetachTimeout, connVars, storageVars, workerVars
  <2>2. CASE UNCHANGED <<attempt, detaching, toWorker>>
    BY <2>f, <2>1, <2>2
  <2>3. CASE DetachSettles
    <3>. HIDE DEF Typed, TypeOK
    <3>1. Conn /\ attempt' \in Attempt
      BY <1>0, <2>f, <2>3, SupervisorTypes DEF Conn
    <3>. QED  BY <2>f, <2>1, <3>1 DEF Typed, TypeOK, Conn
  <2>. HIDE DEF Typed, TypeOK
  <2>. QED  BY <1>13, <2>2, <2>3 DEF DetachReply, DetachTimeout
<1>14. CASE WriteReply
  <2>. DEFINE s == Head(toSup).id
  <2>1. toSup' \in Seq(Message)
    BY <1>11, <1>14 DEF WriteReply, Received
  <2>2. CASE s \notin writing
    BY <1>14, <2>1, <2>2 DEF WriteReply, storageVars, workerVars
  <2>3. CASE s \in writing
    <3>1. Conn /\ UNCHANGED <<attempt, storageVars, workerVars, tmux, op, joinerClosed>>
      BY <1>4, <1>5, <1>14, <2>3 DEF WriteReply
    <3>2. /\ queued' \in [Subscribers -> 0..MaxQueued] /\ writing' \in SUBSET Subscribers
          /\ \A t \in writing' : queued'[t] > 0
      BY <1>6, <1>14, <2>3 DEF WriteReply
    <3>. QED  BY <2>1, <3>1, <3>2 DEF storageVars, workerVars, Conn
  <2>. QED  BY <2>2, <2>3
<1>15. CASE BackpressureEvent
  <2>1. toSup' \in Seq(Message)
    BY <1>11, <1>15 DEF BackpressureEvent, Received
  <2>2. subs' \in SUBSET Subscribers /\ ws' \in [Subscribers -> {"none", "open", "closing", "closed"}]
    BY <1>15 DEF BackpressureEvent, CloseSubscribers
  <2>3. joinerClosed' \in BOOLEAN
    BY <1>15 DEF BackpressureEvent
  <2>. QED  BY <1>15, <2>1, <2>2, <2>3 DEF BackpressureEvent, storageVars, workerVars
<1>16. CASE WorkerStep \/ ShellExits
  <2>. HIDE DEF Typed, TypeOK
  <2>1. /\ toWorker' \in Seq(Command) /\ toSup' \in Seq(Message)
        /\ busy' \in SUBSET Command /\ strays' \in Nat /\ pty' \in {"none", "live", "ended"}
        /\ tmux' \in BOOLEAN /\ attachedSession' \in BOOLEAN /\ workerUp' \in BOOLEAN
    BY <1>0, <1>16, WorkerTypes
  <2>2. UNCHANGED <<ws, phase, queued, writing, subs, attempt, detaching, toStorage, fromStorage,
                    tab, op, joinerClosed>>
    BY <1>16, WorkerFrame
  <2>. QED  BY <2>1, <2>2 DEF Typed, TypeOK
<1>17. CASE WorkerExit
  <2>1. attempt' \in Attempt /\ detaching' \in Ids /\ subs' = {}
    BY <1>17, AttemptTypes, CommandTypes DEF WorkerExit, ClearSession
  <2>2. /\ phase' \in [Subscribers -> {"idle", "checking", "joining", "attached", "over"}]
        /\ ws' \in [Subscribers -> {"none", "open", "closing", "closed"}]
        /\ queued' \in [Subscribers -> 0..MaxQueued]
    BY <1>17, AttachAssumption DEF WorkerExit
  <2>3. /\ op'.kind = op.kind /\ op'.step = op.step /\ op'.result = op.result
        /\ op' \in [kind : {"none"} \union Operations, step : OpSteps, lost : BOOLEAN,
                     result : {"none", "deleted", "restarted", "failed"}]
        /\ op'.lost => op'.step \in TerminalSteps
    BY <1>17 DEF WorkerExit
  <2>4. tmux' \in BOOLEAN
    BY <1>17 DEF WorkerExit
  <2>5. /\ UNCHANGED <<toStorage, fromStorage, tab, joinerClosed>> /\ writing' = {}
        /\ workerUp' = FALSE /\ toWorker' = <<>> /\ toSup' = <<>> /\ attachedSession' = FALSE
        /\ pty' = "none" /\ strays' = 0 /\ busy' = {}
    BY <1>17 DEF WorkerExit, storageVars
  <2>6. TypeOK'
    <3>1. toWorker' \in Seq(Command) /\ toSup' \in Seq(Message)
      BY <2>5
    <3>2. writing' \in SUBSET Subscribers /\ subs' \in SUBSET Subscribers /\ busy' \in SUBSET Command
      BY <2>1, <2>5
    <3>3. workerUp' \in BOOLEAN /\ attachedSession' \in BOOLEAN /\ strays' \in Nat
          /\ pty' \in {"none", "live", "ended"} /\ joinerClosed' \in BOOLEAN
      BY <2>5
    <3>4. toStorage' \in Seq(Command) /\ fromStorage' \in Seq(Message)
          /\ tab' \in {"ready", "pending", "failed", "deleted"}
      BY <2>5
    <3>. QED  BY <2>1, <2>2, <2>3, <2>4, <3>1, <3>2, <3>3, <3>4
  <2>. HIDE DEF TypeOK
  <2>. QED  BY <2>3, <2>5, <2>6
<1>18. CASE StorageHandles
  <2>1. /\ Head(toStorage) \in StorageCmd /\ toStorage' \in Seq(StorageCmd)
    BY <1>18, TailIs DEF StorageHandles, StorageCmd
  <2>2. Head(toStorage) \in Command
    BY <2>1, StorageCmdIs
  <2>3. \A ok \in BOOLEAN : Append(fromStorage, Answer(Head(toStorage), ok)) \in Seq(Message)
    BY <2>2, CommandTypes, AppendIs
  <2>4. Head(toStorage).type \in StorageCommands
    BY <2>1 DEF StorageCmd
  <2>5. /\ tab' \in {"ready", "pending", "failed", "deleted"}
    BY <1>18, <2>4 DEF StorageHandles, StorageCommands
  <2>6. \E ok \in BOOLEAN : fromStorage' = Append(fromStorage, Answer(Head(toStorage), ok))
    <3>. DEFINE cmd == Head(toStorage)
                ok  == CASE cmd.type = "check"         -> tab = "ready"
                         [] cmd.type = "createPending" -> tab = "deleted"
                         [] cmd.type = "delete"        -> tab # "deleted"
                         [] OTHER                      -> tab = "pending"
    <3>1. ok \in BOOLEAN
      BY <2>4 DEF StorageCommands
    <3>2. fromStorage' = Append(fromStorage, Answer(Head(toStorage), ok))
      BY <1>18 DEF StorageHandles
    <3>. QED  BY <3>1, <3>2
  <2>7. fromStorage' \in Seq(Message)
    BY <2>3, <2>6
  <2>8. toStorage' \in Seq(Command) /\ toStorage' \in Seq([type : StorageCommands, id : Ids])
    BY <2>1, StorageCmdIs DEF StorageCmd
  <2>9. UNCHANGED <<ws, phase, queued, writing, subs, attempt, detaching, toWorker, toSup,
                    workerUp, attachedSession, pty, strays, busy, tmux, op, joinerClosed>>
    BY <1>18 DEF StorageHandles, connVars, supVars, workerVars
  <2>. QED  BY <2>5, <2>7, <2>8, <2>9
<1>19. CASE \/ \E kind \in Operations : OpStart(kind)
            \/ OpContinues \/ OpTerminalReply \/ OpStorageReply \/ OpTimeout
  <2>1. toSup' \in Seq(Message) /\ fromStorage' \in Seq(Message)
    <3>1. toSup' = toSup \/ (toSup # <<>> /\ toSup' = Tail(toSup))
      BY <1>19 DEF OpStart, OpContinues, OpTerminalReply, OpStorageReply, OpTimeout, Received
    <3>2. fromStorage' = fromStorage \/ (fromStorage # <<>> /\ fromStorage' = Tail(fromStorage))
      BY <1>19 DEF OpStart, OpContinues, OpTerminalReply, OpStorageReply, OpTimeout
    <3>3. toSup \in Seq(Message) /\ fromStorage \in Seq(Message)
      OBVIOUS
    <3>. HIDE DEF Typed, TypeOK
    <3>4. toSup' \in Seq(Message)
      BY <3>1, <3>3, TailIs
    <3>5. fromStorage' \in Seq(Message)
      BY <3>2, <3>3, TailIs
    <3>. QED  BY <3>4, <3>5
  <2>2. CASE UNCHANGED <<connVars, supVars, toWorker, toStorage, tab, workerVars, tmux, op,
                         joinerClosed>>
    BY <2>1, <2>2 DEF connVars, supVars, workerVars
  <2>3. ASSUME NEW kind \in Operations, NEW ok \in BOOLEAN, Advance(kind, ok),
               op.step # "done", op.step # "none" => kind = op.kind
        PROVE  Typed'
    <3>. HIDE DEF Typed, TypeOK
    <3>1. /\ op'.kind = kind /\ op'.step # "none"
          /\ op' \in [kind : {"none"} \union Operations, step : OpSteps, lost : BOOLEAN,
                       result : {"none", "deleted", "restarted", "failed"}]
          /\ op'.lost => op'.step \in TerminalSteps
          /\ toWorker' \in Seq(Command)
          /\ toStorage' \in Seq(StorageCmd)
          /\ subs' \in SUBSET Subscribers
          /\ ws' \in [Subscribers -> {"none", "open", "closing", "closed"}]
      BY <2>3, AdvanceIs DEF StorageCmd
    <3>2. UNCHANGED <<phase, queued, writing, attempt, detaching, tab, workerVars, tmux,
                      joinerClosed>>
      BY <2>3 DEF Advance
    <3>3. toStorage' \in Seq(Command) /\ toStorage' \in Seq([type : StorageCommands, id : Ids])
      BY <3>1, StorageCmdIs DEF StorageCmd
    <3>4. UNCHANGED <<phase, queued, writing, attempt, detaching, tab, workerUp, attachedSession,
                      pty, strays, busy, tmux, joinerClosed>>
      BY <3>2 DEF workerVars
    <3>. QED  BY <2>1, <3>1, <3>3, <3>4 DEF Typed, TypeOK
  <2>. HIDE DEF Typed, TypeOK
  <2>. QED  BY <1>19, <2>2, <2>3, OpMoves
<1>. HIDE DEF Typed, TypeOK
<1>. QED  BY <1>1, <1>2, <1>3, <1>7, <1>8, <1>9, <1>10, <1>12, <1>13, <1>14, <1>15, <1>16, <1>17,
             <1>18, <1>19 DEF Next, ConnectionStep

\* TypeOK: the types of all variables of the session, its channels and its operation.
THEOREM TypeCorrect == Spec => []TypeOK
<1>1. Spec => []Typed
  BY TypedInit, TypedNext, PTL DEF Spec
<1>2. Typed => TypeOK
  BY DEF Typed
<1>. QED  BY <1>1, <1>2, PTL

-----------------------------------------------------------------------------
(* The subscriber map and the attach attempt *)

\* A connection is in the map while it waits for the attempt or is served; it waits only
\* for a pending attempt that it has joined, and while there is an attempt everyone in
\* the map waits for it.  Both need a worker that is up.
FanOutOf(s) ==
    /\ s \in subs => phase[s] = "joining" \/ (phase[s] = "attached" /\ ws[s] = "open")
    /\ phase[s] \in {"joining", "attached"} /\ ws[s] = "open" => s \in subs
    /\ phase[s] = "joining" => AttemptPending /\ s \in attempt.ids
    /\ s \in attempt.ids => phase[s] \in {"joining", "over"}
    /\ s \in subs /\ attempt.state # "none" => phase[s] = "joining"

FanOut ==
    /\ \A s \in Subscribers : FanOutOf(s)
    /\ AttemptPending => attempt.owner \in Subscribers /\ phase[attempt.owner] = "joining"
    /\ subs # {} \/ attempt.state # "none" => workerUp

LEMMA FanOutInit == Init => FanOut
BY AttemptTypes DEF Init, FanOut, FanOutOf, AttemptPending

\* A connection whose socket closes or that gives up.
LEMMA FanOutLeave ==
  ASSUME TypeOK, FanOut, NEW s \in Subscribers, UNCHANGED <<attempt, workerUp>>,
         ws' = [ws EXCEPT ![s] = ws'[s]], ws'[s] # "open" \/ ws'[s] = ws[s],
         IF phase[s] = "attached"
         THEN /\ phase' = [phase EXCEPT ![s] = "over"]
              /\ subs' = subs \ {s}
         ELSE UNCHANGED <<phase, subs>>
  PROVE  FanOut'
<1>. USE DEF FanOut, TypeOK
<1>1. ASSUME NEW t \in Subscribers  PROVE FanOutOf(t)'
  <2>1. CASE t # s
    BY <2>1 DEF FanOutOf, AttemptPending
  <2>2. CASE t = s
    BY <2>2 DEF FanOutOf, AttemptPending
  <2>. QED  BY <2>1, <2>2
<1>2. AttemptPending' => attempt'.owner \in Subscribers /\ phase'[attempt'.owner] = "joining"
  BY DEF AttemptPending
<1>3. subs' # {} \/ attempt'.state # "none" => workerUp'
  BY DEF AttemptPending
<1>. QED  BY <1>1, <1>2, <1>3

LEMMA FanOutReject ==
  ASSUME TypeOK, FanOut, NEW s \in Subscribers, phase[s] = "checking", RejectAttach(s),
         UNCHANGED <<subs, attempt, workerUp>>
  PROVE  FanOut'
<1>. USE DEF FanOut, TypeOK
<1>1. ASSUME NEW t \in Subscribers  PROVE FanOutOf(t)'
  BY DEF FanOutOf, AttemptPending, RejectAttach
<1>2. AttemptPending' => attempt'.owner \in Subscribers /\ phase'[attempt'.owner] = "joining"
  BY DEF AttemptPending, RejectAttach
<1>. QED  BY <1>1, <1>2

LEMMA FanOutJoin ==
  ASSUME TypeOK, FanOut, NEW s \in Subscribers, phase[s] = "checking", JoinSession(s),
         UNCHANGED workerUp
  PROVE  FanOut'
<1>. USE DEF FanOut, TypeOK
<1>1. attempt \in Attempt /\ attempt.state \in States
  BY AttemptTypes
<1>2. CASE JoinsAttempt(s)
  <2>1. attempt'.state = attempt.state /\ attempt'.owner = attempt.owner
        /\ attempt'.ids = attempt.ids \union {s}
    BY <1>1, <1>2 DEF JoinsAttempt, Attempt
  <2>2. ASSUME NEW t \in Subscribers  PROVE FanOutOf(t)'
    BY <1>2, <2>1 DEF FanOutOf, AttemptPending, JoinsAttempt
  <2>3. AttemptPending' => attempt'.owner \in Subscribers /\ phase'[attempt'.owner] = "joining"
    BY <1>2, <2>1 DEF AttemptPending, JoinsAttempt
  <2>. QED  BY <1>2, <2>1, <2>2, <2>3 DEF JoinsAttempt, AttemptPending
<1>3. CASE JoinsFailed(s)
  <2>1. attempt'.state = attempt.state /\ attempt'.owner = attempt.owner
        /\ attempt'.ids = attempt.ids \union {s}
    BY <1>1, <1>3 DEF JoinsFailed, Attempt
  <2>2. ASSUME NEW t \in Subscribers  PROVE FanOutOf(t)'
    BY <1>3, <2>1 DEF FanOutOf, AttemptPending, JoinsFailed, RejectAttach
  <2>3. ~AttemptPending'
    BY <1>3, <2>1 DEF AttemptPending, JoinsFailed
  <2>. QED  BY <1>3, <2>1, <2>2, <2>3 DEF JoinsFailed
<1>4. CASE JoinsOthers(s)
  <2>1. ASSUME NEW t \in Subscribers  PROVE FanOutOf(t)'
    BY <1>4 DEF FanOutOf, AttemptPending, JoinsOthers
  <2>2. ~AttemptPending'
    BY <1>4 DEF AttemptPending, JoinsOthers
  <2>. QED  BY <1>4, <2>1, <2>2 DEF JoinsOthers
<1>5. CASE JoinsFirst(s)
  <2>1. attempt'.state \in {"requested", "waiting"} /\ attempt'.owner = s /\ attempt'.ids = {s}
    BY <1>5 DEF JoinsFirst
  <2>2. ASSUME NEW t \in Subscribers  PROVE FanOutOf(t)'
    BY <1>5, <2>1 DEF FanOutOf, AttemptPending, JoinsFirst, First
  <2>. QED  BY <1>5, <2>1, <2>2 DEF JoinsFirst, AttemptPending
<1>6. CASE JoinsNoWorker(s)
  BY <1>6, FanOutReject DEF JoinsNoWorker
<1>. HIDE DEF FanOut, TypeOK
<1>. QED  BY JoinCases, <1>2, <1>3, <1>4, <1>5, <1>6

\* The attempt succeeds, fails, or is settled by a detach; subscribers are closed.
LEMMA FanOutAttempt ==
  ASSUME TypeOK, FanOut, UNCHANGED workerUp,
         \/ AttemptPending /\ AttemptSucceeds
         \/ AttemptPending /\ AttemptFails
         \/ DetachSettles /\ UNCHANGED <<ws, phase, subs>>
         \/ CloseSubscribers /\ UNCHANGED <<phase, attempt>>
  PROVE  FanOut'
<1>. USE DEF FanOut, TypeOK
<1>1. attempt \in Attempt /\ attempt.state \in States
  BY AttemptTypes
<1>2. CASE AttemptPending /\ AttemptSucceeds
  <2>1. subs' = subs \ GoneJoiners /\ attempt' = NoAttempt
    BY <1>2 DEF AttemptSucceeds, Leave
  <2>2. attempt'.state = "none" /\ attempt'.ids = {}
    BY <2>1, AttemptTypes
  <2>3. ASSUME NEW t \in Subscribers  PROVE FanOutOf(t)'
    BY <1>2, <2>1, <2>2, <2>3 DEF FanOutOf, AttemptSucceeds, AttemptPending, GoneJoiners, Joiners
  <2>. QED  BY <2>1, <2>2, <2>3 DEF AttemptPending
<1>3. CASE AttemptPending /\ AttemptFails
  <2>1. attempt'.state = "failed" /\ attempt'.ids = attempt.ids /\ subs' = subs \ attempt.ids
    BY <1>1, <1>3 DEF AttemptFails, Attempt
  <2>2. ASSUME NEW t \in Subscribers  PROVE FanOutOf(t)'
    BY <1>3, <2>1 DEF FanOutOf, AttemptFails, RejectJoiners, AttemptPending, Joiners
  <2>. QED  BY <1>3, <2>1, <2>2 DEF AttemptPending
<1>4. CASE DetachSettles /\ UNCHANGED <<ws, phase, subs>>
  <2>1. \/ /\ attempt.state = "waiting" /\ attempt'.state = "requested"
           /\ attempt'.owner = attempt.owner /\ attempt'.ids = attempt.ids
        \/ attempt.state = "failed" /\ attempt' = NoAttempt
        \/ attempt' = attempt
    BY <1>1, <1>4 DEF DetachSettles, Attempt
  <2>2. CASE attempt.state = "failed" /\ attempt' = NoAttempt
    BY <1>4, <2>2, AttemptTypes DEF FanOutOf, AttemptPending
  <2>3. CASE /\ \/ attempt'.state = attempt.state
                \/ attempt.state = "waiting" /\ attempt'.state = "requested"
             /\ attempt'.owner = attempt.owner /\ attempt'.ids = attempt.ids
    BY <1>4, <2>3 DEF FanOutOf, AttemptPending
  <2>. QED  BY <2>1, <2>2, <2>3
<1>5. CASE CloseSubscribers /\ UNCHANGED <<phase, attempt>>
  <2>1. ASSUME NEW t \in Subscribers  PROVE FanOutOf(t)'
    BY <1>5 DEF FanOutOf, CloseSubscribers, AttemptPending
  <2>. QED  BY <1>5, <2>1 DEF CloseSubscribers, AttemptPending
<1>. QED  BY <1>2, <1>3, <1>4, <1>5

LEMMA FanOutNext == Typed /\ FanOut /\ [Next]_vars => FanOut'
<1>a. ASSUME FanOut, UNCHANGED <<ws, phase, subs, attempt, workerUp>>  PROVE FanOut'
  BY <1>a DEF FanOut, FanOutOf, AttemptPending
<1>b. ASSUME FanOut, UNCHANGED vars  PROVE FanOut'
  BY <1>a, <1>b DEF vars, connVars, supVars, workerVars
<1>. SUFFICES ASSUME Typed, FanOut, Next  PROVE FanOut'
  BY <1>b
<1>0. TypeOK
  BY DEF Typed
<1>1. ASSUME NEW s \in Subscribers, Connect(s)  PROVE FanOut'
  <2>1. ws' = [ws EXCEPT ![s] = "open"] /\ phase' = [phase EXCEPT ![s] = "checking"]
        /\ phase[s] = "idle" /\ UNCHANGED <<subs, attempt, workerUp>>
    BY <1>1 DEF Connect, supVars, workerVars
  <2>2. ASSUME NEW t \in Subscribers  PROVE FanOutOf(t)'
    BY <1>0, <2>1 DEF FanOut, FanOutOf, AttemptPending, TypeOK
  <2>. QED  BY <1>0, <2>1, <2>2 DEF FanOut, AttemptPending, TypeOK
<1>2. ASSUME NEW s \in Subscribers, SocketCloses(s)  PROVE FanOut'
  <2>1. ws' = [ws EXCEPT ![s] = "closed"] /\ UNCHANGED <<attempt, workerUp>>
    BY <1>2 DEF SocketCloses, workerVars
  <2>2. IF phase[s] = "attached"
        THEN /\ phase' = [phase EXCEPT ![s] = "over"]
             /\ subs' = subs \ {s}
        ELSE UNCHANGED <<phase, subs>>
    BY <1>2 DEF SocketCloses, Leave
  <2>3. ws'[s] = "closed"
    BY <1>0, <2>1 DEF TypeOK
  <2>. QED  BY <1>0, <2>1, <2>2, <2>3, FanOutLeave
<1>3. ASSUME NEW s \in Subscribers, CheckReply(s)  PROVE FanOut'
  <2>1. workerUp' = workerUp
    BY <1>3 DEF CheckReply, workerVars
  <2>2. CASE UNCHANGED <<ws, phase, supVars, toWorker>>
    BY <1>a, <2>1, <2>2 DEF supVars
  <2>3. CASE phase[s] = "checking" /\ RejectAttach(s) /\ UNCHANGED <<supVars, toWorker>>
    BY <1>0, <2>1, <2>3, FanOutReject DEF supVars
  <2>4. CASE phase[s] = "checking" /\ JoinSession(s)
    BY <1>0, <2>1, <2>4, FanOutJoin
  <2>. QED  BY <1>3, <2>2, <2>3, <2>4 DEF CheckReply
<1>4. ASSUME NEW s \in Subscribers, GiveUp(s), UNCHANGED <<attempt, workerUp>>  PROVE FanOut'
  <2>1. ws' = [ws EXCEPT ![s] = IF ws[s] = "open" THEN "closing" ELSE ws[s]]
    BY <1>4 DEF GiveUp
  <2>2. IF phase[s] = "attached"
        THEN /\ phase' = [phase EXCEPT ![s] = "over"]
             /\ subs' = subs \ {s}
        ELSE UNCHANGED <<phase, subs>>
    BY <1>4 DEF GiveUp, Leave
  <2>3. ws'[s] # "open" /\ ws' = [ws EXCEPT ![s] = ws'[s]]
    BY <1>0, <2>1 DEF TypeOK
  <2>. QED  BY <1>0, <1>4, <2>2, <2>3, FanOutLeave
<1>5. ASSUME NEW s \in Subscribers, FrameArrives(s) \/ Write(s) \/ WriteTimeout(s)
      PROVE  FanOut'
  <2>1. UNCHANGED <<attempt, workerUp>>
    BY <1>5 DEF FrameArrives, Write, WriteTimeout, supVars, workerVars
  <2>2. GiveUp(s) \/ UNCHANGED <<ws, phase, subs>>
    BY <1>5 DEF FrameArrives, Write, WriteTimeout, supVars
  <2>. QED  BY <1>a, <1>4, <2>1, <2>2
<1>6. ASSUME NEW s \in Subscribers, CheckTimeout(s)  PROVE FanOut'
  BY <1>0, <1>6, FanOutReject DEF CheckTimeout, supVars, workerVars
<1>7. CASE AttachReply \/ AttachTimeout
  <2>1. workerUp' = workerUp
    BY <1>7 DEF AttachReply, AttachTimeout, workerVars
  <2>2. \/ AttemptPending /\ AttemptSucceeds
        \/ AttemptPending /\ AttemptFails
        \/ UNCHANGED <<ws, phase, subs, attempt>>
    BY <1>7 DEF AttachReply, AttachTimeout, AttemptPending, supVars
  <2>. QED  BY <1>0, <1>a, <2>1, <2>2, FanOutAttempt
<1>8. CASE DetachReply \/ DetachTimeout
  <2>1. UNCHANGED <<ws, phase, subs, workerUp>>
    BY <1>8 DEF DetachReply, DetachTimeout, connVars, workerVars
  <2>2. DetachSettles \/ attempt' = attempt
    BY <1>8 DEF DetachReply, DetachTimeout
  <2>. QED  BY <1>0, <1>a, <2>1, <2>2, FanOutAttempt
<1>9. CASE WriteReply
  <2>1. UNCHANGED <<attempt, workerUp>>
    BY <1>9 DEF WriteReply, workerVars
  <2>2. \/ Head(toSup).id \in Subscribers /\ GiveUp(Head(toSup).id)
        \/ UNCHANGED <<ws, phase, subs>>
    BY <1>0, <1>9 DEF WriteReply, TypeOK
  <2>. QED  BY <1>a, <1>4, <2>1, <2>2
<1>10. CASE BackpressureEvent
  BY <1>0, <1>10, FanOutAttempt DEF BackpressureEvent, workerVars
<1>11. CASE WorkerStep \/ ShellExits
  <2>1. UNCHANGED <<ws, phase, subs, attempt>>
    BY <1>11, WorkerFrame
  <2>2. workerUp' = workerUp \/ workerUp' = TRUE
    BY <1>11, WorkerLives
  <2>. QED  BY <2>1, <2>2 DEF FanOut, FanOutOf, AttemptPending
<1>12. CASE WorkerExit
  <2>1. subs' = {} /\ attempt' = NoAttempt
        /\ phase' = [s \in Subscribers |->
                       IF s \in Joiners \/ (s \in writing /\ phase[s] = "attached") THEN "over"
                       ELSE phase[s]]
        /\ ws' = [s \in Subscribers |->
                     IF ws[s] = "open" /\ (s \in subs \/ s \in Joiners) THEN "closing" ELSE ws[s]]
    BY <1>12 DEF WorkerExit, ClearSession
  <2>2. ASSUME NEW t \in Subscribers  PROVE FanOutOf(t)'
    BY <2>1, AttemptTypes DEF FanOut, FanOutOf, AttemptPending, Joiners
  <2>. QED  BY <2>1, <2>2, AttemptTypes DEF FanOut, AttemptPending
<1>13. CASE StorageHandles
  BY <1>a, <1>13 DEF StorageHandles, connVars, supVars, workerVars
<1>14. CASE \/ \E kind \in Operations : OpStart(kind)
            \/ OpContinues \/ OpTerminalReply \/ OpStorageReply \/ OpTimeout
  <2>1. CASE UNCHANGED <<connVars, supVars, toWorker, toStorage, tab, workerVars, tmux, op,
                         joinerClosed>>
    BY <1>a, <2>1 DEF connVars, supVars, workerVars
  <2>2. ASSUME NEW kind \in Operations, NEW ok \in BOOLEAN, Advance(kind, ok)  PROVE FanOut'
    <3>1. UNCHANGED <<phase, attempt, workerUp>> /\ (CloseSubscribers \/ UNCHANGED <<ws, subs>>)
      BY <2>2 DEF Advance, workerVars
    <3>. QED  BY <1>0, <1>a, <3>1, FanOutAttempt
  <2>. QED  BY <1>14, <2>1, <2>2, OpMoves
<1>. QED  BY <1>1, <1>2, <1>3, <1>5, <1>6, <1>7, <1>8, <1>9, <1>10, <1>11, <1>12, <1>13, <1>14
          DEF Next, ConnectionStep

\* SubscriptionsAreLive: the fan-out map holds exactly the connections that are being
\* served or wait for the attempt, and only under a worker that is up.
THEOREM MapIsLive == Spec => []SubscriptionsAreLive
<1>1. Typed /\ FanOut /\ [Next]_vars => (Typed /\ FanOut)'
  BY TypedNext, FanOutNext
<1>2. Typed /\ FanOut => SubscriptionsAreLive
  BY DEF FanOut, FanOutOf, SubscriptionsAreLive
<1>. QED  BY TypedInit, FanOutInit, <1>1, <1>2, PTL DEF Spec

-----------------------------------------------------------------------------
(* The order of attach and detach commands *)

AttachSent(x)     == \E i \in 1..Len(toWorker) : toWorker[i] = Cmd("attach", x)
AttachHandled(x)  == Cmd("attach", x) \in busy
AttachAnswered(x) == \E i \in 1..Len(toSup) : toSup[i].type = "attach" /\ toSup[i].id = x

\* The connection has sent no attach so far.
Unsent(x) == \/ phase[x] \in {"idle", "checking"}
             \/ attempt.state = "waiting" /\ attempt.owner = x

SentOnce ==
    /\ \A i, j \in 1..Len(toWorker) :
          toWorker[i].type = "attach" /\ toWorker[i] = toWorker[j] => i = j
    /\ \A x \in Ids : AttachSent(x) => ~AttachHandled(x) /\ ~AttachAnswered(x)
    /\ \A x \in Subscribers :
          Unsent(x) => ~AttachSent(x) /\ ~AttachHandled(x) /\ ~AttachAnswered(x)

\* Every detach on its way is followed by the attach that is awaited.
DetachesPrecede ==
    attempt.state = "requested" =>
        \A j \in 1..Len(toWorker) : toWorker[j].type = "detach" =>
            \E i \in j + 1..Len(toWorker) : toWorker[i] = Cmd("attach", attempt.owner)

NoDetachUnderway ==
    \A s \in subs : phase[s] = "attached" =>
        \A j \in 1..Len(toWorker) : toWorker[j].type # "detach"

Order == SentOnce /\ DetachesPrecede /\ NoDetachUnderway

LEMMA OrderInit == Init => Order
BY DEF Init, Order, SentOnce, DetachesPrecede, NoDetachUnderway, NoAttempt, AttachSent,
       AttachHandled, AttachAnswered

\* The Supervisor takes messages but makes none, and no connection is unsent again.
Takes ==
    /\ \A x \in Ids : AttachHandled(x)' => AttachHandled(x)
    /\ \A x \in Ids : AttachAnswered(x)' => AttachAnswered(x)

LEMMA OrderKept ==
  ASSUME TypeOK, Order, Takes, toWorker' = toWorker,
         \A x \in Subscribers : Unsent(x)' => Unsent(x),
         attempt'.state = "requested" =>
             attempt.state = "requested" /\ attempt'.owner = attempt.owner,
         \A s \in subs' : phase'[s] = "attached" => \E t \in subs : phase[t] = "attached"
  PROVE  Order'
<1>1. SentOnce'
  BY CommandTypes DEF Order, SentOnce, Takes, AttachSent
<1>2. DetachesPrecede'
  BY DEF Order, DetachesPrecede
<1>3. NoDetachUnderway'
  BY DEF Order, NoDetachUnderway
<1>. QED  BY <1>1, <1>2, <1>3 DEF Order

LEMMA OrderSend ==
  ASSUME TypeOK, Order, Takes, NEW c \in Command, toWorker' = Append(toWorker, c),
         c.type \notin {"attach", "detach"},
         \A x \in Subscribers : Unsent(x)' => Unsent(x),
         attempt'.state = "requested" =>
             attempt.state = "requested" /\ attempt'.owner = attempt.owner,
         \A s \in subs' : phase'[s] = "attached" => \E t \in subs : phase[t] = "attached"
  PROVE  Order'
<1>1. /\ toWorker \in Seq(Command) /\ Len(toWorker) \in Nat /\ Len(toWorker') = Len(toWorker) + 1
      /\ \A i \in 1..Len(toWorker) : toWorker'[i] = toWorker[i] /\ i \in 1..Len(toWorker')
      /\ \A i \in 1..Len(toWorker') : i \in 1..Len(toWorker) \/ toWorker'[i] = c
  BY AppendIs DEF TypeOK
<1>2. \A x \in Ids : AttachSent(x)' => AttachSent(x)
  <2>1. \A x \in Ids : Cmd("attach", x).type = "attach"
    BY CommandTypes DEF TerminalCommands
  <2>. QED  BY <1>1, <2>1 DEF AttachSent
<1>3. SentOnce'
  <2>1. \A i, j \in 1..Len(toWorker') :
           toWorker'[i].type = "attach" /\ toWorker'[i] = toWorker'[j] => i = j
    BY <1>1 DEF Order, SentOnce
  <2>. QED  BY <1>2, <2>1, CommandTypes DEF Order, SentOnce, Takes
<1>4. DetachesPrecede'
  <2>1. SUFFICES ASSUME attempt'.state = "requested", NEW j \in 1..Len(toWorker'),
                        toWorker'[j].type = "detach"
                 PROVE  \E i \in j + 1..Len(toWorker') : toWorker'[i] = Cmd("attach", attempt'.owner)
    BY DEF DetachesPrecede
  <2>2. j \in 1..Len(toWorker) /\ toWorker[j].type = "detach"
    BY <1>1, <2>1
  <2>3. PICK i \in j + 1..Len(toWorker) : toWorker[i] = Cmd("attach", attempt.owner)
    BY <2>1, <2>2 DEF Order, DetachesPrecede
  <2>. QED  BY <1>1, <2>1, <2>2, <2>3
<1>5. NoDetachUnderway'
  BY <1>1 DEF Order, NoDetachUnderway
<1>. QED  BY <1>3, <1>4, <1>5 DEF Order

LEMMA OrderDetach ==
  ASSUME TypeOK, Order, Takes, NEW x \in Ids, toWorker' = Append(toWorker, Cmd("detach", x)),
         \A y \in Subscribers : Unsent(y)' => Unsent(y),
         attempt'.state # "requested",
         \A s \in subs' : phase'[s] # "attached"
  PROVE  Order'
<1>0. Cmd("detach", x) \in Command /\ Cmd("detach", x).type = "detach"
  BY CommandTypes DEF TerminalCommands
<1>1. /\ toWorker \in Seq(Command) /\ Len(toWorker) \in Nat /\ Len(toWorker') = Len(toWorker) + 1
      /\ \A i \in 1..Len(toWorker) : toWorker'[i] = toWorker[i] /\ i \in 1..Len(toWorker')
      /\ \A i \in 1..Len(toWorker') :
            i \in 1..Len(toWorker) \/ toWorker'[i] = Cmd("detach", x)
  BY <1>0, AppendIs DEF TypeOK
<1>2. \A y \in Ids : AttachSent(y)' => AttachSent(y)
  BY <1>0, <1>1, CommandTypes DEF AttachSent, TerminalCommands
<1>3. SentOnce'
  <2>1. \A i, j \in 1..Len(toWorker') :
           toWorker'[i].type = "attach" /\ toWorker'[i] = toWorker'[j] => i = j
    BY <1>0, <1>1 DEF Order, SentOnce
  <2>. QED  BY <1>2, <2>1, CommandTypes DEF Order, SentOnce, Takes
<1>. QED  BY <1>3 DEF Order, DetachesPrecede, NoDetachUnderway

LEMMA OrderAttach ==
  ASSUME TypeOK, Order, Takes, NEW x \in Subscribers, toWorker' = Append(toWorker, Cmd("attach", x)),
         Unsent(x), ~Unsent(x)',
         \A y \in Subscribers : Unsent(y)' => Unsent(y),
         attempt'.owner = x,
         \A s \in subs' : phase'[s] # "attached"
  PROVE  Order'
<1>0. /\ Cmd("attach", x) \in Command /\ Cmd("attach", x).type = "attach" /\ x \in Ids
      /\ \A y \in Ids : Cmd("attach", y) = Cmd("attach", x) => y = x
  BY CommandTypes DEF TerminalCommands, Cmd
<1>1. /\ toWorker \in Seq(Command) /\ Len(toWorker) \in Nat /\ Len(toWorker') = Len(toWorker) + 1
      /\ \A i \in 1..Len(toWorker) : toWorker'[i] = toWorker[i] /\ i \in 1..Len(toWorker')
      /\ \A i \in 1..Len(toWorker') :
            i \in 1..Len(toWorker) \/ (i = Len(toWorker') /\ toWorker'[i] = Cmd("attach", x))
      /\ toWorker'[Len(toWorker')] = Cmd("attach", x)
  BY <1>0, AppendIs DEF TypeOK
<1>2. \A y \in Ids : AttachSent(y)' => AttachSent(y) \/ y = x
  BY <1>0, <1>1 DEF AttachSent
<1>3. ~AttachSent(x) /\ ~AttachHandled(x) /\ ~AttachAnswered(x)
  BY DEF Order, SentOnce
<1>4. SentOnce'
  <2>1. \A i, j \in 1..Len(toWorker') :
           toWorker'[i].type = "attach" /\ toWorker'[i] = toWorker'[j] => i = j
    BY <1>1, <1>3 DEF Order, SentOnce, AttachSent
  <2>2. ASSUME NEW y \in Ids, AttachSent(y)'  PROVE ~AttachHandled(y)' /\ ~AttachAnswered(y)'
    BY <1>0, <1>2, <1>3, <2>2 DEF Order, SentOnce, Takes
  <2>3. ASSUME NEW y \in Subscribers, Unsent(y)'
        PROVE  ~AttachSent(y)' /\ ~AttachHandled(y)' /\ ~AttachAnswered(y)'
    BY <1>2, <2>3, CommandTypes DEF Order, SentOnce, Takes
  <2>. QED  BY <2>1, <2>2, <2>3 DEF SentOnce
<1>5. DetachesPrecede'
  <2>1. SUFFICES ASSUME NEW j \in 1..Len(toWorker'), toWorker'[j].type = "detach"
                 PROVE  \E i \in j + 1..Len(toWorker') : toWorker'[i] = Cmd("attach", attempt'.owner)
    BY DEF DetachesPrecede
  <2>2. j # Len(toWorker')
    BY <1>0, <1>1, <2>1
  <2>3. Len(toWorker') \in j + 1..Len(toWorker')
    BY <1>1, <2>2
  <2>. QED  BY <1>1, <2>3
<1>. QED  BY <1>4, <1>5 DEF Order, NoDetachUnderway

\* The worker takes the commands in order and answers each attach once.
LEMMA OrderWorker ==
  ASSUME TypeOK, Order, WorkerStep \/ ShellExits
  PROVE  Order'
<1>1. UNCHANGED <<phase, subs, attempt>>
  BY WorkerFrame
<1>2. \A x \in Subscribers : Unsent(x)' => Unsent(x)
  BY <1>1 DEF Unsent
<1>3. toWorker \in Seq(Command) /\ toSup \in Seq(Message) /\ busy \in SUBSET Command
  BY DEF TypeOK
<1>4. ASSUME NEW type \in TerminalCommands, Arrived(type), toWorker' = Tail(toWorker)
      PROVE  /\ Head(toWorker) = toWorker[1] /\ Head(toWorker) \in Command
             /\ Head(toWorker).type = type
             /\ Len(toWorker) \in Nat \ {0} /\ Len(toWorker') = Len(toWorker) - 1
             /\ \A i \in 1..Len(toWorker') :
                   toWorker'[i] = toWorker[i + 1] /\ i + 1 \in 1..Len(toWorker)
  BY <1>3, <1>4, TailIs DEF Arrived
<1>5. ASSUME NEW type \in TerminalCommands, Arrived(type), toWorker' = Tail(toWorker)
      PROVE  /\ DetachesPrecede' /\ NoDetachUnderway'
             /\ \A x \in Ids : AttachSent(x)' => AttachSent(x) /\ Head(toWorker) # Cmd("attach", x)
             /\ \A i, j \in 1..Len(toWorker') :
                   toWorker'[i].type = "attach" /\ toWorker'[i] = toWorker'[j] => i = j
  <2>0. /\ Len(toWorker) \in Nat \ {0} /\ Len(toWorker') = Len(toWorker) - 1
        /\ Head(toWorker) = toWorker[1]
        /\ \A i \in 1..Len(toWorker') :
              toWorker'[i] = toWorker[i + 1] /\ i + 1 \in 1..Len(toWorker)
    BY <1>4, <1>5
  <2>1. NoDetachUnderway'
    BY <1>1, <2>0 DEF Order, NoDetachUnderway
  <2>2. \A i, j \in 1..Len(toWorker') :
           toWorker'[i].type = "attach" /\ toWorker'[i] = toWorker'[j] => i = j
    BY <2>0 DEF Order, SentOnce
  <2>3. ASSUME NEW x \in Ids, AttachSent(x)'
        PROVE  AttachSent(x) /\ Head(toWorker) # Cmd("attach", x)
    <3>1. PICK i \in 1..Len(toWorker') : toWorker'[i] = Cmd("attach", x)
      BY <2>3 DEF AttachSent
    <3>2. i + 1 \in 1..Len(toWorker) /\ toWorker[i + 1] = Cmd("attach", x) /\ i + 1 # 1
      BY <2>0, <3>1
    <3>3. Cmd("attach", x).type = "attach" /\ 1 \in 1..Len(toWorker)
      BY <2>0, CommandTypes DEF TerminalCommands
    <3>4. toWorker[1] # Cmd("attach", x)
      BY <3>2, <3>3 DEF Order, SentOnce
    <3>. QED  BY <2>0, <3>2, <3>4 DEF AttachSent
  <2>4. DetachesPrecede'
    <3>1. SUFFICES ASSUME attempt.state = "requested", NEW j \in 1..Len(toWorker'),
                          toWorker'[j].type = "detach"
                   PROVE  \E i \in j + 1..Len(toWorker') : toWorker'[i] = Cmd("attach", attempt.owner)
      BY <1>1 DEF DetachesPrecede
    <3>2. j + 1 \in 1..Len(toWorker) /\ toWorker[j + 1].type = "detach"
      BY <2>0, <3>1
    <3>3. PICK i \in (j + 1) + 1..Len(toWorker) : toWorker[i] = Cmd("attach", attempt.owner)
      BY <3>1, <3>2 DEF Order, DetachesPrecede
    <3>4. i - 1 \in j + 1..Len(toWorker') /\ i - 1 \in 1..Len(toWorker') /\ (i - 1) + 1 = i
      BY <2>0, <3>1, <3>3
    <3>5. toWorker'[i - 1] = toWorker[i]
      BY <2>0, <3>4
    <3>. QED  BY <3>3, <3>4, <3>5
  <2>. QED  BY <2>1, <2>2, <2>3, <2>4
<1>6. ASSUME NEW m \in Message, toSup' = Append(toSup, m)
      PROVE  \A x \in Ids : AttachAnswered(x)'
                => AttachAnswered(x) \/ (m.type = "attach" /\ m.id = x)
  <2>1. \A i \in 1..Len(toSup') : (i \in 1..Len(toSup) /\ toSup'[i] = toSup[i]) \/ toSup'[i] = m
    BY <1>3, <1>6, AppendIs
  <2>. QED  BY <2>1 DEF AttachAnswered
<1>7. CASE HandlesAttach
  <2>0. Arrived("attach") /\ toWorker' = Tail(toWorker) /\ "attach" \in TerminalCommands
    BY <1>7 DEF HandlesAttach, TerminalCommands
  <2>1. PICK z \in Ids : Head(toWorker) = Cmd("attach", z)
    BY <1>4, <2>0, CommandTypes DEF Command
  <2>2. AttachSent(z)
    BY <1>4, <2>0, <2>1 DEF AttachSent
  <2>3. ~AttachHandled(z) /\ ~AttachAnswered(z) /\ (z \in Subscribers => ~Unsent(z))
    BY <2>2 DEF Order, SentOnce
  <2>4. ~AttachSent(z)'
    BY <1>5, <2>0, <2>1
  <2>5. Answer(Head(toWorker), TRUE) \in Message
        /\ Answer(Head(toWorker), TRUE).type = "attach" /\ Answer(Head(toWorker), TRUE).id = z
    <3>1. Head(toWorker) \in Command /\ Head(toWorker).type = "attach"
      BY <1>4, <2>0
    <3>2. Head(toWorker).id = z
      BY <2>1 DEF Cmd
    <3>. QED  BY <3>1, <3>2, CommandTypes
  <2>6. /\ \A x \in Ids : AttachHandled(x)' => AttachHandled(x) \/ x = z
        /\ \A x \in Ids : AttachAnswered(x)' => AttachAnswered(x) \/ x = z
        /\ ~(AttachHandled(z)' /\ AttachAnswered(z)')
    <3>1. CASE pty # "none"
      <4>1. busy' = busy /\ toSup' = Append(toSup, Answer(Head(toWorker), TRUE))
        BY <1>7, <3>1 DEF HandlesAttach, Reply
      <4>. QED  BY <1>6, <2>3, <2>5, <4>1 DEF AttachHandled
    <3>2. CASE pty = "none"
      <4>1. busy' = busy \union {Cmd("attach", z)} /\ toSup' = toSup
        BY <1>7, <2>1, <3>2 DEF HandlesAttach
      <4>2. \A x \in Ids : Cmd("attach", x) = Cmd("attach", z) => x = z
        BY DEF Cmd
      <4>. QED  BY <2>3, <4>1, <4>2 DEF AttachHandled, AttachAnswered
    <3>. QED  BY <3>1, <3>2
  <2>7. SentOnce'
    <3>1. ASSUME NEW x \in Ids, AttachSent(x)'  PROVE ~AttachHandled(x)' /\ ~AttachAnswered(x)'
      <4>1. AttachSent(x) /\ x # z
        BY <1>5, <2>0, <2>4, <3>1
      <4>. QED  BY <2>6, <4>1 DEF Order, SentOnce
    <3>2. ASSUME NEW x \in Subscribers, Unsent(x)'
          PROVE  ~AttachSent(x)' /\ ~AttachHandled(x)' /\ ~AttachAnswered(x)'
      <4>1. Unsent(x) /\ x # z /\ x \in Ids
        BY <1>2, <2>3, <3>2, CommandTypes
      <4>. QED  BY <1>5, <2>0, <2>6, <4>1 DEF Order, SentOnce
    <3>. QED  BY <1>5, <2>0, <3>1, <3>2 DEF SentOnce
  <2>. QED  BY <1>5, <2>0, <2>7 DEF Order
<1>8. ASSUME NEW m \in Message, m.type # "attach", toSup' = toSup \/ toSup' = Append(toSup, m)
      PROVE  \A x \in Ids : AttachAnswered(x)' => AttachAnswered(x)
  BY <1>6, <1>8 DEF AttachAnswered
<1>9. ASSUME toWorker' = toWorker, Takes  PROVE Order'
  BY <1>1, <1>2, <1>9, OrderKept
<1>10. CASE HandlesDetach \/ HandlesWrite \/ HandlesKill \/ HandlesCreate
  <2>1. PICK type \in TerminalCommands : type # "attach" /\ Arrived(type)
    BY <1>10 DEF HandlesDetach, HandlesWrite, HandlesKill, HandlesCreate, TerminalCommands
  <2>2. toWorker' = Tail(toWorker)
    BY <1>10 DEF HandlesDetach, HandlesWrite, HandlesKill, HandlesCreate
  <2>3. Head(toWorker) \in Command /\ Head(toWorker).type # "attach"
    BY <1>4, <2>1, <2>2
  <2>4. \A ok \in BOOLEAN : Answer(Head(toWorker), ok) \in Message
                             /\ Answer(Head(toWorker), ok).type # "attach"
    BY <2>3, CommandTypes
  <2>5. \A x \in Ids : AttachAnswered(x)' => AttachAnswered(x)
    <3>1. CASE HandlesDetach
      BY <1>8, <2>4, <3>1 DEF HandlesDetach, Reply
    <3>2. CASE HandlesWrite
      <4>1. (pty # "none") \in BOOLEAN
        OBVIOUS
      <4>. QED  BY <1>8, <2>4, <3>2, <4>1 DEF HandlesWrite, Reply
    <3>3. CASE HandlesKill \/ HandlesCreate
      BY <3>3 DEF HandlesKill, HandlesCreate, AttachAnswered
    <3>. QED  BY <1>10, <3>1, <3>2, <3>3
  <2>6. busy' = busy \/ busy' = busy \union {Head(toWorker)}
    BY <1>10 DEF HandlesDetach, HandlesWrite, HandlesKill, HandlesCreate, workerVars
  <2>7. \A x \in Ids : Cmd("attach", x).type = "attach"
    BY CommandTypes DEF TerminalCommands
  <2>8. \A x \in Ids : AttachHandled(x)' => AttachHandled(x)
    BY <2>3, <2>6, <2>7 DEF AttachHandled
  <2>9. SentOnce'
    BY <1>2, <1>5, <2>1, <2>2, <2>5, <2>8, CommandTypes DEF Order, SentOnce
  <2>. QED  BY <1>5, <2>1, <2>2, <2>9 DEF Order
<1>11. ASSUME NEW cmd \in busy, AttachEnds(cmd)  PROVE Order'
  <2>1. PICK z \in Ids : cmd = Cmd("attach", z)
    BY <1>3, <1>11, CommandTypes DEF AttachEnds, Command
  <2>2. AttachHandled(z)
    BY <2>1 DEF AttachHandled
  <2>3. \A ok \in BOOLEAN : /\ Answer(cmd, ok) \in Message
                             /\ Answer(cmd, ok).type = "attach" /\ Answer(cmd, ok).id = z
    BY <1>3, <2>1, CommandTypes DEF TerminalCommands
  <2>4. \A x \in Ids : AttachAnswered(x)' => AttachAnswered(x) \/ x = z
    <3>1. \E ok \in BOOLEAN : toSup' = Append(toSup, Answer(cmd, ok))
      BY <1>11 DEF AttachEnds, Reply
    <3>. QED  BY <1>6, <2>3, <3>1
  <2>5. \A x \in Ids : AttachHandled(x)' => AttachHandled(x)
    BY <1>11 DEF AttachEnds, AttachHandled
  <2>6. toWorker' = toWorker /\ \A x \in Ids : AttachSent(x)' = AttachSent(x)
    BY <1>11 DEF AttachEnds, AttachSent
  <2>7. ~AttachSent(z) /\ (z \in Subscribers => ~Unsent(z))
    BY <2>2 DEF Order, SentOnce
  <2>8. SentOnce'
    BY <1>2, <2>4, <2>5, <2>6, <2>7, CommandTypes DEF Order, SentOnce
  <2>. QED  BY <1>1, <2>6, <2>8 DEF Order, DetachesPrecede, NoDetachUnderway
<1>12. ASSUME NEW cmd \in busy, NEW ok \in BOOLEAN, KillEnds(cmd) \/ CreateEnds(cmd, ok)
       PROVE  Order'
  <2>1. cmd \in Command /\ cmd.type # "attach"
    BY <1>3, <1>12 DEF KillEnds, CreateEnds, KillCommands
  <2>2. \A yes \in BOOLEAN : Answer(cmd, yes) \in Message /\ Answer(cmd, yes).type # "attach"
    BY <2>1, CommandTypes
  <2>3. \A x \in Ids : AttachAnswered(x)' => AttachAnswered(x)
    BY <1>8, <1>12, <2>2 DEF KillEnds, CreateEnds, Reply
  <2>4. toWorker' = toWorker /\ \A x \in Ids : AttachHandled(x)' => AttachHandled(x)
    BY <1>12 DEF KillEnds, CreateEnds, AttachHandled
  <2>. QED  BY <1>9, <2>3, <2>4 DEF Takes
<1>13. CASE Backpressure
  <2>. DEFINE m == [type |-> "backpressure", id |-> NoOne, ok |-> TRUE]
  <2>1. m \in Message /\ m.type # "attach"
    BY CommandTypes DEF Message, Events
  <2>2. toSup' = Append(toSup, m) /\ toWorker' = toWorker /\ busy' = busy
    BY <1>13 DEF Backpressure
  <2>3. Takes
    BY <1>8, <2>1, <2>2 DEF Takes, AttachHandled
  <2>. QED  BY <1>9, <2>2, <2>3
<1>14. CASE PtyExit \/ WorkerRestart \/ ShellExits
  BY <1>9, <1>14 DEF PtyExit, WorkerRestart, ShellExits, Takes, AttachHandled, AttachAnswered
<1>. QED  BY <1>7, <1>10, <1>11, <1>12, <1>13, <1>14 DEF WorkerStep

\* A step of the Supervisor leaves the worker's handlers alone and makes no message.
LEMMA TakesIs ==
  ASSUME TypeOK, UNCHANGED workerVars,
         toSup' = toSup \/ (toSup # <<>> /\ toSup' = Tail(toSup))
  PROVE  Takes
<1>1. CASE toSup' = toSup
  BY <1>1 DEF Takes, AttachHandled, AttachAnswered, workerVars
<1>2. CASE toSup # <<>> /\ toSup' = Tail(toSup)
  <2>1. /\ Len(toSup) \in Nat \ {0} /\ Len(toSup') = Len(toSup) - 1
        /\ \A i \in 1..Len(toSup') : toSup'[i] = toSup[i + 1] /\ i + 1 \in 1..Len(toSup)
    BY <1>2, TailIs DEF TypeOK
  <2>. QED  BY <2>1 DEF Takes, AttachHandled, AttachAnswered, workerVars
<1>. QED  BY <1>1, <1>2

\* Subscribers leave: the last of them asks for a detach.
LEMMA OrderLeave ==
  ASSUME TypeOK, FanOut, Order, Takes, NEW leavers \in SUBSET Subscribers, Leave(leavers),
         attempt' = NoAttempt \/ (attempt' = attempt /\ \A s \in leavers : phase[s] = "attached"),
         \A s \in Subscribers : phase'[s] = phase[s] \/ phase'[s] \in {"attached", "over"},
         \A s \in subs \ leavers :
            phase'[s] = "attached" =>
                \/ \E t \in subs : phase[t] = "attached"
                \/ \A j \in 1..Len(toWorker) : toWorker[j].type # "detach"
  PROVE  Order'
<1>0. NoAttempt.state = "none"
  BY AttemptTypes
<1>1. \A x \in Subscribers : Unsent(x)' => Unsent(x)
  BY <1>0 DEF Unsent
<1>2. subs' = subs \ leavers
  BY LeaveIs
<1>3. CASE toWorker' = toWorker
  <2>1. SentOnce'
    BY <1>1, <1>3, CommandTypes DEF Order, SentOnce, Takes, AttachSent
  <2>2. DetachesPrecede'
    BY <1>0, <1>3 DEF Order, DetachesPrecede
  <2>3. NoDetachUnderway'
    BY <1>2, <1>3 DEF Order, NoDetachUnderway
  <2>. QED  BY <2>1, <2>2, <2>3 DEF Order
<1>4. CASE toWorker' # toWorker
  <2>1. /\ LastLeaves(leavers) /\ subs' = {} /\ detaching' \in leavers
        /\ toWorker' = Append(toWorker, Cmd("detach", detaching'))
    BY <1>4, LeaveIs
  <2>2. attempt'.state # "requested"
    BY <1>0, <2>1 DEF LastLeaves, FanOut, FanOutOf
  <2>3. detaching' \in Ids
    BY <2>1, CommandTypes
  <2>. QED  BY <1>1, <2>1, <2>2, <2>3, OrderDetach
<1>. QED  BY <1>3, <1>4

Phases == {"idle", "checking", "joining", "attached", "over"}

LEMMA OrderGiveUp ==
  ASSUME TypeOK, FanOut, Order, Takes, NEW s \in Subscribers, UNCHANGED attempt,
         IF phase[s] = "attached"
         THEN phase' = [phase EXCEPT ![s] = "over"] /\ Leave({s})
         ELSE UNCHANGED <<phase, subs, detaching, toWorker>>
  PROVE  Order'
<1>1. CASE phase[s] = "attached"
  <2>1. phase' = [phase EXCEPT ![s] = "over"] /\ Leave({s}) /\ phase \in [Subscribers -> Phases]
    BY <1>1 DEF TypeOK, Phases
  <2>2. \A t \in Subscribers : t # s => phase'[t] = phase[t]
    BY <2>1
  <2>3. phase'[s] = "over"
    BY <2>1
  <2>4. subs \in SUBSET Subscribers /\ {s} \in SUBSET Subscribers
    BY DEF TypeOK
  <2>5. \A t \in subs \ {s} : phase'[t] = "attached" => \E u \in subs : phase[u] = "attached"
    BY <2>2, <2>4
  <2>6. \A t \in Subscribers : phase'[t] = phase[t] \/ phase'[t] \in {"attached", "over"}
    BY <2>2, <2>3
  <2>. QED  BY <1>1, <2>1, <2>4, <2>5, <2>6, OrderLeave
<1>2. CASE phase[s] # "attached"
  BY <1>2, OrderKept DEF Unsent
<1>. QED  BY <1>1, <1>2

LEMMA OrderJoin ==
  ASSUME TypeOK, FanOut, Order, Takes, NEW s \in Subscribers, phase[s] = "checking",
         JoinSession(s)
  PROVE  Order'
<1>0. phase \in [Subscribers -> Phases] /\ subs \in SUBSET Subscribers /\ attempt \in Attempt
  BY DEF TypeOK, Phases
<1>1. CASE JoinsAttempt(s)
  <2>1. attempt'.state = attempt.state /\ attempt'.owner = attempt.owner
    BY <1>0, <1>1 DEF JoinsAttempt, Attempt
  <2>2. /\ toWorker' = toWorker /\ phase' = [phase EXCEPT ![s] = "joining"]
        /\ subs' = subs \union {s}
    BY <1>1 DEF JoinsAttempt
  <2>3. \A t \in subs' : phase'[t] = "attached" => \E u \in subs : phase[u] = "attached"
    BY <1>0, <2>2
  <2>. QED  BY <1>0, <2>1, <2>2, <2>3, OrderKept DEF Unsent
<1>2. CASE JoinsFailed(s)
  <2>1. attempt'.state = "failed"
    BY <1>0, <1>2 DEF JoinsFailed, Attempt
  <2>2. toWorker' = toWorker /\ phase' = [phase EXCEPT ![s] = "over"] /\ subs' \subseteq subs
    BY <1>2 DEF JoinsFailed, RejectAttach
  <2>3. \A t \in subs' : phase'[t] = "attached" => \E u \in subs : phase[u] = "attached"
    BY <1>0, <2>2
  <2>. QED  BY <1>0, <2>1, <2>2, <2>3, OrderKept DEF Unsent
<1>3. CASE JoinsOthers(s)
  <2>1. toWorker' = toWorker /\ attempt' = attempt /\ attempt.state = "none" /\ subs # {}
        /\ phase' = [phase EXCEPT ![s] = IF ws[s] = "open" THEN "attached" ELSE "over"]
    BY <1>3 DEF JoinsOthers
  <2>2. \E u \in subs : phase[u] = "attached"
    BY <1>0, <2>1 DEF FanOut, FanOutOf, AttemptPending
  <2>. QED  BY <1>0, <2>1, <2>2, OrderKept DEF Unsent
<1>4. CASE JoinsFirst(s)
  <2>1. /\ phase' = [phase EXCEPT ![s] = "joining"] /\ subs' = {s} /\ attempt'.owner = s
        /\ attempt.state = "none"
        /\ attempt'.state = IF detaching = NoOne THEN "requested" ELSE "waiting"
        /\ toWorker' = IF detaching = NoOne THEN Append(toWorker, Cmd("attach", s)) ELSE toWorker
    BY <1>4 DEF JoinsFirst, First
  <2>2. phase'[s] = "joining" /\ \A t \in Subscribers : t # s => phase'[t] = phase[t]
    BY <1>0, <2>1
  <2>3. Unsent(s) /\ \A y \in Subscribers : Unsent(y)' => Unsent(y)
    BY <2>1, <2>2 DEF Unsent
  <2>4. CASE detaching = NoOne
    <3>1. ~Unsent(s)'
      BY <2>1, <2>2, <2>4 DEF Unsent
    <3>. QED  BY <2>1, <2>2, <2>3, <2>4, <3>1, OrderAttach
  <2>5. CASE detaching # NoOne
    BY <2>1, <2>2, <2>3, <2>5, OrderKept
  <2>. QED  BY <2>4, <2>5
<1>5. CASE JoinsNoWorker(s)
  <2>1. UNCHANGED <<subs, attempt, toWorker>> /\ phase' = [phase EXCEPT ![s] = "over"]
    BY <1>5 DEF JoinsNoWorker, RejectAttach
  <2>. QED  BY <1>0, <2>1, OrderKept DEF Unsent
<1>. QED  BY JoinCases, <1>1, <1>2, <1>3, <1>4, <1>5

\* The attach of the attempt has failed, or its answer is late.
LEMMA OrderAttachFails ==
  ASSUME TypeOK, FanOut, Order, Takes, attempt.state = "requested", AttemptFails
  PROVE  Order'
<1>1. attempt'.state = "failed" /\ attempt.owner \in Ids
  BY AttemptTypes DEF AttemptFails, TypeOK, Attempt
<1>2. \A y \in Subscribers : Unsent(y)' => Unsent(y)
  BY <1>1 DEF Unsent, AttemptFails, RejectJoiners
<1>3. \A s \in subs' : phase'[s] # "attached"
  BY DEF AttemptFails, RejectJoiners, FanOut, FanOutOf, TypeOK
<1>. QED  BY <1>1, <1>2, <1>3, OrderDetach DEF AttemptFails

LEMMA OrderDetachSettles ==
  ASSUME TypeOK, FanOut, Order, Takes, DetachSettles, UNCHANGED <<phase, subs>>
  PROVE  Order'
<1>0. attempt \in Attempt
  BY DEF TypeOK
<1>1. CASE attempt.state = "waiting"
  <2>1. attempt'.state = "requested" /\ attempt'.owner = attempt.owner
        /\ toWorker' = Append(toWorker, Cmd("attach", attempt.owner))
    BY <1>0, <1>1 DEF DetachSettles, Attempt
  <2>2. attempt.owner \in Subscribers /\ phase[attempt.owner] = "joining"
    BY <1>1 DEF FanOut, AttemptPending
  <2>3. /\ Unsent(attempt.owner) /\ ~Unsent(attempt.owner)'
        /\ \A y \in Subscribers : Unsent(y)' => Unsent(y)
    BY <1>1, <2>1, <2>2 DEF Unsent
  <2>4. \A s \in subs' : phase'[s] # "attached"
    BY <1>1 DEF FanOut, FanOutOf, TypeOK
  <2>. QED  BY <2>1, <2>2, <2>3, <2>4, OrderAttach
<1>2. CASE attempt.state # "waiting"
  <2>1. toWorker' = toWorker /\ attempt' \in {attempt, NoAttempt}
    BY <1>2 DEF DetachSettles
  <2>2. NoAttempt.state = "none"
    BY AttemptTypes
  <2>. QED  BY <2>1, <2>2, OrderKept DEF Unsent
<1>. QED  BY <1>1, <1>2

LEMMA OrderNext == Typed /\ FanOut /\ Order /\ [Next]_vars => Order'
<1>a. ASSUME TypeOK, Order, UNCHANGED <<phase, subs, attempt, toWorker>>, Takes  PROVE Order'
  BY <1>a, OrderKept DEF Unsent
<1>b. ASSUME TypeOK, Order, UNCHANGED vars  PROVE Order'
  BY <1>a, <1>b, TakesIs DEF vars, connVars, supVars, workerVars
<1>. SUFFICES ASSUME Typed, FanOut, Order, Next  PROVE Order'
  BY <1>b DEF Typed
<1>0. TypeOK
  BY DEF Typed
<1>1. ASSUME NEW s \in Subscribers, Connect(s)  PROVE Order'
  <2>1. Takes
    BY <1>0, <1>1, TakesIs DEF Connect
  <2>2. UNCHANGED <<subs, attempt, toWorker>> /\ phase[s] = "idle"
        /\ phase' = [phase EXCEPT ![s] = "checking"]
    BY <1>1 DEF Connect, supVars
  <2>3. \A x \in Subscribers : Unsent(x)' => Unsent(x)
    BY <1>0, <2>2 DEF Unsent, TypeOK
  <2>4. \A x \in subs' : phase'[x] = "attached" => \E t \in subs : phase[t] = "attached"
    BY <1>0, <2>2 DEF TypeOK
  <2>. QED  BY <1>0, <2>1, <2>2, <2>3, <2>4, OrderKept
<1>2. ASSUME NEW s \in Subscribers, SocketCloses(s)  PROVE Order'
  <2>1. Takes
    BY <1>0, <1>2, TakesIs DEF SocketCloses
  <2>. QED  BY <1>0, <1>2, <2>1, OrderGiveUp DEF SocketCloses
<1>3. ASSUME NEW s \in Subscribers, phase[s] = "checking", RejectAttach(s), Takes,
             UNCHANGED <<supVars, toWorker>>
      PROVE  Order'
  <2>1. UNCHANGED <<subs, attempt, toWorker>> /\ phase' = [phase EXCEPT ![s] = "over"]
    BY <1>3 DEF RejectAttach, supVars
  <2>2. \A x \in Subscribers : Unsent(x)' => Unsent(x)
    BY <1>0, <2>1 DEF Unsent, TypeOK
  <2>3. \A x \in subs' : phase'[x] = "attached" => \E t \in subs : phase[t] = "attached"
    BY <1>0, <2>1 DEF TypeOK
  <2>. QED  BY <1>0, <1>3, <2>1, <2>2, <2>3, OrderKept
<1>4. ASSUME NEW s \in Subscribers, CheckReply(s)  PROVE Order'
  <2>1. Takes
    BY <1>0, <1>4, TakesIs DEF CheckReply
  <2>2. CASE UNCHANGED <<ws, phase, supVars, toWorker>>
    BY <1>0, <1>a, <2>1, <2>2 DEF supVars
  <2>. QED  BY <1>0, <1>3, <1>4, <2>1, <2>2, OrderJoin DEF CheckReply
<1>5. ASSUME NEW s \in Subscribers, GiveUp(s), Takes, UNCHANGED attempt  PROVE Order'
  BY <1>0, <1>5, OrderGiveUp DEF GiveUp
<1>6. ASSUME NEW s \in Subscribers, FrameArrives(s) \/ WriteTimeout(s)  PROVE Order'
  <2>1. Takes /\ UNCHANGED attempt
    BY <1>0, <1>6, TakesIs DEF FrameArrives, WriteTimeout
  <2>2. GiveUp(s) \/ UNCHANGED <<phase, subs, toWorker>>
    BY <1>6 DEF FrameArrives, WriteTimeout
  <2>. QED  BY <1>0, <1>a, <1>5, <2>1, <2>2
<1>7. ASSUME NEW s \in Subscribers, Write(s)  PROVE Order'
  <2>1. Takes
    BY <1>0, <1>7, TakesIs DEF Write
  <2>2. Cmd("write", s) \in Command /\ Cmd("write", s).type = "write"
    BY CommandTypes DEF TerminalCommands
  <2>3. UNCHANGED <<phase, subs, attempt>> /\ toWorker' = Append(toWorker, Cmd("write", s))
    BY <1>7 DEF Write, supVars
  <2>. QED  BY <1>0, <2>1, <2>2, <2>3, OrderSend DEF Unsent
<1>8. ASSUME NEW s \in Subscribers, CheckTimeout(s)  PROVE Order'
  <2>1. Takes
    BY <1>0, <1>8, TakesIs DEF CheckTimeout
  <2>. QED  BY <1>3, <1>8, <2>1 DEF CheckTimeout
<1>9. CASE AttachTimeout
  <2>1. Takes
    BY <1>0, <1>9, TakesIs DEF AttachTimeout
  <2>. QED  BY <1>0, <1>9, <2>1, OrderAttachFails DEF AttachTimeout
<1>10. CASE AttachReply
  <2>1. Takes
    BY <1>0, <1>10, TakesIs DEF AttachReply, Received
  <2>2. CASE UNCHANGED <<ws, phase, supVars, toWorker>>
    BY <1>0, <1>a, <2>1, <2>2 DEF supVars
  <2>3. CASE attempt.state = "requested" /\ AttemptFails
    BY <1>0, <2>1, <2>3, OrderAttachFails
  <2>4. CASE /\ attempt.state = "requested" /\ attempt.owner = Head(toSup).id
             /\ AttemptSucceeds
    <3>1. Len(toSup) \in Nat \ {0} /\ Head(toSup) = toSup[1]
      BY <1>0, <1>10, TailIs DEF AttachReply, Received, TypeOK
    <3>2. AttachAnswered(attempt.owner) /\ attempt.owner \in Ids
      <4>1. toSup[1].type = "attach" /\ toSup[1].id = attempt.owner /\ 1 \in 1..Len(toSup)
        BY <1>10, <2>4, <3>1 DEF AttachReply, Received
      <4>2. attempt \in Attempt
        BY <1>0 DEF TypeOK
      <4>. QED  BY <4>1, <4>2, AttemptTypes DEF AttachAnswered
    <3>3. ~AttachSent(attempt.owner)
      BY <3>2 DEF Order, SentOnce
    <3>4. toWorker \in Seq(Command)
      BY <1>0 DEF TypeOK
    <3>5. \A j \in 1..Len(toWorker) : toWorker[j].type # "detach"
      BY <2>4, <3>3, <3>4 DEF Order, DetachesPrecede, AttachSent
    <3>6. /\ Leave(GoneJoiners) /\ GoneJoiners \in SUBSET Subscribers /\ attempt' = NoAttempt
          /\ \A s \in Subscribers : phase'[s] = phase[s] \/ phase'[s] \in {"attached", "over"}
      BY <2>4 DEF AttemptSucceeds, GoneJoiners, Joiners
    <3>. QED  BY <1>0, <2>1, <3>5, <3>6, OrderLeave
  <2>. QED  BY <1>10, <2>2, <2>3, <2>4 DEF AttachReply
<1>11. CASE DetachReply \/ DetachTimeout
  <2>1. Takes
    BY <1>0, <1>11, TakesIs DEF DetachReply, DetachTimeout, Received
  <2>2. UNCHANGED <<phase, subs>>
    BY <1>11 DEF DetachReply, DetachTimeout, connVars
  <2>3. DetachSettles \/ UNCHANGED <<attempt, toWorker>>
    BY <1>11 DEF DetachReply, DetachTimeout
  <2>. QED  BY <1>0, <1>a, <2>1, <2>2, <2>3, OrderDetachSettles
<1>12. CASE WriteReply
  <2>1. Takes /\ UNCHANGED attempt
    BY <1>0, <1>12, TakesIs DEF WriteReply, Received
  <2>2. \/ Head(toSup).id \in Subscribers /\ GiveUp(Head(toSup).id)
        \/ UNCHANGED <<phase, subs, toWorker>>
    BY <1>0, <1>12 DEF WriteReply, TypeOK
  <2>. QED  BY <1>0, <1>a, <1>5, <2>1, <2>2
<1>13. CASE BackpressureEvent
  <2>1. Takes
    BY <1>0, <1>13, TakesIs DEF BackpressureEvent, Received
  <2>2. UNCHANGED <<phase, attempt, toWorker>> /\ subs' = {}
    BY <1>13 DEF BackpressureEvent, CloseSubscribers
  <2>. QED  BY <1>0, <2>1, <2>2, OrderKept DEF Unsent
<1>14. CASE WorkerStep \/ ShellExits
  BY <1>0, <1>14, OrderWorker
<1>15. CASE WorkerExit
  <2>1. toWorker' = <<>> /\ toSup' = <<>> /\ busy' = {} /\ subs' = {} /\ attempt' = NoAttempt
    BY <1>15 DEF WorkerExit, ClearSession
  <2>2. NoAttempt.state = "none"
    BY AttemptTypes
  <2>. QED  BY <2>1, <2>2 DEF Order, SentOnce, DetachesPrecede, NoDetachUnderway, AttachSent,
                              AttachHandled, AttachAnswered
<1>16. CASE StorageHandles
  <2>1. Takes
    BY <1>0, <1>16, TakesIs DEF StorageHandles
  <2>. QED  BY <1>0, <1>a, <1>16, <2>1 DEF StorageHandles, connVars, supVars
<1>17. CASE \/ \E kind \in Operations : OpStart(kind)
            \/ OpContinues \/ OpTerminalReply \/ OpStorageReply \/ OpTimeout
  <2>0. toSup' = toSup \/ (toSup # <<>> /\ toSup' = Tail(toSup))
    BY <1>17 DEF OpStart, OpContinues, OpTerminalReply, OpStorageReply, OpTimeout, Received
  <2>1. CASE UNCHANGED <<connVars, supVars, toWorker, toStorage, tab, workerVars, tmux, op,
                         joinerClosed>>
    BY <1>0, <1>a, <2>0, <2>1, TakesIs DEF connVars, supVars
  <2>2. ASSUME NEW kind \in Operations, NEW ok \in BOOLEAN, Advance(kind, ok),
               op.step # "done", op.step # "none" => kind = op.kind
        PROVE  Order'
    <3>1. UNCHANGED <<phase, attempt, workerVars>> /\ subs' \subseteq subs
      BY <2>2 DEF Advance, CloseSubscribers
    <3>2. Takes
      BY <1>0, <2>0, <3>1, TakesIs
    <3>3. CASE toWorker' = toWorker
      BY <1>0, <3>1, <3>2, <3>3, OrderKept DEF Unsent
    <3>4. ASSUME NEW next \in TerminalSteps, toWorker' = Append(toWorker, Cmd(next, NoOne))
          PROVE  Order'
      <4>1. Cmd(next, NoOne) \in Command /\ Cmd(next, NoOne).type \notin {"attach", "detach"}
        BY <3>4, CommandTypes DEF TerminalSteps, TerminalCommands
      <4>. QED  BY <1>0, <3>1, <3>2, <3>4, <4>1, OrderSend DEF Unsent
    <3>. QED  BY <2>2, <3>3, <3>4, AdvanceIs
  <2>. QED  BY <1>17, <2>1, <2>2, OpMoves
<1>. QED  BY <1>1, <1>2, <1>4, <1>6, <1>7, <1>8, <1>9, <1>10, <1>11, <1>12, <1>13, <1>14, <1>15,
             <1>16, <1>17 DEF Next, ConnectionStep

\* DetachSparesSubscribers: no detach that the worker handles takes the stream from a
\* connection that was told it is attached.
THEOREM DetachIsSafe == Spec => DetachSparesSubscribers
<1>1. Typed /\ FanOut /\ Order /\ [Next]_vars => (Typed /\ FanOut /\ Order)'
  BY TypedNext, FanOutNext, OrderNext
<1>2. Typed /\ FanOut /\ Order
        => (HandlesDetach => \A s \in Subscribers : ~(phase[s] = "attached" /\ s \in subs))
  <2>1. SUFFICES ASSUME Typed, Order, HandlesDetach, NEW s \in subs, phase[s] = "attached"
                 PROVE  FALSE
    OBVIOUS
  <2>2. Len(toWorker) \in Nat \ {0} /\ Head(toWorker) = toWorker[1]
    BY <2>1, TailIs DEF HandlesDetach, Arrived, Typed, TypeOK
  <2>. QED  BY <2>1, <2>2 DEF HandlesDetach, Arrived, Order, NoDetachUnderway
<1>3. Typed /\ FanOut /\ Order /\ [Next]_vars
        => [HandlesDetach => \A s \in Subscribers : ~(phase[s] = "attached" /\ s \in subs)]_vars
  BY <1>2
<1>. QED  BY TypedInit, FanOutInit, OrderInit, <1>1, <1>3, PTL DEF Spec, DetachSparesSubscribers

-----------------------------------------------------------------------------
(* The deletion of the tab *)

\* The row is deleted and the deletion closes the session, or has closed it.
Deleting == op.kind = "delete" /\ (op.step \in {"attempt", "kill"} \/ op.result = "deleted")

\* A check that found the tab ready.
Passed(m) == m.type = "check" /\ m.ok

StorageQueues ==
    /\ op.kind # "restart" =>
          \A i \in 1..Len(toStorage) : toStorage[i].type # "createPending"
    /\ op.kind = "none" =>
          /\ \A i \in 1..Len(toStorage) : toStorage[i].type # "delete"
          /\ \A i \in 1..Len(fromStorage) : fromStorage[i].type # "delete"
    \* A check that is answered after the row was deleted has not found it.
    /\ op.kind = "delete" =>
          \A j \in 1..Len(fromStorage) : fromStorage[j].type = "delete" /\ fromStorage[j].ok =>
              /\ tab = "deleted"
              /\ \A i \in j + 1..Len(fromStorage) : ~Passed(fromStorage[i])

Closed ==
    /\ Deleting => /\ tab = "deleted" /\ subs = {}
                   /\ \A i \in 1..Len(fromStorage) : ~Passed(fromStorage[i])
                   /\ \A s \in Subscribers : phase[s] = "joining" => ws[s] # "open"
                   /\ op.step # "attempt" => ~AttemptPending
    /\ op.result = "deleted" => op.kind = "delete" /\ op.step = "done"

Deletion == StorageQueues /\ Closed

LEMMA DeletionInit == Init => Deletion
BY DEF Init, Deletion, StorageQueues, Closed, Deleting

\* A step that does not move the operation and lets no connection in.
LEMMA DeletionKept ==
  ASSUME TypeOK, Deletion, op'.kind = op.kind, op'.step = op.step, op'.result = op.result,
         tab' = tab,
         \/ toStorage' = toStorage
         \/ \E c \in Command : c.type = "check" /\ toStorage' = Append(toStorage, c),
         fromStorage' = fromStorage \/ (fromStorage # <<>> /\ fromStorage' = Tail(fromStorage)),
         Deleting => /\ subs = {} => subs' = {}
                     /\ AttemptPending' => AttemptPending
                     /\ \A s \in Subscribers :
                           phase'[s] = "joining" /\ ws'[s] = "open"
                              => phase[s] = "joining" /\ ws[s] = "open"
  PROVE  Deletion'
<1>1. toStorage \in Seq(Command) /\ fromStorage \in Seq(Message)
  BY DEF TypeOK
<1>2. \A i \in 1..Len(toStorage') :
         (i \in 1..Len(toStorage) /\ toStorage'[i] = toStorage[i]) \/ toStorage'[i].type = "check"
  BY <1>1, AppendIs
<1>3. CASE fromStorage' = fromStorage
  <2>1. StorageQueues'
    BY <1>2, <1>3 DEF Deletion, StorageQueues, Passed
  <2>2. Closed'
    BY <1>3 DEF Deletion, Closed, Deleting, Passed
  <2>. QED  BY <2>1, <2>2 DEF Deletion
<1>4. CASE fromStorage # <<>> /\ fromStorage' = Tail(fromStorage)
  <2>1. /\ Len(fromStorage) \in Nat \ {0} /\ Len(fromStorage') = Len(fromStorage) - 1
        /\ \A i \in 1..Len(fromStorage') :
              fromStorage'[i] = fromStorage[i + 1] /\ i + 1 \in 1..Len(fromStorage)
    BY <1>1, <1>4, TailIs
  <2>2. StorageQueues'
    <3>1. op'.kind # "restart" => \A i \in 1..Len(toStorage') : toStorage'[i].type # "createPending"
      BY <1>2 DEF Deletion, StorageQueues
    <3>2. op'.kind = "none" =>
             /\ \A i \in 1..Len(toStorage') : toStorage'[i].type # "delete"
             /\ \A i \in 1..Len(fromStorage') : fromStorage'[i].type # "delete"
      BY <1>2, <2>1 DEF Deletion, StorageQueues
    <3>3. ASSUME op'.kind = "delete", NEW j \in 1..Len(fromStorage'),
                 fromStorage'[j].type = "delete", fromStorage'[j].ok
          PROVE  tab' = "deleted" /\ \A i \in j + 1..Len(fromStorage') : ~Passed(fromStorage'[i])
      <4>1. j + 1 \in 1..Len(fromStorage) /\ fromStorage'[j] = fromStorage[j + 1]
        BY <2>1, <3>3
      <4>2. tab = "deleted" /\ \A i \in (j + 1) + 1..Len(fromStorage) : ~Passed(fromStorage[i])
        BY <3>3, <4>1 DEF Deletion, StorageQueues
      <4>. QED  BY <2>1, <4>2
    <3>. QED  BY <3>1, <3>2, <3>3 DEF StorageQueues, Passed
  <2>3. Closed'
    BY <2>1 DEF Deletion, Closed, Deleting, Passed
  <2>. QED  BY <2>2, <2>3 DEF Deletion
<1>. QED  BY <1>3, <1>4

LEMMA DeletionStorage ==
  ASSUME Typed, Deletion, StorageHandles
  PROVE  Deletion'
<1>. DEFINE cmd == Head(toStorage)
            ok  == CASE cmd.type = "check"         -> tab = "ready"
                     [] cmd.type = "createPending" -> tab = "deleted"
                     [] cmd.type = "delete"        -> tab # "deleted"
                     [] OTHER                      -> tab = "pending"
<1>1. /\ cmd \in StorageCmd /\ cmd = toStorage[1] /\ cmd.type \in StorageCommands
      /\ Len(toStorage) \in Nat \ {0} /\ Len(toStorage') = Len(toStorage) - 1
      /\ \A i \in 1..Len(toStorage') : toStorage'[i] = toStorage[i + 1] /\ i + 1 \in 1..Len(toStorage)
  <2>1. toStorage \in Seq(StorageCmd) /\ toStorage # <<>> /\ toStorage' = Tail(toStorage)
    BY DEF StorageHandles, Typed, StorageCmd
  <2>2. /\ cmd \in StorageCmd /\ cmd = toStorage[1]
        /\ Len(toStorage) \in Nat \ {0} /\ Len(toStorage') = Len(toStorage) - 1
        /\ \A i \in 1..Len(toStorage') : toStorage'[i] = toStorage[i + 1]
    BY <2>1, TailIs
  <2>3. cmd.type \in StorageCommands
    BY <2>2 DEF StorageCmd
  <2>. HIDE DEF cmd
  <2>. QED  BY <2>2, <2>3
<1>2. ok \in BOOLEAN
  BY <1>1 DEF StorageCommands
<1>3. Answer(cmd, ok) \in Message /\ Answer(cmd, ok).type = cmd.type /\ Answer(cmd, ok).ok = ok
  BY <1>1, <1>2, StorageCmdIs, CommandTypes
<1>4. /\ fromStorage \in Seq(Message)
      /\ fromStorage' = Append(fromStorage, Answer(cmd, ok))
      /\ UNCHANGED <<op, subs, phase, ws, attempt>>
  BY DEF StorageHandles, Typed, TypeOK, connVars, supVars
<1>5. /\ Len(fromStorage) \in Nat /\ Len(fromStorage') = Len(fromStorage) + 1
      /\ \A i \in 1..Len(fromStorage) : fromStorage'[i] = fromStorage[i]
      /\ fromStorage'[Len(fromStorage) + 1] = Answer(cmd, ok)
  BY <1>3, <1>4, AppendIs
<1>6. op.kind # "restart" => cmd.type # "createPending"
  BY <1>1 DEF Deletion, StorageQueues
<1>7. op.kind = "none" => cmd.type # "delete"
  BY <1>1 DEF Deletion, StorageQueues
<1>8. op.kind = "delete" /\ tab = "deleted" => tab' = "deleted"
  BY <1>1, <1>6 DEF StorageHandles, StorageCommands
<1>9. cmd.type = "delete" /\ ok => tab' = "deleted"
  BY <1>1 DEF StorageHandles
<1>10. tab = "deleted" => ~Passed(Answer(cmd, ok))
  BY <1>3 DEF Passed
<1>. HIDE DEF ok, cmd
<1>11. StorageQueues'
  <2>1. op'.kind # "restart" => \A i \in 1..Len(toStorage') : toStorage'[i].type # "createPending"
    BY <1>1, <1>4 DEF Deletion, StorageQueues
  <2>2. op'.kind = "none" =>
           /\ \A i \in 1..Len(toStorage') : toStorage'[i].type # "delete"
           /\ \A i \in 1..Len(fromStorage') : fromStorage'[i].type # "delete"
    BY <1>1, <1>3, <1>4, <1>5, <1>7 DEF Deletion, StorageQueues
  <2>3. ASSUME op'.kind = "delete", NEW j \in 1..Len(fromStorage'),
               fromStorage'[j].type = "delete", fromStorage'[j].ok
        PROVE  tab' = "deleted" /\ \A i \in j + 1..Len(fromStorage') : ~Passed(fromStorage'[i])
    <3>1. CASE j \in 1..Len(fromStorage)
      <4>1. tab = "deleted" /\ \A i \in j + 1..Len(fromStorage) : ~Passed(fromStorage[i])
        BY <1>4, <1>5, <2>3, <3>1 DEF Deletion, StorageQueues
      <4>. QED  BY <1>4, <1>5, <1>8, <1>10, <2>3, <3>1, <4>1
    <3>2. CASE j = Len(fromStorage) + 1
      BY <1>3, <1>5, <1>9, <2>3, <3>2
    <3>. QED  BY <1>5, <2>3, <3>1, <3>2
  <2>. QED  BY <2>1, <2>2, <2>3 DEF StorageQueues, Passed
<1>12. Closed'
  <2>1. Deleting' = Deleting /\ AttemptPending' = AttemptPending
    BY <1>4 DEF Deleting, AttemptPending
  <2>2. Deleting => /\ tab' = "deleted"
                    /\ \A i \in 1..Len(fromStorage') : ~Passed(fromStorage'[i])
    BY <1>5, <1>8, <1>10 DEF Deletion, Closed, Deleting
  <2>. QED  BY <1>4, <2>1, <2>2 DEF Deletion, Closed, Passed
<1>. QED  BY <1>11, <1>12 DEF Deletion

\* A step of the operation.
LEMMA DeletionAdvance ==
  ASSUME Typed, FanOut, Deletion, NEW kind \in Operations, NEW ok \in BOOLEAN, Advance(kind, ok),
         op.step # "done", op.step # "none" => kind = op.kind,
         op.step = "attempt" => ~AttemptPending,
         fromStorage' = fromStorage \/ (fromStorage # <<>> /\ fromStorage' = Tail(fromStorage)),
         op.step = "delete" /\ ok =>
             /\ fromStorage # <<>> /\ fromStorage' = Tail(fromStorage)
             /\ Head(fromStorage).type = "delete" /\ Head(fromStorage).ok
  PROVE  Deletion'
<1>. DEFINE next == NextStep(kind, ok)
<1>0. TypeOK /\ fromStorage \in Seq(Message) /\ toStorage \in Seq(Command)
  BY DEF Typed, TypeOK
<1>1. /\ next \in OpSteps \ {"none"}
      /\ op'.kind = kind /\ op'.step = next
      /\ op'.result = IF next = "done" THEN Result ELSE "none"
      /\ \/ toStorage' = toStorage
         \/ next \in StorageSteps /\ toStorage' = Append(toStorage, Cmd(next, NoOne))
  BY AdvanceIs
<1>2. UNCHANGED <<phase, attempt, tab>> /\ (IF next = "attempt" THEN CloseSubscribers ELSE UNCHANGED <<ws, subs>>)
  BY DEF Advance
<1>3. kind \in {"delete", "restart"}
  BY AttachAssumption
<1>s. op.step \in {"none", "attempt", "kill", "create", "rollback", "delete", "createPending",
                   "finalize", "failPending"}
  BY <1>0 DEF TypeOK, OpSteps, TerminalSteps, StorageSteps
<1>4. next = "createPending" => kind = "restart"
  BY <1>3, <1>s DEF NextStep
<1>5. kind = "delete" /\ next = "attempt" => op.step = "delete" /\ ok
  BY <1>s DEF NextStep
<1>6. kind = "delete" /\ next = "kill" => op.step = "attempt"
  BY <1>s DEF NextStep
<1>7. next = "done" /\ Result = "deleted" => op.step = "kill" /\ kind = "delete"
  BY <1>3, <1>s DEF NextStep, Result
<1>8. op.step = "none" => op.kind = "none"
  BY DEF Typed
<1>. HIDE DEF next
<1>9. \A i \in 1..Len(toStorage') :
         (i \in 1..Len(toStorage) /\ toStorage'[i] = toStorage[i]) \/ toStorage'[i].type = next
  <2>1. ASSUME next \in StorageSteps
        PROVE  Cmd(next, NoOne) \in Command /\ Cmd(next, NoOne).type = next
    <3>1. next \in TerminalCommands \union StorageCommands /\ NoOne \in Ids
      BY <2>1, CommandTypes DEF StorageSteps, StorageCommands
    <3>. QED  BY <3>1, CommandTypes
  <2>. QED  BY <1>0, <1>1, <2>1, AppendIs
<1>10. /\ Len(fromStorage) \in Nat
       /\ \/ fromStorage' = fromStorage
          \/ /\ Len(fromStorage') = Len(fromStorage) - 1
             /\ \A i \in 1..Len(fromStorage') :
                   fromStorage'[i] = fromStorage[i + 1] /\ i + 1 \in 1..Len(fromStorage)
  <2>1. Len(fromStorage) \in Nat
    BY <1>0
  <2>2. CASE fromStorage # <<>> /\ fromStorage' = Tail(fromStorage)
    BY <1>0, <2>2, TailIs
  <2>. QED  BY <2>1, <2>2
<1>11. StorageQueues'
  <2>1. op'.kind # "restart" => \A i \in 1..Len(toStorage') : toStorage'[i].type # "createPending"
    BY <1>1, <1>3, <1>4, <1>8, <1>9 DEF Deletion, StorageQueues
  <2>2. ASSUME op'.kind = "delete", NEW j \in 1..Len(fromStorage'),
               fromStorage'[j].type = "delete", fromStorage'[j].ok
        PROVE  tab' = "deleted" /\ \A i \in j + 1..Len(fromStorage') : ~Passed(fromStorage'[i])
    <3>1. op.kind = "delete"
      BY <1>1, <1>8, <1>10, <2>2 DEF Deletion, StorageQueues
    <3>2. CASE fromStorage' = fromStorage
      BY <1>2, <2>2, <3>1, <3>2 DEF Deletion, StorageQueues
    <3>3. CASE /\ Len(fromStorage') = Len(fromStorage) - 1
               /\ \A i \in 1..Len(fromStorage') :
                     fromStorage'[i] = fromStorage[i + 1] /\ i + 1 \in 1..Len(fromStorage)
      <4>1. j + 1 \in 1..Len(fromStorage) /\ fromStorage'[j] = fromStorage[j + 1]
        BY <2>2, <3>3
      <4>2. tab = "deleted" /\ \A i \in (j + 1) + 1..Len(fromStorage) : ~Passed(fromStorage[i])
        BY <2>2, <3>1, <4>1 DEF Deletion, StorageQueues
      <4>. QED  BY <1>2, <1>10, <3>3, <4>2
    <3>. QED  BY <1>10, <3>2, <3>3
  <2>. QED  BY <1>1, <1>3, <2>1, <2>2 DEF StorageQueues, Passed
<1>12. Closed'
  <2>1. SUFFICES ASSUME Deleting'
                 PROVE  /\ tab' = "deleted" /\ subs' = {}
                        /\ \A i \in 1..Len(fromStorage') : ~Passed(fromStorage'[i])
                        /\ \A s \in Subscribers : phase'[s] = "joining" => ws'[s] # "open"
                        /\ op'.step # "attempt" => ~AttemptPending'
    BY <1>1, <1>7 DEF Closed, Passed
  <2>2. CASE next = "attempt"
    <3>1. /\ op.step = "delete" /\ ok /\ kind = "delete" /\ op.kind = "delete"
      BY <1>1, <1>5, <2>1, <2>2 DEF Deleting
    <3>2. /\ Len(fromStorage) \in Nat \ {0} /\ Head(fromStorage) = fromStorage[1]
          /\ Len(fromStorage') = Len(fromStorage) - 1
          /\ \A i \in 1..Len(fromStorage') : fromStorage'[i] = fromStorage[i + 1]
      BY <1>0, <3>1, TailIs
    <3>3. tab = "deleted" /\ \A i \in 1 + 1..Len(fromStorage) : ~Passed(fromStorage[i])
      BY <3>1, <3>2 DEF Deletion, StorageQueues
    <3>4. \A i \in 1..Len(fromStorage') : ~Passed(fromStorage'[i])
      BY <3>2, <3>3
    <3>5. subs' = {} /\ \A s \in Subscribers : phase'[s] = "joining" => ws'[s] # "open"
      <4>1. /\ subs' = {} /\ phase' = phase
            /\ ws' = [s \in Subscribers |-> IF s \in subs /\ ws[s] = "open" THEN "closing" ELSE ws[s]]
        BY <1>2, <2>2 DEF CloseSubscribers
      <4>2. \A s \in Subscribers : phase[s] = "joining" /\ ws[s] = "open" => s \in subs
        BY DEF FanOut, FanOutOf
      <4>. QED  BY <4>1, <4>2
    <3>. QED  BY <1>1, <1>2, <2>2, <3>3, <3>4, <3>5
  <2>3. CASE next # "attempt"
    <3>1. op.step \in {"attempt", "kill"} /\ kind = "delete" /\ op.kind = "delete"
      BY <1>1, <1>6, <1>7, <2>1, <2>3 DEF Deleting
    <3>2. Deleting /\ ~AttemptPending
      BY <3>1 DEF Deleting, Deletion, Closed
    <3>3. /\ tab = "deleted" /\ subs = {}
          /\ \A i \in 1..Len(fromStorage) : ~Passed(fromStorage[i])
          /\ \A s \in Subscribers : phase[s] = "joining" => ws[s] # "open"
      BY <3>2 DEF Deletion, Closed
    <3>. QED  BY <1>2, <1>10, <2>3, <3>2, <3>3 DEF AttemptPending
  <2>. QED  BY <2>2, <2>3
<1>. QED  BY <1>11, <1>12 DEF Deletion

LEMMA DeletionNext == Typed /\ FanOut /\ Deletion /\ [Next]_vars => Deletion'
<1>a. ASSUME TypeOK, Deletion, UNCHANGED <<op, tab, toStorage, fromStorage>>,
             subs = {} => subs' = {}, AttemptPending' => AttemptPending,
             \A s \in Subscribers : phase'[s] = "joining" /\ ws'[s] = "open"
                                      => phase[s] = "joining" /\ ws[s] = "open"
      PROVE  Deletion'
  BY <1>a, DeletionKept
<1>b. ASSUME TypeOK, Deletion, UNCHANGED vars  PROVE Deletion'
  BY <1>a, <1>b DEF vars, connVars, supVars, storageVars, AttemptPending
<1>. SUFFICES ASSUME Typed, FanOut, Deletion, Next  PROVE Deletion'
  BY <1>b DEF Typed
<1>0. TypeOK /\ ws \in [Subscribers -> {"none", "open", "closing", "closed"}]
      /\ phase \in [Subscribers -> Phases] /\ subs \in SUBSET Subscribers /\ attempt \in Attempt
  BY DEF Typed, TypeOK, Phases
<1>c. ASSUME NEW s \in Subscribers, UNCHANGED <<op, tab, toStorage, fromStorage, attempt>>,
             GiveUp(s) \/ (RejectAttach(s) /\ UNCHANGED subs) \/ UNCHANGED <<ws, phase, subs>>
      PROVE  Deletion'
  <2>1. subs' \subseteq subs /\ AttemptPending' = AttemptPending
    BY <1>c DEF GiveUp, Leave, AttemptPending
  <2>2. \A t \in Subscribers : phase'[t] = "joining" /\ ws'[t] = "open"
                                 => phase[t] = "joining" /\ ws[t] = "open"
    BY <1>0, <1>c DEF GiveUp, RejectAttach
  <2>. QED  BY <1>0, <1>a, <1>c, <2>1, <2>2
<1>1. ASSUME NEW s \in Subscribers, Connect(s)  PROVE Deletion'
  <2>1. /\ toStorage' = Append(toStorage, Cmd("check", s)) /\ phase[s] = "idle"
        /\ ws' = [ws EXCEPT ![s] = "open"] /\ phase' = [phase EXCEPT ![s] = "checking"]
        /\ UNCHANGED <<op, tab, fromStorage, subs, attempt>>
    BY <1>1 DEF Connect, supVars
  <2>2. Cmd("check", s) \in Command /\ Cmd("check", s).type = "check"
    BY CommandTypes DEF StorageCommands
  <2>3. \A t \in Subscribers : phase'[t] = "joining" /\ ws'[t] = "open"
                                 => phase[t] = "joining" /\ ws[t] = "open"
    BY <1>0, <2>1
  <2>. QED  BY <1>0, <2>1, <2>2, <2>3, DeletionKept DEF AttemptPending
<1>2. ASSUME NEW s \in Subscribers, SocketCloses(s)  PROVE Deletion'
  <2>1. subs' \subseteq subs /\ AttemptPending' = AttemptPending
        /\ UNCHANGED <<op, tab, toStorage, fromStorage>>
    BY <1>2 DEF SocketCloses, Leave, AttemptPending, storageVars
  <2>2. \A t \in Subscribers : phase'[t] = "joining" /\ ws'[t] = "open"
                                 => phase[t] = "joining" /\ ws[t] = "open"
    BY <1>0, <1>2 DEF SocketCloses
  <2>. QED  BY <1>0, <1>a, <2>1, <2>2
<1>3. ASSUME NEW s \in Subscribers, CheckReply(s)  PROVE Deletion'
  <2>1. /\ fromStorage # <<>> /\ fromStorage' = Tail(fromStorage)
        /\ UNCHANGED <<op, tab, toStorage>>
    BY <1>3 DEF CheckReply
  <2>2. CASE JoinSession(s) /\ Head(fromStorage).ok
    <3>1. Head(fromStorage) = fromStorage[1] /\ Len(fromStorage) \in Nat \ {0}
      BY <1>0, <2>1, TailIs DEF TypeOK
    <3>2. Passed(fromStorage[1])
      BY <1>3, <2>2, <3>1 DEF CheckReply, Passed
    <3>3. ~Deleting
      BY <3>1, <3>2 DEF Deletion, Closed
    <3>. QED  BY <1>0, <2>1, <3>3, DeletionKept
  <2>3. CASE RejectAttach(s) /\ UNCHANGED <<supVars, toWorker>>
    <3>1. UNCHANGED <<subs, attempt>>
      BY <2>3 DEF supVars
    <3>2. \A t \in Subscribers : phase'[t] = "joining" /\ ws'[t] = "open"
                                   => phase[t] = "joining" /\ ws[t] = "open"
      BY <1>0, <2>3 DEF RejectAttach
    <3>. QED  BY <1>0, <2>1, <3>1, <3>2, DeletionKept DEF AttemptPending
  <2>4. CASE UNCHANGED <<ws, phase, supVars, toWorker>>
    BY <1>0, <2>1, <2>4, DeletionKept DEF AttemptPending, supVars
  <2>. QED  BY <1>3, <2>2, <2>3, <2>4 DEF CheckReply
<1>4. ASSUME NEW s \in Subscribers, FrameArrives(s) \/ Write(s) \/ WriteTimeout(s) \/ CheckTimeout(s)
      PROVE  Deletion'
  <2>1. UNCHANGED <<op, tab, toStorage, fromStorage, attempt>>
    BY <1>4 DEF FrameArrives, Write, WriteTimeout, CheckTimeout, storageVars, supVars
  <2>2. GiveUp(s) \/ (RejectAttach(s) /\ UNCHANGED subs) \/ UNCHANGED <<ws, phase, subs>>
    BY <1>4 DEF FrameArrives, Write, WriteTimeout, CheckTimeout, supVars
  <2>. QED  BY <1>c, <2>1, <2>2
<1>5. CASE AttachReply \/ AttachTimeout
  <2>1. UNCHANGED <<op, tab, toStorage, fromStorage>>
    BY <1>5 DEF AttachReply, AttachTimeout, storageVars
  <2>2. CASE AttemptSucceeds
    <3>1. subs' \subseteq subs /\ ~AttemptPending'
      BY <2>2, AttemptTypes DEF AttemptSucceeds, Leave, AttemptPending
    <3>2. \A t \in Subscribers : phase'[t] # "joining"
      BY <2>2 DEF AttemptSucceeds, Joiners
    <3>. QED  BY <1>0, <1>a, <2>1, <3>1, <3>2
  <2>3. CASE attempt.state = "requested" /\ AttemptFails
    <3>1. subs' \subseteq subs
      BY <2>3 DEF AttemptFails
    <3>2. AttemptPending
      BY <2>3 DEF AttemptPending
    <3>3. \A t \in Subscribers : phase'[t] # "joining"
      BY <2>3 DEF AttemptFails, RejectJoiners, Joiners
    <3>. QED  BY <1>0, <1>a, <2>1, <3>1, <3>2, <3>3
  <2>4. CASE UNCHANGED <<ws, phase, supVars, toWorker>>
    BY <1>0, <1>a, <2>1, <2>4 DEF supVars, AttemptPending
  <2>. QED  BY <1>5, <2>2, <2>3, <2>4 DEF AttachReply, AttachTimeout
<1>6. CASE DetachReply \/ DetachTimeout
  <2>1. UNCHANGED <<op, tab, toStorage, fromStorage, ws, phase, subs>>
    BY <1>6 DEF DetachReply, DetachTimeout, storageVars, connVars
  <2>2. DetachSettles \/ attempt' = attempt
    BY <1>6 DEF DetachReply, DetachTimeout
  <2>3. AttemptPending' => AttemptPending
    <3>1. attempt.state = "waiting" \/ attempt' \in {attempt, NoAttempt}
      BY <2>2 DEF DetachSettles
    <3>. QED  BY <3>1, AttemptTypes DEF AttemptPending
  <2>. QED  BY <1>0, <1>a, <2>1, <2>3
<1>7. CASE WriteReply
  <2>1. UNCHANGED <<op, tab, toStorage, fromStorage, attempt>>
    BY <1>7 DEF WriteReply, storageVars
  <2>2. \/ Head(toSup).id \in Subscribers /\ GiveUp(Head(toSup).id)
        \/ UNCHANGED <<ws, phase, subs>>
    BY <1>0, <1>7 DEF WriteReply, TypeOK
  <2>3. CASE UNCHANGED <<ws, phase, subs>>
    BY <1>0, <1>a, <2>1, <2>3 DEF AttemptPending
  <2>. QED  BY <1>c, <2>1, <2>2, <2>3
<1>8. CASE BackpressureEvent
  <2>1. UNCHANGED <<op, tab, toStorage, fromStorage, attempt, phase>> /\ subs' = {}
    BY <1>8 DEF BackpressureEvent, storageVars, CloseSubscribers
  <2>2. \A t \in Subscribers : ws'[t] = "open" => ws[t] = "open"
    BY <1>8 DEF BackpressureEvent, CloseSubscribers
  <2>. QED  BY <1>0, <1>a, <2>1, <2>2 DEF AttemptPending
<1>9. CASE WorkerStep \/ ShellExits
  BY <1>0, <1>9, <1>a, WorkerFrame DEF AttemptPending
<1>10. CASE WorkerExit
  <2>1. UNCHANGED <<tab, toStorage, fromStorage>> /\ subs' = {} /\ attempt' = NoAttempt
    BY <1>10 DEF WorkerExit, storageVars, ClearSession
  <2>2. op'.kind = op.kind /\ op'.step = op.step /\ op'.result = op.result
    BY <1>0, <1>10 DEF WorkerExit, TypeOK
  <2>3. \A t \in Subscribers : phase'[t] # "joining"
    BY <1>10 DEF WorkerExit, Joiners
  <2>. QED  BY <1>0, <2>1, <2>2, <2>3, AttemptTypes, DeletionKept DEF AttemptPending
<1>11. CASE StorageHandles
  BY <1>11, DeletionStorage
<1>12. ASSUME UNCHANGED <<connVars, supVars, toWorker, toStorage, tab, workerVars, tmux, op,
                          joinerClosed>>,
              fromStorage' = fromStorage \/ (fromStorage # <<>> /\ fromStorage' = Tail(fromStorage))
       PROVE  Deletion'
  BY <1>0, <1>12, DeletionKept DEF connVars, supVars, AttemptPending
<1>s. op.step = "done" \/ op.step \in OpSteps \ {"done"}
  BY DEF Typed, TypeOK
<1>13. ASSUME NEW kind \in Operations, OpStart(kind)  PROVE Deletion'
  <2>1. Advance(kind, TRUE) /\ op.step = "none" /\ fromStorage' = fromStorage
    BY <1>13 DEF OpStart
  <2>. QED  BY <2>1, DeletionAdvance
<1>14. CASE OpContinues
  <2>1. /\ Advance(op.kind, ~op.lost) /\ fromStorage' = fromStorage
        /\ op.step \in {"attempt"} \union TerminalSteps /\ (op.step = "attempt" => ~AttemptPending)
    BY <1>14 DEF OpContinues, OpMustContinue, Typed, TerminalSteps
  <2>2. op.kind \in Operations /\ (~op.lost) \in BOOLEAN /\ op.step \notin {"delete", "done", "none"}
    BY <2>1 DEF Typed, TerminalSteps
  <2>. QED  BY <2>1, <2>2, DeletionAdvance
<1>15. CASE OpTerminalReply
  <2>1. toSup # <<>> /\ fromStorage' = fromStorage /\ Head(toSup).type \in TerminalSteps
    BY <1>15 DEF OpTerminalReply, Received
  <2>2. Head(toSup) \in Message
    BY <1>0, <2>1, TailIs DEF TypeOK
  <2>3. Head(toSup).ok \in BOOLEAN
    BY <2>2 DEF Message
  <2>4. CASE op.step = Head(toSup).type
    <3>1. op.kind \in Operations /\ op.step \notin {"delete", "done", "none", "attempt"}
      BY <2>1, <2>4 DEF Typed, TerminalSteps
    <3>2. Advance(op.kind, Head(toSup).ok)
      BY <1>15, <2>4 DEF OpTerminalReply
    <3>. QED  BY <2>1, <2>3, <3>1, <3>2, DeletionAdvance
  <2>5. CASE op.step # Head(toSup).type
    BY <1>12, <1>15, <2>1, <2>5 DEF OpTerminalReply
  <2>. QED  BY <2>4, <2>5
<1>16. CASE OpStorageReply
  <2>1. fromStorage # <<>> /\ fromStorage' = Tail(fromStorage)
    BY <1>16 DEF OpStorageReply
  <2>2. Head(fromStorage) \in Message
    BY <1>0, <2>1, TailIs DEF TypeOK
  <2>3. /\ Head(fromStorage).ok \in BOOLEAN
        /\ Head(fromStorage).type \notin {"attempt", "done", "none"}
    BY <2>2 DEF Message, TerminalCommands, StorageCommands, Events
  <2>4. CASE op.step = Head(fromStorage).type
    <3>1. op.kind \in Operations
      BY <2>3, <2>4 DEF Typed
    <3>2. Advance(op.kind, Head(fromStorage).ok)
      BY <1>16, <2>4 DEF OpStorageReply
    <3>. QED  BY <2>1, <2>3, <2>4, <3>1, <3>2, DeletionAdvance
  <2>5. CASE op.step # Head(fromStorage).type
    BY <1>12, <1>16, <2>1, <2>5 DEF OpStorageReply
  <2>. QED  BY <2>4, <2>5
<1>17. CASE OpTimeout
  <2>1. /\ Advance(op.kind, FALSE) /\ fromStorage' = fromStorage
        /\ op.step \notin {"attempt", "done", "none"}
    BY <1>17 DEF OpTimeout, TerminalSteps, StorageSteps
  <2>2. op.kind \in Operations
    BY <2>1 DEF Typed
  <2>. QED  BY <2>1, <2>2, DeletionAdvance
<1>. QED  BY <1>1, <1>2, <1>3, <1>4, <1>5, <1>6, <1>7, <1>8, <1>9, <1>10, <1>11, <1>13, <1>14,
             <1>15, <1>16, <1>17 DEF Next, ConnectionStep

\* DeletedSessionIsQuiet: nobody is subscribed to the session of a deleted tab, nobody
\* will be, and no attach attempt of it is pending.
THEOREM DeletionIsFinal == Spec => []DeletedSessionIsQuiet
<1>1. Typed /\ FanOut /\ Deletion /\ [Next]_vars => (Typed /\ FanOut /\ Deletion)'
  BY TypedNext, FanOutNext, DeletionNext
<1>2. Typed /\ FanOut /\ Deletion => DeletedSessionIsQuiet
  <2>1. SUFFICES ASSUME Typed, Deletion, op.result = "deleted"  PROVE DeletedSessionIsQuiet
    BY DEF DeletedSessionIsQuiet
  <2>2. Deleting /\ op.step # "attempt"
    BY <2>1 DEF Deletion, Closed, Deleting
  <2>3. subs = {} /\ ~AttemptPending
    BY <2>1, <2>2 DEF Deletion, Closed
  <2>4. attempt.state \in States
    BY <2>1, AttemptTypes DEF Typed, TypeOK
  <2>. QED  BY <2>3, <2>4 DEF AttemptPending, States, DeletedSessionIsQuiet
<1>. QED  BY TypedInit, FanOutInit, DeletionInit, <1>1, <1>2, PTL DEF Spec

-----------------------------------------------------------------------------
(* One stream: commands that do not time out *)

Patient == "timeout" \notin Faults

\* The only attach on its way is the one the attempt waits for, and it is in one place;
\* while the worker handles it there is no pty.
OneAttach ==
    /\ \A x \in Ids : AttachSent(x) \/ AttachHandled(x) \/ AttachAnswered(x) =>
                         attempt.state = "requested" /\ attempt.owner = x
    /\ \A x \in Ids : AttachHandled(x) => pty = "none" /\ ~AttachAnswered(x)
    /\ \A i, j \in 1..Len(toSup) :
          toSup[i].type = "attach" /\ toSup[j].type = "attach" => i = j
    /\ strays = 0

LEMMA OneAttachInit == Init => OneAttach
BY DEF Init, OneAttach, AttachSent, AttachHandled, AttachAnswered

\* toSup' is toSup or its tail.
TakesMessage == toSup' = toSup \/ (toSup # <<>> /\ toSup' = Tail(toSup))

LEMMA TakesMessageIs ==
  ASSUME TypeOK, TakesMessage
  PROVE  /\ Len(toSup) \in Nat /\ Len(toSup') \in Nat
         /\ \/ toSup' = toSup
            \/ /\ Len(toSup') = Len(toSup) - 1
               /\ \A i \in 1..Len(toSup') : toSup'[i] = toSup[i + 1] /\ i + 1 \in 1..Len(toSup)
<1>0. toSup \in Seq(Message)
  BY DEF TypeOK
<1>1. CASE toSup' = toSup
  BY <1>0, <1>1
<1>2. CASE toSup # <<>> /\ toSup' = Tail(toSup)
  BY <1>0, <1>2, TailIs
<1>. QED  BY <1>1, <1>2 DEF TakesMessage

\* A step of the Supervisor that neither sends an attach nor ends the wait for one.
LEMMA OneAttachKept ==
  ASSUME TypeOK, OneAttach, UNCHANGED workerVars, TakesMessage,
         \A x \in Ids : AttachSent(x)' => AttachSent(x),
         attempt.state = "requested" =>
             attempt'.state = "requested" /\ attempt'.owner = attempt.owner
  PROVE  OneAttach'
<1>1. Takes
  BY TakesIs DEF TakesMessage
<1>2. pty' = pty /\ strays' = strays
  BY DEF workerVars
<1>3. \A i, j \in 1..Len(toSup') : toSup'[i].type = "attach" /\ toSup'[j].type = "attach" => i = j
  <2>1. CASE toSup' = toSup
    BY <2>1 DEF OneAttach
  <2>2. CASE /\ Len(toSup') = Len(toSup) - 1
             /\ \A i \in 1..Len(toSup') : toSup'[i] = toSup[i + 1] /\ i + 1 \in 1..Len(toSup)
    <3>1. ASSUME NEW i \in 1..Len(toSup'), NEW j \in 1..Len(toSup'),
                 toSup'[i].type = "attach", toSup'[j].type = "attach"
          PROVE  i = j
      <4>1. i + 1 = j + 1
        BY <2>2, <3>1 DEF OneAttach
      <4>. QED  BY <4>1
    <3>. QED  BY <3>1
  <2>. QED  BY <2>1, <2>2, TakesMessageIs
<1>. QED  BY <1>1, <1>2, <1>3 DEF OneAttach, Takes

LEMMA OneAttachSends ==
  ASSUME TypeOK, OneAttach, UNCHANGED workerVars, TakesMessage, NEW x \in Subscribers,
         attempt.state # "requested", attempt'.state = "requested", attempt'.owner = x,
         toWorker' = Append(toWorker, Cmd("attach", x))
  PROVE  OneAttach'
<1>1. Takes
  BY TakesIs DEF TakesMessage
<1>2. \A y \in Ids : ~AttachSent(y) /\ ~AttachHandled(y) /\ ~AttachAnswered(y)
  BY DEF OneAttach
<1>3. \A i \in 1..Len(toSup') : toSup'[i].type # "attach"
  <2>1. \A i \in 1..Len(toSup) : toSup[i] \in Message
    BY DEF TypeOK
  <2>2. \A i \in 1..Len(toSup) : toSup[i].type # "attach"
    BY <1>2, <2>1 DEF AttachAnswered, Message
  <2>. QED  BY <2>2, TakesMessageIs
<1>4. \A y \in Ids : AttachSent(y)' => y = x
  <2>1. Cmd("attach", x) \in Command
    BY CommandTypes DEF TerminalCommands
  <2>2. /\ Len(toWorker) \in Nat /\ Len(toWorker') = Len(toWorker) + 1
        /\ \A i \in 1..Len(toWorker) : toWorker'[i] = toWorker[i]
        /\ toWorker'[Len(toWorker) + 1] = Cmd("attach", x)
    BY <2>1, AppendIs DEF TypeOK
  <2>3. \A y \in Ids : Cmd("attach", y) = Cmd("attach", x) => y = x
    BY DEF Cmd
  <2>. QED  BY <1>2, <2>2, <2>3 DEF AttachSent
<1>5. strays' = 0
  BY DEF OneAttach, workerVars
<1>. QED  BY <1>1, <1>2, <1>3, <1>4, <1>5 DEF OneAttach, Takes

\* The answer that the attempt waits for is the last of the attach.
LEMMA OneAttachAnswered ==
  ASSUME TypeOK, Order, OneAttach, UNCHANGED workerVars, toSup # <<>>, toSup' = Tail(toSup),
         Head(toSup).type = "attach",
         \A x \in Ids : AttachSent(x)' => AttachSent(x)
  PROVE  /\ attempt.state = "requested" /\ attempt.owner = Head(toSup).id
         /\ OneAttach'
<1>1. /\ Len(toSup) \in Nat \ {0} /\ Head(toSup) = toSup[1] /\ Head(toSup) \in Message
      /\ Len(toSup') = Len(toSup) - 1
      /\ \A i \in 1..Len(toSup') : toSup'[i] = toSup[i + 1] /\ i + 1 \in 1..Len(toSup)
  BY TailIs DEF TypeOK
<1>2. Head(toSup).id \in Ids
  BY <1>1 DEF Message
<1>3. AttachAnswered(Head(toSup).id)
  BY <1>1 DEF AttachAnswered
<1>4. attempt.state = "requested" /\ attempt.owner = Head(toSup).id
  BY <1>2, <1>3 DEF OneAttach
<1>5. \A x \in Ids : ~AttachSent(x) /\ ~AttachHandled(x)
  BY <1>2, <1>3, <1>4 DEF OneAttach, Order, SentOnce
<1>6. \A i \in 1..Len(toSup') : toSup'[i].type # "attach"
  <2>1. SUFFICES ASSUME NEW i \in 1..Len(toSup'), toSup'[i].type = "attach"  PROVE FALSE
    OBVIOUS
  <2>2. i + 1 \in 1..Len(toSup) /\ 1 \in 1..Len(toSup) /\ toSup[i + 1].type = "attach"
    BY <1>1, <2>1
  <2>3. i + 1 = 1
    BY <1>1, <2>2 DEF OneAttach
  <2>. QED  BY <1>1, <2>1, <2>3
<1>7. \A x \in Ids : ~AttachSent(x)' /\ ~AttachHandled(x)' /\ ~AttachAnswered(x)'
  BY <1>5, <1>6 DEF AttachHandled, AttachAnswered, workerVars
<1>8. strays' = 0
  BY DEF OneAttach, workerVars
<1>. QED  BY <1>4, <1>6, <1>7, <1>8 DEF OneAttach

LEMMA SendsNoAttach ==
  ASSUME TypeOK, \/ toWorker' = toWorker
                 \/ \E c \in Command : c.type # "attach" /\ toWorker' = Append(toWorker, c)
  PROVE  \A x \in Ids : AttachSent(x)' => AttachSent(x)
<1>1. CASE toWorker' = toWorker
  BY <1>1 DEF AttachSent
<1>2. ASSUME NEW c \in Command, c.type # "attach", toWorker' = Append(toWorker, c)
      PROVE  \A x \in Ids : AttachSent(x)' => AttachSent(x)
  <2>1. /\ Len(toWorker) \in Nat /\ Len(toWorker') = Len(toWorker) + 1
        /\ \A i \in 1..Len(toWorker) : toWorker'[i] = toWorker[i]
        /\ toWorker'[Len(toWorker) + 1] = c
    BY <1>2, AppendIs DEF TypeOK
  <2>2. \A x \in Ids : Cmd("attach", x).type = "attach"
    BY CommandTypes DEF TerminalCommands
  <2>. QED  BY <1>2, <2>1, <2>2 DEF AttachSent
<1>. QED  BY <1>1, <1>2

\* The worker moves the attach from its queue to its handler to the answers.
LEMMA OneAttachWorker ==
  ASSUME TypeOK, Order, OneAttach, WorkerStep \/ ShellExits
  PROVE  OneAttach'
<1>0. toWorker \in Seq(Command) /\ toSup \in Seq(Message) /\ busy \in SUBSET Command
  BY DEF TypeOK
<1>1. attempt' = attempt
  BY WorkerFrame
<1>2. ASSUME toWorker # <<>>, toWorker' = Tail(toWorker)
      PROVE  /\ \A x \in Ids : AttachSent(x)' => AttachSent(x) /\ Head(toWorker) # Cmd("attach", x)
             /\ \A x \in Ids : Head(toWorker) = Cmd("attach", x) => AttachSent(x)
             /\ Head(toWorker) \in Command
  <2>1. /\ Len(toWorker) \in Nat \ {0} /\ Len(toWorker') = Len(toWorker) - 1
        /\ Head(toWorker) = toWorker[1] /\ Head(toWorker) \in Command
        /\ \A i \in 1..Len(toWorker') : toWorker'[i] = toWorker[i + 1] /\ i + 1 \in 1..Len(toWorker)
    BY <1>0, <1>2, TailIs
  <2>2. ASSUME NEW x \in Ids, AttachSent(x)'
        PROVE  AttachSent(x) /\ Head(toWorker) # Cmd("attach", x)
    <3>1. PICK i \in 1..Len(toWorker') : toWorker'[i] = Cmd("attach", x)
      BY <2>2 DEF AttachSent
    <3>2. i + 1 \in 1..Len(toWorker) /\ toWorker[i + 1] = Cmd("attach", x) /\ i + 1 # 1
      BY <2>1, <3>1
    <3>3. Cmd("attach", x).type = "attach" /\ 1 \in 1..Len(toWorker)
      BY <2>1, CommandTypes DEF TerminalCommands
    <3>4. toWorker[1] # Cmd("attach", x)
      BY <3>2, <3>3 DEF Order, SentOnce
    <3>. QED  BY <2>1, <3>2, <3>4 DEF AttachSent
  <2>. QED  BY <2>1, <2>2 DEF AttachSent
<1>3. ASSUME NEW m \in Message, toSup' = Append(toSup, m)
      PROVE  /\ \A x \in Ids : AttachAnswered(x)'
                  => AttachAnswered(x) \/ (m.type = "attach" /\ m.id = x)
             /\ (m.type = "attach" => \A x \in Ids : ~AttachAnswered(x)) =>
                  \A i, j \in 1..Len(toSup') :
                      toSup'[i].type = "attach" /\ toSup'[j].type = "attach" => i = j
  <2>1. /\ Len(toSup) \in Nat /\ Len(toSup') = Len(toSup) + 1
        /\ \A i \in 1..Len(toSup) : toSup'[i] = toSup[i] /\ toSup[i].id \in Ids
        /\ toSup'[Len(toSup) + 1] = m
    <3>1. \A i \in 1..Len(toSup) : toSup[i] \in Message
      BY <1>0
    <3>2. \A i \in 1..Len(toSup) : toSup[i].id \in Ids
      BY <3>1 DEF Message
    <3>. QED  BY <1>0, <1>3, <3>2, AppendIs
  <2>2. \A x \in Ids : AttachAnswered(x)' => AttachAnswered(x) \/ (m.type = "attach" /\ m.id = x)
    BY <2>1 DEF AttachAnswered
  <2>3. ASSUME m.type = "attach" => \A x \in Ids : ~AttachAnswered(x)
        PROVE  \A i, j \in 1..Len(toSup') :
                      toSup'[i].type = "attach" /\ toSup'[j].type = "attach" => i = j
    <3>1. CASE m.type # "attach"
      BY <2>1, <3>1 DEF OneAttach
    <3>2. CASE m.type = "attach"
      <4>1. \A i \in 1..Len(toSup) : toSup[i].type # "attach"
        BY <2>1, <2>3, <3>2 DEF AttachAnswered
      <4>. QED  BY <2>1, <4>1
    <3>. QED  BY <3>1, <3>2
  <2>. QED  BY <2>2, <2>3
\* What is left to show of each step.
<1>4. ASSUME \A x \in Ids : AttachSent(x)' => AttachSent(x),
             \A x \in Ids : AttachHandled(x)' => AttachHandled(x) /\ pty' = "none",
             \/ toSup' = toSup
             \/ \E m \in Message : m.type # "attach" /\ toSup' = Append(toSup, m),
             strays' = 0
      PROVE  OneAttach'
  <2>1. \A x \in Ids : AttachAnswered(x)' => AttachAnswered(x)
    BY <1>3, <1>4 DEF AttachAnswered
  <2>2. \A i, j \in 1..Len(toSup') : toSup'[i].type = "attach" /\ toSup'[j].type = "attach" => i = j
    BY <1>3, <1>4 DEF OneAttach
  <2>. QED  BY <1>1, <1>4, <2>1, <2>2 DEF OneAttach
<1>5. CASE HandlesAttach
  <2>0. toWorker # <<>> /\ toWorker' = Tail(toWorker) /\ Head(toWorker).type = "attach"
        /\ pty' = pty /\ strays' = strays
    BY <1>5 DEF HandlesAttach, Arrived
  <2>1. PICK z \in Ids : Head(toWorker) = Cmd("attach", z)
    <3>1. Head(toWorker) \in Command
      BY <1>2, <2>0
    <3>. QED  BY <2>0, <3>1, CommandTypes DEF Command
  <2>2. AttachSent(z) /\ ~AttachHandled(z) /\ ~AttachAnswered(z) /\ ~AttachSent(z)'
    BY <1>2, <2>0, <2>1 DEF Order, SentOnce
  <2>3. attempt.state = "requested" /\ attempt.owner = z
    BY <2>2 DEF OneAttach
  <2>4. \A x \in Ids : ~AttachHandled(x) /\ ~AttachAnswered(x) /\ (AttachSent(x) => x = z)
    BY <2>2, <2>3 DEF OneAttach
  <2>5. \A x \in Ids : ~AttachSent(x)'
    BY <1>2, <2>0, <2>2, <2>4
  <2>6. CASE pty # "none"
    <3>1. busy' = busy /\ toSup' = Append(toSup, Answer(Head(toWorker), TRUE))
      BY <1>5, <2>6 DEF HandlesAttach, Reply
    <3>2. Answer(Head(toWorker), TRUE) \in Message
          /\ Answer(Head(toWorker), TRUE).id = z
      <4>1. Head(toWorker).id = z /\ Head(toWorker) \in Command
        BY <1>2, <2>0, <2>1 DEF Cmd
      <4>. QED  BY <4>1, CommandTypes
    <3>3. \A x \in Ids : AttachAnswered(x)' => x = z
      BY <1>3, <2>4, <3>1, <3>2
    <3>4. \A i, j \in 1..Len(toSup') : toSup'[i].type = "attach" /\ toSup'[j].type = "attach" => i = j
      BY <1>3, <2>4, <3>1, <3>2
    <3>5. \A x \in Ids : ~AttachHandled(x)'
      BY <2>4, <3>1 DEF AttachHandled
    <3>. QED  BY <1>1, <2>0, <2>3, <2>5, <3>3, <3>4, <3>5 DEF OneAttach
  <2>7. CASE pty = "none"
    <3>1. busy' = busy \union {Cmd("attach", z)} /\ toSup' = toSup
      BY <1>5, <2>1, <2>7 DEF HandlesAttach
    <3>2. \A x \in Ids : AttachHandled(x)' => x = z
      BY <2>4, <3>1 DEF AttachHandled, Cmd
    <3>3. \A x \in Ids : ~AttachAnswered(x)'
      BY <2>4, <3>1 DEF AttachAnswered
    <3>. QED  BY <1>1, <2>0, <2>3, <2>5, <2>7, <3>1, <3>2, <3>3 DEF OneAttach
  <2>. QED  BY <2>6, <2>7
<1>6. CASE HandlesDetach \/ HandlesWrite \/ HandlesKill \/ HandlesCreate
  <2>1. /\ toWorker # <<>> /\ toWorker' = Tail(toWorker) /\ Head(toWorker).type # "attach"
        /\ strays' = strays /\ pty' \in {pty, "none"}
        /\ busy' = busy \/ busy' = busy \union {Head(toWorker)}
    BY <1>6 DEF HandlesDetach, HandlesWrite, HandlesKill, HandlesCreate, Arrived, DropStream,
                workerVars
  <2>2. \A x \in Ids : Cmd("attach", x).type = "attach"
    BY CommandTypes DEF TerminalCommands
  <2>3. \A x \in Ids : AttachHandled(x)' => AttachHandled(x)
    BY <2>1, <2>2 DEF AttachHandled
  <2>4. \A ok \in BOOLEAN : Answer(Head(toWorker), ok) \in Message
                             /\ Answer(Head(toWorker), ok).type # "attach"
    BY <1>2, <2>1, CommandTypes
  <2>5. \/ toSup' = toSup
        \/ \E m \in Message : m.type # "attach" /\ toSup' = Append(toSup, m)
    <3>1. CASE HandlesDetach
      BY <2>4, <3>1 DEF HandlesDetach, Reply
    <3>2. CASE HandlesWrite
      <4>1. (pty # "none") \in BOOLEAN
        OBVIOUS
      <4>. QED  BY <2>4, <3>2, <4>1 DEF HandlesWrite, Reply
    <3>3. CASE HandlesKill \/ HandlesCreate
      BY <3>3 DEF HandlesKill, HandlesCreate
    <3>. QED  BY <1>6, <3>1, <3>2, <3>3
  <2>6. \A x \in Ids : AttachSent(x)' => AttachSent(x)
    BY <1>2, <2>1
  <2>7. \A x \in Ids : AttachHandled(x) => pty = "none"
    BY DEF OneAttach
  <2>8. strays' = 0
    BY <2>1 DEF OneAttach
  <2>. QED  BY <1>4, <2>1, <2>3, <2>5, <2>6, <2>7, <2>8
<1>7. ASSUME NEW cmd \in busy, AttachEnds(cmd)  PROVE OneAttach'
  <2>1. PICK z \in Ids : cmd = Cmd("attach", z)
    BY <1>0, <1>7, CommandTypes DEF AttachEnds, Command
  <2>2. /\ AttachHandled(z) /\ attempt.state = "requested" /\ attempt.owner = z /\ pty = "none"
    BY <2>1 DEF AttachHandled, OneAttach
  <2>3. \A x \in Ids : ~AttachAnswered(x) /\ ~AttachSent(x) /\ (AttachHandled(x) => x = z)
    BY <2>2 DEF OneAttach, Order, SentOnce
  <2>4. toWorker' = toWorker /\ busy' = busy \ {cmd} /\ strays' = strays
    BY <1>7, <2>2 DEF AttachEnds
  <2>5. \A x \in Ids : ~AttachSent(x)' /\ ~AttachHandled(x)'
    BY <2>1, <2>3, <2>4 DEF AttachSent, AttachHandled
  <2>6. PICK ok \in BOOLEAN : toSup' = Append(toSup, Answer(cmd, ok))
    BY <1>7 DEF AttachEnds, Reply
  <2>7. Answer(cmd, ok) \in Message /\ Answer(cmd, ok).id = z
    BY <1>0, <2>1, CommandTypes DEF Cmd
  <2>8. /\ \A x \in Ids : AttachAnswered(x)' => x = z
        /\ \A i, j \in 1..Len(toSup') : toSup'[i].type = "attach" /\ toSup'[j].type = "attach" => i = j
    BY <1>3, <2>3, <2>6, <2>7
  <2>. QED  BY <1>1, <2>2, <2>4, <2>5, <2>8 DEF OneAttach
<1>8. ASSUME NEW cmd \in busy, NEW ok \in BOOLEAN, KillEnds(cmd) \/ CreateEnds(cmd, ok)
      PROVE  OneAttach'
  <2>1. cmd \in Command /\ cmd.type # "attach"
    BY <1>0, <1>8 DEF KillEnds, CreateEnds, KillCommands
  <2>2. \A yes \in BOOLEAN : Answer(cmd, yes) \in Message /\ Answer(cmd, yes).type # "attach"
    BY <2>1, CommandTypes
  <2>3. \E m \in Message : m.type # "attach" /\ toSup' = Append(toSup, m)
    BY <1>8, <2>2 DEF KillEnds, CreateEnds, Reply
  <2>4. toWorker' = toWorker /\ busy' = busy \ {cmd} /\ (pty = "none" => pty' = "none")
        /\ (strays = 0 => strays' = 0)
    BY <1>8 DEF KillEnds, CreateEnds, SessionEnds
  <2>5. \A x \in Ids : AttachHandled(x)' => AttachHandled(x) /\ pty' = "none"
    BY <2>4 DEF AttachHandled, OneAttach
  <2>. QED  BY <1>4, <2>3, <2>4, <2>5 DEF AttachSent, OneAttach
<1>9. CASE Backpressure
  <2>. DEFINE m == [type |-> "backpressure", id |-> NoOne, ok |-> TRUE]
  <2>1. m \in Message /\ m.type # "attach"
    BY CommandTypes DEF Message, Events
  <2>2. toSup' = Append(toSup, m) /\ toWorker' = toWorker /\ busy' = busy /\ strays' = strays
        /\ pty' = "none"
    BY <1>9 DEF Backpressure, DropStream
  <2>. HIDE DEF m
  <2>. QED  BY <1>4, <2>1, <2>2 DEF AttachSent, AttachHandled, OneAttach
<1>10. CASE PtyExit \/ WorkerRestart \/ ShellExits
  <2>1. UNCHANGED <<toWorker, toSup, busy>> /\ (pty = "none" => pty' = "none")
        /\ (strays = 0 => strays' = 0)
    BY <1>10 DEF PtyExit, WorkerRestart, ShellExits, SessionEnds
  <2>. QED  BY <1>4, <2>1 DEF AttachSent, AttachHandled, OneAttach
<1>. QED  BY <1>5, <1>6, <1>7, <1>8, <1>9, <1>10 DEF WorkerStep

LEMMA LeaveSendsNoAttach ==
  ASSUME TypeOK, NEW leavers \in SUBSET Subscribers, Leave(leavers)
  PROVE  \A x \in Ids : AttachSent(x)' => AttachSent(x)
<1>1. \/ toWorker' = toWorker
      \/ detaching' \in leavers /\ toWorker' = Append(toWorker, Cmd("detach", detaching'))
  BY LeaveIs
<1>2. \A y \in Subscribers : Cmd("detach", y) \in Command /\ Cmd("detach", y).type # "attach"
  BY CommandTypes DEF TerminalCommands
<1>. QED  BY <1>1, <1>2, SendsNoAttach

LEMMA GiveUpSendsNoAttach ==
  ASSUME TypeOK, NEW s \in Subscribers,
         IF phase[s] = "attached"
         THEN phase' = [phase EXCEPT ![s] = "over"] /\ Leave({s})
         ELSE UNCHANGED <<phase, subs, detaching, toWorker>>
  PROVE  \A x \in Ids : AttachSent(x)' => AttachSent(x)
BY LeaveSendsNoAttach, SendsNoAttach

LEMMA OneAttachNext ==
  ASSUME Patient
  PROVE  Typed /\ FanOut /\ Order /\ OneAttach /\ [Next]_vars => OneAttach'
<1>a. ASSUME TypeOK, OneAttach, UNCHANGED workerVars, TakesMessage, UNCHANGED <<attempt, toWorker>>
      PROVE  OneAttach'
  BY <1>a, OneAttachKept, SendsNoAttach
<1>b. ASSUME TypeOK, OneAttach, UNCHANGED vars  PROVE OneAttach'
  BY <1>a, <1>b DEF vars, workerVars, supVars, TakesMessage
<1>. SUFFICES ASSUME Typed, FanOut, Order, OneAttach, Next  PROVE OneAttach'
  BY <1>b DEF Typed
<1>0. TypeOK /\ ~MayTimeOut
  BY DEF Typed, Patient, MayTimeOut
<1>1. ASSUME NEW s \in Subscribers, Connect(s)  PROVE OneAttach'
  BY <1>0, <1>1, <1>a DEF Connect, supVars, TakesMessage
<1>2. ASSUME NEW s \in Subscribers, UNCHANGED <<attempt, workerVars>>, TakesMessage,
             IF phase[s] = "attached"
             THEN phase' = [phase EXCEPT ![s] = "over"] /\ Leave({s})
             ELSE UNCHANGED <<phase, subs, detaching, toWorker>>
      PROVE  OneAttach'
  BY <1>0, <1>2, GiveUpSendsNoAttach, OneAttachKept
<1>3. ASSUME NEW s \in Subscribers, SocketCloses(s)  PROVE OneAttach'
  BY <1>2, <1>3 DEF SocketCloses, TakesMessage
<1>4. ASSUME NEW s \in Subscribers, CheckReply(s)  PROVE OneAttach'
  <2>1. UNCHANGED workerVars /\ TakesMessage
    BY <1>4 DEF CheckReply, TakesMessage
  <2>2. CASE UNCHANGED <<supVars, toWorker>>
    BY <1>0, <1>a, <2>1, <2>2 DEF supVars
  <2>3. CASE JoinSession(s)
    <3>1. CASE JoinsAttempt(s)
      <4>1. attempt'.state = attempt.state /\ attempt'.owner = attempt.owner /\ toWorker' = toWorker
        BY <1>0, <3>1 DEF JoinsAttempt, Attempt, TypeOK
      <4>. QED  BY <1>0, <2>1, <4>1, OneAttachKept, SendsNoAttach
    <3>2. CASE JoinsFailed(s)
      BY <1>0, <2>1, <3>2, OneAttachKept, SendsNoAttach DEF JoinsFailed
    <3>3. CASE JoinsOthers(s) \/ JoinsNoWorker(s)
      BY <1>0, <2>1, <3>3, <1>a DEF JoinsOthers, JoinsNoWorker
    <3>4. CASE JoinsFirst(s)
      <4>1. attempt.state = "none" /\ attempt'.owner = s
        BY <3>4 DEF JoinsFirst, First
      <4>2. CASE detaching = NoOne
        BY <1>0, <2>1, <3>4, <4>1, <4>2, OneAttachSends DEF JoinsFirst
      <4>3. CASE detaching # NoOne
        BY <1>0, <2>1, <3>4, <4>1, <4>3, OneAttachKept, SendsNoAttach DEF JoinsFirst
      <4>. QED  BY <4>2, <4>3
    <3>. QED  BY <2>3, JoinCases, <3>1, <3>2, <3>3, <3>4
  <2>. QED  BY <1>4, <2>2, <2>3 DEF CheckReply, supVars
<1>5. ASSUME NEW s \in Subscribers, FrameArrives(s)  PROVE OneAttach'
  <2>1. UNCHANGED <<attempt, workerVars>> /\ TakesMessage
    BY <1>5 DEF FrameArrives, TakesMessage
  <2>2. GiveUp(s) \/ UNCHANGED <<ws, phase, subs, detaching, toWorker>>
    BY <1>5 DEF FrameArrives
  <2>. QED  BY <1>0, <1>a, <1>2, <2>1, <2>2 DEF GiveUp
<1>6. ASSUME NEW s \in Subscribers, Write(s)  PROVE OneAttach'
  <2>1. Cmd("write", s) \in Command /\ Cmd("write", s).type # "attach"
    BY CommandTypes DEF TerminalCommands
  <2>2. \A x \in Ids : AttachSent(x)' => AttachSent(x)
    BY <1>0, <1>6, <2>1, SendsNoAttach DEF Write
  <2>. QED  BY <1>0, <1>6, <2>2, OneAttachKept DEF Write, supVars, TakesMessage
<1>7. CASE AttachReply
  <2>1. toSup # <<>> /\ toSup' = Tail(toSup) /\ Head(toSup).type = "attach" /\ UNCHANGED workerVars
    BY <1>7 DEF AttachReply, Received
  <2>2. \A x \in Ids : AttachSent(x)' => AttachSent(x)
    <3>1. CASE AttemptSucceeds
      <4>1. Leave(GoneJoiners) /\ GoneJoiners \in SUBSET Subscribers
        BY <3>1 DEF AttemptSucceeds, GoneJoiners, Joiners
      <4>. QED  BY <1>0, <4>1, LeaveSendsNoAttach
    <3>2. CASE AttemptFails
      <4>1. attempt.owner \in Ids
        BY <1>0, AttemptTypes DEF TypeOK
      <4>2. Cmd("detach", attempt.owner) \in Command /\ Cmd("detach", attempt.owner).type # "attach"
        BY <4>1, CommandTypes DEF TerminalCommands
      <4>. QED  BY <1>0, <3>2, <4>2, SendsNoAttach DEF AttemptFails
    <3>3. CASE UNCHANGED <<ws, phase, supVars, toWorker>>
      BY <1>0, <3>3, SendsNoAttach
    <3>. QED  BY <1>7, <3>1, <3>2, <3>3 DEF AttachReply
  <2>. QED  BY <1>0, <2>1, <2>2, OneAttachAnswered
<1>8. CASE DetachReply
  <2>1. UNCHANGED <<workerVars, phase, subs>> /\ TakesMessage
    BY <1>8 DEF DetachReply, TakesMessage, Received, connVars
  <2>2. CASE DetachSettles /\ attempt.state = "waiting"
    <3>1. attempt \in Attempt
      BY <1>0 DEF TypeOK
    <3>2. attempt'.state = "requested" /\ attempt'.owner = attempt.owner
          /\ toWorker' = Append(toWorker, Cmd("attach", attempt.owner))
      BY <2>2, <3>1 DEF DetachSettles, Attempt
    <3>3. attempt.owner \in Subscribers
      BY <2>2 DEF FanOut, AttemptPending
    <3>. QED  BY <1>0, <2>1, <2>2, <3>2, <3>3, OneAttachSends
  <2>3. CASE toWorker' = toWorker /\ (attempt' = attempt \/ attempt.state = "failed")
    BY <1>0, <2>1, <2>3, OneAttachKept, SendsNoAttach
  <2>. QED  BY <1>8, <2>2, <2>3 DEF DetachReply, DetachSettles
<1>9. CASE WriteReply
  <2>1. UNCHANGED <<attempt, workerVars>> /\ TakesMessage
    BY <1>9 DEF WriteReply, TakesMessage, Received
  <2>2. \/ Head(toSup).id \in Subscribers /\ GiveUp(Head(toSup).id)
        \/ toWorker' = toWorker
    BY <1>0, <1>9 DEF WriteReply, TypeOK
  <2>. QED  BY <1>0, <1>a, <1>2, <2>1, <2>2 DEF GiveUp
<1>10. CASE BackpressureEvent
  BY <1>0, <1>10, <1>a DEF BackpressureEvent, TakesMessage, Received
<1>11. CASE WorkerStep \/ ShellExits
  BY <1>0, <1>11, OneAttachWorker
<1>12. CASE WorkerExit
  <2>1. toWorker' = <<>> /\ toSup' = <<>> /\ busy' = {} /\ strays' = 0
    BY <1>12 DEF WorkerExit
  <2>. QED  BY <2>1 DEF OneAttach, AttachSent, AttachHandled, AttachAnswered
<1>13. CASE StorageHandles
  BY <1>0, <1>13, <1>a DEF StorageHandles, supVars, TakesMessage
<1>14. CASE \/ \E kind \in Operations : OpStart(kind)
            \/ OpContinues \/ OpTerminalReply \/ OpStorageReply \/ OpTimeout
  <2>0. TakesMessage
    BY <1>14 DEF OpStart, OpContinues, OpTerminalReply, OpStorageReply, OpTimeout, Received, TakesMessage
  <2>1. CASE UNCHANGED <<connVars, supVars, toWorker, toStorage, tab, workerVars, tmux, op,
                         joinerClosed>>
    BY <1>0, <1>a, <2>0, <2>1 DEF supVars
  <2>2. ASSUME NEW kind \in Operations, NEW ok \in BOOLEAN, Advance(kind, ok),
               op.step # "done", op.step # "none" => kind = op.kind
        PROVE  OneAttach'
    <3>1. UNCHANGED <<attempt, workerVars>>
      BY <2>2 DEF Advance
    <3>2. CASE toWorker' = toWorker
      BY <1>0, <1>a, <2>0, <3>1, <3>2
    <3>3. ASSUME NEW next \in TerminalSteps, toWorker' = Append(toWorker, Cmd(next, NoOne))
          PROVE  OneAttach'
      <4>1. Cmd(next, NoOne) \in Command /\ Cmd(next, NoOne).type # "attach"
        BY <3>3, CommandTypes DEF TerminalSteps, TerminalCommands
      <4>. QED  BY <1>0, <2>0, <3>1, <3>3, <4>1, SendsNoAttach, OneAttachKept
    <3>. QED  BY <2>2, <3>2, <3>3, AdvanceIs
  <2>. QED  BY <1>14, <2>1, <2>2, OpMoves
<1>15. ~AttachTimeout /\ ~DetachTimeout /\ \A s \in Subscribers : ~WriteTimeout(s) /\ ~CheckTimeout(s)
  BY <1>0 DEF AttachTimeout, DetachTimeout, WriteTimeout, CheckTimeout
<1>. QED  BY <1>1, <1>3, <1>4, <1>5, <1>6, <1>7, <1>8, <1>9, <1>10, <1>11, <1>12, <1>13, <1>14,
             <1>15 DEF Next, ConnectionStep

-----------------------------------------------------------------------------
(* The steps of Next by what they do to subscribers, attempt and operation *)

\* A message may be taken, though not an event.
TakesAnswer ==
    toSup' = toSup \/ (toSup # <<>> /\ toSup' = Tail(toSup) /\ Head(toSup).type # "backpressure")

\* Nobody enters or leaves the map; a write may be sent.
Still ==
    /\ UNCHANGED <<subs, attempt, detaching, op, joinerClosed>>
    /\ \A s \in Subscribers : phase'[s] = "attached" => phase[s] = "attached"
    /\ \/ toWorker' = toWorker
       \/ \E s \in Subscribers : toWorker' = Append(toWorker, Cmd("write", s))

Leaves ==
    /\ UNCHANGED <<attempt, op, joinerClosed>>
    /\ \E s \in Subscribers :
          phase[s] = "attached" /\ phase' = [phase EXCEPT ![s] = "over"] /\ Leave({s})

Joins ==
    /\ UNCHANGED <<op, joinerClosed>>
    /\ \E s \in Subscribers : phase[s] = "checking" /\ JoinSession(s)

\* The attach has been answered; only a timeout settles it without an answer.
AttachSettles ==
    /\ UNCHANGED <<op, joinerClosed>>
    /\ attempt.state = "requested"
    /\ AttemptSucceeds \/ AttemptFails
    /\ Patient \/ AttemptSucceeds =>
          /\ toSup # <<>> /\ toSup' = Tail(toSup) /\ Head(toSup).type = "attach"
          /\ AttemptSucceeds => Head(toSup).ok

DetachEnds ==
    DetachSettles /\ UNCHANGED <<phase, subs, op, joinerClosed>>

Moves ==
    \E kind \in Operations, ok \in BOOLEAN :
        /\ Advance(kind, ok)
        /\ op.step # "done" /\ (op.step # "none" => kind = op.kind)
        /\ op.step = "attempt" => ~AttemptPending
        /\ fromStorage' = fromStorage \/ (fromStorage # <<>> /\ fromStorage' = Tail(fromStorage))
        /\ op.step = "delete" /\ (Patient \/ ok) =>
              /\ fromStorage # <<>>
              /\ Head(fromStorage).type = "delete" /\ Head(fromStorage).ok = ok

Outside == UNCHANGED <<workerVars, tmux>> /\ TakesAnswer

LEMMA GivesUp ==
  ASSUME TypeOK, NEW s \in Subscribers, UNCHANGED <<attempt, op, joinerClosed>>,
         IF phase[s] = "attached"
         THEN phase' = [phase EXCEPT ![s] = "over"] /\ Leave({s})
         ELSE UNCHANGED <<phase, subs, detaching, toWorker>>
  PROVE  Leaves \/ Still
BY DEF Leaves, Still

\* A step of the tab operation moves it on, or the answer comes too late.
TooLate ==
    /\ UNCHANGED <<connVars, supVars, toWorker, toStorage, tab, workerVars, tmux, op, joinerClosed>>
    /\ fromStorage' = fromStorage \/ (fromStorage # <<>> /\ fromStorage' = Tail(fromStorage))

LEMMA OperationSteps ==
  ASSUME Typed, \/ \E kind \in Operations : OpStart(kind)
                \/ OpContinues \/ OpTerminalReply \/ OpStorageReply \/ OpTimeout
  PROVE  TakesAnswer /\ (Moves \/ TooLate)
<1>. DEFINE Fine == TakesAnswer /\ (Moves \/ TooLate)
<1>. SUFFICES Fine
  OBVIOUS
<1>0. TypeOK
  BY DEF Typed
<1>m. ASSUME NEW kind \in Operations, NEW ok \in BOOLEAN, Advance(kind, ok), op.step # "done",
             op.step # "none" => kind = op.kind, op.step = "attempt" => ~AttemptPending,
             fromStorage' = fromStorage \/ (fromStorage # <<>> /\ fromStorage' = Tail(fromStorage)),
             op.step = "delete" /\ (Patient \/ ok) =>
                 /\ fromStorage # <<>>
                 /\ Head(fromStorage).type = "delete" /\ Head(fromStorage).ok = ok,
             TakesAnswer
      PROVE  Fine
  BY <1>m DEF Moves
<1>13. ASSUME NEW kind \in Operations, OpStart(kind)  PROVE Fine
  <2>1. Advance(kind, TRUE) /\ op.step = "none" /\ TakesAnswer /\ fromStorage' = fromStorage
    BY <1>13 DEF OpStart, TakesAnswer
  <2>. QED  BY <1>m, <2>1
<1>14. CASE OpContinues
  <2>1. /\ Advance(op.kind, ~op.lost) /\ TakesAnswer /\ fromStorage' = fromStorage
        /\ op.step \in {"attempt"} \union TerminalSteps /\ (op.step = "attempt" => ~AttemptPending)
    BY <1>14 DEF OpContinues, OpMustContinue, Typed, TerminalSteps, TakesAnswer
  <2>2. op.kind \in Operations /\ (~op.lost) \in BOOLEAN /\ op.step \notin {"delete", "done", "none"}
    BY <2>1 DEF Typed, TerminalSteps
  <2>. QED  BY <1>m, <2>1, <2>2
<1>15. CASE OpTerminalReply
  <2>1. /\ toSup # <<>> /\ Head(toSup).type \in TerminalSteps
        /\ TakesAnswer /\ fromStorage' = fromStorage
    BY <1>15 DEF OpTerminalReply, Received, TakesAnswer, TerminalSteps
  <2>2. Head(toSup) \in Message
    BY <1>0, <2>1, TailIs DEF TypeOK
  <2>3. Head(toSup).ok \in BOOLEAN
    BY <2>2 DEF Message
  <2>4. CASE op.step = Head(toSup).type
    <3>1. op.kind \in Operations /\ op.step \notin {"delete", "done", "none", "attempt"}
      BY <2>1, <2>4 DEF Typed, TerminalSteps
    <3>2. Advance(op.kind, Head(toSup).ok)
      BY <1>15, <2>4 DEF OpTerminalReply
    <3>. QED  BY <1>m, <2>1, <2>3, <3>1, <3>2
  <2>5. CASE op.step # Head(toSup).type
    BY <1>15, <2>1, <2>5 DEF OpTerminalReply, TooLate
  <2>. QED  BY <2>4, <2>5
<1>16. CASE OpStorageReply
  <2>1. fromStorage # <<>> /\ fromStorage' = Tail(fromStorage) /\ TakesAnswer
    BY <1>16 DEF OpStorageReply, TakesAnswer
  <2>2. Head(fromStorage) \in Message
    BY <1>0, <2>1, TailIs DEF TypeOK
  <2>3. /\ Head(fromStorage).ok \in BOOLEAN
        /\ Head(fromStorage).type \notin {"attempt", "done", "none"}
    BY <2>2 DEF Message, TerminalCommands, StorageCommands, Events
  <2>4. CASE op.step = Head(fromStorage).type
    <3>1. op.kind \in Operations
      BY <2>3, <2>4 DEF Typed
    <3>2. Advance(op.kind, Head(fromStorage).ok)
      BY <1>16, <2>4 DEF OpStorageReply
    <3>. QED  BY <1>m, <2>1, <2>3, <2>4, <3>1, <3>2
  <2>5. CASE op.step # Head(fromStorage).type
    BY <1>16, <2>1, <2>5 DEF OpStorageReply, TooLate
  <2>. QED  BY <2>4, <2>5
<1>17. CASE OpTimeout
  <2>1. /\ Advance(op.kind, FALSE) /\ ~Patient /\ TakesAnswer /\ fromStorage' = fromStorage
        /\ op.step \notin {"attempt", "done", "none"}
    BY <1>17 DEF OpTimeout, MayTimeOut, Patient, TerminalSteps, StorageSteps, TakesAnswer
  <2>2. op.kind \in Operations
    BY <2>1 DEF Typed
  <2>. QED  BY <1>m, <2>1, <2>2
<1>. HIDE DEF Fine
<1>. HIDE DEF Fine
<1>. QED  BY <1>13, <1>14, <1>15, <1>16, <1>17

LEMMA Steps ==
  ASSUME Typed, Next
  PROVE  \/ WorkerStep \/ ShellExits
         \/ WorkerExit
         \/ BackpressureEvent
         \/ /\ Outside
            /\ Still \/ Leaves \/ Joins \/ AttachSettles \/ DetachEnds \/ Moves
<1>. DEFINE Fine == /\ Outside
                    /\ Still \/ Leaves \/ Joins \/ AttachSettles \/ DetachEnds \/ Moves
<1>. SUFFICES ASSUME ~WorkerStep, ~ShellExits, ~WorkerExit, ~BackpressureEvent  PROVE Fine
  OBVIOUS
<1>0. TypeOK /\ phase \in [Subscribers -> Phases]
  BY DEF Typed, TypeOK, Phases
<1>1. ASSUME NEW s \in Subscribers, Connect(s)  PROVE Fine
  <2>1. Outside
    BY <1>1 DEF Connect, Outside, TakesAnswer
  <2>2. Still
    BY <1>0, <1>1 DEF Connect, Still, supVars
  <2>. QED  BY <2>1, <2>2
<1>2. ASSUME NEW s \in Subscribers, SocketCloses(s)  PROVE Fine
  <2>1. Outside
    BY <1>2 DEF SocketCloses, Outside, TakesAnswer
  <2>2. Leaves \/ Still
    BY <1>0, <1>2, GivesUp DEF SocketCloses
  <2>. QED  BY <2>1, <2>2
<1>3. ASSUME NEW s \in Subscribers, RejectAttach(s), UNCHANGED <<supVars, toWorker, op, joinerClosed>>
      PROVE  Still
  BY <1>0, <1>3 DEF RejectAttach, Still, supVars
<1>4. ASSUME NEW s \in Subscribers, CheckReply(s)  PROVE Fine
  <2>1. Outside /\ UNCHANGED <<op, joinerClosed>>
    BY <1>4 DEF CheckReply, Outside, TakesAnswer
  <2>2. CASE UNCHANGED <<ws, phase, supVars, toWorker>>
    BY <2>1, <2>2 DEF Still, supVars
  <2>3. CASE RejectAttach(s) /\ UNCHANGED <<supVars, toWorker>>
    BY <1>3, <2>1, <2>3
  <2>4. CASE phase[s] = "checking" /\ JoinSession(s)
    BY <2>1, <2>4 DEF Joins
  <2>. QED  BY <1>4, <2>2, <2>3, <2>4, <2>1 DEF CheckReply
<1>5. ASSUME NEW s \in Subscribers, FrameArrives(s) \/ WriteTimeout(s)  PROVE Fine
  <2>1. Outside /\ UNCHANGED <<attempt, op, joinerClosed>>
    BY <1>5 DEF FrameArrives, WriteTimeout, Outside, TakesAnswer
  <2>2. CASE GiveUp(s)
    BY <1>0, <2>1, <2>2, GivesUp DEF GiveUp
  <2>3. CASE UNCHANGED <<ws, phase, subs, detaching, toWorker>>
    BY <2>1, <2>3 DEF Still
  <2>. QED  BY <1>5, <2>1, <2>2, <2>3 DEF FrameArrives, WriteTimeout
<1>6. ASSUME NEW s \in Subscribers, Write(s)  PROVE Fine
  <2>1. Outside
    BY <1>6 DEF Write, Outside, TakesAnswer
  <2>2. Still
    BY <1>6 DEF Write, Still, supVars
  <2>. QED  BY <2>1, <2>2
<1>7. ASSUME NEW s \in Subscribers, CheckTimeout(s)  PROVE Fine
  <2>1. Outside
    BY <1>7 DEF CheckTimeout, Outside, TakesAnswer
  <2>. QED  BY <1>3, <1>7, <2>1 DEF CheckTimeout
<1>8. CASE AttachReply \/ AttachTimeout
  <2>1. UNCHANGED <<op, joinerClosed>> /\ Outside
    BY <1>8 DEF AttachReply, AttachTimeout, Outside, TakesAnswer, Received
  <2>2. CASE AttachReply /\ UNCHANGED <<ws, phase, supVars, toWorker>>
    BY <2>1, <2>2 DEF Still, supVars
  <2>3. CASE AttachReply /\ attempt.state = "requested" /\ Head(toSup).ok /\ AttemptSucceeds
    BY <2>1, <2>3 DEF AttachSettles, AttachReply, Received
  <2>4. CASE AttachReply /\ attempt.state = "requested" /\ AttemptFails
    <3>1. ~AttemptSucceeds
      <4>1. attempt'.state = "failed"
        BY <1>0, <2>4, AttemptTypes DEF AttemptFails, TypeOK, States
      <4>. QED  BY <4>1, AttemptTypes DEF AttemptSucceeds
    <3>. QED  BY <2>1, <2>4, <3>1 DEF AttachSettles, AttachReply, Received
  <2>5. CASE AttachTimeout
    <3>1. ~AttemptSucceeds
      <4>1. attempt'.state = "failed"
        BY <1>0, <2>5, AttemptTypes DEF AttachTimeout, AttemptFails, TypeOK, States
      <4>. QED  BY <4>1, AttemptTypes DEF AttemptSucceeds
    <3>. QED  BY <2>1, <2>5, <3>1 DEF AttachSettles, AttachTimeout, MayTimeOut, Patient
  <2>. QED  BY <1>8, <2>1, <2>2, <2>3, <2>4, <2>5 DEF AttachReply
<1>9. CASE DetachReply \/ DetachTimeout
  <2>1. UNCHANGED <<phase, subs, op, joinerClosed>> /\ Outside
    BY <1>9 DEF DetachReply, DetachTimeout, Outside, TakesAnswer, Received, connVars
  <2>. QED  BY <1>9, <2>1 DEF DetachReply, DetachTimeout, DetachEnds, Still
<1>10. CASE WriteReply
  <2>1. Outside /\ UNCHANGED <<attempt, op, joinerClosed>>
    BY <1>10 DEF WriteReply, Outside, TakesAnswer, Received
  <2>2. \/ Head(toSup).id \in Subscribers /\ GiveUp(Head(toSup).id)
        \/ UNCHANGED <<ws, phase, subs, detaching, toWorker>>
    BY <1>0, <1>10 DEF WriteReply, TypeOK
  <2>3. CASE UNCHANGED <<ws, phase, subs, detaching, toWorker>>
    BY <2>1, <2>3 DEF Still
  <2>. QED  BY <1>0, <2>1, <2>2, <2>3, GivesUp DEF GiveUp
<1>11. CASE StorageHandles
  BY <1>11 DEF StorageHandles, Outside, TakesAnswer, Still, connVars, supVars
<1>12. CASE \/ \E kind \in Operations : OpStart(kind)
            \/ OpContinues \/ OpTerminalReply \/ OpStorageReply \/ OpTimeout
  <2>1. CASE TakesAnswer /\ TooLate
    BY <2>1 DEF TooLate, Outside, Still, connVars, supVars
  <2>2. CASE TakesAnswer /\ Moves
    <3>1. Outside
      BY <2>2 DEF Outside, Moves, Advance
    <3>. QED  BY <2>2, <3>1
  <2>. QED  BY <1>12, <2>1, <2>2, OperationSteps
<1>. QED  BY <1>1, <1>2, <1>4, <1>5, <1>6, <1>7, <1>8, <1>9, <1>10, <1>11, <1>12 DEF Next, ConnectionStep

\* A command of the type is on its way to the worker.
OnItsWay(type) == \E i \in 1..Len(toWorker) : toWorker[i].type = type

LEMMA QueueMoves ==
  ASSUME TypeOK
  PROVE  /\ toWorker' = toWorker => \A type : OnItsWay(type)' <=> OnItsWay(type)
         /\ \A c \in Command : toWorker' = Append(toWorker, c) =>
               \A type : OnItsWay(type)' <=> OnItsWay(type) \/ c.type = type
         /\ toWorker # <<>> /\ toWorker' = Tail(toWorker) =>
               /\ Head(toWorker) \in Command /\ OnItsWay(Head(toWorker).type)
               /\ \A type : OnItsWay(type)' => OnItsWay(type)
               /\ \A type : OnItsWay(type) => OnItsWay(type)' \/ Head(toWorker).type = type
<1>0. toWorker \in Seq(Command)
  BY DEF TypeOK
<1>1. toWorker' = toWorker => \A type : OnItsWay(type)' <=> OnItsWay(type)
  BY DEF OnItsWay
<1>2. ASSUME NEW c \in Command, toWorker' = Append(toWorker, c), NEW type
      PROVE  OnItsWay(type)' <=> OnItsWay(type) \/ c.type = type
  <2>1. /\ Len(toWorker) \in Nat /\ Len(toWorker') = Len(toWorker) + 1
        /\ \A i \in 1..Len(toWorker) : toWorker'[i] = toWorker[i]
        /\ toWorker'[Len(toWorker) + 1] = c
    BY <1>0, <1>2, AppendIs
  <2>2. 1..Len(toWorker') = 1..Len(toWorker) \union {Len(toWorker) + 1}
    BY <2>1
  <2>. QED  BY <2>1, <2>2 DEF OnItsWay
<1>3. ASSUME toWorker # <<>>, toWorker' = Tail(toWorker)
      PROVE  /\ Head(toWorker) \in Command /\ OnItsWay(Head(toWorker).type)
             /\ \A type : OnItsWay(type)' => OnItsWay(type)
             /\ \A type : OnItsWay(type) => OnItsWay(type)' \/ Head(toWorker).type = type
  <2>1. /\ Len(toWorker) \in Nat \ {0} /\ Len(toWorker') = Len(toWorker) - 1
        /\ Head(toWorker) = toWorker[1] /\ Head(toWorker) \in Command
        /\ \A i \in 1..Len(toWorker') : toWorker'[i] = toWorker[i + 1] /\ i + 1 \in 1..Len(toWorker)
    BY <1>0, <1>3, TailIs
  <2>2. \A i \in 1..Len(toWorker) :
           i = 1 \/ (i - 1 \in 1..Len(toWorker') /\ toWorker'[i - 1] = toWorker[i])
    <3>1. ASSUME NEW i \in 1..Len(toWorker), i # 1
          PROVE  i - 1 \in 1..Len(toWorker') /\ toWorker'[i - 1] = toWorker[i]
      <4>1. i - 1 \in 1..Len(toWorker') /\ (i - 1) + 1 = i
        BY <2>1, <3>1
      <4>. QED  BY <2>1, <4>1
    <3>. QED  BY <3>1
  <2>. QED  BY <2>1, <2>2 DEF OnItsWay
<1>. QED  BY <1>1, <1>2, <1>3

\* What the connections and the attempt send.
LEMMA SupervisorSends ==
  ASSUME TypeOK, Still \/ Leaves \/ Joins \/ AttachSettles \/ DetachEnds
  PROVE  \/ toWorker' = toWorker
         \/ \E c \in Command : /\ c.type \in {"attach", "detach", "write"}
                               /\ toWorker' = Append(toWorker, c)
<1>0. \A x \in Ids, type \in {"attach", "detach", "write"} :
         Cmd(type, x) \in Command /\ Cmd(type, x).type = type
  BY CommandTypes DEF TerminalCommands
<1>a. Subscribers \subseteq Ids /\ attempt.owner \in Ids
  BY CommandTypes, AttemptTypes DEF TypeOK
<1>1. CASE Still
  BY <1>0, <1>1, <1>a DEF Still
<1>2. ASSUME NEW leavers \in SUBSET Subscribers, Leave(leavers)
      PROVE  \/ toWorker' = toWorker
             \/ \E c \in Command : /\ c.type \in {"attach", "detach", "write"}
                                   /\ toWorker' = Append(toWorker, c)
  BY <1>0, <1>2, LeaveIs
<1>3. CASE Leaves
  BY <1>2, <1>3 DEF Leaves
<1>4. CASE Joins
  <2>1. PICK s \in Subscribers : JoinSession(s)
    BY <1>4 DEF Joins
  <2>2. toWorker' \in {toWorker, Append(toWorker, Cmd("attach", s))}
    BY <2>1, JoinCases DEF JoinsAttempt, JoinsFailed, JoinsOthers, JoinsFirst, JoinsNoWorker
  <2>. QED  BY <1>0, <1>a, <2>2
<1>5. CASE AttachSettles
  <2>1. CASE AttemptSucceeds
    <3>1. Leave(GoneJoiners) /\ GoneJoiners \in SUBSET Subscribers
      BY <2>1 DEF AttemptSucceeds, GoneJoiners, Joiners
    <3>. QED  BY <1>2, <3>1
  <2>2. CASE AttemptFails
    BY <1>0, <1>a, <2>2 DEF AttemptFails
  <2>. QED  BY <1>5, <2>1, <2>2 DEF AttachSettles
<1>6. CASE DetachEnds
  <2>1. toWorker' \in {toWorker, Append(toWorker, Cmd("attach", attempt.owner))}
    BY <1>6 DEF DetachEnds, DetachSettles
  <2>. QED  BY <1>0, <1>a, <2>1
<1>. QED  BY <1>1, <1>3, <1>4, <1>5, <1>6

\* The worker takes its next command or none.
LEMMA WorkerTakes ==
  ASSUME WorkerStep \/ ShellExits
  PROVE  \/ toWorker' = toWorker /\ busy' \subseteq busy
         \/ /\ toWorker # <<>> /\ toWorker' = Tail(toWorker)
            /\ busy' \subseteq busy \union {Head(toWorker)}
<1>. DEFINE Fine == \/ toWorker' = toWorker /\ busy' \subseteq busy
                    \/ /\ toWorker # <<>> /\ toWorker' = Tail(toWorker)
                       /\ busy' \subseteq busy \union {Head(toWorker)}
<1>. SUFFICES Fine
  OBVIOUS
<1>1. CASE HandlesAttach \/ HandlesDetach \/ HandlesKill \/ HandlesCreate \/ HandlesWrite
  BY <1>1 DEF HandlesAttach, HandlesDetach, HandlesKill, HandlesCreate, HandlesWrite, Arrived,
              workerVars
<1>2. ASSUME NEW cmd \in busy, NEW ok \in BOOLEAN,
             AttachEnds(cmd) \/ KillEnds(cmd) \/ CreateEnds(cmd, ok)
      PROVE  Fine
  BY <1>2 DEF AttachEnds, KillEnds, CreateEnds
<1>3. CASE PtyExit \/ Backpressure \/ WorkerRestart \/ ShellExits
  BY <1>3 DEF PtyExit, Backpressure, WorkerRestart, ShellExits
<1>. HIDE DEF Fine
<1>. QED  BY <1>1, <1>2, <1>3 DEF WorkerStep

\* Whoever is served has no detach to wait for.
Detaching ==
    detaching # NoOne =>
        attempt.state # "requested" /\ \A s \in subs : phase[s] # "attached"

LEMMA DetachingInit == Init => Detaching
BY DEF Init, Detaching

LEMMA DetachingNext == Typed /\ FanOut /\ Detaching /\ [Next]_vars => Detaching'
<1>b. ASSUME Detaching, UNCHANGED vars  PROVE Detaching'
  BY <1>b DEF Detaching, vars, connVars, supVars
<1>. SUFFICES ASSUME Typed, FanOut, Detaching, Next  PROVE Detaching'
  BY <1>b
<1>0. TypeOK /\ phase \in [Subscribers -> Phases] /\ subs \in SUBSET Subscribers /\ attempt \in Attempt
  BY DEF Typed, TypeOK, Phases
<1>1. CASE WorkerStep \/ ShellExits
  BY <1>1, WorkerFrame DEF Detaching
<1>2. CASE WorkerExit
  BY <1>2 DEF WorkerExit, ClearSession, Detaching
<1>3. CASE BackpressureEvent
  BY <1>3 DEF BackpressureEvent, CloseSubscribers, Detaching
<1>4. CASE Still
  BY <1>0, <1>4 DEF Still, Detaching
<1>5. CASE Leaves
  <2>1. PICK s \in Subscribers : /\ phase[s] = "attached" /\ phase' = [phase EXCEPT ![s] = "over"]
                                 /\ Leave({s})
    BY <1>5 DEF Leaves
  <2>2. {s} \in SUBSET Subscribers /\ attempt' = attempt
    BY <1>5 DEF Leaves
  <2>3. CASE UNCHANGED <<detaching, toWorker>>
    <3>1. subs' = subs \ {s}
      BY <1>0, <2>1, <2>2, LeaveIs
    <3>. QED  BY <1>0, <2>1, <2>2, <2>3, <3>1 DEF Detaching
  <2>4. CASE LastLeaves({s}) /\ subs' = {}
    BY <2>1, <2>2, <2>4 DEF LastLeaves, FanOut, FanOutOf, Detaching
  <2>. QED  BY <1>0, <2>1, <2>2, <2>3, <2>4, LeaveIs
<1>6. ASSUME NEW s \in Subscribers, JoinSession(s)  PROVE Detaching'
  <2>1. CASE JoinsAttempt(s)
    <3>1. attempt'.state = attempt.state
      BY <1>0, <2>1 DEF JoinsAttempt, Attempt
    <3>. QED  BY <1>0, <2>1, <3>1 DEF JoinsAttempt, Detaching
  <2>2. CASE JoinsFailed(s)
    <3>1. attempt'.state = attempt.state
      BY <1>0, <2>2 DEF JoinsFailed, Attempt
    <3>. QED  BY <1>0, <2>2, <3>1 DEF JoinsFailed, RejectAttach, Detaching
  <2>3. CASE JoinsOthers(s)
    <3>1. \E u \in subs : phase[u] = "attached"
      BY <1>0, <2>3 DEF JoinsOthers, FanOut, FanOutOf, AttemptPending
    <3>2. detaching' = NoOne
      BY <2>3, <3>1 DEF JoinsOthers, Detaching
    <3>. QED  BY <3>2 DEF Detaching
  <2>4. CASE JoinsFirst(s)
    BY <1>0, <2>4 DEF JoinsFirst, Detaching
  <2>5. CASE JoinsNoWorker(s)
    BY <1>0, <2>5 DEF JoinsNoWorker, RejectAttach, Detaching
  <2>. QED  BY <1>6, JoinCases, <2>1, <2>2, <2>3, <2>4, <2>5
<1>7. CASE AttachSettles
  <2>1. detaching = NoOne
    BY <1>7 DEF AttachSettles, Detaching
  <2>2. CASE AttemptSucceeds
    <3>1. Leave(GoneJoiners) /\ GoneJoiners \in SUBSET Subscribers /\ attempt' = NoAttempt
      BY <2>2 DEF AttemptSucceeds, GoneJoiners, Joiners
    <3>2. detaching' = NoOne \/ subs' = {}
      BY <1>0, <2>1, <3>1, LeaveIs
    <3>. QED  BY <3>1, <3>2, AttemptTypes DEF Detaching
  <2>3. CASE AttemptFails
    <3>1. attempt'.state = "failed"
      BY <1>0, <2>3 DEF AttemptFails, Attempt
    <3>2. subs' = {}
      BY <1>0, <1>7, <2>3 DEF AttachSettles, AttemptFails, FanOut, FanOutOf
    <3>. QED  BY <3>1, <3>2 DEF Detaching
  <2>. QED  BY <1>7, <2>2, <2>3 DEF AttachSettles
<1>8. CASE DetachEnds
  BY <1>8 DEF DetachEnds, DetachSettles, Detaching
<1>9. CASE Moves
  <2>1. UNCHANGED <<phase, attempt, detaching>> /\ subs' \in {{}, subs}
    BY <1>9 DEF Moves, Advance, CloseSubscribers
  <2>. QED  BY <2>1 DEF Detaching
<1>. QED  BY <1>1, <1>2, <1>3, <1>4, <1>5, <1>6, <1>7, <1>8, <1>9, Steps DEF Joins

\* So the last to leave sends the detach.
LEMMA LeaveDetaches ==
  ASSUME TypeOK, FanOut, Detaching, NEW leavers \in SUBSET Subscribers, Leave(leavers),
         attempt.state = "requested" \/ \A s \in leavers : phase[s] = "attached",
         subs # {}, subs' = {}
  PROVE  \E x \in Ids : toWorker' = Append(toWorker, Cmd("detach", x))
<1>1. subs \subseteq leavers /\ subs \in SUBSET Subscribers
  BY DEF Leave, TypeOK
<1>2. LastLeaves(leavers)
  BY <1>1 DEF LastLeaves
<1>3. detaching = NoOne
  BY <1>1 DEF Detaching
<1>4. workerUp
  BY DEF FanOut
<1>. QED  BY <1>2, <1>3, <1>4, CommandTypes DEF Leave, RequestDetach

\* No pty outlives its worker.
Dead == ~workerUp => pty = "none"

LEMMA DeadInit == Init => Dead
BY DEF Init, Dead

LEMMA DeadNext == Typed /\ Dead /\ [Next]_vars => Dead'
<1>b. ASSUME Dead, UNCHANGED vars  PROVE Dead'
  BY <1>b DEF Dead, vars, workerVars
<1>. SUFFICES ASSUME Typed, Dead, Next  PROVE Dead'
  BY <1>b
<1>1. CASE HandlesAttach \/ HandlesDetach \/ HandlesKill \/ HandlesCreate \/ HandlesWrite
  <2>1. workerUp /\ workerUp' = workerUp
    BY <1>1 DEF HandlesAttach, HandlesDetach, HandlesKill, HandlesCreate, HandlesWrite, Arrived,
                workerVars
  <2>. QED  BY <2>1 DEF Dead
<1>2. ASSUME NEW cmd \in busy, NEW ok \in BOOLEAN,
             AttachEnds(cmd) \/ KillEnds(cmd) \/ CreateEnds(cmd, ok)
      PROVE  Dead'
  <2>1. workerUp /\ workerUp' = workerUp
    BY <1>2 DEF AttachEnds, KillEnds, CreateEnds
  <2>. QED  BY <2>1 DEF Dead
<1>3. CASE PtyExit \/ Backpressure \/ WorkerRestart \/ ShellExits
  BY <1>3 DEF PtyExit, Backpressure, DropStream, WorkerRestart, ShellExits, SessionEnds, Dead
<1>4. CASE WorkerExit
  BY <1>4 DEF WorkerExit, Dead
<1>5. CASE BackpressureEvent \/ Outside
  BY <1>5 DEF BackpressureEvent, Outside, workerVars, Dead
<1>. QED  BY <1>1, <1>2, <1>3, <1>4, <1>5, Steps DEF WorkerStep

\* Sessions are created, and the kill of a failed restart is sent, by a restart only;
\* a deletion kills the session after it has closed it.
Kills ==
    /\ op.kind = "delete" => op.step \in {"delete", "attempt", "kill", "done"}
    /\ op.kind # "restart" =>
          /\ ~OnItsWay("create") /\ ~OnItsWay("rollback")
          /\ \A c \in busy : c.type \notin {"create", "rollback"}
          /\ OnItsWay("kill") => Deleting /\ op.step # "attempt"

LEMMA KillsInit == Init => Kills
BY DEF Init, Kills, OnItsWay

LEMMA KillsNext == Typed /\ Deletion /\ Kills /\ [Next]_vars => Kills'
<1>b. ASSUME Kills, UNCHANGED vars  PROVE Kills'
  BY <1>b DEF Kills, OnItsWay, Deleting, vars, workerVars
<1>. SUFFICES ASSUME Typed, Deletion, Kills, Next  PROVE Kills'
  BY <1>b
<1>0. TypeOK
  BY DEF Typed
<1>a. ASSUME op'.kind = op.kind, op'.step = op.step, op'.result = op.result,
             \A type \in {"create", "rollback", "kill"} : OnItsWay(type)' => OnItsWay(type),
             \A c \in busy' : c \in busy \/ OnItsWay(c.type)
      PROVE  Kills'
  BY <1>a DEF Kills, Deleting
<1>1. CASE WorkerStep \/ ShellExits
  <2>1. op' = op
    BY <1>1, WorkerFrame
  <2>2. \A type : OnItsWay(type)' => OnItsWay(type)
    BY <1>0, <1>1, WorkerTakes, QueueMoves
  <2>3. \A c \in busy' : c \in busy \/ OnItsWay(c.type)
    BY <1>0, <1>1, WorkerTakes, QueueMoves
  <2>. QED  BY <1>a, <2>1, <2>2, <2>3
<1>2. CASE WorkerExit
  <2>1. toWorker' = <<>> /\ busy' = {}
    BY <1>2 DEF WorkerExit
  <2>2. op'.kind = op.kind /\ op'.step = op.step /\ op'.result = op.result
    BY <1>0, <1>2 DEF WorkerExit, TypeOK
  <2>. QED  BY <1>a, <2>1, <2>2 DEF OnItsWay
<1>3. CASE BackpressureEvent
  BY <1>a, <1>3 DEF BackpressureEvent, workerVars, OnItsWay
<1>4. CASE Outside /\ (Still \/ Leaves \/ Joins \/ AttachSettles \/ DetachEnds)
  <2>1. op' = op /\ busy' = busy
    BY <1>4 DEF Outside, workerVars, Still, Leaves, Joins, AttachSettles, DetachEnds
  <2>2. \A type \in {"create", "rollback", "kill"} : OnItsWay(type)' => OnItsWay(type)
    BY <1>0, <1>4, SupervisorSends, QueueMoves
  <2>. QED  BY <1>a, <2>1, <2>2
<1>5. CASE Outside /\ Moves
  <2>1. PICK kind \in Operations, ok \in BOOLEAN :
           /\ Advance(kind, ok)
           /\ op.step # "done" /\ (op.step # "none" => kind = op.kind)
    BY <1>5 DEF Moves
  <2>. DEFINE next == NextStep(kind, ok)
  <2>2. /\ next \in OpSteps \ {"none"}
        /\ op'.kind = kind /\ op'.step = next
        /\ op'.result = IF next = "done" THEN Result ELSE "none"
        /\ \/ toWorker' = toWorker
           \/ next \in TerminalSteps /\ toWorker' = Append(toWorker, Cmd(next, NoOne))
    BY <2>1, AdvanceIs
  <2>3. busy' = busy
    BY <1>5 DEF Outside, workerVars
  <2>4. CASE kind = "restart"
    BY <2>2, <2>4 DEF Kills
  <2>5. CASE kind = "delete"
    <3>1. op.kind # "restart" /\ op.step \in {"none", "delete", "attempt", "kill"}
      BY <2>1, <2>5 DEF Kills, Typed
    <3>2. /\ op.step = "none" => next = "delete"
          /\ op.step = "delete" => next \in {"done", "attempt"}
          /\ op.step = "attempt" => next = "kill"
          /\ op.step = "kill" => next = "done" /\ Result = "deleted"
      BY <2>5 DEF NextStep, Result
    <3>. HIDE DEF next
    <3>3. next \in {"delete", "done", "attempt", "kill"}
      BY <3>1, <3>2
    <3>4. /\ \A type \in {"create", "rollback"} : OnItsWay(type)' => OnItsWay(type)
          /\ OnItsWay("kill")' => OnItsWay("kill") \/ next = "kill"
      <4>1. CASE toWorker' = toWorker
        BY <1>0, <4>1, QueueMoves
      <4>2. CASE next = "kill" /\ toWorker' = Append(toWorker, Cmd("kill", NoOne))
        <5>1. Cmd("kill", NoOne) \in Command /\ Cmd("kill", NoOne).type = "kill"
          BY CommandTypes DEF TerminalCommands
        <5>. QED  BY <1>0, <4>2, <5>1, QueueMoves
      <4>. QED  BY <2>2, <3>3, <4>1, <4>2 DEF TerminalSteps
    <3>5. OnItsWay("kill") => op.step = "kill"
      BY <2>1, <3>1 DEF Kills, Deleting, Deletion, Closed
    <3>6. OnItsWay("kill")' => Deleting' /\ op'.step # "attempt"
      BY <2>2, <2>5, <3>2, <3>4, <3>5 DEF Deleting
    <3>. QED  BY <2>2, <2>3, <2>5, <3>1, <3>3, <3>4, <3>6 DEF Kills
  <2>. QED  BY <2>4, <2>5, AttachAssumption
<1>. QED  BY <1>1, <1>2, <1>3, <1>4, <1>5, Steps

\* The row is deleted at most once, and before it is deleted nothing else is written to it.
Undeleted == op.step = "none" \/ (op.kind = "restart" /\ op.step = "attempt")

DeleteAnswered == \E i \in 1..Len(fromStorage) : fromStorage[i].type = "delete"

OneDelete ==
    /\ Undeleted => /\ tab = "ready" /\ ~DeleteAnswered
                    /\ \A i \in 1..Len(toStorage) : toStorage[i].type = "check"
    /\ \A i \in 1..Len(toStorage) : toStorage[i].type = "delete" =>
          /\ tab = "ready" /\ ~DeleteAnswered /\ op.step \in {"delete", "done"}
          /\ \A j \in 1..Len(toStorage) : j # i => toStorage[j].type = "check"
    /\ \A i \in 1..Len(fromStorage) : fromStorage[i].type = "delete" => fromStorage[i].ok

LEMMA OneDeleteInit == Init => OneDelete
BY DEF Init, OneDelete, DeleteAnswered

\* A step of anyone but the storage and the operation.
StorageKept ==
    /\ tab' = tab /\ op'.kind = op.kind /\ op'.step = op.step
    /\ \/ toStorage' = toStorage
       \/ \E s \in Subscribers : toStorage' = Append(toStorage, Cmd("check", s))
    /\ fromStorage' = fromStorage \/ (fromStorage # <<>> /\ fromStorage' = Tail(fromStorage))

LEMMA StorageTakes ==
  ASSUME Typed, Next
  PROVE  StorageKept \/ StorageHandles \/ (Moves /\ tab' = tab)
<1>. SUFFICES ASSUME ~StorageHandles  PROVE StorageKept \/ (Moves /\ tab' = tab)
  OBVIOUS
<1>0. TypeOK
  BY DEF Typed
<1>a. ASSUME UNCHANGED <<op, storageVars>>  PROVE StorageKept
  BY <1>a DEF StorageKept, storageVars
<1>1. ASSUME NEW s \in Subscribers, ConnectionStep(s)  PROVE StorageKept
  <2>1. CASE Connect(s)
    BY <2>1 DEF Connect, StorageKept
  <2>2. CASE CheckReply(s)
    BY <2>2 DEF CheckReply, StorageKept
  <2>3. CASE SocketCloses(s) \/ FrameArrives(s) \/ Write(s) \/ WriteTimeout(s) \/ CheckTimeout(s)
    BY <1>a, <2>3 DEF SocketCloses, FrameArrives, Write, WriteTimeout, CheckTimeout
  <2>. QED  BY <1>1, <2>1, <2>2, <2>3 DEF ConnectionStep
<1>2. CASE AttachReply \/ DetachReply \/ WriteReply \/ BackpressureEvent \/ AttachTimeout \/ DetachTimeout
  BY <1>a, <1>2 DEF AttachReply, DetachReply, WriteReply, BackpressureEvent, AttachTimeout,
                    DetachTimeout
<1>3. CASE WorkerStep \/ ShellExits
  BY <1>a, <1>3, WorkerFrame DEF storageVars
<1>4. CASE WorkerExit
  <2>1. op'.kind = op.kind /\ op'.step = op.step
    BY <1>0, <1>4 DEF WorkerExit, TypeOK
  <2>. QED  BY <1>4, <2>1 DEF WorkerExit, StorageKept, storageVars
<1>5. CASE \/ \E kind \in Operations : OpStart(kind)
           \/ OpContinues \/ OpTerminalReply \/ OpStorageReply \/ OpTimeout
  <2>1. CASE TooLate
    BY <2>1 DEF TooLate, StorageKept
  <2>2. CASE Moves
    BY <2>2 DEF Moves, Advance
  <2>. QED  BY <1>5, <2>1, <2>2, OperationSteps
<1>. QED  BY <1>1, <1>2, <1>3, <1>4, <1>5 DEF Next

LEMMA OneDeleteNext == Typed /\ OneDelete /\ [Next]_vars => OneDelete'
<1>b. ASSUME OneDelete, UNCHANGED vars  PROVE OneDelete'
  BY <1>b DEF OneDelete, Undeleted, DeleteAnswered, vars, storageVars
<1>. SUFFICES ASSUME Typed, OneDelete, Next  PROVE OneDelete'
  BY <1>b
<1>0. TypeOK /\ fromStorage \in Seq(Message) /\ toStorage \in Seq(StorageCmd)
  BY DEF Typed, TypeOK, StorageCmd
\* What is known of an answer stays known.
<1>c. ASSUME fromStorage' = fromStorage \/ (fromStorage # <<>> /\ fromStorage' = Tail(fromStorage))
      PROVE  /\ ~DeleteAnswered => ~DeleteAnswered'
             /\ \A i \in 1..Len(fromStorage') : fromStorage'[i].type = "delete" => fromStorage'[i].ok
  <2>1. \A i \in 1..Len(fromStorage') : \E j \in 1..Len(fromStorage) : fromStorage'[i] = fromStorage[j]
    <3>1. CASE fromStorage' = fromStorage
      BY <3>1
    <3>2. CASE fromStorage # <<>> /\ fromStorage' = Tail(fromStorage)
      <4>1. /\ Len(fromStorage) \in Nat \ {0} /\ Len(fromStorage') = Len(fromStorage) - 1
            /\ \A i \in 1..Len(fromStorage) - 1 : fromStorage'[i] = fromStorage[i + 1]
        BY <1>0, <3>2, TailIs
      <4>. QED  BY <4>1
    <3>. QED  BY <1>c, <3>1, <3>2
  <2>. QED  BY <2>1 DEF DeleteAnswered, OneDelete
\* A command is appended.
<1>d. ASSUME NEW e \in StorageCmd, toStorage' = Append(toStorage, e)
      PROVE  /\ Len(toStorage) \in Nat /\ Len(toStorage') = Len(toStorage) + 1
             /\ \A i \in 1..Len(toStorage) : toStorage'[i] = toStorage[i]
             /\ toStorage'[Len(toStorage) + 1] = e
  BY <1>0, <1>d, AppendIs
<1>1. CASE StorageKept
  <2>1. /\ ~DeleteAnswered => ~DeleteAnswered'
        /\ \A i \in 1..Len(fromStorage') : fromStorage'[i].type = "delete" => fromStorage'[i].ok
        /\ tab' = tab /\ op'.step = op.step /\ (Undeleted' <=> Undeleted)
    BY <1>1, <1>c DEF StorageKept, Undeleted
  <2>2. CASE toStorage' = toStorage
    BY <2>1, <2>2 DEF OneDelete
  <2>3. ASSUME NEW s \in Subscribers, toStorage' = Append(toStorage, Cmd("check", s))
        PROVE  OneDelete'
    <3>1. Cmd("check", s) \in StorageCmd /\ Cmd("check", s).type = "check"
      BY CommandTypes DEF StorageCmd, StorageCommands, Cmd
    <3>2. /\ Len(toStorage) \in Nat /\ Len(toStorage') = Len(toStorage) + 1
          /\ \A i \in 1..Len(toStorage) : toStorage'[i] = toStorage[i]
          /\ toStorage'[Len(toStorage) + 1].type = "check"
      BY <1>d, <2>3, <3>1
    <3>. QED  BY <2>1, <3>2 DEF OneDelete
  <2>. QED  BY <1>1, <2>2, <2>3 DEF StorageKept
<1>2. CASE StorageHandles
  <2>. DEFINE cmd == Head(toStorage)
              ok  == CASE cmd.type = "check"         -> tab = "ready"
                       [] cmd.type = "createPending" -> tab = "deleted"
                       [] cmd.type = "delete"        -> tab # "deleted"
                       [] OTHER                      -> tab = "pending"
  <2>1. /\ cmd \in StorageCmd /\ cmd = toStorage[1] /\ cmd.type \in StorageCommands
        /\ Len(toStorage) \in Nat \ {0} /\ Len(toStorage') = Len(toStorage) - 1
        /\ \A i \in 1..Len(toStorage') : toStorage'[i] = toStorage[i + 1] /\ i + 1 \in 1..Len(toStorage)
    <3>1. toStorage # <<>> /\ toStorage' = Tail(toStorage)
      BY <1>2 DEF StorageHandles
    <3>2. /\ cmd \in StorageCmd /\ cmd = toStorage[1]
          /\ Len(toStorage) \in Nat \ {0} /\ Len(toStorage') = Len(toStorage) - 1
          /\ \A i \in 1..Len(toStorage') : toStorage'[i] = toStorage[i + 1]
      BY <1>0, <3>1, TailIs
    <3>3. cmd.type \in StorageCommands
      BY <3>2 DEF StorageCmd
    <3>. HIDE DEF cmd
    <3>. QED  BY <3>2, <3>3
  <2>2. ok \in BOOLEAN
    BY <2>1 DEF StorageCommands
  <2>3. Answer(cmd, ok) \in Message /\ Answer(cmd, ok).type = cmd.type /\ Answer(cmd, ok).ok = ok
    BY <2>1, <2>2, StorageCmdIs, CommandTypes
  <2>4. op' = op /\ fromStorage' = Append(fromStorage, Answer(cmd, ok))
    BY <1>2 DEF StorageHandles
  <2>5. /\ Len(fromStorage) \in Nat /\ Len(fromStorage') = Len(fromStorage) + 1
        /\ \A i \in 1..Len(fromStorage) : fromStorage'[i] = fromStorage[i]
        /\ fromStorage'[Len(fromStorage) + 1] = Answer(cmd, ok)
    BY <1>0, <2>3, <2>4, AppendIs
  <2>6. /\ cmd.type = "check" => tab' = tab
        /\ cmd.type = "delete" /\ tab = "ready" => ok
    BY <1>2 DEF StorageHandles
  <2>. HIDE DEF ok, cmd
  <2>7. 1 \in 1..Len(toStorage)
    BY <2>1
  <2>8. cmd.type # "delete" /\ ~DeleteAnswered => ~DeleteAnswered'
    BY <2>3, <2>5 DEF DeleteAnswered
  <2>9. Undeleted' => tab' = "ready" /\ ~DeleteAnswered' /\ \A i \in 1..Len(toStorage') : toStorage'[i].type = "check"
    <3>1. Undeleted' => Undeleted
      BY <2>4 DEF Undeleted
    <3>. QED  BY <2>1, <2>6, <2>7, <2>8, <3>1 DEF OneDelete
  <2>10. ASSUME NEW i \in 1..Len(toStorage'), toStorage'[i].type = "delete"
         PROVE  /\ tab' = "ready" /\ ~DeleteAnswered' /\ op'.step \in {"delete", "done"}
                /\ \A j \in 1..Len(toStorage') : j # i => toStorage'[j].type = "check"
    <3>1. i + 1 \in 1..Len(toStorage) /\ toStorage[i + 1].type = "delete" /\ i + 1 # 1
      BY <2>1, <2>10
    <3>2. /\ tab = "ready" /\ ~DeleteAnswered /\ op.step \in {"delete", "done"}
          /\ \A j \in 1..Len(toStorage) : j # i + 1 => toStorage[j].type = "check"
      BY <3>1 DEF OneDelete
    <3>3. cmd.type = "check"
      BY <2>1, <2>7, <3>1, <3>2
    <3>4. \A j \in 1..Len(toStorage') : j # i => j + 1 # i + 1
      BY <2>1
    <3>. QED  BY <2>1, <2>4, <2>6, <2>8, <3>2, <3>3, <3>4
  <2>11. \A i \in 1..Len(fromStorage') : fromStorage'[i].type = "delete" => fromStorage'[i].ok
    <3>1. cmd.type = "delete" => ok
      BY <2>1, <2>6, <2>7 DEF OneDelete
    <3>. QED  BY <2>3, <2>5, <3>1 DEF OneDelete
  <2>. QED  BY <2>9, <2>10, <2>11 DEF OneDelete
<1>3. CASE Moves /\ tab' = tab
  <2>1. PICK kind \in Operations, ok \in BOOLEAN :
           /\ Advance(kind, ok)
           /\ op.step # "done" /\ (op.step # "none" => kind = op.kind)
           /\ fromStorage' = fromStorage \/ (fromStorage # <<>> /\ fromStorage' = Tail(fromStorage))
           /\ op.step = "delete" /\ ok => fromStorage # <<>> /\ Head(fromStorage).type = "delete"
    BY <1>3 DEF Moves
  <2>. DEFINE next == NextStep(kind, ok)
  <2>2. /\ next \in OpSteps \ {"none"}
        /\ op'.kind = kind /\ op'.step = next
        /\ \/ toStorage' = toStorage /\ next # "delete"
           \/ next \in StorageSteps /\ toStorage' = Append(toStorage, Cmd(next, NoOne))
    <3>1. next = "delete" => toStorage' = Append(toStorage, Cmd(next, NoOne))
      BY <2>1 DEF Advance, StorageSteps
    <3>. QED  BY <2>1, <3>1, AdvanceIs DEF StorageSteps
  <2>3. /\ ~DeleteAnswered => ~DeleteAnswered'
        /\ \A i \in 1..Len(fromStorage') : fromStorage'[i].type = "delete" => fromStorage'[i].ok
    BY <1>c, <2>1
  <2>4. op.step = "delete" /\ ok => DeleteAnswered
    <3>1. ASSUME fromStorage # <<>>  PROVE Head(fromStorage) = fromStorage[1] /\ 1 \in 1..Len(fromStorage)
      BY <1>0, <3>1, TailIs
    <3>. QED  BY <2>1, <3>1 DEF DeleteAnswered
  <2>s. op.step \in {"none", "attempt", "kill", "create", "rollback", "delete", "createPending",
                     "finalize", "failPending"}
    BY <1>0, <2>1 DEF TypeOK, OpSteps, TerminalSteps, StorageSteps
  <2>k. kind \in {"delete", "restart"} /\ (op.step = "none" => op.kind = "none")
    BY AttachAssumption DEF Typed
  <2>5. next = "delete" => Undeleted
    BY <2>1, <2>s, <2>k DEF NextStep, Undeleted
  <2>6. Undeleted' => Undeleted /\ next = "attempt"
    BY <2>1, <2>2, <2>s, <2>k DEF NextStep, Undeleted
  <2>7. next = "done" \/ (op.step = "delete" => ok)
    BY <2>s DEF NextStep
  <2>. HIDE DEF next
  <2>8. ASSUME NEW e \in StorageCmd, e.type = next, toStorage' = Append(toStorage, e)
        PROVE  \A i \in 1..Len(toStorage') :
                  (i \in 1..Len(toStorage) /\ toStorage'[i] = toStorage[i]) \/ (i = Len(toStorage) + 1 /\ toStorage'[i].type = next)
    BY <1>d, <2>8
  <2>9. next \in StorageSteps => Cmd(next, NoOne) \in StorageCmd /\ Cmd(next, NoOne).type = next
    BY CommandTypes DEF StorageCmd, StorageCommands, StorageSteps, Cmd
  <2>10. Len(toStorage) \in Nat
    BY <1>0
  <2>11. CASE next = "delete"
    <3>1. tab = "ready" /\ ~DeleteAnswered /\ \A i \in 1..Len(toStorage) : toStorage[i].type = "check"
      BY <2>5, <2>11 DEF OneDelete
    <3>2. \A i \in 1..Len(toStorage') :
             (i \in 1..Len(toStorage) /\ toStorage'[i].type = "check") \/ (i = Len(toStorage) + 1)
      BY <2>2, <2>8, <2>9, <2>11, <3>1
    <3>3. ASSUME NEW i \in 1..Len(toStorage'), toStorage'[i].type = "delete"
          PROVE  \A j \in 1..Len(toStorage') : j # i => toStorage'[j].type = "check"
      BY <2>10, <3>2, <3>3
    <3>. QED  BY <1>3, <2>2, <2>3, <2>6, <2>11, <3>1, <3>3 DEF OneDelete
  <2>12. CASE next # "delete"
    <3>1. \A i \in 1..Len(toStorage') : toStorage'[i].type = "delete" =>
             i \in 1..Len(toStorage) /\ toStorage'[i] = toStorage[i]
      BY <2>2, <2>8, <2>9, <2>12
    <3>2. next # "done" => \A i \in 1..Len(toStorage') : toStorage'[i].type # "delete"
      BY <2>1, <2>4, <2>7, <3>1 DEF OneDelete
    <3>3. CASE next = "done"
      <4>1. toStorage' = toStorage
        BY <2>2, <3>3 DEF StorageSteps
      <4>. QED  BY <1>3, <2>2, <2>3, <2>6, <3>3, <4>1 DEF OneDelete
    <3>4. CASE next = "attempt"
      <4>1. toStorage' = toStorage
        BY <2>2, <3>4 DEF StorageSteps
      <4>. QED  BY <1>3, <2>2, <2>3, <2>6, <3>2, <3>4, <4>1 DEF OneDelete
    <3>5. CASE next \notin {"done", "attempt"}
      BY <2>3, <2>6, <3>2, <3>5 DEF OneDelete
    <3>. QED  BY <3>3, <3>4, <3>5
  <2>. QED  BY <2>11, <2>12
<1>. QED  BY <1>1, <1>2, <1>3, StorageTakes

-----------------------------------------------------------------------------
(* No stream without a subscriber: commands that do not time out *)

\* The operation has not killed the session, and will.
WillKill == \/ op.step = "attempt" \/ (op.step = "delete" /\ op.kind = "restart")
            \/ OnItsWay("kill")

\* Somebody watches the stream, or it is about to be given up.
Watched == pty # "none" => joinerClosed \/ subs # {} \/ OnItsWay("detach") \/ WillKill

\* Somebody waits for the attach, or the operation waits for it to settle.
Awaited == AttemptPending /\ subs = {} => joinerClosed \/ op.step = "attempt"

\* An event closes the stream it tells of: only an attach that is not answered yet can
\* have made another one since.
EventsDue ==
    \A i \in 1..Len(toSup) : toSup[i].type = "backpressure" =>
        \/ pty = "none"
        \/ attempt.state = "requested" /\ \A j \in 1..i - 1 : toSup[j].type # "attach"

Tended == Watched /\ Awaited /\ EventsDue

LEMMA TendedInit == Init => Tended
BY AttemptTypes DEF Init, Tended, Watched, Awaited, EventsDue, AttemptPending

LEMMA EventsSent ==
  ASSUME TypeOK, EventsDue, attempt' = attempt, pty' # "none" => pty # "none",
         \/ toSup' = toSup
         \/ \E m \in Message : /\ toSup' = Append(toSup, m)
                               /\ m.type = "backpressure" => pty' = "none"
  PROVE  EventsDue'
<1>1. CASE toSup' = toSup
  BY <1>1 DEF EventsDue
<1>2. ASSUME NEW m \in Message, toSup' = Append(toSup, m), m.type = "backpressure" => pty' = "none"
      PROVE  EventsDue'
  <2>1. /\ Len(toSup) \in Nat /\ Len(toSup') = Len(toSup) + 1
        /\ \A i \in 1..Len(toSup) : toSup'[i] = toSup[i]
        /\ toSup'[Len(toSup) + 1] = m
    BY <1>2, AppendIs DEF TypeOK
  <2>2. SUFFICES ASSUME NEW i \in 1..Len(toSup'), toSup'[i].type = "backpressure", pty' # "none"
                 PROVE  attempt.state = "requested" /\ \A j \in 1..i - 1 : toSup'[j].type # "attach"
    BY DEF EventsDue
  <2>3. i \in 1..Len(toSup) /\ toSup[i].type = "backpressure"
    BY <1>2, <2>1, <2>2
  <2>4. attempt.state = "requested" /\ \A j \in 1..i - 1 : toSup[j].type # "attach"
    BY <2>2, <2>3 DEF EventsDue
  <2>5. \A j \in 1..i - 1 : toSup'[j] = toSup[j]
    BY <2>1, <2>3
  <2>. QED  BY <2>4, <2>5
<1>. QED  BY <1>1, <1>2

LEMMA EventsTaken ==
  ASSUME TypeOK, EventsDue, TakesMessage, pty' = pty,
         attempt.state = "requested" =>
             \/ attempt'.state = "requested"
             \/ toSup # <<>> /\ toSup' = Tail(toSup) /\ Head(toSup).type = "attach"
  PROVE  EventsDue'
<1>0. toSup \in Seq(Message)
  BY DEF TypeOK
<1>1. CASE toSup' = toSup
  <2>1. attempt.state = "requested" => attempt'.state = "requested"
    <3>1. ASSUME toSup # <<>>  PROVE Tail(toSup) # toSup
      <4>1. Len(Tail(toSup)) = Len(toSup) - 1 /\ Len(toSup) \in Nat
        BY <1>0, <3>1, TailIs
      <4>. QED  BY <4>1
    <3>. QED  BY <1>1, <3>1
  <2>. QED  BY <1>1, <2>1 DEF EventsDue
<1>2. CASE toSup # <<>> /\ toSup' = Tail(toSup)
  <2>1. /\ Len(toSup) \in Nat \ {0} /\ Len(toSup') = Len(toSup) - 1
        /\ Head(toSup) = toSup[1]
        /\ \A i \in 1..Len(toSup') : toSup'[i] = toSup[i + 1] /\ i + 1 \in 1..Len(toSup)
    BY <1>0, <1>2, TailIs
  <2>2. SUFFICES ASSUME NEW i \in 1..Len(toSup'), toSup'[i].type = "backpressure", pty # "none"
                 PROVE  attempt'.state = "requested" /\ \A j \in 1..i - 1 : toSup'[j].type # "attach"
    BY DEF EventsDue
  <2>3. attempt.state = "requested" /\ \A j \in 1..(i + 1) - 1 : toSup[j].type # "attach"
    BY <2>1, <2>2 DEF EventsDue
  <2>4. Head(toSup).type # "attach"
    <3>1. 1 \in 1..(i + 1) - 1
      BY <2>1
    <3>. QED  BY <2>1, <2>3, <3>1
  <2>5. \A j \in 1..i - 1 : toSup'[j] = toSup[j + 1] /\ j + 1 \in 1..(i + 1) - 1
    BY <2>1
  <2>. QED  BY <2>3, <2>4, <2>5
<1>. QED  BY <1>1, <1>2 DEF TakesMessage

LEMMA TendedWorker ==
  ASSUME TypeOK, OneAttach, Tended, WorkerStep \/ ShellExits
  PROVE  Tended'
<1>0. toWorker \in Seq(Command) /\ toSup \in Seq(Message) /\ busy \in SUBSET Command
  BY DEF TypeOK
<1>1. UNCHANGED <<subs, attempt, op, joinerClosed>>
  BY WorkerFrame
<1>2. Awaited'
  BY <1>1 DEF Tended, Awaited, AttemptPending
<1>a. \A c \in Command, ok \in BOOLEAN : Answer(c, ok) \in Message /\ Answer(c, ok).type = c.type
  BY CommandTypes
<1>3. CASE HandlesAttach \/ HandlesWrite \/ HandlesCreate
  <2>1. /\ toWorker # <<>> /\ toWorker' = Tail(toWorker) /\ pty' = pty
        /\ Head(toWorker).type \in {"attach", "write", "create"}
    BY <1>3 DEF HandlesAttach, HandlesWrite, HandlesCreate, Arrived, workerVars
  <2>2. Head(toWorker) \in Command
    BY <1>0, <2>1, TailIs
  <2>3. \A ok \in BOOLEAN : Answer(Head(toWorker), ok) \in Message
                             /\ Answer(Head(toWorker), ok).type # "backpressure"
    BY <1>a, <2>1, <2>2
  <2>4. toSup' = toSup \/ \E ok \in BOOLEAN : toSup' = Append(toSup, Answer(Head(toWorker), ok))
    <3>1. CASE HandlesAttach
      BY <3>1 DEF HandlesAttach, Reply
    <3>2. CASE HandlesWrite
      <4>1. (pty # "none") \in BOOLEAN
        OBVIOUS
      <4>. QED  BY <3>2, <4>1 DEF HandlesWrite, Reply
    <3>3. CASE HandlesCreate
      BY <3>3 DEF HandlesCreate
    <3>. QED  BY <1>3, <3>1, <3>2, <3>3
  <2>5. EventsDue'
    BY <1>1, <2>1, <2>3, <2>4, EventsSent DEF Tended
  <2>6. Watched'
    <3>1. /\ OnItsWay("detach") => OnItsWay("detach")'
          /\ OnItsWay("kill") => OnItsWay("kill")'
      BY <2>1, QueueMoves
    <3>. QED  BY <1>1, <2>1, <3>1 DEF Tended, Watched, WillKill
  <2>. QED  BY <1>2, <2>5, <2>6 DEF Tended
<1>4. ASSUME pty' = "none", \/ toSup' = toSup
                            \/ \E m \in Message : toSup' = Append(toSup, m)
      PROVE  Tended'
  BY <1>1, <1>2, <1>4, EventsSent DEF Tended, Watched
<1>5. CASE HandlesDetach
  <2>1. pty' = "none" /\ toSup' = Append(toSup, Answer(Head(toWorker), TRUE)) /\ toWorker # <<>>
    BY <1>5 DEF HandlesDetach, DropStream, Reply, Arrived
  <2>2. Head(toWorker) \in Command
    BY <1>0, <2>1, TailIs
  <2>. QED  BY <1>4, <1>a, <2>1, <2>2
<1>6. CASE HandlesKill
  BY <1>4, <1>6 DEF HandlesKill, DropStream
<1>7. ASSUME toWorker' = toWorker, pty' # "none" => pty # "none",
             \/ toSup' = toSup
             \/ \E m \in Message : m.type # "backpressure" /\ toSup' = Append(toSup, m)
      PROVE  Tended'
  <2>1. EventsDue'
    BY <1>1, <1>7, EventsSent DEF Tended
  <2>. QED  BY <1>1, <1>2, <1>7, <2>1, QueueMoves DEF Tended, Watched, WillKill
<1>8. ASSUME NEW cmd \in busy, AttachEnds(cmd)  PROVE Tended'
  <2>1. PICK z \in Ids : cmd = Cmd("attach", z) /\ cmd \in Command
    BY <1>0, <1>8, CommandTypes DEF AttachEnds, Command
  <2>2. AttachHandled(z) /\ attempt.state = "requested" /\ \A x \in Ids : ~AttachAnswered(x)
    BY <2>1 DEF AttachHandled, OneAttach
  <2>3. toWorker' = toWorker
    BY <1>8 DEF AttachEnds
  <2>4. PICK ok \in BOOLEAN : toSup' = Append(toSup, Answer(cmd, ok))
    BY <1>8 DEF AttachEnds, Reply
  <2>5. Answer(cmd, ok) \in Message /\ Answer(cmd, ok).type = "attach"
    BY <1>a, <1>8, <2>1 DEF AttachEnds
  <2>6. Watched'
    BY <1>1, <2>2, <2>3, QueueMoves DEF Tended, Watched, Awaited, AttemptPending, WillKill
  <2>7. EventsDue'
    <3>1. /\ Len(toSup) \in Nat /\ Len(toSup') = Len(toSup) + 1
          /\ \A i \in 1..Len(toSup) : toSup'[i] = toSup[i]
          /\ toSup'[Len(toSup) + 1] = Answer(cmd, ok)
      BY <1>0, <2>4, <2>5, AppendIs
    <3>2. \A i \in 1..Len(toSup) : toSup[i].type # "attach"
      <4>1. \A i \in 1..Len(toSup) : toSup[i] \in Message
        BY <1>0
      <4>. QED  BY <2>2, <4>1 DEF AttachAnswered, Message
    <3>3. ASSUME NEW i \in 1..Len(toSup'), toSup'[i].type = "backpressure"
          PROVE  \A j \in 1..i - 1 : toSup'[j].type # "attach"
      <4>1. i \in 1..Len(toSup)
        BY <2>5, <3>1, <3>3
      <4>. QED  BY <3>1, <3>2, <4>1
    <3>. QED  BY <1>1, <2>2, <3>3 DEF EventsDue
  <2>. QED  BY <1>2, <2>6, <2>7 DEF Tended
<1>9. ASSUME NEW cmd \in busy, NEW ok \in BOOLEAN, KillEnds(cmd) \/ CreateEnds(cmd, ok)
      PROVE  Tended'
  <2>1. /\ toWorker' = toWorker /\ (pty' # "none" => pty # "none") /\ cmd.type # "backpressure"
        /\ \E yes \in BOOLEAN : toSup' = Append(toSup, Answer(cmd, yes))
    BY <1>9 DEF KillEnds, CreateEnds, SessionEnds, Reply, KillCommands
  <2>2. cmd \in Command
    BY <1>0
  <2>. QED  BY <1>7, <1>a, <2>1, <2>2
<1>10. CASE Backpressure
  <2>1. [type |-> "backpressure", id |-> NoOne, ok |-> TRUE] \in Message
    BY CommandTypes DEF Message, Events
  <2>. QED  BY <1>4, <1>10, <2>1 DEF Backpressure, DropStream
<1>11. CASE PtyExit \/ WorkerRestart \/ ShellExits
  <2>1. UNCHANGED <<toWorker, toSup>> /\ (pty' # "none" => pty # "none")
    BY <1>11 DEF PtyExit, WorkerRestart, ShellExits, SessionEnds
  <2>. QED  BY <1>7, <2>1
<1>. QED  BY <1>3, <1>5, <1>6, <1>8, <1>9, <1>10, <1>11 DEF WorkerStep

LEMMA TendedMoves ==
  ASSUME Patient, Typed, OneDelete, Dead, Tended, Outside, Moves
  PROVE  Tended'
<1>0. TypeOK /\ UNCHANGED <<pty, attempt, joinerClosed>>
  BY DEF Typed, Outside, workerVars, Moves, Advance
<1>1. PICK kind \in Operations, ok \in BOOLEAN :
         /\ Advance(kind, ok)
         /\ op.step # "done" /\ (op.step # "none" => kind = op.kind)
         /\ op.step = "attempt" => ~AttemptPending
         /\ op.step = "delete" =>
               fromStorage # <<>> /\ Head(fromStorage).type = "delete" /\ Head(fromStorage).ok = ok
  BY DEF Moves
<1>. DEFINE next == NextStep(kind, ok)
<1>2. /\ next \in OpSteps \ {"none"}
      /\ op'.kind = kind /\ op'.step = next
      /\ \/ toWorker' = toWorker
         \/ next \in TerminalSteps /\ toWorker' = Append(toWorker, Cmd(next, NoOne))
  BY <1>1, AdvanceIs
<1>3. op.step = "delete" => ok
  <2>1. ASSUME fromStorage # <<>>
        PROVE  Head(fromStorage) = fromStorage[1] /\ 1 \in 1..Len(fromStorage)
    BY <1>0, <2>1, TailIs DEF TypeOK
  <2>. QED  BY <1>1, <2>1 DEF OneDelete
<1>s. op.step \in {"none", "attempt", "kill", "create", "rollback", "delete", "createPending",
                   "finalize", "failPending"}
  BY <1>0, <1>1 DEF TypeOK, OpSteps, TerminalSteps, StorageSteps
<1>4. /\ op.step = "attempt" => next = "kill" \/ (next = "delete" /\ kind = "restart")
      /\ op.step = "delete" /\ op.kind = "restart" => next = "kill"
  BY <1>1, <1>3, AttachAssumption DEF NextStep
<1>5. /\ next = "attempt" \/ subs' = subs
      /\ next = "kill" /\ workerUp => toWorker' = Append(toWorker, Cmd("kill", NoOne))
  BY <1>1 DEF Advance, TerminalSteps
<1>. HIDE DEF next
<1>6. \A type \in {"detach", "kill"} : OnItsWay(type) => OnItsWay(type)'
  <2>1. next \in TerminalSteps => Cmd(next, NoOne) \in Command
    BY CommandTypes DEF TerminalSteps, TerminalCommands
  <2>. QED  BY <1>0, <1>2, <2>1, QueueMoves
<1>7. next = "kill" /\ workerUp => OnItsWay("kill")'
  <2>1. Cmd("kill", NoOne) \in Command /\ Cmd("kill", NoOne).type = "kill"
    BY CommandTypes DEF TerminalCommands
  <2>. QED  BY <1>0, <1>5, <2>1, QueueMoves
<1>8. Watched'
  <2>1. SUFFICES ASSUME pty # "none", ~joinerClosed, subs' = {}, next # "attempt"
                 PROVE  OnItsWay("detach")' \/ WillKill'
    BY <1>0, <1>2 DEF Watched, WillKill
  <2>2. workerUp
    BY <2>1 DEF Dead
  <2>3. OnItsWay("detach") \/ WillKill
    BY <1>5, <2>1 DEF Tended, Watched
  <2>. QED  BY <1>2, <1>4, <1>6, <1>7, <2>2, <2>3 DEF WillKill
<1>9. Awaited'
  BY <1>0, <1>1, <1>2, <1>5 DEF Tended, Awaited, AttemptPending
<1>10. EventsDue'
  BY <1>0, EventsTaken DEF Tended, Outside, TakesAnswer, TakesMessage
<1>. QED  BY <1>8, <1>9, <1>10 DEF Tended

LEMMA TendedNext ==
  ASSUME Patient
  PROVE  /\ Typed /\ FanOut /\ OneAttach /\ Detaching /\ Dead /\ OneDelete /\ Tended
         /\ [Next]_vars
         => Tended'
<1>b. ASSUME Tended, UNCHANGED vars  PROVE Tended'
  BY <1>b DEF Tended, Watched, Awaited, EventsDue, AttemptPending, WillKill, OnItsWay, vars,
              supVars, workerVars
<1>. SUFFICES ASSUME Typed, FanOut, OneAttach, Detaching, Dead, OneDelete, Tended, Next
              PROVE  Tended'
  BY <1>b
<1>0. TypeOK /\ attempt \in Attempt
  BY DEF Typed, TypeOK
<1>1. CASE WorkerStep \/ ShellExits
  BY <1>0, <1>1, TendedWorker
<1>2. CASE WorkerExit
  <2>1. toSup' = <<>> /\ pty' = "none" /\ attempt' = NoAttempt
    BY <1>2 DEF WorkerExit, ClearSession
  <2>. QED  BY <2>1, AttemptTypes DEF Tended, Watched, Awaited, EventsDue, AttemptPending
<1>3. CASE BackpressureEvent
  <2>1. /\ toSup # <<>> /\ toSup' = Tail(toSup) /\ Head(toSup).type = "backpressure"
        /\ UNCHANGED <<phase, attempt, toWorker, pty, op>> /\ subs' = {}
        /\ joinerClosed' = (joinerClosed \/ Joiners \cap subs # {})
    BY <1>3 DEF BackpressureEvent, CloseSubscribers, Received, workerVars
  <2>2. attempt.state # "none" /\ subs # {} => Joiners \cap subs # {}
    <3>1. subs \in SUBSET Subscribers
      BY <1>0 DEF TypeOK
    <3>. QED  BY <3>1 DEF FanOut, FanOutOf, Joiners
  <2>3. pty = "none" \/ attempt.state = "requested"
    <3>1. Head(toSup) = toSup[1] /\ 1 \in 1..Len(toSup)
      BY <1>0, <2>1, TailIs DEF TypeOK
    <3>. QED  BY <2>1, <3>1 DEF Tended, EventsDue
  <2>4. Watched'
    BY <1>0, <2>1, <2>2, <2>3, QueueMoves DEF Tended, Watched, WillKill
  <2>5. Awaited'
    BY <2>1, <2>2 DEF Tended, Awaited, AttemptPending
  <2>6. EventsDue'
    BY <1>0, <2>1, EventsTaken DEF Tended, TakesMessage
  <2>. QED  BY <2>4, <2>5, <2>6 DEF Tended
<1>4. CASE Outside /\ (Still \/ Leaves \/ Joins \/ AttachSettles \/ DetachEnds)
  <2>1. UNCHANGED <<op, joinerClosed, pty>> /\ TakesMessage
    BY <1>4 DEF Outside, workerVars, Still, Leaves, Joins, AttachSettles, DetachEnds, TakesAnswer,
                TakesMessage
  <2>2. \A type \in {"detach", "kill"} : OnItsWay(type) => OnItsWay(type)'
    BY <1>0, <1>4, SupervisorSends, QueueMoves
  \* It is enough that the last to leave asks for a detach, and that nobody starts to
  \* wait for an attach without being in the map.
  <2>a. ASSUME subs' # {} \/ subs = {} \/ OnItsWay("detach")',
               AttemptPending' /\ subs' = {} => AttemptPending /\ subs = {},
               attempt.state = "requested" =>
                   \/ attempt'.state = "requested"
                   \/ toSup # <<>> /\ toSup' = Tail(toSup) /\ Head(toSup).type = "attach"
        PROVE  Tended'
    <3>1. Watched'
      BY <2>1, <2>2, <2>a DEF Tended, Watched, WillKill
    <3>2. Awaited'
      BY <2>1, <2>a DEF Tended, Awaited
    <3>3. EventsDue'
      BY <1>0, <2>1, <2>a, EventsTaken DEF Tended
    <3>. QED  BY <3>1, <3>2, <3>3 DEF Tended
  <2>d. ASSUME NEW x \in Ids, toWorker' = Append(toWorker, Cmd("detach", x))
        PROVE  OnItsWay("detach")'
    <3>1. Cmd("detach", x) \in Command /\ Cmd("detach", x).type = "detach"
      BY CommandTypes DEF TerminalCommands
    <3>. QED  BY <1>0, <2>d, <3>1, QueueMoves
  <2>3. CASE Still
    BY <2>3, <2>a DEF Still, AttemptPending
  <2>4. CASE Leaves
    <3>1. PICK s \in Subscribers : phase[s] = "attached" /\ Leave({s})
      BY <2>4 DEF Leaves
    <3>2. {s} \in SUBSET Subscribers /\ attempt' = attempt /\ subs' = subs \ {s}
      BY <2>4, <3>1 DEF Leaves, Leave
    <3>3. subs' # {} \/ subs = {} \/ OnItsWay("detach")'
      BY <1>0, <2>d, <3>1, <3>2, LeaveDetaches
    <3>4. AttemptPending' /\ subs' = {} => AttemptPending /\ subs = {}
      BY <3>1, <3>2 DEF FanOut, FanOutOf, AttemptPending
    <3>. QED  BY <2>a, <3>2, <3>3, <3>4
  <2>5. ASSUME NEW s \in Subscribers, JoinSession(s)  PROVE Tended'
    <3>1. CASE JoinsAttempt(s)
      <4>1. attempt'.state = attempt.state /\ subs' # {}
        BY <1>0, <3>1 DEF JoinsAttempt, Attempt
      <4>. QED  BY <2>a, <4>1
    <3>2. CASE JoinsFailed(s)
      <4>1. attempt'.state = "failed" /\ attempt.state = "failed"
        BY <1>0, <3>2 DEF JoinsFailed, Attempt
      <4>2. subs = {}
        BY <1>0, <4>1 DEF FanOut, FanOutOf, AttemptPending, TypeOK
      <4>. QED  BY <2>a, <4>1, <4>2 DEF AttemptPending
    <3>3. CASE JoinsOthers(s)
      <4>1. subs' # {} /\ attempt' = attempt
        BY <3>3 DEF JoinsOthers
      <4>. QED  BY <2>a, <4>1
    <3>4. CASE JoinsFirst(s)
      <4>1. subs' # {} /\ attempt.state = "none"
        BY <3>4 DEF JoinsFirst, First
      <4>. QED  BY <2>a, <4>1
    <3>5. CASE JoinsNoWorker(s)
      <4>1. subs' = subs /\ attempt' = attempt
        BY <3>5 DEF JoinsNoWorker
      <4>. QED  BY <2>a, <4>1 DEF AttemptPending
    <3>. QED  BY <2>5, JoinCases, <3>1, <3>2, <3>3, <3>4, <3>5
  <2>6. CASE AttachSettles
    <3>1. attempt.state = "requested" /\ toSup # <<>> /\ toSup' = Tail(toSup) /\ Head(toSup).type = "attach"
      BY <2>6 DEF AttachSettles
    <3>2. CASE AttemptSucceeds
      <4>1. Leave(GoneJoiners) /\ GoneJoiners \in SUBSET Subscribers /\ ~AttemptPending'
        BY <3>2, AttemptTypes DEF AttemptSucceeds, GoneJoiners, Joiners, AttemptPending
      <4>2. subs' # {} \/ subs = {} \/ OnItsWay("detach")'
        BY <1>0, <2>d, <3>1, <4>1, LeaveDetaches
      <4>. QED  BY <2>a, <3>1, <4>1, <4>2
    <3>3. CASE AttemptFails
      <4>1. attempt'.state = "failed" /\ attempt.owner \in Ids
        BY <1>0, <3>3, AttemptTypes DEF AttemptFails, States
      <4>2. OnItsWay("detach")'
        BY <2>d, <3>3, <4>1 DEF AttemptFails
      <4>. QED  BY <2>a, <3>1, <4>1, <4>2 DEF AttemptPending
    <3>. QED  BY <2>6, <3>2, <3>3 DEF AttachSettles
  <2>7. CASE DetachEnds
    <3>1. subs' = subs
      BY <2>7 DEF DetachEnds
    <3>2. /\ AttemptPending' => AttemptPending
          /\ attempt.state = "requested" => attempt'.state = "requested"
      <4>1. \/ attempt.state = "waiting"
            \/ attempt.state = "failed" /\ attempt' = NoAttempt
            \/ attempt' = attempt
        BY <2>7 DEF DetachEnds, DetachSettles
      <4>. QED  BY <4>1, AttemptTypes DEF AttemptPending
    <3>. QED  BY <2>a, <3>1, <3>2
  <2>. QED  BY <1>4, <2>3, <2>4, <2>5, <2>6, <2>7 DEF Joins
<1>5. CASE Outside /\ Moves
  BY <1>5, TendedMoves
<1>. QED  BY <1>1, <1>2, <1>3, <1>4, <1>5, Steps

\* OrphanOnlyByEvent: unless an event has closed a connection that waited for its
\* attach, the worker keeps no stream of a session that nobody watches.
THEOREM NoOrphans == ASSUME "timeout" \notin Faults PROVE Spec => []OrphanOnlyByEvent
<1>. DEFINE Inv == /\ Typed /\ FanOut /\ Order /\ OneAttach
                   /\ Detaching /\ Dead /\ OneDelete /\ Tended
<1>1. Init => Inv
  BY TypedInit, FanOutInit, OrderInit, OneAttachInit, DetachingInit, DeadInit, OneDeleteInit,
     TendedInit
<1>2. Inv /\ [Next]_vars => Inv'
  BY TypedNext, FanOutNext, OrderNext, OneAttachNext, DetachingNext, DeadNext, OneDeleteNext,
     TendedNext DEF Patient
<1>3. Inv => OrphanOnlyByEvent
  <2>1. SUFFICES ASSUME Inv, ~joinerClosed, Quiet, subs = {}  PROVE pty = "none" /\ strays = 0
    BY DEF OrphanOnlyByEvent, NoOrphanStream
  <2>2. ~OnItsWay("detach") /\ ~OnItsWay("kill") /\ op.step \in {"none", "done"}
    BY <2>1 DEF Quiet, OnItsWay
  <2>. QED  BY <2>1, <2>2 DEF Tended, Watched, WillKill, OneAttach
<1>. HIDE DEF Inv
<1>. QED  BY <1>1, <1>2, <1>3, PTL DEF Spec

-----------------------------------------------------------------------------
(* A stream for every subscriber: commands that do not time out *)

Streams == pty = "live" /\ attachedSession

Served == \E s \in subs : phase[s] = "attached"

EventAfter(i) == \E j \in i + 1..Len(toSup) : toSup[j].type = "backpressure"

\* An attach that is handled or was answered, and every connection that is served, has
\* a stream or an event behind it that will say that the stream is closed.
Streamed ==
    op.kind # "restart" =>
        /\ pty = "ended" => ~tmux
        /\ \A x \in Ids : AttachHandled(x) => attachedSession
        /\ tmux => \A i \in 1..Len(toSup) :
                      toSup[i].type = "attach" /\ toSup[i].ok => Streams \/ EventAfter(i)
        /\ tmux /\ Served => Streams \/ EventAfter(0)

LEMMA StreamedInit == Init => Streamed
BY DEF Init, Streamed, AttachHandled, Served

\* The worker says how the attach went, and goes on streaming.
LEMMA StreamedSent ==
  ASSUME TypeOK, Streamed, op.kind # "restart", UNCHANGED <<op, subs, phase>>,
         tmux' => tmux, pty' = "ended" => ~tmux',
         \A x \in Ids : AttachHandled(x)' => attachedSession',
         tmux' /\ Streams => Streams',
         \/ toSup' = toSup
         \/ \E m \in Message : /\ toSup' = Append(toSup, m)
                               /\ m.type = "attach" /\ m.ok /\ tmux' => Streams'
  PROVE  Streamed'
<1>1. CASE toSup' = toSup
  BY <1>1 DEF Streamed, EventAfter, Served
<1>2. ASSUME NEW m \in Message, toSup' = Append(toSup, m),
             m.type = "attach" /\ m.ok /\ tmux' => Streams'
      PROVE  Streamed'
  <2>1. /\ Len(toSup) \in Nat /\ Len(toSup') = Len(toSup) + 1
        /\ \A i \in 1..Len(toSup) : toSup'[i] = toSup[i]
        /\ toSup'[Len(toSup) + 1] = m
    BY <1>2, AppendIs DEF TypeOK
  <2>2. ASSUME NEW i \in 0..Len(toSup), EventAfter(i)  PROVE EventAfter(i)'
    <3>1. PICK j \in i + 1..Len(toSup) : toSup[j].type = "backpressure"
      BY <2>2 DEF EventAfter
    <3>2. j \in i + 1..Len(toSup') /\ toSup'[j] = toSup[j]
      BY <2>1, <3>1
    <3>. QED  BY <3>1, <3>2 DEF EventAfter
  <2>3. ASSUME tmux', NEW i \in 1..Len(toSup'), toSup'[i].type = "attach", toSup'[i].ok
        PROVE  Streams' \/ EventAfter(i)'
    <3>1. CASE i \in 1..Len(toSup)
      <4>1. Streams \/ EventAfter(i)
        BY <2>1, <2>3, <3>1 DEF Streamed
      <4>. QED  BY <2>1, <2>2, <2>3, <3>1, <4>1
    <3>2. CASE i = Len(toSup) + 1
      BY <1>2, <2>1, <2>3, <3>2
    <3>. QED  BY <2>1, <2>3, <3>1, <3>2
  <2>4. tmux' /\ Served' => Streams' \/ EventAfter(0)'
    <3>1. 0 \in 0..Len(toSup)
      BY <2>1
    <3>. QED  BY <2>2, <3>1 DEF Streamed, Served
  <2>. QED  BY <2>3, <2>4 DEF Streamed
<1>. QED  BY <1>1, <1>2

\* The stream is dropped when nobody counts on it.
LEMMA StreamedDrops ==
  ASSUME TypeOK, UNCHANGED <<subs, phase>>, ~Served, pty' = "none",
         \A x \in Ids : ~AttachHandled(x)' /\ ~AttachAnswered(x),
         \/ toSup' = toSup
         \/ \E m \in Message : m.type # "attach" /\ toSup' = Append(toSup, m)
  PROVE  Streamed'
<1>1. \A i \in 1..Len(toSup) : toSup[i].type # "attach"
  <2>1. \A i \in 1..Len(toSup) : toSup[i] \in Message
    BY DEF TypeOK
  <2>. QED  BY <2>1 DEF AttachAnswered, Message
<1>2. \A i \in 1..Len(toSup') : toSup'[i].type # "attach"
  <2>1. ASSUME NEW m \in Message, m.type # "attach", toSup' = Append(toSup, m)
        PROVE  \A i \in 1..Len(toSup') : toSup'[i].type # "attach"
    BY <1>1, <2>1, AppendIs DEF TypeOK
  <2>. QED  BY <1>1, <2>1
<1>. QED  BY <1>2 DEF Streamed, Served

LEMMA StreamedWorker ==
  ASSUME Typed, Order, OneAttach, Deletion, Kills, Streamed, WorkerStep \/ ShellExits
  PROVE  Streamed'
<1>0. TypeOK /\ toWorker \in Seq(Command) /\ toSup \in Seq(Message) /\ busy \in SUBSET Command
  BY DEF Typed, TypeOK
<1>1. UNCHANGED <<subs, phase, attempt, op>>
  BY WorkerFrame
<1>. SUFFICES ASSUME op.kind # "restart"  PROVE Streamed'
  BY <1>1 DEF Streamed
<1>a. \A c \in Command, ok \in BOOLEAN :
         /\ Answer(c, ok) \in Message
         /\ Answer(c, ok).type = c.type /\ Answer(c, ok).ok = ok
  BY CommandTypes
<1>2. ASSUME toWorker # <<>>, toWorker' = Tail(toWorker)
      PROVE  Head(toWorker) \in Command /\ OnItsWay(Head(toWorker).type)
  BY <1>0, <1>2, QueueMoves
<1>3. CASE HandlesAttach
  <2>1. /\ toWorker # <<>> /\ toWorker' = Tail(toWorker) /\ attachedSession' = TRUE
        /\ tmux' = tmux /\ pty' = pty
    BY <1>3 DEF HandlesAttach, Arrived
  <2>2. \/ toSup' = toSup
        \/ pty # "none" /\ toSup' = Append(toSup, Answer(Head(toWorker), TRUE))
    BY <1>3 DEF HandlesAttach, Reply
  <2>3. pty # "none" /\ tmux => pty = "live"
    BY <1>0 DEF Streamed, TypeOK
  <2>4. Answer(Head(toWorker), TRUE) \in Message
    BY <1>2, <1>a, <2>1
  <2>5. Streams => Streams'
    BY <2>1 DEF Streams
  <2>6. pty # "none" /\ tmux' => Streams'
    BY <2>1, <2>3 DEF Streams
  <2>7. pty' = "ended" => ~tmux'
    BY <2>1 DEF Streamed
  <2>. QED  BY <1>0, <1>1, <2>1, <2>2, <2>4, <2>5, <2>6, <2>7, StreamedSent
<1>4. CASE HandlesWrite \/ HandlesCreate
  <2>1. /\ toWorker # <<>> /\ toWorker' = Tail(toWorker) /\ Head(toWorker).type \in {"write", "create"}
        /\ UNCHANGED <<attachedSession, tmux, pty>> /\ busy' \subseteq busy \union {Head(toWorker)}
    BY <1>4 DEF HandlesWrite, HandlesCreate, Arrived, workerVars
  <2>2. \A ok \in BOOLEAN : Answer(Head(toWorker), ok) \in Message
                             /\ Answer(Head(toWorker), ok).type # "attach"
    BY <1>2, <1>a, <2>1
  <2>3. toSup' = toSup \/ \E ok \in BOOLEAN : toSup' = Append(toSup, Answer(Head(toWorker), ok))
    <3>1. CASE HandlesWrite
      <4>1. (pty # "none") \in BOOLEAN
        OBVIOUS
      <4>. QED  BY <3>1, <4>1 DEF HandlesWrite, Reply
    <3>2. CASE HandlesCreate
      BY <3>2 DEF HandlesCreate
    <3>. QED  BY <1>4, <3>1, <3>2
  <2>4. \A x \in Ids : AttachHandled(x)' => AttachHandled(x)
    <3>1. \A x \in Ids : Cmd("attach", x).type = "attach"
      BY CommandTypes DEF TerminalCommands
    <3>. QED  BY <2>1, <3>1 DEF AttachHandled
  <2>5. \A x \in Ids : AttachHandled(x)' => attachedSession'
    BY <2>1, <2>4 DEF Streamed
  <2>6. (Streams => Streams') /\ (pty' = "ended" => ~tmux')
    BY <2>1 DEF Streams, Streamed
  <2>. QED  BY <1>0, <1>1, <2>1, <2>2, <2>3, <2>5, <2>6, StreamedSent
<1>5. ASSUME NEW cmd \in busy, AttachEnds(cmd)  PROVE Streamed'
  <2>1. PICK z \in Ids : cmd = Cmd("attach", z) /\ cmd \in Command
    BY <1>0, <1>5, CommandTypes DEF AttachEnds, Command
  <2>2. AttachHandled(z) /\ attempt.owner = z
    BY <2>1 DEF AttachHandled, OneAttach
  <2>3. \A x \in Ids : ~AttachHandled(x)'
    <3>1. busy' = busy \ {cmd}
      BY <1>5 DEF AttachEnds
    <3>2. \A x \in Ids : AttachHandled(x) => x = z
      BY <2>2 DEF OneAttach
    <3>. QED  BY <2>1, <3>1, <3>2 DEF AttachHandled
  <2>4. CASE tmux
    <3>1. /\ pty' = "live" /\ toSup' = Append(toSup, Answer(cmd, TRUE))
          /\ attachedSession' = attachedSession /\ tmux' = tmux
      BY <1>5, <2>4 DEF AttachEnds, Reply
    <3>2. Streams'
      BY <2>2, <3>1 DEF Streamed, Streams
    <3>. QED  BY <1>0, <1>1, <1>a, <2>1, <2>3, <3>1, <3>2, StreamedSent
  <2>5. CASE ~tmux
    <3>1. /\ pty' = pty /\ toSup' = Append(toSup, Answer(cmd, FALSE)) /\ ~tmux'
      BY <1>5, <2>5 DEF AttachEnds, Reply
    <3>. QED  BY <1>0, <1>1, <1>a, <2>1, <2>3, <3>1, StreamedSent
  <2>. QED  BY <2>4, <2>5
<1>6. ASSUME ~tmux', attachedSession' = attachedSession, busy' \subseteq busy,
             \/ toSup' = toSup
             \/ \E m \in Message : toSup' = Append(toSup, m)
      PROVE  Streamed'
  <2>1. \A x \in Ids : AttachHandled(x)' => attachedSession'
    BY <1>6 DEF AttachHandled, Streamed
  <2>. QED  BY <1>0, <1>1, <1>6, <2>1, StreamedSent
<1>7. ASSUME NEW cmd \in busy, KillEnds(cmd)  PROVE Streamed'
  <2>1. cmd \in Command /\ toSup' = Append(toSup, Answer(cmd, TRUE)) /\ ~tmux'
        /\ attachedSession' = attachedSession /\ busy' \subseteq busy
    BY <1>0, <1>7 DEF KillEnds, SessionEnds, Reply
  <2>. QED  BY <1>6, <1>a, <2>1
<1>8. ASSUME NEW cmd \in busy, NEW ok \in BOOLEAN, CreateEnds(cmd, ok)  PROVE FALSE
  BY <1>8 DEF CreateEnds, Kills
<1>9. CASE ShellExits
  BY <1>6, <1>9 DEF ShellExits, SessionEnds
<1>10. CASE PtyExit
  BY <1>6, <1>10 DEF PtyExit, Streamed
<1>11. CASE WorkerRestart
  <2>1. UNCHANGED <<pty, attachedSession, tmux, busy, toSup>>
    BY <1>11 DEF WorkerRestart
  <2>2. \A x \in Ids : AttachHandled(x)' => attachedSession'
    BY <2>1 DEF AttachHandled, Streamed
  <2>3. (Streams => Streams') /\ (pty' = "ended" => ~tmux')
    BY <2>1 DEF Streams, Streamed
  <2>. QED  BY <1>0, <1>1, <2>1, <2>2, <2>3, StreamedSent
<1>12. CASE HandlesDetach
  <2>1. /\ toWorker # <<>> /\ toWorker' = Tail(toWorker) /\ Head(toWorker).type = "detach"
        /\ pty' = "none" /\ busy' = busy /\ toSup' = Append(toSup, Answer(Head(toWorker), TRUE))
    BY <1>12 DEF HandlesDetach, Arrived, DropStream, Reply
  <2>2. /\ Answer(Head(toWorker), TRUE) \in Message
        /\ Answer(Head(toWorker), TRUE).type # "attach"
    BY <1>2, <1>a, <2>1
  <2>3. OnItsWay("detach")
    BY <1>2, <2>1
  <2>4. ~Served
    BY <2>3 DEF Order, NoDetachUnderway, OnItsWay, Served
  <2>5. \A x \in Ids : ~AttachHandled(x) /\ ~AttachAnswered(x)
    <3>1. SUFFICES ASSUME attempt.state = "requested"
                   PROVE  ~AttachHandled(attempt.owner) /\ ~AttachAnswered(attempt.owner)
      BY DEF OneAttach
    <3>2. AttachSent(attempt.owner)
      <4>1. PICK j \in 1..Len(toWorker) : toWorker[j].type = "detach"
        BY <2>3 DEF OnItsWay
      <4>2. PICK i \in j + 1..Len(toWorker) : toWorker[i] = Cmd("attach", attempt.owner)
        BY <3>1, <4>1 DEF Order, DetachesPrecede
      <4>3. i \in 1..Len(toWorker)
        BY <1>0, <4>1, <4>2
      <4>. QED  BY <4>2, <4>3 DEF AttachSent
    <3>3. attempt.owner \in Ids
      BY <1>0, AttemptTypes DEF TypeOK
    <3>. QED  BY <3>2, <3>3 DEF Order, SentOnce
  <2>6. \A x \in Ids : ~AttachHandled(x)'
    BY <2>1, <2>5 DEF AttachHandled
  <2>. QED  BY <1>0, <1>1, <2>1, <2>2, <2>4, <2>5, <2>6, StreamedDrops
<1>13. CASE HandlesKill
  <2>1. /\ toWorker # <<>> /\ toWorker' = Tail(toWorker) /\ Head(toWorker).type \in KillCommands
        /\ pty' = "none" /\ busy' = busy \union {Head(toWorker)} /\ toSup' = toSup
    BY <1>13 DEF HandlesKill, Arrived, DropStream, KillCommands
  <2>2. Deleting /\ op.step # "attempt"
    BY <1>2, <2>1 DEF Kills, KillCommands
  <2>3. subs = {} /\ ~AttemptPending
    BY <2>2 DEF Deletion, Closed
  <2>4. \A x \in Ids : ~AttachHandled(x) /\ ~AttachAnswered(x)
    BY <2>3 DEF OneAttach, AttemptPending
  <2>5. \A x \in Ids : ~AttachHandled(x)'
    <3>1. \A x \in Ids : Cmd("attach", x).type \notin KillCommands
      BY CommandTypes DEF TerminalCommands, KillCommands
    <3>. QED  BY <2>1, <2>4, <3>1 DEF AttachHandled
  <2>. QED  BY <1>0, <1>1, <2>1, <2>3, <2>4, <2>5, StreamedDrops DEF Served
<1>14. CASE Backpressure
  <2>. DEFINE m == [type |-> "backpressure", id |-> NoOne, ok |-> TRUE]
  <2>1. m \in Message /\ m.type = "backpressure"
    BY CommandTypes DEF Message, Events
  <2>2. toSup' = Append(toSup, m) /\ pty' = "none" /\ busy' = busy /\ pty = "live"
    BY <1>14 DEF Backpressure, DropStream, OneAttach
  <2>. HIDE DEF m
  <2>3. /\ Len(toSup) \in Nat /\ Len(toSup') = Len(toSup) + 1
        /\ toSup'[Len(toSup) + 1] = m
    BY <1>0, <2>1, <2>2, AppendIs
  <2>4. \A x \in Ids : ~AttachHandled(x)'
    BY <2>2 DEF OneAttach, AttachHandled
  <2>5. ASSUME NEW i \in 0..Len(toSup)  PROVE EventAfter(i)'
    <3>1. Len(toSup) + 1 \in i + 1..Len(toSup')
      BY <2>3
    <3>. QED  BY <2>1, <2>3, <3>1 DEF EventAfter
  <2>6. ASSUME NEW i \in 1..Len(toSup'), toSup'[i].type = "attach"  PROVE i \in 0..Len(toSup)
    BY <2>1, <2>3, <2>6
  <2>7. 0 \in 0..Len(toSup)
    BY <2>3
  <2>. QED  BY <2>2, <2>4, <2>5, <2>6, <2>7 DEF Streamed
<1>. QED  BY <1>3, <1>4, <1>5, <1>7, <1>8, <1>9, <1>10, <1>11, <1>12, <1>13, <1>14 DEF WorkerStep

\* The Supervisor takes a message.
LEMMA StreamedTaken ==
  ASSUME TypeOK, Streamed, op.kind # "restart", UNCHANGED <<workerVars, tmux>>, TakesMessage,
         Served' => \/ Served /\ TakesAnswer
                    \/ /\ toSup # <<>> /\ toSup' = Tail(toSup)
                       /\ Head(toSup).type = "attach" /\ Head(toSup).ok
  PROVE  Streamed'
<1>0. toSup \in Seq(Message)
  BY DEF TypeOK
<1>1. UNCHANGED <<pty, attachedSession, busy, tmux>>
  BY DEF workerVars
<1>2. /\ pty' = "ended" => ~tmux'
      /\ \A x \in Ids : AttachHandled(x)' => attachedSession'
      /\ Streams' = Streams
  BY <1>1 DEF Streamed, AttachHandled, Streams
<1>3. CASE toSup' = toSup
  <2>1. Served' => Served
    <3>1. ASSUME toSup # <<>>  PROVE Tail(toSup) # toSup
      <4>1. Len(Tail(toSup)) = Len(toSup) - 1 /\ Len(toSup) \in Nat
        BY <1>0, <3>1, TailIs
      <4>. QED  BY <4>1
    <3>. QED  BY <1>3, <3>1
  <2>2. \A i : EventAfter(i)' = EventAfter(i)
    BY <1>3 DEF EventAfter
  <2>. QED  BY <1>1, <1>2, <1>3, <2>1, <2>2 DEF Streamed
<1>4. CASE toSup # <<>> /\ toSup' = Tail(toSup)
  <2>1. /\ Len(toSup) \in Nat \ {0} /\ Len(toSup') = Len(toSup) - 1
        /\ Head(toSup) = toSup[1]
        /\ \A i \in 1..Len(toSup') : toSup'[i] = toSup[i + 1] /\ i + 1 \in 1..Len(toSup)
    BY <1>0, <1>4, TailIs
  <2>2. ASSUME NEW i \in Nat, EventAfter(i + 1)  PROVE EventAfter(i)'
    <3>1. PICK j \in i + 2..Len(toSup) : toSup[j].type = "backpressure"
      BY <2>2 DEF EventAfter
    <3>2. j - 1 \in i + 1..Len(toSup') /\ j - 1 \in 1..Len(toSup')
      BY <2>1, <3>1
    <3>3. toSup'[j - 1] = toSup[j]
      BY <2>1, <3>1, <3>2
    <3>. QED  BY <3>1, <3>2, <3>3 DEF EventAfter
  <2>3. ASSUME tmux', NEW i \in 1..Len(toSup'), toSup'[i].type = "attach", toSup'[i].ok
        PROVE  Streams' \/ EventAfter(i)'
    <3>1. Streams \/ EventAfter(i + 1)
      BY <1>1, <2>1, <2>3 DEF Streamed
    <3>. QED  BY <1>2, <2>2, <3>1
  <2>4. ASSUME tmux', Served'  PROVE Streams' \/ EventAfter(0)'
    <3>1. CASE Head(toSup).type = "attach" /\ Head(toSup).ok
      <4>1. Streams \/ EventAfter(0 + 1)
        BY <1>1, <2>1, <2>4, <3>1 DEF Streamed
      <4>. QED  BY <1>2, <2>2, <4>1
    <3>2. CASE Served /\ TakesAnswer
      <4>1. Head(toSup).type # "backpressure"
        <5>1. Tail(toSup) # toSup
          <6>1. Len(Tail(toSup)) = Len(toSup) - 1 /\ Len(toSup) \in Nat
            BY <1>0, <1>4, TailIs
          <6>. QED  BY <6>1
        <5>. QED  BY <1>4, <3>2, <5>1 DEF TakesAnswer
      <4>2. CASE EventAfter(0)
        <5>1. PICK j \in 1..Len(toSup) : toSup[j].type = "backpressure"
          BY <4>2 DEF EventAfter
        <5>2. j \in 0 + 1 + 1..Len(toSup)
          BY <2>1, <4>1, <5>1
        <5>3. EventAfter(0 + 1)
          BY <5>1, <5>2 DEF EventAfter
        <5>. QED  BY <2>2, <5>3
      <4>. QED  BY <1>1, <1>2, <2>4, <3>2, <4>2 DEF Streamed
    <3>. QED  BY <2>4, <3>1, <3>2
  <2>. QED  BY <1>2, <2>3, <2>4 DEF Streamed
<1>. QED  BY <1>3, <1>4 DEF TakesMessage

LEMMA StreamedNext ==
  ASSUME Patient
  PROVE  /\ Typed /\ FanOut /\ Order /\ OneAttach /\ Deletion /\ Kills /\ Streamed
         /\ [Next]_vars
         => Streamed'
<1>b. ASSUME Streamed, UNCHANGED vars  PROVE Streamed'
  BY <1>b DEF Streamed, Streams, Served, EventAfter, AttachHandled, vars, supVars, workerVars,
              connVars
<1>. SUFFICES ASSUME Typed, FanOut, Order, OneAttach, Deletion, Kills, Streamed, Next
              PROVE  Streamed'
  BY <1>b
<1>0. TypeOK /\ phase \in [Subscribers -> Phases] /\ subs \in SUBSET Subscribers
  BY DEF Typed, TypeOK, Phases
<1>1. CASE WorkerStep \/ ShellExits
  BY <1>1, StreamedWorker
<1>2. CASE WorkerExit
  <2>1. toSup' = <<>> /\ pty' = "none" /\ subs' = {} /\ busy' = {}
    BY <1>2 DEF WorkerExit, ClearSession
  <2>. QED  BY <2>1 DEF Streamed, Served, AttachHandled
<1>3. CASE BackpressureEvent
  <2>1. op' = op /\ TakesMessage /\ UNCHANGED <<workerVars, tmux>> /\ subs' = {}
    BY <1>3 DEF BackpressureEvent, Received, CloseSubscribers, TakesMessage
  <2>2. CASE op.kind = "restart"
    BY <2>1, <2>2 DEF Streamed
  <2>3. CASE op.kind # "restart"
    BY <1>0, <2>1, <2>3, StreamedTaken DEF Served
  <2>. QED  BY <2>2, <2>3
<1>4. CASE Outside /\ (Still \/ Leaves \/ Joins \/ AttachSettles \/ DetachEnds)
  <2>1. op' = op /\ TakesMessage /\ UNCHANGED <<workerVars, tmux>> /\ TakesAnswer
    BY <1>4 DEF Outside, Still, Leaves, Joins, AttachSettles, DetachEnds, TakesAnswer,
                TakesMessage
  <2>. SUFFICES ASSUME op.kind # "restart"  PROVE Streamed'
    BY <2>1 DEF Streamed
  \* Nobody is served without a stream, or without an answer that tells of one.
  <2>a. ASSUME Served' => \/ Served
                          \/ /\ toSup # <<>> /\ toSup' = Tail(toSup)
                             /\ Head(toSup).type = "attach" /\ Head(toSup).ok
        PROVE  Streamed'
    BY <1>0, <2>1, <2>a, StreamedTaken
  <2>3. CASE Still \/ DetachEnds
    <3>1. Served' => Served
      BY <1>0, <2>3 DEF Still, DetachEnds, Served
    <3>. QED  BY <2>a, <3>1
  <2>4. CASE Leaves
    <3>1. PICK s \in Subscribers :
             phase' = [phase EXCEPT ![s] = "over"] /\ subs' = subs \ {s}
      BY <2>4 DEF Leaves, Leave
    <3>2. Served' => Served
      BY <1>0, <3>1 DEF Served
    <3>. QED  BY <2>a, <3>2
  <2>5. ASSUME NEW s \in Subscribers, JoinSession(s)  PROVE Streamed'
    <3>1. CASE JoinsAttempt(s)
      <4>1. Served' => Served
        BY <1>0, <3>1 DEF JoinsAttempt, Served
      <4>. QED  BY <2>a, <4>1
    <3>2. CASE JoinsFailed(s) \/ JoinsNoWorker(s)
      <4>1. Served' => Served
        BY <1>0, <3>2 DEF JoinsFailed, JoinsNoWorker, RejectAttach, Served
      <4>. QED  BY <2>a, <4>1
    <3>3. CASE JoinsOthers(s)
      <4>1. Served
        <5>1. attempt.state = "none" /\ subs # {}
          BY <3>3 DEF JoinsOthers
        <5>. QED  BY <1>0, <5>1 DEF FanOut, FanOutOf, AttemptPending, Served
      <4>. QED  BY <2>a, <4>1
    <3>4. CASE JoinsFirst(s)
      <4>1. ~Served'
        BY <1>0, <3>4 DEF JoinsFirst, Served
      <4>. QED  BY <2>a, <4>1
    <3>. QED  BY <2>5, JoinCases, <3>1, <3>2, <3>3, <3>4
  <2>6. CASE AttachSettles
    <3>1. CASE AttemptSucceeds
      BY <2>6, <2>a, <3>1 DEF AttachSettles
    <3>2. CASE AttemptFails
      <4>1. Served' => Served
        BY <1>0, <3>2 DEF AttemptFails, RejectJoiners, Served
      <4>. QED  BY <2>a, <4>1
    <3>. QED  BY <2>6, <3>1, <3>2 DEF AttachSettles
  <2>. QED  BY <1>4, <2>3, <2>4, <2>5, <2>6 DEF Joins
<1>5. CASE Outside /\ Moves
  <2>1. PICK kind \in Operations, ok \in BOOLEAN :
           Advance(kind, ok) /\ (op.step # "none" => kind = op.kind)
    BY <1>5 DEF Moves
  <2>2. op'.kind = kind /\ phase' = phase /\ subs' \in {{}, subs}
    BY <2>1 DEF Advance, CloseSubscribers
  <2>. SUFFICES ASSUME kind # "restart"  PROVE Streamed'
    BY <2>2 DEF Streamed
  <2>3. op.kind # "restart"
    BY <2>1 DEF Typed
  <2>4. /\ TakesMessage /\ TakesAnswer /\ UNCHANGED <<workerVars, tmux>>
        /\ Served' => Served
    BY <1>5, <2>2 DEF Outside, TakesAnswer, TakesMessage, Served
  <2>. QED  BY <1>0, <2>3, <2>4, StreamedTaken
<1>. QED  BY <1>1, <1>2, <1>3, <1>4, <1>5, Steps

\* OneStream: as long as no command times out the worker keeps at most one pty of the
\* session, and a session that has subscribers is streamed to them while its shell lives
\* and the tab is not restarted.
THEOREM StreamIsOne == ASSUME "timeout" \notin Faults PROVE Spec => []OneStream
<1>. DEFINE Inv == /\ Typed /\ FanOut /\ Order /\ OneAttach
                   /\ Deletion /\ Kills /\ Streamed
<1>1. Init => Inv
  BY TypedInit, FanOutInit, OrderInit, OneAttachInit, DeletionInit, KillsInit, StreamedInit
<1>2. Inv /\ [Next]_vars => Inv'
  BY TypedNext, FanOutNext, OrderNext, OneAttachNext, DeletionNext, KillsNext, StreamedNext
     DEF Patient
<1>3. Inv => SubscribersHaveStream
  <2>1. SUFFICES ASSUME Inv, Quiet, subs # {}, tmux, op.kind # "restart"  PROVE Streams
    BY DEF SubscribersHaveStream, Streams
  <2>2. toSup = <<>> /\ attempt.state = "none" /\ subs \in SUBSET Subscribers
    BY <2>1 DEF Quiet, Typed, TypeOK
  <2>3. Served
    BY <2>1, <2>2 DEF FanOut, FanOutOf, AttemptPending, Served
  <2>4. ~EventAfter(0)
    BY <2>2 DEF EventAfter
  <2>. QED  BY <2>1, <2>3, <2>4 DEF Streamed
<1>4. Inv => OneStream
  BY <1>3 DEF OneAttach, NoSecondStream, OneStream
<1>. HIDE DEF Inv
<1>. QED  BY <1>1, <1>2, <1>4, PTL DEF Spec

===============================================================================
