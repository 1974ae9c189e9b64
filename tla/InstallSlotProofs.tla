-------------------------- MODULE InstallSlotProofs --------------------------
(***************************************************************************)
(* The install slot for any number of connections and any queue limit: no  *)
(* shell without its slot, and nothing typed after the lease ended.        *)
(***************************************************************************)
EXTENDS InstallSlot, SequenceTheorems, TLAPS

\* A shell is being spawned exactly while its handler awaits spawnPty.
SpawningAtSpawn == \A c \in Conns : pty[c] = "spawning" => pc[c] = "spawn"

\* Before the second lease read the shell is there, and in the slot.
StartedHasShell ==
    \A c \in Conns : slot = Starting(c) /\ pc[c] = "lease2" => pty[c] = "live"

\* An aborted connection is not about to start.
AbortedGaveUp == \A c \in Conns : slot = Starting(c) => ~aborted[c]

SlotInv == ShellHasSlot /\ SpawningAtSpawn /\ StartedHasShell /\ AbortedGaveUp

\* What is queued before the setup is completed is not late.
FramesInTime ==
    setup = "pending" => \A c \in Conns : \A i \in 1..Len(frames[c]) : frames[c][i] = "pending"

\* A read for a frame is about the first one, and answers "valid" only if it
\* was queued before the setup was completed.
ReadsFirstFrame ==
    \A c \in Conns :
        /\ read[c]["input"] # "none" => frames[c] # <<>>
        /\ read[c]["input"] = "valid" => Head(frames[c]) = "pending"

LeaseInv == LeaseHonoured /\ FramesInTime /\ ReadsFirstFrame

-----------------------------------------------------------------------------
(* The pieces the handlers are made of *)

\* The slot is idle, or somebody's, and starting is not active.
LEMMA SlotValues ==
  /\ Idle \in Slots
  /\ \A c \in Conns : /\ Starting(c) \in Slots /\ Active(c) \in Slots
                      /\ Starting(c) # Idle /\ Active(c) # Idle
  /\ \A c, d \in Conns : /\ Starting(c) # Active(d)
                         /\ Starting(c) = Starting(d) => c = d
                         /\ Active(c) = Active(d) => c = d
  /\ \A s \in Slots : s = Idle \/ \E c \in Conns : s = Starting(c) \/ s = Active(c)
<1>1. \A c \in Conns : Starting(c).state = "starting" /\ Active(c).state = "active"
                       /\ Starting(c).owner = c /\ Active(c).owner = c
  BY DEF Starting, Active
<1>2. Idle.state = "idle"
  BY DEF Idle
<1> QED BY <1>1, <1>2 DEF Slots

\* What giving the slot up leaves in its domain.
LEMMA GiveUpType ==
  ASSUME TypeOK, NEW c \in Conns, GiveUp(c)
  PROVE  /\ slot' \in Slots
         /\ pty' \in [Conns -> {"none", "spawning", "live", "dead"}]
         /\ command' \in [Conns -> {"none", "scheduled", "done"}]
         /\ watch' \in [Conns -> {"none", "scheduled"}]
BY SlotValues DEF TypeOK, GiveUp

LEMMA CloseType ==
  ASSUME TypeOK, NEW c \in Conns, CloseSocket(c)
  PROVE  ws' \in [Conns -> {"none", "open", "closing", "closed"}]
BY DEF TypeOK, CloseSocket

LEMMA AbortType ==
  ASSUME TypeOK, NEW c \in Conns, Abort(c) \/ NothingGivenUp
  PROVE  /\ slot' \in Slots
         /\ pty' \in [Conns -> {"none", "spawning", "live", "dead"}]
         /\ command' \in [Conns -> {"none", "scheduled", "done"}]
         /\ watch' \in [Conns -> {"none", "scheduled"}]
         /\ aborted' \in [Conns -> BOOLEAN]
         /\ ws' \in [Conns -> {"none", "open", "closing", "closed"}]
<1>1. CASE Abort(c)
  BY <1>1, GiveUpType, CloseType DEF TypeOK, Abort
<1>2. CASE NothingGivenUp
  BY <1>2 DEF TypeOK, NothingGivenUp
<1> QED BY <1>1, <1>2

LEMMA ReadType ==
  ASSUME TypeOK, NEW c \in Conns, NEW k \in Readers,
         BeginRead(c, k) \/ EndRead(c, k) \/ UNCHANGED read
  PROVE  read' \in [Conns -> [Readers -> {"none", "valid", "stale"}]]
<1>1. \A v \in {"none", "valid", "stale"} :
         [read EXCEPT ![c][k] = v] \in [Conns -> [Readers -> {"none", "valid", "stale"}]]
  BY DEF TypeOK
<1> QED BY <1>1 DEF TypeOK, BeginRead, EndRead

LEMMA GotoType ==
  ASSUME TypeOK, NEW c \in Conns, NEW s \in ConnStates, Goto(c, s)
  PROVE  pc' \in [Conns -> ConnStates]
BY DEF TypeOK, Goto

LEMMA ActivateType ==
  ASSUME TypeOK, NEW c \in Conns, Activate(c)
  PROVE  /\ pc' \in [Conns -> ConnStates]
         /\ slot' \in Slots
         /\ command' \in [Conns -> {"none", "scheduled", "done"}]
         /\ watch' \in [Conns -> {"none", "scheduled"}]
BY SlotValues DEF TypeOK, Activate, Goto, ConnStates

-----------------------------------------------------------------------------
(* The domains, handler by handler *)

LEMMA HandlerType ==
  ASSUME TypeOK, NEW c \in Conns, Connect(c) \/ Handler(c)
  PROVE  TypeOK'
<1>s. /\ "off" \in ConnStates /\ "auth" \in ConnStates /\ "lease1" \in ConnStates
      /\ "spawn" \in ConnStates /\ "lease2" \in ConnStates /\ "active" \in ConnStates
      /\ "done" \in ConnStates /\ "start" \in Readers
  BY DEF ConnStates, Readers
<1>1. CASE Connect(c)
  BY <1>1, <1>s, GotoType DEF Connect, TypeOK
<1>2. CASE Authorized(c)
  <2>1. CASE Goto(c, "done") /\ (NothingGivenUp \/ Abort(c)) /\ UNCHANGED read
    BY <1>2, <1>s, <2>1, GotoType, AbortType DEF Authorized, TypeOK
  <2>2. CASE slot' = Starting(c) /\ UNCHANGED <<aborted, ws, command, watch>>
             /\ Goto(c, "lease1") /\ BeginRead(c, "start") /\ UNCHANGED pty
    BY <1>2, <1>s, <2>2, GotoType, ReadType, SlotValues DEF Authorized, TypeOK
  <2>3. CASE slot' = Starting(c) /\ UNCHANGED <<aborted, ws, command, watch>>
             /\ Goto(c, "spawn") /\ pty' = [pty EXCEPT ![c] = "spawning"] /\ UNCHANGED read
    BY <1>2, <1>s, <2>3, GotoType, SlotValues DEF Authorized, TypeOK
  <2> QED BY <1>2, <2>1, <2>2, <2>3 DEF Authorized
<1>3. CASE Lease1(c)
  BY <1>3, <1>s, GotoType, AbortType, ReadType, SlotValues DEF Lease1, TypeOK
<1>4. CASE Spawned(c)
  <2>1. CASE Goto(c, "done") /\ pty' = [pty EXCEPT ![c] = "dead"]
             /\ UNCHANGED <<read, command, watch>>
    BY <1>4, <1>s, <2>1, GotoType, SlotValues DEF Spawned, TypeOK
  <2>2. CASE Goto(c, "lease2") /\ BeginRead(c, "start") /\ UNCHANGED <<slot, command, watch>>
    BY <1>4, <1>s, <2>2, GotoType, ReadType DEF Spawned, TypeOK
  <2>3. CASE Activate(c) /\ UNCHANGED read
    <3>1. pty' \in [Conns -> {"none", "spawning", "live", "dead"}]
      BY <1>4 DEF Spawned, TypeOK
    <3>2. UNCHANGED <<mode, ws, aborted, frames, read, shuttingDown, setup, tooLate>>
      BY <1>4, <2>3 DEF Spawned
    <3> QED BY <2>3, <3>1, <3>2, ActivateType DEF TypeOK
  <2> QED BY <1>4, <2>1, <2>2, <2>3 DEF Spawned
<1>5. CASE SpawnFails(c)
  BY <1>5, <1>s, GotoType, CloseType, SlotValues DEF SpawnFails, TypeOK
<1>6. CASE Lease2(c)
  BY <1>6, <1>s, GotoType, AbortType, GiveUpType, ActivateType, ReadType DEF Lease2, TypeOK
<1> QED BY <1>1, <1>2, <1>3, <1>4, <1>5, <1>6 DEF Handler

LEMMA SocketType ==
  ASSUME TypeOK, ReadsFirstFrame, NEW c \in Conns, Message(c) \/ CloseEvent(c) \/ Tasks(c)
  PROVE  TypeOK'
<1>s. "input" \in Readers /\ "command" \in Readers
  BY DEF Readers
<1>d. ASSUME frames[c] # <<>>, Drop(c)
      PROVE  /\ frames' \in [Conns -> Seq({"pending", "completed"})]
             /\ \A d \in Conns : Len(frames'[d]) <= MaxFrames
  BY <1>d, FramesAreNat DEF TypeOK, Drop
<1>t. ASSUME frames[c] # <<>>, TypeFrame(c) \/ UNCHANGED tooLate
      PROVE  tooLate' \in BOOLEAN
  BY <1>t DEF TypeOK, TypeFrame
<1>1. CASE Message(c)
  <2>1. CASE Len(frames[c]) < MaxFrames /\ frames' = [frames EXCEPT ![c] = Append(@, setup)]
    <3>1. /\ frames' \in [Conns -> Seq({"pending", "completed"})]
          /\ \A d \in Conns : Len(frames'[d]) <= MaxFrames
      BY <2>1, FramesAreNat DEF TypeOK
    <3> QED BY <1>1, <3>1, AbortType DEF Message, TypeOK
  <2>2. CASE UNCHANGED frames
    BY <1>1, <2>2, AbortType DEF Message, TypeOK
  <2> QED BY <1>1, <2>1, <2>2 DEF Message
<1>2. CASE CloseEvent(c)
  <2>1. CASE UNCHANGED <<slot, pty, command, watch>>
    BY <1>2, <2>1 DEF CloseEvent, TypeOK
  <2>2. CASE GiveUp(c)
    BY <1>2, <2>2, GiveUpType DEF CloseEvent, TypeOK
  <2> QED BY <1>2, <2>1, <2>2 DEF CloseEvent
<1>3. CASE Input(c)
  <2>1. frames[c] # <<>> /\ UNCHANGED <<pc, mode, shuttingDown, setup>>
    BY <1>3 DEF Input
  <2>2. CASE Drop(c) /\ UNCHANGED read /\ (NothingGivenUp \/ Abort(c))
             /\ (TypeFrame(c) \/ UNCHANGED tooLate)
    BY <2>1, <2>2, <1>d, <1>t, AbortType DEF TypeOK
  <2>3. CASE BeginRead(c, "input") /\ NothingGivenUp /\ UNCHANGED <<frames, tooLate>>
    BY <2>1, <2>3, <1>s, ReadType, AbortType DEF TypeOK
  <2> QED BY <1>3, <2>2, <2>3 DEF Input
<1>4. CASE InputLease(c)
  <2>1. frames[c] # <<>>
    BY <1>4 DEF InputLease, ReadsFirstFrame
  <2> QED BY <1>4, <2>1, <1>s, <1>d, <1>t, ReadType, AbortType DEF InputLease, TypeOK
<1>5. CASE Command(c)
  <2>1. CASE BeginRead(c, "command") /\ NothingGivenUp
    BY <1>5, <1>s, <2>1, ReadType, AbortType DEF Command, TypeOK
  <2>2. CASE command' = [command EXCEPT ![c] = "done"]
             /\ UNCHANGED <<slot, pty, watch, aborted, ws, read>>
    BY <1>5, <2>2 DEF Command, TypeOK
  <2>3. CASE Abort(c) /\ UNCHANGED read
    BY <1>5, <2>3, AbortType DEF Command, TypeOK
  <2> QED BY <1>5, <2>1, <2>2, <2>3 DEF Command
<1>6. CASE CommandLease(c)
  BY <1>6, <1>s, ReadType, AbortType DEF CommandLease, TypeOK
<1> QED BY <1>1, <1>2, <1>3, <1>4, <1>5, <1>6 DEF Tasks

LEMMA TaskType ==
  ASSUME TypeOK, NEW c \in Conns, Watch(c) \/ WatchLease(c) \/ ShellExits(c) \/ OutputFails(c)
  PROVE  TypeOK'
<1>s. "watch" \in Readers
  BY DEF Readers
<1>1. CASE Watch(c)
  BY <1>1, <1>s, ReadType DEF Watch, TypeOK
<1>2. CASE WatchLease(c)
  BY <1>2, <1>s, ReadType, AbortType DEF WatchLease, TypeOK
<1>3. CASE ShellExits(c)
  BY <1>3, GiveUpType, CloseType DEF ShellExits, TypeOK
<1>4. CASE OutputFails(c)
  BY <1>4, GiveUpType, CloseType DEF OutputFails, TypeOK
<1> QED BY <1>1, <1>2, <1>3, <1>4

-----------------------------------------------------------------------------
(* The frames and the lease: what was queued in time stays in time, and a  *)
(* read that answers "valid" is about a frame that was.                    *)

LEMMA LeaseStep ==
  ASSUME TypeOK, LeaseInv, [Next]_vars
  PROVE  LeaseInv'
<1> USE DEF LeaseInv, LeaseHonoured, FramesInTime, ReadsFirstFrame
<1>i. "input" \in Readers /\ "start" # "input" /\ "command" # "input" /\ "watch" # "input"
  BY DEF Readers
<1>r. ASSUME NEW c \in Conns, NEW k \in Readers, k # "input",
             BeginRead(c, k) \/ EndRead(c, k) \/ UNCHANGED read
      PROVE  \A d \in Conns : read'[d]["input"] = read[d]["input"]
  <2>1. \A v \in {"none", "valid", "stale"}, d \in Conns :
           [read EXCEPT ![c][k] = v][d]["input"] = read[d]["input"]
    BY <1>r, <1>i DEF TypeOK
  <2> QED BY <1>r, <2>1 DEF BeginRead, EndRead
<1>u. ASSUME \A d \in Conns : read'[d]["input"] = read[d]["input"],
             UNCHANGED <<frames, tooLate>>, setup' = setup \/ setup' = "completed"
      PROVE  LeaseInv'
  BY <1>u DEF TypeOK
<1>1. CASE UNCHANGED vars
  BY <1>1, <1>u DEF vars
<1>2. ASSUME NEW c \in Conns,
             Connect(c) \/ Handler(c) \/ CloseEvent(c) \/ Command(c) \/ CommandLease(c)
             \/ Watch(c) \/ WatchLease(c) \/ ShellExits(c) \/ OutputFails(c)
      PROVE  LeaseInv'
  <2>1. UNCHANGED <<frames, tooLate, setup>>
    BY <1>2 DEF Connect, Handler, Authorized, Lease1, Spawned, SpawnFails, Lease2,
       CloseEvent, Command, CommandLease, Watch, WatchLease, ShellExits, OutputFails
  <2>2. \A d \in Conns : read'[d]["input"] = read[d]["input"]
    BY <1>2, <1>i, <1>r DEF Connect, Handler, Authorized, Lease1, Spawned, SpawnFails, Lease2,
       CloseEvent, Command, CommandLease, Watch, WatchLease, ShellExits, OutputFails, Readers
  <2> QED BY <2>1, <2>2, <1>u
<1>3. ASSUME NEW c \in Conns, Message(c) PROVE LeaseInv'
  <2>1. CASE UNCHANGED frames
    BY <1>3, <2>1, <1>u DEF Message
  <2>2. CASE frames' = [frames EXCEPT ![c] = Append(@, setup)]
    <3>1. UNCHANGED <<read, setup, tooLate>>
      BY <1>3 DEF Message
    <3>2. frames[c] \in Seq({"pending", "completed"}) /\ setup \in {"pending", "completed"}
      BY DEF TypeOK
    <3>3. frames'[c] = Append(frames[c], setup)
          /\ \A d \in Conns : d # c => frames'[d] = frames[d]
      BY <2>2 DEF TypeOK
    <3>4. frames'[c] # <<>> /\ (frames[c] # <<>> => Head(frames'[c]) = Head(frames[c]))
      <4>1. Len(Append(frames[c], setup)) = Len(frames[c]) + 1
        BY <3>2
      <4>2. frames[c] # <<>> => Append(frames[c], setup)[1] = frames[c][1]
        BY <3>2, EmptySeq
      <4> QED BY <3>2, <3>3, <4>1, <4>2, EmptySeq
    <3>5. setup = "pending" => \A i \in 1..Len(frames'[c]) : frames'[c][i] = "pending"
      BY <3>2, <3>3
    <3> QED BY <3>1, <3>3, <3>4, <3>5
  <2> QED BY <1>3, <2>1, <2>2 DEF Message
<1>d. ASSUME NEW c \in Conns, frames[c] # <<>>, Drop(c), UNCHANGED setup
      PROVE  FramesInTime' /\ \A d \in Conns : d # c => frames'[d] = frames[d]
  BY <1>d DEF TypeOK, Drop
<1>h. ASSUME NEW c \in Conns, frames[c] # <<>>, setup = "pending"
      PROVE  Head(frames[c]) = "pending"
  BY <1>h DEF TypeOK
<1>4. ASSUME NEW c \in Conns, Input(c) PROVE LeaseInv'
  <2>1. CASE Drop(c) /\ UNCHANGED <<read, tooLate>>
    BY <1>4, <2>1, <1>d DEF Input
  <2>2. CASE mode[c] = "setup" /\ BeginRead(c, "input") /\ UNCHANGED <<frames, tooLate>>
    BY <1>4, <2>2, <1>h, <1>i DEF Input, BeginRead, TypeOK
  <2>3. CASE mode[c] # "setup" /\ Drop(c) /\ (TypeFrame(c) \/ UNCHANGED tooLate) /\ UNCHANGED read
    <3>1. ~tooLate'
      BY <2>3 DEF TypeFrame
    <3>2. frames[c] # <<>> /\ read[c]["input"] = "none" /\ UNCHANGED setup
      BY <1>4 DEF Input
    <3> QED BY <2>3, <3>1, <3>2, <1>d
  <2>4. mode[c] \in {"setup", "login"}
    BY DEF TypeOK
  <2> QED BY <1>4, <2>1, <2>2, <2>3, <2>4 DEF Input
<1>5. ASSUME NEW c \in Conns, InputLease(c) PROVE LeaseInv'
  <2>1. frames[c] # <<>> /\ Drop(c) /\ UNCHANGED setup
    BY <1>5 DEF InputLease
  <2>2. /\ read'[c]["input"] = "none"
        /\ \A d \in Conns : d # c => read'[d]["input"] = read[d]["input"]
    BY <1>5, <1>i DEF InputLease, EndRead, TypeOK
  <2>3. ~tooLate'
    BY <1>5 DEF InputLease, LeaseMayHold, TypeFrame
  <2> QED BY <2>1, <2>2, <2>3, <1>d
<1>6. CASE Shutdown
  BY <1>6, <1>u DEF Shutdown
<1>7. CASE CompleteSetup
  BY <1>7, <1>u DEF CompleteSetup
<1> QED BY <1>1, <1>2, <1>3, <1>4, <1>5, <1>6, <1>7 DEF Next, Tasks

LEMMA TypeStep ==
  ASSUME TypeOK, LeaseInv, [Next]_vars
  PROVE  TypeOK'
<1>1. CASE UNCHANGED vars
  BY <1>1 DEF TypeOK, vars
<1>2. CASE Shutdown
  <2>1. CASE slot = Idle
    BY <1>2, <2>1, SlotValues DEF Shutdown, TypeOK
  <2>2. CASE slot # Idle
    <3>1. slot.owner \in Conns
      <4>1. PICK c \in Conns : slot = Starting(c) \/ slot = Active(c)
        BY <2>2, SlotValues DEF TypeOK
      <4>2. Starting(c).owner = c /\ Active(c).owner = c
        BY DEF Starting, Active
      <4> QED BY <4>1, <4>2
    <3> QED BY <1>2, <2>2, <3>1, GiveUpType, CloseType DEF Shutdown, TypeOK
  <2> QED BY <2>1, <2>2
<1>3. CASE CompleteSetup
  BY <1>3 DEF TypeOK, CompleteSetup
<1> QED BY <1>1, <1>2, <1>3, HandlerType, SocketType, TaskType DEF Next, LeaseInv

THEOREM LeaseInvariance == Spec => [](TypeOK /\ LeaseInv)
<1>1. Init => TypeOK /\ LeaseInv
  <2> SUFFICES ASSUME Init PROVE TypeOK /\ LeaseInv
    OBVIOUS
  <2>1. frames \in [Conns -> Seq({"pending", "completed"})] /\ \A c \in Conns : Len(frames[c]) = 0
    BY DEF Init
  <2>2. read \in [Conns -> [Readers -> {"none", "valid", "stale"}]]
    BY DEF Init
  <2>3. TypeOK
    <3>1. pc \in [Conns -> ConnStates] /\ slot \in Slots
      BY SlotValues DEF Init, ConnStates
    <3>2. \A c \in Conns : Len(frames[c]) <= MaxFrames
      <4>1. 0 <= MaxFrames
        BY FramesAreNat
      <4> QED BY <2>1, <4>1
    <3> QED BY <2>1, <2>2, <3>1, <3>2 DEF Init, TypeOK
  <2>4. LeaseInv
    BY <2>1 DEF Init, LeaseInv, LeaseHonoured, FramesInTime, ReadsFirstFrame, Readers
  <2> QED BY <2>3, <2>4
<1>2. TypeOK /\ LeaseInv /\ [Next]_vars => (TypeOK /\ LeaseInv)'
  BY TypeStep, LeaseStep
<1> QED BY <1>1, <1>2, PTL DEF Spec

(* Every variable keeps to its domain and no queue grows past its limit,   *)
(* whatever the connections, the shells and the setup do.                  *)
THEOREM TypeCorrect == Spec => []TypeOK
BY LeaseInvariance, PTL

(* Nothing a browser without a login types after the setup was completed   *)
(* reaches a shell: for any number of connections, and in every order of   *)
(* lease reads, frames, closes and completions (processInput).             *)
THEOREM LeaseIsHonoured == Spec => []LeaseHonoured
<1>1. LeaseInv => LeaseHonoured
  BY DEF LeaseInv
<1> QED BY <1>1, LeaseInvariance, PTL

-----------------------------------------------------------------------------
(* The slot and the shell *)

\* Whoever gives the slot up, and goes where a handler without it may be,
\* leaves nothing of its own behind.
LEMMA GiveUpSlot ==
  ASSUME TypeOK, SlotInv, NEW c \in Conns, GiveUp(c), UNCHANGED shuttingDown,
         UNCHANGED pc \/ (Goto(c, "done") /\ pc[c] \in {"lease1", "lease2"}),
         \A d \in Conns : d # c => aborted'[d] = aborted[d],
         aborted'[c] = aborted[c] \/ aborted'[c] = TRUE
  PROVE  SlotInv'
<1>1. pc' = [pc EXCEPT ![c] = pc'[c]] /\ (pc'[c] = pc[c] \/ pc[c] \in {"lease1", "lease2"})
  BY DEF TypeOK, Goto
<1>2. CASE Holds(c)
  <2>1. slot' = Idle /\ \A d \in Conns : pty'[d] # "live"
    BY <1>2, SlotValues DEF GiveUp, TypeOK, SlotInv, ShellHasSlot, Holds
  <2>2. \A d \in Conns : pty'[d] = "spawning" => pc'[d] = "spawn"
    BY <1>1, <1>2 DEF GiveUp, TypeOK, SlotInv, SpawningAtSpawn
  <2> QED BY <2>1, <2>2, SlotValues DEF SlotInv, ShellHasSlot, SpawningAtSpawn, StartedHasShell,
             AbortedGaveUp, Holds
<1>3. CASE ~Holds(c)
  <2>1. slot' = slot /\ pty' = pty
    BY <1>3 DEF GiveUp, TypeOK
  <2>2. slot # Starting(c) /\ slot # Active(c)
    BY <1>3 DEF Holds
  <2>3. \A d \in Conns : d # c => pc'[d] = pc[d]
    BY <1>1 DEF TypeOK
  <2> QED BY <1>1, <2>1, <2>2, <2>3, SlotValues
             DEF SlotInv, ShellHasSlot, SpawningAtSpawn, StartedHasShell,
             AbortedGaveUp, Holds
<1> QED BY <1>2, <1>3

\* Steps that leave the slot, the shells and the handlers alone.
LEMMA SlotKept ==
  ASSUME SlotInv, UNCHANGED <<slot, pty, pc, aborted, shuttingDown>>
  PROVE  SlotInv'
BY DEF SlotInv, ShellHasSlot, SpawningAtSpawn, StartedHasShell,
             AbortedGaveUp, Holds

LEMMA SlotHandler ==
  ASSUME TypeOK, SlotInv, NEW c \in Conns, Connect(c) \/ Handler(c)
  PROVE  SlotInv'
<1> USE SlotValues DEF SlotInv, ShellHasSlot, SpawningAtSpawn, StartedHasShell,
             AbortedGaveUp, Holds
<1>o. ASSUME NEW s, Goto(c, s)
      PROVE  pc'[c] = s /\ \A d \in Conns : d # c => pc'[d] = pc[d]
  BY <1>o DEF TypeOK, Goto
<1>p. ASSUME NEW v, pty' = [pty EXCEPT ![c] = v]
      PROVE  pty'[c] = v /\ \A d \in Conns : d # c => pty'[d] = pty[d]
  BY <1>p DEF TypeOK
<1>a. ASSUME Abort(c) \/ NothingGivenUp
      PROVE  /\ \A d \in Conns : d # c => aborted'[d] = aborted[d]
             /\ aborted'[c] = aborted[c] \/ aborted'[c] = TRUE
  BY <1>a DEF TypeOK, Abort, NothingGivenUp
<1>n. ASSUME Goto(c, "done"), NothingGivenUp, slot # Starting(c), slot # Active(c),
             pty[c] # "spawning", UNCHANGED shuttingDown
      PROVE  SlotInv'
  <2>1. UNCHANGED <<slot, pty, aborted>>
    BY <1>n DEF NothingGivenUp
  <2> QED BY <1>n, <1>o, <2>1
<1>1. CASE Connect(c)
  <2>1. pc[c] = "off" /\ UNCHANGED <<slot, pty, shuttingDown>>
    BY <1>1 DEF Connect
  <2>2. /\ \A d \in Conns : d # c => pc'[d] = pc[d]
        /\ \A d \in Conns : d # c => aborted'[d] = aborted[d]
    BY <1>1, <1>o DEF Connect, TypeOK
  <2>3. slot # Starting(c) /\ slot # Active(c) /\ pty[c] # "spawning"
    BY <2>1
  <2> QED BY <2>1, <2>2, <2>3
<1>2. CASE Authorized(c)
  <2>0. pc[c] = "auth" /\ UNCHANGED shuttingDown
    BY <1>2 DEF Authorized
  <2>n. slot # Starting(c) /\ slot # Active(c) /\ pty[c] # "spawning"
    BY <2>0
  <2>1. CASE Goto(c, "done") /\ (NothingGivenUp \/ Abort(c))
    <3>1. slot' = slot /\ pty' = pty
      BY <2>1, <2>n DEF NothingGivenUp, Abort, GiveUp, TypeOK
    <3> QED BY <2>0, <2>1, <2>n, <3>1, <1>o, <1>a
  <2>2. CASE ~shuttingDown /\ slot = Idle /\ slot' = Starting(c) /\ ~aborted[c]
             /\ Goto(c, "lease1") /\ UNCHANGED <<pty, aborted>>
    BY <2>0, <2>2, <1>o
  <2>3. CASE ~shuttingDown /\ slot = Idle /\ slot' = Starting(c) /\ ~aborted[c]
             /\ Goto(c, "spawn") /\ pty' = [pty EXCEPT ![c] = "spawning"]
             /\ UNCHANGED aborted
    BY <2>0, <2>3, <1>o, <1>p
  <2> QED BY <1>2, <2>1, <2>2, <2>3 DEF Authorized
<1>3. CASE Lease1(c)
  <2>0. pc[c] = "lease1" /\ UNCHANGED shuttingDown /\ pty[c] # "spawning" /\ slot # Active(c)
    BY <1>3 DEF Lease1
  <2>1. CASE slot # Starting(c)
    BY <1>3, <1>n, <2>0, <2>1 DEF Lease1
  <2>2. CASE slot = Starting(c) /\ Goto(c, "done") /\ Abort(c)
    BY <2>0, <2>2, <1>a, GiveUpSlot DEF Abort
  <2>3. CASE slot = Starting(c) /\ Goto(c, "spawn") /\ pty' = [pty EXCEPT ![c] = "spawning"]
             /\ UNCHANGED <<slot, aborted>>
    BY <2>0, <2>3, <1>o, <1>p
  <2> QED BY <1>3, <2>1, <2>2, <2>3 DEF Lease1
<1>c. ASSUME Activate(c), pty'[c] = "live", \A d \in Conns : d # c => pty'[d] = pty[d],
             slot = Starting(c), ~shuttingDown, UNCHANGED <<aborted, shuttingDown>>
      PROVE  SlotInv'
  BY <1>c, <1>o DEF Activate
<1>l. ASSUME pc[c] = "spawn", slot # Active(c), Goto(c, "done"), UNCHANGED shuttingDown,
             pty'[c] \in {"dead", "none"}, \A d \in Conns : d # c => pty'[d] = pty[d],
             slot' = (IF slot = Starting(c) THEN Idle ELSE slot),
             \A d \in Conns : d # c => aborted'[d] = aborted[d]
      PROVE  SlotInv'
  <2>1. CASE slot = Starting(c)
    <3>1. \A d \in Conns : pty'[d] # "live"
      BY <1>l, <2>1
    <3> QED BY <1>l, <1>o, <2>1, <3>1
  <2>2. CASE slot # Starting(c)
    BY <1>l, <1>o, <2>2
  <2> QED BY <2>1, <2>2
<1>4. CASE Spawned(c)
  <2>0. pc[c] = "spawn" /\ UNCHANGED <<aborted, shuttingDown>> /\ slot # Active(c)
    BY <1>4 DEF Spawned
  <2>1. CASE Goto(c, "done") /\ pty' = [pty EXCEPT ![c] = "dead"]
             /\ slot' = IF slot = Starting(c) THEN Idle ELSE slot
    BY <2>0, <2>1, <1>l, <1>p
  <2>2. CASE slot = Starting(c) /\ ~shuttingDown /\ pty' = [pty EXCEPT ![c] = "live"]
             /\ Goto(c, "lease2") /\ UNCHANGED slot
    BY <2>0, <2>2, <1>o, <1>p
  <2>3. CASE slot = Starting(c) /\ ~shuttingDown /\ pty' = [pty EXCEPT ![c] = "live"]
             /\ Activate(c)
    BY <2>0, <2>3, <1>c, <1>p
  <2> QED BY <1>4, <2>1, <2>2, <2>3 DEF Spawned
<1>5. CASE SpawnFails(c)
  <2>0. /\ pc[c] = "spawn" /\ UNCHANGED shuttingDown /\ slot # Active(c)
        /\ Goto(c, "done") /\ pty' = [pty EXCEPT ![c] = "none"]
        /\ slot' = IF slot = Starting(c) THEN Idle ELSE slot
        /\ \A d \in Conns : d # c => aborted'[d] = aborted[d]
    BY <1>5 DEF SpawnFails, TypeOK
  <2> QED BY <2>0, <1>l, <1>p
<1>6. CASE Lease2(c)
  <2>0. pc[c] = "lease2" /\ UNCHANGED shuttingDown /\ pty[c] # "spawning"
    BY <1>6 DEF Lease2
  <2>1. CASE Goto(c, "done") /\ GiveUp(c) /\ UNCHANGED aborted
    BY <2>0, <2>1, GiveUpSlot
  <2>2. CASE Goto(c, "done") /\ Abort(c)
    BY <2>0, <2>2, <1>a, GiveUpSlot DEF Abort
  <2>3. CASE slot = Starting(c) /\ ~shuttingDown /\ Activate(c) /\ UNCHANGED <<pty, aborted>>
    BY <2>0, <2>3, <1>c
  <2> QED BY <1>6, <2>1, <2>2, <2>3 DEF Lease2
<1> QED BY <1>1, <1>2, <1>3, <1>4, <1>5, <1>6 DEF Handler

LEMMA SlotEvents ==
  ASSUME TypeOK, SlotInv, NEW c \in Conns,
         Message(c) \/ CloseEvent(c) \/ Tasks(c) \/ Watch(c) \/ WatchLease(c)
           \/ ShellExits(c) \/ OutputFails(c)
  PROVE  SlotInv'
<1>0. UNCHANGED <<pc, shuttingDown>>
  BY DEF Message, CloseEvent, Tasks, Input, InputLease, Command, CommandLease, Watch,
     WatchLease, ShellExits, OutputFails
<1>1. CASE NothingGivenUp
  BY <1>0, <1>1, SlotKept DEF NothingGivenUp
<1>2. CASE Abort(c)
  BY <1>0, <1>2, GiveUpSlot DEF Abort, TypeOK
<1>3. CASE UNCHANGED <<slot, pty, aborted>>
  BY <1>0, <1>3, SlotKept
<1>4. CASE CloseEvent(c)
  <2>1. CASE aborted[c]
    <3>1. UNCHANGED <<slot, pty, aborted>>
      BY <1>4, <2>1 DEF CloseEvent, TypeOK
    <3> QED BY <1>3, <3>1
  <2>2. CASE ~aborted[c]
    BY <1>0, <1>4, <2>2, GiveUpSlot DEF CloseEvent, TypeOK
  <2> QED BY <2>1, <2>2
<1>5. CASE ShellExits(c)
  BY <1>0, <1>5, GiveUpSlot DEF ShellExits, TypeOK
<1>6. CASE OutputFails(c)
  BY <1>0, <1>6, GiveUpSlot DEF OutputFails, TypeOK
<1> QED BY <1>1, <1>2, <1>3, <1>4, <1>5, <1>6
        DEF Message, Tasks, Input, InputLease, Command, CommandLease, Watch, WatchLease

LEMMA SlotShutdown ==
  ASSUME TypeOK, SlotInv, Shutdown
  PROVE  SlotInv'
<1>1. CASE slot = Idle
  BY <1>1 DEF Shutdown, SlotInv, ShellHasSlot, SpawningAtSpawn, StartedHasShell,
     AbortedGaveUp, Holds
<1>2. CASE slot # Idle
  <2>1. PICK c \in Conns : slot = Starting(c) \/ slot = Active(c)
    BY <1>2, SlotValues DEF TypeOK
  <2>2. Starting(c).owner = c /\ Active(c).owner = c
    BY DEF Starting, Active
  <2>3. GiveUp(c) /\ UNCHANGED <<pc, aborted>>
    BY <1>2, <2>1, <2>2 DEF Shutdown
  <2>4. slot' = Idle /\ \A d \in Conns : pty'[d] # "live"
    BY <2>1, <2>3, SlotValues DEF GiveUp, TypeOK, SlotInv, ShellHasSlot, Holds
  <2>5. \A d \in Conns : pty'[d] = "spawning" => pc'[d] = "spawn"
    BY <2>3 DEF GiveUp, TypeOK, SlotInv, SpawningAtSpawn
  <2> QED BY <2>4, <2>5, SlotValues
          DEF SlotInv, ShellHasSlot, SpawningAtSpawn, StartedHasShell, AbortedGaveUp, Holds
<1> QED BY <1>1, <1>2

(* At most one shell, owned by the connection that has the slot; an active *)
(* session has its shell, and none is left at shutdown: for any number of  *)
(* connections that come, go and fail across every await of the handler.   *)
THEOREM ShellIsOwned == Spec => []ShellHasSlot
<1>1. Init => SlotInv
  BY SlotValues DEF Init, SlotInv, ShellHasSlot, SpawningAtSpawn, StartedHasShell,
     AbortedGaveUp, Holds
<1>2. TypeOK /\ SlotInv /\ [Next]_vars => SlotInv'
  <2> SUFFICES ASSUME TypeOK, SlotInv, [Next]_vars PROVE SlotInv'
    OBVIOUS
  <2>1. CASE UNCHANGED vars
    BY <2>1, SlotKept DEF vars
  <2>2. CASE CompleteSetup
    BY <2>2, SlotKept DEF CompleteSetup
  <2> QED BY <2>1, <2>2, SlotHandler, SlotEvents, SlotShutdown DEF Next
<1>3. SlotInv => ShellHasSlot
  BY DEF SlotInv
<1> QED BY <1>1, <1>2, <1>3, TypeCorrect, PTL DEF Spec
=============================================================================
