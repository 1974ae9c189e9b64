------------------------ MODULE ScaffoldTransaction ------------------------
(***************************************************************************)
(* The governed write of project documents (lib/governance/                *)
(* project-write-transaction.ts with its journal and backup), as the       *)
(* Governance Worker drives it for one project (runtime/governance/        *)
(* worker-service.ts): a confirmed preview is published file by file and   *)
(* committed in a durable journal, undone when it fails, rolled back on    *)
(* request, and undone at the next start when the worker died in between.  *)
(* An editor may change the files at any time.                             *)
(*                                                                         *)
(* Files carry the number of the action whose output they hold, or one of  *)
(* the contents no action writes.  One step of the model is one await of   *)
(* the code that touches a file or the journal.                            *)
(***************************************************************************)
EXTENDS Integers, FiniteSets, FiniteSetsExt

CONSTANTS
    NArtifacts,  \* documents of the catalogue, in the order they are written
    Existing,    \* those the project already has
    NActions,    \* bound: actions ever confirmed
    MaxCrashes,  \* bound: deaths of the worker
    MaxEdits,    \* bound: writes of the editor
    Faults       \* a subset of {"io"}: file system calls may fail

ASSUME SizesAreNat == {NArtifacts, NActions, MaxCrashes, MaxEdits} \subseteq Nat
ASSUME ExistingAreArtifacts == Existing \subseteq 1..NArtifacts
ASSUME FaultsKnown == Faults \subseteq {"io"}

Artifacts == 1..NArtifacts
Actions == 1..NActions

\* Contents: no file, what the project had, what the editor writes, and the
\* output of an action.
Absent == 0
Original == -1
Edited == -2
Content == {Absent, Original, Edited} \cup Actions

VARIABLES
    file,        \* [Artifacts -> Content], the documents
    stage,       \* [Actions -> SUBSET Artifacts], staged outputs on disk
    journal,     \* [Actions -> manifest], with the backup of the action
    job,         \* what the worker is doing for the project
    recovery,    \* the pending actions still to undo, and whether one clashed
    writeState,  \* "recovering", "ready" or "degraded"
    crashes, edits

vars == <<file, stage, journal, job, recovery, writeState, crashes, edits>>
disk == <<file, stage, journal>>
bounds == <<crashes, edits>>

(***************************************************************************)
(* Manifest states.  "none": the action does not exist.  "unwritten": it   *)
(* has an id and perhaps a backup, and no manifest on disk.                *)
(***************************************************************************)
Pending == {"preparing", "publishing", "rolling-back"}
Rollbackable == {"committed", "index-stale", "rollback-stale"}
ManifestStates ==
    {"none", "unwritten", "rolled-back", "recovery-required"} \cup Pending \cup Rollbackable

\* base: what the target held at the confirmation (baseFingerprint);
\* pre: what the backup copied (the preimage).
Manifest == [state : ManifestStates, targets : SUBSET Artifacts,
             base : [Artifacts -> Content], pre : [Artifacts -> Content]]

NoManifest == [state |-> "none", targets |-> {},
               base |-> [a \in Artifacts |-> Absent],
               pre |-> [a \in Artifacts |-> Absent]]

(***************************************************************************)
(* The job: step, the action, the artifacts the step's loop has not done,  *)
(* the content it read last, whether the inspection found a clash, and who *)
(* asked: "execute", "rollback" or "recover".                              *)
(***************************************************************************)
Steps == {"idle", "backup", "stage", "check", "publish", "unstage",
          "refresh", "inspect", "look", "undo", "clean"}
Job == [step : Steps, act : Actions \cup {0}, todo : SUBSET Artifacts,
        seen : Content, clash : BOOLEAN,
        cause : {"none", "execute", "rollback", "recover"}]

Idle == [step |-> "idle", act |-> 0, todo |-> {}, seen |-> Absent,
         clash |-> FALSE, cause |-> "none"]

Current == journal[job.act]
NextTarget == Min(job.todo)
LastTarget == Max(job.todo)
IsCreate(k, a) == journal[k].base[a] = Absent

SetState(k, s) == journal' = [journal EXCEPT ![k].state = s]

Init ==
    /\ file = [a \in Artifacts |-> IF a \in Existing THEN Original ELSE Absent]
    /\ stage = [k \in Actions |-> {}]
    /\ journal = [k \in Actions |-> NoManifest]
    /\ job = Idle
    /\ recovery = [queue |-> {}, clash |-> FALSE]
    /\ writeState = "recovering"
    /\ crashes = 0
    /\ edits = 0

-----------------------------------------------------------------------------
(* Ends of a job *)

\* The job is over with its manifest in state s.  A recovery goes on with
\* the next pending action.
EndJob(s) ==
    /\ SetState(job.act, s)
    /\ job' = Idle
    /\ recovery' = IF job.cause = "recover"
                   THEN [queue |-> recovery.queue \ {job.act},
                         clash |-> recovery.clash \/ s = "recovery-required"]
                   ELSE recovery
    /\ UNCHANGED <<file, stage, writeState, bounds>>

\* The command is answered with an error nobody undoes.  At startup it ends
\* the recovery and leaves the writes degraded.
AnswerError ==
    /\ job' = Idle
    /\ recovery' = IF job.cause = "recover" THEN [queue |-> {}, clash |-> FALSE] ELSE recovery
    /\ writeState' = IF job.cause = "recover" THEN "degraded" ELSE writeState
    /\ UNCHANGED bounds

Throw == AnswerError /\ UNCHANGED disk

\* rollbackManifest begins: inspectManifestRollback over all targets.
Inspecting(k, cause) ==
    [Idle EXCEPT !.step = "inspect", !.act = k, !.todo = journal[k].targets, !.cause = cause]

\* The catch of execute, once the manifest has the error code.
Abort ==
    /\ job' = Inspecting(job.act, "execute")
    /\ UNCHANGED <<disk, recovery, writeState, bounds>>

Proceed(step, todo) ==
    /\ job' = [job EXCEPT !.step = step, !.todo = todo]
    /\ UNCHANGED <<recovery, writeState, bounds>>

-----------------------------------------------------------------------------
(* confirm-scaffold: execute *)

Ready == writeState = "ready" /\ job = Idle

\* confirmPreview rebuilds the preview: base is what the targets hold now.
Confirm(k, targets) ==
    /\ Ready
    /\ journal[k].state = "none"
    /\ \A j \in 1..(k - 1) : journal[j].state # "none"
    /\ targets # {}
    /\ journal' = [journal EXCEPT ![k] =
           [NoManifest EXCEPT !.state = "unwritten",
                              !.targets = targets,
                              !.base = [a \in Artifacts |->
                                  IF a \in targets THEN file[a] ELSE Absent]]]
    /\ job' = [Idle EXCEPT !.step = "backup", !.act = k, !.cause = "execute",
                           !.todo = {a \in targets : file[a] # Absent}]
    /\ UNCHANGED <<file, stage, recovery, writeState, bounds>>

\* createScaffoldBackup copies whatever the file holds by now, and fails
\* when it is gone; execute then ends without a manifest.
Backup ==
    /\ job.step = "backup"
    /\ job.todo # {}
    /\ IF file[NextTarget] = Absent
       THEN Throw
       ELSE /\ journal' = [journal EXCEPT ![job.act].pre[NextTarget] = file[NextTarget]]
            /\ Proceed("backup", job.todo \ {NextTarget})
            /\ UNCHANGED <<file, stage>>

WriteManifest ==
    /\ job.step = "backup"
    /\ job.todo = {}
    /\ SetState(job.act, "preparing")
    /\ Proceed("stage", Current.targets)
    /\ UNCHANGED <<file, stage>>

WriteStage ==
    /\ job.step = "stage"
    /\ job.todo # {}
    /\ stage' = [stage EXCEPT ![job.act] = @ \cup {NextTarget}]
    /\ Proceed("stage", job.todo \ {NextTarget})
    /\ UNCHANGED <<file, journal>>

StartPublishing ==
    /\ job.step = "stage"
    /\ job.todo = {}
    /\ SetState(job.act, "publishing")
    /\ Proceed("check", Current.targets)
    /\ UNCHANGED <<file, stage>>

\* Mutant: the base is not compared.
CheckNothing ==
    /\ job.step = "check"
    /\ job.todo # {}
    /\ job' = [job EXCEPT !.step = "publish", !.seen = file[NextTarget]]
    /\ UNCHANGED <<disk, recovery, writeState, bounds>>

\* The target is compared with its base before it is published.
Check ==
    /\ job.step = "check"
    /\ job.todo # {}
    /\ IF file[NextTarget] # Current.base[NextTarget]
       THEN Abort
       ELSE /\ job' = [job EXCEPT !.step = "publish", !.seen = file[NextTarget]]
            /\ UNCHANGED <<disk, recovery, writeState, bounds>>

\* fs.link fails on a file that has appeared since.
PublishCreate ==
    /\ job.step = "publish"
    /\ IsCreate(job.act, NextTarget)
    /\ IF file[NextTarget] # Absent
       THEN Abort
       ELSE /\ file' = [file EXCEPT ![NextTarget] = job.act]
            /\ Proceed("unstage", job.todo)
            /\ UNCHANGED <<stage, journal>>

Unstage ==
    /\ job.step = "unstage"
    /\ stage' = [stage EXCEPT ![job.act] = @ \ {NextTarget}]
    /\ Proceed("check", job.todo \ {NextTarget})
    /\ UNCHANGED <<file, journal>>

\* fs.rename replaces whatever is there.
PublishReplace ==
    /\ job.step = "publish"
    /\ ~IsCreate(job.act, NextTarget)
    /\ file' = [file EXCEPT ![NextTarget] = job.act]
    /\ stage' = [stage EXCEPT ![job.act] = @ \ {NextTarget}]
    /\ Proceed("check", job.todo \ {NextTarget})
    /\ UNCHANGED journal

Commit ==
    /\ job.step = "check"
    /\ job.todo = {}
    /\ SetState(job.act, "committed")
    /\ Proceed("refresh", {})
    /\ UNCHANGED <<file, stage>>

\* refreshAfterWrite: the index is rebuilt, or the action marked stale.
Refresh == job.step = "refresh" /\ EndJob("committed")

RefreshFails == job.step = "refresh" /\ EndJob("index-stale")

-----------------------------------------------------------------------------
(* rollbackManifest *)

\* confirm-action-rollback: the token's digest says nothing has changed
\* since its preview, which shows the clashes and does not refuse them.
Rollback(k) ==
    /\ Ready
    /\ journal[k].state \in Rollbackable
    /\ job' = Inspecting(k, "rollback")
    /\ UNCHANGED <<disk, recovery, writeState, bounds>>

\* Mutant: only the output is fit, as after a complete publication.
InspectForOutput ==
    /\ job.step = "inspect"
    /\ job.todo # {}
    /\ job' = [job EXCEPT !.todo = @ \ {NextTarget},
                          !.clash = @ \/ file[NextTarget] # job.act]
    /\ UNCHANGED <<disk, recovery, writeState, bounds>>

\* Mutant: whatever a target holds is fit.
InspectNothing ==
    /\ job.step = "inspect"
    /\ job.todo # {}
    /\ job' = [job EXCEPT !.todo = @ \ {NextTarget}]
    /\ UNCHANGED <<disk, recovery, writeState, bounds>>

\* A target is fit for undoing when it holds the output or the base.
Inspect ==
    /\ job.step = "inspect"
    /\ job.todo # {}
    /\ job' = [job EXCEPT !.todo = @ \ {NextTarget},
                          !.clash = @ \/ file[NextTarget] \notin {job.act, Current.base[NextTarget]}]
    /\ UNCHANGED <<disk, recovery, writeState, bounds>>

StaleState == IF job.cause = "rollback" THEN "rollback-stale" ELSE "recovery-required"

InspectClash ==
    /\ job.step = "inspect"
    /\ job.todo = {}
    /\ job.clash
    /\ EndJob(StaleState)

\* Mutant: the journal is told of a rollback when it is over.
StartUndoingUnrecorded ==
    /\ job.step = "inspect"
    /\ job.todo = {}
    /\ ~job.clash
    /\ Proceed("look", Current.targets)
    /\ UNCHANGED disk

StartUndoing ==
    /\ job.step = "inspect"
    /\ job.todo = {}
    /\ ~job.clash
    /\ SetState(job.act, "rolling-back")
    /\ Proceed("look", Current.targets)
    /\ UNCHANGED <<file, stage>>

\* The targets are taken in reverse; each is read again.
Look ==
    /\ job.step = "look"
    /\ job.todo # {}
    /\ job' = [job EXCEPT !.step = "undo", !.seen = file[LastTarget]]
    /\ UNCHANGED <<disk, recovery, writeState, bounds>>

\* fs.unlink fails on a file that has gone since.
UnlinkFails == IsCreate(job.act, LastTarget) /\ job.seen = job.act /\ file[LastTarget] = Absent

\* An output is unlinked or replaced by the preimage; what is not the
\* output is left alone.
Undo ==
    /\ job.step = "undo"
    /\ IF UnlinkFails
       THEN Throw
       ELSE /\ file' = IF job.seen = job.act
                       THEN [file EXCEPT ![LastTarget] =
                                IF IsCreate(job.act, LastTarget) THEN Absent ELSE Current.pre[LastTarget]]
                       ELSE file
            /\ Proceed("clean", job.todo)
            /\ UNCHANGED <<stage, journal>>

\* The staged copy goes in any case.
Clean ==
    /\ job.step = "clean"
    /\ stage' = [stage EXCEPT ![job.act] = @ \ {LastTarget}]
    /\ Proceed("look", job.todo \ {LastTarget})
    /\ UNCHANGED <<file, journal>>

Undone ==
    /\ job.step = "look"
    /\ job.todo = {}
    /\ EndJob("rolled-back")

-----------------------------------------------------------------------------
(* A file system call fails *)

\* Inside the try of execute the action is undone, unless the journal
\* cannot take the error code either.
ExecuteFails ==
    /\ "io" \in Faults
    /\ job.step \in {"stage", "check", "publish", "unstage"}
    /\ Abort \/ Throw

\* The backup, the first manifest, or anything in rollbackManifest.
OutsideFails ==
    /\ "io" \in Faults
    /\ job.step \in {"backup", "inspect", "look", "undo", "clean"}
    /\ Throw

\* The state the job writes to the journal next.
Writes(s) ==
    /\ job.todo = {}
    /\ \/ job.step = "backup" /\ s = "preparing"
       \/ job.step = "stage" /\ s = "publishing"
       \/ job.step = "check" /\ s = "committed"
       \/ job.step = "inspect" /\ s = IF job.clash THEN StaleState ELSE "rolling-back"
       \/ job.step = "look" /\ s = "rolled-back"

\* journal.write may fail after its rename: the new state is on disk, and
\* stays there unless the catch of execute still writes the error code to
\* the manifest it knows, which is ExecuteFails.
WrittenThenFails ==
    /\ "io" \in Faults
    /\ \E s \in ManifestStates : Writes(s) /\ SetState(job.act, s)
    /\ AnswerError
    /\ UNCHANGED <<file, stage>>

-----------------------------------------------------------------------------
(* The worker starts *)

\* initialization: recoverPending undoes the pending actions, oldest first.
RecoverNext ==
    /\ writeState = "recovering"
    /\ job = Idle
    /\ recovery.queue # {}
    /\ job' = Inspecting(Min(recovery.queue), "recover")
    /\ UNCHANGED <<disk, recovery, writeState, bounds>>

RecoverDone ==
    /\ writeState = "recovering"
    /\ job = Idle
    /\ recovery.queue = {}
    /\ writeState' = IF recovery.clash THEN "degraded" ELSE "ready"
    /\ UNCHANGED <<disk, job, recovery, bounds>>

\* Mutant: an interrupted rollback is not taken up again.
CrashForgettingUndo ==
    /\ crashes < MaxCrashes
    /\ crashes' = crashes + 1
    /\ job' = Idle
    /\ writeState' = "recovering"
    /\ recovery' = [queue |-> {k \in Actions : journal[k].state \in Pending \ {"rolling-back"}},
                    clash |-> FALSE]
    /\ UNCHANGED <<disk, edits>>

\* The worker dies, anywhere, and its WorkerClient starts another.
Crash ==
    /\ crashes < MaxCrashes
    /\ crashes' = crashes + 1
    /\ job' = Idle
    /\ writeState' = "recovering"
    /\ recovery' = [queue |-> {k \in Actions : journal[k].state \in Pending}, clash |-> FALSE]
    /\ UNCHANGED <<disk, edits>>

-----------------------------------------------------------------------------
\* The editor: a new text, the old text again, or a deletion.
Edit(a, c) ==
    /\ edits < MaxEdits
    /\ file[a] # c
    /\ file' = [file EXCEPT ![a] = c]
    /\ edits' = edits + 1
    /\ UNCHANGED <<stage, journal, job, recovery, writeState, crashes>>

Execute ==
    \/ \E k \in Actions, targets \in SUBSET Artifacts : Confirm(k, targets)
    \/ Backup \/ WriteManifest \/ WriteStage \/ StartPublishing
    \/ Check \/ PublishCreate \/ Unstage \/ PublishReplace
    \/ Commit \/ Refresh \/ RefreshFails \/ ExecuteFails

UndoAction ==
    \/ \E k \in Actions : Rollback(k)
    \/ Inspect \/ InspectClash \/ StartUndoing \/ Look \/ Undo \/ Clean \/ Undone
    \/ OutsideFails

Worker == Execute \/ UndoAction \/ WrittenThenFails \/ RecoverNext \/ RecoverDone

Next ==
    \/ Worker
    \/ Crash
    \/ \E a \in Artifacts, c \in {Absent, Original, Edited} : Edit(a, c)

Spec == Init /\ [][Next]_vars

\* The worker goes on with what it has begun; nobody has to confirm or to
\* roll back anything.
Continue ==
    /\ job # Idle \/ writeState = "recovering"
    /\ Worker

FairSpec == Spec /\ WF_vars(Continue)

-----------------------------------------------------------------------------
(* Properties *)

TypeOK ==
    /\ file \in [Artifacts -> Content]
    /\ stage \in [Actions -> SUBSET Artifacts]
    /\ journal \in [Actions -> Manifest]
    /\ job \in Job
    /\ recovery \in [queue : SUBSET Actions, clash : BOOLEAN]
    /\ writeState \in {"recovering", "ready", "degraded"}
    /\ crashes \in 0..MaxCrashes
    /\ edits \in 0..MaxEdits

Kept(a) == {k \in Actions : journal[k].state \in Rollbackable /\ a \in journal[k].targets}

(* All or none: when the worker rests and nothing is left to recover, each *)
(* file holds the output of the last action on it that was not rolled      *)
(* back, or what it held before all of them; and nothing staged is left.   *)
(* Without an editor no crash and no failed call can make it otherwise.    *)
AllOrNone ==
    /\ job = Idle /\ edits = 0
    /\ \A k \in Actions : journal[k].state \notin Pending \cup {"recovery-required"}
    => /\ \A a \in Artifacts :
              file[a] = IF Kept(a) # {} THEN Max(Kept(a))
                        ELSE IF a \in Existing THEN Original ELSE Absent
       /\ \A k \in Actions : stage[k] = {}

(* A text of the editor the worker has read is never replaced or removed:  *)
(* it goes for a stale preview or for a clash.  The window between a read  *)
(* and the write that follows it is all the editor can lose to.            *)
SeenEditSurvives ==
    [][\A a \in Artifacts :
        file[a] = Edited /\ file'[a] # Edited /\ edits' = edits
            => /\ job.seen # Edited \/ job.seen = Current.base[a]
               /\ job.step \in {"publish", "undo"}]_vars

(* Without an editor a death of the worker at any point, also during the   *)
(* recovery from another one, leaves nothing to be repaired by hand and    *)
(* no mix of actions, and the writes come back.                            *)
CrashNeedsNoHand ==
    /\ AllOrNone
    /\ \A k \in Actions : journal[k].state # "recovery-required"
    /\ writeState # "degraded"

\* What a reader of the documents and the journal takes for granted: an
\* action without a commit record, or with a record of its undoing, has not
\* happened.
InState(states) == {k \in Actions : journal[k].state \in states}
Visible == [a \in Artifacts |->
    IF file[a] \in InState(Pending) THEN journal[file[a]].base[a] ELSE file[a]]
Entries == {[act |-> k, held |-> [a \in journal[k].targets |-> journal[k].base[a]]] :
               k \in InState(Rollbackable)}
Atomic == INSTANCE AtomicDocuments WITH
    Documents <- Artifacts,
    First <- [a \in Artifacts |-> IF a \in Existing THEN Original ELSE Absent],
    doc <- Visible,
    kept <- Entries,
    over <- InState({"rolling-back", "rolled-back"})

(* The journal makes the documents atomic: to that reader an action happens *)
(* to all its documents at the record of its commit, and is taken back from *)
(* all at the record of its rollback, if it is the last on each; neither a  *)
(* death of the worker nor a recovery shows (execute, rollbackManifest,     *)
(* recoverPending).                                                         *)
DocumentsAreAtomic == Atomic!Spec

(* "Crash 뒤 recovery가 끝나기 전에는 해당 project의 새 write action을 받지 *)
(* 않습니다": the recovery ends, and when it opens the writes every action  *)
(* that was under way is committed, rolled back, or handed to a person.    *)
RecoveryEnds ==
    writeState = "recovering"
        ~> /\ writeState # "recovering"
           /\ \A k \in Actions : journal[k].state \notin Pending
=============================================================================
