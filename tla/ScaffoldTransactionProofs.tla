---------------------- MODULE ScaffoldTransactionProofs ----------------------
(***************************************************************************)
(* Proofs about ScaffoldTransaction for any number of documents, actions,  *)
(* deaths of the worker and writes of the editor.                          *)
(*                                                                         *)
(* Each invariant is proved with the help of those before it.  Whatever    *)
(* fails and whatever the editor does:                                     *)
(*   - Typed, where a job stands and what its manifest says then;          *)
(*   - Numbered, an action that is executed is the newest;                 *)
(*   - Staged, nothing staged outlives its action.                         *)
(* As long as the editor writes nothing:                                   *)
(*   - Chains, each document holds the newest of the actions on it, and    *)
(*     each of these would bring back the one before it;                   *)
(*   - Backups, a backup holds what was confirmed;                         *)
(*   - Progress, how far a job has come through its targets.               *)
(* If no file system call fails either:                                    *)
(*   - OnePending, one action at most is pending, and it can be undone.    *)
(***************************************************************************)
EXTENDS ScaffoldTransaction, WellFoundedInduction, TLAPS

-----------------------------------------------------------------------------
(* Minimum and maximum *)

LEMMA LeastIs ==
  ASSUME NEW S \in SUBSET Nat, S # {}
  PROVE  \E x \in S : \A y \in S : x <= y
<1>1. PICK x \in S : \A y \in S : ~(<<y, x>> \in OpToRel(<, Nat))
  BY NatLessThanWellFounded, WFMin
<1>2. \A y \in S : ~(y < x)
  BY <1>1 DEF OpToRel
<1>. QED  BY <1>2

LEMMA MinIs ==
  ASSUME NEW S \in SUBSET Nat, S # {}
  PROVE  Min(S) \in S /\ \A y \in S : Min(S) <= y
BY LeastIs DEF Min

LEMMA MaxIs ==
  ASSUME NEW n \in Nat, NEW S \in SUBSET (1..n), S # {}
  PROVE  Max(S) \in S /\ \A y \in S : Max(S) >= y
<1>. DEFINE T == {n - x : x \in S}
<1>1. \A x \in S : x \in 1..n /\ n - x \in Nat
  OBVIOUS
<1>2. T \in SUBSET Nat /\ T # {}
  BY <1>1, Zenon
<1>3. PICK t \in T : \A u \in T : t <= u
  BY <1>2, LeastIs
<1>4. PICK x \in S : t = n - x
  OBVIOUS
<1>5. ASSUME NEW y \in S  PROVE x >= y
  <2>1. n - y \in T
    OBVIOUS
  <2>2. n - x <= n - y
    BY <1>3, <1>4, <2>1
  <2>. QED  BY <1>1, <2>2
<1>. QED  BY <1>5 DEF Max

LEMMA MaxUnique ==
  ASSUME NEW n \in Nat, NEW S \in SUBSET (1..n), NEW x \in S, \A y \in S : y <= x
  PROVE  Max(S) = x
<1>1. Max(S) \in S /\ Max(S) >= x
  BY MaxIs
<1>2. \A y \in S : y \in 1..n
  OBVIOUS
<1>3. Max(S) <= x /\ Max(S) \in 1..n /\ x \in 1..n
  BY <1>1, <1>2
<1>. QED  BY <1>1, <1>3

-----------------------------------------------------------------------------
(* Records *)

State(k) == journal[k].state

LEMMA ContentIs == NArtifacts \in Nat /\ NActions \in Nat /\ Actions \subseteq Content
                   /\ Absent \in Content /\ Original \in Content
BY SizesAreNat DEF Content

LEMMA StateIsSet ==
  ASSUME TypeOK, NEW k \in Actions, NEW s \in ManifestStates, SetState(k, s)
  PROVE  /\ journal' \in [Actions -> Manifest]
         /\ journal'[k].state = s
         /\ \A j \in Actions : j # k => journal'[j] = journal[j]
         /\ \A j \in Actions : /\ journal'[j].targets = journal[j].targets
                               /\ journal'[j].base = journal[j].base
                               /\ journal'[j].pre = journal[j].pre
BY DEF TypeOK, SetState, Manifest

LEMMA PreimageIs ==
  ASSUME TypeOK, NEW k \in Actions, NEW a \in Artifacts,
         journal' = [journal EXCEPT ![k].pre[a] = file[a]]
  PROVE  /\ journal' \in [Actions -> Manifest]
         /\ \A j \in Actions : /\ journal'[j].state = journal[j].state
                               /\ journal'[j].targets = journal[j].targets
                               /\ journal'[j].base = journal[j].base
                               /\ j # k => journal'[j].pre = journal[j].pre
         /\ journal'[k].pre = [journal[k].pre EXCEPT ![a] = file[a]]
<1>. DEFINE m == [journal[k] EXCEPT !.pre = [@ EXCEPT ![a] = file[a]]]
<1>1. file[a] \in Content /\ journal[k] \in Manifest
  BY DEF TypeOK
<1>2. [journal[k].pre EXCEPT ![a] = file[a]] \in [Artifacts -> Content]
  BY <1>1 DEF Manifest
<1>3. /\ m \in Manifest /\ m.state = journal[k].state /\ m.targets = journal[k].targets
      /\ m.base = journal[k].base /\ m.pre = [journal[k].pre EXCEPT ![a] = file[a]]
  BY <1>1, <1>2 DEF Manifest
<1>4. journal' = [journal EXCEPT ![k] = m]
  OBVIOUS
<1>. HIDE DEF m
<1>. QED  BY <1>3, <1>4 DEF TypeOK

LEMMA IdleIs ==
  /\ Idle \in Job /\ Idle.step = "idle" /\ Idle.cause = "none"
  /\ \A k \in Actions, cause \in {"execute", "rollback", "recover"} : TypeOK =>
        LET j == Inspecting(k, cause)
        IN  /\ j \in Job /\ j.step = "inspect" /\ j.act = k /\ j.cause = cause /\ j.clash = FALSE
            /\ j.todo = journal[k].targets
<1>1. Idle \in Job /\ Idle.step = "idle" /\ Idle.cause = "none"
  BY ContentIs DEF Idle, Job, Steps
<1>2. ASSUME NEW k \in Actions, NEW cause \in {"execute", "rollback", "recover"}, TypeOK
      PROVE  LET j == Inspecting(k, cause)
             IN  /\ j \in Job /\ j.step = "inspect" /\ j.act = k /\ j.cause = cause /\ j.clash = FALSE
                 /\ j.todo = journal[k].targets
  <2>1. journal[k].targets \in SUBSET Artifacts
    BY <1>2 DEF TypeOK, Manifest
  <2>. QED  BY <2>1, ContentIs DEF Inspecting, Idle, Job, Steps
<1>. QED  BY <1>1, <1>2

\* A job whose step and targets change.
LEMMA JobMoves ==
  ASSUME TypeOK, NEW step \in Steps, NEW todo \in SUBSET Artifacts, Proceed(step, todo)
  PROVE  /\ job' \in Job /\ job'.step = step /\ job'.todo = todo
         /\ job'.act = job.act /\ job'.seen = job.seen /\ job'.clash = job.clash
         /\ job'.cause = job.cause
         /\ UNCHANGED <<recovery, writeState, crashes, edits>>
BY DEF TypeOK, Proceed, Job, bounds

-----------------------------------------------------------------------------
(* Where a job stands *)

Writing == {"check", "publish", "unstage"}
Undoing == {"look", "undo", "clean"}

StateFits ==
    /\ job.step = "backup" => State(job.act) = "unwritten"
    /\ job.step = "stage" => State(job.act) = "preparing"
    /\ job.step \in Writing => State(job.act) = "publishing"
    /\ job.step = "refresh" => State(job.act) = "committed"
    /\ job.step = "inspect" =>
          State(job.act) \in IF job.cause = "rollback" THEN Rollbackable ELSE Pending
    /\ job.step \in Undoing => State(job.act) = "rolling-back"
    /\ job.step \in Writing \union {"backup", "stage", "refresh"} => job.cause = "execute"

\* A job is about an action, whose manifest says how far it is.
JobOK ==
    /\ job.step = "idle" => job = Idle
    /\ job.step # "idle" => /\ job.act \in Actions /\ job.cause # "none"
                            /\ job.todo \subseteq Current.targets /\ StateFits
    /\ job.step \in {"publish", "unstage", "undo", "clean"} => job.todo # {}
    /\ job.step = "publish" => job.seen = Current.base[NextTarget]

\* Only pending actions are recovered, and only before the writes open.
RecoveryOK ==
    /\ \A k \in recovery.queue : State(k) \in Pending
    /\ recovery.queue # {} => writeState = "recovering"
    /\ writeState = "recovering" => job.step = "idle" \/ job.cause = "recover"
    /\ job.cause = "recover" => writeState = "recovering"

Typed == TypeOK /\ JobOK /\ RecoveryOK

LEMMA Targets ==
  ASSUME TypeOK
  PROVE  /\ job.todo \in SUBSET Artifacts
         /\ job.todo # {} => NextTarget \in job.todo /\ LastTarget \in job.todo
<1>1. job.todo \in SUBSET Artifacts
  BY DEF TypeOK, Job
<1>2. ASSUME job.todo # {}  PROVE NextTarget \in job.todo /\ LastTarget \in job.todo
  <2>1. job.todo \in SUBSET (1..NArtifacts) /\ job.todo \in SUBSET Nat
    BY <1>1 DEF Artifacts
  <2>. QED  BY <1>2, <2>1, ContentIs, MinIs, MaxIs DEF NextTarget, LastTarget
<1>. QED  BY <1>1, <1>2

LEMMA TypedInit == Init => Typed
<1>. SUFFICES ASSUME Init  PROVE Typed
  OBVIOUS
<1>1. NoManifest \in Manifest
  BY ContentIs DEF NoManifest, Manifest, ManifestStates
<1>2. TypeOK
  BY <1>1, IdleIs, ContentIs, SizesAreNat DEF Init, TypeOK
<1>. QED  BY <1>2, IdleIs DEF Init, Typed, JobOK, RecoveryOK, StateFits

LEMMA TypedNext == Typed /\ [Next]_vars => Typed'
<1>b. ASSUME Typed, UNCHANGED vars  PROVE Typed'
  BY <1>b DEF Typed, TypeOK, JobOK, RecoveryOK, StateFits, State, Current, NextTarget, vars
<1>. SUFFICES ASSUME Typed, Next  PROVE Typed'
  BY <1>b
<1>0. TypeOK /\ JobOK /\ RecoveryOK
  BY DEF Typed
<1>j. job \in Job
  BY <1>0 DEF TypeOK
<1>t. /\ job.todo \in SUBSET Artifacts
      /\ job.todo # {} => NextTarget \in job.todo /\ LastTarget \in job.todo
  BY <1>0, Targets
\* The job changes and nothing else but the files and the stages.
<1>c. ASSUME UNCHANGED <<journal, recovery, writeState, bounds>>,
             file' \in [Artifacts -> Content], stage' \in [Actions -> SUBSET Artifacts],
             job' \in Job, JobOK', writeState = "recovering" <=> job'.cause = "recover"
      PROVE  Typed'
  BY <1>0, <1>c DEF Typed, TypeOK, RecoveryOK, State, bounds
<1>d. ASSUME UNCHANGED <<disk, recovery, writeState, bounds>>, job' \in Job, JobOK',
             writeState = "recovering" <=> job'.cause = "recover"
      PROVE  Typed'
  BY <1>0, <1>c, <1>d DEF TypeOK, disk
<1>1. ASSUME Abort, job.step # "idle", job.cause = "execute", State(job.act) \in Pending  PROVE Typed'
  <2>1. job' = Inspecting(job.act, "execute") /\ UNCHANGED <<disk, recovery, writeState, bounds>>
    BY <1>1 DEF Abort
  <2>2. job.act \in Actions
    BY <1>0, <1>1 DEF JobOK
  <2>3. JobOK' /\ job' \in Job
    BY <1>0, <1>1, <2>1, <2>2, IdleIs DEF JobOK, StateFits, State, Current, disk, Writing, Undoing
  <2>4. job'.cause = "execute" /\ writeState # "recovering"
    BY <1>0, <1>1, <2>1, <2>2, IdleIs DEF RecoveryOK
  <2>. QED  BY <1>d, <2>1, <2>3, <2>4
<1>2. ASSUME Throw  PROVE Typed'
  BY <1>0, <1>2, IdleIs DEF Throw, AnswerError, Typed, TypeOK, JobOK, RecoveryOK, StateFits, State, disk, bounds
<1>3. ASSUME NEW s \in ManifestStates, EndJob(s), job.step # "idle"
      PROVE  Typed'
  <2>1. job.act \in Actions
    BY <1>0, <1>3 DEF JobOK
  <2>2. /\ journal' \in [Actions -> Manifest]
        /\ \A j \in Actions : j # job.act => journal'[j] = journal[j]
    BY <1>0, <1>3, <2>1, StateIsSet DEF EndJob
  <2>3. recovery' \in [queue : SUBSET Actions, clash : BOOLEAN]
        /\ recovery'.queue = IF job.cause = "recover" THEN recovery.queue \ {job.act} ELSE recovery.queue
    BY <1>0, <1>3 DEF EndJob, TypeOK
  <2>4. TypeOK' /\ JobOK'
    BY <1>0, <1>3, <2>2, <2>3, IdleIs DEF EndJob, TypeOK, JobOK, StateFits, bounds
  <2>5. RecoveryOK'
    <3>1. job.cause # "recover" => recovery.queue = {}
      BY <1>0, <1>3 DEF RecoveryOK
    <3>2. \A k \in recovery'.queue : k \in Actions /\ k # job.act /\ State(k) \in Pending
      BY <1>0, <2>3, <3>1 DEF RecoveryOK, TypeOK
    <3>3. \A k \in recovery'.queue : State(k)' \in Pending
      BY <2>2, <3>2 DEF State
    <3>. QED  BY <1>0, <1>3, <2>3, <3>3, IdleIs DEF EndJob, RecoveryOK
  <2>. QED  BY <2>4, <2>5 DEF Typed
\* The manifest is taken from one state to the next and the job with it.
<1>4. ASSUME NEW s \in ManifestStates, NEW step \in Steps \ {"idle"}, NEW todo \in SUBSET Artifacts,
             SetState(job.act, s), Proceed(step, todo), UNCHANGED <<file, stage>>,
             job.step # "idle", todo \subseteq Current.targets,
             State(job.act) \in Pending => s \in Pending \/ job.cause = "execute",
             <<step, s>> \in {<<"stage", "preparing">>, <<"check", "publishing">>,
                              <<"refresh", "committed">>, <<"look", "rolling-back">>},
             step # "look" => job.cause = "execute"
      PROVE  Typed'
  <2>1. job.act \in Actions /\ job.cause # "none"
    BY <1>0, <1>4 DEF JobOK
  <2>2. /\ journal' \in [Actions -> Manifest] /\ journal'[job.act].state = s
        /\ \A j \in Actions : j # job.act => journal'[j] = journal[j]
        /\ \A j \in Actions : journal'[j].targets = journal[j].targets
    BY <1>0, <1>4, <2>1, StateIsSet
  <2>3. /\ job' \in Job /\ job'.step = step /\ job'.todo = todo
        /\ job'.act = job.act /\ job'.cause = job.cause
        /\ UNCHANGED <<recovery, writeState, crashes, edits>>
    BY <1>0, <1>4, JobMoves
  <2>4. TypeOK'
    BY <1>0, <1>4, <2>2, <2>3 DEF TypeOK
  <2>5. JobOK'
    BY <1>4, <2>1, <2>2, <2>3 DEF JobOK, StateFits, State, Current, Writing, Undoing
  <2>6. RecoveryOK'
    <3>1. job.cause = "execute" => recovery.queue = {}
      BY <1>0, <1>4 DEF RecoveryOK
    <3>2. \A k \in recovery.queue : k \in Actions /\ State(k)' \in Pending
      BY <1>0, <1>4, <2>2, <3>1 DEF RecoveryOK, TypeOK, State
    <3>. QED  BY <1>0, <1>4, <2>3, <3>2 DEF RecoveryOK
  <2>. QED  BY <2>4, <2>5, <2>6 DEF Typed
\* A target is dealt with.
<1>5. ASSUME NEW step \in {"check", "unstage", "stage", "look", "clean"}, NEW todo \in SUBSET job.todo,
             Proceed(step, todo), journal' = journal,
             file' \in [Artifacts -> Content], stage' \in [Actions -> SUBSET Artifacts],
             job.step # "idle",
             step \in {"unstage", "clean"} => todo # {},
             step \in Writing => job.step \in Writing,
             step = "stage" => job.step = "stage",
             step \in Undoing => job.step \in Undoing
      PROVE  Typed'
  <2>1. /\ job.act \in Actions /\ job.cause # "none" /\ todo \subseteq Current.targets
        /\ todo \in SUBSET Artifacts /\ step \in Steps
    BY <1>0, <1>5, <1>t DEF JobOK, Steps
  <2>2. /\ job' \in Job /\ job'.step = step /\ job'.todo = todo
        /\ job'.act = job.act /\ job'.cause = job.cause
        /\ UNCHANGED <<recovery, writeState, bounds>>
    BY <1>0, <1>5, <2>1, JobMoves DEF bounds
  <2>3. JobOK'
    BY <1>0, <1>5, <2>1, <2>2 DEF JobOK, StateFits, State, Current, Writing, Undoing
  <2>. QED  BY <1>0, <1>5, <1>c, <2>2, <2>3 DEF RecoveryOK
<1>6. ASSUME NEW k \in Actions, NEW targets \in SUBSET Artifacts, Confirm(k, targets)  PROVE Typed'
  <2>. DEFINE m == [NoManifest EXCEPT !.state = "unwritten",
                              !.targets = targets,
                              !.base = [a \in Artifacts |->
                                  IF a \in targets THEN file[a] ELSE Absent]]
  <2>1. m \in Manifest /\ m.state = "unwritten" /\ m.targets = targets
    BY <1>0, ContentIs DEF NoManifest, Manifest, ManifestStates, TypeOK
  <2>2. journal' = [journal EXCEPT ![k] = m]
    BY <1>6 DEF Confirm
  <2>. HIDE DEF m
  <2>3. /\ journal' \in [Actions -> Manifest] /\ State(k)' = "unwritten"
        /\ journal'[k].targets = targets
    BY <1>0, <2>1, <2>2 DEF TypeOK, State
  <2>4. /\ job' \in Job /\ job'.step = "backup" /\ job'.act = k /\ job'.cause = "execute"
        /\ job'.todo \subseteq targets
    BY <1>6, ContentIs DEF Confirm, Idle, Job, Steps
  <2>5. TypeOK'
    BY <1>0, <1>6, <2>3, <2>4 DEF Confirm, TypeOK, bounds
  <2>6. JobOK'
    BY <2>3, <2>4 DEF JobOK, StateFits, State, Current, Writing, Undoing
  <2>7. RecoveryOK'
    BY <1>0, <1>6, <2>4 DEF Confirm, RecoveryOK, Ready, State
  <2>. QED  BY <2>5, <2>6, <2>7 DEF Typed
<1>7. CASE Backup
  <2>1. job.act \in Actions /\ job.step = "backup" /\ job.cause = "execute" /\ NextTarget \in Artifacts
        /\ State(job.act) = "unwritten"
    BY <1>0, <1>7, <1>t DEF Backup, JobOK, StateFits
  <2>2. CASE journal' = [journal EXCEPT ![job.act].pre[NextTarget] = file[NextTarget]]
             /\ Proceed("backup", job.todo \ {NextTarget}) /\ UNCHANGED <<file, stage>>
    <3>1. /\ journal' \in [Actions -> Manifest]
          /\ \A j \in Actions : /\ journal'[j].state = journal[j].state
                                /\ journal'[j].targets = journal[j].targets
      BY <1>0, <2>1, <2>2, PreimageIs
    <3>2. /\ job' \in Job /\ job'.step = "backup" /\ job'.todo = job.todo \ {NextTarget}
          /\ job'.act = job.act /\ job'.cause = job.cause
          /\ UNCHANGED <<recovery, writeState, crashes, edits>>
      BY <1>0, <1>t, <2>2, JobMoves DEF Steps
    <3>3. TypeOK'
      BY <1>0, <2>2, <3>1, <3>2 DEF TypeOK
    <3>4. JobOK'
      BY <1>0, <2>1, <3>1, <3>2 DEF JobOK, StateFits, State, Current, Writing, Undoing
    <3>5. RecoveryOK'
      BY <1>0, <2>1, <3>1, <3>2 DEF RecoveryOK, State, TypeOK
    <3>. QED  BY <3>3, <3>4, <3>5 DEF Typed
  <2>. QED  BY <1>2, <1>7, <2>2 DEF Backup
<1>8. CASE WriteManifest \/ StartPublishing \/ Commit \/ StartUndoing
  <2>1. /\ job.step \in {"backup", "stage", "check", "inspect"}
        /\ Current.targets \in SUBSET Artifacts
    <3>1. job.act \in Actions
      BY <1>0, <1>8 DEF JobOK, WriteManifest, StartPublishing, Commit, StartUndoing
    <3>. QED  BY <1>0, <1>8, <3>1 DEF WriteManifest, StartPublishing, Commit, StartUndoing,
                                      TypeOK, Manifest, Current
  <2>2. {"preparing", "publishing", "committed", "rolling-back"} \subseteq ManifestStates
    BY DEF ManifestStates, Pending, Rollbackable
  <2>3. CASE WriteManifest
    <3>1. /\ SetState(job.act, "preparing") /\ Proceed("stage", Current.targets)
          /\ UNCHANGED <<file, stage>>
      BY <2>3 DEF WriteManifest
    <3>2. job.cause = "execute" /\ Current.targets \in SUBSET Artifacts /\ Current.targets \subseteq Current.targets
      BY <1>0, <2>1, <2>3 DEF WriteManifest, JobOK, StateFits, Writing
    <3>3. "preparing" \in ManifestStates /\ "stage" \in Steps \ {"idle"}
      BY <2>2 DEF Steps
    <3>4. "preparing" \in Pending
      BY DEF Pending
    <3>. QED  BY <1>4, <2>1, <3>1, <3>2, <3>3, <3>4
  <2>4. CASE StartPublishing
    <3>1. /\ SetState(job.act, "publishing") /\ Proceed("check", Current.targets)
          /\ UNCHANGED <<file, stage>>
      BY <2>4 DEF StartPublishing
    <3>2. job.cause = "execute" /\ Current.targets \in SUBSET Artifacts /\ Current.targets \subseteq Current.targets
      BY <1>0, <2>1, <2>4 DEF StartPublishing, JobOK, StateFits, Writing
    <3>3. "publishing" \in ManifestStates /\ "check" \in Steps \ {"idle"}
      BY <2>2 DEF Steps
    <3>4. "publishing" \in Pending
      BY DEF Pending
    <3>. QED  BY <1>4, <2>1, <3>1, <3>2, <3>3, <3>4
  <2>5. CASE Commit
    <3>1. /\ SetState(job.act, "committed") /\ Proceed("refresh", {})
          /\ UNCHANGED <<file, stage>>
      BY <2>5 DEF Commit
    <3>2. job.cause = "execute" /\ {} \in SUBSET Artifacts /\ {} \subseteq Current.targets
      BY <1>0, <2>1, <2>5 DEF Commit, JobOK, StateFits, Writing
    <3>3. "committed" \in ManifestStates /\ "refresh" \in Steps \ {"idle"}
      BY <2>2 DEF Steps
    <3>. QED  BY <1>4, <2>1, <3>1, <3>2, <3>3
  <2>6. CASE StartUndoing
    <3>1. /\ SetState(job.act, "rolling-back") /\ Proceed("look", Current.targets)
          /\ UNCHANGED <<file, stage>>
      BY <2>6 DEF StartUndoing
    <3>2. Current.targets \in SUBSET Artifacts /\ Current.targets \subseteq Current.targets
      BY <1>0, <2>1, <2>6 DEF StartUndoing, JobOK, StateFits, Writing
    <3>3. "rolling-back" \in ManifestStates /\ "look" \in Steps \ {"idle"}
      BY <2>2 DEF Steps
    <3>4. "rolling-back" \in Pending
      BY DEF Pending
    <3>. QED  BY <1>4, <2>1, <3>1, <3>2, <3>3, <3>4
  <2>. QED  BY <1>8, <2>3, <2>4, <2>5, <2>6
<1>9. CASE WriteStage
  <2>1. job.act \in Actions /\ job.step = "stage" /\ NextTarget \in Artifacts
    BY <1>0, <1>9, <1>t DEF WriteStage, JobOK
  <2>2. /\ stage' \in [Actions -> SUBSET Artifacts] /\ file' \in [Artifacts -> Content]
        /\ Proceed("stage", job.todo \ {NextTarget}) /\ journal' = journal
    BY <1>0, <1>9, <2>1 DEF WriteStage, TypeOK
  <2>. QED  BY <1>5, <2>1, <2>2 DEF Writing
<1>10. CASE Check
  <2>1. job.step = "check" /\ job.cause = "execute" /\ State(job.act) \in Pending /\ job.todo # {}
    BY <1>0, <1>10 DEF Check, JobOK, StateFits, Writing, Pending
  <2>2. CASE /\ file[NextTarget] = Current.base[NextTarget]
             /\ job' = [job EXCEPT !.step = "publish", !.seen = file[NextTarget]]
             /\ UNCHANGED <<disk, recovery, writeState, bounds>>
    <3>1. file[NextTarget] \in Content
      BY <1>0, <1>t, <2>1 DEF TypeOK
    <3>2. /\ job' \in Job /\ job'.step = "publish" /\ job'.seen = file[NextTarget]
          /\ job'.act = job.act /\ job'.todo = job.todo /\ job'.cause = job.cause
      BY <1>j, <2>2, <3>1 DEF Job, Steps
    <3>3. JobOK'
      BY <1>0, <2>1, <2>2, <3>2 DEF JobOK, StateFits, State, Current, NextTarget, Writing,
                                    Undoing, disk
    <3>. QED  BY <1>0, <1>d, <2>2, <3>2, <3>3, <2>1 DEF RecoveryOK
  <2>. QED  BY <1>1, <1>10, <2>1, <2>2 DEF Check
<1>11. CASE PublishCreate \/ PublishReplace \/ Unstage
  <2>1. /\ job.act \in Actions /\ job.step \in {"publish", "unstage"} /\ job.todo # {}
        /\ job.cause = "execute" /\ State(job.act) \in Pending
    BY <1>0, <1>11 DEF PublishCreate, PublishReplace, Unstage, JobOK, StateFits, Writing, Pending
  <2>2. NextTarget \in Artifacts /\ job.act \in Content
    BY <1>t, <2>1, ContentIs
  <2>3. stage \in [Actions -> SUBSET Artifacts] /\ file \in [Artifacts -> Content]
    BY <1>0 DEF TypeOK
  <2>4. [file EXCEPT ![NextTarget] = job.act] \in [Artifacts -> Content]
    BY <2>2, <2>3
  <2>5. [stage EXCEPT ![job.act] = @ \ {NextTarget}] \in [Actions -> SUBSET Artifacts]
    BY <2>1, <2>3
  <2>6. CASE Abort
    BY <1>1, <2>1, <2>6
  <2>7. CASE /\ file' = [file EXCEPT ![NextTarget] = job.act]
             /\ Proceed("unstage", job.todo) /\ UNCHANGED <<stage, journal>>
    BY <1>5, <2>1, <2>3, <2>4, <2>7 DEF Writing, Undoing
  <2>8. CASE PublishReplace \/ Unstage
    BY <1>5, <2>1, <2>3, <2>4, <2>5, <2>8 DEF PublishReplace, Unstage, Writing, Undoing
  <2>. QED  BY <1>11, <2>6, <2>7, <2>8 DEF PublishCreate
<1>12. CASE Refresh \/ RefreshFails \/ InspectClash \/ Undone
  <2>1. {"committed", "index-stale", "rollback-stale", "recovery-required", "rolled-back"}
           \subseteq ManifestStates
    BY DEF ManifestStates, Rollbackable
  <2>. QED  BY <1>3, <1>12, <2>1 DEF Refresh, RefreshFails, InspectClash, StaleState, Undone
<1>13. CASE ExecuteFails
  <2>1. job.step \in Writing \union {"stage"}
    BY <1>13 DEF ExecuteFails, Writing
  <2>2. job.step # "idle" /\ job.cause = "execute" /\ State(job.act) \in Pending
    BY <1>0, <2>1 DEF JobOK, StateFits, Writing, Pending
  <2>. QED  BY <1>1, <1>2, <1>13, <2>2 DEF ExecuteFails
<1>14. ASSUME NEW k \in Actions, Rollback(k) \/ (RecoverNext /\ k = Min(recovery.queue))  PROVE Typed'
  <2>1. PICK cause \in {"rollback", "recover"} :
           /\ job' = Inspecting(k, cause)
           /\ State(k) \in IF cause = "rollback" THEN Rollbackable ELSE Pending
           /\ writeState = "recovering" <=> cause = "recover"
    <3>1. CASE Rollback(k)
      BY <3>1 DEF Rollback, Ready, State
    <3>2. CASE RecoverNext /\ k = Min(recovery.queue)
      <4>1. recovery.queue \in SUBSET Nat /\ recovery.queue # {}
        BY <1>0, <3>2 DEF RecoverNext, TypeOK, Actions
      <4>2. State(k) \in Pending
        BY <1>0, <3>2, <4>1, MinIs DEF RecoveryOK
      <4>. QED  BY <3>2, <4>2 DEF RecoverNext
    <3>. QED  BY <1>14, <3>1, <3>2
  <2>2. UNCHANGED <<disk, recovery, writeState, bounds>>
    BY <1>14 DEF Rollback, RecoverNext
  <2>3. /\ job' \in Job /\ job'.step = "inspect" /\ job'.act = k /\ job'.cause = cause
        /\ job'.todo = journal[k].targets
    BY <1>0, <2>1, IdleIs
  <2>4. JobOK'
    BY <2>1, <2>2, <2>3 DEF JobOK, StateFits, State, Current, disk, Writing, Undoing
  <2>. QED  BY <1>d, <2>1, <2>2, <2>3, <2>4
<1>15. CASE Inspect
  <2>1. /\ job.step = "inspect" /\ UNCHANGED <<disk, recovery, writeState, bounds>>
        /\ job' = [job EXCEPT !.todo = @ \ {NextTarget},
                      !.clash = @ \/ file[NextTarget] \notin {job.act, Current.base[NextTarget]}]
    BY <1>15 DEF Inspect
  <2>2. job' \in Job
    BY <1>j, <2>1 DEF Job
  <2>3. /\ job'.step = "inspect" /\ job'.act = job.act /\ job'.cause = job.cause
        /\ job'.todo = job.todo \ {NextTarget}
    BY <1>j, <2>1 DEF Job
  <2>4. JobOK'
    BY <1>0, <2>1, <2>3 DEF JobOK, StateFits, State, Current, disk, Writing, Undoing
  <2>. QED  BY <1>0, <1>d, <2>1, <2>2, <2>3, <2>4 DEF RecoveryOK
<1>16. CASE Look
  <2>1. /\ job.step = "look" /\ UNCHANGED <<disk, recovery, writeState, bounds>> /\ job.todo # {}
        /\ job' = [job EXCEPT !.step = "undo", !.seen = file[LastTarget]]
    BY <1>16 DEF Look
  <2>2. file[LastTarget] \in Content
    BY <1>0, <1>t, <2>1 DEF TypeOK
  <2>3. /\ job' \in Job /\ job'.step = "undo" /\ job'.act = job.act /\ job'.cause = job.cause
        /\ job'.todo = job.todo
    BY <1>j, <2>1, <2>2 DEF Job, Steps
  <2>4. JobOK'
    BY <1>0, <2>1, <2>3 DEF JobOK, StateFits, State, Current, disk, Writing, Undoing
  <2>. QED  BY <1>0, <1>d, <2>1, <2>3, <2>4 DEF RecoveryOK
<1>17. CASE Undo
  <2>1. job.step = "undo" /\ job.act \in Actions /\ LastTarget \in Artifacts
    BY <1>0, <1>17, <1>t DEF Undo, JobOK
  <2>2. CASE UnlinkFails
    BY <1>2, <1>17, <2>2 DEF Undo
  <2>3. CASE ~UnlinkFails
    <3>1. Current.pre[LastTarget] \in Content
      BY <1>0, <2>1 DEF TypeOK, Manifest, Current
    <3>2. (IF IsCreate(job.act, LastTarget) THEN Absent ELSE Current.pre[LastTarget]) \in Content
      BY <3>1, ContentIs
    <3>3. file' \in [Artifacts -> Content]
      BY <1>0, <1>17, <2>1, <2>3, <3>2 DEF Undo, TypeOK
    <3>4. stage' \in [Actions -> SUBSET Artifacts]
      BY <1>0, <1>17, <2>1, <2>3 DEF Undo, TypeOK
    <3>5. Proceed("clean", job.todo) /\ journal' = journal /\ job.todo # {}
      BY <1>0, <1>17, <2>1, <2>3 DEF Undo, JobOK
    <3>. QED  BY <1>5, <2>1, <3>3, <3>4, <3>5 DEF Writing, Undoing
  <2>. QED  BY <2>2, <2>3
<1>18. CASE OutsideFails
  BY <1>2, <1>18 DEF OutsideFails
<1>19. CASE RecoverDone
  <2>1. TypeOK'
    BY <1>0, <1>19 DEF RecoverDone, TypeOK, disk, bounds
  <2>2. JobOK' /\ RecoveryOK'
    BY <1>0, <1>19, IdleIs DEF RecoverDone, JobOK, RecoveryOK, StateFits, State, Current, NextTarget, disk
  <2>. QED  BY <2>1, <2>2 DEF Typed
<1>20. CASE Crash
  <2>1. TypeOK'
    BY <1>0, <1>20, IdleIs, SizesAreNat DEF Crash, TypeOK, disk
  <2>2. JobOK' /\ RecoveryOK'
    BY <1>20, IdleIs DEF Crash, JobOK, RecoveryOK, StateFits, State, disk
  <2>. QED  BY <2>1, <2>2 DEF Typed
<1>21. ASSUME NEW a \in Artifacts, NEW c \in {Absent, Original, Edited}, Edit(a, c)  PROVE Typed'
  <2>1. TypeOK'
    BY <1>0, <1>21, SizesAreNat DEF Edit, TypeOK, Content
  <2>2. JobOK' /\ RecoveryOK'
    BY <1>0, <1>21 DEF Edit, JobOK, RecoveryOK, StateFits, State, Current, NextTarget
  <2>. QED  BY <2>1, <2>2 DEF Typed
<1>22. RecoverNext => Min(recovery.queue) \in Actions
  <2>1. RecoverNext => recovery.queue \in SUBSET Nat /\ recovery.queue # {} /\ recovery.queue \in SUBSET Actions
    BY <1>0 DEF RecoverNext, TypeOK, Actions
  <2>. QED  BY <2>1, MinIs
<1>23. CASE Clean
  <2>1. job.step = "clean" /\ job.act \in Actions /\ journal' = journal
        /\ Proceed("look", job.todo \ {LastTarget})
    BY <1>0, <1>23 DEF Clean, JobOK
  <2>2. stage' \in [Actions -> SUBSET Artifacts] /\ file' \in [Artifacts -> Content]
    BY <1>0, <1>23, <2>1 DEF Clean, TypeOK
  <2>. QED  BY <1>5, <2>1, <2>2 DEF Writing, Undoing
<1>24. CASE WrittenThenFails
  <2>1. PICK s \in ManifestStates : Writes(s) /\ SetState(job.act, s)
    BY <1>24 DEF WrittenThenFails
  <2>2. job.step # "idle" /\ AnswerError /\ UNCHANGED <<file, stage>>
    BY <1>24, <2>1 DEF WrittenThenFails, Writes
  <2>3. job.act \in Actions
    BY <1>0, <2>2 DEF JobOK
  <2>4. /\ journal' \in [Actions -> Manifest]
        /\ \A j \in Actions : j # job.act => journal'[j] = journal[j]
    BY <1>0, <2>1, <2>3, StateIsSet
  <2>5. /\ recovery' \in [queue : SUBSET Actions, clash : BOOLEAN]
        /\ recovery'.queue = {}
        /\ writeState' = IF job.cause = "recover" THEN "degraded" ELSE writeState
    BY <1>0, <2>2 DEF AnswerError, TypeOK, RecoveryOK
  <2>6. TypeOK' /\ JobOK'
    BY <1>0, <2>2, <2>4, <2>5, IdleIs DEF AnswerError, TypeOK, JobOK, StateFits, bounds
  <2>7. RecoveryOK'
    BY <1>0, <2>2, <2>5, IdleIs DEF AnswerError, RecoveryOK
  <2>. QED  BY <2>6, <2>7 DEF Typed
<1>. QED  BY <1>6, <1>7, <1>8, <1>9, <1>10, <1>11, <1>12, <1>13, <1>14, <1>15, <1>16, <1>17, <1>18,
             <1>19, <1>20, <1>21, <1>22, <1>23, <1>24 DEF Next, Worker, Execute, UndoAction

\* The steps that read a target.
LEMMA JobReads ==
  ASSUME Typed
  PROVE  /\ job' = [job EXCEPT !.step = "publish", !.seen = file[NextTarget]] =>
               /\ job'.step = "publish" /\ job'.seen = file[NextTarget]
               /\ job'.act = job.act /\ job'.todo = job.todo /\ job'.cause = job.cause
               /\ job'.clash = job.clash
         /\ Look =>
               /\ job'.step = "undo" /\ job'.seen = file[LastTarget]
               /\ job'.act = job.act /\ job'.todo = job.todo /\ job'.cause = job.cause
               /\ job'.clash = job.clash
         /\ Inspect =>
               /\ job'.step = "inspect" /\ job'.todo = job.todo \ {NextTarget}
               /\ job'.act = job.act /\ job'.cause = job.cause
               /\ ~job'.clash => ~job.clash /\ file[NextTarget] \in {job.act, Current.base[NextTarget]}
BY DEF Typed, TypeOK, Job, Look, Inspect

\* TypeOK: types, and the bounds of the model.
THEOREM TypeCorrect == Spec => []TypeOK
<1>1. Typed => TypeOK
  BY DEF Typed
<1>. QED  BY <1>1, TypedInit, TypedNext, PTL DEF Spec

\* Only these steps write to a document.
LEMMA FileSteps ==
  ASSUME Typed, Next
  PROVE  \/ file' = file
         \/ /\ PublishCreate /\ file[NextTarget] = Absent /\ Proceed("unstage", job.todo)
            /\ file' = [file EXCEPT ![NextTarget] = job.act] /\ UNCHANGED <<stage, journal>>
         \/ PublishReplace
         \/ Undo /\ ~UnlinkFails /\ job.seen = job.act
         \/ \E a \in Artifacts, c \in {Absent, Original, Edited} : Edit(a, c)
<1>1. ASSUME NEW k \in Actions, NEW targets \in SUBSET Artifacts, Confirm(k, targets)  PROVE file' = file
  BY <1>1 DEF Confirm
<1>2. CASE Backup \/ WriteManifest \/ WriteStage \/ StartPublishing \/ Check \/ Unstage \/ Commit
           \/ Refresh \/ RefreshFails \/ ExecuteFails
  BY <1>2 DEF Backup, WriteManifest, WriteStage, StartPublishing, Check, Unstage, Commit, Refresh,
              RefreshFails, ExecuteFails, Throw, AnswerError, Abort, EndJob, disk
<1>3. CASE PublishCreate
  BY <1>3 DEF PublishCreate, Abort, disk
<1>4. ASSUME NEW k \in Actions, Rollback(k)  PROVE file' = file
  BY <1>4 DEF Rollback, disk
<1>5. CASE Inspect \/ InspectClash \/ StartUndoing \/ Look \/ Clean \/ Undone \/ OutsideFails
           \/ WrittenThenFails
  BY <1>5 DEF WrittenThenFails, Clean, Inspect, InspectClash, StaleState, StartUndoing, Look, Undone, OutsideFails, Throw, AnswerError, EndJob, disk
<1>6. CASE Undo
  BY <1>6 DEF Undo, Throw, AnswerError, disk
<1>7. CASE RecoverNext \/ RecoverDone \/ Crash
  BY <1>7 DEF RecoverNext, RecoverDone, Crash, disk
<1>. QED  BY <1>1, <1>2, <1>3, <1>4, <1>5, <1>6, <1>7 DEF Next, Worker, Execute, UndoAction

\* SeenEditSurvives: a text of the editor that the worker has read is not replaced and
\* not removed.
THEOREM EditorIsSafe == Spec => SeenEditSurvives
<1>. DEFINE Safe == \A a \in Artifacts :
                       file[a] = Edited /\ file'[a] # Edited /\ edits' = edits
                           => /\ job.seen # Edited \/ job.seen = Current.base[a]
                              /\ job.step \in {"publish", "undo"}
<1>1. ASSUME Typed, Next  PROVE Safe
  <2>1. SUFFICES ASSUME NEW a \in Artifacts, file[a] = Edited, file'[a] # Edited, edits' = edits
                 PROVE  /\ job.seen # Edited \/ job.seen = Current.base[a]
                        /\ job.step \in {"publish", "undo"}
    OBVIOUS
  <2>2. file \in [Artifacts -> Content] /\ JobOK /\ edits \in Int
    BY <1>1, SizesAreNat DEF Typed, TypeOK
  <2>3. CASE file[NextTarget] = Absent /\ file' = [file EXCEPT ![NextTarget] = job.act]
    BY <2>1, <2>2, <2>3 DEF Absent, Edited
  <2>4. CASE PublishReplace
    <3>1. a = NextTarget
      BY <2>1, <2>2, <2>4 DEF PublishReplace
    <3>. QED  BY <2>2, <2>4, <3>1 DEF PublishReplace, JobOK
  <2>5. CASE Undo /\ ~UnlinkFails /\ job.seen = job.act
    <3>1. job.step = "undo" /\ job.act \in Actions
      BY <2>2, <2>5 DEF Undo, JobOK
    <3>. QED  BY <2>5, <3>1, ContentIs DEF Actions, Edited
  <2>6. ASSUME NEW b \in Artifacts, NEW c \in {Absent, Original, Edited}, Edit(b, c)  PROVE FALSE
    BY <2>1, <2>2, <2>6 DEF Edit
  <2>. QED  BY <1>1, <2>1, <2>3, <2>4, <2>5, <2>6, FileSteps
<1>2. ASSUME UNCHANGED vars  PROVE Safe
  BY <1>2 DEF vars
<1>3. Typed /\ [Next]_vars => [Safe]_vars
  BY <1>1, <1>2
<1>. QED  BY <1>3, TypedInit, TypedNext, PTL DEF Spec, SeenEditSurvives

-----------------------------------------------------------------------------
(* Actions are numbered in the order of their confirmations *)

Numbered ==
    /\ \A i, j \in Actions : i < j /\ State(i) = "none" => State(j) = "none"
    /\ job.cause = "execute" => \A j \in Actions : job.act < j => State(j) = "none"

LEMMA NumberedInit == Init => Numbered
BY IdleIs DEF Init, Numbered, State, NoManifest

\* A step that confirms nothing leaves the manifests of the other actions alone; an
\* action keeps its targets and what they held.
LEMMA ManifestSteps ==
  ASSUME Typed, Next,
         \A k \in Actions, targets \in SUBSET Artifacts : ~Confirm(k, targets)
  PROVE  /\ \A k \in Actions : /\ journal'[k].targets = journal[k].targets
                               /\ journal'[k].base = journal[k].base
                               /\ State(k)' = "none" <=> State(k) = "none"
                               /\ k # job.act \/ job.step = "idle" => journal'[k] = journal[k]
                               /\ Backup \/ journal'[k].pre = journal[k].pre
         /\ job'.cause = "execute" => job.cause = "execute" /\ job'.act = job.act
<1>. DEFINE Fine ==
       /\ \A k \in Actions : /\ journal'[k].targets = journal[k].targets
                             /\ journal'[k].base = journal[k].base
                             /\ State(k)' = "none" <=> State(k) = "none"
                             /\ k # job.act \/ job.step = "idle" => journal'[k] = journal[k]
                             /\ Backup \/ journal'[k].pre = journal[k].pre
       /\ job'.cause = "execute" => job.cause = "execute" /\ job'.act = job.act
<1>. SUFFICES Fine
  OBVIOUS
<1>0. TypeOK /\ JobOK /\ job \in Job
  BY DEF Typed, TypeOK
<1>t. /\ job.todo \in SUBSET Artifacts
      /\ job.todo # {} => NextTarget \in job.todo /\ LastTarget \in job.todo
  BY <1>0, Targets
<1>c. ASSUME journal' = journal, job'.cause = "execute" => job.cause = "execute" /\ job'.act = job.act
      PROVE  Fine
  BY <1>c DEF State
<1>d. ASSUME NEW s \in ManifestStates \ {"none"}, SetState(job.act, s), job.step # "idle",
             State(job.act) # "none",
             job'.cause = "execute" => job.cause = "execute" /\ job'.act = job.act
      PROVE  Fine
  <2>1. job.act \in Actions
    BY <1>0, <1>d DEF JobOK
  <2>. QED  BY <1>0, <1>d, <2>1, StateIsSet DEF State
<1>e. job.step # "idle" => job.act \in Actions /\ State(job.act) # "none"
  <2>1. job.step \in Steps
    BY <1>0 DEF Job
  <2>. QED  BY <1>0, <2>1 DEF JobOK, StateFits, Writing, Undoing, Steps, Pending, Rollbackable
<1>f. ASSUME NEW step \in Steps, NEW todo \in SUBSET Artifacts, Proceed(step, todo)
      PROVE  job'.cause = job.cause /\ job'.act = job.act
  BY <1>0, <1>f, JobMoves
<1>1. ASSUME Throw  PROVE Fine
  BY <1>1, <1>c, IdleIs DEF Throw, AnswerError, disk
<1>2. ASSUME Abort, job.cause = "execute", job.step # "idle"  PROVE Fine
  BY <1>0, <1>2, <1>c, <1>e, IdleIs DEF Abort, disk
<1>3. ASSUME NEW s \in ManifestStates \ {"none"}, EndJob(s), job.step # "idle"  PROVE Fine
  BY <1>3, <1>d, <1>e, IdleIs DEF EndJob
<1>4. CASE Backup
  <2>1. job.step = "backup" /\ job.act \in Actions
    BY <1>4, <1>e DEF Backup
  <2>2. CASE journal' = [journal EXCEPT ![job.act].pre[NextTarget] = file[NextTarget]]
             /\ Proceed("backup", job.todo \ {NextTarget})
    <3>1. job'.cause = job.cause /\ job'.act = job.act
      BY <1>f, <1>t, <2>2 DEF Steps
    <3>2. NextTarget \in Artifacts
      BY <1>4, <1>t DEF Backup
    <3>3. \A j \in Actions : j # job.act => journal'[j] = journal[j]
      BY <1>0, <2>1, <2>2 DEF TypeOK
    <3>. QED  BY <1>0, <1>4, <2>1, <2>2, <3>1, <3>2, <3>3, PreimageIs DEF State
  <2>. QED  BY <1>1, <1>4, <2>2 DEF Backup
<1>5. CASE WriteManifest \/ StartPublishing \/ Commit \/ StartUndoing
  <2>1. job.step # "idle" /\ Current.targets \in SUBSET Artifacts
    BY <1>0, <1>5, <1>e DEF WriteManifest, StartPublishing, Commit, StartUndoing, TypeOK, Manifest,
                            Current
  <2>2. /\ \E s \in ManifestStates \ {"none"} : SetState(job.act, s)
        /\ \E step \in Steps, todo \in SUBSET Artifacts : Proceed(step, todo)
    BY <1>5, <2>1 DEF WriteManifest, StartPublishing, Commit, StartUndoing, ManifestStates, Pending,
                      Rollbackable, Steps
  <2>. QED  BY <1>d, <1>e, <1>f, <2>1, <2>2
<1>6. CASE WriteStage \/ Unstage \/ PublishReplace
  <2>1. journal' = journal /\ \E step \in Steps, todo \in SUBSET Artifacts : Proceed(step, todo)
    BY <1>6, <1>t DEF WriteStage, Unstage, PublishReplace, Steps
  <2>. QED  BY <1>c, <1>f, <2>1
<1>7. CASE Check
  <2>1. job.step = "check" /\ job.cause = "execute"
    BY <1>0, <1>7 DEF Check, JobOK, StateFits, Writing
  <2>. QED  BY <1>2, <1>7, <1>c, <2>1, JobReads DEF Check, disk
<1>8. CASE PublishCreate
  <2>1. job.step = "publish" /\ job.cause = "execute"
    BY <1>0, <1>8 DEF PublishCreate, JobOK, StateFits, Writing
  <2>2. CASE journal' = journal /\ Proceed("unstage", job.todo)
    BY <1>c, <1>f, <1>t, <2>2 DEF Steps
  <2>. QED  BY <1>2, <1>8, <2>1, <2>2 DEF PublishCreate
<1>9. CASE Refresh \/ RefreshFails \/ InspectClash \/ Undone
  <2>1. \E s \in ManifestStates \ {"none"} : EndJob(s)
    BY <1>9 DEF Refresh, RefreshFails, InspectClash, StaleState, Undone, ManifestStates, Rollbackable
  <2>. QED  BY <1>3, <1>9, <2>1 DEF Refresh, RefreshFails, InspectClash, StaleState, Undone
<1>10. CASE ExecuteFails
  <2>1. job.step \in Writing \union {"stage"}
    BY <1>10 DEF ExecuteFails, Writing
  <2>2. job.step # "idle" /\ job.cause = "execute"
    BY <1>0, <2>1 DEF JobOK, StateFits, Writing
  <2>. QED  BY <1>1, <1>2, <1>10, <2>2 DEF ExecuteFails
<1>11. ASSUME NEW k \in Actions, NEW cause \in {"rollback", "recover"},
              job' = Inspecting(k, cause), UNCHANGED disk
       PROVE  Fine
  BY <1>0, <1>11, <1>c, IdleIs DEF disk
<1>12. CASE RecoverNext
  <2>1. recovery.queue \in SUBSET Nat /\ recovery.queue # {} /\ recovery.queue \in SUBSET Actions
    BY <1>0, <1>12 DEF RecoverNext, TypeOK, Actions
  <2>. QED  BY <1>11, <1>12, <2>1, MinIs DEF RecoverNext
<1>13. CASE Inspect \/ Look
  BY <1>13, <1>c, JobReads DEF Inspect, Look, disk
<1>14. CASE Undo
  <2>1. CASE ~UnlinkFails
    BY <1>14, <1>c, <1>f, <1>t, <2>1 DEF Undo, Steps
  <2>. QED  BY <1>1, <1>14, <2>1 DEF Undo
<1>19. CASE Clean
  BY <1>19, <1>c, <1>f, <1>t DEF Clean, Steps
<1>20. CASE WrittenThenFails
  <2>1. PICK s \in ManifestStates : Writes(s) /\ SetState(job.act, s)
    BY <1>20 DEF WrittenThenFails
  <2>2. job.step # "idle" /\ s # "none" /\ job' = Idle
    BY <1>20, <2>1 DEF WrittenThenFails, Writes, StaleState, AnswerError
  <2>. QED  BY <1>d, <1>e, <2>1, <2>2, IdleIs
<1>15. CASE OutsideFails
  BY <1>1, <1>15 DEF OutsideFails
<1>16. CASE RecoverDone \/ Crash
  BY <1>16, <1>c, IdleIs DEF RecoverDone, Crash, disk
<1>17. ASSUME NEW a \in Artifacts, NEW c \in {Absent, Original, Edited}, Edit(a, c)  PROVE Fine
  BY <1>17, <1>c DEF Edit
<1>18. ASSUME NEW k \in Actions, Rollback(k)  PROVE Fine
  BY <1>11, <1>18 DEF Rollback
<1>. HIDE DEF Fine
<1>. QED  BY <1>4, <1>5, <1>6, <1>7, <1>8, <1>9, <1>10, <1>12, <1>13, <1>14, <1>15, <1>16,
             <1>17, <1>18, <1>19, <1>20 DEF Next, Worker, Execute, UndoAction

LEMMA NumberedNext == Typed /\ Numbered /\ [Next]_vars => Numbered'
<1>b. ASSUME Numbered, UNCHANGED vars  PROVE Numbered'
  BY <1>b DEF Numbered, State, vars
<1>. SUFFICES ASSUME Typed, Numbered, Next  PROVE Numbered'
  BY <1>b
<1>1. ASSUME NEW k \in Actions, NEW targets \in SUBSET Artifacts, Confirm(k, targets)
      PROVE  Numbered'
  <2>1. journal \in [Actions -> Manifest] /\ Actions \subseteq Nat
    BY ContentIs DEF Typed, TypeOK, Actions
  <2>2. /\ State(k) = "none" /\ \A j \in 1..k - 1 : State(j) # "none"
        /\ \A j \in Actions : j # k => State(j)' = State(j)
    BY <1>1, <2>1 DEF Confirm, State
  <2>3. State(k)' = "unwritten" /\ job'.act = k
    BY <1>1, <2>1 DEF Confirm, State, NoManifest, Idle
  <2>4. \A i, j \in Actions : i < j => i \in 1..j - 1
    BY ContentIs DEF Actions
  <2>. QED  BY <2>1, <2>2, <2>3, <2>4 DEF Numbered
<1>2. CASE \A k \in Actions, targets \in SUBSET Artifacts : ~Confirm(k, targets)
  BY <1>2, ManifestSteps DEF Numbered
<1>. QED  BY <1>1, <1>2

-----------------------------------------------------------------------------
(* What is staged *)

Unsettled == Pending \union {"recovery-required"}

Staged ==
    /\ \A k \in Actions : /\ stage[k] \subseteq journal[k].targets
                          /\ State(k) \notin Unsettled => stage[k] = {}
    /\ job.step \in Writing \union Undoing => stage[job.act] \subseteq job.todo

LEMMA StagedInit == Init => Staged
BY IdleIs DEF Init, Staged, Writing, Undoing

LEMMA StagedNext == Typed /\ Staged /\ [Next]_vars => Staged'
<1>b. ASSUME Staged, UNCHANGED vars  PROVE Staged'
  BY <1>b DEF Staged, State, vars
<1>. SUFFICES ASSUME Typed, Staged, Next  PROVE Staged'
  BY <1>b
<1>0. TypeOK /\ JobOK /\ stage \in [Actions -> SUBSET Artifacts]
  BY DEF Typed, TypeOK
<1>t. /\ job.todo \in SUBSET Artifacts
      /\ job.todo # {} => NextTarget \in job.todo /\ LastTarget \in job.todo
  BY <1>0, Targets
<1>e. job.step # "idle" => job.act \in Actions /\ job.todo \subseteq Current.targets
  BY <1>0 DEF JobOK
\* Neither stages nor manifests change.
<1>c. ASSUME UNCHANGED <<stage, journal>>,
             job'.step \in Writing \union Undoing =>
                 job.step \in Writing \union Undoing /\ job'.act = job.act /\ job'.todo = job.todo
      PROVE  Staged'
  BY <1>c DEF Staged, State
\* The state of the action changes.
<1>d. ASSUME NEW s \in ManifestStates, SetState(job.act, s), stage' = stage, job.step # "idle",
             s \in Unsettled \/ stage[job.act] = {},
             job'.step \in Writing \union Undoing =>
                 job'.act = job.act /\ Current.targets \subseteq job'.todo
      PROVE  Staged'
  <2>1. /\ job.act \in Actions
        /\ \A j \in Actions : /\ journal'[j].targets = journal[j].targets
                              /\ j = job.act => State(j)' = s
                              /\ j # job.act => State(j)' = State(j)
    <3>1. TypeOK /\ job.act \in Actions /\ SetState(job.act, s) /\ s \in ManifestStates
      BY <1>0, <1>d, <1>e
    <3>2. /\ journal'[job.act].state = s
          /\ \A j \in Actions : j # job.act => journal'[j] = journal[j]
          /\ \A j \in Actions : journal'[j].targets = journal[j].targets
      BY <3>1, StateIsSet
    <3>. QED  BY <3>1, <3>2 DEF State
  <2>2. ASSUME NEW k \in Actions
        PROVE  stage'[k] \subseteq journal'[k].targets /\ (State(k)' \notin Unsettled => stage'[k] = {})
    <3>1. stage'[k] = stage[k] /\ stage[k] \subseteq journal'[k].targets
      BY <1>d, <2>1 DEF Staged
    <3>2. CASE k = job.act
      BY <1>d, <2>1, <3>1, <3>2
    <3>3. CASE k # job.act
      <4>1. State(k)' = State(k)
        BY <2>1, <3>3
      <4>. QED  BY <3>1, <4>1 DEF Staged
    <3>. QED  BY <3>1, <3>2, <3>3
  <2>3. job'.step \in Writing \union Undoing => stage'[job'.act] \subseteq job'.todo
    BY <1>d, <2>1 DEF Staged, Current
  <2>. QED  BY <2>2, <2>3 DEF Staged
\* A staged output is written, published or removed.
<1>f. ASSUME NEW step \in Steps, NEW t \in job.todo, Proceed(step, job.todo \ {t}),
             journal' = journal, job.step # "idle",
             \/ /\ job.step \in Writing \union Undoing
                /\ stage' = [stage EXCEPT ![job.act] = @ \ {t}]
             \/ /\ job.step = "stage" /\ step = "stage"
                /\ stage' = [stage EXCEPT ![job.act] = @ \union {t}]
      PROVE  Staged'
  <2>1. job'.step = step /\ job'.act = job.act /\ job'.todo = job.todo \ {t}
    BY <1>0, <1>f, <1>t, JobMoves
  <2>2. job.step = "stage" => State(job.act) \in Unsettled /\ step \notin Writing \union Undoing
    BY <1>0, <1>f DEF JobOK, StateFits, Unsettled, Pending, Writing, Undoing
  <2>3. job.act \in Actions /\ t \in journal[job.act].targets
    BY <1>e, <1>f DEF Current
  <2>4. \A k \in Actions : /\ stage'[k] \subseteq journal'[k].targets
                           /\ State(k)' \notin Unsettled => stage'[k] = {}
    BY <1>0, <1>f, <2>2, <2>3 DEF Staged, State
  <2>5. job'.step \in Writing \union Undoing => stage'[job'.act] \subseteq job'.todo
    BY <1>0, <1>f, <2>1, <2>2, <2>3 DEF Staged
  <2>. QED  BY <2>4, <2>5 DEF Staged
<1>n. {"idle", "inspect", "backup", "stage", "refresh"} \cap (Writing \union Undoing) = {}
  BY DEF Writing, Undoing
<1>s. {"preparing", "publishing", "rolling-back", "recovery-required"} \subseteq Unsettled \cap ManifestStates
      /\ {"committed", "index-stale", "rollback-stale", "rolled-back"} \subseteq ManifestStates
  BY DEF Unsettled, Pending, ManifestStates, Rollbackable
<1>1. ASSUME Throw  PROVE Staged'
  BY <1>1, <1>c, <1>n, IdleIs DEF Throw, AnswerError, disk
<1>2. ASSUME Abort, job.step # "idle"  PROVE Staged'
  BY <1>0, <1>2, <1>c, <1>e, <1>n, IdleIs DEF Abort, disk
<1>3. ASSUME NEW k \in Actions, NEW targets \in SUBSET Artifacts, Confirm(k, targets)  PROVE Staged'
  <2>1. /\ State(k) = "none" /\ stage' = stage /\ journal \in [Actions -> Manifest]
        /\ \A j \in Actions : j # k => journal'[j] = journal[j]
    BY <1>0, <1>3 DEF Confirm, State, TypeOK
  <2>2. stage[k] = {}
    BY <2>1 DEF Staged, Unsettled, Pending
  <2>3. job'.step = "backup"
    BY <1>3 DEF Confirm, Idle
  <2>. QED  BY <1>n, <2>1, <2>2, <2>3 DEF Staged, State
<1>4. CASE Backup
  <2>1. job.act \in Actions /\ NextTarget \in Artifacts
    BY <1>4, <1>e, <1>t DEF Backup
  <2>2. CASE journal' = [journal EXCEPT ![job.act].pre[NextTarget] = file[NextTarget]]
             /\ Proceed("backup", job.todo \ {NextTarget}) /\ stage' = stage
    <3>1. job'.step = "backup"
      BY <1>0, <1>t, <2>2, JobMoves DEF Steps
    <3>2. \A j \in Actions : journal'[j].state = journal[j].state /\ journal'[j].targets = journal[j].targets
      BY <1>0, <2>1, <2>2, PreimageIs
    <3>. QED  BY <1>n, <2>2, <3>1, <3>2 DEF Staged, State
  <2>. QED  BY <1>1, <1>4, <2>2 DEF Backup
<1>5. CASE WriteManifest \/ StartPublishing \/ StartUndoing
  <2>1. job.step # "idle" /\ Current.targets \in SUBSET Artifacts
    BY <1>0, <1>5, <1>e DEF WriteManifest, StartPublishing, StartUndoing, TypeOK, Manifest, Current
  <2>2. \E s \in Unsettled \cap ManifestStates : SetState(job.act, s)
    BY <1>5, <1>s DEF WriteManifest, StartPublishing, StartUndoing
  <2>3. stage' = stage /\ \E step \in Steps : Proceed(step, Current.targets)
    BY <1>5 DEF WriteManifest, StartPublishing, StartUndoing, Steps
  <2>4. job'.act = job.act /\ job'.todo = Current.targets
    BY <1>0, <2>1, <2>3, JobMoves
  <2>. QED  BY <1>d, <2>1, <2>2, <2>3, <2>4
<1>6. CASE Commit
  <2>1. /\ job.step = "check" /\ job.todo = {} /\ SetState(job.act, "committed")
        /\ Proceed("refresh", {}) /\ stage' = stage
    BY <1>6 DEF Commit
  <2>2. job'.step = "refresh"
    BY <1>0, <2>1, JobMoves DEF Steps
  <2>3. stage[job.act] = {}
    BY <2>1 DEF Staged, Writing
  <2>. QED  BY <1>d, <1>n, <1>s, <2>1, <2>2, <2>3
<1>7. CASE Refresh \/ RefreshFails \/ InspectClash \/ Undone
  <2>1. job.step # "idle" /\ stage' = stage /\ job'.step = "idle"
    BY <1>7, IdleIs DEF Refresh, RefreshFails, InspectClash, StaleState, Undone, EndJob
  <2>2. CASE Refresh \/ RefreshFails
    <3>1. stage[job.act] = {}
      BY <1>0, <1>e, <2>1, <2>2 DEF Refresh, RefreshFails, JobOK, StateFits, Staged, Unsettled, Pending
    <3>2. SetState(job.act, "committed") \/ SetState(job.act, "index-stale")
      BY <2>2 DEF Refresh, RefreshFails, EndJob
    <3>. QED  BY <1>d, <1>n, <1>s, <2>1, <3>1, <3>2
  <2>3. CASE InspectClash
    <3>1. job.cause = "rollback" => stage[job.act] = {}
      BY <1>0, <1>e, <2>1, <2>3 DEF InspectClash, StaleState, JobOK, StateFits, Staged, Unsettled, Pending, Rollbackable
    <3>2. CASE job.cause = "rollback"
      BY <1>d, <1>n, <1>s, <2>1, <2>3, <3>1, <3>2 DEF InspectClash, StaleState, EndJob
    <3>3. CASE job.cause # "rollback"
      BY <1>d, <1>n, <1>s, <2>1, <2>3, <3>3 DEF InspectClash, StaleState, EndJob
    <3>. QED  BY <3>2, <3>3
  <2>4. CASE Undone
    <3>1. stage[job.act] = {} /\ SetState(job.act, "rolled-back")
      BY <2>4 DEF Undone, EndJob, Staged, Undoing
    <3>. QED  BY <1>d, <1>n, <1>s, <2>1, <3>1
  <2>. QED  BY <1>7, <2>2, <2>3, <2>4
<1>8. CASE WriteStage
  BY <1>8, <1>f, <1>t DEF WriteStage, Steps
<1>9. CASE Unstage \/ PublishReplace
  <2>1. job.step \in {"publish", "unstage"} /\ NextTarget \in job.todo
    BY <1>0, <1>9, <1>t DEF Unstage, PublishReplace, JobOK
  <2>. QED  BY <1>9, <1>f, <2>1 DEF Unstage, PublishReplace, Steps, Writing
<1>10. CASE Undo
  <2>1. job.step = "undo" /\ LastTarget \in job.todo
    BY <1>0, <1>10, <1>t DEF Undo, JobOK
  <2>2. CASE ~UnlinkFails
    <3>1. UNCHANGED <<stage, journal>> /\ Proceed("clean", job.todo)
      BY <1>10, <2>2 DEF Undo
    <3>2. job'.act = job.act /\ job'.todo = job.todo
      BY <1>0, <1>t, <3>1, JobMoves DEF Steps
    <3>. QED  BY <1>c, <2>1, <3>1, <3>2 DEF Undoing
  <2>. QED  BY <1>1, <1>10, <2>2 DEF Undo
<1>21. CASE Clean
  <2>1. job.step = "clean" /\ LastTarget \in job.todo
    BY <1>0, <1>21, <1>t DEF Clean, JobOK
  <2>. QED  BY <1>21, <1>f, <2>1 DEF Clean, Steps, Undoing
<1>22. CASE WrittenThenFails
  <2>1. PICK s \in ManifestStates : Writes(s) /\ SetState(job.act, s)
    BY <1>22 DEF WrittenThenFails
  <2>2. job.step # "idle" /\ stage' = stage /\ job'.step = "idle"
    BY <1>22, <2>1, IdleIs DEF WrittenThenFails, Writes, AnswerError
  <2>3. CASE job.step \in {"check", "look"}
    <3>1. job.todo = {} /\ job.step \in Writing \union Undoing
      BY <2>1, <2>3 DEF Writes, Writing, Undoing
    <3>2. stage[job.act] = {}
      BY <3>1 DEF Staged
    <3>. QED  BY <1>d, <1>n, <2>1, <2>2, <3>2
  <2>4. CASE job.step = "inspect" /\ job.cause = "rollback"
    <3>1. stage[job.act] = {}
      BY <1>0, <1>e, <2>4 DEF JobOK, StateFits, Staged, Unsettled, Pending, Rollbackable
    <3>. QED  BY <1>d, <1>n, <2>1, <2>2, <3>1
  <2>5. CASE ~(job.step \in {"check", "look"}) /\ ~(job.step = "inspect" /\ job.cause = "rollback")
    <3>1. s \in Unsettled
      BY <1>s, <2>1, <2>5 DEF Writes, StaleState
    <3>. QED  BY <1>d, <1>n, <2>1, <2>2, <3>1
  <2>. QED  BY <2>3, <2>4, <2>5
<1>11. CASE Check
  <2>1. job.step = "check"
    BY <1>11 DEF Check
  <2>. QED  BY <1>2, <1>11, <1>c, <2>1, JobReads DEF Check, disk, Writing
<1>12. CASE PublishCreate
  <2>1. job.step = "publish"
    BY <1>12 DEF PublishCreate
  <2>2. CASE UNCHANGED <<stage, journal>> /\ Proceed("unstage", job.todo)
    <3>1. job'.act = job.act /\ job'.todo = job.todo
      BY <1>0, <1>t, <2>2, JobMoves DEF Steps
    <3>. QED  BY <1>c, <2>1, <2>2, <3>1 DEF Writing
  <2>. QED  BY <1>2, <1>12, <2>1, <2>2 DEF PublishCreate
<1>13. CASE ExecuteFails \/ OutsideFails
  <2>1. job.step # "idle"
    BY <1>13 DEF ExecuteFails, OutsideFails
  <2>. QED  BY <1>1, <1>2, <1>13, <2>1 DEF ExecuteFails, OutsideFails
<1>14. ASSUME NEW k \in Actions, NEW cause \in {"rollback", "recover"},
              job' = Inspecting(k, cause), UNCHANGED disk
       PROVE  Staged'
  BY <1>0, <1>14, <1>c, <1>n, IdleIs DEF disk
<1>15. CASE RecoverNext
  <2>1. recovery.queue \in SUBSET Nat /\ recovery.queue # {} /\ recovery.queue \in SUBSET Actions
    BY <1>0, <1>15 DEF RecoverNext, TypeOK, Actions
  <2>. QED  BY <1>14, <1>15, <2>1, MinIs DEF RecoverNext
<1>16. CASE Inspect
  BY <1>16, <1>c, <1>n, JobReads DEF Inspect, disk
<1>17. CASE Look
  BY <1>17, <1>c, JobReads DEF Look, disk, Undoing
<1>18. CASE RecoverDone \/ Crash
  BY <1>18, <1>c, <1>n, IdleIs DEF RecoverDone, Crash, disk
<1>19. ASSUME NEW a \in Artifacts, NEW c \in {Absent, Original, Edited}, Edit(a, c)  PROVE Staged'
  BY <1>19, <1>c DEF Edit
<1>20. ASSUME NEW k \in Actions, Rollback(k)  PROVE Staged'
  BY <1>14, <1>20 DEF Rollback
<1>. QED  BY <1>3, <1>4, <1>5, <1>6, <1>7, <1>8, <1>9, <1>10, <1>11, <1>12, <1>13, <1>15, <1>16,
             <1>17, <1>18, <1>19, <1>20, <1>21, <1>22 DEF Next, Worker, Execute, UndoAction

-----------------------------------------------------------------------------
(* The outputs in a document *)

Live == Pending \union Rollbackable \union {"recovery-required"}
Before(a) == IF a \in Existing THEN Original ELSE Absent

\* c are the actions whose outputs are in a or under another: all that were not rolled
\* back, with the newest in the document, and each has the one before it for its base.
ChainOf(a, c) ==
    /\ \A k \in c : State(k) \in Live /\ a \in journal[k].targets
    /\ Kept(a) \subseteq c
    /\ file[a] \in c \union {Before(a)}
    /\ \A k \in c : k <= file[a]
    /\ \A k \in c : /\ journal[k].base[a] \in c \union {Before(a)}
                    /\ \A j \in c : j < k => j <= journal[k].base[a]

Chains == \A a \in Artifacts : \E c \in SUBSET Actions : ChainOf(a, c)

\* A base is older than its action, and a backup holds it.
Backups ==
    \A k \in Actions : \A a \in journal[k].targets :
        /\ journal[k].base[a] < k
        /\ State(k) \in Live /\ ~IsCreate(k, a) => journal[k].pre[a] = journal[k].base[a]

Fit(k, a) == file[a] \in {k, journal[k].base[a]}
AsFound(k, a) == file[a] = journal[k].base[a]

\* How far the job has come: which targets are as they were found, and which hold its output.
Progress ==
    /\ job.step = "backup" =>
          \A a \in Current.targets :
             /\ AsFound(job.act, a)
             /\ a \notin job.todo /\ ~IsCreate(job.act, a) => Current.pre[a] = Current.base[a]
    /\ job.step = "stage" => \A a \in Current.targets : AsFound(job.act, a)
    /\ job.step \in Writing =>
          \A a \in Current.targets :
             IF a \in job.todo /\ ~(job.step = "unstage" /\ a = NextTarget)
             THEN AsFound(job.act, a) ELSE file[a] = job.act
    /\ job.step = "inspect" /\ ~job.clash => \A a \in Current.targets \ job.todo : Fit(job.act, a)
    /\ job.step \in Undoing =>
          \A a \in Current.targets :
             IF a \in job.todo /\ ~(job.step = "clean" /\ a = LastTarget)
             THEN Fit(job.act, a) ELSE AsFound(job.act, a)
    /\ job.step = "undo" => job.seen = file[LastTarget]

Traced == edits = 0 => Chains /\ Backups /\ Progress

LEMMA ActionsAreNat == \A k \in Actions : k \in Nat /\ k > 0 /\ \A a \in Artifacts : k # Before(a)
BY ContentIs DEF Actions, Before, Original, Absent

LEMMA ChainStays ==
  ASSUME TypeOK, NEW a \in Artifacts, NEW c \in SUBSET Actions, ChainOf(a, c), file'[a] = file[a],
         \A k \in Actions : State(k) \in Live /\ a \in journal[k].targets =>
             /\ journal'[k].targets = journal[k].targets /\ journal'[k].base = journal[k].base
             /\ State(k)' \in Live \/ file[a] < k,
         \A k \in Actions : State(k)' \in Rollbackable /\ a \in journal'[k].targets =>
             k \in Kept(a) \/ file[a] = k
  PROVE  ChainOf(a, c)'
<1>0. /\ file[a] \in Int /\ \A k \in Actions : k \in Nat /\ k # Before(a)
  BY ContentIs, ActionsAreNat DEF TypeOK, Content, Original, Edited, Absent, Actions
<1>1. \A k \in c : /\ State(k)' \in Live /\ a \in journal'[k].targets
                   /\ journal'[k].base = journal[k].base
  BY <1>0 DEF ChainOf
<1>2. Kept(a)' \subseteq c
  BY <1>0 DEF ChainOf, Kept, State
<1>. QED  BY <1>1, <1>2 DEF ChainOf, Before

LEMMA ChainGrows ==
  ASSUME TypeOK, NEW a \in Artifacts, NEW c \in SUBSET Actions, ChainOf(a, c), NEW k \in Actions,
         State(k) \in Live, a \in journal[k].targets, AsFound(k, a),
         \A j \in Actions : k < j => State(j) \notin Live,
         file'[a] = k, journal' = journal
  PROVE  ChainOf(a, c \union {k})'
<1>0. \A j \in Actions : j \in Nat
  BY ActionsAreNat
<1>1. \A j \in c : j <= k
  BY <1>0 DEF ChainOf
<1>2. Kept(a)' \subseteq c \union {k}
  BY DEF ChainOf, Kept
<1>3. \A i \in c \union {k} : /\ State(i)' \in Live /\ a \in journal'[i].targets
                              /\ i <= file'[a]
  BY <1>0, <1>1 DEF ChainOf, State
<1>4. /\ journal'[k].base[a] \in c \union {Before(a)}
      /\ \A j \in c \union {k} : j < k => j <= journal'[k].base[a]
  BY <1>0 DEF ChainOf, AsFound
<1>5. ASSUME NEW i \in c
      PROVE  /\ journal'[i].base[a] \in c \union {Before(a)}
             /\ \A j \in c \union {k} : j < i => j <= journal'[i].base[a]
  BY <1>0, <1>1 DEF ChainOf
<1>6. \A i \in c \union {k} : /\ journal'[i].base[a] \in c \union {k} \union {Before(a)}
                              /\ \A j \in c \union {k} : j < i => j <= journal'[i].base[a]
  BY <1>4, <1>5
<1>7. file'[a] \in c \union {k} \union {Before(a)}
  OBVIOUS
<1>. QED  BY <1>2, <1>3, <1>6, <1>7 DEF ChainOf, Before

LEMMA ChainShrinks ==
  ASSUME TypeOK, Backups, NEW a \in Artifacts, NEW c \in SUBSET Actions, ChainOf(a, c), NEW k \in Actions,
         file[a] = k, State(k) \notin Rollbackable,
         file'[a] = journal[k].base[a], journal' = journal
  PROVE  ChainOf(a, c \ {k})'
<1>0. \A j \in Actions : /\ j \in Nat /\ j # Before(a)
                         /\ journal[j].base[a] \in Int
  <2>1. \A j \in Actions : journal[j].base[a] \in Content
    BY DEF TypeOK, Manifest
  <2>2. Content \subseteq Int
    BY ContentIs DEF Content, Original, Edited, Absent, Actions
  <2>. QED  BY <2>1, <2>2, ActionsAreNat
<1>1. k \in c
  BY <1>0 DEF ChainOf
<1>2. \A j \in c : j <= k /\ journal[j].base[a] < j
  BY DEF ChainOf, Backups
<1>3. Kept(a)' \subseteq c \ {k}
  BY DEF ChainOf, Kept, State
<1>4. file'[a] \in (c \ {k}) \union {Before(a)}
  BY <1>0, <1>1, <1>2 DEF ChainOf
<1>5. \A j \in c \ {k} : j <= file'[a]
  BY <1>0, <1>1, <1>2 DEF ChainOf
<1>6. \A i \in c \ {k} : /\ journal'[i].base[a] \in (c \ {k}) \union {Before(a)}
                         /\ \A j \in c \ {k} : j < i => j <= journal'[i].base[a]
  BY <1>0, <1>2 DEF ChainOf
<1>7. \A i \in c \ {k} : State(i)' \in Live /\ a \in journal'[i].targets
  BY DEF ChainOf, State
<1>. QED  BY <1>3, <1>4, <1>5, <1>6, <1>7 DEF ChainOf, Before

LEMMA TracedInit == Init => Traced
<1>. SUFFICES ASSUME Init  PROVE Chains /\ Backups /\ Progress
  BY DEF Traced
<1>1. ASSUME NEW a \in Artifacts  PROVE ChainOf(a, {})
  BY <1>1 DEF Init, ChainOf, Kept, Before, NoManifest, Rollbackable
<1>2. Backups
  BY DEF Init, Backups, NoManifest
<1>3. Progress
  BY IdleIs DEF Init, Progress, Writing, Undoing
<1>. QED  BY <1>1, <1>2, <1>3, Zenon DEF Chains

\* What a job has done tells whether its output is in a document.
LEMMA ChainsNext ==
  ASSUME Typed, Numbered, Chains, Backups, Progress, Next, edits' = edits
  PROVE  Chains'
<1>0. /\ TypeOK /\ JobOK /\ journal \in [Actions -> Manifest]
      /\ file \in [Artifacts -> Content]
  BY DEF Typed, TypeOK
<1>t. /\ job.todo \in SUBSET Artifacts
      /\ job.todo # {} => NextTarget \in job.todo /\ LastTarget \in job.todo
  BY <1>0, Targets
<1>e. job.step # "idle" => /\ job.act \in Actions /\ job.todo \subseteq Current.targets
                           /\ Current.targets \in SUBSET Artifacts
  BY <1>0 DEF JobOK, Manifest, Current
<1>a. ASSUME NEW a \in Artifacts  PROVE \E c \in SUBSET Actions : ChainOf(a, c)
  BY <1>a DEF Chains
\* Neither documents nor manifests change.
<1>c. ASSUME journal' = journal, file' = file  PROVE Chains'
  BY <1>c DEF Chains, ChainOf, Kept, Before, State
\* The state of the action changes.
<1>d. ASSUME NEW s \in ManifestStates, SetState(job.act, s), file' = file, job.step # "idle",
             State(job.act) \in Live =>
                 s \in Live \/ \A a \in Current.targets : file[a] < job.act,
             s \in Rollbackable =>
                 State(job.act) \in Rollbackable \/ \A a \in Current.targets : file[a] = job.act
      PROVE  Chains'
  <2>1. TypeOK /\ job.act \in Actions /\ SetState(job.act, s) /\ s \in ManifestStates
    BY <1>0, <1>d, <1>e
  <2>2. /\ journal'[job.act].state = s
        /\ \A k \in Actions : k # job.act => journal'[k] = journal[k]
        /\ \A k \in Actions : /\ journal'[k].targets = journal[k].targets
                              /\ journal'[k].base = journal[k].base
    BY <2>1, StateIsSet
  <2>3. ASSUME NEW a \in Artifacts  PROVE \E c \in SUBSET Actions : ChainOf(a, c)'
    <3>1. PICK c \in SUBSET Actions : ChainOf(a, c)
      BY <1>a
    <3>2. \A k \in Actions : State(k) \in Live /\ a \in journal[k].targets =>
              /\ journal'[k].targets = journal[k].targets /\ journal'[k].base = journal[k].base
              /\ State(k)' \in Live \/ file[a] < k
      BY <1>d, <2>1, <2>2 DEF State, Current
    <3>3. \A k \in Actions : State(k)' \in Rollbackable /\ a \in journal'[k].targets =>
              k \in Kept(a) \/ file[a] = k
      BY <1>d, <2>1, <2>2 DEF State, Current, Kept
    <3>4. ChainOf(a, c)'
      BY <1>0, <1>d, <3>1, <3>2, <3>3, ChainStays
    <3>. QED  BY <3>4
  <2>. QED  BY <2>3 DEF Chains
<1>1. ASSUME Throw \/ Abort  PROVE Chains'
  BY <1>1, <1>c DEF Throw, AnswerError, Abort, disk
<1>2. ASSUME NEW a \in Artifacts, NEW x, file' = [file EXCEPT ![a] = x], journal' = journal,
             \E c \in SUBSET Actions : ChainOf(a, c)'
      PROVE  Chains'
  <2>1. ASSUME NEW b \in Artifacts, b # a  PROVE \E c \in SUBSET Actions : ChainOf(b, c)'
    <3>1. PICK c \in SUBSET Actions : ChainOf(b, c)
      BY <1>a
    <3>2. file'[b] = file[b]
      BY <1>0, <1>2, <2>1
    <3>3. ChainOf(b, c)'
      BY <1>2, <3>1, <3>2 DEF ChainOf, Kept, Before, State
    <3>. QED  BY <3>3
  <2>. QED  BY <1>2, <2>1 DEF Chains
<1>3. ASSUME NEW k \in Actions, NEW targets \in SUBSET Artifacts, Confirm(k, targets)  PROVE Chains'
  <2>1. /\ State(k) = "none" /\ file' = file /\ State(k)' = "unwritten"
        /\ \A j \in Actions : j # k => journal'[j] = journal[j]
    BY <1>0, <1>3 DEF Confirm, State, NoManifest
  <2>2. ASSUME NEW a \in Artifacts  PROVE \E c \in SUBSET Actions : ChainOf(a, c)'
    <3>1. PICK c \in SUBSET Actions : ChainOf(a, c)
      BY <1>a
    <3>n. {"none", "unwritten"} \cap (Live \union Rollbackable) = {}
      BY DEF Live, Pending, Rollbackable
    <3>2. \A j \in Actions : State(j) \in Live /\ a \in journal[j].targets =>
              /\ journal'[j].targets = journal[j].targets /\ journal'[j].base = journal[j].base
              /\ State(j)' \in Live \/ file[a] < j
      BY <2>1, <3>n DEF State
    <3>3. \A j \in Actions : State(j)' \in Rollbackable /\ a \in journal'[j].targets =>
              j \in Kept(a) \/ file[a] = j
      BY <2>1, <3>n DEF State, Kept
    <3>4. ChainOf(a, c)'
      BY <1>0, <2>1, <3>1, <3>2, <3>3, ChainStays
    <3>. QED  BY <3>4
  <2>. QED  BY <2>2 DEF Chains
<1>4. CASE Backup
  <2>1. job.act \in Actions /\ NextTarget \in Artifacts
    BY <1>4, <1>e, <1>t DEF Backup
  <2>2. CASE journal' = [journal EXCEPT ![job.act].pre[NextTarget] = file[NextTarget]] /\ file' = file
    <3>1. \A j \in Actions : /\ journal'[j].state = journal[j].state
                             /\ journal'[j].targets = journal[j].targets
                             /\ journal'[j].base = journal[j].base
      BY <1>0, <2>1, <2>2, PreimageIs
    <3>2. ASSUME NEW a \in Artifacts, NEW c \in SUBSET Actions, ChainOf(a, c)  PROVE ChainOf(a, c)'
      BY <1>0, <2>2, <3>1, <3>2 DEF ChainOf, Kept, Before, State
    <3>. QED  BY <1>a, <3>2 DEF Chains
  <2>. QED  BY <1>1, <1>4, <2>2 DEF Backup
<1>n. /\ {"preparing", "publishing", "rolling-back", "recovery-required", "committed", "index-stale",
          "rollback-stale"} \subseteq Live \cap ManifestStates
      /\ "rolled-back" \in ManifestStates \ Rollbackable
      /\ {"preparing", "publishing", "rolling-back", "recovery-required"} \cap Rollbackable = {}
      /\ {"committed", "index-stale", "rollback-stale"} = Rollbackable
  BY DEF Live, Pending, ManifestStates, Rollbackable
<1>5. CASE WriteManifest \/ StartPublishing \/ StartUndoing
  <2>1. /\ job.step # "idle" /\ file' = file
        /\ \E s \in {"preparing", "publishing", "rolling-back"} : SetState(job.act, s)
    BY <1>5 DEF WriteManifest, StartPublishing, StartUndoing
  <2>. QED  BY <1>d, <1>n, <2>1
<1>6. CASE Commit
  <2>1. /\ job.step = "check" /\ job.todo = {} /\ SetState(job.act, "committed") /\ file' = file
    BY <1>6 DEF Commit
  <2>2. \A a \in Current.targets : file[a] = job.act
    BY <2>1 DEF Progress, Writing
  <2>. QED  BY <1>d, <1>n, <2>1, <2>2
<1>7. CASE Refresh \/ RefreshFails
  <2>1. job.step = "refresh" /\ file' = file
    BY <1>7 DEF Refresh, RefreshFails, EndJob
  <2>2. \E s \in {"committed", "index-stale"} : SetState(job.act, s)
    BY <1>7 DEF Refresh, RefreshFails, EndJob
  <2>3. State(job.act) \in Rollbackable
    BY <1>0, <1>n, <2>1 DEF JobOK, StateFits
  <2>. QED  BY <1>d, <1>n, <2>1, <2>2, <2>3
<1>8. CASE InspectClash
  <2>1. job.step = "inspect" /\ file' = file
    BY <1>8 DEF InspectClash, StaleState, EndJob
  <2>2. CASE job.cause = "rollback" /\ SetState(job.act, "rollback-stale")
    <3>1. State(job.act) \in Rollbackable
      BY <1>0, <2>1, <2>2 DEF JobOK, StateFits
    <3>. QED  BY <1>d, <1>n, <2>1, <2>2, <3>1
  <2>3. CASE SetState(job.act, "recovery-required")
    BY <1>d, <1>n, <2>1, <2>3
  <2>. QED  BY <1>8, <2>2, <2>3 DEF InspectClash, StaleState, EndJob
<1>9. CASE Undone
  <2>1. job.step = "look" /\ job.todo = {} /\ file' = file /\ SetState(job.act, "rolled-back")
    BY <1>9 DEF Undone, EndJob
  <2>2. \A a \in Current.targets : file[a] < job.act
    BY <1>e, <2>1 DEF Progress, Undoing, Backups, AsFound, Current
  <2>. QED  BY <1>d, <1>n, <2>1, <2>2
<1>10. CASE WriteStage \/ Check \/ Unstage \/ ExecuteFails \/ Inspect \/ Look \/ Clean \/ OutsideFails
            \/ RecoverNext \/ RecoverDone \/ Crash
  <2>1. CASE journal' = journal /\ file' = file
    BY <1>c, <2>1
  <2>. QED  BY <1>1, <1>10, <2>1 DEF WriteStage, Check, Unstage, ExecuteFails, Inspect, Look, Clean,
                OutsideFails, RecoverNext, RecoverDone, Crash, disk
\* The newest action publishes.
<1>11. ASSUME job.step = "publish", file' = [file EXCEPT ![NextTarget] = job.act], journal' = journal
       PROVE  Chains'
  <2>1. /\ job.act \in Actions /\ NextTarget \in job.todo /\ NextTarget \in Artifacts
        /\ NextTarget \in journal[job.act].targets
    BY <1>0, <1>11, <1>e, <1>t DEF JobOK, Current
  <2>2. /\ State(job.act) \in Live /\ job.cause = "execute"
    BY <1>0, <1>11, <1>n DEF JobOK, StateFits, Writing
  <2>3. \A j \in Actions : job.act < j => State(j) \notin Live
    BY <2>2 DEF Numbered, Live, Pending, Rollbackable
  <2>4. AsFound(job.act, NextTarget)
    BY <1>11, <2>1 DEF Progress, Writing, Current
  <2>5. PICK c \in SUBSET Actions : ChainOf(NextTarget, c)
    BY <1>a, <2>1
  <2>6. file'[NextTarget] = job.act
    BY <1>0, <1>11, <2>1
  <2>. DEFINE k == job.act
              a == NextTarget
  <2>7. /\ k \in Actions /\ a \in Artifacts /\ State(k) \in Live /\ a \in journal[k].targets
        /\ AsFound(k, a) /\ file'[a] = k /\ ChainOf(a, c)
        /\ \A j \in Actions : k < j => State(j) \notin Live
    BY <2>1, <2>2, <2>3, <2>4, <2>5, <2>6
  <2>8. PICK b \in Artifacts, i \in Actions : b = NextTarget /\ i = job.act
    BY <2>1
  <2>9. ChainOf(b, c \union {i})'
    BY <1>0, <1>11, <2>7, <2>8, ChainGrows
  <2>10. c \union {i} \in SUBSET Actions
    OBVIOUS
  <2>11. \E d \in SUBSET Actions : ChainOf(b, d)'
    BY <2>9, <2>10
  <2>12. file' = [file EXCEPT ![b] = i]
    BY <1>11, <2>8
  <2>. QED  BY <1>2, <1>11, <2>11, <2>12
<1>12. CASE PublishCreate
  <2>1. job.step = "publish"
    BY <1>12 DEF PublishCreate
  <2>. QED  BY <1>1, <1>11, <1>12, <2>1 DEF PublishCreate
<1>13. CASE PublishReplace
  BY <1>11, <1>13 DEF PublishReplace
<1>14. CASE Undo
  <2>1. /\ job.step = "undo" /\ job.act \in Actions /\ LastTarget \in job.todo
        /\ LastTarget \in Artifacts /\ LastTarget \in journal[job.act].targets
    BY <1>0, <1>14, <1>e, <1>t DEF Undo, JobOK, Current
  <2>2. /\ job.seen = file[LastTarget] /\ State(job.act) = "rolling-back"
    BY <1>0, <2>1 DEF Progress, JobOK, StateFits, Undoing
  <2>3. CASE UnlinkFails
    BY <1>1, <1>14, <2>3 DEF Undo
  <2>4. CASE ~UnlinkFails /\ job.seen # job.act
    BY <1>14, <1>c, <2>4 DEF Undo
  <2>5. CASE ~UnlinkFails /\ job.seen = job.act
    <3>1. /\ file' = [file EXCEPT ![LastTarget] =
                         IF IsCreate(job.act, LastTarget) THEN Absent ELSE Current.pre[LastTarget]]
          /\ journal' = journal
      BY <1>14, <2>5 DEF Undo
    <3>2. ~IsCreate(job.act, LastTarget) => Current.pre[LastTarget] = journal[job.act].base[LastTarget]
      BY <1>n, <2>1, <2>2 DEF Backups, Current
    <3>3. file' = [file EXCEPT ![LastTarget] = journal[job.act].base[LastTarget]]
      BY <3>1, <3>2 DEF IsCreate
    <3>4. PICK c \in SUBSET Actions : ChainOf(LastTarget, c)
      BY <1>a, <2>1
    <3>5. PICK b \in Artifacts, i \in Actions : b = LastTarget /\ i = job.act
      BY <2>1
    <3>6. /\ file[b] = i /\ State(i) \notin Rollbackable /\ file'[b] = journal[i].base[b]
          /\ ChainOf(b, c)
      BY <1>0, <1>n, <2>2, <2>5, <3>3, <3>4, <3>5
    <3>7. ChainOf(b, c \ {i})'
      BY <1>0, <3>1, <3>6, ChainShrinks
    <3>8. \E d \in SUBSET Actions : ChainOf(b, d)'
      BY <3>7
    <3>9. file' = [file EXCEPT ![b] = journal[i].base[b]]
      BY <3>3, <3>5
    <3>. QED  BY <1>2, <3>1, <3>8, <3>9
  <2>. QED  BY <2>3, <2>4, <2>5
<1>15. ASSUME NEW a \in Artifacts, NEW c \in {Absent, Original, Edited}, Edit(a, c)  PROVE FALSE
  BY <1>0, <1>15, SizesAreNat DEF Edit, TypeOK
<1>16. ASSUME NEW k \in Actions, Rollback(k)  PROVE Chains'
  BY <1>16, <1>c DEF Rollback, disk
<1>17. CASE WrittenThenFails
  <2>1. PICK s \in ManifestStates : Writes(s) /\ SetState(job.act, s)
    BY <1>17 DEF WrittenThenFails
  <2>2. job.step # "idle" /\ file' = file /\ job.todo = {}
    BY <1>17, <2>1 DEF WrittenThenFails, Writes
  <2>3. CASE job.step = "check"
    <3>1. \A a \in Current.targets : file[a] = job.act
      BY <2>2, <2>3 DEF Progress, Writing
    <3>. QED  BY <1>d, <1>n, <2>1, <2>2, <2>3, <3>1 DEF Writes
  <2>4. CASE job.step = "look"
    <3>1. \A a \in Current.targets : file[a] < job.act
      BY <1>e, <2>2, <2>4 DEF Progress, Undoing, Backups, AsFound, Current
    <3>2. s = "rolled-back"
      BY <2>1, <2>4 DEF Writes
    <3>. QED  BY <1>d, <1>n, <2>1, <2>2, <3>1, <3>2
  <2>5. CASE job.step \in {"backup", "stage"}
    BY <1>d, <1>n, <2>1, <2>2, <2>5 DEF Writes
  <2>6. CASE job.step = "inspect"
    <3>1. s \in {"rolling-back", "recovery-required"} \/ (s = "rollback-stale" /\ job.cause = "rollback")
      <4>1. s = StaleState \/ s = "rolling-back"
        BY <2>1, <2>6 DEF Writes
      <4>. QED  BY <4>1 DEF StaleState
    <3>2. job.cause = "rollback" => State(job.act) \in Rollbackable
      BY <1>0, <2>6 DEF JobOK, StateFits
    <3>. QED  BY <1>d, <1>n, <2>1, <2>2, <3>1, <3>2
  <2>. QED  BY <2>1, <2>3, <2>4, <2>5, <2>6 DEF Writes
<1>. QED  BY <1>3, <1>4, <1>5, <1>6, <1>7, <1>8, <1>9, <1>10, <1>12, <1>13, <1>14, <1>15,
             <1>16, <1>17 DEF Next, Worker, Execute, UndoAction

LEMMA BackupsNext ==
  ASSUME Typed, Numbered, Chains, Backups, Progress, Next
  PROVE  Backups'
<1>0. TypeOK /\ JobOK /\ journal \in [Actions -> Manifest] /\ job \in Job
  BY DEF Typed, TypeOK
<1>1. ASSUME NEW k \in Actions, NEW targets \in SUBSET Artifacts, Confirm(k, targets)  PROVE Backups'
  <2>1. /\ State(k) = "none" /\ State(k)' = "unwritten"
        /\ \A j \in Actions : j # k => journal'[j] = journal[j]
        /\ journal'[k].targets = targets
        /\ journal'[k].base = [a \in Artifacts |-> IF a \in targets THEN file[a] ELSE Absent]
    BY <1>0, <1>1 DEF Confirm, State, NoManifest
  <2>2. ASSUME NEW a \in targets  PROVE file[a] < k
    <3>1. PICK c \in SUBSET Actions : ChainOf(a, c)
      BY DEF Chains
    <3>2. CASE file[a] = Before(a)
      BY <3>2, ActionsAreNat DEF Before, Original, Absent
    <3>3. CASE file[a] \in c
      <4>1. file[a] \in Actions /\ State(file[a]) # "none"
        BY <3>1, <3>3 DEF ChainOf, Live, Pending, Rollbackable
      <4>. QED  BY <2>1, <4>1, ActionsAreNat DEF Numbered
    <3>. QED  BY <3>1, <3>2, <3>3 DEF ChainOf
  <2>3. ASSUME NEW j \in Actions, NEW a \in journal'[j].targets
        PROVE  /\ journal'[j].base[a] < j
               /\ State(j)' \in Live /\ ~IsCreate(j, a)' => journal'[j].pre[a] = journal'[j].base[a]
    <3>1. CASE j = k
      BY <2>1, <2>2, <3>1 DEF Live, Pending, Rollbackable
    <3>2. CASE j # k
      <4>1. journal'[j] = journal[j] /\ a \in journal[j].targets
        BY <2>1, <3>2
      <4>. QED  BY <4>1 DEF Backups, State, IsCreate
    <3>. QED  BY <3>1, <3>2
  <2>. QED  BY <2>3 DEF Backups
<1>2. ASSUME \A k \in Actions, targets \in SUBSET Artifacts : ~Confirm(k, targets)  PROVE Backups'
  <2>1. \A k \in Actions : /\ journal'[k].targets = journal[k].targets
                           /\ journal'[k].base = journal[k].base
                           /\ k # job.act \/ job.step = "idle" => journal'[k] = journal[k]
                           /\ Backup \/ journal'[k].pre = journal[k].pre
    BY <1>2, ManifestSteps
  <2>2. job.step # "idle" => job.act \in Actions
    BY <1>0 DEF JobOK
  <2>3. CASE job.step \notin {"idle", "backup"}
    <3>1. State(job.act) \in Live /\ ~Backup
      <4>1. job.step \in Steps
        BY <1>0 DEF Job
      <4>. QED  BY <1>0, <2>3, <4>1 DEF JobOK, StateFits, Writing, Undoing, Steps, Live, Pending,
                    Rollbackable, Backup
    <3>2. \A k \in Actions : State(k)' \in Live => State(k) \in Live
      BY <2>1, <3>1 DEF State
    <3>. QED  BY <2>1, <3>1, <3>2 DEF Backups, IsCreate
  <2>4. CASE journal' = journal
    BY <2>4 DEF Backups, State, IsCreate
  <2>5. CASE job.step = "idle"
    <3>1. ~Backup
      BY <2>5 DEF Backup
    <3>2. \A k \in Actions : State(k)' = State(k)
      BY <2>1, <2>5 DEF State
    <3>. QED  BY <2>1, <3>1, <3>2 DEF Backups, IsCreate
  <2>6. CASE job.step = "backup" /\ journal' # journal
    <3>1. job.act \in Actions /\ State(job.act) = "unwritten" /\ "unwritten" \notin Live
      BY <1>0, <2>6 DEF JobOK, StateFits, Live, Pending, Rollbackable
    <3>2. Backup \/ WriteManifest \/ WrittenThenFails
      BY <1>2, <2>6 DEF Next, Worker, Execute, UndoAction, WriteStage, StartPublishing, Check,
              PublishCreate, Unstage, PublishReplace, Commit, Refresh, RefreshFails, ExecuteFails,
              Rollback, Inspect, InspectClash, StartUndoing, Look, Undo, Clean, Undone, OutsideFails, Throw,
              RecoverNext, RecoverDone, Crash, Edit, Idle, Ready, disk
    <3>3. CASE State(job.act)' \notin Live /\ job'.act = job.act
      <4>1. \A k \in Actions : State(k)' \in Live => k # job.act /\ journal'[k] = journal[k]
        BY <2>1, <3>3
      <4>. QED  BY <2>1, <4>1 DEF Backups, IsCreate, State
    <3>4. CASE Backup
      <4>1. journal' = [journal EXCEPT ![job.act].pre[NextTarget] = file[NextTarget]]
            /\ Proceed("backup", job.todo \ {NextTarget}) /\ NextTarget \in Artifacts
        BY <1>0, <2>6, <3>4, Targets DEF Backup, Throw, AnswerError, disk
      <4>2. /\ job.todo \ {NextTarget} \in SUBSET Artifacts
            /\ "backup" \in Steps
        BY <1>0, Targets DEF Steps
      <4>3. job'.act = job.act
        BY <1>0, <4>1, <4>2, JobMoves
      <4>4. journal'[job.act].state = journal[job.act].state
        BY <1>0, <3>1, <4>1, PreimageIs
      <4>. QED  BY <3>1, <3>3, <4>3, <4>4 DEF State
    <3>5. CASE WriteManifest \/ WrittenThenFails
      <4>1. ~Backup /\ job.todo = {}
        BY <3>5 DEF Backup, WriteManifest, WrittenThenFails, Writes
      <4>2. \A a \in Current.targets : ~IsCreate(job.act, a) => Current.pre[a] = Current.base[a]
        BY <2>6, <4>1 DEF Progress
      <4>3. ASSUME NEW k \in Actions, NEW a \in journal'[k].targets
            PROVE  /\ journal'[k].base[a] < k
                   /\ State(k)' \in Live /\ ~IsCreate(k, a)' => journal'[k].pre[a] = journal'[k].base[a]
        <5>1. CASE k = job.act
          BY <2>1, <4>1, <4>2, <5>1 DEF Backups, IsCreate, Current
        <5>2. CASE k # job.act
          BY <2>1, <5>2 DEF Backups, IsCreate, State
        <5>. QED  BY <5>1, <5>2
      <4>. QED  BY <4>3 DEF Backups
    <3>. QED  BY <3>2, <3>4, <3>5
  <2>. QED  BY <2>3, <2>4, <2>5, <2>6
<1>. QED  BY <1>1, <1>2

LEMMA ProgressNext ==
  ASSUME Typed, Numbered, Chains, Backups, Progress, Next, edits' = edits
  PROVE  Progress'
<1>0. /\ TypeOK /\ JobOK /\ journal \in [Actions -> Manifest] /\ job \in Job
      /\ file \in [Artifacts -> Content]
  BY DEF Typed, TypeOK
<1>t. /\ job.todo \in SUBSET Artifacts
      /\ job.todo # {} => NextTarget \in job.todo /\ LastTarget \in job.todo
  BY <1>0, Targets
<1>e. job.step # "idle" => /\ job.act \in Actions /\ job.todo \subseteq Current.targets
                           /\ Current.targets \in SUBSET Artifacts
  BY <1>0 DEF JobOK, Manifest, Current
<1>n. Writing \union Undoing \union {"inspect", "idle", "refresh", "backup", "stage"} = Steps
  BY DEF Writing, Undoing, Steps
<1>c. ASSUME job'.step \in {"idle", "refresh"}  PROVE Progress'
  BY <1>c DEF Progress, Writing, Undoing
\* A rollback of either kind begins.
<1>d. ASSUME NEW k \in Actions, NEW cause \in {"execute", "rollback", "recover"},
             job' = Inspecting(k, cause), UNCHANGED disk
      PROVE  Progress'
  <2>1. job'.step = "inspect" /\ job'.act = k /\ job'.todo = journal[k].targets
    BY <1>0, <1>d, IdleIs
  <2>. QED  BY <1>d, <2>1 DEF Progress, Writing, Undoing, Current, disk
<1>1. ASSUME Throw  PROVE Progress'
  BY <1>1, <1>c, IdleIs DEF Throw, AnswerError
<1>2. ASSUME Abort, job.step # "idle"  PROVE Progress'
  BY <1>2, <1>d, <1>e DEF Abort
\* A step after which the job stands at another one, its manifest as it was.
<1>j. ASSUME NEW step \in Steps, NEW todo \in SUBSET Artifacts, Proceed(step, todo)
      PROVE  /\ job'.step = step /\ job'.todo = todo /\ job'.act = job.act /\ job'.clash = job.clash
             /\ job'.seen = job.seen
  BY <1>0, <1>j, JobMoves
<1>s. ASSUME NEW s \in ManifestStates, SetState(job.act, s), job.act \in Actions
      PROVE  \A k \in Actions : /\ journal'[k].targets = journal[k].targets
                                /\ journal'[k].base = journal[k].base
                                /\ journal'[k].pre = journal[k].pre
  BY <1>0, <1>s, StateIsSet
<1>m. {"preparing", "publishing", "rolling-back", "recovery-required", "committed"} \subseteq ManifestStates
  BY DEF ManifestStates, Pending, Rollbackable
<1>3. ASSUME NEW k \in Actions, NEW targets \in SUBSET Artifacts, Confirm(k, targets)  PROVE Progress'
  <2>1. /\ job'.step = "backup" /\ job'.act = k /\ job'.todo = {a \in targets : file[a] # Absent}
        /\ file' = file /\ journal'[k].targets = targets
        /\ journal'[k].base = [a \in Artifacts |-> IF a \in targets THEN file[a] ELSE Absent]
    BY <1>0, <1>3 DEF Confirm, Idle, NoManifest
  <2>. QED  BY <2>1 DEF Progress, Writing, Undoing, AsFound, IsCreate, Current
<1>4. CASE Backup
  <2>1. job.step = "backup" /\ job.act \in Actions /\ NextTarget \in Current.targets /\ NextTarget \in Artifacts
    BY <1>4, <1>e, <1>t DEF Backup
  <2>2. CASE /\ journal' = [journal EXCEPT ![job.act].pre[NextTarget] = file[NextTarget]]
             /\ Proceed("backup", job.todo \ {NextTarget}) /\ file' = file
    <3>1. /\ job'.step = "backup" /\ job'.todo = job.todo \ {NextTarget} /\ job'.act = job.act
      BY <1>t, <1>j, <2>2 DEF Steps
    <3>2. /\ journal'[job.act].targets = journal[job.act].targets
          /\ journal'[job.act].base = journal[job.act].base
          /\ journal'[job.act].pre = [journal[job.act].pre EXCEPT ![NextTarget] = file[NextTarget]]
      BY <1>0, <2>1, <2>2, PreimageIs
    <3>3. journal[job.act].pre \in [Artifacts -> Content]
      BY <1>0, <2>1 DEF Manifest
    <3>4. ASSUME NEW a \in Current.targets, a \notin job'.todo, ~IsCreate(job.act, a)
          PROVE  journal'[job.act].pre[a] = journal[job.act].base[a]
      <4>1. a \in Artifacts
        BY <1>e, <2>1
      <4>2. CASE a = NextTarget
        BY <2>1, <3>2, <3>3, <4>1, <4>2 DEF Progress, AsFound
      <4>3. CASE a # NextTarget
        BY <2>1, <3>1, <3>2, <3>3, <3>4, <4>1, <4>3 DEF Progress, Current
      <4>. QED  BY <4>2, <4>3
    <3>5. \A a \in Current.targets : file'[a] = journal'[job.act].base[a]
      BY <2>1, <2>2, <3>2 DEF Progress, AsFound
    <3>. QED  BY <3>1, <3>2, <3>4, <3>5 DEF Progress, Writing, Undoing, AsFound, IsCreate, Current
  <2>. QED  BY <1>1, <1>4, <2>2 DEF Backup
<1>5. CASE WriteManifest \/ StartPublishing
  <2>1. /\ job.step \in {"backup", "stage"} /\ file' = file /\ job.act \in Actions
        /\ \E s \in {"preparing", "publishing"} : SetState(job.act, s)
    BY <1>5, <1>e DEF WriteManifest, StartPublishing
  <2>2. \A k \in Actions : journal'[k].targets = journal[k].targets /\ journal'[k].base = journal[k].base
    BY <1>m, <1>s, <2>1
  <2>3. job'.step \in {"stage", "check"} /\ job'.todo = Current.targets /\ job'.act = job.act
    BY <1>5, <1>e, <1>j DEF WriteManifest, StartPublishing, Steps
  <2>4. \A a \in Current.targets : AsFound(job.act, a)
    BY <2>1 DEF Progress
  <2>. QED  BY <2>1, <2>2, <2>3, <2>4 DEF Progress, Writing, Undoing, AsFound, Current
<1>6. CASE WriteStage
  <2>1. /\ job.step = "stage" /\ UNCHANGED <<file, journal>> /\ Proceed("stage", job.todo \ {NextTarget})
    BY <1>6 DEF WriteStage
  <2>2. job'.step = "stage" /\ job'.act = job.act
    BY <1>t, <1>j, <2>1 DEF Steps
  <2>. QED  BY <2>1, <2>2 DEF Progress, Writing, Undoing, AsFound, Current
<1>7. CASE Check
  <2>1. job.step = "check"
    BY <1>7 DEF Check
  <2>2. CASE job' = [job EXCEPT !.step = "publish", !.seen = file[NextTarget]] /\ UNCHANGED disk
    <3>1. job'.step = "publish" /\ job'.act = job.act /\ job'.todo = job.todo
      BY <2>2, JobReads
    <3>. QED  BY <2>1, <2>2, <3>1 DEF Progress, Writing, Undoing, AsFound, Current, disk
  <2>. QED  BY <1>2, <1>7, <2>1, <2>2 DEF Check
\* The target is published.
<1>8. ASSUME job.step = "publish", journal' = journal, file' = [file EXCEPT ![NextTarget] = job.act],
             \/ Proceed("check", job.todo \ {NextTarget})
             \/ Proceed("unstage", job.todo)
      PROVE  Progress'
  <2>1. /\ job'.act = job.act
        /\ \/ job'.step = "check" /\ job'.todo = job.todo \ {NextTarget}
           \/ job'.step = "unstage" /\ job'.todo = job.todo
    BY <1>t, <1>j, <1>8 DEF Steps
  <2>2. ASSUME NEW a \in Current.targets
        PROVE  IF a \in job'.todo /\ ~(job'.step = "unstage" /\ a = NextTarget')
               THEN file'[a] = journal[job.act].base[a] ELSE file'[a] = job.act
    <3>1. a \in Artifacts
      BY <1>8, <1>e
    <3>2. IF a \in job.todo THEN file[a] = journal[job.act].base[a] ELSE file[a] = job.act
      BY <1>8 DEF Progress, Writing, AsFound
    <3>3. job'.step = "unstage" => NextTarget' = NextTarget
      BY <2>1 DEF NextTarget
    <3>4. file'[a] = IF a = NextTarget THEN job.act ELSE file[a]
      BY <1>0, <1>8, <3>1
    <3>5. job'.step \in {"check", "unstage"} /\ "check" # "unstage"
          /\ (a \in job'.todo <=> IF job'.step = "check" THEN a \in job.todo /\ a # NextTarget
                                  ELSE a \in job.todo)
      BY <2>1
    <3>6. NextTarget \in job.todo
      BY <1>0, <1>8, <1>t DEF JobOK
    <3>. QED  BY <3>2, <3>3, <3>4, <3>5, <3>6
  <2>. QED  BY <1>8, <2>1, <2>2 DEF Progress, Writing, Undoing, AsFound, Current
<1>9. CASE PublishCreate
  <2>1. job.step = "publish"
    BY <1>9 DEF PublishCreate
  <2>. QED  BY <1>2, <1>8, <1>9, <2>1 DEF PublishCreate
<1>10. CASE PublishReplace
  BY <1>8, <1>10 DEF PublishReplace
<1>11. CASE Unstage
  <2>1. /\ job.step = "unstage" /\ UNCHANGED <<file, journal>> /\ Proceed("check", job.todo \ {NextTarget})
    BY <1>11 DEF Unstage
  <2>2. job'.step = "check" /\ job'.act = job.act /\ job'.todo = job.todo \ {NextTarget}
    BY <1>t, <1>j, <2>1 DEF Steps
  <2>. QED  BY <2>1, <2>2 DEF Progress, Writing, Undoing, AsFound, Current
<1>12. CASE Commit
  BY <1>12, <1>c, <1>j DEF Commit, Steps
<1>13. CASE Refresh \/ RefreshFails \/ InspectClash \/ Undone
  BY <1>13, <1>c, IdleIs DEF Refresh, RefreshFails, InspectClash, StaleState, Undone, EndJob
<1>14. CASE ExecuteFails
  BY <1>1, <1>2, <1>14 DEF ExecuteFails
<1>15. CASE Inspect
  <2>1. /\ job'.step = "inspect" /\ job'.todo = job.todo \ {NextTarget} /\ job'.act = job.act
        /\ ~job'.clash => ~job.clash /\ file[NextTarget] \in {job.act, Current.base[NextTarget]}
    BY <1>15, JobReads
  <2>2. job.step = "inspect" /\ UNCHANGED disk
    BY <1>15 DEF Inspect
  <2>. QED  BY <2>1, <2>2 DEF Progress, Writing, Undoing, Fit, Current, disk
<1>16. CASE StartUndoing
  <2>1. /\ job.step = "inspect" /\ job.todo = {} /\ ~job.clash /\ file' = file
        /\ SetState(job.act, "rolling-back") /\ job.act \in Actions
    BY <1>16, <1>e DEF StartUndoing
  <2>2. \A k \in Actions : journal'[k].targets = journal[k].targets /\ journal'[k].base = journal[k].base
    BY <1>m, <1>s, <2>1
  <2>3. job'.step = "look" /\ job'.todo = Current.targets /\ job'.act = job.act
    BY <1>16, <1>e, <1>j DEF StartUndoing, Steps
  <2>. QED  BY <2>1, <2>2, <2>3 DEF Progress, Writing, Undoing, Fit, AsFound, Current
<1>17. CASE Look
  <2>1. /\ job'.step = "undo" /\ job'.seen = file[LastTarget]
        /\ job'.act = job.act /\ job'.todo = job.todo
    BY <1>17, JobReads
  <2>2. job.step = "look" /\ UNCHANGED disk
    BY <1>17 DEF Look
  <2>. QED  BY <2>1, <2>2 DEF Progress, Writing, Undoing, Fit, AsFound, Current, LastTarget, disk
<1>18. CASE Undo
  <2>1. CASE UnlinkFails
    BY <1>1, <1>18, <2>1 DEF Undo
  <2>2. CASE ~UnlinkFails
    <3>1. /\ job.step = "undo" /\ Proceed("clean", job.todo) /\ journal' = journal
          /\ LastTarget \in job.todo /\ job.act \in Actions
      BY <1>0, <1>18, <1>e, <1>t, <2>2 DEF Undo, JobOK
    <3>2. /\ job'.step = "clean" /\ job'.act = job.act /\ job'.todo = job.todo
          /\ LastTarget' = LastTarget
      BY <1>t, <1>j, <3>1 DEF Steps, LastTarget
    <3>3. /\ job.seen = file[LastTarget] /\ State(job.act) = "rolling-back"
          /\ LastTarget \in Current.targets /\ LastTarget \in Artifacts
      BY <1>0, <1>e, <3>1 DEF Progress, JobOK, StateFits, Undoing
    <3>4. file'[LastTarget] = journal[job.act].base[LastTarget]
      <4>1. CASE job.seen # job.act
        BY <1>18, <2>2, <3>1, <3>3, <4>1 DEF Undo, Progress, Fit, Undoing
      <4>2. CASE job.seen = job.act
        <5>1. file'[LastTarget] = IF IsCreate(job.act, LastTarget) THEN Absent ELSE Current.pre[LastTarget]
          BY <1>0, <1>18, <2>2, <3>3, <4>2 DEF Undo
        <5>2. ~IsCreate(job.act, LastTarget) => Current.pre[LastTarget] = journal[job.act].base[LastTarget]
          BY <3>1, <3>3 DEF Backups, Current, Live, Pending
        <5>. QED  BY <5>1, <5>2 DEF IsCreate
      <4>. QED  BY <4>1, <4>2
    <3>5. \A a \in Artifacts : a # LastTarget => file'[a] = file[a]
      BY <1>0, <1>18, <2>2 DEF Undo
    <3>6. ASSUME NEW a \in Current.targets
          PROVE  IF a \in job'.todo /\ a # LastTarget
                 THEN file'[a] \in {job.act, journal[job.act].base[a]}
                 ELSE file'[a] = journal[job.act].base[a]
      <4>1. CASE a = LastTarget
        BY <3>2, <3>4, <4>1
      <4>2. CASE a # LastTarget
        <5>1. file'[a] = file[a]
          BY <1>e, <3>1, <3>5, <4>2
        <5>. QED  BY <3>1, <3>2, <4>2, <5>1 DEF Progress, Undoing, Fit, AsFound
      <4>. QED  BY <4>1, <4>2
    <3>. QED  BY <3>1, <3>2, <3>6 DEF Progress, Writing, Undoing, Fit, AsFound, Current
  <2>. QED  BY <2>1, <2>2
<1>19. CASE OutsideFails
  BY <1>1, <1>19 DEF OutsideFails
<1>20. CASE RecoverNext
  <2>1. recovery.queue \in SUBSET Nat /\ recovery.queue # {} /\ recovery.queue \in SUBSET Actions
    BY <1>0, <1>20 DEF RecoverNext, TypeOK, Actions
  <2>. QED  BY <1>d, <1>20, <2>1, MinIs DEF RecoverNext
<1>21. CASE RecoverDone
  BY <1>21, <1>c, IdleIs DEF RecoverDone
<1>22. CASE Crash
  BY <1>22, <1>c, IdleIs DEF Crash
<1>23. ASSUME NEW a \in Artifacts, NEW c \in {Absent, Original, Edited}, Edit(a, c)  PROVE FALSE
  BY <1>0, <1>23, SizesAreNat DEF Edit, TypeOK
<1>24. ASSUME NEW k \in Actions, Rollback(k)  PROVE Progress'
  BY <1>24, <1>d DEF Rollback
<1>25. CASE Clean
  <2>1. /\ job.step = "clean" /\ UNCHANGED <<file, journal>> /\ Proceed("look", job.todo \ {LastTarget})
    BY <1>25 DEF Clean
  <2>2. job'.step = "look" /\ job'.act = job.act /\ job'.todo = job.todo \ {LastTarget}
    BY <1>t, <1>j, <2>1 DEF Steps
  <2>. QED  BY <2>1, <2>2 DEF Progress, Writing, Undoing, Fit, AsFound, Current
<1>26. CASE WrittenThenFails
  BY <1>26, <1>c, IdleIs DEF WrittenThenFails, AnswerError
<1>. QED  BY <1>3, <1>4, <1>5, <1>6, <1>7, <1>9, <1>10, <1>11, <1>12, <1>13, <1>14, <1>15, <1>16,
             <1>17, <1>18, <1>19, <1>20, <1>21, <1>22, <1>23, <1>24, <1>25, <1>26
          DEF Next, Worker, Execute, UndoAction

LEMMA TracedNext == Typed /\ Numbered /\ Traced /\ [Next]_vars => Traced'
<1>1. ASSUME Traced, UNCHANGED vars  PROVE Traced'
  <2>1. UNCHANGED <<file, journal, job, edits>>
    BY <1>1 DEF vars
  <2>. QED  BY <1>1, <2>1 DEF Traced, Chains, ChainOf, Kept, Before, Backups, Progress, AsFound, Fit,
                IsCreate, State, Current, NextTarget, LastTarget
<1>2. ASSUME Typed, Numbered, Traced, Next  PROVE Traced'
  <2>1. edits' = edits \/ edits' # 0
    <3>1. edits \in Nat
      BY <1>2, SizesAreNat DEF Typed, TypeOK
    <3>2. CASE \E a \in Artifacts, c \in {Absent, Original, Edited} : Edit(a, c)
      BY <3>1, <3>2 DEF Edit
    <3>3. CASE Worker \/ Crash
      BY <3>3 DEF Worker, Execute, UndoAction, Confirm, Backup, WriteManifest, WriteStage,
              StartPublishing, Check, PublishCreate, Unstage, PublishReplace, Commit, Refresh,
              RefreshFails, ExecuteFails, Rollback, Inspect, InspectClash, StartUndoing, Look, Undo,
              Clean, WrittenThenFails, Undone, OutsideFails, RecoverNext, RecoverDone, Crash, Throw, AnswerError, Abort, EndJob, Proceed, bounds
    <3>. QED  BY <1>2, <3>2, <3>3 DEF Next
  <2>. QED  BY <1>2, <2>1, ChainsNext, BackupsNext, ProgressNext DEF Traced
<1>. QED  BY <1>1, <1>2

\* AllOrNone: when nothing is pending every document holds the output of the newest
\* action on it that was not rolled back, or what it held before all of them.
THEOREM NoHalfWrites == Spec => []AllOrNone
<1>1. ASSUME Typed, Staged, Traced  PROVE AllOrNone
  <2>1. SUFFICES ASSUME job = Idle, edits = 0, \A k \in Actions : State(k) \notin Unsettled
                 PROVE  /\ \A a \in Artifacts :
                               file[a] = IF Kept(a) # {} THEN Max(Kept(a)) ELSE Before(a)
                        /\ \A k \in Actions : stage[k] = {}
    BY DEF AllOrNone, Unsettled, State, Before
  <2>2. ASSUME NEW a \in Artifacts
        PROVE  file[a] = IF Kept(a) # {} THEN Max(Kept(a)) ELSE Before(a)
    <3>1. PICK c \in SUBSET Actions : ChainOf(a, c)
      BY <1>1, <2>1 DEF Traced, Chains
    <3>2. Kept(a) = c
      BY <2>1, <3>1 DEF ChainOf, Kept, Live, Unsettled, State
    <3>3. CASE c = {}
      BY <3>1, <3>2, <3>3 DEF ChainOf
    <3>4. CASE c # {}
      <4>1. file[a] # Before(a)
        BY <3>1, <3>4, ActionsAreNat DEF ChainOf, Before, Original, Absent
      <4>2. file[a] \in c /\ \A k \in c : k <= file[a]
        BY <3>1, <4>1 DEF ChainOf
      <4>3. NActions \in Nat /\ c \in SUBSET (1..NActions)
        BY ContentIs DEF Actions
      <4>4. Max(c) = file[a]
        BY <4>2, <4>3, MaxUnique
      <4>. QED  BY <3>2, <3>4, <4>4
    <3>. QED  BY <3>3, <3>4
  <2>3. \A k \in Actions : stage[k] = {}
    BY <1>1, <2>1 DEF Staged
  <2>. QED  BY <2>2, <2>3
<1>. QED  BY <1>1, TypedInit, TypedNext, NumberedInit, NumberedNext, StagedInit, StagedNext,
             TracedInit, TracedNext, PTL DEF Spec

-----------------------------------------------------------------------------
(* A death of the worker, and nothing else that fails *)

\* One action at most is pending: the one of the job, or the one that waits for its
\* recovery.  It can be undone.
OnePending ==
    /\ ~recovery.clash /\ writeState # "degraded"
    /\ \A k \in Actions : State(k) # "recovery-required"
    /\ \A k \in Actions : State(k) \in Pending =>
          /\ \A a \in journal[k].targets : Fit(k, a)
          /\ IF job.step = "idle" \/ job.cause = "recover"
             THEN writeState = "recovering" /\ recovery.queue = {k}
             ELSE job.act = k
    /\ job.step = "inspect" /\ job.cause # "rollback" => ~job.clash

LEMMA OnePendingInit == Init => OnePending
BY IdleIs DEF Init, OnePending, State, NoManifest, Pending

LEMMA OnePendingNext ==
  ASSUME MaxEdits = 0, Faults = {}
  PROVE  Typed /\ Numbered /\ Traced /\ OnePending /\ [Next]_vars => OnePending'
<1>b. ASSUME OnePending, UNCHANGED vars  PROVE OnePending'
  BY <1>b DEF OnePending, Fit, State, vars
<1>. SUFFICES ASSUME Typed, Numbered, Traced, OnePending, Next  PROVE OnePending'
  BY <1>b
<1>0. /\ TypeOK /\ JobOK /\ RecoveryOK /\ journal \in [Actions -> Manifest] /\ job \in Job
      /\ file \in [Artifacts -> Content]
  BY DEF Typed, TypeOK
<1>t. /\ job.todo \in SUBSET Artifacts
      /\ job.todo # {} => NextTarget \in job.todo /\ LastTarget \in job.todo
  BY <1>0, Targets
<1>e. job.step # "idle" => /\ job.act \in Actions /\ job.todo \subseteq Current.targets
                           /\ Current.targets \in SUBSET Artifacts
  BY <1>0 DEF JobOK, Manifest, Current
<1>p. Progress /\ Progress'
  <2>1. edits = 0 /\ edits' = 0
    BY TypedNext DEF Typed, TypeOK
  <2>. QED  BY <2>1, TracedNext DEF Traced
\* A recovery, once begun, is of a pending action.
<1>r. job.step # "idle" /\ job.cause = "recover" => State(job.act) \in Pending
  BY <1>0 DEF Job, Steps, JobOK, StateFits, Writing, Undoing, Pending
<1>u. ASSUME NEW k \in Actions, State(k) \in Pending, job.step # "idle"  PROVE k = job.act
  <2>1. CASE job.cause = "recover"
    BY <1>e, <1>r, <1>u, <2>1 DEF OnePending
  <2>2. CASE job.cause # "recover"
    BY <1>u, <2>2 DEF OnePending
  <2>. QED  BY <2>1, <2>2
\* Nothing is pending afterwards.
<1>z. ASSUME \A k \in Actions : State(k)' \notin Pending \union {"recovery-required"},
             ~recovery'.clash, writeState' # "degraded",
             job'.step = "inspect" => job'.cause = "rollback"
      PROVE  OnePending'
  BY <1>z DEF OnePending
\* The action ends.
<1>d. ASSUME NEW s \in {"committed", "index-stale", "rollback-stale", "rolled-back"},
             SetState(job.act, s), job.step # "idle", recovery'.clash = recovery.clash,
             writeState' = writeState, job'.step # "inspect"
      PROVE  OnePending'
  <2>1. s \in ManifestStates /\ s \notin Pending \union {"recovery-required"} /\ job.act \in Actions
    BY <1>d, <1>e DEF ManifestStates, Pending, Rollbackable
  <2>2. /\ journal'[job.act].state = s
        /\ \A k \in Actions : k # job.act => journal'[k] = journal[k]
    BY <1>0, <1>d, <2>1, StateIsSet
  <2>3. ASSUME NEW k \in Actions  PROVE State(k)' \notin Pending \union {"recovery-required"}
    <3>1. CASE k = job.act
      BY <2>1, <2>2, <3>1 DEF State
    <3>2. CASE k # job.act
      <4>1. State(k) \notin Pending
        BY <1>d, <1>u, <3>2
      <4>. QED  BY <2>2, <3>2, <4>1 DEF State, OnePending
    <3>. QED  BY <3>1, <3>2
  <2>. QED  BY <1>d, <1>z, <2>3 DEF OnePending
\* The action stays pending, and its job goes on.
<1>q. ASSUME NEW step \in {"stage"} \union Writing \union Undoing, NEW todo \in SUBSET Artifacts,
             Proceed(step, todo), job.step # "idle", journal'[job.act].state \in Pending,
             \A k \in Actions : /\ journal'[k].targets = journal[k].targets
                                /\ journal'[k].base = journal[k].base
                                /\ k # job.act => journal'[k] = journal[k]
      PROVE  OnePending'
  <2>1. step \in Steps
    BY DEF Writing, Undoing, Steps
  <2>2. /\ job'.step = step /\ job'.act = job.act /\ job'.cause = job.cause
        /\ recovery' = recovery /\ writeState' = writeState
    BY <1>0, <1>q, <2>1, JobMoves
  <2>3. \A a \in journal'[job.act].targets : Fit(job.act, a)'
    BY <1>p, <1>q, <2>2 DEF Progress, Fit, AsFound, Current, Writing, Undoing
  <2>4. ASSUME NEW k \in Actions, State(k)' \in Pending
        PROVE  /\ k = job.act
               /\ \A a \in journal'[k].targets : Fit(k, a)'
               /\ IF job'.step = "idle" \/ job'.cause = "recover"
                  THEN writeState' = "recovering" /\ recovery'.queue = {k} ELSE job'.act = k
    <3>1. k = job.act
      BY <1>q, <1>u, <2>4 DEF State
    <3>2. \A a \in journal'[k].targets : Fit(k, a)'
      BY <2>2, <2>3, <3>1 DEF Fit
    <3>3. job'.step # "idle"
      BY <2>2 DEF Writing, Undoing
    <3>4. CASE job.cause = "recover"
      <4>1. job.act \in Actions /\ State(job.act) \in Pending
        BY <1>e, <1>q, <1>r, <3>4
      <4>2. writeState = "recovering" /\ recovery.queue = {job.act}
        BY <3>4, <4>1 DEF OnePending
      <4>. QED  BY <2>2, <3>1, <3>2, <3>4, <4>2
    <3>5. CASE job.cause # "recover"
      BY <2>2, <3>1, <3>2, <3>3, <3>5
    <3>. QED  BY <3>1, <3>2, <3>4, <3>5
  <2>5. \A k \in Actions : State(k)' # "recovery-required"
    <3>1. "recovery-required" \notin Pending
      BY DEF Pending
    <3>. QED  BY <1>q, <3>1 DEF OnePending, State
  <2>6. job'.step # "inspect"
    BY <2>2 DEF Writing, Undoing
  <2>. QED  BY <2>2, <2>4, <2>5, <2>6 DEF OnePending
<1>s. ASSUME NEW s \in Pending, SetState(job.act, s), job.act \in Actions
      PROVE  /\ journal'[job.act].state \in Pending
             /\ \A k \in Actions : /\ journal'[k].targets = journal[k].targets
                                   /\ journal'[k].base = journal[k].base
                                   /\ k # job.act => journal'[k] = journal[k]
  <2>1. s \in ManifestStates
    BY DEF ManifestStates
  <2>. QED  BY <1>0, <1>s, <2>1, StateIsSet
\* The job reads, or turns to the undoing of its action.
<1>c. ASSUME UNCHANGED disk, UNCHANGED <<recovery, writeState>>,
             job.step # "idle", job'.step # "idle",
             job'.act = job.act, job'.cause = job.cause,
             job'.step = "inspect" /\ job'.cause # "rollback" => ~job'.clash
      PROVE  OnePending'
  BY <1>c DEF OnePending, Fit, State, disk
<1>1. ASSUME Abort, job.step # "idle", job.cause = "execute"  PROVE OnePending'
  <2>1. job' = Inspecting(job.act, "execute") /\ UNCHANGED <<disk, recovery, writeState, bounds>>
    BY <1>1 DEF Abort
  <2>2. job'.step = "inspect" /\ job'.act = job.act /\ job'.cause = "execute" /\ ~job'.clash
    BY <1>0, <1>1, <1>e, <2>1, IdleIs
  <2>. QED  BY <1>1, <1>c, <2>1, <2>2
<1>i. job = Idle /\ writeState # "recovering" => \A k \in Actions : State(k) \notin Pending
  BY IdleIs DEF OnePending
<1>3. ASSUME NEW k \in Actions, NEW targets \in SUBSET Artifacts, Confirm(k, targets)  PROVE OnePending'
  <2>1. /\ State(k)' = "unwritten" /\ job'.step = "backup"
        /\ \A j \in Actions : j # k => journal'[j] = journal[j]
        /\ UNCHANGED <<recovery, writeState>>
    BY <1>0, <1>3 DEF Confirm, State, NoManifest, Idle
  <2>2. \A j \in Actions : State(j) \notin Pending
    BY <1>3, <1>i DEF Confirm, Ready
  <2>3. \A j \in Actions : State(j)' \notin Pending \union {"recovery-required"}
    <3>1. "unwritten" \notin Pending \union {"recovery-required"}
      BY DEF Pending
    <3>. QED  BY <2>1, <2>2, <3>1 DEF OnePending, State
  <2>. QED  BY <1>z, <2>1, <2>3 DEF OnePending
<1>4. CASE Backup
  <2>1. /\ job.step = "backup" /\ job.act \in Actions /\ State(job.act) = "unwritten"
        /\ NextTarget \in Artifacts /\ job.cause = "execute"
    BY <1>0, <1>4, <1>e, <1>t DEF Backup, JobOK, StateFits
  <2>2. \A k \in Actions : State(k) \notin Pending \union {"recovery-required"}
    BY <1>u, <2>1 DEF OnePending, Pending
  <2>3. CASE Throw
    <3>1. UNCHANGED <<disk, recovery, writeState>> /\ job' = Idle
      BY <2>1, <2>3 DEF Throw, AnswerError
    <3>2. \A k \in Actions : State(k)' \notin Pending \union {"recovery-required"}
      BY <2>2, <3>1 DEF State, disk
    <3>. QED  BY <1>z, <3>1, <3>2, IdleIs DEF OnePending
  <2>4. CASE journal' = [journal EXCEPT ![job.act].pre[NextTarget] = file[NextTarget]]
             /\ Proceed("backup", job.todo \ {NextTarget})
    <3>1. job'.step = "backup" /\ UNCHANGED <<recovery, writeState>>
      BY <1>0, <1>t, <2>4, JobMoves DEF Steps
    <3>2. \A j \in Actions : journal'[j].state = journal[j].state
      BY <1>0, <2>1, <2>4, PreimageIs
    <3>3. \A k \in Actions : State(k)' \notin Pending \union {"recovery-required"}
      BY <2>2, <3>2 DEF State
    <3>. QED  BY <1>z, <3>1, <3>3 DEF OnePending
  <2>. QED  BY <1>4, <2>3, <2>4 DEF Backup
<1>5. CASE WriteManifest \/ StartPublishing \/ StartUndoing
  <2>1. job.step # "idle" /\ job.act \in Actions
    BY <1>5, <1>e DEF WriteManifest, StartPublishing, StartUndoing
  <2>2. \E s \in Pending : SetState(job.act, s)
    BY <1>5 DEF WriteManifest, StartPublishing, StartUndoing, Pending
  <2>3. \E step \in {"stage"} \union Writing \union Undoing : Proceed(step, Current.targets)
    BY <1>5 DEF WriteManifest, StartPublishing, StartUndoing, Writing, Undoing
  <2>. QED  BY <1>e, <1>q, <1>s, <2>1, <2>2, <2>3
<1>6. ASSUME journal' = journal, job.step \in {"stage"} \union Writing \union Undoing,
             NEW step \in {"stage"} \union Writing \union Undoing, NEW todo \in SUBSET Artifacts,
             Proceed(step, todo)
      PROVE  OnePending'
  <2>1. State(job.act) \in Pending /\ job.step # "idle"
    BY <1>0, <1>6 DEF JobOK, StateFits, Pending, Writing, Undoing
  <2>. QED  BY <1>6, <1>q, <2>1 DEF State
<1>7. CASE WriteStage \/ Unstage \/ PublishReplace
  <2>1. /\ journal' = journal /\ job.step \in {"stage"} \union Writing \union Undoing
        /\ \E step \in {"stage"} \union Writing \union Undoing : Proceed(step, job.todo \ {NextTarget})
    BY <1>7 DEF WriteStage, Unstage, PublishReplace, Writing, Undoing
  <2>. QED  BY <1>6, <1>t, <2>1
<1>8. CASE PublishCreate
  <2>1. job.step = "publish" /\ job.step \in Writing /\ job.cause = "execute" /\ "unstage" \in Writing
    BY <1>0, <1>8 DEF PublishCreate, JobOK, StateFits, Writing
  <2>. QED  BY <1>1, <1>6, <1>8, <1>t, <2>1 DEF PublishCreate
<1>9. CASE Check
  <2>1. job.step = "check" /\ job.cause = "execute"
    BY <1>0, <1>9 DEF Check, JobOK, StateFits, Writing
  <2>2. CASE /\ job' = [job EXCEPT !.step = "publish", !.seen = file[NextTarget]]
             /\ UNCHANGED <<disk, recovery, writeState, bounds>>
    <3>1. job'.step = "publish" /\ job'.act = job.act /\ job'.cause = job.cause
      BY <2>2, JobReads
    <3>. QED  BY <1>c, <2>1, <2>2, <3>1
  <2>. QED  BY <1>1, <1>9, <2>1, <2>2 DEF Check
<1>10. CASE Commit
  <2>1. job'.step = "refresh" /\ UNCHANGED <<recovery, writeState>> /\ job.step # "idle"
    BY <1>0, <1>10, JobMoves DEF Commit, Steps
  <2>. QED  BY <1>10, <1>d, <2>1 DEF Commit
<1>11. ASSUME NEW s \in {"committed", "index-stale", "rollback-stale", "rolled-back"}, EndJob(s),
              job.step # "idle"
       PROVE  OnePending'
  <2>1. /\ SetState(job.act, s) /\ writeState' = writeState /\ job'.step # "inspect"
        /\ recovery'.clash = recovery.clash
    BY <1>0, <1>11, IdleIs DEF EndJob, TypeOK
  <2>. QED  BY <1>11, <1>d, <2>1
<1>12. CASE Refresh \/ RefreshFails \/ Undone
  BY <1>11, <1>12 DEF Refresh, RefreshFails, Undone
<1>13. CASE InspectClash
  <2>1. job.cause = "rollback"
    BY <1>13 DEF InspectClash, StaleState, OnePending
  <2>. QED  BY <1>11, <1>13, <2>1 DEF InspectClash, StaleState
<1>14. CASE Inspect
  <2>1. /\ job'.step = "inspect" /\ job'.act = job.act /\ job'.cause = job.cause
        /\ job.step = "inspect" /\ NextTarget \in Current.targets /\ job.act \in Actions
        /\ UNCHANGED <<disk, recovery, writeState>>
    BY <1>14, <1>e, <1>t, JobReads DEF Inspect
  <2>2. job'.clash = (job.clash \/ file[NextTarget] \notin {job.act, Current.base[NextTarget]})
    BY <1>0, <1>14 DEF Inspect, Job
  <2>3. ASSUME job.cause # "rollback"  PROVE ~job'.clash
    <3>1. State(job.act) \in Pending
      BY <1>0, <2>1, <2>3 DEF JobOK, StateFits
    <3>2. Fit(job.act, NextTarget) /\ ~job.clash
      BY <2>1, <2>3, <3>1 DEF OnePending, Current
    <3>. QED  BY <2>2, <3>2 DEF Fit, Current
  <2>. QED  BY <1>c, <2>1, <2>3
<1>15. CASE Look
  <2>1. job.step = "look" /\ UNCHANGED <<disk, recovery, writeState>>
    BY <1>15 DEF Look
  <2>. QED  BY <1>15, <1>c, <2>1, JobReads
<1>16. CASE Undo
  <2>1. job.step = "undo" /\ job.seen = file[LastTarget] /\ job.act \in Actions
    BY <1>16, <1>e, <1>p DEF Undo, Progress
  <2>2. ~UnlinkFails
    BY <2>1, ActionsAreNat DEF UnlinkFails, Absent
  <2>3. /\ journal' = journal /\ Proceed("clean", job.todo)
        /\ "clean" \in Undoing /\ "undo" \in Undoing
    BY <1>16, <2>2 DEF Undo, Undoing
  <2>. QED  BY <1>6, <1>t, <2>1, <2>3
<1>23. CASE Clean
  <2>1. /\ job.step = "clean" /\ journal' = journal /\ Proceed("look", job.todo \ {LastTarget})
        /\ "clean" \in Undoing /\ "look" \in Undoing
    BY <1>23 DEF Clean, Undoing
  <2>. QED  BY <1>6, <1>t, <2>1
<1>17. CASE ExecuteFails \/ OutsideFails \/ WrittenThenFails
  BY <1>17 DEF ExecuteFails, OutsideFails, WrittenThenFails
<1>18. CASE RecoverNext
  <2>1. recovery.queue \in SUBSET Nat /\ recovery.queue # {} /\ recovery.queue \in SUBSET Actions
    BY <1>0, <1>18 DEF RecoverNext, TypeOK, Actions
  <2>2. /\ job'.step = "inspect" /\ job'.cause = "recover" /\ ~job'.clash /\ job.step = "idle"
        /\ UNCHANGED <<disk, recovery, writeState>>
    BY <1>0, <1>18, <2>1, MinIs, IdleIs DEF RecoverNext
  <2>. QED  BY <2>2 DEF OnePending, Fit, State, disk
<1>19. CASE RecoverDone
  <2>1. job = Idle /\ recovery.queue = {} /\ UNCHANGED <<disk, job, recovery>> /\ writeState' = "ready"
    BY <1>19 DEF RecoverDone, OnePending
  <2>2. \A k \in Actions : State(k)' \notin Pending \union {"recovery-required"}
    BY <2>1, IdleIs DEF OnePending, State, disk
  <2>. QED  BY <1>z, <2>1, <2>2, IdleIs DEF OnePending
<1>20. CASE Crash
  <2>1. /\ job' = Idle /\ writeState' = "recovering" /\ UNCHANGED disk
        /\ recovery' = [queue |-> {k \in Actions : State(k) \in Pending}, clash |-> FALSE]
    BY <1>20 DEF Crash, State
  <2>2. \A i, j \in Actions : State(i) \in Pending /\ State(j) \in Pending => i = j
    <3>1. CASE job.step = "idle"
      BY <3>1 DEF OnePending
    <3>2. CASE job.step # "idle"
      BY <1>u, <3>2
    <3>. QED  BY <3>1, <3>2
  <2>3. \A k \in Actions : State(k) \in Pending => recovery'.queue = {k}
    BY <2>1, <2>2
  <2>. QED  BY <2>1, <2>3, IdleIs DEF OnePending, Fit, State, disk
<1>21. ASSUME NEW a \in Artifacts, NEW c \in {Absent, Original, Edited}, Edit(a, c)  PROVE FALSE
  BY <1>0, <1>21 DEF Edit, TypeOK
<1>22. ASSUME NEW k \in Actions, Rollback(k)  PROVE OnePending'
  <2>1. job'.step = "inspect" /\ job'.cause = "rollback" /\ UNCHANGED <<disk, recovery, writeState>>
    BY <1>0, <1>22, IdleIs DEF Rollback
  <2>2. \A j \in Actions : State(j) \notin Pending
    BY <1>22, <1>i DEF Rollback, Ready
  <2>3. \A j \in Actions : State(j)' \notin Pending \union {"recovery-required"}
    BY <2>1, <2>2 DEF OnePending, State, disk
  <2>. QED  BY <1>z, <2>1, <2>3 DEF OnePending
<1>. QED  BY <1>3, <1>4, <1>5, <1>7, <1>8, <1>9, <1>10, <1>12, <1>13, <1>14, <1>15, <1>16,
             <1>17, <1>18, <1>19, <1>20, <1>21, <1>22, <1>23 DEF Next, Worker, Execute, UndoAction

\* CrashNeedsNoHand: where no call fails and the editor writes nothing, a death of the
\* worker never leaves an action for somebody to repair, nor the writes closed.
THEOREM CrashIsUndone ==
  ASSUME MaxEdits = 0, Faults = {}
  PROVE  Spec => []CrashNeedsNoHand
<1>1. AllOrNone /\ OnePending => CrashNeedsNoHand
  BY DEF OnePending, CrashNeedsNoHand, State
<1>2. Init => OnePending
  BY OnePendingInit
<1>3. Typed /\ Numbered /\ Traced /\ OnePending /\ [Next]_vars => OnePending'
  BY OnePendingNext
<1>. QED  BY <1>1, <1>2, <1>3, NoHalfWrites, TypedInit, TypedNext, NumberedInit, NumberedNext,
             TracedInit, TracedNext, PTL DEF Spec

-----------------------------------------------------------------------------
(* The documents of AtomicDocuments *)

Over == InState({"rolling-back", "rolled-back"})
EntryOf(k) == [act |-> k, held |-> [a \in journal[k].targets |-> journal[k].base[a]]]

\* An output in a document is that of an action on it that was not rolled back.
LEMMA OutputIsLive ==
  ASSUME Chains, NEW a \in Artifacts, file[a] \in Actions
  PROVE  State(file[a]) \in Live /\ a \in journal[file[a]].targets
<1>1. PICK c \in SUBSET Actions : ChainOf(a, c)
  BY DEF Chains
<1>2. file[a] \in c
  BY <1>1, ActionsAreNat DEF ChainOf
<1>. QED  BY <1>1, <1>2 DEF ChainOf

\* An action that counts is not covered by its own base.
LEMMA KeptIsNotBase ==
  ASSUME Chains, Backups, NEW k \in Actions, State(k) \in Rollbackable,
         NEW a \in Artifacts, a \in journal[k].targets, Fit(k, a)
  PROVE  file[a] = k
<1>1. PICK c \in SUBSET Actions : ChainOf(a, c)
  BY DEF Chains
<1>2. k \in c
  BY <1>1 DEF ChainOf, Kept, State
<1>3. k <= file[a] /\ journal[k].base[a] < k /\ k \in Nat
  BY <1>1, <1>2, ActionsAreNat DEF ChainOf, Backups
<1>4. CASE file[a] = journal[k].base[a]
  <2>1. k <= journal[k].base[a]
    BY <1>3, <1>4
  <2>2. journal[k].base[a] \in c \union {Before(a)}
    BY <1>1, <1>2 DEF ChainOf
  <2>3. journal[k].base[a] \in Int
    BY <2>2, ActionsAreNat DEF Before, Original, Absent
  <2>. QED  BY <1>3, <2>1, <2>3
<1>. QED  BY <1>4 DEF Fit

\* What is to be seen changes only with the states of the manifests and with the files.
LEMMA StatesShow ==
  ASSUME TypeOK, NEW states, \A k \in Actions : State(k)' \in states <=> State(k) \in states
  PROVE  InState(states)' = InState(states)
BY DEF InState, State

LEMMA EntriesShow ==
  ASSUME TypeOK, InState(Rollbackable)' = InState(Rollbackable),
         \A k \in InState(Rollbackable) :
             journal'[k].targets = journal[k].targets /\ journal'[k].base = journal[k].base
  PROVE  Entries' = Entries
BY DEF Entries

LEMMA VisibleShows ==
  ASSUME NEW a \in Artifacts
  PROVE  /\ Visible[a] = IF file[a] \in InState(Pending) THEN journal[file[a]].base[a] ELSE file[a]
         /\ Visible'[a] = IF file'[a] \in InState(Pending)' THEN journal'[file'[a]].base[a]
                          ELSE file'[a]
BY DEF Visible

LEMMA VisibleStays ==
  ASSUME \A a \in Artifacts : Visible'[a] = Visible[a]
  PROVE  Visible' = Visible
BY DEF Visible

\* A step of the detailed specification that is one of the abstract specification's.
LEMMA Applies ==
  ASSUME NEW k \in Actions, NEW on \in SUBSET Artifacts, k \notin Over,
         \A e \in Entries : e.act # k,
         Visible' = [a \in Artifacts |-> IF a \in on THEN k ELSE Visible[a]],
         Entries' = Entries \cup {[act |-> k, held |-> [a \in on |-> Visible[a]]]},
         Over' = Over
  PROVE  Atomic!Next
BY DEF Over, Atomic!Next, Atomic!Apply

LEMMA Reverts ==
  ASSUME NEW e \in Entries,
         \A a \in DOMAIN e.held : Visible[a] = e.act,
         Visible' = [a \in Artifacts |-> IF a \in DOMAIN e.held THEN e.held[a] ELSE Visible[a]],
         Entries' = Entries \ {e},
         Over' = Over \cup {e.act}
  PROVE  Atomic!Next
BY DEF Over, Atomic!Next, Atomic!Revert

LEMMA GivesUp ==
  ASSUME NEW k \in Actions, \A e \in Entries : e.act # k,
         Over' = Over \cup {k}, Visible' = Visible, Entries' = Entries
  PROVE  Atomic!Next
BY DEF Over, Atomic!Next, Atomic!GiveUp

LEMMA Stutters ==
  ASSUME Over' = Over, Visible' = Visible, Entries' = Entries
  PROVE  UNCHANGED Atomic!vars
BY DEF Over, Atomic!vars

LEMMA AtomicInit == Init => Atomic!Init
<1>. SUFFICES ASSUME Init  PROVE Atomic!Init
  OBVIOUS
<1>1. \A k \in Actions : State(k) = "none"
  BY DEF Init, State, NoManifest
<1>2. InState(Pending) = {} /\ InState(Rollbackable) = {} /\ InState({"rolling-back", "rolled-back"}) = {}
  BY <1>1 DEF InState, State, Pending, Rollbackable
<1>3. Visible = [a \in Artifacts |-> IF a \in Existing THEN Original ELSE Absent]
  BY <1>2 DEF Init, Visible
<1>4. Entries = {}
  BY <1>2 DEF Entries
<1>. QED  BY <1>2, <1>3, <1>4 DEF Atomic!Init

LEMMA EntryIs ==
  /\ Entries = {EntryOf(k) : k \in InState(Rollbackable)}
  /\ \A k \in Actions : /\ EntryOf(k).act = k /\ DOMAIN EntryOf(k).held = journal[k].targets
                        /\ \A a \in journal[k].targets : EntryOf(k).held[a] = journal[k].base[a]
  /\ \A k \in Actions : State(k) \notin Rollbackable => \A e \in Entries : e.act # k
BY DEF Entries, EntryOf, InState, State

LEMMA AtomicNext ==
  ASSUME MaxEdits = 0, Faults = {}
  PROVE  Typed /\ Numbered /\ Traced /\ OnePending /\ [Next]_vars => [Atomic!Next]_(Atomic!vars)
<1>. SUFFICES ASSUME Typed, Numbered, Traced, OnePending, [Next]_vars
              PROVE  Atomic!Next \/ UNCHANGED Atomic!vars
  OBVIOUS
<1>0. /\ TypeOK /\ JobOK /\ RecoveryOK /\ journal \in [Actions -> Manifest] /\ job \in Job
      /\ file \in [Artifacts -> Content]
  BY DEF Typed, TypeOK
<1>t. /\ job.todo \in SUBSET Artifacts
      /\ job.todo # {} => NextTarget \in job.todo /\ LastTarget \in job.todo
  BY <1>0, Targets
<1>e. job.step # "idle" => /\ job.act \in Actions /\ job.todo \subseteq Current.targets
                           /\ Current.targets \in SUBSET Artifacts
  BY <1>0 DEF JobOK, Manifest, Current
<1>p. Chains /\ Backups /\ Progress
  <2>1. edits = 0
    BY DEF Typed, TypeOK
  <2>. QED  BY <2>1 DEF Traced
\* Only the action of the job is pending.
<1>u. ASSUME NEW k \in Actions, State(k) \in Pending, job.step # "idle"  PROVE k = job.act
  <2>1. job.cause = "recover" => State(job.act) \in Pending
    BY <1>0, <1>u DEF Job, Steps, JobOK, StateFits, Writing, Undoing, Pending
  <2>2. CASE job.cause = "recover"
    BY <1>e, <1>u, <2>1, <2>2 DEF OnePending
  <2>3. CASE job.cause # "recover"
    BY <1>u, <2>3 DEF OnePending
  <2>. QED  BY <2>2, <2>3
\* Nothing changes on disk but for the staged files.
<1>s. ASSUME file' = file, journal' = journal  PROVE UNCHANGED Atomic!vars
  <2>1. \A k \in Actions : State(k)' = State(k)
    BY <1>s DEF State
  <2>2. /\ InState(Pending)' = InState(Pending) /\ InState(Rollbackable)' = InState(Rollbackable)
        /\ Over' = Over
    BY <1>0, <2>1, StatesShow DEF Over
  <2>3. Entries' = Entries
    BY <1>0, <1>s, <2>2, EntriesShow
  <2>4. Visible' = Visible
    BY <1>s, <2>2 DEF Visible
  <2>. QED  BY <2>2, <2>3, <2>4, Stutters
\* A manifest goes to a state that means the same, and no document changes.
<1>m. ASSUME file' = file, NEW k \in Actions,
             \A j \in Actions : j # k => journal'[j] = journal[j],
             journal'[k].state \in Rollbackable <=> State(k) \in Rollbackable,
             State(k) \in Rollbackable =>
                journal'[k].targets = journal[k].targets /\ journal'[k].base = journal[k].base,
             journal'[k].state \in {"rolling-back", "rolled-back"} <=> State(k) \in {"rolling-back", "rolled-back"},
             \/ State(k) \notin Pending /\ journal'[k].state \notin Pending
             \/ \A a \in Artifacts : file[a] # k
             \/ State(k) \in Pending /\ journal'[k].state \in Pending /\ journal'[k].base = journal[k].base
      PROVE  UNCHANGED Atomic!vars
  <2>1. \A j \in Actions : j # k => State(j)' = State(j)
    BY <1>m DEF State
  <2>2. InState(Rollbackable)' = InState(Rollbackable) /\ Over' = Over
    <3>1. \A j \in Actions :
             /\ State(j)' \in Rollbackable <=> State(j) \in Rollbackable
             /\ State(j)' \in {"rolling-back", "rolled-back"}
                   <=> State(j) \in {"rolling-back", "rolled-back"}
      BY <1>m, <2>1 DEF State
    <3>. QED  BY <1>0, <3>1, StatesShow DEF Over
  <2>3. Entries' = Entries
    <3>1. \A j \in InState(Rollbackable) : j \in Actions /\ State(j) \in Rollbackable
      BY DEF InState, State
    <3>. QED  BY <1>0, <1>m, <2>2, <3>1, EntriesShow
  <2>4. ASSUME NEW a \in Artifacts  PROVE Visible'[a] = Visible[a]
    <3>1. \A j \in Actions : j # k => (j \in InState(Pending)' <=> j \in InState(Pending))
      BY <2>1 DEF InState, State
    <3>2. /\ k \in InState(Pending) <=> State(k) \in Pending
          /\ k \in InState(Pending)' <=> journal'[k].state \in Pending
      BY DEF InState, State
    <3>3. InState(Pending) \subseteq Actions /\ InState(Pending)' \subseteq Actions
      BY DEF InState
    <3>4. CASE file[a] \in Actions /\ file[a] # k
      BY <1>m, <3>1, <3>4, VisibleShows
    <3>5. CASE file[a] = k
      BY <1>m, <3>2, <3>5, VisibleShows
    <3>6. CASE file[a] \notin Actions
      BY <1>m, <3>3, <3>6, VisibleShows
    <3>. QED  BY <3>4, <3>5, <3>6
  <2>. QED  BY <2>2, <2>3, <2>4, VisibleStays, Stutters
\* An action that has not happened, or has been taken back, writes its output over its
\* base or its base over its output.
<1>w. ASSUME journal' = journal, job.step # "idle", State(job.act) \in Pending,
             NEW a \in Current.targets, NEW c, file' = [file EXCEPT ![a] = c],
             {file[a], c} \subseteq {job.act, Current.base[a]}
      PROVE  UNCHANGED Atomic!vars
  <2>1. \A k \in Actions : State(k)' = State(k)
    BY <1>w DEF State
  <2>2. /\ InState(Pending)' = InState(Pending) /\ InState(Rollbackable)' = InState(Rollbackable)
        /\ Over' = Over
    BY <1>0, <2>1, StatesShow DEF Over
  <2>3. Entries' = Entries
    BY <1>0, <1>w, <2>2, EntriesShow
  <2>4. InState(Pending) = {job.act}
    BY <1>e, <1>u, <1>w DEF InState, State
  <2>5. Current.base[a] # job.act
    BY <1>e, <1>p, <1>w, ActionsAreNat DEF Backups, Current
  <2>6. a \in Artifacts /\ file'[a] = c /\ \A b \in Artifacts : b # a => file'[b] = file[b]
    BY <1>0, <1>e, <1>w
  <2>7. Visible'[a] = Visible[a]
    BY <1>w, <2>2, <2>4, <2>5, <2>6, VisibleShows DEF Current
  <2>8. ASSUME NEW b \in Artifacts, b # a  PROVE Visible'[b] = Visible[b]
    BY <1>w, <2>2, <2>6, <2>8, VisibleShows
  <2>. QED  BY <2>2, <2>3, <2>7, <2>8, VisibleStays, Stutters
<1>1. CASE UNCHANGED vars
  BY <1>1, <1>s DEF vars
<1>2. ASSUME NEW k \in Actions, NEW targets \in SUBSET Artifacts, Confirm(k, targets)
      PROVE  UNCHANGED Atomic!vars
  <2>1. /\ file' = file /\ State(k) = "none" /\ State(k)' = "unwritten"
        /\ \A j \in Actions : j # k => journal'[j] = journal[j]
    BY <1>0, <1>2 DEF Confirm, State, NoManifest
  <2>. QED  BY <1>m, <2>1 DEF Pending, Rollbackable, State
<1>3. CASE Backup
  <2>1. CASE Throw
    BY <1>s, <2>1 DEF Throw, AnswerError, disk
  <2>2. CASE journal' = [journal EXCEPT ![job.act].pre[NextTarget] = file[NextTarget]] /\ file' = file
    <3>1. job.act \in Actions /\ NextTarget \in Artifacts
      BY <1>3, <1>e, <1>t DEF Backup
    <3>2. \A j \in Actions : /\ journal'[j].state = journal[j].state
                             /\ journal'[j].targets = journal[j].targets
                             /\ journal'[j].base = journal[j].base
                             /\ j # job.act => journal'[j] = journal[j]
      BY <1>0, <2>2, <3>1, PreimageIs DEF TypeOK
    <3>. QED  BY <1>m, <2>2, <3>1, <3>2 DEF State
  <2>. QED  BY <1>3, <2>1, <2>2 DEF Backup
\* The states of the manifest of the job.
<1>4. ASSUME NEW s \in ManifestStates, SetState(job.act, s), job.step # "idle"
      PROVE  /\ job.act \in Actions /\ journal'[job.act].state = s
             /\ \A j \in Actions : /\ j # job.act => journal'[j] = journal[j]
                                   /\ journal'[j].targets = journal[j].targets
                                   /\ journal'[j].base = journal[j].base
  BY <1>0, <1>4, <1>e, StateIsSet DEF State
<1>5. CASE WriteManifest
  <2>1. file' = file /\ SetState(job.act, "preparing") /\ job.step = "backup"
    BY <1>5 DEF WriteManifest
  <2>2. State(job.act) = "unwritten"
    BY <1>0, <2>1 DEF JobOK, StateFits
  <2>3. \A a \in Artifacts : file[a] # job.act
    BY <1>e, <1>p, <2>1, <2>2, OutputIsLive DEF Live, Pending, Rollbackable
  <2>4. "preparing" \in ManifestStates
    BY DEF ManifestStates, Pending
  <2>. QED  BY <1>4, <1>m, <2>1, <2>2, <2>3, <2>4 DEF Rollbackable, State
<1>6. CASE StartPublishing
  <2>1. file' = file /\ SetState(job.act, "publishing") /\ job.step = "stage"
    BY <1>6 DEF StartPublishing
  <2>2. State(job.act) = "preparing"
    BY <1>0, <2>1 DEF JobOK, StateFits
  <2>3. "publishing" \in ManifestStates
    BY DEF ManifestStates, Pending
  <2>. QED  BY <1>4, <1>m, <2>1, <2>2, <2>3 DEF Pending, Rollbackable, State
<1>7. CASE Refresh \/ RefreshFails \/ InspectClash
  <2>1. file' = file /\ \E s \in Rollbackable : SetState(job.act, s)
    BY <1>7 DEF Refresh, RefreshFails, InspectClash, StaleState, EndJob, OnePending, Rollbackable
  <2>2. job.step # "idle" /\ State(job.act) \in Rollbackable
    BY <1>0, <1>7 DEF Refresh, RefreshFails, InspectClash, StaleState, JobOK, StateFits, OnePending, Rollbackable
  <2>3. Rollbackable \subseteq ManifestStates
    BY DEF ManifestStates
  <2>. QED  BY <1>4, <1>m, <2>1, <2>2, <2>3 DEF Pending, Rollbackable, State
<1>8. CASE Undone
  <2>1. file' = file /\ SetState(job.act, "rolled-back") /\ job.step = "look" /\ job.todo = {}
    BY <1>8 DEF Undone, EndJob
  <2>2. State(job.act) = "rolling-back" /\ job.act \in Actions
    BY <1>0, <1>e, <2>1 DEF JobOK, StateFits, Undoing
  <2>3. ASSUME NEW a \in Artifacts  PROVE file[a] # job.act
    <3>1. CASE a \in Current.targets
      <4>1. file[a] = Current.base[a]
        BY <1>p, <2>1, <3>1 DEF Progress, Undoing, AsFound, Current
      <4>. QED  BY <1>p, <2>2, <3>1, <4>1, ActionsAreNat DEF Backups, Current
    <3>2. CASE a \notin Current.targets
      BY <1>p, <2>2, <3>2, OutputIsLive DEF Current
    <3>. QED  BY <3>1, <3>2
  <2>4. "rolled-back" \in ManifestStates
    BY DEF ManifestStates
  <2>. QED  BY <1>4, <1>m, <2>1, <2>2, <2>3, <2>4 DEF Rollbackable, State
\* The commit: every target holds the output.
<1>9. CASE Commit
  <2>. DEFINE k == job.act
  <2>1. /\ file' = file /\ SetState(k, "committed") /\ job.step = "check" /\ job.todo = {}
        /\ "committed" \in ManifestStates
    BY <1>9 DEF Commit, ManifestStates, Rollbackable
  <2>2. State(k) = "publishing" /\ k \in Actions /\ Current.targets \in SUBSET Artifacts
    BY <1>0, <1>e, <2>1 DEF JobOK, StateFits, Writing
  <2>3. /\ journal'[k].state = "committed"
        /\ \A j \in Actions : /\ j # k => journal'[j] = journal[j] /\ State(j)' = State(j)
                              /\ journal'[j].targets = journal[j].targets
                              /\ journal'[j].base = journal[j].base
    BY <1>4, <2>1, <2>2 DEF State
  <2>4. \A a \in Current.targets : file[a] = k
    BY <1>p, <2>1 DEF Progress, Writing
  <2>5. \A a \in Artifacts \ Current.targets : file[a] # k
    BY <1>p, <2>2, OutputIsLive DEF Current
  <2>6. /\ InState(Pending) = {k} /\ InState(Pending)' = {}
        /\ InState(Rollbackable)' = InState(Rollbackable) \union {k}
    <3>1. InState(Pending) = {k}
      BY <1>u, <2>1, <2>2 DEF InState, State, Pending
    <3>2. \A j \in Actions : j # k => State(j)' \notin Pending
      BY <1>u, <2>1, <2>3
    <3>3. InState(Pending)' = {}
      BY <2>3, <3>2 DEF InState, State, Pending
    <3>4. InState(Rollbackable)' = InState(Rollbackable) \union {k}
      BY <2>2, <2>3 DEF InState, State, Rollbackable
    <3>. QED  BY <3>1, <3>3, <3>4
  <2>7. k \notin Over /\ Over' = Over /\ \A e \in Entries : e.act # k
    <3>1. State(k) \notin Rollbackable
      BY <2>2 DEF Rollbackable
    <3>2. k \notin Over
      BY <2>2 DEF Over, InState, State
    <3>3. \A j \in Actions : State(j)' \in {"rolling-back", "rolled-back"}
                              <=> State(j) \in {"rolling-back", "rolled-back"}
      BY <2>2, <2>3 DEF State
    <3>. QED  BY <1>0, <2>2, <3>1, <3>2, <3>3, EntryIs, StatesShow DEF Over
  <2>8. \A a \in Artifacts : Visible[a] = IF a \in Current.targets THEN Current.base[a] ELSE file[a]
    BY <2>4, <2>5, <2>6, VisibleShows DEF Current
  <2>9. Visible' = [a \in Artifacts |-> IF a \in Current.targets THEN k ELSE Visible[a]]
    BY <2>1, <2>4, <2>6, <2>8 DEF Visible
  <2>10. Entries' = Entries \cup {[act |-> k, held |-> [a \in Current.targets |-> Visible[a]]]}
    <3>1. EntryOf(k) = [act |-> k, held |-> [a \in Current.targets |-> Visible[a]]]
      BY <2>2, <2>8 DEF EntryOf, Current
    <3>2. \A j \in Actions : EntryOf(j)' = EntryOf(j)
      BY <2>3 DEF EntryOf
    <3>3. Entries = {EntryOf(j) : j \in InState(Rollbackable)}
      BY EntryIs
    <3>4. Entries' = {EntryOf(j)' : j \in InState(Rollbackable)'}
      BY DEF Entries, EntryOf
    <3>5. InState(Rollbackable) \subseteq Actions
      BY DEF InState
    <3>. QED  BY <2>2, <2>6, <3>1, <3>2, <3>3, <3>4, <3>5
  <2>. QED  BY <2>2, <2>7, <2>9, <2>10, Applies
\* The record of an undoing: of an action that has happened, which is the last on each
\* of its targets, or of one that has not.
<1>10. CASE StartUndoing
  <2>. DEFINE k == job.act
  <2>1. /\ file' = file /\ SetState(k, "rolling-back") /\ job.step = "inspect" /\ job.todo = {}
        /\ ~job.clash /\ "rolling-back" \in ManifestStates
    BY <1>10 DEF StartUndoing, ManifestStates, Pending
  <2>2. k \in Actions /\ Current.targets \in SUBSET Artifacts
    BY <1>e, <2>1
  <2>3. /\ journal'[k].state = "rolling-back"
        /\ \A j \in Actions : /\ j # k => journal'[j] = journal[j] /\ State(j)' = State(j)
                              /\ journal'[j].targets = journal[j].targets
                              /\ journal'[j].base = journal[j].base
    BY <1>4, <2>1, <2>2 DEF State
  <2>4. Over' = Over \cup {k}
    BY <2>2, <2>3 DEF Over, InState, State
  <2>5. k \in InState(Pending)' /\ k \notin InState(Rollbackable)'
    BY <2>2, <2>3 DEF InState, State, Pending, Rollbackable
  <2>6. CASE State(k) \in Pending
    <3>1. State(k) \notin Rollbackable
      BY <2>6 DEF Pending, Rollbackable
    <3>2. \A j \in Actions : /\ State(j)' \in Rollbackable <=> State(j) \in Rollbackable
                             /\ State(j)' \in Pending <=> State(j) \in Pending
      BY <2>3, <2>6, <3>1 DEF Pending, Rollbackable, State
    <3>3. InState(Rollbackable)' = InState(Rollbackable) /\ InState(Pending)' = InState(Pending)
      BY <1>0, <3>2, StatesShow
    <3>4. InState(Rollbackable) \subseteq Actions /\ InState(Pending) \subseteq Actions
      BY DEF InState
    <3>5. Entries' = Entries
      BY <1>0, <2>3, <3>3, <3>4, EntriesShow
    <3>6. Visible' = Visible
      BY <2>1, <2>3, <3>3, <3>4, VisibleShows, VisibleStays
    <3>. QED  BY <2>2, <2>4, <3>1, <3>5, <3>6, EntryIs, GivesUp
  <2>7. CASE State(k) \notin Pending
    <3>1. State(k) \in Rollbackable
      BY <1>0, <2>1, <2>7 DEF JobOK, StateFits
    <3>2. \A a \in Current.targets : Fit(k, a)
      BY <1>p, <2>1 DEF Progress
    <3>3. \A a \in Current.targets : file[a] = k
      BY <1>p, <2>2, <3>1, <3>2, KeptIsNotBase DEF Current
    <3>4. \A a \in Artifacts \ Current.targets : file[a] # k
      BY <1>p, <2>2, OutputIsLive DEF Current
    <3>5. InState(Pending) = {} /\ InState(Pending)' = {k}
          /\ InState(Rollbackable)' = InState(Rollbackable) \ {k} /\ k \in InState(Rollbackable)
      <4>1. \A j \in Actions : State(j) \notin Pending
        BY <1>u, <2>1, <2>7
      <4>. QED  BY <2>2, <2>3, <2>5, <3>1, <4>1 DEF InState, State
    <3>6. \A a \in Current.targets : Visible[a] = k
      BY <2>2, <3>3, <3>5, VisibleShows
    <3>7. Visible' = [a \in Artifacts |-> IF a \in Current.targets THEN Current.base[a] ELSE Visible[a]]
      BY <2>1, <2>2, <2>3, <3>3, <3>4, <3>5 DEF Visible, Current
    <3>8. Entries' = Entries \ {EntryOf(k)} /\ EntryOf(k) \in Entries
      <4>1. \A j \in Actions : EntryOf(j)' = EntryOf(j)
        BY <2>3 DEF EntryOf
      <4>2. Entries' = {EntryOf(j)' : j \in InState(Rollbackable)'}
        BY DEF Entries, EntryOf
      <4>3. InState(Rollbackable) \subseteq Actions
        BY DEF InState
      <4>4. \A j \in Actions : EntryOf(j) = EntryOf(k) => j = k
        BY <2>2, EntryIs
      <4>. QED  BY <2>2, <3>5, <4>1, <4>2, <4>3, <4>4, EntryIs
    <3>9. /\ EntryOf(k).act = k /\ DOMAIN EntryOf(k).held = Current.targets
          /\ \A a \in Current.targets : EntryOf(k).held[a] = Current.base[a]
      BY <2>2, EntryIs DEF Current
    <3>10. Visible' = [a \in Artifacts |->
                         IF a \in DOMAIN EntryOf(k).held THEN EntryOf(k).held[a] ELSE Visible[a]]
      BY <3>7, <3>9
    <3>. QED  BY <2>4, <3>6, <3>8, <3>9, <3>10, Reverts
  <2>. QED  BY <2>6, <2>7
<1>11. CASE PublishCreate \/ PublishReplace
  <2>1. CASE Abort
    BY <1>s, <2>1 DEF Abort, disk
  <2>2. CASE /\ file' = [file EXCEPT ![NextTarget] = job.act] /\ journal' = journal
    <3>1. job.step = "publish" /\ job.todo # {}
      BY <1>0, <1>11 DEF PublishCreate, PublishReplace, JobOK
    <3>2. State(job.act) \in Pending /\ NextTarget \in Current.targets
      BY <1>0, <1>e, <1>t, <3>1 DEF JobOK, StateFits, Writing, Pending
    <3>3. file[NextTarget] = Current.base[NextTarget]
      BY <1>p, <1>t, <3>1, <3>2 DEF Progress, Writing, AsFound, Current
    <3>. QED  BY <1>w, <2>2, <3>1, <3>2, <3>3
  <2>. QED  BY <1>11, <2>1, <2>2 DEF PublishCreate, PublishReplace
<1>12. CASE Undo
  <2>1. CASE Throw
    BY <1>s, <2>1 DEF Throw, AnswerError, disk
  <2>2. CASE job.seen # job.act /\ ~UnlinkFails
    BY <1>12, <1>s, <2>2 DEF Undo
  <2>3. CASE job.seen = job.act /\ ~UnlinkFails
    <3>1. /\ job.step = "undo" /\ journal' = journal
          /\ file' = [file EXCEPT ![LastTarget] =
                        IF IsCreate(job.act, LastTarget) THEN Absent ELSE Current.pre[LastTarget]]
      BY <1>12, <2>3 DEF Undo
    <3>2. job.todo # {} /\ State(job.act) \in Pending
      BY <1>0, <3>1 DEF JobOK, StateFits, Undoing, Pending
    <3>3. LastTarget \in Current.targets /\ job.act \in Actions
      BY <1>e, <1>t, <3>1, <3>2
    <3>4. file[LastTarget] = job.act
      BY <1>p, <2>3, <3>1 DEF Progress
    <3>5. (IF IsCreate(job.act, LastTarget) THEN Absent ELSE Current.pre[LastTarget])
             = Current.base[LastTarget]
      BY <1>p, <3>2, <3>3 DEF Backups, IsCreate, Current, Live
    <3>. QED  BY <1>w, <3>1, <3>2, <3>3, <3>4, <3>5
  <2>. QED  BY <1>12, <2>1, <2>2, <2>3 DEF Undo
<1>13. CASE WriteStage \/ Check \/ Unstage \/ Inspect \/ Look \/ Clean \/ RecoverNext \/ RecoverDone \/ Crash
            \/ \E k \in Actions : Rollback(k)
  BY <1>13, <1>s DEF WriteStage, Check, Abort, Unstage, Inspect, Look, Clean, RecoverNext, RecoverDone, Crash,
                     Rollback, disk
<1>14. CASE ExecuteFails \/ OutsideFails \/ WrittenThenFails
  BY <1>14 DEF ExecuteFails, OutsideFails, WrittenThenFails
<1>15. ASSUME NEW a \in Artifacts, NEW c \in {Absent, Original, Edited}, Edit(a, c)  PROVE FALSE
  BY <1>0, <1>15 DEF Edit, TypeOK
<1>. QED  BY <1>1, <1>2, <1>3, <1>5, <1>6, <1>7, <1>8, <1>9, <1>10, <1>11, <1>12, <1>13, <1>14, <1>15
          DEF Next, Worker, Execute, UndoAction

\* DocumentsAreAtomic: where no call fails and the editor writes nothing, the documents
\* and the journal together implement AtomicDocuments, whenever the worker dies.
THEOREM ImplementsAtomicDocuments ==
  ASSUME MaxEdits = 0, Faults = {}
  PROVE  Spec => DocumentsAreAtomic
<1>1. Init => OnePending
  BY OnePendingInit
<1>2. Typed /\ Numbered /\ Traced /\ OnePending /\ [Next]_vars => OnePending'
  BY OnePendingNext
<1>3. Typed /\ Numbered /\ Traced /\ OnePending /\ [Next]_vars => [Atomic!Next]_(Atomic!vars)
  BY AtomicNext
<1>. QED  BY <1>1, <1>2, <1>3, AtomicInit, TypedInit, TypedNext, NumberedInit, NumberedNext,
             TracedInit, TracedNext, PTL DEF Spec, DocumentsAreAtomic, Atomic!Spec

==============================================================================
