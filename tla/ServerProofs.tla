---------------------------- MODULE ServerProofs ----------------------------
(***************************************************************************)
(* Proofs about the server process of start() (server.ts).                 *)
(*                                                                         *)
(* Its listener and the uploads in it, OuterServer: for every set of       *)
(* requests and sockets, all sizes and limits, and every choice of faults. *)
(*                                                                         *)
(* The lock file it takes before and gives back after, InstanceLock: for   *)
(* any set of processes and of events.  OneInstance and LeftoverNeverFatal *)
(* hold until the first disorder, a start that overlaps another for one;   *)
(* NoLeftoverLock until the first kill, in every interleaving;             *)
(* SomeoneServes in every interleaving, kills included.                    *)
(*                                                                         *)
(* The two share no variable and are proved side by side.                  *)
(***************************************************************************)
EXTENDS InstanceLock, OuterServer, FiniteSetTheorems, TLAPS

-----------------------------------------------------------------------------
(* Types *)

\* What a helper's variables range over after it: Reply, Abort, Release, End,
\* Fail and Goto keep the types of what they change.
LEMMA ReplyTypes ==
  ASSUME UploadTypeOK, NEW r \in Requests, NEW what \in Answers \cup {"none"}, Reply(r, what)
  PROVE  /\ conn' \in [Requests -> {"none", "open", "closed"}]
         /\ at' \in [Requests -> HandlerStates]
         /\ answer' \in [Requests -> Answers \cup {"none"}]
  BY DEF Reply, UploadTypeOK, HandlerStates

LEMMA AbortTypes ==
  ASSUME UploadTypeOK, NEW R \in SUBSET Requests, Abort(R)
  PROVE  /\ aborted' \in [Requests -> BOOLEAN]
         /\ cause' \in [Requests -> Failures \cup {"none"}]
<1> DEFINE hit == {q \in R : tx[q] \in Live /\ ~aborted[q]}
<1>1. aborted' = [q \in Requests |-> aborted[q] \/ q \in hit]
  BY Zenon DEF Abort
<1>2. cause' = [q \in Requests |->
                   IF q \in hit /\ tx[q] \in Storing /\ cause[q] = "none"
                   THEN "incomplete" ELSE cause[q]]
  BY Zenon DEF Abort
<1> HIDE DEF hit
<1>3. aborted' \in [Requests -> BOOLEAN]
  BY <1>1 DEF UploadTypeOK
<1>4. cause' \in [Requests -> Failures \cup {"none"}]
  BY <1>2 DEF UploadTypeOK, Failures
<1> QED
  BY <1>3, <1>4

\* One request is a finite number of pairs, as many as it declares bytes.
LEMMA ShareIs ==
  ASSUME NEW r \in Requests
  PROVE  /\ Size[r] \in Nat \ {0}
         /\ IsFiniteSet({r} \X (1..Size[r]))
         /\ Cardinality({r} \X (1..Size[r])) = Size[r]
<1>1. Size[r] \in Nat \ {0}
  BY SizesArePositive
<1>2. IsFiniteSet(1..Size[r]) /\ Cardinality(1..Size[r]) = Size[r]
  BY <1>1, FS_Interval
<1>3. IsFiniteSet({r}) /\ Cardinality({r}) = 1
  BY FS_Singleton
<1>4. /\ IsFiniteSet({r} \X (1..Size[r]))
      /\ Cardinality({r} \X (1..Size[r])) = Cardinality({r}) * Cardinality(1..Size[r])
  BY <1>2, <1>3, FS_Product, Zenon
<1> QED
  BY <1>1, <1>2, <1>3, <1>4

\* Finitely many requests declare finitely many bytes.
LEMMA BytesAreFinite ==
  ASSUME NEW R \in SUBSET Requests, IsFiniteSet(R)
  PROVE  IsFiniteSet(Declared(R)) /\ Bytes(R) \in Nat
<1> DEFINE shares == {{r} \X (1..Size[r]) : r \in R}
           share == [r \in R |-> {r} \X (1..Size[r])]
<1>1. share \in Surjection(R, shares)
  <2>1. share \in [R -> shares]
    OBVIOUS
  <2>2. \A t \in shares : \E r \in R : share[r] = t
    OBVIOUS
  <2> QED
    BY <2>1, <2>2 DEF Surjection
<1>2. IsFiniteSet(shares)
  BY <1>1, FS_Surjection
<1>3. \A t \in shares : IsFiniteSet(t)
  BY ShareIs
<1>4. IsFiniteSet(UNION shares)
  <2> HIDE DEF shares
  <2> QED
    BY <1>2, <1>3, FS_UNION
<1> QED
  BY <1>4, FS_CardinalityType DEF Declared, Bytes

\* A request more adds what it declares.
LEMMA BytesAdded ==
  ASSUME NEW R \in SUBSET Requests, IsFiniteSet(R), NEW r \in Requests, r \notin R
  PROVE  Bytes(R \cup {r}) = Bytes(R) + Size[r]
<1> DEFINE share == {r} \X (1..Size[r])
<1>1. Declared(R \cup {r}) = Declared(R) \cup share
  BY DEF Declared
<1>2. Declared(R) \cap share = {}
  BY DEF Declared
<1>3. IsFiniteSet(Declared(R)) /\ Cardinality(Declared(R)) \in Nat
  BY BytesAreFinite DEF Bytes
<1>4. IsFiniteSet(share) /\ Cardinality(share) = Size[r] /\ Size[r] \in Nat
  BY ShareIs
<1> HIDE DEF share
<1>5. Cardinality(Declared(R) \cup share)
        = Cardinality(Declared(R)) + Cardinality(share) - Cardinality(Declared(R) \cap share)
  BY <1>3, <1>4, FS_Union
<1>6. Cardinality(Declared(R) \cap share) = 0
  BY <1>2, FS_EmptySet, Zenon
<1>7. Cardinality(Declared(R) \cup share) = Cardinality(Declared(R)) + Size[r]
  BY <1>3, <1>4, <1>5, <1>6
<1>8. Bytes(R \cup {r}) = Cardinality(Declared(R) \cup share)
  BY <1>1, Zenon DEF Bytes
<1>9. Bytes(R) = Cardinality(Declared(R))
  BY Zenon DEF Bytes
<1> QED
  BY <1>7, <1>8, <1>9

\* Some requests less take away what they declare.
LEMMA BytesTaken ==
  ASSUME NEW R \in SUBSET Requests, IsFiniteSet(R), NEW T \in SUBSET R
  PROVE  Bytes(R \ T) = Bytes(R) - Bytes(T)
<1>1. Declared(R \ T) = Declared(R) \ Declared(T)
  BY DEF Declared
<1>2. Declared(R) \cap Declared(T) = Declared(T)
  BY DEF Declared
<1>3. IsFiniteSet(Declared(R))
  BY BytesAreFinite
<1>4. Cardinality(Declared(R) \ Declared(T))
        = Cardinality(Declared(R)) - Cardinality(Declared(R) \cap Declared(T))
  BY <1>3, FS_Difference
<1>5. Bytes(R \ T) = Cardinality(Declared(R) \ Declared(T))
  BY <1>1, Zenon DEF Bytes
<1>6. Bytes(R) = Cardinality(Declared(R)) /\ Bytes(T) = Cardinality(Declared(T))
  BY Zenon DEF Bytes
<1> QED
  BY <1>2, <1>4, <1>5, <1>6, Zenon

LEMMA ReleaseTypes ==
  ASSUME UploadTypeOK, NEW R \in SUBSET Requests, Release(R)
  PROVE  /\ leases' \in SUBSET Requests
         /\ IsFiniteSet(leases')
         /\ reservedBytes' \in Int
<1> DEFINE held == R \cap leases
<1>1. held \in SUBSET leases /\ leases \in SUBSET Requests /\ IsFiniteSet(leases)
  BY DEF UploadTypeOK
<1>2. IsFiniteSet(held) /\ held \in SUBSET Requests
  BY <1>1, FS_Subset
<1>3. Bytes(held) \in Nat
  BY <1>2, BytesAreFinite
<1>4. leases' = leases \ held /\ reservedBytes' = reservedBytes - Bytes(held)
  BY Zenon DEF Release
<1>5. IsFiniteSet(leases')
  BY <1>1, <1>4, FS_Difference
<1> QED
  BY <1>1, <1>3, <1>4, <1>5 DEF UploadTypeOK

LEMMA EndTypes ==
  ASSUME UploadTypeOK, NEW r \in Requests, End(r)
  PROVE  /\ tx' \in [Requests -> Live \cup {"none", "ended"}]
         /\ aborted' \in [Requests -> BOOLEAN]
         /\ body' \in [Requests -> {"partial", "whole"}]
         /\ tries' \in [Requests -> 0..MaxTries]
         /\ leases' \in SUBSET Requests /\ IsFiniteSet(leases')
         /\ reservedBytes' \in Int
         /\ admissionClosed' \in BOOLEAN
<1>1. leases' \in SUBSET Requests /\ IsFiniteSet(leases') /\ reservedBytes' \in Int
  BY ReleaseTypes, {r} \in SUBSET Requests DEF End
<1>2. tx' \in [Requests -> Live \cup {"none", "ended"}]
  BY DEF End, Goto, UploadTypeOK
<1>3. tries' \in [Requests -> 0..MaxTries]
  BY LimitsAreNat DEF End, UploadTypeOK
<1> QED
  BY <1>1, <1>2, <1>3 DEF End, UploadTypeOK

\* One step of request r keeps the types of the upload server's state.
LEMMA RequestTypes ==
  ASSUME UploadTypeOK, NEW r \in Requests,
         \/ Arrive(r) \/ Handle(r) \/ ContinueThrows(r)
         \/ Disconnect(r) \/ SendBody(r) \/ TimeOut(r) \/ Transact(r) \/ PipelineFails(r)
  PROVE  UploadTypeOK'
<1> USE DEF handler, file, admission, server
<1> "refused" \in Answers
  BY DEF Answers
<1> "incomplete" \in Failures /\ "storage" \in Failures
  BY DEF Failures
<1> {"ready", "refresh", "auth", "done", "result"} \subseteq HandlerStates
  BY DEF HandlerStates
<1> {"created", "waiting", "preparing", "streaming", "closing", "publishing",
     "linking", "unlinking", "cleaning"} \subseteq Live
  BY DEF Live, Storing
<1>1. CASE Arrive(r)
  BY <1>1, ReplyTypes DEF Arrive, UploadTypeOK
<1>2. CASE Authorized(r) \/ Refreshed(r)
  <2>1. UNCHANGED <<aborted, cause, file, admissionClosed, server>>
    BY <1>2 DEF Authorized, Refreshed
  <2>2. CASE /\ Reply(r, "refused")
             /\ UNCHANGED <<tx, leases, reservedBytes>>
    BY <2>1, <2>2, ReplyTypes DEF UploadTypeOK
  <2>3. CASE /\ leases' = leases \cup {r}
             /\ reservedBytes' = reservedBytes + Size[r]
             /\ tx' = [tx EXCEPT ![r] = "created"]
             /\ at' = [at EXCEPT ![r] = "ready"]
             /\ UNCHANGED <<conn, answer>>
    <3>1. Size[r] \in Int
      BY SizesArePositive
    <3>2. /\ reservedBytes' \in Int
          /\ leases' \in SUBSET Requests /\ IsFiniteSet(leases')
      BY <2>3, <3>1, FS_AddElement DEF UploadTypeOK
    <3>3. /\ tx' \in [Requests -> Live \cup {"none", "ended"}]
          /\ at' \in [Requests -> HandlerStates]
      BY <2>3 DEF UploadTypeOK
    <3> QED
      BY <2>1, <2>3, <3>2, <3>3 DEF UploadTypeOK
  <2>4. CASE /\ at' = [at EXCEPT ![r] = "refresh"] \/ at' = [at EXCEPT ![r] = "done"]
             /\ UNCHANGED <<conn, answer, tx, leases, reservedBytes>>
    BY <2>1, <2>4 DEF UploadTypeOK
  <2> QED
    BY <1>2, <2>2, <2>3, <2>4 DEF Authorized, Refreshed, Admit, Reserve
<1>3. CASE Continue(r)
  <2>1. CASE aborted[r]
    BY <1>3, <2>1, EndTypes DEF Continue, UploadTypeOK
  <2>2. CASE ~aborted[r]
    BY <1>3, <2>2 DEF Continue, Goto, UploadTypeOK
  <2> QED
    BY <2>1, <2>2
<1>4. CASE ContinueThrows(r)
  BY <1>4, EndTypes DEF ContinueThrows, UploadTypeOK
<1>5. CASE Respond(r)
  <2>1. (IF stored[r] # "absent" THEN "ok" ELSE cause[r]) \in Answers \cup {"none"}
    BY DEF UploadTypeOK, Answers
  <2> QED
    BY <1>5, <2>1, ReplyTypes DEF Respond, UploadTypeOK
<1>6. CASE Disconnect(r) \/ TimeOut(r)
  <2>1. PICK R \in SUBSET Requests : Abort(R)
    BY <1>6, {r} \in SUBSET Requests, {q \in {r} : tx[q] # "created"} \in SUBSET Requests
       DEF Disconnect, TimeOut, Hangup
  <2>2. conn' \in [Requests -> {"none", "open", "closed"}]
    BY <1>6 DEF Disconnect, TimeOut, Hangup, UploadTypeOK
  <2> QED
    BY <1>6, <2>1, <2>2, AbortTypes DEF Disconnect, TimeOut, UploadTypeOK
<1>7. CASE SendBody(r) \/ Execute(r)
  <2>1. CASE SendBody(r)
    BY <2>1 DEF SendBody, UploadTypeOK
  <2>2. CASE Execute(r)
    <3>1. /\ tx' \in [Requests -> Live \cup {"none", "ended"}]
          /\ aborted' \in [Requests -> BOOLEAN]
      BY <2>2 DEF Execute, UploadTypeOK
    <3> QED
      BY <2>2, <3>1 DEF Execute, UploadTypeOK
  <2> QED
    BY <1>7, <2>1, <2>2
<1>8. CASE Prepare(r)
  <2>1. /\ tx' \in [Requests -> Live \cup {"none", "ended"}]
        /\ cause' \in [Requests -> Failures \cup {"none"}]
    BY <1>8 DEF Prepare, Fail, Goto, UploadTypeOK
  <2>2. part' \in [Requests -> BOOLEAN]
    BY <1>8 DEF Prepare, UploadTypeOK
  <2> QED
    BY <1>8, <2>1, <2>2 DEF Prepare, UploadTypeOK
<1>9. CASE PipelineEnds(r) \/ PipelineFails(r)
  <2>1. \/ Fail(r, "incomplete") \/ Fail(r, "storage")
        \/ Goto(r, "closing") /\ UNCHANGED cause
    BY <1>9 DEF PipelineEnds, PipelineFails
  <2>2. /\ tx' \in [Requests -> Live \cup {"none", "ended"}]
        /\ cause' \in [Requests -> Failures \cup {"none"}]
    BY <2>1 DEF Fail, Goto, UploadTypeOK
  <2> QED
    BY <1>9, <2>2 DEF PipelineEnds, PipelineFails, UploadTypeOK
<1>10. CASE CloseFile(r) \/ Publish(r)
  <2>1. \/ Fail(r, "incomplete") \/ Fail(r, "storage")
        \/ (Goto(r, "publishing") \/ Goto(r, "linking")) /\ UNCHANGED cause
    BY <1>10 DEF CloseFile, Publish
  <2>2. /\ tx' \in [Requests -> Live \cup {"none", "ended"}]
        /\ cause' \in [Requests -> Failures \cup {"none"}]
    BY <2>1 DEF Fail, Goto, UploadTypeOK
  <2> QED
    BY <1>10, <2>2 DEF CloseFile, Publish, UploadTypeOK
<1>11. CASE Link(r)
  <2>1. tries[r] < MaxTries => tries[r] + 1 \in 0..MaxTries
    BY LimitsAreNat DEF UploadTypeOK
  <2>2. stored' \in [Requests -> {"absent", "partial", "whole"}]
    BY <1>11 DEF Link, UploadTypeOK
  <2>3. tries' \in [Requests -> 0..MaxTries]
    BY <1>11, <2>1 DEF Link, UploadTypeOK
  <2>4. /\ tx' \in [Requests -> Live \cup {"none", "ended"}]
        /\ cause' \in [Requests -> Failures \cup {"none"}]
    BY <1>11 DEF Link, Fail, Goto, UploadTypeOK
  <2> QED
    BY <1>11, <2>2, <2>3, <2>4 DEF Link, UploadTypeOK
<1>12. CASE Unlink(r)
  BY <1>12, EndTypes DEF Unlink, UploadTypeOK
<1>13. CASE Clean(r)
  <2>1. /\ part' \in [Requests -> BOOLEAN]
        /\ cause' \in [Requests -> Failures \cup {"none"}]
    <3>1. CASE part' = [part EXCEPT ![r] = FALSE] /\ UNCHANGED cause
      BY <3>1 DEF UploadTypeOK
    <3>2. CASE cause' = [cause EXCEPT ![r] = "storage"]
               /\ \E stays \in BOOLEAN : part' = [part EXCEPT ![r] = stays]
      BY <3>2 DEF UploadTypeOK
    <3> QED
      BY <1>13, <3>1, <3>2 DEF Clean
  <2> QED
    BY <1>13, <2>1, EndTypes DEF Clean, UploadTypeOK
<1> QED
  BY <1>1, <1>2, <1>3, <1>4, <1>5, <1>6, <1>7, <1>8, <1>9, <1>10, <1>11, <1>12, <1>13
     DEF Handle, Transact

\* So does one of the server's own steps.
LEMMA ServerTypes ==
  ASSUME UploadTypeOK, Sweep \/ SweepTimer \/ Drain \/ Drained
  PROVE  UploadTypeOK'
<1> USE DEF handler, file, admission, server, MaintStates
<1>1. CASE Sweep
  <2>1. part' \in [Requests -> BOOLEAN]
    BY <1>1 DEF Sweep
  <2> QED
    BY <1>1, <2>1 DEF Sweep, UploadTypeOK
<1>2. CASE SweepTimer \/ Drained
  BY <1>2 DEF SweepTimer, Drained, UploadTypeOK
<1>3. CASE Drain
  <2>1. awaited' \in SUBSET (Requests \cup {"sweep"})
    BY <1>3 DEF Drain, Active
  <2>2. Requests \in SUBSET Requests
    OBVIOUS
  <2>3. Release(Requests) /\ Abort(Requests)
    BY <1>3 DEF Drain
  <2> QED
    BY <1>3, <2>1, <2>2, <2>3, ReleaseTypes, AbortTypes DEF Drain, UploadTypeOK
<1> QED
  BY <1>1, <1>2, <1>3

\* Every variable stays in its domain, of the uploads and of the server
\* around them (TypeOK).
THEOREM TypeCorrect == Spec => []TypeOK
<1> USE DEF StartStates, StopStates, handler, file, admission, server, lifecycle
<1>1. Init => TypeOK
  <2>1. 0 \in 0..MaxTries /\ 0 \in Int
    BY LimitsAreNat
  <2>2. Init => UploadTypeOK
    <3> SUFFICES ASSUME UploadInit PROVE UploadTypeOK
      BY DEF Init
    <3>1. /\ conn \in [Requests -> {"none", "open", "closed"}]
          /\ at \in [Requests -> HandlerStates]
          /\ answer \in [Requests -> Answers \cup {"none"}]
          /\ tx \in [Requests -> Live \cup {"none", "ended"}]
      BY DEF UploadInit, HandlerStates
    <3>2. /\ aborted \in [Requests -> BOOLEAN]
          /\ cause \in [Requests -> Failures \cup {"none"}]
          /\ body \in [Requests -> {"partial", "whole"}]
          /\ part \in [Requests -> BOOLEAN]
      BY DEF UploadInit
    <3>3. /\ stored \in [Requests -> {"absent", "partial", "whole"}]
          /\ tries \in [Requests -> 0..MaxTries]
          /\ reservedBytes \in Int
          /\ leases \in SUBSET Requests /\ IsFiniteSet(leases)
      BY <2>1, FS_EmptySet DEF UploadInit
    <3> QED
      BY <3>1, <3>2, <3>3 DEF UploadInit, UploadTypeOK, MaintStates
  <2> QED
    BY <2>2 DEF Init, TypeOK
<1>2. TypeOK /\ [Next]_vars => TypeOK'
  <2> SUFFICES ASSUME TypeOK, [Next]_vars
               PROVE  TypeOK'
    OBVIOUS
  <2> USE DEF TypeOK
  <2>1. CASE UploadStep /\ UNCHANGED lifecycle
    <3>1. UploadTypeOK'
      BY <2>1, RequestTypes, ServerTypes DEF UploadStep
    <3> QED
      BY <2>1, <3>1
  <2>2. ASSUME ShutdownNow, UploadsUntouched
        PROVE  UploadTypeOK' /\ stop' \in StopStates /\ late' \in BOOLEAN
                /\ port' \in {"unbound", "binding", "bound", "closed"}
    BY <2>2 DEF ShutdownNow, UploadsUntouched, ShutdownUploads, UploadTypeOK, MaintStates
  <2>9. ASSUME UNCHANGED uploadVars PROVE UploadTypeOK'
    BY <2>9 DEF uploadVars, UploadTypeOK
  <2>3. CASE Starting
    <3>1. CASE Start
      BY <2>3, <3>1 DEF Start, StartSweep, UploadTypeOK, MaintStates
    <3>2. CASE Swept \/ Listened \/ StartRejects
      BY <2>3, <3>2 DEF Swept, Listened, StartRejects, uploadVars, UploadTypeOK
    <3>3. CASE UndoStart
      BY <2>2, <3>3 DEF UndoStart
    <3> QED
      BY <2>3, <3>1, <3>2, <3>3 DEF Starting
  <2>4. CASE Shutdown
    BY <2>2, <2>4 DEF Shutdown
  <2>5. ASSUME NEW states, CloseAllConnections(states),
               UNCHANGED <<at, answer, tx, file, admission, server>>
        PROVE  UploadTypeOK' /\ upgraded' \in [Sockets -> {"none", "connected", "open", "closed"}]
    <3>1. {q \in OpenConnections : tx[q] # "created"} \in SUBSET Requests
      BY DEF OpenConnections
    <3>2. Abort({q \in OpenConnections : tx[q] # "created"})
      BY <2>5 DEF CloseAllConnections, Hangup
    <3>3. conn' \in [Requests -> {"none", "open", "closed"}]
      BY <2>5 DEF CloseAllConnections, Hangup, UploadTypeOK
    <3>4. upgraded' \in [Sockets -> {"none", "connected", "open", "closed"}]
      BY <2>5 DEF CloseAllConnections
    <3> QED
      BY <2>5, <3>1, <3>2, <3>3, <3>4, AbortTypes DEF UploadTypeOK
  <2>6. CASE Stopping
    <3>1. CASE UploadsDrained \/ RuntimeStopped \/ ServerClosed
      <4>1. UploadTypeOK'
        BY <3>1, <2>9 DEF UploadsDrained, RuntimeStopped, ServerClosed
      <4> QED
        BY <4>1, <3>1 DEF UploadsDrained, RuntimeStopped, ServerClosed
    <3>2. CASE WebSocketsStopped
      BY <3>2 DEF WebSocketsStopped, uploadVars, UploadTypeOK
    <3>3. CASE ClientsTerminated
      BY <3>3, <2>5 DEF ClientsTerminated
    <3>4. CASE LateListenClosed
      BY <3>4, <2>5 DEF LateListenClosed
    <3> QED
      BY <2>6, <3>1, <3>2, <3>3, <3>4 DEF Stopping
  <2>7. CASE \E r \in Requests : ClientConnects(r)
    BY <2>7 DEF ClientConnects, Connect, UploadTypeOK
  <2>8. CASE \E s \in Sockets : SocketConnects(s) \/ Upgrade(s) \/ SocketCloses(s)
    BY <2>8 DEF SocketConnects, Upgrade, SocketCloses, uploadVars, UploadTypeOK
  <2>10. CASE UNCHANGED vars
    BY <2>9, <2>10 DEF vars
  <2> QED
    BY <2>1, <2>3, <2>4, <2>6, <2>7, <2>8, <2>10 DEF Next
<1> QED
  BY <1>1, <1>2, PTL DEF Spec

-----------------------------------------------------------------------------
(* What a step does to a request *)

\* Request r takes a step of its own.
Act(r) == \/ Arrive(r) \/ Handle(r) \/ ContinueThrows(r)
          \/ Disconnect(r) \/ SendBody(r) \/ TimeOut(r) \/ Transact(r) \/ PipelineFails(r)

\* Something else happens, and at most aborts request q, takes its
\* connection, or removes its old staged file.
Passive(q) ==
    /\ at'[q] = at[q] /\ answer'[q] = answer[q] /\ tx'[q] = tx[q]
    /\ body'[q] = body[q] /\ stored'[q] = stored[q]
    /\ part'[q] => part[q]
    /\ part[q] /\ tx[q] # "ended" => part'[q]
    /\ \/ cause'[q] = cause[q]
       \/ cause[q] = "none" /\ tx[q] \in Storing /\ cause'[q] = "incomplete"

LEMMA AbortIsPassive ==
  ASSUME UploadTypeOK, NEW R \in SUBSET Requests, Abort(R), NEW q \in Requests
  PROVE  \/ cause'[q] = cause[q]
         \/ cause[q] = "none" /\ tx[q] \in Storing /\ cause'[q] = "incomplete"
<1> DEFINE hit == {p \in R : tx[p] \in Live /\ ~aborted[p]}
<1>1. cause' = [p \in Requests |->
                   IF p \in hit /\ tx[p] \in Storing /\ cause[p] = "none"
                   THEN "incomplete" ELSE cause[p]]
  BY Zenon DEF Abort
<1> HIDE DEF hit
<1> QED
  BY <1>1

\* A request that takes a step of its own leaves every other one alone.
LEMMA OthersArePassive ==
  ASSUME UploadTypeOK, NEW r \in Requests, Act(r), NEW q \in Requests, q # r
  PROVE  Passive(q)
<1> USE DEF handler, file, admission, server, UploadTypeOK
<1>1. CASE Arrive(r)
  BY <1>1 DEF Arrive, Reply, Passive
<1>2. CASE Authorized(r) \/ Refreshed(r)
  <2>1. UNCHANGED <<aborted, cause, file>>
    BY <1>2 DEF Authorized, Refreshed
  <2>2. at'[q] = at[q] /\ answer'[q] = answer[q] /\ tx'[q] = tx[q]
    BY <1>2 DEF Authorized, Refreshed, Admit, Reserve, Reply
  <2> QED
    BY <2>1, <2>2 DEF Passive
<1>3. CASE Continue(r) \/ ContinueThrows(r)
  <2>1. at'[q] = at[q] /\ answer'[q] = answer[q] /\ tx'[q] = tx[q] /\ cause'[q] = cause[q]
    BY <1>3 DEF Continue, ContinueThrows, End, Goto
  <2>2. body'[q] = body[q] /\ UNCHANGED <<part, stored>>
    BY <1>3 DEF Continue, ContinueThrows, End
  <2> QED
    BY <2>1, <2>2 DEF Passive
<1>4. CASE Respond(r)
  BY <1>4 DEF Respond, Reply, Passive
<1>5. CASE Disconnect(r) \/ TimeOut(r)
  <2>1. PICK R \in SUBSET Requests : Abort(R)
    BY <1>5, {r} \in SUBSET Requests, {p \in {r} : tx[p] # "created"} \in SUBSET Requests
       DEF Disconnect, TimeOut, Hangup
  <2> QED
    BY <1>5, <2>1, AbortIsPassive DEF Disconnect, TimeOut, Passive
<1>6. CASE SendBody(r) \/ Execute(r)
  BY <1>6 DEF SendBody, Execute, Passive
<1>7. CASE Prepare(r)
  BY <1>7 DEF Prepare, Fail, Goto, Passive
<1>8. CASE PipelineEnds(r) \/ PipelineFails(r) \/ CloseFile(r) \/ Publish(r)
  <2>1. tx'[q] = tx[q] /\ cause'[q] = cause[q]
    BY <1>8 DEF PipelineEnds, PipelineFails, CloseFile, Publish, Fail, Goto
  <2> QED
    BY <1>8, <2>1 DEF PipelineEnds, PipelineFails, CloseFile, Publish, Passive
<1>9. CASE Link(r)
  <2>1. tx'[q] = tx[q] /\ cause'[q] = cause[q] /\ stored'[q] = stored[q]
    BY <1>9 DEF Link, Fail, Goto
  <2> QED
    BY <1>9, <2>1 DEF Link, Passive
<1>10. CASE Unlink(r)
  BY <1>10 DEF Unlink, End, Goto, Passive
<1>11. CASE Clean(r)
  <2>1. part'[q] = part[q] /\ cause'[q] = cause[q]
    BY <1>11 DEF Clean
  <2> QED
    BY <1>11, <2>1 DEF Clean, End, Goto, Passive
<1> QED
  BY <1>1, <1>2, <1>3, <1>4, <1>5, <1>6, <1>7, <1>8, <1>9, <1>10, <1>11
     DEF Act, Handle, Transact

\* In a step of the whole server, a request acts or is passive.
LEMMA ActsOrPassive ==
  ASSUME TypeOK, [Next]_vars, NEW q \in Requests
  PROVE  Act(q) \/ Passive(q)
<1> USE DEF handler, file, admission, server
<1> UploadTypeOK
  BY DEF TypeOK
<1>1. ASSUME NEW r \in Requests, Act(r) PROVE Act(q) \/ Passive(q)
  BY <1>1, OthersArePassive
<1>2. CASE Sweep
  BY <1>2 DEF Sweep, Passive, UploadTypeOK
<1>3. CASE Drain
  <2>1. Requests \in SUBSET Requests /\ Abort(Requests)
    BY <1>3 DEF Drain
  <2> QED
    BY <1>3, <2>1, AbortIsPassive DEF Drain, Passive
<1>4. ASSUME UNCHANGED <<at, answer, tx, cause, file>> PROVE Passive(q)
  BY <1>4 DEF Passive
<1>5. ASSUME NEW states, CloseAllConnections(states), UNCHANGED <<at, answer, tx, file>>
      PROVE  Passive(q)
  <2>1. {p \in OpenConnections : tx[p] # "created"} \in SUBSET Requests
    BY DEF OpenConnections
  <2>2. Abort({p \in OpenConnections : tx[p] # "created"})
    BY <1>5 DEF CloseAllConnections, Hangup
  <2> QED
    BY <1>5, <2>1, <2>2, AbortIsPassive DEF Passive
<1>6. CASE UploadStep
  <2>1. CASE \E r \in Requests : Act(r)
    BY <2>1, <1>1
  <2>2. CASE SweepTimer \/ Drained
    BY <2>2, <1>4 DEF SweepTimer, Drained
  <2> QED
    BY <1>2, <1>3, <1>6, <2>1, <2>2 DEF UploadStep, Act
<1>7. CASE Starting \/ Shutdown
  BY <1>7, <1>4 DEF Starting, Start, Swept, Listened, UndoStart, StartRejects,
     Shutdown, UploadsUntouched, uploadVars
<1>8. CASE Stopping
  <2>1. CASE UploadsDrained \/ RuntimeStopped \/ WebSocketsStopped \/ ServerClosed
    BY <2>1, <1>4 DEF UploadsDrained, RuntimeStopped, WebSocketsStopped, ServerClosed, uploadVars
  <2>2. CASE ClientsTerminated \/ LateListenClosed
    BY <2>2, <1>5 DEF ClientsTerminated, LateListenClosed
  <2> QED
    BY <1>8, <2>1, <2>2 DEF Stopping
<1>9. CASE \/ \E r \in Requests : ClientConnects(r)
           \/ \E s \in Sockets : SocketConnects(s) \/ Upgrade(s) \/ SocketCloses(s)
           \/ UNCHANGED vars
  BY <1>9, <1>4 DEF ClientConnects, Connect, SocketConnects, Upgrade, SocketCloses,
     vars, uploadVars
<1> QED
  BY <1>6, <1>7, <1>8, <1>9 DEF Next

-----------------------------------------------------------------------------
(* The staged file, the published file and the answer *)

\* The handler and the transaction stand where they wait for each other.
InStep(q) ==
    /\ at[q] \in {"new", "auth", "refresh"} => tx[q] = "none"
    /\ at[q] = "ready" <=> tx[q] \in {"created", "waiting"}
    /\ tx[q] \in Storing => at[q] = "result"
    /\ at[q] = "result" => tx[q] \in Storing \cup {"ended"}
    /\ answer[q] # "none" => at[q] = "done"

\* What the phases say of the files and the failure.
FilesInv(q) ==
    /\ tx[q] \in {"none", "created", "waiting", "preparing"} => ~part[q]
    /\ tx[q] \in {"closing", "publishing", "linking"} => body[q] = "whole"
    /\ stored[q] \in {"absent", "whole"}
    /\ stored[q] # "absent" => tx[q] \in {"unlinking", "ended"}
    /\ tx[q] = "unlinking" => stored[q] # "absent"
    /\ tx[q] = "cleaning" => cause[q] # "none"
    /\ at[q] = "result" /\ tx[q] = "ended" /\ stored[q] = "absent" => cause[q] # "none"
    /\ tx[q] = "ended" /\ part[q] =>
          /\ "disk" \in Faults
          /\ stored[q] = "absent" => cause[q] = "storage"

LEMMA PassiveKeeps ==
  ASSUME UploadTypeOK, NEW q \in Requests, InStep(q), FilesInv(q), Passive(q)
  PROVE  InStep(q)' /\ FilesInv(q)'
  BY DEF InStep, FilesInv, Passive, Storing, UploadTypeOK

LEMMA ActInStep ==
  ASSUME UploadTypeOK, NEW q \in Requests, InStep(q), Act(q)
  PROVE  InStep(q)'
<1> USE DEF handler, file, admission, server, UploadTypeOK, InStep, Storing
<1>1. CASE Arrive(q)
  BY <1>1 DEF Arrive, Reply
<1>2. CASE Authorized(q) \/ Refreshed(q)
  BY <1>2 DEF Authorized, Refreshed, Admit, Reserve, Reply
<1>3. CASE Continue(q) \/ ContinueThrows(q)
  BY <1>3 DEF Continue, ContinueThrows, End, Goto
<1>4. CASE Respond(q)
  BY <1>4 DEF Respond, Reply
<1>5. CASE Disconnect(q) \/ TimeOut(q) \/ SendBody(q)
  BY <1>5 DEF Disconnect, TimeOut, SendBody
<1>6. CASE Execute(q)
  BY <1>6 DEF Execute
<1>7. CASE Prepare(q) \/ PipelineEnds(q) \/ PipelineFails(q)
  <2>1. tx' = [tx EXCEPT ![q] = "streaming"] \/ tx' = [tx EXCEPT ![q] = "cleaning"]
        \/ tx' = [tx EXCEPT ![q] = "closing"]
    BY <1>7 DEF Prepare, PipelineEnds, PipelineFails, Fail, Goto
  <2> QED
    BY <1>7, <2>1 DEF Prepare, PipelineEnds, PipelineFails
<1>8. CASE CloseFile(q) \/ Publish(q) \/ Link(q)
  <2>1. \E p \in {"publishing", "linking", "unlinking", "cleaning"} : tx' = [tx EXCEPT ![q] = p]
    BY <1>8 DEF CloseFile, Publish, Link, Fail, Goto
  <2> QED
    BY <1>8, <2>1 DEF CloseFile, Publish, Link
<1>9. CASE Unlink(q) \/ Clean(q)
  BY <1>9 DEF Unlink, Clean, End, Goto
<1> QED
  BY <1>1, <1>2, <1>3, <1>4, <1>5, <1>6, <1>7, <1>8, <1>9 DEF Act, Handle, Transact

LEMMA ActKeepsFiles ==
  ASSUME UploadTypeOK, NEW q \in Requests, InStep(q), FilesInv(q), Act(q)
  PROVE  FilesInv(q)'
<1> USE DEF handler, file, admission, server, UploadTypeOK, FilesInv
<1>1. CASE Arrive(q)
  BY <1>1 DEF Arrive, Reply, InStep
<1>2. CASE Authorized(q) \/ Refreshed(q)
  <2>1. UNCHANGED <<cause, file>> /\ tx[q] = "none" /\ tx'[q] \in {"none", "created"}
    BY <1>2 DEF Authorized, Refreshed, Admit, Reserve, InStep
  <2>2. at'[q] # "result"
    BY <1>2 DEF Authorized, Refreshed, Admit, Reserve, Reply
  <2> QED
    BY <2>1, <2>2
<1>3. CASE Continue(q)
  BY <1>3 DEF Continue, End, Goto
<1>4. CASE ContinueThrows(q)
  BY <1>4 DEF ContinueThrows, End, Goto
<1>5. CASE Respond(q)
  BY <1>5 DEF Respond, Reply
<1>6. CASE Disconnect(q) \/ TimeOut(q)
  <2>1. PICK R \in SUBSET Requests : Abort(R)
    BY <1>6, {q} \in SUBSET Requests, {p \in {q} : tx[p] # "created"} \in SUBSET Requests
       DEF Disconnect, TimeOut, Hangup
  <2>2. \/ cause'[q] = cause[q]
        \/ cause[q] = "none" /\ tx[q] \in Storing /\ cause'[q] = "incomplete"
    BY <2>1, AbortIsPassive
  <2> QED
    BY <1>6, <2>2 DEF Disconnect, TimeOut, Storing
<1>7. CASE SendBody(q) \/ Execute(q)
  BY <1>7 DEF SendBody, Execute
<1>8. CASE Prepare(q)
  BY <1>8 DEF Prepare, Fail, Goto
<1>9. CASE PipelineEnds(q) \/ PipelineFails(q) \/ CloseFile(q) \/ Publish(q)
  <2>1. \/ /\ tx' = [tx EXCEPT ![q] = "cleaning"]
           /\ cause'[q] # "none"
        \/ /\ \/ tx' = [tx EXCEPT ![q] = "closing"] /\ body[q] = "whole"
              \/ tx' = [tx EXCEPT ![q] = "publishing"] /\ tx[q] = "closing"
              \/ tx' = [tx EXCEPT ![q] = "linking"] /\ tx[q] = "publishing"
           /\ UNCHANGED cause
    BY <1>9 DEF PipelineEnds, PipelineFails, CloseFile, Publish, Fail, Goto
  <2>2. /\ tx[q] \in {"streaming", "closing", "publishing"}
        /\ UNCHANGED <<body, part, stored, at>>
    BY <1>9 DEF PipelineEnds, PipelineFails, CloseFile, Publish
  <2> QED
    BY <2>1, <2>2
<1>10. CASE Link(q)
  <2>1. tx[q] = "linking" /\ UNCHANGED <<at, body, part>>
    BY <1>10 DEF Link
  <2>2. \/ /\ stored' = [stored EXCEPT ![q] = body[q]]
           /\ tx' = [tx EXCEPT ![q] = "unlinking"]
        \/ /\ tx' = [tx EXCEPT ![q] = "publishing"]
           /\ UNCHANGED stored
        \/ /\ tx' = [tx EXCEPT ![q] = "cleaning"]
           /\ cause'[q] # "none"
           /\ UNCHANGED stored
    BY <1>10 DEF Link, Fail, Goto
  <2> QED
    BY <2>1, <2>2
<1>11. CASE Unlink(q)
  BY <1>11 DEF Unlink, End, Goto
<1>12. CASE Clean(q)
  <2>1. tx[q] = "cleaning" /\ UNCHANGED stored /\ tx'[q] = "ended"
    BY <1>12 DEF Clean, End, Goto
  <2>2. cause'[q] # "none" /\ (part'[q] => "disk" \in Faults /\ cause'[q] = "storage")
    BY <1>12 DEF Clean
  <2> QED
    BY <2>1, <2>2
<1> QED
  BY <1>1, <1>2, <1>3, <1>4, <1>5, <1>6, <1>7, <1>8, <1>9, <1>10, <1>11, <1>12
     DEF Act, Handle, Transact

LEMMA UploadInvariance == Spec => [](\A q \in Requests : InStep(q) /\ FilesInv(q))
<1> DEFINE I == \A q \in Requests : InStep(q) /\ FilesInv(q)
<1>1. Init => I
  BY DEF Init, UploadInit, InStep, FilesInv, Storing
<1>2. TypeOK /\ I /\ [Next]_vars => I'
  BY ActsOrPassive, PassiveKeeps, ActInStep, ActKeepsFiles DEF TypeOK
<1> QED
  BY <1>1, <1>2, TypeCorrect, PTL DEF Spec

\* A transaction that has ended leaves no staged file, or the disk refused
\* and an unpublished upload fails as a storage failure (NoStagedFileLeft).
THEOREM NothingStaged == Spec => []NoStagedFileLeft
<1>1. (\A q \in Requests : InStep(q) /\ FilesInv(q)) => NoStagedFileLeft
  BY DEF FilesInv, NoStagedFileLeft
<1> QED
  BY <1>1, UploadInvariance, PTL

\* A step of a request publishes its whole file once before it is answered,
\* gives the one answer that says whether there is one, or does neither.
LEMMA ActImplements ==
  ASSUME UploadTypeOK, NEW r \in Requests, InStep(r), FilesInv(r), Act(r)
  PROVE  [Promise!Next]_(Promise!vars)
<1> USE DEF handler, file, admission, server, UploadTypeOK
<1>1. ASSUME NEW what, what \in Answers, Reply(r, what), answer[r] = "none",
             what = "ok" <=> stored[r] = "whole", UNCHANGED stored
      PROVE  [Promise!Next]_(Promise!vars)
  BY <1>1 DEF Reply, Promise!Next, Promise!Answer, Promise!vars
<1>2. ASSUME UNCHANGED <<stored, answer>> PROVE [Promise!Next]_(Promise!vars)
  BY <1>2 DEF Promise!vars
<1>3. "refused" \in Answers /\ "ok" \in Answers /\ Failures \subseteq Answers
      /\ "ok" \notin Failures
  BY DEF Answers, Failures
<1>4. ASSUME Reply(r, "refused"), at[r] \in {"new", "auth", "refresh"}, UNCHANGED stored
      PROVE  [Promise!Next]_(Promise!vars)
  <2>1. answer[r] = "none" /\ stored[r] = "absent"
    BY <1>4 DEF InStep, FilesInv
  <2> QED
    BY <1>1, <1>3, <1>4, <2>1
<1>5. CASE Arrive(r)
  BY <1>5, <1>2, <1>4 DEF Arrive
<1>6. CASE Authorized(r) \/ Refreshed(r)
  BY <1>6, <1>2, <1>4 DEF Authorized, Refreshed, Admit, Reserve
<1>7. CASE Respond(r)
  <2>1. answer[r] = "none"
    BY <1>7 DEF Respond, InStep
  <2>2. CASE stored[r] # "absent"
    BY <1>7, <2>1, <2>2, <1>1, <1>3 DEF Respond, FilesInv
  <2>3. CASE stored[r] = "absent"
    <3>1. cause[r] \in Answers /\ cause[r] # "ok"
      BY <1>7, <2>3, <1>3 DEF Respond, FilesInv
    <3> QED
      BY <1>7, <2>1, <2>3, <3>1, <1>1 DEF Respond
  <2> QED
    BY <2>2, <2>3
<1>8. CASE Link(r)
  <2>1. answer[r] = "none" /\ stored[r] = "absent" /\ body[r] = "whole"
    BY <1>8 DEF Link, InStep, FilesInv, Storing
  <2>2. CASE stored' = [stored EXCEPT ![r] = body[r]]
    BY <1>8, <2>1, <2>2 DEF Link, Promise!Next, Promise!Store
  <2>3. CASE UNCHANGED stored
    BY <1>8, <1>2, <2>3 DEF Link
  <2> QED
    BY <1>8, <2>2, <2>3 DEF Link
<1>9. CASE Continue(r) \/ ContinueThrows(r) \/ Disconnect(r) \/ SendBody(r) \/ TimeOut(r)
  BY <1>9, <1>2 DEF Continue, ContinueThrows, Disconnect, SendBody, TimeOut
<1>10. CASE Execute(r) \/ Prepare(r) \/ PipelineEnds(r) \/ PipelineFails(r) \/ CloseFile(r) \/ Publish(r)
            \/ Unlink(r) \/ Clean(r)
  BY <1>10, <1>2 DEF Execute, Prepare, PipelineEnds, PipelineFails, CloseFile, Publish, Unlink, Clean
<1> QED
  BY <1>5, <1>6, <1>7, <1>8, <1>9, <1>10 DEF Act, Handle, Transact

\* The uploads implement AtomicUpload (AtomicUploads): a file appears whole
\* or not at all, before the one answer, which says whether it did.
THEOREM ImplementsAtomicUpload == Spec => AtomicUploads
<1> DEFINE I == \A q \in Requests : InStep(q) /\ FilesInv(q)
<1>1. Init => Promise!Init
  BY DEF Init, UploadInit, Promise!Init
<1>2. TypeOK /\ I /\ [Next]_vars => [Promise!Next]_(Promise!vars)
  <2> SUFFICES ASSUME TypeOK, I, [Next]_vars
               PROVE  [Promise!Next]_(Promise!vars)
    OBVIOUS
  <2>1. CASE \E r \in Requests : Act(r)
    BY <2>1, ActImplements DEF TypeOK
  <2>2. CASE UNCHANGED <<stored, answer>>
    BY <2>2 DEF Promise!vars
  <2>3. (\E r \in Requests : Act(r)) \/ UNCHANGED <<stored, answer>>
    <3> USE DEF handler, file, admission, server, uploadVars
    <3>1. CASE UploadStep
      BY <3>1 DEF UploadStep, Act, Sweep, SweepTimer, Drain, Drained
    <3>2. CASE Starting \/ Shutdown
      BY <3>2 DEF Starting, Start, Swept, Listened, UndoStart, StartRejects, Shutdown,
         UploadsUntouched
    <3>3. CASE Stopping
      BY <3>3 DEF Stopping, UploadsDrained, RuntimeStopped, WebSocketsStopped,
         ClientsTerminated, LateListenClosed, ServerClosed
    <3>4. CASE \/ \E r \in Requests : ClientConnects(r)
               \/ \E s \in Sockets : SocketConnects(s) \/ Upgrade(s) \/ SocketCloses(s)
               \/ UNCHANGED vars
      BY <3>4 DEF ClientConnects, Connect, SocketConnects, Upgrade, SocketCloses, vars
    <3> QED
      BY <3>1, <3>2, <3>3, <3>4 DEF Next
  <2> QED
    BY <2>1, <2>2, <2>3
<1> QED
  BY <1>1, <1>2, TypeCorrect, UploadInvariance, PTL DEF Spec, AtomicUploads, Promise!Spec

-----------------------------------------------------------------------------
(* Admission *)

AdmissionInv ==
    /\ LeasesExact
    /\ Cardinality(leases) <= MaxActive
    /\ reservedBytes <= MaxBytes

\* Giving back the leases of R takes them and their bytes away.
LEMMA ReleaseExact ==
  ASSUME UploadTypeOK, AdmissionInv, NEW R \in SUBSET Requests, Release(R)
  PROVE  /\ leases' = leases \ R
         /\ reservedBytes' = Bytes(leases')
         /\ Cardinality(leases') <= MaxActive
         /\ reservedBytes' <= MaxBytes
<1> DEFINE held == R \cap leases
<1>1. leases' = leases \ held /\ reservedBytes' = reservedBytes - Bytes(held)
  BY Zenon DEF Release
<1>2. leases' = leases \ R
  BY <1>1
<1>3. held \in SUBSET leases /\ leases \in SUBSET Requests /\ IsFiniteSet(leases)
  BY DEF UploadTypeOK
<1>4. reservedBytes' = Bytes(leases')
  BY <1>1, <1>3, BytesTaken DEF AdmissionInv, LeasesExact
<1>5. Bytes(held) \in Nat /\ reservedBytes \in Int
  BY <1>3, FS_Subset, BytesAreFinite DEF UploadTypeOK
<1>6. Cardinality(leases') <= Cardinality(leases)
  BY <1>1, <1>3, FS_Subset
<1>7. Cardinality(leases) \in Nat /\ Cardinality(leases') \in Nat
  BY <1>1, <1>3, FS_Subset, FS_CardinalityType
<1>8. MaxActive \in Nat /\ MaxBytes \in Nat
  BY LimitsAreNat
<1> HIDE DEF held
<1> QED
  BY <1>1, <1>2, <1>4, <1>5, <1>6, <1>7, <1>8 DEF AdmissionInv

\* The reservation itself, of a request without a transaction.
LEMMA ReserveExact ==
  ASSUME UploadTypeOK, AdmissionInv, NEW r \in Requests, tx[r] = "none",
         Reserve(r), UNCHANGED admissionClosed
  PROVE  AdmissionInv'
<1>1. CASE UNCHANGED <<tx, leases, reservedBytes>>
  BY <1>1 DEF AdmissionInv, LeasesExact, Active
<1>2. CASE ~UNCHANGED <<tx, leases, reservedBytes>>
  <2>1. /\ ~admissionClosed
        /\ ~(Cardinality(leases) >= MaxActive)
        /\ ~(Size[r] > MaxBytes - reservedBytes)
        /\ leases' = leases \cup {r}
        /\ reservedBytes' = reservedBytes + Size[r]
        /\ tx' = [tx EXCEPT ![r] = "created"]
    BY <1>2 DEF Reserve
  <2>2. leases = Active /\ r \notin leases
    BY <2>1 DEF AdmissionInv, LeasesExact, Active, Live, Storing
  <2>3. Active' = Active \cup {r}
    BY <2>1 DEF Active, Live, UploadTypeOK
  <2>4. Size[r] \in Int /\ reservedBytes \in Int
    BY SizesArePositive DEF UploadTypeOK
  <2>5. reservedBytes' = Bytes(leases')
    BY <2>1, <2>2, BytesAdded DEF AdmissionInv, LeasesExact, UploadTypeOK
  <2>6. Cardinality(leases') = Cardinality(leases) + 1
    BY <2>1, <2>2, FS_AddElement DEF UploadTypeOK
  <2>7. Cardinality(leases) \in Nat /\ MaxActive \in Nat /\ MaxBytes \in Nat
    BY FS_CardinalityType, LimitsAreNat DEF UploadTypeOK
  <2>8. Cardinality(leases') <= MaxActive /\ reservedBytes' <= MaxBytes
    BY <2>1, <2>4, <2>6, <2>7
  <2> QED
    BY <2>1, <2>2, <2>3, <2>5, <2>8 DEF AdmissionInv, LeasesExact
<1> QED
  BY <1>1, <1>2

LEMMA EndExact ==
  ASSUME UploadTypeOK, AdmissionInv, NEW r \in Requests, End(r)
  PROVE  AdmissionInv'
<1>1. {r} \in SUBSET Requests /\ Release({r}) /\ UNCHANGED admissionClosed
  BY DEF End
<1>2. Active' = Active \ {r}
  BY DEF End, Goto, Active, Live, Storing, UploadTypeOK
<1>3. leases' = leases \ {r}
  BY <1>1, ReleaseExact
<1>4. leases' = IF admissionClosed THEN {} ELSE Active'
  BY <1>2, <1>3 DEF AdmissionInv, LeasesExact
<1> QED
  BY <1>1, <1>4, ReleaseExact DEF AdmissionInv, LeasesExact

LEMMA ActAdmission ==
  ASSUME UploadTypeOK, AdmissionInv, NEW r \in Requests, InStep(r), Act(r)
  PROVE  AdmissionInv'
<1> USE DEF handler, file, admission, server
<1>1. ASSUME UNCHANGED admission, Active' = Active PROVE AdmissionInv'
  BY <1>1 DEF AdmissionInv, LeasesExact
<1>2. ASSUME UNCHANGED <<admission, tx>> PROVE AdmissionInv'
  BY <1>1, <1>2 DEF Active
<1>3. ASSUME NEW phase \in Live, tx[r] \in Live, Goto(r, phase), UNCHANGED admission
      PROVE  AdmissionInv'
  <2>1. Active' = Active
    BY <1>3 DEF Goto, Active, UploadTypeOK
  <2> QED
    BY <1>1, <1>3, <2>1
<1>4. CASE Arrive(r) \/ Respond(r) \/ Disconnect(r) \/ SendBody(r) \/ TimeOut(r)
  BY <1>4, <1>2 DEF Arrive, Respond, Disconnect, SendBody, TimeOut
<1>5. CASE Authorized(r) \/ Refreshed(r)
  <2>1. tx[r] = "none"
    BY <1>5 DEF Authorized, Refreshed, InStep
  <2> QED
    BY <1>5, <2>1, <1>2, ReserveExact DEF Authorized, Refreshed, Admit
<1>6. {"waiting", "preparing", "streaming", "closing", "publishing", "linking",
       "unlinking", "cleaning", "created"} \subseteq Live
  BY DEF Live, Storing
<1>7. CASE Continue(r) \/ ContinueThrows(r) \/ Unlink(r) \/ Clean(r)
  BY <1>7, <1>3, <1>6, EndExact DEF Continue, ContinueThrows, Unlink, Clean
<1>8. CASE Execute(r)
  BY <1>8, <1>3, <1>6 DEF Execute, Goto
<1>9. CASE Prepare(r) \/ PipelineEnds(r) \/ PipelineFails(r) \/ CloseFile(r) \/ Publish(r) \/ Link(r)
  <2>1. \E phase \in Live : Goto(r, phase)
    BY <1>9, <1>6 DEF Prepare, PipelineEnds, PipelineFails, CloseFile, Publish, Link, Fail
  <2> QED
    BY <1>9, <2>1, <1>3, <1>6 DEF Prepare, PipelineEnds, PipelineFails, CloseFile, Publish, Link
<1> QED
  BY <1>4, <1>5, <1>7, <1>8, <1>9 DEF Act, Handle, Transact

LEMMA DrainExact ==
  ASSUME UploadTypeOK, AdmissionInv, Drain
  PROVE  AdmissionInv'
<1>1. Release(Requests) /\ Requests \in SUBSET Requests /\ admissionClosed'
  BY DEF Drain
<1>2. leases' = {}
  BY <1>1, ReleaseExact DEF UploadTypeOK
<1> QED
  BY <1>1, <1>2, ReleaseExact DEF AdmissionInv, LeasesExact

\* What does not act on a request leaves admission alone, but for Drain.
LEMMA StepFrame ==
  ASSUME [Next]_vars
  PROVE  \/ \E r \in Requests : Act(r) /\ UNCHANGED lifecycle
         \/ Drain /\ UNCHANGED lifecycle
         \/ UNCHANGED <<admission, tx>>
<1> USE DEF handler, file, admission, server, uploadVars
<1>1. CASE UploadStep /\ UNCHANGED lifecycle
  BY <1>1 DEF UploadStep, Act, Sweep, SweepTimer, Drained
<1>2. CASE Starting \/ Shutdown
  BY <1>2 DEF Starting, Start, Swept, Listened, UndoStart, StartRejects, Shutdown,
     UploadsUntouched
<1>3. CASE Stopping
  BY <1>3 DEF Stopping, UploadsDrained, RuntimeStopped, WebSocketsStopped,
     ClientsTerminated, LateListenClosed, ServerClosed
<1>4. CASE \/ \E r \in Requests : ClientConnects(r)
           \/ \E s \in Sockets : SocketConnects(s) \/ Upgrade(s) \/ SocketCloses(s)
           \/ UNCHANGED vars
  BY <1>4 DEF ClientConnects, Connect, SocketConnects, Upgrade, SocketCloses, vars
<1> QED
  BY <1>1, <1>2, <1>3, <1>4 DEF Next

LEMMA AdmissionInvariance == Spec => []AdmissionInv
<1> DEFINE I == \A q \in Requests : InStep(q) /\ FilesInv(q)
<1>1. Init => AdmissionInv
  <2> SUFFICES ASSUME Init PROVE AdmissionInv
    OBVIOUS
  <2>1. leases = {} /\ ~admissionClosed /\ Active = {}
        /\ reservedBytes = 0
    BY DEF Init, UploadInit, Active, Live, Storing
  <2>2. Cardinality({}) = 0 /\ MaxActive \in Nat /\ MaxBytes \in Nat
    BY FS_EmptySet, LimitsAreNat
  <2>3. Bytes({}) = 0
    BY <2>2 DEF Bytes, Declared
  <2> QED
    BY <2>1, <2>2, <2>3 DEF AdmissionInv, LeasesExact
<1>2. TypeOK /\ I /\ AdmissionInv /\ [Next]_vars => AdmissionInv'
  <2> SUFFICES ASSUME TypeOK, I, AdmissionInv, [Next]_vars
               PROVE  AdmissionInv'
    OBVIOUS
  <2>1. CASE UNCHANGED <<admission, tx>>
    BY <2>1 DEF AdmissionInv, LeasesExact, Active, admission
  <2> QED
    BY <2>1, StepFrame, ActAdmission, DrainExact DEF TypeOK
<1> QED
  BY <1>1, <1>2, TypeCorrect, UploadInvariance, PTL DEF Spec

\* The leases are exactly those of the live transactions, none after admission
\* has closed, and the counter is the sum of their bytes (LeasesExact).
THEOREM LeasesAreExact == Spec => []LeasesExact
  BY AdmissionInvariance, PTL DEF AdmissionInv

\* And so neither limit is ever exceeded (AdmissionExact).
THEOREM AdmissionIsExact == Spec => []AdmissionExact
  BY AdmissionInvariance, PTL DEF AdmissionInv, AdmissionExact

-----------------------------------------------------------------------------
(* Shutdown *)

\* shutdown() of the upload server: once it has begun to wait, admission is
\* closed and it waits for everything there is.
DrainInv ==
    /\ drain # "no" => closing
    /\ closing => maint # "timer"
    /\ drain \in {"waiting", "done"} => admissionClosed
    /\ drain = "waiting" => /\ Active \subseteq awaited
                            /\ maint \in {"first", "running"} => "sweep" \in awaited
    /\ drain = "done" => Active = {} /\ maint \notin {"first", "running", "timer"}

\* shutdown() of the outer server: what it has stopped stays stopped, and a
\* listen still under way is known to it.
StopInv ==
    /\ stop = "no" <=> drain = "no"
    /\ stop \notin {"no", "uploads"} => drain = "done"
    /\ ~runtimeUp <=> stop \in {"webSockets", "clients", "late", "close", "done"}
    /\ port = "binding" => start = "listen"
    /\ stop # "no" /\ start = "listen" => late /\ stop \notin {"close", "done"}
    /\ stop # "no" /\ port = "bound" => late /\ stop \notin {"close", "done"}
    /\ stop = "done" => /\ OpenConnections = {}
                        /\ \A s \in Sockets : upgraded[s] \notin {"connected", "open"}

\* A step of a request admits nothing once admission has closed, opens no
\* connection and is no step of the server.
LEMMA ActIsBounded ==
  ASSUME UploadTypeOK, NEW r \in Requests, InStep(r), Act(r)
  PROVE  /\ UNCHANGED <<server, admissionClosed>>
         /\ admissionClosed => Active' \subseteq Active
         /\ OpenConnections' \subseteq OpenConnections
<1> USE DEF handler, file, admission, server, UploadTypeOK
<1>1. UNCHANGED <<server, admissionClosed>>
  <2>1. CASE Arrive(r) \/ Handle(r) \/ ContinueThrows(r)
    BY <2>1 DEF Arrive, Handle, Authorized, Refreshed, Continue, Respond, ContinueThrows, End
  <2>2. CASE Disconnect(r) \/ SendBody(r) \/ TimeOut(r)
    BY <2>2 DEF Disconnect, SendBody, TimeOut
  <2>3. CASE Transact(r) \/ PipelineFails(r)
    BY <2>3 DEF Transact, Execute, Prepare, PipelineEnds, PipelineFails, CloseFile, Publish, Link,
       Unlink, Clean, End
  <2> QED
    BY <2>1, <2>2, <2>3 DEF Act
<1>2. \A q \in Requests : q # r => tx'[q] = tx[q]
  BY OthersArePassive DEF Passive
<1>3. admissionClosed => (tx[r] \in Live \/ tx'[r] \notin Live)
  <2>1. CASE Authorized(r) \/ Refreshed(r)
    BY <2>1 DEF Authorized, Refreshed, Admit, Reserve
  <2>2. CASE Arrive(r) \/ Respond(r) \/ Disconnect(r) \/ SendBody(r) \/ TimeOut(r)
    BY <2>2 DEF Arrive, Respond, Disconnect, SendBody, TimeOut
  <2>3. CASE Continue(r) \/ ContinueThrows(r) \/ Transact(r) \/ PipelineFails(r)
    BY <2>3 DEF Continue, ContinueThrows, Transact, Execute, Prepare, PipelineEnds, PipelineFails,
       CloseFile, Publish, Link, Unlink, Clean, Live, Storing
  <2> QED
    BY <2>1, <2>2, <2>3 DEF Act, Handle
<1>4. admissionClosed => Active' \subseteq Active
  BY <1>2, <1>3 DEF Active
<1>5. \A q \in Requests : conn'[q] = "open" => conn[q] = "open"
  <2>1. CASE Arrive(r) \/ Respond(r)
    BY <2>1 DEF Arrive, Respond, Reply
  <2>2. CASE Authorized(r) \/ Refreshed(r)
    BY <2>2 DEF Authorized, Refreshed, Admit, Reserve, Reply
  <2>3. CASE Continue(r) \/ ContinueThrows(r) \/ Disconnect(r) \/ SendBody(r) \/ TimeOut(r)
    BY <2>3 DEF Continue, ContinueThrows, Disconnect, Hangup, SendBody, TimeOut
  <2>4. CASE Transact(r) \/ PipelineFails(r)
    BY <2>4 DEF Transact, Execute, Prepare, PipelineEnds, PipelineFails, CloseFile, Publish, Link,
       Unlink, Clean
  <2> QED
    BY <2>1, <2>2, <2>3, <2>4 DEF Act, Handle
<1> QED
  BY <1>1, <1>4, <1>5 DEF OpenConnections

LEMMA DrainInvariance == Spec => [](DrainInv /\ StopInv)
<1> DEFINE I == \A q \in Requests : InStep(q) /\ FilesInv(q)
<1> DEFINE J == DrainInv /\ StopInv
<1>1. Init => J
  BY DEF Init, UploadInit, DrainInv, StopInv
<1>2. TypeOK /\ I /\ J /\ [Next]_vars => J'
  <2> SUFFICES ASSUME TypeOK, I, J, [Next]_vars
               PROVE  J'
    OBVIOUS
  <2> USE DEF handler, file, admission, server, DrainInv, StopInv
  <2> UploadTypeOK
    BY DEF TypeOK
  <2>1. ASSUME UNCHANGED lifecycle, OpenConnections' \subseteq OpenConnections,
               DrainInv', drain = "no" <=> drain' = "no", drain = "done" => drain' = "done"
        PROVE  J'
    BY <2>1 DEF lifecycle
  <2>2. CASE UploadStep /\ UNCHANGED lifecycle
    <3>1. ASSUME NEW r \in Requests, Act(r) PROVE J'
      <4>1. InStep(r)
        OBVIOUS
      <4>2. /\ UNCHANGED <<server, admissionClosed>>
            /\ admissionClosed => Active' \subseteq Active
            /\ OpenConnections' \subseteq OpenConnections
        BY <3>1, <4>1, ActIsBounded
      <4>3. DrainInv'
        BY <4>2
      <4> QED
        BY <2>1, <2>2, <4>2, <4>3
    <3>2. CASE Sweep \/ SweepTimer
      BY <3>2, <2>1, <2>2 DEF Sweep, SweepTimer, Active, OpenConnections
    <3>3. CASE Drain \/ Drained
      BY <3>3, <2>1, <2>2 DEF Drain, Drained, Active, OpenConnections
    <3> QED
      BY <2>2, <3>1, <3>2, <3>3 DEF UploadStep, Act
  <2>3. ASSUME ShutdownNow, UploadsUntouched, stop = "no",
               UNCHANGED <<start, upgraded, refusing, runtimeUp>>
        PROVE  J'
    BY <2>3 DEF ShutdownNow, UploadsUntouched, ShutdownUploads, Active, TypeOK, MaintStates
  <2>4. CASE Start
    BY <2>4 DEF Start, StartSweep, Active, OpenConnections
  <2>5. CASE Swept \/ Listened \/ StartRejects
    BY <2>5 DEF Swept, Listened, StartRejects, uploadVars, Active, OpenConnections
  <2>6. CASE UndoStart \/ Shutdown
    BY <2>6, <2>3 DEF UndoStart, Shutdown
  <2>7. CASE UploadsDrained \/ RuntimeStopped \/ WebSocketsStopped \/ ServerClosed
    BY <2>7 DEF UploadsDrained, RuntimeStopped, WebSocketsStopped, ServerClosed,
       uploadVars, Active, OpenConnections
  <2>8. CASE ClientsTerminated \/ LateListenClosed
    <3>1. UNCHANGED <<server, admission, tx, start, runtimeUp, late>>
      BY <2>8 DEF ClientsTerminated, LateListenClosed
    <3>2. DrainInv'
      BY <3>1 DEF Active
    <3>3. StopInv'
      BY <2>8 DEF ClientsTerminated, LateListenClosed, TypeOK
    <3> QED
      BY <3>2, <3>3
  <2>9. CASE \E r \in Requests : ClientConnects(r)
    BY <2>9 DEF ClientConnects, Connect, lifecycle, Active, OpenConnections
  <2>10. CASE \E s \in Sockets : SocketConnects(s)
    BY <2>10 DEF SocketConnects, uploadVars, Active, OpenConnections
  <2>11. CASE \E s \in Sockets : Upgrade(s) \/ SocketCloses(s)
    BY <2>11 DEF Upgrade, SocketCloses, uploadVars, Active, OpenConnections
  <2>12. CASE UNCHANGED vars
    BY <2>12 DEF vars, uploadVars, lifecycle, Active, OpenConnections
  <2> QED
    BY <2>2, <2>4, <2>5, <2>6, <2>7, <2>8, <2>9, <2>10, <2>11, <2>12
       DEF Next, Starting, Stopping
<1> QED
  BY <1>1, <1>2, TypeCorrect, UploadInvariance, PTL DEF Spec

\* The runtime outlives the uploads and a shutdown that has resolved leaves
\* nothing behind, whenever it was called (NothingAfterShutdown).
THEOREM ShutdownIsFinal == Spec => []NothingAfterShutdown
<1>1. TypeOK /\ DrainInv /\ StopInv => NothingAfterShutdown
  BY DEF TypeOK, DrainInv, StopInv, StopStates, NothingAfterShutdown
<1> QED
  BY <1>1, TypeCorrect, DrainInvariance, PTL

-----------------------------------------------------------------------------
(* The lock file: what holds where *)

(* On its way up or down: at most one process at a time is, in order.      *)
Busy(p) == pc[p] \notin Down \cup {"foreign", "listening"}

OneBusy == \A p, q \in Pids : Busy(p) /\ Busy(q) => p = q

(* Who serves has the lock, filled in, and the port.                       *)
ListenerOwns ==
    \A p \in Pids :
        pc[p] = "listening" => lockFile = p /\ written[p] /\ onPort = p

PortIsListeners == onPort # NoOne => onPort \in Pids /\ pc[onPort] = "listening"

(* From the decision to reclaim to the exit, nobody serves.                *)
Committed == {"write", "remove", "recreate", "boot", "closing", "yield", "leaving",
              "release", "unlink"}

NobodyServes ==
    \A p, q \in Pids : pc[p] \in Committed => pc[q] # "listening"

(* Where the file stands while its holder moves.                           *)
HolderOwns ==
    \A p \in Pids :
        /\ pc[p] = "write" => lockFile = p
        /\ pc[p] = "recreate" => lockFile = NoOne
        /\ pc[p] \in {"boot", "closing"} => lockFile = p /\ written[p]

NobodyFailed == \A p \in Pids : pc[p] # "failed"

OrderlyInv ==
    /\ OneBusy
    /\ ListenerOwns
    /\ PortIsListeners
    /\ NobodyServes
    /\ HolderOwns
    /\ NobodyFailed

(* Without kills: the named process is writing the file, or has.           *)
NamedIsThere ==
    \A p \in Pids :
        lockFile = p => \/ pc[p] = "write"
                        \/ pc[p] \in Running \cup Exiting /\ written[p]

(* Every interleaving, kills included: who is past reading its own file    *)
(* does not hold the lock, who has the requested port listens, and a start *)
(* that lost left somebody behind who has not.                             *)
NotHolder ==
    \A p \in Pids :
        pc[p] \in {"off", "refused", "failed", "probe", "recreate"} => lockFile # p

PortIsServed == onPort \in Pids => pc[onPort] = "listening"

Lost == {"off", "refused", "failed"}

NotAllLost ==
    (\E p \in Pids : pc[p] \in {"refused", "failed"}) => \E q \in Pids : pc[q] \notin Lost

RaceInv == NotHolder /\ PortIsServed /\ NotAllLost

-----------------------------------------------------------------------------
(* Every variable keeps to its domain: the steps of start() and of the     *)
(* exit leave the file, the port and the process where the code can.       *)
THEOREM LockTypeCorrect == LockSpec => []LockTypeOK
<1>1. LockInit => LockTypeOK
  BY DEF LockInit, LockTypeOK, State, Down
<1>2. LockTypeOK /\ [LockNext]_lockVars => LockTypeOK'
  <2> SUFFICES ASSUME LockTypeOK, [LockNext]_lockVars PROVE LockTypeOK'
    OBVIOUS
  <2>1. CASE UNCHANGED lockVars
    BY <2>1 DEF LockTypeOK, lockVars
  <2>2. ASSUME NEW p \in Pids, Acquire(p) PROVE LockTypeOK'
    BY <2>2 DEF LockTypeOK, Acquire, StartServer, Undisturbed, history, Create, CreateRefused,
       WriteContent, ReadStale, ReadOwn, ReadLive, ProbeAnswered, ProbeFailed, Remove,
       Recreate, RecreateRefused, OpenExclusive, MoveTo, State, Down,
       Acquiring, Running, Exiting
  <2>3. ASSUME NEW p \in Pids, Serve(p) PROVE LockTypeOK'
    BY <2>3 DEF LockTypeOK, Serve, Listen, BootFails, Terminate, Undisturbed, history, Exit,
       ReleaseRead, ReleaseUnlink, ClosePort, MoveTo, State, Down,
       Acquiring, Running, Exiting
  <2>4. ASSUME NEW p \in Pids, Machine(p) PROVE LockTypeOK'
    BY <2>4 DEF LockTypeOK, Machine, history, Crash, ForeignStarts, ForeignEnds,
       ClosePort, MoveTo, State, Down
  <2> QED BY <2>1, <2>2, <2>3, <2>4 DEF LockNext
<1> QED BY <1>1, <1>2, PTL DEF LockSpec

-----------------------------------------------------------------------------
(* The starts and stops that do not overlap *)

LEMMA OrderlyInit ==
  ASSUME ~disorder, LockInit
  PROVE  OrderlyInv
BY NamesDiffer DEF LockInit, OrderlyInv, OneBusy, Busy, ListenerOwns, PortIsListeners,
   NobodyServes, HolderOwns, NobodyFailed, Committed, Down

(* acquireLock, step by step. *)
LEMMA OrderlyAcquire ==
  ASSUME ~disorder', LockTypeOK, OrderlyInv, NEW p \in Pids, Acquire(p)
  PROVE  OrderlyInv'
<1>1. CASE StartServer(p)
  BY <1>1, NamesDiffer DEF StartServer, MoveTo, Undisturbed, Quiet, LockTypeOK, Down,
     OrderlyInv, OneBusy, Busy, ListenerOwns, PortIsListeners,
       NobodyServes, HolderOwns, NobodyFailed, Committed
<1>2. CASE Create(p)
  BY <1>2, NamesDiffer DEF Create, MoveTo, OpenExclusive, LockTypeOK, Down,
     OrderlyInv, OneBusy, Busy, ListenerOwns, PortIsListeners,
       NobodyServes, HolderOwns, NobodyFailed, Committed
<1>3. CASE CreateRefused(p)
  BY <1>3, NamesDiffer DEF CreateRefused, MoveTo, LockTypeOK, Down,
     OrderlyInv, OneBusy, Busy, ListenerOwns, PortIsListeners,
       NobodyServes, HolderOwns, NobodyFailed, Committed
<1>4. CASE WriteContent(p)
  BY <1>4, NamesDiffer DEF WriteContent, MoveTo, LockTypeOK, Down,
     OrderlyInv, OneBusy, Busy, ListenerOwns, PortIsListeners,
       NobodyServes, HolderOwns, NobodyFailed, Committed
<1>5. CASE ReadStale(p)
  BY <1>5, NamesDiffer DEF ReadStale, MoveTo, Readable, Alive, LockTypeOK, Down,
     OrderlyInv, OneBusy, Busy, ListenerOwns, PortIsListeners,
       NobodyServes, HolderOwns, NobodyFailed, Committed
<1>6. CASE ReadOwn(p)
  BY <1>6, NamesDiffer DEF ReadOwn, MoveTo, Readable, LockTypeOK, Down,
     OrderlyInv, OneBusy, Busy, ListenerOwns, PortIsListeners,
       NobodyServes, HolderOwns, NobodyFailed, Committed
<1>7. CASE ReadLive(p)
  BY <1>7, NamesDiffer DEF ReadLive, MoveTo, LockTypeOK, Down,
     OrderlyInv, OneBusy, Busy, ListenerOwns, PortIsListeners,
       NobodyServes, HolderOwns, NobodyFailed, Committed
<1>8. CASE ProbeAnswered(p)
  BY <1>8, NamesDiffer DEF ProbeAnswered, MoveTo, LockTypeOK, Down,
     OrderlyInv, OneBusy, Busy, ListenerOwns, PortIsListeners,
       NobodyServes, HolderOwns, NobodyFailed, Committed
<1>9. CASE ProbeFailed(p)
  BY <1>9, NamesDiffer DEF ProbeFailed, MoveTo, LockTypeOK, Down,
     OrderlyInv, OneBusy, Busy, ListenerOwns, PortIsListeners,
       NobodyServes, HolderOwns, NobodyFailed, Committed
<1>10. CASE Remove(p)
  BY <1>10, NamesDiffer DEF Remove, MoveTo, LockTypeOK, Down,
     OrderlyInv, OneBusy, Busy, ListenerOwns, PortIsListeners,
       NobodyServes, HolderOwns, NobodyFailed, Committed
<1>11. CASE Recreate(p)
  BY <1>11, NamesDiffer DEF Recreate, MoveTo, OpenExclusive, LockTypeOK, Down,
     OrderlyInv, OneBusy, Busy, ListenerOwns, PortIsListeners,
       NobodyServes, HolderOwns, NobodyFailed, Committed
<1>12. CASE RecreateRefused(p)
  BY <1>12, NamesDiffer DEF RecreateRefused, MoveTo, LockTypeOK, Down,
     OrderlyInv, OneBusy, Busy, ListenerOwns, PortIsListeners,
       NobodyServes, HolderOwns, NobodyFailed, Committed
<1> QED BY <1>1, <1>2, <1>3, <1>4, <1>5, <1>6, <1>7, <1>8, <1>9, <1>10, <1>11, <1>12 DEF Acquire

(* From listening to the exit handler. *)
LEMMA OrderlyServe ==
  ASSUME ~disorder', LockTypeOK, OrderlyInv, NEW p \in Pids, Serve(p)
  PROVE  OrderlyInv'
<1>1. CASE Listen(p)
  BY <1>1, NamesDiffer DEF Listen, MoveTo, LockTypeOK, Down,
     OrderlyInv, OneBusy, Busy, ListenerOwns, PortIsListeners,
       NobodyServes, HolderOwns, NobodyFailed, Committed
<1>2. CASE BootFails(p)
  BY <1>2, NamesDiffer DEF BootFails, MoveTo, LockTypeOK, Down,
     OrderlyInv, OneBusy, Busy, ListenerOwns, PortIsListeners,
       NobodyServes, HolderOwns, NobodyFailed, Committed
<1>3. CASE Terminate(p)
  BY <1>3, NamesDiffer DEF Terminate, MoveTo, Undisturbed, Quiet, ClosePort, LockTypeOK, Down,
     OrderlyInv, OneBusy, Busy, ListenerOwns, PortIsListeners,
       NobodyServes, HolderOwns, NobodyFailed, Committed
<1>4. CASE Exit(p)
  BY <1>4, NamesDiffer DEF Exit, MoveTo, LockTypeOK, Down,
     OrderlyInv, OneBusy, Busy, ListenerOwns, PortIsListeners,
       NobodyServes, HolderOwns, NobodyFailed, Committed
<1>5. CASE ReleaseRead(p)
  BY <1>5, NamesDiffer DEF ReleaseRead, MoveTo, LockTypeOK, Down,
     OrderlyInv, OneBusy, Busy, ListenerOwns, PortIsListeners,
       NobodyServes, HolderOwns, NobodyFailed, Committed
<1>6. CASE ReleaseUnlink(p)
  BY <1>6, NamesDiffer DEF ReleaseUnlink, MoveTo, LockTypeOK, Down,
     OrderlyInv, OneBusy, Busy, ListenerOwns, PortIsListeners,
       NobodyServes, HolderOwns, NobodyFailed, Committed
<1> QED BY <1>1, <1>2, <1>3, <1>4, <1>5, <1>6 DEF Serve

(* A kill, and pids that change hands. *)
LEMMA OrderlyMachine ==
  ASSUME ~disorder', LockTypeOK, OrderlyInv, NEW p \in Pids, Machine(p)
  PROVE  OrderlyInv'
<1>1. CASE Crash(p)
  BY <1>1, NamesDiffer DEF Crash, MoveTo, ClosePort, Server, Acquiring, Running, Exiting, LockTypeOK, Down,
     OrderlyInv, OneBusy, Busy, ListenerOwns, PortIsListeners,
       NobodyServes, HolderOwns, NobodyFailed, Committed
<1>2. CASE ForeignStarts(p)
  BY <1>2, NamesDiffer DEF ForeignStarts, MoveTo, LockTypeOK, Down,
     OrderlyInv, OneBusy, Busy, ListenerOwns, PortIsListeners,
       NobodyServes, HolderOwns, NobodyFailed, Committed
<1>3. CASE ForeignEnds(p)
  BY <1>3, NamesDiffer DEF ForeignEnds, MoveTo, LockTypeOK, Down,
     OrderlyInv, OneBusy, Busy, ListenerOwns, PortIsListeners,
       NobodyServes, HolderOwns, NobodyFailed, Committed
<1> QED BY <1>1, <1>2, <1>3 DEF Machine

(* Order, once lost, stays lost. *)
LEMMA OrderIsLostOnce ==
  ASSUME LockTypeOK, [LockNext]_lockVars, disorder
  PROVE  disorder'
<1>1. CASE UNCHANGED lockVars
  BY <1>1 DEF lockVars
<1>2. ASSUME NEW p \in Pids, Acquire(p) PROVE disorder'
  BY <1>2 DEF LockTypeOK, Acquire, StartServer, Undisturbed, Create, CreateRefused,
     WriteContent, ReadStale, ReadOwn, ReadLive, ProbeAnswered, ProbeFailed,
     Remove, Recreate, RecreateRefused, OpenExclusive, history
<1>3. ASSUME NEW p \in Pids, Serve(p) PROVE disorder'
  BY <1>3 DEF LockTypeOK, Serve, Listen, BootFails, Terminate, Undisturbed, Exit,
     ReleaseRead, ReleaseUnlink, history
<1>4. ASSUME NEW p \in Pids, Machine(p) PROVE disorder'
  BY <1>4 DEF Machine, Crash, ForeignStarts, ForeignEnds, history
<1> QED BY <1>1, <1>2, <1>3, <1>4 DEF LockNext

THEOREM OrderlyInvariance == LockSpec => [](~disorder => OrderlyInv)
<1>1. LockInit => (~disorder => OrderlyInv)
  BY OrderlyInit
<1>2. LockTypeOK /\ (~disorder => OrderlyInv) /\ [LockNext]_lockVars => (~disorder => OrderlyInv)'
  <2> SUFFICES ASSUME LockTypeOK, ~disorder => OrderlyInv, [LockNext]_lockVars, ~disorder'
               PROVE  OrderlyInv'
    OBVIOUS
  <2>0. OrderlyInv
    BY OrderIsLostOnce
  <2>1. CASE UNCHANGED lockVars
    BY <2>0, <2>1 DEF lockVars, OrderlyInv, OneBusy, Busy, ListenerOwns, PortIsListeners,
       NobodyServes, HolderOwns, NobodyFailed
  <2> QED BY <2>0, <2>1, OrderlyAcquire, OrderlyServe, OrderlyMachine DEF LockNext
<1> QED BY <1>1, <1>2, LockTypeCorrect, PTL DEF LockSpec

(* One server at a time on the data directory, through kills, leftover     *)
(* files and reused pids, when starts and stops do not overlap, the port   *)
(* is free and the health check answers in time.                           *)
THEOREM SingleInstance == LockSpec => []OneInstance
<1>1. (~disorder => OrderlyInv) => OneInstance
  BY DEF OrderlyInv, OneInstance, AtMostOne, OneBusy, Busy, ListenerOwns, NobodyServes,
     Committed, Running, Down
<1> QED BY <1>1, OrderlyInvariance, PTL

(* Whatever file a killed server left, the next start gets past it.        *)
THEOREM NeverStuck == LockSpec => []LeftoverNeverFatal
<1>1. (~disorder => OrderlyInv) => LeftoverNeverFatal
  BY DEF OrderlyInv, LeftoverNeverFatal, NobodyFailed
<1> QED BY <1>1, OrderlyInvariance, PTL

-----------------------------------------------------------------------------
(* Every interleaving, without kills *)

(* A server that ends by itself takes its lock with it, whoever else is    *)
(* starting, reclaiming or stopping meanwhile.                             *)
THEOREM NothingLeftBehind == LockSpec => []NoLeftoverLock
<1>1. LockInit => (~killed => NamedIsThere)
  BY NamesDiffer DEF LockInit, NamedIsThere
<1>2. LockTypeOK /\ (~killed => NamedIsThere) /\ [LockNext]_lockVars => (~killed => NamedIsThere)'
  <2> SUFFICES ASSUME LockTypeOK, ~killed => NamedIsThere, [LockNext]_lockVars, ~killed'
               PROVE  NamedIsThere'
    OBVIOUS
  <2>0. ~killed /\ NamedIsThere
    BY DEF LockNext, lockVars, Acquire, StartServer, Create, CreateRefused, WriteContent,
       ReadStale, ReadOwn, ReadLive, ProbeAnswered, ProbeFailed, Remove,
       Recreate, RecreateRefused, OpenExclusive, Serve, Listen, BootFails,
       Terminate, Exit, ReleaseRead, ReleaseUnlink, Machine, Crash,
       ForeignStarts, ForeignEnds, history
  <2> USE NamesDiffer DEF LockTypeOK, NamedIsThere, MoveTo, Running, Exiting
  <2>1. CASE UNCHANGED lockVars
    BY <2>0, <2>1 DEF lockVars
  <2>2. ASSUME NEW p \in Pids, Acquire(p) PROVE NamedIsThere'
    BY <2>0, <2>2 DEF Acquire, StartServer, Create, CreateRefused, WriteContent,
       ReadStale, ReadOwn, ReadLive, ProbeAnswered, ProbeFailed, Remove,
       Recreate, RecreateRefused, OpenExclusive, Readable, Down
  <2>3. ASSUME NEW p \in Pids, Serve(p) PROVE NamedIsThere'
    BY <2>0, <2>3 DEF Serve, Listen, BootFails, Terminate, Exit, ReleaseRead,
       ReleaseUnlink
  <2>4. ASSUME NEW p \in Pids, Machine(p) PROVE NamedIsThere'
    BY <2>0, <2>4 DEF Machine, Crash, ForeignStarts, ForeignEnds, Down
  <2> QED BY <2>1, <2>2, <2>3, <2>4 DEF LockNext
<1>3. (~killed => NamedIsThere) => NoLeftoverLock
  BY DEF NamedIsThere, NoLeftoverLock, Alive, Running, Exiting, Down
<1> QED BY <1>1, <1>2, <1>3, LockTypeCorrect, PTL DEF LockSpec

-----------------------------------------------------------------------------
(* Every interleaving, with kills *)

(* A process that has not just lost its start cannot break RaceInv's third *)
(* part: it is itself somebody who has not lost.                           *)
LEMMA StillThere ==
  ASSUME LockTypeOK, NEW p \in Pids, pc'[p] \notin Lost
  PROVE  NotAllLost'
BY DEF NotAllLost, Lost

(* acquireLock: a start is refused by a server that answers, and fails on  *)
(* a file that another process has created since and holds.                *)
LEMMA RaceAcquire ==
  ASSUME LockTypeOK, RaceInv, NEW p \in Pids, Acquire(p)
  PROVE  RaceInv'
<1> USE NamesDiffer DEF LockTypeOK, MoveTo
<1>1. NotHolder'
  BY DEF RaceInv, NotHolder, Acquire, StartServer, Create, CreateRefused, WriteContent,
     ReadStale, ReadOwn, ReadLive, ProbeAnswered, ProbeFailed, Remove, Recreate,
     RecreateRefused, OpenExclusive
<1>2. PortIsServed'
  BY DEF RaceInv, PortIsServed, Acquire, StartServer, Create, CreateRefused, WriteContent,
     ReadStale, ReadOwn, ReadLive, ProbeAnswered, ProbeFailed, Remove, Recreate,
     RecreateRefused, OpenExclusive, history, Undisturbed, Down
<1>3. CASE ProbeAnswered(p)
  <2>1. pc[onPort] = "listening" /\ onPort \in Pids /\ onPort # p
    BY <1>3 DEF ProbeAnswered, RaceInv, PortIsServed
  <2>2. pc'[onPort] \notin Lost
    BY <1>3, <2>1 DEF ProbeAnswered, Lost
  <2> QED BY <1>1, <1>2, <2>1, <2>2, StillThere DEF RaceInv
<1>4. CASE RecreateRefused(p)
  <2>1. lockFile \in Pids /\ lockFile # p /\ pc[lockFile] \notin Lost
    BY <1>4 DEF RecreateRefused, RaceInv, NotHolder, Lost
  <2>2. pc'[lockFile] \notin Lost
    BY <1>4, <2>1 DEF RecreateRefused
  <2> QED BY <1>1, <1>2, <2>1, <2>2, StillThere DEF RaceInv
<1>5. CASE ~ProbeAnswered(p) /\ ~RecreateRefused(p)
  <2>1. pc'[p] \notin Lost
    BY <1>5 DEF Acquire, StartServer, Create, CreateRefused, WriteContent,
       ReadStale, ReadOwn, ReadLive, ProbeFailed, Remove, Recreate, OpenExclusive, Lost
  <2> QED BY <1>1, <1>2, <2>1, StillThere DEF RaceInv
<1> QED BY <1>3, <1>4, <1>5

(* The rest of a server's life, and the machine: nobody loses a start.     *)
LEMMA RaceServe ==
  ASSUME LockTypeOK, RaceInv, NEW p \in Pids, Serve(p) \/ Machine(p)
  PROVE  RaceInv'
<1> USE NamesDiffer DEF LockTypeOK, MoveTo, ClosePort
<1>1. NotHolder'
  BY DEF RaceInv, NotHolder, Serve, Listen, BootFails, Terminate, Exit, ReleaseRead,
     ReleaseUnlink, Machine, Crash, ForeignStarts, ForeignEnds
<1>2. PortIsServed'
  BY DEF RaceInv, PortIsServed, Serve, Listen, BootFails, Terminate, Exit, ReleaseRead,
     ReleaseUnlink, Machine, Crash, ForeignStarts, ForeignEnds, Down
<1>3. pc'[p] \notin Lost
  BY DEF Serve, Listen, BootFails, Terminate, Exit, ReleaseRead, ReleaseUnlink,
     Machine, Crash, ForeignStarts, ForeignEnds, Lost
<1> QED BY <1>1, <1>2, <1>3, StillThere DEF RaceInv

(* However starts race, they do not all lose: when every start is over and *)
(* one was refused or failed, one of the others serves.                    *)
THEOREM RaceHasWinner == LockSpec => []SomeoneServes
<1>1. LockInit => RaceInv
  BY NamesDiffer DEF LockInit, RaceInv, NotHolder, PortIsServed, NotAllLost
<1>2. LockTypeOK /\ RaceInv /\ [LockNext]_lockVars => RaceInv'
  <2> SUFFICES ASSUME LockTypeOK, RaceInv, [LockNext]_lockVars PROVE RaceInv'
    OBVIOUS
  <2>1. CASE UNCHANGED lockVars
    BY <2>1 DEF lockVars, RaceInv, NotHolder, PortIsServed, NotAllLost
  <2> QED BY <2>1, RaceAcquire, RaceServe DEF LockNext
<1>3. RaceInv => SomeoneServes
  BY DEF RaceInv, NotAllLost, SomeoneServes, Lost
<1> QED BY <1>1, <1>2, <1>3, LockTypeCorrect, PTL DEF LockSpec
=============================================================================
