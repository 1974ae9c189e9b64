---------------------------- MODULE UploadServer ----------------------------
(***************************************************************************)
(* Uploads (lib/upload-server.ts with lib/upload-admission.ts and          *)
(* lib/uploads-store.ts): a POST is authorized, admitted against a limit   *)
(* of transactions and of declared bytes, streamed into a staged file and  *)
(* published by a hard link, while the client may go away, timers may fire *)
(* and the server may shut down.                                           *)
(*                                                                         *)
(* A request has a handler (handleRequest) and, once admitted, a           *)
(* transaction (createTrackedTransaction with streamUploadArtifact); they  *)
(* wait for each other through the promises ready, proceed and result.     *)
(* Each value of "at" and "tx" is an await, where others take steps.       *)
(***************************************************************************)
EXTENDS Integers, FiniteSets

CONSTANTS
    Requests,   \* upload requests, each on a connection of its own
    Size,       \* [Requests -> Nat \ {0}], the declared bytes
    MaxActive,  \* transactions at a time
    MaxBytes,   \* declared bytes at a time
    MaxTries,   \* bound: repeated publish attempts of a transaction
    Faults      \* a subset of {"disk", "body", "continue"}

ASSUME SizesArePositive == Size \in [Requests -> Nat \ {0}]
ASSUME LimitsAreNat == {MaxActive, MaxBytes, MaxTries} \subseteq Nat
ASSUME FaultsKnown == Faults \subseteq {"disk", "body", "continue"}

VARIABLES
    conn,       \* "none", "open", "closed": the request's connection
    at,         \* where the handler stands
    answer,     \* what the client was told
    tx,         \* where the transaction stands
    aborted,    \* the transaction's AbortController has been aborted
    cause,      \* its first failure: "none", "incomplete", "storage"
    body,       \* "partial" or "whole": what was written to the staged file
    part,       \* part[r]: the staged file exists
    stored,     \* the published file: "absent", or the body it was linked with
    tries,      \* repeated publish attempts
    leases,     \* the requests with a reservation
    reservedBytes,    \* the sum of their declared bytes, kept by hand
    admissionClosed,  \* shuttingDown of the admission service
    closing,    \* shuttingDown of the upload server
    drain,      \* its shutdown(): "no", "called", "waiting", "done"
    awaited,    \* the transactions shutdown() waits for
    maint       \* removal of stale staged files, see MaintStates

handler == <<conn, at, answer>>
file == <<body, part, stored, tries>>
admission == <<leases, reservedBytes, admissionClosed>>
server == <<closing, drain, awaited, maint>>
uploadVars == <<handler, tx, aborted, cause, file, admission, server>>

(***************************************************************************)
(* Handler.  auth: awaits authorizeRequest.  refresh: awaits the session   *)
(* cookie.  ready, result: awaits the transaction's promise of that name.  *)
(* Transaction.  created: its microtask has not run.  waiting: awaits      *)
(* proceed.  preparing: directories and staged file.  streaming: the       *)
(* pipeline.  closing: the file handle.  publishing: about to link.        *)
(* linking: link() is under way.  unlinking: published, the staged name is *)
(* being removed.  cleaning: failed, the staged file is being removed.     *)
(***************************************************************************)
HandlerStates == {"new", "auth", "refresh", "ready", "result", "done"}
Storing == {"preparing", "streaming", "closing", "publishing", "linking",
            "unlinking", "cleaning"}
Live == {"created", "waiting"} \cup Storing
\* incomplete: aborted by the client, a timer or the shutdown, or of a wrong
\* length, which only the wording of the answer tells apart; so it is with
\* the reasons to refuse a request before it has a transaction.
Failures == {"incomplete", "storage"}
Answers == Failures \cup {"ok", "refused"}
\* first: the sweep start() waits for.  timer: the next one is scheduled.
MaintStates == {"off", "first", "timer", "running", "stopped"}

UploadInit ==
    /\ conn = [r \in Requests |-> "none"]
    /\ at = [r \in Requests |-> "new"]
    /\ answer = [r \in Requests |-> "none"]
    /\ tx = [r \in Requests |-> "none"]
    /\ aborted = [r \in Requests |-> FALSE]
    /\ cause = [r \in Requests |-> "none"]
    /\ body = [r \in Requests |-> "partial"]
    /\ part = [r \in Requests |-> FALSE]
    /\ stored = [r \in Requests |-> "absent"]
    /\ tries = [r \in Requests |-> 0]
    /\ leases = {}
    /\ reservedBytes = 0
    /\ admissionClosed = FALSE
    /\ closing = FALSE
    /\ drain = "no"
    /\ awaited = {}
    /\ maint = "off"

Active == {r \in Requests : tx[r] \in Live}
\* The sum of the declared bytes of R, as the number of its pairs of a
\* request and a byte: a sum that TLAPS can reason about.
Declared(R) == UNION {{r} \X (1..Size[r]) : r \in R}
Bytes(R) == Cardinality(Declared(R))

\* The store's abort listener records the abort unless something failed
\* before; of a transaction that is not in the store yet, or is past its
\* outcome, only the signal changes.
Abort(R) ==
    LET hit == {r \in R : tx[r] \in Live /\ ~aborted[r]} IN
    /\ aborted' = [r \in Requests |-> aborted[r] \/ r \in hit]
    /\ cause' = [r \in Requests |->
                    IF r \in hit /\ tx[r] \in Storing /\ cause[r] = "none"
                    THEN "incomplete" ELSE cause[r]]

\* The connections of R are gone: the handler's gates close and executing
\* transactions abort.  A transaction whose microtask has not run has no
\* listeners; Execute looks for itself.
Hangup(R) ==
    /\ conn' = [r \in Requests |-> IF r \in R THEN "closed" ELSE conn[r]]
    /\ Abort({r \in R : tx[r] # "created"})

\* Mutant: a lease is given back by a transaction that has none any more.
ReleaseAgain(R) ==
    LET live == R \cap Active IN
    /\ leases' = leases \ live
    /\ reservedBytes' = reservedBytes - Bytes(live)

\* release() of every lease of R that was not given back already.
Release(R) ==
    LET held == R \cap leases IN
    /\ leases' = leases \ held
    /\ reservedBytes' = reservedBytes - Bytes(held)

Goto(r, phase) == tx' = [tx EXCEPT ![r] = phase]

\* finally of execute(): timers and listeners off, the lease given back; the
\* transaction's own variables are gone, its result stays.
End(r) ==
    /\ Goto(r, "ended")
    /\ aborted' = [aborted EXCEPT ![r] = FALSE]
    /\ body' = [body EXCEPT ![r] = "partial"]
    /\ tries' = [tries EXCEPT ![r] = 0]
    /\ Release({r})
    /\ UNCHANGED admissionClosed

\* The answer closes the connection; nobody is told on a closed one.
Reply(r, what) ==
    /\ at' = [at EXCEPT ![r] = "done"]
    /\ IF conn[r] = "open"
       THEN /\ answer' = [answer EXCEPT ![r] = what]
            /\ conn' = [conn EXCEPT ![r] = "closed"]
       ELSE UNCHANGED <<answer, conn>>

-----------------------------------------------------------------------------
(* The handler *)

\* A request arrives on its connection.  The route, the Host header and
\* uploads being disabled may refuse it at once, a shutdown does.
Arrive(r) ==
    /\ at[r] = "new"
    /\ conn[r] = "open"
    /\ \/ Reply(r, "refused")
       \/ /\ ~closing
          /\ at' = [at EXCEPT ![r] = "auth"]
          /\ UNCHANGED <<conn, answer>>
    /\ UNCHANGED <<tx, aborted, cause, file, admission, server>>

\* admission.reserve, and createTrackedTransaction in the same step.
Reserve(r) ==
    IF admissionClosed
    THEN /\ Reply(r, "refused")
         /\ UNCHANGED <<tx, leases, reservedBytes>>
    ELSE IF Cardinality(leases) >= MaxActive \/ Size[r] > MaxBytes - reservedBytes
    THEN /\ Reply(r, "refused")
         /\ UNCHANGED <<tx, leases, reservedBytes>>
    ELSE /\ leases' = leases \cup {r}
         /\ reservedBytes' = reservedBytes + Size[r]
         /\ tx' = [tx EXCEPT ![r] = "created"]
         /\ at' = [at EXCEPT ![r] = "ready"]
         /\ UNCHANGED <<conn, answer>>

\* What follows either await: the gates, then admission.
Admit(r) ==
    IF conn[r] # "open"
    THEN /\ at' = [at EXCEPT ![r] = "done"]
         /\ UNCHANGED <<conn, answer, tx, leases, reservedBytes>>
    ELSE IF closing
    THEN /\ Reply(r, "refused")
         /\ UNCHANGED <<tx, leases, reservedBytes>>
    ELSE Reserve(r)

\* authorizeRequest answered: it threw, refused, or the request does not
\* meet the contract; or the session cookie is due for a refresh; or it is
\* admitted.  The gates come before all but the first.
Authorized(r) ==
    /\ at[r] = "auth"
    /\ \/ /\ Reply(r, "refused")
          /\ UNCHANGED <<tx, leases, reservedBytes>>
       \/ /\ conn[r] = "open" /\ ~closing
          /\ at' = [at EXCEPT ![r] = "refresh"]
          /\ UNCHANGED <<conn, answer, tx, leases, reservedBytes>>
       \/ Admit(r)
    /\ UNCHANGED <<aborted, cause, file, admissionClosed, server>>

Refreshed(r) ==
    /\ at[r] = "refresh"
    /\ \/ /\ Reply(r, "refused")
          /\ UNCHANGED <<tx, leases, reservedBytes>>
       \/ Admit(r)
    /\ UNCHANGED <<aborted, cause, file, admissionClosed, server>>

\* ready: the handler sends 100 Continue when asked to, and lets the
\* transaction proceed.  writeContinue may throw; the transaction then ends
\* with that error and the socket is destroyed.
Continue(r) ==
    /\ at[r] = "ready" /\ tx[r] = "waiting"
    /\ at' = [at EXCEPT ![r] = "result"]
    /\ IF aborted[r]
       THEN /\ cause' = [cause EXCEPT ![r] = "incomplete"]
            /\ End(r)
       ELSE /\ Goto(r, "preparing")
            /\ UNCHANGED <<cause, aborted, body, tries, admission>>
    /\ UNCHANGED <<conn, answer, part, stored, server>>

ContinueThrows(r) ==
    /\ "continue" \in Faults
    /\ at[r] = "ready" /\ tx[r] = "waiting" /\ ~aborted[r]
    /\ at' = [at EXCEPT ![r] = "done"]
    /\ conn' = [conn EXCEPT ![r] = "closed"]
    /\ End(r)
    /\ UNCHANGED <<answer, cause, part, stored, server>>

\* result: the receipt of a committed upload, whatever was aborted since, or
\* the failure the store reported.
Respond(r) ==
    /\ at[r] = "result" /\ tx[r] = "ended"
    /\ Reply(r, IF stored[r] # "absent" THEN "ok" ELSE cause[r])
    /\ UNCHANGED <<tx, aborted, cause, file, admission, server>>

Handle(r) == Authorized(r) \/ Refreshed(r) \/ Continue(r) \/ Respond(r)

-----------------------------------------------------------------------------
(* The transaction *)

\* The client, which the code cannot make act.
Connect(r) ==
    /\ conn[r] = "none"
    /\ conn' = [conn EXCEPT ![r] = "open"]
    /\ UNCHANGED <<at, answer, tx, aborted, cause, file, admission, server>>

Disconnect(r) ==
    /\ conn[r] = "open"
    /\ Hangup({r})
    /\ UNCHANGED <<at, answer, tx, file, admission, server>>

\* execute() in its microtask: listeners, a look at the transport, timers.
Execute(r) ==
    /\ tx[r] = "created"
    /\ tx' = [tx EXCEPT ![r] = "waiting"]
    /\ aborted' = [aborted EXCEPT ![r] =
                       @ \/ conn[r] # "open"]
    /\ UNCHANGED <<handler, cause, file, admission, server>>

\* The idle timer, reset by every chunk, or the absolute one.
TimeOut(r) ==
    /\ tx[r] \in Live \ {"created"}
    /\ ~aborted[r]
    /\ Abort({r})
    /\ UNCHANGED <<handler, tx, file, admission, server>>

\* The catch of streamUploadArtifact; the first cause stands.
Fail(r, why) ==
    /\ Goto(r, "cleaning")
    /\ cause' = [cause EXCEPT ![r] = IF @ = "none" THEN why ELSE @]

\* Directories and staged file; it may fail before or after the file exists.
Prepare(r) ==
    /\ tx[r] = "preparing"
    /\ \/ /\ part' = [part EXCEPT ![r] = TRUE]
          /\ Goto(r, "streaming")
          /\ UNCHANGED cause
       \/ /\ "disk" \in Faults
          /\ \E made \in BOOLEAN : part' = [part EXCEPT ![r] = made]
          /\ Fail(r, "storage")
    /\ UNCHANGED <<handler, aborted, body, stored, tries, admission, server>>

\* The client sends the rest of the body.
SendBody(r) ==
    /\ tx[r] = "streaming"
    /\ conn[r] = "open" /\ ~aborted[r] /\ body[r] = "partial"
    /\ body' = [body EXCEPT ![r] = "whole"]
    /\ UNCHANGED <<handler, tx, aborted, cause, part, stored, tries, admission, server>>

\* The counter refuses a chunk, or a write fails.
PipelineFails(r) ==
    /\ tx[r] = "streaming"
    /\ \/ /\ "body" \in Faults /\ ~aborted[r]
          /\ Fail(r, "incomplete")
       \/ /\ "disk" \in Faults
          /\ Fail(r, "storage")
    /\ UNCHANGED <<handler, aborted, file, admission, server>>

\* Mutant: the length is not compared when the body has ended.
PipelineEndsShort(r) ==
    /\ tx[r] = "streaming"
    /\ IF aborted[r] THEN Fail(r, "incomplete") ELSE Goto(r, "closing") /\ UNCHANGED cause
    /\ UNCHANGED <<handler, aborted, file, admission, server>>

\* Mutant: the pipeline is not given the signal.
PipelineEndsDeaf(r) ==
    /\ tx[r] = "streaming"
    /\ body[r] = "whole"
    /\ IF aborted[r] THEN Fail(r, "incomplete") ELSE Goto(r, "closing") /\ UNCHANGED cause
    /\ UNCHANGED <<handler, aborted, file, admission, server>>

\* The pipeline ends: the signal aborts it, or the body has ended; then the
\* length is compared.
PipelineEnds(r) ==
    /\ tx[r] = "streaming"
    /\ \/ /\ aborted[r]
          /\ Fail(r, "incomplete")
       \/ /\ ~aborted[r] /\ body[r] = "whole"
          /\ Goto(r, "closing")
          /\ UNCHANGED cause
    /\ UNCHANGED <<handler, aborted, file, admission, server>>

\* closeHandle, then the signal, then the directories once more.
CloseFile(r) ==
    /\ tx[r] = "closing"
    /\ \/ /\ "disk" \in Faults
          /\ Fail(r, "storage")
       \/ /\ aborted[r]
          /\ Fail(r, "incomplete")
       \/ /\ ~aborted[r]
          /\ Goto(r, "publishing")
          /\ UNCHANGED cause
    /\ UNCHANGED <<handler, aborted, file, admission, server>>

\* A final name is reserved; the signal is read before every attempt.
Publish(r) ==
    /\ tx[r] = "publishing"
    /\ \/ /\ "disk" \in Faults
          /\ Fail(r, "storage")
       \/ /\ aborted[r]
          /\ Fail(r, "incomplete")
       \/ /\ ~aborted[r]
          /\ Goto(r, "linking")
          /\ UNCHANGED cause
    /\ UNCHANGED <<handler, aborted, file, admission, server>>

\* link() returns: the file is published, an abort in the meantime changes
\* nothing; or the name is taken or busy, and another attempt follows; or it
\* fails.
Link(r) ==
    /\ tx[r] = "linking"
    /\ \/ /\ stored' = [stored EXCEPT ![r] = body[r]]
          /\ Goto(r, "unlinking")
          /\ UNCHANGED <<cause, tries>>
       \/ /\ tries[r] < MaxTries
          /\ tries' = [tries EXCEPT ![r] = @ + 1]
          /\ Goto(r, "publishing")
          /\ UNCHANGED <<cause, stored>>
       \/ /\ "disk" \in Faults
          /\ Fail(r, "storage")
          /\ UNCHANGED <<stored, tries>>
    /\ UNCHANGED <<handler, aborted, body, part, admission, server>>

\* The staged name of a published file goes, or stays when unlink fails.
Unlink(r) ==
    /\ tx[r] = "unlinking"
    /\ \E stays \in BOOLEAN :
          /\ stays => "disk" \in Faults
          /\ part' = [part EXCEPT ![r] = stays]
    /\ End(r)
    /\ UNCHANGED <<handler, cause, stored, server>>

\* Mutant: the staged file of a failed upload is left to the sweep.
CleanNothing(r) ==
    /\ tx[r] = "cleaning"
    /\ End(r)
    /\ UNCHANGED <<handler, cause, part, stored, server>>

\* removeStagedFile, after the write under way; when the close or the unlink
\* fails the answer is storage-failure whatever the first cause was.
Clean(r) ==
    /\ tx[r] = "cleaning"
    /\ \/ /\ part' = [part EXCEPT ![r] = FALSE]
          /\ UNCHANGED cause
       \/ /\ "disk" \in Faults /\ part[r]
          /\ cause' = [cause EXCEPT ![r] = "storage"]
          /\ \E stays \in BOOLEAN : part' = [part EXCEPT ![r] = stays]
    /\ End(r)
    /\ UNCHANGED <<handler, stored, server>>

\* What a transaction does next.  A stalled one can do nothing: nobody owes it
\* a failing disk (PipelineFails is not among its steps), only the signal.
Transact(r) ==
    \/ Execute(r) \/ Prepare(r) \/ PipelineEnds(r) \/ CloseFile(r)
    \/ Publish(r) \/ Link(r) \/ Unlink(r) \/ Clean(r)

-----------------------------------------------------------------------------
(* Start, maintenance and shutdown of the upload server *)

\* start() sweeps once before the port is opened.
StartSweep ==
    /\ maint = "off"
    /\ maint' = IF closing THEN "stopped" ELSE "first"

\* cleanupStaleParts: staged files older than half an hour, which no live
\* transaction has, since it lasts 270 seconds at most.
Sweep ==
    /\ maint \in {"first", "running"}
    /\ maint' = IF closing THEN "stopped" ELSE "timer"
    /\ \E old \in SUBSET {r \in Requests : part[r] /\ tx[r] = "ended"} :
          part' = [r \in Requests |-> part[r] /\ r \notin old]
    /\ UNCHANGED <<handler, tx, aborted, cause, body, stored, tries, admission,
                   closing, drain, awaited>>

SweepTimer ==
    /\ maint = "timer"
    /\ maint' = "running"
    /\ UNCHANGED <<handler, tx, aborted, cause, file, admission, closing, drain, awaited>>

\* beginShutdown() and shutdown(): the flag, the timer off; the rest is a
\* microtask.
ShutdownUploads ==
    /\ closing' = TRUE
    /\ drain' = "called"
    /\ maint' = IF maint = "timer" THEN "stopped" ELSE maint

\* Mutant: the shutdown waits for the transactions without aborting them.
DrainPatiently ==
    /\ drain = "called"
    /\ drain' = "waiting"
    /\ awaited' = Active \cup (IF maint \in {"first", "running"} THEN {"sweep"} ELSE {})
    /\ admissionClosed' = TRUE
    /\ Release(Requests)
    /\ UNCHANGED <<handler, tx, aborted, cause, file, closing, maint>>

\* admission.shutdown() aborts and releases every reservation; then every
\* transaction is aborted and waited for, with the sweep under way.
Drain ==
    /\ drain = "called"
    /\ drain' = "waiting"
    /\ awaited' = Active \cup (IF maint \in {"first", "running"} THEN {"sweep"} ELSE {})
    /\ admissionClosed' = TRUE
    /\ Release(Requests)
    /\ Abort(Requests)
    /\ UNCHANGED <<handler, tx, file, closing, maint>>

Drained ==
    /\ drain = "waiting"
    /\ awaited \cap Active = {}
    /\ "sweep" \in awaited => maint = "stopped"
    /\ drain' = "done"
    /\ UNCHANGED <<handler, tx, aborted, cause, file, admission, closing, awaited, maint>>

UploadStep ==
    \/ \E r \in Requests : Arrive(r) \/ Handle(r) \/ ContinueThrows(r)
    \/ \E r \in Requests : Disconnect(r) \/ SendBody(r) \/ TimeOut(r)
    \/ \E r \in Requests : Transact(r) \/ PipelineFails(r)
    \/ Sweep \/ SweepTimer \/ Drain \/ Drained

-----------------------------------------------------------------------------
(* Properties *)

\* Every variable stays in its domain (the state of upload-server.ts,
\* upload-admission.ts and uploads-store.ts).
UploadTypeOK ==
    /\ conn \in [Requests -> {"none", "open", "closed"}]
    /\ at \in [Requests -> HandlerStates]
    /\ answer \in [Requests -> Answers \cup {"none"}]
    /\ tx \in [Requests -> Live \cup {"none", "ended"}]
    /\ aborted \in [Requests -> BOOLEAN]
    /\ cause \in [Requests -> Failures \cup {"none"}]
    /\ body \in [Requests -> {"partial", "whole"}]
    /\ part \in [Requests -> BOOLEAN]
    /\ stored \in [Requests -> {"absent", "partial", "whole"}]
    /\ tries \in [Requests -> 0..MaxTries]
    /\ leases \in SUBSET Requests /\ IsFiniteSet(leases)
    /\ reservedBytes \in Int
    /\ admissionClosed \in BOOLEAN
    /\ closing \in BOOLEAN
    /\ drain \in {"no", "called", "waiting", "done"}
    /\ awaited \in SUBSET (Requests \cup {"sweep"})
    /\ maint \in MaintStates

\* Until the admission service closes, its leases are those of the live
\* transactions, afterwards there are none; the counter of bytes is the sum
\* of what they declared, each counted once (reserve and release of
\* upload-admission.ts, called from the handler, the transaction's finally
\* and shutdown()).
LeasesExact ==
    /\ leases = IF admissionClosed THEN {} ELSE Active
    /\ reservedBytes = Bytes(leases)

\* Admission counts what is there, and neither limit is ever exceeded
\* (createUploadAdmissionService).
AdmissionExact ==
    /\ LeasesExact
    /\ Cardinality(leases) <= MaxActive
    /\ reservedBytes <= MaxBytes

\* A transaction that has ended leaves no staged file behind, unless the
\* disk refused to remove it; the client of an unpublished one was then to
\* be told of a storage failure (removeStagedFile, streamUploadArtifact).
NoStagedFileLeft ==
    \A r \in Requests :
        tx[r] = "ended" /\ part[r] =>
            /\ "disk" \in Faults
            /\ stored[r] = "absent" => cause[r] = "storage"
=============================================================================
