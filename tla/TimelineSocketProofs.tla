------------------------ MODULE TimelineSocketProofs ------------------------
(***************************************************************************)
(* Proofs about TimelineSocket, for every set of runs and transcripts and *)
(* any number of generations and faults.                                  *)
(***************************************************************************)
EXTENDS TimelineSocket, SequenceTheorems, TLAPS

ConnState ==
    [cleaned : BOOLEAN, closing : BOOLEAN, liveId : Runs \cup {None},
     watchId : {Watch, None}, path : Paths \cup {None}, gen : 0..MaxGen,
     failed : BOOLEAN]
RunState ==
    [at : {"unused", "dropping", "ask", "waiting", "answered", "done"},
     gen : 0..MaxGen, path : Paths \cup {None},
     origin : {None, "message", "session", "claim", "opening"}]
Commands == [op : {"subscribe", "unsubscribe"}, id : Ids]

\* The part of TypeOK that speaks of the connection and its runs.
RunsOK ==
    /\ conn \in ConnState
    /\ run \in [Runs -> RunState]
    /\ conn.cleaned => conn.liveId = None /\ conn.watchId = None
    /\ \A r \in Runs : run[r].gen <= conn.gen

LEMMA TypeParts ==
  TypeOK <=> /\ RunsOK
             /\ opening \in {"detect", "starting", "watching", "watched", "resolve", "done"}
             /\ subs \subseteq Ids /\ held \subseteq Ids /\ lost \subseteq Ids
             /\ ipc \in Seq(Commands)
  BY DEF TypeOK, RunsOK, ConnState, RunState, Commands

LEMMA TypePartsNext ==
  ASSUME RunsOK',
         opening' \in {"detect", "starting", "watching", "watched", "resolve", "done"},
         subs' \subseteq Ids, held' \subseteq Ids, lost' \subseteq Ids,
         ipc' \in Seq(Commands)
  PROVE  TypeOK'
  BY DEF TypeOK, RunsOK, ConnState, RunState, Commands

-----------------------------------------------------------------------------
(* Types *)

\* The unsubscribe commands for the subscriptions in gone.
Asking(gone) == [i \in DOMAIN gone |-> [op |-> "unsubscribe", id |-> gone[i]]]

LEMMA AskingIsSeq ==
  ASSUME NEW gone \in Seq(Ids)
  PROVE  /\ Asking(gone) \in Seq(Commands)
         /\ Len(Asking(gone)) = Len(gone)
         /\ \A i \in 1..Len(gone) : Asking(gone)[i] = [op |-> "unsubscribe", id |-> gone[i]]
<1>1. Len(gone) \in Nat /\ DOMAIN gone = 1..Len(gone) /\ gone \in [1..Len(gone) -> Ids]
  BY LenProperties
<1>2. Asking(gone) = [i \in 1..Len(gone) |-> [op |-> "unsubscribe", id |-> gone[i]]]
  BY <1>1 DEF Asking
<1>3. Asking(gone) \in [1..Len(gone) -> Commands]
  BY <1>1, <1>2 DEF Commands
<1>4. Asking(gone) \in Seq(Commands)
  BY <1>1, <1>3, SeqDef
<1> QED
  BY <1>1, <1>2, <1>4, LenProperties

\* Unsubscribing what the connection holds keeps the maps and the channel.
LEMMA UnsubscribeTypes ==
  ASSUME TypeOK, NEW gone \in Seq(Ids), Unsubscribe(gone)
  PROVE  subs' \subseteq Ids /\ lost' \subseteq Ids /\ ipc' \in Seq(Commands)
<1>1. subs' \subseteq Ids /\ lost' \subseteq Ids
  <2>1. ToSet(gone) \subseteq Ids
    BY DEF ToSet
  <2> QED
    BY <2>1 DEF Unsubscribe, TypeOK
<1>2. Asking(gone) \in Seq(Commands)
  BY AskingIsSeq
<1>3. ipc \in Seq(Commands)
  BY TypeParts
<1>4. ipc' = ipc \o Asking(gone) \/ ipc' = ipc
  BY DEF Unsubscribe, Asking
<1>5. ipc' \in Seq(Commands)
  BY <1>2, <1>3, <1>4, ConcatProperties
<1> QED
  BY <1>1, <1>5

LEMMA MineIsSeq ==
  ASSUME RunsOK
  PROVE  /\ Mine(conn.liveId) \in Seq(Ids)
         /\ Mine(conn.liveId) \o Mine(conn.watchId) \in Seq(Ids)
<1>1. conn.liveId \in Runs \cup {None} /\ conn.watchId \in {Watch, None}
  BY DEF RunsOK, ConnState
<1>2. \A id \in Ids \cup {None} : Mine(id) \in Seq(Ids)
  BY DEF Mine
<1>3. Mine(conn.liveId) \in Seq(Ids) /\ Mine(conn.watchId) \in Seq(Ids)
  BY <1>1, <1>2 DEF Ids
<1> QED
  BY <1>3, ConcatProperties

\* A run that begins is of the newest generation.
LEMMA BeginRuns ==
  ASSUME RunsOK, NEW r \in Runs, NEW p \in Paths, NEW origin, Begin(r, p, origin),
         origin \in {"message", "session", "claim", "opening"}
  PROVE  RunsOK'
<1>1. conn.gen + 1 \in 0..MaxGen /\ conn.gen \in Int
  BY SocketAssumption DEF Begin, RunsOK, ConnState
<1>2. conn' \in ConnState /\ conn'.gen = conn.gen + 1
      /\ conn'.cleaned = conn.cleaned /\ conn'.watchId = conn.watchId
      /\ (conn'.liveId = None \/ conn'.liveId = conn.liveId)
  BY <1>1 DEF Begin, RunsOK, ConnState
<1>3. run' \in [Runs -> RunState] /\ run'[r].gen = conn.gen + 1
      /\ \A q \in Runs : q # r => run'[q] = run[q]
  BY <1>1 DEF Begin, RunsOK, RunState
<1>4. \A q \in Runs : run'[q].gen <= conn'.gen
  <2>1. \A q \in Runs : run[q].gen \in Int /\ run[q].gen <= conn.gen
    BY DEF RunsOK, RunState
  <2> QED
    BY <1>1, <1>2, <1>3, <2>1
<1> QED
  BY <1>2, <1>3, <1>4 DEF RunsOK

LEMMA BeginTypes ==
  ASSUME TypeOK, NEW r \in Runs, NEW p \in Paths, NEW origin, Begin(r, p, origin),
         origin \in {"message", "session", "claim", "opening"}
  PROVE  RunsOK' /\ subs' \subseteq Ids /\ lost' \subseteq Ids /\ ipc' \in Seq(Commands)
<1>1. RunsOK'
  BY BeginRuns, TypeParts
<1>2. CASE conn.cleaned
  BY <1>1, <1>2, TypeParts DEF Begin, KeepSubscriptions
<1>3. CASE ~conn.cleaned
  BY <1>1, <1>3, TypeParts, UnsubscribeTypes, MineIsSeq DEF Begin
<1> QED
  BY <1>2, <1>3

LEMMA RunTypes ==
  ASSUME TypeOK, NEW r \in Runs, RunStep(r)
  PROVE  TypeOK'
<1> RunsOK /\ opening \in {"detect", "starting", "watching", "watched", "resolve", "done"}
    /\ subs \subseteq Ids /\ held \subseteq Ids /\ lost \subseteq Ids
    /\ ipc \in Seq(Commands)
  BY TypeParts
<1>1. CASE \E p \in Paths : \/ MessageSubscribe(r, p) \/ SessionChanged(r, p)
                            \/ ClaimRefresh(r, p) \/ Resolved(r, p)
  <2>1. PICK p \in Paths : \/ MessageSubscribe(r, p) \/ SessionChanged(r, p)
                           \/ ClaimRefresh(r, p) \/ Resolved(r, p)
    BY <1>1
  <2>2. \E origin \in {"message", "session", "claim", "opening"} : Begin(r, p, origin)
    BY <2>1 DEF MessageSubscribe, SessionChanged, ClaimRefresh, Resolved
  <2>3. RunsOK' /\ subs' \subseteq Ids /\ lost' \subseteq Ids /\ ipc' \in Seq(Commands)
    BY <2>2, BeginTypes
  <2>4. held' = held /\ opening' \in {opening, "done"}
    BY <2>1 DEF MessageSubscribe, SessionChanged, ClaimRefresh, Resolved
  <2> QED
    BY <2>3, <2>4, TypePartsNext
<1>2. ASSUME NEW at \in {"dropping", "ask", "waiting", "answered", "done"},
             run' = [run EXCEPT ![r].at = at],
             conn' \in ConnState, conn'.gen = conn.gen, conn'.cleaned = conn.cleaned,
             conn.cleaned => conn'.liveId = None /\ conn'.watchId = None
      PROVE  RunsOK'
  <2>1. run' \in [Runs -> RunState] /\ \A q \in Runs : run'[q].gen = run[q].gen
    BY <1>2 DEF RunsOK, RunState
  <2> QED
    BY <1>2, <2>1 DEF RunsOK
<1>3. CASE Dropped(r)
  <2>1. RunsOK'
    BY <1>2, <1>3 DEF Dropped, RunsOK
  <2> QED
    BY <1>3, <2>1, TypePartsNext DEF Dropped
<1>4. CASE Ask(r)
  <2>1. RunsOK'
    BY <1>2, <1>4 DEF Ask, RunsOK
  <2>2. ipc' \in Seq(Commands) /\ subs' \subseteq Ids
    BY <1>4 DEF Ask, Send, Commands, Ids
  <2> QED
    BY <1>4, <2>1, <2>2, TypePartsNext DEF Ask
<1>5. CASE Answered(r)
  <2>1. conn' \in ConnState /\ conn'.gen = conn.gen /\ conn'.cleaned = conn.cleaned
        /\ ~conn.cleaned
    BY <1>5 DEF Answered, Superseded, RunsOK, ConnState, RunState
  <2>2. RunsOK'
    BY <1>2, <1>5, <2>1 DEF Answered
  <2> QED
    BY <1>5, <2>2, TypePartsNext DEF Answered
<1>6. CASE AnsweredTooLate(r)
  <2>1. RunsOK'
    BY <1>2, <1>6 DEF AnsweredTooLate, RunsOK
  <2>2. <<r>> \in Seq(Ids)
    BY DEF Ids
  <2> QED
    BY <1>6, <2>1, <2>2, UnsubscribeTypes, TypePartsNext DEF AnsweredTooLate
<1>7. CASE TimesOut(r)
  <2>1. conn' \in ConnState /\ conn'.gen = conn.gen /\ conn'.cleaned = conn.cleaned
        /\ conn'.liveId = conn.liveId /\ conn'.watchId = conn.watchId
    <3>1. (conn.closing \/ FailedOpening({r})) \in BOOLEAN
      BY DEF FailedOpening
    <3> QED
      BY <1>7, <3>1 DEF TimesOut, RunsOK, ConnState
  <2>2. RunsOK'
    BY <1>2, <1>7, <2>1 DEF TimesOut, RunsOK
  <2> QED
    BY <1>7, <2>2, TypePartsNext DEF TimesOut, Ids
<1> QED
  BY <1>1, <1>3, <1>4, <1>5, <1>6, <1>7 DEF RunStep

LEMMA ConnectionTypes ==
  ASSUME TypeOK,
         \/ MessageUnsubscribe \/ Cleanup \/ Detected \/ Started \/ WatchAnswered
         \/ WatchTimesOut \/ NotResolved
  PROVE  TypeOK'
<1> RunsOK /\ opening \in {"detect", "starting", "watching", "watched", "resolve", "done"}
    /\ subs \subseteq Ids /\ held \subseteq Ids /\ lost \subseteq Ids
    /\ ipc \in Seq(Commands)
  BY TypeParts
<1>1. CASE MessageUnsubscribe
  <2>1. conn.gen \in Nat /\ conn.gen + 1 \in 0..MaxGen
    BY <1>1, SocketAssumption DEF MessageUnsubscribe, RunsOK, ConnState
  <2>2. conn' \in ConnState /\ conn'.gen = conn.gen + 1 /\ ~conn'.cleaned
    BY <1>1, <2>1 DEF MessageUnsubscribe, RunsOK, ConnState
  <2>3. \A r \in Runs : run'[r].gen <= conn'.gen
    <3>1. \A r \in Runs : run[r].gen \in Int /\ run[r].gen <= conn.gen
      BY DEF RunsOK, RunState
    <3> QED
      BY <1>1, <2>1, <2>2, <3>1 DEF MessageUnsubscribe
  <2>4. RunsOK'
    BY <1>1, <2>2, <2>3 DEF MessageUnsubscribe, RunsOK
  <2> QED
    BY <1>1, <2>4, UnsubscribeTypes, MineIsSeq, TypePartsNext DEF MessageUnsubscribe
<1>2. CASE Cleanup
  <2>1. conn' \in ConnState /\ conn'.gen = conn.gen /\ conn'.liveId = None /\ conn'.watchId = None
    BY <1>2 DEF Cleanup, RunsOK, ConnState
  <2>2. RunsOK'
    BY <1>2, <2>1 DEF Cleanup, RunsOK
  <2> QED
    BY <1>2, <2>2, UnsubscribeTypes, MineIsSeq, TypePartsNext DEF Cleanup
<1>3. CASE Detected
  <2>1. RunsOK'
    BY <1>3 DEF Detected, RunsOK
  <2> QED
    BY <1>3, <2>1, TypePartsNext DEF Detected
<1>7. CASE Started
  <2>1. RunsOK'
    BY <1>7 DEF Started, RunsOK
  <2>2. ipc' \in Seq(Commands) /\ subs' \subseteq Ids
    <3>1. Watch \in Ids /\ [op |-> "subscribe", id |-> Watch] \in Commands
      BY DEF Commands, Ids
    <3> QED
      BY <1>7, <3>1, AppendProperties DEF Started, Send
  <2> QED
    BY <1>7, <2>1, <2>2, TypePartsNext DEF Started
<1>4. CASE WatchAnswered
  <2>1. CASE conn.cleaned
    <3>1. RunsOK' /\ <<Watch>> \in Seq(Ids)
      BY <1>4, <2>1 DEF WatchAnswered, RunsOK, Ids
    <3> QED
      BY <1>4, <2>1, <3>1, UnsubscribeTypes, TypePartsNext DEF WatchAnswered
  <2>2. CASE ~conn.cleaned
    <3>1. conn' \in ConnState /\ conn'.gen = conn.gen /\ ~conn'.cleaned
      BY <1>4, <2>2 DEF WatchAnswered, RunsOK, ConnState
    <3>2. RunsOK'
      BY <1>4, <3>1 DEF WatchAnswered, RunsOK
    <3> QED
      BY <1>4, <2>2, <3>2, TypePartsNext DEF WatchAnswered, KeepSubscriptions
  <2> QED
    BY <2>1, <2>2
<1>5. CASE WatchTimesOut
  <2>1. conn' \in ConnState /\ conn'.gen = conn.gen /\ conn'.cleaned = conn.cleaned
        /\ conn'.liveId = conn.liveId /\ conn'.watchId = conn.watchId
    BY <1>5 DEF WatchTimesOut, RunsOK, ConnState
  <2>2. RunsOK'
    BY <1>5, <2>1 DEF WatchTimesOut, RunsOK
  <2> QED
    BY <1>5, <2>2, TypePartsNext DEF WatchTimesOut, Ids
<1>6. CASE NotResolved
  <2>1. RunsOK'
    BY <1>6 DEF NotResolved, RunsOK
  <2> QED
    BY <1>6, <2>1, TypePartsNext DEF NotResolved
<1> QED
  BY <1>1, <1>2, <1>3, <1>4, <1>5, <1>6, <1>7

\* Requests that fail leave the connection what it had.
LEMMA FailTypes ==
  ASSUME RunsOK, NEW failed, NEW watchFailed \in BOOLEAN, Fail(failed, watchFailed)
  PROVE  /\ RunsOK' /\ opening' \in {opening, "done"}
         /\ conn'.liveId = conn.liveId /\ conn'.path = conn.path /\ conn'.gen = conn.gen
         /\ conn'.watchId = conn.watchId /\ conn'.cleaned = conn.cleaned
<1>1. run' \in [Runs -> RunState] /\ \A q \in Runs : run'[q].gen = run[q].gen
  BY DEF Fail, RunsOK, RunState
<1>2. /\ conn' \in ConnState /\ conn'.gen = conn.gen /\ conn'.cleaned = conn.cleaned
      /\ conn'.liveId = conn.liveId /\ conn'.watchId = conn.watchId /\ conn'.path = conn.path
  <2>1. \E b, c \in BOOLEAN : conn' = [conn EXCEPT !.closing = b, !.failed = c]
    BY DEF Fail, RunsOK, ConnState, FailedOpening
  <2> QED
    BY <2>1 DEF RunsOK, ConnState
<1>3. RunsOK'
  BY <1>1, <1>2 DEF RunsOK
<1> QED
  BY <1>2, <1>3 DEF Fail

LEMMA WorkerTypes ==
  ASSUME TypeOK, WorkerSubscribes \/ WorkerRefuses \/ WorkerUnsubscribes \/ WorkerExits
  PROVE  TypeOK'
<1> RunsOK /\ opening \in {"detect", "starting", "watching", "watched", "resolve", "done"}
    /\ subs \subseteq Ids /\ held \subseteq Ids /\ lost \subseteq Ids
    /\ ipc \in Seq(Commands)
  BY TypeParts
<1>1. ipc # <<>> => Head(ipc) \in Commands /\ Tail(ipc) \in Seq(Commands)
  BY HeadTailProperties
<1>2. CASE WorkerSubscribes
  <2>1. run' \in [Runs -> RunState] /\ \A q \in Runs : run'[q].gen = run[q].gen
    BY <1>2 DEF WorkerSubscribes, RunsOK, RunState
  <2>2. RunsOK'
    BY <1>2, <2>1 DEF WorkerSubscribes, RunsOK
  <2>3. held' \subseteq Ids /\ ipc' \in Seq(Commands)
    BY <1>1, <1>2 DEF WorkerSubscribes, Commands
  <2>4. opening' \in {"detect", "starting", "watching", "watched", "resolve", "done"}
    BY <1>2 DEF WorkerSubscribes
  <2> QED
    BY <1>2, <2>2, <2>3, <2>4, TypePartsNext DEF WorkerSubscribes
<1>3. CASE WorkerUnsubscribes
  <2>1. RunsOK'
    BY <1>3 DEF WorkerUnsubscribes, RunsOK
  <2> QED
    BY <1>1, <1>3, <2>1, TypePartsNext DEF WorkerUnsubscribes
<1>4. CASE WorkerExits
  <2> DEFINE asked == opening \in {"watching", "watched"}
  <2>0. asked \in BOOLEAN /\ \E failed : Fail(failed, asked)
    BY <1>4 DEF WorkerExits
  <2> HIDE DEF asked
  <2>1. RunsOK' /\ opening' \in {opening, "done"}
    BY <2>0, FailTypes
  <2> QED
    BY <1>4, <2>1, TypePartsNext, EmptySeq DEF WorkerExits
<1>5. CASE WorkerRefuses
  <2>1. RunsOK' /\ opening' \in {opening, "done"}
    BY <1>5, FailTypes DEF WorkerRefuses
  <2> QED
    BY <1>1, <1>5, <2>1, TypePartsNext DEF WorkerRefuses
<1> QED
  BY <1>2, <1>3, <1>4, <1>5

\* Every variable of the connection, its runs, the Supervisor's maps and the
\* worker keeps its domain (TypeOK).
THEOREM TypeCorrect == Spec => []TypeOK
<1>1. Init => TypeOK
  <2> SUFFICES ASSUME Init PROVE TypeOK
    OBVIOUS
  <2>1. 0 \in 0..MaxGen
    BY SocketAssumption
  <2>2. conn \in ConnState /\ run \in [Runs -> RunState]
    BY <2>1 DEF Init, Unused, ConnState, RunState
  <2>3. \A r \in Runs : run[r].gen <= conn.gen
    BY DEF Init, Unused
  <2> QED
    BY <2>2, <2>3, TypeParts, EmptySeq DEF Init, RunsOK
<1>2. TypeOK /\ [Next]_vars => TypeOK'
  <2> SUFFICES ASSUME TypeOK, [Next]_vars PROVE TypeOK'
    OBVIOUS
  <2>1. CASE UNCHANGED vars
    BY <2>1 DEF vars, TypeOK
  <2> QED
    BY <2>1, RunTypes, ConnectionTypes, WorkerTypes DEF Next
<1> QED
  BY <1>1, <1>2, PTL DEF Spec

-----------------------------------------------------------------------------
(* What the connection holds *)

HeldInv ==
    /\ conn.liveId # None =>
          run[conn.liveId].at = "done" /\ run[conn.liveId].gen = conn.gen
            /\ run[conn.liveId].path = conn.path
    /\ \A r, q \in Runs :
          run[r].at # "unused" /\ run[q].at # "unused" /\ run[r].gen = run[q].gen => r = q
    /\ CallbacksAreOwned

\* Unsubscribing removes exactly what is given back.
LEMMA UnsubscribeRemoves ==
  ASSUME NEW gone, Unsubscribe(gone)
  PROVE  subs' = subs \ ToSet(gone)
  BY DEF Unsubscribe

LEMMA MineIsHeld ==
  ASSUME NEW a \in Ids \cup {None}, NEW b \in Ids \cup {None}
  PROVE  /\ ToSet(Mine(a)) = {a} \ {None}
         /\ ToSet(Mine(a) \o Mine(b)) = {a, b} \ {None}
<1>1. None \notin Ids
  BY SocketAssumption DEF Ids
<1>2. \A c \in Ids \cup {None} :
         Mine(c) \in Seq(Ids) /\ ToSet(Mine(c)) = {c} \ {None}
  BY <1>1 DEF Mine, ToSet
<1>3. CASE a = None
  <2>1. Mine(a) = <<>>
    BY <1>3 DEF Mine
  <2>2. Mine(a) \o Mine(b) = Mine(b)
    BY <1>2, <2>1, ConcatEmptySeq
  <2>3. {a, b} \ {None} = {b} \ {None}
    BY <1>3
  <2> QED
    BY <1>2, <2>2, <2>3
<1>4. CASE a # None /\ b = None
  <2>1. Mine(b) = <<>>
    BY <1>4 DEF Mine
  <2>2. Mine(a) \o Mine(b) = Mine(a)
    BY <1>2, <2>1, ConcatEmptySeq
  <2>3. {a, b} \ {None} = {a} \ {None}
    BY <1>4
  <2> QED
    BY <1>2, <2>2, <2>3
<1>5. CASE a # None /\ b # None
  <2>1. Len(Mine(a)) = 1 /\ Len(Mine(b)) = 1 /\ Mine(a)[1] = a /\ Mine(b)[1] = b
    BY <1>5 DEF Mine
  <2>2. Mine(a) \in Seq(Ids) /\ Mine(b) \in Seq(Ids)
    BY <1>2
  <2> DEFINE s == Mine(a)
             t == Mine(b)
             both == s \o t
  <2> HIDE DEF s, t
  <2>3. /\ both \in Seq(Ids) /\ Len(both) = Len(s) + Len(t)
        /\ \A i \in 1 .. Len(s) + Len(t) :
             both[i] = IF i <= Len(s) THEN s[i] ELSE t[i - Len(s)]
    BY <2>2, ConcatProperties DEF s, t
  <2> HIDE DEF both
  <2>4. Len(s) = 1 /\ Len(t) = 1 /\ s[1] = a /\ t[1] = b
    BY <2>1 DEF s, t
  <2>5. Len(both) = 2 /\ both[1] = a /\ both[2] = b
    BY <2>3, <2>4
  <2>6. ToSet(both) = {a, b}
    <3>1. DOMAIN both = {1, 2}
      <4>1. DOMAIN both = 1..2
        BY <2>3, <2>5, LenProperties
      <4>2. 1..2 = {1, 2}
        OBVIOUS
      <4> QED
        BY <4>1, <4>2
    <3> QED
      BY <2>5, <3>1 DEF ToSet
  <2>7. {a, b} \ {None} = {a, b}
    BY <1>5
  <2>8. ToSet(Mine(a) \o Mine(b)) = {a, b} \ {None}
    BY <2>6, <2>7 DEF both, s, t
  <2> QED
    BY <1>2, <2>8
<1> QED
  BY <1>2, <1>3, <1>4, <1>5

LEMMA BeginHeld ==
  ASSUME TypeOK, HeldInv, NEW r \in Runs, NEW p \in Paths, NEW origin, Begin(r, p, origin),
         \/ opening' = opening
         \/ opening = "resolve" /\ opening' = "done"
  PROVE  HeldInv'
<1> RunsOK
  BY TypeParts
<1>1. /\ run[r].at = "unused"
      /\ \A q \in Runs : q # r => run'[q] = run[q]
      /\ run'[r].gen = conn.gen + 1
  BY DEF Begin, RunsOK
<1>2. conn.gen \in Int /\ \A q \in Runs : run[q].gen \in Int /\ run[q].gen <= conn.gen
  BY SocketAssumption DEF RunsOK, ConnState, RunState
<1>3. \A q1, q2 \in Runs :
         run'[q1].at # "unused" /\ run'[q2].at # "unused" /\ run'[q1].gen = run'[q2].gen => q1 = q2
  BY <1>1, <1>2 DEF HeldInv
<1>4. conn'.liveId = None /\ conn'.watchId = conn.watchId
  BY DEF Begin, RunsOK, ConnState
<1>5. subs' = subs \ ({conn.liveId} \ {None})
  <2>1. CASE conn.cleaned
    BY <2>1 DEF Begin, KeepSubscriptions, RunsOK
  <2>2. CASE ~conn.cleaned
    <3>1. conn.liveId \in Ids \cup {None}
      BY DEF RunsOK, ConnState, Ids
    <3> QED
      BY <2>2, <3>1, MineIsHeld, UnsubscribeRemoves DEF Begin
  <2> QED
    BY <2>1, <2>2
<1>6. CallbacksAreOwned'
  <2> SUFFICES ASSUME NEW id \in subs'
               PROVE  \/ id \in {conn'.liveId, conn'.watchId}
                      \/ id \in Runs /\ run'[id].at \in {"waiting", "answered"}
                      \/ id = Watch /\ opening' \in {"watching", "watched"}
    BY DEF CallbacksAreOwned
  <2>1. id \in subs /\ id # conn.liveId
    BY <1>5, SocketAssumption, TypeParts DEF Ids
  <2>2. \/ id = conn.watchId
        \/ id \in Runs /\ run[id].at \in {"waiting", "answered"}
        \/ id = Watch /\ opening \in {"watching", "watched"}
    BY <2>1 DEF HeldInv, CallbacksAreOwned
  <2> QED
    BY <1>1, <1>4, <2>2
<1> QED
  BY <1>3, <1>4, <1>6 DEF HeldInv

\* A step that keeps what the connection holds, or drops it, and starts no
\* run keeps the first two parts of HeldInv.
LEMMA HeldKept ==
  ASSUME RunsOK, HeldInv, CallbacksAreOwned',
         conn'.liveId = None \/ (/\ conn'.liveId = conn.liveId /\ conn'.path = conn.path
                                /\ conn'.gen = conn.gen),
         \A q \in Runs :
           /\ run'[q].gen = run[q].gen /\ run'[q].path = run[q].path
           /\ run[q].at = "unused" => run'[q].at = "unused"
           /\ run[q].at = "done" => run'[q].at = "done"
  PROVE  HeldInv'
<1>1. \A r, q \in Runs :
         run'[r].at # "unused" /\ run'[q].at # "unused" /\ run'[r].gen = run'[q].gen => r = q
  BY DEF HeldInv
<1>2. conn'.liveId # None =>
        run'[conn'.liveId].at = "done" /\ run'[conn'.liveId].gen = conn'.gen
          /\ run'[conn'.liveId].path = conn'.path
  BY DEF HeldInv, RunsOK, ConnState
<1> QED
  BY <1>1, <1>2 DEF HeldInv

LEMMA RunHeld ==
  ASSUME TypeOK, HeldInv, NEW r \in Runs, RunStep(r)
  PROVE  HeldInv'
<1> RunsOK /\ subs \subseteq Ids
  BY TypeParts
<1>1. ASSUME NEW p \in Paths, MessageSubscribe(r, p) \/ SessionChanged(r, p)
                              \/ ClaimRefresh(r, p) \/ Resolved(r, p)
      PROVE  HeldInv'
  <2>1. CASE MessageSubscribe(r, p)
    BY <2>1, BeginHeld DEF MessageSubscribe
  <2>2. CASE SessionChanged(r, p)
    BY <2>2, BeginHeld DEF SessionChanged
  <2>3. CASE ClaimRefresh(r, p)
    BY <2>3, BeginHeld DEF ClaimRefresh
  <2>4. CASE Resolved(r, p)
    BY <2>4, BeginHeld DEF Resolved
  <2> QED
    BY <1>1, <2>1, <2>2, <2>3, <2>4
<1>2. CASE Dropped(r)
  <2>1. CallbacksAreOwned'
    BY <1>2 DEF Dropped, HeldInv, CallbacksAreOwned, RunsOK
  <2> QED
    BY <1>2, <2>1, HeldKept DEF Dropped, RunsOK, RunState
<1>3. CASE Ask(r)
  <2>1. CallbacksAreOwned'
    BY <1>3 DEF Ask, Send, HeldInv, CallbacksAreOwned, RunsOK
  <2> QED
    BY <1>3, <2>1, HeldKept DEF Ask, RunsOK, RunState
<1>4. CASE Answered(r)
  <2>1. conn.liveId = None
    BY <1>4 DEF Answered, Superseded, HeldInv, RunsOK, ConnState
  <2>2. /\ conn'.liveId = r /\ conn'.path = run[r].path /\ conn'.gen = conn.gen
        /\ conn'.watchId = conn.watchId
        /\ run[r].gen = conn.gen
    BY <1>4 DEF Answered, Superseded, RunsOK, ConnState
  <2>3. /\ run'[r].at = "done" /\ run'[r].gen = run[r].gen /\ run'[r].path = run[r].path
        /\ \A q \in Runs : q # r => run'[q] = run[q]
    BY <1>4 DEF Answered, RunsOK, RunState
  <2>4. CallbacksAreOwned'
    BY <1>4, <2>1, <2>2, <2>3, SocketAssumption DEF Answered, HeldInv, CallbacksAreOwned, Ids
  <2>5. \A q1, q2 \in Runs :
          run'[q1].at # "unused" /\ run'[q2].at # "unused" /\ run'[q1].gen = run'[q2].gen => q1 = q2
    BY <1>4, <2>3 DEF Answered, HeldInv
  <2> QED
    BY <2>2, <2>3, <2>4, <2>5 DEF HeldInv
<1>5. CASE AnsweredTooLate(r)
  <2>1. subs' = subs \ {r}
    BY <1>5, UnsubscribeRemoves DEF AnsweredTooLate, ToSet
  <2>2. CallbacksAreOwned'
    BY <1>5, <2>1 DEF AnsweredTooLate, HeldInv, CallbacksAreOwned, RunsOK
  <2> QED
    BY <1>5, <2>2, HeldKept DEF AnsweredTooLate, RunsOK, RunState
<1>6. CASE TimesOut(r)
  <2>1. /\ conn'.liveId = conn.liveId /\ conn'.path = conn.path /\ conn'.gen = conn.gen
        /\ conn'.watchId = conn.watchId
    BY <1>6 DEF TimesOut, RunsOK, ConnState
  <2>2. CallbacksAreOwned'
    BY <1>6, <2>1 DEF TimesOut, HeldInv, CallbacksAreOwned, RunsOK
  <2> QED
    BY <1>6, <2>1, <2>2, HeldKept DEF TimesOut, RunsOK, RunState
<1> QED
  BY <1>1, <1>2, <1>3, <1>4, <1>5, <1>6 DEF RunStep

LEMMA ConnectionHeld ==
  ASSUME TypeOK, HeldInv,
         MessageUnsubscribe \/ Cleanup \/ Detected \/ Started \/ WatchAnswered
           \/ WatchTimesOut \/ NotResolved
  PROVE  HeldInv'
<1> RunsOK /\ subs \subseteq Ids
  BY TypeParts
<1>1. conn.liveId \in Ids \cup {None} /\ conn.watchId \in Ids \cup {None} /\ None \notin Ids
  BY SocketAssumption DEF RunsOK, ConnState, Ids
<1>2. CASE MessageUnsubscribe
  <2>1. conn'.liveId = None /\ conn'.watchId = conn.watchId
    BY <1>2 DEF MessageUnsubscribe, RunsOK, ConnState
  <2>2. subs' = subs \ ({conn.liveId} \ {None})
    BY <1>1, <1>2, MineIsHeld, UnsubscribeRemoves DEF MessageUnsubscribe
  <2>3. CallbacksAreOwned'
    BY <1>1, <1>2, <2>1, <2>2 DEF MessageUnsubscribe, HeldInv, CallbacksAreOwned
  <2> QED
    BY <1>2, <2>1, <2>3, HeldKept DEF MessageUnsubscribe
<1>3. CASE Cleanup
  <2>1. conn'.liveId = None /\ conn'.watchId = None
    BY <1>3 DEF Cleanup, RunsOK, ConnState
  <2>2. subs' = subs \ ({conn.liveId, conn.watchId} \ {None})
    BY <1>1, <1>3, MineIsHeld, UnsubscribeRemoves DEF Cleanup
  <2>3. CallbacksAreOwned'
    BY <1>1, <1>3, <2>1, <2>2 DEF Cleanup, HeldInv, CallbacksAreOwned
  <2> QED
    BY <1>3, <2>1, <2>3, HeldKept DEF Cleanup
<1>4. CASE Detected
  <2>1. CallbacksAreOwned'
    BY <1>4 DEF Detected, HeldInv, CallbacksAreOwned
  <2> QED
    BY <1>4, <2>1, HeldKept DEF Detected
<1>8. CASE Started
  <2>1. CallbacksAreOwned'
    BY <1>8, SocketAssumption DEF Started, Send, HeldInv, CallbacksAreOwned, Ids
  <2> QED
    BY <1>8, <2>1, HeldKept DEF Started
<1>5. CASE WatchAnswered
  <2>1. CASE conn.cleaned
    <3>1. subs' = subs \ {Watch}
      BY <1>5, <2>1, UnsubscribeRemoves DEF WatchAnswered, ToSet
    <3>2. CallbacksAreOwned'
      BY <1>5, <2>1, <3>1 DEF WatchAnswered, HeldInv, CallbacksAreOwned
    <3> QED
      BY <1>5, <2>1, <3>2, HeldKept DEF WatchAnswered
  <2>2. CASE ~conn.cleaned
    <3>1. /\ conn'.liveId = conn.liveId /\ conn'.path = conn.path /\ conn'.gen = conn.gen
          /\ conn'.watchId = Watch
      BY <1>5, <2>2 DEF WatchAnswered, RunsOK, ConnState
    <3>2. subs' = subs /\ run' = run
      BY <1>5, <2>2 DEF WatchAnswered, KeepSubscriptions
    <3>3. \A id \in subs : id # conn.watchId \/ id = Watch
      BY <1>1, TypeParts DEF RunsOK, ConnState
    <3>4. CallbacksAreOwned'
      BY <3>1, <3>2, <3>3 DEF HeldInv, CallbacksAreOwned
    <3> QED
      BY <3>1, <3>2, <3>4, HeldKept
  <2> QED
    BY <2>1, <2>2
<1>6. CASE WatchTimesOut
  <2>1. /\ conn'.liveId = conn.liveId /\ conn'.path = conn.path /\ conn'.gen = conn.gen
        /\ conn'.watchId = conn.watchId
    BY <1>6 DEF WatchTimesOut, RunsOK, ConnState
  <2>2. CallbacksAreOwned'
    BY <1>6, <2>1 DEF WatchTimesOut, HeldInv, CallbacksAreOwned
  <2> QED
    BY <1>6, <2>1, <2>2, HeldKept DEF WatchTimesOut
<1>7. CASE NotResolved
  <2>1. CallbacksAreOwned'
    BY <1>7 DEF NotResolved, HeldInv, CallbacksAreOwned
  <2> QED
    BY <1>7, <2>1, HeldKept DEF NotResolved
<1> QED
  BY <1>2, <1>3, <1>4, <1>5, <1>6, <1>7, <1>8

LEMMA WorkerHeld ==
  ASSUME TypeOK, HeldInv,
         WorkerSubscribes \/ WorkerRefuses \/ WorkerUnsubscribes \/ WorkerExits
  PROVE  HeldInv'
<1> RunsOK
  BY TypeParts
<1>1. CASE WorkerSubscribes
  <2>1. \A q \in Runs : /\ run'[q].gen = run[q].gen /\ run'[q].path = run[q].path
                        /\ \/ run'[q].at = run[q].at
                           \/ run[q].at = "waiting" /\ run'[q].at = "answered"
    BY <1>1 DEF WorkerSubscribes, RunsOK, RunState
  <2>2. \/ opening' = opening
        \/ opening = "watching" /\ opening' = "watched"
    BY <1>1 DEF WorkerSubscribes
  <2>3. CallbacksAreOwned'
    BY <1>1, <2>1, <2>2 DEF WorkerSubscribes, HeldInv, CallbacksAreOwned
  <2> QED
    BY <1>1, <2>1, <2>3, HeldKept DEF WorkerSubscribes
<1>2. CASE WorkerUnsubscribes
  <2>1. CallbacksAreOwned'
    BY <1>2 DEF WorkerUnsubscribes, HeldInv, CallbacksAreOwned
  <2> QED
    BY <1>2, <2>1, HeldKept DEF WorkerUnsubscribes
<1>3. CASE WorkerExits
  <2>1. \A q \in Runs : /\ run'[q].gen = run[q].gen /\ run'[q].path = run[q].path
                        /\ \/ run'[q].at = run[q].at
                           \/ run[q].at # "unused" /\ run'[q].at = "done"
    BY <1>3 DEF WorkerExits, Fail, RunsOK, RunState
  <2> DEFINE asked == opening \in {"watching", "watched"}
  <2>0. asked \in BOOLEAN /\ \E failed : Fail(failed, asked)
    BY <1>3 DEF WorkerExits
  <2> HIDE DEF asked
  <2>2. conn'.liveId = conn.liveId /\ conn'.path = conn.path /\ conn'.gen = conn.gen
    BY <2>0, FailTypes
  <2>3. CallbacksAreOwned'
    BY <1>3 DEF WorkerExits, CallbacksAreOwned
  <2> QED
    BY <2>1, <2>2, <2>3, HeldKept
<1>4. CASE WorkerRefuses
  <2> DEFINE id == Head(ipc).id
  <2>1. \A q \in Runs : /\ run'[q].gen = run[q].gen /\ run'[q].path = run[q].path
                        /\ \/ run'[q].at = run[q].at
                           \/ q = id /\ run[q].at # "unused" /\ run'[q].at = "done"
    BY <1>4 DEF WorkerRefuses, Fail, RunsOK, RunState
  <2>2. /\ conn'.liveId = conn.liveId /\ conn'.path = conn.path /\ conn'.gen = conn.gen
        /\ conn'.watchId = conn.watchId
    BY <1>4, FailTypes DEF WorkerRefuses
  <2>3. subs' = subs \ {id} /\ (opening' = opening \/ id = Watch)
    BY <1>4 DEF WorkerRefuses, Fail
  <2> HIDE DEF id
  <2>4. CallbacksAreOwned'
    BY <2>1, <2>2, <2>3 DEF HeldInv, CallbacksAreOwned
  <2> QED
    BY <2>1, <2>2, <2>4, HeldKept
<1> QED
  BY <1>1, <1>2, <1>3, <1>4

LEMMA HeldInvariance == Spec => [](TypeOK /\ HeldInv)
<1>1. Init => HeldInv
  BY DEF Init, Unused, HeldInv, CallbacksAreOwned
<1>2. TypeOK /\ HeldInv /\ [Next]_vars => HeldInv'
  <2> SUFFICES ASSUME TypeOK, HeldInv, [Next]_vars PROVE HeldInv'
    OBVIOUS
  <2>1. CASE UNCHANGED vars
    BY <2>1 DEF vars, HeldInv, CallbacksAreOwned
  <2> QED
    BY <2>1, RunHeld, ConnectionHeld, WorkerHeld DEF Next
<1> QED
  BY <1>1, <1>2, TypeCorrect, PTL DEF Spec

\* The subscription the connection holds is that of the newest change asked
\* for, whatever the order of the answers (NewestIsHeld).
THEOREM NewestHeld == Spec => []NewestIsHeld
<1>1. HeldInv => NewestIsHeld
  BY DEF HeldInv, NewestIsHeld
<1> QED
  BY <1>1, HeldInvariance, PTL

\* The Supervisor keeps no callback of a connection that nobody will remove
\* (CallbacksAreOwned).
THEOREM CallbacksOwned == Spec => []CallbacksAreOwned
<1>1. HeldInv => CallbacksAreOwned
  BY DEF HeldInv
<1> QED
  BY <1>1, HeldInvariance, PTL

-----------------------------------------------------------------------------
(* What the worker holds *)

ToldToLeave(id, q, i) ==
    \E j \in DOMAIN q : j > i /\ q[j] = [op |-> "unsubscribe", id |-> id]

\* What the worker holds, or is about to, is known or will be taken back.
WorkerInv ==
    /\ \A id \in held : id \in subs \cup lost \/ ToldToLeave(id, ipc, 0)
    /\ \A i \in DOMAIN ipc :
          ipc[i].op = "subscribe" =>
            ipc[i].id \in subs \cup lost \/ ToldToLeave(ipc[i].id, ipc, i)

LEMMA IndicesOfIpc ==
  ASSUME NEW q \in Seq(Commands)
  PROVE  /\ DOMAIN q = 1..Len(q) /\ Len(q) \in Nat
         /\ \A i \in DOMAIN q : i \in Int /\ i > 0 /\ q[i] \in Commands
  BY LenProperties, ElementOfSeq

\* Commands may be added, and callbacks dropped if that is told or lost.
LEMMA WorkerKept ==
  ASSUME ipc \in Seq(Commands), ipc' \in Seq(Commands), WorkerInv, held' = held,
         Len(ipc') >= Len(ipc),
         \A i \in DOMAIN ipc : ipc'[i] = ipc[i],
         lost \subseteq lost',
         \A id \in subs : \/ id \in subs' \cup lost'
                         \/ \E j \in DOMAIN ipc' :
                               j > Len(ipc) /\ ipc'[j] = [op |-> "unsubscribe", id |-> id],
         \A j \in DOMAIN ipc' : j > Len(ipc) /\ ipc'[j].op = "subscribe" =>
                                ipc'[j].id \in subs'
  PROVE  WorkerInv'
<1>1. /\ DOMAIN ipc = 1..Len(ipc) /\ Len(ipc) \in Nat
      /\ DOMAIN ipc' = 1..Len(ipc') /\ Len(ipc') \in Nat
  BY IndicesOfIpc
<1>2. DOMAIN ipc \subseteq DOMAIN ipc'
  BY <1>1
<1>3. ASSUME NEW id, NEW i \in 0..Len(ipc),
             id \in subs \cup lost \/ ToldToLeave(id, ipc, i)
      PROVE  id \in subs' \cup lost' \/ ToldToLeave(id, ipc', i)
  <2>1. CASE id \in lost
    BY <2>1
  <2>2. CASE id \in subs
    BY <1>1, <2>2 DEF ToldToLeave
  <2>3. CASE ToldToLeave(id, ipc, i)
    BY <1>2, <2>3 DEF ToldToLeave
  <2> QED
    BY <1>3, <2>1, <2>2, <2>3
<1>4. \A id \in held' : id \in subs' \cup lost' \/ ToldToLeave(id, ipc', 0)
  BY <1>1, <1>3 DEF WorkerInv
<1>5. ASSUME NEW i \in DOMAIN ipc', ipc'[i].op = "subscribe"
      PROVE  ipc'[i].id \in subs' \cup lost' \/ ToldToLeave(ipc'[i].id, ipc', i)
  <2>1. CASE i \in DOMAIN ipc
    BY <1>1, <1>3, <1>5, <2>1 DEF WorkerInv
  <2>2. CASE i \notin DOMAIN ipc
    BY <1>1, <1>5, <2>2
  <2> QED
    BY <2>1, <2>2
<1> QED
  BY <1>4, <1>5 DEF WorkerInv

\* Unsubscribing adds a command for what it drops, or counts it as lost.
LEMMA UnsubscribeExtends ==
  ASSUME TypeOK, NEW gone \in Seq(Ids), Unsubscribe(gone)
  PROVE  /\ ipc \in Seq(Commands) /\ ipc' \in Seq(Commands) /\ Len(ipc') >= Len(ipc)
         /\ \A i \in DOMAIN ipc : ipc'[i] = ipc[i]
         /\ \A j \in DOMAIN ipc' : j > Len(ipc) => ipc'[j].op = "unsubscribe"
         /\ lost \subseteq lost'
         /\ \A id \in subs : \/ id \in subs' \cup lost'
                         \/ \E j \in DOMAIN ipc' :
                               j > Len(ipc) /\ ipc'[j] = [op |-> "unsubscribe", id |-> id]
<1> ipc \in Seq(Commands)
  BY TypeParts
<1>1. subs' = subs \ ToSet(gone)
  BY UnsubscribeRemoves
<1>2. CASE lost' = lost \cup ToSet(gone) /\ ipc' = ipc
  <2>1. Len(ipc) \in Nat /\ \A i \in DOMAIN ipc : i \in Int /\ ~(i > Len(ipc))
    BY IndicesOfIpc
  <2> QED
    BY <1>1, <1>2, <2>1
<1>3. CASE /\ ipc' = ipc \o Asking(gone)
           /\ lost' = lost
  <2> DEFINE told == Asking(gone)
  <2>1. DOMAIN gone = 1..Len(gone) /\ Len(gone) \in Nat
        /\ \A i \in 1..Len(gone) : gone[i] \in Ids
    BY LenProperties, ElementOfSeq
  <2>2. /\ told \in Seq(Commands) /\ Len(told) = Len(gone)
        /\ \A i \in 1..Len(gone) : told[i] = [op |-> "unsubscribe", id |-> gone[i]]
    BY AskingIsSeq
  <2> HIDE DEF told
  <2>4. /\ ipc' \in Seq(Commands) /\ Len(ipc') = Len(ipc) + Len(told)
        /\ \A i \in 1..Len(ipc) + Len(told) :
             ipc'[i] = IF i <= Len(ipc) THEN ipc[i] ELSE told[i - Len(ipc)]
    BY <1>3, <2>2, ConcatProperties DEF told
  <2>5. DOMAIN ipc = 1..Len(ipc) /\ Len(ipc) \in Nat /\ DOMAIN ipc' = 1..Len(ipc')
    BY <2>4, IndicesOfIpc
  <2>6. \A i \in DOMAIN ipc : ipc'[i] = ipc[i]
    BY <2>1, <2>2, <2>4, <2>5
  <2>7. ASSUME NEW id \in subs, id \notin subs'
        PROVE  \E j \in DOMAIN ipc' :
                 j > Len(ipc) /\ ipc'[j] = [op |-> "unsubscribe", id |-> id]
    <3>1. PICK i \in 1..Len(gone) : gone[i] = id
      BY <1>1, <2>1, <2>7 DEF ToSet
    <3>2. /\ Len(ipc) + i \in DOMAIN ipc' /\ Len(ipc) + i > Len(ipc)
          /\ ~(Len(ipc) + i <= Len(ipc)) /\ (Len(ipc) + i) - Len(ipc) = i
      BY <2>1, <2>2, <2>4, <2>5
    <3>3. ipc'[Len(ipc) + i] = told[i]
      BY <2>4, <2>5, <3>2
    <3> QED
      BY <2>2, <3>1, <3>2, <3>3
  <2>8. \A j \in DOMAIN ipc' : j > Len(ipc) => ipc'[j].op = "unsubscribe"
    <3> SUFFICES ASSUME NEW j \in DOMAIN ipc', j > Len(ipc) PROVE ipc'[j].op = "unsubscribe"
      OBVIOUS
    <3>1. j - Len(ipc) \in 1..Len(gone) /\ ~(j <= Len(ipc)) /\ j \in 1..Len(ipc) + Len(told)
      BY <2>1, <2>2, <2>4, <2>5
    <3>2. ipc'[j] = told[j - Len(ipc)]
      BY <2>4, <3>1
    <3>3. ipc'[j] = [op |-> "unsubscribe", id |-> gone[j - Len(ipc)]]
      BY <2>2, <3>1, <3>2
    <3> QED
      BY <3>3
  <2>9. Len(ipc') >= Len(ipc)
    BY <2>1, <2>2, <2>4, <2>5
  <2> QED
    BY <1>3, <2>4, <2>6, <2>7, <2>8, <2>9
<1> QED
  BY <1>2, <1>3 DEF Unsubscribe, Asking

LEMMA UnsubscribeKept ==
  ASSUME TypeOK, WorkerInv, NEW gone \in Seq(Ids), Unsubscribe(gone), held' = held
  PROVE  WorkerInv'
  BY UnsubscribeExtends, WorkerKept

LEMMA SendKept ==
  ASSUME TypeOK, WorkerInv, NEW id \in Ids, Send(id), held' = held, lost' = lost
  PROVE  WorkerInv'
<1> ipc \in Seq(Commands)
  BY TypeParts
<1>1. [op |-> "subscribe", id |-> id] \in Commands
  BY DEF Commands
<1>2. /\ ipc' \in Seq(Commands) /\ Len(ipc') = Len(ipc) + 1
      /\ \A i \in 1..Len(ipc) : ipc'[i] = ipc[i]
      /\ ipc'[Len(ipc) + 1] = [op |-> "subscribe", id |-> id]
  BY <1>1, AppendProperties DEF Send
<1>3. /\ DOMAIN ipc = 1..Len(ipc) /\ Len(ipc) \in Nat
      /\ DOMAIN ipc' = 1..Len(ipc')
  BY <1>2, IndicesOfIpc
<1>4. \A j \in DOMAIN ipc' : j > Len(ipc) => j = Len(ipc) + 1
  BY <1>2, <1>3
<1> QED
  BY <1>2, <1>3, <1>4, WorkerKept DEF Send

LEMMA CallbackLost ==
  ASSUME TypeOK, WorkerInv, NEW id, subs' = subs \ {id}, lost' = lost \cup {id},
         ipc' = ipc, held' = held
  PROVE  WorkerInv'
<1>1. ipc \in Seq(Commands) /\ \A i \in DOMAIN ipc : i \in Int /\ ~(i > Len(ipc))
  BY TypeParts, IndicesOfIpc
<1> QED
  BY <1>1, IndicesOfIpc, WorkerKept

LEMMA SameSubscriptions ==
  ASSUME WorkerInv, KeepSubscriptions, held' = held
  PROVE  WorkerInv'
  BY DEF WorkerInv, KeepSubscriptions

LEMMA ClientKept ==
  ASSUME TypeOK, WorkerInv,
         \/ \E r \in Runs : RunStep(r)
         \/ MessageUnsubscribe \/ Cleanup
         \/ Detected \/ Started \/ WatchAnswered \/ WatchTimesOut \/ NotResolved
  PROVE  WorkerInv'
<1>1. /\ Mine(conn.liveId) \in Seq(Ids)
      /\ Mine(conn.liveId) \o Mine(conn.watchId) \in Seq(Ids)
  BY TypeParts, MineIsSeq
<1>2. ASSUME NEW r \in Runs, NEW p \in Paths, NEW origin, Begin(r, p, origin), held' = held
      PROVE  WorkerInv'
  BY <1>1, <1>2, UnsubscribeKept, SameSubscriptions DEF Begin
<1>3. ASSUME NEW r \in Runs, RunStep(r) PROVE WorkerInv'
  <2>1. r \in Ids /\ <<r>> \in Seq(Ids)
    BY DEF Ids
  <2>2. ASSUME NEW p \in Paths, MessageSubscribe(r, p) \/ SessionChanged(r, p)
                                \/ ClaimRefresh(r, p) \/ Resolved(r, p)
        PROVE  WorkerInv'
    BY <1>2, <2>2 DEF MessageSubscribe, SessionChanged, ClaimRefresh, Resolved
  <2>3. CASE Dropped(r)
    BY <2>3, SameSubscriptions DEF Dropped, KeepSubscriptions
  <2>4. CASE Ask(r)
    BY <2>1, <2>4, SendKept DEF Ask
  <2>5. CASE Answered(r)
    BY <2>5, SameSubscriptions DEF Answered, KeepSubscriptions
  <2>6. CASE AnsweredTooLate(r)
    BY <2>1, <2>6, UnsubscribeKept DEF AnsweredTooLate
  <2>7. CASE TimesOut(r)
    BY <2>7, CallbackLost DEF TimesOut
  <2> QED
    BY <1>3, <2>2, <2>3, <2>4, <2>5, <2>6, <2>7 DEF RunStep
<1>4. CASE MessageUnsubscribe
  BY <1>1, <1>4, UnsubscribeKept DEF MessageUnsubscribe
<1>5. CASE Cleanup
  BY <1>1, <1>5, UnsubscribeKept DEF Cleanup
<1>6. Watch \in Ids /\ <<Watch>> \in Seq(Ids)
  BY DEF Ids
<1>7. CASE Detected
  BY <1>7, SameSubscriptions DEF Detected, KeepSubscriptions
<1>11. CASE Started
  BY <1>6, <1>11, SendKept DEF Started
<1>8. CASE WatchAnswered
  BY <1>6, <1>8, UnsubscribeKept, SameSubscriptions DEF WatchAnswered
<1>9. CASE WatchTimesOut
  BY <1>9, CallbackLost DEF WatchTimesOut
<1>10. CASE NotResolved
  BY <1>10, SameSubscriptions DEF NotResolved, KeepSubscriptions
<1> QED
  BY <1>3, <1>4, <1>5, <1>7, <1>8, <1>9, <1>10, <1>11

-----------------------------------------------------------------------------
(* No id is subscribed twice *)

Unasked(r) == run[r].at \in {"unused", "dropping", "ask"}
WatchUnasked == opening \in {"detect", "starting"}
Asks(c, id) == c = [op |-> "subscribe", id |-> id]
Sent(id) == id \in held \/ \E i \in DOMAIN ipc : Asks(ipc[i], id)

OnceInv ==
    /\ \A r \in Runs : Unasked(r) => ~Sent(r)
    /\ WatchUnasked => ~Sent(Watch)
    /\ \A id \in Ids : \A i, j \in DOMAIN ipc : Asks(ipc[i], id) /\ Asks(ipc[j], id) => i = j
    /\ \A id \in held : \A i \in DOMAIN ipc : ~Asks(ipc[i], id)

\* Nobody goes back to before he asked.
Forward ==
    /\ \A r \in Runs : Unasked(r)' => Unasked(r)
    /\ WatchUnasked' => WatchUnasked

\* Only unsubscribes are added.
LEMMA OnceKept ==
  ASSUME OnceInv, Forward, held' \subseteq held,
         ipc \in Seq(Commands), ipc' \in Seq(Commands), Len(ipc') >= Len(ipc),
         \A i \in DOMAIN ipc : ipc'[i] = ipc[i],
         \A j \in DOMAIN ipc' : j > Len(ipc) => ipc'[j].op = "unsubscribe"
  PROVE  OnceInv'
<1>1. /\ DOMAIN ipc = 1..Len(ipc) /\ Len(ipc) \in Nat
      /\ DOMAIN ipc' = 1..Len(ipc') /\ Len(ipc') \in Nat
  BY IndicesOfIpc
<1>2. \A id : \A j \in DOMAIN ipc' :
         Asks(ipc'[j], id) => j \in DOMAIN ipc /\ Asks(ipc[j], id)
  BY <1>1 DEF Asks
<1>3. \A id : Sent(id)' => Sent(id)
  BY <1>2 DEF Sent
<1> QED
  BY <1>2, <1>3 DEF OnceInv, Forward

LEMMA OnceUnsubscribes ==
  ASSUME TypeOK, OnceInv, Forward, held' = held, NEW gone \in Seq(Ids), Unsubscribe(gone)
  PROVE  OnceInv'
  BY UnsubscribeExtends, OnceKept

LEMMA OnceSame ==
  ASSUME TypeOK, OnceInv, Forward, held' = held, ipc' = ipc
  PROVE  OnceInv'
<1>1. ipc \in Seq(Commands) /\ Len(ipc) \in Nat /\ \A j \in DOMAIN ipc : ~(j > Len(ipc))
  BY TypeParts, IndicesOfIpc
<1> QED
  BY <1>1, OnceKept

LEMMA OnceSent ==
  ASSUME TypeOK, OnceInv, Forward, held' = held, NEW id \in Ids, Send(id), ~Sent(id),
         \A r \in Runs : Unasked(r)' => r # id,
         WatchUnasked' => id # Watch
  PROVE  OnceInv'
<1> ipc \in Seq(Commands)
  BY TypeParts
<1>1. [op |-> "subscribe", id |-> id] \in Commands
  BY DEF Commands
<1>2. /\ ipc' \in Seq(Commands) /\ Len(ipc') = Len(ipc) + 1
      /\ \A i \in 1..Len(ipc) : ipc'[i] = ipc[i]
      /\ ipc'[Len(ipc) + 1] = [op |-> "subscribe", id |-> id]
  BY <1>1, AppendProperties DEF Send
<1>3. /\ DOMAIN ipc = 1..Len(ipc) /\ Len(ipc) \in Nat
      /\ DOMAIN ipc' = 1..Len(ipc')
  BY <1>2, IndicesOfIpc
<1>4. ASSUME NEW other, NEW j \in DOMAIN ipc', Asks(ipc'[j], other)
      PROVE  \/ other = id /\ j = Len(ipc) + 1
             \/ j \in DOMAIN ipc /\ Asks(ipc[j], other)
  <2>1. CASE j \in DOMAIN ipc
    BY <1>2, <1>3, <1>4, <2>1
  <2>2. CASE j \notin DOMAIN ipc
    <3>1. j = Len(ipc) + 1
      BY <1>2, <1>3, <2>2
    <3> QED
      BY <1>2, <1>4, <3>1 DEF Asks
  <2> QED
    BY <2>1, <2>2
<1>5. \A other : Sent(other)' => other = id \/ Sent(other)
  BY <1>4 DEF Sent
<1>6. \A j \in DOMAIN ipc : ~Asks(ipc[j], id)
  BY DEF Sent
<1>7. id \notin held
  BY DEF Sent
<1> QED
  BY <1>4, <1>5, <1>6, <1>7 DEF OnceInv, Forward

\* The worker takes its next command.
LEMMA OnceTaken ==
  ASSUME TypeOK, OnceInv, Forward, ipc # <<>>, ipc' = Tail(ipc),
         \/ held' \subseteq held
         \/ Head(ipc).op = "subscribe" /\ held' = held \cup {Head(ipc).id}
  PROVE  OnceInv'
<1> ipc \in Seq(Commands)
  BY TypeParts
<1>1. /\ ipc' \in Seq(Commands) /\ Len(ipc') = Len(ipc) - 1
      /\ \A i \in 1..Len(ipc') : ipc'[i] = ipc[i + 1]
      /\ Head(ipc) = ipc[1] /\ ipc[1] \in Commands
  BY HeadTailProperties
<1>2. /\ DOMAIN ipc = 1..Len(ipc) /\ Len(ipc) \in Nat
      /\ DOMAIN ipc' = 1..Len(ipc') /\ Len(ipc') \in Nat
  BY <1>1, IndicesOfIpc
<1>3. \A j \in DOMAIN ipc' : /\ j \in Int /\ j + 1 \in DOMAIN ipc /\ j + 1 # 1
                             /\ ipc'[j] = ipc[j + 1]
  BY <1>1, <1>2
<1>4. 1 \in DOMAIN ipc
  BY <1>1, <1>2
<1>5. \A id \in held' : id \in held \/ Asks(ipc[1], id)
  BY <1>1 DEF Asks, Commands
<1>6. \A id : Sent(id)' => Sent(id)
  BY <1>3, <1>4, <1>5 DEF Sent
<1>7. ASSUME NEW id \in held', NEW i \in DOMAIN ipc', Asks(ipc'[i], id)
      PROVE  FALSE
  <2>1. i + 1 \in DOMAIN ipc /\ i + 1 # 1 /\ Asks(ipc[i + 1], id) /\ ipc[i + 1] \in Commands
    BY <1>3, <1>7, IndicesOfIpc
  <2>2. id \in Ids
    BY <2>1 DEF Asks, Commands
  <2> QED
    BY <1>4, <1>5, <2>1, <2>2 DEF OnceInv
<1>8. ASSUME NEW id \in Ids, NEW i \in DOMAIN ipc', NEW j \in DOMAIN ipc',
             Asks(ipc'[i], id), Asks(ipc'[j], id)
      PROVE  i = j
  <2>1. i + 1 = j + 1
    BY <1>3, <1>8 DEF OnceInv
  <2> QED
    BY <1>3, <2>1
<1> QED
  BY <1>6, <1>7, <1>8 DEF OnceInv, Forward

LEMMA OnceStep ==
  ASSUME TypeOK, OnceInv, Next
  PROVE  OnceInv'
<1> RunsOK
  BY TypeParts
<1>1. /\ Mine(conn.liveId) \in Seq(Ids)
      /\ Mine(conn.liveId) \o Mine(conn.watchId) \in Seq(Ids)
  BY MineIsSeq
<1>2. ASSUME NEW r \in Runs, RunStep(r) PROVE OnceInv'
  <2>1. r \in Ids /\ <<r>> \in Seq(Ids) /\ r # Watch
    BY SocketAssumption DEF Ids
  <2>2. ASSUME NEW p \in Paths, NEW origin, Begin(r, p, origin), held' = held,
               opening' = opening \/ opening' = "done"
        PROVE  OnceInv'
    <3>1. Forward
      BY <2>2 DEF Begin, RunsOK, RunState, Forward, Unasked, WatchUnasked
    <3> QED
      BY <1>1, <2>2, <3>1, OnceUnsubscribes, OnceSame DEF Begin, KeepSubscriptions
  <2>3. ASSUME NEW p \in Paths, MessageSubscribe(r, p) \/ SessionChanged(r, p)
                                \/ ClaimRefresh(r, p) \/ Resolved(r, p)
        PROVE  OnceInv'
    BY <2>2, <2>3 DEF MessageSubscribe, SessionChanged, ClaimRefresh, Resolved
  <2>4. CASE Ask(r)
    <3>1. /\ Unasked(r) /\ ~Unasked(r)' /\ opening' = opening
          /\ \A q \in Runs : q # r => run'[q] = run[q]
      BY <2>4 DEF Ask, RunsOK, RunState, Unasked
    <3>2. Forward
      BY <3>1 DEF Forward, Unasked, WatchUnasked
    <3> QED
      BY <2>1, <2>4, <3>1, <3>2, OnceSent DEF Ask, OnceInv
  <2>5. ASSUME run' = [run EXCEPT ![r].at = "done"]
                 \/ (run' = [run EXCEPT ![r].at = "ask"] /\ Unasked(r)),
               opening' = opening
        PROVE  Forward
    BY <2>5 DEF RunsOK, RunState, Forward, Unasked, WatchUnasked
  <2>6. CASE Dropped(r)
    <3>1. Forward
      BY <2>5, <2>6 DEF Dropped, Unasked
    <3> QED
      BY <2>6, <3>1, OnceSame DEF Dropped
  <2>7. CASE Answered(r) \/ TimesOut(r)
    <3>1. Forward
      BY <2>5, <2>7 DEF Answered, TimesOut
    <3> QED
      BY <2>7, <3>1, OnceSame DEF Answered, TimesOut
  <2>8. CASE AnsweredTooLate(r)
    <3>1. Forward
      BY <2>5, <2>8 DEF AnsweredTooLate
    <3> QED
      BY <2>1, <2>8, <3>1, OnceUnsubscribes DEF AnsweredTooLate
  <2> QED
    BY <1>2, <2>3, <2>4, <2>6, <2>7, <2>8 DEF RunStep
<1>3. CASE MessageUnsubscribe \/ Cleanup
  <2>1. Forward
    BY <1>3 DEF MessageUnsubscribe, Cleanup, Forward, Unasked, WatchUnasked
  <2> QED
    BY <1>1, <1>3, <2>1, OnceUnsubscribes DEF MessageUnsubscribe, Cleanup
<1>4. CASE Detected \/ WatchTimesOut \/ NotResolved
  <2>1. Forward
    BY <1>4 DEF Detected, WatchTimesOut, NotResolved, Forward, Unasked, WatchUnasked
  <2> QED
    BY <1>4, <2>1, OnceSame DEF Detected, WatchTimesOut, NotResolved
<1>5. CASE Started
  <2>1. Forward /\ WatchUnasked /\ ~WatchUnasked'
    BY <1>5 DEF Started, Forward, Unasked, WatchUnasked
  <2>2. Watch \in Ids /\ \A r \in Runs : r # Watch
    BY SocketAssumption DEF Ids
  <2> QED
    BY <1>5, <2>1, <2>2, OnceSent DEF Started, OnceInv
<1>6. CASE WatchAnswered
  <2>1. Forward /\ <<Watch>> \in Seq(Ids)
    BY <1>6 DEF WatchAnswered, Forward, Unasked, WatchUnasked, Ids
  <2> QED
    BY <1>6, <2>1, OnceUnsubscribes, OnceSame DEF WatchAnswered, KeepSubscriptions
<1>7. CASE WorkerSubscribes \/ WorkerUnsubscribes \/ WorkerRefuses
  <2>1. Forward
    BY <1>7 DEF WorkerSubscribes, WorkerUnsubscribes, WorkerRefuses, Fail, RunsOK, RunState,
                Forward, Unasked, WatchUnasked
  <2> QED
    BY <1>7, <2>1, OnceTaken DEF WorkerSubscribes, WorkerUnsubscribes, WorkerRefuses
<1>8. CASE WorkerExits
  BY <1>8 DEF WorkerExits, OnceInv, Sent
<1> QED
  BY <1>2, <1>3, <1>4, <1>5, <1>6, <1>7, <1>8 DEF Next

LEMMA WorkerTakes ==
  ASSUME TypeOK, WorkerInv, WorkerSubscribes \/ WorkerUnsubscribes
  PROVE  WorkerInv'
<1> ipc \in Seq(Commands) /\ ipc # <<>> /\ ipc' = Tail(ipc)
    /\ subs' = subs /\ lost' = lost
  BY TypeParts DEF WorkerSubscribes, WorkerUnsubscribes
<1>1. /\ ipc' \in Seq(Commands) /\ Len(ipc') = Len(ipc) - 1
      /\ \A i \in 1..Len(ipc') : ipc'[i] = ipc[i + 1]
      /\ Head(ipc) = ipc[1]
  BY HeadTailProperties
<1>2. /\ DOMAIN ipc = 1..Len(ipc) /\ Len(ipc) \in Nat
      /\ DOMAIN ipc' = 1..Len(ipc') /\ Len(ipc') \in Nat
  BY <1>1, IndicesOfIpc
<1>3. ASSUME NEW id, NEW i \in 1..Len(ipc), ToldToLeave(id, ipc, i)
      PROVE  ToldToLeave(id, ipc', i - 1)
  <2>1. PICK j \in DOMAIN ipc : j > i /\ ipc[j] = [op |-> "unsubscribe", id |-> id]
    BY <1>3 DEF ToldToLeave
  <2>2. j - 1 \in DOMAIN ipc' /\ j - 1 > i - 1 /\ ipc'[j - 1] = ipc[j]
    BY <1>1, <1>2, <2>1
  <2> QED
    BY <2>1, <2>2 DEF ToldToLeave
<1>4. 1 \in DOMAIN ipc
  BY <1>1, <1>2
<1>5. ASSUME NEW i \in DOMAIN ipc', ipc'[i].op = "subscribe"
      PROVE  ipc'[i].id \in subs' \cup lost' \/ ToldToLeave(ipc'[i].id, ipc', i)
  <2>1. i + 1 \in 1..Len(ipc) /\ ipc'[i] = ipc[i + 1] /\ (i + 1) - 1 = i
    BY <1>1, <1>2
  <2>2. \/ ipc[i + 1].id \in subs \cup lost
        \/ ToldToLeave(ipc[i + 1].id, ipc, i + 1)
    BY <1>2, <1>5, <2>1 DEF WorkerInv
  <2>3. CASE ToldToLeave(ipc[i + 1].id, ipc, i + 1)
    <3>1. ToldToLeave(ipc[i + 1].id, ipc', (i + 1) - 1)
      BY <1>3, <2>1, <2>3
    <3> QED
      BY <2>1, <3>1
  <2> QED
    BY <2>1, <2>2, <2>3
<1>6. ASSUME NEW id \in held'
      PROVE  id \in subs' \cup lost' \/ ToldToLeave(id, ipc', 0)
  <2>1. CASE id \in held /\ ipc[1] # [op |-> "unsubscribe", id |-> id]
    <3>1. id \in subs \cup lost \/ ToldToLeave(id, ipc, 0)
      BY <2>1 DEF WorkerInv
    <3>2. CASE ToldToLeave(id, ipc, 0)
      <4>1. ToldToLeave(id, ipc, 1)
        BY <1>2, <2>1, <3>2 DEF ToldToLeave
      <4> QED
        BY <1>2, <1>3, <1>4, <4>1
    <3> QED
      BY <3>1, <3>2
  <2>2. CASE WorkerSubscribes /\ id = ipc[1].id
    <3>1. ipc[1].op = "subscribe"
      BY <1>1, <2>2 DEF WorkerSubscribes
    <3>2. id \in subs \cup lost \/ ToldToLeave(id, ipc, 1)
      BY <1>4, <2>2, <3>1 DEF WorkerInv
    <3> QED
      BY <1>2, <1>3, <1>4, <3>2
  <2>3. CASE WorkerSubscribes /\ id # ipc[1].id
    <3>1. id \in held /\ ipc[1] # [op |-> "unsubscribe", id |-> id]
      BY <1>1, <1>6, <2>3 DEF WorkerSubscribes
    <3> QED
      BY <2>1, <3>1
  <2>4. CASE WorkerUnsubscribes
    <3>1. id \in held /\ ipc[1] # [op |-> "unsubscribe", id |-> id]
      BY <1>1, <1>6, <2>4 DEF WorkerUnsubscribes
    <3> QED
      BY <2>1, <3>1
  <2> QED
    BY <2>2, <2>3, <2>4
<1> QED
  BY <1>5, <1>6 DEF WorkerInv

\* What the worker refuses it neither holds nor is asked for again.
LEMMA WorkerTurnsDown ==
  ASSUME TypeOK, WorkerInv, OnceInv, WorkerRefuses
  PROVE  WorkerInv'
<1> ipc \in Seq(Commands)
  BY TypeParts
<1> DEFINE refused == Head(ipc).id
<1>1. /\ ipc # <<>> /\ ipc' = Tail(ipc) /\ subs' = subs \ {refused}
      /\ lost' = lost /\ held' = held /\ Head(ipc).op = "subscribe"
  BY DEF WorkerRefuses
<1>2. /\ ipc' \in Seq(Commands) /\ Len(ipc') = Len(ipc) - 1
      /\ \A i \in 1..Len(ipc') : ipc'[i] = ipc[i + 1]
      /\ Head(ipc) = ipc[1] /\ ipc[1] \in Commands
  BY <1>1, HeadTailProperties
<1>3. /\ DOMAIN ipc = 1..Len(ipc) /\ Len(ipc) \in Nat
      /\ DOMAIN ipc' = 1..Len(ipc') /\ Len(ipc') \in Nat /\ 1 \in DOMAIN ipc
  BY <1>2, IndicesOfIpc
<1>4. refused \in Ids /\ Asks(ipc[1], refused)
  BY <1>1, <1>2 DEF Asks, Commands
<1> HIDE DEF refused
<1>5. ASSUME NEW id, NEW i \in 0..Len(ipc), id # refused,
             id \in subs \cup lost \/ ToldToLeave(id, ipc, i)
      PROVE  /\ i = 0 => id \in subs' \cup lost' \/ ToldToLeave(id, ipc', 0)
             /\ i > 0 => id \in subs' \cup lost' \/ ToldToLeave(id, ipc', i - 1)
  <2>1. CASE id \in subs \cup lost
    BY <1>1, <1>5, <2>1
  <2>2. CASE ToldToLeave(id, ipc, i)
    <3>1. PICK j \in DOMAIN ipc : j > i /\ ipc[j] = [op |-> "unsubscribe", id |-> id]
      BY <2>2 DEF ToldToLeave
    <3>2. j # 1
      BY <1>4, <3>1 DEF Asks
    <3>3. j - 1 \in DOMAIN ipc' /\ ipc'[j - 1] = ipc[j] /\ j - 1 > 0 /\ j - 1 > i - 1
      BY <1>2, <1>3, <3>1, <3>2
    <3> QED
      BY <3>1, <3>3 DEF ToldToLeave
  <2> QED
    BY <1>5, <2>1, <2>2
<1>6. ASSUME NEW id \in held'
      PROVE  id \in subs' \cup lost' \/ ToldToLeave(id, ipc', 0)
  <2>1. id \in held /\ id # refused
    BY <1>1, <1>3, <1>4 DEF OnceInv
  <2> QED
    BY <1>3, <1>5, <2>1 DEF WorkerInv
<1>7. ASSUME NEW i \in DOMAIN ipc', ipc'[i].op = "subscribe"
      PROVE  ipc'[i].id \in subs' \cup lost' \/ ToldToLeave(ipc'[i].id, ipc', i)
  <2>1. /\ i + 1 \in DOMAIN ipc /\ i + 1 \in 0..Len(ipc) /\ i + 1 > 0 /\ (i + 1) - 1 = i
        /\ i + 1 # 1 /\ ipc'[i] = ipc[i + 1] /\ ipc[i + 1] \in Commands
    BY <1>2, <1>3, IndicesOfIpc
  <2>2. ipc[i + 1].id # refused
    BY <1>3, <1>4, <1>7, <2>1 DEF OnceInv, Asks, Commands
  <2>3. ipc[i + 1].id \in subs \cup lost \/ ToldToLeave(ipc[i + 1].id, ipc, i + 1)
    BY <1>7, <2>1 DEF WorkerInv
  <2> QED
    BY <1>5, <2>1, <2>2, <2>3
<1> QED
  BY <1>6, <1>7 DEF WorkerInv

\* The worker holds no subscription the Supervisor forgot, unless a request
\* failed or the unsubscribe is on its way (WorkerHoldsNoMore).
THEOREM NothingHeldForNobody == Spec => []WorkerHoldsNoMore
<1>1. Init => WorkerInv /\ OnceInv
  BY DEF Init, WorkerInv, OnceInv, Sent
<1>2. TypeOK /\ WorkerInv /\ OnceInv /\ [Next]_vars => WorkerInv' /\ OnceInv'
  <2> SUFFICES ASSUME TypeOK, WorkerInv, OnceInv, [Next]_vars PROVE WorkerInv' /\ OnceInv'
    OBVIOUS
  <2>1. CASE UNCHANGED vars
    <3>1. Forward /\ held' = held /\ ipc' = ipc
      BY <2>1 DEF vars, Forward, Unasked, WatchUnasked
    <3>2. WorkerInv'
      BY <2>1 DEF vars, WorkerInv
    <3> QED
      BY <3>1, <3>2, OnceSame
  <2>2. WorkerExits => WorkerInv'
    BY DEF WorkerExits, WorkerInv
  <2>3. Next => WorkerInv'
    BY <2>2, ClientKept, WorkerTakes, WorkerTurnsDown DEF Next
  <2> QED
    BY <2>1, <2>3, OnceStep
<1>3. WorkerInv => WorkerHoldsNoMore
  BY DEF WorkerInv, WorkerHoldsNoMore, ToldToLeave
<1> QED
  BY <1>1, <1>2, <1>3, TypeCorrect, PTL DEF Spec

=============================================================================
