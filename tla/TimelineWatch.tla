---------------------------- MODULE TimelineWatch ----------------------------
(***************************************************************************)
(* The Timeline Worker's live watch of one JSONL transcript               *)
(* (src/lib/runtime/timeline/worker-service.ts): subscribers share one    *)
(* watcher, which remembers an offset and a pending partial line and      *)
(* sends every new entry to all of them.                                  *)
(*                                                                         *)
(* The agent appends to the file at any moment.  A line of the file is    *)
(* three units: 3k-2 is its head, 3k-1 the rest of its JSON, 3k its       *)
(* newline; the file is its first `written' units and does not exist      *)
(* before the first of them.  Transcripts only grow, so the branch of     *)
(* parseIncremental for a file that shrank is not taken.                  *)
(*                                                                         *)
(* A watcher is an object that outlives its entry in liveWatchers: what   *)
(* its timers and its read do after it was removed is part of the model.  *)
(***************************************************************************)
EXTENDS Integers, Sequences

CONSTANTS
    Subs,           \* subscriber ids; one may subscribe again later
    NumLines,       \* bound: lines the agent writes
    Silent,         \* lines that parse but make no timeline entry
    Chunks,         \* sizes, in units, of one append to the file
    MaxWatchers,    \* bound: watcher objects created
    MaxRetries,     \* MAX_WATCHER_RETRIES
    MaxFaults       \* bound: failed reads and watches that do not open

ASSUME WatchAssumption ==
    /\ NumLines \in Nat /\ MaxWatchers \in Nat /\ MaxRetries \in Nat
    /\ MaxFaults \in Nat /\ Chunks \subseteq Nat \ {0}
    /\ Silent \subseteq 1..NumLines

VARIABLES
    written,    \* units in the file
    live,       \* the watcher objects ever created, in order
    current,    \* liveWatchers.get(jsonlPath): an index of live, or 0
    sub,        \* per subscriber: its subscription and what it was sent
    torn,       \* lines some read of the file ended inside of
    faults

vars == <<written, live, current, sub, torn, faults>>

Lines == 1..NumLines
Units == 1..(3 * NumLines)
Nothing == [entries |-> {}, offset |-> 0, pending |-> <<>>]

(* The complete lines, with or without their newline, of the first n units. *)
CompleteAt(n) == {k \in Lines : 3 * k - 1 <= n}

(* The line that the n-th unit leaves unfinished, if any. *)
TornAt(n) == {k \in Lines : n = 3 * k - 2}

(***************************************************************************)
(* parseIncremental: the pending text and the bytes from the offset are   *)
(* split at newlines; a segment yields an entry when it is the whole JSON *)
(* of a line, and a last segment that does not parse is the new pending.  *)
(***************************************************************************)
IsNewline(u) == u % 3 = 0
StartsSegment(raw, i) == i = 1 \/ IsNewline(raw[i - 1])
WholeLineAt(raw, i) ==
    /\ StartsSegment(raw, i)
    /\ i < Len(raw)
    /\ raw[i] % 3 = 1 /\ raw[i + 1] = raw[i] + 1
    /\ i + 1 < Len(raw) => IsNewline(raw[i + 2])

LastSegment(raw) ==
    LET start == CHOOSE i \in 1..(Len(raw) + 1) :
                    /\ StartsSegment(raw, i)
                    /\ \A j \in i..Len(raw) : ~IsNewline(raw[j])
    IN  SubSeq(raw, start, Len(raw))

Raw(from, pending, size) == pending \o [i \in 1..(size - from) |-> from + i]
EntriesIn(raw) ==
    {(raw[i] + 2) \div 3 : i \in {i \in 1..Len(raw) : WholeLineAt(raw, i)}} \ Silent
Rest(raw) ==
    LET last == LastSegment(raw)
    IN  IF last # <<>> /\ WholeLineAt(last, 1) THEN <<>> ELSE last

ParseIncremental(from, pending, size) ==
    IF from >= size
    THEN [entries |-> {}, offset |-> from, pending |-> pending]
    ELSE [entries |-> EntriesIn(Raw(from, pending, size)), offset |-> size,
          pending |-> Rest(Raw(from, pending, size))]

-----------------------------------------------------------------------------
NewWatcher ==
    [offset |-> 0, pending |-> <<>>, subs |-> {}, fs |-> "closed",
     timer |-> FALSE, retries |-> 0, retryDue |-> FALSE, leaked |-> FALSE,
     step |-> "idle", again |-> FALSE, result |-> Nothing, sent |-> <<>>,
     noticed |-> 0]

Unsubscribed ==
    [phase |-> "off", watcher |-> 0, new |-> FALSE, early |-> FALSE,
     size |-> 0, init |-> {}, got |-> {}, failed |-> FALSE]

Init ==
    /\ written = 0 /\ live = <<>> /\ current = 0 /\ torn = {} /\ faults = 0
    /\ sub = [s \in Subs |-> Unsubscribed]

Watchers == 1..Len(live)
Fault == faults < MaxFaults /\ faults' = faults + 1

(* The agent appends; an open fs.watch notices and (re)arms the debounce. *)
AgentWrites ==
    /\ \E n \in Chunks : written + n \in Units /\ written' = written + n
    /\ live' = [w \in Watchers |->
                  IF live[w].fs = "open"
                  THEN [live[w] EXCEPT !.timer = TRUE, !.noticed = written']
                  ELSE live[w]]
    /\ UNCHANGED <<current, sub, torn, faults>>

(* A read or the watch of w failed: its subscribers may miss a line.       *)
(* emitLiveError tells them, unless parseIncremental swallowed the error. *)
FailedFor(w) == [s \in Subs |->
                   IF s \in live[w].subs THEN [sub[s] EXCEPT !.failed = TRUE] ELSE sub[s]]

(***************************************************************************)
(* subscribeLive, up to its first await.  A subscriber joins the path's   *)
(* watcher or makes it; of a file that does not exist it gets an empty    *)
(* init, and nothing is watched.  `early' marks one that joined while the *)
(* subscriber that made the watcher was still reading the file.           *)
(***************************************************************************)
StillReading(w) == \E m \in Subs : sub[m].watcher = w /\ sub[m].new
                                     /\ sub[m].phase \in {"stat", "read"}

Joined(w) ==
    [Unsubscribed EXCEPT !.watcher = w, !.new = (current = 0),
                         !.early = StillReading(w),
                         !.phase = IF written = 0 THEN "on" ELSE "stat"]

SubscribeLive(s) ==
    LET w == IF current = 0 THEN Len(live) + 1 ELSE current
    IN  /\ sub[s].phase = "off"
        /\ w <= MaxWatchers
        /\ live' = IF current = 0
                   THEN Append(live, [NewWatcher EXCEPT !.subs = {s}])
                   ELSE [live EXCEPT ![w].subs = @ \cup {s}]
        /\ current' = w
        /\ sub' = [sub EXCEPT ![s] = Joined(w)]
        /\ UNCHANGED <<written, torn, faults>>

(* readTailEntries takes the file's size, which only the maker's offset   *)
(* depends on, and then reads the file.                                   *)
Stat(s) ==
    /\ sub[s].phase = "stat"
    /\ sub' = [sub EXCEPT ![s].phase = "read",
                          ![s].size = IF sub[s].new THEN written ELSE 0]
    /\ UNCHANGED <<written, live, current, torn, faults>>

(* startLiveWatch on watcher w: fs.watch opens, or throws and the         *)
(* subscribers are told.  Nothing asks whether w is still in the map.     *)
Open(l, w) == [l EXCEPT ![w].fs = "open"]

\* Mutant: every subscriber sets the offset, not only the maker.
ReadTailOfAny(s) ==
    LET w == sub[s].watcher
    IN  /\ sub[s].phase = "read"
        /\ sub' = [sub EXCEPT ![s].phase = "relate",
                              ![s].init = CompleteAt(written) \ Silent]
        /\ live' = Open([live EXCEPT ![w].offset = written], w)
        /\ torn' = torn \cup TornAt(written)
        /\ UNCHANGED <<written, current, faults>>

(* The tail is read: its maker sets the offset and starts the watch. *)
ReadTail(s) ==
    LET w == sub[s].watcher
    IN  /\ sub[s].phase = "read"
        /\ sub' = [sub EXCEPT ![s].phase = "relate",
                              ![s].init = CompleteAt(written) \ Silent]
        /\ live' = IF sub[s].new
                   THEN Open([live EXCEPT ![w].offset = sub[s].size], w)
                   ELSE live
        /\ torn' = IF sub[s].new THEN torn \cup TornAt(sub[s].size) ELSE torn
        /\ UNCHANGED <<written, current, faults>>

(* The same, when the file cannot be read (an empty tail of size 0) ... *)
TailFails(s) ==
    /\ sub[s].phase \in {"stat", "read"}
    /\ Fault
    /\ sub' = [sub EXCEPT ![s].phase = "relate", ![s].failed = TRUE]
    /\ live' = IF sub[s].new THEN Open(live, sub[s].watcher) ELSE live
    /\ UNCHANGED <<written, current, torn>>

(* ... or when fs.watch throws. *)
WatchFails(s) ==
    LET w == sub[s].watcher
    IN  /\ sub[s].phase = "read" /\ sub[s].new
        /\ Fault
        /\ live' = [live EXCEPT ![w].offset = sub[s].size]
        /\ sub' = [FailedFor(w) EXCEPT ![s].phase = "relate",
                                       ![s].init = CompleteAt(written) \ Silent]
        /\ torn' = torn \cup TornAt(sub[s].size)
        /\ UNCHANGED <<written, current>>

(* The relationship is looked up and the init is sent. *)
Reply(s) ==
    /\ sub[s].phase = "relate"
    /\ sub' = [sub EXCEPT ![s].phase = "on", ![s].got = @ \cup sub[s].init,
                              ![s].new = FALSE, ![s].size = 0, ![s].init = {}]
    /\ UNCHANGED <<written, live, current, torn, faults>>

(***************************************************************************)
(* unsubscribeLive: the last subscriber closes the watcher and removes    *)
(* it; a read under way goes on for nobody.  The timer of a retry is not  *)
(* cleared: `leaked' marks a watcher that was removed while it ran.       *)
(***************************************************************************)
\* Mutant: the entry is removed and its fs.watch is not closed.
UnsubscribeLeavesOpen(s) ==
    LET w == sub[s].watcher
        last == live[w].subs = {s}
    IN  /\ sub[s].phase = "on"
        /\ sub' = [sub EXCEPT ![s] = Unsubscribed]
        /\ current' = IF last THEN 0 ELSE current
        /\ live' = [live EXCEPT ![w].subs = @ \ {s}, ![w].timer = @ /\ ~last,
                                ![w].leaked = last /\ live[w].retryDue]
        /\ UNCHANGED <<written, torn, faults>>

UnsubscribeLive(s) ==
    LET w == sub[s].watcher
        last == live[w].subs = {s}
    IN  /\ sub[s].phase = "on"
        /\ sub' = [sub EXCEPT ![s] = Unsubscribed]
        /\ current' = IF last THEN 0 ELSE current
        /\ live' = [live EXCEPT
                      ![w].subs = @ \ {s},
                      ![w].fs = IF last THEN "closed" ELSE @,
                      ![w].timer = @ /\ ~last,
                      ![w].leaked = last /\ live[w].retryDue]
        /\ UNCHANGED <<written, torn, faults>>

(***************************************************************************)
(* processLiveFileChange: one read at a time; a change during a read asks *)
(* for another one after it.                                              *)
(***************************************************************************)
DebounceFires(w) ==
    /\ live[w].timer
    /\ live' = [live EXCEPT ![w].timer = FALSE,
                            ![w].again = @ \/ live[w].step # "idle",
                            ![w].step = IF @ = "idle" THEN "reading" ELSE @]
    /\ UNCHANGED <<written, current, sub, torn, faults>>

Read(w) ==
    /\ live[w].step = "reading"
    /\ live' = [live EXCEPT
                  ![w].step = "read",
                  ![w].result = ParseIncremental(live[w].offset, live[w].pending, written)]
    /\ torn' = torn \cup TornAt(written)
    /\ UNCHANGED <<written, current, sub, faults>>

(* parseIncremental swallows an error of the file and returns nothing. *)
ReadFails(w) ==
    /\ live[w].step = "reading"
    /\ Fault
    /\ live' = [live EXCEPT
                  ![w].step = "read",
                  ![w].result = [entries |-> {}, offset |-> live[w].offset,
                                 pending |-> live[w].pending]]
    /\ sub' = FailedFor(w)
    /\ UNCHANGED <<written, current, torn>>

(* The offset moves only when there are entries to send. *)
\* Mutant: the offset stays where it was.
DeliverForgetsOffset(w) ==
    LET r == live[w].result
    IN  /\ live[w].step = "read"
        /\ live' = [live EXCEPT
                      ![w].pending = r.pending,
                      ![w].sent = IF r.entries = {} THEN @ ELSE Append(@, r.entries),
                      ![w].step = IF live[w].again THEN "reading" ELSE "idle",
                      ![w].again = FALSE,
                      ![w].result = Nothing]
        /\ sub' = [s \in Subs |-> IF s \in live[w].subs
                                   THEN [sub[s] EXCEPT !.got = @ \cup r.entries]
                                   ELSE sub[s]]
        /\ UNCHANGED <<written, current, torn, faults>>

\* Mutant: a change noticed during the read is forgotten.
DeliverDropsChange(w) ==
    LET r == live[w].result
    IN  /\ live[w].step = "read"
        /\ live' = [live EXCEPT
                      ![w].pending = r.pending,
                      ![w].offset = IF r.entries = {} THEN @ ELSE r.offset,
                      ![w].sent = IF r.entries = {} THEN @ ELSE Append(@, r.entries),
                      ![w].step = "idle",
                      ![w].again = FALSE,
                      ![w].result = Nothing]
        /\ sub' = [s \in Subs |-> IF s \in live[w].subs
                                   THEN [sub[s] EXCEPT !.got = @ \cup r.entries]
                                   ELSE sub[s]]
        /\ UNCHANGED <<written, current, torn, faults>>

Deliver(w) ==
    LET r == live[w].result
    IN  /\ live[w].step = "read"
        /\ live' = [live EXCEPT
                      ![w].pending = r.pending,
                      ![w].offset = IF r.entries = {} THEN @ ELSE r.offset,
                      ![w].sent = IF r.entries = {} THEN @ ELSE Append(@, r.entries),
                      ![w].step = IF live[w].again THEN "reading" ELSE "idle",
                      ![w].again = FALSE,
                      ![w].result = Nothing]
        /\ sub' = [s \in Subs |-> IF s \in live[w].subs
                                   THEN [sub[s] EXCEPT !.got = @ \cup r.entries]
                                   ELSE sub[s]]
        /\ UNCHANGED <<written, current, torn, faults>>

(***************************************************************************)
(* The error event of fs.watch: the watch is closed and opened again a    *)
(* second later, MaxRetries times; then the subscribers are told.         *)
(***************************************************************************)
WatchBreaks(w) ==
    /\ live[w].fs = "open"
    /\ live[w].retries < MaxRetries
    /\ live' = [live EXCEPT ![w].retries = @ + 1, ![w].fs = "closed",
                            ![w].retryDue = TRUE]
    /\ UNCHANGED <<written, current, sub, torn, faults>>

WatchGivesUp(w) ==
    /\ live[w].fs = "open"
    /\ live[w].retries = MaxRetries
    /\ sub' = FailedFor(w)
    /\ UNCHANGED <<written, live, current, torn, faults>>

Rewatch(w) ==
    /\ live[w].retryDue
    /\ live' = Open([live EXCEPT ![w].retryDue = FALSE], w)
    /\ UNCHANGED <<written, current, sub, torn, faults>>

(* fs.watch may throw then as well. *)
RewatchFails(w) ==
    /\ live[w].retryDue
    /\ Fault
    /\ live' = [live EXCEPT ![w].retryDue = FALSE]
    /\ sub' = FailedFor(w)
    /\ UNCHANGED <<written, current, torn>>

SubscriberStep(s) ==
    \/ SubscribeLive(s) \/ Stat(s) \/ ReadTail(s) \/ TailFails(s)
    \/ WatchFails(s) \/ Reply(s) \/ UnsubscribeLive(s)

WatcherStep(w) ==
    \/ DebounceFires(w) \/ Read(w) \/ ReadFails(w) \/ Deliver(w)
    \/ WatchBreaks(w) \/ WatchGivesUp(w) \/ Rewatch(w) \/ RewatchFails(w)

Next ==
    \/ AgentWrites
    \/ \E s \in Subs : SubscriberStep(s)
    \/ \E w \in 1..MaxWatchers : w \in Watchers /\ WatcherStep(w)

Spec == Init /\ [][Next]_vars

-----------------------------------------------------------------------------
TypeOK ==
    /\ written \in {0} \cup Units
    /\ current \in 0..Len(live) /\ Len(live) <= MaxWatchers
    /\ torn \subseteq Lines /\ faults \in 0..MaxFaults
    /\ \A w \in Watchers :
         /\ live[w].offset \in 0..written
         /\ live[w].pending \in Seq(Units)
         /\ live[w].subs \subseteq Subs
         /\ live[w].retries \in 0..MaxRetries
         /\ live[w].step \in {"idle", "reading", "read"}
         /\ live[w].again => live[w].step # "idle"
    /\ \A s \in Subs :
         /\ sub[s].phase \in {"off", "stat", "read", "relate", "on"}
         /\ sub[s].got \cup sub[s].init \subseteq CompleteAt(written) \ Silent

(***************************************************************************)
(* A watcher sends each entry in one append only and its appends in the   *)
(* order of the file, whatever half lines it read on the way: overlapping *)
(* reads, or a read from an offset already sent, would repeat or swap     *)
(* them.                                                                  *)
(***************************************************************************)
SentOnceInOrder ==
    \A w \in Watchers : \A i, j \in DOMAIN live[w].sent : i < j =>
      \A k \in live[w].sent[i], l \in live[w].sent[j] : k < l

(***************************************************************************)
(* No hole: a subscriber that has its init knows every entry the shared   *)
(* watcher has passed, whether from the init or from an append.  Not      *)
(* promised, and the code does lose them: a line that some read ended     *)
(* inside of, a subscriber whose own read failed, and one that joined     *)
(* before the maker of the watcher had set the offset.                    *)
(***************************************************************************)
NoEntrySkipped ==
    \A s \in Subs : sub[s].phase = "on" /\ ~sub[s].early /\ ~sub[s].failed =>
      CompleteAt(live[sub[s].watcher].offset) \ (Silent \cup torn) \subseteq sub[s].got

(***************************************************************************)
(* A subscriber is in the subscribers of exactly the watcher the path has *)
(* now, so nobody is left behind on a watcher that was removed under      *)
(* them; and only a watcher whose subscribers are there holds an open     *)
(* fs.watch (subscribeLive, unsubscribeLive, startLiveWatch).  Excepted   *)
(* is the one the code leaks: removed in the second between an error of   *)
(* its fs.watch and the retry, which then opens a watch nobody closes.    *)
(***************************************************************************)
UnusedWatchCloses ==
    /\ \A s \in Subs : sub[s].phase # "off" => sub[s].watcher = current
    /\ \A w \in Watchers :
          /\ live[w].subs = {s \in Subs : sub[s].phase # "off" /\ sub[s].watcher = w}
          /\ live[w].fs = "open" => w = current \/ live[w].leaked
    /\ current # 0 => live[current].subs # {}

(***************************************************************************)
(* A change that was noticed is never dropped: when a watcher is at rest, *)
(* its subscribers, once they have read their init, know every line that  *)
(* was complete at the last change it noticed, also one that came while   *)
(* an earlier one was being read.                                         *)
(***************************************************************************)
NoNoticedLineLost ==
    \A w \in Watchers : ~live[w].timer /\ live[w].step = "idle" =>
      \A s \in live[w].subs :
        \/ sub[s].phase \in {"stat", "read"} \/ sub[s].failed \/ sub[s].early
        \/ CompleteAt(live[w].noticed) \ (Silent \cup torn)
              \subseteq sub[s].got \cup sub[s].init

=============================================================================
