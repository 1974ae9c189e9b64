------------------------- MODULE TimelineWatchProofs -------------------------
(***************************************************************************)
(* What the subscribers of one transcript are sent, for any number of      *)
(* subscribers, lines, watchers, retries and faults, and however the agent *)
(* cuts the file into appends.                                             *)
(*                                                                         *)
(* The proof has three layers.  The first is about parseIncremental alone: *)
(* what a read from an offset with a pending partial line yields, and what *)
(* it leaves pending.  The second says what each action does to the one    *)
(* watcher and the one subscriber it is about, and then, whoever takes the *)
(* step, that the text of a watcher can only rest, start, be parsed, be    *)
(* missed or be sent (Move).  The third is the inductive invariant, one    *)
(* named part at a time.                                                   *)
(***************************************************************************)
EXTENDS TimelineWatch, SequenceTheorems, WellFoundedInduction, TLAPS

-----------------------------------------------------------------------------
(* Reads *)

LEMMA LeastIs ==
  ASSUME NEW S \in SUBSET Nat, S # {}
  PROVE  \E x \in S : \A y \in S : x <= y
<1>1. PICK x \in S : \A y \in S : ~(<<y, x>> \in OpToRel(<, Nat))
  BY NatLessThanWellFounded, WFMin
<1>2. \A y \in S : ~(y < x)
  BY <1>1 DEF OpToRel
<1>. QED  BY <1>2

LEMMA Thirds ==
  /\ \A k \in Int : IsNewline(3 * k - 3) /\ ~IsNewline(3 * k - 2) /\ ~IsNewline(3 * k - 1)
  /\ \A k \in Int : IsNewline(3 * k) /\ (3 * k - 2) % 3 = 1 /\ ((3 * k - 2) + 2) \div 3 = k
  /\ \A n \in Int : n % 3 = 1 => (n + 2) \div 3 \in Int /\ n = 3 * ((n + 2) \div 3) - 2
  BY Z3 DEF IsNewline

LEMMA RawIs ==
  ASSUME NEW from \in Nat, NEW size \in Nat, from <= size, NEW p \in Seq(Int)
  PROVE  LET raw == Raw(from, p, size)
         IN  /\ raw \in Seq(Int) /\ Len(raw) = Len(p) + (size - from)
             /\ \A i \in 1..Len(raw) :
                  raw[i] = IF i <= Len(p) THEN p[i] ELSE from + (i - Len(p))
<1>. DEFINE chunk == [i \in 1..(size - from) |-> from + i]
<1>1. chunk \in Seq(Int) /\ Len(chunk) = size - from
  <2>1. size - from \in Nat /\ chunk \in [1..(size - from) -> Int]
    OBVIOUS
  <2>2. chunk \in Seq(Int)
    BY <2>1, SeqDef
  <2>3. DOMAIN chunk = 1..(size - from)
    OBVIOUS
  <2>4. Len(chunk) = size - from
    BY <2>1
  <2>. QED  BY <2>2, <2>4
<1>2. \A i \in 1..(size - from) : chunk[i] = from + i
  OBVIOUS
<1>. HIDE DEF chunk
<1>3. Len(p) \in Nat /\ p \o chunk \in Seq(Int) /\ Len(p \o chunk) = Len(p) + (size - from)
  <2>1. p \o chunk \in Seq(Int) /\ Len(p \o chunk) = Len(p) + Len(chunk)
    BY <1>1, ConcatProperties, Zenon
  <2>. QED  BY <1>1, <2>1
<1>4. \A i \in 1..Len(p \o chunk) : (p \o chunk)[i] = IF i <= Len(p) THEN p[i] ELSE chunk[i - Len(p)]
  <2>1. \A i \in 1..(Len(p) + Len(chunk)) :
           (p \o chunk)[i] = IF i <= Len(p) THEN p[i] ELSE chunk[i - Len(p)]
    BY <1>1, ConcatProperties, Zenon
  <2>. QED  BY <1>1, <1>3, <2>1
<1>5. \A i \in 1..Len(p \o chunk) :
         (p \o chunk)[i] = IF i <= Len(p) THEN p[i] ELSE from + (i - Len(p))
  <2>. SUFFICES ASSUME NEW i \in 1..Len(p \o chunk), i > Len(p)
                PROVE  chunk[i - Len(p)] = from + (i - Len(p))
    BY <1>3, <1>4
  <2>1. i - Len(p) \in 1..(size - from)
    BY <1>3
  <2>. QED  BY <2>1, <1>2
<1>. QED  BY <1>3, <1>5 DEF Raw, chunk

LEMMA LastIs ==
  ASSUME NEW raw \in Seq(Int)
  PROVE  \E start \in 1..(Len(raw) + 1) :
            /\ LastSegment(raw) = SubSeq(raw, start, Len(raw))
            /\ StartsSegment(raw, start)
            /\ \A j \in start..Len(raw) : ~IsNewline(raw[j])
<1>. DEFINE OK(i) == /\ StartsSegment(raw, i)
                     /\ \A j \in i..Len(raw) : ~IsNewline(raw[j])
            T == {d \in 0..Len(raw) : d < Len(raw) /\ IsNewline(raw[Len(raw) - d])}
<1>0. Len(raw) \in Nat
  OBVIOUS
<1>1. \E i \in 1..(Len(raw) + 1) : OK(i)
  <2>1. CASE T = {}
    <3>1. ASSUME NEW j \in 1..Len(raw), IsNewline(raw[j])  PROVE FALSE
      <4>1. Len(raw) - j \in 0..Len(raw) /\ Len(raw) - j < Len(raw) /\ Len(raw) - (Len(raw) - j) = j
        BY <1>0
      <4>. QED  BY <4>1, <3>1, <2>1
    <3>. QED  BY <3>1, <1>0 DEF StartsSegment
  <2>2. CASE T # {}
    <3>1. T \in SUBSET Nat
      OBVIOUS
    <3>2. PICK d \in T : \A e \in T : d <= e
      BY <2>2, <3>1, LeastIs
    <3>. DEFINE i == Len(raw) - d + 1
    <3>3. d \in Nat /\ d < Len(raw) /\ i \in 1..(Len(raw) + 1) /\ i - 1 = Len(raw) - d
      BY <1>0
    <3>4. StartsSegment(raw, i)
      BY <3>2, <3>3 DEF StartsSegment
    <3>5. ASSUME NEW j \in i..Len(raw), IsNewline(raw[j])  PROVE FALSE
      <4>1. /\ Len(raw) - j \in 0..Len(raw) /\ Len(raw) - j < Len(raw)
            /\ Len(raw) - (Len(raw) - j) = j /\ Len(raw) - j < d
        BY <3>3, <1>0
      <4>2. Len(raw) - j \in T
        BY <4>1, <3>5
      <4>3. d <= Len(raw) - j
        BY <3>2, <4>2
      <4>. QED  BY <4>1, <4>3, <3>3, <1>0
    <3>. QED  BY <3>3, <3>4, <3>5
  <2>. QED  BY <2>1, <2>2
<1>. DEFINE start == CHOOSE i \in 1..(Len(raw) + 1) : OK(i)
<1>2. start \in 1..(Len(raw) + 1) /\ OK(start)
  BY <1>1
<1>3. LastSegment(raw) = SubSeq(raw, start, Len(raw))
  BY DEF LastSegment
<1>. QED  BY <1>2, <1>3

LEMMA TailIs ==
  ASSUME NEW raw \in Seq(Int), NEW start \in 1..(Len(raw) + 1)
  PROVE  LET last == SubSeq(raw, start, Len(raw))
         IN  /\ last \in Seq(Int) /\ Len(last) = Len(raw) - start + 1
             /\ \A i \in 1..Len(last) : last[i] = raw[start + i - 1]
<1>1. Len(raw) \in Nat
  OBVIOUS
<1>. QED  BY <1>1

LEMMA EntriesAre ==
  ASSUME NEW raw \in Seq(Int)
  PROVE  /\ EntriesIn(raw) \in SUBSET Int
         /\ \A k \in Int : k \in EntriesIn(raw) <=>
               /\ k \notin Silent
               /\ \E i \in 1..Len(raw) : WholeLineAt(raw, i) /\ raw[i] = 3 * k - 2
<1>. DEFINE Whole == {i \in 1..Len(raw) : WholeLineAt(raw, i)}
<1>1. \A i \in Whole : raw[i] \in Int /\ raw[i] % 3 = 1
  BY DEF WholeLineAt
<1>2. \A i \in Whole : /\ (raw[i] + 2) \div 3 \in Int
                      /\ raw[i] = 3 * ((raw[i] + 2) \div 3) - 2
  BY <1>1, Thirds
<1>. HIDE DEF Whole
<1>3. EntriesIn(raw) = {(raw[i] + 2) \div 3 : i \in Whole} \ Silent
  BY DEF EntriesIn, Whole
<1>4. ASSUME NEW k \in Int
      PROVE  k \in EntriesIn(raw) <=> k \notin Silent /\ \E i \in Whole : raw[i] = 3 * k - 2
  <2>1. \A i \in Whole : raw[i] = 3 * k - 2 <=> (raw[i] + 2) \div 3 = k
    BY <1>1, <1>2, Thirds
  <2>. QED  BY <1>3, <2>1, Zenon
<1>5. EntriesIn(raw) \in SUBSET Int
  BY <1>2, <1>3, Zenon
<1>. QED  BY <1>4, <1>5 DEF Whole

\* The rest of raw is empty or its last segment.
LEMMA RestIs ==
  ASSUME NEW raw \in Seq(Int)
  PROVE  /\ Rest(raw) \in Seq(Int)
         /\ \E start \in 1..(Len(raw) + 1) :
               /\ StartsSegment(raw, start)
               /\ \A j \in start..Len(raw) : ~IsNewline(raw[j])
               /\ \/ Rest(raw) = <<>>
                  \/ /\ Rest(raw) = SubSeq(raw, start, Len(raw))
                     /\ ~WholeLineAt(Rest(raw), 1)
               /\ WholeLineAt(SubSeq(raw, start, Len(raw)), 1) => Rest(raw) = <<>>
<1>1. PICK start \in 1..(Len(raw) + 1) :
            /\ LastSegment(raw) = SubSeq(raw, start, Len(raw))
            /\ StartsSegment(raw, start)
            /\ \A j \in start..Len(raw) : ~IsNewline(raw[j])
  BY LastIs
<1>2. SubSeq(raw, start, Len(raw)) \in Seq(Int)
  BY TailIs
<1>3. Rest(raw) = IF LastSegment(raw) # <<>> /\ WholeLineAt(LastSegment(raw), 1)
                  THEN <<>> ELSE LastSegment(raw)
  BY DEF Rest
<1>4. <<>> \in Seq(Int)
  OBVIOUS
<1>. QED  BY <1>1, <1>2, <1>3, <1>4, Zenon

LEMMA ParseIs ==
  ASSUME NEW from \in Nat, NEW size \in Nat, from <= size, NEW p \in Seq(Int)
  PROVE  LET r   == ParseIncremental(from, p, size)
             raw == Raw(from, p, size)
         IN  /\ r.entries \in SUBSET Int /\ r.offset = size /\ r.pending \in Seq(Int)
             /\ from = size => r.entries = {} /\ r.pending = p
             /\ from < size => r.entries = EntriesIn(raw) /\ r.pending = Rest(raw)
<1>. DEFINE r   == ParseIncremental(from, p, size)
            raw == Raw(from, p, size)
<1>1. raw \in Seq(Int)
  BY RawIs
<1>2. CASE from = size
  <2>1. r = [entries |-> {}, offset |-> from, pending |-> p]
    BY <1>2 DEF ParseIncremental
  <2>. QED  BY <2>1, <1>2
<1>3. CASE from < size
  <2>1. r = [entries |-> EntriesIn(raw), offset |-> size, pending |-> Rest(raw)]
    BY <1>3 DEF ParseIncremental
  <2>. HIDE DEF r, raw
  <2>2. r.entries \in SUBSET Int /\ r.pending \in Seq(Int)
    BY <1>1, <2>1, EntriesAre, RestIs
  <2>. QED  BY <1>3, <2>1, <2>2 DEF r, raw
<1>. QED  BY <1>2, <1>3

-----------------------------------------------------------------------------
(* What a read passes *)

\* Only a line that was torn, or that makes no entry, has pending text
\* before its first unit.
Fits(o, p, t) ==
    /\ TornAt(o) \subseteq t
    /\ \A k \in Lines : o = 3 * k - 3 /\ p # <<>> => k \in t \cup Silent

\* Where the watcher stands after a read with result r from offset o.
After(o, r) == IF r.entries = {} THEN o ELSE r.offset

LEMMA LinesAreInts == Lines \subseteq Int /\ \A n \in Int : CompleteAt(n) \subseteq Int /\ TornAt(n) \subseteq Lines
  BY WatchAssumption DEF Lines, CompleteAt, TornAt

\* A read yields every line that it completes, unless it was torn.
LEMMA ReadPasses ==
  ASSUME NEW from \in Nat, NEW size \in Nat, from <= size, NEW p \in Seq(Int),
         NEW t, Fits(from, p, t), TornAt(size) \subseteq t
  PROVE  LET r == ParseIncremental(from, p, size)
         IN  CompleteAt(size) \ (Silent \cup t) \subseteq CompleteAt(from) \cup r.entries
<1>. DEFINE r   == ParseIncremental(from, p, size)
            raw == Raw(from, p, size)
<1>. SUFFICES ASSUME NEW k \in Lines, 3 * k - 1 <= size, k \notin Silent, k \notin t,
                     ~(3 * k - 1 <= from)
              PROVE  k \in r.entries
  BY DEF CompleteAt
<1>1. k \in Int
  BY LinesAreInts
<1>2. from # 3 * k - 2
  BY DEF Fits, TornAt
<1>3. from <= 3 * k - 3 /\ from < size
  BY <1>1, <1>2
<1>4. from = 3 * k - 3 => p = <<>>
  BY DEF Fits
<1>5. /\ raw \in Seq(Int) /\ Len(raw) = Len(p) + (size - from) /\ Len(p) \in Nat
      /\ \A i \in 1..Len(raw) : raw[i] = IF i <= Len(p) THEN p[i] ELSE from + (i - Len(p))
  BY RawIs
<1>6. r.entries = EntriesIn(raw)
  BY <1>3, ParseIs
<1>. DEFINE i == Len(p) + (3 * k - 2 - from)
<1>7. /\ i \in 1..Len(raw) /\ i + 1 \in 1..Len(raw) /\ i > Len(p) /\ i \in Int
      /\ from + (i - Len(p)) = 3 * k - 2 /\ from + ((i + 1) - Len(p)) = 3 * k - 1
  BY <1>1, <1>3, <1>5
<1>. HIDE DEF raw, r
<1>8. raw[i] = 3 * k - 2 /\ raw[i + 1] = 3 * k - 1
  <2>. HIDE DEF i
  <2>. QED  BY <1>5, <1>7
<1>9. StartsSegment(raw, i)
  <2>1. CASE from = 3 * k - 3
    <3>1. Len(p) = 0
      BY <2>1, <1>4
    <3>. QED  BY <2>1, <3>1, <1>1 DEF StartsSegment
  <2>2. CASE from < 3 * k - 3
    <3>. DEFINE j == i - 1
    <3>1. j \in 1..Len(raw) /\ ~(j <= Len(p)) /\ from + (j - Len(p)) = 3 * k - 3
      BY <2>2, <1>1, <1>5, <1>7
    <3>. HIDE DEF i, j
    <3>2. raw[j] = 3 * k - 3
      BY <3>1, <1>5
    <3>3. IsNewline(raw[j])
      BY <3>2, <1>1, Thirds
    <3>. QED  BY <3>3 DEF StartsSegment, j
  <2>. QED  BY <2>1, <2>2, <1>1, <1>3
<1>10. i + 1 < Len(raw) => IsNewline(raw[i + 2])
  <2>. SUFFICES ASSUME i + 1 < Len(raw)  PROVE IsNewline(raw[i + 2])
    OBVIOUS
  <2>. HIDE DEF i
  <2>0. Len(raw) \in Nat /\ Len(p) \in Nat /\ i \in Int /\ i >= 1
    BY <1>5, <1>7
  <2>1. i + 2 \in 1..Len(raw) /\ i + 2 > Len(p) /\ from + ((i + 2) - Len(p)) = 3 * k
    BY <1>1, <2>0, <1>7
  <2>2. raw[i + 2] = from + ((i + 2) - Len(p))
    BY <2>1, <1>5, <1>7
  <2>. QED  BY <2>1, <2>2, <1>1, Thirds
<1>11. WholeLineAt(raw, i)
  <2>1. i < Len(raw)
    BY <1>7, <1>5
  <2>2. (3 * k - 2) % 3 = 1 /\ 3 * k - 1 = (3 * k - 2) + 1
    BY <1>1, Thirds
  <2>. HIDE DEF i
  <2>. QED  BY <2>1, <2>2, <1>8, <1>9, <1>10 DEF WholeLineAt
<1>. HIDE DEF i
<1>. QED  BY <1>1, <1>5, <1>6, <1>7, <1>8, <1>11, EntriesAre

\* The pending text a read leaves fits the offset it leaves.
LEMMA ReadFits ==
  ASSUME NEW from \in Nat, NEW size \in Nat, from <= size, NEW p \in Seq(Int),
         NEW t, Fits(from, p, t), TornAt(size) \subseteq t
  PROVE  LET r == ParseIncremental(from, p, size)
         IN  Fits(After(from, r), r.pending, t)
<1>. DEFINE r   == ParseIncremental(from, p, size)
            raw == Raw(from, p, size)
            o   == After(from, r)
<1>1. TornAt(o) \subseteq t /\ o \in {from, size}
  <2>1. r.offset \in {from, size}
    BY ParseIs
  <2>2. o \in {from, size}
    BY <2>1 DEF After
  <2>3. TornAt(from) \subseteq t
    BY DEF Fits
  <2>. HIDE DEF o
  <2>. QED  BY <2>2, <2>3
<1>2. ASSUME NEW k \in Lines, o = 3 * k - 3, r.pending # <<>>, k \notin t \cup Silent
      PROVE  FALSE
  <2>1. k \in Int
    BY LinesAreInts
  <2>2. CASE r.entries = {}
    <3>1. o = from
      BY <2>2 DEF After
    <3>2. p = <<>>
      BY <3>1, <1>2 DEF Fits
    <3>3. from < size
      <4>1. from = size => r.pending = p
        BY ParseIs
      <4>. QED  BY <4>1, <3>2, <1>2
    <3>4. size # 3 * k - 2
      BY <1>2 DEF TornAt
    <3>5. 3 * k - 1 <= size /\ ~(3 * k - 1 <= from)
      BY <2>1, <3>1, <3>3, <3>4, <1>2
    <3>6. k \in CompleteAt(from) \cup r.entries
      BY <3>5, <1>2, ReadPasses DEF CompleteAt
    <3>. QED  BY <3>6, <2>2, <3>5 DEF CompleteAt
  <2>3. CASE r.entries # {}
    <3>1. o = size /\ from < size
      BY <2>3, ParseIs DEF After
    <3>2. /\ raw \in Seq(Int) /\ Len(raw) = Len(p) + (size - from) /\ Len(p) \in Nat
          /\ \A i \in 1..Len(raw) : raw[i] = IF i <= Len(p) THEN p[i] ELSE from + (i - Len(p))
      BY RawIs
    <3>3. r.pending = Rest(raw)
      BY <3>1, ParseIs
    <3>. HIDE DEF raw, r, o
    <3>4. Len(raw) \in 1..Len(raw) /\ Len(raw) > Len(p) /\ from + (Len(raw) - Len(p)) = size
      BY <3>1, <3>2
    <3>5. raw[Len(raw)] = size
      BY <3>2, <3>4
    <3>6. IsNewline(raw[Len(raw)])
      BY <3>1, <3>5, <1>2, <2>1, Thirds
    <3>7. PICK start \in 1..(Len(raw) + 1) :
            /\ \A j \in start..Len(raw) : ~IsNewline(raw[j])
            /\ Rest(raw) = <<>> \/ Rest(raw) = SubSeq(raw, start, Len(raw))
      BY <3>2, RestIs, Zenon
    <3>8. start = Len(raw) + 1
      BY <3>6, <3>7, <3>4
    <3>9. Rest(raw) = <<>>
      BY <3>2, <3>7, <3>8, <3>4
    <3>. QED  BY <3>3, <3>9, <1>2
  <2>. QED  BY <2>2, <2>3
<1>. HIDE DEF r, o
<1>. QED  BY <1>1, <1>2 DEF Fits, r, o

-----------------------------------------------------------------------------
(* What a read yields, and in which order *)

\* Pending text comes from the first n units, ends no line, and is not a
\* whole line.
Clean(p, n) ==
    /\ \A i \in 1..Len(p) : p[i] <= n /\ ~IsNewline(p[i])
    /\ ~WholeLineAt(p, 1)

\* Line k lies before the offset, and before whatever is pending.
Behind(k, o, p) == 3 * k - 1 <= o /\ \A i \in 1..Len(p) : p[i] > 3 * k - 1

LEMMA RestComesFrom ==
  ASSUME NEW raw \in Seq(Int)
  PROVE  \A i \in 1..Len(Rest(raw)) : \E j \in 1..Len(raw) : Rest(raw)[i] = raw[j]
<1>1. PICK start \in 1..(Len(raw) + 1) :
            Rest(raw) = <<>> \/ Rest(raw) = SubSeq(raw, start, Len(raw))
  BY RestIs, Zenon
<1>2. CASE Rest(raw) = <<>>
  BY <1>2
<1>3. CASE Rest(raw) = SubSeq(raw, start, Len(raw))
  <2>1. ASSUME NEW i \in 1..Len(Rest(raw))
        PROVE  start + i - 1 \in 1..Len(raw) /\ Rest(raw)[i] = raw[start + i - 1]
    BY <1>3, TailIs
  <2>. QED  BY <2>1
<1>. QED  BY <1>1, <1>2, <1>3

LEMMA RestIsClean ==
  ASSUME NEW raw \in Seq(Int), NEW n \in Int, \A i \in 1..Len(raw) : raw[i] <= n
  PROVE  Clean(Rest(raw), n)
<1>1. PICK start \in 1..(Len(raw) + 1) :
            /\ \A j \in start..Len(raw) : ~IsNewline(raw[j])
            /\ \/ Rest(raw) = <<>>
               \/ /\ Rest(raw) = SubSeq(raw, start, Len(raw))
                  /\ ~WholeLineAt(Rest(raw), 1)
  BY RestIs, Zenon
<1>2. CASE Rest(raw) = <<>>
  BY <1>2 DEF Clean, WholeLineAt
<1>3. CASE Rest(raw) = SubSeq(raw, start, Len(raw)) /\ ~WholeLineAt(Rest(raw), 1)
  <2>1. ASSUME NEW i \in 1..Len(Rest(raw))
        PROVE  /\ start + i - 1 \in start..Len(raw) /\ start + i - 1 \in 1..Len(raw)
               /\ Rest(raw)[i] = raw[start + i - 1]
    BY <1>3, TailIs
  <2>. QED  BY <1>1, <1>3, <2>1 DEF Clean
<1>. QED  BY <1>1, <1>2, <1>3

\* A line that was behind stays behind, and what is read comes after it.
LEMMA BehindStays ==
  ASSUME NEW from \in Nat, NEW size \in Nat, from <= size, NEW p \in Seq(Int),
         NEW k \in Int, Behind(k, from, p)
  PROVE  LET r == ParseIncremental(from, p, size)
         IN  Behind(k, After(from, r), r.pending) /\ \A l \in r.entries : k < l
<1>. DEFINE r   == ParseIncremental(from, p, size)
            raw == Raw(from, p, size)
<1>1. After(from, r) \in {from, size}
  BY ParseIs DEF After
<1>2. CASE from = size
  <2>1. r.entries = {} /\ r.pending = p
    BY <1>2, ParseIs
  <2>. QED  BY <1>1, <1>2, <2>1
<1>3. CASE from < size
  <2>1. r.entries = EntriesIn(raw) /\ r.pending = Rest(raw) /\ r.entries \in SUBSET Int
    BY <1>3, ParseIs
  <2>2. /\ raw \in Seq(Int) /\ Len(raw) = Len(p) + (size - from) /\ Len(p) \in Nat
        /\ \A i \in 1..Len(raw) : raw[i] = IF i <= Len(p) THEN p[i] ELSE from + (i - Len(p))
    BY RawIs
  <2>. HIDE DEF r, raw
  <2>3. ASSUME NEW i \in 1..Len(raw)  PROVE raw[i] > 3 * k - 1
    <3>1. CASE i <= Len(p)
      BY <2>2, <3>1 DEF Behind
    <3>2. CASE ~(i <= Len(p))
      <4>1. raw[i] = from + (i - Len(p)) /\ i - Len(p) > 0 /\ from >= 3 * k - 1
        BY <2>2, <3>2 DEF Behind
      <4>. QED  BY <4>1, <2>2
    <3>. QED  BY <3>1, <3>2
  <2>4. ASSUME NEW l \in r.entries  PROVE k < l
    <3>1. PICK i \in 1..Len(raw) : raw[i] = 3 * l - 2
      BY <2>1, <2>2, EntriesAre
    <3>2. l \in Int /\ 3 * l - 2 > 3 * k - 1
      BY <2>1, <2>3, <3>1
    <3>. QED  BY <3>2
  <2>5. \A i \in 1..Len(r.pending) : r.pending[i] > 3 * k - 1
    BY <2>1, <2>2, <2>3, RestComesFrom
  <2>6. 3 * k - 1 <= After(from, r)
    BY <1>1, <1>3 DEF Behind
  <2>. QED  BY <2>4, <2>5, <2>6 DEF Behind, r
<1>. QED  BY <1>2, <1>3

\* Every line read is behind when the offset has moved over the text.
LEMMA ReadIsBehind ==
  ASSUME NEW from \in Nat, NEW size \in Nat, from <= size, NEW p \in Seq(Int), Clean(p, size)
  PROVE  LET r == ParseIncremental(from, p, size)
         IN  Clean(r.pending, size) /\ \A k \in r.entries : Behind(k, size, r.pending)
<1>. DEFINE r   == ParseIncremental(from, p, size)
            raw == Raw(from, p, size)
<1>1. CASE from = size
  <2>1. r.entries = {} /\ r.pending = p
    BY <1>1, ParseIs
  <2>. QED  BY <2>1
<1>2. CASE from < size
  <2>1. r.entries = EntriesIn(raw) /\ r.pending = Rest(raw) /\ r.entries \in SUBSET Int
    BY <1>2, ParseIs
  <2>2. /\ raw \in Seq(Int) /\ Len(raw) = Len(p) + (size - from) /\ Len(p) \in Nat
        /\ \A i \in 1..Len(raw) : raw[i] = IF i <= Len(p) THEN p[i] ELSE from + (i - Len(p))
    BY RawIs
  <2>. HIDE DEF r, raw
  <2>20. Len(raw) \in Nat /\ Len(p) \in Nat /\ Len(p) < Len(raw)
    BY <1>2, <2>2
  <2>21. \A i \in 1..Len(p) : i \in 1..Len(raw) /\ raw[i] = p[i]
    BY <2>2, <2>20
  <2>22. \A i \in 1..Len(raw) : i > Len(p) => raw[i] = from + (i - Len(p))
    BY <2>2, <2>20
  <2>3. \A i \in 1..Len(raw) : raw[i] <= size
    <3>1. ASSUME NEW i \in 1..Len(raw)  PROVE raw[i] <= size
      <4>1. CASE i <= Len(p)
        BY <2>2, <4>1 DEF Clean
      <4>2. CASE ~(i <= Len(p))
        BY <2>2, <4>2
      <4>. QED  BY <4>1, <4>2
    <3>. QED  BY <3>1
  <2>4. Clean(r.pending, size)
    BY <2>1, <2>2, <2>3, RestIsClean
  <2>5. ASSUME NEW k \in r.entries  PROVE Behind(k, size, r.pending)
    <3>1. PICK i \in 1..Len(raw) : WholeLineAt(raw, i) /\ raw[i] = 3 * k - 2
      BY <2>1, <2>2, EntriesAre
    <3>2. k \in Int
      BY <2>1
    <3>3. /\ i + 1 \in 1..Len(raw) /\ raw[i + 1] = 3 * k - 1
      BY <2>2, <3>1, <3>2 DEF WholeLineAt
    <3>4. 3 * k - 1 <= size
      BY <2>3, <3>3
    <3>5. PICK start \in 1..(Len(raw) + 1) :
            /\ StartsSegment(raw, start)
            /\ \A j \in start..Len(raw) : ~IsNewline(raw[j])
            /\ \/ Rest(raw) = <<>>
               \/ /\ Rest(raw) = SubSeq(raw, start, Len(raw))
                  /\ ~WholeLineAt(Rest(raw), 1)
            /\ WholeLineAt(SubSeq(raw, start, Len(raw)), 1) => Rest(raw) = <<>>
      BY <2>2, RestIs, Zenon
    <3>. SUFFICES ASSUME Rest(raw) # <<>>
                  PROVE  \A j \in 1..Len(Rest(raw)) : Rest(raw)[j] > 3 * k - 1
      BY <2>1, <3>4 DEF Behind
    <3>. DEFINE last == SubSeq(raw, start, Len(raw))
    <3>6. /\ last = Rest(raw) /\ Len(last) = Len(raw) - start + 1
          /\ \A j \in 1..Len(last) : last[j] = raw[start + j - 1]
      BY <2>2, <3>5, TailIs
    <3>7. ~WholeLineAt(last, 1)
      BY <3>5, <3>6
    <3>. HIDE DEF last
    \* The line does not lie in the last segment, or that would be whole.
    <3>8. i < start
      <4>. SUFFICES ASSUME i >= start  PROVE FALSE
        BY <2>2
      <4>1. i = start
        <5>. SUFFICES ASSUME i > start  PROVE FALSE
          BY <2>2
        <5>1. i - 1 \in start..Len(raw) /\ i # 1
          BY <2>2
        <5>. QED  BY <5>1, <3>1, <3>5 DEF WholeLineAt, StartsSegment
      <4>2. i + 1 < Len(raw) => i + 2 \in start..Len(raw)
        BY <2>2, <4>1
      <4>3. i + 1 = Len(raw)
        <5>1. ~(i + 1 < Len(raw))
          BY <4>2, <3>1, <3>5 DEF WholeLineAt
        <5>. QED  BY <5>1, <3>3, <2>2
      <4>4. Len(last) = 2 /\ last[1] = raw[i] /\ last[2] = raw[i + 1]
        <5>1. Len(last) = 2 /\ start + 1 - 1 = i /\ start + 2 - 1 = i + 1
          BY <3>6, <4>1, <4>3, <2>20
        <5>2. 1 \in 1..Len(last) /\ 2 \in 1..Len(last)
          BY <5>1
        <5>. QED  BY <3>6, <5>1, <5>2
      <4>5. WholeLineAt(last, 1)
        BY <4>4, <3>1, <3>3, <3>2, Thirds DEF WholeLineAt, StartsSegment
      <4>. QED  BY <4>5, <3>7
    <3>9. start > Len(p) + 1
      <4>. SUFFICES ASSUME start <= Len(p) + 1  PROVE FALSE
        BY <2>20
      <4>. DEFINE j == start - 1
      <4>1. j \in 1..Len(p) /\ start # 1
        BY <3>8, <2>20
      <4>2. IsNewline(raw[j])
        BY <3>5, <4>1 DEF StartsSegment
      <4>. HIDE DEF j
      <4>. QED  BY <4>1, <4>2, <2>21 DEF Clean
    \* The line ends before the last segment starts ...
    <3>10. i + 1 < start
      <4>. SUFFICES ASSUME start = i + 1  PROVE FALSE
        BY <3>8, <2>2
      <4>1. IsNewline(raw[i])
        BY <3>5 DEF StartsSegment
      <4>. QED  BY <4>1, <3>1, <3>2, Thirds
    \* ... and its second unit is new, or lies before all that is new.
    <3>11. ASSUME NEW j \in 1..Len(last)  PROVE last[j] > 3 * k - 1
      <4>. DEFINE m == start + j - 1
      <4>1. m \in 1..Len(raw) /\ m > i + 1 /\ m > Len(p) /\ m \in Int
        <5>1. j \in Int /\ j >= 1 /\ j <= Len(raw) - start + 1
          BY <3>6, <2>20
        <5>. QED  BY <5>1, <2>20, <3>9, <3>10
      <4>0. last[j] = raw[m]
        BY <3>6
      <4>. HIDE DEF m
      <4>2. raw[m] = from + (m - Len(p))
        BY <2>22, <4>1
      <4>3. CASE i + 1 > Len(p)
        <5>1. raw[i + 1] = from + ((i + 1) - Len(p))
          BY <2>22, <3>3, <4>3
        <5>. QED  BY <5>1, <4>0, <4>1, <4>2, <3>3, <2>20
      <4>4. CASE i + 1 <= Len(p)
        \* A whole line cannot lie in pending text that is clean.
        <5>1. i = 1
          <6>. SUFFICES ASSUME i # 1  PROVE FALSE
            OBVIOUS
          <6>. DEFINE h == i - 1
          <6>1. h \in 1..Len(p)
            BY <4>4, <2>20
          <6>2. IsNewline(raw[h])
            BY <3>1 DEF WholeLineAt, StartsSegment
          <6>. HIDE DEF h
          <6>. QED  BY <6>1, <6>2, <2>21 DEF Clean
        <5>20. Len(p) >= 2
          BY <4>4, <5>1
        <5>2. p[1] = raw[1] /\ p[2] = raw[2]
          <6>1. 1 \in 1..Len(p) /\ 2 \in 1..Len(p)
            BY <5>20, <2>20
          <6>. QED  BY <6>1, <2>21
        <5>3. Len(p) = 2
          <6>1. ASSUME Len(p) > 2  PROVE FALSE
            <7>1. 3 \in 1..Len(p) /\ 2 < Len(raw)
              BY <6>1, <2>20
            <7>2. raw[3] = p[3]
              BY <7>1, <2>21
            <7>3. IsNewline(raw[3])
              BY <3>1, <5>1, <7>1 DEF WholeLineAt
            <7>. QED  BY <7>1, <7>2, <7>3 DEF Clean
          <6>2. \A n \in Nat : n >= 2 /\ ~(n > 2) => n = 2
            OBVIOUS
          <6>. QED  BY <6>1, <6>2, <5>20, <2>20, Zenon
        <5>4. WholeLineAt(p, 1)
          BY <5>1, <5>2, <5>3, <3>1 DEF WholeLineAt, StartsSegment
        <5>. QED  BY <5>4 DEF Clean
      <4>. QED  BY <4>3, <4>4, <2>20
    <3>. QED  BY <3>6, <3>11
  <2>. QED  BY <2>4, <2>5 DEF r
<1>. QED  BY <1>1, <1>2

-----------------------------------------------------------------------------
(* Watchers and subscriptions *)

ReadResult == [entries : SUBSET Int, offset : Nat, pending : Seq(Int)]
WatcherState ==
    [offset : Nat, pending : Seq(Int), subs : SUBSET Subs, fs : {"open", "closed"},
     timer : BOOLEAN, retries : Nat, retryDue : BOOLEAN, leaked : BOOLEAN,
     step : {"idle", "reading", "read"}, again : BOOLEAN, result : ReadResult,
     sent : Seq(SUBSET Int), noticed : Nat]
Subscription ==
    [phase : {"off", "stat", "read", "relate", "on"}, watcher : Nat, new : BOOLEAN,
     early : BOOLEAN, size : Nat, init : SUBSET Int, got : SUBSET Int, failed : BOOLEAN]

Typed ==
    /\ written \in Nat /\ torn \subseteq Lines
    /\ live \in Seq(WatcherState) /\ current \in 0..Len(live)
    /\ sub \in [Subs -> Subscription]

\* Whoever subscribes is in the subscribers of the current watcher.
Placed ==
    /\ Typed
    /\ \A s \in Subs : sub[s].phase # "off" => current # 0 /\ sub[s].watcher = current
    /\ \A w \in Watchers :
         live[w].subs = {s \in Subs : sub[s].phase # "off" /\ sub[s].watcher = w}
    /\ current # 0 => live[current].subs # {}

\* Only watcher w changes, or only subscriber s.
Changes(w) ==
    /\ live' \in Seq(WatcherState) /\ Len(live') = Len(live)
    /\ \A v \in Watchers : v # w => live'[v] = live[v]
Turns(s) ==
    /\ sub' \in [Subs -> Subscription]
    /\ \A t \in Subs : t # s => sub'[t] = sub[t]

\* What one watcher, or one subscription, has in common with another.
SameWatch(q, p) ==
    /\ q.fs = p.fs /\ q.retries = p.retries /\ q.retryDue = p.retryDue
    /\ q.leaked = p.leaked
SameText(q, p)  == q.offset = p.offset /\ q.pending = p.pending /\ q.sent = p.sent
SameRead(q, p)  == q.step = p.step /\ q.again = p.again /\ q.result = p.result
SameTimer(q, p) == q.timer = p.timer /\ q.noticed = p.noticed
SameRole(q, p)  == q.watcher = p.watcher /\ q.new = p.new /\ q.early = p.early

LEMMA Indices ==
  ASSUME Typed
  PROVE  /\ Len(live) \in Nat /\ Watchers = 1..Len(live) /\ Watchers \subseteq Nat
         /\ \A w \in Watchers : live[w] \in WatcherState
  BY DEF Typed, Watchers

LEMMA WatcherChanges ==
  ASSUME Typed, NEW w \in Watchers, NEW q \in WatcherState, live' = [live EXCEPT ![w] = q]
  PROVE  Changes(w) /\ live'[w] = q
  BY DEF Typed, Changes, Watchers

LEMMA SubscriberTurns ==
  ASSUME Typed, NEW s \in Subs, NEW r \in Subscription, sub' = [sub EXCEPT ![s] = r]
  PROVE  Turns(s) /\ sub'[s] = r
  BY DEF Typed, Turns

LEMMA CurrentIs ==
  ASSUME Placed, NEW s \in Subs, sub[s].phase # "off"
  PROVE  /\ sub[s].watcher = current /\ current \in Watchers /\ s \in live[current].subs
         /\ sub[s].watcher \in Watchers
  BY Indices DEF Placed, Typed

LEMMA EntriesOfLines ==
  ASSUME NEW n \in Int
  PROVE  CompleteAt(n) \ Silent \in SUBSET Int /\ CompleteAt(n) \subseteq Lines
  BY LinesAreInts DEF CompleteAt

LEMMA NothingIs == Nothing \in ReadResult /\ Nothing.entries = {} /\ Nothing.offset = 0
  BY DEF Nothing, ReadResult

LEMMA NewWatcherIs ==
  ASSUME NEW s \in Subs
  PROVE  [NewWatcher EXCEPT !.subs = {s}] \in WatcherState
<1>1. <<>> \in Seq(Int) /\ <<>> \in Seq(SUBSET Int)
  OBVIOUS
<1>. QED  BY <1>1, NothingIs DEF NewWatcher, WatcherState

LEMMA UnsubscribedIs == Unsubscribed \in Subscription
  BY DEF Unsubscribed, Subscription

\* What each action does to the watcher and the subscriber it is about.
LEMMA AgentWritesDoes ==
  ASSUME Typed, AgentWrites
  PROVE  /\ written' \in Nat /\ written' > written
         /\ live' \in Seq(WatcherState) /\ Len(live') = Len(live)
         /\ \A w \in Watchers :
              IF live[w].fs = "open"
              THEN /\ live'[w].subs = live[w].subs /\ SameWatch(live'[w], live[w])
                   /\ SameText(live'[w], live[w]) /\ SameRead(live'[w], live[w])
                   /\ live'[w].timer = TRUE /\ live'[w].noticed = written'
              ELSE live'[w] = live[w]
         /\ UNCHANGED <<current, sub, torn>>
<1>1. PICK n \in Chunks : written + n \in Units /\ written' = written + n
  BY DEF AgentWrites
<1>2. n \in Nat /\ n > 0
  BY WatchAssumption
<1>3. written' \in Nat /\ written' > written
  BY <1>1, <1>2 DEF Typed
<1>. DEFINE N(w) == IF live[w].fs = "open"
                    THEN [live[w] EXCEPT !.timer = TRUE, !.noticed = written']
                    ELSE live[w]
<1>4. \A w \in Watchers : N(w) \in WatcherState
  BY <1>3, Indices DEF WatcherState
<1>5. live' = [w \in 1..Len(live) |-> N(w)]
  BY Indices DEF AgentWrites
<1>6. UNCHANGED <<current, sub, torn>>
  BY DEF AgentWrites
<1>9. \A w \in Watchers :
         IF live[w].fs = "open"
         THEN /\ N(w).subs = live[w].subs /\ SameWatch(N(w), live[w])
              /\ SameText(N(w), live[w]) /\ SameRead(N(w), live[w])
              /\ N(w).timer = TRUE /\ N(w).noticed = written'
         ELSE N(w) = live[w]
  BY Indices DEF WatcherState, SameWatch, SameText, SameRead
<1>. HIDE DEF N
<1>7. live' \in Seq(WatcherState) /\ Len(live') = Len(live)
  BY <1>4, <1>5, Indices
<1>8. \A w \in Watchers : live'[w] = N(w)
  BY <1>5, Indices
<1>. QED  BY <1>3, <1>6, <1>7, <1>8, <1>9

LEMMA SubscribeDoes ==
  ASSUME Placed, NEW s \in Subs, SubscribeLive(s)
  PROVE  LET w == IF current = 0 THEN Len(live) + 1 ELSE current
         IN  /\ sub[s].phase = "off" /\ Turns(s) /\ sub'[s] = Joined(w) /\ current' = w
             /\ live' \in Seq(WatcherState)
             /\ Len(live') = IF current = 0 THEN Len(live) + 1 ELSE Len(live)
             /\ current = 0 => live'[w] = [NewWatcher EXCEPT !.subs = {s}]
             /\ current # 0 => /\ live'[w].subs = live[w].subs \cup {s}
                               /\ SameWatch(live'[w], live[w]) /\ SameText(live'[w], live[w])
                               /\ SameRead(live'[w], live[w]) /\ SameTimer(live'[w], live[w])
             /\ \A v \in Watchers : v # w => live'[v] = live[v]
             /\ UNCHANGED <<written, torn>>
<1>. DEFINE w == IF current = 0 THEN Len(live) + 1 ELSE current
<1>1. Typed /\ w \in Nat /\ Len(live) \in Nat
  BY Indices DEF Placed, Typed
<1>2. /\ sub[s].phase = "off" /\ current' = w /\ UNCHANGED <<written, torn>>
      /\ sub' = [sub EXCEPT ![s] = Joined(w)]
      /\ live' = IF current = 0 THEN Append(live, [NewWatcher EXCEPT !.subs = {s}])
                 ELSE [live EXCEPT ![w].subs = @ \cup {s}]
  BY DEF SubscribeLive
<1>. HIDE DEF w
<1>3. Joined(w) \in Subscription
  BY <1>1 DEF Joined, StillReading, Unsubscribed, Subscription
<1>4. Turns(s) /\ sub'[s] = Joined(w)
  BY <1>1, <1>2, <1>3, SubscriberTurns
<1>5. CASE current = 0
  <2>1. [NewWatcher EXCEPT !.subs = {s}] \in WatcherState
    BY NewWatcherIs
  <2>. DEFINE r == [NewWatcher EXCEPT !.subs = {s}]
  <2>2. live' = Append(live, r) /\ live \in Seq(WatcherState) /\ w = Len(live) + 1
    BY <1>1, <1>2, <1>5 DEF w, Typed
  <2>. HIDE DEF r
  <2>3. /\ live' \in Seq(WatcherState) /\ Len(live') = Len(live) + 1 /\ live'[w] = r
        /\ \A v \in 1..Len(live) : live'[v] = live[v]
    BY <2>1, <2>2 DEF r
  <2>. QED  BY <1>2, <1>4, <1>5, <2>3 DEF w, r, Watchers
<1>6. CASE current # 0
  <2>. DEFINE u == live[w].subs \cup {s}
              r == [live[w] EXCEPT !.subs = u]
  <2>1. w \in Watchers /\ w = current /\ live[w] \in WatcherState
    BY <1>1, <1>6, Indices DEF w, Typed
  <2>2. u \in SUBSET Subs
    BY <2>1 DEF WatcherState
  <2>3. live' = [live EXCEPT ![w] = r]
    BY <1>2, <1>6
  <2>. HIDE DEF u
  <2>4. r \in WatcherState
    BY <2>1, <2>2 DEF WatcherState
  <2>5. /\ r.subs = u /\ SameWatch(r, live[w]) /\ SameText(r, live[w])
        /\ SameRead(r, live[w]) /\ SameTimer(r, live[w])
    BY <2>1 DEF WatcherState, SameWatch, SameText, SameRead, SameTimer
  <2>. HIDE DEF r
  <2>6. Changes(w) /\ live'[w] = r
    BY <1>1, <2>1, <2>3, <2>4, WatcherChanges
  <2>. QED  BY <1>2, <1>4, <1>6, <2>5, <2>6 DEF w, u, Changes
<1>. QED  BY <1>5, <1>6

LEMMA StatDoes ==
  ASSUME Placed, NEW s \in Subs, Stat(s)
  PROVE  /\ sub[s].phase = "stat" /\ UNCHANGED <<written, live, current, torn>>
         /\ Turns(s) /\ sub'[s].phase = "read" /\ sub'[s].size \in {written, 0}
         /\ SameRole(sub'[s], sub[s])
         /\ sub'[s].got = sub[s].got /\ sub'[s].init = sub[s].init
<1>. DEFINE n == IF sub[s].new THEN written ELSE 0
            r == [sub[s] EXCEPT !.phase = "read", !.size = n]
<1>1. Typed /\ sub[s] \in Subscription /\ n \in Nat /\ n \in {written, 0}
  BY DEF Placed, Typed
<1>2. sub' = [sub EXCEPT ![s] = r]
  BY DEF Stat
<1>. HIDE DEF n
<1>3. /\ r \in Subscription /\ r.phase = "read" /\ r.size = n /\ SameRole(r, sub[s])
      /\ r.got = sub[s].got /\ r.init = sub[s].init
  BY <1>1 DEF Subscription, SameRole
<1>. HIDE DEF r
<1>4. Turns(s) /\ sub'[s] = r
  BY <1>1, <1>2, <1>3, SubscriberTurns
<1>. QED  BY <1>1, <1>3, <1>4 DEF Stat

LEMMA ReadTailDoes ==
  ASSUME Placed, NEW s \in Subs, ReadTail(s)
  PROVE  /\ sub[s].phase = "read" /\ UNCHANGED <<written, current>>
         /\ Turns(s) /\ sub'[s].phase = "relate" /\ sub'[s].init = CompleteAt(written) \ Silent
         /\ SameRole(sub'[s], sub[s]) /\ sub'[s].size = sub[s].size
         /\ sub'[s].got = sub[s].got
         /\ sub[s].new =>
              /\ Changes(current) /\ torn' = torn \cup TornAt(sub[s].size)
              /\ live'[current].offset = sub[s].size /\ live'[current].fs = "open"
              /\ live'[current].subs = live[current].subs
              /\ live'[current].pending = live[current].pending
              /\ live'[current].sent = live[current].sent
              /\ live'[current].retries = live[current].retries
              /\ live'[current].retryDue = live[current].retryDue
              /\ live'[current].leaked = live[current].leaked
              /\ SameRead(live'[current], live[current])
              /\ SameTimer(live'[current], live[current])
         /\ ~sub[s].new => UNCHANGED <<live, torn>>
<1>. DEFINE e == CompleteAt(written) \ Silent
            n == sub[s].size
            r == [sub[s] EXCEPT !.phase = "relate", !.init = e]
            q == [live[current] EXCEPT !.offset = n, !.fs = "open"]
<1>1. /\ Typed /\ current \in Watchers /\ sub[s].watcher = current /\ sub[s] \in Subscription
      /\ live[current] \in WatcherState /\ written \in Int
  BY CurrentIs, Indices DEF ReadTail, Placed, Typed
<1>2. e \in SUBSET Int /\ n \in Nat
  BY <1>1, EntriesOfLines DEF Subscription
<1>3. sub' = [sub EXCEPT ![s] = r]
  BY DEF ReadTail
<1>4. ASSUME sub[s].new  PROVE live' = [live EXCEPT ![current] = q]
  <2>1. live' = Open([live EXCEPT ![current].offset = sub[s].size], current)
    BY <1>1, <1>4 DEF ReadTail
  <2>. QED  BY <1>1, <2>1 DEF Open, Typed, Watchers
<1>. HIDE DEF e, n
<1>5. /\ r \in Subscription /\ r.phase = "relate" /\ r.init = e /\ SameRole(r, sub[s])
      /\ r.size = sub[s].size /\ r.got = sub[s].got
  BY <1>1, <1>2 DEF Subscription, SameRole
<1>6. /\ q \in WatcherState /\ q.offset = n /\ q.fs = "open" /\ q.subs = live[current].subs
      /\ q.pending = live[current].pending /\ q.sent = live[current].sent
      /\ q.retries = live[current].retries /\ q.retryDue = live[current].retryDue
      /\ q.leaked = live[current].leaked
      /\ SameRead(q, live[current]) /\ SameTimer(q, live[current])
  BY <1>1, <1>2 DEF WatcherState, SameRead, SameTimer
<1>. HIDE DEF r, q
<1>7. Turns(s) /\ sub'[s] = r
  BY <1>1, <1>3, <1>5, SubscriberTurns
<1>8. sub[s].new => Changes(current) /\ live'[current] = q
  BY <1>1, <1>4, <1>6, WatcherChanges
<1>. QED  BY <1>5, <1>6, <1>7, <1>8 DEF ReadTail, e, n

LEMMA TailFailsDoes ==
  ASSUME Placed, NEW s \in Subs, TailFails(s)
  PROVE  /\ sub[s].phase \in {"stat", "read"} /\ UNCHANGED <<written, current, torn>>
         /\ Turns(s) /\ sub'[s].phase = "relate" /\ sub'[s].failed
         /\ SameRole(sub'[s], sub[s]) /\ sub'[s].size = sub[s].size
         /\ sub'[s].got = sub[s].got /\ sub'[s].init = sub[s].init
         /\ sub[s].new =>
              /\ Changes(current) /\ live'[current].fs = "open"
              /\ live'[current].subs = live[current].subs
              /\ live'[current].retries = live[current].retries
              /\ live'[current].retryDue = live[current].retryDue
              /\ live'[current].leaked = live[current].leaked
              /\ SameText(live'[current], live[current]) /\ SameRead(live'[current], live[current])
              /\ SameTimer(live'[current], live[current])
         /\ ~sub[s].new => UNCHANGED live
<1>. DEFINE r == [sub[s] EXCEPT !.phase = "relate", !.failed = TRUE]
            q == [live[current] EXCEPT !.fs = "open"]
<1>1. /\ Typed /\ current \in Watchers /\ sub[s].watcher = current /\ sub[s] \in Subscription
      /\ live[current] \in WatcherState
  BY CurrentIs, Indices DEF TailFails, Placed, Typed
<1>2. sub' = [sub EXCEPT ![s] = r]
  BY DEF TailFails
<1>3. ASSUME sub[s].new  PROVE live' = [live EXCEPT ![current] = q]
  BY <1>1, <1>3 DEF TailFails, Open
<1>4. /\ r \in Subscription /\ r.phase = "relate" /\ r.failed = TRUE /\ SameRole(r, sub[s])
      /\ r.size = sub[s].size /\ r.got = sub[s].got /\ r.init = sub[s].init
  BY <1>1 DEF Subscription, SameRole
<1>5. /\ q \in WatcherState /\ q.fs = "open" /\ q.subs = live[current].subs
      /\ q.retries = live[current].retries /\ q.retryDue = live[current].retryDue
      /\ q.leaked = live[current].leaked
      /\ SameText(q, live[current]) /\ SameRead(q, live[current]) /\ SameTimer(q, live[current])
  BY <1>1 DEF WatcherState, SameText, SameRead, SameTimer
<1>. HIDE DEF r, q
<1>6. Turns(s) /\ sub'[s] = r
  BY <1>1, <1>2, <1>4, SubscriberTurns
<1>7. sub[s].new => Changes(current) /\ live'[current] = q
  BY <1>1, <1>3, <1>5, WatcherChanges
<1>. QED  BY <1>4, <1>5, <1>6, <1>7 DEF TailFails

\* The subscribers of w that are told of a failure.
LEMMA FailedForDoes ==
  ASSUME Placed, NEW w \in Watchers
  PROVE  /\ FailedFor(w) \in [Subs -> Subscription]
         /\ \A s \in Subs : /\ s \in live[w].subs => FailedFor(w)[s].failed
                            /\ s \notin live[w].subs => FailedFor(w)[s] = sub[s]
                            /\ FailedFor(w)[s].phase = sub[s].phase
                            /\ FailedFor(w)[s].size = sub[s].size
                            /\ FailedFor(w)[s].init = sub[s].init
                            /\ FailedFor(w)[s].got = sub[s].got
                            /\ SameRole(FailedFor(w)[s], sub[s])
<1>1. \A s \in Subs : sub[s] \in Subscription
  BY DEF Placed, Typed
<1>. DEFINE F(s) == [sub[s] EXCEPT !.failed = TRUE]
<1>2. \A s \in Subs : /\ F(s) \in Subscription /\ F(s).failed = TRUE /\ F(s).phase = sub[s].phase
                      /\ F(s).size = sub[s].size /\ F(s).init = sub[s].init
                      /\ F(s).got = sub[s].got
                      /\ SameRole(F(s), sub[s])
  BY <1>1 DEF Subscription, SameRole
<1>3. FailedFor(w) = [s \in Subs |-> IF s \in live[w].subs THEN F(s) ELSE sub[s]]
  BY DEF FailedFor
<1>4. \A s \in Subs : SameRole(sub[s], sub[s])
  BY DEF SameRole
<1>. HIDE DEF F
<1>. QED  BY <1>1, <1>2, <1>3, <1>4

LEMMA WatchFailsDoes ==
  ASSUME Placed, NEW s \in Subs, WatchFails(s)
  PROVE  /\ sub[s].phase = "read" /\ sub[s].new /\ UNCHANGED <<written, current>>
         /\ torn' = torn \cup TornAt(sub[s].size)
         /\ Changes(current) /\ live'[current].offset = sub[s].size
         /\ live'[current].subs = live[current].subs
         /\ live'[current].pending = live[current].pending
         /\ live'[current].sent = live[current].sent
         /\ SameWatch(live'[current], live[current]) /\ SameRead(live'[current], live[current])
         /\ SameTimer(live'[current], live[current])
         /\ sub' \in [Subs -> Subscription]
         /\ sub'[s].phase = "relate" /\ sub'[s].init = CompleteAt(written) \ Silent
         /\ \A t \in Subs : /\ t \in live[current].subs => sub'[t].failed
                            /\ t \notin live[current].subs => sub'[t] = sub[t]
                            /\ t # s => /\ sub'[t].phase = sub[t].phase
                                        /\ sub'[t].init = sub[t].init
                            /\ sub'[t].size = sub[t].size /\ sub'[t].got = sub[t].got
                            /\ SameRole(sub'[t], sub[t])
<1>. DEFINE f == FailedFor(current)
            e == CompleteAt(written) \ Silent
            n == sub[s].size
            q == [live[current] EXCEPT !.offset = n]
            r == [f[s] EXCEPT !.phase = "relate", !.init = e]
<1>1. /\ Typed /\ current \in Watchers /\ sub[s].watcher = current /\ sub[s] \in Subscription
      /\ s \in live[current].subs /\ live[current] \in WatcherState /\ written \in Int
  BY CurrentIs, Indices DEF WatchFails, Placed, Typed
<1>2. /\ f \in [Subs -> Subscription]
      /\ \A t \in Subs : /\ t \in live[current].subs => f[t].failed
                         /\ t \notin live[current].subs => f[t] = sub[t]
                         /\ f[t].phase = sub[t].phase /\ f[t].size = sub[t].size
                         /\ f[t].init = sub[t].init /\ f[t].got = sub[t].got
                         /\ SameRole(f[t], sub[t])
  BY <1>1, FailedForDoes
<1>3. live' = [live EXCEPT ![current] = q]
  BY <1>1 DEF WatchFails
<1>4. e \in SUBSET Int /\ n \in Nat
  BY <1>1, EntriesOfLines DEF Subscription
<1>5. sub' = [FailedFor(current) EXCEPT ![s].phase = "relate", ![s].init = CompleteAt(written) \ Silent]
  BY <1>1 DEF WatchFails
<1>. HIDE DEF f
<1>6. sub' = [f EXCEPT ![s] = r]
  BY <1>5, <1>2 DEF f
<1>. HIDE DEF e, n
<1>7. f[s] \in Subscription /\ f[s].failed
  BY <1>1, <1>2
<1>8. /\ r \in Subscription /\ r.phase = "relate" /\ r.failed = f[s].failed /\ r.size = f[s].size
      /\ r.init = e /\ r.got = f[s].got
      /\ SameRole(r, f[s])
  BY <1>4, <1>7 DEF Subscription, SameRole
<1>9. SameRole(r, sub[s])
  BY <1>2, <1>8 DEF SameRole
<1>10. /\ q \in WatcherState /\ q.offset = n /\ q.subs = live[current].subs
       /\ q.pending = live[current].pending /\ q.sent = live[current].sent
       /\ SameWatch(q, live[current]) /\ SameRead(q, live[current]) /\ SameTimer(q, live[current])
  BY <1>1, <1>4 DEF WatcherState, SameWatch, SameRead, SameTimer
<1>. HIDE DEF q, r
<1>11. Changes(current) /\ live'[current] = q
  BY <1>1, <1>3, <1>10, WatcherChanges
<1>12. /\ sub' \in [Subs -> Subscription] /\ sub'[s] = r
       /\ \A t \in Subs : t # s => sub'[t] = f[t]
  BY <1>2, <1>6, <1>8
<1>13. /\ sub'[s].phase = "relate" /\ sub'[s].init = e
       /\ \A t \in Subs : /\ t \in live[current].subs => sub'[t].failed
                          /\ t \notin live[current].subs => sub'[t] = sub[t]
                          /\ t # s => /\ sub'[t].phase = sub[t].phase
                                      /\ sub'[t].init = sub[t].init
                          /\ sub'[t].size = sub[t].size /\ sub'[t].got = sub[t].got
                          /\ SameRole(sub'[t], sub[t])
  BY <1>1, <1>2, <1>7, <1>8, <1>9, <1>12
<1>14. /\ sub[s].phase = "read" /\ sub[s].new /\ UNCHANGED <<written, current>>
       /\ torn' = torn \cup TornAt(sub[s].size)
  BY DEF WatchFails
<1>. QED  BY <1>10, <1>11, <1>12, <1>13, <1>14 DEF n, e

LEMMA ReplyDoes ==
  ASSUME Placed, NEW s \in Subs, Reply(s)
  PROVE  /\ sub[s].phase = "relate" /\ UNCHANGED <<written, live, current, torn>>
         /\ Turns(s) /\ sub'[s].phase = "on" /\ ~sub'[s].new /\ sub'[s].size = 0
         /\ sub'[s].got = sub[s].got \cup sub[s].init /\ sub'[s].init = {}
         /\ sub'[s].failed = sub[s].failed
         /\ sub'[s].watcher = sub[s].watcher /\ sub'[s].early = sub[s].early
<1>. DEFINE g == sub[s].got \cup sub[s].init
            r == [sub[s] EXCEPT !.phase = "on", !.got = g,
                                !.new = FALSE, !.size = 0, !.init = {}]
<1>1. Typed /\ sub[s] \in Subscription
  BY DEF Placed, Typed
<1>2. g \in SUBSET Int
  BY <1>1 DEF Subscription
<1>3. sub' = [sub EXCEPT ![s] = r]
  BY DEF Reply
<1>. HIDE DEF g
<1>4. /\ r \in Subscription /\ r.phase = "on" /\ r.new = FALSE /\ r.size = 0 /\ r.got = g /\ r.init = {}
      /\ r.failed = sub[s].failed /\ r.watcher = sub[s].watcher /\ r.early = sub[s].early
  BY <1>1, <1>2 DEF Subscription
<1>. HIDE DEF r
<1>5. Turns(s) /\ sub'[s] = r
  BY <1>1, <1>3, <1>4, SubscriberTurns
<1>. QED  BY <1>4, <1>5 DEF Reply, g

LEMMA UnsubscribeDoes ==
  ASSUME Placed, NEW s \in Subs, UnsubscribeLive(s)
  PROVE  LET last == live[current].subs = {s}
         IN  /\ sub[s].phase = "on" /\ Turns(s) /\ sub'[s] = Unsubscribed
             /\ current' = IF last THEN 0 ELSE current
             /\ Changes(current) /\ UNCHANGED <<written, torn>>
             /\ live'[current].subs = live[current].subs \ {s}
             /\ live'[current].fs = IF last THEN "closed" ELSE live[current].fs
             /\ live'[current].timer <=> live[current].timer /\ ~last
             /\ live'[current].retries = live[current].retries
             /\ live'[current].retryDue = live[current].retryDue
             /\ live'[current].leaked = (last /\ live[current].retryDue)
             /\ live'[current].noticed = live[current].noticed
             /\ SameText(live'[current], live[current]) /\ SameRead(live'[current], live[current])
<1>. DEFINE last == live[current].subs = {s}
            f == IF last THEN "closed" ELSE live[current].fs
            t == live[current].timer /\ ~last
            u == live[current].subs \ {s}
            k == last /\ live[current].retryDue
            q == [live[current] EXCEPT !.subs = u, !.fs = f, !.timer = t, !.leaked = k]
<1>1. /\ Typed /\ current \in Watchers /\ sub[s].watcher = current
      /\ live[current] \in WatcherState
  BY CurrentIs, Indices DEF UnsubscribeLive, Placed
<1>2. f \in {"open", "closed"} /\ u \in SUBSET Subs
  BY <1>1 DEF WatcherState
<1>3. t \in BOOLEAN /\ k \in BOOLEAN
  OBVIOUS
<1>4. live' = [live EXCEPT ![current] = q]
  BY <1>1 DEF UnsubscribeLive
<1>5. /\ sub' = [sub EXCEPT ![s] = Unsubscribed] /\ current' = IF last THEN 0 ELSE current
      /\ UNCHANGED <<written, torn>>
  BY <1>1 DEF UnsubscribeLive
<1>. HIDE DEF f, t, u, k
<1>6. /\ q \in WatcherState /\ q.subs = u /\ q.fs = f /\ q.timer = t
      /\ q.retries = live[current].retries /\ q.retryDue = live[current].retryDue
      /\ q.leaked = k
      /\ q.noticed = live[current].noticed
      /\ SameText(q, live[current]) /\ SameRead(q, live[current])
  BY <1>1, <1>2, <1>3 DEF WatcherState, SameText, SameRead
<1>. HIDE DEF q
<1>7. Changes(current) /\ live'[current] = q
  BY <1>1, <1>4, <1>6, WatcherChanges
<1>8. Turns(s) /\ sub'[s] = Unsubscribed
  BY <1>1, <1>5, UnsubscribedIs, SubscriberTurns
<1>9. q.timer <=> live[current].timer /\ ~last
  BY <1>6 DEF t
<1>. QED  BY <1>5, <1>6, <1>7, <1>8, <1>9 DEF UnsubscribeLive, f, u, k

LEMMA DebounceDoes ==
  ASSUME Placed, NEW w \in Watchers, DebounceFires(w)
  PROVE  /\ live[w].timer /\ UNCHANGED <<written, current, sub, torn>> /\ Changes(w)
         /\ live'[w].subs = live[w].subs /\ live'[w].result = live[w].result
         /\ SameWatch(live'[w], live[w]) /\ SameText(live'[w], live[w])
         /\ live'[w].step = IF live[w].step = "idle" THEN "reading" ELSE live[w].step
         /\ live'[w].again <=> live[w].again \/ live[w].step # "idle"
         /\ live'[w].noticed = live[w].noticed
<1>. DEFINE a == live[w].again \/ live[w].step # "idle"
            p == IF live[w].step = "idle" THEN "reading" ELSE live[w].step
            q == [live[w] EXCEPT !.timer = FALSE, !.again = a, !.step = p]
<1>1. Typed /\ live[w] \in WatcherState
  BY Indices DEF Placed
<1>2. p \in {"idle", "reading", "read"}
  BY <1>1 DEF WatcherState
<1>3. a \in BOOLEAN
  OBVIOUS
<1>4. live' = [live EXCEPT ![w] = q]
  BY DEF DebounceFires
<1>. HIDE DEF a, p
<1>5. /\ q \in WatcherState /\ q.subs = live[w].subs /\ q.result = live[w].result
      /\ SameWatch(q, live[w]) /\ SameText(q, live[w]) /\ q.step = p /\ q.again = a
      /\ q.noticed = live[w].noticed
  BY <1>1, <1>2, <1>3 DEF WatcherState, SameWatch, SameText
<1>. HIDE DEF q
<1>6. Changes(w) /\ live'[w] = q
  BY <1>1, <1>4, <1>5, WatcherChanges
<1>7. q.again <=> live[w].again \/ live[w].step # "idle"
  BY <1>5 DEF a
<1>. QED  BY <1>5, <1>6, <1>7 DEF DebounceFires, p

\* What a read of watcher w yields, if it does not fail.
Parsed(w) == ParseIncremental(live[w].offset, live[w].pending, written)

LEMMA ReadDoes ==
  ASSUME Placed, NEW w \in Watchers, live[w].offset <= written, Read(w)
  PROVE  /\ live[w].step = "reading" /\ UNCHANGED <<written, current, sub>> /\ Changes(w)
         /\ torn' = torn \cup TornAt(written)
         /\ Parsed(w).offset = written
         /\ live'[w].step = "read" /\ live'[w].result = Parsed(w)
         /\ live'[w].subs = live[w].subs /\ live'[w].again = live[w].again
         /\ SameWatch(live'[w], live[w]) /\ SameText(live'[w], live[w])
         /\ SameTimer(live'[w], live[w])
<1>. DEFINE x == Parsed(w)
            q == [live[w] EXCEPT !.step = "read", !.result = x]
<1>1. Typed /\ live[w] \in WatcherState
  BY Indices DEF Placed
<1>2. Parsed(w) \in ReadResult /\ Parsed(w).offset = written
  <2>1. live[w].offset \in Nat /\ live[w].pending \in Seq(Int) /\ written \in Nat
    BY <1>1 DEF WatcherState, Typed
  <2>2. /\ Parsed(w).entries \in SUBSET Int /\ Parsed(w).offset = written
        /\ Parsed(w).pending \in Seq(Int)
    BY <2>1, ParseIs DEF Parsed
  <2>3. \E e, o, p : Parsed(w) = [entries |-> e, offset |-> o, pending |-> p]
    BY Zenon DEF Parsed, ParseIncremental
  <2>. QED  BY <2>1, <2>2, <2>3 DEF ReadResult
<1>3. live' = [live EXCEPT ![w] = q]
  BY DEF Read, Parsed
<1>. HIDE DEF x
<1>4. /\ q \in WatcherState /\ q.step = "read" /\ q.result = x /\ q.subs = live[w].subs
      /\ q.again = live[w].again
      /\ SameWatch(q, live[w]) /\ SameText(q, live[w]) /\ SameTimer(q, live[w])
  <2>1. x \in ReadResult
    BY <1>2 DEF x
  <2>. QED  BY <1>1, <2>1 DEF WatcherState, SameWatch, SameText, SameTimer
<1>. HIDE DEF q
<1>5. Changes(w) /\ live'[w] = q
  BY <1>1, <1>3, <1>4, WatcherChanges
<1>. QED  BY <1>2, <1>4, <1>5 DEF Read, x

LEMMA ReadFailsDoes ==
  ASSUME Placed, NEW w \in Watchers, ReadFails(w)
  PROVE  /\ live[w].step = "reading" /\ UNCHANGED <<written, current, torn>> /\ Changes(w)
         /\ live'[w].step = "read" /\ live'[w].result.entries = {}
         /\ live'[w].result.offset = live[w].offset /\ live'[w].result.pending = live[w].pending
         /\ live'[w].subs = live[w].subs
         /\ SameWatch(live'[w], live[w]) /\ SameText(live'[w], live[w])
         /\ SameTimer(live'[w], live[w])
         /\ sub' \in [Subs -> Subscription]
         /\ \A s \in Subs : /\ s \in live[w].subs => sub'[s].failed
                            /\ s \notin live[w].subs => sub'[s] = sub[s]
                            /\ sub'[s].phase = sub[s].phase /\ sub'[s].size = sub[s].size
                            /\ sub'[s].init = sub[s].init /\ sub'[s].got = sub[s].got
                            /\ SameRole(sub'[s], sub[s])
<1>. DEFINE x == [entries |-> {}, offset |-> live[w].offset, pending |-> live[w].pending]
            q == [live[w] EXCEPT !.step = "read", !.result = x]
<1>1. Typed /\ live[w] \in WatcherState
  BY Indices DEF Placed
<1>2. /\ x \in ReadResult /\ x.entries = {} /\ x.offset = live[w].offset
      /\ x.pending = live[w].pending
  BY <1>1 DEF WatcherState, ReadResult
<1>3. live' = [live EXCEPT ![w] = q]
  BY DEF ReadFails
<1>. HIDE DEF x
<1>4. /\ q \in WatcherState /\ q.step = "read" /\ q.result = x /\ q.subs = live[w].subs
      /\ SameWatch(q, live[w]) /\ SameText(q, live[w]) /\ SameTimer(q, live[w])
  BY <1>1, <1>2 DEF WatcherState, SameWatch, SameText, SameTimer
<1>. HIDE DEF q
<1>5. Changes(w) /\ live'[w] = q
  BY <1>1, <1>3, <1>4, WatcherChanges
<1>6. sub' = FailedFor(w)
  BY DEF ReadFails
<1>7. live[w].step = "reading" /\ UNCHANGED <<written, current, torn>>
  BY DEF ReadFails
<1>8. /\ sub' \in [Subs -> Subscription]
      /\ \A s \in Subs : /\ s \in live[w].subs => sub'[s].failed
                         /\ s \notin live[w].subs => sub'[s] = sub[s]
                         /\ sub'[s].phase = sub[s].phase /\ sub'[s].size = sub[s].size
                         /\ sub'[s].init = sub[s].init /\ sub'[s].got = sub[s].got
                         /\ SameRole(sub'[s], sub[s])
  BY <1>6, FailedForDoes
<1>. QED  BY <1>2, <1>4, <1>5, <1>7, <1>8

LEMMA DeliverDoes ==
  ASSUME Placed, NEW w \in Watchers, Deliver(w)
  PROVE  LET r == live[w].result
         IN  /\ live[w].step = "read" /\ UNCHANGED <<written, current, torn>> /\ Changes(w)
             /\ r \in ReadResult
             /\ live'[w].pending = r.pending /\ live'[w].offset = After(live[w].offset, r)
             /\ live'[w].sent = IF r.entries = {} THEN live[w].sent
                                ELSE Append(live[w].sent, r.entries)
             /\ live'[w].step = IF live[w].again THEN "reading" ELSE "idle"
             /\ ~live'[w].again /\ live'[w].result = Nothing /\ live'[w].subs = live[w].subs
             /\ SameWatch(live'[w], live[w]) /\ SameTimer(live'[w], live[w])
             /\ sub' \in [Subs -> Subscription]
             /\ \A s \in Subs : /\ sub'[s].got = IF s \in live[w].subs
                                                 THEN sub[s].got \cup r.entries ELSE sub[s].got
                                /\ sub'[s].phase = sub[s].phase /\ sub'[s].size = sub[s].size
                                /\ sub'[s].init = sub[s].init /\ sub'[s].failed = sub[s].failed
                                /\ SameRole(sub'[s], sub[s])
<1>. DEFINE r == live[w].result
            sent == IF r.entries = {} THEN live[w].sent ELSE Append(live[w].sent, r.entries)
            o == After(live[w].offset, r)
            p == r.pending
            g == IF live[w].again THEN "reading" ELSE "idle"
            q == [live[w] EXCEPT !.pending = p, !.offset = o, !.sent = sent, !.step = g,
                                 !.again = FALSE, !.result = Nothing]
<1>1. Typed /\ live[w] \in WatcherState
  BY Indices DEF Placed
<1>2. r \in ReadResult
  BY <1>1 DEF WatcherState
<1>3. live' = [live EXCEPT ![w] = q]
  BY DEF Deliver, After
<1>. HIDE DEF r
<1>4. /\ sent \in Seq(SUBSET Int) /\ o \in Nat /\ p \in Seq(Int)
      /\ g \in {"idle", "reading", "read"}
  BY <1>1, <1>2 DEF WatcherState, ReadResult, After
<1>. HIDE DEF sent, o, p, g
<1>5. /\ q \in WatcherState /\ q.pending = p /\ q.offset = o /\ q.sent = sent /\ q.step = g
      /\ q.again = FALSE /\ q.result = Nothing /\ q.subs = live[w].subs
      /\ SameWatch(q, live[w]) /\ SameTimer(q, live[w])
  BY <1>1, <1>4, NothingIs DEF WatcherState, SameWatch, SameTimer
<1>. HIDE DEF q
<1>6. Changes(w) /\ live'[w] = q
  BY <1>1, <1>3, <1>5, WatcherChanges
<1>. DEFINE h(s) == sub[s].got \cup r.entries
            G(s) == [sub[s] EXCEPT !.got = h(s)]
<1>7. sub' = [s \in Subs |-> IF s \in live[w].subs THEN G(s) ELSE sub[s]]
  BY DEF Deliver, r
<1>8. \A s \in Subs : sub[s] \in Subscription /\ h(s) \in SUBSET Int
  BY <1>1, <1>2 DEF Typed, Subscription, ReadResult
<1>. HIDE DEF h
<1>9. \A s \in Subs : /\ G(s) \in Subscription /\ G(s).got = h(s)
                      /\ G(s).phase = sub[s].phase /\ G(s).size = sub[s].size
                      /\ G(s).init = sub[s].init /\ G(s).failed = sub[s].failed
                      /\ SameRole(G(s), sub[s])
  BY <1>8 DEF Subscription, SameRole
<1>. HIDE DEF G
<1>10. sub' \in [Subs -> Subscription]
  BY <1>7, <1>8, <1>9
<1>11. \A s \in Subs : sub'[s] = IF s \in live[w].subs THEN G(s) ELSE sub[s]
  BY <1>7
<1>12. \A s \in Subs : /\ sub'[s].got = IF s \in live[w].subs THEN h(s) ELSE sub[s].got
                       /\ sub'[s].phase = sub[s].phase /\ sub'[s].size = sub[s].size
                       /\ sub'[s].init = sub[s].init /\ sub'[s].failed = sub[s].failed
                       /\ SameRole(sub'[s], sub[s])
  BY <1>9, <1>11 DEF SameRole
<1>. QED  BY <1>2, <1>5, <1>6, <1>10, <1>12 DEF Deliver, r, sent, o, p, g, h

LEMMA WatchBreaksDoes ==
  ASSUME Placed, NEW w \in Watchers, WatchBreaks(w)
  PROVE  /\ live[w].fs = "open" /\ UNCHANGED <<written, current, sub, torn>> /\ Changes(w)
         /\ live'[w].fs = "closed" /\ live'[w].subs = live[w].subs
         /\ live[w].retries < MaxRetries /\ live'[w].retries = live[w].retries + 1
         /\ live'[w].retries > 0 /\ live'[w].leaked = live[w].leaked
         /\ SameText(live'[w], live[w]) /\ SameRead(live'[w], live[w])
         /\ SameTimer(live'[w], live[w])
<1>. DEFINE n == live[w].retries + 1
            q == [live[w] EXCEPT !.retries = n, !.fs = "closed", !.retryDue = TRUE]
<1>1. Typed /\ live[w] \in WatcherState
  BY Indices DEF Placed
<1>2. n \in Nat /\ n > 0
  BY <1>1 DEF WatcherState
<1>3. live' = [live EXCEPT ![w] = q]
  BY DEF WatchBreaks
<1>. HIDE DEF n
<1>4. /\ q \in WatcherState /\ q.fs = "closed" /\ q.retries = n /\ q.subs = live[w].subs
      /\ q.leaked = live[w].leaked
      /\ SameText(q, live[w]) /\ SameRead(q, live[w]) /\ SameTimer(q, live[w])
  BY <1>1, <1>2 DEF WatcherState, SameText, SameRead, SameTimer
<1>. HIDE DEF q
<1>5. Changes(w) /\ live'[w] = q
  BY <1>1, <1>3, <1>4, WatcherChanges
<1>. QED  BY <1>2, <1>4, <1>5 DEF WatchBreaks, n

LEMMA GivesUpDoes ==
  ASSUME Placed, NEW w \in Watchers, WatchGivesUp(w)
  PROVE  /\ UNCHANGED <<written, live, current, torn>>
         /\ sub' \in [Subs -> Subscription]
         /\ \A s \in Subs : /\ s \in live[w].subs => sub'[s].failed
                            /\ s \notin live[w].subs => sub'[s] = sub[s]
                            /\ sub'[s].phase = sub[s].phase /\ sub'[s].size = sub[s].size
                            /\ sub'[s].init = sub[s].init /\ sub'[s].got = sub[s].got
                            /\ SameRole(sub'[s], sub[s])
<1>1. sub' = FailedFor(w) /\ UNCHANGED <<written, live, current, torn>>
  BY DEF WatchGivesUp
<1>. QED  BY <1>1, FailedForDoes

LEMMA RewatchDoes ==
  ASSUME Placed, NEW w \in Watchers, Rewatch(w)
  PROVE  /\ live[w].retryDue /\ UNCHANGED <<written, current, sub, torn>> /\ Changes(w)
         /\ ~live'[w].retryDue /\ live'[w].subs = live[w].subs
         /\ live'[w].retries = live[w].retries /\ live'[w].leaked = live[w].leaked
         /\ SameText(live'[w], live[w]) /\ SameRead(live'[w], live[w])
         /\ SameTimer(live'[w], live[w])
<1>. DEFINE q == [live[w] EXCEPT !.retryDue = FALSE, !.fs = "open"]
<1>1. Typed /\ live[w] \in WatcherState
  BY Indices DEF Placed
<1>2. live' = [live EXCEPT ![w] = q]
  <2>1. live' = Open([live EXCEPT ![w].retryDue = FALSE], w)
    BY DEF Rewatch
  <2>. QED  BY <1>1, <2>1 DEF Open, Typed, Watchers
<1>3. /\ q \in WatcherState /\ q.retryDue = FALSE /\ q.subs = live[w].subs
      /\ q.retries = live[w].retries /\ q.leaked = live[w].leaked
      /\ SameText(q, live[w]) /\ SameRead(q, live[w]) /\ SameTimer(q, live[w])
  BY <1>1 DEF WatcherState, SameText, SameRead, SameTimer
<1>. HIDE DEF q
<1>4. Changes(w) /\ live'[w] = q
  BY <1>1, <1>2, <1>3, WatcherChanges
<1>. QED  BY <1>3, <1>4 DEF Rewatch

LEMMA RewatchFailsDoes ==
  ASSUME Placed, NEW w \in Watchers, RewatchFails(w)
  PROVE  /\ live[w].retryDue /\ UNCHANGED <<written, current, torn>> /\ Changes(w)
         /\ ~live'[w].retryDue /\ live'[w].subs = live[w].subs /\ live'[w].fs = live[w].fs
         /\ live'[w].retries = live[w].retries /\ live'[w].leaked = live[w].leaked
         /\ SameText(live'[w], live[w]) /\ SameRead(live'[w], live[w])
         /\ SameTimer(live'[w], live[w])
         /\ sub' \in [Subs -> Subscription]
         /\ \A s \in Subs : /\ s \in live[w].subs => sub'[s].failed
                            /\ s \notin live[w].subs => sub'[s] = sub[s]
                            /\ sub'[s].phase = sub[s].phase /\ sub'[s].size = sub[s].size
                            /\ sub'[s].init = sub[s].init /\ sub'[s].got = sub[s].got
                            /\ SameRole(sub'[s], sub[s])
<1>. DEFINE q == [live[w] EXCEPT !.retryDue = FALSE]
<1>1. Typed /\ live[w] \in WatcherState
  BY Indices DEF Placed
<1>2. live' = [live EXCEPT ![w] = q] /\ sub' = FailedFor(w)
  BY DEF RewatchFails
<1>3. /\ q \in WatcherState /\ q.retryDue = FALSE /\ q.subs = live[w].subs /\ q.fs = live[w].fs
      /\ q.retries = live[w].retries /\ q.leaked = live[w].leaked
      /\ SameText(q, live[w]) /\ SameRead(q, live[w]) /\ SameTimer(q, live[w])
  BY <1>1 DEF WatcherState, SameText, SameRead, SameTimer
<1>. HIDE DEF q
<1>4. Changes(w) /\ live'[w] = q
  BY <1>1, <1>2, <1>3, WatcherChanges
<1>5. live[w].retryDue /\ UNCHANGED <<written, current, torn>>
  BY DEF RewatchFails
<1>6. /\ sub' \in [Subs -> Subscription]
      /\ \A s \in Subs : /\ s \in live[w].subs => sub'[s].failed
                         /\ s \notin live[w].subs => sub'[s] = sub[s]
                         /\ sub'[s].phase = sub[s].phase /\ sub'[s].size = sub[s].size
                         /\ sub'[s].init = sub[s].init /\ sub'[s].got = sub[s].got
                         /\ SameRole(sub'[s], sub[s])
  BY <1>2, FailedForDoes
<1>. QED  BY <1>3, <1>4, <1>5, <1>6

-----------------------------------------------------------------------------
(* Types, and who subscribes to which watcher *)

LEMMA InitPlaced == ASSUME Init PROVE Placed
<1>1. Unsubscribed \in Subscription /\ Unsubscribed.phase = "off"
  BY UnsubscribedIs DEF Unsubscribed
<1>2. live \in Seq(WatcherState) /\ Len(live) = 0 /\ Watchers = {}
  BY DEF Init, Watchers
<1>3. Typed
  BY <1>1, <1>2 DEF Init, Typed
<1>. QED  BY <1>1, <1>2, <1>3 DEF Init, Placed

\* Placed depends on the phases, the current watcher and the subscribers only.
LEMMA PlacedKept ==
  ASSUME Placed, Typed', current' = current, Len(live') = Len(live),
         \A w \in Watchers : live'[w].subs = live[w].subs,
         \A s \in Subs : /\ (sub'[s].phase = "off") <=> (sub[s].phase = "off")
                         /\ sub'[s].watcher = sub[s].watcher
  PROVE  Placed'
<1>1. Watchers' = Watchers
  BY DEF Watchers
<1>2. current # 0 => current \in Watchers
  BY Indices DEF Placed, Typed
<1>. QED  BY <1>1, <1>2 DEF Placed

LEMMA TornIsLines ==
  ASSUME Typed
  PROVE  \A n \in Int : torn \cup TornAt(n) \subseteq Lines
  BY LinesAreInts DEF Typed

LEMMA SubscribePlaced ==
  ASSUME Placed, NEW s \in Subs, SubscribeLive(s)
  PROVE  Placed'
<1>. DEFINE w == IF current = 0 THEN Len(live) + 1 ELSE current
<1>1. /\ sub[s].phase = "off" /\ Turns(s) /\ sub'[s] = Joined(w) /\ current' = w
      /\ live' \in Seq(WatcherState)
      /\ Len(live') = IF current = 0 THEN Len(live) + 1 ELSE Len(live)
      /\ current = 0 => live'[w] = [NewWatcher EXCEPT !.subs = {s}]
      /\ current # 0 => live'[w].subs = live[w].subs \cup {s}
      /\ \A v \in Watchers : v # w => live'[v] = live[v]
      /\ UNCHANGED <<written, torn>>
  BY SubscribeDoes
<1>2. /\ Len(live) \in Nat /\ current \in 0..Len(live) /\ Watchers = 1..Len(live)
      /\ \A v \in Watchers : live[v] \in WatcherState
  BY Indices DEF Placed, Typed
<1>3. w \in 1..Len(live') /\ w \in Nat /\ Watchers' = 1..Len(live')
  BY <1>1, <1>2 DEF Watchers
<1>4. Joined(w).phase # "off" /\ Joined(w).watcher = w
  BY DEF Joined, Unsubscribed
<1>5. Typed'
  BY <1>1, <1>3 DEF Typed, Placed, Turns
<1>6. \A t \in Subs : sub'[t].phase # "off" => sub'[t].watcher = w
  <2>1. \A t \in Subs : t # s /\ sub[t].phase # "off" => sub[t].watcher = w
    BY DEF Placed
  <2>. HIDE DEF w
  <2>. QED  BY <1>1, <1>4, <2>1 DEF Turns
<1>7. live'[w].subs = {t \in Subs : sub'[t].phase # "off" /\ sub'[t].watcher = w}
  <2>1. CASE current = 0
    <3>1. live'[w].subs = {s}
      BY <1>1, <2>1 DEF NewWatcher
    <3>2. \A t \in Subs : t # s => sub'[t].phase = "off"
      BY <1>1, <2>1 DEF Turns, Placed
    <3>3. sub'[s].phase # "off" /\ sub'[s].watcher = w
      BY <1>1, <1>4 DEF Turns
    <3>. HIDE DEF w
    <3>. QED  BY <3>1, <3>2, <3>3
  <2>2. CASE current # 0
    <3>1. w = current /\ current \in Watchers
      BY <1>2, <2>2
    <3>2. live'[w].subs = live[w].subs \cup {s}
      BY <1>1, <2>2
    <3>3. live[w].subs = {t \in Subs : sub[t].phase # "off" /\ sub[t].watcher = w}
      BY <3>1 DEF Placed
    <3>. HIDE DEF w
    <3>. QED  BY <1>1, <1>4, <3>2, <3>3 DEF Turns
  <2>. QED  BY <2>1, <2>2
<1>8. \A v \in Watchers' : v # w => v \in Watchers /\ live'[v] = live[v]
  BY <1>1, <1>2, <1>3
<1>9. \A v \in Watchers' : v # w => live'[v].subs = {}
  <2>1. \A v \in Watchers : v # w =>
           live[v].subs = {t \in Subs : sub[t].phase # "off" /\ sub[t].watcher = v}
    BY DEF Placed
  <2>2. \A t \in Subs : sub[t].phase # "off" => sub[t].watcher = w
    BY DEF Placed
  <2>. HIDE DEF w
  <2>. QED  BY <1>8, <2>1, <2>2
<1>10. \A v \in Watchers' : v # w => {t \in Subs : sub'[t].phase # "off" /\ sub'[t].watcher = v} = {}
  BY <1>6
<1>11. s \in live'[w].subs
  BY <1>1, <1>4, <1>7 DEF Turns
<1>12. \A v \in Watchers' :
          live'[v].subs = {t \in Subs : sub'[t].phase # "off" /\ sub'[t].watcher = v}
  BY <1>7, <1>9, <1>10, Zenon
<1>13. w # 0
  BY <1>3
<1>. HIDE DEF w
<1>. QED  BY <1>1, <1>5, <1>6, <1>11, <1>12, <1>13 DEF Placed

LEMMA UnsubscribePlaced ==
  ASSUME Placed, NEW s \in Subs, UnsubscribeLive(s)
  PROVE  Placed'
<1>. DEFINE last == live[current].subs = {s}
<1>1. /\ sub[s].phase = "on" /\ Turns(s) /\ sub'[s] = Unsubscribed
      /\ current' = IF last THEN 0 ELSE current
      /\ Changes(current) /\ UNCHANGED <<written, torn>>
      /\ live'[current].subs = live[current].subs \ {s}
  BY UnsubscribeDoes
<1>2. /\ Typed /\ current \in Watchers /\ current # 0 /\ s \in live[current].subs
      /\ Len(live) \in Nat
      /\ \A v \in Watchers : live[v] \in WatcherState
      /\ \A t \in Subs : sub[t].phase # "off" => sub[t].watcher = current
      /\ \A w \in Watchers :
            live[w].subs = {t \in Subs : sub[t].phase # "off" /\ sub[t].watcher = w}
  BY <1>1, CurrentIs, Indices DEF Placed
<1>3. Watchers' = Watchers /\ Len(live') = Len(live)
  BY <1>1 DEF Watchers, Changes
<1>4. /\ live'[current].subs = live[current].subs \ {s}
      /\ \A v \in Watchers : v # current => live'[v] = live[v]
  BY <1>1 DEF Changes
<1>5. Unsubscribed.phase = "off"
  BY DEF Unsubscribed
<1>6. Typed'
  <2>1. current' \in 0..Len(live)
    BY <1>1, <1>2 DEF Typed
  <2>. QED  BY <1>1, <1>2, <1>3, <2>1 DEF Typed, Turns, Changes
<1>7. \A t \in Subs : IF t = s THEN sub'[t].phase = "off" ELSE sub'[t] = sub[t]
  BY <1>1, <1>5 DEF Turns
<1>8. \A t \in Subs : sub'[t].phase # "off" => sub'[t].watcher = current /\ ~last
  BY <1>2, <1>7
<1>9. \A w \in Watchers :
         live'[w].subs = {t \in Subs : sub'[t].phase # "off" /\ sub'[t].watcher = w}
  <2>. TAKE w \in Watchers
  <2>1. {t \in Subs : sub'[t].phase # "off" /\ sub'[t].watcher = w}
           = {t \in Subs : sub[t].phase # "off" /\ sub[t].watcher = w} \ {s}
    BY <1>7
  <2>2. CASE w = current
    BY <2>1, <2>2, <1>2, <1>4
  <2>3. CASE w # current
    BY <2>1, <2>3, <1>2, <1>4
  <2>. QED  BY <2>2, <2>3
<1>10. ~last => live'[current].subs # {}
  BY <1>2, <1>4
<1>. HIDE DEF last
<1>. QED  BY <1>1, <1>2, <1>3, <1>6, <1>8, <1>9, <1>10 DEF Placed

\* An action that leaves the seats alone.
LEMMA WatcherPlaced ==
  ASSUME Placed, NEW w \in Watchers, Changes(w), live'[w].subs = live[w].subs,
         written' = written, current' = current, torn' \subseteq Lines,
         sub' \in [Subs -> Subscription],
         \A s \in Subs : /\ (sub'[s].phase = "off") <=> (sub[s].phase = "off")
                         /\ sub'[s].watcher = sub[s].watcher
  PROVE  Placed'
<1>1. Typed'
  BY DEF Placed, Typed, Changes
<1>2. Len(live') = Len(live) /\ \A v \in Watchers : live'[v].subs = live[v].subs
  BY DEF Changes
<1>. QED  BY <1>1, <1>2, PlacedKept

LEMMA SubscriberPlaced ==
  ASSUME Placed, NEW s \in Subs, sub[s].phase # "off", UNCHANGED <<written, live, current>>,
         torn' = torn, Turns(s), sub'[s].phase # "off", sub'[s].watcher = sub[s].watcher
  PROVE  Placed'
<1>1. Typed'
  BY DEF Placed, Typed, Turns
<1>. QED  BY <1>1, PlacedKept DEF Turns

LEMMA PlacedStep ==
  ASSUME Placed, Next, \A w \in Watchers : live[w].offset <= written
  PROVE  Placed'
<1>1. CASE AgentWrites
  <2>1. /\ written' \in Nat /\ live' \in Seq(WatcherState) /\ Len(live') = Len(live)
        /\ UNCHANGED <<current, sub, torn>>
        /\ \A w \in Watchers : live'[w].subs = live[w].subs
    BY <1>1, AgentWritesDoes DEF Placed
  <2>2. Typed'
    BY <2>1 DEF Placed, Typed
  <2>. QED  BY <2>1, <2>2, PlacedKept
<1>2. ASSUME NEW s \in Subs, SubscriberStep(s)
      PROVE  Placed'
  <2>1. /\ Typed /\ sub[s].size \in Int /\ torn \cup TornAt(sub[s].size) \subseteq Lines
        /\ sub[s].phase # "off" => current \in Watchers
        /\ sub \in [Subs -> Subscription] /\ torn \subseteq Lines
    BY CurrentIs, TornIsLines DEF Placed, Typed, Subscription
  <2>2. CASE SubscribeLive(s)
    BY <2>2, SubscribePlaced
  <2>3. CASE Stat(s)
    BY <2>3, StatDoes, SubscriberPlaced DEF SameRole
  <2>4. CASE ReadTail(s)
    <3>1. /\ sub[s].phase = "read" /\ UNCHANGED <<written, current>> /\ Turns(s)
          /\ sub'[s].phase = "relate" /\ sub'[s].watcher = sub[s].watcher
      BY <2>4, ReadTailDoes DEF SameRole
    <3>2. CASE sub[s].new
      BY <2>1, <2>4, <3>1, <3>2, ReadTailDoes, WatcherPlaced DEF Turns
    <3>3. CASE ~sub[s].new
      BY <2>4, <3>1, <3>3, ReadTailDoes, SubscriberPlaced
    <3>. QED  BY <3>2, <3>3
  <2>5. CASE TailFails(s)
    <3>1. /\ sub[s].phase \in {"stat", "read"} /\ UNCHANGED <<written, current, torn>> /\ Turns(s)
          /\ sub'[s].phase = "relate" /\ sub'[s].watcher = sub[s].watcher
      BY <2>5, TailFailsDoes DEF SameRole
    <3>2. CASE sub[s].new
      BY <2>1, <2>5, <3>1, <3>2, TailFailsDoes, WatcherPlaced DEF Turns
    <3>3. CASE ~sub[s].new
      BY <2>5, <3>1, <3>3, TailFailsDoes, SubscriberPlaced
    <3>. QED  BY <3>2, <3>3
  <2>6. CASE WatchFails(s)
    <3>1. /\ sub[s].phase = "read" /\ UNCHANGED <<written, current>>
          /\ torn' = torn \cup TornAt(sub[s].size)
          /\ Changes(current) /\ live'[current].subs = live[current].subs
          /\ sub' \in [Subs -> Subscription] /\ sub'[s].phase = "relate"
          /\ \A t \in Subs : t # s => sub'[t].phase = sub[t].phase
          /\ \A t \in Subs : sub'[t].watcher = sub[t].watcher
      BY <2>6, WatchFailsDoes DEF SameRole
    <3>2. \A t \in Subs : (sub'[t].phase = "off") <=> (sub[t].phase = "off")
      BY <3>1
    <3>. QED  BY <2>1, <3>1, <3>2, WatcherPlaced
  <2>7. CASE Reply(s)
    BY <2>7, ReplyDoes, SubscriberPlaced
  <2>8. CASE UnsubscribeLive(s)
    BY <2>8, UnsubscribePlaced
  <2>. QED  BY <1>2, <2>2, <2>3, <2>4, <2>5, <2>6, <2>7, <2>8 DEF SubscriberStep
<1>3. ASSUME NEW w \in Watchers, WatcherStep(w)
      PROVE  Placed'
  <2>1. /\ Typed /\ torn \cup TornAt(written) \subseteq Lines
        /\ sub \in [Subs -> Subscription] /\ torn \subseteq Lines
    BY TornIsLines DEF Placed, Typed
  <2>2. CASE DebounceFires(w)
    BY <2>1, <2>2, DebounceDoes, WatcherPlaced
  <2>3. CASE Read(w)
    BY <2>1, <2>3, ReadDoes, WatcherPlaced
  <2>4. CASE ReadFails(w)
    BY <2>1, <2>4, ReadFailsDoes, WatcherPlaced DEF SameRole
  <2>5. CASE Deliver(w)
    BY <2>1, <2>5, DeliverDoes, WatcherPlaced DEF SameRole
  <2>6. CASE WatchBreaks(w)
    BY <2>1, <2>6, WatchBreaksDoes, WatcherPlaced
  <2>7. CASE WatchGivesUp(w)
    <3>1. Typed' /\ Len(live') = Len(live) /\ current' = current /\ live' = live
      BY <2>1, <2>7, GivesUpDoes DEF Typed
    <3>. QED  BY <2>7, <3>1, GivesUpDoes, PlacedKept DEF SameRole
  <2>8. CASE Rewatch(w)
    BY <2>1, <2>8, RewatchDoes, WatcherPlaced
  <2>9. CASE RewatchFails(w)
    BY <2>1, <2>9, RewatchFailsDoes, WatcherPlaced DEF SameRole
  <2>. QED  BY <1>3, <2>2, <2>3, <2>4, <2>5, <2>6, <2>7, <2>8, <2>9 DEF WatcherStep
<1>. QED  BY <1>1, <1>2, <1>3 DEF Next

-----------------------------------------------------------------------------
(* Which watchers are open *)

Reading(s) == sub[s].phase \in {"stat", "read"}

\* A watcher that was never opened.
Fresh(w) ==
    /\ live[w].fs = "closed" /\ ~live[w].timer /\ live[w].step = "idle"
    /\ live[w].pending = <<>> /\ live[w].sent = <<>> /\ live[w].retries = 0

\* Whoever makes the watcher is its only maker, the watcher is not open
\* before the file was read, and the others that join are marked as early.
Made ==
    \A m \in Subs : Reading(m) /\ sub[m].new =>
      /\ Fresh(current)
      /\ \A s \in Subs : s # m /\ sub[s].phase # "off" => sub[s].early /\ ~sub[s].new

\* A watcher the path no longer has is shut for good, unless it leaks.
Shut(q) == q.fs = "closed" /\ ~q.retryDue

Held ==
    /\ \A w \in Watchers : w = current \/ live[w].leaked \/ Shut(live[w])
    /\ \A w \in Watchers : live[w].retryDue => live[w].retries > 0
    /\ Made

LEMMA InitHeld == ASSUME Init PROVE Held
  BY DEF Init, Held, Made, Reading, Watchers, Unsubscribed

LEMMA MakerIsPlaced ==
  ASSUME Placed, NEW m \in Subs, Reading(m)
  PROVE  /\ sub[m].phase # "off" /\ current # 0 /\ current \in Watchers
         /\ sub[m].watcher = current /\ m \in live[current].subs
<1>1. sub[m].phase # "off"
  BY DEF Reading
<1>. QED  BY <1>1, CurrentIs DEF Placed

\* A step of a watcher that was opened before.
LEMMA HeldByWatcher ==
  ASSUME Placed, Held, NEW w \in Watchers, ~Fresh(w), Changes(w), current' = current,
         Shut(live[w]) => Shut(live'[w]), live'[w].leaked = live[w].leaked,
         live'[w].retryDue => live'[w].retries > 0,
         \A s \in Subs : sub'[s].phase = sub[s].phase /\ SameRole(sub'[s], sub[s])
  PROVE  Held'
<1>1. Watchers' = Watchers
  BY DEF Changes, Watchers
<1>2. /\ \A v \in Watchers : v = current \/ live'[v].leaked \/ Shut(live'[v])
      /\ \A v \in Watchers : live'[v].retryDue => live'[v].retries > 0
  BY DEF Held, Changes
<1>3. ASSUME NEW m \in Subs, Reading(m)', sub'[m].new
      PROVE  /\ Fresh(current)'
             /\ \A s \in Subs : s # m /\ sub'[s].phase # "off" => sub'[s].early /\ ~sub'[s].new
  <2>1. Reading(m) /\ sub[m].new
    BY <1>3 DEF Reading, SameRole
  <2>2. /\ Fresh(current) /\ current \in Watchers
        /\ \A s \in Subs : s # m /\ sub[s].phase # "off" => sub[s].early /\ ~sub[s].new
    BY <2>1, MakerIsPlaced DEF Held, Made
  <2>3. current # w
    BY <2>2
  <2>4. live'[current] = live[current]
    BY <2>2, <2>3 DEF Changes
  <2>5. Fresh(current)'
    BY <2>2, <2>4 DEF Fresh
  <2>. QED  BY <2>2, <2>5 DEF SameRole
<1>. QED  BY <1>1, <1>2, <1>3 DEF Held, Made

\* A step of a subscriber that makes no watcher.
LEMMA HeldBySubscriber ==
  ASSUME Placed, Held, NEW s \in Subs, sub[s].phase # "off", Turns(s),
         UNCHANGED <<live, current>>, sub'[s].early = sub[s].early,
         sub'[s].new => sub[s].new,
         Reading(s)' /\ sub'[s].new => Reading(s)
  PROVE  Held'
<1>1. Watchers' = Watchers
  BY DEF Watchers
<1>2. ASSUME NEW m \in Subs, Reading(m)', sub'[m].new
      PROVE  /\ Fresh(current)'
             /\ \A t \in Subs : t # m /\ sub'[t].phase # "off" => sub'[t].early /\ ~sub'[t].new
  <2>1. Reading(m) /\ sub[m].new
    BY <1>2 DEF Reading, Turns
  <2>2. /\ Fresh(current)
        /\ \A t \in Subs : t # m /\ sub[t].phase # "off" => sub[t].early /\ ~sub[t].new
    BY <2>1 DEF Held, Made
  <2>3. Fresh(current)'
    BY <2>2 DEF Fresh
  <2>. QED  BY <2>2, <2>3 DEF Turns
<1>. QED  BY <1>1, <1>2 DEF Held, Made

\* The maker has read the file, or failed to.
LEMMA HeldByMaker ==
  ASSUME Placed, Held, NEW s \in Subs, Reading(s), sub[s].new, current \in Watchers,
         Changes(current), current' = current,
         live'[current].retries = live[current].retries,
         live'[current].retryDue = live[current].retryDue,
         live'[current].leaked = live[current].leaked,
         sub'[s].phase = "relate",
         \A t \in Subs : t # s => sub'[t].phase = sub[t].phase /\ SameRole(sub'[t], sub[t])
  PROVE  Held'
<1>1. Watchers' = Watchers
  BY DEF Changes, Watchers
<1>2. /\ \A v \in Watchers : v = current \/ live'[v].leaked \/ Shut(live'[v])
      /\ \A v \in Watchers : live'[v].retryDue => live'[v].retries > 0
  BY DEF Held, Changes
<1>3. ASSUME NEW m \in Subs, Reading(m)', sub'[m].new
      PROVE  FALSE
  <2>1. m # s
    BY <1>3 DEF Reading
  <2>2. sub[m].phase # "off" /\ sub[m].new
    BY <1>3, <2>1 DEF Reading, SameRole
  <2>. QED  BY <2>1, <2>2 DEF Held, Made
<1>. QED  BY <1>1, <1>2, <1>3 DEF Held, Made

LEMMA SubscribeHeld ==
  ASSUME Placed, Held, NEW s \in Subs, SubscribeLive(s)
  PROVE  Held'
<1>. DEFINE w == IF current = 0 THEN Len(live) + 1 ELSE current
<1>1. /\ sub[s].phase = "off" /\ Turns(s) /\ sub'[s] = Joined(w) /\ current' = w
      /\ Len(live') = IF current = 0 THEN Len(live) + 1 ELSE Len(live)
      /\ current = 0 => live'[w] = [NewWatcher EXCEPT !.subs = {s}]
      /\ current # 0 => /\ SameWatch(live'[w], live[w]) /\ SameText(live'[w], live[w])
                        /\ SameRead(live'[w], live[w]) /\ SameTimer(live'[w], live[w])
      /\ \A v \in Watchers : v # w => live'[v] = live[v]
  BY SubscribeDoes
<1>2. /\ Len(live) \in Nat /\ current \in 0..Len(live) /\ Watchers = 1..Len(live)
      /\ Watchers' = 1..Len(live')
  BY Indices DEF Placed, Typed, Watchers
<1>3. /\ Joined(w).new <=> current = 0
      /\ Joined(w).early <=> StillReading(w)
      /\ Joined(w).phase # "off"
  BY DEF Joined, Unsubscribed
<1>4. CASE current = 0
  <2>1. \A v \in Watchers' : (v \in Watchers /\ v # w) \/ v = w
    BY <1>1, <1>2, <1>4
  <2>2. /\ live'[w].fs = "closed" /\ ~live'[w].timer /\ live'[w].step = "idle"
        /\ live'[w].pending = <<>> /\ live'[w].sent = <<>> /\ live'[w].retries = 0
        /\ ~live'[w].retryDue
    BY <1>1, <1>4 DEF NewWatcher
  <2>3. /\ \A v \in Watchers' : v = w \/ live'[v].leaked \/ Shut(live'[v])
        /\ \A v \in Watchers' : live'[v].retryDue => live'[v].retries > 0
    <3>1. \A v \in Watchers : v # current
      BY <1>2, <1>4
    <3>. HIDE DEF w
    <3>. QED  BY <1>1, <2>1, <2>2, <3>1 DEF Held
  <2>4. \A t \in Subs : t # s => sub'[t].phase = "off"
    BY <1>1, <1>4 DEF Turns, Placed
  <2>5. Fresh(current)'
    BY <1>1, <2>2 DEF Fresh
  <2>6. Made'
    BY <2>4, <2>5 DEF Made, Reading
  <2>. HIDE DEF w
  <2>. QED  BY <1>1, <2>3, <2>6 DEF Held
<1>5. CASE current # 0
  <2>1. w = current /\ w \in Watchers /\ Watchers' = Watchers
    BY <1>1, <1>2, <1>5
  <2>2. /\ \A v \in Watchers : v = w \/ live'[v].leaked \/ Shut(live'[v])
        /\ \A v \in Watchers : live'[v].retryDue => live'[v].retries > 0
    <3>. HIDE DEF w
    <3>. QED  BY <1>1, <1>5, <2>1 DEF Held, SameWatch, Shut
  <2>3. ASSUME NEW m \in Subs, Reading(m)', sub'[m].new
        PROVE  /\ Fresh(current)'
               /\ \A t \in Subs : t # m /\ sub'[t].phase # "off" => sub'[t].early /\ ~sub'[t].new
    <3>1. m # s /\ sub'[m] = sub[m]
      BY <1>1, <1>3, <1>5, <2>3 DEF Turns
    <3>2. Reading(m) /\ sub[m].new
      BY <2>3, <3>1 DEF Reading
    <3>3. /\ Fresh(current) /\ sub[m].watcher = w
          /\ \A t \in Subs : t # m /\ sub[t].phase # "off" => sub[t].early /\ ~sub[t].new
      BY <2>1, <3>2, MakerIsPlaced DEF Held, Made
    <3>4. StillReading(w)
      BY <3>2, <3>3 DEF StillReading, Reading
    <3>5. sub'[s].early /\ ~sub'[s].new
      BY <1>1, <1>3, <1>5, <3>4
    <3>6. Fresh(current)'
      <4>. HIDE DEF w
      <4>. QED  BY <1>1, <1>5, <2>1, <3>3 DEF Fresh, SameWatch, SameText, SameRead, SameTimer
    <3>. QED  BY <1>1, <3>3, <3>5, <3>6 DEF Turns
  <2>. HIDE DEF w
  <2>. QED  BY <1>1, <2>1, <2>2, <2>3 DEF Held, Made
<1>. QED  BY <1>4, <1>5

LEMMA UnsubscribeHeld ==
  ASSUME Placed, Held, NEW s \in Subs, UnsubscribeLive(s)
  PROVE  Held'
<1>. DEFINE last == live[current].subs = {s}
<1>1. /\ sub[s].phase = "on" /\ Turns(s) /\ sub'[s] = Unsubscribed
      /\ current' = IF last THEN 0 ELSE current
      /\ Changes(current)
      /\ live'[current].fs = IF last THEN "closed" ELSE live[current].fs
      /\ live'[current].timer <=> live[current].timer /\ ~last
      /\ live'[current].retries = live[current].retries
      /\ live'[current].retryDue = live[current].retryDue
      /\ live'[current].leaked = (last /\ live[current].retryDue)
      /\ SameText(live'[current], live[current]) /\ SameRead(live'[current], live[current])
  BY UnsubscribeDoes
<1>2. current \in Watchers /\ current # 0 /\ Watchers' = Watchers
  BY <1>1, CurrentIs DEF Watchers, Changes, Placed
<1>3. Unsubscribed.phase = "off"
  BY DEF Unsubscribed
<1>4. ASSUME NEW m \in Subs, Reading(m)', sub'[m].new
      PROVE  /\ Fresh(current)'
             /\ \A t \in Subs : t # m /\ sub'[t].phase # "off" => sub'[t].early /\ ~sub'[t].new
  <2>1. m # s /\ sub'[m] = sub[m]
    BY <1>1, <1>3, <1>4 DEF Turns, Reading
  <2>2. Reading(m) /\ sub[m].new
    BY <1>4, <2>1 DEF Reading
  <2>3. /\ Fresh(current) /\ m \in live[current].subs
        /\ \A t \in Subs : t # m /\ sub[t].phase # "off" => sub[t].early /\ ~sub[t].new
    BY <2>2, MakerIsPlaced DEF Held, Made
  <2>4. ~last
    BY <2>1, <2>3
  <2>5. Fresh(current)'
    BY <1>1, <2>3, <2>4 DEF Fresh, SameText, SameRead
  <2>. QED  BY <1>1, <1>3, <2>3, <2>5 DEF Turns
<1>5. /\ \A v \in Watchers : v = current' \/ live'[v].leaked \/ Shut(live'[v])
      /\ \A v \in Watchers : live'[v].retryDue => live'[v].retries > 0
  <2>1. /\ \A v \in Watchers : v # current => live'[v] = live[v]
        /\ \A v \in Watchers : v = current \/ live[v].leaked \/ Shut(live[v])
        /\ \A v \in Watchers : live[v].retryDue => live[v].retries > 0
    BY <1>1 DEF Changes, Held
  <2>2. CASE last
    BY <1>1, <2>1, <2>2 DEF Shut
  <2>3. CASE ~last
    <3>1. current' = current /\ live'[current].fs = live[current].fs
      BY <1>1, <2>3
    <3>. HIDE DEF last
    <3>. QED  BY <1>1, <2>1, <3>1
  <2>. QED  BY <2>2, <2>3
<1>. QED  BY <1>2, <1>4, <1>5 DEF Held, Made

LEMMA HeldStep ==
  ASSUME Placed, Held, Next, \A w \in Watchers : live[w].offset <= written
  PROVE  Held'
<1>1. CASE AgentWrites
  <2>1. /\ Len(live') = Len(live) /\ UNCHANGED <<current, sub>>
        /\ \A w \in Watchers : SameWatch(live'[w], live[w])
        /\ \A w \in Watchers : live[w].fs # "open" => live'[w] = live[w]
    BY <1>1, AgentWritesDoes DEF Placed, SameWatch
  <2>2. Watchers' = Watchers
    BY <2>1 DEF Watchers
  <2>3. Made'
    <3>. SUFFICES ASSUME NEW m \in Subs, Reading(m)', sub'[m].new
                  PROVE  /\ Fresh(current)'
                         /\ \A s \in Subs : s # m /\ sub'[s].phase # "off" =>
                               sub'[s].early /\ ~sub'[s].new
      BY Zenon DEF Made
    <3>1. Reading(m) /\ sub[m].new
      BY <2>1 DEF Reading
    <3>2. Fresh(current) /\ current \in Watchers
      BY <3>1, MakerIsPlaced DEF Held, Made
    <3>3. Fresh(current)'
      BY <2>1, <3>2 DEF Fresh
    <3>. QED  BY <2>1, <3>1, <3>3 DEF Held, Made
  <2>. QED  BY <2>1, <2>2, <2>3 DEF Held, SameWatch, Shut
<1>2. ASSUME NEW s \in Subs, SubscriberStep(s)
      PROVE  Held'
  <2>1. sub[s].phase # "off" => current \in Watchers
    BY CurrentIs
  <2>2. CASE SubscribeLive(s)
    BY <2>2, SubscribeHeld
  <2>3. CASE Stat(s)
    BY <2>3, StatDoes, HeldBySubscriber DEF SameRole, Reading
  <2>4. CASE ReadTail(s)
    <3>1. /\ Reading(s) /\ sub[s].phase # "off" /\ current' = current /\ Turns(s)
          /\ sub'[s].phase = "relate" /\ SameRole(sub'[s], sub[s])
      BY <2>4, ReadTailDoes DEF Reading
    <3>2. CASE sub[s].new
      BY <2>1, <2>4, <3>1, <3>2, ReadTailDoes, HeldByMaker DEF Turns, SameRole
    <3>3. CASE ~sub[s].new
      BY <2>4, <3>1, <3>3, ReadTailDoes, HeldBySubscriber DEF SameRole, Reading
    <3>. QED  BY <3>2, <3>3
  <2>5. CASE TailFails(s)
    <3>1. /\ Reading(s) /\ sub[s].phase # "off" /\ current' = current /\ Turns(s)
          /\ sub'[s].phase = "relate" /\ SameRole(sub'[s], sub[s])
      BY <2>5, TailFailsDoes DEF Reading
    <3>2. CASE sub[s].new
      BY <2>1, <2>5, <3>1, <3>2, TailFailsDoes, HeldByMaker DEF Turns, SameRole
    <3>3. CASE ~sub[s].new
      BY <2>5, <3>1, <3>3, TailFailsDoes, HeldBySubscriber DEF SameRole, Reading
    <3>. QED  BY <3>2, <3>3
  <2>6. CASE WatchFails(s)
    <3>1. /\ Reading(s) /\ sub[s].phase # "off"
      BY <2>6, WatchFailsDoes DEF Reading
    <3>. QED  BY <2>1, <2>6, <3>1, WatchFailsDoes, HeldByMaker DEF SameWatch
  <2>7. CASE Reply(s)
    BY <2>7, ReplyDoes, HeldBySubscriber DEF Reading
  <2>8. CASE UnsubscribeLive(s)
    BY <2>8, UnsubscribeHeld
  <2>. QED  BY <1>2, <2>2, <2>3, <2>4, <2>5, <2>6, <2>7, <2>8 DEF SubscriberStep
<1>3. ASSUME NEW w \in Watchers, WatcherStep(w)
      PROVE  Held'
  <2>1. \A s \in Subs : SameRole(sub[s], sub[s])
    BY DEF SameRole
  <2>2. live[w].retryDue => live[w].retries > 0
    BY DEF Held
  <2>3. CASE DebounceFires(w)
    <3>1. ~Fresh(w)
      BY <2>3, DebounceDoes DEF Fresh
    <3>. QED  BY <2>1, <2>2, <2>3, <3>1, DebounceDoes, HeldByWatcher DEF SameWatch, Shut
  <2>4. CASE Read(w)
    <3>1. ~Fresh(w)
      BY <2>4, ReadDoes DEF Fresh
    <3>. QED  BY <2>1, <2>2, <2>4, <3>1, ReadDoes, HeldByWatcher DEF SameWatch, Shut
  <2>5. CASE ReadFails(w)
    <3>1. ~Fresh(w)
      BY <2>5, ReadFailsDoes DEF Fresh
    <3>. QED  BY <2>2, <2>5, <3>1, ReadFailsDoes, HeldByWatcher DEF SameWatch, Shut
  <2>6. CASE Deliver(w)
    <3>1. ~Fresh(w)
      BY <2>6, DeliverDoes DEF Fresh
    <3>. QED  BY <2>2, <2>6, <3>1, DeliverDoes, HeldByWatcher DEF SameWatch, Shut
  <2>7. CASE WatchBreaks(w)
    <3>1. ~Fresh(w)
      BY <2>7, WatchBreaksDoes DEF Fresh
    <3>. QED  BY <2>1, <2>7, <3>1, WatchBreaksDoes, HeldByWatcher DEF Shut
  <2>8. CASE WatchGivesUp(w)
    <3>1. ~Fresh(w) /\ Changes(w) /\ current' = current /\ live' = live
      BY <2>8, GivesUpDoes DEF Fresh, WatchGivesUp, Changes, Placed, Typed
    <3>. QED  BY <2>2, <2>8, <3>1, GivesUpDoes, HeldByWatcher
  <2>9. CASE Rewatch(w)
    <3>1. ~Fresh(w)
      BY <2>2, <2>9, RewatchDoes DEF Fresh
    <3>. QED  BY <2>1, <2>2, <2>9, <3>1, RewatchDoes, HeldByWatcher DEF Shut
  <2>10. CASE RewatchFails(w)
    <3>1. ~Fresh(w)
      BY <2>2, <2>10, RewatchFailsDoes DEF Fresh
    <3>. QED  BY <2>2, <2>10, <3>1, RewatchFailsDoes, HeldByWatcher DEF Shut
  <2>. QED  BY <1>3, <2>3, <2>4, <2>5, <2>6, <2>7, <2>8, <2>9, <2>10 DEF WatcherStep
<1>. QED  BY <1>1, <1>2, <1>3 DEF Next

-----------------------------------------------------------------------------
(* Nothing runs ahead of the file *)

Within(q, n) == q.offset <= n /\ q.result.offset <= n /\ q.noticed <= n

Bounded ==
    /\ \A w \in Watchers : Within(live[w], written)
    /\ \A s \in Subs : sub[s].size <= written

LEMMA InitBounded == ASSUME Init PROVE Bounded
  BY DEF Init, Bounded, Watchers, Unsubscribed

LEMMA WatcherBounded ==
  ASSUME Placed, Bounded, NEW w \in Watchers, Changes(w), written' = written,
         Within(live'[w], written), \A s \in Subs : sub'[s].size <= written
  PROVE  Bounded'
<1>1. Watchers' = Watchers
  BY DEF Changes, Watchers
<1>. QED  BY <1>1 DEF Bounded, Changes, Within

LEMMA SubscriberBounded ==
  ASSUME Placed, Bounded, NEW s \in Subs, Turns(s), UNCHANGED <<written, live>>,
         sub'[s].size <= written
  PROVE  Bounded'
<1>1. Watchers' = Watchers
  BY DEF Watchers
<1>. QED  BY <1>1 DEF Bounded, Turns, Within

LEMMA BoundedStep ==
  ASSUME Placed, Bounded, Next
  PROVE  Bounded'
<1>0. /\ written \in Nat /\ 0 <= written /\ written <= written
      /\ \A w \in Watchers : live[w].offset \in Nat /\ live[w].result.offset \in Nat
                             /\ live[w].noticed \in Nat
      /\ \A s \in Subs : sub[s].size \in Nat
  <2>1. \A w \in Watchers : live[w] \in WatcherState
    BY Indices DEF Placed
  <2>2. \A w \in Watchers : live[w].offset \in Nat /\ live[w].noticed \in Nat
    BY <2>1 DEF WatcherState
  <2>3. \A w \in Watchers : live[w].result \in ReadResult
    BY <2>1 DEF WatcherState
  <2>4. \A w \in Watchers : live[w].result.offset \in Nat
    BY <2>3 DEF ReadResult
  <2>5. \A s \in Subs : sub[s].size \in Nat
    BY DEF Placed, Typed, Subscription
  <2>. QED  BY <2>2, <2>4, <2>5 DEF Placed, Typed
<1>1. CASE AgentWrites
  <2>1. /\ written' \in Nat /\ written' > written /\ UNCHANGED sub
        /\ Len(live') = Len(live)
        /\ \A w \in Watchers : /\ live'[w].offset = live[w].offset
                               /\ live'[w].result = live[w].result
                               /\ live'[w].noticed \in {live[w].noticed, written'}
    BY <1>1, AgentWritesDoes DEF Placed, SameText, SameRead
  <2>2. Watchers' = Watchers
    BY <2>1 DEF Watchers
  <2>. QED  BY <1>0, <2>1, <2>2 DEF Bounded, Within
<1>2. ASSUME NEW s \in Subs, SubscriberStep(s)
      PROVE  Bounded'
  <2>1. sub[s].phase # "off" => current \in Watchers /\ Within(live[current], written)
    BY CurrentIs DEF Bounded
  <2>2. \A t \in Subs : sub[t].size <= written
    BY DEF Bounded
  <2>3. CASE SubscribeLive(s)
    <3>. DEFINE w == IF current = 0 THEN Len(live) + 1 ELSE current
    <3>1. /\ Turns(s) /\ sub'[s] = Joined(w)
          /\ Len(live') = IF current = 0 THEN Len(live) + 1 ELSE Len(live)
          /\ current = 0 => live'[w] = [NewWatcher EXCEPT !.subs = {s}]
          /\ current # 0 => /\ SameText(live'[w], live[w])
                            /\ SameRead(live'[w], live[w]) /\ SameTimer(live'[w], live[w])
          /\ \A v \in Watchers : v # w => live'[v] = live[v]
          /\ UNCHANGED written
      BY <2>3, SubscribeDoes
    <3>2. /\ Len(live) \in Nat /\ Watchers = 1..Len(live) /\ Watchers' = 1..Len(live')
          /\ current \in 0..Len(live)
      BY Indices DEF Placed, Typed, Watchers
    <3>3. Joined(w).size = 0
      BY DEF Joined, Unsubscribed
    <3>4. Within(live'[w], written)
      <4>1. CASE current = 0
        <5>1. live'[w].offset = 0 /\ live'[w].result = Nothing /\ live'[w].noticed = 0
          BY <3>1, <4>1 DEF NewWatcher
        <5>. QED  BY <5>1, <1>0, NothingIs DEF Within
      <4>2. CASE current # 0
        <5>1. w \in Watchers
          BY <3>2, <4>2
        <5>. HIDE DEF w
        <5>. QED  BY <3>1, <4>2, <5>1 DEF Bounded, Within, SameText, SameRead, SameTimer
      <4>. QED  BY <4>1, <4>2
    <3>5. \A v \in Watchers' : v # w => v \in Watchers
      BY <3>1, <3>2
    <3>. HIDE DEF w
    <3>6. \A v \in Watchers' : Within(live'[v], written)
      BY <3>1, <3>4, <3>5 DEF Bounded
    <3>7. \A t \in Subs : sub'[t].size <= written
      BY <3>1, <3>3, <2>2, <1>0 DEF Turns
    <3>. QED  BY <3>1, <3>6, <3>7 DEF Bounded
  <2>4. CASE Stat(s)
    <3>1. sub'[s].size <= written
      BY <2>4, <1>0, StatDoes
    <3>. QED  BY <2>4, <3>1, StatDoes, SubscriberBounded
  <2>5. CASE ReadTail(s)
    <3>1. /\ Turns(s) /\ sub'[s].size = sub[s].size /\ UNCHANGED written
          /\ sub[s].phase # "off"
      BY <2>5, ReadTailDoes
    <3>2. \A t \in Subs : sub'[t].size <= written
      BY <2>2, <3>1 DEF Turns
    <3>3. CASE sub[s].new
      <4>1. Changes(current) /\ Within(live'[current], written)
        BY <2>1, <2>2, <2>5, <3>1, <3>3, ReadTailDoes DEF Within, SameRead, SameTimer
      <4>. QED  BY <2>1, <3>1, <3>2, <4>1, WatcherBounded
    <3>4. CASE ~sub[s].new
      BY <2>5, <3>1, <3>2, <3>4, ReadTailDoes, SubscriberBounded
    <3>. QED  BY <3>3, <3>4
  <2>6. CASE TailFails(s)
    <3>1. /\ Turns(s) /\ sub'[s].size = sub[s].size /\ UNCHANGED written
          /\ sub[s].phase # "off"
      BY <2>6, TailFailsDoes
    <3>2. \A t \in Subs : sub'[t].size <= written
      BY <2>2, <3>1 DEF Turns
    <3>3. CASE sub[s].new
      <4>1. Changes(current) /\ Within(live'[current], written)
        BY <2>1, <2>6, <3>1, <3>3, TailFailsDoes DEF Within, SameText, SameRead, SameTimer
      <4>. QED  BY <2>1, <3>1, <3>2, <4>1, WatcherBounded
    <3>4. CASE ~sub[s].new
      BY <2>6, <3>1, <3>2, <3>4, TailFailsDoes, SubscriberBounded
    <3>. QED  BY <3>3, <3>4
  <2>7. CASE WatchFails(s)
    <3>1. /\ \A t \in Subs : sub'[t].size = sub[t].size
          /\ UNCHANGED written /\ Changes(current) /\ sub[s].phase # "off"
      BY <2>7, WatchFailsDoes
    <3>2. Within(live'[current], written)
      BY <2>1, <2>2, <2>7, <3>1, WatchFailsDoes DEF Within, SameRead, SameTimer
    <3>. QED  BY <2>1, <2>2, <3>1, <3>2, WatcherBounded
  <2>8. CASE Reply(s)
    <3>1. sub'[s].size <= written
      BY <2>8, <1>0, ReplyDoes
    <3>. QED  BY <2>8, <3>1, ReplyDoes, SubscriberBounded
  <2>9. CASE UnsubscribeLive(s)
    <3>1. /\ Turns(s) /\ sub'[s] = Unsubscribed /\ UNCHANGED written /\ Changes(current)
          /\ sub[s].phase # "off"
      BY <2>9, UnsubscribeDoes
    <3>2. \A t \in Subs : sub'[t].size <= written
      BY <1>0, <2>2, <3>1 DEF Turns, Unsubscribed
    <3>3. Within(live'[current], written)
      BY <2>1, <2>9, <3>1, UnsubscribeDoes DEF Within, SameText, SameRead
    <3>. QED  BY <2>1, <3>1, <3>2, <3>3, WatcherBounded
  <2>. QED  BY <1>2, <2>3, <2>4, <2>5, <2>6, <2>7, <2>8, <2>9 DEF SubscriberStep
<1>3. ASSUME NEW w \in Watchers, WatcherStep(w)
      PROVE  Bounded'
  <2>1. Within(live[w], written) /\ \A t \in Subs : sub[t].size <= written
    BY DEF Bounded
  <2>2. CASE DebounceFires(w)
    <3>1. Within(live'[w], written)
      BY <2>1, <2>2, DebounceDoes DEF Within, SameText
    <3>. QED  BY <2>1, <2>2, <3>1, DebounceDoes, WatcherBounded
  <2>3. CASE Read(w)
    <3>1. live[w].offset <= written
      BY <2>1 DEF Within
    <3>2. Within(live'[w], written)
      BY <1>0, <2>1, <2>3, <3>1, ReadDoes DEF Within, SameText, SameTimer
    <3>. QED  BY <2>1, <2>3, <3>1, <3>2, ReadDoes, WatcherBounded
  <2>4. CASE ReadFails(w)
    <3>1. Within(live'[w], written)
      BY <2>1, <2>4, ReadFailsDoes DEF Within, SameText, SameTimer
    <3>. QED  BY <2>1, <2>4, <3>1, ReadFailsDoes, WatcherBounded
  <2>5. CASE Deliver(w)
    <3>1. /\ live'[w].offset \in {live[w].offset, live[w].result.offset}
          /\ live'[w].result = Nothing /\ SameTimer(live'[w], live[w])
      BY <2>5, DeliverDoes DEF After
    <3>2. Within(live'[w], written)
      BY <1>0, <2>1, <3>1, NothingIs DEF Within, SameTimer
    <3>. QED  BY <2>1, <2>5, <3>2, DeliverDoes, WatcherBounded
  <2>6. CASE WatchBreaks(w)
    <3>1. Within(live'[w], written)
      BY <2>1, <2>6, WatchBreaksDoes DEF Within, SameText, SameRead, SameTimer
    <3>. QED  BY <2>1, <2>6, <3>1, WatchBreaksDoes, WatcherBounded
  <2>7. CASE WatchGivesUp(w)
    <3>1. UNCHANGED <<written, live>> /\ \A s \in Subs : sub'[s].size = sub[s].size
      BY <2>7, GivesUpDoes
    <3>. QED  BY <3>1 DEF Bounded, Watchers
  <2>8. CASE Rewatch(w)
    <3>1. Within(live'[w], written)
      BY <2>1, <2>8, RewatchDoes DEF Within, SameText, SameRead, SameTimer
    <3>. QED  BY <2>1, <2>8, <3>1, RewatchDoes, WatcherBounded
  <2>9. CASE RewatchFails(w)
    <3>1. Within(live'[w], written)
      BY <2>1, <2>9, RewatchFailsDoes DEF Within, SameText, SameRead, SameTimer
    <3>. QED  BY <2>1, <2>9, <3>1, RewatchFailsDoes, WatcherBounded
  <2>. QED  BY <1>3, <2>2, <2>3, <2>4, <2>5, <2>6, <2>7, <2>8, <2>9 DEF WatcherStep
<1>. QED  BY <1>1, <1>2, <1>3 DEF Next

-----------------------------------------------------------------------------
(* What the subscribers know *)

Knows(s) == sub[s].got \cup sub[s].init

\* The subscribers of w that are promised every line: they have read the
\* file without an error, and after the watcher was made.
Told(w) == {s \in live[w].subs : ~Reading(s) /\ ~sub[s].failed /\ ~sub[s].early}

\* A step after which a subscriber is told has told it nothing less, or
\* everything there is.
Learns ==
    \A w \in Watchers' : \A s \in Told(w)' :
      \/ w \in Watchers /\ s \in Told(w) /\ Knows(s) \subseteq Knows(s)'
      \/ CompleteAt(written) \ Silent \subseteq Knows(s)'

LEMMA ToldAreSubs ==
  ASSUME Placed
  PROVE  \A w \in Watchers : Told(w) \subseteq live[w].subs /\ live[w].subs \subseteq Subs
  BY Indices DEF Told, Placed, WatcherState

\* Nobody is told while the watcher is made.
LEMMA MakerToldNobody ==
  ASSUME Placed, Held, NEW s \in Subs, Reading(s), sub[s].new
  PROVE  Told(current) = {}
<1>1. current \in Watchers
  BY MakerIsPlaced
<1>2. \A t \in live[current].subs : t \in Subs /\ sub[t].phase # "off"
  BY <1>1 DEF Placed
<1>. QED  BY <1>2 DEF Held, Made, Told

LEMMA LearnsWhen ==
  ASSUME Placed, Len(live') = Len(live),
         \A w \in Watchers : live'[w].subs \subseteq live[w].subs,
         \A s \in Subs : \/ Reading(s)' \/ sub'[s].failed
                         \/ /\ ~Reading(s) /\ sub'[s].failed = sub[s].failed
                            /\ sub'[s].early = sub[s].early
                            /\ Knows(s) \subseteq Knows(s)'
                         \/ CompleteAt(written) \ Silent \subseteq Knows(s)'
                         \/ \A w \in Watchers : s \notin live'[w].subs
  PROVE  Learns
<1>1. Watchers' = Watchers
  BY DEF Watchers
<1>2. ASSUME NEW w \in Watchers, NEW s \in Told(w)'
      PROVE  \/ s \in Told(w) /\ Knows(s) \subseteq Knows(s)'
             \/ CompleteAt(written) \ Silent \subseteq Knows(s)'
  <2>1. s \in live'[w].subs /\ s \in live[w].subs /\ s \in Subs
    BY <1>2, ToldAreSubs DEF Told
  <2>2. ~Reading(s)' /\ ~sub'[s].failed /\ ~sub'[s].early
    BY <1>2 DEF Told
  <2>. QED  BY <2>1, <2>2 DEF Told
<1>. QED  BY <1>1, <1>2 DEF Learns

\* The phases and marks of the subscriptions do not change.
LEMMA LearnsSame ==
  ASSUME Placed, Len(live') = Len(live), \A w \in Watchers : live'[w].subs = live[w].subs,
         UNCHANGED sub
  PROVE  Learns
<1>1. Watchers' = Watchers
  BY DEF Watchers
<1>2. \A w \in Watchers : Told(w)' = Told(w)
  BY DEF Told, Reading
<1>3. \A s \in Subs : Knows(s)' = Knows(s)
  BY DEF Knows
<1>. QED  BY <1>1, <1>2, <1>3, ToldAreSubs DEF Learns

\* The subscribers of w are told of an error.
LEMMA LearnsFailed ==
  ASSUME Placed, NEW w \in Watchers, Len(live') = Len(live),
         \A v \in Watchers : live'[v].subs = live[v].subs,
         \A s \in Subs : /\ s \in live[w].subs => sub'[s].failed
                         /\ s \notin live[w].subs => sub'[s] = sub[s]
  PROVE  Learns
<1>1. Watchers' = Watchers
  BY DEF Watchers
<1>2. ASSUME NEW v \in Watchers, NEW s \in Told(v)'
      PROVE  s \in Told(v) /\ Knows(s) \subseteq Knows(s)'
  <2>1. s \in live[v].subs /\ s \in Subs /\ ~sub'[s].failed /\ ~Reading(s)' /\ ~sub'[s].early
    BY <1>2, ToldAreSubs DEF Told
  <2>2. sub'[s] = sub[s]
    BY <2>1
  <2>. QED  BY <2>1, <2>2 DEF Told, Knows, Reading
<1>. QED  BY <1>1, <1>2 DEF Learns

LEMMA CompleteIsMonotone ==
  ASSUME NEW m \in Int, NEW n \in Int, m <= n
  PROVE  CompleteAt(m) \subseteq CompleteAt(n)
<1>1. \A k \in Lines : 3 * k - 1 <= m => 3 * k - 1 <= n
  BY LinesAreInts
<1>. QED  BY <1>1 DEF CompleteAt

LEMMA NothingComplete == CompleteAt(0) = {} /\ TornAt(0) = {}
<1>1. \A k \in Lines : k \in Int /\ k >= 1
  BY WatchAssumption DEF Lines
<1>2. \A k \in Lines : ~(3 * k - 1 <= 0) /\ 0 # 3 * k - 2
  BY <1>1
<1>. QED  BY <1>2 DEF CompleteAt, TornAt

LEMMA SubscribeLearns ==
  ASSUME Placed, NEW s \in Subs, SubscribeLive(s)
  PROVE  Learns
<1>. DEFINE w == IF current = 0 THEN Len(live) + 1 ELSE current
<1>1. /\ Turns(s) /\ sub'[s] = Joined(w)
      /\ Len(live') = IF current = 0 THEN Len(live) + 1 ELSE Len(live)
      /\ current = 0 => live'[w] = [NewWatcher EXCEPT !.subs = {s}]
      /\ current # 0 => live'[w].subs = live[w].subs \cup {s}
      /\ \A v \in Watchers : v # w => live'[v] = live[v]
  BY SubscribeDoes
<1>2. /\ Len(live) \in Nat /\ Watchers = 1..Len(live) /\ Watchers' = 1..Len(live')
      /\ current \in 0..Len(live)
  BY Indices DEF Placed, Typed, Watchers
<1>3. Reading(s)' \/ CompleteAt(written) \ Silent \subseteq Knows(s)'
  <2>1. CASE written = 0
    BY <2>1, NothingComplete
  <2>2. CASE written # 0
    BY <1>1, <2>2 DEF Joined, Unsubscribed, Reading
  <2>. QED  BY <2>1, <2>2
<1>4. ASSUME NEW v \in Watchers', NEW t \in Told(v)', t # s
      PROVE  v \in Watchers /\ t \in Told(v) /\ Knows(t) \subseteq Knows(t)'
  <2>1. t \in live'[v].subs /\ ~Reading(t)' /\ ~sub'[t].failed /\ ~sub'[t].early
    BY <1>4 DEF Told
  <2>2. v \in Watchers /\ t \in live[v].subs
    <3>1. CASE current = 0 /\ v = w
      <4>1. live'[v].subs = {s}
        BY <1>1, <3>1 DEF NewWatcher
      <4>. QED  BY <4>1, <2>1, <1>4
    <3>2. CASE current # 0 /\ v = w
      BY <1>1, <1>2, <1>4, <2>1, <3>2
    <3>3. CASE v # w
      BY <1>1, <1>2, <2>1, <3>3
    <3>. QED  BY <3>1, <3>2, <3>3
  <2>3. t \in Subs
    BY <2>2, ToldAreSubs
  <2>4. sub'[t] = sub[t]
    BY <1>1, <1>4, <2>3 DEF Turns
  <2>. QED  BY <2>1, <2>2, <2>4 DEF Told, Knows, Reading
<1>. HIDE DEF w
<1>5. \A v \in Watchers' : s \in Told(v)' => ~Reading(s)'
  BY DEF Told
<1>. QED  BY <1>3, <1>4, <1>5 DEF Learns

LEMMA LearnsStep ==
  ASSUME Placed, Next, Bounded
  PROVE  Learns
<1>1. CASE AgentWrites
  <2>1. /\ Len(live') = Len(live) /\ UNCHANGED sub
        /\ \A w \in Watchers : live'[w].subs = live[w].subs
    BY <1>1, AgentWritesDoes DEF Placed
  <2>. QED  BY <2>1, LearnsSame
<1>2. ASSUME NEW s \in Subs, SubscriberStep(s)
      PROVE  Learns
  <2>1. /\ sub[s].phase # "off" => current \in Watchers
        /\ \A t \in Subs : Knows(t) \subseteq Knows(t)
    BY CurrentIs
  <2>2. ASSUME Turns(s)
        PROVE  \A t \in Subs : t # s =>
                  \/ Reading(t)'
                  \/ /\ ~Reading(t) /\ sub'[t].failed = sub[t].failed
                     /\ sub'[t].early = sub[t].early
                     /\ Knows(t) \subseteq Knows(t)'
    BY <2>2 DEF Turns, Reading, Knows
  <2>3. CASE SubscribeLive(s)
    BY <2>3, SubscribeLearns
  <2>4. CASE Stat(s)
    <3>1. Turns(s) /\ Reading(s)' /\ live' = live
      BY <2>4, StatDoes DEF Reading
    <3>. QED  BY <2>2, <3>1, LearnsWhen
  <2>5. CASE ReadTail(s)
    <3>1. Turns(s) /\ CompleteAt(written) \ Silent \subseteq Knows(s)' /\ sub[s].phase # "off"
      BY <2>5, ReadTailDoes DEF Knows
    <3>2. Len(live') = Len(live) /\ \A w \in Watchers : live'[w].subs = live[w].subs
      BY <2>1, <2>5, ReadTailDoes DEF Changes
    <3>. QED  BY <2>2, <3>1, <3>2, LearnsWhen
  <2>6. CASE TailFails(s)
    <3>1. Turns(s) /\ sub'[s].failed
      BY <2>6, TailFailsDoes
    <3>2. Len(live') = Len(live) /\ \A w \in Watchers : live'[w].subs = live[w].subs
      BY <2>1, <2>6, TailFailsDoes DEF Changes
    <3>. QED  BY <2>2, <3>1, <3>2, LearnsWhen
  <2>7. CASE WatchFails(s)
    <3>1. /\ sub[s].phase # "off"
          /\ \A t \in Subs : /\ t \in live[current].subs => sub'[t].failed
                             /\ t \notin live[current].subs => sub'[t] = sub[t]
      BY <2>7, WatchFailsDoes
    <3>2. Len(live') = Len(live) /\ \A w \in Watchers : live'[w].subs = live[w].subs
      BY <2>1, <2>7, WatchFailsDoes DEF Changes
    <3>. QED  BY <2>1, <3>1, <3>2, LearnsFailed
  <2>8. CASE Reply(s)
    <3>1. /\ Turns(s) /\ live' = live /\ ~Reading(s) /\ sub'[s].failed = sub[s].failed
          /\ sub'[s].early = sub[s].early /\ Knows(s) \subseteq Knows(s)'
      BY <2>8, ReplyDoes DEF Reading, Knows
    <3>. QED  BY <2>2, <3>1, LearnsWhen
  <2>9. CASE UnsubscribeLive(s)
    <3>1. /\ Turns(s) /\ Changes(current) /\ sub[s].phase # "off"
          /\ live'[current].subs = live[current].subs \ {s}
      BY <2>9, UnsubscribeDoes
    <3>2. \A w \in Watchers : w # current => s \notin live[w].subs
      BY <3>1, CurrentIs DEF Placed
    <3>3. /\ \A w \in Watchers : live'[w].subs \subseteq live[w].subs
          /\ \A w \in Watchers : s \notin live'[w].subs
          /\ Len(live') = Len(live)
      BY <2>1, <3>1, <3>2 DEF Changes
    <3>. QED  BY <2>2, <3>1, <3>3, LearnsWhen
  <2>. QED  BY <1>2, <2>3, <2>4, <2>5, <2>6, <2>7, <2>8, <2>9 DEF SubscriberStep
<1>3. ASSUME NEW w \in Watchers, WatcherStep(w)
      PROVE  Learns
  <2>1. live[w].offset <= written
    BY DEF Bounded, Within
  <2>2. CASE DebounceFires(w)
    BY <2>2, DebounceDoes, LearnsSame DEF Changes
  <2>3. CASE Read(w)
    BY <2>1, <2>3, ReadDoes, LearnsSame DEF Changes
  <2>4. CASE ReadFails(w)
    <3>1. Len(live') = Len(live) /\ \A v \in Watchers : live'[v].subs = live[v].subs
      BY <2>4, ReadFailsDoes DEF Changes
    <3>. QED  BY <2>4, <3>1, ReadFailsDoes, LearnsFailed
  <2>5. CASE Deliver(w)
    <3>1. Len(live') = Len(live) /\ \A v \in Watchers : live'[v].subs = live[v].subs
      BY <2>5, DeliverDoes DEF Changes
    <3>2. \A s \in Subs : \/ Reading(s)'
                          \/ /\ ~Reading(s) /\ sub'[s].failed = sub[s].failed
                             /\ sub'[s].early = sub[s].early
                             /\ Knows(s) \subseteq Knows(s)'
      BY <2>5, DeliverDoes DEF Reading, Knows, SameRole
    <3>. QED  BY <3>1, <3>2, LearnsWhen
  <2>6. CASE WatchBreaks(w)
    BY <2>6, WatchBreaksDoes, LearnsSame DEF Changes
  <2>7. CASE WatchGivesUp(w)
    BY <2>7, GivesUpDoes, LearnsFailed
  <2>8. CASE Rewatch(w)
    BY <2>8, RewatchDoes, LearnsSame DEF Changes
  <2>9. CASE RewatchFails(w)
    <3>1. Len(live') = Len(live) /\ \A v \in Watchers : live'[v].subs = live[v].subs
      BY <2>9, RewatchFailsDoes DEF Changes
    <3>. QED  BY <2>9, <3>1, RewatchFailsDoes, LearnsFailed
  <2>. QED  BY <1>3, <2>2, <2>3, <2>4, <2>5, <2>6, <2>7, <2>8, <2>9 DEF WatcherStep
<1>. QED  BY <1>1, <1>2, <1>3 DEF Next


-----------------------------------------------------------------------------
(* What a step does to the text a watcher has read *)

\* Nothing: no read ends, and nothing is sent.
Quiet(w) ==
    /\ w \in Watchers
    /\ SameText(live'[w], live[w]) /\ live'[w].result = live[w].result
    /\ live'[w].step = "read" => live[w].step = "read"
    /\ \/ Told(w)' = {} \/ live'[w].timer
       \/ live'[w].step = "reading"
       \/ live'[w].step = "read" /\ live'[w].again
       \/ ~live[w].timer /\ SameRead(live'[w], live[w]) /\ live'[w].noticed = live[w].noticed

\* The watcher is new, or its maker has read the file; nobody was told a thing.
Starts(w) ==
    /\ live'[w].offset <= written /\ TornAt(live'[w].offset) \subseteq torn'
    /\ live'[w].pending = <<>> /\ live'[w].sent = <<>> /\ live'[w].step = "idle"
    /\ live'[w].noticed <= written
    /\ live'[w].result = Nothing \/ (w \in Watchers /\ live'[w].result = live[w].result)
    /\ w \in Watchers => Told(w) = {}

Parses(w) ==
    /\ w \in Watchers /\ written' = written /\ TornAt(written) \subseteq torn'
    /\ SameText(live'[w], live[w]) /\ live'[w].step = "read"
    /\ live'[w].result = Parsed(w)

Misses(w) ==
    /\ w \in Watchers /\ SameText(live'[w], live[w]) /\ live'[w].step = "read"
    /\ live'[w].result.entries = {} /\ live'[w].result.offset = live[w].offset
    /\ live'[w].result.pending = live[w].pending
    /\ Told(w)' = {}

Sends(w) ==
    LET r == live[w].result
    IN  /\ w \in Watchers /\ live[w].step = "read"
        /\ live'[w].pending = r.pending /\ live'[w].offset = After(live[w].offset, r)
        /\ live'[w].sent = IF r.entries = {} THEN live[w].sent
                           ELSE Append(live[w].sent, r.entries)
        /\ live'[w].step = IF live[w].again THEN "reading" ELSE "idle"
        /\ live'[w].result = Nothing
        /\ SameTimer(live'[w], live[w])
        /\ \A s \in Told(w)' : s \in Told(w) /\ Knows(s) \cup r.entries \subseteq Knows(s)'

\* One of these is what a step does to the text of a watcher.
Move(w) == Quiet(w) \/ Starts(w) \/ Parses(w) \/ Misses(w) \/ Sends(w)

LEMMA SameIsQuiet ==
  ASSUME NEW w \in Watchers, SameText(live'[w], live[w]), SameRead(live'[w], live[w]),
         SameTimer(live'[w], live[w])
  PROVE  Quiet(w)
  BY DEF Quiet, SameRead, SameTimer

LEMMA OthersAreQuiet ==
  ASSUME Placed, NEW w \in Watchers, Changes(w),
         Move(w)
  PROVE  \A v \in Watchers' : Move(v)
<1>1. Watchers' = Watchers
  BY DEF Changes, Watchers
<1>2. ASSUME NEW v \in Watchers, v # w
      PROVE  Quiet(v)
  <2>1. live'[v] = live[v]
    BY <1>2 DEF Changes
  <2>2. SameText(live[v], live[v]) /\ SameRead(live[v], live[v]) /\ SameTimer(live[v], live[v])
    BY DEF SameText, SameRead, SameTimer
  <2>. QED  BY <2>1, <2>2, SameIsQuiet
<1>. QED  BY <1>1, <1>2 DEF Move

LEMMA AllAreQuiet ==
  ASSUME live' = live
  PROVE  \A v \in Watchers' : Quiet(v)
<1>1. Watchers' = Watchers
  BY DEF Watchers
<1>2. ASSUME NEW v \in Watchers
      PROVE  Quiet(v)
  <2>1. live'[v] = live[v]
    OBVIOUS
  <2>2. SameText(live[v], live[v]) /\ SameRead(live[v], live[v]) /\ SameTimer(live[v], live[v])
    BY DEF SameText, SameRead, SameTimer
  <2>. QED  BY <2>1, <2>2, SameIsQuiet
<1>. QED  BY <1>1, <1>2

LEMMA NothingShrinks ==
  ASSUME Placed, Bounded, Next
  PROVE  torn \subseteq torn' /\ written \in Nat /\ written' \in Nat /\ written <= written'
<1>0. written \in Nat /\ written <= written /\ torn \subseteq torn
  BY DEF Placed, Typed
<1>1. CASE AgentWrites
  BY <1>0, <1>1, AgentWritesDoes DEF Placed
<1>2. ASSUME NEW s \in Subs, SubscriberStep(s)
      PROVE  torn \subseteq torn' /\ written' = written
  BY <1>2 DEF SubscriberStep, SubscribeLive, Stat, ReadTail, TailFails, WatchFails, Reply,
     UnsubscribeLive
<1>3. ASSUME NEW w \in Watchers, WatcherStep(w)
      PROVE  torn \subseteq torn' /\ written' = written
  BY <1>3 DEF WatcherStep, DebounceFires, Read, ReadFails, Deliver, WatchBreaks, WatchGivesUp,
     Rewatch, RewatchFails
<1>. QED  BY <1>0, <1>1, <1>2, <1>3 DEF Next

LEMMA SubscribeMoves ==
  ASSUME Placed, Bounded, NEW s \in Subs, SubscribeLive(s)
  PROVE  \A v \in Watchers' : Move(v)
<1>. DEFINE w == IF current = 0 THEN Len(live) + 1 ELSE current
<1>1. /\ Len(live') = IF current = 0 THEN Len(live) + 1 ELSE Len(live)
      /\ current = 0 => live'[w] = [NewWatcher EXCEPT !.subs = {s}]
      /\ current # 0 => /\ SameText(live'[w], live[w])
                        /\ SameRead(live'[w], live[w]) /\ SameTimer(live'[w], live[w])
      /\ \A v \in Watchers : v # w => live'[v] = live[v]
  BY SubscribeDoes
<1>2. /\ Len(live) \in Nat /\ Watchers = 1..Len(live) /\ Watchers' = 1..Len(live')
      /\ current \in 0..Len(live) /\ written \in Nat
  BY Indices DEF Placed, Typed, Watchers
<1>3. CASE current = 0
  <2>1. /\ live'[w].offset = 0 /\ live'[w].pending = <<>> /\ live'[w].sent = <<>>
        /\ live'[w].step = "idle" /\ live'[w].noticed = 0 /\ live'[w].result = Nothing
    BY <1>1, <1>3 DEF NewWatcher
  <2>2. w \notin Watchers /\ \A v \in Watchers' : v # w => v \in Watchers
    BY <1>1, <1>2, <1>3
  <2>. HIDE DEF w
  <2>3. Starts(w)
    BY <1>2, <2>1, <2>2, NothingComplete DEF Starts
  <2>. QED  BY <1>1, <2>2, <2>3, SameIsQuiet DEF Move, SameText, SameRead, SameTimer
<1>4. CASE current # 0
  <2>1. w \in Watchers /\ Watchers' = Watchers
    BY <1>1, <1>2, <1>4
  <2>. HIDE DEF w
  <2>. QED  BY <1>1, <1>4, <2>1, SameIsQuiet DEF Move, SameText, SameRead, SameTimer
<1>. QED  BY <1>3, <1>4

LEMMA SubscriberMoves ==
  ASSUME Placed, Held, Bounded, NEW s \in Subs, SubscriberStep(s)
  PROVE  \A v \in Watchers' : Move(v)
<1>1. CASE SubscribeLive(s)
  BY <1>1, SubscribeMoves
<1>2. CASE Stat(s) \/ Reply(s)
  BY <1>2, StatDoes, ReplyDoes, AllAreQuiet DEF Move
<1>3. CASE ReadTail(s) /\ ~sub[s].new
  BY <1>3, ReadTailDoes, AllAreQuiet DEF Move
<1>4. CASE TailFails(s) /\ ~sub[s].new
  BY <1>4, TailFailsDoes, AllAreQuiet DEF Move
<1>5. CASE (ReadTail(s) /\ sub[s].new) \/ WatchFails(s)
  <2>1. Reading(s) /\ sub[s].new
    BY <1>5, ReadTailDoes, WatchFailsDoes DEF Reading
  <2>2. current \in Watchers /\ Told(current) = {} /\ Fresh(current)
    BY <1>5, <2>1, MakerIsPlaced, MakerToldNobody DEF Held, Made
  <2>3. PICK w \in Watchers : w = current
    BY <2>2
  <2>4. /\ Changes(w) /\ live'[w].offset = sub[s].size
        /\ torn' = torn \cup TornAt(sub[s].size)
        /\ live'[w].pending = <<>> /\ live'[w].sent = <<>>
        /\ live'[w].step = "idle" /\ live'[w].noticed = live[w].noticed
        /\ live'[w].result = live[w].result
    BY <1>5, <2>2, <2>3, ReadTailDoes, WatchFailsDoes DEF Fresh, SameRead, SameTimer
  <2>5. sub[s].size <= written /\ live[w].noticed <= written
    BY DEF Bounded, Within
  <2>6. Told(w) = {}
    BY <2>2, <2>3
  <2>7. Starts(w)
    BY <2>4, <2>5, <2>6 DEF Starts
  <2>. QED  BY <2>4, <2>7, OthersAreQuiet DEF Move
<1>6. CASE TailFails(s) /\ sub[s].new
  <2>1. Reading(s)
    BY <1>6, TailFailsDoes DEF Reading
  <2>2. PICK w \in Watchers : w = current
    BY <2>1, MakerIsPlaced
  <2>3. /\ Changes(w) /\ SameText(live'[w], live[w])
        /\ SameRead(live'[w], live[w]) /\ SameTimer(live'[w], live[w])
    BY <1>6, <2>2, TailFailsDoes
  <2>. QED  BY <2>3, SameIsQuiet, OthersAreQuiet DEF Move
<1>7. CASE UnsubscribeLive(s)
  <2>1. sub[s].phase # "off"
    BY <1>7, UnsubscribeDoes
  <2>2. PICK w \in Watchers : w = current
    BY <2>1, CurrentIs
  <2>3. /\ Changes(w) /\ live'[w].subs = live[w].subs \ {s}
        /\ live'[w].timer <=> live[w].timer /\ live[w].subs # {s}
        /\ live'[w].noticed = live[w].noticed
        /\ SameText(live'[w], live[w]) /\ SameRead(live'[w], live[w])
    BY <1>7, <2>2, UnsubscribeDoes
  <2>4. live[w].subs = {s} => Told(w)' = {}
    BY <2>3 DEF Told
  <2>5. Quiet(w)
    BY <2>3, <2>4 DEF Quiet, SameRead
  <2>. QED  BY <2>3, <2>5, OthersAreQuiet DEF Move
<1>. QED  BY <1>1, <1>2, <1>3, <1>4, <1>5, <1>6, <1>7 DEF SubscriberStep

LEMMA NobodyToldOfFailure ==
  ASSUME NEW w \in Watchers, live'[w].subs = live[w].subs,
         \A s \in live[w].subs : sub'[s].failed
  PROVE  Told(w)' = {}
  BY DEF Told

LEMMA WatcherMoves ==
  ASSUME Placed, Bounded, NEW w \in Watchers, WatcherStep(w)
  PROVE  \A v \in Watchers' : Move(v)
<1>0. live[w].subs \subseteq Subs /\ live[w].offset <= written
  BY ToldAreSubs DEF Bounded, Within
<1>1. CASE DebounceFires(w)
  <2>1. /\ Changes(w) /\ SameText(live'[w], live[w]) /\ live'[w].result = live[w].result
        /\ live'[w].step = IF live[w].step = "idle" THEN "reading" ELSE live[w].step
        /\ live'[w].again <=> live[w].again \/ live[w].step # "idle"
    BY <1>1, DebounceDoes
  <2>2. live[w].step \in {"idle", "reading", "read"}
    BY Indices DEF Placed, WatcherState
  <2>3. Quiet(w)
    BY <2>1, <2>2 DEF Quiet
  <2>. QED  BY <2>1, <2>3, OthersAreQuiet DEF Move
<1>2. CASE Read(w)
  <2>1. Parses(w) /\ Changes(w)
    BY <1>0, <1>2, ReadDoes DEF Parses
  <2>. QED  BY <2>1, OthersAreQuiet DEF Move
<1>3. CASE ReadFails(w)
  <2>1. Told(w)' = {}
    BY <1>0, <1>3, ReadFailsDoes, NobodyToldOfFailure
  <2>2. Misses(w) /\ Changes(w)
    BY <1>3, <2>1, ReadFailsDoes DEF Misses
  <2>. QED  BY <2>2, OthersAreQuiet DEF Move
<1>4. CASE Deliver(w)
  <2>1. live'[w].subs = live[w].subs
    BY <1>4, DeliverDoes
  <2>2. \A s \in Told(w)' : s \in live[w].subs /\ s \in Subs
    BY <1>0, <2>1 DEF Told
  <2>3. \A s \in Told(w)' : s \in Told(w) /\ Knows(s) \cup live[w].result.entries \subseteq Knows(s)'
    BY <1>4, <2>2, DeliverDoes DEF Told, Knows, Reading, SameRole
  <2>4. Sends(w) /\ Changes(w)
    BY <1>4, <2>3, DeliverDoes DEF Sends
  <2>. QED  BY <2>4, OthersAreQuiet DEF Move
<1>5. CASE WatchBreaks(w)
  BY <1>5, WatchBreaksDoes, SameIsQuiet, OthersAreQuiet DEF Move
<1>6. CASE WatchGivesUp(w)
  BY <1>6, GivesUpDoes, AllAreQuiet DEF Move
<1>7. CASE Rewatch(w)
  BY <1>7, RewatchDoes, SameIsQuiet, OthersAreQuiet DEF Move
<1>8. CASE RewatchFails(w)
  BY <1>8, RewatchFailsDoes, SameIsQuiet, OthersAreQuiet DEF Move
<1>. QED  BY <1>1, <1>2, <1>3, <1>4, <1>5, <1>6, <1>7, <1>8 DEF WatcherStep

LEMMA AgentMoves ==
  ASSUME Placed, AgentWrites
  PROVE  \A v \in Watchers' : Move(v)
<1>1. /\ Len(live') = Len(live)
      /\ \A w \in Watchers :
           IF live[w].fs = "open"
           THEN /\ SameText(live'[w], live[w]) /\ SameRead(live'[w], live[w])
                /\ live'[w].timer = TRUE
           ELSE live'[w] = live[w]
  BY AgentWritesDoes DEF Placed
<1>2. Watchers' = Watchers
  BY <1>1 DEF Watchers
<1>3. ASSUME NEW w \in Watchers
      PROVE  Quiet(w)
  <2>1. CASE live[w].fs = "open"
    BY <1>1, <2>1 DEF Quiet, SameRead
  <2>2. CASE live[w].fs # "open"
    <3>1. SameText(live'[w], live[w]) /\ SameRead(live'[w], live[w]) /\ SameTimer(live'[w], live[w])
      BY <1>1, <2>2 DEF SameText, SameRead, SameTimer
    <3>. QED  BY <3>1, SameIsQuiet
  <2>. QED  BY <2>1, <2>2
<1>. QED  BY <1>2, <1>3 DEF Move

LEMMA Moves ==
  ASSUME Placed, Held, Bounded, Next
  PROVE  \A w \in Watchers' : Move(w)
  BY AgentMoves, SubscriberMoves, WatcherMoves DEF Next

-----------------------------------------------------------------------------
(* Every line that was passed was sent or is in the init *)

\* What a watcher has read it can read on from.
TextAt(q, t) ==
    LET r == q.result
    IN  /\ Fits(q.offset, q.pending, t)
        /\ q.step = "read" =>
             /\ Fits(After(q.offset, r), r.pending, t)
             /\ r.entries # {} =>
                  CompleteAt(r.offset) \ (Silent \cup t) \subseteq CompleteAt(q.offset) \cup r.entries

Readable == \A w \in Watchers : TextAt(live[w], torn)

Passed ==
    \A w \in Watchers : \A s \in Told(w) :
      CompleteAt(live[w].offset) \ (Silent \cup torn) \subseteq Knows(s)

LEMMA FitsGrows ==
  ASSUME NEW o, NEW p, NEW t, NEW u, t \subseteq u, Fits(o, p, t)
  PROVE  Fits(o, p, u)
  BY DEF Fits

LEMMA ReadState ==
  ASSUME Placed, Bounded, NEW w \in Watchers
  PROVE  /\ live[w].offset \in Nat /\ live[w].pending \in Seq(Int) /\ written \in Nat
         /\ live[w].noticed \in Nat /\ live[w].offset <= written /\ live[w].noticed <= written
         /\ live[w].result \in ReadResult /\ live[w].sent \in Seq(SUBSET Int)
<1>1. live[w] \in WatcherState
  BY Indices DEF Placed
<1>2. written \in Nat /\ live[w].offset <= written /\ live[w].noticed <= written
  BY DEF Placed, Typed, Bounded, Within
<1>3. live[w].offset \in Nat /\ live[w].pending \in Seq(Int) /\ live[w].noticed \in Nat
  BY <1>1 DEF WatcherState
<1>4. live[w].result \in ReadResult /\ live[w].sent \in Seq(SUBSET Int)
  BY <1>1 DEF WatcherState
<1>. QED  BY <1>2, <1>3, <1>4

LEMMA InitReadable == ASSUME Init PROVE Readable /\ Passed
  BY DEF Init, Readable, Passed, Watchers

LEMMA ReadableStep ==
  ASSUME Placed, Held, Bounded, Next, Readable
  PROVE  Readable'
<1>1. SUFFICES ASSUME NEW w \in Watchers'
               PROVE  TextAt(live'[w], torn')
  BY DEF Readable, TextAt, Fits, After, CompleteAt, TornAt, Lines
<1>2. Move(w) /\ torn \subseteq torn'
  BY Moves, NothingShrinks
<1>3. CASE Quiet(w)
  <2>1. w \in Watchers /\ TextAt(live[w], torn)
    BY <1>3 DEF Quiet, Readable
  <2>2. /\ SameText(live'[w], live[w]) /\ live'[w].result = live[w].result
        /\ live'[w].step = "read" => live[w].step = "read"
    BY <1>3 DEF Quiet
  <2>. QED  BY <1>2, <2>1, <2>2, FitsGrows DEF TextAt, SameText
<1>4. CASE Starts(w)
  <2>1. Fits(live'[w].offset, live'[w].pending, torn')
    BY <1>4 DEF Starts, Fits
  <2>. QED  BY <1>4, <2>1 DEF Starts, TextAt
<1>5. CASE Parses(w)
  <2>1. w \in Watchers /\ TextAt(live[w], torn)
    BY <1>5 DEF Parses, Readable
  <2>2. /\ TornAt(written) \subseteq torn' /\ SameText(live'[w], live[w])
        /\ live'[w].result = Parsed(w)
    BY <1>5 DEF Parses
  <2>3. Fits(live[w].offset, live[w].pending, torn')
    BY <1>2, <2>1, FitsGrows DEF TextAt
  <2>4. /\ Fits(After(live[w].offset, Parsed(w)), Parsed(w).pending, torn')
        /\ CompleteAt(written) \ (Silent \cup torn') \subseteq CompleteAt(live[w].offset) \cup Parsed(w).entries
        /\ Parsed(w).offset = written
    BY <2>1, <2>2, <2>3, ReadState, ReadFits, ReadPasses, ParseIs DEF Parsed
  <2>. QED  BY <2>2, <2>3, <2>4 DEF TextAt, SameText
<1>6. CASE Misses(w)
  <2>1. w \in Watchers /\ TextAt(live[w], torn)
    BY <1>6 DEF Misses, Readable
  <2>2. Fits(live[w].offset, live[w].pending, torn')
    BY <1>2, <2>1, FitsGrows DEF TextAt
  <2>. QED  BY <1>6, <2>2 DEF Misses, TextAt, After, SameText
<1>7. CASE Sends(w)
  <2>1. w \in Watchers /\ TextAt(live[w], torn) /\ live[w].step = "read" /\ live'[w].step # "read"
    BY <1>7 DEF Sends, Readable
  <2>2. Fits(After(live[w].offset, live[w].result), live[w].result.pending, torn')
    BY <1>2, <2>1, FitsGrows DEF TextAt
  <2>. QED  BY <1>7, <2>1, <2>2 DEF Sends, TextAt
<1>. QED  BY <1>2, <1>3, <1>4, <1>5, <1>6, <1>7 DEF Move

\* A subscriber knows what it knew, or all there is.
LEMMA LearnsUpTo ==
  ASSUME Placed, Bounded, Next, NEW w \in Watchers', NEW s \in Told(w)',
         NEW n \in Int, n <= written,
         w \in Watchers /\ s \in Told(w) =>
           CompleteAt(n) \ (Silent \cup torn) \subseteq Knows(s)
  PROVE  CompleteAt(n) \ (Silent \cup torn') \subseteq Knows(s)'
<1>1. torn \subseteq torn' /\ written \in Int
  BY NothingShrinks
<1>2. CompleteAt(n) \subseteq CompleteAt(written)
  BY <1>1, CompleteIsMonotone
<1>3. \/ w \in Watchers /\ s \in Told(w) /\ Knows(s) \subseteq Knows(s)'
      \/ CompleteAt(written) \ Silent \subseteq Knows(s)'
  BY LearnsStep DEF Learns
<1>. QED  BY <1>1, <1>2, <1>3

LEMMA PassedStep ==
  ASSUME Placed, Held, Bounded, Next, Readable, Passed, Placed', Bounded'
  PROVE  Passed'
<1>1. SUFFICES ASSUME NEW w \in Watchers', NEW s \in Told(w)'
               PROVE  CompleteAt(live'[w].offset) \ (Silent \cup torn') \subseteq Knows(s)'
  BY DEF Passed, CompleteAt, Lines
<1>2. Move(w) /\ torn \subseteq torn'
  BY Moves, NothingShrinks
<1>3. w \in Watchers => /\ live[w].offset \in Int /\ live[w].offset <= written
                        /\ \A t \in Told(w) : CompleteAt(live[w].offset) \ (Silent \cup torn) \subseteq Knows(t)
  BY ReadState DEF Passed
<1>4. live'[w].offset \in Int
  <2>1. live'[w] \in WatcherState
    BY Indices DEF Placed, Typed, Watchers
  <2>. QED  BY <2>1 DEF WatcherState
<1>5. CASE live'[w].offset = live[w].offset /\ w \in Watchers
  BY <1>3, <1>5, LearnsUpTo
<1>6. CASE Starts(w)
  BY <1>4, <1>6, LearnsUpTo DEF Starts
<1>7. CASE Sends(w)
  <2>1. w \in Watchers /\ TextAt(live[w], torn)
    BY <1>7 DEF Sends, Readable
  <2>2. CASE live[w].result.entries = {}
    BY <1>5, <1>7, <2>1, <2>2 DEF Sends, After
  <2>3. CASE live[w].result.entries # {}
    <3>1. /\ live'[w].offset = live[w].result.offset /\ live[w].step = "read" /\ s \in Told(w)
          /\ Knows(s) \cup live[w].result.entries \subseteq Knows(s)'
      BY <1>7, <2>3 DEF Sends, After
    <3>2. CompleteAt(live[w].result.offset) \ (Silent \cup torn)
             \subseteq CompleteAt(live[w].offset) \cup live[w].result.entries
      BY <2>1, <2>3, <3>1 DEF TextAt
    <3>3. CompleteAt(live[w].offset) \ (Silent \cup torn) \subseteq Knows(s)
      BY <1>3, <2>1, <3>1
    <3>. QED  BY <1>2, <3>1, <3>2, <3>3
  <2>. QED  BY <2>2, <2>3
<1>8. CASE Quiet(w) \/ Parses(w) \/ Misses(w)
  BY <1>5, <1>8 DEF Quiet, Parses, Misses, SameText
<1>. QED  BY <1>2, <1>6, <1>7, <1>8 DEF Move

-----------------------------------------------------------------------------
(* A watcher at rest has sent what it noticed *)

Noticed ==
    \A w \in Watchers : ~live[w].timer => \A s \in Told(w) :
      LET due == CompleteAt(live[w].noticed) \ (Silent \cup torn)
      IN  /\ live[w].step = "idle" => due \subseteq Knows(s)
          /\ live[w].step = "read" /\ ~live[w].again =>
               due \subseteq Knows(s) \cup live[w].result.entries

LEMMA InitNoticed == ASSUME Init PROVE Noticed
<1>1. Watchers = {}
  BY DEF Init, Watchers
<1>. QED  BY <1>1 DEF Noticed

LEMMA NoticedStep ==
  ASSUME Placed, Held, Bounded, Next, Readable, Passed, Noticed, Placed', Bounded', Passed'
  PROVE  Noticed'
<1>1. SUFFICES ASSUME NEW w \in Watchers', ~live'[w].timer, NEW s \in Told(w)'
               PROVE  LET due == CompleteAt(live'[w].noticed) \ (Silent \cup torn')
                      IN  /\ live'[w].step = "idle" => due \subseteq Knows(s)'
                          /\ live'[w].step = "read" /\ ~live'[w].again =>
                               due \subseteq Knows(s)' \cup live'[w].result.entries
  BY DEF Noticed, CompleteAt, Lines
<1>. DEFINE due == CompleteAt(live'[w].noticed) \ (Silent \cup torn')
<1>2. Move(w) /\ torn \subseteq torn'
  BY Moves, NothingShrinks
<1>3. w \in Watchers => live[w].noticed \in Int /\ live[w].noticed <= written
  BY ReadState
<1>4. live'[w].noticed \in Int /\ live'[w].noticed <= written'
  <2>1. live'[w] \in WatcherState
    BY Indices DEF Placed, Typed, Watchers
  <2>2. live'[w].noticed <= written'
    BY DEF Bounded, Within
  <2>. QED  BY <2>1, <2>2 DEF WatcherState
<1>5. CASE Quiet(w)
  <2>1. CASE live'[w].step = "reading" \/ (live'[w].step = "read" /\ live'[w].again)
    BY <2>1
  <2>2. CASE ~live[w].timer /\ SameRead(live'[w], live[w]) /\ live'[w].noticed = live[w].noticed
    <3>1. w \in Watchers /\ live'[w].result = live[w].result
      BY <1>5 DEF Quiet
    <3>2. \/ s \in Told(w) /\ Knows(s) \subseteq Knows(s)'
          \/ CompleteAt(written) \ Silent \subseteq Knows(s)'
      BY LearnsStep DEF Learns
    <3>3. CompleteAt(live[w].noticed) \subseteq CompleteAt(written)
      BY <1>3, <3>1, CompleteIsMonotone DEF Placed, Typed
    <3>4. CASE s \in Told(w) /\ Knows(s) \subseteq Knows(s)'
      BY <1>2, <2>2, <3>1, <3>4 DEF Noticed, SameRead
    <3>5. CASE CompleteAt(written) \ Silent \subseteq Knows(s)'
      BY <2>2, <3>3, <3>5
    <3>. QED  BY <3>2, <3>4, <3>5
  <2>. QED  BY <1>1, <1>5, <2>1, <2>2 DEF Quiet
<1>6. CASE Starts(w)
  <2>1. due \subseteq Knows(s)'
    BY <1>4, <1>6, LearnsUpTo DEF Starts
  <2>. QED  BY <1>6, <2>1 DEF Starts
<1>7. CASE Parses(w)
  <2>1. w \in Watchers /\ TextAt(live[w], torn)
    BY <1>7 DEF Parses, Readable
  <2>2. /\ TornAt(written) \subseteq torn' /\ SameText(live'[w], live[w])
        /\ live'[w].result = Parsed(w) /\ live'[w].step = "read" /\ written' = written
    BY <1>7 DEF Parses
  <2>3. Fits(live[w].offset, live[w].pending, torn')
    BY <1>2, <2>1, FitsGrows DEF TextAt
  <2>4. CompleteAt(written) \ (Silent \cup torn') \subseteq CompleteAt(live[w].offset) \cup Parsed(w).entries
    BY <2>1, <2>2, <2>3, ReadState, ReadPasses DEF Parsed
  <2>5. CompleteAt(live'[w].noticed) \subseteq CompleteAt(written)
    BY <1>4, <2>2, CompleteIsMonotone DEF Placed, Typed
  <2>6. CompleteAt(live[w].offset) \ (Silent \cup torn') \subseteq Knows(s)'
    <3>1. CompleteAt(live'[w].offset) \ (Silent \cup torn') \subseteq Knows(s)'
      BY DEF Passed, CompleteAt, Lines
    <3>. QED  BY <2>2, <3>1 DEF SameText
  <2>. QED  BY <2>2, <2>4, <2>5, <2>6
<1>8. CASE Misses(w)
  BY <1>8 DEF Misses
<1>9. CASE Sends(w)
  <2>1. /\ w \in Watchers /\ ~live[w].timer /\ live'[w].noticed = live[w].noticed
        /\ live[w].step = "read" /\ live'[w].step = (IF live[w].again THEN "reading" ELSE "idle")
        /\ s \in Told(w) /\ Knows(s) \cup live[w].result.entries \subseteq Knows(s)'
    BY <1>1, <1>9 DEF Sends, SameTimer
  <2>2. ~live[w].again => CompleteAt(live[w].noticed) \ (Silent \cup torn)
                             \subseteq Knows(s) \cup live[w].result.entries
    BY <2>1 DEF Noticed
  <2>. QED  BY <1>2, <2>1, <2>2
<1>. QED  BY <1>2, <1>5, <1>6, <1>7, <1>8, <1>9 DEF Move

-----------------------------------------------------------------------------
(* Each entry is sent once, in the order of the file *)

AllBehind(sent, o, p) == \A i \in 1..Len(sent) : \A k \in sent[i] : Behind(k, o, p)
InOrder(sent) ==
    \A i, j \in 1..Len(sent) : i < j => \A k \in sent[i], l \in sent[j] : k < l

OrderAt(q, n) ==
    LET r == q.result
    IN  /\ AllBehind(q.sent, q.offset, q.pending)
        /\ InOrder(q.sent)
        /\ Clean(q.pending, n)
        /\ q.step = "read" =>
             /\ Clean(r.pending, n)
             /\ AllBehind(q.sent, After(q.offset, r), r.pending)
             /\ \A i \in 1..Len(q.sent) : \A k \in q.sent[i], l \in r.entries : k < l
             /\ \A k \in r.entries : Behind(k, r.offset, r.pending)

Ordered == \A w \in Watchers : OrderAt(live[w], written)

LEMMA InitOrdered == ASSUME Init PROVE Ordered
<1>1. Watchers = {}
  BY DEF Init, Watchers
<1>. QED  BY <1>1 DEF Ordered

LEMMA CleanGrows ==
  ASSUME NEW p \in Seq(Int), NEW m \in Int, NEW n \in Int, m <= n, Clean(p, m)
  PROVE  Clean(p, n)
<1>1. \A i \in 1..Len(p) : p[i] \in Int
  OBVIOUS
<1>. QED  BY <1>1 DEF Clean

LEMMA EmptyIsClean == \A n : Clean(<<>>, n) /\ \A o : AllBehind(<<>>, o, <<>>) /\ InOrder(<<>>)
<1>1. ~WholeLineAt(<<>>, 1)
  BY DEF WholeLineAt
<1>. QED  BY <1>1 DEF Clean, AllBehind, InOrder

\* One batch more, behind which nothing is pending.
LEMMA OneBatchMore ==
  ASSUME NEW sent \in Seq(SUBSET Int), NEW e \in SUBSET Int, NEW o, NEW p,
         InOrder(sent), AllBehind(sent, o, p), \A k \in e : Behind(k, o, p),
         \A i \in 1..Len(sent) : \A k \in sent[i], l \in e : k < l
  PROVE  InOrder(Append(sent, e)) /\ AllBehind(Append(sent, e), o, p)
<1>. DEFINE more == Append(sent, e)
<1>1. /\ Len(sent) \in Nat /\ Len(more) = Len(sent) + 1 /\ more[Len(sent) + 1] = e
      /\ \A i \in 1..Len(sent) : more[i] = sent[i]
  OBVIOUS
<1>. HIDE DEF more
<1>2. \A i \in 1..Len(more) : i \in 1..Len(sent) \/ i = Len(sent) + 1
  BY <1>1
<1>3. ASSUME NEW i \in 1..Len(more), NEW j \in 1..Len(more), i < j
      PROVE  i \in 1..Len(sent) /\ (j \in 1..Len(sent) \/ j = Len(sent) + 1)
  BY <1>1, <1>3
<1>4. InOrder(more)
  BY <1>1, <1>3 DEF InOrder
<1>5. AllBehind(more, o, p)
  BY <1>1, <1>2 DEF AllBehind
<1>. QED  BY <1>4, <1>5 DEF more

LEMMA OrderedStep ==
  ASSUME Placed, Held, Bounded, Next, Ordered
  PROVE  Ordered'
<1>1. SUFFICES ASSUME NEW w \in Watchers'
               PROVE  OrderAt(live'[w], written')
  BY DEF Ordered, OrderAt, AllBehind, InOrder, Clean, Behind, After, WholeLineAt, StartsSegment,
     IsNewline
<1>2. Move(w) /\ written \in Int /\ written' \in Int /\ written <= written'
  BY Moves, NothingShrinks
<1>3. w \in Watchers =>
        /\ OrderAt(live[w], written)
        /\ live[w].offset \in Nat /\ live[w].pending \in Seq(Int) /\ live[w].offset <= written
        /\ live[w].result.entries \in SUBSET Int /\ live[w].result.pending \in Seq(Int)
        /\ live[w].sent \in Seq(SUBSET Int)
  BY ReadState DEF Ordered, ReadResult
<1>4. w \in Watchers => Clean(live[w].pending, written')
  BY <1>2, <1>3, CleanGrows DEF OrderAt
<1>5. w \in Watchers /\ live[w].step = "read" => Clean(live[w].result.pending, written')
  BY <1>2, <1>3, CleanGrows DEF OrderAt
<1>6. CASE Quiet(w)
  <2>1. /\ w \in Watchers /\ SameText(live'[w], live[w]) /\ live'[w].result = live[w].result
        /\ live'[w].step = "read" => live[w].step = "read"
    BY <1>6 DEF Quiet
  <2>. QED  BY <1>3, <1>4, <1>5, <2>1 DEF OrderAt, SameText
<1>7. CASE Starts(w)
  BY <1>7, EmptyIsClean DEF Starts, OrderAt
<1>8. CASE Parses(w)
  <2>. DEFINE r == Parsed(w)
  <2>1. /\ w \in Watchers /\ written' = written /\ SameText(live'[w], live[w])
        /\ live'[w].step = "read" /\ live'[w].result = r
    BY <1>8 DEF Parses
  <2>2. Clean(r.pending, written) /\ \A k \in r.entries : Behind(k, r.offset, r.pending)
    BY <1>2, <1>3, <1>4, <2>1, ReadState, ReadIsBehind, ParseIs DEF Parsed
  <2>3. ASSUME NEW i \in 1..Len(live[w].sent), NEW k \in live[w].sent[i]
        PROVE  Behind(k, After(live[w].offset, r), r.pending) /\ \A l \in r.entries : k < l
    <3>1. k \in Int
      BY <1>3, <2>1
    <3>2. Behind(k, live[w].offset, live[w].pending)
      BY <1>3, <2>1 DEF OrderAt, AllBehind
    <3>. QED  BY <1>3, <2>1, <3>1, <3>2, ReadState, BehindStays DEF Parsed
  <2>. HIDE DEF r
  <2>. QED  BY <1>3, <1>4, <2>1, <2>2, <2>3 DEF OrderAt, SameText, AllBehind
<1>9. CASE Misses(w)
  <2>1. /\ w \in Watchers /\ SameText(live'[w], live[w])
        /\ live'[w].result.entries = {} /\ live'[w].result.pending = live[w].pending
    BY <1>9 DEF Misses
  <2>. QED  BY <1>3, <1>4, <2>1 DEF OrderAt, SameText, After, AllBehind
<1>10. CASE Sends(w)
  <2>. DEFINE r == live[w].result
  <2>1. /\ w \in Watchers /\ live[w].step = "read" /\ live'[w].step # "read"
        /\ live'[w].pending = r.pending /\ live'[w].offset = After(live[w].offset, r)
        /\ live'[w].sent = IF r.entries = {} THEN live[w].sent
                           ELSE Append(live[w].sent, r.entries)
    BY <1>10 DEF Sends
  <2>2. /\ InOrder(live[w].sent)
        /\ AllBehind(live[w].sent, After(live[w].offset, r), r.pending)
        /\ \A i \in 1..Len(live[w].sent) : \A k \in live[w].sent[i], l \in r.entries : k < l
        /\ \A k \in r.entries : Behind(k, r.offset, r.pending)
    BY <1>3, <2>1 DEF OrderAt
  <2>3. r.entries # {} => \A k \in r.entries : Behind(k, After(live[w].offset, r), r.pending)
    BY <2>2 DEF After
  <2>4. /\ InOrder(live'[w].sent)
        /\ AllBehind(live'[w].sent, live'[w].offset, live'[w].pending)
    <3>1. CASE r.entries = {}
      BY <2>1, <2>2, <3>1
    <3>2. CASE r.entries # {}
      BY <1>3, <2>1, <2>2, <2>3, <3>2, OneBatchMore
    <3>. QED  BY <3>1, <3>2
  <2>. QED  BY <1>5, <2>1, <2>4 DEF OrderAt
<1>. QED  BY <1>2, <1>6, <1>7, <1>8, <1>9, <1>10 DEF Move

-----------------------------------------------------------------------------
(* Whoever got its reply has been sent its init *)

Answered == \A s \in Subs : sub[s].phase = "on" => sub[s].init = {}

LEMMA InitAnswered == ASSUME Init PROVE Answered
  BY DEF Init, Answered, Unsubscribed

LEMMA TurnAnswered ==
  ASSUME Answered, NEW s \in Subs, Turns(s), sub'[s].phase = "on" => sub'[s].init = {}
  PROVE  Answered'
  BY DEF Answered, Turns

LEMMA AnsweredStep ==
  ASSUME Placed, Answered, Next
  PROVE  Answered'
<1>1. CASE AgentWrites
  BY <1>1 DEF AgentWrites, Answered
<1>2. ASSUME NEW s \in Subs, SubscriberStep(s)
      PROVE  Answered'
  <2>1. CASE SubscribeLive(s)
    <3>1. PICK w : Turns(s) /\ sub'[s] = Joined(w)
      BY <2>1, SubscribeDoes
    <3>2. Joined(w).init = {}
      BY DEF Joined, Unsubscribed
    <3>. QED  BY <3>1, <3>2, TurnAnswered
  <2>2. CASE Stat(s)
    BY <2>2, StatDoes, TurnAnswered
  <2>3. CASE ReadTail(s)
    BY <2>3, ReadTailDoes, TurnAnswered
  <2>4. CASE TailFails(s)
    BY <2>4, TailFailsDoes, TurnAnswered
  <2>5. CASE WatchFails(s)
    BY <2>5, WatchFailsDoes DEF Answered
  <2>6. CASE Reply(s)
    BY <2>6, ReplyDoes, TurnAnswered
  <2>7. CASE UnsubscribeLive(s)
    BY <2>7, UnsubscribeDoes, TurnAnswered DEF Unsubscribed
  <2>. QED  BY <1>2, <2>1, <2>2, <2>3, <2>4, <2>5, <2>6, <2>7 DEF SubscriberStep
<1>3. ASSUME NEW w \in Watchers, WatcherStep(w)
      PROVE  Answered'
  <2>1. CASE UNCHANGED sub
    BY <2>1 DEF Answered
  <2>2. CASE ReadFails(w)
    BY <2>2, ReadFailsDoes DEF Answered
  <2>3. CASE Deliver(w)
    BY <2>3, DeliverDoes DEF Answered
  <2>4. CASE WatchGivesUp(w)
    BY <2>4, GivesUpDoes DEF Answered
  <2>5. CASE RewatchFails(w)
    BY <2>5, RewatchFailsDoes DEF Answered
  <2>. QED  BY <1>3, <2>1, <2>2, <2>3, <2>4, <2>5
            DEF WatcherStep, DebounceFires, Read, WatchBreaks, Rewatch
<1>. QED  BY <1>1, <1>2, <1>3 DEF Next


-----------------------------------------------------------------------------
(* Only lines of the file are read *)

TextIsOf(q, n) ==
    /\ q.pending \in Seq(Units) /\ q.result.pending \in Seq(Units)
    /\ q.result.entries \subseteq CompleteAt(n) \ Silent

Genuine == \A w \in Watchers : TextIsOf(live[w], written)

LEMMA ReadIsGenuine ==
  ASSUME NEW from \in Nat, NEW size \in {0} \cup Units, from <= size, NEW p \in Seq(Units),
         Clean(p, size)
  PROVE  LET r == ParseIncremental(from, p, size)
         IN  r.pending \in Seq(Units) /\ r.entries \subseteq CompleteAt(size) \ Silent
<1>. DEFINE r   == ParseIncremental(from, p, size)
            raw == Raw(from, p, size)
<1>1. /\ size \in Nat /\ p \in Seq(Int) /\ Units \subseteq Int /\ NumLines \in Nat
      /\ \A u \in Units : u >= 1 /\ u <= 3 * NumLines
  BY WatchAssumption DEF Units
<1>a. size \in Nat /\ p \in Seq(Int)
  BY <1>1
<1>2. from = size => r.entries = {} /\ r.pending = p
  <2>1. CASE from = size
    <3>1. r = [entries |-> {}, offset |-> from, pending |-> p]
      BY <2>1 DEF ParseIncremental
    <3>. QED  BY <3>1
  <2>. QED  BY <2>1
<1>5. from < size => r.entries = EntriesIn(raw) /\ r.pending = Rest(raw)
  <2>1. CASE from < size
    <3>1. r.entries = EntriesIn(raw) /\ r.pending = Rest(raw)
      BY <1>a, <2>1, ParseIs
    <3>. QED  BY <3>1
  <2>. QED  BY <2>1
<1>3. CASE from = size
  BY <1>2, <1>3
<1>4. CASE from < size
  <2>1. /\ raw \in Seq(Int) /\ Len(raw) = Len(p) + (size - from)
        /\ \A i \in 1..Len(raw) : raw[i] = IF i <= Len(p) THEN p[i] ELSE from + (i - Len(p))
    BY <1>1, RawIs
  <2>2. size <= 3 * NumLines
    BY <1>1
  <2>3. Len(p) \in Nat /\ \A i \in 1..Len(p) : p[i] \in Units /\ p[i] <= size
    BY DEF Clean
  <2>. HIDE DEF raw, r
  <2>4. ASSUME NEW i \in 1..Len(raw)
        PROVE  raw[i] \in Units /\ raw[i] <= size
    <3>1. CASE i <= Len(p)
      BY <2>1, <2>3, <3>1
    <3>2. CASE i > Len(p)
      <4>1. raw[i] = from + (i - Len(p)) /\ i \in Nat /\ i <= Len(p) + (size - from)
        BY <2>1, <2>3, <3>2
      <4>2. raw[i] \in Int /\ raw[i] >= 1 /\ raw[i] <= size
        BY <1>1, <2>3, <3>2, <4>1
      <4>. QED  BY <1>1, <2>2, <4>2 DEF Units
    <3>. QED  BY <2>1, <2>3, <3>1, <3>2
  <2>5. Rest(raw) \in Seq(Units)
    <3>1. Rest(raw) \in Seq(Int)
      BY <2>1, RestIs
    <3>2. \A i \in 1..Len(Rest(raw)) : Rest(raw)[i] \in Units
      BY <2>1, <2>4, RestComesFrom
    <3>. QED  BY <3>1, <3>2
  <2>6. ASSUME NEW k \in EntriesIn(raw)
        PROVE  k \in CompleteAt(size) \ Silent
    <3>1. k \in Int /\ k \notin Silent
      BY <2>1, EntriesAre
    <3>2. PICK i \in 1..Len(raw) : WholeLineAt(raw, i) /\ raw[i] = 3 * k - 2
      BY <2>1, <3>1, EntriesAre
    <3>3. i + 1 \in 1..Len(raw) /\ raw[i + 1] = raw[i] + 1
      BY <2>1, <3>2 DEF WholeLineAt
    <3>4. raw[i] >= 1 /\ raw[i + 1] <= size /\ raw[i] \in Int
      BY <1>1, <2>4, <3>3
    <3>5. k >= 1 /\ 3 * k - 1 <= size
      BY <1>1, <3>1, <3>2, <3>3, <3>4
    <3>6. k <= NumLines
      BY <1>1, <2>2, <3>1, <3>5
    <3>. QED  BY <1>1, <3>1, <3>5, <3>6 DEF CompleteAt, Lines
  <2>. QED  BY <1>5, <1>4, <2>5, <2>6 DEF r
<1>. QED  BY <1>1, <1>3, <1>4

\* The counters.
CountOK(q) == q.retries <= MaxRetries /\ (q.again => q.step # "idle")

Counted ==
    /\ written \in {0} \cup Units /\ Len(live) <= MaxWatchers /\ faults \in 0..MaxFaults
    /\ \A w \in Watchers : CountOK(live[w])

LEMMA InitCounted == ASSUME Init PROVE Counted /\ Genuine
<1>1. Watchers = {} /\ Len(live) = 0
  BY DEF Init, Watchers
<1>. QED  BY <1>1, WatchAssumption DEF Init, Counted, Genuine

LEMMA WatcherCounted ==
  ASSUME Placed, Counted, NEW w \in Watchers, Changes(w), CountOK(live'[w])
  PROVE  Len(live') <= MaxWatchers /\ \A v \in Watchers' : CountOK(live'[v])
<1>1. Watchers' = Watchers
  BY DEF Changes, Watchers
<1>. QED  BY <1>1 DEF Counted, Changes

LEMMA LiveCounted ==
  ASSUME Counted, live' = live
  PROVE  Len(live') <= MaxWatchers /\ \A v \in Watchers' : CountOK(live'[v])
<1>1. Watchers' = Watchers
  BY DEF Watchers
<1>. QED  BY <1>1 DEF Counted

LEMMA CountedStep ==
  ASSUME Placed, Bounded, Counted, Next
  PROVE  Counted'
<1>1. CASE AgentWrites
  <2>1. /\ Len(live') = Len(live)
        /\ \A w \in Watchers : live'[w] = live[w] \/
                (SameWatch(live'[w], live[w]) /\ SameRead(live'[w], live[w]))
    BY <1>1, AgentWritesDoes DEF Placed
  <2>2. Watchers' = Watchers
    BY <2>1 DEF Watchers
  <2>3. written' \in Units /\ faults' = faults
    BY <1>1 DEF AgentWrites
  <2>. QED  BY <2>1, <2>2, <2>3 DEF Counted, CountOK, SameWatch, SameRead, Units
<1>2. ASSUME NEW s \in Subs, SubscriberStep(s)
      PROVE  Counted'
  <2>1. sub[s].phase # "off" => current \in Watchers /\ CountOK(live[current])
    BY CurrentIs DEF Counted
  <2>2. written' = written
    BY <1>2 DEF SubscriberStep, SubscribeLive, Stat, ReadTail, TailFails, WatchFails, Reply,
       UnsubscribeLive
  <2>3. faults' \in 0..MaxFaults
    <3>1. Fault \/ faults' = faults
      BY <1>2, Zenon DEF SubscriberStep, SubscribeLive, Stat, ReadTail, TailFails,
         WatchFails, Reply, UnsubscribeLive
    <3>. QED  BY <3>1, WatchAssumption DEF Fault, Counted
  <2>4. Len(live') <= MaxWatchers /\ \A v \in Watchers' : CountOK(live'[v])
    <3>1. CASE SubscribeLive(s)
      <4>. DEFINE w == IF current = 0 THEN Len(live) + 1 ELSE current
      <4>1. /\ Len(live') = IF current = 0 THEN Len(live) + 1 ELSE Len(live)
            /\ current = 0 => live'[w] = [NewWatcher EXCEPT !.subs = {s}]
            /\ current # 0 => SameWatch(live'[w], live[w]) /\ SameRead(live'[w], live[w])
            /\ \A v \in Watchers : v # w => live'[v] = live[v]
        BY <3>1, SubscribeDoes
      <4>2. /\ Len(live) \in Nat /\ Watchers = 1..Len(live) /\ Watchers' = 1..Len(live')
            /\ current \in 0..Len(live)
        BY Indices DEF Placed, Typed, Watchers
      <4>3. w <= MaxWatchers
        BY <3>1 DEF SubscribeLive
      <4>4. current = 0 => live'[w].retries = 0 /\ ~live'[w].again
        BY <4>1 DEF NewWatcher
      <4>5. CountOK(live'[w])
        BY <4>1, <4>2, <4>4, WatchAssumption DEF Counted, CountOK, SameWatch, SameRead
      <4>6. Len(live') <= MaxWatchers
        BY <4>1, <4>2, <4>3 DEF Counted
      <4>7. \A v \in Watchers' : v = w \/ v \in Watchers
        BY <4>1, <4>2
      <4>. HIDE DEF w
      <4>. QED  BY <4>1, <4>5, <4>6, <4>7 DEF Counted
    <3>2. CASE Stat(s) \/ Reply(s)
      BY <3>2, StatDoes, ReplyDoes, LiveCounted
    <3>3. CASE ReadTail(s) \/ TailFails(s)
      <4>1. CASE sub[s].new
        <5>1. /\ sub[s].phase # "off" /\ Changes(current)
              /\ live'[current].retries = live[current].retries
              /\ SameRead(live'[current], live[current])
          BY <3>3, <4>1, ReadTailDoes, TailFailsDoes
        <5>2. CountOK(live'[current])
          BY <2>1, <5>1 DEF CountOK, SameRead
        <5>. QED  BY <2>1, <5>1, <5>2, WatcherCounted
      <4>2. CASE ~sub[s].new
        BY <3>3, <4>2, ReadTailDoes, TailFailsDoes, LiveCounted
      <4>. QED  BY <4>1, <4>2
    <3>4. CASE WatchFails(s) \/ UnsubscribeLive(s)
      <4>1. /\ sub[s].phase # "off" /\ Changes(current)
            /\ live'[current].retries = live[current].retries
            /\ SameRead(live'[current], live[current])
        BY <3>4, WatchFailsDoes, UnsubscribeDoes DEF SameWatch
      <4>2. CountOK(live'[current])
        BY <2>1, <4>1 DEF CountOK, SameRead
      <4>. QED  BY <2>1, <4>1, <4>2, WatcherCounted
    <3>. QED  BY <1>2, <3>1, <3>2, <3>3, <3>4 DEF SubscriberStep
  <2>. QED  BY <2>2, <2>3, <2>4 DEF Counted
<1>3. ASSUME NEW w \in Watchers, WatcherStep(w)
      PROVE  Counted'
  <2>1. written' = written
    BY <1>3 DEF WatcherStep, DebounceFires, Read, ReadFails, Deliver, WatchBreaks, WatchGivesUp,
       Rewatch, RewatchFails
  <2>2. faults' \in 0..MaxFaults
    <3>1. Fault \/ faults' = faults
      BY <1>3, Zenon DEF WatcherStep, DebounceFires, Read, ReadFails, Deliver,
         WatchBreaks, WatchGivesUp, Rewatch, RewatchFails
    <3>. QED  BY <3>1, WatchAssumption DEF Fault, Counted
  <2>3. CountOK(live[w]) /\ live[w].offset <= written
    BY DEF Counted, Bounded, Within
  <2>4. Len(live') <= MaxWatchers /\ \A v \in Watchers' : CountOK(live'[v])
    <3>1. CASE DebounceFires(w)
      <4>1. CountOK(live'[w])
        BY <2>3, <3>1, DebounceDoes DEF CountOK, SameWatch
      <4>. QED  BY <3>1, <4>1, DebounceDoes, WatcherCounted
    <3>2. CASE Read(w)
      <4>1. CountOK(live'[w])
        BY <2>3, <3>2, ReadDoes DEF CountOK, SameWatch
      <4>. QED  BY <2>3, <3>2, <4>1, ReadDoes, WatcherCounted
    <3>3. CASE ReadFails(w)
      <4>1. CountOK(live'[w])
        BY <2>3, <3>3, ReadFailsDoes DEF CountOK, SameWatch
      <4>. QED  BY <3>3, <4>1, ReadFailsDoes, WatcherCounted
    <3>4. CASE Deliver(w)
      <4>1. CountOK(live'[w])
        BY <2>3, <3>4, DeliverDoes DEF CountOK, SameWatch
      <4>. QED  BY <3>4, <4>1, DeliverDoes, WatcherCounted
    <3>5. CASE WatchBreaks(w)
      <4>1. live[w].retries \in Nat /\ MaxRetries \in Nat
        BY Indices, WatchAssumption DEF Placed, WatcherState
      <4>2. CountOK(live'[w])
        BY <2>3, <3>5, <4>1, WatchBreaksDoes DEF CountOK, SameRead
      <4>. QED  BY <3>5, <4>2, WatchBreaksDoes, WatcherCounted
    <3>6. CASE WatchGivesUp(w)
      BY <3>6, GivesUpDoes, LiveCounted
    <3>7. CASE Rewatch(w)
      <4>1. CountOK(live'[w])
        BY <2>3, <3>7, RewatchDoes DEF CountOK, SameRead
      <4>. QED  BY <3>7, <4>1, RewatchDoes, WatcherCounted
    <3>8. CASE RewatchFails(w)
      <4>1. CountOK(live'[w])
        BY <2>3, <3>8, RewatchFailsDoes DEF CountOK, SameRead
      <4>. QED  BY <3>8, <4>1, RewatchFailsDoes, WatcherCounted
    <3>. QED  BY <1>3, <3>1, <3>2, <3>3, <3>4, <3>5, <3>6, <3>7, <3>8 DEF WatcherStep
  <2>. QED  BY <2>1, <2>2, <2>4 DEF Counted
<1>. QED  BY <1>1, <1>2, <1>3 DEF Next

LEMMA GenuineStep ==
  ASSUME Placed, Held, Bounded, Counted, Ordered, Next, Genuine
  PROVE  Genuine'
<1>1. SUFFICES ASSUME NEW w \in Watchers'
               PROVE  TextIsOf(live'[w], written')
  BY DEF Genuine, TextIsOf, CompleteAt, Lines, Units
<1>2. /\ Move(w) /\ CompleteAt(written) \subseteq CompleteAt(written')
  <2>1. written \in Int /\ written' \in Int /\ written <= written'
    BY NothingShrinks
  <2>. QED  BY <2>1, Moves, CompleteIsMonotone
<1>3. w \in Watchers => TextIsOf(live[w], written)
  BY DEF Genuine
<1>4. <<>> \in Seq(Units) /\ Nothing.entries = {} /\ Nothing.pending = <<>>
  BY DEF Nothing
<1>5. CASE Quiet(w)
  BY <1>2, <1>3, <1>5 DEF Quiet, SameText, TextIsOf
<1>6. CASE Starts(w)
  BY <1>2, <1>3, <1>4, <1>6 DEF Starts, TextIsOf
<1>7. CASE Parses(w)
  <2>1. w \in Watchers /\ written' = written /\ SameText(live'[w], live[w]) /\ live'[w].result = Parsed(w)
    BY <1>7 DEF Parses
  <2>2. Clean(live[w].pending, written) /\ written \in {0} \cup Units
    BY <2>1 DEF Ordered, OrderAt, Counted
  <2>3. Parsed(w).pending \in Seq(Units) /\ Parsed(w).entries \subseteq CompleteAt(written) \ Silent
    BY <1>3, <2>1, <2>2, ReadState, ReadIsGenuine DEF Parsed, TextIsOf
  <2>. QED  BY <1>3, <2>1, <2>3 DEF SameText, TextIsOf
<1>8. CASE Misses(w)
  BY <1>3, <1>8 DEF Misses, SameText, TextIsOf
<1>9. CASE Sends(w)
  BY <1>2, <1>3, <1>4, <1>9 DEF Sends, TextIsOf
<1>. QED  BY <1>2, <1>5, <1>6, <1>7, <1>8, <1>9 DEF Move

\* The subscribers are sent nothing else.
Sound == \A s \in Subs : Knows(s) \subseteq CompleteAt(written) \ Silent

LEMMA InitSound == ASSUME Init PROVE Sound
  BY DEF Init, Sound, Knows, Unsubscribed

LEMMA TurnSound ==
  ASSUME Sound, NEW s \in Subs, Turns(s), written' = written,
         Knows(s)' \subseteq CompleteAt(written) \ Silent
  PROVE  Sound'
  BY DEF Sound, Knows, Turns, CompleteAt, Lines

LEMMA SoundStep ==
  ASSUME Placed, Bounded, Genuine, Sound, Next
  PROVE  Sound'
<1>0. written \in Int
  BY DEF Placed, Typed
<1>1. CASE AgentWrites
  <2>1. written' \in Int /\ written <= written' /\ sub' = sub
    BY <1>0, <1>1, AgentWritesDoes DEF Placed
  <2>2. CompleteAt(written) \subseteq CompleteAt(written')
    BY <1>0, <2>1, CompleteIsMonotone
  <2>3. \A s \in Subs : Knows(s)' \subseteq CompleteAt(written') \ Silent
    BY <2>1, <2>2 DEF Sound, Knows
  <2>. QED  BY <2>3 DEF Sound, CompleteAt, Lines
<1>2. ASSUME NEW s \in Subs, SubscriberStep(s)
      PROVE  Sound'
  <2>1. written' = written
    BY <1>2 DEF SubscriberStep, SubscribeLive, Stat, ReadTail, TailFails, WatchFails, Reply,
       UnsubscribeLive
  <2>2. Knows(s) \subseteq CompleteAt(written) \ Silent
    BY DEF Sound
  <2>3. CASE SubscribeLive(s)
    <3>1. PICK w : Turns(s) /\ sub'[s] = Joined(w)
      BY <2>3, SubscribeDoes
    <3>2. Knows(s)' = {}
      BY <3>1 DEF Joined, Unsubscribed, Knows
    <3>. QED  BY <2>1, <3>1, <3>2, TurnSound
  <2>4. CASE Stat(s)
    BY <2>1, <2>2, <2>4, StatDoes, TurnSound DEF Knows
  <2>5. CASE ReadTail(s)
    BY <2>1, <2>2, <2>5, ReadTailDoes, TurnSound DEF Knows
  <2>6. CASE TailFails(s)
    BY <2>1, <2>2, <2>6, TailFailsDoes, TurnSound DEF Knows
  <2>7. CASE WatchFails(s)
    <3>1. \A t \in Subs : Knows(t)' \subseteq CompleteAt(written) \ Silent
      BY <2>7, WatchFailsDoes DEF Sound, Knows
    <3>. QED  BY <2>1, <3>1 DEF Sound, CompleteAt, Lines
  <2>8. CASE Reply(s)
    BY <2>1, <2>2, <2>8, ReplyDoes, TurnSound DEF Knows
  <2>9. CASE UnsubscribeLive(s)
    <3>1. Turns(s) /\ Knows(s)' = {}
      BY <2>9, UnsubscribeDoes DEF Knows, Unsubscribed
    <3>. QED  BY <2>1, <3>1, TurnSound
  <2>. QED  BY <1>2, <2>3, <2>4, <2>5, <2>6, <2>7, <2>8, <2>9 DEF SubscriberStep
<1>3. ASSUME NEW w \in Watchers, WatcherStep(w)
      PROVE  Sound'
  <2>1. written' = written
    BY <1>3 DEF WatcherStep, DebounceFires, Read, ReadFails, Deliver, WatchBreaks, WatchGivesUp,
       Rewatch, RewatchFails
  <2>2. \A s \in Subs : Knows(s)' \subseteq Knows(s) \cup live[w].result.entries
    <3>1. CASE UNCHANGED sub
      BY <3>1 DEF Knows
    <3>2. CASE ReadFails(w)
      BY <3>2, ReadFailsDoes DEF Knows
    <3>3. CASE Deliver(w)
      <4>1. \A s \in Subs : /\ sub'[s].got \subseteq sub[s].got \cup live[w].result.entries
                            /\ sub'[s].init = sub[s].init
        BY <3>3, DeliverDoes
      <4>. QED  BY <4>1 DEF Knows
    <3>4. CASE WatchGivesUp(w)
      BY <3>4, GivesUpDoes DEF Knows
    <3>5. CASE RewatchFails(w)
      BY <3>5, RewatchFailsDoes DEF Knows
    <3>. QED  BY <1>3, <3>1, <3>2, <3>3, <3>4, <3>5
              DEF WatcherStep, DebounceFires, Read, WatchBreaks, Rewatch
  <2>3. live[w].result.entries \subseteq CompleteAt(written) \ Silent
    BY DEF Genuine, TextIsOf
  <2>. QED  BY <2>1, <2>2, <2>3 DEF Sound, CompleteAt, Lines
<1>. QED  BY <1>1, <1>2, <1>3 DEF Next

-----------------------------------------------------------------------------
(* The theorems *)

WatchInv ==
    /\ Placed /\ Held /\ Bounded /\ Answered
    /\ Readable /\ Passed /\ Noticed /\ Ordered
    /\ Counted /\ Genuine /\ Sound

LEMMA InitWatchInv == ASSUME Init PROVE WatchInv
  BY InitPlaced, InitHeld, InitBounded, InitAnswered, InitReadable, InitNoticed, InitOrdered,
     InitCounted, InitSound
     DEF WatchInv

LEMMA WatchInvKept ==
  ASSUME WatchInv, [Next]_vars
  PROVE  WatchInv'
<1>1. CASE Next
  <2>0. \A w \in Watchers : live[w].offset <= written
    BY DEF WatchInv, Bounded, Within
  <2>1. Placed' /\ Held' /\ Bounded' /\ Answered'
    BY <1>1, <2>0, PlacedStep, HeldStep, BoundedStep, AnsweredStep DEF WatchInv
  <2>2. Readable' /\ Ordered'
    BY <1>1, ReadableStep, OrderedStep DEF WatchInv
  <2>3. Passed'
    BY <1>1, <2>1, PassedStep DEF WatchInv
  <2>4. Noticed'
    BY <1>1, <2>1, <2>3, NoticedStep DEF WatchInv
  <2>5. Counted' /\ Genuine' /\ Sound'
    BY <1>1, CountedStep, GenuineStep, SoundStep DEF WatchInv
  <2>. QED  BY <2>1, <2>2, <2>3, <2>4, <2>5 DEF WatchInv
<1>2. CASE UNCHANGED vars
  <2>1. UNCHANGED <<written, live, current, sub, torn, faults>> /\ Watchers' = Watchers
    BY <1>2 DEF vars, Watchers
  <2>2. Placed' /\ Bounded' /\ Answered'
    BY <2>1 DEF WatchInv, Placed, Typed, Bounded, Within, Answered, Lines
  <2>3. Held'
    BY <2>1 DEF WatchInv, Held, Made, Fresh, Reading
  <2>4. Readable' /\ Ordered'
    BY <2>1 DEF WatchInv, Readable, Ordered
  <2>5. Passed' /\ Noticed'
    <3>1. \A w : Told(w)' = Told(w)
      BY <2>1 DEF Told, Reading
    <3>2. \A s : Knows(s)' = Knows(s)
      BY <2>1 DEF Knows
    <3>. QED  BY <2>1, <3>1, <3>2 DEF WatchInv, Passed, Noticed
  <2>6. Counted' /\ Genuine'
    BY <2>1 DEF WatchInv, Counted, Genuine
  <2>7. Sound'
    BY <2>1 DEF WatchInv, Sound, Knows, CompleteAt, Lines
  <2>. QED  BY <2>2, <2>3, <2>4, <2>5, <2>6, <2>7 DEF WatchInv
<1>. QED  BY <1>1, <1>2

LEMMA WatchInvIsInvariant == Spec => []WatchInv
<1>1. Init => WatchInv
  BY InitWatchInv
<1>2. WatchInv /\ [Next]_vars => WatchInv'
  BY WatchInvKept
<1>. QED  BY <1>1, <1>2, PTL DEF Spec

(* Every variable keeps to its domain; in particular an offset is within   *)
(* the file, and what a subscriber is sent are complete lines of it.       *)
THEOREM TypeCorrect == Spec => []TypeOK
<1>1. ASSUME WatchInv, NEW w \in Watchers
      PROVE  /\ live[w].offset \in 0..written /\ live[w].pending \in Seq(Units)
             /\ live[w].subs \subseteq Subs /\ live[w].retries \in 0..MaxRetries
             /\ live[w].step \in {"idle", "reading", "read"}
             /\ live[w].again => live[w].step # "idle"
  <2>1. live[w] \in WatcherState
    BY <1>1, Indices DEF WatchInv, Placed
  <2>2. live[w].offset <= written /\ live[w].offset \in Nat /\ written \in Nat
    BY <1>1, ReadState DEF WatchInv
  <2>3. CountOK(live[w]) /\ TextIsOf(live[w], written)
    BY <1>1 DEF WatchInv, Counted, Genuine
  <2>4. /\ live[w].retries \in Nat /\ live[w].subs \subseteq Subs
        /\ live[w].step \in {"idle", "reading", "read"}
    BY <2>1 DEF WatcherState
  <2>. QED  BY <2>2, <2>3, <2>4, WatchAssumption DEF CountOK, TextIsOf
<1>2. ASSUME WatchInv, NEW s \in Subs
      PROVE  /\ sub[s].phase \in {"off", "stat", "read", "relate", "on"}
             /\ sub[s].got \cup sub[s].init \subseteq CompleteAt(written) \ Silent
  BY <1>2 DEF WatchInv, Placed, Typed, Subscription, Sound, Knows
<1>3. WatchInv => /\ written \in {0} \cup Units /\ current \in 0..Len(live)
                  /\ Len(live) <= MaxWatchers /\ torn \subseteq Lines /\ faults \in 0..MaxFaults
  BY DEF WatchInv, Counted, Placed, Typed
<1>4. WatchInv => TypeOK
  BY <1>1, <1>2, <1>3 DEF TypeOK
<1>. QED  BY <1>4, WatchInvIsInvariant, PTL

(* processLiveFileChange never sends an entry twice or out of order: what  *)
(* was sent lies before the offset and before the pending text, so every   *)
(* entry of the next read comes later.                                     *)
THEOREM SentOnce == Spec => []SentOnceInOrder
<1>1. WatchInv => SentOnceInOrder
  <2>1. ASSUME WatchInv, NEW w \in Watchers
        PROVE  /\ InOrder(live[w].sent)
               /\ DOMAIN live[w].sent = 1..Len(live[w].sent)
    BY <2>1, ReadState DEF WatchInv, Ordered, OrderAt
  <2>. QED  BY <2>1 DEF SentOnceInOrder, InOrder
<1>. QED  BY <1>1, WatchInvIsInvariant, PTL

(* The init and the appends together leave no hole, but for the lines that *)
(* a read ended inside of.  Who joins after the maker has set the offset   *)
(* reads a file that is at least as long as what the watcher has passed.   *)
THEOREM NothingSkipped == Spec => []NoEntrySkipped
<1>1. ASSUME WatchInv, NEW s \in Subs, sub[s].phase = "on", ~sub[s].early, ~sub[s].failed
      PROVE  CompleteAt(live[sub[s].watcher].offset) \ (Silent \cup torn) \subseteq sub[s].got
  <2>1. sub[s].watcher = current /\ current \in Watchers /\ s \in live[current].subs
    BY <1>1, CurrentIs DEF WatchInv
  <2>2. s \in Told(current) /\ Knows(s) = sub[s].got
    BY <1>1, <2>1 DEF WatchInv, Answered, Told, Reading, Knows
  <2>. QED  BY <1>1, <2>1, <2>2 DEF WatchInv, Passed
<1>2. WatchInv => NoEntrySkipped
  BY <1>1 DEF NoEntrySkipped
<1>. QED  BY <1>2, WatchInvIsInvariant, PTL

(* unsubscribeLive closes the watch with its last subscriber, and nobody   *)
(* stays behind on a watcher that has left the map.                        *)
THEOREM UnusedCloses == Spec => []UnusedWatchCloses
<1>1. WatchInv => UnusedWatchCloses
  BY DEF WatchInv, Placed, Held, Shut, UnusedWatchCloses
<1>. QED  BY <1>1, WatchInvIsInvariant, PTL

(* A change that fs.watch has reported is read and sent before the watcher *)
(* is at rest again, also when it came during the read of an earlier one.  *)
THEOREM NoticedIsSent == Spec => []NoNoticedLineLost
<1>1. ASSUME WatchInv, NEW w \in Watchers, ~live[w].timer, live[w].step = "idle",
             NEW s \in live[w].subs,
             sub[s].phase \notin {"stat", "read"}, ~sub[s].failed, ~sub[s].early
      PROVE  CompleteAt(live[w].noticed) \ (Silent \cup torn) \subseteq sub[s].got \cup sub[s].init
  <2>1. s \in Told(w)
    BY <1>1 DEF Told, Reading
  <2>. QED  BY <1>1, <2>1 DEF WatchInv, Noticed, Knows
<1>2. WatchInv => NoNoticedLineLost
  BY <1>1 DEF NoNoticedLineLost
<1>. QED  BY <1>2, WatchInvIsInvariant, PTL

=============================================================================
