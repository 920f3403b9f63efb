------------------------- MODULE ParallelSearchProofs -------------------------
(***************************************************************************)
(* Proofs about the parallel search of one file, for files of any length   *)
(* split for any number of workers.                                        *)
(***************************************************************************)
EXTENDS ParallelSearch, FiniteSetTheorems, WellFoundedInduction, TLAPS

-----------------------------------------------------------------------------
(* The data, as a constant: newlines, the starts of the lines that match,  *)
(* and line counts.                                                        *)

Text == Seq({"hit", "miss", "nl"})
NL(d, a, b) == {q \in a .. b - 1 : d[q + 1] = "nl"}
Starts(d) ==
    {p \in 0 .. Len(d) - 1 :
        /\ p = 0 \/ d[p] = "nl"
        /\ \E q \in p .. Len(d) - 1 : d[q + 1] = "hit" /\ \A r \in p .. q : d[r + 1] # "nl"}
Between(d, a, b) == {p \in Starts(d) : a <= p /\ p < b}

\* The number of a line relative to the start of a range; 0 without -n.
LineNumber(d, n, a, p) == IF n THEN 1 + Cardinality(NL(d, a, p)) ELSE 0

\* A line boundary.
Edge(d, x) == x \in 0 .. Len(d) /\ (x = 0 \/ x = Len(d) \/ d[x] = "nl")

-----------------------------------------------------------------------------
(* The inductive invariant, in parts.                                      *)

Event == [offset : Nat, number : Nat]
Offsets(s) == {s[i].offset : i \in 1 .. Len(s)}

Inputs ==
    /\ data \in Text /\ limit \in Nat \cup {NoLimit} /\ numbered \in BOOLEAN
    /\ workers \in Nat
Types ==
    /\ cuts \in Seq(Nat) /\ Len(cuts) \in Nat \ {0} /\ turn \in Nat
    /\ lineBases \in Seq(Nat)
    /\ phase \in {"split", "scan", "replay", "direct", "finish", "done", "failed"}
    /\ chunk \in Nat \ {0} /\ event \in Nat \ {0}
    /\ matchCount \in Nat /\ delivered \in Seq(Event)
    /\ phase # "split" =>
         /\ pos \in [Chunks -> Nat]
         /\ phase \in {"scan", "replay"} => recorded \in [Chunks -> Seq(Event)]
         /\ chunkLines \in [Chunks -> Nat \cup {Unknown}]

\* The ranges are whole lines, one after the other, and cover the data.
CutInto(d, s) ==
    /\ s[1] = 0
    /\ \A i \in 1 .. Len(s) : Edge(d, s[i])
    /\ \A i \in 1 .. Len(s) - 1 : s[i] <= s[i + 1]
WellCut ==
    /\ CutInto(data, cuts)
    /\ phase = "split" => cuts[Len(cuts)] < Len(data)
    /\ phase # "split" => Len(cuts) > 1 /\ cuts[Len(cuts)] = Len(data)
    /\ phase = "direct" => Len(cuts) = 2

\* How far a chunk's goroutine is, and what it leaves behind when it ends.
Scanned(d, n, from, at, to, lines) ==
    /\ from <= at /\ at <= to
    /\ lines # Unknown => /\ Between(d, at, to) = {}
                          /\ n => lines = Cardinality(NL(d, from, to))
Scanning ==
    phase # "split" => \A c \in Chunks :
        Scanned(data, numbered, cuts[c], pos[c], cuts[c + 1], chunkLines[c])

\* A recorder holds the matching lines its goroutine has passed, in order.
Recorded(d, n, s, from, at) ==
    /\ Offsets(s) = Between(d, from, at)
    /\ \A i, j \in 1 .. Len(s) : i < j => s[i].offset < s[j].offset
    /\ \A i \in 1 .. Len(s) : s[i].number = LineNumber(d, n, from, s[i].offset)
Recording ==
    phase \in {"scan", "replay"} => \A c \in Chunks :
        Recorded(data, numbered, recorded[c], cuts[c], pos[c])

\* The prefix sum counts the lines above each chunk.
Summing ==
    /\ Len(lineBases) < Len(cuts)
    /\ lineBases # << >> \/ phase = "replay" => phase # "split" /\ Running = {}
    /\ phase = "replay" => Len(lineBases) = Len(cuts) - 1
    /\ numbered => \A c \in 1 .. Len(lineBases) : lineBases[c] = 1 + Cardinality(NL(data, 0, cuts[c]))

\* The Sink has received the matching lines before the replay's position.
Delivering ==
    /\ phase \in {"split", "scan"} => delivered = << >> /\ chunk = 1 /\ event = 1
    /\ phase = "direct" => Offsets(delivered) = Between(data, 0, pos[1])
    /\ phase = "replay" =>
         /\ chunk <= Len(cuts)
         /\ chunk \in Chunks =>
              /\ event <= Len(recorded[chunk]) + 1
              /\ Offsets(delivered) = Between(data, 0, cuts[chunk]) \cup
                                      {recorded[chunk][i].offset : i \in 1 .. event - 1}
         /\ chunk \notin Chunks => Offsets(delivered) = Between(data, 0, Len(data))
Counting ==
    phase # "failed" => matchCount = Len(delivered) /\ (limit # NoLimit => matchCount <= limit)

Inv == Inputs /\ Types /\ WellCut /\ Scanning /\ Recording /\ Summing /\ Delivering /\ Counting

-----------------------------------------------------------------------------
(* Newlines and matching lines.                                            *)

\* A non-empty set of offsets has a first one.
LEMMA MinExists ==
    ASSUME NEW S \in SUBSET Nat, S # {}
    PROVE  Min(S) \in S /\ \A i \in S : Min(S) <= i
  <1>1. PICK R : /\ IsWellFoundedOn(R, Nat)
                 /\ \A i, j \in Nat : i < j => <<i, j>> \in R
    <2>1. IsWellFoundedOn({ss \in Nat \X Nat : ss[1] < ss[2]}, Nat)
      BY NatLessThanWellFounded DEF OpToRel
    <2> QED
      BY <2>1
  <1>2. S \subseteq Nat /\ IsWellFoundedOn(R, Nat)
    BY <1>1
  <1>3. PICK m \in S : \A i \in S : ~(<<i, m>> \in R)
    BY <1>2, WFMin
  <1>4. \A i \in S : i \in Nat /\ m \in Nat /\ ~(i < m)
    BY <1>1, <1>3, Zenon
  <1>5. \A i \in S : m <= i
    BY <1>4
  <1> QED
    BY <1>5 DEF Min

\* Newlines are counted range by range.
LEMMA NewlinesCount ==
    ASSUME NEW d, NEW a \in Nat, NEW b \in Nat
    PROVE  NL(d, a, b) \in SUBSET Nat /\ IsFiniteSet(NL(d, a, b)) /\ Cardinality(NL(d, a, b)) \in Nat
  <1>1. IsFiniteSet(a .. b - 1)
    BY FS_Interval
  <1>2. NL(d, a, b) \subseteq a .. b - 1 /\ NL(d, a, b) \in SUBSET Nat
    BY DEF NL
  <1>3. IsFiniteSet(NL(d, a, b))
    BY <1>1, <1>2, FS_Subset
  <1> QED
    BY <1>2, <1>3, FS_CardinalityType

LEMMA NewlinesSplit ==
    ASSUME NEW d, NEW a \in Nat, NEW b \in Nat, NEW c \in Nat, a <= b, b <= c
    PROVE  Cardinality(NL(d, a, c)) = Cardinality(NL(d, a, b)) + Cardinality(NL(d, b, c))
  <1>1. NL(d, a, c) = NL(d, a, b) \cup NL(d, b, c)
    BY DEF NL
  <1>2. NL(d, a, b) \cap NL(d, b, c) = {}
    BY DEF NL
  <1>3. PICK S, T : S = NL(d, a, b) /\ T = NL(d, b, c)
    OBVIOUS
  <1>4. IsFiniteSet(S) /\ IsFiniteSet(T) /\ Cardinality(S) \in Nat /\ Cardinality(T) \in Nat
    BY <1>3, NewlinesCount
  <1>5. Cardinality(S \cup T) = Cardinality(S) + Cardinality(T) - Cardinality(S \cap T)
    BY <1>4, FS_Union
  <1>6. Cardinality(S \cap T) = 0
    BY <1>2, <1>3, FS_EmptySet
  <1> QED
    BY <1>1, <1>3, <1>4, <1>5, <1>6

LEMMA StartsAre ==
    ASSUME NEW d \in Text
    PROVE  /\ Len(d) \in Nat /\ Starts(d) \in SUBSET Nat
           /\ \A p \in Starts(d) : p < Len(d) /\ (p = 0 \/ d[p] = "nl")
           /\ \A a, b : Between(d, a, b) \in SUBSET Nat
  BY DEF Starts, Between, Text

LEMMA BetweenJoin ==
    ASSUME NEW d \in Text, NEW a \in Nat, NEW b \in Nat, NEW c \in Nat, a <= b, b <= c
    PROVE  Between(d, a, c) = Between(d, a, b) \cup Between(d, b, c)
  <1>1. \A q \in Starts(d) : q \in Nat
    BY StartsAre
  <1> QED
    BY <1>1 DEF Between

\* The search of a range sees what the search of the whole data sees in it.
Found(d, from, at, to) ==
    {p \in at .. to - 1 : /\ p = from \/ d[p] = "nl"
                          /\ \E q \in p .. to - 1 : d[q + 1] = "hit" /\ NL(d, p, q) = {}}
LEMMA RangeMatches ==
    ASSUME NEW d \in Text, NEW from \in Nat, NEW at \in Nat, NEW to \in Nat,
           Edge(d, from), Edge(d, to), from <= at, at <= to
    PROVE  Found(d, from, at, to) = Between(d, at, to)
  <1> DEFINE M == {p \in at .. to - 1 : /\ p = from \/ d[p] = "nl"
                                        /\ \E q \in p .. to - 1 : d[q + 1] = "hit" /\ NL(d, p, q) = {}}
  <1>1. Len(d) \in Nat /\ to <= Len(d) /\ (to = Len(d) \/ to = 0 \/ d[to] = "nl")
        /\ (from = 0 \/ from = Len(d) \/ d[from] = "nl")
    BY StartsAre DEF Edge
  <1>2. ASSUME NEW p \in M PROVE p \in Between(d, at, to)
    <2>1. p \in Nat /\ at <= p /\ p < to /\ (p = from \/ d[p] = "nl")
      OBVIOUS
    <2>2. PICK q \in p .. to - 1 : d[q + 1] = "hit" /\ NL(d, p, q) = {}
      OBVIOUS
    <2>3. ASSUME NEW r \in p .. q PROVE d[r + 1] # "nl"
      <3>1. CASE r = q
        BY <2>2, <3>1
      <3>2. CASE r # q
        <4>1. r \in p .. q - 1
          BY <2>1, <2>2, <3>2
        <4> QED
          BY <2>2, <4>1 DEF NL
      <3> QED
        BY <3>1, <3>2
    <2>4. p = 0 \/ d[p] = "nl"
      BY <1>1, <2>1
    <2>5. p \in 0 .. Len(d) - 1 /\ q \in p .. Len(d) - 1
      BY <1>1, <2>1, <2>2
    <2> HIDE DEF M
    <2> QED
      BY <2>1, <2>2, <2>3, <2>4, <2>5 DEF Between, Starts
  <1>3. ASSUME NEW p \in Between(d, at, to) PROVE p \in M
    <2>1. /\ p \in 0 .. Len(d) - 1 /\ at <= p /\ p < to /\ (p = 0 \/ d[p] = "nl")
      BY DEF Between, Starts
    <2>2. PICK q \in p .. Len(d) - 1 : d[q + 1] = "hit" /\ \A r \in p .. q : d[r + 1] # "nl"
      BY DEF Between, Starts
    <2>3. q < to
      <3> SUFFICES ASSUME to <= q PROVE FALSE
        BY <1>1, <2>1, <2>2
      <3>1. to - 1 \in p .. q /\ to < Len(d) /\ to # 0
        BY <1>1, <2>1, <2>2
      <3>2. d[(to - 1) + 1] = "nl"
        BY <1>1, <3>1
      <3> QED
        BY <2>2, <3>1, <3>2
    <2>4. NL(d, p, q) = {}
      BY <2>1, <2>2 DEF NL
    <2>5. p = from \/ d[p] = "nl"
      BY <2>1
    <2>6. p \in at .. to - 1 /\ q \in p .. to - 1
      BY <2>1, <2>2, <2>3
    <2> QED
      BY <2>2, <2>4, <2>5, <2>6
  <1> QED
    BY <1>2, <1>3 DEF Found

\* No line starts within another one: between a line's start and its end there is
\* no other.
LEMMA OneLine ==
    ASSUME NEW d \in Text, NEW at \in Nat, NEW to \in Nat, Edge(d, to),
           NEW p \in Between(d, at, to), \A r \in Between(d, at, to) : p <= r,
           NEW e, e = IF NL(d, p, to) = {} THEN to ELSE Min(NL(d, p, to)) + 1
    PROVE  e \in Nat /\ p < e /\ e <= to /\ Edge(d, e) /\ Between(d, at, e) = {p}
  <1>1. p \in Nat /\ at <= p /\ p < to /\ p \in Starts(d) /\ Len(d) \in Nat /\ to <= Len(d)
    BY StartsAre DEF Between, Edge
  <1>2. CASE NL(d, p, to) = {}
    <2>1. e = to
      BY <1>2
    <2>2. ASSUME NEW r \in Between(d, at, to), r # p PROVE FALSE
      <3>1. r \in Nat /\ p < r /\ r < to /\ d[r] = "nl"
        BY <1>1, <2>2, StartsAre DEF Between
      <3>2. r - 1 \in p .. to - 1 /\ d[(r - 1) + 1] = "nl"
        BY <1>1, <3>1
      <3> QED
        BY <1>2, <3>2 DEF NL
    <2>3. p \in Between(d, at, e)
      BY <2>1
    <2>4. Between(d, at, e) = {p}
      BY <2>1, <2>2, <2>3
    <2> QED
      BY <1>1, <2>1, <2>4
  <1>3. CASE NL(d, p, to) # {}
    <2>1. PICK m \in NL(d, p, to) : m = Min(NL(d, p, to)) /\ \A i \in NL(d, p, to) : m <= i
      <3>1. NL(d, p, to) \in SUBSET Nat
        BY <1>1, NewlinesCount
      <3> QED
        BY <1>3, <3>1, MinExists
    <2>2. m \in Nat /\ p <= m /\ m < to /\ d[m + 1] = "nl" /\ e = m + 1
      BY <1>1, <1>3, <2>1, SMTT(30) DEF NL
    <2>3. e \in Nat /\ p < e /\ e <= to /\ Edge(d, e)
      <3>1. e \in 0 .. Len(d) /\ p < e /\ e <= to
        BY <1>1, <2>2
      <3>2. d[e] = "nl"
        BY <2>2
      <3> QED
        BY <3>1, <3>2 DEF Edge
    <2>4. ASSUME NEW r \in Between(d, at, e), r # p PROVE FALSE
      <3>1. r \in Nat /\ at <= r /\ r < e /\ r \in Between(d, at, to)
        BY <1>1, <2>3, StartsAre DEF Between
      <3>2. p < r /\ d[r] = "nl"
        BY <1>1, <2>4, <3>1, StartsAre DEF Between
      <3>3. r - 1 \in p .. to - 1 /\ d[(r - 1) + 1] = "nl"
        BY <1>1, <2>3, <3>1, <3>2
      <3>4. m <= r - 1
        BY <2>1, <3>3 DEF NL
      <3> QED
        BY <2>2, <3>1, <3>4
    <2>5. p \in Between(d, at, e)
      BY <1>1, <2>3 DEF Between
    <2> QED
      BY <2>3, <2>4, <2>5
  <1> QED
    BY <1>2, <1>3

-----------------------------------------------------------------------------
(* The chunks and the stream in these terms.                               *)

LEMMA ChunkIs ==
    ASSUME Inputs, Types, WellCut, Scanning, phase # "split", NEW c \in Chunks
    PROVE  /\ c \in Nat \ {0} /\ c + 1 \in 1 .. Len(cuts)
           /\ cuts[c] \in Nat /\ cuts[c + 1] \in Nat /\ pos[c] \in Nat
           /\ Edge(data, cuts[c]) /\ Edge(data, cuts[c + 1])
           /\ cuts[c] <= pos[c] /\ pos[c] <= cuts[c + 1]
           /\ MatchesIn(c) = Between(data, pos[c], cuts[c + 1])
           /\ \A p : RelativeNumber(c, p) = LineNumber(data, numbered, cuts[c], p)
           /\ numbered => LinesOf(c) = Cardinality(NL(data, cuts[c], cuts[c + 1]))
  <1>1. c \in Nat \ {0} /\ c \in 1 .. Len(cuts) /\ c + 1 \in 1 .. Len(cuts) /\ c \in 1 .. Len(cuts) - 1
    BY DEF Chunks, Types
  <1>2. PICK from, to, at : from = cuts[c] /\ to = cuts[c + 1] /\ at = pos[c]
    OBVIOUS
  <1>3. from \in Nat /\ to \in Nat
    BY <1>1, <1>2 DEF Types
  <1>4. at \in Nat
    BY <1>2 DEF Types
  <1>5. Edge(data, from) /\ Edge(data, to)
    BY <1>1, <1>2 DEF WellCut, CutInto
  <1>6. from <= at /\ at <= to
    BY <1>2 DEF Scanning, Scanned
  <1>7. data \in Text
    BY DEF Inputs
  <1>8. Found(data, from, at, to) = Between(data, at, to)
    BY <1>3, <1>4, <1>5, <1>6, <1>7, RangeMatches
  <1>9. MatchesIn(c) = Between(data, at, to)
    BY <1>2, <1>8 DEF MatchesIn, Found, Newlines, NL
  <1>10. \A p : RelativeNumber(c, p) = LineNumber(data, numbered, from, p)
    BY <1>2 DEF RelativeNumber, LineNumber, Newlines, NL
  <1>11. numbered => LinesOf(c) = Cardinality(NL(data, from, to))
    BY <1>2 DEF LinesOf, Newlines, NL
  <1> QED
    BY <1>1, <1>2, <1>3, <1>4, <1>5, <1>6, <1>9, <1>10, <1>11

\* What a goroutine's next match is, and where it goes on after it.
LEMMA NextMatch ==
    ASSUME Inputs, Types, WellCut, Scanning, phase # "split", NEW c \in Chunks, MatchesIn(c) # {},
           NEW p, p = Min(MatchesIn(c)), NEW e, e = LineEnd(c, p)
    PROVE  /\ p \in Between(data, pos[c], cuts[c + 1]) /\ p \in Nat /\ pos[c] <= p
           /\ \A r \in Between(data, pos[c], cuts[c + 1]) : p <= r
           /\ e \in Nat /\ p < e /\ e <= cuts[c + 1] /\ Between(data, pos[c], e) = {p}
  <1>1. PICK from, to, at :
            /\ from = cuts[c] /\ to = cuts[c + 1] /\ at = pos[c]
            /\ from \in Nat /\ to \in Nat /\ at \in Nat /\ Edge(data, to)
            /\ MatchesIn(c) = Between(data, at, to)
    BY ChunkIs
  <1>2. data \in Text
    BY DEF Inputs
  <1>3. p \in Between(data, at, to) /\ \A r \in Between(data, at, to) : p <= r
    <2>1. Between(data, at, to) \in SUBSET Nat
      BY <1>2, StartsAre
    <2> QED
      BY <1>1, <2>1, MinExists
  <1>4. p \in Nat /\ at <= p
    BY <1>1, <1>2, <1>3, StartsAre DEF Between
  <1>5. e = IF NL(data, p, to) = {} THEN to ELSE Min(NL(data, p, to)) + 1
    BY <1>1 DEF LineEnd, Newlines, NL
  <1>6. e \in Nat /\ p < e /\ e <= to /\ Between(data, at, e) = {p}
    BY <1>1, <1>2, <1>3, <1>5, OneLine
  <1> QED
    BY <1>1, <1>3, <1>4, <1>6

\* A recorder takes one more match.
LEMMA RecordOne ==
    ASSUME NEW d \in Text, NEW n \in BOOLEAN, NEW s \in Seq(Event), NEW from \in Nat, NEW at \in Nat,
           Recorded(d, n, s, from, at), NEW p \in Nat, NEW e \in Nat,
           from <= at, at <= p, p < e, Between(d, at, e) = {p},
           NEW ev, ev = [offset |-> p, number |-> LineNumber(d, n, from, p)],
           NEW t, t = Append(s, ev)
    PROVE  t \in Seq(Event) /\ Recorded(d, n, t, from, e)
  <1>1. LineNumber(d, n, from, p) \in Nat
    <2>1. Cardinality(NL(d, from, p)) \in Nat
      BY NewlinesCount
    <2> QED
      BY <2>1 DEF LineNumber
  <1>2. ev \in Event
    BY <1>1 DEF Event
  <1>3. /\ t \in Seq(Event) /\ Len(s) \in Nat /\ Len(t) = Len(s) + 1 /\ t[Len(s) + 1] = ev
        /\ \A i \in 1 .. Len(s) : t[i] = s[i]
    BY <1>2
  <1>4. Offsets(t) = Offsets(s) \cup {p}
    BY <1>3 DEF Offsets
  <1>5. Between(d, from, e) = Between(d, from, at) \cup {p}
    <2>1. Between(d, from, e) = Between(d, from, at) \cup Between(d, at, e)
      <3>1. Starts(d) \in SUBSET Nat
        BY StartsAre
      <3> QED
        BY <3>1 DEF Between
    <2> QED
      BY <2>1
  <1>6. \A i \in 1 .. Len(s) : s[i].offset \in Between(d, from, at)
    BY DEF Recorded, Offsets
  <1>7. \A i \in 1 .. Len(s) : s[i].offset \in Nat /\ s[i].offset < p
    BY <1>6, StartsAre DEF Between
  <1>8. \A i, j \in 1 .. Len(t) : i < j => t[i].offset < t[j].offset
    <2> SUFFICES ASSUME NEW i \in 1 .. Len(t), NEW j \in 1 .. Len(t), i < j PROVE t[i].offset < t[j].offset
      OBVIOUS
    <2>1. i \in 1 .. Len(s)
      BY <1>3
    <2>2. CASE j \in 1 .. Len(s)
      BY <1>3, <2>1, <2>2 DEF Recorded
    <2>3. CASE j \notin 1 .. Len(s)
      <3>1. j = Len(s) + 1
        BY <1>3, <2>3
      <3> QED
        BY <1>3, <1>7, <2>1, <3>1
    <2> QED
      BY <2>2, <2>3
  <1>9. \A i \in 1 .. Len(t) : t[i].number = LineNumber(d, n, from, t[i].offset)
    <2> SUFFICES ASSUME NEW i \in 1 .. Len(t) PROVE t[i].number = LineNumber(d, n, from, t[i].offset)
      OBVIOUS
    <2>1. CASE i \in 1 .. Len(s)
      BY <1>3, <2>1 DEF Recorded
    <2>2. CASE i \notin 1 .. Len(s)
      BY <1>3, <2>2
    <2> QED
      BY <2>1, <2>2
  <1> QED
    BY <1>3, <1>4, <1>5, <1>8, <1>9 DEF Recorded

-----------------------------------------------------------------------------
(* The initial states, and the steps of splitChunks.                       *)

LEMMA InitInv == Init => Inv
  <1> SUFFICES ASSUME Init PROVE Inv
    OBVIOUS
  <1>1. data \in Text /\ Len(data) \in Nat
    <2>1. PICK m \in 0 .. MaxBytes : data \in [1 .. m -> {"hit", "miss", "nl"}]
      BY DEF Init, BoundedSeq, SeqOf
    <2>2. m \in Nat
      BY <2>1, ParallelBounds
    <2> QED
      BY <2>1, <2>2 DEF Text
  <1>2. limit \in Nat \cup {NoLimit} /\ workers \in Nat /\ numbered \in BOOLEAN
    BY ParallelBounds DEF Init
  <1>3. Inputs
    BY <1>1, <1>2 DEF Inputs
  <1>4. /\ turn = 1 /\ lineBases = << >> /\ chunk = 1 /\ event = 1
        /\ matchCount = 0 /\ delivered = << >> /\ Len(delivered) = 0 /\ Len(lineBases) = 0
        /\ pos = <<0>> /\ recorded = << << >> >> /\ chunkLines = <<Unknown>>
    BY DEF Init
  <1>5. Counting
    <2>1. limit # NoLimit => limit \in Nat
      BY <1>2
    <2> QED
      BY <1>4, <2>1 DEF Counting
  <1>6. Offsets(delivered) = {} /\ Between(data, 0, 0) = {}
    <2>1. Starts(data) \in SUBSET Nat
      BY <1>1, StartsAre
    <2> QED
      BY <1>4, <2>1 DEF Offsets, Between
  <1>7. CASE Eligible
    <2>1. cuts = <<0>> /\ phase = "split" /\ Len(data) > 0
      BY <1>1, <1>7, ParallelBounds DEF Init, Eligible
    <2>2. cuts \in Seq(Nat) /\ Len(cuts) = 1 /\ cuts[1] = 0
      BY <2>1
    <2>3. Types
      BY <1>4, <2>1, <2>2 DEF Types
    <2>4. WellCut
      BY <1>1, <2>1, <2>2 DEF WellCut, CutInto, Edge
    <2>5. Scanning /\ Recording /\ Summing /\ Delivering
      BY <1>4, <2>1, <2>2 DEF Scanning, Recording, Summing, Delivering
    <2> QED
      BY <1>3, <1>5, <2>3, <2>4, <2>5 DEF Inv
  <1>8. CASE ~Eligible
    <2>1. cuts = <<0, Len(data)>> /\ phase = "direct"
      BY <1>8 DEF Init
    <2>2. cuts \in Seq(Nat) /\ Len(cuts) = 2 /\ cuts[1] = 0 /\ cuts[2] = Len(data) /\ Chunks = {1}
      BY <1>1, <2>1 DEF Chunks
    <2>3. /\ pos \in [Chunks -> Nat] /\ pos[1] = 0 /\ chunkLines[1] = Unknown
          /\ chunkLines \in [Chunks -> Nat \cup {Unknown}]
      BY <1>4, <2>2
    <2>5. Types
      BY <1>4, <2>1, <2>2, <2>3 DEF Types
    <2>6. WellCut
      BY <1>1, <2>1, <2>2 DEF WellCut, CutInto, Edge
    <2>7. Scanning
      BY <1>1, <2>1, <2>2, <2>3 DEF Scanning, Scanned
    <2>8. Recording /\ Summing
      BY <1>4, <2>1, <2>2 DEF Recording, Summing
    <2>9. Delivering
      BY <1>4, <1>6, <2>1, <2>3 DEF Delivering
    <2> QED
      BY <1>3, <1>5, <2>5, <2>6, <2>7, <2>8, <2>9 DEF Inv
  <1> QED
    BY <1>7, <1>8

\* A boundary behind the last one.
LEMMA OneMoreCut ==
    ASSUME NEW d, NEW s \in Seq(Nat), Len(s) \in Nat \ {0}, CutInto(d, s),
           NEW at \in Nat, Edge(d, at), s[Len(s)] <= at
    PROVE  /\ Append(s, at) \in Seq(Nat) /\ Len(Append(s, at)) = Len(s) + 1
           /\ Append(s, at)[Len(s) + 1] = at
           /\ \A i \in 1 .. Len(s) : Append(s, at)[i] = s[i]
           /\ CutInto(d, Append(s, at))
  <1> DEFINE t == Append(s, at)
  <1>1. /\ t \in Seq(Nat) /\ Len(t) = Len(s) + 1 /\ t[Len(s) + 1] = at
        /\ \A i \in 1 .. Len(s) : t[i] = s[i]
    OBVIOUS
  <1> HIDE DEF t
  <1>2. ASSUME NEW i \in 1 .. Len(t) PROVE Edge(d, t[i])
    <2>1. CASE i = Len(s) + 1
      BY <1>1, <2>1
    <2>2. CASE i # Len(s) + 1
      <3>1. i \in 1 .. Len(s)
        BY <1>1, <2>2
      <3> QED
        BY <1>1, <3>1 DEF CutInto
    <2> QED
      BY <2>1, <2>2
  <1>3. ASSUME NEW i \in 1 .. Len(t) - 1 PROVE t[i] <= t[i + 1]
    <2>1. i \in 1 .. Len(s) /\ t[i] = s[i]
      BY <1>1
    <2>2. CASE i = Len(s)
      BY <1>1, <2>1, <2>2
    <2>3. CASE i # Len(s)
      <3>1. i \in 1 .. Len(s) - 1 /\ i + 1 \in 1 .. Len(s)
        BY <2>1, <2>3
      <3> QED
        BY <1>1, <2>1, <3>1 DEF CutInto
    <2> QED
      BY <2>2, <2>3
  <1>4. t[1] = 0
    BY <1>1 DEF CutInto
  <1>5. CutInto(d, t)
    BY <1>2, <1>3, <1>4 DEF CutInto
  <1> QED
    BY <1>1, <1>5 DEF t

\* A new boundary is the start of a line behind the last boundary.
LEMMA SplitKeeps ==
    ASSUME Inv, Split
    PROVE  Inv'
  <1>1. /\ Inputs /\ Types /\ WellCut /\ Scanning /\ Recording /\ Summing /\ Delivering /\ Counting
    BY DEF Inv
  <1>2. /\ phase = "split" /\ turn < workers /\ phase' = phase /\ turn' \in {workers, turn + 1}
        /\ UNCHANGED <<inputs, scans, lineBases, cursor, outcome>>
    BY DEF Split
  <1>3. /\ data' = data /\ limit' = limit /\ numbered' = numbered /\ workers' = workers
        /\ lineBases' = lineBases /\ lineBases = << >> /\ chunk' = chunk /\ event' = event
        /\ matchCount' = matchCount /\ delivered' = delivered /\ phase' = "split"
    BY <1>1, <1>2 DEF inputs, cursor, outcome, Summing
  <1>4. data \in Text /\ Len(data) \in Nat /\ turn \in Nat /\ workers \in Nat /\ turn' \in Nat
        /\ cuts \in Seq(Nat) /\ Len(cuts) \in Nat \ {0} /\ cuts[Len(cuts)] \in Nat
    BY <1>1, <1>2, StartsAre DEF Inputs, Types
  <1>5. \/ cuts' = cuts
        \/ \E at \in Nat : /\ cuts' = Append(cuts, at) /\ cuts[Len(cuts)] < at
                           /\ at < Len(data) /\ data[at] = "nl"
    <2>1. PICK want : want = turn * Target
      OBVIOUS
    <2>2. want \in Nat
      <3>1. Target \in Nat
        BY <1>2, <1>4, SMTT(30) DEF Target
      <3> QED
        BY <1>4, <2>1, <3>1
    <2>3. Last(cuts) = cuts[Len(cuts)]
      BY DEF Last
    <2>4. \/ cuts' = cuts
          \/ /\ ~(want <= Last(cuts)) /\ Newlines(want, Len(data)) # {} /\ Snap(want) < Len(data)
             /\ cuts' = Append(cuts, Snap(want))
      BY <2>1 DEF Split
    <2>5. ASSUME Newlines(want, Len(data)) # {}
          PROVE  Snap(want) \in Nat /\ want < Snap(want) /\ data[Snap(want)] = "nl"
      <3>1. Newlines(want, Len(data)) = NL(data, want, Len(data))
        BY DEF Newlines, NL
      <3>2. NL(data, want, Len(data)) \in SUBSET Nat
        BY <1>4, <2>2, NewlinesCount
      <3>3. PICK m \in NL(data, want, Len(data)) : m = Min(NL(data, want, Len(data)))
        BY <2>5, <3>1, <3>2, MinExists
      <3>4. m \in Nat /\ want <= m /\ data[m + 1] = "nl" /\ Snap(want) = m + 1
        BY <2>2, <3>1, <3>2, <3>3 DEF NL, Snap
      <3> QED
        BY <2>2, <3>4
    <2> QED
      BY <1>4, <2>2, <2>3, <2>4, <2>5, SMTT(30)
  <1>6. cuts' \in Seq(Nat) /\ Len(cuts') \in Nat \ {0} /\ WellCut'
    <2>1. CASE cuts' = cuts
      BY <1>1, <1>2, <1>3, <1>4, <2>1 DEF WellCut
    <2>2. ASSUME NEW at \in Nat, cuts' = Append(cuts, at), cuts[Len(cuts)] < at,
                 at < Len(data), data[at] = "nl"
          PROVE  cuts' \in Seq(Nat) /\ Len(cuts') \in Nat \ {0} /\ WellCut'
      <3>1. Edge(data, at)
        BY <1>4, <2>2 DEF Edge
      <3>2. CutInto(data, cuts)
        BY <1>1 DEF WellCut
      <3>3. /\ cuts' \in Seq(Nat) /\ Len(cuts') = Len(cuts) + 1 /\ cuts'[Len(cuts')] = at
            /\ CutInto(data, cuts')
        BY <1>4, <2>2, <3>1, <3>2, OneMoreCut
      <3> QED
        BY <1>3, <1>4, <2>2, <3>3 DEF WellCut
    <2> QED
      BY <1>5, <2>1, <2>2
  <1>7. Types'
    BY <1>1, <1>3, <1>4, <1>6 DEF Types
  <1>8. Inputs' /\ Counting'
    BY <1>1, <1>2, <1>3 DEF Inputs, Counting
  <1>10. Scanning' /\ Recording'
    BY <1>3 DEF Scanning, Recording
  <1>9. Summing' /\ Delivering'
    <2>1. Len(lineBases) = 0 /\ Len(cuts') > 0
      BY <1>3, <1>6
    <2> QED
      BY <1>1, <1>2, <1>3, <2>1 DEF Summing, Delivering
  <1> QED
    BY <1>6, <1>7, <1>8, <1>9, <1>10 DEF Inv

\* The goroutines start at the beginning of their ranges, with empty recorders.
LEMMA StartScanKeeps ==
    ASSUME Inv, StartScan
    PROVE  Inv'
  <1>1. /\ Inputs /\ Types /\ WellCut /\ Summing /\ Delivering /\ Counting
    BY DEF Inv
  <1>2. /\ phase = "split" /\ cuts' = Append(cuts, Len(data))
        /\ phase' = IF Len(cuts) > 1 THEN "scan" ELSE "direct"
        /\ pos' = cuts
        /\ recorded' = [c \in 1 .. Len(cuts) |-> << >>]
        /\ chunkLines' = [c \in 1 .. Len(cuts) |-> Unknown]
        /\ turn' = turn
    BY DEF StartScan
  <1>3. /\ data' = data /\ limit' = limit /\ numbered' = numbered /\ workers' = workers
        /\ lineBases' = lineBases /\ lineBases = << >> /\ chunk' = 1 /\ event' = 1
        /\ matchCount' = matchCount /\ delivered' = << >> /\ delivered = << >>
    BY <1>1, <1>2 DEF StartScan, inputs, cursor, outcome, Summing, Delivering
  <1>4. /\ data \in Text /\ Len(data) \in Nat /\ cuts \in Seq(Nat) /\ Len(cuts) \in Nat \ {0}
        /\ cuts[Len(cuts)] < Len(data) /\ cuts[Len(cuts)] \in Nat
    BY <1>1, <1>2, StartsAre DEF Inputs, Types, WellCut
  <1>5. /\ cuts' \in Seq(Nat) /\ Len(cuts') = Len(cuts) + 1 /\ cuts'[Len(cuts')] = Len(data)
        /\ CutInto(data, cuts') /\ \A i \in 1 .. Len(cuts) : cuts'[i] = cuts[i]
    <2>1. Edge(data, Len(data))
      BY <1>4 DEF Edge
    <2>2. CutInto(data, cuts) /\ cuts[Len(cuts)] <= Len(data)
      BY <1>1, <1>4 DEF WellCut
    <2>3. cuts \in Seq(Nat) /\ Len(cuts) \in Nat \ {0} /\ Len(data) \in Nat
      BY <1>4
    <2>4. cuts' = Append(cuts, Len(data))
      BY <1>2
    <2> QED
      BY <2>1, <2>2, <2>3, <2>4, OneMoreCut
  <1>6. Chunks' = 1 .. Len(cuts) /\ phase' \in {"scan", "direct"}
    BY <1>2, <1>4, <1>5 DEF Chunks
  <1>7. Inputs' /\ Counting'
    BY <1>1, <1>2, <1>3, <1>6 DEF Inputs, Counting
  <1>8. Types'
    <2>1. pos' \in [Chunks' -> Nat]
      BY <1>2, <1>4, <1>6
    <2>2. recorded' \in [Chunks' -> Seq(Event)]
      BY <1>2, <1>6
    <2>3. chunkLines' \in [Chunks' -> Nat \cup {Unknown}]
      BY <1>2, <1>6
    <2>4. Len(cuts') \in Nat \ {0}
      BY <1>4, <1>5
    <2>5. turn' \in Nat /\ matchCount' \in Nat
      BY <1>1, <1>2, <1>3 DEF Types
    <2> QED
      BY <1>3, <1>5, <1>6, <2>1, <2>2, <2>3, <2>4, <2>5 DEF Types
  <1>9. WellCut'
    BY <1>2, <1>3, <1>4, <1>5, <1>6 DEF WellCut
  <1>10. ASSUME NEW c \in Chunks'
         PROVE  /\ pos'[c] = cuts'[c] /\ cuts'[c] \in Nat /\ cuts'[c] <= cuts'[c + 1]
                /\ recorded'[c] = << >> /\ chunkLines'[c] = Unknown
    <2>1. c \in 1 .. Len(cuts) /\ c \in 1 .. Len(cuts') - 1 /\ c \in 1 .. Len(cuts')
      BY <1>4, <1>5, <1>6
    <2>2. cuts'[c] <= cuts'[c + 1] /\ cuts'[c] = cuts[c]
      BY <1>5, <2>1 DEF CutInto
    <2> QED
      BY <1>2, <1>4, <2>1, <2>2
  <1>11. Scanning'
    <2> SUFFICES ASSUME NEW c \in Chunks'
                 PROVE  Scanned(data', numbered', cuts'[c], pos'[c], cuts'[c + 1], chunkLines'[c])
      BY DEF Scanning
    <2> QED
      BY <1>10 DEF Scanned
  <1>12. \A a \in Nat : Between(data, a, a) = {}
    <2>1. Starts(data) \in SUBSET Nat
      BY <1>4, StartsAre
    <2> QED
      BY <2>1 DEF Between
  <1>13. Recording'
    <2> SUFFICES ASSUME NEW c \in Chunks'
                 PROVE  Recorded(data', numbered', recorded'[c], cuts'[c], pos'[c])
      BY DEF Recording
    <2>1. recorded'[c] = << >> /\ Len(recorded'[c]) = 0 /\ Offsets(recorded'[c]) = {}
      BY <1>10 DEF Offsets
    <2>2. Between(data', cuts'[c], pos'[c]) = {}
      BY <1>3, <1>10, <1>12
    <2> QED
      BY <2>1, <2>2 DEF Recorded
  <1>14. Summing'
    BY <1>3, <1>4, <1>5, <1>6 DEF Summing
  <1>15. Delivering'
    <2>1. Offsets(delivered') = {} /\ Between(data, 0, 0) = {}
      BY <1>3, <1>12 DEF Offsets
    <2>2. pos'[1] = 0
      BY <1>4, <1>5, <1>6, <1>10, SMTT(30) DEF CutInto
    <2> QED
      BY <1>3, <1>6, <2>1, <2>2 DEF Delivering
  <1> QED
    BY <1>7, <1>8, <1>9, <1>11, <1>13, <1>14, <1>15 DEF Inv

-----------------------------------------------------------------------------
(* The steps of the chunks' goroutines and of the replay.                  *)

\* A step that leaves the ranges, the recorders and the line bases as they are.
LEMMA Frozen ==
    ASSUME Inv, phase # "split", phase' # "split",
           UNCHANGED <<inputs, ranges, scans, lineBases>>,
           phase' = "direct" => phase = "direct",
           phase' = "replay" => \/ phase = "replay"
                                \/ phase = "scan" /\ Running = {} /\ Len(lineBases) = Len(cuts) - 1,
           phase' = "scan" => phase = "scan"
    PROVE  /\ Inputs' /\ WellCut' /\ Scanning' /\ Recording' /\ Summing' /\ Chunks' = Chunks
           /\ data' = data /\ limit' = limit /\ numbered' = numbered /\ cuts' = cuts /\ turn' = turn
           /\ pos' = pos /\ recorded' = recorded /\ chunkLines' = chunkLines /\ lineBases' = lineBases
  <1>1. /\ data' = data /\ limit' = limit /\ numbered' = numbered /\ workers' = workers
        /\ cuts' = cuts /\ turn' = turn /\ lineBases' = lineBases
        /\ pos' = pos /\ recorded' = recorded /\ chunkLines' = chunkLines
    BY DEF inputs, ranges, scans
  <1>2. Chunks' = Chunks /\ Running' = Running
    BY <1>1 DEF Chunks, Running
  <1>3. Inputs'
    BY <1>1 DEF Inv, Inputs
  <1>4. WellCut'
    BY <1>1 DEF Inv, WellCut
  <1>5. Scanning'
    BY <1>1, <1>2 DEF Inv, Scanning
  <1>6. Recording'
    BY <1>1, <1>2 DEF Inv, Recording
  <1>7. Summing'
    BY <1>1, <1>2 DEF Inv, Summing
  <1> QED
    BY <1>1, <1>2, <1>3, <1>4, <1>5, <1>6, <1>7

\* A goroutine records its next match and goes on behind its line.
LEMMA ScanChunkKeeps ==
    ASSUME Inv, NEW c \in Chunks, ScanChunk(c)
    PROVE  Inv'
  <1>1. /\ Inputs /\ Types /\ WellCut /\ Scanning /\ Recording /\ Summing /\ Delivering /\ Counting
    BY DEF Inv
  <1>2. PICK p, e, ev :
            /\ p = Min(MatchesIn(c)) /\ e = LineEnd(c, p)
            /\ ev = [offset |-> p, number |-> RelativeNumber(c, p)]
    OBVIOUS
  <1>3. /\ phase = "scan" /\ chunkLines[c] = Unknown /\ MatchesIn(c) # {}
        /\ recorded' = [recorded EXCEPT ![c] = Append(@, ev)]
        /\ pos' = [pos EXCEPT ![c] = e]
    BY <1>2 DEF ScanChunk
  <1>4. /\ data' = data /\ limit' = limit /\ numbered' = numbered /\ workers' = workers
        /\ cuts' = cuts /\ turn' = turn /\ lineBases' = lineBases /\ chunkLines' = chunkLines
        /\ chunk' = chunk /\ event' = event /\ phase' = phase
        /\ matchCount' = matchCount /\ delivered' = delivered
    BY DEF ScanChunk, inputs, ranges, cursor, outcome
  <1>5. Chunks' = Chunks /\ Running' = Running
    BY <1>4 DEF Chunks, Running
  <1>6. /\ p \in Between(data, pos[c], cuts[c + 1]) /\ p \in Nat /\ pos[c] <= p
        /\ e \in Nat /\ p < e /\ e <= cuts[c + 1] /\ Between(data, pos[c], e) = {p}
    BY <1>1, <1>2, <1>3, NextMatch
  <1>7. /\ cuts[c] \in Nat /\ cuts[c + 1] \in Nat /\ pos[c] \in Nat /\ cuts[c] <= pos[c]
        /\ RelativeNumber(c, p) = LineNumber(data, numbered, cuts[c], p)
    BY <1>1, <1>3, ChunkIs
  <1>8. /\ pos \in [Chunks -> Nat] /\ recorded \in [Chunks -> Seq(Event)]
        /\ chunkLines \in [Chunks -> Nat \cup {Unknown}]
    BY <1>1, <1>3 DEF Types
  <1>9. /\ pos'[c] = e /\ recorded'[c] = Append(recorded[c], ev)
        /\ \A x \in Chunks : x # c => pos'[x] = pos[x] /\ recorded'[x] = recorded[x]
    BY <1>3, <1>8
  <1>10. Append(recorded[c], ev) \in Seq(Event) /\ Recorded(data, numbered, Append(recorded[c], ev), cuts[c], e)
    <2>1. Recorded(data, numbered, recorded[c], cuts[c], pos[c])
      BY <1>1, <1>3 DEF Recording
    <2>2. PICK s, from, at : s = recorded[c] /\ from = cuts[c] /\ at = pos[c]
      OBVIOUS
    <2>3. s \in Seq(Event) /\ from \in Nat /\ at \in Nat /\ data \in Text /\ numbered \in BOOLEAN
      BY <1>1, <1>7, <1>8, <2>2 DEF Inputs
    <2>4. ev = [offset |-> p, number |-> LineNumber(data, numbered, from, p)]
      BY <1>2, <1>7, <2>2
    <2>5. Append(s, ev) \in Seq(Event) /\ Recorded(data, numbered, Append(s, ev), from, e)
      BY <1>6, <1>7, <2>1, <2>2, <2>3, <2>4, RecordOne
    <2> QED
      BY <2>2, <2>5
  <1>11. Inputs' /\ WellCut' /\ Counting'
    BY <1>1, <1>4 DEF Inputs, WellCut, Counting
  <1>12. Types'
    <2>1. pos' \in [Chunks -> Nat]
      BY <1>3, <1>6, <1>8
    <2>2. recorded' \in [Chunks -> Seq(Event)]
      BY <1>3, <1>8, <1>10
    <2> QED
      BY <1>1, <1>4, <1>5, <2>1, <2>2 DEF Types
  <1>13. Scanning'
    <2> SUFFICES ASSUME NEW x \in Chunks
                 PROVE  Scanned(data, numbered, cuts[x], pos'[x], cuts[x + 1], chunkLines[x])
      BY <1>4, <1>5 DEF Scanning
    <2>1. CASE x = c
      BY <1>3, <1>6, <1>7, <1>9, <2>1 DEF Scanned
    <2>2. CASE x # c
      BY <1>1, <1>3, <1>9, <2>2 DEF Scanning
    <2> QED
      BY <2>1, <2>2
  <1>14. Recording'
    <2> SUFFICES ASSUME NEW x \in Chunks PROVE Recorded(data, numbered, recorded'[x], cuts[x], pos'[x])
      BY <1>4, <1>5 DEF Recording
    <2>1. CASE x = c
      BY <1>9, <1>10, <2>1
    <2>2. CASE x # c
      BY <1>1, <1>3, <1>9, <2>2 DEF Recording
    <2> QED
      BY <2>1, <2>2
  <1>15. Summing' /\ Delivering'
    BY <1>1, <1>3, <1>4, <1>5 DEF Summing, Delivering
  <1> QED
    BY <1>11, <1>12, <1>13, <1>14, <1>15 DEF Inv

\* A goroutine ends: nothing is left of its range, and its lines are counted.
LEMMA ChunkDoneKeeps ==
    ASSUME Inv, NEW c \in Chunks, ChunkDone(c)
    PROVE  Inv'
  <1>1. /\ Inputs /\ Types /\ WellCut /\ Scanning /\ Recording /\ Summing /\ Delivering /\ Counting
    BY DEF Inv
  <1>2. /\ phase = "scan" /\ chunkLines[c] = Unknown /\ MatchesIn(c) = {}
        /\ chunkLines' = [chunkLines EXCEPT ![c] = LinesOf(c)]
    BY DEF ChunkDone
  <1>3. /\ data' = data /\ limit' = limit /\ numbered' = numbered /\ workers' = workers
        /\ cuts' = cuts /\ turn' = turn /\ lineBases' = lineBases
        /\ pos' = pos /\ recorded' = recorded
        /\ chunk' = chunk /\ event' = event /\ phase' = phase
        /\ matchCount' = matchCount /\ delivered' = delivered
    BY DEF ChunkDone, inputs, ranges, cursor, outcome
  <1>4. Chunks' = Chunks
    BY <1>3 DEF Chunks
  <1>5. /\ cuts[c] \in Nat /\ cuts[c + 1] \in Nat /\ cuts[c] <= pos[c] /\ pos[c] <= cuts[c + 1]
        /\ Between(data, pos[c], cuts[c + 1]) = {}
        /\ numbered => LinesOf(c) = Cardinality(NL(data, cuts[c], cuts[c + 1]))
    BY <1>1, <1>2, ChunkIs
  <1>6. LinesOf(c) \in Nat
    <2>1. Cardinality(NL(data, cuts[c], cuts[c + 1])) \in Nat
      BY <1>5, NewlinesCount
    <2>2. ~numbered => LinesOf(c) = 0
      BY DEF LinesOf
    <2> QED
      BY <1>5, <2>1, <2>2
  <1>7. chunkLines \in [Chunks -> Nat \cup {Unknown}]
    BY <1>1, <1>2 DEF Types
  <1>8. chunkLines' \in [Chunks -> Nat \cup {Unknown}] /\ chunkLines'[c] = LinesOf(c)
        /\ \A x \in Chunks : x # c => chunkLines'[x] = chunkLines[x]
    BY <1>2, <1>6, <1>7
  <1>9. Inputs' /\ WellCut' /\ Counting' /\ Recording'
    BY <1>1, <1>3, <1>4 DEF Inputs, WellCut, Counting, Recording
  <1>10. Types'
    BY <1>1, <1>3, <1>4, <1>8 DEF Types
  <1>11. Scanning'
    <2> SUFFICES ASSUME NEW x \in Chunks
                 PROVE  Scanned(data, numbered, cuts[x], pos[x], cuts[x + 1], chunkLines'[x])
      BY <1>3, <1>4 DEF Scanning
    <2>1. CASE x = c
      BY <1>5, <1>8, <2>1 DEF Scanned
    <2>2. CASE x # c
      BY <1>1, <1>2, <1>8, <2>2 DEF Scanning
    <2> QED
      BY <2>1, <2>2
  <1>12. lineBases = << >>
    <2>1. c \in Running
      BY <1>2 DEF Running
    <2> QED
      BY <1>1, <2>1 DEF Summing
  <1>13. Summing' /\ Delivering'
    BY <1>1, <1>2, <1>3, <1>12 DEF Summing, Delivering
  <1> QED
    BY <1>9, <1>10, <1>11, <1>13 DEF Inv

\* The prefix sum gets one more term: the lines above the next chunk.
LEMMA AddBaseKeeps ==
    ASSUME Inv, AddBase
    PROVE  Inv'
  <1>1. /\ Inputs /\ Types /\ WellCut /\ Scanning /\ Recording /\ Summing /\ Delivering /\ Counting
    BY DEF Inv
  <1> DEFINE n == Len(lineBases)
  <1>2. PICK base :
            /\ phase = "scan" /\ Running = {} /\ n < Len(cuts) - 1
            /\ lineBases' = Append(lineBases, base)
            /\ ~numbered => base = 0
            /\ numbered /\ lineBases = << >> => base = 1
            /\ numbered /\ lineBases # << >> => base = Last(lineBases) + chunkLines[n]
    BY DEF AddBase
  <1>3. /\ data' = data /\ limit' = limit /\ numbered' = numbered /\ workers' = workers
        /\ cuts' = cuts /\ turn' = turn /\ chunkLines' = chunkLines
        /\ pos' = pos /\ recorded' = recorded
        /\ chunk' = chunk /\ event' = event /\ phase' = phase
        /\ matchCount' = matchCount /\ delivered' = delivered
    BY DEF AddBase, inputs, ranges, scans, cursor, outcome
  <1>4. Chunks' = Chunks /\ Running' = Running
    BY <1>3 DEF Chunks, Running
  <1>5. lineBases \in Seq(Nat) /\ n \in Nat /\ Len(cuts) \in Nat \ {0} /\ cuts \in Seq(Nat) /\ numbered \in BOOLEAN
    BY <1>1 DEF Types, Inputs
  <1>6. base \in Nat /\ (numbered => base = 1 + Cardinality(NL(data, 0, cuts[n + 1])))
    <2>1. CASE ~numbered
      BY <1>2, <2>1
    <2>2. CASE numbered /\ lineBases = << >>
      <3>1. n = 0 /\ cuts[1] = 0
        BY <1>1, <2>2 DEF WellCut, CutInto
      <3>2. NL(data, 0, 0) = {}
        BY DEF NL
      <3>3. Cardinality(NL(data, 0, 0)) = 0
        BY <3>2, FS_EmptySet
      <3>4. n + 1 = 1 /\ base = 1
        BY <1>2, <2>2, <3>1
      <3> QED
        BY <3>1, <3>3, <3>4
    <2>3. CASE numbered /\ lineBases # << >>
      <3>1. n > 0 /\ n \in 1 .. Len(lineBases) /\ Last(lineBases) = lineBases[n]
        BY <1>5, <2>3 DEF Last
      <3>2. lineBases[n] = 1 + Cardinality(NL(data, 0, cuts[n]))
        BY <1>1, <2>3, <3>1 DEF Summing
      <3>3. n \in Chunks
        BY <1>2, <1>5, <3>1 DEF Chunks
      <3>4. cuts[n] \in Nat /\ cuts[n + 1] \in Nat /\ cuts[n] <= cuts[n + 1]
        <4>1. /\ cuts[n] \in Nat /\ cuts[n + 1] \in Nat /\ pos[n] \in Nat
              /\ cuts[n] <= pos[n] /\ pos[n] <= cuts[n + 1]
          BY <1>1, <1>2, <3>3, ChunkIs
        <4> QED
          BY <4>1
      <3>5. chunkLines[n] = Cardinality(NL(data, cuts[n], cuts[n + 1]))
        <4>1. chunkLines[n] # Unknown
          BY <1>2, <3>3 DEF Running
        <4> QED
          BY <1>1, <1>2, <2>3, <3>3, <4>1 DEF Scanning, Scanned
      <3>6. PICK a, b, k, l, m : /\ a = cuts[n] /\ b = cuts[n + 1]
                                 /\ k = Cardinality(NL(data, 0, a)) /\ l = Cardinality(NL(data, a, b))
                                 /\ m = Cardinality(NL(data, 0, b))
        OBVIOUS
      <3>7. a \in Nat /\ b \in Nat /\ 0 \in Nat /\ 0 <= a /\ a <= b
        BY <3>4, <3>6
      <3>9. k \in Nat /\ l \in Nat
        BY <3>6, <3>7, NewlinesCount
      <3>10. m = k + l
        BY <3>6, <3>7, NewlinesSplit
      <3>8. base = (1 + k) + l
        BY <1>2, <2>3, <3>1, <3>2, <3>5, <3>6
      <3>11. base \in Nat /\ base = 1 + m
        BY <3>8, <3>9, <3>10
      <3> QED
        BY <3>6, <3>11
    <2> QED
      BY <1>5, <2>1, <2>2, <2>3
  <1> HIDE DEF n
  <1>7. /\ lineBases' \in Seq(Nat) /\ Len(lineBases') = n + 1 /\ lineBases'[n + 1] = base
        /\ \A c \in 1 .. n : lineBases'[c] = lineBases[c]
    BY <1>2, <1>5, <1>6 DEF n
  <1>8. Inputs' /\ WellCut' /\ Counting' /\ Scanning'
    BY <1>1, <1>3, <1>4 DEF Inputs, WellCut, Counting, Scanning
  <1>9. Types' /\ Recording' /\ Delivering'
    BY <1>1, <1>2, <1>3, <1>4, <1>7 DEF Types, Recording, Delivering
  <1>10. Summing'
    <2>1. numbered => \A c \in 1 .. n + 1 : lineBases'[c] = 1 + Cardinality(NL(data, 0, cuts[c]))
      <3> SUFFICES ASSUME numbered, NEW c \in 1 .. n + 1
                   PROVE  lineBases'[c] = 1 + Cardinality(NL(data, 0, cuts[c]))
        OBVIOUS
      <3>1. CASE c = n + 1
        BY <1>6, <1>7, <3>1
      <3>2. CASE c # n + 1
        <4>1. c \in 1 .. n
          BY <1>5, <3>2 DEF n
        <4> QED
          BY <1>1, <1>7, <4>1 DEF Summing, n
      <3> QED
        BY <3>1, <3>2
    <2>2. Len(lineBases') < Len(cuts)
      BY <1>2, <1>5, <1>7
    <2> QED
      BY <1>2, <1>3, <1>4, <1>7, <2>1, <2>2 DEF Summing
  <1> QED
    BY <1>8, <1>9, <1>10 DEF Inv

\* When its goroutine has ended, a recorder holds the matching lines of its range.
LEMMA RecorderFull ==
    ASSUME Inv, phase = "replay", NEW c \in Chunks
    PROVE  /\ chunkLines[c] # Unknown /\ recorded[c] \in Seq(Event)
           /\ Offsets(recorded[c]) = Between(data, cuts[c], pos[c])
           /\ cuts[c] \in Nat /\ cuts[c + 1] \in Nat /\ cuts[c] <= cuts[c + 1]
           /\ Between(data, 0, cuts[c + 1]) = Between(data, 0, cuts[c]) \cup Offsets(recorded[c])
  <1>1. /\ Inputs /\ Types /\ WellCut /\ Scanning /\ Recording /\ Summing
    BY DEF Inv
  <1>2. chunkLines[c] # Unknown
    BY <1>1 DEF Summing, Running
  <1>3. /\ cuts[c] \in Nat /\ cuts[c + 1] \in Nat /\ pos[c] \in Nat
        /\ cuts[c] <= pos[c] /\ pos[c] <= cuts[c + 1]
    BY <1>1, ChunkIs
  <1>4. Offsets(recorded[c]) = Between(data, cuts[c], pos[c])
    BY <1>1 DEF Recording, Recorded
  <1>5. Between(data, pos[c], cuts[c + 1]) = {}
    BY <1>1, <1>2 DEF Scanning, Scanned
  <1>6. \A q \in Starts(data) : q \in Nat
    BY <1>1, StartsAre DEF Inputs
  <1>7. Between(data, 0, cuts[c + 1]) = Between(data, 0, cuts[c]) \cup Between(data, cuts[c], pos[c])
    <2>1. PICK a, b, e : a = cuts[c] /\ b = pos[c] /\ e = cuts[c + 1]
      OBVIOUS
    <2>2. \A q \in Starts(data) : ~(b <= q /\ q < e)
      BY <1>5, <2>1 DEF Between
    <2>3. a \in Nat /\ b \in Nat /\ e \in Nat /\ a <= b /\ b <= e
      BY <1>3, <2>1
    <2>4. Between(data, 0, e) = Between(data, 0, a) \cup Between(data, a, b)
      BY <1>6, <2>2, <2>3 DEF Between
    <2> QED
      BY <2>1, <2>4
  <1>8. cuts[c] <= cuts[c + 1]
    BY <1>3
  <1> QED
    BY <1>1, <1>2, <1>3, <1>4, <1>7, <1>8 DEF Types

\* The replay adds to a recorded number what the serial search would have counted
\* before the chunk.
LEMMA ReplayNumber ==
    ASSUME Inv, phase = "replay", NEW c \in Chunks, NEW i \in 1 .. Len(recorded[c])
    PROVE  /\ recorded[c][i] \in Event
           /\ Number(c, recorded[c][i]) = LineNumber(data, numbered, 0, recorded[c][i].offset)
           /\ Number(c, recorded[c][i]) \in Nat
  <1>1. /\ Inputs /\ Types /\ WellCut /\ Scanning /\ Recording /\ Summing
    BY DEF Inv
  <1>2. PICK p, number, a :
            p = recorded[c][i].offset /\ number = recorded[c][i].number /\ a = cuts[c]
    OBVIOUS
  <1>3. /\ recorded[c] \in Seq(Event) /\ a \in Nat
        /\ Offsets(recorded[c]) = Between(data, a, pos[c])
    BY <1>2, RecorderFull
  <1>4. recorded[c][i] \in Event /\ p \in Nat /\ number \in Nat
    <2>1. PICK s \in Seq(Event) : s = recorded[c]
      BY <1>3
    <2>2. s[i] \in Event
      BY <2>1
    <2> QED
      BY <1>2, <2>1, <2>2 DEF Event
  <1>5. a <= p
    <2>1. p \in Offsets(recorded[c])
      BY <1>2 DEF Offsets
    <2> QED
      BY <1>3, <2>1 DEF Between
  <1>6. number = LineNumber(data, numbered, a, p)
    BY <1>1, <1>2 DEF Recording, Recorded
  <1>7. CASE ~numbered
    BY <1>2, <1>4, <1>6, <1>7 DEF Number, LineNumber
  <1>8. CASE numbered
    <2>1. lineBases[c] = 1 + Cardinality(NL(data, 0, a))
      <3>1. c \in 1 .. Len(lineBases)
        BY <1>1 DEF Summing, Chunks
      <3> QED
        BY <1>1, <1>2, <1>8, <3>1 DEF Summing
    <2>2. PICK k, l, m : /\ k = Cardinality(NL(data, 0, a)) /\ l = Cardinality(NL(data, a, p))
                         /\ m = Cardinality(NL(data, 0, p))
      OBVIOUS
    <2>3. 0 \in Nat /\ 0 <= a
      BY <1>3
    <2>4. k \in Nat /\ l \in Nat /\ m \in Nat
      BY <1>3, <1>4, <2>2, <2>3, NewlinesCount
    <2>5. m = k + l
      BY <1>3, <1>4, <1>5, <2>2, <2>3, NewlinesSplit
    <2>6. number = 1 + l
      BY <1>6, <1>8, <2>2 DEF LineNumber
    <2>7. Number(c, recorded[c][i]) = number + (lineBases[c] - 1)
      BY <1>2, <1>8 DEF Number
    <2>8. Number(c, recorded[c][i]) = 1 + m
      BY <2>1, <2>2, <2>4, <2>5, <2>6, <2>7
    <2> QED
      BY <1>2, <1>4, <1>8, <2>2, <2>4, <2>8 DEF LineNumber
  <1> QED
    BY <1>7, <1>8

LEMMA StartReplayKeeps ==
    ASSUME Inv, StartReplay
    PROVE  Inv'
  <1>1. /\ Inputs /\ Types /\ WellCut /\ Scanning /\ Recording /\ Summing /\ Delivering /\ Counting
    BY DEF Inv
  <1>2. /\ phase = "scan" /\ phase' = "replay" /\ Running = {} /\ Len(lineBases) = Len(cuts) - 1
        /\ UNCHANGED <<inputs, ranges, scans, lineBases>>
    BY DEF StartReplay
  <1>3. chunk' = chunk /\ event' = event /\ matchCount' = matchCount /\ delivered' = delivered
    BY DEF StartReplay, cursor, outcome
  <1>4. /\ Inputs' /\ WellCut' /\ Scanning' /\ Recording' /\ Summing' /\ Chunks' = Chunks
        /\ data' = data /\ limit' = limit /\ numbered' = numbered /\ cuts' = cuts /\ turn' = turn
        /\ pos' = pos /\ recorded' = recorded /\ chunkLines' = chunkLines /\ lineBases' = lineBases
    BY <1>2, Frozen
  <1>5. Types'
    BY <1>1, <1>2, <1>3, <1>4 DEF Types
  <1>6. Delivering'
    <2>1. chunk = 1 /\ event = 1 /\ delivered = << >>
      BY <1>1, <1>2 DEF Delivering
    <2>2. 1 \in Chunks /\ 1 <= Len(cuts) /\ cuts[1] = 0
      BY <1>1, <1>2 DEF WellCut, CutInto, Chunks, Types
    <2>3. 1 <= Len(recorded[1]) + 1
      <3>1. recorded[1] \in Seq(Event)
        BY <1>1, <1>2, <2>2 DEF Types
      <3> QED
        BY <3>1
    <2>4. Between(data, 0, 0) = {}
      <3>1. Starts(data) \in SUBSET Nat
        BY <1>1, StartsAre DEF Inputs
      <3> QED
        BY <3>1 DEF Between
    <2>5. Offsets(delivered) = {} /\ {recorded[1][i].offset : i \in 1 .. 1 - 1} = {}
      BY <2>1 DEF Offsets
    <2> QED
      BY <1>2, <1>3, <1>4, <2>1, <2>2, <2>3, <2>4, <2>5 DEF Delivering
  <1>7. Counting'
    BY <1>1, <1>2, <1>3, <1>4 DEF Counting
  <1> QED
    BY <1>4, <1>5, <1>6, <1>7 DEF Inv

LEMMA NextRecorderKeeps ==
    ASSUME Inv, NextRecorder
    PROVE  Inv'
  <1>1. /\ Inputs /\ Types /\ WellCut /\ Scanning /\ Recording /\ Summing /\ Delivering /\ Counting
    BY DEF Inv
  <1>2. /\ phase = "replay" /\ phase' = "replay" /\ chunk \in Chunks /\ event > Len(recorded[chunk])
        /\ chunk' = chunk + 1 /\ event' = 1
        /\ UNCHANGED <<inputs, ranges, scans, lineBases>>
    BY DEF NextRecorder
  <1>3. matchCount' = matchCount /\ delivered' = delivered
    BY DEF NextRecorder, outcome
  <1>4. /\ Inputs' /\ WellCut' /\ Scanning' /\ Recording' /\ Summing' /\ Chunks' = Chunks
        /\ data' = data /\ limit' = limit /\ numbered' = numbered /\ cuts' = cuts /\ turn' = turn
        /\ pos' = pos /\ recorded' = recorded /\ chunkLines' = chunkLines /\ lineBases' = lineBases
    BY <1>2, Frozen
  <1>5. chunk' \in Nat \ {0} /\ event' \in Nat \ {0} /\ chunk \in 1 .. Len(cuts) - 1 /\ Len(cuts) \in Nat
    BY <1>1, <1>2 DEF Types, Chunks
  <1>6. Types'
    BY <1>1, <1>2, <1>3, <1>4, <1>5 DEF Types
  <1>7. Offsets(delivered) = Between(data, 0, cuts[chunk + 1])
    <2>1. /\ recorded[chunk] \in Seq(Event)
          /\ Between(data, 0, cuts[chunk + 1]) = Between(data, 0, cuts[chunk]) \cup Offsets(recorded[chunk])
      BY <1>2, RecorderFull
    <2>2. event - 1 = Len(recorded[chunk])
      <3>1. event <= Len(recorded[chunk]) + 1 /\ event \in Nat
        BY <1>1, <1>2 DEF Delivering, Types
      <3>2. Len(recorded[chunk]) \in Nat
        BY <2>1
      <3> QED
        BY <1>2, <3>1, <3>2
    <2>3. {recorded[chunk][i].offset : i \in 1 .. event - 1} = Offsets(recorded[chunk])
      BY <2>2 DEF Offsets
    <2> QED
      BY <1>1, <1>2, <2>1, <2>3 DEF Delivering
  <1>8. Delivering'
    <2>1. chunk' <= Len(cuts)
      BY <1>2, <1>5
    <2>2. ASSUME chunk' \in Chunks
          PROVE  /\ event' <= Len(recorded[chunk']) + 1
                 /\ Offsets(delivered) = Between(data, 0, cuts[chunk']) \cup
                                         {recorded[chunk'][i].offset : i \in 1 .. event' - 1}
      <3>1. recorded[chunk'] \in Seq(Event)
        BY <1>1, <1>2, <2>2 DEF Types
      <3>2. {recorded[chunk'][i].offset : i \in 1 .. event' - 1} = {}
        BY <1>2
      <3>3. event' <= Len(recorded[chunk']) + 1
        BY <1>2, <3>1
      <3> QED
        BY <1>2, <1>7, <3>2, <3>3
    <2>3. chunk' \notin Chunks => Offsets(delivered) = Between(data, 0, Len(data))
      <3>1. chunk' \notin Chunks => chunk' = Len(cuts)
        BY <1>5, <1>2, <2>1 DEF Chunks
      <3>2. cuts[Len(cuts)] = Len(data)
        BY <1>1, <1>2 DEF WellCut
      <3> QED
        BY <1>2, <1>7, <3>1, <3>2
    <2> QED
      BY <1>2, <1>3, <1>4, <2>1, <2>2, <2>3 DEF Delivering
  <1>9. Counting'
    BY <1>1, <1>2, <1>3, <1>4 DEF Counting
  <1> QED
    BY <1>4, <1>6, <1>8, <1>9 DEF Inv

\* The steps behind the last match, which touch nothing but the phase.
LEMMA EndKeeps ==
    ASSUME Inv, ReplayEnds \/ DirectEnds \/ Finish
    PROVE  Inv'
  <1>1. /\ Inputs /\ Types /\ Counting
    BY DEF Inv
  <1>2. /\ phase \in {"replay", "direct", "finish"} /\ phase' \in {"finish", "done"}
        /\ UNCHANGED <<inputs, ranges, scans, lineBases>>
    BY DEF ReplayEnds, DirectEnds, Finish
  <1>3. chunk' = chunk /\ event' = event /\ matchCount' = matchCount /\ delivered' = delivered
    BY DEF ReplayEnds, DirectEnds, Finish, cursor, outcome
  <1>4. /\ Inputs' /\ WellCut' /\ Scanning' /\ Recording' /\ Summing' /\ Chunks' = Chunks
        /\ data' = data /\ limit' = limit /\ numbered' = numbered /\ cuts' = cuts /\ turn' = turn
        /\ pos' = pos /\ recorded' = recorded /\ chunkLines' = chunkLines /\ lineBases' = lineBases
    BY <1>2, Frozen
  <1>5. Types'
    BY <1>1, <1>2, <1>3, <1>4 DEF Types
  <1>6. Delivering' /\ Counting'
    BY <1>1, <1>2, <1>3, <1>4 DEF Delivering, Counting
  <1> QED
    BY <1>4, <1>5, <1>6 DEF Inv

\* The Sink receives the next recorded match.
LEMMA ReplayKeeps ==
    ASSUME Inv, Replay
    PROVE  Inv'
  <1>1. /\ Inputs /\ Types /\ WellCut /\ Scanning /\ Recording /\ Summing /\ Delivering /\ Counting
    BY DEF Inv
  <1>12. PICK ev : ev = [offset |-> recorded[chunk][event].offset,
                         number |-> Number(chunk, recorded[chunk][event])]
    OBVIOUS
  <1>2. PICK answer \in Answers :
            /\ delivered' = Append(delivered, ev)
            /\ matchCount' = IF answer = "error" THEN matchCount ELSE matchCount + 1
            /\ phase' = CASE answer = "more" -> "replay"
                          [] answer = "stop" -> "finish"
                          [] answer = "error" -> "failed"
    BY <1>12 DEF Replay, Offer
  <1>3. /\ phase = "replay" /\ chunk \in Chunks /\ event <= Len(recorded[chunk]) /\ ~LimitReached
        /\ event' = event + 1 /\ chunk' = chunk
        /\ UNCHANGED <<inputs, ranges, scans, lineBases>>
    BY DEF Replay
  <1>4. /\ phase' \in {"replay", "finish", "failed"}
        /\ phase' # "failed" => matchCount' = matchCount + 1
        /\ matchCount' \in {matchCount, matchCount + 1}
    BY <1>2 DEF Answers
  <1>5. /\ Inputs' /\ WellCut' /\ Scanning' /\ Recording' /\ Summing' /\ Chunks' = Chunks
        /\ data' = data /\ limit' = limit /\ numbered' = numbered /\ cuts' = cuts /\ turn' = turn
        /\ pos' = pos /\ recorded' = recorded /\ chunkLines' = chunkLines /\ lineBases' = lineBases
    BY <1>3, <1>4, Frozen
  <1>6. /\ event \in Nat \ {0} /\ matchCount \in Nat /\ delivered \in Seq(Event) /\ chunk \in Nat \ {0}
        /\ recorded[chunk] \in Seq(Event) /\ event \in 1 .. Len(recorded[chunk])
    <2>1. /\ event \in Nat \ {0} /\ matchCount \in Nat /\ delivered \in Seq(Event) /\ chunk \in Nat \ {0}
      BY <1>1 DEF Types
    <2>2. recorded[chunk] \in Seq(Event)
      BY <1>1, <1>3 DEF Types
    <2>3. Len(recorded[chunk]) \in Nat
      BY <2>2
    <2> QED
      BY <1>3, <2>1, <2>2, <2>3
  <1>7. ev \in Event /\ ev.offset = recorded[chunk][event].offset
    <2>1. recorded[chunk][event] \in Event /\ Number(chunk, recorded[chunk][event]) \in Nat
      BY <1>3, <1>6, ReplayNumber
    <2> QED
      BY <1>12, <2>1 DEF Event
  <1>8. /\ delivered' \in Seq(Event) /\ Len(delivered') = Len(delivered) + 1
        /\ Len(delivered) \in Nat
        /\ Offsets(delivered') = Offsets(delivered) \cup {ev.offset}
    <2>1. /\ delivered' \in Seq(Event) /\ Len(delivered) \in Nat /\ Len(delivered') = Len(delivered) + 1
          /\ delivered'[Len(delivered) + 1] = ev /\ \A i \in 1 .. Len(delivered) : delivered'[i] = delivered[i]
      BY <1>2, <1>6, <1>7
    <2> QED
      BY <2>1 DEF Offsets
  <1>9. Types'
    BY <1>1, <1>3, <1>4, <1>5, <1>6, <1>8, SMTT(30) DEF Types
  <1>10. Counting'
    <2>1. limit # NoLimit => limit \in Nat /\ matchCount < limit
      BY <1>1, <1>3, <1>6 DEF LimitReached, Inputs
    <2>2. matchCount = Len(delivered)
      BY <1>1, <1>3 DEF Counting
    <2> QED
      BY <1>4, <1>5, <1>6, <1>8, <2>1, <2>2 DEF Counting
  <1>11. Delivering'
    <2> SUFFICES ASSUME phase' = "replay" PROVE Delivering'
      BY <1>4 DEF Delivering
    <2>1. chunk <= Len(cuts) /\ event + 1 <= Len(recorded[chunk]) + 1
      BY <1>1, <1>3, <1>6 DEF Delivering
    <2>2. Offsets(delivered) = Between(data, 0, cuts[chunk]) \cup {recorded[chunk][i].offset : i \in 1 .. event - 1}
      BY <1>1, <1>3 DEF Delivering
    <2>3. 1 .. (event + 1) - 1 = (1 .. event - 1) \cup {event}
      BY <1>6
    <2>4. {recorded[chunk][i].offset : i \in 1 .. (event + 1) - 1} =
              {recorded[chunk][i].offset : i \in 1 .. event - 1} \cup {ev.offset}
      BY <1>7, <2>3
    <2>5. Offsets(delivered') = Between(data, 0, cuts[chunk]) \cup
                                {recorded[chunk][i].offset : i \in 1 .. (event + 1) - 1}
      BY <1>8, <2>2, <2>4
    <2> QED
      BY <1>3, <1>5, <2>1, <2>5 DEF Delivering
  <1> QED
    BY <1>5, <1>9, <1>10, <1>11 DEF Inv

\* The Sink receives the next match of the direct scan.
LEMMA ScanDirectlyKeeps ==
    ASSUME Inv, ScanDirectly
    PROVE  Inv'
  <1>1. /\ Inputs /\ Types /\ WellCut /\ Scanning /\ Summing /\ Delivering /\ Counting
    BY DEF Inv
  <1>19. PICK p : p = Min(MatchesIn(1))
    OBVIOUS
  <1>20. PICK e, ev : e = LineEnd(1, p) /\ ev = [offset |-> p, number |-> RelativeNumber(1, p)]
    OBVIOUS
  <1>2. PICK answer \in Answers :
            /\ pos' = [pos EXCEPT ![1] = e]
            /\ delivered' = Append(delivered, ev)
            /\ matchCount' = IF answer = "error" THEN matchCount ELSE matchCount + 1
            /\ phase' = CASE answer = "more" -> "direct"
                          [] answer = "stop" -> "finish"
                          [] answer = "error" -> "failed"
    BY <1>19, <1>20 DEF ScanDirectly, Offer
  <1>3. /\ phase = "direct" /\ MatchesIn(1) # {} /\ ~LimitReached
        /\ data' = data /\ limit' = limit /\ numbered' = numbered /\ workers' = workers
        /\ cuts' = cuts /\ turn' = turn /\ chunkLines' = chunkLines /\ lineBases' = lineBases
        /\ recorded' = recorded /\ chunk' = chunk /\ event' = event
    BY DEF ScanDirectly, inputs, ranges, cursor
  <1>4. /\ phase' \in {"direct", "finish", "failed"}
        /\ phase' # "failed" => matchCount' = matchCount + 1
        /\ matchCount' \in {matchCount, matchCount + 1}
    BY <1>2 DEF Answers
  <1>5. Chunks' = Chunks /\ Running' = Running /\ 1 \in Chunks /\ Len(cuts) = 2 /\ Chunks = {1}
    <2>1. Len(cuts) = 2
      BY <1>1, <1>3 DEF WellCut
    <2>2. Chunks = 1 .. 1
      BY <2>1 DEF Chunks
    <2>3. Chunks' = Chunks /\ Running' = Running
      BY <1>3 DEF Chunks, Running
    <2> QED
      BY <2>1, <2>2, <2>3
  <1>6. /\ p \in Between(data, pos[1], cuts[2]) /\ p \in Nat /\ pos[1] <= p
        /\ e \in Nat /\ p < e /\ e <= cuts[2] /\ Between(data, pos[1], e) = {p}
    <2>1. 1 + 1 = 2
      OBVIOUS
    <2> QED
      BY <1>1, <1>3, <1>5, <1>19, <1>20, <2>1, NextMatch
  <1>7. /\ cuts[1] = 0 /\ pos[1] \in Nat /\ RelativeNumber(1, p) = LineNumber(data, numbered, 0, p)
    <2>1. cuts[1] = 0
      BY <1>1 DEF WellCut, CutInto
    <2> QED
      BY <1>1, <1>3, <1>5, <2>1, ChunkIs
  <1>21. cuts[2] \in Nat
    <2>1. 1 + 1 = 2
      OBVIOUS
    <2> QED
      BY <1>1, <1>3, <1>5, <2>1, ChunkIs
  <1>8. ev \in Event /\ ev.offset = p
    <2>1. 0 \in Nat /\ Cardinality(NL(data, 0, p)) \in Nat
      BY <1>6, NewlinesCount
    <2>2. RelativeNumber(1, p) \in Nat
      BY <1>7, <2>1 DEF LineNumber
    <2> QED
      BY <1>6, <1>20, <2>2 DEF Event
  <1>9. delivered \in Seq(Event) /\ matchCount \in Nat /\ pos \in [Chunks -> Nat]
    BY <1>1, <1>3 DEF Types
  <1>10. /\ delivered' \in Seq(Event) /\ Len(delivered') = Len(delivered) + 1
         /\ Len(delivered) \in Nat
         /\ Offsets(delivered') = Offsets(delivered) \cup {p}
    <2>1. /\ delivered' \in Seq(Event) /\ Len(delivered) \in Nat /\ Len(delivered') = Len(delivered) + 1
          /\ delivered'[Len(delivered) + 1] = ev /\ \A i \in 1 .. Len(delivered) : delivered'[i] = delivered[i]
      BY <1>2, <1>8, <1>9
    <2> QED
      BY <1>8, <2>1 DEF Offsets
  <1>11. pos'[1] = e /\ pos' \in [Chunks -> Nat]
    BY <1>2, <1>5, <1>6, <1>9
  <1>12. Inputs' /\ WellCut'
    BY <1>1, <1>3, <1>4 DEF Inputs, WellCut
  <1>13. Types'
    BY <1>1, <1>3, <1>4, <1>5, <1>9, <1>10, <1>11 DEF Types
  <1>14. Scanning'
    <2>1. Scanned(data, numbered, cuts[1], pos[1], cuts[2], chunkLines[1])
      <3>1. 1 + 1 = 2
        OBVIOUS
      <3> QED
        BY <1>1, <1>3, <1>5, <3>1 DEF Scanning
    <2>2. Between(data, e, cuts[2]) \subseteq Between(data, pos[1], cuts[2])
      <3>1. data \in Text /\ pos[1] <= e
        BY <1>1, <1>6, <1>7 DEF Inputs
      <3>2. Between(data, pos[1], cuts[2]) = Between(data, pos[1], e) \cup Between(data, e, cuts[2])
        BY <1>6, <1>7, <1>21, <3>1, BetweenJoin
      <3> QED
        BY <3>2
    <2>3. Scanned(data, numbered, cuts[1], e, cuts[2], chunkLines[1])
      BY <1>6, <1>7, <2>1, <2>2 DEF Scanned
    <2> SUFFICES ASSUME NEW c \in Chunks
                 PROVE  Scanned(data, numbered, cuts[c], pos'[c], cuts[c + 1], chunkLines[c])
      BY <1>3, <1>5 DEF Scanning
    <2>4. c = 1 /\ c + 1 = 2
      BY <1>5
    <2> QED
      BY <1>11, <2>3, <2>4
  <1>15. Recording'
    BY <1>4 DEF Recording
  <1>16. Summing'
    BY <1>1, <1>3, <1>4, <1>5 DEF Summing
  <1>17. Delivering'
    <2>1. Between(data, 0, e) = Between(data, 0, pos[1]) \cup Between(data, pos[1], e)
      <3>1. data \in Text /\ 0 \in Nat /\ 0 <= pos[1] /\ pos[1] <= e
        BY <1>1, <1>6, <1>7 DEF Inputs
      <3> QED
        BY <1>6, <1>7, <3>1, BetweenJoin
    <2> QED
      BY <1>1, <1>3, <1>4, <1>6, <1>10, <1>11, <2>1 DEF Delivering
  <1>18. Counting'
    <2>1. limit # NoLimit => limit \in Nat /\ matchCount < limit
      BY <1>1, <1>3, <1>9 DEF LimitReached, Inputs
    <2>2. matchCount = Len(delivered)
      BY <1>1, <1>3 DEF Counting
    <2> QED
      BY <1>3, <1>4, <1>9, <1>10, <2>1, <2>2 DEF Counting
  <1> QED
    BY <1>12, <1>13, <1>14, <1>15, <1>16, <1>17, <1>18 DEF Inv

LEMMA StepInv == Inv /\ [Next]_vars => Inv'
  <1> SUFFICES ASSUME Inv, [Next]_vars PROVE Inv'
    OBVIOUS
  <1>1. CASE Split
    BY <1>1, SplitKeeps
  <1>2. CASE StartScan
    BY <1>2, StartScanKeeps
  <1>3. ASSUME NEW c \in Chunks, ScanChunk(c) \/ ChunkDone(c) PROVE Inv'
    BY <1>3, ScanChunkKeeps, ChunkDoneKeeps
  <1>4. CASE AddBase
    BY <1>4, AddBaseKeeps
  <1>5. CASE StartReplay
    BY <1>5, StartReplayKeeps
  <1>6. CASE Replay
    BY <1>6, ReplayKeeps
  <1>7. CASE NextRecorder
    BY <1>7, NextRecorderKeeps
  <1>8. CASE ScanDirectly
    BY <1>8, ScanDirectlyKeeps
  <1>9. CASE ReplayEnds \/ DirectEnds \/ Finish
    BY <1>9, EndKeeps
  <1>10. CASE UNCHANGED vars
    <2>1. /\ data' = data /\ limit' = limit /\ numbered' = numbered /\ workers' = workers
          /\ cuts' = cuts /\ turn' = turn /\ chunkLines' = chunkLines /\ lineBases' = lineBases
          /\ pos' = pos /\ recorded' = recorded /\ chunk' = chunk /\ event' = event
          /\ phase' = phase /\ matchCount' = matchCount /\ delivered' = delivered
      BY <1>10 DEF vars, inputs, ranges, scans, cursor, outcome
    <2>2. Chunks' = Chunks /\ Running' = Running
      BY <2>1 DEF Chunks, Running
    <2>3. Inputs' /\ WellCut' /\ Scanning' /\ Recording'
      BY <2>1, <2>2 DEF Inv, Inputs, WellCut, Scanning, Recording
    <2>4. Types' /\ Summing' /\ Delivering' /\ Counting'
      BY <2>1, <2>2 DEF Inv, Types, Summing, Delivering, Counting
    <2> QED
      BY <2>3, <2>4 DEF Inv
  <1> QED
    BY <1>1, <1>2, <1>3, <1>4, <1>5, <1>6, <1>7, <1>8, <1>9, <1>10 DEF Next, Step, Returned

\* The chunks, the recorders, the line bases and what the Sink has received agree
\* with the data at every moment; the refinement below rests on it.
THEOREM InvHolds == Spec => []Inv
  <1>1. Init => Inv
    BY InitInv
  <1>2. Inv /\ [Next]_vars => Inv'
    BY StepInv
  <1> QED
    BY <1>1, <1>2, PTL DEF Spec

-----------------------------------------------------------------------------
(* The parallel search implements the serial one.                          *)

\* What MatchStream says of the data, in the terms above.
LEMMA StreamIs ==
    ASSUME Inv
    PROVE  /\ Stream!MatchingLines = Starts(data)
           /\ \A p : Stream!Number(p) = LineNumber(data, numbered, 0, p)
           /\ Stream!Left = Starts(data) \ Offsets(delivered)
           /\ Stream!Exhausted <=> Stream!Left = {} \/ Len(delivered) = limit
  <1>1. Stream!MatchingLines = Starts(data)
    BY DEF Stream!MatchingLines, Stream!LineStart, Stream!HoldsHit, Starts
  <1>2. \A p : Stream!Number(p) = LineNumber(data, numbered, 0, p)
    <2>1. \A S : Stream!Cardinality(S) = Cardinality(S)
      BY DEF Stream!Cardinality, Cardinality
    <2>2. \A p : NL(data, 0, p) = {q \in 0 .. p - 1 : data[q + 1] = "nl"}
      BY DEF NL
    <2> QED
      BY <2>1, <2>2 DEF Stream!Number, LineNumber
  <1>3. DOMAIN delivered = 1 .. Len(delivered)
    BY DEF Inv, Types
  <1>4. {delivered[i].offset : i \in DOMAIN delivered} = Offsets(delivered)
    BY <1>3 DEF Offsets
  <1>5. Stream!Left = Starts(data) \ Offsets(delivered)
    BY <1>1, <1>4 DEF Stream!Left
  <1> QED
    BY <1>1, <1>2, <1>5 DEF Stream!Exhausted

\* A first element is the minimum.
LEMMA MinIs ==
    ASSUME NEW S \in SUBSET Nat, NEW p \in S, \A r \in S : p <= r
    PROVE  Min(S) = p
  <1>1. Min(S) \in S /\ Min(S) <= p
    BY MinExists
  <1>2. Min(S) \in Nat /\ p \in Nat /\ p <= Min(S)
    BY <1>1
  <1> QED
    BY <1>1, <1>2

\* A match that the Sink receives is the first matching line it has not seen.
LEMMA DeliverOne ==
    ASSUME Inv, phase \in {"replay", "direct"}, ~LimitReached,
           NEW ev, delivered' = Append(delivered, ev),
           NEW p \in Stream!Left, \A r \in Stream!Left : p <= r,
           ev = [offset |-> p, number |-> LineNumber(data, numbered, 0, p)],
           phase' \in {"replay", "direct", "finish", "failed"},
           data' = data, limit' = limit, numbered' = numbered
    PROVE  Stream!Deliver
  <1>1. Stream!Left \in SUBSET Nat
    <2>1. Starts(data) \in SUBSET Nat
      BY StartsAre DEF Inv, Inputs
    <2> QED
      BY <2>1, StreamIs
  <1>2. Min(Stream!Left) = p
    BY <1>1, MinIs
  <1>3. ~Stream!Exhausted
    <2>1. matchCount = Len(delivered) /\ matchCount \in Nat /\ (limit = NoLimit \/ limit \in Nat)
      BY DEF Inv, Counting, Types, Inputs
    <2>2. Len(delivered) # limit
      BY <2>1, ParallelBounds DEF LimitReached
    <2>3. Stream!Left # {}
      OBVIOUS
    <2> QED
      BY <2>2, <2>3 DEF Stream!Exhausted
  <1>4. Status = "open" /\ Status' \in {"open", "closed", "failed"}
    BY DEF Status
  <1>5. Count = 0 /\ Count' = 0
    BY DEF Count
  <1>6. Stream!Number(p) = LineNumber(data, numbered, 0, p)
    BY StreamIs
  <1>8. Stream!Min(Stream!Left) = Min(Stream!Left)
    BY DEF Stream!Min, Min
  <1>7. delivered' = Append(delivered, [offset |-> Min(Stream!Left), number |-> Stream!Number(Min(Stream!Left))])
    BY <1>2, <1>6
  <1> QED
    BY <1>3, <1>4, <1>5, <1>7, <1>8 DEF Stream!Deliver

LEMMA ReplayDelivers ==
    ASSUME Inv, Replay
    PROVE  Stream!Deliver
  <1>1. /\ phase = "replay" /\ chunk \in Chunks /\ event <= Len(recorded[chunk]) /\ ~LimitReached
        /\ data' = data /\ limit' = limit /\ numbered' = numbered
    BY DEF Replay, inputs
  <1>2. PICK p, s, a, b : /\ s = recorded[chunk] /\ a = cuts[chunk] /\ b = pos[chunk]
                          /\ p = s[event].offset
    OBVIOUS
  <1>3. PICK ev : ev = [offset |-> p, number |-> LineNumber(data, numbered, 0, p)]
    OBVIOUS
  <1>4. /\ s \in Seq(Event) /\ Offsets(s) = Between(data, a, b)
        /\ a \in Nat /\ data \in Text
        /\ event \in 1 .. Len(s)
    <2>1. s \in Seq(Event) /\ Offsets(s) = Between(data, a, b) /\ a \in Nat
      BY <1>1, <1>2, RecorderFull
    <2>2. event \in Nat \ {0} /\ data \in Text
      BY DEF Inv, Types, Inputs
    <2> QED
      BY <1>1, <1>2, <2>1, <2>2
  <1>5. Number(chunk, recorded[chunk][event]) = LineNumber(data, numbered, 0, p)
    BY <1>1, <1>2, <1>4, ReplayNumber
  <1>6. delivered' = Append(delivered, ev) /\ phase' \in {"replay", "finish", "failed"}
    BY <1>2, <1>3, <1>5 DEF Replay, Offer, Answers
  <1>7. p \in Starts(data) /\ p \in Nat /\ a <= p /\ p < b
    <2>1. p \in Offsets(s)
      BY <1>2, <1>4 DEF Offsets
    <2>2. Starts(data) \in SUBSET Nat
      BY <1>4, StartsAre
    <2> QED
      BY <1>4, <2>1, <2>2 DEF Between
  <1>8. Offsets(delivered) = Between(data, 0, a) \cup {s[i].offset : i \in 1 .. event - 1}
    BY <1>1, <1>2 DEF Inv, Delivering
  <1>9. \A i, j \in 1 .. Len(s) : i < j => s[i].offset < s[j].offset
    BY <1>1, <1>2 DEF Inv, Recording, Recorded
  <1>10. \A i \in 1 .. Len(s) : s[i].offset \in Nat
    <2>1. \A i \in 1 .. Len(s) : s[i] \in Event
      BY <1>4
    <2> QED
      BY <2>1 DEF Event
  <1>11. p \notin Offsets(delivered)
    <2>1. p \notin Between(data, 0, a)
      BY <1>4, <1>7 DEF Between
    <2>2. ASSUME NEW i \in 1 .. event - 1 PROVE s[i].offset # p
      <3>1. i \in 1 .. Len(s) /\ i < event
        BY <1>4
      <3>2. s[i].offset < p
        BY <1>2, <1>4, <1>9, <3>1
      <3> QED
        BY <1>7, <1>10, <3>1, <3>2
    <2> QED
      BY <1>8, <2>1, <2>2
  <1>12. ASSUME NEW r \in Starts(data) \ Offsets(delivered) PROVE p <= r
    <2> SUFFICES ASSUME r < p PROVE FALSE
      <3>1. r \in Nat
        BY <1>4, StartsAre
      <3> QED
        BY <1>7, <3>1
    <2>1. r \in Nat
      BY <1>4, StartsAre
    <2>2. a <= r
      <3>1. r \notin Between(data, 0, a)
        BY <1>8
      <3> QED
        BY <1>4, <2>1, <3>1 DEF Between
    <2>3. r \in Offsets(s)
      <3>1. r < b
        <4>1. b \in Nat
          BY <1>1, <1>2 DEF Inv, Types
        <4> QED
          BY <1>7, <2>1, <4>1
      <3> QED
        BY <1>4, <2>2, <3>1 DEF Between
    <2>4. PICK j \in 1 .. Len(s) : s[j].offset = r
      BY <2>3 DEF Offsets
    <2>5. ~(j < event)
      <3> SUFFICES ASSUME j < event PROVE FALSE
        OBVIOUS
      <3>1. j \in 1 .. event - 1
        BY <1>4, <2>4
      <3> QED
        BY <1>8, <2>4, <3>1
    <2>6. p <= r
      <3>1. CASE j = event
        BY <1>2, <1>7, <2>4, <3>1
      <3>2. CASE j # event
        <4>1. event < j
          BY <1>4, <2>5, <3>2
        <4>2. p < r
          BY <1>2, <1>4, <1>9, <2>4, <4>1
        <4> QED
          BY <1>7, <2>1, <4>2
      <3> QED
        BY <3>1, <3>2
    <2> QED
      BY <1>7, <2>1, <2>6
  <1>13. Stream!Left = Starts(data) \ Offsets(delivered)
    BY StreamIs
  <1> QED
    BY <1>1, <1>3, <1>6, <1>7, <1>11, <1>12, <1>13, DeliverOne

LEMMA ScanDelivers ==
    ASSUME Inv, ScanDirectly
    PROVE  Stream!Deliver
  <1>1. PICK p : p = Min(MatchesIn(1))
    OBVIOUS
  <1>2. PICK e, ev : e = LineEnd(1, p) /\ ev = [offset |-> p, number |-> RelativeNumber(1, p)]
    OBVIOUS
  <1>3. /\ phase = "direct" /\ MatchesIn(1) # {} /\ ~LimitReached
        /\ data' = data /\ limit' = limit /\ numbered' = numbered
    BY DEF ScanDirectly, inputs
  <1>4. delivered' = Append(delivered, ev) /\ phase' \in {"direct", "finish", "failed"}
    BY <1>1, <1>2 DEF ScanDirectly, Offer, Answers
  <1>5. Inputs /\ Types /\ WellCut /\ Scanning /\ Delivering
    BY DEF Inv
  <1>6. 1 \in Chunks /\ 1 + 1 = 2 /\ cuts[1] = 0 /\ cuts[2] = Len(data) /\ data \in Text
    <2>1. Len(cuts) = 2 /\ cuts[Len(cuts)] = Len(data) /\ cuts[1] = 0
      BY <1>3, <1>5 DEF WellCut, CutInto
    <2> QED
      BY <1>5, <2>1 DEF Chunks, Inputs
  <1>7. /\ pos[1] \in Nat /\ RelativeNumber(1, p) = LineNumber(data, numbered, 0, p)
        /\ MatchesIn(1) = Between(data, pos[1], Len(data)) /\ pos[1] <= Len(data)
    BY <1>3, <1>5, <1>6, ChunkIs
  <1>8. p \in Between(data, pos[1], Len(data)) /\ \A r \in Between(data, pos[1], Len(data)) : p <= r
    BY <1>1, <1>2, <1>3, <1>5, <1>6, NextMatch
  <1>9. Stream!Left = Between(data, pos[1], Len(data))
    <2>1. Stream!Left = Starts(data) \ Between(data, 0, pos[1])
      <3>1. Offsets(delivered) = Between(data, 0, pos[1])
        BY <1>3, <1>5 DEF Delivering
      <3> QED
        BY <3>1, StreamIs
    <2>2. \A r \in Starts(data) : r \in Nat /\ r < Len(data)
      BY <1>6, StartsAre
    <2> QED
      BY <1>7, <2>1, <2>2 DEF Between
  <1> QED
    BY <1>2, <1>3, <1>4, <1>7, <1>8, <1>9, DeliverOne

\* The search ends when nothing is left or the limit is reached.
LEMMA EndEnds ==
    ASSUME Inv, ReplayEnds \/ DirectEnds
    PROVE  Stream!End
  <1>1. /\ data' = data /\ limit' = limit /\ numbered' = numbered /\ delivered' = delivered
        /\ phase \in {"replay", "direct"} /\ phase' = "finish"
    BY DEF ReplayEnds, DirectEnds, inputs, outcome
  <1>2. Status = "open" /\ Status' = "closed" /\ Count = 0 /\ Count' = 0
    BY <1>1 DEF Status, Count
  <1>3. LimitReached => Len(delivered) = limit
    <2>1. matchCount = Len(delivered) /\ (limit # NoLimit => matchCount <= limit) /\ matchCount \in Nat
          /\ limit \in Nat \cup {NoLimit}
      BY <1>1 DEF Inv, Counting, Types, Inputs
    <2> QED
      BY <2>1 DEF LimitReached
  <1>4. \A r \in Starts(data) : r \in Nat /\ 0 <= r /\ r < Len(data)
    BY StartsAre DEF Inv, Inputs
  <1>5. Stream!Exhausted
    <2>1. CASE LimitReached
      BY <1>3, <2>1 DEF Stream!Exhausted
    <2>2. CASE ~LimitReached /\ ReplayEnds
      <3>1. Offsets(delivered) = Between(data, 0, Len(data))
        BY <2>2 DEF ReplayEnds, Inv, Delivering
      <3>2. Stream!Left = {}
        BY <1>4, <3>1, StreamIs DEF Between
      <3> QED
        BY <3>2 DEF Stream!Exhausted
    <2>3. CASE ~LimitReached /\ DirectEnds
      <3>1. phase = "direct" /\ MatchesIn(1) = {}
        BY <2>3 DEF DirectEnds
      <3>2. Inputs /\ Types /\ WellCut /\ Scanning /\ Delivering
        BY DEF Inv
      <3>3. 1 \in Chunks /\ 1 + 1 = 2 /\ cuts[2] = Len(data)
        <4>1. Len(cuts) = 2 /\ cuts[Len(cuts)] = Len(data)
          BY <3>1, <3>2 DEF WellCut
        <4> QED
          BY <4>1 DEF Chunks
      <3>4. Between(data, pos[1], Len(data)) = {} /\ pos[1] \in Nat
        BY <3>1, <3>2, <3>3, ChunkIs
      <3>5. Offsets(delivered) = Between(data, 0, pos[1])
        BY <3>1, <3>2 DEF Delivering
      <3>6. Stream!Left = {}
        BY <1>4, <3>4, <3>5, StreamIs DEF Between
      <3> QED
        BY <3>6 DEF Stream!Exhausted
    <2> QED
      BY <2>1, <2>2, <2>3
  <1> QED
    BY <1>1, <1>2, <1>5 DEF Stream!End

LEMMA StepsTheStream ==
    ASSUME Inv, [Next]_vars
    PROVE  [Stream!Next]_(Stream!vars)
  <1>1. ASSUME data' = data, limit' = limit, numbered' = numbered, delivered' = delivered,
               phase \in {"split", "scan", "replay", "direct"},
               phase' \in {"split", "scan", "replay", "direct"}
        PROVE  UNCHANGED Stream!vars
    <2>1. Status = "open" /\ Status' = "open" /\ Count = 0 /\ Count' = 0
      BY <1>1 DEF Status, Count
    <2> QED
      BY <1>1, <2>1 DEF Stream!vars
  <1>2. CASE Split \/ StartScan
    BY <1>1, <1>2 DEF Split, StartScan, inputs, outcome
  <1>3. ASSUME NEW c \in Chunks, ScanChunk(c) \/ ChunkDone(c) PROVE UNCHANGED Stream!vars
    BY <1>1, <1>3 DEF ScanChunk, ChunkDone, inputs, outcome
  <1>4. CASE AddBase \/ StartReplay \/ NextRecorder
    BY <1>1, <1>4 DEF AddBase, StartReplay, NextRecorder, inputs, outcome
  <1>5. CASE Replay
    BY <1>5, ReplayDelivers DEF Stream!Next
  <1>6. CASE ScanDirectly
    BY <1>6, ScanDelivers DEF Stream!Next
  <1>7. CASE ReplayEnds \/ DirectEnds
    BY <1>7, EndEnds DEF Stream!Next
  <1>8. CASE Finish
    <2>1. /\ phase = "finish" /\ phase' = "done" /\ reported' = matchCount
          /\ data' = data /\ limit' = limit /\ numbered' = numbered /\ delivered' = delivered
      BY <1>8 DEF Finish, inputs
    <2>2. Status = "closed" /\ Status' = "done" /\ Count' = reported'
      BY <2>1 DEF Status, Count
    <2>3. matchCount = Len(delivered)
      BY <2>1 DEF Inv, Counting
    <2>4. Stream!Finish
      BY <2>1, <2>2, <2>3 DEF Stream!Finish
    <2> QED
      BY <2>4 DEF Stream!Next
  <1>9. CASE UNCHANGED vars
    <2>1. /\ data' = data /\ limit' = limit /\ numbered' = numbered /\ delivered' = delivered
          /\ phase' = phase /\ reported' = reported
      BY <1>9 DEF vars, inputs, outcome
    <2>2. Status' = Status /\ Count' = Count
      BY <2>1 DEF Status, Count
    <2> QED
      BY <2>1, <2>2 DEF Stream!vars
  <1> QED
    BY <1>2, <1>3, <1>4, <1>5, <1>6, <1>7, <1>8, <1>9 DEF Next, Step, Returned

\* The search of a split file is the serial search of the whole file: the Sink gets
\* the same lines in the same order with the same numbers, an early stop and -m end
\* it at the same line, and Finish learns what was delivered, for a file of any
\* length, any number of chunks and any interleaving of their goroutines.
THEOREM ParallelIsSerial == Spec => Stream!LooseSpec
  <1>1. Init => Stream!Init
    <2> SUFFICES ASSUME Init PROVE Stream!Init
      OBVIOUS
    <2>1. Status = "open" /\ Count = 0 /\ delivered = << >>
      BY DEF Init, Status, Count
    <2>2. Stream!Inputs
      BY DEF Init, Stream!Inputs, Stream!BoundedSeq, BoundedSeq, Stream!SeqOf, SeqOf
    <2> QED
      BY <2>1, <2>2 DEF Stream!Init
  <1>2. Inv /\ [Next]_vars => [Stream!Next]_(Stream!vars)
    BY StepsTheStream
  <1> QED
    BY <1>1, <1>2, InvHolds, PTL DEF Spec, Stream!LooseSpec
=============================================================================
