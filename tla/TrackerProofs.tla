----------------------------- MODULE TrackerProofs -----------------------------
(***************************************************************************)
(* Proofs about the search of one file through matchTracker, for files of  *)
(* any length, any size of the prefix and reads that end anywhere.         *)
(***************************************************************************)
EXTENDS TrackerProps, FiniteSetTheorems, SequenceTheorems, WellFoundedInduction, TLAPS

-----------------------------------------------------------------------------
(* The inductive invariant, in parts.                                      *)

Phases == {"read", "scan", "finish", "note", "done", "failed"}

Types ==
    /\ file \in Seq(Line) /\ mode \in {"none", "quit", "convert"} /\ mapped \in BOOLEAN
    /\ sink \in Sinks /\ stats \in BOOLEAN /\ passThru \in BOOLEAN
    /\ taken \in 0 .. Size /\ readable \in 0 .. Len(file) /\ delivered \in 0 .. readable
    /\ binaryOffset \in Nat \cup {None} /\ foundBinary \in Nat \cup {None}
    /\ accepted \in Seq(1 .. Len(file)) /\ matchCount \in Nat /\ counted \in Nat
    /\ phase \in Phases

\* But for --passthru the Searcher delivers context only if there is a match that it belongs to.
Inputs ==
    ~passThru => \A i \in DOMAIN file : file[i].kind = "context" =>
        AfterMatch(i) \/ \E m \in i + 1 .. Len(file) : IsMatch(m) /\ Joined(i, m)

\* What the reads have shown, and what the Searcher knows of the binary data in it.
Cut == mode = "quit" /\ Binary
Windows ==
    /\ ~mapped => /\ 2 * readable <= taken + 1
                  /\ ~Cut => 2 * readable <= taken /\ taken <= 2 * readable + 1
                  /\ ~Binary => mode = "none" \/ Nuls(0, taken) = {}
                  /\ Binary => mode # "none" /\ FirstNul # None /\ binaryOffset = FirstNul
                  /\ mode = "quit" => Nuls(0, taken) = {}
                  /\ foundBinary = None
    /\ mapped => /\ phase = "read" => readable = 0 /\ ~Binary
                 /\ phase # "read" => taken = Size /\ (~Cut => readable = Len(file))
                 /\ Binary => binaryOffset < Prefix
                 /\ foundBinary # None => foundBinary < 2 * delivered
    /\ phase = "read" => NextLine = {} /\ ~Cut

\* Which of the lines delivered the Sink has been given.
Given == {i \in Reported : i <= delivered}
BeforeNul == {i \in Given : FirstNul = None \/ 2 * i <= FirstNul}
Shows ==
    /\ matchCount = Cardinality(Hits(1 .. delivered))
    /\ Shown \subseteq Given
    /\ (sink = "standard" /\ mode = "convert" /\ Effective(foundBinary) # None) \/ Shown = Given
    /\ sink = "standard" /\ mode = "convert" =>
          /\ \A i \in Shown : file[i].nul = None
          /\ ~mapped => Shown \subseteq BeforeNul
          /\ ~mapped /\ (FirstNul = None \/ FirstNul >= Prefix) => Shown = BeforeNul

\* What a mapped file's NULs have done: one in the prefix hides everything, and another one
\* what comes behind the first line reported that has one.
Unspoilt == {i \in Given : \A j \in Given : file[j].nul # None => 2 * i <= NulAt(j)}
Maps ==
    mapped /\ sink = "standard" /\ mode = "convert" =>
        /\ phase # "read" => (Binary <=> NearNuls # {})
        /\ Binary => Shown = {}
        /\ ~Binary => /\ foundBinary = None <=> \A j \in Given : file[j].nul = None
                      /\ Shown = Unspoilt

\* Context that was shown belongs to a match that was found, or is about to be.
Ahead(m) == IsMatch(m) /\ \A l \in delivered + 1 .. m - 1 : file[l].kind = "context"
Accompanied ==
    ~passThru =>
        /\ matchCount = 0 /\ Shown # {} => \E m \in delivered + 1 .. readable : Ahead(m)
        /\ phase # "scan" /\ matchCount = 0 => Shown = {}

\* --stats has counted the matches before the first NUL.
Counting ==
    stats /\ ~mapped => counted = Cardinality({i \in Hits(1 .. delivered) :
                                    mode = "none" \/ FirstNul = None \/ Offset(i) < FirstNul})

\* A search that nothing cuts short goes through the whole file.
Complete ==
    phase \in {"finish", "note", "done"} /\ (stats \/ SinkMore) /\ ~Cut => delivered = Len(file)

\* What Finish and the write after it leave behind.
Written ==
    /\ phase \in {"read", "scan", "finish"} => filesSearched = 0
    /\ phase \in {"note", "done"} =>
          /\ filesSearched = IF stats THEN 1 ELSE 0
          /\ matched <=> ~Dropped /\ Signal
    /\ phase = "note" => ~Dropped /\ output = Block
    /\ phase \in {"read", "scan", "finish"} => output = << >> /\ matched = FALSE
    /\ phase = "done" => output = IF Dropped THEN << >> ELSE Block \o BinaryNote

TrackerInv == Types /\ Inputs /\ Windows /\ Shows /\ Maps /\ Accompanied /\ Counting /\ Complete /\ Written

-----------------------------------------------------------------------------
(* The first NUL.                                                          *)

\* A non-empty set of offsets has a first one.
LEMMA MinExists ==
    ASSUME NEW S \in SUBSET Nat, S # {}
    PROVE  Min(S) \in S /\ \A i \in S : Min(S) <= i
  <1>1. PICK R : /\ IsWellFoundedOn(R, Nat)
                 /\ \A i, j \in Nat : i < j => <<i, j>> \in R
    <2>1. IsWellFoundedOn({ss \in Nat \X Nat : ss[1] < ss[2]}, Nat)
      BY NatLessThanWellFounded DEF OpToRel
    <2> QED
      BY <2>1
  <1>s. S \subseteq Nat /\ IsWellFoundedOn(R, Nat)
    BY <1>1
  <1>2. PICK m \in S : \A i \in S : ~(<<i, m>> \in R)
    BY <1>s, WFMin
  <1>3. \A i \in S : i \in Nat /\ m \in Nat /\ ~(i < m)
    BY <1>1, <1>2, Zenon
  <1>4. \A i \in S : m <= i
    BY <1>3
  <1> QED
    BY <1>4 DEF Min

LEMMA MinIs ==
    ASSUME NEW S \in SUBSET Nat, NEW m \in S, \A i \in S : m <= i
    PROVE  Min(S) = m
  <1>1. Min(S) \in S /\ \A i \in S : Min(S) <= i
    BY MinExists
  <1>2. Min(S) \in Nat /\ m \in Nat /\ Min(S) <= m /\ m <= Min(S)
    BY <1>1
  <1> QED
    BY <1>2

LEMMA NulsWithin ==
    ASSUME Types
    PROVE  /\ Len(file) \in Nat /\ Size \in Nat
           /\ \A i \in DOMAIN file :
                 /\ i \in Nat /\ i >= 1 /\ i <= Len(file) /\ Offset(i) \in Nat /\ Offset(i) = 2 * i - 2
                 /\ file[i].kind \in {"match", "context", "none"}
                 /\ file[i].nul # None => /\ NulAt(i) \in Nat
                                          /\ Offset(i) <= NulAt(i) /\ NulAt(i) < 2 * i /\ NulAt(i) < Size
           /\ \A a, b \in Nat : /\ Nuls(a, b) \subseteq Nat
                                /\ \A x : x \in Nuls(a, b) <=>
                                      \E i \in DOMAIN file : /\ file[i].nul # None /\ x = NulAt(i)
                                                             /\ a <= x /\ x < b
  <1>1. Len(file) \in Nat /\ Size \in Nat /\ DOMAIN file = 1 .. Len(file)
    BY DEF Types, Size
  <1>2. ASSUME NEW i \in DOMAIN file
        PROVE  /\ i \in Nat /\ i >= 1 /\ i <= Len(file) /\ Offset(i) \in Nat /\ Offset(i) = 2 * i - 2
               /\ file[i].kind \in {"match", "context", "none"}
               /\ file[i].nul # None => /\ NulAt(i) \in Nat
                                        /\ Offset(i) <= NulAt(i) /\ NulAt(i) < 2 * i /\ NulAt(i) < Size
    <2>1. file[i] \in Line /\ i \in Nat /\ i >= 1 /\ i <= Len(file)
      BY <1>1, <1>2 DEF Types
    <2>2. file[i].nul \in {None, 0, 1} /\ file[i].kind \in {"match", "context", "none"}
      BY <2>1 DEF Line
    <2> QED
      BY <1>1, <2>1, <2>2 DEF NulAt, Offset, Size
  <1>3. ASSUME NEW a \in Nat, NEW b \in Nat, NEW x
        PROVE  x \in Nuls(a, b) <=>
                  \E i \in DOMAIN file : file[i].nul # None /\ x = NulAt(i) /\ a <= x /\ x < b
    <2>1. x \in Nuls(a, b) <=> \E i \in DOMAIN file : file[i].nul # None /\ NulAt(i) \in a .. b - 1 /\ x = NulAt(i)
      BY DEF Nuls
    <2> QED
      BY <1>2, <2>1
  <1>4. \A a, b \in Nat : Nuls(a, b) \subseteq Nat
    BY <1>2, <1>3
  <1> QED
    BY <1>1, <1>2, <1>3, <1>4

LEMMA NulsSplit ==
    ASSUME Types, NEW a \in Nat, NEW b \in Nat, NEW c \in Nat, a <= b, b <= c
    PROVE  Nuls(a, c) = Nuls(a, b) \cup Nuls(b, c)
  <1>1. \A x : x \in Nuls(a, c) => x \in Nat
    BY NulsWithin
  <1> QED
    BY <1>1, NulsWithin

LEMMA FirstIs ==
    ASSUME Types
    PROVE  /\ FirstNul = None <=> Nuls(0, Size) = {}
           /\ FirstNul \in Nat \cup {None}
           /\ FirstNul # None => FirstNul \in Nuls(0, Size) /\ \A x \in Nuls(0, Size) : FirstNul <= x
  <1>1. Nuls(0, Size) \subseteq Nat
    BY NulsWithin
  <1>2. CASE Nuls(0, Size) = {}
    BY <1>2 DEF FirstNul, None
  <1>3. CASE Nuls(0, Size) # {}
    <2>1. Min(Nuls(0, Size)) \in Nuls(0, Size) /\ \A x \in Nuls(0, Size) : Min(Nuls(0, Size)) <= x
      BY <1>1, <1>3, MinExists
    <2> QED
      BY <1>1, <1>3, <2>1 DEF FirstNul, None
  <1> QED
    BY <1>2, <1>3

\* The first NUL of a chunk is that of the file if there was none before the chunk.
LEMMA FirstInChunk ==
    ASSUME Types, NEW a \in Nat, NEW b \in Nat, a <= b, b <= Size, Nuls(0, a) = {}, Nuls(a, b) # {}
    PROVE  FirstNul # None /\ Min(Nuls(a, b)) = FirstNul
  <1>1. /\ Size \in Nat /\ Nuls(0, Size) \subseteq Nat /\ Nuls(a, b) \subseteq Nat
        /\ Nuls(0, b) = Nuls(0, a) \cup Nuls(a, b)
        /\ Nuls(0, Size) = Nuls(0, b) \cup Nuls(b, Size)
    <2>1. Size \in Nat /\ Nuls(0, Size) \subseteq Nat /\ Nuls(a, b) \subseteq Nat
      BY NulsWithin
    <2>2. Nuls(0, b) = Nuls(0, a) \cup Nuls(a, b)
      BY NulsSplit
    <2>3. Nuls(0, Size) = Nuls(0, b) \cup Nuls(b, Size)
      BY <2>1, NulsSplit
    <2> QED
      BY <2>1, <2>2, <2>3
  <1>2. FirstNul # None /\ FirstNul \in Nuls(0, Size) /\ \A x \in Nuls(0, Size) : FirstNul <= x
    BY <1>1, FirstIs
  <1>3. PICK y \in Nuls(a, b) : TRUE
    OBVIOUS
  <1>4. y < b /\ FirstNul <= y /\ FirstNul \in Nat /\ y \in Nat
    BY <1>1, <1>2, <1>3, NulsWithin
  <1>5. FirstNul \notin Nuls(b, Size)
    BY <1>1, <1>4, NulsWithin
  <1>6. FirstNul \in Nuls(a, b)
    BY <1>1, <1>2, <1>5
  <1> QED
    BY <1>1, <1>2, <1>6, MinIs

\* What a step says of the file is the same after it.
LEMMA SameFile ==
    ASSUME UNCHANGED input
    PROVE  /\ FirstNul' = FirstNul /\ Size' = Size /\ Reported' = Reported
           /\ \A a, b : Nuls(a, b)' = Nuls(a, b)
           /\ \A S : Hits(S)' = Hits(S)
           /\ \A i : IsMatch(i)' = IsMatch(i) /\ AfterMatch(i)' = AfterMatch(i) /\ Offset(i)' = Offset(i)
           /\ \A i, j : Joined(i, j)' = Joined(i, j)
           /\ NearNuls' = NearNuls /\ \A i : NulAt(i)' = NulAt(i)
           /\ Inputs => Inputs'
  <1> USE DEF input
  <1>1. /\ Size' = Size /\ Reported' = Reported
        /\ \A a, b : Nuls(a, b)' = Nuls(a, b)
        /\ \A S : Hits(S)' = Hits(S)
        /\ \A i : IsMatch(i)' = IsMatch(i) /\ Offset(i)' = Offset(i)
        /\ \A i, j : Joined(i, j)' = Joined(i, j)
        /\ \A i : NulAt(i)' = NulAt(i)
    BY DEF Size, Reported, Nuls, Hits, IsMatch, Offset, Joined, NulAt
  <1>5. NearNuls' = NearNuls
    BY <1>1 DEF NearNuls
  <1>2. FirstNul' = FirstNul
    BY <1>1 DEF FirstNul
  <1>3. \A i : AfterMatch(i)' = AfterMatch(i)
    BY <1>1 DEF AfterMatch
  <1>4. Inputs => Inputs'
    BY <1>1, <1>3 DEF Inputs
  <1> QED
    BY <1>1, <1>2, <1>3, <1>4, <1>5

-----------------------------------------------------------------------------
(* Reading.                                                                *)

\* A chunk's first NUL, if it is the first of the file, is what the Searcher notes.
LEMMA Detects ==
    ASSUME Types, NEW a \in Nat, NEW b \in Nat
    PROVE  /\ Detect(a, b) \in Nat \cup {None}
           /\ binaryOffset # None => Detect(a, b) = binaryOffset
           /\ Detect(a, b) # binaryOffset => /\ binaryOffset = None /\ mode # "none" /\ Nuls(a, b) # {}
                                             /\ Detect(a, b) = Min(Nuls(a, b))
                                             /\ a <= Detect(a, b) /\ Detect(a, b) < b
           /\ Detect(a, b) = None => mode = "none" \/ Nuls(a, b) = {}
  <1>1. Nuls(a, b) \subseteq Nat
    BY NulsWithin
  <1>2. ASSUME Nuls(a, b) # {}
        PROVE  Min(Nuls(a, b)) \in Nat /\ a <= Min(Nuls(a, b)) /\ Min(Nuls(a, b)) < b
    <2>1. Min(Nuls(a, b)) \in Nuls(a, b)
      BY <1>1, <1>2, MinExists
    <2> QED
      BY <1>1, <2>1, NulsWithin
  <1> QED
    BY <1>2 DEF Detect, Types, None

LEMMA MapInv ==
    ASSUME TrackerInv, Map
    PROVE  TrackerInv'
  <1> USE DEF input, tracker, result
  <1>1. /\ Types /\ Inputs /\ Windows /\ Shows /\ Accompanied /\ Counting /\ Written
        /\ mapped /\ phase = "read" /\ phase' = "scan"
        /\ UNCHANGED <<input, delivered, tracker, result>>
    BY DEF TrackerInv, Map
  <1>2. Size \in Nat /\ Min({Prefix, Size}) \in Nat /\ Min({Prefix, Size}) <= Prefix
    <2>1. Size \in Nat /\ Prefix \in Nat
      BY <1>1, NulsWithin, TrackerBounds
    <2>2. {Prefix, Size} \in SUBSET Nat /\ {Prefix, Size} # {}
      BY <2>1
    <2> QED
      BY <2>1, <2>2, MinExists
  <1>3. readable = 0 /\ delivered = 0 /\ ~Binary /\ foundBinary = None /\ Len(file) \in Nat
    BY <1>1, NulsWithin DEF Windows, Types, None
  <1>4. /\ taken' = Size /\ binaryOffset' \in Nat \cup {None} /\ (binaryOffset' # None => binaryOffset' < Prefix)
        /\ readable' \in {0, Len(file)}
        /\ ~(mode = "quit" /\ binaryOffset' # None) => readable' = Len(file)
        /\ mode = "convert" => (binaryOffset' # None <=> NearNuls # {})
    <2>1. PICK p \in Nat : p = Min({Prefix, Size})
      BY <1>2
    <2>2. /\ binaryOffset' = Detect(0, p) /\ taken' = Size /\ readable' \in {0, Len(file)}
          /\ ~(mode = "quit" /\ binaryOffset' # None) => readable' = Len(file)
          /\ NearNuls = Nuls(0, p)
      BY <2>1 DEF Map, NearNuls
    <2>3. /\ Detect(0, p) \in Nat \cup {None}
          /\ Detect(0, p) # None => Nuls(0, p) # {} /\ Detect(0, p) < p
          /\ Detect(0, p) = None => mode = "none" \/ Nuls(0, p) = {}
      <3>1. 0 \in Nat /\ binaryOffset = None
        BY <1>3 DEF Binary
      <3> QED
        BY <1>1, <2>1, <3>1, Detects
    <2>4. mode = "convert" => (binaryOffset' # None <=> NearNuls # {})
      BY <2>2, <2>3
    <2>5. binaryOffset' \in Nat \cup {None} /\ (binaryOffset' # None => binaryOffset' < Prefix)
      BY <1>2, <2>1, <2>2, <2>3, TrackerBounds DEF None
    <2> QED
      BY <2>2, <2>4, <2>5
  <1>5. /\ Size' = Size /\ Reported' = Reported /\ FirstNul' = FirstNul /\ Inputs'
        /\ \A S : Hits(S)' = Hits(S)
        /\ \A i : Offset(i)' = Offset(i)
        /\ NearNuls' = NearNuls
    BY <1>1, SameFile
  <1>6. Types'
    BY <1>1, <1>2, <1>3, <1>4, <1>5 DEF Types, Phases
  <1>7. Windows'
    BY <1>1, <1>3, <1>4, <1>5 DEF Windows, Binary, Cut
  <1>8. Shown = {} /\ Given = {} /\ BeforeNul = {}
    <2>1. Given = {}
      <3>1. \A i \in Reported : i >= 1 /\ i \in Nat
        BY <1>1, NulsWithin DEF Reported
      <3> QED
        BY <1>3, <3>1 DEF Given
    <2> QED
      BY <1>1, <2>1 DEF Shows, BeforeNul
  <1>9. Shown' = {} /\ Given' = {} /\ BeforeNul' = {}
    BY <1>1, <1>5, <1>8 DEF Shown, Given, BeforeNul
  <1>10. Shows'
    BY <1>1, <1>5, <1>8, <1>9 DEF Shows
  <1>11. Accompanied' /\ Complete'
    BY <1>1, <1>9 DEF Accompanied, Complete
  <1>12. Counting'
    BY <1>1, <1>5 DEF Counting
  <1>13. Written'
    BY <1>1 DEF Written
  <1>14. Maps'
    <2>1. Unspoilt' = {}
      BY <1>9 DEF Unspoilt
    <2>2. foundBinary' = None
      BY <1>1, <1>3
    <2> QED
      BY <1>1, <1>4, <1>5, <1>9, <2>1, <2>2 DEF Maps, Binary
  <1> QED
    BY <1>5, <1>6, <1>7, <1>10, <1>11, <1>12, <1>13, <1>14 DEF TrackerInv

\* What a step without lines leaves as it was.
LEMMA NoLines ==
    ASSUME TrackerInv, UNCHANGED <<input, tracker, delivered>>, binaryOffset # None => binaryOffset' = binaryOffset
    PROVE  Shows' /\ Counting' /\ Inputs' /\ Shown' = Shown
  <1> USE DEF input, tracker
  <1>1. Shows /\ Counting /\ Inputs
    BY DEF TrackerInv
  <1>2. /\ Size' = Size /\ Reported' = Reported /\ FirstNul' = FirstNul /\ Inputs'
        /\ \A S : Hits(S)' = Hits(S)
        /\ \A i : Offset(i)' = Offset(i)
    BY <1>1, SameFile
  <1>3. Shown' = Shown /\ Given' = Given /\ BeforeNul' = BeforeNul
    BY <1>2 DEF Shown, Given, BeforeNul
  <1>4. Effective(foundBinary) # None => Effective(foundBinary)' # None
    BY DEF Effective
  <1>5. Shows'
    BY <1>1, <1>2, <1>3, <1>4 DEF Shows
  <1>6. Counting'
    BY <1>1, <1>2 DEF Counting
  <1> QED
    BY <1>2, <1>3, <1>5, <1>6

LEMMA MapsKept ==
    ASSUME TrackerInv, UNCHANGED <<input, tracker, delivered>>,
           mapped => binaryOffset' = binaryOffset /\ (phase = "read" => phase' = "read")
    PROVE  Maps'
  <1> USE DEF input, tracker
  <1>1. Maps
    BY DEF TrackerInv
  <1>2. Reported' = Reported /\ NearNuls' = NearNuls /\ \A i : NulAt(i)' = NulAt(i)
    BY SameFile
  <1>3. Shown' = Shown /\ Given' = Given /\ Unspoilt' = Unspoilt
    BY <1>2 DEF Shown, Given, Unspoilt
  <1> QED
    BY <1>1, <1>2, <1>3 DEF Maps, Binary

LEMMA ReadInv ==
    ASSUME TrackerInv, Read
    PROVE  TrackerInv'
  <1> USE DEF input, tracker, result
  <1>1. /\ Types /\ Inputs /\ Windows /\ Shows /\ Accompanied /\ Counting /\ Written
        /\ ~mapped /\ phase = "read" /\ UNCHANGED <<input, delivered, tracker, result>>
    BY DEF TrackerInv, Read
  <1>2. PICK n \in 1 .. Size - taken :
          /\ binaryOffset' = Detect(taken, taken + n)
          /\ IF mode = "quit" /\ binaryOffset' # None
             THEN readable' = (taken + 1) \div 2 /\ phase' = "scan" /\ UNCHANGED taken
             ELSE /\ taken' = taken + n /\ readable' = (taken + n) \div 2
                  /\ phase' = IF readable' > readable THEN "scan" ELSE "read"
    BY DEF Read
  <1>3. /\ Size \in Nat /\ Len(file) \in Nat /\ Size = 2 * Len(file)
        /\ taken \in Nat /\ taken + n \in Nat /\ n \in Nat /\ n >= 1
        /\ taken <= taken + n /\ taken + n <= Size
        /\ readable \in Nat /\ delivered \in Nat /\ delivered <= readable /\ 2 * readable <= taken
    <2>1. Size \in Nat /\ Len(file) \in Nat
      BY <1>1, NulsWithin
    <2> QED
      BY <1>1, <1>2, <2>1 DEF Types, Windows, Size
  <1>4. /\ Nuls(0, taken + n) = Nuls(0, taken) \cup Nuls(taken, taken + n)
        /\ Nuls(0, taken) = {} /\ Nuls(taken, taken + n) # {} =>
              FirstNul # None /\ Min(Nuls(taken, taken + n)) = FirstNul
    <2>1. 0 \in Nat /\ 0 <= taken
      BY <1>3
    <2>2. Nuls(0, taken + n) = Nuls(0, taken) \cup Nuls(taken, taken + n)
      BY <1>1, <1>3, <2>1, NulsSplit
    <2>3. Nuls(0, taken) = {} /\ Nuls(taken, taken + n) # {} =>
              FirstNul # None /\ Min(Nuls(taken, taken + n)) = FirstNul
      BY <1>1, <1>3, FirstInChunk
    <2> QED
      BY <2>2, <2>3
  <1>5. /\ binaryOffset' \in Nat \cup {None}
        /\ binaryOffset # None => binaryOffset' = binaryOffset
        /\ binaryOffset' # binaryOffset => /\ binaryOffset = None /\ mode # "none"
                                           /\ Nuls(taken, taken + n) # {}
                                           /\ binaryOffset' = Min(Nuls(taken, taken + n))
        /\ binaryOffset' = None => mode = "none" \/ Nuls(taken, taken + n) = {}
    BY <1>1, <1>2, <1>3, Detects
  <1>6. /\ Size' = Size /\ Inputs' /\ FirstNul' = FirstNul
        /\ \A a, b : Nuls(a, b)' = Nuls(a, b)
        /\ \A i : IsMatch(i)' = IsMatch(i) /\ AfterMatch(i)' = AfterMatch(i)
        /\ \A i, j : Joined(i, j)' = Joined(i, j)
    BY <1>1, SameFile
  <1>7. Shows' /\ Counting' /\ Shown' = Shown
    BY <1>1, <1>5, NoLines
  <1>8. /\ taken' \in 0 .. Size /\ readable' \in readable .. Len(file)
        /\ 2 * readable' <= taken' + 1
        /\ ~(mode = "quit" /\ binaryOffset' # None) => 2 * readable' <= taken' /\ taken' <= 2 * readable' + 1
    <2>1. CASE mode = "quit" /\ binaryOffset' # None
      BY <1>2, <1>3, <2>1
    <2>2. CASE ~(mode = "quit" /\ binaryOffset' # None)
      BY <1>2, <1>3, <2>2
    <2> QED
      BY <2>1, <2>2
  <1>9. Types'
    BY <1>1, <1>2, <1>3, <1>5, <1>6, <1>8 DEF Types, Phases
  <1>10. /\ ~Binary => mode = "none" \/ Nuls(0, taken) = {}
         /\ Binary => mode # "none" /\ FirstNul # None /\ binaryOffset = FirstNul
         /\ mode = "quit" => Nuls(0, taken) = {} /\ ~Binary
         /\ foundBinary = None
         /\ NextLine = {}
    BY <1>1 DEF Windows, Cut
  <1>11. binaryOffset' # None => mode # "none" /\ FirstNul # None /\ binaryOffset' = FirstNul
    BY <1>4, <1>5, <1>10 DEF Binary
  <1>12. Windows'
    <2>1. binaryOffset' = None => mode = "none" \/ Nuls(0, taken') = {}
      BY <1>2, <1>4, <1>5, <1>10 DEF Binary
    <2>2. mode = "quit" => Nuls(0, taken') = {}
      BY <1>2, <1>10, <2>1
    <2>3. phase' = "read" => NextLine' = {} /\ ~Cut'
      <3>1. ASSUME phase' = "read" PROVE readable' = readable
        BY <1>2, <1>3, <1>8, <3>1
      <3>2. ASSUME readable' = readable PROVE NextLine' = NextLine
        BY <1>1, <1>6, <3>2 DEF NextLine, HeldBack
      <3>3. phase' = "read" => ~Cut'
        BY <1>1, <1>2 DEF Cut, Binary
      <3> QED
        BY <1>10, <3>1, <3>2, <3>3
    <2> QED
      BY <1>1, <1>6, <1>8, <1>10, <1>11, <2>1, <2>2, <2>3 DEF Windows, Cut, Binary
  <1>13. Accompanied'
    BY <1>1, <1>7 DEF Accompanied
  <1>14. phase' \in {"read", "scan"}
    BY <1>2
  <1>15. Complete' /\ Written'
    BY <1>1, <1>14 DEF Complete, Written
  <1>16. Maps'
    BY <1>1, MapsKept
  <1> QED
    BY <1>6, <1>7, <1>9, <1>12, <1>13, <1>15, <1>16 DEF TrackerInv

LEMMA NoneAhead ==
    ASSUME Types, NextLine = {}, NEW m \in delivered + 1 .. readable, Ahead(m)
    PROVE  FALSE
  <1>1. delivered \in Nat /\ readable \in Nat /\ delivered + 1 \in delivered + 1 .. readable /\ m \in Nat
    BY DEF Types
  <1>2. HeldBack(delivered + 1)
    BY <1>1 DEF NextLine
  <1>3. m # delivered + 1
    BY <1>2 DEF HeldBack, Ahead, IsMatch
  <1>4. m \in delivered + 2 .. readable /\ IsMatch(m) /\ Joined(delivered + 1, m)
    BY <1>1, <1>3 DEF Ahead, Joined
  <1> QED
    BY <1>1, <1>2, <1>4 DEF HeldBack

LEMMA EndOfWindowInv ==
    ASSUME TrackerInv, EndOfWindow
    PROVE  TrackerInv'
  <1> USE DEF input, tracker, result, scan
  <1>1. /\ Types /\ Inputs /\ Windows /\ Shows /\ Accompanied /\ Counting /\ Written
        /\ UNCHANGED <<input, scan, tracker, result>>
        /\ phase \in {"read", "scan"} /\ phase' \in {"read", "finish"}
        /\ phase = "scan" => NextLine = {}
        /\ mapped => phase = "scan" /\ phase' = "finish"
        /\ phase' = "read" => ~Cut /\ ~mapped
        /\ phase' = "finish" => mapped \/ taken = Size \/ Cut
    BY DEF TrackerInv, EndOfWindow, Cut, Binary
  <1>2. NextLine = {}
    BY <1>1 DEF Windows
  <1>3. /\ Size' = Size /\ Inputs' /\ FirstNul' = FirstNul
        /\ \A a, b : Nuls(a, b)' = Nuls(a, b)
        /\ \A i : IsMatch(i)' = IsMatch(i) /\ AfterMatch(i)' = AfterMatch(i)
        /\ \A i, j : Joined(i, j)' = Joined(i, j)
    BY <1>1, SameFile
  <1>4. Shows' /\ Counting' /\ Shown' = Shown
    BY <1>1, NoLines
  <1>5. Types'
    BY <1>1, <1>3 DEF Types, Phases
  <1>6. Windows'
    <2>1. NextLine' = {} /\ (Cut' <=> Cut) /\ (Binary' <=> Binary)
      BY <1>1, <1>2, <1>3 DEF NextLine, HeldBack, Cut, Binary
    <2> QED
      BY <1>1, <1>3, <2>1 DEF Windows
  <1>7. Accompanied'
    <2> SUFFICES ASSUME ~passThru PROVE Accompanied'
      BY <1>1 DEF Accompanied
    <2>1. matchCount = 0 => Shown = {}
      BY <1>1, <1>2, NoneAhead DEF Accompanied
    <2> QED
      BY <1>1, <1>4, <2>1 DEF Accompanied
  <1>8. Complete'
    <2> SUFFICES ASSUME ~Cut, phase' = "finish"
                 PROVE  delivered = Len(file)
      BY <1>1 DEF Complete, Cut, Binary
    <2>1. /\ readable = Len(file) /\ delivered \in Nat /\ delivered <= readable
          /\ Len(file) \in Nat /\ DOMAIN file = 1 .. Len(file)
      <3>1. ~mapped => taken = Size /\ 2 * readable <= taken /\ taken <= 2 * readable + 1
        BY <1>1 DEF Windows
      <3>2. mapped => readable = Len(file)
        BY <1>1 DEF Windows
      <3> QED
        BY <1>1, <3>1, <3>2 DEF Types, Size
    <2>2. SUFFICES ASSUME delivered < Len(file) PROVE FALSE
      BY <2>1
    <2>3. delivered + 1 \in DOMAIN file /\ delivered + 1 \in delivered + 1 .. readable
      BY <2>1, <2>2
    <2>4. HeldBack(delivered + 1)
      BY <1>2, <2>3 DEF NextLine
    <2> QED
      BY <1>1, <2>1, <2>3, <2>4 DEF HeldBack, Inputs
  <1>9. Written'
    BY <1>1 DEF Written
  <1>10. Maps'
    BY <1>1, MapsKept
  <1> QED
    BY <1>3, <1>4, <1>5, <1>6, <1>7, <1>8, <1>9, <1>10 DEF TrackerInv

-----------------------------------------------------------------------------
(* Finish and the writes.                                                  *)

\* What Finish decides depends on the input and the tracker alone.
LEMMA SameEnd ==
    ASSUME UNCHANGED <<input, tracker, binaryOffset>>
    PROVE  /\ Block' = Block /\ BinaryNote' = BinaryNote /\ Signal' = Signal
           /\ Dropped' = Dropped /\ Cut' = Cut /\ Binary' = Binary
  <1> USE DEF input, tracker
  <1>1. SinkHits' = SinkHits /\ Binary' = Binary /\ Effective(foundBinary)' = Effective(foundBinary)
    BY DEF SinkHits, Binary, Effective
  <1> QED
    BY <1>1 DEF Block, BinaryNote, Signal, Dropped, Cut

Writes == Telling \cup {"context", "zero"}

LEMMA BlockIs ==
    ASSUME Types
    PROVE  /\ Block \in Seq(Writes) /\ BinaryNote \in Seq(Writes)
           /\ Block = << >> \/ \E s \in Writes \ {"warning", "message"} : Block = <<s>>
           /\ BinaryNote = << >> \/ \E s \in {"warning", "message"} : BinaryNote = <<s>>
  <1>1. << >> \in Seq(Writes) /\ \A s \in Writes : <<s>> \in Seq(Writes)
    OBVIOUS
  <1>2. Block = << >> \/ \E s \in Writes \ {"warning", "message"} : Block = <<s>>
    BY DEF Block, Types, Sinks, Writes, Telling
  <1>3. BinaryNote = << >> \/ \E s \in {"warning", "message"} : BinaryNote = <<s>>
    BY DEF BinaryNote
  <1> QED
    BY <1>1, <1>2, <1>3 DEF Writes, Telling

LEMMA EndInv ==
    ASSUME TrackerInv, Finish \/ WriteNote \/ WriteFails \/ ReadFails
    PROVE  TrackerInv'
  <1> USE DEF input, tracker, result, scan
  <1>1. /\ Types /\ Inputs /\ Windows /\ Shows /\ Accompanied /\ Counting /\ Complete /\ Written
        /\ UNCHANGED <<input, scan, tracker>>
        /\ phase' \in {"note", "done", "failed"}
        /\ phase \in {"finish", "note"} \/ phase' = "failed"
        /\ phase = "read" => ~mapped
    BY DEF TrackerInv, Finish, WriteNote, WriteFails, ReadFails
  <1>2. /\ Size' = Size /\ Inputs' /\ FirstNul' = FirstNul
        /\ \A a, b : Nuls(a, b)' = Nuls(a, b)
    BY <1>1, SameFile
  <1>3. Shows' /\ Counting' /\ Shown' = Shown
    BY <1>1, NoLines
  <1>4. Types'
    BY <1>1, <1>2 DEF Types, Phases
  <1>5. /\ Block' = Block /\ BinaryNote' = BinaryNote /\ Signal' = Signal
        /\ Dropped' = Dropped /\ Cut' = Cut /\ Binary' = Binary
    BY <1>1, SameEnd
  <1>6. Windows'
    BY <1>1, <1>2, <1>5 DEF Windows
  <1>7. Accompanied'
    <2>1. phase # "scan"
      BY DEF WriteFails, ReadFails, Finish, WriteNote
    <2> QED
      BY <1>1, <1>3, <2>1 DEF Accompanied
  <1>8. Complete'
    BY <1>1, <1>5 DEF Complete, SinkMore
  <1>9. Maps'
    BY <1>1, MapsKept
  <1>10. Written'
    <2>1. CASE Finish
      <3>1. /\ phase = "finish" /\ filesSearched' = IF stats THEN filesSearched + 1 ELSE filesSearched
            /\ Dropped => phase' = "done" /\ matched' = matched /\ output' = output
            /\ ~Dropped => /\ matched' = Signal /\ output' = Block
                           /\ phase' = IF BinaryNote # << >> THEN "note" ELSE "done"
        BY <2>1 DEF Finish
      <3>2. filesSearched = 0 /\ output = << >> /\ matched = FALSE
        BY <1>1, <3>1 DEF Written
      <3>3. Block \o << >> = Block
        BY <1>1, BlockIs
      <3>4. ASSUME ~Dropped PROVE matched' <=> Signal
        <4>1. matched' = Signal
          BY <3>1, <3>4
        <4> QED
          BY <4>1 DEF Signal
      <3>5. ASSUME Dropped PROVE ~matched'
        BY <3>1, <3>2, <3>5
      <3>6. matched' <=> ~Dropped' /\ Signal'
        BY <1>5, <3>4, <3>5, Zenon
      <3>7. /\ phase' \in {"note", "done"} /\ filesSearched' = IF stats' THEN 1 ELSE 0
            /\ phase' = "note" => ~Dropped /\ output' = Block
            /\ phase' = "done" => output' = IF Dropped THEN << >> ELSE Block \o BinaryNote
        <4>1. stats' = stats /\ (Dropped \/ ~Dropped)
          BY <1>1
        <4>2. phase' = "note" => ~Dropped /\ output' = Block
          BY <3>1
        <4>3. phase' = "done" => output' = IF Dropped THEN << >> ELSE Block \o BinaryNote
          BY <3>1, <3>2, <3>3
        <4> QED
          BY <3>1, <3>2, <4>1, <4>2, <4>3
      <3>8. /\ phase' = "note" => ~Dropped' /\ output' = Block'
            /\ phase' = "done" => output' = IF Dropped' THEN << >> ELSE Block' \o BinaryNote'
        BY <1>5, <3>7
      <3> QED
        BY <3>6, <3>7, <3>8 DEF Written
    <2>2. CASE WriteNote
      <3>1. /\ phase = "note" /\ phase' = "done" /\ output' = output \o BinaryNote
            /\ filesSearched' = filesSearched /\ matched' = matched
        BY <2>2 DEF WriteNote
      <3> QED
        BY <1>1, <1>5, <3>1 DEF Written
    <2>3. CASE WriteFails \/ ReadFails
      <3>1. phase' = "failed"
        BY <2>3 DEF WriteFails, ReadFails
      <3> QED
        BY <3>1 DEF Written
    <2> QED
      BY <2>1, <2>2, <2>3
  <1> QED
    BY <1>2, <1>3, <1>4, <1>6, <1>7, <1>8, <1>9, <1>10 DEF TrackerInv

-----------------------------------------------------------------------------
(* A line goes through matchTracker.                                       *)

\* The reads have gone past the line that is delivered next.
LEMMA NextIs ==
    ASSUME Types, Windows, phase = "scan", NEW i \in NextLine
    PROVE  /\ i = delivered + 1 /\ delivered \in Nat /\ i \in Nat /\ i >= 1 /\ i <= readable /\ readable \in Nat
           /\ i \in DOMAIN file /\ ~HeldBack(i)
           /\ ~Cut \/ mapped => 2 * i <= taken /\ LineEnd(i) = 2 * i
  <1>1. i = delivered + 1 /\ i <= readable /\ ~HeldBack(i)
    BY DEF NextLine, Types
  <1>2. delivered \in Nat /\ readable \in Nat /\ taken \in Nat /\ readable <= Len(file)
        /\ Len(file) \in Nat /\ DOMAIN file = 1 .. Len(file) /\ Size = 2 * Len(file)
    BY DEF Types, Size
  <1>3. i \in Nat /\ i >= 1 /\ i \in DOMAIN file
    BY <1>1, <1>2
  <1>4. ~Cut \/ mapped => 2 * i <= taken
    <2>1. mapped => taken = Size
      BY DEF Windows
    <2>2. ~mapped /\ ~Cut => 2 * readable <= taken
      BY DEF Windows
    <2> QED
      BY <1>1, <1>2, <1>3, <2>1, <2>2
  <1>5. ASSUME 2 * i <= taken PROVE LineEnd(i) = 2 * i
    <2>1. {2 * i, taken} \in SUBSET Nat /\ 2 * i \in {2 * i, taken}
      BY <1>2, <1>3
    <2>2. \A x \in {2 * i, taken} : 2 * i <= x
      BY <1>5, <1>3
    <2> QED
      BY <2>1, <2>2, MinIs DEF LineEnd
  <1> QED
    BY <1>1, <1>2, <1>3, <1>4, <1>5

\* Of a streamed file the Searcher knows by now whether a NUL stands before the line's end.
LEMMA Known ==
    ASSUME Types, Windows, phase = "scan", ~mapped, NEW i \in NextLine
    PROVE  /\ foundBinary = None
           /\ Binary => mode # "none" /\ FirstNul # None /\ binaryOffset = FirstNul
           /\ ~Binary => mode = "none" \/ FirstNul = None \/ 2 * i <= FirstNul
           /\ ~Binary => mode = "none" \/ file[i].nul = None
           /\ ~Cut /\ mode # "none" /\ file[i].nul # None => Binary /\ FirstNul <= NulAt(i)
  <1>1. /\ foundBinary = None
        /\ Binary => mode # "none" /\ FirstNul # None /\ binaryOffset = FirstNul
        /\ ~Binary => mode = "none" \/ Nuls(0, taken) = {}
    BY DEF Windows
  <1>2. i \in DOMAIN file /\ i \in Nat /\ (~Cut => 2 * i <= taken) /\ taken \in Nat /\ taken <= Size
        /\ Size \in Nat /\ 0 \in Nat
    <2>1. Size \in Nat
      BY NulsWithin
    <2>2. taken \in Nat /\ taken <= Size
      BY <2>1 DEF Types
    <2>3. i \in DOMAIN file /\ i \in Nat /\ (~Cut => 2 * i <= taken)
      BY NextIs
    <2> QED
      BY <2>1, <2>2, <2>3
  <1>3. FirstNul # None => FirstNul \in Nuls(0, Size) /\ FirstNul \in Nat
    BY FirstIs
  <1>4. file[i].nul # None => NulAt(i) \in Nat /\ NulAt(i) < 2 * i /\ NulAt(i) < Size
    BY <1>2, NulsWithin
  <1>5. ASSUME ~Binary, mode # "none"
        PROVE  (FirstNul = None \/ 2 * i <= FirstNul) /\ file[i].nul = None
    <2>1. ~Cut /\ Nuls(0, taken) = {}
      BY <1>1, <1>5 DEF Cut
    <2>2. ASSUME FirstNul # None, FirstNul < taken PROVE FALSE
      <3>1. PICK x \in Nat : x = FirstNul /\ x \in Nuls(0, Size) /\ x < taken
        BY <1>3, <2>2
      <3>2. \E j \in DOMAIN file : file[j].nul # None /\ NulAt(j) = x
        BY <1>2, <3>1, NulsWithin
      <3>3. x \in Nuls(0, taken)
        BY <1>2, <3>1, <3>2, NulsWithin
      <3> QED
        BY <2>1, <3>3
    <2>3. ASSUME file[i].nul # None, NulAt(i) < taken PROVE FALSE
      <3>1. NulAt(i) \in Nat /\ 0 <= NulAt(i) /\ NulAt(i) < taken
        BY <1>4, <2>3
      <3>2. \E j \in DOMAIN file : file[j].nul # None /\ NulAt(i) = NulAt(j) /\ 0 <= NulAt(i) /\ NulAt(i) < taken
        BY <1>2, <2>3, <3>1
      <3>3. NulAt(i) \in Nuls(0, taken)
        BY <1>2, <3>2, NulsWithin
      <3> QED
        BY <2>1, <3>3
    <2> QED
      BY <1>2, <1>3, <1>4, <2>1, <2>2, <2>3
  <1>6. ASSUME Binary, file[i].nul # None PROVE FirstNul <= NulAt(i)
    <2>1. NulAt(i) \in Nuls(0, Size)
      BY <1>2, <1>4, <1>6, NulsWithin
    <2> QED
      BY <1>1, <1>6, <2>1, FirstIs
  <1> QED
    BY <1>1, <1>5, <1>6

\* Under convert the NUL of a line, or one before it, keeps it from the Sink, and nothing else does.
LEMMA Withholds ==
    ASSUME Types, Windows, phase = "scan", NEW i \in NextLine, NEW found, found = NoteLineNUL(i)
    PROVE  /\ found \in Nat \cup {None}
           /\ ~mapped => found = None
           /\ mapped /\ found # None => found < 2 * i
           /\ Effective(foundBinary) # None => Effective(found) # None
           /\ Suppressed(i, found) => sink = "standard" /\ mode = "convert" /\ Effective(found) # None
           /\ sink = "standard" /\ mode = "convert" =>
                 /\ file[i].nul # None => Suppressed(i, found)
                 /\ ~mapped /\ ~Suppressed(i, found) => FirstNul = None \/ 2 * i <= FirstNul
                 /\ ~mapped /\ (FirstNul = None \/ (FirstNul >= Prefix /\ 2 * i <= FirstNul))
                       => ~Suppressed(i, found)
                 /\ mapped /\ Binary => Suppressed(i, found)
                 /\ mapped /\ ~Binary =>
                       /\ Suppressed(i, found) <=> found # None
                       /\ found # None <=> foundBinary # None \/ file[i].nul # None
  <1>1. /\ i \in DOMAIN file /\ i \in Nat /\ i = delivered + 1 /\ delivered \in Nat
        /\ ~Cut \/ mapped => LineEnd(i) = 2 * i
    BY NextIs
  <1>2. file[i].nul # None => NulAt(i) \in Nat /\ NulAt(i) < 2 * i
    BY <1>1, NulsWithin
  <1>3. /\ binaryOffset \in Nat \cup {None} /\ foundBinary \in Nat \cup {None} /\ Prefix \in Nat
        /\ FirstNul \in Nat \cup {None}
    BY FirstIs, TrackerBounds DEF Types
  <1>4. found \in Nat \cup {None} /\ (found = foundBinary \/ foundBinary = None)
    BY <1>2, <1>3 DEF NoteLineNUL
  <1>5. ~mapped => found = None
    BY DEF NoteLineNUL, Windows
  <1>6. mapped /\ found # None => found < 2 * i
    <2>1. mapped /\ foundBinary # None => foundBinary < 2 * delivered
      BY DEF Windows
    <2>2. found = foundBinary \/ (found = NulAt(i) /\ file[i].nul # None)
      BY DEF NoteLineNUL
    <2> QED
      BY <1>1, <1>2, <1>3, <2>1, <2>2
  <1>7. Effective(foundBinary) # None => Effective(found) # None
    BY <1>4 DEF Effective
  <1>8. Suppressed(i, found) => sink = "standard" /\ mode = "convert" /\ Effective(found) # None
    BY DEF Suppressed
  <1>9. ASSUME sink = "standard", mode = "convert"
        PROVE  /\ file[i].nul # None => Suppressed(i, found)
               /\ ~mapped /\ ~Suppressed(i, found) => FirstNul = None \/ 2 * i <= FirstNul
               /\ ~mapped /\ (FirstNul = None \/ (FirstNul >= Prefix /\ 2 * i <= FirstNul))
                     => ~Suppressed(i, found)
               /\ mapped /\ Binary => Suppressed(i, found)
               /\ mapped /\ ~Binary =>
                     /\ Suppressed(i, found) <=> found # None
                     /\ found # None <=> foundBinary # None \/ file[i].nul # None
    <2>1. ~Cut /\ LineEnd(i) = 2 * i
      BY <1>1, <1>9 DEF Cut
    <2>2. Suppressed(i, found) <=> Effective(found) # None /\ (Effective(found) < Prefix \/ 2 * i > Effective(found))
      BY <1>9, <2>1 DEF Suppressed
    <2>3. CASE ~mapped
      <3>1. /\ Binary => FirstNul # None /\ binaryOffset = FirstNul
            /\ ~Binary => FirstNul = None \/ 2 * i <= FirstNul
            /\ file[i].nul # None => Binary /\ FirstNul <= NulAt(i)
        BY <1>9, <2>1, <2>3, Known
      <3>2. Effective(found) = IF Binary THEN FirstNul ELSE None
        BY <1>5, <2>3, <3>1 DEF Effective, Binary
      <3> QED
        BY <1>1, <1>2, <1>3, <2>2, <2>3, <3>1, <3>2
    <2>4. CASE mapped
      <3>1. Binary => binaryOffset < Prefix
        BY <2>4 DEF Windows
      <3>2. ~Binary => (found # None <=> foundBinary # None \/ file[i].nul # None)
        BY <1>2, <1>9, <2>4 DEF NoteLineNUL, Binary, None
      <3>3. Effective(found) = IF Binary THEN binaryOffset ELSE found
        BY DEF Effective, Binary
      <3> QED
        BY <1>1, <1>3, <1>4, <1>6, <2>2, <2>4, <3>1, <3>2, <3>3 DEF Binary
    <2> QED
      BY <2>3, <2>4
  <1> QED
    BY <1>4, <1>5, <1>6, <1>7, <1>8, <1>9

\* One more of the numbers from 1 on.
LEMMA OneMore ==
    ASSUME NEW d \in Nat, NEW S \in SUBSET (1 .. d)
    PROVE  /\ IsFiniteSet(S) /\ Cardinality(S) \in Nat /\ (Cardinality(S) = 0 <=> S = {})
           /\ Cardinality(S \cup {d + 1}) = Cardinality(S) + 1
  <1>1. IsFiniteSet(1 .. d)
    BY FS_Interval
  <1>2. IsFiniteSet(S)
    BY <1>1, FS_Subset
  <1>3. d + 1 \notin S
    OBVIOUS
  <1>4. Cardinality(S) \in Nat
    BY <1>2, FS_CardinalityType
  <1>5. Cardinality(S) = 0 <=> S = {}
    BY <1>2, FS_EmptySet
  <1>6. Cardinality(S \cup {d + 1}) = Cardinality(S) + 1
    BY <1>2, <1>3, FS_AddElement
  <1> QED
    BY <1>2, <1>4, <1>5, <1>6

Tallied(d) == {i \in Hits(1 .. d) : mode = "none" \/ FirstNul = None \/ Offset(i) < FirstNul}

\* The line that is delivered is one more of its kind.
LEMMA HitsGrow ==
    ASSUME Types, NEW d \in Nat, d + 1 \in DOMAIN file
    PROVE  /\ Hits(1 .. d) \in SUBSET (1 .. d) /\ Tallied(d) \in SUBSET (1 .. d)
           /\ IsMatch(d + 1) => Hits(1 .. d + 1) = Hits(1 .. d) \cup {d + 1}
           /\ ~IsMatch(d + 1) => Hits(1 .. d + 1) = Hits(1 .. d) /\ Tallied(d + 1) = Tallied(d)
           /\ IsMatch(d + 1) /\ (mode = "none" \/ FirstNul = None \/ Offset(d + 1) < FirstNul)
                 => Tallied(d + 1) = Tallied(d) \cup {d + 1}
           /\ ~(mode = "none" \/ FirstNul = None \/ Offset(d + 1) < FirstNul) => Tallied(d + 1) = Tallied(d)
  <1>1. 1 .. d + 1 = 1 .. d \cup {d + 1}
    OBVIOUS
  <1>2. Hits(1 .. d + 1) = IF IsMatch(d + 1) THEN Hits(1 .. d) \cup {d + 1} ELSE Hits(1 .. d)
    BY <1>1 DEF Hits, IsMatch
  <1>3. Hits(1 .. d) \in SUBSET (1 .. d) /\ Tallied(d) \in SUBSET (1 .. d)
    BY DEF Hits, Tallied
  <1> QED
    BY <1>2, <1>3 DEF Tallied

\* A line is part of the count exactly if it starts before the first NUL.
LEMMA CountedBefore ==
    ASSUME Types, Windows, phase = "scan", ~mapped, NEW i \in NextLine
    PROVE  ~Truncated(i) <=> (mode = "none" \/ FirstNul = None \/ Offset(i) < FirstNul)
  <1>1. /\ foundBinary = None
        /\ Binary => mode # "none" /\ FirstNul # None /\ binaryOffset = FirstNul
        /\ ~Binary => mode = "none" \/ FirstNul = None \/ 2 * i <= FirstNul
    BY Known
  <1>2. FirstNul \in Nat \cup {None} /\ i \in Nat /\ Offset(i) = 2 * i - 2
    BY FirstIs, NextIs DEF Offset
  <1>3. Effective(foundBinary) = IF Binary THEN FirstNul ELSE None
    BY <1>1 DEF Effective, Binary
  <1>4. CASE Binary
    BY <1>1, <1>2, <1>3, <1>4 DEF Truncated, None
  <1>5. CASE ~Binary
    BY <1>1, <1>2, <1>3, <1>5 DEF Truncated, None
  <1> QED
    BY <1>4, <1>5

\* What is appended is one more of the members.
LEMMA Grows ==
    ASSUME NEW S, NEW s \in Seq(S), NEW e \in S
    PROVE  ToSet(Append(s, e)) = ToSet(s) \cup {e}
  <1>1. /\ Len(Append(s, e)) = Len(s) + 1 /\ Append(s, e)[Len(s) + 1] = e
        /\ \A k \in 1 .. Len(s) : Append(s, e)[k] = s[k]
    BY AppendProperties
  <1>2. Len(s) \in Nat /\ DOMAIN s = 1 .. Len(s) /\ DOMAIN Append(s, e) = 1 .. Len(s) + 1
    BY <1>1
  <1>3. 1 .. Len(s) + 1 = 1 .. Len(s) \cup {Len(s) + 1}
    BY <1>2
  <1> QED
    BY <1>1, <1>2, <1>3 DEF ToSet

\* What a line that is delivered changes.
LEMMA LineIs ==
    ASSUME TrackerInv, SkipLine \/ Matched \/ Context
    PROVE  \E i \in NextLine :
              /\ phase = "scan" /\ delivered' = i /\ phase' \in {"scan", "finish"}
              /\ UNCHANGED <<input, taken, readable, binaryOffset, result>>
              /\ phase' = "finish" => IsMatch(i) /\ ~stats /\ ~SinkMore
              /\ IF file[i].kind = "none" THEN UNCHANGED tracker ELSE Offer(i)
              /\ IF IsMatch(i)
                 THEN /\ matchCount' = matchCount + 1
                      /\ counted' = IF stats /\ ~Truncated(i) THEN counted + 1 ELSE counted
                 ELSE matchCount' = matchCount /\ counted' = counted
  <1>1. CASE SkipLine
    BY <1>1 DEF SkipLine, tracker, IsMatch
  <1>2. CASE Context
    BY <1>2 DEF Context, IsMatch
  <1>3. CASE Matched
    <2>1. PICK i \in NextLine :
             /\ file[i].kind = "match" /\ delivered' = i /\ matchCount' = matchCount + 1
             /\ counted' = IF stats /\ ~Truncated(i) THEN counted + 1 ELSE counted
             /\ Offer(i)
             /\ phase' = IF KeepSearching(Suppressed(i, foundBinary') \/ SinkMore)
                         THEN "scan" ELSE "finish"
      BY <1>3 DEF Matched
    <2>2. phase' = "finish" => ~stats /\ ~SinkMore
      BY <2>1 DEF KeepSearching
    <2> QED
      BY <1>3, <2>1, <2>2 DEF Matched, IsMatch
  <1> QED
    BY <1>1, <1>2, <1>3

LEMMA LineInv ==
    ASSUME TrackerInv, SkipLine \/ Matched \/ Context
    PROVE  TrackerInv'
  <1>1. /\ Types /\ Inputs /\ Windows /\ Shows /\ Accompanied /\ Counting /\ Written
    BY DEF TrackerInv
  <1>2. PICK i \in NextLine :
              /\ phase = "scan" /\ delivered' = i /\ phase' \in {"scan", "finish"}
              /\ UNCHANGED <<input, taken, readable, binaryOffset, result>>
              /\ phase' = "finish" => IsMatch(i) /\ ~stats /\ ~SinkMore
              /\ IF file[i].kind = "none" THEN UNCHANGED tracker ELSE Offer(i)
              /\ IF IsMatch(i)
                 THEN /\ matchCount' = matchCount + 1
                      /\ counted' = IF stats /\ ~Truncated(i) THEN counted + 1 ELSE counted
                 ELSE matchCount' = matchCount /\ counted' = counted
    BY LineIs
  <1>3. /\ i = delivered + 1 /\ delivered \in Nat /\ i \in Nat /\ i >= 1 /\ i <= readable /\ readable \in Nat
        /\ i \in DOMAIN file /\ ~HeldBack(i) /\ DOMAIN file = 1 .. Len(file) /\ Len(file) \in Nat
        /\ file[i].kind \in {"match", "context", "none"}
    BY <1>1, <1>2, NextIs, NulsWithin, SMTT(30) DEF Types
  <1>4. UNCHANGED input
    BY <1>2 DEF input
  <1>5. /\ Size' = Size /\ Reported' = Reported /\ FirstNul' = FirstNul /\ Inputs'
        /\ \A a, b : Nuls(a, b)' = Nuls(a, b)
        /\ \A S : Hits(S)' = Hits(S)
        /\ \A k : IsMatch(k)' = IsMatch(k) /\ Offset(k)' = Offset(k)
        /\ NearNuls' = NearNuls /\ \A k : NulAt(k)' = NulAt(k)
    BY <1>1, <1>4, SameFile
  <1>6. /\ file' = file /\ mode' = mode /\ mapped' = mapped /\ sink' = sink /\ stats' = stats
        /\ passThru' = passThru
        /\ taken' = taken /\ readable' = readable /\ binaryOffset' = binaryOffset
        /\ filesSearched' = filesSearched /\ matched' = matched /\ output' = output
    BY <1>2 DEF input, result
  \* The tracker's own note of a NUL.
  <1>7. PICK found : found = NoteLineNUL(i)
    OBVIOUS
  <1>8. /\ found \in Nat \cup {None}
        /\ ~mapped => found = None
        /\ mapped /\ found # None => found < 2 * i
        /\ Effective(foundBinary) # None => Effective(found) # None
        /\ Suppressed(i, found) => sink = "standard" /\ mode = "convert" /\ Effective(found) # None
        /\ sink = "standard" /\ mode = "convert" =>
              /\ file[i].nul # None => Suppressed(i, found)
              /\ ~mapped /\ ~Suppressed(i, found) => FirstNul = None \/ 2 * i <= FirstNul
              /\ ~mapped /\ (FirstNul = None \/ (FirstNul >= Prefix /\ 2 * i <= FirstNul))
                    => ~Suppressed(i, found)
              /\ mapped /\ Binary => Suppressed(i, found)
              /\ mapped /\ ~Binary =>
                    /\ Suppressed(i, found) <=> found # None
                    /\ found # None <=> foundBinary # None \/ file[i].nul # None
    BY <1>1, <1>2, <1>7, Withholds
  <1>9. file[i].kind # "none" =>
           /\ foundBinary' = found
           /\ accepted' = IF Suppressed(i, found) THEN accepted ELSE Append(accepted, i)
    BY <1>2, <1>7 DEF Offer
  <1>10. file[i].kind = "none" => foundBinary' = foundBinary /\ accepted' = accepted
    BY <1>2 DEF tracker
  <1>11. accepted \in Seq(1 .. Len(file)) /\ i \in 1 .. Len(file)
    BY <1>1, <1>3 DEF Types
  <1>12. ToSet(Append(accepted, i)) = ToSet(accepted) \cup {i}
    BY <1>11, Grows
  <1>13. /\ accepted' \in Seq(1 .. Len(file))
         /\ Shown' = IF file[i].kind = "none" \/ Suppressed(i, found) THEN Shown ELSE Shown \cup {i}
    <2>1. Append(accepted, i) \in Seq(1 .. Len(file))
      BY <1>11, AppendProperties
    <2>2. accepted' = accepted \/ accepted' = Append(accepted, i)
      BY <1>9, <1>10
    <2>3. accepted' \in Seq(1 .. Len(file))
      BY <1>11, <2>1, <2>2
    <2>4. CASE file[i].kind = "none" \/ Suppressed(i, found)
      <3>1. accepted' = accepted
        BY <1>9, <1>10, <2>4
      <3> QED
        BY <2>3, <2>4, <3>1 DEF Shown
    <2>5. CASE ~(file[i].kind = "none" \/ Suppressed(i, found))
      <3>1. accepted' = Append(accepted, i)
        BY <1>9, <2>5
      <3> QED
        BY <1>12, <2>3, <2>5, <3>1 DEF Shown
    <2> QED
      BY <2>4, <2>5
  <1>14. /\ foundBinary' \in Nat \cup {None}
         /\ ~mapped => foundBinary' = None
         /\ mapped /\ foundBinary' # None => foundBinary' < 2 * i
         /\ Effective(foundBinary) # None => Effective(foundBinary)' # None
         /\ file[i].kind # "none" => Effective(foundBinary)' = Effective(found)
    <2>1. CASE file[i].kind # "none"
      BY <1>6, <1>8, <1>9, <2>1 DEF Effective
    <2>2. CASE file[i].kind = "none"
      <3>1. /\ foundBinary \in Nat \cup {None} /\ (~mapped => foundBinary = None)
            /\ mapped /\ foundBinary # None => foundBinary < 2 * delivered
        BY <1>1 DEF Types, Windows
      <3>2. foundBinary < 2 * delivered /\ foundBinary \in Nat => foundBinary < 2 * i
        BY <1>3
      <3> QED
        BY <1>6, <1>10, <2>2, <3>1, <3>2 DEF Effective, None
    <2> QED
      BY <2>1, <2>2
  <1>15. matchCount' \in Nat /\ counted' \in Nat
    BY <1>1, <1>2 DEF Types
  <1>16. Types'
    <2>1. taken \in 0 .. Size /\ readable \in 0 .. Len(file) /\ i \in 0 .. readable
      BY <1>1, <1>3 DEF Types
    <2>2. /\ file \in Seq(Line) /\ mode \in {"none", "quit", "convert"} /\ mapped \in BOOLEAN
          /\ sink \in Sinks /\ stats \in BOOLEAN /\ passThru \in BOOLEAN /\ binaryOffset \in Nat \cup {None}
      BY <1>1 DEF Types
    <2> QED
      BY <1>2, <1>5, <1>6, <1>13, <1>14, <1>15, <2>1, <2>2 DEF Types, Phases
  <1>17. Windows'
    <2>1. (Cut' <=> Cut) /\ (Binary' <=> Binary) /\ phase' # "read" /\ phase # "read"
      BY <1>2, <1>6 DEF Cut, Binary
    <2>2. \A b : Nuls(0, b)' = Nuls(0, b)
      BY <1>5
    <2> QED
      BY <1>1, <1>2, <1>5, <1>6, <1>14, <2>1, <2>2 DEF Windows
  <1>18. Given' = IF file[i].kind = "none" THEN Given ELSE Given \cup {i}
    <2>1. Given' = {k \in Reported : k <= i}
      BY <1>2, <1>5 DEF Given
    <2>2. \A k \in Reported : k \in Nat
      BY <1>3 DEF Reported
    <2>3. \A k \in Reported : k <= i <=> k <= delivered \/ k = i
      BY <1>3, <2>2
    <2>4. i \in Reported <=> file[i].kind # "none"
      BY <1>3 DEF Reported
    <2> QED
      BY <2>1, <2>3, <2>4 DEF Given
  <1>19. BeforeNul' = IF file[i].kind # "none" /\ (FirstNul = None \/ 2 * i <= FirstNul)
                      THEN BeforeNul \cup {i} ELSE BeforeNul
    <2>1. BeforeNul' = {k \in Given' : FirstNul = None \/ 2 * k <= FirstNul}
      BY <1>5 DEF BeforeNul
    <2> QED
      BY <1>18, <2>1 DEF BeforeNul
  <1>20. Hits(1 .. delivered) \in SUBSET (1 .. delivered) /\ Tallied(delivered) \in SUBSET (1 .. delivered)
    BY <1>1, <1>3, HitsGrow
  <1>21. /\ IsMatch(i) => Hits(1 .. i) = Hits(1 .. delivered) \cup {i}
         /\ ~IsMatch(i) => Hits(1 .. i) = Hits(1 .. delivered) /\ Tallied(i) = Tallied(delivered)
         /\ IsMatch(i) /\ (mode = "none" \/ FirstNul = None \/ Offset(i) < FirstNul)
                 => Tallied(i) = Tallied(delivered) \cup {i}
         /\ ~(mode = "none" \/ FirstNul = None \/ Offset(i) < FirstNul) => Tallied(i) = Tallied(delivered)
    <2>1. delivered + 1 \in DOMAIN file
      BY <1>3
    <2> QED
      BY <1>1, <1>3, <2>1, HitsGrow
  <1>22. /\ matchCount = Cardinality(Hits(1 .. delivered))
         /\ matchCount = 0 <=> Hits(1 .. delivered) = {}
         /\ matchCount' = Cardinality(Hits(1 .. i))
    <2>1. matchCount = Cardinality(Hits(1 .. delivered))
      BY <1>1 DEF Shows
    <2>2. /\ Cardinality(Hits(1 .. delivered)) = 0 <=> Hits(1 .. delivered) = {}
          /\ Cardinality(Hits(1 .. delivered) \cup {i}) = Cardinality(Hits(1 .. delivered)) + 1
      BY <1>3, <1>20, OneMore
    <2> QED
      BY <1>2, <1>21, <2>1, <2>2
  <1>23. Shows'
    <2>1. /\ Shown \subseteq Given
          /\ (sink = "standard" /\ mode = "convert" /\ Effective(foundBinary) # None) \/ Shown = Given
          /\ sink = "standard" /\ mode = "convert" =>
                /\ \A k \in Shown : file[k].nul = None
                /\ ~mapped => Shown \subseteq BeforeNul
                /\ ~mapped /\ (FirstNul = None \/ FirstNul >= Prefix) => Shown = BeforeNul
      BY <1>1 DEF Shows
    <2>2. matchCount' = Cardinality(Hits(1 .. delivered)')
      BY <1>2, <1>5, <1>22
    <2>3. Shown' \subseteq Given'
      BY <1>13, <1>18, <2>1
    <2>4. (sink = "standard" /\ mode = "convert" /\ Effective(foundBinary)' # None) \/ Shown' = Given'
      BY <1>8, <1>13, <1>14, <1>18, <2>1
    <2>5. ASSUME sink = "standard", mode = "convert"
          PROVE  /\ \A k \in Shown' : file[k].nul = None
                 /\ ~mapped => Shown' \subseteq BeforeNul'
                 /\ ~mapped /\ (FirstNul = None \/ FirstNul >= Prefix) => Shown' = BeforeNul'
      <3>1. \A k \in Shown' : file[k].nul = None
        BY <1>8, <1>13, <2>1, <2>5
      <3>2. ASSUME ~mapped PROVE Shown' \subseteq BeforeNul'
        BY <1>8, <1>13, <1>19, <2>1, <2>5, <3>2
      <3>3. ASSUME ~mapped, FirstNul = None \/ FirstNul >= Prefix PROVE Shown' = BeforeNul'
        BY <1>8, <1>13, <1>19, <2>1, <2>5, <3>3
      <3> QED
        BY <3>1, <3>2, <3>3
    <2> QED
      BY <1>5, <1>6, <2>2, <2>3, <2>4, <2>5 DEF Shows
  <1>24. Accompanied'
    <2> SUFFICES ASSUME ~passThru PROVE Accompanied'
      BY <1>6 DEF Accompanied
    <2>1. ASSUME matchCount' = 0, Shown' # {}
          PROVE  \E m \in i + 1 .. readable : IsMatch(m) /\ \A l \in i + 1 .. m - 1 : file[l].kind = "context"
      <3>1. matchCount = 0 /\ ~IsMatch(i) /\ Hits(1 .. delivered) = {}
        BY <1>1, <1>2, <1>22, <2>1 DEF Types
      <3>2. CASE file[i].kind = "none"
        <4>1. PICK m \in delivered + 1 .. readable : Ahead(m)
          BY <1>1, <1>13, <2>1, <3>1, <3>2 DEF Accompanied
        <4>2. m # i /\ m \in Nat /\ m > i
          BY <1>3, <3>1, <4>1 DEF Ahead
        <4>3. i \in delivered + 1 .. m - 1
          BY <1>3, <4>2
        <4> QED
          BY <3>2, <4>1, <4>3 DEF Ahead
      <3>3. CASE file[i].kind = "context"
        <4>1. ~AfterMatch(i)
          <5>1. SUFFICES ASSUME NEW m \in 1 .. i - 1, IsMatch(m) PROVE FALSE
            BY DEF AfterMatch
          <5>2. m \in 1 .. delivered
            BY <1>3, <5>1
          <5> QED
            BY <3>1, <5>1, <5>2 DEF Hits, IsMatch
        <4>2. PICK m \in i + 1 .. readable : IsMatch(m) /\ Joined(i, m)
          BY <1>3, <3>3, <4>1 DEF HeldBack
        <4> QED
          BY <4>2 DEF Joined
      <3> QED
        BY <1>3, <3>1, <3>2, <3>3 DEF IsMatch
    <2>2. phase' # "scan" => matchCount' # 0
      BY <1>1, <1>2 DEF Types
    <2>3. \A m : Ahead(m)' <=> IsMatch(m) /\ \A l \in i + 1 .. m - 1 : file[l].kind = "context"
      BY <1>2, <1>5, <1>6 DEF Ahead
    <2>4. ASSUME matchCount' = 0, Shown' # {} PROVE \E m \in delivered' + 1 .. readable' : Ahead(m)'
      <3>1. delivered' = i /\ readable' = readable
        BY <1>2, <1>6
      <3> QED
        BY <2>1, <2>3, <2>4, <3>1
    <2> QED
      BY <2>2, <2>4 DEF Accompanied
  <1>25. Counting'
    <2> SUFFICES ASSUME stats, ~mapped PROVE counted' = Cardinality(Tallied(i))
      BY <1>2, <1>5, <1>6 DEF Counting, Tallied
    <2>1. counted = Cardinality(Tallied(delivered))
      BY <1>1 DEF Counting, Tallied
    <2>2. Cardinality(Tallied(delivered) \cup {i}) = Cardinality(Tallied(delivered)) + 1
      BY <1>3, <1>20, OneMore
    <2>3. ~Truncated(i) <=> (mode = "none" \/ FirstNul = None \/ Offset(i) < FirstNul)
      BY <1>1, <1>2, CountedBefore
    <2> QED
      BY <1>2, <1>21, <2>1, <2>2, <2>3
  <1>26. Complete'
    BY <1>2, <1>6 DEF Complete, SinkMore
  <1>27. Written'
    BY <1>1, <1>2, <1>6 DEF Written
  <1>28. Maps'
    <2> SUFFICES ASSUME mapped, sink = "standard", mode = "convert"
                 PROVE  Maps'
      BY <1>6 DEF Maps
    <2>1. /\ Binary <=> NearNuls # {}
          /\ Binary => Shown = {}
          /\ ~Binary => /\ foundBinary = None <=> \A j \in Given : file[j].nul = None
                        /\ Shown = Unspoilt
      BY <1>1, <1>2 DEF TrackerInv, Maps
    <2>2. Binary' = Binary
      BY <1>6 DEF Binary
    <2>3. Binary => Shown' = {}
      BY <1>8, <1>13, <2>1
    <2>4. Unspoilt' = {k \in Given' : \A j \in Given' : file[j].nul # None => 2 * k <= NulAt(j)}
      BY <1>5, <1>6 DEF Unspoilt
    <2>5. ASSUME ~Binary, file[i].kind = "none"
          PROVE  (foundBinary' = None <=> \A j \in Given' : file[j].nul = None) /\ Shown' = Unspoilt'
      BY <1>10, <1>13, <1>18, <2>1, <2>4, <2>5 DEF Unspoilt
    <2>6. ASSUME ~Binary, file[i].kind # "none"
          PROVE  (foundBinary' = None <=> \A j \in Given' : file[j].nul = None) /\ Shown' = Unspoilt'
      <3>1. /\ Given' = Given \cup {i} /\ foundBinary' = found
            /\ found # None <=> foundBinary # None \/ file[i].nul # None
            /\ Shown' = IF found # None THEN Shown ELSE Shown \cup {i}
        BY <1>8, <1>9, <1>13, <1>18, <2>6
      <3>2. foundBinary' = None <=> \A j \in Given' : file[j].nul = None
        BY <2>1, <2>6, <3>1
      <3>3. ASSUME NEW k \in Given
            PROVE  k \in Nat /\ 2 * k <= 2 * i - 2 /\ (file[k].nul # None => NulAt(k) \in Nat /\ NulAt(k) < 2 * i)
        BY <1>1, <1>3, <3>3, NulsWithin DEF Given, Reported
      <3>4. file[i].nul # None => NulAt(i) \in Nat /\ 2 * i - 2 <= NulAt(i) /\ NulAt(i) < 2 * i
        BY <1>1, <1>3, NulsWithin
      <3>5. ASSUME NEW k \in Given PROVE k \in Unspoilt' <=> k \in Unspoilt
        <4>1. file[i].nul # None => 2 * k <= NulAt(i)
          BY <1>3, <3>3, <3>4, <3>5
        <4> QED
          BY <2>4, <3>1, <3>5, <4>1 DEF Unspoilt
      <3>6. i \in Unspoilt' <=> found = None
        <4>1. \A j \in Given' : file[j].nul # None => ~(2 * i <= NulAt(j))
          BY <1>3, <3>1, <3>3, <3>4
        <4> QED
          BY <2>4, <3>1, <3>2, <4>1
      <3>7. i \notin Given /\ Unspoilt \subseteq Given /\ Unspoilt' \subseteq Given'
        BY <1>3, <2>4 DEF Given, Unspoilt
      <3> QED
        BY <2>1, <2>6, <3>1, <3>2, <3>5, <3>6, <3>7
    <2> QED
      <3>1. /\ NearNuls' = NearNuls /\ file' = file /\ phase # "read" /\ phase' # "read"
        BY <1>2, <1>5, <1>6
      <3>2. ~Binary => (foundBinary' = None <=> \A j \in Given' : file'[j].nul = None) /\ Shown' = Unspoilt'
        BY <2>5, <2>6, <3>1
      <3> QED
        BY <2>1, <2>2, <2>3, <3>1, <3>2 DEF Maps
  <1> QED
    BY <1>5, <1>16, <1>17, <1>23, <1>24, <1>25, <1>26, <1>27, <1>28 DEF TrackerInv

-----------------------------------------------------------------------------
(* The invariant.                                                          *)

LEMMA InitInv ==
    ASSUME Init
    PROVE  TrackerInv
  <1>1. file \in Seq(Line)
    <2>1. MaxLines \in Nat
      BY TrackerBounds
    <2> QED
      BY <2>1 DEF Init, BoundedSeq, SeqOf
  <1>2. /\ mode \in {"none", "quit", "convert"} /\ mapped \in BOOLEAN /\ sink \in Sinks /\ stats \in BOOLEAN
        /\ passThru \in BOOLEAN
        /\ taken = 0 /\ readable = 0 /\ delivered = 0
        /\ binaryOffset = None /\ foundBinary = None
        /\ accepted = << >> /\ matchCount = 0 /\ counted = 0
        /\ filesSearched = 0 /\ matched = FALSE /\ output = << >>
        /\ phase = "read"
    BY DEF Init
  <1>3. Types
    <2>1. Len(file) \in Nat /\ Size \in Nat
      BY <1>1 DEF Size
    <2>2. << >> \in Seq(1 .. Len(file))
      OBVIOUS
    <2> QED
      BY <1>1, <1>2, <2>1, <2>2 DEF Types, Phases
  <1>4. Inputs
    BY DEF Init, Inputs
  <1>5. NextLine = {}
    BY <1>2 DEF NextLine
  <1>6. Nuls(0, 0) = {} /\ Len(file) \in Nat
    <2>1. \A x : x \in Nuls(0, 0) => x \in Nat /\ 0 <= x /\ x < 0
      BY <1>3, NulsWithin
    <2> QED
      BY <1>3, <2>1, NulsWithin
  <1>7. Windows
    BY <1>2, <1>3, <1>5, <1>6 DEF Windows, Cut, Binary, None
  <1>8. Shown = {}
    BY <1>2 DEF Shown, ToSet
  <1>9. Given = {} /\ BeforeNul = {}
    <2>1. \A i \in Reported : i \in Nat /\ i >= 1
      BY <1>3, NulsWithin DEF Reported
    <2> QED
      BY <1>2, <2>1 DEF Given, BeforeNul
  <1>10. Hits(1 .. delivered) = {} /\ Cardinality({}) = 0
    <2>1. 1 .. delivered = {}
      BY <1>2
    <2> QED
      BY <2>1, FS_EmptySet DEF Hits
  <1>11. Shows
    BY <1>2, <1>8, <1>9, <1>10 DEF Shows
  <1>12. Accompanied /\ Complete
    BY <1>2, <1>8 DEF Accompanied, Complete
  <1>13. Counting
    <2>1. {i \in Hits(1 .. delivered) : mode = "none" \/ FirstNul = None \/ Offset(i) < FirstNul} = {}
      BY <1>10
    <2> QED
      BY <1>2, <1>10, <2>1 DEF Counting
  <1>14. Written
    BY <1>2 DEF Written
  <1>15. Maps
    BY <1>2, <1>8, <1>9 DEF Maps, Unspoilt, Binary
  <1> QED
    BY <1>3, <1>4, <1>7, <1>11, <1>12, <1>13, <1>14, <1>15 DEF TrackerInv

LEMMA Unchanged ==
    ASSUME TrackerInv, UNCHANGED vars
    PROVE  TrackerInv'
  <1>1. UNCHANGED <<input, scan, tracker, result, phase>>
    BY DEF vars
  <1>2. UNCHANGED <<input, tracker, delivered>> /\ UNCHANGED <<input, tracker, binaryOffset>>
    BY <1>1 DEF scan
  <1>3. /\ FirstNul' = FirstNul /\ Size' = Size /\ Inputs'
        /\ \A a, b : Nuls(a, b)' = Nuls(a, b)
        /\ \A i : IsMatch(i)' = IsMatch(i) /\ AfterMatch(i)' = AfterMatch(i)
        /\ \A i, j : Joined(i, j)' = Joined(i, j)
    BY <1>1, SameFile DEF TrackerInv
  <1>4. Shows' /\ Counting' /\ Shown' = Shown
    BY <1>1, <1>2, NoLines DEF scan
  <1>5. /\ Block' = Block /\ BinaryNote' = BinaryNote /\ Signal' = Signal
        /\ Dropped' = Dropped /\ Cut' = Cut /\ Binary' = Binary
    BY <1>2, SameEnd
  <1>6. NextLine' = NextLine
    BY <1>1, <1>3 DEF NextLine, HeldBack, scan, input
  <1>7. Types'
    BY <1>1, <1>3 DEF TrackerInv, Types, input, scan, tracker
  <1>8. Windows'
    BY <1>1, <1>3, <1>5, <1>6 DEF TrackerInv, Windows, input, scan, tracker
  <1>9. Accompanied'
    BY <1>1, <1>3, <1>4 DEF TrackerInv, Accompanied, Ahead, input, scan, tracker
  <1>10. Complete'
    BY <1>1, <1>5 DEF TrackerInv, Complete, SinkMore, input, scan
  <1>11. Written'
    BY <1>1, <1>5 DEF TrackerInv, Written, input, result
  <1>12. Maps'
    BY <1>1, MapsKept DEF scan
  <1> QED
    BY <1>3, <1>4, <1>7, <1>8, <1>9, <1>10, <1>11, <1>12 DEF TrackerInv

LEMMA StepInv ==
    ASSUME TrackerInv, [Next]_vars
    PROVE  TrackerInv'
  <1>1. CASE Step
    <2>1. CASE Map
      BY <2>1, MapInv
    <2>2. CASE Read
      BY <2>2, ReadInv
    <2>3. CASE EndOfWindow
      BY <2>3, EndOfWindowInv
    <2>4. CASE SkipLine \/ Matched \/ Context
      BY <2>4, LineInv
    <2>5. CASE Finish \/ WriteNote \/ WriteFails \/ ReadFails
      BY <2>5, EndInv
    <2> QED
      BY <1>1, <2>1, <2>2, <2>3, <2>4, <2>5 DEF Step
  <1>2. CASE UNCHANGED vars
    BY <1>2, Unchanged
  <1> QED
    BY <1>1, <1>2 DEF Next, Returned

\* What the search of a file is made of stays consistent: the windows and what is known of
\* their NULs, the lines that were shown, --stats' count, and what Finish leaves behind.
THEOREM TrackerInductive == Spec => []TrackerInv
  <1>1. Init => TrackerInv
    BY InitInv
  <1>2. TrackerInv /\ [Next]_vars => TrackerInv'
    BY StepInv
  <1> QED
    BY <1>1, <1>2, PTL DEF Spec

-----------------------------------------------------------------------------
(* What the search of a file promises.                                     *)

\* Writes one after the other.
LEMMA Joins ==
    ASSUME NEW S, NEW s \in Seq(S), NEW t \in Seq(S)
    PROVE  ToSet(s \o t) = ToSet(s) \cup ToSet(t)
  <1>1. /\ s \o t \in Seq(S) /\ Len(s \o t) = Len(s) + Len(t)
        /\ \A i \in 1 .. Len(s) + Len(t) : (s \o t)[i] = IF i <= Len(s) THEN s[i] ELSE t[i - Len(s)]
    BY ConcatProperties
  <1>2. /\ Len(s) \in Nat /\ Len(t) \in Nat /\ DOMAIN s = 1 .. Len(s) /\ DOMAIN t = 1 .. Len(t)
        /\ DOMAIN (s \o t) = 1 .. Len(s) + Len(t)
    BY <1>1
  <1>3. ASSUME NEW i \in DOMAIN (s \o t) PROVE (s \o t)[i] \in ToSet(s) \cup ToSet(t)
    BY <1>1, <1>2, <1>3 DEF ToSet
  <1>4. ASSUME NEW i \in DOMAIN s PROVE s[i] \in ToSet(s \o t)
    <2>1. i \in DOMAIN (s \o t) /\ (s \o t)[i] = s[i]
      BY <1>1, <1>2, <1>4
    <2> QED
      BY <2>1 DEF ToSet
  <1>5. ASSUME NEW i \in DOMAIN t PROVE t[i] \in ToSet(s \o t)
    <2>1. i + Len(s) \in DOMAIN (s \o t) /\ (s \o t)[i + Len(s)] = t[i]
      BY <1>1, <1>2, <1>5
    <2> QED
      BY <2>1 DEF ToSet
  <1> QED
    BY <1>3, <1>4, <1>5 DEF ToSet

LEMMA EmptyRange ==
    ASSUME NEW S, NEW s \in Seq(S)
    PROVE  ToSet(s) = {} <=> s = << >>
  <1>1. s = << >> <=> Len(s) = 0
    BY EmptySeq
  <1>2. Len(s) \in Nat /\ DOMAIN s = 1 .. Len(s)
    OBVIOUS
  <1>3. ASSUME Len(s) # 0 PROVE ToSet(s) # {}
    <2>1. 1 \in DOMAIN s
      BY <1>2, <1>3
    <2> QED
      BY <2>1 DEF ToSet
  <1>4. ASSUME Len(s) = 0 PROVE ToSet(s) = {}
    BY <1>2, <1>4 DEF ToSet
  <1> QED
    BY <1>1, <1>3, <1>4

\* What Finish wrote, if anything.
LEMMA DoneWrote ==
    ASSUME TrackerInv, Done
    PROVE  /\ matched <=> ~Dropped /\ Signal
           /\ output = IF Dropped THEN << >> ELSE Block \o BinaryNote
           /\ filesSearched = IF stats THEN 1 ELSE 0
           /\ Types /\ Windows /\ Shows /\ Counting /\ Accompanied /\ Complete
           /\ matchCount = 0 => passThru \/ Shown = {}
  BY DEF TrackerInv, Written, Done, Accompanied

\* Finish saw matches exactly if the Sink has some or some were withheld from it.
LEMMA HitsSeen ==
    ASSUME Types, Shows
    PROVE  /\ SinkHits # {} => matchCount > 0
           /\ Shown = Given => (SinkHits = {} <=> matchCount = 0)
           /\ accepted = << >> <=> Shown = {}
           /\ matchCount \in Nat
  <1>1. DOMAIN file = 1 .. Len(file) /\ Len(file) \in Nat /\ delivered \in Nat /\ delivered <= Len(file)
    BY DEF Types
  <1>2. SinkHits = {i \in Shown : file[i].kind = "match"}
    BY DEF SinkHits, Shown
  <1>3. \A i : i \in Given /\ file[i].kind = "match" <=> i \in Hits(1 .. delivered)
    BY <1>1 DEF Given, Reported, Hits
  <1>4. Hits(1 .. delivered) = {} <=> matchCount = 0
    <2>1. Hits(1 .. delivered) \in SUBSET (1 .. delivered)
      BY DEF Hits
    <2> QED
      BY <1>1, <2>1, OneMore DEF Shows
  <1>5. Shown \subseteq Given /\ matchCount \in Nat
    BY DEF Shows, Types
  <1>6. accepted = << >> <=> Shown = {}
    BY EmptyRange DEF Types, Shown
  <1> QED
    BY <1>2, <1>3, <1>4, <1>5, <1>6

\* A single write.
LEMMA OneWrite ==
    ASSUME NEW s
    PROVE  ToSet(<<s>>) = {s} /\ ToSet(<< >>) = {}
  BY DEF ToSet

\* No match is lost: one that was found and not shown is announced by the message.
THEOREM LossAnnounced == Spec => []NothingVanishes
  <1>1. TrackerInv => NothingVanishes
    <2> SUFFICES ASSUME TrackerInv, Done, sink = "standard", matchCount > Cardinality(Hits(Shown))
                 PROVE  "message" \in ToSet(output)
      BY DEF NothingVanishes
    <2>1. /\ Types /\ Shows /\ ~Dropped
          /\ output = IF Dropped THEN << >> ELSE Block \o BinaryNote
      BY DoneWrote DEF Dropped
    <2>2. matchCount # 0
      <3>1. Shown \subseteq 1 .. Len(file) /\ Len(file) \in Nat
        BY <2>1 DEF Types, Shown, ToSet
      <3>2. Hits(Shown) \in SUBSET (1 .. Len(file))
        BY <3>1 DEF Hits
      <3>3. Cardinality(Hits(Shown)) \in Nat
        BY <3>1, <3>2, OneMore
      <3> QED
        BY <2>1, <3>3 DEF Types
    <2>3. Shown # Given
      <3>1. SUFFICES ASSUME Shown = Given PROVE FALSE
        OBVIOUS
      <3>2. Hits(Given) = Hits(1 .. delivered)
        <4>1. \A i : i \in Given /\ file[i].kind = "match" <=> i \in 1 .. delivered /\ file[i].kind = "match"
          <5>1. DOMAIN file = 1 .. Len(file) /\ Len(file) \in Nat /\ delivered \in Nat /\ delivered <= Len(file)
            BY <2>1 DEF Types
          <5> QED
            BY <5>1 DEF Given, Reported
        <4> QED
          BY <4>1 DEF Hits
      <3>3. matchCount = Cardinality(Hits(Shown)) /\ matchCount \in Nat
        BY <2>1, <3>1, <3>2 DEF Shows, Types
      <3> QED
        BY <3>3
    <2>4. mode = "convert" /\ Effective(foundBinary) # None
      BY <2>1, <2>3 DEF Shows
    <2>5. BinaryNote = <<"message">>
      BY <2>2, <2>4 DEF BinaryNote
    <2>6. Block \in Seq(Writes) /\ BinaryNote \in Seq(Writes) /\ output = Block \o BinaryNote
      BY <2>1, BlockIs
    <2>7. ToSet(output) = ToSet(Block) \cup ToSet(BinaryNote)
      BY <2>6, Joins
    <2> QED
      BY <2>5, <2>7 DEF ToSet
  <1> QED
    BY <1>1, TrackerInductive, PTL

\* The exit code and the output agree about every file whose search ran to its end: a file
\* counts as matched exactly if a write tells of it, and otherwise all there may be is the
\* context of --passthru or the zero of --include-zero.
THEOREM OutputAsSignalled == Spec => []SignalMeansOutput
  <1>1. TrackerInv => SignalMeansOutput
    <2> SUFFICES ASSUME TrackerInv, Done, sink # "discard"
                 PROVE  /\ matched <=> ToSet(output) \cap Telling # {}
                        /\ ~matched => \/ output = << >>
                                       \/ passThru /\ output = <<"context">>
                                       \/ sink = "zeros" /\ output = <<"zero">>
      BY DEF SignalMeansOutput
    <2>1. /\ Types /\ Shows
          /\ matched <=> ~Dropped /\ Signal
          /\ output = IF Dropped THEN << >> ELSE Block \o BinaryNote
          /\ matchCount = 0 => passThru \/ Shown = {}
      BY DoneWrote
    <2>2. CASE Dropped
      <3>1. output = << >> /\ ToSet(output) = {} /\ ~matched
        BY <2>1, <2>2, OneWrite
      <3> QED
        BY <3>1
    <2>3. CASE ~Dropped
      <3>1. /\ Block \in Seq(Writes) /\ BinaryNote \in Seq(Writes)
            /\ output = Block \o BinaryNote
        BY <2>1, <2>3, BlockIs
      <3>2. ToSet(output) = ToSet(Block) \cup ToSet(BinaryNote)
        BY <3>1, Joins
      <3>3. BinaryNote = << >> => output = Block
        BY <3>1
      <3>4. /\ SinkHits # {} => matchCount > 0
            /\ Shown = Given => (SinkHits = {} <=> matchCount = 0)
            /\ accepted = << >> <=> Shown = {}
            /\ matchCount \in Nat
        BY <2>1, HitsSeen
      <3>5. matched <=> Signal
        BY <2>1, <2>3
      <3>6. CASE sink = "standard"
        <4>1. matched <=> matchCount # 0
          BY <3>4, <3>5, <3>6 DEF Signal
        <4>2. /\ accepted = << >> => Block = << >>
              /\ SinkHits = {} => Block \in {<< >>, <<"context">>}
              /\ SinkHits # {} => Block = <<"lines">>
          <5>1. SinkHits # {} => accepted # << >>
            BY <3>4 DEF SinkHits, Shown
          <5> QED
            BY <3>6, <5>1 DEF Block
        <4>3. CASE matchCount = 0
          <5>1. BinaryNote = << >> /\ SinkHits = {} /\ output = Block /\ ~matched
            BY <3>3, <3>4, <4>1, <4>3 DEF BinaryNote
          <5>2. CASE Block = << >>
            BY <5>1, <5>2, OneWrite
          <5>3. CASE Block # << >>
            <6>1. passThru /\ output = <<"context">>
              BY <2>1, <3>4, <4>2, <4>3, <5>1, <5>3
            <6>2. ToSet(output) = {"context"}
              BY <6>1, OneWrite
            <6> QED
              BY <5>1, <6>1, <6>2 DEF Telling
          <5> QED
            BY <5>2, <5>3
        <4>4. CASE matchCount # 0
          <5>1. CASE SinkHits # {}
            <6>1. "lines" \in ToSet(output)
              BY <3>2, <4>2, <5>1, OneWrite
            <6> QED
              BY <4>1, <4>4, <6>1 DEF Telling
          <5>2. CASE SinkHits = {}
            <6>1. mode = "convert" /\ Effective(foundBinary) # None
              BY <2>1, <3>4, <4>4, <5>2 DEF Shows
            <6>2. BinaryNote = <<"message">>
              BY <3>6, <4>4, <6>1 DEF BinaryNote
            <6>3. "message" \in ToSet(output)
              BY <3>2, <6>2, OneWrite
            <6> QED
              BY <4>1, <4>4, <6>3 DEF Telling
          <5> QED
            BY <5>1, <5>2
        <4> QED
          BY <4>3, <4>4
      <3>7. CASE sink # "standard"
        <4>1. output = Block /\ (SinkHits = {} <=> matchCount = 0)
          BY <2>1, <3>3, <3>4, <3>7 DEF Shows, BinaryNote
        <4>2. matched <=> IF sink = "without" THEN SinkHits = {} ELSE SinkHits # {}
          BY <3>4, <3>5, <4>1 DEF Signal
        <4>3. /\ matched => \E s \in Telling : output = <<s>>
              /\ ~matched => \/ output = << >>
                             \/ sink = "json" /\ output = <<"context">>
                             \/ sink = "zeros" /\ output = <<"zero">>
          <5>1. sink \in {"count", "zeros", "list", "without", "json"}
            BY <2>1, <3>7 DEF Types, Sinks
          <5>2. SinkHits # {} => accepted # << >>
            BY <3>4 DEF SinkHits, Shown
          <5> QED
            BY <4>1, <4>2, <5>1, <5>2 DEF Block, Telling
        <4>4. ~matched /\ sink = "json" /\ output = <<"context">> => passThru
          <5>1. SUFFICES ASSUME ~matched, sink = "json", Block = <<"context">> PROVE passThru
            BY <4>1
          <5>2. accepted # << >> /\ matchCount = 0
            <6>1. accepted # << >>
              BY <5>1 DEF Block
            <6> QED
              BY <4>1, <4>2, <5>1, <6>1
          <5> QED
            BY <2>1, <3>4, <5>2
        <4>5. ASSUME matched PROVE ToSet(output) \cap Telling # {}
          <5>1. PICK s \in Telling : output = <<s>>
            BY <4>3, <4>5
          <5> QED
            BY <5>1, OneWrite
        <4>6. ASSUME ~matched PROVE ToSet(output) \cap Telling = {}
          <5>1. ToSet(output) \subseteq {"context", "zero"}
            BY <4>3, <4>6, OneWrite
          <5> QED
            BY <5>1 DEF Telling
        <4> QED
          BY <4>3, <4>4, <4>5, <4>6
      <3> QED
        BY <3>6, <3>7
    <2> QED
      BY <2>2, <2>3
  <1> QED
    BY <1>1, TrackerInductive, PTL

\* No line with its NUL is shown, but for mapped files under binary-quit.
LEMMA RawHidden ==
    ASSUME TrackerInv, sink = "standard"
    PROVE  NothingRawShown
  <1>1. Types /\ Windows /\ Shows
    BY DEF TrackerInv
  <1>2. SUFFICES ASSUME mode # "none", ~(mapped /\ mode = "quit"), NEW i \in Shown, Raw(i)
                 PROVE  FALSE
    BY DEF NothingRawShown
  <1>3. i \in DOMAIN file /\ i \in Nat /\ taken \in Nat /\ 0 \in Nat
    <2>1. Shown \subseteq Given
      BY <1>1 DEF Shows
    <2> QED
      BY <1>1, <1>2, <2>1, NulsWithin DEF Given, Reported, Types
  <1>4. file[i].nul # None /\ NulAt(i) < LineEnd(i) /\ NulAt(i) \in Nat
    BY <1>1, <1>2, <1>3, NulsWithin DEF Raw
  <1>5. mode = "quit" /\ ~mapped
    BY <1>1, <1>2, <1>4 DEF Shows, Types
  <1>6. LineEnd(i) \in Nat /\ LineEnd(i) <= taken
    <2>1. {2 * i, taken} \in SUBSET Nat /\ {2 * i, taken} # {}
      BY <1>3
    <2> QED
      BY <2>1, MinExists DEF LineEnd
  <1>7. \E j \in DOMAIN file : file[j].nul # None /\ NulAt(i) = NulAt(j) /\ 0 <= NulAt(i) /\ NulAt(i) < taken
    BY <1>3, <1>4, <1>6
  <1>8. NulAt(i) \in Nuls(0, taken)
    BY <1>1, <1>3, <1>7, NulsWithin
  <1>9. Nuls(0, taken) = {}
    BY <1>1, <1>5 DEF Windows
  <1> QED
    BY <1>8, <1>9

\* What is shown of a file under convert follows from the invariant, streamed or mapped.
LEMMA ShowsRight ==
    ASSUME TrackerInv
    PROVE  ShownRight
  <1> SUFFICES ASSUME sink = "standard", mode = "convert"
               PROVE  IF mapped THEN MapShown ELSE StreamShown
    BY RawHidden DEF ShownRight
  <1>1. Types /\ Windows /\ Shows /\ Maps /\ Complete
    BY DEF TrackerInv
  <1>2. Done => Given = Reported
    <2>1. SUFFICES ASSUME Done PROVE Given = Reported
      OBVIOUS
    <2>2. delivered = Len(file)
      BY <1>1, <2>1 DEF Complete, Done, SinkMore, Cut
    <2>3. \A i \in Reported : i <= Len(file)
      BY <1>1, NulsWithin DEF Reported
    <2> QED
      BY <2>2, <2>3 DEF Given
  <1>3. CASE ~mapped
    <2>1. ASSUME ~Binary PROVE Shown = Reported \cap 1 .. delivered
      <3>1. Effective(foundBinary) = None
        BY <1>1, <1>3, <2>1 DEF Effective, Windows, Binary
      <3>2. Shown = Given
        BY <1>1, <3>1 DEF Shows
      <3>3. \A i \in Reported : i \in Nat /\ i >= 1
        BY <1>1, NulsWithin DEF Reported
      <3>4. delivered \in Nat
        BY <1>1 DEF Types
      <3> QED
        BY <3>2, <3>3, <3>4 DEF Given
    <2>2. Done => BeforeNul = Wholly(FirstNul)
      BY <1>2 DEF BeforeNul, Wholly
    <2>3. Shown \subseteq BeforeNul /\ (FirstNul = None \/ FirstNul >= Prefix => Shown = BeforeNul)
      BY <1>1, <1>3 DEF Shows
    <2> QED
      BY <1>3, <2>1, <2>2, <2>3 DEF StreamShown
  <1>4. CASE mapped
    <2>1. SUFFICES ASSUME Done
                   PROVE  Shown = {i \in Reported :
                             /\ NearNuls = {}
                             /\ \A j \in Reported : file[j].nul # None => 2 * i <= NulAt(j)}
      BY <1>4 DEF MapShown
    <2>2. (Binary <=> NearNuls # {}) /\ (Binary => Shown = {}) /\ (~Binary => Shown = Unspoilt)
      BY <1>1, <1>4, <2>1 DEF Maps, Done
    <2>3. Given = Reported
      BY <1>2, <2>1
    <2> QED
      BY <2>2, <2>3 DEF Unspoilt
  <1> QED
    BY <1>3, <1>4

\* Once a NUL near the beginning has been read, the Sink is given no line any more.
LEMMA NothingMore ==
    ASSUME TrackerInv, [Next]_vars, HidesAll
    PROVE  UNCHANGED accepted
  <1>1. ASSUME NEW i, NEW found PROVE Suppressed(i, found)
    BY DEF Suppressed, HidesAll, Effective, Binary
  <1>2. CASE Matched \/ Context
    <2>1. \E i \in NextLine : Offer(i)
      BY <1>2 DEF Matched, Context
    <2> QED
      BY <1>1, <2>1 DEF Offer
  <1>3. CASE ~(Matched \/ Context)
    BY <1>3 DEF Next, Step, Returned, vars, tracker, Map, Read, ReadFails, EndOfWindow, SkipLine,
                Finish, WriteNote, WriteFails
  <1> QED
    BY <1>2, <1>3

\* Under convert a streamed file shows its lines until a NUL is read, and in the end the lines
\* before the first NUL, if that is not near the beginning; if it is, no line is shown any more
\* once it has been read. A mapped file shows nothing if a NUL is near the beginning, and else
\* the lines before the first line reported that has one. No NUL itself is ever shown, but for
\* mapped files under binary-quit.
THEOREM NothingRaw == Spec => ConvertShows
  <1>1. TrackerInv /\ [Next]_vars => TrackerInv'
    BY StepInv
  <1>2. TrackerInv' => ShownRight'
    BY ShowsRight, PTL
  <1>3. TrackerInv /\ [Next]_vars => (HidesAll => UNCHANGED accepted)
    BY NothingMore
  <1>4. TrackerInv /\ TrackerInv' /\ [Next]_vars => [ShownRight' /\ (HidesAll => UNCHANGED accepted)]_vars
    BY <1>2, <1>3
  <1> QED
    BY <1>4, TrackerInductive, PTL DEF Spec, ConvertShows

\* --stats counts the matches before the first NUL of a streamed file, and the file once.
THEOREM StatsCount == Spec => []StatsExact
  <1>1. TrackerInv => StatsExact
    <2> SUFFICES ASSUME TrackerInv, Done, stats, ~mapped
                 PROVE  /\ filesSearched = 1
                        /\ mode # "quit" \/ FirstNul = None => delivered = Len(file)
                        /\ counted = Cardinality({i \in Hits(1 .. delivered) :
                                        mode = "none" \/ FirstNul = None \/ Offset(i) < FirstNul})
      BY DEF StatsExact
    <2>1. filesSearched = 1 /\ Windows /\ Counting /\ Complete
      BY DoneWrote
    <2>2. Cut => mode = "quit" /\ FirstNul # None
      BY <2>1 DEF Windows, Cut
    <2>3. mode # "quit" \/ FirstNul = None => delivered = Len(file)
      BY <2>1, <2>2 DEF Complete, Done
    <2> QED
      BY <2>1, <2>3 DEF Counting
  <1> QED
    BY <1>1, TrackerInductive, PTL
=============================================================================
