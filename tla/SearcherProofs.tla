---------------------------- MODULE SearcherProofs ----------------------------
(***************************************************************************)
(* Proofs about the line scanner: for files, contexts and limits of any    *)
(* size and windows that end anywhere, the Sink is told what grep reports. *)
(***************************************************************************)
EXTENDS SearcherProps, FiniteSetTheorems, SequenceTheorems, WellFoundedInduction, TLAPS

-----------------------------------------------------------------------------
(* The inductive invariant, in parts.                                      *)

Event == [kind : {"match", "before", "after"}, line : Nat, number : Nat]
Places == {"begin", "fill", "scan", "after", "before", "match", "drain",
           "finish", "quit", "declined", "failed", "done"}

Types ==
    /\ config \in Configs /\ file \in Seq(BOOLEAN)
    /\ consumed \in Nat /\ window \in Nat /\ pos \in Nat
    /\ lineNumber \in Nat /\ lastLineCounted \in Nat /\ lastLineVisited \in Nat
    /\ afterContextLeft \in Nat /\ matchCount \in Nat
    /\ hasMatched \in BOOLEAN /\ matchLimitReached \in BOOLEAN /\ stopped \in BOOLEAN
    /\ gap \in [from : Nat, to : Nat] /\ events \in Seq(Event) /\ pc \in Places

\* The scan goes on, with a gap of lines that were found, or without.
InGap == pc \in {"after", "before", "match"}
Live == pc \in {"begin", "fill", "scan", "drain"} \/ InGap
FastInvert == IsFastPath /\ config.invert

\* Lines of the file: the last one visited, and the last one known to be no match after it.
Visited == consumed + lastLineVisited
Scanned == consumed + (IF InGap THEN gap.from ELSE IF pc = "drain" THEN window ELSE pos)

UpTo(S, n) == {j \in S : j <= n}

Bounds ==
    /\ consumed + window <= Len(file) /\ pos <= window
    /\ Visited <= Scanned /\ Scanned <= consumed + window
    /\ lastLineCounted <= lastLineVisited /\ lineNumber = consumed + lastLineCounted + 1
    /\ config.whole => consumed = 0 /\ window = Len(file)

\* Everything up to the last line visited has been reported, and no match behind it was seen.
Reporting ==
    /\ Len(events) = Cardinality(UpTo(Reported, Visited))
    /\ \A i \in Matches : i <= Visited \/ i > Scanned
    /\ config.passThru /\ ~LimitAtStart => Visited = Scanned

\* After-context is owed from the last line visited on; the slow path pays it at once.
Owing ==
    /\ \A m \in Chosen : m <= Visited => m + config.after <= Visited + afterContextLeft
    /\ afterContextLeft > 0 =>
          \E m \in Chosen : m <= Visited /\ m + config.after = Visited + afterContextLeft
    /\ afterContextLeft > 0 /\ ~IsFastPath => Visited = Scanned

Counting ==
    /\ matchLimitReached <=> Limited(Cardinality(UpTo(Matches, Visited)))
    /\ matchCount = Cardinality(UpTo(Matches, Visited)) + IF InGap /\ ~FastInvert THEN 1 ELSE 0
    /\ hasMatched <=> InGap \/ UpTo(Matches, Visited) # {}

GapFound ==
    InGap =>
        /\ gap.from < gap.to /\ gap.to <= window /\ consumed + gap.from + 1 \in Matches
        /\ FastInvert => /\ ~matchLimitReached /\ gap.to <= pos
                         /\ \A j \in gap.from .. gap.to - 1 : ~Verify(j)
                         /\ \A j \in gap.to .. pos - 1 : Verify(j)
        /\ ~FastInvert => gap.to = gap.from + 1
        /\ IsFastPath /\ ~config.invert => pos <= gap.from
        /\ ~IsFastPath => pos = gap.to

Control ==
    /\ pc = "begin" => /\ pos = 0 /\ lastLineVisited = 0 /\ afterContextLeft = 0
                       /\ ~config.whole => window = 0
    /\ pc \in {"after", "drain"} => IsFastPath
    /\ pc \in {"before", "match"} => afterContextLeft = 0 \/ Visited = Scanned
    /\ pc = "match" => config.before = 0 \/ Visited = Scanned
    /\ pc = "fill" => pos = window /\ ~config.whole /\ (afterContextLeft = 0 \/ Visited = Scanned)

Scanning == Live => ~stopped /\ Bounds /\ Reporting /\ Owing /\ Counting /\ GapFound /\ Control

\* A search that nobody stopped has told everything.
Ending ==
    /\ pc = "declined" => stopped
    /\ pc \in {"finish", "quit"} /\ ~stopped =>
          /\ Len(events) = Cardinality(Reported) /\ matchCount = Cardinality(Matches)
          /\ hasMatched <=> Matches # {}
          /\ ~matchLimitReached => pc = "finish" /\ (~config.whole => consumed = Len(file))

SInv == Types /\ Scanning /\ Ending /\ EventsRight

-----------------------------------------------------------------------------
(* Induction.                                                              *)

\* A non-empty set of numbers has a least one.
LEMMA LeastExists ==
    ASSUME NEW S \in SUBSET Nat, S # {}
    PROVE  \E k \in S : \A j \in S : k <= j
  <1>1. PICK R : /\ IsWellFoundedOn(R, Nat)
                 /\ \A i, j \in Nat : i < j => <<i, j>> \in R
    <2>1. IsWellFoundedOn({ss \in Nat \X Nat : ss[1] < ss[2]}, Nat)
      BY NatLessThanWellFounded DEF OpToRel
    <2> QED
      BY <2>1
  <1>2. S \subseteq Nat /\ IsWellFoundedOn(R, Nat)
    BY <1>1
  <1>3. PICK k \in S : \A j \in S : ~(<<j, k>> \in R)
    BY <1>2, WFMin
  <1>4. \A j \in S : j \in Nat /\ k \in Nat /\ ~(j < k)
    BY <1>1, <1>3, Zenon
  <1> QED
    BY <1>4

-----------------------------------------------------------------------------
(* Counting lines.                                                         *)

\* How many members of a set of lines there are up to a line.
LEMMA CountTo ==
    ASSUME NEW l \in Nat, NEW S \in SUBSET (1 .. l), NEW n \in Nat
    PROVE  /\ IsFiniteSet(S) /\ Cardinality(S) \in Nat
           /\ IsFiniteSet(UpTo(S, n)) /\ Cardinality(UpTo(S, n)) \in Nat
           /\ Cardinality(UpTo(S, n)) <= Cardinality(S)
           /\ Cardinality(UpTo(S, n)) = 0 <=> UpTo(S, n) = {}
  <1>1. IsFiniteSet(1 .. l)
    BY FS_Interval
  <1>2. IsFiniteSet(S)
    BY <1>1, FS_Subset
  <1>3. UpTo(S, n) \in SUBSET S
    BY DEF UpTo
  <1>4. IsFiniteSet(UpTo(S, n)) /\ Cardinality(UpTo(S, n)) <= Cardinality(S)
    BY <1>2, <1>3, FS_Subset
  <1> QED
    BY <1>2, <1>4, FS_CardinalityType, FS_EmptySet

\* None lies between n and i: i itself makes the difference.
LEMMA CountNext ==
    ASSUME NEW l \in Nat, NEW S \in SUBSET (1 .. l), NEW n \in Nat, NEW i \in Nat, n < i,
           \A j \in S : j <= n \/ j >= i
    PROVE  Cardinality(UpTo(S, i)) = Cardinality(UpTo(S, n)) + IF i \in S THEN 1 ELSE 0
  <1>1. IsFiniteSet(UpTo(S, n)) /\ Cardinality(UpTo(S, n)) \in Nat
    BY CountTo
  <1>2. i \notin UpTo(S, n)
    BY DEF UpTo
  <1>0. \A j \in S : j <= i <=> j <= n \/ j = i
    <2>1. \A j \in S : j \in Nat
      OBVIOUS
    <2> QED
      BY <2>1
  <1>3. CASE i \in S
    <2>1. UpTo(S, i) = UpTo(S, n) \cup {i}
      BY <1>0, <1>3, Zenon DEF UpTo
    <2> QED
      BY <1>1, <1>2, <1>3, <2>1, FS_AddElement
  <1>4. CASE i \notin S
    <2>0. \A j \in S : j <= i <=> j <= n
      BY <1>0, <1>4
    <2>1. UpTo(S, i) = UpTo(S, n)
      BY <2>0, Zenon DEF UpTo
    <2> QED
      BY <1>1, <1>4, <2>1
  <1> QED
    BY <1>3, <1>4

LEMMA CountSame ==
    ASSUME NEW l \in Nat, NEW S \in SUBSET (1 .. l), NEW n \in Nat, NEW i \in Nat, n <= i,
           \A j \in S : j <= n \/ j > i
    PROVE  UpTo(S, i) = UpTo(S, n)
  <1>1. \A j \in S : j \in Nat
    OBVIOUS
  <1>2. \A j \in S : j <= i <=> j <= n
    BY <1>1
  <1> QED
    BY <1>2, Zenon DEF UpTo

-----------------------------------------------------------------------------
(* The reference.                                                          *)

Given == config \in Configs /\ file \in Seq(BOOLEAN)

LEMMA InputsAre ==
    ASSUME Given
    PROVE  /\ Len(file) \in Nat /\ DOMAIN file = 1 .. Len(file)
           /\ \A i \in 1 .. Len(file) : file[i] \in BOOLEAN
           /\ config.invert \in BOOLEAN /\ config.fast \in BOOLEAN /\ config.passThru \in BOOLEAN
           /\ config.whole \in BOOLEAN /\ config.before \in Nat /\ config.after \in Nat
           /\ config.passThru => config.before = 0 /\ config.after = 0
           /\ config.maxCount \in Nat \/ config.maxCount = NoLimit
           /\ LimitAtStart <=> config.maxCount = 0
           /\ Selected \in SUBSET (1 .. Len(file)) /\ Chosen \in SUBSET Selected
           /\ Chosen \in SUBSET (1 .. Len(file)) /\ Matches \in SUBSET (1 .. Len(file))
           /\ Reported \in SUBSET (1 .. Len(file))
  <1>1. Len(file) \in Nat /\ DOMAIN file = 1 .. Len(file) /\ \A i \in 1 .. Len(file) : file[i] \in BOOLEAN
    BY DEF Given
  <1>2. /\ config.invert \in BOOLEAN /\ config.fast \in BOOLEAN /\ config.passThru \in BOOLEAN
        /\ config.whole \in BOOLEAN /\ config.before \in Nat /\ config.after \in Nat
        /\ config.passThru => config.before = 0 /\ config.after = 0
        /\ config.maxCount \in Nat \/ config.maxCount = NoLimit
    BY BoundsAssumption DEF Given, Configs
  <1>3. LimitAtStart <=> config.maxCount = 0
    BY <1>2, NoLimitAssumption DEF LimitAtStart, Limited
  <1>4. /\ Selected \in SUBSET (1 .. Len(file)) /\ Chosen \in SUBSET Selected
        /\ Matches \in SUBSET (1 .. Len(file)) /\ Reported \in SUBSET (1 .. Len(file))
    BY DEF Selected, Chosen, Matches, Reported
  <1> QED
    BY <1>1, <1>2, <1>3, <1>4

\* -m keeps all or as many lines as it says, up to every line.
LEMMA ChosenUpTo ==
    ASSUME Given, config.maxCount \in Nat, NEW n \in 0 .. Len(file)
    PROVE  Cardinality(UpTo(Chosen, n)) =
              IF Cardinality(UpTo(Selected, n)) <= config.maxCount
              THEN Cardinality(UpTo(Selected, n)) ELSE config.maxCount
  <1> DEFINE Right(k) == Cardinality(UpTo(Chosen, k)) =
              IF Cardinality(UpTo(Selected, k)) <= config.maxCount
              THEN Cardinality(UpTo(Selected, k)) ELSE config.maxCount
             Wrong == {k \in Nat : k <= Len(file) /\ ~Right(k)}
  <1>1. /\ Len(file) \in Nat /\ Selected \in SUBSET (1 .. Len(file)) /\ Chosen \in SUBSET (1 .. Len(file))
    BY InputsAre
  <1>2. ASSUME NEW k \in Wrong, \A j \in Wrong : k <= j
        PROVE  FALSE
    <2>1. CASE k = 0
      <3>0. \A j \in 1 .. Len(file) : ~(j <= k)
        BY <1>1, <2>1
      <3>1. UpTo(Chosen, k) = {} /\ UpTo(Selected, k) = {}
        BY <1>1, <3>0 DEF UpTo
      <3>2. Cardinality({}) = 0
        BY FS_EmptySet
      <3>3. 0 <= config.maxCount
        OBVIOUS
      <3>4. Right(k)
        BY <3>1, <3>2, <3>3
      <3> QED
        BY <1>2, <3>4
    <2>2. CASE k # 0
      <3>1. k \in Nat /\ k - 1 \in Nat /\ k - 1 < k /\ k <= Len(file)
        BY <1>2, <2>2
      <3>2. Right(k - 1)
        <4>1. k - 1 \notin Wrong
          BY <1>2, <3>1
        <4> QED
          BY <1>1, <3>1, <4>1
      <3>e. \A S \in SUBSET (1 .. Len(file)) : \A j \in S : j <= k - 1 \/ j >= k
        BY <1>1, <3>1
      <3>3. Cardinality(UpTo(Selected, k)) =
              Cardinality(UpTo(Selected, k - 1)) + IF k \in Selected THEN 1 ELSE 0
        BY <1>1, <3>1, <3>e, CountNext
      <3>4. Cardinality(UpTo(Chosen, k)) = Cardinality(UpTo(Chosen, k - 1)) + IF k \in Chosen THEN 1 ELSE 0
        BY <1>1, <3>1, <3>e, CountNext
      <3>5. k \in Chosen <=> k \in Selected /\ Cardinality(UpTo(Selected, k)) <= config.maxCount
        BY NoLimitAssumption DEF Chosen, UpTo
      <3>6. Cardinality(UpTo(Selected, k - 1)) \in Nat
        BY <1>1, <3>1, CountTo
      <3>7. Right(k)
        <4>1. PICK s \in Nat : s = Cardinality(UpTo(Selected, k - 1))
          BY <3>6
        <4>2. PICK l \in Nat : l = config.maxCount
          OBVIOUS
        <4>3. Cardinality(UpTo(Chosen, k - 1)) = IF s <= l THEN s ELSE l
          BY <3>2, <4>1, <4>2
        <4>4. Cardinality(UpTo(Selected, k)) = s + IF k \in Selected THEN 1 ELSE 0
          BY <3>3, <4>1
        <4>5. CASE k \in Selected
          BY <3>4, <3>5, <4>2, <4>3, <4>4, <4>5
        <4>6. CASE k \notin Selected
          BY <3>4, <3>5, <4>2, <4>3, <4>4, <4>6
        <4> QED
          BY <4>5, <4>6
      <3> QED
        BY <1>2, <3>7
    <2> QED
      BY <2>1, <2>2
  <1>3. Wrong = {}
    <2>1. SUFFICES ASSUME Wrong # {} PROVE FALSE
      OBVIOUS
    <2>2. Wrong \in SUBSET Nat
      OBVIOUS
    <2>3. PICK k \in Wrong : \A j \in Wrong : k <= j
      <3> HIDE DEF Wrong
      <3> QED
        BY <2>1, <2>2, LeastExists
    <2> QED
      BY <1>2, <2>3
  <1>4. n \in Nat /\ n <= Len(file)
    BY <1>1
  <1> QED
    BY <1>3, <1>4

\* Whether a line is chosen depends on the ones chosen before it.
LEMMA ChosenNext ==
    ASSUME Given, NEW i \in 1 .. Len(file)
    PROVE  i \in Chosen <=> i \in Selected /\ ~Limited(Cardinality(UpTo(Chosen, i - 1)))
  <1>1. /\ Len(file) \in Nat /\ Selected \in SUBSET (1 .. Len(file))
        /\ config.maxCount \in Nat \/ config.maxCount = NoLimit
    BY InputsAre
  <1>2. CASE config.maxCount = NoLimit
    BY <1>2 DEF Chosen, Limited
  <1>3. CASE config.maxCount \in Nat
    <2>1. i - 1 \in 0 .. Len(file) /\ i - 1 \in Nat /\ i \in Nat /\ i - 1 < i
      BY <1>1
    <2>2. PICK s : s = Cardinality(UpTo(Selected, i - 1))
      OBVIOUS
    <2>3. s \in Nat
      BY <1>1, <2>1, <2>2, CountTo
    <2>4. Cardinality(UpTo(Chosen, i - 1)) = IF s <= config.maxCount THEN s ELSE config.maxCount
      BY <1>3, <2>1, <2>2, ChosenUpTo
    <2>5. Cardinality(UpTo(Selected, i)) = s + IF i \in Selected THEN 1 ELSE 0
      <3>1. \A j \in Selected : j <= i - 1 \/ j >= i
        BY <1>1, <2>1
      <3> QED
        BY <1>1, <2>1, <2>2, <3>1, CountNext
    <2>6. i \in Chosen <=> i \in Selected /\ Cardinality(UpTo(Selected, i)) <= config.maxCount
      BY <1>3, NoLimitAssumption DEF Chosen, UpTo
    <2>7. Limited(Cardinality(UpTo(Chosen, i - 1))) <=> s >= config.maxCount
      BY <1>3, <2>3, <2>4, NoLimitAssumption DEF Limited
    <2> QED
      BY <1>3, <2>3, <2>5, <2>6, <2>7
  <1> QED
    BY <1>1, <1>2, <1>3

\* Once the limit is reached, none is chosen any more.
LEMMA NoneChosen ==
    ASSUME Given, NEW n \in Nat, Limited(Cardinality(UpTo(Chosen, n)))
    PROVE  LimitHit /\ \A m \in Chosen : m <= n
  <1>1. /\ Len(file) \in Nat /\ Chosen \in SUBSET (1 .. Len(file)) /\ Selected \in SUBSET (1 .. Len(file))
        /\ config.maxCount \in Nat
    BY InputsAre DEF Limited
  <1>2. Cardinality(Chosen) <= config.maxCount
    <2>1. Len(file) \in 0 .. Len(file)
      BY <1>1
    <2>2. UpTo(Chosen, Len(file)) = Chosen
      <3>1. \A j \in Chosen : j <= Len(file)
        BY <1>1
      <3> QED
        BY <3>1, Zenon DEF UpTo
    <2>3. Cardinality(UpTo(Selected, Len(file))) \in Nat
      BY <1>1, CountTo
    <2> QED
      BY <1>1, <2>1, <2>2, <2>3, ChosenUpTo
  <1>3. Cardinality(UpTo(Chosen, n)) \in Nat /\ Cardinality(Chosen) \in Nat
        /\ Cardinality(UpTo(Chosen, n)) <= Cardinality(Chosen) /\ IsFiniteSet(UpTo(Chosen, n)) /\ IsFiniteSet(Chosen)
    BY <1>1, CountTo, ZenonT(30) DEF UpTo
  <1>4. Cardinality(UpTo(Chosen, n)) >= config.maxCount
    BY DEF Limited
  <1>5. ASSUME NEW m \in Chosen, m > n PROVE FALSE
    <2>1. m \notin UpTo(Chosen, n) /\ UpTo(Chosen, n) \cup {m} \in SUBSET Chosen
      BY <1>1, <1>5 DEF UpTo
    <2>2. Cardinality(UpTo(Chosen, n) \cup {m}) = Cardinality(UpTo(Chosen, n)) + 1
      BY <1>3, <2>1, FS_AddElement
    <2>3. Cardinality(UpTo(Chosen, n) \cup {m}) <= Cardinality(Chosen)
      BY <1>3, <2>1, FS_Subset
    <2> QED
      BY <1>1, <1>2, <1>3, <1>4, <2>2, <2>3
  <1>6. \A m \in Chosen : m <= n
    BY <1>1, <1>5
  <1> QED
    BY <1>1, <1>2, <1>3, <1>4, <1>6 DEF LimitHit

LEMMA MatchesAre ==
    ASSUME Given, NEW i \in 1 .. Len(file)
    PROVE  /\ i \in Matches <=> i \in Chosen \/ (/\ config.passThru /\ config.maxCount # 0
                                                 /\ config.invert /\ Ended(i))
           /\ i \notin Matches /\ config.passThru => Report(i) = IF LimitAtStart THEN "none" ELSE "before"
           /\ i \notin Matches /\ ~config.passThru =>
                 Report(i) = IF \E m \in Chosen : m < i /\ i <= m + config.after THEN "after"
                             ELSE IF \E m \in Chosen : i < m /\ m <= i + config.before THEN "before"
                             ELSE "none"
           /\ i \in Matches => Report(i) = "match"
           /\ i \in Reported <=> Report(i) # "none"
  <1>1. CASE i \in Chosen
    BY <1>1 DEF Report, Matches, Reported
  <1>2. CASE i \notin Chosen /\ config.passThru
    <2>1. LimitAtStart <=> config.maxCount = 0
      BY InputsAre
    <2>2. Report(i) = IF config.maxCount = 0 THEN "none"
                      ELSE IF config.invert /\ Ended(i) THEN "match" ELSE "before"
      BY <1>2 DEF Report
    <2> QED
      BY <1>2, <2>1, <2>2 DEF Matches, Reported
  <1>3. CASE i \notin Chosen /\ ~config.passThru
    BY <1>3 DEF Report, Matches, Reported
  <1> QED
    BY <1>1, <1>2, <1>3

LEMMA LimitedAlike ==
    ASSUME Given, NEW n \in Nat
    PROVE  Limited(Cardinality(UpTo(Matches, n))) <=> Limited(Cardinality(UpTo(Chosen, n)))
  <1>1. /\ Len(file) \in Nat /\ Chosen \in SUBSET (1 .. Len(file)) /\ Matches \in SUBSET (1 .. Len(file))
        /\ config.maxCount \in Nat \/ config.maxCount = NoLimit
    BY InputsAre
  <1>2. UpTo(Chosen, n) \in SUBSET UpTo(Matches, n)
    <2>1. \A m \in Chosen : m \in Matches
      BY <1>1, MatchesAre
    <2> QED
      BY <2>1 DEF UpTo
  <1>3. /\ IsFiniteSet(UpTo(Matches, n)) /\ Cardinality(UpTo(Matches, n)) \in Nat
        /\ Cardinality(UpTo(Chosen, n)) \in Nat
    BY <1>1, CountTo 
  <1>4. Cardinality(UpTo(Chosen, n)) <= Cardinality(UpTo(Matches, n))
    BY <1>2, <1>3, FS_Subset
  <1>5. ASSUME ~Limited(Cardinality(UpTo(Chosen, n))) PROVE UpTo(Matches, n) = UpTo(Chosen, n)
    <2>1. SUFFICES ASSUME NEW i \in UpTo(Matches, n), i \notin Chosen PROVE FALSE
      BY <1>2 DEF UpTo
    <2>2. i \in 1 .. Len(file) /\ i \in Matches /\ i <= n
      BY <1>1, <2>1 DEF UpTo
    <2>3. Ended(i)
      BY <2>1, <2>2, MatchesAre
    <2>4. UpTo(Chosen, n) = Chosen
      <3>1. \A m \in Chosen : m <= n
        BY <1>1, <2>2, <2>3 DEF Ended
      <3> QED
        BY <3>1 DEF UpTo
    <2>5. Cardinality(Chosen) = config.maxCount /\ Cardinality(Chosen) \in Nat
      BY <1>3, <2>3, <2>4 DEF Ended, LimitHit
    <2> QED
      BY <1>5, <2>4, <2>5, NoLimitAssumption DEF Limited
  <1>6. Limited(Cardinality(UpTo(Chosen, n))) => Limited(Cardinality(UpTo(Matches, n)))
    BY <1>1, <1>3, <1>4 DEF Limited
  <1> QED
    BY <1>5, <1>6

\* A line is reported as a match exactly when the scan, which knows the limit only, takes it for one.
LEMMA MatchNext ==
    ASSUME Given, NEW i \in 1 .. Len(file), NEW n \in Nat, n <= i - 1, \A m \in Matches : m <= n \/ m >= i
    PROVE  /\ i \in Matches <=> IF config.passThru /\ Limited(Cardinality(UpTo(Matches, n)))
                                THEN config.invert /\ ~LimitAtStart
                                ELSE i \in Selected /\ ~Limited(Cardinality(UpTo(Matches, n)))
           /\ Limited(Cardinality(UpTo(Matches, n))) => \A m \in Chosen : m <= n
           /\ i \in Matches => ~LimitAtStart /\ (~config.passThru => i \in Chosen)
  <1>1. /\ Len(file) \in Nat /\ Chosen \in SUBSET (1 .. Len(file)) /\ Matches \in SUBSET (1 .. Len(file))
        /\ LimitAtStart <=> config.maxCount = 0
        /\ i \in Nat /\ i - 1 \in Nat
    BY InputsAre
  <1>2. \A m \in Chosen : m \in Matches
    BY <1>1, MatchesAre
  <1>3. UpTo(Chosen, i - 1) = UpTo(Chosen, n)
    <2>1. \A m \in Chosen : m <= i - 1 <=> m <= n
      BY <1>1, <1>2
    <2> QED
      BY <2>1, Zenon DEF UpTo
  <1>4. Limited(Cardinality(UpTo(Matches, n))) <=> Limited(Cardinality(UpTo(Chosen, n)))
    BY LimitedAlike
  <1>5. i \in Matches <=> i \in Chosen \/ (config.passThru /\ config.maxCount # 0 /\ config.invert /\ Ended(i))
    BY MatchesAre
  <1>6. i \in Chosen <=> i \in Selected /\ ~Limited(Cardinality(UpTo(Chosen, n)))
    BY <1>3, ChosenNext
  <1>7. CASE Limited(Cardinality(UpTo(Chosen, n)))
    <2>1. LimitHit /\ \A m \in Chosen : m <= n
      BY <1>7, NoneChosen
    <2>2. Ended(i)
      BY <1>1, <2>1 DEF Ended
    <2> QED
      BY <1>1, <1>4, <1>5, <1>6, <1>7, <2>1, <2>2
  <1>8. CASE ~Limited(Cardinality(UpTo(Chosen, n)))
    <2>1. ASSUME Ended(i), i \notin Chosen PROVE FALSE
      <3>1. UpTo(Chosen, i - 1) = Chosen
        <4>1. \A m \in Chosen : m <= i - 1
          BY <1>1, <2>1 DEF Ended
        <4> QED
          BY <4>1, Zenon DEF UpTo
      <3>2. Cardinality(Chosen) = config.maxCount /\ Cardinality(Chosen) \in Nat
        BY <1>1, <2>1, CountTo DEF Ended, LimitHit
      <3> QED
        BY <1>3, <1>8, <3>1, <3>2, NoLimitAssumption DEF Limited
    <2>2. ~LimitAtStart
      <3>1. Cardinality(UpTo(Chosen, n)) \in Nat
        BY <1>1, CountTo
      <3>2. LimitAtStart => config.maxCount = 0 /\ config.maxCount # NoLimit
        BY <1>1, NoLimitAssumption
      <3> QED
        BY <1>8, <3>1, <3>2 DEF Limited
    <2> QED
      BY <1>4, <1>5, <1>6, <1>8, <2>1, <2>2
  <1> QED
    BY <1>7, <1>8

\* A line far from every match is not reported.
LEMMA Silent ==
    ASSUME Given, config.passThru => LimitAtStart, NEW i \in 1 .. Len(file), i \notin Matches,
           \A m \in Chosen : m < i => m + config.after < i,
           \A m \in Chosen : m > i => m > i + config.before
    PROVE  i \notin Reported
  <1>1. /\ Chosen \in SUBSET (1 .. Len(file)) /\ Len(file) \in Nat /\ i \in Nat
        /\ config.after \in Nat /\ config.before \in Nat
    BY InputsAre
  <1>2. ~\E m \in Chosen : m < i /\ i <= m + config.after
    BY <1>1
  <1>3. ~\E m \in Chosen : i < m /\ m <= i + config.before
    BY <1>1
  <1> QED
    BY <1>2, <1>3, MatchesAre

\* When the last match is behind, and what it owes, nothing is left to report.
LEMMA NothingLeft ==
    ASSUME Given, NEW n \in Nat, config.passThru => LimitAtStart,
           \A m \in Matches : m <= n, \A m \in Chosen : m + config.after <= n
    PROVE  UpTo(Reported, n) = Reported /\ UpTo(Matches, n) = Matches
  <1>1. /\ Reported \in SUBSET (1 .. Len(file)) /\ Chosen \in SUBSET (1 .. Len(file))
        /\ Len(file) \in Nat /\ config.after \in Nat /\ config.before \in Nat
    BY InputsAre
  <1>2. \A m \in Chosen : m \in Matches
    BY <1>1, MatchesAre
  <1>3. ASSUME NEW i \in Reported, i > n PROVE FALSE
    <2>1. i \in 1 .. Len(file) /\ i \in Nat /\ i \notin Matches
      BY <1>1, <1>3
    <2>2. \A m \in Chosen : m < i => m + config.after < i
      BY <1>1, <1>3, <2>1
    <2>3. \A m \in Chosen : m > i => m > i + config.before
      BY <1>1, <1>2, <1>3, <2>1
    <2> QED
      BY <1>3, <2>1, <2>2, <2>3, Silent
  <1>4. \A i \in Reported : i <= n
    BY <1>1, <1>3
  <1> QED
    BY <1>4, Zenon DEF UpTo

LEMMA NoneLeft ==
    ASSUME Given, NEW n \in Nat, Limited(Cardinality(UpTo(Matches, n)))
    PROVE  /\ \A m \in Chosen : m <= n
           /\ (config.passThru => LimitAtStart) => \A m \in Matches : m <= n
  <1>1. LimitHit /\ \A m \in Chosen : m <= n
    BY LimitedAlike, NoneChosen
  <1>2. ASSUME config.passThru => LimitAtStart, NEW m \in Matches PROVE m \in Chosen
    <2>1. m \in 1 .. Len(file) /\ (LimitAtStart <=> config.maxCount = 0)
      BY InputsAre
    <2> QED
      BY <1>2, <2>1, MatchesAre
  <1> QED
    BY <1>1, <1>2

\* The limit is reached and nothing is owed.
LEMMA LimitEnds ==
    ASSUME Given, NEW n \in Nat, config.passThru => LimitAtStart, Limited(Cardinality(UpTo(Matches, n))),
           \A m \in Chosen : m <= n => m + config.after <= n
    PROVE  UpTo(Reported, n) = Reported /\ UpTo(Matches, n) = Matches
  <1>1. (\A m \in Chosen : m <= n) /\ (\A m \in Matches : m <= n)
    BY NoneLeft
  <1>2. \A m \in Chosen : m + config.after <= n
    BY <1>1
  <1> QED
    BY <1>1, <1>2, NothingLeft

\* The whole file has been scanned and nothing is owed.
LEMMA FileEnds ==
    ASSUME Types, Bounds, Reporting, Owing, Scanned = Len(file), afterContextLeft = 0 \/ Visited = Scanned
    PROVE  UpTo(Reported, Visited) = Reported /\ UpTo(Matches, Visited) = Matches
  <1>1. /\ Given /\ Len(file) \in Nat /\ Reported \in SUBSET (1 .. Len(file)) /\ Matches \in SUBSET (1 .. Len(file))
        /\ Chosen \in SUBSET (1 .. Len(file)) /\ Visited \in Nat
    BY InputsAre DEF Types, Given, Visited
  <1>2. CASE Visited = Scanned
    <2>1. \A S \in SUBSET (1 .. Len(file)) : \A i \in S : i <= Visited
      BY <1>1, <1>2
    <2>2. (\A i \in Reported : i <= Visited) /\ (\A i \in Matches : i <= Visited)
      BY <1>1, <2>1
    <2> QED
      BY <2>2, Zenon DEF UpTo
  <1>3. CASE Visited # Scanned
    <2>1. (config.passThru => LimitAtStart) /\ afterContextLeft = 0
      BY <1>3 DEF Reporting
    <2>2. \A m \in Matches : m <= Visited
      BY <1>1 DEF Reporting
    <2>3. \A m \in Chosen : m <= Visited
      BY <1>1, <2>2, MatchesAre
    <2>4. \A m \in Chosen : m + config.after <= Visited
      BY <1>1, <2>1, <2>3 DEF Owing
    <2> QED
      BY <1>1, <2>1, <2>2, <2>4, NothingLeft
  <1> QED
    BY <1>2, <1>3

-----------------------------------------------------------------------------
(* What steps have in common.                                              *)

\* The reference speaks of the inputs alone.
LEMMA SameInputs ==
    ASSUME UNCHANGED inputs
    PROVE  /\ config' = config /\ file' = file /\ Given' = Given
           /\ \A i : Report(i)' = Report(i)
           /\ Selected' = Selected /\ Chosen' = Chosen /\ Matches' = Matches /\ Reported' = Reported
           /\ \A c : Limited(c)' = Limited(c)
           /\ LimitAtStart' = LimitAtStart /\ IsFastPath' = IsFastPath /\ FastInvert' = FastInvert
  <1>1. config' = config /\ file' = file
    BY DEF inputs
  <1>2. \A c : Limited(c)' = Limited(c)
    BY <1>1 DEF Limited
  <1>3. LimitAtStart' = LimitAtStart /\ IsFastPath' = IsFastPath /\ FastInvert' = FastInvert /\ Given' = Given
    BY <1>1 DEF LimitAtStart, Limited, IsFastPath, FastInvert, Given
  <1>4. Selected' = Selected
    BY <1>1 DEF Selected
  <1>5. Chosen' = Chosen
    BY <1>1, <1>4 DEF Chosen
  <1>6. \A i : Ended(i)' = Ended(i)
    BY <1>1, <1>5 DEF Ended, LimitHit
  <1>7. \A i : Report(i)' = Report(i)
    BY <1>1, <1>5, <1>6 DEF Report
  <1>8. Matches' = Matches /\ Reported' = Reported
    BY <1>1, <1>7 DEF Matches, Reported
  <1> QED
    BY <1>1, <1>2, <1>3, <1>4, <1>5, <1>7, <1>8

LEMMA SameEvents ==
    ASSUME EventsInOrder, UNCHANGED <<inputs, events>>
    PROVE  EventsInOrder'
  <1>1. Reported' = Reported /\ events' = events /\ \A i : Report(i)' = Report(i)
    BY SameInputs
  <1> QED
    BY <1>1 DEF EventsInOrder

\* Of a search that was stopped or failed only what it told the Sink matters.
LEMMA Aborts ==
    ASSUME Types', EventsInOrder', pc' \in {"quit", "failed", "declined"}, pc' # "failed" => stopped'
    PROVE  SInv'
  <1>1. ~Live'
    BY DEF Live, InGap
  <1> QED
    BY <1>1 DEF SInv, Scanning, Ending, EventsRight

LEMMA Continues ==
    ASSUME Types', EventsInOrder', Live', stopped' = FALSE,
           Bounds', Reporting', Owing', Counting', GapFound', Control'
    PROVE  SInv'
  BY DEF SInv, Scanning, Ending, EventsRight, Live, InGap

LEMMA Concludes ==
    ASSUME Types', EventsInOrder', UNCHANGED inputs, pc' \in {"finish", "quit"},
           Len(events') = Cardinality(Reported), matchCount' = Cardinality(Matches),
           hasMatched' <=> Matches # {},
           ~matchLimitReached' => pc' = "finish" /\ (~config.whole => consumed' = Len(file))
    PROVE  SInv'
  <1>1. ~Live' /\ pc' # "done" /\ pc' # "declined"
    BY DEF Live, InGap
  <1>2. config' = config /\ file' = file /\ Reported' = Reported /\ Matches' = Matches
    BY SameInputs
  <1>3. Ending'
    BY <1>1, <1>2 DEF Ending
  <1> QED
    BY <1>1, <1>3 DEF SInv, Scanning, EventsRight

\* A line that goes to the Sink is the next one to be reported, with its kind and number.
LEMMA SinkRight ==
    ASSUME Types, Bounds, Reporting, EventsInOrder,
           NEW kind \in {"match", "before", "after"}, NEW i \in Nat, NEW answer \in Answers, NEW label \in Places,
           lastLineVisited <= i, consumed + i + 1 <= Len(file),
           \A j \in Reported : j <= Visited \/ j >= consumed + i + 1,
           Report(consumed + i + 1) = kind,
           Sink(kind, i, answer, label), UNCHANGED <<inputs, consumed>>
    PROVE  /\ EventsInOrder' /\ events' \in Seq(Event)
           /\ lineNumber' = consumed' + lastLineCounted' + 1 /\ lineNumber' \in Nat /\ lastLineCounted' = i
           /\ lastLineVisited' \in Nat /\ stopped' \in BOOLEAN /\ pc' \in Places
           /\ answer = "more" => /\ pc' = label /\ lastLineVisited' = i + 1 /\ stopped' = FALSE
                                 /\ Len(events') = Cardinality(UpTo(Reported, consumed + i + 1))
           /\ answer # "more" => pc' \in {"quit", "failed"} /\ (pc' = "quit" => stopped')
  <1>1. /\ consumed \in Nat /\ lastLineVisited \in Nat /\ lastLineCounted \in Nat /\ lineNumber \in Nat
        /\ lastLineCounted <= lastLineVisited /\ lineNumber = consumed + lastLineCounted + 1
        /\ events \in Seq(Event) /\ Visited \in Nat
    BY DEF Types, Bounds, Visited
  <1>2. lineNumber' = consumed + i + 1 /\ lastLineCounted' = i /\ consumed' = consumed
    BY <1>1 DEF Sink, CountLines, Larger
  <1>3. PICK e : e = [kind |-> kind, line |-> consumed + i + 1, number |-> consumed + i + 1]
    OBVIOUS
  <1>4. events' = Append(events, e) /\ e \in Event
    BY <1>1, <1>2, <1>3 DEF Sink, Event
  <1>5. /\ Len(events') = Len(events) + 1 /\ events' \in Seq(Event) /\ Len(events) \in Nat
        /\ events'[Len(events) + 1] = e
        /\ \A k \in 1 .. Len(events) : events'[k] = events[k]
    BY <1>1, <1>4, AppendProperties
  <1>6. /\ Given /\ Len(file) \in Nat /\ Reported \in SUBSET (1 .. Len(file))
        /\ consumed + i + 1 \in 1 .. Len(file)
    <2>1. Given
      BY DEF Types, Given
    <2> QED
      BY <1>1, <2>1, InputsAre
  <1>7. consumed + i + 1 \in Reported
    BY <1>6, MatchesAre
  <1>8. Cardinality(UpTo(Reported, consumed + i + 1)) = Len(events) + 1
    <2>1. Visited < consumed + i + 1
      BY <1>1 DEF Visited
    <2>2. PICK l \in Nat : l = consumed + i + 1
      BY <1>1
    <2>e. \A j \in Reported : j <= Visited \/ j >= l
      BY <2>2
    <2>3. PICK v \in Nat : v = Visited
      BY <1>1
    <2>4. v < l /\ \A j \in Reported : j <= v \/ j >= l
      BY <2>1, <2>2, <2>3, <2>e
    <2>5. Cardinality(UpTo(Reported, l)) = Cardinality(UpTo(Reported, v)) + IF l \in Reported THEN 1 ELSE 0
      BY <1>6, <2>4, CountNext
    <2> QED
      BY <1>7, <2>2, <2>3, <2>5 DEF Reporting
  <1>9. EventsInOrder'
    <2>1. Reported' = Reported /\ \A j : Report(j)' = Report(j)
      BY SameInputs
    <2>2. ASSUME NEW k \in 1 .. Len(events')
          PROVE  /\ events'[k].line \in Reported
                 /\ Cardinality(UpTo(Reported, events'[k].line)) = k
                 /\ events'[k].kind = Report(events'[k].line)
                 /\ events'[k].number = events'[k].line
      <3>1. CASE k = Len(events) + 1
        <4>1. events'[k] = e
          BY <1>5, <3>1
        <4> QED
          BY <1>3, <1>7, <1>8, <3>1, <4>1
      <3>2. CASE k # Len(events) + 1
        <4>1. k \in 1 .. Len(events) /\ events'[k] = events[k]
          BY <1>5, <2>2, <3>2
        <4> QED
          BY <4>1 DEF EventsInOrder, UpTo
      <3> QED
        BY <3>1, <3>2
    <2> QED
      BY <2>1, <2>2 DEF EventsInOrder, UpTo
  <1>10. /\ lastLineVisited' = IF answer = "more" THEN i + 1 ELSE lastLineVisited
         /\ stopped' = (answer = "stop")
    BY DEF Sink
  <1>11. /\ answer = "more" => pc' = label
         /\ answer = "stop" => pc' = "quit"
         /\ answer = "error" => pc' = "failed"
    BY DEF Sink
  <1>12. answer \in {"more", "stop", "error"}
    BY DEF Answers
  <1>13. stopped' \in BOOLEAN /\ (answer = "more" => stopped' = FALSE)
    BY <1>10
  <1>14. lineNumber' \in Nat /\ lastLineVisited' \in Nat /\ lineNumber' = consumed' + lastLineCounted' + 1
    BY <1>1, <1>2, <1>10
  <1>15. pc' \in Places
    BY <1>11, <1>12 DEF Places
  <1>16. answer # "more" => pc' \in {"quit", "failed"} /\ (pc' = "quit" => stopped')
    <2>1. CASE answer = "stop"
      BY <1>10, <1>11, <2>1
    <2>2. CASE answer = "error"
      BY <1>11, <2>2
    <2> QED
      BY <1>12, <2>1, <2>2
  <1> QED
    BY <1>2, <1>5, <1>8, <1>9, <1>10, <1>11, <1>13, <1>14, <1>15, <1>16

-----------------------------------------------------------------------------
(* One step, by what it does to what is known.                             *)

LEMMA Facts ==
    ASSUME SInv, Live
    PROVE  /\ Types /\ Given /\ stopped = FALSE /\ EventsInOrder
           /\ Bounds /\ Reporting /\ Owing /\ Counting /\ GapFound /\ Control
           /\ Visited \in Nat /\ Scanned \in Nat /\ Len(file) \in Nat
  <1>1. Types /\ ~stopped /\ Bounds /\ Reporting /\ Owing /\ Counting /\ GapFound /\ Control /\ EventsInOrder
    BY DEF SInv, Scanning, EventsRight
  <1>2. Given /\ Visited \in Nat /\ stopped = FALSE
    BY <1>1 DEF Types, Given, Visited
  <1>3. Scanned \in Nat
    <2>1. consumed \in Nat /\ pos \in Nat /\ window \in Nat /\ gap.from \in Nat
      BY <1>1 DEF Types
    <2> QED
      BY <2>1 DEF Scanned
  <1>4. Len(file) \in Nat
    BY <1>2, InputsAre
  <1> QED
    BY <1>1, <1>2, <1>3, <1>4

\* The scan goes on: v lines are told, s lines are looked at.
LEMMA Resumes ==
    ASSUME UNCHANGED inputs, Types', EventsInOrder', Live', stopped' = FALSE,
           Bounds', GapFound', Control',
           NEW v \in Nat, v = Visited', NEW s \in Nat, s = Scanned',
           Len(events') = Cardinality(UpTo(Reported, v)),
           \A m \in Matches : m <= v \/ m > s,
           config.passThru /\ ~LimitAtStart => v = s,
           \A m \in Chosen : m <= v => m + config.after <= v + afterContextLeft',
           afterContextLeft' > 0 =>
              \E m \in Chosen : m <= v /\ m + config.after = v + afterContextLeft',
           afterContextLeft' > 0 /\ ~IsFastPath => v = s,
           matchLimitReached' <=> Limited(Cardinality(UpTo(Matches, v))),
           matchCount' = Cardinality(UpTo(Matches, v)) + IF InGap' /\ ~FastInvert THEN 1 ELSE 0,
           hasMatched' <=> InGap' \/ UpTo(Matches, v) # {}
    PROVE  SInv'
  <1>1. /\ config' = config /\ Chosen' = Chosen /\ Matches' = Matches /\ Reported' = Reported
        /\ \A c : Limited(c)' = Limited(c)
        /\ LimitAtStart' = LimitAtStart /\ IsFastPath' = IsFastPath /\ FastInvert' = FastInvert
    BY SameInputs
  <1>2. UpTo(Reported, Visited)' = UpTo(Reported, v) /\ UpTo(Matches, Visited)' = UpTo(Matches, v)
    BY <1>1 DEF UpTo
  <1>3. Limited(Cardinality(UpTo(Matches, Visited)))' <=> Limited(Cardinality(UpTo(Matches, v)))
    BY <1>1, <1>2 DEF Limited
  <1>4. Reporting'
    BY <1>1, <1>2 DEF Reporting
  <1>5. Owing'
    BY <1>1 DEF Owing
  <1>6. Counting'
    BY <1>1, <1>2, <1>3 DEF Counting
  <1> QED
    BY <1>4, <1>5, <1>6, Continues

\* Without a word to the Sink; the lines up to v are not reported, those up to s do not match.
LEMMA Quietly ==
    ASSUME SInv, Live, UNCHANGED <<inputs, afterContextLeft, matchLimitReached, events, stopped>>,
           Types', Live', Bounds', GapFound', Control',
           NEW v \in Nat, v = Visited', NEW s \in Nat, s = Scanned',
           Visited <= v, v = Visited \/ afterContextLeft = 0,
           \A m \in Reported : m <= Visited \/ m > v,
           \A m \in Matches : m <= Visited \/ m > s,
           config.passThru /\ ~LimitAtStart => v = s,
           afterContextLeft > 0 /\ ~IsFastPath => v = s,
           matchCount' = Cardinality(UpTo(Matches, Visited)) + IF InGap' /\ ~FastInvert THEN 1 ELSE 0,
           hasMatched' <=> InGap' \/ UpTo(Matches, Visited) # {}
    PROVE  SInv'
  <1>1. /\ Types /\ Given /\ stopped = FALSE /\ EventsInOrder /\ Reporting /\ Owing /\ Counting
        /\ Visited \in Nat /\ Len(file) \in Nat /\ afterContextLeft \in Nat /\ config.after \in Nat
        /\ Chosen \in SUBSET (1 .. Len(file)) /\ Matches \in SUBSET (1 .. Len(file))
        /\ Reported \in SUBSET (1 .. Len(file))
    BY Facts, InputsAre DEF Types
  <1>2. PICK n \in Nat : n = Visited
    BY <1>1
  <1>3. v <= s
    BY DEF Bounds
  <1>4. UpTo(Reported, v) = UpTo(Reported, n)
    <2>1. n <= v /\ \A m \in Reported : m <= n \/ m > v
      BY <1>2
    <2> QED
      BY <1>1, <2>1, CountSame, ZenonT(30)
  <1>5. n <= v /\ \A m \in Matches : m \in Nat /\ (m <= n \/ m > v)
    BY <1>1, <1>2, <1>3
  <1>6. UpTo(Matches, v) = UpTo(Matches, n)
    BY <1>1, <1>5, CountSame, ZenonT(30)
  <1>7. \A m \in Chosen : m \in Nat /\ (m <= v => m <= n)
    BY <1>1, <1>5, MatchesAre
  <1>8. Len(events') = Cardinality(UpTo(Reported, v))
    BY <1>1, <1>2, <1>4 DEF Reporting
  <1>9. \A m \in Matches : m <= v \/ m > s
    BY <1>1, <1>2
  <1>10. \A m \in Chosen : m <= v => m + config.after <= v + afterContextLeft'
    BY <1>1, <1>2, <1>7 DEF Owing
  <1>11. afterContextLeft' > 0 => \E m \in Chosen : m <= v /\ m + config.after = v + afterContextLeft'
    BY <1>1 DEF Owing
  <1>12. matchLimitReached' <=> Limited(Cardinality(UpTo(Matches, v)))
    BY <1>1, <1>2, <1>6 DEF Counting
  <1>13. EventsInOrder' /\ stopped' = FALSE
    BY <1>1, SameEvents
  <1>14. afterContextLeft' > 0 /\ ~IsFastPath => v = s
    OBVIOUS
  <1>15. /\ matchCount' = Cardinality(UpTo(Matches, v)) + IF InGap' /\ ~FastInvert THEN 1 ELSE 0
         /\ hasMatched' <=> InGap' \/ UpTo(Matches, v) # {}
    BY <1>2, <1>6
  <1> QED
    BY <1>8, <1>9, <1>10, <1>11, <1>12, <1>13, <1>14, <1>15, Resumes

\* A line goes to the Sink and is visited, or the search ends.
LEMMA Tells ==
    ASSUME SInv, Live, UNCHANGED <<inputs, consumed>>,
           NEW kind \in {"match", "before", "after"}, NEW i \in Nat, NEW answer \in Answers, NEW label \in Places,
           Sink(kind, i, answer, label),
           lastLineVisited <= i, consumed + i + 1 <= Len(file),
           \A m \in Reported : m <= Visited \/ m >= consumed + i + 1,
           \A m \in Matches : m <= Visited \/ m >= consumed + i + 1,
           Report(consumed + i + 1) = kind
    PROVE  /\ EventsInOrder' /\ events' \in Seq(Event)
           /\ lineNumber' = consumed' + lastLineCounted' + 1 /\ lineNumber' \in Nat /\ lastLineCounted' = i
           /\ lastLineVisited' \in Nat /\ stopped' \in BOOLEAN /\ pc' \in Places
           /\ answer # "more" => pc' \in {"quit", "failed"} /\ (pc' = "quit" => stopped')
           /\ answer = "more" => pc' = label /\ lastLineVisited' = i + 1 /\ stopped' = FALSE
           /\ answer = "more" => Len(events') = Cardinality(UpTo(Reported, consumed + i + 1))
           /\ Cardinality(UpTo(Matches, consumed + i + 1)) =
                 Cardinality(UpTo(Matches, Visited)) + IF kind = "match" THEN 1 ELSE 0
           /\ UpTo(Matches, consumed + i + 1) # {} <=> kind = "match" \/ UpTo(Matches, Visited) # {}
           /\ \A m \in Chosen : m <= consumed + i + 1 => m <= Visited \/ (m = consumed + i + 1 /\ kind = "match")
  <1>1. /\ Types /\ Given /\ EventsInOrder /\ Bounds /\ Reporting
        /\ Visited \in Nat /\ Len(file) \in Nat /\ consumed \in Nat /\ lastLineVisited \in Nat
        /\ Chosen \in SUBSET (1 .. Len(file)) /\ Matches \in SUBSET (1 .. Len(file))
    BY Facts, InputsAre DEF Types
  <1>2. PICK n \in Nat : n = Visited
    BY <1>1
  <1>3. PICK l \in Nat : l = consumed + i + 1
    BY <1>1
  <1>4. n < l /\ l \in 1 .. Len(file) /\ \A m \in Matches : m <= n \/ m >= l
    BY <1>1, <1>2, <1>3 DEF Visited
  <1>5. l \in Matches <=> kind = "match"
    BY <1>1, <1>3, <1>4, MatchesAre DEF Matches
  <1>6. Cardinality(UpTo(Matches, l)) = Cardinality(UpTo(Matches, n)) + IF l \in Matches THEN 1 ELSE 0
    BY <1>1, <1>4, CountNext
  <1>7. UpTo(Matches, l) # {} <=> l \in Matches \/ UpTo(Matches, n) # {}
    <2>1. \A m \in Matches : m <= l <=> m <= n \/ m = l
      <3>1. \A m \in Matches : m \in Nat
        BY <1>1
      <3> QED
        BY <1>4, <3>1
    <2> QED
      BY <2>1 DEF UpTo
  <1>8. \A m \in Chosen : m <= l => m <= n \/ (m = l /\ kind = "match")
    <2>1. \A m \in Chosen : m \in Matches /\ m \in Nat
      BY <1>1, MatchesAre
    <2> QED
      BY <1>4, <1>5, <2>1
  <1>9. /\ EventsInOrder' /\ events' \in Seq(Event)
        /\ lineNumber' = consumed' + lastLineCounted' + 1 /\ lineNumber' \in Nat /\ lastLineCounted' = i
        /\ lastLineVisited' \in Nat /\ stopped' \in BOOLEAN /\ pc' \in Places
        /\ answer = "more" => /\ pc' = label /\ lastLineVisited' = i + 1 /\ stopped' = FALSE
                              /\ Len(events') = Cardinality(UpTo(Reported, consumed + i + 1))
        /\ answer # "more" => pc' \in {"quit", "failed"} /\ (pc' = "quit" => stopped')
    BY <1>1, SinkRight
  <1> QED
    BY <1>2, <1>3, <1>5, <1>6, <1>7, <1>8, <1>9

\* The search ends, without a word to the Sink, when everything is told.
LEMMA QuietEnd ==
    ASSUME SInv, Live, ~InGap, UNCHANGED <<inputs, events, matchCount, hasMatched, matchLimitReached>>,
           Types', pc' \in {"finish", "quit"},
           UpTo(Reported, Visited) = Reported, UpTo(Matches, Visited) = Matches,
           ~matchLimitReached => pc' = "finish" /\ (~config.whole => consumed' = Len(file))
    PROVE  SInv'
  <1>1. EventsInOrder /\ Reporting /\ Counting /\ matchCount \in Nat
    BY Facts DEF Types
  <1>2. EventsInOrder'
    BY <1>1, SameEvents
  <1>3. Len(events') = Cardinality(Reported)
    BY <1>1 DEF Reporting
  <1>4. Cardinality(Matches) \in Nat
    BY Facts, InputsAre, CountTo
  <1>5. matchCount' = Cardinality(Matches) /\ (hasMatched' <=> Matches # {})
    BY <1>1, <1>4 DEF Counting
  <1> QED
    BY <1>2, <1>3, <1>5, Concludes

\* What Verify says of a line of the window.
LEMMA LineAt ==
    ASSUME Types, NEW j \in Nat, consumed + j + 1 <= Len(file)
    PROVE  /\ consumed + j + 1 \in 1 .. Len(file) /\ Verify(j) \in BOOLEAN
           /\ consumed + j + 1 \in Selected <=> Verify(j) # config.invert
           /\ ~config.passThru /\ consumed + j + 1 \in Matches => Verify(j) # config.invert
  <1>1. /\ Given /\ consumed \in Nat /\ Len(file) \in Nat /\ Chosen \in SUBSET Selected
        /\ \A i \in 1 .. Len(file) : file[i] \in BOOLEAN
    <2>1. Given /\ consumed \in Nat
      BY DEF Types, Given
    <2> QED
      BY <2>1, InputsAre
  <1>2. consumed + j + 1 \in 1 .. Len(file)
    BY <1>1
  <1>3. consumed + j + 1 \in Selected <=> Verify(j) # config.invert
    BY <1>2 DEF Selected, Verify
  <1>4. ~config.passThru /\ consumed + j + 1 \in Matches => consumed + j + 1 \in Selected
    BY <1>1, <1>2, MatchesAre
  <1> QED
    BY <1>1, <1>2, <1>3, <1>4 DEF Verify

\* After-context that is owed is reported as such.
LEMMA OwedLine ==
    ASSUME SInv, Live, afterContextLeft > 0, Visited + 1 \in 1 .. Len(file), Visited + 1 \notin Matches
    PROVE  ~config.passThru /\ Report(Visited + 1) = "after"
  <1>1. /\ Given /\ Owing /\ Visited \in Nat /\ afterContextLeft \in Nat /\ Len(file) \in Nat
        /\ Chosen \in SUBSET (1 .. Len(file)) /\ config.after \in Nat
        /\ config.passThru => config.after = 0
    BY Facts, InputsAre DEF Types
  <1>2. PICK m \in Chosen : m <= Visited /\ m + config.after = Visited + afterContextLeft
    BY <1>1 DEF Owing
  <1>3. m \in Nat /\ m < Visited + 1 /\ Visited + 1 <= m + config.after /\ config.after > 0
    BY <1>1, <1>2
  <1>4. ~config.passThru
    BY <1>1, <1>3
  <1>5. \E k \in Chosen : k < Visited + 1 /\ Visited + 1 <= k + config.after
    BY <1>2, <1>3
  <1> QED
    BY <1>1, <1>4, <1>5, MatchesAre

-----------------------------------------------------------------------------
(* The steps of the scan.                                                  *)

LEMMA InitInv == Init => SInv
  <1> SUFFICES ASSUME Init PROVE SInv
    OBVIOUS
  <1>1. config \in Configs /\ file \in Seq(BOOLEAN)
    BY BoundsAssumption DEF Init
  <1>2. Given /\ Len(file) \in Nat /\ config.whole \in BOOLEAN
    BY <1>1, InputsAre DEF Given
  <1>l. matchLimitReached \in BOOLEAN /\ (matchLimitReached <=> Limited(0))
    BY Zenon DEF Init, LimitAtStart, Limited
  <1>3. Types
    <2>1. events \in Seq(Event)
      BY DEF Init
    <2>2. gap \in [from : Nat, to : Nat]
      BY DEF Init, NoGap
    <2>3. /\ consumed \in Nat /\ window \in Nat /\ pos \in Nat
          /\ lineNumber \in Nat /\ lastLineCounted \in Nat /\ lastLineVisited \in Nat
          /\ afterContextLeft \in Nat /\ matchCount \in Nat
      BY <1>2 DEF Init
    <2>4. hasMatched \in BOOLEAN /\ stopped \in BOOLEAN /\ pc \in Places
      BY DEF Init, Places
    <2> QED
      BY <1>1, <1>l, <2>1, <2>2, <2>3, <2>4 DEF Types
  <1>4. pc = "begin" /\ ~InGap /\ Live
    BY DEF Init, Live, InGap
  <1>5. Visited = 0 /\ Scanned = 0
    BY <1>4 DEF Init, Visited, Scanned
  <1>6. /\ Chosen \in SUBSET (1 .. Len(file)) /\ Matches \in SUBSET (1 .. Len(file))
        /\ Reported \in SUBSET (1 .. Len(file))
    BY <1>2, InputsAre
  <1>7. \A S \in SUBSET (1 .. Len(file)) : UpTo(S, 0) = {}
    <2>1. \A j \in 1 .. Len(file) : ~(j <= 0)
      BY <1>2
    <2> QED
      BY <2>1 DEF UpTo
  <1>8. Cardinality({}) = 0
    BY FS_EmptySet
  <1>9. UpTo(Reported, 0) = {} /\ UpTo(Matches, 0) = {}
    BY <1>6, <1>7
  <1>10. /\ \A m \in Chosen : ~(m <= 0)
         /\ \A m \in Matches : m > 0
    BY <1>2, <1>6
  <1>11. Bounds
    BY <1>2, <1>5 DEF Init, Bounds
  <1>12. Reporting
    BY <1>5, <1>8, <1>9, <1>10 DEF Init, Reporting
  <1>13. Owing
    BY <1>5, <1>10 DEF Init, Owing
  <1>14. Counting
    <2>1. matchLimitReached <=> Limited(Cardinality(UpTo(Matches, Visited)))
      BY <1>l, <1>5, <1>8, <1>9, Zenon
    <2>2. Cardinality(UpTo(Matches, Visited)) = 0 /\ UpTo(Matches, Visited) = {}
      BY <1>5, <1>8, <1>9
    <2> QED
      BY <1>4, <2>1, <2>2 DEF Init, Counting
  <1>15. GapFound /\ Control
    BY <1>4 DEF Init, GapFound, Control
  <1>16. EventsInOrder
    BY DEF Init, EventsInOrder
  <1> QED
    BY <1>3, <1>4, <1>11, <1>12, <1>13, <1>14, <1>15, <1>16
    DEF Init, SInv, Scanning, Ending, EventsRight

LEMMA SlowEndInv == ASSUME SInv, SlowEnd PROVE SInv'
  <1>1. /\ pc = "scan" /\ ~IsFastPath /\ pos >= window
        /\ UNCHANGED <<inputs, lines, pos, marks, output, afterContextLeft, counters, gap, stats>>
        /\ pc' = IF config.whole THEN "finish" ELSE "fill"
    BY DEF SlowEnd, NothingSunk, EndOfWindow
  <1>2. Live /\ ~InGap
    BY <1>1 DEF Live, InGap
  <1>3. /\ Types /\ Given /\ Bounds /\ Reporting /\ Owing /\ Counting /\ Control
        /\ Visited \in Nat /\ Scanned \in Nat /\ consumed \in Nat /\ window \in Nat /\ pos \in Nat
        /\ Len(file) \in Nat
    BY <1>2, Facts DEF Types
  <1>4. pos = window /\ Scanned = consumed + window
    BY <1>1, <1>2, <1>3 DEF Bounds, Scanned
  <1>5. Types'
    BY <1>1, <1>3 DEF Types, Places, inputs, lines, marks, output, counters
  <1>6. afterContextLeft = 0 \/ Visited = Scanned
    BY <1>1, <1>3 DEF Owing, Types
  <1>7. CASE config.whole
    <2>1. Scanned = Len(file)
      BY <1>3, <1>4, <1>7 DEF Bounds
    <2>2. UpTo(Reported, Visited) = Reported /\ UpTo(Matches, Visited) = Matches
      BY <1>3, <1>6, <2>1, FileEnds
    <2> QED
      BY <1>1, <1>2, <1>5, <1>7, <2>2, QuietEnd DEF output, counters
  <1>8. CASE ~config.whole
    <2>1. pc' = "fill"
      BY <1>1, <1>8
    <2>2. Live' /\ ~InGap'
      BY <2>1 DEF Live, InGap
    <2>3. Visited' = Visited /\ Scanned' = Scanned
      BY <1>1, <1>2, <2>1, <2>2 DEF Visited, Scanned, lines, marks
    <2>4. Bounds'
      BY <1>1, <1>3, <2>3 DEF Bounds, lines, marks, inputs
    <2>5. GapFound'
      BY <2>2 DEF GapFound
    <2>6. Control'
      BY <1>1, <1>4, <1>6, <1>8, <2>1, <2>3 DEF Control, lines, inputs
    <2>7. /\ matchCount' = Cardinality(UpTo(Matches, Visited)) + IF InGap' /\ ~FastInvert THEN 1 ELSE 0
          /\ hasMatched' <=> InGap' \/ UpTo(Matches, Visited) # {}
      BY <1>1, <1>2, <1>3, <2>2 DEF Counting, counters
    <2>8. /\ \A m \in Reported : m <= Visited \/ m > Visited
          /\ \A m \in Matches : m <= Visited \/ m > Scanned
          /\ config.passThru /\ ~LimitAtStart => Visited = Scanned
          /\ afterContextLeft > 0 /\ ~IsFastPath => Visited = Scanned
      <3>1. Reported \in SUBSET (1 .. Len(file))
        BY <1>3, InputsAre
      <3> QED
        BY <1>3, <3>1 DEF Reporting, Owing
    <2>9. UNCHANGED <<inputs, afterContextLeft, matchLimitReached, events, stopped>>
      BY <1>1 DEF counters, output
    <2> QED
      BY <1>2, <1>3, <1>5, <2>2, <2>3, <2>4, <2>5, <2>6, <2>7, <2>8, <2>9, Quietly
  <1> QED
    BY <1>7, <1>8

LEMMA BeginInv == ASSUME SInv, Begin PROVE SInv'
  <1>1. /\ pc = "begin"
        /\ UNCHANGED <<inputs, lines, pos, marks, afterContextLeft, counters, gap, events, stats>>
    BY DEF Begin
  <1>2. Live /\ ~InGap
    BY <1>1 DEF Live, InGap
  <1>3. /\ Types /\ Given /\ stopped = FALSE /\ EventsInOrder /\ Bounds /\ Reporting /\ Owing /\ Counting
        /\ Control /\ Visited \in Nat /\ Scanned \in Nat /\ Len(file) \in Nat /\ consumed \in Nat
        /\ Reported \in SUBSET (1 .. Len(file)) /\ config.whole \in BOOLEAN
    BY <1>2, Facts, InputsAre DEF Types
  <1>4. pos = 0 /\ afterContextLeft = 0 /\ Visited = consumed /\ Scanned = consumed
    BY <1>1, <1>2, <1>3 DEF Control, Visited, Scanned
  <1>5. ASSUME pc' \in Places, stopped' \in BOOLEAN PROVE Types'
    BY <1>1, <1>3, <1>5 DEF Types, inputs, lines, marks, counters
  <1>6. EventsInOrder'
    BY <1>1, <1>3, SameEvents
  <1>7. CASE pc' = "declined" /\ stopped' = TRUE
    BY <1>5, <1>6, <1>7, Aborts DEF Places
  <1>8. CASE pc' = "failed" /\ UNCHANGED stopped
    BY <1>3, <1>5, <1>6, <1>8, Aborts DEF Places
  <1>9. CASE pc' \in {"scan", "fill"} /\ UNCHANGED stopped /\ (pc' = "fill" => ~config.whole)
    <2>1. Types' /\ Live' /\ ~InGap' /\ pc' # "drain"
      BY <1>3, <1>5, <1>9 DEF Live, InGap, Places
    <2>2. Visited' = Visited /\ Scanned' = Scanned
      BY <1>1, <1>2, <2>1 DEF Visited, Scanned, lines, marks
    <2>3. Bounds'
      BY <1>1, <1>3, <2>2 DEF Bounds, lines, marks, inputs
    <2>4. GapFound'
      BY <2>1 DEF GapFound
    <2>5. Control'
      BY <1>1, <1>3, <1>4, <1>9, <2>1 DEF Control, lines, inputs
    <2>6. /\ matchCount' = Cardinality(UpTo(Matches, Visited)) + IF InGap' /\ ~FastInvert THEN 1 ELSE 0
          /\ hasMatched' <=> InGap' \/ UpTo(Matches, Visited) # {}
      BY <1>1, <1>2, <1>3, <2>1 DEF Counting, counters
    <2>7. /\ \A m \in Reported : m <= Visited \/ m > Visited
          /\ \A m \in Matches : m <= Visited \/ m > Scanned
      BY <1>3 DEF Reporting
    <2>8. UNCHANGED <<inputs, afterContextLeft, matchLimitReached, events, stopped>>
      BY <1>1, <1>9 DEF counters
    <2> QED
      BY <1>2, <1>3, <1>4, <2>1, <2>2, <2>3, <2>4, <2>5, <2>6, <2>7, <2>8, Quietly
  <1>10. CASE pc' = "finish" /\ config.whole /\ file = << >>
    <2>1. Scanned = Len(file)
      BY <1>3, <1>4, <1>10 DEF Bounds
    <2>2. UpTo(Reported, Visited) = Reported /\ UpTo(Matches, Visited) = Matches
      BY <1>3, <1>4, <2>1, FileEnds
    <2>3. UNCHANGED <<inputs, events, matchCount, hasMatched, matchLimitReached>>
      BY <1>1 DEF counters
    <2>4. Types'
      BY <1>3, <1>5, <1>10 DEF Places, Begin
    <2> QED
      BY <1>2, <1>10, <2>2, <2>3, <2>4, QuietEnd
  <1> QED
    BY <1>3, <1>7, <1>8, <1>9, <1>10 DEF Begin

LEMMA FinishInv == ASSUME SInv, Finish PROVE SInv'
  <1>1. /\ pc \in {"finish", "quit", "declined"} /\ pc' = "done"
        /\ stats' = [matched |-> hasMatched, matchCount |-> matchCount,
                     searched |-> IF pc = "declined" THEN 0
                                  ELSE IF config.whole THEN Len(file)
                                  ELSE IF pc = "quit" THEN consumed + pos ELSE consumed]
        /\ UNCHANGED <<inputs, lines, pos, marks, afterContextLeft, counters, gap, output>>
    BY DEF Finish
  <1>2. Types /\ Given /\ Ending /\ EventsInOrder
    BY DEF SInv, EventsRight, Types, Given
  <1>3. Types'
    BY <1>1, <1>2 DEF Types, Places, inputs, lines, marks, counters, output
  <1>4. EventsInOrder'
    BY <1>1, <1>2, SameEvents DEF output
  <1>5. ~Live' /\ Ending'
    BY <1>1 DEF Live, InGap, Ending
  <1>6. EventsRight'
    <2>1. SUFFICES ASSUME ~stopped' PROVE /\ Len(events') = Cardinality(Reported')
                                          /\ stats'.matchCount = Cardinality(Matches')
                                          /\ stats'.matched <=> stats'.matchCount > 0
                                          /\ ~matchLimitReached' => stats'.searched = Len(file')
      BY <1>1, <1>4 DEF EventsRight
    <2>2. /\ pc \in {"finish", "quit"} /\ Len(events) = Cardinality(Reported)
          /\ matchCount = Cardinality(Matches) /\ (hasMatched <=> Matches # {})
          /\ ~matchLimitReached => pc = "finish" /\ (~config.whole => consumed = Len(file))
      BY <1>1, <1>2, <2>1 DEF Ending, output
    <2>3. Matches # {} <=> Cardinality(Matches) > 0
      <3>1. IsFiniteSet(Matches) /\ Cardinality(Matches) \in Nat
        BY <1>2, InputsAre, CountTo
      <3> QED
        BY <3>1, FS_EmptySet
    <2>4. Reported' = Reported /\ Matches' = Matches /\ config' = config /\ file' = file
      BY <1>1, SameInputs
    <2>5. UNCHANGED <<events, matchLimitReached>>
      BY <1>1 DEF output, counters
    <2>6. stats'.matchCount = matchCount /\ stats'.matched = hasMatched
      BY <1>1
    <2>7. ~matchLimitReached => stats'.searched = Len(file)
      BY <1>1, <2>2
    <2> QED
      BY <2>2, <2>3, <2>4, <2>5, <2>6, <2>7
  <1> QED
    BY <1>3, <1>5, <1>6 DEF SInv, Scanning

LEMMA StutterInv == ASSUME SInv, UNCHANGED vars PROVE SInv'
  <1>1. UNCHANGED <<inputs, lines, pos, marks, afterContextLeft, counters, pc, gap, output, stats>>
    BY DEF vars
  <1>2. Types /\ Ending /\ EventsRight /\ EventsInOrder
    BY DEF SInv, EventsRight
  <1>3. Types'
    BY <1>1, <1>2 DEF Types, inputs, lines, marks, counters, output
  <1>4. EventsInOrder'
    BY <1>1, <1>2, SameEvents DEF output
  <1>5. config' = config /\ file' = file /\ Reported' = Reported /\ Matches' = Matches
    BY <1>1, SameInputs
  <1>6. Ending'
    BY <1>1, <1>2, <1>5 DEF Ending, lines, counters, output
  <1>7. EventsRight'
    BY <1>1, <1>2, <1>4, <1>5 DEF EventsRight, counters, output
  <1>8. CASE ~Live
    <2>1. ~Live'
      BY <1>1, <1>8 DEF Live, InGap
    <2> QED
      BY <1>3, <1>6, <1>7, <2>1 DEF SInv, Scanning
  <1>9. CASE Live
    <2>1. /\ Bounds /\ Reporting /\ Owing /\ Counting /\ GapFound /\ Control /\ Visited \in Nat /\ Scanned \in Nat
          /\ Reported \in SUBSET (1 .. Len(file)) /\ Len(file) \in Nat
      BY <1>9, Facts, InputsAre
    <2>2. Live' /\ (InGap' <=> InGap) /\ pc' = pc
      BY <1>1, <1>9 DEF Live, InGap
    <2>3. Visited' = Visited /\ Scanned' = Scanned
      BY <1>1, <2>2 DEF Visited, Scanned, lines, marks
    <2>4. Bounds'
      BY <1>1, <2>1, <2>3 DEF Bounds, lines, marks, inputs
    <2>5. GapFound'
      <3>1. /\ FastInvert' = FastInvert /\ IsFastPath' = IsFastPath /\ Matches' = Matches
            /\ config' = config /\ \A j : Verify(j)' = Verify(j)
        BY <1>1, SameInputs DEF Verify, inputs, lines
      <3> QED
        BY <1>1, <2>1, <2>2, <3>1 DEF GapFound, counters, lines
    <2>6. Control'
      <3>1. IsFastPath' = IsFastPath
        BY <1>1, SameInputs
      <3> QED
        BY <1>1, <2>1, <2>2, <2>3, <3>1 DEF Control, lines, inputs, marks
    <2>7. /\ matchCount' = Cardinality(UpTo(Matches, Visited)) + IF InGap' /\ ~FastInvert THEN 1 ELSE 0
          /\ hasMatched' <=> InGap' \/ UpTo(Matches, Visited) # {}
      BY <1>1, <2>1, <2>2 DEF Counting, counters
    <2>8. /\ \A m \in Reported : m <= Visited \/ m > Visited
          /\ \A m \in Matches : m <= Visited \/ m > Scanned
          /\ config.passThru /\ ~LimitAtStart => Visited = Scanned
          /\ afterContextLeft > 0 /\ ~IsFastPath => Visited = Scanned
      BY <2>1 DEF Reporting, Owing
    <2>9. UNCHANGED <<inputs, afterContextLeft, matchLimitReached, events, stopped>>
      BY <1>1 DEF counters, output
    <2> QED
      BY <1>3, <1>9, <2>1, <2>2, <2>3, <2>4, <2>5, <2>6, <2>7, <2>8, <2>9, Quietly
  <1> QED
    BY <1>8, <1>9

LEMMA FastEndInv == ASSUME SInv, FastEnd PROVE SInv'
  <1>1. /\ pc = "scan" /\ IsFastPath /\ pc' = "drain"
        /\ pos >= window \/ matchLimitReached \/ (~config.invert /\ Hits = {})
        /\ UNCHANGED <<inputs, lines, pos, marks, output, afterContextLeft, counters, gap, stats>>
    BY DEF FastEnd, NothingSunk
  <1>2. Live /\ ~InGap /\ Live' /\ ~InGap'
    BY <1>1 DEF Live, InGap
  <1>3. /\ Types /\ Given /\ Bounds /\ Reporting /\ Owing /\ Counting /\ Control
        /\ Visited \in Nat /\ Scanned \in Nat /\ consumed \in Nat /\ window \in Nat /\ pos \in Nat
        /\ Len(file) \in Nat /\ Matches \in SUBSET (1 .. Len(file)) /\ config.invert \in BOOLEAN
    BY <1>2, Facts, InputsAre DEF Types
  <1>4. ~config.passThru /\ Scanned = consumed + pos /\ IsFastPath' = IsFastPath
    BY <1>1, <1>2, SameInputs DEF IsFastPath, Scanned
  <1>5. Types'
    BY <1>1, <1>3 DEF Types, Places, inputs, lines, marks, output, counters
  <1>6. Visited' = Visited /\ Scanned' = consumed + window
    BY <1>1, <1>2 DEF Visited, Scanned, lines, marks
  <1>7. \A m \in Matches : m <= Visited \/ m > consumed + window
    <2>1. CASE pos >= window
      <3>1. pos = window
        BY <1>3, <2>1 DEF Bounds
      <3> QED
        BY <1>3, <1>4, <3>1 DEF Reporting
    <2>2. CASE matchLimitReached
      <3>1. Limited(Cardinality(UpTo(Matches, Visited)))
        BY <1>3, <2>2 DEF Counting
      <3> QED
        BY <1>3, <1>4, <3>1, NoneLeft
    <2>3. CASE ~config.invert /\ Hits = {}
      <3>1. SUFFICES ASSUME NEW m \in Matches, m > Visited, m <= consumed + window PROVE FALSE
        BY <1>3
      <3>2. m \in Nat /\ m > consumed + pos /\ m <= Len(file)
        BY <1>3, <1>4, <3>1 DEF Reporting, Bounds
      <3>3. PICK j \in Nat : m = consumed + j + 1
        <4>1. m - consumed - 1 \in Nat /\ m = consumed + (m - consumed - 1) + 1
          BY <1>3, <3>2
        <4> QED
          BY <4>1
      <3>4. j \in pos .. window - 1
        BY <1>3, <3>1, <3>2, <3>3
      <3>5. Verify(j) # config.invert
        BY <1>3, <1>4, <3>2, <3>3, LineAt
      <3>6. Verify(j) \in BOOLEAN
        BY <1>3, <3>2, <3>3, LineAt
      <3>7. Verify(j)
        BY <1>3, <2>3, <3>5, <3>6
      <3> QED
        BY <2>3, <3>4, <3>7 DEF Hits
    <2> QED
      BY <1>1, <2>1, <2>2, <2>3
  <1>8. Bounds'
    BY <1>1, <1>3, <1>6 DEF Bounds, lines, marks, inputs
  <1>9. GapFound' /\ Control'
    BY <1>1, <1>2, <1>4 DEF GapFound, Control
  <1>10. /\ matchCount' = Cardinality(UpTo(Matches, Visited)) + IF InGap' /\ ~FastInvert THEN 1 ELSE 0
         /\ hasMatched' <=> InGap' \/ UpTo(Matches, Visited) # {}
    BY <1>1, <1>2, <1>3 DEF Counting, counters
  <1>11. UNCHANGED <<inputs, afterContextLeft, matchLimitReached, events, stopped>>
    BY <1>1 DEF counters, output
  <1>12. \A m \in Reported : m <= Visited \/ m > Visited
    <2>1. Reported \in SUBSET (1 .. Len(file))
      BY <1>3, InputsAre
    <2> QED
      BY <1>3, <2>1
  <1>13. PICK s \in Nat : s = consumed + window
    BY <1>3
  <1> QED
    BY <1>1, <1>2, <1>3, <1>4, <1>5, <1>6, <1>7, <1>8, <1>9, <1>10, <1>11, <1>12, <1>13, Quietly

LEMMA SameGap ==
    ASSUME GapFound, UNCHANGED <<inputs, lines, pos, gap, matchLimitReached>>, InGap
    PROVE  GapFound'
  <1>1. /\ FastInvert' = FastInvert /\ IsFastPath' = IsFastPath /\ Matches' = Matches
        /\ config' = config /\ \A j : Verify(j)' = Verify(j)
    BY SameInputs DEF Verify, inputs, lines
  <1> QED
    BY <1>1 DEF GapFound, lines

\* Owed after-context of the fast path, below upto.
LEMMA OwedInv ==
    ASSUME SInv, Live, pc \in {"after", "drain"}, afterContextLeft > 0, Visited < Scanned,
           NEW answer \in Answers, SinkAfter(answer, pc),
           UNCHANGED <<inputs, lines, pos, counters, gap>>
    PROVE  SInv'
  <1>1. /\ Types /\ Given /\ Bounds /\ Reporting /\ Owing /\ Counting /\ GapFound /\ Control
        /\ Visited \in Nat /\ Scanned \in Nat /\ consumed \in Nat /\ window \in Nat /\ pos \in Nat
        /\ Len(file) \in Nat /\ Chosen \in SUBSET (1 .. Len(file)) /\ config.after \in Nat
        /\ Reported \in SUBSET (1 .. Len(file)) /\ Matches \in SUBSET (1 .. Len(file))
        /\ lastLineVisited \in Nat /\ afterContextLeft \in Nat /\ pc \in Places /\ gap.from \in Nat
    BY Facts, InputsAre DEF Types
  <1>2. /\ Sink("after", lastLineVisited, answer, pc)
        /\ afterContextLeft' = IF answer = "more" THEN afterContextLeft - 1 ELSE afterContextLeft
    BY DEF SinkAfter
  <1>3. PICK l \in Nat : l = Visited + 1
    BY <1>1
  <1>4. l = consumed + lastLineVisited + 1 /\ l \in 1 .. Len(file) /\ l <= Scanned
    BY <1>1, <1>3 DEF Visited, Bounds
  <1>5. l \notin Matches
    BY <1>1, <1>3, <1>4 DEF Reporting
  <1>6. ~config.passThru /\ Report(l) = "after"
    BY <1>3, <1>4, <1>5, OwedLine
  <1>7. UNCHANGED <<inputs, consumed, window>>
    BY DEF lines
  <1>8. /\ EventsInOrder' /\ events' \in Seq(Event)
        /\ lineNumber' = consumed' + lastLineCounted' + 1 /\ lineNumber' \in Nat
        /\ lastLineCounted' = lastLineVisited
        /\ lastLineVisited' \in Nat /\ stopped' \in BOOLEAN /\ pc' \in Places
        /\ answer # "more" => pc' \in {"quit", "failed"} /\ (pc' = "quit" => stopped')
        /\ answer = "more" => pc' = pc /\ lastLineVisited' = lastLineVisited + 1 /\ stopped' = FALSE
        /\ answer = "more" => Len(events') = Cardinality(UpTo(Reported, l))
        /\ Cardinality(UpTo(Matches, l)) = Cardinality(UpTo(Matches, Visited)) + 0
        /\ UpTo(Matches, l) # {} <=> UpTo(Matches, Visited) # {}
        /\ \A m \in Chosen : m <= l => m <= Visited
    <2>1. lastLineVisited <= lastLineVisited /\ consumed + lastLineVisited + 1 <= Len(file)
      BY <1>1, <1>4
    <2>2. /\ \A m \in Reported : m <= Visited \/ m >= consumed + lastLineVisited + 1
          /\ \A m \in Matches : m <= Visited \/ m >= consumed + lastLineVisited + 1
      BY <1>1, <1>3, <1>4
    <2>3. Report(consumed + lastLineVisited + 1) = "after"
      BY <1>4, <1>6
    <2> QED
      BY <1>1, <1>2, <1>4, <1>7, <2>1, <2>2, <2>3, Tells
  <1>9. afterContextLeft' \in Nat
    BY <1>1, <1>2
  <1>10. Types'
    BY <1>1, <1>7, <1>8, <1>9 DEF Types, inputs, counters
  <1>11. CASE answer # "more"
    BY <1>8, <1>10, <1>11, Aborts
  <1>12. CASE answer = "more"
    <2>1. pc' = pc /\ stopped' = FALSE /\ afterContextLeft' = afterContextLeft - 1 /\ lastLineCounted' <= lastLineVisited'
      BY <1>1, <1>2, <1>8, <1>12
    <2>2. (InGap' <=> InGap) /\ Live'
      BY <2>1 DEF Live, InGap
    <2>3. Visited' = l /\ Scanned' = Scanned
      BY <1>1, <1>4, <1>7, <1>8, <1>12, <2>1, <2>2 DEF Visited, Scanned
    <2>4. Bounds'
      BY <1>1, <1>4, <1>7, <1>8, <2>1, <2>3 DEF Bounds, inputs
    <2>5. GapFound'
      BY <1>1, <2>2, SameGap DEF GapFound, counters
    <2>6. Control'
      <3>1. IsFastPath' = IsFastPath
        BY SameInputs
      <3> QED
        BY <1>1, <2>1, <3>1 DEF Control
    <2>7. PICK s \in Nat : s = Scanned
      BY <1>1
    <2>8. /\ Len(events') = Cardinality(UpTo(Reported, l))
          /\ \A m \in Matches : m <= l \/ m > s
          /\ config.passThru /\ ~LimitAtStart => l = s
      BY <1>1, <1>3, <1>6, <1>8, <1>12, <2>7 DEF Reporting
    <2>9. /\ \A m \in Chosen : m <= l => m + config.after <= l + afterContextLeft'
          /\ afterContextLeft' > 0 => \E m \in Chosen : m <= l /\ m + config.after = l + afterContextLeft'
          /\ afterContextLeft' > 0 /\ ~IsFastPath => l = s
      <3>1. IsFastPath
        BY <1>1 DEF Control
      <3>2. l + afterContextLeft' = Visited + afterContextLeft
        BY <1>1, <1>3, <2>1
      <3>3. \A m \in Chosen : m <= l => m + config.after <= l + afterContextLeft'
        BY <1>1, <1>8, <3>2 DEF Owing
      <3>4. PICK m \in Chosen : m <= Visited /\ m + config.after = Visited + afterContextLeft
        BY <1>1 DEF Owing
      <3>5. m <= l /\ m + config.after = l + afterContextLeft'
        BY <1>1, <1>3, <3>2, <3>4
      <3> QED
        BY <3>1, <3>3, <3>4, <3>5
    <2>10. Cardinality(UpTo(Matches, Visited)) \in Nat
      BY <1>1, CountTo
    <2>11. Cardinality(UpTo(Matches, l)) = Cardinality(UpTo(Matches, Visited))
      BY <1>8, <2>10
    <2>12. matchLimitReached' <=> Limited(Cardinality(UpTo(Matches, l)))
      BY <1>1, <2>11 DEF Counting, counters
    <2>13. /\ matchCount' = Cardinality(UpTo(Matches, l)) + IF InGap' /\ ~FastInvert THEN 1 ELSE 0
           /\ hasMatched' <=> InGap' \/ UpTo(Matches, l) # {}
      BY <1>1, <1>8, <2>2, <2>11 DEF Counting, counters
    <2> QED
      BY <1>8, <1>10, <2>1, <2>2, <2>3, <2>4, <2>5, <2>6, <2>7, <2>8, <2>9, <2>12, <2>13, Resumes
  <1> QED
    BY <1>11, <1>12

LEMMA AfterInv == ASSUME SInv, AfterContextByLine PROVE SInv'
  <1>1. pc = "after" /\ UNCHANGED <<inputs, lines, pos, counters, gap, stats>>
    BY DEF AfterContextByLine
  <1>2. Live /\ InGap
    BY <1>1 DEF Live, InGap
  <1>3. /\ Types /\ Given /\ Bounds /\ Reporting /\ Owing /\ Counting /\ GapFound /\ Control
        /\ Visited \in Nat /\ Scanned \in Nat /\ consumed \in Nat /\ afterContextLeft \in Nat
        /\ lastLineVisited \in Nat /\ gap.from \in Nat /\ Len(file) \in Nat
        /\ Reported \in SUBSET (1 .. Len(file))
    BY <1>2, Facts, InputsAre DEF Types
  <1>4. Scanned = consumed + gap.from /\ Visited = consumed + lastLineVisited /\ ~config.passThru
    BY <1>1, <1>2, <1>3 DEF Scanned, Visited, Control, IsFastPath
  <1>5. ASSUME afterContextLeft > 0 /\ lastLineVisited < gap.from, NEW answer \in Answers, SinkAfter(answer, "after")
        PROVE  SInv'
    <2>1. Visited < Scanned
      BY <1>3, <1>4, <1>5
    <2> QED
      BY <1>1, <1>2, <1>5, <2>1, OwedInv
  <1>6. ASSUME afterContextLeft = 0 \/ lastLineVisited >= gap.from, NothingSunk("before"), UNCHANGED afterContextLeft
        PROVE  SInv'
    <2>1. pc' = "before" /\ UNCHANGED <<marks, output>>
      BY <1>6 DEF NothingSunk
    <2>2. Live' /\ InGap'
      BY <2>1 DEF Live, InGap
    <2>3. Types'
      BY <1>1, <1>3, <1>6, <2>1 DEF Types, Places, inputs, lines, marks, output, counters
    <2>4. Visited' = Visited /\ Scanned' = Scanned
      BY <1>1, <1>2, <2>1, <2>2 DEF Visited, Scanned, lines, marks
    <2>5. Bounds'
      BY <1>1, <1>3, <2>1, <2>4 DEF Bounds, lines, marks, inputs
    <2>6. GapFound'
      BY <1>1, <1>2, <1>3, SameGap DEF counters
    <2>7. Control'
      <3>1. afterContextLeft = 0 \/ Visited = Scanned
        BY <1>3, <1>4, <1>6 DEF Bounds
      <3> QED
        BY <1>6, <2>1, <2>4, <3>1 DEF Control
    <2>8. /\ matchCount' = Cardinality(UpTo(Matches, Visited)) + IF InGap' /\ ~FastInvert THEN 1 ELSE 0
          /\ hasMatched' <=> InGap' \/ UpTo(Matches, Visited) # {}
      BY <1>1, <1>2, <1>3, <2>2 DEF Counting, counters
    <2>9. UNCHANGED <<inputs, afterContextLeft, matchLimitReached, events, stopped>>
      BY <1>1, <1>6, <2>1 DEF counters, output
    <2>10. /\ \A m \in Reported : m <= Visited \/ m > Visited
           /\ \A m \in Matches : m <= Visited \/ m > Scanned
           /\ afterContextLeft > 0 /\ ~IsFastPath => Visited = Scanned
      BY <1>3 DEF Reporting, Owing
    <2> QED
      BY <1>2, <1>3, <1>4, <2>2, <2>3, <2>4, <2>5, <2>6, <2>7, <2>8, <2>9, <2>10, Quietly
  <1> QED
    BY <1>5, <1>6 DEF AfterContextByLine

LEMMA BeforeInv == ASSUME SInv, BeforeContextByLine PROVE SInv'
  <1>1. pc = "before" /\ UNCHANGED <<inputs, lines, pos, afterContextLeft, counters, gap, stats>>
    BY DEF BeforeContextByLine
  <1>2. Live /\ InGap
    BY <1>1 DEF Live, InGap
  <1>3. /\ Types /\ Given /\ Bounds /\ Reporting /\ Owing /\ Counting /\ GapFound /\ Control
        /\ Visited \in Nat /\ Scanned \in Nat /\ consumed \in Nat /\ window \in Nat /\ afterContextLeft \in Nat
        /\ lastLineVisited \in Nat /\ gap.from \in Nat /\ gap.to \in Nat /\ Len(file) \in Nat
        /\ Reported \in SUBSET (1 .. Len(file)) /\ Matches \in SUBSET (1 .. Len(file))
        /\ Chosen \in SUBSET (1 .. Len(file)) /\ config.before \in Nat /\ config.after \in Nat
        /\ config.passThru => config.before = 0
    BY <1>2, Facts, InputsAre DEF Types
  <1>4. /\ Scanned = consumed + gap.from /\ Visited = consumed + lastLineVisited
        /\ Visited <= Scanned /\ Scanned <= consumed + window /\ consumed + window <= Len(file)
        /\ afterContextLeft = 0 \/ Visited = Scanned
        /\ \A m \in Matches : m <= Visited \/ m > Scanned
    BY <1>1, <1>2, <1>3 DEF Scanned, Visited, Control, Bounds, Reporting
  <1>5. PICK b \in Nat : b = BeforeStart
    BY <1>3 DEF BeforeStart, Larger
  <1>6. /\ b >= lastLineVisited /\ b >= gap.from - config.before
        /\ b = lastLineVisited \/ b = gap.from - config.before
    BY <1>3, <1>5 DEF BeforeStart, Larger
  <1>7. PICK l \in Nat : l = consumed + b + 1
    BY <1>3
  <1>8. ASSUME b < gap.from PROVE /\ afterContextLeft = 0 /\ ~config.passThru /\ l \notin Matches
                                  /\ l \in 1 .. Len(file) /\ Visited < l /\ l <= Scanned
                                  /\ Report(l) = "before"
                                  /\ \A m \in Reported : m <= Visited \/ m >= l
    <2>1. afterContextLeft = 0 /\ ~config.passThru
      BY <1>3, <1>4, <1>6, <1>8
    <2>2. l \in 1 .. Len(file) /\ Visited < l /\ l <= Scanned /\ l \notin Matches
      BY <1>3, <1>4, <1>6, <1>7, <1>8, SMTT(30)
    <2>3. PICK g \in Nat : g = consumed + gap.from + 1
      BY <1>3
    <2>4. g \in Matches /\ g \in 1 .. Len(file)
      BY <1>2, <1>3, <2>3 DEF GapFound
    <2>5. g \in Chosen
      BY <1>3, <2>1, <2>4, MatchesAre
    <2>6. \A m \in Chosen : m \in Matches /\ m \in Nat /\ (m <= Visited => m + config.after <= Visited)
      BY <1>3, <2>1, MatchesAre DEF Owing
    <2>7. ~\E m \in Chosen : m < l /\ l <= m + config.after
      BY <1>3, <1>4, <2>2, <2>6
    <2>8. l < g /\ g <= l + config.before
      BY <1>3, <1>6, <1>7, <1>8, <2>3
    <2>9. Report(l) = "before"
      BY <1>3, <2>1, <2>2, <2>5, <2>7, <2>8, MatchesAre
    <2>10. ASSUME NEW j \in Reported, j > Visited, j < l PROVE FALSE
      <3>1. j \in 1 .. Len(file) /\ j \in Nat /\ j <= Scanned /\ j \notin Matches
        BY <1>3, <1>4, <2>2, <2>10
      <3>2. \A m \in Chosen : m < j => m + config.after < j
        BY <1>3, <1>4, <2>6, <2>10, <3>1, SMTT(30)
      <3>3. j + config.before <= Scanned
        BY <1>3, <1>4, <1>6, <1>7, <2>10, <3>1, SMTT(30)
      <3>4. \A m \in Chosen : m > j => m > j + config.before
        BY <1>3, <1>4, <2>6, <2>10, <3>1, <3>3, SMTT(30)
      <3> QED
        BY <1>3, <2>1, <2>10, <3>1, <3>2, <3>4, Silent
    <2>11. \A m \in Reported : m <= Visited \/ m >= l
      <3>1. \A m \in Reported : m \in Nat
        BY <1>3
      <3> QED
        BY <1>3, <2>10, <3>1
    <2> QED
      BY <2>1, <2>2, <2>9, <2>11
  <1>9. ASSUME BeforeStart < gap.from, NEW answer \in Answers, Sink("before", BeforeStart, answer, "before")
        PROVE  SInv'
    <2>1. /\ afterContextLeft = 0 /\ ~config.passThru /\ l \notin Matches
          /\ l \in 1 .. Len(file) /\ Visited < l /\ l <= Scanned
          /\ Report(l) = "before"
          /\ \A m \in Reported : m <= Visited \/ m >= l
      BY <1>5, <1>8, <1>9
    <2>2. UNCHANGED <<inputs, consumed>> /\ Sink("before", b, answer, "before") /\ "before" \in Places
      BY <1>1, <1>5, <1>9 DEF lines, Places
    <2>3. \A m \in Matches : m <= Visited \/ m >= l
      BY <1>3, <1>4, <2>1
    <2>4. /\ EventsInOrder' /\ events' \in Seq(Event)
          /\ lineNumber' = consumed' + lastLineCounted' + 1 /\ lineNumber' \in Nat /\ lastLineCounted' = b
          /\ lastLineVisited' \in Nat /\ stopped' \in BOOLEAN /\ pc' \in Places
          /\ answer # "more" => pc' \in {"quit", "failed"} /\ (pc' = "quit" => stopped')
          /\ answer = "more" => pc' = "before" /\ lastLineVisited' = b + 1 /\ stopped' = FALSE
          /\ answer = "more" => Len(events') = Cardinality(UpTo(Reported, l))
          /\ Cardinality(UpTo(Matches, l)) = Cardinality(UpTo(Matches, Visited)) + 0
          /\ UpTo(Matches, l) # {} <=> UpTo(Matches, Visited) # {}
          /\ \A m \in Chosen : m <= l => m <= Visited
      <3>1. lastLineVisited <= b /\ consumed + b + 1 <= Len(file)
        BY <1>3, <1>6, <1>7, <2>1
      <3>2. /\ \A m \in Reported : m <= Visited \/ m >= consumed + b + 1
            /\ \A m \in Matches : m <= Visited \/ m >= consumed + b + 1
            /\ Report(consumed + b + 1) = "before"
        BY <1>7, <2>1, <2>3
      <3> QED
        BY <1>2, <1>7, <2>2, <3>1, <3>2, Tells, ZenonT(30)
    <2>5. Types'
      BY <1>1, <1>3, <2>4 DEF Types, inputs, lines, counters
    <2>6. CASE answer # "more"
      BY <2>4, <2>5, <2>6, Aborts
    <2>7. CASE answer = "more"
      <3>1. Live' /\ InGap' /\ pc' = "before"
        BY <2>4, <2>7 DEF Live, InGap
      <3>2. Visited' = l /\ Scanned' = Scanned
        BY <1>1, <1>3, <1>4, <1>7, <2>4, <2>7, <3>1 DEF Visited, Scanned, lines
      <3>3. Bounds'
        BY <1>1, <1>3, <1>4, <2>1, <2>4, <2>7, <3>2 DEF Bounds, lines, inputs
      <3>4. GapFound'
        BY <1>1, <1>2, <1>3, SameGap DEF counters
      <3>5. Control'
        BY <1>1, <2>1, <3>1 DEF Control
      <3>6. PICK s \in Nat : s = Scanned
        BY <1>3
      <3>7. /\ \A m \in Matches : m <= l \/ m > s
            /\ config.passThru /\ ~LimitAtStart => l = s
            /\ \A m \in Chosen : m <= l => m + config.after <= l + afterContextLeft'
            /\ afterContextLeft' = 0
        BY <1>1, <1>3, <1>4, <2>1, <2>4, <3>6, SMTT(30) DEF Owing
      <3>8. Cardinality(UpTo(Matches, Visited)) \in Nat
        BY <1>3, CountTo
      <3>9. Cardinality(UpTo(Matches, l)) = Cardinality(UpTo(Matches, Visited))
        BY <2>4, <3>8
      <3>10. matchLimitReached' <=> Limited(Cardinality(UpTo(Matches, l)))
        BY <1>1, <1>3, <3>9 DEF Counting, counters
      <3>11. /\ matchCount' = Cardinality(UpTo(Matches, l)) + IF InGap' /\ ~FastInvert THEN 1 ELSE 0
             /\ hasMatched' <=> InGap' \/ UpTo(Matches, l) # {}
        BY <1>1, <1>2, <1>3, <2>4, <3>1, <3>9 DEF Counting, counters
      <3>12. /\ ~(afterContextLeft' > 0)
             /\ Len(events') = Cardinality(UpTo(Reported, l))
        BY <2>4, <2>7, <3>7
      <3> QED
        BY <1>1, <2>4, <2>5, <2>7, <3>1, <3>2, <3>3, <3>4, <3>5, <3>6, <3>7, <3>10, <3>11, <3>12, Resumes
    <2> QED
      BY <2>6, <2>7
  <1>10. ASSUME BeforeStart >= gap.from, NothingSunk("match") PROVE SInv'
    <2>1. pc' = "match" /\ UNCHANGED <<marks, output>>
      BY <1>10 DEF NothingSunk
    <2>2. Live' /\ InGap'
      BY <2>1 DEF Live, InGap
    <2>3. Types'
      BY <1>1, <1>3, <2>1 DEF Types, Places, inputs, lines, marks, output, counters
    <2>4. Visited' = Visited /\ Scanned' = Scanned
      BY <1>1, <1>2, <2>1, <2>2 DEF Visited, Scanned, lines, marks
    <2>5. Bounds'
      BY <1>1, <1>3, <2>1, <2>4 DEF Bounds, lines, marks, inputs
    <2>6. GapFound'
      BY <1>1, <1>2, <1>3, SameGap DEF counters
    <2>7. Control'
      <3>1. config.before = 0 \/ Visited = Scanned
        BY <1>3, <1>4, <1>5, <1>6, <1>10, SMTT(30)
      <3>2. config' = config
        BY <1>1 DEF inputs
      <3> QED
        BY <1>1, <1>4, <2>1, <2>4, <3>1, <3>2 DEF Control
    <2>8. /\ matchCount' = Cardinality(UpTo(Matches, Visited)) + IF InGap' /\ ~FastInvert THEN 1 ELSE 0
          /\ hasMatched' <=> InGap' \/ UpTo(Matches, Visited) # {}
      BY <1>1, <1>2, <1>3, <2>2 DEF Counting, counters
    <2>9. UNCHANGED <<inputs, afterContextLeft, matchLimitReached, events, stopped>>
      BY <1>1, <2>1 DEF counters, output
    <2>10. /\ \A m \in Reported : m <= Visited \/ m > Visited
           /\ \A m \in Matches : m <= Visited \/ m > Scanned
           /\ afterContextLeft > 0 /\ ~IsFastPath => Visited = Scanned
           /\ config.passThru /\ ~LimitAtStart => Visited = Scanned
      BY <1>3 DEF Reporting, Owing
    <2> QED
      BY <1>2, <1>3, <2>2, <2>3, <2>4, <2>5, <2>6, <2>7, <2>8, <2>9, <2>10, Quietly
  <1> QED
    BY <1>9, <1>10 DEF BeforeContextByLine

LEMMA FirstHitIs ==
    ASSUME Types, Hits # {}
    PROVE  /\ FirstHit \in Nat /\ pos <= FirstHit /\ FirstHit < window /\ Verify(FirstHit)
           /\ \A j \in pos .. FirstHit - 1 : ~Verify(j)
  <1>1. pos \in Nat /\ window \in Nat
    BY DEF Types
  <1>2. Hits \in SUBSET Nat /\ \A i \in Hits : i \in Nat /\ pos <= i /\ i < window /\ Verify(i)
    BY <1>1 DEF Hits
  <1>3. \E i \in Hits : \A j \in Hits : i <= j
    BY <1>2, LeastExists
  <1>4. FirstHit \in Hits /\ \A j \in Hits : FirstHit <= j
    BY <1>3, Zenon DEF FirstHit
  <1>5. ASSUME NEW j \in pos .. FirstHit - 1, Verify(j) PROVE FALSE
    <2>1. j \in Hits
      BY <1>1, <1>2, <1>4, <1>5 DEF Hits
    <2> QED
      BY <1>1, <1>2, <1>4, <1>5, <2>1
  <1> QED
    BY <1>2, <1>4, <1>5

\* The fast path found the next line to report, behind lines that do not match.
LEMMA FoundInv ==
    ASSUME SInv, pc = "scan", IsFastPath, ~matchLimitReached,
           UNCHANGED <<inputs, lines, marks, output, afterContextLeft, matchLimitReached>>,
           NEW from \in Nat, NEW to \in Nat, gap' = [from |-> from, to |-> to], pos' \in Nat,
           pos <= from, from < to, to <= window, pos' <= window,
           \A j \in pos .. from - 1 : Verify(j) = config.invert,
           Verify(from) = ~config.invert,
           matchCount' = matchCount + (IF config.invert THEN 0 ELSE 1), hasMatched' = TRUE, pc' = "after",
           config.invert => /\ to <= pos'
                            /\ \A j \in from .. to - 1 : ~Verify(j)
                            /\ \A j \in to .. pos' - 1 : Verify(j),
           ~config.invert => to = from + 1 /\ pos' <= from
    PROVE  SInv'
  <1>1. Live /\ ~InGap /\ Live' /\ InGap'
    BY DEF Live, InGap
  <1>2. /\ Types /\ Given /\ Bounds /\ Reporting /\ Owing /\ Counting /\ Control
        /\ Visited \in Nat /\ Scanned \in Nat /\ consumed \in Nat /\ window \in Nat /\ pos \in Nat
        /\ Len(file) \in Nat /\ Matches \in SUBSET (1 .. Len(file)) /\ config.invert \in BOOLEAN
        /\ Reported \in SUBSET (1 .. Len(file)) /\ matchCount \in Nat
    BY <1>1, Facts, InputsAre DEF Types
  <1>3. /\ ~config.passThru /\ Scanned = consumed + pos /\ IsFastPath' = IsFastPath
        /\ FastInvert' = FastInvert /\ Matches' = Matches /\ config' = config
        /\ consumed' = consumed /\ window' = window /\ \A j : Verify(j)' = Verify(j)
    BY <1>1, SameInputs DEF IsFastPath, Scanned, Verify, lines, inputs
  <1>4. Types'
    <2>1. gap' \in [from : Nat, to : Nat] /\ matchCount' \in Nat
      BY <1>2
    <2> QED
      BY <1>2, <2>1 DEF Types, Places, inputs, lines, marks, output
  <1>5. Visited' = Visited /\ Scanned' = consumed + from
    BY <1>1 DEF Visited, Scanned, lines, marks
  <1>6. consumed + window <= Len(file) /\ Visited <= Scanned /\ \A m \in Matches : m <= Visited \/ m > Scanned
    BY <1>2 DEF Bounds, Reporting
  <1>7. \A m \in Matches : m <= Visited \/ m > consumed + from
    <2>1. SUFFICES ASSUME NEW m \in Matches, m > Visited, m <= consumed + from PROVE FALSE
      BY <1>2
    <2>2. m \in Nat /\ m > consumed + pos /\ m <= Len(file)
      BY <1>2, <1>3, <1>6, <2>1
    <2>3. PICK j \in Nat : m = consumed + j + 1
      <3>1. m - consumed - 1 \in Nat /\ m = consumed + (m - consumed - 1) + 1
        BY <1>2, <2>2
      <3> QED
        BY <3>1
    <2>4. j \in pos .. from - 1
      BY <1>2, <2>1, <2>2, <2>3
    <2>5. Verify(j) # config.invert
      BY <1>2, <1>3, <2>2, <2>3, LineAt
    <2> QED
      BY <2>4, <2>5
  <1>8. consumed + from + 1 \in Matches
    <2>1. consumed + from + 1 <= Len(file)
      BY <1>2, <1>6
    <2>2. consumed + from + 1 \in 1 .. Len(file) /\ consumed + from + 1 \in Selected
      BY <1>2, <2>1, LineAt
    <2>3. ~Limited(Cardinality(UpTo(Matches, Visited)))
      BY <1>2 DEF Counting
    <2>4. PICK l \in Nat : l = consumed + from + 1
      BY <1>2
    <2>5. Visited <= l - 1 /\ \A m \in Matches : m <= Visited \/ m >= l
      BY <1>2, <1>3, <1>6, <1>7, <2>4
    <2> QED
      BY <1>2, <1>3, <2>2, <2>3, <2>4, <2>5, MatchNext
  <1>9. Bounds'
    BY <1>2, <1>3, <1>5, <1>6 DEF Bounds, lines, marks, inputs
  <1>10. GapFound'
    <2>1. gap'.from = from /\ gap'.to = to
      OBVIOUS
    <2>2. FastInvert => /\ ~matchLimitReached' /\ to <= pos'
                        /\ \A j \in from .. to - 1 : ~Verify(j)
                        /\ \A j \in to .. pos' - 1 : Verify(j)
      BY DEF FastInvert
    <2>3. ~FastInvert => to = from + 1
      BY DEF FastInvert
    <2> QED
      BY <1>3, <1>8, <2>1, <2>2, <2>3 DEF GapFound
  <1>11. Control'
    BY <1>3 DEF Control
  <1>12. /\ matchCount' = Cardinality(UpTo(Matches, Visited)) + IF InGap' /\ ~FastInvert THEN 1 ELSE 0
         /\ hasMatched' <=> InGap' \/ UpTo(Matches, Visited) # {}
    <2>1. matchCount = Cardinality(UpTo(Matches, Visited)) + 0 /\ Cardinality(UpTo(Matches, Visited)) \in Nat
      BY <1>1, <1>2, CountTo DEF Counting
    <2>2. FastInvert <=> config.invert
      BY <1>2 DEF FastInvert
    <2> QED
      BY <1>1, <2>1, <2>2
  <1>13. /\ \A m \in Reported : m <= Visited \/ m > Visited
         /\ afterContextLeft > 0 /\ ~IsFastPath => Visited = consumed + from
    BY <1>2
  <1>14. PICK s \in Nat : s = consumed + from
    BY <1>2
  <1>15. UNCHANGED <<inputs, afterContextLeft, matchLimitReached, events, stopped>>
    BY DEF output
  <1> QED
    BY <1>1, <1>2, <1>3, <1>4, <1>5, <1>7, <1>9, <1>10, <1>11, <1>12, <1>13, <1>14, <1>15, Quietly

LEMMA FastFindInv == ASSUME SInv, FastFind PROVE SInv'
  <1>1. /\ pc = "scan" /\ IsFastPath /\ pos < window /\ ~matchLimitReached
        /\ hasMatched' = (hasMatched \/ gap'.from < gap'.to)
        /\ pc' = IF gap'.from < gap'.to THEN "after" ELSE "scan"
        /\ UNCHANGED <<inputs, lines, marks, output, afterContextLeft, matchLimitReached>>
    BY DEF FastFind, NothingSunk
  <1>2. Live /\ ~InGap
    BY <1>1 DEF Live, InGap
  <1>3. /\ Types /\ Given /\ Bounds /\ Reporting /\ Owing /\ Counting /\ Control
        /\ Visited \in Nat /\ Scanned \in Nat /\ consumed \in Nat /\ window \in Nat /\ pos \in Nat
        /\ Len(file) \in Nat /\ Matches \in SUBSET (1 .. Len(file)) /\ config.invert \in BOOLEAN
        /\ Reported \in SUBSET (1 .. Len(file)) /\ matchCount \in Nat /\ hasMatched \in BOOLEAN
        /\ consumed + window <= Len(file)
    BY <1>2, Facts, InputsAre DEF Types, Bounds
  <1>4. \A j \in pos .. window - 1 : Verify(j) \in BOOLEAN
    <2>1. ASSUME NEW j \in pos .. window - 1 PROVE Verify(j) \in BOOLEAN
      <3>1. j \in Nat /\ consumed + j + 1 <= Len(file)
        BY <1>3
      <3> QED
        BY <1>3, <3>1, LineAt
    <2> QED
      BY <2>1
  <1>5. CASE Hits # {} /\ ~config.invert /\ gap' = [from |-> FirstHit, to |-> FirstHit + 1]
             /\ matchCount' = matchCount + 1 /\ UNCHANGED pos
    <2>1. PICK h \in Nat : h = FirstHit
      BY <1>3, <1>5, FirstHitIs
    <2>2. pos <= h /\ h < window /\ Verify(h) /\ (\A j \in pos .. h - 1 : ~Verify(j))
      BY <1>3, <1>5, <2>1, FirstHitIs
    <2>3. gap' = [from |-> h, to |-> h + 1] /\ h + 1 \in Nat /\ h < h + 1 /\ h + 1 <= window
      BY <1>3, <1>5, <2>1, <2>2
    <2>4. gap'.from = h /\ gap'.to = h + 1
      BY <2>3
    <2>5. hasMatched' = TRUE /\ pc' = "after"
      BY <1>1, <2>3, <2>4
    <2>6. (\A j \in pos .. h - 1 : Verify(j) = config.invert) /\ Verify(h) = ~config.invert
      <3>1. Verify(h) \in BOOLEAN /\ \A j \in pos .. h - 1 : Verify(j) \in BOOLEAN
        BY <1>3, <1>4, <2>2
      <3> QED
        BY <1>3, <1>5, <2>2, <3>1
    <2>7. pos' = pos /\ pos' \in Nat /\ pos' <= window /\ pos' <= h
      BY <1>1, <1>3, <1>5, <2>2
    <2> QED
      BY <1>1, <1>3, <1>5, <2>2, <2>3, <2>5, <2>6, <2>7, FoundInv
  <1>6. CASE Hits # {} /\ config.invert /\ gap' = [from |-> pos, to |-> FirstHit]
             /\ pos' = FirstHit + 1 /\ UNCHANGED matchCount
    <2>1. PICK h \in Nat : h = FirstHit
      BY <1>3, <1>6, FirstHitIs
    <2>2. pos <= h /\ h < window /\ Verify(h) /\ (\A j \in pos .. h - 1 : ~Verify(j))
      BY <1>3, <1>6, <2>1, FirstHitIs
    <2>3. gap' = [from |-> pos, to |-> h] /\ pos' = h + 1 /\ pos' \in Nat /\ pos' <= window /\ h <= pos'
      BY <1>3, <1>6, <2>1, <2>2
    <2>4. gap'.from = pos /\ gap'.to = h
      BY <2>3
    <2>5. \A j \in h .. pos' - 1 : Verify(j)
      <3>1. \A j \in h .. pos' - 1 : j = h
        BY <1>3, <2>3
      <3> QED
        BY <2>2, <3>1
    <2>6. CASE pos < h
      <3>1. hasMatched' = TRUE /\ pc' = "after"
        BY <1>1, <2>4, <2>6
      <3>2. \A j \in pos .. pos - 1 : Verify(j) = config.invert
        BY <1>3
      <3>3. Verify(pos) = ~config.invert
        <4>1. pos \in pos .. h - 1 /\ pos \in pos .. window - 1
          BY <1>1, <1>3, <2>6
        <4> QED
          BY <1>3, <1>4, <1>6, <2>2, <4>1
      <3>4. matchCount' = matchCount + (IF config.invert THEN 0 ELSE 1) /\ h <= window
        BY <1>3, <1>6, <2>2
      <3>5. PICK f \in Nat : f = pos
        BY <1>3
      <3>6. /\ gap' = [from |-> f, to |-> h] /\ pos <= f /\ f < h
            /\ \A j \in pos .. f - 1 : Verify(j) = config.invert
            /\ Verify(f) = ~config.invert
            /\ \A j \in f .. h - 1 : ~Verify(j)
        BY <1>3, <2>2, <2>3, <2>6, <3>2, <3>3, <3>5
      <3> QED
        BY <1>1, <1>6, <2>3, <2>5, <3>1, <3>4, <3>6, FoundInv
    <2>7. CASE ~(pos < h)
      <3>1. h = pos /\ pc' = "scan" /\ hasMatched' = hasMatched
        BY <1>1, <1>3, <2>2, <2>4, <2>7
      <3>2. Live' /\ ~InGap'
        BY <3>1 DEF Live, InGap
      <3>3. Types'
        BY <1>1, <1>3, <1>6, <2>3, <3>1 DEF Types, Places, inputs, lines, marks, output
      <3>4. Visited' = Visited /\ Scanned' = consumed + h + 1 /\ Scanned = consumed + pos
        BY <1>1, <1>2, <1>3, <2>3, <3>1, <3>2 DEF Visited, Scanned, lines, marks
      <3>5. Bounds'
        BY <1>1, <1>3, <2>2, <2>3, <3>1, <3>4 DEF Bounds, lines, marks, inputs
      <3>6. GapFound' /\ Control'
        BY <3>1, <3>2 DEF GapFound, Control
      <3>7. /\ matchCount' = Cardinality(UpTo(Matches, Visited)) + IF InGap' /\ ~FastInvert THEN 1 ELSE 0
            /\ hasMatched' <=> InGap' \/ UpTo(Matches, Visited) # {}
        BY <1>2, <1>3, <1>6, <3>1, <3>2 DEF Counting
      <3>8. ~config.passThru
        BY <1>1 DEF IsFastPath
      <3>9. PICK s \in Nat : s = consumed + h + 1
        BY <1>3
      <3>10. s \notin Matches
        <4>1. consumed + h + 1 <= Len(file)
          BY <1>3, <2>2
        <4> QED
          BY <1>3, <1>6, <2>2, <3>8, <3>9, <4>1, LineAt
      <3>11. \A m \in Matches : m <= Visited \/ m > s
        BY <1>3, <3>1, <3>4, <3>9, <3>10 DEF Reporting
      <3>12. /\ \A m \in Reported : m <= Visited \/ m > Visited
             /\ UNCHANGED <<inputs, afterContextLeft, matchLimitReached, events, stopped>>
        BY <1>1, <1>3 DEF output
      <3> QED
        BY <1>1, <1>2, <1>3, <3>2, <3>3, <3>4, <3>5, <3>6, <3>7, <3>8, <3>9, <3>11, <3>12, Quietly
    <2> QED
      BY <2>6, <2>7
  <1>7. CASE Hits = {} /\ config.invert /\ gap' = [from |-> pos, to |-> window]
             /\ pos' = window /\ UNCHANGED matchCount
    <2>1. \A j \in pos .. window - 1 : ~Verify(j)
      BY <1>7 DEF Hits
    <2>2. gap'.from = pos /\ gap'.to = window
      BY <1>7
    <2>3. hasMatched' = TRUE /\ pc' = "after"
      BY <1>1, <2>2
    <2>4. pos .. pos - 1 = {} /\ window .. pos' - 1 = {}
      BY <1>3, <1>7
    <2>5. Verify(pos) = ~config.invert
      <3>1. pos \in pos .. window - 1
        BY <1>1, <1>3
      <3> QED
        BY <1>4, <1>7, <2>1, <3>1
    <2>6. matchCount' = matchCount + (IF config.invert THEN 0 ELSE 1)
      BY <1>3, <1>7
    <2>7. PICK f \in Nat : f = pos
      BY <1>3
    <2>8. PICK w \in Nat : w = window
      BY <1>3
    <2>9. /\ gap' = [from |-> f, to |-> w] /\ pos' \in Nat /\ pos <= f /\ f < w /\ w <= window
          /\ pos' <= window /\ w <= pos'
      BY <1>1, <1>3, <1>7, <2>7, <2>8
    <2>10. /\ \A j \in pos .. f - 1 : Verify(j) = config.invert
           /\ Verify(f) = ~config.invert
           /\ \A j \in f .. w - 1 : ~Verify(j)
           /\ \A j \in w .. pos' - 1 : Verify(j)
      BY <2>1, <2>4, <2>5, <2>7, <2>8
    <2> QED
      BY <1>1, <1>7, <2>3, <2>6, <2>9, <2>10, FoundInv
  <1> QED
    BY <1>5, <1>6, <1>7 DEF FastFind

LEMMA DrainInv == ASSUME SInv, Drain PROVE SInv'
  <1>1. pc = "drain" /\ UNCHANGED <<inputs, lines, counters, gap, stats>>
    BY DEF Drain
  <1>2. Live /\ ~InGap
    BY <1>1 DEF Live, InGap
  <1>3. /\ Types /\ Given /\ Bounds /\ Reporting /\ Owing /\ Counting /\ Control
        /\ Visited \in Nat /\ Scanned \in Nat /\ consumed \in Nat /\ window \in Nat /\ afterContextLeft \in Nat
        /\ lastLineVisited \in Nat /\ Len(file) \in Nat /\ Reported \in SUBSET (1 .. Len(file))
        /\ Chosen \in SUBSET (1 .. Len(file)) /\ config.whole \in BOOLEAN
    BY <1>2, Facts, InputsAre DEF Types
  <1>4. /\ Scanned = consumed + window /\ Visited = consumed + lastLineVisited /\ Visited <= Scanned
        /\ ~config.passThru /\ IsFastPath
    BY <1>1, <1>2, <1>3 DEF Scanned, Visited, Control, IsFastPath, Bounds
  <1>5. ASSUME afterContextLeft > 0 /\ lastLineVisited < window, NEW answer \in Answers,
               SinkAfter(answer, "drain"), UNCHANGED pos
        PROVE  SInv'
    <2>1. Visited < Scanned
      BY <1>3, <1>4, <1>5
    <2> QED
      BY <1>1, <1>2, <1>5, <2>1, OwedInv
  <1>6. ASSUME afterContextLeft = 0 \/ lastLineVisited >= window, pos' = window, UNCHANGED afterContextLeft,
               NothingSunk(IF matchLimitReached /\ afterContextLeft = 0 THEN "quit" ELSE EndOfWindow)
        PROVE  SInv'
    <2>1. /\ UNCHANGED <<marks, output>>
          /\ pc' = IF matchLimitReached /\ afterContextLeft = 0 THEN "quit"
                   ELSE IF config.whole THEN "finish" ELSE "fill"
      BY <1>6 DEF NothingSunk, EndOfWindow
    <2>2. Types'
      BY <1>1, <1>3, <1>6, <2>1 DEF Types, Places, inputs, lines, marks, output, counters
    <2>3. afterContextLeft = 0 \/ Visited = Scanned
      BY <1>3, <1>4, <1>6
    <2>4. UNCHANGED <<inputs, events, stopped, matchCount, hasMatched, matchLimitReached, afterContextLeft>>
      BY <1>1, <1>6, <2>1 DEF counters, output
    <2>5. CASE matchLimitReached /\ afterContextLeft = 0
      <3>1. UpTo(Reported, Visited) = Reported /\ UpTo(Matches, Visited) = Matches
        <4>1. Limited(Cardinality(UpTo(Matches, Visited)))
          BY <1>3, <2>5 DEF Counting
        <4>2. \A m \in Chosen : m <= Visited => m + config.after <= Visited
          BY <1>3, <2>5 DEF Owing
        <4> QED
          BY <1>3, <1>4, <4>1, <4>2, LimitEnds
      <3>2. pc' = "quit"
        BY <2>1, <2>5
      <3> QED
        BY <1>2, <2>2, <2>4, <2>5, <3>1, <3>2, QuietEnd
    <2>6. CASE ~(matchLimitReached /\ afterContextLeft = 0) /\ config.whole
      <3>1. Scanned = Len(file)
        BY <1>3, <1>4, <2>6 DEF Bounds
      <3>2. UpTo(Reported, Visited) = Reported /\ UpTo(Matches, Visited) = Matches
        BY <1>3, <2>3, <3>1, FileEnds
      <3>3. pc' = "finish"
        BY <2>1, <2>6
      <3> QED
        BY <1>2, <2>2, <2>4, <2>6, <3>2, <3>3, QuietEnd
    <2>7. CASE ~(matchLimitReached /\ afterContextLeft = 0) /\ ~config.whole
      <3>1. pc' = "fill"
        BY <2>1, <2>7
      <3>2. Live' /\ ~InGap'
        BY <3>1 DEF Live, InGap
      <3>3. Visited' = Visited /\ Scanned' = Scanned
        BY <1>1, <1>3, <1>4, <1>6, <2>1, <3>1, <3>2 DEF Visited, Scanned, lines, marks
      <3>4. Bounds'
        BY <1>1, <1>3, <1>4, <1>6, <2>1, <3>3 DEF Bounds, lines, marks, inputs
      <3>5. GapFound' /\ Control'
        BY <1>1, <1>6, <2>3, <2>7, <3>1, <3>2, <3>3 DEF GapFound, Control, lines, inputs
      <3>6. /\ matchCount' = Cardinality(UpTo(Matches, Visited)) + IF InGap' /\ ~FastInvert THEN 1 ELSE 0
            /\ hasMatched' <=> InGap' \/ UpTo(Matches, Visited) # {}
        BY <1>2, <1>3, <2>4, <3>2 DEF Counting
      <3>7. /\ \A m \in Reported : m <= Visited \/ m > Visited
            /\ \A m \in Matches : m <= Visited \/ m > Scanned
        BY <1>3 DEF Reporting
      <3> QED
        BY <1>2, <1>3, <1>4, <2>2, <2>4, <3>2, <3>3, <3>4, <3>5, <3>6, <3>7, Quietly
    <2> QED
      BY <1>3, <2>5, <2>6, <2>7
  <1> QED
    BY <1>5, <1>6 DEF Drain

\* What the slow path decides of the next line.
LEMMA SuccessRight ==
    ASSUME SInv, Live, ~InGap, pc = "scan", pos < window
    PROVE  /\ consumed + pos + 1 \in 1 .. Len(file) /\ Scanned = consumed + pos
           /\ Success <=> consumed + pos + 1 \in Matches
  <1>1. /\ Types /\ Given /\ Bounds /\ Reporting /\ Counting
        /\ Visited \in Nat /\ Scanned \in Nat /\ consumed \in Nat /\ window \in Nat /\ pos \in Nat
        /\ Len(file) \in Nat /\ Matches \in SUBSET (1 .. Len(file))
    BY Facts, InputsAre DEF Types
  <1>2. Scanned = consumed + pos /\ Visited <= Scanned /\ consumed + pos + 1 <= Len(file)
    BY <1>1 DEF Scanned, Bounds
  <1>3. PICK l \in Nat : l = consumed + pos + 1
    BY <1>1
  <1>4. l \in 1 .. Len(file) /\ Visited <= l - 1
    BY <1>1, <1>2, <1>3
  <1>5. \A m \in Matches : m <= Visited \/ m >= l
    BY <1>1, <1>2, <1>3 DEF Reporting
  <1>6. matchLimitReached <=> Limited(Cardinality(UpTo(Matches, Visited)))
    BY <1>1 DEF Counting
  <1>7. l \in Selected <=> Verify(pos) # config.invert
    BY <1>1, <1>2, <1>3, LineAt
  <1>8. l \in Matches <=> IF config.passThru /\ matchLimitReached THEN config.invert /\ ~LimitAtStart
                          ELSE (Verify(pos) # config.invert) /\ ~matchLimitReached
    BY <1>1, <1>4, <1>5, <1>6, <1>7, MatchNext
  <1> QED
    BY <1>2, <1>3, <1>4, <1>8 DEF Success

\* The slow path tells the next line, which is no match.
LEMMA SlowTells ==
    ASSUME SInv, pc = "scan", ~IsFastPath, pos < window, pos' = pos + 1, ~Success,
           NEW kind \in {"before", "after"}, Report(consumed + pos + 1) = kind, Visited = Scanned,
           NEW owed \in Nat, NEW answer \in Answers,
           Sink(kind, pos, answer, SlowTail(matchLimitReached, owed)),
           afterContextLeft' = IF answer = "more" THEN owed ELSE afterContextLeft,
           kind = "after" => ~config.passThru /\ afterContextLeft = owed + 1,
           kind = "before" => config.passThru /\ ~LimitAtStart /\ owed = 0 /\ afterContextLeft = 0,
           UNCHANGED <<inputs, lines, counters, gap>>
    PROVE  SInv'
  <1>1. Live /\ ~InGap
    BY DEF Live, InGap
  <1>2. /\ Types /\ Given /\ Bounds /\ Reporting /\ Owing /\ Counting
        /\ Visited \in Nat /\ Scanned \in Nat /\ consumed \in Nat /\ window \in Nat /\ pos \in Nat
        /\ Len(file) \in Nat /\ Chosen \in SUBSET (1 .. Len(file)) /\ config.after \in Nat
        /\ Reported \in SUBSET (1 .. Len(file)) /\ Matches \in SUBSET (1 .. Len(file))
        /\ lastLineVisited \in Nat /\ afterContextLeft \in Nat /\ matchLimitReached \in BOOLEAN
        /\ config.passThru => config.after = 0
    BY <1>1, Facts, InputsAre DEF Types
  <1>3. PICK l \in Nat : l = consumed + pos + 1
    BY <1>2
  <1>4. /\ l \in 1 .. Len(file) /\ Scanned = consumed + pos /\ l \notin Matches
        /\ lastLineVisited = pos /\ l = Visited + 1
    <2>1. consumed + pos + 1 \in 1 .. Len(file) /\ Scanned = consumed + pos /\ consumed + pos + 1 \notin Matches
      BY <1>1, SuccessRight
    <2> QED
      BY <1>2, <1>3, <2>1 DEF Visited
  <1>5. UNCHANGED <<inputs, consumed, window>>
    BY DEF lines
  <1>6. SlowTail(matchLimitReached, owed) \in {"quit", "scan"} /\ SlowTail(matchLimitReached, owed) \in Places
    BY DEF SlowTail, Places
  <1>7. /\ EventsInOrder' /\ events' \in Seq(Event)
        /\ lineNumber' = consumed' + lastLineCounted' + 1 /\ lineNumber' \in Nat /\ lastLineCounted' = pos
        /\ lastLineVisited' \in Nat /\ stopped' \in BOOLEAN /\ pc' \in Places
        /\ answer # "more" => pc' \in {"quit", "failed"} /\ (pc' = "quit" => stopped')
        /\ answer = "more" => /\ pc' = SlowTail(matchLimitReached, owed)
                              /\ lastLineVisited' = pos + 1 /\ stopped' = FALSE
                              /\ Len(events') = Cardinality(UpTo(Reported, l))
        /\ Cardinality(UpTo(Matches, l)) = Cardinality(UpTo(Matches, Visited)) + 0
        /\ UpTo(Matches, l) # {} <=> UpTo(Matches, Visited) # {}
        /\ \A m \in Chosen : m <= l => m <= Visited
    <2>1. lastLineVisited <= pos /\ consumed + pos + 1 <= Len(file)
      BY <1>2, <1>3, <1>4
    <2>2. /\ \A m \in Reported : m <= Visited \/ m >= consumed + pos + 1
          /\ \A m \in Matches : m <= Visited \/ m >= consumed + pos + 1
      BY <1>2, <1>3, <1>4
    <2>3. kind \in {"match", "before", "after"} /\ kind # "match"
      OBVIOUS
    <2>4. PICK label \in Places : label = SlowTail(matchLimitReached, owed)
      BY <1>6
    <2>5. Sink(kind, pos, answer, label)
      BY <2>4
    <2>6. PICK i \in Nat : i = pos
      BY <1>2
    <2>7. Sink(kind, i, answer, label) /\ l = consumed + i + 1 /\ lastLineVisited <= i /\ l <= Len(file)
      BY <1>3, <2>1, <2>5, <2>6
    <2>8. /\ \A m \in Reported : m <= Visited \/ m >= consumed + i + 1
          /\ \A m \in Matches : m <= Visited \/ m >= consumed + i + 1
          /\ Report(consumed + i + 1) = kind
      BY <2>2, <2>6
    <2>9. consumed + i + 1 <= Len(file)
      BY <2>7
    <2>10. /\ EventsInOrder' /\ events' \in Seq(Event)
           /\ lineNumber' = consumed' + lastLineCounted' + 1 /\ lineNumber' \in Nat /\ lastLineCounted' = i
           /\ lastLineVisited' \in Nat /\ stopped' \in BOOLEAN /\ pc' \in Places
           /\ answer # "more" => pc' \in {"quit", "failed"} /\ (pc' = "quit" => stopped')
      BY <1>1, <1>5, <2>3, <2>7, <2>8, <2>9, Tells
    <2>11. /\ answer = "more" => pc' = label /\ lastLineVisited' = i + 1 /\ stopped' = FALSE
           /\ answer = "more" => Len(events') = Cardinality(UpTo(Reported, consumed + i + 1))
      BY <1>1, <1>5, <2>3, <2>7, <2>8, <2>9, Tells
    <2>12. /\ Cardinality(UpTo(Matches, consumed + i + 1)) =
                 Cardinality(UpTo(Matches, Visited)) + IF kind = "match" THEN 1 ELSE 0
           /\ UpTo(Matches, consumed + i + 1) # {} <=> kind = "match" \/ UpTo(Matches, Visited) # {}
           /\ \A m \in Chosen : m <= consumed + i + 1 => m <= Visited \/ (m = consumed + i + 1 /\ kind = "match")
      BY <1>1, <1>5, <2>3, <2>7, <2>8, <2>9, Tells
    <2> QED
      BY <2>3, <2>4, <2>6, <2>7, <2>10, <2>11, <2>12
  <1>8. Types'
    <2>1. pos' \in Nat /\ afterContextLeft' \in Nat
      BY <1>2
    <2> QED
      BY <1>2, <1>5, <1>7, <2>1 DEF Types, inputs, counters
  <1>9. CASE answer # "more"
    BY <1>7, <1>8, <1>9, Aborts
  <1>10. ASSUME answer = "more"
         PROVE  /\ matchLimitReached' <=> Limited(Cardinality(UpTo(Matches, l)))
                /\ matchCount' = Cardinality(UpTo(Matches, l)) + 0
                /\ hasMatched' <=> UpTo(Matches, l) # {}
                /\ afterContextLeft' = owed
                /\ \A m \in Chosen : m <= l => m + config.after <= l + owed
                /\ owed > 0 => \E m \in Chosen : m <= l /\ m + config.after = l + owed
    <2>1. Cardinality(UpTo(Matches, Visited)) \in Nat
      BY <1>2, CountTo
    <2>2. Cardinality(UpTo(Matches, l)) = Cardinality(UpTo(Matches, Visited))
      BY <1>7, <2>1
    <2>3. matchLimitReached' <=> Limited(Cardinality(UpTo(Matches, l)))
      BY <1>2, <2>2 DEF Counting, counters
    <2>4. /\ matchCount' = Cardinality(UpTo(Matches, l)) + 0
          /\ hasMatched' <=> UpTo(Matches, l) # {}
      BY <1>1, <1>2, <1>7, <2>2 DEF Counting, counters
    <2>5. afterContextLeft' = owed
      BY <1>10
    <2>6. \A m \in Chosen : m <= l => m + config.after <= l + owed
      <3>1. CASE kind = "after"
        <4>1. Visited + afterContextLeft = l + owed
          BY <1>2, <1>4, <3>1
        <4> QED
          BY <1>2, <1>7, <4>1 DEF Owing
      <3>2. CASE kind = "before"
        BY <1>2, <3>2
      <3> QED
        BY <3>1, <3>2
    <2>7. ASSUME owed > 0 PROVE \E m \in Chosen : m <= l /\ m + config.after = l + owed
      <3>1. kind = "after"
        BY <2>7
      <3>2. Visited + afterContextLeft = l + owed /\ afterContextLeft > 0
        BY <1>2, <1>4, <3>1
      <3>3. PICK m \in Chosen : m <= Visited /\ m + config.after = Visited + afterContextLeft
        BY <1>2, <3>2 DEF Owing
      <3>4. m <= l /\ m + config.after = l + owed
        BY <1>2, <1>4, <3>2, <3>3
      <3> QED
        BY <3>4
    <2> QED
      BY <2>3, <2>4, <2>5, <2>6, <2>7
  <1>11. CASE answer = "more" /\ SlowTail(matchLimitReached, owed) = "quit"
    <2>1. matchLimitReached /\ owed = 0 /\ (~config.passThru \/ LimitAtStart)
      BY <1>11 DEF SlowTail
    <2>2. Limited(Cardinality(UpTo(Matches, l)))
      BY <1>10, <1>11, <2>1 DEF counters
    <2>3. \A m \in Chosen : m <= l => m + config.after <= l
      BY <1>2, <1>10, <1>11, <2>1
    <2>4. UpTo(Reported, l) = Reported /\ UpTo(Matches, l) = Matches
      BY <1>2, <2>1, <2>2, <2>3, LimitEnds
    <2>5. Cardinality(Matches) \in Nat
      BY <1>2, CountTo
    <2>6. /\ Len(events') = Cardinality(Reported) /\ matchCount' = Cardinality(Matches)
          /\ hasMatched' <=> Matches # {}
      BY <1>7, <1>10, <1>11, <2>4, <2>5
    <2>7. pc' = "quit" /\ matchLimitReached' = matchLimitReached
      BY <1>7, <1>11 DEF counters
    <2> QED
      BY <1>5, <1>7, <1>8, <2>1, <2>6, <2>7, Concludes
  <1>12. CASE answer = "more" /\ SlowTail(matchLimitReached, owed) = "scan"
    <2>1. pc' = "scan" /\ stopped' = FALSE
      BY <1>7, <1>12
    <2>2. Live' /\ ~InGap'
      BY <2>1 DEF Live, InGap
    <2>3. Visited' = l /\ Scanned' = l
      BY <1>2, <1>3, <1>5, <1>7, <1>12, <2>1, <2>2 DEF Visited, Scanned
    <2>4. Bounds'
      BY <1>2, <1>3, <1>4, <1>5, <1>7, <1>12, <2>3 DEF Bounds, inputs
    <2>5. GapFound' /\ Control'
      BY <2>1, <2>2 DEF GapFound, Control
    <2>6. \A m \in Matches : m <= l \/ m > l
      BY <1>2
    <2> QED
      BY <1>5, <1>7, <1>8, <1>10, <1>12, <2>1, <2>2, <2>3, <2>4, <2>5, <2>6, Resumes
  <1> QED
    BY <1>6, <1>9, <1>11, <1>12

LEMMA SlowLineInv == ASSUME SInv, SlowLine PROVE SInv'
  <1>1. pc = "scan" /\ ~IsFastPath /\ pos < window /\ pos' = pos + 1 /\ UNCHANGED <<inputs, lines, stats>>
    BY DEF SlowLine
  <1>2. Live /\ ~InGap
    BY <1>1 DEF Live, InGap
  <1>3. /\ Types /\ Given /\ Bounds /\ Reporting /\ Owing /\ Counting /\ Control
        /\ Visited \in Nat /\ Scanned \in Nat /\ consumed \in Nat /\ window \in Nat /\ pos \in Nat
        /\ Len(file) \in Nat /\ Chosen \in SUBSET (1 .. Len(file)) /\ afterContextLeft \in Nat
        /\ Reported \in SUBSET (1 .. Len(file)) /\ Matches \in SUBSET (1 .. Len(file)) /\ matchCount \in Nat
    BY <1>2, Facts, InputsAre DEF Types
  <1>4. /\ consumed + pos + 1 \in 1 .. Len(file) /\ Scanned = consumed + pos /\ Visited <= Scanned
        /\ Success <=> consumed + pos + 1 \in Matches
        /\ \A m \in Matches : m <= Visited \/ m > Scanned
        /\ afterContextLeft > 0 => Visited = Scanned
    BY <1>1, <1>2, <1>3, SuccessRight DEF Bounds, Owing, Reporting
  <1>5. ASSUME Success, hasMatched' = TRUE, matchCount' = matchCount + 1, gap' = [from |-> pos, to |-> pos + 1],
               NothingSunk("before"), UNCHANGED <<matchLimitReached, afterContextLeft>>
        PROVE  SInv'
    <2>1. pc' = "before" /\ UNCHANGED <<marks, output>> /\ gap'.from = pos /\ gap'.to = pos + 1
      BY <1>5 DEF NothingSunk
    <2>2. Live' /\ InGap'
      BY <2>1 DEF Live, InGap
    <2>3. Types'
      <3>1. gap' \in [from : Nat, to : Nat] /\ pos' \in Nat /\ matchCount' \in Nat
        BY <1>1, <1>3, <1>5
      <3> QED
        BY <1>1, <1>3, <1>5, <2>1, <3>1 DEF Types, Places, inputs, lines, marks, output
    <2>4. Visited' = Visited /\ Scanned' = Scanned
      BY <1>1, <1>4, <2>1, <2>2 DEF Visited, Scanned, lines, marks
    <2>5. Bounds'
      BY <1>1, <1>3, <2>1, <2>4 DEF Bounds, lines, marks, inputs
    <2>6. ~FastInvert /\ FastInvert' = FastInvert /\ IsFastPath' = IsFastPath /\ Matches' = Matches
      BY <1>1, SameInputs DEF FastInvert
    <2>7. GapFound'
      <3>1. consumed' = consumed /\ window' = window
        BY <1>1 DEF lines
      <3>2. gap'.from < gap'.to /\ gap'.to <= window' /\ gap'.to = gap'.from + 1 /\ pos' = gap'.to
        BY <1>1, <1>3, <2>1, <3>1
      <3>3. consumed' + gap'.from + 1 \in Matches'
        BY <1>4, <1>5, <2>1, <2>6, <3>1
      <3> QED
        BY <1>1, <2>6, <3>2, <3>3 DEF GapFound
    <2>8. Control'
      BY <1>3, <1>4, <1>5, <2>1, <2>4 DEF Control
    <2>9. /\ matchCount' = Cardinality(UpTo(Matches, Visited)) + IF InGap' /\ ~FastInvert THEN 1 ELSE 0
          /\ hasMatched' <=> InGap' \/ UpTo(Matches, Visited) # {}
      <3>1. matchCount = Cardinality(UpTo(Matches, Visited)) + 0 /\ Cardinality(UpTo(Matches, Visited)) \in Nat
        BY <1>2, <1>3, CountTo DEF Counting
      <3> QED
        BY <1>5, <2>2, <2>6, <3>1
    <2>10. UNCHANGED <<inputs, afterContextLeft, matchLimitReached, events, stopped>>
      BY <1>1, <1>5, <2>1 DEF output
    <2>11. /\ \A m \in Reported : m <= Visited \/ m > Visited
           /\ config.passThru /\ ~LimitAtStart => Visited = Scanned
      BY <1>3 DEF Reporting
    <2> QED
      BY <1>2, <1>3, <1>4, <2>2, <2>3, <2>4, <2>5, <2>7, <2>8, <2>9, <2>10, <2>11, Quietly
  <1>6. ASSUME ~Success, afterContextLeft > 0, NEW answer \in Answers,
               Sink("after", pos, answer, SlowTail(matchLimitReached, afterContextLeft - 1)),
               afterContextLeft' = IF answer = "more" THEN afterContextLeft - 1 ELSE afterContextLeft,
               UNCHANGED <<counters, gap>>
        PROVE  SInv'
    <2>1. Visited = Scanned /\ Visited + 1 = consumed + pos + 1
      BY <1>3, <1>4, <1>6
    <2>2. Visited + 1 \in 1 .. Len(file) /\ Visited + 1 \notin Matches
      BY <1>4, <1>6, <2>1
    <2>3. ~config.passThru /\ Report(consumed + pos + 1) = "after"
      BY <1>2, <1>6, <2>1, <2>2, OwedLine
    <2>4. PICK owed \in Nat : owed = afterContextLeft - 1
      BY <1>3, <1>6
    <2>5. afterContextLeft = owed + 1
      BY <1>3, <2>4
    <2> QED
      BY <1>1, <1>6, <2>1, <2>3, <2>4, <2>5, SlowTells
  <1>7. ASSUME ~Success, afterContextLeft = 0, config.passThru, ~LimitAtStart, NEW answer \in Answers,
               Sink("before", pos, answer, SlowTail(matchLimitReached, afterContextLeft)),
               UNCHANGED <<counters, gap, afterContextLeft>>
        PROVE  SInv'
    <2>1. Visited = Scanned
      BY <1>3, <1>7 DEF Reporting
    <2>2. Report(consumed + pos + 1) = "before"
      BY <1>3, <1>4, <1>7, MatchesAre
    <2>3. PICK owed \in Nat : owed = 0
      OBVIOUS
    <2>4. /\ Sink("before", pos, answer, SlowTail(matchLimitReached, owed))
          /\ afterContextLeft' = IF answer = "more" THEN owed ELSE afterContextLeft
      BY <1>7, <2>3
    <2> QED
      BY <1>1, <1>7, <2>1, <2>2, <2>3, <2>4, SlowTells
  <1>8. ASSUME ~Success, afterContextLeft = 0, ~(config.passThru /\ ~LimitAtStart),
               NothingSunk(SlowTail(matchLimitReached, afterContextLeft)),
               UNCHANGED <<counters, gap, afterContextLeft>>
        PROVE  SInv'
    <2>1. pc' = SlowTail(matchLimitReached, 0) /\ UNCHANGED <<marks, output>>
      BY <1>8 DEF NothingSunk
    <2>2. pc' = IF matchLimitReached THEN "quit" ELSE "scan"
      BY <1>8, <2>1 DEF SlowTail
    <2>3. Types'
      <3>1. pos' \in Nat /\ pc' \in Places
        BY <1>1, <1>3, <2>2 DEF Places
      <3> QED
        BY <1>1, <1>3, <1>8, <2>1, <3>1 DEF Types, inputs, lines, marks, output, counters
    <2>4. UNCHANGED <<inputs, events, stopped, matchCount, hasMatched, matchLimitReached, afterContextLeft>>
      BY <1>1, <1>8, <2>1 DEF counters, output
    <2>5. CASE matchLimitReached
      <3>1. Limited(Cardinality(UpTo(Matches, Visited))) /\ (config.passThru => LimitAtStart)
        BY <1>3, <1>8, <2>5 DEF Counting
      <3>2. \A m \in Chosen : m <= Visited => m + config.after <= Visited
        BY <1>3, <1>8 DEF Owing
      <3>3. UpTo(Reported, Visited) = Reported /\ UpTo(Matches, Visited) = Matches
        BY <1>3, <3>1, <3>2, LimitEnds
      <3>4. pc' = "quit"
        BY <2>2, <2>5
      <3> QED
        BY <1>2, <2>3, <2>4, <2>5, <3>3, <3>4, QuietEnd
    <2>6. CASE ~matchLimitReached
      <3>1. pc' = "scan"
        BY <2>2, <2>6
      <3>2. Live' /\ ~InGap'
        BY <3>1 DEF Live, InGap
      <3>3. PICK s \in Nat : s = Scanned + 1
        BY <1>3
      <3>4. Visited' = Visited /\ Scanned' = s
        BY <1>1, <1>3, <1>4, <2>1, <3>1, <3>2, <3>3 DEF Visited, Scanned, lines, marks
      <3>5. Bounds'
        BY <1>1, <1>3, <1>4, <2>1, <3>3, <3>4 DEF Bounds, lines, marks, inputs
      <3>6. GapFound' /\ Control'
        BY <3>1, <3>2 DEF GapFound, Control
      <3>7. /\ matchCount' = Cardinality(UpTo(Matches, Visited)) + IF InGap' /\ ~FastInvert THEN 1 ELSE 0
            /\ hasMatched' <=> InGap' \/ UpTo(Matches, Visited) # {}
        BY <1>2, <1>3, <2>4, <3>2 DEF Counting
      <3>8. /\ \A m \in Reported : m <= Visited \/ m > Visited
            /\ \A m \in Matches : m <= Visited \/ m > s
            /\ Visited <= Visited
        <4>1. s \notin Matches /\ s = Scanned + 1
          BY <1>3, <1>4, <1>8, <3>3
        <4> QED
          BY <1>3, <1>4, <4>1
      <3>9. ~(afterContextLeft > 0)
        BY <1>8
      <3> QED
        BY <1>2, <1>3, <1>8, <2>3, <2>4, <3>2, <3>3, <3>4, <3>5, <3>6, <3>7, <3>8, <3>9, Quietly
    <2> QED
      BY <2>5, <2>6
  <1> QED
    BY <1>5, <1>6, <1>7, <1>8 DEF SlowLine

\* rollConsume drops nothing that is still to be reported.
LEMMA RolledRight ==
    ASSUME SInv, pc = "fill"
    PROVE  /\ Rolled \in Nat /\ lastLineVisited <= Rolled /\ Rolled <= window
           /\ consumed + Rolled = Visited \/ afterContextLeft = 0
           /\ Visited <= consumed + Rolled
           /\ \A m \in Reported : m <= Visited \/ m > consumed + Rolled
           /\ Visited = Scanned => consumed + Rolled = Scanned
  <1>1. Live /\ ~InGap
    BY DEF Live, InGap
  <1>2. /\ Types /\ Given /\ Bounds /\ Reporting /\ Owing /\ Control
        /\ Visited \in Nat /\ Scanned \in Nat /\ consumed \in Nat /\ window \in Nat
        /\ lastLineVisited \in Nat /\ afterContextLeft \in Nat
        /\ Len(file) \in Nat /\ Chosen \in SUBSET (1 .. Len(file)) /\ Reported \in SUBSET (1 .. Len(file))
        /\ config.before \in Nat /\ config.after \in Nat
    BY <1>1, Facts, InputsAre DEF Types
  <1>3. /\ Scanned = consumed + window /\ Visited = consumed + lastLineVisited /\ lastLineVisited <= window
        /\ afterContextLeft = 0 \/ Visited = Scanned
        /\ \A m \in Matches : m <= Visited \/ m > Scanned
        /\ config.passThru /\ ~LimitAtStart => Visited = Scanned
    BY <1>1, <1>2 DEF Scanned, Visited, Control, Bounds, Reporting
  <1>4. /\ Rolled \in Nat /\ lastLineVisited <= Rolled /\ Rolled <= window
        /\ Rolled = lastLineVisited \/ Rolled + config.before <= window
    BY <1>2, <1>3 DEF Rolled, MaxContext, Larger
  <1>5. PICK r \in Nat : r = Rolled
    BY <1>4
  <1>6. CASE Visited = Scanned
    <2>1. r = window /\ r = lastLineVisited
      BY <1>2, <1>3, <1>4, <1>5, <1>6
    <2> QED
      BY <1>2, <1>3, <1>5, <2>1
  <1>7. CASE Visited # Scanned
    <2>1. afterContextLeft = 0 /\ (config.passThru => LimitAtStart)
      BY <1>3, <1>7
    <2>2. ASSUME NEW j \in Reported, j > Visited, j <= consumed + r PROVE FALSE
      <3>1. j \in 1 .. Len(file) /\ j \in Nat /\ j <= Scanned /\ j \notin Matches
        BY <1>2, <1>3, <1>4, <1>5, <2>2
      <3>2. \A m \in Chosen : m \in Matches /\ m \in Nat /\ (m <= Visited => m + config.after <= Visited)
        BY <1>2, <2>1, MatchesAre DEF Owing
      <3>3. \A m \in Chosen : m < j => m + config.after < j
        BY <1>2, <1>3, <2>2, <3>1, <3>2
      <3>4. j + config.before <= Scanned
        BY <1>2, <1>3, <1>4, <1>5, <2>2, <3>1
      <3>5. \A m \in Chosen : m > j => m > j + config.before
        BY <1>2, <1>3, <2>2, <3>1, <3>2, <3>4
      <3> QED
        BY <1>2, <2>1, <2>2, <3>1, <3>3, <3>5, Silent
    <2>3. \A m \in Reported : m <= Visited \/ m > consumed + r
      <3>1. \A m \in Reported : m \in Nat
        BY <1>2
      <3> QED
        BY <1>2, <2>2, <3>1
    <2> QED
      BY <1>2, <1>3, <1>4, <1>5, <1>7, <2>1, <2>3
  <1> QED
    BY <1>6, <1>7

LEMMA FillInv == ASSUME SInv, Fill PROVE SInv'
  <1>1. /\ pc = "fill" /\ RollConsume
        /\ pc' = IF window' = 0 THEN "finish" ELSE "scan"
        /\ UNCHANGED <<inputs, afterContextLeft, counters, gap, output, stats>>
    BY DEF Fill
  <1>2. Live /\ ~InGap
    BY <1>1 DEF Live, InGap
  <1>3. /\ Types /\ Given /\ Bounds /\ Reporting /\ Owing /\ Counting /\ Control
        /\ Visited \in Nat /\ Scanned \in Nat /\ consumed \in Nat /\ window \in Nat /\ pos \in Nat
        /\ lineNumber \in Nat /\ lastLineCounted \in Nat /\ lastLineVisited \in Nat
        /\ Len(file) \in Nat /\ Reported \in SUBSET (1 .. Len(file))
    BY <1>2, Facts, InputsAre DEF Types
  <1>4. PICK n \in 0 .. Len(file) - consumed - window :
            /\ n = 0 => consumed + window = Len(file)
            /\ IF Stalled(n)
               THEN consumed' = consumed + window /\ window' = 0
               ELSE consumed' = consumed + Rolled /\ window' = window - Rolled + n
    BY DEF Fill
  <1>5. PICK r \in Nat : r = Rolled
    BY <1>1, RolledRight
  <1>6. /\ lastLineVisited <= r /\ r <= window
        /\ consumed + r = Visited \/ afterContextLeft = 0
        /\ Visited <= consumed + r
        /\ \A m \in Reported : m <= Visited \/ m > consumed + r
        /\ Visited = Scanned => consumed + r = Scanned
    BY <1>1, <1>5, RolledRight
  <1>7. /\ lineNumber' = consumed + r + 1 /\ lastLineCounted' = 0 /\ lastLineVisited' = 0 /\ pos' = window - r
    BY <1>1, <1>3, <1>5, <1>6 DEF RollConsume, Larger, Bounds
  <1>8. n \in Nat /\ consumed + window + n <= Len(file) /\ Scanned = consumed + window
    BY <1>1, <1>2, <1>3 DEF Control, Bounds, Scanned
  <1>9. consumed' \in Nat /\ window' \in Nat
    BY <1>3, <1>4, <1>5, <1>6, <1>8
  <1>10. Types'
    <2>1. pos' \in Nat /\ lineNumber' \in Nat /\ lastLineCounted' \in Nat /\ lastLineVisited' \in Nat /\ pc' \in Places
      BY <1>1, <1>3, <1>6, <1>7 DEF Places
    <2> QED
      BY <1>1, <1>3, <1>9, <2>1 DEF Types, inputs, counters, output
  <1>11. UNCHANGED <<inputs, events, stopped, matchCount, hasMatched, matchLimitReached, afterContextLeft>>
    BY <1>1 DEF counters, output
  <1>12. CASE window' = 0
    <2>1. consumed + window = Len(file) /\ consumed' = Len(file)
      <3>1. CASE Stalled(n)
        BY <1>4, <3>1 DEF Stalled
      <3>2. CASE ~Stalled(n)
        BY <1>3, <1>4, <1>5, <1>6, <1>8, <1>12, <3>2
      <3> QED
        BY <3>1, <3>2
    <2>2. Scanned = Len(file) /\ (afterContextLeft = 0 \/ Visited = Scanned)
      BY <1>1, <1>3, <1>8, <2>1 DEF Control
    <2>3. UpTo(Reported, Visited) = Reported /\ UpTo(Matches, Visited) = Matches
      BY <1>3, <2>2, FileEnds
    <2>4. pc' = "finish"
      BY <1>1, <1>12
    <2> QED
      BY <1>2, <1>10, <1>11, <2>1, <2>3, <2>4, QuietEnd
  <1>13. CASE window' # 0
    <2>1. consumed' = consumed + r /\ window' = window - r + n
      BY <1>4, <1>5, <1>13
    <2>2. pc' = "scan"
      BY <1>1, <1>13
    <2>3. Live' /\ ~InGap'
      BY <2>2 DEF Live, InGap
    <2>4. PICK v \in Nat : v = consumed + r
      BY <1>3
    <2>5. Visited' = v /\ Scanned' = Scanned
      BY <1>3, <1>6, <1>7, <1>8, <2>1, <2>2, <2>3, <2>4 DEF Visited, Scanned
    <2>6. Bounds'
      <3>1. config' = config /\ file' = file /\ ~config.whole
        BY <1>1, <1>3 DEF inputs, Control
      <3>2. v <= Scanned
        BY <1>3, <1>6, <1>8, <2>4
      <3>3. /\ consumed' + window' <= Len(file') /\ pos' <= window' /\ Scanned' <= consumed' + window'
            /\ lastLineCounted' <= lastLineVisited' /\ lineNumber' = consumed' + lastLineCounted' + 1
        BY <1>3, <1>6, <1>7, <1>8, <2>1, <2>5, <3>1
      <3> QED
        BY <2>5, <3>1, <3>2, <3>3 DEF Bounds
    <2>7. GapFound' /\ Control'
      BY <2>2, <2>3 DEF GapFound, Control
    <2>8. /\ matchCount' = Cardinality(UpTo(Matches, Visited)) + IF InGap' /\ ~FastInvert THEN 1 ELSE 0
          /\ hasMatched' <=> InGap' \/ UpTo(Matches, Visited) # {}
      BY <1>2, <1>3, <1>11, <2>3 DEF Counting
    <2>9. /\ Visited <= v /\ (v = Visited \/ afterContextLeft = 0)
          /\ \A m \in Reported : m <= Visited \/ m > v
          /\ \A m \in Matches : m <= Visited \/ m > Scanned
      BY <1>3, <1>6, <2>4 DEF Reporting
    <2>10. /\ config.passThru /\ ~LimitAtStart => v = Scanned
           /\ afterContextLeft > 0 /\ ~IsFastPath => v = Scanned
      BY <1>3, <1>6, <2>4 DEF Reporting, Owing
    <2> QED
      BY <1>2, <1>3, <1>10, <1>11, <2>3, <2>4, <2>5, <2>6, <2>7, <2>8, <2>9, <2>10, Quietly
  <1> QED
    BY <1>12, <1>13

LEMMA ReadFailsInv == ASSUME SInv, ReadFails PROVE SInv'
  <1>1. /\ pc = "fill" /\ RollConsume /\ consumed' = consumed + Rolled /\ window' = window - Rolled
        /\ pc' = "failed"
        /\ UNCHANGED <<inputs, afterContextLeft, counters, gap, output, stats>>
    BY DEF ReadFails
  <1>2. Live
    BY <1>1 DEF Live
  <1>3. /\ Types /\ EventsInOrder /\ consumed \in Nat /\ window \in Nat
        /\ lineNumber \in Nat /\ lastLineCounted \in Nat
    BY <1>2, Facts DEF Types
  <1>4. Rolled \in Nat /\ Rolled <= window
    BY <1>1, RolledRight
  <1>5. consumed' \in Nat /\ window' \in Nat /\ pos' \in Nat /\ lineNumber' \in Nat
        /\ lastLineCounted' \in Nat /\ lastLineVisited' \in Nat
    BY <1>1, <1>3, <1>4 DEF RollConsume, Larger
  <1>6. Types'
    BY <1>1, <1>3, <1>5 DEF Types, Places, inputs, counters, output
  <1>7. EventsInOrder'
    BY <1>1, <1>3, SameEvents DEF output
  <1> QED
    BY <1>1, <1>6, <1>7, Aborts

LEMMA SinkGapInv == ASSUME SInv, SinkGap PROVE SInv'
  <1>1. pc = "match" /\ gap.from < gap.to /\ UNCHANGED <<inputs, lines, hasMatched, stats>>
    BY DEF SinkGap
  <1>2. PICK answer \in Answers :
            /\ matchCount' = Counted
            /\ matchLimitReached' = (matchLimitReached \/ (answer = "more" /\ Limited(Counted)))
            /\ afterContextLeft' = IF answer = "more" THEN config.after ELSE afterContextLeft
            /\ gap' = [gap EXCEPT !.from = @ + 1]
            /\ pos' = Larger(pos, gap.from + 1)
            /\ Sink("match", gap.from, answer,
                    IF ~IsFastPath THEN SlowTail(matchLimitReached', config.after)
                    ELSE IF gap'.from < gap.to /\ ~matchLimitReached' THEN "match" ELSE "scan")
    BY DEF SinkGap
  <1>3. Live /\ InGap
    BY <1>1 DEF Live, InGap
  <1>4. /\ Types /\ Given /\ Bounds /\ Reporting /\ Owing /\ Counting /\ Control /\ GapFound
        /\ Visited \in Nat /\ Scanned \in Nat /\ consumed \in Nat /\ window \in Nat /\ pos \in Nat
        /\ Len(file) \in Nat /\ Chosen \in SUBSET (1 .. Len(file)) /\ afterContextLeft \in Nat
        /\ Reported \in SUBSET (1 .. Len(file)) /\ Matches \in SUBSET (1 .. Len(file)) /\ matchCount \in Nat
        /\ lastLineVisited \in Nat /\ matchLimitReached \in BOOLEAN /\ hasMatched \in BOOLEAN
        /\ gap \in [from : Nat, to : Nat] /\ config.after \in Nat /\ config.before \in Nat
        /\ config.passThru => config.after = 0
        /\ config.invert \in BOOLEAN
    BY <1>3, Facts, InputsAre DEF Types
  <1>5. PICK f \in Nat : f = gap.from
    BY <1>4
  <1>6. PICK t \in Nat : t = gap.to
    BY <1>4
  <1>7. PICK l \in Nat : l = consumed + f + 1
    BY <1>4
  <1>8. /\ Scanned = consumed + f /\ Visited = consumed + lastLineVisited /\ Visited <= Scanned
        /\ \A m \in Matches : m <= Visited \/ m > Scanned
        /\ consumed + window <= Len(file) /\ f < t /\ t <= window
        /\ l \in Matches /\ l \in 1 .. Len(file)
        /\ afterContextLeft = 0 \/ Visited = Scanned
        /\ config.before = 0 \/ Visited = Scanned
    BY <1>1, <1>3, <1>4, <1>5, <1>6, <1>7 DEF Scanned, Visited, Bounds, GapFound, Control, Reporting
  <1>9. /\ \A m \in Matches : m <= Visited \/ m >= l
        /\ Report(l) = "match"
    BY <1>4, <1>7, <1>8, MatchesAre
  <1>10. \A m \in Reported : m <= Visited \/ m >= l
    <2>1. CASE Visited = Scanned
      BY <1>4, <1>7, <1>8, <2>1
    <2>2. ASSUME Visited # Scanned, NEW j \in Reported, j > Visited, j < l PROVE FALSE
      <3>1. /\ afterContextLeft = 0 /\ config.before = 0 /\ (config.passThru => LimitAtStart)
        BY <1>4, <1>8, <2>2 DEF Reporting
      <3>2. j \in 1 .. Len(file) /\ j \in Nat /\ j <= Scanned /\ j \notin Matches
        BY <1>4, <1>7, <1>8, <2>2
      <3>3. \A m \in Chosen : m \in Matches /\ m \in Nat /\ (m <= Visited => m + config.after <= Visited)
        BY <1>4, <3>1, MatchesAre DEF Owing
      <3>4. \A m \in Chosen : m < j => m + config.after < j
        BY <1>4, <1>9, <2>2, <3>2, <3>3
      <3>5. \A m \in Chosen : m > j => m > j + config.before
        BY <1>4, <3>1, <3>2, <3>3
      <3> QED
        BY <1>4, <2>2, <3>1, <3>2, <3>4, <3>5, Silent
    <2>3. \A m \in Reported : m \in Nat
      BY <1>4
    <2> QED
      BY <1>4, <1>7, <2>1, <2>2, <2>3
  <1>11. gap'.from = f + 1 /\ gap'.to = t /\ gap' \in [from : Nat, to : Nat]
    BY <1>2, <1>4, <1>5, <1>6, SMTT(30)
  <1>12. PICK label : label = IF ~IsFastPath THEN SlowTail(matchLimitReached', config.after)
                              ELSE IF gap'.from < gap.to /\ ~matchLimitReached' THEN "match" ELSE "scan"
    OBVIOUS
  <1>13. label \in Places /\ label \in {"quit", "scan", "match"}
    BY <1>12 DEF SlowTail, Places
  <1>14. UNCHANGED <<inputs, consumed, window>>
    BY <1>1 DEF lines
  <1>15. Sink("match", f, answer, label) /\ lastLineVisited <= f /\ consumed + f + 1 <= Len(file)
    BY <1>2, <1>4, <1>5, <1>7, <1>8, <1>12, SMTT(30)
  <1>16. /\ \A m \in Reported : m <= Visited \/ m >= consumed + f + 1
         /\ \A m \in Matches : m <= Visited \/ m >= consumed + f + 1
         /\ Report(consumed + f + 1) = "match"
    BY <1>7, <1>9, <1>10
  <1>17. /\ EventsInOrder' /\ events' \in Seq(Event)
         /\ lineNumber' = consumed' + lastLineCounted' + 1 /\ lineNumber' \in Nat /\ lastLineCounted' = f
         /\ lastLineVisited' \in Nat /\ stopped' \in BOOLEAN /\ pc' \in Places
         /\ answer # "more" => pc' \in {"quit", "failed"} /\ (pc' = "quit" => stopped')
         /\ answer = "more" => pc' = label /\ lastLineVisited' = f + 1 /\ stopped' = FALSE
         /\ answer = "more" => Len(events') = Cardinality(UpTo(Reported, l))
    BY <1>3, <1>7, <1>13, <1>14, <1>15, <1>16, Tells
  <1>18. Cardinality(UpTo(Matches, l)) = Cardinality(UpTo(Matches, Visited)) + 1 /\ UpTo(Matches, l) # {}
    BY <1>3, <1>7, <1>13, <1>14, <1>15, <1>16, Tells
  <1>19. PICK c \in Nat : c = Cardinality(UpTo(Matches, Visited))
    BY <1>4, CountTo
  <1>20. Counted = c + 1 /\ Cardinality(UpTo(Matches, l)) = c + 1
    BY <1>3, <1>4, <1>18, <1>19 DEF Counted, Counting, FastInvert
  <1>21. Types'
    <2>1. pos' \in Nat /\ afterContextLeft' \in Nat /\ matchCount' \in Nat /\ matchLimitReached' \in BOOLEAN
      <3>1. pos' \in Nat
        BY <1>2, <1>4, <1>5 DEF Larger
      <3>2. matchCount' \in Nat /\ afterContextLeft' \in Nat
        BY <1>2, <1>4, <1>20, SMTT(30)
      <3>3. matchLimitReached' \in BOOLEAN
        BY <1>2, Zenon
      <3> QED
        BY <3>1, <3>2, <3>3
    <2>2. lastLineCounted' \in Nat
      BY <1>17
    <2> QED
      BY <1>1, <1>4, <1>11, <1>14, <1>17, <2>1, <2>2 DEF Types, inputs
  <1>22. CASE answer # "more"
    BY <1>17, <1>21, <1>22, Aborts
  <1>23. ASSUME answer = "more"
         PROVE  /\ matchLimitReached' <=> Limited(Cardinality(UpTo(Matches, l)))
                /\ matchCount' = Cardinality(UpTo(Matches, l)) + 0
                /\ hasMatched' = TRUE /\ afterContextLeft' = config.after
                /\ \A m \in Chosen : m <= l => m + config.after <= l + afterContextLeft'
                /\ afterContextLeft' > 0 => \E m \in Chosen : m <= l /\ m + config.after = l + afterContextLeft'
    <2>1. Limited(c) => Limited(c + 1)
      <3>1. config.maxCount \in Nat \/ config.maxCount = NoLimit
        BY <1>4, InputsAre
      <3> QED
        BY <3>1 DEF Limited
    <2>2. matchLimitReached <=> Limited(c)
      BY <1>4, <1>19 DEF Counting
    <2>3. matchLimitReached' <=> Limited(c + 1)
      BY <1>2, <1>20, <1>23, <2>1, <2>2, Zenon
    <2>4. matchLimitReached' <=> Limited(Cardinality(UpTo(Matches, l)))
      BY <1>20, <2>3, Zenon
    <2>5. hasMatched' = TRUE
      BY <1>1, <1>3, <1>4 DEF Counting
    <2>6. afterContextLeft' = config.after
      BY <1>2, <1>23
    <2>7. \A m \in Chosen : m <= l => m + config.after <= l + afterContextLeft'
      BY <1>4, <2>6
    <2>8. ASSUME config.after > 0 PROVE l \in Chosen
      <3>1. ~config.passThru
        BY <1>4, <2>8
      <3> QED
        BY <1>4, <1>8, <3>1, MatchesAre
    <2>9. afterContextLeft' > 0 => \E m \in Chosen : m <= l /\ m + config.after = l + afterContextLeft'
      BY <1>4, <2>6, <2>8
    <2> QED
      BY <1>2, <1>4, <1>20, <2>4, <2>5, <2>6, <2>7, <2>9, SMTT(30)
  <1>24. ASSUME answer = "more", label # "quit", NEW s \in Nat, s = Scanned', l <= s, s <= consumed + window,
                GapFound', pos' <= window,
                \A m \in Matches : m <= l \/ m > s,
                config.passThru /\ ~LimitAtStart => l = s,
                ~IsFastPath => l = s,
                label = "match" => l = s /\ FastInvert
         PROVE  SInv'
    <2>1. pc' = label /\ stopped' = FALSE /\ lastLineVisited' = f + 1
      BY <1>17, <1>24
    <2>2. Live' /\ (InGap' => FastInvert) /\ pc' \in {"scan", "match"}
      BY <1>13, <1>24, <2>1 DEF Live, InGap
    <2>3. Visited' = l
      BY <1>4, <1>7, <1>14, <2>1 DEF Visited
    <2>4. Bounds'
      <3>1. config' = config /\ file' = file /\ consumed' = consumed /\ window' = window
        BY <1>14 DEF inputs
      <3>2. lastLineCounted' <= lastLineVisited'
        BY <1>17, <2>1
      <3> QED
        BY <1>4, <1>17, <1>24, <2>3, <3>1, <3>2 DEF Bounds
    <2>5. Control'
      BY <1>24, <2>1, <2>2, <2>3 DEF Control
    <2>6. /\ Len(events') = Cardinality(UpTo(Reported, l))
          /\ matchCount' = Cardinality(UpTo(Matches, l)) + IF InGap' /\ ~FastInvert THEN 1 ELSE 0
          /\ hasMatched' <=> InGap' \/ UpTo(Matches, l) # {}
      BY <1>17, <1>18, <1>23, <1>24, <2>2
    <2> QED
      BY <1>1, <1>17, <1>21, <1>23, <1>24, <2>1, <2>2, <2>3, <2>4, <2>5, <2>6, Resumes
  <1>25. CASE answer = "more" /\ ~IsFastPath
    <2>1. pos = f + 1
      BY <1>3, <1>4, <1>5, <1>25 DEF GapFound, FastInvert
    <2>2. pos' = f + 1 /\ label = SlowTail(matchLimitReached', config.after)
      BY <1>2, <1>5, <1>12, <1>25, <2>1 DEF Larger
    <2>3. CASE label = "quit"
      <3>1. matchLimitReached' /\ config.after = 0 /\ (config.passThru => LimitAtStart)
        BY <2>2, <2>3 DEF SlowTail
      <3>2. Limited(Cardinality(UpTo(Matches, l)))
        BY <1>23, <1>25, <3>1
      <3>3. \A m \in Chosen : m <= l => m + config.after <= l
        BY <1>4, <3>1
      <3>4. UpTo(Reported, l) = Reported /\ UpTo(Matches, l) = Matches
        BY <1>4, <3>1, <3>2, <3>3, LimitEnds
      <3>5. Len(events') = Cardinality(Reported) /\ matchCount' = Cardinality(Matches) /\ (hasMatched' <=> Matches # {})
        BY <1>17, <1>18, <1>20, <1>2, <1>23, <1>25, <3>4
      <3>6. pc' = "quit"
        BY <1>17, <1>25, <2>3
      <3> QED
        BY <1>1, <1>17, <1>21, <3>1, <3>5, <3>6, Concludes
    <2>4. CASE label # "quit"
      <3>1. label = "scan" /\ pc' = "scan"
        BY <1>17, <1>25, <2>2, <2>4 DEF SlowTail
      <3>2. ~InGap' /\ Scanned' = l
        BY <1>4, <1>7, <1>14, <2>2, <3>1 DEF InGap, Scanned
      <3>3. GapFound'
        BY <3>2 DEF GapFound
      <3>4. l <= l /\ l <= consumed + window /\ pos' <= window /\ \A m \in Matches : m <= l \/ m > l
        BY <1>4, <1>7, <1>8, <2>2
      <3> QED
        BY <1>24, <1>25, <2>4, <3>1, <3>2, <3>3, <3>4
    <2> QED
      BY <2>3, <2>4
  <1>26. CASE answer = "more" /\ IsFastPath /\ ~config.invert
    <2>1. t = f + 1 /\ pos <= f /\ ~config.passThru /\ ~FastInvert
      BY <1>3, <1>4, <1>5, <1>6, <1>26 DEF GapFound, FastInvert, IsFastPath
    <2>2. pos' = f + 1 /\ label = "scan" /\ pc' = "scan"
      BY <1>2, <1>4, <1>5, <1>6, <1>11, <1>12, <1>17, <1>26, <2>1, SMTT(30) DEF Larger
    <2>3. ~InGap' /\ Scanned' = l
      BY <1>4, <1>7, <1>14, <2>2 DEF InGap, Scanned
    <2>4. GapFound'
      BY <2>3 DEF GapFound
    <2>5. l <= l /\ l <= consumed + window /\ pos' <= window /\ \A m \in Matches : m <= l \/ m > l
      BY <1>4, <1>7, <1>8, <2>2
    <2> QED
      BY <1>24, <1>26, <2>1, <2>2, <2>3, <2>4, <2>5
  <1>27. CASE answer = "more" /\ IsFastPath /\ config.invert
    <2>1. FastInvert /\ ~config.passThru
      BY <1>27 DEF FastInvert, IsFastPath
    <2>2. /\ ~matchLimitReached /\ t <= pos /\ pos <= window
          /\ \A j \in f .. t - 1 : ~Verify(j)
          /\ \A j \in t .. pos - 1 : Verify(j)
      BY <1>3, <1>4, <1>5, <1>6, <2>1 DEF GapFound, Bounds
    <2>3. pos' = pos
      BY <1>2, <1>4, <1>5, <1>8, <2>2, SMTT(30) DEF Larger
    <2>4. matchLimitReached' <=> Limited(Cardinality(UpTo(Matches, l)))
      BY <1>23, <1>27
    <2>5. label = IF f + 1 < t /\ ~matchLimitReached' THEN "match" ELSE "scan"
      BY <1>6, <1>11, <1>12, <1>27
    <2>6. CASE f + 1 < t /\ ~matchLimitReached'
      <3>1. pc' = "match" /\ label = "match"
        BY <1>17, <1>27, <2>5, <2>6
      <3>2. InGap' /\ Scanned' = l
        BY <1>4, <1>7, <1>11, <1>14, <3>1 DEF InGap, Scanned
      <3>3. PICK g \in Nat : g = consumed + (f + 1) + 1
        BY <1>4
      <3>4. g \in 1 .. Len(file) /\ l <= g - 1 /\ g \in Selected
        <4>1. consumed + (f + 1) + 1 <= Len(file) /\ f + 1 \in f .. t - 1
          BY <1>4, <1>8, <2>6
        <4>2. /\ consumed + (f + 1) + 1 \in 1 .. Len(file) /\ Verify(f + 1) \in BOOLEAN
              /\ consumed + (f + 1) + 1 \in Selected <=> Verify(f + 1) # config.invert
          BY <1>4, <4>1, LineAt
        <4>3. ~Verify(f + 1)
          BY <2>2, <4>1
        <4>4. Verify(f + 1) = FALSE /\ config.invert = TRUE
          BY <1>4, <1>27, <4>2, <4>3
        <4>5. consumed + (f + 1) + 1 \in Selected
          BY <4>2, <4>4
        <4> QED
          BY <1>4, <1>7, <3>3, <4>2, <4>5
      <3>5. \A m \in Matches : m <= l \/ m >= g
        BY <1>4, <1>7, <3>3
      <3>6. g \in Matches
        BY <1>4, <2>1, <2>4, <2>6, <3>4, <3>5, MatchNext
      <3>7. GapFound'
        <4>1. /\ FastInvert' = FastInvert /\ IsFastPath' = IsFastPath /\ Matches' = Matches
              /\ config' = config /\ consumed' = consumed /\ window' = window
              /\ \A j : Verify(j)' = Verify(j)
          BY <1>1, <1>14, SameInputs DEF Verify, inputs
        <4>2. gap'.from < gap'.to /\ gap'.to <= window' /\ consumed' + gap'.from + 1 \in Matches'
          BY <1>8, <1>11, <2>6, <3>3, <3>6, <4>1
        <4>3. /\ ~matchLimitReached' /\ gap'.to <= pos'
              /\ \A j \in gap'.from .. gap'.to - 1 : ~Verify(j)
              /\ \A j \in gap'.to .. pos' - 1 : Verify(j)
          <5>1. \A j \in f + 1 .. t - 1 : j \in f .. t - 1
            OBVIOUS
          <5> QED
            BY <1>11, <2>2, <2>3, <2>6, <5>1
        <4> QED
          BY <1>27, <2>1, <4>1, <4>2, <4>3 DEF GapFound
      <3>8. l <= l /\ l <= consumed + window /\ pos' <= window /\ \A m \in Matches : m <= l \/ m > l
        BY <1>4, <1>7, <1>8, <2>2, <2>3
      <3> QED
        BY <1>24, <1>27, <2>1, <3>1, <3>2, <3>7, <3>8
    <2>7. CASE ~(f + 1 < t /\ ~matchLimitReached')
      <3>1. pc' = "scan" /\ label = "scan"
        BY <1>17, <1>27, <2>5, <2>7
      <3>2. PICK s \in Nat : s = consumed + pos
        BY <1>4
      <3>3. ~InGap' /\ Scanned' = s
        BY <1>4, <1>14, <2>3, <3>1, <3>2 DEF InGap, Scanned
      <3>4. GapFound'
        BY <3>3 DEF GapFound
      <3>5. l <= s /\ s <= consumed + window /\ pos' <= window
        BY <1>4, <1>7, <1>8, <2>2, <2>3, <3>2
      <3>6. \A m \in Matches : m <= l \/ m > s
        <4>1. CASE matchLimitReached'
          BY <1>4, <2>1, <2>4, <4>1, NoneLeft
        <4>2. CASE ~matchLimitReached'
          <5>1. t = f + 1
            BY <1>8, <2>7, <4>2
          <5>2. ASSUME NEW m \in Matches, m > l, m <= s PROVE FALSE
            <6>1. PICK j \in Nat : m = consumed + j + 1
              <7>1. m - consumed - 1 \in Nat /\ m = consumed + (m - consumed - 1) + 1
                BY <1>4, <1>7, <5>2
              <7> QED
                BY <7>1
            <6>2. j \in t .. pos - 1 /\ consumed + j + 1 <= Len(file)
              BY <1>4, <1>7, <1>8, <2>2, <3>2, <5>1, <5>2, <6>1
            <6>3. Verify(j) \in BOOLEAN /\ Verify(j) # config.invert
              BY <1>4, <2>1, <5>2, <6>1, <6>2, LineAt
            <6> QED
              BY <1>4, <1>27, <2>2, <6>2, <6>3
          <5>3. \A m \in Matches : m \in Nat
            BY <1>4
          <5> QED
            BY <5>2, <5>3
        <4> QED
          BY <4>1, <4>2
      <3> QED
        BY <1>24, <1>27, <2>1, <3>1, <3>2, <3>3, <3>4, <3>5, <3>6
    <2> QED
      BY <2>6, <2>7
  <1> QED
    BY <1>22, <1>25, <1>26, <1>27

LEMMA StepInv == ASSUME SInv, [Next]_vars PROVE SInv'
  <1>1. CASE Next
    BY <1>1, BeginInv, FillInv, ReadFailsInv, SlowLineInv, SlowEndInv, FastFindInv, FastEndInv, AfterInv,
       BeforeInv, SinkGapInv, DrainInv, FinishInv, StutterInv DEF Next, Step, Returned
  <1>2. CASE UNCHANGED vars
    BY <1>2, StutterInv
  <1> QED
    BY <1>1, <1>2

-----------------------------------------------------------------------------
\* What is known in every state: the counters, the lines owed and the lines found agree
\* with what grep reports of the lines that were visited.
THEOREM SearcherInductive == Spec => []SInv
  <1>1. Init => SInv
    BY InitInv
  <1>2. SInv /\ [Next]_vars => SInv'
    BY StepInv
  <1> QED
    BY <1>1, <1>2, PTL DEF Spec

\* core.go and search.go: the Sink receives the lines grep reports, in order, each once, with
\* its kind and its number, and Finish is told how many matched, for files, contexts and
\* limits of any size and reads that cut the file anywhere.
THEOREM ReportedExactly == Spec => []EventsRight
  <1>1. SInv => EventsRight
    BY DEF SInv
  <1> QED
    BY <1>1, SearcherInductive, PTL
=============================================================================
