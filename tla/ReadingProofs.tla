---------------------------- MODULE ReadingProofs ----------------------------
(***************************************************************************)
(* Proofs about the rolling buffer, for every file, buffer size and        *)
(* reader, and about rawFile and bomReader: together these two are one of  *)
(* the readers that Search is proved for, so that what is proved of the    *)
(* buffer holds of files with or without a mark, and of pipes.             *)
(***************************************************************************)
EXTENDS Reading, FiniteSetTheorems, WellFoundedInduction, TLAPS

-----------------------------------------------------------------------------
(* The first and the last element of a range of positions.                 *)

\* A non-empty set of naturals has a first element: IndexByte finds it.
LEMMA MinExists ==
    ASSUME NEW S \in SUBSET Nat, S # {}
    PROVE  Min(S) \in S /\ \A i \in S : Min(S) <= i
  <1>1. \E R : /\ IsWellFoundedOn(R, Nat)
               /\ \A i, j \in Nat : i < j => <<i, j>> \in R
    <2>1. IsWellFoundedOn({ss \in Nat \X Nat : ss[1] < ss[2]}, Nat)
      BY NatLessThanWellFounded DEF OpToRel
    <2> QED
      BY <2>1
  <1>2. PICK R : /\ IsWellFoundedOn(R, Nat)
                 /\ \A i, j \in Nat : i < j => <<i, j>> \in R
    BY <1>1
  <1>3. S \subseteq Nat /\ IsWellFoundedOn(R, Nat)
    BY <1>2
  <1>4. PICK m \in S : \A i \in S : ~(<<i, m>> \in R)
    BY <1>3, WFMin
  <1>5. \A i \in S : i \in Nat /\ m \in Nat /\ ~(i < m)
    BY <1>2, <1>3, <1>4, Zenon
  <1>6. \A i \in S : m <= i
    BY <1>5
  <1> QED
    BY <1>6 DEF Min

\* A non-empty set of positions below b has a last element: LastIndexByte.
LEMMA MaxExists ==
    ASSUME NEW S \in SUBSET Nat, S # {}, NEW b \in Nat, \A i \in S : i <= b
    PROVE  Max(S) \in S /\ \A i \in S : Max(S) >= i
  <1> DEFINE T == {b - i : i \in S}
  <1>0. \A i \in S : i \in Nat /\ b - i \in Nat
    OBVIOUS
  <1>1. T \in SUBSET Nat /\ T # {}
    BY <1>0, Zenon
  <1>2. Min(T) \in T /\ \A i \in T : Min(T) <= i
    <2> HIDE DEF T
    <2> QED
      BY <1>1, MinExists
  <1>3. PICK m \in S : Min(T) = b - m
    BY <1>2
  <1>4. \A i \in S : m >= i
    BY <1>2, <1>3
  <1> QED
    BY <1>4 DEF Max

-----------------------------------------------------------------------------
(* The inductive invariant.                                                *)

\* The window fill is about to return.
Complete == last > pos => \/ buf[last - 1] = "nl"
                          \/ last = end /\ (Quitting \/ ended)

\* What Search and fill rely on at each place: inside fill the buffer starts at
\* pos = 0 and no NUL has ended the search; a fill that found no new line has
\* made everything in the buffer a window.
Control ==
    /\ oldLen - consumed >= 0
    /\ pc = "fill" => oldLen - consumed = last - pos
    /\ pc = "read" => pos = 0 /\ ~Quitting /\ oldLen - consumed <= end
    /\ pc = "filled" => last = end \/ last - pos > oldLen - consumed
    /\ pc \in {"filled", "scan"} => Complete
    /\ pc = "scan" => last > pos
    /\ Quitting => last = end

IInv == TypeOK /\ Faithful /\ BinaryExact /\ AllSearched /\ Control

\* The properties the runs check are parts of the invariant.
LEMMA InvariantImplies == IInv => WindowsComplete
  BY DEF IInv, Control, Complete, WindowsComplete, TypeOK

LEMMA InitInv == Init => IInv
  <1> SUFFICES ASSUME Init PROVE IInv
    OBVIOUS
  <1> USE CapacityAssumption, BoundsAssumption DEF Init
  <1>1. TypeOK
    <2>1. buf \in [0 .. capacity - 1 -> Byte]
      BY DEF Byte
    <2>2. size \in Nat /\ capacity \in Nat \ {0} /\ end <= capacity
      OBVIOUS
    <2>3. last \in pos .. end /\ taken \in 0 .. size
      BY <2>2
    <2>4. file \in [0 .. size - 1 -> Byte] /\ mode \in Modes /\ ended \in BOOLEAN
      OBVIOUS
    <2>5. pos \in Nat /\ end \in Nat /\ absoluteOffset \in Nat /\ consumed \in Nat
          /\ oldLen \in Nat /\ binaryOffset \in {None} \cup Nat
      OBVIOUS
    <2> QED
      BY <2>1, <2>2, <2>3, <2>4, <2>5 DEF TypeOK
  <1>2. Nuls = {}
    BY DEF Nuls
  <1>3. Faithful
    BY DEF Faithful
  <1>4. BinaryExact
    BY <1>2 DEF BinaryExact, Quitting
  <1> QED
    BY <1>1, <1>3, <1>4 DEF IInv, AllSearched, Control, Quitting

\* Consuming moves pos and the file offset together, and within the window.
LEMMA AdvanceInv ==
    ASSUME IInv, NEW n \in 0 .. last - pos,
           pos' = pos + n, absoluteOffset' = absoluteOffset + n,
           UNCHANGED <<inputs, buf, capacity, last, end, binaryOffset, reader>>
    PROVE  Faithful' /\ BinaryExact'
  <1>1. pos \in Nat /\ last \in pos .. end /\ end \in Nat /\ absoluteOffset \in Nat
    BY DEF IInv, TypeOK
  <1>2. Quitting' = Quitting /\ Nuls' = Nuls /\ Detecting' = Detecting
    BY DEF Quitting, Nuls, Detecting, inputs, reader
  <1>3. absoluteOffset' + (end' - pos') = absoluteOffset + (end - pos)
    BY <1>1
  <1>4. \A i \in pos' .. end' - 1 :
            i \in pos .. end - 1 /\ absoluteOffset' + (i - pos') = absoluteOffset + (i - pos)
    BY <1>1
  <1>5. \A b : Converted(b)' = Converted(b)
    BY DEF Converted, inputs
  <1>6. Faithful'
    <2>1. \A i \in pos' .. end' - 1 :
            /\ absoluteOffset' + (i - pos') < taken'
            /\ buf'[i] = Converted(file[absoluteOffset + (i - pos)])
      BY <1>4 DEF IInv, Faithful, reader
    <2>2. \A i \in pos' .. end' - 1 : buf'[i] = (Converted(file[absoluteOffset + (i - pos)]))'
      BY <2>1, <1>4 DEF Converted, inputs
    <2> QED
      BY <2>1, <2>2, <1>2, <1>3, <1>4 DEF IInv, Faithful, reader, inputs, Converted
  <1>7. BinaryExact'
    BY <1>2, <1>3 DEF IInv, BinaryExact
  <1> QED
    BY <1>6, <1>7

\* The part of TypeOK that moving pos within the window leaves alone.
LEMMA AdvanceType ==
    ASSUME TypeOK, NEW n \in 0 .. last - pos,
           pos' = pos + n, absoluteOffset' = absoluteOffset + n,
           consumed' \in Nat, oldLen' \in Nat,
           pc' \in {"consume", "fill", "scan", "done", "stopped"},
           UNCHANGED <<inputs, buf, capacity, last, end, binaryOffset, reader>>
    PROVE  TypeOK'
  <1>1. pos' \in Nat /\ last' \in pos' .. end' /\ absoluteOffset' \in Nat
    BY DEF TypeOK
  <1> QED
    BY <1>1 DEF TypeOK, inputs, reader

\* Consume: rollConsume and consume.
LEMMA ConsumeInv == IInv /\ Consume => IInv'
  <1> SUFFICES ASSUME IInv, Consume PROVE IInv'
    OBVIOUS
  <1>1. PICK i \in LineStarts : pos' = i /\ absoluteOffset' = absoluteOffset + (i - pos)
                                /\ consumed' = i - pos
    BY DEF Consume
  <1>2. pos \in Nat /\ last \in Nat /\ last >= pos /\ i \in pos .. last
    BY <1>1 DEF IInv, TypeOK, LineStarts
  <1> DEFINE n == i - pos
  <1>3. n \in 0 .. last - pos /\ pos' = pos + n /\ absoluteOffset' = absoluteOffset + n
        /\ consumed' = n /\ oldLen' = last - pos /\ oldLen' \in Nat /\ consumed' \in Nat
    BY <1>1, <1>2 DEF Consume
  <1>4. UNCHANGED <<inputs, buf, capacity, last, end, binaryOffset, reader>> /\ pc' = "fill"
    BY DEF Consume
  <1> HIDE DEF n
  <1>5. TypeOK'
    BY <1>3, <1>4, AdvanceType DEF IInv
  <1>6. Faithful' /\ BinaryExact'
    BY <1>3, <1>4, AdvanceInv
  <1>7. oldLen' - consumed' >= 0 /\ oldLen' - consumed' = last' - pos'
    BY <1>2, <1>3, <1>4
  <1>8. Quitting' => last' = end'
    BY <1>4 DEF IInv, Control, Quitting, inputs
  <1> QED
    BY <1>4, <1>5, <1>6, <1>7, <1>8 DEF IInv, Control, AllSearched

\* Filled: the loop ends with nothing left, gives up, or scans.
LEMMA FilledInv == IInv /\ Filled => IInv'
  <1> SUFFICES ASSUME IInv, Filled PROVE IInv'
    OBVIOUS
  <1>1. /\ pos \in Nat /\ last \in Nat /\ end \in Nat /\ last >= pos /\ end >= last
        /\ consumed \in Nat /\ oldLen \in Nat /\ absoluteOffset \in Nat /\ taken \in Nat
        /\ oldLen - consumed >= 0 /\ (last = end \/ last - pos > oldLen - consumed)
    BY DEF IInv, TypeOK, Control, Filled
  <1>2. UNCHANGED <<inputs, buf, capacity, last, end, binaryOffset, reader, turn>>
    BY DEF Filled
  <1>3. Quitting' = Quitting /\ (Quitting => last = end)
    BY <1>2 DEF IInv, Control, Quitting, inputs
  <1>4. ~Quitting => absoluteOffset + (end - pos) = taken
    BY DEF IInv, Faithful
  <1>5. CASE last = pos /\ pc' = "done" /\ UNCHANGED <<pos, absoluteOffset>>
    <2>1. pos' = pos + 0 /\ absoluteOffset' = absoluteOffset + 0 /\ 0 \in 0 .. last - pos
      BY <1>1, <1>5
    <2>2. TypeOK'
      BY <2>1, <1>1, <1>2, <1>5, AdvanceType DEF IInv, turn
    <2>3. Faithful' /\ BinaryExact'
      BY <2>1, <1>2, AdvanceInv
    <2>4. ~Quitting => absoluteOffset = taken
      BY <1>1, <1>4, <1>5
    <2> QED
      BY <2>2, <2>3, <2>4, <1>1, <1>2, <1>3, <1>5 DEF IInv, Control, AllSearched, turn, reader
  <1>6. CASE /\ last > pos /\ consumed = 0 /\ oldLen = last - pos
             /\ pos' = pos + oldLen /\ absoluteOffset' = absoluteOffset + oldLen /\ pc' = "done"
    <2>1. oldLen \in 0 .. last - pos
      BY <1>1, <1>6
    <2>2. TypeOK'
      BY <2>1, <1>1, <1>2, <1>6, AdvanceType DEF IInv, turn
    <2>3. Faithful' /\ BinaryExact'
      BY <2>1, <1>2, <1>6, AdvanceInv
    <2>4. last = end
      BY <1>1, <1>6
    <2>5. ~Quitting => absoluteOffset' = taken
      BY <1>1, <1>4, <1>6, <2>4
    <2> QED
      BY <2>2, <2>3, <2>5, <1>1, <1>2, <1>3, <1>6 DEF IInv, Control, AllSearched, turn, reader
  <1>7. CASE last > pos /\ pc' = "scan" /\ UNCHANGED <<pos, absoluteOffset>>
    <2>1. pos' = pos + 0 /\ absoluteOffset' = absoluteOffset + 0 /\ 0 \in 0 .. last - pos
      BY <1>1, <1>7
    <2>2. TypeOK'
      BY <2>1, <1>1, <1>2, <1>7, AdvanceType DEF IInv, turn
    <2>3. Faithful' /\ BinaryExact'
      BY <2>1, <1>2, AdvanceInv
    <2>4. Complete'
      BY <1>2, <1>3, <1>7 DEF IInv, Control, Complete, Filled, reader
    <2> QED
      BY <2>2, <2>3, <2>4, <1>1, <1>2, <1>3, <1>7 DEF IInv, Control, AllSearched, turn
  <1> QED
    BY <1>5, <1>6, <1>7 DEF Filled

\* Scan: the window was scanned, or the scan stopped in it.
LEMMA ScanInv == IInv /\ Scan => IInv'
  <1> SUFFICES ASSUME IInv, Scan PROVE IInv'
    OBVIOUS
  <1>1. /\ UNCHANGED <<inputs, buf, capacity, last, end, binaryOffset, reader, turn>>
        /\ pc' \in {"consume", "stopped"}
    BY DEF Scan
  <1>2. \E n \in 0 .. last - pos : pos' = pos + n /\ absoluteOffset' = absoluteOffset + n
    <2>1. pos \in Nat /\ last \in Nat /\ last >= pos /\ absoluteOffset \in Nat
      BY DEF IInv, TypeOK
    <2>2. CASE UNCHANGED <<pos, absoluteOffset>>
      <3>1. 0 \in 0 .. last - pos /\ pos' = pos + 0 /\ absoluteOffset' = absoluteOffset + 0
        BY <2>1, <2>2
      <3> QED
        BY <3>1
    <2>3. CASE \E i \in LineStarts : pos' = i /\ absoluteOffset' = absoluteOffset + (i - pos)
      <3>1. PICK i \in LineStarts : pos' = i /\ absoluteOffset' = absoluteOffset + (i - pos)
        BY <2>3
      <3>2. i \in pos .. last
        BY DEF LineStarts
      <3>3. i - pos \in 0 .. last - pos /\ pos' = pos + (i - pos)
        BY <2>1, <3>1, <3>2
      <3> QED
        BY <3>1, <3>3
    <2> QED
      BY <2>2, <2>3 DEF Scan
  <1>3. PICK n \in 0 .. last - pos : pos' = pos + n /\ absoluteOffset' = absoluteOffset + n
    BY <1>2
  <1>4. TypeOK'
    BY <1>1, <1>3, AdvanceType DEF IInv, TypeOK, turn
  <1>5. Faithful' /\ BinaryExact'
    BY <1>1, <1>3, AdvanceInv
  <1>6. oldLen' - consumed' >= 0 /\ (Quitting' => last' = end')
    BY <1>1 DEF IInv, Control, Quitting, inputs, turn
  <1> QED
    BY <1>1, <1>4, <1>5, <1>6 DEF IInv, Control, AllSearched

\* FillAfterQuit: nothing is read any more.
LEMMA FillAfterQuitInv == IInv /\ FillAfterQuit => IInv'
  <1> SUFFICES ASSUME IInv, FillAfterQuit PROVE IInv'
    OBVIOUS
  <1>1. /\ UNCHANGED <<inputs, buf, capacity, bounds, absoluteOffset, binaryOffset, reader, turn>>
        /\ pc' = "filled" /\ Quitting
    BY DEF FillAfterQuit
  <1>2. TypeOK'
    BY <1>1 DEF IInv, TypeOK, inputs, bounds, reader, turn
  <1>3. Faithful' /\ BinaryExact'
    <2>1. Quitting' = Quitting /\ Nuls' = Nuls /\ Detecting' = Detecting
      BY <1>1 DEF Quitting, Nuls, Detecting, inputs, reader
    <2> QED
      BY <1>1, <2>1 DEF IInv, Faithful, BinaryExact, Converted, inputs, bounds, reader
  <1>4. Control'
    BY <1>1 DEF IInv, Control, Complete, Quitting, inputs, bounds, reader, turn
  <1> QED
    BY <1>1, <1>2, <1>3, <1>4 DEF IInv, AllSearched

\* Roll: the content moves to the front of the buffer, its file offset stays.
LEMMA RollInv == IInv /\ Roll => IInv'
  <1> SUFFICES ASSUME IInv, Roll PROVE IInv'
    OBVIOUS
  <1>1. /\ UNCHANGED <<inputs, capacity, absoluteOffset, binaryOffset, reader, turn>>
        /\ pos' = 0 /\ last' = end - pos /\ end' = end - pos /\ pc' = "read"
        /\ pc = "fill" /\ ~Quitting
        /\ buf' = [i \in 0 .. capacity - 1 |-> IF i < end - pos THEN buf[pos + i] ELSE buf[i]]
    BY DEF Roll, Rolled, RolledLast
  <1>2. /\ pos \in Nat /\ last \in Nat /\ end \in Nat /\ absoluteOffset \in Nat
        /\ last >= pos /\ end >= last /\ end <= capacity /\ capacity \in Nat \ {0}
        /\ buf \in [0 .. capacity - 1 -> Byte]
    BY DEF IInv, TypeOK
  <1>3. Quitting' = Quitting /\ Nuls' = Nuls /\ Detecting' = Detecting
    BY <1>1 DEF Quitting, Nuls, Detecting, inputs, reader
  <1>4. \A i \in 0 .. (end - pos) - 1 : pos + i \in pos .. end - 1 /\ buf'[i] = buf[pos + i]
    BY <1>1, <1>2
  <1>5. TypeOK'
    <2>1. buf' \in [0 .. capacity - 1 -> Byte]
      BY <1>1, <1>2
    <2>2. end' \in Nat /\ last' \in pos' .. end' /\ end' <= capacity
      BY <1>1, <1>2
    <2> QED
      BY <1>1, <2>1, <2>2 DEF IInv, TypeOK, inputs, reader, turn
  <1>6. Faithful'
    <2>1. \A i \in 0 .. (end - pos) - 1 :
            absoluteOffset + i < taken /\ buf'[i] = Converted(file[absoluteOffset + i])
      <3> SUFFICES ASSUME NEW i \in 0 .. (end - pos) - 1
                   PROVE  absoluteOffset + i < taken /\ buf'[i] = Converted(file[absoluteOffset + i])
        OBVIOUS
      <3>1. pos + i \in pos .. end - 1 /\ buf'[i] = buf[pos + i] /\ (pos + i) - pos = i
        BY <1>2, <1>4
      <3> QED
        BY <3>1 DEF IInv, Faithful
    <2>2. \A i \in pos' .. end' - 1 :
            i \in 0 .. (end - pos) - 1 /\ absoluteOffset' + (i - pos') = absoluteOffset + i
      BY <1>1, <1>2
    <2>3. \A i \in pos' .. end' - 1 : buf'[i] = (Converted(file[absoluteOffset + (i - pos)]))'
      BY <2>1, <2>2, <1>1 DEF Converted, inputs
    <2>4. absoluteOffset' + (end' - pos') = taken'
      BY <1>1, <1>2 DEF IInv, Faithful, reader
    <2> QED
      BY <1>1, <2>1, <2>2, <2>3, <2>4 DEF Faithful, Converted, inputs, reader
  <1>7. BinaryExact'
    BY <1>1, <1>3 DEF IInv, BinaryExact
  <1>8. Control'
    BY <1>1, <1>2, <1>3 DEF IInv, Control, turn
  <1> QED
    BY <1>1, <1>5, <1>6, <1>7, <1>8 DEF IInv, AllSearched

-----------------------------------------------------------------------------
(* Read.                                                                   *)

\* The first NUL of what was read so far: that of the chunk only if none came
\* before it.  Detected finds it, and finds it at its place in the file.
LEMMA FirstNul ==
    ASSUME TypeOK, BinaryExact, pos = 0, ~Quitting, absoluteOffset + end = taken,
           NEW n \in 0 .. size - taken, taken' = taken + n, UNCHANGED inputs,
           binaryOffset' = Detected(n)
    PROVE  /\ binaryOffset' = None <=> (~Detecting' \/ Nuls' = {})
           /\ binaryOffset' # None => binaryOffset' = Min(Nuls')
           /\ Quitting' <=> QuitOn(n)
           /\ QuitOn(n) => taken <= binaryOffset'
           /\ binaryOffset' \in {None} \cup Nat
  <1>1. /\ taken \in Nat /\ size \in Nat /\ absoluteOffset \in Nat /\ end \in Nat
        /\ binaryOffset \in {None} \cup Nat /\ n \in Nat
    BY DEF TypeOK
  <1>2. Nuls' = Nuls \cup NulsIn(n)
    <2>1. 0 .. taken' - 1 = (0 .. taken - 1) \cup (taken .. taken + n - 1)
      BY <1>1
    <2> QED
      BY <2>1 DEF Nuls, NulsIn, Chunk, inputs
  <1>3. Nuls \in SUBSET Nat /\ NulsIn(n) \in SUBSET Nat /\ Nuls' \in SUBSET Nat
    BY <1>1, <1>2 DEF Nuls, NulsIn, Chunk
  <1>4. (\A i \in Nuls : i < taken) /\ (\A i \in NulsIn(n) : taken <= i)
    BY <1>1 DEF Nuls, NulsIn, Chunk
  <1>5. Detecting' = Detecting /\ mode' = mode /\ None \notin Nat
    BY DEF Detecting, inputs, None
  <1>6. CASE ~Detecting
    <2>1. binaryOffset = None /\ binaryOffset' = None /\ ~QuitOn(n)
      BY <1>6 DEF BinaryExact, Detected, Detecting, QuitOn
    <2> QED
      BY <2>1, <1>5, <1>6 DEF Quitting
  <1>7. CASE Detecting /\ binaryOffset # None
    <2>1. binaryOffset' = binaryOffset /\ Nuls # {} /\ binaryOffset = Min(Nuls)
      BY <1>7 DEF BinaryExact, Detected
    <2>2. Min(Nuls) \in Nuls /\ \A i \in Nuls : Min(Nuls) <= i
      BY <2>1, <1>3, MinExists
    <2>3. Nuls' # {} /\ Min(Nuls') \in Nuls' /\ \A i \in Nuls' : Min(Nuls') <= i
      BY <2>2, <1>2, <1>3, MinExists
    <2>4. Min(Nuls') \in Nuls
      BY <2>2, <2>3, <1>1, <1>2, <1>3, <1>4
    <2>5. Min(Nuls') = Min(Nuls)
      <3>1. Min(Nuls') <= Min(Nuls) /\ Min(Nuls) <= Min(Nuls')
        BY <2>2, <2>3, <2>4, <1>2
      <3>2. Min(Nuls') \in Nat /\ Min(Nuls) \in Nat
        BY <2>2, <2>4, <1>3
      <3> QED
        BY <3>1, <3>2
    <2>6. ~Quitting' /\ ~QuitOn(n)
      BY <2>1, <1>5, <1>7 DEF Quitting, QuitOn
    <2> QED
      BY <2>1, <2>3, <2>5, <2>6, <1>1, <1>5, <1>7
  <1>8. CASE Detecting /\ binaryOffset = None /\ NulsIn(n) = {}
    <2>1. binaryOffset' = None /\ Nuls' = {} /\ ~QuitOn(n)
      BY <1>8, <1>2 DEF BinaryExact, Detected, QuitOn
    <2> QED
      BY <2>1, <1>5 DEF Quitting
  <1>9. CASE Detecting /\ binaryOffset = None /\ NulsIn(n) # {}
    <2>1. Nuls' = NulsIn(n)
      BY <1>9, <1>2 DEF BinaryExact
    <2>2. Min(NulsIn(n)) \in NulsIn(n) /\ Min(NulsIn(n)) \in Nat
      BY <1>3, <1>9, MinExists
    <2>3. binaryOffset' = absoluteOffset + (end + (Min(NulsIn(n)) - taken))
      BY <1>9 DEF Detected, InBuffer, Detecting
    <2>4. binaryOffset' = Min(NulsIn(n))
      <3> DEFINE m == Min(NulsIn(n))
      <3>1. m \in Nat /\ binaryOffset' = absoluteOffset + (end + (m - taken))
        BY <2>2, <2>3
      <3> HIDE DEF m
      <3>2. binaryOffset' = m
        BY <3>1, <1>1
      <3> QED
        BY <3>2 DEF m
    <2>5. taken <= binaryOffset' /\ binaryOffset' \in Nat /\ binaryOffset' # None
      BY <2>2, <2>4, <1>4, <1>5
    <2>6. Quitting' <=> QuitOn(n)
      BY <2>5, <1>5, <1>9 DEF Quitting, QuitOn
    <2> QED
      BY <2>1, <2>4, <2>5, <2>6, <1>5, <1>9
  <1> QED
    BY <1>6, <1>7, <1>8, <1>9

\* What a read adds to the buffer continues what is there.
LEMMA ReadContent ==
    ASSUME TypeOK, Faithful, pos = 0, absoluteOffset + end = taken,
           NEW n \in 0 .. size - taken, n <= Grown - end,
           buf' = [i \in 0 .. Grown - 1 |->
                    IF i \in end .. end + n - 1 THEN Converted(file[taken + (i - end)])
                    ELSE IF i < capacity THEN buf[i] ELSE "nul"]
    PROVE  /\ Grown \in Nat \ {0} /\ end + n <= Grown
           /\ buf' \in [0 .. Grown - 1 -> Byte]
           /\ \A i \in 0 .. end + n - 1 : /\ absoluteOffset + i < taken + n
                                         /\ buf'[i] = Converted(file[absoluteOffset + i])
  <1>1. /\ taken \in Nat /\ size \in Nat /\ absoluteOffset \in Nat /\ end \in Nat /\ n \in Nat
        /\ capacity \in Nat \ {0} /\ end <= capacity /\ buf \in [0 .. capacity - 1 -> Byte]
        /\ file \in [0 .. size - 1 -> Byte] /\ taken + n <= size
    BY DEF TypeOK
  <1>2. Grown \in Nat \ {0} /\ end <= Grown /\ end + n <= Grown
    BY <1>1 DEF Grown
  <1> HIDE DEF Grown
  <1>3. \A b \in Byte : Converted(b) \in Byte
    BY DEF Converted, Byte
  <1>4. \A i \in 0 .. Grown - 1 : i \in end .. end + n - 1 =>
            buf'[i] = Converted(file[taken + (i - end)]) /\ file[taken + (i - end)] \in Byte
    BY <1>1, <1>2
  <1>5. \A i \in 0 .. Grown - 1 : ~(i \in end .. end + n - 1) =>
            buf'[i] = (IF i < capacity THEN buf[i] ELSE "nul") /\ buf'[i] \in Byte
    BY <1>1, <1>2 DEF Byte
  <1>6. buf' \in [0 .. Grown - 1 -> Byte]
    BY <1>3, <1>4, <1>5
  <1>7. ASSUME NEW i \in 0 .. end + n - 1
        PROVE  absoluteOffset + i < taken + n /\ buf'[i] = Converted(file[absoluteOffset + i])
    <2>1. i \in 0 .. Grown - 1 /\ i \in Nat /\ absoluteOffset + i < taken + n
      BY <1>1, <1>2
    <2>2. CASE i < end
      <3>1. buf'[i] = buf[i] /\ i \in pos .. end - 1 /\ i - pos = i
        BY <2>1, <2>2, <1>1, <1>5
      <3> QED
        BY <3>1, <2>1 DEF Faithful
    <2>3. CASE end <= i
      <3>1. i \in end .. end + n - 1 /\ taken + (i - end) = absoluteOffset + i
        BY <2>1, <2>3, <1>1
      <3> QED
        BY <3>1, <2>1, <1>4
    <2> QED
      BY <2>1, <2>2, <2>3, <1>1
  <1> QED
    BY <1>2, <1>6, <1>7

\* Read keeps the buffer a piece of the file, and what it returns is a window.
LEMMA ReadInv == IInv /\ Read => IInv'
  <1> SUFFICES ASSUME IInv, Read PROVE IInv'
    OBVIOUS
  <1> DEFINE Bytes(n) == [i \in 0 .. Grown - 1 |->
                IF i \in end .. end + n - 1 THEN Converted(file[taken + (i - end)])
                ELSE IF i < capacity THEN buf[i] ELSE "nul"]
  <1>1. /\ pc = "read" /\ capacity' = Grown
        /\ UNCHANGED <<inputs, pos, absoluteOffset, turn>>
    BY DEF Read, ReadChunk
  <1>2. PICK n \in 0 .. size - taken, err \in {"nil", "eof", "error"} :
        /\ n <= Grown - end
        /\ taken' = taken + n
        /\ ended' = (err = "eof" \/ (n = 0 /\ err = "nil"))
        /\ binaryOffset' = Detected(n)
        /\ buf' = Bytes(n)
        /\ IF QuitOn(n) THEN end' = end /\ last' = end /\ pc' = "filled"
           ELSE /\ end' = end + n
                /\ IF NewlinesIn(n) # {}
                   THEN last' = WindowEnd(n) /\ pc' = "filled"
                   ELSE IF err = "error" THEN pc' = "failed" /\ UNCHANGED last
                   ELSE IF err = "eof" \/ n = 0 THEN last' = LastAtEnd(n) /\ pc' = "filled"
                   ELSE pc' = "read" /\ UNCHANGED last
    BY DEF Read, ReadChunk
  <1>3. /\ pos = 0 /\ ~Quitting /\ absoluteOffset + end = taken
        /\ oldLen - consumed >= 0 /\ oldLen - consumed <= end
    <2>1. pos = 0 /\ ~Quitting /\ oldLen - consumed >= 0 /\ oldLen - consumed <= end
      BY <1>1 DEF IInv, Control
    <2>2. end - pos = end
      BY <2>1 DEF IInv, TypeOK
    <2> QED
      BY <2>1, <2>2 DEF IInv, Faithful
  <1>4. /\ size \in Nat /\ taken \in Nat /\ taken <= size /\ end \in Nat /\ n \in Nat
        /\ last \in Nat /\ last <= end /\ absoluteOffset \in Nat
        /\ consumed \in Nat /\ oldLen \in Nat
    BY <1>3 DEF IInv, TypeOK
  <1>5. /\ Grown \in Nat \ {0} /\ end + n <= Grown
        /\ buf' \in [0 .. Grown - 1 -> Byte]
        /\ \A i \in 0 .. end + n - 1 : /\ absoluteOffset + i < taken + n
                                      /\ buf'[i] = Converted(file[absoluteOffset + i])
    BY <1>2, <1>3, ReadContent DEF IInv
  <1>6. /\ binaryOffset' = None <=> (~Detecting' \/ Nuls' = {})
        /\ binaryOffset' # None => binaryOffset' = Min(Nuls')
        /\ Quitting' <=> QuitOn(n)
        /\ QuitOn(n) => taken <= binaryOffset'
        /\ binaryOffset' \in {None} \cup Nat
    BY <1>1, <1>2, <1>3, FirstNul DEF IInv
  <1>7. /\ end' \in Nat /\ end' <= end + n /\ end <= end'
        /\ ~QuitOn(n) => end' = end + n
        /\ QuitOn(n) => end' = end
    BY <1>2, <1>4
  <1>8. NewlinesIn(n) # {} => /\ WindowEnd(n) \in Nat /\ end < WindowEnd(n)
                             /\ WindowEnd(n) <= end + n /\ buf'[WindowEnd(n) - 1] = "nl"
    <2> SUFFICES ASSUME NewlinesIn(n) # {}
                 PROVE  /\ WindowEnd(n) \in Nat /\ end < WindowEnd(n)
                        /\ WindowEnd(n) <= end + n /\ buf'[WindowEnd(n) - 1] = "nl"
      OBVIOUS
    <2> DEFINE m == Max(NewlinesIn(n))
    <2>1. NewlinesIn(n) \in SUBSET Nat /\ taken + n \in Nat /\ \A i \in NewlinesIn(n) : i <= taken + n
      BY <1>4 DEF NewlinesIn, Chunk
    <2>2. m \in NewlinesIn(n)
      BY <2>1, MaxExists
    <2>3. m \in taken .. taken + n - 1 /\ Converted(file[m]) = "nl"
      BY <2>2 DEF NewlinesIn, Chunk
    <2>4. WindowEnd(n) = end + (m - taken) + 1
      BY DEF WindowEnd, InBuffer
    <2> HIDE DEF m
    <2>5. /\ WindowEnd(n) \in Nat /\ end < WindowEnd(n) /\ WindowEnd(n) <= end + n
          /\ WindowEnd(n) - 1 \in 0 .. end + n - 1 /\ absoluteOffset + (WindowEnd(n) - 1) = m
      BY <1>3, <1>4, <2>3, <2>4
    <2> QED
      BY <1>5, <2>3, <2>5
  <1>9. last' \in 0 .. end'
    BY <1>2, <1>4, <1>7, <1>8 DEF LastAtEnd
  <1>10. TypeOK'
    <2>1. taken' \in 0 .. size' /\ ended' \in BOOLEAN /\ end' <= capacity'
      BY <1>1, <1>2, <1>4, <1>5, <1>7 DEF inputs
    <2>2. pc' \in {"read", "filled", "failed"}
      BY <1>2
    <2>3. capacity' \in Nat \ {0} /\ buf' \in [0 .. capacity' - 1 -> Byte]
      BY <1>1, <1>5
    <2>4. pos' \in Nat /\ last' \in pos' .. end' /\ end' \in Nat
      BY <1>1, <1>3, <1>7, <1>9
    <2> QED
      BY <1>1, <1>6, <2>1, <2>2, <2>3, <2>4 DEF IInv, TypeOK, inputs, turn
  <1>11. Faithful'
    <2>1. pos' = 0 /\ absoluteOffset' = absoluteOffset /\ taken' = taken + n
      BY <1>1, <1>2, <1>3
    <2>2. \A i \in pos' .. end' - 1 : i \in 0 .. end + n - 1 /\ absoluteOffset' + (i - pos') = absoluteOffset + i
      <3>1. end' \in Nat /\ end' <= end + n
        BY <1>7
      <3>2. \A e \in Nat : e <= end + n => \A i \in 0 .. e - 1 :
                i \in 0 .. end + n - 1 /\ absoluteOffset + (i - 0) = absoluteOffset + i
        BY <1>4
      <3> QED
        BY <2>1, <3>1, <3>2
    <2>3. \A i \in pos' .. end' - 1 : buf'[i] = (Converted(file[absoluteOffset + (i - pos)]))'
      BY <1>1, <1>5, <2>2 DEF Converted, inputs
    <2>4. ~Quitting' => absoluteOffset' + (end' - pos') = taken'
      <3>1. ~Quitting' => end' = end + n
        BY <1>6, <1>7
      <3>2. absoluteOffset + ((end + n) - 0) = taken + n
        BY <1>3, <1>4
      <3> QED
        BY <2>1, <3>1, <3>2
    <2> QED
      BY <1>1, <1>5, <2>1, <2>2, <2>3, <2>4 DEF Faithful, Converted, inputs
  <1>12. BinaryExact'
    <2>1. QuitOn(n) => absoluteOffset' + (end' - pos') = taken
      BY <1>1, <1>3, <1>4, <1>7
    <2> QED
      BY <1>6, <2>1 DEF BinaryExact
  <1>13. Control'
    <2>1. UNCHANGED turn /\ pos' = 0
      BY <1>1, <1>3
    <2>2. CASE QuitOn(n)
      <3>1. last' = end' /\ pc' = "filled" /\ Quitting'
        BY <1>2, <1>6, <2>2
      <3> QED
        BY <3>1, <2>1, <1>3 DEF Control, Complete, turn
    <2>3. CASE ~QuitOn(n) /\ NewlinesIn(n) # {}
      <3>1. last' = WindowEnd(n) /\ pc' = "filled" /\ ~Quitting'
        BY <1>2, <1>6, <2>3
      <3>2. last' - pos' > oldLen' - consumed' /\ oldLen' - consumed' >= 0
        BY <3>1, <1>3, <1>4, <1>8, <2>1, <2>3 DEF turn
      <3> QED
        BY <3>1, <3>2, <1>8, <2>3 DEF Control, Complete
    <2>4. CASE ~QuitOn(n) /\ NewlinesIn(n) = {} /\ pc' = "filled"
      <3>1. last' = end' /\ ~Quitting' /\ ended'
        BY <1>2, <1>6, <2>4 DEF LastAtEnd
      <3> QED
        BY <3>1, <2>1, <2>4, <1>3 DEF Control, Complete, turn
    <2>5. CASE ~QuitOn(n) /\ pc' \in {"read", "failed"}
      <3>1. ~Quitting' /\ oldLen' - consumed' >= 0 /\ oldLen' - consumed' <= end'
        BY <1>3, <1>4, <1>6, <1>7, <2>1, <2>5 DEF turn
      <3> QED
        BY <3>1, <2>1, <2>5 DEF Control
    <2> QED
      BY <1>2, <2>2, <2>3, <2>4, <2>5
  <1> QED
    BY <1>2, <1>10, <1>11, <1>12, <1>13 DEF IInv, AllSearched

LEMMA StutterInv == IInv /\ UNCHANGED vars => IInv'
  <1> SUFFICES ASSUME IInv, UNCHANGED vars PROVE IInv'
    OBVIOUS
  <1> USE DEF vars, inputs, bounds, reader, turn
  <1>1. TypeOK'
    BY DEF IInv, TypeOK
  <1>2. Quitting' = Quitting /\ Nuls' = Nuls /\ Detecting' = Detecting
    BY DEF Quitting, Nuls, Detecting
  <1>3. Faithful' /\ BinaryExact' /\ AllSearched'
    BY <1>2 DEF IInv, Faithful, BinaryExact, AllSearched, Converted
  <1>4. Control'
    BY <1>2 DEF IInv, Control, Complete
  <1> QED
    BY <1>1, <1>3, <1>4 DEF IInv

\* Every step of Search and fill keeps the invariant.
LEMMA NextInv == IInv /\ [Next]_vars => IInv'
  <1> SUFFICES ASSUME IInv, [Next]_vars PROVE IInv'
    OBVIOUS
  <1> QED
    BY ConsumeInv, FilledInv, ScanInv, FillAfterQuitInv, RollInv, ReadInv, StutterInv
    DEF Next, Step, Returned

-----------------------------------------------------------------------------
(* How large the buffer gets.                                              *)

\* The line ends among bytes a to b - 1 of the file.
Ends(a, b) == {i \in a .. b - 1 : Converted(file[i]) = "nl"}

\* Where the window, and what was read, end in the file.
WindowAt == absoluteOffset + (last - pos)
DataAt   == absoluteOffset + (end - pos)

\* Behind the window there is a part of one line; fill begins with the few lines that
\* Search keeps, and reads on until there is one more.
FewLines ==
    /\ Ends(WindowAt, DataAt) = {}
    /\ pc = "fill" => Cardinality(Ends(absoluteOffset, WindowAt)) <= Keep
    /\ pc = "read" => Cardinality(Ends(absoluteOffset, DataAt)) <= Keep

BInv == FewLines /\ BufferBounded

LEMMA EndsFinite ==
    ASSUME NEW a \in Int, NEW b \in Int
    PROVE  IsFiniteSet(Ends(a, b)) /\ Cardinality(Ends(a, b)) \in Nat
  <1>1. IsFiniteSet(a .. b - 1)
    BY FS_Interval
  <1>2. Ends(a, b) \in SUBSET (a .. b - 1)
    BY DEF Ends
  <1>3. IsFiniteSet(Ends(a, b))
    BY <1>1, <1>2, FS_Subset
  <1> QED
    BY <1>3, FS_CardinalityType

\* A stretch of the file with no line end, but for its last byte, is no longer than a line.
LEMMA LongestIs ==
    ASSUME TypeOK
    PROVE  /\ LongestLine \in Nat
           /\ \A a, b \in Nat : a <= b /\ b <= size /\ Ends(a, b - 1) = {} => b - a <= LongestLine
  <1> DEFINE Plain(i, n) == \A j \in i .. i + n - 2 : Converted(file[j]) # "nl"
             Lengths == {n \in 0 .. size : \E i \in 0 .. size - n : Plain(i, n)}
  <1>1. size \in Nat
    BY DEF TypeOK
  <1>2. 0 \in Lengths
    <2>1. 0 \in 0 .. size /\ 0 \in 0 .. size - 0 /\ Plain(0, 0)
      BY <1>1
    <2> QED
      BY <2>1
  <1>3. Lengths \in SUBSET Nat /\ \A n \in Lengths : n <= size
    BY <1>1
  <1>4. LongestLine = Max(Lengths)
    BY DEF LongestLine
  <1>5. Max(Lengths) \in Lengths /\ \A n \in Lengths : Max(Lengths) >= n
    <2> HIDE DEF Lengths
    <2> QED
      BY <1>1, <1>2, <1>3, MaxExists
  <1>6. ASSUME NEW a \in Nat, NEW b \in Nat, a <= b, b <= size, Ends(a, b - 1) = {}
        PROVE  b - a <= LongestLine
    <2>1. PICK n \in Nat : n = b - a
      BY <1>6
    <2>2. \A j \in a .. a + n - 2 : Converted(file[j]) # "nl"
      BY <1>6, <2>1 DEF Ends
    <2>3. n \in 0 .. size /\ a \in 0 .. size - n
      BY <1>1, <1>6, <2>1
    <2>4. n \in Lengths
      BY <2>2, <2>3
    <2>5. LongestLine >= n
      BY <1>4, <1>5, <2>4, Zenon
    <2>6. LongestLine \in Nat
      BY <1>3, <1>4, <1>5
    <2> QED
      BY <2>1, <2>5, <2>6
  <1>7. LongestLine \in Nat
    BY <1>3, <1>4, <1>5
  <1> QED
    BY <1>6, <1>7

\* k line ends cut a stretch of the file into at most k + 1 lines.
LEMMA LinesFit ==
    ASSUME TypeOK, NEW k \in Nat, NEW a \in Nat, NEW b \in Nat, a <= b, b <= size,
           Cardinality(Ends(a, b)) <= k
    PROVE  b - a <= (k + 1) * LongestLine
  <1> DEFINE Fit(i, x, y) == x <= y /\ y <= size /\ Cardinality(Ends(x, y)) <= i
                                => y - x <= (i + 1) * LongestLine
             S == {i \in Nat : \E x, y \in Nat : ~Fit(i, x, y)}
  <1>1. SUFFICES S = {}
    <2>1. ASSUME S = {} PROVE Fit(k, a, b)
      BY <2>1
    <2> QED
      BY <1>1, <2>1
  <1>2. LongestLine \in Nat /\ size \in Nat
    BY LongestIs DEF TypeOK
  <1>3. SUFFICES ASSUME S # {} PROVE FALSE
    OBVIOUS
  <1>4. Min(S) \in S /\ \A i \in S : Min(S) <= i
    <2>1. S \in SUBSET Nat
      OBVIOUS
    <2> HIDE DEF S
    <2> QED
      BY <1>3, <2>1, MinExists
  <1>5. PICK m \in Nat : m = Min(S) /\ m \in S
    BY <1>4
  <1>6. PICK x \in Nat, y \in Nat : ~Fit(m, x, y)
    BY <1>5
  <1>7. x <= y /\ y <= size /\ Cardinality(Ends(x, y)) <= m /\ y - x > (m + 1) * LongestLine
    BY <1>2, <1>6
  <1>8. (m + 1) * LongestLine = m * LongestLine + LongestLine /\ m * LongestLine \in Nat
    BY <1>2
  <1>9. Ends(x, y - 1) # {}
    <2>1. ASSUME Ends(x, y - 1) = {} PROVE FALSE
      <3>1. y - x <= LongestLine
        BY <1>7, <2>1, LongestIs
      <3> QED
        BY <1>2, <1>7, <1>8, <3>1
    <2> QED
      BY <2>1
  <1>10. PICK p \in Nat : p \in Ends(x, y - 1) /\ \A i \in Ends(x, y - 1) : p <= i
    <2>1. Ends(x, y - 1) \in SUBSET Nat
      BY DEF Ends
    <2>2. Min(Ends(x, y - 1)) \in Ends(x, y - 1) /\ \A i \in Ends(x, y - 1) : Min(Ends(x, y - 1)) <= i
      BY <1>9, <2>1, MinExists
    <2> QED
      BY <2>1, <2>2
  <1>11. x <= p /\ p + 1 < y /\ Converted(file[p]) = "nl"
    BY <1>10 DEF Ends
  <1>12. (p + 1) - x <= LongestLine
    <2>1. Ends(x, p) = {}
      <3>1. ASSUME NEW i \in Ends(x, p) PROVE FALSE
        <4>1. i \in Ends(x, y - 1) /\ i < p /\ i \in Int
          BY <1>11 DEF Ends
        <4> QED
          BY <1>10, <4>1
      <3> QED
        BY <3>1
    <2>2. PICK q \in Nat : q = p + 1
      OBVIOUS
    <2>3. x <= q /\ q <= size /\ Ends(x, q - 1) = {}
      BY <1>2, <1>7, <1>11, <2>1, <2>2
    <2> QED
      BY <2>2, <2>3, LongestIs
  <1>13. m > 0 /\ Cardinality(Ends(p + 1, y)) <= m - 1
    <2>1. p \in Ends(x, y) /\ p \notin Ends(p + 1, y) /\ Ends(p + 1, y) \subseteq Ends(x, y)
      BY <1>11 DEF Ends
    <2>2. /\ IsFiniteSet(Ends(x, y)) /\ Cardinality(Ends(x, y)) \in Nat
          /\ IsFiniteSet(Ends(p + 1, y)) /\ Cardinality(Ends(p + 1, y)) \in Nat
      <3>1. x \in Int /\ y \in Int /\ p + 1 \in Int
        OBVIOUS
      <3>2. IsFiniteSet(Ends(x, y)) /\ Cardinality(Ends(x, y)) \in Nat
        BY <3>1, EndsFinite, Zenon
      <3>3. IsFiniteSet(Ends(p + 1, y)) /\ Cardinality(Ends(p + 1, y)) \in Nat
        BY <3>1, EndsFinite, Zenon
      <3> QED
        BY <3>2, <3>3
    <2>3. Cardinality(Ends(p + 1, y)) <= Cardinality(Ends(x, y))
          /\ (Cardinality(Ends(x, y)) = Cardinality(Ends(p + 1, y)) => Ends(x, y) = Ends(p + 1, y))
      BY <2>1, <2>2, FS_Subset
    <2>4. Cardinality(Ends(p + 1, y)) # Cardinality(Ends(x, y))
      BY <2>1, <2>3
    <2> QED
      BY <1>7, <2>2, <2>3, <2>4
  <1>14. PICK l \in Nat, q \in Nat : l = m - 1 /\ q = p + 1
    BY <1>13
  <1>15. l \notin S
    BY <1>4, <1>5, <1>14
  <1>16. Fit(l, q, y)
    BY <1>15
  <1>17. q <= y /\ y <= size /\ Cardinality(Ends(q, y)) <= l
    BY <1>7, <1>11, <1>13, <1>14
  <1>18. y - q <= (l + 1) * LongestLine
    BY <1>16, <1>17
  <1>19. (l + 1) * LongestLine = m * LongestLine
    BY <1>14
  <1> QED
    BY <1>2, <1>7, <1>8, <1>12, <1>14, <1>18, <1>19

\* Whatever keeps the input keeps where its lines end and how long they are.
LEMMA LinesStay ==
    ASSUME UNCHANGED inputs
    PROVE  LongestLine' = LongestLine /\ \A a, b \in Int : Ends(a, b)' = Ends(a, b)
  BY DEF inputs, LongestLine, Ends, Converted

\* Where a window ends does not depend on how much of it is consumed.
LEMMA FewLinesFrom ==
    ASSUME BInv, UNCHANGED inputs, NEW w \in Nat, NEW d \in Nat,
           WindowAt' = w, DataAt' = d, Ends(w, d) = {},
           capacity' = capacity, pc' \notin {"fill", "read"}
    PROVE  BInv'
  <1>1. Ends(WindowAt, DataAt)' = {}
    BY LinesStay DEF Ends, Converted, inputs
  <1>2. BufferBounded'
    BY LinesStay DEF BInv, BufferBounded
  <1> QED
    BY <1>1, <1>2 DEF BInv, FewLines

\* The lines that Search keeps hold no more line ends than there are lines.
LEMMA KeptFew ==
    ASSUME IInv, NEW i \in LineStarts, Cardinality(KeptFrom(i)) <= Keep,
           NEW a \in Nat, a = absoluteOffset + (i - pos)
    PROVE  Cardinality(Ends(a, WindowAt)) <= Keep
  <1>1. /\ pos \in Nat /\ last \in Nat /\ end \in Nat /\ absoluteOffset \in Nat
        /\ pos <= i /\ i <= last /\ last <= end /\ i \in Nat /\ Keep \in Nat
    BY BoundsAssumption DEF IInv, TypeOK, LineStarts
  <1>2. PICK w \in Nat : w = WindowAt
    BY <1>1 DEF WindowAt
  <1>3. w - a = last - i
    BY <1>1, <1>2 DEF WindowAt
  <1> DEFINE at(j) == i + (j - a)
             f == [j \in Ends(a, w) |-> IF at(j) + 1 < last THEN at(j) + 1 ELSE i]
  <1>4. \A j \in Ends(a, w) : at(j) \in i .. last - 1 /\ buf[at(j)] = "nl"
    <2> SUFFICES ASSUME NEW j \in Ends(a, w) PROVE at(j) \in i .. last - 1 /\ buf[at(j)] = "nl"
      OBVIOUS
    <2>1. j \in Int /\ a <= j /\ j < w /\ Converted(file[j]) = "nl"
      BY DEF Ends
    <2>2. at(j) \in Int /\ at(j) \in i .. last - 1 /\ at(j) \in pos .. end - 1
      BY <1>1, <1>3, <2>1
    <2>3. absoluteOffset + (at(j) - pos) = j
      BY <1>1, <2>1
    <2>4. buf[at(j)] = Converted(file[absoluteOffset + (at(j) - pos)])
      <3>1. \A k \in pos .. end - 1 : buf[k] = Converted(file[absoluteOffset + (k - pos)])
        BY DEF IInv, Faithful
      <3> HIDE DEF at
      <3> QED
        BY <2>2, <3>1
    <2> QED
      BY <2>1, <2>2, <2>3, <2>4
  <1>5. \A j \in Ends(a, w) : f[j] \in KeptFrom(i)
    <2> SUFFICES ASSUME NEW j \in Ends(a, w) PROVE f[j] \in KeptFrom(i)
      OBVIOUS
    <2>1. at(j) \in Int /\ i <= at(j) /\ at(j) < last /\ buf[at(j)] = "nl"
      BY <1>1, <1>4
    <2>2. i \in KeptFrom(i)
      BY <1>1, <2>1 DEF KeptFrom
    <2>3. CASE at(j) + 1 < last
      <3>1. PICK s \in Int : s = at(j) + 1
        BY <2>1
      <3>2. s \in pos .. last /\ i <= s /\ s < last /\ s - 1 = at(j)
        BY <1>1, <2>1, <2>3, <3>1
      <3>3. buf[s - 1] = "nl"
        BY <2>1, <3>2
      <3>4. s \in KeptFrom(i)
        BY <3>2, <3>3 DEF KeptFrom, LineStarts
      <3>5. f[j] = s
        BY <2>3, <3>1
      <3> QED
        BY <3>4, <3>5
    <2>4. CASE ~(at(j) + 1 < last)
      <3>1. f[j] = i
        BY <2>4
      <3> QED
        BY <2>2, <3>1
    <2> QED
      BY <2>3, <2>4
  <1>6. \A j, k \in Ends(a, w) : f[j] = f[k] => j = k
    <2> SUFFICES ASSUME NEW j \in Ends(a, w), NEW k \in Ends(a, w), f[j] = f[k] PROVE j = k
      OBVIOUS
    <2>1. j \in Int /\ k \in Int
      BY DEF Ends
    <2>2. at(j) \in i .. last - 1 /\ at(k) \in i .. last - 1
      BY <1>4
    <2>3. f[j] = (IF at(j) + 1 < last THEN at(j) + 1 ELSE i) /\ f[k] = (IF at(k) + 1 < last THEN at(k) + 1 ELSE i)
      OBVIOUS
    <2> QED
      BY <1>1, <2>1, <2>2, <2>3
  <1>7. IsFiniteSet(KeptFrom(i)) /\ Cardinality(KeptFrom(i)) \in Nat
    <2>1. IsFiniteSet(pos .. last)
      BY <1>1, FS_Interval
    <2>2. KeptFrom(i) \in SUBSET (pos .. last)
      BY DEF KeptFrom, LineStarts
    <2>3. IsFiniteSet(KeptFrom(i))
      BY <2>1, <2>2, FS_Subset
    <2> QED
      BY <2>3, FS_CardinalityType
  <1>8. f \in Injection(Ends(a, w), KeptFrom(i))
    <2>1. f \in [Ends(a, w) -> KeptFrom(i)]
      <3>1. f = [j \in Ends(a, w) |-> f[j]]
        OBVIOUS
      <3> HIDE DEF f
      <3> QED
        BY <1>5, <3>1
    <2> HIDE DEF f
    <2> QED
      BY <1>6, <2>1 DEF Injection, IsInjective
  <1>9. Cardinality(Ends(a, w)) <= Cardinality(KeptFrom(i))
    <2> HIDE DEF f
    <2> QED
      BY <1>7, <1>8, FS_Injection
  <1>10. Cardinality(Ends(a, w)) \in Nat
    <2>1. a \in Int /\ w \in Int
      OBVIOUS
    <2> QED
      BY <2>1, EndsFinite, Zenon
  <1> QED
    BY <1>1, <1>2, <1>7, <1>9, <1>10

LEMMA BInitInv == ASSUME Init PROVE BInv
  <1>1. absoluteOffset = 0 /\ pos = 0 /\ last = 0 /\ end = 0 /\ capacity = Capacity /\ pc = "consume"
    BY DEF Init
  <1>2. Ends(WindowAt, DataAt) = {}
    BY <1>1 DEF Ends, WindowAt, DataAt
  <1>3. BufferBounded
    BY <1>1, CapacityAssumption DEF BufferBounded
  <1> QED
    BY <1>1, <1>2, <1>3 DEF BInv, FewLines

\* What the bounds of the buffer are in numbers.
LEMMA Bounds ==
    ASSUME IInv, BInv
    PROVE  /\ pos \in Nat /\ last \in Nat /\ end \in Nat /\ absoluteOffset \in Nat
           /\ pos <= last /\ last <= end /\ end <= capacity /\ capacity \in Nat
           /\ taken \in Nat /\ taken <= size /\ size \in Nat
           /\ WindowAt \in Nat /\ DataAt \in Nat /\ absoluteOffset <= WindowAt /\ WindowAt <= DataAt
           /\ ~Quitting => DataAt = taken
           /\ Ends(WindowAt, DataAt) = {}
  <1>1. /\ pos \in Nat /\ last \in Nat /\ end \in Nat /\ absoluteOffset \in Nat
        /\ pos <= last /\ last <= end /\ end <= capacity /\ capacity \in Nat
        /\ taken \in Nat /\ taken <= size /\ size \in Nat
    BY DEF IInv, TypeOK
  <1> QED
    BY <1>1 DEF BInv, FewLines, WindowAt, DataAt, IInv, Faithful

LEMMA BConsumeInv == ASSUME IInv, BInv, Consume PROVE BInv'
  <1>1. PICK i \in LineStarts : /\ Cardinality(KeptFrom(i)) <= Keep
                                /\ pos' = i /\ absoluteOffset' = absoluteOffset + (i - pos)
    BY DEF Consume
  <1>2. /\ pc' = "fill" /\ UNCHANGED <<inputs, buf, capacity, last, end>>
    BY DEF Consume
  <1>3. i \in Nat /\ pos <= i /\ i <= last
    BY Bounds DEF LineStarts
  <1>4. WindowAt' = WindowAt /\ DataAt' = DataAt
    BY <1>1, <1>2, <1>3, Bounds DEF WindowAt, DataAt
  <1>5. PICK a \in Nat, w \in Nat, d \in Nat : a = absoluteOffset' /\ w = WindowAt /\ d = DataAt
    BY <1>1, <1>3, Bounds
  <1>6. Cardinality(Ends(a, w)) <= Keep
    BY <1>1, <1>5, KeptFew
  <1>7. Ends(w, d) = {}
    BY <1>5, Bounds
  <1>8. Ends(WindowAt, DataAt)' = Ends(w, d) /\ Ends(absoluteOffset, WindowAt)' = Ends(a, w)
    BY <1>2, <1>4, <1>5 DEF Ends, Converted, inputs
  <1>9. BufferBounded'
    BY <1>2, LinesStay DEF BInv, BufferBounded
  <1> QED
    BY <1>2, <1>6, <1>7, <1>8, <1>9 DEF BInv, FewLines

LEMMA BScanInv == ASSUME IInv, BInv, Filled \/ Scan \/ FillAfterQuit PROVE BInv'
  <1>1. /\ UNCHANGED <<inputs, capacity, last, end>>
        /\ pc' \notin {"fill", "read"}
    BY DEF Filled, Scan, FillAfterQuit, bounds
  <1>2. absoluteOffset' - absoluteOffset = pos' - pos /\ pos' \in Int /\ absoluteOffset' \in Int
    <2>1. CASE UNCHANGED <<pos, absoluteOffset>>
      BY <2>1, Bounds
    <2>2. CASE pos' = pos + oldLen /\ absoluteOffset' = absoluteOffset + oldLen
      <3>1. oldLen \in Nat
        BY DEF IInv, TypeOK
      <3> QED
        BY <2>2, <3>1, Bounds
    <2>3. CASE \E i \in LineStarts : pos' = i /\ absoluteOffset' = absoluteOffset + (i - pos)
      <3>1. PICK i \in LineStarts : pos' = i /\ absoluteOffset' = absoluteOffset + (i - pos)
        BY <2>3
      <3>2. i \in Nat
        BY Bounds DEF LineStarts
      <3> QED
        BY <3>1, <3>2, Bounds
    <2> QED
      BY <2>1, <2>2, <2>3 DEF Filled, Scan, FillAfterQuit, bounds
  <1>3. WindowAt' = WindowAt /\ DataAt' = DataAt
    BY <1>1, <1>2, Bounds DEF WindowAt, DataAt
  <1>4. PICK w \in Nat, d \in Nat : w = WindowAt /\ d = DataAt
    BY Bounds
  <1>5. Ends(w, d) = {}
    BY <1>4, Bounds
  <1> QED
    BY <1>1, <1>3, <1>4, <1>5, FewLinesFrom

LEMMA BRollInv == ASSUME IInv, BInv, Roll PROVE BInv'
  <1>1. /\ pc = "fill" /\ ~Quitting /\ pc' = "read" /\ UNCHANGED <<inputs, capacity, absoluteOffset>>
        /\ pos' = 0 /\ last' = end - pos /\ end' = end - pos
    BY DEF Roll, Rolled, RolledLast
  <1>2. PICK a \in Nat, w \in Nat, d \in Nat : a = absoluteOffset /\ w = WindowAt /\ d = DataAt
    BY Bounds
  <1>3. absoluteOffset' = a /\ WindowAt' = d /\ DataAt' = d
    BY <1>1, <1>2, Bounds DEF WindowAt, DataAt
  <1>4. Ends(a, d) = Ends(a, w) /\ Ends(d, d) = {}
    <2>1. a <= w /\ w <= d /\ Ends(w, d) = {}
      BY <1>2, Bounds
    <2> QED
      BY <2>1 DEF Ends
  <1>5. Cardinality(Ends(a, w)) <= Keep
    BY <1>1, <1>2 DEF BInv, FewLines
  <1>6. Ends(WindowAt, DataAt)' = Ends(d, d) /\ Ends(absoluteOffset, DataAt)' = Ends(a, d)
    BY <1>1, <1>3 DEF Ends, Converted, inputs
  <1>7. BufferBounded'
    BY <1>1, LinesStay DEF BInv, BufferBounded
  <1> QED
    BY <1>1, <1>4, <1>5, <1>6, <1>7 DEF BInv, FewLines

\* A full buffer in the middle of a fill holds the few lines that are kept and a part of the next.
LEMMA GrownBounded == ASSUME IInv, BInv, pc = "read", capacity' = Grown, UNCHANGED inputs PROVE BufferBounded'
  <1>1. LongestLine' = LongestLine /\ LongestLine \in Nat /\ Keep \in Nat /\ Capacity \in Nat
    BY LinesStay, LongestIs, BoundsAssumption, CapacityAssumption DEF IInv
  <1>2. CASE end < capacity
    BY <1>1, <1>2 DEF Grown, BInv, BufferBounded
  <1>3. CASE ~(end < capacity)
    <2>1. PICK a \in Nat, d \in Nat : a = absoluteOffset /\ d = DataAt
      BY Bounds
    <2>2. pos = 0 /\ ~Quitting
      BY DEF IInv, Control
    <2>3. a <= d /\ d <= size /\ d - a = end /\ end = capacity /\ capacity \in Nat
      BY <1>3, <2>1, <2>2, Bounds DEF DataAt
    <2>4. Cardinality(Ends(a, d)) <= Keep
      BY <2>1 DEF BInv, FewLines
    <2>5. d - a <= (Keep + 1) * LongestLine
      BY <1>1, <2>3, <2>4, LinesFit DEF IInv
    <2>6. PICK m \in Nat : m = (Keep + 1) * LongestLine
      BY <1>1
    <2>7. 2 * (Keep + 1) * LongestLine = 2 * m
      BY <1>1, <2>6
    <2>8. capacity' <= 2 * m
      BY <1>3, <2>3, <2>5, <2>6 DEF Grown
    <2> QED
      BY <1>1, <2>7, <2>8 DEF BufferBounded
  <1> QED
    BY <1>2, <1>3

LEMMA BReadInv == ASSUME IInv, BInv, Read PROVE BInv'
  <1>1. PICK n \in 0 .. size - taken, err \in {"nil", "eof", "error"} :
        IF QuitOn(n) THEN end' = end /\ last' = end /\ pc' = "filled"
        ELSE /\ end' = end + n
             /\ IF NewlinesIn(n) # {}
                THEN last' = WindowEnd(n) /\ pc' = "filled"
                ELSE IF err = "error" THEN pc' = "failed" /\ UNCHANGED last
                ELSE IF err = "eof" \/ n = 0 THEN last' = LastAtEnd(n) /\ pc' = "filled"
                ELSE pc' = "read" /\ UNCHANGED last
    BY DEF Read, ReadChunk
  <1>2. pc = "read" /\ capacity' = Grown /\ UNCHANGED <<inputs, pos, absoluteOffset>>
    BY DEF Read, ReadChunk
  <1>3. BufferBounded'
    BY <1>2, GrownBounded
  <1>4. PICK a \in Nat, w \in Nat, d \in Nat : a = absoluteOffset /\ w = WindowAt /\ d = taken
    BY Bounds
  <1>5. /\ pos = 0 /\ DataAt = d /\ a <= w /\ w <= d /\ n \in Nat /\ d + n <= size /\ size \in Nat
        /\ w = a + last /\ d = a + end /\ last \in Nat /\ end \in Nat
    <2>1. pos = 0 /\ ~Quitting
      BY <1>2 DEF IInv, Control
    <2> QED
      BY <1>4, <2>1, Bounds DEF WindowAt, DataAt
  <1>6. Ends(w, d) = {} /\ Cardinality(Ends(a, d)) <= Keep
    BY <1>2, <1>4, <1>5 DEF BInv, FewLines
  <1>7. last' \in Int /\ end' \in Int => absoluteOffset' = a /\ WindowAt' = a + last' /\ DataAt' = a + end'
    BY <1>2, <1>4, <1>5 DEF WindowAt, DataAt
  <1>8. CASE QuitOn(n)
    <2>1. WindowAt' = d /\ DataAt' = d /\ pc' = "filled"
      BY <1>1, <1>5, <1>7, <1>8
    <2>2. Ends(WindowAt, DataAt)' = {}
      BY <2>1 DEF Ends
    <2> QED
      BY <1>3, <2>1, <2>2 DEF BInv, FewLines
  <1>9. CASE ~QuitOn(n) /\ NewlinesIn(n) # {}
    <2>1. NewlinesIn(n) \in SUBSET Nat /\ \A i \in NewlinesIn(n) : i <= size
      BY <1>4, <1>5 DEF NewlinesIn, Chunk
    <2>2. Max(NewlinesIn(n)) \in NewlinesIn(n) /\ \A i \in NewlinesIn(n) : Max(NewlinesIn(n)) >= i
      BY <1>5, <1>9, <2>1, MaxExists
    <2>3. PICK m \in Nat : m = Max(NewlinesIn(n))
      BY <2>1, <2>2
    <2>4. d <= m /\ m < d + n
      <3>1. m \in NewlinesIn(n)
        BY <2>2, <2>3
      <3> QED
        BY <1>4, <1>5, <3>1 DEF NewlinesIn, Chunk
    <2>5. last' = end + (m - d) + 1 /\ end' = end + n /\ pc' = "filled"
      BY <1>1, <1>4, <1>9, <2>3 DEF WindowEnd, InBuffer
    <2>6. WindowAt' = m + 1 /\ DataAt' = d + n
      BY <1>5, <1>7, <2>4, <2>5
    <2>7. Ends(m + 1, d + n) = {}
      <3>1. ASSUME NEW i \in Ends(m + 1, d + n) PROVE FALSE
        <4>1. i \in Int /\ m < i /\ i < d + n /\ Converted(file[i]) = "nl"
          BY DEF Ends
        <4>2. i \in NewlinesIn(n)
          BY <1>4, <1>5, <2>4, <4>1 DEF NewlinesIn, Chunk
        <4> QED
          BY <2>2, <2>3, <4>1, <4>2
      <3> QED
        BY <3>1
    <2>8. Ends(WindowAt, DataAt)' = Ends(m + 1, d + n)
      BY <1>2, <2>6 DEF Ends, Converted, inputs
    <2> QED
      BY <1>3, <2>5, <2>7, <2>8 DEF BInv, FewLines
  <1>10. CASE ~QuitOn(n) /\ NewlinesIn(n) = {}
    <2>1. \A i \in d .. d + n - 1 : Converted(file[i]) # "nl"
      BY <1>4, <1>10 DEF NewlinesIn, Chunk
    <2>2. Ends(w, d + n) = {} /\ Ends(a, d + n) = Ends(a, d) /\ Ends(d + n, d + n) = {}
      <3>1. \A x \in {w, a} : Ends(x, d + n) = Ends(x, d)
        BY <1>5, <2>1 DEF Ends
      <3>2. Ends(d + n, d + n) = {}
        BY <1>5 DEF Ends
      <3> QED
        BY <1>6, <3>1, <3>2
    <2>3. end' = end + n /\ (last' = last \/ (last' = end + n /\ pc' = "filled"))
      BY <1>1, <1>10 DEF LastAtEnd
    <2>4. PICK e \in Nat : e = d + n
      BY <1>5
    <2>5. DataAt' = e /\ absoluteOffset' = a /\ (WindowAt' = w \/ (WindowAt' = e /\ pc' = "filled"))
      BY <1>5, <1>7, <2>3, <2>4
    <2>6. Ends(absoluteOffset, DataAt)' = Ends(a, e)
      BY <1>2, <2>5 DEF Ends, Converted, inputs
    <2>7. Ends(WindowAt, DataAt)' = {}
      <3>1. CASE WindowAt' = w
        <4>1. Ends(WindowAt, DataAt)' = Ends(w, e)
          BY <1>2, <2>5, <3>1 DEF Ends, Converted, inputs
        <4> QED
          BY <2>2, <2>4, <4>1
      <3>2. CASE WindowAt' = e
        <4>1. Ends(WindowAt, DataAt)' = Ends(e, e)
          BY <1>2, <2>5, <3>2 DEF Ends, Converted, inputs
        <4> QED
          BY <2>2, <2>4, <4>1
      <3> QED
        BY <2>5, <3>1, <3>2
    <2>8. Cardinality(Ends(absoluteOffset, DataAt))' <= Keep
      BY <1>2, <1>6, <2>2, <2>4, <2>6 DEF inputs
    <2>9. pc' # "fill"
      BY <1>1, <1>10
    <2> QED
      BY <1>3, <2>7, <2>8, <2>9 DEF BInv, FewLines
  <1> QED
    BY <1>8, <1>9, <1>10

LEMMA BNextInv == IInv /\ BInv /\ [Next]_vars => BInv'
  <1> SUFFICES ASSUME IInv, BInv, [Next]_vars PROVE BInv'
    OBVIOUS
  <1>1. CASE UNCHANGED vars
    <2>1. /\ UNCHANGED <<inputs, capacity, absoluteOffset, pc>> /\ WindowAt' = WindowAt /\ DataAt' = DataAt
      BY <1>1 DEF vars, bounds, WindowAt, DataAt
    <2>2. /\ Ends(WindowAt, DataAt)' = Ends(WindowAt, DataAt)
          /\ Ends(absoluteOffset, WindowAt)' = Ends(absoluteOffset, WindowAt)
          /\ Ends(absoluteOffset, DataAt)' = Ends(absoluteOffset, DataAt)
      BY <2>1 DEF Ends, Converted, inputs
    <2>3. BufferBounded'
      BY <2>1, LinesStay DEF BInv, BufferBounded
    <2> QED
      BY <2>1, <2>2, <2>3 DEF BInv, FewLines
  <1> QED
    BY <1>1, BConsumeInv, BScanInv, BRollInv, BReadInv DEF Next, Step, Returned

LEMMA BufferSafe == Init /\ [][Next]_vars => []BufferBounded
  <1>1. Init => IInv /\ BInv
    BY InitInv, BInitInv
  <1>2. IInv /\ BInv /\ [Next]_vars => (IInv /\ BInv)'
    BY NextInv, BNextInv
  <1>3. IInv /\ BInv => BufferBounded
    BY DEF BInv
  <1> QED
    BY <1>1, <1>2, <1>3, PTL

-----------------------------------------------------------------------------
(* The theorems on the buffer.                                                  *)

\* What is known of the buffer in every reachable state.
THEOREM Invariant == Spec => []IInv
  BY InitInv, NextInv, PTL DEF Spec

\* The buffer's bounds stay in order, whatever the reader delivers.
THEOREM TypeCorrect == Spec => []TypeOK
  BY Invariant, PTL DEF IInv

\* The buffer is a piece of the file at absoluteOffset, and without binary data no
\* byte that was read is lost: through growing, rolling and partial lines.
THEOREM FaithfulBuffer == Spec => []Faithful
  BY Invariant, PTL DEF IInv

\* The first NUL is found and its offset in the file is exact; under quit nothing
\* of the chunk it came in is searched.
THEOREM BinaryOffsetExact == Spec => []BinaryExact
  BY Invariant, PTL DEF IInv

\* Every window consists of complete lines, but for the last of the data.
THEOREM CompleteWindows == Spec => []WindowsComplete
  <1>1. IInv => WindowsComplete
    BY InvariantImplies
  <1> QED
    BY <1>1, Invariant, PTL

\* When the loop ends by itself it has searched everything that was read: giving
\* up for lack of progress never drops a line that was not a window yet.
THEOREM NothingLeftOver == Spec => []AllSearched
  BY Invariant, PTL DEF IInv

\* The buffer grows for long lines only, never for the context that Search retains.
THEOREM BufferStaysSmall == Spec => []BufferBounded
  BY BufferSafe, PTL DEF Spec

-----------------------------------------------------------------------------
(* rawFile and bomReader: the inductive invariant, in parts.               *)

Errors == {"nil", "eof", "error"}

Layers ==
    /\ source \in {"any", "walked", "explicit"} /\ mark \in 0 .. 3
    /\ offset \in Nat /\ offset <= DiskSize /\ eofHint \in BOOLEAN /\ broken \in BOOLEAN
    /\ stage \in {"first", "gather", "again", "ready", "done"}
    /\ got \in -1 .. 3 /\ gerr \in Errors
    /\ chunk \in [from : Nat, n : Nat, err : Errors]
    /\ mark < 3 => mark <= size
    /\ capacity >= Capacity
    /\ source = "any" => stage = "first" /\ mark = 0

\* An armed end is the end, and a descriptor that failed is not at one.
HintTrue ==
    /\ eofHint => offset = DiskSize /\ source = "walked"
    /\ broken => ~eofHint

\* Nothing has been handed out before the first Read has returned.
Untouched ==
    source # "any" /\ stage \in {"first", "gather", "again"} => end = 0 /\ taken = 0 /\ ~ended

FirstStage ==
    source # "any" /\ stage = "first" =>
        /\ offset = 0 /\ ~eofHint
        /\ pc \in {"consume", "fill", "read", "failed"} /\ (pc # "failed" => ~broken)

\* finishBOMCheck has what the descriptor gave; -1 takes one byte back.
Gathering ==
    stage = "gather" =>
        /\ pc = "read" /\ got <= offset
        /\ source = "walked" => offset = DiskSize
        /\ gerr = "nil" => got = offset /\ ~broken
        /\ gerr = "eof" => got = offset /\ offset = DiskSize /\ got < 3 /\ ~broken
        /\ gerr = "error" => got < 3 /\ broken

Again == stage = "again" => pc = "read" /\ mark = 3 /\ offset = 3 /\ ~broken

\* What Read returns is what comes next, and all of the rest at the end.
Ready ==
    stage = "ready" =>
        /\ pc = "read"
        /\ ~CutMark => taken + chunk.n <= size
        /\ chunk.err = "nil" => ~CutMark /\ ~broken
        /\ chunk.err = "eof" => offset = DiskSize /\ ~CutMark /\ ~broken
        /\ chunk.err = "error" => broken
        /\ StreamExact

\* Between two Reads the descriptor stands behind what was handed out.
Between == stage = "done" => broken \/ offset = Skipped + taken

RInv == IInv /\ Layers /\ HintTrue /\ Untouched /\ FirstStage /\ Gathering /\ Again /\ Ready /\ Between

-----------------------------------------------------------------------------
(* The reads of the file.                                                  *)

LEMMA MinPair == ASSUME NEW a \in Int, NEW b \in Int PROVE Min({a, b}) = IF a <= b THEN a ELSE b
  <1>1. \E m \in {a, b} : \A y \in {a, b} : m <= y
    OBVIOUS
  <1>2. Min({a, b}) \in {a, b} /\ \A y \in {a, b} : Min({a, b}) <= y
    BY <1>1, Zenon DEF Min
  <1> QED
    BY <1>2

LEMMA MaxPair == ASSUME NEW a \in Int, NEW b \in Int PROVE Max({a, b}) = IF a >= b THEN a ELSE b
  <1>1. \E m \in {a, b} : \A y \in {a, b} : m >= y
    OBVIOUS
  <1>2. Max({a, b}) \in {a, b} /\ \A y \in {a, b} : Max({a, b}) >= y
    BY <1>1, Zenon DEF Max
  <1> QED
    BY <1>2

LEMMA Sizes ==
    ASSUME RInv
    PROVE  /\ size \in Nat /\ mark \in 0 .. 3 /\ Skipped \in {0, 3} /\ DiskSize \in Nat /\ DiskSize = Skipped + size
           /\ mark = 3 <=> Skipped = 3
           /\ capacity \in Nat /\ end \in Nat /\ pos \in Nat /\ taken \in Nat /\ taken <= size
           /\ Grown \in Nat /\ Grown >= capacity /\ Free \in Nat /\ Free > 0
           /\ end = 0 => Free = capacity /\ Grown = capacity /\ Free >= 3
  <1>1. TypeOK /\ Layers
    BY DEF RInv, IInv
  <1>2. size \in Nat /\ mark \in 0 .. 3 /\ capacity \in Nat \ {0} /\ end \in Nat /\ end <= capacity
        /\ pos \in Nat /\ taken \in 0 .. size /\ capacity >= Capacity
    BY <1>1 DEF TypeOK, Layers
  <1>3. Skipped \in {0, 3} /\ (mark = 3 <=> Skipped = 3)
    BY DEF Skipped
  <1>4. Capacity \in Nat /\ Capacity >= 3
    BY CapacityAssumption, RoomForMark
  <1>5. DiskSize \in Nat /\ DiskSize = Skipped + size
    BY <1>2, <1>3 DEF DiskSize
  <1>6. Grown \in Nat /\ Grown >= capacity /\ Free \in Nat /\ Free > 0 /\ (end = 0 => Grown = capacity /\ Free = capacity)
    BY <1>2 DEF Grown, Free
  <1> QED
    BY <1>2, <1>3, <1>4, <1>5, <1>6

\* What read(2) and the hint for its end may answer.
LEMMA RawReadIs ==
    ASSUME RInv, source # "any", NEW len \in Nat, len > 0, NEW r \in Results(len), RawRead(len, r[1], r[2])
    PROVE  /\ r[1] \in Int /\ -1 <= r[1] /\ r[1] <= len /\ r[2] \in Errors
           /\ offset' \in Nat /\ offset' <= DiskSize /\ eofHint' \in BOOLEAN /\ broken' \in BOOLEAN
           /\ eofHint' => offset' = DiskSize /\ source = "walked"
           /\ broken' => ~eofHint'
           /\ r[2] = "nil" => r[1] > 0 /\ offset' = offset + r[1] /\ ~broken' /\ ~broken
           /\ r[2] = "nil" /\ source = "walked" => r[1] = len \/ offset' = DiskSize
           /\ r[2] = "eof" => r[1] = 0 /\ offset' = offset /\ offset = DiskSize /\ ~broken'
           /\ r[2] = "error" => r[1] = -1 /\ broken' /\ offset' = offset
  <1>1. PICK n, err : n = r[1] /\ err = r[2]
    OBVIOUS
  <1>2. n \in -1 .. len /\ err \in Errors
    BY <1>1 DEF Results, Errors
  <1>3. n \in Int /\ -1 <= n /\ n <= len
    BY <1>2
  <1>4. /\ offset \in Nat /\ offset <= DiskSize /\ eofHint \in BOOLEAN /\ broken \in BOOLEAN /\ DiskSize \in Nat
        /\ source \in {"walked", "explicit"}
        /\ eofHint => offset = DiskSize /\ source = "walked"
        /\ broken => ~eofHint
    BY Sizes DEF RInv, Layers, HintTrue
  <1>5. CASE eofHint /\ n = 0 /\ err = "eof" /\ eofHint' = FALSE /\ UNCHANGED <<offset, broken>>
    BY <1>1, <1>3, <1>4, <1>5 DEF Errors
  <1>6. CASE ~eofHint /\ n = -1 /\ err = "error" /\ broken' = TRUE /\ UNCHANGED <<offset, eofHint>>
    BY <1>1, <1>3, <1>4, <1>6 DEF Errors
  <1>7. CASE ~eofHint /\ ~broken /\ offset = DiskSize /\ n = 0 /\ err = "eof" /\ UNCHANGED rawFile
    BY <1>1, <1>3, <1>4, <1>7 DEF Errors, rawFile
  <1>8. CASE ~eofHint /\ ~broken /\ offset < DiskSize /\ n \in Transfers(len) /\ err = "nil"
             /\ offset' = offset + n /\ eofHint' = ArmsHint(n, len) /\ UNCHANGED broken
    <2>1. PICK most \in Nat : most = Min({len, DiskSize - offset})
      BY <1>4, <1>8, MinPair
    <2>2. most > 0 /\ most <= len /\ most <= DiskSize - offset /\ (most = len \/ most = DiskSize - offset)
      BY <1>4, <1>8, <2>1, MinPair
    <2>3. (source = "walked" => n = most) /\ n > 0 /\ n <= most
      BY <1>3, <1>8, <2>1, <2>2 DEF Transfers
    <2>4. offset' \in Nat /\ offset' <= DiskSize
      BY <1>3, <1>4, <1>8, <2>2, <2>3
    <2>5. eofHint' \in BOOLEAN /\ (eofHint' => n < len /\ source = "walked")
      BY <1>8 DEF ArmsHint
    <2>6. source = "walked" => n = len \/ offset' = DiskSize
      BY <1>3, <1>4, <1>8, <2>2, <2>3
    <2>7. eofHint' => offset' = DiskSize /\ source = "walked"
      BY <1>3, <2>5, <2>6
    <2> QED
      BY <1>1, <1>3, <1>4, <1>8, <2>3, <2>4, <2>5, <2>6, <2>7 DEF Errors
  <1> QED
    BY <1>1, <1>5, <1>6, <1>7, <1>8 DEF RawRead

\* What is at the Sink of Read: the n bytes it returns fit the buffer.
LEMMA ReturnIs ==
    ASSUME NEW from \in Nat, NEW n \in Int, NEW err \in Errors, Return(from, n, err)
    PROVE  /\ chunk' = [from |-> from, n |-> IF n >= 0 THEN n ELSE 0, err |-> err] /\ stage' = "ready"
           /\ chunk' \in [from : Nat, n : Nat, err : Errors]
           /\ chunk'.from = from /\ chunk'.n = (IF n >= 0 THEN n ELSE 0) /\ chunk'.err = err
  <1>1. Max({n, 0}) = IF n >= 0 THEN n ELSE 0
    BY MaxPair
  <1> QED
    BY <1>1 DEF Return

LEMMA Fixed ==
    ASSUME UNCHANGED <<inputs, disk>>
    PROVE  /\ size' = size /\ mark' = mark /\ source' = source
           /\ Skipped' = Skipped /\ DiskSize' = DiskSize
  BY DEF inputs, disk, Skipped, DiskSize

-----------------------------------------------------------------------------
(* A file's reader is a reader.                                            *)

\* Read panics: to Search it is as if the reader had failed at once.
LEMMA FirstFails ==
    ASSUME RInv, source # "any", stage = "first", pc = "read", pc' = "failed",
           UNCHANGED <<inputs, buf, capacity, bounds, absoluteOffset, binaryOffset, reader, turn>>
    PROVE  Read
  <1>1. TypeOK /\ end = 0 /\ taken = 0 /\ ended = FALSE /\ capacity' = capacity /\ Grown = capacity
    BY Sizes DEF RInv, IInv, Untouched, TypeOK
  <1>2. buf \in [0 .. capacity - 1 -> Byte] /\ capacity \in Nat \ {0} /\ size \in Nat
    BY <1>1 DEF TypeOK
  <1>3. NulsIn(0) = {} /\ NewlinesIn(0) = {}
    BY <1>1 DEF NulsIn, NewlinesIn, Chunk
  <1>4. Detected(0) = binaryOffset /\ ~QuitOn(0)
    BY <1>3 DEF Detected, QuitOn
  <1>5. buf' = [i \in 0 .. Grown - 1 |->
                IF i \in end .. end + 0 - 1 THEN Converted(file[taken + (i - end)])
                ELSE IF i < capacity THEN buf[i] ELSE "nul"]
    <2>1. \A i \in 0 .. capacity - 1 : ~(i \in end .. end + 0 - 1) /\ i < capacity
      BY <1>1, <1>2
    <2>2. buf = [i \in 0 .. capacity - 1 |-> buf[i]]
      BY <1>2
    <2> QED
      BY <1>1, <2>1, <2>2
  <1>6. ended' = FALSE /\ taken' = taken + 0 /\ end' = end + 0 /\ last' = last /\ binaryOffset' = binaryOffset
    BY <1>1 DEF reader, bounds
  <1>7. 0 <= Grown - end
    BY <1>1, <1>2
  <1>8. ReadChunk(0, "error")
    BY <1>1, <1>3, <1>4, <1>5, <1>6, <1>7 DEF ReadChunk, bounds
  <1>9. 0 \in 0 .. size - taken
    BY <1>1, <1>2
  <1> QED
    BY <1>8, <1>9 DEF Read

LEMMA ReceiveReads ==
    ASSUME RInv, Receive
    PROVE  Read
  <1>1. /\ stage = "ready" /\ Ready /\ Layers
        /\ ReadChunk(IF CutMark THEN 0 ELSE chunk.n, chunk.err)
    BY DEF Receive, RInv
  <1>2. chunk.n \in Nat /\ chunk.err \in {"nil", "eof", "error"} /\ taken \in Nat /\ size \in Nat /\ taken <= size
    BY <1>1, Sizes DEF Layers, Errors
  <1>3. PICK n : n = IF CutMark THEN 0 ELSE chunk.n
    OBVIOUS
  <1>4. n \in 0 .. size - taken
    BY <1>1, <1>2, <1>3 DEF Ready
  <1> QED
    BY <1>1, <1>2, <1>3, <1>4 DEF Read

\* Every step of Search over a file is a step of Search over some reader, or one inside Read.
LEMMA StepRefines == ASSUME RInv, [ReadingNext]_readingVars PROVE [Next]_vars
  <1>1. CASE UNCHANGED readingVars
    BY <1>1 DEF readingVars
  <1>2. CASE source # "any" /\ FirstRead
    <2>1. PICK r \in Results(Free) :
            /\ RawRead(Free, r[1], r[2])
            /\ CASE r[1] < 0 -> pc' = "failed" /\ UNCHANGED <<stage, check, chunk>>
                 [] r[1] \in 0 .. 2 -> stage' = "gather" /\ got' = r[1] /\ gerr' = r[2] /\ UNCHANGED <<pc, chunk>>
                 [] r[1] = 3 /\ mark = 3 -> stage' = "again" /\ UNCHANGED <<pc, check, chunk>>
                 [] OTHER -> Return(Skipped, r[1] - Skipped, r[2]) /\ UNCHANGED <<pc, check>>
      BY <1>2 DEF FirstRead
    <2>2. /\ pc = "read" /\ stage = "first"
          /\ UNCHANGED <<inputs, buf, capacity, bounds, absoluteOffset, binaryOffset, reader, turn, disk>>
      BY <1>2 DEF FirstRead
    <2>3. CASE r[1] < 0
      <3>1. pc' = "failed"
        <4>1. ~(r[1] \in 0 .. 2) /\ r[1] # 3
          <5>1. r[1] \in Int
            BY Sizes DEF Results
          <5> QED
            BY <2>3, <5>1
        <4> QED
          BY <2>1, <2>3, <4>1
      <3>2. Read
        BY <1>2, <2>2, <3>1, FirstFails
      <3> QED
        BY <3>2 DEF Next, Step
    <2>4. CASE ~(r[1] < 0)
      <3>1. UNCHANGED pc
        BY <2>1, <2>4
      <3> QED
        BY <2>2, <3>1 DEF vars
    <2> QED
      BY <2>3, <2>4
  <1>3. CASE Gather \/ Gathered \/ PassedOn
    BY <1>3 DEF Gather, Gathered, PassedOn
  <1>4. CASE Receive
    BY <1>4, ReceiveReads DEF Next, Step
  <1>5. CASE ReadAny
    BY <1>5 DEF ReadAny, Next, Step
  <1>6. CASE Consume \/ Filled \/ Scan \/ FillAfterQuit \/ Roll
    BY <1>6 DEF Next, Step
  <1> QED
    BY <1>1, <1>2, <1>3, <1>4, <1>5, <1>6 DEF ReadingNext, ReadingStep, ReadFile

-----------------------------------------------------------------------------
(* The invariant.                                                          *)

LEMMA RInitInv == ASSUME ReadingInit PROVE RInv
  <1>1. IInv
    BY InitInv DEF ReadingInit
  <1>2. /\ size \in Nat /\ capacity = Capacity /\ Capacity \in Nat /\ taken = 0 /\ end = 0 /\ ended = FALSE
        /\ pc = "consume"
    BY <1>1, CapacityAssumption DEF ReadingInit, Init, IInv, TypeOK
  <1>3. /\ source \in {"any", "walked", "explicit"} /\ mark \in 0 .. 3 /\ (source = "any" => mark = 0)
        /\ mark < 3 => mark <= size
        /\ offset = 0 /\ eofHint = FALSE /\ broken = FALSE
        /\ stage = "first" /\ got = 0 /\ gerr = "nil" /\ chunk = NoChunk
    BY DEF ReadingInit
  <1>4. DiskSize \in Nat
    BY <1>2, <1>3 DEF DiskSize, Skipped
  <1>5. Layers
    <2>1. chunk \in [from : Nat, n : Nat, err : Errors]
      BY <1>3 DEF Errors, NoChunk
    <2>2. offset \in Nat /\ offset <= DiskSize /\ got \in -1 .. 3 /\ gerr \in Errors /\ capacity >= Capacity
      BY <1>2, <1>3, <1>4 DEF Errors
    <2> QED
      BY <1>3, <2>1, <2>2 DEF Layers
  <1> QED
    BY <1>1, <1>2, <1>3, <1>5 DEF RInv, HintTrue, Untouched, FirstStage, Gathering, Again, Ready, Between

\* What Read returns is right when it stands where the stream does.
LEMMA MadeReady ==
    ASSUME RInv, IInv', source # "any", pc = "read", UNCHANGED <<vars, disk>>,
           NEW from \in Nat, NEW n \in Int, NEW err \in Errors, Return(from, n, err),
           got' \in -1 .. 3, gerr' \in Errors,
           offset' \in Nat, offset' <= DiskSize, eofHint' \in BOOLEAN, broken' \in BOOLEAN,
           eofHint' => offset' = DiskSize /\ source = "walked",
           broken' => ~eofHint',
           n <= Free,
           n > 0 /\ (err = "error" => from >= Skipped) => from = Skipped + taken,
           err = "eof" => n >= 0 /\ taken + n = size /\ offset' = DiskSize /\ from >= Skipped /\ ~broken',
           err = "nil" => n > 0 /\ from + n = offset' /\ from >= Skipped /\ ~broken',
           err = "error" => broken',
           source = "walked" /\ err = "nil" =>
              n = Free \/ offset' = DiskSize \/ (taken = 0 /\ mark = 3 /\ n = Free - 3),
           from >= Skipped /\ n > 0 => taken + n <= size
    PROVE  RInv'
  <1>1. /\ size' = size /\ mark' = mark /\ source' = source /\ Skipped' = Skipped /\ DiskSize' = DiskSize
        /\ taken' = taken /\ capacity' = capacity /\ pc' = pc /\ Free' = Free
    BY Fixed DEF vars, inputs, reader, Free, Grown, bounds
  <1>2. /\ stage' = "ready" /\ chunk' \in [from : Nat, n : Nat, err : Errors]
        /\ chunk'.from = from /\ chunk'.n = (IF n >= 0 THEN n ELSE 0) /\ chunk'.err = err
    BY ReturnIs
  <1>3. Layers'
    BY <1>1, <1>2 DEF RInv, Layers
  <1>4. HintTrue' /\ Untouched' /\ FirstStage' /\ Gathering' /\ Again' /\ Between'
    BY <1>1, <1>2 DEF HintTrue, Untouched, FirstStage, Gathering, Again, Between
  <1>5. size \in Nat /\ taken \in Nat /\ taken <= size /\ Skipped \in Nat /\ Free \in Nat /\ Free > 0
    BY Sizes
  <1>6. PICK c \in Nat : c = IF n >= 0 THEN n ELSE 0
    OBVIOUS
  <1>7. chunk'.n = c /\ (c > 0 => c = n) /\ (err # "error" => c = n) /\ (n <= 0 => c = 0)
    BY <1>2, <1>6 DEF Errors
  <1>8. StreamExact'
    <2>1. c <= Free
      BY <1>5, <1>6
    <2>2. c > 0 /\ (err = "error" => ~(from < Skipped)) => from = Skipped + taken
      BY <1>5, <1>7
    <2>3. /\ err = "eof" => taken + c = size
          /\ err = "nil" => c > 0 /\ from + c = offset'
      BY <1>7
    <2>4. source = "walked" /\ err = "nil" =>
              c = Free \/ offset' = DiskSize \/ (taken = 0 /\ mark = 3 /\ c = Free - 3)
      BY <1>7
    <2> QED
      BY <1>1, <1>2, <1>7, <2>1, <2>2, <2>3, <2>4 DEF StreamExact, CutMark
  <1>9. Ready'
    <2>1. ~(from < Skipped) => taken + c <= size
      BY <1>5, <1>7
    <2> QED
      BY <1>1, <1>2, <1>5, <1>7, <1>8, <2>1 DEF Ready, CutMark
  <1> QED
    BY <1>3, <1>4, <1>9 DEF RInv

\* The other steps of Search leave the file alone.
LEMMA OthersInv ==
    ASSUME RInv, IInv', Consume \/ Filled \/ Scan \/ FillAfterQuit \/ Roll,
           UNCHANGED <<disk, rawFile, stage, check, chunk>>
    PROVE  RInv'
  <1>1. /\ UNCHANGED <<inputs, disk, offset, eofHint, broken, stage, got, gerr, chunk, capacity, taken, ended>>
        /\ pc # "read"
    BY DEF Consume, Filled, Scan, FillAfterQuit, Roll, rawFile, check, reader
  <1>2. /\ size' = size /\ mark' = mark /\ source' = source
        /\ Skipped' = Skipped /\ DiskSize' = DiskSize
    BY <1>1, Fixed
  <1>3. stage \notin {"gather", "again", "ready"}
    BY <1>1 DEF RInv, Gathering, Again, Ready
  <1>4. Layers' /\ HintTrue' /\ Between' /\ Gathering' /\ Again' /\ Ready'
    BY <1>1, <1>2, <1>3 DEF RInv, Layers, HintTrue, Between, Gathering, Again, Ready
  <1>5. ASSUME source # "any", stage = "first"
        PROVE  end' = 0 /\ pc' \in {"fill", "read"} /\ pc # "failed"
    <2>1. /\ pc \in {"consume", "fill", "read", "failed"} /\ end = 0 /\ taken = 0
          /\ TypeOK /\ BinaryExact
      BY <1>5 DEF RInv, FirstStage, Untouched, IInv
    <2>2. CASE Consume
      BY <2>1, <2>2 DEF Consume
    <2>3. CASE Filled \/ Scan
      BY <2>1, <2>3 DEF Filled, Scan
    <2>4. CASE FillAfterQuit
      <3>1. Nuls = {}
        BY <2>1 DEF Nuls
      <3> QED
        BY <2>1, <2>4, <3>1 DEF FillAfterQuit, Quitting, BinaryExact
    <2>5. CASE Roll
      <3>1. pos \in Nat /\ pos <= end
        BY <2>1 DEF TypeOK
      <3>2. end' = end - pos
        BY <2>5 DEF Roll, Rolled
      <3> QED
        BY <2>1, <2>5, <3>1, <3>2 DEF Roll
    <2> QED
      BY <2>2, <2>3, <2>4, <2>5
  <1>6. Untouched' /\ FirstStage'
    BY <1>1, <1>2, <1>3, <1>5 DEF RInv, Untouched, FirstStage
  <1> QED
    BY <1>4, <1>6 DEF RInv

\* A reader that is no file of ours leaves them alone too.
LEMMA ReadAnyInv == ASSUME RInv, IInv', ReadAny PROVE RInv'
  <1>1. /\ source = "any" /\ stage = "first"
        /\ UNCHANGED <<inputs, disk, offset, eofHint, broken, stage, got, gerr, chunk>>
        /\ capacity' = Grown
    BY DEF ReadAny, Read, ReadChunk, rawFile, check, RInv, Layers
  <1>2. size' = size /\ mark' = mark /\ source' = source /\ Skipped' = Skipped /\ DiskSize' = DiskSize
    BY <1>1, Fixed
  <1>3. capacity' >= Capacity
    BY <1>1, Sizes, CapacityAssumption DEF RInv, Layers
  <1> QED
    BY <1>1, <1>2, <1>3
    DEF RInv, Layers, HintTrue, Untouched, FirstStage, Gathering, Again, Ready, Between

LEMMA FirstReadInv == ASSUME RInv, IInv', source # "any", FirstRead PROVE RInv'
  <1>1. PICK r \in Results(Free) :
            /\ RawRead(Free, r[1], r[2])
            /\ CASE r[1] < 0 -> pc' = "failed" /\ UNCHANGED <<stage, check, chunk>>
                 [] r[1] \in 0 .. 2 -> stage' = "gather" /\ got' = r[1] /\ gerr' = r[2] /\ UNCHANGED <<pc, chunk>>
                 [] r[1] = 3 /\ mark = 3 -> stage' = "again" /\ UNCHANGED <<pc, check, chunk>>
                 [] OTHER -> Return(Skipped, r[1] - Skipped, r[2]) /\ UNCHANGED <<pc, check>>
    BY DEF FirstRead
  <1>2. /\ pc = "read" /\ stage = "first"
        /\ UNCHANGED <<inputs, buf, capacity, bounds, absoluteOffset, binaryOffset, reader, turn, disk>>
    BY DEF FirstRead
  <1>3. /\ size \in Nat /\ mark \in 0 .. 3 /\ Skipped \in {0, 3} /\ DiskSize \in Nat /\ DiskSize = Skipped + size
        /\ mark = 3 <=> Skipped = 3
        /\ Free \in Nat /\ Free >= 3 /\ taken = 0 /\ end = 0 /\ ended = FALSE
        /\ offset = 0 /\ ~eofHint /\ ~broken
        /\ got \in -1 .. 3 /\ gerr \in Errors /\ chunk \in [from : Nat, n : Nat, err : Errors]
    BY <1>2, Sizes DEF RInv, Layers, Untouched, FirstStage, IInv, TypeOK
  <1>4. /\ r[1] \in Int /\ -1 <= r[1] /\ r[1] <= Free /\ r[2] \in Errors
        /\ offset' \in Nat /\ offset' <= DiskSize /\ eofHint' \in BOOLEAN /\ broken' \in BOOLEAN
        /\ eofHint' => offset' = DiskSize /\ source = "walked"
        /\ broken' => ~eofHint'
        /\ r[2] = "nil" => r[1] > 0 /\ offset' = offset + r[1] /\ ~broken' /\ ~broken
        /\ r[2] = "nil" /\ source = "walked" => r[1] = Free \/ offset' = DiskSize
        /\ r[2] = "eof" => r[1] = 0 /\ offset' = offset /\ offset = DiskSize /\ ~broken'
        /\ r[2] = "error" => r[1] = -1 /\ broken' /\ offset' = offset
    BY <1>1, <1>3, RawReadIs
  <1>5. PICK n \in Int : n = r[1]
    BY <1>4
  <1>6. PICK err \in Errors : err = r[2]
    BY <1>4
  <1>7. /\ size' = size /\ mark' = mark /\ source' = source /\ Skipped' = Skipped /\ DiskSize' = DiskSize
        /\ taken' = taken /\ end' = end /\ ended' = ended /\ capacity' = capacity
    BY <1>2, Fixed DEF reader, bounds
  <1>8. /\ err = "nil" => n > 0 /\ offset' = n /\ ~broken'
        /\ err = "eof" => n = 0 /\ offset' = 0 /\ DiskSize = 0 /\ ~broken'
        /\ err = "error" => n = -1 /\ broken' /\ offset' = 0
        /\ err = "nil" /\ source = "walked" => n = Free \/ offset' = DiskSize
        /\ -1 <= n /\ n <= Free
        /\ err \in {"nil", "eof", "error"}
    BY <1>3, <1>4, <1>5, <1>6 DEF Errors
  <1>9. CASE n < 0
    <2>1. pc' = "failed" /\ UNCHANGED <<stage, check, chunk>>
      BY <1>1, <1>3, <1>5, <1>9
    <2>2. offset' = 0 /\ ~eofHint'
      BY <1>4, <1>5, <1>8, <1>9
    <2>3. Layers' /\ HintTrue'
      BY <1>4, <1>7, <2>1, <2>2 DEF RInv, Layers, HintTrue, check
    <2> QED
      BY <1>2, <1>3, <1>7, <2>1, <2>2, <2>3
      DEF RInv, Untouched, FirstStage, Gathering, Again, Ready, Between
  <1>10. CASE n \in 0 .. 2
    <2>1. stage' = "gather" /\ got' = n /\ gerr' = err /\ UNCHANGED <<pc, chunk>>
      BY <1>1, <1>5, <1>6, <1>10
    <2>2. Layers' /\ HintTrue'
      BY <1>3, <1>4, <1>7, <1>10, <2>1 DEF RInv, Layers, HintTrue
    <2>3. Gathering'
      <3>1. err # "error"
        BY <1>8, <1>10
      <3>2. got' = offset' /\ ~broken' /\ (source = "walked" => offset' = DiskSize)
        BY <1>3, <1>8, <1>10, <2>1, <3>1
      <3>3. gerr' = "eof" => offset' = DiskSize /\ got' < 3
        BY <1>8, <2>1
      <3> QED
        BY <1>2, <1>4, <1>7, <2>1, <3>1, <3>2, <3>3 DEF Gathering
    <2> QED
      BY <1>3, <1>7, <2>1, <2>2, <2>3 DEF RInv, Untouched, FirstStage, Again, Ready, Between
  <1>11. CASE n = 3 /\ mark = 3
    <2>1. stage' = "again" /\ UNCHANGED <<pc, check, chunk>>
      BY <1>1, <1>5, <1>11
    <2>2. Layers' /\ HintTrue'
      BY <1>4, <1>7, <2>1 DEF RInv, Layers, HintTrue, check
    <2>3. Again'
      BY <1>2, <1>7, <1>8, <1>11, <2>1 DEF Again
    <2> QED
      BY <1>3, <1>7, <2>1, <2>2, <2>3 DEF RInv, Untouched, FirstStage, Gathering, Ready, Between
  <1>12. CASE n > 3 \/ (n = 3 /\ mark # 3)
    <2>1. Return(Skipped, n - Skipped, err) /\ UNCHANGED <<pc, check>>
      BY <1>1, <1>5, <1>6, <1>12
    <2>2. err = "nil"
      BY <1>8, <1>12
    <2>3. PICK k \in Int : k = n - Skipped
      BY <1>3
    <2>4. PICK f \in Nat : f = Skipped
      BY <1>3
    <2>5. Return(f, k, err) /\ UNCHANGED vars /\ UNCHANGED disk
      BY <1>2, <2>1, <2>3, <2>4 DEF vars
    <2>6. /\ k > 0 /\ f + k = offset' /\ k <= Free /\ taken + k <= size /\ f = Skipped + taken
          /\ f >= Skipped /\ ~broken'
          /\ source = "walked" => k = Free \/ offset' = DiskSize \/ (taken = 0 /\ mark = 3 /\ k = Free - 3)
      BY <1>3, <1>4, <1>8, <1>12, <2>2, <2>3, <2>4
    <2>7. got' \in -1 .. 3 /\ gerr' \in Errors
      BY <1>3, <2>1 DEF check
    <2> QED
      BY <1>2, <1>4, <2>2, <2>5, <2>6, <2>7, MadeReady
  <1> QED
    BY <1>3, <1>9, <1>10, <1>11, <1>12

LEMMA GatherInv == ASSUME RInv, IInv', source # "any", Gather PROVE RInv'
  <1>1. /\ stage = "gather" /\ got < 3 /\ gerr = "nil"
        /\ UNCHANGED <<vars, disk, stage, chunk>>
    BY DEF Gather
  <1>2. PICK r \in Results(3 - got) :
            /\ RawRead(3 - got, r[1], r[2])
            /\ got' = got + r[1] /\ gerr' = r[2]
    BY DEF Gather
  <1>3. /\ pc = "read" /\ got = offset /\ ~broken /\ got \in -1 .. 3 /\ offset \in Nat
        /\ source = "walked" => offset = DiskSize
        /\ DiskSize \in Nat /\ end = 0 /\ taken = 0 /\ ended = FALSE
    BY <1>1, Sizes DEF RInv, Gathering, Layers, Untouched, IInv, TypeOK
  <1>4. PICK len \in Nat : len = 3 - got /\ len > 0 /\ len <= 3
    BY <1>1, <1>3
  <1>5. /\ r[1] \in Int /\ -1 <= r[1] /\ r[1] <= len /\ r[2] \in Errors
        /\ offset' \in Nat /\ offset' <= DiskSize /\ eofHint' \in BOOLEAN /\ broken' \in BOOLEAN
        /\ eofHint' => offset' = DiskSize /\ source = "walked"
        /\ broken' => ~eofHint'
        /\ r[2] = "nil" => r[1] > 0 /\ offset' = offset + r[1] /\ ~broken' /\ ~broken
        /\ r[2] = "eof" => r[1] = 0 /\ offset' = offset /\ offset = DiskSize /\ ~broken'
        /\ r[2] = "error" => r[1] = -1 /\ broken' /\ offset' = offset
    BY <1>2, <1>4, RawReadIs
  <1>6. /\ size' = size /\ mark' = mark /\ source' = source /\ Skipped' = Skipped /\ DiskSize' = DiskSize
        /\ taken' = taken /\ end' = end /\ ended' = ended /\ capacity' = capacity /\ pc' = pc
    BY <1>1, Fixed DEF vars, reader, bounds
  <1>7. PICK n \in Int : n = r[1]
    BY <1>5
  <1>8. got' = got + n /\ got' \in -1 .. 3 /\ gerr' \in Errors
    BY <1>2, <1>3, <1>4, <1>5, <1>7
  <1>9. Layers' /\ HintTrue'
    BY <1>1, <1>5, <1>6, <1>8 DEF RInv, Layers, HintTrue
  <1>10. Gathering'
    <2>1. gerr' = "nil" => got' = offset' /\ ~broken'
      BY <1>2, <1>3, <1>5, <1>7, <1>8
    <2>2. gerr' = "eof" => got' = offset' /\ offset' = DiskSize /\ got' < 3 /\ ~broken'
      BY <1>1, <1>2, <1>3, <1>5, <1>7, <1>8
    <2>3. gerr' = "error" => got' < 3 /\ broken' /\ got' <= offset'
      BY <1>1, <1>2, <1>3, <1>5, <1>7, <1>8
    <2>4. source = "walked" => offset' = DiskSize
      <3>1. ASSUME source = "walked" PROVE gerr' # "nil"
        BY <1>2, <1>3, <1>5, <3>1
      <3>2. gerr' \in {"nil", "eof", "error"}
        BY <1>8 DEF Errors
      <3> QED
        BY <1>2, <1>3, <1>5, <3>1, <3>2
    <2>5. got' <= offset'
      <3>1. gerr' \in {"nil", "eof", "error"}
        BY <1>8 DEF Errors
      <3> QED
        BY <1>5, <2>1, <2>2, <2>3, <3>1
    <2> QED
      BY <1>1, <1>3, <1>6, <2>1, <2>2, <2>3, <2>4, <2>5 DEF Gathering
  <1> QED
    BY <1>1, <1>3, <1>6, <1>9, <1>10 DEF RInv, Untouched, FirstStage, Again, Ready, Between

LEMMA GatheredInv == ASSUME RInv, IInv', source # "any", Gathered PROVE RInv'
  <1>1. /\ stage = "gather" /\ (got = 3 \/ gerr # "nil")
        /\ UNCHANGED <<vars, disk, rawFile, check>>
    BY DEF Gathered
  <1>2. PICK n : n = IF got = 3 /\ mark = 3 THEN 0 ELSE got
    OBVIOUS
  <1>3. IF n = 0 /\ gerr = "nil" THEN stage' = "again" /\ UNCHANGED chunk ELSE Return(0, n, gerr)
    BY <1>2 DEF Gathered
  <1>4. /\ size \in Nat /\ mark \in 0 .. 3 /\ Skipped \in {0, 3} /\ DiskSize \in Nat /\ DiskSize = Skipped + size
        /\ mark = 3 <=> Skipped = 3
        /\ Free \in Nat /\ Free >= 3 /\ taken = 0 /\ end = 0 /\ ended = FALSE
        /\ offset \in Nat /\ offset <= DiskSize /\ eofHint \in BOOLEAN /\ broken \in BOOLEAN
        /\ got \in -1 .. 3 /\ gerr \in Errors /\ gerr \in {"nil", "eof", "error"}
        /\ chunk \in [from : Nat, n : Nat, err : Errors]
        /\ eofHint => offset = DiskSize /\ source = "walked"
        /\ broken => ~eofHint
        /\ pc = "read" /\ got <= offset
        /\ source = "walked" => offset = DiskSize
        /\ gerr = "nil" => got = offset /\ ~broken
        /\ gerr = "eof" => got = offset /\ offset = DiskSize /\ got < 3 /\ ~broken
        /\ gerr = "error" => got < 3 /\ broken
    BY <1>1, Sizes DEF RInv, Layers, HintTrue, Untouched, Gathering, IInv, TypeOK, Errors
  <1>5. /\ size' = size /\ mark' = mark /\ source' = source /\ Skipped' = Skipped /\ DiskSize' = DiskSize
        /\ taken' = taken /\ end' = end /\ ended' = ended /\ capacity' = capacity /\ pc' = pc
        /\ offset' = offset /\ eofHint' = eofHint /\ broken' = broken /\ got' = got /\ gerr' = gerr
    BY <1>1, Fixed DEF vars, reader, bounds, rawFile, check
  <1>6. CASE n = 0 /\ gerr = "nil"
    <2>1. got = 3 /\ mark = 3 /\ offset = 3 /\ ~broken
      BY <1>1, <1>2, <1>4, <1>6
    <2>2. stage' = "again" /\ UNCHANGED chunk
      BY <1>3, <1>6
    <2>3. Layers' /\ HintTrue' /\ Again'
      BY <1>4, <1>5, <2>1, <2>2 DEF RInv, Layers, HintTrue, Again
    <2> QED
      BY <1>4, <1>5, <2>2, <2>3 DEF RInv, Untouched, FirstStage, Gathering, Ready, Between
  <1>7. CASE ~(n = 0 /\ gerr = "nil")
    <2>1. ~(got = 3 /\ mark = 3 /\ gerr = "nil")
      BY <1>2, <1>7
    <2>2. n = got /\ n \in Int
      BY <1>1, <1>2, <1>4, <1>7
    <2>3. Return(0, got, gerr)
      BY <1>3, <1>7, <2>2
    <2>4. PICK k \in Int : k = got
      BY <1>4
    <2>5. PICK f \in Nat : f = 0
      OBVIOUS
    <2>6. PICK err \in Errors : err = gerr
      BY <1>4
    <2>7. Return(f, k, err) /\ UNCHANGED vars /\ UNCHANGED disk
      BY <1>1, <2>3, <2>4, <2>5, <2>6
    <2>8. k <= Free
      BY <1>4, <2>4
    <2>9. f >= Skipped => Skipped = 0
      BY <1>4, <2>5
    <2>10. err = "nil" => k = 3 /\ mark # 3 /\ Skipped = 0 /\ offset = 3
      BY <1>1, <1>4, <2>1, <2>4, <2>6
    <2>11. err = "eof" => Skipped = 0 /\ k = DiskSize /\ k >= 0
      BY <1>4, <2>4, <2>6
    <2>12. err \in {"nil", "eof", "error"}
      BY <1>4, <2>6
    <2>13. k > 0 /\ (err = "error" => f >= Skipped) => f = Skipped + taken
      BY <1>4, <2>5, <2>9, <2>10, <2>11, <2>12
    <2>14. /\ err = "eof" => k >= 0 /\ taken + k = size /\ offset' = DiskSize /\ f >= Skipped /\ ~broken'
           /\ err = "nil" => k > 0 /\ f + k = offset' /\ f >= Skipped /\ ~broken'
           /\ err = "error" => broken'
      BY <1>4, <1>5, <2>5, <2>6, <2>10, <2>11
    <2>15. /\ source = "walked" /\ err = "nil" =>
                 k = Free \/ offset' = DiskSize \/ (taken = 0 /\ mark = 3 /\ k = Free - 3)
           /\ f >= Skipped /\ k > 0 => taken + k <= size
      BY <1>4, <1>5, <2>4, <2>9
    <2> QED
      BY <1>4, <1>5, <2>7, <2>8, <2>13, <2>14, <2>15, MadeReady
  <1> QED
    BY <1>6, <1>7

LEMMA PassedOnInv == ASSUME RInv, IInv', source # "any", PassedOn PROVE RInv'
  <1>1. /\ pc = "read" /\ stage \in {"again", "done"}
        /\ UNCHANGED <<vars, disk, check>>
    BY DEF PassedOn
  <1>2. PICK r \in Results(Free) : RawRead(Free, r[1], r[2]) /\ Return(offset, r[1], r[2])
    BY DEF PassedOn
  <1>3. /\ size \in Nat /\ Skipped \in {0, 3} /\ DiskSize \in Nat /\ DiskSize = Skipped + size
        /\ mark = 3 <=> Skipped = 3
        /\ Free \in Nat /\ Free > 0 /\ taken \in Nat /\ taken <= size
        /\ offset \in Nat /\ got \in -1 .. 3 /\ gerr \in Errors
        /\ broken \/ offset = Skipped + taken
    BY <1>1, Sizes DEF RInv, Layers, Untouched, Again, Between
  <1>4. /\ r[1] \in Int /\ -1 <= r[1] /\ r[1] <= Free /\ r[2] \in Errors
        /\ offset' \in Nat /\ offset' <= DiskSize /\ eofHint' \in BOOLEAN /\ broken' \in BOOLEAN
        /\ eofHint' => offset' = DiskSize /\ source = "walked"
        /\ broken' => ~eofHint'
        /\ r[2] = "nil" => r[1] > 0 /\ offset' = offset + r[1] /\ ~broken' /\ ~broken
        /\ r[2] = "nil" /\ source = "walked" => r[1] = Free \/ offset' = DiskSize
        /\ r[2] = "eof" => r[1] = 0 /\ offset' = offset /\ offset = DiskSize /\ ~broken'
        /\ r[2] = "error" => r[1] = -1 /\ broken' /\ offset' = offset
    BY <1>2, <1>3, RawReadIs
  <1>5. PICK n \in Int : n = r[1]
    BY <1>4
  <1>6. PICK err \in Errors : err = r[2]
    BY <1>4
  <1>7. err \in {"nil", "eof", "error"}
    BY DEF Errors
  <1>8. got' = got /\ gerr' = gerr /\ (broken => broken')
    BY <1>1, <1>2 DEF check, RawRead, rawFile
  <1>9. PICK f \in Nat : f = offset
    BY <1>3
  <1>10. Return(f, n, err) /\ UNCHANGED vars /\ UNCHANGED disk
    BY <1>1, <1>2, <1>5, <1>6, <1>9
  <1>11. CASE err = "nil"
    <2>1. /\ f = Skipped + taken /\ n > 0 /\ f + n = offset' /\ ~broken' /\ n <= Free
      BY <1>3, <1>4, <1>5, <1>6, <1>9, <1>11
    <2>2. taken + n <= size /\ f >= Skipped
      BY <1>3, <1>4, <2>1
    <2>3. source = "walked" => n = Free \/ offset' = DiskSize
      BY <1>4, <1>5, <1>6, <1>11
    <2> QED
      BY <1>1, <1>3, <1>4, <1>8, <1>10, <1>11, <2>1, <2>2, <2>3, MadeReady
  <1>12. CASE err = "eof"
    <2>1. n = 0 /\ ~broken' /\ offset' = DiskSize /\ offset = DiskSize
      BY <1>4, <1>5, <1>6, <1>12
    <2>2. taken + n = size /\ f >= Skipped
      BY <1>3, <1>8, <1>9, <2>1
    <2> QED
      BY <1>1, <1>3, <1>4, <1>8, <1>10, <1>12, <2>1, <2>2, MadeReady
  <1>13. CASE err = "error"
    <2>1. n = -1 /\ broken' /\ n <= Free /\ ~(n > 0)
      BY <1>3, <1>4, <1>5, <1>6, <1>13
    <2> QED
      BY <1>1, <1>3, <1>4, <1>8, <1>10, <1>13, <2>1, MadeReady
  <1> QED
    BY <1>7, <1>11, <1>12, <1>13

LEMMA ReceiveInv == ASSUME RInv, IInv', source # "any", Receive PROVE RInv'
  <1>1. /\ pc = "read" /\ stage = "ready" /\ stage' = "done" /\ chunk' = NoChunk
        /\ UNCHANGED <<disk, rawFile, check>>
        /\ ReadChunk(IF CutMark THEN 0 ELSE chunk.n, chunk.err)
    BY DEF Receive
  <1>2. PICK n : n = IF CutMark THEN 0 ELSE chunk.n
    OBVIOUS
  <1>3. capacity' = Grown /\ taken' = taken + n /\ UNCHANGED inputs
    BY <1>1, <1>2 DEF ReadChunk
  <1>4. /\ size' = size /\ mark' = mark /\ source' = source /\ Skipped' = Skipped /\ DiskSize' = DiskSize
        /\ offset' = offset /\ eofHint' = eofHint /\ broken' = broken /\ got' = got /\ gerr' = gerr
    BY <1>1, <1>3, Fixed DEF rawFile, check
  <1>5. /\ size \in Nat /\ taken \in Nat /\ Skipped \in Nat /\ DiskSize = Skipped + size
        /\ Grown \in Nat /\ Grown >= capacity /\ capacity \in Nat
        /\ chunk \in [from : Nat, n : Nat, err : Errors] /\ chunk.n \in Nat /\ chunk.from \in Nat
        /\ chunk.err \in {"nil", "eof", "error"} /\ offset \in Nat /\ capacity >= Capacity /\ Capacity \in Nat
    BY Sizes, CapacityAssumption DEF RInv, Layers, Errors
  <1>6. Ready /\ StreamExact
    BY <1>1 DEF RInv, Ready
  <1>7. broken \/ offset = Skipped + taken'
    <2>1. CASE chunk.err = "nil"
      <3>1. n = chunk.n /\ chunk.n > 0 /\ chunk.from = Skipped + taken /\ chunk.from + chunk.n = offset
        BY <1>1, <1>2, <1>6, <2>1 DEF Ready, StreamExact
      <3> QED
        BY <1>3, <1>5, <3>1
    <2>2. CASE chunk.err = "eof"
      <3>1. n = chunk.n /\ taken + chunk.n = size /\ offset = DiskSize
        BY <1>1, <1>2, <1>6, <2>2 DEF Ready, StreamExact
      <3> QED
        BY <1>3, <1>5, <3>1
    <2>3. CASE chunk.err = "error"
      BY <1>1, <1>6, <2>3 DEF Ready
    <2> QED
      BY <1>5, <2>1, <2>2, <2>3
  <1>8. chunk' \in [from : Nat, n : Nat, err : Errors]
    BY <1>1 DEF NoChunk, Errors
  <1>9. capacity' >= Capacity
    BY <1>3, <1>5
  <1>10. Layers' /\ HintTrue' /\ Between'
    BY <1>1, <1>4, <1>7, <1>8, <1>9 DEF RInv, Layers, HintTrue, Between
  <1> QED
    BY <1>1, <1>10 DEF RInv, Untouched, FirstStage, Gathering, Again, Ready

LEMMA ReadingStutter == ASSUME RInv, IInv', UNCHANGED readingVars PROVE RInv'
  <1>1. UNCHANGED <<vars, disk, rawFile, stage, check, chunk>>
    BY DEF readingVars
  <1>2. /\ size' = size /\ mark' = mark /\ source' = source /\ Skipped' = Skipped /\ DiskSize' = DiskSize
        /\ Free' = Free /\ CutMark' = CutMark
    BY <1>1, Fixed DEF vars, Free, Grown, bounds, CutMark
  <1>3. /\ UNCHANGED <<capacity, end, taken, ended, pc>>
        /\ UNCHANGED <<offset, eofHint, broken, stage, got, gerr, chunk>>
    BY <1>1 DEF vars, bounds, reader, rawFile, check
  <1>4. StreamExact' = StreamExact
    BY <1>2, <1>3 DEF StreamExact
  <1> QED
    BY <1>2, <1>3, <1>4
    DEF RInv, Layers, HintTrue, Untouched, FirstStage, Gathering, Again, Ready, Between

LEMMA ReadingStepInv == ASSUME RInv, [ReadingNext]_readingVars PROVE RInv'
  <1>1. IInv'
    BY StepRefines, NextInv DEF RInv
  <1> QED
    BY <1>1, ReadingStutter, OthersInv, ReadAnyInv, FirstReadInv, GatherInv, GatheredInv, PassedOnInv, ReceiveInv
    DEF ReadingNext, ReadingStep, ReadFile

-----------------------------------------------------------------------------
(* The theorems on the readers.                                                 *)

\* What is known of the reading in every state.
THEOREM ReadingInductive == ReadingSpec => []RInv
  <1>1. ReadingInit => RInv
    BY RInitInv
  <1>2. RInv /\ [ReadingNext]_readingVars => RInv'
    BY ReadingStepInv
  <1> QED
    BY <1>1, <1>2, PTL DEF ReadingSpec

\* rawFile and bomReader hand out the file without its mark, in order and without a gap,
\* and report its end exactly there, however the reads and the mark are cut.
THEOREM StreamRight == ReadingSpec => []StreamExact
  <1>1. RInv => StreamExact
    BY DEF RInv, Ready, StreamExact
  <1> QED
    BY <1>1, ReadingInductive, PTL

\* Search over a file on disk behaves as LineBuffer says of Search over any reader.
THEOREM ReadingImplements == ReadingSpec => Init /\ [][Next]_vars
  <1>1. ReadingInit => Init
    BY DEF ReadingInit
  <1>2. RInv /\ [ReadingNext]_readingVars => [Next]_vars
    BY StepRefines
  <1> QED
    BY <1>1, <1>2, ReadingInductive, PTL DEF ReadingSpec

\* What the buffer holds is therefore the file behind its mark, the offset of the first
\* NUL is exact in it, nothing that was read stays unsearched, and only long lines grow it.
THEOREM ReadingSearchesAll == ReadingSpec => [](Faithful /\ BinaryExact /\ AllSearched /\ BufferBounded)
  <1>1. RInv => Faithful /\ BinaryExact /\ AllSearched
    BY DEF RInv, IInv
  <1> QED
    BY <1>1, ReadingInductive, ReadingImplements, BufferSafe, PTL
=============================================================================
