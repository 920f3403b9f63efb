----------------------------- MODULE EngineProofs -----------------------------
(***************************************************************************)
(* Proofs about a run of gg, for any number of visitors, Workers and files *)
(* and however many lines each file has.                                   *)
(***************************************************************************)
EXTENDS EngineProps, FiniteSetTheorems, SequenceTheorems, TLAPS

-----------------------------------------------------------------------------
(* The inductive invariant, in parts.                                      *)

Phases == {"idle", "get", "open", "search", "finish", "write", "note", "put"}
Holding == Phases \ {"idle", "get"}

Text == [file : Files, kind : {"match", "context"}]
Item == [kind : {"separator"}, text : {"blank", "--", "custom", None}]
        \cup [kind : {"block"}, file : Files, lines : Seq(Text)]
        \cup [kind : {"note"}, file : Files]

Types ==
    /\ mode \in {"standard", "summary", "quiet"} /\ display \in Displays
    /\ option \in {"none", "passthru", "zero", "missing"}
    /\ (option = "passthru" => mode = "standard") /\ (option \in {"zero", "missing"} => mode = "summary")
    /\ todo \subseteq Files /\ quitting \in BOOLEAN
    /\ pc \in [Visitors -> Phases]
    /\ file \in [Visitors -> Files \cup {None}] /\ worker \in [Visitors -> Workers \cup {None}]
    /\ hits \in [Visitors -> Nat] /\ withheld \in [Visitors -> Nat]
    /\ pool \subseteq Workers /\ buf \in [Workers -> Seq(Text)]
    /\ found \in BOOLEAN /\ hasPrinted \in BOOLEAN /\ out \in Seq(Item)
    /\ anyMatched \in BOOLEAN /\ anyError \in BOOLEAN
    /\ exit \in {None, 0, 1, 2}
    /\ given \in [Files -> SUBSET Seq(Text)] /\ late \in [Visitors -> Nat]

\* A Worker serves one visit at a time and a file is visited once.
Owned ==
    /\ \A v \in Visitors : /\ pc[v] \in Holding <=> worker[v] # None
                           /\ worker[v] \notin pool
                           /\ pc[v] # "idle" => file[v] \in Files \ todo
    /\ \A u, v \in Visitors : u # v =>
           /\ worker[u] # None => worker[u] # worker[v]
           /\ pc[u] # "idle" /\ pc[v] # "idle" => file[u] # file[v]

\* From Begin to the block's being written the buffer holds this file's lines and no other;
\* a match is in it or was withheld, and without one only --passthru fills it.
HasMatch(lines) == \E j \in 1 .. Len(lines) : lines[j].kind = "match"
Holds(lines, f, hit, held) ==
    /\ \A j \in 1 .. Len(lines) : lines[j].file = f
    /\ hit > 0 <=> held > 0 \/ HasMatch(lines)
    /\ option # "passthru" /\ hit = 0 => lines = << >>
    /\ mode # "standard" => held = 0
Filled ==
    mode # "quiet" => \A v \in Visitors : pc[v] \in {"search", "finish", "write"} =>
        Holds(buf[worker[v]], file[v], hits[v], withheld[v])

\* What found, hasPrinted and anyMatched remember.
TellsNothing == \A i \in 1 .. Len(out) : ~Tells(i)
TellsSome == \E i \in 1 .. Len(out) : Tells(i)
Remembered ==
    /\ found => mode = "quiet"
    /\ mode = "quiet" => out = << >>
    /\ mode = "standard" => (hasPrinted <=> out # << >>)
    /\ \A v \in Visitors : pc[v] = "note" => mode = "standard" /\ hits[v] > 0
    /\ \A v \in Visitors : pc[v] \in {"write", "note"} /\ Signal(v) => anyMatched
    /\ mode # "quiet" /\ ~anyMatched => TellsNothing
    /\ mode # "quiet" /\ ~anyMatched /\ option \notin {"passthru", "zero"} => out = << >>
    /\ mode # "quiet" /\ anyMatched =>
           TellsSome \/ \E v \in Visitors : pc[v] \in {"write", "note"} /\ Signal(v)

Over ==
    exit # None => /\ \A v \in Visitors : pc[v] = "idle"
                   /\ todo = {} \/ quitting
                   /\ exit = ExitCode

Answered == \A v \in Visitors : late[v] > 0 => late[v] = 1 /\ found /\ pc[v] # "get"

\* No file appears before its search came to its end; then its block, then its note.
Unseen(f) == Blocks(f) = {} /\ Notes(f) = {}
Shown(f) ==
    IF given[f] = {} THEN Blocks(f) = {}
    ELSE \E i \in Blocks(f) : Blocks(f) = {i} /\ out[i].lines \in given[f]

Due(v) == IF mode = "quiet" THEN {} ELSE {lines \in {buf[worker[v]]} : Owed(lines)}

Written ==
    /\ \A i \in 1 .. Len(out) : out[i].kind = "block" =>
           \A j \in 1 .. Len(out[i].lines) : out[i].lines[j].file = out[i].file
    /\ \A f \in todo : given[f] = {} /\ Unseen(f)
    /\ \A v \in Visitors :
          /\ pc[v] \in {"get", "open", "search", "finish"} => given[file[v]] = {}
          /\ pc[v] \in {"get", "open", "search", "finish", "write"} => Unseen(file[v])
          /\ pc[v] = "write" => given[file[v]] = Due(v)
          /\ pc[v] = "note" => Notes(file[v]) = {}
    /\ \A f \in Files : /\ \A i, j \in Notes(f) : i = j
                        /\ (\A v \in Visitors : pc[v] = "write" => file[v] # f) => Shown(f)

EInv == Types /\ Owned /\ Filled /\ Remembered /\ SeparatorsRight /\ Over /\ Answered /\ Written

-----------------------------------------------------------------------------
(* What a write does to the output.                                        *)

\* Separators between blocks are asked for.
Parted == display.heading \/ (display.context /\ display.gap # None)

\* A block or a note arrives, after a separator where one is due.
Adds(b) ==
    \E n \in {0, 1} :
        /\ out' \in Seq(Item) /\ Len(out') = Len(out) + n + 1 /\ out'[Len(out')] = b
        /\ \A i \in 1 .. Len(out) : out'[i] = out[i]
        /\ n = 1 => out # << >> /\ out'[Len(out) + 1].kind = "separator"
        /\ mode = "standard" /\ out # << >> /\ Parted => n = 1

LEMMA AddItem ==
    ASSUME out \in Seq(Item), NEW b \in Item, NEW s, out' = (out \o s) \o <<b>>,
           s = << >> \/ (out # << >> /\ \E t \in {"blank", "--", "custom"} : s = Separator(t)),
           mode = "standard" /\ out # << >> /\ Parted => s # << >>
    PROVE  Adds(b)
  <1>1. <<b>> \in Seq(Item) /\ Len(<<b>>) = 1 /\ <<b>>[1] = b
    OBVIOUS
  <1>2. CASE s = << >>
    <2>1. out \o s = out
      BY <1>2, ConcatEmptySeq
    <2>2. /\ out' \in Seq(Item) /\ Len(out') = Len(out) + 1 /\ out'[Len(out) + 1] = b
          /\ \A i \in 1 .. Len(out) : out'[i] = out[i]
      BY <2>1, <1>1, ConcatProperties
    <2> QED
      BY <2>2, <1>2 DEF Adds
  <1>3. CASE s # << >>
    <2>1. PICK t \in {"blank", "--", "custom"} : s = <<[kind |-> "separator", text |-> t]>>
      BY <1>3 DEF Separator
    <2>2. [kind |-> "separator", text |-> t] \in Item
      BY DEF Item
    <2>3. s \in Seq(Item) /\ Len(s) = 1 /\ s[1].kind = "separator"
      BY <2>1, <2>2
    <2>4. /\ out \o s \in Seq(Item) /\ Len(out \o s) = Len(out) + 1 /\ (out \o s)[Len(out) + 1] = s[1]
          /\ \A i \in 1 .. Len(out) : (out \o s)[i] = out[i]
      <3>1. /\ out \o s \in Seq(Item) /\ Len(out \o s) = Len(out) + Len(s)
            /\ \A i \in 1 .. Len(out) + Len(s) : (out \o s)[i] =
                  IF i <= Len(out) THEN out[i] ELSE s[i - Len(out)]
        BY <2>3, ConcatProperties
      <3>2. Len(out) \in Nat /\ (Len(out) + 1) - Len(out) = 1
        OBVIOUS
      <3> QED
        BY <2>3, <3>1, <3>2
    <2>5. /\ out' \in Seq(Item) /\ Len(out') = Len(out \o s) + 1 /\ out'[Len(out \o s) + 1] = b
          /\ \A i \in 1 .. Len(out \o s) : out'[i] = (out \o s)[i]
      BY <2>4, <1>1, ConcatProperties
    <2>6. Len(out) \in Nat
      OBVIOUS
    <2>7. /\ Len(out') = Len(out) + 1 + 1 /\ out'[Len(out')] = b
          /\ \A i \in 1 .. Len(out) : out'[i] = out[i]
          /\ out'[Len(out) + 1].kind = "separator"
      BY <2>3, <2>4, <2>5, <2>6
    <2> QED
      BY <2>5, <2>7, <1>3 DEF Adds
  <1> QED
    BY <1>2, <1>3

BlockOf(v) == [kind |-> "block", file |-> file[v], lines |-> buf[worker[v]]]
NoteOf(v) == [kind |-> "note", file |-> file[v]]

\* Sink.Finish: the file's block, if it is to have one.
LEMMA WriteEffect ==
    ASSUME Types, Owned, Remembered, NEW v \in Visitors, pc[v] = "write", WriteSink(v)
    PROVE  /\ \/ /\ mode = "quiet" \/ ~Owed(buf[worker[v]])
                 /\ out' = out
              \/ /\ mode # "quiet" /\ Owed(buf[worker[v]])
                 /\ Adds(BlockOf(v))
           /\ hasPrinted' \in BOOLEAN
           /\ mode = "standard" => (hasPrinted' <=> out' # << >>)
           /\ mode # "quiet" => worker[v] \in Workers /\ file[v] \in Files
  <1>1. worker[v] \in Workers /\ file[v] \in Files /\ buf[worker[v]] \in Seq(Text)
    BY DEF Types, Owned, Holding
  <1>2. BlockOf(v) \in Item
    BY <1>1 DEF BlockOf, Item
  <1> DEFINE lines == buf[worker[v]]
  <1>3. CASE mode = "quiet"
    BY <1>1, <1>3 DEF WriteSink, dest, Types
  <1>4. CASE mode # "quiet" /\ ~Owed(lines)
    <2>1. Block(file[v], lines) = << >>
      BY <1>4 DEF Block, Owed, Types
    <2>2. CASE mode = "summary"
      <3>1. out' = out \o << >> /\ hasPrinted' = hasPrinted
        BY <2>1, <2>2 DEF WriteSink, WriteOnly, Sink
      <3> QED
        BY <3>1, <2>2, <1>1, <1>4, ConcatEmptySeq DEF Types
    <2>3. CASE mode = "standard"
      <3>1. out' = out /\ hasPrinted' = hasPrinted
        BY <2>1, <2>3 DEF WriteSink, WriteBlock, Printed, Sink, Types
      <3> QED
        BY <3>1, <2>3, <1>1, <1>4 DEF Types, Remembered
    <2> QED
      BY <2>2, <2>3, <1>4 DEF Types
  <1>5. CASE mode # "quiet" /\ Owed(lines)
    <2>1. Block(file[v], lines) = <<BlockOf(v)>>
      BY <1>5 DEF Block, BlockOf, Owed, Types
    <2>3. CASE mode = "summary"
      <3>1. out' = out \o <<BlockOf(v)>> /\ hasPrinted' = hasPrinted
        BY <2>1, <2>3 DEF WriteSink, WriteOnly, Sink
      <3>2. out' = (out \o << >>) \o <<BlockOf(v)>>
        BY <3>1, ConcatEmptySeq DEF Types
      <3>3. Adds(BlockOf(v))
        BY <3>2, <2>3, <1>2, AddItem DEF Types
      <3> QED
        BY <3>1, <3>3, <2>3, <1>1, <1>5 DEF Types
    <2>4. CASE mode = "standard"
      <3> DEFINE s == IF hasPrinted THEN FileSeparator ELSE << >>
      <3>1. out' = (out \o s) \o <<BlockOf(v)>> /\ hasPrinted'
        <4>1. WriteBlock(<<BlockOf(v)>>, FileSeparator)
          BY <2>1, <2>4 DEF WriteSink, Sink
        <4>2. <<BlockOf(v)>> # << >>
          OBVIOUS
        <4> QED
          BY <4>1, <4>2 DEF WriteBlock, Printed
      <3>2. s = << >> \/ (out # << >> /\ \E t \in {"blank", "--", "custom"} : s = Separator(t))
        BY <2>4 DEF FileSeparator, Remembered, Types, Displays
      <3>3. out # << >> /\ Parted => s # << >>
        <4>1. \A t : Separator(t) # << >>
          BY DEF Separator
        <4> QED
          BY <2>4, <4>1 DEF FileSeparator, Remembered, Types, Displays, Parted
      <3> HIDE DEF s
      <3>4. Adds(BlockOf(v))
        BY <3>1, <3>2, <3>3, <2>4, <1>2, AddItem DEF Types
      <3>5. out' # << >>
        <4>1. out' \in Seq(Item) /\ Len(out') > 0
          BY <3>4 DEF Adds, Types
        <4> QED
          BY <4>1
      <3> QED
        BY <3>1, <3>4, <3>5, <2>4, <1>1, <1>5
    <2> QED
      BY <2>3, <2>4, <1>5 DEF Types
  <1> QED
    BY <1>3, <1>4, <1>5

\* The note about binary data.
LEMMA NoteEffect ==
    ASSUME Types, Owned, Remembered, NEW v \in Visitors, WriteNote(v)
    PROVE  Adds(NoteOf(v)) /\ hasPrinted' /\ out' # << >> /\ file[v] \in Files
  <1>1. file[v] \in Files /\ mode = "standard" /\ pc[v] = "note"
    BY DEF Owned, Remembered, WriteNote
  <1>2. NoteOf(v) \in Item
    BY <1>1 DEF NoteOf, Item
  <1> DEFINE s == IF hasPrinted THEN NoteSeparator ELSE << >>
  <1>3. out' = (out \o s) \o <<NoteOf(v)>> /\ hasPrinted'
    BY DEF WriteNote, WriteBlock, Printed, Note, NoteOf
  <1>4. s = << >> \/ (out # << >> /\ \E t \in {"blank", "--", "custom"} : s = Separator(t))
    BY <1>1 DEF NoteSeparator, Remembered, Types, Displays
  <1>5. out # << >> /\ Parted => s # << >>
    <2>1. \A t : Separator(t) # << >>
      BY DEF Separator
    <2> QED
      BY <1>1, <2>1 DEF NoteSeparator, Remembered, Types, Displays, Parted
  <1> HIDE DEF s
  <1>6. Adds(NoteOf(v))
    BY <1>2, <1>3, <1>4, <1>5, AddItem DEF Types
  <1>7. out' \in Seq(Item) /\ Len(out') > 0
    BY <1>6 DEF Adds, Types
  <1>8. out' # << >>
    BY <1>7
  <1> QED
    BY <1>1, <1>3, <1>6, <1>8

-----------------------------------------------------------------------------
(* Types, and who has which Worker and which file.                         *)

\* What the step of one visitor leaves alone.
LEMMA Separate ==
    ASSUME Types, NEW v \in Visitors, VisitorStep(v)
    PROVE  /\ \A u \in Visitors \ {v} : /\ pc'[u] = pc[u] /\ worker'[u] = worker[u] /\ file'[u] = file[u]
                                        /\ hits'[u] = hits[u] /\ withheld'[u] = withheld[u]
           /\ UNCHANGED <<mode, option, display, exit>>
  <1> USE DEF config, walk, visit, dest, flags, Goto, Types
  <1>1. CASE Visit(v) \/ EntryError(v) \/ Get(v) \/ OpenFails(v) \/ Begin(v)
    BY <1>1 DEF Visit, EntryError, Get, OpenFails, Begin
  <1>2. CASE Line(v) \/ ContextLine(v)
    BY <1>2 DEF Line, ContextLine
  <1>3. CASE SearchFails(v) \/ SearchEnds(v) \/ Finish(v)
    BY <1>3 DEF SearchFails, SearchEnds, Finish
  <1>4. CASE Write(v) \/ WriteNote(v) \/ Put(v)
    BY <1>4 DEF Write, WriteNote, Put
  <1> QED
    BY <1>1, <1>2, <1>3, <1>4 DEF VisitorStep

LEMMA Appended ==
    ASSUME buf \in [Workers -> Seq(Text)], NEW w \in Workers, NEW t \in Text
    PROVE  [buf EXCEPT ![w] = Append(@, t)] \in [Workers -> Seq(Text)]
  <1>1. Append(buf[w], t) \in Seq(Text)
    OBVIOUS
  <1> QED
    BY <1>1

\* The variables of the model proper keep their types.
LEMMA StepTypes ==
    ASSUME Types, Owned, Remembered, NEW v \in Visitors, VisitorStep(v)
    PROVE  /\ todo' \subseteq Files /\ quitting' \in BOOLEAN
           /\ pc' \in [Visitors -> Phases]
           /\ file' \in [Visitors -> Files \cup {None}]
           /\ worker' \in [Visitors -> Workers \cup {None}]
           /\ hits' \in [Visitors -> Nat] /\ withheld' \in [Visitors -> Nat]
           /\ pool' \subseteq Workers /\ buf' \in [Workers -> Seq(Text)]
           /\ found' \in BOOLEAN /\ hasPrinted' \in BOOLEAN /\ out' \in Seq(Item)
           /\ anyMatched' \in BOOLEAN /\ anyError' \in BOOLEAN
  <1> USE DEF config, walk, visit, dest, flags, Goto, Types, Phases
  <1>1. << >> \in Seq(Text)
    OBVIOUS
  <1>2. CASE Visit(v) \/ EntryError(v) \/ OpenFails(v)
    BY <1>2 DEF Visit, EntryError, OpenFails
  <1>3. CASE Get(v)
    <2>1. PICK w \in pool \cup (Workers \ InUse) :
             /\ worker' = [worker EXCEPT ![v] = w]
             /\ buf' = IF w \in pool THEN buf ELSE [buf EXCEPT ![w] = << >>]
             /\ pool' = pool \ {w}
      BY <1>3 DEF Get
    <2>2. w \in Workers /\ worker' \in [Visitors -> Workers \cup {None}]
      BY <2>1
    <2>3. buf' \in [Workers -> Seq(Text)]
      BY <1>1, <2>1, <2>2
    <2> QED
      BY <1>3, <2>1, <2>2, <2>3 DEF Get
  <1>4. CASE Begin(v)
    <2>1. worker[v] \in Workers
      BY <1>4 DEF Begin, Owned, Holding
    <2>2. buf' \in [Workers -> Seq(Text)]
      BY <1>1, <1>4, <2>1 DEF Begin, ResetBuffer, Sink
    <2> QED
      BY <1>4, <2>2 DEF Begin
  <1>5. CASE Line(v)
    <2>1. worker[v] \in Workers /\ file[v] \in Files
      BY <1>5 DEF Line, Owned, Holding
    <2>2. LineOf(v, "match") \in Text
      BY <2>1 DEF LineOf, Text
    <2>3. [buf EXCEPT ![worker[v]] = Append(@, LineOf(v, "match"))] \in [Workers -> Seq(Text)]
      BY <2>1, <2>2, Appended
    <2>4. hits' \in [Visitors -> Nat]
      BY <1>5 DEF Line
    <2>5. CASE mode = "quiet"
      BY <1>5, <2>4, <2>5 DEF Line
    <2>6. CASE mode = "summary"
      BY <1>5, <2>3, <2>4, <2>6 DEF Line, Sink
    <2>7. CASE mode = "standard"
      <3>1. withheld' = withheld \/ withheld' = [withheld EXCEPT ![v] = @ + 1]
        BY <1>5, <2>7 DEF Line
      <3>2. withheld' \in [Visitors -> Nat]
        <4>1. withheld \in [Visitors -> Nat]
          OBVIOUS
        <4>2. [withheld EXCEPT ![v] = @ + 1] \in [Visitors -> Nat]
          BY <4>1
        <4> QED
          BY <4>1, <4>2, <3>1, Zenon
      <3>3. buf' = buf \/ buf' = [buf EXCEPT ![worker[v]] = Append(@, LineOf(v, "match"))]
        BY <1>5, <2>7 DEF Line, Sink
      <3>4. buf' \in [Workers -> Seq(Text)]
        BY <2>3, <3>3
      <3> QED
        BY <1>5, <2>4, <2>7, <3>2, <3>4 DEF Line
    <2> QED
      BY <2>5, <2>6, <2>7
  <1>6. CASE SearchFails(v) \/ SearchEnds(v) \/ Finish(v)
    BY <1>6 DEF SearchFails, SearchEnds, Finish
  <1>7. CASE Write(v)
    <2>1. WriteSink(v) /\ pc[v] = "write"
      BY <1>7 DEF Write
    <2>2. hasPrinted' \in BOOLEAN /\ out' \in Seq(Item)
      BY <2>1, WriteEffect DEF Adds
    <2> QED
      BY <1>7, <2>2 DEF Write
  <1>8. CASE WriteNote(v)
    <2>1. hasPrinted' \in BOOLEAN /\ out' \in Seq(Item)
      <3>1. hasPrinted' = Printed(Note(file[v]))
        BY <1>8 DEF WriteNote, WriteBlock
      <3>2. out' \in Seq(Item)
        BY <1>8, NoteEffect DEF Adds
      <3> QED
        BY <3>1, <3>2 DEF Printed
    <2> QED
      BY <1>8, <2>1 DEF WriteNote
  <1>9. CASE Put(v)
    <2>1. worker[v] \in Workers
      BY <1>9 DEF Put, Owned, Holding
    <2> QED
      BY <1>9, <2>1 DEF Put
  <1>10. CASE ContextLine(v)
    <2>1. worker[v] \in Workers /\ file[v] \in Files
      BY <1>10 DEF ContextLine, Owned, Holding
    <2>2. LineOf(v, "context") \in Text
      BY <2>1 DEF LineOf, Text
    <2>3. buf' \in [Workers -> Seq(Text)]
      BY <1>10, <2>1, <2>2, Appended DEF ContextLine, Sink
    <2> QED
      BY <1>10, <2>3 DEF ContextLine
  <1> QED
    BY <1>2, <1>3, <1>4, <1>5, <1>6, <1>7, <1>8, <1>9, <1>10 DEF VisitorStep

\* A Worker is handed to one visit at a time, and a file to one visitor.
LEMMA StepOwned ==
    ASSUME Types, Owned, NEW v \in Visitors, VisitorStep(v)
    PROVE  Owned'
  <1> USE DEF config, walk, visit, dest, flags, Goto
  <1>1. /\ \A u \in Visitors \ {v} : pc'[u] = pc[u] /\ worker'[u] = worker[u] /\ file'[u] = file[u]
        /\ \A u \in Visitors : worker[u] \in Workers \cup {None} /\ pc[u] \in Phases
    BY Separate DEF Types
  <1>2. /\ \A u \in Visitors : /\ pc[u] \in Holding <=> worker[u] # None
                               /\ worker[u] \notin pool
                               /\ pc[u] # "idle" => file[u] \in Files \ todo
        /\ \A u, x \in Visitors : u # x =>
               /\ worker[u] # None => worker[u] # worker[x]
               /\ pc[u] # "idle" /\ pc[x] # "idle" => file[u] # file[x]
    BY DEF Owned
  <1>3. CASE Visit(v)
    <2>1. PICK f \in todo : todo' = todo \ {f} /\ file' = [file EXCEPT ![v] = f]
      BY <1>3 DEF Visit
    <2>2. f \in Files \ todo' /\ file'[v] = f /\ worker' = worker /\ pool' = pool
      BY <1>3, <2>1 DEF Visit, Types
    <2>3. pc[v] = "idle" /\ pc'[v] \in {"idle", "get"}
      BY <1>3 DEF Visit, Types
    <2>4. \A u \in Visitors \ {v} : pc[u] # "idle" => file[u] # f
      BY <1>2, <2>1
    <2>5. \A u \in Visitors : /\ pc'[u] \in Holding <=> worker'[u] # None
                              /\ worker'[u] \notin pool'
                              /\ pc'[u] # "idle" => file'[u] \in Files \ todo'
      BY <1>1, <1>2, <2>1, <2>2, <2>3 DEF Holding
    <2>6. \A u, x \in Visitors : u # x =>
               /\ worker'[u] # None => worker'[u] # worker'[x]
               /\ pc'[u] # "idle" /\ pc'[x] # "idle" => file'[u] # file'[x]
      BY <1>1, <1>2, <2>2, <2>3, <2>4
    <2> QED
      BY <2>5, <2>6 DEF Owned
  <1>4. CASE Get(v)
    <2>1. PICK w \in pool \cup (Workers \ InUse) : worker' = [worker EXCEPT ![v] = w] /\ pool' = pool \ {w}
      BY <1>4 DEF Get
    <2>2. /\ w # None /\ worker'[v] = w /\ pc[v] = "get" /\ pc'[v] = "open"
          /\ file' = file /\ todo' = todo
      BY <1>4, <2>1, NoneAssumption DEF Get, Types
    <2>3. \A u \in Visitors \ {v} : worker[u] # w
      BY <1>2, <2>1, <2>2 DEF InUse
    <2>4. \A u \in Visitors : /\ pc'[u] \in Holding <=> worker'[u] # None
                              /\ worker'[u] \notin pool'
                              /\ pc'[u] # "idle" => file'[u] \in Files \ todo'
      BY <1>1, <1>2, <2>1, <2>2 DEF Holding, Phases
    <2>5. \A u, x \in Visitors : u # x =>
               /\ worker'[u] # None => worker'[u] # worker'[x]
               /\ pc'[u] # "idle" /\ pc'[x] # "idle" => file'[u] # file'[x]
      BY <1>1, <1>2, <2>2, <2>3
    <2> QED
      BY <2>4, <2>5 DEF Owned
  <1>5. CASE Put(v)
    <2>1. /\ pc[v] = "put" /\ pc'[v] = "idle" /\ worker'[v] = None /\ worker[v] # None
          /\ pool' = pool \cup {worker[v]} /\ file' = file /\ todo' = todo
      BY <1>2, <1>5 DEF Put, Types, Holding, Phases
    <2>2. None \notin Workers
      BY NoneAssumption
    <2>3. \A u \in Visitors : /\ pc'[u] \in Holding <=> worker'[u] # None
                              /\ worker'[u] \notin pool'
                              /\ pc'[u] # "idle" => file'[u] \in Files \ todo'
      BY <1>1, <1>2, <2>1, <2>2 DEF Holding, Phases, Types
    <2>4. \A u, x \in Visitors : u # x =>
               /\ worker'[u] # None => worker'[u] # worker'[x]
               /\ pc'[u] # "idle" /\ pc'[x] # "idle" => file'[u] # file'[x]
      BY <1>1, <1>2, <2>1
    <2> QED
      BY <2>3, <2>4 DEF Owned
  <1>6. CASE ~Visit(v) /\ ~Get(v) /\ ~Put(v)
    <2>1. UNCHANGED <<file, worker, pool, todo>>
      BY <1>6 DEF VisitorStep, EntryError, OpenFails, Begin, Line, ContextLine, SearchFails, SearchEnds, Finish,
                  Write, WriteNote
    <2>2. pc[v] # "idle" /\ (pc'[v] \in Holding <=> pc[v] \in Holding)
      <3>1. CASE EntryError(v) \/ OpenFails(v) \/ Begin(v)
        BY <3>1 DEF EntryError, OpenFails, Begin, Types, Holding, Phases
      <3>2. CASE Line(v) \/ ContextLine(v)
        BY <3>2 DEF Line, ContextLine, Types, Holding, Phases
      <3>3. CASE SearchFails(v) \/ SearchEnds(v) \/ Finish(v)
        BY <3>3 DEF SearchFails, SearchEnds, Finish, Types, Holding, Phases
      <3>4. CASE Write(v) \/ WriteNote(v)
        BY <3>4 DEF Write, WriteNote, Types, Holding, Phases
      <3> QED
        BY <1>6, <3>1, <3>2, <3>3, <3>4 DEF VisitorStep
    <2>3. \A u \in Visitors : pc'[u] # "idle" => pc[u] # "idle"
      BY <1>1, <2>2
    <2>4. \A u \in Visitors : pc'[u] \in Holding <=> pc[u] \in Holding
      BY <1>1, <2>2
    <2> QED
      BY <1>2, <2>1, <2>3, <2>4 DEF Owned
  <1> QED
    BY <1>3, <1>4, <1>5, <1>6

-----------------------------------------------------------------------------
(* Buffers, flags and separators.                                          *)

\* A visitor only changes the buffer of its own Worker.
LEMMA OtherBuffers ==
    ASSUME Types, Owned, NEW v \in Visitors, VisitorStep(v), NEW u \in Visitors \ {v}, worker[u] # None
    PROVE  worker[u] \in Workers /\ buf'[worker[u]] = buf[worker[u]]
  <1>1. worker[u] \in Workers /\ worker[u] # worker[v]
    BY DEF Types, Owned
  <1>2. CASE Get(v)
    <2>1. PICK w \in pool \cup (Workers \ InUse) :
              buf' = IF w \in pool THEN buf ELSE [buf EXCEPT ![w] = << >>]
      BY <1>2 DEF Get
    <2>2. worker[u] \in InUse
      BY DEF InUse
    <2> QED
      BY <1>1, <2>1, <2>2 DEF Types
  <1>3. CASE Begin(v)
    BY <1>1, <1>3 DEF Begin, Sink, Types
  <1>4. CASE Line(v) \/ ContextLine(v)
    <2>1. buf' = buf \/ \E s : buf' = [buf EXCEPT ![worker[v]] = s]
      BY <1>4 DEF Line, ContextLine, Sink, Types
    <2> QED
      BY <1>1, <2>1 DEF Types
  <1>5. CASE ~Get(v) /\ ~Begin(v) /\ ~Line(v) /\ ~ContextLine(v)
    <2>1. buf' = buf
      BY <1>5 DEF VisitorStep, Visit, EntryError, OpenFails, SearchFails, SearchEnds, Finish,
                  Write, WriteNote, Put
    <2> QED
      BY <1>1, <2>1
  <1> QED
    BY <1>2, <1>3, <1>4, <1>5

LEMMA StepFilled ==
    ASSUME Types, Owned, Filled, NEW v \in Visitors, VisitorStep(v)
    PROVE  Filled'
  <1> USE DEF config, walk, visit, dest, flags, Goto
  <1> DEFINE Full(u) == Holds(buf[worker[u]], file[u], hits[u], withheld[u])
             At(u) == pc[u] \in {"search", "finish", "write"}
  <1> SUFFICES ASSUME mode # "quiet" PROVE \A u \in Visitors : At(u)' => Full(u)'
    <2>1. mode' = mode
      BY Separate
    <2> HIDE DEF At
    <2> QED
      BY <2>1 DEF Filled, At
  <1>1. /\ UNCHANGED <<mode, option>>
        /\ \A u \in Visitors \ {v} : /\ pc'[u] = pc[u] /\ worker'[u] = worker[u] /\ file'[u] = file[u]
                                     /\ hits'[u] = hits[u] /\ withheld'[u] = withheld[u]
    BY Separate
  <1>2. ASSUME NEW u \in Visitors, At(u) PROVE Full(u) /\ worker[u] \in Workers
    <2>1. worker[u] # None
      BY <1>2 DEF Owned, Holding, Phases
    <2>2. worker[u] \in Workers
      BY <2>1 DEF Types
    <2> QED
      BY <1>2, <2>2 DEF Filled
  <1>4. ASSUME NEW u \in Visitors \ {v}, At(u)'
        PROVE  Full(u)'
    <2>1. worker[u] \in Workers /\ worker[u] # None /\ At(u) /\ Full(u)
      BY <1>1, <1>2, <1>4, NoneAssumption
    <2>2. buf'[worker[u]] = buf[worker[u]]
      BY <2>1, OtherBuffers
    <2> QED
      BY <1>1, <2>1, <2>2 DEF Holds, HasMatch
  <1>5. ASSUME At(v)'
        PROVE  Full(v)'
    <2>1. CASE Begin(v)
      <3>1. worker[v] \in Workers /\ worker'[v] = worker[v]
        BY <2>1 DEF Begin, Owned, Holding, Types
      <3>2. hits'[v] = 0 /\ withheld'[v] = 0
        BY <2>1 DEF Begin, Types
      <3>3. buf'[worker[v]] = << >>
        BY <2>1, <3>1 DEF Begin, Sink, ResetBuffer, Types
      <3>4. file'[v] = file[v] /\ << >> = << >> /\ Len(<< >>) = 0
        BY <2>1 DEF Begin
      <3> QED
        BY <3>1, <3>2, <3>3, <3>4 DEF Holds, HasMatch
    <2>2. CASE Line(v) \/ ContextLine(v)
      <3>1. /\ At(v) /\ Full(v) /\ worker[v] \in Workers
            /\ hits[v] \in Nat /\ withheld[v] \in Nat /\ buf[worker[v]] \in Seq(Text)
            /\ file[v] \in Files /\ UNCHANGED <<worker, file>>
        BY <2>2, <1>2 DEF Line, ContextLine, Types, Owned
      <3>2. PICK l \in Seq(Text) : l = buf[worker[v]]
        BY <3>1
      <3>3. \/ /\ hits'[v] = hits[v] + 1 /\ withheld'[v] = withheld[v]
               /\ buf'[worker[v]] = Append(l, LineOf(v, "match"))
            \/ /\ hits'[v] = hits[v] + 1 /\ withheld'[v] = withheld[v] + 1 /\ mode = "standard"
               /\ buf'[worker[v]] = l
            \/ /\ hits'[v] = hits[v] /\ withheld'[v] = withheld[v]
               /\ option = "passthru" \/ hits[v] > 0
               /\ buf'[worker[v]] = Append(l, LineOf(v, "context"))
        <4>1. CASE ContextLine(v)
          BY <4>1, <3>1, <3>2 DEF ContextLine, Sink, Types
        <4>2. CASE Line(v) /\ mode = "summary"
          BY <4>2, <3>1, <3>2 DEF Line, Sink, Types
        <4>3. CASE Line(v) /\ mode = "standard"
          <5>1. \/ buf' = [buf EXCEPT ![worker[v]] = Append(@, LineOf(v, "match"))] /\ withheld' = withheld
                \/ buf' = buf /\ withheld' = [withheld EXCEPT ![v] = @ + 1]
            BY <4>3 DEF Line, Sink
          <5>2. hits'[v] = hits[v] + 1
            BY <4>3 DEF Line, Types
          <5> QED
            BY <5>1, <5>2, <4>3, <3>1, <3>2 DEF Types
        <4> QED
          BY <2>2, <4>1, <4>2, <4>3 DEF Types
      <3>4. ASSUME NEW k \in {"match", "context"}
            PROVE  /\ \A j \in 1 .. Len(Append(l, LineOf(v, k))) : Append(l, LineOf(v, k))[j].file = file[v]
                   /\ HasMatch(Append(l, LineOf(v, k))) <=> HasMatch(l) \/ k = "match"
        <4>1. PICK t \in Text : t = LineOf(v, k) /\ t.file = file[v] /\ t.kind = k
          <5>1. LineOf(v, k) \in Text /\ LineOf(v, k).file = file[v] /\ LineOf(v, k).kind = k
            BY <3>1 DEF LineOf, Text
          <5> QED
            BY <5>1
        <4>2. /\ Len(Append(l, t)) = Len(l) + 1 /\ Append(l, t)[Len(l) + 1] = t /\ Len(l) \in Nat
              /\ \A i \in 1 .. Len(l) : Append(l, t)[i] = l[i]
          BY AppendProperties
        <4>3. \A j \in 1 .. Len(l) : l[j].file = file[v]
          BY <3>1, <3>2 DEF Holds
        <4>4. \A j \in 1 .. Len(Append(l, t)) : Append(l, t)[j].file = file[v]
          BY <4>1, <4>2, <4>3
        <4>5. HasMatch(Append(l, t)) <=> HasMatch(l) \/ k = "match"
          <5>1. \A j \in 1 .. Len(l) + 1 : j \in 1 .. Len(l) \/ j = Len(l) + 1
            BY <4>2
          <5>2. (\A j \in 1 .. Len(l) : j \in 1 .. Len(l) + 1) /\ Len(l) + 1 \in 1 .. Len(l) + 1
            BY <4>2
          <5>3. HasMatch(Append(l, t)) <=> \E j \in 1 .. Len(l) + 1 : Append(l, t)[j].kind = "match"
            BY <4>2 DEF HasMatch
          <5> QED
            BY <4>1, <4>2, <5>1, <5>2, <5>3 DEF HasMatch
        <4> QED
          BY <4>1, <4>4, <4>5
      <3>5. Holds(l, file[v], hits[v], withheld[v])
        BY <3>1, <3>2
      <3>6. CASE /\ hits'[v] = hits[v] + 1 /\ withheld'[v] = withheld[v]
                 /\ buf'[worker[v]] = Append(l, LineOf(v, "match"))
        BY <1>1, <3>1, <3>4, <3>5, <3>6 DEF Holds
      <3>7. CASE /\ hits'[v] = hits[v] + 1 /\ withheld'[v] = withheld[v] + 1 /\ mode = "standard"
                 /\ buf'[worker[v]] = l
        BY <1>1, <3>1, <3>5, <3>7 DEF Holds, HasMatch
      <3>8. CASE /\ hits'[v] = hits[v] /\ withheld'[v] = withheld[v]
                 /\ option = "passthru" \/ hits[v] > 0
                 /\ buf'[worker[v]] = Append(l, LineOf(v, "context"))
        BY <1>1, <3>1, <3>4, <3>5, <3>8 DEF Holds
      <3> QED
        BY <3>3, <3>6, <3>7, <3>8
    <2>3. CASE SearchEnds(v) \/ Finish(v)
      <3>1. UNCHANGED <<worker, file, hits, withheld, buf>> /\ At(v)
        BY <2>3 DEF SearchEnds, Finish
      <3> QED
        BY <3>1, <1>1, <1>2 DEF Holds, HasMatch
    <2>4. CASE ~Begin(v) /\ ~Line(v) /\ ~ContextLine(v) /\ ~SearchEnds(v) /\ ~Finish(v)
      <3>1. pc'[v] \in {"idle", "get", "open", "put", "note"}
        <4>1. CASE Visit(v)
          BY <4>1 DEF Visit, Types
        <4>2. CASE ~Visit(v)
          BY <2>4, <4>2 DEF VisitorStep, EntryError, Get, OpenFails, SearchFails, Write, WriteNote, Put, Types
        <4> QED
          BY <4>1, <4>2
      <3> QED
        BY <3>1, <1>5 DEF Types
    <2> QED
      BY <2>1, <2>2, <2>3, <2>4
  <1> QED
    BY <1>4, <1>5

\* A block or a note keeps the separators between them.
LEMMA AddsSeparators ==
    ASSUME Types, SeparatorsRight, NEW b, b.kind # "separator", Adds(b), UNCHANGED <<mode, display>>
    PROVE  SeparatorsRight'
  <1>1. PICK n \in {0, 1} :
          /\ out' \in Seq(Item) /\ Len(out') = Len(out) + n + 1 /\ out'[Len(out')] = b
          /\ \A i \in 1 .. Len(out) : out'[i] = out[i]
          /\ n = 1 => out # << >> /\ out'[Len(out) + 1].kind = "separator"
          /\ mode = "standard" /\ out # << >> /\ Parted => n = 1
    BY DEF Adds
  <1>2. PICK l \in Nat : l = Len(out)
    BY DEF Types
  <1>3. l = 0 <=> out = << >>
    BY <1>2 DEF Types
  <1>4. DOMAIN out = 1 .. l /\ DOMAIN out' = 1 .. l + n + 1
    BY <1>1, <1>2 DEF Types
  <1>5. Separators = {i \in 1 .. l : out[i].kind = "separator"}
    BY <1>4 DEF Separators
  <1>6. Separators' = {i \in 1 .. l + n + 1 : out'[i].kind = "separator"}
    BY <1>4 DEF Separators
  <1>7. out'[l + n + 1].kind # "separator"
    BY <1>1, <1>2
  <1>8. \A i \in Separators : i # 1 /\ i # l /\ i + 1 \notin Separators
    BY <1>2 DEF SeparatorsRight
  <1>9. \A i \in Separators' : (i \in Separators /\ i \in 1 .. l) \/ (n = 1 /\ i = l + 1)
    BY <1>1, <1>2, <1>5, <1>6, <1>7
  <1>10. \A i \in Separators' : i # 1 /\ i # l + n + 1 /\ i + 1 \notin Separators'
    <2> SUFFICES ASSUME NEW i \in Separators' PROVE i # 1 /\ i # l + n + 1 /\ i + 1 \notin Separators'
      OBVIOUS
    <2>1. CASE i \in Separators /\ i \in 1 .. l
      <3>1. i # 1 /\ i # l /\ i + 1 \notin Separators
        BY <2>1, <1>8
      <3>2. i + 1 \notin Separators'
        BY <2>1, <3>1, <1>9
      <3> QED
        BY <2>1, <3>1, <3>2
    <2>2. CASE n = 1 /\ i = l + 1
      BY <2>2, <1>1, <1>3, <1>6, <1>7
    <2> QED
      BY <2>1, <2>2, <1>9
  <1>11. ASSUME mode = "standard", Parted, NEW i \in 1 .. l + n + 1, i # 1
         PROVE  i \in Separators' \/ i - 1 \in Separators'
    <2>1. CASE i <= l
      <3>1. \A k \in DOMAIN out : k # 1 => (k \in Separators \/ k - 1 \in Separators)
        BY <1>11, Zenon DEF SeparatorsRight, Parted
      <3>2. i \in DOMAIN out
        BY <1>2, <1>4, <1>11, <2>1
      <3>3. i \in Separators \/ i - 1 \in Separators
        BY <1>11, <3>1, <3>2
      <3> QED
        BY <3>3, <1>1, <1>2, <1>5, <1>6
    <2>2. CASE i > l
      <3>1. n = 1 /\ l + 1 \in Separators'
        BY <1>1, <1>2, <1>3, <1>6, <1>11, <2>2
      <3> QED
        BY <3>1, <2>2
    <2> QED
      BY <2>1, <2>2
  <1> QED
    BY <1>1, <1>2, <1>4, <1>10, <1>11 DEF SeparatorsRight, Parted

LEMMA StepSeparators ==
    ASSUME Types, Owned, Remembered, SeparatorsRight, NEW v \in Visitors, VisitorStep(v)
    PROVE  SeparatorsRight'
  <1>1. UNCHANGED <<mode, display>>
    BY Separate
  <1>2. CASE out' = out
    BY <1>1, <1>2 DEF SeparatorsRight, Separators
  <1>3. CASE Write(v)
    <2>1. out' = out \/ Adds(BlockOf(v))
      BY <1>3, WriteEffect DEF Write
    <2>2. BlockOf(v).kind # "separator"
      BY DEF BlockOf
    <2> QED
      BY <1>1, <1>2, <2>1, <2>2, AddsSeparators
  <1>4. CASE WriteNote(v)
    <2>1. Adds(NoteOf(v)) /\ NoteOf(v).kind # "separator"
      BY <1>4, NoteEffect DEF NoteOf
    <2> QED
      BY <1>1, <2>1, AddsSeparators
  <1>5. CASE ~Write(v) /\ ~WriteNote(v)
    BY <1>2, <1>5 DEF VisitorStep, Visit, EntryError, Get, OpenFails, Begin, Line, ContextLine, SearchFails,
                       SearchEnds, Finish, Put, dest
  <1> QED
    BY <1>3, <1>4, <1>5

\* A block adds what it tells to what the output told.
LEMMA BlockTells ==
    ASSUME Types, NEW v \in Visitors, Adds(BlockOf(v)), option' = option, buf[worker[v]] \in Seq(Text)
    PROVE  /\ TellsNothing' <=> TellsNothing /\ ~(option = "missing" \/ HasMatch(buf[worker[v]]))
           /\ TellsSome' <=> TellsSome \/ option = "missing" \/ HasMatch(buf[worker[v]])
  <1>1. PICK n \in {0, 1} :
          /\ out' \in Seq(Item) /\ Len(out') = Len(out) + n + 1 /\ out'[Len(out')] = BlockOf(v)
          /\ \A i \in 1 .. Len(out) : out'[i] = out[i]
          /\ n = 1 => out # << >> /\ out'[Len(out) + 1].kind = "separator"
    BY DEF Adds
  <1>2. PICK l \in Nat : l = Len(out)
    BY DEF Types
  <1>3. PICK b : b = BlockOf(v) /\ b.kind = "block" /\ b.lines = buf[worker[v]]
    BY DEF BlockOf
  <1>4. \A i \in 1 .. l : Tells(i)' <=> Tells(i)
    BY <1>1, <1>2 DEF Tells
  <1>5. n = 1 => ~Tells(l + 1)'
    BY <1>1, <1>2 DEF Tells
  <1>6. Tells(l + n + 1)' <=> option = "missing" \/ HasMatch(buf[worker[v]])
    <2>1. out'[l + n + 1] = b
      BY <1>1, <1>2, <1>3
    <2>2. DOMAIN b.lines = 1 .. Len(buf[worker[v]])
      BY <1>3
    <2> QED
      BY <2>1, <2>2, <1>3 DEF Tells, HasMatch
  <1>7. \A i \in 1 .. Len(out') : i \in 1 .. l \/ (n = 1 /\ i = l + 1) \/ i = l + n + 1
    BY <1>1, <1>2
  <1>8. /\ \A i \in 1 .. l : i \in 1 .. Len(out')
        /\ l + n + 1 \in 1 .. Len(out')
    BY <1>1, <1>2
  <1> HIDE DEF Tells
  <1>9. TellsSome' <=> TellsSome \/ option = "missing" \/ HasMatch(buf[worker[v]])
    BY <1>2, <1>4, <1>5, <1>6, <1>7, <1>8 DEF TellsSome
  <1>10. (TellsNothing <=> ~TellsSome) /\ (TellsNothing' <=> ~TellsSome')
    BY DEF TellsNothing, TellsSome
  <1> QED
    BY <1>9, <1>10

\* What found, hasPrinted and anyMatched say stays true of what was found and written.
LEMMA StepRemembered ==
    ASSUME Types, Owned, Filled, Remembered, NEW v \in Visitors, VisitorStep(v)
    PROVE  Remembered'
  <1> USE DEF config, walk, visit, dest, flags, Goto
  <1> DEFINE Counts(u) == pc[u] \in {"write", "note"} /\ Signal(u)
             Quiet == option \notin {"passthru", "zero"}
  <1>1. /\ UNCHANGED <<mode, option, display>>
        /\ \A u \in Visitors \ {v} : pc'[u] = pc[u] /\ hits'[u] = hits[u]
    BY Separate
  <1>2. /\ found => mode = "quiet"
        /\ mode = "quiet" => out = << >>
        /\ mode = "standard" => (hasPrinted <=> out # << >>)
        /\ \A u \in Visitors : pc[u] = "note" => (mode = "standard" /\ hits[u] > 0)
        /\ \A u \in Visitors : Counts(u) => anyMatched
        /\ (mode # "quiet" /\ ~anyMatched) => TellsNothing
        /\ (mode # "quiet" /\ ~anyMatched /\ Quiet) => out = << >>
        /\ (mode # "quiet" /\ anyMatched) => (TellsSome \/ \E u \in Visitors : Counts(u))
    BY DEF Remembered
  <1>3. hits[v] \in Nat /\ withheld[v] \in Nat /\ pc[v] \in Phases
    BY DEF Types
  <1>4. \A u \in Visitors \ {v} : Counts(u)' <=> Counts(u)
    BY <1>1 DEF Signal
  <1>5. out' = out => (TellsNothing' <=> TellsNothing) /\ (TellsSome' <=> TellsSome)
    BY <1>1 DEF TellsNothing, TellsSome, Tells
  <1>6. SUFFICES /\ found' => mode = "quiet"
                 /\ mode = "quiet" => out' = << >>
                 /\ mode = "standard" => (hasPrinted' <=> out' # << >>)
                 /\ pc'[v] = "note" => (mode = "standard" /\ hits'[v] > 0)
                 /\ anyMatched => anyMatched'
                 /\ Counts(v)' => anyMatched'
                 /\ (mode # "quiet" /\ ~anyMatched') => TellsNothing'
                 /\ (mode # "quiet" /\ ~anyMatched' /\ Quiet) => out' = << >>
                 /\ (mode # "quiet" /\ anyMatched') => (TellsSome' \/ \E u \in Visitors : Counts(u)')
    <2>1. \A u \in Visitors : pc'[u] = "note" => (mode = "standard" /\ hits'[u] > 0)
      BY <1>1, <1>2, <1>6
    <2>2. \A u \in Visitors : Counts(u)' => anyMatched'
      BY <1>2, <1>4, <1>6
    <2> QED
      BY <1>1, <1>6, <2>1, <2>2 DEF Remembered
  <1>7. CASE Finish(v)
    <2>1. UNCHANGED <<found, hasPrinted, out, hits>> /\ pc[v] = "finish"
      BY <1>7 DEF Finish
    <2>2. \/ anyMatched' = (anyMatched \/ Signal(v)) /\ pc'[v] = "write"
          \/ anyMatched' = anyMatched /\ pc'[v] = "put"
      BY <1>7 DEF Finish, Types
    <2>3. ~Counts(v) /\ (Counts(v)' <=> (pc'[v] = "write" /\ Signal(v)))
      BY <1>1, <2>1, <2>2 DEF Signal
    <2>4. anyMatched' <=> (anyMatched \/ Counts(v)')
      <3>1. CASE anyMatched' = (anyMatched \/ Signal(v)) /\ pc'[v] = "write"
        <4>1. Counts(v)' <=> Signal(v)
          BY <2>3, <3>1
        <4> HIDE DEF Counts
        <4> QED
          BY <3>1, <4>1, Zenon
      <3>2. CASE anyMatched' = anyMatched /\ pc'[v] = "put"
        <4>1. ~Counts(v)'
          BY <2>3, <3>2
        <4> HIDE DEF Counts
        <4> QED
          BY <3>2, <4>1, Zenon
      <3> QED
        BY <2>2, <3>1, <3>2
    <2>5. ASSUME mode # "quiet", anyMatched'
          PROVE  TellsSome' \/ \E u \in Visitors : Counts(u)'
      <3>1. CASE Counts(v)'
        BY <3>1
      <3>2. CASE ~Counts(v)'
        <4> HIDE DEF Counts
        <4> QED
          BY <1>2, <1>4, <1>5, <2>1, <2>3, <2>4, <2>5, <3>2
      <3> QED
        BY <3>1, <3>2
    <2>6. pc'[v] # "note"
      BY <2>2
    <2> HIDE DEF Counts
    <2> QED
      BY <1>2, <1>5, <2>1, <2>3, <2>4, <2>5, <2>6
  <1>8. CASE Write(v)
    <2>1. UNCHANGED <<found, hits, anyMatched>> /\ pc[v] = "write" /\ WriteSink(v)
      BY <1>8 DEF Write
    <2>2. \/ mode = "standard" /\ hits[v] > 0 /\ pc'[v] = "note"
          \/ withheld[v] = 0 /\ pc'[v] = "put"
      BY <1>8 DEF Write, Types
    <2>3. /\ \/ /\ mode = "quiet" \/ ~Owed(buf[worker[v]])
                /\ out' = out
             \/ /\ mode # "quiet" /\ Owed(buf[worker[v]])
                /\ Adds(BlockOf(v))
          /\ mode = "standard" => (hasPrinted' <=> out' # << >>)
      BY <2>1, WriteEffect
    <2>4. mode # "quiet" => /\ Holds(buf[worker[v]], file[v], hits[v], withheld[v])
                            /\ buf[worker[v]] \in Seq(Text)
      BY <2>1 DEF Filled, Types, Owned, Holding
    <2>5. ~anyMatched => ~Signal(v)
      BY <1>2, <2>1
    <2>6. mode # "quiet" /\ Adds(BlockOf(v)) =>
              /\ TellsNothing' <=> TellsNothing /\ ~(option = "missing" \/ HasMatch(buf[worker[v]]))
              /\ TellsSome' <=> TellsSome \/ option = "missing" \/ HasMatch(buf[worker[v]])
      BY <1>1, BlockTells, <2>1, <2>4
    <2>7. ASSUME mode # "quiet", anyMatched
          PROVE  TellsSome' \/ \E u \in Visitors : Counts(u)'
      <3>1. CASE pc'[v] = "note"
        <4>1. Counts(v)'
          BY <1>1, <2>1, <2>2, <3>1 DEF Signal, Types
        <4> QED
          BY <4>1
      <3>2. CASE Signal(v) /\ withheld[v] = 0
        <4>1. Owed(buf[worker[v]]) /\ (option = "missing" \/ HasMatch(buf[worker[v]]))
          BY <1>3, <2>4, <2>7, <3>2 DEF Signal, Holds, Owed, HasMatch
        <4> QED
          BY <2>3, <2>6, <2>7, <4>1
      <3>3. CASE ~Signal(v) /\ pc'[v] # "note"
        <4>1. ~Counts(v)
          BY <3>3
        <4>2. TellsSome \/ \E u \in Visitors \ {v} : Counts(u)
          BY <1>2, <2>7, <4>1
        <4>3. TellsSome => TellsSome'
          BY <1>5, <2>3, <2>6
        <4> HIDE DEF Counts
        <4> QED
          BY <1>4, <4>2, <4>3
      <3> QED
        BY <2>2, <3>1, <3>2, <3>3
    <2>8. mode # "quiet" /\ ~anyMatched => TellsNothing' /\ (Quiet => out' = << >>)
      <3> SUFFICES ASSUME mode # "quiet", ~anyMatched PROVE TellsNothing' /\ (Quiet => out' = << >>)
        OBVIOUS
      <3>1. ~Signal(v) /\ TellsNothing /\ (Quiet => out = << >>)
        BY <1>2, <2>5
      <3>2. CASE option = "missing"
        <4>1. ~Owed(buf[worker[v]])
          BY <1>3, <2>4, <3>1, <3>2 DEF Signal, Holds, Owed, Types, HasMatch
        <4> QED
          BY <1>5, <2>3, <3>1, <4>1
      <3>3. CASE option # "missing"
        <4>1. ~HasMatch(buf[worker[v]]) /\ (Quiet => ~Owed(buf[worker[v]]))
          BY <1>3, <2>4, <3>1, <3>3 DEF Signal, Holds, Owed
        <4> QED
          BY <1>5, <2>3, <2>6, <3>1, <3>3, <4>1
      <3> QED
        BY <3>2, <3>3
    <2>9. (mode = "quiet" => out' = << >>) /\ (Counts(v)' => anyMatched)
      <3>1. Signal(v)' <=> Signal(v)
        BY <1>1, <2>1 DEF Signal
      <3> QED
        BY <1>2, <2>1, <2>3, <3>1
    <2> HIDE DEF Counts
    <2> QED
      BY <1>2, <2>1, <2>2, <2>3, <2>7, <2>8, <2>9
  <1>9. CASE WriteNote(v)
    <2>1. UNCHANGED <<found, hits, anyMatched>> /\ pc[v] = "note" /\ pc'[v] = "put"
      BY <1>9 DEF WriteNote, Types
    <2>2. hasPrinted' /\ out' # << >> /\ mode = "standard" /\ hits[v] > 0 /\ Adds(NoteOf(v))
      BY <1>2, <1>9, <2>1, NoteEffect
    <2>3. Counts(v) /\ ~Counts(v)'
      BY <2>1, <2>2 DEF Signal, Types
    <2>4. TellsSome'
      <3>1. out' \in Seq(Item) /\ Len(out') > 0 /\ out'[Len(out')] = NoteOf(v)
        BY <2>2 DEF Adds, Types
      <3>2. Len(out') \in 1 .. Len(out') /\ NoteOf(v).kind = "note"
        BY <3>1 DEF NoteOf
      <3> QED
        BY <3>1, <3>2 DEF TellsSome, Tells
    <2>5. anyMatched
      BY <1>2, <2>3
    <2> HIDE DEF Counts
    <2> QED
      BY <1>2, <2>1, <2>2, <2>3, <2>4, <2>5
  <1>10. CASE ~Finish(v) /\ ~Write(v) /\ ~WriteNote(v)
    <2>1. UNCHANGED <<hasPrinted, out, anyMatched>>
      BY <1>10 DEF VisitorStep, Visit, EntryError, Get, OpenFails, Begin, Line, ContextLine, SearchFails,
                   SearchEnds, Put
    <2>2. found' => mode = "quiet"
      <3>1. CASE Line(v) \/ ContextLine(v)
        BY <1>2, <3>1 DEF Line, ContextLine, Types
      <3> QED
        BY <1>2, <1>10, <3>1 DEF VisitorStep, Visit, EntryError, Get, OpenFails, Begin, SearchFails, SearchEnds, Put
    <2>3. pc[v] \notin {"write", "note"} /\ pc'[v] \notin {"write", "note"}
      <3>1. CASE Line(v) \/ ContextLine(v)
        BY <3>1 DEF Line, ContextLine, Types
      <3>2. CASE Visit(v)
        BY <3>2 DEF Visit, Types
      <3>3. CASE ~Line(v) /\ ~ContextLine(v) /\ ~Visit(v)
        BY <1>10, <3>3 DEF VisitorStep, EntryError, Get, OpenFails, Begin, SearchFails, SearchEnds, Put, Types
      <3> QED
        BY <3>1, <3>2, <3>3
    <2>4. ~Counts(v) /\ ~Counts(v)'
      BY <2>3
    <2> HIDE DEF Counts
    <2> QED
      BY <1>2, <1>4, <1>5, <2>1, <2>2, <2>3, <2>4
  <1> QED
    BY <1>7, <1>8, <1>9, <1>10

\* After execute has returned nothing is left for a visitor to do.
LEMMA NotOver ==
    ASSUME Types, Over, NEW v \in Visitors, VisitorStep(v)
    PROVE  exit = None /\ exit' = None
  <1>1. exit' = exit
    BY Separate
  <1>2. ASSUME exit # None PROVE FALSE
    <2>1. pc[v] = "idle" /\ (todo = {} \/ quitting)
      BY <1>2 DEF Over
    <2> QED
      BY <2>1 DEF VisitorStep, Visit, EntryError, Get, OpenFails, Begin, Line, ContextLine, SearchFails, SearchEnds,
                  Finish, Write, WriteNote, Put
  <1> QED
    BY <1>1, <1>2

LateStep == late' = [u \in Visitors |-> IF found /\ Opens(u) THEN late[u] + 1 ELSE late[u]]

\* A visitor that opened a file after the answer is not given another.
LEMMA StepAnswered ==
    ASSUME Types, Remembered, Answered, NEW v \in Visitors, VisitorStep(v), LateStep
    PROVE  late' \in [Visitors -> Nat] /\ Answered'
  <1> USE DEF config, walk, visit, dest, flags, Goto
  <1>1. late \in [Visitors -> Nat]
    BY DEF Types
  <1>2. late' \in [Visitors -> Nat]
    BY <1>1 DEF LateStep
  <1>3. found => found'
    <2>1. CASE Line(v) \/ ContextLine(v)
      BY <2>1 DEF Line, ContextLine, Types
    <2> QED
      BY <2>1 DEF VisitorStep, Visit, EntryError, Get, OpenFails, Begin, SearchFails, SearchEnds,
                  Finish, Write, WriteNote, Put
  <1>4. \A u \in Visitors : (found /\ pc'[u] = "get") => pc[u] = "get"
    <2>1. \A u \in Visitors \ {v} : pc'[u] = pc[u]
      BY Separate
    <2>2. ASSUME found, pc'[v] = "get" PROVE pc[v] = "get"
      <3>1. CASE Visit(v)
        BY <2>2, <3>1 DEF Visit, Remembered
      <3>2. CASE Line(v) \/ ContextLine(v)
        BY <2>2, <3>2 DEF Line, ContextLine, Types
      <3>3. CASE ~Visit(v) /\ ~Line(v) /\ ~ContextLine(v)
        BY <2>2, <3>3 DEF VisitorStep, EntryError, Get, OpenFails, Begin, SearchFails, SearchEnds,
                    Finish, Write, WriteNote, Put, Types
      <3> QED
        BY <3>1, <3>2, <3>3
    <2> QED
      BY <2>1, <2>2
  <1>5. ASSUME NEW u \in Visitors, late'[u] > 0
        PROVE  late'[u] = 1 /\ found' /\ pc'[u] # "get"
    <2>1. CASE found /\ Opens(u)
      <3>1. pc[u] = "get" /\ pc'[u] = "open" /\ late'[u] = late[u] + 1
        BY <2>1 DEF Opens, LateStep
      <3>2. late[u] = 0
        BY <3>1, <1>1 DEF Answered
      <3> QED
        BY <2>1, <1>3, <3>1, <3>2
    <2>2. CASE ~(found /\ Opens(u))
      <3>1. late'[u] = late[u]
        BY <2>2 DEF LateStep
      <3>2. late[u] = 1 /\ found /\ pc[u] # "get"
        BY <1>5, <3>1 DEF Answered
      <3> QED
        BY <3>1, <3>2, <1>3, <1>4
    <2> QED
      BY <2>1, <2>2
  <1> QED
    BY <1>2, <1>5 DEF Answered

-----------------------------------------------------------------------------
(* What reached the output, and for which file.                            *)

GivenStep ==
    given' = [f \in Files |->
        IF mode # "quiet" /\ \E u \in Visitors : Finishes(u) /\ file[u] = f
        THEN {lines \in {buf[worker[CHOOSE u \in Visitors : Finishes(u) /\ file[u] = f]]} : Owed(lines)}
        ELSE given[f]]

\* The search that comes to its end is recorded, and no other.
LEMMA Records ==
    ASSUME Types, Owned, NEW v \in Visitors, VisitorStep(v), GivenStep
    PROVE  /\ given' \in [Files -> SUBSET Seq(Text)]
           /\ \A f \in Files : ~(Finishes(v) /\ file[v] = f) => given'[f] = given[f]
           /\ Finishes(v) => given'[file[v]] = IF mode = "quiet" THEN given[file[v]] ELSE Due(v)
  <1>1. \A u \in Visitors : Finishes(u) => u = v
    BY Separate DEF Finishes
  <1>2. \A f \in Files : ~(Finishes(v) /\ file[v] = f) => given'[f] = given[f]
    BY <1>1 DEF GivenStep
  <1>3. ASSUME Finishes(v)
        PROVE  /\ worker[v] \in Workers /\ file[v] \in Files
               /\ given'[file[v]] = IF mode = "quiet" THEN given[file[v]] ELSE Due(v)
    <2>1. worker[v] \in Workers /\ file[v] \in Files
      BY <1>3 DEF Finishes, Owned, Types, Holding, Phases
    <2>2. (CHOOSE u \in Visitors : Finishes(u) /\ file[u] = file[v]) = v
      BY <1>1, <1>3
    <2> QED
      BY <1>3, <2>1, <2>2 DEF GivenStep, Due
  <1>4. \A f \in Files : given'[f] \subseteq Seq(Text)
    <2> SUFFICES ASSUME NEW f \in Files PROVE given'[f] \subseteq Seq(Text)
      OBVIOUS
    <2>1. given[f] \subseteq Seq(Text)
      BY DEF Types
    <2>2. CASE Finishes(v) /\ file[v] = f
      <3>1. buf[worker[v]] \in Seq(Text)
        BY <1>3, <2>2 DEF Types
      <3> QED
        BY <1>3, <2>1, <2>2, <3>1 DEF Due
    <2> QED
      BY <1>2, <2>1, <2>2
  <1>5. given' \in [Files -> SUBSET Seq(Text)]
    BY <1>4 DEF GivenStep
  <1> QED
    BY <1>2, <1>3, <1>5

\* The positions of blocks and notes after one was added.
LEMMA AddsItems ==
    ASSUME Types, NEW b, Adds(b), b.kind # "separator"
    PROVE  /\ \A f : Blocks(f)' = Blocks(f) \cup {i \in {Len(out')} : b.kind = "block" /\ b.file = f}
           /\ \A f : Notes(f)' = Notes(f) \cup {i \in {Len(out')} : b.kind = "note" /\ b.file = f}
           /\ \A f : Len(out') \notin Blocks(f) \cup Notes(f)
           /\ out'[Len(out')] = b
           /\ \A i \in 1 .. Len(out) : out'[i] = out[i]
           /\ \A i \in 1 .. Len(out') : i \in 1 .. Len(out) \/ out'[i] = b \/ out'[i].kind = "separator"
  <1>1. PICK n \in {0, 1} :
          /\ out' \in Seq(Item) /\ Len(out') = Len(out) + n + 1 /\ out'[Len(out')] = b
          /\ \A i \in 1 .. Len(out) : out'[i] = out[i]
          /\ n = 1 => out # << >> /\ out'[Len(out) + 1].kind = "separator"
    BY DEF Adds
  <1>2. PICK l \in Nat : l = Len(out)
    BY DEF Types
  <1>3. DOMAIN out = 1 .. l /\ DOMAIN out' = 1 .. l + n + 1 /\ Len(out') = l + n + 1
    BY <1>1, <1>2 DEF Types
  <1>4. \A i \in 1 .. l + n + 1 : (i \in 1 .. l /\ out'[i] = out[i])
             \/ (i = l + n + 1 /\ out'[i] = b) \/ out'[i].kind = "separator"
    BY <1>1, <1>2, <1>3
  <1>5. l + n + 1 \notin 1 .. l /\ l + n + 1 \in 1 .. l + n + 1
    BY <1>2
  <1>6. \A i \in 1 .. l : i \in 1 .. l + n + 1 /\ out'[i] = out[i]
    BY <1>1, <1>2
  <1>7. out'[l + n + 1] = b
    BY <1>1, <1>3
  <1>8. ASSUME NEW f, NEW k \in {"block", "note"}
        PROVE  {i \in DOMAIN out' : out'[i].kind = k /\ out'[i].file = f}
               = {i \in DOMAIN out : out[i].kind = k /\ out[i].file = f}
                 \cup {i \in {l + n + 1} : b.kind = k /\ b.file = f}
    BY <1>3, <1>4, <1>5, <1>6, <1>7, <1>8
  <1>9. \A f : Blocks(f)' = Blocks(f) \cup {i \in {Len(out')} : b.kind = "block" /\ b.file = f}
    BY <1>3, <1>8 DEF Blocks
  <1>10. \A f : Notes(f)' = Notes(f) \cup {i \in {Len(out')} : b.kind = "note" /\ b.file = f}
    BY <1>3, <1>8 DEF Notes
  <1>11. \A f : Len(out') \notin Blocks(f) \cup Notes(f)
    BY <1>3, <1>5 DEF Blocks, Notes
  <1> QED
    BY <1>1, <1>2, <1>3, <1>4, <1>9, <1>10, <1>11

\* Before its block is written, a visitor's file is nowhere in the output.
LEMMA StepWritten ==
    ASSUME Types, Owned, Filled, Remembered, Written, NEW v \in Visitors, VisitorStep(v), GivenStep
    PROVE  Written'
  <1> USE DEF config, walk, visit, dest, flags, Goto
  <1> DEFINE Early(u) == pc[u] \in {"get", "open", "search", "finish"}
             Pending(u) == pc[u] \in {"get", "open", "search", "finish", "write"}
             Alone(f) == \A u \in Visitors : pc[u] = "write" => file[u] # f
  <1>1. /\ mode' = mode /\ option' = option
        /\ \A u \in Visitors \ {v} : pc'[u] = pc[u] /\ worker'[u] = worker[u] /\ file'[u] = file[u]
    BY Separate
  <1>2. \A u \in Visitors : pc[u] # "idle" => file[u] \in Files /\ file[u] \notin todo
    BY DEF Owned
  <1>3. \A u \in Visitors \ {v} : (pc[u] # "idle" /\ pc[v] # "idle") => file[u] # file[v]
    BY DEF Owned
  <1>4. \A u \in Visitors \ {v} : pc[u] = "write" => Due(u)' = Due(u)
    <2> SUFFICES ASSUME NEW u \in Visitors \ {v}, pc[u] = "write" PROVE Due(u)' = Due(u)
      OBVIOUS
    <2>1. worker[u] # None
      BY DEF Owned, Holding, Phases
    <2>2. buf'[worker[u]] = buf[worker[u]]
      BY <2>1, OtherBuffers
    <2> QED
      BY <1>1, <2>2 DEF Due, Owed
  <1>5. /\ \A i \in 1 .. Len(out) : out[i].kind = "block" =>
               \A j \in 1 .. Len(out[i].lines) : out[i].lines[j].file = out[i].file
        /\ \A f \in todo : given[f] = {} /\ Unseen(f)
        /\ \A u \in Visitors : /\ Early(u) => given[file[u]] = {}
                               /\ Pending(u) => Unseen(file[u])
                               /\ pc[u] = "write" => given[file[u]] = Due(u)
                               /\ pc[u] = "note" => Notes(file[u]) = {}
        /\ \A f \in Files : (\A i, j \in Notes(f) : i = j) /\ (Alone(f) => Shown(f))
    BY DEF Written
  <1>6. todo' \subseteq todo /\ todo \subseteq Files
    BY DEF Types, VisitorStep, Visit, EntryError, Get, OpenFails, Begin, Line, ContextLine, SearchFails, SearchEnds,
           Finish, Write, WriteNote, Put
  <1>7. SUFFICES /\ \A i \in 1 .. Len(out') : out'[i].kind = "block" =>
                        \A j \in 1 .. Len(out'[i].lines) : out'[i].lines[j].file = out'[i].file
                 /\ \A f \in todo' : given'[f] = {} /\ Unseen(f)'
                 /\ \A u \in Visitors : /\ Early(u)' => given'[file'[u]] = {}
                                        /\ Pending(u)' => Unseen(file[u])'
                                        /\ pc'[u] = "write" => given'[file'[u]] = Due(u)'
                                        /\ pc'[u] = "note" => Notes(file[u])' = {}
                 /\ \A f \in Files : (\A i, j \in Notes(f)' : i = j) /\ (Alone(f)' => Shown(f)')
    BY <1>7 DEF Written
  <1>12. ASSUME NEW u \in Visitors \ {v}, NEW f, f = file[u],
                pc[u] # "idle" => /\ given'[f] = given[f]
                                  /\ Blocks(f)' = Blocks(f) /\ Notes(f)' = Notes(f)
         PROVE  /\ Early(u)' => given'[file'[u]] = {}
                /\ Pending(u)' => Unseen(file[u])'
                /\ pc'[u] = "write" => given'[file'[u]] = Due(u)'
                /\ pc'[u] = "note" => Notes(file[u])' = {}
    <2>1. pc'[u] = pc[u] /\ file'[u] = file[u]
      BY <1>1
    <2>2. pc'[u] = "write" => given'[file'[u]] = Due(u)'
      BY <2>1, <1>4, <1>5, <1>12
    <2>3. (Unseen(file[u]) /\ pc[u] # "idle") => Unseen(file[u])'
      BY <2>1, <1>12 DEF Unseen, Blocks, Notes
    <2>4. (Notes(file[u]) = {} /\ pc[u] # "idle") => Notes(file[u])' = {}
      BY <2>1, <1>12 DEF Notes
    <2> QED
      BY <2>1, <2>2, <2>3, <2>4, <1>5, <1>12
  <1>8. CASE Finishes(v)
    <2>1. pc[v] = "finish" /\ pc'[v] = "write" /\ UNCHANGED <<todo, file, worker, buf, out>>
      <3>1. Finish(v)
        BY <1>8 DEF Finishes, VisitorStep, Visit, EntryError, Get, OpenFails, Begin, Line, ContextLine, SearchFails,
                    SearchEnds, Write, WriteNote, Put
      <3> QED
        BY <1>8, <3>1 DEF Finish, Finishes
    <2>2. \A f : Blocks(f)' = Blocks(f) /\ Notes(f)' = Notes(f) /\ (Unseen(f)' <=> Unseen(f))
      BY <2>1 DEF Blocks, Notes, Unseen
    <2>3. \A f \in Files : f # file[v] => given'[f] = given[f] /\ (Shown(f)' <=> Shown(f))
      <3>1. \A f \in Files : f # file[v] => given'[f] = given[f]
        BY Records
      <3> QED
        BY <2>1, <2>2, <3>1 DEF Shown
    <2>4. given'[file[v]] = Due(v)' /\ given[file[v]] = {} /\ Unseen(file[v])
      <3>1. given[file[v]] = {} /\ Unseen(file[v])
        BY <1>5, <2>1
      <3>2. given'[file[v]] = Due(v)
        BY <1>8, <3>1, Records DEF Due
      <3> QED
        BY <1>1, <2>1, <3>1, <3>2 DEF Due, Owed
    <2>5. \A f \in Files : Alone(f)' => (f # file[v] /\ Alone(f))
      BY <1>1, <2>1
    <2>6. \A u \in Visitors \ {v} :
              /\ Early(u)' => given'[file'[u]] = {}
              /\ Pending(u)' => Unseen(file[u])'
              /\ pc'[u] = "write" => given'[file'[u]] = Due(u)'
              /\ pc'[u] = "note" => Notes(file[u])' = {}
      <3>1. \A u \in Visitors \ {v} : pc[u] # "idle" => file[u] \in Files /\ file[u] # file[v]
        BY <1>2, <1>3, <2>1
      <3> HIDE DEF Early, Pending
      <3> QED
        BY <3>1, <1>12, <2>2, <2>3
    <2>7. \A f \in todo' : given'[f] = {} /\ Unseen(f)'
      BY <1>2, <1>5, <1>6, <2>1, <2>2, <2>3
    <2>8. ~Early(v)' /\ pc'[v] # "note" /\ Unseen(file[v])'
      BY <2>1, <2>2, <2>4
    <2>9. \A f \in Files : (\A i, j \in Notes(f)' : i = j) /\ (Alone(f)' => Shown(f)')
      <3> HIDE DEF Alone
      <3> QED
        BY <1>5, <2>2, <2>3, <2>5
    <2>10. /\ \A i \in 1 .. Len(out') : out'[i].kind = "block" =>
                  \A j \in 1 .. Len(out'[i].lines) : out'[i].lines[j].file = out'[i].file
           /\ Unseen(file[v])' /\ given'[file'[v]] = Due(v)'
      BY <1>5, <2>1, <2>4, <2>8
    <2> HIDE DEF Early, Pending, Alone
    <2> QED
      BY <2>1, <2>6, <2>7, <2>8, <2>9, <2>10
  <1>9. CASE Write(v)
    <2>1. /\ pc[v] = "write" /\ pc'[v] \in {"note", "put"} /\ WriteSink(v)
          /\ UNCHANGED <<todo, file, worker, buf>>
      BY <1>9 DEF Write, Types
    <2>2. \A f \in Files : given'[f] = given[f]
      BY <2>1, Records DEF Finishes
    <2>3. \A f \in Files : Alone(f)' => (f = file[v] \/ Alone(f))
      BY <1>1
    <2>4. /\ \A i \in 1 .. Len(out') : out'[i].kind = "block" =>
                 \A j \in 1 .. Len(out'[i].lines) : out'[i].lines[j].file = out'[i].file
          /\ \A f \in Files : Notes(f)' = Notes(f)
          /\ \A f \in Files : f # file[v] => (Blocks(f)' = Blocks(f) /\ (Shown(f)' <=> Shown(f)))
          /\ \A f \in Files : f = file[v] => Shown(f)'
      <3>1. given[file[v]] = Due(v) /\ Unseen(file[v]) /\ file[v] \in Files
        BY <1>2, <1>5, <2>1
      <3>2. CASE out' = out /\ (mode = "quiet" \/ ~Owed(buf[worker[v]]))
        <4>1. \A f : Blocks(f)' = Blocks(f) /\ Notes(f)' = Notes(f)
          BY <3>2 DEF Blocks, Notes
        <4>2. \A f \in Files : Shown(f)' <=> Shown(f)
          BY <3>2, <4>1, <2>2 DEF Shown
        <4>3. Shown(file[v])
          BY <3>1, <3>2 DEF Shown, Unseen, Due
        <4>4. \A f \in Files : f = file[v] => Shown(f)'
          BY <4>2, <4>3
        <4> QED
          BY <1>5, <3>2, <4>1, <4>2, <4>4
      <3>3. CASE Adds(BlockOf(v)) /\ mode # "quiet" /\ Owed(buf[worker[v]])
        <4>1. BlockOf(v).kind = "block" /\ BlockOf(v).file = file[v] /\ BlockOf(v).lines = buf[worker[v]]
          BY DEF BlockOf
        <4>2. /\ \A f : Blocks(f)' = Blocks(f) \cup {i \in {Len(out')} : file[v] = f}
              /\ \A f : Notes(f)' = Notes(f) \cup {i \in {Len(out')} : FALSE}
              /\ out'[Len(out')] = BlockOf(v)
              /\ \A i \in 1 .. Len(out) : out'[i] = out[i]
              /\ \A i \in 1 .. Len(out') : i \in 1 .. Len(out) \/ out'[i] = BlockOf(v)
                                           \/ out'[i].kind = "separator"
          BY <3>3, <4>1, AddsItems
        <4>3. \A j \in 1 .. Len(buf[worker[v]]) : buf[worker[v]][j].file = file[v]
          BY <2>1, <3>3 DEF Filled, Holds
        <4>4. \A i \in 1 .. Len(out') : out'[i].kind = "block" =>
                 \A j \in 1 .. Len(out'[i].lines) : out'[i].lines[j].file = out'[i].file
          BY <1>5, <4>1, <4>2, <4>3
        <4>5. \A f \in Files : Notes(f)' = Notes(f)
          BY <4>2
        <4>6. \A f \in Files : f # file[v] => Blocks(f)' = Blocks(f)
          BY <4>2
        <4>7. \A f \in Files : f # file[v] => (Shown(f)' <=> Shown(f))
          <5>1. \A f : \A i \in Blocks(f) : i \in 1 .. Len(out)
            BY DEF Blocks, Types
          <5> QED
            BY <2>2, <4>2, <4>6, <5>1 DEF Shown
        <4>8. ASSUME NEW f \in Files, f = file[v] PROVE Shown(f)'
          <5>1. Blocks(f)' = {Len(out')}
            BY <3>1, <4>2, <4>8 DEF Unseen
          <5>2. given'[f] = {buf[worker[v]]}
            BY <3>1, <3>3, <2>2, <4>8 DEF Due
          <5>3. out'[Len(out')].lines \in given'[f]
            BY <4>1, <4>2, <5>2
          <5> QED
            BY <5>1, <5>2, <5>3 DEF Shown
        <4> QED
          BY <4>4, <4>5, <4>6, <4>7, <4>8
      <3> QED
        BY <2>1, <3>2, <3>3, WriteEffect
    <2>5. \A f \in Files : f # file[v] => (Unseen(f)' <=> Unseen(f))
      BY <2>4 DEF Unseen
    <2>6. file[v] \in Files \ todo /\ Notes(file[v]) = {}
      BY <1>2, <1>5, <2>1 DEF Unseen
    <2>7. \A u \in Visitors \ {v} :
              /\ Early(u)' => given'[file'[u]] = {}
              /\ Pending(u)' => Unseen(file[u])'
              /\ pc'[u] = "write" => given'[file'[u]] = Due(u)'
              /\ pc'[u] = "note" => Notes(file[u])' = {}
      <3>1. \A u \in Visitors \ {v} : pc[u] # "idle" => file[u] \in Files /\ file[u] # file[v]
        BY <1>2, <1>3, <2>1
      <3> HIDE DEF Early, Pending
      <3> QED
        BY <3>1, <1>12, <2>2, <2>4
    <2>8. \A f \in todo' : given'[f] = {} /\ Unseen(f)'
      BY <1>5, <1>6, <2>1, <2>2, <2>5, <2>6
    <2>9. \A f \in Files : (\A i, j \in Notes(f)' : i = j) /\ (Alone(f)' => Shown(f)')
      <3> HIDE DEF Alone
      <3>1. \A f \in Files : \A i, j \in Notes(f)' : i = j
        BY <1>5, <2>4
      <3>2. \A f \in Files : Alone(f)' => Shown(f)'
        BY <1>5, <2>3, <2>4
      <3> QED
        BY <3>1, <3>2
    <2>10. ~Early(v)' /\ ~Pending(v)' /\ pc'[v] # "write" /\ Notes(file[v])' = {}
      BY <2>1, <2>4, <2>6
    <2> HIDE DEF Early, Pending, Alone
    <2> QED
      BY <2>4, <2>7, <2>8, <2>9, <2>10
  <1>10. CASE WriteNote(v)
    <2>1. pc[v] = "note" /\ pc'[v] = "put" /\ UNCHANGED <<todo, file, worker, buf>>
      BY <1>10 DEF WriteNote, Types
    <2>2. \A f \in Files : given'[f] = given[f]
      BY <2>1, Records DEF Finishes
    <2>3. \A f \in Files : Alone(f)' => Alone(f)
      BY <1>1, <2>1
    <2>4. file[v] \in Files \ todo /\ Notes(file[v]) = {}
      BY <1>2, <1>5, <2>1
    <2>5. Adds(NoteOf(v))
      BY <1>10, NoteEffect
    <2>6. NoteOf(v).kind = "note" /\ NoteOf(v).file = file[v]
      BY DEF NoteOf
    <2>7. /\ \A f : Blocks(f)' = Blocks(f)
          /\ \A f : f # file[v] => Notes(f)' = Notes(f)
          /\ \A f : f = file[v] => Notes(f)' = {Len(out')}
          /\ \A i \in 1 .. Len(out) : out'[i] = out[i]
          /\ \A i \in 1 .. Len(out') : i \in 1 .. Len(out) \/ out'[i].kind # "block"
      <3>1. /\ \A f : Blocks(f)' = Blocks(f) \cup {i \in {Len(out')} : FALSE}
            /\ \A f : Notes(f)' = Notes(f) \cup {i \in {Len(out')} : file[v] = f}
            /\ \A i \in 1 .. Len(out) : out'[i] = out[i]
            /\ \A i \in 1 .. Len(out') : i \in 1 .. Len(out) \/ out'[i] = NoteOf(v)
                                         \/ out'[i].kind = "separator"
        BY <2>5, <2>6, AddsItems
      <3>2. \A f : Blocks(f)' = Blocks(f)
        BY <3>1
      <3>3. \A f : f # file[v] => Notes(f)' = Notes(f)
        BY <3>1
      <3>4. \A f : f = file[v] => Notes(f)' = {Len(out')}
        BY <3>1, <2>4
      <3> QED
        BY <3>1, <3>2, <3>3, <3>4, <2>6
    <2>8. \A f \in Files : Shown(f)' <=> Shown(f)
      <3>1. \A f : \A i \in Blocks(f) : i \in 1 .. Len(out)
        BY DEF Blocks, Types
      <3> QED
        BY <2>2, <2>7, <3>1 DEF Shown
    <2>9. \A i \in 1 .. Len(out') : out'[i].kind = "block" =>
                 \A j \in 1 .. Len(out'[i].lines) : out'[i].lines[j].file = out'[i].file
      BY <1>5, <2>7
    <2>10. \A f \in Files : f # file[v] => (Unseen(f)' <=> Unseen(f))
      BY <2>7 DEF Unseen
    <2>11. \A u \in Visitors \ {v} :
              /\ Early(u)' => given'[file'[u]] = {}
              /\ Pending(u)' => Unseen(file[u])'
              /\ pc'[u] = "write" => given'[file'[u]] = Due(u)'
              /\ pc'[u] = "note" => Notes(file[u])' = {}
      <3>1. \A u \in Visitors \ {v} : pc[u] # "idle" => file[u] \in Files /\ file[u] # file[v]
        BY <1>2, <1>3, <2>1
      <3> HIDE DEF Early, Pending
      <3> QED
        BY <3>1, <1>12, <2>2, <2>7
    <2>12. \A f \in todo' : given'[f] = {} /\ Unseen(f)'
      BY <1>5, <1>6, <2>1, <2>2, <2>4, <2>10
    <2>13. \A f \in Files : (\A i, j \in Notes(f)' : i = j) /\ (Alone(f)' => Shown(f)')
      <3> HIDE DEF Alone
      <3>1. \A f \in Files : \A i, j \in Notes(f)' : i = j
        BY <1>5, <2>7
      <3>2. \A f \in Files : Alone(f)' => Shown(f)'
        BY <1>5, <2>3, <2>8
      <3> QED
        BY <3>1, <3>2
    <2>14. ~Early(v)' /\ ~Pending(v)' /\ pc'[v] \notin {"write", "note"}
      BY <2>1
    <2> HIDE DEF Early, Pending, Alone
    <2> QED
      BY <2>9, <2>11, <2>12, <2>13, <2>14
  <1>11. CASE ~Finishes(v) /\ ~Write(v) /\ ~WriteNote(v)
    <2>1. out' = out
      BY <1>11 DEF VisitorStep, Visit, EntryError, Get, OpenFails, Begin, Line, ContextLine, SearchFails,
                   SearchEnds, Finish, Put
    <2>2. \A f : Blocks(f)' = Blocks(f) /\ Notes(f)' = Notes(f) /\ (Unseen(f)' <=> Unseen(f))
      BY <2>1 DEF Blocks, Notes, Unseen
    <2>3. \A f \in Files : given'[f] = given[f] /\ (Shown(f)' <=> Shown(f))
      <3>1. \A f \in Files : given'[f] = given[f]
        BY <1>11, Records
      <3> QED
        BY <2>1, <2>2, <3>1 DEF Shown
    <2>4. \/ /\ pc[v] = "idle" /\ pc'[v] \in {"idle", "get"} /\ file'[v] \in todo
          \/ /\ pc[v] # "idle" /\ file'[v] = file[v]
             /\ (Early(v)' => Early(v)) /\ pc'[v] # "note"
      <3>1. CASE Visit(v)
        BY <3>1 DEF Visit, Types
      <3>2. CASE EntryError(v) \/ Get(v) \/ OpenFails(v) \/ Begin(v)
        BY <3>2 DEF EntryError, Get, OpenFails, Begin, Types
      <3>3. CASE Line(v) \/ ContextLine(v)
        BY <3>3 DEF Line, ContextLine, Types
      <3>4. CASE SearchFails(v) \/ SearchEnds(v) \/ Finish(v) \/ Put(v)
        BY <3>4 DEF SearchFails, SearchEnds, Finish, Put, Types
      <3> QED
        BY <1>11, <3>1, <3>2, <3>3, <3>4 DEF VisitorStep
    <2>5. pc[v] # "write" /\ pc'[v] # "write"
      <3>1. CASE Visit(v)
        BY <3>1 DEF Visit, Types
      <3>2. CASE EntryError(v) \/ Get(v) \/ OpenFails(v) \/ Begin(v)
        BY <3>2 DEF EntryError, Get, OpenFails, Begin, Types
      <3>3. CASE Line(v) \/ ContextLine(v)
        BY <3>3 DEF Line, ContextLine, Types
      <3>4. CASE SearchFails(v) \/ SearchEnds(v) \/ Finish(v) \/ Put(v)
        BY <1>11, <3>4 DEF SearchFails, SearchEnds, Finish, Put, Types, Finishes
      <3> QED
        BY <1>11, <3>1, <3>2, <3>3, <3>4 DEF VisitorStep
    <2>6. \A f \in Files : Alone(f)' => Alone(f)
      BY <1>1, <2>5
    <2>7. /\ Early(v)' => given'[file'[v]] = {}
          /\ Pending(v)' => Unseen(file[v])'
          /\ pc'[v] # "note"
      BY <1>2, <1>5, <1>6, <2>2, <2>3, <2>4, <2>5
    <2>8. \A u \in Visitors \ {v} :
              /\ Early(u)' => given'[file'[u]] = {}
              /\ Pending(u)' => Unseen(file[u])'
              /\ pc'[u] = "write" => given'[file'[u]] = Due(u)'
              /\ pc'[u] = "note" => Notes(file[u])' = {}
      <3>1. \A u \in Visitors \ {v} : pc[u] # "idle" => file[u] \in Files
        BY <1>2
      <3> HIDE DEF Early, Pending
      <3> QED
        BY <3>1, <1>12, <2>2, <2>3
    <2>9. \A f \in todo' : given'[f] = {} /\ Unseen(f)'
      BY <1>5, <1>6, <2>2, <2>3
    <2>10. \A f \in Files : (\A i, j \in Notes(f)' : i = j) /\ (Alone(f)' => Shown(f)')
      BY <1>5, <2>2, <2>3, <2>6
    <2> HIDE DEF Early, Pending, Alone
    <2> QED
      BY <1>5, <2>1, <2>5, <2>7, <2>8, <2>9, <2>10
  <1> QED
    BY <1>8, <1>9, <1>10, <1>11

-----------------------------------------------------------------------------
(* The theorems.                                                           *)

LEMMA StepEInv ==
    ASSUME EInv, HNext
    PROVE  EInv'
  <1> USE DEF EInv
  <1>1. GivenStep /\ LateStep
    BY DEF HNext, GivenStep, LateStep
  <1>2. ASSUME NEW v \in Visitors, VisitorStep(v) PROVE EInv'
    <2>1. exit' = exit /\ UNCHANGED <<mode, option, display>>
      BY <1>2, Separate
    <2>2. given' \in [Files -> SUBSET Seq(Text)] /\ late' \in [Visitors -> Nat] /\ Answered'
      BY <1>1, <1>2, Records, StepAnswered
    <2>3. Types'
      BY <1>2, <2>1, <2>2, StepTypes DEF Types
    <2>4. Over'
      BY <1>2, NotOver DEF Over
    <2> QED
      BY <1>1, <1>2, <2>2, <2>3, <2>4, StepOwned, StepFilled, StepRemembered, StepSeparators, StepWritten
  <1>3. ASSUME UNCHANGED <<config, todo, pc, visit, buf, found, dest, flags>>,
               quitting' \in BOOLEAN, pool' \subseteq pool, exit' \in {None, 0, 1, 2}, Over'
        PROVE  EInv'
    <2> USE DEF config, walk, visit, dest, flags
    <2>1. given' = given /\ late' = late
      BY <1>1, <1>3 DEF GivenStep, LateStep, Finishes, Opens, Types
    <2>2. Types'
      BY <1>3, <2>1 DEF Types
    <2>3. Owned' /\ Filled' /\ Remembered'
      BY <1>3 DEF Owned, Filled, Holds, Remembered, Signal, TellsNothing, TellsSome, Tells
    <2>4. SeparatorsRight' /\ Answered'
      BY <1>3, <2>1 DEF SeparatorsRight, Separators, Answered
    <2>5. \A f : (Unseen(f)' <=> Unseen(f)) /\ Notes(f)' = Notes(f) /\ (Shown(f)' <=> Shown(f))
      BY <1>3, <2>1 DEF Unseen, Blocks, Notes, Shown
    <2>6. Written'
      BY <1>3, <2>1, <2>5 DEF Written, Due, Owed
    <2> QED
      BY <1>3, <2>2, <2>3, <2>4, <2>6
  <1>4. CASE Forget
    <2>1. pool' \subseteq pool /\ exit' = exit /\ UNCHANGED <<config, walk, pc, visit, buf, found, dest, flags>>
      BY <1>4 DEF Forget
    <2>2. Over'
      BY <2>1 DEF Over, ExitCode, MatchFirst, config, walk, flags
    <2> QED
      BY <1>3, <2>1, <2>2 DEF Types, walk
  <1>5. CASE Exit
    <2>1. pool' = pool /\ UNCHANGED <<config, walk, pc, visit, buf, found, dest, flags>>
      BY <1>5 DEF Exit
    <2>2. exit' = ExitCode /\ ExitCode \in {0, 1, 2}
      BY <1>5 DEF Exit, ExitCode, MatchFirst
    <2>3. Over'
      BY <1>5, <2>1, <2>2 DEF Exit, Over, ExitCode, MatchFirst, config, walk, flags
    <2> QED
      BY <1>3, <2>1, <2>2, <2>3 DEF Types, walk
  <1>6. CASE Returned
    <2>1. pool' = pool /\ exit' = exit /\ UNCHANGED <<config, walk, pc, visit, buf, found, dest, flags>>
      BY <1>6 DEF Returned, vars
    <2>2. Over'
      BY <2>1 DEF Over, ExitCode, MatchFirst, config, walk, flags
    <2> QED
      BY <1>3, <2>1, <2>2 DEF Types, walk
  <1>7. CASE EndEarly
    <2>1. /\ pool' = pool /\ exit' = exit /\ UNCHANGED <<config, todo, pc, visit, buf, found, dest, flags>>
          /\ quitting' = TRUE
      BY <1>7 DEF EndEarly
    <2>2. Over'
      BY <2>1 DEF Over, ExitCode, MatchFirst, config, flags
    <2> QED
      BY <1>3, <2>1, <2>2 DEF Types
  <1> QED
    BY <1>2, <1>4, <1>5, <1>6, <1>7 DEF HNext, Next

LEMMA InitEInv ==
    ASSUME HInit
    PROVE  EInv
  <1> USE DEF HInit, Init
  <1>1. << >> \in Seq(Item) /\ << >> \in Seq(Text) /\ Len(<< >>) = 0
    OBVIOUS
  <1>2. Types
    BY <1>1 DEF Types, Phases, Displays
  <1>3. Owned /\ Filled /\ Remembered /\ Over /\ Answered
    BY <1>1 DEF Owned, Filled, Remembered, TellsNothing, Over, Answered, Holding, Phases
  <1>4. DOMAIN out = {}
    OBVIOUS
  <1>5. SeparatorsRight
    BY <1>4 DEF SeparatorsRight, Separators
  <1>6. \A f : Blocks(f) = {} /\ Notes(f) = {}
    BY <1>4 DEF Blocks, Notes
  <1>7. Written
    BY <1>1, <1>6 DEF Written, Unseen, Shown
  <1> QED
    BY <1>2, <1>3, <1>5, <1>7 DEF EInv

\* The inductive invariant: whose Worker and file each visitor has, what its Sink's buffer
\* holds, and what the output shows of each file.
THEOREM EngineInductive == HSpec => []EInv
  <1>1. HInit => EInv
    BY InitEInv
  <1>2. EInv /\ [HNext]_<<vars, given, late>> => EInv'
    <2>1. ASSUME EInv, UNCHANGED <<vars, given, late>> PROVE EInv'
      <3> USE <2>1 DEF vars, config, walk, visit, dest, flags
      <3>1. Types' /\ Owned' /\ Filled' /\ Remembered'
        BY DEF EInv, Types, Owned, Filled, Holds, Remembered, Signal, TellsNothing, TellsSome, Tells
      <3>2. SeparatorsRight' /\ Answered'
        BY DEF EInv, SeparatorsRight, Separators, Answered
      <3>3. Over'
        BY DEF EInv, Over, ExitCode, MatchFirst
      <3>4. \A f : (Unseen(f)' <=> Unseen(f)) /\ Notes(f)' = Notes(f) /\ (Shown(f)' <=> Shown(f))
        BY DEF Unseen, Blocks, Notes, Shown
      <3>5. Written'
        BY <3>4 DEF EInv, Written, Due, Owed
      <3> QED
        BY <3>1, <3>2, <3>3, <3>5 DEF EInv
    <2> QED
      BY <2>1, StepEInv
  <1> QED
    BY <1>1, <1>2, PTL DEF HSpec

\* Separators stand between two blocks and nowhere else, in whatever order the visitors
\* write to Dest, and where one is due it is there.
THEOREM SeparatorsBetween == HSpec => []SeparatorsRight
  <1>1. EInv => SeparatorsRight
    BY DEF EInv
  <1> QED
    BY <1>1, EngineInductive, PTL

\* The exit code says whether what was asked for was found and, but for -q, printed:
\* execute's flags agree with what the visitors wrote.  Output under exit code 1 is that of
\* --passthru or --include-zero, and tells of no match.
THEOREM ExitTellsTruth == HSpec => []ExitAgrees
  <1>1. EInv => ExitAgrees
    <2> SUFFICES ASSUME EInv PROVE ExitAgrees
      OBVIOUS
    <2>1. None \notin 0 .. 2
      BY NoneAssumption
    <2>2. ASSUME exit # None
          PROVE  /\ exit = 0 => found \/ TellsSome
                 /\ exit = 1 => ~found /\ TellsNothing /\ (out = << >> \/ option \in {"passthru", "zero"})
      <3>1. (\A v \in Visitors : pc[v] = "idle") /\ exit = ExitCode
        BY <2>2 DEF EInv, Over
      <3>2. /\ found => mode = "quiet"
            /\ mode = "quiet" => out = << >>
            /\ mode # "quiet" /\ ~anyMatched => TellsNothing
            /\ mode # "quiet" /\ ~anyMatched => out = << >> \/ option \in {"passthru", "zero"}
            /\ mode # "quiet" /\ anyMatched => TellsSome
        BY <3>1 DEF EInv, Remembered
      <3>3. CASE mode = "quiet"
        <4>1. out = << >> => TellsNothing
          BY DEF TellsNothing
        <4> QED
          BY <3>1, <3>2, <3>3, <4>1 DEF ExitCode, MatchFirst
      <3>4. CASE mode # "quiet"
        BY <3>1, <3>2, <3>4 DEF ExitCode, MatchFirst
      <3> QED
        BY <3>3, <3>4
    <2>3. DOMAIN out = 1 .. Len(out)
      BY DEF EInv, Types
    <2> QED
      BY <2>1, <2>2, <2>3 DEF ExitAgrees, TellsNothing, TellsSome
  <1> QED
    BY <1>1, EngineInductive, PTL

\* Under -q a visitor opens no more than the file it already had when the answer came.
THEOREM QuietAnswers == HSpec => []QuietStops
  <1>1. EInv => QuietStops
    <2> SUFFICES ASSUME EInv, NEW v \in Visitors PROVE late[v] <= 1
      BY DEF QuietStops
    <2>1. late[v] \in Nat /\ (late[v] > 0 => late[v] = 1)
      BY DEF EInv, Types, Answered
    <2> QED
      BY <2>1
  <1> QED
    BY <1>1, EngineInductive, PTL

\* Every file whose search came to its end has its lines in the output, as one block of
\* its own, once, whatever Workers the pool reuses and in whatever order the visits end.
THEOREM EveryFileOnce == HSpec => []NothingLost
  <1>1. EInv => NothingLost
    <2> SUFFICES ASSUME EInv PROVE NothingLost
      OBVIOUS
    <2>1. \A f \in Files : \A i \in Blocks(f) : \A j \in DOMAIN out[i].lines : out[i].lines[j].file = f
      <3> SUFFICES ASSUME NEW f \in Files, NEW i \in Blocks(f)
                   PROVE  \A j \in DOMAIN out[i].lines : out[i].lines[j].file = f
        OBVIOUS
      <3>1. out \in Seq(Item) /\ i \in 1 .. Len(out) /\ out[i].kind = "block" /\ out[i].file = f
        BY DEF EInv, Types, Blocks
      <3>2. out[i].lines \in Seq(Text)
        BY <3>1 DEF Item
      <3>3. \A j \in 1 .. Len(out[i].lines) : out[i].lines[j].file = f
        BY <3>1 DEF EInv, Written
      <3> QED
        BY <3>2, <3>3
    <2>2. ASSUME exit # None, NEW f \in Files
          PROVE  /\ Cardinality(Notes(f)) <= 1
                 /\ IF given[f] = {} THEN Blocks(f) = {}
                    ELSE \E i \in Blocks(f) : Blocks(f) = {i} /\ out[i].lines \in given[f]
      <3>1. \A v \in Visitors : pc[v] = "idle"
        BY <2>2 DEF EInv, Over
      <3>2. (\A i, j \in Notes(f) : i = j) /\ Shown(f)
        BY <2>2, <3>1 DEF EInv, Written
      <3>3. CASE Notes(f) = {}
        BY <3>2, <3>3, FS_EmptySet DEF Shown
      <3>4. CASE Notes(f) # {}
        <4>1. PICK i \in Notes(f) : Notes(f) = {i}
          BY <3>2, <3>4
        <4>2. Cardinality({i}) = 1
          BY FS_Singleton
        <4> QED
          BY <3>2, <4>1, <4>2 DEF Shown
      <3> QED
        BY <3>3, <3>4
    <2> QED
      BY <2>1, <2>2 DEF NothingLost
  <1> QED
    BY <1>1, EngineInductive, PTL
=============================================================================
