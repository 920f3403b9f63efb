-------------------------------- MODULE Engine --------------------------------
(***************************************************************************)
(* engine.Run and what stands around it: the goroutines of the walk call   *)
(* the visitor with one file after the other; each visit takes a Worker    *)
(* (Searcher and Sink) from the pool, searches, writes the file's block    *)
(* and perhaps a note about binary data to the shared Dest, and puts the   *)
(* Worker back.  Under -q all share one Quiet Sink that ends the walk.     *)
(* execute turns the result into the exit code.                            *)
(*                                                                         *)
(* The walk hands out a file at most once (see Walker).  What a search     *)
(* does with its lines is chosen freely within what MatchTracker allows: a *)
(* line may be withheld, a match that is has a note to announce it, and    *)
(* some options print what is no match.                                    *)
(***************************************************************************)
EXTENDS Integers, Sequences, FiniteSets, SequencesExt

CONSTANTS
    Visitors,      \* goroutines of the walk
    Files,         \* what the walk finds
    Workers,       \* Workers the pool may make
    MaxLines,      \* bound on the lines of a file that reach matchTracker
    None

ASSUME PoolAssumption == Cardinality(Workers) >= Cardinality(Visitors)
ASSUME NoneAssumption == None \notin Files \cup Workers \cup 0 .. 2

VARIABLES
    mode,          \* "standard", "summary" (-c, -l, ...) or "quiet"
    option,        \* what prints more than matches: --passthru in standard mode; in summary
                   \* mode "zero" (-c --include-zero) or "missing" (--files-without-match)
    display,       \* heading, ContextEnabled and GapSeparator
    todo,          \* files the walk has not handed out yet
    quitting,      \* the walk hands out no more: a visitor returned walk.Quit, or it ended early
    pc, file, worker,    \* of each visitor: where it is, its entry, its Worker
    hits, withheld,      \* matches in its file, and those not given to the Sink
    pool,          \* idle Workers
    buf,           \* buf[w]: the lines in its Sink's buffer, each with its file and kind
    found,         \* Quiet.found
    hasPrinted, out,     \* Dest and what was written through it
    anyMatched, anyError,
    exit           \* the exit code, None until execute returns

config == <<mode, option, display>>
walk   == <<todo, quitting>>
visit  == <<file, worker, hits, withheld>>
dest   == <<hasPrinted, out>>
flags  == <<anyMatched, anyError>>
vars == <<config, walk, pc, visit, pool, buf, found, dest, flags, exit>>

\* GapSeparator only shows in context mode without headings.
Displays ==
    {d \in [heading : BOOLEAN, context : BOOLEAN, gap : {"--", "custom", None}] :
        d.heading \/ ~d.context => d.gap = "--"}

Init ==
    /\ mode \in {"standard", "summary", "quiet"}
    /\ display \in Displays
    /\ option \in CASE mode = "standard" -> {"none", "passthru"}
                    [] mode = "summary"  -> {"none", "zero", "missing"}
                    [] mode = "quiet"    -> {"none"}
    /\ option = "passthru" => ~display.context
    /\ mode # "standard" => display = [heading |-> FALSE, context |-> FALSE, gap |-> "--"]
    /\ todo = Files /\ quitting = FALSE
    /\ pc = [v \in Visitors |-> "idle"]
    /\ file = [v \in Visitors |-> None] /\ worker = [v \in Visitors |-> None]
    /\ hits = [v \in Visitors |-> 0] /\ withheld = [v \in Visitors |-> 0]
    /\ pool = {} /\ buf = [w \in Workers |-> << >>]
    /\ found = FALSE /\ hasPrinted = FALSE /\ out = << >>
    /\ anyMatched = FALSE /\ anyError = FALSE
    /\ exit = None

Goto(v, label) == pc' = [pc EXCEPT ![v] = label]
Sink(v) == worker[v]

-----------------------------------------------------------------------------
(* The visitor, up to the search.                                          *)

VisitAlways(v) ==   \* mutant: does not ask Quiet.Found
    /\ pc[v] = "idle" /\ ~quitting
    /\ \E f \in todo :
        /\ todo' = todo \ {f}
        /\ file' = [file EXCEPT ![v] = f]
    /\ Goto(v, "get")
    /\ UNCHANGED <<config, quitting, worker, hits, withheld, pool, buf, found, dest, flags, exit>>

\* The walk calls the visitor, which gives up once -q has its answer.
Visit(v) ==
    /\ pc[v] = "idle" /\ ~quitting
    /\ \E f \in todo :
        /\ todo' = todo \ {f}
        /\ file' = [file EXCEPT ![v] = f]
    /\ IF mode = "quiet" /\ found
       THEN quitting' = TRUE /\ UNCHANGED pc
       ELSE Goto(v, "get") /\ UNCHANGED quitting
    /\ UNCHANGED <<config, worker, hits, withheld, pool, buf, found, dest, flags, exit>>

\* An entry with an error of its own is reported.
EntryError(v) ==
    /\ pc[v] = "get"
    /\ anyError' = TRUE
    /\ Goto(v, "idle")
    /\ UNCHANGED <<config, walk, visit, pool, buf, found, dest, anyMatched, exit>>

InUse == {worker[v] : v \in Visitors} \ {None}

\* pool.Get: an idle Worker, or a new one.
Get(v) ==
    /\ pc[v] = "get"
    /\ \E w \in pool \cup (Workers \ InUse) :
        /\ worker' = [worker EXCEPT ![v] = w]
        /\ buf' = IF w \in pool THEN buf ELSE [buf EXCEPT ![w] = << >>]
        /\ pool' = pool \ {w}
    /\ Goto(v, "open")
    /\ UNCHANGED <<config, walk, file, hits, withheld, found, dest, flags, exit>>

\* sync.Pool may let go of an idle Worker at any time.
Forget ==
    /\ \E w \in pool : pool' = pool \ {w}
    /\ UNCHANGED <<config, walk, pc, visit, buf, found, dest, flags, exit>>

OpenFails(v) ==
    /\ pc[v] = "open"
    /\ anyError' = TRUE
    /\ Goto(v, "put")
    /\ UNCHANGED <<config, walk, visit, pool, buf, found, dest, anyMatched, exit>>

ResetBuffer(v) == << >>

\* Sink.Begin: Quiet declines to search once it has found something.
Begin(v) ==
    /\ pc[v] = "open"
    /\ hits' = [hits EXCEPT ![v] = 0]
    /\ withheld' = [withheld EXCEPT ![v] = 0]
    /\ buf' = IF mode = "quiet" THEN buf ELSE [buf EXCEPT ![Sink(v)] = ResetBuffer(v)]
    /\ Goto(v, IF mode = "quiet" /\ found THEN "finish" ELSE "search")
    /\ UNCHANGED <<config, walk, file, worker, pool, found, dest, flags, exit>>

-----------------------------------------------------------------------------
(* The search and matchTracker.Finish.                                     *)

\* A line of the visitor's file, as the Sink formats it.
LineOf(v, kind) == [file |-> file[v], kind |-> kind]
Room(v) == Len(buf[Sink(v)]) + withheld[v] < MaxLines

\* A match reaches matchTracker; in standard mode it may be withheld.
Line(v) ==
    /\ pc[v] = "search" /\ Room(v)
    /\ hits' = [hits EXCEPT ![v] = @ + 1]
    /\ CASE mode = "quiet" ->
                found' = TRUE /\ Goto(v, "finish") /\ UNCHANGED <<buf, withheld>>
         [] mode = "summary" ->
                /\ buf' = [buf EXCEPT ![Sink(v)] = Append(@, LineOf(v, "match"))]
                /\ UNCHANGED <<found, withheld, pc>>
         [] mode = "standard" ->
                /\ \/ buf' = [buf EXCEPT ![Sink(v)] = Append(@, LineOf(v, "match"))] /\ UNCHANGED withheld
                   \/ withheld' = [withheld EXCEPT ![v] = @ + 1] /\ UNCHANGED buf
                /\ UNCHANGED <<found, pc>>
    /\ UNCHANGED <<config, walk, file, worker, pool, dest, flags, exit>>

\* A line that is no match: with --passthru any line, else one next to a match.  One that
\* is withheld leaves nothing behind.
ContextLine(v) ==
    /\ pc[v] = "search" /\ mode = "standard" /\ Room(v)
    /\ option = "passthru" \/ (display.context /\ hits[v] > 0)
    /\ buf' = [buf EXCEPT ![Sink(v)] = Append(@, LineOf(v, "context"))]
    /\ UNCHANGED <<config, walk, pc, visit, pool, found, dest, flags, exit>>

SearchFails(v) ==
    /\ pc[v] = "search"
    /\ anyError' = TRUE
    /\ Goto(v, "put")
    /\ UNCHANGED <<config, walk, visit, pool, buf, found, dest, anyMatched, exit>>

SearchEnds(v) ==
    /\ pc[v] = "search"
    /\ Goto(v, "finish")
    /\ UNCHANGED <<config, walk, visit, pool, buf, found, dest, flags, exit>>

FinishSilently(v) ==   \* mutant: no signal for the exit code
    /\ pc[v] = "finish"
    /\ Goto(v, "write")
    /\ UNCHANGED <<config, walk, visit, pool, buf, found, dest, flags, exit>>

\* matchSignal: --files-without-match counts the files that have no match.
Signal(v) == IF option = "missing" THEN hits[v] = 0 ELSE hits[v] > 0

\* matchTracker.Finish raises the signal; all but standard mode drop
\* a file that binary-quit ended.
Finish(v) ==
    /\ pc[v] = "finish"
    /\ \/ /\ anyMatched' = (anyMatched \/ Signal(v))
          /\ Goto(v, "write")
       \/ /\ mode # "standard"
          /\ Goto(v, "put")
          /\ UNCHANGED anyMatched
    /\ UNCHANGED <<config, walk, visit, pool, buf, found, dest, anyError, exit>>

-----------------------------------------------------------------------------
(* Dest.                                                                   *)

Separator(text) == <<[kind |-> "separator", text |-> text]>>

\* interFileSeparator
FileSeparator ==
    CASE display.heading -> Separator("blank")
      [] ~display.heading /\ display.context /\ display.gap # None -> Separator(display.gap)
      [] OTHER -> << >>

\* binarySeparator
NoteSeparator ==
    CASE display.heading -> Separator("blank")
      [] ~display.heading /\ display.context -> Separator("--")
      [] OTHER -> << >>

PrintedNothing(block) == FALSE   \* mutant: hasPrinted is never set

Printed(block) == hasPrinted \/ block # << >>

\* WriteBlock and Write, under Dest's mutex; an empty block is skipped, and Write neither
\* separates blocks nor remembers them.
WriteBlock(block, separator) ==
    /\ out' = IF block = << >> THEN out
              ELSE out \o (IF hasPrinted THEN separator ELSE << >>) \o block
    /\ hasPrinted' = Printed(block)

WriteOnly(block) == out' = out \o block /\ UNCHANGED hasPrinted

\* What the Sink writes at the end of file f.
Block(f, lines) ==
    IF \/ option = "missing" /\ lines # << >>
       \/ option \in {"none", "passthru"} /\ lines = << >>
    THEN << >>
    ELSE <<[kind |-> "block", file |-> f, lines |-> lines]>>
Note(f) == <<[kind |-> "note", file |-> f]>>

WriteSink(v) ==
    CASE mode = "quiet"    -> UNCHANGED dest
      [] mode = "summary"  -> WriteOnly(Block(file[v], buf[Sink(v)]))
      [] mode = "standard" -> WriteBlock(Block(file[v], buf[Sink(v)]), FileSeparator)

WriteUnlessNoted(v) ==   \* mutant: with a note to write, Sink.Finish is not called
    /\ pc[v] = "write"
    /\ \/ mode = "standard" /\ hits[v] > 0 /\ Goto(v, "note") /\ UNCHANGED dest
       \/ withheld[v] = 0 /\ Goto(v, "put") /\ WriteSink(v)
    /\ UNCHANGED <<config, walk, visit, pool, buf, found, flags, exit>>

\* Sink.Finish writes the block.  A note follows where lines were withheld, or where
\* binary-quit ended the search of a file with matches.
Write(v) ==
    /\ pc[v] = "write"
    /\ WriteSink(v)
    /\ \/ mode = "standard" /\ hits[v] > 0 /\ Goto(v, "note")
       \/ withheld[v] = 0 /\ Goto(v, "put")
    /\ UNCHANGED <<config, walk, visit, pool, buf, found, flags, exit>>

WriteNote(v) ==
    /\ pc[v] = "note"
    /\ WriteBlock(Note(file[v]), NoteSeparator)
    /\ Goto(v, "put")
    /\ UNCHANGED <<config, walk, visit, pool, buf, found, flags, exit>>

\* pool.Put, deferred to the end of the visit.
Put(v) ==
    /\ pc[v] = "put"
    /\ pool' = pool \cup {worker[v]}
    /\ worker' = [worker EXCEPT ![v] = None]
    /\ Goto(v, "idle")
    /\ UNCHANGED <<config, walk, file, hits, withheld, buf, found, dest, flags, exit>>

-----------------------------------------------------------------------------
(* execute.                                                                *)

MatchFirst(matched) == IF matched THEN 0 ELSE IF anyError THEN 2 ELSE 1

\* Under -q a match settles it; otherwise an error outweighs the matches.
ExitCode ==
    IF mode = "quiet" THEN MatchFirst(found)
    ELSE IF anyError THEN 2 ELSE MatchFirst(anyMatched)

Exit ==
    /\ exit = None
    /\ \A v \in Visitors : pc[v] = "idle"
    /\ todo = {} \/ quitting
    /\ exit' = ExitCode
    /\ UNCHANGED <<config, walk, pc, visit, pool, buf, found, dest, flags>>

\* With several goroutines the walk may come to its end while files are left
\* (see NothingLost in WalkerProps).
EndEarly ==
    /\ Cardinality(Visitors) > 1 /\ todo # {} /\ ~quitting
    /\ quitting' = TRUE
    /\ UNCHANGED <<config, todo, pc, visit, pool, buf, found, dest, flags, exit>>

VisitorStep(v) ==
    \/ Visit(v) \/ EntryError(v) \/ Get(v) \/ OpenFails(v) \/ Begin(v)
    \/ Line(v) \/ ContextLine(v) \/ SearchFails(v) \/ SearchEnds(v) \/ Finish(v)
    \/ Write(v) \/ WriteNote(v) \/ Put(v)

Returned == exit # None /\ UNCHANGED vars

Next == (\E v \in Visitors : VisitorStep(v)) \/ Forget \/ EndEarly \/ Exit \/ Returned

Spec == Init /\ [][Next]_vars
=============================================================================
