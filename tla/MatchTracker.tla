----------------------------- MODULE MatchTracker -----------------------------
(***************************************************************************)
(* The search of one file as internal/engine drives it: Search (streamed)  *)
(* or SearchBytes (mapped) detect binary data, matchTracker stands between *)
(* the Searcher and the Sink and decides what becomes of a binary file,    *)
(* and the Sinks of printer/ and cmd/gg write their block at Finish.       *)
(*                                                                         *)
(* Every line has two bytes, line i the bytes 2 * i - 2 and 2 * i - 1, one *)
(* of which may be a NUL; a read may end anywhere.  Whether a line is a    *)
(* match or context is Searcher's concern and given here.  A streamed file *)
(* under convert has its NULs at the ends of lines, because replaceNUL     *)
(* makes them so.                                                          *)
(***************************************************************************)
EXTENDS Integers, Sequences, FiniteSets, FiniteSetsExt, SequencesExt

CONSTANTS
    MaxLines,      \* bound on the file
    Prefix         \* DefaultBufferSize

ASSUME TrackerBounds == MaxLines \in Nat /\ Prefix \in Nat

None == -1
Line == [kind : {"match", "context", "none"}, nul : {None, 0, 1}]
Sinks == {"standard", "count", "zeros", "list", "without", "json", "discard"}   \* zeros: IncludeZero

VARIABLES
    file, mode, mapped,  \* the input, the BinaryMode, the way it is read
    sink, stats,         \* which Sink wraps the search, and --stats
    passThru,            \* --passthru but -m 0: every line that is no match is context
    taken,               \* bytes read
    readable,            \* lines the windows have shown matchByLine so far
    delivered,           \* lines it went through
    binaryOffset,        \* the Searcher's, None until detected
    foundBinary,         \* matchTracker.foundBinaryOffset
    accepted,            \* what the Sink was given
    matchCount,          \* the Searcher's
    counted, filesSearched,   \* this file's part of the StatsAccumulator
    matched,             \* its part of Result.Matched
    output,              \* the writes to Dest, in order
    phase

input == <<file, mode, mapped, sink, stats, passThru>>
scan  == <<taken, readable, delivered, binaryOffset>>
tracker == <<foundBinary, accepted, matchCount, counted>>
result == <<filesSearched, matched, output>>
vars == <<input, scan, tracker, result, phase>>

Offset(i) == 2 * i - 2
Size == 2 * Len(file)

\* The end of a line; binary-quit cuts the last one off where the reads ended.
LineEnd(i) == Min({2 * i, taken})

NulAt(i) == Offset(i) + file[i].nul
Nuls(from, to) ==
    {NulAt(i) : i \in {j \in DOMAIN file : file[j].nul # None /\ NulAt(j) \in from .. to - 1}}

\* Lines i and j belong together: only context lies between them.
Joined(i, j) == \A l \in i + 1 .. j - 1 : file[l].kind = "context"
IsMatch(i) == file[i].kind = "match"
AfterMatch(i) == \E m \in 1 .. i - 1 : IsMatch(m) /\ Joined(m, i)

Init ==
    /\ file \in BoundedSeq(Line, MaxLines)
    /\ passThru \in BOOLEAN
    /\ passThru => \A i \in DOMAIN file : file[i].kind # "none"
    /\ ~passThru => \A i \in DOMAIN file : file[i].kind = "context" =>
          AfterMatch(i) \/ \E m \in i + 1 .. Len(file) : IsMatch(m) /\ Joined(i, m)
    /\ mode \in {"none", "quit", "convert"}
    /\ mapped \in BOOLEAN
    /\ sink \in Sinks /\ stats \in BOOLEAN
    /\ ~mapped /\ mode = "convert" => \A i \in DOMAIN file : file[i].nul # 0
    /\ sink = "json" => ~stats
    /\ sink = "discard" => stats
    /\ taken = 0 /\ readable = 0 /\ delivered = 0
    /\ binaryOffset = None /\ foundBinary = None
    /\ accepted = << >> /\ matchCount = 0 /\ counted = 0
    /\ filesSearched = 0 /\ matched = FALSE /\ output = << >>
    /\ phase = "read"

-----------------------------------------------------------------------------
(* The Searcher.                                                           *)

\* The Searcher's first NUL.
Detect(from, to) ==
    IF mode = "none" \/ binaryOffset # None \/ Nuls(from, to) = {} THEN binaryOffset
    ELSE Min(Nuls(from, to))

\* SearchBytes looks at the prefix only; under quit a NUL there ends the search.
Map ==
    /\ phase = "read" /\ mapped
    /\ taken' = Size
    /\ binaryOffset' = Detect(0, Min({Prefix, Size}))
    /\ readable' = IF mode = "quit" /\ binaryOffset' # None THEN 0 ELSE Len(file)
    /\ phase' = "scan"
    /\ UNCHANGED <<input, delivered, tracker, result>>

\* fill reads on until it has a line: what came with a NUL is dropped under quit,
\* and what was left over before it counts as a line.
Read ==
    /\ phase = "read" /\ ~mapped
    /\ \E n \in 1 .. Size - taken :
        /\ binaryOffset' = Detect(taken, taken + n)
        /\ IF mode = "quit" /\ binaryOffset' # None
           THEN /\ readable' = (taken + 1) \div 2
                /\ phase' = "scan"
                /\ UNCHANGED taken
           ELSE /\ taken' = taken + n
                /\ readable' = (taken + n) \div 2
                /\ phase' = IF readable' > readable THEN "scan" ELSE "read"
    /\ UNCHANGED <<input, delivered, tracker, result>>

ReadFails ==
    /\ phase = "read" /\ ~mapped
    /\ phase' = "failed"
    /\ UNCHANGED <<input, scan, tracker, result>>

\* Context before a match is held back until its match has been found.
HeldBack(i) ==
    /\ ~passThru /\ file[i].kind = "context" /\ ~AfterMatch(i)
    /\ ~\E m \in i + 1 .. readable : IsMatch(m) /\ Joined(i, m)

\* The next line for matchByLine, if the window has one.
NextLine == {i \in delivered + 1 .. readable : i = delivered + 1 /\ ~HeldBack(i)}

\* A window is exhausted, or the file, or binary-quit ended the reading.
EndOfWindow ==
    /\ \/ phase = "scan" /\ NextLine = {}
       \/ phase = "read" /\ ~mapped /\ taken = Size
    /\ phase' = IF mapped \/ taken = Size \/ (mode = "quit" /\ binaryOffset # None)
                THEN "finish" ELSE "read"
    /\ UNCHANGED <<input, scan, tracker, result>>

-----------------------------------------------------------------------------
(* matchTracker.Matched and Context.                                       *)

Effective(found) == IF binaryOffset # None THEN binaryOffset ELSE found

\* statsBinaryTruncated
Truncated(i) ==
    mode # "none" /\ Effective(foundBinary) # None /\ Offset(i) >= Effective(foundBinary)

\* noteLineNUL: a mapped line's own NUL, beyond the prefix that was searched for one.
NoteLineNUL(i) ==
    IF /\ sink = "standard" /\ mode = "convert" /\ foundBinary = None /\ binaryOffset = None
       /\ mapped /\ file[i].nul # None
    THEN NulAt(i) ELSE foundBinary

SuppressAll(i, found) ==   \* mutant: without the test of the line's position
    sink = "standard" /\ mode = "convert" /\ Effective(found) # None

SuppressBehind(i, found) ==   \* mutant: without the test of the prefix
    sink = "standard" /\ mode = "convert" /\ Effective(found) # None /\ LineEnd(i) > Effective(found)

\* binaryConvertSuppressed
Suppressed(i, found) ==
    LET off == Effective(found) IN
    sink = "standard" /\ mode = "convert" /\ off # None /\ (off < Prefix \/ LineEnd(i) > off)

\* The Sink's own answer: the path modes stop at the first match.
SinkMore == sink \notin {"list", "without"}

KeepGiven(more) == more   \* mutant: --stats does not keep the search going

KeepSearching(more) == stats \/ more

SkipLine ==
    /\ phase = "scan"
    /\ \E i \in NextLine : file[i].kind = "none" /\ delivered' = i
    /\ UNCHANGED <<input, taken, readable, binaryOffset, tracker, result, phase>>

\* A line goes to the Sink, or is withheld from it.
Offer(i) ==
    /\ foundBinary' = NoteLineNUL(i)
    /\ accepted' = IF Suppressed(i, foundBinary') THEN accepted ELSE Append(accepted, i)

Matched ==
    /\ phase = "scan"
    /\ \E i \in NextLine :
        /\ file[i].kind = "match"
        /\ delivered' = i
        /\ matchCount' = matchCount + 1
        /\ counted' = IF stats /\ ~Truncated(i) THEN counted + 1 ELSE counted
        /\ Offer(i)
        /\ phase' = IF KeepSearching(Suppressed(i, foundBinary') \/ SinkMore)
                    THEN "scan" ELSE "finish"
    /\ UNCHANGED <<input, taken, readable, binaryOffset, result>>

Context ==
    /\ phase = "scan"
    /\ \E i \in NextLine : file[i].kind = "context" /\ delivered' = i /\ Offer(i)
    /\ UNCHANGED <<input, taken, readable, binaryOffset, matchCount, counted, result, phase>>

-----------------------------------------------------------------------------
(* matchTracker.Finish.                                                    *)

Binary == binaryOffset # None

\* -c, -l and the like say nothing of a file that binary-quit ended.
Dropped == mode = "quit" /\ Binary /\ sink \notin {"standard", "json"}

SignalPlain == matchCount > 0   \* mutant: as if the Sink printed matching files

Signal == IF sink = "without" THEN matchCount = 0 ELSE matchCount > 0

SinkHits == {i \in ToSet(accepted) : file[i].kind = "match"}

\* What the Sink's Finish writes.
Block ==
    CASE sink \in {"standard", "json"} ->
            IF accepted = << >> THEN << >> ELSE IF SinkHits = {} THEN <<"context">> ELSE <<"lines">>
      [] sink = "count" -> IF SinkHits = {} THEN << >> ELSE <<"count">>
      [] sink = "zeros" -> IF SinkHits = {} THEN <<"zero">> ELSE <<"count">>
      [] sink = "list" -> IF SinkHits = {} THEN << >> ELSE <<"path">>
      [] sink = "without" -> IF SinkHits = {} THEN <<"path">> ELSE << >>
      [] sink = "discard" -> << >>

SilentNote == << >>   \* mutant: no message

\* The second write of a binary file with matches, in standard mode only.
BinaryNote ==
    IF sink # "standard" \/ matchCount = 0 THEN << >>
    ELSE CASE mode = "quit" /\ Binary -> <<"warning">>
           [] mode = "convert" /\ Effective(foundBinary) # None -> <<"message">>
           [] OTHER -> << >>

Finish ==
    /\ phase = "finish"
    /\ filesSearched' = IF stats THEN filesSearched + 1 ELSE filesSearched
    /\ IF Dropped
       THEN phase' = "done" /\ UNCHANGED <<matched, output>>
       ELSE /\ matched' = Signal
            /\ output' = Block
            /\ phase' = IF BinaryNote # << >> THEN "note" ELSE "done"
    /\ UNCHANGED <<input, scan, tracker>>

WriteNote ==
    /\ phase = "note"
    /\ output' = output \o BinaryNote
    /\ phase' = "done"
    /\ UNCHANGED <<input, scan, tracker, filesSearched, matched>>

\* A write fails: nothing more of this file is written.
WriteFails ==
    /\ phase = "note" \/ (phase = "finish" /\ ~Dropped /\ Block # << >>)
    /\ matched' = IF phase = "finish" THEN Signal ELSE matched
    /\ filesSearched' = IF phase = "finish" /\ stats THEN filesSearched + 1 ELSE filesSearched
    /\ phase' = "failed"
    /\ UNCHANGED <<input, scan, tracker, output>>

Step ==
    \/ Map \/ Read \/ ReadFails \/ EndOfWindow
    \/ SkipLine \/ Matched \/ Context
    \/ Finish \/ WriteNote \/ WriteFails

Returned == phase \in {"done", "failed"} /\ UNCHANGED vars

Next == Step \/ Returned

Spec == Init /\ [][Next]_vars /\ WF_vars(Step)
=============================================================================
