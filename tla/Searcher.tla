------------------------------- MODULE Searcher -------------------------------
(***************************************************************************)
(* The line scanner: package search, files core.go and search.go.  A file  *)
(* is scanned window by window; each window holds complete lines only (see *)
(* LineBuffer), and how many lines a read completes is up to the reader.   *)
(* A position is a number of lines, relative to the window like the code's *)
(* offsets in its buffer; the byte-level helpers (lineLocate,              *)
(* withoutTerminator) are in Matching.                                     *)
(*                                                                         *)
(* A line is TRUE when Matcher.Verify accepts it.  FindCandidate may offer *)
(* other lines first, which findByLineFast rejects without a trace.        *)
(***************************************************************************)
EXTENDS Integers, Sequences

CONSTANTS
    MaxLines,    \* bound on the file
    MaxCtx,      \* bound on -A and -B
    MaxLimit,    \* bound on -m
    NoLimit      \* a nil MaxCount

ASSUME BoundsAssumption == MaxLines \in Nat /\ MaxCtx \in Nat /\ MaxLimit \in Nat
ASSUME NoLimitAssumption == NoLimit \notin Nat

\* The Searcher's fields.  whole is SearchBytes (one window, no reads); fast is
\* Matcher.NonMatchingLineTerm(); the CLI keeps passthru and contexts apart.
Configs ==
    {c \in [invert : BOOLEAN, fast : BOOLEAN, passThru : BOOLEAN, whole : BOOLEAN,
            before : 0 .. MaxCtx, after : 0 .. MaxCtx,
            maxCount : (0 .. MaxLimit) \cup {NoLimit}] :
        c.passThru => c.before = 0 /\ c.after = 0}

VARIABLES
    config, file,        \* the inputs
    consumed,            \* absOffsetBase: lines before the window
    window,              \* lines in the window: len(buf)
    pos,                 \* s.pos
    lineNumber,          \* s.lineNumber
    lastLineCounted,     \* s.lastLineCounted
    lastLineVisited,     \* s.lastLineVisited
    afterContextLeft,    \* s.afterContextLeft
    hasMatched,          \* s.hasMatched
    matchCount,          \* s.matchCount
    matchLimitReached,   \* s.matchLimitReached
    pc,                  \* where the scan is
    gap,                 \* the lines found to match and not sunk yet
    events,              \* what the Sink received, in order
    stopped,             \* the Sink answered more = false
    stats                \* what Finish was given; << >> before it is called

inputs   == <<config, file>>
lines    == <<consumed, window>>
marks    == <<lineNumber, lastLineCounted, lastLineVisited>>
counters == <<hasMatched, matchCount, matchLimitReached>>
output   == <<events, stopped>>
vars == <<inputs, lines, pos, marks, afterContextLeft, counters, pc, gap, output, stats>>

Larger(a, b) == IF a > b THEN a ELSE b
IsFastPath == config.fast /\ ~config.passThru
MaxContext == Larger(config.before, config.after)
Limited(count) == config.maxCount # NoLimit /\ count >= config.maxCount
LimitAtStart == Limited(0)
Verify(i) == file[consumed + i + 1]
NoGap == [from |-> 0, to |-> 0]

\* The Searcher's state as resetRun and runChunk leave it, before Sink.Begin.
Init ==
    /\ config \in Configs
    /\ file \in UNION {[1 .. n -> BOOLEAN] : n \in 0 .. MaxLines}
    /\ consumed = 0
    /\ window = IF config.whole THEN Len(file) ELSE 0
    /\ pos = 0
    /\ lineNumber = 1
    /\ lastLineCounted = 0
    /\ lastLineVisited = 0
    /\ afterContextLeft = 0
    /\ hasMatched = FALSE
    /\ matchCount = 0
    /\ matchLimitReached = LimitAtStart
    /\ pc = "begin"
    /\ gap = NoGap
    /\ events = << >>
    /\ stopped = FALSE
    /\ stats = << >>

\* Search and SearchBytes ask the Sink first; it may decline the path or fail.
Begin ==
    /\ pc = "begin"
    /\ \/ pc' = (IF ~config.whole THEN "fill" ELSE IF file = << >> THEN "finish" ELSE "scan")
          /\ UNCHANGED stopped
       \/ pc' = "declined" /\ stopped' = TRUE
       \/ pc' = "failed" /\ UNCHANGED stopped
    /\ UNCHANGED <<inputs, lines, pos, marks, afterContextLeft, counters, gap, events, stats>>

-----------------------------------------------------------------------------
(* Search: rollConsume, consume and fill; then matchByLine.                *)

\* rollConsume keeps what the next window may need as before-context, unless
\* it was sunk already.
Rolled ==
    IF MaxContext = 0 THEN window
    ELSE Larger(Larger(window - 1 - config.before, 0), lastLineVisited)

\* countLines is lazy and never goes back.
CountLines(upto) ==
    /\ lineNumber' = lineNumber + Larger(upto - lastLineCounted, 0)
    /\ lastLineCounted' = Larger(upto, lastLineCounted)

\* rollConsume's effect on the scan state.
RollConsume ==
    /\ lineNumber' = lineNumber + Larger(Rolled - lastLineCounted, 0)
    /\ lastLineCounted' = 0
    /\ lastLineVisited' = 0
    /\ pos' = window - Rolled

NeverStalled(n) == FALSE   \* mutant

\* Neither consume nor fill changed anything: what is left is only context.
Stalled(n) == Rolled = 0 /\ n = 0

\* One turn of Search's loop before matchByLine: n more lines are complete, none
\* only at the end of the file.  Without any progress the rest is given up.
Fill ==
    /\ pc = "fill"
    /\ RollConsume
    /\ \E n \in 0 .. Len(file) - consumed - window :
        /\ n = 0 => consumed + window = Len(file)
        /\ IF Stalled(n)
           THEN consumed' = consumed + window /\ window' = 0
           ELSE consumed' = consumed + Rolled /\ window' = window - Rolled + n
    /\ pc' = IF window' = 0 THEN "finish" ELSE "scan"
    /\ UNCHANGED <<inputs, afterContextLeft, counters, gap, output, stats>>

\* A read fails: Search returns the error at once, without Finish.
ReadFails ==
    /\ pc = "fill"
    /\ RollConsume
    /\ consumed' = consumed + Rolled
    /\ window' = window - Rolled
    /\ pc' = "failed"
    /\ UNCHANGED <<inputs, afterContextLeft, counters, gap, output, stats>>

EndOfWindow == IF config.whole THEN "finish" ELSE "fill"

-----------------------------------------------------------------------------
(* sinkMatched and sinkContext: line i of the window goes to the Sink.     *)

Answers == {"more", "stop", "error"}

\* Only after "more" has the line been visited and the scan goes on at label.
Sink(kind, i, answer, label) ==
    /\ CountLines(i)
    /\ events' = Append(events, [kind |-> kind, line |-> consumed + i + 1,
                                 number |-> lineNumber'])
    /\ lastLineVisited' = IF answer = "more" THEN i + 1 ELSE lastLineVisited
    /\ stopped' = (answer = "stop")
    /\ pc' = CASE answer = "more" -> label
               [] answer = "stop" -> "quit"
               [] answer = "error" -> "failed"

NothingSunk(label) == pc' = label /\ UNCHANGED <<marks, output>>

\* afterContextByLine's loop: one owed line below upto.
SinkAfter(answer, label) ==
    /\ Sink("after", lastLineVisited, answer, label)
    /\ afterContextLeft' = IF answer = "more" THEN afterContextLeft - 1
                                              ELSE afterContextLeft

\* Before the gap: after-context owed to an earlier match (fast path only).
AfterContextByLine ==
    /\ pc = "after"
    /\ \/ /\ afterContextLeft > 0 /\ lastLineVisited < gap.from
          /\ \E answer \in Answers : SinkAfter(answer, "after")
       \/ /\ afterContextLeft = 0 \/ lastLineVisited >= gap.from
          /\ NothingSunk("before")
          /\ UNCHANGED afterContextLeft
    /\ UNCHANGED <<inputs, lines, pos, counters, gap, stats>>

\* beforeContextByLine's next line: at most BeforeContext lines, none twice.
BeforeStart == Larger(lastLineVisited, gap.from - config.before)

BeforeContextByLine ==
    /\ pc = "before"
    /\ \/ /\ BeforeStart < gap.from
          /\ \E answer \in Answers : Sink("before", BeforeStart, answer, "before")
       \/ /\ BeforeStart >= gap.from
          /\ NothingSunk("match")
    /\ UNCHANGED <<inputs, lines, pos, afterContextLeft, counters, gap, stats>>

-----------------------------------------------------------------------------
(* matchByLineSlow.                                                        *)

SlowTailAtOnce(limit, owed) == IF limit THEN "quit" ELSE "scan"   \* mutant

\* The bottom of the loop: the limit is reached and nothing is owed any more.
SlowTail(limit, owed) ==
    IF limit /\ owed = 0 /\ (~config.passThru \/ LimitAtStart) THEN "quit" ELSE "scan"

\* Whether the line at pos counts as a match; -m interacts with passthru.
Success ==
    IF config.passThru /\ matchLimitReached
    THEN config.invert /\ ~LimitAtStart
    ELSE (Verify(pos) # config.invert) /\ ~matchLimitReached

SlowLine ==
    /\ pc = "scan" /\ ~IsFastPath /\ pos < window
    /\ pos' = pos + 1
    /\ \/ /\ Success
          /\ hasMatched' = TRUE
          /\ matchCount' = matchCount + 1
          /\ gap' = [from |-> pos, to |-> pos + 1]
          /\ NothingSunk("before")
          /\ UNCHANGED <<matchLimitReached, afterContextLeft>>
       \/ /\ ~Success /\ afterContextLeft > 0
          /\ \E answer \in Answers :
                /\ Sink("after", pos, answer, SlowTail(matchLimitReached, afterContextLeft - 1))
                /\ afterContextLeft' = IF answer = "more" THEN afterContextLeft - 1
                                                          ELSE afterContextLeft
          /\ UNCHANGED <<counters, gap>>
       \/ /\ ~Success /\ afterContextLeft = 0 /\ config.passThru /\ ~LimitAtStart
          /\ \E answer \in Answers :
                Sink("before", pos, answer, SlowTail(matchLimitReached, afterContextLeft))
          /\ UNCHANGED <<counters, gap, afterContextLeft>>
       \/ /\ ~Success /\ afterContextLeft = 0 /\ ~(config.passThru /\ ~LimitAtStart)
          /\ NothingSunk(SlowTail(matchLimitReached, afterContextLeft))
          /\ UNCHANGED <<counters, gap, afterContextLeft>>
    /\ UNCHANGED <<inputs, lines, stats>>

SlowEnd ==
    /\ pc = "scan" /\ ~IsFastPath /\ pos >= window
    /\ NothingSunk(EndOfWindow)
    /\ UNCHANGED <<inputs, lines, pos, afterContextLeft, counters, gap, stats>>

-----------------------------------------------------------------------------
(* matchByLineFast and matchByLineFastInvert.                              *)

Hits == {i \in pos .. window - 1 : Verify(i)}
FirstHit == CHOOSE i \in Hits : \A j \in Hits : i <= j

\* findByLineFast found a line; with -v it ends the gap of lines to report.
FastFind ==
    /\ pc = "scan" /\ IsFastPath /\ pos < window /\ ~matchLimitReached
    /\ \/ /\ ~config.invert /\ Hits # {}
          /\ gap' = [from |-> FirstHit, to |-> FirstHit + 1]
          /\ matchCount' = matchCount + 1
          /\ UNCHANGED pos
       \/ /\ config.invert /\ Hits # {}
          /\ gap' = [from |-> pos, to |-> FirstHit]
          /\ pos' = FirstHit + 1
          /\ UNCHANGED matchCount
       \/ /\ config.invert /\ Hits = {}
          /\ gap' = [from |-> pos, to |-> window]
          /\ pos' = window
          /\ UNCHANGED matchCount
    /\ hasMatched' = (hasMatched \/ gap'.from < gap'.to)
    /\ NothingSunk(IF gap'.from < gap'.to THEN "after" ELSE "scan")
    /\ UNCHANGED <<inputs, lines, afterContextLeft, matchLimitReached, stats>>

FastEnd ==
    /\ pc = "scan" /\ IsFastPath
    /\ pos >= window \/ matchLimitReached \/ (~config.invert /\ Hits = {})
    /\ NothingSunk("drain")
    /\ UNCHANGED <<inputs, lines, pos, afterContextLeft, counters, gap, stats>>

\* The rest of the window: after-context still owed, whatever the limit says.
Drain ==
    /\ pc = "drain"
    /\ \/ /\ afterContextLeft > 0 /\ lastLineVisited < window
          /\ \E answer \in Answers : SinkAfter(answer, "drain")
          /\ UNCHANGED pos
       \/ /\ afterContextLeft = 0 \/ lastLineVisited >= window
          /\ pos' = window
          /\ NothingSunk(IF matchLimitReached /\ afterContextLeft = 0
                         THEN "quit" ELSE EndOfWindow)
          /\ UNCHANGED afterContextLeft
    /\ UNCHANGED <<inputs, lines, counters, gap, stats>>

-----------------------------------------------------------------------------
(* The lines of the gap are sunk one by one.                               *)

\* matchCount includes line i already, except in the -v loop of the fast path.
Counted == IF IsFastPath /\ config.invert THEN matchCount + 1 ELSE matchCount

SinkGap ==
    /\ pc = "match" /\ gap.from < gap.to
    /\ \E answer \in Answers :
        /\ matchCount' = Counted
        /\ matchLimitReached' = (matchLimitReached \/ (answer = "more" /\ Limited(Counted)))
        /\ afterContextLeft' = IF answer = "more" THEN config.after ELSE afterContextLeft
        /\ gap' = [gap EXCEPT !.from = @ + 1]
        /\ pos' = Larger(pos, gap.from + 1)
        /\ Sink("match", gap.from, answer,
                IF ~IsFastPath THEN SlowTail(matchLimitReached', config.after)
                ELSE IF gap'.from < gap.to /\ ~matchLimitReached' THEN "match" ELSE "scan")
    /\ UNCHANGED <<inputs, lines, hasMatched, stats>>

\* Finish gets the statistics; scanStop first consumes up to s.pos.
Finish ==
    /\ pc \in {"finish", "quit", "declined"}
    /\ stats' = [matched |-> hasMatched, matchCount |-> matchCount,
                 searched |-> IF pc = "declined" THEN 0
                              ELSE IF config.whole THEN Len(file)
                              ELSE IF pc = "quit" THEN consumed + pos ELSE consumed]
    /\ pc' = "done"
    /\ UNCHANGED <<inputs, lines, pos, marks, afterContextLeft, counters, gap, output>>

Returned == pc \in {"done", "failed"} /\ UNCHANGED vars

Step == \/ Begin \/ Fill \/ ReadFails \/ SlowLine \/ SlowEnd \/ FastFind \/ FastEnd
        \/ AfterContextByLine \/ BeforeContextByLine \/ SinkGap \/ Drain \/ Finish

Next == Step \/ Returned

Spec == Init /\ [][Next]_vars
FairSpec == Spec /\ WF_vars(Step)
=============================================================================
