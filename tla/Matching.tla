------------------------------- MODULE Matching -------------------------------
(***************************************************************************)
(* A matcher at work: the search of one buffer finds the lines that match, *)
(* by scanning all of it where that is sound and line by line where it is  *)
(* not (src/search/core.go), and the printer finds the occurrences in each *)
(* line it is given (findMatchSpans of src/printer/standard.go).           *)
(***************************************************************************)
EXTENDS Matcher

CONSTANTS
    Cases        \* records [config, texts]: what is looked for, and in what

VARIABLES
    config,      \* match.Config, and the terminators the Searcher is given
    matcher,
    buf,         \* the text searched
    pos,         \* Searcher.pos
    lines,       \* the lines given to the Sink, <<start, end>>
    line,        \* the last of them, without its terminator
    at, lastEnd, \* findMatchSpans' position, and the end of the last span
    spans,       \* for each line, the occurrences found
    phase
vars == <<config, matcher, buf, pos, lines, line, at, lastEnd, spans, phase>>

lineTerm == IF config.nullData THEN "NUL" ELSE "\n"

Init ==
    /\ \E c \in Cases : config = c.config /\ IsNew(matcher, config) /\ buf \in c.texts
    /\ pos = 0 /\ lines = << >> /\ line = << >> /\ at = 0 /\ lastEnd = -1 /\ spans = << >>
    /\ phase = "scan"

\* The line that offset k is in.
lineLocate(k) ==
    LET from == Max({0} \cup {j \in 1 .. k : buf[j] = lineTerm})
        to == Min({Len(buf)} \cup {j \in k + 1 .. Len(buf) : buf[j] = lineTerm})
    IN  <<from, to>>

withoutTerminator(text) ==
    LET n == Len(text)
        ended == n > 0 /\ text[n] = lineTerm
        cr == ended /\ config.crlf /\ n > 1 /\ text[n - 1] = "\r"
    IN  SubSeq(text, 1, n - (IF ended THEN 1 ELSE 0) - (IF cr THEN 1 ELSE 0))
Window(bounds) == withoutTerminator(SubSeq(buf, bounds[1] + 1, bounds[2]))

Report(bounds) ==
    /\ lines' = Append(lines, bounds)
    /\ line' = Window(bounds)
    /\ at' = 0 /\ lastEnd' = -1 /\ spans' = Append(spans, << >>)
    /\ phase' = "spans"
Skip == UNCHANGED <<lines, line, at, lastEnd, spans, phase>>

\* One round of findByLineFast.
FindByLineFast ==
    /\ phase = "scan" /\ matcher.NonMatchingLineTerm /\ pos < Len(buf)
    /\ \E hit \in FindCandidate(matcher, buf, pos) :
          LET bounds == lineLocate(hit[1])
          IN  /\ pos' = bounds[2]
              /\ IF bounds[1] < Len(buf) /\ (hit[2] = "confirmed" \/ Verify(matcher, Window(bounds)))
                 THEN Report(bounds) ELSE Skip
    /\ UNCHANGED <<config, matcher, buf>>

\* One round of matchByLineSlow.
MatchByLineSlow ==
    LET bounds == lineLocate(pos)
    IN  /\ phase = "scan" /\ ~matcher.NonMatchingLineTerm /\ pos < Len(buf)
        /\ pos' = bounds[2]
        /\ IF Verify(matcher, Window(bounds)) THEN Report(bounds) ELSE Skip
        /\ UNCHANGED <<config, matcher, buf>>

\* One round of findMatchSpans.
Found(span) ==
    IF span[1] = span[2] /\ span[1] = lastEnd
    THEN at' = span[1] + 1 /\ UNCHANGED <<spans, lastEnd>>
    ELSE /\ spans' = [spans EXCEPT ![Len(spans)] = Append(@, span)]
         /\ lastEnd' = span[2]
         /\ at' = IF span[1] = span[2] THEN span[2] + 1 ELSE span[2]

FindMatchSpans ==
    /\ phase = "spans"
    /\ \/ (\E span \in FindAt(matcher, line, at) : Found(span)) /\ UNCHANGED phase
       \/ FindAt(matcher, line, at) = {} /\ phase' = "scan" /\ UNCHANGED <<spans, lastEnd, at>>
    /\ UNCHANGED <<config, matcher, buf, pos, lines, line>>

Done ==
    /\ phase = "scan"
    /\ pos = Len(buf) \/ (matcher.NonMatchingLineTerm /\ FindCandidate(matcher, buf, pos) = {})
    /\ phase' = "done"
    /\ UNCHANGED <<config, matcher, buf, pos, lines, line, at, lastEnd, spans>>

Next == FindByLineFast \/ MatchByLineSlow \/ FindMatchSpans \/ Done
Spec == Init /\ [][Next]_vars
=============================================================================
