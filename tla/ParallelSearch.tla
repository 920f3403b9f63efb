---------------------------- MODULE ParallelSearch ----------------------------
(***************************************************************************)
(* SearchBytes, search/search.go and search/parallel.go: a large mapped    *)
(* file is split into line-aligned chunks, every chunk is scanned by a     *)
(* goroutine of its own into a recorder, and the recorded matches are      *)
(* replayed through the caller's Sink.  Line numbers are relative to the   *)
(* chunk until the replay, and -m applies only there.  A file that is too  *)
(* small or does not split is scanned directly.                            *)
(*                                                                         *)
(* The flags that rule the split out (context, -v, --passthru, --crlf,     *)
(* --null-data) are not set; Searcher models them.                         *)
(***************************************************************************)
EXTENDS Integers, Sequences, FiniteSets, SequencesExt

CONSTANTS
    MaxBytes, MaxLimit,
    NoLimit,       \* a nil MaxCount
    MaxWorkers,    \* bound on ParallelWorkers
    MinBytes       \* ParallelMinBytes

ASSUME ParallelBounds ==
    /\ MaxBytes \in Nat /\ MaxLimit \in Nat /\ NoLimit \notin Nat
    /\ MaxWorkers \in Nat \ {0} /\ MinBytes \in Nat \ {0}

VARIABLES
    data, limit, numbered,   \* the file, MaxCount, LineNumbers
    workers,                 \* ParallelWorkers
    cuts,                    \* chunk i is the range cuts[i] .. cuts[i + 1]
    turn,                    \* splitChunks' i
    pos,                     \* s.pos of each chunk's child
    recorded,                \* recs[i].events
    chunkLines,              \* chunkLines[i]; Unknown until the goroutine ends
    lineBases,               \* the prefix sum over chunkLines
    phase,                   \* what SearchBytes is doing
    chunk, event,            \* the replay loop's position in recs
    matchCount,              \* replayed, then s.matchCount
    delivered,               \* what the Sink received
    reported                 \* Stats.MatchCount as Finish gets it

inputs == <<data, limit, numbered, workers>>
ranges == <<cuts, turn>>
scans  == <<pos, recorded, chunkLines>>
cursor == <<chunk, event>>
outcome == <<matchCount, delivered, reported>>
vars == <<inputs, ranges, scans, lineBases, phase, cursor, outcome>>

Unknown == -1

-----------------------------------------------------------------------------
(* splitChunks.  Offsets count from 0: byte p of the file is data[p + 1].  *)

Newlines(from, to) == {q \in from .. to - 1 : data[q + 1] = "nl"}

\* A boundary moves forward to just past the next newline.
Snap(want) == Min(Newlines(want, Len(data))) + 1

\* parallelEligible
Eligible == workers > 1 /\ Len(data) >= MinBytes

Target == IF Len(data) \div workers = 0 THEN 1 ELSE Len(data) \div workers

Chunks == 1 .. Len(cuts) - 1

Init ==
    /\ data \in BoundedSeq({"hit", "miss", "nl"}, MaxBytes)
    /\ limit \in (0 .. MaxLimit) \cup {NoLimit}
    /\ numbered \in BOOLEAN
    /\ workers \in 1 .. MaxWorkers
    /\ cuts = IF Eligible THEN <<0>> ELSE <<0, Len(data)>>
    /\ turn = 1
    /\ pos = <<0>> /\ recorded = << << >> >> /\ chunkLines = <<Unknown>>
    /\ lineBases = << >>
    /\ phase = IF Eligible THEN "split" ELSE "direct"
    /\ chunk = 1 /\ event = 1
    /\ matchCount = 0 /\ delivered = << >> /\ reported = Unknown

\* One turn of the loop; with no newline ahead it is the last.
Split ==
    /\ phase = "split" /\ turn < workers
    /\ LET want == turn * Target
           behind == want <= Last(cuts) \/ want >= Len(data)
           last == ~behind /\ Newlines(want, Len(data)) = {}
           cut == ~behind /\ ~last /\ Snap(want) < Len(data) IN
       /\ cuts' = IF cut THEN Append(cuts, Snap(want)) ELSE cuts
       /\ turn' = IF last THEN workers ELSE turn + 1
    /\ UNCHANGED <<inputs, scans, lineBases, phase, cursor, outcome>>

\* The last range ends with the data; a single chunk is no split.  Otherwise a
\* goroutine is started for every chunk.
StartScan ==
    /\ phase = "split" /\ turn >= workers
    /\ cuts' = Append(cuts, Len(data))
    /\ phase' = IF Len(cuts) > 1 THEN "scan" ELSE "direct"
    /\ pos' = cuts
    /\ recorded' = [c \in 1 .. Len(cuts) |-> << >>]
    /\ chunkLines' = [c \in 1 .. Len(cuts) |-> Unknown]
    /\ UNCHANGED <<inputs, turn, lineBases, cursor, outcome>>

-----------------------------------------------------------------------------
(* The chunks' goroutines.                                                 *)

\* runChunk sees the chunk's bytes only: where a line with a hit starts.
MatchesIn(c) ==
    {p \in pos[c] .. cuts[c + 1] - 1 :
        /\ p = cuts[c] \/ data[p] = "nl"
        /\ \E q \in p .. cuts[c + 1] - 1 : data[q + 1] = "hit" /\ Newlines(p, q) = {}}

\* Its end, past the terminator if there is one.
LineEnd(c, p) == IF Newlines(p, cuts[c + 1]) = {} THEN cuts[c + 1]
                 ELSE Min(Newlines(p, cuts[c + 1])) + 1

\* The relative line number, or 0 without -n.
RelativeNumber(c, p) == IF numbered THEN 1 + Cardinality(Newlines(cuts[c], p)) ELSE 0

\* A chunk's goroutine finds its next match and records it: it never stops early.
ScanChunk(c) ==
    /\ phase = "scan" /\ chunkLines[c] = Unknown /\ MatchesIn(c) # {}
    /\ LET p == Min(MatchesIn(c)) IN
        /\ recorded' = [recorded EXCEPT ![c] =
                Append(@, [offset |-> p, number |-> RelativeNumber(c, p)])]
        /\ pos' = [pos EXCEPT ![c] = LineEnd(c, p)]
    /\ UNCHANGED <<inputs, ranges, chunkLines, lineBases, phase, cursor, outcome>>

LinesSoFar(c) ==   \* mutant: no catch-up past the last match
    IF numbered THEN Cardinality(Newlines(cuts[c], pos[c])) ELSE 0

\* The catch-up countLines over the whole chunk.
LinesOf(c) == IF numbered THEN Cardinality(Newlines(cuts[c], cuts[c + 1])) ELSE 0

ChunkDone(c) ==
    /\ phase = "scan" /\ chunkLines[c] = Unknown /\ MatchesIn(c) = {}
    /\ chunkLines' = [chunkLines EXCEPT ![c] = LinesOf(c)]
    /\ UNCHANGED <<inputs, ranges, pos, recorded, lineBases, phase, cursor, outcome>>

\* wg.Wait: the chunks whose goroutine still runs.
Running == {c \in Chunks : chunkLines[c] = Unknown}

\* The first line number of the next chunk, or 0 without -n.
AddBase ==
    /\ phase = "scan" /\ Running = {} /\ Len(lineBases) < Len(cuts) - 1
    /\ lineBases' = Append(lineBases,
            CASE ~numbered -> 0
              [] numbered /\ lineBases = << >> -> 1
              [] OTHER -> Last(lineBases) + chunkLines[Len(lineBases)])
    /\ UNCHANGED <<inputs, ranges, scans, phase, cursor, outcome>>

StartReplay ==
    /\ phase = "scan" /\ Running = {} /\ Len(lineBases) = Len(cuts) - 1
    /\ phase' = "replay"
    /\ UNCHANGED <<inputs, ranges, scans, lineBases, cursor, outcome>>

-----------------------------------------------------------------------------
(* The replay, and the direct scan.                                        *)

\* The offset added to a recorded number; nothing without -n.
Number(c, ev) == IF numbered THEN ev.number + (lineBases[c] - 1) ELSE ev.number

LimitReached == limit # NoLimit /\ matchCount >= limit

Answers == {"more", "stop", "error"}

\* The Sink's answer to a match; an error returns without the statistics.
Offer(ev, label) ==
    \E answer \in Answers :
        /\ delivered' = Append(delivered, ev)
        /\ matchCount' = IF answer = "error" THEN matchCount ELSE matchCount + 1
        /\ phase' = CASE answer = "more" -> label
                      [] answer = "stop" -> "finish"
                      [] answer = "error" -> "failed"

Replay ==
    /\ phase = "replay" /\ chunk \in Chunks /\ event <= Len(recorded[chunk]) /\ ~LimitReached
    /\ LET ev == recorded[chunk][event] IN
       Offer([offset |-> ev.offset, number |-> Number(chunk, ev)], "replay")
    /\ event' = event + 1
    /\ UNCHANGED <<inputs, ranges, scans, lineBases, chunk, reported>>

NextRecorder ==
    /\ phase = "replay" /\ chunk \in Chunks /\ event > Len(recorded[chunk])
    /\ chunk' = chunk + 1
    /\ event' = 1
    /\ UNCHANGED <<inputs, ranges, scans, lineBases, phase, outcome>>

ReplayEnds ==
    /\ phase = "replay"
    /\ \/ chunk \notin Chunks
       \/ chunk \in Chunks /\ event <= Len(recorded[chunk]) /\ LimitReached
    /\ phase' = "finish"
    /\ UNCHANGED <<inputs, ranges, scans, lineBases, cursor, outcome>>

\* runChunk over the whole file with the caller's Sink; it counts before it sinks.
ScanDirectly ==
    /\ phase = "direct" /\ MatchesIn(1) # {} /\ ~LimitReached
    /\ LET p == Min(MatchesIn(1)) IN
        /\ Offer([offset |-> p, number |-> RelativeNumber(1, p)], "direct")
        /\ pos' = [pos EXCEPT ![1] = LineEnd(1, p)]
    /\ UNCHANGED <<inputs, ranges, recorded, chunkLines, lineBases, cursor, reported>>

DirectEnds ==
    /\ phase = "direct" /\ (MatchesIn(1) = {} \/ LimitReached)
    /\ phase' = "finish"
    /\ UNCHANGED <<inputs, ranges, scans, lineBases, cursor, outcome>>

Finish ==
    /\ phase = "finish"
    /\ reported' = matchCount
    /\ phase' = "done"
    /\ UNCHANGED <<inputs, ranges, scans, lineBases, cursor, matchCount, delivered>>

Step ==
    \/ Split \/ StartScan
    \/ \E c \in Chunks : ScanChunk(c) \/ ChunkDone(c)
    \/ AddBase \/ StartReplay \/ Replay \/ NextRecorder \/ ReplayEnds
    \/ ScanDirectly \/ DirectEnds \/ Finish

Returned == phase \in {"done", "failed"} /\ UNCHANGED vars

Next == Step \/ Returned

\* The Go scheduler runs every goroutine, so some step is taken while one can be.
Spec == Init /\ [][Next]_vars /\ WF_vars(Step)

-----------------------------------------------------------------------------
(* Properties.                                                             *)

\* The parallel search is a serial one: the Sink sees the same lines with the
\* same numbers, -m and an early stop end it at the same line, and Finish is told
\* what was delivered, however the chunks' goroutines interleave.
Status == CASE phase \in {"split", "scan", "replay", "direct"} -> "open"
            [] phase = "finish" -> "closed"
            [] OTHER -> phase
Count == IF phase = "done" THEN reported ELSE 0
Stream == INSTANCE MatchStream WITH status <- Status, count <- Count
ImplementsMatchStream == Stream!Spec
=============================================================================
