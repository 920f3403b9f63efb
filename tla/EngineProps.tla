------------------------------ MODULE EngineProps ------------------------------
(***************************************************************************)
(* What a run of gg owes its user, with two pieces of history: what each   *)
(* search meant to print, and what was opened after -q had its answer.     *)
(***************************************************************************)
EXTENDS Engine

VARIABLES
    given,     \* the lines that make up each finished file's block: none or one sequence
    late       \* files each visitor opened after Quiet had found a match

HInit == Init /\ given = [f \in Files |-> {}] /\ late = [v \in Visitors |-> 0]

Finishes(v) == pc[v] = "finish" /\ pc'[v] = "write"
Opens(v) == pc[v] = "get" /\ pc'[v] = "open"

\* A finished file is to have a block: for its lines, for a count of zero, or for the lack
\* of a match.
Owed(lines) ==
    CASE option = "zero"    -> TRUE
      [] option = "missing" -> lines = << >>
      [] OTHER              -> lines # << >>

HNext ==
    /\ Next
    /\ given' = [f \in Files |->
            IF mode # "quiet" /\ \E v \in Visitors : Finishes(v) /\ file[v] = f
            THEN {lines \in {buf[worker[CHOOSE v \in Visitors : Finishes(v) /\ file[v] = f]]} : Owed(lines)}
            ELSE given[f]]
    /\ late' = [v \in Visitors |-> IF found /\ Opens(v) THEN late[v] + 1 ELSE late[v]]

HSpec == HInit /\ [][HNext]_<<vars, given, late>>

-----------------------------------------------------------------------------
Blocks(f) == {i \in DOMAIN out : out[i].kind = "block" /\ out[i].file = f}
Notes(f) == {i \in DOMAIN out : out[i].kind = "note" /\ out[i].file = f}
Separators == {i \in DOMAIN out : out[i].kind = "separator"}

\* Every search that came to its end has its lines in the output, all of them in one block,
\* once, and no other file's, however Workers are reused; a search that failed leaves no line
\* there, also when the buffer it left goes to the next file.
NothingLost ==
    /\ \A f \in Files : \A i \in Blocks(f) : \A j \in DOMAIN out[i].lines : out[i].lines[j].file = f
    /\ exit # None => \A f \in Files :
        /\ Cardinality(Notes(f)) <= 1
        /\ IF given[f] = {} THEN Blocks(f) = {}
           ELSE \E i \in Blocks(f) : Blocks(f) = {i} /\ out[i].lines \in given[f]

\* Separators only stand between blocks: never first, last or next to one another, in
\* whatever order the visitors write; and where one is due, it is there.
SeparatorsRight ==
    /\ \A i \in Separators : i # 1 /\ i # Len(out) /\ i + 1 \notin Separators
    /\ mode = "standard" /\ (display.heading \/ (display.context /\ display.gap # None)) =>
            \A i \in DOMAIN out : i # 1 => i \in Separators \/ i - 1 \in Separators

\* The output holds what was asked for: a match, the note about one that was withheld, or
\* with --files-without-match the name of a file that has none.
Tells(i) ==
    \/ out[i].kind = "note"
    \/ /\ out[i].kind = "block"
       /\ \/ option = "missing"
          \/ \E j \in DOMAIN out[i].lines : out[i].lines[j].kind = "match"

\* The exit code tells whether what was asked for was found and, but for -q, printed.
\* Exit code 1 comes with output only under --passthru and --include-zero, and then every
\* line of it is one that did not match and every count is 0.
ExitAgrees ==
    /\ exit = 0 => found \/ \E i \in DOMAIN out : Tells(i)
    /\ exit = 1 => /\ ~found /\ \A i \in DOMAIN out : ~Tells(i)
                   /\ out = << >> \/ option \in {"passthru", "zero"}

\* Once -q has its answer no visitor opens more than the file it had already been given.
QuietStops == \A v \in Visitors : late[v] <= 1
=============================================================================
