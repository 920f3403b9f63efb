------------------------------ MODULE FacadeProps ------------------------------
(***************************************************************************)
(* What the library promises a caller, with history of how fn behaved.     *)
(***************************************************************************)
EXTENDS Facade, FiniteSetsExt, TLC

VARIABLES
    gaveUp,        \* fn answered false
    selfCancelled, \* fn cancelled the context
    more           \* calls each visitor made after fn had answered false

history == <<gaveUp, selfCancelled, more>>

HInit == Init /\ gaveUp = FALSE /\ selfCancelled = FALSE /\ more = [v \in Visitors |-> 0]

Calls(v) == pc[v] = "call" /\ pc'[v] = "unlock"

HNext ==
    /\ Next
    /\ gaveUp' = (gaveUp \/ \E v \in Visitors : Calls(v) /\ ~ok'[v])
    /\ selfCancelled' = (selfCancelled \/ (\E v \in Visitors : Calls(v) /\ cancelled' # cancelled))
    /\ more' = [v \in Visitors |-> IF gaveUp /\ Calls(v) THEN more[v] + 1 ELSE more[v]]

HSpec == HInit /\ [][HNext]_<<vars, history>>

Symmetry == Permutations(Visitors) \cup Permutations(Files)

-----------------------------------------------------------------------------
LinesOf(f) == DOMAIN lines[f]
MatchesOf(f) == {i \in LinesOf(f) : lines[f][i]}

\* Every Match that fn gets has the context of its own line, whatever failed, was cut
\* short or was left over in the collector before; and the Matches of a file come in
\* the order of its lines, never twice.
Between(f, i, j) == {l \in i + 1 .. j - 1 : l \in LinesOf(f)}
ContextOf(f, i) ==
    [before |-> {l \in LinesOf(f) : l < i /\ Kind(f, l) = "before" /\ MatchesOf(f) \cap Between(f, l, i) = {}},
     after |-> {l \in LinesOf(f) : l > i /\ Kind(f, l) = "after" /\ MatchesOf(f) \cap Between(f, i, l) = {}}]
InOrder(s, S) ==
    /\ {s[n] : n \in DOMAIN s} = S
    /\ \A n, p \in DOMAIN s : n < p => s[n] < s[p]
ContextRight ==
    \A k \in DOMAIN calls : LET m == calls[k] IN
        /\ m.line \in MatchesOf(m.file)
        /\ InOrder(m.before, ContextOf(m.file, m.line).before)
        /\ InOrder(m.after, ContextOf(m.file, m.line).after)
        /\ \A j \in 1 .. k - 1 : calls[j].file = m.file => calls[j].line < m.line

\* The files that the walk ended without handing out: with one goroutine it leaves none.
Lost == IF Cardinality(Visitors) > 1 THEN todo ELSE {}

\* What SearchContext returns is everything in the files the walk handed out, but for what
\* failed files and fn itself left out: a cancelled search never passes for a complete one.
Complete ==
    phase = "done" /\ verb = "stream" /\ ~discarded /\ ~gaveUp =>
        \A f \in Files \ (failed \cup Lost) : \A i \in MatchesOf(f) :
            \E k \in DOMAIN calls : calls[k].file = f /\ calls[k].line = i

\* What a collecting verb returns is exactly what the files hold that the walk handed out
\* and that could be read: nothing of a file whose search failed half way, nothing twice,
\* and nothing partial after a cancellation, although a Sink whose Begin was declined still
\* gets Finish and commits what its last file left in it.
Expected(f) ==
    LET n == Cardinality(MatchesOf(f)) IN
    CASE verb = "files" -> <<1>>
      [] verb = "list" /\ n > 0 -> <<1>>
      [] verb = "count" /\ n > 0 -> <<n>>
      [] OTHER -> << >>
VerbsRight ==
    phase = "done" /\ verb # "stream" /\ ~discarded =>
        /\ err # "context"
        /\ \A f \in Files : results[f] = IF f \in failed \cup Lost THEN << >> ELSE Expected(f)

\* A callback that cancels its own context is never called again.
ZeroAfterSelfCancel == [][selfCancelled => UNCHANGED calls]_<<vars, history>>

-----------------------------------------------------------------------------
(* Statements of comments that the code does not live up to.               *)

\* gripgrep.go:136: a file in flight may deliver one more match after fn has said stop.
OneMoreEach == \A v \in Visitors : more[v] <= 1

=============================================================================
