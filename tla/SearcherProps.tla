---------------------------- MODULE SearcherProps ----------------------------
(***************************************************************************)
(* What a search promises, stated over the variables of Searcher against a *)
(* declarative description of grep that has no windows and no scan state.  *)
(***************************************************************************)
EXTENDS Searcher, FiniteSets

-----------------------------------------------------------------------------
(* The reference: which line of the file is reported, and how.             *)

Selected == {i \in 1 .. Len(file) : file[i] # config.invert}

\* -m keeps the first maxCount of them.
Chosen == {i \in Selected : config.maxCount = NoLimit
                \/ Cardinality({j \in Selected : j <= i}) <= config.maxCount}

LimitHit == Cardinality(Chosen) = config.maxCount
Ended(i) == LimitHit /\ \A m \in Chosen : m < i

\* --passthru reports every line; behind the limit -v turns them into matches
\* (the documented quirk of rg), and a limit of zero reports nothing.
Report(i) ==
    CASE i \in Chosen -> "match"
      [] i \notin Chosen /\ config.passThru ->
            IF config.maxCount = 0 THEN "none"
            ELSE IF config.invert /\ Ended(i) THEN "match" ELSE "before"
      [] OTHER ->
            IF \E m \in Chosen : m < i /\ i <= m + config.after THEN "after"
            ELSE IF \E m \in Chosen : i < m /\ m <= i + config.before THEN "before"
            ELSE "none"

Reported == {i \in 1 .. Len(file) : Report(i) # "none"}
Matches == {i \in 1 .. Len(file) : Report(i) = "match"}

\* Event k is about the k-th of these lines.
EventsInOrder ==
    \A k \in 1 .. Len(events) :
        /\ events[k].line \in Reported
        /\ Cardinality({i \in Reported : i <= events[k].line}) = k
        /\ events[k].kind = Report(events[k].line)
        /\ events[k].number = events[k].line

-----------------------------------------------------------------------------
\* The Sink receives exactly the lines grep reports, in order, with the right kind and
\* the right number (which the lazy counter finds from window to window), however the
\* reads cut the file into windows, on the fast and on the slow path, streamed or in one
\* piece: PLAN.md's buffer-size invariance.  A Sink that stops early has received a
\* prefix.  Finish is told the number of matching lines, and of all of the input when
\* nothing ended the search early (also when the last lines were only kept as context
\* and the loop gave up for lack of progress).
EventsRight ==
    /\ EventsInOrder
    /\ pc = "done" /\ ~stopped =>
        /\ Len(events) = Cardinality(Reported)
        /\ stats.matchCount = Cardinality(Matches)
        /\ stats.matched <=> stats.matchCount > 0
        /\ ~matchLimitReached => stats.searched = Len(file)

\* Every search ends: no window is scanned for ever without progress.
Terminates == <>(pc \in {"done", "failed"})
=============================================================================
