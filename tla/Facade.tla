-------------------------------- MODULE Facade --------------------------------
(***************************************************************************)
(* The verbs of the library.  SearchStreamContext and SearchContext: the   *)
(* walk's goroutines search files, each with a matchCollector that groups  *)
(* lines into Matches, and call the caller's fn one at a time.  fn may     *)
(* answer false or cancel the context, which somebody else may cancel as   *)
(* well; a watcher goroutine turns the cancellation into the flag stopped. *)
(* The collecting verbs (counts, files with a match, files) have a Sink    *)
(* that commits to a shared result under a lock instead.                   *)
(*                                                                         *)
(* The order of lines within a file is the Searcher's.  A goroutine keeps  *)
(* its collector; the pool of Engine exchanges them between visits, and    *)
(* what an earlier file left in a collector is the same either way.        *)
(***************************************************************************)
EXTENDS Integers, Sequences, FiniteSets, SequencesExt

CONSTANTS
    Visitors,      \* goroutines of the walk
    Files,
    MaxLines,      \* bound on the lines of a file
    MaxContext,    \* bound on Options.Before and Options.After
    None

ASSUME FacadeBounds == MaxLines \in Nat /\ MaxContext \in Nat

\* Match, with its lines for their text.
Match == [file : Files, line : Nat, before : Seq(Nat), after : Seq(Nat)]

ASSUME NoneAssumption == None \notin Visitors \cup Files \cup {"context", "files"} /\ None \notin Match

VARIABLES
    verb,              \* "stream" (and Search), "count", "list" (FilesWithMatch) or "files"
    lines,             \* lines[f][i]: line i of f matches
    before, after,     \* lines of context asked for
    cancellable,       \* ctx.Done() is not nil
    todo, quitting,    \* the walk: files not handed out, a visitor returned Quit
    pc, file, next,    \* of each visitor: where it is, its file, its next line
    pendingBefore, pending,    \* its matchCollector
    tally,             \* its countingSink or pathListSink: the path and what was counted
    results,           \* results[f]: what the collecting verbs recorded for f
    match, cont, ok,   \* its deliver: the Match, where to go on, the answer
    mu,                \* holder of deliverMu
    stopped, cancelled,
    watching,          \* the watcher goroutine is there
    failed,            \* files that errCollector heard of
    calls,             \* fn's arguments, in order
    phase, err, discarded    \* SearchContext: where it is and what it returns

input == <<verb, lines, before, after, cancellable>>
walk == <<todo, quitting, file>>
collector == <<pendingBefore, pending, tally, results>>
delivery == <<match, cont, ok, mu>>
outcome == <<phase, err, discarded>>
vars == <<input, walk, pc, next, collector, delivery, stopped, cancelled, watching, failed, calls, outcome>>

\* What the Searcher makes of a line: after-context comes before before-context.
Kind(f, i) ==
    CASE lines[f][i] -> "match"
      [] ~lines[f][i] /\ (\E m \in 1 .. i - 1 : lines[f][m] /\ i - m <= after) -> "after"
      [] ~lines[f][i] /\ (\A m \in 1 .. i - 1 : lines[f][m] => i - m > after)
           /\ (\E m \in i + 1 .. Len(lines[f]) : lines[f][m] /\ m - i <= before) -> "before"
      [] OTHER -> "none"

Init ==
    /\ lines \in [Files -> BoundedSeq(BOOLEAN, MaxLines)]
    /\ verb \in {"stream", "count", "list", "files"}
    /\ before \in 0 .. MaxContext /\ after \in 0 .. MaxContext
    /\ verb # "stream" => before = 0 /\ after = 0
    /\ cancellable \in BOOLEAN
    /\ todo = Files /\ quitting = FALSE
    /\ pc = [v \in Visitors |-> "idle"] /\ file = [v \in Visitors |-> None]
    /\ next = [v \in Visitors |-> 1]
    /\ pendingBefore = [v \in Visitors |-> << >>] /\ pending = [v \in Visitors |-> None]
    /\ tally = [v \in Visitors |-> [path |-> None, count |-> 0]] /\ results = [f \in Files |-> << >>]
    /\ match = [v \in Visitors |-> None] /\ cont = [v \in Visitors |-> "scan"]
    /\ ok = [v \in Visitors |-> TRUE] /\ mu = None
    /\ stopped = FALSE /\ cancelled = FALSE /\ watching = FALSE
    /\ failed = {} /\ calls = << >>
    /\ phase = "start" /\ err = None /\ discarded = FALSE

Goto(v, label) == pc' = [pc EXCEPT ![v] = label]

-----------------------------------------------------------------------------
(* The context and its watcher.                                            *)

\* Every verb asks ctx.Err() before it does anything; then the watcher starts.
Start ==
    /\ phase = "start"
    /\ IF cancelled THEN phase' = "returned" /\ err' = "context" /\ UNCHANGED watching
       ELSE phase' = "walk" /\ watching' = cancellable /\ UNCHANGED err
    /\ UNCHANGED <<input, walk, pc, next, collector, delivery, stopped, cancelled, failed, calls, discarded>>

Cancel ==
    /\ cancellable /\ ~cancelled /\ phase # "done"
    /\ cancelled' = TRUE
    /\ UNCHANGED <<input, walk, pc, next, collector, delivery, stopped, watching, failed, calls, outcome>>

Watch ==
    /\ watching /\ cancelled
    /\ stopped' = TRUE /\ watching' = FALSE
    /\ UNCHANGED <<input, walk, pc, next, collector, delivery, cancelled, failed, calls, outcome>>

-----------------------------------------------------------------------------
(* The visitor of engine.Run and matchCollector.                           *)

Visit(v) ==
    /\ pc[v] = "idle" /\ ~quitting /\ phase = "walk"
    /\ \E f \in todo :
        /\ todo' = todo \ {f}
        /\ IF stopped THEN quitting' = TRUE /\ UNCHANGED <<pc, file>>
           ELSE file' = [file EXCEPT ![v] = f] /\ Goto(v, "begin") /\ UNCHANGED quitting
    /\ UNCHANGED <<input, next, collector, delivery, stopped, cancelled, watching, failed, calls, outcome>>

KeptPending(v) == pending[v]   \* mutant: a failed file leaves its Match behind

NoPending(v) == None

ClearedLate(v) == [path |-> file[v], count |-> tally[v].count]   \* mutant: Begin forgets the count

Cleared(v) == [path |-> file[v], count |-> 0]

Begin(v) ==
    /\ pc[v] = "begin" /\ verb # "files"
    /\ IF stopped THEN Goto(v, "finish") /\ UNCHANGED <<next, collector>>
       ELSE /\ next' = [next EXCEPT ![v] = 1]
            /\ pendingBefore' = [pendingBefore EXCEPT ![v] = << >>]
            /\ pending' = [pending EXCEPT ![v] = NoPending(v)]
            /\ tally' = [tally EXCEPT ![v] = Cleared(v)]
            /\ Goto(v, "scan")
            /\ UNCHANGED results
    /\ UNCHANGED <<input, walk, delivery, stopped, cancelled, watching, failed, calls, outcome>>

\* Hand a Match to deliver, and go on at label if the answer is to go on.
Deliver(v, m, label) ==
    /\ match' = [match EXCEPT ![v] = m]
    /\ cont' = [cont EXCEPT ![v] = label]
    /\ Goto(v, "lock")
    /\ UNCHANGED <<ok, mu>>

FlushPending(v, label) ==
    /\ Deliver(v, pending[v], label)
    /\ pending' = [pending EXCEPT ![v] = None]
    /\ UNCHANGED <<pendingBefore, tally, results>>

Advance(v) == next' = [next EXCEPT ![v] = @ + 1]
NextIs(v, kind) == next[v] \in DOMAIN lines[file[v]] /\ Kind(file[v], next[v]) = kind

\* The callback for a line of this kind begins, or goes on after it flushed a Match.
AtKind(v, kind) == pc[v] = "scan" /\ NextIs(v, kind)
Enters(v, kind) == (AtKind(v, kind) /\ ~stopped) \/ (pc[v] = "take" /\ NextIs(v, kind))

SkipLine(v) ==
    /\ AtKind(v, "none")
    /\ Advance(v)
    /\ UNCHANGED <<input, walk, pc, collector, delivery, stopped, cancelled, watching, failed, calls, outcome>>

\* Every callback declines once stopped is set, and the search goes to Finish.
Decline(v) ==
    /\ verb \in {"stream", "count"}
    /\ \E kind \in {"match", "before", "after"} : AtKind(v, kind)
    /\ stopped
    /\ Goto(v, "finish")
    /\ UNCHANGED <<input, walk, next, collector, delivery, stopped, cancelled, watching, failed, calls, outcome>>

Enough(m) == Len(m.after) = after

AfterLine(v) ==
    /\ AtKind(v, "after") /\ ~stopped
    /\ Advance(v)
    /\ IF pending[v] = None THEN UNCHANGED <<pc, collector, delivery>>
       ELSE LET m == [pending[v] EXCEPT !.after = Append(@, next[v])] IN
            IF Enough(m)
            THEN /\ Deliver(v, m, "scan")
                 /\ pending' = [pending EXCEPT ![v] = None] /\ UNCHANGED <<pendingBefore, tally, results>>
            ELSE pending' = [pending EXCEPT ![v] = m] /\ UNCHANGED <<pc, pendingBefore, tally, results, delivery>>
    /\ UNCHANGED <<input, walk, stopped, cancelled, watching, failed, calls, outcome>>

Newest(held) == IF Len(held) > before THEN Tail(held) ELSE held

\* A line of leading context says that the Match before it is complete.
BeforeLine(v) ==
    /\ Enters(v, "before")
    /\ IF pending[v] # None THEN FlushPending(v, "take") /\ UNCHANGED next
       ELSE /\ pendingBefore' = [pendingBefore EXCEPT ![v] = Newest(Append(@, next[v]))]
            /\ Advance(v) /\ Goto(v, "scan")
            /\ UNCHANGED <<pending, tally, results, delivery>>
    /\ UNCHANGED <<input, walk, stopped, cancelled, watching, failed, calls, outcome>>

NewMatch(v) == [file |-> file[v], line |-> next[v], before |-> pendingBefore[v], after |-> << >>]

TakenBefore(v) == << >>

MatchLine(v) ==
    /\ verb = "stream"
    /\ Enters(v, "match")
    /\ IF pending[v] # None THEN FlushPending(v, "take") /\ UNCHANGED next
       ELSE /\ Advance(v)
            /\ pendingBefore' = [pendingBefore EXCEPT ![v] = TakenBefore(v)]
            /\ UNCHANGED <<tally, results>>
            /\ IF after = 0
               THEN Deliver(v, NewMatch(v), "scan") /\ UNCHANGED pending
               ELSE /\ pending' = [pending EXCEPT ![v] = NewMatch(v)]
                    /\ Goto(v, "scan") /\ UNCHANGED delivery
    /\ UNCHANGED <<input, walk, stopped, cancelled, watching, failed, calls, outcome>>

-----------------------------------------------------------------------------
(* The Sinks of the collecting verbs.                                      *)

Counted(v) == tally' = [tally EXCEPT ![v].count = @ + 1]

CountMatch(v) ==
    /\ AtKind(v, "match") /\ verb = "count" /\ ~stopped
    /\ Counted(v)
    /\ Advance(v)
    /\ UNCHANGED <<input, walk, pc, pendingBefore, pending, results, delivery, stopped, cancelled, watching, failed, calls, outcome>>

\* pathListSink has what it wants, and ends the search of the file.
FindMatch(v) ==
    /\ AtKind(v, "match") /\ verb = "list"
    /\ Counted(v)
    /\ Goto(v, "finish")
    /\ UNCHANGED <<input, walk, next, pendingBefore, pending, results, delivery, stopped, cancelled, watching, failed, calls, outcome>>

\* Their Finish.  The path is the one of the last Begin that was not declined.
Recorded(t) == [results EXCEPT ![t.path] = IF verb = "count" THEN <<t.count>> ELSE Append(@, 1)]

Record(v) ==
    /\ pc[v] = "finish" /\ verb \in {"count", "list"}
    /\ results' = IF tally[v].count = 0 THEN results ELSE Recorded(tally[v])
    /\ Goto(v, "idle")
    /\ UNCHANGED <<input, walk, next, pendingBefore, pending, tally, delivery, stopped, cancelled, watching, failed, calls, outcome>>

\* FilesContext: the visitor appends the path, or reports the walk's error.
List(v) ==
    /\ pc[v] = "begin" /\ verb = "files"
    /\ \/ results' = [results EXCEPT ![file[v]] = Append(@, 1)] /\ UNCHANGED failed
       \/ failed' = failed \cup {file[v]} /\ UNCHANGED results
    /\ Goto(v, "idle")
    /\ UNCHANGED <<input, walk, next, pendingBefore, pending, tally, delivery, stopped, cancelled, watching, calls, outcome>>

EndOfFile(v) ==
    /\ pc[v] = "scan" /\ next[v] > Len(lines[file[v]])
    /\ Goto(v, "finish")
    /\ UNCHANGED <<input, walk, next, collector, delivery, stopped, cancelled, watching, failed, calls, outcome>>

\* A read fails: the file is reported and Finish is not called.
SearchFails(v) ==
    /\ pc[v] = "scan"
    /\ failed' = failed \cup {file[v]}
    /\ Goto(v, "idle")
    /\ UNCHANGED <<input, walk, next, collector, delivery, stopped, cancelled, watching, calls, outcome>>

ForgetPending(v) ==   \* mutant: the last Match of a file is not flushed
    /\ pc[v] = "finish" /\ verb = "stream"
    /\ Goto(v, "idle")
    /\ UNCHANGED <<input, walk, next, collector, delivery, stopped, cancelled, watching, failed, calls, outcome>>

Finish(v) ==
    /\ pc[v] = "finish" /\ verb = "stream"
    /\ IF pending[v] # None THEN FlushPending(v, "finish")
       ELSE Goto(v, "idle") /\ UNCHANGED <<collector, delivery>>
    /\ UNCHANGED <<input, walk, next, stopped, cancelled, watching, failed, calls, outcome>>

-----------------------------------------------------------------------------
(* matchCollector.deliver.                                                 *)

\* mu.Lock, and stopped.Load under it.
Lock(v) ==
    /\ pc[v] = "lock" /\ mu = None
    /\ mu' = v
    /\ ok' = [ok EXCEPT ![v] = ~stopped]
    /\ Goto(v, IF stopped THEN "unlock" ELSE "check")
    /\ UNCHANGED <<input, walk, next, collector, match, cont, stopped, cancelled, watching, failed, calls, outcome>>

NotRefused == FALSE   \* mutant: fn is not wrapped

Refused == cancellable /\ cancelled

\* The wrapper of fn asks ctx.Err() first.
CheckContext(v) ==
    /\ pc[v] = "check"
    /\ ok' = [ok EXCEPT ![v] = ~Refused]
    /\ Goto(v, IF Refused THEN "unlock" ELSE "call")
    /\ UNCHANGED <<input, walk, next, collector, match, cont, mu, stopped, cancelled, watching, failed, calls, outcome>>

\* fn: it may cancel the context itself.
Call(v) ==
    /\ pc[v] = "call"
    /\ calls' = Append(calls, match[v])
    /\ \E answer \in BOOLEAN : ok' = [ok EXCEPT ![v] = answer]
    /\ cancelled' \in {cancelled, cancellable}
    /\ cancelled => cancelled'
    /\ Goto(v, "unlock")
    /\ UNCHANGED <<input, walk, next, collector, match, cont, mu, stopped, watching, failed, outcome>>

Unlock(v) ==
    /\ pc[v] = "unlock"
    /\ mu' = None
    /\ Goto(v, IF ok[v] THEN "back" ELSE "store")
    /\ UNCHANGED <<input, walk, next, collector, match, cont, ok, stopped, cancelled, watching, failed, calls, outcome>>

\* Only now is stopped set.
Store(v) ==
    /\ pc[v] = "store"
    /\ stopped' = TRUE
    /\ Goto(v, "back")
    /\ UNCHANGED <<input, walk, next, collector, delivery, cancelled, watching, failed, calls, outcome>>

Back(v) ==
    /\ pc[v] = "back"
    /\ Goto(v, IF stopped THEN "finish" ELSE cont[v])
    /\ match' = [match EXCEPT ![v] = None]
    /\ UNCHANGED <<input, walk, next, collector, cont, ok, mu, stopped, cancelled, watching, failed, calls, outcome>>

-----------------------------------------------------------------------------
(* The end.                                                                *)

\* The context's error wins over the files'.
CancelOr == IF cancelled THEN "context" ELSE IF failed # {} THEN "files" ELSE None

\* The walk is over.  With several goroutines it may be so early, while files are left
\* (see NothingLost in WalkerProps).
Return ==
    /\ phase = "walk"
    /\ \A v \in Visitors : pc[v] = "idle"
    /\ todo = {} \/ quitting \/ Cardinality(Visitors) > 1
    /\ err' = CancelOr
    /\ watching' = FALSE
    /\ phase' = "returned"
    /\ UNCHANGED <<input, walk, pc, next, collector, delivery, stopped, cancelled, failed, calls, discarded>>

\* SearchContext and collectingReturn ask ctx.Err() once more before they decide.
Conclude ==
    /\ phase = "returned"
    /\ discarded' = (err # None /\ cancelled)
    /\ phase' = "done"
    /\ UNCHANGED <<input, walk, pc, next, collector, delivery, stopped, cancelled, watching, failed, calls, err>>

DeliverStep(v) == Lock(v) \/ CheckContext(v) \/ Call(v) \/ Unlock(v) \/ Store(v) \/ Back(v)

VisitorStep(v) ==
    \/ Visit(v) \/ Begin(v) \/ SkipLine(v) \/ Decline(v)
    \/ AfterLine(v) \/ BeforeLine(v) \/ MatchLine(v)
    \/ CountMatch(v) \/ FindMatch(v) \/ Record(v) \/ List(v)
    \/ EndOfFile(v) \/ SearchFails(v) \/ Finish(v) \/ DeliverStep(v)

Done == phase = "done" /\ UNCHANGED vars

Next == Start \/ (\E v \in Visitors : VisitorStep(v)) \/ Cancel \/ Watch \/ Return \/ Conclude \/ Done

Spec == Init /\ [][Next]_vars
=============================================================================
