# A verification project for gripgrep

gripgrep (`gg`) is a recursive grep in Go. This directory holds TLA+ models of
its concurrent and stateful parts, the TLC runs that check them on small
instances and TLAPS proofs of the properties of the core for every instance.

## 1. Inventory

| part | state | operations | hard behaviour |
|---|---|---|---|
| `walk` (worker.go, deque.go, walk.go) | per-worker LIFO deques, `active`, `quit`, `pushGen`, a condition variable | run, steal, park, processDir, notifyWork, requestQuit | work stealing, parking, quiescence by an atomic counter, Quit from any goroutine |
| `walk` filters (ignore.go, classify, symlink.go) | chain of ignore nodes per directory, ancestor chain | buildNode, matched, classify, loops | precedence of six rule sources; repositories within repositories; symlink loops |
| `walk/sort.go` | buffered files | walkSorted, collectRoot, emitSorted | per-root versus global order, stable descending order |
| `search` scanner (core.go, search.go) | window position, line counter, context still owed, match limit | matchByLineSlow/Fast/FastInvert, rollConsume, sink calls | result must not depend on how reads cut the file |
| `search/linebuffer.go`, `engine/bom.go`, `rawfile_unix.go` | buffer, pos, last, end; end-of-file hint, mark checked | fill, roll, consume; Read, finishBOMCheck | partial lines, growth, binary detection per chunk, a mark in pieces, a short read taken for the end |
| `search/parallel.go` | one recorder per chunk | splitChunks, concurrent chunk scans, replay | -m and early stop at replay, line numbers by prefix sums |
| `match`, `search/lines.go` | a compiled Matcher, immutable | New; FindCandidate, Verify, Find, FindAt | literals extracted from a pattern stand in for it; scans of whole buffers against lines |
| `internal/engine` run.go, matchtracker.go | matched and error flags, pooled workers | visitor, Matched, Context, Finish | binary files, -q early exit, two writes per file |
| `printer` | shared Dest, per-sink buffers, path channel | Write, WriteBlock, Standard, Count, JSON, PathPrinter | separators by flush order, batching |
| library facade (gripgrep.go, sink.go) | `stopped`, delivery mutex, pending match, shared results | SearchStream, Search, Count, Files..., matchCollector, watchCancel | callbacks from many goroutines, cancellation races, leftovers of failed files |
| `glob`, `filetype` | Sets of compiled patterns, a table of types | Add, Build, Match | strategies and buckets against last-match-wins; selections resolved against the final table |
| `cmd/gg` | flag state | ParseArgs, execute, exit code | flag overrides, what wins of contradicting flags, exit code precedence |

They interact like this: `cmd/gg` and the facade build an `engine.Config` and
call `engine.Run`; Run calls `walk.Walk` with a Visitor, which the walk's
worker goroutines call concurrently; the Visitor takes a pooled Searcher and
Sink and runs one search; the Searcher drives the Sink (`Begin`, then `Matched`
and `Context` in stream order, then `Finish`) through a `matchTracker`; a
printer Sink hands its finished block to the shared `Dest` under its mutex.
A callback's answer travels back the same way: `more = false` ends a file,
`walk.Quit` ends the walk.

What makes each part correct, in a line: the walk delivers every entry once and
ends when, and only when, nothing is left; the scanner reports what grep
defines, whatever the buffering; the parallel scanner reports what the serial
one does; an output block is written whole; a callback that said stop is not
called again more often than documented.

## 2. Plan

Done:

1. Walker, with DirectoryWalk (its contract), and its proofs.
2. Searcher against a declarative definition of grep.
3. ParallelSearch: chunks, recorders and replay, refining MatchStream (a serial
   scan); LineBuffer (fill, roll, growth, binary detection) and its proofs, with
   gg's own reader in front of it (Reading).
4. MatchTracker: binary files between Searcher, Sink and output; Engine: the
   pool, Dest, -q, the exit code.
5. Facade: delivery of Matches, early stop and cancellation, all verbs.
6. SortedWalk over the traversal of Walker, and FilesMode over it: `--files`
   with its channel and batches.
7. Flags, Arguments, Glob, Ignore, FileTypes, Filters and CommandLine: from the
   arguments of gg to the fate of one entry of the tree.
8. Literals, Matcher and Matching: from a pattern to lines and occurrences.
9. Proofs for 1 to 6: every invariant their runs check but the one that compares
   with a recursive pre-order (section 12), Walk's completeness with one worker,
   and the refinements of DirectoryWalk and of MatchStream.

Not done:

10. Printers: gap separators of Standard, the JSON message sequence and
    accumulator, the counting writer.

Conventions: constants carry named assumptions; one action per step that
another actor can observe; invariants are conjunctions of named parts; no
RECURSIVE operator in a module that is proved about. Operators marked
`mutant` in a module are no part of the model: each is a plausible bug that the
property it is paired with in PROJECT.json must catch.

## 3. The walk

`Walker.tla` models one call of `runWorkers` with a fixed tree. Each worker is
at a label (`pc`) of run, park, steal or processDir; `idle[w]` says whether it
is between its `active.Add(-1)` and `active.Add(1)`; `stack[w]` are its frames
of processDir (more than one only with a single worker, where processDir calls
itself); `batch[w]` is the slice a thief holds between the two locks of
stealBatch. One action is one critical section, one atomic operation or one
Visitor call. The condition variable is the labels `waiting` and `woken`:
Broadcast moves every waiter to `woken`, and since the code broadcasts after it
releases the mutex, bumping `pushGen` (or setting `quit`) and broadcasting are
two actions. The Visitor's answers, unreadable directories and pruned file
systems are nondeterministic. `Listing` stands for what the filter chain lets
through, in readdir order; an entry is a path below one root, so overlapping
roots give distinct entries, as in the code.

`DirectoryWalk.tla` is the contract of `walk.Walk` without workers. With one
worker the walk implements it (`ImplementsWalk`); with several it implements
only `LooseSpec`, which may end early, because of the finding below.

| run | instance | what it shows |
|---|---|---|
| walker | 3 workers, a root with two children, one on another device, Quit anywhere | the counter, wakeups, conservation of tasks through stealing from a thief, what zero means, how the walk stops, that every worker returns, the loose contract |
| walker_complete | 2 workers, a chain of three | **violated**: finding 1 |

`SortedWalk.tla` is the walk with one worker: unsorted, or in the passes of
sort.go, which buffer the files of a traversal (Walker's, started afresh for each
root), sort them and hand them to the Visitor. `FilesMode.tla` puts the Visitor of
`--files` on top: a bounded channel, the goroutine of PathPrinter that writes in
batches, close, Wait and the exit code. The run `files` has one tree with a file
root, a directory root and a missing one, a pruned and an unreadable directory and
a link, and names chosen so that "a.t" and "a/..." compare differently with and
without their separator; every sort in both directions; a Visitor that answers
anything, or --files. `DescentOrder` compares the visits with a recursive
pre-order, and what a sort by path hands out with a descent through sorted
listings; `TimeSortRight` says that a sort by time gives earlier files first
(or last) and keeps files of one time in the order of discovery, `FilesGivenOnce`
that buffering and sorting neither lose a file nor give one twice,
`PathsAllWritten` says that what was visited is written when the run ends, whatever
batch it was in, and `ImplementsWalk` is the contract with its completeness. With a
batch of two and up to five files, batches are full, part full and empty at close.
`ComparePath` says in one comparison, with a separator before every byte and the end
of a path before a separator, what comparePath says component by component;
`ComponentsAssumption` of MCFiles compares the two on all paths of up to four bytes.

Bounds: two workers already show every race of one worker's decrement with
another one's steal; the third matters where a thief is robbed between the two
locks of stealBatch, which needs the fork of `walker`. Trees are small because a
task's place in the tree matters to the algorithm only through "is there work
somewhere else": two siblings are the least that make stealing, parking and
reactivation overlap, a chain of three the least in which work is lost. `pushGen` and
the visit counts are bounded by the tree.

Fairness: weak fairness of every worker's step, which is what the Go scheduler
gives a runnable goroutine. A `waiting` worker has no step, so nothing but a
broadcast wakes it.

Finding 1 (code bug): `park` takes a task before it counts itself active again.
If the last active worker decrements in between, it sees zero and ends the walk:
the worker with the task still reads that one directory, then everybody leaves,
and the rest of the tree is never searched. The comment of `park` promises the
opposite. What does hold is stated by `QuietExceptReactivating` and proved.

## 4. The scanner

`Searcher.tla` models `Search`, `SearchBytes` and `runChunk`. The file is a
sequence of lines, each TRUE when `Verify` accepts it. Positions are numbers of
lines relative to the window, like the code's byte offsets relative to the
buffer; `consumed` is `absOffsetBase`. `Fill` is one turn of Search's loop up to
matchByLine: rollConsume, consume, and a fill that completes any number of
further lines, so TLC explores every way the reads can cut the file. The slow
path is `SlowLine`; the fast path is `FastFind`, which finds the next line (or,
with -v, the gap before it), and `SinkGap`, which reports it line by line;
`AfterContextByLine`, `BeforeContextByLine` and `Drain` report context one line
per step, because the Sink may stop or fail at every line.

`SearcherProps.tla` defines what grep reports without windows or state
(`Report`, and the sets `Reported` and `Matches`) and compares: `EventsRight`.

The run `searcher` takes every file of up to 4 lines with before and after
context up to 2, -m from 0 to 2 or none, and all combinations of the remaining
flags. Four lines with two lines of context are enough for a context block that
spans three windows, for two matches whose contexts overlap or touch, and for a
limit reached with context still owed in a later window. Fairness: the search
is one sequential call, so weak fairness of its step.

## 5. The parallel scan of one file

`ParallelSearch.tla` models `SearchBytes` for a file large enough to split:
`splitChunks` (`Split` is one turn of its loop, numbered `turn`; `Snap` moves a
boundary behind the next newline, `cuts` are the boundaries so far), the chunk
goroutines, which record a match at a time (`ScanChunk`) and finish in any order
(`ChunkDone`), the prefix sum over their line counts (`AddBase`, `lineBases`), and
the replay, which renumbers lines by that sum, counts `-m` and stops when the Sink
does. `MatchStream.tla` is what a Sink sees of a serial scan: each time the first
matching line it has not seen, with its offset and number, until a limit or an
answer ends them. The property `ImplementsMatchStream` is the refinement; its
safety part, of MatchStream's `LooseSpec`, is proved.

The run `parallel` takes every file of up to six bytes (newline or not, each line
matching or not) and up to four workers: enough for cuts on, before and behind
newlines, chunks without a match, and a last line without newline. A chunk that
started inside a line or a total that missed a line would give the Sink a wrong
offset or number, which the refinement excludes.

## 6. The read buffer

`LineBuffer.tla` models `fill`, `roll`, `ensureCapacity`, `consume` and the
conversion of NULs, over a file of text, newline and NUL bytes that arrives in
reads of any length, driven by Search's loop. How much of a window the scanner
keeps for context is a free choice within what rollConsume may keep.

`Reading.tla` composes it with what gg reads through. `rawFile` calls read(2): a
file the walk found gives all that fits, an explicit argument may be a pipe and
gives some of it; a short read of the former is remembered as the end. `bomReader`
drops a mark inside the first Read, which may arrive in up to three pieces, with an
error, or be the whole file. On disk the mark precedes the modelled file, or the
file begins with a part of one. Every reader LineBuffer allows is kept as a third
kind of source, since `Search` is exported.

The run `linebuffer` (files of up to five bytes, a buffer of four, the least that
holds a mark and more) checks that the buffer is the file (`Faithful`), that the
first NUL is found at its offset and nothing behind it is searched under
binary-quit (`BinaryExact`), that all is searched (`AllSearched`), that the
buffer grows no further than a line and the kept lines demand (`BufferBounded`),
that Search gets the file without its mark, in the chunks read(2) made, and an end
only at its end (`StreamExact`), and that Search ends. Assumed: a read(2) that
failed fails again (see section 13 for what happens otherwise). Fairness: Search is
one sequential call.

## 7. Binary files

`MatchTracker.tla` follows one file through Search or SearchBytes, matchTracker
and the Sink. Lines have two bytes so that a read, a NUL and the prefix may fall
inside a line, on its end or between lines. Which lines match is given; the
context lines are those that could surround them, or all others under --passthru.
The Sinks are those of the display modes, of --count with and without
--include-zero, of -l and --files-without-match, --json and -q's.

The run `tracker` has all files of up to four lines with a prefix of four bytes
(two lines, so that a whole line may lie before a NUL that is still near the
beginning): a NUL before, in and behind the prefix, before and behind matches and
context. `SignalMeansOutput` ties the exit code's signal to the output: a file counts
as matched exactly when what is written tells of it, and what is written of another
file is the context of --passthru or the zero of --include-zero (gg then ends with 1
and output, which `e2e_test.go:1424-1450` expects of --include-zero). `NothingVanishes`
says that withheld matches are announced, `StatsExact` what --stats counts, and
`ConvertShows` which lines are shown under convert: streamed, those delivered before
a NUL was read, and in the end those before the first NUL if that lies behind the
prefix; once a NUL near the beginning has been read, none is added any more, also of
the lines before that NUL.

What `ConvertShows` does not say, though matchtracker.go:215-217 does, is that such a NUL
hides the lines before it in any case: `binaryConvertSuppressed` knows what the reads so
far have shown, and lines that an earlier short read (of a pipe, say) delivered before
the NUL was read are in the Sink and are printed (section 13).

## 8. The engine

`Engine.tla` has the visitors of one walk (their files come in any order, each
once, which is what section 3 establishes), the pool of Workers, which
`sync.Pool` may empty at any time, the Sinks' buffers, Dest and execute's exit
code. A buffer holds, for each line, the file it came from, so that a line in the
wrong block is visible. `mode` groups the Sinks: `standard` separates blocks and
writes notes, `summary` (-c, -l, --files-without-match) does neither, `quiet`
is the Sink all Workers share under -q. `option` adds what prints more than matches:
--passthru, `-c --include-zero`, and --files-without-match, for which matchSignal
inverts. A line in a buffer is a match or context, so that output without a match is
told from output that has one. What a search does is a free choice within what
MatchTracker allows. Finding 1 lets a walk with several goroutines end before it has
handed out every file, which is `EndEarly`.

`ExitAgrees` does not say that exit code 1 means no output: it says that exit code 0
means a match was found or printed (or announced, or a file without one named), exit
code 1 that nothing of the kind was, and that there is output with it only under
--passthru and --include-zero.

| run | instance | what it shows |
|---|---|---|
| engine | 2 visitors, 3 files of up to 2 lines, 2 Workers, all displays and options | complete blocks of the files handed out, separators, exit code, -q stops |

Three files are the least that can show a visitor opening two files after -q has
its answer; the visitors, Workers and files are interchangeable, which the
symmetry uses. There is no
liveness property: every step uses up a file, a line or a label, so a run can
only fail to end by getting stuck, which TLC's deadlock check excludes.

## 9. The library

`Facade.tla` models every verb. For SearchStreamContext and SearchContext each
visitor has a matchCollector, which holds a Match back until its after-context is
complete; `deliver` is six steps (lock and load, the guard's ctx.Err(), fn, unlock,
store of stopped, the answer), because others may act between any two of them. The
verbs that collect counts, files with a match or files commit to a shared result
under a lock, and keep a Sink between files that may be left over from a search that
failed. The context is cancelled by fn or by anyone at any time; the watcher then
sets stopped. The end is two steps, since the context's error is read twice.
`FacadeProps.tla` adds what fn did as history. Where several goroutines walk, the walk
may end with files it never handed out (finding 1); `Return` allows it, and what
`Complete` and `VerbsRight` say is then said of the files that were handed out
(`Lost` is the others). With one goroutine nothing is lost, and they speak of every
file.

| run | instance | what it shows |
|---|---|---|
| facade | 2 visitors, 2 files of 3 lines, context 1, every verb | a result cut short by the caller is always marked as such; Matches with their own context, once, in order, after failures too; the collecting verbs return what the readable files handed out hold; no call after fn cancelled |
| facade_stop | 2 visitors, 2 files | **violated**: finding 2 |

Three lines are the least for a line that is after-context of one Match and stands
before the next; a leftover of a failed file needs a second file. The races need
two goroutines. That the call ends is left to the deadlock check, as for Engine.

Finding 2 (code bug): `deliver` stores `stopped` only after it released the lock,
so other goroutines may call fn again and again until the first one is scheduled;
the doc says one more at most.

## 10. From the arguments to an entry

`CommandLine.tla` is gg from `os.Args` to the fate of one entry of the tree: one
action per argument (`DashDash`, `Positional`, `LongFlag`, `ShortFlags`), the end of
ParseArgs, `Execute`, then the walk down one path (`StartRoot`, `OpenDir`,
`VisitEntry`), whose siblings have no influence on it. It rests on
- `Flags.tla` (the table of flags and what each does to the Config) and
  `Arguments.tla` (values, long flags, clusters, what is settled at the end);
- `Glob.tla`: parsing, classes, Set.Match; `FileTypes.tla`: types and -g/--iglob;
- `Ignore.tla`: loading ignore files, the chain of nodes, `matched`;
- `Filters.tla`: what execute and Run make of the Config, classify, depth, size,
  devices, followed links and loops.
Flags and words are whole tokens; where text matters (patterns, paths, numbers) it
is a sequence of characters.

`CommandLineProps.tla` and `GlobProps.tla` say what all of this means without tokens,
classes, nodes or a Config that is changed step by step: over the uses of flags in
their order (`CommandLineObeyed`), the text of patterns
(`GlobsMeanWhatTheySay`), the ignore files read one by one (`IgnorePrecedence`), the
last type given (`TypesLastWin`), and the path of an entry from the root
(`EntryDecided`). A pattern is matched against the whole path, character by character.
"*" and "?" stop at a separator; a class does not: the code writes `[!b]` as `[^b]` and
a range as a range, so `a[!b]b` matches "a/b" and `a[.-?]b`, whose range spans "/", does
too. A type's glob with a separator in it is for the path, which filetype/matcher.go:51-58
names as a known difference from rg.

The run `commandline` has some 3,100 command lines: every spelling of every flag,
sequences of up to three of each group of flags that influence one another, and
patterns of every class. Without flags the ignore files are two at most, of four
kinds in four directories, and no repository, one, or one inside another; or one
file with a greater choice of contents under each of the other layouts of
repositories (a worktree, a broken .git, jj); files in "/" have patterns anchored along
the path from there, and others. With each of the flags that switch
sources off there is one file, and all have the global files too. The tree
has links up, round and to a file, a dangling one, hidden entries and a second
device. Two files are the least in which one may overrule the other; three uses of
flags the least where the middle one must not count. Integers are 4 bits wide with
a kilo of 2, so that sizes overflow where the code checks it.

The files of a directory are matched against the path below it, but those of "/"
against the absolute path with its leading separator (ignore.go:105), so that an anchored
pattern in /.gitignore, /.ignore or /.rgignore matches nothing. `IgnorePrecedence` says
what the code does there (`Under`); section 13 lists what the comment says.

## 11. Patterns

`Matcher.tla` and `Literals.tla` are package match, `Regex.tla` the library below it:
syntax trees and leftmost-first matching by definition (external). `IsNew` chooses the
strategy: literals alone, literals taken from the tree as a prefilter
(`extractInnerLiterals` with its limits and heuristics), or the engine; and one of
the scanners for literals. `Matching.tla` puts a Matcher to work in the two loops that
depend on it most: the search of one buffer, by whole-buffer scan (`FindByLineFast`)
where no match contains a line's end and line by line otherwise (`MatchByLineSlow`),
and the printer's `FindMatchSpans`.

`LinesAgree` says that the lines found are those on which the pattern matches taken
alone; `OccurrencesRight` that the spans are those of one pass of the engine over the
line. A literal dropped too early, one called exact that is not, a shifted start that
lets `^` or `\b` hold, or a hit in the line before, all break one of them. The run
`matching` has about a hundred configurations, each with all texts of 3 to 7
characters over the letters that tell its matches apart; every strategy, scanner,
branch and limit of the extractor is reached by one. Characters are single bytes.

Each property states where it claims nothing, and each of these cases is a
difference the run finds when the exception is removed (section 13): `SeesMore`,
`Approximate`, and -w, where an alternative behind the preferred one is not tried.

## 12. Proofs

Every theorem holds for all values of the constants: any number of workers,
visitors and files, files of any length, any buffer size, limit and context. The
assumptions are those the modules state about their constants, and TLC evaluates
them on the runs. Five beyond types and bounds: `ForestAssumption` of Walker (no
path is listed twice and none is a root besides, since an entry is one path below
one root), `SortAssumption` of SortedWalk (there is a root, without which Walk
returns at once), `PathAssumption` there (every entry's path is a string of bytes,
which says that the way up from it ends at a root: a fact about the recursion of
`Path` that would need an induction over the tree), and `NoneAssumption` of Engine
and of Facade (None is not a visitor, a Worker, a file or a Match).

Each module follows the same argument: an inductive invariant, which TLC checked on
the run's instance first; a lemma for each action, or for a group that touches the
same state; the properties as consequences.

| module | invariant | properties proved |
|---|---|---|
| WalkerProofs | `IInv`, `TInv`, `AfterQuit` | TypeOK, ActiveCount, ParkedOwnsNothing, NoLostWakeup, ZeroEndsWalk, NobodyStuck, QuietExceptReactivating; TasksConserved, OneLateDirectory, the refinement of DirectoryWalk's LooseSpec |
| FilesProofs | `PInv`, `FInv`, `HInv` | ImplementsWalk, the refinement of DirectoryWalk's Spec; PathsAllWritten, TimeSortRight, FilesGivenOnce |
| SearcherProofs | `SInv` | EventsRight |
| ParallelSearchProofs | `Inv` | the refinement of MatchStream's LooseSpec |
| ReadingProofs | `IInv`, `BInv`, `RInv` | of LineBuffer: TypeOK, Faithful, BinaryExact, WindowsComplete, AllSearched, BufferBounded; of Reading: StreamExact, that it implements LineBuffer, and with it LineBuffer's properties of files on disk |
| TrackerProofs | `TrackerInv` | NothingVanishes, SignalMeansOutput, ConvertShows, StatsExact |
| EngineProofs | `EInv` | NothingLost, SeparatorsRight, ExitAgrees, QuietStops |
| FacadeProofs | `FInv`, `CInv` | Complete, ContextRight, VerbsRight, ZeroAfterSelfCancel (an action property) |

**Walker.** `IInv` is TypeOK, ActiveCount, NoLostWakeup, ZeroEndsWalk and `Control`,
which says for each label what the worker owns and whether it is counted. ActiveCount
alone does not know which workers are idle at a label, NoLostWakeup needs that only
the owner of a snapshot changes it, and ZeroEndsWalk needs that a zero counter means
all workers idle (`ZeroMeansAllIdle`), a cardinality argument from ActiveCount.
NobodyStuck then needs no further induction: if all wait, none is counted, so the
counter is zero, so the quit was requested, so a waiting worker is about to be woken
by somebody who does not wait.

TasksConserved counts places, and needs to know in addition that deques, slices and
stacks are pairwise disjoint (`EachOnce`), that what is in them is still to be
expanded (`AllPending`, with the rest of every listing unvisited), that nothing is
visited before its directory was read (`ReadFirst`), and that what is pending is
somewhere (`NoneLost`). The two halves of stealBatch are disjoint and complete by
`HalvesElements`; that the roots are dealt out once each is arithmetic on div and mod
(`SeedOnce`). The refinement maps every Visitor call, listing and pruning to Deliver,
and ReadFirst is why a delivered entry's directory was listed. OneLateDirectory needs
`AfterQuit`: after quit a worker holds one frame and finishes it.

**One worker.** `PInv` is Walker's `IInv` and its tasks (`TInv`, with the roots of
later passes set aside), and what makes a walk with one worker complete although
`LooseSpec` is all that several reach. A directory's unvisited entries are ahead of a
frame (`NoneSkipped`), because a frame leaves the stack only at its end or when it was
never opened; quit is set only when the worker is about to return (`QuitLast`) with an
empty deque (`Spent`), because no other worker can push; and a later root is nowhere
(`Untouched`), so that a pass begins with its root as the only task. At the end of the
last pass nothing is pending, and nothing is skipped: Complete. The lemmas about the
worker's steps are those of WalkerProofs.

**--files.** `FInv` follows a file from the visit to the output. Between the walk and
the Visitor (`WInv`) every file that was visited was given, or waits in the buffer or
in what emitSorted still has, whatever the Visitor (`Met`); that survives the sort
because the sort is a permutation (`SortedSame`). For this comparePath and compareTime are shown to be
orders (of two paths one is first at the first place where they differ, and a path
between them decides), negating them for a descending sort changes nothing, and with
equal items kept in place every rank is taken by exactly one item (`Ranking`, a
pigeonhole argument). `Honest` says that without an error nothing was given up but
what --one-file-system prunes. Between the Visitor and the output (`OInv`) the output,
the batch and the channel together always hold what was given, in order (`Piped`).
When gg exits, `PInv` adds that the walk was complete, so an exit code below 2 is the
truth.

**Sorting.** TimeSortRight and FilesGivenOnce speak of what was given already, so
`HInv` adds a history. Every visit is the first of its entry (`RootsLeft` excludes that
a root, which is visited by its task, comes by again), and so the order of discovery
has no repetition (`History`). What was given, what emitSorted still has and what the
buffer holds are disjoint and without repetition (`Once`). By time the sort waits for
the last pass, the buffer is in the order of discovery, and everything given precedes
everything still to be given (`Timed`): a Visitor that stops in the middle was given a
prefix. That the sort establishes this is `SortedPlaces` and `SortedBy`, the places of
the sorted sequence by rank, which also say that equal times keep their places in
either direction.

**Searcher.** EventsRight speaks of events only, so `SInv` ties the state of the scan
to it: the events are the lines to be reported up to the last one visited
(`Reporting`), the after-context owed is that of the last chosen match (`Owing`), the
counters are cardinalities of sets of lines (`Counting`), and no match lies between
the last line visited and the place scanned to (`Bounds`, `GapFound`). `Report` of a
line looks both ways, so a window that ends early and a limit already reached are the
difficult cases; `Ending` says what a search that nobody stopped has told.

**Parallel scan.** What is delivered cannot be inductive alone: a replayed offset is
what a recorder holds, and a replayed number needs the line counts of all chunks before.
`Inv` follows the data through the phases: boundaries are line edges and ascend
(`WellCut`); a goroutine that ended has left no match behind and has counted its chunk
(`Scanning`); a recorder holds the matches its goroutine passed, with relative numbers
(`Recording`); the prefix sum is the number of the chunk's first line in the file
(`Summing`); the Sink has what lies before the replay's place (`Delivering`), and
matchCount says how many (`Counting`). Because boundaries are line edges, the matches
of a chunk are those of the data that start in it, and the count of newlines of the
data is the sum of those of its ranges (`NewlinesSplit`): a replayed event is then the
first of MatchStream's `Left`, with its number. Splitting, scanning, summing and moving
to the next recorder are stutters.

**Read buffer.** `IInv` is TypeOK, Faithful, BinaryExact, AllSearched and `Control`.
Faithful alone is not inductive: roll copies from `pos`, so it needs what Control says
of `pos` while reading, and BinaryExact needs that nothing is read once a NUL has
ended the search. AllSearched rests on Control's account of progress: a fill without a
new line has made everything left a window. `BInv` bounds the buffer: what is kept at
a roll are few lines (`FewLines`), and lines are no longer than the longest of the
file (`LongestIs`). `RInv` follows the descriptor, the hint of its end and the stages
of bomReader, and every step of Reading is then a step of LineBuffer or leaves it
alone, so that LineBuffer's theorems are cited, not proved again.

**Binary files.** `TrackerInv` says what the reads have shown of the first NUL
(`Windows`), which of the delivered lines the Sink was given in each mode (`Shows`),
that without --passthru context is never shown without a match to come
(`Accompanied`), and what Finish leaves behind (`Written`). `Inputs` is what the
Searcher promises of its callbacks. The second half of ConvertShows, that a NUL near
the beginning hides every line to come, is a property of steps, and follows from the
invariant for each action that delivers a line.

**Engine.** `EInv` says whose Worker and file each visitor has (`Owned`), that from
Begin to the write a buffer holds lines of one file only, and which of them match
(`Filled`), what the shared flags remember (`Remembered`) and what the output shows of
a file (`Written`). That
separators stand between blocks is inductive by itself once every write is known to
append one item with or without a separator (`Adds`).

**Library.** `FInv` places every match of a file on its way to fn: in a collector, in
hand, called, or ahead of the scan (`StreamKept`), and while nothing has stopped the
search a Sink's count is the cardinality of the matches scanned (`CountsKept`).
`CInv` is about ContextRight: the collector's ring holds exactly the lines that wait
for the next match, the Match that waits has exactly the lines behind it, what is
called of a file lies above what is in hand. It holds only while the search is not
stopped; that a stopped search's leftovers are never delivered rests on the order of
the two loads in `deliver` and on Begin's reset. `WaitingFits` is why dropping the
oldest line never loses context: lines that wait are within `before` of the match.

Only model-checked:

- liveness (Termination, Terminates, and what ImplementsMatchStream says of the end):
  fairness and ENABLED are outside the prover;
- DescentOrder, which compares with recursive pre-orders: what a
  recursive definition computes needs an induction over trees that the prover's
  library cannot be instantiated for;
- CommandLine, Matching and what they are made of (Glob, Arguments, Regex, Literals and
  Matcher), which follow patterns of any shape with RECURSIVE operators.

## 13. Comments that the models contradict

Besides findings 1 and 2, which have runs, these statements of comments are false
in the models: adding the statement as an invariant to the run named gives a
counterexample.

- `search.go:97` says Finish is called once per path even when a search is
  aborted; Begin, Matched, Context or a read that fails returns without it
  (`searcher`).
- `search.go:363` says the tracker finds the NULs that SearchBytes' bounded test
  misses; under binary-quit it does not look, and the line is shown raw (`tracker`).
- `matchtracker.go:215` says a NUL within the first DefaultBufferSize bytes
  suppresses every line, those before it too; lines delivered by an earlier short read
  are shown (`tracker`, with `Done => Shown = {}` for a streamed file under convert
  whose first NUL is within the prefix).
- `dest.go:12` says blocks of files never interleave; the binary note is a second
  block, and another file's may come between (`engine`).
- `matchtracker.go:365` says the note's separator is that of blocks; it ignores
  --context-separator (`engine`).
- `wire.go:22` says per-file errors do not change the exit code; except under -q
  they make it 2 (`engine`).
- `gripgrep.go:151` says fn is not called once the context is done; one call may
  follow a cancellation from another goroutine (`facade`).
- `gripgrep.go:108` says the error is the context's when the matches are dropped; a
  context cancelled between its two reads drops them with the files' error only
  (`facade`).
- `walk.go`, Options.IgnoreCaseInsensitive, says it does not reach the global ignore
  file, which LoadGlobalIgnore does fold (`commandline`).
- `ignore.go`, compileGlobData, says an invalid pattern is skipped; it takes the valid
  ones of its file with it (`commandline`).
- `ignore.go:92-94` says that what the files of a directory are asked about is relative
  to that directory; those of "/" get the path with its leading separator, so that
  anchored patterns in them never match (`commandline`, with `Under` dropping the
  separator).
- `match.go` says Find returns the leftmost match. The scanner by rarest bytes returns
  the literal whose rarest byte comes first: `-e qa -e aq` in "aqa" gives the span
  from 1 to 3, and with -w a line can be missed. With an empty pattern among several,
  only empty occurrences are found (`matching` without `Approximate`).
- `nonmatch.go` lets the whole buffer be scanned when no match contains "\n". Under
  --null-data the lines end with NUL: `\w.\w` matches across two of them in "a\0b".
  Under --crlf the "\r" is still there: `\w.` matches in "a\r\n", whose line is "a"
  (`matching` without `SeesMore`).
- `docs/rg-parity.md:237-245` says -x with --crlf agrees with rg; `-F -x --crlf a` does
  not match the line "a\r\n", and `-F -x --null-data a` none at all (the same).
- `smartcase.go` takes the P of `(?P<n>foo)` for an upper-case literal (by reading; the
  patterns of `matching` have no named groups).
- `rawfile_unix.go:105` says Read implements io.Reader; when read(2) fails it returns
  -1 bytes. In the first Read of a file bomReader slices by it and panics
  (`FirstRead`, which stands for the panic by ending the search); in finishBOMCheck it
  takes back a byte, which is lost if the next read(2) succeeds (`linebuffer` without
  `broken`).

## 14. Not modelled

- Formatting: columns, previews, trimming, colours, number caches and gap separators of
  the line printer, the JSON messages, statistics as text, the usage text.
- UTF-8 and folding beyond ASCII in package match; `\Q...\E` and `\x` in smart case;
  regular expressions of globs beyond what their tokens translate to.
- The set-up that copies one record of options into another, profiling, memory mapping
  as such, and system calls repeated after a signal.
- The generated table of types and the parity and benchmark tooling.
- prefixReader, which needs a buffer smaller than a byte order mark, and
  precedingByPos, whose lines Searcher counts.

PROJECT.json lists every component with its status, and every hazard with the
properties that cover it.
