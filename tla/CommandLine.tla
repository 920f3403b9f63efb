----------------------------- MODULE CommandLine -----------------------------
(***************************************************************************)
(* gg from its arguments to the fate of one entry: main parses the         *)
(* arguments one by one, execute settles what the run is and how it will   *)
(* print, and the walk goes down one path of the tree, whose siblings have *)
(* no influence on it.  The disk is looked at once the run starts.         *)
(***************************************************************************)
EXTENDS Filters

CONSTANTS
    ArgLists,  \* the command lines
    Worlds(_)  \* the disks a command line is tried on

VARIABLES
    args,     \* os.Args[1:]
    i,        \* the argument parsed next
    dashed,   \* sawDashDash
    parse,    \* the Config and parseState so far
    phase,    \* "parsing", "ready", "starting", "walking", "listing", "settled" or "exit"
    world,    \* what is on disk; << >> before anything is read
    plan,     \* how the run prints; << >> before it starts
    opts,     \* walk.Options; << >> before the walk starts
    task,     \* the directory the walk is in; << >> if none
    trail,    \* the directories from the root down to it: [path, abs, dir, linked]
    fate,     \* what became of the last entry: [entry, outcome, binary]; << >> if none
    code      \* the exit code of a run that searched nothing; -1 if it did

vars == <<args, i, dashed, parse, phase, world, plan, opts, task, trail, fate, code>>
walkVars == <<opts, task, trail, fate>>

cfg == parse.cfg

Init ==
    /\ args \in ArgLists
    /\ i = 1 /\ dashed = FALSE /\ parse = NewParse /\ phase = "parsing"
    /\ world = << >> /\ plan = << >> /\ opts = << >> /\ task = << >> /\ trail = << >> /\ fate = << >>
    /\ code = -1

Arg == args[i]
Next1 == IF i < Len(args) THEN <<args[i + 1]>> ELSE << >>
IsLong(arg) == At(arg, 1) = "--"
IsShort(arg) == At(arg, 1) = "-" /\ Len(arg) > 1

Parsing == phase = "parsing" /\ i <= Len(args)
Rest == UNCHANGED <<args, world, plan, opts, task, trail, fate>>

\* A parse error ends the program with 2.
Parsed(p) ==
    /\ parse' = [p EXCEPT !.extra = 0]
    /\ i' = i + 1 + p.extra
    /\ phase' = IF p.failed THEN "exit" ELSE "parsing"
    /\ code' = IF p.failed THEN 2 ELSE code

DashDash ==
    /\ Parsing /\ ~dashed /\ Arg = <<"--">>
    /\ dashed' = TRUE /\ i' = i + 1
    /\ UNCHANGED <<parse, phase, code>> /\ Rest

Positional ==
    /\ Parsing /\ (dashed \/ ~(IsLong(Arg) \/ IsShort(Arg)))
    /\ Parsed([parse EXCEPT !.positionals = Append(@, Arg)])
    /\ UNCHANGED dashed /\ Rest

LongFlag ==
    /\ Parsing /\ ~dashed /\ IsLong(Arg) /\ Arg # <<"--">>
    /\ Parsed(parseLongFlag(parse, Arg, Next1))
    /\ UNCHANGED dashed /\ Rest

ShortFlags ==
    /\ Parsing /\ ~dashed /\ IsShort(Arg)
    /\ Parsed(parseShortCluster(parse, Tail(Arg), Next1))
    /\ UNCHANGED dashed /\ Rest

\* The end of ParseArgs, and main's answer to --help and --version.
EndOfArgs ==
    /\ phase = "parsing" /\ i > Len(args)
    /\ LET p == Resolve(parse)
       IN  /\ parse' = p
           /\ phase' = IF p.failed \/ p.cfg.Help \/ p.cfg.Version THEN "exit" ELSE "ready"
           /\ code' = CASE p.failed -> 2
                        [] ~p.failed /\ (p.cfg.Help \/ p.cfg.Version) -> 0
                        [] OTHER -> code
    /\ UNCHANGED <<i, dashed>> /\ Rest

-----------------------------------------------------------------------------

\* resolvePatternFiles: the lines of the -f files behind the -e patterns; "-" is standard input.
FileUnreadable(w, c) == \E k \in DOMAIN c.PatternFiles : Named(w, c.PatternFiles[k]) = << >>
AllPatterns(w, c) ==
    c.Patterns \o FlattenSeq([k \in DOMAIN c.PatternFiles |-> FlattenSeq(Named(w, c.PatternFiles[k]))])

\* A pattern that is no regular expression stands for all of them.
NoRegexp == <<"(">>
Unbuildable(patterns, c) == ~c.Fixed /\ \E k \in DOMAIN patterns : patterns[k] = NoRegexp

computeShowPath(paths) == Len(paths) # 1 \/ Resolved(Stat(paths[1])) # "file"
Chosen(pointer, default) == IF pointer = << >> THEN default ELSE pointer[1]

\* mutant: -q is looked at before --json
SinkQuietFirst(c, json) ==
    IF c.Quiet THEN IF c.Stats THEN "discard" ELSE "quiet" ELSE IF json THEN "json" ELSE c.Mode

\* Who prints: JSON before quiet, and a quiet run with statistics still has to search it all.
SinkOf(c, json) ==
    CASE json -> "json"
      [] ~json /\ c.Quiet /\ ~c.Stats -> "quiet"
      [] ~json /\ c.Quiet /\ c.Stats -> "discard"
      [] OTHER -> c.Mode

\* execute: who prints, and how.
Plan(c, tty) ==
    LET json == c.JSON /\ c.Mode = "standard"
        column == Chosen(c.Column, c.Vimgrep)
        standard == c.Mode = "standard" /\ ~c.Quiet
    IN  [sink |-> SinkOf(c, json),
         color |-> c.Color \in {"always", "ansi"} \/ (c.Color = "auto" /\ tty),
         column |-> column,
         heading |-> ~c.Vimgrep /\ Chosen(c.Heading, tty),
         lineNumbers |-> json \/ Chosen(c.LineNumbers, tty \/ column \/ c.Vimgrep),
         showPath |-> Chosen(c.WithFilename, c.Vimgrep \/ computeShowPath(WalkRoots(c))),
         context |-> c.ContextBefore > 0 \/ c.ContextAfter > 0,
         summary |-> json, stats |-> c.Stats /\ ~json, counted |-> c.Stats /\ standard /\ ~json,
         blockBuffered |-> c.Buffer = "block", mapped |-> MmapEligible(c),
         matches |-> CASE c.Mode = "count" -> c.OnlyMatching
                       [] c.Mode = "count-matches" -> TRUE
                       [] OTHER -> FALSE,
         fieldSep |-> IF c.FieldMatchSeparator = "default" THEN ":" ELSE c.FieldMatchSeparator,
         contextSep |-> IF c.FieldContextSeparator = "default" THEN "-" ELSE c.FieldContextSeparator,
         gapSep |-> IF c.ContextSeparator = "default" THEN "--" ELSE c.ContextSeparator]

\* executeTypes prints the table, if the changes make sense.
TypesCode(b) == IF b.failed \/ Build(b).failed THEN 2 ELSE IF DOMAIN b.types = {} THEN 1 ELSE 0

\* The exit code of a run that stops before it walks; -1 if it walks with the options o.
FilterCode(o) == IF o.types.failed \/ o.globs.failed THEN 2 ELSE -1
SearchCode(c, patterns, o) ==
    CASE patterns = << >> -> 1
      [] patterns # << >> /\ Unbuildable(patterns, c) -> 2
      [] OTHER -> FilterCode(o)
EarlyCode(c, w, o) ==
    IF c.Sort.kind = "created" THEN 2
    ELSE CASE c.Mode = "types" -> TypesCode(Apply(c.TypeChanges))
           [] c.Mode = "files" -> FilterCode(o)
           [] OTHER -> IF FileUnreadable(w, c) THEN 2 ELSE SearchCode(c, AllPatterns(w, c), o)

Execute ==
    /\ phase = "ready"
    /\ \E w \in Worlds(args) : \E o \in {Options(cfg, w)} : \E early \in {EarlyCode(cfg, w, o)} :
         /\ world' = w
         /\ code' = early
         /\ phase' = IF early = -1 THEN "starting" ELSE "exit"
         /\ plan' = IF early = -1 THEN Plan(cfg, w.tty) ELSE plan
         /\ opts' = IF early = -1 THEN o ELSE opts
    /\ UNCHANGED <<args, i, dashed, parse, task, trail, fate>>

\* One of the roots: a directory is walked, anything else settled at once.
StartRoot ==
    /\ phase = "starting"
    /\ \E k \in DOMAIN WalkRoots(cfg) :
         LET root == WalkRoots(cfg)[k]
             e == Stat(root)
             walked == Resolved(e) = "dir"
         IN  /\ task' = IF walked THEN RootTask(root, cfg, world, opts) ELSE task
             /\ trail' = IF walked THEN <<[path |-> root, abs |-> e.abs, dir |-> e.to, linked |-> FALSE]>> ELSE trail
             /\ fate' = IF walked THEN fate
                        ELSE [entry |-> [e EXCEPT !.type = Resolved(e)],
                              outcome |-> IF Resolved(e) = "file" THEN "file" ELSE "error",
                              binary |-> BinaryMode(cfg, 0)]
             /\ phase' = IF walked THEN "walking" ELSE "settled"
    /\ UNCHANGED <<args, i, dashed, parse, world, plan, opts, code>>

\* processDir up to its listing.
OpenDir ==
    /\ phase = "walking"
    /\ IF Foreign(task) THEN task' = task /\ phase' = "settled"
       ELSE task' = Opened(task, cfg, world, opts) /\ phase' = "listing"
    /\ UNCHANGED <<args, i, dashed, parse, world, plan, opts, trail, fate, code>>

Below(t, e) ==
    [path |-> JoinPath(t.path, e.name), abs |-> JoinPath(t.abs, e.name), dir |-> e.to,
     linked |-> e.type = "link"]

\* One of the entries; of those only a directory leads on.
VisitEntry ==
    /\ phase = "listing"
    /\ \E e \in Listing[task.dir] : \E outcome \in {Outcome(task, e, cfg, opts)} :
         /\ fate' = [entry |-> e, outcome |-> outcome, binary |-> BinaryMode(cfg, task.depth + 1)]
         /\ phase' = IF outcome = "dir" THEN "walking" ELSE "settled"
         /\ task' = IF outcome = "dir" THEN Child(task, e) ELSE task
         /\ trail' = IF outcome = "dir" THEN Append(trail, Below(task, e)) ELSE trail
    /\ UNCHANGED <<args, i, dashed, parse, world, plan, opts, code>>

Over == phase \in {"exit", "settled"} /\ UNCHANGED vars

Next ==
    \/ DashDash \/ Positional \/ LongFlag \/ ShortFlags \/ EndOfArgs
    \/ Execute \/ StartRoot \/ OpenDir \/ VisitEntry \/ Over

Spec == Init /\ [][Next]_vars
=============================================================================
