--------------------------- MODULE CommandLineProps ---------------------------
(***************************************************************************)
(* What a command line asks for, stated over its uses of flags in order,   *)
(* and what it and the disk mean for an entry, stated over the text of the *)
(* patterns and the directories walked.                                    *)
(***************************************************************************)
EXTENDS CommandLine, GlobProps

-----------------------------------------------------------------------------
(* The uses of flags on an accepted command line: [flag, on, value].       *)

Use(flag, on, value) == [flag |-> flag, on |-> on, value |-> value]
FlagOf(letter) == CHOOSE f \in DOMAIN v1Flags : v1Flags[f].short = letter
Spelled(name) ==
    CASE name = "maxdepth" -> "max-depth"
      [] name = "passthrough" -> "passthru"
      [] OTHER -> CHOOSE f \in DOMAIN v1Flags : name \in {f, v1Flags[f].negated}
TakesValue(f) == v1Flags[f].kind = "value"

RECURSIVE Uses(_)
Uses(rest) ==
    LET arg == rest[1]
        f == Spelled(arg[2])
        bare(n) == Uses(Drop(rest, n))
        letters == Tail(arg)
        valued == {k \in DOMAIN letters : letters[k] \in DOMAIN shortIndex /\ shortIndex[letters[k]].kind = "value"}
        m == IF valued = {} THEN Len(letters) + 1 ELSE Min(valued)
        switches == [k \in 1 .. m - 1 |-> Use(FlagOf(letters[k]), TRUE, << >>)]
        given(v) == <<Use(FlagOf(letters[m]), TRUE, v)>>
    IN  IF rest = << >> THEN << >>
        ELSE CASE arg = <<"--">> -> [k \in 1 .. Len(rest) - 1 |-> Use("positional", TRUE, rest[k + 1])]
               [] IsLong(arg) /\ Len(arg) > 2 -> <<Use(f, TRUE, Drop(arg, 3))>> \o bare(1)
               [] IsLong(arg) /\ Len(arg) = 2 /\ TakesValue(f) /\ arg[2] # v1Flags[f].negated ->
                      <<Use(f, TRUE, rest[2])>> \o bare(2)
               [] IsLong(arg) /\ Len(arg) = 2 /\ ~(TakesValue(f) /\ arg[2] # v1Flags[f].negated) ->
                      <<Use(f, arg[2] # v1Flags[f].negated, << >>)>> \o bare(1)
               [] IsShort(arg) /\ m < Len(letters) -> switches \o given(Drop(letters, m)) \o bare(1)
               [] IsShort(arg) /\ m = Len(letters) -> switches \o given(rest[2]) \o bare(2)
               [] IsShort(arg) /\ m > Len(letters) -> switches \o bare(1)
               [] OTHER -> <<Use("positional", TRUE, arg)>> \o bare(1)

\* The last of the uses u of a flag of the set f; 0 if there is none.
Latest(u, f) == Max({0} \cup {k \in DOMAIN u : u[k].flag \in f})
LatestOn(u, f) == Max({0} \cup {k \in DOMAIN u : u[k].flag \in f /\ u[k].on})
NthU(u, n) ==
    LET us == {k \in DOMAIN u : u[k].flag = "unrestricted"}
    IN  Max({0} \cup {k \in us : Cardinality({j \in us : j <= k}) = n})
Values(u, f) == LET own == SelectSeq(u, LAMBDA x : x.flag = f) IN [k \in DOMAIN own |-> own[k].value]

\* Whether the last word on a switch is that it is on: its flag's, --no-ignore's, the n-th -u's.
Enabled(u, flags, n) ==
    LET k == Latest(u, flags)
    IN  NthU(u, n) > k \/ (k > 0 /\ u[k].on)

ModesFlags == {"count", "files-with-matches", "count-matches", "files-without-match", "files"}

Accepted == i > Len(args) /\ phase \notin {"parsing", "exit"}

\* What a command line with the uses u is parsed into; and below, how it prints.
LastFlags(u) ==
    LET case == Latest(u, {"ignore-case", "case-sensitive", "smart-case"})
        mode == Latest(u, ModesFlags \cup {"type-list"})
        ends == Latest(u, {"sort", "sortr"})
        buffer == Latest(u, {"line-buffered", "block-buffered"})
        pos == Values(u, "positional")
        given == Values(u, "regexp") # << >> \/ Values(u, "file") # << >>
        passThru == Latest(u, {"passthru"})
        context == Latest(u, {"before-context", "after-context", "context"})
        side(f) == LET own == Latest(u, {f})
                       both == Latest(u, {"context"})
                   IN  CASE own > passThru -> Number(u[own].value)
                         [] own <= passThru /\ both > passThru -> Number(u[both].value)
                         [] OTHER -> 0
        pathsOnly == given \/ cfg.Mode = "files" \/ cfg.Mode = "types"
    IN  /\ cfg.Case = CASE case = 0 -> "sensitive"
                        [] case > 0 /\ u[case].flag = "ignore-case" -> "insensitive"
                        [] case > 0 /\ u[case].flag = "smart-case" -> "smart"
                        [] OTHER -> "sensitive"
        /\ cfg.Word = (Latest(u, {"word-regexp"}) > Latest(u, {"line-regexp"}))
        /\ cfg.LineRegexp = (Latest(u, {"line-regexp"}) > Latest(u, {"word-regexp"}))
        /\ cfg.CRLF = (LatestOn(u, {"crlf"}) > Max({Latest(u, {"null-data"}), 0} \cup
                           {k \in DOMAIN u : u[k].flag = "crlf" /\ ~u[k].on}))
        /\ cfg.NullData = (Latest(u, {"null-data"}) > LatestOn(u, {"crlf"}))
        /\ cfg.Mode = CASE mode = 0 -> "standard"
                        [] mode > 0 /\ u[mode].flag = "type-list" -> "types"
                        [] OTHER -> u[mode].flag
        /\ cfg.NoIgnoreDot = Enabled(u, {"no-ignore", "no-ignore-dot"}, 1)
        /\ cfg.NoIgnoreVcs = Enabled(u, {"no-ignore", "no-ignore-vcs"}, 1)
        /\ cfg.NoIgnoreParent = Enabled(u, {"no-ignore", "no-ignore-parent"}, 1)
        /\ cfg.NoIgnoreGlobal = Enabled(u, {"no-ignore", "no-ignore-global"}, 1)
        /\ cfg.NoIgnoreExclude = Enabled(u, {"no-ignore", "no-ignore-exclude"}, 1)
        /\ cfg.NoIgnoreFiles = Enabled(u, {"no-ignore-files"}, 4)
        /\ cfg.Hidden = Enabled(u, {"hidden"}, 2)
        /\ cfg.Binary = CASE NthU(u, 3) > Latest(u, {"text"}) -> "suppress"
                          [] NthU(u, 3) <= Latest(u, {"text"}) /\ LatestOn(u, {"text"}) = Latest(u, {"text"})
                             /\ Latest(u, {"text"}) > 0 -> "text"
                          [] OTHER -> "auto"
        /\ cfg.Sort = IF ends = 0 THEN [kind |-> "none", reverse |-> FALSE]
                      ELSE [kind |-> u[ends].value[1], reverse |-> u[ends].flag = "sortr"]
        /\ cfg.Buffer = CASE buffer = 0 \/ ~u[buffer].on -> "auto"
                          [] buffer > 0 /\ u[buffer].on /\ u[buffer].flag = "line-buffered" -> "line"
                          [] OTHER -> "block"
        /\ cfg.PassThru = (passThru > context)
        /\ cfg.ContextBefore = side("before-context")
        /\ cfg.ContextAfter = side("after-context")
        /\ cfg.Globs = Values(u, "glob") /\ cfg.IGlobs = Values(u, "iglob")
        /\ cfg.Patterns = IF pathsOnly THEN Values(u, "regexp") ELSE <<pos[1]>>
        /\ cfg.Paths = IF pathsOnly THEN pos ELSE Tail(pos)

\* Of the flags that contradict one another the last given holds, wherever and however it was
\* written: in a cluster, with "=", negated, as the first of several -u; and the lists keep their
\* order (buildV1Flags, parseLongFlag, parseShortCluster, ParseArgs).  --passthru and the context
\* flags revoke one another; of the context flags behind the last --passthru -A and -B decide
\* their own side over -C, in whatever order they come (resolveContext).
LastFlagHolds == Accepted => LastFlags(Uses(args))

PrintsFor(u) ==
    LET says(f, g) == Latest(u, {f}) > Latest(u, {g})
        denied(f) == Latest(u, {f}) > 0 /\ ~u[Latest(u, {f})].on
        vimgrep == Latest(u, {"vimgrep"}) > 0
        json == Latest(u, {"json"}) > 0 /\ ~denied("json") /\ cfg.Mode = "standard"
    IN  /\ vimgrep => /\ ~plan.heading
                      /\ plan.showPath \/ says("no-filename", "with-filename")
                      /\ plan.column \/ denied("column")
                      /\ plan.lineNumbers \/ says("no-line-number", "line-number")
        /\ plan.column => plan.lineNumbers \/ says("no-line-number", "line-number")
        /\ json <=> plan.sink = "json"
        /\ json => plan.lineNumbers /\ plan.summary /\ ~plan.stats
        /\ plan.sink \in {"quiet", "discard"} <=> cfg.Quiet /\ ~json
        /\ plan.sink = "quiet" => ~plan.stats
        /\ plan.counted => plan.stats /\ plan.sink = "standard"

\* With --vimgrep every line stands for itself, unless one of the flags for its parts says no; JSON
\* wins over quiet, and only where lines are printed; and without a terminal nothing is added unasked (execute).
PrintsAsAsked == plan # << >> => PrintsFor(Uses(args))

\* A command line is parsed into what its last words say, and prints accordingly.
CommandLineObeyed == LastFlagHolds /\ PrintsAsAsked

-----------------------------------------------------------------------------
(* The ignore files.                                                       *)

\* The directories whose files matter below those walked, outermost first.
Levels(walked) ==
    LET above == PathsAbove(walked[1].abs)
    IN  (IF cfg.NoIgnoreParent THEN << >>
         ELSE [k \in DOMAIN above |-> [abs |-> above[k], dir |-> DirAt[above[k]]]])
        \o [k \in DOMAIN walked |-> [abs |-> walked[k].abs, dir |-> walked[k].dir]]

Read(lines, ci) == LET l == Usable(WithoutBOM(lines)) IN [k \in DOMAIN l |-> [text |-> l[k], ci |-> ci]]
LinesSay(lines, path, isDir) ==
    IF \E k \in DOMAIN lines : ~CompileLine(lines[k].text, lines[k].ci).ok THEN "NoMatch"
    ELSE GitVerdict(lines, path, isDir)
FileSays(file, ci, path, isDir) ==
    LinesSay(IF file = << >> THEN << >> ELSE Read(file[1], ci), path, isDir)

\* What the files of a directory are shown of an absolute path: the part below the directory.
\* Those of "/" are shown all of it (matched).
Under(abs, dir) == IF dir = <<"/">> THEN abs ELSE Drop(abs, Len(dir) + 1)

Decisive(verdicts) == {k \in DOMAIN verdicts : verdicts[k] # "NoMatch"}
Highest(verdicts) == IF Decisive(verdicts) = {} THEN "NoMatch" ELSE verdicts[Min(Decisive(verdicts))]

\* Kind by kind the innermost file with an opinion; git's own only in a repository, from its root on.
Repositories(at) == {k \in DOMAIN at : world.marker[at[k].dir] # "none"}
InRepo(at) == cfg.NoRequireGit \/ Repositories(at) # {}
Applies(kind, k, at) ==
    LET git == /\ ~cfg.NoIgnoreVcs /\ InRepo(at)
               /\ cfg.NoRequireGit \/ \A r \in Repositories(at) : k >= r
    IN  CASE kind \in {"rgignore", "ignore"} -> ~cfg.NoIgnoreDot
          [] kind = "gitignore" -> git
          [] kind = "exclude" -> git /\ ~cfg.NoIgnoreExclude /\ world.marker[at[k].dir] \in {"git", "worktree"}
KindSays(kind, at, abs, isDir) ==
    Highest([j \in DOMAIN at |->
        LET k == Len(at) + 1 - j
        IN  IF Applies(kind, k, at)
            THEN FileSays(FileIn(world, at[k].dir, kind), cfg.IgnoreCaseInsensitive, Under(abs, at[k].abs), isDir)
            ELSE "NoMatch"])

\* The file a git configuration names, or git's default one; and those of --ignore-file, as if one.
GlobalFile ==
    LET names == (IF world.home THEN world.gitconfig ELSE << >>)
                 \o (IF world.configDir THEN world.xdgconfig ELSE << >>)
    IN  CASE names # << >> -> Named(world, names[1])
          [] names = << >> /\ world.configDir -> world.default
          [] OTHER -> << >>
ExplicitFile == <<FlattenSeq([k \in DOMAIN cfg.IgnoreFiles |-> FlattenSeq(Named(world, cfg.IgnoreFiles[k]))])>>
FromCwd(path) ==
    LET below == IF Cwd = <<"/">> THEN Cwd ELSE Cwd \o <<"/">>
    IN  IF StartsWith(path, below) THEN Drop(path, Len(below)) ELSE path

LevelsSay(at, abs, path, isDir) ==
    LET global == InRepo(at) /\ ~cfg.NoIgnoreVcs /\ ~cfg.NoIgnoreGlobal
        kinds == <<"rgignore", "ignore", "gitignore", "exclude">>
        named == <<IF global THEN GlobalFile ELSE << >>, IF cfg.NoIgnoreFiles THEN << >> ELSE ExplicitFile>>
        ci == <<cfg.IgnoreCaseInsensitive, FALSE>>
    IN  Highest([k \in 1 .. 4 |-> KindSays(kinds[k], at, abs, isDir)]
                \o [k \in 1 .. 2 |-> FileSays(named[k], ci[k], FromCwd(path), isDir)])
StackSays(walked, abs, path, isDir) == LevelsSay(Levels(walked), abs, path, isDir)

EntryPath(e) == JoinPath(Last(trail).path, e.name)
EntryAbs(e) == JoinPath(Last(trail).abs, e.name)

\* The chain of nodes says of every entry what the files say read one by one: the kind decides before
\* the place, the inner file before the outer, and a repository keeps git's outer files out (matched).
IgnorePrecedence ==
    phase = "listing" => \A e \in Listing[task.dir] :
        (IF opts.ignoreActive
         THEN matched(task.ignore, EntryAbs(e), EntryPath(e), e.type = "dir", opts.ctx) ELSE "NoMatch")
        = StackSays(trail, EntryAbs(e), EntryPath(e), e.type = "dir")

-----------------------------------------------------------------------------
(* -g, and -t with its kin.                                                *)

\* The last -g, then the last --iglob, that matches decides; "!" means out.
GlobsSay(all, hits, isDir) ==
    CASE hits # {} -> IF all[Max(hits)][1] = "!" THEN "Ignored" ELSE "Whitelisted"
      [] hits = {} /\ ~isDir /\ (\E k \in DOMAIN all : all[k][1] # "!") -> "Ignored"
      [] OTHER -> "NoMatch"
GlobSays(path, isDir) ==
    LET all == cfg.Globs \o cfg.IGlobs
        body(line) == IF line[1] = "!" THEN Tail(line) ELSE line
        ci(k) == cfg.GlobCaseInsensitive \/ k > Len(cfg.Globs)
    IN  GlobsSay(all, {k \in DOMAIN all : LineMatches(body(all[k]), ci(k), path, isDir)}, isDir)

\* The compiled Set of the -g globs says of every path what their text says, whichever
\* class each was put in (Set.Match, classifyFast, buildGlobs).
GlobsMeanWhatTheySay ==
    phase = "listing" => \A e \in Listing[task.dir] :
        LET isDir == e.type = "dir"
            v == Verdict(opts.globs.set, EntryPath(e), isDir)
        IN  (IF v = "NoMatch" /\ opts.globs.requireMatch /\ ~isDir THEN "Ignored" ELSE v)
            = GlobSays(EntryPath(e), isDir)

\* The globs a type's name has after the first n changes.
RECURSIVE TypeGlobs(_, _)
TypeGlobs(name, n) ==
    IF n = 0 THEN IF name \in DOMAIN DefaultTypes THEN ToSet(DefaultTypes[name]) ELSE {}
    ELSE LET c == cfg.TypeChanges[n]
             parts == SplitAt(c.arg, ":")
             own == c.kind = "Add" /\ parts[1] = name
         IN  CASE c.kind = "Clear" /\ c.arg = name -> {}
               [] own /\ Len(parts) = 2 -> TypeGlobs(name, n - 1) \cup {parts[2]}
               [] own /\ Len(parts) = 3 ->
                      TypeGlobs(name, n - 1)
                      \cup UNION {TypeGlobs(t, n - 1) : t \in ToSet(SplitAt(parts[3], ","))}
               [] OTHER -> TypeGlobs(name, n - 1)

\* The last -t or -T for a type the file has decides.  "all" covers the types of its moment.
TypeNames == DOMAIN DefaultTypes
             \cup {SplitAt(cfg.TypeChanges[k].arg, ":")[1] : k \in DOMAIN cfg.TypeChanges}
ChosenTypes(k) ==
    CASE cfg.TypeChanges[k].kind \notin {"Select", "Negate"} -> {}
      [] cfg.TypeChanges[k].kind \in {"Select", "Negate"} /\ cfg.TypeChanges[k].arg = <<"all">> ->
             {t \in TypeNames : TypeGlobs(t, k) # {}}
      [] OTHER -> {cfg.TypeChanges[k].arg}
HasType(path, name) ==
    \E g \in TypeGlobs(name, Len(cfg.TypeChanges)) : LineMatches(escapeGlobSpecials(g), FALSE, path, FALSE)
ChoicesSay(hits) ==
    CASE hits # {} -> IF cfg.TypeChanges[Max(hits)].kind = "Select" THEN "Whitelisted" ELSE "Ignored"
      [] hits = {} /\ (\E k \in DOMAIN cfg.TypeChanges :
                          cfg.TypeChanges[k].kind = "Select" /\ ChosenTypes(k) # {}) -> "Ignored"
      [] OTHER -> "NoMatch"
TypesSay(path) ==
    ChoicesSay({k \in DOMAIN cfg.TypeChanges : \E t \in ChosenTypes(k) : HasType(path, t)})

\* A file is kept or left out by the last type given that it has, with the globs the type ends up with;
\* one with a separator in it is for the path from the directory walked (Build).
TypesLastWin ==
    phase = "listing" => \A e \in Listing[task.dir] :
        e.type # "dir" =>
            LET v == Verdict(opts.types.set, EntryPath(e), FALSE)
            IN  (IF v = "NoMatch" /\ opts.types.requireMatch THEN "Ignored" ELSE v) = TypesSay(EntryPath(e))

-----------------------------------------------------------------------------

\* Expected fate of entry e of the last of the directories walked: -g before what an ignore file
\* leaves out, that before the types, those before what an ignore file keeps.
Combined(globs, stack, types) ==
    Highest(<<globs, IF stack = "Ignored" THEN stack ELSE "NoMatch", types, stack>>)
ExpectedOf(verdict, walked, e) ==
    LET out == \/ verdict = "Ignored"
               \/ verdict = "NoMatch" /\ e.name[1] = "." /\ ~cfg.Hidden
               \/ cfg.MaxDepth # << >> /\ Len(walked) > cfg.MaxDepth[1]
        followed == e.type = "link" /\ cfg.FollowSymlinks
        type == IF followed THEN e.target ELSE e.type
        limited == cfg.MaxFilesize > 0 /\ e.size > cfg.MaxFilesize
    IN  CASE out -> "skipped"
          [] ~out /\ type = "none" -> "broken"
          [] ~out /\ type = "file" /\ limited -> "skipped"
          [] ~out /\ followed /\ type = "dir" /\ (\E k \in DOMAIN walked : walked[k].dir = e.to) -> "loop"
          [] OTHER -> type
VerdictOf(walked, abs, path, isDir) ==
    Combined(GlobSays(path, isDir), StackSays(walked, abs, path, isDir),
             IF isDir THEN "NoMatch" ELSE TypesSay(path))
Expected(walked, e) ==
    ExpectedOf(VerdictOf(walked, JoinPath(Last(walked).abs, e.name), JoinPath(Last(walked).path, e.name),
                         e.type = "dir"), walked, e)

\* The fate of every entry is the one its path, the flags and the files on disk give it, and only a
\* file the walk came upon is given up at a NUL byte (classify, processDir, followSymlink,
\* resolveBinaryMode).  However the walk got to where it is, a link never takes it into a
\* directory it is already in (pushSymAncestor, loops), and it is for its device, and under
\* --one-file-system only, that a directory it decided to enter is left alone (processDir).
EntryDecided ==
    /\ phase = "listing" /\ cfg.OneFileSystem =>
        \A k \in DOMAIN trail : Device[trail[k].dir] = Device[trail[1].dir]
    /\ phase = "settled" /\ fate # << >> /\ fate.outcome = "dir" =>
        cfg.OneFileSystem /\ Device[task.dir] # Device[trail[1].dir]
    /\ \A k \in DOMAIN trail : trail[k].linked => \A j \in 1 .. k - 1 : trail[j].dir # trail[k].dir
    /\ fate # << >> /\ trail # << >> =>
        fate.outcome = Expected(IF fate.outcome = "dir" THEN Front(trail) ELSE trail, fate.entry)
    /\ fate # << >> /\ fate.outcome = "file" =>
        (fate.binary = "quit" <=> trail # << >> /\ cfg.Binary = "auto" /\ ~cfg.NullData)

=============================================================================
