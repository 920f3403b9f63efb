------------------------------- MODULE Filters -------------------------------
(***************************************************************************)
(* What one walk does with one entry: the options execute and engine.Run   *)
(* make of a Config, the root it starts from, and the fate of an entry of  *)
(* a directory (walk/worker.go, walk/symlink.go).                          *)
(*                                                                         *)
(* The disk: Listing gives a directory's entries, Device its device, and   *)
(* PathTo and DirAt say what the paths of the command line and the         *)
(* absolute paths above them lead to.                                      *)
(***************************************************************************)
EXTENDS Arguments, Ignore, FileTypes

CONSTANTS
    Listing, \* directory -> its entries: [name, type, target, to, size]
    Device,  \* directory -> device number
    PathTo,  \* path of the command line -> [type, target, to, abs]; << >> is the current directory
    DirAt,   \* absolute path -> directory, for the ancestors of roots
    Cwd      \* the current directory's absolute path

Missing == [type |-> "missing"]
Stat(path) == IF path \in DOMAIN PathTo THEN PathTo[path] ELSE Missing

\* ResolvePaths: no path at all stands for the current directory.
WalkRoots(cfg) == IF cfg.Paths = << >> THEN <<<< >>>> ELSE cfg.Paths

\* The type of what a path names, links followed.
Resolved(e) == IF e.type = "link" THEN e.target ELSE e.type

\* walk.Options, as Run and Walk fill them in from the Config.
OptionsWith(cfg, explicit, global) ==
    [types |-> buildTypes(cfg.TypeChanges),
     globs |-> buildGlobs(cfg.Globs, cfg.IGlobs, cfg.GlobCaseInsensitive),
     ignoreActive |-> ~cfg.NoIgnoreDot \/ ~cfg.NoIgnoreVcs \/ explicit # << >> \/ global # << >>,
     ctx |-> [noIgnoreDot |-> cfg.NoIgnoreDot, noIgnoreVcs |-> cfg.NoIgnoreVcs,
              noIgnoreExclude |-> cfg.NoIgnoreExclude, noRequireGit |-> cfg.NoRequireGit,
              cwd |-> IF explicit # << >> \/ global # << >> THEN Cwd ELSE << >>,
              globalSet |-> global, explicitSet |-> explicit]]
Options(cfg, world) ==
    OptionsWith(cfg,
        IF cfg.NoIgnoreFiles \/ cfg.IgnoreFiles = << >> THEN << >>
        ELSE LoadExplicitIgnore(world, cfg.IgnoreFiles),
        IF cfg.NoIgnoreVcs \/ cfg.NoIgnoreGlobal THEN << >>
        ELSE LoadGlobalIgnore(world, cfg.IgnoreCaseInsensitive))

-----------------------------------------------------------------------------
(* Tasks.  A directory on the way: its display and absolute path, what it  *)
(* is, its depth, the nodes above it, the identities of the directories    *)
(* above it if links are followed, and the device it must be on.           *)

\* buildRootTask
RootTask(root, cfg, world, opts) ==
    LET e == Stat(root)
        paths == PathsAbove(e.abs)
        above == [k \in DOMAIN paths |-> [abs |-> paths[k], dir |-> DirAt[paths[k]]]]
    IN  [path |-> root, abs |-> e.abs, dir |-> e.to, depth |-> 0, symAncestors |-> {},
         ignore |-> IF opts.ignoreActive /\ ~cfg.NoIgnoreParent THEN buildParentChain(world, above, cfg)
                    ELSE << >>,
         rootDev |-> IF cfg.OneFileSystem THEN <<Device[e.to]>> ELSE << >>]

\* The first half of processDir: a directory of another device is left alone.
Foreign(t) == t.depth > 0 /\ t.rootDev # << >> /\ Device[t.dir] # t.rootDev[1]

\* The second: the node of what the listing shows, the identity of the directory.
Opened(t, cfg, world, opts) ==
    [t EXCEPT !.ignore = IF opts.ignoreActive THEN buildNode(@, world, t.dir, t.abs, cfg) ELSE << >>,
              !.symAncestors = IF cfg.FollowSymlinks THEN @ \cup {t.dir} ELSE @]

JoinPath(path, name) == IF path = << >> THEN name ELSE path \o <<"/">> \o name

Child(t, e) ==
    [t EXCEPT !.path = JoinPath(@, e.name), !.abs = JoinPath(@, e.name), !.dir = e.to, !.depth = @ + 1]

loops(t, e) == e.to \in t.symAncestors

\* classify: [skip, white].
Skip == [skip |-> TRUE, white |-> FALSE]
Keep(white) == [skip |-> FALSE, white |-> white]

ByTypeVerdict(v, types, white) ==
    CASE v = "Whitelisted" -> Keep(TRUE)
      [] v = "NoMatch" /\ ~types.requireMatch -> Keep(white)
      [] OTHER -> Skip
ByTypes(types, path, isDir, white) ==
    IF types.set = << >> \/ isDir THEN Keep(white)
    ELSE ByTypeVerdict(Verdict(types.set, path, FALSE), types, white)

\* mutant: what the ignore files whitelist is not asked about its type
ByIgnoreFinal(v, types, path, isDir) ==
    CASE v = "Ignored" -> Skip
      [] v = "Whitelisted" -> Keep(TRUE)
      [] OTHER -> ByTypes(types, path, isDir, FALSE)

\* v: the ignore files' verdict; and below, that of the -g globs.
ByIgnore(v, types, path, isDir) ==
    IF v = "Ignored" THEN Skip ELSE ByTypes(types, path, isDir, v = "Whitelisted")

ByGlobs(v, t, opts, path, abs, isDir) ==
    CASE v = "Ignored"     -> Skip
      [] v = "Whitelisted" -> Keep(TRUE)
      [] OTHER -> IF opts.globs.requireMatch /\ ~isDir THEN Skip
                  ELSE ByIgnore(IF opts.ignoreActive THEN matched(t.ignore, abs, path, isDir, opts.ctx)
                                ELSE "NoMatch", opts.types, path, isDir)

classify(t, opts, path, abs, isDir) == ByGlobs(Verdict(opts.globs.set, path, isDir), t, opts, path, abs, isDir)

TooLarge(e, cfg) == cfg.MaxFilesize > 0 /\ e.size > cfg.MaxFilesize

\* followSymlink
Follow(t, e, cfg) ==
    CASE e.target = "none" -> "broken"
      [] e.target = "dir"  -> IF loops(t, e) THEN "loop" ELSE "dir"
      [] e.target = "file" -> IF TooLarge(e, cfg) THEN "skipped" ELSE "file"

\* What becomes of entry e of directory t: what is reported of it, or "skipped".
LeftOut(c, t, e, cfg) ==
    \/ c.skip
    \/ ~c.white /\ e.name[1] = "." /\ ~cfg.Hidden
    \/ cfg.MaxDepth # << >> /\ t.depth + 1 > cfg.MaxDepth[1]
Outcome(t, e, cfg, opts) ==
    IF LeftOut(classify(t, opts, JoinPath(t.path, e.name), JoinPath(t.abs, e.name), e.type = "dir"), t, e, cfg)
    THEN "skipped"
    ELSE CASE e.type = "dir"  -> "dir"
           [] e.type = "link" -> IF cfg.FollowSymlinks THEN Follow(t, e, cfg) ELSE "link"
           [] e.type = "file" -> IF TooLarge(e, cfg) THEN "skipped" ELSE "file"

\* resolveBinaryMode, for a file at a depth; NUL ends lines under --null-data.
BinaryMode(cfg, depth) ==
    CASE cfg.NullData \/ cfg.Binary = "text" -> "none"
      [] ~cfg.NullData /\ cfg.Binary = "suppress" -> "convert"
      [] OTHER -> IF depth = 0 THEN "convert" ELSE "quit"

\* mmapEligible: only for a few paths that are all files.
MmapEligible(cfg) ==
    \/ cfg.Mmap = "always"
    \/ /\ cfg.Mmap = "auto" /\ Len(WalkRoots(cfg)) <= 10
       /\ \A k \in DOMAIN WalkRoots(cfg) : Resolved(Stat(WalkRoots(cfg)[k])) = "file"
=============================================================================
