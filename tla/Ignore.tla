-------------------------------- MODULE Ignore --------------------------------
(***************************************************************************)
(* The ignore files of a walk (walk/ignore.go): how they are loaded, the   *)
(* chain of nodes from the file system's root down to a directory, and     *)
(* what that chain says of an entry.  A Set that may be nil is a sequence  *)
(* of at most one sequence of compiled lines; a file that may be missing   *)
(* is a sequence of at most one sequence of lines.                         *)
(*                                                                         *)
(* A world is what the walk finds on disk:                                 *)
(*    files     <<directory, kind>> -> lines, for the ignore files present *)
(*    marker    directory -> "git", "jj", "worktree", "broken" or "none":  *)
(*              its .git or .jj; a .git file may point to a worktree's     *)
(*              directory or to nothing                                    *)
(*    named     name -> lines, the files named on the command line or in a *)
(*              git configuration                                          *)
(*    gitconfig, xdgconfig: the excludesFile in ~/.gitconfig and           *)
(*              git/config, at most one name each                          *)
(*    default   at most one content: git/ignore                            *)
(*    home, configDir: whether the environment names these directories     *)
(*    tty       whether standard output is a terminal                      *)
(***************************************************************************)
EXTENDS Glob

Blank == {" ", "\r", "\t"}
Trim(s) ==
    LET text == {k \in DOMAIN s : s[k] \notin Blank}
    IN  IF text = {} THEN << >> ELSE SubSeq(s, Min(text), Max(text))
WithoutBOM(lines) ==
    IF lines # << >> /\ At(lines[1], 1) = "BOM" THEN [lines EXCEPT ![1] = Tail(@)] ELSE lines

\* The usable lines of ignore files, one file's after the other's.
Usable(lines) ==
    LET trimmed == [k \in DOMAIN lines |-> Trim(lines[k])]
    IN  SelectSeq(trimmed, LAMBDA l : l # << >> /\ l[1] # "#")

\* A Set of lines; none at all if there is no line or one of them does not parse.
Built(set) == IF set = << >> \/ BuildFails(set) THEN << >> ELSE <<set>>
Compile(lines, ci) == Built([k \in DOMAIN lines |-> CompileLine(lines[k], ci)])

compileGlobData(lines, ci) == Compile(Usable(WithoutBOM(lines)), ci)
loadGlobSet(file, ci) == IF file = << >> THEN << >> ELSE compileGlobData(file[1], ci)

FileIn(world, dir, kind) ==
    IF <<dir, kind>> \in DOMAIN world.files THEN <<world.files[<<dir, kind>>]>> ELSE << >>
Named(world, name) == IF name \in DOMAIN world.named THEN <<world.named[name]>> ELSE << >>

HasGit(world, dir) == world.marker[dir] \in {"git", "worktree", "broken"}
HasJJ(world, dir) == world.marker[dir] = "jj"

\* The exclude file is in .git, or where a .git file points to.
gitExclude(world, dir) ==
    IF world.marker[dir] \in {"git", "worktree"} THEN FileIn(world, dir, "exclude") ELSE << >>

\* LoadExplicitIgnore: the files that cannot be read are only reported.
LoadExplicitIgnore(world, names) ==
    LET contents == [k \in DOMAIN names |->
            LET file == Named(world, names[k])
            IN  IF file = << >> THEN << >> ELSE Usable(WithoutBOM(file[1]))]
    IN  Compile(FlattenSeq(contents), FALSE)

\* LoadGlobalIgnore: the first configuration that names a file replaces the default.
LoadGlobalIgnore(world, ci) ==
    LET choices == (IF world.home THEN world.gitconfig ELSE << >>)
                   \o (IF world.configDir THEN world.xdgconfig ELSE << >>)
    IN  CASE choices # << >> -> loadGlobSet(Named(world, choices[1]), ci)
          [] choices = << >> /\ world.configDir -> loadGlobSet(world.default, ci)
          [] OTHER -> << >>

-----------------------------------------------------------------------------
(* Nodes.  A chain is the sequence of nodes from the outermost on.         *)

Inside(chain) == chain # << >> /\ Last(chain).insideGitRepo

\* The kinds of a directory's files, in order of precedence.
NodeFiles == <<"rgignore", "ignore", "gitignore", "exclude">>

\* buildNode: dir is the directory, abs its absolute path, both as found.
buildNode(chain, world, dir, abs, cfg) ==
    LET file(kind) == IF kind = "exclude" THEN gitExclude(world, dir) ELSE FileIn(world, dir, kind)
        marked == (HasGit(world, dir) \/ HasJJ(world, dir)) /\ ~cfg.NoRequireGit
    IN  Append(chain,
            [dir |-> abs,
             sets |-> [kind \in ToSet(NodeFiles) |-> loadGlobSet(file(kind), cfg.IgnoreCaseInsensitive)],
             hasGitSelf |-> marked, insideGitRepo |-> marked \/ Inside(chain)])

\* buildParentChain: above is the sequence of directories above a root, outermost first.
buildParentChain(world, above, cfg) ==
    FoldLeft(LAMBDA chain, d : buildNode(chain, world, d.dir, d.abs, cfg), << >>, above)

\* filepath.Dir of an absolute path: the directories above it, outermost first.
PathsAbove(abs) ==
    LET cuts == {k \in 2 .. Len(abs) : abs[k] = "/"}
        order == Upward(cuts, Len(abs))
    IN  IF abs = <<"/">> THEN << >>
        ELSE <<<<"/">>>> \o [k \in DOMAIN order |-> SubSeq(abs, 1, order[k] - 1)]

\* anchorToCwd
anchorToCwd(path, cwd) ==
    CASE cwd = << >> \/ At(path, 1) # "/" -> path
      [] cwd = <<"/">> /\ At(path, 1) = "/" -> Tail(path)
      [] OTHER -> IF StartsWith(path, cwd) /\ At(path, Len(cwd) + 1) = "/" THEN Drop(path, Len(cwd) + 1)
                  ELSE path

Verdict(set, path, isDir) == IF set = << >> THEN "NoMatch" ELSE SetMatch(set[1], path, isDir)
First(verdicts) ==
    LET decisive == SelectSeq(verdicts, LAMBDA v : v # "NoMatch")
    IN  IF decisive = << >> THEN "NoMatch" ELSE decisive[1]

\* Whether a node's file of a kind is asked; git: whether those of git are.
Asked(kind, git, ctx) ==
    CASE kind \in {"rgignore", "ignore"} -> ~ctx.noIgnoreDot
      [] kind = "gitignore" -> git
      [] kind = "exclude"   -> git /\ ~ctx.noIgnoreExclude
AskNode(v, node, rel, isDir, git, ctx) ==
    [said |-> [kind \in ToSet(NodeFiles) |->
                  IF Asked(kind, git, ctx) /\ v.said[kind] = "NoMatch"
                  THEN Verdict(node.sets[kind], rel, isDir) ELSE v.said[kind]],
     sawGit |-> v.sawGit \/ node.hasGitSelf]
RelativeTo(abs, dir) == IF dir = <<"/">> THEN abs ELSE Drop(abs, Len(dir) + 1)

\* mutant: the marker counts for its own node
AtNodeEarly(v, node, abs, isDir, anyGit, ctx) ==
    AskNode(v, node, RelativeTo(abs, node.dir), isDir,
            anyGit /\ ~v.sawGit /\ ~node.hasGitSelf /\ ~ctx.noIgnoreVcs, ctx)

\* One node's part in matched: v is what the nodes inside it have said.
\* The marker counts only for the nodes outside this one.
AtNode(v, node, abs, isDir, anyGit, ctx) ==
    AskNode(v, node, RelativeTo(abs, node.dir), isDir, anyGit /\ ~v.sawGit /\ ~ctx.noIgnoreVcs, ctx)

\* matched: per kind the innermost decisive node, then the kinds in order.
matched(chain, abs, path, isDir, ctx) ==
    LET anyGit == ctx.noRequireGit \/ Inside(chain)
        none == [said |-> [kind \in ToSet(NodeFiles) |-> "NoMatch"], sawGit |-> FALSE]
        nodes == FoldRight(LAMBDA node, v : AtNode(v, node, abs, isDir, anyGit, ctx), chain, none)
        gp == anchorToCwd(path, ctx.cwd)
    IN  First([k \in DOMAIN NodeFiles |-> nodes.said[NodeFiles[k]]]
              \o <<IF anyGit THEN Verdict(ctx.globalSet, gp, isDir) ELSE "NoMatch",
                   Verdict(ctx.explicitSet, gp, isDir)>>)
=============================================================================
