---------------------------- MODULE MCCommandLine ----------------------------
(* The disk, the command lines and the ignore files of the run "commandline". *)
EXTENDS CommandLineProps

Text(s) == [k \in 1 .. Len(s) |-> SubSeq(s, k, k)]
Texts(S) == {Text(s) : s \in S}

MCAlphabet == <<" ", "!", "#", "*", ",", "-", ".", "/", "?", "A", "[", "\\", "]", "^", "a", "b", "c", "{", "}">>

-----------------------------------------------------------------------------
(* The tree: /p/r is the current directory.  a/u leads up, a/s and s/k round, b is another device. *)

File(name, size) == [name |-> Text(name), type |-> "file", target |-> "none", to |-> "none", size |-> size]
Dir(name, to) == [name |-> Text(name), type |-> "dir", target |-> "none", to |-> to, size |-> 0]
Link(name, target, to, size) == [name |-> Text(name), type |-> "link", target |-> target, to |-> to, size |-> size]

MCListing ==
    [top |-> {Dir("p", "p")}, p |-> {Dir("r", "r")},
     r |-> {Dir("a", "a"), Dir("b", "b"), File("b.a", 3), File(".b", 1), File("A", 1), Link("s", "dir", "c", 0)},
     a |-> {File("b", 1), File("a.b", 2), Dir(".a", "h"), Link("u", "dir", "r", 0), Link("s", "dir", "c", 0),
            Link("x", "none", "none", 0), Link("f.a", "file", "none", 3)},
     c |-> {Link("k", "dir", "a", 0), File("a", 1)},
     b |-> {File("a", 1)},
     h |-> {File("b", 1)}]
MCDevice == [d \in DOMAIN MCListing |-> IF d = "b" THEN 2 ELSE 1]
MCCwd == Text("/p/r")
At2(type, target, to, abs, size) ==
    [name |-> << >>, type |-> type, target |-> target, to |-> to, abs |-> Text(abs), size |-> size]
MCPathTo ==
       << >> :> At2("dir", "none", "r", "/p/r", 0)
    @@ Text("/p/r") :> At2("dir", "none", "r", "/p/r", 0)
    @@ Text("a") :> At2("dir", "none", "a", "/p/r/a", 0)
    @@ Text("s") :> At2("link", "dir", "c", "/p/r/s", 0)
    @@ Text("A") :> At2("file", "none", "none", "/p/r/A", 1)
MCDirAt == Text("/") :> "top" @@ Text("/p") :> "p" @@ Text("/p/r") :> "r" @@ Text("/p/r/a") :> "a"

MCDefaultTypes == <<"x">> :> <<Text("*.a")>> @@ <<"y">> :> <<Text("*.b"), Text("A")>>

-----------------------------------------------------------------------------
(* Command lines.  A token is written as the words its pieces spell.        *)

Long(name) == <<"--", name>>
Cluster(s) == <<"-">> \o Text(s)
With1(name, v) == <<"--", name, "=">> \o v
X == <<<<"x">>>>                 \* the pattern
Lists(S, n) == UNION {[1 .. k -> S] : k \in 1 .. n}
Before(S, rest) == {s \o rest : s \in S}
Lines(S, flag) == {<<flag \o l>> : l \in S}

Sample(spec) ==
    CASE spec.read \in {"number", "pointer", "context"} -> Text("1")
      [] spec.read = "size" -> Text("2")
      [] spec.read = "color" -> <<"never">>
      [] spec.read \in {"sort", "sortr"} -> <<"path">>
      [] spec.read = "list" -> <<"b">>
      [] OTHER -> <<"x">>
\* Every spelling of every flag.
EveryFlag ==
    {IF longIndex[n].spec.kind = "value" /\ ~longIndex[n].negate
     THEN With1(n, Sample(longIndex[n].spec)) ELSE Long(n) : n \in DOMAIN longIndex}
    \cup {IF shortIndex[c].kind = "value" THEN <<"-", c>> \o Sample(shortIndex[c]) ELSE <<"-", c>> :
              c \in DOMAIN shortIndex}

Shapes ==
    {<<Cluster("ivA2"), <<"x">>>>, <<Cluster("wA"), Text("2"), <<"x">>>>, <<Cluster("A"), <<"-", "5">>, <<"x">>>>,
     <<<<"x">>, Cluster("A")>>, <<Cluster("e"), Cluster("i")>>, <<Cluster("e"), Cluster("i"), <<"a">>>>,
     <<<<"--">>, Cluster("i")>>, <<<<"--">>>>, <<<<"x">>, <<"--">>, Text("a")>>, << >>,
     <<Long("context"), Text("2"), <<"x">>>>, <<Long("context")>>, <<With1("hidden", <<"1">>), <<"x">>>>,
     <<With1("no-context-separator", <<"1">>), <<"x">>>>, <<Long("bogus"), <<"x">>>>, <<Cluster("Z")>>,
     <<Cluster("r")>>, <<Long("pcre2")>>, <<Cluster("uuu"), <<"x">>>>, <<Cluster("uuuu"), <<"x">>>>,
     <<<<"x">>, <<"-">>>>, <<With1("sort", << >>), <<"x">>>>, <<With1("sort", <<"created">>), <<"x">>>>,
     <<With1("color", <<"red">>), <<"x">>>>, <<Long("files")>>, <<Long("files"), Text("a")>>,
     <<Long("type-list"), With1("type-clear", <<"x">>), With1("type-clear", <<"y">>)>>,
     <<Cluster("F"), <<"(">>>>, <<<<"(">>>>, <<Cluster("f"), <<"no">>>>, <<Cluster("f"), <<"empty">>>>,
     <<Cluster("f"), <<"some">>, Cluster("e"), <<"y">>, Text("a")>>}
    \cup {<<With1("max-filesize", Text(s)), <<"x">>>> :
              s \in {"2", "1K", "9G", "K", "1k", "31", "32", "16", "99", "15", "1M"}}
    \cup {<<With1("max-depth", Text(s)), <<"x">>>> : s \in {"0", "1", "2", "16", "a"}}
    \cup {<<<<"x">>, p>> : p \in {Text("/p/r"), Text("a"), Text("s"), Text("A"), Text("no")}}
    \cup {<<Cluster("L"), <<"x">>, Text("s")>>, <<<<"x">>, Text("a"), Text("A")>>}

ContextLines == Lists({Cluster("A1"), Cluster("B2"), Cluster("C3"), Long("passthru")}, 3)
LevelLines == Lists({Cluster("u"), Cluster("uu"), Long("ignore"), Long("ignore-vcs"), Long("no-hidden"),
                     Long("hidden"), Cluster("a"), Long("no-text")}, 3)
EndLines == Lists({Long("crlf"), Long("no-crlf"), Long("null-data"), Cluster("w"), Cluster("x"),
                   Long("line-buffered"), Long("no-block-buffered"), Long("block-buffered"),
                   With1("sort", <<"path">>), With1("sortr", <<"modified">>)}, 2)
              \cup Lists({Long("crlf"), Long("no-crlf"), Long("null-data")}, 3)
ShownLines ==
    {<<a>> \o s : a \in {Long("vimgrep"), Long("json"), Cluster("q")},
                  s \in Lists({Long("json"), Long("no-json"), Cluster("q"), Long("stats"), Cluster("c"),
                               Long("files"), Cluster("N"), Cluster("n"), Cluster("I"), Cluster("H"),
                               Long("heading"), Long("no-column"), Long("column")}, 2)}
TypeLines1 ==
    Lists({<<"-", "t", "x">>, <<"-", "T", "x">>, <<"-", "t", "all">>, <<"-", "T", "all">>, <<"-", "t", "z">>,
           With1("type-add", <<"z", ":">> \o Text("*b")), With1("type-add", <<"x", ":">> \o Text("!b")),
           With1("type-clear", <<"x">>), With1("type-add", <<"z", ":", "include", ":", "x", ",", "y">>)}, 3)
TypeLines2 ==
    Lists({<<"-", "t", "z">>, <<"-", "T", "z">>, With1("type-add", <<"z", ":">> \o Text("a/b")),
           With1("type-add", <<"z", ":">> \o Text("**/.a/*"))}, 3)
PlaceLines == Lists({Cluster("L"), Long("one-file-system"), With1("max-depth", Text("2")),
                     With1("max-filesize", Text("2")), Cluster("."), Cluster("tx"), Cluster("g!b")}, 3)

TextLines == Texts({"b", "*.b", "a", "/b", "A", "a/", "!b", "!*.b", "a/b", "!a/b", "**/a.b", ".a/**", "?", "*"})
OtherLines == Texts(
    {"[ab]", "*.[ab]", "[!a]", "[a", "[a-b]*", "{a,b}", "*.{a,b}", "{a,}b", "\\!a", "a\\b", "a/**/b", "a/**",
     "/**/a", "#a", "*[ab]a*", "[abc]", "a?b", "*a*", "*.a.*", "a*b", "a*.*", "*.*b", "**/.a/b", "/a/*", "/*/b",
     "a/*.b", "**/*.a", "*.", ".*", "[^a]", "a,b", "{a,b}/a", "a/b/", "!/a", "*/a", "**/**", "a**", "/A",
     ".[ab]", "a.[ab]", "[.]b", "a/[ab]", "a/*/b", "*/.a/b", "b.?", "?.b", "{.,a}*", "{b,a.b}", "a/{b,a.b}",
     "[b-a]", "a{", "**a", "a/**/*", "b/a", "*/b", "a/.a", "[A-a]", "b*b",
     "a[!b]b", "a[!b]*", "*[!b]b", "a[.-?]b", "a[.-/]b", "**/a[.-/]b", "[!a]*[!b]b", "?[^.]*a", "a[!b]", "*[!b]"})
GlobLines == Lines(TextLines \cup OtherLines, <<"-", "g">>) \cup Lines(TextLines, <<"--", "iglob", "=">>)
             \cup {<<<<"-", "g">> \o a, <<"-", "g">> \o b>> : a, b \in TextLines}
             \cup {<<<<"--", "iglob", "=">> \o a, <<"-", "g">> \o b>> : a \in Texts({"a", "!a.B"}), b \in TextLines}

StackFlags == {Long("no-ignore"), Long("no-ignore-dot"), Long("no-ignore-exclude"), Long("no-ignore-global"),
               Long("no-ignore-parent"), Long("no-ignore-vcs"), Long("no-require-git"), Long("no-ignore-files"),
               Long("ignore-file-case-insensitive"), With1("ignore-file", <<"some">>)}
StackLines == {s \o X : s \in Lists(StackFlags, 1)}
              \cup {<<<<"x">>, Text("/p/r")>>,
                    <<With1("ignore-file", <<"no">>), With1("ignore-file", <<"some">>), <<"x">>, Text("/p/r")>>,
                    <<With1("ignore-file", <<"some">>), With1("ignore-file", <<"more">>), <<"x">>>>}

FlagLines == {<<t, <<"x">>>> : t \in EveryFlag} \cup Shapes
             \cup Before(ContextLines \cup LevelLines \cup EndLines \cup ShownLines \cup TypeLines1 \cup TypeLines2
                         \cup PlaceLines \cup GlobLines, X)
MCArgLists == FlagLines \cup StackLines \cup {X}

-----------------------------------------------------------------------------
(* Disks.                                                                  *)

Named1 == <<"some">> :> <<Text("b")>> @@ <<"more">> :> <<Text("!b"), Text("/A")>> @@ <<"empty">> :> << >>
          @@ <<"(">> :> <<Text("A")>>
Plain == [files |-> << >>, marker |-> [d \in DOMAIN MCListing |-> "none"], named |-> Named1,
          gitconfig |-> << >>, xdgconfig |-> << >>, default |-> << >>, home |-> TRUE, configDir |-> TRUE,
          tty |-> FALSE]
Slots == {"p", "r", "a"} \X {"rgignore", "ignore", "gitignore", "exclude"} \cup {<<"top", "gitignore">>}
Says == {<<Text("b")>>, <<Text("!b")>>}
SaysRoot == {<<Text("/p")>>, <<Text("/p/r/b")>>, <<Text("p/r/a/b")>>, <<Text("**/r/b")>>, <<Text("a/b")>>,
             <<Text("[!a]p/r/b")>>, <<Text("b"), Text("!/p/r/b")>>, <<Text("*"), Text("!p/r/a/*")>>}
SaysMore == Says \cup {<<Text("/b"), Text("a.b")>>, <<Text("a/b")>>, <<Text("*"), Text("!a/")>>,
                       <<Text("/r/a/b")>>, <<<<"BOM", "b", "\r">>, Text("# a"), Text(" ")>>, <<Text("B"), Text("a{")>>}
Files(n, contents) == UNION {[S -> contents] : S \in UNION {kSubset(k, Slots) : k \in 0 .. n}}
RootFiles == UNION {[{<<"top", kind>>} -> SaysRoot] : kind \in {"ignore", "gitignore"}}
Marked(f) == [d \in DOMAIN MCListing |-> IF d \in DOMAIN f THEN f[d] ELSE "none"]
Repos == {Marked(f) : f \in {<< >>, [r |-> "git"], [p |-> "git", a |-> "git"]}}
Markers == {Marked(f) : f \in {[p |-> "git"], [a |-> "jj"], [r |-> "worktree"], [r |-> "broken"],
                               [p |-> "jj", r |-> "git"]}}
OnDisk(files, markers) == {[Plain EXCEPT !.files = f, !.marker = m] : f \in files, m \in markers}
Globals == {[Plain EXCEPT !.marker = Marked([r |-> "git"]), !.gitconfig = g, !.xdgconfig = x,
                          !.default = <<<<Text("a.b")>>>>, !.home = h, !.configDir = c] :
               g \in {<< >>, <<<<"some">>>>}, x \in {<< >>, <<<<"more">>>>, <<<<"no">>>>}, h, c \in BOOLEAN}

MCWorlds(a) ==
    IF a = X THEN OnDisk(Files(2, Says), Repos) \cup OnDisk(Files(1, SaysMore), Markers)
                    \cup OnDisk(RootFiles, Repos) \cup Globals
    ELSE IF a \in StackLines
         THEN OnDisk(Files(1, Says), Repos) \cup OnDisk(Files(1, SaysMore), {Marked([r |-> "git"])}) \cup Globals
         ELSE {[Plain EXCEPT !.tty = (a[1] = Long("vimgrep") \/ Len(a) = 2),
                             !.files = <<"a", "ignore">> :> <<Text("!a.b"), Text(".a")>>]}

=============================================================================
