-------------------------------- MODULE Flags --------------------------------
(***************************************************************************)
(* cmd/gg's command line: the flags, what each does to the Config, and how *)
(* one argument is taken apart.  An argument is a sequence of pieces: a    *)
(* dash or two, the letters of a cluster, the name of a long flag, "=",    *)
(* the characters of a value.  A pointer that may be nil is a sequence of  *)
(* at most one element.                                                    *)
(***************************************************************************)
EXTENDS Integers, Sequences, SequencesExt, FiniteSets, FiniteSetsExt, TLC

CONSTANTS
    MaxInt, \* the largest signed integer; integers are two's complement
    Kilo    \* what the suffix K multiplies by; M and G are its powers

ASSUME FlagsAssumption == MaxInt \in Nat /\ Kilo \in Nat \ {0, 1}

MaxUint == 2 * MaxInt + 1

\* A Config before any flag, as ParseArgs makes it.
DefaultConfig ==
    [Patterns |-> << >>, PatternFiles |-> << >>, Paths |-> << >>, Case |-> "sensitive", Fixed |-> FALSE,
     Word |-> FALSE, LineRegexp |-> FALSE, Hidden |-> FALSE, NoIgnoreDot |-> FALSE,
     NoIgnoreExclude |-> FALSE, NoIgnoreGlobal |-> FALSE, NoIgnoreParent |-> FALSE,
     NoIgnoreVcs |-> FALSE, NoRequireGit |-> FALSE, NoIgnoreFiles |-> FALSE, IgnoreFiles |-> << >>,
     IgnoreCaseInsensitive |-> FALSE, Globs |-> << >>, IGlobs |-> << >>, GlobCaseInsensitive |-> FALSE,
     TypeChanges |-> << >>, Unrestricted |-> 0, MaxFilesize |-> 0, MaxDepth |-> << >>,
     FollowSymlinks |-> FALSE, OneFileSystem |-> FALSE, NoMessages |-> FALSE,
     NoIgnoreMessages |-> FALSE, LineNumbers |-> << >>, WithFilename |-> << >>, Heading |-> << >>,
     Column |-> << >>, Vimgrep |-> FALSE, ByteOffset |-> FALSE, OnlyMatching |-> FALSE,
     MaxColumns |-> 0, MaxColumnsPreview |-> FALSE, Trim |-> FALSE, Mode |-> "standard",
     IncludeZero |-> FALSE, CRLF |-> FALSE, NullData |-> FALSE, Null |-> FALSE,
     FieldMatchSeparator |-> "default", FieldContextSeparator |-> "default",
     ContextSeparator |-> "default", Quiet |-> FALSE, Color |-> "auto", ContextBefore |-> 0,
     ContextAfter |-> 0, PassThru |-> FALSE, Invert |-> FALSE, MaxCount |-> << >>, Stats |-> FALSE,
     JSON |-> FALSE, Buffer |-> "auto", Sort |-> [kind |-> "none", reverse |-> FALSE], Threads |-> 0,
     Binary |-> "auto", Mmap |-> "auto", Help |-> FALSE, Version |-> FALSE]

\* parseState, and what became of the parse.
NewParse ==
    [cfg |-> DefaultConfig, positionals |-> << >>, sawPattern |-> FALSE, uLevel |-> 0,
     before |-> << >>, after |-> << >>, both |-> << >>, passthru |-> FALSE,
     extra |-> 0, failed |-> FALSE]

Failed(p) == [p EXCEPT !.failed = TRUE]
With(p, settings) == [p EXCEPT !.cfg = settings @@ @]

-----------------------------------------------------------------------------
(* flagSpec.  A switch carries what it sets when on and when negated; a    *)
(* value flag the field it is for and how its text is read.                *)

Switch(short, negated, on, off) ==
    [kind |-> "switch", short |-> short, negated |-> negated, on |-> on, off |-> off, read |-> "none"]
Flip(short, negated, field) == Switch(short, negated, field :> TRUE, field :> FALSE)
Point(short, negated, field) == Switch(short, negated, field :> <<TRUE>>, field :> <<FALSE>>)
Puts(short, settings) == Switch(short, "", settings, settings)
Special(short, read) == [Switch(short, "", << >>, << >>) EXCEPT !.read = read]
Value(short, read, field) ==
    [kind |-> "value", short |-> short, negated |-> "", field |-> field, read |-> read]

IgnoreAll(on) ==
    [NoIgnoreDot |-> on, NoIgnoreExclude |-> on, NoIgnoreGlobal |-> on, NoIgnoreParent |-> on,
     NoIgnoreVcs |-> on]

PatternFlags ==
       "fixed-strings" :> Flip("F", "no-fixed-strings", "Fixed")
    @@ "ignore-case" :> Puts("i", [Case |-> "insensitive"])
    @@ "case-sensitive" :> Puts("s", [Case |-> "sensitive"])
    @@ "smart-case" :> Puts("S", [Case |-> "smart"])
    @@ "word-regexp" :> Puts("w", [Word |-> TRUE, LineRegexp |-> FALSE])
    @@ "line-regexp" :> Puts("x", [Word |-> FALSE, LineRegexp |-> TRUE])
    @@ "regexp" :> Value("e", "pattern", "Patterns")
    @@ "file" :> Value("f", "pattern", "PatternFiles")

IgnoreFlags ==
       "hidden" :> Flip(".", "no-hidden", "Hidden")
    @@ "no-ignore" :> Switch("", "ignore", IgnoreAll(TRUE), IgnoreAll(FALSE))
    @@ "no-ignore-dot" :> Flip("", "ignore-dot", "NoIgnoreDot")
    @@ "no-ignore-exclude" :> Flip("", "ignore-exclude", "NoIgnoreExclude")
    @@ "no-ignore-files" :> Flip("", "ignore-files", "NoIgnoreFiles")
    @@ "no-ignore-global" :> Flip("", "ignore-global", "NoIgnoreGlobal")
    @@ "no-ignore-parent" :> Flip("", "ignore-parent", "NoIgnoreParent")
    @@ "no-ignore-vcs" :> Flip("", "ignore-vcs", "NoIgnoreVcs")
    @@ "no-require-git" :> Flip("", "require-git", "NoRequireGit")
    @@ "follow" :> Flip("L", "no-follow", "FollowSymlinks")
    @@ "one-file-system" :> Flip("", "no-one-file-system", "OneFileSystem")
    @@ "no-messages" :> Flip("", "messages", "NoMessages")
    @@ "no-ignore-messages" :> Flip("", "ignore-messages", "NoIgnoreMessages")
    @@ "ignore-file" :> Value("", "list", "IgnoreFiles")

FilterFlags ==
       "ignore-file-case-insensitive" :>
           Flip("", "no-ignore-file-case-insensitive", "IgnoreCaseInsensitive")
    @@ "glob" :> Value("g", "list", "Globs")
    @@ "iglob" :> Value("", "list", "IGlobs")
    @@ "glob-case-insensitive" :> Flip("", "no-glob-case-insensitive", "GlobCaseInsensitive")
    @@ "max-depth" :> Value("d", "pointer", "MaxDepth")
    @@ "unrestricted" :> Special("u", "unrestricted")
    @@ "max-filesize" :> Value("", "size", "MaxFilesize")
    @@ "type" :> Value("t", "type", "Select")
    @@ "type-not" :> Value("T", "type", "Negate")
    @@ "type-add" :> Value("", "type", "Add")
    @@ "type-clear" :> Value("", "type", "Clear")
    @@ "type-list" :> Puts("", [Mode |-> "types"])

LineFlags ==
       "line-number" :> Puts("n", [LineNumbers |-> <<TRUE>>])
    @@ "no-line-number" :> Puts("N", [LineNumbers |-> <<FALSE>>])
    @@ "with-filename" :> Puts("H", [WithFilename |-> <<TRUE>>])
    @@ "no-filename" :> Puts("I", [WithFilename |-> <<FALSE>>])
    @@ "heading" :> Point("", "no-heading", "Heading")
    @@ "null" :> Puts("0", [Null |-> TRUE])
    @@ "crlf" :> Switch("", "no-crlf", [CRLF |-> TRUE, NullData |-> FALSE], [CRLF |-> FALSE])
    @@ "null-data" :> Puts("", [CRLF |-> FALSE, NullData |-> TRUE])
    @@ "column" :> Point("", "no-column", "Column")
    @@ "vimgrep" :> Puts("", [Vimgrep |-> TRUE])
    @@ "byte-offset" :> Flip("b", "no-byte-offset", "ByteOffset")
    @@ "only-matching" :> Puts("o", [OnlyMatching |-> TRUE])

ShapeFlags ==
       "max-columns" :> Value("M", "number", "MaxColumns")
    @@ "max-columns-preview" :> Flip("", "no-max-columns-preview", "MaxColumnsPreview")
    @@ "trim" :> Flip("", "no-trim", "Trim")
    @@ "field-match-separator" :> Value("", "separator", "FieldMatchSeparator")
    @@ "field-context-separator" :> Value("", "separator", "FieldContextSeparator")
    @@ "context-separator" :>
           [Value("", "separator", "ContextSeparator") EXCEPT !.negated = "no-context-separator"]

ModeFlags ==
       "count" :> Puts("c", [Mode |-> "count"])
    @@ "include-zero" :> Flip("", "no-include-zero", "IncludeZero")
    @@ "files-with-matches" :> Puts("l", [Mode |-> "files-with-matches"])
    @@ "count-matches" :> Puts("", [Mode |-> "count-matches"])
    @@ "files-without-match" :> Puts("", [Mode |-> "files-without-match"])
    @@ "files" :> Puts("", [Mode |-> "files"])
    @@ "quiet" :> Puts("q", [Quiet |-> TRUE])
    @@ "color" :> Value("", "color", "Color")
    @@ "after-context" :> Value("A", "context", "after")
    @@ "before-context" :> Value("B", "context", "before")
    @@ "context" :> Value("C", "context", "both")
    @@ "passthru" :> Special("", "passthru")
    @@ "invert-match" :> Flip("v", "no-invert-match", "Invert")

OtherFlags ==
       "stats" :> Flip("", "no-stats", "Stats")
    @@ "json" :> Flip("", "no-json", "JSON")
    @@ "line-buffered" :> Switch("", "no-line-buffered", [Buffer |-> "line"], [Buffer |-> "auto"])
    @@ "block-buffered" :> Switch("", "no-block-buffered", [Buffer |-> "block"], [Buffer |-> "auto"])
    @@ "sort" :> Value("", "sort", "Sort")
    @@ "sortr" :> Value("", "sortr", "Sort")
    @@ "max-count" :> Value("m", "pointer", "MaxCount")
    @@ "threads" :> Value("j", "number", "Threads")
    @@ "text" :> Switch("a", "no-text", [Binary |-> "text"], [Binary |-> "auto"])
    @@ "mmap" :> Switch("", "no-mmap", [Mmap |-> "always"], [Mmap |-> "never"])
    @@ "help" :> Puts("h", [Help |-> TRUE])
    @@ "version" :> Puts("V", [Version |-> TRUE])

v1Flags == PatternFlags @@ IgnoreFlags @@ FilterFlags @@ LineFlags @@ ShapeFlags @@ ModeFlags @@ OtherFlags

\* Flags of ripgrep that gg refuses by name.
NotImplementedLong == {"replace", "multiline", "multiline-dotall", "pcre2", "encoding", "search-zip", "binary"}
NotImplementedShort == {"r", "U", "P", "E", "z"}

\* The spellings of a flag: its name, its negation, its aliases.
longIndex ==
    LET entry(spec, negate) == [spec |-> spec, negate |-> negate]
        negations == {f \in DOMAIN v1Flags : v1Flags[f].negated # ""}
    IN     [f \in DOMAIN v1Flags |-> entry(v1Flags[f], FALSE)]
        @@ [n \in {v1Flags[f].negated : f \in negations} |->
               entry(v1Flags[CHOOSE f \in negations : v1Flags[f].negated = n], TRUE)]
        @@ "maxdepth" :> entry(v1Flags["max-depth"], FALSE)
        @@ "passthrough" :> entry(v1Flags["passthru"], FALSE)

shortIndex ==
    LET shorts == {f \in DOMAIN v1Flags : v1Flags[f].short # ""}
    IN  [c \in {v1Flags[f].short : f \in shorts} |-> v1Flags[CHOOSE f \in shorts : v1Flags[f].short = c]]
=============================================================================
