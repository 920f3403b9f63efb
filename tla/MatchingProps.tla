---------------------------- MODULE MatchingProps ----------------------------
(***************************************************************************)
(* What looking for a pattern means, stated line by line over the tree of  *)
(* the pattern, with no literals, scanners or whole buffers.               *)
(***************************************************************************)
EXTENDS Matching

\* The lines of the text, <<start, end>>.
Lines == LET ends == SelectSeq([k \in DOMAIN buf |-> k], LAMBDA k : buf[k] = lineTerm \/ k = Len(buf))
         IN  [k \in DOMAIN ends |-> <<IF k = 1 THEN 0 ELSE ends[k - 1], ends[k]>>]

\* The literal characters of a pattern as it is written.
RECURSIVE Written(_)
Written(re) ==
    CASE re.op = "Literal" -> Range(re.runes)
      [] re.op \in {"CharClass", "NotClass"} -> IF re.named THEN {} ELSE re.set
      [] re.op = "Repeat" -> Written(re.sub)
      [] re.op \in {"Concat", "Alternate"} -> UNION {Written(re.sub[k]) : k \in DOMAIN re.sub}
      [] OTHER -> {}

\* The pattern asked for: smart case folds if a letter is written, and no upper-case one.
Asked ==
    LET written == Written(config.re)
        fold == \/ config.case = "insensitive"
                \/ config.case = "smart" /\ written # {} /\ written \cap Uppers = {}
        re == IF config.nullData \/ config.lineRegexp THEN WithLines(config.re) ELSE config.re
    IN  IF fold THEN WithFold(re) ELSE re

\* An occurrence that -x and -w accept.
Occurs(text, s, e) ==
    /\ e \in Range(Ends(Asked, text, s))
    /\ config.lineRegexp => Holds("BeginLine", text, s) /\ Holds("EndLine", text, e)
    /\ config.word => ~AtWord(text, s - 1) /\ ~AtWord(text, e)
Matches(text) == \E s \in 0 .. Len(text) : \E e \in s .. Len(text) : Occurs(text, s, e)

\* Under --crlf and --null-data the lines are not those the engine knows: NonMatchingLineTerm is about
\* "\n" alone.  Nothing is claimed where it runs over a whole buffer with a pattern that takes a
\* terminator for one of its characters, or with the ^ and $ of -F -x.
RECURSIVE Takes(_, _)
Takes(re, c) ==
    \/ Accepts(re, c)
    \/ re.op = "Repeat" /\ Takes(re.sub, c)
    \/ re.op \in {"Concat", "Alternate"} /\ \E k \in DOMAIN re.sub : Takes(re.sub[k], c)
SeesMore ==
    /\ matcher.kind = "engine" /\ matcher.NonMatchingLineTerm
    /\ \/ config.nullData /\ (config.lineRegexp \/ Takes(config.re, "NUL"))
       \/ config.crlf /\ (config.lineRegexp \/ Takes(config.re, "\r"))

\* The scan for literals in a whole buffer, or for the pattern itself, finds the very lines that
\* the pattern matches one by one: a literal taken from it is in every match, no line is reported
\* for what is in another one, and folding, -x and -F mean what they say.  With -w an alternative
\* behind the preferred one is not tried, so that not all are found.
LinesAgree ==
    phase = "done" /\ ~SeesMore =>
        LET asked == SelectSeq(Lines, LAMBDA l : Matches(Window(l)))
        IN  /\ lines = SelectSeq(Lines, LAMBDA l : Verify(matcher, Window(l)))
            /\ Range(lines) \subseteq Range(asked)
            /\ ~config.word \/ config.re.op = "Literal" => lines = asked

\* Of several literals the one whose anchor comes first is found, which need not be the leftmost,
\* and of those with an empty one among them only that one.
Approximate ==
    /\ matcher.kind = "literal" /\ config.re.op = "Alternate"
    /\ matcher.scan.kind \in {"rareByteMulti", "everywhere"}

\* The occurrences the printer finds in a line, one call after the other and from where the last one
\* ended, are all those of one pass of the engine, also where they are empty, anchored, or found
\* as literals; and with -w each is one that is asked for.
OccurrencesRight ==
    phase = "done" /\ ~SeesMore =>
        \A k \in DOMAIN lines :
            LET text == Window(lines[k])
                whole == IF config.lineRegexp THEN Anchored(Asked) ELSE Asked
            IN  /\ \A j \in DOMAIN spans[k] : Occurs(text, spans[k][j][1], spans[k][j][2])
                /\ ~config.word /\ ~Approximate =>
                        spans[k] = SetToSortSeq(FindAll(whole, text), LAMBDA a, b : a[1] < b[1])
=============================================================================
