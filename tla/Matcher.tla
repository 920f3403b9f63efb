------------------------------- MODULE Matcher -------------------------------
(***************************************************************************)
(* src/match but its literals: how a configuration becomes a matcher       *)
(* (strategy.go, smartcase.go, nonmatch.go, engine.go), the scanners for   *)
(* literals (multilit.go, casefold.go), -w (word.go), and the matcher's    *)
(* operations.  A configuration has match.Config's fields and re, the tree *)
(* of its patterns' alternation.                                           *)
(***************************************************************************)
EXTENDS Literals

-----------------------------------------------------------------------------
(* Smart case looks at the text of a pattern.                              *)

Behind(text, c) == IF c \in Range(text) THEN Drop(text, SelectInSeq(text, LAMBDA x : x = c)) ELSE << >>
AfterProperty(text) == IF text # << >> /\ text[1] = "{" THEN Behind(text, "}") ELSE Drop(text, 1)

\* The literal characters inside brackets, up to the closing one, and the text behind it.
RECURSIVE scanClass(_, _)
scanClass(text, depth) ==
    LET on(n, found, d) == LET r == scanClass(Drop(text, n), d) IN [r EXCEPT !.found = found \o @]
        escape == SubSeq(text, 2, 2)
    IN  CASE text = << >> \/ depth = 0 -> [found |-> << >>, rest |-> text]
          [] text[1] = "\\" /\ escape \in {<<"p">>, <<"P">>} ->
                 scanClass(AfterProperty(Drop(text, 2)), depth)
          [] text[1] = "\\" /\ escape \notin {<<"p">>, <<"P">>} ->
                 on(2, IF escape \in {<<c>> : c \in {"d", "D", "s", "S", "w", "W"}} THEN << >> ELSE escape, depth)
          [] text[1] = "[" /\ SubSeq(text, 2, 2) # <<":">> -> on(1, << >>, depth + 1)
          [] text[1] = "[" /\ SubSeq(text, 2, 2) = <<":">> -> scanClass(Behind(text, "]"), depth)
          [] text[1] = "]" -> on(1, << >>, depth - 1)
          [] OTHER -> on(1, <<text[1]>>, depth)

\* The literal characters of a pattern.
RECURSIVE analyzePatternCase(_)
analyzePatternCase(text) ==
    LET on(n, found) == found \o analyzePatternCase(Drop(text, n))
        escape == SubSeq(text, 2, 2)
        open == Drop(text, IF SubSeq(text, 2, 2) = <<"^">> THEN 2 ELSE 1)
        bracket == IF SubSeq(open, 1, 1) = <<"]">> THEN <<"]">> ELSE << >>
        class == scanClass(Drop(open, Len(bracket)), 1)
    IN  CASE text = << >> -> << >>
          [] text[1] = "\\" /\ escape \in {<<"p">>, <<"P">>} -> analyzePatternCase(AfterProperty(Drop(text, 2)))
          [] text[1] = "\\" /\ escape \in {<<c>> : c \in {"d", "D", "s", "S", "w", "W", "b", "B", "A", "z"}} -> on(2, << >>)
          [] text[1] = "\\" /\ escape \notin {<<c>> : c \in {"p", "P", "d", "D", "s", "S", "w", "W", "b", "B", "A", "z"}} ->
                 on(2, escape)
          [] text[1] = "[" -> bracket \o class.found \o analyzePatternCase(class.rest)
          [] text[1] \in {".", "^", "$", "(", ")", "|", "*", "+", "?", "{", "}"} -> on(1, << >>)
          [] OTHER -> on(1, <<text[1]>>)

resolveCaseInsensitive(config) ==
    LET literals == FlattenSeq([k \in DOMAIN config.patterns |->
            IF config.fixed THEN config.patterns[k] ELSE analyzePatternCase(config.patterns[k])])
    IN  \/ config.case = "insensitive"
        \/ config.case = "smart" /\ literals # << >> /\ Range(literals) \cap Uppers = {}

-----------------------------------------------------------------------------
(* Scanners.                                                               *)

rarestByte(lit) == CHOOSE k \in DOMAIN lit : \A j \in DOMAIN lit :
    rank(lit[k]) < rank(lit[j]) \/ (rank(lit[k]) = rank(lit[j]) /\ k <= j)
pickASCIICIAnchor(lit) ==
    LET invariant == {k \in DOMAIN lit : lit[k] \notin Letters}
        cost(k) == IF k \in invariant THEN rank(lit[k]) ELSE rank(ToLower(lit[k])) + rank(ToUpper(lit[k]))
        from == IF invariant = {} THEN DOMAIN lit ELSE invariant
    IN  CHOOSE k \in from : \A j \in from : cost(k) < cost(j) \/ (cost(k) = cost(j) /\ k <= j)

\* anchors: where in each literal is the byte that is looked for.
Scanner(kind, lits, fold, anchor(_)) ==
    [kind |-> kind, lits |-> lits, fold |-> fold, anchors |-> [k \in DOMAIN lits |-> anchor(lits[k])]]
newLiteralScanner(lits, ci) ==
    LET common(lit) == IF Len(lit) > 1 /\ rank(lit[1]) >= 200 THEN rarestByte(lit) ELSE 1
        first(lit) == 1
    IN  CASE << >> \in Range(lits) -> Scanner("everywhere", << >>, FALSE, first)
          [] << >> \notin Range(lits) /\ Len(lits) = 1 /\ ci -> Scanner("singleCI", lits, TRUE, pickASCIICIAnchor)
          [] << >> \notin Range(lits) /\ Len(lits) = 1 /\ ~ci -> Scanner("single", lits, FALSE, common)
          [] << >> \notin Range(lits) /\ Len(lits) \in 2 .. 8 /\ ~ci -> Scanner("rareByteMulti", lits, FALSE, rarestByte)
          [] OTHER -> Scanner("ahoCorasick", lits, ci, first)

\* The next literal, a span or none: of those whose anchor comes first, the first given.
findLiteral(scan, text, start) ==
    LET hits == {h \in (start .. Len(text)) \X DOMAIN scan.lits :
                    Has(text, h[1], scan.lits[h[2]], scan.fold)}
        anchor(h) == h[1] + scan.anchors[h[2]]
        first == {h \in hits : \A g \in hits :
                    anchor(h) < anchor(g) \/ (anchor(h) = anchor(g) /\ h[2] <= g[2])}
    IN  IF scan.kind = "everywhere" THEN {<<k, k>> : k \in {start} \cap 0 .. Len(text)}
        ELSE {<<h[1], h[1] + Len(scan.lits[h[2]])>> : h \in first}

-----------------------------------------------------------------------------
(* What the tree of a pattern tells.                                       *)

Asserts == {"BeginLine", "EndLine", "BeginText", "EndText", "WordBoundary", "NoWordBoundary"}

RECURSIVE containsAnchorOrBoundary(_)
containsAnchorOrBoundary(re) ==
    \/ re.op \in Asserts
    \/ re.op = "Repeat" /\ containsAnchorOrBoundary(re.sub)
    \/ re.op \in {"Concat", "Alternate"} /\ \E k \in DOMAIN re.sub : containsAnchorOrBoundary(re.sub[k])

RECURSIVE canMatchNewline(_)
canMatchNewline(re) ==
    \/ re.op \in {"BeginLine", "EndLine", "BeginText", "EndText", "AnyChar"}
    \/ re.op = "Literal" /\ "\n" \in Range(re.runes)
    \/ re.op = "CharClass" /\ "\n" \in re.set
    \/ re.op = "NotClass" /\ "\n" \notin re.set
    \/ re.op = "Repeat" /\ canMatchNewline(re.sub)
    \/ re.op \in {"Concat", "Alternate"} /\ \E k \in DOMAIN re.sub : canMatchNewline(re.sub[k])

\* The engine on a slice of the text, which looks like the start of a text to every assertion.
FindInSlice(re, text, start) ==
    IF start > Len(text) THEN {}
    ELSE {<<start + m[1], start + m[2]>> : m \in Leftmost(re, Drop(text, start), 0)}
find(re, text, start) ==
    LET behind == {m \in FindAll(re, text) : m[1] >= start}
    IN  IF start = 0 \/ ~containsAnchorOrBoundary(re) THEN FindInSlice(re, text, start)
        ELSE {m \in behind : \A n \in behind : m[1] <= n[1]}

-----------------------------------------------------------------------------
(* Compilation.                                                            *)

Matching(kind, scan, re, config, newline) ==
    [kind |-> kind, scan |-> scan, re |-> re, word |-> config.word, NonMatchingLineTerm |-> ~newline]
NoScanner == [kind |-> "none"]

\* -x: (?m)^(?:...)$
Anchored(re) ==
    Cat(<<Simple("BeginLine")>> \o (IF re.op = "Concat" THEN re.sub ELSE <<re>>) \o <<Simple("EndLine")>>)
Parsed(config, fold) ==
    LET re == IF config.lineRegexp THEN Anchored(WithLines(config.re))
              ELSE IF config.nullData THEN WithLines(config.re) ELSE config.re
    IN  IF fold THEN WithFold(re) ELSE re

newFixedMatcher(config, fold) ==
    LET newline == \E k \in DOMAIN config.patterns : "\n" \in Range(config.patterns[k])
    IN  IF config.lineRegexp THEN Matching("engine", NoScanner, Parsed(config, fold), config, newline)
        ELSE Matching("literal", newLiteralScanner(config.patterns, fold), config.re, config, newline)

\* The literals, if the pattern is nothing else; not if some fold case and others do not.
extractPureLiteralAlternation(re) ==
    LET subs == IF re.op = "Alternate" THEN re.sub ELSE <<re>>
        literals == SelectSeq(subs, LAMBDA sub : sub.op = "Literal")
        folded == {k \in DOMAIN literals : literals[k].fold}
    IN  IF (\E k \in DOMAIN subs : subs[k].op \notin {"Literal", "EmptyMatch"})
           \/ (folded # {} /\ Cardinality(folded) # Len(subs)) THEN << >>
        ELSE <<[lits |-> [k \in DOMAIN subs |-> IF subs[k].op = "Literal" THEN subs[k].runes ELSE << >>],
                fold |-> folded # {}]>>

\* re: the tree the parser returns; inner: the literals the extractor takes from it.
newRegexMatcher(config, re, inner) ==
    LET newline == canMatchNewline(re)
        pure == extractPureLiteralAlternation(re)
    IN  CASE pure # << >> -> Matching("literal", newLiteralScanner(pure[1].lits, pure[1].fold), re, config, newline)
          [] pure = << >> /\ inner.lits # << >> ->
                 Matching("prefilter", newLiteralScanner([k \in DOMAIN inner.lits |-> inner.lits[k].bytes], FALSE),
                          re, config, newline)
          [] OTHER -> Matching("engine", NoScanner, re, config, newline)

IsNew(matcher, config) ==
    \E fold \in {resolveCaseInsensitive(config)} :
        IF config.fixed THEN matcher = newFixedMatcher(config, fold)
        ELSE \E re \in {Parsed(config, fold)} : \E literals \in {extract(re)} :
                \E inner \in {extractInnerLiterals(literals)} : matcher = newRegexMatcher(config, re, inner)

-----------------------------------------------------------------------------
(* The matcher's operations.                                               *)

acceptWordBoundary(text, s, e) == ~AtWord(text, s - 1) /\ ~AtWord(text, e)

scanCandidate(m, text, start) ==
    IF m.kind = "engine" THEN find(m.re, text, start) ELSE findLiteral(m.scan, text, start)
scanConfirmed(m, text, start) ==
    IF m.kind = "literal" THEN findLiteral(m.scan, text, start) ELSE find(m.re, text, start)

\* Behind a hit that -w does not accept the scan goes on one byte further.
RECURSIVE FindCandidate(_, _, _)
FindCandidate(m, text, start) ==
    UNION {IF m.kind # "prefilter" /\ m.word /\ ~acceptWordBoundary(text, hit[1], hit[2])
           THEN FindCandidate(m, text, hit[1] + 1)
           ELSE {<<hit[1], IF m.kind = "prefilter" THEN "candidate" ELSE "confirmed">>} :
           hit \in scanCandidate(m, text, start)}

RECURSIVE FindAt(_, _, _)
FindAt(m, text, start) ==
    UNION {IF m.word /\ ~acceptWordBoundary(text, hit[1], hit[2]) THEN FindAt(m, text, hit[1] + 1)
           ELSE {hit} : hit \in scanConfirmed(m, text, start)}
Verify(m, line) == FindAt(m, line, 0) # {}
=============================================================================
