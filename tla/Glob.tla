-------------------------------- MODULE Glob --------------------------------
(***************************************************************************)
(* Package glob: gitignore-style patterns, compiled into the classes of a  *)
(* Set and matched last-match-wins.  Text (a line, a path) is a sequence   *)
(* of one-character strings.  The regexps of the fallback class are        *)
(* modelled by what the token they come from translates to.                *)
(***************************************************************************)
EXTENDS Integers, Sequences, SequencesExt, FiniteSets, FiniteSetsExt

CONSTANTS
    Alphabet,     \* the characters, in code point order
    MaxClassSize, \* the largest class that is expanded into literals
    MaxExpanded   \* the most patterns one line may be expanded into

ASSUME GlobAssumption == Alphabet \in Seq(STRING) /\ MaxClassSize \in Nat /\ MaxExpanded \in Nat

Code(c) == CHOOSE k \in DOMAIN Alphabet : Alphabet[k] = c
Between(lo, hi) == {Alphabet[k] : k \in Code(lo) .. Code(hi)}
Fold(c) == IF c = "A" THEN "a" ELSE c
FoldText(s) == [k \in DOMAIN s |-> Fold(s[k])]
At(s, k) == IF k \in DOMAIN s THEN s[k] ELSE "none"
Drop(s, k) == SubSeq(s, k + 1, Len(s))
Upward(S, n) == SelectSeq([k \in 1 .. n |-> k], LAMBDA k : k \in S)   \* a set within 1 .. n, in order
StartsWith(s, p) == IsPrefix(p, s)
EndsWith(s, p) == IsSuffix(p, s)

-----------------------------------------------------------------------------
(* token.go: the parser.  p.pos is the next character; bump's prev is the   *)
(* character before it.                                                    *)

Lit(c) == [k |-> "lit", c |-> c]
AnyChar == [k |-> "any"]
Star == [k |-> "star"]
RecursivePrefix == [k |-> "prefix"]
RecursiveSuffix == [k |-> "suffix"]
RecursiveMiddle == [k |-> "middle"]

NewParser == [pos |-> 1, stack |-> << >>, branches |-> <<<< >>>>, unclosed |-> FALSE, err |-> FALSE]
Fail(p) == [p EXCEPT !.err = TRUE]
Branch(p) == Last(p.branches)
Push(p, t, n) == [p EXCEPT !.branches[Len(p.branches)] = Append(@, t), !.pos = @ + n]
PushStars(p) == Push(Push(p, Star, 2), Star, 0)

PushAlternate(p) ==
    [p EXCEPT !.stack = Append(@, Len(p.branches)), !.branches = Append(@, << >>), !.pos = @ + 1]

PopAlternate(p) ==
    IF p.stack = << >> THEN Fail(p)
    ELSE LET start == Last(p.stack)
         IN  Push([p EXCEPT !.stack = Front(@), !.branches = SubSeq(@, 1, start)],
                  [k |-> "alt", alts |-> Drop(p.branches, start)], 1)

ParseComma(p) ==
    IF p.stack = << >> THEN Push(p, Lit(","), 1)
    ELSE [p EXCEPT !.branches = Append(@, << >>), !.pos = @ + 1]

ParseBackslash(s, p) ==
    IF p.pos = Len(s) THEN Fail(p) ELSE Push(p, Lit(s[p.pos + 1]), 2)

\* "**" replaces the separator before it, or widens the token that already did.
PopSeparator(p, suffix, n) ==
    LET last == Last(Branch(p))
        q == [p EXCEPT !.branches[Len(p.branches)] = Front(@)]
        t == CASE last.k \in {"prefix", "suffix"} -> last
               [] OTHER -> IF suffix THEN RecursiveSuffix ELSE RecursiveMiddle
    IN  Push(q, t, n)

ParseStar(s, p) ==
    LET prev == At(s, p.pos - 1)
        next == At(s, p.pos + 2)
        inner == Len(p.branches) > 1
    IN  CASE At(s, p.pos + 1) # "*" -> Push(p, Star, 1)
          [] Branch(p) = << >> ->
                 CASE next = "none" -> Push(p, RecursivePrefix, 2)
                   [] next = "/"    -> Push(p, RecursivePrefix, 3)
                   [] OTHER         -> PushStars(p)
          [] prev # "/" /\ ~(inner /\ prev \in {",", "{"}) -> PushStars(p)
          [] next = "none" -> PopSeparator(p, TRUE, 2)
          [] next \in {",", "}"} /\ inner -> PopSeparator(p, TRUE, 2)
          [] next = "/" -> PopSeparator(p, FALSE, 3)
          [] OTHER -> PushStars(p)

\* parseClass: from position k, with the ranges so far; an unfinished one is <<lo>>.
RECURSIVE ClassFrom(_, _, _, _, _)
ClassFrom(s, k, ranges, first, inRange) ==
    LET c == At(s, k)
        one == Append(ranges, <<c, c>>)
        last == <<Last(ranges)[1], c>>
        shut == IF inRange THEN Append(ranges, <<"-", "-">>) ELSE ranges
    IN  CASE c = "none" -> [closed |-> FALSE, err |-> FALSE]
          [] c = "]" /\ ~first -> [closed |-> TRUE, err |-> FALSE, ranges |-> shut, pos |-> k + 1]
          [] c = "-" /\ ~first /\ ~inRange -> ClassFrom(s, k + 1, ranges, FALSE, TRUE)
          [] inRange /\ c # "]" ->
                 IF Code(c) < Code(last[1]) THEN [closed |-> TRUE, err |-> TRUE]
                 ELSE ClassFrom(s, k + 1, Append(Front(ranges), last), FALSE, FALSE)
          [] OTHER -> ClassFrom(s, k + 1, one, FALSE, FALSE)

ParseClass(s, p) ==
    LET negated == At(s, p.pos + 1) \in {"!", "^"}
        class == ClassFrom(s, p.pos + (IF negated THEN 2 ELSE 1), << >>, TRUE, FALSE)
    IN  CASE class.err -> Fail(p)
          [] ~class.closed -> Push([p EXCEPT !.unclosed = TRUE], Lit("["), 1)
          [] OTHER -> Push([p EXCEPT !.pos = class.pos],
                           [k |-> "class", negated |-> negated, ranges |-> class.ranges], 0)

ParseOne(s, p) ==
    LET c == s[p.pos]
    IN  CASE c = "?" -> Push(p, AnyChar, 1)
          [] c = "*" -> ParseStar(s, p)
          [] c = "[" /\ ~p.unclosed -> ParseClass(s, p)
          [] c = "{" -> PushAlternate(p)
          [] c = "}" -> PopAlternate(p)
          [] c = "," -> ParseComma(p)
          [] c = "\\" -> ParseBackslash(s, p)
          [] OTHER -> Push(p, Lit(c), 1)

RECURSIVE Parse(_, _)
Parse(s, p) ==
    CASE p.err -> p
      [] p.pos > Len(s) -> IF Len(p.branches) > 1 THEN Fail(p) ELSE p
      [] OTHER -> Parse(s, ParseOne(s, p))

-----------------------------------------------------------------------------
(* regex.go: what tokensToRegex accepts.                                   *)

RangeSet(t) == UNION {Between(r[1], r[2]) : r \in ToSet(t.ranges)}

RECURSIVE RegexFrom(_, _)
RegexFrom(ts, s) ==
    IF ts = << >> THEN s = << >>
    ELSE LET t == Head(ts)
             rest(k) == RegexFrom(Tail(ts), Drop(s, k))
             some == s # << >>
             slashes == {k \in DOMAIN s : s[k] = "/"}
         IN  CASE t.k = "lit"    -> some /\ s[1] = t.c /\ rest(1)
               [] t.k = "any"    -> some /\ s[1] # "/" /\ rest(1)
               [] t.k = "star"   -> \E k \in 0 .. Len(s) : (\A j \in 1 .. k : s[j] # "/") /\ rest(k)
               [] t.k = "prefix" -> \E k \in {0} \cup slashes : rest(k)
               [] t.k = "suffix" -> 1 \in slashes /\ \E k \in DOMAIN s : rest(k)
               [] t.k = "middle" -> 1 \in slashes /\ \E k \in slashes : rest(k)
               [] t.k = "class"  -> some /\ ((s[1] \in RangeSet(t)) # t.negated) /\ rest(1)
               [] t.k = "alt"    ->
                      LET parts == {a \in ToSet(t.alts) : a # << >>}
                      IN  IF parts = {} THEN rest(0)
                          ELSE \E a \in parts : RegexFrom(a \o Tail(ts), s)

RegexMatches(ts, s) == ts = <<RecursivePrefix>> \/ RegexFrom(ts, s)

-----------------------------------------------------------------------------
(* candidate.go                                                            *)

Positions(s, c) == {k \in DOMAIN s : s[k] = c}
LastPosition(s, c) == Max(Positions(s, c) \cup {0})
Basename(s) == Drop(s, LastPosition(s, "/"))
ExtOf(base) == Drop(base, LastPosition(base, ".") - 1)
HasExt(base) == Positions(base, ".") # {}

-----------------------------------------------------------------------------
(* classify.go: the classes that need no regexp.                           *)

Kinds == <<"literal", "basename", "ext", "suffix", "prefix", "contains", "between",
           "pathBetween", "chain", "suffixPath", "regex">>

AllLit(ts) == \A k \in DOMAIN ts : ts[k].k = "lit"
Chars(ts) == [k \in DOMAIN ts |-> ts[k].c]
Stars(ts) == {k \in DOMAIN ts : ts[k].k = "star"}
Anchorless(ts) == ts # << >> /\ ts[1] = RecursivePrefix

\* basenameTokens: the tokens after "**/", if none of them can see a separator.
OfBasename(ts) ==
    /\ Anchorless(ts) /\ Len(ts) > 1
    /\ \A k \in 2 .. Len(ts) : ts[k].k \in {"any", "star"} \/ (ts[k].k = "lit" /\ ts[k].c # "/")


Class(kind, a, b) == [kind |-> kind, a |-> a, b |-> b]

\* The literal runs between the stars.
Chunks(ts) ==
    LET add(runs, t) == IF t.k = "star" THEN Append(runs, << >>)
                        ELSE Append(Front(runs), Append(Last(runs), t.c))
    IN  SelectSeq(FoldLeft(add, <<<< >>>>, ts), LAMBDA run : run # << >>)

StarAmongLits(x) == Cardinality(Stars(x)) = 1 /\ \A k \in DOMAIN x : x[k].k \in {"lit", "star"}
TheStar(x) == CHOOSE k \in Stars(x) : TRUE

\* literalOf, suffixPathOfTokens, pathBetweenOfTokens: the whole path.
LiteralClass(ts) == IF ts # << >> /\ AllLit(ts) THEN {Class("literal", Chars(ts), << >>)} ELSE {}
SuffixPathClass(ts) ==
    IF Anchorless(ts) /\ AllLit(Tail(ts)) /\ (\E k \in 2 .. Len(ts) : ts[k].c = "/")
    THEN {Class("suffixPath", Chars(Tail(ts)), << >>)} ELSE {}
PathBetweenClass(ts) ==
    IF StarAmongLits(ts)
    THEN {Class("pathBetween", Chars(SubSeq(ts, 1, TheStar(ts) - 1)), Chars(Drop(ts, TheStar(ts))))} ELSE {}

\* extOfTokens, suffixOfTokens: a star and what follows it; "." counts only once in an extension.
EndingClasses(ts) ==
    LET literalFrom(n, banned) == \A k \in n .. Len(ts) : ts[k].k = "lit" /\ ts[k].c \notin banned
        starred == Anchorless(ts) /\ Len(ts) > 2 /\ ts[2] = Star
    IN  IF ~starred THEN {}
        ELSE (IF ts[3] = Lit(".") /\ literalFrom(4, {".", "/"})
              THEN {Class("ext", Chars(Drop(ts, 2)), << >>)} ELSE {})
             \cup (IF literalFrom(3, {"/"}) THEN {Class("suffix", Chars(Drop(ts, 2)), << >>)} ELSE {})

\* basenameLiteralOf, prefixOfTokens, containsOfTokens, betweenOfTokens: a basename's ends.
BasenameClasses(ts) ==
    LET r == Tail(ts)
        n == Len(r)
        between(k) == Class("between", Chars(SubSeq(r, 1, k - 1)), Chars(Drop(r, k)))
    IN  IF ~OfBasename(ts) THEN {}
        ELSE (IF AllLit(r) THEN {Class("basename", Chars(r), << >>)} ELSE {})
             \cup (IF n > 1 /\ Last(r) = Star /\ AllLit(Front(r))
                   THEN {Class("prefix", Chars(Front(r)), << >>)} ELSE {})
             \cup (IF n > 2 /\ r[1] = Star /\ Last(r) = Star /\ AllLit(Front(Tail(r)))
                   THEN {Class("contains", Chars(Front(Tail(r))), << >>)} ELSE {})
             \cup (IF StarAmongLits(r) /\ TheStar(r) \in 2 .. n - 1 THEN {between(TheStar(r))} ELSE {})

\* chainOfTokens: any number of stars, and which ends are fixed.
ChainClass(ts) ==
    LET r == Tail(ts)
        chained == OfBasename(ts) /\ (\A k \in DOMAIN r : r[k].k \in {"lit", "star"}) /\ Chunks(r) # << >>
    IN  IF chained THEN {[kind |-> "chain", chunks |-> Chunks(r), ends |-> <<r[1] # Star, Last(r) # Star>>]}
        ELSE {}

FastClasses(ts) ==
    LiteralClass(ts) \cup SuffixPathClass(ts) \cup PathBetweenClass(ts)
    \cup EndingClasses(ts) \cup BasenameClasses(ts) \cup ChainClass(ts)

\* classifyFast tries them in this order.
FastOrder == <<"basename", "literal", "ext", "suffix", "prefix", "contains", "between",
               "pathBetween", "chain", "suffixPath">>
Rank(class) == CHOOSE k \in DOMAIN FastOrder : FastOrder[k] = class.kind
ClassifyFast(ts) ==
    LET all == FastClasses(ts)
    IN  CHOOSE c \in all : \A d \in all : Rank(c) <= Rank(d)
IsFast(ts) == FastClasses(ts) # {}

\* expandClasses: one variant per choice of a member for each class.
ClassChars(t) == FlattenSeq([k \in DOMAIN t.ranges |->
                   SubSeq(Alphabet, Code(t.ranges[k][1]), Code(t.ranges[k][2]))])
Spots(ts) == {k \in DOMAIN ts : ts[k].k = "class"}
Expandable(ts) ==
    /\ Spots(ts) # {}
    /\ \A k \in Spots(ts) : ~ts[k].negated /\ Len(ClassChars(ts[k])) \in 1 .. MaxClassSize
    /\ FoldSet(LAMBDA k, n : n * Len(ClassChars(ts[k])), 1, Spots(ts)) <= MaxExpanded
Variants(ts) ==
    LET picks == [Spots(ts) -> ToSet(Alphabet)]
    IN  {[k \in DOMAIN ts |-> IF k \in Spots(ts) THEN Lit(f[k]) ELSE ts[k]] :
             f \in {g \in picks : \A k \in Spots(ts) : g[k] \in RangeSet(ts[k])}}

-----------------------------------------------------------------------------
(* pattern.go: one line of an ignore file, or one -g.                      *)

NoLine == [ok |-> TRUE, classes |-> {}]

\* A line that ends in an escaped space keeps its spaces.
TrimSpace(s) ==
    IF EndsWith(s, <<"\\", " ">>) THEN s ELSE SubSeq(s, 1, Max({0} \cup {k \in DOMAIN s : s[k] # " "}))

\* The gitignore decoration of a line, taken off: what is left, and what it said.
Strip(line) ==
    LET escaped == At(line, 1) = "\\" /\ At(line, 2) \in {"!", "#"}
        white == At(line, 1) = "!"
        l1 == IF escaped \/ white THEN Tail(line) ELSE line
        absolute == At(l1, 1) = "/"
        l2 == IF absolute /\ ~escaped THEN Tail(l1) ELSE l1
        dir == At(l2, Len(l2)) = "/"
        l3 == IF dir THEN Front(l2) ELSE l2
        l4 == IF dir /\ At(l3, Len(l3)) = "\\" THEN Front(l3) ELSE l3
    IN  [body |-> l4, white |-> white, absolute |-> absolute, dir |-> dir]

Actual(s) ==
    LET l == s.body
        deep == StartsWith(l, <<"*", "*", "/">>) \/ l = <<"*", "*">>
        a == IF ~s.absolute /\ Positions(l, "/") = {} /\ ~deep THEN <<"*", "*", "/">> \o l ELSE l
    IN  IF EndsWith(a, <<"/", "*", "*">>) THEN a \o <<"/", "*">> ELSE a

RegexClass(ts, ci) == [kind |-> "regex", tokens |-> ts, ci |-> ci]

\* The classes of a line's tokens: fast ones, for each of the variants if need be, or the regexp.
Classified(ts, ci) ==
    CASE ~ci /\ Expandable(ts) /\ (\A v \in Variants(ts) : IsFast(v)) -> {ClassifyFast(v) : v \in Variants(ts)}
      [] ~ci /\ IsFast(ts) -> {ClassifyFast(ts)}
      [] OTHER -> {RegexClass(ts, ci)}
Line(s, p, ci) ==
    IF p.err THEN [ok |-> FALSE, classes |-> {}]
    ELSE [ok |-> TRUE, white |-> s.white, dir |-> s.dir, classes |-> Classified(p.branches[1], ci)]

\* compileLine: the classes a line compiles to share its flags.
CompileStripped(s, ci) == Line(s, Parse(IF ci THEN FoldText(Actual(s)) ELSE Actual(s), NewParser), ci)
CompileTrimmed(line, ci) ==
    IF line = << >> \/ At(line, 1) = "#" THEN NoLine ELSE CompileStripped(Strip(line), ci)
CompileLine(raw, ci) == CompileTrimmed(TrimSpace(raw), ci)

-----------------------------------------------------------------------------
(* glob.go: matching.                                                      *)

\* Where chunk c first occurs in s behind position pos; 0 if nowhere.
IndexFrom(s, c, pos) ==
    Min({k \in pos + 1 .. Len(s) - Len(c) + 1 : SubSeq(s, k, k + Len(c) - 1) = c} \cup {Len(s) + 1}) % (Len(s) + 1)

\* chainMatches from chunk k on, with pos characters used up.
RECURSIVE ChainFrom(_, _, _, _, _)
ChainFrom(base, chunks, ends, k, pos) ==
    IF k > Len(chunks) THEN TRUE
    ELSE LET c == chunks[k]
             found == IndexFrom(base, c, pos)
             next(p) == ChainFrom(base, chunks, ends, k + 1, p)
         IN  CASE k = 1 /\ ends[1] /\ k = Len(chunks) /\ ends[2] -> base = c
               [] k = 1 /\ ends[1] /\ ~(k = Len(chunks) /\ ends[2]) ->
                      StartsWith(base, c) /\ next(Len(c))
               [] ~(k = 1 /\ ends[1]) /\ k = Len(chunks) /\ ends[2] ->
                      Len(base) - Len(c) >= pos /\ EndsWith(base, c)
               [] OTHER -> found > 0 /\ next(found + Len(c) - 1)

FitsOverlapping(s, a, b) == StartsWith(s, a) /\ EndsWith(s, b)   \* mutant: no length test

Fits(s, a, b) == Len(s) >= Len(a) + Len(b) /\ StartsWith(s, a) /\ EndsWith(s, b)

Hits(class, path) ==
    LET base == Basename(path)
        a == class.a
        b == class.b
    IN  CASE class.kind = "literal"  -> path = a
          [] class.kind = "basename" -> base = a
          [] class.kind = "ext"      -> HasExt(base) /\ ExtOf(base) = a
          [] class.kind = "suffix"   -> EndsWith(base, a)
          [] class.kind = "prefix"   -> StartsWith(base, a)
          [] class.kind = "contains" -> IndexFrom(base, a, 0) > 0
          [] class.kind = "between"  -> Fits(base, a, b)
          [] class.kind = "pathBetween" ->
                 Fits(path, a, b) /\ "/" \notin ToSet(SubSeq(path, Len(a) + 1, Len(path) - Len(b)))
          [] class.kind = "chain" -> ChainFrom(base, class.chunks, class.ends, 1, 0)
          [] class.kind = "suffixPath" -> path = a \/ EndsWith(path, <<"/">> \o a)
          [] class.kind = "regex" -> RegexMatches(class.tokens, IF class.ci THEN FoldText(path) ELSE path)

Decided(lines, best) ==
    CASE best = 0 -> "NoMatch" [] best > 0 /\ lines[best].white -> "Whitelisted" [] OTHER -> "Ignored"

\* Set.Match over the compiled lines, class after class: the highest index decides.
SetMatch(lines, path, isDir) ==
    LET of(kind) == Upward({k \in DOMAIN lines : \E c \in lines[k].classes : c.kind = kind}, Len(lines))
        hit(k, kind) == /\ lines[k].dir => isDir
                        /\ \E c \in lines[k].classes : c.kind = kind /\ Hits(c, path)
        try(best, pair) == IF pair[1] > best /\ hit(pair[1], pair[2]) THEN pair[1] ELSE best
        pairs == FlattenSeq([i \in DOMAIN Kinds |->
                     [j \in DOMAIN of(Kinds[i]) |-> <<of(Kinds[i])[j], Kinds[i]>>]])
    IN  Decided(lines, FoldLeft(try, 0, pairs))

\* Build fails on the first line that does not parse.
BuildFails(lines) == \E k \in DOMAIN lines : ~lines[k].ok
=============================================================================
