------------------------------ MODULE MCMatching ------------------------------
(***************************************************************************)
(* Patterns for each strategy, scanner and branch of the extractor, each   *)
(* with all texts over the letters that tell its matches apart.  Trees are *)
(* given as the parser leaves them: common prefixes are factored out, one- *)
(* letter alternatives are a class, adjacent literals one literal.  The    *)
(* text of a pattern is given where it is looked at (-F and smart case).   *)
(***************************************************************************)
EXTENDS MatchingProps

Plain(re) ==
    [patterns |-> <<<< >>>>, re |-> re, fixed |-> FALSE, word |-> FALSE, lineRegexp |-> FALSE,
     case |-> "sensitive", nullData |-> FALSE, crlf |-> FALSE]
Fixed(patterns, re) == [Plain(re) EXCEPT !.patterns = patterns, !.fixed = TRUE]
Smart(text, re) == [Plain(re) EXCEPT !.patterns = <<text>>, !.case = "smart"]
In(letters, n, configs) == [config : configs, texts : {SeqOf(letters, n)}]

W == Named(Letters \cup Digits \cup {"_"})
Dot == Simple("AnyCharNotNL")
Star(re) == Rep(re, 0, -1, TRUE)
Plus(re) == Rep(re, 1, -1, TRUE)
Quest(re) == Rep(re, 0, 1, TRUE)
Wide == Class({"a", "b", "c", "d", "e", "f", "g", "h", "i"})

Literals1 == {Lit(<<"a">>), Lit(<<"a", "b">>), Lit(<<"b", "a", "b">>), Simple("EmptyMatch"),
    Alt(<<Lit(<<"a", "b">>), Lit(<<"b">>)>>), Alt(<<Lit(<<"a", "a">>), Simple("EmptyMatch")>>)}
Several == {Alt(<<Lit(<<"a", "b", "q">>), Lit(<<"b">>)>>), Alt(<<Lit(<<"q", "a">>), Lit(<<"a", "q">>)>>)}
Inner == {
    Cat(<<Plus(Lit(<<"a">>)), Lit(<<"b">>)>>),
    Cat(<<Lit(<<"q">>), Plus(Lit(<<"a">>)), Lit(<<"b">>)>>),
    Cat(<<Lit(<<"q">>), Star(Lit(<<"a">>)), Lit(<<"b">>)>>), Cat(<<Lit(<<"a">>), Star(Lit(<<"b">>)), Lit(<<"q">>)>>),
    Cat(<<Lit(<<"q">>), Alt(<<Lit(<<"a">>), Plus(Lit(<<"a">>))>>), Lit(<<"b">>)>>),
    Cat(<<Lit(<<"b">>), Alt(<<Cat(<<Plus(Lit(<<"a">>)), Lit(<<"q", "q">>)>>), Lit(<<"q", "a">>)>>)>>),
    Alt(<<Cat(<<Dot, Lit(<<"a">>), Dot>>), Lit(<<"q", "q">>)>>), Alt(<<Cat(<<W, W>>), Lit(<<"q", "q">>)>>),
    Cat(<<Star(Lit(<<"a">>)), Quest(Lit(<<"b">>))>>),
    Cat(<<Rep(Lit(<<"a">>), 0, 1, FALSE), Lit(<<"b">>)>>),
    Cat(<<Alt(<<Lit(<<"a", "b">>), Lit(<<"b", "a">>)>>), Lit(<<"q">>)>>),
    Cat(<<Lit(<<"q">>), Alt(<<Lit(<<"a", "b">>), Lit(<<"b", "a">>)>>)>>),
    Cat(<<Dot, Lit(<<"b">>)>>), Cat(<<Lit(<<"a">>), Dot, Lit(<<"q">>)>>),
    Cat(<<AllBut({"a"}), Lit(<<"b">>)>>), Cat(<<W, Lit(<<"b">>)>>),
    Cat(<<Rep(Lit(<<"a">>), 2, 3, TRUE), Lit(<<"b">>)>>),
    Cat(<<Rep(Alt(<<Lit(<<"a", "b">>), Lit(<<"b", "q">>)>>), 2, 2, TRUE), Lit(<<"a">>)>>),
    Cat(<<Rep(Lit(<<"a">>), 0, 0, TRUE), Lit(<<"b">>)>>),
    Cat(<<Class({"a", "q"}), Rep(Lit(<<"b">>), 0, 2, FALSE), Class({"a", "b"})>>)}
Asserting == {
    Cat(<<Simple("BeginText"), Lit(<<"a">>)>>), Cat(<<Lit(<<"a">>), Simple("EndText")>>),
    Cat(<<Simple("WordBoundary"), Lit(<<"a">>)>>), Cat(<<Lit(<<"b">>), Simple("NoWordBoundary")>>),
    Simple("WordBoundary"), Simple("BeginText"),
    Cat(<<Simple("WordBoundary"), Plus(W)>>), Cat(<<Plus(W), Simple("WordBoundary"), Star(Lit(<<"a">>))>>)}
Engines == {Plus(W), Cat(<<W, Dot, W>>), Plus(Lit(<<"e">>)), Class({"a", "e"}), Cat(<<W, Quest(Lit(<<"a">>))>>)}

\* More than limitTotal pairs, more than limitClass members, more than limitRepeat copies.
Limits == {
    Cat(<<Wide, Wide, Lit(<<"q">>)>>), Cat(<<Lit(<<"q">>), Wide, Class({"a", "b"}), Wide>>),
    Alt(<<Cat(<<Lit(<<"q">>), Wide, Quest(Wide)>>), Lit(<<"a", "b">>)>>),
    Cat(<<Class({"a", "b", "c", "d", "e", "f", "g", "h", "i", "j", "l"}), Lit(<<"b">>)>>),
    Alt([k \in 1 .. 9 |-> Lit(<<Small[k], Small[10 - k]>>)])}
Long == {Cat(<<Lit(<<"q">>), Rep(Lit(<<"a">>), 11, 11, TRUE), Lit(<<"b">>)>>)}
Union == {Cat(<<Alt(<<
    Cat(<<Lit(<<"a", "a", "a", "a">>), Rep(Class({"a", "b"}), 6, 6, TRUE)>>), Lit(<<"b", "q">>)>>), Lit(<<"q">>)>>)}
UnionTexts == {[k \in 1 .. 12 |-> CASE k \in 4 .. 10 -> f[k] [] k = 11 -> "q" [] OTHER -> "a"] :
                f \in [4 .. 10 -> {"a", "b"}]}
LongTexts == {<<"q">> \o [k \in 1 .. 13 |-> IF k <= n THEN "a" ELSE "b"] : n \in 1 .. 13}
Many == {Rep(Class({"a", "b"}), 6, 6, TRUE), Rep(Class({"a", "b"}), 5, 5, TRUE)}

MCCases == UNION {
    In({"a", "b", "\n"}, 5, {Plain(re) : re \in Literals1}),
    In({"a", "b", "q", "\n"}, 4, {Plain(re) : re \in Inner}),
    In({"a", "b", "q"}, 5, {Plain(re) : re \in Inner \cup Several}),
    In({"a", "b", "q", "-"}, 4, {[Plain(re) EXCEPT !.word = TRUE] : re \in Several}),
    In({"a", "b", "-", "\n"}, 4, {Plain(re) : re \in Asserting \cup Literals1}),
    In({"a", "e", "-", "\n"}, 4, {Plain(re) : re \in Engines}),
    In({"a", "b", "q", "\n"}, 4, {Plain(re) : re \in Limits}),
    In({"a", "b"}, 7, {Plain(re) : re \in Many}),
    [config : {Plain(re) : re \in Union}, texts : {UnionTexts}],
    [config : {Plain(re) : re \in Long}, texts : {LongTexts}],
    \* Case
    In({"a", "A", "b", "B"}, 4, {[Plain(re) EXCEPT !.case = "insensitive"] : re \in
        {Lit(<<"a", "b">>), Lit(<<"a">>), Cat(<<Plus(Lit(<<"a">>)), Lit(<<"b">>)>>),
         Alt(<<Lit(<<"a", "b">>), Lit(<<"b">>)>>), Alt(<<Folded(<<"a", "b">>), Lit(<<"B", "a">>)>>)}}),
    In({"a", "A", "b", "B"}, 4, {Plain(Alt(<<Folded(<<"a", "b">>), Lit(<<"B", "a">>)>>))}),
    In({"-", "A", "a"}, 4, {[Plain(Lit(<<"a", "-", "a">>)) EXCEPT !.case = "insensitive"]}),
    In({"a", "A", "b", "B"}, 3, {
        Smart(<<"a", "b">>, Lit(<<"a", "b">>)), Smart(<<"a", "B">>, Lit(<<"a", "B">>)),
        Smart(<<"\\", "w", "b">>, Cat(<<W, Lit(<<"b">>)>>)),
        Smart(<<"\\", "W">>, [AllBut(W.set) EXCEPT !.named = TRUE]),
        Smart(<<"[", "a", "B", "]">>, Class({"a", "B"})),
        Smart(<<"[", "a", "]", "b", "+">>, Cat(<<Lit(<<"a">>), Plus(Lit(<<"b">>))>>)),
        Smart(<<".">>, Dot), Smart(<<"\\", "p", "{", "L", "}", "b">>, Cat(<<Named(Letters), Lit(<<"b">>)>>))}),
    \* -w
    In({"a", "b", "-", "\n"}, 4, {[Plain(re) EXCEPT !.word = TRUE] : re \in
        {Lit(<<"a">>), Lit(<<"a", "b">>), Lit(<<"-", "a">>), Plus(Lit(<<"a">>)), Alt(<<Lit(<<"a", "b">>), Lit(<<"b">>)>>),
         Cat(<<Plus(Lit(<<"a">>)), Lit(<<"b">>)>>), W, Simple("EmptyMatch"), Cat(<<Simple("WordBoundary"), Lit(<<"a">>)>>)}}),
    \* -x: a, (a|aa), a|b-
    In({"a", "b", "-", "\n"}, 4, {[Plain(re) EXCEPT !.lineRegexp = TRUE] : re \in
        {Lit(<<"a">>), Cat(<<Lit(<<"a">>), Rep(Lit(<<"a">>), 0, 1, FALSE)>>),
         Alt(<<Lit(<<"a">>), Lit(<<"b", "-">>)>>), Simple("EmptyMatch")}}),
    \* -F
    In({"a", "b", "\n"}, 5, UNION {
        {Fixed(<<<<"a", "b">>>>, Lit(<<"a", "b">>)),
         Fixed(<<<<"a", "b">>, <<"b">>>>, Alt(<<Lit(<<"a", "b">>), Lit(<<"b">>)>>)),
         Fixed(<<<<"a">>, << >>>>, Alt(<<Lit(<<"a">>), Simple("EmptyMatch")>>))},
        {[Fixed(<<<<"a", "b">>, <<"b">>>>, Alt(<<Lit(<<"a", "b">>), Lit(<<"b">>)>>)) EXCEPT !.lineRegexp = TRUE]}}),
    In({"a", "A", "b"}, 4, {[Fixed(<<<<"A", "b">>>>, Lit(<<"A", "b">>)) EXCEPT !.case = c] : c \in {"insensitive", "smart"}}),
    \* --null-data and --crlf
    In({"a", "NUL", "\n"}, 4, {[Plain(re) EXCEPT !.nullData = TRUE] : re \in
        {Lit(<<"a">>), Cat(<<Simple("BeginText"), Lit(<<"a">>)>>),
         Cat(<<Lit(<<"a">>), Dot>>), Cat(<<Lit(<<"a">>), Simple("EndText")>>),
         Plus(W), Cat(<<W, Dot, W>>), AllBut({"\n"})}}),
    In({"a", "\r", "\n"}, 4, {[Plain(re) EXCEPT !.crlf = TRUE] : re \in
        {Lit(<<"a">>), Cat(<<Lit(<<"a">>), Simple("EndText")>>), Cat(<<Lit(<<"a">>), Dot>>), Plus(W),
         Cat(<<W, Dot>>), Class({"a", "-"})}}),
    In({"a", "\r", "\n"}, 4, {[Fixed(<<<<"a">>>>, Lit(<<"a">>)) EXCEPT !.lineRegexp = x, !.crlf = TRUE] : x \in BOOLEAN}),
    In({"a", "NUL", "\n"}, 4, {[Fixed(<<<<"a">>>>, Lit(<<"a">>)) EXCEPT !.lineRegexp = x, !.nullData = TRUE] : x \in BOOLEAN}) }
=============================================================================
