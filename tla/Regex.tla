-------------------------------- MODULE Regex --------------------------------
(***************************************************************************)
(* The regular expression library, as src/match uses it: the syntax trees  *)
(* its parser returns and what its engine finds.  Text is a sequence of    *)
(* one-byte characters; offsets count from 0, as in Go.  A tree is a       *)
(* record with the fields op, and                                          *)
(*   Literal     runes, fold      CharClass, NotClass   set, named         *)
(*   Concat, Alternate    sub     Repeat      sub, min, max, greedy        *)
(* where max = -1 means no bound (Star, Plus and Quest are Repeats), and   *)
(* named marks the classes written \d, \w and the like.                    *)
(***************************************************************************)
EXTENDS Integers, Sequences, SequencesExt

Small == <<"a", "b", "c", "d", "e", "f", "g", "h", "i", "j", "l", "m", "n", "o", "p", "q", "r",
           "t", "u", "v", "w", "x", "y", "z">>
Large == <<"A", "B", "C", "D", "E", "F", "G", "H", "I", "J", "L", "M", "N", "O", "P", "Q", "R",
           "T", "U", "V", "W", "X", "Y", "Z">>
Digits == {"0", "1", "2", "3", "4", "5", "6", "7", "8", "9"}

\* ASCII letters and their cases.  K and S are left out: they fold with letters beyond ASCII.
Lowers == Range(Small)
Uppers == Range(Large)
Letters == Lowers \cup Uppers
WordChars == Letters \cup Digits \cup {"_", "k", "s", "K", "S"}
LowerOf == [c \in Uppers |-> Small[CHOOSE k \in DOMAIN Large : Large[k] = c]]
UpperOf == [c \in Lowers |-> Large[CHOOSE k \in DOMAIN Small : Small[k] = c]]
ToLower(c) == IF c \in Uppers THEN LowerOf[c] ELSE c
ToUpper(c) == IF c \in Lowers THEN UpperOf[c] ELSE c

Drop(s, k) == SubSeq(s, k + 1, Len(s))

Lit(runes) == [op |-> "Literal", runes |-> runes, fold |-> FALSE]
Folded(runes) == [op |-> "Literal", runes |-> [k \in DOMAIN runes |-> ToUpper(runes[k])], fold |-> TRUE]
Class(set) == [op |-> "CharClass", set |-> set, named |-> FALSE]
Named(set) == [op |-> "CharClass", set |-> set, named |-> TRUE]
AllBut(set) == [op |-> "NotClass", set |-> set, named |-> FALSE]
Cat(sub) == [op |-> "Concat", sub |-> sub]
Alt(sub) == [op |-> "Alternate", sub |-> sub]
Rep(sub, min, max, greedy) == [op |-> "Repeat", sub |-> sub, min |-> min, max |-> max, greedy |-> greedy]
Simple(op) == [op |-> op]

\* A pattern as it is parsed with the flag (?i).  The parser folds classes itself and gives literals the flag.
RECURSIVE WithFold(_)
WithFold(re) ==
    CASE re.op = "Literal" -> Folded(re.runes)
      [] re.op \in {"CharClass", "NotClass"} ->
             [re EXCEPT !.set = {ToLower(c) : c \in @} \cup {ToUpper(c) : c \in @}]
      [] re.op \in {"Concat", "Alternate"} -> [re EXCEPT !.sub = [k \in DOMAIN @ |-> WithFold(@[k])]]
      [] re.op = "Repeat" -> [re EXCEPT !.sub = WithFold(@)]
      [] OTHER -> re

\* A pattern as it is parsed with the flag (?m): ^ and $ are those of a line.
RECURSIVE WithLines(_)
WithLines(re) ==
    CASE re.op = "BeginText" -> Simple("BeginLine")
      [] re.op = "EndText" -> Simple("EndLine")
      [] re.op \in {"Concat", "Alternate"} -> [re EXCEPT !.sub = [k \in DOMAIN @ |-> WithLines(@[k])]]
      [] re.op = "Repeat" -> [re EXCEPT !.sub = WithLines(@)]
      [] OTHER -> re

-----------------------------------------------------------------------------
(* Matching.                                                               *)

\* Whether the literal bytes are at offset k.
Has(text, k, bytes, fold) ==
    /\ k + Len(bytes) <= Len(text)
    /\ \A n \in DOMAIN bytes :
        text[k + n] = bytes[n] \/ (fold /\ ToLower(text[k + n]) = ToLower(bytes[n]))
AtWord(text, k) == 0 <= k /\ k < Len(text) /\ text[k + 1] \in WordChars

\* Whether the assertion op holds at offset k.
Holds(op, text, k) ==
    CASE op = "BeginText" -> k = 0
      [] op = "EndText" -> k = Len(text)
      [] op = "BeginLine" -> k = 0 \/ text[k] = "\n"
      [] op = "EndLine" -> k = Len(text) \/ text[k + 1] = "\n"
      [] op = "WordBoundary" -> AtWord(text, k - 1) # AtWord(text, k)
      [] op = "NoWordBoundary" -> AtWord(text, k - 1) = AtWord(text, k)
      [] OTHER -> op = "EmptyMatch"

\* Whether re is a character c.
Accepts(re, c) ==
    CASE re.op = "CharClass" -> c \in re.set
      [] re.op = "NotClass" -> c \notin re.set
      [] re.op = "AnyChar" -> TRUE
      [] re.op = "AnyCharNotNL" -> c # "\n"
      [] OTHER -> FALSE

\* The ends of the matches of re that begin at offset k, the preferred ones first; EndsFrom: those
\* that begin at each of the offsets in starts; EndsOfAll: those of one tree behind the other.
RECURSIVE Ends(_, _, _), EndsFrom(_, _, _), EndsOfAll(_, _, _)
EndsFrom(re, text, starts) ==
    IF starts = << >> THEN << >> ELSE Ends(re, text, starts[1]) \o EndsFrom(re, text, Tail(starts))
EndsOfAll(subs, text, starts) ==
    IF subs = << >> THEN starts ELSE EndsOfAll(Tail(subs), text, EndsFrom(subs[1], text, starts))

OnceLess(re) ==
    [re EXCEPT !.min = IF @ = 0 THEN 0 ELSE @ - 1, !.max = IF @ = -1 THEN -1 ELSE @ - 1]

Ends(re, text, k) ==
    LET one == IF k < Len(text) /\ Accepts(re, text[k + 1]) THEN <<k + 1>> ELSE << >>
        once == SelectSeq(Ends(re.sub, text, k), LAMBDA e : re.min > 0 \/ e > k)
        more == IF re.max = 0 THEN << >> ELSE EndsFrom(OnceLess(re), text, once)
    IN  CASE re.op = "Literal" -> IF Has(text, k, re.runes, re.fold) THEN <<k + Len(re.runes)>> ELSE << >>
          [] re.op \in {"CharClass", "NotClass", "AnyChar", "AnyCharNotNL"} -> one
          [] re.op = "Concat" -> EndsOfAll(re.sub, text, <<k>>)
          [] re.op = "Alternate" -> FlattenSeq([n \in DOMAIN re.sub |-> Ends(re.sub[n], text, k)])
          [] re.op = "Repeat" /\ re.min > 0 -> more
          [] re.op = "Repeat" /\ re.min = 0 -> IF re.greedy THEN more \o <<k>> ELSE <<k>> \o more
          [] re.op = "NoMatch" -> << >>
          [] OTHER -> IF Holds(re.op, text, k) THEN <<k>> ELSE << >>

\* The matches of a search are a set of spans <<start, end>>, one of them or none.
\* Leftmost: the first match that begins at offset from or later, regexp.FindIndex.
Leftmost(re, text, from) ==
    LET starts == {k \in from .. Len(text) : Ends(re, text, k) # << >>}
    IN  {<<k, Ends(re, text, k)[1]>> : k \in {s \in starts : \A j \in starts : s <= j}}

\* All matches, one behind the other, none of them empty right behind another: regexp.FindAllIndex.
RECURSIVE AllFrom(_, _, _, _)
AllFrom(re, text, from, lastEnd) ==
    UNION {(IF m[1] = m[2] /\ m[1] = lastEnd THEN {} ELSE {m})
           \cup AllFrom(re, text, IF m[2] = from THEN from + 1 ELSE m[2], m[2]) :
           m \in Leftmost(re, text, from)}

FindAll(re, text) == AllFrom(re, text, 0, -1)
=============================================================================
