------------------------------- MODULE Literals -------------------------------
(***************************************************************************)
(* src/match/seq.go and rank.go: the literals of which every match of a    *)
(* pattern must contain one, so that a scan for them may stand in for the  *)
(* engine.  A sequence has the fields lits (in order of preference),       *)
(* infinite ("any literal") and prefix (tSeq's tag); a literal is its      *)
(* bytes and whether it is exact, that is, may still be extended.          *)
(***************************************************************************)
EXTENDS Regex, FiniteSets, FiniteSetsExt

CodePoints == <<"NUL", "\n", "\r", " ", "-", "0", "1", "2", "3", "4", "5", "6", "7", "8", "9">>
              \o Large \o <<"_">> \o Small
Frequencies == <<55, 242, 229, 255, 202, 208, 220, 204, 187, 183, 179, 177, 168, 178, 200,
    191, 157, 194, 170, 189, 162, 161, 150, 193, 142, 171, 176, 185, 167, 186, 112, 175, 188, 156, 140, 143, 123, 133, 128,
    223,
    249, 216, 238, 236, 253, 227, 218, 230, 247, 135, 241, 233, 246, 244, 231, 139, 245, 251, 235, 201, 196, 240, 214, 152>>
byteFrequency == [c \in Range(CodePoints) |-> Frequencies[CHOOSE k \in DOMAIN CodePoints : CodePoints[k] = c]]
rank(c) == byteFrequency[c]
isPoisonousByte(c) == rank(c) >= 250

limitClass == 10
limitRepeat == 10
limitLiteralLen == 100
limitTotal == 64

Item(bytes, exact) == [bytes |-> bytes, exact |-> exact]
Finite(lits) == [lits |-> lits, infinite |-> FALSE, prefix |-> TRUE]
Singleton(bytes) == Finite(<<Item(bytes, TRUE)>>)
Infinite == [lits |-> << >>, infinite |-> TRUE, prefix |-> TRUE]

-----------------------------------------------------------------------------
(* seq.                                                                    *)

isEmpty(s) == ~s.infinite /\ s.lits = << >>
isExact(s) == ~s.infinite /\ \A k \in DOMAIN s.lits : s.lits[k].exact
isInexact(s) == s.infinite \/ \A k \in DOMAIN s.lits : ~s.lits[k].exact
makeInexact(s) == [s EXCEPT !.lits = [k \in DOMAIN @ |-> Item(@[k].bytes, FALSE)]]
makeInfinite(s) == [s EXCEPT !.lits = << >>, !.infinite = TRUE]
Lengths(s) == {Len(s.lits[k].bytes) : k \in DOMAIN s.lits}
Poisonous(s) == \E k \in DOMAIN s.lits :
    LET b == s.lits[k].bytes IN Len(b) = 0 \/ (Len(b) = 1 /\ isPoisonousByte(b[1]))

\* Of adjacent equals one is left, inexact if one of them is.
dedup(s) ==
    LET add(out, lit) ==
            IF out # << >> /\ Last(out).bytes = lit.bytes
            THEN Append(Front(out), Item(lit.bytes, lit.exact /\ Last(out).exact))
            ELSE Append(out, lit)
    IN  [s EXCEPT !.lits = FoldLeft(add, << >>, @)]

keepFirstBytes(s, n) ==
    [s EXCEPT !.lits = [k \in DOMAIN @ |->
        IF Len(@[k].bytes) <= n THEN @[k] ELSE Item(SubSeq(@[k].bytes, 1, n), FALSE)]]

\* An exact literal followed by every literal of o.
ExtendedExactly(lit, o) ==
    IF ~lit.exact THEN <<lit>>
    ELSE [k \in DOMAIN o.lits |-> Item(lit.bytes \o o.lits[k].bytes, TRUE)]
Extended(lit, o) ==
    IF ~lit.exact THEN <<lit>>
    ELSE [k \in DOMAIN o.lits |-> Item(lit.bytes \o o.lits[k].bytes, o.lits[k].exact)]
crossForward(s, o) ==
    CASE o.infinite -> IF 0 \in Lengths(s) THEN makeInfinite(s) ELSE makeInexact(s)
      [] ~o.infinite /\ s.infinite -> s
      [] OTHER -> dedup([s EXCEPT !.lits = FlattenSeq([k \in DOMAIN @ |-> Extended(@[k], o)])])

unionWith(s, o) ==
    CASE o.infinite -> makeInfinite(s)
      [] ~o.infinite /\ s.infinite -> s
      [] OTHER -> dedup([s EXCEPT !.lits = @ \o o.lits])

\* A literal that an earlier one is a prefix of never matches first.
minimizeByPreference(s) ==
    LET keep(kept, lit) ==
            IF \E k \in DOMAIN kept : IsPrefix(kept[k].bytes, lit.bytes) THEN kept ELSE Append(kept, lit)
    IN  [s EXCEPT !.lits = FoldLeft(keep, << >>, @)]

LengthOfPrefix(s) ==
    Max({n \in 0 .. Min(Lengths(s)) : \A j, k \in DOMAIN s.lits :
            SubSeq(s.lits[j].bytes, 1, n) = SubSeq(s.lits[k].bytes, 1, n)})

\* Shorter literals while there are too many of them.
Attempts == <<[keep |-> 5, limit |-> 10], [keep |-> 4, limit |-> 10], [keep |-> 3, limit |-> 64],
              [keep |-> 2, limit |-> 64], [keep |-> 1, limit |-> 10]>>
RECURSIVE Shortened(_, _)
Shortened(s, k) ==
    IF k > Len(Attempts) \/ Len(s.lits) <= Attempts[k].limit THEN s
    ELSE Shortened(minimizeByPreference(keepFirstBytes(s, Attempts[k].keep)), k + 1)

optimizeForPrefixByPreference(t) ==
    LET s == minimizeByPreference(t)
        fix == LengthOfPrefix(s)
        isFast == isExact(s) /\ Len(s.lits) <= 16
        cut == IF s.lits # << >> /\ (fix > 4 \/ (fix > 1 /\ ~isFast))
               THEN dedup(keepFirstBytes(s, fix)) ELSE s
        shorter == Shortened(cut, 1)
        healthy == IF Poisonous(shorter) THEN makeInfinite(shorter) ELSE shorter
        useless == healthy.infinite \/ healthy.lits = << >> \/ Min(Lengths(healthy)) <= 2 \/ Len(healthy.lits) > 64
    IN  CASE t.infinite -> t
          [] 0 \in Lengths(t) -> makeInfinite(t)
          [] ~t.infinite /\ 0 \notin Lengths(t) /\ s.lits # << >> /\ Len(t.lits) > 1 /\ fix \in 1 .. 3
             /\ rank(s.lits[1].bytes[1]) < 200 -> dedup(keepFirstBytes(s, 1))
          [] OTHER -> IF isExact(cut) /\ useless THEN cut ELSE healthy

-----------------------------------------------------------------------------
(* tSeq.                                                                   *)

Usable(s) == ~Poisonous(s) /\ s.lits # << >>
isGood(s) == Usable(s) /\ Len(s.lits) <= IF Min(Lengths(s)) <= 1 THEN 3 ELSE 64
isReallyGood(s) == Usable(s) /\ Min(Lengths(s)) >= 3 /\ Len(s.lits) <= 8

\* The one that looks like the better prefilter.
choose(t, o) ==
    LET s1 == makeInexact(t)
        s2 == makeInexact(o)
        min1 == Min(Lengths(s1))
        min2 == Min(Lengths(s2))
        second == \/ s1.infinite
                  \/ ~s2.infinite /\ Poisonous(s1)
                  \/ ~s2.infinite /\ ~Poisonous(s2) /\
                        \/ s1.lits = << >>
                        \/ s2.lits # << >> /\ (min1 < min2 \/ (min1 = min2 /\ Len(s1.lits) < Len(s2.lits)))
    IN  IF second THEN s2 ELSE s1

-----------------------------------------------------------------------------
(* The extractor.                                                          *)

cross(s1, s2) ==
    LET o == IF ~s1.infinite /\ ~s2.infinite /\ Len(s1.lits) * Len(s2.lits) > limitTotal
             THEN makeInfinite(s2) ELSE s2
    IN  IF ~s2.prefix THEN choose(s1, s2) ELSE keepFirstBytes(crossForward(s1, o), limitLiteralLen)

union(s1, s2) ==
    LET tooMany(s, o) == ~s.infinite /\ ~o.infinite /\ Len(s.lits) + Len(o.lits) > limitTotal
        cut(s) == IF tooMany(s1, s2) THEN dedup(keepFirstBytes(s, 4)) ELSE s
        other == IF tooMany(s1, s2) /\ tooMany(cut(s1), cut(s2)) THEN makeInfinite(cut(s2)) ELSE cut(s2)
    IN  [unionWith(cut(s1), other) EXCEPT !.prefix = s1.prefix /\ s2.prefix]

foldOrbit(r) == SelectSeq(CodePoints, LAMBDA c : c \in {ToLower(r), ToUpper(r)})
Each(chars) == Finite([k \in DOMAIN chars |-> Item(<<chars[k]>>, TRUE)])
extractLiteral(re) ==
    LET runes == [k \in DOMAIN re.runes |-> IF re.fold THEN Each(foldOrbit(re.runes[k])) ELSE Singleton(<<re.runes[k]>>)]
    IN  FoldLeft(cross, Singleton(<< >>), runes)

extractClass(re) ==
    IF re.op = "NotClass" \/ Cardinality(re.set) > limitClass THEN Infinite
    ELSE Each(SelectSeq(CodePoints, LAMBDA c : c \in re.set))

\* min copies, at most limitRepeat of them.
RECURSIVE Copies(_, _, _)
Copies(s, subseq, n) ==
    IF n = 0 \/ isInexact(s) THEN s ELSE Copies(cross(s, subseq), subseq, n - 1)
extractRepeatRange(subseq, min, exactCount) ==
    LET s == Copies(Singleton(<< >>), subseq, IF min > limitRepeat THEN limitRepeat ELSE min)
    IN  IF exactCount /\ min <= limitRepeat THEN s ELSE makeInexact(s)

Repeated(re, subseq) ==
    LET some == IF re.max = 1 THEN subseq ELSE makeInexact(subseq)
        none == Singleton(<< >>)
    IN  CASE re.min = 0 -> IF re.greedy THEN union(some, none) ELSE union(none, some)
          [] re.min > 0 /\ re.max = -1 -> makeInexact(subseq)
          [] OTHER -> extractRepeatRange(subseq, re.min, re.min = re.max)

\* Behind a sequence that cannot be extended a new one is begun, and the best of them is kept.
RECURSIVE extract(_), extractConcat(_, _, _)
extractConcat(subs, s, prev) ==
    IF subs = << >> THEN IF prev = << >> THEN s ELSE choose(prev[1], s)
    ELSE CASE isInexact(s) /\ (isEmpty(s) \/ isReallyGood(s)) -> s
           [] isInexact(s) /\ ~isEmpty(s) /\ ~isReallyGood(s) ->
                  LET new == [Singleton(<< >>) EXCEPT !.prefix = FALSE]
                  IN  extractConcat(Tail(subs), cross(new, extract(subs[1])),
                                    IF prev = << >> THEN <<s>> ELSE <<choose(prev[1], s)>>)
           [] OTHER -> extractConcat(Tail(subs), cross(s, extract(subs[1])), prev)

extractAlternation(seqs) ==
    FoldLeft(LAMBDA s, o : IF s.infinite THEN s ELSE union(s, o), Finite(<< >>), seqs)

extract(re) ==
    CASE re.op = "Literal" -> extractLiteral(re)
      [] re.op \in {"CharClass", "NotClass"} -> extractClass(re)
      [] re.op = "Repeat" ->
             IF re.max = 0 THEN Singleton(<< >>) ELSE Repeated(re, extract(re.sub))
      [] re.op = "Concat" -> extractConcat(re.sub, Singleton(<< >>), << >>)
      [] re.op = "Alternate" -> extractAlternation([k \in DOMAIN re.sub |-> extract(re.sub[k])])
      [] re.op = "NoMatch" -> Finite(<< >>)
      [] re.op \in {"AnyChar", "AnyCharNotNL"} -> Infinite
      [] OTHER -> Singleton(<< >>)

\* The literals extracted from a pattern, if they are worth scanning for.
extractInnerLiterals(literals) ==
    LET s == optimizeForPrefixByPreference(literals)
    IN  IF isGood(s) THEN s ELSE makeInfinite(s)
=============================================================================
