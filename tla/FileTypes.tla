------------------------------ MODULE FileTypes ------------------------------
(***************************************************************************)
(* File types (package filetype) and -g/--iglob (engine/build.go): the     *)
(* changes of the command line applied one at a time to a table of globs,  *)
(* the selections resolved against the table they end with.                *)
(***************************************************************************)
EXTENDS Glob, TLC

CONSTANT DefaultTypes  \* the built-in table: name -> sequence of globs

\* A Builder.
NewTypes == [types |-> DefaultTypes, selections |-> << >>, failed |-> FALSE]
Undefinable(b) == [b EXCEPT !.failed = TRUE]

\* What is no letter or digit.
NotLetters == {" ", "!", "#", "*", ",", "-", ".", "/", "?", "[", "]", "^", "{", "}", "\\"}
IsValidTypeName(name) == name # << >> /\ name # <<"all">> /\ ToSet(name) \cap NotLetters = {}

Split(spec, sep) ==
    LET cuts == <<0>> \o Upward(Positions(spec, sep), Len(spec)) \o <<Len(spec) + 1>>
    IN  [k \in 1 .. Len(cuts) - 1 |-> SubSeq(spec, cuts[k] + 1, cuts[k + 1] - 1)]

GlobsOf(b, name) == IF name \in DOMAIN b.types THEN b.types[name] ELSE << >>
AddGlobs(b, name, globs) == [b EXCEPT !.types = (name :> GlobsOf(b, name) \o globs) @@ @]

\* addDef: "name:glob", or "name:include:type,..." of what is defined by now.
addDef(b, spec) ==
    LET parts == Split(spec, ":")
        name == parts[1]
        included == Split(parts[3], ",")
        includable == /\ Len(parts) = 3 /\ name # << >> /\ parts[2] = <<"include">> /\ parts[3] # << >>
                      /\ \A k \in DOMAIN included : included[k] \in DOMAIN b.types
        empty == \A k \in DOMAIN included : b.types[included[k]] = << >>
        one(c, t) == AddGlobs(c, name, c.types[t])
    IN  CASE Len(parts) = 2 /\ IsValidTypeName(name) /\ parts[2] # << >> -> AddGlobs(b, name, <<parts[2]>>)
          [] includable /\ empty -> b
          [] includable /\ ~empty /\ IsValidTypeName(name) -> FoldLeft(one, b, included)
          [] OTHER -> Undefinable(b)

\* Select and Negate: "all" stands for the names the table has at that moment.
selectOrNegate(b, name, negate) ==
    LET names == IF name = <<"all">> THEN SetToSeq(DOMAIN b.types) ELSE <<name>>
    IN  [b EXCEPT !.selections = @ \o [k \in DOMAIN names |-> [name |-> names[k], negate |-> negate]]]

\* mutant: the globs are looked up when a type is selected
ClearKeeping(b, name) == IF \E k \in DOMAIN b.selections : b.selections[k].name = name THEN b ELSE
                         [b EXCEPT !.types = [n \in DOMAIN @ \ {name} |-> @[n]]]

Clear(b, name) == [b EXCEPT !.types = [n \in DOMAIN @ \ {name} |-> @[n]]]

ApplyChange(b, c) ==
    CASE b.failed          -> b
      [] ~b.failed /\ c.kind = "Select" -> selectOrNegate(b, c.arg, FALSE)
      [] ~b.failed /\ c.kind = "Negate" -> selectOrNegate(b, c.arg, TRUE)
      [] ~b.failed /\ c.kind = "Add"    -> addDef(b, c.arg)
      [] ~b.failed /\ c.kind = "Clear"  -> Clear(b, c.arg)

Apply(changes) == FoldLeft(ApplyChange, NewTypes, changes)

escapeGlobSpecials(g) == IF At(g, 1) \in {"!", "#"} THEN <<"\\">> \o g ELSE g

\* Build: a selected glob whitelists, a negated one ignores; nil without selections.
TypeLines(b) ==
    LET line(s, g) == IF s.negate THEN escapeGlobSpecials(g) ELSE <<"!">> \o escapeGlobSpecials(g)
        lines(s) == [k \in DOMAIN GlobsOf(b, s.name) |-> line(s, GlobsOf(b, s.name)[k])]
    IN  FlattenSeq([k \in DOMAIN b.selections |-> lines(b.selections[k])])

NoMatcher == [failed |-> FALSE, set |-> << >>, requireMatch |-> FALSE]
FailedMatcher == [failed |-> TRUE, set |-> << >>, requireMatch |-> FALSE]
AsMatcher(set, requireMatch) ==
    IF BuildFails(set) THEN FailedMatcher
    ELSE [failed |-> FALSE, set |-> <<set>>, requireMatch |-> requireMatch]
\* Compiled lines; folded: the indices of those that disregard case.
Compiled(texts, folded) == [k \in DOMAIN texts |-> CompileLine(texts[k], k \in folded)]

Build(b) ==
    LET unknown == \E k \in DOMAIN b.selections : b.selections[k].name \notin DOMAIN b.types
    IN  CASE b.selections = << >> -> NoMatcher
          [] b.selections # << >> /\ unknown -> FailedMatcher
          [] OTHER -> AsMatcher(Compiled(TypeLines(b), {}),
                                \E k \in DOMAIN b.selections : ~b.selections[k].negate)

BuildUnlessFailed(b) == IF b.failed THEN FailedMatcher ELSE Build(b)
buildTypes(changes) == IF changes = << >> THEN NoMatcher ELSE BuildUnlessFailed(Apply(changes))

\* buildGlobs: -g turned round, since in an ignore file "!" takes a file back.
Turned(g) == IF At(g, 1) = "!" THEN Tail(g) ELSE <<"!">> \o g
buildGlobs(globs, iglobs, ci) ==
    LET all == globs \o iglobs
        texts == [k \in DOMAIN all |-> Turned(all[k])]
        folded == {k \in DOMAIN all : ci \/ k > Len(globs)}
    IN  IF all = << >> THEN NoMatcher
        ELSE AsMatcher(Compiled(texts, folded), \E k \in DOMAIN all : At(all[k], 1) # "!")
=============================================================================
