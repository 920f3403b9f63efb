----------------------------- MODULE TrackerProps -----------------------------
(***************************************************************************)
(* What the search of one file owes its user.                              *)
(***************************************************************************)
EXTENDS MatchTracker

Done == phase = "done"
Hits(S) == {i \in S : file[i].kind = "match"}
Shown == ToSet(accepted)
FirstNul == IF Nuls(0, Size) = {} THEN None ELSE Min(Nuls(0, Size))
Reported == {i \in DOMAIN file : file[i].kind # "none"}

\* Exit code and output agree: a file counts as matched exactly when what was written about
\* it says so, whatever binary data did to the search. Of a file that does not count nothing is
\* written but what --passthru (a block of context) and --include-zero (a zero) ask for.
Telling == {"lines", "count", "path", "warning", "message"}
SignalMeansOutput ==
    Done /\ sink # "discard" =>
        /\ matched <=> ToSet(output) \cap Telling # {}
        /\ ~matched => \/ output = << >>
                       \/ passThru /\ output = <<"context">>
                       \/ sink = "zeros" /\ output = <<"zero">>

\* No match gets lost: what the Searcher found is shown or announced by a message.
NothingVanishes ==
    Done /\ sink = "standard" /\ matchCount > Cardinality(Hits(Shown)) => "message" \in ToSet(output)

\* The binary data itself never reaches a terminal, whatever the mode asks for (mapped files
\* under binary-quit are excepted: SearchBytes tests a prefix only, and noteLineNUL is for convert).
Raw(i) == file[i].nul # None /\ NulAt(i) < LineEnd(i)
NothingRawShown == mode # "none" /\ ~(mapped /\ mode = "quit") => \A i \in Shown : ~Raw(i)

\* What a streamed file shows under convert: every line until a NUL has been read, and in the
\* end the lines before the first NUL; if that is near the beginning, those shown by then.
Wholly(off) == {i \in Reported : off = None \/ 2 * i <= off}
StreamShown ==
    /\ ~Binary => Shown = Reported \cap 1 .. delivered
    /\ Done /\ (FirstNul = None \/ FirstNul >= Prefix) => Shown = Wholly(FirstNul)
    /\ Done => Shown \subseteq Wholly(FirstNul)

\* What a mapped file shows: nothing if a NUL lies near the beginning, and otherwise the lines
\* before the first line reported that has one.
NearNuls == Nuls(0, Min({Prefix, Size}))
MapShown ==
    Done => Shown = {i \in Reported :
        /\ NearNuls = {}
        /\ \A j \in Reported : file[j].nul # None => 2 * i <= NulAt(j)}

\* Under convert the lines before the first NUL are shown and the others are not, and from the
\* moment that a NUL near the beginning has been read no line is shown any more.
ShownRight ==
    sink = "standard" =>
        /\ NothingRawShown
        /\ mode = "convert" => IF mapped THEN MapShown ELSE StreamShown
HidesAll == sink = "standard" /\ mode = "convert" /\ Binary /\ binaryOffset < Prefix
ConvertShows == [][ShownRight' /\ (HidesAll => UNCHANGED accepted)]_vars

\* --stats counts the matches before the first NUL of a streamed file, whatever the
\* Sink would have stopped at, and it counts the file.
StatsExact ==
    Done /\ stats /\ ~mapped =>
        /\ filesSearched = 1
        /\ mode # "quit" \/ FirstNul = None => delivered = Len(file)
        /\ counted = Cardinality({i \in Hits(1 .. delivered) :
                        mode = "none" \/ FirstNul = None \/ Offset(i) < FirstNul})
=============================================================================
