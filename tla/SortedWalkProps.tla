--------------------------- MODULE SortedWalkProps ---------------------------
(***************************************************************************)
(* What a walk with one worker promises about order.                       *)
(***************************************************************************)
EXTENDS SortedWalk, WalkerProps

\* Reference: the pre-order of what is below the given entries, each listing put in
\* order first, leaving out what is below directories that were not descended into.
Below(Arrange(_)) ==
    LET pre[e \in Entry] ==
            <<e>> \o (IF Kind[e] = "dir" /\ e \notin dropped
                      THEN LET l == Arrange(Listing[e]) IN FlattenSeq([k \in DOMAIN l |-> pre[l[k]]])
                      ELSE << >>)
    IN  pre
PreOrder(es, Arrange(_)) == LET b == Below(Arrange) IN FlattenSeq([k \in DOMAIN es |-> b[es[k]]])

CompareBytes(s, t) == Lexical(s, t, LAMBDA a, b : a - b)

AsRead(l) == l
ByName(l) == StableSorted(l, LAMBDA d, e : CompareBytes(Name[d], Name[e]))

EntriesOf(s) == [k \in DOMAIN s |-> s[k].entry]
FilesOf(s) == SelectSeq(s, IsFile)
Returns == phase = "over" /\ ~asked

\* With one worker the visits are a prefix of the pre-order at every moment: each
\* subtree is finished at its readdir position, and roots come in argument order
\* although they are pushed in reverse.  processDir's comment promises "rg's true
\* per-entry recursive-descent order".  And sorting by path after the walk gives what
\* sort.go says rg gets by sorting each directory during it: the ascending order is a
\* descent through sorted listings, root by root; the descending order is one such
\* descent over all roots, backwards.
DescentOrder ==
    LET files == EntriesOf(got) IN
    /\ IsPrefix(order, PreOrder(Roots, AsRead))
    /\ sort = "path" /\ ~reverse => IsPrefix(files, FilesOf(PreOrder(Roots, ByName)))
    /\ sort = "path" /\ reverse => IsPrefix(files, Reverse(FilesOf(PreOrder(ByName(Roots), ByName))))

\* The time of b comes first, a missing one last.
Earlier(a, b) == a.time # None /\ (b.time = None \/ a.time < b.time)
Discovered(e) == CHOOSE k \in DOMAIN order : order[k] = e

\* Sorted by time, no file is handed out before an earlier one (a later one, if
\* reversed), and files of the same time stay in the order of discovery in both
\* directions, over all the roots and for a Visitor that stops in the middle.
TimeSortRight ==
    sort = "time" => \A i, j \in DOMAIN got : i < j =>
        /\ IF reverse THEN ~Earlier(got[i], got[j]) ELSE ~Earlier(got[j], got[i])
        /\ got[i].time = got[j].time => Discovered(got[i].entry) < Discovered(got[j].entry)

\* The detour over the buffer and the sort neither loses a file nor gives one twice: the
\* Visitor is given only files the walk discovered, each once, and when Walk returns
\* without having been told to stop it was given all of them.
FilesGivenOnce ==
    LET found == {e \in ToSet(order) : IsFile(e)}
        given == {got[i].entry : i \in DOMAIN got}
    IN  /\ \A i, j \in DOMAIN got : got[i].entry = got[j].entry => i = j
        /\ given \subseteq found
        /\ Returns => given = found

Whole == INSTANCE DirectoryWalk WITH
    Roots <- RootSet, Children <- [d \in Entry |-> Elements(Listing[d])],
    status <- Status, stopped <- asked, over <- phase = "over"

\* With one worker (and only then, see CompleteWalk) the whole contract of Walk,
\* whether its passes are one or one for each root.
ImplementsWalk == Whole!Spec
=============================================================================
