----------------------------- MODULE SortedWalk -----------------------------
(***************************************************************************)
(* walk.Walk with one worker: -j1, and sort.go's passes over the roots,    *)
(* which buffer the files they find, sort them and only then hand them to  *)
(* the Visitor.  The traversal is Walker's; each pass starts it afresh.    *)
(* An ascending sort by path emits after each root, every other sort after *)
(* the last.                                                               *)
(***************************************************************************)
EXTENDS Walker, SequencesExt

CONSTANTS
    Name,      \* a directory entry's name, or a root as given, as bytes
    Special,   \* links and devices: visited, but not files
    Times,     \* what os.Stat may say of a file's time
    None

\* Walk returns at once if it is given no roots.
ASSUME SortAssumption ==
    /\ Roots # << >>
    /\ NumWorkers = 1 /\ Name \in [Entry -> Seq(Nat)] /\ Special \subseteq Entry
    /\ Times \subseteq Nat /\ None \notin Times

VARIABLES
    sort, reverse,   \* Options.Sort: "none", "path" or "time" (either of the two times)
    obliging,        \* the caller's Visitor always answers Continue
    pass,            \* the root being collected; the last one if all are walked at once
    phase,           \* "walk", "emit" or "over"
    items,           \* walkSorted's buffer
    emit,            \* what emitSorted still has to hand out
    got,             \* the files the Visitor was given, in order
    errors,          \* the errors it was given
    order            \* history: every entry visited, in order

sorting == <<sort, reverse, obliging>>
buffers == <<items, emit>>
seen == <<got, errors, order>>
walkVars == <<vars, sorting, pass, phase, buffers, seen>>

W == 0
IsFile(e) == Kind[e] = "file" /\ e \notin Special

-----------------------------------------------------------------------------
(* comparePath, compareTime and the stable sort.                           *)

Slash == 47

\* The order of two sequences that differ first where Order tells them apart.
Lexical(s, t, Order(_, _)) ==
    LET differ == {k \in 1 .. Len(s) : k <= Len(t) /\ Order(s[k], t[k]) # 0}
        first == CHOOSE k \in differ : \A j \in differ : k <= j
    IN  IF differ # {} THEN Order(s[first], t[first])
        ELSE IF Len(s) < Len(t) THEN -1 ELSE IF Len(s) > Len(t) THEN 1 ELSE 0

\* Components are compared as strings, and a path that ends with one comes first: a
\* separator is less than any byte, and the end of the path less than a separator.
Weight(b) == IF b = Slash THEN 0 ELSE b + 1

ComparePath(s, t) == Lexical(s, t, LAMBDA a, b : Weight(a) - Weight(b))

\* A missing time is greater than every other.
CompareTime(s, t) ==
    CASE s # None /\ t # None -> s - t
      [] s # None /\ t = None -> -1
      [] s = None /\ t # None -> 1
      [] s = None /\ t = None -> 0

Parent(e) == CHOOSE d \in Entry : e \in Elements(Listing[d])
Path[e \in Entry] == IF e \in RootSet THEN Name[e] ELSE Path[Parent(e)] \o <<Slash>> \o Name[e]

\* Every entry is below a root, so that the way up from it ends.
ASSUME PathAssumption == Path \in [Entry -> Seq(Nat)]

CompareAsBytes(a, b) ==   \* mutant: the separator is a byte like any other
    IF sort = "path" THEN Lexical(Path[a.entry], Path[b.entry], LAMBDA x, y : x - y)
    ELSE CompareTime(a.time, b.time)

Compare(a, b) ==
    IF sort = "path" THEN ComparePath(Path[a.entry], Path[b.entry]) ELSE CompareTime(a.time, b.time)

\* slices.SortStableFunc: equal items keep their places.
StableSorted(s, Order(_, _)) ==
    LET before(i, j) == Order(s[i], s[j]) < 0 \/ (Order(s[i], s[j]) = 0 /\ i < j)
        rank(i) == Cardinality({j \in DOMAIN s : before(j, i)}) + 1
    IN  [r \in DOMAIN s |-> s[CHOOSE i \in DOMAIN s : rank(i) = r]]

ReversedAfter(s) ==   \* mutant: sort, then reverse
    IF reverse THEN Reverse(StableSorted(s, Compare)) ELSE StableSorted(s, Compare)

\* The comparator is negated, never the result reversed.
Sorted(s) == StableSorted(s, LAMBDA a, b : IF reverse THEN -Compare(a, b) ELSE Compare(a, b))

-----------------------------------------------------------------------------
(* The passes.                                                             *)

PerRoot == sort = "path" /\ ~reverse

LastPassEarly == pass + 1 >= Len(Roots)   \* mutant: i < len(roots) - 1

LastPass == pass = Len(Roots)

FirstRoot == INSTANCE Walker WITH Roots <- SubSeq(Roots, 1, 1)

WalkInit ==
    /\ sort \in {"none", "path", "time"} /\ reverse \in BOOLEAN /\ obliging \in BOOLEAN
    /\ sort = "none" => ~reverse
    /\ IF sort = "none" THEN Init ELSE FirstRoot!Init
    /\ pass = IF sort = "none" THEN Len(Roots) ELSE 1
    /\ phase = "walk" /\ items = << >> /\ emit = << >>
    /\ got = << >> /\ errors = 0 /\ order = << >>

\* runWorkers([]string{root}, ...): everything of it is made anew.
StartPass ==
    /\ ~LastPass
    /\ pass' = pass + 1
    /\ queues' = [queues EXCEPT ![W] = <<Roots[pass + 1]>>]
    /\ active' = NumWorkers /\ quit' = FALSE /\ pushGen' = 0
    /\ pc' = [pc EXCEPT ![W] = "run"] /\ idle' = [idle EXCEPT ![W] = FALSE]
    /\ myGen' = [myGen EXCEPT ![W] = 0] /\ probe' = [probe EXCEPT ![W] = 1]
    /\ UNCHANGED <<batch, stack, history>>

Give(item) == got' = Append(got, item)

\* collectRoot's collector; the time is read by a stat that may fail.
Collect(e) ==
    \E t \in IF sort = "time" THEN Times \cup {None} ELSE {None} :
        items' = Append(items, [entry |-> e, time |-> t])

MeetsAny(e) ==   \* mutant: e.Type is not looked at
    IF sort = "none" THEN Give([entry |-> e, time |-> None]) /\ UNCHANGED items
    ELSE Collect(e) /\ UNCHANGED got

Meets(e) ==
    IF ~IsFile(e) THEN UNCHANGED <<items, got>>
    ELSE IF sort = "none" THEN Give([entry |-> e, time |-> None]) /\ UNCHANGED items
    ELSE Collect(e) /\ UNCHANGED got

\* The collector answers Continue, and so does an obliging Visitor.
GoesOn(e) == asked' = asked /\ (Kind[e] = "dir" => e \notin dropped')

\* A Visitor call without an error, or one that reports a root that is not there.
Visit ==
    /\ StartRoot(W) \/ VisitEntry(W)
    /\ \E e \in Entry :
        /\ visits'[e] # visits[e]
        /\ order' = Append(order, e)
        /\ obliging \/ (sort # "none" /\ Kind[e] # "invalid") => GoesOn(e)
        /\ IF Kind[e] = "invalid" THEN errors' = errors + 1 /\ UNCHANGED <<items, got>>
           ELSE Meets(e) /\ UNCHANGED errors
    /\ UNCHANGED <<sorting, pass, phase, emit>>

\* collectRoot forwards an error to the Visitor at once.
Report ==
    /\ OpenFails(W)
    /\ obliging => asked' = asked
    /\ errors' = errors + 1
    /\ order' = order \o SetToSeq({e \in Entry : visits'[e] # visits[e]})
    /\ UNCHANGED <<sorting, pass, phase, buffers, got>>

\* A directory is read, a root's after it was visited.
Read ==
    /\ ReadDir(W)
    /\ order' = order \o SetToSeq({e \in Entry : visits'[e] # visits[e]})
    /\ UNCHANGED <<sorting, pass, phase, buffers, got, errors>>

Proceed ==
    /\ LoopStep(W) \/ PruneForeign(W) \/ EndOfDir(W)
    /\ UNCHANGED <<sorting, pass, phase, buffers, seen>>

\* The worker has returned: on to the next root, to the sort, or back to the caller.
EndOfPass ==
    /\ phase = "walk" /\ AllDone
    /\ \/ /\ asked \/ sort = "none"
          /\ phase' = "over" /\ UNCHANGED <<vars, pass, buffers>>
       \/ /\ ~asked /\ sort # "none" /\ ~PerRoot
          /\ StartPass /\ UNCHANGED <<phase, buffers>>
       \/ /\ ~asked /\ sort # "none" /\ (PerRoot \/ LastPass)
          /\ emit' = Sorted(items) /\ items' = << >>
          /\ phase' = "emit" /\ UNCHANGED <<vars, pass>>
    /\ UNCHANGED <<sorting, seen>>

\* emitSorted: the Visitor may answer Quit.
Emit ==
    /\ phase = "emit" /\ emit # << >> /\ ~asked
    /\ Give(Head(emit))
    /\ emit' = Tail(emit)
    /\ asked' \in {FALSE, ~obliging}
    /\ UNCHANGED <<shared, pc, private, visits, reads, dropped, late, sorting, pass, phase, items, errors, order>>

EndOfEmit ==
    /\ phase = "emit" /\ (emit = << >> \/ asked)
    /\ IF asked \/ LastPass THEN phase' = "over" /\ UNCHANGED <<vars, pass>>
       ELSE StartPass /\ phase' = "walk"
    /\ UNCHANGED <<sorting, buffers, seen>>

WalkStep == Visit \/ Report \/ Read \/ Proceed \/ EndOfPass \/ Emit \/ EndOfEmit
=============================================================================
