----------------------------- MODULE MatchStream -----------------------------
(***************************************************************************)
(* What SearchBytes promises for a search without context: the matching    *)
(* lines of the data go to the Sink one at a time, in order, each with its *)
(* byte offset and line number, until the limit is reached or the Sink     *)
(* stops or fails; then Finish learns how many were delivered.             *)
(*                                                                         *)
(* Data is a sequence of bytes; a line matches when it holds a "hit".      *)
(***************************************************************************)
EXTENDS Integers, Sequences, FiniteSets, SequencesExt

CONSTANTS
    MaxBytes, MaxLimit,
    NoLimit        \* a nil MaxCount

VARIABLES data, limit, numbered, delivered, status, count

vars == <<data, limit, numbered, delivered, status, count>>

Inputs ==
    /\ data \in BoundedSeq({"hit", "miss", "nl"}, MaxBytes)
    /\ limit \in (0 .. MaxLimit) \cup {NoLimit}
    /\ numbered \in BOOLEAN

\* Offsets are byte offsets, so byte p of the file is data[p + 1].
LineStart(p) == p = 0 \/ data[p] = "nl"
HoldsHit(p) == \E q \in p .. Len(data) - 1 :
    data[q + 1] = "hit" /\ \A r \in p .. q : data[r + 1] # "nl"
MatchingLines == {p \in 0 .. Len(data) - 1 : LineStart(p) /\ HoldsHit(p)}
Number(p) == IF numbered THEN 1 + Cardinality({q \in 0 .. p - 1 : data[q + 1] = "nl"}) ELSE 0

\* The matching lines the Sink has not seen.
Left == MatchingLines \ {delivered[i].offset : i \in DOMAIN delivered}
Exhausted == Left = {} \/ Len(delivered) = limit

Init == Inputs /\ delivered = << >> /\ status = "open" /\ count = 0

Deliver ==
    /\ status = "open" /\ ~Exhausted
    /\ delivered' = Append(delivered, [offset |-> Min(Left), number |-> Number(Min(Left))])
    /\ status' \in {"open", "closed", "failed"}
    /\ UNCHANGED <<data, limit, numbered, count>>

End ==
    /\ status = "open" /\ Exhausted
    /\ status' = "closed"
    /\ UNCHANGED <<data, limit, numbered, delivered, count>>

Finish ==
    /\ status = "closed"
    /\ status' = "done"
    /\ count' = Len(delivered)
    /\ UNCHANGED <<data, limit, numbered, delivered>>

Next == Deliver \/ End \/ Finish
LooseSpec == Init /\ [][Next]_vars
Spec == Init /\ [][Next]_vars /\ WF_vars(Next)
=============================================================================
