---------------------------- MODULE DirectoryWalk ----------------------------
(***************************************************************************)
(* What walk.Walk promises its caller, with no workers in it: entries are  *)
(* delivered one at a time, each at most once, never before the directory  *)
(* that contains it was listed; nothing is delivered after Walk returned.  *)
(* Spec adds the completeness of the doc comment ("once every worker has   *)
(* quiesced (no more work anywhere) or a Visitor returns Quit"); LooseSpec *)
(* lets the walk end early.                                                *)
(***************************************************************************)
CONSTANTS Entry, Roots, Children

VARIABLES
    status,   \* "unseen", "seen", "listed" or "closed" (not to be expanded)
    stopped,  \* a Visitor answered Quit
    over      \* Walk has returned

vars == <<status, stopped, over>>

Init ==
    /\ status = [e \in Entry |-> "unseen"]
    /\ stopped = FALSE
    /\ over = FALSE

Available(e) ==
    e \in Roots \/ \E d \in Entry : status[d] = "listed" /\ e \in Children[d]

Later(s) == CASE s = "unseen" -> {"seen", "listed", "closed"}
              [] s = "seen"   -> {"listed", "closed"}
              [] OTHER        -> {}

\* One entry is visited, listed or given up; the Visitor may answer Quit.
Deliver(e) ==
    /\ ~over
    /\ Available(e)
    /\ \E s \in Later(status[e]) : status' = [status EXCEPT ![e] = s]
    /\ stopped' \in {stopped, TRUE}
    /\ UNCHANGED over

\* The Visitor answers Quit to an error of an entry it has seen before.
Stop ==
    /\ ~over
    /\ stopped' = TRUE
    /\ UNCHANGED <<status, over>>

Complete == \A e \in Entry : Available(e) => status[e] \in {"listed", "closed"}

Finish ==
    /\ ~over
    /\ stopped \/ Complete
    /\ over' = TRUE
    /\ UNCHANGED <<status, stopped>>

FinishEarly ==
    /\ ~over
    /\ over' = TRUE
    /\ UNCHANGED <<status, stopped>>

Next == (\E e \in Entry : Deliver(e)) \/ Stop \/ Finish
LooseNext == (\E e \in Entry : Deliver(e)) \/ Stop \/ FinishEarly

Spec == Init /\ [][Next]_vars
LooseSpec == Init /\ [][LooseNext]_vars
=============================================================================
