----------------------------- MODULE WalkerProps -----------------------------
(***************************************************************************)
(* What the parallel walk promises, stated over the variables of Walker.   *)
(***************************************************************************)
EXTENDS Walker

Labels == {"run", "pop", "steal", "append", "popStolen", "deactivate", "park",
           "waiting", "woken", "unparked", "reactivate", "dir", "notify",
           "wakeForWork", "setQuit", "wakeForQuit", "done"}

\* Type invariant of the walker.
TypeOK ==
    /\ queues \in [Workers -> Seq(Entry)]
    /\ active \in Int
    /\ quit \in BOOLEAN
    /\ pushGen \in Nat
    /\ pc \in [Workers -> Labels]
    /\ idle \in [Workers -> BOOLEAN]
    /\ myGen \in [Workers -> Nat]
    /\ probe \in [Workers -> 1 .. NumWorkers]
    /\ batch \in [Workers -> Seq(Entry)]
    /\ stack \in [Workers -> Seq(Frame)]
    /\ visits \in [Entry -> Nat]
    /\ reads \in [Entry -> Nat]
    /\ dropped \subseteq Entry
    /\ asked \in BOOLEAN
    /\ late \in [Workers -> Nat]

-----------------------------------------------------------------------------
(* Counting and parking.                                                   *)

\* The atomic counter that run and park maintain by separate Add(-1) and
\* Add(1) calls is exactly the number of workers between an Add(1) and an
\* Add(-1), whatever the interleaving: no path decrements twice or forgets
\* to increment.
ActiveCount == active = Cardinality({w \in Workers : ~idle[w]})

\* A worker parked on the condition variable owns nothing another worker would
\* have to wait for: no task, no stolen slice, an empty deque.  (Only its owner
\* appends to a deque, so what the failed pop of run or park saw still holds.)
ParkedOwnsNothing ==
    \A w \in Workers : pc[w] \in {"deactivate", "park", "waiting", "woken", "unparked"} =>
        queues[w] = << >> /\ batch[w] = << >> /\ stack[w] = << >>

\* No lost wakeup: a worker waiting although the condition it waits for holds
\* (quit set, or work pushed since its snapshot) is about to be woken, because
\* the worker that made it hold has not broadcast yet.
NoLostWakeup ==
    \A w \in Workers : pc[w] = "waiting" /\ (quit \/ pushGen # myGen[w]) =>
        \E v \in Workers : pc[v] \in {"wakeForWork", "wakeForQuit"}

\* Nobody is left to count down: once the counter is zero the end of the walk
\* has been requested or is being requested, so the workers that wait are woken.
ZeroEndsWalk ==
    active = 0 => quit \/ \E w \in Workers : pc[w] = "setQuit"

\* Everybody waits on everybody: never, by the three invariants above.
NobodyStuck == \E w \in Workers : pc[w] # "waiting"

-----------------------------------------------------------------------------
(* Where the tasks are.                                                    *)

At(s, task) == {k \in 1 .. Len(s) : s[k] = task}

\* A directory task is in a deque, in a stolen slice, or unread in a frame.
Places(d) ==
    (UNION {{"deque"} \X {w} \X At(queues[w], d) : w \in Workers}) \cup
    (UNION {{"slice"} \X {w} \X At(batch[w], d) : w \in Workers}) \cup
    (UNION {{"frame"} \X {w} \X At(stack[w], NewFrame(d)) : w \in Workers})

Pending(d) ==
    /\ d \in RootSet \/ (Kind[d] = "dir" /\ visits[d] > 0)
    /\ reads[d] = 0 /\ d \notin dropped

\* The two locks of stealBatch are never held together, yet a task is always in
\* exactly one place until it is expanded, and in none afterwards; only the
\* frames of a worker whose Visitor answered Quit are abandoned.
TasksConserved ==
    \A d \in Entry : /\ \A p, q \in Places(d) : p = q
                     /\ Places(d) # {} => Pending(d)
                     /\ Pending(d) /\ ~asked => Places(d) # {}

-----------------------------------------------------------------------------
(* The end of the walk.                                                    *)

\* What run means by quiescence, as far as the code guarantees it: when the
\* counter is zero every task still somewhere is held by a worker that has
\* taken it and is about to reactivate (park counts itself active only after
\* it took a task).
QuietExceptReactivating ==
    active = 0 => \A w \in Workers :
        \/ queues[w] = << >> /\ batch[w] = << >> /\ stack[w] = << >>
        \/ idle[w] /\ pc[w] \in {"append", "popStolen", "reactivate"}

\* Walk's contract: when it returns and no Visitor answered Quit, every root
\* and every entry of every listed directory was visited, and every directory
\* visited with Continue was listed or failed to open.
Due(e) == e \in RootSet \/ \E d \in Entry : reads[d] > 0 /\ e \in Elements(Listing[d])
Settled(e) == reads[e] > 0 \/ e \in dropped
CompleteWalk == AllDone /\ ~asked => \A e \in Entry : Due(e) => Settled(e)

\* Quit takes effect "as soon as possible": a worker finishes the directory it
\* is in and may start one more it had already committed to, never a second.
OneLateDirectory == \A w \in Workers : late[w] <= 1

\* Every worker returns: no deadlock, no livelock among stealing and parking
\* workers, however the tree is shaped and whatever the Visitor answers.
Termination == <>AllDone

-----------------------------------------------------------------------------
(* The walk as its caller sees it.                                         *)

Status == [e \in Entry |->
    CASE reads[e] > 0                     -> "listed"
      [] reads[e] = 0 /\ e \in dropped    -> "closed"
      [] reads[e] = 0 /\ e \notin dropped /\ visits[e] > 0 -> "seen"
      [] OTHER                            -> "unseen"]

Contract == INSTANCE DirectoryWalk WITH
    Roots <- RootSet, Children <- [d \in Entry |-> Elements(Listing[d])],
    status <- Status, stopped <- asked, over <- AllDone

\* With any number of workers: every entry at most once, a directory before
\* what is in it, nothing after Walk returned.
ImplementsLooseWalk == Contract!LooseSpec
=============================================================================
