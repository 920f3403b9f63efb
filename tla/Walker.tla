------------------------------- MODULE Walker -------------------------------
(***************************************************************************)
(* The parallel directory walker: package walk, files worker.go, deque.go  *)
(* and walk.go.  A fixed pool of workers expands directories taken from    *)
(* per-worker LIFO deques, steals half of another deque when its own is    *)
(* empty, and parks on a condition variable when there is nothing to       *)
(* steal.  A counter of active workers decides when the walk is over.      *)
(*                                                                         *)
(* One action is one step another worker can observe: a critical section   *)
(* of a deque's mutex, of the coordinator's mutex, one atomic operation,   *)
(* or one Visitor call (a pushed child is appended by the step that        *)
(* visits it: nothing another worker can read changes in between).         *)
(*                                                                         *)
(* The file system is constant: Listing[d] are the entries of directory d  *)
(* that survive the filter chain, in readdir order.  An entry is one path  *)
(* below one root, so two roots that overlap contribute distinct entries.  *)
(***************************************************************************)
EXTENDS Integers, Sequences, FiniteSets

CONSTANTS
    NumWorkers,  \* n of runWorkers
    Entry,       \* everything the walk can meet
    Kind,        \* "dir", "file" (also links and specials) or "invalid" root
    Listing,     \* a directory's surviving entries, in readdir order
    Roots,       \* the roots, in argument order
    Foreign,     \* directories OneFileSystem prunes at descent
    Verdicts     \* what the Visitor may answer

ASSUME NumWorkersAssumption == NumWorkers \in Nat \ {0}
ASSUME TreeAssumption ==
    /\ Kind \in [Entry -> {"dir", "file", "invalid"}]
    /\ Listing \in [Entry -> Seq(Entry)]
    /\ Roots \in Seq(Entry)
    /\ Foreign \subseteq Entry
\* No path is listed twice, and none is a root besides.
ASSUME ForestAssumption ==
    /\ \A i, j \in DOMAIN Roots : Roots[i] = Roots[j] => i = j
    /\ \A d, c \in Entry : \A i \in DOMAIN Listing[d], j \in DOMAIN Listing[c] :
          Listing[d][i] = Listing[c][j] => d = c /\ i = j
    /\ \A d \in Entry : \A i \in DOMAIN Listing[d], j \in DOMAIN Roots : Listing[d][i] # Roots[j]
ASSUME VerdictsAssumption == Verdicts \subseteq {"Continue", "SkipDir", "Quit"}

Workers == 0 .. NumWorkers - 1

VARIABLES
    queues,   \* queues[w]: worker w's deque, head first
    active,   \* coordinator.active
    quit,     \* coordinator.quit
    pushGen,  \* coordinator.pushGen
    pc,       \* where each worker is
    idle,     \* w has decremented active and not incremented it again
    myGen,    \* park's snapshot of pushGen
    probe,    \* steal's i: how far round the other deques w has looked
    batch,    \* stealBatch's stolen slice, between the two locks
    stack,    \* frames of processDir; more than one only with one worker
    visits,   \* history: error-free Visitor calls per entry
    reads,    \* history: how often a directory was listed
    dropped,  \* history: entries not to be expanded (skipped, pruned, unreadable)
    asked,    \* history: a Visitor returned Quit
    late      \* history: directories w started although quit was set

shared  == <<queues, active, quit, pushGen>>
private == <<idle, myGen, probe, batch, stack>>
history == <<visits, reads, dropped, asked, late>>
vars == <<shared, pc, private, history>>

Single == NumWorkers = 1
Elements(s) == {s[k] : k \in 1 .. Len(s)}
RootSet == Elements(Roots)
Frame == [dir : Entry, next : Nat]
NewFrame(d) == [dir |-> d, next |-> 0]
Top(w) == stack[w][Len(stack[w])]
Pop(s) == SubSeq(s, 1, Len(s) - 1)
Goto(w, label) == pc' = [pc EXCEPT ![w] = label]

ShareShort(w) ==   \* mutant: i starts at len(initial) - 2
    IF w + 1 < Len(Roots) THEN (Len(Roots) - 2 - w) \div NumWorkers + 1 ELSE 0

\* runWorkers deals root i to queue i % n ...
Share(w) == IF w < Len(Roots) THEN (Len(Roots) - 1 - w) \div NumWorkers + 1 ELSE 0

SeededForward(w) == [k \in 1 .. Share(w) |-> Roots[w + 1 + NumWorkers * (k - 1)]]  \* mutant

\* ... last root first, so that pop yields each queue's roots in argument order.
Seeded(w) ==
    [k \in 1 .. Share(w) |-> Roots[w + 1 + NumWorkers * (Share(w) - k)]]

Init ==
    /\ queues = [w \in Workers |-> Seeded(w)]
    /\ active = NumWorkers
    /\ quit = FALSE
    /\ pushGen = 0
    /\ pc = [w \in Workers |-> "run"]
    /\ idle = [w \in Workers |-> FALSE]
    /\ myGen = [w \in Workers |-> 0]
    /\ probe = [w \in Workers |-> 1]
    /\ batch = [w \in Workers |-> << >>]
    /\ stack = [w \in Workers |-> << >>]
    /\ visits = [e \in Entry |-> 0]
    /\ reads = [e \in Entry |-> 0]
    /\ dropped = {}
    /\ asked = FALSE
    /\ late = [w \in Workers |-> 0]

-----------------------------------------------------------------------------
(* worker.run: the top of the loop, its own deque, then the others.        *)

CheckQuitNever(w) ==   \* mutant: quit is not looked at
    pc[w] = "run" /\ Goto(w, "pop") /\ UNCHANGED <<shared, private, history>>

CheckQuit(w) ==
    /\ pc[w] = "run"
    /\ Goto(w, IF quit THEN "done" ELSE "pop")
    /\ UNCHANGED <<shared, private, history>>

TakeActive(w) ==   \* mutant: park returns a task without active.Add(1)
    /\ queues[w] # << >>
    /\ stack' = [stack EXCEPT ![w] = <<NewFrame(queues[w][Len(queues[w])])>>]
    /\ queues' = [queues EXCEPT ![w] = Pop(@)]
    /\ Goto(w, "dir")
    /\ UNCHANGED probe

\* The task becomes the worker's frame.  An idle worker still has to reactivate.
Take(w) ==
    /\ queues[w] # << >>
    /\ stack' = [stack EXCEPT ![w] = <<NewFrame(queues[w][Len(queues[w])])>>]
    /\ queues' = [queues EXCEPT ![w] = Pop(@)]
    /\ Goto(w, IF idle[w] THEN "reactivate" ELSE "dir")
    /\ UNCHANGED probe

PopOwn(w) ==
    /\ pc[w] = "pop"
    /\ \/ Take(w)
       \/ /\ queues[w] = << >>
          /\ probe' = [probe EXCEPT ![w] = 1]
          /\ Goto(w, "steal")
          /\ UNCHANGED <<queues, stack>>
    /\ UNCHANGED <<active, quit, pushGen, idle, myGen, batch, history>>

NothingFound(w) == Goto(w, IF idle[w] THEN "park" ELSE "deactivate")

\* steal's loop over the other deques has ended.
RoundOver(w) == probe[w] = NumWorkers

\* stealBatch takes the older half, rounded up.
Half(q) == (Len(q) + 1) \div 2
Stolen(q) == SubSeq(q, 1, Half(q))

LeftShort(q) == SubSeq(q, Half(q) + 2, Len(q))  \* mutant: off by one
Left(q) == SubSeq(q, Half(q) + 1, Len(q))

\* stealBatch, under the victim's lock.
Steal(w) ==
    LET victim == (w + probe[w]) % NumWorkers
    IN  /\ pc[w] = "steal"
        /\ \/ /\ RoundOver(w)
              /\ NothingFound(w)
              /\ UNCHANGED <<queues, batch, probe>>
           \/ /\ ~RoundOver(w)
              /\ queues[victim] = << >>
              /\ probe' = [probe EXCEPT ![w] = @ + 1]
              /\ UNCHANGED <<queues, batch, pc>>
           \/ /\ ~RoundOver(w)
              /\ queues[victim] # << >>
              /\ batch' = [batch EXCEPT ![w] = Stolen(queues[victim])]
              /\ queues' = [queues EXCEPT ![victim] = Left(@)]
              /\ Goto(w, "append")
              /\ UNCHANGED probe
        /\ UNCHANGED <<active, quit, pushGen, idle, myGen, stack, history>>

\* stealBatch, under the thief's own lock, which it takes after the victim's.
AppendStolen(w) ==
    /\ pc[w] = "append"
    /\ queues' = [queues EXCEPT ![w] = @ \o batch[w]]
    /\ batch' = [batch EXCEPT ![w] = << >>]
    /\ Goto(w, "popStolen")
    /\ UNCHANGED <<active, quit, pushGen, idle, myGen, probe, stack, history>>

\* steal's final pop: a third worker may have emptied the deque meanwhile.
PopStolen(w) ==
    /\ pc[w] = "popStolen"
    /\ \/ Take(w)
       \/ /\ queues[w] = << >>
          /\ NothingFound(w)
          /\ UNCHANGED <<queues, stack, probe>>
    /\ UNCHANGED <<active, quit, pushGen, idle, myGen, batch, history>>

\* coord.active.Add(-1): reaching zero is taken for the end of the walk.
Deactivate(w) ==
    /\ pc[w] = "deactivate"
    /\ active' = active - 1
    /\ idle' = [idle EXCEPT ![w] = TRUE]
    /\ Goto(w, IF active' = 0 THEN "setQuit" ELSE "park")
    /\ UNCHANGED <<queues, quit, pushGen, myGen, probe, batch, stack, history>>

-----------------------------------------------------------------------------
(* worker.park and the coordinator.                                        *)

\* mu held: snapshot pushGen and, unless the walk is ending, start waiting.
Park(w) ==
    /\ pc[w] = "park"
    /\ myGen' = [myGen EXCEPT ![w] = pushGen]
    /\ Goto(w, IF quit THEN "unparked" ELSE "waiting")
    /\ UNCHANGED <<shared, idle, probe, batch, stack, history>>

\* A woken waiter has mu again and re-evaluates the loop condition of Wait.
Recheck(w) ==
    /\ pc[w] = "woken"
    /\ Goto(w, IF quit \/ pushGen # myGen[w] THEN "unparked" ELSE "waiting")
    /\ UNCHANGED <<shared, private, history>>

UnparkedOn(w) ==   \* mutant: a woken worker does not look at quit
    pc[w] = "unparked" /\ Goto(w, "pop") /\ UNCHANGED <<shared, private, history>>

\* mu released: quit.Load decides between leaving and looking for work again.
Unparked(w) ==
    /\ pc[w] = "unparked"
    /\ Goto(w, IF quit THEN "done" ELSE "pop")
    /\ UNCHANGED <<shared, private, history>>

ReactivateFree(w) ==   \* mutant: active.Add(1) is missing
    /\ pc[w] = "reactivate"
    /\ idle' = [idle EXCEPT ![w] = FALSE]
    /\ Goto(w, "dir")
    /\ UNCHANGED <<shared, myGen, probe, batch, stack, history>>

\* coord.active.Add(1): only now does the task in hand count as activity.
Reactivate(w) ==
    /\ pc[w] = "reactivate"
    /\ active' = active + 1
    /\ idle' = [idle EXCEPT ![w] = FALSE]
    /\ Goto(w, "dir")
    /\ UNCHANGED <<queues, quit, pushGen, myGen, probe, batch, stack, history>>

Broadcast(w, label) ==
    pc' = [v \in Workers |-> IF v = w THEN label
                             ELSE IF pc[v] = "waiting" THEN "woken" ELSE pc[v]]

\* notifyWork bumps pushGen under mu and broadcasts after releasing it.
NotifyWork(w) ==
    /\ pc[w] = "notify"
    /\ pushGen' = pushGen + 1
    /\ Goto(w, "wakeForWork")
    /\ UNCHANGED <<queues, active, quit, private, history>>

WakeNobody(w) ==   \* mutant: notifyWork does not broadcast
    /\ pc[w] = "wakeForWork"
    /\ stack' = [stack EXCEPT ![w] = Pop(@)]
    /\ Goto(w, IF Len(stack[w]) > 1 THEN "dir" ELSE "run")
    /\ UNCHANGED <<shared, idle, myGen, probe, batch, history>>

\* processDir returns: to the caller's frame with one worker, else to run.
WakeForWork(w) ==
    /\ pc[w] = "wakeForWork"
    /\ stack' = [stack EXCEPT ![w] = Pop(@)]
    /\ Broadcast(w, IF Len(stack[w]) > 1 THEN "dir" ELSE "run")
    /\ UNCHANGED <<shared, idle, myGen, probe, batch, history>>

\* requestQuit sets quit under mu and broadcasts after releasing it.
RequestQuit(w) ==
    /\ pc[w] = "setQuit"
    /\ quit' = TRUE
    /\ Goto(w, "wakeForQuit")
    /\ UNCHANGED <<queues, active, pushGen, private, history>>

WakeForQuit(w) ==
    /\ pc[w] = "wakeForQuit"
    /\ Broadcast(w, "done")
    /\ UNCHANGED <<shared, private, history>>

-----------------------------------------------------------------------------
(* worker.processDir.                                                      *)

\* return true: every frame unwinds and run calls requestQuit.
StopWalk(w) ==
    /\ asked' = TRUE
    /\ stack' = [stack EXCEPT ![w] = << >>]
    /\ Goto(w, "setQuit")

\* return false before anything was pushed: no notifyWork on these paths.
ReturnEarly(w) ==
    /\ stack' = [stack EXCEPT ![w] = Pop(@)]
    /\ Goto(w, IF Len(stack[w]) > 1 THEN "dir" ELSE "run")
    /\ UNCHANGED asked

Visited(e) == visits' = [visits EXCEPT ![e] = @ + 1]

CountLate(w) == late' = IF quit THEN [late EXCEPT ![w] = @ + 1] ELSE late

StartsAt(w, d) == /\ pc[w] = "dir"
                  /\ Top(w) = NewFrame(d)

\* A root is visited by its own task: an error, a file, or a refused directory.
StartRoot(w) ==
    \E d \in RootSet, verdict \in Verdicts :
        /\ StartsAt(w, d)
        /\ Kind[d] # "dir" \/ verdict # "Continue"
        /\ Visited(d)
        /\ IF verdict = "Quit" THEN StopWalk(w) ELSE ReturnEarly(w)
        /\ dropped' = dropped \cup {d}
        /\ CountLate(w)
        /\ UNCHANGED <<shared, idle, myGen, probe, batch, reads>>

\* --one-file-system: a child on another device is left without a visit.
PruneForeign(w) ==
    \E d \in Foreign \ RootSet :
        /\ StartsAt(w, d)
        /\ ReturnEarly(w)
        /\ dropped' = dropped \cup {d}
        /\ CountLate(w)
        /\ UNCHANGED <<shared, idle, myGen, probe, batch, visits, reads>>

Descended(w, d) ==
    /\ StartsAt(w, d)
    /\ d \in RootSet => Kind[d] = "dir" /\ "Continue" \in Verdicts /\ Visited(d)
    /\ d \notin RootSet => d \notin Foreign /\ UNCHANGED visits
    /\ CountLate(w)

\* os.Open fails: the Visitor gets the error; nothing beneath is reached.
OpenFails(w) ==
    \E d \in Entry, verdict \in Verdicts :
        /\ Descended(w, d)
        /\ IF verdict = "Quit" THEN StopWalk(w) ELSE ReturnEarly(w)
        /\ dropped' = dropped \cup {d}
        /\ UNCHANGED <<shared, idle, myGen, probe, batch, reads>>

ReadDir(w) ==
    \E d \in Entry :
        /\ Descended(w, d)
        /\ reads' = [reads EXCEPT ![d] = @ + 1]
        /\ stack' = [stack EXCEPT ![w][Len(stack[w])].next = 1]
        /\ UNCHANGED <<shared, pc, idle, myGen, probe, batch, dropped, asked>>

\* A child directory: recursed into at once by a lone worker, else deferred.
Descend(w, e) ==
    LET advanced == [stack[w] EXCEPT ![Len(stack[w])].next = @ + 1]
    IN  IF Single
        THEN /\ stack' = [stack EXCEPT ![w] = Append(advanced, NewFrame(e))]
             /\ UNCHANGED queues
        ELSE /\ stack' = [stack EXCEPT ![w] = advanced]
             /\ queues' = [queues EXCEPT ![w] = Append(@, e)]

\* The body of the readdir loop; quit is never consulted inside it.
VisitEntry(w) ==
    LET f == Top(w)
    IN  \E verdict \in Verdicts :
        /\ pc[w] = "dir"
        /\ f.next \in 1 .. Len(Listing[f.dir])
        /\ LET e == Listing[f.dir][f.next]
           IN  /\ Visited(e)
               /\ \/ /\ verdict = "Quit"
                     /\ StopWalk(w)
                     /\ UNCHANGED <<queues, dropped>>
                  \/ /\ verdict = "Continue" /\ Kind[e] = "dir"
                     /\ Descend(w, e)
                     /\ UNCHANGED <<pc, asked, dropped>>
                  \/ /\ verdict = "SkipDir" \/ (verdict = "Continue" /\ Kind[e] # "dir")
                     /\ stack' = [stack EXCEPT ![w][Len(stack[w])].next = @ + 1]
                     /\ dropped' = dropped \cup {e}
                     /\ UNCHANGED <<queues, pc, asked>>
        /\ UNCHANGED <<active, quit, pushGen, idle, myGen, probe, batch, reads, late>>

\* The loop is over: notifyWork, then return false.
EndOfDir(w) ==
    /\ pc[w] = "dir"
    /\ Top(w).next > Len(Listing[Top(w).dir])
    /\ Goto(w, "notify")
    /\ UNCHANGED <<shared, private, history>>

-----------------------------------------------------------------------------
FirstDone == \E w \in Workers : pc[w] = "done"   \* mutant: wg.Wait does not wait for all

AllDone == \A w \in Workers : pc[w] = "done"

\* wg.Wait returns and Walk with it.
Returned == AllDone /\ UNCHANGED vars

LoopStep(w) ==
    \/ CheckQuit(w) \/ PopOwn(w) \/ Steal(w) \/ AppendStolen(w) \/ PopStolen(w)
    \/ Deactivate(w) \/ Park(w) \/ Recheck(w) \/ Unparked(w) \/ Reactivate(w)
    \/ NotifyWork(w) \/ WakeForWork(w) \/ RequestQuit(w) \/ WakeForQuit(w)

DirStep(w) ==
    \/ StartRoot(w) \/ PruneForeign(w) \/ OpenFails(w) \/ ReadDir(w)
    \/ VisitEntry(w) \/ EndOfDir(w)

WorkerStep(w) == LoopStep(w) \/ DirStep(w)

Next == (\E w \in Workers : WorkerStep(w)) \/ Returned

Spec == Init /\ [][Next]_vars

\* The Go scheduler runs every goroutine that can run.
Fairness == \A w \in Workers : WF_vars(WorkerStep(w))
FairSpec == Spec /\ Fairness
=============================================================================
