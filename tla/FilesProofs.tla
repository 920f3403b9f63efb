----------------------------- MODULE FilesProofs -----------------------------
(***************************************************************************)
(* Proofs about the walk with one worker and its passes: it is complete,   *)
(* whatever is sorted and whatever the Visitor answers; about its sorts:   *)
(* each file is given once, and by time in order; and about gg --files:    *)
(* every file that was found is written.                                   *)
(***************************************************************************)
EXTENDS FilesModeProps, WalkerProofs, WellFoundedInduction

-----------------------------------------------------------------------------
(* The inductive invariant.                                                *)

\* The roots of later passes.
Ahead == {Roots[i] : i \in pass + 1 .. Len(Roots)}

\* Nothing is skipped: what a directory that was read has not shown yet is ahead of a frame.
NoneSkipped ==
    ~asked => \A d \in Entry : reads[d] > 0 => \A k \in 1 .. Len(Listing[d]) :
        visits[Listing[d][k]] = 0 =>
            \E i \in 1 .. Len(stack[W]) : stack[W][i].dir = d /\ stack[W][i].next \in 1 .. k

\* Below a root, what was visited and is no directory is finished with.
FilesClosed ==
    ~asked => \A e \in Entry \ RootSet : visits[e] > 0 /\ Kind[e] # "dir" => e \in dropped

\* A root of a later pass is nowhere yet, and untouched.
Held == Elements(queues[W]) \cup Elements(batch[W]) \cup Dirs(stack[W])
Untouched == \A d \in Ahead : reads[d] = 0 /\ d \notin dropped /\ d \notin Held

\* A lone worker sets quit only when it is about to return, with nothing left to do.
QuitLast == quit => pc[W] \in {"wakeForQuit", "done"}
Spent == pc[W] \in {"setQuit", "wakeForQuit", "done"} /\ ~asked => queues[W] = << >>

OneWorker == NoneSkipped /\ FilesClosed /\ Untouched /\ QuitLast /\ Spent

Phases ==
    /\ phase \in {"walk", "emit", "over"} /\ pass \in 1 .. Len(Roots)
    /\ phase # "walk" => pc[W] = "done"
    /\ sort = "none" => LastPass

PInv == IInv /\ TInv(Ahead) /\ OneWorker /\ Phases

-----------------------------------------------------------------------------
(* One worker.                                                             *)

LEMMA Lone == Workers = {W} /\ W \in Workers /\ NumWorkers = 1
  BY SortAssumption DEF Workers, W

LEMMA AheadRoots ==
    ASSUME Phases
    PROVE  Ahead \subseteq RootSet /\ RootSet \subseteq Entry
  <1>1. pass \in Nat /\ Len(Roots) \in Nat
    BY TreeAssumption DEF Phases
  <1> QED
    BY <1>1, TreeAssumption DEF Ahead, RootSet, Elements

\* A frame with entries still to be visited.
Live(f) == f.next \in 1 .. Len(Listing[f.dir])
OnStack(s, f) == \E j \in 1 .. Len(s) : s[j] = f
\* What a step leaves of the tasks: nothing new, and every live frame.
Keeps == /\ Held' \subseteq Held
         /\ \A i \in 1 .. Len(stack[W]) : Live(stack[W][i]) => OnStack(stack'[W], stack[W][i])

\* pop: the task becomes the only frame.
LEMMA TakeKeeps ==
    ASSUME NEW Rest, TypeOK, Control, TInv(Rest), Take(W), stack[W] = << >>, batch' = batch
    PROVE  Keeps
  <1>1. W \in Workers
    BY Lone
  <1>2. PICK q, d : /\ q = queues[W] /\ q # << >> /\ q \in Seq(Entry) /\ NoRepeat(q)
                    /\ d = q[Len(q)] /\ d \in Entry
                    /\ queues'[W] = Pop(q) /\ stack'[W] = <<NewFrame(d)>>
    <2>1. queues[W] # << >> /\ queues[W] \in Seq(Entry) /\ NoRepeat(queues[W])
      BY <1>1 DEF Take, TypeOK, TInv, EachOnce
    <2>2. queues[W][Len(queues[W])] \in Entry
      BY <2>1, PopType
    <2>3. queues'[W] = Pop(queues[W]) /\ stack'[W] = <<NewFrame(queues[W][Len(queues[W])])>>
      BY <1>1 DEF Take, TypeOK
    <2> QED
      BY <2>1, <2>2, <2>3
  <1>3. d \in Elements(q) /\ Elements(Pop(q)) \subseteq Elements(q)
    BY <1>2, PopElements
  <1>4. Dirs(stack'[W]) = {d}
    BY <1>2, OneFrame
  <1>5. Len(stack[W]) = 0
    OBVIOUS
  <1> QED
    BY <1>2, <1>3, <1>4, <1>5 DEF Keeps, Held

\* Every step of run, park, steal and the coordinator.
LEMMA LoopKeeps ==
    ASSUME NEW Rest, TypeOK, Control, TInv(Rest), LoopStep(W)
    PROVE  Keeps
  <1> USE DEF shared, private, history, Goto
  <1>1. W \in Workers /\ NumWorkers = 1
    BY Lone
  <1>2. CASE PopOwn(W) \/ PopStolen(W)
    <2>1. stack[W] = << >> /\ batch' = batch
      BY <1>1, <1>2 DEF PopOwn, PopStolen, Control, Position, InDir
    <2>2. CASE Take(W)
      BY <2>1, <2>2, TakeKeeps
    <2>3. CASE UNCHANGED <<queues, stack>>
      BY <2>1, <2>3 DEF Keeps, Held, OnStack
    <2> QED
      BY <1>2, <2>2, <2>3 DEF PopOwn, PopStolen
  <1>3. CASE AppendStolen(W)
    <2>1. PICK q, b : /\ q = queues[W] /\ q \in Seq(Entry) /\ NoRepeat(q)
                      /\ b = batch[W] /\ b \in Seq(Entry) /\ NoRepeat(b)
                      /\ Elements(q) \cap Elements(b) = {}
      BY <1>1 DEF TypeOK, TInv, EachOnce, Apart
    <2>2. queues'[W] = q \o b /\ batch'[W] = << >> /\ stack' = stack
      BY <1>1, <1>3, <2>1 DEF AppendStolen, TypeOK
    <2>3. Elements(q \o b) = Elements(q) \cup Elements(b)
      BY <2>1, ConcatElements
    <2>4. Elements(<< >>) = {}
      BY DEF Elements
    <2> QED
      BY <2>1, <2>2, <2>3, <2>4 DEF Keeps, Held, OnStack
  <1>4. CASE WakeForWork(W)
    <2>1. PICK s : /\ s = stack[W] /\ s \in Seq(Frame) /\ s # << >> /\ DirsDiffer(s)
                   /\ stack'[W] = Pop(s) /\ UNCHANGED <<queues, batch>>
                   /\ ~Live(s[Len(s)])
      <3>1. stack[W] \in Seq(Frame) /\ stack[W] # << >> /\ DirsDiffer(stack[W])
        BY <1>1, <1>4 DEF WakeForWork, Control, Position, InDir, TypeOK, TInv, EachOnce
      <3>2. stack'[W] = Pop(stack[W]) /\ UNCHANGED <<queues, batch>>
        BY <1>1, <1>4 DEF WakeForWork, TypeOK
      <3>3. Top(W).next > Len(Listing[Top(W).dir])
        BY <1>1, <1>4 DEF WakeForWork, TInv, AtEnd
      <3>4. ~Live(Top(W))
        <4>1. Top(W) \in Frame
          BY <3>1, EmptySeq DEF Top
        <4>2. Listing[Top(W).dir] \in Seq(Entry)
          BY <4>1, TreeAssumption DEF Frame
        <4>3. Len(Listing[Top(W).dir]) \in Nat
          BY <4>2
        <4> QED
          BY <3>3, <4>1, <4>3 DEF Live, Frame
      <3> QED
        BY <3>1, <3>2, <3>4 DEF Top
    <2>2. /\ Len(Pop(s)) = Len(s) - 1 /\ Len(s) \in Nat \ {0}
          /\ \A i \in 1 .. Len(Pop(s)) : Pop(s)[i] = s[i]
          /\ Dirs(Pop(s)) \subseteq Dirs(s)
      BY <2>1, PopFrames
    <2>3. \A i \in 1 .. Len(s) : i \in 1 .. Len(Pop(s)) \/ i = Len(s)
      BY <2>2
    <2> QED
      BY <2>1, <2>2, <2>3 DEF Keeps, Held, OnStack
  <1>5. CASE Steal(W)
    <2>1. RoundOver(W)
      BY <1>1 DEF RoundOver, TypeOK
    <2>2. UNCHANGED <<queues, batch, stack>>
      BY <1>5, <2>1 DEF Steal
    <2> QED
      BY <2>2 DEF Keeps, Held, OnStack
  <1>6. CASE \/ CheckQuit(W) \/ Deactivate(W) \/ Park(W) \/ Recheck(W) \/ Unparked(W)
             \/ Reactivate(W) \/ NotifyWork(W) \/ RequestQuit(W) \/ WakeForQuit(W)
    <2>1. UNCHANGED <<queues, batch, stack>>
      BY <1>6 DEF CheckQuit, Deactivate, Park, Recheck, Unparked, Reactivate, NotifyWork,
           RequestQuit, WakeForQuit
    <2> QED
      BY <2>1 DEF Keeps, Held, OnStack
  <1> QED
    BY <1>2, <1>3, <1>4, <1>5, <1>6 DEF LoopStep

\* A directory is given up: its frame was not live.
LEMMA DisposeKeeps ==
    ASSUME NEW Rest, TypeOK, Control, TInv(Rest), NEW d \in Entry, StartsAt(W, d),
           UNCHANGED <<queues, batch>>,
           \/ stack' = [stack EXCEPT ![W] = Pop(@)] /\ asked' = asked
           \/ stack' = [stack EXCEPT ![W] = << >>] /\ asked' = TRUE
    PROVE  d \in Held /\ Held' \subseteq Held /\ (~asked' => Keeps)
  <1>1. W \in Workers
    BY Lone
  <1>2. PICK s : /\ s = stack[W] /\ s \in Seq(Frame) /\ s # << >> /\ DirsDiffer(s)
                 /\ s[Len(s)] = NewFrame(d) /\ d \in Dirs(s) /\ NewFrame(d).next = 0
    BY <1>1, StartingTask
  <1>3. /\ Len(Pop(s)) = Len(s) - 1 /\ Len(s) \in Nat \ {0}
        /\ \A i \in 1 .. Len(Pop(s)) : Pop(s)[i] = s[i]
        /\ Dirs(Pop(s)) \subseteq Dirs(s)
    BY <1>2, PopFrames
  <1>4. ~Live(s[Len(s)])
    BY <1>2 DEF Live
  <1>5. CASE stack'[W] = Pop(s)
    <2>1. \A i \in 1 .. Len(s) : i \in 1 .. Len(Pop(s)) \/ i = Len(s)
      BY <1>3
    <2> QED
      BY <1>2, <1>3, <1>4, <1>5, <2>1 DEF Keeps, Held, OnStack
  <1>6. CASE stack'[W] = << >> /\ asked'
    <2>1. Dirs(stack'[W]) = {}
      BY <1>6, NoFrame
    <2> QED
      BY <1>2, <1>6, <2>1 DEF Held
  <1> QED
    BY <1>1, <1>2, <1>5, <1>6 DEF TypeOK

\* A directory is opened: its frame is at the first entry.
LEMMA ReadKeeps ==
    ASSUME NEW Rest, TypeOK, Control, TInv(Rest), ReadDir(W)
    PROVE  \E d \in Entry :
             /\ d \in Held /\ reads[d] = 0 /\ reads' = [reads EXCEPT ![d] = 1]
             /\ visits' = visits \/ (d \in RootSet /\ visits' = [visits EXCEPT ![d] = @ + 1])
             /\ Keeps /\ OnStack(stack'[W], [dir |-> d, next |-> 1])
             /\ UNCHANGED <<pc, quit, dropped, asked>>
  <1>1. W \in Workers
    BY Lone
  <1>2. PICK d \in Entry :
            /\ StartsAt(W, d)
            /\ reads' = [reads EXCEPT ![d] = @ + 1]
            /\ stack' = [stack EXCEPT ![W][Len(stack[W])].next = 1]
            /\ d \in RootSet => visits' = [visits EXCEPT ![d] = @ + 1]
            /\ d \notin RootSet => visits' = visits
            /\ UNCHANGED <<queues, batch, quit, pc, dropped, asked>>
    BY DEF ReadDir, Descended, Visited, shared
  <1>3. PICK s : /\ s = stack[W] /\ s \in Seq(Frame) /\ s # << >> /\ DirsDiffer(s)
                 /\ s[Len(s)] = NewFrame(d) /\ d \in Dirs(s)
                 /\ NewFrame(d).next = 0 /\ NewFrame(d).dir = d
                 /\ Pending(d)
    BY <1>1, <1>2, StartingTask
  <1>4. PICK one \in Nat \ {0} : one = 1
    OBVIOUS
  <1> DEFINE t == [s EXCEPT ![Len(s)].next = one]
  <1>5. stack'[W] = t
    BY <1>1, <1>2, <1>3, <1>4 DEF TypeOK
  <1> HIDE DEF t
  <1>6. /\ Len(t) = Len(s) /\ Len(s) \in Nat \ {0}
        /\ t[Len(s)] = [dir |-> s[Len(s)].dir, next |-> one]
        /\ \A i \in 1 .. Len(s) : i # Len(s) => t[i] = s[i]
        /\ Dirs(t) = Dirs(s)
    <2>1. t = Advanced(s, one)
      BY Zenon DEF t, Advanced
    <2> QED
      BY <1>3, <2>1, AdvanceFrames
  <1>7. ~Live(s[Len(s)])
    BY <1>3 DEF Live
  <1>8. Keeps
    <2>1. Held' = Held
      BY <1>2, <1>3, <1>5, <1>6 DEF Held
    <2>2. ASSUME NEW i \in 1 .. Len(s), Live(s[i]) PROVE OnStack(t, s[i])
      <3>1. i # Len(s)
        BY <1>7, <2>2
      <3> QED
        BY <1>6, <3>1 DEF OnStack
    <2> QED
      BY <1>3, <1>5, <2>1, <2>2 DEF Keeps
  <1>9. OnStack(stack'[W], [dir |-> d, next |-> 1])
    BY <1>3, <1>4, <1>5, <1>6 DEF OnStack
  <1>10. reads[d] = 0 /\ reads' = [reads EXCEPT ![d] = 1]
    BY <1>2, <1>3 DEF Pending, TypeOK
  <1>11. d \in Held
    BY <1>3 DEF Held
  <1> QED
    BY <1>2, <1>8, <1>9, <1>10, <1>11

\* The readdir loop visits an entry, and may push its frame.
LEMMA VisitKeeps ==
    ASSUME NEW Rest, TypeOK, Control, TInv(Rest), VisitEntry(W)
    PROVE  \E e \in Entry \ RootSet, d \in Entry : \E n \in 1 .. Len(Listing[d]) :
             /\ e = Listing[d][n] /\ reads' = reads /\ quit' = quit
             /\ visits[e] = 0 /\ visits' = [visits EXCEPT ![e] = 1]
             /\ Held' \subseteq Held \cup {e}
             /\ dropped \subseteq dropped' /\ dropped' \subseteq dropped \cup {e}
             /\ \/ asked' = TRUE
                \/ /\ asked' = asked /\ pc' = pc /\ queues' = queues
                   /\ Kind[e] # "dir" => e \in dropped'
                   /\ \A i \in 1 .. Len(stack[W]) :
                        \/ OnStack(stack'[W], stack[W][i])
                        \/ /\ stack[W][i] = [dir |-> d, next |-> n]
                           /\ OnStack(stack'[W], [dir |-> d, next |-> n + 1])
  <1>1. W \in Workers /\ Single
    BY Lone DEF Single
  <1>2. PICK f, e, verdict :
            /\ f = Top(W) /\ pc[W] = "dir" /\ f.next \in 1 .. Len(Listing[f.dir])
            /\ e = Listing[f.dir][f.next]
            /\ visits' = [visits EXCEPT ![e] = @ + 1]
            /\ \/ /\ verdict = "Quit" /\ asked' = TRUE
                  /\ stack' = [stack EXCEPT ![W] = << >>]
                  /\ UNCHANGED <<queues, dropped>>
               \/ /\ verdict = "Continue" /\ Kind[e] = "dir" /\ Descend(W, e)
                  /\ UNCHANGED <<pc, asked, dropped>>
               \/ /\ verdict = "SkipDir" \/ (verdict = "Continue" /\ Kind[e] # "dir")
                  /\ stack' = [stack EXCEPT ![W][Len(stack[W])].next = @ + 1]
                  /\ dropped' = dropped \cup {e}
                  /\ UNCHANGED <<queues, pc, asked>>
            /\ UNCHANGED <<batch, reads, quit>>
    BY DEF VisitEntry, Visited, StopWalk, Goto
  <1>3. PICK s : /\ s = stack[W] /\ s \in Seq(Frame) /\ s # << >> /\ DirsDiffer(s)
                 /\ f = s[Len(s)] /\ f \in Frame /\ f.dir \in Entry /\ f.next \in Nat \ {0}
                 /\ e \in Entry \ RootSet /\ visits[e] = 0 /\ e \notin Dirs(s)
    BY <1>1, <1>2, NextEntry
  <1>4. f = [dir |-> f.dir, next |-> f.next]
    BY <1>3 DEF Frame
  <1>5. PICK n \in Nat \ {0} : n = f.next + 1
    BY <1>3
  <1> DEFINE t == [s EXCEPT ![Len(s)].next = n]
  <1> HIDE DEF t
  <1>6. /\ t \in Seq(Frame) /\ Len(t) = Len(s) /\ Len(s) \in Nat \ {0} /\ DirsDiffer(t)
        /\ t[Len(s)] = [dir |-> s[Len(s)].dir, next |-> n]
        /\ \A i \in 1 .. Len(s) : i # Len(s) => t[i] = s[i]
        /\ Dirs(t) = Dirs(s)
    <2>1. t = Advanced(s, n)
      BY Zenon DEF t, Advanced
    <2> QED
      BY <1>3, <2>1, AdvanceFrames
  <1>7. \A i \in 1 .. Len(s) : \/ OnStack(t, s[i])
                               \/ s[i] = f /\ OnStack(t, [dir |-> f.dir, next |-> f.next + 1])
    BY <1>3, <1>5, <1>6 DEF OnStack
  <1>8. visits' = [visits EXCEPT ![e] = 1]
    <2>1. visits[e] + 1 = 1
      BY <1>3
    <2> QED
      BY <1>2, <2>1
  <1> DEFINE Goes(u) == \A i \in 1 .. Len(s) :
                          \/ OnStack(u, s[i])
                          \/ /\ s[i] = [dir |-> f.dir, next |-> f.next]
                             /\ OnStack(u, [dir |-> f.dir, next |-> f.next + 1])
             Done == /\ Held' \subseteq Held \cup {e}
                     /\ dropped \subseteq dropped' /\ dropped' \subseteq dropped \cup {e}
                     /\ \/ asked' = TRUE
                        \/ /\ asked' = asked /\ pc' = pc /\ queues' = queues
                           /\ Kind[e] # "dir" => e \in dropped'
                           /\ Goes(stack'[W])
  <1>9. Goes(t)
    BY <1>4, <1>7
  <1>10. batch' = batch /\ reads' = reads /\ quit' = quit
    BY <1>2
  <1>11. /\ f.dir \in Entry /\ f.next \in 1 .. Len(Listing[f.dir])
         /\ e = Listing[f.dir][f.next]
         /\ e \in Entry \ RootSet /\ visits[e] = 0
    BY <1>2, <1>3, Zenon
  <1>12. Done
    <2>1. CASE asked' = TRUE /\ stack' = [stack EXCEPT ![W] = << >>] /\ UNCHANGED <<queues, dropped>>
      <3>1. stack'[W] = << >>
        BY <1>1, <2>1 DEF TypeOK
      <3>2. Held' \subseteq Held
        BY <1>2, <2>1, <3>1, NoFrame DEF Held
      <3> HIDE DEF Goes
      <3> QED
        BY <2>1, <3>2
    <2>2. CASE verdict = "Continue" /\ Kind[e] = "dir" /\ Descend(W, e) /\ UNCHANGED <<pc, asked, dropped>>
      <3>1. /\ stack' = [stack EXCEPT ![W] = Append([stack[W] EXCEPT ![Len(stack[W])].next = @ + 1], NewFrame(e))]
            /\ queues' = queues
        BY <1>1, <2>2 DEF Descend
      <3>2. t = [stack[W] EXCEPT ![Len(stack[W])].next = @ + 1]
        BY <1>3, <1>5 DEF t
      <3>3. stack'[W] = Push(t, e)
        BY <1>1, <3>1, <3>2 DEF Push, TypeOK
      <3>4. PICK u : u = stack'[W] /\ u = Push(t, e)
        BY <3>3
      <3>5. /\ \A i \in 1 .. Len(t) : u[i] = t[i]
            /\ Len(u) = Len(t) + 1
            /\ Dirs(u) = Dirs(t) \cup {e}
        BY <1>3, <1>6, <3>4, PushFrames
      <3>6. \A x : OnStack(t, x) => OnStack(u, x)
        BY <1>6, <3>5 DEF OnStack
      <3>7. Held' \subseteq Held \cup {e}
        BY <1>3, <1>6, <1>10, <3>1, <3>4, <3>5 DEF Held
      <3>8. Goes(u)
        BY <1>9, <3>6
      <3> HIDE DEF Goes
      <3> QED
        BY <2>2, <3>1, <3>4, <3>7, <3>8
    <2>3. CASE /\ verdict = "SkipDir" \/ (verdict = "Continue" /\ Kind[e] # "dir")
               /\ stack' = [stack EXCEPT ![W][Len(stack[W])].next = @ + 1]
               /\ dropped' = dropped \cup {e} /\ UNCHANGED <<queues, pc, asked>>
      <3>1. stack'[W] = [stack[W] EXCEPT ![Len(stack[W])].next = @ + 1]
        BY <1>1, <2>3 DEF TypeOK
      <3>2. stack'[W] = t
        BY <1>3, <1>5, <3>1 DEF t
      <3>3. Held' \subseteq Held
        BY <1>3, <1>6, <1>10, <2>3, <3>2 DEF Held
      <3> HIDE DEF Goes
      <3> QED
        BY <1>9, <2>3, <3>2, <3>3
    <2> QED
      BY <1>2, <2>1, <2>2, <2>3, Zenon
  <1> QED
    BY <1>3, <1>8, <1>10, <1>11, <1>12, ZenonT(30)

-----------------------------------------------------------------------------
(* The steps of the worker keep the invariant.                             *)

\* What is left of NoneSkipped, FilesClosed and Untouched when no entry but a root is visited.
LEMMA KeepsSkips ==
    ASSUME TypeOK, NoneSkipped, FilesClosed, asked' = asked, Keeps, dropped \subseteq dropped',
           NEW d \in Entry,
           visits' = visits \/ (d \in RootSet /\ visits' = [visits EXCEPT ![d] = @ + 1]),
           \/ reads' = reads
           \/ reads' = [reads EXCEPT ![d] = 1] /\ OnStack(stack'[W], [dir |-> d, next |-> 1])
    PROVE  NoneSkipped' /\ FilesClosed'
  <1>1. \A x \in Entry : visits[x] \in Nat /\ (visits'[x] = 0 => visits[x] = 0)
    BY DEF TypeOK
  <1>2. NoneSkipped'
    <2> SUFFICES ASSUME ~asked', NEW c \in Entry, reads'[c] > 0, NEW k \in 1 .. Len(Listing[c]),
                        visits'[Listing[c][k]] = 0
                 PROVE  \E i \in 1 .. Len(stack'[W]) : /\ stack'[W][i].dir = c
                                                       /\ stack'[W][i].next \in 1 .. k
      BY DEF NoneSkipped
    <2>1. Listing[c] \in Seq(Entry) /\ Len(Listing[c]) \in Nat /\ Listing[c][k] \in Entry
      BY TreeAssumption
    <2>2. CASE reads[c] > 0
      <3>1. PICK i \in 1 .. Len(stack[W]) : stack[W][i].dir = c /\ stack[W][i].next \in 1 .. k
        BY <1>1, <2>1, <2>2 DEF NoneSkipped
      <3>2. Live(stack[W][i])
        BY <2>1, <3>1 DEF Live
      <3>3. OnStack(stack'[W], stack[W][i])
        BY <3>1, <3>2 DEF Keeps
      <3> QED
        BY <3>1, <3>3 DEF OnStack
    <2>3. CASE ~(reads[c] > 0)
      <3>1. c = d /\ OnStack(stack'[W], [dir |-> c, next |-> 1])
        BY <2>3 DEF TypeOK
      <3> QED
        BY <2>1, <3>1 DEF OnStack
    <2> QED
      BY <2>2, <2>3
  <1>3. \A x \in Entry \ RootSet : visits'[x] = visits[x]
    BY DEF TypeOK
  <1>4. FilesClosed'
    BY <1>3 DEF FilesClosed
  <1> QED
    BY <1>2, <1>4

\* Every step of run, park, steal and the coordinator.
LEMMA LoopOneWorker ==
    ASSUME NEW Rest, TypeOK, Control, TInv(Rest), TypeOK', OneWorker, LoopStep(W), pass' = pass
    PROVE  OneWorker'
  <1> USE DEF OneWorker
  <1>1. Keeps /\ W \in Workers
    BY LoopKeeps, Lone
  <1>2. UNCHANGED <<visits, reads, dropped, asked>> /\ pc[W] # "done"
    BY <1>1, LoopSilent
  <1>3. NoneSkipped' /\ FilesClosed'
    <2>1. PICK d \in Entry : TRUE
      BY SortAssumption, TreeAssumption, EmptySeq
    <2> QED
      BY <1>1, <1>2, <2>1, KeepsSkips
  <1>4. Untouched'
    BY <1>1, <1>2 DEF Untouched, Keeps, Ahead
  <1>5. \/ pc[W] = "wakeForQuit" /\ pc'[W] = "done" /\ UNCHANGED <<queues, quit>>
        \/ pc[W] = "setQuit" /\ pc'[W] = "wakeForQuit" /\ UNCHANGED queues
        \/ pc[W] = "deactivate" /\ pc'[W] = "setQuit" /\ UNCHANGED <<queues, quit>>
        \/ pc'[W] \notin {"setQuit", "wakeForQuit", "done"} /\ ~quit /\ UNCHANGED quit
    <2> USE <1>1, <1>2 DEF Goto, TypeOK, shared, private, QuitLast
    <2>1. CASE CheckQuit(W) \/ Unparked(W) \/ Park(W) \/ Recheck(W)
      BY <2>1 DEF CheckQuit, Unparked, Park, Recheck
    <2>2. CASE PopOwn(W) \/ PopStolen(W)
      BY <2>2 DEF PopOwn, PopStolen, Take, NothingFound
    <2>3. CASE Steal(W) \/ AppendStolen(W)
      <3>1. pc' = pc \/ \E l \in {"park", "deactivate", "append", "popStolen"} : pc' = [pc EXCEPT ![W] = l]
        BY <2>3 DEF Steal, AppendStolen, NothingFound
      <3>2. pc[W] \in {"steal", "append"} /\ quit' = quit
        BY <2>3 DEF Steal, AppendStolen
      <3> QED
        BY <3>1, <3>2
    <2>4. CASE Deactivate(W) \/ Reactivate(W) \/ NotifyWork(W) \/ RequestQuit(W)
      BY <2>4 DEF Deactivate, Reactivate, NotifyWork, RequestQuit
    <2>5. CASE WakeForWork(W) \/ WakeForQuit(W)
      BY <2>5 DEF WakeForWork, WakeForQuit, Broadcast
    <2> QED
      BY <2>1, <2>2, <2>3, <2>4, <2>5 DEF LoopStep
  <1>6. QuitLast'
    BY <1>5 DEF QuitLast
  <1>7. Spent'
    <2>1. pc[W] = "deactivate" => queues[W] = << >>
      BY <1>1 DEF Control, Position, Emptied
    <2> QED
      BY <1>2, <1>5, <2>1 DEF Spent
  <1> QED
    BY <1>3, <1>4, <1>6, <1>7

\* A directory is given up.
LEMMA DisposeOneWorker ==
    ASSUME NEW Rest, TypeOK, Control, TInv(Rest), TypeOK', OneWorker, pass' = pass,
           StartRoot(W) \/ PruneForeign(W) \/ OpenFails(W)
    PROVE  OneWorker'
  <1> USE DEF OneWorker
  <1>1. W \in Workers
    BY Lone
  <1>2. PICK d \in Entry :
           /\ StartsAt(W, d)
           /\ dropped' = dropped \cup {d}
           /\ visits' = visits \/ (d \in RootSet /\ visits' = [visits EXCEPT ![d] = @ + 1])
           /\ StopWalk(W) \/ ReturnEarly(W)
           /\ UNCHANGED <<queues, batch, quit, reads>>
    BY <1>1, Disposed DEF shared
  <1>3. /\ \/ stack' = [stack EXCEPT ![W] = Pop(@)] /\ asked' = asked
           \/ stack' = [stack EXCEPT ![W] = << >>] /\ asked' = TRUE
        /\ pc'[W] \notin {"wakeForQuit", "done"} /\ (pc'[W] = "setQuit" => asked')
    BY <1>1, <1>2 DEF StopWalk, ReturnEarly, Goto, TypeOK
  <1>4. d \in Held /\ Held' \subseteq Held /\ (~asked' => Keeps)
    BY <1>2, <1>3, DisposeKeeps
  <1>5. NoneSkipped' /\ FilesClosed'
    <2>1. CASE asked'
      BY <2>1 DEF NoneSkipped, FilesClosed
    <2>2. CASE ~asked'
      <3>1. asked' = asked /\ Keeps
        BY <1>3, <1>4, <2>2
      <3> QED
        BY <1>2, <3>1, KeepsSkips
    <2> QED
      BY <2>1, <2>2
  <1>6. Untouched'
    BY <1>2, <1>4 DEF Untouched, Ahead
  <1>7. QuitLast' /\ Spent'
    <2>1. ~quit
      BY <1>2 DEF QuitLast, StartsAt
    <2> QED
      BY <1>2, <1>3, <2>1 DEF QuitLast, Spent
  <1> QED
    BY <1>5, <1>6, <1>7

\* A directory is opened.
LEMMA ReadOneWorker ==
    ASSUME NEW Rest, TypeOK, Control, TInv(Rest), TypeOK', OneWorker, pass' = pass, ReadDir(W)
    PROVE  OneWorker'
  <1> USE DEF OneWorker
  <1>1. PICK d \in Entry :
           /\ d \in Held /\ reads[d] = 0 /\ reads' = [reads EXCEPT ![d] = 1]
           /\ visits' = visits \/ (d \in RootSet /\ visits' = [visits EXCEPT ![d] = @ + 1])
           /\ Keeps /\ OnStack(stack'[W], [dir |-> d, next |-> 1])
           /\ UNCHANGED <<pc, quit, dropped, asked>>
    BY ReadKeeps
  <1>2. NoneSkipped' /\ FilesClosed'
    BY <1>1, KeepsSkips
  <1>3. Untouched'
    <2> SUFFICES ASSUME NEW x \in Ahead PROVE reads'[x] = 0 /\ x \notin dropped' /\ x \notin Held'
      BY DEF Untouched, Ahead
    <2>1. reads[x] = 0 /\ x \notin dropped /\ x \notin Held
      BY DEF Untouched
    <2>2. x # d
      BY <1>1, <2>1
    <2> QED
      BY <1>1, <2>1, <2>2 DEF Keeps, TypeOK
  <1>4. pc[W] = "dir"
    BY DEF ReadDir, Descended, StartsAt
  <1> QED
    BY <1>1, <1>2, <1>3, <1>4 DEF QuitLast, Spent

\* The readdir loop.
LEMMA VisitOneWorker ==
    ASSUME NEW Rest, TypeOK, Control, TInv(Rest), TypeOK', OneWorker, Phases, pass' = pass,
           VisitEntry(W)
    PROVE  OneWorker'
  <1> USE DEF OneWorker
  <1>1. PICK e \in Entry \ RootSet, d \in Entry : \E k \in 1 .. Len(Listing[d]) :
           /\ e = Listing[d][k] /\ reads' = reads /\ quit' = quit
           /\ visits[e] = 0 /\ visits' = [visits EXCEPT ![e] = 1]
           /\ Held' \subseteq Held \cup {e}
           /\ dropped \subseteq dropped' /\ dropped' \subseteq dropped \cup {e}
           /\ \/ asked' = TRUE
              \/ /\ asked' = asked /\ pc' = pc /\ queues' = queues
                 /\ Kind[e] # "dir" => e \in dropped'
                 /\ \A i \in 1 .. Len(stack[W]) :
                      \/ OnStack(stack'[W], stack[W][i])
                      \/ /\ stack[W][i] = [dir |-> d, next |-> k]
                         /\ OnStack(stack'[W], [dir |-> d, next |-> k + 1])
    BY VisitKeeps
  <1>2. PICK n \in 1 .. Len(Listing[d]) :
           /\ e = Listing[d][n]
           /\ \/ asked' = TRUE
              \/ /\ asked' = asked /\ pc' = pc /\ queues' = queues
                 /\ Kind[e] # "dir" => e \in dropped'
                 /\ \A i \in 1 .. Len(stack[W]) :
                      \/ OnStack(stack'[W], stack[W][i])
                      \/ /\ stack[W][i] = [dir |-> d, next |-> n]
                         /\ OnStack(stack'[W], [dir |-> d, next |-> n + 1])
    BY <1>1
  <1>3. /\ reads' = reads /\ quit' = quit
        /\ visits[e] = 0 /\ visits' = [visits EXCEPT ![e] = 1]
        /\ Held' \subseteq Held \cup {e}
        /\ dropped \subseteq dropped' /\ dropped' \subseteq dropped \cup {e}
    BY <1>1
  <1>4. \A x \in Entry : x # e => visits'[x] = visits[x]
    BY <1>3 DEF TypeOK
  <1>5. visits'[e] = 1
    BY <1>3 DEF TypeOK
  <1>6. NoneSkipped'
    <2> SUFFICES ASSUME ~asked', NEW c \in Entry, reads'[c] > 0, NEW k \in 1 .. Len(Listing[c]),
                        visits'[Listing[c][k]] = 0
                 PROVE  \E i \in 1 .. Len(stack'[W]) : /\ stack'[W][i].dir = c
                                                       /\ stack'[W][i].next \in 1 .. k
      BY DEF NoneSkipped
    <2>1. Listing[c] \in Seq(Entry) /\ Listing[c][k] \in Entry /\ k \in Nat /\ n \in Nat
      BY TreeAssumption
    <2>2. Listing[c][k] # e /\ visits[Listing[c][k]] = 0
      BY <1>4, <1>5, <2>1
    <2>3. PICK i \in 1 .. Len(stack[W]) : stack[W][i].dir = c /\ stack[W][i].next \in 1 .. k
      BY <1>2, <1>3, <2>2 DEF NoneSkipped
    <2>4. CASE OnStack(stack'[W], stack[W][i])
      BY <2>3, <2>4 DEF OnStack
    <2>5. CASE stack[W][i] = [dir |-> d, next |-> n] /\ OnStack(stack'[W], [dir |-> d, next |-> n + 1])
      <3>1. c = d /\ n \in 1 .. k
        BY <2>3, <2>5
      <3>2. n # k
        BY <1>2, <2>2, <3>1
      <3>3. n + 1 \in 1 .. k
        BY <2>1, <3>1, <3>2
      <3> QED
        BY <2>5, <3>1, <3>3 DEF OnStack
    <2> QED
      BY <1>2, <2>4, <2>5
  <1>7. FilesClosed'
    <2> SUFFICES ASSUME ~asked', NEW x \in Entry \ RootSet, visits'[x] > 0, Kind[x] # "dir"
                 PROVE  x \in dropped'
      BY DEF FilesClosed
    <2>1. CASE x = e
      BY <1>2, <2>1
    <2>2. CASE x # e
      BY <1>2, <1>3, <1>4, <2>2 DEF FilesClosed
    <2> QED
      BY <2>1, <2>2
  <1>8. Untouched'
    <2>1. Ahead \subseteq RootSet
      BY AheadRoots
    <2> QED
      BY <1>3, <2>1 DEF Untouched, Ahead
  <1>9. pc[W] = "dir"
    BY DEF VisitEntry
  <1>10. QuitLast' /\ Spent'
    <2>1. ~quit'
      BY <1>3, <1>9 DEF QuitLast
    <2>2. asked' \/ pc'[W] = "dir"
      BY <1>2, <1>9
    <2> QED
      BY <2>1, <2>2 DEF QuitLast, Spent
  <1> QED
    BY <1>6, <1>7, <1>8, <1>10

\* Every step of the worker.
LEMMA StepOfWorker ==
    ASSUME PInv, WorkerStep(W), UNCHANGED <<pass, phase, sort>>
    PROVE  PInv'
  <1>1. W \in Workers
    BY Lone
  <1>2. IInv'
    BY <1>1, StepIInv DEF PInv, Next
  <1>3. TypeOK /\ Control /\ TypeOK' /\ Phases /\ OneWorker
    BY <1>2 DEF PInv, IInv
  <1>4. PICK R : R = Ahead
    OBVIOUS
  <1>5. TInv(R)
    BY <1>4 DEF PInv
  <1>6. TInv(R)' /\ OneWorker' /\ pc[W] # "done"
    <2>1. CASE LoopStep(W)
      BY <1>1, <1>3, <1>5, <2>1, LoopTasks, LoopOneWorker, LoopSilent
    <2>2. CASE StartRoot(W) \/ PruneForeign(W) \/ OpenFails(W)
      <3>1. pc[W] # "done"
        BY <2>2 DEF StartRoot, PruneForeign, OpenFails, Descended, StartsAt
      <3> QED
        BY <1>1, <1>3, <1>5, <2>2, <3>1, DirTasks, DisposeOneWorker DEF DirStep
    <2>3. CASE ReadDir(W)
      <3>1. pc[W] # "done"
        BY <2>3 DEF ReadDir, Descended, StartsAt
      <3> QED
        BY <1>1, <1>3, <1>5, <2>3, <3>1, DirTasks, ReadOneWorker DEF DirStep
    <2>4. CASE VisitEntry(W)
      <3>1. pc[W] # "done"
        BY <2>4 DEF VisitEntry
      <3> QED
        BY <1>1, <1>3, <1>5, <2>4, <3>1, DirTasks, VisitOneWorker DEF DirStep
    <2>5. CASE EndOfDir(W)
      <3>1. TInv(R)'
        BY <1>1, <1>3, <1>5, <2>5, DirTasks DEF DirStep
      <3>2. /\ pc[W] = "dir" /\ pc'[W] = "notify"
            /\ UNCHANGED <<shared, private, history>>
        BY <1>1, <1>3, <2>5 DEF EndOfDir, Goto, TypeOK
      <3>3. OneWorker'
        BY <1>3, <3>2 DEF shared, private, history, OneWorker, NoneSkipped, FilesClosed,
             Untouched, Held, Ahead, QuitLast, Spent
      <3> QED
        BY <3>1, <3>2, <3>3
    <2> QED
      BY <2>1, <2>2, <2>3, <2>4, <2>5 DEF PInv, WorkerStep, DirStep
  <1>7. TInv(Ahead)'
    BY <1>4, <1>6 DEF TInv, NoneLost, Ahead
  <1>8. Phases'
    BY <1>3, <1>6 DEF Phases, LastPass
  <1> QED
    BY <1>2, <1>6, <1>7, <1>8 DEF PInv

-----------------------------------------------------------------------------
(* The passes.                                                             *)

\* A pass starts: its root is the only task.
Begun ==
    /\ TypeOK /\ pass \in 1 .. Len(Roots) /\ queues[W] = <<Roots[pass]>>
    /\ active = NumWorkers /\ ~quit /\ pushGen = 0
    /\ pc[W] = "run" /\ ~idle[W] /\ myGen[W] = 0
    /\ batch[W] = << >> /\ stack[W] = << >>
    /\ ReadFirst /\ Pending(Roots[pass])
    /\ ~asked => \A d \in Entry \ Ahead : Pending(d) => d = Roots[pass]

LEMMA Begin == Begun => IInv /\ TInv(Ahead)
  <1> SUFFICES ASSUME Begun PROVE IInv /\ TInv(Ahead)
    OBVIOUS
  <1> USE DEF Begun
  <1>1. Workers = {W} /\ NumWorkers = 1
    BY Lone
  <1>2. Control
    BY <1>1 DEF Control, Position, InDir, Parked, Emptied
  <1>3. ActiveCount
    <2>1. {w \in Workers : ~idle[w]} = {W}
      BY <1>1
    <2> QED
      BY <1>1, <2>1, FS_Singleton DEF ActiveCount
  <1>4. NoLostWakeup /\ ZeroEndsWalk
    BY <1>1 DEF NoLostWakeup, ZeroEndsWalk
  <1>5. PICK r, q : /\ r = Roots[pass] /\ q = queues[W] /\ q = <<r>> /\ r \in Entry
    BY TreeAssumption, ElementOfSeq
  <1>6. /\ NoRepeat(q) /\ Elements(q) = {r} /\ Elements(<< >>) = {}
        /\ NoRepeat(<< >>) /\ Dirs(<< >>) = {} /\ DirsDiffer(<< >>) /\ Len(<< >>) = 0
    BY <1>5, NoFrame DEF NoRepeat, Elements
  <1>7. EachOnce
    <2>1. \A w \in Workers : NoRepeat(queues[w]) /\ NoRepeat(batch[w]) /\ DirsDiffer(stack[w])
      BY <1>1, <1>5, <1>6
    <2>2. \A w, v \in Workers : Apart(w, v)
      BY <1>1, <1>5, <1>6 DEF Apart
    <2> QED
      BY <2>1, <2>2 DEF EachOnce
  <1>8. AllPending
    BY <1>1, <1>5, <1>6 DEF AllPending
  <1>9. AtEnd
    BY <1>1 DEF AtEnd
  <1>10. NoneLost(Ahead)
    <2>1. Somewhere(r)
      BY <1>1, <1>5, <1>6 DEF Somewhere
    <2> QED
      BY <1>5, <2>1 DEF NoneLost
  <1> QED
    BY <1>2, <1>3, <1>4, <1>7, <1>8, <1>9, <1>10 DEF IInv, TInv

LEMMA BeginAgain == Begun' => (IInv /\ TInv(Ahead))'
  BY Begin, PTL

\* The roots of later passes, without the next one.
LEMMA NextRoot ==
    ASSUME Phases, ~LastPass, pass' = pass + 1
    PROVE  /\ pass + 1 \in 1 .. Len(Roots) /\ pass' \in 1 .. Len(Roots)
           /\ Roots[pass + 1] \in Ahead /\ Roots[pass + 1] \in Entry /\ Roots[pass + 1] \in RootSet
           /\ Ahead' = Ahead \ {Roots[pass + 1]}
  <1>1. pass \in Nat /\ Len(Roots) \in Nat /\ pass + 1 \in 1 .. Len(Roots) /\ DOMAIN Roots = 1 .. Len(Roots)
    BY TreeAssumption DEF Phases, LastPass
  <1>2. Roots[pass + 1] \in Ahead
    BY <1>1 DEF Ahead
  <1>3. \A i \in pass + 1 .. Len(Roots) : Roots[i] = Roots[pass + 1] => i = pass + 1
    BY <1>1, ForestAssumption
  <1>4. Ahead' = {Roots[i] : i \in pass + 2 .. Len(Roots)}
    <2>1. pass' + 1 = pass + 2
      BY <1>1
    <2> QED
      BY <2>1 DEF Ahead
  <1>5. Ahead' = Ahead \ {Roots[pass + 1]}
    BY <1>1, <1>3, <1>4 DEF Ahead
  <1> QED
    BY <1>1, <1>2, <1>5, AheadRoots

\* The worker has returned and nobody asked it to: nothing is pending but later roots.
LEMMA NothingLeft ==
    ASSUME PInv, pc[W] = "done", ~asked
    PROVE  /\ queues[W] = << >> /\ batch[W] = << >> /\ stack[W] = << >>
           /\ \A d \in Entry \ Ahead : ~Pending(d)
  <1>1. Workers = {W}
    BY Lone
  <1>2. queues[W] = << >> /\ batch[W] = << >> /\ stack[W] = << >>
    BY <1>1 DEF PInv, OneWorker, Spent, IInv, Control, Position, InDir
  <1>3. \A d \in Entry : ~Somewhere(d)
    BY <1>1, <1>2 DEF Somewhere, Elements, InFrame
  <1> QED
    BY <1>2, <1>3 DEF PInv, TInv, NoneLost

LEMMA PassStarts ==
    ASSUME PInv, pc[W] = "done", ~asked, StartPass, phase' = "walk", sort' = sort
    PROVE  PInv'
  <1>1. Workers = {W} /\ W \in Workers /\ NumWorkers = 1
    BY Lone
  <1>2. TypeOK /\ Phases /\ ~LastPass /\ pass' = pass + 1
    BY DEF PInv, IInv, StartPass
  <1>3. PICK r : /\ r = Roots[pass'] /\ r = Roots[pass + 1]
                 /\ r \in Ahead /\ r \in Entry /\ r \in RootSet
                 /\ pass' \in 1 .. Len(Roots)
                 /\ Ahead' = Ahead \ {r}
    BY <1>2, NextRoot
  <1>4. /\ queues[W] = << >> /\ batch[W] = << >> /\ stack[W] = << >>
        /\ \A d \in Entry \ Ahead : ~Pending(d)
    BY NothingLeft
  <1>5. /\ queues'[W] = <<r>> /\ active' = NumWorkers /\ quit' = FALSE /\ pushGen' = 0
        /\ pc'[W] = "run" /\ ~idle'[W] /\ myGen'[W] = 0
        /\ batch' = batch /\ stack' = stack
        /\ UNCHANGED <<visits, reads, dropped, asked>>
    BY <1>1, <1>2, <1>3 DEF StartPass, TypeOK, history
  <1>6. TypeOK'
    <2>1. <<r>> \in Seq(Entry)
      BY <1>3
    <2>2. queues' \in [Workers -> Seq(Entry)] /\ pc' \in [Workers -> Labels]
      BY <1>2, <1>3, <2>1 DEF StartPass, TypeOK, Labels
    <2>3. /\ idle' \in [Workers -> BOOLEAN] /\ myGen' \in [Workers -> Nat]
          /\ probe' \in [Workers -> 1 .. NumWorkers]
      BY <1>1, <1>2 DEF StartPass, TypeOK
    <2>4. active' \in Int /\ pushGen' \in Nat
      BY <1>1, <1>5
    <2>5. quit' \in BOOLEAN
      BY <1>5, Zenon
    <2>6. UNCHANGED <<batch, stack, history>>
      BY DEF StartPass
    <2> QED
      BY <1>2, <2>2, <2>3, <2>4, <2>5, <2>6 DEF TypeOK, history
  <1>7. \A d \in Entry : Pending(d)' = Pending(d)
    BY <1>5 DEF Pending
  <1>8. Pending(r)
    BY <1>3 DEF PInv, OneWorker, Untouched, Pending
  <1>9. Begun'
    <2>1. ReadFirst'
      BY <1>5 DEF PInv, TInv, ReadFirst
    <2>2. \A d \in Entry \ Ahead' : Pending(d)' => d = r
      BY <1>3, <1>4, <1>7
    <2> QED
      BY <1>3, <1>4, <1>5, <1>6, <1>7, <1>8, <2>1, <2>2 DEF Begun
  <1>10. (IInv /\ TInv(Ahead))'
    BY <1>9, BeginAgain
  <1>11. OneWorker'
    <2>1. NoneSkipped' /\ FilesClosed'
      BY <1>5 DEF PInv, OneWorker, NoneSkipped, FilesClosed
    <2>2. Untouched'
      <3>1. Held' = {r}
        BY <1>4, <1>5, NoFrame DEF Held, Elements
      <3> QED
        BY <1>3, <1>5, <3>1 DEF PInv, OneWorker, Untouched
    <2>3. QuitLast' /\ Spent'
      BY <1>5 DEF QuitLast, Spent
    <2> QED
      BY <2>1, <2>2, <2>3 DEF OneWorker
  <1>12. Phases'
    BY <1>2, <1>3, <1>5 DEF Phases, LastPass
  <1> QED
    BY <1>10, <1>11, <1>12 DEF PInv

\* Outside a pass the walker stands still; the Visitor may answer Quit to a file it is given.
LEMMA StandsStill ==
    ASSUME PInv, UNCHANGED <<shared, pc, private, visits, reads, dropped, late, pass, sort>>,
           asked' \in {asked, TRUE}, Phases'
    PROVE  PInv'
  <1> USE DEF shared, private
  <1>1. IInv'
    <2>1. asked' \in BOOLEAN
      BY DEF PInv, IInv, TypeOK
    <2>2. TypeOK'
      BY <2>1 DEF PInv, IInv, TypeOK
    <2> QED
      BY <2>2 DEF PInv, IInv, Control, Position, ActiveCount, NoLostWakeup, ZeroEndsWalk
  <1>2. TInv(Ahead)'
    <2>1. EachOnce'
      BY DEF PInv, TInv, EachOnce, Apart
    <2>2. AllPending'
      BY SMTT(30) DEF PInv, TInv, AllPending, FrameOK, Pending
    <2>3. AtEnd' /\ ReadFirst'
      BY DEF PInv, TInv, AtEnd, Top, ReadFirst
    <2>4. NoneLost(Ahead)'
      BY DEF PInv, TInv, NoneLost, Somewhere, Pending, Ahead
    <2> QED
      BY <2>1, <2>2, <2>3, <2>4 DEF TInv
  <1>3. OneWorker'
    BY DEF PInv, OneWorker, NoneSkipped, FilesClosed, Untouched, Held, Ahead, QuitLast, Spent
  <1> QED
    BY <1>1, <1>2, <1>3 DEF PInv

-----------------------------------------------------------------------------
(* The invariant holds throughout.                                         *)

\* One root, as it is: the deque the only worker starts with.
LEMMA SeededFirst == FirstRoot!Seeded(W) = <<Roots[1]>>
  <1>1. Roots \in Seq(Entry) /\ Len(Roots) \in Nat \ {0} /\ NumWorkers = 1
    BY SortAssumption, TreeAssumption, EmptySeq
  <1>2. PICK one : one = SubSeq(Roots, 1, 1)
    OBVIOUS
  <1>3. Len(one) = 1 /\ one[1] = Roots[1]
    BY <1>1, <1>2, SubSeqProperties
  <1>4. FirstRoot!Share(W) = 1
    BY <1>1, <1>2, <1>3 DEF FirstRoot!Share, W
  <1>5. FirstRoot!Seeded(W) = [k \in 1 .. 1 |-> one[0 + 1 + 1 * (1 - k)]]
    BY <1>1, <1>2, <1>4 DEF FirstRoot!Seeded, W
  <1>6. \A k \in 1 .. 1 : 0 + 1 + 1 * (1 - k) = 1
    OBVIOUS
  <1> QED
    BY <1>3, <1>5, <1>6

LEMMA InitPInv == FilesInit => PInv
  <1> SUFFICES ASSUME FilesInit PROVE PInv
    OBVIOUS
  <1> USE DEF FilesInit, WalkInit
  <1>1. Workers = {W} /\ W \in Workers /\ NumWorkers = 1 /\ Len(Roots) \in Nat \ {0}
    BY Lone, SortAssumption, TreeAssumption, EmptySeq
  <1>2. CASE sort = "none"
    <2>1. Init /\ pass = Len(Roots) /\ phase = "walk"
      BY <1>2
    <2>2. Ahead = {}
      BY <1>1, <2>1 DEF Ahead
    <2>3. IInv /\ TInv(Ahead)
      BY <2>1, <2>2, InitIInv, InitTasks
    <2>4. /\ \A e \in Entry : reads[e] = 0 /\ visits[e] = 0
          /\ ~quit /\ pc[W] = "run"
      BY <1>1, <2>1 DEF Init
    <2>5. OneWorker
      BY <2>2, <2>4 DEF OneWorker, NoneSkipped, FilesClosed, Untouched, QuitLast, Spent
    <2> QED
      BY <1>1, <1>2, <2>1, <2>3, <2>5 DEF PInv, Phases, LastPass
  <1>3. CASE sort # "none"
    <2>1. FirstRoot!Init /\ pass = 1 /\ phase = "walk"
      BY <1>3
    <2>2. PICK r : /\ r = Roots[1] /\ r \in Entry /\ r \in RootSet /\ r = Roots[pass]
                   /\ RootSet \subseteq Entry
      BY <1>1, <2>1, TreeAssumption, ElementOfSeq DEF RootSet, Elements
    <2>3. queues = [w \in Workers |-> <<r>>]
      <3>1. queues = [w \in Workers |-> FirstRoot!Seeded(w)]
        BY <2>1 DEF FirstRoot!Init, Workers, FirstRoot!Workers
      <3> QED
        BY <1>1, <2>2, <3>1, SeededFirst
    <2>4. /\ active = NumWorkers /\ quit = FALSE /\ pushGen = 0
          /\ pc = [w \in Workers |-> "run"] /\ idle = [w \in Workers |-> FALSE]
          /\ myGen = [w \in Workers |-> 0] /\ probe = [w \in Workers |-> 1]
          /\ batch = [w \in Workers |-> << >>] /\ stack = [w \in Workers |-> << >>]
          /\ visits = [e \in Entry |-> 0] /\ reads = [e \in Entry |-> 0]
          /\ dropped = {} /\ asked = FALSE /\ late = [w \in Workers |-> 0]
      BY <2>1 DEF FirstRoot!Init, Workers, FirstRoot!Workers
    <2>5. TypeOK
      <3>1. <<r>> \in Seq(Entry)
        BY <2>2
      <3>2. /\ queues \in [Workers -> Seq(Entry)] /\ pc \in [Workers -> Labels]
            /\ batch \in [Workers -> Seq(Entry)] /\ stack \in [Workers -> Seq(Frame)]
        BY <2>3, <2>4, <3>1 DEF Labels
      <3>3. quit \in BOOLEAN /\ asked \in BOOLEAN /\ idle \in [Workers -> BOOLEAN] /\ dropped \subseteq Entry
        BY <2>4, Zenon
      <3>4. /\ active \in Int /\ pushGen \in Nat /\ myGen \in [Workers -> Nat]
            /\ probe \in [Workers -> 1 .. NumWorkers] /\ visits \in [Entry -> Nat]
            /\ reads \in [Entry -> Nat] /\ late \in [Workers -> Nat]
        BY <1>1, <2>4
      <3> QED
        BY <3>2, <3>3, <3>4 DEF TypeOK
    <2>6. ReadFirst
      <3>1. \A d \in Entry : \A k \in 1 .. Len(Listing[d]) : Listing[d][k] \in Entry
        BY TreeAssumption
      <3> QED
        BY <2>4, <3>1 DEF ReadFirst
    <2>7. \A d \in Entry \ Ahead : Pending(d) => d = r
      <3> SUFFICES ASSUME NEW d \in Entry, Pending(d), d # r PROVE d \in Ahead
        OBVIOUS
      <3>1. d \in RootSet
        BY <2>4 DEF Pending
      <3>2. PICK i \in 1 .. Len(Roots) : d = Roots[i]
        BY <3>1 DEF RootSet, Elements
      <3>3. i \in pass + 1 .. Len(Roots)
        BY <1>1, <2>1, <2>2, <3>2
      <3> QED
        BY <3>2, <3>3 DEF Ahead
    <2>8. Pending(r)
      BY <2>2, <2>4 DEF Pending
    <2>9. Begun
      BY <1>1, <2>1, <2>2, <2>3, <2>4, <2>5, <2>6, <2>7, <2>8 DEF Begun
    <2>10. Untouched
      <3>1. Held = {r}
        BY <1>1, <2>3, <2>4, NoFrame DEF Held, Elements
      <3>2. r \notin Ahead
        BY <1>1, <2>1, <2>2, ForestAssumption, TreeAssumption DEF Ahead
      <3>3. Ahead \subseteq Entry
        BY <1>1, <2>1, <2>2 DEF Ahead, RootSet, Elements
      <3> QED
        BY <2>4, <3>1, <3>2, <3>3 DEF Untouched
    <2>11. OneWorker
      BY <1>1, <2>4, <2>10 DEF OneWorker, NoneSkipped, FilesClosed, QuitLast, Spent
    <2> QED
      BY <1>1, <1>3, <2>1, <2>9, <2>11, Begin DEF PInv, Phases, LastPass
  <1> QED
    BY <1>2, <1>3

\* A step of the walk is a step of its worker, or of walkSorted around it.
LEMMA StepPInv == PInv /\ [FilesNext]_filesVars => PInv'
  <1> SUFFICES ASSUME PInv, [FilesNext]_filesVars PROVE PInv'
    OBVIOUS
  <1>1. Phases /\ Workers = {W} /\ asked \in BOOLEAN
    BY Lone DEF PInv, IInv, TypeOK
  <1>2. CASE Visit \/ Report \/ Read \/ Proceed
    <2>1. WorkerStep(W) /\ UNCHANGED <<pass, phase, sort>>
      BY <1>2 DEF Visit, Report, Read, Proceed, WorkerStep, DirStep, sorting
    <2> QED
      BY <2>1, StepOfWorker
  <1>3. CASE EndOfPass
    <2>1. phase = "walk" /\ pc[W] = "done" /\ sort' = sort
      BY <1>1, <1>3 DEF EndOfPass, AllDone, sorting
    <2>2. CASE UNCHANGED <<vars, pass>> /\ phase' \in {"over", "emit"}
      <3>1. Phases'
        BY <1>1, <2>1, <2>2 DEF Phases, LastPass, vars
      <3> QED
        BY <2>1, <2>2, <3>1, StandsStill DEF vars, history
    <2>3. CASE ~asked /\ StartPass /\ phase' = phase
      BY <2>1, <2>3, PassStarts
    <2> QED
      BY <1>3, <2>2, <2>3 DEF EndOfPass
  <1>4. CASE Emit
    <2>1. /\ UNCHANGED <<shared, pc, private, visits, reads, dropped, late, pass, sort>>
          /\ phase' = phase
      BY <1>4 DEF Emit, sorting
    <2>2. asked' \in {asked, TRUE}
      BY <1>1, <1>4 DEF Emit
    <2>3. Phases'
      BY <1>1, <2>1 DEF Phases, LastPass
    <2> QED
      BY <2>1, <2>2, <2>3, StandsStill, Zenon
  <1>5. CASE EndOfEmit
    <2>1. phase = "emit" /\ pc[W] = "done" /\ sort' = sort
      BY <1>1, <1>5 DEF EndOfEmit, Phases, sorting
    <2>2. CASE UNCHANGED <<vars, pass>> /\ phase' = "over"
      <3>1. Phases'
        BY <1>1, <2>1, <2>2 DEF Phases, LastPass, vars
      <3> QED
        BY <2>1, <2>2, <3>1, StandsStill DEF vars, history
    <2>3. CASE ~asked /\ StartPass /\ phase' = "walk"
      BY <2>1, <2>3, PassStarts
    <2> QED
      BY <1>5, <2>2, <2>3 DEF EndOfEmit
  <1>6. CASE UNCHANGED walkVars
    <2>1. UNCHANGED <<vars, pass, phase, sort>>
      BY <1>6 DEF walkVars, sorting
    <2>2. Phases'
      BY <1>1, <2>1 DEF Phases, LastPass, vars
    <2> QED
      BY <2>1, <2>2, StandsStill DEF vars, history
  <1> QED
    BY <1>2, <1>3, <1>4, <1>5, <1>6 DEF FilesNext, Walking, WalkStep, WritePath, Drained, Close,
         Exit, Finished, filesVars

\* The invariant of the walk with one worker holds throughout, however it is sorted.
THEOREM OneWorkerInductive == FilesSpec => []PInv
  BY InitPInv, StepPInv, PTL DEF FilesSpec

-----------------------------------------------------------------------------
(* The walk with one worker implements the whole contract.                 *)

\* When the last pass is over nothing that was found is left out.
LEMMA AllFound ==
    ASSUME PInv, pc[W] = "done", ~asked, LastPass
    PROVE  Whole!Complete
  <1>1. TypeOK /\ stack[W] = << >> /\ Ahead = {}
    <2>1. pass \in Nat
      BY TreeAssumption DEF PInv, Phases
    <2>2. Ahead = {}
      BY <2>1 DEF LastPass, Ahead
    <2> QED
      BY <2>2, NothingLeft DEF PInv, IInv
  <1>2. \A d \in Entry : ~Pending(d)
    BY <1>1, NothingLeft
  <1>3. ASSUME NEW e \in Entry, e \in RootSet \/ \E d \in Entry : reads[d] > 0 /\ e \in Elements(Listing[d])
        PROVE  reads[e] > 0 \/ e \in dropped
    <2>1. reads[e] \in Nat /\ visits[e] \in Nat
      BY <1>1 DEF TypeOK
    <2>2. CASE e \in RootSet
      BY <1>2, <2>1, <2>2 DEF Pending
    <2>3. CASE e \notin RootSet
      <3>1. PICK d \in Entry : reads[d] > 0 /\ e \in Elements(Listing[d])
        BY <1>3, <2>3
      <3>2. PICK k \in 1 .. Len(Listing[d]) : e = Listing[d][k]
        BY <3>1 DEF Elements
      <3>3. visits[e] > 0
        <4>1. ~ \E i \in 1 .. Len(stack[W]) : TRUE
          BY <1>1
        <4>2. visits[e] # 0
          BY <3>1, <3>2, <4>1 DEF PInv, OneWorker, NoneSkipped
        <4> QED
          BY <2>1, <4>2
      <3>4. CASE Kind[e] = "dir"
        BY <1>2, <2>1, <3>3, <3>4 DEF Pending
      <3>5. CASE Kind[e] # "dir"
        BY <2>3, <3>3, <3>5 DEF PInv, OneWorker, FilesClosed
      <3> QED
        BY <3>4, <3>5
    <2> QED
      BY <2>2, <2>3
  <1>4. \A e \in Entry : Status[e] = "listed" <=> reads[e] > 0
    BY <1>1, StatusValue
  <1>5. \A e \in Entry : Status[e] \in {"listed", "closed"} <=> reads[e] > 0 \/ e \in dropped
    <2> SUFFICES ASSUME NEW e \in Entry
                 PROVE  Status[e] \in {"listed", "closed"} <=> reads[e] > 0 \/ e \in dropped
      OBVIOUS
    <2>1. reads[e] \in Nat
      BY <1>1 DEF TypeOK
    <2> QED
      BY <1>1, <2>1, StatusValue
  <1> QED
    BY <1>3, <1>4, <1>5 DEF Whole!Complete, Whole!Available

\* A step of the worker is a delivery, or nothing the caller sees.
LEMMA WorkerDelivers ==
    ASSUME PInv, PInv', WorkerStep(W), phase' = phase
    PROVE  Whole!Next \/ UNCHANGED <<Status, asked, phase = "over">>
  <1>1. W \in Workers /\ TypeOK /\ Control /\ TypeOK'
    BY Lone DEF PInv, IInv
  <1>2. CASE LoopStep(W)
    <2>1. UNCHANGED <<visits, reads, dropped, asked>>
      BY <1>1, <1>2, LoopSilent
    <2> QED
      BY <2>1 DEF Status
  <1>3. CASE DirStep(W)
    <2>1. PICK R : R = Ahead
      OBVIOUS
    <2>2. TInv(R)
      BY <2>1 DEF PInv
    <2>3. pc[W] # "done" /\ (OneDelivered \/ UNCHANGED <<Status, asked>>)
      BY <1>1, <1>3, <2>2, DirDelivers
    <2>4. phase # "over"
      BY <2>3 DEF PInv, Phases
    <2>5. CASE OneDelivered
      <3>1. PICK e \in Entry : Whole!Deliver(e)
        BY <2>4, <2>5 DEF OneDelivered, Whole!Deliver, Whole!Available, Whole!Later, Contract!Later
      <3> QED
        BY <3>1 DEF Whole!Next
    <2> QED
      BY <2>3, <2>5
  <1> QED
    BY <1>2, <1>3 DEF WorkerStep

\* A walk with one worker, sorted or not, in one pass or in one for each root, is
\* complete when it returns: a delivery is never lost between the passes, the sort
\* and the answers of the Visitor.
THEOREM WalkComplete == FilesSpec => ImplementsWalk
  <1>1. FilesInit => Whole!Init
    <2> SUFFICES ASSUME FilesInit PROVE Whole!Init
      OBVIOUS
    <2>1. TypeOK
      BY InitPInv DEF PInv, IInv
    <2>2. /\ \A e \in Entry : visits[e] = 0 /\ reads[e] = 0
          /\ dropped = {} /\ asked = FALSE /\ phase = "walk"
      BY DEF FilesInit, WalkInit, Init, FirstRoot!Init
    <2>3. \A e \in Entry : Status[e] = "unseen"
      BY <2>1, <2>2, StatusValue
    <2>4. Status = [e \in Entry |-> "unseen"]
      BY <2>3 DEF Status
    <2> QED
      BY <2>2, <2>4 DEF Whole!Init
  <1>2. PInv /\ PInv' /\ [FilesNext]_filesVars => [Whole!Next]_(Whole!vars)
    <2> SUFFICES ASSUME PInv, PInv', [FilesNext]_filesVars
                 PROVE  Whole!Next \/ UNCHANGED <<Status, asked, phase = "over">>
      BY DEF Whole!vars
    <2>1. Workers = {W} /\ Phases
      BY Lone DEF PInv
    <2>2. CASE Visit \/ Report \/ Read \/ Proceed
      <3>1. WorkerStep(W) /\ phase' = phase
        BY <2>2 DEF Visit, Report, Read, Proceed, WorkerStep, DirStep
      <3> QED
        BY <3>1, WorkerDelivers
    <2>3. CASE phase # "over" /\ phase' = "over" /\ UNCHANGED vars /\ pc[W] = "done" /\ (asked \/ LastPass)
      <3>1. asked \/ Whole!Complete
        BY <2>3, AllFound
      <3>2. Status' = Status
        BY <2>3 DEF vars, history, Status
      <3> QED
        BY <2>3, <3>1, <3>2 DEF Whole!Next, Whole!Finish, vars, history
    <2>4. CASE UNCHANGED <<visits, reads, dropped, asked>> /\ (phase = "over" <=> phase' = "over")
      <3>1. Status' = Status
        BY <2>4 DEF Status
      <3> QED
        BY <2>4, <3>1
    <2>5. CASE EndOfPass
      <3>1. phase = "walk" /\ pc[W] = "done"
        BY <2>1, <2>5 DEF EndOfPass, AllDone
      <3> QED
        BY <2>1, <2>3, <2>4, <2>5, <3>1 DEF EndOfPass, StartPass, vars, history, Phases
    <2>6. CASE EndOfEmit
      <3>1. phase = "emit" /\ pc[W] = "done"
        BY <2>1, <2>6 DEF EndOfEmit, Phases
      <3> QED
        BY <2>1, <2>3, <2>4, <2>6, <3>1 DEF EndOfEmit, StartPass, vars, history, Phases
    <2>7. CASE Emit
      <3>1. phase = "emit" /\ phase' = phase /\ UNCHANGED <<visits, reads, dropped>>
        BY <2>7 DEF Emit
      <3>2. Status' = Status
        BY <3>1 DEF Status
      <3>3. asked' = asked \/ asked' = TRUE
        BY <2>7 DEF Emit, PInv, IInv, TypeOK
      <3> QED
        BY <3>1, <3>2, <3>3 DEF Whole!Next, Whole!Stop
    <2>8. CASE UNCHANGED walkVars
      BY <2>4, <2>8 DEF walkVars, vars, history
    <2> QED
      BY <2>2, <2>5, <2>6, <2>7, <2>8 DEF FilesNext, Walking, WalkStep, WritePath, Drained, Close,
           Exit, Finished, filesVars
  <1> QED
    BY <1>1, <1>2, OneWorkerInductive, PTL DEF FilesSpec, ImplementsWalk, Whole!Spec

-----------------------------------------------------------------------------
(* The inductive invariant of --files.                                     *)

Item == [entry : Entry, time : Times \cup {None}]
Shown(s) == {s[i].entry : i \in 1 .. Len(s)}
Found == {e \in Entry : visits[e] > 0 /\ IsFile(e)}

WalkTypes ==
    /\ sort \in {"none", "path", "time"} /\ reverse \in BOOLEAN /\ obliging \in BOOLEAN
    /\ items \in Seq(Item) /\ emit \in Seq(Item) /\ got \in Seq(Item) /\ errors \in Nat

\* The Visitor of gg never answers Quit, so the walk ends with its last root.
Obliging == obliging => ~asked /\ (phase = "over" => LastPass)

\* Every file that was visited was given, or waits in the buffer or for its turn.
Met == Shown(got) \cup Shown(items) \cup Shown(emit) = Found
Buffers ==
    /\ sort = "none" => items = << >> /\ phase # "emit"
    /\ phase = "walk" => emit = << >>
    /\ phase = "emit" => items = << >>
    /\ Returns => items = << >> /\ emit = << >>

\* Without an error nothing is given up but what --one-file-system prunes.
Honest ==
    /\ obliging /\ errors = 0 =>
         \A e \in dropped : Kind[e] # "invalid" /\ (Kind[e] = "dir" => e \in Foreign)
    /\ \A e \in Entry : reads[e] > 0 => Kind[e] = "dir"

Outputs ==
    /\ quiet \in BOOLEAN /\ closed \in BOOLEAN /\ printer \in {"reading", "done"}
    /\ channel \in Seq(Entry) /\ buf \in Seq(Entry) /\ written \in Seq(Entry)

\* What is on its way to the output, and what the end of each part waits for.
Piped == Printing => written \o buf \o channel = EntriesOf(got)
Ended ==
    /\ closed => phase = "over"
    /\ printer = "done" => closed /\ channel = << >> /\ buf = << >>
    /\ exit # None => /\ phase = "over" /\ exit = ExitCode
                      /\ Printing => closed /\ printer = "done"

WInv == WalkTypes /\ Obliging /\ Met /\ Buffers /\ Honest
OInv == Outputs /\ Piped /\ Ended
FInv == WInv /\ OInv

-----------------------------------------------------------------------------
(* A sort loses nothing and invents nothing.                               *)

\* A non-empty set of numbers has a least one.
LEMMA LeastExists ==
    ASSUME NEW S \in SUBSET Nat, S # {}
    PROVE  \E k \in S : \A j \in S : k <= j
  <1>1. PICK R : /\ IsWellFoundedOn(R, Nat)
                 /\ \A i, j \in Nat : i < j => <<i, j>> \in R
    <2>1. IsWellFoundedOn({ss \in Nat \X Nat : ss[1] < ss[2]}, Nat)
      BY NatLessThanWellFounded DEF OpToRel
    <2> QED
      BY <2>1
  <1>2. S \subseteq Nat /\ IsWellFoundedOn(R, Nat)
    BY <1>1
  <1>3. PICK k \in S : \A j \in S : ~(<<j, k>> \in R)
    BY <1>2, WFMin
  <1>4. \A j \in S : j \in Nat /\ k \in Nat /\ ~(j < k)
    BY <1>1, <1>3, Zenon
  <1> QED
    BY <1>4

\* What a path says at a place: the end of the path comes before every byte.
Mark(s, i) == IF i <= Len(s) THEN Weight(s[i]) ELSE -1

\* The first place where two paths differ.
Differs(s, t, k) ==
    /\ \A j \in Nat \ {0} : j < k => Mark(s, j) = Mark(t, j)
    /\ Mark(s, k) # Mark(t, k)
Decides(s, t, k) == Differs(s, t, k) /\ (ComparePath(s, t) < 0 <=> Mark(s, k) < Mark(t, k))

\* comparePath is decided at the first place where the paths differ.
LEMMA ComparePathValue ==
    ASSUME NEW s \in Seq(Nat), NEW t \in Seq(Nat)
    PROVE  \/ ComparePath(s, t) = 0 /\ \A i \in Nat \ {0} : Mark(s, i) = Mark(t, i)
           \/ ComparePath(s, t) \in Int \ {0} /\ \E k \in Nat \ {0} : Decides(s, t, k)
  <1> DEFINE differ == {k \in 1 .. Len(s) : k <= Len(t) /\ Weight(s[k]) - Weight(t[k]) # 0}
             first == CHOOSE k \in differ : \A j \in differ : k <= j
  <1>1. PICK c : c = ComparePath(s, t)
    OBVIOUS
  <1>2. c = IF differ # {} THEN Weight(s[first]) - Weight(t[first])
            ELSE IF Len(s) < Len(t) THEN -1 ELSE IF Len(s) > Len(t) THEN 1 ELSE 0
    BY <1>1 DEF ComparePath, Lexical
  <1>3. /\ Len(s) \in Nat /\ Len(t) \in Nat
        /\ \A i \in 1 .. Len(s) : Weight(s[i]) \in Nat
        /\ \A i \in 1 .. Len(t) : Weight(t[i]) \in Nat
    BY DEF Weight
  <1>4. CASE differ # {}
    <2>1. PICK k : k = first /\ k \in differ /\ \A j \in differ : k <= j
      <3>1. differ \subseteq Nat
        BY <1>3
      <3>2. \E k \in differ : \A j \in differ : k <= j
        BY <1>4, <3>1, LeastExists
      <3> QED
        BY <3>2
    <2>2. c = Weight(s[k]) - Weight(t[k])
      BY <1>2, <1>4, <2>1
    <2>3. k \in 1 .. Len(s) /\ k <= Len(t) /\ Weight(s[k]) - Weight(t[k]) # 0
      BY <2>1
    <2>4. \A j \in 1 .. Len(s) : j < k /\ j <= Len(t) => Weight(s[j]) - Weight(t[j]) = 0
      <3>1. ASSUME NEW j \in 1 .. Len(s), j < k, j <= Len(t), Weight(s[j]) - Weight(t[j]) # 0
            PROVE  FALSE
        <4>1. k <= j
          BY <2>1, <3>1
        <4> QED
          BY <1>3, <2>3, <3>1, <4>1
      <3>2. \A j \in 1 .. Len(s) : Weight(s[j]) - Weight(t[j]) # 0 \/ Weight(s[j]) - Weight(t[j]) = 0
        OBVIOUS
      <3> QED
        BY <3>1, <3>2
    <2> HIDE DEF differ, first
    <2>5. Weight(s[k]) \in Nat /\ Weight(t[k]) \in Nat /\ k \in Nat \ {0}
      BY <1>3, <2>3, SMTT(30)
    <2>6. Mark(s, k) = Weight(s[k]) /\ Mark(t, k) = Weight(t[k])
      BY <1>3, <2>3 DEF Mark
    <2>7. \A j \in Nat \ {0} : j < k => Mark(s, j) = Mark(t, j)
      BY <1>3, <2>3, <2>4, SMTT(30) DEF Mark
    <2>8. Differs(s, t, k) /\ c \in Int \ {0} /\ (c < 0 <=> Mark(s, k) < Mark(t, k))
      BY <2>2, <2>3, <2>5, <2>6, <2>7, SMTT(30) DEF Differs
    <2> QED
      BY <1>1, <2>5, <2>8 DEF Decides
  <1>5. CASE differ = {}
    <2>1. \A j \in 1 .. Len(s) : j <= Len(t) => Weight(s[j]) - Weight(t[j]) = 0
      BY <1>5
    <2>2. c = IF Len(s) < Len(t) THEN -1 ELSE IF Len(s) > Len(t) THEN 1 ELSE 0
      BY <1>2, <1>5
    <2> HIDE DEF differ, first
    <2>3. \A j \in 1 .. Len(s) : j <= Len(t) => Weight(s[j]) = Weight(t[j])
      BY <1>3, <2>1
    <2>4. CASE Len(s) = Len(t)
      <3>1. c = 0 /\ \A i \in Nat \ {0} : Mark(s, i) = Mark(t, i)
        BY <1>3, <2>2, <2>3, <2>4 DEF Mark
      <3> QED
        BY <1>1, <3>1
    <2>5. CASE Len(s) < Len(t)
      <3>1. PICK k : k = Len(s) + 1 /\ k \in Nat \ {0}
        BY <1>3
      <3>2. Mark(s, k) = -1 /\ Mark(t, k) \in Nat
        BY <1>3, <2>5, <3>1 DEF Mark
      <3>3. \A j \in Nat \ {0} : j < k => Mark(s, j) = Mark(t, j)
        BY <1>3, <2>3, <2>5, <3>1 DEF Mark
      <3>4. Differs(s, t, k) /\ c = -1 /\ Mark(s, k) < Mark(t, k)
        BY <2>2, <2>5, <3>2, <3>3 DEF Differs
      <3> QED
        BY <1>1, <3>1, <3>4 DEF Decides
    <2>6. CASE Len(t) < Len(s)
      <3>1. PICK k : k = Len(t) + 1 /\ k \in Nat \ {0}
        BY <1>3
      <3>2. Mark(t, k) = -1 /\ Mark(s, k) \in Nat
        BY <1>3, <2>6, <3>1, SMTT(30) DEF Mark
      <3>3. \A j \in Nat \ {0} : j < k => Mark(s, j) = Mark(t, j)
        BY <1>3, <2>3, <2>6, <3>1 DEF Mark
      <3>4. Differs(s, t, k) /\ c = 1 /\ ~(Mark(s, k) < Mark(t, k))
        BY <1>3, <2>2, <2>6, <3>2, <3>3 DEF Differs
      <3> QED
        BY <1>1, <3>1, <3>4 DEF Decides
    <2> QED
      BY <1>3, <2>4, <2>5, <2>6
  <1> QED
    BY <1>4, <1>5

LEMMA MarkType == \A s \in Seq(Nat), i \in Nat \ {0} : Mark(s, i) \in Int
  <1> SUFFICES ASSUME NEW s \in Seq(Nat), NEW i \in Nat \ {0} PROVE Mark(s, i) \in Int
    OBVIOUS
  <1>1. i <= Len(s) => s[i] \in Nat
    OBVIOUS
  <1> QED
    BY <1>1 DEF Mark, Weight

\* Where two paths differ first is the same place for both.
LEMMA DiffersOnce ==
    ASSUME NEW s, NEW t, NEW k \in Nat \ {0}, NEW m \in Nat \ {0}, Differs(s, t, k), Differs(t, s, m)
    PROVE  k = m
  BY DEF Differs

\* comparePath is an order: one of two paths is first, and what lies between them decides.
LEMMA ComparePathOrder ==
    ASSUME NEW s \in Seq(Nat), NEW t \in Seq(Nat), NEW u \in Seq(Nat)
    PROVE  /\ ComparePath(s, t) \in Int
           /\ ComparePath(s, t) < 0 <=> ComparePath(t, s) > 0
           /\ ComparePath(s, u) < 0 => ComparePath(s, t) < 0 \/ ComparePath(t, u) < 0
  <1>1. \A i \in Nat \ {0} : Mark(s, i) \in Int /\ Mark(t, i) \in Int /\ Mark(u, i) \in Int
    BY MarkType
  <1>2. ComparePath(s, t) \in Int /\ ComparePath(t, s) \in Int /\ ComparePath(t, u) \in Int /\ ComparePath(s, u) \in Int
    BY ComparePathValue
  <1>3. ComparePath(s, t) < 0 <=> ComparePath(t, s) > 0
    <2>1. CASE ComparePath(s, t) = 0 /\ \A i \in Nat \ {0} : Mark(s, i) = Mark(t, i)
      <3>1. \A k \in Nat \ {0} : ~Differs(t, s, k)
        BY <2>1 DEF Differs
      <3>2. ComparePath(t, s) = 0
        BY <3>1, ComparePathValue DEF Decides
      <3> QED
        BY <2>1, <3>2
    <2>2. CASE ~ \A i \in Nat \ {0} : Mark(s, i) = Mark(t, i)
      <3>1. PICK k \in Nat \ {0}, m \in Nat \ {0} : Decides(s, t, k) /\ Decides(t, s, m)
        BY <2>2, ComparePathValue
      <3>2. ComparePath(s, t) # 0 /\ ComparePath(t, s) # 0
        BY <2>2, ComparePathValue
      <3>3. k = m
        BY <3>1, DiffersOnce DEF Decides
      <3>4. Mark(s, k) # Mark(t, k) /\ Mark(s, k) \in Int /\ Mark(t, k) \in Int
        BY <1>1, <3>1 DEF Decides, Differs
      <3>5. /\ ComparePath(s, t) < 0 <=> Mark(s, k) < Mark(t, k)
            /\ ComparePath(t, s) < 0 <=> Mark(t, k) < Mark(s, k)
        BY <3>1, <3>3 DEF Decides
      <3> QED
        BY <1>2, <3>2, <3>4, <3>5
    <2>3. (ComparePath(s, t) = 0 /\ \A i \in Nat \ {0} : Mark(s, i) = Mark(t, i))
          \/ ~ \A i \in Nat \ {0} : Mark(s, i) = Mark(t, i)
      BY ComparePathValue DEF Decides, Differs
    <2> QED
      BY <2>1, <2>2, <2>3
  <1>4. ASSUME ComparePath(s, u) < 0, ~(ComparePath(s, t) < 0), ~(ComparePath(t, u) < 0)
        PROVE  FALSE
    <2>1. PICK k \in Nat \ {0} : Differs(s, u, k) /\ Mark(s, k) < Mark(u, k)
      BY <1>4, ComparePathValue DEF Decides
    <2>2. \/ \A i \in Nat \ {0} : Mark(s, i) = Mark(t, i)
          \/ \E m \in Nat \ {0} : Differs(s, t, m) /\ ~(Mark(s, m) < Mark(t, m))
      BY <1>4, ComparePathValue DEF Decides
    <2>3. \/ \A i \in Nat \ {0} : Mark(t, i) = Mark(u, i)
          \/ \E n \in Nat \ {0} : Differs(t, u, n) /\ ~(Mark(t, n) < Mark(u, n))
      BY <1>4, ComparePathValue DEF Decides
    <2>4. CASE \A i \in Nat \ {0} : Mark(s, i) = Mark(t, i)
      <3>1. PICK n \in Nat \ {0} : Differs(t, u, n) /\ ~(Mark(t, n) < Mark(u, n))
        BY <1>1, <2>1, <2>3, <2>4
      <3> QED
        BY <1>1, <2>1, <2>4, <3>1 DEF Differs
    <2>5. ASSUME NEW m \in Nat \ {0}, Differs(s, t, m), ~(Mark(s, m) < Mark(t, m))
          PROVE  FALSE
      <3>1. CASE \A i \in Nat \ {0} : Mark(t, i) = Mark(u, i)
        BY <1>1, <2>1, <2>5, <3>1 DEF Differs
      <3>2. ASSUME NEW n \in Nat \ {0}, Differs(t, u, n), ~(Mark(t, n) < Mark(u, n))
            PROVE  FALSE
        <4>1. /\ k \in Nat /\ m \in Nat /\ n \in Nat
              /\ \A i \in {k, m, n} : Mark(s, i) \in Int /\ Mark(t, i) \in Int /\ Mark(u, i) \in Int
          BY <1>1
        <4>2. /\ Mark(s, k) < Mark(u, k)
              /\ m < k => Mark(s, m) = Mark(u, m)
              /\ n < k => Mark(s, n) = Mark(u, n)
          BY <2>1 DEF Differs
        <4>3. /\ Mark(s, m) > Mark(t, m)
              /\ k < m => Mark(s, k) = Mark(t, k)
              /\ n < m => Mark(s, n) = Mark(t, n)
          BY <2>5, <4>1 DEF Differs
        <4>4. /\ Mark(t, n) > Mark(u, n)
              /\ k < n => Mark(t, k) = Mark(u, k)
              /\ m < n => Mark(t, m) = Mark(u, m)
          BY <3>2, <4>1 DEF Differs
        <4>5. CASE k < m /\ k < n
          BY <4>1, <4>2, <4>3, <4>4, <4>5
        <4>6. CASE m <= k /\ m <= n
          BY <4>1, <4>2, <4>3, <4>4, <4>6
        <4>7. CASE n <= k /\ n < m
          BY <4>1, <4>2, <4>3, <4>4, <4>7
        <4> QED
          BY <4>1, <4>5, <4>6, <4>7
      <3> QED
        BY <2>3, <3>1, <3>2
    <2> QED
      BY <2>2, <2>4, <2>5
  <1> QED
    BY <1>2, <1>3, <1>4

\* A missing time is in order with the others.
LEMMA CompareTimeOrder ==
    ASSUME NEW s \in Times \cup {None}, NEW t \in Times \cup {None}, NEW u \in Times \cup {None}
    PROVE  /\ CompareTime(s, t) \in Int
           /\ CompareTime(s, t) < 0 <=> CompareTime(t, s) > 0
           /\ CompareTime(s, u) < 0 => CompareTime(s, t) < 0 \/ CompareTime(t, u) < 0
  <1>1. /\ s # None => s \in Nat
        /\ t # None => t \in Nat
        /\ u # None => u \in Nat
    BY SortAssumption
  <1>2. \A x, y \in Times \cup {None} :
            /\ x # None /\ y # None => CompareTime(x, y) = x - y
            /\ x # None /\ y = None => CompareTime(x, y) = -1
            /\ x = None /\ y # None => CompareTime(x, y) = 1
            /\ x = None /\ y = None => CompareTime(x, y) = 0
    BY DEF CompareTime
  <1> QED
    BY <1>1, <1>2

\* The order the files are given in, and what makes it one.
Put(a, b) == IF reverse THEN -Compare(a, b) ELSE Compare(a, b)
LEMMA PutOrder ==
    ASSUME NEW a \in Item, NEW b \in Item, NEW c \in Item
    PROVE  /\ Put(a, b) \in Int
           /\ Put(a, b) < 0 <=> Put(b, a) > 0
           /\ Put(a, c) < 0 => Put(a, b) < 0 \/ Put(b, c) < 0
  <1>1. \A x \in Item : x.entry \in Entry /\ x.time \in Times \cup {None} /\ Path[x.entry] \in Seq(Nat)
    BY PathAssumption DEF Item
  <1>2. \A x, y, z \in Item : /\ Compare(x, y) \in Int
                              /\ Compare(x, y) < 0 <=> Compare(y, x) > 0
                              /\ Compare(x, z) < 0 => Compare(x, y) < 0 \/ Compare(y, z) < 0
    <2>1. CASE sort = "path"
      BY <1>1, <2>1, ComparePathOrder DEF Compare
    <2>2. CASE sort # "path"
      BY <1>1, <2>2, CompareTimeOrder DEF Compare
    <2> QED
      BY <2>1, <2>2
  <1>3. CASE reverse
    <2>1. /\ Put(a, b) = -Compare(a, b) /\ Put(b, a) = -Compare(b, a)
          /\ Put(a, c) = -Compare(a, c) /\ Put(b, c) = -Compare(b, c)
      BY <1>3 DEF Put
    <2>2. /\ Compare(a, b) \in Int /\ Compare(b, a) \in Int
          /\ Compare(a, c) \in Int /\ Compare(b, c) \in Int
      BY <1>2
    <2>3. /\ Compare(a, b) < 0 <=> Compare(b, a) > 0
          /\ Compare(b, a) < 0 <=> Compare(a, b) > 0
          /\ Compare(c, a) < 0 <=> Compare(a, c) > 0
          /\ Compare(c, b) < 0 <=> Compare(b, c) > 0
          /\ Compare(c, a) < 0 => Compare(c, b) < 0 \/ Compare(b, a) < 0
      BY <1>2
    <2> QED
      BY <2>1, <2>2, <2>3
  <1>4. CASE ~reverse
    BY <1>2, <1>4 DEF Put
  <1> QED
    BY <1>3, <1>4

\* A strict order of n places puts one of them at every rank.
StrictOrder(n, B) ==
    /\ \A i \in 1 .. n : <<i, i>> \notin B
    /\ \A i, j \in 1 .. n : i # j => <<i, j>> \in B \/ <<j, i>> \in B
    /\ \A i, j, k \in 1 .. n : <<i, j>> \in B /\ <<j, k>> \in B => <<i, k>> \in B
LEMMA Ranking ==
    ASSUME NEW n \in Nat, NEW B, StrictOrder(n, B)
    PROVE  \A r \in 1 .. n : \E i \in 1 .. n : Cardinality({j \in 1 .. n : <<j, i>> \in B}) + 1 = r
  <1> USE DEF StrictOrder
  <1> DEFINE before(i) == {j \in 1 .. n : <<j, i>> \in B}
             f == [i \in 1 .. n |-> Cardinality(before(i)) + 1]
  <1>1. IsFiniteSet(1 .. n) /\ Cardinality(1 .. n) = n
    BY FS_Interval
  <1>2. \A i \in 1 .. n : before(i) \in SUBSET (1 .. n) /\ i \notin before(i)
    OBVIOUS
  <1>3. ASSUME NEW i \in 1 .. n, NEW k \in 1 .. n, <<i, k>> \in B
        PROVE  before(i) \in SUBSET before(k) /\ i \in before(k)
    BY <1>3
  <1> HIDE DEF before
  <1>4. ASSUME NEW i \in 1 .. n
        PROVE  IsFiniteSet(before(i)) /\ Cardinality(before(i)) \in Nat /\ Cardinality(before(i)) < n
    <2>1. IsFiniteSet(before(i)) /\ Cardinality(before(i)) <= n /\ Cardinality(before(i)) # n
      <3>1. before(i) \in SUBSET (1 .. n) /\ before(i) # 1 .. n
        BY <1>2
      <3> QED
        BY <1>1, <3>1, FS_Subset
    <2>2. Cardinality(before(i)) \in Nat
      BY <2>1, FS_CardinalityType
    <2> QED
      BY <2>1, <2>2
  <1>5. f \in Injection(1 .. n, 1 .. n)
    <2>1. f \in [1 .. n -> 1 .. n]
      BY <1>4
    <2>2. ASSUME NEW i \in 1 .. n, NEW k \in 1 .. n, f[i] = f[k] PROVE i = k
      <3>1. Cardinality(before(i)) = Cardinality(before(k))
        BY <1>4, <2>2
      <3>2. \A a, b \in 1 .. n : <<a, b>> \in B => Cardinality(before(a)) # Cardinality(before(b))
        <4> SUFFICES ASSUME NEW a \in 1 .. n, NEW b \in 1 .. n, <<a, b>> \in B
                     PROVE  Cardinality(before(a)) # Cardinality(before(b))
          OBVIOUS
        <4>1. before(a) \in SUBSET before(b) /\ before(a) # before(b) /\ IsFiniteSet(before(b))
          BY <1>2, <1>3, <1>4
        <4> QED
          BY <4>1, FS_Subset
      <3> QED
        BY <3>1, <3>2
    <2> QED
      BY <2>1, <2>2 DEF Injection, IsInjective
  <1>6. f \in Surjection(1 .. n, 1 .. n)
    BY <1>1, <1>5, FS_Injection
  <1>7. \A r \in 1 .. n : \E i \in 1 .. n : Cardinality(before(i)) + 1 = r
    <2>1. \A r \in 1 .. n : \E i \in 1 .. n : f[i] = r
      <3> HIDE DEF f
      <3> QED
        BY <1>6 DEF Surjection
    <2> QED
      BY <2>1
  <1> QED
    BY <1>7 DEF before

\* Where slices.SortStableFunc takes its items from: every place once, and in order.
SortedBy(s, p) ==
    /\ p \in [1 .. Len(s) -> 1 .. Len(s)]
    /\ Sorted(s) \in Seq(Item) /\ Len(Sorted(s)) = Len(s)
    /\ \A r \in 1 .. Len(s) : Sorted(s)[r] = s[p[r]]
    /\ \A i \in 1 .. Len(s) : \E r \in 1 .. Len(s) : p[r] = i
    /\ \A q, r \in 1 .. Len(s) : q < r =>
          /\ p[q] # p[r]
          /\ Put(s[p[q]], s[p[r]]) < 0 \/ (Put(s[p[q]], s[p[r]]) = 0 /\ p[q] < p[r])
LEMMA SortedPlaces ==
    ASSUME NEW s \in Seq(Item)
    PROVE  \E p : SortedBy(s, p)
  <1> DEFINE n == Len(s)
             before(i, j) == Put(s[i], s[j]) < 0 \/ (Put(s[i], s[j]) = 0 /\ i < j)
             rank(i) == Cardinality({j \in 1 .. n : before(j, i)}) + 1
             at(r) == CHOOSE i \in 1 .. n : rank(i) = r
  <1>1. n \in Nat /\ DOMAIN s = 1 .. n /\ \A i \in 1 .. n : s[i] \in Item
    OBVIOUS
  <1>2. Sorted(s) = [r \in 1 .. n |-> s[at(r)]]
    BY <1>1 DEF Sorted, StableSorted, Put
  <1>3. /\ \A i \in 1 .. n : ~before(i, i)
        /\ \A i, j \in 1 .. n : i # j => before(i, j) \/ before(j, i)
        /\ \A i, j, k \in 1 .. n : before(i, j) /\ before(j, k) => before(i, k)
    <2> DEFINE c(i, j) == Put(s[i], s[j])
    <2>1. \A i, j, k \in 1 .. n : /\ c(i, j) \in Int
                                  /\ c(i, j) < 0 <=> c(j, i) > 0
                                  /\ c(i, k) < 0 => c(i, j) < 0 \/ c(j, k) < 0
      BY <1>1, PutOrder
    <2>2. \A i, j \in 1 .. n : before(i, j) <=> c(i, j) < 0 \/ (c(i, j) = 0 /\ i < j)
      OBVIOUS
    <2> HIDE DEF c, before
    <2>3. \A i \in 1 .. n : ~before(i, i)
      BY <2>1, <2>2
    <2>4. \A i, j \in 1 .. n : i # j => before(i, j) \/ before(j, i)
      BY <2>1, <2>2
    <2>5. ASSUME NEW i \in 1 .. n, NEW j \in 1 .. n, NEW k \in 1 .. n, before(i, j), before(j, k)
          PROVE  before(i, k)
      <3>1. /\ c(i, j) \in Int /\ c(j, i) \in Int /\ c(j, k) \in Int /\ c(k, j) \in Int
            /\ c(i, k) \in Int /\ c(k, i) \in Int
            /\ c(i, j) < 0 <=> c(j, i) > 0
            /\ c(j, i) < 0 <=> c(i, j) > 0
            /\ c(j, k) < 0 <=> c(k, j) > 0
            /\ c(k, j) < 0 <=> c(j, k) > 0
            /\ c(k, i) < 0 <=> c(i, k) > 0
        BY <2>1
      <3>2. /\ c(k, i) < 0 => c(k, j) < 0 \/ c(j, i) < 0
            /\ c(i, j) < 0 => c(i, k) < 0 \/ c(k, j) < 0
            /\ c(j, k) < 0 => c(j, i) < 0 \/ c(i, k) < 0
        BY <2>1
      <3>3. /\ c(i, j) < 0 \/ (c(i, j) = 0 /\ i < j)
            /\ c(j, k) < 0 \/ (c(j, k) = 0 /\ j < k)
        BY <2>2, <2>5
      <3>4. c(i, k) < 0 \/ (c(i, k) = 0 /\ i < k)
        BY <3>1, <3>2, <3>3
      <3> QED
        BY <2>2, <3>4
    <2> QED
      BY <2>3, <2>4, <2>5
  <1>4. \A r \in 1 .. n : \E i \in 1 .. n : rank(i) = r
    <2> DEFINE B == {p \in (1 .. n) \X (1 .. n) : before(p[1], p[2])}
    <2>1. \A i, j \in 1 .. n : <<i, j>> \in B <=> before(i, j)
      OBVIOUS
    <2> HIDE DEF before, B
    <2>2. \A r \in 1 .. n : \E i \in 1 .. n : Cardinality({j \in 1 .. n : <<j, i>> \in B}) + 1 = r
      <3>1. StrictOrder(n, B)
        BY <1>3, <2>1 DEF StrictOrder
      <3> HIDE DEF n
      <3> QED
        BY <1>1, <3>1, Ranking
    <2>3. \A i \in 1 .. n : {j \in 1 .. n : <<j, i>> \in B} = {j \in 1 .. n : before(j, i)}
      BY <2>1
    <2> QED
      BY <2>2, <2>3
  <1>5. \A r \in 1 .. n : at(r) \in 1 .. n /\ rank(at(r)) = r
    <2> HIDE DEF rank
    <2> QED
      BY <1>4
  <1>6. \A i \in 1 .. n : \E r \in 1 .. n : at(r) = i
    <2> DEFINE f == [r \in 1 .. n |-> at(r)]
    <2> HIDE DEF rank
    <2>1. f \in [1 .. n -> 1 .. n] /\ \A r \in 1 .. n : f[r] = at(r)
      BY <1>5
    <2>2. \A q, r \in 1 .. n : f[q] = f[r] => q = r
      BY <1>5, <2>1
    <2>3. f \in Injection(1 .. n, 1 .. n)
      BY <2>1, <2>2 DEF Injection, IsInjective
    <2>4. IsFiniteSet(1 .. n)
      BY <1>1, FS_Interval
    <2>5. f \in Surjection(1 .. n, 1 .. n)
      BY <2>3, <2>4, FS_Injection
    <2> QED
      BY <2>1, <2>5 DEF Surjection
  <1>7. Sorted(s) \in Seq(Item) /\ Len(Sorted(s)) = n /\ \A r \in 1 .. n : Sorted(s)[r] = s[at(r)]
    <2> HIDE DEF at, rank
    <2>1. Sorted(s) \in [1 .. n -> Item]
      BY <1>1, <1>2, <1>5
    <2> QED
      BY <1>1, <1>2, <2>1
  <1>8. ASSUME NEW q \in 1 .. n, NEW r \in 1 .. n, q < r
        PROVE  at(q) # at(r) /\ before(at(q), at(r))
    <2>1. at(q) \in 1 .. n /\ at(r) \in 1 .. n /\ rank(at(q)) = q /\ rank(at(r)) = r
      <3> HIDE DEF at, rank
      <3> QED
        BY <1>5
    <2>2. at(q) # at(r)
      <3> HIDE DEF at, rank
      <3> QED
        BY <1>8, <2>1
    <2>3. PICK i \in 1 .. n, k \in 1 .. n : i = at(q) /\ k = at(r)
      BY <2>1
    <2>4. ~before(k, i)
      <3> SUFFICES ASSUME before(k, i) PROVE FALSE
        OBVIOUS
      <3> DEFINE below(x) == {j \in 1 .. n : before(j, x)}
      <3>1. below(k) \in SUBSET below(i) /\ below(i) \in SUBSET (1 .. n)
        <4> HIDE DEF before
        <4> QED
          BY <1>3
      <3>2. /\ Cardinality(below(k)) <= Cardinality(below(i))
            /\ Cardinality(below(k)) \in Nat /\ Cardinality(below(i)) \in Nat
        <4> HIDE DEF below
        <4>1. IsFiniteSet(1 .. n)
          BY <1>1, FS_Interval
        <4>2. IsFiniteSet(below(i)) /\ IsFiniteSet(below(k))
          BY <3>1, <4>1, FS_Subset
        <4> QED
          BY <3>1, <4>2, FS_Subset, FS_CardinalityType
      <3>3. Cardinality(below(i)) + 1 = q /\ Cardinality(below(k)) + 1 = r
        <4> HIDE DEF at, before
        <4> QED
          BY <2>1, <2>3
      <3> HIDE DEF below, before
      <3> QED
        BY <1>8, <3>2, <3>3
    <2> HIDE DEF before, at, rank
    <2> QED
      BY <1>3, <2>2, <2>3, <2>4
  <1> HIDE DEF at, rank
  <1>9. PICK p : p = [r \in 1 .. n |-> at(r)]
    OBVIOUS
  <1>10. p \in [1 .. n -> 1 .. n] /\ \A r \in 1 .. n : p[r] = at(r)
    BY <1>5, <1>9
  <1>11. \A r \in 1 .. n : Sorted(s)[r] = s[p[r]]
    BY <1>7, <1>10
  <1>12. \A i \in 1 .. n : \E r \in 1 .. n : p[r] = i
    BY <1>6, <1>10
  <1>13. \A q, r \in 1 .. n : q < r => p[q] # p[r] /\ before(p[q], p[r])
    <2> HIDE DEF before
    <2> QED
      BY <1>8, <1>10
  <1>14. SortedBy(s, p)
    BY <1>7, <1>10, <1>11, <1>12, <1>13, Zenon DEF SortedBy
  <1> QED
    BY <1>14

\* slices.SortStableFunc loses nothing and invents nothing.
THEOREM SortedSame ==
    ASSUME NEW s \in Seq(Item)
    PROVE  Sorted(s) \in Seq(Item) /\ Shown(Sorted(s)) = Shown(s)
  <1>1. PICK p : SortedBy(s, p)
    BY SortedPlaces
  <1>2. /\ p \in [1 .. Len(s) -> 1 .. Len(s)]
        /\ Sorted(s) \in Seq(Item) /\ Len(Sorted(s)) = Len(s)
        /\ \A r \in 1 .. Len(s) : Sorted(s)[r] = s[p[r]]
        /\ \A i \in 1 .. Len(s) : \E r \in 1 .. Len(s) : p[r] = i
    BY <1>1, Zenon DEF SortedBy
  <1>3. PICK n, t : n = Len(s) /\ t = Sorted(s)
    OBVIOUS
  <1>4. /\ p \in [1 .. n -> 1 .. n] /\ \A i \in 1 .. n : \E r \in 1 .. n : p[r] = i
        /\ Len(t) = n /\ \A r \in 1 .. n : t[r] = s[p[r]]
    BY <1>2, <1>3, Zenon
  <1>5. Shown(t) = {t[r].entry : r \in 1 .. n} /\ Shown(s) = {s[i].entry : i \in 1 .. n}
    BY <1>3, <1>4, Zenon DEF Shown
  <1>6. Shown(t) = Shown(s)
    <2>1. ASSUME NEW r \in 1 .. n PROVE t[r].entry \in Shown(s)
      <3>1. p[r] \in 1 .. n /\ t[r] = s[p[r]]
        BY <1>4
      <3> QED
        BY <1>5, <3>1
    <2>2. ASSUME NEW i \in 1 .. n PROVE s[i].entry \in Shown(t)
      <3>1. PICK r \in 1 .. n : p[r] = i
        BY <1>4
      <3>2. t[r] = s[i]
        BY <1>4, <3>1
      <3> QED
        BY <1>5, <3>2
    <2> QED
      BY <1>5, <2>1, <2>2
  <1> QED
    BY <1>2, <1>3, <1>6, Zenon

-----------------------------------------------------------------------------
(* The files of a buffer.                                                  *)

\* A file more at the end.
LEMMA OneMore ==
    ASSUME NEW s \in Seq(Item), NEW x \in Item
    PROVE  /\ Append(s, x) \in Seq(Item) /\ Shown(Append(s, x)) = Shown(s) \cup {x.entry}
           /\ EntriesOf(s) \in Seq(Entry) /\ x.entry \in Entry
           /\ EntriesOf(Append(s, x)) = Append(EntriesOf(s), x.entry)
           /\ Last(Append(s, x)) = x /\ Append(s, x) # s
  <1>1. x.entry \in Entry /\ Len(s) \in Nat /\ \A i \in 1 .. Len(s) : s[i].entry \in Entry
    <2>1. Len(s) \in Nat /\ \A i \in 1 .. Len(s) : s[i] \in Item
      OBVIOUS
    <2> QED
      BY <2>1 DEF Item
  <1>2. PICK t : t = Append(s, x)
    OBVIOUS
  <1>3. /\ t \in Seq(Item) /\ Len(t) = Len(s) + 1 /\ t[Len(s) + 1] = x
        /\ \A i \in 1 .. Len(s) : t[i] = s[i]
    BY <1>2
  <1>4. Shown(t) = Shown(s) \cup {x.entry}
    BY <1>1, <1>3 DEF Shown
  <1>5. /\ EntriesOf(s) = [k \in 1 .. Len(s) |-> s[k].entry]
        /\ EntriesOf(t) = [k \in 1 .. Len(s) + 1 |-> t[k].entry]
    BY <1>1, <1>3 DEF EntriesOf
  <1>6. EntriesOf(s) \in Seq(Entry) /\ EntriesOf(t) \in Seq(Entry)
    BY <1>1, <1>3, <1>5, SMTT(30)
  <1>7. EntriesOf(t) = Append(EntriesOf(s), x.entry)
    BY <1>1, <1>3, <1>5, <1>6
  <1>8. Last(t) = x /\ t # s
    BY <1>1, <1>3 DEF Last
  <1> QED
    BY <1>1, <1>2, <1>3, <1>4, <1>6, <1>7, <1>8

\* emitSorted takes the first file off.
LEMMA OneLess ==
    ASSUME NEW s \in Seq(Item), s # << >>
    PROVE  /\ Tail(s) \in Seq(Item) /\ Head(s) \in Item
           /\ Shown(s) = Shown(Tail(s)) \cup {Head(s).entry}
  <1>1. /\ Tail(s) \in Seq(Item) /\ Head(s) \in Item /\ Head(s) = s[1]
        /\ Len(s) \in Nat \ {0} /\ Len(Tail(s)) = Len(s) - 1
        /\ \A i \in 1 .. Len(s) - 1 : Tail(s)[i] = s[i + 1]
    BY EmptySeq
  <1>2. ASSUME NEW i \in 1 .. Len(s) PROVE i = 1 \/ (i - 1 \in 1 .. Len(s) - 1 /\ s[i] = Tail(s)[i - 1])
    BY <1>1
  <1>3. Shown(s) \subseteq Shown(Tail(s)) \cup {Head(s).entry}
    BY <1>1, <1>2 DEF Shown
  <1>4. Shown(Tail(s)) \subseteq Shown(s)
    BY <1>1 DEF Shown
  <1>5. Head(s).entry \in Shown(s)
    BY <1>1 DEF Shown
  <1> QED
    BY <1>1, <1>3, <1>4, <1>5

LEMMA NothingShown == Shown(<< >>) = {} /\ EntriesOf(<< >>) = << >>
  BY DEF Shown, EntriesOf

-----------------------------------------------------------------------------
(* What a step of the worker does to what was visited, read and given up.  *)

\* A visit counts one entry, and gives up at most that one.
LEMMA VisitFound ==
    ASSUME PInv, StartRoot(W) \/ VisitEntry(W)
    PROVE  \E e \in Entry : /\ visits' = [visits EXCEPT ![e] = @ + 1] /\ reads' = reads
                            /\ dropped' \subseteq dropped \cup {e} /\ pc[W] = "dir"
  <1>1. TypeOK /\ Control /\ RootSet \subseteq Entry
    BY AheadRoots DEF PInv, IInv
  <1>2. CASE StartRoot(W)
    BY <1>1, <1>2 DEF StartRoot, StartsAt, Visited
  <1>3. CASE VisitEntry(W)
    <2>1. PICK R : R = Ahead
      OBVIOUS
    <2>2. TInv(R)
      BY <2>1 DEF PInv
    <2>3. PICK e \in Entry : /\ reads' = reads /\ visits[e] = 0 /\ visits' = [visits EXCEPT ![e] = 1]
                             /\ dropped' \subseteq dropped \cup {e}
      BY <1>1, <1>3, <2>2, VisitKeeps
    <2>4. visits' = [visits EXCEPT ![e] = @ + 1]
      BY <1>1, <2>3 DEF TypeOK
    <2>5. pc[W] = "dir"
      BY <1>3 DEF VisitEntry
    <2> QED
      BY <2>3, <2>4, <2>5
  <1> QED
    BY <1>2, <1>3

\* What is pruned, unreadable or read is a directory.
LEMMA DirFound ==
    ASSUME PInv
    PROVE  /\ PruneForeign(W) =>
                \E d \in Entry : /\ Kind[d] = "dir" /\ pc[W] = "dir" /\ d \in Foreign
                                 /\ UNCHANGED <<visits, reads, asked>> /\ dropped' = dropped \cup {d}
           /\ OpenFails(W) =>
                \E d \in Entry : /\ Kind[d] = "dir" /\ pc[W] = "dir" /\ reads' = reads
                                 /\ visits' = visits \/ visits' = [visits EXCEPT ![d] = @ + 1]
                                 /\ asked => asked'
           /\ ReadDir(W) =>
                \E d \in Entry : /\ Kind[d] = "dir" /\ pc[W] = "dir" /\ UNCHANGED <<dropped, asked>>
                                 /\ visits' = visits \/ visits' = [visits EXCEPT ![d] = @ + 1]
                                 /\ reads' = [reads EXCEPT ![d] = @ + 1]
  <1>1. TypeOK /\ Control /\ W \in Workers
    BY Lone DEF PInv, IInv
  <1>2. PICK R : R = Ahead
    OBVIOUS
  <1>3. TInv(R)
    BY <1>2 DEF PInv
  <1>4. \A d \in Entry : StartsAt(W, d) /\ d \notin RootSet => Kind[d] = "dir"
    BY <1>1, <1>3, StartingTask DEF Pending
  <1>5. ASSUME PruneForeign(W)
        PROVE  \E d \in Entry : /\ Kind[d] = "dir" /\ pc[W] = "dir" /\ d \in Foreign
                                /\ UNCHANGED <<visits, reads, asked>> /\ dropped' = dropped \cup {d}
    <2>1. PICK d \in Foreign \ RootSet :
             /\ StartsAt(W, d) /\ asked' = asked /\ dropped' = dropped \cup {d} /\ UNCHANGED <<visits, reads>>
      BY <1>5 DEF PruneForeign, ReturnEarly
    <2>2. d \in Entry /\ pc[W] = "dir"
      BY <2>1, TreeAssumption DEF StartsAt
    <2> QED
      BY <1>4, <2>1, <2>2
  <1>6. ASSUME OpenFails(W)
        PROVE  \E d \in Entry : /\ Kind[d] = "dir" /\ pc[W] = "dir" /\ reads' = reads
                                /\ visits' = visits \/ visits' = [visits EXCEPT ![d] = @ + 1]
                                /\ asked => asked'
    BY <1>4, <1>6 DEF OpenFails, Descended, StartsAt, Visited, StopWalk, ReturnEarly
  <1>7. ASSUME ReadDir(W)
        PROVE  \E d \in Entry : /\ Kind[d] = "dir" /\ pc[W] = "dir" /\ UNCHANGED <<dropped, asked>>
                                /\ visits' = visits \/ visits' = [visits EXCEPT ![d] = @ + 1]
                                /\ reads' = [reads EXCEPT ![d] = @ + 1]
    BY <1>4, <1>7 DEF ReadDir, Descended, StartsAt, Visited
  <1> QED
    BY <1>5, <1>6, <1>7

\* Only an entry that is a file is found.
LEMMA FoundMore ==
    ASSUME TypeOK, NEW e \in Entry, visits' = visits \/ visits' = [visits EXCEPT ![e] = @ + 1]
    PROVE  Found' = Found \cup {x \in {e} : IsFile(x) /\ visits' # visits}
  <1>1. \A x \in Entry : /\ x # e => visits'[x] = visits[x]
                         /\ visits' # visits => visits'[e] = visits[e] + 1
                         /\ visits[x] \in Nat
    BY DEF TypeOK
  <1>2. visits' # visits => visits'[e] > 0
    BY <1>1
  <1>3. \A x \in Entry : IsFile(x)' = IsFile(x)
    BY DEF IsFile
  <1> QED
    BY <1>1, <1>2, <1>3 DEF Found

-----------------------------------------------------------------------------
(* Nothing is lost between the walk and the Visitor.                       *)

Grows == got' = got \/ \E x \in Item : got' = Append(got, x)

\* What becomes of an entry that was visited.
Passes(e) ==
    \/ ~IsFile(e) /\ UNCHANGED <<items, got>>
    \/ /\ IsFile(e) /\ sort = "none" /\ items' = items
       /\ \E x \in Item : x.entry = e /\ got' = Append(got, x)
    \/ /\ IsFile(e) /\ sort # "none" /\ got' = got
       /\ \E x \in Item : x.entry = e /\ items' = Append(items, x)
LEMMA VisitPasses ==
    ASSUME PInv, Visit
    PROVE  \E e \in Entry :
             /\ visits' = [visits EXCEPT ![e] = @ + 1] /\ reads' = reads
             /\ dropped' \subseteq dropped \cup {e} /\ order' = Append(order, e)
             /\ visits'[e] # visits[e]
             /\ obliging => GoesOn(e)
             /\ errors' = errors + 1 \/ (errors' = errors /\ Kind[e] # "invalid")
             /\ Passes(e)
             /\ phase = "walk" /\ UNCHANGED <<sorting, pass, phase, emit>>
  <1>1. TypeOK /\ Phases
    BY DEF PInv, IInv
  <1>2. PICK e \in Entry : /\ visits' = [visits EXCEPT ![e] = @ + 1] /\ reads' = reads
                           /\ dropped' \subseteq dropped \cup {e} /\ pc[W] = "dir"
    BY VisitFound DEF Visit
  <1>3. visits'[e] # visits[e] /\ \A x \in Entry : visits'[x] # visits[x] => x = e
    BY <1>1, <1>2 DEF TypeOK
  <1>4. /\ order' = Append(order, e)
        /\ obliging => GoesOn(e)
        /\ IF Kind[e] = "invalid" THEN errors' = errors + 1 /\ UNCHANGED <<items, got>>
           ELSE Meets(e) /\ UNCHANGED errors
        /\ UNCHANGED <<sorting, pass, phase, emit>>
    BY <1>3 DEF Visit
  <1>5. phase = "walk"
    BY <1>1, <1>2 DEF Phases
  <1>6. Passes(e)
    <2>1. CASE Kind[e] = "invalid"
      BY <1>4, <2>1 DEF Passes, IsFile
    <2>2. CASE Kind[e] # "invalid" /\ ~IsFile(e)
      BY <1>4, <2>2 DEF Passes, Meets
    <2>3. CASE Kind[e] # "invalid" /\ IsFile(e) /\ sort = "none"
      <3>1. [entry |-> e, time |-> None] \in Item
        BY DEF Item
      <3> QED
        BY <1>4, <2>3, <3>1 DEF Passes, Meets, Give
    <2>4. CASE Kind[e] # "invalid" /\ IsFile(e) /\ sort # "none"
      <3>1. PICK t \in Times \cup {None} : items' = Append(items, [entry |-> e, time |-> t])
        BY <1>4, <2>4 DEF Meets, Collect
      <3>2. [entry |-> e, time |-> t] \in Item
        BY DEF Item
      <3> QED
        BY <1>4, <2>4, <3>1, <3>2 DEF Passes, Meets
    <2> QED
      BY <2>1, <2>2, <2>3, <2>4
  <1> QED
    BY <1>2, <1>3, <1>4, <1>5, <1>6

\* A file that is visited is given, or waits in the buffer.
LEMMA VisitKept ==
    ASSUME PInv, WInv, Visit
    PROVE  WInv' /\ Grows /\ phase = "walk"
  <1> USE DEF WInv
  <1>1. TypeOK
    BY DEF PInv, IInv
  <1>2. PICK e \in Entry : /\ visits' = [visits EXCEPT ![e] = @ + 1] /\ reads' = reads
                           /\ dropped' \subseteq dropped \cup {e} /\ visits'[e] # visits[e]
                           /\ obliging => GoesOn(e)
                           /\ errors' = errors + 1 \/ (errors' = errors /\ Kind[e] # "invalid")
                           /\ Passes(e)
                           /\ phase = "walk" /\ UNCHANGED <<sorting, pass, phase, emit>>
    BY VisitPasses
  <1>3. Found' = Found \cup {x \in {e} : IsFile(x)}
    BY <1>1, <1>2, FoundMore
  <1>4. Grows
    BY <1>2 DEF Passes, Grows
  <1>5. /\ items' \in Seq(Item) /\ got' \in Seq(Item) /\ emit' = emit
        /\ Shown(got') \cup Shown(items') = Shown(got) \cup Shown(items) \cup {x \in {e} : IsFile(x)}
        /\ sort = "none" => items' = items
    <2>1. items \in Seq(Item) /\ got \in Seq(Item) /\ emit' = emit
      BY <1>2 DEF WalkTypes
    <2>2. ASSUME NEW x \in Item, IsFile(e), items' = items, x.entry = e, got' = Append(got, x)
          PROVE  got' \in Seq(Item) /\ Shown(got') = Shown(got) \cup {e}
      BY <2>1, <2>2, OneMore
    <2>3. ASSUME NEW x \in Item, IsFile(e), got' = got, x.entry = e, items' = Append(items, x)
          PROVE  items' \in Seq(Item) /\ Shown(items') = Shown(items) \cup {e}
      BY <2>1, <2>3, OneMore
    <2>4. CASE IsFile(e)
      <3>1. {x \in {e} : IsFile(x)} = {e}
        BY <2>4
      <3> QED
        BY <1>2, <2>1, <2>2, <2>3, <2>4, <3>1 DEF Passes
    <2>5. CASE ~IsFile(e)
      BY <1>2, <2>1, <2>5 DEF Passes
    <2> QED
      BY <2>4, <2>5
  <1>6. errors' \in Nat /\ (errors' = 0 => errors = 0 /\ Kind[e] # "invalid")
    BY <1>2 DEF WalkTypes
  <1>7. WalkTypes' /\ Obliging'
    BY <1>2, <1>5, <1>6 DEF WalkTypes, Obliging, GoesOn, sorting
  <1>8. Met'
    BY <1>2, <1>3, <1>5 DEF Met, sorting
  <1>9. Buffers'
    BY <1>2, <1>5 DEF Buffers, Returns, sorting
  <1>10. Honest'
    BY <1>2, <1>6 DEF Honest, GoesOn, sorting
  <1> QED
    BY <1>2, <1>4, <1>7, <1>8, <1>9, <1>10

\* A step that finds no file and gives up nothing without an error keeps the invariant.
LEMMA NoFileFound ==
    ASSUME WInv, UNCHANGED <<sorting, pass, phase, buffers, got>>,
           Found' = Found, obliging => asked' = asked, asked => asked',
           \/ errors' = errors /\ \A e \in dropped' : e \in dropped \/ (Kind[e] = "dir" /\ e \in Foreign)
           \/ errors' = errors + 1,
           \A e \in Entry : reads'[e] > 0 => reads[e] > 0 \/ Kind[e] = "dir"
    PROVE  WInv' /\ Grows
  <1>1. UNCHANGED <<sort, reverse, obliging, pass, phase, items, emit, got>>
    BY DEF sorting, buffers
  <1>2. WalkTypes' /\ Obliging'
    BY <1>1 DEF WInv, WalkTypes, Obliging, LastPass
  <1>3. Met' /\ Buffers'
    BY <1>1 DEF WInv, Met, Buffers, Returns
  <1>4. Honest'
    BY <1>1 DEF WInv, WalkTypes, Honest
  <1> QED
    BY <1>1, <1>2, <1>3, <1>4 DEF WInv, Grows

\* Directories are read, pruned or reported; the loop goes on.
LEMMA WalkKept ==
    ASSUME PInv, WInv, Report \/ Read \/ Proceed
    PROVE  WInv' /\ Grows /\ phase = "walk"
  <1>1. TypeOK /\ Phases /\ W \in Workers
    BY Lone DEF PInv, IInv
  <1>2. UNCHANGED <<sorting, pass, phase, buffers, got>>
    BY DEF Report, Read, Proceed, seen
  <1>3. CASE (LoopStep(W) \/ EndOfDir(W)) /\ errors' = errors
    <2>1. UNCHANGED <<visits, reads, dropped, asked>> /\ pc[W] # "done"
      BY <1>1, <1>3, LoopSilent DEF EndOfDir, history
    <2>2. Found' = Found
      BY <2>1 DEF Found, IsFile
    <2>3. WInv' /\ Grows
      <3>1. /\ obliging => asked' = asked
            /\ asked => asked'
            /\ \A e \in dropped' : e \in dropped \/ (Kind[e] = "dir" /\ e \in Foreign)
            /\ \A e \in Entry : reads'[e] > 0 => reads[e] > 0 \/ Kind[e] = "dir"
        BY <2>1
      <3> QED
        BY <1>2, <1>3, <2>2, <3>1, NoFileFound, Zenon
    <2> QED
      BY <1>1, <2>1, <2>3 DEF Phases
  <1>4. ASSUME NEW d \in Entry, Kind[d] = "dir", pc[W] = "dir",
               visits' = visits \/ visits' = [visits EXCEPT ![d] = @ + 1],
               reads' = reads \/ reads' = [reads EXCEPT ![d] = @ + 1],
               obliging => asked' = asked, asked => asked',
               \/ errors' = errors /\ dropped' \subseteq dropped \cup (Foreign \cap {d})
               \/ errors' = errors + 1
        PROVE  WInv' /\ Grows /\ phase = "walk"
    <2>1. Found' = Found \cup {x \in {d} : IsFile(x) /\ visits' # visits}
      BY <1>1, <1>4, FoundMore
    <2>2. Found' = Found
      BY <1>4, <2>1 DEF IsFile
    <2>3. \A e \in Entry : reads'[e] > 0 => reads[e] > 0 \/ Kind[e] = "dir"
      BY <1>1, <1>4 DEF TypeOK
    <2>4. \/ errors' = errors /\ \A e \in dropped' : e \in dropped \/ (Kind[e] = "dir" /\ e \in Foreign)
          \/ errors' = errors + 1
      BY <1>4
    <2>5. WInv' /\ Grows
      BY <1>2, <1>4, <2>2, <2>3, <2>4, NoFileFound, Zenon
    <2> QED
      BY <1>1, <1>4, <2>5 DEF Phases
  <1>5. CASE PruneForeign(W) /\ errors' = errors
    BY <1>4, <1>5, DirFound
  <1>6. CASE ReadDir(W) /\ errors' = errors
    BY <1>4, <1>6, DirFound
  <1>7. CASE OpenFails(W) /\ (obliging => asked' = asked) /\ errors' = errors + 1
    BY <1>4, <1>7, DirFound
  <1> QED
    BY <1>3, <1>5, <1>6, <1>7 DEF Report, Read, Proceed, seen

\* The buffer is sorted, nothing else of it changed, and the next root's pass begins.
LEMMA PassKept ==
    ASSUME PInv, WInv, EndOfPass
    PROVE  WInv' /\ Grows /\ phase = "walk"
  <1>1. Phases /\ phase = "walk" /\ UNCHANGED <<sort, reverse, obliging, got, errors>>
    BY DEF PInv, EndOfPass, sorting, seen
  <1>2. UNCHANGED <<visits, reads, dropped, asked>>
    BY DEF EndOfPass, StartPass, vars, history
  <1>3. Found' = Found /\ Honest'
    BY <1>1, <1>2 DEF WInv, Found, IsFile, Honest
  <1>4. CASE (asked \/ sort = "none") /\ phase' = "over" /\ UNCHANGED <<pass, buffers>>
    <2>1. WalkTypes' /\ Obliging'
      BY <1>1, <1>2, <1>4 DEF WInv, WalkTypes, Obliging, LastPass, Phases, buffers
    <2>2. Met' /\ Buffers'
      BY <1>1, <1>2, <1>3, <1>4 DEF WInv, Met, Buffers, Returns, buffers
    <2> QED
      BY <1>1, <1>3, <2>1, <2>2 DEF WInv, Grows
  <1>5. CASE phase' = phase /\ UNCHANGED buffers
    <2>1. WalkTypes' /\ Obliging'
      BY <1>1, <1>2, <1>5 DEF WInv, WalkTypes, Obliging, LastPass, buffers
    <2>2. Met' /\ Buffers'
      BY <1>1, <1>3, <1>5 DEF WInv, Met, Buffers, Returns, buffers
    <2> QED
      BY <1>1, <1>3, <2>1, <2>2 DEF WInv, Grows
  <1>6. CASE sort # "none" /\ emit' = Sorted(items) /\ items' = << >> /\ phase' = "emit"
    <2>1. /\ emit' \in Seq(Item) /\ items' \in Seq(Item)
          /\ Shown(emit') = Shown(items) /\ Shown(items') = {}
      BY <1>6, SortedSame, NothingShown DEF WInv, WalkTypes
    <2>2. WalkTypes' /\ Obliging'
      BY <1>1, <1>2, <1>6, <2>1 DEF WInv, WalkTypes, Obliging
    <2>3. Shown(emit) = {}
      BY <1>1, NothingShown DEF WInv, Buffers
    <2>4. Met' /\ Buffers'
      BY <1>1, <1>3, <1>6, <2>1, <2>3 DEF WInv, Met, Buffers, Returns
    <2> QED
      BY <1>1, <1>3, <2>2, <2>4 DEF WInv, Grows
  <1> QED
    BY <1>1, <1>4, <1>5, <1>6 DEF EndOfPass

\* The Visitor is given the next file.
LEMMA EmitKept ==
    ASSUME PInv, WInv, Emit
    PROVE  WInv' /\ Grows /\ phase = "emit"
  <1>1. /\ phase = "emit" /\ emit # << >> /\ got' = Append(got, Head(emit)) /\ emit' = Tail(emit)
        /\ asked' \in {FALSE, ~obliging}
        /\ UNCHANGED <<sort, reverse, obliging, pass, phase, items, errors, visits, reads, dropped>>
    BY DEF Emit, Give, sorting
  <1>2. Found' = Found /\ Honest'
    BY <1>1 DEF WInv, Found, IsFile, Honest
  <1>3. /\ emit' \in Seq(Item) /\ Head(emit) \in Item
        /\ Shown(emit) = Shown(emit') \cup {Head(emit).entry}
    BY <1>1, OneLess DEF WInv, WalkTypes
  <1>4. got' \in Seq(Item) /\ Shown(got') = Shown(got) \cup {Head(emit).entry}
    BY <1>1, <1>3, OneMore DEF WInv, WalkTypes
  <1>5. WalkTypes' /\ Obliging'
    BY <1>1, <1>3, <1>4 DEF WInv, WalkTypes, Obliging
  <1>6. Met' /\ Buffers'
    BY <1>1, <1>2, <1>3, <1>4 DEF WInv, Met, Buffers, Returns
  <1> QED
    BY <1>1, <1>2, <1>3, <1>5, <1>6 DEF WInv, Grows

\* After the last file the next root is walked, or the walk is over.
LEMMA EmitOver ==
    ASSUME PInv, WInv, EndOfEmit
    PROVE  WInv' /\ Grows /\ phase = "emit"
  <1>1. /\ phase = "emit" /\ (emit = << >> \/ asked)
        /\ UNCHANGED <<sort, reverse, obliging, items, emit, got, errors>>
        /\ \/ (asked \/ LastPass) /\ phase' = "over" /\ pass' = pass
           \/ ~asked /\ phase' = "walk"
    BY DEF EndOfEmit, sorting, buffers, seen
  <1>2. UNCHANGED <<visits, reads, dropped, asked>>
    BY DEF EndOfEmit, StartPass, vars, history
  <1>3. Found' = Found /\ Honest'
    BY <1>1, <1>2 DEF WInv, Found, IsFile, Honest
  <1>4. WalkTypes' /\ Obliging'
    BY <1>1, <1>2 DEF WInv, WalkTypes, Obliging, LastPass
  <1>5. Met' /\ Buffers'
    BY <1>1, <1>2, <1>3 DEF WInv, Met, Buffers, Returns
  <1> QED
    BY <1>1, <1>3, <1>4, <1>5 DEF WInv, Grows

-----------------------------------------------------------------------------
(* Nothing is lost between the Visitor and the output.                     *)

\* Moving the border between two parts of a sequence moves nothing.
LEMMA Regroup ==
    ASSUME NEW a \in Seq(Entry), NEW b \in Seq(Entry), NEW c \in Seq(Entry), NEW x \in Entry
    PROVE  /\ a \o b \o Append(c, x) = Append(a \o b \o c, x)
           /\ c # << >> => a \o Append(b, Head(c)) \o Tail(c) = a \o b \o c
           /\ (a \o b) \o << >> \o c = a \o b \o c
  <1>1. a \o b \o Append(c, x) = Append(a \o b \o c, x)
    OBVIOUS
  <1>2. ASSUME c # << >> PROVE a \o Append(b, Head(c)) \o Tail(c) = a \o b \o c
    <2>1. PICK h, t, d : h = Head(c) /\ t = Tail(c) /\ d = Append(b, h)
      OBVIOUS
    <2>2. h \in Entry /\ t \in Seq(Entry) /\ d \in Seq(Entry) /\ d \o t = b \o c
      BY <1>2, <2>1
    <2>3. \A u, v, w \in Seq(Entry) : (u \o v) \o w = u \o (v \o w)
      BY ConcatAssociative, SMTT(30)
    <2>4. a \o d \o t = a \o (d \o t) /\ a \o b \o c = a \o (b \o c)
      BY <2>2, <2>3, Zenon
    <2> QED
      BY <2>1, <2>2, <2>4
  <1>3. (a \o b) \o << >> \o c = a \o b \o c
    OBVIOUS
  <1> QED
    BY <1>1, <1>2, <1>3

\* The channel, the batch and the output together always hold what was given.
LEMMA StepOutputs ==
    ASSUME PInv, WInv, OInv, [FilesNext]_filesVars, WInv'
    PROVE  OInv'
  <1> USE DEF OInv
  <1>1. Outputs /\ Piped /\ Ended
    OBVIOUS
  <1>2. CASE Walking
    <2>1. /\ phase # "over" /\ Grows /\ obliging' = obliging
          /\ UNCHANGED <<quiet, closed, buf, printer, written, exit>>
      BY <1>2, VisitKept, WalkKept, PassKept, EmitKept, EmitOver
         DEF Walking, WalkStep, Visit, Report, Read, Proceed, EndOfPass, Emit, EndOfEmit, sorting
    <2>2. ~closed /\ exit = None /\ printer # "done"
      BY <2>1 DEF Ended
    <2>3. Ended'
      BY <2>1, <2>2 DEF Ended
    <2>4. Printing' = Printing
      BY <2>1 DEF Printing
    <2>5. CASE UNCHANGED channel /\ (got' = got \/ ~Printing)
      BY <2>1, <2>3, <2>4, <2>5 DEF Outputs, Piped, EntriesOf
    <2>6. CASE got' # got /\ Printing /\ channel' = Append(channel, Last(got').entry)
      <3>1. PICK x \in Item : got' = Append(got, x)
        BY <2>1, <2>6 DEF Grows
      <3>2. /\ x.entry \in Entry /\ Last(got') = x
            /\ EntriesOf(got') = Append(EntriesOf(got), x.entry)
        BY <3>1, OneMore DEF WInv, WalkTypes
      <3>3. channel' = Append(channel, x.entry) /\ channel' \in Seq(Entry)
        BY <2>6, <3>2 DEF Outputs
      <3>4. written \o buf \o channel' = Append(written \o buf \o channel, x.entry)
        BY <3>2, <3>3, Regroup DEF Outputs
      <3>5. Piped'
        BY <2>1, <2>6, <3>2, <3>4 DEF Piped
      <3> QED
        BY <2>1, <2>3, <3>3, <3>5 DEF Outputs
    <2> QED
      BY <1>2, <2>5, <2>6 DEF Walking, Send
  <1>3. CASE WritePath
    <2>1. /\ Printing /\ printer = "reading" /\ channel # << >> /\ channel' = Tail(channel)
          /\ \/ written' = written \o Append(buf, Head(channel)) /\ buf' = << >>
             \/ buf' = Append(buf, Head(channel)) /\ written' = written
          /\ UNCHANGED <<walkVars, quiet, closed, printer, exit>>
      BY <1>3 DEF WritePath
    <2>2. UNCHANGED <<obliging, phase, got, errors>>
      BY <2>1 DEF walkVars, sorting, seen
    <2>3. PICK b : b = Append(buf, Head(channel))
      OBVIOUS
    <2>4. b \in Seq(Entry) /\ channel' \in Seq(Entry) /\ written \o b \in Seq(Entry)
      BY <2>1, <2>3 DEF Outputs
    <2>5. written \o b \o channel' = written \o buf \o channel
      <3>1. /\ written \in Seq(Entry) /\ buf \in Seq(Entry) /\ channel \in Seq(Entry)
            /\ Head(channel) \in Entry
        BY <2>1, EmptySeq DEF Outputs
      <3> QED
        BY <2>1, <2>3, <3>1, Regroup
    <2>6. (written \o b) \o << >> \o channel' = written \o b \o channel'
      BY <2>4, Regroup, TreeAssumption DEF Outputs
    <2>7. Outputs'
      <3>1. written' \in Seq(Entry) /\ buf' \in Seq(Entry)
        <4>1. written \in Seq(Entry) /\ << >> \in Seq(Entry)
          BY DEF Outputs
        <4>2. (written' = written \o b /\ buf' = << >>) \/ (buf' = b /\ written' = written)
          BY <2>1, <2>3
        <4> QED
          BY <2>4, <4>1, <4>2
      <3> QED
        BY <2>1, <2>4, <3>1 DEF Outputs
    <2>8. Piped'
      BY <2>1, <2>2, <2>3, <2>5, <2>6 DEF Piped, Printing, EntriesOf
    <2>9. Ended'
      BY <2>1, <2>2 DEF Ended, ExitCode, Printing
    <2> QED
      BY <2>7, <2>8, <2>9
  <1>4. CASE Drained
    <2>1. /\ Printing /\ printer = "reading" /\ channel = << >> /\ closed
          /\ written' = written \o buf /\ buf' = << >> /\ printer' = "done"
          /\ UNCHANGED <<walkVars, quiet, channel, closed, exit>>
      BY <1>4 DEF Drained
    <2>2. UNCHANGED <<obliging, phase, got, errors>>
      BY <2>1 DEF walkVars, sorting, seen
    <2>3. written \o buf \in Seq(Entry) /\ (written \o buf) \o << >> \o channel' = written \o buf \o channel
      BY <2>1 DEF Outputs
    <2>4. Outputs'
      BY <2>1, <2>3 DEF Outputs
    <2>5. Piped'
      BY <2>1, <2>2, <2>3 DEF Piped, Printing, EntriesOf
    <2>6. Ended'
      BY <2>1, <2>2 DEF Ended, ExitCode, Printing
    <2> QED
      BY <2>4, <2>5, <2>6
  <1>5. CASE Close
    <2>1. /\ phase = "over" /\ Printing /\ ~closed /\ closed' = TRUE
          /\ UNCHANGED <<walkVars, quiet, channel, buf, printer, written, exit>>
      BY <1>5 DEF Close
    <2>2. UNCHANGED <<obliging, phase, got, errors>>
      BY <2>1 DEF walkVars, sorting, seen
    <2>3. closed' \in BOOLEAN
      BY <2>1, Zenon
    <2>4. Outputs' /\ Piped'
      BY <2>1, <2>2, <2>3 DEF Outputs, Piped, Printing, EntriesOf
    <2>5. Ended'
      BY <2>1, <2>2 DEF Ended, ExitCode, Printing
    <2> QED
      BY <2>4, <2>5
  <1>6. CASE Exit
    <2>1. /\ phase = "over" /\ exit' = ExitCode /\ (Printing => closed /\ printer = "done")
          /\ UNCHANGED <<walkVars, quiet, output>>
      BY <1>6 DEF Exit
    <2>2. UNCHANGED <<obliging, phase, got, errors, channel, closed, buf, printer, written>>
      BY <2>1 DEF walkVars, sorting, seen, output
    <2>3. Outputs' /\ Piped'
      BY <2>1, <2>2 DEF Outputs, Piped, Printing, EntriesOf
    <2>4. Ended'
      BY <2>1, <2>2 DEF Ended, ExitCode, Printing
    <2> QED
      BY <2>3, <2>4
  <1>7. CASE UNCHANGED filesVars
    <2>1. UNCHANGED <<obliging, phase, got, errors, quiet, channel, closed, buf, printer, written, exit>>
      BY <1>7 DEF filesVars, walkVars, sorting, seen, output
    <2> QED
      BY <2>1 DEF Outputs, Piped, Ended, Printing, EntriesOf, ExitCode
  <1> QED
    BY <1>2, <1>3, <1>4, <1>5, <1>6, <1>7 DEF FilesNext, Finished

\* Nothing is found yet.
LEMMA InitFInv == FilesInit => FInv
  <1> SUFFICES ASSUME FilesInit PROVE FInv
    OBVIOUS
  <1>1. /\ items = << >> /\ emit = << >> /\ got = << >> /\ errors = 0 /\ phase = "walk"
        /\ sort \in {"none", "path", "time"} /\ reverse \in BOOLEAN /\ obliging \in BOOLEAN
        /\ quiet \in BOOLEAN /\ channel = << >> /\ closed = FALSE /\ buf = << >>
        /\ printer = "reading" /\ written = << >> /\ exit = None
    BY DEF FilesInit, WalkInit
  <1>2. /\ \A e \in Entry : visits[e] = 0 /\ reads[e] = 0
        /\ dropped = {} /\ asked = FALSE
    BY DEF FilesInit, WalkInit, Init, FirstRoot!Init
  <1>3. Found = {}
    BY <1>2 DEF Found
  <1>4. WalkTypes
    BY <1>1 DEF WalkTypes
  <1>5. Obliging /\ Met /\ Buffers
    BY <1>1, <1>2, <1>3, NothingShown DEF Obliging, Met, Buffers, Returns
  <1>6. Honest
    BY <1>1, <1>2 DEF Honest
  <1>7. closed \in BOOLEAN
    BY <1>1, Zenon
  <1>8. Outputs
    BY <1>1, <1>7 DEF Outputs
  <1>9. Piped
    <2>1. << >> \o << >> \o << >> = << >>
      OBVIOUS
    <2> QED
      BY <1>1, <2>1, NothingShown DEF Piped
  <1>10. Ended
    BY <1>1 DEF Ended
  <1> QED
    BY <1>4, <1>5, <1>6, <1>8, <1>9, <1>10 DEF FInv, WInv, OInv

\* A step of the walk keeps both halves; one of the printer, of the end or of exit the walk's.
LEMMA StepFInv == PInv /\ FInv /\ [FilesNext]_filesVars => FInv'
  <1> SUFFICES ASSUME PInv, FInv, [FilesNext]_filesVars PROVE FInv'
    OBVIOUS
  <1>1. ASSUME Walking PROVE WInv'
    BY <1>1, VisitKept, WalkKept, PassKept, EmitKept, EmitOver DEF Walking, WalkStep, FInv
  <1>2. ASSUME UNCHANGED walkVars PROVE WInv'
    <2>1. UNCHANGED <<sorting, pass, phase, buffers, got, errors, visits, reads, dropped, asked>>
      BY <1>2 DEF walkVars, seen, vars, history
    <2>2. Found' = Found
      BY <2>1 DEF Found, IsFile
    <2> QED
      BY <2>1, <2>2, NoFileFound DEF FInv
  <1>3. WInv'
    BY <1>1, <1>2 DEF FInv, FilesNext, WritePath, Drained, Close, Exit, Finished, filesVars
  <1> QED
    BY <1>3, StepOutputs DEF FInv

\* The invariant of gg --files holds throughout, with that of the walk below it.
THEOREM FilesInductive == FilesSpec => [](PInv /\ FInv)
  BY InitPInv, StepPInv, InitFInv, StepFInv, PTL DEF FilesSpec

\* What the two invariants say of the end: the walk is complete and its files are out.
LEMMA AllWritten == PInv /\ FInv => PathsAllWritten
  <1> SUFFICES ASSUME PInv, FInv PROVE PathsAllWritten
    OBVIOUS
  <1> USE DEF FInv, WInv, OInv
  <1>1. Printing => written \o buf \o channel = EntriesOf(got)
    BY DEF Piped
  <1>2. ASSUME exit # None, Printing PROVE written = EntriesOf(got)
    <2>1. channel = << >> /\ buf = << >>
      BY <1>2 DEF Ended
    <2>2. written \o << >> \o << >> = written
      BY DEF Outputs
    <2> QED
      BY <1>1, <1>2, <2>1, <2>2
  <1>3. ASSUME exit # None, obliging, ~quiet, exit < 2
        PROVE  /\ \A e \in Entry : visits[e] > 0 /\ Kind[e] = "dir" => reads[e] > 0 \/ e \in Foreign
               /\ \A e \in RootSet : Kind[e] # "invalid"
               /\ ToSet(written) = {e \in Entry : visits[e] > 0 /\ IsFile(e)}
               /\ exit = 1 <=> written = << >>
    <2>1. phase = "over" /\ exit = ExitCode /\ Printing /\ written = EntriesOf(got)
      BY <1>2, <1>3 DEF Ended, Printing
    <2>2. /\ errors = 0
          /\ exit = 1 <=> got = << >>
      BY <1>3, <2>1 DEF ExitCode, WalkTypes
    <2>3. TypeOK /\ ReadFirst /\ RootSet \subseteq Entry /\ ~asked /\ pc[W] = "done" /\ LastPass
      BY <1>3, <2>1, AheadRoots DEF PInv, IInv, TInv, Phases, Obliging
    <2>4. \A e \in Entry : Whole!Available(e) => Status[e] \in {"listed", "closed"}
      BY <2>3, AllFound DEF Whole!Complete
    <2>5. ASSUME NEW e \in Entry, e \in RootSet \/ visits[e] > 0
          PROVE  reads[e] > 0 \/ e \in dropped
      <3>1. \A d \in Entry : reads[d] > 0 => Status[d] = "listed"
        BY <2>3, StatusValue
      <3>2. Whole!Available(e)
        BY <2>3, <2>5, <3>1 DEF ReadFirst, Whole!Available
      <3>3. Status[e] \in {"listed", "closed"}
        BY <2>4, <3>2
      <3> QED
        BY <2>3, <3>3, StatusValue DEF TypeOK
    <2>6. \A e \in dropped : Kind[e] # "invalid" /\ (Kind[e] = "dir" => e \in Foreign)
      BY <1>3, <2>2 DEF Honest
    <2>7. \A e \in Entry : reads[e] > 0 => Kind[e] = "dir"
      BY DEF Honest
    <2>8. Shown(got) = {e \in Entry : visits[e] > 0 /\ IsFile(e)}
      <3>1. items = << >> /\ emit = << >>
        BY <1>3, <2>1 DEF Buffers, Obliging, Returns
      <3> QED
        BY <1>3, <3>1, NothingShown DEF Met, Found
    <2>9. got \in Seq(Item) /\ EntriesOf(got) = [k \in 1 .. Len(got) |-> got[k].entry] /\ Len(got) \in Nat
      BY DEF WalkTypes, EntriesOf
    <2>10. ToSet(written) = Shown(got)
      BY <2>1, <2>9 DEF ToSet, Shown
    <2>11. written = << >> <=> got = << >>
      BY <2>1, <2>9, NothingShown, EmptySeq
    <2> QED
      BY <2>2, <2>3, <2>5, <2>6, <2>7, <2>8, <2>10, <2>11
  <1> QED
    BY <1>1, <1>2, <1>3 DEF PathsAllWritten

\* A path the Visitor sent is never lost, doubled or moved, for a channel and a batch of
\* any size, and the exit code of gg --files tells the truth about the listing.
THEOREM EveryPathWritten == FilesSpec => []PathsAllWritten
  BY FilesInductive, AllWritten, PTL

-----------------------------------------------------------------------------
(* The order of discovery.                                                 *)

\* Of two entries that were visited, the one that was found first.
Before(e, f) == \E i, j \in 1 .. Len(order) : i < j /\ order[i] = e /\ order[j] = f

\* Pairs of files: different ones, ones in the order of discovery, ones in the order asked for.
Differ == {p \in Item \X Item : p[1].entry # p[2].entry}
After == {p \in Item \X Item : Before(p[1].entry, p[2].entry)}
Ranks == {p \in Item \X Item : Put(p[1], p[2]) < 0 \/ (Put(p[1], p[2]) = 0 /\ p \in After)}

Along(s, R) == \A i, j \in 1 .. Len(s) : i < j => <<s[i], s[j]>> \in R
Between(s, t, R) == \A i \in 1 .. Len(s), j \in 1 .. Len(t) : <<s[i], t[j]>> \in R

\* No entry is visited twice, and the history has them all.
History ==
    /\ order \in Seq(Entry) /\ NoRepeat(order)
    /\ \A e \in Entry : visits[e] > 0 <=> e \in Elements(order)

\* A root that was visited is not a task any more.
RootsLeft == \A d \in RootSet : visits[d] > 0 => reads[d] > 0 \/ d \in dropped

FirstVisit(e) == visits[e] = 0 /\ visits' = [visits EXCEPT ![e] = @ + 1]
Extends == \/ UNCHANGED <<visits, order>>
           \/ \E e \in Entry : FirstVisit(e) /\ order' = Append(order, e)

\* A root is only visited by its task.
LEMMA FreshRoot ==
    ASSUME PInv, RootsLeft, NEW d \in RootSet, StartsAt(W, d)
    PROVE  visits[d] = 0 /\ d \in Entry
  <1>1. TypeOK /\ Control /\ W \in Workers /\ d \in Entry
    BY Lone, AheadRoots DEF PInv, IInv
  <1>2. PICK R : R = Ahead
    OBVIOUS
  <1>3. TInv(R)
    BY <1>2 DEF PInv
  <1>4. Pending(d)
    BY <1>1, <1>3, StartingTask
  <1>5. visits[d] \in Nat /\ reads[d] = 0
    BY <1>1, <1>4 DEF TypeOK, Pending
  <1> QED
    BY <1>1, <1>4, <1>5 DEF Pending, RootsLeft

\* So every visit is the first.
LEMMA VisitedOnce ==
    ASSUME PInv, RootsLeft,
           \/ StartRoot(W) \/ VisitEntry(W) \/ PruneForeign(W) \/ OpenFails(W) \/ ReadDir(W)
    PROVE  RootsLeft' /\ (visits' = visits \/ \E e \in Entry : FirstVisit(e))
  <1>1. TypeOK /\ RootSet \subseteq Entry
    BY AheadRoots DEF PInv, IInv
  <1>2. ASSUME NEW d \in RootSet, StartsAt(W, d), visits' = [visits EXCEPT ![d] = @ + 1],
               reads' = reads, dropped' = dropped \cup {d}
        PROVE  RootsLeft' /\ \E e \in Entry : FirstVisit(e)
    <2>1. FirstVisit(d) /\ d \in Entry
      BY <1>2, FreshRoot DEF FirstVisit
    <2>2. \A r \in RootSet : r # d => visits'[r] = visits[r]
      BY <1>1, <1>2 DEF TypeOK
    <2> QED
      BY <1>2, <2>1, <2>2 DEF RootsLeft
  <1>3. CASE StartRoot(W)
    BY <1>2, <1>3 DEF StartRoot, Visited
  <1>4. CASE VisitEntry(W)
    <2>1. PICK R : R = Ahead
      OBVIOUS
    <2>2. TypeOK /\ Control /\ TInv(R)
      BY <2>1 DEF PInv, IInv
    <2>3. PICK e \in Entry \ RootSet :
             /\ reads' = reads /\ visits[e] = 0 /\ visits' = [visits EXCEPT ![e] = 1]
             /\ dropped \subseteq dropped'
      BY <1>4, <2>2, VisitKeeps
    <2>4. FirstVisit(e)
      BY <1>1, <2>3 DEF FirstVisit, TypeOK
    <2>5. \A r \in RootSet : visits'[r] = visits[r]
      BY <1>1, <2>3 DEF TypeOK
    <2> QED
      BY <2>3, <2>4, <2>5 DEF RootsLeft
  <1>5. CASE PruneForeign(W)
    BY <1>5 DEF PruneForeign, RootsLeft
  <1>6. CASE OpenFails(W)
    <2>1. PICK d \in Entry : Descended(W, d) /\ dropped' = dropped \cup {d} /\ reads' = reads
      BY <1>6 DEF OpenFails
    <2>2. CASE d \in RootSet
      BY <1>2, <2>1, <2>2 DEF Descended, Visited
    <2>3. CASE d \notin RootSet
      BY <2>1, <2>3 DEF Descended, RootsLeft
    <2> QED
      BY <2>2, <2>3
  <1>7. CASE ReadDir(W)
    <2>1. PICK d \in Entry : Descended(W, d) /\ dropped' = dropped /\ reads' = [reads EXCEPT ![d] = @ + 1]
      BY <1>7 DEF ReadDir
    <2>2. \A e \in Entry : /\ reads[e] > 0 => reads'[e] > 0
                           /\ reads'[d] > 0
      BY <1>1, <2>1 DEF TypeOK
    <2>3. CASE d \in RootSet
      <3>1. FirstVisit(d) /\ \A r \in RootSet : r # d => visits'[r] = visits[r]
        BY <1>1, <2>1, <2>3, FreshRoot DEF Descended, Visited, FirstVisit, TypeOK
      <3> QED
        BY <1>1, <2>1, <2>2, <3>1 DEF RootsLeft
    <2>4. CASE d \notin RootSet
      BY <1>1, <2>1, <2>2, <2>4 DEF Descended, RootsLeft
    <2> QED
      BY <2>3, <2>4
  <1> QED
    BY <1>3, <1>4, <1>5, <1>6, <1>7

\* The sequence of an empty set, and of a set of one element.
LEMMA OneSeq ==
    ASSUME NEW S, NEW x
    PROVE  SetToSeq({}) = << >> /\ SetToSeq({x}) = <<x>>
  <1>1. SetToSeq({}) = << >>
    <2>1. Cardinality({}) = 0
      BY FS_EmptySet
    <2>2. << >> \in [1 .. 0 -> {}]
      <3>1. << >> \in Seq({}) /\ Len(<< >>) = 0
        OBVIOUS
      <3> QED
        BY <3>1, LenProperties
    <2>3. ASSUME NEW f \in [1 .. 0 -> {}] PROVE f = << >>
      <3>1. f \in Seq({}) /\ Len(f) = 0
        OBVIOUS
      <3> QED
        BY <3>1, EmptySeq
    <2>4. IsInjective(<< >>)
      BY DEF IsInjective
    <2> QED
      BY <2>1, <2>2, <2>3, <2>4 DEF SetToSeq
  <1>2. SetToSeq({x}) = <<x>>
    <2>1. Cardinality({x}) = 1
      BY FS_Singleton
    <2>2. <<x>> \in [1 .. 1 -> {x}]
      <3>1. <<x>> \in Seq({x}) /\ Len(<<x>>) = 1
        OBVIOUS
      <3> QED
        BY <3>1
    <2>3. ASSUME NEW f \in [1 .. 1 -> {x}] PROVE f = <<x>>
      <3>1. f \in Seq({x}) /\ Len(f) = 1 /\ f[1] = x
        OBVIOUS
      <3> QED
        BY <3>1
    <2>4. IsInjective(<<x>>)
      BY DEF IsInjective
    <2> QED
      BY <2>1, <2>2, <2>3, <2>4 DEF SetToSeq
  <1> QED
    BY <1>1, <1>2

\* The history grows by what is visited, one entry at a time.
LEMMA StepExtends ==
    ASSUME PInv, RootsLeft, History, WalkStep
    PROVE  RootsLeft' /\ Extends
  <1>1. TypeOK /\ W \in Workers
    BY Lone DEF PInv, IInv
  <1>2. ASSUME NEW e, NEW d \in Entry, FirstVisit(d), visits'[e] # visits[e], e \in Entry
        PROVE  e = d
    BY <1>1, <1>2 DEF FirstVisit, TypeOK
  <1>3. CASE Visit
    <2>1. PICK e \in Entry : order' = Append(order, e) /\ visits'[e] # visits[e]
      BY <1>3, VisitPasses
    <2>2. RootsLeft' /\ (visits' = visits \/ \E d \in Entry : FirstVisit(d))
      BY <1>3, VisitedOnce DEF Visit
    <2> QED
      BY <1>2, <2>1, <2>2 DEF Extends
  <1>4. CASE Report \/ Read
    <2>1. PICK S : S = {e \in Entry : visits'[e] # visits[e]}
      OBVIOUS
    <2>2. order' = order \o SetToSeq(S)
      BY <1>4, <2>1 DEF Report, Read
    <2>3. RootsLeft' /\ (visits' = visits \/ \E d \in Entry : FirstVisit(d))
      BY <1>4, VisitedOnce DEF Report, Read
    <2>4. CASE visits' = visits
      <3>1. S = {} /\ SetToSeq({}) = << >>
        BY <2>1, <2>4, OneSeq
      <3> QED
        BY <2>2, <2>3, <2>4, <3>1 DEF Extends, History
    <2>5. ASSUME NEW d \in Entry, FirstVisit(d) PROVE Extends
      <3>1. visits'[d] # visits[d]
        BY <1>1, <2>5 DEF FirstVisit, TypeOK
      <3>2. S = {d} /\ SetToSeq({d}) = <<d>>
        BY <1>2, <2>1, <2>5, <3>1, OneSeq
      <3>3. order \o <<d>> = Append(order, d)
        BY DEF History
      <3>4. order' = Append(order, d)
        BY <2>2, <3>2, <3>3, Zenon
      <3> QED
        BY <2>5, <3>4 DEF Extends
    <2> QED
      BY <2>3, <2>4, <2>5
  <1>5. CASE Proceed
    <2>1. order' = order
      BY <1>5 DEF Proceed, seen
    <2>2. CASE LoopStep(W) \/ EndOfDir(W)
      BY <1>1, <2>1, <2>2, LoopSilent DEF EndOfDir, history, Extends, RootsLeft
    <2>3. CASE PruneForeign(W)
      BY <2>1, <2>3, VisitedOnce DEF PruneForeign, Extends
    <2> QED
      BY <1>5, <2>2, <2>3 DEF Proceed
  <1>6. CASE EndOfPass \/ Emit \/ EndOfEmit
    <2>1. UNCHANGED <<visits, reads, dropped>>
      BY <1>6 DEF EndOfPass, Emit, EndOfEmit, StartPass, vars, history
    <2>2. order' = order
      BY <1>6 DEF EndOfPass, Emit, EndOfEmit, seen
    <2> QED
      BY <2>1, <2>2 DEF Extends, RootsLeft
  <1> QED
    BY <1>3, <1>4, <1>5, <1>6 DEF WalkStep

\* What was in the order of discovery stays so, and what is new comes last.
LEMMA ExtendsHistory ==
    ASSUME TypeOK, History, Extends
    PROVE  /\ History' /\ After \in SUBSET After'
           /\ UNCHANGED <<sort, reverse>> => Ranks \in SUBSET Ranks'
           /\ \A e \in Entry : FirstVisit(e) => \A f \in Entry : visits[f] > 0 => Before(f, e)'
  <1>1. CASE UNCHANGED <<visits, order>>
    <2>1. \A e \in Entry : ~FirstVisit(e)
      BY <1>1 DEF FirstVisit, TypeOK
    <2>2. History' /\ After' = After
      BY <1>1 DEF History, After, Before
    <2>3. UNCHANGED <<sort, reverse>> => Ranks' = Ranks
      BY <2>2 DEF Ranks, Put, Compare
    <2> QED
      BY <2>1, <2>2, <2>3
  <1>2. ASSUME NEW e \in Entry, FirstVisit(e), order' = Append(order, e)
        PROVE  /\ History' /\ After \in SUBSET After'
               /\ UNCHANGED <<sort, reverse>> => Ranks \in SUBSET Ranks'
               /\ \A d \in Entry : FirstVisit(d) => \A f \in Entry : visits[f] > 0 => Before(f, d)'
    <2>1. PICK n \in Nat : n = Len(order)
      BY DEF History
    <2>2. /\ order' \in Seq(Entry) /\ Len(order') = n + 1 /\ order'[n + 1] = e
          /\ \A i \in 1 .. n : order'[i] = order[i]
      BY <1>2, <2>1 DEF History
    <2>3. \A i \in 1 .. n + 1 : i \in 1 .. n \/ i = n + 1
      BY <2>1
    <2>4. visits[e] = 0 /\ visits'[e] = 1 /\ \A f \in Entry : f # e => visits'[f] = visits[f]
      BY <1>2 DEF FirstVisit, TypeOK
    <2>5. \A i \in 1 .. n : order[i] # e
      BY <2>1, <2>4 DEF History, Elements
    <2>6. History'
      <3>1. NoRepeat(order')
        BY <2>1, <2>2, <2>3, <2>5 DEF History, NoRepeat
      <3>2. Elements(order') = Elements(order) \cup {e}
        BY <2>1, <2>2, <2>3 DEF Elements
      <3> QED
        BY <2>2, <2>4, <3>1, <3>2 DEF History
    <2>7. \A f, g : Before(f, g) => Before(f, g)'
      <3> SUFFICES ASSUME NEW f, NEW g, Before(f, g) PROVE Before(f, g)'
        OBVIOUS
      <3>1. PICK i, j \in 1 .. n : i < j /\ order[i] = f /\ order[j] = g
        BY <2>1 DEF Before
      <3>2. i \in 1 .. n + 1 /\ j \in 1 .. n + 1
        BY <2>1, <3>1
      <3> QED
        BY <2>2, <3>1, <3>2 DEF Before
    <2>8. After \in SUBSET After'
      BY <2>7 DEF After
    <2>9. UNCHANGED <<sort, reverse>> => Ranks \in SUBSET Ranks'
      BY <2>8 DEF Ranks, Put, Compare
    <2>10. ASSUME NEW d \in Entry, FirstVisit(d), NEW f \in Entry, visits[f] > 0 PROVE Before(f, d)'
      <3>1. d = e
        BY <1>2, <2>4, <2>10 DEF FirstVisit, TypeOK
      <3>2. PICK i \in 1 .. n : order[i] = f
        BY <2>1, <2>10 DEF History, Elements
      <3>3. i \in 1 .. n + 1 /\ n + 1 \in 1 .. n + 1 /\ i < n + 1
        BY <2>1, <3>2
      <3> QED
        BY <2>2, <3>1, <3>2, <3>3 DEF Before
    <2> QED
      BY <2>6, <2>8, <2>9, <2>10
  <1> QED
    BY <1>1, <1>2 DEF Extends

-----------------------------------------------------------------------------
(* Each file is given once and, sorted by time, in its place.              *)

Once ==
    /\ Along(got, Differ) /\ Along(emit, Differ) /\ Along(items, Differ)
    /\ Shown(got) \cap Shown(emit) = {}
    /\ (Shown(got) \cup Shown(emit)) \cap Shown(items) = {}

\* The times are sorted in one piece: what was given is before what is still to be given.
Timed == sort = "time" =>
    /\ phase = "walk" => got = << >>
    /\ phase = "emit" => LastPass
    /\ Along(items, After) /\ Along(got, Ranks) /\ Along(emit, Ranks)
    /\ Between(got, emit, Ranks)

HInv == RootsLeft /\ History /\ Once /\ Timed

LEMMA AlongMore ==
    ASSUME NEW s, NEW t, NEW R, NEW Q, R \in SUBSET Q
    PROVE  /\ Along(s, R) => Along(s, Q)
           /\ Between(s, t, R) => Between(s, t, Q)
  BY DEF Along, Between

LEMMA AlongNothing ==
    ASSUME NEW R, NEW s
    PROVE  Along(<< >>, R) /\ Between(<< >>, s, R) /\ Between(s, << >>, R)
  BY DEF Along, Between

\* A file more at the end.
LEMMA AlongAppend ==
    ASSUME NEW s \in Seq(Item), NEW x \in Item, NEW R, Along(s, R),
           \A i \in 1 .. Len(s) : <<s[i], x>> \in R
    PROVE  Along(Append(s, x), R)
  <1>1. PICK t : t = Append(s, x)
    OBVIOUS
  <1>2. /\ Len(s) \in Nat /\ Len(t) = Len(s) + 1 /\ t[Len(s) + 1] = x
        /\ \A i \in 1 .. Len(s) : t[i] = s[i]
    BY <1>1
  <1>3. ASSUME NEW i \in 1 .. Len(t), NEW j \in 1 .. Len(t), i < j PROVE <<t[i], t[j]>> \in R
    <2>1. i \in 1 .. Len(s) /\ (j \in 1 .. Len(s) \/ j = Len(s) + 1)
      BY <1>2, <1>3
    <2>2. CASE j = Len(s) + 1
      BY <1>2, <2>1, <2>2
    <2>3. CASE j \in 1 .. Len(s)
      BY <1>2, <1>3, <2>1, <2>3 DEF Along
    <2> QED
      BY <2>1, <2>2, <2>3
  <1> QED
    BY <1>1, <1>3 DEF Along

\* The first file of t becomes the last of s.
LEMMA BetweenMoves ==
    ASSUME NEW s \in Seq(Item), NEW t \in Seq(Item), t # << >>, NEW R,
           Along(s, R), Along(t, R), Between(s, t, R)
    PROVE  /\ Along(Append(s, Head(t)), R) /\ Along(Tail(t), R)
           /\ Between(Append(s, Head(t)), Tail(t), R)
  <1>1. PICK h, u : h = Head(t) /\ u = Tail(t)
    OBVIOUS
  <1>2. /\ Len(t) \in Nat \ {0} /\ h \in Item /\ h = t[1] /\ u \in Seq(Item)
        /\ Len(u) = Len(t) - 1 /\ \A i \in 1 .. Len(u) : u[i] = t[i + 1]
    BY <1>1, EmptySeq
  <1>3. 1 \in 1 .. Len(t) /\ \A i \in 1 .. Len(u) : i + 1 \in 1 .. Len(t) /\ 1 < i + 1
    BY <1>2
  <1>4. Along(Append(s, h), R)
    <2>1. \A i \in 1 .. Len(s) : <<s[i], h>> \in R
      BY <1>2, <1>3 DEF Between
    <2> QED
      BY <1>2, <2>1, AlongAppend
  <1>5. Along(u, R)
    <2>1. \A i, j \in 1 .. Len(u) : i < j => i + 1 < j + 1
      BY <1>2
    <2> QED
      BY <1>2, <1>3, <2>1 DEF Along
  <1>6. Between(Append(s, h), u, R)
    <2>1. PICK v : v = Append(s, h)
      OBVIOUS
    <2>2. /\ Len(s) \in Nat /\ Len(v) = Len(s) + 1 /\ v[Len(s) + 1] = h
          /\ \A i \in 1 .. Len(s) : v[i] = s[i]
      BY <1>2, <2>1
    <2>3. ASSUME NEW i \in 1 .. Len(v), NEW j \in 1 .. Len(u) PROVE <<v[i], u[j]>> \in R
      <3>1. i \in 1 .. Len(s) \/ i = Len(s) + 1
        BY <2>2
      <3>2. CASE i \in 1 .. Len(s)
        BY <1>2, <1>3, <2>2, <3>2 DEF Between
      <3>3. CASE i = Len(s) + 1
        BY <1>2, <1>3, <2>2, <3>3 DEF Along
      <3> QED
        BY <3>1, <3>2, <3>3
    <2> QED
      BY <2>1, <2>3 DEF Between
  <1> QED
    BY <1>1, <1>4, <1>5, <1>6

LEMMA DifferShown ==
    ASSUME NEW s \in Seq(Item), NEW t \in Seq(Item), NEW x \in Item
    PROVE  /\ Between(s, t, Differ) <=> Shown(s) \cap Shown(t) = {}
           /\ x.entry \notin Shown(s) => \A i \in 1 .. Len(s) : <<s[i], x>> \in Differ
  <1>1. /\ \A i \in 1 .. Len(s) : s[i] \in Item
        /\ \A i \in 1 .. Len(t) : t[i] \in Item
    OBVIOUS
  <1>2. \A a, b \in Item : <<a, b>> \in Differ <=> a.entry # b.entry
    BY DEF Differ
  <1>3. Between(s, t, Differ) <=> \A i \in 1 .. Len(s), j \in 1 .. Len(t) : s[i].entry # t[j].entry
    BY <1>1, <1>2, Zenon DEF Between
  <1>4. Between(s, t, Differ) <=> Shown(s) \cap Shown(t) = {}
    BY <1>3 DEF Shown
  <1>5. x.entry \notin Shown(s) => \A i \in 1 .. Len(s) : <<s[i], x>> \in Differ
    BY <1>1, <1>2 DEF Shown
  <1> QED
    BY <1>4, <1>5

\* A stable sort keeps files of the same time in the order they were found in.
LEMMA AlongSorted ==
    ASSUME NEW s \in Seq(Item)
    PROVE  /\ Along(s, Differ) => Along(Sorted(s), Differ)
           /\ Along(s, After) => Along(Sorted(s), Ranks)
  <1>1. PICK p : SortedBy(s, p)
    BY SortedPlaces
  <1>2. PICK n, t : n = Len(s) /\ t = Sorted(s)
    OBVIOUS
  <1>3. n \in Nat /\ \A r \in 1 .. n : s[r] \in Item
    BY <1>2
  <1>4. /\ Len(t) = n /\ p \in [1 .. n -> 1 .. n]
        /\ \A r \in 1 .. n : t[r] = s[p[r]]
        /\ \A q, r \in 1 .. n : q < r =>
              /\ p[q] # p[r]
              /\ Put(s[p[q]], s[p[r]]) < 0 \/ (Put(s[p[q]], s[p[r]]) = 0 /\ p[q] < p[r])
    BY <1>1, <1>2, Zenon DEF SortedBy
  <1>5. ASSUME NEW q \in 1 .. n, NEW r \in 1 .. n, q < r
        PROVE  /\ Along(s, Differ) => <<t[q], t[r]>> \in Differ
               /\ Along(s, After) => <<t[q], t[r]>> \in Ranks
    <2>1. PICK i \in 1 .. n, j \in 1 .. n :
             /\ i # j /\ t[q] = s[i] /\ t[r] = s[j] /\ s[i] \in Item /\ s[j] \in Item
             /\ Put(s[i], s[j]) < 0 \/ (Put(s[i], s[j]) = 0 /\ i < j)
      <3>1. p[q] \in 1 .. n /\ p[r] \in 1 .. n
        BY <1>4
      <3> QED
        BY <1>3, <1>4, <1>5, <3>1
    <2>2. i < j \/ j < i
      BY <1>3, <2>1
    <2>3. \A a, b \in Item : <<a, b>> \in Differ <=> <<b, a>> \in Differ
      BY DEF Differ
    <2>4. Along(s, Differ) => <<s[i], s[j]>> \in Differ
      BY <1>2, <2>1, <2>2, <2>3 DEF Along
    <2>5. Along(s, After) => <<s[i], s[j]>> \in Ranks
      BY <1>2, <2>1 DEF Along, Ranks
    <2> QED
      BY <2>1, <2>4, <2>5
  <1> QED
    BY <1>2, <1>4, <1>5 DEF Along

\* A visit adds a file that is nowhere yet, and that was found last.
LEMMA VisitOrdered ==
    ASSUME PInv, WInv, HInv, Extends, Visit
    PROVE  Once' /\ Timed'
  <1>1. TypeOK /\ Once /\ Timed /\ History /\ Met /\ Buffers
    BY DEF PInv, IInv, HInv, WInv
  <1>2. PICK e \in Entry : /\ visits' = [visits EXCEPT ![e] = @ + 1] /\ visits'[e] # visits[e]
                           /\ Passes(e)
                           /\ phase = "walk" /\ UNCHANGED <<sorting, pass, phase, emit>>
    BY VisitPasses
  <1>3. /\ items \in Seq(Item) /\ got \in Seq(Item) /\ emit \in Seq(Item)
        /\ UNCHANGED <<sort, reverse, phase, emit>> /\ LastPass' = LastPass
    BY <1>2 DEF WInv, WalkTypes, sorting, LastPass
  <1>4. FirstVisit(e)
    BY <1>1, <1>2 DEF Extends, FirstVisit, TypeOK
  <1>5. /\ After \in SUBSET After' /\ Ranks \in SUBSET Ranks'
        /\ \A f \in Entry : visits[f] > 0 => Before(f, e)'
    BY <1>1, <1>3, <1>4, ExtendsHistory
  <1>6. e \notin Shown(got) \cup Shown(items) \cup Shown(emit)
    BY <1>1, <1>4 DEF Met, Found, FirstVisit
  <1>7. Along(items, After) => Along(items, After')
    BY <1>5, AlongMore
  <1>8. /\ Along(got, Ranks) => Along(got, Ranks')
        /\ Along(emit, Ranks) => Along(emit, Ranks')
        /\ Between(got, emit, Ranks) => Between(got, emit, Ranks')
    BY <1>5, AlongMore
  <1>9. CASE UNCHANGED <<items, got>>
    BY <1>1, <1>3, <1>7, <1>8, <1>9 DEF Once, Timed
  <1>10. ASSUME NEW x \in Item, x.entry = e, sort = "none", items' = items, got' = Append(got, x)
         PROVE  Once' /\ Timed'
    <2>1. Along(got', Differ) /\ Shown(got') = Shown(got) \cup {e}
      BY <1>1, <1>3, <1>6, <1>10, DifferShown, AlongAppend, OneMore DEF Once
    <2> QED
      BY <1>1, <1>3, <1>6, <1>10, <2>1 DEF Once, Timed
  <1>11. ASSUME NEW x \in Item, x.entry = e, got' = got, items' = Append(items, x)
         PROVE  Once' /\ Timed'
    <2>1. Along(items', Differ) /\ Shown(items') = Shown(items) \cup {e}
      BY <1>1, <1>3, <1>6, <1>11, DifferShown, AlongAppend, OneMore DEF Once
    <2>2. ASSUME NEW i \in 1 .. Len(items) PROVE <<items[i], x>> \in After'
      <3>1. items[i] \in Item /\ items[i].entry \in Shown(items)
        BY <1>3 DEF Shown
      <3>2. items[i].entry \in Entry /\ visits[items[i].entry] > 0
        BY <1>1, <3>1 DEF Met, Found
      <3>3. Before(items[i].entry, x.entry)'
        BY <1>5, <1>11, <3>2
      <3> QED
        BY <1>11, <3>1, <3>3 DEF After
    <2>3. Along(items, After) => Along(items', After')
      BY <1>3, <1>7, <1>11, <2>2, AlongAppend
    <2> QED
      BY <1>1, <1>3, <1>6, <1>8, <1>11, <2>1, <2>3 DEF Once, Timed
  <1> QED
    BY <1>2, <1>9, <1>10, <1>11 DEF Passes

\* Every other step of the walk leaves the files where they are.
LEMMA QuietOrdered ==
    ASSUME PInv, HInv, Extends, UNCHANGED <<sorting, pass, phase, buffers, got>>
    PROVE  Once' /\ Timed'
  <1>1. TypeOK /\ Once /\ Timed /\ History
    BY DEF PInv, IInv, HInv
  <1>2. UNCHANGED <<sort, reverse, phase, items, emit, got>> /\ LastPass' = LastPass
    BY DEF sorting, buffers, LastPass
  <1>3. After \in SUBSET After' /\ Ranks \in SUBSET Ranks'
    BY <1>1, <1>2, ExtendsHistory
  <1>4. /\ Along(items, After) => Along(items, After')
        /\ Along(got, Ranks) => Along(got, Ranks')
        /\ Along(emit, Ranks) => Along(emit, Ranks')
        /\ Between(got, emit, Ranks) => Between(got, emit, Ranks')
    BY <1>3, AlongMore
  <1> QED
    BY <1>1, <1>2, <1>4 DEF Once, Timed

\* The buffer is sorted when nothing of it was given yet.
LEMMA PassOrdered ==
    ASSUME PInv, WInv, HInv, Extends, EndOfPass
    PROVE  Once' /\ Timed'
  <1>1. TypeOK /\ Once /\ Timed /\ History /\ Buffers /\ phase = "walk" /\ emit = << >>
    BY DEF PInv, IInv, HInv, WInv, Buffers, EndOfPass
  <1>2. /\ UNCHANGED <<sort, reverse, got>>
        /\ items \in Seq(Item) /\ got \in Seq(Item) /\ sort \in {"none", "path", "time"}
    BY DEF EndOfPass, sorting, seen, WInv, WalkTypes
  <1>3. After \in SUBSET After' /\ Ranks \in SUBSET Ranks'
    BY <1>1, <1>2, ExtendsHistory
  <1>4. /\ Along(items, After) => Along(items, After')
        /\ Along(got, Ranks) => Along(got, Ranks')
        /\ Along(emit, Ranks) => Along(emit, Ranks')
        /\ Between(got, emit, Ranks) => Between(got, emit, Ranks')
    BY <1>3, AlongMore
  <1>5. CASE phase' \in {"walk", "over"} /\ UNCHANGED buffers
    BY <1>1, <1>2, <1>4, <1>5 DEF Once, Timed, buffers
  <1>6. CASE /\ sort # "none" /\ (PerRoot \/ LastPass)
             /\ emit' = Sorted(items) /\ items' = << >> /\ phase' = "emit" /\ pass' = pass
    <2>1. /\ Shown(emit') = Shown(items) /\ Shown(items') = {} /\ Along(items', Differ)
          /\ Along(items', After')
      BY <1>2, <1>6, SortedSame, NothingShown, AlongNothing
    <2>2. Along(emit', Differ) /\ (Along(items, After) => Along(emit', Ranks))
      BY <1>1, <1>2, <1>6, AlongSorted DEF Once
    <2>3. Along(emit', Ranks) => Along(emit', Ranks')
      BY <1>3, AlongMore
    <2>4. Once'
      BY <1>1, <1>2, <2>1, <2>2 DEF Once
    <2>5. sort = "time" => LastPass'
      BY <1>6 DEF PerRoot, LastPass
    <2>6. sort = "time" => Between(got', emit', Ranks')
      BY <1>1, <1>2, AlongNothing DEF Timed
    <2> QED
      BY <1>1, <1>2, <1>4, <1>6, <2>1, <2>2, <2>3, <2>4, <2>5, <2>6 DEF Timed
  <1> QED
    BY <1>1, <1>5, <1>6 DEF EndOfPass

\* The next file is given, and the rest still follows it.
LEMMA EmitOrdered ==
    ASSUME PInv, WInv, HInv, Extends, Emit
    PROVE  Once' /\ Timed'
  <1>1. TypeOK /\ Once /\ Timed /\ History
    BY DEF PInv, IInv, HInv
  <1>2. /\ phase = "emit" /\ emit # << >> /\ got' = Append(got, Head(emit)) /\ emit' = Tail(emit)
        /\ UNCHANGED <<sort, reverse, pass, phase, items>> /\ LastPass' = LastPass
        /\ got \in Seq(Item) /\ emit \in Seq(Item)
    BY DEF Emit, Give, sorting, WInv, WalkTypes, LastPass
  <1>3. After \in SUBSET After' /\ Ranks \in SUBSET Ranks'
    BY <1>1, <1>2, ExtendsHistory
  <1>4. Along(got', Differ) /\ Along(emit', Differ) /\ Between(got', emit', Differ)
    <2>1. Between(got, emit, Differ)
      BY <1>1, <1>2, DifferShown, OneLess DEF Once
    <2> QED
      BY <1>1, <1>2, <2>1, BetweenMoves DEF Once
  <1>5. /\ got' \in Seq(Item) /\ emit' \in Seq(Item)
        /\ Shown(got') \cup Shown(emit') = Shown(got) \cup Shown(emit)
    <2>1. PICK x \in Item : x = Head(emit)
      BY <1>2, OneLess
    <2>2. emit' \in Seq(Item) /\ Shown(emit) = Shown(emit') \cup {x.entry}
      BY <1>2, <2>1, OneLess
    <2>3. got' \in Seq(Item) /\ Shown(got') = Shown(got) \cup {x.entry}
      BY <1>2, <2>1, OneMore
    <2> QED
      BY <2>2, <2>3
  <1>6. Once'
    <2>1. PICK x \in Item : x = Head(emit)
      BY <1>2, OneLess
    <2>2. Shown(got') \cap Shown(emit') = {}
      BY <1>4, <1>5, <2>1, DifferShown
    <2> QED
      BY <1>1, <1>2, <1>4, <1>5, <2>2 DEF Once
  <1>7. ASSUME sort = "time"
        PROVE  Along(got', Ranks') /\ Along(emit', Ranks') /\ Between(got', emit', Ranks')
    <2>1. Along(got', Ranks) /\ Along(emit', Ranks) /\ Between(got', emit', Ranks)
      BY <1>1, <1>2, <1>7, BetweenMoves DEF Timed
    <2> QED
      BY <1>3, <2>1, AlongMore
  <1>8. Along(items, After) => Along(items, After')
    BY <1>3, AlongMore
  <1> QED
    BY <1>1, <1>2, <1>6, <1>7, <1>8 DEF Timed

\* Files sorted by time are given after the last root only.
LEMMA EmitOverOrdered ==
    ASSUME PInv, WInv, HInv, Extends, EndOfEmit
    PROVE  Once' /\ Timed'
  <1>1. TypeOK /\ Once /\ Timed /\ History /\ phase = "emit"
    BY DEF PInv, IInv, HInv, EndOfEmit
  <1>2. /\ UNCHANGED <<sort, reverse, items, emit, got>>
        /\ phase' = "over" \/ ~LastPass
    BY DEF EndOfEmit, sorting, buffers, seen
  <1>3. After \in SUBSET After' /\ Ranks \in SUBSET Ranks'
    BY <1>1, <1>2, ExtendsHistory
  <1>4. /\ Along(items, After) => Along(items, After')
        /\ Along(got, Ranks) => Along(got, Ranks')
        /\ Along(emit, Ranks) => Along(emit, Ranks')
        /\ Between(got, emit, Ranks) => Between(got, emit, Ranks')
    BY <1>3, AlongMore
  <1> QED
    BY <1>1, <1>2, <1>4 DEF Once, Timed

LEMMA InitHInv == FilesInit => HInv
  <1> SUFFICES ASSUME FilesInit PROVE HInv
    OBVIOUS
  <1>1. /\ items = << >> /\ emit = << >> /\ got = << >> /\ order = << >> /\ phase = "walk"
        /\ \A e \in Entry : visits[e] = 0
    BY DEF FilesInit, WalkInit, Init, FirstRoot!Init
  <1>2. RootsLeft
    BY <1>1, TreeAssumption DEF RootsLeft, RootSet, Elements
  <1>3. Elements(<< >>) = {} /\ NoRepeat(<< >>)
    BY DEF Elements, NoRepeat
  <1>4. History
    BY <1>1, <1>3 DEF History
  <1>5. Once /\ Timed
    BY <1>1, NothingShown, AlongNothing DEF Once, Timed
  <1> QED
    BY <1>2, <1>4, <1>5 DEF HInv

\* Only the walk's own steps touch what was found and what was given.
LEMMA StepHInv == PInv /\ FInv /\ HInv /\ [FilesNext]_filesVars => HInv'
  <1> SUFFICES ASSUME PInv, FInv, HInv, [FilesNext]_filesVars PROVE HInv'
    OBVIOUS
  <1>1. TypeOK /\ WInv /\ RootsLeft /\ History
    BY DEF PInv, IInv, FInv, HInv
  <1>2. CASE Walking
    <2>1. WalkStep
      BY <1>2 DEF Walking
    <2>2. RootsLeft' /\ Extends
      BY <1>1, <2>1, StepExtends
    <2>3. History'
      BY <1>1, <2>2, ExtendsHistory
    <2>4. ASSUME Report \/ Read \/ Proceed PROVE Once' /\ Timed'
      <3>1. UNCHANGED <<sorting, pass, phase, buffers, got>>
        BY <2>4 DEF Report, Read, Proceed, seen
      <3> QED
        BY <2>2, <3>1, QuietOrdered
    <2>5. Once' /\ Timed'
      BY <1>1, <2>1, <2>2, <2>4, VisitOrdered, PassOrdered, EmitOrdered, EmitOverOrdered DEF WalkStep
    <2> QED
      BY <2>2, <2>3, <2>5 DEF HInv
  <1>3. CASE UNCHANGED walkVars
    <2>1. UNCHANGED <<sorting, pass, phase, buffers, got, order, visits, reads, dropped>>
      BY <1>3 DEF walkVars, seen, vars, history
    <2>2. RootsLeft' /\ Extends
      BY <1>1, <2>1 DEF RootsLeft, Extends
    <2>3. History' /\ Once' /\ Timed'
      BY <1>1, <2>1, <2>2, ExtendsHistory, QuietOrdered
    <2> QED
      BY <2>2, <2>3 DEF HInv
  <1> QED
    BY <1>2, <1>3 DEF FilesNext, WritePath, Drained, Close, Exit, Finished, filesVars

\* The invariant of what is found, buffered, sorted and given holds throughout.
THEOREM FilesOrderly == FilesSpec => [](PInv /\ FInv /\ HInv)
  BY InitPInv, StepPInv, InitFInv, StepFInv, InitHInv, StepHInv, PTL DEF FilesSpec

\* An entry's place in the history is the one it has.
LEMMA DiscoveredBefore ==
    ASSUME History, NEW e, NEW f, Before(e, f)
    PROVE  Discovered(e) < Discovered(f)
  <1>1. PICK i \in 1 .. Len(order), j \in 1 .. Len(order) : i < j /\ order[i] = e /\ order[j] = f
    BY DEF Before
  <1>2. DOMAIN order = 1 .. Len(order) /\ Len(order) \in Nat
    BY DEF History
  <1>3. \A k \in DOMAIN order : /\ order[k] = e => k = i
                                /\ order[k] = f => k = j
    BY <1>1, <1>2 DEF History, NoRepeat
  <1>4. Discovered(e) = i
    BY <1>1, <1>2, <1>3 DEF Discovered
  <1>5. Discovered(f) = j
    BY <1>1, <1>2, <1>3 DEF Discovered
  <1> QED
    BY <1>1, <1>4, <1>5

\* What the order of the comparisons says of the times.
LEMMA RankedTimes ==
    ASSUME sort = "time", reverse \in BOOLEAN, NEW a \in Item, NEW b \in Item, <<a, b>> \in Ranks
    PROVE  /\ IF reverse THEN ~Earlier(a, b) ELSE ~Earlier(b, a)
           /\ a.time = b.time => Before(a.entry, b.entry)
  <1>1. a.time \in Times \cup {None} /\ b.time \in Times \cup {None} /\ Times \subseteq Nat
    BY SortAssumption DEF Item
  <1>2. Put(a, b) < 0 \/ (Put(a, b) = 0 /\ Before(a.entry, b.entry))
    BY DEF Ranks, After
  <1>3. /\ Put(a, b) = IF reverse THEN -CompareTime(a.time, b.time) ELSE CompareTime(a.time, b.time)
        /\ CompareTime(a.time, b.time) \in Int
    BY <1>1, CompareTimeOrder DEF Put, Compare
  <1>4. /\ Earlier(a, b) => CompareTime(a.time, b.time) < 0
        /\ Earlier(b, a) => CompareTime(a.time, b.time) > 0
        /\ a.time = b.time => CompareTime(a.time, b.time) = 0
    BY <1>1 DEF Earlier, CompareTime
  <1>5. CASE reverse
    BY <1>2, <1>3, <1>4, <1>5
  <1>6. CASE ~reverse
    BY <1>2, <1>3, <1>4, <1>6
  <1> QED
    BY <1>5, <1>6

\* Sorted by time, in either direction, for every tree and every number of roots: no file
\* is given before an earlier one (a later one), and files of one time in discovery order.
THEOREM TimesInOrder == FilesSpec => []TimeSortRight
  <1>1. PInv /\ FInv /\ HInv => TimeSortRight
    <2> SUFFICES ASSUME FInv, HInv, sort = "time", NEW i \in DOMAIN got, NEW j \in DOMAIN got, i < j
                 PROVE  /\ IF reverse THEN ~Earlier(got[i], got[j]) ELSE ~Earlier(got[j], got[i])
                        /\ got[i].time = got[j].time => Discovered(got[i].entry) < Discovered(got[j].entry)
      BY DEF TimeSortRight
    <2>1. /\ got \in Seq(Item) /\ reverse \in BOOLEAN /\ History /\ Along(got, Ranks)
      BY DEF FInv, WInv, WalkTypes, HInv, Timed
    <2>2. got[i] \in Item /\ got[j] \in Item /\ <<got[i], got[j]>> \in Ranks
      BY <2>1 DEF Along
    <2> QED
      BY <2>1, <2>2, RankedTimes, DiscoveredBefore
  <1> QED
    BY <1>1, FilesOrderly, PTL

\* Whatever is sorted, and wherever the Visitor stops: a file is given once, only files that
\* were found are, and all of them if the walk was not told to stop.
THEOREM EachFileOnce == FilesSpec => []FilesGivenOnce
  <1>1. PInv /\ FInv /\ HInv => FilesGivenOnce
    <2> SUFFICES ASSUME FInv, HInv PROVE FilesGivenOnce
      OBVIOUS
    <2>1. /\ got \in Seq(Item) /\ History /\ Along(got, Differ) /\ Met /\ Buffers
      BY DEF FInv, WInv, WalkTypes, HInv, Once
    <2>2. DOMAIN got = 1 .. Len(got) /\ Len(got) \in Nat
      BY <2>1
    <2>3. {got[i].entry : i \in DOMAIN got} = Shown(got)
      BY <2>2 DEF Shown
    <2>4. {e \in ToSet(order) : IsFile(e)} = Found
      <3>1. ToSet(order) = Elements(order) /\ Elements(order) \subseteq Entry
        BY <2>1 DEF ToSet, Elements, History
      <3> QED
        BY <2>1, <3>1 DEF History, Found
    <2>5. ASSUME NEW i \in DOMAIN got, NEW j \in DOMAIN got, got[i].entry = got[j].entry PROVE i = j
      <3>1. \A a, b \in 1 .. Len(got) : a < b => got[a].entry # got[b].entry
        BY <2>1 DEF Along, Differ
      <3> QED
        BY <2>2, <2>5, <3>1
    <2>6. Returns => Shown(got) = Found
      BY <2>1, NothingShown DEF Buffers, Met
    <2> QED
      BY <2>1, <2>3, <2>4, <2>5, <2>6 DEF FilesGivenOnce, Met
  <1> QED
    BY <1>1, FilesOrderly, PTL
=============================================================================
