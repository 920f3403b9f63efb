---------------------------- MODULE WalkerProofs ----------------------------
(***************************************************************************)
(* Proofs about the parallel walk, for any number of workers and any tree: *)
(* the wakeup protocol, then the tasks the workers hand to one another.    *)
(***************************************************************************)
EXTENDS WalkerProps, FiniteSetTheorems, SequenceTheorems, TLAPS

-----------------------------------------------------------------------------
(* Sequences and frames.                                                   *)

\* Dropping the last element of a non-empty sequence leaves a sequence of the
\* same elements, one shorter: dirQueue.pop and the return of processDir.
LEMMA PopType ==
    ASSUME NEW S, NEW s \in Seq(S), s # << >>
    PROVE  /\ Pop(s) \in Seq(S)
           /\ Len(s) \in Nat \ {0}
           /\ Len(Pop(s)) = Len(s) - 1
           /\ s[Len(s)] \in S
  <1>1. Len(s) \in Nat \ {0} /\ s[Len(s)] \in S
    BY EmptySeq
  <1>2. /\ SubSeq(s, 1, Len(s) - 1) \in Seq(S)
        /\ Len(SubSeq(s, 1, Len(s) - 1)) = Len(s) - 1
    <2> DEFINE n == Len(s) - 1
    <2>1. n \in Nat /\ n <= Len(s)
      BY <1>1
    <2>2. SubSeq(s, 1, n) \in Seq(S) /\ Len(SubSeq(s, 1, n)) = n
      <3> HIDE DEF n
      <3> QED
        BY <2>1
    <2> QED
      BY <2>2
  <1> QED
    BY <1>1, <1>2 DEF Pop

\* Either half of a cut sequence is a sequence of the same elements: stealBatch.
LEMMA CutType ==
    ASSUME NEW S, NEW s \in Seq(S), NEW n \in 0 .. Len(s)
    PROVE  SubSeq(s, 1, n) \in Seq(S) /\ SubSeq(s, n + 1, Len(s)) \in Seq(S)
  OBVIOUS

\* Integer division rounds down.
LEMMA DivBound ==
    ASSUME NEW a \in Nat, NEW b \in Nat \ {0}
    PROVE  a \div b \in Nat /\ b * (a \div b) <= a
  OBVIOUS

\* The steal order of a worker stays within the pool.
LEMMA ModRange ==
    ASSUME NEW a \in Nat, NEW b \in Nat \ {0}
    PROVE  a % b \in 0 .. b - 1
  OBVIOUS

\* Half of a deque, rounded up, is not more than the deque.
LEMMA HalfRange ==
    ASSUME NEW n \in Nat \ {0}
    PROVE  (n + 1) \div 2 \in 0 .. n
  OBVIOUS

\* Both parts of a deque that stealBatch cuts are deques.
LEMMA HalvesType ==
    ASSUME NEW q \in Seq(Entry), q # << >>
    PROVE  Stolen(q) \in Seq(Entry) /\ Left(q) \in Seq(Entry)
  <1>1. Len(q) \in Nat \ {0}
    BY EmptySeq
  <1>2. Half(q) \in 0 .. Len(q)
    BY <1>1, HalfRange DEF Half
  <1> QED
    BY <1>2, CutType DEF Stolen, Left

\* The deal of runWorkers stays within the argument list.
LEMMA SeededType ==
    ASSUME NEW w \in Workers
    PROVE  Seeded(w) \in Seq(Entry)
  <1> USE NumWorkersAssumption, TreeAssumption DEF Workers
  <1> DEFINE L == Len(Roots)
             c == Share(w)
  <1>1. L \in Nat
    OBVIOUS
  <1> SUFFICES c \in Nat /\ \A k \in 1 .. c : w + 1 + NumWorkers * (c - k) \in 1 .. L
    <2> SUFFICES ASSUME c \in Nat,
                        \A k \in 1 .. c : w + 1 + NumWorkers * (c - k) \in 1 .. L
                 PROVE  Seeded(w) \in Seq(Entry)
      OBVIOUS
    <2>1. \A i \in 1 .. L : Roots[i] \in Entry
      BY ElementOfSeq
    <2>2. \A k \in 1 .. c : Roots[w + 1 + NumWorkers * (c - k)] \in Entry
      <3> HIDE DEF c, L
      <3> QED
        BY <2>1
    <2>3. Seeded(w) \in [1 .. c -> Entry]
      <3> HIDE DEF L
      <3> QED
        BY <2>2 DEF Seeded
    <2> QED
      <3> HIDE DEF c
      <3> QED
        BY <2>3, SeqDef
  <1>2. CASE w >= L
    BY <1>1, <1>2 DEF Share
  <1>3. CASE w < L
    <2> DEFINE m == (L - 1 - w) \div NumWorkers
    <2>1. m \in Nat /\ NumWorkers * m <= L - 1 - w
      <3>1. L - 1 - w \in Nat
        BY <1>1, <1>3
      <3> HIDE DEF L
      <3> QED
        BY <3>1, DivBound
    <2>2. c = m + 1
      BY <1>3 DEF Share
    <2>3. ASSUME NEW k \in 1 .. c
          PROVE  w + 1 + NumWorkers * (c - k) \in 1 .. L
      <3> HIDE DEF m, c, L
      <3>1. c - k \in 0 .. m
        BY <2>1, <2>2, <2>3
      <3>2. NumWorkers * (c - k) <= NumWorkers * m /\ NumWorkers * (c - k) \in Nat
        BY <3>1, <2>1
      <3> QED
        BY <3>2, <2>1, <1>1
    <2> QED
      <3> HIDE DEF m, c
      <3> QED
        BY <2>1, <2>2, <2>3
  <1> QED
    BY <1>1, <1>2, <1>3
-----------------------------------------------------------------------------
(* The inductive invariant.                                                *)

InDir   == {"dir", "notify", "wakeForWork", "reactivate"}
Parked  == {"park", "waiting", "woken", "unparked"}
Emptied == {"steal", "deactivate"} \cup Parked

\* What a worker's position in run, park and processDir says of its own state:
\* whether it is counted, whether it has a task, whether its deque is empty.
Position(w) ==
    /\ pc[w] \in Parked \cup {"reactivate"} => idle[w]
    /\ pc[w] \in {"run", "deactivate", "dir", "notify", "wakeForWork"} => ~idle[w]
    /\ pc[w] \in InDir <=> stack[w] # << >>
    /\ pc[w] # "append" => batch[w] = << >>
    /\ pc[w] \in Emptied => queues[w] = << >>
    /\ idle[w] /\ pc[w] \notin {"append", "popStolen", "reactivate"} => queues[w] = << >>

Control == \A w \in Workers : Position(w)

IInv == TypeOK /\ Control /\ ActiveCount /\ NoLostWakeup /\ ZeroEndsWalk

-----------------------------------------------------------------------------
(* Type correctness and position.                                          *)

LEMMA InitTypeControl == Init => TypeOK /\ Control
  <1> SUFFICES ASSUME Init PROVE TypeOK /\ Control
    OBVIOUS
  <1> USE NumWorkersAssumption DEF Init
  <1>1. queues \in [Workers -> Seq(Entry)]
    BY SeededType
  <1>2. \A S : << >> \in Seq(S)
    OBVIOUS
  <1>3. TypeOK
    <2>1. active \in Int /\ probe \in [Workers -> 1 .. NumWorkers]
      OBVIOUS
    <2>2. /\ quit \in BOOLEAN /\ pushGen \in Nat
          /\ pc \in [Workers -> Labels] /\ idle \in [Workers -> BOOLEAN]
      BY DEF Labels
    <2>3. /\ myGen \in [Workers -> Nat] /\ late \in [Workers -> Nat]
          /\ visits \in [Entry -> Nat] /\ reads \in [Entry -> Nat]
          /\ dropped \subseteq Entry /\ asked \in BOOLEAN
      OBVIOUS
    <2>4. batch \in [Workers -> Seq(Entry)] /\ stack \in [Workers -> Seq(Frame)]
      BY <1>2
    <2> QED
      BY <1>1, <2>1, <2>2, <2>3, <2>4 DEF TypeOK
  <1>4. Control
    BY DEF Control, Position, InDir, Parked, Emptied
  <1> QED
    BY <1>3, <1>4
\* pop, as run, park and steal use it: the task leaves the deque for a frame.
LEMMA TakeType ==
    ASSUME TypeOK, NEW w \in Workers, Take(w)
    PROVE  /\ queues' \in [Workers -> Seq(Entry)]
           /\ stack' \in [Workers -> Seq(Frame)]
           /\ stack'[w] # << >>
           /\ \A v \in Workers \ {w} : queues'[v] = queues[v] /\ stack'[v] = stack[v]
  <1> DEFINE d == queues[w][Len(queues[w])]
  <1>1. Pop(queues[w]) \in Seq(Entry) /\ d \in Entry
    BY PopType DEF TypeOK, Take
  <1>2. NewFrame(d) \in Frame
    BY <1>1 DEF NewFrame, Frame
  <1>3. <<NewFrame(d)>> \in Seq(Frame) /\ <<NewFrame(d)>> # << >>
    BY <1>2
  <1>4. /\ stack' = [stack EXCEPT ![w] = <<NewFrame(d)>>]
        /\ queues' = [queues EXCEPT ![w] = Pop(queues[w])]
    BY DEF Take
  <1> HIDE DEF d
  <1> QED
    BY <1>1, <1>3, <1>4 DEF TypeOK

\* processDir returning to its caller: one frame less.
LEMMA ReturnType ==
    ASSUME TypeOK, NEW w \in Workers, stack[w] # << >>,
           stack' = [stack EXCEPT ![w] = Pop(@)]
    PROVE  /\ stack' \in [Workers -> Seq(Frame)]
           /\ stack'[w] # << >> <=> Len(stack[w]) > 1
           /\ \A v \in Workers \ {w} : stack'[v] = stack[v]
  <1>1. stack[w] \in Seq(Frame)
    BY DEF TypeOK
  <1>2. /\ Pop(stack[w]) \in Seq(Frame)
        /\ Len(stack[w]) \in Nat \ {0}
        /\ Len(Pop(stack[w])) = Len(stack[w]) - 1
    BY <1>1, PopType
  <1>3. Pop(stack[w]) # << >> <=> Len(stack[w]) > 1
    BY <1>2, EmptySeq
  <1>4. stack'[w] = Pop(stack[w])
    BY DEF TypeOK
  <1> QED
    BY <1>2, <1>3, <1>4 DEF TypeOK

\* The readdir loop moving on: the top frame changes, the others stay.
LEMMA AdvanceType ==
    ASSUME NEW s \in Seq(Frame), s # << >>, NEW n \in Nat
    PROVE  /\ [s EXCEPT ![Len(s)].next = n] \in Seq(Frame)
           /\ [s EXCEPT ![Len(s)].next = n] # << >>
           /\ s[Len(s)] \in Frame
  <1>1. Len(s) \in 1 .. Len(s)
    BY EmptySeq
  <1>2. s[Len(s)] \in Frame
    BY <1>1, ElementOfSeq
  <1>3. [s[Len(s)] EXCEPT !.next = n] \in Frame
    BY <1>2 DEF Frame
  <1>4. /\ [s EXCEPT ![Len(s)] = [s[Len(s)] EXCEPT !.next = n]] \in Seq(Frame)
        /\ Len([s EXCEPT ![Len(s)] = [s[Len(s)] EXCEPT !.next = n]]) = Len(s)
    BY <1>1, <1>3, ExceptSeq
  <1> QED
    BY <1>1, <1>2, <1>4, EmptySeq


\* Every step of run, park, steal and the coordinator keeps them.
LEMMA LoopTypeControl ==
    ASSUME TypeOK, Control, NEW w \in Workers, LoopStep(w)
    PROVE  TypeOK' /\ Control'
  <1> USE DEF shared, private, history, Goto, Control, Position, InDir, Parked, Emptied
  <1>1. CASE CheckQuit(w)
    <2>1. TypeOK'
      BY <1>1 DEF CheckQuit, TypeOK, Labels
    <2>2. Control'
      BY <1>1 DEF CheckQuit, TypeOK
    <2> QED
      BY <2>1, <2>2
  <1>2. CASE PopOwn(w)
    <2>1. CASE Take(w)
      <3>1. /\ pc[w] = "pop"
            /\ pc' = [pc EXCEPT ![w] = IF idle[w] THEN "reactivate" ELSE "dir"]
            /\ UNCHANGED <<active, quit, pushGen, idle, myGen, probe, batch, history>>
        BY <1>2, <2>1 DEF PopOwn, Take
      <3>2. TypeOK'
        BY <2>1, <3>1, TakeType DEF TypeOK, Labels
      <3>3. Control'
        <4> SUFFICES ASSUME NEW v \in Workers PROVE Position(v)'
          OBVIOUS
        <4>1. CASE v = w
          BY <2>1, <3>1, <4>1, TakeType DEF TypeOK
        <4>2. CASE v # w
          <5>1. /\ pc'[v] = pc[v] /\ queues'[v] = queues[v] /\ stack'[v] = stack[v]
                /\ idle' = idle /\ batch' = batch
            BY <2>1, <3>1, <4>2 DEF Take, TypeOK
          <5> QED
            BY <5>1
        <4> QED
          BY <4>1, <4>2
      <3> QED
        BY <3>2, <3>3
    <2>2. CASE ~Take(w)
      <3>1. /\ pc[w] = "pop" /\ queues[w] = << >>
            /\ probe' \in {probe, [probe EXCEPT ![w] = 1]}
            /\ \E l \in {"steal"} : pc' = [pc EXCEPT ![w] = l]
            /\ pc'[w] = "park" => idle[w]
            /\ pc'[w] = "deactivate" => ~idle[w]
            /\ UNCHANGED <<queues, active, quit, pushGen, idle, myGen, batch, stack, history>>
        BY <1>2, <2>2 DEF PopOwn, NothingFound, TypeOK
      <3>2. TypeOK'
        <4>1. probe' \in [Workers -> 1 .. NumWorkers]
          <5>1. 1 \in 1 .. NumWorkers
            BY NumWorkersAssumption
          <5> QED
            BY <3>1, <5>1 DEF TypeOK
        <4>2. pc' \in [Workers -> Labels]
          BY <3>1 DEF TypeOK, Labels
        <4> QED
          BY <3>1, <4>1, <4>2 DEF TypeOK
      <3>3. Control'
        BY <3>1 DEF TypeOK
      <3> QED
        BY <3>2, <3>3
    <2> QED
      BY <2>1, <2>2
  <1>3. CASE Steal(w)
    <2> DEFINE victim == (w + probe[w]) % NumWorkers
    <2>0. victim \in Workers /\ queues[victim] \in Seq(Entry)
      <3>1. w + probe[w] \in Nat
        <4>1. w \in Nat
          BY DEF Workers
        <4>2. probe[w] \in 1 .. NumWorkers
          BY Zenon DEF TypeOK
        <4> QED
          BY <4>1, <4>2
      <3> QED
        BY <3>1, NumWorkersAssumption, ModRange DEF TypeOK, Workers
    <2>1. CASE probe[w] = NumWorkers
      <3>1. /\ pc[w] = "steal"
            /\ pc' = [pc EXCEPT ![w] = IF idle[w] THEN "park" ELSE "deactivate"]
            /\ UNCHANGED <<shared, private, history>>
        BY <1>3, <2>1 DEF Steal, NothingFound, RoundOver
      <3>2. TypeOK'
        BY <3>1 DEF TypeOK, Labels
      <3>3. Control'
        BY <3>1 DEF TypeOK
      <3> QED
        BY <3>2, <3>3
    <2>2. CASE probe[w] # NumWorkers /\ queues[victim] = << >>
      <3>1. /\ probe' = [probe EXCEPT ![w] = probe[w] + 1]
            /\ UNCHANGED <<queues, pc, idle, batch, stack, active, quit, pushGen, myGen, history>>
        BY <1>3, <2>2 DEF Steal, RoundOver
      <3>2. TypeOK'
        <4>1. probe[w] \in 1 .. NumWorkers /\ probe[w] # NumWorkers
          BY <2>2 DEF TypeOK
        <4>2. probe[w] + 1 \in 1 .. NumWorkers
          BY <4>1, NumWorkersAssumption
        <4> QED
          BY <3>1, <4>2 DEF TypeOK
      <3>3. Control'
        BY <3>1
      <3> QED
        BY <3>2, <3>3
    <2>3. CASE probe[w] # NumWorkers /\ queues[victim] # << >>
      <3>2. Stolen(queues[victim]) \in Seq(Entry) /\ Left(queues[victim]) \in Seq(Entry)
        <4> HIDE DEF victim
        <4> QED
          BY <2>0, <2>3, HalvesType
      <3>3. /\ batch' = [batch EXCEPT ![w] = Stolen(queues[victim])]
            /\ queues' = [queues EXCEPT ![victim] = Left(queues[victim])]
            /\ pc[w] = "steal"
            /\ pc' = [pc EXCEPT ![w] = "append"]
            /\ UNCHANGED <<active, quit, pushGen, idle, myGen, probe, stack, history>>
        BY <1>3, <2>3 DEF Steal, RoundOver
      <3>4. \A v \in Workers : queues[v] = << >> => queues'[v] = << >>
        <4> HIDE DEF victim
        <4> QED
          BY <2>0, <2>3, <3>3 DEF TypeOK
      <3> HIDE DEF victim
      <3>5. TypeOK'
        BY <3>2, <3>3, <2>0 DEF TypeOK, Labels
      <3>6. Control'
        BY <3>3, <3>4 DEF TypeOK
      <3> QED
        BY <3>5, <3>6
    <2> QED
      BY <2>1, <2>2, <2>3
  <1>4. CASE AppendStolen(w)
    <2>1. TypeOK'
      BY <1>4 DEF AppendStolen, TypeOK, Labels
    <2>2. Control'
      BY <1>4 DEF AppendStolen, TypeOK
    <2> QED
      BY <2>1, <2>2
  <1>5. CASE PopStolen(w)
    <2>1. CASE Take(w)
      <3>1. /\ pc[w] = "popStolen"
            /\ pc' = [pc EXCEPT ![w] = IF idle[w] THEN "reactivate" ELSE "dir"]
            /\ UNCHANGED <<active, quit, pushGen, idle, myGen, probe, batch, history>>
        BY <1>5, <2>1 DEF PopStolen, Take
      <3>2. TypeOK'
        BY <2>1, <3>1, TakeType DEF TypeOK, Labels
      <3>3. Control'
        <4> SUFFICES ASSUME NEW v \in Workers PROVE Position(v)'
          OBVIOUS
        <4>1. CASE v = w
          BY <2>1, <3>1, <4>1, TakeType DEF TypeOK
        <4>2. CASE v # w
          <5>1. /\ pc'[v] = pc[v] /\ queues'[v] = queues[v] /\ stack'[v] = stack[v]
                /\ idle' = idle /\ batch'[v] = batch[v]
            BY <2>1, <3>1, <4>2 DEF Take, TypeOK
          <5> QED
            BY <5>1
        <4> QED
          BY <4>1, <4>2
      <3> QED
        BY <3>2, <3>3
    <2>2. CASE ~Take(w)
      <3>1. /\ pc[w] = "popStolen" /\ queues[w] = << >>
            /\ probe' \in {probe, [probe EXCEPT ![w] = 1]}
            /\ \E l \in {"park", "deactivate"} : pc' = [pc EXCEPT ![w] = l]
            /\ pc'[w] = "park" => idle[w]
            /\ pc'[w] = "deactivate" => ~idle[w]
            /\ UNCHANGED <<queues, active, quit, pushGen, idle, myGen, batch, stack, history>>
        BY <1>5, <2>2 DEF PopStolen, NothingFound, TypeOK
      <3>2. TypeOK'
        <4>1. probe' \in [Workers -> 1 .. NumWorkers]
          <5>1. 1 \in 1 .. NumWorkers
            BY NumWorkersAssumption
          <5> QED
            BY <3>1, <5>1 DEF TypeOK
        <4>2. pc' \in [Workers -> Labels]
          BY <3>1 DEF TypeOK, Labels
        <4> QED
          BY <3>1, <4>1, <4>2 DEF TypeOK
      <3>3. Control'
        BY <3>1 DEF TypeOK
      <3> QED
        BY <3>2, <3>3
    <2> QED
      BY <2>1, <2>2
  <1>6. CASE Deactivate(w)
    <2>1. TypeOK'
      BY <1>6 DEF Deactivate, TypeOK, Labels
    <2>2. Control'
      BY <1>6 DEF Deactivate, TypeOK
    <2> QED
      BY <2>1, <2>2
  <1>7. CASE Park(w)
    <2>1. TypeOK'
      BY <1>7 DEF Park, TypeOK, Labels
    <2>2. Control'
      BY <1>7 DEF Park, TypeOK
    <2> QED
      BY <2>1, <2>2
  <1>8. CASE Recheck(w)
    <2>1. TypeOK'
      BY <1>8 DEF Recheck, TypeOK, Labels
    <2>2. Control'
      BY <1>8 DEF Recheck, TypeOK
    <2> QED
      BY <2>1, <2>2
  <1>9. CASE Unparked(w)
    <2>1. TypeOK'
      BY <1>9 DEF Unparked, TypeOK, Labels
    <2>2. Control'
      BY <1>9 DEF Unparked, TypeOK
    <2> QED
      BY <2>1, <2>2
  <1>10. CASE Reactivate(w)
    <2>1. TypeOK'
      BY <1>10 DEF Reactivate, TypeOK, Labels
    <2>2. Control'
      BY <1>10 DEF Reactivate, TypeOK
    <2> QED
      BY <2>1, <2>2
  <1>11. CASE NotifyWork(w)
    <2>1. TypeOK'
      BY <1>11 DEF NotifyWork, TypeOK, Labels
    <2>2. Control'
      BY <1>11 DEF NotifyWork, TypeOK
    <2> QED
      BY <2>1, <2>2
  <1>12. CASE WakeForWork(w)
    <2>1. stack[w] # << >>
      BY <1>12 DEF WakeForWork
    <2>2. stack' = [stack EXCEPT ![w] = Pop(@)]
      BY <1>12 DEF WakeForWork
    <2>3. TypeOK'
      BY <1>12, <2>1, <2>2, ReturnType DEF WakeForWork, Broadcast, TypeOK, Labels
    <2>4. Control'
      BY <1>12, <2>1, <2>2, ReturnType DEF WakeForWork, Broadcast, TypeOK
    <2> QED
      BY <2>3, <2>4
  <1>13. CASE RequestQuit(w)
    <2>1. TypeOK'
      BY <1>13 DEF RequestQuit, TypeOK, Labels
    <2>2. Control'
      BY <1>13 DEF RequestQuit, TypeOK
    <2> QED
      BY <2>1, <2>2
  <1>14. CASE WakeForQuit(w)
    <2>1. TypeOK'
      BY <1>14 DEF WakeForQuit, Broadcast, TypeOK, Labels
    <2>2. Control'
      BY <1>14 DEF WakeForQuit, Broadcast, TypeOK
    <2> QED
      BY <2>1, <2>2
  <1> QED
    BY <1>1, <1>2, <1>3, <1>4, <1>5, <1>6, <1>7, <1>8, <1>9, <1>10, <1>11, <1>12, <1>13, <1>14 DEF LoopStep
\* StopWalk and ReturnEarly, the two ways out of processDir.
LEMMA LeaveTypeControl ==
    ASSUME TypeOK, Control, NEW w \in Workers, pc[w] = "dir",
           StopWalk(w) \/ ReturnEarly(w),
           UNCHANGED <<queues, idle, batch>>
    PROVE  /\ stack' \in [Workers -> Seq(Frame)]
           /\ pc' \in [Workers -> Labels]
           /\ asked' \in BOOLEAN
           /\ Control'
  <1> USE DEF Goto, Control, Position, InDir, Parked, Emptied
  <1>1. stack[w] # << >>
    OBVIOUS
  <1>2. CASE StopWalk(w)
    <2>1. << >> \in Seq(Frame)
      BY EmptySeq
    <2>2. /\ stack' = [stack EXCEPT ![w] = << >>]
          /\ pc' = [pc EXCEPT ![w] = "setQuit"]
          /\ asked' = TRUE
      BY <1>2 DEF StopWalk
    <2>3. Control'
      BY <2>2 DEF TypeOK
    <2> QED
      BY <2>1, <2>2, <2>3 DEF TypeOK, Labels
  <1>3. CASE ReturnEarly(w)
    <2>1. /\ stack' = [stack EXCEPT ![w] = Pop(@)]
          /\ pc' = [pc EXCEPT ![w] = IF Len(stack[w]) > 1 THEN "dir" ELSE "run"]
          /\ asked' = asked
      BY <1>3 DEF ReturnEarly
    <2>2. /\ stack' \in [Workers -> Seq(Frame)]
          /\ stack'[w] # << >> <=> Len(stack[w]) > 1
          /\ \A v \in Workers \ {w} : stack'[v] = stack[v]
      BY <1>1, <2>1, ReturnType
    <2>3. Control'
      BY <2>1, <2>2 DEF TypeOK
    <2> QED
      BY <2>1, <2>2, <2>3 DEF TypeOK, Labels
  <1> QED
    BY <1>2, <1>3

\* Every step of processDir keeps them.
LEMMA DirTypeControl ==
    ASSUME TypeOK, Control, NEW w \in Workers, DirStep(w)
    PROVE  TypeOK' /\ Control'
  <1> USE DEF shared, private, history
  <1>1. ASSUME pc[w] = "dir" PROVE stack[w] \in Seq(Frame) /\ stack[w] # << >>
    BY <1>1 DEF TypeOK, Control, Position, InDir
  <1>2. CASE StartRoot(w) \/ PruneForeign(w) \/ OpenFails(w)
    <2>1. /\ pc[w] = "dir"
          /\ StopWalk(w) \/ ReturnEarly(w)
          /\ UNCHANGED <<shared, idle, myGen, probe, batch, reads>>
      BY <1>2 DEF StartRoot, PruneForeign, OpenFails, Descended, StartsAt
    <2>2. \E d \in Entry : dropped' = dropped \cup {d}
      BY <1>2, ElementOfSeq, TreeAssumption
         DEF StartRoot, PruneForeign, OpenFails, RootSet, Elements
    <2>3. visits' \in [Entry -> Nat]
      <3>1. \/ visits' = visits
            \/ \E d \in Entry : visits' = [visits EXCEPT ![d] = visits[d] + 1]
        BY <1>2, ElementOfSeq, TreeAssumption
           DEF StartRoot, PruneForeign, OpenFails, Descended, Visited, RootSet, Elements
      <3>2. visits \in [Entry -> Nat]
        BY DEF TypeOK
      <3> QED
        BY <3>1, <3>2
    <2>4. late' \in [Workers -> Nat]
      <3>1. late' = late \/ late' = [late EXCEPT ![w] = late[w] + 1]
        BY <1>2 DEF StartRoot, PruneForeign, OpenFails, Descended, CountLate
      <3>2. late \in [Workers -> Nat]
        BY DEF TypeOK
      <3> QED
        BY <3>1, <3>2
    <2>5. /\ stack' \in [Workers -> Seq(Frame)]
          /\ pc' \in [Workers -> Labels]
          /\ asked' \in BOOLEAN
          /\ Control'
      BY <2>1, LeaveTypeControl
    <2> QED
      BY <2>1, <2>2, <2>3, <2>4, <2>5 DEF TypeOK
  <1>3. CASE ReadDir(w)
    <2>1. /\ pc[w] = "dir"
          /\ stack' = [stack EXCEPT ![w] = [stack[w] EXCEPT ![Len(stack[w])].next = 1]]
          /\ UNCHANGED <<shared, pc, idle, myGen, probe, batch, dropped, asked>>
      BY <1>3 DEF ReadDir, Descended, StartsAt
    <2>2. visits' \in [Entry -> Nat] /\ reads' \in [Entry -> Nat]
      <3>1. visits \in [Entry -> Nat] /\ reads \in [Entry -> Nat]
        BY DEF TypeOK
      <3>2. PICK d : /\ StartsAt(w, d) /\ reads' = [reads EXCEPT ![d] = @ + 1]
                     /\ visits' = visits \/ visits' = [visits EXCEPT ![d] = @ + 1]
        BY <1>3 DEF ReadDir, Descended, Visited
      <3>3. reads' = [x \in Entry |-> IF x = d THEN reads[x] + 1 ELSE reads[x]]
        BY <3>1, <3>2
      <3>4. visits' = visits \/ visits' = [x \in Entry |-> IF x = d THEN visits[x] + 1 ELSE visits[x]]
        BY <3>1, <3>2
      <3> QED
        BY <3>1, <3>3, <3>4
    <2>3. late' \in [Workers -> Nat]
      BY <1>3 DEF ReadDir, Descended, CountLate, TypeOK
    <2>4. /\ [stack[w] EXCEPT ![Len(stack[w])].next = 1] \in Seq(Frame)
          /\ [stack[w] EXCEPT ![Len(stack[w])].next = 1] # << >>
      BY <1>1, <2>1, AdvanceType
    <2>5. TypeOK'
      BY <2>1, <2>2, <2>3, <2>4 DEF TypeOK
    <2>6. Control'
      BY <2>1, <2>4 DEF TypeOK, Control, Position, InDir, Parked, Emptied
    <2> QED
      BY <2>5, <2>6
  <1>4. CASE VisitEntry(w)
    <2> DEFINE f == Top(w)
               e == Listing[f.dir][f.next]
               advanced == [stack[w] EXCEPT ![Len(stack[w])].next = @ + 1]
    <2>1. /\ pc[w] = "dir" /\ f.next \in 1 .. Len(Listing[f.dir])
          /\ UNCHANGED <<active, quit, pushGen, idle, myGen, probe, batch, reads, late>>
      BY <1>4 DEF VisitEntry
    <2>2. f \in Frame /\ f.dir \in Entry /\ f.next \in Nat
      BY <1>1, <2>1, AdvanceType DEF Top, Frame
    <2>3. e \in Entry
      BY <2>1, <2>2, TreeAssumption, ElementOfSeq
    <2>4. advanced = [stack[w] EXCEPT ![Len(stack[w])].next = f.next + 1]
      BY DEF Top
    <2>5. advanced \in Seq(Frame) /\ advanced # << >>
      <3>1. f.next + 1 \in Nat
        BY <2>2
      <3>2. /\ [stack[w] EXCEPT ![Len(stack[w])].next = f.next + 1] \in Seq(Frame)
            /\ [stack[w] EXCEPT ![Len(stack[w])].next = f.next + 1] # << >>
        <4> HIDE DEF f
        <4> QED
          BY <1>1, <2>1, <3>1, AdvanceType
      <3> QED
        BY <2>4, <3>2
    <2>6. visits' \in [Entry -> Nat]
      <3>1. visits' = [visits EXCEPT ![e] = visits[e] + 1]
        BY <1>4 DEF VisitEntry, Visited
      <3> HIDE DEF e
      <3> QED
        BY <2>3, <3>1 DEF TypeOK
    <2>7. CASE StopWalk(w) /\ UNCHANGED <<queues, dropped>>
      <3>1. /\ stack' \in [Workers -> Seq(Frame)]
            /\ pc' \in [Workers -> Labels]
            /\ asked' \in BOOLEAN
            /\ Control'
        BY <2>1, <2>7, LeaveTypeControl
      <3> QED
        BY <2>1, <2>6, <2>7, <3>1 DEF TypeOK
    <2>8. CASE Descend(w, e) /\ UNCHANGED <<pc, asked, dropped>>
      <3> HIDE DEF f, e
      <3>1. CASE Single
        <4>1. Append(advanced, NewFrame(e)) \in Seq(Frame)
              /\ Append(advanced, NewFrame(e)) # << >>
          <5>1. NewFrame(e) \in Frame
            BY <2>3 DEF NewFrame, Frame
          <5> HIDE DEF advanced
          <5> QED
            BY <2>5, <5>1, AppendProperties
        <4>2. /\ stack' = [stack EXCEPT ![w] = Append(advanced, NewFrame(e))]
              /\ queues' = queues
          BY <2>8, <3>1 DEF Descend
        <4> HIDE DEF advanced
        <4>3. TypeOK'
          BY <2>1, <2>6, <2>8, <4>1, <4>2 DEF TypeOK
        <4>4. Control'
          BY <2>1, <2>8, <4>1, <4>2 DEF TypeOK, Control, Position, InDir, Parked, Emptied
        <4> QED
          BY <4>3, <4>4
      <3>2. CASE ~Single
        <4>1. Append(queues[w], e) \in Seq(Entry)
          BY <2>3 DEF TypeOK
        <4>2. /\ stack' = [stack EXCEPT ![w] = advanced]
              /\ queues' = [queues EXCEPT ![w] = Append(@, e)]
          BY <2>8, <3>2 DEF Descend
        <4> HIDE DEF advanced
        <4>3. TypeOK'
          BY <2>1, <2>5, <2>6, <2>8, <4>1, <4>2 DEF TypeOK
        <4>4. Control'
          BY <2>1, <2>5, <2>8, <4>2 DEF TypeOK, Control, Position, InDir, Parked, Emptied
        <4> QED
          BY <4>3, <4>4
      <3> QED
        BY <3>1, <3>2
    <2>9. CASE /\ stack' = [stack EXCEPT ![w] = advanced]
               /\ dropped' = dropped \cup {e}
               /\ UNCHANGED <<queues, pc, asked>>
      <3> HIDE DEF f, e, advanced
      <3>1. TypeOK'
        BY <2>1, <2>3, <2>5, <2>6, <2>9 DEF TypeOK
      <3>2. Control'
        BY <2>1, <2>5, <2>9 DEF TypeOK, Control, Position, InDir, Parked, Emptied
      <3> QED
        BY <3>1, <3>2
    <2> QED
      BY <1>4, <2>7, <2>8, <2>9 DEF VisitEntry
  <1>5. CASE EndOfDir(w)
    <2>1. /\ pc[w] = "dir"
          /\ pc' = [pc EXCEPT ![w] = "notify"]
          /\ UNCHANGED <<shared, private, history>>
      BY <1>5 DEF EndOfDir, Goto
    <2>2. TypeOK'
      BY <2>1 DEF TypeOK, Labels
    <2>3. Control'
      BY <2>1 DEF TypeOK, Control, Position, InDir, Parked, Emptied
    <2> QED
      BY <2>2, <2>3
  <1> QED
    BY <1>2, <1>3, <1>4, <1>5 DEF DirStep
LEMMA StepTypeControl ==
    ASSUME TypeOK, Control, [Next]_vars
    PROVE  TypeOK' /\ Control'
  <1>1. CASE Next /\ ~UNCHANGED vars
    BY <1>1, LoopTypeControl, DirTypeControl DEF Next, Returned, WorkerStep
  <1>2. CASE UNCHANGED vars
    BY <1>2 DEF vars, shared, private, history, TypeOK, Control, Position
  <1> QED
    BY <1>1, <1>2

-----------------------------------------------------------------------------
(* Counting the active workers.                                            *)

Counted == {w \in Workers : ~idle[w]}

LEMMA CountedFinite == IsFiniteSet(Workers) /\ IsFiniteSet(Counted)
  <1>1. IsFiniteSet(Workers)
    BY FS_Interval, NumWorkersAssumption DEF Workers
  <1> QED
    BY <1>1, FS_Subset DEF Counted

\* Only run's Add(-1) and park's Add(1) touch the counter and who is counted.
LEMMA ActiveSteps ==
    ASSUME NEW w \in Workers, WorkerStep(w)
    PROVE  Deactivate(w) \/ Reactivate(w) \/ UNCHANGED <<active, idle>>
  BY DEF WorkerStep, LoopStep, DirStep, CheckQuit, PopOwn, Steal, AppendStolen,
         PopStolen, Park, Recheck, Unparked, NotifyWork, WakeForWork, RequestQuit,
         WakeForQuit, StartRoot, PruneForeign, OpenFails, ReadDir, VisitEntry,
         EndOfDir, shared, private

LEMMA StepActiveCount ==
    ASSUME TypeOK, Control, ActiveCount, NEW w \in Workers, WorkerStep(w)
    PROVE  ActiveCount'
  <1>1. CASE Deactivate(w)
    <2>1. w \in Counted /\ Counted' = Counted \ {w}
      BY <1>1 DEF Deactivate, Control, Position, Counted, TypeOK
    <2>2. active' = active - 1
      BY <1>1 DEF Deactivate
    <2>3. Cardinality(Counted \ {w}) = Cardinality(Counted) - 1
      BY <2>1, CountedFinite, FS_RemoveElement
    <2> QED
      BY <2>1, <2>2, <2>3 DEF ActiveCount, Counted
  <1>2. CASE Reactivate(w)
    <2>1. w \notin Counted /\ Counted' = Counted \cup {w}
      BY <1>2 DEF Reactivate, Control, Position, Counted, TypeOK
    <2>2. active' = active + 1
      BY <1>2 DEF Reactivate
    <2>3. Cardinality(Counted \cup {w}) = Cardinality(Counted) + 1
      BY <2>1, CountedFinite, FS_AddElement
    <2> QED
      BY <2>1, <2>2, <2>3 DEF ActiveCount, Counted
  <1>3. CASE UNCHANGED <<active, idle>>
    BY <1>3 DEF ActiveCount
  <1> QED
    BY <1>1, <1>2, <1>3, ActiveSteps

\* The counter is zero only when every worker is idle.
LEMMA ZeroMeansAllIdle ==
    ASSUME ActiveCount, active = 0
    PROVE  \A w \in Workers : idle[w]
  <1>1. Cardinality(Counted) = 0
    BY DEF ActiveCount, Counted
  <1>2. Counted = {}
    BY <1>1, CountedFinite, FS_EmptySet
  <1> QED
    BY <1>2 DEF Counted

-----------------------------------------------------------------------------
(* Waking up and ending.                                                   *)

LEMMA StepWakeup ==
    ASSUME TypeOK, NoLostWakeup, NEW w \in Workers, WorkerStep(w)
    PROVE  NoLostWakeup'
  <1> SUFFICES ASSUME NEW v \in Workers, pc'[v] = "waiting",
                      quit' \/ pushGen' # myGen'[v]
               PROVE  \E u \in Workers : pc'[u] \in {"wakeForWork", "wakeForQuit"}
    BY DEF NoLostWakeup
  <1> USE DEF Goto, shared, private, history
  <1>1. CASE NotifyWork(w)
    BY <1>1 DEF NotifyWork, TypeOK
  <1>2. CASE RequestQuit(w)
    BY <1>2 DEF RequestQuit, TypeOK
  <1>3. CASE WakeForWork(w) \/ WakeForQuit(w)
    BY <1>3 DEF WakeForWork, WakeForQuit, Broadcast, TypeOK
  <1>4. CASE Park(w)
    <2>1. CASE v = w
      BY <1>4, <2>1 DEF Park, TypeOK
    <2>2. CASE v # w
      BY <1>4, <2>2 DEF Park, TypeOK, NoLostWakeup
    <2> QED
      BY <2>1, <2>2
  <1>5. CASE Recheck(w)
    <2>1. CASE v = w
      BY <1>5, <2>1 DEF Recheck, TypeOK
    <2>2. CASE v # w
      BY <1>5, <2>2 DEF Recheck, TypeOK, NoLostWakeup
    <2> QED
      BY <2>1, <2>2
  <1>6. ASSUME /\ \E l \in Labels \ {"waiting"} : pc' = [pc EXCEPT ![w] = l]
               /\ pc[w] \notin {"wakeForWork", "wakeForQuit"}
               /\ UNCHANGED <<quit, pushGen, myGen>>
        PROVE  \E u \in Workers : pc'[u] \in {"wakeForWork", "wakeForQuit"}
    <2>1. pc[v] = "waiting" /\ (quit \/ pushGen # myGen[v])
      BY <1>6 DEF TypeOK
    <2>2. PICK u \in Workers : pc[u] \in {"wakeForWork", "wakeForQuit"}
      BY <2>1 DEF NoLostWakeup
    <2> QED
      BY <1>6, <2>2 DEF TypeOK
  <1>7. CASE CheckQuit(w) \/ PopOwn(w) \/ AppendStolen(w) \/ PopStolen(w)
             \/ Deactivate(w) \/ Unparked(w) \/ Reactivate(w) \/ EndOfDir(w)
    BY <1>6, <1>7 DEF CheckQuit, PopOwn, AppendStolen, PopStolen, Deactivate,
         Unparked, Reactivate, EndOfDir, Take, NothingFound, Labels
  <1>8. CASE Steal(w) \/ DirStep(w)
    <2>1. /\ pc[w] \notin {"wakeForWork", "wakeForQuit"}
          /\ UNCHANGED <<quit, pushGen, myGen>>
      BY <1>8 DEF Steal, DirStep, StartRoot, PruneForeign, OpenFails, ReadDir,
           VisitEntry, EndOfDir, Descended, StartsAt
    <2>2. UNCHANGED pc \/ \E l \in Labels \ {"waiting"} : pc' = [pc EXCEPT ![w] = l]
      BY <1>8 DEF Steal, DirStep, StartRoot, PruneForeign, OpenFails, ReadDir,
           VisitEntry, EndOfDir, StopWalk, ReturnEarly, NothingFound, Labels
    <2>3. CASE UNCHANGED pc
      BY <2>1, <2>3 DEF NoLostWakeup
    <2> QED
      BY <1>6, <2>1, <2>2, <2>3
  <1> QED
    BY <1>1, <1>2, <1>3, <1>4, <1>5, <1>7, <1>8 DEF WorkerStep, LoopStep

LEMMA StepZero ==
    ASSUME TypeOK, Control, ActiveCount, ZeroEndsWalk, NEW w \in Workers, WorkerStep(w)
    PROVE  ZeroEndsWalk'
  <1> USE DEF Goto, shared, private, history
  <1>1. CASE Deactivate(w)
    BY <1>1 DEF Deactivate, ZeroEndsWalk, TypeOK
  <1>2. CASE RequestQuit(w)
    BY <1>2 DEF RequestQuit, ZeroEndsWalk
  <1>3. CASE Reactivate(w)
    <2>1. active' = active + 1 /\ UNCHANGED quit
      BY <1>3 DEF Reactivate
    <2>2. Cardinality(Counted) \in Nat
      BY CountedFinite, FS_CardinalityType
    <2> QED
      BY <2>1, <2>2 DEF ActiveCount, Counted, ZeroEndsWalk
  <1>4. CASE ~Deactivate(w) /\ ~RequestQuit(w) /\ ~Reactivate(w)
    <2>1. UNCHANGED active
      BY <1>4, ActiveSteps
    <2>2. quit => quit'
      BY <1>4 DEF WorkerStep, LoopStep, DirStep, CheckQuit, PopOwn, Steal,
           AppendStolen, PopStolen, Park, Recheck, Unparked, NotifyWork, WakeForWork,
           WakeForQuit, StartRoot, PruneForeign, OpenFails, ReadDir, VisitEntry, EndOfDir
    <2>3. pc[w] # "setQuit"
      BY <1>4 DEF WorkerStep, LoopStep, DirStep, CheckQuit, PopOwn, Steal,
           AppendStolen, PopStolen, Park, Recheck, Unparked, NotifyWork, WakeForWork,
           WakeForQuit, StartRoot, PruneForeign, OpenFails, ReadDir, VisitEntry,
           EndOfDir, Descended, StartsAt
    <2>4. \A v \in Workers : pc[v] = "setQuit" => pc'[v] = "setQuit"
      BY <1>4, <2>3 DEF WorkerStep, LoopStep, DirStep, CheckQuit, PopOwn, Steal,
           AppendStolen, PopStolen, Park, Recheck, Unparked, NotifyWork, WakeForWork,
           WakeForQuit, StartRoot, PruneForeign, OpenFails, ReadDir, VisitEntry,
           EndOfDir, Take, NothingFound, Broadcast, StopWalk, ReturnEarly, Descend, TypeOK
    <2> QED
      BY <2>1, <2>2, <2>4 DEF ZeroEndsWalk
  <1> QED
    BY <1>1, <1>2, <1>3, <1>4

-----------------------------------------------------------------------------
(* The theorems.                                                           *)

LEMMA InitIInv == Init => IInv
  <1> SUFFICES ASSUME Init PROVE IInv
    OBVIOUS
  <1>1. TypeOK /\ Control
    BY InitTypeControl
  <1>2. ActiveCount
    <2>1. Counted = 0 .. NumWorkers - 1
      BY DEF Counted, Init, Workers
    <2>2. Cardinality(0 .. NumWorkers - 1) = NumWorkers
      BY FS_Interval, NumWorkersAssumption
    <2> QED
      BY <2>1, <2>2 DEF ActiveCount, Counted, Init
  <1>3. NoLostWakeup /\ ZeroEndsWalk
    BY NumWorkersAssumption DEF NoLostWakeup, ZeroEndsWalk, Init
  <1> QED
    BY <1>1, <1>2, <1>3 DEF IInv

LEMMA StepIInv == IInv /\ [Next]_vars => IInv'
  <1> SUFFICES ASSUME IInv, [Next]_vars PROVE IInv'
    OBVIOUS
  <1>1. TypeOK' /\ Control'
    BY StepTypeControl DEF IInv
  <1>2. CASE \E w \in Workers : WorkerStep(w)
    BY <1>1, <1>2, StepActiveCount, StepWakeup, StepZero DEF IInv
  <1>3. CASE UNCHANGED vars
    BY <1>1, <1>3 DEF IInv, ActiveCount, NoLostWakeup, ZeroEndsWalk,
         vars, shared, private, history
  <1> QED
    BY <1>2, <1>3 DEF Next, Returned

\* The inductive invariant holds throughout, for any pool and any tree.
THEOREM Inductive == Spec => []IInv
  BY InitIInv, StepIInv, PTL DEF Spec

\* Every variable keeps its type: in particular a frame never runs off its
\* directory's listing and steal never looks outside the pool.
THEOREM TypeCorrect == Spec => []TypeOK
  <1>1. IInv => TypeOK
    BY DEF IInv
  <1> QED
    BY <1>1, Inductive, PTL

\* The atomic counter equals the number of active workers.
THEOREM CounterExact == Spec => []ActiveCount
  <1>1. IInv => ActiveCount
    BY DEF IInv
  <1> QED
    BY <1>1, Inductive, PTL

\* A worker that is deactivating or parked holds no task.
THEOREM ParkedClean == Spec => []ParkedOwnsNothing
  <1>1. IInv => ParkedOwnsNothing
    BY DEF IInv, Control, Position, ParkedOwnsNothing, Emptied, Parked, InDir
  <1> QED
    BY <1>1, Inductive, PTL

\* No wakeup is lost between a push or a quit and the wait it should end.
THEOREM WakeupsArrive == Spec => []NoLostWakeup
  <1>1. IInv => NoLostWakeup
    BY DEF IInv
  <1> QED
    BY <1>1, Inductive, PTL

\* A counter of zero always leads to requestQuit.
THEOREM ZeroIsNoticed == Spec => []ZeroEndsWalk
  <1>1. IInv => ZeroEndsWalk
    BY DEF IInv
  <1> QED
    BY <1>1, Inductive, PTL

\* The workers never all wait for one another.
THEOREM PoolNeverStuck == Spec => []NobodyStuck
  <1>1. IInv => NobodyStuck
    <2> SUFFICES ASSUME IInv, \A w \in Workers : pc[w] = "waiting" PROVE FALSE
      BY DEF NobodyStuck
    <2>1. Counted = {}
      BY DEF IInv, Control, Position, Parked, Counted
    <2>2. active = 0
      BY <2>1, FS_EmptySet DEF IInv, ActiveCount, Counted
    <2>3. quit
      BY <2>2 DEF IInv, ZeroEndsWalk
    <2>4. 0 \in Workers
      BY NumWorkersAssumption DEF Workers
    <2> QED
      BY <2>3, <2>4 DEF IInv, NoLostWakeup
  <1> QED
    BY <1>1, Inductive, PTL

\* A zero counter means that every task left is in the hands of a worker about
\* to reactivate: what the quiescence test really establishes.
THEOREM QuietMeans == Spec => []QuietExceptReactivating
  <1>1. IInv => QuietExceptReactivating
    <2> SUFFICES ASSUME IInv, active = 0, NEW w \in Workers,
                        pc[w] \notin {"append", "popStolen", "reactivate"}
                 PROVE  queues[w] = << >> /\ batch[w] = << >> /\ stack[w] = << >>
      BY ZeroMeansAllIdle DEF IInv, QuietExceptReactivating
    <2>1. idle[w]
      BY ZeroMeansAllIdle DEF IInv
    <2> QED
      BY <2>1 DEF IInv, Control, Position, InDir
  <1> QED
    BY <1>1, Inductive, PTL

-----------------------------------------------------------------------------
(* The tasks of the walk: none is lost or doubled by stealing, and the     *)
(* walk implements the contract its caller sees.                           *)

-----------------------------------------------------------------------------
(* The inductive invariant.                                                *)

NoRepeat(s) == \A i, j \in 1 .. Len(s) : s[i] = s[j] => i = j
DirsDiffer(s) == \A i, j \in 1 .. Len(s) : s[i].dir = s[j].dir => i = j

\* The directories of a worker's frames, read or not.
Dirs(s) == {s[i].dir : i \in 1 .. Len(s)}

\* No directory is in two deques, slices or stacks, nor twice in one of them.
Apart(w, v) ==
    /\ w # v => /\ Elements(queues[w]) \cap Elements(queues[v]) = {}
                /\ Elements(batch[w]) \cap Elements(batch[v]) = {}
                /\ Dirs(stack[w]) \cap Dirs(stack[v]) = {}
    /\ Elements(queues[w]) \cap Elements(batch[v]) = {}
    /\ Elements(queues[w]) \cap Dirs(stack[v]) = {}
    /\ Elements(batch[w]) \cap Dirs(stack[v]) = {}
EachOnce ==
    /\ \A w \in Workers : NoRepeat(queues[w]) /\ NoRepeat(batch[w]) /\ DirsDiffer(stack[w])
    /\ \A w, v \in Workers : Apart(w, v)

\* A frame's directory is still to be read, or what follows in it is still to be visited.
FrameOK(f) ==
    IF f.next = 0 THEN Pending(f.dir)
    ELSE /\ reads[f.dir] > 0
         /\ \A k \in f.next .. Len(Listing[f.dir]) : visits[Listing[f.dir][k]] = 0

AllPending ==
    \A w \in Workers :
        /\ \A d \in Elements(queues[w]) \cup Elements(batch[w]) : Pending(d)
        /\ \A i \in 1 .. Len(stack[w]) : FrameOK(stack[w][i])

\* What notifyWork follows is the end of a directory.
AtEnd == \A w \in Workers : pc[w] \in {"notify", "wakeForWork"} => Top(w).next > Len(Listing[Top(w).dir])

\* Entries are visited after their directory was read, and expanded after they were visited.
ReadFirst ==
    /\ \A d \in Entry : reads[d] = 0 => \A k \in 1 .. Len(Listing[d]) : visits[Listing[d][k]] = 0
    /\ \A e \in Entry : visits[e] > 0 /\ e \notin RootSet =>
          \E d \in Entry : reads[d] > 0 /\ e \in Elements(Listing[d])
    /\ \A e \in Entry \ RootSet : visits[e] = 0 => reads[e] = 0 /\ e \notin dropped

InFrame(s, d) == \E i \in 1 .. Len(s) : s[i] = NewFrame(d)
Somewhere(d) ==
    \E w \in Workers : d \in Elements(queues[w]) \/ d \in Elements(batch[w]) \/ InFrame(stack[w], d)

\* The tasks in Rest are not queued yet (see SortedWalk's passes).
NoneLost(Rest) == ~asked => \A d \in Entry \ Rest : Pending(d) => Somewhere(d)

TInv(Rest) == EachOnce /\ AllPending /\ AtEnd /\ ReadFirst /\ NoneLost(Rest)

\* A lone worker sets quit only when it is about to return; others have one frame each,
\* and a directory started after quit was set is the worker's last.
AfterQuit ==
    /\ Single /\ quit => \A w \in Workers : pc[w] \in {"wakeForQuit", "done"}
    /\ ~Single => \A w \in Workers : Len(stack[w]) <= 1
    /\ \A w \in Workers : late[w] > 0 =>
        /\ quit /\ late[w] = 1
        /\ pc[w] \in {"run", "dir", "notify", "wakeForWork", "setQuit", "wakeForQuit", "done"}
        /\ pc[w] = "dir" => Top(w).next # 0

-----------------------------------------------------------------------------
(* What the operations on deques and stacks do to their elements.          *)

\* pop takes the last task and leaves the others.
LEMMA PopElements ==
    ASSUME NEW s \in Seq(Entry), s # << >>, NoRepeat(s)
    PROVE  /\ NoRepeat(Pop(s))
           /\ s[Len(s)] \in Elements(s)
           /\ Elements(Pop(s)) = Elements(s) \ {s[Len(s)]}
  <1>1. Len(s) \in Nat \ {0}
    BY EmptySeq
  <1>2. Len(Pop(s)) = Len(s) - 1 /\ \A i \in 1 .. Len(s) - 1 : Pop(s)[i] = s[i]
    <2> DEFINE n == Len(s) - 1
    <2>1. n \in Nat /\ n <= Len(s)
      BY <1>1
    <2>2. Len(SubSeq(s, 1, n)) = n /\ \A i \in 1 .. n : SubSeq(s, 1, n)[i] = s[i]
      <3> HIDE DEF n
      <3> QED
        BY <2>1
    <2> QED
      BY <2>2 DEF Pop
  <1> QED
    BY <1>1, <1>2 DEF NoRepeat, Elements

\* stealBatch cuts a deque in two, and every task is in one of the halves.
LEMMA HalvesElements ==
    ASSUME NEW q \in Seq(Entry), q # << >>, NoRepeat(q)
    PROVE  /\ NoRepeat(Stolen(q)) /\ NoRepeat(Left(q))
           /\ Elements(Stolen(q)) \cap Elements(Left(q)) = {}
           /\ Elements(Stolen(q)) \cup Elements(Left(q)) = Elements(q)
  <1> DEFINE n == Len(q)
             h == Half(q)
  <1>1. n \in Nat \ {0} /\ h \in 0 .. n
    BY EmptySeq, HalfRange DEF Half
  <1>2. /\ Len(Stolen(q)) = h /\ \A i \in 1 .. h : Stolen(q)[i] = q[i]
        /\ Len(Left(q)) = n - h /\ \A i \in 1 .. n - h : Left(q)[i] = q[h + i]
    <2>1. /\ Len(SubSeq(q, 1, h)) = h /\ \A i \in 1 .. h : SubSeq(q, 1, h)[i] = q[i]
      <3> HIDE DEF h
      <3> QED
        BY <1>1
    <2>2. /\ Len(SubSeq(q, h + 1, n)) = n - h
          /\ \A i \in 1 .. n - h : SubSeq(q, h + 1, n)[i] = q[h + i]
      <3> HIDE DEF h
      <3> QED
        BY <1>1
    <2> QED
      BY <2>1, <2>2 DEF Stolen, Left
  <1> HIDE DEF h
  <1>3. NoRepeat(Stolen(q)) /\ NoRepeat(Left(q))
    <2>1. \A i, j \in 1 .. n : q[i] = q[j] => i = j
      BY DEF NoRepeat
    <2>2. NoRepeat(Stolen(q))
      BY <1>1, <1>2, <2>1 DEF NoRepeat
    <2>3. ASSUME NEW i \in 1 .. n - h, NEW j \in 1 .. n - h, Left(q)[i] = Left(q)[j]
          PROVE  i = j
      <3>1. h + i \in 1 .. n /\ h + j \in 1 .. n /\ q[h + i] = q[h + j]
        BY <1>1, <1>2, <2>3
      <3> QED
        BY <3>1, <2>1, <1>1
    <2> QED
      BY <2>2, <2>3, <1>2 DEF NoRepeat
  <1>4. Elements(Stolen(q)) \cap Elements(Left(q)) = {}
    BY <1>1, <1>2 DEF NoRepeat, Elements
  <1>5. Elements(Stolen(q)) \cup Elements(Left(q)) = Elements(q)
    <2>1. Elements(Stolen(q)) \cup Elements(Left(q)) \subseteq Elements(q)
      BY <1>1, <1>2 DEF Elements
    <2>2. ASSUME NEW k \in 1 .. n
          PROVE  q[k] \in Elements(Stolen(q)) \cup Elements(Left(q))
      <3>1. CASE k <= h
        BY <3>1, <1>1, <1>2 DEF Elements
      <3>2. CASE k > h
        <4>1. k - h \in 1 .. n - h /\ h + (k - h) = k
          BY <3>2, <1>1
        <4> QED
          BY <4>1, <1>2 DEF Elements
      <3> QED
        BY <3>1, <3>2, <1>1
    <2> QED
      BY <2>1, <2>2 DEF Elements
  <1> QED
    BY <1>3, <1>4, <1>5

\* Appending a slice, or a single task, adds its elements.
LEMMA ConcatElements ==
    ASSUME NEW s \in Seq(Entry), NEW t \in Seq(Entry), NoRepeat(s), NoRepeat(t),
           Elements(s) \cap Elements(t) = {}
    PROVE  NoRepeat(s \o t) /\ Elements(s \o t) = Elements(s) \cup Elements(t)
  <1>1. Len(s) \in Nat /\ Len(t) \in Nat
    OBVIOUS
  <1>2. /\ Len(s \o t) = Len(s) + Len(t)
        /\ \A i \in 1 .. Len(s) : (s \o t)[i] = s[i]
        /\ \A i \in Len(s) + 1 .. Len(s) + Len(t) : (s \o t)[i] = t[i - Len(s)]
    BY ConcatProperties
  <1> DEFINE u == s \o t
  <1> HIDE DEF u
  <1>3. \A i \in 1 .. Len(u) : \/ i \in 1 .. Len(s) /\ u[i] = s[i]
                               \/ i - Len(s) \in 1 .. Len(t) /\ u[i] = t[i - Len(s)]
    BY <1>1, <1>2 DEF u
  <1>4. NoRepeat(u)
    <2> SUFFICES ASSUME NEW i \in 1 .. Len(u), NEW j \in 1 .. Len(u), u[i] = u[j] PROVE i = j
      BY DEF NoRepeat
    <2>1. \A k \in 1 .. Len(s), l \in 1 .. Len(t) : s[k] # t[l]
      BY DEF Elements
    <2>2. \A k, l \in 1 .. Len(s) : s[k] = s[l] => k = l
      BY DEF NoRepeat
    <2>3. \A k, l \in 1 .. Len(t) : t[k] = t[l] => k = l
      BY DEF NoRepeat
    <2>4. i \in Int /\ j \in Int
      BY <1>1, <1>2 DEF u
    <2>5. CASE i \in 1 .. Len(s) /\ u[i] = s[i]
      BY <2>1, <2>2, <2>5, <1>3
    <2>6. CASE i - Len(s) \in 1 .. Len(t) /\ u[i] = t[i - Len(s)]
      <3>1. CASE j \in 1 .. Len(s) /\ u[j] = s[j]
        BY <3>1, <2>1, <2>6
      <3>2. CASE j - Len(s) \in 1 .. Len(t) /\ u[j] = t[j - Len(s)]
        <4>1. i - Len(s) = j - Len(s)
          BY <3>2, <2>6, <2>3
        <4> QED
          BY <4>1, <2>4, <1>1
      <3> QED
        BY <3>1, <3>2, <1>3
    <2> QED
      BY <2>5, <2>6, <1>3
  <1>5. Elements(u) \subseteq Elements(s) \cup Elements(t)
    BY <1>3 DEF Elements
  <1>6. Elements(s) \subseteq Elements(u)
    BY <1>1, <1>2 DEF Elements, u
  <1>7. Elements(t) \subseteq Elements(u)
    <2> SUFFICES ASSUME NEW k \in 1 .. Len(t) PROVE t[k] \in Elements(u)
      BY DEF Elements
    <2>1. k + Len(s) \in 1 .. Len(u) /\ u[k + Len(s)] = t[k]
      BY <1>1, <1>2 DEF u
    <2> QED
      BY <2>1 DEF Elements
  <1> QED
    BY <1>4, <1>5, <1>6, <1>7 DEF u

LEMMA AppendElements ==
    ASSUME NEW s \in Seq(Entry), NEW e \in Entry, NoRepeat(s), e \notin Elements(s)
    PROVE  NoRepeat(Append(s, e)) /\ Elements(Append(s, e)) = Elements(s) \cup {e}
  <1>1. /\ Len(s) \in Nat /\ Len(Append(s, e)) = Len(s) + 1
        /\ \A i \in 1 .. Len(s) : Append(s, e)[i] = s[i]
        /\ Append(s, e)[Len(s) + 1] = e
    BY AppendProperties
  <1> QED
    BY <1>1 DEF NoRepeat, Elements

\* processDir returns: the top frame leaves the stack.
LEMMA PopFrames ==
    ASSUME NEW s \in Seq(Frame), s # << >>, DirsDiffer(s)
    PROVE  /\ Pop(s) \in Seq(Frame) /\ Len(Pop(s)) = Len(s) - 1 /\ Len(s) \in Nat \ {0}
           /\ \A i \in 1 .. Len(Pop(s)) : i \in 1 .. Len(s) /\ Pop(s)[i] = s[i]
           /\ DirsDiffer(Pop(s))
           /\ Dirs(Pop(s)) = Dirs(s) \ {s[Len(s)].dir}
           /\ \A d \in Entry : InFrame(s, d) => InFrame(Pop(s), d) \/ s[Len(s)] = NewFrame(d)
  <1> DEFINE n == Len(s) - 1
             t == Pop(s)
  <1>1. Len(s) \in Nat \ {0} /\ n \in Nat /\ n <= Len(s) /\ n + 1 = Len(s)
    BY EmptySeq
  <1>2. t \in Seq(Frame) /\ Len(t) = n /\ \A i \in 1 .. n : t[i] = s[i]
    <2>1. /\ SubSeq(s, 1, n) \in Seq(Frame)
          /\ Len(SubSeq(s, 1, n)) = n /\ \A i \in 1 .. n : SubSeq(s, 1, n)[i] = s[i]
      <3> HIDE DEF n
      <3> QED
        BY <1>1
    <2> QED
      BY <2>1 DEF Pop
  <1> HIDE DEF n, t
  <1>3. \A i \in 1 .. Len(s) : i \in 1 .. n \/ i = Len(s)
    BY <1>1
  <1>4. \A i, j \in 1 .. Len(s) : s[i].dir = s[j].dir => i = j
    BY DEF DirsDiffer
  <1>5. DirsDiffer(t)
    BY <1>1, <1>2, <1>4 DEF DirsDiffer
  <1>6. Dirs(t) = Dirs(s) \ {s[Len(s)].dir}
    BY <1>1, <1>2, <1>3, <1>4 DEF Dirs
  <1>7. \A d \in Entry : InFrame(s, d) => InFrame(t, d) \/ s[Len(s)] = NewFrame(d)
    BY <1>1, <1>2, <1>3 DEF InFrame
  <1> QED
    BY <1>1, <1>2, <1>5, <1>6, <1>7 DEF t, n

\* The readdir loop moves on in the top frame.
Advanced(s, n) == [s EXCEPT ![Len(s)].next = n]
LEMMA AdvanceFrames ==
    ASSUME NEW s \in Seq(Frame), s # << >>, DirsDiffer(s), NEW n \in Nat \ {0},
           NEW t, t = Advanced(s, n)
    PROVE  /\ t \in Seq(Frame) /\ Len(t) = Len(s) /\ Len(s) \in Nat \ {0}
           /\ t[Len(s)] = [dir |-> s[Len(s)].dir, next |-> n]
           /\ \A i \in 1 .. Len(s) : i # Len(s) => t[i] = s[i]
           /\ DirsDiffer(t)
           /\ Dirs(t) = Dirs(s)
           /\ \A d \in Entry : InFrame(s, d) => InFrame(t, d) \/ s[Len(s)] = NewFrame(d)
  <1>1. Len(s) \in Nat \ {0} /\ s[Len(s)] \in Frame
    BY EmptySeq
  <1> DEFINE f == [dir |-> s[Len(s)].dir, next |-> n]
  <1>2. f \in Frame /\ [s[Len(s)] EXCEPT !.next = n] = f
    BY <1>1 DEF Frame
  <1>3. t = [s EXCEPT ![Len(s)] = f]
    BY <1>2 DEF Advanced
  <1> HIDE DEF f
  <1>4. /\ t \in Seq(Frame) /\ Len(t) = Len(s)
        /\ \A i \in 1 .. Len(s) : t[i] = IF i = Len(s) THEN f ELSE s[i]
    BY <1>1, <1>2, <1>3, ExceptSeq
  <1>5. \A i \in 1 .. Len(s) : t[i].dir = s[i].dir
    BY <1>4 DEF f
  <1>6. DirsDiffer(t) /\ Dirs(t) = Dirs(s)
    BY <1>4, <1>5 DEF DirsDiffer, Dirs
  <1>7. \A d \in Entry : InFrame(s, d) => InFrame(t, d) \/ s[Len(s)] = NewFrame(d)
    BY <1>4 DEF InFrame
  <1>8. t[Len(s)] = f
    BY <1>1, <1>4
  <1> QED
    BY <1>1, <1>4, <1>6, <1>7, <1>8 DEF f

\* The recursion of a lone worker: a new frame on top.
Push(s, e) == Append(s, NewFrame(e))
LEMMA PushFrames ==
    ASSUME NEW s \in Seq(Frame), DirsDiffer(s), NEW e \in Entry, e \notin Dirs(s),
           NEW t, t = Push(s, e)
    PROVE  /\ Len(s) \in Nat /\ Len(t) = Len(s) + 1
           /\ t[Len(s) + 1] = NewFrame(e)
           /\ \A i \in 1 .. Len(s) : t[i] = s[i]
           /\ DirsDiffer(t)
           /\ Dirs(t) = Dirs(s) \cup {e}
           /\ InFrame(t, e)
           /\ \A d \in Entry : InFrame(s, d) => InFrame(t, d)
  <1>1. NewFrame(e) \in Frame /\ NewFrame(e).dir = e
    BY DEF NewFrame, Frame
  <1> DEFINE f == NewFrame(e)
  <1> HIDE DEF f
  <1>2. /\ Len(s) \in Nat /\ Len(t) = Len(s) + 1
        /\ t[Len(s) + 1] = f
        /\ \A i \in 1 .. Len(s) : t[i] = s[i]
    <2>1. f \in Frame /\ t = Append(s, f)
      BY <1>1 DEF f, Push
    <2> QED
      BY <2>1, AppendProperties
  <1>3. f.dir = e /\ \A i \in 1 .. Len(s) : s[i].dir # e
    BY <1>1 DEF f, Dirs
  <1>4. \A i \in 1 .. Len(t) : i \in 1 .. Len(s) \/ i = Len(s) + 1
    BY <1>2
  <1>5. DirsDiffer(t)
    BY <1>2, <1>3, <1>4 DEF DirsDiffer
  <1>6. Dirs(t) = Dirs(s) \cup {e}
    BY <1>2, <1>3, <1>4 DEF Dirs
  <1>7. InFrame(t, e) /\ \A d \in Entry : InFrame(s, d) => InFrame(t, d)
    BY <1>2 DEF InFrame, f
  <1> QED
    BY <1>2, <1>5, <1>6, <1>7 DEF f

\* The task that pop yields becomes the only frame.
LEMMA OneFrame ==
    ASSUME NEW e \in Entry, NEW t, t = <<NewFrame(e)>>
    PROVE  /\ Len(t) = 1 /\ t[1] = NewFrame(e) /\ t[Len(t)].dir = e
           /\ DirsDiffer(t) /\ Dirs(t) = {e} /\ InFrame(t, e)
  BY DEF NewFrame, DirsDiffer, Dirs, InFrame

LEMMA NoFrame == Len(<< >>) = 0 /\ DirsDiffer(<< >>) /\ Dirs(<< >>) = {}
  BY DEF DirsDiffer, Dirs

-----------------------------------------------------------------------------
(* Steps that move tasks and expand none.                                  *)

\* Whether a task is pending depends on three histories only.
LEMMA SamePending ==
    ASSUME UNCHANGED <<visits, reads, dropped>>
    PROVE  /\ \A d \in Entry : Pending(d)' = Pending(d)
           /\ \A f \in Frame : FrameOK(f)' = FrameOK(f)
           /\ ReadFirst' = ReadFirst
  <1>1. \A d \in Entry : Pending(d)' = Pending(d)
    BY DEF Pending
  <1>2. \A f \in Frame : FrameOK(f)' = FrameOK(f)
    BY DEF Pending, FrameOK
  <1>3. ReadFirst' = ReadFirst
    BY DEF ReadFirst
  <1> QED
    BY <1>1, <1>2, <1>3

LEMMA ElementsType ==
    ASSUME TypeOK, NEW w \in Workers
    PROVE  /\ Elements(queues[w]) \cup Elements(batch[w]) \subseteq Entry
           /\ \A i \in 1 .. Len(stack[w]) : stack[w][i] \in Frame
  <1>1. queues[w] \in Seq(Entry) /\ batch[w] \in Seq(Entry) /\ stack[w] \in Seq(Frame)
    BY DEF TypeOK
  <1> QED
    BY <1>1 DEF Elements

\* Nothing moves: only the worker's position changes.
LEMMA NothingMoves ==
    ASSUME NEW Rest, TypeOK, TInv(Rest), UNCHANGED <<queues, batch, stack, visits, reads, dropped, asked>>,
           \A w \in Workers : pc'[w] \in {"notify", "wakeForWork"} =>
               pc[w] \in {"notify", "wakeForWork"} \/ Top(w).next > Len(Listing[Top(w).dir])
    PROVE  TInv(Rest)'
  <1>1. EachOnce'
    BY DEF TInv, EachOnce, Apart
  <1>2. AllPending'
    <2>1. \A w \in Workers : /\ Elements(queues[w]) \cup Elements(batch[w]) \subseteq Entry
                             /\ \A i \in 1 .. Len(stack[w]) : stack[w][i] \in Frame
      BY ElementsType
    <2> QED
      BY <2>1, SamePending DEF TInv, AllPending
  <1>3. AtEnd'
    BY DEF TInv, AtEnd, Top
  <1>4. ReadFirst'
    BY SamePending DEF TInv
  <1>5. NoneLost(Rest)'
    BY SamePending DEF TInv, NoneLost, Somewhere
  <1> QED
    BY <1>1, <1>2, <1>3, <1>4, <1>5 DEF TInv

\* pop: the last task of a deque becomes the worker's only frame.
LEMMA TakeTasks ==
    ASSUME NEW Rest, TypeOK, TInv(Rest), NEW w \in Workers, Take(w), stack[w] = << >>,
           UNCHANGED <<batch, visits, reads, dropped, asked>>
    PROVE  TInv(Rest)'
  <1> DEFINE d == queues[w][Len(queues[w])]
  <1>1. /\ queues[w] \in Seq(Entry) /\ queues[w] # << >> /\ NoRepeat(queues[w]) /\ d \in Entry
        /\ queues' = [queues EXCEPT ![w] = Pop(queues[w])]
        /\ stack' = [stack EXCEPT ![w] = <<NewFrame(d)>>]
        /\ \A v \in Workers : pc'[v] \in {"notify", "wakeForWork"} => v # w /\ pc[v] = pc'[v]
    <2>1. \A v \in Workers : pc'[v] \in {"notify", "wakeForWork"} => v # w /\ pc[v] = pc'[v]
      BY DEF Take, TypeOK, Goto
    <2> QED
      BY <2>1, PopType DEF Take, TypeOK, TInv, EachOnce
  <1>2. /\ NoRepeat(queues'[w]) /\ d \in Elements(queues[w])
        /\ Elements(queues'[w]) = Elements(queues[w]) \ {d}
    BY <1>1, PopElements DEF TypeOK
  <1>3. stack'[w] = <<NewFrame(d)>>
    BY <1>1 DEF TypeOK
  <1>4. /\ Len(stack'[w]) = 1 /\ stack'[w][1] = NewFrame(d)
        /\ DirsDiffer(stack'[w]) /\ Dirs(stack'[w]) = {d} /\ InFrame(stack'[w], d)
    <2> HIDE DEF d
    <2> QED
      BY <1>1, <1>3, OneFrame
  <1>5. \A v \in Workers : v # w => queues'[v] = queues[v] /\ stack'[v] = stack[v]
    BY <1>1 DEF TypeOK
  <1>6. ~InFrame(stack[w], d) /\ \A x \in Entry : ~InFrame(stack[w], x)
    BY DEF InFrame
  <1> HIDE DEF d
  <1>7. EachOnce'
    <2>1. \A v \in Workers : NoRepeat(queues'[v]) /\ NoRepeat(batch'[v]) /\ DirsDiffer(stack'[v])
      BY <1>2, <1>4, <1>5 DEF TInv, EachOnce
    <2>2. \A v \in Workers : /\ Elements(queues'[v]) = Elements(queues[v]) \ {d}
                             /\ Elements(batch'[v]) = Elements(batch[v])
                             /\ v # w => Dirs(stack'[v]) = Dirs(stack[v]) /\ d \notin Dirs(stack[v])
                             /\ d \notin Elements(batch[v])
      BY <1>2, <1>4, <1>5 DEF TInv, EachOnce, Apart
    <2>3. ASSUME NEW v \in Workers, NEW u \in Workers
          PROVE  Apart(v, u)'
      <3>1. Apart(v, u)
        BY DEF TInv, EachOnce
      <3>2. /\ Elements(queues'[v]) = Elements(queues[v]) \ {d}
            /\ Elements(queues'[u]) = Elements(queues[u]) \ {d}
            /\ Elements(batch'[v]) = Elements(batch[v]) /\ d \notin Elements(batch[v])
            /\ Elements(batch'[u]) = Elements(batch[u])
        BY <2>2
      <3>3. /\ u = w => Dirs(stack'[u]) = {d}
            /\ v = w => Dirs(stack'[v]) = {d}
            /\ u # w => Dirs(stack'[u]) = Dirs(stack[u]) /\ d \notin Dirs(stack[u])
            /\ v # w => Dirs(stack'[v]) = Dirs(stack[v]) /\ d \notin Dirs(stack[v])
        BY <1>4, <2>2
      <3>4. v # u => Dirs(stack'[v]) \cap Dirs(stack'[u]) = {}
        BY <3>1, <3>3 DEF Apart
      <3>5. /\ Elements(queues'[v]) \cap Dirs(stack'[u]) = {}
            /\ Elements(batch'[v]) \cap Dirs(stack'[u]) = {}
        BY <3>1, <3>2, <3>3 DEF Apart
      <3> QED
        BY <3>1, <3>2, <3>4, <3>5 DEF Apart
    <2> QED
      BY <2>1, <2>3 DEF EachOnce
  <1>8. Pending(d)
    BY <1>2 DEF TInv, AllPending
  <1>9. AllPending'
    <2>1. \A v \in Workers : \A x \in Elements(queues'[v]) \cup Elements(batch'[v]) : x \in Entry /\ Pending(x)
      <3>1. \A v \in Workers : Elements(queues'[v]) \cup Elements(batch'[v])
                                \subseteq Elements(queues[v]) \cup Elements(batch[v])
        BY <1>2, <1>5
      <3>2. \A v \in Workers : Elements(queues[v]) \cup Elements(batch[v]) \subseteq Entry
        BY ElementsType
      <3> QED
        BY <3>1, <3>2 DEF TInv, AllPending
    <2>2. \A v \in Workers : \A i \in 1 .. Len(stack'[v]) : stack'[v][i] \in Frame /\ FrameOK(stack'[v][i])
      <3>1. NewFrame(d) \in Frame /\ FrameOK(NewFrame(d))
        BY <1>1, <1>8 DEF FrameOK, NewFrame, Frame
      <3>2. \A v \in Workers : \A i \in 1 .. Len(stack[v]) : stack[v][i] \in Frame /\ FrameOK(stack[v][i])
        BY DEF TInv, AllPending, TypeOK
      <3> QED
        BY <3>1, <3>2, <1>4, <1>5
    <2> QED
      BY <2>1, <2>2, SamePending DEF AllPending
  <1>10. AtEnd'
    BY <1>1, <1>5 DEF TInv, AtEnd, Top
  <1>11. ReadFirst'
    BY SamePending DEF TInv
  <1>12. NoneLost(Rest)'
    <2> SUFFICES ASSUME ~asked', NEW x \in Entry \ Rest, Pending(x)' PROVE Somewhere(x)'
      BY DEF NoneLost
    <2>1. Somewhere(x)
      BY SamePending DEF TInv, NoneLost
    <2>2. CASE x = d
      BY <2>2, <1>4 DEF Somewhere
    <2>3. CASE x # d
      BY <2>1, <2>3, <1>2, <1>5, <1>6 DEF Somewhere
    <2> QED
      BY <2>2, <2>3
  <1> QED
    BY <1>7, <1>9, <1>10, <1>11, <1>12 DEF TInv

\* stealBatch, the victim's half: the older tasks become the thief's slice.
LEMMA StealTasks ==
    ASSUME NEW Rest, TypeOK, TInv(Rest),
           NEW w \in Workers, NEW x \in Workers, batch[w] = << >>, queues[x] # << >>,
           batch' = [batch EXCEPT ![w] = Stolen(queues[x])],
           queues' = [queues EXCEPT ![x] = Left(queues[x])],
           \A v \in Workers : pc'[v] \in {"notify", "wakeForWork"} => pc'[v] = pc[v],
           UNCHANGED <<stack, visits, reads, dropped, asked>>
    PROVE  TInv(Rest)'
  <1> DEFINE S == Elements(Stolen(queues[x]))
             R == Elements(Left(queues[x]))
  <1>1. /\ queues[x] \in Seq(Entry) /\ NoRepeat(queues[x])
        /\ NoRepeat(batch'[w]) /\ NoRepeat(queues'[x])
        /\ Elements(batch'[w]) = S /\ Elements(queues'[x]) = R
        /\ S \cap R = {} /\ S \cup R = Elements(queues[x])
    <2>1. queues[x] \in Seq(Entry) /\ NoRepeat(queues[x])
      BY DEF TypeOK, TInv, EachOnce
    <2>2. batch'[w] = Stolen(queues[x]) /\ queues'[x] = Left(queues[x])
      BY DEF TypeOK
    <2> QED
      BY <2>1, <2>2, HalvesElements
  <1>2. \A v \in Workers : /\ v # w => batch'[v] = batch[v]
                           /\ v # x => queues'[v] = queues[v]
    BY DEF TypeOK
  <1>3. Elements(batch[w]) = {}
    BY DEF Elements
  <1> HIDE DEF S, R
  <1>4. EachOnce'
    <2>1. \A v \in Workers : NoRepeat(queues'[v]) /\ NoRepeat(batch'[v]) /\ DirsDiffer(stack'[v])
      BY <1>1, <1>2 DEF TInv, EachOnce
    <2>2. ASSUME NEW v \in Workers, NEW u \in Workers
          PROVE  Apart(v, u)'
      <3>1. Apart(v, u) /\ Apart(x, u) /\ Apart(v, x) /\ Apart(u, x)
        BY DEF TInv, EachOnce
      <3>2. /\ Elements(queues'[v]) = IF v = x THEN R ELSE Elements(queues[v])
            /\ Elements(queues'[u]) = IF u = x THEN R ELSE Elements(queues[u])
            /\ Elements(batch'[v]) = IF v = w THEN S ELSE Elements(batch[v])
            /\ Elements(batch'[u]) = IF u = w THEN S ELSE Elements(batch[u])
        BY <1>1, <1>2
      <3>3. S \subseteq Elements(queues[x]) /\ R \subseteq Elements(queues[x])
        BY <1>1
      <3>4. v # u => Elements(queues'[v]) \cap Elements(queues'[u]) = {}
        BY <3>1, <3>2, <3>3 DEF Apart
      <3>5. v # u => Elements(batch'[v]) \cap Elements(batch'[u]) = {}
        <4>1. /\ S \cap Elements(batch[u]) = {} /\ S \cap Elements(batch[v]) = {}
              /\ v # u => Elements(batch[v]) \cap Elements(batch[u]) = {}
          <5>1. /\ Elements(queues[x]) \cap Elements(batch[u]) = {}
                /\ Elements(queues[x]) \cap Elements(batch[v]) = {}
            BY DEF TInv, EachOnce, Apart
          <5> QED
            BY <5>1, <3>1, <3>3 DEF Apart
        <4> QED
          BY <4>1, <3>2
      <3>6. v # u => /\ Elements(queues'[v]) \cap Elements(queues'[u]) = {}
                     /\ Elements(batch'[v]) \cap Elements(batch'[u]) = {}
        BY <3>4, <3>5
      <3>7. Elements(queues'[v]) \cap Elements(batch'[u]) = {}
        BY <1>1, <3>1, <3>2 DEF Apart
      <3>8. /\ Elements(queues'[v]) \cap Dirs(stack'[u]) = {}
            /\ Elements(batch'[v]) \cap Dirs(stack'[u]) = {}
        BY <1>1, <3>1, <3>2 DEF Apart
      <3> QED
        BY <3>1, <3>6, <3>7, <3>8 DEF Apart
    <2> QED
      BY <2>1, <2>2 DEF EachOnce
  <1>5. AllPending'
    <2>1. \A v \in Workers : \A d \in Elements(queues'[v]) \cup Elements(batch'[v]) : d \in Entry /\ Pending(d)
      <3>1. \A v \in Workers : \A d \in Elements(queues[v]) \cup Elements(batch[v]) : d \in Entry /\ Pending(d)
        BY ElementsType DEF TInv, AllPending
      <3> QED
        BY <3>1, <1>1, <1>2
    <2>2. \A v \in Workers : \A i \in 1 .. Len(stack[v]) : stack[v][i] \in Frame /\ FrameOK(stack[v][i])
      BY ElementsType DEF TInv, AllPending
    <2> QED
      BY <2>1, <2>2, SamePending DEF AllPending
  <1>6. AtEnd'
    BY DEF TInv, AtEnd, Top
  <1>7. ReadFirst'
    BY SamePending DEF TInv
  <1>8. NoneLost(Rest)'
    <2> SUFFICES ASSUME ~asked', NEW d \in Entry \ Rest, Pending(d)' PROVE Somewhere(d)'
      BY DEF NoneLost
    <2>1. Somewhere(d)
      BY SamePending DEF TInv, NoneLost
    <2> QED
      BY <2>1, <1>1, <1>2, <1>3 DEF Somewhere
  <1> QED
    BY <1>4, <1>5, <1>6, <1>7, <1>8 DEF TInv

\* stealBatch, the thief's half: the slice goes onto its own deque.
LEMMA AppendTasks ==
    ASSUME NEW Rest, TypeOK, TInv(Rest), NEW w \in Workers, AppendStolen(w)
    PROVE  TInv(Rest)'
  <1>1. /\ queues' = [queues EXCEPT ![w] = queues[w] \o batch[w]]
        /\ batch' = [batch EXCEPT ![w] = << >>]
        /\ \A v \in Workers : pc'[v] \in {"notify", "wakeForWork"} => pc'[v] = pc[v]
        /\ UNCHANGED <<stack, visits, reads, dropped, asked>>
    BY DEF AppendStolen, TypeOK, Goto, history
  <1>2. /\ NoRepeat(queues'[w]) /\ Elements(queues'[w]) = Elements(queues[w]) \cup Elements(batch[w])
        /\ NoRepeat(batch'[w]) /\ Elements(batch'[w]) = {}
    <2>1. queues'[w] = queues[w] \o batch[w] /\ batch'[w] = << >>
      BY <1>1 DEF TypeOK
    <2>2. /\ queues[w] \in Seq(Entry) /\ batch[w] \in Seq(Entry)
          /\ NoRepeat(queues[w]) /\ NoRepeat(batch[w])
          /\ Elements(queues[w]) \cap Elements(batch[w]) = {}
      BY DEF TypeOK, TInv, EachOnce, Apart
    <2>3. NoRepeat(<< >>) /\ Elements(<< >>) = {}
      BY DEF NoRepeat, Elements
    <2> QED
      BY <2>1, <2>2, <2>3, ConcatElements
  <1>3. \A v \in Workers : v # w => batch'[v] = batch[v] /\ queues'[v] = queues[v]
    BY <1>1 DEF TypeOK
  <1>4. EachOnce'
    <2>1. \A v \in Workers : NoRepeat(queues'[v]) /\ NoRepeat(batch'[v]) /\ DirsDiffer(stack'[v])
      BY <1>1, <1>2, <1>3 DEF TInv, EachOnce
    <2>2. ASSUME NEW v \in Workers, NEW u \in Workers
          PROVE  Apart(v, u)'
      <3>1. Apart(v, u) /\ Apart(u, v)
        BY DEF TInv, EachOnce
      <3>2. /\ Elements(queues'[v]) = IF v = w THEN Elements(queues[v]) \cup Elements(batch[v]) ELSE Elements(queues[v])
            /\ Elements(queues'[u]) = IF u = w THEN Elements(queues[u]) \cup Elements(batch[u]) ELSE Elements(queues[u])
            /\ Elements(batch'[v]) = IF v = w THEN {} ELSE Elements(batch[v])
            /\ Elements(batch'[u]) = IF u = w THEN {} ELSE Elements(batch[u])
        BY <1>2, <1>3
      <3>3. v # u => /\ Elements(queues'[v]) \cap Elements(queues'[u]) = {}
                     /\ Elements(batch'[v]) \cap Elements(batch'[u]) = {}
        BY <3>1, <3>2 DEF Apart
      <3>4. Elements(queues'[v]) \cap Elements(batch'[u]) = {}
        BY <3>1, <3>2 DEF Apart
      <3>5. /\ Elements(queues'[v]) \cap Dirs(stack'[u]) = {}
            /\ Elements(batch'[v]) \cap Dirs(stack'[u]) = {}
        BY <3>1, <3>2, <1>1 DEF Apart
      <3> QED
        BY <3>1, <3>3, <3>4, <3>5, <1>1 DEF Apart
    <2> QED
      BY <2>1, <2>2 DEF EachOnce
  <1>5. AllPending'
    <2>1. \A v \in Workers : \A d \in Elements(queues'[v]) \cup Elements(batch'[v]) : d \in Entry /\ Pending(d)
      <3>1. \A v \in Workers : \A d \in Elements(queues[v]) \cup Elements(batch[v]) : d \in Entry /\ Pending(d)
        BY ElementsType DEF TInv, AllPending
      <3> QED
        BY <3>1, <1>2, <1>3
    <2>2. \A v \in Workers : \A i \in 1 .. Len(stack[v]) : stack[v][i] \in Frame /\ FrameOK(stack[v][i])
      BY ElementsType DEF TInv, AllPending
    <2> QED
      BY <1>1, <2>1, <2>2, SamePending DEF AllPending
  <1>6. AtEnd'
    BY <1>1 DEF TInv, AtEnd, Top
  <1>7. ReadFirst'
    BY <1>1, SamePending DEF TInv
  <1>8. NoneLost(Rest)'
    <2> SUFFICES ASSUME ~asked', NEW d \in Entry \ Rest, Pending(d)' PROVE Somewhere(d)'
      BY DEF NoneLost
    <2>1. Somewhere(d)
      BY <1>1, SamePending DEF TInv, NoneLost
    <2> QED
      BY <2>1, <1>1, <1>2, <1>3 DEF Somewhere
  <1> QED
    BY <1>4, <1>5, <1>6, <1>7, <1>8 DEF TInv

\* processDir returns at the end of a directory: only a frame that was read goes.
LEMMA ReturnTasks ==
    ASSUME NEW Rest, TypeOK, Control, TInv(Rest), NEW w \in Workers, WakeForWork(w)
    PROVE  TInv(Rest)'
  <1> DEFINE s == stack[w]
  <1>1. /\ s \in Seq(Frame) /\ s # << >> /\ DirsDiffer(s) /\ s[Len(s)].next # 0
        /\ stack' = [stack EXCEPT ![w] = Pop(s)]
        /\ \A v \in Workers : pc'[v] \in {"notify", "wakeForWork"} => v # w /\ pc'[v] = pc[v]
        /\ UNCHANGED <<queues, batch, visits, reads, dropped, asked>>
    <2>1. /\ stack' = [stack EXCEPT ![w] = Pop(s)] /\ pc[w] = "wakeForWork"
          /\ UNCHANGED <<queues, batch, visits, reads, dropped, asked>>
      BY DEF WakeForWork, shared, history
    <2>2. \A v \in Workers : pc'[v] \in {"notify", "wakeForWork"} => v # w /\ pc'[v] = pc[v]
      <3>1. \A v \in Workers : pc'[v] = IF v = w THEN IF Len(stack[w]) > 1 THEN "dir" ELSE "run"
                                        ELSE IF pc[v] = "waiting" THEN "woken" ELSE pc[v]
        BY DEF WakeForWork, Broadcast
      <3> QED
        BY <3>1
    <2>3. s # << >>
      BY <2>1 DEF Control, Position, InDir
    <2>4. s[Len(s)].next # 0
      <3>1. s \in Seq(Frame) /\ Top(w) = s[Len(s)]
        BY DEF TypeOK, Top
      <3>2. Top(w) \in Frame
        BY <2>3, <3>1, EmptySeq
      <3>3. Listing[Top(w).dir] \in Seq(Entry)
        BY <3>2, TreeAssumption DEF Frame
      <3>4. Len(Listing[Top(w).dir]) \in Nat
        BY <3>3
      <3>5. Top(w).next > Len(Listing[Top(w).dir])
        BY <2>1 DEF TInv, AtEnd
      <3> QED
        BY <3>1, <3>2, <3>4, <3>5 DEF Frame
    <2> QED
      BY <2>1, <2>2, <2>3, <2>4 DEF TypeOK, TInv, EachOnce
  <1>2. stack'[w] = Pop(s) /\ \A v \in Workers : v # w => stack'[v] = stack[v]
    BY <1>1 DEF TypeOK
  <1>3. /\ DirsDiffer(stack'[w]) /\ Dirs(stack'[w]) \subseteq Dirs(stack[w])
        /\ \A i \in 1 .. Len(stack'[w]) : i \in 1 .. Len(stack[w]) /\ stack'[w][i] = stack[w][i]
        /\ \A d \in Entry : InFrame(stack[w], d) => InFrame(stack'[w], d)
    <2>1. \A d : s[Len(s)] # NewFrame(d)
      BY <1>1 DEF NewFrame
    <2> QED
      BY <1>1, <1>2, <2>1, PopFrames
  <1> HIDE DEF s
  <1>4. EachOnce'
    <2>1. \A v \in Workers : DirsDiffer(stack'[v]) /\ Dirs(stack'[v]) \subseteq Dirs(stack[v])
      BY <1>2, <1>3 DEF TInv, EachOnce
    <2>2. ASSUME NEW v \in Workers, NEW u \in Workers
          PROVE  Apart(v, u)'
      <3>1. Apart(v, u) /\ Dirs(stack'[v]) \subseteq Dirs(stack[v]) /\ Dirs(stack'[u]) \subseteq Dirs(stack[u])
        BY <2>1 DEF TInv, EachOnce
      <3> QED
        BY <3>1, <1>1 DEF Apart
    <2> QED
      BY <2>1, <2>2, <1>1 DEF TInv, EachOnce
  <1>5. AllPending'
    <2>1. \A v \in Workers : \A d \in Elements(queues[v]) \cup Elements(batch[v]) : d \in Entry /\ Pending(d)
      BY ElementsType DEF TInv, AllPending
    <2>2. \A v \in Workers : \A i \in 1 .. Len(stack'[v]) : stack'[v][i] \in Frame /\ FrameOK(stack'[v][i])
      <3>1. \A v \in Workers : \A i \in 1 .. Len(stack[v]) : stack[v][i] \in Frame /\ FrameOK(stack[v][i])
        BY ElementsType DEF TInv, AllPending
      <3> QED
        BY <3>1, <1>2, <1>3
    <2> QED
      BY <1>1, <2>1, <2>2, SamePending DEF AllPending
  <1>6. AtEnd'
    BY <1>1, <1>2 DEF TInv, AtEnd, Top
  <1>7. ReadFirst'
    BY <1>1, SamePending DEF TInv
  <1>8. NoneLost(Rest)'
    <2> SUFFICES ASSUME ~asked', NEW d \in Entry \ Rest, Pending(d)' PROVE Somewhere(d)'
      BY DEF NoneLost
    <2>1. Somewhere(d)
      BY <1>1, SamePending DEF TInv, NoneLost
    <2> QED
      BY <2>1, <1>1, <1>2, <1>3 DEF Somewhere
  <1> QED
    BY <1>4, <1>5, <1>6, <1>7, <1>8 DEF TInv

\* Every step of run, park, steal and the coordinator.
LEMMA LoopTasks ==
    ASSUME NEW Rest, TypeOK, Control, TInv(Rest), NEW w \in Workers, LoopStep(w)
    PROVE  TInv(Rest)'
  <1> USE DEF shared, private, history, Goto
  <1>1. CASE Take(w) /\ (PopOwn(w) \/ PopStolen(w))
    <2>1. stack[w] = << >> /\ UNCHANGED <<batch, visits, reads, dropped, asked>>
      BY <1>1 DEF PopOwn, PopStolen, Control, Position, InDir
    <2> QED
      BY <1>1, <2>1, TakeTasks
  <1>2. CASE ~Take(w) /\ (PopOwn(w) \/ PopStolen(w))
    <2>1. /\ UNCHANGED <<queues, batch, stack, visits, reads, dropped, asked>>
          /\ \E l \in {"steal", "park", "deactivate"} : pc' = [pc EXCEPT ![w] = l]
      BY <1>2 DEF PopOwn, PopStolen, NothingFound
    <2> QED
      BY <2>1, NothingMoves DEF TypeOK
  <1>3. CASE Steal(w)
    <2> DEFINE x == (w + probe[w]) % NumWorkers
    <2>1. x \in Workers
      <3>1. w + probe[w] \in Nat
        <4>1. w \in Nat
          BY DEF Workers
        <4>2. probe[w] \in 1 .. NumWorkers
          BY Zenon DEF TypeOK
        <4> QED
          BY <4>1, <4>2
      <3> QED
        BY <3>1, NumWorkersAssumption, ModRange DEF Workers
    <2>2. CASE UNCHANGED <<queues, batch>>
      <3>1. /\ UNCHANGED <<queues, batch, stack, visits, reads, dropped, asked>>
            /\ \A v \in Workers : pc'[v] \in {"notify", "wakeForWork"} => pc'[v] = pc[v]
        BY <1>3, <2>2 DEF Steal, NothingFound, TypeOK
      <3> QED
        BY <3>1, NothingMoves
    <2>3. CASE ~UNCHANGED <<queues, batch>>
      <3>1. /\ pc[w] = "steal" /\ queues[x] # << >>
            /\ batch' = [batch EXCEPT ![w] = Stolen(queues[x])]
            /\ queues' = [queues EXCEPT ![x] = Left(queues[x])]
            /\ pc' = [pc EXCEPT ![w] = "append"]
            /\ UNCHANGED <<stack, visits, reads, dropped, asked>>
        BY <1>3, <2>3 DEF Steal
      <3>2. batch[w] = << >>
        BY <3>1 DEF Control, Position
      <3>3. \A v \in Workers : pc'[v] \in {"notify", "wakeForWork"} => pc'[v] = pc[v]
        BY <3>1 DEF TypeOK
      <3> HIDE DEF x
      <3> QED
        BY <2>1, <3>1, <3>2, <3>3, StealTasks
    <2> QED
      BY <2>2, <2>3
  <1>4. CASE AppendStolen(w)
    BY <1>4, AppendTasks
  <1>5. CASE WakeForWork(w)
    BY <1>5, ReturnTasks
  <1>6. CASE \/ CheckQuit(w) \/ Deactivate(w) \/ Park(w) \/ Recheck(w) \/ Unparked(w)
             \/ Reactivate(w) \/ NotifyWork(w) \/ RequestQuit(w)
    <2>1. /\ UNCHANGED <<queues, batch, stack, visits, reads, dropped, asked>>
          /\ \E l : /\ pc' = [pc EXCEPT ![w] = l]
                    /\ l \in {"notify", "wakeForWork"} => pc[w] = "notify"
      BY <1>6 DEF CheckQuit, Deactivate, Park, Recheck, Unparked, Reactivate, NotifyWork, RequestQuit
    <2> QED
      BY <2>1, NothingMoves DEF TypeOK
  <1>7. CASE WakeForQuit(w)
    <2>1. /\ UNCHANGED <<queues, batch, stack, visits, reads, dropped, asked>>
          /\ \A v \in Workers : pc'[v] = IF v = w THEN "done" ELSE IF pc[v] = "waiting" THEN "woken" ELSE pc[v]
      BY <1>7 DEF WakeForQuit, Broadcast
    <2> QED
      BY <2>1, NothingMoves
  <1> QED
    BY <1>1, <1>2, <1>3, <1>4, <1>5, <1>6, <1>7 DEF LoopStep

-----------------------------------------------------------------------------
(* Steps of processDir.                                                    *)

\* An entry is listed in one place and is no root.
LEMMA Forest ==
    ASSUME NEW d \in Entry, NEW i \in 1 .. Len(Listing[d])
    PROVE  /\ Listing[d][i] \in Entry /\ Listing[d][i] \notin RootSet
           /\ \A c \in Entry : \A j \in 1 .. Len(Listing[c]) :
                 Listing[c][j] = Listing[d][i] => c = d /\ j = i
  <1>1. Listing[d] \in Seq(Entry) /\ \A c \in Entry : DOMAIN Listing[c] = 1 .. Len(Listing[c])
    BY TreeAssumption
  <1>2. Listing[d][i] \in Entry
    BY <1>1, ElementOfSeq
  <1>3. Listing[d][i] \notin RootSet
    BY <1>1, TreeAssumption, ForestAssumption DEF RootSet, Elements
  <1> QED
    BY <1>1, <1>2, <1>3, ForestAssumption

\* The directory a worker is about to start is a task of its own.
LEMMA StartingTask ==
    ASSUME NEW Rest, TypeOK, Control, TInv(Rest), NEW w \in Workers, NEW d \in Entry, StartsAt(w, d)
    PROVE  /\ stack[w] \in Seq(Frame) /\ stack[w] # << >> /\ DirsDiffer(stack[w])
           /\ Len(stack[w]) \in Nat \ {0} /\ stack[w][Len(stack[w])] = NewFrame(d)
           /\ d \in Dirs(stack[w]) /\ NewFrame(d).dir = d /\ NewFrame(d).next = 0
           /\ Pending(d)
           /\ \A v \in Workers : /\ d \notin Elements(queues[v]) \cup Elements(batch[v])
                                 /\ v # w => d \notin Dirs(stack[v])
  <1>1. stack[w] \in Seq(Frame) /\ stack[w] # << >> /\ DirsDiffer(stack[w])
    BY DEF StartsAt, Control, Position, InDir, TypeOK, TInv, EachOnce
  <1>2. Len(stack[w]) \in Nat \ {0} /\ stack[w][Len(stack[w])] = NewFrame(d)
    BY <1>1, EmptySeq DEF StartsAt, Top
  <1>3. NewFrame(d).dir = d /\ NewFrame(d).next = 0
    BY DEF NewFrame
  <1>4. d \in Dirs(stack[w])
    BY <1>2, <1>3 DEF Dirs
  <1>5. FrameOK(NewFrame(d))
    BY <1>2 DEF TInv, AllPending
  <1>6. Pending(d)
    BY <1>5, <1>3 DEF FrameOK
  <1> QED
    BY <1>1, <1>2, <1>3, <1>4, <1>6 DEF TInv, EachOnce, Apart

\* A directory that is not expanded: refused, pruned or unreadable.
LEMMA DisposeTasks ==
    ASSUME NEW Rest, TypeOK, Control, TInv(Rest), NEW w \in Workers, NEW d \in Entry, StartsAt(w, d),
           dropped' = dropped \cup {d}, UNCHANGED <<queues, batch, reads>>,
           \/ visits' = visits
           \/ d \in RootSet /\ visits' = [visits EXCEPT ![d] = @ + 1],
           \/ stack' = [stack EXCEPT ![w] = Pop(@)] /\ asked' = asked
           \/ stack' = [stack EXCEPT ![w] = << >>] /\ asked' = TRUE,
           \A v \in Workers : pc'[v] \in {"notify", "wakeForWork"} => v # w /\ pc'[v] = pc[v]
    PROVE  TInv(Rest)'
  <1>1. /\ stack[w] \in Seq(Frame) /\ stack[w] # << >> /\ DirsDiffer(stack[w])
        /\ stack[w][Len(stack[w])] = NewFrame(d) /\ NewFrame(d).dir = d
        /\ d \in Dirs(stack[w]) /\ Pending(d)
        /\ \A v \in Workers : /\ d \notin Elements(queues[v]) \cup Elements(batch[v])
                              /\ v # w => d \notin Dirs(stack[v])
    BY StartingTask
  <1>2. \A v \in Workers : v # w => stack'[v] = stack[v]
    BY DEF TypeOK
  <1>3. /\ DirsDiffer(stack'[w]) /\ Dirs(stack'[w]) \subseteq Dirs(stack[w]) \ {d}
        /\ \A i \in 1 .. Len(stack'[w]) : i \in 1 .. Len(stack[w]) /\ stack'[w][i] = stack[w][i]
        /\ ~asked' => \A x \in Entry : InFrame(stack[w], x) => x = d \/ InFrame(stack'[w], x)
    <2>1. CASE stack'[w] = Pop(stack[w])
      <3>1. \A x \in Entry : NewFrame(x) = NewFrame(d) => x = d
        BY DEF NewFrame
      <3> QED
        BY <2>1, <3>1, <1>1, PopFrames
    <2>2. CASE stack'[w] = << >> /\ asked'
      BY <2>2, NoFrame
    <2> QED
      BY <2>1, <2>2 DEF TypeOK
  <1>4. \A x \in Entry : x \notin RootSet => visits'[x] = visits[x]
    BY DEF TypeOK
  <1>5. \A x \in Entry : x # d => visits'[x] = visits[x]
    BY DEF TypeOK
  <1>6. \A x \in Entry : x # d => Pending(x)' = Pending(x)
    BY <1>5 DEF Pending
  <1>7. ~Pending(d)'
    BY DEF Pending
  <1>8. EachOnce'
    <2>1. \A v \in Workers : DirsDiffer(stack'[v]) /\ Dirs(stack'[v]) \subseteq Dirs(stack[v])
      BY <1>2, <1>3 DEF TInv, EachOnce
    <2>2. ASSUME NEW v \in Workers, NEW u \in Workers
          PROVE  Apart(v, u)'
      <3>1. Apart(v, u) /\ Dirs(stack'[v]) \subseteq Dirs(stack[v]) /\ Dirs(stack'[u]) \subseteq Dirs(stack[u])
        BY <2>1 DEF TInv, EachOnce
      <3> QED
        BY <3>1 DEF Apart
    <2> QED
      BY <2>1, <2>2 DEF TInv, EachOnce
  <1>9. AllPending'
    <2>1. \A v \in Workers : \A x \in Elements(queues[v]) \cup Elements(batch[v]) : Pending(x)'
      BY <1>1, <1>6, ElementsType DEF TInv, AllPending
    <2>2. ASSUME NEW v \in Workers, NEW i \in 1 .. Len(stack'[v])
          PROVE  FrameOK(stack[v][i])'
      <3> DEFINE f == stack[v][i]
      <3>1. i \in 1 .. Len(stack[v]) /\ stack'[v][i] = f
        BY <1>2, <1>3
      <3>2. f \in Frame /\ FrameOK(f)
        BY <3>1, ElementsType DEF TInv, AllPending
      <3>3. f.dir \in Entry /\ f.next \in Nat /\ f.dir # d
        <4>1. f.dir \in Dirs(stack'[v])
          BY <3>1 DEF Dirs
        <4> QED
          BY <4>1, <3>2, <1>1, <1>2, <1>3 DEF Frame
      <3> HIDE DEF f
      <3>4. CASE f.next = 0
        BY <3>4, <3>1, <3>2, <3>3, <1>6 DEF FrameOK
      <3>5. CASE f.next # 0
        <4>1. /\ reads[f.dir] > 0
              /\ \A k \in f.next .. Len(Listing[f.dir]) : visits[Listing[f.dir][k]] = 0
          BY <3>5, <3>2 DEF FrameOK
        <4>2. \A k \in f.next .. Len(Listing[f.dir]) : k \in 1 .. Len(Listing[f.dir])
          BY <3>3, <3>5
        <4>3. \A k \in f.next .. Len(Listing[f.dir]) : visits'[Listing[f.dir][k]] = 0
          BY <4>1, <4>2, <3>3, <1>4, Forest
        <4> QED
          BY <3>1, <3>5, <4>1, <4>3 DEF FrameOK
      <3> QED
        BY <3>4, <3>5
    <2> QED
      BY <2>1, <2>2 DEF AllPending
  <1>10. AtEnd'
    BY <1>2 DEF TInv, AtEnd, Top
  <1>11. ReadFirst'
    <2>1. \A x \in Entry : reads'[x] = 0 => \A k \in 1 .. Len(Listing[x]) : visits'[Listing[x][k]] = 0
      BY <1>4, Forest DEF TInv, ReadFirst
    <2>2. \A e \in Entry : visits'[e] > 0 /\ e \notin RootSet =>
              \E x \in Entry : reads'[x] > 0 /\ e \in Elements(Listing[x])
      BY <1>4 DEF TInv, ReadFirst
    <2>3. \A e \in Entry \ RootSet : visits'[e] = 0 => reads'[e] = 0 /\ e \notin dropped'
      <3>1. d \notin RootSet => visits[d] # 0
        BY <1>1 DEF Pending, TypeOK
      <3> QED
        BY <3>1, <1>4 DEF TInv, ReadFirst
    <2> QED
      BY <2>1, <2>2, <2>3 DEF ReadFirst
  <1>12. NoneLost(Rest)'
    <2> SUFFICES ASSUME ~asked', NEW x \in Entry \ Rest, Pending(x)' PROVE Somewhere(x)'
      BY DEF NoneLost
    <2>1. x # d /\ Pending(x) /\ ~asked
      BY <1>6, <1>7
    <2>2. Somewhere(x)
      BY <2>1 DEF TInv, NoneLost
    <2> QED
      BY <2>1, <2>2, <1>2, <1>3 DEF Somewhere
  <1> QED
    BY <1>8, <1>9, <1>10, <1>11, <1>12 DEF TInv

\* The directory is opened and its entries are about to be visited.
LEMMA ReadTasks ==
    ASSUME NEW Rest, TypeOK, Control, TInv(Rest), NEW w \in Workers, ReadDir(w)
    PROVE  TInv(Rest)'
  <1>1. PICK d \in Entry :
            /\ StartsAt(w, d)
            /\ reads' = [reads EXCEPT ![d] = @ + 1]
            /\ stack' = [stack EXCEPT ![w][Len(stack[w])].next = 1]
            /\ d \in RootSet => visits' = [visits EXCEPT ![d] = @ + 1]
            /\ d \notin RootSet => visits' = visits
            /\ UNCHANGED <<queues, batch, pc, dropped, asked>>
    BY DEF ReadDir, Descended, Visited, shared
  <1>2. /\ stack[w] \in Seq(Frame) /\ stack[w] # << >> /\ DirsDiffer(stack[w])
        /\ stack[w][Len(stack[w])] = NewFrame(d) /\ NewFrame(d).dir = d
        /\ d \in Dirs(stack[w]) /\ Pending(d)
        /\ \A v \in Workers : /\ d \notin Elements(queues[v]) \cup Elements(batch[v])
                              /\ v # w => d \notin Dirs(stack[v])
    BY <1>1, StartingTask
  <1>3. \A v \in Workers : v # w => stack'[v] = stack[v]
    BY <1>1 DEF TypeOK
  <1>4. PICK top \in Nat \ {0} :
           /\ top = Len(stack[w])
           /\ Len(stack'[w]) = top /\ DirsDiffer(stack'[w]) /\ Dirs(stack'[w]) = Dirs(stack[w])
           /\ stack'[w][top] = [dir |-> d, next |-> 1]
           /\ \A i \in 1 .. top : i # top => stack'[w][i] = stack[w][i] /\ stack[w][i].dir # d
           /\ \A x \in Entry : InFrame(stack[w], x) => x = d \/ InFrame(stack'[w], x)
    <2>1. stack'[w] = [stack[w] EXCEPT ![Len(stack[w])].next = 1]
      BY <1>1 DEF TypeOK
    <2>2. \A x \in Entry : NewFrame(x) = NewFrame(d) => x = d
      BY DEF NewFrame
    <2>3. /\ Len(stack[w]) \in Nat \ {0}
          /\ Len(stack'[w]) = Len(stack[w])
          /\ DirsDiffer(stack'[w]) /\ Dirs(stack'[w]) = Dirs(stack[w])
          /\ stack'[w][Len(stack[w])] = [dir |-> d, next |-> 1]
          /\ \A i \in 1 .. Len(stack[w]) : i # Len(stack[w]) => stack'[w][i] = stack[w][i]
          /\ \A x \in Entry : InFrame(stack[w], x) => x = d \/ InFrame(stack'[w], x)
      <3>1. PICK one \in Nat \ {0} : one = 1
        OBVIOUS
      <3> DEFINE t == [stack[w] EXCEPT ![Len(stack[w])].next = one]
      <3> HIDE DEF t
      <3>2. /\ Len(stack[w]) \in Nat \ {0} /\ Len(t) = Len(stack[w])
            /\ DirsDiffer(t) /\ Dirs(t) = Dirs(stack[w])
            /\ t[Len(stack[w])] = [dir |-> stack[w][Len(stack[w])].dir, next |-> one]
            /\ \A i \in 1 .. Len(stack[w]) : i # Len(stack[w]) => t[i] = stack[w][i]
            /\ \A x \in Entry : InFrame(stack[w], x) => InFrame(t, x) \/ stack[w][Len(stack[w])] = NewFrame(x)
        <4>1. t = Advanced(stack[w], one)
          BY Zenon DEF t, Advanced
        <4> QED
          BY <1>2, <3>1, <4>1, AdvanceFrames
      <3> QED
        <4>1. stack'[w] = t
          BY <2>1, <3>1, Zenon DEF t
        <4>2. t[Len(stack[w])] = [dir |-> d, next |-> 1]
          BY <3>1, <3>2, <1>2
        <4>3. \A x \in Entry : InFrame(stack[w], x) => x = d \/ InFrame(t, x)
          BY <3>2, <1>2, <2>2
        <4> QED
          BY <3>2, <4>1, <4>2, <4>3
    <2>4. \A i \in 1 .. Len(stack[w]) : i # Len(stack[w]) => stack[w][i].dir # d
      BY <1>2, <2>3 DEF DirsDiffer
    <2> QED
      BY <2>3, <2>4
  <1>5. /\ \A x \in Entry : x \notin RootSet => visits'[x] = visits[x]
        /\ \A x \in Entry : x # d => visits'[x] = visits[x] /\ reads'[x] = reads[x]
        /\ reads[d] = 0 /\ reads'[d] = 1
    BY <1>1, <1>2 DEF TypeOK, Pending
  <1>6. ~Pending(d)' /\ \A x \in Entry : x # d => Pending(x)' = Pending(x)
    BY <1>1, <1>5 DEF Pending
  <1>7. EachOnce'
    <2>1. \A v \in Workers : DirsDiffer(stack'[v]) /\ Dirs(stack'[v]) = Dirs(stack[v])
      BY <1>3, <1>4 DEF TInv, EachOnce
    <2>2. ASSUME NEW v \in Workers, NEW u \in Workers
          PROVE  Apart(v, u)'
      <3>1. Apart(v, u) /\ Dirs(stack'[v]) = Dirs(stack[v]) /\ Dirs(stack'[u]) = Dirs(stack[u])
        BY <2>1 DEF TInv, EachOnce
      <3> QED
        BY <3>1, <1>1 DEF Apart
    <2> QED
      BY <2>1, <2>2, <1>1 DEF TInv, EachOnce
  <1>8. AllPending'
    <2>1. \A v \in Workers : \A x \in Elements(queues[v]) \cup Elements(batch[v]) : Pending(x)'
      BY <1>2, <1>6, ElementsType DEF TInv, AllPending
    <2>2. ASSUME NEW v \in Workers, NEW i \in 1 .. Len(stack'[v])
          PROVE  FrameOK(stack[v][i])'
      <3>1. CASE v = w /\ i = top
        <4>1. \A k \in 1 .. Len(Listing[d]) : visits'[Listing[d][k]] = 0
          BY <1>5, Forest DEF TInv, ReadFirst
        <4>2. stack'[v][i].dir = d /\ stack'[v][i].next = 1
          BY <3>1, <1>4
        <4> QED
          BY <4>1, <4>2, <1>5 DEF FrameOK
      <3>2. CASE ~(v = w /\ i = top)
        <4>1. PICK f : f = stack[v][i]
          OBVIOUS
        <4>2. i \in 1 .. Len(stack[v]) /\ stack'[v][i] = f /\ f \in Frame /\ FrameOK(f)
          BY <3>2, <4>1, <1>3, <1>4, ElementsType DEF TInv, AllPending
        <4>3. f.dir # d
          <5>1. v # w => f.dir \in Dirs(stack[v])
            BY <4>1, <4>2 DEF Dirs
          <5> QED
            BY <5>1, <4>1, <4>2, <3>2, <1>2, <1>4
        <4>4. f.dir \in Entry /\ f.next \in Nat
          BY <4>2 DEF Frame
        <4>5. CASE f.next = 0
          BY <4>5, <4>2, <4>3, <4>4, <1>6 DEF FrameOK
        <4>6. CASE f.next # 0
          <5>1. /\ reads[f.dir] > 0
                /\ \A k \in f.next .. Len(Listing[f.dir]) : visits[Listing[f.dir][k]] = 0
            BY <4>6, <4>2 DEF FrameOK
          <5>2. \A k \in f.next .. Len(Listing[f.dir]) : k \in 1 .. Len(Listing[f.dir])
            BY <4>4, <4>6
          <5>3. \A k \in f.next .. Len(Listing[f.dir]) : visits'[Listing[f.dir][k]] = 0
            BY <5>1, <5>2, <4>4, <1>5, Forest
          <5> QED
            BY <4>2, <4>3, <4>4, <4>6, <5>1, <5>3, <1>5 DEF FrameOK
        <4> QED
          BY <4>5, <4>6
      <3> QED
        BY <3>1, <3>2
    <2> QED
      BY <2>1, <2>2, <1>1 DEF AllPending
  <1>9. AtEnd'
    <2>1. pc[w] = "dir"
      BY <1>1 DEF StartsAt
    <2> QED
      BY <2>1, <1>1, <1>3 DEF TInv, AtEnd, Top
  <1>10. ReadFirst'
    <2>1. \A x \in Entry : reads'[x] = 0 => \A k \in 1 .. Len(Listing[x]) : visits'[Listing[x][k]] = 0
      BY <1>5, Forest DEF TInv, ReadFirst
    <2>2. \A e \in Entry : visits'[e] > 0 /\ e \notin RootSet =>
              \E x \in Entry : reads'[x] > 0 /\ e \in Elements(Listing[x])
      <3>1. \A x \in Entry : reads[x] > 0 => reads'[x] > 0
        BY <1>5
      <3> QED
        BY <3>1, <1>5 DEF TInv, ReadFirst
    <2>3. \A e \in Entry \ RootSet : visits'[e] = 0 => reads'[e] = 0 /\ e \notin dropped'
      <3>1. d \notin RootSet => visits[d] # 0
        BY <1>2 DEF Pending, TypeOK
      <3> QED
        BY <3>1, <1>1, <1>5 DEF TInv, ReadFirst
    <2> QED
      BY <2>1, <2>2, <2>3 DEF ReadFirst
  <1>11. NoneLost(Rest)'
    <2> SUFFICES ASSUME ~asked', NEW x \in Entry \ Rest, Pending(x)' PROVE Somewhere(x)'
      BY DEF NoneLost
    <2>1. x # d /\ Pending(x) /\ ~asked
      BY <1>1, <1>6
    <2>2. Somewhere(x)
      BY <2>1 DEF TInv, NoneLost
    <2> QED
      BY <2>1, <2>2, <1>1, <1>3, <1>4 DEF Somewhere
  <1> QED
    BY <1>7, <1>8, <1>9, <1>10, <1>11 DEF TInv

\* The entry about to be visited: seen for the first time, and not a task yet.
LEMMA NextEntry ==
    ASSUME NEW Rest, TypeOK, Control, TInv(Rest), NEW w \in Workers, pc[w] = "dir",
           NEW f, f = Top(w), f.next \in 1 .. Len(Listing[f.dir]),
           NEW e, e = Listing[f.dir][f.next]
    PROVE  /\ stack[w] \in Seq(Frame) /\ stack[w] # << >> /\ DirsDiffer(stack[w])
           /\ f = stack[w][Len(stack[w])] /\ f \in Frame /\ f.dir \in Entry /\ f.next \in Nat \ {0}
           /\ reads[f.dir] > 0 /\ f.dir # e
           /\ \A k \in f.next .. Len(Listing[f.dir]) : visits[Listing[f.dir][k]] = 0
           /\ e \in Entry \ RootSet /\ visits[e] = 0 /\ reads[e] = 0 /\ e \notin dropped
           /\ \A v \in Workers : e \notin Elements(queues[v]) \cup Elements(batch[v]) \cup Dirs(stack[v])
  <1>1. /\ stack[w] \in Seq(Frame) /\ stack[w] # << >> /\ DirsDiffer(stack[w])
        /\ f = stack[w][Len(stack[w])]
    BY DEF Control, Position, InDir, TypeOK, TInv, EachOnce, Top
  <1>2. Len(stack[w]) \in Nat \ {0}
    BY <1>1, EmptySeq
  <1>3. f \in Frame /\ FrameOK(f)
    BY <1>1, <1>2, ElementsType DEF TInv, AllPending
  <1>4. f.dir \in Entry /\ f.next \in Nat
    BY <1>3 DEF Frame
  <1>5. f.next \in Nat \ {0}
    BY <1>4
  <1>6. /\ reads[f.dir] > 0
        /\ \A k \in f.next .. Len(Listing[f.dir]) : visits[Listing[f.dir][k]] = 0
    BY <1>3, <1>5 DEF FrameOK
  <1>7. e \in Entry \ RootSet
    BY <1>4, Forest
  <1>8. visits[e] = 0
    BY <1>4, <1>6
  <1>9. reads[e] = 0 /\ e \notin dropped
    BY <1>7, <1>8 DEF TInv, ReadFirst
  <1>10. ~Pending(e)
    BY <1>7, <1>8 DEF Pending
  <1>11. f.dir # e
    BY <1>4, <1>6, <1>9 DEF TypeOK
  <1>12. ASSUME NEW v \in Workers
         PROVE  e \notin Elements(queues[v]) \cup Elements(batch[v]) \cup Dirs(stack[v])
    <2>1. e \notin Elements(queues[v]) \cup Elements(batch[v])
      BY <1>10 DEF TInv, AllPending
    <2>2. ASSUME NEW i \in 1 .. Len(stack[v])
          PROVE  stack[v][i].dir # e
      <3>1. FrameOK(stack[v][i])
        BY DEF TInv, AllPending
      <3>2. CASE stack[v][i].next = 0
        BY <3>1, <3>2, <1>10 DEF FrameOK
      <3>3. CASE stack[v][i].next # 0
        BY <3>1, <3>3, <1>9 DEF FrameOK
      <3> QED
        BY <3>2, <3>3
    <2> QED
      BY <2>1, <2>2 DEF Dirs
  <1>13. /\ stack[w] \in Seq(Frame) /\ stack[w] # << >> /\ DirsDiffer(stack[w])
         /\ f = stack[w][Len(stack[w])] /\ f \in Frame /\ f.dir \in Entry /\ f.next \in Nat \ {0}
         /\ reads[f.dir] > 0 /\ f.dir # e
    BY <1>1, <1>3, <1>4, <1>5, <1>6, <1>11
  <1> QED
    BY <1>13, <1>6, <1>7, <1>8, <1>9, <1>12, Zenon

\* The readdir loop: one entry is visited, and becomes at most one task.
LEMMA VisitTasks ==
    ASSUME NEW Rest, TypeOK, Control, TInv(Rest), NEW w \in Workers, VisitEntry(w)
    PROVE  TInv(Rest)'
  <1>1. PICK f, e, verdict :
            /\ f = Top(w) /\ pc[w] = "dir" /\ f.next \in 1 .. Len(Listing[f.dir])
            /\ e = Listing[f.dir][f.next]
            /\ visits' = [visits EXCEPT ![e] = @ + 1]
            /\ \/ /\ verdict = "Quit" /\ asked' = TRUE
                  /\ stack' = [stack EXCEPT ![w] = << >>]
                  /\ pc' = [pc EXCEPT ![w] = "setQuit"]
                  /\ UNCHANGED <<queues, dropped>>
               \/ /\ verdict = "Continue" /\ Kind[e] = "dir" /\ Descend(w, e)
                  /\ UNCHANGED <<pc, asked, dropped>>
               \/ /\ verdict = "SkipDir" \/ (verdict = "Continue" /\ Kind[e] # "dir")
                  /\ stack' = [stack EXCEPT ![w][Len(stack[w])].next = @ + 1]
                  /\ dropped' = dropped \cup {e}
                  /\ UNCHANGED <<queues, pc, asked>>
            /\ UNCHANGED <<batch, reads>>
    BY DEF VisitEntry, Visited, StopWalk, Goto
  <1>2. /\ stack[w] \in Seq(Frame) /\ stack[w] # << >> /\ DirsDiffer(stack[w])
        /\ f = stack[w][Len(stack[w])] /\ f \in Frame /\ f.dir \in Entry /\ f.next \in Nat \ {0}
        /\ reads[f.dir] > 0 /\ f.dir # e
        /\ \A k \in f.next .. Len(Listing[f.dir]) : visits[Listing[f.dir][k]] = 0
        /\ e \in Entry \ RootSet /\ visits[e] = 0 /\ reads[e] = 0 /\ e \notin dropped
        /\ \A v \in Workers : e \notin Elements(queues[v]) \cup Elements(batch[v]) \cup Dirs(stack[v])
    BY <1>1, NextEntry
  <1> DEFINE g == [dir |-> f.dir, next |-> f.next + 1]
             advanced == [stack[w] EXCEPT ![Len(stack[w])].next = f.next + 1]
  <1>3. PICK top \in Nat \ {0} :
           /\ top = Len(stack[w]) /\ advanced \in Seq(Frame)
           /\ Len(advanced) = top /\ DirsDiffer(advanced) /\ Dirs(advanced) = Dirs(stack[w])
           /\ advanced[top] = g
           /\ \A i \in 1 .. top : i # top => advanced[i] = stack[w][i] /\ stack[w][i].dir # f.dir
           /\ \A x \in Entry : InFrame(stack[w], x) => InFrame(advanced, x)
    <2>1. \A x \in Entry : stack[w][Len(stack[w])] # NewFrame(x)
      BY <1>2 DEF NewFrame
    <2>2. f.next + 1 \in Nat \ {0}
      BY <1>2
    <2>3. /\ Len(stack[w]) \in Nat \ {0} /\ advanced \in Seq(Frame)
          /\ Len(advanced) = Len(stack[w])
          /\ DirsDiffer(advanced) /\ Dirs(advanced) = Dirs(stack[w])
          /\ advanced[Len(stack[w])] = g
          /\ \A i \in 1 .. Len(stack[w]) : i # Len(stack[w]) => advanced[i] = stack[w][i]
          /\ \A x \in Entry : InFrame(stack[w], x) => InFrame(advanced, x)
      <3> HIDE DEF advanced
      <3>1. /\ Len(stack[w]) \in Nat \ {0} /\ advanced \in Seq(Frame)
            /\ Len(advanced) = Len(stack[w])
            /\ DirsDiffer(advanced) /\ Dirs(advanced) = Dirs(stack[w])
            /\ advanced[Len(stack[w])] = [dir |-> stack[w][Len(stack[w])].dir, next |-> f.next + 1]
            /\ \A i \in 1 .. Len(stack[w]) : i # Len(stack[w]) => advanced[i] = stack[w][i]
            /\ \A x \in Entry : InFrame(stack[w], x) =>
                  InFrame(advanced, x) \/ stack[w][Len(stack[w])] = NewFrame(x)
        <4>1. /\ stack[w] \in Seq(Frame) /\ stack[w] # << >> /\ DirsDiffer(stack[w])
              /\ f = stack[w][Len(stack[w])]
          BY <1>2
        <4>2. PICK n \in Nat \ {0} : n = f.next + 1
          BY <2>2
        <4>3. advanced = Advanced(stack[w], n)
          BY <4>2, Zenon DEF advanced, Advanced
        <4>4. /\ Len(stack[w]) \in Nat \ {0} /\ advanced \in Seq(Frame)
              /\ Len(advanced) = Len(stack[w])
              /\ DirsDiffer(advanced) /\ Dirs(advanced) = Dirs(stack[w])
              /\ advanced[Len(stack[w])] = [dir |-> stack[w][Len(stack[w])].dir, next |-> n]
              /\ \A i \in 1 .. Len(stack[w]) : i # Len(stack[w]) => advanced[i] = stack[w][i]
              /\ \A x \in Entry : InFrame(stack[w], x) =>
                    InFrame(advanced, x) \/ stack[w][Len(stack[w])] = NewFrame(x)
          BY <4>1, <4>2, <4>3, AdvanceFrames
        <4> QED
          BY <4>2, <4>4
      <3> QED
        BY <3>1, <2>1, <1>2
    <2>4. \A i \in 1 .. Len(stack[w]) : i # Len(stack[w]) => stack[w][i].dir # f.dir
      BY <1>2, <2>3 DEF DirsDiffer
    <2> HIDE DEF advanced, g
    <2> QED
      BY <2>3, <2>4
  <1>4. /\ \A v \in Workers : v # w => stack'[v] = stack[v] /\ queues'[v] = queues[v]
        /\ \A x \in Entry : x # e => visits'[x] = visits[x]
        /\ visits'[e] = 1
    <2>1. /\ \A x \in Entry : x # e => visits'[x] = visits[x]
          /\ visits'[e] = 1
      <3>1. visits' = [visits EXCEPT ![e] = @ + 1] /\ visits \in [Entry -> Nat]
        BY <1>1 DEF TypeOK
      <3>2. e \in Entry /\ visits[e] = 0
        BY <1>2
      <3> QED
        BY <3>1, <3>2
    <2>2. /\ \E s : stack' = [stack EXCEPT ![w] = s]
          /\ queues' = queues \/ \E q : queues' = [queues EXCEPT ![w] = q]
      BY <1>1 DEF Descend
    <2>3. \A v \in Workers : v # w => stack'[v] = stack[v] /\ queues'[v] = queues[v]
      BY <2>2 DEF TypeOK
    <2> QED
      BY <2>1, <2>3
  <1>5. \A x \in Entry : x # e => Pending(x)' = Pending(x)
    BY <1>1, <1>4 DEF Pending
  <1>6. PICK how \in {"queued", "pushed", "none"} :
           /\ NoRepeat(queues'[w]) /\ DirsDiffer(stack'[w])
           /\ Elements(queues'[w]) = Elements(queues[w]) \cup IF how = "queued" THEN {e} ELSE {}
           /\ Dirs(stack'[w]) \subseteq Dirs(stack[w]) \cup IF how = "pushed" THEN {e} ELSE {}
           /\ \A i \in 1 .. Len(stack'[w]) :
                 \/ i \in 1 .. top /\ i # top /\ stack'[w][i] = stack[w][i]
                 \/ stack'[w][i] = g
                 \/ how = "pushed" /\ stack'[w][i] = NewFrame(e)
           /\ how # "none" => Pending(e)'
           /\ ~asked' => ~asked /\ \A x \in Entry : InFrame(stack[w], x) => InFrame(stack'[w], x)
           /\ ~asked' /\ Pending(e)' => e \in Elements(queues'[w]) \/ InFrame(stack'[w], e)
    <2>1. NoRepeat(queues[w]) /\ queues[w] \in Seq(Entry) /\ w \in DOMAIN stack /\ w \in DOMAIN queues
      BY DEF TypeOK, TInv, EachOnce
    <2> HIDE DEF g
    <2>2. CASE stack' = [stack EXCEPT ![w] = << >>] /\ asked' = TRUE /\ queues' = queues
      <3>1. stack'[w] = << >>
        BY <2>1, <2>2
      <3>2. /\ NoRepeat(queues'[w]) /\ DirsDiffer(stack'[w])
            /\ Elements(queues'[w]) = Elements(queues[w])
            /\ Dirs(stack'[w]) = {} /\ Len(stack'[w]) = 0
        BY <3>1, <2>1, <2>2, NoFrame
      <3> QED
        BY <3>2, <2>2
    <2>3. CASE /\ stack' = [stack EXCEPT ![w] = advanced] /\ queues' = queues
               /\ dropped' = dropped \cup {e} /\ asked' = asked
      <3> HIDE DEF advanced
      <3>1. stack'[w] = advanced /\ ~Pending(e)'
        BY <2>1, <2>3 DEF Pending
      <3>2. \A i \in 1 .. Len(stack'[w]) :
                 \/ i \in 1 .. top /\ i # top /\ stack'[w][i] = stack[w][i]
                 \/ stack'[w][i] = g
        BY <3>1, <1>3
      <3>3. /\ NoRepeat(queues'[w]) /\ DirsDiffer(stack'[w])
            /\ Elements(queues'[w]) = Elements(queues[w]) /\ Dirs(stack'[w]) = Dirs(stack[w])
            /\ asked' = asked /\ \A x \in Entry : InFrame(stack[w], x) => InFrame(stack'[w], x)
        BY <3>1, <1>3, <2>1, <2>3
      <3> QED
        BY <3>1, <3>2, <3>3
    <2>4. CASE Kind[e] = "dir" /\ Descend(w, e) /\ UNCHANGED <<asked, dropped>>
      <3>1. Pending(e)'
        <4>1. /\ Kind[e] = "dir" /\ visits'[e] > 0
              /\ reads' = reads /\ dropped' = dropped /\ reads[e] = 0 /\ e \notin dropped
          <5>1. Kind[e] = "dir" /\ dropped' = dropped
            BY <2>4
          <5>2. reads' = reads
            BY <1>1, Zenon
          <5>3. visits'[e] > 0
            BY <1>4
          <5> QED
            BY <5>1, <5>2, <5>3, <1>2, Zenon
        <4> QED
          BY <4>1 DEF Pending
      <3>2. CASE Single
        <4>1. stack' = [stack EXCEPT ![w] = Append(advanced, NewFrame(e))] /\ queues' = queues
          BY <2>4, <3>2, <1>1, <1>2 DEF Descend
        <4> HIDE DEF advanced
        <4>2. stack'[w] = Append(advanced, NewFrame(e))
          BY <2>1, <4>1
        <4>3. /\ Len(stack'[w]) = top + 1
              /\ stack'[w][top + 1] = NewFrame(e)
              /\ \A i \in 1 .. top : stack'[w][i] = advanced[i]
              /\ DirsDiffer(stack'[w])
              /\ Dirs(stack'[w]) = Dirs(stack[w]) \cup {e}
              /\ InFrame(stack'[w], e)
              /\ \A x \in Entry : InFrame(stack[w], x) => InFrame(stack'[w], x)
          <5>1. /\ advanced \in Seq(Frame) /\ DirsDiffer(advanced) /\ e \in Entry
                /\ Len(advanced) = top /\ Dirs(advanced) = Dirs(stack[w]) /\ e \notin Dirs(advanced)
            BY <1>2, <1>3
          <5>2. PICK t : t = stack'[w] /\ t = Push(advanced, e)
            BY <4>2 DEF Push
          <5>3. /\ Len(t) = Len(advanced) + 1
                /\ t[Len(advanced) + 1] = NewFrame(e)
                /\ \A i \in 1 .. Len(advanced) : t[i] = advanced[i]
                /\ DirsDiffer(t)
                /\ Dirs(t) = Dirs(advanced) \cup {e}
                /\ InFrame(t, e)
                /\ \A x \in Entry : InFrame(advanced, x) => InFrame(t, x)
            BY <5>1, <5>2, PushFrames
          <5> QED
            BY <5>1, <5>2, <5>3, <1>3
        <4>4. \A i \in 1 .. Len(stack'[w]) :
                 \/ i \in 1 .. top /\ i # top /\ stack'[w][i] = stack[w][i]
                 \/ stack'[w][i] = g
                 \/ stack'[w][i] = NewFrame(e)
          BY <4>3, <1>3
        <4> QED
          BY <4>1, <4>3, <4>4, <3>1, <2>1, <2>4
      <3>3. CASE ~Single
        <4>1. /\ stack' = [stack EXCEPT ![w] = advanced]
              /\ queues' = [queues EXCEPT ![w] = Append(queues[w], e)]
          BY <2>4, <3>3, <1>1, <1>2 DEF Descend
        <4> HIDE DEF advanced
        <4>2. stack'[w] = advanced /\ queues'[w] = Append(queues[w], e)
          BY <2>1, <4>1
        <4>3. NoRepeat(queues'[w]) /\ Elements(queues'[w]) = Elements(queues[w]) \cup {e}
          BY <4>2, <2>1, <1>2, AppendElements
        <4>4. \A i \in 1 .. Len(stack'[w]) :
                 \/ i \in 1 .. top /\ i # top /\ stack'[w][i] = stack[w][i]
                 \/ stack'[w][i] = g
          BY <4>2, <1>3
        <4>5. /\ DirsDiffer(stack'[w]) /\ Dirs(stack'[w]) = Dirs(stack[w])
              /\ \A x \in Entry : InFrame(stack[w], x) => InFrame(stack'[w], x)
          BY <4>2, <1>3
        <4> QED
          BY <4>3, <4>4, <4>5, <3>1, <2>4
      <3> QED
        BY <3>2, <3>3
    <2> QED
      BY <2>2, <2>3, <2>4, <1>1, <1>2
  <1> HIDE DEF advanced, g
  <1>once. \A x \in Entry : \A k \in 1 .. Len(Listing[x]) :
              Listing[x][k] \in Entry /\ (Listing[x][k] = e => x = f.dir /\ k = f.next)
    <2>1. f.dir \in Entry /\ f.next \in 1 .. Len(Listing[f.dir]) /\ e = Listing[f.dir][f.next]
      BY <1>1, <1>2, Zenon
    <2> QED
      BY <2>1, Forest, Zenon
  <1>7. EachOnce'
    <2>1. \A v \in Workers : NoRepeat(queues'[v]) /\ NoRepeat(batch'[v]) /\ DirsDiffer(stack'[v])
      BY <1>1, <1>4, <1>6 DEF TInv, EachOnce
    <2>2. ASSUME NEW v \in Workers, NEW u \in Workers
          PROVE  Apart(v, u)'
      <3>1. Apart(v, u) /\ Apart(u, v) /\ batch' = batch
        BY <1>1 DEF TInv, EachOnce
      <3>2. \A x \in {v, u} :
               /\ e \notin Elements(queues[x]) \cup Elements(batch[x]) \cup Dirs(stack[x])
               /\ Elements(queues'[x]) = Elements(queues[x]) \cup IF how = "queued" /\ x = w THEN {e} ELSE {}
               /\ Dirs(stack'[x]) \subseteq Dirs(stack[x]) \cup IF how = "pushed" /\ x = w THEN {e} ELSE {}
        <4>1. \A x \in Workers : x # w => queues'[x] = queues[x] /\ stack'[x] = stack[x]
          BY <1>4
        <4> QED
          BY <4>1, <1>2, <1>6
      <3>3. v # u => /\ Elements(queues'[v]) \cap Elements(queues'[u]) = {}
                     /\ Dirs(stack'[v]) \cap Dirs(stack'[u]) = {}
        BY <3>1, <3>2 DEF Apart
      <3>4. /\ Elements(queues'[v]) \cap Elements(batch[u]) = {}
            /\ Elements(batch[v]) \cap Dirs(stack'[u]) = {}
        BY <3>1, <3>2 DEF Apart
      <3>5. Elements(queues'[v]) \cap Dirs(stack'[u]) = {}
        BY <3>1, <3>2 DEF Apart
      <3> QED
        BY <3>1, <3>3, <3>4, <3>5 DEF Apart
    <2> QED
      BY <2>1, <2>2 DEF EachOnce
  <1>8. AllPending'
    <2>1. ASSUME NEW v \in Workers, NEW x \in Elements(queues'[v]) \cup Elements(batch'[v])
          PROVE  Pending(x)'
      <3>1. CASE x \in Elements(queues[v]) \cup Elements(batch[v])
        BY <3>1, <1>2, <1>5, ElementsType DEF TInv, AllPending
      <3>2. CASE x \notin Elements(queues[v]) \cup Elements(batch[v])
        BY <3>2, <1>1, <1>4, <1>6
      <3> QED
        BY <3>1, <3>2
    <2>2. ASSUME NEW v \in Workers, NEW i \in 1 .. Len(stack'[v])
          PROVE  FrameOK(stack[v][i])'
      <3>1. CASE v = w /\ stack'[w][i] = g
        <4>1. \A k \in f.next + 1 .. Len(Listing[f.dir]) :
                 k \in 1 .. Len(Listing[f.dir]) /\ k \in f.next .. Len(Listing[f.dir]) /\ k # f.next
          BY <1>2
        <4>2. \A k \in f.next + 1 .. Len(Listing[f.dir]) : visits'[Listing[f.dir][k]] = 0
          BY <4>1, <1>2, <1>4, <1>once
        <4>3. stack'[v][i].dir = f.dir /\ stack'[v][i].next = f.next + 1 /\ f.next + 1 # 0
          BY <3>1, <1>2 DEF g
        <4>4. reads'[f.dir] > 0
          BY <1>1, <1>2, Zenon
        <4> QED
          BY <4>2, <4>3, <4>4 DEF FrameOK
      <3>2. CASE v = w /\ how = "pushed" /\ stack'[w][i] = NewFrame(e)
        BY <3>2, <1>6 DEF FrameOK, NewFrame
      <3>3. CASE v # w \/ (i \in 1 .. top /\ i # top /\ stack'[w][i] = stack[w][i])
        <4>1. PICK h : h = stack[v][i]
          OBVIOUS
        <4>2. i \in 1 .. Len(stack[v]) /\ stack'[v][i] = h /\ h \in Frame /\ FrameOK(h)
          BY <3>3, <4>1, <1>3, <1>4, ElementsType DEF TInv, AllPending
        <4>3. h.dir # f.dir
          <5>1. CASE v = w
            BY <5>1, <4>1, <4>2, <3>3, <1>3
          <5>2. CASE v # w
            <6>1. h.dir \in Dirs(stack[v])
              BY <4>1, <4>2 DEF Dirs
            <6>2. f.dir \in Dirs(stack[w])
              BY <1>2, <1>3 DEF Dirs
            <6> QED
              BY <5>2, <6>1, <6>2 DEF TInv, EachOnce, Apart
          <5> QED
            BY <5>1, <5>2
        <4>4. h.dir \in Entry /\ h.next \in Nat /\ h.dir # e
          <5>1. h.dir \in Dirs(stack[v])
            BY <4>1, <4>2 DEF Dirs
          <5> QED
            BY <5>1, <4>2, <1>2 DEF Frame
        <4>5. CASE h.next = 0
          BY <4>5, <4>2, <4>4, <1>5 DEF FrameOK
        <4>6. CASE h.next # 0
          <5>1. /\ reads[h.dir] > 0
                /\ \A k \in h.next .. Len(Listing[h.dir]) : visits[Listing[h.dir][k]] = 0
            BY <4>6, <4>2 DEF FrameOK
          <5>2. \A k \in h.next .. Len(Listing[h.dir]) :
                   k \in 1 .. Len(Listing[h.dir]) /\ Listing[h.dir][k] \in Entry
            BY <4>4, <4>6, Forest
          <5>3. \A k \in h.next .. Len(Listing[h.dir]) : Listing[h.dir][k] # e
            BY <5>2, <4>3, <4>4, <1>once
          <5>4. \A k \in h.next .. Len(Listing[h.dir]) : visits'[Listing[h.dir][k]] = 0
            BY <5>1, <5>2, <5>3, <1>4
          <5>5. reads' = reads
            BY <1>1, Zenon
          <5> QED
            BY <4>2, <4>6, <5>1, <5>4, <5>5 DEF FrameOK
        <4> QED
          BY <4>5, <4>6
      <3> QED
        BY <3>1, <3>2, <3>3, <1>6
    <2> QED
      BY <2>1, <2>2 DEF AllPending
  <1>9. AtEnd'
    <2>1. \A v \in Workers : pc'[v] \in {"notify", "wakeForWork"} => v # w /\ pc'[v] = pc[v]
      BY <1>1 DEF TypeOK
    <2> QED
      BY <2>1, <1>4 DEF TInv, AtEnd, Top
  <1>10. reads' = reads
    BY <1>1, Zenon
  <1>11. ReadFirst'
    <2>1. \A x \in Entry : reads'[x] = 0 => \A k \in 1 .. Len(Listing[x]) : visits'[Listing[x][k]] = 0
      <3> SUFFICES ASSUME NEW x \in Entry, reads'[x] = 0, NEW k \in 1 .. Len(Listing[x])
                   PROVE  visits'[Listing[x][k]] = 0
        OBVIOUS
      <3>1. reads[x] = 0 /\ x # f.dir
        BY <1>2, <1>10
      <3>2. Listing[x][k] \in Entry /\ Listing[x][k] # e
        BY <3>1, <1>once
      <3> QED
        BY <3>1, <3>2, <1>4 DEF TInv, ReadFirst
    <2>2. \A c \in Entry : visits'[c] > 0 /\ c \notin RootSet =>
              \E x \in Entry : reads'[x] > 0 /\ c \in Elements(Listing[x])
      <3>1. reads'[f.dir] > 0 /\ e \in Elements(Listing[f.dir])
        <4>1. f.next \in 1 .. Len(Listing[f.dir]) /\ e = Listing[f.dir][f.next]
          BY <1>1, Zenon
        <4>2. e \in Elements(Listing[f.dir])
          BY <4>1, Zenon DEF Elements
        <4>3. reads'[f.dir] > 0
          BY <1>2, <1>10
        <4> QED
          BY <4>2, <4>3
      <3> QED
        BY <3>1, <1>2, <1>4, <1>10 DEF TInv, ReadFirst
    <2>3. \A c \in Entry \ RootSet : visits'[c] = 0 => reads'[c] = 0 /\ c \notin dropped'
      <3>1. dropped' \subseteq dropped \cup {e}
        BY <1>1
      <3> QED
        BY <3>1, <1>4, <1>10 DEF TInv, ReadFirst
    <2> QED
      BY <2>1, <2>2, <2>3 DEF ReadFirst
  <1>12. NoneLost(Rest)'
    <2> SUFFICES ASSUME ~asked', NEW x \in Entry \ Rest, Pending(x)' PROVE Somewhere(x)'
      BY DEF NoneLost
    <2>1. CASE x = e
      BY <2>1, <1>6 DEF Somewhere
    <2>2. CASE x # e
      <3>1. Pending(x) /\ ~asked
        BY <2>2, <1>5, <1>6
      <3>2. Somewhere(x)
        BY <3>1 DEF TInv, NoneLost
      <3>3. batch' = batch
        BY <1>1, Zenon
      <3> QED
        BY <3>2, <3>3, <1>4, <1>6 DEF Somewhere
    <2> QED
      BY <2>1, <2>2
  <1> QED
    BY <1>7, <1>8, <1>9, <1>11, <1>12 DEF TInv

-----------------------------------------------------------------------------
(* Initially: runWorkers deals every root to one deque.                    *)

\* Division with remainder is unique, and exists.
LEMMA DivUnique ==
    ASSUME NEW n \in Nat \ {0}, NEW a \in Nat, NEW b \in Nat,
           NEW v \in 0 .. n - 1, NEW w \in 0 .. n - 1, n * a + v = n * b + w
    PROVE  a = b /\ v = w
  <1>1. ASSUME NEW x \in Nat, NEW y \in Nat, x < y PROVE n * y >= n * x + n
    <2>1. y = x + 1 + (y - x - 1) /\ y - x - 1 \in Nat
      BY <1>1
    <2>2. \A z \in Nat : n * (x + 1 + z) = n * x + n + n * z /\ n * z \in Nat
      OBVIOUS
    <2> QED
      BY <2>1, <2>2
  <1>2. ~(a < b)
    <2> SUFFICES ASSUME a < b PROVE FALSE
      OBVIOUS
    <2>1. n * b >= n * a + n
      BY <1>1
    <2>2. n * a \in Nat /\ n * b \in Nat
      OBVIOUS
    <2> QED
      BY <2>1, <2>2
  <1>3. ~(b < a)
    <2> SUFFICES ASSUME b < a PROVE FALSE
      OBVIOUS
    <2>1. n * a >= n * b + n
      BY <1>1
    <2>2. n * a \in Nat /\ n * b \in Nat
      OBVIOUS
    <2> QED
      BY <2>1, <2>2
  <1>4. a = b
    BY <1>2, <1>3
  <1> QED
    BY <1>4

LEMMA DivExists ==
    ASSUME NEW n \in Nat \ {0}, NEW a \in Nat
    PROVE  \E q \in Nat, r \in 0 .. n - 1 : a = n * q + r
  <1>1. PICK q : q = a \div n
    OBVIOUS
  <1>2. q \in Nat /\ n * q \in Nat /\ n * q <= a /\ a < n * q + n
    BY <1>1
  <1>3. a - n * q \in 0 .. n - 1 /\ a = n * q + (a - n * q)
    BY <1>2
  <1> QED
    BY <1>2, <1>3

\* Where the k-th task of a deque stands in the argument list.
LEMMA SeedIndex ==
    ASSUME NEW w \in Workers
    PROVE  /\ Share(w) \in Nat /\ Len(Seeded(w)) = Share(w)
           /\ \A k \in 1 .. Share(w) :
                 /\ Share(w) - k \in Nat /\ NumWorkers * (Share(w) - k) \in Nat
                 /\ w + 1 + NumWorkers * (Share(w) - k) \in 1 .. Len(Roots)
                 /\ Seeded(w)[k] = Roots[w + 1 + NumWorkers * (Share(w) - k)]
           /\ \A q \in Nat : w + 1 + NumWorkers * q \in 1 .. Len(Roots) => q < Share(w)
  <1>1. PICK n \in Nat \ {0} : n = NumWorkers
    BY NumWorkersAssumption
  <1>2. w \in 0 .. n - 1
    BY <1>1 DEF Workers
  <1>3. PICK l \in Nat : l = Len(Roots)
    BY TreeAssumption
  <1>4. PICK c : c = Share(w)
    OBVIOUS
  <1>5. c \in Nat /\ (c # 0 => n * (c - 1) <= l - 1 - w) /\ (\A q \in Nat : w + n * q < l => q < c)
    <2>1. CASE w >= l
      <3>1. c = 0
        BY <2>1, <1>2, <1>3, <1>4 DEF Share
      <3>2. \A q \in Nat : n * q \in Nat
        OBVIOUS
      <3> QED
        BY <3>1, <3>2, <2>1, <1>2
    <2>2. CASE w < l
      <3>1. PICK a \in Nat : a = l - 1 - w
        BY <2>2, <1>2
      <3>2. PICK m : m = a \div n
        OBVIOUS
      <3>3. m \in Nat /\ n * m <= a /\ a < n * m + n
        BY <3>2
      <3>4. c = m + 1
        BY <2>2, <3>1, <3>2, <1>1, <1>2, <1>3, <1>4 DEF Share
      <3>5. ASSUME NEW q \in Nat, w + n * q < l PROVE q < c
        <4> SUFFICES ASSUME q >= c PROVE FALSE
          BY <3>3, <3>4
        <4>1. q = m + 1 + (q - m - 1) /\ q - m - 1 \in Nat
          BY <3>3, <3>4
        <4>2. \A z \in Nat : n * (m + 1 + z) = n * m + n + n * z /\ n * z \in Nat
          BY <3>3
        <4>3. n * q >= n * m + n /\ n * q \in Nat /\ n * m \in Nat
          BY <4>1, <4>2, <3>3
        <4> QED
          BY <4>3, <3>1, <3>3, <3>5, <1>2
      <3> QED
        BY <3>1, <3>3, <3>4, <3>5
    <2> QED
      BY <2>1, <2>2, <1>2
  <1>6. Seeded(w) = [k \in 1 .. c |-> Roots[w + 1 + n * (c - k)]]
    BY <1>1, <1>4 DEF Seeded
  <1>7. Len(Seeded(w)) = c
    BY <1>5, <1>6
  <1>8. ASSUME NEW k \in 1 .. c
        PROVE  /\ c - k \in Nat /\ n * (c - k) \in Nat
               /\ w + 1 + n * (c - k) \in 1 .. l
               /\ Seeded(w)[k] = Roots[w + 1 + n * (c - k)]
    <2>1. c - k \in Nat /\ k - 1 \in Nat
      BY <1>5
    <2>2. n * (c - 1) = n * (c - k) + n * (k - 1) /\ n * (k - 1) \in Nat /\ n * (c - k) \in Nat
      BY <2>1, <1>5
    <2>3. n * (c - 1) <= l - 1 - w
      BY <1>5
    <2>4. w + 1 + n * (c - k) \in 1 .. l
      <3>1. PICK x \in Nat : x = n * (c - k) /\ x <= n * (c - 1)
        BY <2>2
      <3> QED
        BY <3>1, <2>2, <2>3, <1>2
    <2> QED
      BY <2>1, <2>2, <2>4, <1>6
  <1>9. ASSUME NEW q \in Nat, w + 1 + n * q \in 1 .. l PROVE q < c
    <2>1. n * q \in Nat
      OBVIOUS
    <2> QED
      BY <2>1, <1>2, <1>5, <1>9
  <1> QED
    BY <1>1, <1>3, <1>4, <1>5, <1>7, <1>8, <1>9

\* Every root is in exactly one deque, once.
LEMMA SeedOnce ==
    /\ \A w \in Workers : NoRepeat(Seeded(w)) /\ Elements(Seeded(w)) \subseteq RootSet
    /\ \A v, w \in Workers : v # w => Elements(Seeded(v)) \cap Elements(Seeded(w)) = {}
    /\ \A d \in RootSet : \E w \in Workers : d \in Elements(Seeded(w))
  <1>1. PICK n \in Nat \ {0} : n = NumWorkers
    BY NumWorkersAssumption
  <1>2. Workers = 0 .. n - 1
    BY <1>1 DEF Workers
  <1>3. DOMAIN Roots = 1 .. Len(Roots)
    BY TreeAssumption
  <1>4. ASSUME NEW v \in Workers, NEW w \in Workers,
               NEW j \in 1 .. Len(Seeded(v)), NEW k \in 1 .. Len(Seeded(w)),
               Seeded(v)[j] = Seeded(w)[k]
        PROVE  v = w /\ j = k
    <2>1. PICK a \in Nat : /\ a = Share(v) - j /\ n * a \in Nat
                           /\ v + 1 + n * a \in 1 .. Len(Roots)
                           /\ Seeded(v)[j] = Roots[v + 1 + n * a]
      BY SeedIndex, <1>1
    <2>2. PICK b \in Nat : /\ b = Share(w) - k /\ n * b \in Nat
                           /\ w + 1 + n * b \in 1 .. Len(Roots)
                           /\ Seeded(w)[k] = Roots[w + 1 + n * b]
      BY SeedIndex, <1>1
    <2>3. v + 1 + n * a = w + 1 + n * b
      BY <1>3, <1>4, <2>1, <2>2, ForestAssumption
    <2>4. n * a + v = n * b + w
      <3>1. PICK x \in Nat, y \in Nat : x = n * a /\ y = n * b
        BY <2>1, <2>2
      <3>2. v + 1 + x = w + 1 + y
        BY <3>1, <2>3
      <3>3. x + v = y + w
        BY <3>2, <1>2
      <3> QED
        BY <3>1, <3>3
    <2>5. a = b /\ v = w
      BY <2>4, <1>2, DivUnique
    <2>6. v = w
      BY <2>5
    <2>7. Share(v) \in Nat /\ Share(v) - j = Share(v) - k
      BY <2>1, <2>2, <2>5, <2>6, SeedIndex
    <2> QED
      BY <2>6, <2>7
  <1>5. \A w \in Workers : NoRepeat(Seeded(w))
    BY <1>4 DEF NoRepeat
  <1>6. \A w \in Workers : Elements(Seeded(w)) \subseteq RootSet
    <2>1. ASSUME NEW w \in Workers, NEW k \in 1 .. Len(Seeded(w))
          PROVE  Seeded(w)[k] \in RootSet
      <3>1. PICK i \in 1 .. Len(Roots) : Seeded(w)[k] = Roots[i]
        BY SeedIndex
      <3> QED
        BY <3>1 DEF RootSet, Elements
    <2> QED
      BY <2>1 DEF Elements
  <1>7. \A v, w \in Workers : v # w => Elements(Seeded(v)) \cap Elements(Seeded(w)) = {}
    BY <1>4 DEF Elements
  <1>8. ASSUME NEW i \in 1 .. Len(Roots)
        PROVE  \E w \in Workers : Roots[i] \in Elements(Seeded(w))
    <2>1. PICK q \in Nat, w \in 0 .. n - 1 : i - 1 = n * q + w
      <3>1. i - 1 \in Nat
        OBVIOUS
      <3> QED
        BY <3>1, DivExists
    <2>2. n * q \in Nat
      OBVIOUS
    <2>3. i = w + 1 + n * q
      BY <2>1, <2>2
    <2>4. w \in Workers /\ q < Share(w) /\ Share(w) \in Nat /\ Len(Seeded(w)) = Share(w)
      BY <1>1, <1>2, <2>3, SeedIndex
    <2>5. PICK k : k = Share(w) - q /\ k \in 1 .. Share(w) /\ Share(w) - k = q
      BY <2>4
    <2>6. Seeded(w)[k] = Roots[i]
      BY <2>3, <2>4, <2>5, <1>1, SeedIndex
    <2> QED
      BY <2>4, <2>5, <2>6 DEF Elements
  <1>9. \A d \in RootSet : \E w \in Workers : d \in Elements(Seeded(w))
    BY <1>8 DEF RootSet, Elements
  <1> QED
    BY <1>5, <1>6, <1>7, <1>9

LEMMA InitTasks == Init => TInv({})
  <1> SUFFICES ASSUME Init PROVE TInv({})
    OBVIOUS
  <1>1. \A w \in Workers : queues[w] = Seeded(w) /\ batch[w] = << >> /\ stack[w] = << >> /\ pc[w] = "run"
    BY DEF Init
  <1>2. /\ \A e \in Entry : visits[e] = 0 /\ reads[e] = 0
        /\ dropped = {} /\ asked = FALSE
    BY DEF Init
  <1>3. /\ NoRepeat(<< >>) /\ Elements(<< >>) = {}
        /\ Len(<< >>) = 0 /\ DirsDiffer(<< >>) /\ Dirs(<< >>) = {}
    BY NoFrame DEF NoRepeat, Elements
  <1>4. EachOnce
    BY <1>1, <1>3, SeedOnce DEF EachOnce, Apart
  <1>5. RootSet \subseteq Entry
    BY TreeAssumption DEF RootSet, Elements
  <1>6. AllPending
    BY <1>1, <1>2, <1>3, <1>5, SeedOnce DEF AllPending, Pending
  <1>7. AtEnd
    BY <1>1 DEF AtEnd
  <1>8. ReadFirst
    <2>1. \A d \in Entry : \A k \in 1 .. Len(Listing[d]) : visits[Listing[d][k]] = 0
      BY <1>2, Forest
    <2> QED
      BY <2>1, <1>2 DEF ReadFirst
  <1>9. NoneLost({})
    BY <1>1, <1>2, SeedOnce DEF NoneLost, Pending, Somewhere
  <1> QED
    BY <1>4, <1>6, <1>7, <1>8, <1>9 DEF TInv

\* The steps with which processDir gives a directory up.
LEMMA Disposed ==
    ASSUME NEW w \in Workers, StartRoot(w) \/ PruneForeign(w) \/ OpenFails(w)
    PROVE  \E d \in Entry :
             /\ StartsAt(w, d)
             /\ dropped' = dropped \cup {d}
             /\ visits' = visits \/ (d \in RootSet /\ visits' = [visits EXCEPT ![d] = @ + 1])
             /\ StopWalk(w) \/ ReturnEarly(w)
             /\ CountLate(w) /\ UNCHANGED <<shared, batch, reads>>
  <1>1. RootSet \subseteq Entry /\ Foreign \subseteq Entry
    BY TreeAssumption DEF RootSet, Elements
  <1>2. CASE StartRoot(w)
    BY <1>1, <1>2 DEF StartRoot, Visited
  <1>3. CASE PruneForeign(w)
    <2>1. PICK d \in Foreign \ RootSet :
             /\ StartsAt(w, d) /\ ReturnEarly(w)
             /\ dropped' = dropped \cup {d}
             /\ visits' = visits
             /\ CountLate(w) /\ UNCHANGED <<shared, batch, reads>>
      BY <1>3 DEF PruneForeign
    <2> QED
      BY <2>1, <1>1, Zenon
  <1>4. CASE OpenFails(w)
    <2>1. PICK d \in Entry :
             /\ Descended(w, d)
             /\ StopWalk(w) \/ ReturnEarly(w)
             /\ dropped' = dropped \cup {d}
             /\ CountLate(w) /\ UNCHANGED <<shared, batch, reads>>
      BY <1>4 DEF OpenFails, Descended
    <2>2. /\ StartsAt(w, d)
          /\ visits' = visits \/ (d \in RootSet /\ visits' = [visits EXCEPT ![d] = @ + 1])
      <3>1. StartsAt(w, d)
        BY <2>1 DEF Descended
      <3>2. CASE d \in RootSet
        BY <2>1, <3>2 DEF Descended, Visited
      <3>3. CASE d \notin RootSet
        BY <2>1, <3>3 DEF Descended
      <3> QED
        BY <3>1, <3>2, <3>3
    <2> QED
      BY <2>1, <2>2, Zenon
  <1> QED
    BY <1>2, <1>3, <1>4

\* Every step of processDir.
LEMMA DirTasks ==
    ASSUME NEW Rest, TypeOK, Control, TInv(Rest), NEW w \in Workers, DirStep(w)
    PROVE  TInv(Rest)'
  <1> USE DEF shared, private, history, Goto
  <1>1. CASE StartRoot(w) \/ PruneForeign(w) \/ OpenFails(w)
    <2>1. PICK d \in Entry :
             /\ StartsAt(w, d)
             /\ dropped' = dropped \cup {d}
             /\ visits' = visits \/ (d \in RootSet /\ visits' = [visits EXCEPT ![d] = @ + 1])
             /\ StopWalk(w) \/ ReturnEarly(w)
             /\ UNCHANGED <<queues, batch, reads>>
      BY <1>1, Disposed DEF shared
    <2>2. \A v \in Workers : pc'[v] \in {"notify", "wakeForWork"} => v # w /\ pc'[v] = pc[v]
      BY <2>1 DEF StopWalk, ReturnEarly, TypeOK
    <2>3. \/ stack' = [stack EXCEPT ![w] = Pop(@)] /\ asked' = asked
          \/ stack' = [stack EXCEPT ![w] = << >>] /\ asked' = TRUE
      BY <2>1 DEF StopWalk, ReturnEarly
    <2> QED
      BY <2>1, <2>2, <2>3, DisposeTasks
  <1>2. CASE EndOfDir(w)
    <2>1. /\ UNCHANGED <<queues, batch, stack, visits, reads, dropped, asked>>
          /\ pc[w] = "dir" /\ pc' = [pc EXCEPT ![w] = "notify"]
          /\ Top(w).next > Len(Listing[Top(w).dir])
      BY <1>2 DEF EndOfDir
    <2>2. \A v \in Workers : pc'[v] \in {"notify", "wakeForWork"} =>
             pc[v] \in {"notify", "wakeForWork"} \/ Top(v).next > Len(Listing[Top(v).dir])
      BY <2>1 DEF TypeOK
    <2> QED
      BY <2>1, <2>2, NothingMoves
  <1> QED
    BY <1>1, <1>2, ReadTasks, VisitTasks DEF DirStep

LEMMA StepTasks == IInv /\ TInv({}) /\ [Next]_vars => TInv({})'
  <1> SUFFICES ASSUME IInv, TInv({}), [Next]_vars PROVE TInv({})'
    OBVIOUS
  <1>1. TypeOK /\ Control
    BY DEF IInv
  <1>2. CASE \E w \in Workers : WorkerStep(w)
    BY <1>1, <1>2, LoopTasks, DirTasks DEF WorkerStep
  <1>3. CASE UNCHANGED vars
    BY <1>1, <1>3, NothingMoves DEF vars, shared, private, history
  <1> QED
    BY <1>2, <1>3 DEF Next, Returned

\* The inductive invariant of the tasks holds throughout.
THEOREM TasksInductive == Spec => []TInv({})
  BY Inductive, InitTasks, StepTasks, PTL DEF Spec

\* A task is in one deque, slice or frame until it is expanded, and nowhere
\* afterwards: no interleaving of pops, steals and pushes doubles or loses one,
\* for any number of workers and any tree.
THEOREM NoTaskLost == Spec => []TasksConserved
  <1>1. ASSUME TypeOK, TInv({}), NEW d \in Entry
        PROVE  /\ \A p, q \in Places(d) : p = q
               /\ Places(d) # {} => Pending(d)
               /\ Pending(d) /\ ~asked => Places(d) # {}
    <2> DEFINE inDeque == UNION {{"deque"} \X {w} \X At(queues[w], d) : w \in Workers}
               inSlice == UNION {{"slice"} \X {w} \X At(batch[w], d) : w \in Workers}
               inFrame == UNION {{"frame"} \X {w} \X At(stack[w], NewFrame(d)) : w \in Workers}
    <2>1. NewFrame(d).dir = d /\ NewFrame(d).next = 0
      BY DEF NewFrame
    <2>places. Places(d) = inDeque \cup inSlice \cup inFrame
      BY DEF Places
    <2>2. \A p \in Places(d) : \E w \in Workers, k \in Nat :
             \/ p = <<"deque", w, k>> /\ k \in 1 .. Len(queues[w]) /\ queues[w][k] = d
             \/ p = <<"slice", w, k>> /\ k \in 1 .. Len(batch[w]) /\ batch[w][k] = d
             \/ p = <<"frame", w, k>> /\ k \in 1 .. Len(stack[w]) /\ stack[w][k] = NewFrame(d)
      <3>1. ASSUME NEW w, NEW s, NEW task, NEW kind, NEW p \in {kind} \X {w} \X At(s, task)
            PROVE  \E k \in 1 .. Len(s) : p = <<kind, w, k>> /\ s[k] = task
        BY DEF At
      <3>2. \A s, k : k \in 1 .. Len(s) => k \in Nat
        OBVIOUS
      <3> SUFFICES ASSUME NEW p \in Places(d), NEW w \in Workers,
                          \/ p \in {"deque"} \X {w} \X At(queues[w], d)
                          \/ p \in {"slice"} \X {w} \X At(batch[w], d)
                          \/ p \in {"frame"} \X {w} \X At(stack[w], NewFrame(d))
                   PROVE  \E k \in Nat :
             \/ p = <<"deque", w, k>> /\ k \in 1 .. Len(queues[w]) /\ queues[w][k] = d
             \/ p = <<"slice", w, k>> /\ k \in 1 .. Len(batch[w]) /\ batch[w][k] = d
             \/ p = <<"frame", w, k>> /\ k \in 1 .. Len(stack[w]) /\ stack[w][k] = NewFrame(d)
        <4>1. \A p \in Places(d) : \E w \in Workers :
                 \/ p \in {"deque"} \X {w} \X At(queues[w], d)
                 \/ p \in {"slice"} \X {w} \X At(batch[w], d)
                 \/ p \in {"frame"} \X {w} \X At(stack[w], NewFrame(d))
          <5>1. \A p : p \in inDeque => \E w \in Workers : p \in {"deque"} \X {w} \X At(queues[w], d)
            OBVIOUS
          <5>2. \A p : p \in inSlice => \E w \in Workers : p \in {"slice"} \X {w} \X At(batch[w], d)
            OBVIOUS
          <5>3. \A p : p \in inFrame =>
                   \E w \in Workers : p \in {"frame"} \X {w} \X At(stack[w], NewFrame(d))
            OBVIOUS
          <5> HIDE DEF inDeque, inSlice, inFrame
          <5>4. \A p \in Places(d) : p \in inDeque \/ p \in inSlice \/ p \in inFrame
            BY <2>places
          <5> QED
            BY <5>1, <5>2, <5>3, <5>4, Zenon
        <4> QED
          BY <4>1, Zenon
      <3>3. CASE p \in {"deque"} \X {w} \X At(queues[w], d)
        BY <3>1, <3>2, <3>3
      <3>4. CASE p \in {"slice"} \X {w} \X At(batch[w], d)
        BY <3>1, <3>2, <3>4
      <3>5. CASE p \in {"frame"} \X {w} \X At(stack[w], NewFrame(d))
        BY <3>1, <3>2, <3>5
      <3> QED
        BY <3>3, <3>4, <3>5
    <2>3. \A w \in Workers, k \in Nat :
             /\ k \in 1 .. Len(queues[w]) /\ queues[w][k] = d => d \in Elements(queues[w])
             /\ k \in 1 .. Len(batch[w]) /\ batch[w][k] = d => d \in Elements(batch[w])
             /\ k \in 1 .. Len(stack[w]) /\ stack[w][k] = NewFrame(d) => d \in Dirs(stack[w])
      BY <2>1 DEF Elements, Dirs
    <2>4. \A p, q \in Places(d) : p = q
      <3> SUFFICES ASSUME NEW p \in Places(d), NEW q \in Places(d) PROVE p = q
        OBVIOUS
      <3>1. PICK v \in Workers, j \in Nat :
               \/ p = <<"deque", v, j>> /\ j \in 1 .. Len(queues[v]) /\ queues[v][j] = d
               \/ p = <<"slice", v, j>> /\ j \in 1 .. Len(batch[v]) /\ batch[v][j] = d
               \/ p = <<"frame", v, j>> /\ j \in 1 .. Len(stack[v]) /\ stack[v][j] = NewFrame(d)
        BY <2>2
      <3>2. PICK w \in Workers, k \in Nat :
               \/ q = <<"deque", w, k>> /\ k \in 1 .. Len(queues[w]) /\ queues[w][k] = d
               \/ q = <<"slice", w, k>> /\ k \in 1 .. Len(batch[w]) /\ batch[w][k] = d
               \/ q = <<"frame", w, k>> /\ k \in 1 .. Len(stack[w]) /\ stack[w][k] = NewFrame(d)
        BY <2>2
      <3>3. Apart(v, w) /\ Apart(w, v) /\ NoRepeat(queues[v]) /\ NoRepeat(batch[v]) /\ DirsDiffer(stack[v])
        BY <1>1 DEF TInv, EachOnce
      <3>4. CASE p[1] = "deque"
        <4>1. p = <<"deque", v, j>> /\ j \in 1 .. Len(queues[v]) /\ queues[v][j] = d /\ d \in Elements(queues[v])
          BY <3>4, <3>1, <2>3
        <4>2. w = v /\ q = <<"deque", w, k>> /\ k \in 1 .. Len(queues[w]) /\ queues[w][k] = d
          BY <4>1, <3>2, <2>3, <3>3 DEF Apart
        <4> QED
          BY <4>1, <4>2, <3>3 DEF NoRepeat
      <3>5. CASE p[1] = "slice"
        <4>1. p = <<"slice", v, j>> /\ j \in 1 .. Len(batch[v]) /\ batch[v][j] = d /\ d \in Elements(batch[v])
          BY <3>5, <3>1, <2>3
        <4>2. w = v /\ q = <<"slice", w, k>> /\ k \in 1 .. Len(batch[w]) /\ batch[w][k] = d
          BY <4>1, <3>2, <2>3, <3>3 DEF Apart
        <4> QED
          BY <4>1, <4>2, <3>3 DEF NoRepeat
      <3>6. CASE p[1] = "frame"
        <4>1. p = <<"frame", v, j>> /\ j \in 1 .. Len(stack[v]) /\ stack[v][j] = NewFrame(d) /\ d \in Dirs(stack[v])
          BY <3>6, <3>1, <2>3
        <4>2. w = v /\ q = <<"frame", w, k>> /\ k \in 1 .. Len(stack[w]) /\ stack[w][k] = NewFrame(d)
          BY <4>1, <3>2, <2>3, <3>3 DEF Apart
        <4> QED
          BY <4>1, <4>2, <3>3 DEF DirsDiffer
      <3> QED
        BY <3>1, <3>4, <3>5, <3>6
    <2>5. Places(d) # {} => Pending(d)
      <3> SUFFICES ASSUME NEW p \in Places(d) PROVE Pending(d)
        OBVIOUS
      <3>1. PICK w \in Workers, k \in Nat :
               \/ d \in Elements(queues[w]) \/ d \in Elements(batch[w])
               \/ k \in 1 .. Len(stack[w]) /\ stack[w][k] = NewFrame(d)
        BY <2>2, <2>3
      <3> QED
        BY <1>1, <3>1, <2>1 DEF TInv, AllPending, FrameOK
    <2>6. Pending(d) /\ ~asked => Places(d) # {}
      <3> SUFFICES ASSUME Pending(d), ~asked PROVE Places(d) # {}
        OBVIOUS
      <3>1. PICK w \in Workers : d \in Elements(queues[w]) \/ d \in Elements(batch[w]) \/ InFrame(stack[w], d)
        BY <1>1 DEF TInv, NoneLost, Somewhere
      <3>2. CASE d \in Elements(queues[w])
        <4>1. PICK k \in 1 .. Len(queues[w]) : queues[w][k] = d
          BY <3>2 DEF Elements
        <4>2. <<"deque", w, k>> \in {"deque"} \X {w} \X At(queues[w], d)
          BY <4>1 DEF At
        <4>3. <<"deque", w, k>> \in inDeque
          BY <4>2, Zenon
        <4> HIDE DEF inDeque, inSlice, inFrame
        <4> QED
          BY <4>3, <2>places
      <3>3. CASE d \in Elements(batch[w])
        <4>1. PICK k \in 1 .. Len(batch[w]) : batch[w][k] = d
          BY <3>3 DEF Elements
        <4>2. <<"slice", w, k>> \in {"slice"} \X {w} \X At(batch[w], d)
          BY <4>1 DEF At
        <4>3. <<"slice", w, k>> \in inSlice
          BY <4>2, Zenon
        <4> HIDE DEF inDeque, inSlice, inFrame
        <4> QED
          BY <4>3, <2>places
      <3>4. CASE InFrame(stack[w], d)
        <4>1. PICK k \in 1 .. Len(stack[w]) : stack[w][k] = NewFrame(d)
          BY <3>4 DEF InFrame
        <4>2. <<"frame", w, k>> \in {"frame"} \X {w} \X At(stack[w], NewFrame(d))
          BY <4>1 DEF At
        <4>3. <<"frame", w, k>> \in inFrame
          BY <4>2, Zenon
        <4> HIDE DEF inDeque, inSlice, inFrame
        <4> QED
          BY <4>3, <2>places
      <3> QED
        BY <3>1, <3>2, <3>3, <3>4
    <2> QED
      BY <2>4, <2>5, <2>6
  <1>2. IInv /\ TInv({}) => TasksConserved
    BY <1>1 DEF IInv, TasksConserved
  <1> QED
    BY <1>2, Inductive, TasksInductive, PTL

-----------------------------------------------------------------------------
(* How much a worker still does after quit was set.                        *)

Leaving == {"run", "dir", "notify", "wakeForWork", "setQuit", "wakeForQuit", "done"}

\* A step that starts no directory and leaves the worker on its way out, if it was.
LEMMA QuitAhead ==
    ASSUME TypeOK, AfterQuit, NEW w \in Workers, UNCHANGED late, quit => quit',
           \A v \in Workers : v # w => /\ stack'[v] = stack[v]
                                       /\ pc'[v] = pc[v] \/ (pc[v] = "waiting" /\ pc'[v] = "woken"),
           Single /\ quit' => pc'[w] \in {"wakeForQuit", "done"},
           ~Single => Len(stack'[w]) <= 1,
           late[w] > 0 => pc'[w] \in Leaving /\ (pc'[w] = "dir" => stack'[w][Len(stack'[w])].next # 0)
    PROVE  AfterQuit'
  <1>1. Single' = Single
    BY DEF Single
  <1>2. Single /\ quit' => \A v \in Workers : pc'[v] \in {"wakeForQuit", "done"}
    BY NumWorkersAssumption DEF Single, Workers
  <1>3. ~Single => \A v \in Workers : Len(stack'[v]) <= 1
    BY DEF AfterQuit
  <1>4. \A v \in Workers : late'[v] > 0 =>
            /\ quit' /\ late'[v] = 1
            /\ pc'[v] \in Leaving
            /\ pc'[v] = "dir" => stack'[v][Len(stack'[v])].next # 0
    BY DEF AfterQuit, Leaving, Top
  <1> QED
    BY <1>1, <1>2, <1>3, <1>4 DEF AfterQuit, Leaving, Top

LEMMA StepAfterQuit ==
    ASSUME TypeOK, Control, TInv({}), AfterQuit, NEW w \in Workers, WorkerStep(w)
    PROVE  AfterQuit'
  <1> USE DEF shared, private, history, Goto
  <1>1. /\ Single /\ quit => pc[w] \in {"wakeForQuit", "done"}
        /\ ~Single => Len(stack[w]) <= 1
        /\ late[w] > 0 => quit /\ late[w] = 1 /\ pc[w] \in Leaving /\ (pc[w] = "dir" => Top(w).next # 0)
    BY DEF AfterQuit, Leaving
  <1>2. CASE CheckQuit(w) \/ NotifyWork(w)
    <2>1. /\ UNCHANGED <<quit, stack, late>>
          /\ pc' = [pc EXCEPT ![w] = IF pc[w] = "notify" THEN "wakeForWork"
                                     ELSE IF quit THEN "done" ELSE "pop"]
          /\ pc[w] \in {"run", "notify"}
      BY <1>2 DEF CheckQuit, NotifyWork
    <2>2. \A v \in Workers : v # w => pc'[v] = pc[v] /\ stack'[v] = stack[v]
      BY <2>1 DEF TypeOK
    <2>3. /\ Single /\ quit' => pc'[w] \in {"wakeForQuit", "done"}
          /\ late[w] > 0 => pc'[w] \in Leaving /\ pc'[w] # "dir"
      BY <2>1, <1>1 DEF TypeOK, Leaving
    <2> QED
      BY <1>1, <2>1, <2>2, <2>3, QuitAhead
  <1>3. CASE \/ PopOwn(w) \/ Steal(w) \/ AppendStolen(w) \/ PopStolen(w) \/ Deactivate(w)
             \/ Park(w) \/ Recheck(w) \/ Unparked(w) \/ Reactivate(w)
    <2>1. /\ pc[w] \notin Leaving /\ UNCHANGED <<quit, late>>
          /\ \E l : pc' = [pc EXCEPT ![w] = l] \/ pc' = pc
          /\ \/ stack' = stack
             \/ \E f : stack' = [stack EXCEPT ![w] = <<f>>]
      BY <1>3 DEF PopOwn, Steal, AppendStolen, PopStolen, Deactivate, Park, Recheck, Unparked,
           Reactivate, Take, NothingFound, Leaving
    <2>2. /\ \A v \in Workers : v # w => pc'[v] = pc[v] /\ stack'[v] = stack[v]
          /\ stack'[w] = stack[w] \/ Len(stack'[w]) = 1
      BY <2>1 DEF TypeOK
    <2>3. ~(Single /\ quit) /\ ~(late[w] > 0)
      BY <2>1, <1>1 DEF Leaving
    <2>4. UNCHANGED late /\ quit' = quit
      BY <2>1
    <2>5. ~Single => Len(stack'[w]) <= 1
      <3>1. CASE stack'[w] = stack[w]
        BY <3>1, <1>1, Zenon
      <3>2. CASE Len(stack'[w]) = 1
        BY <3>2
      <3> QED
        BY <3>1, <3>2, <2>2, Zenon
    <2> QED
      BY <2>2, <2>3, <2>4, <2>5, QuitAhead
  <1>4. CASE RequestQuit(w) \/ WakeForQuit(w)
    <2>1. /\ UNCHANGED <<stack, late>> /\ (quit => quit')
          /\ pc'[w] \in {"wakeForQuit", "done"}
          /\ \A v \in Workers : v # w =>
                pc'[v] = pc[v] \/ (pc[v] = "waiting" /\ pc'[v] = "woken")
      BY <1>4 DEF RequestQuit, WakeForQuit, Broadcast, TypeOK
    <2> QED
      BY <1>1, <2>1, QuitAhead DEF Leaving
  <1>5. CASE WakeForWork(w)
    <2>1. /\ stack[w] \in Seq(Frame) /\ stack[w] # << >>
          /\ pc[w] = "wakeForWork" /\ UNCHANGED <<quit, late>>
          /\ stack' = [stack EXCEPT ![w] = Pop(@)]
          /\ pc'[w] = IF Len(stack[w]) > 1 THEN "dir" ELSE "run"
          /\ \A v \in Workers : v # w =>
                pc'[v] = pc[v] \/ (pc[v] = "waiting" /\ pc'[v] = "woken")
      BY <1>5 DEF WakeForWork, Broadcast, TypeOK, Control, Position, InDir
    <2>2. /\ stack'[w] = Pop(stack[w]) /\ Len(stack[w]) \in Nat \ {0} /\ Len(stack'[w]) = Len(stack[w]) - 1
          /\ \A v \in Workers : v # w => stack'[v] = stack[v]
      BY <2>1, PopType DEF TypeOK
    <2>3. ~(Single /\ quit)
      BY <2>1, <1>1
    <2>4. late[w] > 0 => pc'[w] = "run"
      BY <2>1, <2>2, <2>3, <1>1
    <2> QED
      BY <1>1, <2>1, <2>2, <2>3, <2>4, QuitAhead DEF Leaving
  <1>6. CASE EndOfDir(w)
    <2>1. /\ UNCHANGED <<quit, stack, late>> /\ pc[w] = "dir"
          /\ pc' = [pc EXCEPT ![w] = "notify"]
      BY <1>6 DEF EndOfDir
    <2>2. pc'[w] = "notify" /\ \A v \in Workers : v # w => pc'[v] = pc[v] /\ stack'[v] = stack[v]
      BY <2>1 DEF TypeOK
    <2> QED
      BY <1>1, <2>1, <2>2, QuitAhead DEF Leaving
  <1>7. CASE VisitEntry(w)
    <2>1. PICK f, e :
             /\ f = Top(w) /\ pc[w] = "dir" /\ f.next \in 1 .. Len(Listing[f.dir])
             /\ e = Listing[f.dir][f.next]
             /\ \/ /\ stack' = [stack EXCEPT ![w] = << >>]
                   /\ pc' = [pc EXCEPT ![w] = "setQuit"]
                \/ Descend(w, e) /\ UNCHANGED pc
                \/ stack' = [stack EXCEPT ![w][Len(stack[w])].next = @ + 1] /\ UNCHANGED pc
             /\ UNCHANGED <<quit, late>>
      BY <1>7 DEF VisitEntry, StopWalk
    <2>2. /\ stack[w] \in Seq(Frame) /\ stack[w] # << >> /\ DirsDiffer(stack[w])
          /\ f = stack[w][Len(stack[w])] /\ f.next \in Nat \ {0}
      BY <2>1, NextEntry
    <2> DEFINE advanced == [stack[w] EXCEPT ![Len(stack[w])].next = f.next + 1]
    <2>3. Len(advanced) = Len(stack[w]) /\ advanced[Len(advanced)].next # 0
      <3>1. PICK n \in Nat \ {0} : n = f.next + 1
        BY <2>2
      <3>2. advanced = Advanced(stack[w], n)
        BY <3>1, Zenon DEF Advanced
      <3> HIDE DEF advanced
      <3>3. PICK s : s = stack[w] /\ s \in Seq(Frame) /\ s # << >> /\ DirsDiffer(s) /\ advanced = Advanced(s, n)
        BY <2>2, <3>2
      <3>4. /\ Len(advanced) = Len(s) /\ Len(s) \in Nat \ {0}
            /\ advanced[Len(s)] = [dir |-> s[Len(s)].dir, next |-> n]
        BY <3>3, AdvanceFrames
      <3> QED
        BY <3>1, <3>3, <3>4
    <2>4. ~(Single /\ quit)
      BY <2>1, <1>1
    <2>5. CASE /\ stack' = [stack EXCEPT ![w] = << >>]
               /\ pc' = [pc EXCEPT ![w] = "setQuit"]
      <3>1. stack'[w] = << >> /\ pc'[w] = "setQuit"
        BY <2>5 DEF TypeOK
      <3>2. \A v \in Workers : v # w => pc'[v] = pc[v] /\ stack'[v] = stack[v]
        BY <2>5 DEF TypeOK
      <3> QED
        BY <2>1, <2>4, <3>1, <3>2, QuitAhead DEF Leaving
    <2>6. CASE stack' = [stack EXCEPT ![w] = advanced] /\ UNCHANGED pc
      <3> HIDE DEF advanced
      <3>1. stack'[w] = advanced /\ \A v \in Workers : v # w => stack'[v] = stack[v]
        BY <2>6 DEF TypeOK
      <3> QED
        BY <1>1, <2>1, <2>3, <2>4, <2>6, <3>1, QuitAhead DEF Leaving
    <2>7. CASE Single
      <3>1. late[w] = 0 /\ ~quit' /\ pc'[w] \in Labels
        BY <1>1, <2>1, <2>4, <2>7 DEF TypeOK, Labels
      <3>2. \A v \in Workers : v = w
        BY <2>7, NumWorkersAssumption DEF Single, Workers
      <3> QED
        BY <2>1, <2>7, <3>1, <3>2, QuitAhead
    <2>8. [stack[w] EXCEPT ![Len(stack[w])].next = @ + 1] = advanced
      BY <2>2
    <2>9. stack' = [stack EXCEPT ![w][Len(stack[w])].next = @ + 1] => stack' = [stack EXCEPT ![w] = advanced]
      BY <2>8
    <2>10. Descend(w, e) /\ ~Single => stack' = [stack EXCEPT ![w] = advanced]
      <3> HIDE DEF advanced
      <3> QED
        BY <2>8 DEF Descend
    <2> QED
      BY <2>1, <2>5, <2>6, <2>7, <2>9, <2>10, Zenon
  <1>8. CASE ReadDir(w)
    <2>1. PICK d \in Entry :
             /\ StartsAt(w, d) /\ CountLate(w)
             /\ stack' = [stack EXCEPT ![w][Len(stack[w])].next = 1]
             /\ UNCHANGED <<pc, quit>>
      BY <1>8 DEF ReadDir, Descended
    <2>2. /\ stack[w] \in Seq(Frame) /\ stack[w] # << >> /\ DirsDiffer(stack[w])
          /\ stack[w][Len(stack[w])].next = 0 /\ pc[w] = "dir"
      BY <2>1, StartingTask DEF StartsAt
    <2>3. /\ Len(stack'[w]) = Len(stack[w]) /\ stack'[w][Len(stack'[w])].next # 0
          /\ \A v \in Workers : v # w => stack'[v] = stack[v]
      <3>1. PICK one \in Nat \ {0} : one = 1
        OBVIOUS
      <3>2. stack'[w] = Advanced(stack[w], one)
        BY <2>1, <3>1 DEF TypeOK, Advanced
      <3>3. \A v \in Workers : v # w => stack'[v] = stack[v]
        BY <2>1 DEF TypeOK
      <3> QED
        <4>1. PICK s, t : /\ s = stack[w] /\ s \in Seq(Frame) /\ s # << >> /\ DirsDiffer(s)
                          /\ t = stack'[w] /\ t = Advanced(s, one)
          BY <2>2, <3>2
        <4>2. Len(t) = Len(s) /\ t[Len(s)] = [dir |-> s[Len(s)].dir, next |-> one]
          BY <3>1, <4>1, AdvanceFrames
        <4> QED
          BY <3>1, <3>3, <4>1, <4>2
    <2>4. late[w] = 0 /\ ~(Single /\ quit)
      BY <1>1, <2>2 DEF Top, TypeOK
    <2>5. \A v \in Workers : late'[v] = IF v = w /\ quit THEN 1 ELSE late[v]
      BY <2>1, <2>4 DEF CountLate, TypeOK
    <2>6. \A v \in Workers : late'[v] > 0 =>
             /\ quit' /\ late'[v] = 1
             /\ pc'[v] \in Leaving
             /\ pc'[v] = "dir" => stack'[v][Len(stack'[v])].next # 0
      BY <2>1, <2>2, <2>3, <2>4, <2>5 DEF AfterQuit, Leaving, Top
    <2>7. ~Single => \A v \in Workers : Len(stack'[v]) <= 1
      BY <2>3 DEF AfterQuit
    <2>8. Single => ~quit'
      BY <2>1, <2>4
    <2> QED
      BY <2>6, <2>7, <2>8 DEF AfterQuit, Leaving, Top, Single
  <1>9. CASE StartRoot(w) \/ PruneForeign(w) \/ OpenFails(w)
    <2>1. PICK d \in Entry :
             /\ StartsAt(w, d) /\ CountLate(w)
             /\ StopWalk(w) \/ ReturnEarly(w)
             /\ UNCHANGED quit
      BY <1>9, Disposed
    <2>2. /\ stack[w] \in Seq(Frame) /\ stack[w] # << >> /\ DirsDiffer(stack[w])
          /\ stack[w][Len(stack[w])].next = 0 /\ pc[w] = "dir"
      BY <2>1, StartingTask DEF StartsAt
    <2>3. late[w] = 0 /\ ~(Single /\ quit)
      BY <1>1, <2>2 DEF Top, TypeOK
    <2>4. \A v \in Workers : late'[v] = IF v = w /\ quit THEN 1 ELSE late[v]
      BY <2>1, <2>3 DEF CountLate, TypeOK
    <2>5. /\ \A v \in Workers : v # w => stack'[v] = stack[v] /\ pc'[v] = pc[v]
          /\ ~Single => Len(stack'[w]) <= 1 /\ pc'[w] \in {"run", "setQuit"}
      <3>1. Len(Pop(stack[w])) = Len(stack[w]) - 1 /\ Len(stack[w]) \in Nat \ {0}
        BY <2>2, PopType
      <3>2. CASE StopWalk(w)
        BY <3>2 DEF StopWalk, TypeOK
      <3>3. CASE ReturnEarly(w)
        BY <3>1, <3>3, <1>1 DEF ReturnEarly, TypeOK
      <3> QED
        BY <2>1, <3>2, <3>3
    <2>6. \A v \in Workers : late'[v] > 0 =>
             /\ quit' /\ late'[v] = 1
             /\ pc'[v] \in Leaving
             /\ pc'[v] = "dir" => stack'[v][Len(stack'[v])].next # 0
      BY <2>1, <2>3, <2>4, <2>5 DEF AfterQuit, Leaving, Top
    <2>7. ~Single => \A v \in Workers : Len(stack'[v]) <= 1
      BY <2>5 DEF AfterQuit
    <2>8. Single => ~quit'
      BY <2>1, <2>3
    <2> QED
      BY <2>6, <2>7, <2>8 DEF AfterQuit, Leaving, Top, Single
  <1> QED
    BY <1>2, <1>3, <1>4, <1>5, <1>6, <1>7, <1>8, <1>9 DEF WorkerStep, LoopStep, DirStep

\* Once quit is set a worker starts at most one more directory: the one whose
\* task it had taken when it last looked.
THEOREM OneMoreDirectory == Spec => []OneLateDirectory
  <1>1. Init => AfterQuit
    BY NoFrame DEF Init, AfterQuit
  <1>2. IInv /\ TInv({}) /\ AfterQuit /\ [Next]_vars => AfterQuit'
    <2> SUFFICES ASSUME IInv, TInv({}), AfterQuit, [Next]_vars PROVE AfterQuit'
      OBVIOUS
    <2>1. CASE \E w \in Workers : WorkerStep(w)
      BY <2>1, StepAfterQuit DEF IInv
    <2>2. CASE UNCHANGED vars
      BY <2>2 DEF vars, shared, private, history, AfterQuit, Single, Top
    <2> QED
      BY <2>1, <2>2 DEF Next, Returned
  <1>3. IInv /\ AfterQuit => OneLateDirectory
    BY DEF IInv, TypeOK, AfterQuit, OneLateDirectory
  <1> QED
    BY <1>1, <1>2, <1>3, Inductive, TasksInductive, PTL DEF Spec

-----------------------------------------------------------------------------
(* The walk implements the contract its caller sees.                       *)

LEMMA StatusValue ==
    ASSUME TypeOK, NEW e \in Entry
    PROVE  /\ Status[e] = "listed" <=> reads[e] > 0
           /\ Status[e] = "closed" <=> reads[e] = 0 /\ e \in dropped
           /\ Status[e] = "seen"   <=> reads[e] = 0 /\ e \notin dropped /\ visits[e] > 0
           /\ Status[e] = "unseen" <=> reads[e] = 0 /\ e \notin dropped /\ visits[e] = 0
           /\ Status[e] \in {"listed", "closed", "seen", "unseen"}
  <1>1. reads[e] \in Nat /\ visits[e] \in Nat
    BY DEF TypeOK
  <1>2. Status[e] = CASE reads[e] > 0                     -> "listed"
                      [] reads[e] = 0 /\ e \in dropped    -> "closed"
                      [] reads[e] = 0 /\ e \notin dropped /\ visits[e] > 0 -> "seen"
                      [] OTHER                            -> "unseen"
    BY DEF Status
  <1>3. CASE reads[e] > 0
    BY <1>1, <1>2, <1>3
  <1>4. CASE reads[e] = 0 /\ e \in dropped
    BY <1>1, <1>2, <1>4
  <1>5. CASE reads[e] = 0 /\ e \notin dropped /\ visits[e] > 0
    BY <1>1, <1>2, <1>5
  <1>6. CASE reads[e] = 0 /\ e \notin dropped /\ visits[e] = 0
    BY <1>1, <1>2, <1>6
  <1> QED
    BY <1>1, <1>3, <1>4, <1>5, <1>6

LEMMA StatusAfter ==
    ASSUME TypeOK', NEW e \in Entry
    PROVE  /\ Status'[e] = "listed" <=> reads'[e] > 0
           /\ Status'[e] = "closed" <=> reads'[e] = 0 /\ e \in dropped'
           /\ Status'[e] = "seen"   <=> reads'[e] = 0 /\ e \notin dropped' /\ visits'[e] > 0
           /\ Status'[e] = "unseen" <=> reads'[e] = 0 /\ e \notin dropped' /\ visits'[e] = 0
           /\ Status'[e] \in {"listed", "closed", "seen", "unseen"}
  <1>1. reads'[e] \in Nat /\ visits'[e] \in Nat
    BY DEF TypeOK
  <1>2. Status'[e] = CASE reads'[e] > 0                      -> "listed"
                       [] reads'[e] = 0 /\ e \in dropped'    -> "closed"
                       [] reads'[e] = 0 /\ e \notin dropped' /\ visits'[e] > 0 -> "seen"
                       [] OTHER                              -> "unseen"
    BY DEF Status
  <1>3. CASE reads'[e] > 0
    BY <1>1, <1>2, <1>3
  <1>4. CASE reads'[e] = 0 /\ e \in dropped'
    BY <1>1, <1>2, <1>4
  <1>5. CASE reads'[e] = 0 /\ e \notin dropped' /\ visits'[e] > 0
    BY <1>1, <1>2, <1>5
  <1>6. CASE reads'[e] = 0 /\ e \notin dropped' /\ visits'[e] = 0
    BY <1>1, <1>2, <1>6
  <1> QED
    BY <1>1, <1>3, <1>4, <1>5, <1>6

\* A delivery as the contract has it, wherever the end of the walk is seen.
OneDelivered ==
    \E e \in Entry :
        /\ e \in RootSet \/ \E d \in Entry : Status[d] = "listed" /\ e \in Elements(Listing[d])
        /\ \E s \in Contract!Later(Status[e]) : Status' = [Status EXCEPT ![e] = s]
        /\ asked' \in {asked, TRUE}

\* What a pending directory's worker does to it is a delivery.
LEMMA Delivery ==
    ASSUME TypeOK, TypeOK', asked' \in {asked, TRUE},
           NEW e \in Entry,
           e \in RootSet \/ \E d \in Entry : reads[d] > 0 /\ e \in Elements(Listing[d]),
           \A x \in Entry \ {e} : /\ visits'[x] = visits[x] /\ reads'[x] = reads[x]
                                  /\ x \in dropped' <=> x \in dropped,
           \/ Status[e] = "unseen" /\ Status'[e] \in {"seen", "listed", "closed"}
           \/ Status[e] = "seen" /\ Status'[e] \in {"listed", "closed"}
    PROVE  OneDelivered
  <1>1. \A x \in Entry \ {e} : Status'[x] = Status[x]
    BY DEF Status
  <1>2. PICK s : s = Status'[e]
    OBVIOUS
  <1>3. Status' = [Status EXCEPT ![e] = s]
    <2>1. PICK before, after :
             /\ before = Status /\ before = [x \in Entry |-> before[x]]
             /\ after = Status' /\ after = [x \in Entry |-> after[x]]
      <3> DEFINE value(x) == CASE reads[x] > 0                     -> "listed"
                               [] reads[x] = 0 /\ x \in dropped    -> "closed"
                               [] reads[x] = 0 /\ x \notin dropped /\ visits[x] > 0 -> "seen"
                               [] OTHER                            -> "unseen"
      <3>1. Status = [x \in Entry |-> value(x)] /\ Status' = [x \in Entry |-> value(x)']
        BY Zenon DEF Status
      <3> HIDE DEF value
      <3> QED
        BY <3>1
    <2>2. after = [before EXCEPT ![e] = s]
      BY <1>1, <1>2, <2>1
    <2> QED
      BY <2>1, <2>2
  <1>4. s \in Contract!Later(Status[e])
    BY <1>2 DEF Contract!Later
  <1>5. e \in RootSet \/ \E d \in Entry : Status[d] = "listed" /\ e \in Elements(Listing[d])
    BY StatusValue
  <1> QED
    BY <1>3, <1>4, <1>5 DEF OneDelivered

\* Outside processDir nothing is visited, and a worker that is done takes no step.
LEMMA LoopSilent ==
    ASSUME NEW w \in Workers, LoopStep(w)
    PROVE  UNCHANGED <<visits, reads, dropped, asked>> /\ pc[w] # "done"
  <1>1. UNCHANGED <<visits, reads, dropped, asked>>
    BY DEF LoopStep, CheckQuit, PopOwn, Steal, AppendStolen, PopStolen, Deactivate, Park, Recheck,
           Unparked, Reactivate, NotifyWork, WakeForWork, RequestQuit, WakeForQuit, history
  <1>2. pc[w] # "done"
    BY DEF LoopStep, CheckQuit, PopOwn, Steal, AppendStolen, PopStolen, Deactivate, Park, Recheck,
           Unparked, Reactivate, NotifyWork, WakeForWork, RequestQuit, WakeForQuit
  <1> QED
    BY <1>1, <1>2

\* So the loop delivers nothing; the last worker to stop ends the walk.
LEMMA LoopDelivers ==
    ASSUME TypeOK, NEW w \in Workers, LoopStep(w)
    PROVE  Contract!LooseNext \/ UNCHANGED <<Status, asked, AllDone>>
  <1>1. UNCHANGED <<visits, reads, dropped, asked>> /\ pc[w] # "done"
    BY LoopSilent
  <1>2. Status' = Status
    BY <1>1 DEF Status
  <1>3. ~AllDone
    BY <1>1 DEF AllDone
  <1>4. CASE AllDone'
    BY <1>1, <1>2, <1>3, <1>4 DEF Contract!LooseNext, Contract!FinishEarly
  <1>5. CASE ~AllDone'
    <2>1. AllDone' = AllDone
      BY <1>3, <1>5 DEF AllDone
    <2> QED
      BY <1>1, <1>2, <2>1
  <1> QED
    BY <1>4, <1>5

\* Every visit and every listing of processDir is a delivery.
LEMMA DirDelivers ==
    ASSUME NEW Rest, TypeOK, Control, TInv(Rest), TypeOK', NEW w \in Workers, DirStep(w)
    PROVE  /\ pc[w] # "done" /\ pc'[w] # "done"
           /\ OneDelivered \/ UNCHANGED <<Status, asked>>
  <1> USE DEF Goto
  <1>1. pc[w] = "dir" /\ pc'[w] # "done" /\ asked' \in {asked, TRUE}
    <2>1. pc[w] = "dir"
      BY DEF DirStep, StartRoot, PruneForeign, OpenFails, ReadDir, VisitEntry, EndOfDir,
             Descended, StartsAt
    <2>2. asked' \in {asked, TRUE}
      BY DEF DirStep, StartRoot, PruneForeign, OpenFails, ReadDir, VisitEntry, EndOfDir,
             StopWalk, ReturnEarly, history
    <2>3. pc' = pc \/ \E l : l # "done" /\ pc' = [pc EXCEPT ![w] = l]
      BY DEF DirStep, StartRoot, PruneForeign, OpenFails, ReadDir, VisitEntry, EndOfDir,
             StopWalk, ReturnEarly
    <2> QED
      BY <2>1, <2>2, <2>3 DEF TypeOK
  <1>3. ASSUME NEW d \in Entry, Pending(d)
        PROVE  /\ d \in RootSet \/ \E c \in Entry : reads[c] > 0 /\ d \in Elements(Listing[c])
               /\ Status[d] \in {"unseen", "seen"}
    <2>1. d \in RootSet \/ \E c \in Entry : reads[c] > 0 /\ d \in Elements(Listing[c])
      BY <1>3 DEF Pending, TInv, ReadFirst
    <2>2. reads[d] = 0 /\ d \notin dropped /\ visits[d] \in Nat
      BY <1>3 DEF Pending, TypeOK
    <2> QED
      BY <2>1, <2>2, StatusValue
  <1>4. CASE StartRoot(w) \/ PruneForeign(w) \/ OpenFails(w)
    <2>1. PICK d \in Entry :
             /\ StartsAt(w, d)
             /\ dropped' = dropped \cup {d}
             /\ visits' = visits \/ visits' = [visits EXCEPT ![d] = @ + 1]
             /\ reads' = reads
      BY <1>4, Disposed
    <2>2. Pending(d)
      BY <2>1, StartingTask
    <2>3. reads'[d] = 0 /\ d \in dropped'
      BY <2>1, <2>2 DEF Pending
    <2>4. Status'[d] = "closed"
      BY <2>3, StatusAfter
    <2>5. \A x \in Entry \ {d} : /\ visits'[x] = visits[x] /\ reads'[x] = reads[x]
                                 /\ x \in dropped' <=> x \in dropped
      BY <2>1 DEF TypeOK
    <2>6. /\ d \in RootSet \/ \E c \in Entry : reads[c] > 0 /\ d \in Elements(Listing[c])
          /\ Status[d] \in {"unseen", "seen"}
      BY <2>2, <1>3
    <2> QED
      BY <1>1, <2>4, <2>5, <2>6, Delivery
  <1>5. CASE ReadDir(w)
    <2>1. PICK d \in Entry :
             /\ StartsAt(w, d)
             /\ reads' = [reads EXCEPT ![d] = @ + 1]
             /\ visits' = visits \/ visits' = [visits EXCEPT ![d] = @ + 1]
             /\ dropped' = dropped
      BY <1>5 DEF ReadDir, Descended, Visited
    <2>2. Pending(d)
      BY <2>1, StartingTask
    <2>3. reads'[d] > 0
      <3>1. reads \in [Entry -> Nat]
        BY DEF TypeOK
      <3> QED
        BY <2>1, <3>1
    <2>4. Status'[d] = "listed"
      BY <2>3, StatusAfter
    <2>5. \A x \in Entry \ {d} : /\ visits'[x] = visits[x] /\ reads'[x] = reads[x]
                                 /\ x \in dropped' <=> x \in dropped
      BY <2>1 DEF TypeOK
    <2>6. /\ d \in RootSet \/ \E c \in Entry : reads[c] > 0 /\ d \in Elements(Listing[c])
          /\ Status[d] \in {"unseen", "seen"}
      BY <2>2, <1>3
    <2> QED
      BY <1>1, <2>4, <2>5, <2>6, Delivery
  <1>6. CASE VisitEntry(w)
    <2>1. PICK f, e :
             /\ f = Top(w) /\ f.next \in 1 .. Len(Listing[f.dir])
             /\ e = Listing[f.dir][f.next]
             /\ visits' = [visits EXCEPT ![e] = @ + 1]
             /\ dropped' = dropped \/ dropped' = dropped \cup {e}
             /\ reads' = reads
      BY <1>6 DEF VisitEntry, Visited
    <2>2. /\ f.dir \in Entry /\ reads[f.dir] > 0
          /\ e \in Entry \ RootSet /\ visits[e] = 0 /\ reads[e] = 0 /\ e \notin dropped
      BY <2>1, <1>1, NextEntry
    <2>3. Status[e] = "unseen"
      BY <2>2, StatusValue
    <2>4. reads'[e] = 0 /\ visits'[e] = 1
      <3>1. visits \in [Entry -> Nat] /\ e \in Entry
        BY <2>2 DEF TypeOK
      <3>2. visits'[e] = visits[e] + 1
        BY <2>1, <3>1
      <3> QED
        BY <2>1, <2>2, <3>2
    <2>5. Status'[e] \in {"seen", "closed"}
      BY <2>2, <2>4, StatusAfter
    <2>6. \A x \in Entry \ {e} : /\ visits'[x] = visits[x] /\ reads'[x] = reads[x]
                                 /\ x \in dropped' <=> x \in dropped
      BY <2>1, <2>2 DEF TypeOK
    <2>7. e \in Elements(Listing[f.dir])
      BY <2>1 DEF Elements
    <2> QED
      BY <1>1, <2>2, <2>3, <2>5, <2>6, <2>7, Delivery
  <1>7. CASE EndOfDir(w)
    <2>1. UNCHANGED <<visits, reads, dropped, asked>>
      BY <1>7 DEF EndOfDir, history
    <2>2. Status' = Status
      BY <2>1 DEF Status
    <2> QED
      BY <1>1, <2>1, <2>2
  <1> QED
    BY <1>4, <1>5, <1>6, <1>7 DEF DirStep

\* Whatever the workers do, the caller sees the contract: an entry is delivered
\* only after the directory above it was listed, is never delivered or listed
\* twice, and nothing is delivered once Walk has returned.
THEOREM WalkerImplementsLooseWalk == Spec => ImplementsLooseWalk
  <1>1. Init => Contract!Init
    <2> SUFFICES ASSUME Init PROVE Contract!Init
      OBVIOUS
    <2>1. TypeOK
      BY InitTypeControl
    <2>2. \A e \in Entry : Status[e] = "unseen"
      BY <2>1, StatusValue DEF Init
    <2>3. Status = [e \in Entry |-> "unseen"]
      BY <2>2 DEF Status
    <2>4. ~AllDone
      <3>1. 0 \in Workers
        BY NumWorkersAssumption DEF Workers
      <3> QED
        BY <3>1 DEF Init, AllDone
    <2> QED
      BY <2>3, <2>4 DEF Contract!Init, Init
  <1>2. IInv /\ TInv({}) /\ IInv' /\ [Next]_vars => [Contract!LooseNext]_(Contract!vars)
    <2> SUFFICES ASSUME IInv, TInv({}), IInv', [Next]_vars
                 PROVE  Contract!LooseNext \/ UNCHANGED <<Status, asked, AllDone>>
      BY DEF Contract!vars
    <2>1. TypeOK /\ Control /\ TypeOK'
      BY DEF IInv
    <2>2. CASE \E w \in Workers : LoopStep(w)
      BY <2>1, <2>2, LoopDelivers
    <2>3. CASE \E w \in Workers : DirStep(w)
      <3>1. ~AllDone /\ ~AllDone' /\ (OneDelivered \/ UNCHANGED <<Status, asked>>)
        BY <2>1, <2>3, DirDelivers DEF AllDone
      <3>2. AllDone' = AllDone
        BY <3>1 DEF AllDone
      <3>3. CASE OneDelivered
        <4>1. PICK e \in Entry : Contract!Deliver(e)
          BY <3>1, <3>2, <3>3 DEF OneDelivered, Contract!Deliver, Contract!Available
        <4> QED
          BY <4>1 DEF Contract!LooseNext
      <3> QED
        BY <3>1, <3>2, <3>3
    <2>4. CASE UNCHANGED vars
      BY <2>4 DEF vars, shared, private, history, Status, AllDone
    <2> QED
      BY <2>2, <2>3, <2>4 DEF Next, Returned, WorkerStep
  <1> QED
    BY <1>1, <1>2, Inductive, TasksInductive, PTL DEF Spec, ImplementsLooseWalk, Contract!LooseSpec
=============================================================================
