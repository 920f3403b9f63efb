----------------------------- MODULE FacadeProofs -----------------------------
(***************************************************************************)
(* Proofs about the library's verbs, for any number of goroutines and      *)
(* files, whatever the caller's fn answers and whoever cancels when.       *)
(***************************************************************************)
EXTENDS FacadeProps, FiniteSetTheorems, SequenceTheorems, TLAPS

-----------------------------------------------------------------------------
(* The inductive invariant, in parts.                                      *)

Delivering == {"lock", "check", "call", "unlock", "store", "back"}
Places == {"idle", "begin", "scan", "take", "finish", "lock", "check", "call", "unlock", "store", "back"}

Types ==
    /\ verb \in {"stream", "count", "list", "files"} /\ lines \in [Files -> Seq(BOOLEAN)]
    /\ before \in Nat /\ after \in Nat /\ cancellable \in BOOLEAN
    /\ todo \subseteq Files /\ quitting \in BOOLEAN
    /\ pc \in [Visitors -> Places] /\ file \in [Visitors -> Files \cup {None}]
    /\ next \in [Visitors -> Nat \ {0}]
    /\ pendingBefore \in [Visitors -> Seq(Nat)] /\ pending \in [Visitors -> Match \cup {None}]
    /\ tally \in [Visitors -> [path : Files \cup {None}, count : Nat]]
    /\ results \in [Files -> Seq(Nat)]
    /\ match \in [Visitors -> Match \cup {None}] /\ cont \in [Visitors -> {"scan", "take", "finish"}]
    /\ ok \in [Visitors -> BOOLEAN] /\ mu \in Visitors \cup {None}
    /\ stopped \in BOOLEAN /\ cancelled \in BOOLEAN /\ watching \in BOOLEAN
    /\ failed \subseteq Files /\ calls \in Seq(Match)
    /\ phase \in {"start", "walk", "returned", "done"} /\ err \in {None, "context", "files"}
    /\ discarded \in BOOLEAN /\ gaveUp \in BOOLEAN /\ selfCancelled \in BOOLEAN

\* fn is called under deliverMu; once it cancelled the context itself nobody is about to call it.
Serialized ==
    /\ \A v \in Visitors : pc[v] \in {"check", "call", "unlock"} <=> mu = v
    /\ selfCancelled => cancelled /\ cancellable /\ \A v \in Visitors : pc[v] # "call"

\* Only a cancellation or fn's answer stops anything.
Stopping ==
    /\ stopped => cancelled \/ gaveUp
    /\ quitting => stopped
    /\ \A v \in Visitors : /\ pc[v] = "unlock" /\ ~ok[v] => cancelled \/ gaveUp
                           /\ pc[v] = "store" => cancelled \/ gaveUp
    /\ gaveUp => verb = "stream"

\* Where a visitor may be, and with which file.
Busy(v) == pc[v] # "idle"
Placed ==
    /\ \A v \in Visitors : Busy(v) => file[v] \in Files \ (todo \cup failed)
    /\ \A u, v \in Visitors : u # v /\ Busy(u) /\ Busy(v) => file[u] # file[v]
    /\ todo \cap failed = {}
    /\ \A v \in Visitors : pc[v] \in {"lock", "check", "call"} => match[v] # None
    /\ verb # "stream" => \A v \in Visitors :
          pc[v] \in {"idle", "begin", "scan", "finish"} /\ pending[v] = None
    /\ verb = "files" => \A v \in Visitors : pc[v] \in {"idle", "begin"}

\* A match of the visitor's file that it is still going to deliver.
Is(m, f, i) == m # None /\ m.file = f /\ m.line = i
Scanning(v) == pc[v] \in {"scan", "take"} \/ (pc[v] \in Delivering /\ cont[v] \in {"scan", "take"})
Held(v, i) ==
    /\ Busy(v)
    /\ \/ pc[v] = "begin"
       \/ Scanning(v) /\ next[v] <= i
       \/ Is(pending[v], file[v], i)
       \/ pc[v] \in {"lock", "check", "call"} /\ Is(match[v], file[v], i)

Called(f, i) == \E k \in DOMAIN calls : calls[k].file = f /\ calls[k].line = i

\* While nothing has stopped the search, no match is lost on its way to fn.
StreamKept ==
    verb = "stream" /\ ~cancelled /\ ~gaveUp =>
        \A f \in Files \ (todo \cup failed) : \A i \in MatchesOf(f) :
            Called(f, i) \/ \E v \in Visitors : file[v] = f /\ Held(v, i)

\* While nothing has stopped the search, a collecting Sink has counted what was scanned, and
\* what is recorded is right.
Seen(f, n) == {i \in MatchesOf(f) : i < n}
Tallied(v) ==
    LET f == file[v]
        n == tally[v].count
    IN  /\ tally[v].path = f
        /\ verb = "count" /\ pc[v] = "scan" => n = Cardinality(Seen(f, next[v]))
        /\ verb = "count" /\ pc[v] = "finish" => n = Cardinality(MatchesOf(f))
        /\ verb = "list" /\ pc[v] = "scan" => n = 0 /\ Seen(f, next[v]) = {}
        /\ verb = "list" /\ pc[v] = "finish" => (n = 0 <=> MatchesOf(f) = {})
Unfinished(f) == f \in todo \/ f \in failed \/ \E v \in Visitors : Busy(v) /\ file[v] = f
CountsKept ==
    verb # "stream" /\ ~cancelled =>
        /\ \A v \in Visitors : pc[v] \in {"scan", "finish"} => Tallied(v)
        /\ \A f \in Files : results[f] = IF Unfinished(f) THEN << >> ELSE Expected(f)

\* What the verb returns with, once the walk is over.
Settled ==
    /\ phase # "walk" => \A v \in Visitors : ~Busy(v)
    /\ phase \in {"start", "walk"} => err = None
    /\ err = "context" => cancelled
    /\ phase = "done" /\ ~discarded => err # "context"
    /\ phase \in {"returned", "done"} /\ err # "context" =>
          /\ verb = "stream" /\ ~gaveUp =>
                \A f \in Files \ (failed \cup Lost) : \A i \in MatchesOf(f) : Called(f, i)
          /\ verb # "stream" =>
                \A f \in Files : results[f] = IF f \in failed \cup Lost THEN << >> ELSE Expected(f)

FInv == Types /\ Serialized /\ Stopping /\ Placed /\ StreamKept /\ CountsKept /\ Settled

-----------------------------------------------------------------------------
(* What every step keeps.                                                  *)

\* The step of one visitor leaves the other visitors alone.
LEMMA Separate ==
    ASSUME Types, NEW v \in Visitors, VisitorStep(v)
    PROVE  /\ \A u \in Visitors \ {v} :
                 /\ pc'[u] = pc[u] /\ file'[u] = file[u] /\ next'[u] = next[u]
                 /\ pending'[u] = pending[u] /\ tally'[u] = tally[u]
                 /\ match'[u] = match[u] /\ cont'[u] = cont[u] /\ ok'[u] = ok[u]
           /\ UNCHANGED <<input, outcome>>
  <1> USE DEF input, walk, collector, delivery, outcome, Goto, Types
  <1>1. CASE Visit(v) \/ SkipLine(v) \/ Decline(v)
    BY <1>1 DEF Visit, SkipLine, Decline, Advance
  <1>2. CASE Begin(v)
    BY <1>2 DEF Begin
  <1>3. CASE AfterLine(v)
    BY <1>3 DEF AfterLine, Advance, Deliver
  <1>4. CASE BeforeLine(v)
    BY <1>4 DEF BeforeLine, FlushPending, Advance, Deliver
  <1>5. CASE MatchLine(v)
    BY <1>5 DEF MatchLine, FlushPending, Advance, Deliver
  <1>6. CASE CountMatch(v) \/ FindMatch(v) \/ Record(v) \/ List(v)
    BY <1>6 DEF CountMatch, FindMatch, Record, List, Counted, Advance
  <1>7. CASE EndOfFile(v) \/ SearchFails(v)
    BY <1>7 DEF EndOfFile, SearchFails
  <1>8. CASE Finish(v)
    BY <1>8 DEF Finish, FlushPending, Deliver
  <1>9. CASE Lock(v) \/ CheckContext(v) \/ Call(v)
    BY <1>9 DEF Lock, CheckContext, Call
  <1>10. CASE Unlock(v) \/ Store(v) \/ Back(v)
    BY <1>10 DEF Unlock, Store, Back
  <1> QED
    BY <1>1, <1>2, <1>3, <1>4, <1>5, <1>6, <1>7, <1>8, <1>9, <1>10 DEF VisitorStep, DeliverStep

\* Outside deliver a visitor leaves the mutex, the flags and fn alone.
LEMMA Moves ==
    ASSUME Types, NEW v \in Visitors, VisitorStep(v), ~DeliverStep(v)
    PROVE  /\ pc[v] \in {"idle", "begin", "scan", "take", "finish"}
           /\ pc'[v] \in {"idle", "begin", "scan", "take", "finish", "lock"}
           /\ UNCHANGED <<ok, mu, stopped, cancelled, watching, calls>>
           /\ Visit(v) \/ (pc[v] # "idle" /\ UNCHANGED walk)
  <1> USE DEF collector, delivery, Goto
  <1>0. pc \in [Visitors -> Places]
    BY DEF Types
  <1>1. CASE Visit(v)
    BY <1>0, <1>1 DEF Visit
  <1>2. CASE Begin(v) \/ SkipLine(v) \/ Decline(v)
    BY <1>0, <1>2 DEF Begin, SkipLine, Decline, AtKind
  <1>3. CASE AfterLine(v)
    BY <1>0, <1>3 DEF AfterLine, AtKind, Deliver
  <1>4. CASE BeforeLine(v)
    BY <1>0, <1>4 DEF BeforeLine, Enters, AtKind, FlushPending, Deliver
  <1>5. CASE MatchLine(v)
    BY <1>0, <1>5 DEF MatchLine, Enters, AtKind, FlushPending, Deliver
  <1>6. CASE CountMatch(v) \/ FindMatch(v) \/ Record(v) \/ List(v)
    BY <1>0, <1>6 DEF CountMatch, FindMatch, Record, List, AtKind
  <1>7. CASE EndOfFile(v) \/ SearchFails(v)
    BY <1>0, <1>7 DEF EndOfFile, SearchFails
  <1>8. CASE Finish(v)
    BY <1>0, <1>8 DEF Finish, FlushPending, Deliver
  <1> QED
    BY <1>1, <1>2, <1>3, <1>4, <1>5, <1>6, <1>7, <1>8 DEF VisitorStep

Extended(v) == [pending[v] EXCEPT !.after = Append(@, next[v])]

\* The Matches a collector makes.
LEMMA Collected ==
    ASSUME Types, Placed, NEW v \in Visitors, Busy(v)
    PROVE  /\ NewMatch(v) \in Match \ {None} /\ NewMatch(v).file = file[v] /\ NewMatch(v).line = next[v]
           /\ pending[v] # None => /\ Extended(v) \in Match \ {None}
                                   /\ Extended(v).file = pending[v].file
                                   /\ Extended(v).line = pending[v].line
  <1>1. file[v] \in Files /\ next[v] \in Nat /\ pendingBefore[v] \in Seq(Nat) /\ << >> \in Seq(Nat)
    BY DEF Types, Placed
  <1>2. NewMatch(v) \in Match /\ NewMatch(v).file = file[v] /\ NewMatch(v).line = next[v]
    BY <1>1 DEF NewMatch, Match
  <1>3. ASSUME pending[v] # None
        PROVE  /\ Extended(v) \in Match
               /\ Extended(v).file = pending[v].file /\ Extended(v).line = pending[v].line
    <2>1. pending[v] \in Match
      BY <1>3 DEF Types
    <2>2. PICK a \in Seq(Nat) : a = pending[v].after
      BY <2>1 DEF Match
    <2>3. Append(a, next[v]) \in Seq(Nat)
      BY <1>1
    <2>4. Extended(v) = [pending[v] EXCEPT !.after = Append(a, next[v])]
      BY <2>2 DEF Extended
    <2> QED
      BY <2>1, <2>3, <2>4 DEF Match
  <1> QED
    BY <1>2, <1>3, NoneAssumption

\* The variables that a visitor changes keep their types.
LEMMA StepTypes ==
    ASSUME Types, Placed, NEW v \in Visitors, VisitorStep(v)
    PROVE  /\ todo' \subseteq Files /\ quitting' \in BOOLEAN
           /\ pc' \in [Visitors -> Places] /\ file' \in [Visitors -> Files \cup {None}]
           /\ next' \in [Visitors -> Nat \ {0}]
           /\ pendingBefore' \in [Visitors -> Seq(Nat)] /\ pending' \in [Visitors -> Match \cup {None}]
           /\ tally' \in [Visitors -> [path : Files \cup {None}, count : Nat]]
           /\ results' \in [Files -> Seq(Nat)]
           /\ match' \in [Visitors -> Match \cup {None}]
           /\ cont' \in [Visitors -> {"scan", "take", "finish"}]
           /\ ok' \in [Visitors -> BOOLEAN] /\ mu' \in Visitors \cup {None}
           /\ stopped' \in BOOLEAN /\ cancelled' \in BOOLEAN /\ watching' \in BOOLEAN
           /\ failed' \subseteq Files /\ calls' \in Seq(Match)
  <1> USE DEF input, walk, collector, delivery, outcome, Goto
  <1>0. Busy(v) => file[v] \in Files
    BY DEF Placed
  <1>p. \A l \in Places : [pc EXCEPT ![v] = l] \in [Visitors -> Places]
    BY DEF Types
  <1>a. /\ [next EXCEPT ![v] = @ + 1] \in [Visitors -> Nat \ {0}]
        /\ [next EXCEPT ![v] = 1] \in [Visitors -> Nat \ {0}]
    BY DEF Types
  <1>b. \A m \in Match \cup {None} : /\ [pending EXCEPT ![v] = m] \in [Visitors -> Match \cup {None}]
                                     /\ [match EXCEPT ![v] = m] \in [Visitors -> Match \cup {None}]
    BY DEF Types
  <1>c. \A s \in Seq(Nat) : [pendingBefore EXCEPT ![v] = s] \in [Visitors -> Seq(Nat)]
    BY DEF Types
  <1>d. /\ next[v] \in Nat /\ pending[v] \in Match \cup {None} /\ pendingBefore[v] \in Seq(Nat)
        /\ tally[v].path \in Files \cup {None} /\ tally[v].count \in Nat /\ << >> \in Seq(Nat)
    BY DEF Types
  <1>e. \A t \in [path : Files \cup {None}, count : Nat] :
           [tally EXCEPT ![v] = t] \in [Visitors -> [path : Files \cup {None}, count : Nat]]
    BY DEF Types
  <1>f. \A l \in {"scan", "take", "finish"} : [cont EXCEPT ![v] = l] \in [Visitors -> {"scan", "take", "finish"}]
    BY DEF Types
  <1>1. CASE Visit(v)
    <2>1. PICK f \in todo :
            /\ todo' = todo \ {f}
            /\ IF stopped THEN quitting' = TRUE /\ UNCHANGED <<pc, file>>
               ELSE file' = [file EXCEPT ![v] = f] /\ Goto(v, "begin") /\ UNCHANGED quitting
      BY <1>1 DEF Visit
    <2>2. pc' \in [Visitors -> Places] /\ file' \in [Visitors -> Files \cup {None}]
      <3>1. [file EXCEPT ![v] = f] \in [Visitors -> Files \cup {None}]
        BY DEF Types
      <3>2. [pc EXCEPT ![v] = "begin"] \in [Visitors -> Places]
        BY <1>p DEF Places
      <3>3. CASE stopped
        BY <2>1, <3>3 DEF Types
      <3>4. CASE ~stopped
        BY <2>1, <3>1, <3>2, <3>4
      <3> QED
        BY <3>3, <3>4
    <2>3. todo' \subseteq Files /\ quitting' \in BOOLEAN
      BY <2>1 DEF Types
    <2> QED
      BY <1>1, <2>2, <2>3 DEF Visit, Types
  <1>2. CASE SkipLine(v) \/ Decline(v)
    BY <1>2, <1>a, <1>p DEF SkipLine, Decline, Advance, Types, Places
  <1>3. CASE Begin(v)
    <2>1. CASE stopped
      BY <1>3, <2>1, <1>p, ZenonT(30) DEF Begin, Types, Places
    <2>2. CASE ~stopped
      <3>1. Cleared(v) \in [path : Files \cup {None}, count : Nat]
        BY <1>0, <1>3 DEF Cleared, Begin, Busy
      <3>2. tally' \in [Visitors -> [path : Files \cup {None}, count : Nat]]
        BY <1>3, <2>2, <3>1, <1>e DEF Begin
      <3>3. pending' \in [Visitors -> Match \cup {None}]
        BY <1>3, <2>2, <1>b DEF Begin, NoPending
      <3>4. pendingBefore' \in [Visitors -> Seq(Nat)]
        BY <1>3, <2>2, <1>c, <1>d DEF Begin
      <3>5. next' \in [Visitors -> Nat \ {0}]
        BY <1>3, <2>2, <1>a DEF Begin
      <3>6. pc' \in [Visitors -> Places]
        BY <1>3, <2>2, <1>p DEF Begin, Places
      <3> QED
        BY <1>3, <2>2, <3>2, <3>3, <3>4, <3>5, <3>6 DEF Begin, Types
    <2> QED
      BY <2>1, <2>2
  <1>g. ASSUME NEW m \in Match \cup {None}, NEW l \in {"scan", "take", "finish"}, Deliver(v, m, l)
         PROVE  /\ pc' \in [Visitors -> Places] /\ cont' \in [Visitors -> {"scan", "take", "finish"}]
                /\ match' \in [Visitors -> Match \cup {None}] /\ UNCHANGED <<ok, mu>>
    BY <1>g, <1>b, <1>f, <1>p DEF Deliver, Places
  <1>4. CASE AfterLine(v)
    <2>1. CASE pending[v] = None
      BY <1>4, <2>1, <1>a DEF AfterLine, Advance, Types
    <2>2. CASE pending[v] # None
      <3>1. PICK m : m = Extended(v)
        OBVIOUS
      <3>2. m \in Match
        <4>1. Busy(v)
          BY <1>4 DEF AfterLine, AtKind, Busy
        <4> QED
          BY <2>2, <3>1, <4>1, Collected
      <3>3. \/ Deliver(v, m, "scan") /\ pending' = [pending EXCEPT ![v] = None]
            \/ pending' = [pending EXCEPT ![v] = m] /\ UNCHANGED <<pc, delivery>>
        BY <1>4, <2>2, <3>1 DEF AfterLine, Extended
      <3>4. pending' \in [Visitors -> Match \cup {None}]
        BY <3>2, <3>3, <1>b
      <3>5. /\ pc' \in [Visitors -> Places] /\ cont' \in [Visitors -> {"scan", "take", "finish"}]
            /\ match' \in [Visitors -> Match \cup {None}] /\ UNCHANGED <<ok, mu>>
        BY <3>2, <3>3, <1>g DEF Types
      <3>6. next' = [next EXCEPT ![v] = @ + 1] /\ UNCHANGED <<pendingBefore, tally, results>>
        BY <1>4, <2>2 DEF AfterLine, Advance
      <3> QED
        BY <1>4, <3>4, <3>5, <3>6, <1>a DEF AfterLine, Types
    <2> QED
      BY <2>1, <2>2
  <1>h. ASSUME NEW l \in {"take", "finish"}, FlushPending(v, l)
        PROVE  /\ pc' \in [Visitors -> Places] /\ cont' \in [Visitors -> {"scan", "take", "finish"}]
               /\ pending' \in [Visitors -> Match \cup {None}] /\ match' \in [Visitors -> Match \cup {None}]
               /\ UNCHANGED <<ok, mu, pendingBefore, tally, results>>
    BY <1>h, <1>b, <1>d, <1>g DEF FlushPending
  <1>6. CASE BeforeLine(v)
    <2>1. CASE pending[v] # None
      BY <1>h, <1>6, <2>1 DEF BeforeLine, Types
    <2>2. CASE pending[v] = None
      <3>1. PICK s \in Seq(Nat) : s = pendingBefore[v]
        BY <1>d
      <3>2. PICK t \in Seq(Nat) : t = Append(s, next[v]) /\ t # << >>
        BY <1>d, AppendProperties, ZenonT(30)
      <3>3. Newest(t) \in Seq(Nat)
        BY <3>2 DEF Newest
      <3>4. pendingBefore' \in [Visitors -> Seq(Nat)]
        BY <1>6, <2>2, <3>1, <3>2, <3>3, <1>c DEF BeforeLine
      <3>5. next' \in [Visitors -> Nat \ {0}] /\ pc' \in [Visitors -> Places]
        <4>1. next' = [next EXCEPT ![v] = @ + 1] /\ pc' = [pc EXCEPT ![v] = "scan"]
          BY <1>6, <2>2 DEF BeforeLine, Advance
        <4>2. [pc EXCEPT ![v] = "scan"] \in [Visitors -> Places]
          BY <1>p DEF Places
        <4> QED
          BY <1>a, <4>1, <4>2
      <3> QED
        BY <1>6, <2>2, <3>4, <3>5 DEF BeforeLine, Types
    <2> QED
      BY <2>1, <2>2
  <1>7. CASE MatchLine(v)
    <2>1. CASE pending[v] # None
      BY <1>h, <1>7, <2>1 DEF MatchLine, Types
    <2>2. CASE pending[v] = None
      <3>1. PICK m : m = NewMatch(v)
        OBVIOUS
      <3>2. m \in Match
        <4>1. Busy(v)
          BY <1>7 DEF MatchLine, Enters, AtKind, Busy
        <4> QED
          BY <3>1, <4>1, Collected
      <3>3. \/ Deliver(v, m, "scan") /\ pending' = pending
            \/ pending' = [pending EXCEPT ![v] = m] /\ Goto(v, "scan") /\ UNCHANGED delivery
        BY <1>7, <2>2, <3>1 DEF MatchLine
      <3>4. pending' \in [Visitors -> Match \cup {None}]
        BY <3>2, <3>3, <1>b, ZenonT(30) DEF Types
      <3>5. /\ pc' \in [Visitors -> Places] /\ cont' \in [Visitors -> {"scan", "take", "finish"}]
            /\ match' \in [Visitors -> Match \cup {None}] /\ UNCHANGED <<ok, mu>>
        <4>1. "scan" \in Places
          BY DEF Places
        <4> QED
          BY <3>2, <3>3, <4>1, <1>g, <1>p DEF Types
      <3>6. next' = [next EXCEPT ![v] = @ + 1] /\ UNCHANGED <<tally, results>>
            /\ pendingBefore' = [pendingBefore EXCEPT ![v] = << >>]
        BY <1>7, <2>2 DEF MatchLine, Advance, TakenBefore
      <3>7. pendingBefore' \in [Visitors -> Seq(Nat)]
        BY <3>6, <1>c, <1>d
      <3> QED
        BY <1>7, <3>4, <3>5, <3>6, <3>7, <1>a DEF MatchLine, Types
    <2> QED
      BY <2>1, <2>2
  <1>8. CASE CountMatch(v) \/ FindMatch(v)
    <2>1. tally' = [tally EXCEPT ![v] = [path |-> tally[v].path, count |-> tally[v].count + 1]]
      BY <1>8 DEF CountMatch, FindMatch, Counted, Types
    <2>2. tally' \in [Visitors -> [path : Files \cup {None}, count : Nat]]
      <3>1. [path |-> tally[v].path, count |-> tally[v].count + 1] \in [path : Files \cup {None}, count : Nat]
        BY <1>d
      <3> QED
        BY <2>1, <3>1, <1>e
    <2>3. next' \in [Visitors -> Nat \ {0}]
      BY <1>8, <1>a DEF CountMatch, FindMatch, Advance, Types
    <2>4. pc' \in [Visitors -> Places]
      BY <1>8, <1>p DEF CountMatch, FindMatch, Places, Types
    <2> QED
      BY <1>8, <2>2, <2>3, <2>4 DEF CountMatch, FindMatch, Types
  <1>9. CASE Record(v)
    <2>1. \A s \in Seq(Nat) : \A f : [results EXCEPT ![f] = s] \in [Files -> Seq(Nat)]
      BY DEF Types
    <2>2. <<tally[v].count>> \in Seq(Nat)
      BY <1>d
    <2>3. results' \in [Files -> Seq(Nat)]
      <3>1. CASE verb = "count"
        BY <1>9, <2>1, <2>2, <3>1 DEF Record, Recorded, Types
      <3>2. CASE verb # "count"
        <4>1. PICK p : p = tally[v].path
          OBVIOUS
        <4>2. results' = results \/ results' = [results EXCEPT ![p] = Append(results[p], 1)]
          BY <1>9, <3>2, <4>1 DEF Record, Recorded
        <4>3. p \in Files => Append(results[p], 1) \in Seq(Nat)
          BY DEF Types
        <4> QED
          BY <4>2, <4>3 DEF Types
      <3> QED
        BY <3>1, <3>2
    <2>4. pc' \in [Visitors -> Places]
      BY <1>9, <1>p DEF Record, Places
    <2> QED
      BY <1>9, <2>3, <2>4 DEF Record, Types
  <1>10. CASE List(v)
    <2>1. file[v] \in Files
      BY <1>0, <1>10 DEF List, Busy
    <2>2. Append(results[file[v]], 1) \in Seq(Nat)
      BY <2>1 DEF Types
    <2>3. results' \in [Files -> Seq(Nat)] /\ failed' \subseteq Files
      BY <1>10, <2>1, <2>2 DEF List, Types
    <2>4. pc' \in [Visitors -> Places]
      BY <1>10, <1>p DEF List, Places
    <2> QED
      BY <1>10, <2>3, <2>4 DEF List, Types
  <1>11. CASE EndOfFile(v) \/ SearchFails(v)
    BY <1>11, <1>0, <1>p DEF EndOfFile, SearchFails, Busy, Types, Places
  <1>12. CASE Finish(v)
    <2>1. CASE pending[v] # None
      BY <1>h, <1>12, <2>1 DEF Finish, Types
    <2>2. CASE pending[v] = None
      <3>1. pc' \in [Visitors -> Places]
        BY <1>12, <1>p, <2>2 DEF Finish, Places
      <3> QED
        BY <1>12, <2>2, <3>1 DEF Finish, Types
    <2> QED
      BY <2>1, <2>2
  <1>13. CASE Lock(v) \/ CheckContext(v)
    BY <1>13, <1>p DEF Lock, CheckContext, Refused, Types, Places
  <1>14. CASE Call(v)
    <2>1. match[v] \in Match
      BY <1>14 DEF Call, Placed, Types
    <2>2. calls' \in Seq(Match)
      BY <1>14, <2>1 DEF Call, Types
    <2>3. ok' \in [Visitors -> BOOLEAN] /\ cancelled' \in BOOLEAN
      BY <1>14 DEF Call, Types
    <2>4. pc' \in [Visitors -> Places]
      BY <1>14, <1>p DEF Call, Places
    <2> QED
      BY <1>14, <2>2, <2>3, <2>4 DEF Call, Types
  <1>15. CASE Unlock(v) \/ Store(v)
    BY <1>15, <1>p DEF Unlock, Store, Types, Places
  <1>5. CASE Back(v)
    <2>1. pc' \in [Visitors -> Places]
      <3>1. cont[v] \in Places
        BY DEF Types, Places
      <3> QED
        BY <1>5, <3>1, <1>p DEF Back, Places
    <2> QED
      BY <1>5, <2>1, <1>b DEF Back, Types
  <1> QED
    BY <1>1, <1>2, <1>3, <1>4, <1>6, <1>7, <1>8, <1>9, <1>10, <1>11, <1>12, <1>13, <1>14, <1>15, <1>5
    DEF VisitorStep, DeliverStep

-----------------------------------------------------------------------------
(* Who may stop, and who calls fn.                                         *)

SelfCancels == selfCancelled' = (selfCancelled \/ (\E v \in Visitors : Calls(v) /\ cancelled' # cancelled))
GivesUp == gaveUp' = (gaveUp \/ \E v \in Visitors : Calls(v) /\ ~ok'[v])

\* deliverMu lets one visitor at a time ask and call, and a self-cancelled context refuses.
LEMMA StepSerialized ==
    ASSUME Types, Serialized, NEW v \in Visitors, VisitorStep(v), SelfCancels
    PROVE  Serialized'
  <1> USE DEF input, walk, collector, delivery, outcome, Goto
  <1>1. /\ \A u \in Visitors \ {v} : pc'[u] = pc[u]
        /\ cancellable' = cancellable /\ pc \in [Visitors -> Places] /\ None \notin Visitors
        /\ cancelled \in BOOLEAN /\ cancellable \in BOOLEAN
    BY Separate, NoneAssumption DEF Types
  <1>2. /\ \A u \in Visitors : pc[u] \in {"check", "call", "unlock"} <=> mu = u
        /\ selfCancelled => (cancelled /\ cancellable /\ \A u \in Visitors : pc[u] # "call")
    BY DEF Serialized
  <1>3. CASE Call(v)
    <2>1. pc[v] = "call" /\ pc'[v] = "unlock" /\ mu' = mu /\ mu = v
      BY <1>1, <1>2, <1>3 DEF Call
    <2>2. ~selfCancelled
      BY <1>2, <2>1
    <2>3. \A u \in Visitors : pc'[u] # "call"
      BY <1>1, <1>2, <2>1
    <2>4. cancelled' # cancelled => (cancelled' /\ cancellable)
      BY <1>1, <1>3 DEF Call
    <2>5. selfCancelled' => (cancelled' /\ cancellable')
      BY <1>1, <2>2, <2>4 DEF SelfCancels
    <2> QED
      BY <1>1, <1>2, <2>1, <2>3, <2>5 DEF Serialized
  <1>4. CASE ~Call(v)
    <2>1. cancelled' = cancelled
      BY <1>4, Moves DEF DeliverStep, Lock, CheckContext, Unlock, Store, Back
    <2>2. selfCancelled' = selfCancelled
      BY <2>1 DEF SelfCancels, Types
    <2>3. CASE Lock(v)
      <3>1. pc[v] = "lock" /\ mu = None /\ mu' = v /\ pc'[v] \in {"unlock", "check"}
        BY <1>1, <2>3 DEF Lock
      <3> QED
        BY <1>1, <1>2, <2>1, <2>2, <3>1 DEF Serialized
    <2>4. CASE CheckContext(v)
      <3>1. pc[v] = "check" /\ mu' = mu /\ pc'[v] \in {"unlock", "call"}
            /\ (cancelled /\ cancellable => pc'[v] = "unlock")
        BY <1>1, <2>4 DEF CheckContext, Refused
      <3> QED
        BY <1>1, <1>2, <2>1, <2>2, <3>1 DEF Serialized
    <2>5. CASE Unlock(v)
      <3>1. pc[v] = "unlock" /\ mu' = None /\ pc'[v] \in {"back", "store"}
        BY <1>1, <2>5 DEF Unlock
      <3> QED
        BY <1>1, <1>2, <2>1, <2>2, <3>1 DEF Serialized
    <2>6. CASE ~Lock(v) /\ ~CheckContext(v) /\ ~Unlock(v)
      <3>1. mu' = mu /\ pc[v] \notin {"check", "call", "unlock"} /\ pc'[v] \notin {"check", "call", "unlock"}
        <4>1. CASE Store(v) \/ Back(v)
          BY <1>1, <4>1 DEF Store, Back, Types
        <4>2. CASE ~DeliverStep(v)
          BY <4>2, Moves
        <4> QED
          BY <1>4, <2>6, <4>1, <4>2 DEF DeliverStep
      <3> QED
        BY <1>1, <1>2, <2>1, <2>2, <3>1 DEF Serialized
    <2> QED
      BY <2>3, <2>4, <2>5, <2>6
  <1> QED
    BY <1>3, <1>4

\* What stops a search is a cancellation or fn.
LEMMA StepStopping ==
    ASSUME Types, Serialized, Stopping, Placed, NEW v \in Visitors, VisitorStep(v), GivesUp
    PROVE  /\ Stopping'
           /\ gaveUp => gaveUp'
           /\ cancelled => cancelled'
           /\ gaveUp' => (gaveUp \/ verb = "stream")
  <1> USE DEF input, walk, collector, delivery, outcome, Goto
  <1>1. /\ \A u \in Visitors \ {v} : pc'[u] = pc[u] /\ ok'[u] = ok[u]
        /\ verb' = verb /\ pc \in [Visitors -> Places] /\ ok \in [Visitors -> BOOLEAN]
        /\ gaveUp \in BOOLEAN /\ cancelled \in BOOLEAN /\ stopped \in BOOLEAN
    BY Separate DEF Types
  <1>2. /\ stopped => (cancelled \/ gaveUp)
        /\ quitting => stopped
        /\ \A u \in Visitors : /\ (pc[u] = "unlock" /\ ~ok[u]) => (cancelled \/ gaveUp)
                               /\ pc[u] = "store" => (cancelled \/ gaveUp)
        /\ gaveUp => verb = "stream"
    BY DEF Stopping
  <1>3. gaveUp => gaveUp'
    BY DEF GivesUp
  <1>4. \A u \in Visitors \ {v} : ~Calls(u)
    BY <1>1 DEF Calls
  <1>5. CASE Call(v)
    <2>1. /\ pc[v] = "call" /\ pc'[v] = "unlock" /\ stopped' = stopped /\ quitting' = quitting
          /\ cancelled => cancelled'
      BY <1>1, <1>5 DEF Call
    <2>2. verb = "stream"
      BY <2>1 DEF Placed
    <2>3. ~ok'[v] => gaveUp'
      BY <2>1 DEF GivesUp, Calls
    <2>4. \A u \in Visitors : /\ (pc'[u] = "unlock" /\ ~ok'[u]) => (cancelled' \/ gaveUp')
                              /\ pc'[u] = "store" => (cancelled' \/ gaveUp')
      BY <1>1, <1>2, <1>3, <2>1, <2>3
    <2> QED
      BY <1>1, <1>2, <1>3, <2>1, <2>2, <2>4 DEF Stopping
  <1>6. CASE ~Call(v)
    <2>1. cancelled' = cancelled
      BY <1>6, Moves DEF DeliverStep, Lock, CheckContext, Unlock, Store, Back
    <2>2. gaveUp' = gaveUp
      <3>1. ~Calls(v)
        <4>1. CASE ~DeliverStep(v)
          BY <4>1, Moves DEF Calls
        <4>2. CASE DeliverStep(v)
          BY <1>1, <1>6, <4>2 DEF DeliverStep, Lock, CheckContext, Unlock, Store, Back, Calls
        <4> QED
          BY <4>1, <4>2
      <3> QED
        BY <1>1, <1>4, <3>1 DEF GivesUp
    <2>3. /\ stopped' => (cancelled \/ gaveUp)
          /\ quitting' => stopped'
          /\ (pc'[v] = "unlock" /\ ~ok'[v]) => (cancelled \/ gaveUp)
          /\ pc'[v] = "store" => (cancelled \/ gaveUp)
      <3>1. CASE Visit(v)
        BY <1>1, <1>2, <3>1 DEF Visit
      <3>2. CASE Lock(v)
        BY <1>1, <1>2, <3>2 DEF Lock
      <3>3. CASE CheckContext(v)
        BY <1>1, <1>2, <3>3 DEF CheckContext, Refused
      <3>4. CASE Unlock(v)
        BY <1>1, <1>2, <3>4 DEF Unlock
      <3>5. CASE Store(v)
        BY <1>1, <1>2, <3>5 DEF Store
      <3>6. CASE Back(v)
        BY <1>1, <1>2, <3>6 DEF Back, Types
      <3>7. CASE ~Visit(v) /\ ~DeliverStep(v)
        <4>1. stopped' = stopped /\ quitting' = quitting /\ pc'[v] \notin {"unlock", "store"}
          BY <3>7, Moves
        <4> QED
          BY <1>2, <4>1
      <3> QED
        BY <1>6, <3>1, <3>2, <3>3, <3>4, <3>5, <3>6, <3>7 DEF DeliverStep
    <2> QED
      BY <1>1, <1>2, <2>1, <2>2, <2>3 DEF Stopping
  <1> QED
    BY <1>5, <1>6

\* A file is in the hands of one visitor until it is done with it, and only SearchStream delivers.
LEMMA StepPlaced ==
    ASSUME Types, Placed, NEW v \in Visitors, VisitorStep(v)
    PROVE  Placed'
  <1> USE DEF input, walk, collector, delivery, outcome, Goto
  <1>1. /\ \A u \in Visitors \ {v} : /\ pc'[u] = pc[u] /\ file'[u] = file[u]
                                     /\ pending'[u] = pending[u] /\ match'[u] = match[u]
        /\ verb' = verb
    BY Separate
  <1>2. /\ \A u \in Visitors : pc[u] # "idle" => (file[u] \in Files /\ file[u] \notin todo /\ file[u] \notin failed)
        /\ \A u, w \in Visitors : (u # w /\ pc[u] # "idle" /\ pc[w] # "idle") => file[u] # file[w]
        /\ todo \cap failed = {} /\ todo \subseteq Files
        /\ \A u \in Visitors : pc[u] \in {"lock", "check", "call"} => match[u] # None
        /\ verb # "stream" => \A u \in Visitors :
              pc[u] \in {"idle", "begin", "scan", "finish"} /\ pending[u] = None
        /\ verb = "files" => \A u \in Visitors : pc[u] \in {"idle", "begin"}
    BY DEF Placed, Busy, Types
  <1>3. pc \in [Visitors -> Places] /\ file \in [Visitors -> Files \cup {None}]
        /\ pending \in [Visitors -> Match \cup {None}] /\ match \in [Visitors -> Match \cup {None}]
    BY DEF Types
  <1>4. /\ \A u \in Visitors : pc'[u] # "idle" => (file'[u] \in Files /\ file'[u] \notin todo' /\ file'[u] \notin failed')
        /\ \A u, w \in Visitors : (u # w /\ pc'[u] # "idle" /\ pc'[w] # "idle") => file'[u] # file'[w]
        /\ todo' \cap failed' = {}
    <2>1. CASE Visit(v)
      <3>1. PICK f \in todo :
              /\ todo' = todo \ {f}
              /\ IF stopped THEN UNCHANGED <<pc, file>>
                 ELSE file' = [file EXCEPT ![v] = f] /\ Goto(v, "begin")
        BY <2>1 DEF Visit
      <3>2. pc[v] = "idle" /\ failed' = failed
        BY <2>1 DEF Visit
      <3>3. CASE stopped
        BY <1>2, <3>1, <3>2, <3>3
      <3>4. CASE ~stopped
        <4>1. file'[v] = f /\ f \in Files \ todo' /\ f \notin failed
          BY <1>2, <1>3, <3>1, <3>4
        <4>2. \A u \in Visitors \ {v} : pc'[u] # "idle" => (pc[u] # "idle" /\ file'[u] = file[u] /\ file[u] # f)
          BY <1>1, <1>2, <3>1
        <4> QED
          BY <1>2, <3>1, <3>2, <4>1, <4>2
      <3> QED
        BY <3>3, <3>4
    <2>2. CASE SearchFails(v) \/ List(v)
      <3>1. /\ pc[v] # "idle" /\ pc'[v] = "idle" /\ UNCHANGED <<todo, file>>
            /\ failed' = failed \/ failed' = failed \cup {file[v]}
        BY <1>3, <2>2 DEF SearchFails, List
      <3> QED
        BY <1>1, <1>2, <3>1
    <2>3. CASE ~Visit(v) /\ ~SearchFails(v) /\ ~List(v)
      <3>1. UNCHANGED <<todo, file, failed>> /\ pc[v] # "idle"
        <4>1. CASE DeliverStep(v)
          BY <4>1 DEF DeliverStep, Lock, CheckContext, Call, Unlock, Store, Back
        <4>2. CASE ~DeliverStep(v)
          <5>1. failed' = failed
            BY <2>3, <4>2 DEF VisitorStep, Begin, SkipLine, Decline, AfterLine, BeforeLine, MatchLine,
               CountMatch, FindMatch, Record, EndOfFile, Finish
          <5> QED
            BY <2>3, <4>2, <5>1, Moves
        <4> QED
          BY <4>1, <4>2
      <3> QED
        BY <1>1, <1>2, <3>1
    <2> QED
      BY <2>1, <2>2, <2>3
  <1>5. /\ pc'[v] \in {"lock", "check", "call"} => match'[v] # None
        /\ verb # "stream" => pc'[v] \in {"idle", "begin", "scan", "finish"} /\ pending'[v] = None
        /\ verb = "files" => pc'[v] \in {"idle", "begin"}
    <2>1. CASE Visit(v) \/ SkipLine(v) \/ Decline(v)
      BY <1>2, <1>3, <2>1 DEF Visit, SkipLine, Decline, AtKind
    <2>2. CASE Begin(v)
      BY <1>2, <1>3, <2>2 DEF Begin, NoPending
    <2>3. CASE AfterLine(v)
      <3>1. pc[v] = "scan"
        BY <2>3 DEF AfterLine, AtKind
      <3>2. CASE pending[v] = None
        BY <1>2, <1>3, <2>3, <3>1, <3>2 DEF AfterLine
      <3>3. CASE pending[v] # None
        <4>1. PICK m : m = Extended(v) /\ m # None
          BY <3>1, <3>3, Collected DEF Busy
        <4>2. Deliver(v, m, "scan") \/ UNCHANGED pc
          BY <2>3, <3>3, <4>1 DEF AfterLine, Extended
        <4>3. pc'[v] \in {"lock", "check", "call"} => match'[v] # None
          BY <1>3, <3>1, <4>1, <4>2 DEF Deliver
        <4> QED
          BY <1>2, <3>3, <4>3
      <3> QED
        BY <3>2, <3>3
    <2>4. CASE BeforeLine(v)
      BY <1>2, <1>3, <2>4 DEF BeforeLine, Enters, AtKind, FlushPending, Deliver
    <2>5. CASE MatchLine(v)
      <3>1. pc[v] \in {"scan", "take"} /\ verb = "stream"
        BY <2>5 DEF MatchLine, Enters, AtKind
      <3>2. CASE pending[v] # None
        BY <1>2, <1>3, <2>5, <3>1, <3>2 DEF MatchLine, FlushPending, Deliver
      <3>3. CASE pending[v] = None
        <4>1. PICK m : m = NewMatch(v) /\ m # None
          BY <3>1, Collected DEF Busy
        <4>2. Deliver(v, m, "scan") \/ Goto(v, "scan")
          BY <2>5, <3>3, <4>1 DEF MatchLine
        <4>3. pc'[v] \in {"lock", "check", "call"} => match'[v] # None
          BY <1>3, <3>1, <4>1, <4>2 DEF Deliver
        <4> QED
          BY <3>1, <4>3
      <3> QED
        BY <3>2, <3>3
    <2>6. CASE CountMatch(v) \/ FindMatch(v) \/ Record(v) \/ List(v)
      BY <1>2, <1>3, <2>6 DEF CountMatch, FindMatch, Record, List, AtKind
    <2>7. CASE EndOfFile(v) \/ SearchFails(v)
      BY <1>2, <1>3, <2>7 DEF EndOfFile, SearchFails
    <2>8. CASE Finish(v)
      BY <1>2, <1>3, <2>8 DEF Finish, FlushPending, Deliver
    <2>9. CASE DeliverStep(v)
      <3>1. verb = "stream"
        <4>1. pc[v] \in {"lock", "check", "call", "unlock", "store", "back"}
          BY <2>9 DEF DeliverStep, Lock, CheckContext, Call, Unlock, Store, Back
        <4> QED
          BY <1>2, <4>1
      <3>2. CASE Lock(v) \/ CheckContext(v) \/ Call(v) \/ Unlock(v) \/ Store(v)
        BY <1>2, <1>3, <3>1, <3>2 DEF Lock, CheckContext, Call, Unlock, Store
      <3>3. CASE Back(v)
        <4>1. pc'[v] \notin {"lock", "check", "call"}
          BY <1>3, <3>3 DEF Back, Types
        <4> QED
          BY <3>1, <4>1
      <3> QED
        BY <2>9, <3>2, <3>3 DEF DeliverStep
    <2> QED
      BY <2>1, <2>2, <2>3, <2>4, <2>5, <2>6, <2>7, <2>8, <2>9 DEF VisitorStep
  <1> QED
    BY <1>1, <1>2, <1>4, <1>5 DEF Placed, Busy

-----------------------------------------------------------------------------
(* No match is lost on its way to fn.                                      *)

LEMMA MatchKind ==
    ASSUME Types, NEW f \in Files, NEW i \in MatchesOf(f), NEW k, Kind(f, i) = k
    PROVE  k = "match"
  BY DEF Kind, MatchesOf, LinesOf, Types

\* A match that a visitor still holds is held after its step as well, or fn has it.
LEMMA HeldStep ==
    ASSUME Types, Placed, NEW v \in Visitors, VisitorStep(v), verb = "stream",
           ~stopped, ~stopped', ~Refused, file[v] \notin failed',
           NEW i \in MatchesOf(file[v]), Held(v, i)
    PROVE  file'[v] = file[v] /\ (Held(v, i)' \/ Called(file[v], i)')
  <1> USE DEF input, walk, collector, delivery, outcome, Goto
  <1>1. pc[v] # "idle" /\ file[v] \in Files /\ i \in Nat /\ i >= 1 /\ i <= Len(lines[file[v]]) /\ next[v] \in Nat
    BY DEF Held, Busy, Placed, Types, MatchesOf, LinesOf
  <1>2. \A k : Kind(file[v], i) = k => k = "match"
    BY <1>1, MatchKind
  <1>3. pc \in [Visitors -> Places] /\ pending \in [Visitors -> Match \cup {None}]
        /\ match \in [Visitors -> Match \cup {None}] /\ next \in [Visitors -> Nat \ {0}]
        /\ cont \in [Visitors -> {"scan", "take", "finish"}] /\ calls \in Seq(Match)
    BY DEF Types
  <1>4. \/ pc[v] = "begin"
        \/ Scanning(v) /\ next[v] <= i
        \/ Is(pending[v], file[v], i)
        \/ pc[v] \in {"lock", "check", "call"} /\ Is(match[v], file[v], i)
    BY DEF Held
  <1>5. file' = file
    BY <1>1, Moves DEF Visit, DeliverStep, Lock, CheckContext, Call, Unlock, Store, Back
  <1> SUFFICES Held(v, i)' \/ Called(file[v], i)'
    BY <1>5
  <1>6. ASSUME pc'[v] # "idle",
               \/ pc'[v] = "begin"
               \/ Scanning(v)' /\ next'[v] <= i
               \/ Is(pending'[v], file[v], i)
               \/ pc'[v] \in {"lock", "check", "call"} /\ Is(match'[v], file[v], i)
        PROVE  Held(v, i)'
    BY <1>5, <1>6 DEF Held, Busy, Is
  <1>7. CASE Begin(v)
    <2>1. pc'[v] = "scan" /\ next'[v] = 1
      BY <1>3, <1>7 DEF Begin
    <2> QED
      BY <1>1, <1>6, <2>1 DEF Scanning
  <1>8. CASE SkipLine(v)
    <2>1. pc'[v] = "scan" /\ pc[v] = "scan" /\ next'[v] = next[v] + 1 /\ pending' = pending
          /\ Kind(file[v], next[v]) = "none"
      BY <1>3, <1>8 DEF SkipLine, AtKind, NextIs, Advance
    <2>2. next[v] # i
      BY <1>2, <2>1
    <2> QED
      BY <1>1, <1>4, <1>6, <2>1, <2>2 DEF Scanning
  <1>9. CASE AfterLine(v)
    <2>1. pc[v] = "scan" /\ next'[v] = next[v] + 1 /\ Kind(file[v], next[v]) = "after"
      BY <1>3, <1>9 DEF AfterLine, AtKind, NextIs, Advance
    <2>2. next[v] # i
      BY <1>2, <2>1
    <2>3. CASE pending[v] = None
      <3>1. pc' = pc /\ pending' = pending
        BY <1>9, <2>3 DEF AfterLine
      <3> QED
        BY <1>1, <1>4, <1>6, <2>1, <2>2, <3>1 DEF Scanning
    <2>4. CASE pending[v] # None
      <3>1. PICK m : m = Extended(v) /\ m # None /\ m.file = pending[v].file /\ m.line = pending[v].line
        BY <1>1, <2>4, Collected DEF Busy
      <3>2. \/ Deliver(v, m, "scan")
            \/ pending' = [pending EXCEPT ![v] = m] /\ pc' = pc
        BY <1>9, <2>4, <3>1 DEF AfterLine, Extended
      <3>3. Is(pending[v], file[v], i) => Is(m, file[v], i)
        BY <3>1 DEF Is
      <3>4. CASE Deliver(v, m, "scan")
        <4>1. pc'[v] = "lock" /\ cont'[v] = "scan" /\ match'[v] = m
          BY <1>3, <3>4 DEF Deliver
        <4> QED
          BY <1>1, <1>4, <1>6, <2>1, <2>2, <3>3, <4>1 DEF Scanning, Delivering
      <3>5. CASE pending' = [pending EXCEPT ![v] = m] /\ pc' = pc
        <4>1. pending'[v] = m
          BY <1>3, <3>5
        <4> QED
          BY <1>1, <1>4, <1>6, <2>1, <2>2, <3>3, <3>5, <4>1 DEF Scanning
      <3> QED
        BY <3>2, <3>4, <3>5
    <2> QED
      BY <2>3, <2>4
  <1>10. ASSUME NEW l \in {"take", "finish"}, FlushPending(v, l), next' = next,
                pc[v] \in {"scan", "take", "finish"}, pc[v] # "finish" => l = "take"
         PROVE  Held(v, i)'
    <2>1. pc'[v] = "lock" /\ cont'[v] = l /\ match'[v] = pending[v]
      BY <1>3, <1>10 DEF FlushPending, Deliver
    <2> QED
      BY <1>4, <1>6, <1>10, <2>1 DEF Scanning, Delivering
  <1>11. CASE BeforeLine(v)
    <2>1. pc[v] \in {"scan", "take"} /\ Kind(file[v], next[v]) = "before"
      BY <1>11 DEF BeforeLine, Enters, AtKind, NextIs
    <2>2. next[v] # i
      BY <1>2, <2>1
    <2>3. CASE pending[v] # None
      BY <1>10, <1>11, <2>1, <2>3 DEF BeforeLine
    <2>4. CASE pending[v] = None
      <3>1. pc'[v] = "scan" /\ next'[v] = next[v] + 1 /\ pending' = pending
        BY <1>3, <1>11, <2>4 DEF BeforeLine, Advance
      <3> QED
        BY <1>1, <1>4, <1>6, <2>1, <2>2, <3>1 DEF Scanning
    <2> QED
      BY <2>3, <2>4
  <1>12. CASE MatchLine(v)
    <2>1. pc[v] \in {"scan", "take"}
      BY <1>12 DEF MatchLine, Enters, AtKind
    <2>2. CASE pending[v] # None
      BY <1>10, <1>12, <2>1, <2>2 DEF MatchLine
    <2>3. CASE pending[v] = None
      <3>1. PICK m : m = NewMatch(v) /\ m # None /\ m.file = file[v] /\ m.line = next[v]
        BY <1>1, Collected DEF Busy
      <3>2. next'[v] = next[v] + 1
        BY <1>3, <1>12, <2>3 DEF MatchLine, Advance
      <3>3. \/ Deliver(v, m, "scan")
            \/ pending' = [pending EXCEPT ![v] = m] /\ Goto(v, "scan")
        BY <1>12, <2>3, <3>1 DEF MatchLine
      <3>4. ~Is(pending[v], file[v], i)
        BY <2>3 DEF Is
      <3>5. i = next[v] => Is(m, file[v], i)
        BY <3>1 DEF Is
      <3>6. CASE Deliver(v, m, "scan")
        <4>1. pc'[v] = "lock" /\ cont'[v] = "scan" /\ match'[v] = m
          BY <1>3, <3>6 DEF Deliver
        <4> QED
          BY <1>1, <1>4, <1>6, <2>1, <3>2, <3>4, <3>5, <4>1 DEF Scanning, Delivering
      <3>7. CASE pending' = [pending EXCEPT ![v] = m] /\ Goto(v, "scan")
        <4>1. pending'[v] = m /\ pc'[v] = "scan"
          BY <1>3, <3>7
        <4> QED
          BY <1>1, <1>4, <1>6, <2>1, <3>2, <3>4, <3>5, <4>1 DEF Scanning
      <3> QED
        BY <3>3, <3>6, <3>7
    <2> QED
      BY <2>2, <2>3
  <1>13. CASE EndOfFile(v)
    <2>1. pc[v] = "scan" /\ pc'[v] = "finish" /\ next[v] > Len(lines[file[v]]) /\ pending' = pending
      BY <1>3, <1>13 DEF EndOfFile
    <2>2. ~(next[v] <= i)
      <3>1. Len(lines[file[v]]) \in Nat
        BY <1>1 DEF Types
      <3> QED
        BY <1>1, <2>1, <3>1
    <2> QED
      BY <1>4, <1>6, <2>1, <2>2
  <1>14. CASE Finish(v)
    <2>1. CASE pending[v] # None
      BY <1>10, <1>14, <2>1 DEF Finish
    <2>2. CASE pending[v] = None
      BY <1>4, <1>14, <2>2 DEF Finish, Scanning, Delivering, Is
    <2> QED
      BY <2>1, <2>2
  <1>15. CASE Call(v)
    <2>1. pc[v] = "call" /\ pc'[v] = "unlock" /\ UNCHANGED <<next, pending, cont>> /\ calls' = Append(calls, match[v])
      BY <1>3, <1>15 DEF Call
    <2>2. CASE Is(match[v], file[v], i)
      <3>1. match[v] \in Match
        BY <1>3, <2>2 DEF Is
      <3>2. PICK m \in Match : m = match[v]
        BY <3>1
      <3>3. Len(calls) + 1 \in DOMAIN calls' /\ calls'[Len(calls) + 1] = m
        <4>1. calls' \in Seq(Match) /\ Len(calls') = Len(calls) + 1 /\ calls'[Len(calls) + 1] = m
          BY <1>3, <2>1, <3>2, AppendProperties
        <4> QED
          BY <1>3, <4>1
      <3> QED
        BY <1>5, <2>2, <3>2, <3>3 DEF Called, Is
    <2>3. CASE ~Is(match[v], file[v], i)
      BY <1>4, <1>6, <2>1, <2>3 DEF Scanning, Delivering
    <2> QED
      BY <2>2, <2>3
  <1>16. CASE Lock(v) \/ CheckContext(v) \/ Unlock(v)
    <2>1. UNCHANGED <<next, pending, cont, match>>
      BY <1>16 DEF Lock, CheckContext, Unlock
    <2>2. \/ pc[v] \in {"lock", "check"} /\ pc'[v] \in {"check", "call"}
          \/ pc[v] = "unlock" /\ pc'[v] \in {"store", "back"}
      BY <1>3, <1>16 DEF Lock, CheckContext, Unlock
    <2> QED
      BY <1>4, <1>6, <2>1, <2>2 DEF Scanning, Delivering
  <1>17. CASE Back(v)
    <2>1. pc[v] = "back" /\ pc'[v] = cont[v] /\ UNCHANGED <<next, pending>>
      BY <1>3, <1>17 DEF Back
    <2> QED
      BY <1>3, <1>4, <1>6, <2>1 DEF Scanning, Delivering
  <1>18. ~Visit(v) /\ ~Decline(v) /\ ~SearchFails(v) /\ ~Store(v)
         /\ ~CountMatch(v) /\ ~FindMatch(v) /\ ~Record(v) /\ ~List(v)
    BY <1>1 DEF Visit, Decline, SearchFails, Store, CountMatch, FindMatch, Record, List
  <1> QED
    BY <1>7, <1>8, <1>9, <1>11, <1>12, <1>13, <1>14, <1>15, <1>16, <1>17, <1>18 DEF VisitorStep, DeliverStep

LEMMA StepStream ==
    ASSUME Types, Stopping, Placed, StreamKept, NEW v \in Visitors, VisitorStep(v),
           Stopping', gaveUp => gaveUp', cancelled => cancelled'
    PROVE  StreamKept'
  <1> USE DEF input, walk, collector, delivery, outcome, Goto
  <1>1. /\ \A u \in Visitors \ {v} :
              /\ pc'[u] = pc[u] /\ file'[u] = file[u] /\ next'[u] = next[u]
              /\ pending'[u] = pending[u] /\ match'[u] = match[u] /\ cont'[u] = cont[u]
        /\ verb' = verb /\ lines' = lines
    BY Separate
  <1>2. \A f : MatchesOf(f)' = MatchesOf(f)
    BY <1>1 DEF MatchesOf, LinesOf
  <1> SUFFICES ASSUME verb = "stream", ~cancelled', ~gaveUp',
                      NEW f \in Files, f \notin todo', f \notin failed', NEW i \in MatchesOf(f)
               PROVE  Called(f, i)' \/ \E u \in Visitors : file'[u] = f /\ Held(u, i)'
    BY <1>1, <1>2 DEF StreamKept
  <1>3. ~cancelled /\ ~gaveUp /\ ~stopped /\ ~stopped' /\ ~Refused
    BY DEF Stopping, Refused
  <1>4. failed \subseteq failed'
    BY DEF VisitorStep, DeliverStep, Visit, Begin, SkipLine, Decline, AfterLine, BeforeLine, MatchLine,
       CountMatch, FindMatch, Record, List, EndOfFile, SearchFails, Finish, Lock, CheckContext, Call, Unlock, Store, Back
  <1>5. CASE f \in todo
    <2>1. Visit(v)
      <3>1. todo' # todo
        BY <1>5
      <3> QED
        BY <3>1, Moves DEF DeliverStep, Lock, CheckContext, Call, Unlock, Store, Back
    <2>2. file'[v] = f /\ pc'[v] = "begin"
      BY <1>3, <1>5, <2>1 DEF Visit, Types
    <2> QED
      BY <2>2 DEF Held, Busy
  <1>6. CASE f \notin todo
    <2>1. Called(f, i) => Called(f, i)'
      <3>1. \A k \in DOMAIN calls : k \in DOMAIN calls' /\ calls'[k] = calls[k]
        <4>1. CASE Call(v)
          <5>1. match[v] \in Match /\ calls' = Append(calls, match[v])
            BY <4>1 DEF Call, Placed, Types
          <5>2. calls \in Seq(Match)
            BY DEF Types
          <5> QED
            BY <5>1, <5>2, AppendProperties
        <4>2. CASE ~Call(v)
          <5>1. calls' = calls
            BY <4>2, Moves DEF DeliverStep, Lock, CheckContext, Unlock, Store, Back
          <5> QED
            BY <5>1
        <4> QED
          BY <4>1, <4>2
      <3> QED
        BY <3>1 DEF Called
    <2>2. CASE Called(f, i)
      BY <2>1, <2>2
    <2>3. CASE ~Called(f, i)
      <3>1. PICK u \in Visitors : file[u] = f /\ Held(u, i)
        BY <1>3, <1>4, <1>6, <2>3 DEF StreamKept
      <3>2. CASE u # v
        <4>1. file'[u] = f /\ Held(u, i)'
          BY <1>1, <3>1, <3>2 DEF Held, Busy, Scanning, Is
        <4> QED
          BY <4>1
      <3>3. CASE u = v
        BY <1>3, <3>1, <3>3, HeldStep
      <3> QED
        BY <3>2, <3>3
    <2> QED
      BY <2>2, <2>3
  <1> QED
    BY <1>5, <1>6

-----------------------------------------------------------------------------
(* The collecting verbs count what was scanned.                            *)

\* The matches before a line, as the scan goes on.
LEMMA SeenStep ==
    ASSUME Types, NEW f \in Files, NEW n \in Nat \ {0}
    PROVE  /\ Seen(f, 1) = {} /\ IsFiniteSet(Seen(f, n)) /\ IsFiniteSet(MatchesOf(f))
           /\ n \notin MatchesOf(f) => Seen(f, n + 1) = Seen(f, n)
           /\ n \in MatchesOf(f) => Cardinality(Seen(f, n + 1)) = Cardinality(Seen(f, n)) + 1
           /\ n > Len(lines[f]) => Seen(f, n) = MatchesOf(f)
  <1>1. lines[f] \in Seq(BOOLEAN) /\ Len(lines[f]) \in Nat
    BY DEF Types
  <1>2. MatchesOf(f) \subseteq 1 .. Len(lines[f])
    BY <1>1 DEF MatchesOf, LinesOf
  <1>3. IsFiniteSet(1 .. Len(lines[f]))
    BY <1>1, FS_Interval
  <1>4. IsFiniteSet(MatchesOf(f))
    BY <1>2, <1>3, FS_Subset
  <1>5. Seen(f, n) \subseteq MatchesOf(f)
    BY DEF Seen
  <1>6. IsFiniteSet(Seen(f, n))
    BY <1>4, <1>5, FS_Subset
  <1>7. MatchesOf(f) \subseteq Nat \ {0}
    BY <1>1, <1>2
  <1>8. Seen(f, 1) = {}
    BY <1>7 DEF Seen
  <1>9. n \notin MatchesOf(f) => Seen(f, n + 1) = Seen(f, n)
    BY <1>7 DEF Seen
  <1>10. ASSUME n \in MatchesOf(f) PROVE Cardinality(Seen(f, n + 1)) = Cardinality(Seen(f, n)) + 1
    <2>1. Seen(f, n + 1) = Seen(f, n) \cup {n} /\ n \notin Seen(f, n)
      BY <1>7, <1>10 DEF Seen
    <2> QED
      BY <1>6, <2>1, FS_AddElement
  <1>11. n > Len(lines[f]) => Seen(f, n) = MatchesOf(f)
    BY <1>1, <1>2 DEF Seen
  <1> QED
    BY <1>4, <1>6, <1>8, <1>9, <1>10, <1>11

LEMMA StepTallied ==
    ASSUME Types, Placed, NEW v \in Visitors, VisitorStep(v), verb # "stream", ~stopped,
           pc[v] \in {"scan", "finish"} => Tallied(v), pc'[v] \in {"scan", "finish"}
    PROVE  Tallied(v)'
  <1> USE DEF input, walk, collector, delivery, outcome, Goto
  <1>1. verb' = verb /\ lines' = lines /\ verb \in {"count", "list", "files"}
    BY Separate DEF Types
  <1>2. /\ pc[v] \in {"begin", "scan"} /\ pending[v] = None /\ verb \in {"count", "list"}
        /\ ~Visit(v) /\ ~Record(v) /\ ~List(v) /\ ~SearchFails(v) /\ ~Finish(v) /\ ~MatchLine(v) /\ ~DeliverStep(v)
    <2>1. /\ pc[v] \in {"idle", "begin", "scan", "finish"} /\ pending[v] = None
          /\ verb = "files" => pc[v] \in {"idle", "begin"} /\ pc'[v] \in {"idle", "begin"}
          /\ pc \in [Visitors -> Places]
      <3>1. Placed'
        BY StepPlaced
      <3> QED
        BY <1>1, <3>1 DEF Placed, Types
    <2>2. ~MatchLine(v) /\ ~DeliverStep(v) /\ ~Finish(v) /\ verb \in {"count", "list"}
      BY <1>1, <2>1
      DEF MatchLine, DeliverStep, Lock, CheckContext, Call, Unlock, Store, Back, Finish
    <2>3. ~Visit(v)
      BY <2>1 DEF Visit
    <2>4. ~Record(v) /\ ~List(v) /\ ~SearchFails(v)
      BY <2>1 DEF Record, List, SearchFails
    <2>5. pc[v] # "idle"
      BY <2>2, <2>3, Moves
    <2>6. pc[v] # "finish"
      BY <2>2, <2>4 DEF VisitorStep, Visit, Begin, SkipLine, Decline, AfterLine, BeforeLine, Enters, AtKind,
         CountMatch, FindMatch, EndOfFile
    <2> QED
      BY <2>1, <2>2, <2>3, <2>4, <2>5, <2>6
  <1>3. file' = file /\ file[v] \in Files /\ next[v] \in Nat \ {0} /\ tally[v].count \in Nat
    <2>1. file' = file /\ Busy(v)
      BY <1>2, Moves DEF Busy
    <2> QED
      BY <2>1 DEF Placed, Types
  <1>4. \A f, n : MatchesOf(f)' = MatchesOf(f) /\ Seen(f, n)' = Seen(f, n)
    BY <1>1 DEF MatchesOf, LinesOf, Seen
  <1>5. pc \in [Visitors -> Places] /\ next \in [Visitors -> Nat \ {0}]
        /\ tally \in [Visitors -> [path : Files \cup {None}, count : Nat]]
    BY DEF Types
  <1>6. PICK f \in Files : f = file[v]
    BY <1>3
  <1>7. PICK n \in Nat \ {0} : n = next[v]
    BY <1>3
  <1>8. SUFFICES /\ tally'[v].path = f
                 /\ verb = "count" /\ pc'[v] = "scan" => tally'[v].count = Cardinality(Seen(f, next'[v]))
                 /\ verb = "count" /\ pc'[v] = "finish" => tally'[v].count = Cardinality(MatchesOf(f))
                 /\ verb = "list" /\ pc'[v] = "scan" => tally'[v].count = 0 /\ Seen(f, next'[v]) = {}
                 /\ verb = "list" /\ pc'[v] = "finish" => (tally'[v].count = 0 <=> MatchesOf(f) = {})
    BY <1>1, <1>3, <1>4, <1>6 DEF Tallied
  <1>9. pc[v] = "scan" =>
              /\ tally[v].path = f
              /\ verb = "count" => tally[v].count = Cardinality(Seen(f, n))
              /\ verb = "list" => (tally[v].count = 0 /\ Seen(f, n) = {})
    BY <1>6, <1>7 DEF Tallied
  <1>10. CASE Begin(v)
    <2>1. tally'[v] = [path |-> f, count |-> 0] /\ next'[v] = 1 /\ pc'[v] = "scan"
      BY <1>5, <1>6, <1>10 DEF Begin, Cleared
    <2>2. Cardinality(Seen(f, 1)) = 0 /\ Seen(f, 1) = {}
      BY SeenStep, FS_EmptySet
    <2> QED
      BY <2>1, <2>2
  <1>11. CASE SkipLine(v) \/ AfterLine(v) \/ BeforeLine(v)
    <2>1. /\ pc[v] = "scan" /\ pc'[v] = "scan" /\ next'[v] = n + 1 /\ tally' = tally
          /\ n \in DOMAIN lines[f] /\ Kind(f, n) # "match"
      <3>1. CASE SkipLine(v)
        BY <1>2, <1>5, <1>6, <1>7, <3>1 DEF SkipLine, AtKind, NextIs, Advance
      <3>2. CASE AfterLine(v)
        BY <1>2, <1>5, <1>6, <1>7, <3>2 DEF AfterLine, AtKind, NextIs, Advance
      <3>3. CASE BeforeLine(v)
        BY <1>2, <1>5, <1>6, <1>7, <3>3 DEF BeforeLine, Enters, AtKind, NextIs, Advance
      <3> QED
        BY <1>11, <3>1, <3>2, <3>3
    <2>2. n \notin MatchesOf(f)
      BY <2>1, MatchKind
    <2>3. Seen(f, n + 1) = Seen(f, n)
      BY <2>2, SeenStep
    <2> QED
      BY <1>9, <2>1, <2>3
  <1>12. CASE CountMatch(v) \/ FindMatch(v)
    <2>1. pc[v] = "scan" /\ n \in DOMAIN lines[f] /\ Kind(f, n) = "match"
      BY <1>6, <1>7, <1>12 DEF CountMatch, FindMatch, AtKind, NextIs
    <2>2. n \in MatchesOf(f)
      BY <2>1 DEF MatchesOf, LinesOf, Kind, Types
    <2>3. tally'[v].path = tally[v].path /\ tally'[v].count = tally[v].count + 1
      BY <1>5, <1>12 DEF CountMatch, FindMatch, Counted
    <2>4. CASE CountMatch(v)
      <3>1. verb = "count" /\ pc'[v] = "scan" /\ next'[v] = n + 1
        BY <1>5, <1>7, <2>1, <2>4 DEF CountMatch, Advance
      <3>2. Cardinality(Seen(f, n + 1)) = Cardinality(Seen(f, n)) + 1
        BY <2>2, SeenStep
      <3> QED
        BY <1>9, <2>1, <2>3, <3>1, <3>2
    <2>5. CASE FindMatch(v)
      <3>1. verb = "list" /\ pc'[v] = "finish"
        BY <1>5, <2>5 DEF FindMatch
      <3>2. tally'[v].count # 0 /\ MatchesOf(f) # {}
        BY <1>3, <2>2, <2>3
      <3> QED
        BY <1>9, <2>1, <2>3, <3>1, <3>2
    <2> QED
      BY <1>12, <2>4, <2>5
  <1>13. CASE EndOfFile(v)
    <2>1. pc[v] = "scan" /\ pc'[v] = "finish" /\ n > Len(lines[f]) /\ tally' = tally
      BY <1>5, <1>6, <1>7, <1>13 DEF EndOfFile
    <2>2. Seen(f, n) = MatchesOf(f)
      BY <2>1, SeenStep
    <2> QED
      BY <1>9, <2>1, <2>2
  <1>14. ~Decline(v)
    BY DEF Decline
  <1> QED
    BY <1>2, <1>10, <1>11, <1>12, <1>13, <1>14 DEF VisitorStep

\* What a collecting verb should record.
LEMMA Expects ==
    ASSUME Types, NEW f \in Files
    PROVE  /\ verb = "files" => Expected(f) = <<1>>
           /\ verb = "list" => Expected(f) = IF MatchesOf(f) = {} THEN << >> ELSE <<1>>
           /\ verb = "count" => Expected(f) = IF Cardinality(MatchesOf(f)) = 0 THEN << >>
                                              ELSE <<Cardinality(MatchesOf(f))>>
  <1>1. IsFiniteSet(MatchesOf(f))
    BY SeenStep, 1 \in Nat \ {0}
  <1>2. PICK n : n = Cardinality(MatchesOf(f))
    OBVIOUS
  <1>3. n \in Nat /\ (n = 0 <=> MatchesOf(f) = {})
    BY <1>1, <1>2, FS_CardinalityType, FS_EmptySet
  <1>4. Expected(f) = CASE verb = "files" -> <<1>>
                        [] verb = "list" /\ n > 0 -> <<1>>
                        [] verb = "count" /\ n > 0 -> <<n>>
                        [] OTHER -> << >>
    BY <1>2 DEF Expected
  <1>5. verb = "files" => Expected(f) = <<1>>
    BY <1>4
  <1>6. verb = "list" => Expected(f) = IF n = 0 THEN << >> ELSE <<1>>
    BY <1>3, <1>4
  <1>7. verb = "count" => Expected(f) = IF n = 0 THEN << >> ELSE <<n>>
    BY <1>3, <1>4
  <1> QED
    BY <1>2, <1>3, <1>5, <1>6, <1>7

\* Until a file is finished nothing is recorded for it, and then what it holds.
LEMMA StepRecorded ==
    ASSUME Types, Stopping, Placed, CountsKept, NEW v \in Visitors, VisitorStep(v), verb # "stream",
           ~cancelled, NEW f \in Files
    PROVE  results'[f] = IF Unfinished(f)' THEN << >> ELSE Expected(f)
  <1> USE DEF input, walk, collector, delivery, outcome, Goto
  <1>1. /\ \A u \in Visitors \ {v} : pc'[u] = pc[u] /\ file'[u] = file[u]
        /\ verb' = verb /\ lines' = lines
    BY Separate
  <1>2. results[f] = IF Unfinished(f) THEN << >> ELSE Expected(f)
    BY DEF CountsKept
  <1>3. ~stopped /\ ~gaveUp /\ verb \in {"count", "list", "files"}
    BY DEF Stopping, Types
  <1>4. pc \in [Visitors -> Places] /\ file \in [Visitors -> Files \cup {None}] /\ results \in [Files -> Seq(Nat)]
    BY DEF Types
  <1>5. ~MatchLine(v) /\ ~Finish(v) /\ ~DeliverStep(v)
    <2>1. pc[v] \in {"idle", "begin", "scan", "finish"}
      BY DEF Placed
    <2> QED
      BY <2>1 DEF MatchLine, Finish, DeliverStep, Lock, CheckContext, Call, Unlock, Store, Back
  <1>6. Unfinished(f)' <=> (f \in todo' \/ f \in failed' \/ \E u \in Visitors : pc'[u] # "idle" /\ file'[u] = f)
    BY DEF Unfinished, Busy
  <1>7. Unfinished(f) <=> (f \in todo \/ f \in failed \/ \E u \in Visitors : pc[u] # "idle" /\ file[u] = f)
    BY DEF Unfinished, Busy
  <1>8. CASE Visit(v)
    <2>1. PICK g \in todo : /\ todo' = todo \ {g}
                            /\ file' = [file EXCEPT ![v] = g] /\ Goto(v, "begin")
      BY <1>3, <1>8 DEF Visit
    <2>2. pc[v] = "idle" /\ pc'[v] = "begin" /\ file'[v] = g /\ failed' = failed /\ results' = results
      BY <1>4, <1>8, <2>1 DEF Visit
    <2>3. Unfinished(f)' <=> Unfinished(f)
      BY <1>1, <1>6, <1>7, <2>1, <2>2
    <2> QED
      BY <1>2, <2>2, <2>3
  <1>9. ASSUME pc[v] # "idle", pc'[v] = "idle", UNCHANGED <<todo, file>>
        PROVE  /\ file[v] \in Files /\ results[file[v]] = << >>
               /\ f # file[v] /\ (failed' = failed \/ failed' = failed \cup {file[v]})
                    => (Unfinished(f)' <=> Unfinished(f))
               /\ f = file[v] => (Unfinished(f)' <=> file[v] \in failed')
    <2>1. /\ file[v] \in Files /\ file[v] \notin todo
          /\ \A u \in Visitors \ {v} : pc[u] # "idle" => file[u] # file[v]
      BY <1>9 DEF Placed, Busy
    <2>2. Unfinished(file[v])
      BY <1>9 DEF Unfinished, Busy
    <2>3. results[file[v]] = << >>
      BY <2>1, <2>2 DEF CountsKept
    <2>4. f # file[v] /\ (failed' = failed \/ failed' = failed \cup {file[v]})
             => (Unfinished(f)' <=> Unfinished(f))
      BY <1>1, <1>6, <1>7, <1>9
    <2>5. f = file[v] => (Unfinished(f)' <=> file[v] \in failed')
      BY <1>1, <1>6, <1>9, <2>1
    <2> QED
      BY <2>1, <2>3, <2>4, <2>5
  <1>10. CASE SearchFails(v)
    <2>1. /\ pc[v] # "idle" /\ pc'[v] = "idle" /\ UNCHANGED <<todo, file>>
          /\ failed' = failed \cup {file[v]} /\ results' = results
      BY <1>4, <1>10 DEF SearchFails
    <2> QED
      BY <1>2, <1>9, <2>1
  <1>11. CASE List(v)
    <2>1. /\ pc[v] # "idle" /\ pc'[v] = "idle" /\ UNCHANGED <<todo, file>> /\ verb = "files"
          /\ \/ results' = [results EXCEPT ![file[v]] = Append(results[file[v]], 1)] /\ failed' = failed
             \/ failed' = failed \cup {file[v]} /\ results' = results
      BY <1>4, <1>11 DEF List
    <2>2. Append(<< >>, 1) = <<1>> /\ Expected(f) = <<1>>
      BY <2>1, Expects
    <2>3. file[v] \notin failed
      BY <2>1 DEF Placed, Busy
    <2> QED
      BY <1>2, <1>4, <1>9, <2>1, <2>2, <2>3
  <1>12. CASE Record(v)
    <2>1. /\ pc[v] = "finish" /\ pc'[v] = "idle" /\ UNCHANGED <<todo, file, failed>>
          /\ verb \in {"count", "list"}
      BY <1>4, <1>12 DEF Record
    <2>2. Tallied(v)
      BY <2>1 DEF CountsKept
    <2>3. PICK g \in Files : g = file[v]
      BY <1>9, <2>1
    <2>4. PICK n : n = tally[v].count
      OBVIOUS
    <2>5. /\ tally[v].path = g
          /\ verb = "count" => n = Cardinality(MatchesOf(g))
          /\ verb = "list" => (n = 0 <=> MatchesOf(g) = {})
      BY <2>1, <2>2, <2>3, <2>4 DEF Tallied
    <2>6. results' = IF n = 0 THEN results
                     ELSE [results EXCEPT ![g] = IF verb = "count" THEN <<n>> ELSE Append(results[g], 1)]
      BY <1>12, <2>4, <2>5 DEF Record, Recorded
    <2>7. g \notin failed
      BY <2>1, <2>3 DEF Placed, Busy
    <2>8. CASE f # g
      <3>1. results'[f] = results[f]
        BY <1>4, <2>6, <2>8
      <3> QED
        BY <1>2, <1>9, <2>1, <2>3, <2>8, <3>1
    <2>9. CASE f = g
      <3>1. results[f] = << >> /\ ~Unfinished(f)'
        BY <1>9, <2>1, <2>3, <2>7, <2>9
      <3>2. results'[f] = IF n = 0 THEN << >> ELSE IF verb = "count" THEN <<n>> ELSE Append(<< >>, 1)
        BY <1>4, <2>6, <2>9, <3>1
      <3>3. Expected(f) = IF n = 0 THEN << >> ELSE IF verb = "count" THEN <<n>> ELSE <<1>>
        BY <2>1, <2>5, <2>9, Expects
      <3>4. Append(<< >>, 1) = <<1>>
        OBVIOUS
      <3> QED
        BY <3>1, <3>2, <3>3, <3>4
    <2> QED
      BY <2>8, <2>9
  <1>13. CASE Begin(v) \/ SkipLine(v) \/ Decline(v) \/ AfterLine(v) \/ BeforeLine(v)
              \/ CountMatch(v) \/ FindMatch(v) \/ EndOfFile(v)
    <2>1. pc[v] # "idle" /\ pc'[v] # "idle" /\ UNCHANGED <<failed, results>>
      <3>1. CASE Begin(v) \/ SkipLine(v) \/ Decline(v)
        BY <1>4, <3>1 DEF Begin, SkipLine, Decline, AtKind
      <3>2. CASE AfterLine(v) \/ BeforeLine(v)
        BY <1>4, <3>2 DEF AfterLine, BeforeLine, Enters, AtKind, FlushPending, Deliver
      <3>3. CASE CountMatch(v) \/ FindMatch(v) \/ EndOfFile(v)
        BY <1>4, <3>3 DEF CountMatch, FindMatch, EndOfFile, AtKind
      <3> QED
        BY <1>13, <3>1, <3>2, <3>3
    <2>2. UNCHANGED <<todo, file>>
      BY <1>5, <2>1, Moves DEF Visit
    <2>3. Unfinished(f)' <=> Unfinished(f)
      BY <1>1, <1>6, <1>7, <2>1, <2>2
    <2> QED
      BY <1>2, <2>1, <2>3
  <1> QED
    BY <1>5, <1>8, <1>10, <1>11, <1>12, <1>13 DEF VisitorStep

LEMMA StepCounts ==
    ASSUME Types, Stopping, Placed, CountsKept, NEW v \in Visitors, VisitorStep(v), cancelled => cancelled'
    PROVE  CountsKept'
  <1>1. /\ \A u \in Visitors \ {v} : /\ pc'[u] = pc[u] /\ file'[u] = file[u]
                                     /\ next'[u] = next[u] /\ tally'[u] = tally[u]
        /\ verb' = verb /\ lines' = lines
    BY Separate DEF input
  <1> SUFFICES ASSUME verb # "stream", ~cancelled'
               PROVE  /\ \A u \in Visitors : pc'[u] \in {"scan", "finish"} => Tallied(u)'
                      /\ \A f \in Files : results'[f] = IF Unfinished(f)' THEN << >> ELSE Expected(f)'
    BY <1>1 DEF CountsKept
  <1>2. ~cancelled /\ ~stopped
    BY DEF Stopping
  <1>3. /\ \A f : MatchesOf(f)' = MatchesOf(f) /\ Expected(f)' = Expected(f)
        /\ \A f, n : Seen(f, n)' = Seen(f, n)
    BY <1>1 DEF MatchesOf, LinesOf, Seen, Expected
  <1>4. ASSUME NEW u \in Visitors, pc'[u] \in {"scan", "finish"} PROVE Tallied(u)'
    <2>1. CASE u = v
      BY <1>2, <1>4, <2>1, StepTallied DEF CountsKept
    <2>2. CASE u # v
      <3>1. Tallied(u)
        BY <1>1, <1>2, <1>4, <2>2 DEF CountsKept
      <3> QED
        BY <1>1, <1>3, <2>2, <3>1 DEF Tallied
    <2> QED
      BY <2>1, <2>2
  <1>5. \A f \in Files : results'[f] = IF Unfinished(f)' THEN << >> ELSE Expected(f)
    BY <1>2, StepRecorded
  <1> QED
    BY <1>3, <1>4, <1>5

-----------------------------------------------------------------------------
(* The steps that are no visitor's.                                        *)

\* While a visitor steps the walk is on, and the verb has not made up its mind.
LEMMA StepSettled ==
    ASSUME Types, Settled, NEW v \in Visitors, VisitorStep(v)
    PROVE  Settled'
  <1>1. UNCHANGED <<phase, err, discarded>>
    BY Separate DEF outcome
  <1>2. phase = "walk"
    <2>1. CASE Visit(v)
      BY <2>1 DEF Visit
    <2>2. CASE ~Visit(v)
      <3>1. pc[v] # "idle"
        BY <2>2, Moves DEF DeliverStep, Lock, CheckContext, Call, Unlock, Store, Back
      <3> QED
        BY <3>1 DEF Settled, Busy
    <2> QED
      BY <2>1, <2>2
  <1>3. err = None /\ err # "context"
    BY <1>2, NoneAssumption DEF Settled
  <1> QED
    BY <1>1, <1>2, <1>3 DEF Settled

\* What Start, Cancel, Watch, Return and Conclude leave alone.
Search ==
    <<verb, lines, before, after, cancellable, todo, quitting, pc, file, next, pendingBefore, pending,
      tally, results, match, cont, ok, mu, failed, calls>>

LEMMA NoCall ==
    ASSUME Types, GivesUp, SelfCancels, UNCHANGED pc
    PROVE  gaveUp' = gaveUp /\ selfCancelled' = selfCancelled
  BY DEF Types, GivesUp, SelfCancels, Calls

LEMMA Alone ==
    ASSUME FInv, UNCHANGED Search, GivesUp, SelfCancels,
           stopped' \in BOOLEAN, cancelled' \in BOOLEAN, watching' \in BOOLEAN, cancelled => cancelled',
           stopped' => stopped \/ cancelled', quitting => stopped',
           phase' \in {"start", "walk", "returned", "done"}, err' \in {None, "context", "files"},
           discarded' \in BOOLEAN
    PROVE  /\ Types' /\ Serialized' /\ Stopping' /\ Placed' /\ StreamKept' /\ CountsKept'
           /\ gaveUp' = gaveUp
           /\ \A f \in Files : /\ MatchesOf(f)' = MatchesOf(f) /\ Expected(f)' = Expected(f)
                               /\ \A i : Called(f, i)' = Called(f, i)
  <1> USE DEF Search
  <1>1. gaveUp' = gaveUp /\ selfCancelled' = selfCancelled
    BY NoCall DEF FInv
  <1>2. Types'
    BY <1>1 DEF FInv, Types
  <1>3. Serialized'
    BY <1>1 DEF FInv, Serialized
  <1>4. Stopping'
    <2>1. Stopping
      BY DEF FInv
    <2> QED
      BY <1>1, <2>1 DEF Stopping
  <1>5. Placed'
    <2>1. Placed
      BY DEF FInv
    <2> QED
      BY <2>1 DEF Placed, Busy
  <1>6. \A f : /\ MatchesOf(f)' = MatchesOf(f) /\ Expected(f)' = Expected(f)
               /\ \A i : Called(f, i)' = Called(f, i)
               /\ \A n : Seen(f, n)' = Seen(f, n)
    BY DEF MatchesOf, LinesOf, Expected, Called, Seen
  <1>7. StreamKept'
    <2>1. \A v \in Visitors : \A i : Held(v, i)' <=> Held(v, i)
      BY DEF Held, Busy, Scanning, Is
    <2>2. StreamKept
      BY DEF FInv
    <2> SUFFICES ASSUME verb = "stream", ~cancelled', ~gaveUp',
                        NEW f \in Files \ (todo \cup failed), NEW i \in MatchesOf(f)
                 PROVE  Called(f, i)' \/ \E v \in Visitors : file'[v] = f /\ Held(v, i)'
      BY <1>6 DEF StreamKept
    <2>3. Called(f, i) \/ \E v \in Visitors : file[v] = f /\ Held(v, i)
      BY <1>1, <2>2 DEF StreamKept
    <2> QED
      BY <1>6, <2>1, <2>3
  <1>8. CountsKept'
    <2>1. \A v \in Visitors : Tallied(v) => Tallied(v)'
      BY <1>6 DEF Tallied
    <2>2. \A f : Unfinished(f)' <=> Unfinished(f)
      BY DEF Unfinished, Busy
    <2>3. CountsKept
      BY DEF FInv
    <2> SUFFICES ASSUME verb # "stream", ~cancelled'
                 PROVE  /\ \A v \in Visitors : pc'[v] \in {"scan", "finish"} => Tallied(v)'
                        /\ \A f \in Files : results'[f] = IF Unfinished(f)' THEN << >> ELSE Expected(f)'
      BY DEF CountsKept
    <2>4. /\ \A v \in Visitors : pc[v] \in {"scan", "finish"} => Tallied(v)
          /\ \A f \in Files : results[f] = IF Unfinished(f) THEN << >> ELSE Expected(f)
      BY <2>3 DEF CountsKept
    <2> QED
      BY <1>6, <2>1, <2>2, <2>4
  <1> QED
    BY <1>1, <1>2, <1>3, <1>4, <1>5, <1>6, <1>7, <1>8

\* Return comes when everything handed out was searched, unless the context or fn stopped it.
LEMMA ReturnSettled ==
    ASSUME FInv, Return
    PROVE  /\ err' # "context" => ~cancelled
           /\ ~cancelled => /\ verb = "stream" /\ ~gaveUp =>
                                  \A f \in Files \ (failed \cup Lost) : \A i \in MatchesOf(f) : Called(f, i)
                            /\ verb # "stream" =>
                                  \A f \in Files : results[f] = IF f \in failed \cup Lost THEN << >> ELSE Expected(f)
  <1>1. err' # "context" => ~cancelled
    BY DEF Return, CancelOr
  <1>2. ASSUME ~cancelled, ~gaveUp PROVE todo \subseteq Lost /\ Lost \subseteq todo
    BY <1>2 DEF Return, FInv, Stopping, Lost
  <1>3. \A v \in Visitors : ~Busy(v)
    BY DEF Return, Busy
  <1>4. ASSUME ~cancelled, verb = "stream", ~gaveUp,
               NEW f \in Files \ (failed \cup Lost), NEW i \in MatchesOf(f)
        PROVE  Called(f, i)
    <2>1. Called(f, i) \/ \E v \in Visitors : file[v] = f /\ Held(v, i)
      BY <1>2, <1>4 DEF FInv, StreamKept
    <2> QED
      BY <1>3, <2>1 DEF Held
  <1>5. ASSUME ~cancelled, verb # "stream", NEW f \in Files
        PROVE  results[f] = IF f \in failed \cup Lost THEN << >> ELSE Expected(f)
    <2>1. todo \subseteq Lost /\ Lost \subseteq todo
      BY <1>2, <1>5 DEF FInv, Stopping
    <2>2. Unfinished(f) <=> f \in failed \cup Lost
      BY <1>3, <2>1 DEF Unfinished
    <2> QED
      BY <1>5, <2>2 DEF FInv, CountsKept
  <1> QED
    BY <1>1, <1>4, <1>5

LEMMA StepFInv ==
    ASSUME FInv, [HNext]_<<vars, history>>
    PROVE  FInv'
  <1> USE DEF input, walk, collector, delivery, outcome
  <1>t. /\ stopped \in BOOLEAN /\ cancelled \in BOOLEAN /\ watching \in BOOLEAN /\ discarded \in BOOLEAN
        /\ phase \in {"start", "walk", "returned", "done"} /\ err \in {None, "context", "files"}
        /\ gaveUp \in BOOLEAN /\ selfCancelled \in BOOLEAN /\ cancellable \in BOOLEAN
        /\ quitting => stopped
    BY DEF FInv, Types, Stopping
  <1>s. /\ phase # "walk" => \A v \in Visitors : ~Busy(v)
        /\ phase \in {"start", "walk"} => err = None
        /\ err = "context" => cancelled
        /\ (phase = "done" /\ ~discarded) => err # "context"
        /\ (phase \in {"returned", "done"} /\ err # "context") =>
              /\ (verb = "stream" /\ ~gaveUp) =>
                    \A f \in Files \ (failed \cup Lost) : \A i \in MatchesOf(f) : Called(f, i)
              /\ verb # "stream" =>
                    \A f \in Files : results[f] = IF f \in failed \cup Lost THEN << >> ELSE Expected(f)
    BY DEF FInv, Settled
  <1>1. ASSUME UNCHANGED Search PROVE \A v \in Visitors : Busy(v)' <=> Busy(v)
    BY <1>1 DEF Search, Busy
  <1>2. ASSUME UNCHANGED Search, gaveUp' = gaveUp,
               \A f \in Files : /\ MatchesOf(f)' = MatchesOf(f) /\ Expected(f)' = Expected(f)
                                /\ \A i : Called(f, i)' = Called(f, i),
               phase' # "walk" => \A v \in Visitors : ~Busy(v),
               phase' \in {"start", "walk"} => err' = None,
               err' = "context" => cancelled',
               (phase' = "done" /\ ~discarded') => err' # "context",
               (phase' \in {"returned", "done"} /\ err' # "context") =>
                 /\ (verb = "stream" /\ ~gaveUp) =>
                       \A f \in Files \ (failed \cup Lost) : \A i \in MatchesOf(f) : Called(f, i)
                 /\ verb # "stream" =>
                       \A f \in Files : results[f] = IF f \in failed \cup Lost THEN << >> ELSE Expected(f)
        PROVE  Settled'
    <2>1. /\ verb' = verb /\ failed' = failed /\ results' = results /\ Lost' = Lost
      BY <1>2 DEF Search, Lost
    <2>2. phase' # "walk" => \A v \in Visitors : ~Busy(v)'
      BY <1>1, <1>2
    <2>3. ASSUME phase' \in {"returned", "done"}, err' # "context", verb = "stream", ~gaveUp,
                 NEW f \in Files \ (failed \cup Lost), NEW i \in MatchesOf(f)
          PROVE  Called(f, i)'
      BY <1>2, <2>3
    <2>4. ASSUME phase' \in {"returned", "done"}, err' # "context", verb # "stream", NEW f \in Files
          PROVE  results[f] = IF f \in failed \cup Lost THEN << >> ELSE Expected(f)'
      BY <1>2, <2>4
    <2> QED
      BY <1>2, <2>1, <2>2, <2>3, <2>4 DEF Settled
  <1>3. ASSUME NEW v \in Visitors, VisitorStep(v), GivesUp, SelfCancels PROVE FInv'
    <2>1. Types /\ Serialized /\ Stopping /\ Placed /\ StreamKept /\ CountsKept /\ Settled
      BY DEF FInv
    <2>2. /\ Stopping' /\ (gaveUp => gaveUp') /\ (cancelled => cancelled')
      BY <1>3, <2>1, StepStopping
    <2>3. Serialized' /\ Placed' /\ Settled'
      BY <1>3, <2>1, StepSerialized, StepPlaced, StepSettled
    <2>4. StreamKept' /\ CountsKept'
      BY <1>3, <2>1, <2>2, StepStream, StepCounts
    <2>5. UNCHANGED <<input, outcome>>
      BY <1>3, <2>1, Separate
    <2>6. gaveUp' \in BOOLEAN /\ selfCancelled' \in BOOLEAN
      BY <1>3 DEF GivesUp, SelfCancels
    <2>7. Types'
      BY <1>3, <2>1, <2>5, <2>6, StepTypes DEF Types
    <2> QED
      BY <2>2, <2>3, <2>4, <2>7 DEF FInv
  <1>4. ASSUME Start, GivesUp, SelfCancels PROVE FInv'
    <2>1. UNCHANGED Search /\ UNCHANGED <<stopped, cancelled, discarded>>
      BY <1>4 DEF Start, Search
    <2>2. /\ phase = "start" /\ watching' \in BOOLEAN
          /\ \/ cancelled /\ phase' = "returned" /\ err' = "context"
             \/ phase' = "walk" /\ err' = err
      BY <1>4, <1>t DEF Start
    <2>3. /\ Types' /\ Serialized' /\ Stopping' /\ Placed' /\ StreamKept' /\ CountsKept' /\ gaveUp' = gaveUp
          /\ \A f \in Files : /\ MatchesOf(f)' = MatchesOf(f) /\ Expected(f)' = Expected(f)
                              /\ \A i : Called(f, i)' = Called(f, i)
      BY <1>4, <1>t, <2>1, <2>2, Alone
    <2>4. Settled'
      BY <1>2, <1>s, <2>1, <2>2, <2>3
    <2> QED
      BY <2>3, <2>4 DEF FInv
  <1>5. ASSUME Cancel \/ Watch, GivesUp, SelfCancels PROVE FInv'
    <2>1. /\ UNCHANGED Search /\ UNCHANGED <<phase, err, discarded>>
          /\ stopped' \in BOOLEAN /\ cancelled' \in BOOLEAN /\ watching' \in BOOLEAN
          /\ cancelled => cancelled'
          /\ stopped' => (stopped \/ cancelled')
          /\ stopped => stopped'
      BY <1>5, <1>t DEF Cancel, Watch, Search
    <2>2. /\ Types' /\ Serialized' /\ Stopping' /\ Placed' /\ StreamKept' /\ CountsKept' /\ gaveUp' = gaveUp
          /\ \A f \in Files : /\ MatchesOf(f)' = MatchesOf(f) /\ Expected(f)' = Expected(f)
                              /\ \A i : Called(f, i)' = Called(f, i)
      BY <1>5, <1>t, <2>1, Alone
    <2>3. Settled'
      BY <1>2, <1>s, <2>1, <2>2
    <2> QED
      BY <2>2, <2>3 DEF FInv
  <1>6. ASSUME Return, GivesUp, SelfCancels PROVE FInv'
    <2>1. UNCHANGED Search /\ UNCHANGED <<stopped, cancelled, discarded>>
      BY <1>6 DEF Return, Search
    <2>2. /\ phase = "walk" /\ watching' = FALSE /\ phase' = "returned"
          /\ \A v \in Visitors : ~Busy(v)
          /\ err' \in {None, "context", "files"}
          /\ err' = "context" => cancelled
      BY <1>6, NoneAssumption DEF Return, CancelOr, Busy
    <2>3. /\ Types' /\ Serialized' /\ Stopping' /\ Placed' /\ StreamKept' /\ CountsKept' /\ gaveUp' = gaveUp
          /\ \A f \in Files : /\ MatchesOf(f)' = MatchesOf(f) /\ Expected(f)' = Expected(f)
                              /\ \A i : Called(f, i)' = Called(f, i)
      BY <1>6, <1>t, <2>1, <2>2, Alone
    <2>4. Settled'
      BY <1>2, <1>6, <2>1, <2>2, <2>3, ReturnSettled
    <2> QED
      BY <2>3, <2>4 DEF FInv
  <1>7. ASSUME Conclude, GivesUp, SelfCancels PROVE FInv'
    <2>1. UNCHANGED Search /\ UNCHANGED <<stopped, cancelled, watching, err>>
      BY <1>7 DEF Conclude, Search
    <2>2. /\ phase = "returned" /\ phase' = "done" /\ discarded' \in BOOLEAN
          /\ err = "context" => discarded'
      BY <1>7, <1>t, <1>s, NoneAssumption DEF Conclude
    <2>3. /\ Types' /\ Serialized' /\ Stopping' /\ Placed' /\ StreamKept' /\ CountsKept' /\ gaveUp' = gaveUp
          /\ \A f \in Files : /\ MatchesOf(f)' = MatchesOf(f) /\ Expected(f)' = Expected(f)
                              /\ \A i : Called(f, i)' = Called(f, i)
      BY <1>7, <1>t, <2>1, <2>2, Alone
    <2>4. Settled'
      BY <1>2, <1>s, <2>1, <2>2, <2>3
    <2> QED
      BY <2>3, <2>4 DEF FInv
  <1>8. ASSUME UNCHANGED vars, UNCHANGED gaveUp, UNCHANGED selfCancelled PROVE FInv'
    <2>1. UNCHANGED Search /\ UNCHANGED <<stopped, cancelled, watching, phase, err, discarded>>
      BY <1>8 DEF vars, Search
    <2>2. GivesUp /\ SelfCancels
      BY <1>8, <1>t DEF GivesUp, SelfCancels, Calls, vars
    <2>3. /\ Types' /\ Serialized' /\ Stopping' /\ Placed' /\ StreamKept' /\ CountsKept' /\ gaveUp' = gaveUp
          /\ \A f \in Files : /\ MatchesOf(f)' = MatchesOf(f) /\ Expected(f)' = Expected(f)
                              /\ \A i : Called(f, i)' = Called(f, i)
      BY <1>t, <2>1, <2>2, Alone
    <2>4. Settled'
      BY <1>2, <1>s, <2>1, <2>3
    <2> QED
      BY <2>3, <2>4 DEF FInv
  <1>9. CASE HNext
    <2>1. GivesUp /\ SelfCancels
      BY <1>9 DEF HNext, GivesUp, SelfCancels
    <2>2. CASE Done
      <3>1. UNCHANGED vars /\ UNCHANGED pc
        BY <2>2 DEF Done, vars
      <3>2. UNCHANGED gaveUp /\ UNCHANGED selfCancelled
        BY <2>1, <3>1, NoCall DEF FInv
      <3> QED
        BY <1>8, <3>1, <3>2
    <2> QED
      BY <1>3, <1>4, <1>5, <1>6, <1>7, <1>9, <2>1, <2>2 DEF HNext, Next
  <1>10. CASE UNCHANGED <<vars, history>>
    BY <1>8, <1>10 DEF history
  <1> QED
    BY <1>9, <1>10

LEMMA InitFInv ==
    ASSUME HInit
    PROVE  FInv
  <1> USE DEF HInit, Init
  <1>1. lines \in [Files -> Seq(BOOLEAN)]
    <2>1. \A n \in Nat : BoundedSeq(BOOLEAN, n) \subseteq Seq(BOOLEAN)
      BY DEF BoundedSeq, SeqOf
    <2>2. BoundedSeq(BOOLEAN, MaxLines) \subseteq Seq(BOOLEAN)
      BY <2>1, FacadeBounds
    <2> QED
      BY <2>2
  <1>2. before \in Nat /\ after \in Nat
    BY FacadeBounds
  <1>3. Types
    <2>1. << >> \in Seq(Nat) /\ << >> \in Seq(Match)
      OBVIOUS
    <2>2. /\ tally \in [Visitors -> [path : Files \cup {None}, count : Nat]]
          /\ pendingBefore \in [Visitors -> Seq(Nat)] /\ results \in [Files -> Seq(Nat)]
      BY <2>1
    <2>3. pc \in [Visitors -> Places] /\ cont \in [Visitors -> {"scan", "take", "finish"}]
      BY DEF Places
    <2>4. /\ file \in [Visitors -> Files \cup {None}] /\ next \in [Visitors -> Nat \ {0}]
          /\ pending \in [Visitors -> Match \cup {None}] /\ match \in [Visitors -> Match \cup {None}]
          /\ ok \in [Visitors -> BOOLEAN]
      OBVIOUS
    <2> QED
      BY <1>1, <1>2, <2>1, <2>2, <2>3, <2>4 DEF Types
  <1>4. Serialized
    BY NoneAssumption DEF Serialized
  <1>5. Stopping /\ Placed
    BY DEF Stopping, Placed, Busy
  <1>6. StreamKept /\ CountsKept
    BY DEF StreamKept, CountsKept, Unfinished
  <1>7. Settled
    BY NoneAssumption DEF Settled, Busy
  <1> QED
    BY <1>3, <1>4, <1>5, <1>6, <1>7 DEF FInv

-----------------------------------------------------------------------------
(* The context of every Match.                                             *)

\* The lines before n that wait for the next match.
Waiting(f, n) ==
    {l \in LinesOf(f) : l < n /\ Kind(f, l) = "before" /\ \A j \in l .. n - 1 : j \notin MatchesOf(f)}

Right(m) ==
    /\ m.line \in MatchesOf(m.file)
    /\ InOrder(m.before, ContextOf(m.file, m.line).before)
    /\ InOrder(m.after, ContextOf(m.file, m.line).after)

\* What fn has of a file lies above line i.
Above(f, i) == \A k \in DOMAIN calls : calls[k].file = f => calls[k].line < i

\* The Match that a visitor brings to fn.
InHand(v) ==
    /\ Right(match[v]) /\ match[v].file = file[v]
    /\ match[v].line < next[v] /\ Above(file[v], match[v].line)

\* A Match that waits for its trailing context has every line of it that was read.
Growing(m, f, n) ==
    /\ m.file = f /\ m.line \in MatchesOf(f) /\ m.line < n
    /\ InOrder(m.before, ContextOf(f, m.line).before)
    /\ Len(m.after) = n - 1 - m.line
    /\ \A j \in DOMAIN m.after : m.after[j] = m.line + j
    /\ \A l \in m.line + 1 .. n - 1 : l \in LinesOf(f) /\ Kind(f, l) = "after"

Gathered(v) ==
    /\ Above(file[v], next[v])
    /\ InOrder(pendingBefore[v], Waiting(file[v], next[v]))
    /\ pending[v] # None =>
          /\ Growing(pending[v], file[v], next[v]) /\ Above(file[v], pending[v].line)
          /\ Len(pending[v].after) < after
          /\ pc[v] \notin Delivering
          /\ pc[v] = "finish" => next[v] > Len(lines[file[v]])

\* A stopped search leaves anything in its collectors, but deliver refuses it.
Collecting(v) ==
    /\ pc[v] = "begin" => \A k \in DOMAIN calls : calls[k].file # file[v]
    /\ pc[v] \in {"check", "call"} => InHand(v)
    /\ ~stopped /\ pc[v] = "lock" => InHand(v)
    /\ ~stopped /\ pc[v] \notin {"idle", "begin"} => Gathered(v)

CInv ==
    /\ verb # "stream" => calls = << >>
    /\ \A k \in DOMAIN calls : \A m \in {calls[k]} : m.file \notin todo /\ Right(m)
    /\ \A k \in DOMAIN calls : \A j \in 1 .. k - 1 :
          calls[j].file = calls[k].file => calls[j].line < calls[k].line
    /\ verb = "stream" => \A v \in Visitors : Collecting(v)

\* What a line's kind says of the matches around it.
LEMMA Kinds ==
    ASSUME Types, NEW f \in Files, NEW i \in LinesOf(f)
    PROVE  /\ i \in Nat /\ i >= 1 /\ i <= Len(lines[f]) /\ Len(lines[f]) \in Nat
           /\ Kind(f, i) \in {"match", "after", "before", "none"}
           /\ Kind(f, i) = "match" <=> i \in MatchesOf(f)
           /\ Kind(f, i) = "after" <=> (i \notin MatchesOf(f) /\ \E m \in MatchesOf(f) : m < i /\ i - m <= after)
           /\ Kind(f, i) = "before" => \E m \in MatchesOf(f) : i < m /\ m - i <= before
  <1>1. lines[f] \in Seq(BOOLEAN) /\ Len(lines[f]) \in Nat /\ DOMAIN lines[f] = 1 .. Len(lines[f])
    BY DEF Types
  <1>2. i \in 1 .. Len(lines[f]) /\ lines[f][i] \in BOOLEAN
    BY <1>1 DEF LinesOf
  <1>3. PICK near \in BOOLEAN : near <=> \E m \in 1 .. i - 1 : lines[f][m] /\ i - m <= after
    OBVIOUS
  <1>4. PICK lead \in BOOLEAN : lead <=> \E m \in i + 1 .. Len(lines[f]) : lines[f][m] /\ m - i <= before
    OBVIOUS
  <1>5. ~near <=> \A m \in 1 .. i - 1 : lines[f][m] => i - m > after
    <2>1. \A m \in 1 .. i - 1 : (i - m > after) <=> ~(i - m <= after)
      BY <1>2 DEF Types
    <2> QED
      BY <1>3, <2>1
  <1>6. Kind(f, i) = CASE lines[f][i] -> "match"
                       [] ~lines[f][i] /\ near -> "after"
                       [] ~lines[f][i] /\ ~near /\ lead -> "before"
                       [] OTHER -> "none"
    BY <1>3, <1>4, <1>5 DEF Kind
  <1>7. i \in MatchesOf(f) <=> lines[f][i]
    BY DEF MatchesOf
  <1>8. near <=> \E m \in MatchesOf(f) : m < i /\ i - m <= after
    BY <1>1, <1>2, <1>3 DEF MatchesOf, LinesOf
  <1>9. lead => \E m \in MatchesOf(f) : i < m /\ m - i <= before
    BY <1>1, <1>2, <1>4 DEF MatchesOf, LinesOf
  <1> QED
    BY <1>1, <1>2, <1>6, <1>7, <1>8, <1>9

\* The lines behind a match are its trailing context, up to the next match.
LEMMA NearMatch ==
    ASSUME Types, NEW f \in Files, NEW m \in MatchesOf(f), NEW n \in LinesOf(f), m < n, n - m <= after
    PROVE  Kind(f, n) \in {"match", "after"}
  <1>1. n \in MatchesOf(f) \/ Kind(f, n) = "after"
    BY Kinds
  <1> QED
    BY <1>1, Kinds

\* Lines that are neither matches nor leading context change nothing that waits.
LEMMA WaitingSkip ==
    ASSUME Types, NEW f \in Files, NEW n \in Nat, n \in LinesOf(f), n \notin MatchesOf(f)
    PROVE  Waiting(f, n + 1) = Waiting(f, n) \cup {l \in {n} : Kind(f, n) = "before"}
  <1>1. ASSUME NEW l \in LinesOf(f)
        PROVE  l \in Waiting(f, n + 1) <=> l \in Waiting(f, n) \cup {k \in {n} : Kind(f, n) = "before"}
    <2>1. l \in Nat
      BY Kinds
    <2>2. CASE l = n
      <3>1. \A j \in l .. (n + 1) - 1 : j = n
        BY <2>1, <2>2
      <3> QED
        BY <2>1, <2>2, <3>1 DEF Waiting
    <2>3. CASE l # n
      <3>1. l < n + 1 <=> l < n
        BY <2>1, <2>3
      <3>2. (\A j \in l .. (n + 1) - 1 : j \notin MatchesOf(f)) <=> (\A j \in l .. n - 1 : j \notin MatchesOf(f)) \/ ~(l < n + 1)
        BY <2>1, <2>3
      <3> QED
        BY <2>3, <3>1, <3>2 DEF Waiting
    <2> QED
      BY <2>2, <2>3
  <1>2. Waiting(f, n + 1) \subseteq LinesOf(f) /\ Waiting(f, n) \subseteq LinesOf(f)
    BY DEF Waiting
  <1> QED
    BY <1>1, <1>2

\* Behind a match nothing waits yet, and at one what waits is its leading context.
LEMMA WaitingAtMatch ==
    ASSUME Types, NEW f \in Files, NEW n \in Nat, n \in MatchesOf(f)
    PROVE  Waiting(f, n + 1) = {} /\ Waiting(f, n) = ContextOf(f, n).before
  <1>1. ASSUME NEW l \in Waiting(f, n + 1) PROVE FALSE
    <2>1. l \in Nat /\ l < n + 1 /\ \A j \in l .. (n + 1) - 1 : j \notin MatchesOf(f)
      BY Kinds DEF Waiting
    <2>2. n \in l .. (n + 1) - 1
      BY <2>1
    <2> QED
      BY <2>1, <2>2
  <1>2. ASSUME NEW l \in LinesOf(f), Kind(f, l) = "before", l < n
        PROVE  (\A j \in l .. n - 1 : j \notin MatchesOf(f)) <=> MatchesOf(f) \cap Between(f, l, n) = {}
    <2>1. l \in Nat /\ l \notin MatchesOf(f)
      BY <1>2, Kinds
    <2>2. \A j \in MatchesOf(f) : j \in Nat /\ j \in LinesOf(f)
      BY Kinds DEF MatchesOf
    <2>3. \A j \in MatchesOf(f) : j \in l .. n - 1 <=> j \in Between(f, l, n)
      BY <1>2, <2>1, <2>2 DEF Between
    <2> QED
      BY <2>3
  <1>3. ContextOf(f, n).before =
          {l \in LinesOf(f) : l < n /\ Kind(f, l) = "before" /\ MatchesOf(f) \cap Between(f, l, n) = {}}
    BY DEF ContextOf
  <1>4. \A l \in LinesOf(f) : l \in Waiting(f, n) <=> l \in ContextOf(f, n).before
    BY <1>2, <1>3 DEF Waiting
  <1>5. Waiting(f, n) \subseteq LinesOf(f) /\ ContextOf(f, n).before \subseteq LinesOf(f)
    BY <1>3 DEF Waiting
  <1> QED
    BY <1>1, <1>4, <1>5

\* Lines in order are no more than there is room for.
LEMMA FewBetween ==
    ASSUME NEW s \in Seq(Nat), NEW a \in Int, NEW b \in Int, a <= b,
           \A j \in DOMAIN s : a <= s[j] /\ s[j] < b,
           \A j, k \in DOMAIN s : j < k => s[j] < s[k]
    PROVE  Len(s) <= b - a
  <1>1. Len(s) \in Nat /\ DOMAIN s = 1 .. Len(s) /\ \A j \in 1 .. Len(s) : s[j] \in Nat
    BY ElementOfSeq
  <1>2. s \in [1 .. Len(s) -> a .. b - 1]
    <2>1. \A j \in 1 .. Len(s) : s[j] \in a .. b - 1
      BY <1>1
    <2>2. s = [j \in 1 .. Len(s) |-> s[j]]
      BY <1>1
    <2> QED
      BY <2>1, <2>2
  <1>3. \A j, k \in 1 .. Len(s) : s[j] = s[k] => j = k
    <2> SUFFICES ASSUME NEW j \in 1 .. Len(s), NEW k \in 1 .. Len(s), s[j] = s[k], j # k PROVE FALSE
      OBVIOUS
    <2>1. j < k \/ k < j
      BY <1>1
    <2>2. s[j] \in Nat /\ s[k] \in Nat /\ (s[j] < s[k] \/ s[k] < s[j])
      BY <1>1, <2>1
    <2> QED
      BY <2>2
  <1>4. s \in Injection(1 .. Len(s), a .. b - 1)
    BY <1>2, <1>3 DEF Injection, IsInjective
  <1>5. IsFiniteSet(a .. b - 1) /\ Cardinality(a .. b - 1) = b - a
    <2>1. PICK c \in Int : c = b - 1
      OBVIOUS
    <2>2. IsFiniteSet(a .. c) /\ Cardinality(a .. c) = IF a > c THEN 0 ELSE c - a + 1
      <3>1. a \in Int
        OBVIOUS
      <3> QED
        BY <2>1, <3>1, FS_Interval, Zenon
    <2> QED
      BY <2>1, <2>2
  <1>6. Cardinality(1 .. Len(s)) = Len(s)
    <2>1. PICK c \in Nat : c = Len(s)
      BY <1>1
    <2>2. 1 \in Int /\ c \in Int
      BY <2>1
    <2>3. Cardinality(1 .. c) = IF 1 > c THEN 0 ELSE c - 1 + 1
      BY <2>2, FS_Interval, Zenon
    <2> QED
      BY <2>1, <2>3
  <1>7. Cardinality(1 .. Len(s)) <= Cardinality(a .. b - 1)
    BY <1>4, <1>5, FS_Injection
  <1> QED
    BY <1>5, <1>6, <1>7

LEMMA OrderAppend ==
    ASSUME NEW s \in Seq(Nat), NEW S, InOrder(s, S), NEW n \in Nat, \A l \in S : l < n
    PROVE  InOrder(Append(s, n), S \cup {n})
  <1>1. PICK t : t = Append(s, n)
    OBVIOUS
  <1>2. /\ Len(s) \in Nat /\ DOMAIN s = 1 .. Len(s) /\ DOMAIN t = 1 .. Len(s) + 1
        /\ \A j \in 1 .. Len(s) : t[j] = s[j] /\ s[j] \in Nat
        /\ t[Len(s) + 1] = n
    BY <1>1, AppendProperties, ElementOfSeq
  <1>3. {s[j] : j \in DOMAIN s} = S /\ \A j, k \in DOMAIN s : j < k => s[j] < s[k]
    BY DEF InOrder
  <1>4. \A j \in DOMAIN t : j \in DOMAIN s \/ j = Len(s) + 1
    BY <1>2
  <1>5. {t[j] : j \in DOMAIN t} = S \cup {n}
    <2>1. ASSUME NEW j \in DOMAIN t PROVE t[j] \in S \cup {n}
      BY <1>2, <1>3, <1>4
    <2>2. ASSUME NEW x \in S \cup {n} PROVE \E j \in DOMAIN t : t[j] = x
      <3>1. CASE x = n
        <4>1. Len(s) + 1 \in DOMAIN t
          BY <1>2
        <4> QED
          BY <1>2, <3>1, <4>1
      <3>2. CASE x \in S
        <4>1. PICK j \in DOMAIN s : s[j] = x
          BY <1>3, <3>2
        <4>2. j \in DOMAIN t /\ t[j] = x
          BY <1>2, <4>1
        <4> QED
          BY <4>2
      <3> QED
        BY <2>2, <3>1, <3>2
    <2> QED
      BY <2>1, <2>2
  <1>6. ASSUME NEW j \in DOMAIN t, NEW k \in DOMAIN t, j < k PROVE t[j] < t[k]
    <2>1. j \in DOMAIN s /\ t[j] = s[j] /\ s[j] \in S
      BY <1>2, <1>3, <1>4, <1>6
    <2>2. CASE k \in DOMAIN s
      BY <1>2, <1>3, <1>6, <2>1, <2>2
    <2>3. CASE k = Len(s) + 1
      BY <1>2, <2>1, <2>3
    <2> QED
      BY <1>4, <2>2, <2>3
  <1> QED
    BY <1>1, <1>5, <1>6 DEF InOrder

\* The ring of leading context never overflows: older lines would be too far from the match.
LEMMA WaitingFits ==
    ASSUME Types, NEW f \in Files, NEW n \in Nat, n \in LinesOf(f), Kind(f, n) = "before",
           NEW s \in Seq(Nat), InOrder(s, Waiting(f, n))
    PROVE  Len(s) < before
  <1>1. before \in Nat /\ n \notin MatchesOf(f)
    BY Kinds DEF Types
  <1>2. \A m \in MatchesOf(f) : m \in Nat
    BY Kinds DEF MatchesOf
  <1>3. before >= 1
    BY <1>1, <1>2, Kinds
  <1>4. ASSUME NEW l \in Waiting(f, n) PROVE l \in Nat /\ n - before + 1 <= l /\ l < n
    <2>1. /\ l \in LinesOf(f) /\ l < n /\ Kind(f, l) = "before" /\ \A j \in l .. n - 1 : j \notin MatchesOf(f)
      BY DEF Waiting
    <2>2. l \in Nat
      BY <2>1, Kinds
    <2>3. PICK m \in MatchesOf(f) : l < m /\ m - l <= before
      BY <2>1, Kinds
    <2>4. m \notin l .. n - 1 /\ m # n /\ m \in Nat
      BY <1>1, <1>2, <2>1, <2>3
    <2> QED
      BY <1>1, <2>1, <2>2, <2>3, <2>4
  <1>5. DOMAIN s = 1 .. Len(s) /\ \A j \in DOMAIN s : s[j] \in Waiting(f, n)
    BY DEF InOrder
  <1>6. \A j, k \in DOMAIN s : j < k => s[j] < s[k]
    BY DEF InOrder
  <1>7. PICK a \in Int : a = n - before + 1
    BY <1>1
  <1>8. \A j \in DOMAIN s : a <= s[j] /\ s[j] < n
    BY <1>4, <1>5, <1>7
  <1>9. Len(s) <= n - a
    <2>1. a <= n /\ n \in Int
      BY <1>1, <1>3, <1>7
    <2> QED
      BY <1>6, <1>8, <2>1, FewBetween
  <1>10. Len(s) \in Nat
    OBVIOUS
  <1> QED
    BY <1>1, <1>7, <1>9, <1>10

\* A Match is complete when its trailing context is full, or ends at a match or with the file.
LEMMA GrownRight ==
    ASSUME Types, NEW f \in Files, NEW n \in Nat, NEW m \in Match, Growing(m, f, n),
           n \in MatchesOf(f) \/ n > Len(lines[f]) \/ n - 1 - m.line >= after
    PROVE  Right(m)
  <1>1. /\ m.file = f /\ m.line \in MatchesOf(f) /\ m.line < n
        /\ InOrder(m.before, ContextOf(f, m.line).before)
        /\ Len(m.after) = n - 1 - m.line
        /\ \A j \in DOMAIN m.after : m.after[j] = m.line + j
        /\ \A l \in m.line + 1 .. n - 1 : l \in LinesOf(f) /\ Kind(f, l) = "after"
    BY DEF Growing
  <1>2. \A j \in MatchesOf(f) : j \in LinesOf(f) /\ j \in Nat
    BY Kinds DEF MatchesOf
  <1>3. PICK i \in Nat : i = m.line
    BY <1>1, <1>2
  <1>4. PICK s \in Seq(Nat) : s = m.after
    BY DEF Match
  <1>5. DOMAIN s = 1 .. n - 1 - i /\ (\A j \in DOMAIN s : s[j] = i + j) /\ after \in Nat
    BY <1>1, <1>3, <1>4 DEF Types
  <1>6. ContextOf(f, i).after =
          {l \in LinesOf(f) : l > i /\ Kind(f, l) = "after" /\ MatchesOf(f) \cap Between(f, i, l) = {}}
    BY DEF ContextOf
  <1>7. ASSUME NEW l \in i + 1 .. n - 1 PROVE l \in ContextOf(f, i).after
    <2>1. l \in LinesOf(f) /\ Kind(f, l) = "after" /\ l > i
      BY <1>1, <1>3
    <2>2. ASSUME NEW j \in MatchesOf(f) \cap Between(f, i, l) PROVE FALSE
      <3>1. j \in i + 1 .. n - 1 /\ j \in LinesOf(f)
        BY <1>2 DEF Between
      <3>2. Kind(f, j) = "after"
        BY <1>1, <1>3, <3>1
      <3> QED
        BY <3>1, <3>2, Kinds
    <2> QED
      BY <1>6, <2>1, <2>2
  <1>8. ASSUME NEW l \in ContextOf(f, i).after PROVE l \in i + 1 .. n - 1
    <2>1. l \in LinesOf(f) /\ l > i /\ Kind(f, l) = "after" /\ MatchesOf(f) \cap Between(f, i, l) = {}
      BY <1>6
    <2>2. l \in Nat /\ l <= Len(lines[f]) /\ Len(lines[f]) \in Nat /\ l \notin MatchesOf(f)
      BY <2>1, Kinds
    <2>3. PICK j \in MatchesOf(f) : j < l /\ l - j <= after
      BY <2>1, Kinds
    <2>4. j <= i
      <3>1. j \notin Between(f, i, l)
        BY <2>1, <2>3
      <3> QED
        BY <1>2, <2>2, <2>3, <3>1 DEF Between
    <2>5. l - i <= after
      BY <1>2, <1>5, <2>2, <2>3, <2>4
    <2>6. CASE n \in MatchesOf(f)
      <3>1. n \notin Between(f, i, l)
        BY <2>1, <2>6
      <3>2. n > i /\ n \in LinesOf(f)
        BY <1>1, <1>2, <1>3, <2>6
      <3> QED
        BY <2>1, <2>2, <2>6, <3>1, <3>2 DEF Between
    <2>7. CASE n > Len(lines[f])
      BY <2>1, <2>2, <2>7
    <2>8. CASE n - 1 - m.line >= after
      BY <1>3, <1>5, <2>1, <2>2, <2>5, <2>8
    <2> QED
      BY <2>6, <2>7, <2>8
  <1>9. {s[j] : j \in DOMAIN s} = ContextOf(f, i).after
    <2>1. \A j \in DOMAIN s : s[j] \in i + 1 .. n - 1
      BY <1>5
    <2>2. ASSUME NEW l \in i + 1 .. n - 1 PROVE l - i \in DOMAIN s /\ s[l - i] = l
      <3>1. PICK d \in Nat : d = l - i /\ i + d = l /\ d \in 1 .. n - 1 - i
        OBVIOUS
      <3> QED
        BY <1>5, <3>1
    <2> QED
      BY <1>7, <1>8, <2>1, <2>2, Zenon
  <1>10. \A j, k \in DOMAIN s : j < k => s[j] < s[k]
    BY <1>5
  <1> QED
    BY <1>1, <1>3, <1>4, <1>9, <1>10 DEF Right, InOrder

\* The files and what was asked for stay, and with them what a right Match is.
LEMMA SameContext ==
    ASSUME UNCHANGED input
    PROVE  /\ \A m : Right(m)' <=> Right(m)
           /\ \A f, n : MatchesOf(f)' = MatchesOf(f) /\ Waiting(f, n)' = Waiting(f, n)
           /\ \A m, f, n : Growing(m, f, n)' <=> Growing(m, f, n)
  <1>1. \A f, i : Kind(f, i)' = Kind(f, i) /\ LinesOf(f)' = LinesOf(f) /\ MatchesOf(f)' = MatchesOf(f)
    BY DEF input, Kind, LinesOf, MatchesOf
  <1>2. \A f, i : ContextOf(f, i)' = ContextOf(f, i) /\ Waiting(f, i)' = Waiting(f, i)
    BY DEF input, Kind, LinesOf, MatchesOf, ContextOf, Between, Waiting
  <1>3. \A m : Right(m)' <=> Right(m)
    BY <1>1, <1>2 DEF Right, InOrder
  <1>4. \A m, f, n : Growing(m, f, n)' <=> Growing(m, f, n)
    BY <1>1, <1>2 DEF Growing, InOrder
  <1> QED
    BY <1>1, <1>2, <1>3, <1>4

\* What fn got is a new Match of the visitor's file, or nothing.
LEMMA CallsGrow ==
    ASSUME Types, Placed, CInv, NEW v \in Visitors, VisitorStep(v)
    PROVE  \/ calls' = calls
           \/ /\ Call(v) /\ verb = "stream" /\ Busy(v) /\ match[v] \in Match /\ InHand(v)
              /\ calls' = Append(calls, match[v])
  <1>1. CASE ~Call(v)
    BY <1>1, Moves DEF DeliverStep, Lock, CheckContext, Unlock, Store, Back
  <1>2. CASE Call(v)
    <2>1. pc[v] = "call" /\ calls' = Append(calls, match[v])
      BY <1>2 DEF Call
    <2>2. verb = "stream" /\ Busy(v) /\ match[v] \in Match
      BY <2>1 DEF Placed, Busy, Types
    <2>3. InHand(v)
      BY <2>1, <2>2 DEF CInv, Collecting
    <2> QED
      BY <1>2, <2>1, <2>2, <2>3
  <1> QED
    BY <1>1, <1>2

\* A call of another file leaves what lies above a line of this one.
LEMMA AboveStays ==
    ASSUME Types, NEW m \in Match, calls' = Append(calls, m), NEW f, NEW i,
           m.file # f \/ m.line < i, Above(f, i)
    PROVE  Above(f, i)'
  <1>1. /\ Len(calls) \in Nat /\ DOMAIN calls = 1 .. Len(calls) /\ DOMAIN calls' = 1 .. Len(calls) + 1
        /\ \A k \in 1 .. Len(calls) : calls'[k] = calls[k]
        /\ calls'[Len(calls) + 1] = m
    BY AppendProperties DEF Types
  <1>2. \A k \in DOMAIN calls' : k \in DOMAIN calls \/ k = Len(calls) + 1
    BY <1>1
  <1> QED
    BY <1>1, <1>2 DEF Above

\* The calls come in order, each with its context.
LEMMA StepCalls ==
    ASSUME Types, Placed, CInv, NEW v \in Visitors, VisitorStep(v)
    PROVE  /\ verb' # "stream" => calls' = << >>
           /\ \A k \in DOMAIN calls' : \A m \in {calls'[k]} : m.file \notin todo' /\ Right(m)'
           /\ \A k \in DOMAIN calls' : \A j \in 1 .. k - 1 :
                 calls'[j].file = calls'[k].file => calls'[j].line < calls'[k].line
  <1>1. UNCHANGED input /\ verb' = verb /\ todo' \subseteq todo
    <2>1. todo' \subseteq todo
      BY Moves DEF Visit, walk, DeliverStep, Lock, CheckContext, Call, Unlock, Store, Back
    <2> QED
      BY <2>1, Separate DEF input
  <1>2. \A m : Right(m)' <=> Right(m)
    BY <1>1, SameContext
  <1>3. /\ verb # "stream" => calls = << >>
        /\ \A k \in DOMAIN calls : \A m \in {calls[k]} : m.file \notin todo /\ Right(m)
        /\ \A k \in DOMAIN calls : \A j \in 1 .. k - 1 :
              calls[j].file = calls[k].file => calls[j].line < calls[k].line
    BY DEF CInv
  <1>4. CASE calls' = calls
    <2> QED
      BY <1>1, <1>2, <1>3, <1>4
  <1>5. CASE /\ verb = "stream" /\ Busy(v) /\ match[v] \in Match /\ InHand(v)
             /\ calls' = Append(calls, match[v])
    <2>1. PICK m \in Match : m = match[v]
      BY <1>5
    <2>2. Right(m) /\ m.file = file[v] /\ m.file \notin todo /\ Above(m.file, m.line)
      BY <1>5, <2>1 DEF InHand, Placed
    <2>3. /\ Len(calls) \in Nat /\ DOMAIN calls = 1 .. Len(calls) /\ DOMAIN calls' = 1 .. Len(calls) + 1
          /\ \A k \in 1 .. Len(calls) : calls'[k] = calls[k]
          /\ calls'[Len(calls) + 1] = m
      BY <1>5, <2>1, AppendProperties DEF Types
    <2>4. ASSUME NEW k \in DOMAIN calls'
          PROVE  /\ \A c \in {calls'[k]} : c.file \notin todo' /\ Right(c)'
                 /\ \A j \in 1 .. k - 1 : calls'[j].file = calls'[k].file => calls'[j].line < calls'[k].line
      <3>1. CASE k \in DOMAIN calls
        <4>1. \A j \in 1 .. k - 1 : j \in 1 .. Len(calls)
          BY <2>3, <3>1
        <4>2. PICK c : c = calls[k] /\ c = calls'[k]
          BY <2>3, <3>1
        <4>3. Right(c)' /\ c.file \notin todo'
          BY <1>1, <1>2, <1>3, <3>1, <4>2
        <4>4. \A j \in 1 .. k - 1 : calls'[j].file = calls'[k].file => calls'[j].line < calls'[k].line
          BY <1>3, <2>3, <3>1, <4>1
        <4> QED
          BY <4>2, <4>3, <4>4
      <3>2. CASE k = Len(calls) + 1
        <4>1. \A j \in 1 .. k - 1 : j \in DOMAIN calls /\ calls'[j] = calls[j]
          BY <2>3, <3>2
        <4>2. calls'[k] = m
          BY <2>3, <3>2
        <4>3. Right(m)'
          BY <1>2, <2>2
        <4> QED
          BY <1>1, <2>2, <4>1, <4>2, <4>3 DEF Above
      <3> QED
        BY <2>3, <3>1, <3>2
    <2> QED
      BY <1>1, <1>5, <2>4
  <1> QED
    BY <1>4, <1>5, CallsGrow

\* A visitor's step keeps what the others have gathered: a file is searched by one of them.
LEMMA OthersCollect ==
    ASSUME Types, Placed, CInv, NEW v \in Visitors, VisitorStep(v), verb = "stream", stopped => stopped',
           NEW u \in Visitors \ {v}
    PROVE  Collecting(u)'
  <1>1. /\ pc'[u] = pc[u] /\ file'[u] = file[u] /\ next'[u] = next[u]
        /\ pending'[u] = pending[u] /\ match'[u] = match[u]
        /\ UNCHANGED input
    BY Separate
  <1>2. pendingBefore'[u] = pendingBefore[u]
    <2>1. CASE Begin(v)
      BY <2>1 DEF Begin, collector, Types
    <2>2. CASE BeforeLine(v)
      BY <2>2 DEF BeforeLine, FlushPending, Types
    <2>3. CASE MatchLine(v)
      BY <2>3 DEF MatchLine, FlushPending, Types
    <2>4. CASE ~Begin(v) /\ ~BeforeLine(v) /\ ~MatchLine(v)
      BY <2>4 DEF VisitorStep, DeliverStep, Visit, SkipLine, Decline, AfterLine, CountMatch, FindMatch, Record,
                  List, EndOfFile, SearchFails, Finish, FlushPending, Lock, CheckContext, Call, Unlock, Store,
                  Back, collector
    <2> QED
      BY <2>1, <2>2, <2>3, <2>4
  <1>3. /\ \A m : Right(m)' <=> Right(m)
        /\ \A f, n : Waiting(f, n)' = Waiting(f, n)
        /\ \A m, f, n : Growing(m, f, n)' <=> Growing(m, f, n)
    BY <1>1, SameContext
  <1>4. ASSUME Busy(u), NEW f, f = file[u], NEW i, Above(f, i) PROVE Above(f, i)'
    <2>1. CASE calls' = calls
      BY <1>4, <2>1 DEF Above
    <2>2. CASE /\ Busy(v) /\ match[v] \in Match /\ InHand(v) /\ calls' = Append(calls, match[v])
      <3>1. PICK m \in Match : m = match[v]
        BY <2>2
      <3>2. m.file # f
        BY <1>4, <2>2, <3>1 DEF InHand, Placed
      <3> QED
        BY <1>4, <2>2, <3>1, <3>2, AboveStays
    <2> QED
      BY <2>1, <2>2, CallsGrow
  <1>5. ASSUME pc[u] = "begin" PROVE \A k \in DOMAIN calls' : calls'[k].file # file[u]
    <2>1. Busy(u) /\ \A k \in DOMAIN calls : calls[k].file # file[u]
      BY <1>5 DEF Busy, CInv, Collecting
    <2>2. CASE calls' = calls
      BY <2>1, <2>2
    <2>3. CASE /\ Busy(v) /\ match[v] \in Match /\ InHand(v) /\ calls' = Append(calls, match[v])
      <3>1. PICK m \in Match : m = match[v]
        BY <2>3
      <3>2. m.file # file[u]
        BY <2>1, <2>3, <3>1 DEF InHand, Placed
      <3>3. /\ Len(calls) \in Nat /\ DOMAIN calls = 1 .. Len(calls) /\ DOMAIN calls' = 1 .. Len(calls) + 1
            /\ \A k \in 1 .. Len(calls) : calls'[k] = calls[k]
            /\ calls'[Len(calls) + 1] = m
        BY <2>3, <3>1, AppendProperties DEF Types
      <3>4. \A k \in DOMAIN calls' : k \in DOMAIN calls \/ k = Len(calls) + 1
        BY <3>3
      <3> QED
        BY <2>1, <3>2, <3>3, <3>4
    <2> QED
      BY <2>2, <2>3, CallsGrow
  <1>6. ASSUME Busy(u), InHand(u) PROVE InHand(u)'
    <2>1. PICK m, f, n : m = match[u] /\ f = file[u] /\ n = next[u]
      OBVIOUS
    <2>2. Right(m) /\ m.file = f /\ m.line < n /\ Above(f, m.line)
      BY <1>6, <2>1 DEF InHand
    <2>3. PICK i : i = m.line
      OBVIOUS
    <2>4. Above(f, i)' /\ Right(m)'
      BY <1>3, <1>4, <1>6, <2>1, <2>2, <2>3
    <2>5. match'[u] = m /\ file'[u] = f /\ next'[u] = n
      BY <1>1, <2>1
    <2> QED
      BY <2>2, <2>3, <2>4, <2>5 DEF InHand, Above, Right
  <1>7. ASSUME Busy(u), Gathered(u) PROVE Gathered(u)'
    <2>1. PICK m, f, n, s : m = pending[u] /\ f = file[u] /\ n = next[u] /\ s = pendingBefore[u]
      OBVIOUS
    <2>2. /\ Above(f, n) /\ InOrder(s, Waiting(f, n))
          /\ m # None => /\ Growing(m, f, n) /\ Above(f, m.line) /\ Len(m.after) < after
                         /\ pc[u] \notin Delivering /\ (pc[u] = "finish" => n > Len(lines[f]))
      BY <1>7, <2>1 DEF Gathered
    <2>3. Above(f, n)' /\ (m # None => Above(f, m.line)')
      <3>1. PICK i : i = m.line
        OBVIOUS
      <3>2. Above(f, n)' /\ (m # None => Above(f, i)')
        BY <1>4, <1>7, <2>1, <2>2, <3>1
      <3> QED
        BY <3>1, <3>2
    <2>4. pending'[u] = m /\ file'[u] = f /\ next'[u] = n /\ pendingBefore'[u] = s /\ pc'[u] = pc[u]
      BY <1>1, <1>2, <2>1
    <2>5. Growing(m, f, n)' <=> Growing(m, f, n)
      BY <1>3
    <2>6. Waiting(f, n)' = Waiting(f, n)
      BY <1>3
    <2>7. lines' = lines /\ after' = after
      BY <1>1 DEF input
    <2> QED
      BY <2>2, <2>3, <2>4, <2>5, <2>6, <2>7 DEF Gathered
  <1>8. Collecting(u)
    BY DEF CInv
  <1> QED
    BY <1>1, <1>5, <1>6, <1>7, <1>8 DEF Collecting, Busy

\* A new Match has the lines that waited, and none behind it yet.
LEMMA NewRight ==
    ASSUME Types, NEW f \in Files, NEW n \in MatchesOf(f), NEW s \in Seq(Nat), InOrder(s, Waiting(f, n)),
           NEW m, m = [file |-> f, line |-> n, before |-> s, after |-> << >>]
    PROVE  n \in Nat /\ m \in Match /\ Growing(m, f, n + 1) /\ InOrder(<< >>, Waiting(f, n + 1))
  <1>1. n \in Nat /\ n \in LinesOf(f)
    BY Kinds DEF MatchesOf
  <1>2. m \in Match
    BY <1>1 DEF Match
  <1>3. Waiting(f, n + 1) = {} /\ Waiting(f, n) = ContextOf(f, n).before
    BY <1>1, WaitingAtMatch
  <1>4. InOrder(<< >>, {})
    BY DEF InOrder
  <1>5. /\ m.file = f /\ m.line = n /\ m.before = s /\ m.after = << >>
        /\ Len(<< >>) = 0 /\ DOMAIN << >> = {} /\ (n + 1) - 1 - n = 0
    BY <1>1
  <1>6. \A l \in n + 1 .. (n + 1) - 1 : FALSE
    BY <1>1
  <1>7. Growing(m, f, n + 1)
    BY <1>1, <1>3, <1>5, <1>6 DEF Growing
  <1> QED
    BY <1>1, <1>2, <1>3, <1>4, <1>7

\* One more line of trailing context.
LEMMA OneMore ==
    ASSUME Types, NEW f \in Files, NEW n \in Nat, n \in LinesOf(f), Kind(f, n) = "after",
           NEW m \in Match, Growing(m, f, n),
           NEW e, e = [m EXCEPT !.after = Append(@, n)]
    PROVE  e \in Match /\ Growing(e, f, n + 1) /\ e.line = m.line /\ Len(e.after) = Len(m.after) + 1
  <1>1. PICK s \in Seq(Nat) : s = m.after
    BY DEF Match
  <1>2. PICK t \in Seq(Nat) : t = Append(s, n)
    BY AppendProperties
  <1>3. e = [m EXCEPT !.after = t]
    BY <1>1, <1>2
  <1>4. e \in Match /\ e.file = m.file /\ e.line = m.line /\ e.before = m.before /\ e.after = t
    BY <1>3 DEF Match
  <1>5. /\ Len(s) \in Nat /\ Len(t) = Len(s) + 1 /\ DOMAIN s = 1 .. Len(s) /\ DOMAIN t = 1 .. Len(s) + 1
        /\ \A j \in 1 .. Len(s) : t[j] = s[j]
        /\ t[Len(s) + 1] = n
    BY <1>2, AppendProperties
  <1>6. m.line \in Nat
    BY DEF Match
  <1>7. /\ m.file = f /\ m.line \in MatchesOf(f) /\ m.line < n
        /\ InOrder(m.before, ContextOf(f, m.line).before)
        /\ Len(s) = n - 1 - m.line
        /\ \A j \in DOMAIN s : s[j] = m.line + j
        /\ \A l \in m.line + 1 .. n - 1 : l \in LinesOf(f) /\ Kind(f, l) = "after"
    BY <1>1 DEF Growing
  <1>8. Len(t) = (n + 1) - 1 - m.line /\ m.line < n + 1
    BY <1>5, <1>6, <1>7
  <1>9. \A j \in DOMAIN t : t[j] = m.line + j
    <2> SUFFICES ASSUME NEW j \in DOMAIN t PROVE t[j] = m.line + j
      OBVIOUS
    <2>1. CASE j \in DOMAIN s
      BY <1>5, <1>7, <2>1
    <2>2. CASE j = Len(s) + 1
      BY <1>5, <1>6, <1>7, <2>2
    <2> QED
      BY <1>5, <2>1, <2>2
  <1>10. \A l \in m.line + 1 .. (n + 1) - 1 : l \in LinesOf(f) /\ Kind(f, l) = "after"
    <2> SUFFICES ASSUME NEW l \in m.line + 1 .. (n + 1) - 1 PROVE l \in LinesOf(f) /\ Kind(f, l) = "after"
      OBVIOUS
    <2>1. l = n \/ l \in m.line + 1 .. n - 1
      BY <1>6
    <2> QED
      BY <1>7, <2>1
  <1> QED
    BY <1>1, <1>4, <1>5, <1>7, <1>8, <1>9, <1>10 DEF Growing

\* A Match in hand that waits for context stands before a line of it, a match, or the end.
LEMMA GrowingHere ==
    ASSUME Types, NEW f \in Files, NEW n \in Nat, n \in LinesOf(f), NEW m \in Match, Growing(m, f, n),
           Len(m.after) < after
    PROVE  Kind(f, n) \in {"match", "after"}
  <1>1. m.line \in Nat /\ m.line \in MatchesOf(f) /\ m.line < n /\ Len(m.after) = n - 1 - m.line /\ after \in Nat
    BY DEF Growing, Match, Types
  <1>2. n - m.line <= after
    BY <1>1
  <1>3. PICK i \in MatchesOf(f) : i = m.line
    BY <1>1
  <1> QED
    BY <1>1, <1>2, <1>3, NearMatch

\* While nothing has stopped it, a visitor's collector has exactly what belongs to its Match.
LEMMA OwnCollects ==
    ASSUME Types, Placed, CInv, NEW v \in Visitors, VisitorStep(v), verb = "stream", stopped => stopped'
    PROVE  Collecting(v)'
  <1> USE DEF Goto
  <1>1. /\ pc \in [Visitors -> Places] /\ pending \in [Visitors -> Match \cup {None}]
        /\ match \in [Visitors -> Match \cup {None}] /\ next \in [Visitors -> Nat \ {0}]
        /\ cont \in [Visitors -> {"scan", "take", "finish"}] /\ calls \in Seq(Match)
        /\ pendingBefore \in [Visitors -> Seq(Nat)] /\ file \in [Visitors -> Files \cup {None}]
    BY DEF Types
  <1>2. UNCHANGED input /\ lines' = lines /\ after' = after
    BY Separate DEF input
  <1>3. /\ \A m : Right(m)' <=> Right(m)
        /\ \A f, n : Waiting(f, n)' = Waiting(f, n)
        /\ \A m, f, n : Growing(m, f, n)' <=> Growing(m, f, n)
    BY <1>2, SameContext
  <1>4. Collecting(v)
    BY DEF CInv
  <1>5. ~CountMatch(v) /\ ~FindMatch(v) /\ ~Record(v) /\ ~List(v)
    BY DEF CountMatch, FindMatch, Record, List
  <1>6. ASSUME pc'[v] = "idle" PROVE Collecting(v)'
    BY <1>6 DEF Collecting
  <1>7. ASSUME stopped', pc'[v] \notin {"begin", "check", "call"} PROVE Collecting(v)'
    BY <1>7 DEF Collecting
  \* What is to be shown of a visitor that is scanning, flushing or at the end of its file.
  <1>8. ASSUME NEW f, NEW n, NEW s, f = file'[v], n = next'[v], s = pendingBefore'[v],
               pc'[v] \in {"scan", "take", "finish", "unlock", "store", "back"},
               Above(f, n)', InOrder(s, Waiting(f, n)),
               pending'[v] # None =>
                  \E m \in {pending'[v]} :
                     /\ Growing(m, f, n) /\ Above(f, m.line)' /\ Len(m.after) < after
                     /\ pc'[v] \notin Delivering /\ (pc'[v] = "finish" => n > Len(lines[f]))
        PROVE  Collecting(v)'
    <2>1. pending'[v] # None =>
             /\ Growing(pending[v], file[v], next[v])' /\ Above(file[v], pending[v].line)'
             /\ Len(pending'[v].after) < after' /\ pc'[v] \notin Delivering
             /\ (pc'[v] = "finish" => next'[v] > Len(lines'[file'[v]]))
      <3> SUFFICES ASSUME pending'[v] # None
                   PROVE  /\ Growing(pending[v], file[v], next[v])' /\ Above(file[v], pending[v].line)'
                          /\ Len(pending'[v].after) < after' /\ pc'[v] \notin Delivering
                          /\ (pc'[v] = "finish" => next'[v] > Len(lines'[file'[v]]))
        OBVIOUS
      <3>1. PICK m : /\ m = pending'[v] /\ Growing(m, f, n) /\ Above(f, m.line)' /\ Len(m.after) < after
                     /\ pc'[v] \notin Delivering /\ (pc'[v] = "finish" => n > Len(lines[f]))
        BY <1>8
      <3>2. Growing(m, f, n)'
        BY <1>3, <3>1
      <3>3. Growing(pending[v], file[v], next[v])'
        BY <1>8, <3>1, <3>2 DEF Growing
      <3>4. Above(file[v], pending[v].line)'
        BY <1>8, <3>1 DEF Above
      <3> QED
        BY <1>2, <1>8, <3>1, <3>3, <3>4
    <2>2. Above(file[v], next[v])'
      BY <1>8 DEF Above
    <2>3. InOrder(s, Waiting(f, n))'
      BY <1>3, <1>8 DEF InOrder
    <2>4. InOrder(pendingBefore[v], Waiting(file[v], next[v]))'
      BY <1>8, <2>3 DEF InOrder
    <2>5. Gathered(v)'
      BY <2>1, <2>2, <2>4 DEF Gathered
    <2> QED
      BY <1>8, <2>5 DEF Collecting
  \* And of one that brings a Match to fn.
  <1>9. ASSUME NEW f, NEW n, NEW m, f = file'[v], n = next'[v], m = match'[v],
               pc'[v] \in {"lock", "check", "call"},
               Right(m), m.file = f, m.line < n, Above(f, m.line)'
        PROVE  InHand(v)'
    <2>1. Right(m)'
      BY <1>3, <1>9
    <2>2. Right(match[v])'
      BY <1>9, <2>1 DEF Right
    <2>3. Above(file[v], match[v].line)'
      BY <1>9 DEF Above
    <2> QED
      BY <1>9, <2>2, <2>3 DEF InHand
  <1>10. ASSUME NEW f, NEW n, NEW s, f = file'[v], n = next'[v], s = pendingBefore'[v],
                pc'[v] \in {"lock", "check", "call"}, InHand(v)',
                Above(f, n)', InOrder(s, Waiting(f, n)), pending'[v] = None
         PROVE  Collecting(v)'
    <2>1. Above(file[v], next[v])'
      BY <1>10 DEF Above
    <2>2. InOrder(s, Waiting(f, n))'
      BY <1>3, <1>10 DEF InOrder
    <2>3. InOrder(pendingBefore[v], Waiting(file[v], next[v]))'
      BY <1>10, <2>2 DEF InOrder
    <2>4. Gathered(v)'
      BY <1>10, <2>1, <2>3 DEF Gathered
    <2> QED
      BY <1>10, <2>4 DEF Collecting
  <1>11. ASSUME pc[v] \notin {"idle", "begin"}
         PROVE  file[v] \in Files /\ next[v] \in Nat /\ pendingBefore[v] \in Seq(Nat)
    BY <1>1, <1>11 DEF Placed, Busy
  <1>12. ASSUME pc[v] \notin {"idle", "begin"}, ~stopped
         PROVE  /\ Above(file[v], next[v]) /\ InOrder(pendingBefore[v], Waiting(file[v], next[v]))
                /\ pending[v] # None =>
                      /\ pending[v] \in Match
                      /\ Growing(pending[v], file[v], next[v]) /\ Above(file[v], pending[v].line)
                      /\ Len(pending[v].after) < after
                      /\ pc[v] \notin Delivering
                      /\ pc[v] = "finish" => next[v] > Len(lines[file[v]])
    BY <1>1, <1>4, <1>12 DEF Collecting, Gathered
  <1>13. \A k \in DOMAIN calls : calls[k].line \in Nat
    <2> SUFFICES ASSUME NEW k \in DOMAIN calls PROVE calls[k].line \in Nat
      OBVIOUS
    <2>1. calls[k] \in Match
      BY <1>1
    <2> QED
      BY <2>1 DEF Match
  <1>14. CASE Visit(v)
    <2>1. PICK f \in todo :
            IF stopped THEN quitting' = TRUE /\ UNCHANGED <<pc, file>>
            ELSE file' = [file EXCEPT ![v] = f] /\ Goto(v, "begin") /\ UNCHANGED quitting
      BY <1>14 DEF Visit
    <2>2. pc[v] = "idle" /\ calls' = calls
      BY <1>14 DEF Visit
    <2>3. CASE stopped
      BY <1>6, <2>1, <2>2, <2>3
    <2>4. CASE ~stopped
      <3>1. pc'[v] = "begin" /\ file'[v] = f
        BY <1>1, <2>1, <2>4
      <3>2. \A k \in DOMAIN calls : calls[k].file # f
        BY DEF CInv
      <3> QED
        BY <2>2, <3>1, <3>2 DEF Collecting
    <2> QED
      BY <2>3, <2>4
  <1>15. CASE Begin(v)
    <2>1. pc[v] = "begin" /\ calls' = calls /\ stopped' = stopped /\ file' = file
      BY <1>15 DEF Begin, walk
    <2>2. CASE stopped
      BY <1>1, <1>7, <1>15, <2>1, <2>2 DEF Begin
    <2>3. CASE ~stopped
      <3>1. pc'[v] = "scan" /\ next'[v] = 1 /\ pendingBefore'[v] = << >> /\ pending'[v] = None
        BY <1>1, <1>15, <2>3 DEF Begin, NoPending
      <3>2. PICK f : f = file[v] /\ f \in Files
        BY <2>1 DEF Placed, Busy
      <3>3. \A k \in DOMAIN calls : calls[k].file # f
        BY <1>4, <2>1, <3>2 DEF Collecting
      <3>4. Above(f, 1)'
        BY <2>1, <3>3 DEF Above
      <3>5. Waiting(f, 1) = {}
        <4>1. \A l \in LinesOf(f) : l \in Nat /\ l >= 1
          BY <3>2, Kinds
        <4> QED
          BY <4>1 DEF Waiting
      <3>6. InOrder(<< >>, Waiting(f, 1))
        BY <3>5 DEF InOrder
      <3> QED
        BY <1>8, <2>1, <3>1, <3>2, <3>4, <3>6
    <2> QED
      BY <2>2, <2>3
  <1>16. CASE SkipLine(v)
    <2>1. /\ pc[v] = "scan" /\ pc' = pc /\ calls' = calls /\ stopped' = stopped /\ file' = file
          /\ next'[v] = next[v] + 1 /\ UNCHANGED <<pendingBefore, pending>>
          /\ next[v] \in LinesOf(file[v]) /\ Kind(file[v], next[v]) = "none"
      BY <1>1, <1>16 DEF SkipLine, AtKind, NextIs, Advance, collector, walk, LinesOf
    <2>2. CASE stopped
      BY <1>7, <2>1, <2>2
    <2>3. CASE ~stopped
      <3>1. PICK f \in Files, n \in Nat, s \in Seq(Nat) : f = file[v] /\ n = next[v] /\ s = pendingBefore[v]
        BY <1>11, <2>1
      <3>2. pending[v] = None
        <4>1. ASSUME pending[v] # None PROVE FALSE
          <5>1. PICK m \in Match : m = pending[v] /\ Growing(m, f, n) /\ Len(m.after) < after
            BY <1>12, <2>1, <2>3, <3>1, <4>1
          <5> QED
            BY <2>1, <3>1, <5>1, GrowingHere
        <4> QED
          BY <4>1
      <3>3. Above(f, n) /\ InOrder(s, Waiting(f, n))
        BY <1>12, <2>1, <2>3, <3>1
      <3>4. Waiting(f, n + 1) = Waiting(f, n)
        <4>1. n \notin MatchesOf(f) /\ Kind(f, n) # "before"
          BY <2>1, <3>1, Kinds
        <4>2. Waiting(f, n + 1) = Waiting(f, n) \cup {l \in {n} : Kind(f, n) = "before"}
          BY <2>1, <3>1, <4>1, WaitingSkip
        <4> QED
          BY <4>1, <4>2
      <3>5. Above(f, n + 1)'
        <4> QED
          BY <1>13, <2>1, <3>3 DEF Above
      <3>6. pc'[v] = "scan" /\ file'[v] = f /\ next'[v] = n + 1 /\ pendingBefore'[v] = s /\ pending'[v] = None
        BY <2>1, <3>1, <3>2
      <3>7. PICK k : k = n + 1
        OBVIOUS
      <3> QED
        BY <1>8, <3>3, <3>4, <3>5, <3>6, <3>7
    <2> QED
      BY <2>2, <2>3
  <1>17. CASE AfterLine(v)
    <2>1. /\ pc[v] = "scan" /\ ~stopped /\ calls' = calls /\ stopped' = stopped /\ file' = file
          /\ next'[v] = next[v] + 1
          /\ next[v] \in LinesOf(file[v]) /\ Kind(file[v], next[v]) = "after"
      BY <1>1, <1>17 DEF AfterLine, AtKind, NextIs, Advance, walk, LinesOf
    <2>2. PICK f \in Files, n \in Nat, s \in Seq(Nat) : f = file[v] /\ n = next[v] /\ s = pendingBefore[v]
      BY <1>11, <2>1
    <2>3. Above(f, n) /\ InOrder(s, Waiting(f, n))
      BY <1>12, <2>1, <2>2
    <2>4. Waiting(f, n + 1) = Waiting(f, n)
      <3>1. n \notin MatchesOf(f) /\ Kind(f, n) # "before"
        BY <2>1, <2>2, Kinds
      <3>2. Waiting(f, n + 1) = Waiting(f, n) \cup {l \in {n} : Kind(f, n) = "before"}
        BY <2>1, <2>2, <3>1, WaitingSkip
      <3> QED
        BY <3>1, <3>2
    <2>5. Above(f, n + 1)'
      BY <1>13, <2>1, <2>3 DEF Above
    <2>6. PICK k \in Nat : k = n + 1
      OBVIOUS
    <2>7. file'[v] = f /\ next'[v] = k /\ Above(f, k)' /\ InOrder(s, Waiting(f, k))
      BY <2>1, <2>2, <2>3, <2>4, <2>5, <2>6
    <2>8. CASE pending[v] = None
      <3>1. pc'[v] = "scan" /\ pending'[v] = None /\ pendingBefore'[v] = s
        BY <1>17, <2>1, <2>2, <2>8 DEF AfterLine, collector
      <3> QED
        BY <1>8, <2>7, <3>1
    <2>9. CASE pending[v] # None
      <3>1. PICK m \in Match : /\ m = pending[v] /\ Growing(m, f, n) /\ Above(f, m.line) /\ Len(m.after) < after
        BY <1>12, <2>1, <2>2, <2>9
      <3>2. PICK e : e = [m EXCEPT !.after = Append(@, n)]
        OBVIOUS
      <3>3. e \in Match /\ Growing(e, f, k) /\ e.line = m.line /\ Len(e.after) = Len(m.after) + 1
        BY <2>1, <2>2, <2>6, <3>1, <3>2, OneMore, SMTT(30)
      <3>4. IF Len(e.after) = after
            THEN /\ Deliver(v, e, "scan") /\ pending' = [pending EXCEPT ![v] = None]
                 /\ UNCHANGED pendingBefore
            ELSE /\ pending' = [pending EXCEPT ![v] = e] /\ UNCHANGED <<pc, pendingBefore>>
        BY <1>17, <2>2, <2>9, <3>1, <3>2 DEF AfterLine, Enough
      <3>5. pendingBefore'[v] = s
        BY <2>2, <3>4
      <3>6. Above(f, m.line)' /\ Above(f, e.line)'
        BY <2>1, <3>1, <3>3 DEF Above
      <3>7. CASE Len(e.after) = after
        <4>1. pc'[v] = "lock" /\ match'[v] = e /\ pending'[v] = None
          BY <1>1, <3>4, <3>7 DEF Deliver
        <4>2. e.line \in Nat /\ e.file = f /\ e.line < k /\ Len(e.after) = k - 1 - e.line
          BY <3>3 DEF Growing, Match
        <4>3. k - 1 - e.line >= after
          BY <3>7, <4>2 DEF Types
        <4>4. Right(e)
          BY <3>3, <4>3, GrownRight
        <4>5. InHand(v)'
          BY <1>9, <2>7, <3>6, <4>1, <4>2, <4>4
        <4> QED
          BY <1>10, <2>7, <3>5, <4>1, <4>5
      <3>8. CASE Len(e.after) # after
        <4>1. pc'[v] = "scan" /\ pending'[v] = e
          BY <1>1, <2>1, <3>4, <3>8
        <4>2. Len(e.after) < after
          <5>1. Len(m.after) \in Nat /\ after \in Nat
            BY DEF Match, Types
          <5> QED
            BY <3>1, <3>3, <3>8, <5>1
        <4>3. "scan" \notin Delivering
          BY DEF Delivering
        <4> QED
          BY <1>8, <2>7, <3>3, <3>5, <3>6, <4>1, <4>2, <4>3
      <3> QED
        BY <3>7, <3>8
    <2> QED
      BY <2>8, <2>9
  \* A Match that is flushed is complete: a match follows it, or nothing.
  <1>18. ASSUME NEW l \in {"take", "finish"}, FlushPending(v, l), pending[v] # None, ~stopped,
                pc[v] \in {"scan", "take", "finish"}, UNCHANGED <<next, file, calls>>,
                next[v] \in MatchesOf(file[v]) \/ next[v] > Len(lines[file[v]])
         PROVE  Collecting(v)'
    <2>1. PICK f \in Files, n \in Nat, s \in Seq(Nat) : f = file[v] /\ n = next[v] /\ s = pendingBefore[v]
      BY <1>11, <1>18
    <2>2. Above(f, n) /\ InOrder(s, Waiting(f, n))
      BY <1>12, <1>18, <2>1
    <2>3. PICK m \in Match : m = pending[v] /\ Growing(m, f, n) /\ Above(f, m.line)
      BY <1>12, <1>18, <2>1
    <2>4. Right(m) /\ m.file = f /\ m.line < n
      BY <1>18, <2>1, <2>3, GrownRight DEF Growing
    <2>5. pc'[v] = "lock" /\ match'[v] = m /\ pending'[v] = None /\ pendingBefore'[v] = s
      BY <1>1, <1>18, <2>1, <2>3 DEF FlushPending, Deliver
    <2>6. Above(f, n)' /\ Above(f, m.line)'
      BY <1>18, <2>2, <2>3 DEF Above
    <2>7. file'[v] = f /\ next'[v] = n
      BY <1>18, <2>1
    <2>8. InHand(v)'
      BY <1>9, <2>4, <2>5, <2>6, <2>7
    <2> QED
      BY <1>10, <2>2, <2>5, <2>6, <2>7, <2>8
  <1>19. CASE BeforeLine(v)
    <2>1. /\ pc[v] \in {"scan", "take"} /\ calls' = calls /\ stopped' = stopped /\ file' = file
          /\ next[v] \in LinesOf(file[v]) /\ Kind(file[v], next[v]) = "before"
      BY <1>19 DEF BeforeLine, Enters, AtKind, NextIs, walk, LinesOf
    <2>2. CASE stopped
      <3>1. pc'[v] \in {"scan", "lock"}
        BY <1>1, <1>19 DEF BeforeLine, FlushPending, Deliver
      <3> QED
        BY <1>7, <2>1, <2>2, <3>1
    <2>3. CASE ~stopped
      <3>1. PICK f \in Files, n \in Nat, s \in Seq(Nat) : f = file[v] /\ n = next[v] /\ s = pendingBefore[v]
        BY <1>11, <2>1
      <3>2. pending[v] = None
        <4>1. ASSUME pending[v] # None PROVE FALSE
          <5>1. PICK m \in Match : m = pending[v] /\ Growing(m, f, n) /\ Len(m.after) < after
            BY <1>12, <2>1, <2>3, <3>1, <4>1
          <5> QED
            BY <2>1, <3>1, <5>1, GrowingHere
        <4> QED
          BY <4>1
      <3>3. Above(f, n) /\ InOrder(s, Waiting(f, n))
        BY <1>12, <2>1, <2>3, <3>1
      <3>4. PICK w : w = Waiting(f, n + 1)
        OBVIOUS
      <3>5. InOrder(Append(s, n), w)
        <4>1. n \notin MatchesOf(f)
          BY <2>1, <3>1, Kinds
        <4>2. w = Waiting(f, n) \cup {l \in {n} : Kind(f, n) = "before"}
          BY <2>1, <3>1, <3>4, <4>1, WaitingSkip
        <4>3. w = Waiting(f, n) \cup {n}
          BY <2>1, <3>1, <4>2
        <4>4. \A l \in Waiting(f, n) : l < n
          BY DEF Waiting
        <4> QED
          BY <3>3, <4>3, <4>4, OrderAppend
      <3>6. Newest(Append(s, n)) = Append(s, n)
        <4>1. Len(s) < before /\ Len(s) \in Nat /\ before \in Nat
          BY <2>1, <3>1, <3>3, WaitingFits DEF Types
        <4>2. Len(Append(s, n)) = Len(s) + 1
          BY AppendProperties
        <4>3. ~(Len(Append(s, n)) > before)
          BY <4>1, <4>2
        <4> QED
          BY <4>3 DEF Newest
      <3>7. Above(f, n + 1)'
        BY <1>13, <2>1, <3>3 DEF Above
      <3>8. /\ pc'[v] = "scan" /\ file'[v] = f /\ next'[v] = n + 1
            /\ pendingBefore'[v] = Append(s, n) /\ pending'[v] = None
        BY <1>1, <1>19, <2>1, <3>1, <3>2, <3>6 DEF BeforeLine, Advance
      <3>9. PICK k, t : k = n + 1 /\ t = Append(s, n)
        OBVIOUS
      <3> QED
        BY <1>8, <3>4, <3>5, <3>7, <3>8, <3>9
    <2> QED
      BY <2>2, <2>3
  <1>20. CASE MatchLine(v)
    <2>1. /\ pc[v] \in {"scan", "take"} /\ calls' = calls /\ stopped' = stopped /\ file' = file
          /\ next[v] \in LinesOf(file[v]) /\ Kind(file[v], next[v]) = "match"
      BY <1>20 DEF MatchLine, Enters, AtKind, NextIs, walk, LinesOf
    <2>2. CASE stopped
      <3>1. pc'[v] \in {"scan", "lock"}
        BY <1>1, <1>20 DEF MatchLine, FlushPending, Deliver
      <3> QED
        BY <1>7, <2>1, <2>2, <3>1
    <2>3. next[v] \in MatchesOf(file[v])
      <3>1. PICK f \in Files : f = file[v]
        BY <1>11, <2>1
      <3> QED
        BY <2>1, <3>1, Kinds
    <2>4. CASE ~stopped /\ pending[v] # None
      <3>1. FlushPending(v, "take") /\ UNCHANGED next
        BY <1>20, <2>4 DEF MatchLine
      <3> QED
        BY <1>18, <2>1, <2>3, <2>4, <3>1
    <2>5. CASE ~stopped /\ pending[v] = None
      <3>1. PICK f \in Files, n \in Nat, s \in Seq(Nat) : f = file[v] /\ n = next[v] /\ s = pendingBefore[v]
        BY <1>11, <2>1
      <3>2. Above(f, n) /\ InOrder(s, Waiting(f, n)) /\ n \in MatchesOf(f)
        BY <1>12, <2>1, <2>3, <2>5, <3>1
      <3>3. PICK m : m = [file |-> f, line |-> n, before |-> s, after |-> << >>]
        OBVIOUS
      <3>4. PICK k \in Nat : k = n + 1
        OBVIOUS
      <3>5. m \in Match /\ Growing(m, f, k) /\ InOrder(<< >>, Waiting(f, k))
        BY <3>2, <3>3, <3>4, NewRight
      <3>6. m.file = f /\ m.line = n /\ m.after = << >> /\ n < k
        BY <3>3, <3>4
      <3>7. Above(f, k)' /\ Above(f, m.line)'
        BY <1>13, <2>1, <3>2, <3>4, <3>6 DEF Above
      <3>8. /\ file'[v] = f /\ next'[v] = k /\ pendingBefore'[v] = << >>
            /\ IF after = 0 THEN Deliver(v, m, "scan") /\ UNCHANGED pending
               ELSE pending' = [pending EXCEPT ![v] = m] /\ pc' = [pc EXCEPT ![v] = "scan"]
        BY <1>1, <1>20, <2>1, <2>5, <3>1, <3>3, <3>4 DEF MatchLine, Advance, NewMatch, TakenBefore
      <3>9. CASE after = 0
        <4>1. pc'[v] = "lock" /\ match'[v] = m /\ pending'[v] = None
          BY <1>1, <2>5, <3>8, <3>9 DEF Deliver
        <4>2. k - 1 - m.line >= after
          BY <3>4, <3>6, <3>9
        <4>3. Right(m)
          BY <3>5, <4>2, GrownRight
        <4>4. InHand(v)'
          BY <1>9, <3>6, <3>7, <3>8, <4>1, <4>3
        <4> QED
          BY <1>10, <3>5, <3>7, <3>8, <4>1, <4>4
      <3>10. CASE after # 0
        <4>1. pc'[v] = "scan" /\ pending'[v] = m
          BY <1>1, <3>8, <3>10
        <4>2. Len(m.after) < after
          BY <3>6, <3>10 DEF Types
        <4>3. "scan" \notin Delivering
          BY DEF Delivering
        <4> QED
          BY <1>8, <3>5, <3>7, <3>8, <4>1, <4>2, <4>3
      <3> QED
        BY <3>9, <3>10
    <2> QED
      BY <2>2, <2>4, <2>5
  <1>21. CASE Decline(v)
    <2>1. stopped /\ stopped' = stopped /\ pc'[v] = "finish"
      BY <1>1, <1>21 DEF Decline
    <2> QED
      BY <1>7, <2>1
  <1>22. CASE EndOfFile(v)
    <2>1. /\ pc[v] = "scan" /\ pc'[v] = "finish" /\ next[v] > Len(lines[file[v]])
          /\ stopped' = stopped /\ calls' = calls /\ UNCHANGED <<file, next, pendingBefore, pending>>
      BY <1>1, <1>22 DEF EndOfFile, walk, collector
    <2>2. CASE stopped
      BY <1>7, <2>1, <2>2
    <2>3. CASE ~stopped
      <3>1. PICK f, n, s, m : f = file[v] /\ n = next[v] /\ s = pendingBefore[v] /\ m = pending[v]
        OBVIOUS
      <3>2. /\ Above(f, n) /\ InOrder(s, Waiting(f, n))
            /\ m # None => Growing(m, f, n) /\ Above(f, m.line) /\ Len(m.after) < after
        BY <1>12, <2>1, <2>3, <3>1
      <3>3. Above(f, n)' /\ (m # None => Above(f, m.line)')
        BY <2>1, <3>2 DEF Above
      <3>4. /\ file'[v] = f /\ next'[v] = n /\ pendingBefore'[v] = s /\ pending'[v] = m
            /\ n > Len(lines[f]) /\ "finish" \notin Delivering
        BY <2>1, <3>1 DEF Delivering
      <3> QED
        BY <1>8, <2>1, <3>2, <3>3, <3>4
    <2> QED
      BY <2>2, <2>3
  <1>23. CASE SearchFails(v)
    <2>1. pc'[v] = "idle"
      BY <1>1, <1>23 DEF SearchFails
    <2> QED
      BY <1>6, <2>1
  <1>24. CASE Finish(v)
    <2>1. pc[v] = "finish" /\ stopped' = stopped /\ UNCHANGED <<next, file, calls>>
      BY <1>24 DEF Finish, walk
    <2>2. CASE pending[v] = None
      <3>1. pc'[v] = "idle"
        BY <1>1, <1>24, <2>2 DEF Finish
      <3> QED
        BY <1>6, <3>1
    <2>3. CASE pending[v] # None
      <3>1. FlushPending(v, "finish")
        BY <1>24, <2>3 DEF Finish
      <3>2. CASE stopped
        <4>1. pc'[v] = "lock"
          BY <1>1, <3>1 DEF FlushPending, Deliver
        <4> QED
          BY <1>7, <2>1, <3>2, <4>1
      <3>3. CASE ~stopped
        <4>1. next[v] > Len(lines[file[v]])
          BY <1>12, <2>1, <2>3, <3>3
        <4> QED
          BY <1>18, <2>1, <2>3, <3>1, <3>3, <4>1
      <3> QED
        BY <3>2, <3>3
    <2> QED
      BY <2>2, <2>3
  <1>25. CASE DeliverStep(v)
    <2>1. /\ pc[v] \in Delivering /\ UNCHANGED <<file, next, pendingBefore, pending>>
          /\ pc'[v] \notin {"idle", "begin", "lock"}
      BY <1>1, <1>25 DEF DeliverStep, Lock, CheckContext, Call, Unlock, Store, Back, walk, collector, Delivering
    <2>2. PICK f, n, s, m : f = file[v] /\ n = next[v] /\ s = pendingBefore[v] /\ m = match[v]
      OBVIOUS
    <2>3. ASSUME ~stopped PROVE Above(f, n) /\ InOrder(s, Waiting(f, n)) /\ pending[v] = None
      BY <1>12, <2>1, <2>2, <2>3 DEF Delivering
    <2>4. ASSUME pc[v] \in {"check", "call"} \/ (pc[v] = "lock" /\ ~stopped)
          PROVE  Right(m) /\ m.file = f /\ m.line < n /\ Above(f, m.line)
      BY <1>4, <2>2, <2>4 DEF Collecting, InHand
    \* A step that goes on to fn with the Match.
    <2>5. ASSUME pc'[v] \in {"check", "call"}, pc[v] \in {"check", "call"} \/ (pc[v] = "lock" /\ ~stopped),
                 calls' = calls, match' = match, stopped' = stopped
          PROVE  Collecting(v)'
      <3>1. file'[v] = f /\ next'[v] = n /\ match'[v] = m /\ pendingBefore'[v] = s
        BY <2>1, <2>2, <2>5
      <3>2. Right(m) /\ m.file = f /\ m.line < n /\ Above(f, m.line)
        BY <2>4, <2>5
      <3>3. Above(f, m.line)'
        BY <2>5, <3>2 DEF Above
      <3>4. InHand(v)'
        BY <1>9, <2>5, <3>1, <3>2, <3>3
      <3>5. CASE stopped
        BY <2>5, <3>4, <3>5 DEF Collecting
      <3>6. CASE ~stopped
        <4>1. Above(f, n) /\ InOrder(s, Waiting(f, n)) /\ pending[v] = None
          BY <2>3, <3>6
        <4>2. Above(f, n)' /\ pending'[v] = None
          BY <2>1, <2>5, <4>1 DEF Above
        <4> QED
          BY <1>10, <2>5, <3>1, <3>4, <4>1, <4>2
      <3> QED
        BY <3>5, <3>6
    \* And one that is on its way back.
    <2>6. ASSUME ~stopped, Above(f, n)', pc'[v] \in {"unlock", "store", "back", "scan", "take", "finish"}
          PROVE  Collecting(v)'
      <3>1. InOrder(s, Waiting(f, n)) /\ pending'[v] = None
        BY <2>1, <2>3, <2>6
      <3>2. file'[v] = f /\ next'[v] = n /\ pendingBefore'[v] = s
        BY <2>1, <2>2
      <3> QED
        BY <1>8, <2>6, <3>1, <3>2
    <2>7. ASSUME calls' = calls, pc'[v] \in {"unlock", "store", "back", "scan", "take", "finish"}
          PROVE  Collecting(v)'
      <3>1. CASE stopped
        BY <1>7, <2>7, <3>1
      <3>2. CASE ~stopped
        <4>1. Above(f, n)
          BY <2>3, <3>2
        <4>2. Above(f, n)'
          BY <2>7, <4>1 DEF Above
        <4> QED
          BY <2>6, <2>7, <3>2, <4>2
      <3> QED
        BY <3>1, <3>2
    <2>8. CASE Lock(v)
      <3>1. pc[v] = "lock" /\ pc'[v] = (IF stopped THEN "unlock" ELSE "check") /\ UNCHANGED <<calls, match, stopped>>
        BY <1>1, <2>8 DEF Lock
      <3> QED
        BY <2>5, <2>7, <3>1
    <2>9. CASE CheckContext(v)
      <3>1. pc[v] = "check" /\ pc'[v] \in {"unlock", "call"} /\ UNCHANGED <<calls, match, stopped>>
        BY <1>1, <2>9 DEF CheckContext
      <3> QED
        BY <2>5, <2>7, <3>1
    <2>10. CASE Call(v)
      <3>1. pc[v] = "call" /\ pc'[v] = "unlock" /\ stopped' = stopped /\ calls' = Append(calls, m)
        BY <1>1, <2>2, <2>10 DEF Call
      <3>2. CASE stopped
        BY <1>7, <3>1, <3>2
      <3>3. CASE ~stopped
        <4>1. Above(f, n) /\ m.line < n
          BY <2>3, <2>4, <3>1, <3>3
        <4>2. m \in Match
          BY <2>2, <3>1 DEF Placed, Types
        <4>3. Above(f, n)'
          BY <3>1, <4>1, <4>2, AboveStays
        <4> QED
          BY <2>6, <3>1, <3>3, <4>3
      <3> QED
        BY <3>2, <3>3
    <2>11. CASE Unlock(v) \/ Store(v)
      <3>1. pc'[v] \in {"store", "back"} /\ calls' = calls
        BY <1>1, <2>11 DEF Unlock, Store
      <3> QED
        BY <2>7, <3>1
    <2>12. CASE Back(v)
      <3>1. pc'[v] \in {"scan", "take", "finish"} /\ calls' = calls
        BY <1>1, <2>12 DEF Back
      <3> QED
        BY <2>7, <3>1
    <2> QED
      BY <1>25, <2>8, <2>9, <2>10, <2>11, <2>12 DEF DeliverStep
  <1> QED
    BY <1>5, <1>14, <1>15, <1>16, <1>17, <1>19, <1>20, <1>21, <1>22, <1>23, <1>24, <1>25 DEF VisitorStep

\* Steps outside the visitors leave the collectors and fn's Matches.
LEMMA StepCInv ==
    ASSUME FInv, CInv, [HNext]_<<vars, history>>
    PROVE  CInv'
  <1>1. ASSUME UNCHANGED Search, stopped => stopped' PROVE CInv'
    <2>1. UNCHANGED input /\ UNCHANGED <<pc, file, next, pendingBefore, pending, match, calls, todo>>
      BY <1>1 DEF Search, input, walk, collector
    <2>2. /\ \A m : Right(m)' <=> Right(m)
          /\ \A f, n : Waiting(f, n)' = Waiting(f, n)
          /\ \A m, f, n : Growing(m, f, n)' <=> Growing(m, f, n)
      BY <2>1, SameContext
    <2>3. \A f, i : Above(f, i)' <=> Above(f, i)
      BY <2>1 DEF Above
    <2>4. ASSUME NEW v \in Visitors, Collecting(v) PROVE Collecting(v)'
      <3>1. InHand(v) => InHand(v)'
        BY <2>1, <2>2, <2>3 DEF InHand, Above, Right
      <3>2. PICK f, n, s, m : f = file[v] /\ n = next[v] /\ s = pendingBefore[v] /\ m = pending[v]
        OBVIOUS
      <3>3. ASSUME Gathered(v) PROVE Gathered(v)'
        <4>1. /\ Above(f, n) /\ InOrder(s, Waiting(f, n))
              /\ m # None => /\ Growing(m, f, n) /\ Above(f, m.line) /\ Len(m.after) < after
                             /\ pc[v] \notin Delivering /\ (pc[v] = "finish" => n > Len(lines[f]))
          BY <3>2, <3>3 DEF Gathered
        <4>2. Above(f, n)' /\ (m # None => Above(f, m.line)')
          BY <2>1, <4>1 DEF Above
        <4>3. Waiting(f, n)' = Waiting(f, n) /\ (Growing(m, f, n)' <=> Growing(m, f, n))
          BY <2>2
        <4>4. /\ file'[v] = f /\ next'[v] = n /\ pendingBefore'[v] = s /\ pending'[v] = m
              /\ pc' = pc /\ lines' = lines /\ after' = after
          BY <2>1, <3>2 DEF input
        <4> QED
          BY <4>1, <4>2, <4>3, <4>4 DEF Gathered
      <3> QED
        BY <1>1, <2>1, <2>4, <3>1, <3>3 DEF Collecting
    <2> QED
      BY <2>1, <2>2, <2>4 DEF CInv, input
  <1>2. ASSUME NEW v \in Visitors, VisitorStep(v) PROVE CInv'
    <2>1. Types /\ Placed /\ UNCHANGED input
      BY <1>2, Separate DEF FInv
    <2>2. stopped => stopped'
      BY <1>2, <2>1, Moves DEF DeliverStep, Lock, CheckContext, Call, Unlock, Store, Back
    <2>3. verb' = verb
      BY <2>1 DEF input
    <2>4. ASSUME verb = "stream", NEW u \in Visitors PROVE Collecting(u)'
      BY <1>2, <2>1, <2>2, <2>4, OwnCollects, OthersCollect
    <2>5. /\ verb' # "stream" => calls' = << >>
          /\ \A k \in DOMAIN calls' : \A m \in {calls'[k]} : m.file \notin todo' /\ Right(m)'
          /\ \A k \in DOMAIN calls' : \A j \in 1 .. k - 1 :
                calls'[j].file = calls'[k].file => calls'[j].line < calls'[k].line
      BY <1>2, <2>1, StepCalls
    <2> QED
      BY <2>3, <2>4, <2>5 DEF CInv
  <1>3. CASE Start \/ Cancel \/ Watch \/ Return \/ Conclude \/ Done \/ UNCHANGED <<vars, history>>
    <2>1. UNCHANGED Search
      BY <1>3 DEF Start, Cancel, Watch, Return, Conclude, Done, vars, Search, delivery, input, walk, collector
    <2>2. stopped => stopped'
      BY <1>3 DEF Start, Cancel, Watch, Return, Conclude, Done, vars
    <2> QED
      BY <1>1, <2>1, <2>2
  <1> QED
    BY <1>2, <1>3 DEF HNext, Next

LEMMA InitCInv ==
    ASSUME HInit
    PROVE  CInv
  <1>1. /\ calls = << >> /\ DOMAIN calls = {} /\ \A v \in Visitors : pc[v] = "idle"
    BY DEF HInit, Init
  <1> QED
    BY <1>1 DEF CInv, Collecting

-----------------------------------------------------------------------------
(* The theorems.                                                           *)

\* Whatever the files, the goroutines, the order of their steps and the answers of fn: FInv
\* holds in every state of a verb.
THEOREM FacadeInductive == HSpec => []FInv
  <1>1. HInit => FInv
    BY InitFInv
  <1>2. FInv /\ [HNext]_<<vars, history>> => FInv'
    BY StepFInv
  <1> QED
    BY <1>1, <1>2, PTL DEF HSpec

\* SearchContext that returns anything but the error of a cancellation has called fn for every
\* match of every file it was handed by the walk and could read, unless fn itself said stop.
\* With one goroutine that is every file.
THEOREM SearchComplete == HSpec => []Complete
  <1>1. FInv => Complete
    BY DEF FInv, Settled, Complete, Called
  <1> QED
    BY <1>1, FacadeInductive, PTL

\* A collecting verb that returns a result returns exactly what the files hold that the walk
\* handed out (with one goroutine: all) and that could be read, and never the part of one that
\* a cancellation left.
THEOREM VerbsExact == HSpec => []VerbsRight
  <1>1. FInv => VerbsRight
    BY DEF FInv, Settled, VerbsRight
  <1> QED
    BY <1>1, FacadeInductive, PTL

\* Every Match that fn gets has the whole context of its own line and nothing else, whatever
\* matchCollector was left with before, and the Matches of a file come in the order of its
\* lines: a search that was stopped with half a Match in its collector does not deliver it.
THEOREM ContextOfEvery == HSpec => []ContextRight
  <1>1. HInit => FInv /\ CInv
    BY InitFInv, InitCInv
  <1>2. FInv /\ CInv /\ [HNext]_<<vars, history>> => FInv' /\ CInv'
    BY StepFInv, StepCInv
  <1>3. CInv => ContextRight
    BY DEF CInv, ContextRight, Right
  <1> QED
    BY <1>1, <1>2, <1>3, PTL DEF HSpec

\* After fn cancelled its own context, matchCollector.deliver calls it no more, although other
\* goroutines may stand before the lock with a Match in hand.
THEOREM NeverCalledAgain == HSpec => ZeroAfterSelfCancel
  <1>1. FInv /\ [HNext]_<<vars, history>> => [selfCancelled => UNCHANGED calls]_<<vars, history>>
    <2> SUFFICES ASSUME FInv, HNext, selfCancelled PROVE calls' = calls
      BY DEF vars, history
    <2>1. \A v \in Visitors : pc[v] # "call"
      BY DEF FInv, Serialized
    <2>2. ASSUME NEW v \in Visitors, VisitorStep(v) PROVE calls' = calls
      <3>1. CASE DeliverStep(v)
        BY <2>1, <3>1 DEF DeliverStep, Lock, CheckContext, Call, Unlock, Store, Back
      <3>2. CASE ~DeliverStep(v)
        BY <2>2, <3>2, Moves DEF FInv
      <3> QED
        BY <3>1, <3>2
    <2>3. Start \/ Cancel \/ Watch \/ Return \/ Conclude \/ Done => calls' = calls
      BY DEF Start, Cancel, Watch, Return, Conclude, Done, vars
    <2> QED
      BY <2>2, <2>3 DEF HNext, Next
  <1> QED
    BY <1>1, FacadeInductive, PTL DEF HSpec, ZeroAfterSelfCancel
=============================================================================
