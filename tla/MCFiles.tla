------------------------------- MODULE MCFiles -------------------------------
(* A tree in which "a" is a directory and "a.t" a file next to it; three    *)
(* kinds of root; a directory on another device; a link.                   *)
EXTENDS FilesModeProps, TLC

TreeEntry == {"r", "s", "m", "a", "b", "x", "f", "g", "h", "l"}
TreeKind == [e \in TreeEntry |->
    CASE e \in {"s", "f", "g", "h", "l"} -> "file" [] e = "m" -> "invalid" [] OTHER -> "dir"]
TreeListing == [e \in TreeEntry |->
    CASE e = "r" -> <<"f", "a", "g", "x">> [] e = "a" -> <<"b", "h", "l">> [] OTHER -> << >>]
TreeRoots == <<"s", "r", "m">>

\* f is "a.t", a is "a", the rest single letters; '.' is 46 and sorts before '/'.
TreeName == [e \in TreeEntry |->
    CASE e = "f" -> <<97, 46, 116>> [] e = "a" -> <<97>> [] e = "b" -> <<98>>
      [] e = "g" -> <<65>> [] e = "h" -> <<104>> [] e = "l" -> <<108>> [] e = "x" -> <<120>>
      [] e = "r" -> <<114>> [] e = "s" -> <<115>> [] OTHER -> <<109>>]

\* comparePath, component by component, over all paths of up to four bytes.
Components(p) ==
    LET ends == SelectSeq([k \in 1 .. Len(p) + 1 |-> k], LAMBDA k : k > Len(p) \/ p[k] = Slash)
        from(k) == IF k = 1 THEN 1 ELSE ends[k - 1] + 1
    IN  [k \in DOMAIN ends |-> SubSeq(p, from(k), ends[k] - 1)]
ByComponents(s, t) == Lexical(Components(s), Components(t), CompareBytes)

Paths == UNION {[1 .. n -> {46, Slash, 97}] : n \in 0 .. 4}
ASSUME ComponentsAssumption ==
    \A s, t \in Paths : /\ ByComponents(s, t) < 0 <=> ComparePath(s, t) < 0
                        /\ ByComponents(s, t) = 0 <=> ComparePath(s, t) = 0
=============================================================================
