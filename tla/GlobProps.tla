------------------------------ MODULE GlobProps ------------------------------
(***************************************************************************)
(* What a gitignore pattern means, read off its text: no tokens, no        *)
(* classes, no regexps.                                                    *)
(***************************************************************************)
EXTENDS Glob

\* The pieces of s between the separators c.
SplitAt(s, c) ==
    LET order == <<0>> \o Upward(Positions(s, c), Len(s)) \o <<Len(s) + 1>>
    IN  [k \in 1 .. Len(order) - 1 |-> SubSeq(s, order[k] + 1, order[k + 1] - 1)]

\* The "]" that closes a class opened at position 1: the first that is not its first member.
Closers(s) ==
    LET first == IF At(s, 2) \in {"!", "^"} THEN 4 ELSE 3
    IN  {k \in first .. Len(s) : s[k] = "]"}

\* The members of a class, written as characters and ranges.
Members(s) ==
    LET dash == {k \in 2 .. Len(s) - 1 : s[k] = "-"}
    IN  UNION {Between(s[k - 1], s[k + 1]) : k \in dash}
        \cup {s[k] : k \in DOMAIN s \ dash}

\* A path matches a pattern.  start: the pattern's next character begins a component of it, where
\* "**" stands for any number of components (at the end for one at least).  "*" and "?" keep
\* to one component of the path; a class does not, its members and those it leaves out may be "/".
RECURSIVE Wild(_, _, _)
Wild(p, s, start) ==
    LET rest(n, k, fresh) == Wild(Drop(p, n), Drop(s, k), fresh)
        one(ok, n, fresh) == s # << >> /\ ok /\ rest(n, 1, fresh)
    IN  CASE p = << >> -> s = << >>
          [] start /\ p = <<"*", "*">> -> s # << >>
          [] start /\ StartsWith(p, <<"*", "*", "/">>) -> \E k \in {0} \cup Positions(s, "/") : rest(3, k, TRUE)
          [] At(p, 1) = "*" /\ ~(start /\ (p = <<"*", "*">> \/ StartsWith(p, <<"*", "*", "/">>))) ->
                 \E k \in 0 .. Len(s) : "/" \notin ToSet(SubSeq(s, 1, k)) /\ rest(1, k, FALSE)
          [] At(p, 1) = "?" -> one(s[1] # "/", 1, FALSE)
          [] At(p, 1) = "\\" -> one(s[1] = p[2], 2, p[2] = "/")
          [] At(p, 1) = "[" /\ Closers(p) # {} ->
                 LET k == Min(Closers(p))
                     no == p[2] \in {"!", "^"}
                 IN  one((s[1] \in Members(SubSeq(p, IF no THEN 3 ELSE 2, k - 1))) # no, k, FALSE)
          [] At(p, 1) = "{" ->
                 LET k == Min(Positions(p, "}"))
                     ways == {w \in ToSet(SplitAt(SubSeq(p, 2, k - 1), ",")) : w # << >>}
                 IN  IF ways = {} THEN rest(k, 0, start)
                     ELSE \E w \in ways : Wild(w \o Drop(p, k), s, start)
          [] OTHER -> one(s[1] = p[1], 1, p[1] = "/")

\* A separator at the beginning or in the middle anchors a line to its directory.
LineMatches(line, ci, path, isDir) ==
    LET s == Strip(line)
        b == IF ci THEN FoldText(s.body) ELSE s.body
        f == IF ci THEN FoldText(path) ELSE path
        anchored == s.absolute \/ Positions(b, "/") # {}
    IN  /\ s.dir => isDir
        /\ b # << >> /\ line[1] # "#"
        /\ Wild(IF anchored THEN b ELSE <<"*", "*", "/">> \o b, f, TRUE)

\* Of the lines that match a path the last one decides.
LastHit(lines, hits) ==
    IF hits = {} THEN "NoMatch" ELSE IF lines[Max(hits)].text[1] = "!" THEN "Whitelisted" ELSE "Ignored"
GitVerdict(lines, path, isDir) ==
    LastHit(lines, {k \in DOMAIN lines : LineMatches(lines[k].text, lines[k].ci, path, isDir)})
=============================================================================
