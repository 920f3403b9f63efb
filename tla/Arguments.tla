------------------------------ MODULE Arguments ------------------------------
(***************************************************************************)
(* What one argument does: a flag applied to the Config, a long flag with  *)
(* its value, a cluster of short ones, and what is left to settle when     *)
(* every argument has been seen.                                           *)
(***************************************************************************)
EXTENDS Flags

Digit == [d \in {"0", "1", "2", "3", "4", "5", "6", "7", "8", "9"} |->
             CHOOSE n \in 0 .. 9 : ToString(n) = d]
Digits(v) == \A k \in DOMAIN v : v[k] \in DOMAIN Digit
Number(v) == FoldLeft(LAMBDA n, d : 10 * n + Digit[d], 0, v)

\* strconv.ParseUint: digits, at least one, and within the unsigned range.
IsUint(v) == v # << >> /\ Digits(v) /\ Number(v) <= MaxUint
IsNonNegInt(v) == IsUint(v) /\ Number(v) <= MaxInt
ToSigned(n) == IF n > MaxInt THEN n - (MaxUint + 1) ELSE n

\* parseHumanSize: digits, then at most one of the suffixes.
Suffix == <<"K">> :> Kilo @@ <<"M">> :> Kilo * Kilo @@ <<"G">> :> Kilo * Kilo * Kilo @@ << >> :> 1
SizeDigits(v) == Max({k \in 0 .. Len(v) : Digits(SubSeq(v, 1, k))})
IsSize(v) ==
    LET end == SizeDigits(v)
        n == Number(SubSeq(v, 1, end))
        suffix == SubSeq(v, end + 1, Len(v))
    IN  /\ end > 0 /\ n <= MaxUint /\ suffix \in DOMAIN Suffix
        /\ Suffix[suffix] # 1 => n <= MaxUint \div Suffix[suffix]
SizeOf(v) ==
    LET end == SizeDigits(v)
    IN  ToSigned((Number(SubSeq(v, 1, end)) * Suffix[SubSeq(v, end + 1, Len(v))]) % (MaxUint + 1))

SortKinds == {"none", "path", "modified", "accessed", "created"}
Colors == {"never", "auto", "always", "ansi"}
Choice(v, choices) == Len(v) = 1 /\ v[1] \in choices

-----------------------------------------------------------------------------

\* mutant: the first -u sets its level and no more
UnrestrictLate(p) ==
    LET n == p.uLevel + 1
        q == With([p EXCEPT !.uLevel = n], [Unrestricted |-> n])
    IN  CASE n = 1 -> q
          [] n = 2 -> With(q, IgnoreAll(TRUE) @@ [Hidden |-> TRUE])
          [] n = 3 -> With(q, [Binary |-> "suppress"])
          [] OTHER -> Failed(p)

\* -u, and what each repetition adds.
Unrestrict(p) ==
    LET n == p.uLevel + 1
        q == With([p EXCEPT !.uLevel = n], [Unrestricted |-> n])
    IN  CASE n = 1 -> With(q, IgnoreAll(TRUE))
          [] n = 2 -> With(q, [Hidden |-> TRUE])
          [] n = 3 -> With(q, [Binary |-> "suppress"])
          [] OTHER -> Failed(p)

PassThru(p) == [p EXCEPT !.passthru = TRUE, !.before = << >>, !.after = << >>, !.both = << >>]

\* -A, -B or -C: it clears the other two only if it revokes --passthru.
Context(p, field, n) ==
    [(IF p.passthru THEN [p EXCEPT !.before = << >>, !.after = << >>, !.both = << >>] ELSE p)
        EXCEPT !.passthru = FALSE, ![field] = <<n>>]

ApplySwitch(p, entry) ==
    CASE entry.spec.read = "unrestricted" -> Unrestrict(p)
      [] entry.spec.read = "passthru" -> PassThru(p)
      [] OTHER -> With(p, IF entry.negate THEN entry.spec.off ELSE entry.spec.on)

ApplyValue(p, spec, v) ==
    LET field == spec.field
        sort(reverse) == [Sort |-> [kind |-> v[1], reverse |-> reverse]]
        added == Append(p.cfg.TypeChanges, [kind |-> field, arg |-> v])
        when(ok, q) == IF ok THEN q ELSE Failed(p)
    IN  CASE spec.read = "pattern" ->
                 With([p EXCEPT !.sawPattern = TRUE], field :> Append(p.cfg[field], v))
          [] spec.read = "list"      -> With(p, field :> Append(p.cfg[field], v))
          [] spec.read = "type"      -> With(p, [TypeChanges |-> added])
          [] spec.read = "number"    -> when(IsNonNegInt(v), With(p, field :> Number(v)))
          [] spec.read = "pointer"   -> when(IsNonNegInt(v), With(p, field :> <<Number(v)>>))
          [] spec.read = "context"   -> when(IsNonNegInt(v), Context(p, field, Number(v)))
          [] spec.read = "size"      -> when(IsSize(v), With(p, field :> SizeOf(v)))
          [] spec.read = "color"     -> when(Choice(v, Colors), With(p, field :> v[1]))
          [] spec.read = "sort"      -> when(Choice(v, SortKinds), With(p, sort(FALSE)))
          [] spec.read = "sortr"     -> when(Choice(v, SortKinds), With(p, sort(TRUE)))
          [] spec.read = "separator" -> With(p, field :> "custom")

\* A value flag takes the rest of its argument, or else the next one.
TakeValue(p, spec, here, next) ==
    CASE here # << >> -> ApplyValue(p, spec, here[1])
      [] here = << >> /\ next = << >> -> Failed(p)
      [] OTHER -> [ApplyValue(p, spec, next[1]) EXCEPT !.extra = 1]

\* "--name", "--name=value" or "--name value".
parseLongFlag(p, arg, next) ==
    LET name == IF Len(arg) > 1 THEN arg[2] ELSE ""
        inline == IF Len(arg) > 2 THEN <<SubSeq(arg, 4, Len(arg))>> ELSE << >>
        entry == longIndex[name]
    IN  IF name \in NotImplementedLong \/ name \notin DOMAIN longIndex THEN Failed(p)
        ELSE CASE entry.spec.kind = "switch" -> IF inline # << >> THEN Failed(p) ELSE ApplySwitch(p, entry)
               [] entry.spec.kind = "value" /\ entry.negate ->
                      IF inline # << >> THEN Failed(p) ELSE With(p, entry.spec.field :> "disabled")
               [] OTHER -> TakeValue(p, entry.spec, inline, next)

\* "-xyz": switches, the last letter or the rest of the cluster perhaps a value flag's.
RECURSIVE parseShortCluster(_, _, _)
parseShortCluster(p, body, next) ==
    IF p.failed \/ body = << >> THEN p
    ELSE LET c == Head(body)
             rest == Tail(body)
             spec == shortIndex[c]
         IN  IF c \in NotImplementedShort \/ c \notin DOMAIN shortIndex THEN Failed(p)
             ELSE IF spec.kind = "switch"
                  THEN parseShortCluster(ApplySwitch(p, [spec |-> spec, negate |-> FALSE]), rest, next)
                  ELSE TakeValue(p, spec, IF rest = << >> THEN << >> ELSE <<rest>>, next)

-----------------------------------------------------------------------------

resolveContext(p) ==
    LET side(own) == IF own # << >> THEN own[1] ELSE IF p.both # << >> THEN p.both[1] ELSE 0
    IN  [ContextBefore |-> side(p.before), ContextAfter |-> side(p.after)]

\* The end of ParseArgs: which positional is the pattern, and the context.
Resolve(p) ==
    LET n == Len(p.positionals)
        paths == [Paths |-> p.positionals]
        first == [Patterns |-> SubSeq(p.positionals, 1, 1), Paths |-> SubSeq(p.positionals, 2, n)]
        context == IF p.passthru THEN [PassThru |-> TRUE] ELSE resolveContext(p)
        pathsOnly == p.cfg.Mode \in {"files", "types"} \/ p.sawPattern
    IN  CASE p.cfg.Help \/ p.cfg.Version -> p
          [] pathsOnly /\ ~(p.cfg.Help \/ p.cfg.Version) -> With(p, paths @@ context)
          [] OTHER -> IF n = 0 THEN Failed(p) ELSE With(p, first @@ context)
=============================================================================
