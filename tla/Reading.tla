------------------------------- MODULE Reading -------------------------------
(***************************************************************************)
(* What a file's bytes pass on their way to Search: rawFile, which calls   *)
(* read(2) and takes a short read of a walked file for its end, and        *)
(* bomReader, which drops a byte order mark inside the first Read          *)
(* (src/internal/engine).  They stand in the place of the reader that      *)
(* LineBuffer leaves open; as Search is exported, that one stays too.      *)
(*                                                                         *)
(* file is what Search is to see.  On disk the mark precedes it, if it is  *)
(* all there; else the file may begin with a part of one.  A buffer has    *)
(* room for the mark, so prefixReader is never needed.                     *)
(***************************************************************************)
EXTENDS LineBuffer

ASSUME RoomForMark == Capacity >= 3

VARIABLES
    source,     \* "any" reader, a file "walked" to, or an "explicit" argument, perhaps a pipe
    mark,       \* how many bytes of a mark the disk begins with
    offset,     \* the descriptor's
    eofHint,    \* rawFile.eofHint
    broken,     \* a read(2) has failed, and will again
    stage,      \* where bomReader's Read is
    got, gerr,  \* finishBOMCheck's bytes and error
    chunk       \* what Read returns: n bytes of the disk from an offset, and an error

disk    == <<source, mark>>
rawFile == <<offset, eofHint, broken>>
check   == <<got, gerr>>
readingVars == <<vars, disk, rawFile, stage, check, chunk>>

Skipped == IF mark = 3 THEN 3 ELSE 0
DiskSize == Skipped + size
NoChunk == [from |-> 0, n |-> 0, err |-> "nil"]

ReadingInit ==
    /\ Init
    /\ source \in {"any", "walked", "explicit"} /\ mark \in 0 .. 3
    /\ source = "any" => mark = 0
    /\ mark < 3 => mark <= size /\ \A i \in 0 .. mark - 1 : file[i] = "text"
    /\ offset = 0 /\ eofHint = FALSE /\ broken = FALSE
    /\ stage = "first" /\ got = 0 /\ gerr = "nil" /\ chunk = NoChunk

-----------------------------------------------------------------------------
(* rawFile.Read.                                                           *)

\* A regular file gives as much as fits, a pipe some of it.
Transfers(len) ==
    LET most == Min({len, DiskSize - offset})
    IN  IF source = "walked" THEN {most} ELSE 1 .. most

HintAlways(n, len) == n < len   \* mutant: without disableEOFHint
ArmsHint(n, len) == n < len /\ source = "walked"

\* Reading up to len bytes may return n of them and err.  A read(2) that fails returns -1.
RawRead(len, n, err) ==
    \/ /\ eofHint /\ n = 0 /\ err = "eof"
       /\ eofHint' = FALSE /\ UNCHANGED <<offset, broken>>
    \/ /\ ~eofHint /\ n = -1 /\ err = "error"
       /\ broken' = TRUE /\ UNCHANGED <<offset, eofHint>>
    \/ /\ ~eofHint /\ ~broken /\ offset = DiskSize /\ n = 0 /\ err = "eof"
       /\ UNCHANGED rawFile
    \/ /\ ~eofHint /\ ~broken /\ offset < DiskSize /\ n \in Transfers(len) /\ err = "nil"
       /\ offset' = offset + n /\ eofHint' = ArmsHint(n, len) /\ UNCHANGED broken
Results(len) == (-1 .. len) \X {"nil", "eof", "error"}

-----------------------------------------------------------------------------
(* bomReader.Read.                                                         *)

Free == Grown - end

Return(from, n, err) ==
    /\ chunk' = [from |-> from, n |-> Max({n, 0}), err |-> err]
    /\ stage' = "ready"

\* The first Read, into the caller's buffer.  If it fails at once, b[:n] with n = -1 panics.
FirstRead ==
    /\ pc = "read" /\ stage = "first"
    /\ \E r \in Results(Free) :
        /\ RawRead(Free, r[1], r[2])
        /\ CASE r[1] < 0 -> pc' = "failed" /\ UNCHANGED <<stage, check, chunk>>
             [] r[1] \in 0 .. 2 -> stage' = "gather" /\ got' = r[1] /\ gerr' = r[2] /\ UNCHANGED <<pc, chunk>>
             [] r[1] = 3 /\ mark = 3 -> stage' = "again" /\ UNCHANGED <<pc, check, chunk>>
             [] OTHER -> Return(Skipped, r[1] - Skipped, r[2]) /\ UNCHANGED <<pc, check>>
    /\ UNCHANGED <<inputs, buf, capacity, bounds, absoluteOffset, binaryOffset, reader, turn, disk>>

\* finishBOMCheck: three bytes, unless the end or an error comes first.
Gather ==
    /\ stage = "gather" /\ got < 3 /\ gerr = "nil"
    /\ \E r \in Results(3 - got) :
        /\ RawRead(3 - got, r[1], r[2])
        /\ got' = got + r[1] /\ gerr' = r[2]
    /\ UNCHANGED <<vars, disk, stage, chunk>>

Gathered ==
    LET n == IF got = 3 /\ mark = 3 THEN 0 ELSE got
    IN  /\ stage = "gather" /\ (got = 3 \/ gerr # "nil")
        /\ IF n = 0 /\ gerr = "nil" THEN stage' = "again" /\ UNCHANGED chunk
           ELSE Return(0, n, gerr)
        /\ UNCHANGED <<vars, disk, rawFile, check>>

\* A Read passed on: behind a mark that was all there was, and once the check is done.
PassedOn ==
    /\ pc = "read" /\ stage \in {"again", "done"}
    /\ \E r \in Results(Free) : RawRead(Free, r[1], r[2]) /\ Return(offset, r[1], r[2])
    /\ UNCHANGED <<vars, disk, check>>

\* If an error cuts the mark, fill is given the beginning of it, which ends no line, and fails.
CutMark == chunk.from < Skipped
Receive ==
    /\ pc = "read" /\ stage = "ready"
    /\ ReadChunk(IF CutMark THEN 0 ELSE chunk.n, chunk.err)
    /\ stage' = "done" /\ chunk' = NoChunk
    /\ UNCHANGED <<disk, rawFile, check>>

ReadFile == source # "any" /\ (FirstRead \/ Gather \/ Gathered \/ PassedOn \/ Receive)
ReadAny == source = "any" /\ Read /\ UNCHANGED <<disk, rawFile, stage, check, chunk>>

ReadingStep ==
    \/ ReadFile
    \/ ReadAny
    \/ (Consume \/ Filled \/ Scan \/ FillAfterQuit \/ Roll) /\ UNCHANGED <<disk, rawFile, stage, check, chunk>>
ReadingNext == ReadingStep \/ (Returned /\ UNCHANGED readingVars)
ReadingSpec == ReadingInit /\ [][ReadingNext]_readingVars /\ WF_readingVars(ReadingStep)

-----------------------------------------------------------------------------
(* Properties.                                                             *)

\* Search reads the file without its mark and nothing else, however the mark is cut: every Read returns
\* the next bytes, an end only behind the last one, and never nothing; but for a mark an error cuts.
\* A chunk ends where read(2) ended, and that of a walked file is short only at its end or by the
\* mark, since a NUL discards the chunk it is in.
StreamExact ==
    stage = "ready" =>
        /\ chunk.n <= Free
        /\ chunk.n > 0 /\ (chunk.err = "error" => ~CutMark) => chunk.from = Skipped + taken
        /\ chunk.err = "eof" => taken + chunk.n = size
        /\ chunk.err = "nil" => chunk.n > 0 /\ chunk.from + chunk.n = offset
        /\ source = "walked" /\ chunk.err = "nil" =>
            \/ chunk.n = Free \/ offset = DiskSize
            \/ taken = 0 /\ mark = 3 /\ chunk.n = Free - 3
=============================================================================
