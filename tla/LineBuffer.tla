------------------------------ MODULE LineBuffer ------------------------------
(***************************************************************************)
(* The rolling read buffer of Search, search/linebuffer.go, driven by the  *)
(* loop of Search: consume what need not be kept, fill until a line is     *)
(* complete, scan.  The buffer is modelled byte by byte, because what      *)
(* could go wrong is where a read ends: inside a line, at a full buffer,   *)
(* at a NUL.  A reader may return any number of bytes, with or without     *)
(* its end or an error, and even nothing at all.  Offsets count from 0.    *)
(*                                                                         *)
(* "nl" is the line terminator; --null-data, which swaps it with NUL and   *)
(* switches binary detection off, is the mode "none" with the names        *)
(* exchanged.                                                              *)
(***************************************************************************)
EXTENDS Integers, FiniteSets, FiniteSetsExt

CONSTANTS
    MaxBytes,      \* bound on the file
    Capacity,      \* DefaultBufferSize
    Keep           \* rollConsume keeps at most this many lines (see Searcher)

ASSUME CapacityAssumption == Capacity \in Nat \ {0}
ASSUME BoundsAssumption == MaxBytes \in Nat /\ Keep \in Nat

Byte == {"text", "nl", "nul"}
Modes == {"none", "quit", "convert"}   \* BinaryMode
None == -1

VARIABLES
    size, file, mode,    \* the input, file \in [0 .. size - 1 -> Byte], and BinaryMode
    buf, capacity,       \* lb.buf and its length
    pos, last, end,      \* complete lines are buf[pos .. last - 1], data ends at end
    absoluteOffset,      \* file offset of pos
    binaryOffset,        \* the first NUL's offset, None until it is detected
    taken,               \* bytes the reader has handed out
    ended,               \* it has returned io.EOF, or nothing
    consumed, oldLen,    \* Search's locals
    pc                   \* where Search and fill are

inputs == <<size, file, mode>>
bounds == <<pos, last, end>>
reader == <<taken, ended>>
turn   == <<consumed, oldLen>>
vars == <<inputs, buf, capacity, bounds, absoluteOffset, binaryOffset, reader, turn, pc>>

\* newLineBuffer and reset.
Init ==
    /\ size \in 0 .. MaxBytes
    /\ file \in [0 .. size - 1 -> Byte]
    /\ mode \in Modes
    /\ buf = [i \in 0 .. Capacity - 1 |-> "nul"]
    /\ capacity = Capacity
    /\ pos = 0 /\ last = 0 /\ end = 0
    /\ absoluteOffset = 0
    /\ binaryOffset = None
    /\ taken = 0 /\ ended = FALSE
    /\ consumed = 0 /\ oldLen = 0
    /\ pc = "consume"

-----------------------------------------------------------------------------
(* Search's loop around fill.                                              *)

\* The starts of lines in the buffer, and its end.
LineStarts == {i \in pos .. last : i \in {pos, last} \/ buf[i - 1] = "nl"}

\* rollConsume keeps whole lines, at most Keep of them.
KeptFrom(i) == {j \in LineStarts : i <= j /\ j < last}

Consume ==
    /\ pc = "consume"
    /\ \E i \in LineStarts :
        /\ Cardinality(KeptFrom(i)) <= Keep
        /\ pos' = i
        /\ absoluteOffset' = absoluteOffset + (i - pos)
        /\ consumed' = i - pos
    /\ oldLen' = last - pos
    /\ pc' = "fill"
    /\ UNCHANGED <<inputs, buf, capacity, last, end, binaryOffset, reader>>

FilledOn ==   \* mutant: without the test for progress
    /\ pc = "filled"
    /\ pc' = (IF last = pos THEN "done" ELSE "scan")
    /\ UNCHANGED <<inputs, buf, capacity, bounds, absoluteOffset, binaryOffset, reader, turn>>

\* After fill: the end of the data, no progress, or a window to scan.
Filled ==
    /\ pc = "filled"
    /\ \/ last = pos /\ pc' = "done" /\ UNCHANGED <<pos, absoluteOffset>>
       \/ /\ last > pos /\ consumed = 0 /\ oldLen = last - pos
          /\ pos' = pos + oldLen
          /\ absoluteOffset' = absoluteOffset + oldLen
          /\ pc' = "done"
       \/ /\ last > pos /\ ~(consumed = 0 /\ oldLen = last - pos)
          /\ pc' = "scan" /\ UNCHANGED <<pos, absoluteOffset>>
    /\ UNCHANGED <<inputs, buf, capacity, last, end, binaryOffset, reader, turn>>

\* matchByLine; on scanStop Search consumes up to s.pos and stops reading.
Scan ==
    /\ pc = "scan"
    /\ \/ pc' = "consume" /\ UNCHANGED <<pos, absoluteOffset>>
       \/ \E i \in LineStarts :
            /\ pos' = i /\ absoluteOffset' = absoluteOffset + (i - pos)
            /\ pc' = "stopped"
    /\ UNCHANGED <<inputs, buf, capacity, last, end, binaryOffset, reader, turn>>

-----------------------------------------------------------------------------
(* fill.                                                                   *)

\* Once binary data ended the search nothing is read any more.
Quitting == mode = "quit" /\ binaryOffset # None

FillAfterQuit ==
    /\ pc = "fill" /\ Quitting
    /\ pc' = "filled"
    /\ UNCHANGED <<inputs, buf, capacity, bounds, absoluteOffset, binaryOffset, reader, turn>>

RolledShort == IF end = pos THEN 0 ELSE last - pos   \* mutant: drops the partial line

\* What roll keeps: complete lines and the partial one behind them.
Rolled == end - pos

\* Until the loop finds out otherwise everything counts as complete lines.
RolledLast == Rolled

\* roll moves what is left to the front.
Roll ==
    /\ pc = "fill" /\ ~Quitting
    /\ buf' = [i \in 0 .. capacity - 1 |-> IF i < Rolled THEN buf[pos + i] ELSE buf[i]]
    /\ pos' = 0
    /\ last' = RolledLast
    /\ end' = Rolled
    /\ pc' = "read"
    /\ UNCHANGED <<inputs, capacity, absoluteOffset, binaryOffset, reader, turn>>

GrownAlways == 2 * capacity   \* mutant

\* ensureCapacity doubles a full buffer.
Grown == IF end < capacity THEN capacity ELSE 2 * capacity

\* replaceNULInPlace.
Converted(b) == IF mode = "convert" /\ b = "nul" THEN "nl" ELSE b

\* The chunk that Read(freeBuffer()) delivers, n bytes of it.
Chunk(n) == taken .. taken + n - 1
NulsIn(n) == {i \in Chunk(n) : file[i] = "nul"}
NewlinesIn(n) == {i \in Chunk(n) : Converted(file[i]) = "nl"}

\* Where byte i of the file lies in the buffer.
InBuffer(i) == end + (i - taken)

\* Complete lines end past the last line terminator of the chunk.
WindowEnd(n) == InBuffer(Max(NewlinesIn(n))) + 1

\* The first NUL's offset, found in the chunk unless one was found before.
Detected(n) ==
    IF mode = "none" \/ binaryOffset # None \/ NulsIn(n) = {} THEN binaryOffset
    ELSE absoluteOffset + InBuffer(Min(NulsIn(n)))

QuitNever(n) == FALSE   \* mutant

\* Binary data under quit: the whole chunk is dropped, what was there is searched.
QuitOn(n) == mode = "quit" /\ NulsIn(n) # {}

LastStays(n) == last   \* mutant: the last line needs a terminator

\* At the end of the data the rest is a line, terminated or not.
LastAtEnd(n) == end + n

\* What fill makes of a Read that returns n bytes and err: nil, io.EOF or another error.
\* A reader that returns nothing is taken to have ended.
ReadChunk(n, err) ==
    /\ pc = "read"
    /\ capacity' = Grown
    /\ n <= Grown - end
    /\ err = "eof" => taken + n = size
    /\ taken' = taken + n
    /\ ended' = (err = "eof" \/ (n = 0 /\ err = "nil"))
    /\ binaryOffset' = Detected(n)
    /\ buf' = [i \in 0 .. Grown - 1 |->
                IF i \in end .. end + n - 1 THEN Converted(file[taken + (i - end)])
                ELSE IF i < capacity THEN buf[i] ELSE "nul"]
    /\ IF QuitOn(n) THEN end' = end /\ last' = end /\ pc' = "filled"
       ELSE /\ end' = end + n
            /\ IF NewlinesIn(n) # {}
               THEN last' = WindowEnd(n) /\ pc' = "filled"
               ELSE IF err = "error" THEN pc' = "failed" /\ UNCHANGED last
               ELSE IF err = "eof" \/ n = 0 THEN last' = LastAtEnd(n) /\ pc' = "filled"
               ELSE pc' = "read" /\ UNCHANGED last
    /\ UNCHANGED <<inputs, pos, absoluteOffset, turn>>

\* One Read of any reader.
Read == \E n \in 0 .. size - taken, err \in {"nil", "eof", "error"} : ReadChunk(n, err)

Step == Consume \/ Filled \/ Scan \/ FillAfterQuit \/ Roll \/ Read

Returned == pc \in {"done", "stopped", "failed"} /\ UNCHANGED vars

Next == Step \/ Returned

\* The search is one sequential call.
Spec == Init /\ [][Next]_vars /\ WF_vars(Step)

-----------------------------------------------------------------------------
(* Properties.                                                             *)

Detecting == mode # "none"
Nuls == {i \in 0 .. taken - 1 : file[i] = "nul"}

\* Type invariant: the bounds of the buffer are in order, always.
TypeOK ==
    /\ size \in Nat /\ file \in [0 .. size - 1 -> Byte] /\ mode \in Modes
    /\ capacity \in Nat \ {0} /\ buf \in [0 .. capacity - 1 -> Byte]
    /\ pos \in Nat /\ last \in pos .. end /\ end \in Nat /\ end <= capacity
    /\ absoluteOffset \in Nat /\ taken \in 0 .. size /\ ended \in BOOLEAN
    /\ binaryOffset \in {None} \cup Nat
    /\ consumed \in Nat /\ oldLen \in Nat
    /\ pc \in {"consume", "fill", "read", "filled", "scan", "done", "stopped", "failed"}

\* What the buffer holds is the file at absoluteOffset, with NULs turned into line
\* ends under convert; without binary data nothing that was read gets lost.
Faithful ==
    /\ \A i \in pos .. end - 1 :
        /\ absoluteOffset + (i - pos) < taken
        /\ buf[i] = Converted(file[absoluteOffset + (i - pos)])
    /\ ~Quitting => absoluteOffset + (end - pos) = taken

\* The offset of the first NUL is exact whatever the buffer did in between, and
\* under quit no window contains anything from the chunk it came in.
BinaryExact ==
    /\ binaryOffset = None <=> (~Detecting \/ Nuls = {})
    /\ binaryOffset # None => binaryOffset = Min(Nuls)
    /\ Quitting => absoluteOffset + (end - pos) <= binaryOffset

\* A window ends with a line terminator, except at the end of the data.
WindowsComplete ==
    pc = "scan" => \/ buf[last - 1] = "nl"
                   \/ last = end /\ (Quitting \/ ended)

\* When the loop ends by itself, all that was read has been searched.
AllSearched == pc = "done" /\ ~Quitting => absoluteOffset = taken

\* The buffer only grows for long lines: twice what Keep + 1 lines may take.
LongestLine ==
    LET lengths == {n \in 0 .. size : \E i \in 0 .. size - n :
                        \A j \in i .. i + n - 2 : Converted(file[j]) # "nl"}
    IN Max(lengths)
BufferBounded == capacity <= Capacity \/ capacity <= 2 * (Keep + 1) * LongestLine

\* Search always ends.
Terminates == <>(pc \in {"done", "stopped", "failed"})
=============================================================================
