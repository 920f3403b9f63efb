--------------------------- MODULE FilesModeProps ---------------------------
(***************************************************************************)
(* What gg --files promises.                                               *)
(***************************************************************************)
EXTENDS FilesMode, SortedWalkProps

\* A path sent on the channel is never lost, doubled or moved, though it is written
\* later, with others, by another goroutine: when gg exits every one is out.  And the
\* exit code tells the truth about the listing: 0 without -q means that every root
\* and every directory was read, so nothing is missing; 1 that there was nothing.
PathsAllWritten ==
    /\ Printing => written \o buf \o channel = EntriesOf(got)
    /\ exit # None /\ Printing => written = EntriesOf(got)
    /\ exit # None /\ obliging /\ ~quiet /\ exit < 2 =>
          /\ \A e \in Entry : visits[e] > 0 /\ Kind[e] = "dir" => reads[e] > 0 \/ e \in Foreign
          /\ \A e \in RootSet : Kind[e] # "invalid"
          /\ ToSet(written) = {e \in Entry : visits[e] > 0 /\ IsFile(e)}
          /\ exit = 1 <=> written = << >>
=============================================================================
