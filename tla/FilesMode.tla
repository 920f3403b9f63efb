------------------------------ MODULE FilesMode ------------------------------
(***************************************************************************)
(* gg --files: the walk's Visitor sends every file on a bounded channel,   *)
(* and printer.PathPrinter's goroutine writes them out in batches; at the  *)
(* end the channel is closed, the printer waited for, and the exit code    *)
(* made of what the walk met.  A Visitor that is not obliging belongs to   *)
(* some other caller of the walk, which has no printer.                    *)
(***************************************************************************)
EXTENDS SortedWalk

CONSTANT PathBatch   \* the channel's size, and the most paths of one write

ASSUME PathBatchAssumption == PathBatch \in Nat \ {0}

VARIABLES
    quiet,      \* -q: no PathPrinter at all
    channel, closed,
    buf,     \* PathPrinter.run's buf
    printer,    \* its goroutine: "reading", or "done" once it closed done
    written,    \* what reached the output
    exit        \* the exit code, None before

output == <<channel, closed, buf, printer, written>>
filesVars == <<walkVars, quiet, output, exit>>

Printing == obliging /\ ~quiet

FilesInit ==
    /\ WalkInit
    /\ quiet \in BOOLEAN /\ (quiet => obliging)
    /\ channel = << >> /\ closed = FALSE /\ buf = << >>
    /\ printer = "reading" /\ written = << >> /\ exit = None

\* The visitor waits while the channel is full.
Send ==
    \/ /\ got' = got \/ ~Printing
       /\ UNCHANGED channel
    \/ /\ got' # got /\ Printing
       /\ Len(channel) < PathBatch
       /\ channel' = Append(channel, Last(got').entry)

Walking ==
    /\ WalkStep
    /\ Send
    /\ UNCHANGED <<quiet, closed, buf, printer, written, exit>>

\* range p.paths: a batch is written when it has enough paths, or enough bytes.
WritePath ==
    /\ Printing /\ printer = "reading" /\ channel # << >>
    /\ channel' = Tail(channel)
    /\ LET next == Append(buf, Head(channel)) IN
       \/ written' = written \o next /\ buf' = << >>
       \/ Len(next) < PathBatch /\ buf' = next /\ UNCHANGED written
    /\ UNCHANGED <<walkVars, quiet, closed, printer, exit>>

DropBatch ==   \* mutant: the last batch is not written
    /\ Printing /\ printer = "reading" /\ channel = << >> /\ closed
    /\ printer' = "done" /\ buf' = << >>
    /\ UNCHANGED <<walkVars, quiet, channel, closed, written, exit>>

\* The channel is closed and drained: what is left is written, then done closed.
Drained ==
    /\ Printing /\ printer = "reading" /\ channel = << >> /\ closed
    /\ written' = written \o buf /\ buf' = << >>
    /\ printer' = "done"
    /\ UNCHANGED <<walkVars, quiet, channel, closed, exit>>

\* engine.Files has returned.
Close ==
    /\ phase = "over" /\ Printing /\ ~closed
    /\ closed' = TRUE
    /\ UNCHANGED <<walkVars, quiet, channel, buf, printer, written, exit>>

ExitCode ==
    LET matched == got # << >> IN
    CASE quiet /\ matched -> 0
      [] errors > 0 /\ ~(quiet /\ matched) -> 2
      [] matched /\ ~quiet /\ errors = 0 -> 0
      [] OTHER -> 1

\* After Wait has returned.
Exit ==
    /\ phase = "over" /\ exit = None
    /\ Printing => closed /\ printer = "done"
    /\ exit' = ExitCode
    /\ UNCHANGED <<walkVars, quiet, output>>

Finished == exit # None /\ UNCHANGED filesVars

FilesNext == Walking \/ WritePath \/ Drained \/ Close \/ Exit \/ Finished

FilesSpec == FilesInit /\ [][FilesNext]_filesVars
=============================================================================
