----------------------------- MODULE MCExitAfter -----------------------------
(***************************************************************************)
(* Small instances of ExitAfter for TLC.                                   *)
(***************************************************************************)
EXTENDS ExitAfter

CONSTANTS job, task

\* Stopped by the last session and kept, with nothing to wait for yet; left alone and not
\* kept, with a process to wait for.
Levels ==
    {[runLevel |-> "User", keepOnExit |-> TRUE, exitAfter |-> None],
     [runLevel |-> "Forever", keepOnExit |-> FALSE, exitAfter |-> job]}

\* A process to wait for, the first or in place of another, and a container that is kept;
\* nothing to wait for, and a container that the last session removes.
Reconfigured ==
    {[runLevel |-> "Container", keepOnExit |-> TRUE, exitAfter |-> task],
     [runLevel |-> "User", keepOnExit |-> FALSE, exitAfter |-> None]}

\* An id that passes the filter, and one that becomes 1, the main process.
AllPids == {12, 10}

\* An id of which the filter leaves nothing.
LostPids == {12, 90}
Jobs ==
    {[runLevel |-> "Container", keepOnExit |-> TRUE, exitAfter |-> job]}
==============================================================================
