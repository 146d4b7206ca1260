----------------------------- MODULE MCReconfigure -----------------------------
(* Values of Reconfigure's constants for TLC. *)
EXTENDS Reconfigure, TLC

CONSTANTS r1, r2

Profile(mode, configurable, keep) ==
    [networkMode |-> mode, configurable |-> configurable, runLevel |-> "User",
     keepOnExit |-> keep]

SomeProfiles == {Profile("Host", TRUE, FALSE), Profile("Docker", FALSE, TRUE)}
HostProfile == {Profile("Host", TRUE, FALSE)}

SomeBodies ==
    {<< >>, [networkMode |-> "Docker"], [networkMode |-> "Isolate"],
     [networkMode |-> "Host", configurable |-> TRUE], [configurable |-> FALSE],
     [keepOnExit |-> TRUE], [keepOnExit |-> FALSE, runLevel |-> "Forever"],
     [networkMode |-> "Off"], [networkMode |-> "None"], [runLevel |-> "Invalid"]}
PlainBodies == {[keepOnExit |-> TRUE], [runLevel |-> "Forever"], [networkMode |-> "Docker"]}

StoreFails == {"store"}
AllCalls == {"start", "stop", "remove", "delete", "connect", "inspect", "copy", "exec",
             "store"}
Interchangeable == Permutations(Requests)
===============================================================================
