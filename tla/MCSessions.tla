------------------------------ MODULE MCSessions ------------------------------
(***************************************************************************)
(* Small instances of Sessions for TLC.                                    *)
(***************************************************************************)
EXTENDS Sessions, TLC

CONSTANTS s1, s2, s3, c1, c2

TwoSessions == {s1, s2}
ThreeSessions == {s1, s2, s3}
TwoContainers == {c1, c2}
OneContainer == {c1}
NoContainers == {}

\* Two configurations that tell apart what the end of a session does.
UserProfile == [runLevel |-> "User", keepOnExit |-> FALSE]
KeptProfile == [runLevel |-> "User", keepOnExit |-> TRUE]
ForeverProfile == [runLevel |-> "Forever", keepOnExit |-> FALSE]
UserProfiles == {UserProfile, KeptProfile}
AllProfiles == {UserProfile, KeptProfile, ForeverProfile}

NoCalls == {}
\* Every call but the one whose errors are dropped (connection.go:182).
AnyCallButQuery == CallNames \ {"query"}
\* The calls whose failure changes how a session ends.
EndingCalls == {"start", "stop", "remove"}

SessionSymmetry == Permutations(Sessions)
ContainerSymmetry == Permutations(Sessions) \cup Permutations(Containers)

===============================================================================
