------------------------------ MODULE ExitAfter ------------------------------
(***************************************************************************)
(* The goroutines a container object starts: the exit-after listener of    *)
(* setExitAfterListener, which stops the container when the process that   *)
(* the configuration names has ended, and the two copy goroutines of       *)
(* Terminal.  Around them: the sessions that log in to one container,      *)
(* Start and Stop, and requests that change its configuration.             *)
(*                                                                         *)
(* A listener belongs to the object and, through its context, to the       *)
(* session that started the container; one that a request sets has a       *)
(* context of its own.  Cancelling a context makes the next exec fail; an  *)
(* exec that is attached goes on until its command ends.                   *)
(*                                                                         *)
(* Left to other modules: races on the registry and on the count of        *)
(* terminals, crashes and the shutdown (Sessions), and the steps inside    *)
(* Start and UpdateConfig (Reconfigure), each one step here.               *)
(***************************************************************************)
EXTENDS Integers, FiniteSets

CONSTANTS
    Sessions,       \* runs of connection(), and so the objects they may make
    Listeners,      \* the listeners that may be set
    Processes,      \* the process names a configuration may hold
    Pids,           \* the process ids the container may give
    Profiles,       \* the configurations the container may be created with
    Changes,        \* those a request may give it
    None,           \* no process, listener, object or row
    MaxRequests,    \* bound: how many requests change the configuration
    MaxFaults       \* bound: how many calls to docker fail

RunLevels == {"User", "Container", "Forever"}
Config == [runLevel : RunLevels, keepOnExit : BOOLEAN, exitAfter : Processes \cup {None}]

ASSUME NoneIsNothing == None \notin Sessions \cup Listeners \cup Processes \cup Config
\* The main process of a container has id 1.
ASSUME PidsAreNatural == Pids \subseteq Nat \ {0, 1}
ASSUME ProfilesAreConfigs == Profiles \cup Changes \subseteq Config
ASSUME BoundsAreNatural == MaxRequests \in Nat /\ MaxFaults \in Nat

VARIABLES
    docker,         \* docker's state of the container
    process,        \* the id of each process that runs in it, or 0
    settings,       \* its settings row, or None
    registered,     \* its object in the registry, or None
    config, started, cancel,    \* the fields of each object; cancel is a listener
    pc, object, runLevel,       \* where each session is, its object, the level it copied
    left,           \* the sessions whose client has left
    stream,         \* the sessions whose exec stream is open
    listener,       \* where each listener is, and what it was given
    reason,         \* history: the listeners whose process has ended, whose run of the
                    \* container is over, or that read no process id or a wrong one
    requests, faults

objectVars == <<registered, config, started, cancel>>
sessionVars == <<pc, object, runLevel, left>>
dockerVars == <<docker, process, settings, stream, reason>>
vars == <<dockerVars, objectVars, sessionVars, listener, requests, faults>>

\* Where a goroutine that calls Stop can be; "failed" is an error returned.
StopLabels == {"stop", "remove", "stopped", "failed"}
Unset == [at |-> "unset", object |-> None, process |-> None, level |-> None,
          context |-> None, cancelled |-> FALSE, pid |-> 0]

Goto(s, label) == pc' = [pc EXCEPT ![s] = label]
Move(l, label) == listener' = [listener EXCEPT ![l].at = label]

CallWorks == UNCHANGED faults
CallFails == faults < MaxFaults /\ faults' = faults + 1
Errs(refused) == (refused /\ CallWorks) \/ CallFails

\* The sessions in Terminal on object o, between terminalCount++ and terminalCount--.
Attached(o) == {s \in Sessions : pc[s] = "attached" /\ object[s] = o}

\* The context of a listener is done: cancelled, or its session's, which has returned.
Cancelled(l) ==
    \/ listener[l].cancelled
    \/ \E s \in Sessions : listener[l].context = s /\ pc[s] = "over"

\* The listeners that have not seen the end yet.
Listening == {l \in Listeners : listener[l].at \in {"find", "exec", "tail"}}
\* Those that wait for a process of the present run.
Waiting == {l \in Listeners : listener[l].at \in {"exec", "tail"}}

-------------------------------------------------------------------------------
(* setExitAfterListener *)

FreeListener == CHOOSE l \in Listeners : listener[l].at = "unset"

New(o, conf, session) ==
    [at |-> "find", object |-> o, process |-> conf.exitAfter, level |-> conf.runLevel,
     context |-> session, cancelled |-> FALSE, pid |-> 0]

\* Mutant of SetListener: the new cancel function is not stored.
SetUnstored(o, conf, session) ==
    /\ \E l \in Listeners : listener[l].at = "unset"
    /\ listener' = IF conf.exitAfter = None THEN listener
                   ELSE [listener EXCEPT ![FreeListener] = New(o, conf, session)]
    /\ UNCHANGED cancel

\* The listener before it is cancelled; no process, no new one.
SetListener(o, conf, session) ==
    LET others == [l \in Listeners |->
                     IF l = cancel[o] THEN [listener[l] EXCEPT !.cancelled = TRUE] ELSE listener[l]]
    IN  \/ /\ conf.exitAfter = None
           /\ listener' = others /\ UNCHANGED cancel
        \/ /\ conf.exitAfter # None
           /\ \E l \in Listeners : listener[l].at = "unset"
           /\ listener' = [others EXCEPT ![FreeListener] = New(o, conf, session)]
           /\ cancel' = [cancel EXCEPT ![o] = FreeListener]

\* Only the digits 1 to 8 of a number pass the filter; of 90 nothing is left.
Filtered[n \in Nat] ==
    IF n = 0 THEN 0
    ELSE IF n % 10 \in 1..8 THEN 10 * Filtered[n \div 10] + (n % 10)
    ELSE Filtered[n \div 10]

\* Mutant of Find: pidof is asked only once.
FindOnce(l) ==
    /\ listener[l].at = "find"
    /\ LET id == process[listener[l].process]
       IN  /\ listener' = [listener EXCEPT ![l].at = IF id = 0 THEN "over" ELSE "exec",
                                             ![l].pid = Filtered[id]]
           /\ reason' = IF Filtered[id] = id THEN reason ELSE reason \cup {l}
    /\ UNCHANGED <<docker, process, settings, stream, objectVars, sessionVars, requests, faults>>

\* Mutant of Find: the bytes pidof returns are not filtered.
FindRaw(l) ==
    /\ listener[l].at = "find" /\ process[listener[l].process] # 0
    /\ listener' = [listener EXCEPT ![l].at = "exec", ![l].pid = process[listener[l].process]]
    /\ UNCHANGED <<dockerVars, objectVars, sessionVars, requests, faults>>

\* pidof, again and again until it finds the process or the exec fails.
Find(l) ==
    /\ listener[l].at = "find"
    /\ \/ /\ docker = "running" /\ ~Cancelled(l) /\ CallWorks
          /\ process[listener[l].process] # 0
          /\ LET id == process[listener[l].process]
             IN  /\ listener' = [listener EXCEPT ![l].at = "exec", ![l].pid = Filtered[id]]
                 /\ reason' = IF Filtered[id] = id THEN reason ELSE reason \cup {l}
       \/ /\ Errs(docker # "running" \/ Cancelled(l))
          /\ Move(l, "exec")
          /\ reason' = reason \cup {l}
    /\ UNCHANGED <<docker, process, settings, stream, objectVars, sessionVars, requests>>

\* Mutant of Expire: the run level is taken the wrong way round.
ExpireForever(l) == Move(l, IF listener[l].level = "Forever" THEN "stop" ELSE "over")

\* What a listener does when its wait is over.
Expire(l) == Move(l, IF listener[l].level # "Forever" THEN "stop" ELSE "over")

\* Mutant of Exec: an exec that fails is taken for a process that has ended.
ExecOrStop(l) ==
    /\ listener[l].at = "exec"
    /\ \/ docker = "running" /\ ~Cancelled(l) /\ CallWorks /\ Move(l, "tail")
       \/ Errs(docker # "running" \/ Cancelled(l)) /\ Expire(l)
    /\ UNCHANGED <<dockerVars, objectVars, sessionVars, requests>>

\* tail --pid: attached, or failed; a failure counts as the end if it was cancelled.
Exec(l) ==
    /\ listener[l].at = "exec"
    /\ \/ docker = "running" /\ ~Cancelled(l) /\ CallWorks /\ Move(l, "tail")
       \/ /\ Errs(docker # "running" \/ Cancelled(l))
          /\ IF Cancelled(l) THEN Expire(l) ELSE Move(l, "over")
    /\ UNCHANGED <<dockerVars, objectVars, sessionVars, requests>>

Alive(id) == id = 1 \/ (id # 0 /\ \E p \in Processes : process[p] = id)

\* Mutant of TailEnds: the end of the exec itself is not noticed.
TailEndsWithProcess(l) ==
    /\ listener[l].at = "tail" /\ ~Alive(listener[l].pid)
    /\ Expire(l)
    /\ UNCHANGED <<dockerVars, objectVars, sessionVars, requests, faults>>

\* tail ends: no such process, no process id at all, or its container has stopped.
TailEnds(l) ==
    /\ listener[l].at = "cut" \/ (listener[l].at = "tail" /\ ~Alive(listener[l].pid))
    /\ Expire(l)
    /\ UNCHANGED <<dockerVars, objectVars, sessionVars, requests, faults>>

-------------------------------------------------------------------------------
(* Stop, one call to docker or the database a step; next is where it leads *)

\* A container that stops ends its processes and every exec in it.
Halted ==
    /\ docker' = "stopped"
    /\ process' = [p \in Processes |-> 0]
    /\ stream' = {}
    /\ reason' = reason \cup Waiting
CutTails(listeners) ==
    [l \in Listeners |-> IF listeners[l].at = "tail" THEN [listeners[l] EXCEPT !.at = "cut"]
                                                     ELSE listeners[l]]

HaltStep(o, next) ==
    \/ /\ docker # "removed" /\ CallWorks
       /\ IF docker = "running" THEN Halted ELSE UNCHANGED <<docker, process, stream, reason>>
       /\ next = IF config[o].keepOnExit THEN "stopped" ELSE "remove"
    \/ /\ Errs(docker = "removed") /\ next = "failed"
       /\ UNCHANGED <<docker, process, stream, reason>>

\* The removal, and what Database.Delete leaves of the rows.
RemoveStep(next) ==
    \/ /\ docker # "removed" /\ CallWorks /\ next = "stopped"
       /\ process' = [p \in Processes |-> 0] /\ stream' = {}
       /\ docker' = "removed" /\ reason' = reason \cup Waiting /\ settings' = None
    \/ /\ Errs(docker = "removed") /\ next = "failed"
       /\ UNCHANGED <<docker, process, settings, stream, reason>>

StopStep(o, at, next) ==
    \/ at = "stop" /\ HaltStep(o, next) /\ UNCHANGED settings
    \/ at = "remove" /\ RemoveStep(next)

\* The listeners after a step that may have stopped the container.
Cut(listeners) == IF docker = "running" /\ docker' # "running" THEN CutTails(listeners) ELSE listeners

\* The listener drops the error of Stop and leaves the registry alone.
ListenerStop(l) ==
    /\ \E next \in StopLabels :
          /\ StopStep(listener[l].object, listener[l].at, next)
          /\ listener' = Cut([listener EXCEPT ![l].at =
                                 IF next \in {"stopped", "failed"} THEN "over" ELSE next])
    /\ UNCHANGED <<objectVars, sessionVars, requests>>

ListenerStep(l) == Find(l) \/ Exec(l) \/ TailEnds(l) \/ ListenerStop(l)

-------------------------------------------------------------------------------
(* connection *)

\* getContainer: the object of the registry, or a new one with the configuration of
\* the settings row; the first login brings a profile and writes the row.
Login(s) ==
    /\ pc[s] = "idle" /\ docker # "removed"
    /\ \/ /\ registered # None
          /\ object' = [object EXCEPT ![s] = registered]
          /\ UNCHANGED <<docker, settings, registered, config>>
       \/ /\ registered = None
          /\ object' = [object EXCEPT ![s] = s] /\ registered' = s
          /\ \E row \in IF docker = "absent" THEN Profiles ELSE {settings} \ {None} :
                config' = [config EXCEPT ![s] = row] /\ settings' = row
          /\ docker' = IF docker = "absent" THEN "stopped" ELSE docker
    /\ Goto(s, "enter")
    /\ UNCHANGED <<process, stream, reason, started, cancel, runLevel, left,
                   listener, requests, faults>>

Copied(s) ==
    /\ runLevel' = [runLevel EXCEPT ![s] = config[object[s]].runLevel]
    /\ Goto(s, "open")

\* Running is asked; an object's first Start sets the listener, with the context of
\* the session.  A call of updateConfig may fail before that.
Enter(s) ==
    /\ pc[s] = "enter"
    /\ \/ /\ docker = "running" /\ CallWorks /\ Copied(s)
          /\ UNCHANGED <<docker, started, cancel, listener>>
       \/ /\ docker = "stopped" /\ CallWorks /\ Copied(s)
          /\ docker' = "running"
          /\ IF started[object[s]]
               THEN UNCHANGED <<started, cancel, listener>>
               ELSE /\ started' = [started EXCEPT ![object[s]] = TRUE]
                    /\ SetListener(object[s], config[object[s]], s)
       \/ /\ docker = "stopped" /\ CallFails
          /\ docker' \in IF started[object[s]] THEN {"stopped"} ELSE {"stopped", "running"}
          /\ Goto(s, "over")
          /\ UNCHANGED <<runLevel, started, cancel, listener>>
       \/ /\ Errs(docker = "removed") /\ Copied(s)
          /\ UNCHANGED <<docker, started, cancel, listener>>
    /\ UNCHANGED <<process, settings, stream, reason, registered, config, object, left,
                   requests>>

-------------------------------------------------------------------------------
(* Terminal: two goroutines copy, and the first value they send ends it *)

\* The exec of the shell, and the two goroutines.
OpenTerminal(s) ==
    /\ pc[s] = "open"
    /\ \/ /\ docker = "running" /\ CallWorks
          /\ stream' = stream \cup {s}
          /\ Goto(s, "attached")
       \/ /\ Errs(docker # "running")
          /\ Goto(s, "check")
          /\ UNCHANGED stream
    /\ UNCHANGED <<docker, process, settings, reason, objectVars, object, runLevel, left,
                   listener, requests>>

\* One of the two has copied all there is, and its send meets the one receive from
\* errChan; the connection is closed and the count goes down.  The other goroutine
\* blocks on its own send, for ever, and touches nothing any more.
CloseTerminal(s) ==
    /\ pc[s] = "attached"
    /\ stream' = stream \ {s} /\ left' = left \ {s}
    /\ Goto(s, "check")
    /\ UNCHANGED <<docker, process, settings, reason, objectVars, object, runLevel,
                   listener, requests, faults>>

\* Channel to container: the client says no more.  Container to channel: the stream
\* ends.  A write that fails ends a copy too, but not before there is data.
InputEnds(s) == s \in left /\ CloseTerminal(s)
OutputEnds(s) == s \notin stream /\ CloseTerminal(s)

-------------------------------------------------------------------------------
(* The end of connection *)

\* The run level is the one copied before the terminal began.
Check(s) ==
    /\ pc[s] = "check"
    /\ Goto(s, IF runLevel[s] = "User" /\ Attached(object[s]) = {} THEN "stop" ELSE "over")
    /\ UNCHANGED <<dockerVars, objectVars, object, runLevel, left, listener,
                   requests, faults>>

\* A Stop that works is followed by the removal from the registry.
SessionStop(s) ==
    /\ \E next \in StopLabels :
          /\ StopStep(object[s], pc[s], next)
          /\ Goto(s, IF next \in {"stopped", "failed"} THEN "over" ELSE next)
          /\ listener' = Cut(listener)
          /\ registered' = IF next = "stopped" /\ registered = object[s] THEN None ELSE registered
    /\ UNCHANGED <<config, started, cancel, object, runLevel, left, requests>>

SessionStep(s) ==
    Enter(s) \/ OpenTerminal(s) \/ InputEnds(s) \/ OutputEnds(s) \/ Check(s) \/ SessionStop(s)

-------------------------------------------------------------------------------
(* Requests, clients and processes *)

\* ConfigPost on an object that has an address: UpdateConfig without a failing call.
ChangeConfig(o, conf) ==
    /\ docker = "running" /\ started[o] /\ requests < MaxRequests /\ conf # config[o]
    /\ requests' = requests + 1
    /\ config' = [config EXCEPT ![o] = conf] /\ settings' = conf
    /\ IF conf.exitAfter # config[o].exitAfter THEN SetListener(o, conf, None)
                                               ELSE UNCHANGED <<cancel, listener>>
    /\ UNCHANGED <<docker, process, stream, reason, registered, started, sessionVars,
                   faults>>

\* The client goes, or ends its shell; one that goes earlier is missed here first.
ClientLeaves(s) ==
    /\ s \in stream \ left
    /\ left' = left \cup {s}
    /\ UNCHANGED <<dockerVars, objectVars, pc, object, runLevel, listener,
                   requests, faults>>

\* An id is not given again while somebody waits for its end.
ProcessStarts(p, id) ==
    /\ docker = "running" /\ process[p] = 0 /\ ~Alive(id)
    /\ \A l \in Waiting : listener[l].pid # id
    /\ process' = [process EXCEPT ![p] = id]
    /\ UNCHANGED <<docker, settings, stream, reason, objectVars, sessionVars,
                   listener, requests, faults>>

ProcessEnds(p) ==
    /\ process[p] # 0
    /\ process' = [process EXCEPT ![p] = 0]
    /\ reason' = reason \cup {l \in Waiting : listener[l].process = p}
    /\ UNCHANGED <<docker, settings, stream, objectVars, sessionVars,
                   listener, requests, faults>>

-------------------------------------------------------------------------------

Init ==
    /\ docker = "absent" /\ settings = None /\ registered = None
    /\ process = [p \in Processes |-> 0]
    /\ config = [s \in Sessions |-> None]
    /\ started = [s \in Sessions |-> FALSE]
    /\ cancel = [s \in Sessions |-> None]
    /\ pc = [s \in Sessions |-> "idle"]
    /\ object = [s \in Sessions |-> None]
    /\ runLevel = [s \in Sessions |-> None]
    /\ left = {} /\ stream = {} /\ reason = {}
    /\ listener = [l \in Listeners |-> Unset]
    /\ requests = 0 /\ faults = 0

Environment ==
    \/ \E s \in Sessions : Login(s) \/ ClientLeaves(s)
    \/ \E o \in Sessions, conf \in Changes : ChangeConfig(o, conf)
    \/ \E p \in Processes : ProcessEnds(p) \/ \E id \in Pids : ProcessStarts(p, id)

Next ==
    \/ \E s \in Sessions : SessionStep(s)
    \/ \E l \in Listeners : ListenerStep(l)
    \/ Environment

Spec == Init /\ [][Next]_vars

\* Every goroutine that can run does, and docker answers each call.
FairSpec ==
    /\ Spec
    /\ \A s \in Sessions : WF_vars(SessionStep(s))
    /\ \A l \in Listeners : WF_vars(ListenerStep(l))

-------------------------------------------------------------------------------
(* Properties *)

\* Where a listener can be, and what it can hold.
ListenerState ==
    [at : {"unset", "find", "exec", "tail", "cut", "stop", "remove", "over"},
     object : Sessions \cup {None}, process : Processes \cup {None},
     level : RunLevels \cup {None}, context : Sessions \cup {None},
     cancelled : BOOLEAN, pid : {Filtered[id] : id \in Pids} \cup {0}]

\* Every variable keeps its type.
TypeOK ==
    /\ docker \in {"absent", "stopped", "running", "removed"}
    /\ process \in [Processes -> Pids \cup {0}]
    /\ settings \in Config \cup {None} /\ registered \in Sessions \cup {None}
    /\ config \in [Sessions -> Config \cup {None}] /\ started \in [Sessions -> BOOLEAN]
    /\ cancel \in [Sessions -> Listeners \cup {None}]
    /\ pc \in [Sessions -> {"idle", "enter", "open", "attached", "check", "stop", "remove",
                            "over"}]
    /\ object \in [Sessions -> Sessions \cup {None}]
    /\ runLevel \in [Sessions -> RunLevels \cup {None}]
    /\ left \in SUBSET Sessions /\ stream \in SUBSET Sessions
    /\ reason \in SUBSET Listeners
    /\ listener \in [Listeners -> ListenerState]
    /\ requests \in Nat /\ faults \in Nat

\* An object has at most one listener that was not cancelled and still listens: the one
\* its cancel function is for (container.go:500-509), whoever set it and however
\* starts and requests follow one another.
OneListener ==
    \A l \in Listening : ~listener[l].cancelled => cancel[listener[l].object] = l

\* A listener sets out to stop the container only if its process has ended, its run of
\* the container has, it could not read the process id, or it was cancelled
\* (container.go:500-541).
StopIsExplained ==
    \A l \in Listeners : listener[l].at = "stop" => l \in reason \/ Cancelled(l)

\* While a client is attached to a container in the run that the client's session began
\* with a first start, the process its configuration names is listened for, unless the
\* listener has seen an end or a call has failed (container.go:396-399, :118-124).
AttachedIsWatched ==
    \A s \in Sessions :
        /\ pc[s] = "attached" /\ docker = "running" /\ faults = 0
        /\ config[object[s]].exitAfter # None /\ cancel[object[s]] # None
        => \/ cancel[object[s]] \in Listening \cup reason
           \/ Cancelled(cancel[object[s]])

\* When the process that a listener waits for has ended, the container stops, unless a
\* call fails (docker.go:98-99, "It also automatically exits if ExitAfter is specified
\* and the specified process ends"), or the listener is of level Forever: there the code
\* departs from that comment (container.go:539).
EndStopsContainer ==
    (\E l \in Listeners :
        /\ listener[l].at = "tail" /\ listener[l].level # "Forever"
        /\ ~Alive(listener[l].pid))
    ~> docker # "running" \/ faults > 0

\* No listener outlives its container: when it is removed, all come to their end.
ListenersEnd ==
    docker = "removed" ~> \A l \in Listeners : listener[l].at \in {"unset", "over"}

\* A listener sets out to stop the container when the process it was set for runs no
\* more (docker.go:93-94, "keeps running if the user disconnects and ExitAfter is
\* specified and the specified process has not finished yet").
StopsAsConfigured ==
    [][\A l \in Listeners :
          listener[l].at # "stop" /\ listener'[l].at = "stop"
          => process[listener[l].process] = 0]_vars
===============================================================================
