------------------------------- MODULE Sessions -------------------------------
(***************************************************************************)
(* The life of an SSH session of the docker4ssh server and of the          *)
(* containers it shares with the others: the accept loop of StartServing,  *)
(* connection() and getContainer() of server/ssh, the container calls they *)
(* make in server/docker, the rows those write in server/database, the     *)
(* shutdown that stops every registered container, and crashes.            *)
(*                                                                         *)
(* A session is one run of connection(), on a goroutine of its own; it is  *)
(* used once.  A container object (an InteractiveContainer) is named   *)
(* by the session that made it, so "object o" is a session too.  Each step *)
(* below is one call to docker or to the database, or one access to memory *)
(* that the goroutines share without a lock.                               *)
(*                                                                         *)
(* Left to other modules: the network modes (every container here is on    *)
(* the default one, Host), the exit-after listener, and changing the       *)
(* configuration of a container through the API.                           *)
(***************************************************************************)
EXTENDS Integers, Sequences, FiniteSets

CONSTANTS
    Sessions,       \* runs of connection(), and so the objects they may make
    Containers,     \* the containers docker may create
    Profiles,       \* the configurations an image login may bring
    Named,          \* the containers that a profile of the server names
    None,           \* nil, or no row
    FailingCalls,   \* the calls to docker, the database or the registry that may fail
    MaxFaults,      \* bound: how many calls fail in a behaviour
    MaxOutages,     \* bound: how often the server is killed or told to stop
    Tears,          \* whether unsynchronised updates of shared memory may be lost
    SlowRequests,   \* whether AuthPost may take a while
    Exclusive       \* whether a client picks a saved container only when nobody uses it

RunLevels == {"User", "Container", "Forever"}
Config == [runLevel : RunLevels, keepOnExit : BOOLEAN]

ASSUME NoneIsNothing == None \notin Sessions \cup Containers \cup Config
ASSUME ProfilesAreConfigs == Profiles \subseteq Config
ASSUME NamedAreContainers == Named \subseteq Containers
ASSUME BoundsAreNatural == MaxFaults \in Nat /\ MaxOutages \in Nat
ASSUME SwitchesAreBoolean == {Tears, SlowRequests, Exclusive} \subseteq BOOLEAN

VARIABLES
    server,         \* "up", "closing" (the shutdown is stopping containers) or "down"
    outages, faults,
    asked,          \* the request to the API that is under way for each container
    docker,         \* docker's state of each container
    bridged,        \* the containers connected to the default network
    settings,       \* the settings table: the row of each container
    auth,           \* the auth table: the containers that have a row
    allContainers,  \* the registry, a slice of objects
    config, started, terminalCount,     \* the fields of each object
    closers,        \* the goroutines of closeAllContainers
    pc,             \* where each session is
    target,         \* the container a session is about
    object,         \* the object it works with
    runLevel,       \* the run level it copied from the object (connection.go:69)
    seen,           \* a count or length it loaded and has not stored back yet
    gone            \* whether its terminal stream has ended

envVars == <<server, outages, asked>>
storeVars == <<docker, bridged, settings, auth>>
objectVars == <<config, started, terminalCount>>
localVars == <<target, object, runLevel, seen>>
vars == <<envVars, faults, storeVars, allContainers, objectVars, closers,
          pc, localVars, gone>>

-------------------------------------------------------------------------------
(* Where a session can be *)

StopLabels == {"stop", "remove", "deleteAuth", "deleteSettings", "stopFailed", "unregister"}
Over == {"done", "failed", "startFailed", "stopFailed", "killed"}
Labels == {"idle", "accept", "lookup", "open", "inspect", "create", "record", "scan",
           "append", "running", "start", "setup", "config", "attach", "inc", "wait",
           "dec", "check"} \cup StopLabels \cup Over

Active(s) == pc[s] \notin Over \cup {"idle"}
Goto(s, label) == pc' = [pc EXCEPT ![s] = label]

Exists(c) == docker[c] \in {"stopped", "running"}

\* The sessions whose exec stream runs in container c.
Attached(c) == {s \in Sessions : target[s] = c /\ pc[s] \in {"inc", "wait"}}
CutOff(c) == gone' = [s \in Sessions |-> gone[s] \/ s \in Attached(c)]

CallFails(call) == call \in FailingCalls /\ faults < MaxFaults /\ faults' = faults + 1
CallWorks == UNCHANGED faults
\* The call returns an error, because of the state it finds or by bad luck.
Errs(call, refused) == (refused /\ CallWorks) \/ CallFails(call)

\* A load of shared memory that a later step stores back.
Load(s, value) == seen' = [seen EXCEPT ![s] = IF Tears THEN value ELSE 0]
\* What the store computes from: the present value, or under a race the loaded one.
Loaded(s, value) == {value} \cup (IF Tears THEN {seen[s]} ELSE {})

-------------------------------------------------------------------------------
(* A process that dies loses its memory; what docker and the database hold stays. *)

LoseMemory ==
    /\ server' = "down"
    /\ pc' = [s \in Sessions |-> IF Active(s) THEN "killed" ELSE pc[s]]
    /\ allContainers' = <<>> /\ closers' = <<>>
    /\ object' = [s \in Sessions |-> None]
    /\ config' = [s \in Sessions |-> None]
    /\ started' = [s \in Sessions |-> FALSE]
    /\ terminalCount' = [s \in Sessions |-> 0]
    /\ runLevel' = [s \in Sessions |-> None]
    /\ seen' = [s \in Sessions |-> 0]
    /\ asked' = [c \in Containers |-> None]
    /\ UNCHANGED <<storeVars, target, gone>>

-------------------------------------------------------------------------------
(* StartServing: the accept loop makes one handshake at a time *)

Listening == server # "down" /\ \A s \in Sessions : pc[s] # "accept"

\* A login that matches a profile with an image.
ImageLogin(s) ==
    /\ Listening /\ pc[s] = "idle"
    /\ Goto(s, "create")
    /\ UNCHANGED <<envVars, faults, storeVars, allContainers, objectVars, closers, localVars, gone>>

\* One that matches a profile with a container.
NamedLogin(s, c) ==
    /\ Listening /\ pc[s] = "idle" /\ c \in Named /\ docker[c] # "absent"
    /\ Exclusive => \A t \in Sessions : Active(t) => target[t] # c
    /\ target' = [target EXCEPT ![s] = c]
    /\ Goto(s, "lookup")
    /\ UNCHANGED <<envVars, faults, storeVars, allContainers, objectVars, closers,
                   object, runLevel, seen, gone>>

\* PasswordCallback finds an auth row: the login is for that row's container.
SavedLogin(s, c) ==
    /\ Listening /\ pc[s] = "idle" /\ c \in auth
    /\ Exclusive => \A t \in Sessions : Active(t) => target[t] # c
    /\ target' = [target EXCEPT ![s] = c]
    /\ Goto(s, "accept")
    /\ UNCHANGED <<envVars, faults, storeVars, allContainers, objectVars, closers,
                   object, runLevel, seen, gone>>

\* After the handshake the loop reads the settings row for the profile.
Accept(s) ==
    /\ pc[s] = "accept" /\ settings[target[s]] # None
    /\ Goto(s, "lookup")
    /\ UNCHANGED <<envVars, faults, storeVars, allContainers, objectVars, closers, localVars, gone>>

\* Without one the profile stays nil and logging its name panics.
AcceptPanic(s) ==
    /\ pc[s] = "accept"
    /\ Errs("query", settings[target[s]] = None)
    /\ LoseMemory /\ UNCHANGED outages

-------------------------------------------------------------------------------
(* getContainer *)

Registered(c) == {i \in DOMAIN allContainers : target[allContainers[i]] = c}

\* Mutant of Lookup: it keeps the index in the registry instead of the object.
LookupIndex(s) ==
    /\ pc[s] = "lookup"
    /\ \E i \in Registered(target[s]) : object' = [object EXCEPT ![s] = i]
    /\ Goto(s, "scan")
    /\ UNCHANGED <<envVars, faults, storeVars, allContainers, objectVars, closers,
                   target, runLevel, seen, gone>>

\* The registry holds an object for the saved container: share it.
Lookup(s) ==
    /\ pc[s] = "lookup"
    /\ \/ \E i \in Registered(target[s]) :
             /\ \A j \in Registered(target[s]) : i <= j
             /\ object' = [object EXCEPT ![s] = allContainers[i]]
             /\ Goto(s, "scan")
       \/ /\ Registered(target[s]) = {}
          /\ Goto(s, "open")
          /\ UNCHANGED object
    /\ UNCHANGED <<envVars, faults, storeVars, allContainers, objectVars, closers,
                   target, runLevel, seen, gone>>

\* Otherwise its configuration comes from the settings row.
Open(s) ==
    /\ pc[s] = "open"
    /\ \/ /\ settings[target[s]] # None /\ CallWorks
          /\ config' = [config EXCEPT ![s] = settings[target[s]]]
          /\ Goto(s, "inspect")
       \/ /\ Errs("query", settings[target[s]] = None)
          /\ Goto(s, "failed")
          /\ UNCHANGED config
    /\ UNCHANGED <<envVars, storeVars, allContainers, started, terminalCount, closers, localVars, gone>>

\* simpleContainerFromID: a new object, whose init leaves the default network.
Inspect(s) ==
    /\ pc[s] = "inspect"
    /\ \/ /\ Exists(target[s]) /\ CallWorks
          /\ object' = [object EXCEPT ![s] = s]
          /\ bridged' = bridged \ {target[s]}
          /\ Goto(s, "record")
       \/ /\ Errs("inspect", ~Exists(target[s]))
          /\ Goto(s, "failed")
          /\ UNCHANGED <<object, bridged>>
    /\ UNCHANGED <<envVars, docker, settings, auth, allContainers, objectVars, closers,
                   target, runLevel, seen, gone>>

\* NewImage and newSimpleContainer: a stopped container that has left the default network.
Create(s, c, profile) ==
    /\ pc[s] = "create" /\ docker[c] = "absent"
    /\ docker' = [docker EXCEPT ![c] = "stopped"]
    /\ target' = [target EXCEPT ![s] = c]
    /\ object' = [object EXCEPT ![s] = s]
    /\ config' = [config EXCEPT ![s] = profile]
    /\ Goto(s, "record")
    /\ UNCHANGED <<envVars, faults, bridged, settings, auth, allContainers, started,
                   terminalCount, closers, runLevel, seen, gone>>

\* The image is unknown, or docker refuses to create one more container.
CreateFails(s) ==
    /\ pc[s] = "create"
    /\ Errs("create", \A c \in Containers : docker[c] # "absent")
    /\ Goto(s, "failed")
    /\ UNCHANGED <<envVars, storeVars, allContainers, objectVars, closers, localVars, gone>>

\* The stream of the image pull reports an error: Fatalf ends the whole server.
PullFatal(s) ==
    /\ pc[s] = "create" /\ CallFails("pull")
    /\ LoseMemory /\ UNCHANGED outages

\* Mutant of Record: a failed insert is dropped like a failed query.
RecordDropsErrors(s) ==
    /\ pc[s] = "record"
    /\ \/ CallWorks /\ settings' = [settings EXCEPT ![target[s]] = config[s]]
       \/ CallFails("insert") /\ UNCHANGED settings
    /\ Goto(s, "scan")
    /\ UNCHANGED <<envVars, docker, bridged, auth, allContainers, objectVars, closers, localVars, gone>>

\* The settings row is written when the query says there is none; any other
\* error of the query is dropped.
Record(s) ==
    /\ pc[s] = "record"
    /\ \/ /\ Errs("query", settings[target[s]] # None)
          /\ Goto(s, "scan")
          /\ UNCHANGED settings
       \/ /\ settings[target[s]] = None /\ CallWorks
          /\ settings' = [settings EXCEPT ![target[s]] = config[s]]
          /\ Goto(s, "scan")
       \/ /\ settings[target[s]] = None /\ CallFails("insert")
          /\ Goto(s, "failed")
          /\ UNCHANGED settings
    /\ UNCHANGED <<envVars, docker, bridged, auth, allContainers, objectVars, closers, localVars, gone>>

-------------------------------------------------------------------------------
(* connection *)

Positions(o) == {i \in DOMAIN allContainers : allContainers[i] = o}

Scan(s) ==
    /\ pc[s] = "scan"
    /\ \/ /\ Positions(object[s]) # {}
          /\ Goto(s, "running")
          /\ UNCHANGED seen
       \/ /\ Positions(object[s]) = {}
          /\ Load(s, Len(allContainers))
          /\ Goto(s, "append")
    /\ UNCHANGED <<envVars, faults, storeVars, allContainers, objectVars, closers,
                   target, object, runLevel, gone>>

\* Two appends from the same slice header: the later one hides the earlier.
Register(s) ==
    /\ pc[s] = "append"
    /\ \E n \in Loaded(s, Len(allContainers)) :
          /\ n <= Len(allContainers)
          /\ allContainers' = Append(SubSeq(allContainers, 1, n), object[s])
    /\ Goto(s, "running")
    /\ UNCHANGED <<envVars, faults, storeVars, objectVars, closers, localVars, gone>>

\* Running: a failed inspection is only reported.
CheckRunning(s) ==
    /\ pc[s] = "running"
    /\ \/ docker[target[s]] = "running" /\ CallWorks /\ Goto(s, "config")
       \/ docker[target[s]] = "stopped" /\ CallWorks /\ Goto(s, "start")
       \/ Errs("running", ~Exists(target[s])) /\ Goto(s, "config")
    /\ UNCHANGED <<envVars, storeVars, allContainers, objectVars, closers, localVars, gone>>

StartContainer(s) ==
    /\ pc[s] = "start"
    /\ \/ /\ Exists(target[s]) /\ CallWorks
          /\ docker' = [docker EXCEPT ![target[s]] = "running"]
          /\ Goto(s, IF started[object[s]] THEN "config" ELSE "setup")
       \/ /\ Errs("start", ~Exists(target[s]))
          /\ Goto(s, "startFailed")
          /\ UNCHANGED docker
    /\ UNCHANGED <<envVars, bridged, settings, auth, allContainers, objectVars, closers, localVars, gone>>

\* The first Start of an object joins its network and installs or removes the
\* configure tool with an exec.  Docker refuses to connect a running container
\* twice, and to exec in one that is not running.
Setup(s) ==
    /\ pc[s] = "setup"
    /\ \/ /\ docker[target[s]] = "running" /\ target[s] \notin bridged /\ CallWorks
          /\ bridged' = bridged \cup {target[s]}
          /\ started' = [started EXCEPT ![object[s]] = TRUE]
          /\ Goto(s, "config")
       \/ /\ docker[target[s]] # "running" \/ target[s] \in bridged
          /\ CallWorks
          /\ bridged' = IF Exists(target[s]) THEN bridged \cup {target[s]} ELSE bridged
          /\ Goto(s, "startFailed")
          /\ UNCHANGED started
       \/ /\ CallFails("setup")
          /\ \E joined \in SUBSET ({target[s]} \cap {c \in Containers : Exists(c)}) :
                bridged' = bridged \cup joined
          /\ Goto(s, "startFailed")
          /\ UNCHANGED started
    /\ UNCHANGED <<envVars, docker, settings, auth, allContainers, config, terminalCount,
                   closers, localVars, gone>>

CopyConfig(s) ==
    /\ pc[s] = "config"
    /\ runLevel' = [runLevel EXCEPT ![s] = config[object[s]].runLevel]
    /\ Goto(s, "attach")
    /\ UNCHANGED <<envVars, faults, storeVars, allContainers, objectVars, closers,
                   target, object, seen, gone>>

\* Mutant of Attach: the errors of the execs are ignored.
AttachBlindly(s) ==
    /\ pc[s] = "attach" /\ Load(s, terminalCount[object[s]]) /\ Goto(s, "inc")
    /\ UNCHANGED <<envVars, faults, storeVars, allContainers, objectVars, closers,
                   target, object, runLevel, gone>>

\* Terminal: the execs that find the shell and attach to it.
Attach(s) ==
    /\ pc[s] = "attach"
    /\ \/ /\ docker[target[s]] = "running" /\ CallWorks
          /\ Load(s, terminalCount[object[s]])
          /\ Goto(s, "inc")
       \/ /\ Errs("attach", docker[target[s]] # "running")
          /\ Goto(s, "check")
          /\ UNCHANGED seen
    /\ UNCHANGED <<envVars, storeVars, allContainers, objectVars, closers,
                   target, object, runLevel, gone>>

StoreCount(s, delta) ==
    \E n \in Loaded(s, terminalCount[object[s]]) :
        terminalCount' = [terminalCount EXCEPT ![object[s]] = n + delta]

CountIn(s) ==
    /\ pc[s] = "inc" /\ StoreCount(s, 1) /\ Goto(s, "wait")
    /\ UNCHANGED <<envVars, faults, storeVars, allContainers, config, started, closers, localVars, gone>>

\* Mutant of StreamEnds: it waits for the copy from the container as well.
BothStreamsEnd(s) ==
    /\ pc[s] = "wait" /\ gone[s] /\ docker[target[s]] # "running"
    /\ Load(s, terminalCount[object[s]])
    /\ Goto(s, "dec")
    /\ UNCHANGED <<envVars, faults, storeVars, allContainers, objectVars, closers,
                   target, object, runLevel, gone>>

\* One of the two copies has ended: the client left, or the shell did.
StreamEnds(s) ==
    /\ pc[s] = "wait" /\ gone[s]
    /\ Load(s, terminalCount[object[s]])
    /\ Goto(s, "dec")
    /\ UNCHANGED <<envVars, faults, storeVars, allContainers, objectVars, closers,
                   target, object, runLevel, gone>>

\* Mutant of CountOut: the terminal returns without counting itself out.
LeaveCounted(s) ==
    /\ pc[s] = "dec" /\ Goto(s, "check")
    /\ UNCHANGED <<envVars, faults, storeVars, allContainers, objectVars, closers, localVars, gone>>

CountOut(s) ==
    /\ pc[s] = "dec" /\ StoreCount(s, -1) /\ Goto(s, "check")
    /\ UNCHANGED <<envVars, faults, storeVars, allContainers, config, started, closers, localVars, gone>>

Check(s) ==
    /\ pc[s] = "check"
    /\ Goto(s, IF runLevel[s] = "User" /\ terminalCount[object[s]] = 0 THEN "stop" ELSE "done")
    /\ UNCHANGED <<envVars, faults, storeVars, allContainers, objectVars, closers, localVars, gone>>

-------------------------------------------------------------------------------
(* SimpleContainer.Stop, run by a session that ends and by closeAllContainers: *)
(* one step of it on object o goes from one label to the next.                 *)

\* Mutant of HaltStep: the rows are deleted before the container is removed.
HaltThenForget(o, next) ==
    /\ Exists(target[o]) /\ CallWorks
    /\ docker' = [docker EXCEPT ![target[o]] = "stopped"]
    /\ CutOff(target[o])
    /\ next = IF config[o].keepOnExit THEN "unregister" ELSE "deleteAuth"
    /\ UNCHANGED <<bridged, settings, auth>>

HaltStep(o, next) ==
    \/ /\ Exists(target[o]) /\ CallWorks
       /\ docker' = [docker EXCEPT ![target[o]] = "stopped"]
       /\ CutOff(target[o])
       /\ next = IF config[o].keepOnExit THEN "unregister" ELSE "remove"
       /\ UNCHANGED <<bridged, settings, auth>>
    \/ /\ Errs("stop", ~Exists(target[o]))
       /\ next = "stopFailed"
       /\ UNCHANGED <<storeVars, gone>>

RemoveStep(o, next) ==
    \/ /\ Exists(target[o]) /\ CallWorks
       /\ docker' = [docker EXCEPT ![target[o]] = "removed"]
       /\ bridged' = bridged \ {target[o]}
       /\ CutOff(target[o])
       /\ next = "deleteAuth"
       /\ UNCHANGED <<settings, auth>>
    \/ /\ Errs("remove", ~Exists(target[o]))
       /\ next = "stopFailed"
       /\ UNCHANGED <<storeVars, gone>>

\* Mutant of DeleteAuthStep: the second DELETE is forgotten.
DeleteAuthOnly(o, next) ==
    /\ CallWorks /\ auth' = auth \ {target[o]} /\ next = "unregister"
    /\ UNCHANGED <<docker, bridged, settings, gone>>

DeleteAuthStep(o, next) ==
    /\ \/ CallWorks /\ auth' = auth \ {target[o]} /\ next = "deleteSettings"
       \/ CallFails("delete") /\ next = "stopFailed" /\ UNCHANGED auth
    /\ UNCHANGED <<docker, bridged, settings, gone>>

DeleteSettingsStep(o, next) ==
    /\ \/ CallWorks /\ settings' = [settings EXCEPT ![target[o]] = None] /\ next = "unregister"
       \/ CallFails("delete") /\ next = "stopFailed" /\ UNCHANGED settings
    /\ UNCHANGED <<docker, bridged, auth, gone>>

StopStep(o, at, next) ==
    \/ at = "stop" /\ HaltStep(o, next)
    \/ at = "remove" /\ RemoveStep(o, next)
    \/ at = "deleteAuth" /\ DeleteAuthStep(o, next)
    \/ at = "deleteSettings" /\ DeleteSettingsStep(o, next)

SessionStop(s) ==
    /\ \E next \in StopLabels :
          /\ StopStep(object[s], pc[s], next)
          /\ Goto(s, next)
          /\ IF next = "unregister" THEN Load(s, Len(allContainers)) ELSE UNCHANGED seen
    /\ UNCHANGED <<envVars, allContainers, objectVars, closers, target, object, runLevel>>

\* Mutant of WithoutEntry: the slice is shortened without the swap.
WithoutLast(entries, i, n) == SubSeq(entries, 1, n - 1)

\* The last of n entries takes the place of the i-th.
WithoutEntry(entries, i, n) == SubSeq([entries EXCEPT ![i] = entries[n]], 1, n - 1)

Unregister(s) ==
    /\ pc[s] = "unregister"
    /\ \E n \in Loaded(s, Len(allContainers)) :
          LET found == {i \in Positions(object[s]) : i <= n}
          IN  \/ /\ found = {} /\ UNCHANGED allContainers
              \/ /\ n <= Len(allContainers)
                 /\ \E i \in found :
                       /\ \A j \in found : i <= j
                       /\ allContainers' = WithoutEntry(allContainers, i, n)
    /\ Goto(s, "done")
    /\ UNCHANGED <<envVars, faults, storeVars, objectVars, closers, localVars, gone>>

\* Another session shortened the slice in between: the index is out of range.
UnregisterPanic(s) ==
    /\ pc[s] = "unregister" /\ Tears
    /\ seen[s] > Len(allContainers) /\ Positions(object[s]) # {}
    /\ LoseMemory /\ UNCHANGED <<outages, faults>>

-------------------------------------------------------------------------------
(* The shutdown: the closer of StartServing, called on a signal *)

BeginShutdown ==
    /\ server = "up" /\ outages < MaxOutages
    /\ server' = "closing"
    /\ outages' = outages + 1
    /\ closers' = [i \in DOMAIN allContainers |-> [object |-> allContainers[i], at |-> "stop"]]
    /\ UNCHANGED <<asked, faults, storeVars, allContainers, objectVars, pc, localVars, gone>>

CloserStop(i) ==
    /\ \E next \in StopLabels :
          /\ StopStep(closers[i].object, closers[i].at, next)
          /\ closers' = [closers EXCEPT ![i].at = next]
    /\ UNCHANGED <<envVars, allContainers, objectVars, pc, localVars>>

\* Mutant of Exit: a goroutine whose Stop fails never calls wg.Done.
ExitWhenAllStopped ==
    /\ server = "closing"
    /\ \A i \in DOMAIN closers : closers[i].at = "unregister"
    /\ LoseMemory /\ UNCHANGED <<outages, faults>>

\* Every goroutine is done: the database is closed and the process exits.
Exit ==
    /\ server = "closing"
    /\ \A i \in DOMAIN closers : closers[i].at \in {"stopFailed", "unregister"}
    /\ LoseMemory /\ UNCHANGED <<outages, faults>>

Kill ==
    /\ server # "down" /\ outages < MaxOutages
    /\ outages' = outages + 1
    /\ LoseMemory /\ UNCHANGED faults

Restart ==
    /\ server = "down" /\ server' = "up"
    /\ UNCHANGED <<outages, asked, faults, storeVars, allContainers, objectVars, closers, pc,
                   localVars, gone>>

-------------------------------------------------------------------------------
(* The API: a request to /auth from inside a container *)

\* GetUser knows a container by the address its object got when it was set up.
Known(c) == \E s \in Sessions : target[s] = c /\ object[s] # None /\ started[object[s]]

\* A password, or a name, makes the row; an empty password deletes it.
Answer(c, request) == auth' = IF request = "save" THEN auth \cup {c} ELSE auth \ {c}

AuthRequest(c, request) ==
    /\ docker[c] = "running" /\ Known(c) /\ asked[c] = None
    /\ IF SlowRequests THEN asked' = [asked EXCEPT ![c] = request] /\ UNCHANGED auth
                       ELSE Answer(c, request) /\ UNCHANGED asked
    /\ UNCHANGED <<server, outages, faults, docker, bridged, settings, allContainers, objectVars,
                   closers, pc, localVars, gone>>

\* AuthPost holds the container object of the user, whatever has become of the container.
AuthPost(c) ==
    /\ asked[c] # None
    /\ Answer(c, asked[c])
    /\ asked' = [asked EXCEPT ![c] = None]
    /\ UNCHANGED <<server, outages, faults, docker, bridged, settings, allContainers, objectVars,
                   closers, pc, localVars, gone>>

-------------------------------------------------------------------------------
(* Clients, and docker on its own *)

ClientLeaves(s) ==
    /\ Active(s) /\ ~gone[s]
    /\ gone' = [gone EXCEPT ![s] = TRUE]
    /\ UNCHANGED <<envVars, faults, storeVars, allContainers, objectVars, closers, pc, localVars>>

\* The main process of a container ends.
ContainerExits(c) ==
    /\ docker[c] = "running" /\ CallFails("exit")
    /\ docker' = [docker EXCEPT ![c] = "stopped"]
    /\ CutOff(c)
    /\ UNCHANGED <<envVars, bridged, settings, auth, allContainers, objectVars, closers, pc, localVars>>

-------------------------------------------------------------------------------

\* An earlier run of the server may have kept some containers.
Init ==
    /\ server = "up" /\ outages = 0 /\ faults = 0
    /\ asked = [c \in Containers |-> None]
    /\ \E kept \in SUBSET Containers :
          /\ docker = [c \in Containers |-> IF c \in kept THEN "stopped" ELSE "absent"]
          /\ auth = kept
          /\ settings \in [Containers -> Profiles \cup {None}]
          /\ \A c \in Containers :
                IF c \in kept THEN settings[c] # None /\ settings[c].keepOnExit
                              ELSE settings[c] = None
    /\ bridged = {}
    /\ allContainers = <<>> /\ closers = <<>>
    /\ pc = [s \in Sessions |-> "idle"]
    /\ target = [s \in Sessions |-> None]
    /\ object = [s \in Sessions |-> None]
    /\ config = [s \in Sessions |-> None]
    /\ started = [s \in Sessions |-> FALSE]
    /\ terminalCount = [s \in Sessions |-> 0]
    /\ runLevel = [s \in Sessions |-> None]
    /\ seen = [s \in Sessions |-> 0]
    /\ gone = [s \in Sessions |-> FALSE]

GetContainer(s) ==
    \/ Lookup(s) \/ Open(s) \/ Inspect(s)
    \/ \E c \in Containers, profile \in Profiles : Create(s, c, profile)
    \/ CreateFails(s) \/ PullFatal(s) \/ Record(s)

Connection(s) ==
    \/ Scan(s) \/ Register(s) \/ CheckRunning(s) \/ StartContainer(s) \/ Setup(s)
    \/ CopyConfig(s) \/ Attach(s) \/ CountIn(s) \/ StreamEnds(s) \/ CountOut(s) \/ Check(s)
    \/ SessionStop(s) \/ Unregister(s) \/ UnregisterPanic(s)

SessionStep(s) == Accept(s) \/ AcceptPanic(s) \/ GetContainer(s) \/ Connection(s)

ServerStep ==
    \/ \E s \in Sessions : SessionStep(s)
    \/ \E i \in DOMAIN closers : CloserStop(i)
    \/ \E c \in Containers : AuthPost(c)
    \/ Exit

ClientStep ==
    \E s \in Sessions :
        \/ ImageLogin(s) \/ ClientLeaves(s)
        \/ \E c \in Containers : NamedLogin(s, c) \/ SavedLogin(s, c)

Environment ==
    \/ ClientStep
    \/ \E c \in Containers :
          ContainerExits(c) \/ \E request \in {"save", "forget"} : AuthRequest(c, request)
    \/ BeginShutdown \/ Kill \/ Restart

Next == ServerStep \/ Environment

Spec == Init /\ [][Next]_vars

\* Go schedules every goroutine: each session and each closer keeps moving.
FairSpec ==
    /\ Spec
    /\ \A s \in Sessions : WF_vars(SessionStep(s))
    /\ WF_vars(\E i \in DOMAIN closers : CloserStop(i))
    /\ WF_vars(Exit)
-------------------------------------------------------------------------------
(* Properties *)

CallNames == {"query", "inspect", "pull", "create", "insert", "running", "start", "setup",
              "attach", "stop", "remove", "delete", "exit"}

\* Every variable keeps its type: an object is one a session made, a closer works
\* on an object, and a count goes below zero only where an update was lost.
TypeOK ==
    /\ server \in {"up", "closing", "down"}
    /\ outages \in Nat /\ faults \in Nat
    /\ asked \in [Containers -> {"save", "forget", None}]
    /\ docker \in [Containers -> {"absent", "stopped", "running", "removed"}]
    /\ bridged \in SUBSET Containers
    /\ settings \in [Containers -> Config \cup {None}]
    /\ auth \in SUBSET Containers
    /\ allContainers \in Seq(Sessions)
    /\ config \in [Sessions -> Config \cup {None}]
    /\ started \in [Sessions -> BOOLEAN]
    /\ terminalCount \in [Sessions -> Int]
    /\ closers \in Seq([object : Sessions, at : StopLabels])
    /\ pc \in [Sessions -> Labels]
    /\ target \in [Sessions -> Containers \cup {None}]
    /\ object \in [Sessions -> Sessions \cup {None}]
    /\ runLevel \in [Sessions -> RunLevels \cup {None}]
    /\ seen \in [Sessions -> Int]
    /\ gone \in [Sessions -> BOOLEAN]

\* A container runs only with a settings row, whatever fails, crashes or races
\* (connection.go:182-198 writes the row before line 58 starts the container,
\* container.go:139-143 deletes it after the container is removed): without one
\* no later login could reopen it.  The query of line 182 must not fail: its
\* errors other than ErrNoRows are dropped.
RunningIsRecorded ==
    \A c \in Containers : docker[c] = "running" => settings[c] # None

\* Where a client is still attached its container runs: whoever stops a container
\* ends every terminal in it (container.go:612-632), and no session waits forever.
AttachedIsLive ==
    \A s \in Sessions : pc[s] \in {"inc", "wait"} /\ ~gone[s] => docker[target[s]] = "running"

\* Run level User: once every session on a running container is over, some session
\* on it failed to start or to stop it, or was killed with the server.  In all
\* other cases the last one out stopped it (connection.go:89-107), whichever of the
\* sessions share an object or made their own.
UnattendedIsExplained ==
    \A c \in Containers :
        /\ docker[c] = "running" /\ settings[c].runLevel = "User"
        /\ \A s \in Sessions : target[s] = c => ~Active(s)
        => \E s \in Sessions : target[s] = c /\ pc[s] \in {"startFailed", "stopFailed", "killed"}

\* A container that is removed leaves no row behind, once whoever removed it is done
\* (container.go:142, "delete all references to the container in the database"):
\* its rows go only if a call failed or the server died between the three steps.
RemovedLeavesNoRows ==
    \A c \in Containers :
        /\ docker[c] = "removed"
        /\ \A s \in Sessions : target[s] = c => ~Active(s)
        /\ \A i \in DOMAIN closers : target[closers[i].object] = c =>
                                        closers[i].at \in {"unregister", "stopFailed"}
        /\ c \in auth \/ settings[c] # None
        => \E s \in Sessions : target[s] = c /\ pc[s] \in {"stopFailed", "killed"}

\* The object an attached session works with is in the registry: the next login to
\* its container shares it, its count of terminals included, and a shutdown stops it.
AttachedIsRegistered ==
    \A s \in Sessions : pc[s] \in {"inc", "wait"} => Positions(object[s]) # {}

\* The labels at which a session has a recorded object; those at which it works with it.
Working == {"scan", "append", "running", "start", "setup", "config", "attach", "inc",
            "wait", "dec", "check", "stop", "remove", "deleteAuth", "deleteSettings",
            "unregister"}
PastRecord == Working \cup {"done", "startFailed", "stopFailed"}

Owned(o) == pc[o] \in PastRecord /\ target[o] \in Containers /\ config[o] \in Config
\* A start of c finds its row, or fails.
Ready(c) == docker[c] = "removed" \/ (docker[c] # "absent" /\ settings[c] # None)

\* What session s knows of its container and of the object it works with.
SessionAgrees(s) ==
    /\ pc[s] \in {"accept", "lookup", "open", "inspect", "record"} => target[s] \in Containers
    /\ pc[s] \in {"inspect", "record"} => config[s] \in Config
    /\ pc[s] = "record" => object[s] = s /\ docker[target[s]] # "absent"
    /\ pc[s] \in Working => /\ object[s] \in Sessions /\ Owned(object[s])
                            /\ target[object[s]] = target[s] /\ Ready(target[s])
    \* The rows are deleted only after docker has removed the container.
    /\ pc[s] \in {"deleteAuth", "deleteSettings"} => docker[target[s]] = "removed"

EntryAgrees(o) == Owned(o) /\ Ready(target[o])

CloserAgrees(closer) ==
    /\ Owned(closer.object)
    /\ closer.at \in {"deleteAuth", "deleteSettings"} => docker[target[closer.object]] = "removed"

\* Sessions, registry and closers agree on the objects they share, and every container
\* that one of them may start has its row (the inductive invariant behind
\* RunningIsRecorded: connection.go:182-198 comes before every start).
SharedObjectsAgree ==
    /\ \A s \in Sessions : SessionAgrees(s)
    /\ \A i \in DOMAIN allContainers : EntryAgrees(allContainers[i])
    /\ \A i \in DOMAIN closers : CloserAgrees(closers[i])

\* An attached client finds its container on the network its configuration names
\* (man/docker4ssh.conf.5: "3 (Host): Default docker network").
AttachedHasNetwork ==
    \A s \in Sessions : pc[s] = "wait" /\ ~gone[s] => target[s] \in bridged

\* A session that ends stops a container of run level User only when no client is
\* attached to it (man/docker4ssh.conf.5, run level 1: "The container stops working
\* if no user is connected to it anymore").
StopsOnlyUnattended ==
    [][\A s \in Sessions :
          pc[s] = "stop" /\ pc'[s] \in {"remove", "unregister"} =>
              \A t \in Attached(target[s]) : gone[t]]_vars

\* The rows and the docker state of each container go through the lifecycle that
\* Lifecycle specifies: no step starts an unrecorded container, records a removed
\* one, or deletes the rows of one that still exists.
Life == INSTANCE Lifecycle WITH
    state <- docker,
    recorded <- {c \in Containers : settings[c] # None},
    saved <- auth
KeepsLifecycle == Life!LifecycleSpec

\* The server has not ended yet: it took no session with it, and nothing worse came to it
\* than one signal to stop, which it is still about to follow.
NotEnded ==
    /\ \A s \in Sessions : pc[s] # "killed"
    /\ outages = 0 \/ (server = "closing" /\ outages = 1)

\* Sessions that share containers do so until the server first ends, a shutdown included.
\* After a crash they need not: the registry is lost, and a second login opens a running
\* container that the first is about to remove, and records it when it is gone
\* (connection.go:17, :127-147, :182-198).
KeepsLifecycleUntilItEnds ==
    Life!LifecycleInit /\ [][NotEnded => Life!LifecycleNext]_(Life!lifecycleVars)

\* A session whose client has left comes to its end, whatever the others do and
\* whichever call fails: nothing in connection() waits for another session.
SessionEnds ==
    \A s \in Sessions : Active(s) /\ gone[s] ~> ~Active(s)

\* Run level User, seen from the container: when everybody on it has left, it stops,
\* unless somebody comes back or a session fails to start, stop or survive.
UnattendedStops ==
    \A c \in Containers :
        /\ docker[c] = "running" /\ settings[c].runLevel = "User"
        /\ \A s \in Sessions : target[s] = c /\ Active(s) => gone[s]
        ~> \/ docker[c] # "running"
           \/ \E s \in Sessions : target[s] = c /\ Active(s) /\ ~gone[s]
           \/ \E s \in Sessions : target[s] = c /\ pc[s] \in {"startFailed", "stopFailed", "killed"}

\* A shutdown that has begun ends, even if docker refuses to stop a container.
ShutdownEnds == server = "closing" ~> server = "down"

===============================================================================
