------------------------------ MODULE Reconfigure ------------------------------
(***************************************************************************)
(* The configuration of one container, and the three places that hold it:  *)
(* the object in memory, the settings row, and docker itself (the networks *)
(* the container is on, the configure tool installed in it).  Start and    *)
(* UpdateConfig of server/docker carry it from one to the other, a POST to *)
(* /config (server/api/config.go) changes it, Stop obeys it, and a login   *)
(* after a crash or a stop reads it back from the row.                     *)
(*                                                                         *)
(* The workers are the goroutines that do so: one session after another,   *)
(* called Session, and one goroutine for each request.  Each step is one   *)
(* call to docker or the database, or one access to the object they share. *)
(*                                                                         *)
(* Left out: ExitAfter (a listener of its own), and the start-up text,     *)
(* which is a plain field like the run level.                              *)
(***************************************************************************)
EXTENDS Integers, FiniteSets

CONSTANTS
    Requests,       \* the requests to /config
    Session,        \* the goroutine of the one session at a time
    Profiles,       \* the configurations of the login that makes the container
    Bodies,         \* what a request may ask for: values for some of the fields
    Nil,            \* no object, no row, no address
    FailingCalls,   \* the calls that may fail
    MaxFaults,      \* bound: how many calls fail in a behaviour
    MaxOutages,     \* bound: how often the server is killed
    MaxVisits,      \* bound: how many sessions there are
    Overlap         \* whether two requests may be under way at once

Modes == {"Off", "Isolate", "Host", "Docker", "None"}
RunLevels == {"User", "Container", "Forever"}
Networks == {"none", "docker4ssh-iso", "bridge", "docker4ssh-def", "host"}
Fields == {"networkMode", "configurable", "runLevel", "keepOnExit"}

\* Values that the types of a request's fields let through: no handler checks the numbers.
Config == [networkMode : Modes \cup {"Invalid"}, configurable : BOOLEAN,
           runLevel : RunLevels \cup {"Invalid"}, keepOnExit : BOOLEAN]
Valid(f, value) == f \in {"networkMode", "runLevel"} => value # "Invalid"

Workers == Requests \cup {Session}

ASSUME SessionIsNoRequest == Session \notin Requests
ASSUME ProfilesAreValid ==
    Profiles \subseteq {c \in Config : \A f \in Fields : Valid(f, c[f])}
ASSUME BodiesAskForFields ==
    \A body \in Bodies : DOMAIN body \subseteq Fields /\ \E c \in Config :
                            \A f \in DOMAIN body : c[f] = body[f]
ASSUME NilIsNothing == Nil \notin Config /\ Nil \notin Networks
ASSUME BoundsAreNatural == {MaxFaults, MaxOutages, MaxVisits} \subseteq Nat
ASSUME OverlapIsBoolean == Overlap \in BOOLEAN

VARIABLES
    profile,    \* the configuration of the profile that made the container
    docker,     \* docker's state of the container
    joined,     \* the networks it is connected to
    tool,       \* the configure tool in it: "absent", "partial" or "installed"
    row, auth,  \* its settings row, and whether it has an auth row
    registered, \* whether the registry holds the object of the container
    config,     \* the config field of the object, Nil without one
    started,    \* its started field
    address,    \* the network at which its Network.IP was read, Nil before
    pc,         \* where each worker is
    old, new,   \* the two configurations updateConfig works from
    level,      \* the run level the session copied
    body,       \* what each request asks for
    faults, outages, visits,
    clean       \* history: no call failed, no panic, no crash at work, no overlap

world == <<docker, joined, tool, row, auth>>
object == <<registered, config, started, address>>
bounds == <<faults, outages, visits>>
vars == <<profile, world, object, pc, old, new, level, body, bounds, clean>>

-------------------------------------------------------------------------------
(* Networks *)

\* InitNetwork: the docker network of each mode, "" for any other number.
Network(mode) ==
    CASE mode = "Off" -> "none"          [] mode = "Isolate" -> "docker4ssh-iso"
      [] mode = "Host" -> "bridge"       [] mode = "Docker" -> "docker4ssh-def"
      [] mode = "None" -> "host"         [] OTHER -> ""

\* The name under which NetworkName looks a mode up in an inspection.
NetworkName(mode) ==
    CASE mode \in {"Off", "None"} -> "none"  [] mode = "Isolate" -> "docker4ssh-full"
      [] mode = "Host" -> "bridge"           [] mode = "Docker" -> "docker4ssh-def"
      [] OTHER -> ""

\* Docker refuses the host network, a second network beside none, and to connect a
\* running container to a network twice.
Refused(network) ==
    \/ docker = "removed" \/ network = "host"
    \/ docker = "running" /\ network \in joined
    \/ joined \ {network} # {} /\ (network = "none" \/ "none" \in joined)

-------------------------------------------------------------------------------
(* Steps of workers *)

Answers == {"ok", "rejected", "failed", "panicked", "killed"}
AtRest == {"idle", "in"} \cup Answers
Updating == {"update", "leave", "join", "inspect", "tool", "assign", "store", "auth", "finish"}
Labels == AtRest \cup Updating \cup {"start", "enter", "halt", "remove", "deleteAuth", "deleteSettings"}
Busy(w) == pc[w] \notin AtRest
Quiet == \A w \in Workers : ~Busy(w)

Goto(w, label) == pc' = [pc EXCEPT ![w] = label]
Starts(w, label) == Goto(w, label) /\ clean' = (clean /\ \A v \in Workers \ {w} : ~Busy(v))

CallFails(call) == call \in FailingCalls /\ faults < MaxFaults /\ faults' = faults + 1
Errs(call, refused) == (refused /\ UNCHANGED faults) \/ CallFails(call)

\* An error ends the handler with a 500, and the session.
Fails(w) == Goto(w, IF w = Session THEN "idle" ELSE "failed") /\ clean' = FALSE

\* The server dies and loses its memory.
LoseMemory ==
    /\ pc' = [w \in Workers |-> IF w = Session THEN "idle"
                                ELSE IF Busy(w) THEN "killed" ELSE pc[w]]
    /\ registered' = FALSE /\ config' = Nil /\ started' = FALSE /\ address' = Nil
    /\ level' = Nil
    /\ clean' = (clean /\ Quiet)

\* net/http recovers the panic of a handler; one in a session ends the server.
Panics(w) ==
    IF w = Session THEN LoseMemory
                   ELSE Goto(w, "panicked") /\ clean' = FALSE /\ UNCHANGED <<object, level>>

-------------------------------------------------------------------------------
(* The session: connection() up to the terminal, and after it *)

\* getContainer shares the object of the registry, or makes one from the row; its
\* init leaves the default network.  Start is for a container that does not run.
Login ==
    /\ pc[Session] = "idle" /\ visits < MaxVisits /\ docker # "removed"
    /\ visits' = visits + 1
    /\ Starts(Session, IF docker = "running" THEN "enter" ELSE "start")
    /\ IF registered
       THEN UNCHANGED <<joined, object>>
       ELSE /\ row # Nil /\ \A r \in Requests : ~Busy(r)
            /\ registered' = TRUE /\ config' = row /\ started' = FALSE /\ address' = Nil
            /\ joined' = joined \ {"bridge"}
    /\ UNCHANGED <<profile, docker, tool, row, auth, old, new, level, body, faults, outages>>

\* Start: the first one of an object sets everything up, against a configuration
\* that differs in every field that has an effect.
Start ==
    /\ pc[Session] = "start"
    /\ \/ /\ docker # "removed" /\ docker' = "running"
          /\ Goto(Session, IF started THEN "enter" ELSE "leave")
          /\ new' = [new EXCEPT ![Session] = config]
          /\ old' = [old EXCEPT ![Session] =
                        [config EXCEPT !.networkMode = "Invalid", !.configurable = ~@]]
          /\ UNCHANGED <<faults, clean>>
       \/ /\ Errs("start", docker = "removed")
          /\ Fails(Session)
          /\ UNCHANGED <<docker, old, new>>
    /\ UNCHANGED <<profile, joined, tool, row, auth, object, level, body, outages, visits>>

\* connection() copies the configuration and serves the terminal.
Enter ==
    /\ pc[Session] = "enter"
    /\ level' = config.runLevel
    /\ Goto(Session, "in")
    /\ UNCHANGED <<profile, world, object, old, new, body, bounds, clean>>

\* The client is gone: a container of run level User is stopped.
Leave ==
    /\ pc[Session] = "in"
    /\ IF level = "User" THEN Starts(Session, "halt") ELSE Goto(Session, "idle") /\ UNCHANGED clean
    /\ UNCHANGED <<profile, world, object, old, new, level, body, bounds>>

\* An object that was stopped leaves the registry.  Requests under way still hold it:
\* Login makes a new one when they are over.
Unregister == registered' = FALSE /\ UNCHANGED <<config, started, address>>

\* Mutant of Halt: the configuration is not asked, the container always removed.
HaltThenRemove ==
    /\ pc[Session] = "halt" /\ docker # "removed" /\ docker' = "stopped"
    /\ Goto(Session, "remove")
    /\ UNCHANGED <<profile, joined, tool, row, auth, object, old, new, level, body, bounds, clean>>

\* Stop, call by call.
Halt ==
    /\ pc[Session] = "halt"
    /\ \/ /\ docker # "removed" /\ docker' = "stopped"
          /\ Goto(Session, IF config.keepOnExit THEN "idle" ELSE "remove")
          /\ IF config.keepOnExit THEN Unregister ELSE UNCHANGED object
          /\ UNCHANGED <<faults, clean>>
       \/ /\ Errs("stop", docker = "removed")
          /\ Fails(Session)
          /\ UNCHANGED <<docker, object>>
    /\ UNCHANGED <<profile, joined, tool, row, auth, old, new, level, body, outages, visits>>

Remove ==
    /\ pc[Session] = "remove"
    /\ \/ /\ docker' = "removed" /\ joined' = {}
          /\ Goto(Session, "deleteAuth")
          /\ UNCHANGED <<faults, clean>>
       \/ CallFails("remove") /\ Fails(Session) /\ UNCHANGED <<docker, joined>>
    /\ UNCHANGED <<profile, tool, row, auth, object, old, new, level, body, outages, visits>>

\* Mutant of DeleteAuth: the second DELETE is forgotten.
DeleteAuthOnly ==
    /\ pc[Session] = "deleteAuth" /\ auth' = FALSE
    /\ Goto(Session, "idle") /\ Unregister
    /\ UNCHANGED <<profile, docker, joined, tool, row, old, new, level, body, bounds, clean>>

DeleteAuth ==
    /\ pc[Session] = "deleteAuth"
    /\ \/ auth' = FALSE /\ Goto(Session, "deleteSettings") /\ UNCHANGED <<faults, clean>>
       \/ CallFails("delete") /\ Fails(Session) /\ UNCHANGED auth
    /\ UNCHANGED <<profile, docker, joined, tool, row, object, old, new, level, body, outages, visits>>

DeleteSettings ==
    /\ pc[Session] = "deleteSettings"
    /\ \/ row' = Nil /\ Goto(Session, "idle") /\ Unregister /\ UNCHANGED <<faults, clean>>
       \/ CallFails("delete") /\ Fails(Session) /\ UNCHANGED <<row, object>>
    /\ UNCHANGED <<profile, docker, joined, tool, auth, old, new, level, body, outages, visits>>

-------------------------------------------------------------------------------
(* A request *)

\* The handler knows a container by the address its object read: it must have one
\* there.  An empty body changes nothing.
Post(r, asked) ==
    /\ pc[r] = "idle" /\ docker = "running" /\ address \in joined \ {"none"}
    /\ Overlap \/ \A q \in Requests : ~Busy(q)
    /\ body' = [body EXCEPT ![r] = asked]
    /\ new' = [new EXCEPT ![r] =
                  [f \in Fields |-> IF f \in DOMAIN asked THEN asked[f] ELSE config[f]]]
    /\ Starts(r, IF DOMAIN asked = {} THEN "ok" ELSE "update")
    /\ UNCHANGED <<profile, world, object, old, level, bounds>>

\* A name that does not exist is rejected with a 406; a value of another type too,
\* but it is asserted to its type all the same, and the handler panics.
Refuse(r) ==
    /\ pc[r] = "idle" /\ docker = "running" /\ address \in joined \ {"none"}
    /\ \E answer \in {"rejected", "panicked"} : Goto(r, answer)
    /\ UNCHANGED <<profile, world, object, old, new, level, body, bounds, clean>>

\* UpdateConfig compares with the configuration of the object, which may not be the one
\* that Post copied.
Update(r) ==
    /\ pc[r] = "update"
    /\ old' = [old EXCEPT ![r] = config]
    /\ Goto(r, IF new[r].networkMode # config.networkMode THEN "leave"
               ELSE IF new[r].configurable # config.configurable THEN "tool" ELSE "assign")
    /\ UNCHANGED <<profile, world, object, new, level, body, bounds, clean>>

-------------------------------------------------------------------------------
(* updateConfig, for the session (in Start) and for requests *)

\* Mutant of LeaveNetwork: the container stays on the old network.
StayOnNetwork(w) ==
    /\ pc[w] = "leave"
    /\ Goto(w, IF Network(new[w].networkMode) # "" THEN "join" ELSE "inspect")
    /\ UNCHANGED <<profile, world, object, old, new, level, body, bounds, clean>>

\* setNetworkMode: leave the old network, whatever that answers ...
LeaveNetwork(w) ==
    /\ pc[w] = "leave"
    /\ IF Network(new[w].networkMode) # ""
       THEN joined' = joined \ {Network(old[w].networkMode)} /\ Goto(w, "join")
       ELSE UNCHANGED joined /\ Goto(w, "inspect")
    /\ UNCHANGED <<profile, docker, tool, row, auth, object, old, new, level, body, bounds, clean>>

\* ... join the new one ...
JoinNetwork(w) ==
    /\ pc[w] = "join"
    /\ \/ /\ ~Refused(Network(new[w].networkMode))
          /\ joined' = joined \cup {Network(new[w].networkMode)}
          /\ Goto(w, "inspect")
          /\ UNCHANGED <<faults, clean>>
       \/ /\ Errs("connect", Refused(Network(new[w].networkMode)))
          /\ Fails(w)
          /\ UNCHANGED joined
    /\ UNCHANGED <<profile, docker, tool, row, auth, object, old, new, level, body, outages, visits>>

\* ... and read the address there.  A mode without a network of its name panics.
ReadAddress(w) ==
    /\ pc[w] = "inspect"
    /\ LET name == NetworkName(new[w].networkMode)
       IN  \/ /\ docker # "removed" /\ name \in joined
              /\ address' = name
              /\ Goto(w, IF new[w].configurable # old[w].configurable THEN "tool" ELSE "assign")
              /\ UNCHANGED <<registered, config, started, level, faults, clean>>
           \/ /\ docker # "removed" /\ name \notin joined
              /\ Panics(w)
              /\ UNCHANGED faults
           \/ /\ Errs("inspect", docker = "removed")
              /\ Fails(w)
              /\ UNCHANGED <<object, level>>
    /\ UNCHANGED <<profile, world, old, new, body, outages, visits>>

\* CopyTo works in a stopped container too; an error for one of its files comes after others.
CopyErrs == Errs("copy", docker = "removed")
\* Execute: docker runs nothing in a stopped container.
ExecErrs == Errs("exec", docker # "running")

\* setConfigurable copies the tool, looks up the gateway under the mode that the object
\* has now, and writes it with an exec; or removes all of it with an exec.
SetTool(w) ==
    /\ pc[w] = "tool"
    /\ LET known == NetworkName(config.networkMode) \in joined
       IN  \/ /\ docker = "running" /\ new[w].configurable => known
              /\ tool' = IF new[w].configurable THEN "installed" ELSE "absent"
              /\ Goto(w, "assign")
              /\ UNCHANGED <<object, level, faults, clean>>
           \/ /\ new[w].configurable /\ docker # "removed" /\ ~known
              /\ tool' = "partial"
              /\ Panics(w)
              /\ UNCHANGED faults
           \/ /\ \/ new[w].configurable /\ CopyErrs /\ tool' \in {tool, "partial"}
                 \/ new[w].configurable /\ CallFails("inspect") /\ tool' = "partial"
                 \/ new[w].configurable /\ known /\ ExecErrs /\ tool' = "partial"
                 \/ ~new[w].configurable /\ ExecErrs /\ tool' \in {tool, "partial"}
              /\ Fails(w)
              /\ UNCHANGED <<object, level>>
    /\ UNCHANGED <<profile, docker, joined, row, auth, old, new, body, outages, visits>>

\* updateConfig ends by changing the object; a request still has the rows to write.
Assign(w) ==
    /\ pc[w] = "assign"
    /\ config' = new[w]
    /\ IF w = Session THEN started' = TRUE /\ Goto(w, "enter")
                      ELSE UNCHANGED started /\ Goto(w, "store")
    /\ UNCHANGED <<profile, world, registered, address, old, new, level, body, bounds, clean>>

-------------------------------------------------------------------------------
(* The rows that UpdateConfig writes *)

\* Mutant of Defaults: one column has none.
DefaultsButMode == [networkMode |-> "", configurable |-> FALSE, runLevel |-> "User",
                    keepOnExit |-> FALSE]

\* The columns' defaults, for a row that an INSERT makes anew.
Defaults == [networkMode |-> "Host", configurable |-> FALSE, runLevel |-> "User",
             keepOnExit |-> FALSE]

\* Mutant of Changed: a field whose name the table does not know is skipped.
ChangedButMode(r) == {f \in Fields \ {"networkMode"} : new[r][f] # old[r][f]}

Changed(r) == {f \in Fields : new[r][f] # old[r][f]}

\* Mutant of Store: the row is replaced, not updated.
ReplaceRow(r) ==
    /\ pc[r] = "store" /\ \A f \in Changed(r) : Valid(f, new[r][f])
    /\ row' = [f \in Fields |-> IF f \in Changed(r) THEN new[r][f] ELSE Defaults[f]]
    /\ Goto(r, "auth")
    /\ UNCHANGED <<profile, docker, joined, tool, auth, object, old, new, level, body, bounds, clean>>

\* SetSettings: only the columns that changed, in a row that may not be there; the
\* checks of the table refuse a number out of range.
Store(r) ==
    /\ pc[r] = "store"
    /\ LET base == IF row = Nil THEN Defaults ELSE row
       IN  \/ /\ \A f \in Changed(r) : Valid(f, new[r][f])
              /\ row' = [f \in Fields |-> IF f \in Changed(r) THEN new[r][f] ELSE base[f]]
              /\ Goto(r, "auth")
              /\ UNCHANGED <<faults, clean>>
           \/ /\ Errs("store", \E f \in Changed(r) : ~Valid(f, new[r][f]))
              /\ Fails(r)
              /\ UNCHANGED row
    /\ UNCHANGED <<profile, docker, joined, tool, auth, object, old, new, level, body,
                   outages, visits>>

\* Mutant of StoreAuth: only for a container that was not kept before.
StoreAuthOnChange(r) ==
    /\ pc[r] = "auth"
    /\ auth' = (auth \/ (new[r].keepOnExit /\ ~old[r].keepOnExit))
    /\ Goto(r, "finish")
    /\ UNCHANGED <<profile, docker, joined, tool, row, object, old, new, level, body, bounds, clean>>

\* A container that is to be kept gets an auth row, if it has none.
StoreAuth(r) ==
    /\ pc[r] = "auth"
    /\ \/ /\ auth' = (auth \/ new[r].keepOnExit)
          /\ Goto(r, "finish")
          /\ UNCHANGED <<faults, clean>>
       \/ /\ new[r].keepOnExit /\ ~auth /\ CallFails("store")
          /\ Fails(r)
          /\ UNCHANGED auth
    /\ UNCHANGED <<profile, docker, joined, tool, row, object, old, new, level, body,
                   outages, visits>>

Finish(r) ==
    /\ pc[r] = "finish"
    /\ config' = new[r]
    /\ Goto(r, "ok")
    /\ UNCHANGED <<profile, world, registered, started, address, old, new, level, body, bounds, clean>>

-------------------------------------------------------------------------------

Kill ==
    /\ outages < MaxOutages /\ outages' = outages + 1
    /\ LoseMemory
    /\ UNCHANGED <<profile, world, old, new, body, faults, visits>>

\* getContainer has made the container, its object and its settings row.
Init ==
    /\ profile \in Profiles
    /\ docker = "stopped" /\ joined = {} /\ tool = "absent"
    /\ row = profile /\ auth = FALSE
    /\ registered = TRUE /\ config = profile /\ started = FALSE /\ address = Nil
    /\ pc = [w \in Workers |-> "idle"]
    /\ old = [w \in Workers |-> Nil] /\ new = [w \in Workers |-> Nil]
    /\ level = Nil
    /\ body = [r \in Requests |-> << >>]
    /\ faults = 0 /\ outages = 0 /\ visits = 0
    /\ clean = TRUE

SessionStep ==
    \/ Login \/ Start \/ Enter \/ Leave
    \/ Halt \/ Remove \/ DeleteAuth \/ DeleteSettings

UpdateConfig(w) == LeaveNetwork(w) \/ JoinNetwork(w) \/ ReadAddress(w) \/ SetTool(w) \/ Assign(w)

RequestStep(r) ==
    \/ \E asked \in Bodies : Post(r, asked)
    \/ Refuse(r) \/ Update(r) \/ Store(r) \/ StoreAuth(r) \/ Finish(r)

Next ==
    \/ SessionStep
    \/ \E r \in Requests : RequestStep(r)
    \/ \E w \in Workers : UpdateConfig(w)
    \/ Kill

Spec == Init /\ [][Next]_vars

-------------------------------------------------------------------------------
(* Properties *)

\* Every variable keeps its type; the network numbers that have no network, and the run
\* levels the table refuses, included (config.go:85-99 checks none).
TypeOK ==
    /\ profile \in Profiles
    /\ docker \in {"stopped", "running", "removed"}
    /\ joined \subseteq Networks
    /\ tool \in {"absent", "partial", "installed"}
    /\ row \in Config \cup {Nil} /\ auth \in BOOLEAN
    /\ registered \in BOOLEAN /\ started \in BOOLEAN
    /\ config \in Config \cup {Nil}
    /\ address \in Networks \cup {Nil}
    /\ pc \in [Workers -> Labels]
    /\ old \in [Workers -> Config \cup {Nil}] /\ new \in [Workers -> Config \cup {Nil}]
    /\ level \in RunLevels \cup {"Invalid", Nil}
    /\ body \in [Requests -> Bodies \cup {<< >>}]
    /\ faults \in Nat /\ outages \in Nat /\ visits \in Nat
    /\ clean \in BOOLEAN

\* The configuration of the object is the one in the database
\* (man/docker4ssh.conf.5:127, the database file "where all container specific
\* configurations are stored in"), as long as all requests that were made came one
\* after another and none of their steps failed.
StoredIsConfig == clean /\ Quiet /\ registered => config = row

\* Under the same conditions a container that was set up is on the network of its
\* mode and on no other, its object knows the address there, and it has the configure
\* tool if it is configurable (container.go:383-477).
DockerFollowsConfig ==
    clean /\ Quiet /\ registered /\ started =>
        /\ joined = {Network(config.networkMode)} /\ address \in joined
        /\ tool = IF config.configurable THEN "installed" ELSE "absent"

\* A removed container leaves no row, unless a request writes one while Stop is at
\* work, or a call fails (container.go:142 against database/settings.go:62).
RemovedLeavesNoSettings == clean /\ Quiet /\ docker = "removed" => row = Nil /\ ~auth

\* What the profile or a request has asked of field f.
Asked(f) == {profile[f]} \cup {body[r][f] : r \in {q \in Requests : f \in DOMAIN body[q]}}

\* Whatever overlaps, fails or crashes, each field of a living container's
\* configuration, in memory and in the row, has a value somebody asked for, and the row
\* a valid one: a lost update may bring an old value back, but never makes one up.
ConfigWasAsked ==
    /\ config # Nil => \A f \in Fields : config[f] \in Asked(f)
    /\ docker # "removed" =>
           row # Nil /\ \A f \in Fields : row[f] \in Asked(f) /\ Valid(f, row[f])

\* A container that its profile keeps is removed only if some request asked for it:
\* no crash, failure or race loses KeepOnExit (container.go:138).
KeptIsNotRemoved == docker = "removed" => FALSE \in Asked("keepOnExit")

\* A client who was answered that the container will be kept can come back to it: there
\* is an auth row, after retries, failures and races too (container.go:369-377).
KeptCanReturn ==
    \A r \in Requests :
        pc[r] = "ok" /\ "keepOnExit" \in DOMAIN body[r] /\ docker # "removed" =>
            (body[r].keepOnExit => auth)
===============================================================================
