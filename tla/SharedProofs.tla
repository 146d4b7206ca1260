------------------------------ MODULE SharedProofs ------------------------------
(***************************************************************************)
(* Proofs about Sessions for any clients, who may share containers and     *)
(* log in while others leave, where counts and registry lose no update:    *)
(* the count of an object is that of its terminals and the last session    *)
(* out stops the container, through restarts and failing calls; and until  *)
(* the server first ends the sessions implement Lifecycle.                 *)
(***************************************************************************)
EXTENDS SessionsProofs, FiniteSetTheorems

\* No update of shared memory is lost, and every query is answered.
Orderly == ~Tears /\ "query" \notin FailingCalls

Preparing == {"idle", "accept", "lookup", "open", "create"}
Fresh == {"open", "inspect", "record"}
Enlisted == {"running", "start", "setup", "config", "attach", "inc", "wait"}
Levelled == {"attach", "inc", "wait", "dec", "check"}
Counted == {"wait", "dec"}
Attending == {"setup", "config", "attach", "inc", "wait", "dec", "check", "stop"}
Stopping == {"remove", "deleteAuth", "deleteSettings", "unregister"}
Failed == {"startFailed", "stopFailed", "killed"}

\* A container that somebody has to do with was made.
MadeBefore ==
    /\ \A s \in Sessions : target[s] # None => docker[target[s]] # "absent"
    /\ \A s \in Sessions : pc[s] \in {"idle", "create"} => target[s] = None
    /\ \A c \in Containers :
          c \in auth \/ asked[c] # None \/ settings[c] # None => docker[c] # "absent"

\* Objects of one container have one configuration, that of its row.
ConfigsAgree ==
    /\ \A s \in Sessions : pc[s] \in Preparing => config[s] = None
    /\ \A s, t \in Sessions : config[s] # None /\ config[t] # None /\ target[s] = target[t]
          => config[s] = config[t]
    /\ \A s \in Sessions : config[s] # None =>
          target[s] # None /\ settings[target[s]] \in {config[s], None}
    /\ \A s \in Sessions : pc[s] \in Levelled => runLevel[s] = config[object[s]].runLevel

\* The sessions whose terminal is counted in object o.
Terminals(o) == {s \in Sessions : object[s] = o /\ pc[s] \in Counted}

\* The count of an object is the number of its terminals.
CountsTerminals ==
    \A o \in Sessions : IsFiniteSet(Terminals(o)) /\ terminalCount[o] = Cardinality(Terminals(o))

\* A container of run level User that runs has somebody who will stop it, or failed to.
RunningIsAttended ==
    \A c \in Containers :
        docker[c] = "running" /\ settings[c].runLevel = "User" =>
            \E s \in Sessions : target[s] = c /\ pc[s] \in Attending \cup Failed

Attended == MadeBefore /\ ConfigsAgree /\ CountsTerminals /\ RunningIsAttended

\* The inductive invariant.
SInv == IInv /\ Attended

-------------------------------------------------------------------------------
(* What the parts depend on *)

\* A session that moves, and no other.
LEMMA MovesTo ==
    ASSUME TypeOK, NEW s \in Sessions, NEW label, Goto(s, label)
    PROVE  \A t \in Sessions : pc'[t] = IF t = s THEN label ELSE pc[t]
BY DEF TypeOK, Goto

\* A session that works has an object of its container, with a configuration.
LEMMA WorkersHaveObjects ==
    ASSUME IInv, NEW s \in Sessions, pc[s] \in Working
    PROVE  /\ object[s] \in Sessions /\ target[s] \in Containers
           /\ target[object[s]] = target[s] /\ pc[object[s]] \in PastRecord
           /\ config[object[s]] \in Config /\ config[object[s]] # None
BY NoneIsNothing DEF IInv, SharedObjectsAgree, SessionAgrees, Owned

\* So has an entry of the registry, and a closer.
LEMMA EntriesHaveObjects ==
    ASSUME IInv
    PROVE  /\ \A i \in DOMAIN allContainers :
                 /\ allContainers[i] \in Sessions /\ pc[allContainers[i]] \in PastRecord
                 /\ target[allContainers[i]] \in Containers
           /\ \A i \in DOMAIN closers :
                 /\ closers[i].object \in Sessions /\ pc[closers[i].object] \in PastRecord
                 /\ target[closers[i].object] \in Containers
                 /\ config[closers[i].object] \in Config
                 /\ closers[i].at \in StopLabels
BY EntriesAreObjects DEF IInv, SharedObjectsAgree, EntryAgrees, CloserAgrees, Owned

\* A registry that stays holds the same objects of each container.
LEMMA RegistryStays ==
    ASSUME IInv, UNCHANGED allContainers,
           \A t \in Sessions : pc[t] \in PastRecord => target'[t] = target[t]
    PROVE  /\ \A c : Registered(c)' = Registered(c)
           /\ \A o : Positions(o)' = Positions(o)
BY EntriesHaveObjects DEF Registered, Positions

\* Configurations that stay agree, if a level is copied from them.
LEMMA ConfigsStay ==
    ASSUME ConfigsAgree, UNCHANGED <<config, settings, target>>,
           \A t \in Sessions : pc'[t] \in Preparing => pc[t] \in Preparing,
           \A t \in Sessions : pc'[t] \in Levelled =>
              \/ pc[t] \in Levelled /\ object'[t] = object[t] /\ runLevel'[t] = runLevel[t]
              \/ runLevel'[t] = config[object'[t]].runLevel
    PROVE  ConfigsAgree'
BY DEF ConfigsAgree

\* Containers that stay made are made before somebody has to do with them.
LEMMA MadeStays ==
    ASSUME TypeOK, MadeBefore, UNCHANGED target,
           \A c \in Containers : docker[c] # "absent" => docker'[c] # "absent",
           \A t \in Sessions : pc'[t] \in {"idle", "create"} => pc[t] \in {"idle", "create"},
           \A c \in Containers :
              c \in auth' \/ asked'[c] # None \/ settings'[c] # None => docker[c] # "absent"
    PROVE  MadeBefore'
<1>1. target \in [Sessions -> Containers \cup {None}]
  BY DEF TypeOK
<1>2. \A t \in Sessions : target'[t] # None => docker'[target'[t]] # "absent"
  BY <1>1 DEF MadeBefore
<1> QED BY <1>2 DEF MadeBefore

\* Counts that stay are right if nobody attaches or leaves.
LEMMA TerminalsStay ==
    ASSUME CountsTerminals, UNCHANGED terminalCount,
           \A t \in Sessions : pc'[t] \in Counted <=> pc[t] \in Counted,
           \A t \in Sessions : pc[t] \in Counted => object'[t] = object[t]
    PROVE  CountsTerminals'
<1>1. \A o \in Sessions : Terminals(o)' = Terminals(o)
  BY DEF Terminals
<1> QED BY <1>1 DEF CountsTerminals

\* Containers stay attended if each start is by somebody who attends, and whoever ceases to
\* attend a container leaves it stopped, or not of run level User, or to somebody else.
LEMMA AttendanceStays ==
    ASSUME IInv, RunningIsAttended,
           \A c \in Containers : docker'[c] = "running" =>
              \/ docker[c] = "running" /\ settings'[c] = settings[c]
              \/ \E t \in Sessions : target'[t] = c /\ pc'[t] \in Attending,
           \A t \in Sessions : pc[t] \in Attending \cup Failed => target'[t] = target[t],
           \A t \in Sessions :
              pc[t] \in Attending \cup Failed =>
                 \/ pc'[t] \in Attending \cup Failed
                 \/ docker'[target[t]] # "running" \/ settings[target[t]].runLevel # "User"
                 \/ \E u \in Sessions : target'[u] = target[t] /\ pc'[u] \in Attending
    PROVE  RunningIsAttended'
<1> SUFFICES ASSUME NEW c \in Containers, docker'[c] = "running", settings'[c].runLevel = "User"
             PROVE  \E t \in Sessions : target'[t] = c /\ pc'[t] \in Attending \cup Failed
  BY DEF RunningIsAttended
<1>1. CASE docker[c] = "running" /\ settings'[c] = settings[c]
  <2>1. PICK t \in Sessions : target[t] = c /\ pc[t] \in Attending \cup Failed
    BY <1>1 DEF RunningIsAttended
  <2> QED BY <1>1, <2>1
<1>2. CASE \E t \in Sessions : target'[t] = c /\ pc'[t] \in Attending
  BY <1>2
<1> QED BY <1>1, <1>2

-------------------------------------------------------------------------------
(* Steps of one session *)

\* A step of one session that neither opens, starts, counts, stops nor copies a level.
LEMMA QuietKeeps ==
    ASSUME SInv, NEW s \in Sessions,
           \/ Accept(s) \/ Lookup(s) \/ Inspect(s) \/ CreateFails(s) \/ Scan(s) \/ Register(s)
           \/ CheckRunning(s) \/ Setup(s) \/ Attach(s) \/ StreamEnds(s) \/ Unregister(s)
    PROVE  Attended'
<1> USE DEF envVars, storeVars, objectVars, localVars
<1>1. TypeOK
  BY DEF SInv, IInv
<1>2. UNCHANGED <<docker, settings, auth, asked, config, terminalCount, target, runLevel>>
  BY DEF Accept, Lookup, Inspect, CreateFails, Scan, Register, CheckRunning, Setup, Attach,
         StreamEnds, Unregister
<1>3. PICK label \in Labels :
         /\ Goto(s, label)
         /\ label \notin {"idle", "create"}
         /\ label \in Preparing => pc[s] \in Preparing
         /\ label \in Levelled => pc[s] \in Levelled
         /\ label \in Counted <=> pc[s] \in Counted
         /\ pc[s] \in Attending \cup Failed => label \in Attending \cup Failed
  <2> USE DEF Labels, Over, StopLabels, Preparing, Levelled, Counted, Attending, Failed
  <2>1. CASE Accept(s) \/ Lookup(s) \/ Inspect(s) \/ CreateFails(s)
    BY <2>1 DEF Accept, Lookup, Inspect, CreateFails
  <2>2. CASE Scan(s) \/ Register(s) \/ CheckRunning(s) \/ Unregister(s)
    BY <2>2 DEF Scan, Register, CheckRunning, Unregister
  <2>3. CASE Setup(s) \/ Attach(s) \/ StreamEnds(s)
    BY <2>3 DEF Setup, Attach, StreamEnds
  <2> QED BY <2>1, <2>2, <2>3
<1>4. \A t \in Sessions : pc'[t] = IF t = s THEN label ELSE pc[t]
  BY <1>1, <1>3, MovesTo
<1>5. \A t \in Sessions : object'[t] = object[t] \/ (t = s /\ pc[s] \in {"lookup", "inspect"})
  BY <1>1 DEF TypeOK, Accept, Lookup, Inspect, CreateFails, Scan, Register, CheckRunning, Setup,
              Attach, StreamEnds, Unregister
<1>6. MadeBefore'
  BY <1>1, <1>2, <1>3, <1>4, MadeStays DEF SInv, Attended, MadeBefore
<1>7. CountsTerminals'
  <2>1. \A t \in Sessions : pc'[t] \in Counted <=> pc[t] \in Counted
    BY <1>3, <1>4
  <2>2. \A t \in Sessions : pc[t] \in Counted => object'[t] = object[t]
    BY <1>5 DEF Counted
  <2> QED BY <1>2, <2>1, <2>2, TerminalsStay DEF SInv, Attended
<1>8. ConfigsAgree'
  <2>1. \A t \in Sessions : pc'[t] \in Preparing => pc[t] \in Preparing
    BY <1>3, <1>4
  <2>2. \A t \in Sessions : pc'[t] \in Levelled => pc[t] \in Levelled
    BY <1>3, <1>4
  <2>3. \A t \in Sessions : pc[t] \in Levelled => object'[t] = object[t]
    BY <1>5 DEF Levelled
  <2> QED BY <1>2, <2>1, <2>2, <2>3, ConfigsStay DEF SInv, Attended
<1>9. RunningIsAttended'
  <2>1. \A t \in Sessions : pc[t] \in Attending \cup Failed => pc'[t] \in Attending \cup Failed
    BY <1>3, <1>4
  <2> QED BY <1>2, <2>1, AttendanceStays DEF SInv, Attended
<1> QED BY <1>6, <1>7, <1>8, <1>9 DEF Attended

\* A session that opens a saved container takes the configuration every object of it has.
LEMMA OpenKeeps ==
    ASSUME SInv, NEW s \in Sessions, Open(s)
    PROVE  Attended'
<1> USE DEF envVars, storeVars, objectVars, localVars
<1>1. TypeOK
  BY DEF SInv, IInv
<1>2. /\ pc[s] = "open" /\ target[s] \in Containers
      /\ UNCHANGED <<docker, settings, auth, asked, terminalCount, target, object, runLevel>>
  BY DEF Open, SInv, IInv, SharedObjectsAgree, SessionAgrees
<1>3. PICK label \in {"inspect", "failed"} : Goto(s, label)
  BY DEF Open
<1>4. \A t \in Sessions : pc'[t] = IF t = s THEN label ELSE pc[t]
  BY <1>1, <1>3, MovesTo
<1>5. MadeBefore'
  BY <1>1, <1>2, <1>4, MadeStays DEF SInv, Attended, MadeBefore
<1>6. CountsTerminals'
  BY <1>2, <1>4, TerminalsStay DEF SInv, Attended, Counted
<1>7. RunningIsAttended'
  <2>1. \A t \in Sessions : pc[t] \in Attending \cup Failed => pc'[t] \in Attending \cup Failed
    BY <1>2, <1>4 DEF Attending, Failed
  <2> QED BY <1>2, <2>1, AttendanceStays DEF SInv, Attended
<1>8. CASE UNCHANGED config
  <2>1. \A t \in Sessions : /\ pc'[t] \in Preparing => pc[t] \in Preparing
                            /\ pc'[t] \in Levelled => pc[t] \in Levelled
    BY <1>4 DEF Preparing, Levelled
  <2>2. ConfigsAgree'
    BY <1>2, <1>8, <2>1, ConfigsStay DEF SInv, Attended
  <2> QED BY <1>5, <1>6, <1>7, <2>2 DEF Attended
<1>9. CASE settings[target[s]] # None /\ config' = [config EXCEPT ![s] = settings[target[s]]]
  <2> DEFINE row == settings[target[s]]
  <2>1. /\ row # None /\ config'[s] = row /\ \A t \in Sessions \ {s} : config'[t] = config[t]
    BY <1>1, <1>9 DEF TypeOK
  <2>2. \A t \in Sessions : config[t] # None =>
           target[t] # None /\ settings[target[t]] \in {config[t], None}
    BY DEF SInv, Attended, ConfigsAgree
  <2>3. \A t \in Sessions : pc'[t] \in Preparing => config'[t] = None
    BY <1>4, <2>1 DEF SInv, Attended, ConfigsAgree, Preparing
  <2>4. \A t \in Sessions : config'[t] # None =>
           target'[t] # None /\ settings'[target'[t]] \in {config'[t], None}
    BY <1>2, <2>1, <2>2, NoneIsNothing
  <2>5. \A t, u \in Sessions :
           config'[t] # None /\ config'[u] # None /\ target'[t] = target'[u]
           => config'[t] = config'[u]
    <3>1. \A t \in Sessions : config'[t] # None /\ target[t] = target[s] => config'[t] = row
      BY <2>1, <2>2
    <3> QED BY <1>2, <2>1, <3>1 DEF SInv, Attended, ConfigsAgree
  <2>6. \A t \in Sessions : pc'[t] \in Levelled => runLevel'[t] = config'[object'[t]].runLevel
    <3> SUFFICES ASSUME NEW t \in Sessions, pc'[t] \in Levelled
                 PROVE  runLevel[t] = config'[object[t]].runLevel
      BY <1>2
    <3>1. pc[t] \in Levelled /\ pc[t] \in Working
      BY <1>4 DEF Levelled, Working
    <3>2. object[t] \in Sessions /\ pc[object[t]] \in PastRecord
      BY <3>1, WorkersHaveObjects DEF SInv
    <3>3. object[t] # s
      BY <1>2, <3>2 DEF PastRecord, Working
    <3> QED BY <2>1, <3>1, <3>2, <3>3 DEF SInv, Attended, ConfigsAgree
  <2>7. ConfigsAgree'
    BY <2>3, <2>4, <2>5, <2>6 DEF ConfigsAgree
  <2> QED BY <1>5, <1>6, <1>7, <2>7 DEF Attended
<1> QED BY <1>8, <1>9 DEF Open

\* A row that a session writes is the configuration of every object of its container.
LEMMA RecordKeeps ==
    ASSUME SInv, NEW s \in Sessions, Record(s)
    PROVE  Attended'
<1> USE DEF envVars, storeVars, objectVars, localVars
<1>1. TypeOK
  BY DEF SInv, IInv
<1>2. /\ pc[s] = "record" /\ target[s] \in Containers /\ docker[target[s]] # "absent"
      /\ config[s] \in Config /\ config[s] # None
      /\ UNCHANGED <<docker, auth, asked, terminalCount, target, object, runLevel, config>>
  BY NoneIsNothing DEF Record, SInv, IInv, SharedObjectsAgree, SessionAgrees
<1>3. PICK label \in {"scan", "failed"} : Goto(s, label)
  BY DEF Record
<1>4. \A t \in Sessions : pc'[t] = IF t = s THEN label ELSE pc[t]
  BY <1>1, <1>3, MovesTo
<1>5. \/ UNCHANGED settings
      \/ /\ settings[target[s]] = None /\ settings'[target[s]] = config[s]
         /\ \A c \in Containers \ {target[s]} : settings'[c] = settings[c]
  BY <1>1, <1>2 DEF Record, TypeOK
<1>6. MadeBefore'
  BY <1>1, <1>2, <1>4, <1>5, MadeStays DEF SInv, Attended, MadeBefore
<1>7. CountsTerminals'
  BY <1>2, <1>4, TerminalsStay DEF SInv, Attended, Counted
<1>8. RunningIsAttended'
  <2>1. \A t \in Sessions : pc[t] \in Attending \cup Failed => pc'[t] \in Attending \cup Failed
    BY <1>2, <1>4 DEF Attending, Failed
  <2>2. \A c \in Containers : docker[c] = "running" => settings'[c] = settings[c]
    BY <1>5 DEF SInv, IInv, RunningIsRecorded
  <2> QED BY <1>2, <2>1, <2>2, AttendanceStays DEF SInv, Attended
<1>9. ConfigsAgree'
  <2>1. \A t \in Sessions : config[t] # None => target[t] \in Containers
    BY <1>1 DEF TypeOK, SInv, Attended, ConfigsAgree
  <2>2. \A t \in Sessions : config[t] # None =>
           target[t] # None /\ settings'[target[t]] \in {config[t], None}
    BY <1>2, <1>5, <2>1 DEF SInv, Attended, ConfigsAgree
  <2>3. \A t \in Sessions : /\ pc'[t] \in Preparing => pc[t] \in Preparing
                            /\ pc'[t] \in Levelled => pc[t] \in Levelled
    BY <1>4 DEF Preparing, Levelled
  <2> QED BY <1>2, <2>2, <2>3 DEF SInv, Attended, ConfigsAgree
<1> QED BY <1>6, <1>7, <1>8, <1>9 DEF Attended

\* A container that a session creates is new to all the others.
LEMMA CreateKeeps ==
    ASSUME SInv, NEW s \in Sessions, NEW c \in Containers, NEW profile \in Profiles,
           Create(s, c, profile)
    PROVE  Attended'
<1> USE DEF envVars, storeVars, objectVars, localVars
<1>1. TypeOK
  BY DEF SInv, IInv
<1>2. /\ pc[s] = "create" /\ docker[c] = "absent"
      /\ UNCHANGED <<auth, asked, settings, terminalCount, runLevel>>
  BY DEF Create
<1>3. \A t \in Sessions : pc'[t] = IF t = s THEN "record" ELSE pc[t]
  BY <1>1, MovesTo DEF Create
<1>4. /\ target'[s] = c /\ object'[s] = s /\ config'[s] = profile
      /\ \A t \in Sessions \ {s} :
            target'[t] = target[t] /\ object'[t] = object[t] /\ config'[t] = config[t]
  BY <1>1 DEF TypeOK, Create
<1>5. docker'[c] = "stopped" /\ \A d \in Containers \ {c} : docker'[d] = docker[d]
  BY <1>1 DEF TypeOK, Create
<1>6. profile # None /\ c # None
  BY ProfilesAreConfigs, NoneIsNothing
<1>7. /\ \A t \in Sessions : target[t] # c
      /\ c \notin auth /\ asked[c] = None /\ settings[c] = None
  BY <1>2, <1>6 DEF SInv, Attended, MadeBefore
<1>8. MadeBefore'
  <2>1. target \in [Sessions -> Containers \cup {None}]
    BY <1>1 DEF TypeOK
  <2>2. \A t \in Sessions : target'[t] # None => docker'[target'[t]] # "absent"
    BY <1>4, <1>5, <2>1 DEF SInv, Attended, MadeBefore
  <2>3. \A t \in Sessions : pc'[t] \in {"idle", "create"} => target'[t] = None
    BY <1>3, <1>4 DEF SInv, Attended, MadeBefore
  <2>4. \A d \in Containers :
           d \in auth' \/ asked'[d] # None \/ settings'[d] # None => docker'[d] # "absent"
    BY <1>2, <1>5 DEF SInv, Attended, MadeBefore
  <2> QED BY <2>2, <2>3, <2>4 DEF MadeBefore
<1>9. CountsTerminals'
  <2>1. \A t \in Sessions : pc'[t] \in Counted <=> pc[t] \in Counted
    BY <1>2, <1>3 DEF Counted
  <2>2. \A t \in Sessions : pc[t] \in Counted => object'[t] = object[t]
    BY <1>2, <1>4 DEF Counted
  <2> QED BY <1>2, <2>1, <2>2, TerminalsStay DEF SInv, Attended
<1>10. ConfigsAgree'
  <2>1. \A t \in Sessions : pc'[t] \in Preparing => config'[t] = None
    BY <1>3, <1>4 DEF Preparing, SInv, Attended, ConfigsAgree
  <2>2. \A t, u \in Sessions :
           config'[t] # None /\ config'[u] # None /\ target'[t] = target'[u]
           => config'[t] = config'[u]
    BY <1>4, <1>7 DEF SInv, Attended, ConfigsAgree
  <2>3. \A t \in Sessions : config'[t] # None =>
           target'[t] # None /\ settings'[target'[t]] \in {config'[t], None}
    BY <1>2, <1>4, <1>6, <1>7 DEF SInv, Attended, ConfigsAgree
  <2>4. \A t \in Sessions : pc'[t] \in Levelled => runLevel'[t] = config'[object'[t]].runLevel
    <3> SUFFICES ASSUME NEW t \in Sessions, pc'[t] \in Levelled
                 PROVE  runLevel[t] = config'[object'[t]].runLevel
      BY <1>2
    <3>1. t # s /\ pc[t] \in Levelled /\ pc[t] \in Working
      BY <1>3 DEF Levelled, Working
    <3>2. object[t] \in Sessions /\ pc[object[t]] \in PastRecord
      BY <3>1, WorkersHaveObjects DEF SInv
    <3>3. object[t] # s
      BY <1>2, <3>2 DEF PastRecord, Working
    <3> QED BY <1>4, <3>1, <3>2, <3>3 DEF SInv, Attended, ConfigsAgree
  <2> QED BY <2>1, <2>2, <2>3, <2>4 DEF ConfigsAgree
<1>11. RunningIsAttended'
  <2>1. \A t \in Sessions : pc[t] \in Attending \cup Failed => t # s
    BY <1>2 DEF Attending, Failed
  <2>2. \A d \in Containers :
           docker'[d] = "running" => docker[d] = "running" /\ settings'[d] = settings[d]
    BY <1>2, <1>5
  <2>3. \A t \in Sessions : pc[t] \in Attending \cup Failed =>
           target'[t] = target[t] /\ pc'[t] = pc[t]
    BY <1>3, <1>4, <2>1
  <2> QED BY <2>2, <2>3, AttendanceStays DEF SInv, Attended
<1> QED BY <1>8, <1>9, <1>10, <1>11 DEF Attended

\* Whoever starts a container attends it, or fails to.
LEMMA StartKeeps ==
    ASSUME SInv, NEW s \in Sessions, StartContainer(s)
    PROVE  Attended'
<1> USE DEF envVars, storeVars, objectVars, localVars
<1>1. TypeOK
  BY DEF SInv, IInv
<1>2. /\ pc[s] = "start" /\ target[s] \in Containers
      /\ UNCHANGED <<settings, auth, asked, terminalCount, target, object, runLevel, config>>
  BY WorkersHaveObjects DEF StartContainer, SInv, Working
<1>3. PICK label \in {"config", "setup", "startFailed"} :
         /\ Goto(s, label)
         /\ \/ UNCHANGED docker
            \/ /\ label # "startFailed" /\ Exists(target[s])
               /\ docker' = [docker EXCEPT ![target[s]] = "running"]
  BY DEF StartContainer
<1>4. \A t \in Sessions : pc'[t] = IF t = s THEN label ELSE pc[t]
  BY <1>1, <1>3, MovesTo
<1>5. \A c \in Containers :
         \/ docker'[c] = docker[c]
         \/ c = target[s] /\ docker[c] # "absent" /\ docker'[c] = "running" /\ label \in Attending
  BY <1>1, <1>2, <1>3 DEF TypeOK, Attending, Exists
<1>6. MadeBefore'
  BY <1>1, <1>2, <1>4, <1>5, MadeStays DEF SInv, Attended, MadeBefore
<1>7. CountsTerminals'
  BY <1>2, <1>4, TerminalsStay DEF SInv, Attended, Counted
<1>8. ConfigsAgree'
  <2>1. \A t \in Sessions : /\ pc'[t] \in Preparing => pc[t] \in Preparing
                            /\ pc'[t] \in Levelled => pc[t] \in Levelled
    BY <1>4 DEF Preparing, Levelled
  <2> QED BY <1>2, <2>1, ConfigsStay DEF SInv, Attended
<1>9. RunningIsAttended'
  <2>1. \A t \in Sessions : pc[t] \in Attending \cup Failed => pc'[t] \in Attending \cup Failed
    BY <1>2, <1>4 DEF Attending, Failed
  <2>2. pc'[s] = label /\ target'[s] = target[s]
    BY <1>2, <1>4
  <2>3. \A c \in Containers : docker'[c] = "running" =>
           \/ docker[c] = "running" /\ settings'[c] = settings[c]
           \/ \E t \in Sessions : target'[t] = c /\ pc'[t] \in Attending
    BY <1>2, <1>5, <2>2
  <2> QED BY <1>2, <2>1, <2>3, AttendanceStays DEF SInv, Attended
<1> QED BY <1>6, <1>7, <1>8, <1>9 DEF Attended

\* The run level a session acts on is that of its object (connection.go:69).
LEMMA CopyConfigKeeps ==
    ASSUME SInv, NEW s \in Sessions, CopyConfig(s)
    PROVE  Attended'
<1> USE DEF envVars, storeVars, objectVars, localVars
<1>1. TypeOK
  BY DEF SInv, IInv
<1>2. /\ pc[s] = "config" /\ runLevel'[s] = config[object[s]].runLevel
      /\ \A t \in Sessions \ {s} : runLevel'[t] = runLevel[t]
      /\ UNCHANGED <<docker, settings, auth, asked, terminalCount, target, object, config>>
  BY <1>1 DEF CopyConfig, TypeOK
<1>3. \A t \in Sessions : pc'[t] = IF t = s THEN "attach" ELSE pc[t]
  BY <1>1, MovesTo DEF CopyConfig
<1>4. MadeBefore'
  BY <1>1, <1>2, <1>3, MadeStays DEF SInv, Attended, MadeBefore
<1>5. CountsTerminals'
  BY <1>2, <1>3, TerminalsStay DEF SInv, Attended, Counted
<1>6. ConfigsAgree'
  <2>1. \A t \in Sessions : /\ pc'[t] \in Preparing => pc[t] \in Preparing
                            /\ pc'[t] \in Levelled => pc[t] \in Levelled \/ t = s
    BY <1>3 DEF Preparing, Levelled
  <2> QED BY <1>2, <2>1, ConfigsStay DEF SInv, Attended
<1>7. RunningIsAttended'
  <2>1. \A t \in Sessions : pc[t] \in Attending \cup Failed => pc'[t] \in Attending \cup Failed
    BY <1>2, <1>3 DEF Attending
  <2> QED BY <1>2, <2>1, AttendanceStays DEF SInv, Attended
<1> QED BY <1>4, <1>5, <1>6, <1>7 DEF Attended

\* A terminal that opens is counted, and one that closes is counted out.
LEMMA CountKeeps ==
    ASSUME SInv, Orderly, NEW s \in Sessions, CountIn(s) \/ CountOut(s)
    PROVE  Attended'
<1> USE DEF envVars, storeVars, objectVars, localVars
<1>1. TypeOK
  BY DEF SInv, IInv
<1>2. /\ pc[s] \in {"inc", "dec"} /\ object[s] \in Sessions
      /\ UNCHANGED <<docker, settings, auth, asked, target, object, config, runLevel>>
  BY WorkersHaveObjects DEF CountIn, CountOut, SInv, Working
<1>3. PICK label \in {"wait", "check"} :
         /\ Goto(s, label)
         /\ label = "wait" <=> pc[s] = "inc"
         /\ StoreCount(s, IF label = "wait" THEN 1 ELSE -1)
  BY DEF CountIn, CountOut
<1>4. \A t \in Sessions : pc'[t] = IF t = s THEN label ELSE pc[t]
  BY <1>1, <1>3, MovesTo
<1>5. MadeBefore'
  BY <1>1, <1>2, <1>4, MadeStays DEF SInv, Attended, MadeBefore
<1>6. ConfigsAgree'
  <2>1. \A t \in Sessions : /\ pc'[t] \in Preparing => pc[t] \in Preparing
                            /\ pc'[t] \in Levelled => pc[t] \in Levelled
    BY <1>2, <1>4 DEF Preparing, Levelled
  <2> QED BY <1>2, <2>1, ConfigsStay DEF SInv, Attended
<1>7. RunningIsAttended'
  <2>1. \A t \in Sessions : pc[t] \in Attending \cup Failed => pc'[t] \in Attending \cup Failed
    BY <1>4 DEF Attending
  <2> QED BY <1>2, <2>1, AttendanceStays DEF SInv, Attended
<1>8. CountsTerminals'
  <2> DEFINE o == object[s]
             n == terminalCount[o]
  <2>1. /\ terminalCount \in [Sessions -> Int] /\ n \in Int
        /\ IsFiniteSet(Terminals(o)) /\ n = Cardinality(Terminals(o))
    BY <1>1, <1>2 DEF TypeOK, SInv, Attended, CountsTerminals
  <2>2. terminalCount' = [terminalCount EXCEPT ![o] = n + (IF label = "wait" THEN 1 ELSE -1)]
    BY <1>3 DEF StoreCount, Loaded, Orderly
  <2>3. \A p \in Sessions \ {o} :
           Terminals(p)' = Terminals(p) /\ terminalCount'[p] = terminalCount[p]
    BY <1>2, <1>4, <2>1, <2>2 DEF Terminals
  <2>4. IsFiniteSet(Terminals(o)') /\ terminalCount'[o] = Cardinality(Terminals(o)')
    <3>1. CASE label = "wait"
      <4>1. s \notin Terminals(o) /\ Terminals(o)' = Terminals(o) \cup {s}
        BY <1>2, <1>3, <1>4, <3>1 DEF Terminals, Counted
      <4>2. terminalCount'[o] = n + 1
        BY <1>2, <2>1, <2>2, <3>1
      <4> HIDE DEF n
      <4> QED BY <2>1, <4>1, <4>2, FS_AddElement
    <3>2. CASE label = "check"
      <4>1. s \in Terminals(o) /\ Terminals(o)' = Terminals(o) \ {s}
        BY <1>2, <1>3, <1>4, <3>2 DEF Terminals, Counted
      <4>2. terminalCount'[o] = n - 1
        BY <1>2, <2>1, <2>2, <3>2
      <4> HIDE DEF n
      <4> QED BY <2>1, <4>1, <4>2, FS_RemoveElement
    <3> QED BY <3>1, <3>2
  <2>5. o' = o
    BY <1>2
  <2> HIDE DEF o, n
  <2>6. \A p \in Sessions :
           IsFiniteSet(Terminals(p)') /\ terminalCount'[p] = Cardinality(Terminals(p)')
    <3> SUFFICES ASSUME NEW p \in Sessions
                 PROVE  IsFiniteSet(Terminals(p)') /\ terminalCount'[p] = Cardinality(Terminals(p)')
      OBVIOUS
    <3>1. CASE p = o
      BY <2>4, <2>5, <3>1
    <3>2. CASE p # o
      BY <2>3, <3>2 DEF SInv, Attended, CountsTerminals
    <3> QED BY <3>1, <3>2
  <2> QED BY <2>6 DEF CountsTerminals
<1> QED BY <1>5, <1>6, <1>7, <1>8 DEF Attended

\* Whoever does not stop the container it leaves, leaves it to a terminal that is counted in
\* the same object (connection.go:89).
LEMMA CheckKeeps ==
    ASSUME SInv, NEW s \in Sessions, Check(s)
    PROVE  Attended'
<1> USE DEF envVars, storeVars, objectVars, localVars
<1>1. TypeOK
  BY DEF SInv, IInv
<1>2. /\ pc[s] = "check"
      /\ UNCHANGED <<docker, settings, auth, asked, target, object, config, runLevel,
                     terminalCount>>
  BY DEF Check
<1>3. PICK label \in {"stop", "done"} :
         Goto(s, label) /\ (label = "done" => runLevel[s] # "User" \/ terminalCount[object[s]] # 0)
  BY DEF Check
<1>4. \A t \in Sessions : pc'[t] = IF t = s THEN label ELSE pc[t]
  BY <1>1, <1>3, MovesTo
<1>5. MadeBefore'
  BY <1>1, <1>2, <1>4, MadeStays DEF SInv, Attended, MadeBefore
<1>6. CountsTerminals'
  BY <1>2, <1>4, TerminalsStay DEF SInv, Attended, Counted
<1>7. ConfigsAgree'
  <2>1. \A t \in Sessions : /\ pc'[t] \in Preparing => pc[t] \in Preparing
                            /\ pc'[t] \in Levelled => pc[t] \in Levelled
    BY <1>2, <1>4 DEF Preparing, Levelled
  <2> QED BY <1>2, <2>1, ConfigsStay DEF SInv, Attended
<1>8. /\ object[s] \in Sessions /\ target[s] \in Containers /\ target[object[s]] = target[s]
      /\ config[object[s]] # None
  BY <1>2, WorkersHaveObjects DEF SInv, Working
<1>9. \/ pc'[s] \in Attending
      \/ docker'[target[s]] # "running" \/ settings[target[s]].runLevel # "User"
      \/ \E t \in Sessions : target'[t] = target[s] /\ pc'[t] \in Attending
  <2>1. CASE label = "stop"
    BY <1>4, <2>1 DEF Attending
  <2>2. CASE label = "done" /\ runLevel[s] # "User"
    <3>1. runLevel[s] = config[object[s]].runLevel
      BY <1>2 DEF SInv, Attended, ConfigsAgree, Levelled
    <3>2. docker[target[s]] = "running" => settings[target[s]] = config[object[s]]
      BY <1>8 DEF SInv, IInv, RunningIsRecorded, Attended, ConfigsAgree
    <3> QED BY <1>2, <2>2, <3>1, <3>2
  <2>3. CASE label = "done" /\ terminalCount[object[s]] # 0
    <3>1. Terminals(object[s]) # {}
      BY <1>8, <2>3, FS_EmptySet DEF SInv, Attended, CountsTerminals
    <3>2. PICK t \in Sessions : object[t] = object[s] /\ pc[t] \in Counted
      BY <3>1 DEF Terminals
    <3>3. t # s /\ pc[t] \in Working /\ pc[t] \in Attending
      BY <1>2, <3>2 DEF Counted, Working, Attending
    <3>4. target[t] = target[s]
      BY <1>8, <3>2, <3>3, WorkersHaveObjects DEF SInv
    <3> QED BY <1>2, <1>4, <3>3, <3>4
  <2> QED BY <1>3, <2>1, <2>2, <2>3
<1>10. RunningIsAttended'
  <2>1. \A t \in Sessions : t # s => pc'[t] = pc[t]
    BY <1>4
  <2> QED BY <1>2, <1>9, <2>1, AttendanceStays DEF SInv, Attended
<1> QED BY <1>5, <1>6, <1>7, <1>10 DEF Attended

-------------------------------------------------------------------------------
(* Steps that stop a container, or leave it alone *)

\* A step of Stop changes docker and the rows of its container alone.
LEMMA StopStepAlone ==
    ASSUME IInv, MadeBefore, NEW o \in Sessions, target[o] \in Containers, NEW at, NEW next,
           StopStep(o, at, next),
           at \in {"deleteAuth", "deleteSettings"} => docker[target[o]] = "removed"
    PROVE  /\ \A c \in Containers :
                 /\ docker[c] = "removed" => docker'[c] = "removed"
                 /\ docker[c] # "absent" => docker'[c] # "absent"
                 /\ docker'[c] = "running" => docker[c] = "running"
                 /\ docker'[c] = "removed" =>
                       docker[c] = "removed" \/ (c = target[o] /\ Exists(c) /\ at = "remove")
                 /\ c \in auth' => docker[c] # "absent"
                 /\ settings'[c] = settings[c] \/ (docker[c] = "removed" /\ settings'[c] = None)
           /\ at = "stop" => next = "stopFailed" \/ docker'[target[o]] # "running"
           /\ at \in {"stop", "remove", "deleteAuth", "deleteSettings"}
           /\ next \in {"remove", "deleteAuth", "deleteSettings", "unregister", "stopFailed"}
           /\ next \in Stopping => docker'[target[o]] # "running"
           /\ next = "unregister" => docker'[target[o]] = "removed" \/ config[o].keepOnExit
           /\ next = "remove" => ~config[o].keepOnExit
<1> USE DEF IInv, TypeOK, storeVars, MadeBefore
<1>1. CASE at = "stop"
  BY <1>1 DEF StopStep, HaltStep, Exists, Stopping
<1>2. CASE at = "remove"
  BY <1>2 DEF StopStep, RemoveStep, Exists, Stopping
<1>3. CASE at = "deleteAuth"
  BY <1>3 DEF StopStep, DeleteAuthStep, Stopping
<1>4. CASE at = "deleteSettings"
  BY <1>4 DEF StopStep, DeleteSettingsStep, Stopping
<1> QED BY <1>1, <1>2, <1>3, <1>4 DEF StopStep

\* A step that starts nothing, deletes only rows of removed containers, and of the sessions
\* moves only those that stop a container.
LEMMA SettlingKeeps ==
    ASSUME SInv, UNCHANGED <<target, object, config, terminalCount, runLevel>>,
           \A t \in Sessions :
              \/ pc'[t] = pc[t]
              \/ /\ pc[t] \in Stopping \cup {"stop"} /\ pc'[t] \in Stopping \cup {"stopFailed"}
                 /\ pc[t] = "stop" => pc'[t] = "stopFailed" \/ docker'[target[t]] # "running",
           \A c \in Containers :
              /\ docker[c] # "absent" => docker'[c] # "absent"
              /\ docker'[c] = "running" => docker[c] = "running"
              /\ c \in auth' \/ asked'[c] # None => docker[c] # "absent"
              /\ settings'[c] = settings[c] \/ (docker[c] = "removed" /\ settings'[c] = None)
    PROVE  Attended'
<1>1. \A t \in Sessions : /\ pc'[t] \in Preparing => pc[t] = pc'[t]
                          /\ pc'[t] \in Levelled => pc[t] = pc'[t]
                          /\ pc'[t] \in Counted <=> pc[t] \in Counted
  BY DEF Stopping, Preparing, Levelled, Counted
<1>2. target \in [Sessions -> Containers \cup {None}] /\ None \notin Containers
  BY NoneIsNothing DEF SInv, IInv, TypeOK
<1>3. MadeBefore'
  <2>1. \A t \in Sessions : pc'[t] \in {"idle", "create"} => pc[t] \in {"idle", "create"}
    BY <1>1 DEF Preparing
  <2>2. \A c \in Containers : settings'[c] # None => docker[c] # "absent"
    BY DEF SInv, Attended, MadeBefore
  <2> QED BY <2>1, <2>2, MadeStays DEF SInv, IInv, Attended
<1>4. CountsTerminals'
  BY <1>1, TerminalsStay DEF SInv, Attended
<1>5. ConfigsAgree'
  <2>1. \A t \in Sessions : config[t] # None => target[t] \in Containers
    BY <1>2 DEF SInv, Attended, ConfigsAgree
  <2>2. \A t \in Sessions : config[t] # None => settings'[target[t]] \in {config[t], None}
    BY <2>1 DEF SInv, Attended, ConfigsAgree
  <2> QED BY <1>1, <2>2 DEF SInv, Attended, ConfigsAgree
<1>6. RunningIsAttended'
  <2>1. \A c \in Containers :
           docker'[c] = "running" => docker[c] = "running" /\ settings'[c] = settings[c]
    OBVIOUS
  <2>2. \A t \in Sessions : pc[t] \in Attending \cup Failed =>
           pc'[t] \in Attending \cup Failed \/ docker'[target[t]] # "running"
    BY DEF Attending, Failed, Stopping
  <2> QED BY <2>1, <2>2, AttendanceStays DEF SInv, Attended
<1> QED BY <1>3, <1>4, <1>5, <1>6 DEF Attended

\* A session that stops its container no longer attends it.
LEMMA SessionStopKeeps ==
    ASSUME SInv, NEW s \in Sessions, SessionStop(s)
    PROVE  Attended'
<1>1. PICK next \in StopLabels : StopStep(object[s], pc[s], next) /\ Goto(s, next)
  BY DEF SessionStop
<1>2. UNCHANGED <<config, target, object, terminalCount, runLevel, asked>>
  BY DEF SessionStop, objectVars, envVars
<1>3. pc[s] \in {"stop", "remove", "deleteAuth", "deleteSettings"}
  BY <1>1 DEF StopStep
<1>4. /\ object[s] \in Sessions /\ target[s] \in Containers /\ target[object[s]] = target[s]
  BY <1>3, WorkersHaveObjects DEF SInv, Working
<1>5. pc[s] \in {"deleteAuth", "deleteSettings"} => docker[target[s]] = "removed"
  BY DEF SInv, IInv, SharedObjectsAgree, SessionAgrees
<1>6. \A t \in Sessions : pc'[t] = IF t = s THEN next ELSE pc[t]
  BY <1>1, MovesTo DEF SInv, IInv
<1> DEFINE o == object[s]
           at == pc[s]
<1>7. /\ o \in Sessions /\ target[o] \in Containers /\ StopStep(o, at, next)
      /\ at \in {"deleteAuth", "deleteSettings"} => docker[target[o]] = "removed"
  BY <1>1, <1>4, <1>5
<1>8. target[o] = target[s]
  BY <1>4
<1> HIDE DEF o, at
<1>9. /\ \A c \in Containers :
            /\ docker[c] # "absent" => docker'[c] # "absent"
            /\ docker'[c] = "running" => docker[c] = "running"
            /\ c \in auth' => docker[c] # "absent"
            /\ settings'[c] = settings[c] \/ (docker[c] = "removed" /\ settings'[c] = None)
      /\ at = "stop" => next = "stopFailed" \/ docker'[target[o]] # "running"
      /\ next \in {"remove", "deleteAuth", "deleteSettings", "unregister", "stopFailed"}
  BY <1>7, StopStepAlone DEF SInv, Attended
<1>10. \A t \in Sessions :
          \/ pc'[t] = pc[t]
          \/ /\ pc[t] \in Stopping \cup {"stop"} /\ pc'[t] \in Stopping \cup {"stopFailed"}
             /\ pc[t] = "stop" => pc'[t] = "stopFailed" \/ docker'[target[t]] # "running"
  BY <1>3, <1>6, <1>8, <1>9 DEF Stopping, at, o
<1>11. \A c \in Containers : c \in auth' \/ asked'[c] # None => docker[c] # "absent"
  BY <1>2, <1>9 DEF SInv, Attended, MadeBefore
<1> QED BY <1>2, <1>9, <1>10, <1>11, SettlingKeeps

\* A shutdown moves no session, and starts nothing.
LEMMA CloserStopKeeps ==
    ASSUME SInv, NEW i \in DOMAIN closers, CloserStop(i)
    PROVE  Attended'
<1>1. PICK next \in StopLabels : StopStep(closers[i].object, closers[i].at, next)
  BY DEF CloserStop
<1>2. /\ UNCHANGED <<config, pc, target, object, terminalCount, runLevel, asked>>
  BY DEF CloserStop, objectVars, envVars, localVars
<1> DEFINE o == closers[i].object
           at == closers[i].at
<1>3. /\ o \in Sessions /\ target[o] \in Containers /\ StopStep(o, at, next)
      /\ at \in {"deleteAuth", "deleteSettings"} => docker[target[o]] = "removed"
  BY <1>1, EntriesHaveObjects DEF SInv, IInv, SharedObjectsAgree, CloserAgrees
<1> HIDE DEF o, at
<1>4. \A c \in Containers :
         /\ docker[c] # "absent" => docker'[c] # "absent"
         /\ docker'[c] = "running" => docker[c] = "running"
         /\ c \in auth' => docker[c] # "absent"
         /\ settings'[c] = settings[c] \/ (docker[c] = "removed" /\ settings'[c] = None)
  BY <1>3, StopStepAlone DEF SInv, Attended
<1>5. \A c \in Containers : c \in auth' \/ asked'[c] # None => docker[c] # "absent"
  BY <1>2, <1>4 DEF SInv, Attended, MadeBefore
<1> QED BY <1>2, <1>4, <1>5, SettlingKeeps

\* Nobody else moves the sessions while the server runs.
LEMMA OthersKeep ==
    ASSUME SInv,
           \/ BeginShutdown \/ Restart \/ UNCHANGED vars \/ \E s \in Sessions : ClientLeaves(s)
           \/ \E c \in Containers :
                 \/ ContainerExits(c) \/ AuthPost(c)
                 \/ \E request \in {"save", "forget"} : AuthRequest(c, request)
    PROVE  Attended'
<1> USE DEF vars, envVars, storeVars, objectVars, localVars
<1>1. UNCHANGED <<target, object, config, terminalCount, runLevel, pc, settings>>
  BY DEF BeginShutdown, Restart, ClientLeaves, ContainerExits, AuthPost, AuthRequest
<1>2. \A c \in Containers :
         docker'[c] = docker[c] \/ (docker[c] = "running" /\ docker'[c] = "stopped")
  BY DEF BeginShutdown, Restart, ClientLeaves, ContainerExits, AuthPost, AuthRequest, SInv, IInv,
         TypeOK
<1>3. \A c \in Containers : c \in auth' \/ asked'[c] # None => docker[c] # "absent"
  <2>1. CASE UNCHANGED <<auth, asked>>
    BY <2>1 DEF SInv, Attended, MadeBefore
  <2>2. ASSUME NEW c \in Containers, NEW request \in {"save", "forget"}, AuthRequest(c, request)
        PROVE  \A d \in Containers : d \in auth' \/ asked'[d] # None => docker[d] # "absent"
    BY <2>2 DEF AuthRequest, Answer, SInv, Attended, MadeBefore, IInv, TypeOK
  <2>3. ASSUME NEW c \in Containers, AuthPost(c)
        PROVE  \A d \in Containers : d \in auth' \/ asked'[d] # None => docker[d] # "absent"
    BY <2>3 DEF AuthPost, Answer, SInv, Attended, MadeBefore, IInv, TypeOK
  <2> QED BY <2>1, <2>2, <2>3 DEF BeginShutdown, Restart, ClientLeaves, ContainerExits
<1> QED BY <1>1, <1>2, <1>3, SettlingKeeps

\* A login makes a session that is about no container yet, or about one that was made.
LEMMA LoginKeeps ==
    ASSUME SInv, NEW s \in Sessions,
           ImageLogin(s) \/ \E c \in Containers : NamedLogin(s, c) \/ SavedLogin(s, c)
    PROVE  Attended'
<1> USE DEF envVars, storeVars, objectVars, localVars
<1>1. TypeOK
  BY DEF SInv, IInv
<1>2. /\ pc[s] = "idle" /\ target[s] = None /\ config[s] = None
      /\ UNCHANGED <<docker, auth, asked, settings, terminalCount, runLevel, object, config>>
  BY DEF ImageLogin, NamedLogin, SavedLogin, SInv, Attended, MadeBefore, ConfigsAgree, Preparing
<1>3. PICK label \in {"create", "lookup", "accept"} : Goto(s, label)
  BY DEF ImageLogin, NamedLogin, SavedLogin
<1>4. \A t \in Sessions : pc'[t] = IF t = s THEN label ELSE pc[t]
  BY <1>1, <1>3, MovesTo
<1>5. \A t \in Sessions \ {s} : target'[t] = target[t]
  BY <1>1 DEF TypeOK, ImageLogin, NamedLogin, SavedLogin
<1>6. \/ label = "create" /\ target'[s] = None
      \/ label # "create" /\ target'[s] \in Containers /\ docker[target'[s]] # "absent"
  <2>1. CASE ImageLogin(s)
    BY <1>1, <1>2, <1>3, <2>1 DEF ImageLogin, Goto, TypeOK
  <2>2. ASSUME NEW c \in Containers, NamedLogin(s, c) \/ SavedLogin(s, c)
        PROVE  label # "create" /\ target'[s] = c /\ docker[c] # "absent"
    <3>1. label # "create"
      BY <1>1, <1>2, <1>3, <2>2 DEF NamedLogin, SavedLogin, Goto, TypeOK
    <3>2. target'[s] = c
      BY <1>1, <2>2 DEF NamedLogin, SavedLogin, TypeOK
    <3> QED BY <2>2, <3>1, <3>2 DEF NamedLogin, SavedLogin, SInv, Attended, MadeBefore
  <2> QED BY <2>1, <2>2
<1>7. MadeBefore'
  BY <1>2, <1>4, <1>5, <1>6 DEF SInv, Attended, MadeBefore
<1>8. CountsTerminals'
  <2>1. \A t \in Sessions : pc'[t] \in Counted <=> pc[t] \in Counted
    BY <1>2, <1>4 DEF Counted
  <2> QED BY <1>2, <2>1, TerminalsStay DEF SInv, Attended
<1>9. ConfigsAgree'
  <2>1. \A t \in Sessions : pc'[t] \in Preparing => config[t] = None
    BY <1>2, <1>4 DEF SInv, Attended, ConfigsAgree
  <2>2. \A t \in Sessions : pc'[t] \in Levelled => pc[t] \in Levelled
    BY <1>4 DEF Levelled
  <2> QED BY <1>2, <1>5, <2>1, <2>2 DEF SInv, Attended, ConfigsAgree
<1>10. RunningIsAttended'
  <2>1. \A t \in Sessions : pc[t] \in Attending \cup Failed => t # s
    BY <1>2 DEF Attending, Failed
  <2> QED BY <1>2, <1>4, <1>5, <2>1, AttendanceStays DEF SInv, Attended
<1> QED BY <1>7, <1>8, <1>9, <1>10 DEF Attended

\* A process that dies takes its objects with it; its sessions are known to be killed.
LEMMA LoseMemoryKeeps ==
    ASSUME SInv, LoseMemory
    PROVE  Attended'
<1>1. /\ \A t \in Sessions : pc'[t] = IF Active(t) THEN "killed" ELSE pc[t]
      /\ \A t \in Sessions : config'[t] = None /\ terminalCount'[t] = 0
      /\ \A c \in Containers : asked'[c] = None
      /\ UNCHANGED <<docker, auth, settings, target>>
  BY DEF LoseMemory, storeVars
<1>2. \A t \in Sessions : pc'[t] = "killed" \/ (pc'[t] = pc[t] /\ pc[t] \in Over \cup {"idle"})
  BY <1>1 DEF Active
<1>3. MadeBefore'
  BY <1>1, <1>2 DEF SInv, Attended, MadeBefore, Over
<1>4. CountsTerminals'
  <2>1. \A o \in Sessions : Terminals(o)' = {}
    BY <1>2 DEF Terminals, Counted, Over
  <2> QED BY <1>1, <2>1, FS_EmptySet DEF CountsTerminals
<1>5. ConfigsAgree'
  BY <1>1, <1>2 DEF ConfigsAgree, Levelled, Over
<1>6. RunningIsAttended'
  <2>1. \A t \in Sessions : pc[t] \in Attending \cup Failed => pc'[t] \in Failed
    BY <1>1 DEF Active, Attending, Failed, Over
  <2> QED BY <1>1, <2>1, AttendanceStays DEF SInv, Attended
<1> QED BY <1>3, <1>4, <1>5, <1>6 DEF Attended

\* At the start nobody is about any container.
LEMMA InitSInv == Init => SInv
<1> SUFFICES ASSUME Init PROVE Attended
  BY InitIInv DEF SInv
<1>1. MadeBefore /\ RunningIsAttended /\ ConfigsAgree
  BY DEF Init, MadeBefore, RunningIsAttended, ConfigsAgree, Levelled
<1>2. CountsTerminals
  <2>1. \A o \in Sessions : Terminals(o) = {}
    BY DEF Init, Terminals, Counted
  <2> QED BY <2>1, FS_EmptySet DEF Init, CountsTerminals
<1> QED BY <1>1, <1>2 DEF Attended

\* What holds of attended containers is inductive.
LEMMA NextAttended ==
    ASSUME SInv, [Next]_vars, Orderly
    PROVE  SInv'
<1>1. IInv'
  BY NextTypeOK, NextAgrees, StutterIInv DEF SInv, IInv, Agreement, Orderly
<1> SUFFICES Attended'
  BY <1>1 DEF SInv
<1>2. CASE LoseMemory
  BY <1>2, LoseMemoryKeeps
<1>3. ASSUME NEW s \in Sessions, SessionStep(s) PROVE Attended' \/ LoseMemory
  <2>1. CASE GetContainer(s)
    BY <2>1, QuietKeeps, OpenKeeps, RecordKeeps, CreateKeeps DEF GetContainer, PullFatal
  <2>2. CASE Connection(s)
    BY <2>2, QuietKeeps, StartKeeps, CopyConfigKeeps, CountKeeps, CheckKeeps, SessionStopKeeps
    DEF Connection, UnregisterPanic
  <2> QED BY <1>3, <2>1, <2>2, QuietKeeps DEF SessionStep, AcceptPanic
<1>4. CASE \E i \in DOMAIN closers : CloserStop(i)
  BY <1>4, CloserStopKeeps
<1>5. CASE ClientStep
  BY <1>5, LoginKeeps, OthersKeep DEF ClientStep
<1>6. Attended' \/ LoseMemory
  BY <1>3, <1>4, <1>5, OthersKeep DEF Next, ServerStep, Environment, Exit, Kill
<1> QED BY <1>2, <1>6

-------------------------------------------------------------------------------
(* The theorems for all clients *)

\* However sessions share containers and objects, the count of an object is the number of
\* its terminals, and a container of run level User that runs is attended.
THEOREM SessionsAttend ==
    ASSUME Orderly
    PROVE  Spec => []SInv
<1>1. SInv /\ [Next]_vars => SInv'
  BY NextAttended
<1> QED BY <1>1, InitSInv, PTL DEF Spec

\* A container of run level User that runs with nobody on it was left by a session that
\* failed or was killed (connection.go:89-107), for any number of sessions that share it in
\* any order, restarts and failing calls.
THEOREM UnattendedAreExplained ==
    ASSUME Orderly
    PROVE  Spec => []UnattendedIsExplained
<1>1. SInv => UnattendedIsExplained
  <2> SUFFICES ASSUME SInv, NEW c \in Containers,
                      docker[c] = "running", settings[c].runLevel = "User",
                      \A s \in Sessions : target[s] = c => ~Active(s)
               PROVE  \E s \in Sessions : target[s] = c /\ pc[s] \in Failed
    BY DEF UnattendedIsExplained, Failed
  <2>1. PICK s \in Sessions : target[s] = c /\ pc[s] \in Attending \cup Failed
    BY DEF SInv, Attended, RunningIsAttended
  <2> QED BY <2>1 DEF Active, Attending, Over
<1> QED BY <1>1, SessionsAttend, PTL

-------------------------------------------------------------------------------
(* The lifecycle of a container *)

\* A step of Lifecycle, or none.
LifecycleStep == [Life!LifecycleNext]_(Life!lifecycleVars)

\* A step that touches neither docker nor the rows is none.
LEMMA QuietStep ==
    ASSUME UNCHANGED <<docker, settings, auth>>
    PROVE  LifecycleStep
BY DEF LifecycleStep, Life!lifecycleVars

\* A change of docker alone is one of Made, Started, Halted and Removed.
LEMMA DockerStep ==
    ASSUME TypeOK, NEW c \in Containers, NEW state, docker' = [docker EXCEPT ![c] = state],
           UNCHANGED <<settings, auth>>,
           \/ docker[c] = "absent" /\ state = "stopped"
           \/ Exists(c) /\ state = "running" /\ settings[c] # None
           \/ Exists(c) /\ state \in {"stopped", "removed"}
    PROVE  LifecycleStep
<1>1. docker \in [Containers -> {"absent", "stopped", "running", "removed"}]
  BY DEF TypeOK
<1>2. CASE docker[c] = state
  <2>1. docker' = docker
    BY <1>1, <1>2
  <2> QED BY <2>1, QuietStep
<1>3. CASE docker[c] # state
  <2>1. Life!Made(c) \/ Life!Started(c) \/ Life!Halted(c) \/ Life!Removed(c)
    <3>1. CASE docker[c] = "absent" /\ state = "stopped"
      BY <3>1 DEF Life!Made, Life!Move
    <3>2. CASE docker[c] = "stopped" /\ state = "running" /\ settings[c] # None
      BY <3>2 DEF Life!Started, Life!Move
    <3>3. CASE docker[c] = "running" /\ state = "stopped"
      BY <3>3 DEF Life!Halted, Life!Move
    <3>4. CASE Exists(c) /\ state = "removed"
      BY <3>4 DEF Life!Removed, Life!Move, Exists
    <3> QED BY <1>3, <3>1, <3>2, <3>3, <3>4 DEF Exists
  <2> QED BY <2>1 DEF LifecycleStep, Life!LifecycleNext
<1> QED BY <1>2, <1>3

\* A row appears for a container that exists, and goes with one that is removed.
LEMMA SettingsStep ==
    ASSUME TypeOK, NEW c \in Containers, NEW row, settings' = [settings EXCEPT ![c] = row],
           UNCHANGED <<docker, auth>>,
           \/ Exists(c) /\ settings[c] = None /\ row # None
           \/ docker[c] = "removed" /\ c \notin auth /\ row = None
    PROVE  LifecycleStep
<1>1. \A d \in Containers : settings'[d] = IF d = c THEN row ELSE settings[d]
  BY DEF TypeOK
<1>2. Life!Recorded(c) \/ Life!Forgotten(c)
  BY <1>1 DEF Life!Recorded, Life!Forgotten, Exists
<1> QED BY <1>2 DEF LifecycleStep, Life!LifecycleNext

\* Credentials are saved from inside a container that runs and is recorded.
LEMMA AuthStep ==
    ASSUME NEW c \in Containers, UNCHANGED <<docker, settings>>,
           \/ auth' = auth \cup {c} /\ docker[c] = "running" /\ settings[c] # None
           \/ auth' = auth \ {c}
    PROVE  LifecycleStep
<1>1. Life!Saved(c) \/ Life!Unsaved(c)
  BY DEF Life!Saved, Life!Unsaved
<1> QED BY <1>1 DEF LifecycleStep, Life!LifecycleNext

\* A step of Stop is a step of Lifecycle.
LEMMA StopStepIsLifecycle ==
    ASSUME TypeOK, NEW o \in Sessions, target[o] \in Containers, NEW at, NEW next,
           StopStep(o, at, next),
           at \in {"deleteAuth", "deleteSettings"} => docker[target[o]] = "removed",
           at = "deleteSettings" => target[o] \notin auth
    PROVE  LifecycleStep
<1> DEFINE c == target[o]
<1> USE DEF storeVars
<1>1. UNCHANGED <<docker, settings, auth>> =>  LifecycleStep
  BY QuietStep
<1>2. CASE at = "stop"
  <2>1. CASE Exists(c) /\ docker' = [docker EXCEPT ![c] = "stopped"] /\ UNCHANGED <<settings, auth>>
    BY <2>1, DockerStep
  <2> QED BY <1>1, <1>2, <2>1 DEF StopStep, HaltStep
<1>3. CASE at = "remove"
  <2>1. CASE Exists(c) /\ docker' = [docker EXCEPT ![c] = "removed"] /\ UNCHANGED <<settings, auth>>
    BY <2>1, DockerStep
  <2> QED BY <1>1, <1>3, <2>1 DEF StopStep, RemoveStep
<1>4. CASE at = "deleteAuth"
  <2>1. CASE auth' = auth \ {c} /\ UNCHANGED <<docker, settings>>
    BY <2>1, AuthStep
  <2> QED BY <1>1, <1>4, <2>1 DEF StopStep, DeleteAuthStep
<1>5. CASE at = "deleteSettings"
  <2>1. CASE settings' = [settings EXCEPT ![c] = None] /\ UNCHANGED <<docker, auth>>
    BY <1>5, <2>1, SettingsStep
  <2> QED BY <1>1, <1>5, <2>1 DEF StopStep, DeleteSettingsStep
<1> QED BY <1>2, <1>3, <1>4, <1>5 DEF StopStep

\* No request is under way, and the settings row goes after the credentials.
ForgetsInOrder ==
    /\ \A c \in Containers : asked[c] = None
    /\ \A s \in Sessions : pc[s] = "deleteSettings" => target[s] \notin auth
    /\ \A i \in DOMAIN closers :
          closers[i].at = "deleteSettings" => target[closers[i].object] \notin auth

\* A session about to record its container finds its row there, or the container.
RecordsWhatExists ==
    \A s \in Sessions :
        pc[s] = "record" => Exists(target[s]) \/ settings[target[s]] # None

\* The order of the deletions is kept by a step that saves no credentials of a removed
\* container and comes to the second deletion from the first.
LEMMA OrderStays ==
    ASSUME SInv, ForgetsInOrder, UNCHANGED asked,
           \A c \in Containers : c \in auth' => c \in auth \/ docker[c] = "running",
           \A t \in Sessions : pc[t] \in PastRecord => target'[t] = target[t],
           \A t \in Sessions : pc'[t] = "deleteSettings" =>
              pc[t] = "deleteSettings" \/ target'[t] \notin auth',
           \A i \in DOMAIN closers' : closers'[i].at = "deleteSettings" =>
              \/ target'[closers'[i].object] \notin auth'
              \/ /\ i \in DOMAIN closers /\ closers[i].at = "deleteSettings"
                 /\ closers'[i].object = closers[i].object
    PROVE  ForgetsInOrder'
<1>1. \A t \in Sessions : pc'[t] = "deleteSettings" => target'[t] \notin auth'
  <2> SUFFICES ASSUME NEW t \in Sessions, pc[t] = "deleteSettings" PROVE target'[t] \notin auth'
    OBVIOUS
  <2>1. /\ target'[t] = target[t] /\ target[t] \in Containers /\ target[t] \notin auth
        /\ docker[target[t]] = "removed"
    BY WorkersHaveObjects
    DEF PastRecord, Working, ForgetsInOrder, SInv, IInv, SharedObjectsAgree, SessionAgrees
  <2> QED BY <2>1
<1>2. \A i \in DOMAIN closers' :
         closers'[i].at = "deleteSettings" => target'[closers'[i].object] \notin auth'
  <2> SUFFICES ASSUME NEW i \in DOMAIN closers, closers[i].at = "deleteSettings"
               PROVE  target'[closers[i].object] \notin auth'
    OBVIOUS
  <2>1. /\ target'[closers[i].object] = target[closers[i].object]
        /\ target[closers[i].object] \in Containers
    BY EntriesHaveObjects DEF SInv
  <2>2. docker[target[closers[i].object]] = "removed" /\ target[closers[i].object] \notin auth
    BY DEF ForgetsInOrder, SInv, IInv, SharedObjectsAgree, CloserAgrees
  <2> QED BY <2>1, <2>2
<1> QED BY <1>1, <1>2 DEF ForgetsInOrder

\* The containers an earlier run kept are where Lifecycle begins.
LEMMA InitIsLifecycle ==
    ASSUME Init
    PROVE  Life!LifecycleInit /\ ForgetsInOrder
<1>1. PICK kept \in SUBSET Containers :
         /\ docker = [c \in Containers |-> IF c \in kept THEN "stopped" ELSE "absent"]
         /\ auth = kept
         /\ \A c \in Containers : settings[c] # None <=> c \in kept
  BY DEF Init
<1>2. Life!LifecycleInit
  BY <1>1 DEF Life!LifecycleInit
<1>3. ForgetsInOrder
  BY DEF Init, ForgetsInOrder
<1> QED BY <1>2, <1>3

\* What a session does to its container, its lifecycle allows.
LEMMA SessionLifecycle ==
    ASSUME SInv, ForgetsInOrder, RecordsWhatExists, NEW s \in Sessions, SessionStep(s), ~LoseMemory
    PROVE  LifecycleStep /\ ForgetsInOrder'
<1> USE DEF envVars, storeVars, objectVars, localVars
<1>1. TypeOK
  BY DEF SInv, IInv
<1>2. ASSUME NEW label \in Labels \ {"deleteSettings"}, Goto(s, label),
             UNCHANGED <<asked, auth, closers>>,
             UNCHANGED target \/ (pc[s] = "create" /\ \E c : target' = [target EXCEPT ![s] = c])
      PROVE  ForgetsInOrder'
  <2>1. \A t \in Sessions : pc'[t] = IF t = s THEN label ELSE pc[t]
    BY <1>1, <1>2, MovesTo
  <2>2. \A t \in Sessions : pc'[t] = "deleteSettings" => pc[t] = "deleteSettings"
    BY <1>2, <2>1
  <2>3. \A t \in Sessions : pc[t] \in PastRecord => target'[t] = target[t]
    BY <1>1, <1>2 DEF TypeOK, PastRecord, Working
  <2> QED BY <1>2, <2>2, <2>3, OrderStays
<1>3. CASE \/ Accept(s) \/ Lookup(s) \/ Open(s) \/ Inspect(s) \/ CreateFails(s)
           \/ Scan(s) \/ Register(s) \/ CheckRunning(s) \/ Setup(s)
           \/ CopyConfig(s) \/ Attach(s) \/ CountIn(s) \/ StreamEnds(s) \/ CountOut(s) \/ Check(s)
           \/ Unregister(s)
  <2>1. UNCHANGED <<docker, settings, auth, asked, closers, target>>
    BY <1>3 DEF Accept, Lookup, Open, Inspect, CreateFails, Scan, Register, CheckRunning, Setup,
                CopyConfig, Attach, CountIn, StreamEnds, CountOut, Check, Unregister
  <2>2. PICK label \in Labels \ {"deleteSettings"} : Goto(s, label)
    BY <1>3 DEF Accept, Lookup, Open, Inspect, CreateFails, Scan, Register, CheckRunning, Setup,
                CopyConfig, Attach, CountIn, StreamEnds, CountOut, Check, Unregister, Labels, Over,
                StopLabels
  <2> QED BY <1>2, <2>1, <2>2, QuietStep
<1>4. ASSUME NEW c \in Containers, NEW profile \in Profiles, Create(s, c, profile)
      PROVE  LifecycleStep /\ ForgetsInOrder'
  <2>1. LifecycleStep
    BY <1>1, <1>4, DockerStep DEF Create
  <2> QED BY <1>2, <1>4, <2>1 DEF Create, Labels
<1>5. CASE Record(s)
  <2>1. /\ target[s] \in Containers /\ config[s] # None
        /\ Exists(target[s]) \/ settings[target[s]] # None
    BY <1>5, NoneIsNothing
    DEF Record, SInv, IInv, SharedObjectsAgree, SessionAgrees, RecordsWhatExists
  <2>2. ASSUME settings[target[s]] = None, settings' = [settings EXCEPT ![target[s]] = config[s]]
        PROVE  LifecycleStep
    BY <1>1, <1>5, <2>1, <2>2, SettingsStep DEF Record
  <2>3. LifecycleStep
    BY <1>5, <2>2, QuietStep DEF Record
  <2>4. PICK label \in {"scan", "failed"} : Goto(s, label)
    BY <1>5 DEF Record
  <2> QED BY <1>2, <1>5, <2>3, <2>4 DEF Record, Labels, Over
<1>6. CASE StartContainer(s)
  <2>1. /\ target[s] \in Containers /\ pc[s] = "start"
        /\ Exists(target[s]) => settings[target[s]] # None
    BY <1>6 DEF StartContainer, SInv, IInv, SharedObjectsAgree, SessionAgrees, Ready, Exists,
                Working, Owned
  <2>2. ASSUME Exists(target[s]), docker' = [docker EXCEPT ![target[s]] = "running"]
        PROVE  LifecycleStep
    BY <1>1, <1>6, <2>1, <2>2, DockerStep DEF StartContainer
  <2>3. LifecycleStep
    BY <1>6, <2>2, QuietStep DEF StartContainer
  <2>4. PICK label \in {"config", "setup", "startFailed"} : Goto(s, label)
    BY <1>6 DEF StartContainer
  <2> QED BY <1>2, <1>6, <2>3, <2>4 DEF StartContainer, Labels, Over
<1>7. CASE SessionStop(s)
  <2>1. PICK next \in StopLabels : StopStep(object[s], pc[s], next) /\ Goto(s, next)
    BY <1>7 DEF SessionStop
  <2>2. UNCHANGED <<target, closers, asked>>
    BY <1>7 DEF SessionStop
  <2>3. pc[s] \in {"stop", "remove", "deleteAuth", "deleteSettings"}
    BY <2>1 DEF StopStep
  <2>4. /\ object[s] \in Sessions /\ target[s] \in Containers /\ target[object[s]] = target[s]
    BY <2>3, WorkersHaveObjects DEF SInv, Working
  <2>5. /\ pc[s] \in {"deleteAuth", "deleteSettings"} => docker[target[s]] = "removed"
        /\ pc[s] = "deleteSettings" => target[s] \notin auth
    BY DEF SInv, IInv, SharedObjectsAgree, SessionAgrees, ForgetsInOrder
  <2>6. LifecycleStep
    BY <1>1, <2>1, <2>4, <2>5, StopStepIsLifecycle
  <2>7. \A t \in Sessions : pc'[t] = IF t = s THEN next ELSE pc[t]
    BY <1>1, <2>1, MovesTo
  <2>8. /\ auth' \subseteq auth
        /\ next = "deleteSettings" => target[s] \notin auth'
    BY <2>1, <2>3, <2>4 DEF StopStep, HaltStep, RemoveStep, DeleteAuthStep, DeleteSettingsStep
  <2>9. \A t \in Sessions : pc'[t] = "deleteSettings" =>
           pc[t] = "deleteSettings" \/ target'[t] \notin auth'
    BY <2>2, <2>7, <2>8
  <2> QED BY <2>2, <2>6, <2>8, <2>9, OrderStays
<1> QED
  BY <1>3, <1>4, <1>5, <1>6, <1>7
  DEF SessionStep, GetContainer, Connection, AcceptPanic, PullFatal, UnregisterPanic

\* So is what a shutdown does to a container.
LEMMA CloserLifecycle ==
    ASSUME SInv, ForgetsInOrder, NEW i \in DOMAIN closers, CloserStop(i)
    PROVE  LifecycleStep /\ ForgetsInOrder'
<1>1. PICK next \in StopLabels :
          /\ StopStep(closers[i].object, closers[i].at, next)
          /\ closers' = [closers EXCEPT ![i].at = next]
  BY DEF CloserStop
<1>2. UNCHANGED <<pc, target, asked>>
  BY DEF CloserStop, envVars, localVars
<1> DEFINE o == closers[i].object
           at == closers[i].at
<1>3. /\ o \in Sessions /\ target[o] \in Containers
      /\ at \in {"deleteAuth", "deleteSettings"} => docker[target[o]] = "removed"
      /\ at = "deleteSettings" => target[o] \notin auth
  BY EntriesHaveObjects DEF SInv, IInv, SharedObjectsAgree, CloserAgrees, ForgetsInOrder
<1>4. StopStep(o, at, next)
  BY <1>1
<1>5. /\ DOMAIN closers' = DOMAIN closers
      /\ \A k \in DOMAIN closers : closers'[k].object = closers[k].object
      /\ \A k \in DOMAIN closers : closers'[k].at = IF k = i THEN next ELSE closers[k].at
  BY <1>1, EntriesAreObjects DEF SInv, IInv
<1>6. TypeOK
  BY DEF SInv, IInv
<1> HIDE DEF o, at
<1>7. LifecycleStep
  BY <1>3, <1>4, <1>6, StopStepIsLifecycle
<1>8. auth' \subseteq auth /\ (next = "deleteSettings" => target[o] \notin auth')
  BY <1>4 DEF StopStep, HaltStep, RemoveStep, DeleteAuthStep, DeleteSettingsStep, storeVars
<1>9. \A k \in DOMAIN closers' : closers'[k].at = "deleteSettings" =>
         \/ target'[closers'[k].object] \notin auth'
         \/ /\ k \in DOMAIN closers /\ closers[k].at = "deleteSettings"
            /\ closers'[k].object = closers[k].object
  BY <1>2, <1>5, <1>8 DEF o
<1> QED BY <1>2, <1>7, <1>8, <1>9, OrderStays

\* Every step of the server, its clients and docker is a step of Lifecycle, or none,
\* as long as no session records a container that is gone.
LEMMA NextIsLifecycle ==
    ASSUME SInv, ForgetsInOrder, RecordsWhatExists, [Next]_vars, ~SlowRequests
    PROVE  LifecycleStep /\ ForgetsInOrder'
<1> USE DEF envVars, storeVars, objectVars, localVars
<1>1. TypeOK
  BY DEF SInv, IInv
<1>2. CASE LoseMemory
  <2>1. LifecycleStep
    BY <1>2, QuietStep DEF LoseMemory
  <2>2. /\ \A c \in Containers : asked'[c] = None
        /\ \A t \in Sessions : pc'[t] = IF Active(t) THEN "killed" ELSE pc[t]
        /\ closers' = <<>>
    BY <1>2 DEF LoseMemory
  <2>3. \A t \in Sessions : pc'[t] # "deleteSettings"
    BY <2>2 DEF Active, Over
  <2> QED BY <2>1, <2>2, <2>3 DEF ForgetsInOrder
<1>3. ASSUME UNCHANGED <<docker, settings, auth, asked, closers, pc, target>>
      PROVE  LifecycleStep /\ ForgetsInOrder'
  <2>1. LifecycleStep
    BY <1>3, QuietStep
  <2> QED BY <1>3, <2>1 DEF ForgetsInOrder
<1>4. CASE BeginShutdown
  <2>1. UNCHANGED <<docker, settings, auth, asked, pc, target>>
    BY <1>4 DEF BeginShutdown
  <2>2. \A i \in DOMAIN closers' : closers'[i].at = "stop"
    BY <1>4 DEF BeginShutdown
  <2>3. LifecycleStep
    BY <2>1, QuietStep
  <2> QED BY <2>1, <2>2, <2>3 DEF ForgetsInOrder
<1>5. ASSUME NEW s \in Sessions,
             ImageLogin(s) \/ \E c \in Containers : NamedLogin(s, c) \/ SavedLogin(s, c)
      PROVE  LifecycleStep /\ ForgetsInOrder'
  <2>1. pc[s] = "idle" /\ UNCHANGED <<docker, settings, auth, asked, closers>>
    BY <1>5 DEF ImageLogin, NamedLogin, SavedLogin
  <2>2. PICK label \in {"create", "lookup", "accept"} : Goto(s, label)
    BY <1>5 DEF ImageLogin, NamedLogin, SavedLogin
  <2>3. \A t \in Sessions : pc'[t] = IF t = s THEN label ELSE pc[t]
    BY <1>1, <2>2, MovesTo
  <2>4. \A t \in Sessions \ {s} : target'[t] = target[t]
    BY <1>1, <1>5 DEF TypeOK, ImageLogin, NamedLogin, SavedLogin
  <2>5. \A t \in Sessions : pc[t] \in PastRecord => target'[t] = target[t]
    BY <2>1, <2>4 DEF PastRecord, Working
  <2>6. \A t \in Sessions : pc'[t] = "deleteSettings" => pc[t] = "deleteSettings"
    BY <2>3
  <2>7. LifecycleStep
    BY <2>1, QuietStep
  <2> QED BY <2>1, <2>5, <2>6, <2>7, OrderStays
<1>6. ASSUME NEW c \in Containers, ContainerExits(c)
      PROVE  LifecycleStep /\ ForgetsInOrder'
  <2>1. /\ docker[c] = "running" /\ docker' = [docker EXCEPT ![c] = "stopped"]
        /\ UNCHANGED <<settings, auth, asked, closers, pc, target>>
    BY <1>6 DEF ContainerExits
  <2>2. LifecycleStep
    BY <1>1, <2>1, DockerStep DEF Exists
  <2> QED BY <2>1, <2>2 DEF ForgetsInOrder
<1>7. ASSUME NEW c \in Containers, NEW request \in {"save", "forget"}, AuthRequest(c, request)
      PROVE  LifecycleStep /\ ForgetsInOrder'
  <2>1. /\ docker[c] = "running" /\ UNCHANGED <<docker, settings, asked, closers, pc, target>>
        /\ auth' = IF request = "save" THEN auth \cup {c} ELSE auth \ {c}
    BY <1>7 DEF AuthRequest, Answer
  <2>2. settings[c] # None
    BY <2>1 DEF SInv, IInv, RunningIsRecorded
  <2>3. LifecycleStep
    BY <2>1, <2>2, AuthStep
  <2>4. \A d \in Containers : d \in auth' => d \in auth \/ docker[d] = "running"
    BY <2>1
  <2> QED BY <2>1, <2>3, <2>4, OrderStays
<1>8. ~ \E c \in Containers : AuthPost(c)
  BY DEF AuthPost, ForgetsInOrder
<1>9. CASE UNCHANGED vars
  BY <1>3, <1>9 DEF vars
<1>10. CASE Restart \/ \E s \in Sessions : ClientLeaves(s)
  BY <1>3, <1>10 DEF Restart, ClientLeaves
<1>11. CASE \E s \in Sessions : SessionStep(s)
  BY <1>2, <1>11, SessionLifecycle
<1>12. CASE \E i \in DOMAIN closers : CloserStop(i)
  BY <1>12, CloserLifecycle
<1> QED
  BY <1>2, <1>4, <1>5, <1>6, <1>7, <1>8, <1>9, <1>10, <1>11, <1>12
  DEF Next, ServerStep, Environment, ClientStep, Exit, Kill

-------------------------------------------------------------------------------
(* The rows of a removed container *)

Clearing == {"deleteAuth", "deleteSettings", "stopFailed", "killed"}

\* A row of a removed container has a session that is about to delete it, or could not; no
\* shutdown runs.
RowsAreExplained ==
    /\ closers = <<>>
    /\ \A c \in Containers : docker[c] = "removed" /\ (c \in auth \/ settings[c] # None) =>
          \E s \in Sessions : target[s] = c /\ pc[s] \in Clearing

\* A step that removes no container, writes no row of a removed one and takes no session
\* from its deletions keeps that.
LEMMA RowsStay ==
    ASSUME RowsAreExplained, closers' = closers,
           \A c \in Containers : docker'[c] = "removed" => docker[c] = "removed",
           \A c \in Containers : docker[c] = "removed" =>
              (c \in auth' => c \in auth) /\ (settings'[c] # None => settings[c] # None),
           \A t \in Sessions : pc[t] \in Clearing => pc'[t] \in Clearing /\ target'[t] = target[t]
    PROVE  RowsAreExplained'
BY DEF RowsAreExplained

\* A session that removes its container goes on to delete its rows, both of them.
LEMMA SessionStopExplains ==
    ASSUME SInv, ForgetsInOrder, RowsAreExplained, NEW s \in Sessions, SessionStop(s)
    PROVE  RowsAreExplained'
<1> USE DEF storeVars
<1>1. PICK next \in StopLabels : StopStep(object[s], pc[s], next) /\ Goto(s, next)
  BY DEF SessionStop
<1>2. UNCHANGED <<target, closers>>
  BY DEF SessionStop
<1>3. pc[s] \in {"stop", "remove", "deleteAuth", "deleteSettings"}
  BY <1>1 DEF StopStep
<1>4. /\ object[s] \in Sessions /\ target[s] \in Containers /\ target[object[s]] = target[s]
  BY <1>3, WorkersHaveObjects DEF SInv, Working
<1>5. \A t \in Sessions : pc'[t] = IF t = s THEN next ELSE pc[t]
  BY <1>1, MovesTo DEF SInv, IInv
<1>6. ASSUME UNCHANGED docker \/ docker' = [docker EXCEPT ![target[s]] = "stopped"],
             UNCHANGED settings, auth' \subseteq auth, pc[s] \notin Clearing \/ next \in Clearing
      PROVE  RowsAreExplained'
  <2>1. \A c \in Containers : docker'[c] = "removed" => docker[c] = "removed"
    BY <1>4, <1>6 DEF SInv, IInv, TypeOK
  <2>2. \A t \in Sessions : pc[t] \in Clearing => pc'[t] \in Clearing /\ target'[t] = target[t]
    BY <1>2, <1>5, <1>6
  <2> QED BY <1>2, <1>6, <2>1, <2>2, RowsStay
<1>7. CASE pc[s] = "stop"
  BY <1>1, <1>4, <1>6, <1>7 DEF StopStep, HaltStep, Clearing
<1>8. CASE pc[s] = "remove"
  <2>1. CASE UNCHANGED <<docker, settings, auth>>
    BY <1>6, <1>8, <2>1 DEF Clearing
  <2>2. CASE /\ docker' = [docker EXCEPT ![target[s]] = "removed"] /\ next = "deleteAuth"
             /\ UNCHANGED <<settings, auth>>
    <3>1. \A c \in Containers : c # target[s] => docker'[c] = docker[c]
      BY <2>2 DEF SInv, IInv, TypeOK
    <3>2. target'[s] = target[s] /\ pc'[s] \in Clearing
      BY <1>2, <1>5, <2>2 DEF Clearing
    <3>3. \A t \in Sessions : pc[t] \in Clearing => pc'[t] \in Clearing
      BY <1>5, <3>2
    <3> QED BY <1>2, <2>2, <3>1, <3>2, <3>3 DEF RowsAreExplained
  <2> QED BY <1>1, <1>4, <1>8, <2>1, <2>2 DEF StopStep, RemoveStep
<1>9. CASE pc[s] = "deleteAuth"
  BY <1>1, <1>4, <1>6, <1>9 DEF StopStep, DeleteAuthStep, Clearing
<1>10. CASE pc[s] = "deleteSettings"
  <2>1. CASE next = "stopFailed" /\ UNCHANGED <<docker, settings, auth>>
    BY <1>6, <2>1 DEF Clearing
  <2>2. CASE settings' = [settings EXCEPT ![target[s]] = None] /\ UNCHANGED <<docker, auth>>
    <3>1. /\ settings'[target[s]] = None
          /\ \A c \in Containers : c # target[s] => settings'[c] = settings[c]
      BY <1>4, <2>2 DEF SInv, IInv, TypeOK
    <3>2. target[s] \notin auth
      BY <1>10 DEF ForgetsInOrder
    <3>3. \A t \in Sessions : target[t] # target[s] => pc'[t] = pc[t]
      BY <1>5
    <3> QED BY <1>2, <2>2, <3>1, <3>2, <3>3 DEF RowsAreExplained
  <2> QED BY <1>1, <1>4, <1>10, <2>1, <2>2 DEF StopStep, DeleteSettingsStep
<1> QED BY <1>3, <1>7, <1>8, <1>9, <1>10

\* The other steps of a session write no row of a removed container.
LEMMA SessionExplains ==
    ASSUME SInv, ForgetsInOrder, RecordsWhatExists, RowsAreExplained, NEW s \in Sessions,
           SessionStep(s),
           ~LoseMemory
    PROVE  RowsAreExplained'
<1> USE DEF envVars, storeVars, objectVars, localVars
<1>1. TypeOK
  BY DEF SInv, IInv
<1>2. ASSUME NEW label \in Labels, Goto(s, label), pc[s] \notin Clearing,
             UNCHANGED <<auth, closers>>,
             UNCHANGED target \/ \E c : target' = [target EXCEPT ![s] = c],
             \A c \in Containers : docker'[c] = "removed" => docker[c] = "removed",
             UNCHANGED settings \/ (Exists(target[s]) /\ target[s] \in Containers
                                    /\ settings' = [settings EXCEPT ![target[s]] = config[s]])
      PROVE  RowsAreExplained'
  <2>1. \A t \in Sessions : pc'[t] = IF t = s THEN label ELSE pc[t]
    BY <1>1, <1>2, MovesTo
  <2>2. \A t \in Sessions \ {s} : target'[t] = target[t]
    BY <1>1, <1>2 DEF TypeOK
  <2>3. \A c \in Containers : docker[c] = "removed" => settings'[c] = settings[c]
    BY <1>1, <1>2 DEF TypeOK, Exists
  <2> QED BY <1>2, <2>1, <2>2, <2>3, RowsStay
<1>3. CASE \/ Accept(s) \/ Lookup(s) \/ Open(s) \/ Inspect(s) \/ CreateFails(s)
           \/ Scan(s) \/ Register(s) \/ CheckRunning(s) \/ Setup(s)
           \/ CopyConfig(s) \/ Attach(s) \/ CountIn(s) \/ StreamEnds(s) \/ CountOut(s) \/ Check(s)
           \/ Unregister(s)
  <2>1. UNCHANGED <<docker, settings, auth, closers, target>>
    BY <1>3 DEF Accept, Lookup, Open, Inspect, CreateFails, Scan, Register, CheckRunning, Setup,
                CopyConfig, Attach, CountIn, StreamEnds, CountOut, Check, Unregister
  <2>2. PICK label \in Labels : Goto(s, label)
    BY <1>3 DEF Accept, Lookup, Open, Inspect, CreateFails, Scan, Register, CheckRunning, Setup,
                CopyConfig, Attach, CountIn, StreamEnds, CountOut, Check, Unregister, Labels, Over,
                StopLabels
  <2>3. pc[s] \notin Clearing
    BY <1>3 DEF Accept, Lookup, Open, Inspect, CreateFails, Scan, Register, CheckRunning, Setup,
                CopyConfig, Attach, CountIn, StreamEnds, CountOut, Check, Unregister, Clearing
  <2> QED BY <1>2, <2>1, <2>2, <2>3
<1>4. ASSUME NEW c \in Containers, NEW profile \in Profiles, Create(s, c, profile)
      PROVE  RowsAreExplained'
  <2>1. \A d \in Containers : docker'[d] = "removed" => docker[d] = "removed"
    BY <1>1, <1>4 DEF Create, TypeOK
  <2> QED BY <1>2, <1>4, <2>1 DEF Create, Labels, Clearing
<1>5. CASE Record(s)
  <2>1. pc[s] = "record" /\ target[s] \in Containers /\ docker[target[s]] # "absent"
    BY <1>5 DEF Record, SInv, IInv, SharedObjectsAgree, SessionAgrees
  <2>2. PICK label \in {"scan", "failed"} : Goto(s, label)
    BY <1>5 DEF Record
  <2>3. UNCHANGED settings \/ Exists(target[s])
    BY <1>5, <2>1 DEF Record, RecordsWhatExists
  <2> QED BY <1>2, <1>5, <2>1, <2>2, <2>3 DEF Record, Labels, Over, Clearing
<1>6. CASE StartContainer(s)
  <2>1. PICK label \in {"config", "setup", "startFailed"} : Goto(s, label)
    BY <1>6 DEF StartContainer
  <2>2. \A d \in Containers : docker'[d] = "removed" => docker[d] = "removed"
    BY <1>1, <1>6 DEF StartContainer, TypeOK
  <2> QED BY <1>2, <1>6, <2>1, <2>2 DEF StartContainer, Labels, Over, Clearing
<1>7. CASE SessionStop(s)
  BY <1>7, SessionStopExplains
<1> QED
  BY <1>3, <1>4, <1>5, <1>6, <1>7
  DEF SessionStep, GetContainer, Connection, AcceptPanic, PullFatal, UnregisterPanic

\* No step but a shutdown leaves a row of a removed container unexplained.
LEMMA NextExplains ==
    ASSUME SInv, ForgetsInOrder, RecordsWhatExists, RowsAreExplained, [Next]_vars, ~BeginShutdown
    PROVE  RowsAreExplained'
<1> USE DEF envVars, storeVars, objectVars, localVars
<1>1. TypeOK
  BY DEF SInv, IInv
<1>2. CASE LoseMemory
  <2>1. /\ \A t \in Sessions : pc'[t] = IF Active(t) THEN "killed" ELSE pc[t]
        /\ closers' = <<>> /\ UNCHANGED <<docker, settings, auth, target>>
    BY <1>2 DEF LoseMemory
  <2>2. closers = <<>>
    BY DEF RowsAreExplained
  <2>3. \A t \in Sessions : pc[t] \in Clearing => pc'[t] \in Clearing
    BY <2>1 DEF Active, Over, Clearing
  <2> QED BY <2>1, <2>2, <2>3, RowsStay
<1>3. ~ \E i \in DOMAIN closers : CloserStop(i)
  BY DEF RowsAreExplained
<1>4. ASSUME NEW s \in Sessions,
             ImageLogin(s) \/ \E c \in Containers : NamedLogin(s, c) \/ SavedLogin(s, c)
      PROVE  RowsAreExplained'
  <2>1. pc[s] = "idle" /\ UNCHANGED <<docker, settings, auth, closers>>
    BY <1>4 DEF ImageLogin, NamedLogin, SavedLogin
  <2>2. PICK label \in {"create", "lookup", "accept"} : Goto(s, label)
    BY <1>4 DEF ImageLogin, NamedLogin, SavedLogin
  <2>3. \A t \in Sessions : pc'[t] = IF t = s THEN label ELSE pc[t]
    BY <1>1, <2>2, MovesTo
  <2>4. \A t \in Sessions \ {s} : target'[t] = target[t]
    BY <1>1, <1>4 DEF TypeOK, ImageLogin, NamedLogin, SavedLogin
  <2>5. \A t \in Sessions : pc[t] \in Clearing => pc'[t] \in Clearing /\ target'[t] = target[t]
    BY <2>1, <2>3, <2>4 DEF Clearing
  <2> QED BY <2>1, <2>5, RowsStay
<1>5. ASSUME NEW c \in Containers,
             ContainerExits(c) \/ \E request \in {"save", "forget"} : AuthRequest(c, request)
      PROVE  RowsAreExplained'
  <2>1. /\ \A d \in Containers : docker'[d] = "removed" => docker[d] = "removed"
        /\ \A d \in Containers : docker[d] = "removed" => (d \in auth' => d \in auth)
        /\ UNCHANGED <<settings, closers, pc, target>>
    BY <1>1, <1>5 DEF ContainerExits, AuthRequest, Answer, TypeOK
  <2> QED BY <2>1, RowsStay
<1>6. ~ \E c \in Containers : AuthPost(c)
  BY DEF AuthPost, ForgetsInOrder
<1>7. CASE UNCHANGED vars
  BY <1>7, RowsStay DEF vars
<1>8. CASE Restart \/ \E s \in Sessions : ClientLeaves(s)
  BY <1>8, RowsStay DEF Restart, ClientLeaves
<1>9. CASE \E s \in Sessions : SessionStep(s)
  BY <1>2, <1>9, SessionExplains
<1> QED
  BY <1>2, <1>3, <1>4, <1>5, <1>6, <1>7, <1>8, <1>9
  DEF Next, ServerStep, Environment, ClientStep, Exit, Kill

\* So only a deletion that failed, or a killed session, leaves a row of a removed container.
LEMMA ExplainedRowsGo == RowsAreExplained => RemovedLeavesNoRows
<1> SUFFICES ASSUME RowsAreExplained, NEW c \in Containers, docker[c] = "removed",
                    \A s \in Sessions : target[s] = c => ~Active(s),
                    c \in auth \/ settings[c] # None
             PROVE  \E s \in Sessions : target[s] = c /\ pc[s] \in {"stopFailed", "killed"}
  BY DEF RemovedLeavesNoRows
<1>1. PICK s \in Sessions : target[s] = c /\ pc[s] \in Clearing
  BY DEF RowsAreExplained
<1> QED BY <1>1 DEF Active, Over, Clearing

-------------------------------------------------------------------------------
(* What holds of every container until the server first ends *)

Kept(c) == settings[c] # None /\ settings[c].keepOnExit

Making == {"record", "scan", "append", "failed"}

\* A session that made a container and has not registered it is the only one to know it.
Maker(s) ==
    /\ pc[s] \in Making /\ target[s] \in Containers
    /\ docker[target[s]] = "stopped" /\ target[s] \notin auth
    /\ \A t \in Sessions : target[t] = target[s] => t = s
    /\ Registered(target[s]) = {}
    /\ \A i \in DOMAIN closers : target[closers[i].object] # target[s]

\* A container that is not kept is registered, from before its first start until it is
\* removed; or its maker is about to register it, or has failed to.
MakersRegister ==
    \A c \in Containers : Exists(c) /\ ~Kept(c) =>
        Registered(c) # {} \/ \E s \in Sessions : target[s] = c /\ Maker(s)

\* So a session that finds no object in the registry opens a container that is kept, or gone.
OpenersFindKept ==
    \A s \in Sessions :
        /\ pc[s] \in {"open", "inspect"} => docker[target[s]] = "removed" \/ Kept(target[s])
        /\ pc[s] = "record" => Kept(target[s]) \/ Maker(s)

\* Only containers that are not kept are removed, and only those are forgotten.
StopsAreFinal ==
    /\ \A c \in Containers : docker[c] = "removed" => ~Kept(c)
    /\ \A s \in Sessions :
        /\ pc[s] = "remove" => ~config[object[s]].keepOnExit
        /\ pc[s] = "unregister" => docker[target[s]] = "removed" \/ config[object[s]].keepOnExit
    /\ \A i \in DOMAIN closers :
        closers[i].at = "remove" => ~config[closers[i].object].keepOnExit

\* The containers that profiles name are kept.
NamedAreKept == \A c \in Named : Kept(c)

\* The inductive invariant of a server that has not ended yet.
LInv == SInv /\ MakersRegister /\ OpenersFindKept /\ StopsAreFinal /\ NamedAreKept /\ ForgetsInOrder

\* So what a session records is there.
LEMMA RecordersFind == LInv => RecordsWhatExists
BY DEF LInv, OpenersFindKept, RecordsWhatExists, Kept, Maker, Exists

\* A registry to which nothing is lost keeps its entries when one is appended.
LEMMA AppendKeeps ==
    ASSUME TypeOK, NEW e \in Sessions,
           allContainers' = Append(SubSeq(allContainers, 1, Len(allContainers)), e)
    PROVE  /\ \A i \in DOMAIN allContainers' :
                 \/ allContainers'[i] = e
                 \/ \E j \in DOMAIN allContainers : allContainers'[i] = allContainers[j]
           /\ \A j \in DOMAIN allContainers :
                 j \in DOMAIN allContainers' /\ allContainers'[j] = allContainers[j]
           /\ \E i \in DOMAIN allContainers' : allContainers'[i] = e
<1> DEFINE prefix == SubSeq(allContainers, 1, Len(allContainers))
<1>0. allContainers \in Seq(Sessions)
  BY DEF TypeOK
<1>1. /\ Len(allContainers) \in Nat /\ DOMAIN allContainers = 1..Len(allContainers)
      /\ \A i \in 1..Len(allContainers) : allContainers[i] \in Sessions
  BY <1>0, LenProperties, ElementOfSeq
<1>2. /\ prefix \in Seq(Sessions) /\ Len(prefix) = Len(allContainers)
      /\ \A i \in 1..Len(allContainers) : prefix[i] = allContainers[i]
  BY <1>1, SubSeqProperties
<1>3. allContainers' = Append(prefix, e)
  OBVIOUS
<1> HIDE DEF prefix
<1>4. /\ DOMAIN allContainers' = 1..(Len(prefix) + 1)
      /\ \A i \in 1..Len(prefix) : allContainers'[i] = prefix[i]
      /\ allContainers'[Len(prefix) + 1] = e
  <2>1. /\ Append(prefix, e) \in Seq(Sessions) /\ Len(Append(prefix, e)) = Len(prefix) + 1
        /\ \A i \in 1..Len(prefix) : Append(prefix, e)[i] = prefix[i]
        /\ Append(prefix, e)[Len(prefix) + 1] = e
    BY <1>2, AppendProperties
  <2>2. DOMAIN Append(prefix, e) = 1..(Len(prefix) + 1)
    BY <2>1, LenProperties
  <2> QED BY ONLY <1>3, <2>1, <2>2
<1>5. \A j \in DOMAIN allContainers : j \in 1..Len(prefix) /\ j \in DOMAIN allContainers'
  BY <1>1, <1>2, <1>4
<1>6. \A j \in DOMAIN allContainers : allContainers'[j] = allContainers[j]
  BY <1>1, <1>2, <1>4
<1>7. Len(prefix) + 1 \in DOMAIN allContainers'
  BY <1>1, <1>2, <1>4
<1>8. \A i \in DOMAIN allContainers' : i = Len(prefix) + 1 \/ i \in DOMAIN allContainers
  BY <1>1, <1>2, <1>4
<1> QED BY <1>4, <1>5, <1>6, <1>7, <1>8

\* Taking the last entry of a registry of which nothing is lost, and putting it in the place
\* of another, leaves every entry but that one.
LEMMA WithoutEntryLosesOne ==
    ASSUME TypeOK, NEW i \in DOMAIN allContainers,
           allContainers' = WithoutEntry(allContainers, i, Len(allContainers))
    PROVE  /\ \A k \in DOMAIN allContainers' : \E j \in DOMAIN allContainers :
                 allContainers'[k] = allContainers[j]
           /\ \A j \in DOMAIN allContainers \ {i} : \E k \in DOMAIN allContainers' :
                 allContainers'[k] = allContainers[j]
<1> DEFINE n == Len(allContainers)
           moved == [allContainers EXCEPT ![i] = allContainers[n]]
           shorter == SubSeq(moved, 1, n - 1)
<1>1. /\ allContainers \in Seq(Sessions) /\ n \in Nat /\ DOMAIN allContainers = 1..n
      /\ i \in 1..n /\ n \in 1..n /\ \A j \in 1..n : allContainers[j] \in Sessions
  BY LenProperties, ElementOfSeq DEF TypeOK
<1>2. /\ moved \in Seq(Sessions) /\ Len(moved) = n
      /\ \A j \in 1..n : moved[j] = IF j = i THEN allContainers[n] ELSE allContainers[j]
  BY <1>1, ExceptSeq
<1>3. allContainers' = shorter
  BY DEF WithoutEntry
<1> HIDE DEF moved
<1>4. /\ shorter \in Seq(Sessions) /\ Len(shorter) = n - 1
      /\ \A k \in 1..(n - 1) : shorter[k] = moved[k]
  <2>1. \A k \in 1..(n - 1) : moved[k] \in Sessions
    BY <1>1, <1>2
  <2> QED BY <1>1, <2>1, SubSeqProperties
<1>5. DOMAIN shorter = 1..(n - 1)
  BY <1>1, <1>4, LenProperties
<1> HIDE DEF shorter
<1>6. \A k \in DOMAIN allContainers' :
         /\ k \in 1..(n - 1)
         /\ allContainers'[k] = IF k = i THEN allContainers[n] ELSE allContainers[k]
  BY <1>1, <1>2, <1>3, <1>4, <1>5
<1>7. ASSUME NEW j \in DOMAIN allContainers, j # i
      PROVE  \E k \in DOMAIN allContainers' : allContainers'[k] = allContainers[j]
  <2>1. CASE j = n
    <3>1. i \in 1..(n - 1)
      BY <1>1, <1>7, <2>1
    <3>2. i \in DOMAIN allContainers' /\ allContainers'[i] = allContainers[n]
      BY <1>3, <1>5, <1>6, <3>1
    <3> QED BY <2>1, <3>2
  <2>2. CASE j # n
    <3>1. j \in 1..(n - 1)
      BY <1>1, <1>7, <2>2
    <3>2. j \in DOMAIN allContainers' /\ allContainers'[j] = allContainers[j]
      BY <1>3, <1>5, <1>6, <1>7, <3>1
    <3> QED BY <3>2
  <2> QED BY <2>1, <2>2
<1> QED BY <1>1, <1>6, <1>7

-------------------------------------------------------------------------------
(* Steps of one session, until the server first ends *)

\* A step of a session touches no other session, and no container but the one it is then about.
LEMMA TouchesOne ==
    ASSUME SInv, Orderly, NEW s \in Sessions, SessionStep(s), ~LoseMemory
    PROVE  /\ \A t \in Sessions \ {s} :
                 pc'[t] = pc[t] /\ target'[t] = target[t] /\ object'[t] = object[t]
           /\ \/ target'[s] = target[s]
              \/ pc[s] = "create" /\ target'[s] \in Containers /\ docker[target'[s]] = "absent"
           /\ \A c \in Containers \ {target'[s]} :
                 /\ docker'[c] = docker[c] /\ settings'[c] = settings[c]
                 /\ c \in auth' => c \in auth
                 /\ Registered(c)' = {} <=> Registered(c) = {}
           /\ \A o \in Sessions : pc[o] \in PastRecord => config'[o] = config[o]
           /\ UNCHANGED <<closers, asked, server>>
<1> USE DEF envVars, storeVars, objectVars, localVars
<1>1. TypeOK
  BY DEF SInv, IInv
<1>2. ASSUME NEW label, Goto(s, label),
             UNCHANGED <<docker, settings, auth, target, closers, asked, server>>,
             \A t \in Sessions \ {s} : object'[t] = object[t],
             \A o \in Sessions : pc[o] \in PastRecord => config'[o] = config[o],
             \A c \in Containers \ {target[s]} : Registered(c)' = {} <=> Registered(c) = {}
      PROVE  /\ \A t \in Sessions \ {s} :
                   pc'[t] = pc[t] /\ target'[t] = target[t] /\ object'[t] = object[t]
             /\ \/ target'[s] = target[s]
                \/ pc[s] = "create" /\ target'[s] \in Containers /\ docker[target'[s]] = "absent"
             /\ \A c \in Containers \ {target'[s]} :
                   /\ docker'[c] = docker[c] /\ settings'[c] = settings[c]
                   /\ c \in auth' => c \in auth
                   /\ Registered(c)' = {} <=> Registered(c) = {}
             /\ \A o \in Sessions : pc[o] \in PastRecord => config'[o] = config[o]
             /\ UNCHANGED <<closers, asked, server>>
  BY <1>1, <1>2, MovesTo
<1>3. ASSUME UNCHANGED <<allContainers, target>> PROVE \A c : Registered(c)' = Registered(c)
  BY <1>3, RegistryStays DEF SInv
<1>4. CASE \/ Accept(s) \/ CreateFails(s) \/ Scan(s) \/ CheckRunning(s) \/ Setup(s)
           \/ CopyConfig(s) \/ Attach(s) \/ CountIn(s) \/ StreamEnds(s) \/ CountOut(s) \/ Check(s)
  <2>1. UNCHANGED <<docker, settings, auth, target, closers, asked, server, object, config,
                    allContainers>>
    BY <1>4 DEF Accept, CreateFails, Scan, CheckRunning, Setup, CopyConfig, Attach, CountIn,
                StreamEnds, CountOut, Check
  <2>2. \E label : Goto(s, label)
    BY <1>4 DEF Accept, CreateFails, Scan, CheckRunning, Setup, CopyConfig, Attach, CountIn,
                StreamEnds, CountOut, Check
  <2> QED BY <1>2, <1>3, <2>1, <2>2
<1>5. CASE Lookup(s) \/ Open(s) \/ Inspect(s)
  <2>1. UNCHANGED <<docker, settings, auth, target, closers, asked, server, allContainers>>
    BY <1>5 DEF Lookup, Open, Inspect
  <2>2. /\ \E label : Goto(s, label)
        /\ \A t \in Sessions \ {s} : object'[t] = object[t]
        /\ \A t \in Sessions \ {s} : config'[t] = config[t]
        /\ pc[s] \notin PastRecord
    BY <1>1, <1>5 DEF Lookup, Open, Inspect, TypeOK, PastRecord, Working
  <2> QED BY <1>2, <1>3, <2>1, <2>2
<1>6. CASE Register(s) \/ Unregister(s)
  <2>1. /\ UNCHANGED <<docker, settings, auth, target, closers, asked, server, object, config>>
        /\ pc[s] \in Working
    BY <1>6 DEF Register, Unregister, Working
  <2>2. /\ \E label : Goto(s, label)
    BY <1>6 DEF Register, Unregister
  <2>3. object[s] \in Sessions /\ target[object[s]] = target[s]
    BY <2>1, WorkersHaveObjects DEF SInv
  <2>4. /\ \A i \in DOMAIN allContainers' :
              \/ allContainers'[i] = object[s]
              \/ \E j \in DOMAIN allContainers : allContainers'[i] = allContainers[j]
        /\ \A j \in DOMAIN allContainers :
              \/ allContainers[j] = object[s]
              \/ \E i \in DOMAIN allContainers' : allContainers'[i] = allContainers[j]
    <3>1. Loaded(s, Len(allContainers)) = {Len(allContainers)}
      BY DEF Loaded, Orderly
    <3>2. CASE allContainers' = Append(SubSeq(allContainers, 1, Len(allContainers)), object[s])
      BY <1>1, <2>3, <3>2, AppendKeeps
    <3>3. CASE \E i \in Positions(object[s]) :
                  allContainers' = WithoutEntry(allContainers, i, Len(allContainers))
      <4>1. PICK i \in DOMAIN allContainers :
               /\ allContainers[i] = object[s]
               /\ allContainers' = WithoutEntry(allContainers, i, Len(allContainers))
        BY <3>3 DEF Positions
      <4>2. /\ \A k \in DOMAIN allContainers' : \E j \in DOMAIN allContainers :
                  allContainers'[k] = allContainers[j]
            /\ \A j \in DOMAIN allContainers \ {i} : \E k \in DOMAIN allContainers' :
                  allContainers'[k] = allContainers[j]
        BY <1>1, <4>1, WithoutEntryLosesOne
      <4> QED BY <4>1, <4>2
    <3> QED BY <1>6, <3>1, <3>2, <3>3 DEF Register, Unregister
  <2>5. \A c \in Containers \ {target[s]} : Registered(c)' = {} <=> Registered(c) = {}
    BY <2>1, <2>3, <2>4 DEF Registered
  <2> QED BY <1>2, <2>1, <2>2, <2>5
<1>7. ASSUME NEW d \in Containers, NEW profile \in Profiles, Create(s, d, profile)
      PROVE  /\ \A t \in Sessions \ {s} :
                   pc'[t] = pc[t] /\ target'[t] = target[t] /\ object'[t] = object[t]
             /\ target'[s] = d /\ pc[s] = "create" /\ docker[d] = "absent"
             /\ \A c \in Containers \ {d} :
                   /\ docker'[c] = docker[c] /\ settings'[c] = settings[c]
                   /\ c \in auth' => c \in auth
                   /\ Registered(c)' = {} <=> Registered(c) = {}
             /\ \A o \in Sessions : pc[o] \in PastRecord => config'[o] = config[o]
             /\ UNCHANGED <<closers, asked, server>>
  <2>1. \A t \in Sessions \ {s} :
           /\ pc'[t] = pc[t] /\ target'[t] = target[t]
           /\ object'[t] = object[t] /\ config'[t] = config[t]
    BY <1>1, <1>7 DEF Create, Goto, TypeOK
  <2>2. /\ target'[s] = d /\ pc[s] = "create" /\ docker[d] = "absent" /\ pc[s] \notin PastRecord
        /\ \A c \in Containers \ {d} : docker'[c] = docker[c]
        /\ UNCHANGED <<settings, auth, allContainers, closers, asked, server>>
    BY <1>1, <1>7 DEF Create, TypeOK, PastRecord, Working
  <2>3. \A c : Registered(c)' = Registered(c)
    BY <2>1, <2>2, RegistryStays DEF SInv
  <2> QED BY <2>1, <2>2, <2>3
<1>8. CASE Record(s) \/ StartContainer(s) \/ SessionStop(s)
  <2>1. UNCHANGED <<target, closers, asked, server, object, config, allContainers>>
    BY <1>8 DEF Record, StartContainer, SessionStop
  <2>2. \A t \in Sessions \ {s} : pc'[t] = pc[t]
    BY <1>1, <1>8 DEF Record, StartContainer, SessionStop, Goto, TypeOK
  <2>3. \A c \in Containers \ {target[s]} :
           docker'[c] = docker[c] /\ settings'[c] = settings[c] /\ (c \in auth' => c \in auth)
    <3>1. CASE Record(s) \/ StartContainer(s)
      BY <1>1, <3>1 DEF Record, StartContainer, TypeOK
    <3>2. CASE SessionStop(s)
      <4>1. PICK next \in StopLabels : StopStep(object[s], pc[s], next)
        BY <3>2 DEF SessionStop
      <4>2. pc[s] \in Working
        BY <4>1 DEF StopStep, Working
      <4>3. target[object[s]] = target[s]
        BY <4>2, WorkersHaveObjects DEF SInv
      <4> QED BY <1>1, <4>1, <4>3
              DEF StopStep, HaltStep, RemoveStep, DeleteAuthStep, DeleteSettingsStep, TypeOK
    <3> QED BY <1>8, <3>1, <3>2
  <2> QED BY <1>3, <2>1, <2>2, <2>3
<1>9. CASE GetContainer(s)
  BY <1>4, <1>5, <1>7, <1>8, <1>9 DEF GetContainer, PullFatal
<1>10. CASE Connection(s)
  BY <1>4, <1>6, <1>8, <1>10 DEF Connection, UnregisterPanic
<1> QED BY <1>4, <1>9, <1>10 DEF SessionStep, AcceptPanic

\* Whoever makes a container goes on, whatever another session does.
LEMMA MakersStay ==
    ASSUME SInv, Orderly, NEW s \in Sessions, SessionStep(s), ~LoseMemory,
           NEW t \in Sessions \ {s}, Maker(t)
    PROVE  Maker(t)' /\ target'[t] = target[t] /\ target[t] # target'[s]
<1>1. /\ \A u \in Sessions \ {s} : pc'[u] = pc[u] /\ target'[u] = target[u]
      /\ \/ target'[s] = target[s]
         \/ pc[s] = "create" /\ target'[s] \in Containers /\ docker[target'[s]] = "absent"
      /\ \A c \in Containers \ {target'[s]} :
            /\ docker'[c] = docker[c] /\ settings'[c] = settings[c]
            /\ c \in auth' => c \in auth
            /\ Registered(c)' = {} <=> Registered(c) = {}
      /\ UNCHANGED closers
  BY TouchesOne
<1>2. target[t] # target'[s]
  BY <1>1 DEF Maker
<1>3. \A i \in DOMAIN closers : target'[closers[i].object] # target[t]
  BY <1>1, <1>2, EntriesHaveObjects DEF SInv, Maker
<1>4. \A u \in Sessions : target'[u] = target[t] => u = t
  BY <1>1, <1>2 DEF Maker
<1>5. Registered(target[t])' = {}
  BY <1>1, <1>2 DEF Maker
<1> QED BY <1>1, <1>2, <1>3, <1>4, <1>5 DEF Maker

\* A container that exists and is not kept is registered for whoever is about it and did not
\* make it.
LEMMA FindsRegistered ==
    ASSUME MakersRegister, NEW s \in Sessions, target[s] \in Containers, Exists(target[s]),
           ~Kept(target[s]), ~Maker(s)
    PROVE  Registered(target[s]) # {}
BY DEF MakersRegister, Maker

\* What a step of session s does to its container, and what the session then knows of it.
KeepsOwn(s) ==
    \A c \in Containers : c = target'[s] =>
        /\ docker[c] = "removed" => docker'[c] = "removed"
        /\ Kept(c) => Kept(c)'
        /\ docker'[c] = "removed" => ~Kept(c)'
        /\ Exists(c)' /\ ~Kept(c)' => Registered(c)' # {} \/ Maker(s)'
        /\ pc'[s] \in {"open", "inspect"} => docker'[c] = "removed" \/ Kept(c)'
        /\ pc'[s] = "record" => Kept(c)' \/ Maker(s)'
        /\ pc'[s] = "remove" => ~config'[object'[s]].keepOnExit
        /\ pc'[s] = "unregister" => docker'[c] = "removed" \/ config'[object'[s]].keepOnExit

\* A step that leaves docker, the rows and the registry alone keeps what its session knows.
LEMMA QuietKeepsOwn ==
    ASSUME LInv, NEW s \in Sessions, UNCHANGED <<docker, settings, auth, target, closers>>,
           \A c : Registered(c)' = Registered(c), NEW label, Goto(s, label),
           label \notin {"remove", "unregister"},
           label \in {"open", "inspect"} => docker[target[s]] = "removed" \/ Kept(target[s]),
           label = "record" => Kept(target[s]), Maker(s) => label \in Making
    PROVE  KeepsOwn(s)
<1>1. \A t \in Sessions : pc'[t] = IF t = s THEN label ELSE pc[t]
  BY MovesTo DEF LInv, SInv, IInv
<1>2. Maker(s) => Maker(s)'
  BY <1>1 DEF Maker
<1>3. \A c : (Kept(c)' <=> Kept(c)) /\ (Exists(c)' <=> Exists(c))
  BY DEF Kept, Exists
<1> SUFFICES ASSUME NEW c \in Containers, c = target[s]
             PROVE  /\ docker'[c] = "removed" => ~Kept(c)'
                    /\ Exists(c)' /\ ~Kept(c)' => Registered(c)' # {} \/ Maker(s)'
                    /\ label \in {"open", "inspect"} => docker'[c] = "removed" \/ Kept(c)'
                    /\ label = "record" => Kept(c)' \/ Maker(s)'
  BY <1>1, <1>3 DEF KeepsOwn
<1> QED BY <1>2, <1>3, FindsRegistered DEF LInv, StopsAreFinal

\* A session that finds no object of its container opens one that is kept, or gone.
LEMMA GetContainerKeepsOwn ==
    ASSUME LInv, NEW s \in Sessions,
           Accept(s) \/ Lookup(s) \/ Open(s) \/ Inspect(s) \/ CreateFails(s)
    PROVE  KeepsOwn(s)
<1> USE DEF envVars, storeVars, objectVars, localVars
<1>1. UNCHANGED <<docker, settings, auth, target, closers, allContainers>>
  BY DEF Accept, Lookup, Open, Inspect, CreateFails
<1>2. \A c : Registered(c)' = Registered(c)
  BY <1>1, RegistryStays DEF LInv, SInv
<1>3. ~Maker(s)
  BY DEF Accept, Lookup, Open, Inspect, CreateFails, Maker, Making
<1>4. CASE Accept(s) \/ CreateFails(s)
  <2>1. PICK label \in {"lookup", "failed"} : Goto(s, label)
    BY <1>4 DEF Accept, CreateFails
  <2> QED BY <1>1, <1>2, <1>3, <2>1, QuietKeepsOwn
<1>5. CASE Lookup(s)
  <2>1. target[s] \in Containers
    BY <1>5 DEF Lookup, LInv, SInv, IInv, SharedObjectsAgree, SessionAgrees
  <2>2. docker[target[s]] \in {"removed", "stopped", "running"}
    BY <2>1, NoneIsNothing DEF LInv, SInv, IInv, TypeOK, Attended, MadeBefore
  <2>3. PICK label \in {"scan", "open"} :
           Goto(s, label) /\ (label = "open" => Registered(target[s]) = {})
    BY <1>5 DEF Lookup
  <2>4. label = "open" => docker[target[s]] = "removed" \/ Kept(target[s])
    BY <1>3, <2>1, <2>2, <2>3, FindsRegistered DEF LInv, Exists
  <2> QED BY <1>1, <1>2, <1>3, <2>3, <2>4, QuietKeepsOwn
<1>6. CASE Open(s)
  <2>1. docker[target[s]] = "removed" \/ Kept(target[s])
    BY <1>6 DEF Open, LInv, OpenersFindKept
  <2>2. PICK label \in {"inspect", "failed"} : Goto(s, label)
    BY <1>6 DEF Open
  <2> QED BY <1>1, <1>2, <1>3, <2>1, <2>2, QuietKeepsOwn
<1>7. CASE Inspect(s)
  <2>1. docker[target[s]] = "removed" \/ Kept(target[s])
    BY <1>7 DEF Inspect, LInv, OpenersFindKept
  <2>2. PICK label \in {"record", "failed"} :
           Goto(s, label) /\ (label = "record" => Exists(target[s]))
    BY <1>7 DEF Inspect
  <2>3. label = "record" => Kept(target[s])
    BY <2>1, <2>2 DEF Exists
  <2> QED BY <1>1, <1>2, <1>3, <2>2, <2>3, QuietKeepsOwn
<1> QED BY <1>4, <1>5, <1>6, <1>7

\* A session that creates a container is its maker.
LEMMA CreateKeepsOwn ==
    ASSUME LInv, NEW s \in Sessions, NEW c \in Containers, NEW profile \in Profiles,
           Create(s, c, profile)
    PROVE  KeepsOwn(s)
<1> USE DEF envVars, storeVars, objectVars, localVars
<1>1. TypeOK
  BY DEF LInv, SInv, IInv
<1>2. /\ pc[s] = "create" /\ docker[c] = "absent" /\ docker'[c] = "stopped"
      /\ pc'[s] = "record" /\ target'[s] = c
      /\ \A t \in Sessions \ {s} : target'[t] = target[t]
      /\ UNCHANGED <<auth, settings, allContainers, closers>>
  BY <1>1 DEF Create, Goto, TypeOK
<1>3. /\ c \notin auth /\ settings[c] = None /\ \A t \in Sessions : target[t] # c
  BY <1>2, NoneIsNothing DEF LInv, SInv, Attended, MadeBefore
<1>4. pc[s] \notin PastRecord
  BY <1>2 DEF PastRecord, Working
<1>5. \A t \in Sessions : pc[t] \in PastRecord => target'[t] = target[t]
  BY <1>2, <1>4
<1>6. Registered(c)' = {}
  <2>1. Registered(c) = {}
    BY <1>3, EntriesHaveObjects DEF Registered, LInv, SInv
  <2> QED BY <1>2, <1>5, <2>1, RegistryStays DEF LInv, SInv
<1>7. \A i \in DOMAIN closers : target'[closers[i].object] # c
  BY <1>3, <1>5, EntriesHaveObjects DEF LInv, SInv
<1>8. Maker(s)'
  BY <1>2, <1>3, <1>6, <1>7 DEF Maker, Making
<1>9. ~Kept(c)
  BY <1>3 DEF Kept
<1> QED BY <1>2, <1>8, <1>9 DEF KeepsOwn

\* A row is written for a container that is still to be registered by its maker.
LEMMA RecordKeepsOwn ==
    ASSUME LInv, NEW s \in Sessions, Record(s)
    PROVE  KeepsOwn(s)
<1> USE DEF envVars, storeVars, objectVars, localVars
<1>1. TypeOK
  BY DEF LInv, SInv, IInv
<1>2. /\ pc[s] = "record" /\ target[s] \in Containers
      /\ UNCHANGED <<docker, auth, target, closers, allContainers>>
  BY DEF Record, LInv, SInv, IInv, SharedObjectsAgree, SessionAgrees
<1>3. PICK label \in {"scan", "failed"} : Goto(s, label)
  BY DEF Record
<1>4. \A t \in Sessions : pc'[t] = IF t = s THEN label ELSE pc[t]
  BY <1>1, <1>3, MovesTo
<1>5. \A c : Registered(c)' = Registered(c)
  BY <1>2, RegistryStays DEF LInv, SInv
<1>6. Maker(s) => Maker(s)'
  BY <1>2, <1>4, <1>5 DEF Maker, Making
<1>7. Kept(target[s]) \/ Maker(s)
  BY <1>2 DEF LInv, OpenersFindKept
<1>8. \A c \in Containers : Kept(c) => Kept(c)'
  BY <1>1, <1>2 DEF Kept, Record, TypeOK
<1>9. Maker(s) => docker[target[s]] # "removed"
  BY DEF Maker
<1>10. docker[target[s]] = "removed" => ~Kept(target[s])
  BY <1>2 DEF LInv, StopsAreFinal
<1>11. pc'[s] \notin {"open", "inspect", "record", "remove", "unregister"}
  BY <1>4
<1> QED BY <1>2, <1>6, <1>7, <1>8, <1>9, <1>10, <1>11 DEF KeepsOwn

\* A session that has made its container registers it before it starts it.
LEMMA ConnectionKeepsOwn ==
    ASSUME LInv, Orderly, NEW s \in Sessions,
           \/ Scan(s) \/ Register(s) \/ CheckRunning(s) \/ StartContainer(s) \/ Setup(s)
           \/ CopyConfig(s) \/ Attach(s) \/ CountIn(s) \/ StreamEnds(s) \/ CountOut(s) \/ Check(s)
    PROVE  KeepsOwn(s)
<1> USE DEF envVars, storeVars, objectVars, localVars
<1>1. TypeOK
  BY DEF LInv, SInv, IInv
<1>2. /\ UNCHANGED <<settings, auth, target, closers>>
      /\ pc[s] \in Working
  BY DEF Scan, Register, CheckRunning, StartContainer, Setup, CopyConfig, Attach, CountIn,
         StreamEnds, CountOut, Check, Working
<1>3. /\ object[s] \in Sessions /\ target[s] \in Containers /\ target[object[s]] = target[s]
  BY <1>2, WorkersHaveObjects DEF LInv, SInv
<1>4. UNCHANGED allContainers => \A c : Registered(c)' = Registered(c)
  BY <1>2, RegistryStays DEF LInv, SInv
<1>5. CASE CheckRunning(s) \/ Setup(s) \/ CopyConfig(s) \/ Attach(s)
  <2>1. UNCHANGED <<docker, allContainers>> /\ ~Maker(s)
    BY <1>5 DEF CheckRunning, Setup, CopyConfig, Attach, Maker, Making
  <2>2. PICK label \in {"config", "start", "startFailed", "attach", "inc", "check"} : Goto(s, label)
    BY <1>5 DEF CheckRunning, Setup, CopyConfig, Attach
  <2> QED BY <1>2, <1>4, <2>1, <2>2, QuietKeepsOwn
<1>6. CASE CountIn(s) \/ StreamEnds(s) \/ CountOut(s) \/ Check(s)
  <2>1. UNCHANGED <<docker, allContainers>> /\ ~Maker(s)
    BY <1>6 DEF CountIn, StreamEnds, CountOut, Check, Maker, Making
  <2>2. PICK label \in {"wait", "dec", "check", "stop", "done"} : Goto(s, label)
    BY <1>6 DEF CountIn, StreamEnds, CountOut, Check
  <2> QED BY <1>2, <1>4, <2>1, <2>2, QuietKeepsOwn
<1>7. CASE Scan(s)
  <2>1. UNCHANGED <<docker, allContainers>>
    BY <1>7 DEF Scan
  <2>2. PICK label \in {"running", "append"} :
           Goto(s, label) /\ (label = "running" => Positions(object[s]) # {})
    BY <1>7 DEF Scan
  <2>3. Maker(s) => label = "append"
    BY <1>3, <2>2 DEF Maker, Registered, Positions
  <2> QED BY <1>2, <1>4, <2>1, <2>2, <2>3, QuietKeepsOwn DEF Making
<1>8. \A t \in Sessions : pc'[t] = IF t = s THEN pc'[s] ELSE pc[t]
  BY <1>1 DEF Scan, Register, CheckRunning, StartContainer, Setup, CopyConfig, Attach, CountIn,
              StreamEnds, CountOut, Check, Goto, TypeOK
<1>9. \A c : Kept(c)' <=> Kept(c)
  BY <1>2 DEF Kept
<1>10. docker[target[s]] = "removed" => ~Kept(target[s])
  BY <1>3 DEF LInv, StopsAreFinal
<1>11. CASE Register(s)
  <2>1. UNCHANGED docker /\ pc'[s] = "running"
    BY <1>1, <1>11 DEF Register, Goto, TypeOK
  <2>2. allContainers' = Append(SubSeq(allContainers, 1, Len(allContainers)), object[s])
    BY <1>11 DEF Register, Loaded, Orderly
  <2>3. \E i \in DOMAIN allContainers' : allContainers'[i] = object[s]
    BY <1>1, <1>3, <2>2, AppendKeeps
  <2>4. Registered(target[s])' # {}
    BY <1>2, <1>3, <2>3 DEF Registered
  <2> QED BY <1>2, <1>9, <1>10, <2>1, <2>4 DEF KeepsOwn
<1>12. CASE StartContainer(s)
  <2>1. pc[s] = "start" /\ UNCHANGED allContainers /\ ~Maker(s)
    BY <1>12 DEF StartContainer, Maker, Making
  <2>2. \/ UNCHANGED docker
        \/ Exists(target[s]) /\ docker' = [docker EXCEPT ![target[s]] = "running"]
    BY <1>12 DEF StartContainer
  <2>3. /\ Exists(target[s])' => Exists(target[s])
        /\ docker[target[s]] = "removed" <=> docker'[target[s]] = "removed"
    BY <1>1, <1>2, <1>3, <2>2 DEF Exists, TypeOK
  <2>4. pc'[s] \in {"config", "setup", "startFailed"}
    BY <1>1, <1>12 DEF StartContainer, Goto, TypeOK
  <2>5. Exists(target[s])' /\ ~Kept(target[s]) => Registered(target[s])' # {}
    BY <1>2, <1>3, <1>4, <2>1, <2>3, FindsRegistered DEF LInv
  <2> QED BY <1>2, <1>9, <1>10, <2>3, <2>4, <2>5 DEF KeepsOwn
<1> QED BY <1>5, <1>6, <1>7, <1>11, <1>12

\* A container that a session removes is not kept, and one that it takes out of the registry is
\* removed or kept.
LEMMA StopKeepsOwn ==
    ASSUME LInv, NEW s \in Sessions, SessionStop(s) \/ Unregister(s)
    PROVE  KeepsOwn(s)
<1> USE DEF envVars, storeVars, objectVars, localVars
<1>1. TypeOK
  BY DEF LInv, SInv, IInv
<1>2. /\ pc[s] \in Working /\ pc[s] \notin Making /\ UNCHANGED <<target, object, config>>
  BY DEF SessionStop, Unregister, StopStep, Working, Making
<1>3. /\ object[s] \in Sessions /\ target[s] \in Containers /\ target[object[s]] = target[s]
      /\ config[object[s]] # None /\ settings[target[s]] \in {config[object[s]], None}
      /\ docker[target[s]] = "removed" \/ settings[target[s]] # None
  <2>1. /\ object[s] \in Sessions /\ target[s] \in Containers /\ target[object[s]] = target[s]
        /\ config[object[s]] # None
    BY <1>2, WorkersHaveObjects DEF LInv, SInv
  <2>2. docker[target[s]] = "removed" \/ settings[target[s]] # None
    BY <1>2 DEF LInv, SInv, IInv, SharedObjectsAgree, SessionAgrees, Ready
  <2>3. settings[target[object[s]]] \in {config[object[s]], None}
    BY <2>1 DEF LInv, SInv, Attended, ConfigsAgree
  <2> QED BY <2>1, <2>2, <2>3
<1>4. ~Maker(s)
  BY <1>2 DEF Maker
<1> DEFINE c == target[s]
           o == object[s]
<1>5. docker[c] = "removed" => ~Kept(c)
  BY <1>3 DEF LInv, StopsAreFinal
<1>6. CASE Unregister(s)
  <2>1. /\ pc[s] = "unregister" /\ pc'[s] = "done" /\ UNCHANGED <<docker, settings>>
    BY <1>1, <1>6 DEF Unregister, Goto, TypeOK
  <2>2. docker[c] = "removed" \/ config[o].keepOnExit
    BY <2>1 DEF LInv, StopsAreFinal
  <2>3. docker[c] = "removed" \/ Kept(c)
    BY <1>3, <2>2 DEF Kept
  <2> QED BY <1>2, <1>5, <2>1, <2>3 DEF KeepsOwn, Kept, Exists
<1>7. CASE SessionStop(s)
  <2>1. PICK next \in StopLabels : StopStep(o, pc[s], next) /\ Goto(s, next)
    BY <1>7 DEF SessionStop
  <2>2. UNCHANGED <<allContainers, closers>> /\ pc'[s] = next
    BY <1>1, <1>7, <2>1 DEF SessionStop, Goto, TypeOK
  <2>3. pc[s] \in {"deleteAuth", "deleteSettings"} => docker[target[o]] = "removed"
    BY <1>3 DEF LInv, SInv, IInv, SharedObjectsAgree, SessionAgrees
  <2>4. pc[s] = "remove" => ~config[o].keepOnExit
    BY DEF LInv, StopsAreFinal
  <2> DEFINE at == pc[s]
  <2> HIDE DEF c, o, at
  <2>5. /\ docker[c] = "removed" => docker'[c] = "removed"
        /\ docker'[c] = "removed" => docker[c] = "removed" \/ at = "remove"
        /\ settings'[c] = settings[c] \/ (docker[c] = "removed" /\ settings'[c] = None)
        /\ next \in {"remove", "deleteAuth", "deleteSettings", "unregister", "stopFailed"}
        /\ next = "unregister" => docker'[c] = "removed" \/ config[o].keepOnExit
        /\ next = "remove" => ~config[o].keepOnExit
    <3>1. /\ o \in Sessions /\ target[o] = c /\ c \in Containers /\ StopStep(o, at, next)
          /\ at \in {"deleteAuth", "deleteSettings"} => docker[target[o]] = "removed"
      BY <1>3, <2>1, <2>3 DEF c, o, at
    <3> QED BY <3>1, StopStepAlone DEF LInv, SInv, Attended
  <2>6. docker'[c] \in {"stopped", "running"} => Exists(c)
    <3>1. target[o] = c /\ c \in Containers /\ StopStep(o, at, next)
      BY <1>3, <2>1 DEF c, o, at
    <3> QED BY <1>1, <3>1 DEF StopStep, HaltStep, RemoveStep, DeleteAuthStep, DeleteSettingsStep,
                              Exists, TypeOK
  <2>7. Kept(c) => Kept(c)'
    BY <1>2, <1>5, <2>5 DEF Kept, c
  <2>8. Kept(c)' => Kept(c)
    BY <1>2, <2>5 DEF Kept, c
  <2>9. at = "remove" => ~Kept(c)
    BY <1>3, <2>4 DEF Kept, c, o, at
  <2>10. Exists(c)' /\ ~Kept(c)' => Registered(c)' # {}
    <3>1. Registered(c)' = Registered(c)
      BY <1>2, <2>2, RegistryStays DEF LInv, SInv, c
    <3>2. Exists(c) /\ ~Kept(c) => Registered(c) # {}
      BY <1>3, <1>4, FindsRegistered DEF LInv, c
    <3>3. Exists(c)' => Exists(c)
      BY <1>2, <2>6 DEF Exists, c
    <3> QED BY <2>7, <3>1, <3>2, <3>3
  <2>11. c = target'[s] /\ o = object'[s] /\ config'[o] = config[o]
    BY <1>2 DEF c, o
  <2>12. next \notin {"open", "inspect", "record"}
    BY <2>5
  <2>13. docker'[c] = "removed" => ~Kept(c)'
    BY <1>5, <2>5, <2>8, <2>9
  <2> SUFFICES ASSUME NEW d \in Containers, d = c
               PROVE  /\ docker[d] = "removed" => docker'[d] = "removed"
                      /\ Kept(d) => Kept(d)'
                      /\ docker'[d] = "removed" => ~Kept(d)'
                      /\ Exists(d)' /\ ~Kept(d)' => Registered(d)' # {} \/ Maker(s)'
                      /\ next = "remove" => ~config[o].keepOnExit
                      /\ next = "unregister" => docker'[d] = "removed" \/ config[o].keepOnExit
    BY <2>2, <2>11, <2>12 DEF KeepsOwn
  <2>14. c' = c
    BY <1>2 DEF c
  <2> QED BY <2>5, <2>7, <2>10, <2>13, <2>14
<1> QED BY <1>6, <1>7

\* Every step of a session keeps what it knows of its container.
LEMMA SessionKeepsOwn ==
    ASSUME LInv, Orderly, NEW s \in Sessions, SessionStep(s), ~LoseMemory
    PROVE  KeepsOwn(s)
<1>1. CASE GetContainer(s)
  BY <1>1, GetContainerKeepsOwn, CreateKeepsOwn, RecordKeepsOwn DEF GetContainer, PullFatal
<1>2. CASE Connection(s)
  BY <1>2, ConnectionKeepsOwn, StopKeepsOwn DEF Connection, UnregisterPanic
<1> QED BY <1>1, <1>2, GetContainerKeepsOwn DEF SessionStep, AcceptPanic

\* So it keeps what holds of every container before the server first ends.
LEMMA SessionKeeps ==
    ASSUME LInv, Orderly, NEW s \in Sessions, SessionStep(s), ~LoseMemory, IInv'
    PROVE  MakersRegister' /\ OpenersFindKept' /\ StopsAreFinal' /\ NamedAreKept'
<1>1. /\ \A t \in Sessions \ {s} :
            pc'[t] = pc[t] /\ target'[t] = target[t] /\ object'[t] = object[t]
      /\ \/ target'[s] = target[s]
         \/ pc[s] = "create" /\ target'[s] \in Containers /\ docker[target'[s]] = "absent"
      /\ \A c \in Containers \ {target'[s]} :
            /\ docker'[c] = docker[c] /\ settings'[c] = settings[c]
            /\ Registered(c)' = {} <=> Registered(c) = {}
      /\ \A o \in Sessions : pc[o] \in PastRecord => config'[o] = config[o]
      /\ UNCHANGED closers
  BY TouchesOne DEF LInv
<1>2. KeepsOwn(s)
  BY SessionKeepsOwn
<1>3. \A c \in Containers :
         (Kept(c) => Kept(c)') /\ (docker[c] = "removed" => docker'[c] = "removed")
  BY <1>1, <1>2 DEF KeepsOwn, Kept
<1>4. MakersRegister'
  <2> SUFFICES ASSUME NEW c \in Containers, Exists(c)', ~Kept(c)', Registered(c)' = {}
               PROVE  \E t \in Sessions : target'[t] = c /\ Maker(t)'
    BY DEF MakersRegister
  <2>1. CASE c = target'[s]
    BY <1>2, <2>1 DEF KeepsOwn
  <2>2. CASE c # target'[s]
    <3>1. Exists(c) /\ ~Kept(c) /\ Registered(c) = {}
      BY <1>1, <2>2 DEF Exists, Kept
    <3>2. PICK t \in Sessions : target[t] = c /\ Maker(t)
      BY <3>1 DEF LInv, MakersRegister
    <3>3. t # s
      BY <1>1, <2>2, <3>2 DEF Maker, Making
    <3>4. Maker(t)' /\ target'[t] = target[t]
      BY <3>2, <3>3, MakersStay DEF LInv
    <3> QED BY <3>2, <3>4
  <2> QED BY <2>1, <2>2
<1>5. OpenersFindKept'
  <2> SUFFICES ASSUME NEW t \in Sessions
               PROVE  /\ pc'[t] \in {"open", "inspect"} =>
                            docker'[target'[t]] = "removed" \/ Kept(target[t])'
                      /\ pc'[t] = "record" => Kept(target[t])' \/ Maker(t)'
    BY DEF OpenersFindKept
  <2>1. pc'[t] \in {"open", "inspect", "record"} => target'[t] \in Containers
    BY DEF IInv, SharedObjectsAgree, SessionAgrees
  <2>2. CASE t = s
    BY <1>2, <2>1, <2>2 DEF KeepsOwn
  <2>3. CASE t # s
    <3>1. pc'[t] = pc[t] /\ target'[t] = target[t]
      BY <1>1, <2>3
    <3>2. pc[t] = "record" /\ ~Kept(target[t]) => Maker(t)'
      BY <2>3, MakersStay DEF LInv, OpenersFindKept
    <3> QED BY <1>3, <2>1, <3>1, <3>2 DEF LInv, OpenersFindKept
  <2> QED BY <2>2, <2>3
<1>6. StopsAreFinal'
  <2>1. \A c \in Containers : docker'[c] = "removed" => ~Kept(c)'
    BY <1>1, <1>2 DEF KeepsOwn, LInv, StopsAreFinal, Kept
  <2>2. ASSUME NEW t \in Sessions
        PROVE  /\ pc'[t] = "remove" => ~config'[object'[t]].keepOnExit
               /\ pc'[t] = "unregister" =>
                     docker'[target'[t]] = "removed" \/ config'[object'[t]].keepOnExit
    <3>1. CASE t # s
      <4>1. pc'[t] = pc[t] /\ target'[t] = target[t] /\ object'[t] = object[t]
        BY <1>1, <3>1
      <4>2. pc[t] \in {"remove", "unregister"} =>
               target[t] \in Containers /\ config'[object[t]] = config[object[t]]
        BY <1>1, WorkersHaveObjects DEF LInv, SInv, Working
      <4> QED BY <1>3, <4>1, <4>2 DEF LInv, StopsAreFinal
    <3>2. CASE t = s
      <4>1. pc'[s] \in {"remove", "unregister"} => target'[s] \in Containers
        BY DEF IInv, SharedObjectsAgree, SessionAgrees, Owned, Working
      <4> QED BY <1>2, <3>2, <4>1 DEF KeepsOwn
    <3> QED BY <3>1, <3>2
  <2>3. \A i \in DOMAIN closers' :
           closers'[i].at = "remove" => ~config'[closers'[i].object].keepOnExit
    BY <1>1, EntriesHaveObjects DEF LInv, SInv, StopsAreFinal
  <2> QED BY <2>1, <2>2, <2>3 DEF StopsAreFinal
<1>7. NamedAreKept'
  BY <1>3, NamedAreContainers DEF LInv, NamedAreKept
<1> QED BY <1>4, <1>5, <1>6, <1>7

\* What a shutdown does to a container that is not kept, a session may not undo; and what is
\* kept it only stops.
LEMMA CloserKeeps ==
    ASSUME LInv, NEW i \in DOMAIN closers, CloserStop(i)
    PROVE  MakersRegister' /\ OpenersFindKept' /\ StopsAreFinal' /\ NamedAreKept'
<1>1. PICK next \in StopLabels :
          /\ StopStep(closers[i].object, closers[i].at, next)
          /\ closers' = [closers EXCEPT ![i].at = next]
  BY DEF CloserStop
<1>2. UNCHANGED <<allContainers, config, pc, target, object>>
  BY DEF CloserStop, objectVars, localVars
<1> DEFINE o == closers[i].object
           at == closers[i].at
<1>3. /\ o \in Sessions /\ target[o] \in Containers
      /\ at \in {"deleteAuth", "deleteSettings"} => docker[target[o]] = "removed"
  BY EntriesHaveObjects DEF LInv, SInv, IInv, SharedObjectsAgree, CloserAgrees
<1>4. StopStep(o, at, next)
  BY <1>1
<1>5. /\ DOMAIN closers' = DOMAIN closers
      /\ \A k \in DOMAIN closers : closers'[k].object = closers[k].object
      /\ \A k \in DOMAIN closers : closers'[k].at = IF k = i THEN next ELSE closers[k].at
  BY <1>1, EntriesAreObjects DEF LInv, SInv, IInv
<1>6. at = "remove" => ~config[o].keepOnExit
  BY DEF LInv, StopsAreFinal
<1>7. config[o] # None /\ settings[target[o]] \in {config[o], None}
  <2>1. config[o] # None
    BY EntriesHaveObjects, NoneIsNothing DEF LInv, SInv
  <2> QED BY <1>3, <2>1 DEF LInv, SInv, Attended, ConfigsAgree
<1> HIDE DEF o, at
<1>8. /\ \A c \in Containers :
            /\ docker[c] = "removed" => docker'[c] = "removed"
            /\ docker'[c] = "removed" =>
                  docker[c] = "removed" \/ (c = target[o] /\ Exists(c) /\ at = "remove")
            /\ settings'[c] = settings[c] \/ (docker[c] = "removed" /\ settings'[c] = None)
      /\ next = "remove" => ~config[o].keepOnExit
  BY <1>3, <1>4, StopStepAlone DEF LInv, SInv, Attended
<1>9. \A c \in Containers :
         /\ Exists(c)' => Exists(c)
         /\ c # target[o] => docker'[c] = docker[c] /\ (c \in auth' => c \in auth)
  BY <1>3, <1>4 DEF StopStep, HaltStep, RemoveStep, DeleteAuthStep, DeleteSettingsStep, Exists,
                    LInv, SInv, IInv, TypeOK, storeVars
<1>10. \A c \in Containers : Kept(c)' <=> Kept(c)
  BY <1>8 DEF Kept, LInv, StopsAreFinal
<1>11. \A c : Registered(c)' = Registered(c)
  BY <1>2, RegistryStays DEF LInv, SInv
<1>12. \A t \in Sessions : Maker(t) => Maker(t)'
  BY <1>2, <1>5, <1>9, <1>11 DEF Maker, o
<1>13. MakersRegister'
  BY <1>2, <1>9, <1>10, <1>11, <1>12 DEF LInv, MakersRegister
<1>14. OpenersFindKept'
  <2>1. \A t \in Sessions : pc[t] \in {"open", "inspect", "record"} => target[t] \in Containers
    BY DEF LInv, SInv, IInv, SharedObjectsAgree, SessionAgrees
  <2> QED BY <1>2, <1>8, <1>10, <1>12, <2>1 DEF LInv, OpenersFindKept
<1>15. StopsAreFinal'
  <2>1. \A c \in Containers : docker'[c] = "removed" => ~Kept(c)'
    BY <1>6, <1>7, <1>8, <1>10 DEF LInv, StopsAreFinal, Kept
  <2>2. \A t \in Sessions : pc[t] \in {"remove", "unregister"} => target[t] \in Containers
    BY WorkersHaveObjects DEF LInv, SInv, Working
  <2>3. \A k \in DOMAIN closers' :
           closers'[k].at = "remove" => ~config[closers'[k].object].keepOnExit
    BY <1>5, <1>8 DEF LInv, StopsAreFinal, o
  <2> QED BY <1>2, <1>8, <2>1, <2>2, <2>3 DEF LInv, StopsAreFinal
<1>16. NamedAreKept'
  BY <1>10, NamedAreContainers DEF LInv, NamedAreKept
<1> QED BY <1>13, <1>14, <1>15, <1>16

\* A login finds a container that is kept, or saved by somebody who was let into it.
LEMMA LoginKeepsMakers ==
    ASSUME LInv, NEW s \in Sessions,
           ImageLogin(s) \/ \E c \in Containers : NamedLogin(s, c) \/ SavedLogin(s, c)
    PROVE  MakersRegister' /\ OpenersFindKept' /\ StopsAreFinal' /\ NamedAreKept'
<1> USE DEF envVars, storeVars, objectVars, localVars
<1>1. TypeOK
  BY DEF LInv, SInv, IInv
<1>2. /\ pc[s] = "idle"
      /\ UNCHANGED <<docker, auth, asked, settings, object, config, allContainers, closers>>
  BY DEF ImageLogin, NamedLogin, SavedLogin
<1>3. PICK label \in {"create", "lookup", "accept"} : Goto(s, label)
  BY DEF ImageLogin, NamedLogin, SavedLogin
<1>4. \A t \in Sessions : pc'[t] = IF t = s THEN label ELSE pc[t]
  BY <1>1, <1>3, MovesTo
<1>5. \A t \in Sessions \ {s} : target'[t] = target[t]
  BY <1>1 DEF TypeOK, ImageLogin, NamedLogin, SavedLogin
<1>6. target'[s] = None \/ target'[s] \in auth \/ Kept(target'[s])
  <2>1. CASE ImageLogin(s)
    BY <1>2, <2>1 DEF ImageLogin, LInv, SInv, Attended, MadeBefore
  <2>2. ASSUME NEW c \in Containers, NamedLogin(s, c)
        PROVE  target'[s] = c /\ Kept(c)
    BY <1>1, <2>2 DEF NamedLogin, TypeOK, LInv, NamedAreKept
  <2>3. ASSUME NEW c \in Containers, SavedLogin(s, c)
        PROVE  target'[s] = c /\ c \in auth
    BY <1>1, <2>3 DEF SavedLogin, TypeOK
  <2> QED BY <2>1, <2>2, <2>3
<1>7. \A t \in Sessions : pc[t] \in PastRecord => target'[t] = target[t]
  BY <1>2, <1>5 DEF PastRecord, Working
<1>8. \A c : Registered(c)' = Registered(c)
  BY <1>2, <1>7, RegistryStays DEF LInv, SInv
<1>9. \A c : (Kept(c)' <=> Kept(c)) /\ (Exists(c)' <=> Exists(c))
  BY <1>2 DEF Kept, Exists
<1>10. ASSUME NEW t \in Sessions, Maker(t), ~Kept(target[t])
       PROVE  Maker(t)' /\ target'[t] = target[t]
  <2>1. t # s
    BY <1>2, <1>10 DEF Maker, Making
  <2>2. pc'[t] = pc[t] /\ target'[t] = target[t]
    BY <1>4, <1>5, <2>1
  <2>3. target'[s] # target[t]
    BY <1>6, <1>10, NoneIsNothing DEF Maker
  <2>4. \A u \in Sessions : target'[u] = target'[t] => u = t
    BY <1>5, <1>10, <2>1, <2>2, <2>3 DEF Maker
  <2>5. \A i \in DOMAIN closers' : target'[closers'[i].object] # target'[t]
    BY <1>2, <1>7, <1>10, <2>2, EntriesHaveObjects DEF Maker, LInv, SInv
  <2> QED BY <1>2, <1>8, <1>10, <2>2, <2>4, <2>5 DEF Maker
<1>11. MakersRegister'
  BY <1>8, <1>9, <1>10 DEF LInv, MakersRegister
<1>12. OpenersFindKept'
  BY <1>2, <1>4, <1>5, <1>9, <1>10 DEF LInv, OpenersFindKept
<1>13. StopsAreFinal'
  <2>1. \A t \in Sessions : pc'[t] \in {"remove", "unregister"} => pc[t] = pc'[t] /\ t # s
    BY <1>2, <1>4
  <2> QED BY <1>2, <1>5, <1>9, <2>1 DEF LInv, StopsAreFinal
<1>14. NamedAreKept'
  BY <1>9 DEF LInv, NamedAreKept
<1> QED BY <1>11, <1>12, <1>13, <1>14

\* Nobody else touches a container that is still to be registered.
LEMMA OthersKeepMakers ==
    ASSUME LInv, ~SlowRequests,
           \/ BeginShutdown \/ UNCHANGED vars \/ \E s \in Sessions : ClientLeaves(s)
           \/ \E c \in Containers :
                 ContainerExits(c) \/ \E request \in {"save", "forget"} : AuthRequest(c, request)
    PROVE  MakersRegister' /\ OpenersFindKept' /\ StopsAreFinal' /\ NamedAreKept'
<1> USE DEF vars, envVars, storeVars, objectVars, localVars
<1>1. TypeOK
  BY DEF LInv, SInv, IInv
<1>2. UNCHANGED <<target, object, config, pc, allContainers, settings, asked>>
  BY DEF BeginShutdown, ClientLeaves, ContainerExits, AuthRequest
<1>3. \A c \in Containers :
         /\ docker'[c] = docker[c] \/ (docker[c] = "running" /\ docker'[c] = "stopped")
         /\ c \in auth' => c \in auth \/ docker[c] = "running"
  BY <1>1 DEF BeginShutdown, ClientLeaves, ContainerExits, AuthRequest, Answer, TypeOK
<1>4. \A i \in DOMAIN closers' :
         \/ i \in DOMAIN closers /\ closers'[i] = closers[i]
         \/ closers'[i].at = "stop" /\ i \in DOMAIN allContainers
            /\ closers'[i].object = allContainers[i]
  BY DEF BeginShutdown, ClientLeaves, ContainerExits, AuthRequest
<1>5. \A c : Registered(c)' = Registered(c)
  BY <1>2, RegistryStays DEF LInv, SInv
<1>6. \A c \in Containers : (Kept(c)' <=> Kept(c)) /\ (Exists(c)' => Exists(c))
  BY <1>2, <1>3 DEF Kept, Exists
<1>7. ASSUME NEW t \in Sessions, Maker(t)
      PROVE  Maker(t)'
  <2>1. \A i \in DOMAIN closers' : target'[closers'[i].object] # target'[t]
    BY <1>2, <1>4, <1>7 DEF Maker, Registered
  <2> QED BY <1>2, <1>3, <1>5, <1>7, <2>1 DEF Maker
<1>8. MakersRegister'
  BY <1>2, <1>5, <1>6, <1>7 DEF LInv, MakersRegister
<1>9. OpenersFindKept'
  <2>1. \A t \in Sessions : pc[t] \in {"open", "inspect", "record"} => target[t] \in Containers
    BY DEF LInv, SInv, IInv, SharedObjectsAgree, SessionAgrees
  <2> QED BY <1>2, <1>3, <1>6, <1>7, <2>1 DEF LInv, OpenersFindKept
<1>10. StopsAreFinal'
  <2>1. \A t \in Sessions : pc[t] \in {"remove", "unregister"} => target[t] \in Containers
    BY WorkersHaveObjects DEF LInv, SInv, Working
  <2>2. \A c \in Containers : docker'[c] = "removed" => ~Kept(c)'
    BY <1>3, <1>6 DEF LInv, StopsAreFinal
  <2>3. \A i \in DOMAIN closers' :
           closers'[i].at = "remove" => ~config[closers'[i].object].keepOnExit
    BY <1>4 DEF LInv, StopsAreFinal
  <2> QED BY <1>2, <1>3, <2>1, <2>2, <2>3 DEF LInv, StopsAreFinal
<1>11. NamedAreKept'
  BY <1>6, NamedAreContainers DEF LInv, NamedAreKept
<1> QED BY <1>8, <1>9, <1>10, <1>11

\* Until the server ends, what holds of the makers is inductive, and every step is a step of
\* Lifecycle, or none.
LEMMA NextKeepsMakers ==
    ASSUME LInv, Orderly, ~SlowRequests, [Next]_vars, server # "down", server' # "down"
    PROVE  LInv' /\ LifecycleStep
<1>1. SInv' /\ IInv' /\ ForgetsInOrder' /\ LifecycleStep
  BY NextAttended, NextIsLifecycle, RecordersFind DEF LInv, SInv
<1>2. ~LoseMemory /\ ~Restart
  BY DEF LoseMemory, Restart
<1>3. ~ \E c \in Containers : AuthPost(c)
  BY DEF AuthPost, LInv, ForgetsInOrder
<1>4. CASE \E s \in Sessions : SessionStep(s)
  BY <1>1, <1>2, <1>4, SessionKeeps DEF LInv
<1>5. CASE \E i \in DOMAIN closers : CloserStop(i)
  BY <1>1, <1>5, CloserKeeps DEF LInv
<1>6. CASE ClientStep
  BY <1>1, <1>6, LoginKeepsMakers, OthersKeepMakers DEF ClientStep, LInv
<1> QED
  BY <1>1, <1>2, <1>3, <1>4, <1>5, <1>6, OthersKeepMakers
  DEF Next, ServerStep, Environment, Exit, Kill, LInv

\* The containers that profiles name were made, and kept, before the server started.
NamedExist == \A c \in Named : docker[c] # "absent"

\* At the start every container is kept.
LEMMA InitLInv ==
    ASSUME Init, NamedExist
    PROVE  LInv
<1>1. PICK kept \in SUBSET Containers :
         /\ docker = [c \in Containers |-> IF c \in kept THEN "stopped" ELSE "absent"]
         /\ \A c \in Containers :
               IF c \in kept THEN settings[c] # None /\ settings[c].keepOnExit
                             ELSE settings[c] = None
  BY DEF Init
<1>2. \A c \in Containers : docker[c] # "absent" => Kept(c)
  BY <1>1 DEF Kept
<1>3. MakersRegister /\ NamedAreKept
  BY <1>2, NamedAreContainers DEF MakersRegister, Exists, NamedAreKept, NamedExist
<1>4. OpenersFindKept /\ StopsAreFinal
  BY <1>1 DEF Init, OpenersFindKept, StopsAreFinal
<1> QED BY <1>3, <1>4, InitSInv, InitIsLifecycle DEF LInv

\* A session that takes a step is at work; only its death touches others, or the server.
LEMMA StepsOfSessions ==
    ASSUME TypeOK, NEW s \in Sessions, SessionStep(s)
    PROVE  /\ Active(s) /\ UNCHANGED outages
           /\ LoseMemory \/ (UNCHANGED server /\ \E label : Goto(s, label))
<1> USE DEF envVars
<1>1. CASE Accept(s) \/ AcceptPanic(s)
  BY <1>1 DEF Accept, AcceptPanic, Active, Over
<1>2. CASE GetContainer(s)
  BY <1>2 DEF GetContainer, Lookup, Open, Inspect, Create, CreateFails, PullFatal, Record,
              Active, Over
<1>3. CASE SessionStop(s)
  BY <1>3 DEF SessionStop, StopStep, Active, Over
<1>4. CASE Connection(s) /\ ~SessionStop(s)
  BY <1>4 DEF Connection, Scan, Register, CheckRunning, StartContainer, Setup, CopyConfig,
              Attach, CountIn, StreamEnds, CountOut, Check, Unregister, UnregisterPanic,
              Active, Over
<1> QED BY <1>1, <1>2, <1>3, <1>4 DEF SessionStep

\* The steps of the server as a whole: it goes on, ends, is told to stop, or begins again.
GoesOn ==
    /\ UNCHANGED <<server, outages>>
    /\ \A t \in Sessions : pc[t] = "killed" => pc'[t] = "killed"
Ends ==
    /\ LoseMemory /\ outages' \in {outages, outages + 1}
    /\ \/ \E s \in Sessions : Active(s)
       \/ server = "closing"
       \/ outages' = outages + 1
Closes == server = "up" /\ server' = "closing" /\ outages' = outages + 1 /\ UNCHANGED pc
Returns == server = "down" /\ server' = "up" /\ UNCHANGED <<outages, pc>>

\* Every step of the specification is of one of these kinds.
LEMMA StepsOfTheServer ==
    ASSUME TypeOK, [Next]_vars
    PROVE  GoesOn \/ Ends \/ Closes \/ Returns
<1>1. ASSUME NEW s \in Sessions, SessionStep(s)
      PROVE  GoesOn \/ Ends
  <2>1. CASE LoseMemory
    BY <1>1, <2>1, StepsOfSessions DEF Ends
  <2>2. CASE ~LoseMemory
    BY <1>1, <2>2, StepsOfSessions DEF GoesOn, Goto, TypeOK, Active, Over
  <2> QED BY <2>1, <2>2
<1>2. CASE Exit \/ Kill
  BY <1>2 DEF Exit, Kill, Ends
<1>3. CASE BeginShutdown
  BY <1>3 DEF BeginShutdown, Closes
<1>4. CASE Restart
  BY <1>4 DEF Restart, Returns
<1>5. CASE ClientStep
  <2>1. ASSUME NEW s \in Sessions,
               ImageLogin(s) \/ \E c \in Containers : NamedLogin(s, c) \/ SavedLogin(s, c)
        PROVE  GoesOn
    <3>1. pc[s] = "idle" /\ (\E label : Goto(s, label)) /\ UNCHANGED <<server, outages>>
      BY <2>1 DEF ImageLogin, NamedLogin, SavedLogin, envVars
    <3> QED BY <3>1 DEF GoesOn, Goto, TypeOK
  <2>2. ASSUME NEW s \in Sessions, ClientLeaves(s)
        PROVE  GoesOn
    BY <2>2 DEF ClientLeaves, GoesOn, envVars
  <2> QED BY <1>5, <2>1, <2>2 DEF ClientStep
<1>6. CASE \/ \E i \in DOMAIN closers : CloserStop(i)
           \/ \E c \in Containers : ContainerExits(c) \/ AuthPost(c)
           \/ \E c \in Containers, request \in {"save", "forget"} : AuthRequest(c, request)
           \/ UNCHANGED vars
  BY <1>6 DEF CloserStop, AuthPost, AuthRequest, ContainerExits, GoesOn, envVars, vars
<1> QED BY <1>1, <1>2, <1>3, <1>4, <1>5, <1>6 DEF Next, ServerStep, Environment

\* While the server has not ended, what holds of the makers does, and it is not down.
FirstRun ==
    NotEnded => LInv /\ server # "down" /\ (server = "closing" => outages = 1)

\* A step keeps it, or ends the server for good.
LEMMA NextKeepsFirstRun ==
    ASSUME FirstRun, TypeOK, Orderly, ~SlowRequests, [Next]_vars
    PROVE  FirstRun' /\ (NotEnded => LifecycleStep)
<1>1. outages \in Nat
  BY DEF TypeOK
<1>2. ASSUME Ends
      PROVE  ~NotEnded'
  <2>1. server' = "down" /\ \A t \in Sessions : pc'[t] = IF Active(t) THEN "killed" ELSE pc[t]
    BY <1>2 DEF Ends, LoseMemory
  <2>2. CASE \E s \in Sessions : Active(s)
    BY <2>1, <2>2 DEF NotEnded
  <2>3. CASE outages' # 0
    BY <2>1, <2>3 DEF NotEnded
  <2>4. CASE server = "closing" /\ ~NotEnded
    BY <1>1, <1>2, <2>1, <2>4 DEF Ends, NotEnded, Active, Over
  <2> QED BY <1>1, <1>2, <2>2, <2>3, <2>4 DEF Ends, FirstRun
<1>3. ASSUME NotEnded'
      PROVE  NotEnded
  BY <1>1, <1>2, <1>3, StepsOfTheServer DEF NotEnded, GoesOn, Closes, Returns
<1>4. ASSUME NotEnded
      PROVE  LifecycleStep
  BY <1>4, NextIsLifecycle, RecordersFind DEF FirstRun, LInv
<1>5. ASSUME NotEnded'
      PROVE  LInv' /\ server' # "down" /\ (server' = "closing" => outages' = 1)
  <2>1. LInv /\ server # "down" /\ (server = "closing" => outages = 1)
    BY <1>3, <1>5 DEF FirstRun
  <2>2. GoesOn \/ Closes
    BY <1>2, <1>5, <2>1, StepsOfTheServer DEF Returns
  <2>3. server' # "down" /\ (server' = "closing" => outages' = 1)
    BY <1>1, <1>3, <1>5, <2>1, <2>2 DEF GoesOn, Closes, NotEnded
  <2> QED BY <2>1, <2>3, NextKeepsMakers
<1> QED BY <1>4, <1>5 DEF FirstRun

-------------------------------------------------------------------------------
(* The theorems for a server that has not ended *)

\* Until the server first ends, sessions that share containers in any order, and a shutdown
\* that stops these containers under them, take every container through Lifecycle
\* (container.go:127-149, connection.go:122-198).
THEOREM ImplementsLifecycleUntilItEnds ==
    ASSUME Orderly, ~SlowRequests
    PROVE  Spec /\ NamedExist => KeepsLifecycleUntilItEnds
<1>1. Init /\ NamedExist => Life!LifecycleInit /\ FirstRun
  BY InitIsLifecycle, InitLInv DEF Init, FirstRun
<1>2. FirstRun /\ IInv /\ [Next]_vars =>
         FirstRun' /\ [NotEnded => Life!LifecycleNext]_(Life!lifecycleVars)
  BY NextKeepsFirstRun DEF LifecycleStep, IInv
<1>3. Spec => []IInv
  BY Inductive DEF Orderly
<1> QED BY <1>1, <1>2, <1>3, PTL DEF Spec, KeepsLifecycleUntilItEnds

\* While the server is up, the rows of a removed container are deleted by the session that
\* removed it (container.go:139-143), or a deletion failed, however sessions share containers:
\* no other session writes one again, or logs in by it and starts what is gone.
THEOREM RowsGoWithTheirContainer ==
    ASSUME Orderly, ~SlowRequests
    PROVE  Spec /\ NamedExist /\ [](server = "up") => []RemovedLeavesNoRows
<1>1. Init /\ NamedExist => LInv /\ RowsAreExplained
  BY InitLInv DEF Init, RowsAreExplained
<1>2. LInv /\ RowsAreExplained /\ server = "up" /\ (server = "up")' /\ [Next]_vars =>
         LInv' /\ RowsAreExplained'
  <2>1. server' = "up" => ~BeginShutdown
    BY DEF BeginShutdown
  <2> QED BY <2>1, NextKeepsMakers, NextExplains, RecordersFind DEF LInv
<1> QED BY <1>1, <1>2, ExplainedRowsGo, PTL DEF Spec
===============================================================================
