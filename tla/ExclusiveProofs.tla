---------------------------- MODULE ExclusiveProofs ----------------------------
(***************************************************************************)
(* Proofs about Sessions for clients that pick a saved container only when *)
(* nobody uses it, and a registry and counts that lose no update: on top   *)
(* of what SharedProofs says of any clients, the registry holds whom       *)
(* clients are attached to, nobody is cut off, and the sessions implement  *)
(* Lifecycle through shutdowns and crashes as well.                        *)
(***************************************************************************)
EXTENDS SharedProofs

\* No two sessions use a container at a time, and no update of shared memory is lost.
Undisturbed == Exclusive /\ Orderly

\* Two sessions at work use two containers.
OneOnEach ==
    \A s, t \in Sessions :
        Active(s) /\ Active(t) /\ target[s] = target[t] => s = t \/ target[s] = None

\* A session that makes an object of its own finds none in the registry meanwhile, and
\* the container stays until its row is there.
NewIsAlone ==
    \A s \in Sessions :
        /\ pc[s] \in Fresh => Registered(target[s]) = {}
        /\ pc[s] = "record" => Exists(target[s])

\* The shutdown removes a container only while its object is in the registry.
ClosersHoldRegistered ==
    \A i \in DOMAIN closers :
        /\ \/ docker[target[closers[i].object]] = "removed"
           \/ config[closers[i].object].keepOnExit
           \/ Positions(closers[i].object) # {}
        /\ closers[i].at = "remove" => ~config[closers[i].object].keepOnExit

\* A session that stops its container is the last to have started it.
StoppersAreDone ==
    \A s \in Sessions :
        /\ pc[s] \in Stopping => docker[target[s]] # "running"
        /\ pc[s] = "unregister" =>
              docker[target[s]] = "removed" \/ config[object[s]].keepOnExit

\* From its registration to the end of its terminal, a session finds its object.
StaysEnlisted ==
    \A s \in Sessions : pc[s] \in Enlisted => Positions(object[s]) # {}

Alone == OneOnEach /\ NewIsAlone /\ ClosersHoldRegistered /\ StoppersAreDone /\ StaysEnlisted

\* The inductive invariant.
EInv == SInv /\ Alone

-------------------------------------------------------------------------------
(* What the parts depend on *)

\* Two sessions at work on one container are one.
LEMMA AloneOn ==
    ASSUME OneOnEach, NEW s \in Sessions, NEW t \in Sessions, Active(s), Active(t),
           target[s] = target[t], target[s] # None
    PROVE  s = t
BY DEF OneOnEach

\* A step of one session that neither logs in nor stops its container.
LEMMA SessionMoves ==
    ASSUME EInv, NEW s \in Sessions, pc[s] \in Labels \ (Over \cup Stopping \cup {"idle"}),
           NEW label \in Labels \ (Stopping \cup {"idle", "create"}), Goto(s, label),
           UNCHANGED <<target, closers>>,
           \A o \in Sessions : pc[o] \in PastRecord => config'[o] = config[o],
           \A t \in Sessions \ {s} : object'[t] = object[t],
           \A c \in Containers : docker'[c] = docker[c] \/ (c = target[s] /\ Exists(c)),
           \A o \in Sessions : Positions(o) # {} => Positions(o)' # {},
           \A c \in Containers :
              Registered(c) = {} => Registered(c)' = {} \/ (c = target[s] /\ label \notin Fresh),
           label \in Fresh => target[s] \in Containers /\ Registered(target[s]) = {},
           label = "record" => Exists(target[s])',
           label \in Enlisted => Positions(object[s])' # {}
    PROVE  Alone'
<1>1. \A t \in Sessions : pc'[t] = IF t = s THEN label ELSE pc[t]
  BY MovesTo DEF EInv, SInv, IInv
<1>2. Active(s) /\ \A t \in Sessions : Active(t)' => Active(t)
  BY <1>1 DEF Active
<1>3. target \in [Sessions -> Containers \cup {None}] /\ None \notin Containers
  BY NoneIsNothing DEF EInv, SInv, IInv, TypeOK
<1>4. OneOnEach'
  BY <1>2 DEF EInv, Alone, OneOnEach
<1>5. NewIsAlone'
  <2> SUFFICES ASSUME NEW t \in Sessions
               PROVE  /\ pc'[t] \in Fresh => Registered(target[t])' = {}
                      /\ pc'[t] = "record" => Exists(target[t])'
    BY DEF NewIsAlone
  <2>1. CASE t = s
    BY <1>1, <2>1 DEF Fresh
  <2>2. CASE t # s
    <3>1. pc'[t] = pc[t]
      BY <1>1, <2>2
    <3>2. pc[t] \in Fresh => Active(t) /\ target[t] \in Containers
      BY DEF EInv, SInv, IInv, SharedObjectsAgree, SessionAgrees, Fresh, Active, Over
    <3>3. pc[t] \in Fresh => target[t] # target[s]
      BY <1>2, <1>3, <2>2, <3>2, AloneOn DEF EInv, Alone
    <3> QED BY <3>1, <3>2, <3>3 DEF EInv, Alone, NewIsAlone, Exists, Fresh
  <2> QED BY <2>1, <2>2
<1>6. ClosersHoldRegistered'
  BY EntriesHaveObjects DEF EInv, SInv, Alone, ClosersHoldRegistered, Exists
<1>7. StoppersAreDone'
  <2> SUFFICES ASSUME NEW t \in Sessions, pc'[t] \in Stopping
               PROVE  /\ docker'[target[t]] # "running"
                      /\ pc'[t] = "unregister" =>
                            docker'[target[t]] = "removed" \/ config'[object'[t]].keepOnExit
    BY DEF StoppersAreDone, Stopping
  <2>1. t # s /\ pc[t] \in Stopping /\ pc'[t] = pc[t]
    BY <1>1
  <2>2. Active(t) /\ pc[t] \in Working
    BY <2>1 DEF Stopping, Active, Over, Working
  <2>3. /\ object[t] \in Sessions /\ pc[object[t]] \in PastRecord /\ target[t] \in Containers
    BY <2>2, WorkersHaveObjects DEF EInv, SInv
  <2>4. target[t] # target[s]
    BY <1>2, <1>3, <2>1, <2>2, <2>3, AloneOn DEF EInv, Alone
  <2> QED BY <2>1, <2>3, <2>4 DEF EInv, Alone, StoppersAreDone
<1>8. StaysEnlisted'
  <2> SUFFICES ASSUME NEW t \in Sessions, pc'[t] \in Enlisted
               PROVE  Positions(object[t])' # {}
    BY DEF StaysEnlisted
  <2>1. CASE t = s
    BY <1>1, <2>1
  <2>2. CASE t # s
    <3>1. object'[t] = object[t] /\ pc[t] \in Enlisted
      BY <1>1, <2>2
    <3>2. object[t] \in Sessions
      BY <3>1, WorkersHaveObjects DEF EInv, SInv, Enlisted, Working
    <3> QED BY <3>1, <3>2 DEF EInv, Alone, StaysEnlisted
  <2> QED BY <2>1, <2>2
<1> QED BY <1>4, <1>5, <1>6, <1>7, <1>8 DEF Alone

-------------------------------------------------------------------------------
(* Steps of one session *)

\* The steps of a session that leave docker and the registry alone.
LEMMA QuietKeepsAlone ==
    ASSUME EInv, NEW s \in Sessions,
           \/ Accept(s) \/ Lookup(s) \/ Open(s) \/ Inspect(s) \/ CreateFails(s) \/ Record(s)
           \/ Scan(s) \/ CheckRunning(s) \/ Setup(s) \/ CopyConfig(s) \/ Attach(s) \/ CountIn(s)
           \/ StreamEnds(s) \/ CountOut(s) \/ Check(s)
    PROVE  Alone'
<1> USE DEF envVars, storeVars, objectVars, localVars
<1>1. TypeOK
  BY DEF EInv, SInv, IInv
<1>2. /\ UNCHANGED <<target, closers, allContainers, docker>>
      /\ \A t \in Sessions \ {s} : object'[t] = object[t]
  BY <1>1 DEF Accept, Lookup, Open, Inspect, CreateFails, Record, Scan, CheckRunning, Setup,
              CopyConfig, Attach, CountIn, StreamEnds, CountOut, Check, TypeOK
<1>3. UNCHANGED config \/ (pc[s] = "open" /\ config' = [config EXCEPT ![s] = settings[target[s]]])
  BY DEF Accept, Lookup, Open, Inspect, CreateFails, Record, Scan, CheckRunning, Setup,
         CopyConfig, Attach, CountIn, StreamEnds, CountOut, Check
<1>4. \A o \in Sessions : pc[o] \in PastRecord => config'[o] = config[o]
  BY <1>1, <1>3 DEF TypeOK, PastRecord, Working
<1>5. pc[s] \in Labels \ (Over \cup Stopping \cup {"idle"})
  BY DEF Accept, Lookup, Open, Inspect, CreateFails, Record, Scan, CheckRunning, Setup,
         CopyConfig, Attach, CountIn, StreamEnds, CountOut, Check, Labels, Over, Stopping,
         StopLabels
<1>6. (\A c : Registered(c)' = Registered(c)) /\ (\A o : Positions(o)' = Positions(o))
  BY <1>2, RegistryStays DEF EInv, SInv
<1>7. /\ pc[s] \in {"lookup", "open", "inspect", "record"} => target[s] \in Containers
      /\ pc[s] \in Fresh => Registered(target[s]) = {}
      /\ pc[s] \in Enlisted => Positions(object[s]) # {}
  BY DEF EInv, SInv, IInv, SharedObjectsAgree, SessionAgrees, Alone, NewIsAlone, StaysEnlisted
<1>8. PICK label \in Labels \ (Stopping \cup {"idle", "create"}) :
         /\ Goto(s, label)
         /\ label \in Fresh => target[s] \in Containers /\ Registered(target[s]) = {}
         /\ label = "record" => Exists(target[s])
         /\ label \in Enlisted => UNCHANGED object /\ Positions(object[s]) # {}
  <2> USE DEF Labels, Over, StopLabels, Stopping, Fresh, Enlisted
  <2>1. CASE Accept(s)
    BY <2>1 DEF Accept
  <2>2. CASE Lookup(s)
    BY <1>7, <2>2 DEF Lookup
  <2>3. CASE Inspect(s)
    BY <1>7, <2>3 DEF Inspect
  <2>4. CASE Scan(s) \/ CheckRunning(s)
    BY <1>7, <2>4 DEF Scan, CheckRunning
  <2>5. CASE Setup(s) \/ CopyConfig(s) \/ Attach(s) \/ CountIn(s)
    BY <1>7, <2>5 DEF Setup, CopyConfig, Attach, CountIn
  <2>6. CASE StreamEnds(s) \/ CountOut(s) \/ Check(s)
    BY <2>6 DEF StreamEnds, CountOut, Check
  <2>7. CASE Record(s)
    BY <2>7 DEF Record
  <2>8. CASE Open(s)
    BY <1>7, <2>8 DEF Open
  <2>9. CASE CreateFails(s)
    BY <2>9 DEF CreateFails
  <2> QED BY <2>1, <2>2, <2>3, <2>4, <2>5, <2>6, <2>7, <2>8, <2>9
<1>9. /\ label = "record" => Exists(target[s])'
      /\ label \in Enlisted => Positions(object[s])' # {}
  BY <1>2, <1>6, <1>8 DEF Exists
<1> QED BY <1>2, <1>4, <1>5, <1>6, <1>8, <1>9, SessionMoves

\* Registering an object loses no entry.
LEMMA RegisterKeepsAlone ==
    ASSUME EInv, Orderly, NEW s \in Sessions, Register(s)
    PROVE  Alone'
<1> USE DEF envVars, storeVars, objectVars, localVars
<1>1. /\ pc[s] = "append" /\ Goto(s, "running")
      /\ UNCHANGED <<target, object, config, closers, docker>>
  BY DEF Register
<1>2. /\ object[s] \in Sessions /\ target[object[s]] = target[s]
  BY <1>1, WorkersHaveObjects DEF EInv, SInv, Working
<1>3. allContainers' = Append(SubSeq(allContainers, 1, Len(allContainers)), object[s])
  BY DEF Register, Loaded, Orderly
<1>4. /\ \A i \in DOMAIN allContainers' :
            \/ allContainers'[i] = object[s]
            \/ \E j \in DOMAIN allContainers : allContainers'[i] = allContainers[j]
      /\ \A j \in DOMAIN allContainers :
            j \in DOMAIN allContainers' /\ allContainers'[j] = allContainers[j]
      /\ \E i \in DOMAIN allContainers' : allContainers'[i] = object[s]
  BY <1>2, <1>3, AppendKeeps DEF EInv, SInv, IInv
<1>5. \A o \in Sessions : Positions(o) # {} => Positions(o)' # {}
  BY <1>4 DEF Positions
<1>6. Positions(object[s])' # {}
  BY <1>1, <1>4 DEF Positions
<1>7. \A c \in Containers : Registered(c) = {} => Registered(c)' = {} \/ c = target[s]
  BY <1>1, <1>2, <1>4 DEF Registered
<1> QED BY <1>1, <1>5, <1>6, <1>7, SessionMoves DEF Labels, Over, Stopping, Fresh

\* A session starts a container whose object it has found in the registry.
LEMMA StartKeepsAlone ==
    ASSUME EInv, NEW s \in Sessions, StartContainer(s)
    PROVE  Alone'
<1> USE DEF envVars, storeVars, objectVars, localVars
<1>1. /\ pc[s] = "start"
      /\ UNCHANGED <<target, object, config, closers, allContainers>>
  BY DEF StartContainer
<1>2. PICK label \in {"config", "setup", "startFailed"} : Goto(s, label)
  BY DEF StartContainer
<1>3. \A c \in Containers : docker'[c] = docker[c] \/ (c = target[s] /\ Exists(c))
  BY DEF StartContainer, EInv, SInv, IInv, TypeOK
<1>4. (\A c : Registered(c)' = Registered(c)) /\ (\A o : Positions(o)' = Positions(o))
  BY <1>1, RegistryStays DEF EInv, SInv
<1>5. Positions(object[s])' # {}
  BY <1>1, <1>4 DEF EInv, Alone, StaysEnlisted, Enlisted
<1>6. /\ pc[s] \in Labels \ (Over \cup Stopping \cup {"idle"})
      /\ label \in Labels \ (Stopping \cup {"idle", "create"}) /\ label \notin Fresh
      /\ label # "record"
  BY <1>1 DEF Labels, Over, Stopping, StopLabels, Fresh
<1> QED BY <1>1, <1>2, <1>3, <1>4, <1>5, <1>6, SessionMoves

\* A session that creates its container is the only one to know it.
LEMMA CreateKeepsAlone ==
    ASSUME EInv, NEW s \in Sessions, NEW c \in Containers, NEW profile \in Profiles,
           Create(s, c, profile)
    PROVE  Alone'
<1> USE DEF envVars, storeVars, objectVars, localVars
<1>1. /\ pc[s] = "create" /\ docker[c] = "absent" /\ UNCHANGED <<closers, allContainers>>
  BY DEF Create
<1>2. \A t \in Sessions : pc'[t] = IF t = s THEN "record" ELSE pc[t]
  BY MovesTo DEF EInv, SInv, IInv, Create
<1>3. /\ target'[s] = c /\ object'[s] = s
      /\ \A t \in Sessions \ {s} :
            target'[t] = target[t] /\ object'[t] = object[t] /\ config'[t] = config[t]
  BY DEF EInv, SInv, IInv, TypeOK, Create
<1>4. docker'[c] = "stopped" /\ \A d \in Containers \ {c} : docker'[d] = docker[d]
  BY DEF EInv, SInv, IInv, TypeOK, Create
<1>5. \A t \in Sessions : target[t] # c
  BY <1>1, NoneIsNothing DEF EInv, SInv, Attended, MadeBefore
<1>6. \A t \in Sessions : pc[t] \in PastRecord => t # s
  BY <1>1 DEF PastRecord, Working
<1>7. (\A d : Registered(d)' = Registered(d)) /\ (\A o : Positions(o)' = Positions(o))
  BY <1>1, <1>3, <1>6, RegistryStays DEF EInv, SInv
<1>8. Registered(c) = {}
  BY <1>5, EntriesHaveObjects DEF EInv, SInv, Registered
<1>9. \A t \in Sessions \ {s} : Active(t)' <=> Active(t)
  BY <1>2 DEF Active
<1>10. OneOnEach'
  BY <1>3, <1>5, <1>9 DEF EInv, Alone, OneOnEach
<1>11. NewIsAlone'
  <2> SUFFICES ASSUME NEW t \in Sessions
               PROVE  /\ pc'[t] \in Fresh => Registered(target[t])' = {}
                      /\ pc'[t] = "record" => Exists(target[t])'
    BY DEF NewIsAlone
  <2>1. CASE t = s
    BY <1>3, <1>4, <1>7, <1>8, <2>1 DEF Exists
  <2>2. CASE t # s
    <3>1. pc'[t] = pc[t] /\ target'[t] = target[t]
      BY <1>2, <1>3, <2>2
    <3>2. pc[t] \in Fresh => target[t] \in Containers \ {c}
      BY <1>5 DEF EInv, SInv, IInv, SharedObjectsAgree, SessionAgrees, Fresh
    <3>3. pc[t] \in Fresh => Registered(target[t])' = {}
      BY <1>7, <3>1 DEF EInv, Alone, NewIsAlone
    <3> QED BY <1>4, <3>1, <3>2, <3>3 DEF EInv, Alone, NewIsAlone, Exists, Fresh
  <2> QED BY <2>1, <2>2
<1>12. ClosersHoldRegistered'
  <2> SUFFICES ASSUME NEW i \in DOMAIN closers
               PROVE  /\ \/ docker'[target'[closers[i].object]] = "removed"
                         \/ config'[closers[i].object].keepOnExit
                         \/ Positions(closers[i].object)' # {}
                      /\ closers[i].at = "remove" => ~config'[closers[i].object].keepOnExit
    BY <1>1 DEF ClosersHoldRegistered
  <2>1. closers[i].object \in Sessions \ {s} /\ target[closers[i].object] \in Containers \ {c}
    BY <1>5, <1>6, EntriesHaveObjects DEF EInv, SInv
  <2> QED BY <1>1, <1>3, <1>4, <1>7, <2>1 DEF EInv, Alone, ClosersHoldRegistered
<1>13. \A t \in Sessions :
          pc[t] \in Working => object[t] \in Sessions \ {s} /\ target[t] \in Containers
  BY <1>6, WorkersHaveObjects DEF EInv, SInv
<1>14. StoppersAreDone'
  <2> SUFFICES ASSUME NEW t \in Sessions, pc'[t] \in Stopping
               PROVE  /\ docker'[target'[t]] # "running"
                      /\ pc'[t] = "unregister" =>
                            docker'[target'[t]] = "removed" \/ config'[object'[t]].keepOnExit
    BY DEF StoppersAreDone, Stopping
  <2>1. t # s /\ pc'[t] = pc[t]
    BY <1>2 DEF Stopping
  <2>2. pc[t] \in Working
    BY <2>1 DEF Stopping, Working
  <2>3. object[t] \in Sessions \ {s} /\ target[t] \in Containers \ {c}
    BY <1>5, <1>13, <2>2
  <2> QED BY <1>3, <1>4, <2>1, <2>3 DEF EInv, Alone, StoppersAreDone
<1>15. StaysEnlisted'
  <2> SUFFICES ASSUME NEW t \in Sessions, pc'[t] \in Enlisted PROVE Positions(object[t])' # {}
    BY DEF StaysEnlisted
  <2>1. t # s /\ pc'[t] = pc[t]
    BY <1>2 DEF Enlisted
  <2> QED BY <1>3, <1>7, <2>1 DEF EInv, Alone, StaysEnlisted
<1> QED BY <1>10, <1>11, <1>12, <1>14, <1>15 DEF Alone

\* A login makes a session that is about no container yet, or the only one about a saved one.
LEMMA LoginKeepsAlone ==
    ASSUME EInv, Exclusive, NEW s \in Sessions,
           ImageLogin(s) \/ \E c \in Containers : NamedLogin(s, c) \/ SavedLogin(s, c)
    PROVE  Alone'
<1> USE DEF envVars, storeVars, objectVars, localVars
<1>1. pc[s] = "idle" /\ UNCHANGED <<docker, closers, allContainers, object, config>>
  BY DEF ImageLogin, NamedLogin, SavedLogin
<1>2. PICK label \in {"create", "lookup", "accept"} : Goto(s, label)
  BY DEF ImageLogin, NamedLogin, SavedLogin
<1>3. \A t \in Sessions : pc'[t] = IF t = s THEN label ELSE pc[t]
  BY <1>2, MovesTo DEF EInv, SInv, IInv
<1>4. \A t \in Sessions \ {s} : target'[t] = target[t]
  BY DEF EInv, SInv, IInv, TypeOK, ImageLogin, NamedLogin, SavedLogin
<1>5. target'[s] = None \/ \A t \in Sessions : Active(t) => target[t] # target'[s]
  <2>1. CASE ImageLogin(s)
    BY <1>1, <2>1 DEF ImageLogin, EInv, SInv, Attended, MadeBefore
  <2>2. ASSUME NEW c \in Containers, NamedLogin(s, c) \/ SavedLogin(s, c)
        PROVE  target'[s] = c /\ \A t \in Sessions : Active(t) => target[t] # c
    BY <2>2 DEF NamedLogin, SavedLogin, EInv, SInv, IInv, TypeOK
  <2> QED BY <2>1, <2>2
<1>6. \A t \in Sessions : pc[t] \in PastRecord => t # s
  BY <1>1 DEF PastRecord, Working
<1>7. (\A d : Registered(d)' = Registered(d)) /\ (\A o : Positions(o)' = Positions(o))
  BY <1>1, <1>4, <1>6, RegistryStays DEF EInv, SInv
<1>8. \A t \in Sessions : t # s => (Active(t)' <=> Active(t))
  BY <1>3 DEF Active
<1>9. OneOnEach'
  BY <1>4, <1>5, <1>8 DEF EInv, Alone, OneOnEach
<1>10. NewIsAlone'
  BY <1>1, <1>3, <1>4, <1>7 DEF EInv, Alone, NewIsAlone, Exists, Fresh
<1>11. ClosersHoldRegistered'
  <2> SUFFICES ASSUME NEW i \in DOMAIN closers
               PROVE  /\ \/ docker[target'[closers[i].object]] = "removed"
                         \/ config[closers[i].object].keepOnExit
                         \/ Positions(closers[i].object)' # {}
                      /\ closers[i].at = "remove" => ~config[closers[i].object].keepOnExit
    BY <1>1 DEF ClosersHoldRegistered
  <2>1. closers[i].object \in Sessions \ {s}
    BY <1>6, EntriesHaveObjects DEF EInv, SInv
  <2> QED BY <1>1, <1>4, <1>7, <2>1 DEF EInv, Alone, ClosersHoldRegistered
<1>12. StoppersAreDone'
  BY <1>1, <1>3, <1>4 DEF EInv, Alone, StoppersAreDone, Stopping
<1>13. StaysEnlisted'
  BY <1>1, <1>3, <1>7 DEF EInv, Alone, StaysEnlisted, Enlisted
<1> QED BY <1>9, <1>10, <1>11, <1>12, <1>13 DEF Alone

-------------------------------------------------------------------------------
(* Steps that stop a container, or leave it alone *)

\* Where a session stands after a step: where it was, or further in stopping its container.
Settles(t) ==
    \/ pc'[t] = pc[t]
    \/ /\ pc[t] \in Stopping \cup {"stop"} /\ pc'[t] \in Stopping \cup {"stopFailed", "done"}
       /\ pc'[t] \in Stopping => docker'[target[t]] # "running"
       /\ pc'[t] = "unregister" => docker'[target[t]] = "removed" \/ config[object[t]].keepOnExit

\* A step of which the sessions settle and nothing starts.
LEMMA SettlingKeepsAlone ==
    ASSUME EInv, UNCHANGED <<target, object, config>>,
           \A t \in Sessions : Settles(t),
           \A c \in Containers :
              /\ docker[c] = "removed" => docker'[c] = "removed"
              /\ docker[c] # "absent" => docker'[c] # "absent"
              /\ docker'[c] = "running" => docker[c] = "running"
              /\ docker'[c] = "removed" =>
                    docker[c] = "removed" \/ ~ \E t \in Sessions : target[t] = c /\ pc[t] = "record"
              /\ Registered(c) = {} => Registered(c)' = {},
           TypeOK', StaysEnlisted', ClosersHoldRegistered'
    PROVE  Alone'
<1>1. \A t \in Sessions : /\ Active(t)' => Active(t)
                          /\ pc'[t] \in Fresh => pc[t] = pc'[t]
  BY DEF Settles, Active, Over, Stopping, Fresh
<1>2. OneOnEach'
  BY <1>1 DEF EInv, Alone, OneOnEach
<1>3. NewIsAlone'
  <2> SUFFICES ASSUME NEW t \in Sessions, pc'[t] \in Fresh
               PROVE  /\ Registered(target[t])' = {}
                      /\ pc'[t] = "record" => Exists(target[t])'
    BY DEF NewIsAlone, Fresh
  <2>1. pc[t] = pc'[t] /\ target[t] \in Containers
    BY <1>1 DEF EInv, SInv, IInv, SharedObjectsAgree, SessionAgrees, Fresh
  <2>2. Registered(target[t])' = {}
    BY <2>1 DEF EInv, Alone, NewIsAlone
  <2>3. pc'[t] = "record" => Exists(target[t])'
    BY <2>1 DEF EInv, Alone, NewIsAlone, Exists, TypeOK
  <2> QED BY <2>2, <2>3
<1>4. StoppersAreDone'
  <2> SUFFICES ASSUME NEW t \in Sessions, pc'[t] \in Stopping
               PROVE  /\ docker'[target[t]] # "running"
                      /\ pc'[t] = "unregister" =>
                            docker'[target[t]] = "removed" \/ config[object[t]].keepOnExit
    BY DEF StoppersAreDone, Stopping
  <2>1. CASE pc'[t] = pc[t]
    <3>1. pc[t] \in Stopping /\ pc[t] \in Working
      BY <2>1 DEF Stopping, Working
    <3>2. target[t] \in Containers
      BY <3>1, WorkersHaveObjects DEF EInv, SInv
    <3> QED BY <2>1, <3>1, <3>2 DEF EInv, Alone, StoppersAreDone
  <2>2. CASE pc'[t] # pc[t]
    BY <2>2 DEF Settles
  <2> QED BY <2>1, <2>2
<1> QED BY <1>2, <1>3, <1>4 DEF Alone

\* While the registry stays, enlisted sessions stay enlisted, and closers that stay hold
\* objects that are registered.
LEMMA RegistryHolds ==
    ASSUME EInv, UNCHANGED <<target, object, config, allContainers>>,
           \A t \in Sessions : Settles(t),
           \A c \in Containers : docker[c] = "removed" => docker'[c] = "removed"
    PROVE  /\ StaysEnlisted'
           /\ \A c : Registered(c)' = Registered(c)
           /\ UNCHANGED closers => ClosersHoldRegistered'
<1>1. (\A c : Registered(c)' = Registered(c)) /\ (\A o : Positions(o)' = Positions(o))
  BY RegistryStays DEF EInv, SInv
<1>2. StaysEnlisted'
  <2> SUFFICES ASSUME NEW t \in Sessions, pc'[t] \in Enlisted
               PROVE  Positions(object[t])' # {}
    BY DEF StaysEnlisted
  <2>1. pc[t] \in Enlisted
    BY DEF Settles, Enlisted, Stopping
  <2> QED BY <1>1, <2>1 DEF EInv, Alone, StaysEnlisted
<1>3. UNCHANGED closers => ClosersHoldRegistered'
  <2> SUFFICES ASSUME UNCHANGED closers, NEW i \in DOMAIN closers
               PROVE  /\ \/ docker'[target[closers[i].object]] = "removed"
                         \/ config[closers[i].object].keepOnExit
                         \/ Positions(closers[i].object)' # {}
                      /\ closers[i].at = "remove" => ~config[closers[i].object].keepOnExit
    BY DEF ClosersHoldRegistered
  <2> QED BY <1>1, EntriesHaveObjects DEF EInv, SInv, Alone, ClosersHoldRegistered
<1> QED BY <1>1, <1>2, <1>3

\* A session that stops its container finds nobody else on it.
LEMMA SessionStopKeepsAlone ==
    ASSUME EInv, NEW s \in Sessions, SessionStop(s), TypeOK'
    PROVE  Alone'
<1>1. PICK next \in StopLabels : StopStep(object[s], pc[s], next) /\ Goto(s, next)
  BY DEF SessionStop
<1>2. UNCHANGED <<allContainers, config, closers, target, object, terminalCount, runLevel, asked>>
  BY DEF SessionStop, objectVars, envVars
<1>3. pc[s] \in {"stop", "remove", "deleteAuth", "deleteSettings"}
  BY <1>1 DEF StopStep
<1>4. /\ object[s] \in Sessions /\ target[s] \in Containers /\ target[object[s]] = target[s]
  BY <1>3, WorkersHaveObjects DEF EInv, SInv, Working
<1>5. pc[s] \in {"deleteAuth", "deleteSettings"} => docker[target[s]] = "removed"
  BY DEF EInv, SInv, IInv, SharedObjectsAgree, SessionAgrees
<1>6. \A t \in Sessions : pc'[t] = IF t = s THEN next ELSE pc[t]
  BY <1>1, MovesTo DEF EInv, SInv, IInv
<1> DEFINE o == object[s]
           at == pc[s]
<1>7. /\ o \in Sessions /\ target[o] \in Containers /\ StopStep(o, at, next)
      /\ at \in {"deleteAuth", "deleteSettings"} => docker[target[o]] = "removed"
  BY <1>1, <1>4, <1>5
<1>8. target[o] = target[s]
  BY <1>4
<1> HIDE DEF o, at
<1>9. /\ \A c \in Containers :
            /\ docker[c] = "removed" => docker'[c] = "removed"
            /\ docker[c] # "absent" => docker'[c] # "absent"
            /\ docker'[c] = "running" => docker[c] = "running"
            /\ docker'[c] = "removed" =>
                  docker[c] = "removed" \/ (c = target[o] /\ Exists(c) /\ at = "remove")
            /\ c \in auth' => docker[c] # "absent"
            /\ settings'[c] = settings[c] \/ (docker[c] = "removed" /\ settings'[c] = None)
      /\ at = "stop" => next = "stopFailed" \/ docker'[target[o]] # "running"
      /\ at \in {"stop", "remove", "deleteAuth", "deleteSettings"}
      /\ next \in {"remove", "deleteAuth", "deleteSettings", "unregister", "stopFailed"}
      /\ next \in Stopping => docker'[target[o]] # "running"
      /\ next = "unregister" => docker'[target[o]] = "removed" \/ config[o].keepOnExit
  BY <1>7, StopStepAlone DEF EInv, SInv, Attended
<1>10. \A t \in Sessions : Settles(t)
  BY <1>6, <1>8, <1>9 DEF Settles, Stopping, at, o
<1>11. /\ StaysEnlisted' /\ ClosersHoldRegistered'
       /\ \A c \in Containers : Registered(c) = {} => Registered(c)' = {}
  BY <1>2, <1>9, <1>10, RegistryHolds
<1>12. \A t \in Sessions : pc[t] = "record" => target[t] # target[o]
  BY <1>3, <1>4, <1>8, AloneOn, NoneIsNothing DEF EInv, Alone, Active, Over
<1>13. \A c \in Containers : docker'[c] = "removed" =>
          docker[c] = "removed" \/ ~ \E t \in Sessions : target[t] = c /\ pc[t] = "record"
  BY <1>9, <1>12
<1> QED BY <1>2, <1>9, <1>10, <1>11, <1>13, SettlingKeepsAlone

\* A shutdown removes no container whose row a session is about to write: that session has
\* found no object of it in the registry, and the shutdown stops those of the registry.
LEMMA CloserStopKeepsAlone ==
    ASSUME EInv, NEW i \in DOMAIN closers, CloserStop(i), TypeOK'
    PROVE  Alone'
<1>1. PICK next \in StopLabels :
          /\ StopStep(closers[i].object, closers[i].at, next)
          /\ closers' = [closers EXCEPT ![i].at = next]
  BY DEF CloserStop
<1>2. /\ UNCHANGED <<allContainers, config, pc, target, object, terminalCount, runLevel, asked>>
  BY DEF CloserStop, objectVars, envVars, localVars
<1> DEFINE o == closers[i].object
           at == closers[i].at
<1>3. /\ o \in Sessions /\ target[o] \in Containers
      /\ at \in {"deleteAuth", "deleteSettings"} => docker[target[o]] = "removed"
  BY EntriesHaveObjects DEF EInv, SInv, IInv, SharedObjectsAgree, CloserAgrees
<1>4. StopStep(o, at, next)
  BY <1>1
<1>5. /\ DOMAIN closers' = DOMAIN closers
      /\ \A k \in DOMAIN closers : closers'[k].object = closers[k].object
      /\ \A k \in DOMAIN closers : closers'[k].at = IF k = i THEN next ELSE closers[k].at
  BY <1>1, EntriesAreObjects DEF EInv, SInv, IInv
<1>6. /\ docker[target[o]] = "removed" \/ config[o].keepOnExit \/ Positions(o) # {}
      /\ at = "remove" => ~config[o].keepOnExit
  BY DEF EInv, Alone, ClosersHoldRegistered
<1> HIDE DEF o, at
<1>7. /\ \A c \in Containers :
            /\ docker[c] = "removed" => docker'[c] = "removed"
            /\ docker[c] # "absent" => docker'[c] # "absent"
            /\ docker'[c] = "running" => docker[c] = "running"
            /\ docker'[c] = "removed" =>
                  docker[c] = "removed" \/ (c = target[o] /\ Exists(c) /\ at = "remove")
            /\ c \in auth' => docker[c] # "absent"
            /\ settings'[c] = settings[c] \/ (docker[c] = "removed" /\ settings'[c] = None)
      /\ next = "remove" => ~config[o].keepOnExit
  BY <1>3, <1>4, StopStepAlone DEF EInv, SInv, Attended
<1>8. \A t \in Sessions : Settles(t)
  BY <1>2 DEF Settles
<1>9. /\ StaysEnlisted' /\ \A c : Registered(c)' = Registered(c)
  BY <1>2, <1>7, <1>8, RegistryHolds
<1>10. \A p : Positions(p)' = Positions(p)
  BY <1>2, RegistryStays DEF EInv, SInv
<1>11. ClosersHoldRegistered'
  <2> SUFFICES ASSUME NEW k \in DOMAIN closers
               PROVE  /\ \/ docker'[target[closers[k].object]] = "removed"
                         \/ config[closers[k].object].keepOnExit
                         \/ Positions(closers[k].object) # {}
                      /\ closers'[k].at = "remove" => ~config[closers[k].object].keepOnExit
    BY <1>2, <1>5, <1>10 DEF ClosersHoldRegistered
  <2>1. target[closers[k].object] \in Containers
    BY EntriesHaveObjects DEF EInv, SInv
  <2> QED BY <1>5, <1>7, <2>1 DEF EInv, Alone, ClosersHoldRegistered, o
<1>12. \A c \in Containers : docker'[c] = "removed" =>
          docker[c] = "removed" \/ ~ \E t \in Sessions : target[t] = c /\ pc[t] = "record"
  <2> SUFFICES ASSUME NEW t \in Sessions, target[t] = target[o], pc[t] = "record",
                      Exists(target[o]), at = "remove"
               PROVE  FALSE
    BY <1>7
  <2>1. Positions(o) # {}
    BY <1>6 DEF Exists
  <2>2. Registered(target[o]) # {}
    BY <2>1 DEF Registered, Positions
  <2> QED BY <2>2 DEF EInv, Alone, NewIsAlone, Fresh
<1>13. \A c \in Containers : Registered(c) = {} => Registered(c)' = {}
  BY <1>9
<1> QED BY <1>2, <1>7, <1>8, <1>9, <1>11, <1>12, <1>13, SettlingKeepsAlone

\* What a session takes out of the registry is its own object.
LEMMA UnregisterLosesOne ==
    ASSUME EInv, Orderly, NEW s \in Sessions, Unregister(s)
    PROVE  /\ \A k \in DOMAIN allContainers' : \E j \in DOMAIN allContainers :
                 allContainers'[k] = allContainers[j]
           /\ \A p \in Sessions \ {object[s]} : Positions(p) # {} => Positions(p)' # {}
<1>1. CASE UNCHANGED allContainers
  BY <1>1 DEF Positions
<1>2. CASE \E i \in Positions(object[s]) :
              allContainers' = WithoutEntry(allContainers, i, Len(allContainers))
  <2>1. PICK i \in DOMAIN allContainers :
           /\ allContainers[i] = object[s]
           /\ allContainers' = WithoutEntry(allContainers, i, Len(allContainers))
    BY <1>2 DEF Positions
  <2>2. TypeOK
    BY DEF EInv, SInv, IInv
  <2>3. /\ \A k \in DOMAIN allContainers' : \E j \in DOMAIN allContainers :
              allContainers'[k] = allContainers[j]
        /\ \A j \in DOMAIN allContainers \ {i} : \E k \in DOMAIN allContainers' :
              allContainers'[k] = allContainers[j]
    BY <2>1, <2>2, WithoutEntryLosesOne
  <2> QED BY <2>1, <2>3 DEF Positions
<1>3. Loaded(s, Len(allContainers)) = {Len(allContainers)}
  BY DEF Loaded, Orderly
<1> QED BY <1>1, <1>2, <1>3 DEF Unregister

\* A session that takes its object out of the registry is the last to need it there.
LEMMA UnregisterKeepsAlone ==
    ASSUME EInv, Orderly, NEW s \in Sessions, Unregister(s), TypeOK'
    PROVE  Alone'
<1> USE DEF envVars, storeVars, objectVars, localVars
<1>1. /\ pc[s] = "unregister" /\ Goto(s, "done")
      /\ UNCHANGED <<target, object, config, terminalCount, runLevel, docker, auth, asked,
                     settings, closers>>
  BY DEF Unregister
<1>2. \A t \in Sessions : pc'[t] = IF t = s THEN "done" ELSE pc[t]
  BY <1>1, MovesTo DEF EInv, SInv, IInv
<1>3. /\ object[s] \in Sessions /\ target[s] \in Containers /\ target[object[s]] = target[s]
  BY <1>1, WorkersHaveObjects DEF EInv, SInv, Working
<1>4. /\ docker[target[s]] # "running"
      /\ docker[target[s]] = "removed" \/ config[object[s]].keepOnExit
  BY <1>1 DEF EInv, Alone, StoppersAreDone, Stopping
<1>5. \A t \in Sessions : Settles(t)
  BY <1>1, <1>2, <1>4 DEF Settles, Stopping
<1>6. /\ \A k \in DOMAIN allContainers' : \E j \in DOMAIN allContainers :
            allContainers'[k] = allContainers[j]
      /\ \A p \in Sessions \ {object[s]} : Positions(p) # {} => Positions(p)' # {}
  BY UnregisterLosesOne
<1>7. \A c \in Containers : Registered(c) = {} => Registered(c)' = {}
  BY <1>1, <1>6 DEF Registered
<1>8. StaysEnlisted'
  <2> SUFFICES ASSUME NEW t \in Sessions, pc'[t] \in Enlisted
               PROVE  Positions(object[t])' # {}
    BY DEF StaysEnlisted
  <2>1. t # s /\ pc[t] \in Enlisted
    BY <1>2 DEF Enlisted
  <2>2. pc[t] \in Working /\ Active(t) /\ Active(s)
    BY <1>1, <2>1 DEF Enlisted, Working, Active, Over
  <2>3. object[t] \in Sessions /\ target[object[t]] = target[t]
    BY <2>2, WorkersHaveObjects DEF EInv, SInv
  <2>4. object[t] # object[s]
    BY <1>3, <2>1, <2>2, <2>3, AloneOn, NoneIsNothing DEF EInv, Alone
  <2> QED BY <1>1, <1>6, <2>1, <2>3, <2>4 DEF EInv, Alone, StaysEnlisted
<1>9. ClosersHoldRegistered'
  <2> SUFFICES ASSUME NEW i \in DOMAIN closers
               PROVE  \/ docker[target[closers[i].object]] = "removed"
                      \/ config[closers[i].object].keepOnExit
                      \/ Positions(closers[i].object)' # {}
    BY <1>1 DEF ClosersHoldRegistered, EInv, Alone
  <2>1. closers[i].object \in Sessions
    BY EntriesHaveObjects DEF EInv, SInv
  <2>2. CASE closers[i].object = object[s]
    BY <1>3, <1>4, <2>2
  <2>3. CASE closers[i].object # object[s]
    BY <1>1, <1>6, <2>1, <2>3 DEF EInv, Alone, ClosersHoldRegistered
  <2> QED BY <2>2, <2>3
<1> QED BY <1>1, <1>5, <1>7, <1>8, <1>9, SettlingKeepsAlone

\* Nobody else moves the sessions while the server runs.
LEMMA OthersKeepAlone ==
    ASSUME EInv, TypeOK',
           \/ BeginShutdown \/ Restart \/ \E s \in Sessions : ClientLeaves(s)
           \/ \E c \in Containers :
                 \/ ContainerExits(c) \/ AuthPost(c)
                 \/ \E request \in {"save", "forget"} : AuthRequest(c, request)
    PROVE  Alone'
<1> USE DEF envVars, storeVars, objectVars, localVars
<1>1. UNCHANGED <<target, object, config, terminalCount, runLevel, pc, allContainers, settings>>
  BY DEF BeginShutdown, Restart, ClientLeaves, ContainerExits, AuthPost, AuthRequest
<1>2. \A t \in Sessions : Settles(t)
  BY <1>1 DEF Settles
<1>3. \A c \in Containers :
         docker'[c] = docker[c] \/ (docker[c] = "running" /\ docker'[c] = "stopped")
  BY DEF BeginShutdown, Restart, ClientLeaves, ContainerExits, AuthPost, AuthRequest, EInv, SInv,
         IInv, TypeOK
<1>4. /\ StaysEnlisted' /\ \A c \in Containers : Registered(c)' = Registered(c)
      /\ UNCHANGED closers => ClosersHoldRegistered'
  BY <1>1, <1>2, <1>3, RegistryHolds
<1>5. ClosersHoldRegistered'
  <2>1. CASE BeginShutdown
    <3>1. \A p : Positions(p)' = Positions(p)
      BY <1>1, RegistryStays DEF EInv, SInv
    <3>2. /\ DOMAIN closers' = DOMAIN allContainers
          /\ \A i \in DOMAIN allContainers :
                closers'[i].object = allContainers[i] /\ closers'[i].at = "stop"
      BY <2>1 DEF BeginShutdown
    <3>3. \A i \in DOMAIN allContainers : Positions(allContainers[i]) # {}
      BY DEF Positions
    <3> QED BY <3>1, <3>2, <3>3 DEF ClosersHoldRegistered
  <2>2. CASE UNCHANGED closers
    BY <1>4, <2>2
  <2> QED BY <2>1, <2>2 DEF Restart, ClientLeaves, ContainerExits, AuthPost, AuthRequest
<1> QED BY <1>1, <1>2, <1>3, <1>4, <1>5, SettlingKeepsAlone

\* A process that dies takes its objects with it.
LEMMA LoseMemoryKeepsAlone ==
    ASSUME LoseMemory
    PROVE  Alone'
<1>1. /\ \A t \in Sessions : pc'[t] = IF Active(t) THEN "killed" ELSE pc[t]
      /\ closers' = <<>>
  BY DEF LoseMemory
<1>2. \A t \in Sessions : pc'[t] \in Over \cup {"idle"}
  BY <1>1 DEF Active, Over
<1>3. OneOnEach'
  BY <1>2 DEF OneOnEach, Active
<1>4. NewIsAlone' /\ StoppersAreDone' /\ StaysEnlisted'
  BY <1>2 DEF NewIsAlone, StoppersAreDone, StaysEnlisted, Fresh, Stopping, Enlisted, Over
<1>5. ClosersHoldRegistered'
  BY <1>1 DEF ClosersHoldRegistered
<1> QED BY <1>3, <1>4, <1>5 DEF Alone

\* At the start nobody is about any container.
LEMMA InitEInv == Init => EInv
<1> SUFFICES ASSUME Init PROVE Alone
  BY InitSInv DEF EInv
<1>1. OneOnEach
  BY DEF Init, OneOnEach, Active
<1>2. NewIsAlone /\ StoppersAreDone /\ StaysEnlisted /\ ClosersHoldRegistered
  BY DEF Init, NewIsAlone, StoppersAreDone, StaysEnlisted, ClosersHoldRegistered, Fresh,
         Stopping, Enlisted
<1> QED BY <1>1, <1>2 DEF Alone

\* What holds for sessions alone is inductive.
LEMMA NextKeepsAlone ==
    ASSUME EInv, [Next]_vars, Undisturbed
    PROVE  EInv'
<1>1. SInv' /\ TypeOK'
  BY NextAttended DEF EInv, SInv, IInv, Undisturbed
<1> SUFFICES Alone'
  BY <1>1 DEF EInv
<1>2. CASE UNCHANGED vars
  <2>1. UNCHANGED <<target, object, config, pc, allContainers, docker, closers>>
    BY <1>2 DEF vars, envVars, storeVars, objectVars, localVars
  <2>2. \A t \in Sessions : Settles(t)
    BY <2>1 DEF Settles
  <2>3. /\ StaysEnlisted' /\ ClosersHoldRegistered'
        /\ \A c : Registered(c)' = Registered(c)
    BY <2>1, <2>2, RegistryHolds
  <2> QED BY <1>1, <2>1, <2>2, <2>3, SettlingKeepsAlone
<1>3. ASSUME NEW s \in Sessions, SessionStep(s) PROVE Alone'
  <2>1. CASE GetContainer(s)
    BY <2>1, QuietKeepsAlone, CreateKeepsAlone, LoseMemoryKeepsAlone DEF GetContainer, PullFatal
  <2>2. CASE Connection(s)
    BY <1>1, <2>2, QuietKeepsAlone, RegisterKeepsAlone, StartKeepsAlone, SessionStopKeepsAlone,
       UnregisterKeepsAlone, LoseMemoryKeepsAlone
    DEF Connection, UnregisterPanic, Undisturbed
  <2> QED BY <1>3, <2>1, <2>2, QuietKeepsAlone, LoseMemoryKeepsAlone DEF SessionStep, AcceptPanic
<1>4. CASE \E i \in DOMAIN closers : CloserStop(i)
  BY <1>1, <1>4, CloserStopKeepsAlone
<1>5. CASE ClientStep
  BY <1>1, <1>5, LoginKeepsAlone, OthersKeepAlone DEF ClientStep, Undisturbed
<1> QED
  BY <1>1, <1>2, <1>3, <1>4, <1>5, OthersKeepAlone, LoseMemoryKeepsAlone
  DEF Next, ServerStep, Environment, Exit, Kill

-------------------------------------------------------------------------------
(* The theorems *)

\* Sessions of clients that pick a container nobody uses are alone on it.
THEOREM SessionsStayAlone ==
    ASSUME Undisturbed
    PROVE  Spec => []EInv
<1>1. EInv /\ [Next]_vars => EInv'
  BY NextKeepsAlone
<1> QED BY <1>1, InitEInv, PTL DEF Spec

\* The object an attached session works with is in the registry (connection.go:35-47 puts it
\* there, container.go:96 takes it out only at the end of a stop).
THEOREM AttachedStayRegistered ==
    ASSUME Undisturbed
    PROVE  Spec => []AttachedIsRegistered
<1>1. EInv => AttachedIsRegistered
  BY DEF EInv, Alone, StaysEnlisted, AttachedIsRegistered, Enlisted
<1> QED BY <1>1, SessionsStayAlone, PTL

\* A session that stops its container cuts nobody off (connection.go:89-107): what `cutoff`
\* shows of clients that come while others leave comes from their sharing the container.
THEOREM StopsCutOffNobody ==
    ASSUME Undisturbed
    PROVE  Spec => StopsOnlyUnattended
<1>1. EInv => \A s \in Sessions : pc[s] = "stop" => Attached(target[s]) = {}
  <2> SUFFICES ASSUME EInv, NEW s \in Sessions, NEW t \in Sessions, pc[s] = "stop",
                      target[t] = target[s], pc[t] \in {"inc", "wait"}
               PROVE  FALSE
    BY DEF Attached
  <2>1. target[s] \in Containers
    BY WorkersHaveObjects DEF EInv, SInv, Working
  <2>2. s = t
    BY <2>1, AloneOn, NoneIsNothing DEF EInv, Alone, Active, Over
  <2> QED BY <2>2
<1>2. EInv => [\A s \in Sessions :
                 pc[s] = "stop" /\ pc'[s] \in {"remove", "unregister"} =>
                    \A t \in Attached(target[s]) : gone[t]]_vars
  BY <1>1
<1> QED BY <1>2, SessionsStayAlone, PTL DEF StopsOnlyUnattended

-------------------------------------------------------------------------------
(* The lifecycle of a container, and its rows *)

\* So what a session records is there.
LEMMA RecordersFindContainers == EInv => RecordsWhatExists
BY DEF EInv, Alone, NewIsAlone, RecordsWhatExists

\* The sessions, the shutdowns and the crashes of the server take every container through
\* Lifecycle: no start of an unrecorded container, no row for a removed one, no row deleted
\* while docker has the container, credentials deleted first (container.go:127-149).
THEOREM ImplementsLifecycle ==
    ASSUME Undisturbed, ~SlowRequests
    PROVE  Spec => KeepsLifecycle
<1>1. Init => Life!LifecycleInit /\ EInv /\ ForgetsInOrder
  BY InitIsLifecycle, InitEInv
<1>2. EInv /\ ForgetsInOrder /\ [Next]_vars =>
         EInv' /\ ForgetsInOrder' /\ [Life!LifecycleNext]_(Life!lifecycleVars)
  BY NextKeepsAlone, NextIsLifecycle, RecordersFindContainers DEF LifecycleStep, EInv
<1> QED BY <1>1, <1>2, PTL DEF Spec, KeepsLifecycle, Life!LifecycleSpec

\* Without a shutdown, the rows of a removed container are deleted by the session that
\* removed it (container.go:139-143), unless a deletion fails or the server dies before it.
THEOREM RemovedContainersLeaveNoRows ==
    ASSUME Undisturbed, ~SlowRequests, MaxOutages = 0
    PROVE  Spec => []RemovedLeavesNoRows
<1>1. Init => EInv /\ ForgetsInOrder /\ RowsAreExplained
  BY InitIsLifecycle, InitEInv DEF Init, RowsAreExplained
<1>2. EInv /\ ForgetsInOrder /\ RowsAreExplained /\ [Next]_vars =>
         EInv' /\ ForgetsInOrder' /\ RowsAreExplained'
  <2>1. EInv => ~BeginShutdown
    BY BoundsAreNatural DEF BeginShutdown, EInv, SInv, IInv, TypeOK
  <2> QED
    BY <2>1, NextKeepsAlone, NextIsLifecycle, NextExplains, RecordersFindContainers DEF EInv
<1> QED BY <1>1, <1>2, ExplainedRowsGo, PTL DEF Spec

-------------------------------------------------------------------------------
(* The network of a container, while the server is up *)

\* No shutdown runs, and a container that runs has an object in the registry.
RunningIsRegistered ==
    /\ closers = <<>>
    /\ \A c \in Containers : docker[c] = "running" => Registered(c) # {}

\* A registered object that was started has put its container on the network.
StartedIsJoined ==
    \A o \in Sessions :
        Positions(o) # {} /\ started[o] /\ Exists(target[o]) => target[o] \in bridged

\* A container that runs is on its network, or a session is about to put it there.
RunningIsJoined ==
    \A c \in Containers : docker[c] = "running" =>
        c \in bridged \/ \E s \in Sessions : pc[s] = "setup" /\ target[s] = c

\* An object that is not registered was not started.
NewIsUnstarted ==
    /\ \A s \in Sessions : started[s] => pc[s] \in PastRecord
    /\ \A s \in Sessions : pc[s] = "append" => ~started[object[s]]
    /\ \A s \in Sessions : pc[s] = "scan" => ~started[object[s]] \/ Positions(object[s]) # {}

Joined == RunningIsRegistered /\ StartedIsJoined /\ RunningIsJoined /\ NewIsUnstarted

\* A step that starts nothing, registers nothing, and takes no registered container off its
\* network that it does not remove.
LEMMA QuietKeepsJoined ==
    ASSUME EInv, Joined, UNCHANGED <<started, allContainers, closers>>,
           \A c \in Containers : docker'[c] = "running" => docker[c] = "running",
           \A c \in Containers :
              Exists(c)' /\ Registered(c) # {} =>
                 Exists(c) /\ (c \in bridged => c \in bridged'),
           \A t \in Sessions :
              pc[t] \in PastRecord => pc'[t] \in PastRecord /\ target'[t] = target[t],
           \A t \in Sessions : pc[t] = "setup" => pc'[t] = "setup",
           \A t \in Sessions : pc'[t] = "append" => ~started[object'[t]],
           \A t \in Sessions :
              pc'[t] = "scan" => ~started[object'[t]] \/ Positions(object'[t]) # {}
    PROVE  Joined'
<1>1. (\A c : Registered(c)' = Registered(c)) /\ (\A o : Positions(o)' = Positions(o))
  BY RegistryStays DEF EInv, SInv
<1>2. RunningIsRegistered'
  BY <1>1 DEF Joined, RunningIsRegistered
<1>3. StartedIsJoined'
  <2> SUFFICES ASSUME NEW o \in Sessions, Positions(o) # {}, started[o], Exists(target[o])'
               PROVE  target'[o] \in bridged'
    BY <1>1 DEF StartedIsJoined
  <2>1. target'[o] = target[o] /\ target[o] \in Containers
    BY EntriesHaveObjects DEF EInv, SInv, Positions
  <2>2. Registered(target[o]) # {}
    BY DEF Registered, Positions
  <2>3. docker'[target[o]] \in {"stopped", "running"}
    BY <2>1 DEF Exists
  <2> QED BY <2>1, <2>2, <2>3 DEF Joined, StartedIsJoined, Exists
<1>4. RunningIsJoined'
  <2> SUFFICES ASSUME NEW c \in Containers, docker'[c] = "running"
               PROVE  c \in bridged' \/ \E t \in Sessions : pc'[t] = "setup" /\ target'[t] = c
    BY DEF RunningIsJoined
  <2>1. docker[c] = "running" /\ Exists(c)' /\ Registered(c) # {}
    BY DEF Exists, Joined, RunningIsRegistered
  <2>2. CASE c \in bridged
    BY <2>1, <2>2
  <2>3. CASE \E t \in Sessions : pc[t] = "setup" /\ target[t] = c
    BY <2>3 DEF PastRecord, Working
  <2> QED BY <2>1, <2>2, <2>3 DEF Joined, RunningIsJoined
<1>5. NewIsUnstarted'
  BY DEF Joined, NewIsUnstarted, Positions
<1> QED BY <1>2, <1>3, <1>4, <1>5 DEF Joined

\* The steps of a session that neither register nor start or set up its container: an object
\* of its own is new, and one found in the registry is there.
LEMMA PassingKeepsJoined ==
    ASSUME EInv, Joined, NEW s \in Sessions,
           \/ Accept(s) \/ Lookup(s) \/ Open(s) \/ Inspect(s) \/ CreateFails(s) \/ Record(s)
           \/ Scan(s) \/ CheckRunning(s) \/ CopyConfig(s) \/ Attach(s) \/ CountIn(s)
           \/ StreamEnds(s) \/ CountOut(s) \/ Check(s)
    PROVE  Joined'
<1> USE DEF envVars, storeVars, objectVars, localVars
<1>1. TypeOK
  BY DEF EInv, SInv, IInv
<1>2. UNCHANGED <<started, allContainers, closers, docker, target>>
  BY DEF Accept, Lookup, Open, Inspect, CreateFails, Record, Scan, CheckRunning, CopyConfig,
         Attach, CountIn, StreamEnds, CountOut, Check
<1>3. \A t \in Sessions : object'[t] = object[t] \/ (t = s /\ pc[s] \in {"lookup", "inspect"})
  BY <1>1 DEF TypeOK, Accept, Lookup, Open, Inspect, CreateFails, Record, Scan, CheckRunning,
              CopyConfig, Attach, CountIn, StreamEnds, CountOut, Check
<1>4. \A c \in Containers : Registered(c) # {} => (c \in bridged => c \in bridged')
  <2>1. CASE Inspect(s)
    BY <2>1 DEF Inspect, EInv, Alone, NewIsAlone, Fresh
  <2>2. CASE UNCHANGED bridged
    BY <2>2
  <2> QED BY <2>1, <2>2
          DEF Accept, Lookup, Open, CreateFails, Record, Scan, CheckRunning, CopyConfig,
              Attach, CountIn, StreamEnds, CountOut, Check
<1>5. PICK label \in Labels :
         /\ Goto(s, label)
         /\ pc[s] \in PastRecord => label \in PastRecord
         /\ pc[s] # "setup"
         /\ label = "append" => pc[s] = "scan" /\ Positions(object[s]) = {}
         /\ label = "scan" =>
               \/ pc[s] = "lookup" /\ object'[s] \in Sessions /\ Positions(object'[s]) # {}
               \/ pc[s] = "record"
  <2> USE DEF Labels, Over, StopLabels, PastRecord, Working
  <2>1. CASE Accept(s)
    BY <2>1 DEF Accept
  <2>2. CASE Lookup(s)
    <3>1. CASE Registered(target[s]) = {}
      BY <2>2, <3>1 DEF Lookup
    <3>2. CASE \E i \in Registered(target[s]) :
                  object' = [object EXCEPT ![s] = allContainers[i]] /\ Goto(s, "scan")
      <4>1. PICK i \in DOMAIN allContainers :
                  object' = [object EXCEPT ![s] = allContainers[i]] /\ Goto(s, "scan")
        BY <3>2 DEF Registered
      <4>2. object'[s] = allContainers[i] /\ allContainers[i] \in Sessions
        BY <1>1, <4>1, EntriesHaveObjects DEF TypeOK, EInv, SInv
      <4>3. i \in Positions(object'[s])
        BY <4>2 DEF Positions
      <4> QED BY <2>2, <4>1, <4>2, <4>3 DEF Lookup
    <3> QED BY <2>2, <3>1, <3>2 DEF Lookup
  <2>3. CASE Inspect(s)
    BY <2>3 DEF Inspect
  <2>4. CASE Scan(s)
    BY <2>4 DEF Scan
  <2>5. CASE CheckRunning(s)
    BY <2>5 DEF CheckRunning
  <2>6. CASE CopyConfig(s) \/ Attach(s) \/ CountIn(s)
    BY <2>6 DEF CopyConfig, Attach, CountIn
  <2>7. CASE StreamEnds(s) \/ CountOut(s) \/ Check(s)
    BY <2>7 DEF StreamEnds, CountOut, Check
  <2>8. CASE Record(s)
    BY <2>8 DEF Record
  <2>9. CASE Open(s)
    BY <2>9 DEF Open
  <2>10. CASE CreateFails(s)
    BY <2>10 DEF CreateFails
  <2> QED BY <2>1, <2>2, <2>3, <2>4, <2>5, <2>6, <2>7, <2>8, <2>9, <2>10
<1>6. \A t \in Sessions : pc'[t] = IF t = s THEN label ELSE pc[t]
  BY <1>1, <1>5, MovesTo
<1>7. \A t \in Sessions : pc'[t] = "append" => ~started[object'[t]]
  BY <1>3, <1>5, <1>6 DEF Joined, NewIsUnstarted
<1>8. pc[s] = "record" => object[s] = s /\ ~started[s]
  BY DEF EInv, SInv, IInv, SharedObjectsAgree, SessionAgrees, Joined, NewIsUnstarted,
         PastRecord, Working
<1>9. \A t \in Sessions :
         pc'[t] = "scan" => ~started[object'[t]] \/ Positions(object'[t]) # {}
  BY <1>3, <1>5, <1>6, <1>8 DEF Joined, NewIsUnstarted
<1>10. \A c \in Containers : Exists(c)' => Exists(c)
  BY <1>2 DEF Exists
<1> QED BY <1>2, <1>4, <1>5, <1>6, <1>7, <1>9, <1>10, QuietKeepsJoined

\* A container that is created is not registered before.
LEMMA CreateKeepsJoined ==
    ASSUME EInv, Joined, NEW s \in Sessions, NEW c \in Containers, NEW profile \in Profiles,
           Create(s, c, profile)
    PROVE  Joined'
<1> USE DEF envVars, storeVars, objectVars, localVars
<1>1. /\ pc[s] = "create" /\ docker[c] = "absent"
      /\ UNCHANGED <<started, allContainers, closers, bridged>>
  BY DEF Create
<1>2. \A t \in Sessions : pc'[t] = IF t = s THEN "record" ELSE pc[t]
  BY MovesTo DEF EInv, SInv, IInv, Create
<1>3. \A t \in Sessions \ {s} : target'[t] = target[t] /\ object'[t] = object[t]
  BY DEF EInv, SInv, IInv, TypeOK, Create
<1>4. docker'[c] = "stopped" /\ \A d \in Containers \ {c} : docker'[d] = docker[d]
  BY DEF EInv, SInv, IInv, TypeOK, Create
<1>5. Registered(c) = {}
  BY <1>1, EntriesHaveObjects, NoneIsNothing DEF EInv, SInv, Attended, MadeBefore, Registered
<1>6. /\ \A t \in Sessions :
            pc[t] \in PastRecord => pc'[t] \in PastRecord /\ target'[t] = target[t]
      /\ \A t \in Sessions : pc[t] = "setup" => pc'[t] = "setup"
  BY <1>1, <1>2, <1>3 DEF PastRecord, Working
<1>7. /\ \A t \in Sessions : pc'[t] = "append" => ~started[object'[t]]
      /\ \A t \in Sessions :
            pc'[t] = "scan" => ~started[object'[t]] \/ Positions(object'[t]) # {}
  BY <1>2, <1>3 DEF Joined, NewIsUnstarted
<1> QED BY <1>1, <1>4, <1>5, <1>6, <1>7, QuietKeepsJoined DEF Exists

\* An object that is registered was not started.
LEMMA RegisterKeepsJoined ==
    ASSUME EInv, Orderly, Joined, NEW s \in Sessions, Register(s)
    PROVE  Joined'
<1> USE DEF envVars, storeVars, objectVars, localVars
<1>1. /\ pc[s] = "append" /\ Goto(s, "running")
      /\ UNCHANGED <<target, object, started, closers, docker, bridged>>
  BY DEF Register
<1>2. object[s] \in Sessions /\ ~started[object[s]]
  BY <1>1, WorkersHaveObjects DEF EInv, SInv, Working, Joined, NewIsUnstarted
<1>3. \A t \in Sessions : pc'[t] = IF t = s THEN "running" ELSE pc[t]
  BY <1>1, MovesTo DEF EInv, SInv, IInv
<1>4. allContainers' = Append(SubSeq(allContainers, 1, Len(allContainers)), object[s])
  BY DEF Register, Loaded, Orderly
<1>5. /\ \A i \in DOMAIN allContainers' :
            \/ allContainers'[i] = object[s]
            \/ \E j \in DOMAIN allContainers : allContainers'[i] = allContainers[j]
      /\ \A j \in DOMAIN allContainers :
            j \in DOMAIN allContainers' /\ allContainers'[j] = allContainers[j]
  BY <1>2, <1>4, AppendKeeps DEF EInv, SInv, IInv
<1>6. /\ \A c \in Containers : Registered(c) # {} => Registered(c)' # {}
      /\ \A o : Positions(o) # {} => Positions(o)' # {}
      /\ \A o : o # object[s] /\ Positions(o)' # {} => Positions(o) # {}
  BY <1>1, <1>5 DEF Registered, Positions
<1>7. RunningIsRegistered'
  BY <1>1, <1>6 DEF Joined, RunningIsRegistered
<1>8. StartedIsJoined'
  BY <1>1, <1>2, <1>6 DEF Joined, StartedIsJoined, Exists
<1>9. RunningIsJoined'
  BY <1>1, <1>3 DEF Joined, RunningIsJoined
<1>10. NewIsUnstarted'
  <2>1. \A o : Positions(o) # {} => \E i \in DOMAIN allContainers' : allContainers'[i] = o
    BY <1>6 DEF Positions
  <2>2. \A t \in Sessions : pc[t] = "scan" =>
           ~started[object[t]] \/ \E i \in DOMAIN allContainers' : allContainers'[i] = object[t]
    BY <2>1 DEF Joined, NewIsUnstarted
  <2>3. \A t \in Sessions : pc'[t] = "scan" => ~started'[object'[t]] \/ Positions(object[t])' # {}
    BY <1>1, <1>3, <2>2 DEF Positions
  <2> QED BY <1>1, <1>3, <2>3 DEF Joined, NewIsUnstarted, PastRecord, Working
<1> QED BY <1>7, <1>8, <1>9, <1>10 DEF Joined

\* A container that starts has its object in the registry; if that was started before, it is
\* still on the network, and if not the session goes on to put it there.
LEMMA StartKeepsJoined ==
    ASSUME EInv, Joined, NEW s \in Sessions, StartContainer(s)
    PROVE  Joined'
<1> USE DEF envVars, storeVars, objectVars, localVars
<1>1. /\ pc[s] = "start"
      /\ UNCHANGED <<target, object, started, closers, allContainers, bridged>>
  BY DEF StartContainer
<1>2. /\ object[s] \in Sessions /\ target[s] \in Containers /\ target[object[s]] = target[s]
  BY <1>1, WorkersHaveObjects DEF EInv, SInv, Working
<1>3. Positions(object[s]) # {} /\ Registered(target[s]) # {}
  BY <1>1, <1>2 DEF EInv, Alone, StaysEnlisted, Enlisted, Positions, Registered
<1>4. (\A c : Registered(c)' = Registered(c)) /\ (\A o : Positions(o)' = Positions(o))
  BY <1>1, RegistryStays DEF EInv, SInv
<1>5. PICK label \in {"config", "setup", "startFailed"} :
         /\ Goto(s, label)
         /\ \/ UNCHANGED docker /\ label = "startFailed"
            \/ /\ Exists(target[s]) /\ docker' = [docker EXCEPT ![target[s]] = "running"]
               /\ label = IF started[object[s]] THEN "config" ELSE "setup"
  BY DEF StartContainer
<1>6. \A t \in Sessions : pc'[t] = IF t = s THEN label ELSE pc[t]
  BY <1>5, MovesTo DEF EInv, SInv, IInv
<1>7. /\ \A c \in Containers \ {target[s]} : docker'[c] = docker[c]
      /\ \/ docker'[target[s]] = docker[target[s]] /\ label = "startFailed"
         \/ Exists(target[s]) /\ docker'[target[s]] = "running" /\ label # "startFailed"
  BY <1>2, <1>5 DEF EInv, SInv, IInv, TypeOK
<1>8. RunningIsRegistered'
  BY <1>1, <1>3, <1>4, <1>7 DEF Joined, RunningIsRegistered
<1>9. StartedIsJoined'
  <2>1. \A o \in Sessions : Positions(o) # {} => target[o] \in Containers
    BY EntriesHaveObjects DEF EInv, SInv, Positions
  <2>2. \A c \in Containers : Exists(c)' => Exists(c)
    BY <1>7 DEF Exists
  <2> QED BY <1>1, <1>4, <2>1, <2>2 DEF Joined, StartedIsJoined, Exists
<1>10. RunningIsJoined'
  <2> SUFFICES ASSUME NEW c \in Containers, docker'[c] = "running"
               PROVE  c \in bridged \/ \E t \in Sessions : pc'[t] = "setup" /\ target[t] = c
    BY <1>1 DEF RunningIsJoined
  <2>1. CASE docker[c] = "running"
    BY <1>1, <1>6, <2>1 DEF Joined, RunningIsJoined
  <2>2. CASE docker[c] # "running"
    <3>1. c = target[s] /\ Exists(c) /\ label # "startFailed"
      BY <1>7, <2>2
    <3>2. CASE started[object[s]]
      BY <1>2, <1>3, <3>1, <3>2 DEF Joined, StartedIsJoined
    <3>3. CASE ~started[object[s]]
      BY <1>5, <1>6, <3>1, <3>3
    <3> QED BY <3>2, <3>3
  <2> QED BY <2>1, <2>2
<1>11. NewIsUnstarted'
  BY <1>1, <1>6 DEF Joined, NewIsUnstarted, Positions, PastRecord, Working
<1> QED BY <1>8, <1>9, <1>10, <1>11 DEF Joined

\* A session sets its container up on its own: docker connects it unless it is stopped, or
\* connected already.
LEMMA SetupKeepsJoined ==
    ASSUME EInv, Joined, NEW s \in Sessions, Setup(s), "setup" \notin FailingCalls
    PROVE  Joined'
<1> USE DEF envVars, storeVars, objectVars, localVars
<1>1. /\ pc[s] = "setup"
      /\ UNCHANGED <<target, object, closers, allContainers, docker>>
  BY DEF Setup
<1>2. /\ object[s] \in Sessions /\ target[s] \in Containers /\ target[object[s]] = target[s]
      /\ pc[object[s]] \in PastRecord
  BY <1>1, WorkersHaveObjects DEF EInv, SInv, Working
<1>3. (\A c : Registered(c)' = Registered(c)) /\ (\A o : Positions(o)' = Positions(o))
  BY <1>1, RegistryStays DEF EInv, SInv
<1>4. /\ \A c \in bridged : c \in bridged'
      /\ docker[target[s]] # "running" \/ target[s] \in bridged'
      /\ \/ UNCHANGED started
         \/ started' = [started EXCEPT ![object[s]] = TRUE] /\ target[s] \in bridged'
  BY DEF Setup, CallFails
<1>5. PICK label \in {"config", "startFailed"} : Goto(s, label)
  BY DEF Setup
<1>6. \A t \in Sessions : pc'[t] = IF t = s THEN label ELSE pc[t]
  BY <1>5, MovesTo DEF EInv, SInv, IInv
<1>7. \A o \in Sessions :
         started'[o] = started[o] \/ (o = object[s] /\ target[o] \in bridged')
  BY <1>2, <1>4 DEF EInv, SInv, IInv, TypeOK
<1>8. RunningIsRegistered'
  BY <1>1, <1>3 DEF Joined, RunningIsRegistered
<1>9. StartedIsJoined'
  BY <1>1, <1>3, <1>4, <1>7 DEF Joined, StartedIsJoined, Exists
<1>10. RunningIsJoined'
  BY <1>1, <1>4, <1>6 DEF Joined, RunningIsJoined
<1>11. NewIsUnstarted'
  <2>1. \A t \in Sessions : pc'[t] \in {"append", "scan"} =>
           pc[t] = pc'[t] /\ object[t] \in Sessions /\ object[t] # object[s]
    <3> SUFFICES ASSUME NEW t \in Sessions, pc'[t] \in {"append", "scan"}
                 PROVE  pc[t] = pc'[t] /\ object[t] \in Sessions /\ object[t] # object[s]
      OBVIOUS
    <3>1. t # s /\ pc[t] = pc'[t]
      BY <1>6
    <3>2. pc[t] \in Working /\ Active(t) /\ Active(s)
      BY <1>1, <3>1 DEF Working, Active, Over
    <3>3. object[t] \in Sessions /\ target[object[t]] = target[t]
      BY <3>2, WorkersHaveObjects DEF EInv, SInv
    <3>4. object[t] # object[s]
      BY <1>2, <3>1, <3>2, <3>3, AloneOn, NoneIsNothing DEF EInv, Alone
    <3> QED BY <3>1, <3>3, <3>4
  <2>2. \A t \in Sessions : started'[t] => pc'[t] \in PastRecord
    BY <1>2, <1>6, <1>7 DEF Joined, NewIsUnstarted, PastRecord, Working
  <2>3. \A t \in Sessions :
           pc'[t] \in {"append", "scan"} => started'[object[t]] = started[object[t]]
    BY <1>7, <2>1
  <2> QED BY <1>1, <2>1, <2>2, <2>3 DEF Joined, NewIsUnstarted, Positions
<1> QED BY <1>8, <1>9, <1>10, <1>11 DEF Joined

\* A container leaves its network only when it is removed.
LEMMA SessionStopKeepsJoined ==
    ASSUME EInv, Joined, NEW s \in Sessions, SessionStop(s)
    PROVE  Joined'
<1>1. PICK next \in StopLabels : StopStep(object[s], pc[s], next) /\ Goto(s, next)
  BY DEF SessionStop
<1>2. UNCHANGED <<started, allContainers, closers, target, object>>
  BY DEF SessionStop, objectVars
<1>3. pc[s] \in {"stop", "remove", "deleteAuth", "deleteSettings"}
  BY <1>1 DEF StopStep
<1>4. target[s] \in Containers /\ target[object[s]] = target[s]
  BY <1>3, WorkersHaveObjects DEF EInv, SInv, Working
<1>5. \A t \in Sessions : pc'[t] = IF t = s THEN next ELSE pc[t]
  BY <1>1, MovesTo DEF EInv, SInv, IInv
<1>6. \A c \in Containers :
         /\ docker'[c] = "running" => docker[c] = "running"
         /\ Exists(c)' => Exists(c) /\ (c \in bridged => c \in bridged')
  <2> USE DEF EInv, SInv, IInv, TypeOK, storeVars, Exists
  <2>1. CASE HaltStep(object[s], next)
    BY <1>4, <2>1 DEF HaltStep
  <2>2. CASE RemoveStep(object[s], next)
    BY <1>4, <2>2 DEF RemoveStep
  <2>3. CASE DeleteAuthStep(object[s], next) \/ DeleteSettingsStep(object[s], next)
    BY <2>3 DEF DeleteAuthStep, DeleteSettingsStep
  <2> QED BY <1>1, <2>1, <2>2, <2>3 DEF StopStep
<1>7. /\ \A t \in Sessions : pc[t] \in PastRecord => pc'[t] \in PastRecord
      /\ \A t \in Sessions : pc[t] = "setup" => pc'[t] = "setup"
      /\ \A t \in Sessions : pc'[t] \in {"append", "scan"} => pc[t] = pc'[t]
  BY <1>3, <1>5 DEF StopLabels, PastRecord, Working
<1>8. /\ \A t \in Sessions : pc'[t] = "append" => ~started[object'[t]]
      /\ \A t \in Sessions :
            pc'[t] = "scan" => ~started[object'[t]] \/ Positions(object'[t]) # {}
  BY <1>2, <1>7 DEF Joined, NewIsUnstarted
<1> QED BY <1>2, <1>6, <1>7, <1>8, QuietKeepsJoined

\* The container of an object that is taken out of the registry does not run.
LEMMA UnregisterKeepsJoined ==
    ASSUME EInv, Orderly, Joined, NEW s \in Sessions, Unregister(s)
    PROVE  Joined'
<1> USE DEF envVars, storeVars, objectVars, localVars
<1>1. /\ pc[s] = "unregister" /\ Goto(s, "done")
      /\ UNCHANGED <<target, object, started, docker, bridged, closers>>
  BY DEF Unregister
<1>2. \A t \in Sessions : pc'[t] = IF t = s THEN "done" ELSE pc[t]
  BY <1>1, MovesTo DEF EInv, SInv, IInv
<1>3. /\ object[s] \in Sessions /\ target[s] \in Containers /\ target[object[s]] = target[s]
      /\ docker[target[s]] # "running"
  BY <1>1, WorkersHaveObjects DEF EInv, SInv, Working, Alone, StoppersAreDone, Stopping
<1>4. /\ \A o \in Sessions : Positions(o)' # {} => Positions(o) # {}
      /\ \A o \in Sessions \ {object[s]} : Positions(o) # {} => Positions(o)' # {}
  BY UnregisterLosesOne DEF Positions
<1>5. RunningIsRegistered'
  <2> SUFFICES ASSUME NEW c \in Containers, docker[c] = "running"
               PROVE  Registered(c)' # {}
    BY <1>1 DEF Joined, RunningIsRegistered
  <2>1. PICK i \in DOMAIN allContainers : target[allContainers[i]] = c
    BY DEF Joined, RunningIsRegistered, Registered
  <2>2. allContainers[i] \in Sessions \ {object[s]} /\ Positions(allContainers[i]) # {}
    BY <1>3, <2>1, EntriesHaveObjects DEF EInv, SInv, Positions
  <2>3. \E j \in DOMAIN allContainers' : allContainers'[j] = allContainers[i]
    BY <1>4, <2>2 DEF Positions
  <2> QED BY <1>1, <2>1, <2>3 DEF Registered
<1>6. StartedIsJoined'
  BY <1>1, <1>4 DEF Joined, StartedIsJoined, Exists
<1>7. RunningIsJoined'
  BY <1>1, <1>2 DEF Joined, RunningIsJoined
<1>8. NewIsUnstarted'
  <2>1. \A t \in Sessions : pc'[t] = "scan" =>
           ~started[object[t]] \/ \E i \in DOMAIN allContainers' : allContainers'[i] = object[t]
    <3> SUFFICES ASSUME NEW t \in Sessions, pc'[t] = "scan", started[object[t]]
                 PROVE  Positions(object[t]) # {} /\ object[t] \in Sessions \ {object[s]}
      BY <1>4 DEF Positions
    <3>1. t # s /\ pc[t] = "scan"
      BY <1>2
    <3>2. pc[t] \in Working /\ Active(t) /\ Active(s)
      BY <1>1, <3>1 DEF Working, Active, Over
    <3>3. object[t] \in Sessions /\ target[object[t]] = target[t]
      BY <3>2, WorkersHaveObjects DEF EInv, SInv
    <3>4. object[t] # object[s]
      BY <1>3, <3>1, <3>2, <3>3, AloneOn, NoneIsNothing DEF EInv, Alone
    <3> QED BY <3>1, <3>3, <3>4 DEF Joined, NewIsUnstarted
  <2>2. \A t \in Sessions : started[t] => pc'[t] \in PastRecord
    BY <1>2 DEF Joined, NewIsUnstarted, PastRecord
  <2> QED BY <1>1, <1>2, <2>1, <2>2 DEF Joined, NewIsUnstarted, Positions
<1> QED BY <1>5, <1>6, <1>7, <1>8 DEF Joined

\* Clients, docker and the API register nothing, and start no container.
LEMMA OthersKeepJoined ==
    ASSUME EInv, Joined,
           \/ UNCHANGED vars \/ ClientStep \/ Restart
           \/ \E c \in Containers :
                 \/ ContainerExits(c) \/ AuthPost(c)
                 \/ \E request \in {"save", "forget"} : AuthRequest(c, request)
    PROVE  Joined'
<1> USE DEF vars, envVars, storeVars, objectVars, localVars, ClientStep
<1>1. UNCHANGED <<started, allContainers, closers, object, bridged>>
  BY DEF ImageLogin, NamedLogin, SavedLogin, ClientLeaves, Restart, ContainerExits, AuthPost,
         AuthRequest
<1>2. \A c \in Containers :
         /\ docker'[c] = "running" => docker[c] = "running"
         /\ Exists(c)' => Exists(c)
  BY DEF ImageLogin, NamedLogin, SavedLogin, ClientLeaves, Restart, ContainerExits, AuthPost,
         AuthRequest, EInv, SInv, IInv, TypeOK, Exists
<1>3. \A t \in Sessions :
         \/ pc'[t] = pc[t] /\ target'[t] = target[t]
         \/ pc[t] = "idle" /\ pc'[t] \in {"create", "lookup", "accept"}
  <2>1. CASE ClientStep /\ ~ \E s \in Sessions : ClientLeaves(s)
    BY <2>1, MovesTo DEF ImageLogin, NamedLogin, SavedLogin, EInv, SInv, IInv, TypeOK
  <2>2. CASE UNCHANGED <<pc, target>>
    BY <2>2
  <2> QED BY <2>1, <2>2 DEF ClientLeaves, Restart, ContainerExits, AuthPost, AuthRequest
<1>4. /\ \A t \in Sessions :
            pc[t] \in PastRecord => pc'[t] \in PastRecord /\ target'[t] = target[t]
      /\ \A t \in Sessions : pc[t] = "setup" => pc'[t] = "setup"
      /\ \A t \in Sessions : pc'[t] \in {"append", "scan"} => pc[t] = pc'[t]
  BY <1>3 DEF PastRecord, Working
<1>5. /\ \A t \in Sessions : pc'[t] = "append" => ~started[object'[t]]
      /\ \A t \in Sessions :
            pc'[t] = "scan" => ~started[object'[t]] \/ Positions(object'[t]) # {}
  BY <1>1, <1>4 DEF Joined, NewIsUnstarted
<1> QED BY <1>1, <1>2, <1>4, <1>5, QuietKeepsJoined

\* While the server is up, every step keeps registered containers on their networks.
LEMMA NextKeepsJoined ==
    ASSUME EInv, Joined, [Next]_vars, Undisturbed, "setup" \notin FailingCalls, server' = "up"
    PROVE  Joined'
<1>1. ~LoseMemory /\ ~BeginShutdown
  BY DEF LoseMemory, BeginShutdown
<1>2. ~ \E i \in DOMAIN closers : CloserStop(i)
  BY DEF Joined, RunningIsRegistered
<1>3. ASSUME NEW s \in Sessions, SessionStep(s) PROVE Joined'
  <2>1. CASE GetContainer(s)
    BY <1>1, <2>1, PassingKeepsJoined, CreateKeepsJoined DEF GetContainer, PullFatal
  <2>2. CASE Connection(s)
    BY <1>1, <2>2, PassingKeepsJoined, RegisterKeepsJoined, StartKeepsJoined, SetupKeepsJoined,
       SessionStopKeepsJoined, UnregisterKeepsJoined
    DEF Connection, UnregisterPanic, Undisturbed
  <2> QED BY <1>1, <1>3, <2>1, <2>2, PassingKeepsJoined DEF SessionStep, AcceptPanic
<1> QED
  BY <1>1, <1>2, <1>3, OthersKeepJoined DEF Next, ServerStep, Environment, Exit, Kill

\* While the server is up, an attached client finds its container on the network
\* (container.go:441, which the first start of an object runs): the clients that `lostnetwork`
\* cuts off share a container, or come back to one that runs on after a crash of the server.
THEOREM AttachedKeepTheirNetwork ==
    ASSUME Undisturbed, "setup" \notin FailingCalls
    PROVE  Spec /\ [](server = "up") => []AttachedHasNetwork
<1>1. Init => EInv /\ Joined
  <2>1. Init => Joined
    BY DEF Init, Joined, RunningIsRegistered, StartedIsJoined, RunningIsJoined,
           NewIsUnstarted, Positions
  <2> QED BY <2>1, InitEInv
<1>2. EInv /\ Joined /\ [Next]_vars /\ (server = "up")' => EInv' /\ Joined'
  BY NextKeepsAlone, NextKeepsJoined
<1>3. EInv /\ Joined /\ AttachedIsLive => AttachedHasNetwork
  <2> SUFFICES ASSUME EInv, Joined, AttachedIsLive,
                      NEW s \in Sessions, pc[s] = "wait", ~gone[s]
               PROVE  target[s] \in bridged
    BY DEF AttachedHasNetwork
  <2>1. docker[target[s]] = "running" /\ target[s] \in Containers
    BY WorkersHaveObjects DEF EInv, SInv, AttachedIsLive, Working
  <2>2. \A t \in Sessions : pc[t] = "setup" => target[t] # target[s]
    BY <2>1, AloneOn, NoneIsNothing DEF EInv, Alone, Active, Over
  <2> QED BY <2>1, <2>2 DEF Joined, RunningIsJoined
<1> QED BY <1>1, <1>2, <1>3, AttachedClientsAreLive, PTL DEF Spec, Undisturbed, Orderly

===============================================================================
