--------------------------- MODULE ExitAfterProofs ---------------------------
(***************************************************************************)
(* The invariants of ExitAfter, proved for any number of sessions,         *)
(* listeners, processes, requests and failing calls: an object has one     *)
(* live listener, and a listener that is over has a reason to be.          *)
(***************************************************************************)
EXTENDS ExitAfter, TLAPS

\* A session at work has an object, and an object of the registry has a configuration.
ObjectsAreLoaded ==
    /\ registered # None => config[registered] # None
    /\ \A s \in Sessions : pc[s] # "idle" => object[s] # None /\ config[object[s]] # None
    /\ \A o \in Sessions : started[o] => config[o] # None

\* A listener that is set was given a process and an object with a configuration, and
\* cancel a set listener.
ListenersAreSet ==
    /\ \A l \in Listeners : listener[l].at # "unset" =>
           /\ listener[l].process # None /\ listener[l].object # None
           /\ config[listener[l].object] # None
    /\ \A o \in Sessions : cancel[o] # None => listener[cancel[o]].at # "unset"

\* A listener that waits without a reason to end has the id of its process, which runs.
WaitsForProcess ==
    /\ docker # "running" => \A p \in Processes : process[p] = 0
    /\ \A l \in Waiting :
           l \in reason \/ (listener[l].pid # 0 /\ process[listener[l].process] = listener[l].pid)

\* Past its wait a listener has a reason, or a call has failed.
EndsAreExplained ==
    \A l \in Listeners :
        /\ listener[l].at = "cut" => l \in reason
        /\ listener[l].at \in {"remove", "over"} => l \in reason \/ Cancelled(l) \/ faults > 0

IInv == /\ TypeOK /\ ObjectsAreLoaded /\ ListenersAreSet /\ OneListener /\ WaitsForProcess
        /\ StopIsExplained /\ EndsAreExplained

-------------------------------------------------------------------------------
(* Lemmas about the helpers of the actions *)

\* Goto moves one session, and no other.
LEMMA Moves ==
    ASSUME TypeOK, NEW s \in Sessions, NEW label,
           label \in {"idle", "enter", "open", "attached", "check", "stop", "remove", "over"},
           Goto(s, label)
    PROVE  /\ pc' \in [Sessions -> {"idle", "enter", "open", "attached", "check", "stop",
                                    "remove", "over"}]
           /\ pc'[s] = label /\ \A t \in Sessions \ {s} : pc'[t] = pc[t]
BY DEF TypeOK, Goto

\* A listener that is not set can be found if there is one.
LEMMA FreeIsUnset ==
    ASSUME \E l \in Listeners : listener[l].at = "unset"
    PROVE  FreeListener \in Listeners /\ listener[FreeListener].at = "unset"
BY DEF FreeListener

\* A counter of failing calls only grows.
LEMMA FaultsGrow ==
    ASSUME TypeOK, CallWorks \/ CallFails
    PROVE  faults' \in Nat /\ faults' >= faults /\ (CallFails => faults' > 0)
BY DEF TypeOK, CallWorks, CallFails

\* The record a listener starts with.
LEMMA NewIs ==
    ASSUME NEW o \in Sessions, NEW conf \in Config, conf.exitAfter # None,
           NEW session \in Sessions \cup {None}
    PROVE  /\ New(o, conf, session) \in ListenerState
           /\ New(o, conf, session).at = "find" /\ New(o, conf, session).object = o
           /\ New(o, conf, session).process # None
BY DEF New, Config, ListenerState

\* SetListener cancels the listener of the object and may set a new one, which the object
\* remembers.
LEMMA ListenerIsSet ==
    ASSUME TypeOK, NEW o \in Sessions, NEW conf \in Config, NEW session \in Sessions \cup {None},
           SetListener(o, conf, session)
    PROVE  /\ listener' \in [Listeners -> ListenerState]
           /\ cancel' \in [Sessions -> Listeners \cup {None}]
           /\ \A q \in Sessions \ {o} : cancel'[q] = cancel[q]
           /\ \A l \in Listeners :
                 \/ listener'[l] = listener[l] /\ (l = cancel'[o] \/ l # cancel[o])
                 \/ l = cancel[o] /\ listener'[l] = [listener[l] EXCEPT !.cancelled = TRUE]
                 \/ /\ listener[l].at = "unset" /\ l = cancel'[o] /\ conf.exitAfter # None
                    /\ listener'[l] = New(o, conf, session)
           /\ cancel'[o] # cancel[o] => listener'[cancel'[o]] = New(o, conf, session)
<1>1. CASE conf.exitAfter = None
  <2>1. /\ cancel' = cancel
        /\ listener' = [l \in Listeners |->
             IF l = cancel[o] THEN [listener[l] EXCEPT !.cancelled = TRUE] ELSE listener[l]]
    BY <1>1 DEF SetListener
  <2>2. \A l \in Listeners : listener[l] \in ListenerState
    BY DEF TypeOK
  <2>3. \A l \in Listeners : [listener[l] EXCEPT !.cancelled = TRUE] \in ListenerState
    BY <2>2 DEF ListenerState
  <2> QED BY <2>1, <2>2, <2>3 DEF TypeOK
<1>2. CASE conf.exitAfter # None
  <2>1. PICK n \in Listeners : n = FreeListener /\ listener[n].at = "unset"
    BY <1>2, FreeIsUnset DEF SetListener
  <2>2. New(o, conf, session) \in ListenerState
    BY <1>2, NewIs
  <2>3. cancel' = [cancel EXCEPT ![o] = n]
    BY <1>2, <2>1 DEF SetListener
  <2>4. \A l \in Listeners :
           listener'[l] = IF l = n THEN New(o, conf, session)
                          ELSE IF l = cancel[o] THEN [listener[l] EXCEPT !.cancelled = TRUE]
                          ELSE listener[l]
    BY <1>2, <2>1 DEF SetListener
  <2>5. listener' = [l \in Listeners |-> listener'[l]]
    BY <1>2, <2>1 DEF SetListener
  <2>6. listener' \in [Listeners -> ListenerState]
    <3>1. \A l \in Listeners : listener[l] \in ListenerState
      BY DEF TypeOK
    <3>2. \A l \in Listeners : [listener[l] EXCEPT !.cancelled = TRUE] \in ListenerState
      BY <3>1 DEF ListenerState
    <3>3. \A l \in Listeners : listener'[l] \in ListenerState
      BY <2>2, <2>4, <3>1, <3>2
    <3> QED BY <2>5, <3>3
  <2> QED BY <1>2, <2>1, <2>3, <2>4, <2>6 DEF TypeOK
<1> QED BY <1>1, <1>2

-------------------------------------------------------------------------------
(* What a step may do to a listener *)

\* It keeps what it was given, and once cancelled it stays so.
Carries(m) ==
    /\ listener'[m].object = listener[m].object /\ listener'[m].process = listener[m].process
    /\ listener'[m].level = listener[m].level /\ listener'[m].context = listener[m].context
    /\ listener[m].cancelled => listener'[m].cancelled

\* What explains an end only grows.
Grows ==
    /\ reason \subseteq reason' /\ faults' >= faults
    /\ \A s \in Sessions : pc[s] = "over" => pc'[s] = "over"

\* A listener that comes to its end has an explanation.
Explains(m) ==
    \/ listener'[m].at \in {"unset", "find", "exec", "tail"}
    \/ /\ Carries(m)
       /\ \/ listener'[m].at = listener[m].at
          \/ listener'[m].at = "cut" /\ m \in reason'
          \/ listener'[m].at = "stop" /\ (m \in reason' \/ Cancelled(m)')
          \/ /\ listener'[m].at \in {"remove", "over"}
             /\ m \in reason' \/ Cancelled(m)' \/ faults' > 0

\* A cancelled listener stays cancelled, for cancelled is never reset and a session that
\* is over does not begin again.
LEMMA CancelledStays ==
    ASSUME NEW m \in Listeners, Carries(m), Grows, Cancelled(m)
    PROVE  Cancelled(m)'
BY DEF Carries, Grows, Cancelled

\* So the ends stay explained.
LEMMA EndsStayExplained ==
    ASSUME IInv, Grows, faults' \in Nat, \A m \in Listeners : Explains(m)
    PROVE  StopIsExplained' /\ EndsAreExplained'
<1>1. faults \in Nat /\ faults' \in Nat
  BY DEF IInv, TypeOK
<1>2. StopIsExplained'
  <2> SUFFICES ASSUME NEW m \in Listeners, listener'[m].at = "stop"
               PROVE  m \in reason' \/ Cancelled(m)'
    BY DEF StopIsExplained
  <2>1. Carries(m) /\ (listener'[m].at = listener[m].at
                       \/ m \in reason' \/ Cancelled(m)')
    BY DEF Explains
  <2>2. CASE listener'[m].at = listener[m].at
    <3>1. m \in reason \/ Cancelled(m)
      BY <2>2 DEF IInv, StopIsExplained
    <3> QED BY <2>1, <3>1, CancelledStays DEF Grows
  <2> QED BY <2>1, <2>2
<1>3. EndsAreExplained'
  <2> SUFFICES ASSUME NEW m \in Listeners
               PROVE  /\ listener'[m].at = "cut" => m \in reason'
                      /\ listener'[m].at \in {"remove", "over"} =>
                            m \in reason' \/ Cancelled(m)' \/ faults' > 0
    BY DEF EndsAreExplained
  <2>1. CASE Carries(m) /\ listener'[m].at = listener[m].at
    <3>1. /\ listener'[m].at = "cut" => m \in reason
          /\ listener'[m].at \in {"remove", "over"} => m \in reason \/ Cancelled(m) \/ faults > 0
      BY <2>1 DEF IInv, EndsAreExplained
    <3>2. (m \in reason => m \in reason') /\ (faults > 0 => faults' > 0)
      BY <1>1 DEF Grows
    <3>3. Cancelled(m) => Cancelled(m)'
      BY <2>1, CancelledStays
    <3> QED BY <3>1, <3>2, <3>3
  <2>2. CASE ~(Carries(m) /\ listener'[m].at = listener[m].at)
    BY <2>2 DEF Explains
  <2> QED BY <2>1, <2>2
<1> QED BY <1>2, <1>3

\* A step that sets no listener keeps what relates listeners to objects.
LEMMA ListenersStaySet ==
    ASSUME IInv, UNCHANGED cancel, \A o \in Sessions : config[o] # None => config'[o] # None,
           \A m \in Listeners :
              /\ Carries(m)
              /\ listener[m].at = "unset" <=> listener'[m].at = "unset"
              /\ listener'[m].at \in {"find", "exec", "tail"} =>
                    listener[m].at \in {"find", "exec", "tail"}
    PROVE  ListenersAreSet' /\ OneListener'
<1>1. ListenersAreSet'
  <2>1. \A m \in Listeners : listener[m].object \in Sessions \cup {None}
    BY DEF IInv, TypeOK, ListenerState
  <2>2. \A m \in Listeners : listener'[m].at # "unset" =>
           /\ listener'[m].process # None /\ listener'[m].object # None
           /\ config'[listener'[m].object] # None
    BY <2>1 DEF IInv, ListenersAreSet, Carries
  <2>3. \A o \in Sessions : cancel[o] # None => listener'[cancel[o]].at # "unset"
    BY DEF IInv, ListenersAreSet, TypeOK
  <2> QED BY <2>2, <2>3 DEF ListenersAreSet
<1>2. OneListener'
  BY DEF IInv, OneListener, Listening, Carries
<1> QED BY <1>1, <1>2

\* The two lemmas for a step that leaves the listeners alone.
LEMMA ListenersStay ==
    ASSUME IInv, Grows, faults' \in Nat, UNCHANGED <<listener, cancel>>,
           \A o \in Sessions : config[o] # None => config'[o] # None
    PROVE  ListenersAreSet' /\ OneListener' /\ StopIsExplained' /\ EndsAreExplained'
<1>1. \A m \in Listeners : Carries(m) /\ Explains(m)
  BY DEF Carries, Explains
<1> QED BY <1>1, EndsStayExplained, ListenersStaySet

\* A listener that moves changes in nothing but where it is and its process id.
LEMMA ListenerMoves ==
    ASSUME IInv, NEW l \in Listeners, NEW id \in {Filtered[i] : i \in Pids} \cup {0},
           NEW label \in {"find", "exec", "tail", "cut", "stop", "remove", "over"},
           listener' = [listener EXCEPT ![l].at = label, ![l].pid = id]
    PROVE  /\ listener' \in [Listeners -> ListenerState]
           /\ listener'[l].at = label /\ listener'[l].pid = id /\ Carries(l)
           /\ \A m \in Listeners \ {l} : listener'[m] = listener[m] /\ Carries(m)
<1> DEFINE r == listener[l]
           moved == [r EXCEPT !.at = label, !.pid = id]
<1>1. r \in ListenerState
  BY DEF IInv, TypeOK
<1>2. /\ moved \in ListenerState /\ moved.at = label /\ moved.pid = id
      /\ moved.object = r.object /\ moved.process = r.process
      /\ moved.level = r.level /\ moved.context = r.context /\ moved.cancelled = r.cancelled
  <2> HIDE DEF r
  <2> QED BY <1>1 DEF ListenerState
<1>3. listener'[l] = moved
  BY DEF IInv, TypeOK
<1>4. \A m \in Listeners \ {l} : listener'[m] = listener[m]
  BY DEF IInv, TypeOK
<1>5. listener' \in [Listeners -> ListenerState]
  BY <1>2, <1>3, <1>4 DEF IInv, TypeOK
<1>6. listener'[l].at = label /\ listener'[l].pid = id /\ Carries(l)
  <2> HIDE DEF moved
  <2> QED BY <1>2, <1>3 DEF Carries
<1>7. \A m \in Listeners \ {l} : Carries(m)
  BY <1>4 DEF Carries
<1> QED BY <1>4, <1>5, <1>6, <1>7

\* Move is such a step that keeps the process id.
LEMMA MoveIs ==
    ASSUME IInv, NEW l \in Listeners, NEW label, Move(l, label)
    PROVE  listener' = [listener EXCEPT ![l].at = label, ![l].pid = listener[l].pid]
<1>1. listener[l] \in ListenerState
  BY DEF IInv, TypeOK
<1>2. [listener[l] EXCEPT !.at = label] = [listener[l] EXCEPT !.at = label, !.pid = listener[l].pid]
  BY <1>1 DEF ListenerState
<1> QED BY <1>2 DEF IInv, TypeOK, Move

-------------------------------------------------------------------------------
(* Each action keeps the invariant *)

\* Find keeps the invariant.
LEMMA FindKeeps ==
    ASSUME IInv, NEW l \in Listeners, Find(l)
    PROVE  IInv'
<1> USE DEF Find, Errs, objectVars, sessionVars
<1>1. listener[l] \in ListenerState /\ listener[l].at = "find"
  BY DEF IInv, TypeOK
<1>2. PICK id \in {Filtered[i] : i \in Pids} \cup {0} :
         /\ listener' = [listener EXCEPT ![l].at = "exec", ![l].pid = id]
         /\ \/ reason' = reason \cup {l}
            \/ reason' = reason /\ id # 0 /\ process[listener[l].process] = id
  <2>1. CASE Move(l, "exec") /\ reason' = reason \cup {l}
    BY <1>1, <2>1, MoveIs DEF ListenerState
  <2>2. CASE ~(Move(l, "exec") /\ reason' = reason \cup {l})
    <3> DEFINE i == process[listener[l].process]
    <3>1. /\ i # 0 /\ listener' = [listener EXCEPT ![l].at = "exec", ![l].pid = Filtered[i]]
          /\ reason' = IF Filtered[i] = i THEN reason ELSE reason \cup {l}
      BY <2>2
    <3>2. listener[l].process \in Processes \cup {None}
      BY <1>1 DEF ListenerState
    <3>3. listener[l].process # None
      BY <1>1 DEF IInv, ListenersAreSet
    <3>4. process \in [Processes -> Pids \cup {0}]
      BY DEF IInv, TypeOK
    <3>5. i \in Pids \cup {0}
      BY <3>2, <3>3, <3>4
    <3>6. i \in Pids
      BY <3>1, <3>5
    <3>7. Filtered[i] \in {Filtered[j] : j \in Pids} \cup {0}
      BY <3>6
    <3>8. \/ reason' = reason \cup {l}
          \/ reason' = reason /\ Filtered[i] # 0 /\ process[listener[l].process] = Filtered[i]
      BY <3>1
    <3> QED BY <3>1, <3>7, <3>8
  <2> QED BY <2>1, <2>2
<1>3. /\ listener' \in [Listeners -> ListenerState]
      /\ listener'[l].at = "exec" /\ listener'[l].pid = id
      /\ \A m \in Listeners \ {l} : listener'[m] = listener[m]
      /\ \A m \in Listeners : Carries(m)
  BY <1>2, ListenerMoves
<1>4. Grows /\ faults' \in Nat /\ reason' \in SUBSET Listeners
  BY <1>2, FaultsGrow DEF IInv, TypeOK, Grows
<1>5. TypeOK'
  BY <1>3, <1>4 DEF IInv, TypeOK
<1>6. ObjectsAreLoaded'
  BY DEF IInv, ObjectsAreLoaded
<1>7. StopIsExplained' /\ EndsAreExplained'
  BY <1>3, <1>4, EndsStayExplained DEF Explains
<1>8. ListenersAreSet' /\ OneListener'
  BY <1>1, <1>3, ListenersStaySet
<1>9. WaitsForProcess'
  BY <1>2, <1>3 DEF IInv, WaitsForProcess, Waiting, Carries
<1> QED BY <1>5, <1>6, <1>7, <1>8, <1>9 DEF IInv

\* What Exec and TailEnds need: a listener that moves on, with its explanation.
LEMMA MoveKeeps ==
    ASSUME IInv, NEW l \in Listeners, NEW label \in {"tail", "stop", "over"},
           Move(l, label), CallWorks \/ CallFails,
           UNCHANGED <<dockerVars, objectVars, sessionVars, requests>>,
           \/ label = "tail" /\ listener[l].at = "exec"
           \/ /\ label = "stop" /\ listener[l].at # "unset"
              /\ l \in reason \/ Cancelled(l)
           \/ /\ label = "over" /\ listener[l].at # "unset"
              /\ l \in reason \/ Cancelled(l) \/ faults' > 0
    PROVE  IInv'
<1> USE DEF dockerVars, objectVars, sessionVars
<1>1. listener[l] \in ListenerState
  BY DEF IInv, TypeOK
<1>2. listener[l].pid \in {Filtered[i] : i \in Pids} \cup {0}
  BY <1>1 DEF ListenerState
<1>3. /\ listener' \in [Listeners -> ListenerState]
      /\ listener'[l].at = label /\ listener'[l].pid = listener[l].pid
      /\ \A m \in Listeners \ {l} : listener'[m] = listener[m]
      /\ \A m \in Listeners : Carries(m)
  <2>1. listener' = [listener EXCEPT ![l].at = label, ![l].pid = listener[l].pid]
    BY MoveIs
  <2>2. label \in {"find", "exec", "tail", "cut", "stop", "remove", "over"}
    OBVIOUS
  <2> DEFINE id == listener[l].pid
  <2> HIDE DEF id
  <2>3. id \in {Filtered[i] : i \in Pids} \cup {0}
    BY <1>2 DEF id
  <2>4. listener' = [listener EXCEPT ![l].at = label, ![l].pid = id]
    BY <2>1 DEF id
  <2>5. /\ listener' \in [Listeners -> ListenerState]
        /\ listener'[l].at = label /\ listener'[l].pid = id /\ Carries(l)
        /\ \A m \in Listeners \ {l} : listener'[m] = listener[m] /\ Carries(m)
    BY <2>2, <2>3, <2>4, ListenerMoves
  <2> QED BY <2>5 DEF id
<1>4. Grows /\ faults' \in Nat
  BY FaultsGrow DEF IInv, TypeOK, Grows
<1>5. TypeOK'
  BY <1>3, <1>4 DEF IInv, TypeOK
<1>6. ObjectsAreLoaded'
  BY DEF IInv, ObjectsAreLoaded
<1>7. StopIsExplained' /\ EndsAreExplained'
  <2>1. Cancelled(l) => Cancelled(l)'
    BY <1>3, <1>4, CancelledStays
  <2>2. \A m \in Listeners : Explains(m)
    BY <1>3, <2>1 DEF Explains
  <2> QED BY <1>4, <2>2, EndsStayExplained
<1>8. ListenersAreSet' /\ OneListener'
  BY <1>3, ListenersStaySet
<1>9. WaitsForProcess'
  BY <1>3 DEF IInv, WaitsForProcess, Waiting, Carries
<1> QED BY <1>5, <1>6, <1>7, <1>8, <1>9 DEF IInv

\* Exec keeps the invariant: it fails because of a fault, of a cancelled context, or of a
\* container that has stopped, and then its listener has a reason.
LEMMA ExecKeeps ==
    ASSUME IInv, NEW l \in Listeners, Exec(l)
    PROVE  IInv'
<1>1. listener[l].at = "exec" /\ UNCHANGED <<dockerVars, objectVars, sessionVars, requests>>
  BY DEF Exec
<1>2. listener[l].process \in Processes
  <2>1. listener[l].process \in Processes \cup {None}
    BY DEF IInv, TypeOK, ListenerState
  <2> QED BY <1>1, <2>1 DEF IInv, ListenersAreSet
<1>3. docker # "running" => l \in reason
  BY <1>1, <1>2 DEF IInv, WaitsForProcess, Waiting
<1>4. CASE CallWorks /\ Move(l, "tail")
  BY <1>1, <1>4, MoveKeeps
<1>5. CASE /\ Errs(docker # "running" \/ Cancelled(l))
           /\ IF Cancelled(l) THEN Expire(l) ELSE Move(l, "over")
  <2>1. CallWorks \/ CallFails
    BY <1>5 DEF Errs
  <2>2. CASE Cancelled(l)
    BY <1>1, <1>5, <2>1, <2>2, MoveKeeps DEF Expire
  <2>3. CASE ~Cancelled(l)
    <3>1. l \in reason \/ faults' > 0
      BY <1>3, <1>5, <2>3, FaultsGrow DEF Errs, IInv
    <3> QED BY <1>1, <1>5, <2>1, <2>3, <3>1, MoveKeeps
  <2> QED BY <2>2, <2>3
<1> QED BY <1>4, <1>5 DEF Exec

\* TailEnds keeps the invariant: it ends with its process or with its container.
LEMMA TailEndsKeeps ==
    ASSUME IInv, NEW l \in Listeners, TailEnds(l)
    PROVE  IInv'
<1>1. /\ listener[l].at = "cut" \/ (listener[l].at = "tail" /\ ~Alive(listener[l].pid))
      /\ Expire(l) /\ CallWorks
      /\ UNCHANGED <<dockerVars, objectVars, sessionVars, requests>>
  BY DEF TailEnds, CallWorks
<1>2. l \in reason
  <2>1. CASE listener[l].at = "cut"
    BY <2>1 DEF IInv, EndsAreExplained
  <2>2. CASE listener[l].at = "tail" /\ ~Alive(listener[l].pid)
    <3>1. listener[l].process \in Processes \cup {None}
      BY DEF IInv, TypeOK, ListenerState
    <3>2. listener[l].process \in Processes
      BY <2>2, <3>1 DEF IInv, ListenersAreSet
    <3> QED BY <2>2, <3>2 DEF IInv, WaitsForProcess, Waiting, Alive
  <2> QED BY <1>1, <2>1, <2>2
<1> QED BY <1>1, <1>2, MoveKeeps DEF Expire

-------------------------------------------------------------------------------
(* Stop *)

\* What a step of Stop changes in docker: a container that it stops or removes ends its
\* processes, and that is a reason for the listeners that wait.
LEMMA StopStepIs ==
    ASSUME IInv, NEW o \in Sessions, NEW at, NEW next, config[o] # None, StopStep(o, at, next)
    PROVE  /\ next \in StopLabels \ {"stop"} /\ at \in {"stop", "remove"}
           /\ docker' \in {"absent", "stopped", "running", "removed"}
           /\ process' \in [Processes -> Pids \cup {0}] /\ stream' \in SUBSET Sessions
           /\ settings' \in Config \cup {None} /\ reason' \in SUBSET Listeners
           /\ reason \subseteq reason' /\ (CallWorks \/ CallFails)
           /\ docker' # "running" => \A p \in Processes : process'[p] = 0
           /\ docker' = "running" => docker = "running" /\ process' = process
           /\ docker = "running" /\ docker' # "running" => Waiting \subseteq reason'
<1> USE DEF StopLabels, Errs, Halted
<1>1. Waiting \subseteq Listeners
  BY DEF Waiting
<1>2. /\ docker \in {"absent", "stopped", "running", "removed"}
      /\ process \in [Processes -> Pids \cup {0}] /\ stream \in SUBSET Sessions
      /\ settings \in Config \cup {None} /\ reason \in SUBSET Listeners
      /\ docker # "running" => \A p \in Processes : process[p] = 0
  BY DEF IInv, TypeOK, WaitsForProcess
<1>3. CASE at = "stop" /\ HaltStep(o, next) /\ UNCHANGED settings
  <2>1. next \in StopLabels \ {"stop"}
    BY <1>3 DEF HaltStep
  <2>2. CASE Halted /\ CallWorks
    BY <1>1, <1>2, <1>3, <2>1, <2>2
  <2>3. CASE UNCHANGED <<docker, process, stream, reason>>
    BY <1>2, <1>3, <2>1, <2>3 DEF HaltStep
  <2> QED BY <1>3, <2>2, <2>3 DEF HaltStep
<1>4. CASE at = "remove" /\ RemoveStep(next)
  <2>1. CASE UNCHANGED <<docker, process, settings, stream, reason>>
    BY <1>2, <1>4, <2>1 DEF RemoveStep
  <2>2. CASE ~UNCHANGED <<docker, process, settings, stream, reason>>
    <3>1. /\ CallWorks /\ next = "stopped"
          /\ process' = [p \in Processes |-> 0] /\ stream' = {}
          /\ docker' = "removed" /\ reason' = reason \cup Waiting /\ settings' = None
      BY <1>4, <2>2 DEF RemoveStep
    <3> QED BY <1>1, <1>2, <1>4, <3>1
  <2> QED BY <2>1, <2>2
<1> QED BY <1>3, <1>4 DEF StopStep

\* What a step of Stop does to the listeners: those attached when the container stops are
\* cut off, the others stay where they are.
LEMMA CutIs ==
    ASSUME NEW before \in [Listeners -> ListenerState]
    PROVE  /\ Cut(before) \in [Listeners -> ListenerState]
           /\ \A m \in Listeners :
                 \/ /\ Cut(before)[m] = before[m]
                    /\ docker = "running" /\ docker' # "running" => before[m].at # "tail"
                 \/ /\ docker = "running" /\ docker' # "running"
                    /\ before[m].at = "tail"
                    /\ Cut(before)[m] = [before[m] EXCEPT !.at = "cut"]
<1>1. \A m \in Listeners : before[m] \in ListenerState
  OBVIOUS
<1>2. \A m \in Listeners : [before[m] EXCEPT !.at = "cut"] \in ListenerState
  BY <1>1 DEF ListenerState
<1> QED BY <1>1, <1>2 DEF Cut, CutTails

\* The invariant for a step of Stop, whoever runs it: before is what its goroutine makes of
\* the listeners, and the step cuts those that are attached.
LEMMA StopKeeps ==
    ASSUME IInv, NEW o \in Sessions, NEW at, NEW next, config[o] # None, StopStep(o, at, next),
           NEW before \in [Listeners -> ListenerState], listener' = Cut(before),
           UNCHANGED <<cancel, config>>, Grows,
           \A m \in Listeners :
              \/ before[m] = listener[m]
              \/ /\ listener[m].at \in {"stop", "remove"} /\ before[m].at \in {"remove", "over"}
                 /\ before[m] = [listener[m] EXCEPT !.at = before[m].at]
    PROVE  /\ listener' \in [Listeners -> ListenerState] /\ faults' \in Nat
           /\ ListenersAreSet' /\ OneListener' /\ WaitsForProcess'
           /\ StopIsExplained' /\ EndsAreExplained'
<1>1. \A m \in Listeners : listener[m] \in ListenerState
  BY DEF IInv, TypeOK
<1>2. listener' \in [Listeners -> ListenerState] /\ faults' \in Nat
  BY CutIs, StopStepIs, FaultsGrow DEF IInv
<1>3. \A m \in Listeners :
         /\ Carries(m) /\ listener'[m].pid = listener[m].pid
         /\ \/ /\ listener'[m].at = listener[m].at
               /\ docker = "running" /\ docker' # "running" => listener[m].at # "tail"
            \/ /\ listener[m].at = "tail" /\ listener'[m].at = "cut"
               /\ docker = "running" /\ docker' # "running"
            \/ listener[m].at \in {"stop", "remove"} /\ listener'[m].at \in {"remove", "over"}
  <2> SUFFICES ASSUME NEW m \in Listeners
               PROVE  /\ Carries(m) /\ listener'[m].pid = listener[m].pid
                      /\ \/ /\ listener'[m].at = listener[m].at
                            /\ docker = "running" /\ docker' # "running" => listener[m].at # "tail"
                         \/ /\ listener[m].at = "tail" /\ listener'[m].at = "cut"
                            /\ docker = "running" /\ docker' # "running"
                         \/ /\ listener[m].at \in {"stop", "remove"}
                            /\ listener'[m].at \in {"remove", "over"}
    OBVIOUS
  <2>1. listener[m] \in ListenerState /\ before[m] \in ListenerState
    BY <1>1
  <2>2. /\ before[m].object = listener[m].object /\ before[m].process = listener[m].process
        /\ before[m].level = listener[m].level /\ before[m].context = listener[m].context
        /\ before[m].cancelled = listener[m].cancelled /\ before[m].pid = listener[m].pid
    BY <2>1 DEF ListenerState
  <2>3. CASE listener'[m] = before[m]
    <3>1. CASE docker = "running" /\ docker' # "running" => before[m].at # "tail"
      <4>1. Carries(m) /\ listener'[m].pid = listener[m].pid
        BY <2>2, <2>3 DEF Carries
      <4>2. \/ before[m] = listener[m]
            \/ listener[m].at \in {"stop", "remove"} /\ before[m].at \in {"remove", "over"}
        OBVIOUS
      <4> QED BY <2>3, <3>1, <4>1, <4>2
    <3>2. CASE listener'[m] = [before[m] EXCEPT !.at = "cut"] /\ before[m].at = "tail"
      <4>1. listener'[m].at = "cut"
        BY <2>1, <3>2 DEF ListenerState
      <4> QED BY <2>3, <3>2, <4>1
    <3> QED BY <2>3, <3>1, <3>2, CutIs
  <2>4. CASE listener'[m] # before[m]
    <3>1. /\ docker = "running" /\ docker' # "running" /\ before[m].at = "tail"
          /\ listener'[m] = [before[m] EXCEPT !.at = "cut"]
      BY <2>4, CutIs
    <3>2. listener[m].at = "tail"
      BY <3>1
    <3>3. listener'[m].at = "cut"
      BY <2>1, <3>1 DEF ListenerState
    <3>4. /\ listener'[m].object = before[m].object /\ listener'[m].process = before[m].process
          /\ listener'[m].level = before[m].level /\ listener'[m].context = before[m].context
          /\ listener'[m].cancelled = before[m].cancelled /\ listener'[m].pid = before[m].pid
      BY <2>1, <3>1 DEF ListenerState
    <3> QED BY <2>2, <3>1, <3>2, <3>3, <3>4 DEF Carries
  <2> QED BY <2>3, <2>4
<1>4. ListenersAreSet' /\ OneListener'
  BY <1>3, ListenersStaySet
<1>5. \A m \in Listeners : Explains(m)
  <2> SUFFICES ASSUME NEW m \in Listeners PROVE Explains(m)
    OBVIOUS
  <2>1. CASE listener'[m].at = listener[m].at
    BY <1>3, <2>1 DEF Explains
  <2>2. CASE listener[m].at = "tail" /\ listener'[m].at = "cut"
    <3>1. m \in reason'
      BY <1>3, <2>2, StopStepIs DEF Waiting
    <3> QED BY <1>3, <2>2, <3>1 DEF Explains
  <2>3. CASE /\ listener[m].at \in {"stop", "remove"}
             /\ listener'[m].at \in {"remove", "over"}
    <3>1. m \in reason \/ Cancelled(m) \/ faults > 0
      BY <2>3 DEF IInv, StopIsExplained, EndsAreExplained
    <3>2. Cancelled(m) => Cancelled(m)'
      BY <1>3, CancelledStays
    <3>3. faults > 0 => faults' > 0
      BY <1>2 DEF Grows, IInv, TypeOK
    <3> QED BY <1>3, <2>3, <3>1, <3>2, <3>3 DEF Explains, Grows
  <2> QED BY <1>3, <2>1, <2>2, <2>3
<1>6. StopIsExplained' /\ EndsAreExplained'
  BY <1>2, <1>5, EndsStayExplained
<1>7. WaitsForProcess'
  <2>1. docker' # "running" => \A p \in Processes : process'[p] = 0
    BY StopStepIs
  <2> SUFFICES ASSUME NEW m \in Listeners, listener'[m].at \in {"exec", "tail"}
               PROVE  \/ m \in reason'
                      \/ listener'[m].pid # 0 /\ process'[listener'[m].process] = listener'[m].pid
    BY <2>1 DEF WaitsForProcess, Waiting
  <2>2. m \in Waiting
    BY <1>3 DEF Waiting
  <2>3. CASE m \in reason
    BY <2>3 DEF Grows
  <2>4. CASE m \notin reason
    <3>1. listener[m].pid # 0 /\ process[listener[m].process] = listener[m].pid
      BY <2>2, <2>4 DEF IInv, WaitsForProcess
    <3>2. listener[m].process \in Processes \cup {None} /\ listener[m].process # None
      BY <1>1, <2>2 DEF IInv, ListenersAreSet, Waiting, ListenerState
    <3>3. docker = "running"
      BY <3>1, <3>2 DEF IInv, WaitsForProcess
    <3> QED BY <1>3, <2>2, <3>1, <3>3, StopStepIs DEF Carries
  <2> QED BY <2>3, <2>4
<1> QED BY <1>2, <1>4, <1>6, <1>7

\* A listener that stops the container keeps the invariant.
LEMMA ListenerStopKeeps ==
    ASSUME IInv, NEW l \in Listeners, ListenerStop(l)
    PROVE  IInv'
<1> DEFINE o == listener[l].object
<1>1. PICK next \in StopLabels :
         /\ StopStep(listener[l].object, listener[l].at, next)
         /\ listener' = Cut([listener EXCEPT ![l].at =
                                IF next \in {"stopped", "failed"} THEN "over" ELSE next])
         /\ UNCHANGED <<objectVars, sessionVars, requests>>
  BY DEF ListenerStop
<1>2. listener[l].at \in {"stop", "remove"}
  BY <1>1 DEF StopStep
<1>3. listener[l] \in ListenerState
  BY DEF IInv, TypeOK
<1>4. o \in Sessions \cup {None} /\ o # None
  BY <1>2, <1>3 DEF IInv, ListenersAreSet, ListenerState
<1>5. o \in Sessions /\ config[o] # None
  BY <1>2, <1>4 DEF IInv, ListenersAreSet
<1> DEFINE label == IF next \in {"stopped", "failed"} THEN "over" ELSE next
           before == [listener EXCEPT ![l].at = label]
           at == listener[l].at
<1>6. /\ label \in {"remove", "over"} /\ StopStep(o, at, next)
      /\ docker' \in {"absent", "stopped", "running", "removed"}
      /\ process' \in [Processes -> Pids \cup {0}] /\ stream' \in SUBSET Sessions
      /\ settings' \in Config \cup {None} /\ reason' \in SUBSET Listeners
      /\ reason \subseteq reason' /\ (CallWorks \/ CallFails)
  BY <1>1, <1>5, StopStepIs DEF StopLabels
<1>7. before \in [Listeners -> ListenerState] /\ listener' = Cut(before)
  <2>1. [listener[l] EXCEPT !.at = label] \in ListenerState
    BY <1>3, <1>6 DEF ListenerState
  <2> QED BY <1>1, <2>1 DEF IInv, TypeOK
<1>8. \A m \in Listeners :
         \/ before[m] = listener[m]
         \/ /\ listener[m].at \in {"stop", "remove"} /\ before[m].at \in {"remove", "over"}
            /\ before[m] = [listener[m] EXCEPT !.at = before[m].at]
  <2>1. \A m \in Listeners \ {l} : before[m] = listener[m]
    BY DEF IInv, TypeOK
  <2>2. before[l] = [listener[l] EXCEPT !.at = label]
    BY DEF IInv, TypeOK
  <2>3. before[l].at = label
    BY <1>3, <2>2 DEF ListenerState
  <2> QED BY <1>2, <1>6, <2>1, <2>2, <2>3
<1>9. Grows
  BY <1>1, <1>6, FaultsGrow DEF Grows, IInv, sessionVars
<1>10. UNCHANGED <<cancel, config>>
  BY <1>1 DEF objectVars
<1>11. /\ listener' \in [Listeners -> ListenerState] /\ faults' \in Nat
       /\ ListenersAreSet' /\ OneListener' /\ WaitsForProcess'
       /\ StopIsExplained' /\ EndsAreExplained'
  <2> HIDE DEF before, at, o
  <2> QED BY <1>5, <1>6, <1>7, <1>8, <1>9, <1>10, StopKeeps
<1>12. TypeOK'
  BY <1>1, <1>6, <1>11 DEF IInv, TypeOK, objectVars, sessionVars
<1>13. ObjectsAreLoaded'
  BY <1>1 DEF IInv, ObjectsAreLoaded, objectVars, sessionVars
<1> QED BY <1>11, <1>12, <1>13 DEF IInv

\* A session that stops the container keeps the invariant.
LEMMA SessionStopKeeps ==
    ASSUME IInv, NEW s \in Sessions, SessionStop(s)
    PROVE  IInv'
<1> DEFINE o == object[s]
           at == pc[s]
<1>1. PICK next \in StopLabels :
         /\ StopStep(object[s], pc[s], next)
         /\ Goto(s, IF next \in {"stopped", "failed"} THEN "over" ELSE next)
         /\ listener' = Cut(listener)
         /\ registered' = IF next = "stopped" /\ registered = object[s] THEN None ELSE registered
         /\ UNCHANGED <<config, started, cancel, object, runLevel, left, requests>>
  BY DEF SessionStop
<1>2. at \in {"stop", "remove"}
  BY <1>1 DEF StopStep
<1>3. o \in Sessions /\ config[o] # None
  BY <1>2 DEF IInv, ObjectsAreLoaded, TypeOK
<1>4. /\ next \in StopLabels \ {"stop"} /\ StopStep(o, at, next)
      /\ docker' \in {"absent", "stopped", "running", "removed"}
      /\ process' \in [Processes -> Pids \cup {0}] /\ stream' \in SUBSET Sessions
      /\ settings' \in Config \cup {None} /\ reason' \in SUBSET Listeners
      /\ reason \subseteq reason' /\ (CallWorks \/ CallFails)
  BY <1>1, <1>3, StopStepIs
<1> DEFINE label == IF next \in {"stopped", "failed"} THEN "over" ELSE next
<1>5. /\ pc' \in [Sessions -> {"idle", "enter", "open", "attached", "check", "stop", "remove",
                               "over"}]
      /\ pc'[s] = label /\ \A t \in Sessions \ {s} : pc'[t] = pc[t]
  <2>1. label \in {"idle", "enter", "open", "attached", "check", "stop", "remove", "over"}
    BY <1>4 DEF StopLabels
  <2> HIDE DEF label
  <2> QED BY <1>1, <2>1, Moves DEF IInv, label
<1>6. Grows
  BY <1>2, <1>4, <1>5, FaultsGrow DEF Grows, IInv
<1>7. /\ listener' \in [Listeners -> ListenerState] /\ faults' \in Nat
      /\ ListenersAreSet' /\ OneListener' /\ WaitsForProcess'
      /\ StopIsExplained' /\ EndsAreExplained'
  <2>1. listener \in [Listeners -> ListenerState]
    BY DEF IInv, TypeOK
  <2> HIDE DEF at, o
  <2> QED BY <1>1, <1>3, <1>4, <1>6, <2>1, StopKeeps
<1>8. TypeOK'
  BY <1>1, <1>4, <1>5, <1>7 DEF IInv, TypeOK
<1>9. ObjectsAreLoaded'
  BY <1>1, <1>2, <1>5 DEF IInv, ObjectsAreLoaded
<1> QED BY <1>7, <1>8, <1>9 DEF IInv

-------------------------------------------------------------------------------
(* The steps of a session that leave the container and its listeners alone *)

\* OpenTerminal, CloseTerminal, Check and ClientLeaves move a session and its stream.
LEMMA QuietKeeps ==
    ASSUME IInv, CallWorks \/ CallFails,
           UNCHANGED <<docker, process, settings, reason, objectVars, object, runLevel,
                       listener, requests>>,
           pc' \in [Sessions -> {"idle", "enter", "open", "attached", "check", "stop",
                                 "remove", "over"}],
           \A s \in Sessions : (pc[s] = "over" => pc'[s] = "over")
                               /\ (pc[s] = "idle" => pc'[s] = "idle"),
           left' \in SUBSET Sessions, stream' \in SUBSET Sessions
    PROVE  IInv'
<1> USE DEF objectVars
<1>1. Grows /\ faults' \in Nat
  BY FaultsGrow DEF IInv, Grows
<1>2. ListenersAreSet' /\ OneListener' /\ StopIsExplained' /\ EndsAreExplained'
  BY <1>1, ListenersStay
<1>3. TypeOK'
  BY <1>1 DEF IInv, TypeOK
<1>4. ObjectsAreLoaded'
  BY DEF IInv, ObjectsAreLoaded
<1>5. WaitsForProcess'
  BY DEF IInv, WaitsForProcess, Waiting
<1> QED BY <1>2, <1>3, <1>4, <1>5 DEF IInv

\* OpenTerminal keeps the invariant.
LEMMA OpenTerminalKeeps ==
    ASSUME IInv, NEW s \in Sessions, OpenTerminal(s)
    PROVE  IInv'
<1>1. PICK label \in {"attached", "check"} :
         Goto(s, label) /\ pc[s] = "open" /\ (CallWorks \/ CallFails)
  BY DEF OpenTerminal, Errs
<1>2. stream' \in SUBSET Sessions /\ left' \in SUBSET Sessions
  BY DEF OpenTerminal, IInv, TypeOK
<1>3. UNCHANGED <<docker, process, settings, reason, objectVars, object, runLevel,
                  listener, requests>>
  BY DEF OpenTerminal
<1>4. label \in {"idle", "enter", "open", "attached", "check", "stop", "remove", "over"}
  OBVIOUS
<1>5. /\ pc' \in [Sessions -> {"idle", "enter", "open", "attached", "check", "stop", "remove",
                               "over"}]
      /\ pc'[s] = label /\ \A t \in Sessions \ {s} : pc'[t] = pc[t]
  BY <1>1, <1>4, Moves DEF IInv
<1> QED BY <1>1, <1>2, <1>3, <1>5, QuietKeeps

\* CloseTerminal keeps the invariant.
LEMMA CloseTerminalKeeps ==
    ASSUME IInv, NEW s \in Sessions, CloseTerminal(s)
    PROVE  IInv'
<1>1. Goto(s, "check") /\ pc[s] = "attached" /\ CallWorks
  BY DEF CloseTerminal, CallWorks
<1>2. stream' \in SUBSET Sessions /\ left' \in SUBSET Sessions
  BY DEF CloseTerminal, IInv, TypeOK
<1>3. UNCHANGED <<docker, process, settings, reason, objectVars, object, runLevel,
                  listener, requests>>
  BY DEF CloseTerminal
<1>4. /\ pc' \in [Sessions -> {"idle", "enter", "open", "attached", "check", "stop", "remove",
                               "over"}]
      /\ pc'[s] = "check" /\ \A t \in Sessions \ {s} : pc'[t] = pc[t]
  BY <1>1, Moves DEF IInv
<1> QED BY <1>1, <1>2, <1>3, <1>4, QuietKeeps

\* Check keeps the invariant.
LEMMA CheckKeeps ==
    ASSUME IInv, NEW s \in Sessions, Check(s)
    PROVE  IInv'
<1>1. PICK label \in {"stop", "over"} : Goto(s, label) /\ pc[s] = "check" /\ CallWorks
  BY DEF Check, CallWorks
<1>2. stream' \in SUBSET Sessions /\ left' \in SUBSET Sessions
  BY DEF Check, dockerVars, IInv, TypeOK
<1>3. UNCHANGED <<docker, process, settings, reason, objectVars, object, runLevel,
                  listener, requests>>
  BY DEF Check, dockerVars
<1>4. label \in {"idle", "enter", "open", "attached", "check", "stop", "remove", "over"}
  OBVIOUS
<1>5. /\ pc' \in [Sessions -> {"idle", "enter", "open", "attached", "check", "stop", "remove",
                               "over"}]
      /\ pc'[s] = label /\ \A t \in Sessions \ {s} : pc'[t] = pc[t]
  BY <1>1, <1>4, Moves DEF IInv
<1> QED BY <1>1, <1>2, <1>3, <1>5, QuietKeeps

\* ClientLeaves keeps the invariant.
LEMMA ClientLeavesKeeps ==
    ASSUME IInv, NEW s \in Sessions, ClientLeaves(s)
    PROVE  IInv'
<1>1. /\ CallWorks /\ UNCHANGED pc
      /\ UNCHANGED <<docker, process, settings, reason, objectVars, object, runLevel,
                     listener, requests>>
  BY DEF ClientLeaves, dockerVars, CallWorks
<1>2. stream' \in SUBSET Sessions /\ left' \in SUBSET Sessions
  BY DEF ClientLeaves, dockerVars, IInv, TypeOK
<1>3. pc' \in [Sessions -> {"idle", "enter", "open", "attached", "check", "stop", "remove",
                            "over"}]
  BY <1>1 DEF IInv, TypeOK
<1> QED BY <1>1, <1>2, <1>3, QuietKeeps

-------------------------------------------------------------------------------
(* Login, the first start and the requests *)

\* Login keeps the invariant: the object it takes has a configuration.
LEMMA LoginKeeps ==
    ASSUME IInv, NEW s \in Sessions, Login(s)
    PROVE  IInv'
<1>1. /\ pc[s] = "idle" /\ Goto(s, "enter")
      /\ UNCHANGED <<process, stream, reason, started, cancel, runLevel, left,
                     listener, requests, faults>>
  BY DEF Login
<1>2. /\ pc' \in [Sessions -> {"idle", "enter", "open", "attached", "check", "stop", "remove",
                               "over"}]
      /\ pc'[s] = "enter" /\ \A t \in Sessions \ {s} : pc'[t] = pc[t]
  BY <1>1, Moves DEF IInv
<1>3. None \notin Config /\ None \notin Sessions
  BY NoneIsNothing
<1>4. /\ docker \in {"absent", "stopped", "running", "removed"}
      /\ settings \in Config \cup {None} /\ registered \in Sessions \cup {None}
      /\ config \in [Sessions -> Config \cup {None}]
      /\ object \in [Sessions -> Sessions \cup {None}] /\ faults \in Nat
  BY DEF IInv, TypeOK
<1>5. /\ docker' \in {"absent", "stopped", "running", "removed"}
      /\ docker' = docker \/ (docker = "absent" /\ docker' = "stopped")
      /\ settings' \in Config \cup {None} /\ registered' \in Sessions /\ config'[registered'] # None
      /\ config' \in [Sessions -> Config \cup {None}]
      /\ object' = [object EXCEPT ![s] = registered']
      /\ \A o \in Sessions : config[o] # None => config'[o] # None
  <2>1. CASE registered # None
    <3>1. /\ object' = [object EXCEPT ![s] = registered]
          /\ UNCHANGED <<docker, settings, registered, config>>
      BY <2>1 DEF Login
    <3> QED BY <1>4, <2>1, <3>1 DEF IInv, ObjectsAreLoaded
  <2>2. CASE registered = None
    <3>1. PICK row \in IF docker = "absent" THEN Profiles ELSE {settings} \ {None} :
             config' = [config EXCEPT ![s] = row] /\ settings' = row
      BY <2>2 DEF Login
    <3>2. row \in Config /\ row # None
      BY <1>3, <1>4, <3>1, ProfilesAreConfigs
    <3>3. /\ object' = [object EXCEPT ![s] = s] /\ registered' = s
          /\ docker' = IF docker = "absent" THEN "stopped" ELSE docker
      BY <2>2 DEF Login
    <3>4. /\ config' \in [Sessions -> Config \cup {None}] /\ config'[s] = row
          /\ \A o \in Sessions \ {s} : config'[o] = config[o]
      BY <1>4, <3>1, <3>2
    <3> QED BY <1>3, <1>4, <3>1, <3>2, <3>3, <3>4
  <2> QED BY <2>1, <2>2
<1>6. /\ object' \in [Sessions -> Sessions \cup {None}] /\ object'[s] = registered'
      /\ \A t \in Sessions \ {s} : object'[t] = object[t]
  BY <1>4, <1>5
<1>7. Grows /\ faults' \in Nat
  BY <1>1, <1>2, <1>4 DEF Grows
<1>8. ListenersAreSet' /\ OneListener' /\ StopIsExplained' /\ EndsAreExplained'
  BY <1>1, <1>5, <1>7, ListenersStay
<1>9. TypeOK'
  BY <1>1, <1>2, <1>5, <1>6 DEF IInv, TypeOK
<1>10. ObjectsAreLoaded'
  <2>1. registered' # None => config'[registered'] # None
    BY <1>5
  <2>2. \A t \in Sessions : pc'[t] # "idle" => object'[t] # None /\ config'[object'[t]] # None
    BY <1>2, <1>3, <1>4, <1>5, <1>6 DEF IInv, ObjectsAreLoaded
  <2>3. \A o \in Sessions : started'[o] => config'[o] # None
    BY <1>1, <1>5 DEF IInv, ObjectsAreLoaded
  <2> QED BY <2>1, <2>2, <2>3 DEF ObjectsAreLoaded
<1>11. WaitsForProcess'
  BY <1>1, <1>5 DEF IInv, WaitsForProcess, Waiting
<1> QED BY <1>8, <1>9, <1>10, <1>11 DEF IInv

\* Setting a listener for an object keeps what the invariant says of listeners.
LEMMA SetKeeps ==
    ASSUME IInv, NEW o \in Sessions, NEW conf \in Config, NEW session \in Sessions \cup {None},
           SetListener(o, conf, session), Grows, faults' \in Nat, config'[o] # None,
           \A q \in Sessions : config[q] # None => config'[q] # None
    PROVE  /\ listener' \in [Listeners -> ListenerState]
           /\ cancel' \in [Sessions -> Listeners \cup {None}]
           /\ ListenersAreSet' /\ OneListener' /\ StopIsExplained' /\ EndsAreExplained'
           /\ \A m \in Listeners : listener'[m].at \in {"exec", "tail"} =>
                 /\ listener[m].at = listener'[m].at /\ listener[m].pid = listener'[m].pid
                 /\ listener[m].process = listener'[m].process
<1> DEFINE Same(m) == /\ listener'[m] = listener[m] /\ (m = cancel'[o] \/ m # cancel[o])
           Cancels(m) == /\ m = cancel[o] /\ listener'[m] = [listener[m] EXCEPT !.cancelled = TRUE]
           Sets(m) == /\ listener[m].at = "unset" /\ m = cancel'[o] /\ conf.exitAfter # None
                      /\ listener'[m] = New(o, conf, session)
<1>1. /\ listener' \in [Listeners -> ListenerState]
      /\ cancel' \in [Sessions -> Listeners \cup {None}]
      /\ \A q \in Sessions \ {o} : cancel'[q] = cancel[q]
      /\ \A m \in Listeners : Same(m) \/ Cancels(m) \/ Sets(m)
      /\ cancel'[o] # cancel[o] => listener'[cancel'[o]] = New(o, conf, session)
  BY ListenerIsSet DEF IInv
<1>2. \A m \in Listeners : listener[m] \in ListenerState /\ listener'[m] \in ListenerState
  BY <1>1 DEF IInv, TypeOK
<1>3. \A m \in Listeners : Cancels(m) =>
         /\ listener'[m].at = listener[m].at /\ listener'[m].pid = listener[m].pid
         /\ listener'[m].cancelled /\ Carries(m)
  <2> SUFFICES ASSUME NEW m \in Listeners, Cancels(m)
               PROVE  /\ listener'[m].at = listener[m].at /\ listener'[m].pid = listener[m].pid
                      /\ listener'[m].cancelled /\ Carries(m)
    OBVIOUS
  <2>1. /\ listener'[m].at = listener[m].at /\ listener'[m].pid = listener[m].pid
        /\ listener'[m].object = listener[m].object /\ listener'[m].process = listener[m].process
        /\ listener'[m].level = listener[m].level /\ listener'[m].context = listener[m].context
    BY <1>2 DEF ListenerState
  <2>2. listener'[m].cancelled = TRUE
    BY <1>2 DEF ListenerState
  <2> QED BY <2>1, <2>2 DEF Carries
<1>4. conf.exitAfter # None =>
         /\ New(o, conf, session).at = "find" /\ New(o, conf, session).object = o
         /\ New(o, conf, session).process # None
  BY NewIs
<1>5. \A m \in Listeners : Same(m) => Carries(m) /\ listener'[m].at = listener[m].at
  BY DEF Carries
<1>6. None \notin Sessions /\ None \notin Listeners
  BY NoneIsNothing
<1>7. /\ cancel \in [Sessions -> Listeners \cup {None}]
      /\ \A m \in Listeners : listener[m].object \in Sessions \cup {None}
  BY <1>2 DEF IInv, TypeOK, ListenerState
<1>8. StopIsExplained' /\ EndsAreExplained'
  <2>1. \A m \in Listeners : Explains(m)
    <3> SUFFICES ASSUME NEW m \in Listeners PROVE Explains(m)
      OBVIOUS
    <3>1. CASE Sets(m)
      BY <1>4, <3>1 DEF Explains
    <3>2. CASE Same(m) \/ Cancels(m)
      <4> HIDE DEF Same, Cancels
      <4> QED BY <1>3, <1>5, <3>2 DEF Explains
    <3> QED BY <1>1, <3>1, <3>2
  <2> QED BY <2>1, EndsStayExplained
<1>9. ListenersAreSet'
  <2>1. ASSUME NEW m \in Listeners, listener'[m].at # "unset"
        PROVE  /\ listener'[m].process # None /\ listener'[m].object # None
               /\ config'[listener'[m].object] # None
    <3>1. CASE Sets(m)
      BY <1>4, <1>6, <3>1
    <3>2. CASE Same(m) \/ Cancels(m)
      <4>1. Carries(m) /\ listener'[m].at = listener[m].at
        BY <1>3, <1>5, <3>2
      <4> QED BY <1>7, <2>1, <4>1 DEF Carries, IInv, ListenersAreSet
    <3> QED BY <1>1, <3>1, <3>2
  <2>2. ASSUME NEW q \in Sessions, cancel'[q] # None
        PROVE  listener'[cancel'[q]].at # "unset"
    <3>1. CASE q = o /\ cancel'[o] # cancel[o]
      <4>1. cancel'[o] \in Listeners /\ listener'[cancel'[o]] = New(o, conf, session)
        BY <1>1, <2>2, <3>1
      <4> QED BY <3>1, <4>1 DEF New
    <3>2. CASE cancel'[q] = cancel[q]
      <4>1. cancel[q] \in Listeners /\ listener[cancel[q]].at # "unset"
        BY <1>7, <2>2, <3>2 DEF IInv, ListenersAreSet
      <4>2. Same(cancel[q]) \/ Cancels(cancel[q])
        BY <1>1, <4>1
      <4>3. listener'[cancel[q]].at = listener[cancel[q]].at
        BY <1>3, <1>5, <4>1, <4>2
      <4> QED BY <3>2, <4>1, <4>3
    <3> QED BY <1>1, <3>1, <3>2
  <2> QED BY <2>1, <2>2 DEF ListenersAreSet
<1>10. OneListener'
  <2> SUFFICES ASSUME NEW m \in Listeners, listener'[m].at \in {"find", "exec", "tail"},
                      ~listener'[m].cancelled
               PROVE  cancel'[listener'[m].object] = m
    BY DEF OneListener, Listening
  <2>1. CASE Sets(m)
    BY <1>4, <2>1
  <2>2. CASE Same(m)
    <3>1. cancel[listener[m].object] = m
      BY <2>2 DEF IInv, OneListener, Listening
    <3>2. listener[m].object \in Sessions
      BY <1>7, <2>2 DEF IInv, ListenersAreSet
    <3> QED BY <1>1, <2>2, <3>1, <3>2
  <2>3. CASE Cancels(m)
    BY <1>3, <2>3
  <2> QED BY <1>1, <2>1, <2>2, <2>3
<1>11. ASSUME NEW m \in Listeners, listener'[m].at \in {"exec", "tail"}
       PROVE  /\ listener[m].at = listener'[m].at /\ listener[m].pid = listener'[m].pid
              /\ listener[m].process = listener'[m].process
  <2>1. ~Sets(m)
    BY <1>4, <1>11
  <2> QED BY <1>1, <1>3, <2>1 DEF Carries
<1> QED BY <1>1, <1>8, <1>9, <1>10, <1>11

\* A session that starts, or finds running, the container of its object keeps the invariant.
LEMMA EnterKeeps ==
    ASSUME IInv, NEW s \in Sessions, Enter(s)
    PROVE  IInv'
<1> DEFINE o == object[s]
<1>1. /\ pc[s] = "enter"
      /\ UNCHANGED <<process, settings, stream, reason, registered, config, object, left,
                     requests>>
  BY DEF Enter
<1>2. o \in Sessions /\ config[o] \in Config
  BY <1>1 DEF IInv, ObjectsAreLoaded, TypeOK
<1>3. config[o].runLevel \in RunLevels
  BY <1>2 DEF Config
<1>4. PICK label \in {"open", "over"} : Goto(s, label)
  BY DEF Enter, Copied
<1>5. label \in {"idle", "enter", "open", "attached", "check", "stop", "remove", "over"}
  OBVIOUS
<1>6. /\ pc' \in [Sessions -> {"idle", "enter", "open", "attached", "check", "stop", "remove",
                               "over"}]
      /\ pc'[s] = label /\ \A t \in Sessions \ {s} : pc'[t] = pc[t]
  BY <1>4, <1>5, Moves DEF IInv
<1>7. runLevel' \in [Sessions -> RunLevels \cup {None}]
  BY <1>2, <1>3 DEF Enter, Copied, IInv, TypeOK
<1>8. /\ docker' \in {"absent", "stopped", "running", "removed"}
      /\ docker' # "running" => docker # "running"
      /\ CallWorks \/ CallFails
  BY DEF Enter, Errs, IInv, TypeOK
<1>9. Grows /\ faults' \in Nat
  BY <1>1, <1>6, <1>8, FaultsGrow DEF Grows, IInv
<1>10. \/ UNCHANGED <<started, cancel, listener>>
       \/ /\ started' = [started EXCEPT ![o] = TRUE]
          /\ SetListener(o, config[o], s)
  BY DEF Enter
<1>11. /\ started' \in [Sessions -> BOOLEAN]
       /\ \A q \in Sessions : started'[q] => started[q] \/ q = o
  BY <1>2, <1>10 DEF IInv, TypeOK
<1>12. /\ listener' \in [Listeners -> ListenerState]
       /\ cancel' \in [Sessions -> Listeners \cup {None}]
       /\ ListenersAreSet' /\ OneListener' /\ StopIsExplained' /\ EndsAreExplained'
       /\ \A m \in Listeners : listener'[m].at \in {"exec", "tail"} =>
             /\ listener[m].at = listener'[m].at /\ listener[m].pid = listener'[m].pid
             /\ listener[m].process = listener'[m].process
  <2>1. CASE UNCHANGED <<started, cancel, listener>>
    <3>1. ListenersAreSet' /\ OneListener' /\ StopIsExplained' /\ EndsAreExplained'
      BY <1>1, <1>9, <2>1, ListenersStay
    <3> QED BY <2>1, <3>1 DEF IInv, TypeOK
  <2>2. CASE SetListener(o, config[o], s)
    <3> DEFINE conf == config[o]
    <3>1. config'[o] # None
      BY <1>1, <1>2, NoneIsNothing
    <3>2. conf \in Config /\ SetListener(o, conf, s)
      BY <1>2, <2>2
    <3> HIDE DEF conf, o
    <3> QED BY <1>1, <1>2, <1>9, <3>1, <3>2, SetKeeps
  <2> QED BY <1>10, <2>1, <2>2
<1>13. TypeOK'
  BY <1>1, <1>6, <1>7, <1>8, <1>9, <1>11, <1>12 DEF IInv, TypeOK
<1>14. ObjectsAreLoaded'
  BY <1>1, <1>2, <1>6, <1>11, NoneIsNothing DEF IInv, ObjectsAreLoaded
<1>15. WaitsForProcess'
  BY <1>1, <1>8, <1>12 DEF IInv, WaitsForProcess, Waiting
<1> QED BY <1>12, <1>13, <1>14, <1>15 DEF IInv

\* A request that changes the configuration keeps the invariant.
LEMMA ChangeConfigKeeps ==
    ASSUME IInv, NEW o \in Sessions, NEW conf \in Changes, ChangeConfig(o, conf)
    PROVE  IInv'
<1>1. /\ requests' = requests + 1 /\ settings' = conf
      /\ config' = [config EXCEPT ![o] = conf]
      /\ UNCHANGED <<docker, process, stream, reason, registered, started, pc, object,
                     runLevel, left, faults>>
  BY DEF ChangeConfig, sessionVars
<1>2. conf \in Config /\ conf # None
  BY ProfilesAreConfigs, NoneIsNothing
<1>3. /\ config' \in [Sessions -> Config \cup {None}] /\ config'[o] = conf
      /\ \A q \in Sessions : config[q] # None => config'[q] # None
  BY <1>1, <1>2 DEF IInv, TypeOK
<1>4. Grows /\ faults' \in Nat
  BY <1>1 DEF Grows, IInv, TypeOK
<1>5. /\ listener' \in [Listeners -> ListenerState]
      /\ cancel' \in [Sessions -> Listeners \cup {None}]
      /\ ListenersAreSet' /\ OneListener' /\ StopIsExplained' /\ EndsAreExplained'
      /\ \A m \in Listeners : listener'[m].at \in {"exec", "tail"} =>
            /\ listener[m].at = listener'[m].at /\ listener[m].pid = listener'[m].pid
            /\ listener[m].process = listener'[m].process
  <2>1. CASE UNCHANGED <<cancel, listener>>
    <3>1. ListenersAreSet' /\ OneListener' /\ StopIsExplained' /\ EndsAreExplained'
      BY <1>3, <1>4, <2>1, ListenersStay
    <3> QED BY <2>1, <3>1 DEF IInv, TypeOK
  <2>2. CASE SetListener(o, conf, None)
    BY <1>2, <1>3, <1>4, <2>2, SetKeeps
  <2> QED BY <2>1, <2>2 DEF ChangeConfig
<1>6. TypeOK'
  BY <1>1, <1>2, <1>3, <1>4, <1>5 DEF IInv, TypeOK
<1>7. ObjectsAreLoaded'
  BY <1>1, <1>3 DEF IInv, ObjectsAreLoaded, TypeOK
<1>8. WaitsForProcess'
  BY <1>1, <1>5 DEF IInv, WaitsForProcess, Waiting
<1> QED BY <1>5, <1>6, <1>7, <1>8 DEF IInv

\* A process that starts keeps the invariant: its id is not that of one waited for.
LEMMA ProcessStartsKeeps ==
    ASSUME IInv, NEW p \in Processes, NEW id \in Pids, ProcessStarts(p, id)
    PROVE  IInv'
<1>1. /\ docker = "running" /\ process[p] = 0 /\ process' = [process EXCEPT ![p] = id]
      /\ UNCHANGED <<docker, settings, stream, reason, objectVars, sessionVars,
                     listener, requests, faults>>
  BY DEF ProcessStarts
<1>2. /\ process' \in [Processes -> Pids \cup {0}] /\ process'[p] = id
      /\ \A q \in Processes \ {p} : process'[q] = process[q]
  BY <1>1 DEF IInv, TypeOK
<1>3. Grows /\ faults' \in Nat
  BY <1>1 DEF Grows, IInv, TypeOK, sessionVars
<1>4. ListenersAreSet' /\ OneListener' /\ StopIsExplained' /\ EndsAreExplained'
  BY <1>1, <1>3, ListenersStay DEF objectVars
<1>5. TypeOK'
  BY <1>1, <1>2 DEF IInv, TypeOK, objectVars, sessionVars
<1>6. ObjectsAreLoaded'
  BY <1>1 DEF IInv, ObjectsAreLoaded, objectVars, sessionVars
<1>7. WaitsForProcess'
  <2> SUFFICES ASSUME NEW l \in Listeners, l \in Waiting, l \notin reason
               PROVE  listener[l].pid # 0 /\ process'[listener[l].process] = listener[l].pid
    BY <1>1 DEF WaitsForProcess, Waiting
  <2>1. listener[l].pid # 0 /\ process[listener[l].process] = listener[l].pid
    BY DEF IInv, WaitsForProcess
  <2>2. listener[l].process \in Processes \cup {None}
    BY DEF IInv, TypeOK, ListenerState
  <2>3. listener[l].process \in Processes
    BY <2>2 DEF IInv, ListenersAreSet, Waiting
  <2> QED BY <1>1, <1>2, <2>1, <2>3
<1> QED BY <1>4, <1>5, <1>6, <1>7 DEF IInv

\* A process that ends keeps the invariant: those that waited for it have a reason.
LEMMA ProcessEndsKeeps ==
    ASSUME IInv, NEW p \in Processes, ProcessEnds(p)
    PROVE  IInv'
<1>1. /\ process' = [process EXCEPT ![p] = 0]
      /\ reason' = reason \cup {l \in Waiting : listener[l].process = p}
      /\ UNCHANGED <<docker, settings, stream, objectVars, sessionVars,
                     listener, requests, faults>>
  BY DEF ProcessEnds
<1>2. /\ process' \in [Processes -> Pids \cup {0}] /\ process'[p] = 0
      /\ \A q \in Processes \ {p} : process'[q] = process[q]
  BY <1>1 DEF IInv, TypeOK
<1>3. Grows /\ faults' \in Nat /\ reason' \in SUBSET Listeners
  BY <1>1 DEF Grows, IInv, TypeOK, sessionVars, Waiting
<1>4. ListenersAreSet' /\ OneListener' /\ StopIsExplained' /\ EndsAreExplained'
  BY <1>1, <1>3, ListenersStay DEF objectVars
<1>5. TypeOK'
  BY <1>1, <1>2, <1>3 DEF IInv, TypeOK, objectVars, sessionVars
<1>6. ObjectsAreLoaded'
  BY <1>1 DEF IInv, ObjectsAreLoaded, objectVars, sessionVars
<1>7. WaitsForProcess'
  <2>1. docker' # "running" => \A q \in Processes : process'[q] = 0
    BY <1>1, <1>2 DEF IInv, WaitsForProcess
  <2> SUFFICES ASSUME NEW l \in Listeners, l \in Waiting, l \notin reason'
               PROVE  listener[l].pid # 0 /\ process'[listener[l].process] = listener[l].pid
    BY <1>1, <2>1 DEF WaitsForProcess, Waiting
  <2>2. listener[l].pid # 0 /\ process[listener[l].process] = listener[l].pid
    BY <1>1 DEF IInv, WaitsForProcess
  <2>3. listener[l].process # p
    BY <1>1
  <2>4. listener[l].process \in Processes \cup {None}
    BY DEF IInv, TypeOK, ListenerState
  <2>5. listener[l].process \in Processes
    BY <2>4 DEF IInv, ListenersAreSet, Waiting
  <2> QED BY <1>2, <2>2, <2>3, <2>5
<1> QED BY <1>4, <1>5, <1>6, <1>7 DEF IInv

-------------------------------------------------------------------------------
(* The theorems *)

\* At first no session has come and no listener is set.
LEMMA InitHolds == Init => IInv
<1> SUFFICES ASSUME Init PROVE IInv
  OBVIOUS
<1>1. \A l \in Listeners : listener[l] = Unset /\ listener[l].at = "unset"
  BY DEF Init, Unset
<1>2. Unset \in ListenerState
  BY DEF Unset, ListenerState
<1>3. TypeOK
  <2>1. listener \in [Listeners -> ListenerState]
    BY <1>2 DEF Init
  <2> QED BY <2>1 DEF Init, TypeOK
<1>4. ObjectsAreLoaded
  BY DEF Init, ObjectsAreLoaded
<1>5. ListenersAreSet
  BY <1>1 DEF Init, ListenersAreSet
<1>6. OneListener /\ WaitsForProcess
  BY <1>1 DEF Init, OneListener, Listening, WaitsForProcess, Waiting
<1>7. StopIsExplained /\ EndsAreExplained
  BY <1>1 DEF StopIsExplained, EndsAreExplained
<1> QED BY <1>3, <1>4, <1>5, <1>6, <1>7 DEF IInv

\* Every step keeps the invariant, and so does one that changes nothing.
LEMMA NextKeeps == IInv /\ [Next]_vars => IInv'
<1> SUFFICES ASSUME IInv, [Next]_vars PROVE IInv'
  OBVIOUS
<1>1. ASSUME NEW s \in Sessions, SessionStep(s) PROVE IInv'
  <2>1. CASE Enter(s)
    BY <2>1, EnterKeeps
  <2>2. CASE OpenTerminal(s)
    BY <2>2, OpenTerminalKeeps
  <2>3. CASE InputEnds(s) \/ OutputEnds(s)
    BY <2>3, CloseTerminalKeeps DEF InputEnds, OutputEnds
  <2>4. CASE Check(s)
    BY <2>4, CheckKeeps
  <2>5. CASE SessionStop(s)
    BY <2>5, SessionStopKeeps
  <2> QED BY <1>1, <2>1, <2>2, <2>3, <2>4, <2>5 DEF SessionStep
<1>2. ASSUME NEW l \in Listeners, ListenerStep(l) PROVE IInv'
  BY <1>2, FindKeeps, ExecKeeps, TailEndsKeeps, ListenerStopKeeps DEF ListenerStep
<1>3. ASSUME Environment PROVE IInv'
  <2>1. ASSUME NEW s \in Sessions, Login(s) \/ ClientLeaves(s) PROVE IInv'
    BY <2>1, LoginKeeps, ClientLeavesKeeps
  <2>2. ASSUME NEW o \in Sessions, NEW conf \in Changes, ChangeConfig(o, conf) PROVE IInv'
    BY <2>2, ChangeConfigKeeps
  <2>3. ASSUME NEW p \in Processes, ProcessEnds(p) PROVE IInv'
    BY <2>3, ProcessEndsKeeps
  <2>4. ASSUME NEW p \in Processes, NEW id \in Pids, ProcessStarts(p, id) PROVE IInv'
    BY <2>4, ProcessStartsKeeps
  <2> QED BY <1>3, <2>1, <2>2, <2>3, <2>4 DEF Environment
<1>4. CASE UNCHANGED vars
  <2>1. /\ UNCHANGED <<docker, process, settings, reason, objectVars, object, runLevel,
                       listener, requests>>
        /\ CallWorks /\ UNCHANGED <<pc, left, stream>>
    BY <1>4 DEF vars, dockerVars, sessionVars, CallWorks
  <2>2. /\ pc' \in [Sessions -> {"idle", "enter", "open", "attached", "check", "stop",
                                 "remove", "over"}]
        /\ left' \in SUBSET Sessions /\ stream' \in SUBSET Sessions
    BY <2>1 DEF IInv, TypeOK
  <2> QED BY <2>1, <2>2, QuietKeeps
<1> QED BY <1>1, <1>2, <1>3, <1>4 DEF Next

\* The invariant holds in every state of a run, from whatever configurations, requests and
\* failing calls (container.go:467-548, connection.go:17-121).
THEOREM Inductive == Spec => []IInv
BY InitHolds, NextKeeps, PTL DEF Spec

\* Every variable keeps its type.
THEOREM TypeCorrect == Spec => []TypeOK
<1>1. IInv => TypeOK
  BY DEF IInv
<1> QED BY <1>1, Inductive, PTL

\* An object has at most one listener that was not cancelled and still listens
\* (container.go:500-509).
THEOREM ListenersAreSingle == Spec => []OneListener
<1>1. IInv => OneListener
  BY DEF IInv
<1> QED BY <1>1, Inductive, PTL

\* A listener sets out to stop a container for a reason: an end it waited for, an id it
\* could not read, or its own cancelling (container.go:515-541).
THEOREM StopsAreExplained == Spec => []StopIsExplained
<1>1. IInv => StopIsExplained
  BY DEF IInv
<1> QED BY <1>1, Inductive, PTL

\* While a client is attached and no call has failed, the process that was configured is
\* listened for, or its listener has seen an end (container.go:396-399, :118-124).
THEOREM AttachedAreWatched == Spec => []AttachedIsWatched
<1>1. IInv => AttachedIsWatched
  <2> SUFFICES ASSUME IInv, NEW s \in Sessions, pc[s] = "attached", faults = 0,
                      cancel[object[s]] # None
               PROVE  \/ cancel[object[s]] \in Listening \cup reason
                      \/ Cancelled(cancel[object[s]])
    BY DEF AttachedIsWatched
  <2> DEFINE l == cancel[object[s]]
  <2>1. object[s] \in Sessions
    BY DEF IInv, TypeOK, ObjectsAreLoaded
  <2>2. l \in Listeners /\ listener[l].at # "unset"
    BY <2>1 DEF IInv, TypeOK, ListenersAreSet
  <2>3. listener[l].at \in {"unset", "find", "exec", "tail", "cut", "stop", "remove", "over"}
    BY <2>2 DEF IInv, TypeOK, ListenerState
  <2>4. CASE listener[l].at \in {"find", "exec", "tail"}
    BY <2>2, <2>4 DEF Listening
  <2>5. CASE listener[l].at \in {"cut", "stop", "remove", "over"}
    <3> HIDE DEF l
    <3>1. l \in reason \/ Cancelled(l)
      BY <2>2, <2>5 DEF IInv, StopIsExplained, EndsAreExplained
    <3> QED BY <3>1 DEF l
  <2> QED BY <2>2, <2>3, <2>4, <2>5
<1> QED BY <1>1, Inductive, PTL
===============================================================================
