--------------------------- MODULE ReconfigureProofs ---------------------------
(***************************************************************************)
(* What Reconfigure promises whatever overlaps, fails or crashes, proved   *)
(* for every set of requests, bodies and profiles: each field of the       *)
(* configuration has a value that was asked for, a container that is to be *)
(* kept is not removed, and one whose keeping was answered can be reached. *)
(***************************************************************************)
EXTENDS Reconfigure, TLAPS

\* A goroutine at work, and an address, have an object to go with them.
MemoryIsLoaded ==
    /\ config = Nil =>
           /\ ~registered /\ address = Nil
           /\ \A w \in Workers : pc[w] \in {"idle"} \cup Answers
    /\ \A r \in Requests : pc[r] # "in"

\* An update under way carries asked values only, a request's own among them.
UpdatesAreAsked ==
    /\ \A w \in Workers : pc[w] \in Updating =>
           new[w] # Nil /\ \A f \in Fields : new[w][f] \in Asked(f)
    /\ \A r \in Requests :
           /\ pc[r] = "idle" => DOMAIN body[r] = {}
           /\ pc[r] \in Updating => \A f \in DOMAIN body[r] : new[r][f] = body[r][f]

\* Only a mode that has a network is joined.
JoinsNetworks ==
    \A w \in Workers : pc[w] = "join" => Network(new[w].networkMode) # ""

\* A removal was asked for when Stop decided on it, and rows go after it.
RemovalIsAsked ==
    /\ docker = "removed" \/ pc[Session] = "remove" => FALSE \in Asked("keepOnExit")
    /\ pc[Session] \in {"deleteAuth", "deleteSettings"} => docker = "removed"

\* Before the answer, the auth row is there.
KeptHasAuth ==
    \A r \in Requests :
        pc[r] = "finish" /\ new[r].keepOnExit /\ docker # "removed" => auth

IInv == /\ TypeOK /\ MemoryIsLoaded /\ UpdatesAreAsked /\ JoinsNetworks /\ ConfigWasAsked
        /\ RemovalIsAsked /\ KeptHasAuth /\ KeptCanReturn

-------------------------------------------------------------------------------
(* Lemmas about the helpers of the actions *)

USE DEF Goto, Workers, world, object, bounds

\* Goto moves one worker, and no other.
LEMMA Moves ==
    ASSUME TypeOK, NEW w \in Workers, NEW label \in Labels, Goto(w, label)
    PROVE  /\ pc' \in [Workers -> Labels] /\ pc'[w] = label
           /\ \A v \in Workers \ {w} : pc'[v] = pc[v]
BY DEF TypeOK

\* What was asked for changes with the profile and the bodies only.
LEMMA AskedStays ==
    ASSUME UNCHANGED <<profile, body>>
    PROVE  \A f : Asked(f)' = Asked(f)
BY DEF Asked

\* A configuration is not Nil, and has its flags.
LEMMA ConfigIs ==
    ASSUME NEW c \in Config
    PROVE  c # Nil /\ c["keepOnExit"] \in BOOLEAN /\ c["configurable"] \in BOOLEAN
BY NilIsNothing DEF Config

\* A step that starts something leaves a truth value in clean.
LEMMA CleanIs ==
    ASSUME TypeOK, NEW w \in Workers, NEW label, Starts(w, label)
    PROVE  clean' \in BOOLEAN
BY DEF TypeOK, Starts

\* When the memory is lost every worker is at rest, and requests at work are killed.
LEMMA MemoryLost ==
    ASSUME IInv, LoseMemory
    PROVE  /\ pc' \in [Workers -> Labels] /\ clean' \in BOOLEAN
           /\ \A w \in Workers : pc'[w] \in {"idle"} \cup Answers
           /\ \A r \in Requests : pc'[r] \in {pc[r], "killed"}
           /\ pc'[Session] = "idle"
BY SessionIsNoRequest
   DEF IInv, TypeOK, MemoryIsLoaded, LoseMemory, Busy, Labels, AtRest, Answers, Updating

-------------------------------------------------------------------------------
(* Each action keeps the invariant *)

\* Login keeps the invariant.
LEMMA LoginKeeps ==
    ASSUME IInv, Login
    PROVE  IInv'
<1> USE SessionIsNoRequest DEF IInv, Login, Starts
<1>1. TypeOK'
  <2>1. pc' \in [Workers -> Labels]
    BY Moves DEF Labels, AtRest, Answers, Updating
  <2>2. clean' \in BOOLEAN
    <3>1. clean \in BOOLEAN
      BY DEF TypeOK
    <3>2. clean' = (clean /\ \A v \in Workers \ {Session} : ~Busy(v))
      OBVIOUS
    <3> QED BY <3>1, <3>2
  <2>3. visits' \in Nat
    BY DEF TypeOK
  <2>4. joined' \subseteq Networks
    BY DEF TypeOK
  <2>5. config' \in Config \cup {Nil} /\ address' \in Networks \cup {Nil}
    BY DEF TypeOK
  <2> QED BY <2>1, <2>2, <2>3, <2>4, <2>5 DEF TypeOK
<1>2. MemoryIsLoaded'
  BY NilIsNothing, ConfigIs DEF TypeOK, MemoryIsLoaded, Labels, AtRest, Answers, Updating
<1>3. UpdatesAreAsked'
  BY AskedStays, ConfigIs DEF TypeOK, UpdatesAreAsked, Updating, Answers
<1>4. JoinsNetworks'
  BY DEF TypeOK, JoinsNetworks, Answers
<1>5. ConfigWasAsked'
  BY AskedStays DEF TypeOK, ConfigWasAsked
<1>6. RemovalIsAsked'
  BY AskedStays DEF TypeOK, RemovalIsAsked, Answers
<1>7. KeptHasAuth'
  BY DEF TypeOK, KeptHasAuth, Answers
<1>8. KeptCanReturn'
  BY DEF TypeOK, KeptCanReturn
<1> QED BY <1>1, <1>2, <1>3, <1>4, <1>5, <1>6, <1>7, <1>8

\* Start keeps the invariant.
LEMMA StartKeeps ==
    ASSUME IInv, Start
    PROVE  IInv'
<1> USE SessionIsNoRequest DEF IInv, Start, Errs, CallFails, Fails
<1>1. TypeOK'
  <2>1. pc' \in [Workers -> Labels]
    BY Moves DEF Labels, AtRest, Answers, Updating
  <2>2. faults' \in Nat
    BY DEF TypeOK
  <2>3. clean' \in BOOLEAN
    BY DEF TypeOK, Busy
  <2>4. config \in Config
    BY DEF TypeOK, MemoryIsLoaded, Answers
  <2>5. new' \in [Workers -> Config \cup {Nil}]
    BY <2>4 DEF TypeOK
  <2>6. old' \in [Workers -> Config \cup {Nil}]
    <3>1. [config EXCEPT !.networkMode = "Invalid", !.configurable = ~@] \in Config
      BY <2>4 DEF Config
    <3> QED BY <3>1 DEF TypeOK
  <2> QED BY <2>1, <2>2, <2>3, <2>4, <2>5, <2>6 DEF TypeOK
<1>2. MemoryIsLoaded'
  BY NilIsNothing, ConfigIs DEF TypeOK, MemoryIsLoaded, Labels, AtRest, Answers, Updating
<1>3. UpdatesAreAsked'
  BY <1>1, AskedStays, ConfigIs
     DEF TypeOK, UpdatesAreAsked, MemoryIsLoaded, ConfigWasAsked, Updating, Answers
<1>4. JoinsNetworks'
  BY DEF TypeOK, JoinsNetworks, Answers
<1>5. ConfigWasAsked'
  BY AskedStays DEF TypeOK, ConfigWasAsked
<1>6. RemovalIsAsked'
  BY AskedStays DEF TypeOK, RemovalIsAsked, Answers
<1>7. KeptHasAuth'
  BY DEF TypeOK, KeptHasAuth, Answers
<1>8. KeptCanReturn'
  BY DEF TypeOK, KeptCanReturn
<1> QED BY <1>1, <1>2, <1>3, <1>4, <1>5, <1>6, <1>7, <1>8

\* Enter keeps the invariant.
LEMMA EnterKeeps ==
    ASSUME IInv, Enter
    PROVE  IInv'
<1> USE SessionIsNoRequest DEF IInv, Enter
<1>1. TypeOK'
  <2>1. pc' \in [Workers -> Labels]
    BY Moves DEF Labels, AtRest, Answers, Updating
  <2>2. config \in Config
    BY DEF TypeOK, MemoryIsLoaded, Answers
  <2>3. level' \in RunLevels \cup {"Invalid", Nil}
    BY <2>2 DEF Config
  <2> QED BY <2>1, <2>2, <2>3 DEF TypeOK
<1>2. MemoryIsLoaded'
  BY NilIsNothing, ConfigIs DEF TypeOK, MemoryIsLoaded, Labels, AtRest, Answers, Updating
<1>3. UpdatesAreAsked'
  BY AskedStays, ConfigIs DEF TypeOK, UpdatesAreAsked, Updating, Answers
<1>4. JoinsNetworks'
  BY DEF TypeOK, JoinsNetworks, Answers
<1>5. ConfigWasAsked'
  BY AskedStays DEF TypeOK, ConfigWasAsked
<1>6. RemovalIsAsked'
  BY AskedStays DEF TypeOK, RemovalIsAsked, Answers
<1>7. KeptHasAuth'
  BY DEF TypeOK, KeptHasAuth, Answers
<1>8. KeptCanReturn'
  BY DEF TypeOK, KeptCanReturn
<1> QED BY <1>1, <1>2, <1>3, <1>4, <1>5, <1>6, <1>7, <1>8

\* Leave keeps the invariant.
LEMMA LeaveKeeps ==
    ASSUME IInv, Leave
    PROVE  IInv'
<1> USE SessionIsNoRequest DEF IInv, Leave, Starts
<1>1. TypeOK'
  <2>1. pc' \in [Workers -> Labels]
    BY Moves DEF Labels, AtRest, Answers, Updating
  <2>2. clean' \in BOOLEAN
    BY DEF TypeOK, Busy
  <2> QED BY <2>1, <2>2 DEF TypeOK
<1>2. MemoryIsLoaded'
  BY NilIsNothing, ConfigIs DEF TypeOK, MemoryIsLoaded, Labels, AtRest, Answers, Updating
<1>3. UpdatesAreAsked'
  BY AskedStays, ConfigIs DEF TypeOK, UpdatesAreAsked, Updating, Answers
<1>4. JoinsNetworks'
  BY DEF TypeOK, JoinsNetworks, Answers
<1>5. ConfigWasAsked'
  BY AskedStays DEF TypeOK, ConfigWasAsked
<1>6. RemovalIsAsked'
  BY AskedStays DEF TypeOK, RemovalIsAsked, Answers
<1>7. KeptHasAuth'
  BY DEF TypeOK, KeptHasAuth, Answers
<1>8. KeptCanReturn'
  BY DEF TypeOK, KeptCanReturn
<1> QED BY <1>1, <1>2, <1>3, <1>4, <1>5, <1>6, <1>7, <1>8

\* Halt keeps the invariant.
LEMMA HaltKeeps ==
    ASSUME IInv, Halt
    PROVE  IInv'
<1> USE SessionIsNoRequest DEF IInv, Halt, Errs, CallFails, Fails, Unregister
<1>1. TypeOK'
  <2>1. pc' \in [Workers -> Labels]
    BY Moves DEF Labels, AtRest, Answers, Updating
  <2>2. faults' \in Nat
    BY DEF TypeOK
  <2>3. clean' \in BOOLEAN
    BY DEF TypeOK, Busy
  <2> QED BY <2>1, <2>2, <2>3 DEF TypeOK
<1>2. MemoryIsLoaded'
  BY NilIsNothing, ConfigIs DEF TypeOK, MemoryIsLoaded, Labels, AtRest, Answers, Updating
<1>3. UpdatesAreAsked'
  BY AskedStays, ConfigIs DEF TypeOK, UpdatesAreAsked, Updating, Answers
<1>4. JoinsNetworks'
  BY DEF TypeOK, JoinsNetworks, Answers
<1>5. ConfigWasAsked'
  BY AskedStays DEF TypeOK, ConfigWasAsked
<1>6. RemovalIsAsked'
  BY AskedStays, ConfigIs
     DEF TypeOK, MemoryIsLoaded, ConfigWasAsked, RemovalIsAsked, Answers, Fields
<1>7. KeptHasAuth'
  BY DEF TypeOK, KeptHasAuth, Answers
<1>8. KeptCanReturn'
  BY DEF TypeOK, KeptCanReturn
<1> QED BY <1>1, <1>2, <1>3, <1>4, <1>5, <1>6, <1>7, <1>8

\* Remove keeps the invariant.
LEMMA RemoveKeeps ==
    ASSUME IInv, Remove
    PROVE  IInv'
<1> USE SessionIsNoRequest DEF IInv, Remove, CallFails, Fails
<1>1. TypeOK'
  <2>1. pc' \in [Workers -> Labels]
    BY Moves DEF Labels, AtRest, Answers, Updating
  <2>2. faults' \in Nat
    BY DEF TypeOK
  <2>3. clean' \in BOOLEAN
    BY DEF TypeOK, Busy
  <2> QED BY <2>1, <2>2, <2>3 DEF TypeOK
<1>2. MemoryIsLoaded'
  BY NilIsNothing, ConfigIs DEF TypeOK, MemoryIsLoaded, Labels, AtRest, Answers, Updating
<1>3. UpdatesAreAsked'
  BY AskedStays, ConfigIs DEF TypeOK, UpdatesAreAsked, Updating, Answers
<1>4. JoinsNetworks'
  BY DEF TypeOK, JoinsNetworks, Answers
<1>5. ConfigWasAsked'
  BY AskedStays DEF TypeOK, ConfigWasAsked
<1>6. RemovalIsAsked'
  BY AskedStays DEF TypeOK, RemovalIsAsked, Answers
<1>7. KeptHasAuth'
  BY DEF TypeOK, KeptHasAuth, Answers
<1>8. KeptCanReturn'
  BY DEF TypeOK, KeptCanReturn
<1> QED BY <1>1, <1>2, <1>3, <1>4, <1>5, <1>6, <1>7, <1>8

\* DeleteAuth keeps the invariant.
LEMMA DeleteAuthKeeps ==
    ASSUME IInv, DeleteAuth
    PROVE  IInv'
<1> USE SessionIsNoRequest DEF IInv, DeleteAuth, CallFails, Fails
<1>1. TypeOK'
  <2>1. pc' \in [Workers -> Labels]
    BY Moves DEF Labels, AtRest, Answers, Updating
  <2>2. faults' \in Nat
    BY DEF TypeOK
  <2>3. clean' \in BOOLEAN
    BY DEF TypeOK, Busy
  <2>4. /\ profile' \in Profiles /\ body' \in [Requests -> Bodies \cup {<< >>}]
        /\ old' \in [Workers -> Config \cup {Nil}] /\ new' \in [Workers -> Config \cup {Nil}]
    BY DEF TypeOK
  <2>5. /\ docker' \in {"stopped", "running", "removed"} /\ row' \in Config \cup {Nil}
        /\ outages' \in Nat /\ visits' \in Nat
    BY DEF TypeOK
  <2> QED BY <2>1, <2>2, <2>3, <2>4, <2>5 DEF TypeOK
<1>2. MemoryIsLoaded'
  BY NilIsNothing, ConfigIs DEF TypeOK, MemoryIsLoaded, Labels, AtRest, Answers, Updating
<1>3. UpdatesAreAsked'
  BY AskedStays, ConfigIs DEF TypeOK, UpdatesAreAsked, Updating, Answers
<1>4. JoinsNetworks'
  BY DEF TypeOK, JoinsNetworks, Answers
<1>5. ConfigWasAsked'
  BY AskedStays DEF TypeOK, ConfigWasAsked
<1>6. RemovalIsAsked'
  BY AskedStays DEF TypeOK, RemovalIsAsked, Answers
<1>7. KeptHasAuth'
  BY DEF TypeOK, RemovalIsAsked, KeptHasAuth, Answers
<1>8. KeptCanReturn'
  BY DEF TypeOK, RemovalIsAsked, KeptCanReturn
<1> QED BY <1>1, <1>2, <1>3, <1>4, <1>5, <1>6, <1>7, <1>8

\* DeleteSettings keeps the invariant.
LEMMA DeleteSettingsKeeps ==
    ASSUME IInv, DeleteSettings
    PROVE  IInv'
<1> USE SessionIsNoRequest DEF IInv, DeleteSettings, CallFails, Fails, Unregister
<1>1. TypeOK'
  <2>1. pc' \in [Workers -> Labels]
    BY Moves DEF Labels, AtRest, Answers, Updating
  <2>2. faults' \in Nat
    BY DEF TypeOK
  <2>3. clean' \in BOOLEAN
    BY DEF TypeOK, Busy
  <2> QED BY <2>1, <2>2, <2>3 DEF TypeOK
<1>2. MemoryIsLoaded'
  BY NilIsNothing, ConfigIs DEF TypeOK, MemoryIsLoaded, Labels, AtRest, Answers, Updating
<1>3. UpdatesAreAsked'
  BY AskedStays, ConfigIs DEF TypeOK, UpdatesAreAsked, Updating, Answers
<1>4. JoinsNetworks'
  BY DEF TypeOK, JoinsNetworks, Answers
<1>5. ConfigWasAsked'
  BY AskedStays DEF TypeOK, RemovalIsAsked, ConfigWasAsked
<1>6. RemovalIsAsked'
  BY AskedStays DEF TypeOK, RemovalIsAsked, Answers
<1>7. KeptHasAuth'
  BY DEF TypeOK, KeptHasAuth, Answers
<1>8. KeptCanReturn'
  BY DEF TypeOK, KeptCanReturn
<1> QED BY <1>1, <1>2, <1>3, <1>4, <1>5, <1>6, <1>7, <1>8

\* Refuse keeps the invariant.
LEMMA RefuseKeeps ==
    ASSUME IInv, NEW r \in Requests, Refuse(r)
    PROVE  IInv'
<1> USE SessionIsNoRequest DEF IInv, Refuse
<1>1. TypeOK'
  <2>1. pc' \in [Workers -> Labels]
    BY Moves DEF Labels, AtRest, Answers, Updating
  <2> QED BY <2>1 DEF TypeOK
<1>2. MemoryIsLoaded'
  BY NilIsNothing, ConfigIs DEF TypeOK, MemoryIsLoaded, Labels, AtRest, Answers, Updating
<1>3. UpdatesAreAsked'
  BY AskedStays, ConfigIs DEF TypeOK, UpdatesAreAsked, Updating, Answers
<1>4. JoinsNetworks'
  BY DEF TypeOK, JoinsNetworks, Answers
<1>5. ConfigWasAsked'
  BY AskedStays DEF TypeOK, ConfigWasAsked
<1>6. RemovalIsAsked'
  BY AskedStays DEF TypeOK, RemovalIsAsked, Answers
<1>7. KeptHasAuth'
  BY DEF TypeOK, KeptHasAuth, Answers
<1>8. KeptCanReturn'
  BY DEF TypeOK, KeptCanReturn
<1> QED BY <1>1, <1>2, <1>3, <1>4, <1>5, <1>6, <1>7, <1>8

\* Update keeps the invariant.
LEMMA UpdateKeeps ==
    ASSUME IInv, NEW r \in Requests, Update(r)
    PROVE  IInv'
<1> USE SessionIsNoRequest DEF IInv, Update
<1>1. TypeOK'
  <2>1. pc' \in [Workers -> Labels]
    BY Moves DEF Labels, AtRest, Answers, Updating
  <2>2. config \in Config
    BY DEF TypeOK, MemoryIsLoaded, Answers
  <2>3. old' \in [Workers -> Config \cup {Nil}]
    BY <2>2 DEF TypeOK
  <2> QED BY <2>1, <2>2, <2>3 DEF TypeOK
<1>2. MemoryIsLoaded'
  BY NilIsNothing, ConfigIs DEF TypeOK, MemoryIsLoaded, Labels, AtRest, Answers, Updating
<1>3. UpdatesAreAsked'
  BY AskedStays, ConfigIs DEF TypeOK, UpdatesAreAsked, Updating, Answers
<1>4. JoinsNetworks'
  BY DEF TypeOK, JoinsNetworks, Answers
<1>5. ConfigWasAsked'
  BY AskedStays DEF TypeOK, ConfigWasAsked
<1>6. RemovalIsAsked'
  BY AskedStays DEF TypeOK, RemovalIsAsked, Answers
<1>7. KeptHasAuth'
  BY DEF TypeOK, KeptHasAuth, Answers
<1>8. KeptCanReturn'
  BY DEF TypeOK, KeptCanReturn
<1> QED BY <1>1, <1>2, <1>3, <1>4, <1>5, <1>6, <1>7, <1>8

\* LeaveNetwork keeps the invariant.
LEMMA LeaveNetworkKeeps ==
    ASSUME IInv, NEW w \in Workers, LeaveNetwork(w)
    PROVE  IInv'
<1> DEFINE mode == new[w].networkMode
<1>1. /\ pc[w] = "leave" /\ joined' \subseteq joined
      /\ UNCHANGED <<profile, docker, tool, row, auth, object, old, new, level, body,
                     bounds, clean>>
  BY DEF LeaveNetwork
<1>2. PICK label \in {"join", "inspect"} :
          Goto(w, label) /\ (label = "join" => Network(mode) # "")
  BY DEF LeaveNetwork
<1> USE SessionIsNoRequest, <1>1, <1>2 DEF IInv
<1>3. TypeOK'
  <2>1. pc \in [Workers -> Labels] /\ label \in Labels
    BY DEF TypeOK, Labels, Updating
  <2>2. pc' = [pc EXCEPT ![w] = label]
    BY <1>2
  <2>3. pc' \in [Workers -> Labels]
    <3> HIDE DEF IInv
    <3> QED BY ONLY <2>1, <2>2
  <2>4. joined' \subseteq Networks
    BY DEF TypeOK
  <2>5. clean' \in BOOLEAN
    BY Zenon DEF TypeOK
  <2>6. /\ profile' \in Profiles /\ body' \in [Requests -> Bodies \cup {<< >>}]
        /\ old' \in [Workers -> Config \cup {Nil}] /\ new' \in [Workers -> Config \cup {Nil}]
    BY DEF TypeOK
  <2>7. /\ docker' \in {"stopped", "running", "removed"} /\ row' \in Config \cup {Nil}
        /\ outages' \in Nat /\ visits' \in Nat
    BY DEF TypeOK
  <2> QED BY <2>3, <2>4, <2>5, <2>6, <2>7 DEF TypeOK
<1>4. MemoryIsLoaded'
  BY DEF TypeOK, MemoryIsLoaded, Answers
<1>5. UpdatesAreAsked'
  <2>1. \A v \in Workers : pc'[v] \in Updating => pc[v] \in Updating
    BY DEF TypeOK, Updating
  <2>2. \A r \in Requests : pc'[r] = "idle" => pc[r] = "idle"
    BY DEF TypeOK
  <2> QED BY <2>1, <2>2, AskedStays DEF UpdatesAreAsked
<1>6. JoinsNetworks'
  BY DEF TypeOK, JoinsNetworks
<1>7. ConfigWasAsked'
  BY AskedStays DEF ConfigWasAsked
<1>8. RemovalIsAsked'
  BY AskedStays DEF TypeOK, RemovalIsAsked
<1>9. KeptHasAuth'
  BY DEF TypeOK, KeptHasAuth
<1>10. KeptCanReturn'
  BY DEF TypeOK, KeptCanReturn
<1> QED BY <1>3, <1>4, <1>5, <1>6, <1>7, <1>8, <1>9, <1>10

\* JoinNetwork keeps the invariant.
LEMMA JoinNetworkKeeps ==
    ASSUME IInv, NEW w \in Workers, JoinNetwork(w)
    PROVE  IInv'
<1> USE SessionIsNoRequest DEF IInv, JoinNetwork, Errs, CallFails, Fails
<1>1. TypeOK'
  <2>1. pc' \in [Workers -> Labels]
    BY Moves DEF Labels, AtRest, Answers, Updating
  <2>2. faults' \in Nat
    BY DEF TypeOK
  <2>3. clean' \in BOOLEAN
    BY DEF TypeOK, Busy
  <2>4. joined' \subseteq Networks
    BY DEF TypeOK, JoinsNetworks, Network, Networks
  <2> QED BY <2>1, <2>2, <2>3, <2>4 DEF TypeOK
<1>2. MemoryIsLoaded'
  BY NilIsNothing, ConfigIs DEF TypeOK, MemoryIsLoaded, Labels, AtRest, Answers, Updating
<1>3. UpdatesAreAsked'
  BY AskedStays, ConfigIs DEF TypeOK, UpdatesAreAsked, Updating, Answers
<1>4. JoinsNetworks'
  BY DEF TypeOK, JoinsNetworks, Answers
<1>5. ConfigWasAsked'
  BY AskedStays DEF TypeOK, ConfigWasAsked
<1>6. RemovalIsAsked'
  BY AskedStays DEF TypeOK, RemovalIsAsked, Answers
<1>7. KeptHasAuth'
  BY DEF TypeOK, KeptHasAuth, Answers
<1>8. KeptCanReturn'
  BY DEF TypeOK, KeptCanReturn
<1> QED BY <1>1, <1>2, <1>3, <1>4, <1>5, <1>6, <1>7, <1>8

\* ReadAddress keeps the invariant.
LEMMA ReadAddressKeeps ==
    ASSUME IInv, NEW w \in Workers, ReadAddress(w)
    PROVE  IInv'
<1> USE SessionIsNoRequest
    DEF IInv, ReadAddress, Errs, CallFails, Fails, Panics, LoseMemory
<1>1. TypeOK'
  <2>1. pc' \in [Workers -> Labels]
    BY Moves, MemoryLost DEF Labels, AtRest, Answers, Updating
  <2>2. faults' \in Nat
    BY DEF TypeOK
  <2>3. clean' \in BOOLEAN
    BY DEF TypeOK, Busy
  <2>4. /\ profile' \in Profiles /\ body' \in [Requests -> Bodies \cup {<< >>}]
        /\ old' \in [Workers -> Config \cup {Nil}] /\ new' \in [Workers -> Config \cup {Nil}]
    BY DEF TypeOK
  <2>5. /\ docker' \in {"stopped", "running", "removed"} /\ row' \in Config \cup {Nil}
        /\ outages' \in Nat /\ visits' \in Nat
    BY DEF TypeOK
  <2> QED BY <2>1, <2>2, <2>3, <2>4, <2>5 DEF TypeOK
<1>2. MemoryIsLoaded'
  BY MemoryLost, NilIsNothing
     DEF TypeOK, MemoryIsLoaded, Labels, AtRest, Answers, Updating
<1>3. UpdatesAreAsked'
  BY AskedStays, ConfigIs DEF TypeOK, UpdatesAreAsked, Updating, Answers
<1>4. JoinsNetworks'
  BY DEF TypeOK, JoinsNetworks, Answers
<1>5. ConfigWasAsked'
  BY AskedStays DEF TypeOK, ConfigWasAsked
<1>6. RemovalIsAsked'
  BY AskedStays DEF TypeOK, RemovalIsAsked, Answers
<1>7. KeptHasAuth'
  BY DEF TypeOK, KeptHasAuth, Answers
<1>8. KeptCanReturn'
  BY DEF TypeOK, KeptCanReturn
<1> QED BY <1>1, <1>2, <1>3, <1>4, <1>5, <1>6, <1>7, <1>8

\* SetTool keeps the invariant.
LEMMA SetToolKeeps ==
    ASSUME IInv, NEW w \in Workers, SetTool(w)
    PROVE  IInv'
<1> USE SessionIsNoRequest
    DEF IInv, SetTool, Errs, CallFails, Fails, Panics, LoseMemory, CopyErrs, ExecErrs
<1>1. TypeOK'
  <2>1. pc' \in [Workers -> Labels]
    BY Moves, MemoryLost DEF Labels, AtRest, Answers, Updating
  <2>2. faults' \in Nat
    BY DEF TypeOK
  <2>3. clean' \in BOOLEAN
    BY DEF TypeOK, Busy
  <2>4. /\ profile' \in Profiles /\ body' \in [Requests -> Bodies \cup {<< >>}]
        /\ old' \in [Workers -> Config \cup {Nil}] /\ new' \in [Workers -> Config \cup {Nil}]
    BY DEF TypeOK
  <2>5. /\ docker' \in {"stopped", "running", "removed"} /\ row' \in Config \cup {Nil}
        /\ outages' \in Nat /\ visits' \in Nat
    BY DEF TypeOK
  <2> QED BY <2>1, <2>2, <2>3, <2>4, <2>5 DEF TypeOK
<1>2. MemoryIsLoaded'
  BY MemoryLost, NilIsNothing
     DEF TypeOK, MemoryIsLoaded, Labels, AtRest, Answers, Updating
<1>3. UpdatesAreAsked'
  BY AskedStays, ConfigIs DEF TypeOK, UpdatesAreAsked, Updating, Answers
<1>4. JoinsNetworks'
  <2>1. \A v \in Workers : pc'[v] = "join" => pc[v] = "join"
    BY DEF TypeOK, Answers
  <2> QED BY <2>1 DEF JoinsNetworks
<1>5. ConfigWasAsked'
  BY AskedStays DEF TypeOK, ConfigWasAsked
<1>6. RemovalIsAsked'
  BY AskedStays DEF TypeOK, RemovalIsAsked, Answers
<1>7. KeptHasAuth'
  BY DEF TypeOK, KeptHasAuth, Answers
<1>8. KeptCanReturn'
  BY DEF TypeOK, KeptCanReturn
<1> QED BY <1>1, <1>2, <1>3, <1>4, <1>5, <1>6, <1>7, <1>8

\* Assign keeps the invariant.
LEMMA AssignKeeps ==
    ASSUME IInv, NEW w \in Workers, Assign(w)
    PROVE  IInv'
<1> USE SessionIsNoRequest DEF IInv, Assign
<1>1. TypeOK'
  <2>1. pc' \in [Workers -> Labels]
    BY Moves DEF Labels, AtRest, Answers, Updating
  <2>2. new[w] \in Config
    BY DEF TypeOK, UpdatesAreAsked, Updating
  <2>3. /\ profile' \in Profiles /\ body' \in [Requests -> Bodies \cup {<< >>}]
        /\ old' \in [Workers -> Config \cup {Nil}] /\ new' \in [Workers -> Config \cup {Nil}]
    BY DEF TypeOK
  <2>4. /\ docker' \in {"stopped", "running", "removed"} /\ row' \in Config \cup {Nil}
        /\ outages' \in Nat /\ visits' \in Nat
    BY DEF TypeOK
  <2> QED BY <2>1, <2>2, <2>3, <2>4 DEF TypeOK
<1>2. MemoryIsLoaded'
  BY <1>1, NilIsNothing
     DEF TypeOK, MemoryIsLoaded, UpdatesAreAsked, Labels, AtRest, Answers, Updating
<1>3. UpdatesAreAsked'
  BY AskedStays, ConfigIs DEF TypeOK, UpdatesAreAsked, Updating, Answers
<1>4. JoinsNetworks'
  BY DEF TypeOK, JoinsNetworks, Answers
<1>5. ConfigWasAsked'
  BY AskedStays DEF TypeOK, ConfigWasAsked, UpdatesAreAsked, Updating
<1>6. RemovalIsAsked'
  BY AskedStays DEF TypeOK, RemovalIsAsked, Answers
<1>7. KeptHasAuth'
  BY DEF TypeOK, KeptHasAuth, Answers
<1>8. KeptCanReturn'
  BY DEF TypeOK, KeptCanReturn
<1> QED BY <1>1, <1>2, <1>3, <1>4, <1>5, <1>6, <1>7, <1>8

\* Store keeps the invariant.
LEMMA StoreKeeps ==
    ASSUME IInv, NEW r \in Requests, Store(r)
    PROVE  IInv'
<1> USE SessionIsNoRequest DEF IInv, Store, Errs, CallFails, Fails
<1>1. TypeOK'
  <2>1. pc' \in [Workers -> Labels]
    BY Moves DEF Labels, AtRest, Answers, Updating
  <2>2. faults' \in Nat
    BY DEF TypeOK
  <2>3. clean' \in BOOLEAN
    BY DEF TypeOK, Busy
  <2>4. row' \in Config \cup {Nil}
    <3>1. new[r] \in Config
      BY DEF TypeOK, UpdatesAreAsked, Updating
    <3>2. Defaults \in Config
      BY DEF Defaults, Config, Modes, RunLevels
    <3> QED BY <3>1, <3>2 DEF TypeOK, Config, Fields
  <2> QED BY <2>1, <2>2, <2>3, <2>4 DEF TypeOK
<1>2. MemoryIsLoaded'
  BY NilIsNothing, ConfigIs DEF TypeOK, MemoryIsLoaded, Labels, AtRest, Answers, Updating
<1>3. UpdatesAreAsked'
  BY AskedStays, ConfigIs DEF TypeOK, UpdatesAreAsked, Updating, Answers
<1>4. JoinsNetworks'
  BY DEF TypeOK, JoinsNetworks, Answers
<1>5. ConfigWasAsked'
  <2>1. CASE ~UNCHANGED row /\ docker # "removed"
    <3>0. row # Nil
      BY <2>1 DEF ConfigWasAsked
    <3>1. row' = [f \in Fields |-> IF f \in Changed(r) THEN new[r][f] ELSE row[f]]
      BY <2>1, <3>0
    <3>2. \A f \in Fields : f \in Changed(r) => new[r][f] \in Asked(f) /\ Valid(f, new[r][f])
      BY <2>1 DEF UpdatesAreAsked, Updating
    <3>3. \A f \in Fields : row[f] \in Asked(f) /\ Valid(f, row[f])
      BY <2>1 DEF ConfigWasAsked
    <3>4. row' \in Config
      BY <2>1, <3>0, <3>1 DEF TypeOK, UpdatesAreAsked, Updating, Config, Fields
    <3>5. \A f \in Fields : row'[f] \in Asked(f) /\ Valid(f, row'[f])
      BY <3>1, <3>2, <3>3
    <3> QED BY <3>4, <3>5, AskedStays, NilIsNothing DEF ConfigWasAsked, Valid
  <2>2. CASE UNCHANGED row \/ docker = "removed"
    BY <2>2, AskedStays DEF TypeOK, ConfigWasAsked
  <2> QED BY <2>1, <2>2
<1>6. RemovalIsAsked'
  BY AskedStays DEF TypeOK, RemovalIsAsked, Answers
<1>7. KeptHasAuth'
  BY DEF TypeOK, KeptHasAuth, Answers
<1>8. KeptCanReturn'
  BY DEF TypeOK, KeptCanReturn
<1> QED BY <1>1, <1>2, <1>3, <1>4, <1>5, <1>6, <1>7, <1>8

\* StoreAuth keeps the invariant.
LEMMA StoreAuthKeeps ==
    ASSUME IInv, NEW r \in Requests, StoreAuth(r)
    PROVE  IInv'
<1> USE SessionIsNoRequest DEF IInv, StoreAuth, CallFails, Fails
<1>1. TypeOK'
  <2>1. pc' \in [Workers -> Labels]
    BY Moves DEF Labels, AtRest, Answers, Updating
  <2>2. faults' \in Nat
    BY DEF TypeOK
  <2>3. clean' \in BOOLEAN
    BY DEF TypeOK, Busy
  <2>4. /\ profile' \in Profiles /\ body' \in [Requests -> Bodies \cup {<< >>}]
        /\ old' \in [Workers -> Config \cup {Nil}] /\ new' \in [Workers -> Config \cup {Nil}]
    BY DEF TypeOK
  <2>5. /\ docker' \in {"stopped", "running", "removed"} /\ row' \in Config \cup {Nil}
        /\ outages' \in Nat /\ visits' \in Nat
    BY DEF TypeOK
  <2> QED BY <2>1, <2>2, <2>3, <2>4, <2>5 DEF TypeOK
<1>2. MemoryIsLoaded'
  BY NilIsNothing, ConfigIs DEF TypeOK, MemoryIsLoaded, Labels, AtRest, Answers, Updating
<1>3. UpdatesAreAsked'
  BY AskedStays, ConfigIs DEF TypeOK, UpdatesAreAsked, Updating, Answers
<1>4. JoinsNetworks'
  BY DEF TypeOK, JoinsNetworks, Answers
<1>5. ConfigWasAsked'
  BY AskedStays DEF TypeOK, ConfigWasAsked
<1>6. RemovalIsAsked'
  BY AskedStays DEF TypeOK, RemovalIsAsked, Answers
<1>7. KeptHasAuth'
  BY DEF TypeOK, KeptHasAuth, Answers
<1>8. KeptCanReturn'
  BY DEF TypeOK, KeptCanReturn
<1> QED BY <1>1, <1>2, <1>3, <1>4, <1>5, <1>6, <1>7, <1>8

\* Finish keeps the invariant.
LEMMA FinishKeeps ==
    ASSUME IInv, NEW r \in Requests, Finish(r)
    PROVE  IInv'
<1> USE SessionIsNoRequest DEF IInv, Finish
<1>1. TypeOK'
  <2>1. pc' \in [Workers -> Labels]
    BY Moves DEF Labels, AtRest, Answers, Updating
  <2>2. new[r] \in Config
    BY DEF TypeOK, UpdatesAreAsked, Updating
  <2> QED BY <2>1, <2>2 DEF TypeOK
<1>2. MemoryIsLoaded'
  BY <1>1, NilIsNothing
     DEF TypeOK, MemoryIsLoaded, UpdatesAreAsked, Labels, AtRest, Answers, Updating
<1>3. UpdatesAreAsked'
  BY AskedStays, ConfigIs DEF TypeOK, UpdatesAreAsked, Updating, Answers
<1>4. JoinsNetworks'
  BY DEF TypeOK, JoinsNetworks, Answers
<1>5. ConfigWasAsked'
  BY AskedStays DEF TypeOK, ConfigWasAsked, UpdatesAreAsked, Updating
<1>6. RemovalIsAsked'
  BY AskedStays DEF TypeOK, RemovalIsAsked, Answers
<1>7. KeptHasAuth'
  BY DEF TypeOK, KeptHasAuth, Answers
<1>8. KeptCanReturn'
  BY DEF TypeOK, UpdatesAreAsked, Updating, KeptHasAuth, KeptCanReturn
<1> QED BY <1>1, <1>2, <1>3, <1>4, <1>5, <1>6, <1>7, <1>8

\* Kill keeps the invariant.
LEMMA KillKeeps ==
    ASSUME IInv, Kill
    PROVE  IInv'
<1> USE SessionIsNoRequest DEF Kill
<1>1. TypeOK'
  <2>1. outages' \in Nat
    BY DEF IInv, TypeOK
  <2> QED BY <2>1, MemoryLost DEF IInv, TypeOK, LoseMemory
<1>2. MemoryIsLoaded'
  BY MemoryLost DEF MemoryIsLoaded, LoseMemory, Answers
<1>3. UpdatesAreAsked'
  BY MemoryLost, AskedStays DEF IInv, UpdatesAreAsked, Updating, Answers
<1>4. JoinsNetworks'
  BY MemoryLost DEF IInv, JoinsNetworks, Answers
<1>5. ConfigWasAsked'
  BY AskedStays DEF IInv, LoseMemory, ConfigWasAsked
<1>6. RemovalIsAsked'
  BY MemoryLost, AskedStays DEF IInv, RemovalIsAsked
<1>7. KeptHasAuth'
  BY MemoryLost DEF IInv, KeptHasAuth
<1>8. KeptCanReturn'
  BY MemoryLost DEF IInv, KeptCanReturn
<1> QED BY <1>1, <1>2, <1>3, <1>4, <1>5, <1>6, <1>7, <1>8 DEF IInv

\* What was asked for before is asked for after Post: a request at rest asks nothing.
LEMMA PostAsksMore ==
    ASSUME IInv, NEW r \in Requests, NEW asked \in Bodies, Post(r, asked)
    PROVE  \A f : Asked(f) \subseteq Asked(f)' /\ (f \in DOMAIN asked => asked[f] \in Asked(f)')
<1>1. body' = [body EXCEPT ![r] = asked] /\ profile' = profile /\ DOMAIN body[r] = {}
  BY DEF IInv, UpdatesAreAsked, Post
<1>2. body'[r] = asked /\ \A q \in Requests \ {r} : body'[q] = body[q]
  BY <1>1 DEF IInv, TypeOK
<1> QED BY <1>1, <1>2 DEF Asked

\* A post has a configuration to work from, and what it makes of it is one.
LEMMA PostMakesConfig ==
    ASSUME IInv, NEW r \in Requests, NEW asked \in Bodies, Post(r, asked)
    PROVE  /\ config \in Config /\ new'[r] \in Config
           /\ new' = [new EXCEPT ![r] = new'[r]]
           /\ \A f \in Fields : new'[r][f] = IF f \in DOMAIN asked THEN asked[f] ELSE config[f]
<1>1. config \in Config
  BY NilIsNothing DEF IInv, TypeOK, MemoryIsLoaded, Post, Networks
<1>2. new'[r] = [f \in Fields |-> IF f \in DOMAIN asked THEN asked[f] ELSE config[f]]
  BY DEF IInv, TypeOK, Post
<1>3. new'[r] \in Config
  BY <1>1, <1>2, BodiesAskForFields DEF Config, Fields
<1> QED BY <1>1, <1>2, <1>3 DEF IInv, TypeOK, Post

\* Post keeps the invariant.
LEMMA PostKeeps ==
    ASSUME IInv, NEW r \in Requests, NEW asked \in Bodies, Post(r, asked)
    PROVE  IInv'
<1> DEFINE label == IF DOMAIN asked = {} THEN "ok" ELSE "update"
<1>1. pc[r] = "idle" /\ docker = "running" /\ pc' = [pc EXCEPT ![r] = label]
  BY DEF Post, Starts
<1>2. body' = [body EXCEPT ![r] = asked]
  BY DEF Post
<1>3. UNCHANGED <<profile, world, object, old, level, bounds>>
  BY DEF Post
<1>4. pc' \in [Workers -> Labels] /\ pc'[r] = label /\ \A v \in Workers \ {r} : pc'[v] = pc[v]
  BY <1>1 DEF IInv, TypeOK, Labels, AtRest, Answers, Updating
<1>5. /\ body' \in [Requests -> Bodies \cup {<< >>}] /\ body'[r] = asked
      /\ \A q \in Requests \ {r} : body'[q] = body[q]
  BY <1>2 DEF IInv, TypeOK
<1>6. /\ new' \in [Workers -> Config \cup {Nil}]
      /\ \A v \in Workers \ {r} : new'[v] = new[v]
  BY PostMakesConfig DEF IInv, TypeOK
<1>7. TypeOK'
  <2>1. clean \in BOOLEAN
    BY DEF IInv, TypeOK
  <2>2. clean' = (clean /\ \A v \in Workers \ {r} : ~Busy(v))
    BY DEF Post, Starts
  <2>3. clean' \in BOOLEAN
    BY <2>1, <2>2
  <2> QED BY <1>3, <1>4, <1>5, <1>6, <2>3 DEF IInv, TypeOK
<1>8. MemoryIsLoaded'
  BY <1>3, <1>4, PostMakesConfig, NilIsNothing DEF IInv, MemoryIsLoaded, Answers
<1>9. UpdatesAreAsked'
  <2>1. new'[r] # Nil /\ \A f \in Fields : new'[r][f] \in Asked(f)'
    BY PostMakesConfig, PostAsksMore, NilIsNothing DEF IInv, ConfigWasAsked
  <2>2. \A v \in Workers \ {r} : pc'[v] \in Updating =>
            new'[v] # Nil /\ \A f \in Fields : new'[v][f] \in Asked(f)'
    BY <1>4, <1>6, PostAsksMore DEF IInv, UpdatesAreAsked
  <2>3. \A f \in DOMAIN asked : new'[r][f] = asked[f]
    BY PostMakesConfig, BodiesAskForFields
  <2>4. \A q \in Requests \ {r} :
            /\ pc'[q] = "idle" => DOMAIN body'[q] = {}
            /\ pc'[q] \in Updating => \A f \in DOMAIN body'[q] : new'[q][f] = body'[q][f]
    BY <1>4, <1>5, <1>6 DEF IInv, UpdatesAreAsked
  <2> QED BY <1>4, <1>5, <2>1, <2>2, <2>3, <2>4 DEF UpdatesAreAsked
<1>10. JoinsNetworks'
  BY <1>4, <1>6 DEF IInv, JoinsNetworks
<1>11. ConfigWasAsked'
  BY <1>3, PostAsksMore DEF IInv, ConfigWasAsked
<1>12. RemovalIsAsked'
  BY <1>3, <1>4, SessionIsNoRequest, PostAsksMore DEF IInv, RemovalIsAsked
<1>13. KeptHasAuth'
  BY <1>3, <1>4, <1>6 DEF IInv, KeptHasAuth
<1>14. KeptCanReturn'
  BY <1>3, <1>4, <1>5 DEF IInv, KeptCanReturn
<1> QED BY <1>7, <1>8, <1>9, <1>10, <1>11, <1>12, <1>13, <1>14 DEF IInv

-------------------------------------------------------------------------------
(* The invariant, and what follows from it *)

\* The invariant holds at first.
LEMMA InitHasIt == Init => IInv
<1> SUFFICES ASSUME Init PROVE IInv
  OBVIOUS
<1> USE DEF Init
<1>1. profile \in Config /\ \A f \in Fields : Valid(f, profile[f])
  BY ProfilesAreValid
<1>2. TypeOK
  BY <1>1 DEF TypeOK, Labels, AtRest
<1>3. MemoryIsLoaded /\ JoinsNetworks /\ RemovalIsAsked /\ KeptHasAuth /\ KeptCanReturn
  BY <1>1, NilIsNothing
     DEF MemoryIsLoaded, JoinsNetworks, RemovalIsAsked, KeptHasAuth, KeptCanReturn
<1>4. UpdatesAreAsked
  BY DEF UpdatesAreAsked, Updating
<1>5. ConfigWasAsked
  BY <1>1, NilIsNothing DEF ConfigWasAsked, Asked
<1> QED BY <1>2, <1>3, <1>4, <1>5 DEF IInv

\* Every step keeps the invariant.
LEMMA NextKeepsIt == IInv /\ [Next]_vars => IInv'
<1> SUFFICES ASSUME IInv, [Next]_vars PROVE IInv'
  OBVIOUS
<1>1. CASE SessionStep
  BY <1>1, LoginKeeps, StartKeeps, EnterKeeps, LeaveKeeps, HaltKeeps, RemoveKeeps,
     DeleteAuthKeeps, DeleteSettingsKeeps
     DEF SessionStep
<1>2. CASE \E r \in Requests : RequestStep(r)
  BY <1>2, PostKeeps, RefuseKeeps, UpdateKeeps, StoreKeeps, StoreAuthKeeps, FinishKeeps
     DEF RequestStep
<1>3. CASE \E w \in Workers : UpdateConfig(w)
  BY <1>3, LeaveNetworkKeeps, JoinNetworkKeeps, ReadAddressKeeps, SetToolKeeps, AssignKeeps
     DEF UpdateConfig
<1>4. CASE Kill
  BY <1>4, KillKeeps
<1>5. CASE UNCHANGED vars
  <2> USE <1>5 DEF vars, IInv
  <2>1. TypeOK'
    BY DEF TypeOK
  <2>2. MemoryIsLoaded' /\ JoinsNetworks' /\ KeptHasAuth' /\ KeptCanReturn'
    BY DEF MemoryIsLoaded, JoinsNetworks, KeptHasAuth, KeptCanReturn
  <2>3. UpdatesAreAsked'
    BY AskedStays DEF UpdatesAreAsked
  <2>4. ConfigWasAsked' /\ RemovalIsAsked'
    BY AskedStays DEF ConfigWasAsked, RemovalIsAsked
  <2> QED BY <2>1, <2>2, <2>3, <2>4
<1> QED BY <1>1, <1>2, <1>3, <1>4, <1>5 DEF Next

\* The invariant holds always.
THEOREM Invariance == Spec => []IInv
BY InitHasIt, NextKeepsIt, PTL DEF Spec

\* Every variable keeps its type, whatever a request asks for.
THEOREM TypeCorrect == Spec => []TypeOK
BY Invariance, PTL DEF IInv

\* Whatever overlaps, fails or crashes, the configuration in memory and the one in the
\* database of a living container hold, field by field, only what the profile or some
\* request asked for (updateConfig, UpdateConfig and SetSettings).
THEOREM ConfigIsAsked == Spec => []ConfigWasAsked
BY Invariance, PTL DEF IInv

\* No crash, failure or race makes Stop remove a container whose profile keeps it,
\* unless some request asked for that (container.go:131-142).
THEOREM KeptContainersStay == Spec => []KeptIsNotRemoved
<1>1. IInv => KeptIsNotRemoved
  BY DEF IInv, RemovalIsAsked, KeptIsNotRemoved
<1> QED BY <1>1, Invariance, PTL

\* A client that was answered that its container will be kept finds an auth row to come
\* back with (container.go:364-377).
THEOREM KeptContainersAreReachable == Spec => []KeptCanReturn
BY Invariance, PTL DEF IInv


===============================================================================
