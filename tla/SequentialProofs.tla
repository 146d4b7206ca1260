---------------------------- MODULE SequentialProofs ----------------------------
(***************************************************************************)
(* What Reconfigure promises while requests and sessions come one after    *)
(* another and nothing fails (clean): the object, the settings row and     *)
(* docker agree, and a removed container leaves no row.  Proved for every  *)
(* set of requests, bodies and profiles.                                   *)
(***************************************************************************)
EXTENDS ReconfigureProofs

\* The places in updateConfig.
Moving == {"leave", "join", "inspect", "tool", "assign"}

\* One goroutine works at a time.
OneAtWork == \A v, w \in Workers : Busy(v) /\ Busy(w) => v = w

\* Whoever works does so on the object of the registry; a request finds a container that
\* was set up, because its address was read.
WorkersHaveObject ==
    /\ pc[Session] # "idle" => registered
    /\ \A r \in Requests : Busy(r) => registered /\ started
    /\ ~registered /\ config # Nil => docker # "running"
    /\ address # Nil => started \/ pc[Session] \in {"tool", "assign"}

\* The object and the row agree, but for a request about to write the row.
RowsAgree ==
    /\ registered /\ (\A r \in Requests : pc[r] # "store") => config = row
    /\ pc[Session] \in Moving => new[Session] = config
    /\ \A r \in Requests :
           /\ pc[r] \in Moving => old[r] = config
           /\ pc[r] = "store" => config = new[r] /\ row = old[r] /\ old[r] # Nil
           /\ pc[r] \in {"auth", "finish"} => config = new[r]

\* The rows of a removed container go one after the other.
RemovalClears ==
    docker = "removed" =>
        /\ \A r \in Requests : ~Busy(r)
        /\ pc[Session] \in {"idle", "deleteAuth", "deleteSettings"}
        /\ pc[Session] # "deleteAuth" => ~auth
        /\ pc[Session] = "idle" => row = Nil /\ ~registered

OnNetworkOf(c) == joined = {Network(c.networkMode)} /\ address \in joined
HasToolOf(c) == tool = IF c.configurable THEN "installed" ELSE "absent"

\* How far docker has followed a worker in updateConfig.
DockerIsMoved ==
    \A w \in Workers :
        /\ pc[w] = "leave" =>
               joined \subseteq {Network(old[w].networkMode), Network(new[w].networkMode)}
        /\ pc[w] = "join" => joined \subseteq {Network(new[w].networkMode)}
        /\ pc[w] = "inspect" => \/ joined \subseteq {Network(new[w].networkMode)}
                                \/ Network(new[w].networkMode) = ""
        /\ pc[w] \in {"tool", "assign"} => OnNetworkOf(new[w])
        /\ pc[w] \in {"leave", "join", "inspect"} /\ new[w].configurable = old[w].configurable =>
               HasToolOf(new[w])
        /\ pc[w] = "assign" => HasToolOf(new[w])

\* Docker follows the object when nobody is in updateConfig; a container that is not set up
\* again yet has no other network than the one in its row.
DockerFollows ==
    /\ registered /\ started /\ docker # "removed" /\ (\A w \in Workers : pc[w] \notin Moving) =>
           OnNetworkOf(config) /\ HasToolOf(config)
    /\ row # Nil /\ docker # "removed" /\ (\A w \in Workers : pc[w] \notin Moving \cup {"store"}) =>
           joined \subseteq {Network(row.networkMode)}

Sequential == /\ OneAtWork /\ WorkersHaveObject /\ RowsAgree /\ RemovalClears
              /\ DockerIsMoved /\ DockerFollows

SInv == IInv /\ (clean => Sequential)

-------------------------------------------------------------------------------
(* Who else is at rest *)

USE DEF Goto, Workers, world, object, bounds

\* While one goroutine works, the others rest.
LEMMA OthersRest ==
    ASSUME SInv, clean, NEW w \in Workers, Busy(w)
    PROVE  \A v \in Workers \ {w} : pc[v] \in AtRest
BY DEF SInv, Sequential, OneAtWork, Busy

\* What one worker does leaves the others where they were.
LEMMA OneMoves ==
    ASSUME SInv, clean, NEW w \in Workers, NEW label \in Labels, Goto(w, label), Busy(w)
    PROVE  /\ pc'[w] = label /\ \A v \in Workers \ {w} : pc'[v] = pc[v] /\ pc[v] \in AtRest
           /\ OneAtWork'
<1>1. pc'[w] = label /\ \A v \in Workers \ {w} : pc'[v] = pc[v] /\ pc[v] \in AtRest
  BY OthersRest, Moves DEF SInv, IInv
<1> QED BY <1>1 DEF OneAtWork, Busy

\* A step that starts something in a clean run finds everybody at rest.
LEMMA StartsAlone ==
    ASSUME SInv, NEW w \in Workers, NEW label \in Labels, Starts(w, label), clean', ~Busy(w)
    PROVE  /\ clean /\ Sequential
           /\ pc'[w] = label /\ \A v \in Workers \ {w} : pc'[v] = pc[v] /\ pc[v] \in AtRest
           /\ OneAtWork'
<1>1. clean /\ (\A v \in Workers \ {w} : ~Busy(v)) /\ Goto(w, label)
  BY DEF Starts
<1>2. pc'[w] = label /\ \A v \in Workers \ {w} : pc'[v] = pc[v]
  BY <1>1, Moves DEF SInv, IInv
<1> QED BY <1>1, <1>2 DEF SInv, OneAtWork, Busy

-------------------------------------------------------------------------------
(* The session *)

\* Login keeps the agreement.
LEMMA LoginSequential ==
    ASSUME SInv, Login, clean'
    PROVE  Sequential'
<1> DEFINE label == IF docker = "running" THEN "enter" ELSE "start"
<1>1. label \in Labels /\ ~Busy(Session) /\ Starts(Session, label)
  BY DEF Login, Labels, Busy, AtRest
<1> HIDE DEF label
<1>2. /\ clean /\ Sequential /\ OneAtWork'
      /\ pc'[Session] = label /\ \A v \in Workers \ {Session} : pc'[v] = pc[v] /\ pc[v] \in AtRest
  BY <1>1, StartsAlone
<1>3. label \in {"enter", "start"} /\ docker # "removed" /\ docker' = docker
  BY DEF Login, label
<1> USE SessionIsNoRequest DEF Sequential
<1>4. WorkersHaveObject'
  BY <1>2, <1>3 DEF Login, WorkersHaveObject, Busy
<1>5. RowsAgree'
  BY <1>2, <1>3 DEF Login, RowsAgree, Moving, AtRest, Answers
<1>6. RemovalClears'
  BY <1>3 DEF RemovalClears
<1>7. DockerIsMoved'
  BY <1>2, <1>3 DEF DockerIsMoved, AtRest, Answers
<1>8. DockerFollows'
  BY <1>2, <1>3 DEF Login, DockerFollows, Moving, AtRest, Answers, OnNetworkOf, HasToolOf
<1> QED BY <1>2, <1>4, <1>5, <1>6, <1>7, <1>8

\* Start keeps the agreement.
LEMMA StartSequential ==
    ASSUME SInv, Start, clean'
    PROVE  Sequential'
<1> USE SessionIsNoRequest
<1>1. /\ docker # "removed" /\ docker' = "running" /\ clean' = clean
      /\ Goto(Session, IF started THEN "enter" ELSE "leave")
      /\ new' = [new EXCEPT ![Session] = config]
      /\ old' = [old EXCEPT ![Session] =
                    [config EXCEPT !.networkMode = "Invalid", !.configurable = ~@]]
      /\ UNCHANGED <<joined, tool, row, auth, object>>
  BY DEF Start, Fails
<1> DEFINE label == IF started THEN "enter" ELSE "leave"
<1>2. label \in Labels /\ Busy(Session) /\ pc[Session] = "start"
  BY DEF Start, Labels, Updating, Busy, AtRest, Answers
<1>3. /\ clean /\ Sequential /\ OneAtWork'
      /\ pc'[Session] = label /\ \A v \in Workers \ {Session} : pc'[v] = pc[v] /\ pc[v] \in AtRest
  BY <1>1, <1>2, OneMoves DEF SInv
<1> USE DEF Sequential
<1>4. config \in Config /\ row = config /\ registered
  BY <1>2, <1>3
     DEF SInv, IInv, TypeOK, MemoryIsLoaded, WorkersHaveObject, RowsAgree, AtRest, Answers
<1>5. /\ new'[Session] = config /\ old'[Session].configurable # config.configurable
  BY <1>1, <1>4 DEF SInv, IInv, TypeOK, Config
<1>6. ~started => joined \subseteq {Network(config.networkMode)}
  <2>1. \A w \in Workers : pc[w] \notin Moving \cup {"store"}
    BY <1>2, <1>3 DEF Moving, AtRest, Answers
  <2> QED BY <1>1, <1>3, <1>4, <2>1, ConfigIs DEF DockerFollows
<1> HIDE DEF Sequential
<1>7. WorkersHaveObject'
  BY <1>1, <1>2, <1>3, <1>4 DEF Sequential, WorkersHaveObject, Busy
<1>8. RowsAgree'
  BY <1>1, <1>2, <1>3, <1>4, <1>5 DEF RowsAgree, Moving, AtRest, Answers
<1>9. RemovalClears'
  BY <1>1 DEF RemovalClears
<1>10. DockerIsMoved'
  <2>1. \A v \in Workers \ {Session} : pc'[v] \in AtRest
    BY <1>3
  <2>2. pc'[Session] = "leave" \/ pc'[Session] = "enter"
    BY <1>3
  <2>3. pc'[Session] = "leave" => joined' \subseteq {Network(new'[Session].networkMode)}
    BY <1>1, <1>3, <1>5, <1>6
  <2>4. new'[Session].configurable # old'[Session].configurable
    BY <1>5
  <2> QED BY <2>1, <2>2, <2>3, <2>4 DEF DockerIsMoved, AtRest, Answers
<1>11. DockerFollows'
  <2>1. CASE started
    BY <1>1, <1>2, <1>3, <2>1
       DEF Sequential, DockerFollows, Moving, AtRest, Answers, OnNetworkOf, HasToolOf
  <2>2. CASE ~started
    <3>1. pc'[Session] = "leave"
      BY <1>3, <2>2
    <3> QED BY <3>1 DEF DockerFollows, Moving
  <2> QED BY <2>1, <2>2
<1> QED BY <1>3, <1>7, <1>8, <1>9, <1>10, <1>11 DEF Sequential

\* Enter keeps the agreement.
LEMMA EnterSequential ==
    ASSUME SInv, Enter, clean'
    PROVE  Sequential'
<1> USE SessionIsNoRequest
<1>1. /\ clean /\ pc[Session] = "enter" /\ Busy(Session) /\ Goto(Session, "in") /\ "in" \in Labels
      /\ UNCHANGED <<world, object, old, new>>
  BY DEF Enter, Labels, Busy, AtRest, Answers
<1>2. /\ Sequential /\ OneAtWork'
      /\ pc'[Session] = "in" /\ \A v \in Workers \ {Session} : pc'[v] = pc[v] /\ pc[v] \in AtRest
  BY <1>1, OneMoves DEF SInv
<1>3. WorkersHaveObject'
  BY <1>1, <1>2 DEF Sequential, WorkersHaveObject, Busy
<1>4. RowsAgree'
  BY <1>1, <1>2 DEF Sequential, RowsAgree, Moving, AtRest, Answers
<1>5. RemovalClears'
  BY <1>1, <1>2 DEF Sequential, RemovalClears, Busy
<1>6. DockerIsMoved'
  BY <1>1, <1>2 DEF DockerIsMoved, AtRest, Answers
<1>7. DockerFollows'
  BY <1>1, <1>2 DEF Sequential, DockerFollows, Moving, AtRest, Answers, OnNetworkOf, HasToolOf
<1> QED BY <1>2, <1>3, <1>4, <1>5, <1>6, <1>7 DEF Sequential

\* Leave keeps the agreement.
LEMMA LeaveSequential ==
    ASSUME SInv, Leave, clean'
    PROVE  Sequential'
<1> USE SessionIsNoRequest
<1> DEFINE label == IF level = "User" THEN "halt" ELSE "idle"
<1>1. /\ pc[Session] = "in" /\ UNCHANGED <<world, object, old, new>>
  BY DEF Leave
<1>2. /\ clean /\ Sequential /\ OneAtWork' /\ pc'[Session] = label
      /\ \A v \in Workers \ {Session} : pc'[v] = pc[v]
      /\ label = "halt" => \A v \in Workers \ {Session} : pc[v] \in AtRest
  <2>1. CASE level = "User"
    <3>1. Starts(Session, "halt") /\ "halt" \in Labels /\ ~Busy(Session)
      BY <1>1, <2>1 DEF Leave, Labels, Busy, AtRest
    <3> QED BY <2>1, <3>1, StartsAlone
  <2>2. CASE level # "User"
    <3>1. Goto(Session, "idle") /\ clean' = clean /\ "idle" \in Labels
      BY <2>2 DEF Leave, Labels, AtRest
    <3>2. pc'[Session] = "idle" /\ \A v \in Workers \ {Session} : pc'[v] = pc[v]
      BY <3>1, Moves DEF SInv, IInv
    <3> QED BY <2>2, <3>1, <3>2 DEF SInv, Sequential, OneAtWork, Busy, AtRest
  <2> QED BY <2>1, <2>2
<1>3. label \in {"halt", "idle"} /\ docker # "removed"
  BY <1>1, <1>2 DEF Sequential, RemovalClears
<1> HIDE DEF label
<1>4. WorkersHaveObject'
  BY <1>1, <1>2, <1>3 DEF Sequential, WorkersHaveObject, Busy
<1>5. RowsAgree'
  BY <1>1, <1>2, <1>3 DEF Sequential, RowsAgree, Moving
<1>6. RemovalClears'
  BY <1>1, <1>3 DEF RemovalClears
<1>7. DockerIsMoved'
  BY <1>1, <1>2, <1>3 DEF Sequential, DockerIsMoved, OnNetworkOf, HasToolOf
<1>8. DockerFollows'
  BY <1>1, <1>2, <1>3 DEF Sequential, DockerFollows, Moving, OnNetworkOf, HasToolOf
<1> QED BY <1>2, <1>4, <1>5, <1>6, <1>7, <1>8 DEF Sequential

\* Halt keeps the agreement.
LEMMA HaltSequential ==
    ASSUME SInv, Halt, clean'
    PROVE  Sequential'
<1> USE SessionIsNoRequest
<1> DEFINE label == IF config.keepOnExit THEN "idle" ELSE "remove"
<1>1. /\ pc[Session] = "halt" /\ Busy(Session) /\ clean /\ docker # "removed" /\ docker' = "stopped"
      /\ Goto(Session, label) /\ label \in Labels /\ label \in {"idle", "remove"}
      /\ label = "remove" => registered' = registered
      /\ label = "idle" => registered' = FALSE
      /\ UNCHANGED <<config, started, address, joined, tool, row, auth, old, new>>
  BY DEF Halt, Fails, Unregister, Busy, Labels, AtRest, Answers
<1> HIDE DEF label
<1>2. /\ Sequential /\ OneAtWork'
      /\ pc'[Session] = label /\ \A v \in Workers \ {Session} : pc'[v] = pc[v] /\ pc[v] \in AtRest
  BY <1>1, OneMoves DEF SInv
<1>3. WorkersHaveObject'
  BY <1>1, <1>2 DEF Sequential, WorkersHaveObject, Busy
<1>4. RowsAgree'
  BY <1>1, <1>2 DEF Sequential, RowsAgree, Moving, WorkersHaveObject, AtRest, Answers
<1>5. RemovalClears'
  BY <1>1 DEF RemovalClears
<1>6. DockerIsMoved'
  BY <1>1, <1>2 DEF DockerIsMoved, AtRest, Answers
<1>7. DockerFollows'
  BY <1>1, <1>2
     DEF Sequential, WorkersHaveObject, DockerFollows, Moving, AtRest, Answers, OnNetworkOf,
         HasToolOf
<1> QED BY <1>2, <1>3, <1>4, <1>5, <1>6, <1>7 DEF Sequential

\* Remove and the two deletions keep it.
LEMMA RemovalSequential ==
    ASSUME SInv, Remove \/ DeleteAuth \/ DeleteSettings, clean'
    PROVE  Sequential'
<1> USE SessionIsNoRequest
<1>1. PICK label \in {"deleteAuth", "deleteSettings", "idle"} :
         /\ Busy(Session) /\ pc[Session] \in {"remove", "deleteAuth", "deleteSettings"}
         /\ clean /\ Goto(Session, label) /\ label \in Labels
         /\ docker' = docker \/ docker' = "removed"
         /\ pc[Session] \in {"deleteAuth", "deleteSettings"} => docker' = docker
         /\ pc[Session] = "remove" => docker' = "removed"
         /\ UNCHANGED <<config, started, address, tool, old, new>>
         /\ label = "deleteAuth" => pc[Session] = "remove" /\ UNCHANGED <<registered, row, auth>>
         /\ label = "deleteSettings" =>
                pc[Session] = "deleteAuth" /\ ~auth' /\ UNCHANGED <<registered, row>>
         /\ label = "idle" =>
                pc[Session] = "deleteSettings" /\ row' = Nil /\ ~registered' /\ auth' = auth
  BY DEF Remove, DeleteAuth, DeleteSettings, Fails, Unregister, Busy, Labels, AtRest, Answers
<1>2. /\ Sequential /\ OneAtWork'
      /\ pc'[Session] = label /\ \A v \in Workers \ {Session} : pc'[v] = pc[v] /\ pc[v] \in AtRest
  BY <1>1, OneMoves DEF SInv
<1>3. docker' = "removed"
  BY <1>1 DEF SInv, IInv, RemovalIsAsked
<1>4. WorkersHaveObject'
  BY <1>1, <1>2, <1>3 DEF Sequential, WorkersHaveObject, Busy
<1>5. RowsAgree'
  BY <1>1, <1>2 DEF Sequential, RowsAgree, Moving, AtRest, Answers
<1>6. RemovalClears'
  <2>1. \A r \in Requests : ~Busy(r)'
    BY <1>2 DEF Busy
  <2>2. label # "deleteAuth" => ~auth'
    BY <1>1, <1>2, <1>3 DEF Sequential, RemovalClears
  <2> QED BY <1>1, <1>2, <2>1, <2>2 DEF RemovalClears
<1>7. DockerIsMoved'
  BY <1>1, <1>2 DEF DockerIsMoved, AtRest, Answers
<1>8. DockerFollows'
  BY <1>3 DEF DockerFollows
<1> QED BY <1>2, <1>4, <1>5, <1>6, <1>7, <1>8 DEF Sequential

-------------------------------------------------------------------------------
(* A request *)

\* Post keeps it, for it finds a container that was set up.
LEMMA PostSequential ==
    ASSUME SInv, NEW r \in Requests, NEW asked \in Bodies, Post(r, asked), clean'
    PROVE  Sequential'
<1> USE SessionIsNoRequest
<1> DEFINE label == IF DOMAIN asked = {} THEN "ok" ELSE "update"
<1>1. /\ pc[r] = "idle" /\ ~Busy(r) /\ Starts(r, label)
      /\ label \in Labels /\ label \in {"ok", "update"}
      /\ docker = "running" /\ address \in joined
      /\ UNCHANGED <<world, object, old>>
  BY DEF Post, Labels, Updating, Busy, AtRest, Answers
<1> HIDE DEF label
<1>2. /\ clean /\ Sequential /\ OneAtWork'
      /\ pc'[r] = label /\ \A v \in Workers \ {r} : pc'[v] = pc[v] /\ pc[v] \in AtRest
  BY <1>1, StartsAlone
<1>3. \A v \in Workers \ {r} : new'[v] = new[v]
  BY PostMakesConfig DEF SInv, IInv, TypeOK
<1>4. registered /\ started
  <2>1. address # Nil
    BY <1>1, NilIsNothing DEF SInv, IInv, TypeOK
  <2>2. config # Nil
    BY <2>1 DEF SInv, IInv, MemoryIsLoaded
  <2>3. pc[Session] \in AtRest
    BY <1>2
  <2> QED BY <1>1, <1>2, <2>1, <2>2, <2>3 DEF Sequential, WorkersHaveObject, AtRest, Answers
<1>5. WorkersHaveObject'
  BY <1>1, <1>2, <1>4 DEF Sequential, WorkersHaveObject, Busy
<1>6. RowsAgree'
  BY <1>1, <1>2, <1>3 DEF Sequential, RowsAgree, Moving, AtRest, Answers
<1>7. RemovalClears'
  BY <1>1 DEF RemovalClears
<1>8. DockerIsMoved'
  BY <1>1, <1>2 DEF DockerIsMoved, AtRest, Answers
<1>9. DockerFollows'
  BY <1>1, <1>2 DEF Sequential, DockerFollows, Moving, AtRest, Answers, OnNetworkOf, HasToolOf
<1> QED BY <1>2, <1>5, <1>6, <1>7, <1>8, <1>9 DEF Sequential

\* Refuse keeps the agreement.
LEMMA RefuseSequential ==
    ASSUME SInv, NEW r \in Requests, Refuse(r), clean'
    PROVE  Sequential'
<1> USE SessionIsNoRequest
<1>1. PICK answer \in {"rejected", "panicked"} : Goto(r, answer)
  BY DEF Refuse
<1>2. /\ clean /\ pc[r] = "idle" /\ UNCHANGED <<world, object, old, new>>
  BY DEF Refuse
<1>3. answer \in Labels /\ answer \in AtRest
  BY DEF Labels, AtRest, Answers
<1>4. /\ Sequential /\ pc'[r] = answer /\ \A v \in Workers \ {r} : pc'[v] = pc[v]
  BY <1>1, <1>2, <1>3, Moves DEF SInv, IInv
<1>5. OneAtWork'
  BY <1>3, <1>4 DEF Sequential, OneAtWork, Busy
<1>6. WorkersHaveObject'
  BY <1>2, <1>3, <1>4 DEF Sequential, WorkersHaveObject, Busy
<1>7. RowsAgree'
  BY <1>2, <1>4 DEF Sequential, RowsAgree, Moving
<1>8. RemovalClears'
  BY <1>2, <1>3, <1>4 DEF Sequential, RemovalClears, Busy
<1>9. DockerIsMoved'
  BY <1>2, <1>4 DEF Sequential, DockerIsMoved, OnNetworkOf, HasToolOf
<1>10. DockerFollows'
  BY <1>2, <1>4 DEF Sequential, DockerFollows, Moving, OnNetworkOf, HasToolOf
<1> QED BY <1>5, <1>6, <1>7, <1>8, <1>9, <1>10 DEF Sequential

\* Update keeps the agreement.
LEMMA UpdateSequential ==
    ASSUME SInv, NEW r \in Requests, Update(r), clean'
    PROVE  Sequential'
<1> USE SessionIsNoRequest
<1> DEFINE label == IF new[r].networkMode # config.networkMode THEN "leave"
                    ELSE IF new[r].configurable # config.configurable THEN "tool" ELSE "assign"
<1>1. /\ clean /\ pc[r] = "update" /\ Busy(r) /\ Goto(r, label) /\ label \in Labels
      /\ label \in {"leave", "tool", "assign"}
      /\ old' = [old EXCEPT ![r] = config] /\ UNCHANGED <<world, object, new>>
  BY DEF Update, Labels, Updating, Busy, AtRest, Answers
<1>2. /\ Sequential /\ OneAtWork'
      /\ pc'[r] = label /\ \A v \in Workers \ {r} : pc'[v] = pc[v] /\ pc[v] \in AtRest
  BY <1>1, OneMoves DEF SInv
<1>3. old'[r] = config /\ \A v \in Workers \ {r} : old'[v] = old[v]
  BY <1>1 DEF SInv, IInv, TypeOK
<1>4. OnNetworkOf(config) /\ HasToolOf(config) /\ registered /\ started
  <2>1. docker # "removed" /\ registered /\ started
    BY <1>1, <1>2 DEF Sequential, RemovalClears, WorkersHaveObject
  <2>2. \A w \in Workers : pc[w] \notin Moving
    BY <1>1, <1>2 DEF Moving, AtRest, Answers
  <2> QED BY <1>2, <2>1, <2>2 DEF Sequential, DockerFollows
<1>5. WorkersHaveObject'
  BY <1>1, <1>2, <1>4 DEF Sequential, WorkersHaveObject, Busy
<1>6. RowsAgree'
  <2>1. label \notin {"store", "auth", "finish"}
    BY <1>1
  <2> HIDE DEF label
  <2> QED BY <1>1, <1>2, <1>3, <2>1 DEF Sequential, RowsAgree, Moving, AtRest, Answers
<1>7. RemovalClears'
  BY <1>1, <1>2 DEF Sequential, RemovalClears, Busy
<1>8. DockerIsMoved'
  <2>1. \A v \in Workers \ {r} : pc'[v] \in AtRest
    BY <1>2
  <2>2. label = "leave" =>
           joined \subseteq {Network(config.networkMode), Network(new[r].networkMode)}
    BY <1>4 DEF OnNetworkOf
  <2>3. label \in {"tool", "assign"} => OnNetworkOf(new[r])
    BY <1>4 DEF OnNetworkOf
  <2>4. new[r].configurable = config.configurable => HasToolOf(new[r])
    BY <1>4 DEF HasToolOf
  <2>5. label = "assign" => HasToolOf(new[r])
    BY <2>4
  <2>6. /\ label \in {"tool", "assign"} => OnNetworkOf(new[r])'
        /\ new[r].configurable = config.configurable => HasToolOf(new[r])'
        /\ label = "assign" => HasToolOf(new[r])'
    BY <1>1, <2>3, <2>4, <2>5 DEF OnNetworkOf, HasToolOf
  <2> HIDE DEF label
  <2> QED BY <1>1, <1>2, <1>3, <2>1, <2>2, <2>6 DEF DockerIsMoved, AtRest, Answers
<1>9. DockerFollows'
  <2>1. pc'[r] \in Moving
    BY <1>2 DEF Moving
  <2> QED BY <2>1 DEF DockerFollows
<1> QED BY <1>2, <1>5, <1>6, <1>7, <1>8, <1>9 DEF Sequential

\* Two configurations with the same fields are the same.
LEMMA SameFields ==
    ASSUME NEW c \in Config, NEW d \in Config, \A f \in Fields : c[f] = d[f]
    PROVE  c = d
BY DEF Config, Fields

\* Store keeps the agreement.
LEMMA StoreSequential ==
    ASSUME SInv, IInv', NEW r \in Requests, Store(r), clean'
    PROVE  Sequential'
<1> USE SessionIsNoRequest
<1>1. /\ clean /\ pc[r] = "store" /\ Busy(r) /\ Goto(r, "auth") /\ "auth" \in Labels
      /\ UNCHANGED <<docker, joined, tool, auth, object, old, new>>
  BY DEF Store, Fails, Labels, Updating, Busy, AtRest, Answers
<1>2. /\ Sequential /\ OneAtWork'
      /\ pc'[r] = "auth" /\ \A v \in Workers \ {r} : pc'[v] = pc[v] /\ pc[v] \in AtRest
  BY <1>1, OneMoves DEF SInv
<1>3. /\ config = new[r] /\ row = old[r] /\ row # Nil /\ registered /\ started /\ docker # "removed"
  BY <1>1, <1>2 DEF Sequential, RowsAgree, WorkersHaveObject, RemovalClears
<1>4. row' = new[r]
  <2>1. row' = [f \in Fields |-> IF f \in Changed(r) THEN new[r][f] ELSE row[f]]
    BY <1>3, <1>1 DEF Store, Fails
  <2>2. \A f \in Fields : row'[f] = new[r][f]
    BY <1>3, <2>1 DEF Changed
  <2>3. new[r] \in Config
    BY <1>1 DEF SInv, IInv, TypeOK, UpdatesAreAsked, Updating
  <2>4. row' \in Config
    <3>1. row' \in Config \cup {Nil}
      BY DEF IInv, TypeOK
    <3>2. row' # Nil
      BY <1>1, <1>3 DEF IInv, ConfigWasAsked
    <3> QED BY <3>1, <3>2
  <2> QED BY <2>2, <2>3, <2>4, SameFields
<1>5. WorkersHaveObject'
  BY <1>1, <1>2, <1>3 DEF Sequential, WorkersHaveObject, Busy
<1>6. RowsAgree'
  BY <1>1, <1>2, <1>3, <1>4 DEF Sequential, RowsAgree, Moving, AtRest, Answers
<1>7. RemovalClears'
  BY <1>1, <1>3 DEF RemovalClears
<1>8. DockerIsMoved'
  BY <1>1, <1>2 DEF DockerIsMoved, AtRest, Answers
<1>9. DockerFollows'
  <2>1. \A w \in Workers : pc[w] \notin Moving
    BY <1>1, <1>2 DEF Moving, AtRest, Answers
  <2>2. OnNetworkOf(config) /\ HasToolOf(config)
    BY <1>2, <1>3, <2>1 DEF Sequential, DockerFollows
  <2> QED BY <1>1, <1>3, <1>4, <2>2 DEF DockerFollows, OnNetworkOf, HasToolOf
<1> QED BY <1>2, <1>5, <1>6, <1>7, <1>8, <1>9 DEF Sequential

\* StoreAuth and Finish keep it.
LEMMA FinishSequential ==
    ASSUME SInv, NEW r \in Requests, StoreAuth(r) \/ Finish(r), clean'
    PROVE  Sequential'
<1> USE SessionIsNoRequest
<1>1. PICK label \in {"finish", "ok"} :
        /\ clean /\ pc[r] \in {"auth", "finish"} /\ Busy(r) /\ Goto(r, label) /\ label \in Labels
        /\ config' = config \/ config' = new[r]
        /\ UNCHANGED <<docker, joined, tool, row, registered, started, address, old, new>>
  BY DEF StoreAuth, Finish, Fails, Labels, Updating, Busy, AtRest, Answers
<1>2. /\ Sequential /\ OneAtWork'
      /\ pc'[r] = label /\ \A v \in Workers \ {r} : pc'[v] = pc[v] /\ pc[v] \in AtRest
  BY <1>1, OneMoves DEF SInv
<1>3. config = new[r] /\ config' = config /\ registered /\ started /\ docker # "removed"
  BY <1>1, <1>2 DEF Sequential, RowsAgree, WorkersHaveObject, RemovalClears
<1>4. WorkersHaveObject'
  BY <1>1, <1>2, <1>3 DEF Sequential, WorkersHaveObject, Busy
<1>5. RowsAgree'
  BY <1>1, <1>2, <1>3 DEF Sequential, RowsAgree, Moving, AtRest, Answers
<1>6. RemovalClears'
  BY <1>1, <1>3 DEF RemovalClears
<1>7. DockerIsMoved'
  BY <1>1, <1>2 DEF DockerIsMoved, AtRest, Answers
<1>8. DockerFollows'
  BY <1>1, <1>2, <1>3
     DEF Sequential, DockerFollows, Moving, AtRest, Answers, OnNetworkOf, HasToolOf
<1> QED BY <1>2, <1>4, <1>5, <1>6, <1>7, <1>8 DEF Sequential

-------------------------------------------------------------------------------
(* updateConfig, for the session and for requests *)

\* A step within updateConfig changes docker and the address only: what is left to show
\* is how far docker has followed.
LEMMA MovesAlong ==
    ASSUME SInv, clean, NEW w \in Workers, NEW label \in Moving, pc[w] \in Moving, Goto(w, label),
           UNCHANGED <<docker, row, auth, registered, config, started, old, new>>,
           label \in {"tool", "assign"} \/ (address' = address /\ pc[w] \notin {"tool", "assign"})
    PROVE  /\ pc'[w] = label /\ \A v \in Workers \ {w} : pc'[v] \in AtRest
           /\ OneAtWork' /\ WorkersHaveObject' /\ RowsAgree' /\ RemovalClears' /\ DockerFollows'
<1> USE SessionIsNoRequest
<1>1. Busy(w) /\ label \in Labels
  BY DEF Moving, Labels, Updating, Busy, AtRest, Answers
<1>2. /\ Sequential /\ OneAtWork'
      /\ pc'[w] = label /\ \A v \in Workers \ {w} : pc'[v] = pc[v] /\ pc[v] \in AtRest
  BY <1>1, OneMoves DEF SInv
<1>3. /\ label \notin {"store", "auth", "finish", "idle"}
      /\ pc[w] \notin {"store", "auth", "finish", "idle"}
  BY DEF Moving
<1>4. WorkersHaveObject'
  <2>1. w = Session /\ address' # Nil => started \/ label \in {"tool", "assign"}
    BY <1>2 DEF Sequential, WorkersHaveObject
  <2>2. w \in Requests => started /\ registered
    BY <1>1, <1>2 DEF Sequential, WorkersHaveObject
  <2>3. w = Session => registered
    BY <1>2, <1>3 DEF Sequential, WorkersHaveObject
  <2> QED BY <1>2, <1>3, <2>1, <2>2, <2>3 DEF Sequential, WorkersHaveObject, Busy
<1>5. RowsAgree'
  BY <1>2, <1>3 DEF Sequential, RowsAgree, AtRest, Answers
<1>6. RemovalClears'
  <2>1. docker # "removed"
    BY <1>1, <1>2, <1>3 DEF Sequential, RemovalClears, Moving
  <2> QED BY <2>1 DEF RemovalClears
<1>7. DockerFollows'
  BY <1>2 DEF DockerFollows
<1> QED BY <1>2, <1>4, <1>5, <1>6, <1>7

\* LeaveNetwork keeps the agreement.
LEMMA LeaveNetworkSequential ==
    ASSUME SInv, NEW w \in Workers, LeaveNetwork(w), clean'
    PROVE  Sequential'
<1> DEFINE label == IF Network(new[w].networkMode) # "" THEN "join" ELSE "inspect"
<1>1. /\ pc[w] = "leave" /\ clean /\ Goto(w, label)
      /\ label = "join" => joined' = joined \ {Network(old[w].networkMode)}
      /\ UNCHANGED <<docker, tool, row, auth, object, old, new>>
  BY DEF LeaveNetwork
<1>2. label \in Moving /\ pc[w] \in Moving
  BY <1>1 DEF Moving
<1> HIDE DEF label
<1>3. /\ pc'[w] = label /\ \A v \in Workers \ {w} : pc'[v] \in AtRest
      /\ OneAtWork' /\ WorkersHaveObject' /\ RowsAgree' /\ RemovalClears' /\ DockerFollows'
  BY <1>1, <1>2, MovesAlong
<1>4. DockerIsMoved'
  <2>1. /\ joined \subseteq {Network(old[w].networkMode), Network(new[w].networkMode)}
        /\ new[w].configurable = old[w].configurable => HasToolOf(new[w])
    BY <1>1 DEF SInv, Sequential, DockerIsMoved
  <2>2. label = "join" => joined' \subseteq {Network(new[w].networkMode)}
    BY <1>1, <2>1
  <2>3. label = "inspect" => Network(new[w].networkMode) = ""
    BY DEF label
  <2>4. label \in {"join", "inspect"}
    BY DEF label
  <2>5. new[w].configurable = old[w].configurable => HasToolOf(new[w])'
    BY <1>1, <2>1 DEF HasToolOf
  <2> QED BY <1>1, <1>3, <2>2, <2>3, <2>4, <2>5 DEF DockerIsMoved, AtRest, Answers
<1> QED BY <1>3, <1>4 DEF Sequential

\* JoinNetwork keeps the agreement.
LEMMA JoinNetworkSequential ==
    ASSUME SInv, NEW w \in Workers, JoinNetwork(w), clean'
    PROVE  Sequential'
<1>1. /\ pc[w] = "join" /\ clean /\ Goto(w, "inspect")
      /\ joined' = joined \cup {Network(new[w].networkMode)}
      /\ UNCHANGED <<docker, tool, row, auth, object, old, new>>
  BY DEF JoinNetwork, Fails
<1>2. "inspect" \in Moving /\ pc[w] \in Moving
  BY <1>1 DEF Moving
<1>3. /\ pc'[w] = "inspect" /\ \A v \in Workers \ {w} : pc'[v] \in AtRest
      /\ OneAtWork' /\ WorkersHaveObject' /\ RowsAgree' /\ RemovalClears' /\ DockerFollows'
  BY <1>1, <1>2, MovesAlong
<1>4. DockerIsMoved'
  <2>1. /\ joined \subseteq {Network(new[w].networkMode)}
        /\ new[w].configurable = old[w].configurable => HasToolOf(new[w])
    BY <1>1 DEF SInv, Sequential, DockerIsMoved
  <2>2. joined' \subseteq {Network(new[w].networkMode)}
    BY <1>1, <2>1
  <2>3. new[w].configurable = old[w].configurable => HasToolOf(new[w])'
    BY <1>1, <2>1 DEF HasToolOf
  <2> QED BY <1>1, <1>3, <2>2, <2>3 DEF DockerIsMoved, AtRest, Answers
<1> QED BY <1>3, <1>4 DEF Sequential

\* ReadAddress: a mode that has no network is found out here.
LEMMA ReadAddressSequential ==
    ASSUME SInv, NEW w \in Workers, ReadAddress(w), clean'
    PROVE  Sequential'
<1> DEFINE name == NetworkName(new[w].networkMode)
           label == IF new[w].configurable # old[w].configurable THEN "tool" ELSE "assign"
<1>1. pc[w] = "inspect" /\ Busy(w)
  BY DEF ReadAddress, Busy, AtRest, Answers
<1>2. ~(Panics(w) /\ clean')
  BY <1>1 DEF Panics, LoseMemory, Quiet
<1>3. /\ clean /\ name \in joined /\ address' = name /\ Goto(w, label)
      /\ UNCHANGED <<world, registered, config, started, old, new>>
  BY <1>2 DEF ReadAddress, Fails
<1>4. label \in Moving /\ pc[w] \in Moving /\ label \in {"tool", "assign"}
  BY <1>1 DEF Moving
<1> HIDE DEF label
<1>5. /\ pc'[w] = label /\ \A v \in Workers \ {w} : pc'[v] \in AtRest
      /\ OneAtWork' /\ WorkersHaveObject' /\ RowsAgree' /\ RemovalClears' /\ DockerFollows'
  BY <1>3, <1>4, MovesAlong
<1>6. DockerIsMoved'
  <2>1. /\ joined \subseteq {Network(new[w].networkMode)} \/ Network(new[w].networkMode) = ""
        /\ new[w].configurable = old[w].configurable => HasToolOf(new[w])
    BY <1>1, <1>3 DEF SInv, Sequential, DockerIsMoved
  <2>2. Network(new[w].networkMode) # ""
    <3>1. name \in Networks
      BY <1>3 DEF SInv, IInv, TypeOK
    <3>2. new[w] \in Config
      BY <1>1 DEF SInv, IInv, TypeOK, UpdatesAreAsked, Updating
    <3>3. name # ""
      BY <3>1 DEF Networks
    <3> QED BY <3>2, <3>3 DEF Config, Modes, Network, NetworkName
  <2>3. OnNetworkOf(new[w])'
    BY <1>3, <2>1, <2>2 DEF OnNetworkOf
  <2>4. label = "assign" => HasToolOf(new[w])'
    BY <1>3, <2>1 DEF label, HasToolOf
  <2> QED BY <1>3, <1>4, <1>5, <2>3, <2>4 DEF DockerIsMoved, AtRest, Answers
<1> QED BY <1>5, <1>6 DEF Sequential

\* SetTool keeps the agreement.
LEMMA SetToolSequential ==
    ASSUME SInv, NEW w \in Workers, SetTool(w), clean'
    PROVE  Sequential'
<1>1. pc[w] = "tool" /\ Busy(w)
  BY DEF SetTool, Busy, AtRest, Answers
<1>2. ~(Panics(w) /\ clean')
  BY <1>1 DEF Panics, LoseMemory, Quiet
<1>3. /\ clean /\ Goto(w, "assign")
      /\ tool' = IF new[w].configurable THEN "installed" ELSE "absent"
      /\ UNCHANGED <<docker, joined, row, auth, object, old, new>>
  BY <1>2 DEF SetTool, Fails
<1>4. "assign" \in Moving /\ pc[w] \in Moving
  BY <1>1 DEF Moving
<1>5. /\ pc'[w] = "assign" /\ \A v \in Workers \ {w} : pc'[v] \in AtRest
      /\ OneAtWork' /\ WorkersHaveObject' /\ RowsAgree' /\ RemovalClears' /\ DockerFollows'
  BY <1>3, <1>4, MovesAlong
<1>6. DockerIsMoved'
  <2>1. OnNetworkOf(new[w])
    BY <1>1, <1>3 DEF SInv, Sequential, DockerIsMoved
  <2>2. OnNetworkOf(new[w])' /\ HasToolOf(new[w])'
    BY <1>3, <2>1 DEF OnNetworkOf, HasToolOf
  <2> QED BY <1>5, <2>2 DEF DockerIsMoved, AtRest, Answers
<1> QED BY <1>5, <1>6 DEF Sequential

\* Assign: the object, and with it the property, catches up with docker.
LEMMA AssignSequential ==
    ASSUME SInv, NEW w \in Workers, Assign(w), clean'
    PROVE  Sequential'
<1> USE SessionIsNoRequest
<1> DEFINE label == IF w = Session THEN "enter" ELSE "store"
<1>1. /\ clean /\ pc[w] = "assign" /\ Busy(w) /\ Goto(w, label) /\ label \in Labels
      /\ config' = new[w]
      /\ started' = (started \/ w = Session)
      /\ UNCHANGED <<world, registered, address, old, new>>
  <2>1. started \in BOOLEAN
    BY DEF SInv, IInv, TypeOK
  <2> QED BY <2>1 DEF Assign, Labels, Updating, Busy, AtRest, Answers
<1>2. /\ Sequential /\ OneAtWork'
      /\ pc'[w] = label /\ \A v \in Workers \ {w} : pc'[v] = pc[v] /\ pc[v] \in AtRest
  BY <1>1, OneMoves DEF SInv
<1>3. registered /\ started' /\ docker # "removed" /\ config # Nil /\ new[w] # Nil
  BY <1>1, <1>2
     DEF Sequential, WorkersHaveObject, RemovalClears, SInv, IInv, MemoryIsLoaded, UpdatesAreAsked,
         Updating, Answers
<1>4. OnNetworkOf(new[w]) /\ HasToolOf(new[w])
  BY <1>1, <1>2 DEF Sequential, DockerIsMoved
<1>5. config = row
  BY <1>1, <1>2, <1>3 DEF Sequential, RowsAgree, AtRest, Answers
<1>6. WorkersHaveObject'
  BY <1>1, <1>2, <1>3 DEF Sequential, WorkersHaveObject, Busy
<1>7. RowsAgree'
  <2>1. CASE w = Session
    BY <1>1, <1>2, <1>3, <1>5, <2>1 DEF Sequential, RowsAgree, Moving, AtRest, Answers
  <2>2. CASE w # Session
    <3>1. w \in Requests /\ pc'[w] = "store" /\ old[w] = config
      BY <1>1, <1>2, <2>2 DEF Sequential, RowsAgree, Moving
    <3> QED BY <1>1, <1>2, <1>3, <1>5, <3>1 DEF RowsAgree, Moving, AtRest, Answers
  <2> QED BY <2>1, <2>2
<1>8. RemovalClears'
  BY <1>1, <1>3 DEF RemovalClears
<1>9. DockerIsMoved'
  <2>1. \A v \in Workers : pc'[v] \notin Moving
    BY <1>2 DEF Moving, AtRest, Answers
  <2> QED BY <2>1 DEF DockerIsMoved, Moving
<1>10. DockerFollows'
  <2>1. OnNetworkOf(config)' /\ HasToolOf(config)'
    BY <1>1, <1>4 DEF OnNetworkOf, HasToolOf
  <2>2. w = Session => row' = new[w]
    BY <1>1, <1>2, <1>5 DEF Sequential, RowsAgree, Moving
  <2>3. w = Session => joined' = {Network(row'.networkMode)}
    BY <1>1, <2>1, <2>2 DEF OnNetworkOf
  <2>4. w # Session => pc'[w] = "store"
    BY <1>2
  <2> QED BY <2>1, <2>3, <2>4 DEF DockerFollows
<1> QED BY <1>2, <1>6, <1>7, <1>8, <1>9, <1>10 DEF Sequential

-------------------------------------------------------------------------------
(* The invariant, and what follows from it *)

\* A crash in a clean run finds everybody at rest: the row stays, the object goes.
LEMMA KillSequential ==
    ASSUME SInv, Kill, clean'
    PROVE  Sequential'
<1> USE SessionIsNoRequest
<1>1. /\ clean /\ Quiet /\ ~registered' /\ config' = Nil /\ address' = Nil
      /\ UNCHANGED <<docker, joined, tool, row, auth>>
  BY DEF Kill, LoseMemory
<1>2. pc'[Session] = "idle" /\ \A r \in Requests : pc'[r] = pc[r]
  BY <1>1 DEF Kill, LoseMemory, Quiet
<1>3. \A w \in Workers : pc[w] \in AtRest /\ pc'[w] \in AtRest
  BY <1>1, <1>2 DEF Quiet, Busy, AtRest
<1>4. OneAtWork' /\ WorkersHaveObject' /\ RowsAgree' /\ DockerIsMoved'
  BY <1>1, <1>2, <1>3 DEF OneAtWork, WorkersHaveObject, RowsAgree, DockerIsMoved, Moving, Busy,
                         AtRest, Answers
<1>5. RemovalClears'
  BY <1>1, <1>2, <1>3 DEF SInv, Sequential, RemovalClears, Busy, AtRest, Answers
<1>6. DockerFollows'
  BY <1>1, <1>3 DEF SInv, Sequential, DockerFollows, Moving, AtRest, Answers
<1> QED BY <1>4, <1>5, <1>6 DEF Sequential

\* A clean step of the system keeps the agreement.
LEMMA NextSequential ==
    ASSUME SInv, IInv', [Next]_vars, clean'
    PROVE  Sequential'
<1>1. CASE SessionStep
  BY <1>1, LoginSequential, StartSequential, EnterSequential, LeaveSequential, HaltSequential,
     RemovalSequential
     DEF SessionStep
<1>2. CASE \E r \in Requests : RequestStep(r)
  BY <1>2, PostSequential, RefuseSequential, UpdateSequential, StoreSequential, FinishSequential
     DEF RequestStep
<1>3. CASE \E w \in Workers : UpdateConfig(w)
  BY <1>3, LeaveNetworkSequential, JoinNetworkSequential, ReadAddressSequential,
     SetToolSequential, AssignSequential
     DEF UpdateConfig
<1>4. CASE Kill
  BY <1>4, KillSequential
<1>5. CASE UNCHANGED vars
  <2>1. Sequential
    BY <1>5 DEF vars, SInv
  <2> USE <1>5, <2>1 DEF vars, Sequential
  <2>2. OneAtWork' /\ WorkersHaveObject' /\ RemovalClears'
    BY DEF OneAtWork, WorkersHaveObject, RemovalClears, Busy
  <2>3. RowsAgree' /\ DockerIsMoved' /\ DockerFollows'
    BY DEF RowsAgree, DockerIsMoved, DockerFollows, OnNetworkOf, HasToolOf
  <2> QED BY <2>2, <2>3
<1> QED BY <1>1, <1>2, <1>3, <1>4, <1>5 DEF Next

\* While sessions and requests come one after another and nothing fails, the object, the
\* row and docker agree up to the step that is under way.
THEOREM StaysSequential == Spec => []SInv
<1>1. Init => SInv
  <2> SUFFICES ASSUME Init PROVE SInv
    OBVIOUS
  <2> USE DEF Init
  <2>1. \A w \in Workers : pc[w] \in AtRest /\ ~Busy(w)
    BY DEF AtRest, Busy
  <2>2. OneAtWork /\ WorkersHaveObject /\ RemovalClears
    BY <2>1, SessionIsNoRequest DEF OneAtWork, WorkersHaveObject, RemovalClears
  <2>3. RowsAgree /\ DockerIsMoved /\ DockerFollows
    BY SessionIsNoRequest DEF RowsAgree, DockerIsMoved, DockerFollows, Moving
  <2> QED BY <2>2, <2>3, InitHasIt DEF SInv, Sequential
<1>2. SInv /\ [Next]_vars => SInv'
  BY NextKeepsIt, NextSequential DEF SInv
<1> QED BY <1>1, <1>2, PTL DEF Spec

\* Between the steps of requests that come one after another, the row holds the configuration
\* of the object (UpdateConfig, container.go:334-381): an update is never half a row.
THEOREM RowsFollowObjects == Spec => []StoredIsConfig
<1>1. SInv => StoredIsConfig
  BY DEF SInv, Sequential, RowsAgree, StoredIsConfig, Quiet, Busy, AtRest, Answers
<1> QED BY <1>1, StaysSequential, PTL

\* And docker has the container on the network of that configuration alone, at the address
\* the object knows, with the tool or without it (updateConfig, container.go:383-477).
THEOREM DockerFollowsObjects == Spec => []DockerFollowsConfig
<1>1. SInv => DockerFollowsConfig
  <2> SUFFICES ASSUME SInv, clean, Quiet, registered, started
               PROVE  OnNetworkOf(config) /\ HasToolOf(config)
    BY DEF DockerFollowsConfig, OnNetworkOf, HasToolOf
  <2>1. \A w \in Workers : pc[w] \notin Moving /\ pc[w] \notin {"deleteAuth", "deleteSettings"}
    BY DEF Quiet, Busy, AtRest, Answers, Moving
  <2>2. docker # "removed"
    BY <2>1 DEF SInv, Sequential, RemovalClears
  <2> QED BY <2>1, <2>2 DEF SInv, Sequential, DockerFollows
<1> QED BY <1>1, StaysSequential, PTL

\* A container that was removed by a session nobody interfered with has no rows left
\* (container.go:139-143).
THEOREM RemovalsLeaveNoSettings == Spec => []RemovedLeavesNoSettings
<1>1. SInv => RemovedLeavesNoSettings
  BY DEF SInv, Sequential, RemovalClears, RemovedLeavesNoSettings, Quiet, Busy, AtRest, Answers
<1> QED BY <1>1, StaysSequential, PTL

===============================================================================
