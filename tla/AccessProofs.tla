----------------------------- MODULE AccessProofs -----------------------------
(***************************************************************************)
(* The invariants of Access, proved for any number of connections,         *)
(* channels, requests, profiles and addresses: a request works on the      *)
(* container it comes from, an attached container is found by its address, *)
(* a row names a user, and an answer of 200 means what it says.            *)
(***************************************************************************)
EXTENDS Access, TLAPS, WellFoundedInduction

\* A login that is served has a user in the list and what it was granted, and only such a
\* connection has channels.
UsersAreServed ==
    /\ \A c \in Connections :
          /\ login[c] = "served" <=> wants[c] # None
          /\ login[c] = "served" => \E i \in DOMAIN users : users[i] = c
          /\ wants[c] # None /\ wants[c].container # None => config[wants[c].container] # None
    /\ \A i \in DOMAIN users : login[users[i]] = "served"
    /\ \A ch \in Channels : pc[ch] # "idle" => login[ch[1]] = "served"

\* An object has a container from the moment its channel takes it, a container and a row
\* have a configuration, and so has what a user or a channel holds.
ObjectsHaveContainers ==
    /\ \A ch \in Channels : pc[ch] \in {"idle", "get"} => of[ch] = None
    /\ \A o \in Channels : of[o] = None => ip[o] = None /\ o \notin registered
    /\ \A o \in Channels : of[o] # None => config[of[o]] # None
    /\ \A k \in Channels : auth[k] # None => config[k] # None

\* A user has the container of a channel that was opened; of two or more channels, the
\* container of any.
UsersHaveContainers ==
    /\ \A c \in Connections : container[c] # None =>
          /\ of[container[c]] # None
          /\ \E ch \in Channels : ch[1] = c /\ pc[ch] \notin {"idle", "get"}
    /\ \A ch \in Channels : pc[ch] \in {"start", "attached", "check"} =>
          /\ object[ch] # None /\ of[object[ch]] # None
          /\ container[ch[1]] = object[ch] \/ Crowded(ch[1])

\* An address that an object and docker both know is that of one container, or was reused.
AddressesAreOf ==
    \A o, k \in Channels : ip[o] # None /\ ip[o] = address[k] => of[o] = k \/ reused

\* What a request at work holds, and what is left for it to write.
RequestsHold ==
    \A r \in AtWork :
        /\ request[r].from # None /\ request[r].user # None
        /\ container[request[r].user] # None
        /\ request[r].at # "read" => request[r].body # None
        /\ request[r].at = "user" => request[r].body.user \in Names
        /\ request[r].at = "delete" => request[r].body.password = Empty
        /\ request[r].at \in {"name", "password"} => request[r].body.password \in Passwords

\* Two requests at work disturb one another.
OneAtWork ==
    \A r, q \in AtWork : r = q \/ {r, q} \subseteq disturbed

\* The row of an undisturbed request is the one it read, or has the name that goes with
\* the password it is about to write.
RowsAreAsRead ==
    \A r \in AtWork : r \in disturbed \/ Crowded(request[r].user) \/
        /\ request[r].at = "user" => request[r].missed \/ auth[Served(r)] = request[r].old
        /\ request[r].at = "password" =>
              auth[Served(r)] # None /\ auth[Served(r)].user = OldName(r)

IInv == /\ TypeOK /\ UsersAreServed /\ ObjectsHaveContainers /\ UsersHaveContainers
        /\ AddressesAreOf /\ RequestsHold /\ OneAtWork /\ RowsAreAsRead
        /\ RequestsAreOwn /\ RowHasUser

-------------------------------------------------------------------------------
(* Lemmas about the helpers *)

\* A set of numbers that is not empty has a least one.
LEMMA LeastExists ==
    ASSUME NEW T, T \subseteq Nat, T # {}
    PROVE  \E i \in T : \A j \in T : i <= j
<1> DEFINE R == OpToRel(<, Nat)
<1>1. IsWellFoundedOn(R, Nat)
  BY NatLessThanWellFounded
<1>2. R = {ss \in Nat \X Nat : ss[1] < ss[2]}
  BY Zenon DEF OpToRel
<1> HIDE DEF R
<1>3. PICK i \in T : \A j \in T : ~ (<<j, i>> \in R)
  BY <1>1, WFMin
<1>4. ASSUME NEW j \in T PROVE i <= j
  <2>1. ~(j < i)
    BY <1>2, <1>3
  <2> QED BY <2>1
<1> QED BY <1>4

\* GetUser finds a user whose container has the address, if there is one.
LEMMA GetUserFinds ==
    ASSUME TypeOK, NEW a
    PROVE  /\ GetUser(a) \in Connections \cup {None}
           /\ GetUser(a) # None => /\ container[GetUser(a)] # None
                                   /\ ip[container[GetUser(a)]] = a
           /\ (\E i \in DOMAIN users : container[users[i]] # None /\ ip[container[users[i]]] = a)
              => GetUser(a) # None
<1> DEFINE found == {i \in DOMAIN users : container[users[i]] # None /\ ip[container[users[i]]] = a}
<1>1. users \in Seq(Connections) /\ DOMAIN users = 1..Len(users) /\ Len(users) \in Nat
  BY DEF TypeOK
<1>2. found \subseteq Nat
  BY <1>1
<1>3. CASE found = {}
  BY <1>3 DEF GetUser
<1>4. CASE found # {}
  <2> DEFINE i == CHOOSE i \in found : \A j \in found : i <= j
  <2>1. i \in found
    <3> HIDE DEF found
    <3> QED BY <1>2, <1>4, LeastExists
  <2>2. GetUser(a) = users[i]
    BY <1>4 DEF GetUser
  <2>3. i \in DOMAIN users /\ container[users[i]] # None /\ ip[container[users[i]]] = a
    BY <2>1
  <2> HIDE DEF i, found
  <2>4. users[i] \in Connections
    BY <1>1, <2>3
  <2>5. users[i] # None
    BY <2>4, NoneIsNothing
  <2> QED BY <2>2, <2>3, <2>4, <2>5
<1> QED BY <1>3, <1>4

\* A profile that matches is found again by its name.
LEMMA MatchFinds ==
    ASSUME NEW name, Match(name) # None
    PROVE  GetByName(Match(name).name) \in Profile
<1> DEFINE matching == {i \in DOMAIN Profiles : name \in Profiles[i].accepts}
           m == CHOOSE i \in matching : \A j \in matching : i <= j
           named == {i \in DOMAIN Profiles : Profiles[i].name = Match(name).name}
           n == CHOOSE i \in named : \A j \in named : i <= j
<1>1. Profiles \in Seq(Profile) /\ DOMAIN Profiles = 1..Len(Profiles) /\ Len(Profiles) \in Nat
  BY ProfilesAreProfiles
<1>2. matching \subseteq Nat /\ named \subseteq Nat
  BY <1>1
<1>3. matching # {} /\ Match(name) = Profiles[m]
  BY DEF Match
<1>4. m \in matching
  <2> HIDE DEF matching
  <2> QED BY <1>2, <1>3, LeastExists
<1>5. m \in named
  BY <1>3, <1>4
<1>6. n \in named
  <2> HIDE DEF named
  <2> QED BY <1>2, <1>5, LeastExists
<1>7. GetByName(Match(name).name) = Profiles[n]
  BY DEF GetByName
<1> QED BY <1>1, <1>6, <1>7

\* What a login is granted.
LEMMA GrantedIs ==
    ASSUME IInv, NEW name, NEW granted \in Granted(name)
    PROVE  /\ granted \in Want /\ granted # None
           /\ granted.container # None => config[granted.container] # None
<1>1. granted \in Want /\ (granted.container # None => config[granted.container] # None)
  <2>1. CASE ContainersByAuth # {}
    <3>1. PICK k \in ContainersByAuth : granted = [profile |-> config[k], container |-> k]
      BY <2>1 DEF Granted
    <3>2. k \in Channels /\ auth[k] # None
      BY DEF ContainersByAuth
    <3>3. config[k] # None /\ config[k] \in Profile
      BY <3>2 DEF IInv, TypeOK, ObjectsHaveContainers
    <3> QED BY <3>1, <3>2, <3>3 DEF Want
  <2>2. CASE ContainersByAuth = {} /\ Match(name) # None
    <3>1. granted = [profile |-> GetByName(Match(name).name), container |-> None]
      BY <2>2 DEF Granted
    <3>2. GetByName(Match(name).name) \in Profile
      BY <2>2, MatchFinds
    <3> QED BY <3>1, <3>2 DEF Want
  <2>3. CASE ContainersByAuth = {} /\ Match(name) = None
    <3>1. PICK p \in {Dynamic} \ {None} : granted = [profile |-> p, container |-> None]
      BY <2>3 DEF Granted
    <3>2. p \in Profile
      BY ProfilesAreProfiles
    <3> QED BY <3>1, <3>2 DEF Want
  <2> QED BY <2>1, <2>2, <2>3
<1>2. granted # None
  BY <1>1, NoneIsNothing
<1> QED BY <1>1, <1>2

-------------------------------------------------------------------------------
(* What a step may do *)

\* A connection whose channels crowd one another stays so, for no channel is idle again.
LEMMA CrowdedStays ==
    ASSUME NEW c, Crowded(c), \A ch \in Channels : pc[ch] # "idle" => pc'[ch] # "idle"
    PROVE  Crowded(c)'
BY DEF Crowded

\* A step of a session or a login keeps what relates requests to users and rows, if users
\* keep their containers and rows are only removed, and then the requests at work disturbed.
LEMMA RequestsStay ==
    ASSUME IInv, UNCHANGED request, disturbed \subseteq disturbed', reused => reused',
           \A ch \in Channels : pc[ch] # "idle" => pc'[ch] # "idle",
           \A c \in Connections : container[c] # None =>
              container'[c] # None /\ (of'[container'[c]] = of[container[c]] \/ Crowded(c)'),
           \A k \in Channels : auth'[k] = auth[k] \/ (auth'[k] = None /\ AtWork \subseteq disturbed')
    PROVE  RequestsHold' /\ OneAtWork' /\ RowsAreAsRead' /\ RequestsAreOwn' /\ RowHasUser'
<1>1. AtWork' = AtWork
  BY DEF AtWork
<1>2. \A r \in AtWork : /\ request[r].user \in Connections
                        /\ container[request[r].user] # None
                        /\ Served(r) \in Channels
  <2> SUFFICES ASSUME NEW r \in AtWork
               PROVE  /\ request[r].user \in Connections
                      /\ container[request[r].user] # None
                      /\ Served(r) \in Channels
    OBVIOUS
  <2>1. request[r].user \in Connections \cup {None} /\ request[r].user # None
    BY DEF IInv, TypeOK, AtWork, RequestsHold
  <2>2. container[request[r].user] # None
    BY DEF IInv, RequestsHold
  <2> DEFINE o == container[request[r].user]
  <2>3. o \in Channels /\ of[o] # None
    BY <2>1, <2>2 DEF IInv, TypeOK, UsersHaveContainers
  <2> QED BY <2>1, <2>2, <2>3 DEF IInv, TypeOK, Served
<1>3. \A c \in Connections : Crowded(c) => Crowded(c)'
  BY CrowdedStays
<1>4. \A r \in AtWork : \/ Served(r)' = Served(r)
                        \/ Crowded(request[r].user)'
  BY <1>2 DEF Served
<1>5. RequestsHold'
  BY <1>1, <1>2 DEF IInv, RequestsHold
<1>6. OneAtWork'
  BY <1>1 DEF IInv, OneAtWork
<1>7. RowsAreAsRead'
  <2> SUFFICES ASSUME NEW r \in AtWork, r \notin disturbed', ~Crowded(request[r].user)'
               PROVE  /\ request[r].at = "user" =>
                            request[r].missed \/ auth'[Served(r)'] = request[r].old
                      /\ request[r].at = "password" =>
                            auth'[Served(r)'] # None /\ auth'[Served(r)'].user = OldName(r)'
    BY <1>1 DEF RowsAreAsRead
  <2>1. r \notin disturbed /\ ~Crowded(request[r].user)
    BY <1>2, <1>3
  <2>2. /\ request[r].at = "user" => request[r].missed \/ auth[Served(r)] = request[r].old
        /\ request[r].at = "password" =>
              auth[Served(r)] # None /\ auth[Served(r)].user = OldName(r)
    BY <2>1 DEF IInv, RowsAreAsRead
  <2>3. Served(r)' = Served(r) /\ auth'[Served(r)] = auth[Served(r)]
    BY <1>2, <1>4
  <2>4. OldName(r)' = OldName(r)
    BY <2>3 DEF OldName
  <2> QED BY <2>2, <2>3, <2>4
<1>8. RequestsAreOwn'
  BY <1>1, <1>2, <1>3, <1>4 DEF IInv, RequestsAreOwn
<1>9. RowHasUser'
  BY <1>3 DEF IInv, RowHasUser
<1> QED BY <1>5, <1>6, <1>7, <1>8, <1>9

-------------------------------------------------------------------------------
(* Logins and channels *)

\* Goto moves one channel, and no other.
LEMMA Moves ==
    ASSUME TypeOK, NEW ch \in Channels,
           NEW label \in {"idle", "get", "start", "attached", "check", "over"}, Goto(ch, label)
    PROVE  /\ pc' \in [Channels -> {"idle", "get", "start", "attached", "check", "over"}]
           /\ pc'[ch] = label /\ \A x \in Channels \ {ch} : pc'[x] = pc[x]
BY DEF TypeOK, Goto

\* Login keeps the invariant: it appends a user that is not in the list.
LEMMA LoginKeeps ==
    ASSUME IInv, NEW c \in Connections, NEW name \in Names, Login(c, name)
    PROVE  IInv'
<1> USE DEF channelVars, objectVars, dockerVars, requestVars
<1>1. /\ login[c] = "idle"
      /\ UNCHANGED <<container, pc, object, of, started, ip, registered, docker, address,
                     config, reused, auth, request, disturbed>>
  BY DEF Login
<1>2. RequestsHold' /\ OneAtWork' /\ RowsAreAsRead' /\ RequestsAreOwn' /\ RowHasUser'
  BY <1>1, RequestsStay
<1>3. ObjectsHaveContainers' /\ UsersHaveContainers' /\ AddressesAreOf'
  <2>1. \A x \in Connections : Crowded(x) => Crowded(x)'
    BY <1>1, CrowdedStays
  <2>2. ObjectsHaveContainers' /\ AddressesAreOf'
    BY <1>1 DEF IInv, ObjectsHaveContainers, AddressesAreOf
  <2>3. UsersHaveContainers'
    BY <1>1, <2>1, ChannelsHaveConnections DEF IInv, UsersHaveContainers
  <2> QED BY <2>2, <2>3
<1>4. /\ users \in Seq(Connections) /\ DOMAIN users = 1..Len(users) /\ Len(users) \in Nat
      /\ login \in [Connections -> {"idle", "refused", "served"}]
      /\ wants \in [Connections -> Want \cup {None}]
      /\ \A i, j \in DOMAIN users : users[i] = users[j] => i = j
  BY DEF IInv, TypeOK
<1>5. CASE login' = [login EXCEPT ![c] = "refused"] /\ UNCHANGED <<users, wants>>
  <2>1. TypeOK'
    BY <1>1, <1>4, <1>5 DEF IInv, TypeOK
  <2>2. UsersAreServed'
    BY <1>1, <1>4, <1>5, ChannelsHaveConnections DEF IInv, UsersAreServed
  <2> QED BY <1>2, <1>3, <2>1, <2>2 DEF IInv
<1>6. CASE login' = [login EXCEPT ![c] = "served"]
  <2>1. PICK granted \in Granted(name) : wants' = [wants EXCEPT ![c] = granted]
    BY <1>4, <1>6 DEF Login
  <2>2. /\ granted \in Want /\ granted # None
        /\ granted.container # None => config[granted.container] # None
    BY GrantedIs
  <2>3. users' = Append(users, c)
    BY <1>4, <1>6 DEF Login
  <2>4. /\ users' \in Seq(Connections) /\ DOMAIN users' = 1..Len(users)+1
        /\ users'[Len(users)+1] = c
        /\ \A i \in DOMAIN users : users'[i] = users[i]
    BY <1>4, <2>3
  <2>5. \A i \in DOMAIN users : users[i] # c
    BY <1>1 DEF IInv, UsersAreServed
  <2>6. \A i, j \in DOMAIN users' : users'[i] = users'[j] => i = j
    BY <1>4, <2>4, <2>5
  <2>7. TypeOK'
    BY <1>1, <1>4, <1>6, <2>1, <2>2, <2>4, <2>6 DEF IInv, TypeOK
  <2>8. UsersAreServed'
    <3>1. ASSUME NEW x \in Connections
          PROVE  /\ login'[x] = "served" <=> wants'[x] # None
                 /\ login'[x] = "served" => \E i \in DOMAIN users' : users'[i] = x
                 /\ wants'[x] # None /\ wants'[x].container # None
                       => config'[wants'[x].container] # None
      <4>1. CASE x = c
        BY <1>1, <1>4, <1>6, <2>1, <2>2, <2>4, <4>1
      <4>2. CASE x # c
        <5>1. login'[x] = login[x] /\ wants'[x] = wants[x]
          BY <1>4, <1>6, <2>1, <4>2
        <5>2. login[x] = "served" => \E i \in DOMAIN users' : users'[i] = x
          BY <1>4, <2>4 DEF IInv, UsersAreServed
        <5> QED BY <1>1, <5>1, <5>2 DEF IInv, UsersAreServed
      <4> QED BY <4>1, <4>2
    <3>2. \A i \in DOMAIN users' : login'[users'[i]] = "served"
      <4>1. \A i \in DOMAIN users : users[i] \in Connections /\ login[users[i]] = "served"
        BY <1>4 DEF IInv, UsersAreServed
      <4>2. \A i \in DOMAIN users : login'[users'[i]] = "served"
        BY <1>4, <1>6, <2>4, <4>1
      <4> QED BY <1>4, <1>6, <2>4, <4>2
    <3>3. \A ch \in Channels : pc'[ch] # "idle" => login'[ch[1]] = "served"
      BY <1>1, <1>4, <1>6, ChannelsHaveConnections DEF IInv, UsersAreServed
    <3> QED BY <3>1, <3>2, <3>3 DEF UsersAreServed
  <2> QED BY <1>2, <1>3, <2>7, <2>8 DEF IInv
<1> QED BY <1>5, <1>6 DEF Login

\* OpenChannel keeps the invariant: only a connection that is served has channels.
LEMMA OpenChannelKeeps ==
    ASSUME IInv, NEW ch \in Channels, OpenChannel(ch)
    PROVE  IInv'
<1> USE DEF userVars, objectVars, dockerVars, requestVars
<1>1. /\ pc[ch] = "idle" /\ login[ch[1]] = "served" /\ Goto(ch, "get")
      /\ UNCHANGED <<users, login, wants, container, object, of, started, ip, registered, docker,
                     address, config, reused, auth, request, disturbed>>
  BY DEF OpenChannel
<1>2. /\ pc' \in [Channels -> {"idle", "get", "start", "attached", "check", "over"}]
      /\ pc'[ch] = "get" /\ \A x \in Channels \ {ch} : pc'[x] = pc[x]
  BY <1>1, Moves DEF IInv
<1>3. \A x \in Channels : pc[x] # "idle" => pc'[x] # "idle"
  BY <1>2
<1>4. RequestsHold' /\ OneAtWork' /\ RowsAreAsRead' /\ RequestsAreOwn' /\ RowHasUser'
  BY <1>1, <1>3, RequestsStay
<1>5. TypeOK' /\ UsersAreServed' /\ AddressesAreOf'
  BY <1>1, <1>2 DEF IInv, TypeOK, UsersAreServed, AddressesAreOf
<1>6. ObjectsHaveContainers'
  BY <1>1, <1>2 DEF IInv, ObjectsHaveContainers
<1>7. UsersHaveContainers'
  <2>1. \A c \in Connections : Crowded(c) => Crowded(c)'
    BY <1>3, CrowdedStays
  <2> QED BY <1>1, <1>2, <2>1, ChannelsHaveConnections DEF IInv, UsersHaveContainers
<1> QED BY <1>4, <1>5, <1>6, <1>7 DEF IInv

\* What Take makes of objects and users: the object is new or has the container already,
\* and a connection that had a container has another channel.
LEMMA TakeKeeps ==
    ASSUME IInv, NEW ch \in Channels, NEW o \in Channels, NEW k \in Channels, Take(ch, o, k),
           pc[ch] = "get", of[o] = k \/ o = ch, config'[k] # None,
           config' \in [Channels -> Profile \cup {None}],
           docker' \in [Channels -> {"absent", "stopped", "running", "removed"}],
           \A j \in Channels : config[j] # None => config'[j] # None,
           UNCHANGED <<users, login, wants, started, ip, address, reused, auth, request, disturbed>>
    PROVE  IInv'
<1>1. /\ object' = [object EXCEPT ![ch] = o] /\ container' = [container EXCEPT ![ch[1]] = o]
      /\ registered' = registered \cup {o} /\ of' = [of EXCEPT ![o] = k] /\ Goto(ch, "start")
  BY DEF Take
<1>2. /\ pc' \in [Channels -> {"idle", "get", "start", "attached", "check", "over"}]
      /\ pc'[ch] = "start" /\ \A x \in Channels \ {ch} : pc'[x] = pc[x]
  BY <1>1, Moves DEF IInv
<1>3. \A x \in Channels : pc[x] # "idle" => pc'[x] # "idle"
  BY <1>2
<1>4. None \notin Channels /\ ch[1] \in Connections
  BY NoneIsNothing, ChannelsHaveConnections
<1>5. /\ object \in [Channels -> Channels \cup {None}]
      /\ container \in [Connections -> Channels \cup {None}]
      /\ of \in [Channels -> Channels \cup {None}]
  BY DEF IInv, TypeOK
<1>6. of[ch] = None
  BY DEF IInv, ObjectsHaveContainers
<1>7. /\ object'[ch] = o /\ \A x \in Channels \ {ch} : object'[x] = object[x]
      /\ container'[ch[1]] = o /\ \A c \in Connections \ {ch[1]} : container'[c] = container[c]
      /\ of'[o] = k /\ \A x \in Channels : of[x] # None => of'[x] = of[x]
      /\ \A x \in Channels \ {o} : of'[x] = of[x]
  BY <1>1, <1>4, <1>5, <1>6
<1>8. \A c \in Connections : Crowded(c) => Crowded(c)'
  BY <1>3, CrowdedStays
<1>9. container[ch[1]] # None => Crowded(ch[1])
  <2> SUFFICES ASSUME container[ch[1]] # None PROVE Crowded(ch[1])
    OBVIOUS
  <2>1. PICK x \in Channels : x[1] = ch[1] /\ pc[x] \notin {"idle", "get"}
    BY <1>4 DEF IInv, UsersHaveContainers
  <2>2. x # ch
    BY <2>1
  <2> QED BY <2>1, <2>2 DEF Crowded
<1>10. TypeOK'
  <2>1. /\ object' \in [Channels -> Channels \cup {None}]
        /\ container' \in [Connections -> Channels \cup {None}]
        /\ of' \in [Channels -> Channels \cup {None}]
    BY <1>1, <1>5
  <2>2. registered' \in SUBSET Channels
    BY <1>1 DEF IInv, TypeOK
  <2> QED BY <1>2, <2>1, <2>2 DEF IInv, TypeOK
<1>11. UsersAreServed'
  <2>1. \A c \in Connections : wants[c] # None => wants[c].container \in Channels \cup {None}
    BY DEF IInv, TypeOK, Want
  <2> QED BY <1>2, <2>1 DEF IInv, UsersAreServed
<1>12. ObjectsHaveContainers'
  <2>1. \A x \in Channels : pc'[x] \in {"idle", "get"} => of'[x] = None
    <3> SUFFICES ASSUME NEW x \in Channels, pc'[x] \in {"idle", "get"} PROVE of'[x] = None
      OBVIOUS
    <3>1. x # ch /\ of[x] = None
      BY <1>2 DEF IInv, ObjectsHaveContainers
    <3>2. x # o
      BY <1>4, <3>1
    <3> QED BY <1>7, <3>1, <3>2
  <2>2. \A x \in Channels : of'[x] = None => ip'[x] = None /\ x \notin registered'
    BY <1>1, <1>4, <1>7 DEF IInv, ObjectsHaveContainers
  <2>3. \A x \in Channels : of'[x] # None => config'[of'[x]] # None
    BY <1>5, <1>7 DEF IInv, ObjectsHaveContainers
  <2>4. \A j \in Channels : auth'[j] # None => config'[j] # None
    BY DEF IInv, ObjectsHaveContainers
  <2> QED BY <2>1, <2>2, <2>3, <2>4 DEF ObjectsHaveContainers
<1>13. UsersHaveContainers'
  <2>1. ASSUME NEW c \in Connections, container'[c] # None
        PROVE  /\ of'[container'[c]] # None
               /\ \E x \in Channels : x[1] = c /\ pc'[x] \notin {"idle", "get"}
    <3>1. CASE c = ch[1]
      BY <1>2, <1>4, <1>7, <3>1
    <3>2. CASE c # ch[1]
      <4>1. container[c] \in Channels /\ of[container[c]] # None
        BY <1>5, <1>7, <2>1, <3>2 DEF IInv, UsersHaveContainers
      <4>2. \E x \in Channels : x[1] = c /\ pc[x] \notin {"idle", "get"}
        BY <4>1, <1>4 DEF IInv, UsersHaveContainers
      <4> QED BY <1>2, <1>7, <3>2, <4>1, <4>2
    <3> QED BY <3>1, <3>2
  <2>2. ASSUME NEW x \in Channels, pc'[x] \in {"start", "attached", "check"}
        PROVE  /\ object'[x] # None /\ of'[object'[x]] # None
               /\ container'[x[1]] = object'[x] \/ Crowded(x[1])'
    <3>1. CASE x = ch
      BY <1>4, <1>7, <3>1
    <3>2. CASE x # ch
      <4>1. /\ object[x] # None /\ of[object[x]] # None /\ object[x] \in Channels
            /\ container[x[1]] = object[x] \/ Crowded(x[1])
        BY <1>2, <1>5, <2>2, <3>2 DEF IInv, UsersHaveContainers
      <4>2. x[1] = ch[1] => Crowded(ch[1])
        BY <2>2, <1>2, <3>2 DEF Crowded
      <4>3. x[1] \in Connections
        BY ChannelsHaveConnections
      <4> QED BY <1>7, <1>8, <3>2, <4>1, <4>2, <4>3
    <3> QED BY <3>1, <3>2
  <2> QED BY <2>1, <2>2 DEF UsersHaveContainers
<1>14. AddressesAreOf'
  <2>1. \A x \in Channels : ip[x] # None => of[x] # None
    BY DEF IInv, ObjectsHaveContainers
  <2> QED BY <1>7, <2>1 DEF IInv, AddressesAreOf
<1>15. RequestsHold' /\ OneAtWork' /\ RowsAreAsRead' /\ RequestsAreOwn' /\ RowHasUser'
  <2>1. ASSUME NEW c \in Connections, container[c] # None
        PROVE  container'[c] # None /\ (of'[container'[c]] = of[container[c]] \/ Crowded(c)')
    <3>1. container[c] \in Channels /\ of[container[c]] # None
      BY <1>5, <2>1 DEF IInv, UsersHaveContainers
    <3>2. CASE c = ch[1]
      BY <1>4, <1>7, <1>8, <1>9, <2>1, <3>2
    <3>3. CASE c # ch[1]
      BY <1>7, <2>1, <3>1, <3>3
    <3> QED BY <3>2, <3>3
  <2> QED BY <1>3, <2>1, RequestsStay
<1> QED BY <1>10, <1>11, <1>12, <1>13, <1>14, <1>15 DEF IInv

\* GetContainer keeps the invariant: a container it makes or comes back to has a
\* configuration, and an object it shares is of that container.
LEMMA GetContainerKeeps ==
    ASSUME IInv, NEW ch \in Channels, GetContainer(ch)
    PROVE  IInv'
<1> DEFINE want == wants[ch[1]]
<1>1. /\ pc[ch] = "get"
      /\ UNCHANGED <<users, login, wants, started, ip, address, reused, auth, request, disturbed>>
  BY DEF GetContainer, requestVars
<1>2. ch[1] \in Connections /\ login[ch[1]] = "served"
  BY <1>1, ChannelsHaveConnections DEF IInv, UsersAreServed
<1>3. want \in Want /\ (want.container # None => config[want.container] # None)
  BY <1>2 DEF IInv, TypeOK, UsersAreServed
<1>4. want.profile \in Profile /\ want.container \in Channels \cup {None}
  BY <1>3 DEF Want
<1>5. /\ config \in [Channels -> Profile \cup {None}]
      /\ docker \in [Channels -> {"absent", "stopped", "running", "removed"}]
  BY DEF IInv, TypeOK
<1>6. CASE want.container = None
  <2>1. /\ Take(ch, ch, ch)
        /\ docker' = [docker EXCEPT ![ch] = "stopped"]
        /\ config' = [config EXCEPT ![ch] = want.profile]
    BY <1>6 DEF GetContainer
  <2>2. want.profile # None
    BY <1>4, NoneIsNothing
  <2>3. /\ config' \in [Channels -> Profile \cup {None}] /\ config'[ch] # None
        /\ docker' \in [Channels -> {"absent", "stopped", "running", "removed"}]
        /\ \A j \in Channels : config[j] # None => config'[j] # None
    BY <1>4, <1>5, <2>1, <2>2
  <2> QED BY <1>1, <2>1, <2>3, TakeKeeps
<1>7. CASE want.container # None
  <2>1. want.container \in Channels /\ UNCHANGED <<docker, config>>
    BY <1>4, <1>7 DEF GetContainer
  <2>2. CASE \E o \in registered : of[o] = want.container /\ Take(ch, o, want.container)
    <3>1. PICK o \in registered : of[o] = want.container /\ Take(ch, o, want.container)
      BY <2>2
    <3>2. o \in Channels
      BY DEF IInv, TypeOK
    <3> QED BY <1>1, <1>3, <1>5, <1>7, <2>1, <3>1, <3>2, TakeKeeps
  <2>3. CASE Take(ch, ch, want.container)
    BY <1>1, <1>3, <1>5, <1>7, <2>1, <2>3, TakeKeeps
  <2>4. CASE Goto(ch, "over") /\ UNCHANGED <<object, container, registered, of>>
    <3>1. /\ pc' \in [Channels -> {"idle", "get", "start", "attached", "check", "over"}]
          /\ pc'[ch] = "over" /\ \A x \in Channels \ {ch} : pc'[x] = pc[x]
      BY <2>4, Moves DEF IInv
    <3>2. \A x \in Channels : pc[x] # "idle" => pc'[x] # "idle"
      BY <3>1
    <3>3. RequestsHold' /\ OneAtWork' /\ RowsAreAsRead' /\ RequestsAreOwn' /\ RowHasUser'
      BY <1>1, <2>4, <3>2, RequestsStay
    <3>4. TypeOK' /\ UsersAreServed' /\ AddressesAreOf'
      BY <1>1, <1>2, <2>1, <2>4, <3>1 DEF IInv, TypeOK, UsersAreServed, AddressesAreOf
    <3>5. ObjectsHaveContainers'
      BY <1>1, <2>1, <2>4, <3>1 DEF IInv, ObjectsHaveContainers
    <3>6. UsersHaveContainers'
      <4>1. \A c \in Connections : Crowded(c) => Crowded(c)'
        BY <3>2, CrowdedStays
      <4> QED BY <2>4, <3>1, <4>1, ChannelsHaveConnections DEF IInv, UsersHaveContainers
    <3> QED BY <3>3, <3>4, <3>5, <3>6 DEF IInv
  <2> QED BY <1>7, <2>2, <2>3, <2>4 DEF GetContainer, Shared
<1> QED BY <1>6, <1>7

\* Serve keeps the invariant: an address that docker gives is not that of another container,
\* and one that an object of another container knows is reused.
LEMMA ServeKeeps ==
    ASSUME IInv, NEW ch \in Channels, Serve(ch)
    PROVE  IInv'
<1> USE DEF userVars, requestVars
<1> DEFINE o == object[ch]
           k == of[o]
<1>1. /\ pc[ch] = "start" /\ Goto(ch, IF docker[k] = "removed" THEN "check" ELSE "attached")
      /\ UNCHANGED <<users, login, wants, container, object, of, registered, config, auth,
                     request, disturbed>>
  BY DEF Serve
<1>2. \E label \in {"attached", "check"} : Goto(ch, label)
  BY <1>1
<1>3. PICK label \in {"attached", "check"} : Goto(ch, label)
  BY <1>2
<1>4. /\ pc' \in [Channels -> {"idle", "get", "start", "attached", "check", "over"}]
      /\ pc'[ch] = label /\ \A x \in Channels \ {ch} : pc'[x] = pc[x]
  BY <1>3, Moves DEF IInv
<1>5. \A x \in Channels : pc[x] # "idle" => pc'[x] # "idle"
  BY <1>4
<1>6. o \in Channels /\ k \in Channels
  BY <1>1 DEF IInv, TypeOK, UsersHaveContainers
<1>7. /\ docker' \in [Channels -> {"absent", "stopped", "running", "removed"}]
      /\ address' \in [Channels -> Addresses \cup {None}]
      /\ started' \in [Channels -> BOOLEAN] /\ ip' \in [Channels -> Addresses \cup {None}]
      /\ reused' \in BOOLEAN /\ (reused => reused')
      /\ \A x \in Channels : ip'[x] = ip[x] \/ x = o
      /\ AddressesAreOf'
  <2>1. /\ docker \in [Channels -> {"absent", "stopped", "running", "removed"}]
        /\ address \in [Channels -> Addresses \cup {None}]
        /\ started \in [Channels -> BOOLEAN] /\ ip \in [Channels -> Addresses \cup {None}]
        /\ reused \in BOOLEAN /\ AddressesAreOf
    BY DEF IInv, TypeOK
  <2>2. CASE UNCHANGED <<docker, address, started, ip, reused>>
    BY <1>1, <2>1, <2>2 DEF AddressesAreOf
  <2>3. CASE docker[k] = "stopped"
    <3>1. PICK a \in Addresses \ {address[j] : j \in Channels} :
             /\ address' = [address EXCEPT ![k] = a]
             /\ ReadAddress(o, a)
             /\ reused' = (reused \/ \E x \in Channels : ip[x] = a /\ of[x] # k)
      BY <2>3 DEF Serve
    <3>2. docker' = [docker EXCEPT ![k] = "running"]
      BY <2>3 DEF Serve
    <3>3. a \in Addresses /\ (\A j \in Channels : address[j] # a)
      BY <3>1
    <3>4. /\ started' = [started EXCEPT ![o] = TRUE]
          /\ ip' = IF started[o] THEN ip ELSE [ip EXCEPT ![o] = a]
      BY <3>1 DEF ReadAddress
    <3>5. docker' \in [Channels -> {"absent", "stopped", "running", "removed"}]
      BY <2>1, <3>2
    <3>6. address' \in [Channels -> Addresses \cup {None}] /\ address'[k] = a
          /\ \A j \in Channels \ {k} : address'[j] = address[j]
      BY <1>6, <2>1, <3>1, <3>3
    <3>7. started' \in [Channels -> BOOLEAN] /\ ip' \in [Channels -> Addresses \cup {None}]
      BY <2>1, <3>3, <3>4
    <3>8. \A x \in Channels : ip'[x] = ip[x] \/ (x = o /\ ip'[x] = a)
      BY <1>6, <2>1, <3>4
    <3>9. reused' \in BOOLEAN /\ (reused => reused')
      BY <2>1, <3>1
    <3>10. AddressesAreOf'
      <4> SUFFICES ASSUME NEW x \in Channels, NEW j \in Channels,
                          ip'[x] # None, ip'[x] = address'[j]
                   PROVE  of[x] = j \/ reused'
        BY <1>1 DEF AddressesAreOf
      <4>1. CASE x = o /\ ip'[x] = a
        BY <3>3, <3>6, <4>1
      <4>2. CASE ip'[x] = ip[x] /\ j = k
        <5>1. ip[x] = a
          BY <3>6, <4>2
        <5> QED BY <3>1, <4>2, <5>1
      <4>3. CASE ip'[x] = ip[x] /\ j # k
        <5>1. of[x] = j \/ reused
          BY <2>1, <3>6, <4>3 DEF AddressesAreOf
        <5> QED BY <3>9, <5>1
      <4> QED BY <3>8, <4>1, <4>2, <4>3
    <3> QED BY <3>5, <3>6, <3>7, <3>8, <3>9, <3>10
  <2> QED BY <2>2, <2>3 DEF Serve
<1>8. RequestsHold' /\ OneAtWork' /\ RowsAreAsRead' /\ RequestsAreOwn' /\ RowHasUser'
  BY <1>1, <1>5, <1>7, RequestsStay
<1>9. TypeOK'
  BY <1>1, <1>4, <1>7 DEF IInv, TypeOK
<1>10. UsersAreServed'
  BY <1>1, <1>4 DEF IInv, UsersAreServed
<1>11. ObjectsHaveContainers'
  BY <1>1, <1>4, <1>6, <1>7, NoneIsNothing DEF IInv, ObjectsHaveContainers
<1>12. UsersHaveContainers'
  <2>1. \A c \in Connections : Crowded(c) => Crowded(c)'
    BY <1>5, CrowdedStays
  <2> QED BY <1>1, <1>4, <2>1, ChannelsHaveConnections DEF IInv, UsersHaveContainers
<1> QED BY <1>7, <1>8, <1>9, <1>10, <1>11, <1>12 DEF IInv

\* TerminalEnds keeps the invariant.
LEMMA TerminalEndsKeeps ==
    ASSUME IInv, NEW ch \in Channels, TerminalEnds(ch)
    PROVE  IInv'
<1> USE DEF userVars, objectVars, dockerVars, requestVars
<1>1. /\ pc[ch] = "attached" /\ Goto(ch, "check")
      /\ UNCHANGED <<users, login, wants, container, object, of, started, ip, registered, docker,
                     address, config, reused, auth, request, disturbed>>
  BY DEF TerminalEnds
<1>2. /\ pc' \in [Channels -> {"idle", "get", "start", "attached", "check", "over"}]
      /\ pc'[ch] = "check" /\ \A x \in Channels \ {ch} : pc'[x] = pc[x]
  BY <1>1, Moves DEF IInv
<1>3. \A x \in Channels : pc[x] # "idle" => pc'[x] # "idle"
  BY <1>2
<1>4. RequestsHold' /\ OneAtWork' /\ RowsAreAsRead' /\ RequestsAreOwn' /\ RowHasUser'
  BY <1>1, <1>3, RequestsStay
<1>5. TypeOK' /\ UsersAreServed' /\ AddressesAreOf'
  BY <1>1, <1>2 DEF IInv, TypeOK, UsersAreServed, AddressesAreOf
<1>6. ObjectsHaveContainers'
  BY <1>1, <1>2 DEF IInv, ObjectsHaveContainers
<1>7. UsersHaveContainers'
  <2>1. \A c \in Connections : Crowded(c) => Crowded(c)'
    BY <1>3, CrowdedStays
  <2> QED BY <1>1, <1>2, <2>1, ChannelsHaveConnections DEF IInv, UsersHaveContainers
<1> QED BY <1>4, <1>5, <1>6, <1>7 DEF IInv

\* Leave keeps the invariant: it removes the row with the container, and disturbs the
\* requests at work.
LEMMA LeaveKeeps ==
    ASSUME IInv, NEW ch \in Channels, Leave(ch)
    PROVE  IInv'
<1> USE DEF userVars
<1> DEFINE o == object[ch]
           k == of[o]
<1>1. /\ pc[ch] = "check" /\ Goto(ch, "over")
      /\ UNCHANGED <<users, login, wants, container, object, of, started, ip, config, reused,
                     request>>
  BY DEF Leave
<1>2. /\ pc' \in [Channels -> {"idle", "get", "start", "attached", "check", "over"}]
      /\ pc'[ch] = "over" /\ \A x \in Channels \ {ch} : pc'[x] = pc[x]
  BY <1>1, Moves DEF IInv
<1>3. \A x \in Channels : pc[x] # "idle" => pc'[x] # "idle"
  BY <1>2
<1>4. o \in Channels /\ k \in Channels
  BY <1>1 DEF IInv, TypeOK, UsersHaveContainers
<1>5. /\ docker \in [Channels -> {"absent", "stopped", "running", "removed"}]
      /\ address \in [Channels -> Addresses \cup {None}]
      /\ auth \in [Channels -> Auth \cup {None}]
      /\ registered \in SUBSET Channels /\ disturbed \in SUBSET Requests
      /\ AtWork \subseteq Requests
  BY DEF IInv, TypeOK, AtWork
<1>6. /\ address' \in [Channels -> Addresses \cup {None}]
      /\ \A j \in Channels : address'[j] \in {address[j], None}
  BY <1>4, <1>5 DEF Leave
<1>7. registered' \subseteq registered
  BY DEF Leave
<1>8. /\ docker' \in [Channels -> {"absent", "stopped", "running", "removed"}]
      /\ auth' \in [Channels -> Auth \cup {None}] /\ disturbed' \in SUBSET Requests
      /\ disturbed \subseteq disturbed'
      /\ \A j \in Channels : auth'[j] = auth[j] \/ (auth'[j] = None /\ AtWork \subseteq disturbed')
  <2>1. CASE /\ docker' = [docker EXCEPT ![k] = "removed"]
             /\ auth' = [auth EXCEPT ![k] = None]
             /\ disturbed' = disturbed \cup AtWork
    <3>1. docker' \in [Channels -> {"absent", "stopped", "running", "removed"}]
      BY <1>5, <2>1
    <3>2. auth' \in [Channels -> Auth \cup {None}]
      BY <1>5, <2>1
    <3> QED BY <1>4, <1>5, <2>1, <3>1, <3>2
  <2>2. CASE /\ docker' \in {docker, [docker EXCEPT ![k] = "stopped"]}
             /\ UNCHANGED <<auth, disturbed>>
    BY <1>5, <2>2
  <2> QED BY <2>1, <2>2 DEF Leave
<1>9. RequestsHold' /\ OneAtWork' /\ RowsAreAsRead' /\ RequestsAreOwn' /\ RowHasUser'
  BY <1>1, <1>3, <1>8, RequestsStay
<1>10. TypeOK'
  BY <1>1, <1>2, <1>5, <1>6, <1>7, <1>8 DEF IInv, TypeOK
<1>11. UsersAreServed'
  BY <1>1, <1>2 DEF IInv, UsersAreServed
<1>12. ObjectsHaveContainers'
  BY <1>1, <1>2, <1>7, <1>8 DEF IInv, ObjectsHaveContainers
<1>13. UsersHaveContainers'
  <2>1. \A c \in Connections : Crowded(c) => Crowded(c)'
    BY <1>3, CrowdedStays
  <2> QED BY <1>1, <1>2, <2>1, ChannelsHaveConnections DEF IInv, UsersHaveContainers
<1>14. AddressesAreOf'
  BY <1>1, <1>6 DEF IInv, AddressesAreOf
<1> QED BY <1>9, <1>10, <1>11, <1>12, <1>13, <1>14 DEF IInv

\* StopsByItself keeps the invariant: the address is free again.
LEMMA StopsByItselfKeeps ==
    ASSUME IInv, NEW k \in Channels, StopsByItself(k)
    PROVE  IInv'
<1> USE DEF userVars, channelVars, objectVars, requestVars
<1>1. /\ docker' = [docker EXCEPT ![k] = "stopped"]
      /\ address' = [address EXCEPT ![k] = None]
      /\ UNCHANGED <<users, login, wants, container, pc, object, of, started, ip, registered,
                     config, reused, auth, request, disturbed>>
  BY DEF StopsByItself
<1>2. /\ docker \in [Channels -> {"absent", "stopped", "running", "removed"}]
      /\ address \in [Channels -> Addresses \cup {None}]
  BY DEF IInv, TypeOK
<1>3. /\ docker' \in [Channels -> {"absent", "stopped", "running", "removed"}]
      /\ address' \in [Channels -> Addresses \cup {None}]
      /\ \A j \in Channels : address'[j] \in {address[j], None}
  BY <1>1, <1>2
<1>4. RequestsHold' /\ OneAtWork' /\ RowsAreAsRead' /\ RequestsAreOwn' /\ RowHasUser'
  BY <1>1, RequestsStay
<1>5. TypeOK'
  BY <1>1, <1>3 DEF IInv, TypeOK
<1>6. UsersAreServed' /\ ObjectsHaveContainers'
  BY <1>1 DEF IInv, UsersAreServed, ObjectsHaveContainers
<1>7. UsersHaveContainers'
  <2>1. \A c \in Connections : Crowded(c) => Crowded(c)'
    BY <1>1, CrowdedStays
  <2> QED BY <1>1, <2>1, ChannelsHaveConnections DEF IInv, UsersHaveContainers
<1>8. AddressesAreOf'
  BY <1>1, <1>3 DEF IInv, AddressesAreOf
<1> QED BY <1>4, <1>5, <1>6, <1>7, <1>8 DEF IInv

-------------------------------------------------------------------------------
(* Requests *)

\* What a handler may hold.
Handler ==
    [at : {"idle", "read", "user", "delete", "name", "password", "ok", "refused", "failed",
           "panicked"},
     from : Channels \cup {None}, user : Connections \cup {None},
     body : Body \cup {None}, old : Auth \cup {None}, missed : BOOLEAN]

\* Ask keeps the invariant: the user it finds has a container that knows the address of
\* the caller, and a request that finds others at work disturbs them.
LEMMA AskKeeps ==
    ASSUME IInv, NEW r \in Requests, NEW k \in Channels, NEW body \in Bodies, Ask(r, k, body)
    PROVE  IInv'
<1> USE DEF userVars, channelVars, objectVars, dockerVars
<1> DEFINE u == GetUser(address[k])
           new == IF u = None THEN [Idle EXCEPT !.at = "refused"]
                  ELSE [Idle EXCEPT !.at = "read", !.from = k, !.user = u, !.body = body]
<1>1. /\ request[r].at = "idle" /\ address[k] # None
      /\ request' = [request EXCEPT ![r] = new]
      /\ disturbed' = IF AtWork = {} THEN disturbed ELSE disturbed \cup AtWork \cup {r}
      /\ UNCHANGED <<users, login, wants, container, pc, object, of, started, ip, registered, docker,
                     address, config, reused, auth>>
  BY DEF Ask
<1>2. /\ u \in Connections \cup {None}
      /\ u # None => container[u] # None /\ ip[container[u]] = address[k]
  BY GetUserFinds DEF IInv
<1>3. request \in [Requests -> Handler]
  BY DEF IInv, TypeOK, Handler
<1>4. body \in Body \cup {None}
  BY BodiesAreBodies
<1>5. new \in Handler
  BY <1>2, <1>4 DEF Idle, Handler
<1>6. new.at = (IF u = None THEN "refused" ELSE "read")
  BY DEF Idle
<1>7. u # None => new.from = k /\ new.user = u
  BY DEF Idle
<1> HIDE DEF new
<1>8. /\ request' \in [Requests -> Handler] /\ request'[r] = new
      /\ \A q \in Requests \ {r} : request'[q] = request[q]
  BY <1>1, <1>3, <1>5
<1>9. r \notin AtWork /\ AtWork \subseteq Requests
  BY <1>1 DEF AtWork
<1>10. AtWork' = IF u = None THEN AtWork ELSE AtWork \cup {r}
  <2>1. \A q \in Requests \ {r} : q \in AtWork' <=> q \in AtWork
    BY <1>8 DEF AtWork
  <2>2. r \in AtWork' <=> u # None
    BY <1>6, <1>8 DEF AtWork, Final
  <2>3. AtWork' \subseteq Requests
    BY DEF AtWork
  <2> QED BY <1>9, <2>1, <2>2, <2>3
<1>11. \A q \in AtWork : request'[q] = request[q]
  BY <1>8, <1>9
<1>12. disturbed' \in SUBSET Requests /\ disturbed \subseteq disturbed'
  BY <1>1, <1>9 DEF IInv, TypeOK
<1>13. \A c : Crowded(c)' <=> Crowded(c)
  BY <1>1 DEF Crowded
<1>14. TypeOK'
  <2>1. request' \in [Requests -> Handler]
    BY <1>8
  <2> QED BY <1>1, <1>12, <2>1 DEF IInv, TypeOK, Handler
<1>15. UsersAreServed' /\ ObjectsHaveContainers' /\ AddressesAreOf'
  BY <1>1 DEF IInv, UsersAreServed, ObjectsHaveContainers, AddressesAreOf
<1>16. UsersHaveContainers'
  BY <1>1, <1>13 DEF IInv, UsersHaveContainers
<1>17. RequestsHold'
  <2>1. \A q \in AtWork : /\ request'[q] = request[q] /\ container' = container
    BY <1>1, <1>11
  <2>2. u # None => /\ request'[r].from # None /\ request'[r].user # None
                    /\ container'[request'[r].user] # None /\ request'[r].at = "read"
    BY <1>1, <1>2, <1>6, <1>7, <1>8, NoneIsNothing
  <2> QED BY <1>10, <2>1, <2>2 DEF IInv, RequestsHold
<1>18. OneAtWork'
  BY <1>1, <1>10, <1>12 DEF IInv, OneAtWork
<1>19. RowsAreAsRead'
  <2>1. u # None => request'[r].at = "read"
    BY <1>6, <1>8
  <2>2. \A q \in AtWork : Served(q)' = Served(q) /\ OldName(q)' = OldName(q)
    BY <1>1, <1>11 DEF Served, OldName
  <2> QED BY <1>1, <1>10, <1>11, <1>12, <1>13, <2>1, <2>2 DEF IInv, RowsAreAsRead
<1>20. RequestsAreOwn'
  <2>1. \A q \in AtWork : Served(q)' = Served(q)
    BY <1>1, <1>11 DEF Served
  <2>2. u # None => Served(r)' = request'[r].from \/ reused
    <3> SUFFICES ASSUME u # None PROVE Served(r)' = request'[r].from \/ reused
      OBVIOUS
    <3>1. Served(r)' = of[container[u]] /\ request'[r].from = k
      BY <1>1, <1>7, <1>8 DEF Served
    <3>2. container[u] \in Channels /\ ip[container[u]] = address[k]
      BY <1>2 DEF IInv, TypeOK
    <3>3. of[container[u]] = k \/ reused
      BY <1>1, <3>2 DEF IInv, AddressesAreOf
    <3> QED BY <3>1, <3>3
  <2> QED BY <1>1, <1>10, <1>11, <1>13, <2>1, <2>2 DEF IInv, RequestsAreOwn
<1>21. RowHasUser'
  BY <1>1, <1>12, <1>13 DEF IInv, RowHasUser
<1> QED BY <1>14, <1>15, <1>16, <1>17, <1>18, <1>19, <1>20, <1>21 DEF IInv

\* The name that goes with a password when the statement before read old of container k.
NameAfter(old, k) == IF old = None \/ old.user = None THEN k ELSE old.user

\* A step of a request at work touches no row but that of its container, and no other
\* request: the others at work are disturbed already.
LEMMA RequestMoves ==
    ASSUME IInv, NEW r \in AtWork, NEW new \in Handler,
           request' = [request EXCEPT ![r] = new],
           UNCHANGED <<users, login, wants, container, pc, object, of, started, ip, registered,
                       docker, address, config, reused, disturbed>>,
           new.at # "idle",
           new.at \notin Final =>
              /\ new.from = request[r].from /\ new.user = request[r].user
              /\ new.at # "read" => new.body # None
              /\ new.at = "user" => new.body.user \in Names
              /\ new.at = "delete" => new.body.password = Empty
              /\ new.at \in {"name", "password"} => new.body.password \in Passwords,
           auth' \in [Channels -> Auth \cup {None}],
           \A k \in Channels \ {Served(r)} : auth'[k] = auth[k],
           \/ r \in disturbed \/ Crowded(request[r].user)
           \/ auth'[Served(r)] \in {auth[Served(r)], None} \/ auth'[Served(r)].user # None,
           \/ r \in disturbed \/ Crowded(request[r].user)
           \/ /\ new.at = "user" => new.missed \/ auth'[Served(r)] = new.old
              /\ new.at = "password" =>
                    /\ auth'[Served(r)] # None
                    /\ auth'[Served(r)].user = NameAfter(new.old, Served(r))
    PROVE  IInv'
<1>1. request \in [Requests -> Handler] /\ r \in Requests
  BY DEF IInv, TypeOK, Handler, AtWork
<1>2. /\ request' \in [Requests -> Handler] /\ request'[r] = new
      /\ \A q \in Requests \ {r} : request'[q] = request[q]
  BY <1>1
<1>3. /\ request[r].user \in Connections /\ container[request[r].user] # None
      /\ Served(r) \in Channels /\ config[Served(r)] # None /\ request[r].from # None
  <2>1. /\ request[r].user \in Connections \cup {None} /\ request[r].user # None
        /\ container[request[r].user] # None /\ request[r].from # None
    BY <1>1 DEF IInv, RequestsHold, Handler
  <2> DEFINE o == container[request[r].user]
  <2>2. o \in Channels /\ of[o] # None
    BY <2>1 DEF IInv, TypeOK, UsersHaveContainers
  <2>3. of[o] \in Channels /\ config[of[o]] # None
    BY <2>2 DEF IInv, TypeOK, ObjectsHaveContainers
  <2> QED BY <2>1, <2>3 DEF Served
<1>4. AtWork' = IF new.at \in Final THEN AtWork \ {r} ELSE AtWork
  <2>1. \A q \in Requests \ {r} : q \in AtWork' <=> q \in AtWork
    BY <1>2 DEF AtWork
  <2>2. r \in AtWork' <=> new.at \notin Final
    BY <1>1, <1>2 DEF AtWork, Final
  <2>3. AtWork' \subseteq Requests /\ AtWork \subseteq Requests
    BY DEF AtWork
  <2> QED BY <2>1, <2>2, <2>3
<1>5. \A q \in AtWork \ {r} : q \in Requests /\ request'[q] = request[q] /\ q \in disturbed
  <2>1. AtWork \subseteq Requests
    BY DEF AtWork
  <2> QED BY <1>2, <2>1 DEF IInv, OneAtWork
<1>6. \A c : Crowded(c)' <=> Crowded(c)
  BY DEF Crowded
<1>7. new.at \notin Final => Served(r)' = Served(r) /\ request'[r].user = request[r].user
  BY <1>2 DEF Served
<1>8. TypeOK'
  <2>1. request' \in [Requests -> Handler]
    BY <1>2
  <2> QED BY <2>1 DEF IInv, TypeOK, Handler
<1>9. UsersAreServed' /\ AddressesAreOf'
  BY DEF IInv, UsersAreServed, AddressesAreOf
<1>10. ObjectsHaveContainers'
  BY <1>3 DEF IInv, ObjectsHaveContainers
<1>11. UsersHaveContainers'
  BY <1>6 DEF IInv, UsersHaveContainers
<1>12. RequestsHold'
  <2>1. new.at \notin Final =>
           /\ request'[r].from # None /\ request'[r].user # None
           /\ container'[request'[r].user] # None
           /\ request'[r].at # "read" => request'[r].body # None
           /\ request'[r].at = "user" => request'[r].body.user \in Names
           /\ request'[r].at = "delete" => request'[r].body.password = Empty
           /\ request'[r].at \in {"name", "password"} => request'[r].body.password \in Passwords
    BY <1>2, <1>3, NoneIsNothing
  <2>2. \A q \in AtWork \ {r} : request'[q] = request[q] /\ container' = container
    BY <1>5
  <2> QED BY <1>4, <2>1, <2>2 DEF IInv, RequestsHold
<1>13. OneAtWork'
  BY <1>4 DEF IInv, OneAtWork
<1>14. RowsAreAsRead'
  <2> SUFFICES ASSUME NEW q \in AtWork', q \notin disturbed, ~Crowded(request'[q].user)
               PROVE  /\ request'[q].at = "user" =>
                            request'[q].missed \/ auth'[Served(q)'] = request'[q].old
                      /\ request'[q].at = "password" =>
                            auth'[Served(q)'] # None /\ auth'[Served(q)'].user = OldName(q)'
    BY <1>6 DEF RowsAreAsRead
  <2>1. q = r /\ new.at \notin Final
    BY <1>4, <1>5
  <2>2. Served(q)' = Served(r) /\ request'[q] = new /\ ~Crowded(request[r].user)
    BY <1>2, <1>7, <2>1
  <2>3. OldName(q)' = NameAfter(new.old, Served(r))
    BY <2>2 DEF OldName, NameAfter
  <2> QED BY <2>1, <2>2, <2>3
<1>15. RequestsAreOwn'
  <2>1. \A q \in AtWork \ {r} : Served(q)' = Served(q)
    BY <1>5 DEF Served
  <2> QED BY <1>2, <1>4, <1>5, <1>6, <1>7, <2>1 DEF IInv, RequestsAreOwn
<1>16. RowHasUser'
  <2> SUFFICES ASSUME disturbed = {}, \A c \in Connections : ~Crowded(c),
                      NEW k \in Channels, auth'[k] # None
               PROVE  auth'[k].user # None
    BY <1>6 DEF RowHasUser
  <2>1. CASE k = Served(r)
    <3>1. r \notin disturbed /\ ~Crowded(request[r].user)
      BY <1>3
    <3> QED BY <2>1, <3>1 DEF IInv, RowHasUser
  <2>2. CASE k # Served(r)
    BY <2>2 DEF IInv, RowHasUser
  <2> QED BY <2>1, <2>2
<1> QED BY <1>8, <1>9, <1>10, <1>11, <1>12, <1>13, <1>14, <1>15, <1>16 DEF IInv

\* What Move makes of a handler.
Answered(r, label) ==
    IF label \in Final THEN [Idle EXCEPT !.at = label] ELSE [request[r] EXCEPT !.at = label]

\* Move lets go of what the handler holds, or changes its place only.
LEMMA MoveIs ==
    ASSUME IInv, NEW r \in AtWork,
           NEW label \in {"user", "delete", "name", "password", "ok", "refused", "failed", "panicked"},
           Move(r, label)
    PROVE  /\ request' = [request EXCEPT ![r] = Answered(r, label)]
           /\ Answered(r, label) \in Handler /\ Answered(r, label).at = label
           /\ label \notin Final => /\ Answered(r, label).from = request[r].from
                                    /\ Answered(r, label).user = request[r].user
                                    /\ Answered(r, label).body = request[r].body
                                    /\ Answered(r, label).old = request[r].old
<1>1. request \in [Requests -> Handler] /\ r \in Requests /\ request[r] \in Handler
  BY DEF IInv, TypeOK, Handler, AtWork
<1>2. request' = [request EXCEPT ![r] = Answered(r, label)]
  BY <1>1 DEF Move, Answered
<1>3. CASE label \in Final
  <2>1. Answered(r, label) = [Idle EXCEPT !.at = label]
    BY <1>3 DEF Answered
  <2>2. [Idle EXCEPT !.at = label] \in Handler /\ [Idle EXCEPT !.at = label].at = label
    BY DEF Idle, Handler
  <2> QED BY <1>2, <1>3, <2>1, <2>2
<1>4. CASE label \notin Final
  <2>1. Answered(r, label) = [request[r] EXCEPT !.at = label]
    BY <1>4 DEF Answered
  <2>2. /\ [request[r] EXCEPT !.at = label] \in Handler
        /\ [request[r] EXCEPT !.at = label].at = label
        /\ [request[r] EXCEPT !.at = label].from = request[r].from
        /\ [request[r] EXCEPT !.at = label].user = request[r].user
        /\ [request[r] EXCEPT !.at = label].body = request[r].body
        /\ [request[r] EXCEPT !.at = label].old = request[r].old
    BY <1>1 DEF Handler
  <2> QED BY <1>2, <2>1, <2>2
<1> QED BY <1>3, <1>4

\* What is at hand in a step of a request: a body is one of a request, the container it
\* works on has a row or none, and the row of an undisturbed request has a user.
LEMMA AtHand ==
    ASSUME IInv, NEW r \in AtWork
    PROVE  /\ request[r].body # None =>
                 /\ request[r].body.user \in Names \cup {None, Empty}
                 /\ request[r].body.password \in Passwords \cup {None, Empty}
                 /\ request[r].body = [user |-> request[r].body.user,
                                       password |-> request[r].body.password]
           /\ Served(r) \in Channels /\ auth \in [Channels -> Auth \cup {None}]
           /\ auth[Served(r)] # None =>
                 /\ auth[Served(r)].user \in Names \cup Channels \cup {None}
                 /\ auth[Served(r)].password \in Passwords \cup {None}
           /\ request[r].old # None => request[r].old.user \in Names \cup Channels \cup {None}
<1>1. request \in [Requests -> Handler] /\ r \in Requests
  BY DEF IInv, TypeOK, Handler, AtWork
<1>2. request[r].body \in Body \cup {None} /\ request[r].old \in Auth \cup {None}
      /\ request[r].user \in Connections \cup {None}
  BY <1>1 DEF Handler
<1>3. Served(r) \in Channels /\ auth \in [Channels -> Auth \cup {None}]
  <2>1. request[r].user \in Connections /\ container[request[r].user] # None
    BY <1>2 DEF IInv, RequestsHold
  <2>2. container[request[r].user] \in Channels /\ of[container[request[r].user]] # None
    BY <2>1 DEF IInv, TypeOK, UsersHaveContainers
  <2> QED BY <2>2 DEF IInv, TypeOK, Served
<1>4. auth[Served(r)] \in Auth \cup {None}
  BY <1>3
<1> QED BY <1>2, <1>3, <1>4 DEF Body, Auth

\* What comes after the user name, by the password that was asked for.
LEMMA AfterUserIs ==
    ASSUME NEW body, body.password \in Passwords \cup {None, Empty}
    PROVE  /\ AfterUser(body) \in {"ok", "delete", "name"}
           /\ AfterUser(body) = "ok" => body.password = None
           /\ AfterUser(body) = "delete" => body.password = Empty
           /\ AfterUser(body) = "name" => body.password \in Passwords
           /\ body.password \in Passwords => AfterUser(body) = "name"
BY NoneIsNothing DEF AfterUser

\* A request at one of the places of a handler is at work.
LEMMA IsAtWork ==
    ASSUME NEW r \in Requests, request[r].at \in {"read", "user", "delete", "name", "password"}
    PROVE  r \in AtWork
BY DEF AtWork, Final

\* Read keeps the invariant: the row that it holds is the one of its container, unless the
\* SELECT failed.
LEMMA ReadKeeps ==
    ASSUME IInv, NEW r \in Requests, Read(r)
    PROVE  IInv'
<1> USE DEF userVars, channelVars, objectVars, dockerVars
<1> DEFINE body == request[r].body
           next == IF body.user # None THEN "user" ELSE AfterUser(body)
<1>1. /\ request[r].at = "read"
      /\ UNCHANGED <<users, login, wants, container, pc, object, of, started, ip, registered,
                     docker, address, config, reused, auth, disturbed>>
  BY DEF Read
<1>2. r \in AtWork
  BY <1>1, IsAtWork
<1>3. /\ Served(r) \in Channels /\ auth \in [Channels -> Auth \cup {None}]
      /\ request[r].from # None /\ request[r].user # None
  BY <1>2, AtHand DEF IInv, RequestsHold
<1>4. CASE \E label \in {"ok", "refused", "panicked"} : Move(r, label)
  <2>1. PICK label \in {"ok", "refused", "panicked"} : Move(r, label)
    BY <1>4
  <2> DEFINE new == Answered(r, label)
  <2>2. request' = [request EXCEPT ![r] = new] /\ new \in Handler /\ new.at = label
    BY <1>2, <2>1, MoveIs
  <2> HIDE DEF new
  <2>3. new.at \in Final /\ new.at # "idle"
    BY <2>2 DEF Final
  <2>4. new.at \notin {"user", "password"}
    BY <2>2
  <2> QED BY <1>1, <1>2, <1>3, <2>2, <2>3, <2>4, RequestMoves
<1>5. CASE Move(r, "delete") /\ body # None /\ body.password = Empty
  <2> DEFINE new == Answered(r, "delete")
  <2>1. /\ request' = [request EXCEPT ![r] = new] /\ new \in Handler /\ new.at = "delete"
        /\ new.from = request[r].from /\ new.user = request[r].user /\ new.body = body
    BY <1>2, <1>5, MoveIs DEF Final
  <2> HIDE DEF new
  <2> QED BY <1>1, <1>2, <1>3, <1>5, <2>1, RequestMoves
<1>6. ASSUME NEW old \in Auth \cup {None}, NEW missed \in BOOLEAN,
             missed \/ old = auth[Served(r)], body # None, body.user # Empty,
             next \notin {"ok", "delete"},
             request' = [request EXCEPT ![r].at = next, ![r].old = old, ![r].missed = missed]
      PROVE  IInv'
  <2> DEFINE new == [request[r] EXCEPT !.at = next, !.old = old, !.missed = missed]
  <2>1. request \in [Requests -> Handler] /\ request[r] \in Handler
    BY DEF IInv, TypeOK, Handler
  <2>3. /\ body.user \in Names \cup {None, Empty}
        /\ body.password \in Passwords \cup {None, Empty}
    BY <1>2, <1>6, AtHand
  <2>4. /\ AfterUser(body) \in {"ok", "delete", "name"}
        /\ AfterUser(body) = "delete" => body.password = Empty
        /\ AfterUser(body) = "name" => body.password \in Passwords
    BY <2>3, AfterUserIs
  <2>5. /\ next \in {"user", "delete", "name"}
        /\ next = "user" => body.user \in Names
        /\ next = "delete" => body.password = Empty
        /\ next = "name" => body.password \in Passwords
    BY <1>6, <2>3, <2>4
  <2> HIDE DEF next
  <2>6. request' = [request EXCEPT ![r] = new]
    BY <1>6, <2>1
  <2>7. /\ new \in Handler /\ new.at = next /\ new.old = old /\ new.missed = missed
        /\ new.from = request[r].from /\ new.user = request[r].user /\ new.body = body
    BY <2>1, <2>5 DEF Handler
  <2> HIDE DEF new
  <2> QED BY <1>1, <1>2, <1>3, <1>6, <2>5, <2>6, <2>7, RequestMoves
<1>7. ASSUME NEW old \in Auth \cup {None}, NEW missed \in BOOLEAN,
             missed \/ old = auth[Served(r)], Proceed(r, old, missed)
      PROVE  IInv'
  <2>1. CASE body # None /\ body.user # Empty /\ next = "delete"
    <3>1. Move(r, "delete")
      BY <1>7, <2>1 DEF Proceed
    <3>2. /\ body.user \in Names \cup {None, Empty}
          /\ body.password \in Passwords \cup {None, Empty}
      BY <1>2, <2>1, AtHand
    <3>3. body.password = Empty
      BY <2>1, <3>2, AfterUserIs
    <3> QED BY <1>5, <2>1, <3>1, <3>3
  <2>2. CASE ~(body # None /\ body.user # Empty /\ next = "delete")
    BY <1>4, <1>6, <1>7, <2>2 DEF Proceed
  <2> QED BY <2>1, <2>2
<1>8. auth[Served(r)] \in Auth \cup {None}
  BY <1>3
<1> QED BY <1>7, <1>8 DEF Read

\* What the upsert of the name makes of a row.
LEMMA SetUserIs ==
    ASSUME IInv, NEW r \in AtWork, NEW user \in Names \cup Channels, SetUser(Served(r), user)
    PROVE  /\ auth' \in [Channels -> Auth \cup {None}]
           /\ \A k \in Channels \ {Served(r)} : auth'[k] = auth[k]
           /\ auth'[Served(r)] # None /\ auth'[Served(r)].user = user
           /\ auth'[Served(r)] =
                 [user |-> user,
                  password |-> IF auth[Served(r)] = None THEN None ELSE auth[Served(r)].password]
<1> DEFINE k == Served(r)
           row == auth[k]
           named == [user |-> user, password |-> IF row = None THEN None ELSE row.password]
<1>1. /\ k \in Channels /\ auth \in [Channels -> Auth \cup {None}]
      /\ row # None => row.password \in Passwords \cup {None}
  BY AtHand
<1>2. named \in Auth /\ named.user = user
  BY <1>1 DEF Auth
<1>3. named # None
  BY <1>2, NoneIsNothing
<1>4. auth' = [auth EXCEPT ![k] = named]
  BY <1>1 DEF SetUser
<1> HIDE DEF k
<1>5. /\ auth' \in [Channels -> Auth \cup {None}] /\ auth'[k] = named
      /\ \A j \in Channels \ {k} : auth'[j] = auth[j]
  <2> HIDE DEF named
  <2> QED BY <1>1, <1>2, <1>4
<1> QED BY <1>2, <1>3, <1>5 DEF k

\* What the upsert of the password makes of a row.
LEMMA SetPasswordIs ==
    ASSUME IInv, NEW r \in AtWork, NEW password \in Passwords, SetPassword(Served(r), password)
    PROVE  /\ auth' \in [Channels -> Auth \cup {None}]
           /\ \A k \in Channels \ {Served(r)} : auth'[k] = auth[k]
           /\ auth[Served(r)] # None =>
                 auth'[Served(r)] = [user |-> auth[Served(r)].user, password |-> password]
<1> DEFINE k == Served(r)
           row == auth[k]
           secured == [user |-> IF row = None THEN None ELSE row.user, password |-> password]
<1>1. /\ k \in Channels /\ auth \in [Channels -> Auth \cup {None}]
      /\ row # None => row.user \in Names \cup Channels \cup {None}
  BY AtHand
<1>2. secured \in Auth
  BY <1>1 DEF Auth
<1>3. auth' = [auth EXCEPT ![k] = secured]
  BY <1>1 DEF SetPassword
<1>4. row # None => secured = [user |-> row.user, password |-> password]
  OBVIOUS
<1> HIDE DEF k
<1>5. /\ auth' \in [Channels -> Auth \cup {None}] /\ auth'[k] = secured
      /\ \A j \in Channels \ {k} : auth'[j] = auth[j]
  <2> HIDE DEF secured
  <2> QED BY <1>1, <1>2, <1>3
<1> QED BY <1>4, <1>5 DEF k

\* The name that goes with a password is one.
LEMMA OldNameIs ==
    ASSUME IInv, NEW r \in AtWork
    PROVE  OldName(r) \in Names \cup Channels
BY AtHand DEF OldName

\* Write keeps the invariant: the name goes in before the password, and the row with the
\* password.
LEMMA WriteKeeps ==
    ASSUME IInv, NEW r \in Requests, Write(r)
    PROVE  IInv'
<1> USE DEF userVars, channelVars, objectVars, dockerVars
<1> DEFINE body == request[r].body
<1>1. /\ request[r].at \in {"user", "delete", "name", "password"}
      /\ UNCHANGED <<users, login, wants, container, pc, object, of, started, ip, registered,
                     docker, address, config, reused, disturbed>>
  BY DEF Write
<1>2. r \in AtWork
  BY <1>1, IsAtWork
<1>3. /\ Served(r) \in Channels /\ auth \in [Channels -> Auth \cup {None}]
      /\ body # None
      /\ request[r].at = "user" => body.user \in Names
      /\ request[r].at \in {"name", "password"} => body.password \in Passwords
  BY <1>1, <1>2, AtHand DEF IInv, RequestsHold
<1>4. body.password \in Passwords \cup {None, Empty}
  BY <1>2, <1>3, AtHand
<1>5. CASE request[r].at = "user" /\ SetUser(Served(r), body.user) /\ Move(r, AfterUser(body))
  <2>1. AfterUser(body) \in {"ok", "delete", "name"}
    BY <1>4, AfterUserIs
  <2>2. PICK label \in {"ok", "delete", "name"} : label = AfterUser(body)
    BY <2>1
  <2>3. /\ label = "delete" => body.password = Empty
        /\ label = "name" => body.password \in Passwords
    BY <1>4, <2>2, AfterUserIs
  <2>4. /\ auth' \in [Channels -> Auth \cup {None}]
        /\ \A k \in Channels \ {Served(r)} : auth'[k] = auth[k]
        /\ auth'[Served(r)].user = body.user
    BY <1>2, <1>3, <1>5, SetUserIs
  <2>5. auth'[Served(r)].user # None
    BY <1>3, <1>5, <2>4, NoneIsNothing
  <2> DEFINE new == Answered(r, label)
  <2>6. /\ request' = [request EXCEPT ![r] = new] /\ new \in Handler /\ new.at = label
        /\ label \notin Final => /\ new.from = request[r].from /\ new.user = request[r].user
                                 /\ new.body = body
    BY <1>2, <1>5, <2>2, MoveIs
  <2> HIDE DEF new
  <2> QED BY <1>1, <1>2, <1>3, <2>2, <2>3, <2>4, <2>5, <2>6, RequestMoves
<1>6. CASE /\ request[r].at = "delete" /\ auth' = [auth EXCEPT ![Served(r)] = None]
           /\ Move(r, "ok")
  <2> DEFINE new == Answered(r, "ok")
  <2>1. request' = [request EXCEPT ![r] = new] /\ new \in Handler /\ new.at = "ok"
    BY <1>2, <1>6, MoveIs
  <2>2. /\ auth' \in [Channels -> Auth \cup {None}] /\ auth'[Served(r)] = None
        /\ \A k \in Channels \ {Served(r)} : auth'[k] = auth[k]
    BY <1>3, <1>6
  <2>3. "ok" \in Final
    BY DEF Final
  <2> HIDE DEF new
  <2> QED BY <1>1, <1>2, <2>1, <2>2, <2>3, RequestMoves
<1>7. CASE request[r].at = "name" /\ SetUser(Served(r), OldName(r)) /\ Move(r, "password")
  <2>1. OldName(r) \in Names \cup Channels
    BY <1>2, OldNameIs
  <2>2. /\ auth' \in [Channels -> Auth \cup {None}]
        /\ \A k \in Channels \ {Served(r)} : auth'[k] = auth[k]
        /\ auth'[Served(r)] # None /\ auth'[Served(r)].user = OldName(r)
    BY <1>2, <1>3, <1>7, <2>1, SetUserIs
  <2>3. OldName(r) # None
    BY <2>1, NoneIsNothing
  <2> DEFINE new == Answered(r, "password")
  <2>4. /\ request' = [request EXCEPT ![r] = new] /\ new \in Handler /\ new.at = "password"
        /\ "password" \notin Final => /\ new.from = request[r].from /\ new.user = request[r].user
                                      /\ new.body = body /\ new.old = request[r].old
    BY <1>2, <1>7, MoveIs
  <2>5. "password" \notin Final
    BY DEF Final
  <2> HIDE DEF new
  <2>6. auth'[Served(r)].user = NameAfter(new.old, Served(r))
    BY <2>2, <2>4, <2>5 DEF OldName, NameAfter
  <2> QED BY <1>1, <1>2, <1>3, <1>7, <2>1, <2>2, <2>3, <2>4, <2>6, RequestMoves
<1>8. CASE /\ request[r].at = "password" /\ SetPassword(Served(r), body.password)
           /\ Move(r, "ok")
  <2>1. /\ auth' \in [Channels -> Auth \cup {None}]
        /\ \A k \in Channels \ {Served(r)} : auth'[k] = auth[k]
        /\ auth[Served(r)] # None => auth'[Served(r)].user = auth[Served(r)].user
    <3>1. body.password \in Passwords /\ SetPassword(Served(r), body.password)
      BY <1>3, <1>8
    <3> DEFINE row == [user |-> auth[Served(r)].user, password |-> body.password]
    <3> HIDE DEF body
    <3>2. /\ auth' \in [Channels -> Auth \cup {None}]
          /\ \A k \in Channels \ {Served(r)} : auth'[k] = auth[k]
          /\ auth[Served(r)] # None => auth'[Served(r)] = row
      BY <1>2, <3>1, SetPasswordIs
    <3>3. row.user = auth[Served(r)].user
      OBVIOUS
    <3> HIDE DEF row
    <3> QED BY <3>2, <3>3
  <2>2. \/ r \in disturbed \/ Crowded(request[r].user)
        \/ auth[Served(r)] # None /\ auth[Served(r)].user \in Names \cup Channels
    BY <1>2, <1>8, OldNameIs DEF IInv, RowsAreAsRead
  <2>3. \/ r \in disturbed \/ Crowded(request[r].user)
        \/ auth'[Served(r)].user # None
    BY <2>1, <2>2, NoneIsNothing
  <2> DEFINE new == Answered(r, "ok")
  <2>4. request' = [request EXCEPT ![r] = new] /\ new \in Handler /\ new.at = "ok"
    BY <1>2, <1>8, MoveIs
  <2>5. "ok" \in Final
    BY DEF Final
  <2> HIDE DEF new
  <2> QED BY <1>1, <1>2, <2>1, <2>3, <2>4, <2>5, RequestMoves
<1> QED BY <1>5, <1>6, <1>7, <1>8 DEF Write

\* WriteFailed keeps the invariant: a handler that failed leaves the row as it is.
LEMMA WriteFailedKeeps ==
    ASSUME IInv, NEW r \in Requests, WriteFailed(r)
    PROVE  IInv'
<1> USE DEF userVars, channelVars, objectVars, dockerVars
<1>1. /\ request[r].at \in {"user", "delete", "name", "password"} /\ Move(r, "failed")
      /\ UNCHANGED <<users, login, wants, container, pc, object, of, started, ip, registered,
                     docker, address, config, reused, auth, disturbed>>
  BY DEF WriteFailed
<1>2. r \in AtWork
  BY <1>1, IsAtWork
<1>3. Served(r) \in Channels /\ auth \in [Channels -> Auth \cup {None}]
  BY <1>2, AtHand
<1> DEFINE new == Answered(r, "failed")
<1>4. request' = [request EXCEPT ![r] = new] /\ new \in Handler /\ new.at = "failed"
  BY <1>1, <1>2, MoveIs
<1>5. "failed" \in Final
  BY DEF Final
<1> HIDE DEF new
<1> QED BY <1>1, <1>2, <1>3, <1>4, <1>5, RequestMoves

-------------------------------------------------------------------------------
(* The theorems *)

\* The invariant holds when the process starts: nobody has logged in.
LEMMA InitHolds == Init => IInv
<1> SUFFICES ASSUME Init PROVE IInv
  OBVIOUS
<1>1. /\ Idle.at = "idle" /\ Idle \in Handler
  BY DEF Idle, Handler
<1>2. request \in [Requests -> Handler] /\ AtWork = {}
  BY <1>1 DEF Init, AtWork
<1>3. TypeOK
  <2>1. users \in Seq(Connections) /\ DOMAIN users = {}
    BY DEF Init
  <2> QED BY <1>2, <2>1 DEF Init, TypeOK, Handler
<1>4. UsersAreServed
  <2>1. DOMAIN users = {}
    BY DEF Init
  <2> QED BY <2>1, ChannelsHaveConnections DEF Init, UsersAreServed
<1>5. ObjectsHaveContainers /\ UsersHaveContainers /\ AddressesAreOf /\ RowHasUser
  BY ChannelsHaveConnections
     DEF Init, ObjectsHaveContainers, UsersHaveContainers, AddressesAreOf, RowHasUser
<1>6. RequestsHold /\ OneAtWork /\ RowsAreAsRead /\ RequestsAreOwn
  BY <1>2 DEF RequestsHold, OneAtWork, RowsAreAsRead, RequestsAreOwn
<1> QED BY <1>3, <1>4, <1>5, <1>6 DEF IInv

\* Every step keeps the invariant.
LEMMA NextKeeps == IInv /\ [Next]_vars => IInv'
<1> SUFFICES ASSUME IInv, [Next]_vars PROVE IInv'
  OBVIOUS
<1>1. ASSUME NEW c \in Connections, NEW name \in Names, Login(c, name) PROVE IInv'
  BY <1>1, LoginKeeps
<1>2. ASSUME NEW ch \in Channels, SessionStep(ch) \/ StopsByItself(ch) PROVE IInv'
  BY <1>2, OpenChannelKeeps, GetContainerKeeps, ServeKeeps, TerminalEndsKeeps, LeaveKeeps,
     StopsByItselfKeeps DEF SessionStep
<1>3. ASSUME NEW r \in Requests, RequestStep(r) PROVE IInv'
  BY <1>3, ReadKeeps, WriteKeeps, WriteFailedKeeps DEF RequestStep
<1>4. ASSUME NEW r \in Requests, NEW k \in Channels, NEW body \in Bodies, Ask(r, k, body)
      PROVE  IInv'
  BY <1>4, AskKeeps
<1>5. CASE UNCHANGED vars
  <2>1. UNCHANGED <<users, login, wants, container, pc, object, of, started, ip, registered,
                    docker, address, config, reused, auth, request, disturbed>>
    BY <1>5 DEF vars, userVars, channelVars, objectVars, dockerVars, requestVars
  <2>2. RequestsHold' /\ OneAtWork' /\ RowsAreAsRead' /\ RequestsAreOwn' /\ RowHasUser'
    BY <2>1, RequestsStay
  <2>3. TypeOK'
    BY <2>1 DEF IInv, TypeOK
  <2>4. UsersAreServed' /\ ObjectsHaveContainers' /\ AddressesAreOf'
    BY <2>1 DEF IInv, UsersAreServed, ObjectsHaveContainers, AddressesAreOf
  <2>5. UsersHaveContainers'
    BY <2>1 DEF IInv, UsersHaveContainers, Crowded
  <2> QED BY <2>2, <2>3, <2>4, <2>5 DEF IInv
<1> QED BY <1>1, <1>2, <1>3, <1>4, <1>5 DEF Next

\* The invariant of the logins and the requests, which the theorems below rest on.
THEOREM Inductive == Spec => []IInv
BY InitHolds, NextKeeps, PTL DEF Spec

\* Every variable keeps its type, and no connection is in the list of users twice.
THEOREM TypeCorrect == Spec => []TypeOK
<1>1. IInv => TypeOK
  BY DEF IInv
<1> QED BY <1>1, Inductive, PTL

\* A request works on the rows of the container it comes from, unless an address was
\* given again or its user has two channels (ssh.go:36-43, api/auth.go:17-80).
THEOREM RequestsWorkOnTheirOwn == Spec => []RequestsAreOwn
<1>1. IInv => RequestsAreOwn
  BY DEF IInv
<1> QED BY <1>1, Inductive, PTL

\* The container a client is attached to is found by its address when it calls the API,
\* unless its object has an older one (container.go:107-129, ssh.go:36-43).
THEOREM AttachedAreServed == Spec => []AttachedIsServed
<1>1. IInv => AttachedIsServed
  <2> SUFFICES ASSUME IInv, NEW ch \in Channels, pc[ch] = "attached",
                      address[of[object[ch]]] # None, address[of[object[ch]]] = ip[object[ch]],
                      ~Crowded(ch[1])
               PROVE  GetUser(address[of[object[ch]]]) # None
    BY DEF AttachedIsServed
  <2> DEFINE a == address[of[object[ch]]]
  <2>1. object[ch] # None /\ container[ch[1]] = object[ch]
    BY DEF IInv, UsersHaveContainers
  <2>2. ch[1] \in Connections /\ login[ch[1]] = "served"
    BY ChannelsHaveConnections DEF IInv, UsersAreServed
  <2>3. PICK i \in DOMAIN users : users[i] = ch[1]
    BY <2>2 DEF IInv, UsersAreServed
  <2>4. container[users[i]] # None /\ ip[container[users[i]]] = a
    BY <2>1, <2>3
  <2> HIDE DEF a
  <2>5. GetUser(a) # None
    BY <2>4, GetUserFinds DEF IInv
  <2> QED BY <2>5 DEF a
<1> QED BY <1>1, Inductive, PTL

\* Every row names a user, if no two requests overlapped, none met the removal of its
\* container, and no connection had two channels (api/auth.go:21-25).
THEOREM RowsHaveUsers == Spec => []RowHasUser
<1>1. IInv => RowHasUser
  BY DEF IInv
<1> QED BY <1>1, Inductive, PTL

\* A request that has answered ok, and was to change something that it alone changes, has
\* made the row what it was asked to.
LEMMA OkHolds ==
    ASSUME IInv, NEW r \in Requests, RequestStep(r),
           request[r].at # "ok", request'[r].at = "ok",
           request[r].body # None, request[r].body # [user |-> None, password |-> None],
           r \notin disturbed, ~reused, ~Crowded(request[r].user), ~request[r].missed,
           request[r].body.user = None \/ request[r].body.password \notin Passwords
    PROVE  auth'[request[r].from] = Asked(request[r].from, request[r].old, request[r].body)
<1> DEFINE body == request[r].body
           old == request[r].old
           k == request[r].from
<1>1. request \in [Requests -> Handler]
  BY DEF IInv, TypeOK, Handler
<1>2. request[r].at \in {"read", "user", "delete", "name", "password"}
  BY DEF RequestStep, Read, Write, WriteFailed
<1>3. r \in AtWork
  BY <1>2, IsAtWork
<1>4. /\ body.user \in Names \cup {None, Empty} /\ body.password \in Passwords \cup {None, Empty}
      /\ body = [user |-> body.user, password |-> body.password]
      /\ Served(r) \in Channels /\ auth \in [Channels -> Auth \cup {None}]
  BY <1>3, AtHand
<1>5. Served(r) = k
  BY <1>3 DEF IInv, RequestsAreOwn
<1>6. /\ request[r].at = "user" => auth[k] = old /\ body.user \in Names
      /\ request[r].at = "delete" => body.password = Empty
      /\ request[r].at = "password" =>
            /\ auth[k] # None /\ auth[k].user = NameAfter(old, k)
            /\ body.password \in Passwords /\ body.user = None
  BY <1>3, <1>5 DEF IInv, RowsAreAsRead, RequestsHold, OldName, NameAfter
<1>7. ASSUME NEW label \in {"user", "delete", "name", "password", "ok", "refused", "failed",
                            "panicked"}, Move(r, label)
      PROVE  label = "ok"
  <2> DEFINE new == Answered(r, label)
  <2>1. request' = [request EXCEPT ![r] = new] /\ new.at = label
    BY <1>3, <1>7, MoveIs
  <2> HIDE DEF new
  <2> QED BY <1>1, <2>1
<1>8. Read(r) => FALSE
  <2> SUFFICES ASSUME Read(r) PROVE FALSE
    OBVIOUS
  <2> DEFINE next == IF body.user # None THEN "user" ELSE AfterUser(body)
  <2>1. ~Move(r, "refused")
    BY <1>7
  <2>2. PICK row, missed : Proceed(r, row, missed)
    BY DEF Read
  <2>3. body.user # Empty
    BY <2>1, <2>2 DEF Proceed
  <2>4. AfterUser(body) \in {"ok", "delete", "name"}
        /\ (AfterUser(body) = "ok" => body.password = None)
    BY <1>4, AfterUserIs
  <2>5. next \notin {"ok", "delete"}
    BY <1>4, <1>7, <2>2, <2>3, <2>4 DEF Proceed
  <2>6. request' = [request EXCEPT ![r].at = next, ![r].old = row, ![r].missed = missed]
    BY <2>1, <2>2, <2>3, <2>5 DEF Proceed
  <2> HIDE DEF next
  <2>7. request'[r].at = next
    BY <1>1, <2>6 DEF Handler
  <2> QED BY <2>5, <2>7
<1>9. WriteFailed(r) => FALSE
  BY <1>7 DEF WriteFailed
<1>10. Write(r)
  BY <1>8, <1>9 DEF RequestStep
<1>11. CASE request[r].at = "user" /\ SetUser(Served(r), body.user) /\ Move(r, AfterUser(body))
  <2>1. /\ AfterUser(body) \in {"ok", "delete", "name"}
        /\ AfterUser(body) = "ok" => body.password = None
    BY <1>4, AfterUserIs
  <2>2. body.password = None
    BY <1>7, <1>11, <2>1
  <2>3. body.user \in Names \cup Channels /\ SetUser(Served(r), body.user)
    BY <1>6, <1>11
  <2> DEFINE u == body.user
             row == [user |-> u, password |-> IF auth[Served(r)] = None THEN None
                                               ELSE auth[Served(r)].password]
  <2>4. auth'[Served(r)] = row
    <3> HIDE DEF u
    <3> QED BY <1>3, <2>3, SetUserIs DEF u
  <2>5. row = [user |-> body.user, password |-> IF old = None THEN None ELSE old.password]
    BY <1>5, <1>6, <1>11
  <2>6. body.user # None
    BY <1>6, <1>11, NoneIsNothing
  <2> HIDE DEF row, body, old
  <2>7. Asked(k, old, body) =
           [user |-> body.user, password |-> IF old = None THEN None ELSE old.password]
    BY <2>2, <2>6, NoneIsNothing DEF Asked
  <2> QED BY <1>5, <2>4, <2>5, <2>7 DEF body, old
<1>12. CASE /\ request[r].at = "delete" /\ auth' = [auth EXCEPT ![Served(r)] = None]
            /\ Move(r, "ok")
  <2>1. auth'[k] = None /\ body.password = Empty
    BY <1>4, <1>5, <1>6, <1>12
  <2> HIDE DEF body, old, k
  <2>2. Asked(k, old, body) = None
    BY <2>1, NoneIsNothing DEF Asked
  <2> QED BY <2>1, <2>2 DEF body, old, k
<1>13. CASE request[r].at = "name" /\ SetUser(Served(r), OldName(r)) /\ Move(r, "password")
  BY <1>7, <1>13
<1>14. CASE /\ request[r].at = "password" /\ SetPassword(Served(r), body.password)
            /\ Move(r, "ok")
  <2>1. body.password \in Passwords /\ SetPassword(Served(r), body.password)
    BY <1>6, <1>14
  <2> DEFINE p == body.password
             row == [user |-> auth[Served(r)].user, password |-> p]
  <2>2. auth'[Served(r)] = row
    <3>1. auth[Served(r)] # None
      BY <1>5, <1>6, <1>14
    <3> HIDE DEF p
    <3> QED BY <1>3, <2>1, <3>1, SetPasswordIs DEF p
  <2>3. row = [user |-> NameAfter(old, k), password |-> body.password]
    BY <1>5, <1>6, <1>14
  <2>4. body.password # Empty /\ body.password # None /\ body.user = None
    BY <1>6, <1>14, NoneIsNothing
  <2> HIDE DEF row, body, old
  <2>5. Asked(k, old, body) = [user |-> NameAfter(old, k), password |-> body.password]
    BY <2>4 DEF Asked, NameAfter
  <2> QED BY <1>5, <2>2, <2>3, <2>5 DEF body, old
<1> QED BY <1>10, <1>11, <1>12, <1>13, <1>14 DEF Write

\* An answer of 200 to a new name, a new password or an empty one means that the row is as
\* configure.yaml:186-201 says and is otherwise kept, if nothing disturbed the request and
\* its SELECT did not fail; a name and a password at once are left out.
THEOREM OkMeansStored == Spec => OkIsStored
<1>1. IInv /\ [Next]_vars => [\A r \in Requests : OkStores(r)]_vars
  <2> SUFFICES ASSUME IInv, [Next]_vars,
                      NEW r \in Requests, request[r].at # "ok", request'[r].at = "ok",
                      request[r].body # None,
                      request[r].body # [user |-> None, password |-> None],
                      r \notin disturbed, ~reused, ~Crowded(request[r].user),
                      ~request[r].missed,
                      request[r].body.user = None \/ request[r].body.password \notin Passwords
               PROVE  auth'[request[r].from] =
                         Asked(request[r].from, request[r].old, request[r].body)
    BY DEF OkStores
  <2>1. request \in [Requests -> Handler]
    BY DEF IInv, TypeOK, Handler
  <2>2. request'[r] # request[r]
    OBVIOUS
  <2>3. ASSUME NEW q \in Requests, RequestStep(q) PROVE q = r
    <3>1. \A x \in Requests \ {q} : request'[x] = request[x]
      BY <2>1, <2>3 DEF RequestStep, Read, Proceed, Write, WriteFailed, Move
    <3> QED BY <2>2, <3>1
  <2>4. ASSUME NEW q \in Requests, NEW k \in Channels, NEW body \in Bodies, Ask(q, k, body)
        PROVE  FALSE
    <3>1. \A x \in Requests \ {q} : request'[x] = request[x]
      BY <2>1, <2>4 DEF Ask
    <3>2. request'[q].at \in {"refused", "read"}
      BY <2>1, <2>4 DEF Ask, Idle
    <3> QED BY <2>2, <3>1, <3>2
  <2>5. ASSUME UNCHANGED request PROVE FALSE
    BY <2>2, <2>5
  <2>6. RequestStep(r)
    <3>1. ASSUME NEW c \in Connections, NEW name \in Names, Login(c, name)
          PROVE  UNCHANGED request
      BY <3>1 DEF Login, requestVars
    <3>2. ASSUME NEW ch \in Channels, SessionStep(ch) \/ StopsByItself(ch)
          PROVE  UNCHANGED request
      BY <3>2 DEF SessionStep, OpenChannel, GetContainer, Serve, TerminalEnds, Leave,
                  StopsByItself, requestVars
    <3>3. UNCHANGED vars => UNCHANGED request
      BY DEF vars, requestVars
    <3> QED BY <2>3, <2>4, <2>5, <3>1, <3>2, <3>3 DEF Next
  <2> QED BY <2>6, OkHolds
<1> QED BY <1>1, Inductive, PTL DEF Spec, OkIsStored

-------------------------------------------------------------------------------
(* What a login was granted *)

\* The object that a channel has got is of the container granted, or of its own.
Granting(ch) ==
    LET granted == wants[ch[1]].container
    IN  of[object[ch]] = IF granted = None THEN ch ELSE granted

\* It is so from the moment the channel takes the object to its end.
GrantsHold == \A ch \in Channels : pc[ch] \in {"start", "attached", "check"} => Granting(ch)

\* Login changes what a connection was granted before any of its channels is open.
LEMMA LoginGrants ==
    ASSUME IInv, GrantsHold, NEW c \in Connections, NEW name \in Names, Login(c, name)
    PROVE  GrantsHold'
<1> USE DEF channelVars, objectVars
<1>1. login[c] = "idle" /\ UNCHANGED <<pc, object, of>>
  BY DEF Login
<1>2. \A d \in Connections \ {c} : wants'[d] = wants[d]
  BY DEF Login, IInv, TypeOK
<1>3. \A ch \in Channels : pc[ch] \in {"start", "attached", "check"} =>
         ch[1] \in Connections \ {c}
  BY <1>1, ChannelsHaveConnections DEF IInv, UsersAreServed
<1> QED BY <1>1, <1>2, <1>3 DEF GrantsHold, Granting

\* Take gives a channel the container granted, by an object that is of it already or by one
\* of its own; no other channel has that one, and no object changes its container.
LEMMA TakeGrants ==
    ASSUME IInv, GrantsHold, NEW ch \in Channels, NEW o \in Channels, NEW k \in Channels,
           Take(ch, o, k), UNCHANGED wants, pc[ch] = "get", of[o] = k \/ o = ch,
           k = IF wants[ch[1]].container = None THEN ch ELSE wants[ch[1]].container
    PROVE  GrantsHold'
<1>1. /\ pc' = [pc EXCEPT ![ch] = "start"] /\ object' = [object EXCEPT ![ch] = o]
      /\ of' = [of EXCEPT ![o] = k]
  BY DEF Take, Goto
<1>2. of[ch] = None /\ None \notin Channels
  BY NoneIsNothing DEF IInv, ObjectsHaveContainers
<1>3. /\ \A x \in Channels \ {ch} : pc'[x] = pc[x] /\ object'[x] = object[x]
      /\ object'[ch] = o /\ of'[o] = k
      /\ \A x \in Channels : of[x] # None => of'[x] = of[x]
  BY <1>1, <1>2 DEF IInv, TypeOK
<1> SUFFICES ASSUME NEW x \in Channels, pc'[x] \in {"start", "attached", "check"}
             PROVE  Granting(x)'
  BY DEF GrantsHold
<1>4. CASE x = ch
  BY <1>3, <1>4 DEF Granting
<1>5. CASE x # ch
  <2>1. pc[x] \in {"start", "attached", "check"} /\ Granting(x)
    BY <1>3, <1>5 DEF GrantsHold
  <2>2. object[x] \in Channels /\ of[object[x]] # None
    BY <2>1 DEF IInv, TypeOK, UsersHaveContainers
  <2> QED BY <1>3, <1>5, <2>1, <2>2 DEF Granting
<1> QED BY <1>4, <1>5

\* GetContainer takes an object of the container granted, or makes one, or gives up.
LEMMA GetContainerGrants ==
    ASSUME IInv, GrantsHold, NEW ch \in Channels, GetContainer(ch)
    PROVE  GrantsHold'
<1> DEFINE id == wants[ch[1]].container
<1>1. pc[ch] = "get" /\ UNCHANGED wants
  BY DEF GetContainer
<1>2. id \in Channels \cup {None}
  <2>1. wants[ch[1]] \in Want
    BY <1>1, ChannelsHaveConnections DEF IInv, TypeOK, UsersAreServed
  <2> QED BY <2>1 DEF Want
<1>3. CASE id = None /\ Take(ch, ch, ch)
  BY <1>1, <1>3, TakeGrants
<1>4. CASE id # None /\ \E o \in registered : of[o] = id /\ Take(ch, o, id)
  <2>1. PICK o \in registered : of[o] = id /\ Take(ch, o, id)
    BY <1>4
  <2>2. o \in Channels
    BY DEF IInv, TypeOK
  <2> QED BY <1>1, <1>2, <1>4, <2>1, <2>2, TakeGrants
<1>5. CASE id # None /\ Take(ch, ch, id)
  BY <1>1, <1>2, <1>5, TakeGrants
<1>6. CASE Goto(ch, "over") /\ UNCHANGED <<object, of>>
  <2>1. pc'[ch] = "over" /\ \A x \in Channels \ {ch} : pc'[x] = pc[x]
    BY <1>6, Moves DEF IInv
  <2> QED BY <1>1, <1>6, <2>1 DEF GrantsHold, Granting
<1> QED BY <1>3, <1>4, <1>5, <1>6 DEF GetContainer, Shared

\* The other steps give no object: a channel that has one goes on, or ends.
LEMMA OthersGrant ==
    ASSUME IInv, GrantsHold, UNCHANGED <<wants, object, of>>,
           \/ UNCHANGED pc
           \/ \E ch \in Channels, label \in {"get", "attached", "check", "over"} :
                 /\ Goto(ch, label)
                 /\ label \in {"attached", "check"} => pc[ch] \in {"start", "attached"}
    PROVE  GrantsHold'
<1>1. CASE UNCHANGED pc
  BY <1>1 DEF GrantsHold, Granting
<1>2. CASE \E ch \in Channels, label \in {"get", "attached", "check", "over"} :
              /\ Goto(ch, label)
              /\ label \in {"attached", "check"} => pc[ch] \in {"start", "attached"}
  <2>1. PICK ch \in Channels, label \in {"get", "attached", "check", "over"} :
              /\ Goto(ch, label)
              /\ label \in {"attached", "check"} => pc[ch] \in {"start", "attached"}
    BY <1>2
  <2>2. pc'[ch] = label /\ \A x \in Channels \ {ch} : pc'[x] = pc[x]
    BY <2>1, Moves DEF IInv
  <2>3. \A x \in Channels : pc'[x] \in {"start", "attached", "check"} =>
           pc[x] \in {"start", "attached", "check"}
    BY <2>1, <2>2
  <2> QED BY <2>3 DEF GrantsHold, Granting
<1> QED BY <1>1, <1>2

\* A client is attached to the container that its login was granted, or to its channel's own.
THEOREM AttachedGetTheirGrant == Spec => []AttachedAsGranted
<1>1. Init => GrantsHold
  BY DEF Init, GrantsHold
<1>2. IInv /\ GrantsHold /\ [Next]_vars => GrantsHold'
  <2> SUFFICES ASSUME IInv, GrantsHold, [Next]_vars PROVE GrantsHold'
    OBVIOUS
  <2>1. ASSUME NEW c \in Connections, NEW name \in Names, Login(c, name) PROVE GrantsHold'
    BY <2>1, LoginGrants
  <2>2. ASSUME NEW ch \in Channels, GetContainer(ch) PROVE GrantsHold'
    BY <2>2, GetContainerGrants
  <2>3. ASSUME NEW ch \in Channels,
               OpenChannel(ch) \/ Serve(ch) \/ TerminalEnds(ch) \/ Leave(ch)
        PROVE  GrantsHold'
    BY <2>3, OthersGrant
       DEF OpenChannel, Serve, TerminalEnds, Leave, userVars, objectVars
  <2>4. ASSUME NEW k \in Channels, StopsByItself(k) PROVE GrantsHold'
    BY <2>4, OthersGrant DEF StopsByItself, userVars, channelVars, objectVars
  <2>5. ASSUME NEW r \in Requests,
               RequestStep(r) \/ \E k \in Channels, body \in Bodies : Ask(r, k, body)
        PROVE  GrantsHold'
    <3>1. UNCHANGED <<wants, object, of, pc>>
      BY <2>5 DEF RequestStep, Read, Write, WriteFailed, Ask,
                  userVars, channelVars, objectVars
    <3> QED BY <3>1, OthersGrant
  <2>6. CASE UNCHANGED vars
    BY <2>6, OthersGrant DEF vars, userVars, channelVars, objectVars
  <2> QED BY <2>1, <2>2, <2>3, <2>4, <2>5, <2>6 DEF Next, SessionStep
<1>3. GrantsHold => AttachedAsGranted
  BY DEF GrantsHold, Granting, AttachedAsGranted
<1> QED BY <1>1, <1>2, <1>3, Inductive, PTL DEF Spec
===============================================================================
