------------------------------- MODULE Access -------------------------------
(***************************************************************************)
(* Who a login and a request are taken for: PasswordCallback and the       *)
(* accept loop, which append to a list of users that nobody is removed     *)
(* from; the channels of one connection, which share its User; GetUser,    *)
(* which finds a user by the address of the caller; and the statements of  *)
(* AuthGet and AuthPost, which reach the container through the user each   *)
(* time.                                                                   *)
(*                                                                         *)
(* A container and a container object are named by the channel that makes  *)
(* it: one that comes back to a container makes another object for it.     *)
(*                                                                         *)
(* Left to other modules: failing calls, races on the registry, crashes    *)
(* and the shutdown (Sessions), the network modes (Reconfigure), the       *)
(* exit-after listener, which is here a container that stops by itself     *)
(* (ExitAfter), and a row of a removed container (Sessions!AcceptPanic).   *)
(***************************************************************************)
EXTENDS Integers, Sequences

CONSTANTS
    Connections,
    Channels,       \* pairs of a connection and a number
    Requests,       \* calls of the API
    Names, Passwords,   \* what a client may log in with or ask to be stored
    Empty,          \* the empty string
    None,
    Addresses,      \* what docker may give a container that runs
    Profiles,       \* the sequence of loaded profiles
    Dynamic,        \* the dynamic profile, or None
    Bodies,         \* what a request may ask for; AuthGet is None
    Overlapping,    \* bound: what requests ask for that are at work with another
    Callers,        \* bound: the containers with a process that calls the API
    Fragile         \* bound: the containers that may stop by themselves

\* The run level is User everywhere.
Profile == [name : STRING, accepts : SUBSET Names, keep : BOOLEAN]
Want == [profile : Profile, container : Channels \cup {None}]
Auth == [user : Names \cup Channels \cup {None}, password : Passwords \cup {None}]
Body == [user : Names \cup {None, Empty}, password : Passwords \cup {None, Empty}]

ASSUME ChannelsHaveConnections == \A ch \in Channels : ch[1] \in Connections
ASSUME ProfilesAreProfiles == Profiles \in Seq(Profile) /\ Dynamic \in Profile \cup {None}
ASSUME BodiesAreBodies == Bodies \subseteq Body \cup {None}
ASSUME BoundsAreContainers == Callers \cup Fragile \subseteq Channels
ASSUME NoneIsNothing ==
    /\ None \notin Channels \cup Connections \cup Addresses \cup Names \cup Passwords
    /\ None \notin Profile \cup Want \cup Auth \cup Body
    /\ Empty \notin Names \cup Passwords \cup {None} /\ Names \cap Channels = {}

VARIABLES
    users,          \* the list, in the order of the logins
    login,          \* where each connection is
    wants,          \* user.Profile: the settings, and the container if there is one
    container,      \* user.Container
    pc, object,     \* where each channel's goroutine is, and its object
    of, started, ip,    \* the objects: their container, started and Network.IP
    registered,     \* allContainers
    docker, address, config,    \* the containers
    auth,           \* the table
    request,        \* where each request is, and what its handler holds
    reused,         \* history: docker gave an address that an object of another
                    \* container has
    disturbed       \* history: the requests at work with another, or during a removal

userVars == <<users, login, wants, container>>
channelVars == <<pc, object>>
objectVars == <<of, started, ip, registered>>
dockerVars == <<docker, address, config, reused>>
requestVars == <<request, disturbed>>
vars == <<userVars, channelVars, objectVars, dockerVars, auth, requestVars>>

Goto(ch, label) == pc' = [pc EXCEPT ![ch] = label]

Idle ==
    [at |-> "idle", from |-> None, user |-> None, body |-> None, old |-> None, missed |-> FALSE]
Final == {"ok", "refused", "failed", "panicked"}
AtWork == {r \in Requests : request[r].at \notin Final \cup {"idle"}}
Attached(o) == {ch \in Channels : pc[ch] = "attached" /\ object[ch] = o}

\* More than one channel of a connection was opened.
Crowded(c) == \E a, b \in Channels : a # b /\ a[1] = c /\ b[1] = c /\ pc[a] # "idle" /\ pc[b] # "idle"

-------------------------------------------------------------------------------
(* PasswordCallback and the accept loop *)

\* The first profile that matches.
Match(name) ==
    LET matching == {i \in DOMAIN Profiles : name \in Profiles[i].accepts}
    IN  IF matching = {} THEN None
        ELSE Profiles[CHOOSE i \in matching : \A j \in matching : i <= j]

\* The first profile of that name: only the name passes from the callback to the loop.
GetByName(name) ==
    LET named == {i \in DOMAIN Profiles : Profiles[i].name = name}
    IN  Profiles[CHOOSE i \in named : \A j \in named : i <= j]

\* The query of GetContainerByAuth.  The password is hashed anew, with a new salt, and
\* so equals no password that is stored.
ContainersByAuth == {k \in Channels : auth[k] # None /\ auth[k].password = None}

\* The settings of the profile, or those of the container the query finds.
Granted(name) ==
    IF ContainersByAuth # {}
      THEN {[profile |-> config[k], container |-> k] : k \in ContainersByAuth}
      ELSE IF Match(name) # None
        THEN {[profile |-> GetByName(Match(name).name), container |-> None]}
        ELSE {[profile |-> p, container |-> None] : p \in {Dynamic} \ {None}}

Login(c, name) ==
    /\ login[c] = "idle"
    /\ \/ /\ Granted(name) = {} /\ login' = [login EXCEPT ![c] = "refused"]
          /\ UNCHANGED <<users, wants>>
       \/ /\ login' = [login EXCEPT ![c] = "served"]
          /\ \E granted \in Granted(name) :
                /\ granted.container # None => docker[granted.container] # "removed"
                /\ wants' = [wants EXCEPT ![c] = granted]
          /\ users' = Append(users, c)
    /\ UNCHANGED <<container, channelVars, objectVars, dockerVars, auth, requestVars>>

-------------------------------------------------------------------------------
(* handleChannel and connection *)

\* Mutant of OpenChannel: every channel makes a user.
OpenUser(ch) ==
    /\ pc[ch] = "idle" /\ login[ch[1]] = "served"
    /\ Goto(ch, "get") /\ users' = Append(users, ch[1])
    /\ UNCHANGED <<login, wants, container, object, objectVars, dockerVars, auth, requestVars>>

\* A goroutine for each channel, all with the User of the connection.
OpenChannel(ch) ==
    /\ pc[ch] = "idle" /\ login[ch[1]] = "served"
    /\ Goto(ch, "get")
    /\ UNCHANGED <<userVars, object, objectVars, dockerVars, auth, requestVars>>

\* Mutant of Take: the user keeps the container of an earlier channel, or none.
TakeUnseen(ch, o, k) ==
    /\ object' = [object EXCEPT ![ch] = o]
    /\ registered' = registered \cup {o}
    /\ of' = [of EXCEPT ![o] = k]
    /\ Goto(ch, "start") /\ UNCHANGED container

\* getContainer, and user.Container = container; the registry in the same step.
Take(ch, o, k) ==
    /\ object' = [object EXCEPT ![ch] = o]
    /\ container' = [container EXCEPT ![ch[1]] = o]
    /\ registered' = registered \cup {o}
    /\ of' = [of EXCEPT ![o] = k]
    /\ Goto(ch, "start")

\* Mutant of Shared: the loop returns the first object, of whatever container.
SharedAny(id) == registered

\* The objects that the loop over allContainers returns.
Shared(id) == {o \in registered : of[o] = id}

GetContainer(ch) ==
    LET want == wants[ch[1]]
        shared == Shared(want.container)
    IN  /\ pc[ch] = "get"
        /\ \/ /\ want.container = None
              /\ Take(ch, ch, ch)
              /\ docker' = [docker EXCEPT ![ch] = "stopped"]
              /\ config' = [config EXCEPT ![ch] = want.profile]
           \/ /\ want.container # None
              /\ \/ \E o \in shared : Take(ch, o, want.container)
                 \/ /\ shared = {} /\ docker[want.container] # "removed"
                    /\ Take(ch, ch, want.container)
                 \/ /\ shared = {} /\ docker[want.container] = "removed"
                    /\ Goto(ch, "over")
                    /\ UNCHANGED <<object, container, registered, of>>
              /\ UNCHANGED <<docker, config>>
        /\ UNCHANGED <<users, login, wants, started, ip, address, reused, auth, requestVars>>

\* The first start of an object reads the address of its container; later ones do not.
ReadAddress(o, a) ==
    /\ started' = [started EXCEPT ![o] = TRUE]
    /\ ip' = IF started[o] THEN ip ELSE [ip EXCEPT ![o] = a]

\* Running, Start if it is stopped, and Terminal.
Serve(ch) ==
    LET o == object[ch]
        k == of[o]
    IN  /\ pc[ch] = "start"
        /\ \/ /\ docker[k] = "stopped"
              /\ docker' = [docker EXCEPT ![k] = "running"]
              /\ \E a \in Addresses \ {address[j] : j \in Channels} :
                    /\ address' = [address EXCEPT ![k] = a]
                    /\ ReadAddress(o, a)
                    /\ reused' = (reused \/ \E x \in Channels : ip[x] = a /\ of[x] # k)
           \/ docker[k] # "stopped" /\ UNCHANGED <<docker, address, started, ip, reused>>
        /\ Goto(ch, IF docker[k] = "removed" THEN "check" ELSE "attached")
        /\ UNCHANGED <<userVars, object, of, registered, config, auth, requestVars>>

\* The client leaves, or the stream of a container that has stopped ends.
TerminalEnds(ch) ==
    /\ pc[ch] = "attached" /\ Goto(ch, "check")
    /\ UNCHANGED <<userVars, object, objectVars, dockerVars, auth, requestVars>>

\* The end of connection: the last one stops the container.
Leave(ch) ==
    LET o == object[ch]
        k == of[o]
        stops == Attached(o) = {} /\ docker[k] # "removed"
    IN  /\ pc[ch] = "check" /\ Goto(ch, "over")
        /\ address' = IF stops THEN [address EXCEPT ![k] = None] ELSE address
        /\ registered' = IF stops THEN registered \ {o} ELSE registered
        /\ IF stops /\ ~config[k].keep
             THEN /\ docker' = [docker EXCEPT ![k] = "removed"]
                  /\ auth' = [auth EXCEPT ![k] = None]
                  /\ disturbed' = disturbed \cup AtWork
             ELSE /\ docker' = IF stops THEN [docker EXCEPT ![k] = "stopped"] ELSE docker
                  /\ UNCHANGED <<auth, disturbed>>
        /\ UNCHANGED <<userVars, object, of, started, ip, config, reused, request>>

\* The container stops, but not by the end of a session.
StopsByItself(k) ==
    /\ k \in Fragile /\ docker[k] = "running"
    /\ docker' = [docker EXCEPT ![k] = "stopped"]
    /\ address' = [address EXCEPT ![k] = None]
    /\ UNCHANGED <<userVars, channelVars, objectVars, config, reused, auth, requestVars>>

-------------------------------------------------------------------------------
(* The API *)

\* Mutant of GetUser: any user with a container will do.
GetAnyUser(a) ==
    LET found == {i \in DOMAIN users : container[users[i]] # None /\ ip[container[users[i]]] # None}
    IN  IF found = {} THEN None ELSE users[CHOOSE i \in found : \A j \in found : i <= j]

\* The first user whose container has the address.
GetUser(a) ==
    LET found == {i \in DOMAIN users : container[users[i]] # None /\ ip[container[users[i]]] = a}
    IN  IF found = {} THEN None ELSE users[CHOOSE i \in found : \A j \in found : i <= j]

\* A handler that has answered holds nothing any more.
Move(r, label) ==
    request' = [request EXCEPT ![r] =
                   IF label \in Final THEN [Idle EXCEPT !.at = label] ELSE [@ EXCEPT !.at = label]]

\* What comes after the user name in AuthPost.
AfterUser(body) ==
    CASE body.password = None -> "ok"
      [] body.password = Empty -> "delete"
      [] OTHER -> "name"

\* ServeHTTP: a process in container k calls.
Ask(r, k, body) ==
    /\ request[r].at = "idle" /\ k \in Callers /\ address[k] # None
    /\ AtWork = {} \/ {body} \cup {request[q].body : q \in AtWork} \subseteq Overlapping
    /\ request' = [request EXCEPT ![r] =
          IF GetUser(address[k]) = None THEN [Idle EXCEPT !.at = "refused"]
          ELSE [Idle EXCEPT !.at = "read", !.from = k, !.user = GetUser(address[k]), !.body = body]]
    /\ disturbed' = IF AtWork = {} THEN disturbed ELSE disturbed \cup AtWork \cup {r}
    /\ UNCHANGED <<userVars, channelVars, objectVars, dockerVars, auth>>

\* user.Container.FullContainerID, evaluated by each statement.
Served(r) == of[container[request[r].user]]

\* The SELECT of both handlers and what they do before the first statement that writes.
\* A deletion has no use for the row.
Proceed(r, old, missed) ==
    LET body == request[r].body
        next == IF body.user # None THEN "user" ELSE AfterUser(body)
    IN  \/ /\ body = None    \* AuthGet dereferences the user of the row
           /\ Move(r, IF old = None THEN "refused"
                      ELSE IF old.user = None THEN "panicked" ELSE "ok")
        \/ /\ body # None /\ body.user = Empty
           /\ Move(r, "refused")
        \/ /\ body # None /\ body.user # Empty
           /\ IF next \in {"ok", "delete"} THEN Move(r, next)
              ELSE request' = [request EXCEPT ![r].at = next, ![r].old = old, ![r].missed = missed]

\* A SELECT that fails is taken for one that finds no row, whether there is one or not.
Read(r) ==
    /\ request[r].at = "read"
    /\ \/ Proceed(r, auth[Served(r)], FALSE)
       \/ auth[Served(r)] # None /\ Proceed(r, None, TRUE)
    /\ UNCHANGED <<userVars, channelVars, objectVars, dockerVars, auth, disturbed>>

\* INSERT ... ON CONFLICT DO UPDATE of one column.
SetUser(k, user) ==
    auth' = [auth EXCEPT ![k] = [user |-> user, password |-> IF @ = None THEN None ELSE @.password]]
SetPassword(k, password) ==
    auth' = [auth EXCEPT ![k] = [user |-> IF @ = None THEN None ELSE @.user, password |-> password]]

\* The name that goes with a new password: the one read first, or the container's id.
OldName(r) ==
    IF request[r].old = None \/ request[r].old.user = None THEN Served(r) ELSE request[r].old.user

\* Mutant of Write: the row is not deleted with the password.
WriteNoDelete(r) ==
    LET body == request[r].body
    IN  /\ \/ /\ request[r].at = "user" /\ SetUser(Served(r), body.user)
              /\ Move(r, AfterUser(body))
           \/ /\ request[r].at = "delete" /\ SetPassword(Served(r), None)
              /\ Move(r, "ok")
           \/ /\ request[r].at = "name" /\ SetUser(Served(r), OldName(r))
              /\ Move(r, "password")
           \/ /\ request[r].at = "password" /\ SetPassword(Served(r), body.password)
              /\ Move(r, "ok")
        /\ UNCHANGED <<userVars, channelVars, objectVars, dockerVars, disturbed>>

\* Mutant of Write: the password goes in alone.
WritePasswordFirst(r) ==
    LET body == request[r].body
    IN  /\ \/ /\ request[r].at = "user" /\ SetUser(Served(r), body.user)
              /\ Move(r, AfterUser(body))
           \/ /\ request[r].at = "delete" /\ auth' = [auth EXCEPT ![Served(r)] = None]
              /\ Move(r, "ok")
           \/ /\ request[r].at = "name" /\ SetPassword(Served(r), body.password)
              /\ Move(r, "password")
           \/ /\ request[r].at = "password" /\ SetUser(Served(r), OldName(r))
              /\ Move(r, "ok")
        /\ UNCHANGED <<userVars, channelVars, objectVars, dockerVars, disturbed>>

\* The statements of AuthPost, one a step; SetAuth is two of them.
Write(r) ==
    LET body == request[r].body
    IN  /\ \/ /\ request[r].at = "user" /\ SetUser(Served(r), body.user)
              /\ Move(r, AfterUser(body))
           \/ /\ request[r].at = "delete" /\ auth' = [auth EXCEPT ![Served(r)] = None]
              /\ Move(r, "ok")
           \/ /\ request[r].at = "name" /\ SetUser(Served(r), OldName(r))
              /\ Move(r, "password")
           \/ /\ request[r].at = "password" /\ SetPassword(Served(r), body.password)
              /\ Move(r, "ok")
        /\ UNCHANGED <<userVars, channelVars, objectVars, dockerVars, disturbed>>

\* A statement fails and the answer is 500.
WriteFailed(r) ==
    /\ request[r].at \in {"user", "delete", "name", "password"}
    /\ Move(r, "failed")
    /\ UNCHANGED <<userVars, channelVars, objectVars, dockerVars, auth, disturbed>>

-------------------------------------------------------------------------------

Init ==
    /\ users = <<>>
    /\ login = [c \in Connections |-> "idle"]
    /\ wants = [c \in Connections |-> None]
    /\ container = [c \in Connections |-> None]
    /\ pc = [ch \in Channels |-> "idle"]
    /\ object = [ch \in Channels |-> None]
    /\ of = [o \in Channels |-> None] /\ started = [o \in Channels |-> FALSE]
    /\ ip = [o \in Channels |-> None] /\ registered = {}
    /\ docker = [k \in Channels |-> "absent"] /\ address = [k \in Channels |-> None]
    /\ config = [k \in Channels |-> None] /\ auth = [k \in Channels |-> None]
    /\ request = [r \in Requests |-> Idle]
    /\ reused = FALSE /\ disturbed = {}

SessionStep(ch) ==
    OpenChannel(ch) \/ GetContainer(ch) \/ Serve(ch) \/ TerminalEnds(ch) \/ Leave(ch)
RequestStep(r) == Read(r) \/ Write(r) \/ WriteFailed(r)

Next ==
    \/ \E c \in Connections, name \in Names : Login(c, name)
    \/ \E ch \in Channels : SessionStep(ch) \/ StopsByItself(ch)
    \/ \E r \in Requests : RequestStep(r) \/ \E k \in Channels, body \in Bodies : Ask(r, k, body)

Spec == Init /\ [][Next]_vars

-------------------------------------------------------------------------------
(* Properties *)

\* Every variable keeps its type.
TypeOK ==
    /\ users \in Seq(Connections)
    /\ \A i, j \in DOMAIN users : users[i] = users[j] => i = j
    /\ login \in [Connections -> {"idle", "refused", "served"}]
    /\ wants \in [Connections -> Want \cup {None}]
    /\ container \in [Connections -> Channels \cup {None}]
    /\ pc \in [Channels -> {"idle", "get", "start", "attached", "check", "over"}]
    /\ object \in [Channels -> Channels \cup {None}]
    /\ of \in [Channels -> Channels \cup {None}] /\ started \in [Channels -> BOOLEAN]
    /\ ip \in [Channels -> Addresses \cup {None}] /\ registered \in SUBSET Channels
    /\ docker \in [Channels -> {"absent", "stopped", "running", "removed"}]
    /\ address \in [Channels -> Addresses \cup {None}]
    /\ config \in [Channels -> Profile \cup {None}] /\ auth \in [Channels -> Auth \cup {None}]
    /\ request \in [Requests ->
          [at : {"idle", "read", "user", "delete", "name", "password", "ok", "refused", "failed",
                 "panicked"},
           from : Channels \cup {None}, user : Connections \cup {None},
           body : Body \cup {None}, old : Auth \cup {None}, missed : BOOLEAN]]
    /\ reused \in BOOLEAN /\ disturbed \in SUBSET Requests

\* A request works on the rows of the container it comes from, from its first statement to
\* its last, unless docker gave an address again or the user it was taken for has
\* opened a second channel (ssh.go:36-43, api/auth.go:17-80).
RequestsAreOwn ==
    \A r \in AtWork : Served(r) = request[r].from \/ reused \/ Crowded(request[r].user)

\* The container a client is attached to can call the API and is found, unless it was
\* started a second time, when its address is not read again, or the connection has
\* two channels (container.go:107-129, ssh.go:36-43).
AttachedIsServed ==
    \A ch \in Channels : pc[ch] = "attached" =>
        LET o == object[ch]
            a == address[of[o]]
        IN  a = None \/ a # ip[o] \/ Crowded(ch[1]) \/ GetUser(a) # None

\* A client is attached to the container that its login was granted, or, when it was
\* granted none, to the one made for its channel, whatever other clients, requests and
\* second channels did meanwhile to registry and rows (connection.go:47-53, 117-190).
AttachedAsGranted ==
    \A ch \in Channels : pc[ch] = "attached" =>
        LET granted == wants[ch[1]].container
        IN  of[object[ch]] = IF granted = None THEN ch ELSE granted

\* Every row names a user, or AuthGet panics: unless two requests overlapped, one met the
\* removal of its container, or a connection had two channels (api/auth.go:21-25).
RowHasUser ==
    disturbed = {} /\ (\A c \in Connections : ~Crowded(c)) =>
        \A k \in Channels : auth[k] # None => auth[k].user # None

\* What configure.yaml:186-201 says that a request makes of the row of container k: an
\* empty password deletes it; the user is the new name, and what a field that is not
\* there would set is kept, or is the id of the container (api/auth.go:69-70).
Asked(k, old, body) ==
    IF body.password = Empty THEN None
    ELSE [user |-> IF body.user # None THEN body.user
                   ELSE IF old = None \/ old.user = None THEN k ELSE old.user,
          password |-> IF body.password # None THEN body.password
                       ELSE IF old = None THEN None ELSE old.password]

\* If nothing disturbs request r, it answers 200 when the row is as it asked.  Two cases in
\* which it is not: the SELECT failed, and a new name came with a new password.
OkStores(r) ==
    LET k == request[r].from
        body == request[r].body
    IN  /\ request[r].at # "ok" /\ request'[r].at = "ok"
        /\ body # None /\ body # [user |-> None, password |-> None]
        /\ r \notin disturbed /\ ~reused /\ ~Crowded(request[r].user)
        /\ ~request[r].missed /\ ~(body.user # None /\ body.password \in Passwords)
        => auth'[k] = Asked(k, request[r].old, body)

\* An answer of 200 means that the row is as the request asked (configure.yaml:186-201): the
\* new name, the new password or no row, and all else kept; if nothing disturbed it.  This
\* is false, and left out, for a request that gives both a name and a password (SetAuth
\* is called again with the name read before, api/auth.go:68-74), and for one whose
\* SELECT failed (the name becomes the container's id); and a password of null, which is
\* to delete the authentication, is to the code one that is not there.
OkIsStored == [][\A r \in Requests : OkStores(r)]_vars

\* A client that gives the name and the password of a row comes back to its container
\* (README.md:42, "Re-login into existing containers").
ReloginWorks ==
    \A k \in Channels : auth[k] # None /\ auth[k].password # None =>
        Granted(auth[k].user) = {[profile |-> config[k], container |-> k]}
===============================================================================
