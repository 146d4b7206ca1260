# docker4ssh, specified

docker4ssh is an SSH server whose every session ends up in a docker container.
This directory specifies it in TLA+: what the modules say, what TLC checks on
small instances, what TLAPS proves for all of them, and what is still open.
Source paths are relative to `src/server` unless they say otherwise.

## The system

| Component | Where | State it keeps | Operations |
|---|---|---|---|
| SSH sessions | `ssh/connection.go`, `ssh/handle.go` | `allContainers`, a slice of container objects, without a lock | `connection`, `getContainer`, `closeAllContainers`, one goroutine per channel |
| Accept loop and login | `ssh/ssh.go`, `ssh/config.go` | `users`, `profiles`, `closed` | handshake, `PasswordCallback`, `GetUser`, the closer |
| Container control | `docker/container.go` | per object: `config`, `started`, `terminalCount`, `Network`, `cancel` | create, reopen, `Start`, `Stop`, `Running`, `Terminal`, `UpdateConfig`, the exit-after listener |
| Images and networks | `docker/image.go`, `docker/network.go` | the network ids | `NewImage`, `InitNetwork` |
| Database | `database/` | sqlite tables `auth` and `settings` | one statement per call, no transactions |
| HTTP API | `api/` | none; finds the user by the address of the caller | `/auth`, `/config`, `/info`, `/ping`, `/error` |
| Start and shutdown | `cmd/start.go` | two channels, the exit status | `preStart`, `start`, the signal goroutine |
| Configuration and profiles | `config/`, `validate/`, `cmd/validate.go` | the configuration | parsing, defaults, environment, matching, checks |
| Pull display | `utils/jsonmessage.go` | cursor positions | turns the pull stream into terminal lines |
| configure tool | `src/container/src` (Rust) | none | a client of the API that runs inside a container |

How they interact. The accept loop makes one handshake at a time and starts one
goroutine per session. Sessions share the registry and, for one saved
container, the container object; nothing is locked. An object calls docker and
the database. A process inside the container may call the API, which finds the
user by address and works on the same object and rows. A signal stops every
registered container, closes both listeners and the database, and exits.

What is hard here: races on the registry, the terminal count and the
configuration; the time between reading the count and stopping the container;
`Stop`, four calls that may each fail; a crash that leaves containers and rows but
no objects; requests that outlive their container; and the unbuffered channels of
`start`. `PROJECT.json` lists each hazard at its line, with the properties that
cover it or the reason none does.

What makes each component correct:

- sessions: a container of run level User stops when its last session ends, is
  not stopped under a client, and each session ends when its client leaves;
- container control and database: a container that runs has its row, one that is
  removed has none, an attached client has a running, connected container;
- start and shutdown: an abort signal or a failed start ends the process, in
  order, with the right status;
- API: a change of configuration is complete or not made, in memory, in the rows
  and in docker; a request is for the caller's own container;
- login: a client gets the container or the profile its credentials name;
- the exit-after listener: a container stops when the process it was told to wait for
  ends, and not before; a container that somebody uses has one listener;
- the configuration check: what it accepts starts, and what is served is valid.

## The modules

- **`Lifecycle`**: the abstract specification. A container is made, recorded,
  started, halted, removed, and only then forgotten, credentials first.
- **`Sessions`**: the core. One action per call to docker or the database and per
  access to unlocked shared memory, for the accept loop, `getContainer`,
  `connection`, `Stop`, the shutdown, crashes and requests to `/auth`.
- **`Startup`**: what `preStart` and the two validators decide on: pure operators over the
  configuration file, the environment, the profile directory and the host.
- **`Serve`**: `preStart` check by check with the operators of `Startup`; `start()` with
  its signal goroutine, channels and timer; the life of the accept loop and of the API
  listener. Extends `Startup`.
- **`Reconfigure`**: the configuration of one container in the three places that
  hold it: the object in memory, the settings row, and docker (networks, configure
  tool). `Start`, `UpdateConfig`, `SetSettings` and `Stop` call by call, and `/config`.
- **`ExitAfter`**: the goroutines an object starts: the exit-after listener with its
  contexts and execs, and the two copy goroutines of `Terminal`; around them sessions,
  `Start`, `Stop`, requests, and the processes of the container.
- **`Access`**: who a login and a request are taken for: `PasswordCallback`, the list of
  users, several channels of one connection, `GetUser`, and `/auth` statement by statement.
- **`MCSessions`, `MCServe`, `MCReconfigure`, `MCExitAfter`, `MCAccess`**: the values of the
  constants for TLC.
- **`SessionsProofs`, `ServeProofs`, `ReconfigureProofs`, `ExitAfterProofs`,
  `AccessProofs`**: the theorems of one module each; **`SharedProofs`**: those about
  sessions that share containers, with counts and a registry that lose no update;
  **`ExclusiveProofs`**, which extends it: those about sessions that are alone on their
  containers; **`SequentialProofs`**: those of `Reconfigure` about requests that do not
  overlap.

`Sessions` has many containers and sessions with a fixed configuration and the setup
as one call; `Reconfigure` looks inside that call, at one container whose
configuration changes; `ExitAfter` has what goes on beside both, with the setup one
step again; `Access` has many users of few containers whose life is short: a session is
five steps there, and a stop is one. They are not composed: what they share are
`Stop`, the count of terminals and the crash, which each has as finely as its
properties need.

### Sessions and the code

`pc[s]` is where the goroutine of session `s` is. The container objects are named
by the session that made them: `object[s]` is the object session `s` works with,
`config`, `started` and `terminalCount` are the fields of an object, and
`allContainers` is the slice. `target[s]` is the container.
`docker`, `bridged`, `settings` and `auth` are what survives a crash.

| Code | Actions |
|---|---|
| accept loop, `ssh.go:100-178`, `PasswordCallback` | `ImageLogin`, `NamedLogin`, `SavedLogin`, `Accept`, `AcceptPanic` |
| `getContainer`, `connection.go:112-201` | `Lookup`, `Open`, `Inspect`, `Create`, `CreateFails`, `PullFatal`, `Record` |
| `connection`, `connection.go:34-110` | `Scan`, `Register`, `CheckRunning`, `StartContainer`, `Setup`, `CopyConfig`, `Check`, `Unregister`, `UnregisterPanic` |
| `Terminal`, `container.go:577-637` | `Attach`, `CountIn`, `StreamEnds`, `CountOut` |
| `Stop`, `container.go:132-146`, `Database.Delete` | `HaltStep`, `RemoveStep`, `DeleteAuthStep`, `DeleteSettingsStep`, taken by `SessionStop` and `CloserStop` |
| shutdown and crash | `BeginShutdown`, `CloserStop`, `Exit`, `Kill`, `Restart` |
| `/auth`, `api/auth.go` | `AuthRequest`, `AuthPost` |

Unlocked memory. With `Tears` the model makes the load and the store of the count
and of the slice two steps, so an update may be lost and an index go out of range
(a panic, which ends the process). Without it each is one step.

Failing calls. `CallFails(call)` makes one call fail, at most `MaxFaults` times in
a behaviour; `FailingCalls` says which calls may. A call that the state refuses (the
container is gone, or already running) fails whatever the bound says.

Abstractions, and what they leave out:

- A session is used once. An object keeps the name of its session, so a new one
  is a new session.
- The `SELECT` and the `INSERT` of `Record` are one step. Only sessions that opened
  the same container write that row, and they write the same values.
- A removed entry that a torn append brings back (a stored length greater than the
  present one) is not modelled; the index out of range that the same race causes is.
- The configuration is the run level and keep-on-exit. All containers are on the
  default network, with no exit-after process, and nobody changes their
  configuration.
- A row of `auth` is only there or not; any client may use it. Which
  credentials match is not modelled.
- One request to `/auth` at a time for each container. With `SlowRequests` its
  write may come any time later; without, it comes at once.
- The address by which the API knows a container is there once the container is
  set up; a setup that fails half way is taken to have none.
- A run of the server may begin with saved containers, stopped, with both rows.

### Startup, Serve and the code

A host is what the machine holds before the start: the two places of the configuration
file, a variable that replaces one of its entries, whether docker answers, and whether
the network can be made. Of a file only what decides is kept: a path names nothing, a
file or a directory, a key file holds a key or not, a port is free, taken or out of
range, a number is valid or not.

| Code | Definitions |
|---|---|
| configuration file and environment, `config.go` | `InitConfig`, `LoadConfig`, `UpdateFromEnv`, `AbsoluteFile` |
| profiles, `profile.go` | `LoadProfileDir`, `ParseRawProfile`, `DynamicProfileFromConfig` |
| `validate_config.go` | `Validate`, one operator per section |
| `validate_profile.go`, `cmd/validate.go` | `ValidateRawProfile`, `ConfigAccepted`, `ProfilesAccepted` |
| `preStart` and `start`, `start.go:34-118` | `CheckDocker`, `ReadConfig`, `StartLogging`, `CheckConfig`, `OpenDatabase`, `ReadKey`, `StartSsh`, `StartApi`, `Notify` |
| signal goroutine | `Signal`, `CloseSsh`, `StopContainer`, `CloseSshListener`, `CloseApi`, `CloseDatabase`, `Finish` |
| `select` and what follows | `TakeSshError`, `TakeError`, `Abort`, `Wait`, `ForceExit` |
| accept loop, `ServeAPI` | `AcceptFails`, `ApiServeReturns`, `ApiServeFails` |

`main` is where `start()` is, `handler` where the goroutine of lines 108-127 is.
An unbuffered send is a step of sender and receiver together. What happens to a
container in the shutdown is in `Sessions`: here `stopping` counts the goroutines
of `closeAllContainers`. The code has branches that cannot be reached, and the
module leaves them out: the nil error of lines 137-148, and the receive from
`done` in line 151.

### Reconfigure and the code

`config`, `started` and `address` are fields of the container object (`address` is the
network at which `Network.IP` was read); `row` is the settings row, `auth` whether
there is an auth row; `joined` and `tool` are what docker knows of the container.
`pc` says where each worker is: `Session`, the goroutine of the one session at a time,
and each request. `old` and `new` are the two configurations `updateConfig` is called
with, `level` is the run level that `connection` copied, `body` what a request asks
for. `clean` is a history variable: no call failed, no handler panicked, no crash met
anybody at work, and nothing overlapped so far.

| Code | Actions |
|---|---|
| `getContainer` and `init`, `connection.go:112-147` | `Login` |
| `Start`, `container.go:107-129` | `Start`, then the steps of `updateConfig` against a pseudo-empty configuration |
| `connection.go:69` and `:83-98` | `Enter`, `Leave`, `Unregister` |
| `Stop`, `container.go:132-146`, `Database.Delete` | `Halt`, `Remove`, `DeleteAuth`, `DeleteSettings` |
| `ConfigPost`, `api/config.go:51-124` | `Post`, `Refuse` |
| `UpdateConfig`, `container.go:329-381` | `Update`, the steps of `updateConfig`, `Changed`, `Store`, `StoreAuth`, `Finish` |
| `updateConfig`, `container.go:383-477` | `LeaveNetwork`, `JoinNetwork`, `ReadAddress`, `SetTool`, `Assign` |
| crash | `Kill` |

Abstractions, and what they leave out:

- One session at a time: what two sessions do to one another is in `Sessions`. Requests
  may overlap each other and the end of a session (`Overlap`).
- What docker refuses (the host network, another network beside none, a second
  connection of a running container) is `Refused`, an assumption about docker.
- A value of a field is valid or `"Invalid"`, a number the handler lets through and the
  table's checks do not. A body that names an unknown field, or has a value of another
  type, is `Refuse`: nothing changes, the handler answers 406 or panics.
- `CopyTo` writes several files, so a failure in it may leave the tool `"partial"`.
- The start-up text is a field like the run level and left out; `ExitAfter`, the
  shutdown and `/auth` have modules of their own.
- `Login` makes a new object only when no request works with an old one.

### ExitAfter and the code

`listener[l]` is one run of the goroutine of `setExitAfterListener`: where it is, and the
object, process, level and context it was given. `cancel[o]` is the field of the
object. `process` is what runs in the container, `stream` whose exec of a shell is
open, `reason` a history variable: the listeners that have an end to react to.

| Code | Actions |
|---|---|
| `setExitAfterListener`, `container.go:496-548` | `SetListener`, `Find`, `Exec`, `TailEnds`, `Expire` |
| `Stop`, `container.go:132-146` | `HaltStep`, `RemoveStep`, taken by `ListenerStop` and `SessionStop` |
| `getContainer`, `Start`, `connection.go:34-110` | `Login`, `Enter`, `Check` |
| `Terminal`, `container.go:577-637` | `OpenTerminal`, `InputEnds`, `OutputEnds` |
| `ConfigPost`, `UpdateConfig` | `ChangeConfig` |
| clients, processes | `ClientLeaves`, `ProcessStarts`, `ProcessEnds` |

Abstractions, and what they leave out:

- A process id is not given again while somebody waits for its end.
- The two statements of `Delete` and the end of `Stop` are one step with the removal.
- A request changes the configuration in one step that works; what fails
  half way is in `Reconfigure`.
- Attaching and counting are one step: the race between them is in `Sessions`.

### Access and the code

A container and an object are named by the channel that makes them. `users` is the
list, `wants` the profile and the container a login was granted, `container` the field
of `User` that all channels of a connection share. `request` holds what a handler of
`/auth` read. `reused` and `disturbed` are history variables.

| Code | Actions |
|---|---|
| `PasswordCallback`, `config.go`; accept loop, `ssh.go:100-178`; `GetContainerByAuth`, `database/auth.go` | `Login`, with `Granted` |
| `handle.go:17-79` | `OpenChannel` |
| `getContainer`, `connection`, `Start`, `Stop` | `GetContainer`, `Serve`, `TerminalEnds`, `Leave` |
| `GetUser`, `ssh.go:36-43`; `ServeHTTP`, `api/api.go` | `Ask` |
| `AuthGet`, `AuthPost`, `api/auth.go`; `GetAuthByContainer`, `SetAuth` | `Read` with `Proceed`, `Write`, `WriteFailed` |

Abstractions, and what they leave out:

- A name and a password are model values. A password that is hashed anew equals none
  that is stored (bcrypt salts it), so the query finds rows without a password only.
- A `SELECT` that fails is taken for one that finds no row (`missed`), as in
  `GetAuthByContainer`, and each write may fail.
- Absent and null are one value to the decoder, `None`.
- A login finds any row the query may return first: the statement has no order.
- `StopsByItself` is the end of an exit-after process; `Fragile` says of which container.

## The runs

Sizes are distinct states.

| Run | Instance | Shows |
|---|---|---|
| `sessions` | 2 sessions, 1 container, 3 configurations, any call but the query failing once, 1 crash or shutdown, lost updates, slow requests (0.9 M) | `TypeOK`, `RunningIsRecorded`, `AttachedIsLive`, `SharedObjectsAgree` |
| `shared` | 3 sessions, 1 container, 1 failing call, no crash (0.9 M) | `UnattendedIsExplained`, `RemovedLeavesNoRows`, and `KeepsLifecycleUntilItEnds`: `Sessions` implements `Lifecycle` until the server first ends |
| `exclusive` | 2 sessions, 2 containers, saved containers reopened only when unused, 1 failing call, 1 crash or shutdown (0.8 M) | `AttachedIsRegistered`, `KeepsLifecycle` |
| `liveness` | 2 sessions, 1 container, a start, stop or removal failing, 1 crash or shutdown, fairness (0.15 M) | `KeepsLifecycleUntilItEnds`, here through a shutdown, `SessionEnds`, `UnattendedStops`, `ShutdownEnds` |
| `serve` | 72 hosts, right or wrong in one thing or two; every signal at any moment, up to 3 containers to stop; fairness (8,959) | `TypeOK`, `ExitIsOrderly`, `SignalledShutdownIsNotForced`, `CheckedConfigStarts`, `ServedDynamicIsValid`, `AbortEndsProcess`, `FailedStartEnds` |
| `reconfigure` | 2 requests out of 10 bodies, overlapping, 2 sessions, 2 profiles, any call failing once, 1 crash (1.8 M) | `TypeOK`, `StoredIsConfig`, `DockerFollowsConfig`, `RemovedLeavesNoSettings`, `ConfigWasAsked`, `KeptIsNotRemoved`, `KeptCanReturn` |
| `exitafter` | 2 sessions, 2 listeners, 2 processes, 3 run levels, 1 request that sets another process or none, 1 failing call, fairness (0.4 M) | `TypeOK`, `OneListener`, `StopIsExplained`, `AttachedIsWatched`, `EndStopsContainer`, `ListenersEnd` |
| `access` | 2 connections, one with 2 channels, 2 requests with each field absent, empty or set, failing statements, 2 addresses, the second connection's container may stop by itself (1.9 M) | `TypeOK`, `RequestsAreOwn`, `AttachedIsServed`, `AttachedAsGranted`, `RowHasUser`, `OkIsStored` |
| `cutoff` | 2 sessions, nothing fails | a violation of `StopsOnlyUnattended` |
| `lostnetwork` | 2 sessions, 1 crash | a violation of `AttachedHasNetwork` |
| `exitearly` | 2 sessions, a process with id 90, nothing fails | a violation of `StopsAsConfigured` |
| `relogin` | 2 connections, 1 request that sets a password | a violation of `ReloginWorks` |

What the violations show:

- `cutoff`: `connection.go:89` reads the count, then stops. A client that attaches
  between the two is cut off, against the manual's account of run level 1. The
  same happens through two objects for one container, which two sessions make
  when both search the registry before either appends. `StopsCutOffNobody` says that it
  takes two sessions on one container.
- `lostnetwork`: after a crash a container still runs. The next login makes a new
  object for it, whose `init` disconnects it from its network; because it runs,
  `Start`, which would connect it, is skipped. Without a crash it happens to sessions that
  share a container: one finds it running and attaches before the other has set it up.
  `AttachedKeepTheirNetwork` says that there is no other way, unless the setup fails.
- `exitearly`: the filter of `container.go:527` keeps the digits strictly between 0 and 9.
  Of process id 90 nothing is left, `tail --pid` fails at once, and the listener stops
  the container under its process. An id such as 190 becomes 1, and `tail` waits for the
  main process.
- `relogin`: `GetContainerByAuth` compares the stored hash with a fresh one, so a client that
  has set a password never gets its container back. A row without a
  password matches every login instead, for AND binds tighter than OR.

The other disagreements met while modelling are no runs of their own. They are behaviours
of the model, and each is an exception that a property names or a hazard in
`PROJECT.json`:

- A request to `/auth` under way while its container is removed writes its row after
  `Database.Delete`. A login that matches it finds no settings row, and the accept
  loop dereferences a nil profile (`AcceptPanic`; `RemovedLeavesNoRows` holds without
  `SlowRequests`).
- After a SIGUSR1 both goroutines of `start` wait for the other to receive, on different
  channels: the process stays with its listeners closed (`FailedStartEnds` names it).
- A configuration request whose last write fails is answered 500 and the object keeps the change;
  made again it finds no difference, writes nothing and is answered 200.
- `connection` decides by the run level it copied before the terminal began: a client that
  sets level 3 in its session and leaves has its container stopped.
- The listener of the first start has the context of the session; it is cancelled when that
  session returns, and a cancelled listener goes on to `Stop` like one whose process ended.
- A listener that was set at level Forever ends without stopping its container
  (`container.go:539`). `docker.go:98-99`, `src/man/docker4ssh.conf.5:47` and
  `src/man/profile.conf.5:51` say that the container exits when the process ends, whatever
  its run level. `EndStopsContainer` names the exception; `StopIsExplained` does not need it.
- An object that starts a second time sets no listener and reads no address
  (`AttachedIsWatched`, `AttachedIsServed`).
- Users are never removed, and a second channel of a connection replaces the container
  of the first (`RequestsAreOwn` and `Crowded`).
- A request with a name and a password loses the name: `SetAuth` is called again with the one
  read before (`api/auth.go:68-74`), or with the container's id, though
  `src/protocol/configure.yaml:195` calls it the new username. A `SELECT` that fails does the
  same to a name that is to be kept. `OkIsStored` names both and says nothing of them.
- `src/protocol/configure.yaml:198` says that a password of null deletes the authentication; to
  `AuthPost` it is one that is not there. `Asked` goes by the absent one.
- `http.Serve` may return for an error of `Accept` while the server is up
  (`ApiServeFails`), and so may the accept loop. `main` then sends the interrupt of a failed
  start and the timer of five seconds may cut the shutdown short.
- The check does not see that both ports are equal, or that a dynamic password of `*` fails at the
  start; it rejects an empty log file, which the start accepts. A refused start
  exits with status 0. `OutputFile ""` makes the logger panic.

Three properties of `reconfigure` say "undisturbed": `StoredIsConfig`,
`DockerFollowsConfig` and `RemovedLeavesNoSettings` have `clean` as a condition. Each
is false without it: requests work on copies, and a step that
fails leaves what the steps before it did. The other three hold whatever happens.

Why the bounds are enough. The races are between two sessions that share a
container or a registry; a third makes the first two's leftovers (an object not in
the registry, a row, a container that runs) meet a new login. One container suffices
for what happens to a container, and a second shows that they are independent.
One failing call at every position, and one crash at every position, are
followed by everything a later session does. The registry never holds more entries
than sessions.

`Lifecycle` is kept by sessions that share a container only until the server first ends, and
`KeepsLifecycleUntilItEnds` says so (`NotEnded`). Once a crash, a panic or the error of an image
pull has emptied the registry, two logins may open a container that still runs and make an
object each; one leaves, removes the container and its rows, and the other, still at
`record`, writes a row for what is gone. `KeepsLifecycle` without that condition is a property
of `exclusive` only, where no two sessions are on one container.

Two requests are enough for what requests do to each other, since each works on
its own copy of the one configuration; the second session meets what the first, or a
crash, has left. The bodies have every mode, each flag both ways, two fields at once,
none, and a value out of range.

In `exitafter` a second session meets the listener that the first has set. The one request, at
any moment, names the second process, and so sets a second listener in place of the first or
the first of a container that had none, or names none, which cancels. In `access` the second
connection meets the rows, addresses and list entries of the first; two requests are
enough to overlap. One alone has any of ten bodies: none (`AuthGet`), and each of the
two fields absent, empty or set. Two that overlap set a password or delete the row
(`Overlapping`): what the bodies leave for a later request is seen one after another, and
`OkIsStored` and `RowHasUser` are not about requests that overlap. In `serve` a host that is wrong in two things shows that the first one found
decides.

Symmetry: requests are interchangeable in `reconfigure` and `access`, sessions in `sessions` and
`shared`, containers too in `exclusive` (every container is named there). `liveness`
uses none.

Deadlock is not checked: the sessions and requests of an instance are used up, and the
process of `Serve` exits.

Fairness: weak, for each session's goroutine, for the goroutines of the shutdown and
for `Exit`, because Go schedules every goroutine that can run, and docker answers each
call, with an error if need be. Clients, crashes, restarts and requests have none. In
`Serve` it is weak for both goroutines of `start`, the two listeners' goroutines and
the timer, in `ExitAfter` for each session's goroutine and each listener's; clients,
processes and requests have none.

`SharedObjectsAgree` and `RunningIsRecorded` need the query of `connection.go:182`
not to fail: the code drops its errors other than "no rows", and a container then
starts without a row. `query` is therefore in no run's `FailingCalls`, and the
theorems assume so.

## The theorems

### Sessions

For `Spec` of `Sessions`, any sets of sessions, containers and
profiles, any bounds, with and without lost updates and slow requests, and assume
`"query" \notin FailingCalls` and the named assumptions of `Sessions`.

- `Inductive`: `Spec => []IInv`, where
  `IInv == TypeOK /\ SharedObjectsAgree /\ RunningIsRecorded`.
- `TypeCorrectness`, `ObjectsAgree`, `RunningContainersAreRecorded`: its three parts.
- `AttachedClientsAreLive`: `Spec => []AttachedIsLive`.

The argument. `RunningIsRecorded` alone is not inductive: a session about to start a
container must know that its row is there. `SharedObjectsAgree` says so for every
session past `Record`, for every registry entry (a later login skips
`Record`'s first half by sharing it) and for every closer, and says that rows are
deleted only when docker has removed the container, after which it cannot start.
`AppendToPrefix` and `WithoutEntryKeeps` show that, whatever an append or a removal
loses, the entries that remain were there before. `StopStepEffect` is what
one step of `Stop` may change, whoever takes it; the rest is one lemma per group of
actions. `AttachedIsLive` follows by a second induction on top of `IInv`:
`CutOffKeepsLive` for whoever stops a container, `UntouchedKeepsLive` for all others,
`Attach` by its guard.

### Sessions that share containers

For `Spec` of `Sessions` and any sets and bounds, with `Orderly`: no update is lost (`~Tears`)
and `"query" \notin FailingCalls`. Any session may come to any container at any
time; crashes, shutdowns, restarts and all other failing calls are in, but for what a theorem
excludes.

- `SessionsAttend`: `Spec => []SInv`, where `SInv == IInv /\ Attended`.
- `UnattendedAreExplained`: `UnattendedIsExplained`.
- `ImplementsLifecycleUntilItEnds`: `Spec /\ NamedExist => KeepsLifecycleUntilItEnds`,
  with `~SlowRequests`.
- `RowsGoWithTheirContainer`: `Spec /\ NamedExist /\ [](server = "up") => []RemovedLeavesNoRows`,
  with `~SlowRequests`.

`NamedExist` says that the containers which profiles name were made before the server
started: the profiles are read once, at the start, and an id is not known before.

The argument for `SInv`. Who stops a container of run level User is decided by a count, and
two sessions may share an object or have one each. `CountsTerminals` says that the count of
every object is the cardinality of the set of its terminals, so a session that leaves without
stopping leaves another terminal of the same object behind, which is on the same container
(`CheckKeeps`). `ConfigsAgree` says that all objects of one container have one configuration,
that of its row, and that a session copied its run level from there: otherwise one object
could be of level User and the other not. `MadeBefore` keeps a container that docker makes
apart from all that anybody already knows. `RunningIsAttended` is then inductive: a container of
level User that runs has a session that attends it, or one that failed. It is stronger than
`UnattendedIsExplained`, which looks at containers nobody is on.

The argument for `Lifecycle`. A row is written for a container that exists
(`RecordsWhatExists`), and credentials go before the settings row (`ForgetsInOrder`). The
first is the hard one: between `Inspect` and `Record` another session may remove the container.
`LInv` says why none does before the server ends. A session that opens a container it did not
find in the registry opens one that is kept, and configurations agree, so nobody removes it
(`OpenersFindKept`, `StopsAreFinal`); a container that is not kept was made by a session
that is on the way to register it, and until then nobody else knows it (`MakersRegister`); and named containers
are kept (`NamedAreKept`). The crash breaks `MakersRegister`: the registry is gone and a
container that is not kept runs on. `FirstRun` is `LInv` under the condition `NotEnded`, which
`StepsOfTheServer` shows to be lost for good: a step goes on, tells the server to stop, lets it
begin again, or ends it, and an end leaves a killed session or an outage behind. `SessionLifecycle` and `CloserLifecycle` relate each step to
`Lifecycle`, with a lemma per kind of change: `QuietStep`, `DockerStep`, `SettingsStep`, `AuthStep`.

`RowsAreExplained`, for `RemovedLeavesNoRows`: a row of a removed container belongs to a
session that is at a deletion, or failed at one, or was killed before it. A failed goroutine
of the shutdown is no session, so these theorems are about servers that are up.

### Sessions, one at a time on a container

Also for `Spec` of `Sessions` and any sets and bounds, with `Undisturbed`: `Orderly`, and clients
pick a saved container only when nobody uses it (`Exclusive`). Crashes, shutdowns, restarts and
all failing calls but the query are in.

- `SessionsStayAlone`: `Spec => []EInv`, where `EInv == SInv /\ Alone`.
- `AttachedStayRegistered`: `AttachedIsRegistered`.
- `StopsCutOffNobody`: `Spec => StopsOnlyUnattended`.
- `ImplementsLifecycle`: `Spec => KeepsLifecycle`, with `~SlowRequests`, through crashes too.
- `RemovedContainersLeaveNoRows`: `RemovedLeavesNoRows`, with `~SlowRequests` and
  `MaxOutages = 0`; a panic may end the server.
- `AttachedKeepTheirNetwork`: `Spec /\ [](server = "up") => []AttachedHasNetwork`, with
  `"setup" \notin FailingCalls`.

The argument. `OneOnEach` is the reason for the rest: what a session knows of its container
stays true between its calls, because no other session is on it. The shutdown still is.
A session that makes an object finds none in the registry (`NewIsAlone`), and the shutdown
stops only what is in it (`ClosersHoldRegistered`): no container is removed while the
session that made it is still to write its row, which would record what is gone.
`StaysEnlisted` is `AttachedIsRegistered` from the append on: `WithoutEntryLosesOne` and
`AppendKeeps` say that the slice operations lose no other entry when no update is lost.
`SessionMoves` and `SettlingKeepsAlone` prove all parts once, for the steps before a stop and
for all that settle or change nothing; `Create` and the logins change a target and have
lemmas of their own.

The network. `Joined` says what `init` and `Start` leave to each other: a container that runs has
an object in the registry (`RunningIsRegistered`), a registered object that was started has
put its container on the network (`StartedIsJoined`), and a container that runs is there or is
being put there (`RunningIsJoined`). So the object whose `init` leaves the network is one of a
container that does not run, and is new (`NewIsUnstarted`): its start joins again. A crash
empties the registry and breaks the first, and so does the exit after a shutdown that could
not stop a container; a setup that fails breaks the third.

What the hypotheses are for. TLC refutes `KeepsLifecycle` in the instance of `exclusive`
with `Exclusive = FALSE` (a shutdown removes a container and its rows under a session that
is about to write one; its profiles name what sessions made, against `NamedExist`) and with
`SlowRequests` (credentials are saved for a container that
runs no more), `AttachedIsRegistered` with `Exclusive = FALSE` (one session takes the shared
object out) and with `Tears` (an append is lost), `StopsOnlyUnattended` and
`AttachedHasNetwork` in `cutoff` and `lostnetwork`.

### Reconfigure

For `Spec` of `Reconfigure`, any sets of requests, profiles and bodies, any calls that
fail, any number of crashes, and the named assumptions of the module:

- `Invariance`: `Spec => []IInv`.
- `TypeCorrect`: `TypeOK`. `ConfigIsAsked`: `ConfigWasAsked`.
  `KeptContainersStay`: `KeptIsNotRemoved`. `KeptContainersAreReachable`: `KeptCanReturn`.

The argument. `ConfigWasAsked` needs to know that the two configurations an update
carries hold asked values only, and a request's own values among them
(`UpdatesAreAsked`); that whoever is at work has an object (`MemoryIsLoaded`), whose
configuration `Start` and `Update` copy; and that only a mode with a network is
joined (`JoinsNetworks`). `KeptIsNotRemoved` looks at a container already removed, so
the invariant says that the removal was asked for when `Halt` decided on it
(`RemovalIsAsked`), and that rows go after it. `KeptCanReturn` looks at a request
that was answered; `KeptHasAuth` says the row is there one step before. A step of
`Post` only adds to what was asked (`PostAsksMore`), all others leave it alone
(`AskedStays`). There is one lemma per action, with one step per part of `IInv`.

For as long as `clean` holds (no call failed, nothing panicked, no two goroutines were at
work at once, and the server was killed only when none was), `SequentialProofs` has:

- `StaysSequential`: `Spec => []SInv`, where `SInv == IInv /\ (clean => Sequential)`.
- `RowsFollowObjects`: `StoredIsConfig`. `DockerFollowsObjects`: `DockerFollowsConfig`.
- `RemovalsLeaveNoSettings`: `RemovedLeavesNoSettings`.

The three properties look at moments of rest; `Sequential` says what holds at every
call between them. `OneAtWork` makes one goroutine's view stable: what `Update` copied
(`old`) is still the configuration when `Assign` replaces it, and the row when `Store`
writes the columns that changed (`RowsAgree`). `DockerIsMoved` follows the networks from
the old one to none to the new one; a mode without a network has left none and is found
out at `ReadAddress`, whose panic ends the clean run. `DockerFollows` has a part about
containers that are not set up again yet: a kept container's networks are those of its row.
`WorkersHaveObject` gives a request an object that was set up, because its address
was read there. `OneMoves`, `StartsAlone` and `MovesAlong` say once what a step of one
goroutine leaves to the others.

### Serve

For `Spec` of `Serve`, any set of hosts and signals and any number of containers:

- `Inductive`: `Spec => []IInv`. `TypeCorrect`: `TypeOK`.
- `ExitsInOrder`: `ExitIsOrderly`. `ShutdownIsNotForced`:
  `Spec => SignalledShutdownIsNotForced`.
- `CheckedStarts`: `CheckedConfigStarts`. `DynamicServedIsValid`: `ServedDynamicIsValid`.

The argument. `ClosesInOrder` says what is closed at each place of the signal goroutine,
`TakesOneSignal` that the goroutine takes one signal only, so that the timer, which starts when
`main` has sent its own, is never that of a shutdown by signal.
`ChecksPassed` carries what each check of `preStart` established to the later places, and
`AcceptedGoesOn` that an accepted host passes the next: each check of the start
follows from the conjunct of the validator that is about the same field, one lemma per
check.

### ExitAfter

For `Spec` of `ExitAfter`, any sets of sessions, listeners, processes, ids and
configurations, and any bounds:

- `Inductive`: `Spec => []IInv`. `TypeCorrect`: `TypeOK`.
- `ListenersAreSingle`: `OneListener`. `StopsAreExplained`: `StopIsExplained`.
- `AttachedAreWatched`: `AttachedIsWatched`.

The argument. A listener may be at `stop` for three reasons, and an end of its process
comes before it notices: `WaitsForProcess` says that while it waits without a reason its
process runs under the id it has, so that a `tail` that ends, or an exec that a
stopped container refuses, has one. `EndsAreExplained` keeps the reason to the end, where
`AttachedIsWatched` looks for it. `Explains` and `Carries` say what one step may do to one
listener; `EndsStayExplained` and `ListenersStaySet` turn that into the invariant, once for
all actions; `SetKeeps` is for the two actions that set a listener and
`StopKeeps` for the two that run `Stop`.

### Access

For `Spec` of `Access`, any sets of connections, channels, requests, names, addresses and
bodies, any profiles, any callers and containers that stop by themselves, and the named
assumptions of the module:

- `Inductive`: `Spec => []IInv`. `TypeCorrect`: `TypeOK`.
- `RequestsWorkOnTheirOwn`: `RequestsAreOwn`. `AttachedAreServed`: `AttachedIsServed`.
- `RowsHaveUsers`: `RowHasUser`. `OkMeansStored`: `Spec => OkIsStored`.
- `AttachedGetTheirGrant`: `AttachedAsGranted`, a client is in the container its login was
  granted, or in one made for its channel.

The argument. `GetUser` finds a user by an address, so `AddressesAreOf` says whose an address
can be: docker gives none that runs, and one that an object remembers is either its own
container's or `reused`. The user of a request keeps its container, or its connection has
two channels (`UsersHaveContainers`, `CrowdedStays`), so a request that set out on its own
container stays there. `OneAtWork` says that two requests at work have disturbed one
another, and `RowsAreAsRead` that nobody else has touched the row of one that is not
disturbed, unless its `SELECT` failed: the upsert of the password, which would leave a row
without a user, finds the name that was read first, or the container's id. `RequestsStay` is for the steps of sessions, `RequestMoves`
for those of requests. `AttachedAsGranted`
rests on `GrantsHold` beside `IInv`: no step gives an object another container, and
a login is over before a channel opens. `OkIsStored` is an action property: `OkHolds` looks at the last
step of a request from a state of `IInv`. `LeastExists` and `MatchFinds` are about the
least index that `GetUser` and `GetByName` choose.

Only model-checked: the liveness properties (fairness is out of the prover's reach), that is
`SessionEnds`, `UnattendedStops`, `ShutdownEnds`, `AbortEndsProcess`, `FailedStartEnds`,
`EndStopsContainer` and `ListenersEnd`; and `RemovedLeavesNoRows` for sessions that share a
container on a server that a panic ends (run `shared`). `UnattendedIsExplained` is proved for
counts that lose no update; with `Tears` it does not hold for sessions that share an object.

## Not modelled

- The pull display (`utils/jsonmessage.go`): adopted from docker's own client; what it
  writes is layout. That an error in the stream ends the server is `PullFatal`.
- The configure tool (`src/container`): one request per call and no state. Its requests are
  `Ask` of `Access` and `Post` of `Reconfigure`.
- The pty and window requests, which touch a size; which stream a `User`'s terminal
  holds when two channels share it.
- How an image name is resolved: docker's answer decides.
- Choosing sections of the check by argument. `validate profile` ignores plain files, looks
  directory entries up in the working directory and exits 0 always; a path with
  `~` is never expanded.
- The rest of `Reconfigure`'s modes: a kept container of a mode other than Host cannot
  be opened again (docker refuses the second connection), and Isolate, created under one
  name and looked up under another, panics.

What could come next: `RemovedLeavesNoRows` with a history variable for a failed goroutine of the
shutdown, and its proof through crashes; a composition of `ExitAfter` with the registry.

Left out for good: the wording of logs and messages, sizes of terminals,
the tar format of `CopyTo`, of which only success and failure are modelled, and
`CopyFrom` (unused).
