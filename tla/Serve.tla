-------------------------------- MODULE Serve --------------------------------
(***************************************************************************)
(* How the server starts, serves and ends: preStart() and start() of       *)
(* server/cmd/start.go, with the two channels start shares with its signal *)
(* goroutine, the accept loop and the closer of StartServing, and the      *)
(* goroutine of ServeAPI.  What is read and checked is in Startup.         *)
(*                                                                         *)
(* sig and done are unbuffered: a send is a step of sender and receiver    *)
(* together.  The signal package drops a signal nobody is ready to take.   *)
(* What the closer does to each container is in Sessions; here a container *)
(* is only stopped or not yet.  Neither InitCli without options nor        *)
(* opening sqlite, which is done at the first statement, can fail.  Two    *)
(* parts of main can never run and are left out: the branch for a nil      *)
(* error (lines 137-148), since StartServing and ServeAPI send errors only *)
(* and http.Serve never returns nil; and the receive from done (line 151), *)
(* since main gets there only when the goroutine has taken its interrupt,  *)
(* and then it does not send.                                              *)
(***************************************************************************)
EXTENDS Startup

CONSTANTS
    Hosts,          \* the machines the server may be started on
    Signals,        \* the signals the process may get, of those start() subscribes to
    MaxRegistered   \* bound: how many containers a shutdown finds in the registry

Aborts == {"INT", "TERM"}
ASSUME SignalsAreSubscribed == Signals \subseteq Aborts \cup {"USR1"}
ASSUME MaxRegisteredIsNatural == MaxRegistered \in Nat

ASSUME HostsAreHosts == Hosts \subseteq Host

VARIABLES
    host,           \* the machine; nothing on it changes
    main,           \* where preStart() or start() is
    handler,        \* where the goroutine of lines 108-127 is
    received,       \* the signal that goroutine took, or "none"
    sshErr, apiErr, \* whether the error channels hold an error
    acceptLoop,     \* the accept loop of StartServing
    sshListener, apiListener,
    closed,         \* the flag the closer of StartServing sets for the accept loop
    stopping,       \* the goroutines of closeAllContainers that have not returned
    database,       \* "none", "open" or "closed"
    exit            \* "none", the exit status, or the signal whose number it is

sshVars == <<acceptLoop, sshListener, closed, stopping>>
vars == <<host, main, handler, received, sshErr, apiErr, sshVars, apiListener, database, exit>>

Alive == exit = "none"

-------------------------------------------------------------------------------
(* preStart *)

Loaded == InitConfig(host)

\* On to the next step, or the end of the process.
Continue(next) == main' = next /\ UNCHANGED exit
Quit(status) == exit' = status /\ UNCHANGED main

CheckDocker ==
    /\ Alive /\ main = "docker"
    /\ IF host.socket THEN Continue("config") ELSE Quit("0")
    /\ UNCHANGED <<host, handler, received, sshErr, apiErr, sshVars, apiListener, database>>

ReadConfig ==
    /\ Alive /\ main = "config"
    /\ IF Loaded # None THEN Continue("logging") ELSE Quit("0")
    /\ UNCHANGED <<host, handler, received, sshErr, apiErr, sshVars, apiListener, database>>

\* A log file is created if need be; one that cannot be opened is a panic.
CanLog(path) == path \notin {"dir", "confDir", "denied"}

StartLogging ==
    /\ Alive /\ main = "logging"
    /\ IF ValidateLogging(Loaded, FALSE) # {} THEN Quit("0")
       ELSE IF CanLog(Loaded.outputFile) /\ CanLog(Loaded.errorFile) THEN Continue("checks")
       ELSE Quit("2")
    /\ UNCHANGED <<host, handler, received, sshErr, apiErr, sshVars, apiListener, database>>

CheckConfig ==
    /\ Alive /\ main = "checks"
    /\ IF FileOkPanics(Loaded, FALSE) THEN Quit("2")
       ELSE IF Validate(Loaded, FALSE, host) # {} THEN Quit("0")
       ELSE Continue("database")
    /\ UNCHANGED <<host, handler, received, sshErr, apiErr, sshVars, apiListener, database>>

OpenDatabase ==
    /\ Alive /\ main = "database"
    /\ main' = "key" /\ database' = "open"
    /\ UNCHANGED <<host, handler, received, sshErr, apiErr, sshVars, apiListener, exit>>

-------------------------------------------------------------------------------
(* start *)

\* NewSSHConfig, and Fatalf if it fails.
ReadKey ==
    /\ Alive /\ main = "key"
    /\ IF KeyParses(Loaded) THEN Continue("ssh") ELSE Quit("1")
    /\ UNCHANGED <<host, handler, received, sshErr, apiErr, sshVars, apiListener, database>>

\* The profiles, the dynamic profile, docker's networks and the port.
CanServe ==
    /\ LoadProfileDir(Loaded, host)
    /\ Loaded.enable => DynamicProfileFromConfig(Loaded) # None
    /\ host.network /\ CanListen(Loaded.sshPort, host)

\* StartServing: an error goes to the buffered channel and there is no closer.
StartSsh ==
    /\ Alive /\ main = "ssh" /\ main' = "api"
    /\ \/ ~CanServe /\ sshErr' = TRUE /\ UNCHANGED <<acceptLoop, sshListener>>
       \/ /\ CanServe
          /\ sshListener' = "open" /\ acceptLoop' = "accepting" /\ UNCHANGED sshErr
    /\ UNCHANGED <<host, handler, received, apiErr, closed, stopping, apiListener, database, exit>>

\* The port may also be the one that StartServing listens on.
CanServeApi ==
    /\ CanListen(Loaded.apiPort, host)
    /\ sshListener = "open" /\ Loaded.apiPort = Loaded.sshPort => Loaded.apiPort = 0

StartApi ==
    /\ Alive /\ main = "api" /\ main' = "notify"
    /\ \/ ~CanServeApi /\ apiErr' = TRUE /\ UNCHANGED apiListener
       \/ CanServeApi /\ apiListener' = "open" /\ UNCHANGED apiErr
    /\ UNCHANGED <<host, handler, received, sshErr, sshVars, database, exit>>

Notify ==
    /\ Alive /\ main = "notify"
    /\ main' = "select" /\ handler' = "spawned"
    /\ UNCHANGED <<host, received, sshErr, apiErr, sshVars, apiListener, database, exit>>

\* Mutant of TakeError: only the channel of StartServing is received from.
TakeSshError ==
    /\ Alive /\ main = "select"
    /\ sshErr /\ sshErr' = FALSE
    /\ main' = "abort"
    /\ UNCHANGED <<host, handler, received, apiErr, sshVars, apiListener, database, exit>>

\* Whichever channel holds an error, it is not nil.
TakeError ==
    /\ Alive /\ main = "select"
    /\ \/ sshErr /\ sshErr' = FALSE /\ UNCHANGED apiErr
       \/ apiErr /\ apiErr' = FALSE /\ UNCHANGED sshErr
    /\ main' = "abort"
    /\ UNCHANGED <<host, handler, received, sshVars, apiListener, database, exit>>

\* Mutant of Abort: the interrupt is dropped when the goroutine does not receive.
AbortOrDrop ==
    /\ Alive /\ main = "abort" /\ main' = "await"
    /\ IF handler = "waiting" THEN handler' = "closeSsh" /\ received' = "INT"
                              ELSE UNCHANGED <<handler, received>>
    /\ UNCHANGED <<host, sshErr, apiErr, sshVars, apiListener, database, exit>>

\* sig <- os.Interrupt, met by the goroutine's receive.
Abort ==
    /\ Alive /\ main = "abort" /\ handler = "waiting"
    /\ main' = "await" /\ handler' = "closeSsh" /\ received' = "INT"
    /\ UNCHANGED <<host, sshErr, apiErr, sshVars, apiListener, database, exit>>

\* The timer of five seconds; main waits for nothing else that can come.
ForceExit ==
    /\ Alive /\ main = "await" /\ exit' = "KILL"
    /\ UNCHANGED <<host, main, handler, received, sshErr, apiErr, sshVars, apiListener, database>>

MainStep ==
    \/ CheckDocker \/ ReadConfig \/ StartLogging \/ CheckConfig \/ OpenDatabase \/ ReadKey
    \/ StartSsh \/ StartApi \/ Notify \/ TakeError \/ Abort

-------------------------------------------------------------------------------
(* The signal goroutine *)

Wait ==
    /\ Alive /\ handler = "spawned" /\ handler' = "waiting"
    /\ UNCHANGED <<host, main, received, sshErr, apiErr, sshVars, apiListener, database, exit>>

\* A signal before signal.Notify kills the process; a later one is dropped unless
\* the goroutine waits for it.
Signal(s) ==
    /\ Alive
    /\ \/ /\ main \notin {"select", "abort", "await"}
          /\ exit' = s
          /\ UNCHANGED <<handler, received>>
       \/ /\ handler = "waiting"
          /\ handler' = "closeSsh" /\ received' = s
          /\ UNCHANGED exit
    /\ UNCHANGED <<host, main, sshErr, apiErr, sshVars, apiListener, database>>

\* sshCloser, unless there is none: the flag, the containers, at last the listener.
CloseSsh ==
    /\ Alive /\ handler = "closeSsh"
    /\ IF sshListener = "none"
         THEN handler' = "closeApi" /\ UNCHANGED <<closed, stopping>>
         ELSE /\ closed' = TRUE /\ handler' = "stopContainers"
              /\ stopping' \in 0..MaxRegistered
    /\ UNCHANGED <<host, main, received, sshErr, apiErr, acceptLoop, sshListener,
                   apiListener, database, exit>>

\* Mutant of StopContainer: wg.Done is called twice.
StopCountedTwice ==
    /\ Alive /\ handler = "stopContainers" /\ stopping > 0
    /\ stopping' = stopping - 2
    /\ UNCHANGED <<host, main, handler, received, sshErr, apiErr, acceptLoop, sshListener, closed,
                   apiListener, database, exit>>

StopContainer ==
    /\ Alive /\ handler = "stopContainers" /\ stopping > 0
    /\ stopping' = stopping - 1
    /\ UNCHANGED <<host, main, handler, received, sshErr, apiErr, acceptLoop, sshListener, closed,
                   apiListener, database, exit>>

\* Mutant of CloseSshListener: wg.Wait is forgotten.
CloseWithoutWaiting ==
    /\ Alive /\ handler = "stopContainers"
    /\ sshListener' = "closed" /\ handler' = "closeApi"
    /\ UNCHANGED <<host, main, received, sshErr, apiErr, acceptLoop, closed, stopping,
                   apiListener, database, exit>>

CloseSshListener ==
    /\ Alive /\ handler = "stopContainers" /\ stopping = 0
    /\ sshListener' = "closed" /\ handler' = "closeApi"
    /\ UNCHANGED <<host, main, received, sshErr, apiErr, acceptLoop, closed, stopping,
                   apiListener, database, exit>>

CloseApi ==
    /\ Alive /\ handler = "closeApi"
    /\ apiListener' = IF apiListener = "open" THEN "closed" ELSE apiListener
    /\ handler' = "closeDatabase"
    /\ UNCHANGED <<host, main, received, sshErr, apiErr, sshVars, database, exit>>

CloseDatabase ==
    /\ Alive /\ handler = "closeDatabase"
    /\ database' = "closed" /\ handler' = "finish"
    /\ UNCHANGED <<host, main, received, sshErr, apiErr, sshVars, apiListener, exit>>

\* Mutant of Finish: the goroutine always leaves the exit to main.
FinishByMain ==
    /\ Alive /\ handler = "finish" /\ handler' = "done"
    /\ UNCHANGED <<host, main, received, sshErr, apiErr, sshVars, apiListener, database, exit>>

\* os.Exit with the signal, or on to the send on done, which nobody receives.
Finish ==
    /\ Alive /\ handler = "finish"
    /\ \/ received # "USR1" /\ exit' = received /\ UNCHANGED handler
       \/ received = "USR1" /\ handler' = "done" /\ UNCHANGED exit
    /\ UNCHANGED <<host, main, received, sshErr, apiErr, sshVars, apiListener, database>>

HandlerStep ==
    Wait \/ CloseSsh \/ StopContainer \/ CloseSshListener \/ CloseApi \/ CloseDatabase \/ Finish

-------------------------------------------------------------------------------
(* The goroutines that serve *)

\* http.Serve returns when Accept fails for good, and closes its listener.
ApiServeFails ==
    /\ Alive /\ apiListener = "open"
    /\ apiListener' = "failed" /\ apiErr' = TRUE
    /\ UNCHANGED <<host, main, handler, received, sshErr, sshVars, database, exit>>

\* http.Serve returns the error of the listener that was closed under it.
ApiServeReturns ==
    /\ Alive /\ apiListener = "closed"
    /\ apiListener' = "gone" /\ apiErr' = TRUE
    /\ UNCHANGED <<host, main, handler, received, sshErr, sshVars, database, exit>>

\* Accept on a closed listener fails: the loop ends if the flag is set, or tries again.
AcceptFails ==
    /\ Alive /\ acceptLoop = "accepting" /\ sshListener = "closed" /\ closed
    /\ acceptLoop' = "ended"
    /\ UNCHANGED <<host, main, handler, received, sshErr, apiErr, sshListener, closed, stopping,
                   apiListener, database, exit>>

-------------------------------------------------------------------------------

Init ==
    /\ host \in Hosts
    /\ main = "docker" /\ handler = "none" /\ received = "none"
    /\ sshErr = FALSE /\ apiErr = FALSE
    /\ acceptLoop = "none" /\ sshListener = "none" /\ apiListener = "none"
    /\ closed = FALSE /\ stopping = 0 /\ database = "none" /\ exit = "none"

Next ==
    \/ MainStep \/ ForceExit \/ HandlerStep \/ AcceptFails
    \/ ApiServeFails \/ ApiServeReturns
    \/ \E s \in Signals : Signal(s)

Spec == Init /\ [][Next]_vars

\* Every goroutine that can move does, docker answers every Stop, and the timer of
\* line 152 fires.
FairSpec ==
    Spec /\ WF_vars(MainStep) /\ WF_vars(HandlerStep) /\ WF_vars(ForceExit)
         /\ WF_vars(ApiServeReturns) /\ WF_vars(AcceptFails)

-------------------------------------------------------------------------------
(* Properties *)

\* Every variable keeps its type.
TypeOK ==
    /\ host \in Hosts
    /\ main \in {"docker", "config", "logging", "checks", "database", "key", "ssh", "api",
                 "notify", "select", "abort", "await"}
    /\ handler \in {"none", "spawned", "waiting", "closeSsh", "stopContainers", "closeApi",
                    "closeDatabase", "finish", "done"}
    /\ received \in Signals \cup {"none", "INT"}
    /\ sshErr \in BOOLEAN /\ apiErr \in BOOLEAN /\ closed \in BOOLEAN
    /\ acceptLoop \in {"none", "accepting", "ended"}
    /\ sshListener \in {"none", "open", "closed"}
    /\ apiListener \in {"none", "open", "failed", "closed", "gone"}
    /\ stopping \in 0..MaxRegistered
    /\ database \in {"none", "open", "closed"}
    /\ exit \in Signals \cup {"none", "0", "1", "2", "INT", "KILL"}

\* The signal goroutine exits only when every container it found is stopped and both
\* listeners and the database are closed, and with the signal it took first
\* (start.go:121, "the original exit signal should be kept to exit with it later").
ExitIsOrderly ==
    exit \in Aborts /\ handler # "none" =>
        /\ exit = received /\ stopping = 0 /\ database = "closed"
        /\ sshListener # "open" /\ apiListener # "open"

\* A shutdown that a signal began is not cut short by the timer of line 152, although the
\* closing of the API's listener makes http.Serve return an error, for which main offers
\* an interrupt of its own: nobody takes it, and main never waits for the timer
\* (start.go:108-156).
SignalledShutdownIsNotForced ==
    [][received # "none" /\ main # "await" => main' # "await" /\ exit' # "KILL"]_vars

\* An interrupt or a termination that is taken ends the process.
AbortEndsProcess == received \in Aborts ~> exit # "none"

\* A start that fails, or an API that fails while it serves, ends the process, whatever
\* signals race it, but for a SIGUSR1: main then offers its interrupt to a goroutine that
\* no longer receives.
FailedStartEnds ==
    main = "select" /\ (sshErr \/ apiErr) ~> exit # "none" \/ received = "USR1"

\* The command validate accepts what this host starts with: the same file, no variable, a
\* network to make and two ports.  A dynamic password with a * is left out: the check
\* replaces it, the start does not (convert.go:16-27, profile.go:204-219).
Accepted ==
    /\ ConfigAccepted(host, TRUE) /\ ProfilesAccepted(host, FALSE)
    /\ host.etc.profileDir = "dir" /\ host.etc.apiPort # host.etc.sshPort
    /\ host.etc.enable => host.etc.dynamicPassword # "star"
    /\ host.local = None /\ host.env = None /\ host.socket /\ host.network

\* A configuration and profiles that the command validate accepts let the server start:
\* no check, no key, no profile and no listener fails (start.go:34-103,
\* cmd/validate.go:49-149).
CheckedConfigStarts ==
    Accepted =>
        /\ exit \notin {"0", "1", "2"}
        /\ main \in {"notify", "select", "abort", "await"} =>
               sshListener # "none" /\ apiListener # "none"

\* A client that the accept loop serves by the dynamic profile gets a network mode and a
\* run level that docker4ssh knows, wherever the configuration came from
\* (validate_config.go:79-102, profile.go:204-232).
ServedDynamicIsValid ==
    acceptLoop = "accepting" /\ Loaded.enable =>
        LET profile == DynamicProfileFromConfig(Loaded)
        IN  ValidMode(profile.mode) /\ ValidLevel(profile.level)
===============================================================================
