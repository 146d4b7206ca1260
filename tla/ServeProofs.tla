----------------------------- MODULE ServeProofs -----------------------------
(***************************************************************************)
(* The invariants of Serve, proved for every set of hosts and signals and  *)
(* any number of containers: what a start that was checked can rely on,    *)
(* and in which order a shutdown leaves.                                   *)
(***************************************************************************)
EXTENDS Serve, TLAPS

Serving == {"api", "notify", "select", "abort", "await"}
Checked == {"database", "key", "ssh"} \cup Serving

\* A shutdown is past the listener of the API.
Closed == {"closeDatabase", "finish", "done"}

\* The signal goroutine comes after the start, and leaves nothing open behind it.
ClosesInOrder ==
    /\ handler # "none" => main \in {"select", "abort", "await"}
    /\ handler # "stopContainers" => stopping = 0
    /\ handler = "stopContainers" => sshListener # "none"
    /\ handler \in {"closeApi"} \cup Closed => sshListener # "open"
    /\ handler \in Closed => apiListener # "open"
    /\ handler \in {"finish", "done"} => database = "closed"
    /\ exit = "none" \/ handler = "none" \/ exit = received \/ exit \notin Aborts
    /\ exit \in Aborts /\ handler # "none" => handler = "finish"

\* The goroutine takes one signal and waits for no other.
TakesOneSignal == received # "none" => handler \notin {"none", "spawned", "waiting"}

\* Whatever comes after the checks has passed them.
ChecksPassed ==
    /\ main \in {"logging", "checks"} \cup Checked => Loaded # None
    /\ main \in Checked => Validate(Loaded, FALSE, host) = {}
    /\ acceptLoop = "accepting" => main \in Serving /\ CanServe

\* What an accepted host has reached.
AcceptedGoesOn ==
    Accepted =>
        /\ exit \notin {"0", "1", "2"}
        /\ main \in Serving => sshListener # "none"
        /\ main \in Serving \ {"api"} => apiListener # "none"

IInv == TypeOK /\ ClosesInOrder /\ TakesOneSignal /\ ChecksPassed /\ AcceptedGoesOn

-------------------------------------------------------------------------------
(* Lemmas about the checks *)

\* A dynamic profile that passed the check has a known mode and level.
LEMMA DynamicIsValid ==
    ASSUME NEW config, Validate(config, FALSE, host) = {}, config.enable
    PROVE  ValidMode(config.dynamicMode) /\ ValidLevel(config.dynamicLevel)
<1>1. ValidateProfileDynamic(config, FALSE) = {}
  BY DEF Validate
<1>2. /\ Complain("NetworkMode", ~ValidMode(config.dynamicMode)) = {}
      /\ Complain("RunLevel", ~ValidLevel(config.dynamicLevel)) = {}
  BY <1>1 DEF ValidateProfileDynamic
<1> QED BY <1>2 DEF Complain

\* The file that is accepted is the one that is loaded, and its paths are the same but
\* for empty ones.
LEMMA AcceptedIsLoaded ==
    ASSUME host \in Host, Accepted
    PROVE  /\ host.etc \in Config
           /\ Loaded = [host.etc EXCEPT !.profileDir = AbsoluteFile(@),
                          !.binary = AbsoluteFile(@), !.man = AbsoluteFile(@),
                          !.keyfile = AbsoluteFile(@), !.database = AbsoluteFile(@),
                          !.outputFile = AbsoluteFile(@), !.errorFile = AbsoluteFile(@)]
           /\ Loaded = LoadConfig(host.etc, None)
           /\ Loaded # None
<1>1. host.etc # None
  BY DEF Accepted, ConfigAccepted, LoadConfig
<1>2. host.etc \in Config
  BY <1>1 DEF Host
<1>3. Loaded = LoadConfig(host.etc, None)
  BY DEF Loaded, InitConfig, Accepted
<1>4. Loaded # None
  BY <1>3 DEF Accepted, ConfigAccepted
<1>5. host.etc # None /\ host.etc.parses
  BY <1>3, <1>4 DEF LoadConfig
<1> QED BY <1>2, <1>3, <1>4, <1>5 DEF LoadConfig, UpdateFromEnv

\* What the strict check lets pass, the start lets pass.
LEMMA StrictIsStricter ==
    ASSUME NEW config, Validate(config, TRUE, host) = {}, ~FileOkPanics(config, TRUE)
    PROVE  /\ Validate(config, FALSE, host) = {} /\ ~FileOkPanics(config, FALSE)
           /\ ValidateLogging(config, FALSE) = {}
           /\ FileOk(config.outputFile) /\ FileOk(config.errorFile)
           /\ FileOk(config.keyfile) /\ KeyParses(config)
           /\ CanListen(config.apiPort, host) /\ CanListen(config.sshPort, host)
           /\ Compiles(config.dynamicPassword)
<1>1. /\ ValidateProfileDefault(config) = {} /\ ValidateProfileDynamic(config, TRUE) = {}
      /\ ValidateAPI(config, TRUE, host) = {} /\ ValidateSSH(config, TRUE, host) = {}
      /\ ValidateDatabase(config) = {} /\ ValidateNetwork(config) = {}
      /\ ValidateLogging(config, TRUE) = {}
  BY DEF Validate
<1>2. ValidateProfileDynamic(config, FALSE) = {} /\ Compiles(config.dynamicPassword)
  BY <1>1 DEF ValidateProfileDynamic, Complain
<1>3. ValidateAPI(config, FALSE, host) = {} /\ IsPortFree(config.apiPort, host)
  BY <1>1 DEF ValidateAPI, Complain
<1>4. /\ ValidateSSH(config, FALSE, host) = {} /\ IsPortFree(config.sshPort, host)
      /\ FileOk(config.keyfile) /\ KeyParses(config)
  BY <1>1 DEF ValidateSSH, Complain
<1>5. /\ ValidateLogging(config, FALSE) = {}
      /\ FileOk(config.outputFile) /\ FileOk(config.errorFile)
  BY <1>1 DEF ValidateLogging, Complain
<1>6. Validate(config, FALSE, host) = {}
  BY <1>1, <1>2, <1>3, <1>4, <1>5 DEF Validate
<1>7. ~FileOkPanics(config, FALSE)
  BY DEF FileOkPanics
<1> QED BY <1>2, <1>3, <1>4, <1>5, <1>6, <1>7 DEF IsPortFree

\* An accepted host passes every check and can serve.
LEMMA AcceptedPasses ==
    ASSUME host \in Host, Accepted
    PROVE  /\ host.socket /\ Loaded # None
           /\ ValidateLogging(Loaded, FALSE) = {}
           /\ CanLog(Loaded.outputFile) /\ CanLog(Loaded.errorFile)
           /\ ~FileOkPanics(Loaded, FALSE) /\ Validate(Loaded, FALSE, host) = {}
           /\ KeyParses(Loaded) /\ CanServe /\ CanServeApi
<1>1. Validate(Loaded, TRUE, host) = {} /\ ~FileOkPanics(Loaded, TRUE)
  BY AcceptedIsLoaded DEF Accepted, ConfigAccepted
<1>2. /\ Validate(Loaded, FALSE, host) = {} /\ ~FileOkPanics(Loaded, FALSE)
      /\ ValidateLogging(Loaded, FALSE) = {}
      /\ FileOk(Loaded.outputFile) /\ FileOk(Loaded.errorFile) /\ KeyParses(Loaded)
      /\ CanListen(Loaded.apiPort, host) /\ CanListen(Loaded.sshPort, host)
      /\ Compiles(Loaded.dynamicPassword)
  BY <1>1, StrictIsStricter
<1>3. CanLog(Loaded.outputFile) /\ CanLog(Loaded.errorFile)
  BY <1>2 DEF FileOk, Files, KeyFiles, CanLog
<1>4. /\ Loaded.profileDir = "dir" /\ Loaded.apiPort # Loaded.sshPort
      /\ Loaded.enable = host.etc.enable /\ Loaded.dynamicPassword = host.etc.dynamicPassword
  BY AcceptedIsLoaded DEF Accepted, AbsoluteFile, Config
<1>5. LoadProfileDir(Loaded, host)
  BY <1>4 DEF LoadProfileDir, Accepted, ProfilesAccepted
<1>6. ASSUME Loaded.enable
      PROVE  DynamicProfileFromConfig(Loaded) # None
  <2>1. Loaded.dynamicPassword \in Patterns /\ Loaded.dynamicPassword # "star"
    BY <1>4, <1>6, AcceptedIsLoaded DEF Accepted, Config
  <2>2. CompilesAsIs(Loaded.dynamicPassword)
    BY <1>2, <2>1 DEF Patterns, Compiles, CompilesAsIs
  <2>3. Loaded.dynamicMode \in Nat /\ Loaded.dynamicLevel \in Nat
    BY AcceptedIsLoaded DEF Config
  <2> QED BY <2>2, <2>3, NoneIsNothing DEF DynamicProfileFromConfig
<1>7. CanServe
  BY <1>2, <1>5, <1>6 DEF CanServe, Accepted
<1>8. CanServeApi
  BY <1>2, <1>4 DEF CanServeApi
<1> QED BY <1>2, <1>3, <1>7, <1>8, AcceptedIsLoaded DEF Accepted

-------------------------------------------------------------------------------
(* Each action keeps the invariant *)

\* Nothing on the host changes, and so nothing that is said of it.
LEMMA HostStays ==
    ASSUME UNCHANGED host
    PROVE  /\ Loaded' = Loaded /\ CanServe' = CanServe /\ Accepted' = Accepted
           /\ Validate(Loaded, FALSE, host)' = Validate(Loaded, FALSE, host)
BY DEF Loaded, CanServe, Accepted

\* CheckDocker keeps the invariant.
LEMMA CheckDockerKeeps ==
    ASSUME IInv, CheckDocker
    PROVE  IInv'
<1> USE SignalsAreSubscribed, HostStays DEF IInv, CheckDocker, Continue, Quit, Alive, sshVars, Closed, Aborts
<1>1. TypeOK'
  BY MaxRegisteredIsNatural DEF TypeOK
<1>2. ClosesInOrder'
  BY DEF TypeOK, ClosesInOrder
<1>3. TakesOneSignal'
  BY DEF TypeOK, TakesOneSignal
<1>4. ChecksPassed'
  BY DEF TypeOK, ChecksPassed, Checked, Serving
<1>5. AcceptedGoesOn'
  BY HostsAreHosts, AcceptedPasses DEF TypeOK, ClosesInOrder, AcceptedGoesOn, Serving
<1> QED BY <1>1, <1>2, <1>3, <1>4, <1>5

\* ReadConfig keeps the invariant.
LEMMA ReadConfigKeeps ==
    ASSUME IInv, ReadConfig
    PROVE  IInv'
<1> USE SignalsAreSubscribed, HostStays DEF IInv, ReadConfig, Continue, Quit, Alive, sshVars, Closed, Aborts
<1>1. TypeOK'
  BY MaxRegisteredIsNatural DEF TypeOK
<1>2. ClosesInOrder'
  BY DEF TypeOK, ClosesInOrder
<1>3. TakesOneSignal'
  BY DEF TypeOK, TakesOneSignal
<1>4. ChecksPassed'
  BY DEF TypeOK, ChecksPassed, Checked, Serving
<1>5. AcceptedGoesOn'
  BY HostsAreHosts, AcceptedPasses DEF TypeOK, ClosesInOrder, AcceptedGoesOn, Serving
<1> QED BY <1>1, <1>2, <1>3, <1>4, <1>5

\* StartLogging keeps the invariant.
LEMMA StartLoggingKeeps ==
    ASSUME IInv, StartLogging
    PROVE  IInv'
<1> USE SignalsAreSubscribed, HostStays DEF IInv, StartLogging, Continue, Quit, Alive, sshVars, Closed, Aborts
<1>1. TypeOK'
  <2>1. main' \in {"docker", "config", "logging", "checks", "database", "key", "ssh", "api",
                   "notify", "select", "abort", "await"}
    BY DEF TypeOK
  <2>2. exit' \in Signals \cup {"none", "0", "1", "2", "INT", "KILL"}
    BY DEF TypeOK
  <2> QED BY <2>1, <2>2 DEF TypeOK
<1>2. ClosesInOrder'
  BY DEF TypeOK, ClosesInOrder
<1>3. TakesOneSignal'
  BY DEF TypeOK, TakesOneSignal
<1>4. ChecksPassed'
  BY DEF TypeOK, ChecksPassed, Checked, Serving
<1>5. AcceptedGoesOn'
  BY HostsAreHosts, AcceptedPasses DEF TypeOK, ClosesInOrder, AcceptedGoesOn, Serving
<1> QED BY <1>1, <1>2, <1>3, <1>4, <1>5

\* CheckConfig keeps the invariant.
LEMMA CheckConfigKeeps ==
    ASSUME IInv, CheckConfig
    PROVE  IInv'
<1> USE SignalsAreSubscribed, HostStays DEF IInv, CheckConfig, Continue, Quit, Alive, sshVars, Closed, Aborts
<1>1. TypeOK'
  <2>1. main' \in {"docker", "config", "logging", "checks", "database", "key", "ssh", "api",
                   "notify", "select", "abort", "await"}
    BY DEF TypeOK
  <2>2. exit' \in Signals \cup {"none", "0", "1", "2", "INT", "KILL"}
    BY DEF TypeOK
  <2> QED BY <2>1, <2>2 DEF TypeOK
<1>2. ClosesInOrder'
  BY DEF TypeOK, ClosesInOrder
<1>3. TakesOneSignal'
  BY DEF TypeOK, TakesOneSignal
<1>4. ChecksPassed'
  <2>1. main' \in {"logging", "checks"} \cup Checked => Loaded # None
    BY DEF TypeOK, ChecksPassed, Checked, Serving
  <2>2. main' \in Checked => Validate(Loaded, FALSE, host) = {}
    BY DEF TypeOK, ChecksPassed, Checked, Serving
  <2>3. acceptLoop' = "accepting" => main' \in Serving /\ CanServe
    BY DEF TypeOK, ChecksPassed, Serving
  <2> QED BY <2>1, <2>2, <2>3 DEF ChecksPassed
<1>5. AcceptedGoesOn'
  BY HostsAreHosts, AcceptedPasses DEF TypeOK, ClosesInOrder, AcceptedGoesOn, Serving
<1> QED BY <1>1, <1>2, <1>3, <1>4, <1>5

\* OpenDatabase keeps the invariant.
LEMMA OpenDatabaseKeeps ==
    ASSUME IInv, OpenDatabase
    PROVE  IInv'
<1> USE SignalsAreSubscribed, HostStays DEF IInv, OpenDatabase, Alive, sshVars, Closed, Aborts
<1>1. TypeOK'
  BY MaxRegisteredIsNatural DEF TypeOK
<1>2. ClosesInOrder'
  BY DEF TypeOK, ClosesInOrder
<1>3. TakesOneSignal'
  BY DEF TypeOK, TakesOneSignal
<1>4. ChecksPassed'
  BY DEF TypeOK, ChecksPassed, Checked, Serving
<1>5. AcceptedGoesOn'
  BY HostsAreHosts, AcceptedPasses DEF TypeOK, ClosesInOrder, AcceptedGoesOn, Serving
<1> QED BY <1>1, <1>2, <1>3, <1>4, <1>5

\* ReadKey keeps the invariant.
LEMMA ReadKeyKeeps ==
    ASSUME IInv, ReadKey
    PROVE  IInv'
<1> USE SignalsAreSubscribed, HostStays DEF IInv, ReadKey, Continue, Quit, Alive, sshVars, Closed, Aborts
<1>1. TypeOK'
  BY MaxRegisteredIsNatural DEF TypeOK
<1>2. ClosesInOrder'
  BY DEF TypeOK, ClosesInOrder
<1>3. TakesOneSignal'
  BY DEF TypeOK, TakesOneSignal
<1>4. ChecksPassed'
  BY DEF TypeOK, ChecksPassed, Checked, Serving
<1>5. AcceptedGoesOn'
  BY HostsAreHosts, AcceptedPasses DEF TypeOK, ClosesInOrder, AcceptedGoesOn, Serving
<1> QED BY <1>1, <1>2, <1>3, <1>4, <1>5

\* StartSsh keeps the invariant.
LEMMA StartSshKeeps ==
    ASSUME IInv, StartSsh
    PROVE  IInv'
<1> USE SignalsAreSubscribed, HostStays DEF IInv, StartSsh, Alive, sshVars, Closed, Aborts
<1>1. TypeOK'
  <2>1. main' \in {"docker", "config", "logging", "checks", "database", "key", "ssh", "api",
                   "notify", "select", "abort", "await"}
    BY DEF TypeOK
  <2>2. sshErr' \in BOOLEAN
    BY DEF TypeOK
  <2>3. acceptLoop' \in {"none", "accepting", "ended"}
    BY DEF TypeOK
  <2>4. sshListener' \in {"none", "open", "closed"}
    BY DEF TypeOK
  <2> QED BY <2>1, <2>2, <2>3, <2>4 DEF TypeOK
<1>2. ClosesInOrder'
  BY DEF TypeOK, ClosesInOrder
<1>3. TakesOneSignal'
  BY DEF TypeOK, TakesOneSignal
<1>4. ChecksPassed'
  BY DEF TypeOK, ChecksPassed, Checked, Serving
<1>5. AcceptedGoesOn'
  BY HostsAreHosts, AcceptedPasses DEF TypeOK, ClosesInOrder, AcceptedGoesOn, Serving
<1> QED BY <1>1, <1>2, <1>3, <1>4, <1>5

\* StartApi keeps the invariant.
LEMMA StartApiKeeps ==
    ASSUME IInv, StartApi
    PROVE  IInv'
<1> USE SignalsAreSubscribed, HostStays DEF IInv, StartApi, Alive, sshVars, Closed, Aborts
<1>1. TypeOK'
  <2>1. main' \in {"docker", "config", "logging", "checks", "database", "key", "ssh", "api",
                   "notify", "select", "abort", "await"}
    BY DEF TypeOK
  <2>2. apiErr' \in BOOLEAN
    BY DEF TypeOK
  <2>3. apiListener' \in {"none", "open", "failed", "closed", "gone"}
    BY DEF TypeOK
  <2> QED BY <2>1, <2>2, <2>3 DEF TypeOK
<1>2. ClosesInOrder'
  BY DEF TypeOK, ClosesInOrder
<1>3. TakesOneSignal'
  BY DEF TypeOK, TakesOneSignal
<1>4. ChecksPassed'
  BY DEF TypeOK, ChecksPassed, Checked, Serving
<1>5. AcceptedGoesOn'
  BY HostsAreHosts, AcceptedPasses DEF TypeOK, ClosesInOrder, AcceptedGoesOn, Serving
<1> QED BY <1>1, <1>2, <1>3, <1>4, <1>5

\* Notify keeps the invariant.
LEMMA NotifyKeeps ==
    ASSUME IInv, Notify
    PROVE  IInv'
<1> USE SignalsAreSubscribed, HostStays DEF IInv, Notify, Alive, sshVars, Closed, Aborts
<1>1. TypeOK'
  BY MaxRegisteredIsNatural DEF TypeOK
<1>2. ClosesInOrder'
  BY DEF TypeOK, ClosesInOrder
<1>3. TakesOneSignal'
  BY DEF TypeOK, ClosesInOrder, TakesOneSignal
<1>4. ChecksPassed'
  BY DEF TypeOK, ChecksPassed, Checked, Serving
<1>5. AcceptedGoesOn'
  BY HostsAreHosts, AcceptedPasses DEF TypeOK, ClosesInOrder, AcceptedGoesOn, Serving
<1> QED BY <1>1, <1>2, <1>3, <1>4, <1>5

\* TakeError keeps the invariant.
LEMMA TakeErrorKeeps ==
    ASSUME IInv, TakeError
    PROVE  IInv'
<1> USE SignalsAreSubscribed, HostStays DEF IInv, TakeError, Alive, sshVars, Closed, Aborts
<1>1. TypeOK'
  <2>1. main' \in {"docker", "config", "logging", "checks", "database", "key", "ssh", "api",
                   "notify", "select", "abort", "await"}
    BY DEF TypeOK
  <2>2. sshErr' \in BOOLEAN
    BY DEF TypeOK
  <2>3. apiErr' \in BOOLEAN
    BY DEF TypeOK
  <2> QED BY <2>1, <2>2, <2>3 DEF TypeOK
<1>2. ClosesInOrder'
  BY DEF TypeOK, ClosesInOrder
<1>3. TakesOneSignal'
  BY DEF TypeOK, TakesOneSignal
<1>4. ChecksPassed'
  BY DEF TypeOK, ChecksPassed, Checked, Serving
<1>5. AcceptedGoesOn'
  BY HostsAreHosts, AcceptedPasses DEF TypeOK, ClosesInOrder, AcceptedGoesOn, Serving
<1> QED BY <1>1, <1>2, <1>3, <1>4, <1>5

\* Abort keeps the invariant.
LEMMA AbortKeeps ==
    ASSUME IInv, Abort
    PROVE  IInv'
<1> USE SignalsAreSubscribed, HostStays DEF IInv, Abort, Alive, sshVars, Closed, Aborts
<1>1. TypeOK'
  BY MaxRegisteredIsNatural DEF TypeOK
<1>2. ClosesInOrder'
  BY DEF TypeOK, ClosesInOrder
<1>3. TakesOneSignal'
  BY DEF TypeOK, TakesOneSignal
<1>4. ChecksPassed'
  BY DEF TypeOK, ChecksPassed, Checked, Serving
<1>5. AcceptedGoesOn'
  BY HostsAreHosts, AcceptedPasses DEF TypeOK, ClosesInOrder, AcceptedGoesOn, Serving
<1> QED BY <1>1, <1>2, <1>3, <1>4, <1>5

\* ForceExit keeps the invariant.
LEMMA ForceExitKeeps ==
    ASSUME IInv, ForceExit
    PROVE  IInv'
<1> USE SignalsAreSubscribed, HostStays DEF IInv, ForceExit, Alive, sshVars, Closed, Aborts
<1>1. TypeOK'
  BY MaxRegisteredIsNatural DEF TypeOK
<1>2. ClosesInOrder'
  BY DEF TypeOK, ClosesInOrder
<1>3. TakesOneSignal'
  BY DEF TypeOK, TakesOneSignal
<1>4. ChecksPassed'
  BY DEF TypeOK, ChecksPassed, Checked, Serving
<1>5. AcceptedGoesOn'
  BY HostsAreHosts, AcceptedPasses DEF TypeOK, ClosesInOrder, AcceptedGoesOn, Serving
<1> QED BY <1>1, <1>2, <1>3, <1>4, <1>5

\* Wait keeps the invariant.
LEMMA WaitKeeps ==
    ASSUME IInv, Wait
    PROVE  IInv'
<1> USE SignalsAreSubscribed, HostStays DEF IInv, Wait, Alive, sshVars, Closed, Aborts
<1>1. TypeOK'
  BY MaxRegisteredIsNatural DEF TypeOK
<1>2. ClosesInOrder'
  BY DEF TypeOK, ClosesInOrder
<1>3. TakesOneSignal'
  BY DEF TypeOK, TakesOneSignal
<1>4. ChecksPassed'
  BY DEF TypeOK, ChecksPassed, Checked, Serving
<1>5. AcceptedGoesOn'
  BY HostsAreHosts, AcceptedPasses DEF TypeOK, ClosesInOrder, AcceptedGoesOn, Serving
<1> QED BY <1>1, <1>2, <1>3, <1>4, <1>5

\* CloseSsh keeps the invariant.
LEMMA CloseSshKeeps ==
    ASSUME IInv, CloseSsh
    PROVE  IInv'
<1> USE SignalsAreSubscribed, HostStays DEF IInv, CloseSsh, Alive, sshVars, Closed, Aborts
<1>1. TypeOK'
  <2>1. handler' \in {"none", "spawned", "waiting", "closeSsh", "stopContainers", "closeApi",
                      "closeDatabase", "finish", "done"}
    BY DEF TypeOK
  <2>2. closed' \in BOOLEAN
    BY DEF TypeOK
  <2>3. stopping' \in 0..MaxRegistered
    BY DEF TypeOK
  <2> QED BY <2>1, <2>2, <2>3 DEF TypeOK
<1>2. ClosesInOrder'
  BY DEF TypeOK, ClosesInOrder
<1>3. TakesOneSignal'
  BY DEF TypeOK, TakesOneSignal
<1>4. ChecksPassed'
  BY DEF TypeOK, ChecksPassed, Checked, Serving
<1>5. AcceptedGoesOn'
  BY HostsAreHosts, AcceptedPasses DEF TypeOK, ClosesInOrder, AcceptedGoesOn, Serving
<1> QED BY <1>1, <1>2, <1>3, <1>4, <1>5

\* StopContainer keeps the invariant.
LEMMA StopContainerKeeps ==
    ASSUME IInv, StopContainer
    PROVE  IInv'
<1> USE SignalsAreSubscribed, HostStays DEF IInv, StopContainer, Alive, sshVars, Closed, Aborts
<1>1. TypeOK'
  BY MaxRegisteredIsNatural DEF TypeOK
<1>2. ClosesInOrder'
  BY DEF TypeOK, ClosesInOrder
<1>3. TakesOneSignal'
  BY DEF TypeOK, TakesOneSignal
<1>4. ChecksPassed'
  BY DEF TypeOK, ChecksPassed, Checked, Serving
<1>5. AcceptedGoesOn'
  BY HostsAreHosts, AcceptedPasses DEF TypeOK, ClosesInOrder, AcceptedGoesOn, Serving
<1> QED BY <1>1, <1>2, <1>3, <1>4, <1>5

\* CloseSshListener keeps the invariant.
LEMMA CloseSshListenerKeeps ==
    ASSUME IInv, CloseSshListener
    PROVE  IInv'
<1> USE SignalsAreSubscribed, HostStays DEF IInv, CloseSshListener, Alive, sshVars, Closed, Aborts
<1>1. TypeOK'
  <2>1. handler' \in {"none", "spawned", "waiting", "closeSsh", "stopContainers", "closeApi",
                      "closeDatabase", "finish", "done"}
    BY DEF TypeOK
  <2>2. sshListener' \in {"none", "open", "closed"}
    BY DEF TypeOK
  <2> QED BY <2>1, <2>2 DEF TypeOK
<1>2. ClosesInOrder'
  BY DEF TypeOK, ClosesInOrder
<1>3. TakesOneSignal'
  BY DEF TypeOK, TakesOneSignal
<1>4. ChecksPassed'
  BY DEF TypeOK, ChecksPassed, Checked, Serving
<1>5. AcceptedGoesOn'
  BY HostsAreHosts, AcceptedPasses DEF TypeOK, ClosesInOrder, AcceptedGoesOn, Serving
<1> QED BY <1>1, <1>2, <1>3, <1>4, <1>5

\* CloseApi keeps the invariant.
LEMMA CloseApiKeeps ==
    ASSUME IInv, CloseApi
    PROVE  IInv'
<1> USE SignalsAreSubscribed, HostStays DEF IInv, CloseApi, Alive, sshVars, Closed, Aborts
<1>1. TypeOK'
  BY MaxRegisteredIsNatural DEF TypeOK
<1>2. ClosesInOrder'
  BY DEF TypeOK, ClosesInOrder
<1>3. TakesOneSignal'
  BY DEF TypeOK, TakesOneSignal
<1>4. ChecksPassed'
  BY DEF TypeOK, ChecksPassed, Checked, Serving
<1>5. AcceptedGoesOn'
  BY HostsAreHosts, AcceptedPasses DEF TypeOK, ClosesInOrder, AcceptedGoesOn, Serving
<1> QED BY <1>1, <1>2, <1>3, <1>4, <1>5

\* CloseDatabase keeps the invariant.
LEMMA CloseDatabaseKeeps ==
    ASSUME IInv, CloseDatabase
    PROVE  IInv'
<1> USE SignalsAreSubscribed, HostStays DEF IInv, CloseDatabase, Alive, sshVars, Closed, Aborts
<1>1. TypeOK'
  BY MaxRegisteredIsNatural DEF TypeOK
<1>2. ClosesInOrder'
  BY DEF TypeOK, ClosesInOrder
<1>3. TakesOneSignal'
  BY DEF TypeOK, TakesOneSignal
<1>4. ChecksPassed'
  BY DEF TypeOK, ChecksPassed, Checked, Serving
<1>5. AcceptedGoesOn'
  BY HostsAreHosts, AcceptedPasses DEF TypeOK, ClosesInOrder, AcceptedGoesOn, Serving
<1> QED BY <1>1, <1>2, <1>3, <1>4, <1>5

\* Finish keeps the invariant.
LEMMA FinishKeeps ==
    ASSUME IInv, Finish
    PROVE  IInv'
<1> USE SignalsAreSubscribed, HostStays DEF IInv, Finish, Alive, sshVars, Closed, Aborts
<1>1. TypeOK'
  BY MaxRegisteredIsNatural DEF TypeOK
<1>2. ClosesInOrder'
  BY DEF TypeOK, ClosesInOrder
<1>3. TakesOneSignal'
  BY DEF TypeOK, TakesOneSignal
<1>4. ChecksPassed'
  BY DEF TypeOK, ChecksPassed, Checked, Serving
<1>5. AcceptedGoesOn'
  BY HostsAreHosts, AcceptedPasses DEF TypeOK, ClosesInOrder, AcceptedGoesOn, Serving
<1> QED BY <1>1, <1>2, <1>3, <1>4, <1>5

\* ApiServeFails keeps the invariant.
LEMMA ApiServeFailsKeeps ==
    ASSUME IInv, ApiServeFails
    PROVE  IInv'
<1> USE SignalsAreSubscribed, HostStays DEF IInv, ApiServeFails, Alive, sshVars, Closed, Aborts
<1>1. TypeOK'
  BY MaxRegisteredIsNatural DEF TypeOK
<1>2. ClosesInOrder'
  BY DEF TypeOK, ClosesInOrder
<1>3. TakesOneSignal'
  BY DEF TypeOK, TakesOneSignal
<1>4. ChecksPassed'
  BY DEF TypeOK, ChecksPassed, Checked, Serving
<1>5. AcceptedGoesOn'
  BY HostsAreHosts, AcceptedPasses DEF TypeOK, ClosesInOrder, AcceptedGoesOn, Serving
<1> QED BY <1>1, <1>2, <1>3, <1>4, <1>5

\* ApiServeReturns keeps the invariant.
LEMMA ApiServeReturnsKeeps ==
    ASSUME IInv, ApiServeReturns
    PROVE  IInv'
<1> USE SignalsAreSubscribed, HostStays DEF IInv, ApiServeReturns, Alive, sshVars, Closed, Aborts
<1>1. TypeOK'
  BY MaxRegisteredIsNatural DEF TypeOK
<1>2. ClosesInOrder'
  BY DEF TypeOK, ClosesInOrder
<1>3. TakesOneSignal'
  BY DEF TypeOK, TakesOneSignal
<1>4. ChecksPassed'
  BY DEF TypeOK, ChecksPassed, Checked, Serving
<1>5. AcceptedGoesOn'
  BY HostsAreHosts, AcceptedPasses DEF TypeOK, ClosesInOrder, AcceptedGoesOn, Serving
<1> QED BY <1>1, <1>2, <1>3, <1>4, <1>5

\* AcceptFails keeps the invariant.
LEMMA AcceptFailsKeeps ==
    ASSUME IInv, AcceptFails
    PROVE  IInv'
<1> USE SignalsAreSubscribed, HostStays DEF IInv, AcceptFails, Alive, sshVars, Closed, Aborts
<1>1. TypeOK'
  BY MaxRegisteredIsNatural DEF TypeOK
<1>2. ClosesInOrder'
  BY DEF TypeOK, ClosesInOrder
<1>3. TakesOneSignal'
  BY DEF TypeOK, TakesOneSignal
<1>4. ChecksPassed'
  BY DEF TypeOK, ChecksPassed, Checked, Serving
<1>5. AcceptedGoesOn'
  BY HostsAreHosts, AcceptedPasses DEF TypeOK, ClosesInOrder, AcceptedGoesOn, Serving
<1> QED BY <1>1, <1>2, <1>3, <1>4, <1>5

\* Signal keeps the invariant.
LEMMA SignalKeeps ==
    ASSUME IInv, NEW s \in Signals, Signal(s)
    PROVE  IInv'
<1> USE SignalsAreSubscribed, HostStays DEF IInv, Signal, Alive, sshVars, Closed, Aborts
<1>1. TypeOK'
  BY MaxRegisteredIsNatural DEF TypeOK
<1>2. ClosesInOrder'
  BY DEF TypeOK, ClosesInOrder
<1>3. TakesOneSignal'
  BY DEF TypeOK, TakesOneSignal
<1>4. ChecksPassed'
  BY DEF TypeOK, ChecksPassed, Checked, Serving
<1>5. AcceptedGoesOn'
  BY HostsAreHosts, AcceptedPasses DEF TypeOK, ClosesInOrder, AcceptedGoesOn, Serving
<1> QED BY <1>1, <1>2, <1>3, <1>4, <1>5

-------------------------------------------------------------------------------
(* Theorems *)

\* The invariant holds at the start.
LEMMA Initially == Init => IInv
<1> SUFFICES ASSUME Init PROVE IInv
  OBVIOUS
<1>1. TypeOK
  <2>1. stopping \in 0..MaxRegistered
    BY MaxRegisteredIsNatural DEF Init
  <2>2. /\ host \in Hosts /\ sshErr \in BOOLEAN /\ apiErr \in BOOLEAN /\ closed \in BOOLEAN
        /\ exit = "none" /\ received = "none" /\ main = "docker" /\ handler = "none"
        /\ acceptLoop = "none" /\ sshListener = "none" /\ apiListener = "none"
        /\ database = "none"
    BY DEF Init
  <2> QED BY <2>1, <2>2 DEF TypeOK
<1>2. ClosesInOrder /\ TakesOneSignal
  BY DEF Init, ClosesInOrder, TakesOneSignal, Closed, Aborts
<1>3. ChecksPassed /\ AcceptedGoesOn
  BY DEF Init, ChecksPassed, AcceptedGoesOn, Checked, Serving
<1> QED BY <1>1, <1>2, <1>3 DEF IInv

\* Every step keeps it.
LEMMA Steps == IInv /\ [Next]_vars => IInv'
<1> SUFFICES ASSUME IInv, [Next]_vars PROVE IInv'
  OBVIOUS
<1>1. CASE MainStep
  BY <1>1, CheckDockerKeeps, ReadConfigKeeps, StartLoggingKeeps, CheckConfigKeeps,
     OpenDatabaseKeeps, ReadKeyKeeps, StartSshKeeps, StartApiKeeps, NotifyKeeps,
     TakeErrorKeeps, AbortKeeps DEF MainStep
<1>2. CASE HandlerStep
  BY <1>2, WaitKeeps, CloseSshKeeps, StopContainerKeeps, CloseSshListenerKeeps,
     CloseApiKeeps, CloseDatabaseKeeps, FinishKeeps DEF HandlerStep
<1>3. CASE ForceExit \/ AcceptFails \/ ApiServeFails \/ ApiServeReturns
  BY <1>3, ForceExitKeeps, AcceptFailsKeeps, ApiServeFailsKeeps, ApiServeReturnsKeeps
<1>4. CASE \E s \in Signals : Signal(s)
  BY <1>4, SignalKeeps
<1>5. CASE UNCHANGED vars
  <2> USE <1>5 DEF vars, sshVars, IInv
  <2>1. TypeOK'
    BY DEF TypeOK
  <2>2. ClosesInOrder' /\ TakesOneSignal'
    BY DEF ClosesInOrder, TakesOneSignal, Closed, Aborts
  <2>3. host' = host
    OBVIOUS
  <2>4. ChecksPassed'
    BY <2>3, HostStays DEF ChecksPassed, Checked, Serving
  <2>5. AcceptedGoesOn'
    BY <2>3, HostStays DEF AcceptedGoesOn, Checked, Serving
  <2> QED BY <2>1, <2>2, <2>4, <2>5
<1> QED BY <1>1, <1>2, <1>3, <1>4, <1>5 DEF Next

\* What is proved of every state (start.go, ssh.go:49-190).
THEOREM Inductive == Spec => []IInv
BY Initially, Steps, PTL DEF Spec

\* Every variable keeps its type; the shutdown counts no container twice.
THEOREM TypeCorrect == Spec => []TypeOK
BY Inductive, PTL DEF IInv

\* The goroutine that exits has stopped every container and closed the listeners and the
\* database, and exits with the signal it took first (start.go:108-124).
THEOREM ExitsInOrder == Spec => []ExitIsOrderly
<1>1. IInv => ExitIsOrderly
  BY DEF IInv, TypeOK, ClosesInOrder, ExitIsOrderly, Closed, Aborts
<1> QED BY <1>1, Inductive, PTL

\* Once the goroutine has taken a signal main no longer gets to the timer that ends the
\* process by force: what it offers after an error is not received, whether the API
\* failed by itself or by the shutdown (start.go:108-156, api.go:118-120).
THEOREM ShutdownIsNotForced == Spec => SignalledShutdownIsNotForced
<1>1. IInv /\ [Next]_vars =>
        [received # "none" /\ main # "await" => main' # "await" /\ exit' # "KILL"]_vars
  <2> SUFFICES ASSUME IInv, Next, received # "none", main # "await"
               PROVE  main' # "await" /\ exit' # "KILL"
    OBVIOUS
  <2> USE SignalsAreSubscribed DEF IInv, TypeOK, TakesOneSignal, Alive, Aborts
  <2>1. CASE MainStep
    <3>1. CASE CheckDocker \/ ReadConfig \/ StartLogging \/ CheckConfig \/ ReadKey
      BY <3>1 DEF CheckDocker, ReadConfig, StartLogging, CheckConfig, ReadKey, Continue, Quit
    <3>2. CASE OpenDatabase \/ StartSsh \/ StartApi \/ Notify \/ TakeError
      BY <3>2 DEF OpenDatabase, StartSsh, StartApi, Notify, TakeError
    <3>3. CASE Abort
      BY <3>3 DEF Abort
    <3> QED BY <2>1, <3>1, <3>2, <3>3 DEF MainStep
  <2>2. CASE HandlerStep
    BY <2>2 DEF HandlerStep, Wait, CloseSsh, StopContainer, CloseSshListener, CloseApi,
                CloseDatabase, Finish
  <2>3. CASE ForceExit \/ AcceptFails \/ ApiServeFails \/ ApiServeReturns
    BY <2>3 DEF ForceExit, AcceptFails, ApiServeFails, ApiServeReturns
  <2>4. CASE \E s \in Signals : Signal(s)
    BY <2>4 DEF Signal
  <2> QED BY <2>1, <2>2, <2>3, <2>4 DEF Next
<1> QED BY <1>1, Inductive, PTL DEF SignalledShutdownIsNotForced, Spec

\* Whatever configuration the command validate accepts, with strict checks, starts.
THEOREM CheckedStarts == Spec => []CheckedConfigStarts
<1>1. IInv => CheckedConfigStarts
  BY DEF IInv, AcceptedGoesOn, CheckedConfigStarts, Serving
<1> QED BY <1>1, Inductive, PTL

\* Whatever configuration is there, the dynamic profile that is served has a network mode
\* and a run level docker4ssh knows.
THEOREM DynamicServedIsValid == Spec => []ServedDynamicIsValid
<1>1. IInv => ServedDynamicIsValid
  <2> SUFFICES ASSUME IInv, acceptLoop = "accepting", Loaded.enable
               PROVE  LET profile == DynamicProfileFromConfig(Loaded)
                      IN  ValidMode(profile.mode) /\ ValidLevel(profile.level)
    BY DEF ServedDynamicIsValid
  <2>1. /\ Validate(Loaded, FALSE, host) = {} /\ CanServe
    BY DEF IInv, ChecksPassed, Checked
  <2>2. CompilesAsIs(Loaded.dynamicPassword)
    BY <2>1 DEF CanServe, DynamicProfileFromConfig
  <2> QED BY <2>1, <2>2, DynamicIsValid DEF DynamicProfileFromConfig
<1> QED BY <1>1, Inductive, PTL
===============================================================================
