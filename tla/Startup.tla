------------------------------- MODULE Startup -------------------------------
(***************************************************************************)
(* What a start reads and checks: the configuration file, the environment, *)
(* the profiles, and the checks that preStart and the command validate     *)
(* make of them.  No state: operators over a host, that is, over the files *)
(* and ports of a machine, for Serve.                                      *)
(*                                                                         *)
(* A path is represented by what is found there, a pattern by what         *)
(* regexp.Compile says of it, and a check by the set of keys it complains  *)
(* of.  No password is ever taken for a hash: SplitN with a limit of one   *)
(* does not split (profile.go:235, convert.go:17).                         *)
(***************************************************************************)
EXTENDS Naturals

CONSTANT None

\* "" is a key that is not there, "confDir" the directory of the configuration file; a
\* "denied" path cannot be looked at.
KeyFiles == {"plain", "locked"}
Files == {"file"} \cup KeyFiles
Paths == Files \cup {"", "missing", "dir", "confDir", "denied"}

\* "star": only once every * is made .*
Patterns == {"regex", "star", "bad"}
Subnets == {"cidr", "noMask", "bad"}

Config ==
    [parses : BOOLEAN, profileDir : Paths,
     password : Patterns, mode : Nat, level : Nat,
     enable : BOOLEAN, dynamicPassword : Patterns, dynamicMode : Nat, dynamicLevel : Nat,
     apiPort : Nat, binary : Paths, man : Paths,
     sshPort : Nat, keyfile : Paths, passphrase : BOOLEAN,
     database : Paths, defaultSubnet : Subnets, isolateSubnet : Subnets,
     logLevel : BOOLEAN, outputFile : Paths, errorFile : Paths]

\* A file of the profile directory, with one profile.
RawProfile ==
    [parses : BOOLEAN, username : Patterns, password : Patterns, image : BOOLEAN,
     container : BOOLEAN, present : BOOLEAN, mode : Nat \cup {None}, level : Nat \cup {None}]

\* A variable of the environment, and whether its value is one of its key's type.
Variable ==
    [key : {"keyfile", "outputFile"}, value : Paths, parses : {TRUE}]
        \cup [key : {"sshPort", "level"}, value : Nat, parses : BOOLEAN]

\* local is ./docker4ssh.conf, etc the file in /etc/docker4ssh; inside: the command
\* validate is run in the profile directory.
Host ==
    [local : Config \cup {None}, etc : Config \cup {None}, env : Variable \cup {None},
     profiles : SUBSET RawProfile, inside : BOOLEAN, socket : BOOLEAN, network : BOOLEAN,
     busy : SUBSET Nat]

ASSUME NoneIsNothing == None \notin Nat \cup Config \cup Variable \cup [mode : Nat, level : Nat]

-------------------------------------------------------------------------------
(* InitConfig *)

AbsoluteFile(path) == IF path = "" THEN "confDir" ELSE path

\* Keys of type int are not implemented.
KindIsKnown(key) == key # "level"

UpdateFromEnv(config, env) ==
    IF env = None THEN config
    ELSE IF KindIsKnown(env.key) /\ env.parses THEN [config EXCEPT ![env.key] = env.value]
    ELSE None

LoadConfig(file, env) ==
    IF file = None \/ ~file.parses THEN None
    ELSE UpdateFromEnv([file EXCEPT !.profileDir = AbsoluteFile(@), !.binary = AbsoluteFile(@),
                                    !.man = AbsoluteFile(@), !.keyfile = AbsoluteFile(@),
                                    !.database = AbsoluteFile(@), !.outputFile = AbsoluteFile(@),
                                    !.errorFile = AbsoluteFile(@)], env)

\* The first file there is; the two names that begin with ~ are never expanded.
InitConfig(host) ==
    LoadConfig(IF host.local # None THEN host.local ELSE host.etc, host.env)

-------------------------------------------------------------------------------
(* ConfigValidator: the keys that are complained of *)

ValidMode(mode) == mode \in 1..5
ValidLevel(level) == level \in 1..3

\* PasswordToRegex.
Compiles(pattern) == pattern # "bad"
CompilesAsIs(pattern) == pattern = "regex"

Complain(key, wrong) == IF wrong THEN {key} ELSE {}

ValidateProfileDefault(config) ==
    Complain("Password", ~Compiles(config.password))
        \cup Complain("NetworkMode", ~ValidMode(config.mode))
        \cup Complain("RunLevel", ~ValidLevel(config.level))

\* Mutant of ValidateProfileDynamic: the section is skipped unless the check is strict.
ValidateDynamicIfStrict(config, strict) ==
    IF ~config.enable \/ ~strict THEN {}
    ELSE Complain("Password", ~Compiles(config.dynamicPassword))
             \cup Complain("NetworkMode", ~ValidMode(config.dynamicMode))
             \cup Complain("RunLevel", ~ValidLevel(config.dynamicLevel))

ValidateProfileDynamic(config, strict) ==
    IF ~config.enable /\ ~strict THEN {}
    ELSE Complain("Password", ~Compiles(config.dynamicPassword))
             \cup Complain("NetworkMode", ~ValidMode(config.dynamicMode))
             \cup Complain("RunLevel", ~ValidLevel(config.dynamicLevel))

\* A listener on port 0 gets a port, but 0 is not taken for free.
CanListen(port, host) == port = 0 \/ port \notin host.busy
IsPortFree(port, host) == port # 0 /\ CanListen(port, host)

FileOk(path) == path \in Files

ValidateAPI(config, strict, host) ==
    Complain("Port", strict /\ ~IsPortFree(config.apiPort, host))
        \cup Complain("Binary", ~FileOk(config.binary))
        \cup Complain("Man", ~FileOk(config.man))

\* A key without a password is an error if one is given, as is the reverse.
KeyParses(config) == config.keyfile = IF config.passphrase THEN "locked" ELSE "plain"

\* Mutant of ValidateSSH: the passphrase is not tried.
ValidateSSHFile(config, strict, host) ==
    Complain("Port", strict /\ ~IsPortFree(config.sshPort, host))
        \cup Complain("Keyfile", ~FileOk(config.keyfile))

ValidateSSH(config, strict, host) ==
    Complain("Port", strict /\ ~IsPortFree(config.sshPort, host))
        \cup Complain("Keyfile", ~FileOk(config.keyfile))
        \cup Complain("Passphrase", FileOk(config.keyfile) /\ ~KeyParses(config))

ValidateDatabase(config) == Complain("Sqlite3File", ~FileOk(config.database))

ValidateNetwork(config) ==
    Complain("default.Subnet", config.defaultSubnet # "cidr")
        \cup Complain("isolate.Subnet", config.isolateSubnet # "cidr")

ValidateLogging(config, strict) ==
    Complain("Level", ~config.logLevel)
        \cup Complain("OutputFile", strict /\ ~FileOk(config.outputFile))
        \cup Complain("ErrorFile", strict /\ ~FileOk(config.errorFile))

Validate(config, strict, host) ==
    ValidateProfileDefault(config) \cup ValidateProfileDynamic(config, strict)
        \cup ValidateAPI(config, strict, host) \cup ValidateSSH(config, strict, host)
        \cup ValidateDatabase(config) \cup ValidateNetwork(config)
        \cup ValidateLogging(config, strict)

\* fileOk uses the result of a Stat that failed otherwise than for want of a file.
FileOkPanics(config, strict) ==
    \/ "denied" \in {config.binary, config.man, config.keyfile, config.database}
    \/ strict /\ "denied" \in {config.outputFile, config.errorFile}

-------------------------------------------------------------------------------
(* Profiles *)

\* What a profile leaves out is the same for all: the defaults given are not looked at.
ParseRawProfile(raw) ==
    IF /\ raw.parses /\ Compiles(raw.username) /\ CompilesAsIs(raw.password)
       /\ raw.image # raw.container
      THEN [mode |-> IF raw.mode = None THEN 3 ELSE raw.mode,
            level |-> IF raw.level = None THEN 1 ELSE raw.level]
      ELSE None

\* Every file there must be one of profiles; the directory of the configuration is none.
LoadProfileDir(config, host) ==
    config.profileDir = "dir" /\ \A raw \in host.profiles : ParseRawProfile(raw) # None

\* Every key of the dynamic section replaces the default.
DynamicProfileFromConfig(config) ==
    IF CompilesAsIs(config.dynamicPassword)
      THEN [mode |-> config.dynamicMode, level |-> config.dynamicLevel]
      ELSE None

\* ProfileValidator; strict asks docker for the image or the container.
ValidateRawProfile(raw, strict) ==
    LET profile == ParseRawProfile(raw)
    IN  Complain("NetworkMode", ~ValidMode(profile.mode))
            \cup Complain("RunLevel", ~ValidLevel(profile.level))
            \cup Complain("Image", strict /\ ~raw.present)

-------------------------------------------------------------------------------
(* The command validate *)

\* validate config, of the default file and all sections, without the environment.
ConfigAccepted(host, strict) ==
    LET config == LoadConfig(host.etc, None)
    IN  config # None /\ ~FileOkPanics(config, strict) /\ Validate(config, strict, host) = {}

\* validate profile, of the default directory.  The names in the directory are looked
\* for where the command is run.
ProfilesAccepted(host, strict) ==
    \/ host.profiles = {}
    \/ /\ host.inside
       /\ \A raw \in host.profiles :
             ParseRawProfile(raw) # None /\ ValidateRawProfile(raw, strict) = {}
===============================================================================
