------------------------------- MODULE MCServe -------------------------------
(***************************************************************************)
(* Small instances of Serve for TLC: a host on which all is well, and      *)
(* others that differ from it in one thing or two.                         *)
(***************************************************************************)
EXTENDS Serve

AllSignals == {"INT", "TERM", "USR1"}

Shipped ==
    [parses |-> TRUE, profileDir |-> "dir", password |-> "regex", mode |-> 3, level |-> 1,
     enable |-> TRUE, dynamicPassword |-> "regex", dynamicMode |-> 3, dynamicLevel |-> 1,
     apiPort |-> 1, binary |-> "file", man |-> "file", sshPort |-> 2, keyfile |-> "plain",
     passphrase |-> FALSE, database |-> "file", defaultSubnet |-> "cidr",
     isolateSubnet |-> "cidr", logLevel |-> TRUE, outputFile |-> "file", errorFile |-> "file"]

Raw == [parses |-> TRUE, username |-> "regex", password |-> "regex", image |-> TRUE,
        container |-> FALSE, present |-> TRUE, mode |-> None, level |-> 2]

Well == [local |-> None, etc |-> Shipped, env |-> None, profiles |-> {Raw}, inside |-> TRUE,
         socket |-> TRUE, network |-> TRUE, busy |-> {}]

Configs ==
    {Shipped} \cup {[Shipped EXCEPT !.parses = FALSE], [Shipped EXCEPT !.profileDir = "missing"],
        [Shipped EXCEPT !.profileDir = ""], [Shipped EXCEPT !.password = "bad"],
        [Shipped EXCEPT !.mode = 6], [Shipped EXCEPT !.level = 0], [Shipped EXCEPT !.apiPort = 2],
        [Shipped EXCEPT !.binary = "missing"], [Shipped EXCEPT !.man = "denied"],
        [Shipped EXCEPT !.keyfile = "locked"], [Shipped EXCEPT !.keyfile = "file"],
        [Shipped EXCEPT !.keyfile = "locked", !.passphrase = TRUE],
        [Shipped EXCEPT !.passphrase = TRUE], [Shipped EXCEPT !.database = ""],
        [Shipped EXCEPT !.defaultSubnet = "noMask"], [Shipped EXCEPT !.isolateSubnet = "bad"],
        [Shipped EXCEPT !.logLevel = FALSE], [Shipped EXCEPT !.outputFile = ""],
        [Shipped EXCEPT !.errorFile = "missing"]}
    \cup {[Shipped EXCEPT !.enable = e, !.dynamicPassword = p, !.dynamicMode = m,
                          !.dynamicLevel = l] :
              e \in BOOLEAN, p \in Patterns, m \in {0, 1}, l \in {3, 4}}

Profiles ==
    {[Raw EXCEPT !.parses = FALSE], [Raw EXCEPT !.username = "bad"], [Raw EXCEPT !.password = "star"],
     [Raw EXCEPT !.container = TRUE], [Raw EXCEPT !.image = FALSE], [Raw EXCEPT !.mode = 0],
     [Raw EXCEPT !.level = None, !.present = FALSE]}

Variables ==
    {[key |-> "keyfile", value |-> "locked", parses |-> TRUE],
     [key |-> "outputFile", value |-> "", parses |-> TRUE],
     [key |-> "sshPort", value |-> 0, parses |-> TRUE],
     [key |-> "sshPort", value |-> 1, parses |-> FALSE],
     [key |-> "level", value |-> 2, parses |-> TRUE]}

AllHosts ==
    {[Well EXCEPT !.etc = config] : config \in Configs \cup {None}}
    \cup {[Well EXCEPT !.local = config] : config \in {Shipped, [Shipped EXCEPT !.keyfile = "dir"]}}
    \cup {[Well EXCEPT !.profiles = {raw}, !.inside = i] : raw \in Profiles, i \in BOOLEAN}
    \cup {[Well EXCEPT !.profiles = {}, !.inside = FALSE], [Well EXCEPT !.socket = FALSE],
          [Well EXCEPT !.network = FALSE]}
    \cup {[Well EXCEPT !.env = variable] : variable \in Variables}
    \cup {[Well EXCEPT !.busy = ports] : ports \in SUBSET {1, 2}}
===============================================================================
