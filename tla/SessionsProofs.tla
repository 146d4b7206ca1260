---------------------------- MODULE SessionsProofs ----------------------------
(***************************************************************************)
(* Proofs about Sessions, for any number of sessions, containers, failing  *)
(* calls, crashes and lost updates.                                        *)
(***************************************************************************)
EXTENDS Sessions, SequenceTheorems, TLAPS

\* The inductive invariant.
IInv == TypeOK /\ SharedObjectsAgree /\ RunningIsRecorded

-------------------------------------------------------------------------------
(* What the registry's slice operations return *)

\* The entries of a prefix, and of a prefix with one more entry, are old ones or the new one.
LEMMA AppendToPrefix ==
    ASSUME NEW S, NEW entries \in Seq(S), NEW e \in S,
           NEW n \in Int, n <= Len(entries)
    PROVE  /\ Append(SubSeq(entries, 1, n), e) \in Seq(S)
           /\ \A i \in DOMAIN Append(SubSeq(entries, 1, n), e) :
                 \/ Append(SubSeq(entries, 1, n), e)[i] = e
                 \/ \E j \in DOMAIN entries : Append(SubSeq(entries, 1, n), e)[i] = entries[j]
<1> DEFINE prefix == SubSeq(entries, 1, n)
<1>1. /\ Len(entries) \in Nat /\ DOMAIN entries = 1..Len(entries)
      /\ \A i \in 1..n : i \in DOMAIN entries /\ entries[i] \in S
  BY LenProperties, ElementOfSeq
<1>2. /\ prefix \in Seq(S) /\ Len(prefix) = IF 1 <= n THEN n ELSE 0
      /\ \A i \in 1..Len(prefix) : prefix[i] = entries[i]
  BY <1>1, SubSeqProperties
<1> HIDE DEF prefix
<1>3. /\ Append(prefix, e) \in Seq(S) /\ Len(Append(prefix, e)) = Len(prefix) + 1
      /\ \A i \in 1..Len(prefix) : Append(prefix, e)[i] = prefix[i]
      /\ Append(prefix, e)[Len(prefix) + 1] = e
  BY <1>2, AppendProperties
<1>4. DOMAIN Append(prefix, e) = 1..(Len(prefix) + 1)
  BY <1>3, LenProperties
<1>5. ASSUME NEW i \in DOMAIN Append(prefix, e)
      PROVE  Append(prefix, e)[i] = e \/ \E j \in DOMAIN entries : Append(prefix, e)[i] = entries[j]
  <2>1. Len(prefix) \in Nat
    BY <1>2, LenProperties
  <2>2. CASE i = Len(prefix) + 1
    BY <2>2, <1>3
  <2>3. CASE i \in 1..Len(prefix)
    <3>1. i \in DOMAIN entries
      BY <2>3, <1>1, <1>2
    <3> QED BY <3>1, <2>3, <1>2, <1>3
  <2> QED BY <2>1, <2>2, <2>3, <1>4
<1> QED BY <1>3, <1>5 DEF prefix

\* Taking an entry out leaves old entries only.
LEMMA WithoutEntryKeeps ==
    ASSUME NEW S, NEW entries \in Seq(S), NEW n \in Int, n <= Len(entries),
           NEW i \in DOMAIN entries, i <= n
    PROVE  /\ WithoutEntry(entries, i, n) \in Seq(S)
           /\ \A k \in DOMAIN WithoutEntry(entries, i, n) :
                 \E j \in DOMAIN entries : WithoutEntry(entries, i, n)[k] = entries[j]
<1> DEFINE moved == [entries EXCEPT ![i] = entries[n]]
<1>1. /\ Len(entries) \in Nat /\ DOMAIN entries = 1..Len(entries)
      /\ i \in 1..Len(entries) /\ n \in 1..Len(entries) /\ entries[n] \in S
  BY LenProperties, ElementOfSeq
<1>2. /\ moved \in Seq(S) /\ Len(moved) = Len(entries)
      /\ \A j \in 1..Len(entries) : moved[j] = IF j = i THEN entries[n] ELSE entries[j]
  BY <1>1, ExceptSeq
<1>3. \A j \in 1..(n - 1) : moved[j] \in S /\ \E m \in DOMAIN entries : moved[j] = entries[m]
  <2>1. ASSUME NEW j \in 1..(n - 1)
        PROVE  j \in 1..Len(entries)
    BY <1>1
  <2> QED BY <2>1, <1>1, <1>2, ElementOfSeq
<1> HIDE DEF moved
<1>4. /\ SubSeq(moved, 1, n - 1) \in Seq(S)
      /\ Len(SubSeq(moved, 1, n - 1)) = IF 1 <= n - 1 THEN n - 1 ELSE 0
      /\ \A k \in 1..(n - 1) : SubSeq(moved, 1, n - 1)[k] = moved[k]
  BY <1>1, <1>3, SubSeqProperties
<1>5. DOMAIN SubSeq(moved, 1, n - 1) = 1..(n - 1)
  BY <1>1, <1>4, LenProperties
<1> QED BY <1>3, <1>4, <1>5 DEF WithoutEntry, moved

-------------------------------------------------------------------------------
(* Types *)

\* A session that moves to a label keeps the type of pc.
LEMMA GotoTypeOK ==
    ASSUME TypeOK, NEW s \in Sessions, NEW label \in Labels, Goto(s, label)
    PROVE  pc' \in [Sessions -> Labels]
  BY DEF TypeOK, Goto

\* One step of Stop keeps the types of what it may change.
LEMMA StopStepTypeOK ==
    ASSUME TypeOK, NEW o, NEW at, NEW next, StopStep(o, at, next)
    PROVE  /\ docker' \in [Containers -> {"absent", "stopped", "running", "removed"}]
           /\ bridged' \in SUBSET Containers /\ auth' \in SUBSET Containers
           /\ settings' \in [Containers -> Config \cup {None}]
           /\ gone' \in [Sessions -> BOOLEAN] /\ faults' \in Nat
<1> USE DEF TypeOK, StopStep, HaltStep, RemoveStep, DeleteAuthStep, DeleteSettingsStep,
            CallWorks, CallFails, Errs, storeVars
<1>1. docker' \in [Containers -> {"absent", "stopped", "running", "removed"}]
  OBVIOUS
<1>2. bridged' \in SUBSET Containers /\ auth' \in SUBSET Containers
  OBVIOUS
<1>3. settings' \in [Containers -> Config \cup {None}]
  OBVIOUS
<1>4. gone' \in [Sessions -> BOOLEAN]
  <2>1. CutOff(target[o]) \/ UNCHANGED gone
    OBVIOUS
  <2> QED BY <2>1 DEF CutOff
<1>5. faults' \in Nat
  OBVIOUS
<1> QED BY <1>1, <1>2, <1>3, <1>4, <1>5

\* The steps of getContainer keep every type.
LEMMA GetContainerTypeOK ==
    ASSUME IInv, NEW s \in Sessions, GetContainer(s)
    PROVE  TypeOK'
<1> USE NoneIsNothing, ProfilesAreConfigs
    DEF TypeOK, IInv, CallFails, CallWorks, Errs, envVars, storeVars, objectVars, localVars
<1>1. CASE Lookup(s)
  <2>1. Goto(s, "scan") \/ Goto(s, "open")
    BY <1>1 DEF Lookup
  <2>2. pc' \in [Sessions -> Labels]
    BY <2>1, GotoTypeOK DEF Labels, StopLabels, Over
  <2>3. object' \in [Sessions -> Sessions \cup {None}]
    <3>1. \A i \in DOMAIN allContainers : allContainers[i] \in Sessions
      BY LenProperties, ElementOfSeq
    <3>2. object' = object \/ \E i \in DOMAIN allContainers :
                                 object' = [object EXCEPT ![s] = allContainers[i]]
      BY <1>1 DEF Lookup, Registered
    <3> QED BY <3>1, <3>2
  <2>4. faults' \in Nat
    BY <1>1 DEF Lookup
  <2> QED BY <1>1, <2>2, <2>3, <2>4 DEF Lookup
<1>2. CASE Open(s)
  <2>1. Goto(s, "inspect") \/ Goto(s, "failed")
    BY <1>2 DEF Open
  <2>2. pc' \in [Sessions -> Labels]
    BY <2>1, GotoTypeOK DEF Labels, StopLabels, Over
  <2>3. config' \in [Sessions -> Config \cup {None}]
    <3>1. target[s] \in Containers
      BY <1>2 DEF Open, SharedObjectsAgree, SessionAgrees
    <3>2. settings[target[s]] \in Config \cup {None}
      BY <3>1
    <3>3. config' = config \/ config' = [config EXCEPT ![s] = settings[target[s]]]
      BY <1>2 DEF Open
    <3> QED BY <3>2, <3>3
  <2>4. faults' \in Nat
    BY <1>2 DEF Open
  <2> QED BY <1>2, <2>2, <2>3, <2>4 DEF Open
<1>3. CASE Inspect(s)
  <2>1. Goto(s, "record") \/ Goto(s, "failed")
    BY <1>3 DEF Inspect
  <2>2. pc' \in [Sessions -> Labels]
    BY <2>1, GotoTypeOK DEF Labels, StopLabels, Over
  <2>3. bridged' \in SUBSET Containers
    BY <1>3 DEF Inspect
  <2>4. object' \in [Sessions -> Sessions \cup {None}]
    BY <1>3 DEF Inspect
  <2>5. faults' \in Nat
    BY <1>3 DEF Inspect
  <2> QED BY <1>3, <2>2, <2>3, <2>4, <2>5 DEF Inspect
<1>4. CASE Record(s)
  <2>1. Goto(s, "scan") \/ Goto(s, "failed")
    BY <1>4 DEF Record
  <2>2. pc' \in [Sessions -> Labels]
    BY <2>1, GotoTypeOK DEF Labels, StopLabels, Over
  <2>3. settings' \in [Containers -> Config \cup {None}]
    BY <1>4 DEF Record
  <2>4. faults' \in Nat
    BY <1>4 DEF Record
  <2> QED BY <1>4, <2>2, <2>3, <2>4 DEF Record
<1>5. CASE CreateFails(s)
  <2>1. Goto(s, "failed")
    BY <1>5 DEF CreateFails
  <2>2. pc' \in [Sessions -> Labels]
    BY <2>1, GotoTypeOK DEF Labels, StopLabels, Over
  <2>3. faults' \in Nat
    BY <1>5 DEF CreateFails
  <2> QED BY <1>5, <2>2, <2>3 DEF CreateFails
<1>6. ASSUME NEW c \in Containers, NEW profile \in Profiles, Create(s, c, profile)
      PROVE  TypeOK'
  BY <1>6 DEF Create, Goto, Labels
<1>7. CASE PullFatal(s)
  BY <1>7, EmptySeq DEF PullFatal, LoseMemory, Labels, Over
<1> QED BY <1>1, <1>2, <1>3, <1>4, <1>5, <1>6, <1>7 DEF GetContainer

\* The steps of connection keep every type.
LEMMA ConnectionTypeOK ==
    ASSUME IInv, NEW s \in Sessions, Connection(s)
    PROVE  TypeOK'
<1> USE NoneIsNothing, ProfilesAreConfigs
    DEF TypeOK, IInv, CallFails, CallWorks, Errs, envVars, storeVars, objectVars, localVars
<1>1. CASE Scan(s)
  <2>1. Goto(s, "running") \/ Goto(s, "append")
    BY <1>1 DEF Scan
  <2>2. pc' \in [Sessions -> Labels]
    BY <2>1, GotoTypeOK DEF Labels, StopLabels, Over
  <2>3. seen' \in [Sessions -> Int]
    BY <1>1, LenProperties DEF Scan, Load
  <2>4. faults' \in Nat
    BY <1>1 DEF Scan
  <2> QED BY <1>1, <2>2, <2>3, <2>4 DEF Scan
<1>2. CASE Register(s)
  <2>1. Goto(s, "running")
    BY <1>2 DEF Register
  <2>2. pc' \in [Sessions -> Labels]
    BY <2>1, GotoTypeOK DEF Labels, StopLabels, Over
  <2>3. allContainers' \in Seq(Sessions)
    BY <1>2, LenProperties, AppendToPrefix DEF Register, Loaded, SharedObjectsAgree, SessionAgrees, Working
  <2>4. faults' \in Nat
    BY <1>2 DEF Register
  <2> QED BY <1>2, <2>2, <2>3, <2>4 DEF Register
<1>3. CASE CheckRunning(s)
  <2>1. Goto(s, "config") \/ Goto(s, "start")
    BY <1>3 DEF CheckRunning
  <2>2. pc' \in [Sessions -> Labels]
    BY <2>1, GotoTypeOK DEF Labels, StopLabels, Over
  <2>3. faults' \in Nat
    BY <1>3 DEF CheckRunning
  <2> QED BY <1>3, <2>2, <2>3 DEF CheckRunning
<1>4. CASE StartContainer(s)
  <2>1. Goto(s, "config") \/ Goto(s, "setup") \/ Goto(s, "startFailed")
    BY <1>4 DEF StartContainer
  <2>2. pc' \in [Sessions -> Labels]
    BY <2>1, GotoTypeOK DEF Labels, StopLabels, Over
  <2>3. docker' \in [Containers -> {"absent", "stopped", "running", "removed"}]
    BY <1>4 DEF StartContainer
  <2>4. faults' \in Nat
    BY <1>4 DEF StartContainer
  <2> QED BY <1>4, <2>2, <2>3, <2>4 DEF StartContainer
<1>5. CASE Setup(s)
  <2>1. Goto(s, "config") \/ Goto(s, "startFailed")
    BY <1>5 DEF Setup
  <2>2. pc' \in [Sessions -> Labels]
    BY <2>1, GotoTypeOK DEF Labels, StopLabels, Over
  <2>3. bridged' \in SUBSET Containers
    BY <1>5 DEF Setup, SharedObjectsAgree, SessionAgrees, Working, Owned
  <2>4. started' \in [Sessions -> BOOLEAN]
    BY <1>5 DEF Setup
  <2>5. faults' \in Nat
    BY <1>5 DEF Setup
  <2> QED BY <1>5, <2>2, <2>3, <2>4, <2>5 DEF Setup
<1>6. CASE CopyConfig(s)
  <2>1. Goto(s, "attach")
    BY <1>6 DEF CopyConfig
  <2>2. pc' \in [Sessions -> Labels]
    BY <2>1, GotoTypeOK DEF Labels, StopLabels, Over
  <2>3. runLevel' \in [Sessions -> RunLevels \cup {None}]
    BY <1>6 DEF CopyConfig, Config, Owned, SharedObjectsAgree, SessionAgrees, Working
  <2>4. faults' \in Nat
    BY <1>6 DEF CopyConfig
  <2> QED BY <1>6, <2>2, <2>3, <2>4 DEF CopyConfig
<1>7. CASE Attach(s)
  <2>1. Goto(s, "inc") \/ Goto(s, "check")
    BY <1>7 DEF Attach
  <2>2. pc' \in [Sessions -> Labels]
    BY <2>1, GotoTypeOK DEF Labels, StopLabels, Over
  <2>3. seen' \in [Sessions -> Int]
    BY <1>7 DEF Attach, Load, SharedObjectsAgree, SessionAgrees, Working
  <2>4. faults' \in Nat
    BY <1>7 DEF Attach
  <2> QED BY <1>7, <2>2, <2>3, <2>4 DEF Attach
<1>8. CASE CountIn(s)
  <2>1. Goto(s, "wait")
    BY <1>8 DEF CountIn
  <2>2. pc' \in [Sessions -> Labels]
    BY <2>1, GotoTypeOK DEF Labels, StopLabels, Over
  <2>3. terminalCount' \in [Sessions -> Int]
    BY <1>8 DEF CountIn, StoreCount, Loaded, SharedObjectsAgree, SessionAgrees, Working
  <2>4. faults' \in Nat
    BY <1>8 DEF CountIn
  <2> QED BY <1>8, <2>2, <2>3, <2>4 DEF CountIn
<1>9. CASE StreamEnds(s)
  <2>1. Goto(s, "dec")
    BY <1>9 DEF StreamEnds
  <2>2. pc' \in [Sessions -> Labels]
    BY <2>1, GotoTypeOK DEF Labels, StopLabels, Over
  <2>3. seen' \in [Sessions -> Int]
    BY <1>9 DEF StreamEnds, Load, SharedObjectsAgree, SessionAgrees, Working
  <2>4. faults' \in Nat
    BY <1>9 DEF StreamEnds
  <2> QED BY <1>9, <2>2, <2>3, <2>4 DEF StreamEnds
<1>10. CASE CountOut(s)
  <2>1. Goto(s, "check")
    BY <1>10 DEF CountOut
  <2>2. pc' \in [Sessions -> Labels]
    BY <2>1, GotoTypeOK DEF Labels, StopLabels, Over
  <2>3. terminalCount' \in [Sessions -> Int]
    BY <1>10 DEF CountOut, StoreCount, Loaded, SharedObjectsAgree, SessionAgrees, Working
  <2>4. faults' \in Nat
    BY <1>10 DEF CountOut
  <2> QED BY <1>10, <2>2, <2>3, <2>4 DEF CountOut
<1>11. CASE Check(s)
  <2>1. Goto(s, "stop") \/ Goto(s, "done")
    BY <1>11 DEF Check
  <2>2. pc' \in [Sessions -> Labels]
    BY <2>1, GotoTypeOK DEF Labels, StopLabels, Over
  <2>3. faults' \in Nat
    BY <1>11 DEF Check
  <2> QED BY <1>11, <2>2, <2>3 DEF Check
<1>12. CASE Unregister(s)
  <2>1. Goto(s, "done")
    BY <1>12 DEF Unregister
  <2>2. pc' \in [Sessions -> Labels]
    BY <2>1, GotoTypeOK DEF Labels, StopLabels, Over
  <2>3. allContainers' \in Seq(Sessions)
    BY <1>12, LenProperties, WithoutEntryKeeps DEF Unregister, Loaded, Positions
  <2>4. faults' \in Nat
    BY <1>12 DEF Unregister
  <2> QED BY <1>12, <2>2, <2>3, <2>4 DEF Unregister
<1>13. CASE SessionStop(s)
  <2>1. PICK next \in StopLabels :
            /\ StopStep(object[s], pc[s], next) /\ Goto(s, next)
            /\ IF next = "unregister" THEN Load(s, Len(allContainers)) ELSE UNCHANGED seen
    BY <1>13 DEF SessionStop
  <2>2. pc' \in [Sessions -> Labels]
    BY <2>1, GotoTypeOK DEF Labels
  <2>3. seen' \in [Sessions -> Int]
    BY <2>1, LenProperties DEF Load
  <2>4. UNCHANGED <<envVars, allContainers, objectVars, closers, target, object, runLevel>>
    BY <1>13 DEF SessionStop
  <2> QED BY <2>1, <2>2, <2>3, <2>4, StopStepTypeOK
<1>14. CASE UnregisterPanic(s)
  BY <1>14, EmptySeq DEF UnregisterPanic, LoseMemory, Labels, Over
<1> QED BY <1>1, <1>2, <1>3, <1>4, <1>5, <1>6, <1>7, <1>8, <1>9, <1>10, <1>11, <1>12, <1>13, <1>14 DEF Connection

\* Every step keeps every type.
LEMMA NextTypeOK ==
    ASSUME IInv, Next
    PROVE  TypeOK'
<1> USE NoneIsNothing, ProfilesAreConfigs
    DEF TypeOK, IInv, CallFails, CallWorks, Errs, envVars, storeVars, objectVars, localVars
<1>1. ASSUME NEW s \in Sessions, Accept(s) PROVE TypeOK'
  BY <1>1 DEF Accept, Goto, Labels
<1>2. ASSUME NEW s \in Sessions, AcceptPanic(s) PROVE TypeOK'
  BY <1>2, EmptySeq DEF AcceptPanic, LoseMemory, Labels, Over
<1>3. ASSUME NEW i \in DOMAIN closers, CloserStop(i) PROVE TypeOK'
  <2>1. PICK next \in StopLabels :
            /\ StopStep(closers[i].object, closers[i].at, next)
            /\ closers' = [closers EXCEPT ![i].at = next]
    BY <1>3 DEF CloserStop
  <2>2. closers[i] \in [object : Sessions, at : StopLabels] /\ i \in 1..Len(closers)
    BY LenProperties, ElementOfSeq
  <2>3. [closers[i] EXCEPT !.at = next] \in [object : Sessions, at : StopLabels]
    BY <2>2
  <2>4. closers' = [closers EXCEPT ![i] = [closers[i] EXCEPT !.at = next]]
    BY <2>1
  <2>5. closers' \in Seq([object : Sessions, at : StopLabels])
    BY <2>2, <2>3, <2>4, ExceptSeq
  <2>6. UNCHANGED <<envVars, allContainers, objectVars, pc, localVars>>
    BY <1>3 DEF CloserStop
  <2> QED BY <2>1, <2>5, <2>6, StopStepTypeOK
<1>4. CASE BeginShutdown
  <2>1. Len(allContainers) \in Nat /\ DOMAIN allContainers = 1..Len(allContainers)
    BY LenProperties
  <2>2. closers' \in Seq([object : Sessions, at : StopLabels])
    <3>1. closers' = [i \in 1..Len(allContainers) |-> [object |-> allContainers[i], at |-> "stop"]]
      BY <1>4, <2>1 DEF BeginShutdown
    <3>2. \A i \in 1..Len(allContainers) :
             [object |-> allContainers[i], at |-> "stop"] \in [object : Sessions, at : StopLabels]
      BY ElementOfSeq DEF StopLabels
    <3> QED BY <3>1, <3>2, <2>1
  <2> QED BY <1>4, <2>2 DEF BeginShutdown
<1>5. CASE Exit \/ Kill
  <2>1. LoseMemory /\ UNCHANGED faults /\ outages' \in Nat
    BY <1>5 DEF Exit, Kill
  <2> QED BY <2>1, EmptySeq DEF LoseMemory, Labels, Over
<1>6. CASE Restart
  BY <1>6 DEF Restart
<1>7. ASSUME NEW s \in Sessions, ImageLogin(s) PROVE TypeOK'
  BY <1>7 DEF ImageLogin, Goto, Labels
<1>8. ASSUME NEW s \in Sessions, NEW c \in Containers, NamedLogin(s, c) \/ SavedLogin(s, c)
      PROVE  TypeOK'
  <2>1. CASE NamedLogin(s, c)
    BY <2>1 DEF NamedLogin, Goto, Labels
  <2>2. CASE SavedLogin(s, c)
    BY <2>2 DEF SavedLogin, Goto, Labels
  <2> QED BY <1>8, <2>1, <2>2
<1>9. ASSUME NEW s \in Sessions, ClientLeaves(s) PROVE TypeOK'
  BY <1>9 DEF ClientLeaves
<1>10. ASSUME NEW c \in Containers, ContainerExits(c) PROVE TypeOK'
  BY <1>10 DEF ContainerExits, CutOff
<1>11. ASSUME NEW c \in Containers, NEW request \in {"save", "forget"}, AuthRequest(c, request)
       PROVE  TypeOK'
  <2>1. asked' \in [Containers -> {"save", "forget", None}] /\ auth' \in SUBSET Containers
    <3>1. asked' = asked \/ asked' = [asked EXCEPT ![c] = request]
      BY <1>11 DEF AuthRequest
    <3>2. auth' = auth \/ auth' = auth \cup {c} \/ auth' = auth \ {c}
      BY <1>11 DEF AuthRequest, Answer
    <3>3. request \in {"save", "forget", None}
      BY <1>11
    <3>4. asked' \in [Containers -> {"save", "forget", None}]
      BY <3>1, <3>3
    <3> QED BY <3>2, <3>4
  <2> QED BY <1>11, <2>1 DEF AuthRequest
<1>12. ASSUME NEW c \in Containers, AuthPost(c) PROVE TypeOK'
  BY <1>12 DEF AuthPost, Answer
<1> HIDE DEF TypeOK, IInv
<1> QED
  BY <1>1, <1>2, <1>3, <1>4, <1>5, <1>6, <1>7, <1>8, <1>9, <1>10, <1>11, <1>12,
     GetContainerTypeOK, ConnectionTypeOK
  DEF Next, ServerStep, SessionStep, Environment, ClientStep

-------------------------------------------------------------------------------
(* Agreement on the shared objects *)

Agreement == SharedObjectsAgree /\ RunningIsRecorded

\* What no step but the end of the process takes back.
Keeps ==
    /\ \A o \in Sessions : Owned(o) => Owned(o)' /\ target'[o] = target[o]
    /\ \A c \in Containers :
          /\ Ready(c) => Ready(c)'
          /\ docker[c] = "removed" => docker'[c] = "removed"
          /\ docker[c] # "absent" => docker'[c] # "absent"

\* Session t is where it was.
Stays(t) == pc'[t] = pc[t] /\ object'[t] = object[t] /\ target'[t] = target[t] /\ config'[t] = config[t]

\* The entries of the registry and the objects of the closers are objects.
LEMMA EntriesAreObjects ==
    ASSUME TypeOK
    PROVE  /\ \A i \in DOMAIN allContainers : allContainers[i] \in Sessions
           /\ \A i \in DOMAIN closers : closers[i] \in [object : Sessions, at : StopLabels]
<1>1. allContainers \in Seq(Sessions) /\ closers \in Seq([object : Sessions, at : StopLabels])
  BY DEF TypeOK
<1>2. DOMAIN allContainers = 1..Len(allContainers) /\ DOMAIN closers = 1..Len(closers)
  BY <1>1, LenProperties
<1> QED BY <1>1, <1>2, ElementOfSeq

\* A session that stays where it was still agrees.
LEMMA StayingAgrees ==
    ASSUME IInv, Keeps, NEW t \in Sessions, Stays(t)
    PROVE  SessionAgrees(t)'
<1>1. SessionAgrees(t)
  BY DEF IInv, SharedObjectsAgree
<1>2. ASSUME pc[t] \in {"accept", "lookup", "open", "inspect", "record"}
      PROVE  SessionAgrees(t)'
  BY <1>1, <1>2 DEF Stays, Keeps, SessionAgrees, Working
<1>3. ASSUME pc[t] \in Working
      PROVE  SessionAgrees(t)'
  <2>1. /\ object[t] \in Sessions /\ Owned(object[t])
        /\ target[object[t]] = target[t] /\ Ready(target[t])
        /\ target[t] \in Containers
    BY <1>1, <1>3 DEF SessionAgrees, Owned
  <2>2. Owned(object[t])' /\ target'[object[t]] = target[t] /\ Ready(target[t])'
    BY <2>1 DEF Keeps, Owned, Ready, Stays
  <2>3. pc[t] \in {"deleteAuth", "deleteSettings"} => docker'[target[t]] = "removed"
    BY <1>1, <2>1 DEF Keeps, SessionAgrees
  <2> QED BY <1>3, <2>1, <2>2, <2>3 DEF Stays, SessionAgrees, Working
<1>4. CASE pc[t] \notin {"accept", "lookup", "open", "inspect", "record"} /\ pc[t] \notin Working
  BY <1>4 DEF Stays, SessionAgrees, Working
<1> QED BY <1>2, <1>3, <1>4

\* So do the entries of a registry that only loses some.
LEMMA EntriesStayAgreed ==
    ASSUME IInv, Keeps,
           \A i \in DOMAIN allContainers' :
              \E j \in DOMAIN allContainers : allContainers'[i] = allContainers[j]
    PROVE  \A i \in DOMAIN allContainers' : EntryAgrees(allContainers[i])'
<1>1. SUFFICES ASSUME NEW i \in DOMAIN allContainers'
               PROVE  EntryAgrees(allContainers[i])'
  OBVIOUS
<1>2. PICK j \in DOMAIN allContainers : allContainers'[i] = allContainers[j]
  OBVIOUS
<1>3. allContainers[j] \in Sessions /\ EntryAgrees(allContainers[j])
  BY EntriesAreObjects DEF IInv, SharedObjectsAgree
<1> QED BY <1>2, <1>3 DEF Keeps, EntryAgrees, Owned, Ready

\* The closers still agree.
LEMMA ClosersStayAgreed ==
    ASSUME IInv, Keeps, UNCHANGED closers
    PROVE  \A i \in DOMAIN closers' : CloserAgrees(closers[i])'
<1>1. SUFFICES ASSUME NEW i \in DOMAIN closers
               PROVE  CloserAgrees(closers[i])'
  OBVIOUS
<1>2. closers[i].object \in Sessions /\ CloserAgrees(closers[i])
  BY EntriesAreObjects DEF IInv, SharedObjectsAgree
<1> QED BY <1>2 DEF Keeps, CloserAgrees, Owned

\* A step of one session that leaves the registry and the closers alone.
LEMMA OneSessionMoves ==
    ASSUME IInv, Keeps, NEW s \in Sessions, SessionAgrees(s)',
           \A t \in Sessions \ {s} : Stays(t),
           UNCHANGED <<allContainers, closers>>,
           RunningIsRecorded'
    PROVE  Agreement'
<1>1. \A t \in Sessions : SessionAgrees(t)'
  BY StayingAgrees
<1>2. \A i \in DOMAIN allContainers' : EntryAgrees(allContainers[i])'
  BY EntriesStayAgreed
<1>3. \A i \in DOMAIN closers' : CloserAgrees(closers[i])'
  BY ClosersStayAgreed
<1> QED BY <1>1, <1>2, <1>3 DEF Agreement, SharedObjectsAgree

\* A step of a session that has its object, and only goes on.
LEMMA WorkingMoves ==
    ASSUME IInv, NEW s \in Sessions, pc[s] \in Working,
           NEW label \in PastRecord \ {"deleteAuth", "deleteSettings"}, Goto(s, label),
           UNCHANGED <<docker, settings, allContainers, config, closers, target, object>>
    PROVE  Agreement'
<1>1. pc \in [Sessions -> Labels]
  BY DEF IInv, TypeOK
<1>2. \A o \in Sessions : pc'[o] = IF o = s THEN label ELSE pc[o]
  BY <1>1 DEF Goto
<1>3. Keeps
  BY <1>2 DEF Keeps, Owned, Ready, PastRecord
<1>4. SessionAgrees(s)
  BY DEF IInv, SharedObjectsAgree
<1>5. SessionAgrees(s)'
  <2>1. Owned(object[s]) /\ object[s] \in Sessions
    BY <1>4 DEF SessionAgrees
  <2>2. Owned(object[s])'
    BY <1>3, <2>1 DEF Keeps, Owned
  <2>3. Ready(target[s])' <=> Ready(target[s])
    BY DEF Ready
  <2> QED BY <1>2, <1>4, <2>1, <2>2, <2>3 DEF SessionAgrees, Working, PastRecord
<1>6. \A t \in Sessions \ {s} : Stays(t)
  BY <1>2 DEF Stays
<1>7. RunningIsRecorded'
  BY DEF IInv, RunningIsRecorded
<1> QED BY <1>3, <1>5, <1>6, <1>7, OneSessionMoves

\* A step of a session that has no object yet.
LEMMA PreparingMoves ==
    ASSUME IInv, NEW s \in Sessions,
           pc[s] \in {"idle", "accept", "lookup", "open", "inspect", "create"},
           NEW label \in Labels \ Working, Goto(s, label),
           UNCHANGED <<settings, allContainers, closers>>,
           \A t \in Sessions \ {s} : object'[t] = object[t] /\ target'[t] = target[t] /\ config'[t] = config[t],
           \A c \in Containers : \/ docker'[c] = docker[c]
                                 \/ docker[c] = "absent" /\ docker'[c] = "stopped",
           label \in {"accept", "lookup", "open", "inspect", "record"} => target'[s] \in Containers,
           label \in {"inspect", "record"} => config'[s] \in Config,
           label = "record" => object'[s] = s /\ docker'[target'[s]] # "absent"
    PROVE  Agreement'
<1>1. pc \in [Sessions -> Labels]
  BY DEF IInv, TypeOK
<1>2. \A o \in Sessions : pc'[o] = IF o = s THEN label ELSE pc[o]
  BY <1>1 DEF Goto
<1>3. pc[s] \notin PastRecord
  BY DEF PastRecord, Working
<1>4. \A t \in Sessions \ {s} : Stays(t)
  BY <1>2 DEF Stays
<1>5. Keeps
  <2>1. \A o \in Sessions : Owned(o) => Owned(o)' /\ target'[o] = target[o]
    BY <1>3, <1>4 DEF Owned, Stays
  <2> QED BY <2>1 DEF Keeps, Ready
<1>6. SessionAgrees(s)'
  BY <1>2 DEF SessionAgrees, Working
<1>7. RunningIsRecorded'
  BY DEF IInv, RunningIsRecorded
<1> QED BY <1>4, <1>5, <1>6, <1>7, OneSessionMoves

\* A process that dies leaves nobody to disagree.
LEMMA LoseMemoryAgrees ==
    ASSUME IInv, LoseMemory
    PROVE  Agreement'
  BY DEF IInv, TypeOK, LoseMemory, Agreement, SharedObjectsAgree, SessionAgrees,
         RunningIsRecorded, Working, PastRecord, Over, Active, Labels, StopLabels, storeVars

\* The steps of getContainer keep the agreement: an object is whole when it is recorded.
LEMMA GetContainerAgrees ==
    ASSUME IInv, NEW s \in Sessions, GetContainer(s), "query" \notin FailingCalls
    PROVE  Agreement'
<1> USE DEF storeVars, objectVars, localVars
<1>1. /\ pc \in [Sessions -> Labels] /\ object \in [Sessions -> Sessions \cup {None}]
      /\ target \in [Sessions -> Containers \cup {None}]
      /\ config \in [Sessions -> Config \cup {None}]
      /\ docker \in [Containers -> {"absent", "stopped", "running", "removed"}]
      /\ settings \in [Containers -> Config \cup {None}]
  BY DEF IInv, TypeOK
<1>2. SessionAgrees(s) /\ RunningIsRecorded
  BY DEF IInv, SharedObjectsAgree
<1>3. CASE Lookup(s) /\ Registered(target[s]) = {}
  BY <1>2, <1>3, PreparingMoves DEF Lookup, SessionAgrees, Labels, Working
<1>4. CASE Lookup(s) /\ Registered(target[s]) # {}
  <2>1. PICK i \in DOMAIN allContainers :
            /\ target[allContainers[i]] = target[s]
            /\ object' = [object EXCEPT ![s] = allContainers[i]]
            /\ Goto(s, "scan")
    BY <1>4 DEF Lookup, Registered
  <2>2. allContainers[i] \in Sessions /\ EntryAgrees(allContainers[i])
    BY EntriesAreObjects DEF IInv, SharedObjectsAgree
  <2>3. UNCHANGED <<docker, settings, config, target, allContainers, closers>>
    BY <1>4 DEF Lookup
  <2>4. pc[s] = "lookup" /\ pc' = [pc EXCEPT ![s] = "scan"]
    BY <1>4, <2>1 DEF Lookup, Goto
  <2>5. Keeps
    BY <1>1, <2>3, <2>4 DEF Keeps, Owned, Ready, PastRecord, Working
  <2>6. SessionAgrees(s)'
    <3>1. Owned(allContainers[i]) /\ Owned(object[s])' /\ object'[s] = allContainers[i]
      BY <1>1, <2>1, <2>2, <2>3, <2>4 DEF EntryAgrees, Owned, PastRecord, Working
    <3>2. Ready(target[s])'
      BY <2>1, <2>2, <2>3 DEF EntryAgrees, Ready
    <3> QED BY <1>1, <2>1, <2>2, <2>3, <2>4, <3>1, <3>2 DEF SessionAgrees, Working
  <2>7. \A t \in Sessions \ {s} : Stays(t)
    BY <1>1, <2>1, <2>3, <2>4 DEF Stays
  <2>8. RunningIsRecorded'
    BY <1>2, <2>3 DEF RunningIsRecorded
  <2> QED BY <2>3, <2>5, <2>6, <2>7, <2>8, OneSessionMoves
<1>5. CASE Open(s)
  <2>1. target[s] \in Containers /\ pc[s] = "open"
    BY <1>2, <1>5 DEF Open, SessionAgrees
  <2>2. \/ Goto(s, "failed") /\ UNCHANGED config
        \/ Goto(s, "inspect") /\ config' = [config EXCEPT ![s] = settings[target[s]]]
           /\ settings[target[s]] \in Config
    BY <1>1, <1>5, <2>1 DEF Open
  <2>3. UNCHANGED <<docker, settings, allContainers, closers, target, object>>
    BY <1>5 DEF Open
  <2> QED BY <1>1, <2>1, <2>2, <2>3, PreparingMoves DEF Labels, Over, Working
<1>6. CASE Inspect(s)
  <2>1. target[s] \in Containers /\ config[s] \in Config /\ pc[s] = "inspect"
    BY <1>2, <1>6 DEF Inspect, SessionAgrees
  <2>2. \/ Goto(s, "failed") /\ UNCHANGED object
        \/ Goto(s, "record") /\ object' = [object EXCEPT ![s] = s] /\ docker[target[s]] # "absent"
    BY <1>6 DEF Inspect, Exists
  <2>3. UNCHANGED <<docker, settings, allContainers, closers, target, config>>
    BY <1>6 DEF Inspect
  <2> QED BY <1>1, <2>1, <2>2, <2>3, PreparingMoves DEF Labels, Over, Working
<1>7. CASE \E c \in Containers, profile \in Profiles : Create(s, c, profile)
  <2>1. PICK c \in Containers, profile \in Profiles : Create(s, c, profile)
    BY <1>7
  <2>2. profile \in Config
    BY ProfilesAreConfigs
  <2> QED BY <1>1, <2>1, <2>2, PreparingMoves DEF Create, Labels, Working
<1>8. CASE CreateFails(s)
  BY <1>8, PreparingMoves DEF CreateFails, Labels, Over, Working
<1>9. CASE PullFatal(s)
  BY <1>9, LoseMemoryAgrees DEF PullFatal
<1>10. CASE Record(s)
  <2>1. /\ pc[s] = "record" /\ target[s] \in Containers /\ config[s] \in Config
        /\ object[s] = s /\ docker[target[s]] # "absent"
    BY <1>2, <1>10 DEF Record, SessionAgrees
  <2>2. UNCHANGED <<docker, allContainers, closers, target, object, config>>
    BY <1>10 DEF Record
  <2>3. \/ Goto(s, "failed") /\ UNCHANGED settings
        \/ Goto(s, "scan") /\ UNCHANGED settings /\ settings[target[s]] # None
        \/ Goto(s, "scan") /\ settings' = [settings EXCEPT ![target[s]] = config[s]]
    BY <1>10 DEF Record, Errs, CallFails
  <2>4. \A c \in Containers : settings[c] # None => settings'[c] # None
    BY <1>1, <2>1, <2>3, NoneIsNothing
  <2>5. Keeps
    BY <1>1, <2>1, <2>2, <2>3, <2>4 DEF Keeps, Owned, Ready, Goto, PastRecord, Working
  <2>6. SessionAgrees(s)'
    <3>1. CASE Goto(s, "failed")
      BY <1>1, <3>1 DEF Goto, SessionAgrees, Working
    <3>2. CASE Goto(s, "scan")
      <4>1. settings'[target[s]] # None
        BY <1>1, <2>1, <2>3, <3>2, NoneIsNothing DEF Goto
      <4>2. pc'[s] = "scan"
        BY <1>1, <3>2 DEF Goto
      <4> QED BY <2>1, <2>2, <4>1, <4>2 DEF SessionAgrees, Owned, Ready, PastRecord, Working
    <3> QED BY <2>3, <3>1, <3>2
  <2>7. \A t \in Sessions \ {s} : Stays(t)
    BY <1>1, <2>2, <2>3 DEF Stays, Goto
  <2>8. RunningIsRecorded'
    BY <1>2, <2>2, <2>4 DEF RunningIsRecorded
  <2> QED BY <2>2, <2>5, <2>6, <2>7, <2>8, OneSessionMoves
<1> QED BY <1>3, <1>4, <1>5, <1>6, <1>7, <1>8, <1>9, <1>10 DEF GetContainer

\* The steps of connection that leave the registry alone and stop nothing.
LEMMA ConnectionAgrees ==
    ASSUME IInv, NEW s \in Sessions,
           \/ Scan(s) \/ CheckRunning(s) \/ StartContainer(s) \/ Setup(s) \/ CopyConfig(s)
           \/ Attach(s) \/ CountIn(s) \/ StreamEnds(s) \/ CountOut(s) \/ Check(s)
    PROVE  Agreement'
<1> USE DEF storeVars, objectVars, localVars
<1>1. CASE ~StartContainer(s)
  <2>1. UNCHANGED <<docker, settings, allContainers, config, closers, target, object>>
    BY <1>1 DEF Scan, CheckRunning, Setup, CopyConfig, Attach, CountIn, StreamEnds, CountOut, Check
  <2>2. /\ pc[s] \in Working
        /\ \E label \in PastRecord \ {"deleteAuth", "deleteSettings"} : Goto(s, label)
    BY <1>1 DEF Scan, CheckRunning, Setup, CopyConfig, Attach, CountIn, StreamEnds, CountOut, Check,
                Working, PastRecord
  <2> QED BY <2>1, <2>2, WorkingMoves
<1>2. CASE StartContainer(s)
  <2>1. /\ pc \in [Sessions -> Labels]
        /\ docker \in [Containers -> {"absent", "stopped", "running", "removed"}]
    BY DEF IInv, TypeOK
  <2>2. pc[s] = "start" /\ SessionAgrees(s) /\ RunningIsRecorded
    BY <1>2 DEF StartContainer, IInv, SharedObjectsAgree
  <2>3. /\ object[s] \in Sessions /\ Owned(object[s]) /\ target[s] \in Containers
        /\ target[object[s]] = target[s] /\ Ready(target[s])
    BY <2>2 DEF SessionAgrees, Owned, Working
  <2>4. PICK label \in {"config", "setup", "startFailed"} : Goto(s, label)
    BY <1>2 DEF StartContainer
  <2>5. \A t \in Sessions : pc'[t] = IF t = s THEN label ELSE pc[t]
    BY <2>1, <2>4 DEF Goto
  <2>6. UNCHANGED <<settings, allContainers, config, closers, target, object>>
    BY <1>2 DEF StartContainer
  <2>7. \A c \in Containers :
           \/ docker'[c] = docker[c]
           \/ docker[c] \in {"stopped", "running"} /\ docker'[c] = "running" /\ settings[c] # None
    BY <1>2, <2>1, <2>3 DEF StartContainer, Exists, Ready
  <2>8. Keeps
    <3>1. \A o \in Sessions : Owned(o) => Owned(o)' /\ target'[o] = target[o]
      BY <2>5, <2>6 DEF Owned, PastRecord, Working
    <3> QED BY <2>6, <2>7, <3>1 DEF Keeps, Ready
  <2>9. SessionAgrees(s)'
    <3>1. Owned(object[s])' /\ Ready(target[s])'
      BY <2>3, <2>6, <2>8 DEF Keeps, Owned, Ready
    <3> QED BY <2>3, <2>5, <2>6, <3>1 DEF SessionAgrees, Working
  <2>10. \A t \in Sessions \ {s} : Stays(t)
    BY <2>5, <2>6 DEF Stays
  <2>11. RunningIsRecorded'
    BY <2>2, <2>6, <2>7 DEF RunningIsRecorded
  <2> QED BY <2>6, <2>8, <2>9, <2>10, <2>11, OneSessionMoves
<1> QED BY <1>1, <1>2

\* One step of Stop starts nothing, brings nothing back, and takes a row only from a
\* container that is removed.
LEMMA StopStepEffect ==
    ASSUME TypeOK, NEW o \in Sessions, target[o] \in Containers, NEW at, NEW next,
           StopStep(o, at, next),
           at \in {"deleteAuth", "deleteSettings"} => docker[target[o]] = "removed"
    PROVE  /\ \A c \in Containers :
                 /\ docker[c] = "removed" => docker'[c] = "removed"
                 /\ docker[c] # "absent" => docker'[c] # "absent"
                 /\ docker'[c] = "running" => docker[c] = "running"
                 /\ docker[c] # "removed" => settings'[c] = settings[c]
           /\ next \in {"deleteAuth", "deleteSettings"} => docker'[target[o]] = "removed"
<1> USE DEF TypeOK, storeVars
<1>1. CASE at = "stop"
  BY <1>1 DEF StopStep, HaltStep, Exists
<1>2. CASE at = "remove"
  BY <1>2 DEF StopStep, RemoveStep, Exists
<1>3. CASE at = "deleteAuth"
  BY <1>3 DEF StopStep, DeleteAuthStep
<1>4. CASE at = "deleteSettings"
  BY <1>4 DEF StopStep, DeleteSettingsStep
<1> QED BY <1>1, <1>2, <1>3, <1>4 DEF StopStep

\* So it keeps what it must, and every container that still runs has its row.
LEMMA StopStepKeeps ==
    ASSUME IInv, NEW o \in Sessions, target[o] \in Containers, NEW at, NEW next,
           StopStep(o, at, next),
           at \in {"deleteAuth", "deleteSettings"} => docker[target[o]] = "removed",
           UNCHANGED <<target, config>>,
           \A t \in Sessions : pc[t] \in PastRecord => pc'[t] \in PastRecord
    PROVE  /\ Keeps /\ RunningIsRecorded'
           /\ next \in {"deleteAuth", "deleteSettings"} => docker'[target[o]] = "removed"
<1>1. /\ \A c \in Containers :
            /\ docker[c] = "removed" => docker'[c] = "removed"
            /\ docker[c] # "absent" => docker'[c] # "absent"
            /\ docker'[c] = "running" => docker[c] = "running"
            /\ docker[c] # "removed" => settings'[c] = settings[c]
      /\ next \in {"deleteAuth", "deleteSettings"} => docker'[target[o]] = "removed"
  BY StopStepEffect DEF IInv
<1>2. \A p \in Sessions : Owned(p) => Owned(p)' /\ target'[p] = target[p]
  BY DEF Owned
<1>3. Keeps
  BY <1>1, <1>2 DEF Keeps, Ready
<1>4. RunningIsRecorded'
  BY <1>1 DEF IInv, RunningIsRecorded
<1> QED BY <1>1, <1>3, <1>4

\* A step of Stop by a session keeps the agreement of the others on its container.
LEMMA SessionStopAgrees ==
    ASSUME IInv, NEW s \in Sessions, SessionStop(s)
    PROVE  Agreement'
<1>1. PICK next \in StopLabels : StopStep(object[s], pc[s], next) /\ Goto(s, next)
  BY DEF SessionStop
<1>2. UNCHANGED <<allContainers, config, closers, target, object>>
  BY DEF SessionStop, objectVars
<1>3. pc[s] \in {"stop", "remove", "deleteAuth", "deleteSettings"}
  BY <1>1 DEF StopStep
<1>4. SessionAgrees(s)
  BY DEF IInv, SharedObjectsAgree
<1>5. /\ object[s] \in Sessions /\ Owned(object[s]) /\ target[object[s]] = target[s]
      /\ target[s] \in Containers /\ Ready(target[s])
      /\ pc[s] \in {"deleteAuth", "deleteSettings"} => docker[target[s]] = "removed"
  BY <1>3, <1>4 DEF SessionAgrees, Working, Owned
<1>6. \A t \in Sessions : pc'[t] = IF t = s THEN next ELSE pc[t]
  BY <1>1 DEF IInv, TypeOK, Goto
<1>7. \A t \in Sessions : pc[t] \in PastRecord => pc'[t] \in PastRecord
  BY <1>6 DEF PastRecord, Working, StopLabels
<1>8. /\ Keeps /\ RunningIsRecorded'
      /\ next \in {"deleteAuth", "deleteSettings"} => docker'[target[s]] = "removed"
  BY <1>1, <1>2, <1>5, <1>7, StopStepKeeps
<1>9. SessionAgrees(s)'
  <2>1. Owned(object[s])' /\ Ready(target[s])'
    BY <1>2, <1>5, <1>8 DEF Keeps, Owned, Ready
  <2> QED BY <1>2, <1>5, <1>6, <1>8, <2>1 DEF SessionAgrees, StopLabels
<1>10. \A t \in Sessions \ {s} : Stays(t)
  BY <1>2, <1>6 DEF Stays
<1> QED BY <1>2, <1>8, <1>9, <1>10, OneSessionMoves

\* So does a step of Stop by a goroutine of closeAllContainers.
LEMMA CloserStopAgrees ==
    ASSUME IInv, NEW i \in DOMAIN closers, CloserStop(i)
    PROVE  Agreement'
<1>1. PICK next \in StopLabels :
          /\ StopStep(closers[i].object, closers[i].at, next)
          /\ closers' = [closers EXCEPT ![i].at = next]
  BY DEF CloserStop
<1>2. UNCHANGED <<allContainers, config, pc, target, object>>
  BY DEF CloserStop, objectVars, localVars
<1>3. \A k \in DOMAIN closers :
         closers[k] \in [object : Sessions, at : StopLabels] /\ CloserAgrees(closers[k])
  BY EntriesAreObjects DEF IInv, SharedObjectsAgree
<1>4. /\ closers[i].object \in Sessions /\ target[closers[i].object] \in Containers
      /\ closers[i].at \in {"deleteAuth", "deleteSettings"} =>
            docker[target[closers[i].object]] = "removed"
  BY <1>3 DEF CloserAgrees, Owned
<1>5. /\ Keeps /\ RunningIsRecorded'
      /\ next \in {"deleteAuth", "deleteSettings"} =>
            docker'[target[closers[i].object]] = "removed"
  BY <1>1, <1>2, <1>4, StopStepKeeps
<1>6. \A t \in Sessions : SessionAgrees(t)'
  BY <1>2, <1>5, StayingAgrees DEF Stays
<1>7. \A k \in DOMAIN allContainers' : EntryAgrees(allContainers[k])'
  BY <1>2, <1>5, EntriesStayAgreed
<1>8. ASSUME NEW k \in DOMAIN closers'
      PROVE  CloserAgrees(closers[k])'
  <2>1. /\ k \in DOMAIN closers
        /\ closers'[k].object = closers[k].object
        /\ closers'[k].at = IF k = i THEN next ELSE closers[k].at
    BY <1>1, <1>3
  <2>2. closers[k].object \in Sessions /\ Owned(closers[k].object)
    BY <1>3, <2>1 DEF CloserAgrees
  <2>3. /\ pc[closers[k].object] \in PastRecord /\ target[closers[k].object] \in Containers
        /\ config[closers[k].object] \in Config
    BY <2>2 DEF Owned
  <2>4. Owned(closers[k].object)'
    BY <1>2, <2>1, <2>3 DEF Owned
  <2>5. closers'[k].at \in {"deleteAuth", "deleteSettings"} =>
           docker'[target[closers[k].object]] = "removed"
    BY <1>3, <1>5, <2>1, <2>3 DEF CloserAgrees, Keeps
  <2> QED BY <1>2, <2>1, <2>4, <2>5 DEF CloserAgrees
<1> QED BY <1>5, <1>6, <1>7, <1>8 DEF Agreement, SharedObjectsAgree

\* Appending to the registry and taking an entry out, updates lost or not, keep the agreement.
LEMMA RegistryAgrees ==
    ASSUME IInv, NEW s \in Sessions, Register(s) \/ Unregister(s)
    PROVE  Agreement'
<1>1. /\ allContainers \in Seq(Sessions) /\ seen \in [Sessions -> Int]
      /\ pc \in [Sessions -> Labels]
  BY DEF IInv, TypeOK
<1>2. Len(allContainers) \in Nat
  BY <1>1, LenProperties
<1>3. SessionAgrees(s) /\ RunningIsRecorded
  BY DEF IInv, SharedObjectsAgree
<1>4. /\ \/ pc[s] = "append" /\ Goto(s, "running")
         \/ pc[s] = "unregister" /\ Goto(s, "done")
      /\ UNCHANGED <<docker, settings, config, closers, target, object>>
  BY DEF Register, Unregister, storeVars, objectVars, localVars
<1>5. /\ object[s] \in Sessions /\ Owned(object[s])
      /\ target[object[s]] = target[s] /\ Ready(target[s])
  BY <1>3, <1>4 DEF SessionAgrees, Working
<1>6. Loaded(s, Len(allContainers)) \subseteq Int
  BY <1>1, <1>2 DEF Loaded
<1>7. \A i \in DOMAIN allContainers' :
         \/ allContainers'[i] = object[s]
         \/ \E j \in DOMAIN allContainers : allContainers'[i] = allContainers[j]
  <2>1. CASE Register(s)
    <3>1. PICK n \in Int : /\ n <= Len(allContainers)
                           /\ allContainers' = Append(SubSeq(allContainers, 1, n), object[s])
      BY <2>1, <1>6 DEF Register
    <3> QED BY <3>1, <1>1, <1>5, AppendToPrefix
  <2>2. CASE Unregister(s)
    <3>1. \/ UNCHANGED allContainers
          \/ \E n \in Int, i \in DOMAIN allContainers :
                /\ n <= Len(allContainers) /\ i <= n
                /\ allContainers' = WithoutEntry(allContainers, i, n)
      BY <2>2, <1>6 DEF Unregister, Positions
    <3> QED BY <3>1, <1>1, WithoutEntryKeeps
  <2> QED BY <2>1, <2>2
<1>8. \A t \in Sessions : \/ t # s /\ pc'[t] = pc[t]
                          \/ t = s /\ pc'[t] \in {"running", "done"}
  BY <1>1, <1>4 DEF Goto
<1>9. Keeps
  BY <1>4, <1>8 DEF Keeps, Owned, Ready, PastRecord, Working
<1>10. \A t \in Sessions : SessionAgrees(t)'
  <2>1. \A t \in Sessions \ {s} : SessionAgrees(t)'
    BY <1>4, <1>8, <1>9, StayingAgrees DEF Stays
  <2>2. SessionAgrees(s)'
    <3>1. Owned(object[s])' /\ Ready(target[s])'
      BY <1>4, <1>5, <1>9 DEF Keeps, Owned, Ready
    <3> QED BY <1>4, <1>5, <1>8, <3>1 DEF SessionAgrees, Working
  <2> QED BY <2>1, <2>2
<1>11. ASSUME NEW i \in DOMAIN allContainers'
       PROVE  EntryAgrees(allContainers[i])'
  <2>1. CASE allContainers'[i] = object[s]
    BY <2>1, <1>4, <1>5, <1>9 DEF EntryAgrees, Keeps, Owned, Ready
  <2>2. CASE \E j \in DOMAIN allContainers : allContainers'[i] = allContainers[j]
    <3>1. PICK j \in DOMAIN allContainers : allContainers'[i] = allContainers[j]
      BY <2>2
    <3>2. allContainers[j] \in Sessions /\ EntryAgrees(allContainers[j])
      BY EntriesAreObjects DEF IInv, SharedObjectsAgree
    <3> QED BY <3>1, <3>2, <1>9 DEF Keeps, EntryAgrees, Owned, Ready
  <2> QED BY <1>7, <2>1, <2>2
<1>12. \A i \in DOMAIN closers' : CloserAgrees(closers[i])'
  BY <1>4, <1>9, ClosersStayAgreed
<1>13. RunningIsRecorded'
  BY <1>3, <1>4 DEF RunningIsRecorded
<1> QED BY <1>10, <1>11, <1>12, <1>13 DEF Agreement, SharedObjectsAgree

\* A step that moves no session and leaves docker and the settings alone.
LEMMA NobodyMoves ==
    ASSUME IInv, UNCHANGED <<docker, settings, allContainers, config, pc, target, object>>,
           UNCHANGED closers
    PROVE  Agreement'
<1>1. Keeps
  BY DEF Keeps, Owned, Ready
<1>2. \A t \in Sessions : SessionAgrees(t)'
  BY <1>1, StayingAgrees DEF Stays
<1>3. \A i \in DOMAIN allContainers' : EntryAgrees(allContainers[i])'
  BY <1>1, EntriesStayAgreed
<1>4. \A i \in DOMAIN closers' : CloserAgrees(closers[i])'
  BY <1>1, ClosersStayAgreed
<1>5. RunningIsRecorded'
  BY DEF IInv, RunningIsRecorded
<1> QED BY <1>2, <1>3, <1>4, <1>5 DEF Agreement, SharedObjectsAgree

\* A shutdown begins with the objects of the registry, each about to be stopped.
LEMMA BeginShutdownAgrees ==
    ASSUME IInv, BeginShutdown
    PROVE  Agreement'
<1>1. UNCHANGED <<docker, settings, allContainers, config, pc, target, object>>
  BY DEF BeginShutdown, storeVars, objectVars, localVars
<1>2. Keeps
  BY <1>1 DEF Keeps, Owned, Ready
<1>3. \A t \in Sessions : SessionAgrees(t)'
  BY <1>1, <1>2, StayingAgrees DEF Stays
<1>4. \A i \in DOMAIN allContainers' : EntryAgrees(allContainers[i])'
  BY <1>1, <1>2, EntriesStayAgreed
<1>5. ASSUME NEW i \in DOMAIN closers'
      PROVE  CloserAgrees(closers[i])'
  <2>1. /\ i \in DOMAIN allContainers
        /\ closers'[i].object = allContainers[i] /\ closers'[i].at = "stop"
    BY DEF BeginShutdown
  <2>2. EntryAgrees(allContainers[i])
    BY <2>1 DEF IInv, SharedObjectsAgree
  <2> QED BY <1>1, <2>1, <2>2 DEF EntryAgrees, CloserAgrees, Owned
<1>6. RunningIsRecorded'
  BY <1>1 DEF IInv, RunningIsRecorded
<1> QED BY <1>3, <1>4, <1>5, <1>6 DEF Agreement, SharedObjectsAgree

\* A container that ends on its own runs no more, and is not removed.
LEMMA ContainerExitsAgrees ==
    ASSUME IInv, NEW c \in Containers, ContainerExits(c)
    PROVE  Agreement'
<1>1. docker \in [Containers -> {"absent", "stopped", "running", "removed"}]
  BY DEF IInv, TypeOK
<1>2. UNCHANGED <<settings, allContainers, config, closers, pc, target, object>>
  BY DEF ContainerExits, objectVars, localVars
<1>3. \A d \in Containers :
         docker'[d] = docker[d] \/ (docker[d] = "running" /\ docker'[d] = "stopped")
  BY <1>1 DEF ContainerExits
<1>4. Keeps
  BY <1>2, <1>3 DEF Keeps, Owned, Ready
<1>5. \A t \in Sessions : SessionAgrees(t)'
  BY <1>2, <1>4, StayingAgrees DEF Stays
<1>6. \A i \in DOMAIN allContainers' : EntryAgrees(allContainers[i])'
  BY <1>2, <1>4, EntriesStayAgreed
<1>7. \A i \in DOMAIN closers' : CloserAgrees(closers[i])'
  BY <1>2, <1>4, ClosersStayAgreed
<1>8. RunningIsRecorded'
  BY <1>2, <1>3 DEF IInv, RunningIsRecorded
<1> QED BY <1>5, <1>6, <1>7, <1>8 DEF Agreement, SharedObjectsAgree

\* Every step keeps the agreement and the row of each running container.
LEMMA NextAgrees ==
    ASSUME IInv, Next, "query" \notin FailingCalls
    PROVE  Agreement'
<1> USE DEF storeVars, objectVars, localVars
<1>1. CASE \E s \in Sessions : Accept(s)
  <2>1. PICK s \in Sessions : Accept(s)
    BY <1>1
  <2>2. SessionAgrees(s)
    BY DEF IInv, SharedObjectsAgree
  <2> QED BY <2>1, <2>2, PreparingMoves DEF Accept, SessionAgrees, Labels, Working
<1>2. CASE LoseMemory
  BY <1>2, LoseMemoryAgrees
<1>3. CASE BeginShutdown
  BY <1>3, BeginShutdownAgrees
<1>4. CASE Restart
  BY <1>4, NobodyMoves DEF Restart
<1>5. CASE \E s \in Sessions : ImageLogin(s)
  BY <1>5, PreparingMoves DEF ImageLogin, Labels, Working
<1>6. CASE \E s \in Sessions, c \in Containers : NamedLogin(s, c) \/ SavedLogin(s, c)
  <2>1. PICK s \in Sessions, c \in Containers : NamedLogin(s, c) \/ SavedLogin(s, c)
    BY <1>6
  <2>2. \E label \in {"lookup", "accept"} : Goto(s, label)
    BY <2>1 DEF NamedLogin, SavedLogin
  <2>3. /\ pc[s] = "idle" /\ target' = [target EXCEPT ![s] = c]
        /\ UNCHANGED <<docker, settings, allContainers, closers, object, config>>
    BY <2>1 DEF NamedLogin, SavedLogin
  <2>4. target \in [Sessions -> Containers \cup {None}]
    BY DEF IInv, TypeOK
  <2> QED BY <2>2, <2>3, <2>4, PreparingMoves DEF Labels, Working
<1>7. CASE \E s \in Sessions : ClientLeaves(s)
  BY <1>7, NobodyMoves DEF ClientLeaves
<1>8. CASE \E c \in Containers : ContainerExits(c)
  BY <1>8, ContainerExitsAgrees
<1>9. CASE \E c \in Containers :
              AuthPost(c) \/ \E request \in {"save", "forget"} : AuthRequest(c, request)
  BY <1>9, NobodyMoves DEF AuthPost, AuthRequest
<1>10. CASE \E s \in Sessions : GetContainer(s) \/ Connection(s)
  BY <1>2, <1>10, GetContainerAgrees, ConnectionAgrees, SessionStopAgrees, RegistryAgrees
  DEF Connection, UnregisterPanic
<1>11. CASE \E i \in DOMAIN closers : CloserStop(i)
  BY <1>11, CloserStopAgrees
<1> QED
  BY <1>1, <1>2, <1>3, <1>4, <1>5, <1>6, <1>7, <1>8, <1>9, <1>10, <1>11
  DEF Next, ServerStep, SessionStep, Environment, ClientStep, AcceptPanic, Exit, Kill

-------------------------------------------------------------------------------
(* The theorems *)

\* The containers an earlier run kept are recorded and stopped.
LEMMA InitIInv == Init => IInv
  BY NoneIsNothing, ProfilesAreConfigs, EmptySeq
  DEF Init, IInv, TypeOK, SharedObjectsAgree, SessionAgrees, RunningIsRecorded, Working, Labels,
      Over, StopLabels

\* The invariant is about the variables only.
LEMMA StutterIInv ==
    ASSUME IInv, UNCHANGED vars
    PROVE  IInv'
  BY DEF vars, envVars, storeVars, objectVars, localVars, IInv, TypeOK, SharedObjectsAgree,
         SessionAgrees, EntryAgrees, CloserAgrees, RunningIsRecorded, Owned, Ready

\* The invariant is inductive, however many sessions race, updates are lost or calls
\* fail, as long as the query of connection.go:182 does not.
THEOREM Inductive ==
    ASSUME "query" \notin FailingCalls
    PROVE  Spec => []IInv
<1>1. IInv /\ [Next]_vars => IInv'
  BY NextTypeOK, NextAgrees, StutterIInv DEF IInv, Agreement
<1> QED BY <1>1, InitIInv, PTL DEF Spec

\* Every variable keeps its type (TypeOK).
THEOREM TypeCorrectness ==
    ASSUME "query" \notin FailingCalls
    PROVE  Spec => []TypeOK
  BY Inductive, PTL DEF IInv

\* Sessions, registry and closers agree on the objects they share.
THEOREM ObjectsAgree ==
    ASSUME "query" \notin FailingCalls
    PROVE  Spec => []SharedObjectsAgree
  BY Inductive, PTL DEF IInv

\* A container runs only with a settings row (connection.go:182-198 before line 58,
\* container.go:139-143), for any number of sessions and crashes.
THEOREM RunningContainersAreRecorded ==
    ASSUME "query" \notin FailingCalls
    PROVE  Spec => []RunningIsRecorded
  BY Inductive, PTL DEF IInv
-------------------------------------------------------------------------------
(* Attached clients *)

\* An attached session works on a container.
LEMMA AttachedTarget ==
    ASSUME IInv, NEW t \in Sessions, pc[t] \in {"inc", "wait"}
    PROVE  target[t] \in Containers
  BY DEF IInv, SharedObjectsAgree, SessionAgrees, Owned, Working

\* A step that leaves docker, the streams and the targets of attached sessions alone, and
\* attaches nobody, keeps attached clients live.
LEMMA UntouchedKeepsLive ==
    ASSUME AttachedIsLive, UNCHANGED docker,
           \A t \in Sessions : gone[t] => gone'[t],
           \A t \in Sessions : pc'[t] \in {"inc", "wait"} =>
                                 pc[t] \in {"inc", "wait"} /\ target'[t] = target[t]
    PROVE  AttachedIsLive'
  BY DEF AttachedIsLive

\* Whoever stops a container, as a step of Stop or on its own, ends the streams in it.
LEMMA CutOffKeepsLive ==
    ASSUME IInv, AttachedIsLive, NEW c,
           UNCHANGED target,
           \A d \in Containers : d # c => docker'[d] = docker[d],
           CutOff(c),
           \A t \in Sessions : pc'[t] \in {"inc", "wait"} => pc[t] \in {"inc", "wait"}
    PROVE  AttachedIsLive'
<1> SUFFICES ASSUME NEW t \in Sessions, pc'[t] \in {"inc", "wait"}, ~gone'[t]
             PROVE  docker'[target'[t]] = "running"
  BY DEF AttachedIsLive
<1>1. pc[t] \in {"inc", "wait"} /\ target[t] \in Containers
  BY AttachedTarget
<1>2. ~gone[t] /\ target[t] # c
  BY <1>1 DEF CutOff, Attached
<1> QED BY <1>1, <1>2 DEF AttachedIsLive

\* A step of Stop keeps attached clients live.
LEMMA StopStepKeepsLive ==
    ASSUME IInv, AttachedIsLive, NEW o, NEW at, NEW next, StopStep(o, at, next),
           UNCHANGED target,
           \A t \in Sessions : pc'[t] \in {"inc", "wait"} => pc[t] \in {"inc", "wait"}
    PROVE  AttachedIsLive'
<1>1. docker \in [Containers -> {"absent", "stopped", "running", "removed"}]
  BY DEF IInv, TypeOK
<1>2. CASE UNCHANGED <<docker, gone>>
  BY <1>2, UntouchedKeepsLive
<1>3. CASE \E to : docker' = [docker EXCEPT ![target[o]] = to] /\ CutOff(target[o])
  <2>1. \A d \in Containers : d # target[o] => docker'[d] = docker[d]
    BY <1>1, <1>3
  <2> QED BY <2>1, <1>3, CutOffKeepsLive
<1>4. \/ UNCHANGED <<docker, gone>>
      \/ \E to : docker' = [docker EXCEPT ![target[o]] = to] /\ CutOff(target[o])
  BY DEF StopStep, HaltStep, RemoveStep, DeleteAuthStep, DeleteSettingsStep, storeVars
<1> QED BY <1>2, <1>3, <1>4

\* The steps of a session keep attached clients live: only Attach adds one, to a container
\* that runs.
LEMMA SessionKeepsLive ==
    ASSUME IInv, AttachedIsLive, NEW s \in Sessions, GetContainer(s) \/ Connection(s)
    PROVE  AttachedIsLive'
<1> USE DEF objectVars, storeVars, envVars, localVars
<1>1. /\ pc \in [Sessions -> Labels]
      /\ docker \in [Containers -> {"absent", "stopped", "running", "removed"}]
      /\ target \in [Sessions -> Containers \cup {None}]
  BY DEF IInv, TypeOK
<1>2. CASE LoseMemory
  BY <1>1, <1>2, UntouchedKeepsLive DEF LoseMemory, Active, Over, Labels, StopLabels
<1>3. CASE \E c \in Containers, profile \in Profiles : Create(s, c, profile)
  <2>1. PICK c \in Containers, profile \in Profiles : Create(s, c, profile)
    BY <1>3
  <2> SUFFICES ASSUME NEW t \in Sessions, pc'[t] \in {"inc", "wait"}, ~gone'[t]
               PROVE  docker'[target'[t]] = "running"
    BY DEF AttachedIsLive
  <2>2. t # s /\ pc[t] \in {"inc", "wait"} /\ ~gone[t] /\ target'[t] = target[t]
    BY <2>1, <1>1 DEF Create, Goto
  <2>3. docker[target[t]] = "running" /\ target[t] \in Containers
    BY <2>2, AttachedTarget DEF AttachedIsLive
  <2> QED BY <2>1, <2>2, <2>3, <1>1 DEF Create
<1>4. CASE StartContainer(s)
  <2> SUFFICES ASSUME NEW t \in Sessions, pc'[t] \in {"inc", "wait"}, ~gone'[t]
               PROVE  docker'[target'[t]] = "running"
    BY DEF AttachedIsLive
  <2>1. pc[t] \in {"inc", "wait"} /\ ~gone[t] /\ target'[t] = target[t]
    BY <1>4, <1>1 DEF StartContainer, Goto
  <2>2. docker[target[t]] = "running" /\ target[t] \in Containers
    BY <2>1, AttachedTarget DEF AttachedIsLive
  <2> QED BY <1>4, <2>1, <2>2, <1>1 DEF StartContainer
<1>5. CASE Attach(s)
  BY <1>5, <1>1 DEF Attach, Goto, AttachedIsLive
<1>6. CASE SessionStop(s)
  <2>1. PICK next \in StopLabels : StopStep(object[s], pc[s], next) /\ Goto(s, next)
    BY <1>6 DEF SessionStop
  <2>2. \A t \in Sessions : pc'[t] \in {"inc", "wait"} => pc[t] \in {"inc", "wait"}
    BY <2>1, <1>1 DEF Goto, StopLabels
  <2> QED BY <2>1, <2>2, <1>6, StopStepKeepsLive DEF SessionStop
<1>7. CASE Lookup(s) \/ Open(s) \/ Inspect(s) \/ CreateFails(s) \/ Record(s)
  <2>1. UNCHANGED <<docker, gone, target>>
    BY <1>7 DEF Lookup, Open, Inspect, CreateFails, Record
  <2>2. \E label \in Labels \ {"inc", "wait"} : Goto(s, label)
    BY <1>7 DEF Lookup, Open, Inspect, CreateFails, Record, Labels, Over, StopLabels
  <2> QED BY <2>1, <2>2, <1>1, UntouchedKeepsLive DEF Goto
<1>8. CASE Scan(s) \/ Register(s) \/ CheckRunning(s) \/ Setup(s) \/ CopyConfig(s)
           \/ StreamEnds(s) \/ CountOut(s) \/ Check(s) \/ Unregister(s)
  <2>1. UNCHANGED <<docker, gone, target>>
    BY <1>8 DEF Scan, Register, CheckRunning, Setup, CopyConfig, StreamEnds, CountOut, Check,
                Unregister
  <2>2. \E label \in Labels \ {"inc", "wait"} : Goto(s, label)
    BY <1>8 DEF Scan, Register, CheckRunning, Setup, CopyConfig, StreamEnds, CountOut, Check,
                Unregister, Labels, Over, StopLabels
  <2> QED BY <2>1, <2>2, <1>1, UntouchedKeepsLive DEF Goto
<1>9. CASE CountIn(s)
  BY <1>9, <1>1, UntouchedKeepsLive DEF CountIn, Goto
<1>10. LoseMemory \/ GetContainer(s) \/ Connection(s) => 
        \/ LoseMemory \/ \E c \in Containers, profile \in Profiles : Create(s, c, profile)
        \/ StartContainer(s) \/ Attach(s) \/ SessionStop(s) \/ Lookup(s) \/ Open(s) \/ Inspect(s)
        \/ CreateFails(s) \/ Record(s) \/ Scan(s) \/ Register(s) \/ CheckRunning(s) \/ Setup(s)
        \/ CopyConfig(s) \/ StreamEnds(s) \/ CountOut(s) \/ Check(s) \/ Unregister(s) \/ CountIn(s)
  BY DEF GetContainer, Connection, PullFatal, UnregisterPanic
<1> QED BY <1>2, <1>3, <1>4, <1>5, <1>6, <1>7, <1>8, <1>9, <1>10

\* Every step keeps attached clients live.
LEMMA NextKeepsLive ==
    ASSUME IInv, AttachedIsLive, Next
    PROVE  AttachedIsLive'
<1> USE DEF objectVars, storeVars, envVars, localVars
<1>1. /\ pc \in [Sessions -> Labels]
      /\ docker \in [Containers -> {"absent", "stopped", "running", "removed"}]
      /\ gone \in [Sessions -> BOOLEAN]
      /\ target \in [Sessions -> Containers \cup {None}]
  BY DEF IInv, TypeOK
<1>2. CASE \E s \in Sessions : GetContainer(s) \/ Connection(s)
  BY <1>2, SessionKeepsLive
<1>3. CASE LoseMemory
  BY <1>1, <1>3, UntouchedKeepsLive DEF LoseMemory, Active, Over, Labels, StopLabels
<1>4. CASE \E i \in DOMAIN closers : CloserStop(i)
  <2>1. PICK i \in DOMAIN closers, next \in StopLabels :
            StopStep(closers[i].object, closers[i].at, next)
    BY <1>4 DEF CloserStop
  <2>2. UNCHANGED <<pc, target>>
    BY <1>4 DEF CloserStop
  <2> QED BY <2>1, <2>2, StopStepKeepsLive
<1>5. CASE \E s \in Sessions : Accept(s) \/ ImageLogin(s)
  BY <1>5, <1>1, UntouchedKeepsLive DEF Accept, ImageLogin, Goto
<1>6. CASE \E s \in Sessions, c \in Containers : NamedLogin(s, c) \/ SavedLogin(s, c)
  BY <1>6, <1>1, UntouchedKeepsLive DEF NamedLogin, SavedLogin, Goto
<1>7. CASE \E s \in Sessions : ClientLeaves(s)
  BY <1>7, <1>1, UntouchedKeepsLive DEF ClientLeaves
<1>8. CASE BeginShutdown \/ Restart
  BY <1>8, UntouchedKeepsLive DEF BeginShutdown, Restart
<1>9. CASE \E c \in Containers : ContainerExits(c)
  <2>1. PICK c \in Containers : ContainerExits(c)
    BY <1>9
  <2>2. /\ UNCHANGED <<pc, target>> /\ CutOff(c)
        /\ \A d \in Containers : d # c => docker'[d] = docker[d]
    BY <2>1, <1>1 DEF ContainerExits
  <2> QED BY <2>2, CutOffKeepsLive
<1>10. CASE \E c \in Containers :
               AuthPost(c) \/ \E request \in {"save", "forget"} : AuthRequest(c, request)
  BY <1>10, UntouchedKeepsLive DEF AuthPost, AuthRequest
<1>11. \/ \E s \in Sessions : GetContainer(s) \/ Connection(s)
       \/ LoseMemory
       \/ \E i \in DOMAIN closers : CloserStop(i)
       \/ \E s \in Sessions : Accept(s) \/ ImageLogin(s)
       \/ \E s \in Sessions, c \in Containers : NamedLogin(s, c) \/ SavedLogin(s, c)
       \/ \E s \in Sessions : ClientLeaves(s)
       \/ BeginShutdown \/ Restart
       \/ \E c \in Containers : ContainerExits(c)
       \/ \E c \in Containers :
             AuthPost(c) \/ \E request \in {"save", "forget"} : AuthRequest(c, request)
  BY DEF Next, ServerStep, Environment, ClientStep, SessionStep, AcceptPanic, Exit, Kill
<1> QED BY <1>2, <1>3, <1>4, <1>5, <1>6, <1>7, <1>8, <1>9, <1>10, <1>11

\* Where a client is attached its container runs, for any number of sessions that stop
\* it or of containers that end on their own (AttachedIsLive, container.go:612-632).
THEOREM AttachedClientsAreLive ==
    ASSUME "query" \notin FailingCalls
    PROVE  Spec => []AttachedIsLive
<1>1. Init => AttachedIsLive
  BY DEF Init, AttachedIsLive
<1>2. IInv /\ AttachedIsLive /\ [Next]_vars => AttachedIsLive'
  <2>1. IInv /\ AttachedIsLive /\ UNCHANGED vars => AttachedIsLive'
    BY DEF vars, storeVars, localVars, AttachedIsLive
  <2> QED BY <2>1, NextKeepsLive
<1> QED BY <1>1, <1>2, Inductive, PTL DEF Spec
===============================================================================
