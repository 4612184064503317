-------------------------- MODULE RunScriptsProofs --------------------------
(***************************************************************************)
(* Theorems about the run scripts, for any number of instances of each,    *)
(* any choice of container names, and any crashes and interruptions.       *)
(***************************************************************************)
EXTENDS RunScripts, TLAPS

Steps == {"check_port", "check_name", "build", "create", "start", "claim", "spawn", "config",
          "poll", "probe", "setup", "hk", "run", "exit", "done"}

Containers == [owner : Sandbox, state : {"created", "running", "stopped"}] \cup {NoContainer}

(***************************************************************************)
(* A container belongs to the instance that created it as long as that     *)
(* instance may still remove it.  Names alone do not say so: docker goes   *)
(* by name, and another instance may wait to create one of the same name.  *)
(***************************************************************************)
OwnsItsContainer ==
    \A i \in Sandbox :
       pc[i] \in {"start", "claim"} \/ (claimed[i] /\ pc[i] # "done")
          => container[name[i]].owner = i

Inv == TypeOK /\ OwnsItsContainer

LEMMA NamesAreThere == Inv => \A i \in Sandbox : name[i] \in Names
  BY DEF Inv, TypeOK

LEMMA InitInv == Init => Inv
<1> SUFFICES ASSUME Init PROVE Inv
  OBVIOUS
<1>1. TypeOK
  BY ScriptsAssumption DEF Init, TypeOK, Instances, NoContainer
<1> QED
  BY <1>1 DEF Init, Inv, OwnsItsContainer, Instances

-----------------------------------------------------------------------------
(***************************************************************************)
(* The steps of a script.  Most of them only move its own pc.              *)
(***************************************************************************)
LEMMA GotoMoves ==
    ASSUME Inv, NEW i \in Instances, NEW s \in Steps, Goto(i, s)
    PROVE  /\ pc' \in [Instances -> Steps]
           /\ pc'[i] = s
           /\ \A j \in Instances : j # i => pc'[j] = pc[j]
  BY DEF Inv, TypeOK, Goto, Steps

\* A script that gives up is at its exit, or is done.
LEMMA GiveUpMoves ==
    ASSUME Inv, NEW i \in Instances, GiveUp(i)
    PROVE  /\ pc' \in [Instances -> Steps]
           /\ pc'[i] \in {"exit", "done"}
           /\ \A j \in Instances : j # i => pc'[j] = pc[j]
<1>1. \E s \in {"exit", "done"} : Goto(i, s)
  BY DEF GiveUp
<1> QED
  BY <1>1, GotoMoves DEF Steps

LEMMA QuietStep ==
    ASSUME Inv, NEW i \in Instances,
           GiveUp(i) \/ (\E s \in Steps \ {"start", "claim"} : Goto(i, s)),
           pc[i] # "done",
           pc'[i] \in {"exit", "done"} \/ polls'[i] < MaxPolls,
           polls' \in [Instances -> 0 .. MaxPolls],
           \A j \in Instances : j # i => polls'[j] = polls[j],
           answeredBy' \in [Instances -> Instances \cup {NoOne}],
           quiet' \in [Sandbox -> 0 .. HkPatience - 1],
           UNCHANGED <<claimed, target, container, name>>
    PROVE  Inv'
<1>1. /\ pc' \in [Instances -> Steps]
      /\ pc'[i] \notin {"start", "claim"}
      /\ \A j \in Instances : j # i => pc'[j] = pc[j]
  BY GotoMoves, GiveUpMoves DEF Steps
<1>2. TypeOK'
  BY <1>1 DEF Inv, TypeOK, Steps
<1>3. OwnsItsContainer'
  BY <1>1 DEF Inv, OwnsItsContainer, Instances
<1> QED
  BY <1>2, <1>3 DEF Inv

LEMMA OnlyQuietStep ==
    ASSUME Inv, quiet' \in [Sandbox -> 0 .. HkPatience - 1],
           UNCHANGED <<pc, polls, claimed, target, container, answeredBy, name>>
    PROVE  Inv'
  BY DEF Inv, TypeOK, OwnsItsContainer

LEMMA ScriptStepInv ==
    ASSUME Inv, NEW i \in Instances, ScriptNext(i) \/ Abandon(i) \/ Killed(i)
    PROVE  Inv'
<1> USE DEF Steps
<1>1. /\ polls \in [Instances -> 0 .. MaxPolls] /\ MaxPolls \in Nat
      /\ answeredBy \in [Instances -> Instances \cup {NoOne}]
      /\ quiet \in [Sandbox -> 0 .. HkPatience - 1]
      /\ claimed \in [Instances -> BOOLEAN]
      /\ pc[i] \notin {"exit", "done"} => polls[i] < MaxPolls
  BY ScriptsAssumption DEF Inv, TypeOK
<1>2. CASE CheckPort(i)
  BY <1>1, <1>2, QuietStep DEF CheckPort, At
<1>3. CASE Poll(i)
  BY <1>1, <1>3, QuietStep DEF Poll, At
<1>4. CASE NotReady(i)
  <2>1. /\ polls' = [polls EXCEPT ![i] = polls[i] + 1]
        /\ pc[i] = "probe"
        /\ IF polls[i] + 1 = MaxPolls THEN GiveUp(i) ELSE Goto(i, "poll")
    BY <1>4 DEF NotReady, NextPoll, LastPoll, At
  <2>2. polls[i] \in 0 .. MaxPolls - 1
    BY <1>1, <2>1
  <2>3. /\ polls' \in [Instances -> 0 .. MaxPolls]
        /\ \A j \in Instances : j # i => polls'[j] = polls[j]
        /\ polls'[i] = polls[i] + 1
    BY <1>1, <2>1, <2>2
  <2>4. pc'[i] \in {"exit", "done"} \/ polls'[i] < MaxPolls
    BY <1>1, <2>1, <2>2, <2>3, GiveUpMoves
  <2> QED
    BY <1>1, <1>4, <2>1, <2>3, <2>4, QuietStep DEF NotReady
<1>5. CASE RunSuite(i)
  BY <1>1, <1>5, QuietStep DEF RunSuite, At
<1>6. CASE Abandon(i)
  BY <1>1, <1>6, QuietStep DEF Abandon
<1>17. CASE Killed(i)
  <2>1. Goto(i, "done") /\ pc[i] # "done"
    BY <1>17 DEF Killed, At
  <2>2. pc'[i] = "done"
    BY <2>1, GotoMoves
  <2> QED
    BY <1>1, <1>17, <2>1, <2>2, QuietStep DEF Killed
<1>7. CASE LocalReady(i)
  <2>1. answeredBy' \in [Instances -> Instances \cup {NoOne}]
    BY <1>1, <1>7 DEF LocalReady, LocalAnswers, Instances
  <2> QED
    BY <1>1, <1>7, <2>1, QuietStep DEF LocalReady, At
<1>8. CASE CheckName(i) \/ Build(i) \/ SandboxReady(i) \/ Setup(i)
  BY <1>1, <1>8, QuietStep DEF CheckName, Build, SandboxReady, Setup, At
<1>9. CASE i \in Sandbox /\ HkReply(i)
  <2>1. answeredBy' \in [Instances -> Instances \cup {NoOne}]
    BY <1>1, <1>9 DEF HkReply, Instances
  <2> QED
    BY <1>1, <1>9, <2>1, QuietStep DEF HkReply, At
<1>16. CASE i \in Sandbox /\ HkQuiet(i)
  <2>1. CASE Longer(i) = HkPatience
    BY <1>1, <1>16, <2>1, QuietStep DEF HkQuiet, At
  <2>2. CASE Longer(i) # HkPatience
    <3>1. quiet' = [quiet EXCEPT ![i] = quiet[i] + 1] /\ quiet[i] + 1 # HkPatience
      BY <1>16, <2>2 DEF HkQuiet, Longer
    <3>2. quiet' \in [Sandbox -> 0 .. HkPatience - 1]
      BY <1>1, <1>16, <3>1, ScriptsAssumption
    <3> QED
      BY <1>16, <2>2, <3>2, OnlyQuietStep DEF HkQuiet
  <2> QED
    BY <2>1, <2>2
<1>10. CASE i \in Local /\ Spawn(i)
  <2>1. pc' \in [Instances -> Steps] /\ pc'[i] = "config" /\ pc[i] = "spawn"
        /\ \A j \in Instances : j # i => pc'[j] = pc[j]
    BY <1>10, GotoMoves DEF Spawn, At
  <2>2. /\ target' \in [Local -> {"none", "starting", "serving", "killed", "gone"}]
        /\ \A j \in Local : j # i => target'[j] = target[j]
    BY <1>10 DEF Spawn, Inv, TypeOK
  <2>3. UNCHANGED <<polls, claimed, container, answeredBy, quiet, name>>
    BY <1>10 DEF Spawn
  <2> QED
    BY <1>10, <2>1, <2>2, <2>3, ScriptsAssumption
       DEF Inv, TypeOK, OwnsItsContainer, Instances
<1>11. CASE i \in Local /\ MakeConfig(i)
  <2>1. pc' \in [Instances -> Steps] /\ pc'[i] = "poll" /\ pc[i] = "config"
        /\ \A j \in Instances : j # i => pc'[j] = pc[j]
    BY <1>11, GotoMoves DEF MakeConfig, At
  <2>2. /\ claimed' \in [Instances -> BOOLEAN]
        /\ \A j \in Instances : j # i => claimed'[j] = claimed[j]
    BY <1>1, <1>11 DEF MakeConfig
  <2>3. UNCHANGED <<polls, target, container, answeredBy, quiet, name>>
    BY <1>11 DEF MakeConfig
  <2>4. i \notin Sandbox
    BY <1>11, ScriptsAssumption
  <2> QED
    BY <2>1, <2>2, <2>3, <2>4 DEF Inv, TypeOK, OwnsItsContainer, Instances
<1>12. CASE i \in Sandbox /\ DockerCreate(i)
  <2>1. CASE container[name[i]] # NoContainer
    BY <1>1, <1>12, <2>1, QuietStep DEF DockerCreate, RunFails, At
  <2>2. CASE container[name[i]] = NoContainer
    <3>1. pc' \in [Instances -> Steps] /\ pc'[i] = "start" /\ pc[i] = "create"
          /\ \A j \in Instances : j # i => pc'[j] = pc[j]
      BY <1>12, <2>2, GotoMoves DEF DockerCreate, At
    <3>2. container' = [container EXCEPT ![name[i]] = [owner |-> i, state |-> "created"]]
      BY <1>12, <2>2 DEF DockerCreate
    <3>3. /\ container' \in [Names -> Containers]
          /\ container'[name[i]].owner = i
          /\ \A n \in Names : n # name[i] => container'[n] = container[n]
      BY <1>12, <3>2 DEF Inv, TypeOK, Containers
    <3>4. UNCHANGED <<polls, claimed, target, answeredBy, quiet, name>>
      BY <1>12 DEF DockerCreate
    <3>5. TypeOK'
      BY <3>1, <3>3, <3>4 DEF Inv, TypeOK, Containers
    <3>6. OwnsItsContainer'
      <4> SUFFICES ASSUME NEW j \in Sandbox,
                          pc'[j] \in {"start", "claim"} \/ (claimed[j] /\ pc'[j] # "done")
                   PROVE  container'[name[j]].owner = j
        BY <3>4 DEF OwnsItsContainer
      <4>1. CASE j = i
        BY <3>3, <4>1
      <4>2. CASE j # i
        <5>1. container[name[j]].owner = j
          BY <3>1, <4>2 DEF Inv, OwnsItsContainer, Instances
        <5>2. name[j] # name[i]
          BY <2>2, <5>1, ScriptsAssumption DEF NoContainer, Instances
        <5> QED
          BY <3>3, <5>1, <5>2 DEF Inv, TypeOK
      <4> QED
        BY <4>1, <4>2
    <3> QED
      BY <3>5, <3>6 DEF Inv
  <2> QED
    BY <2>1, <2>2
<1>13. CASE i \in Sandbox /\ DockerStart(i)
  <2>1. CASE ~PortFree
    BY <1>1, <1>13, <2>1, QuietStep DEF DockerStart, RunFails, At
  <2>2. CASE PortFree
    <3>1. pc' \in [Instances -> Steps] /\ pc'[i] = "claim" /\ pc[i] = "start"
          /\ \A j \in Instances : j # i => pc'[j] = pc[j]
      BY <1>13, <2>2, GotoMoves DEF DockerStart, At
    <3>2. container' = [container EXCEPT ![name[i]].state = "running"]
      BY <1>13, <2>2 DEF DockerStart
    <3>3. container[name[i]].owner = i
      BY <1>13, <3>1 DEF Inv, OwnsItsContainer
    <3>4. container[name[i]] \in [owner : Sandbox, state : {"created", "running", "stopped"}]
      BY <1>13, <3>3, ScriptsAssumption DEF Inv, TypeOK, NoContainer, Instances
    <3>5. /\ container' \in [Names -> Containers]
          /\ \A n \in Names : container'[n].owner = container[n].owner
      BY <1>13, <3>2, <3>4 DEF Inv, TypeOK, Containers
    <3>6. UNCHANGED <<polls, claimed, target, answeredBy, quiet, name>>
      BY <1>13 DEF DockerStart
    <3>7. TypeOK'
      BY <3>1, <3>5, <3>6 DEF Inv, TypeOK, Containers
    <3>8. OwnsItsContainer'
      BY <3>1, <3>3, <3>5, <3>6, NamesAreThere
         DEF Inv, OwnsItsContainer, Instances
    <3> QED
      BY <3>7, <3>8 DEF Inv
  <2> QED
    BY <2>1, <2>2
<1>14. CASE i \in Sandbox /\ Claim(i)
  <2>1. pc' \in [Instances -> Steps] /\ pc'[i] = "poll" /\ pc[i] = "claim"
        /\ \A j \in Instances : j # i => pc'[j] = pc[j]
    BY <1>14, GotoMoves DEF Claim, At
  <2>2. /\ claimed' \in [Instances -> BOOLEAN]
        /\ \A j \in Instances : j # i => claimed'[j] = claimed[j]
    BY <1>1, <1>14 DEF Claim
  <2>3. UNCHANGED <<polls, target, container, answeredBy, quiet, name>>
    BY <1>14 DEF Claim
  <2> QED
    BY <1>14, <2>1, <2>2, <2>3
       DEF Inv, TypeOK, OwnsItsContainer, Instances
<1>15. CASE Cleanup(i)
  <2>1. pc' \in [Instances -> Steps] /\ pc'[i] = "done" /\ pc[i] = "exit"
        /\ \A j \in Instances : j # i => pc'[j] = pc[j]
    BY <1>15, GotoMoves DEF Cleanup, At
  <2>2. UNCHANGED <<polls, claimed, answeredBy, quiet, name>>
    BY <1>15 DEF Cleanup
  <2>3. CASE i \in Local
    <3>1. /\ target' \in [Local -> {"none", "starting", "serving", "killed", "gone"}]
          /\ \A j \in Local : j # i => target'[j] = target[j]
          /\ container' = container
      BY <1>15, <2>3 DEF Cleanup, Inv, TypeOK
    <3> QED
      BY <2>1, <2>2, <2>3, <3>1, ScriptsAssumption
         DEF Inv, TypeOK, OwnsItsContainer, Instances
  <2>4. CASE i \in Sandbox
    <3>1. /\ container' \in {container, [container EXCEPT ![name[i]] = AfterRemove(i)]}
          /\ target' = target
      BY <1>15, <2>4, ScriptsAssumption DEF Cleanup
    <3>2. claimed[i] => container[name[i]].owner = i
      BY <2>1, <2>4 DEF Inv, OwnsItsContainer
    <3>3. /\ container' \in [Names -> Containers]
          /\ \A n \in Names : n # name[i] => container'[n] = container[n]
          /\ ~claimed[i] => container'[name[i]] = container[name[i]]
      BY <2>4, <3>1 DEF AfterRemove, Removes, Inv, TypeOK, Containers
    <3>4. TypeOK'
      BY <2>1, <2>2, <3>1, <3>3 DEF Inv, TypeOK, Containers
    <3>5. OwnsItsContainer'
      <4> SUFFICES ASSUME NEW j \in Sandbox,
                          pc'[j] \in {"start", "claim"} \/ (claimed[j] /\ pc'[j] # "done")
                   PROVE  container'[name[j]].owner = j
        BY <2>2 DEF OwnsItsContainer
      <4>1. j # i /\ container[name[j]].owner = j
        BY <2>1 DEF Inv, OwnsItsContainer, Instances
      <4>2. claimed[i] => name[j] # name[i]
        BY <3>2, <4>1
      <4> QED
        BY <3>3, <4>1, <4>2 DEF Inv, TypeOK
    <3> QED
      BY <3>4, <3>5 DEF Inv
  <2> QED
    BY <2>3, <2>4 DEF Instances
<1> QED
  BY <1>2, <1>3, <1>4, <1>5, <1>6, <1>7, <1>8, <1>9, <1>10, <1>11, <1>12, <1>13, <1>14, <1>15,
     <1>16, <1>17 DEF ScriptNext

LEMMA TargetStepInv ==
    ASSUME Inv, (\E i \in Local : Bind(i) \/ Dies(i)) \/ TargetCrashes
    PROVE  Inv'
<1>1. UNCHANGED <<pc, polls, claimed, answeredBy, quiet, name>>
  BY DEF Bind, Dies, TargetCrashes
<1>2. target' \in [Local -> {"none", "starting", "serving", "killed", "gone"}]
  BY DEF Inv, TypeOK, Bind, Dies, TargetCrashes
<1>3. container' \in [Names -> Containers]
      /\ \A n \in Names : container'[n].owner = container[n].owner
  <2>1. CASE container' = container
    BY <2>1 DEF Inv, TypeOK, Containers
  <2>2. CASE \E n \in Names : /\ container[n].state = "running"
                              /\ container' = [container EXCEPT ![n].state = "stopped"]
    <3>1. PICK n \in Names : /\ container[n].state = "running"
                             /\ container' = [container EXCEPT ![n].state = "stopped"]
      BY <2>2
    <3>2. container[n] \in [owner : Sandbox, state : {"created", "running", "stopped"}]
      BY <3>1 DEF Inv, TypeOK, NoContainer
    <3> QED
      BY <3>1, <3>2 DEF Inv, TypeOK, Containers
  <2> QED
    BY <2>1, <2>2 DEF Bind, Dies, TargetCrashes
<1>4. TypeOK'
  BY <1>1, <1>2, <1>3 DEF Inv, TypeOK, Containers
<1>5. OwnsItsContainer'
  BY <1>1, <1>3, NamesAreThere DEF Inv, OwnsItsContainer
<1> QED
  BY <1>4, <1>5 DEF Inv

LEMMA StepInv == Inv /\ [Next]_vars => Inv'
<1> SUFFICES ASSUME Inv, [Next]_vars PROVE Inv'
  OBVIOUS
<1>1. CASE UNCHANGED vars
  BY <1>1 DEF vars, Inv, TypeOK, OwnsItsContainer
<1> QED
  <2>1. CASE \E i \in Sandbox : HkForeign(i)
    <3>1. PICK i \in Sandbox : quiet' = [quiet EXCEPT ![i] = 0]
      BY <2>1 DEF HkForeign
    <3>2. quiet' \in [Sandbox -> 0 .. HkPatience - 1]
      BY <3>1, ScriptsAssumption DEF Inv, TypeOK
    <3> QED
      BY <2>1, <3>2, OnlyQuietStep DEF HkForeign
  <2> QED
    BY <1>1, <2>1, ScriptStepInv, TargetStepInv DEF Next

-----------------------------------------------------------------------------
(***************************************************************************)
(* Whose answer a sandbox gets.  The port has one owner, a sandbox that    *)
(* waits for telemetry has claimed its container, and it still owns the    *)
(* name: an answer of another instance has another name, and has the port  *)
(* because the container of this one runs no more.                         *)
(***************************************************************************)
OneServes == \A a, b \in Serving : a = b

Waiting == {"poll", "probe", "setup", "hk"}
Late == Waiting \cup {"run", "exit", "done"}

ClaimsInTime ==
    \A i \in Sandbox :
       /\ pc[i] \in Waiting \/ answeredBy[i] \in Sandbox \ {i} => claimed[i]
       /\ claimed[i] => pc[i] \in Late

AnswerInv == OneServes /\ ClaimsInTime /\ SandboxOnOwnTarget

LEMMA InitAnswerInv == Init => AnswerInv
<1> SUFFICES ASSUME Init PROVE AnswerInv
  OBVIOUS
<1>1. Serving = {}
  BY ScriptsAssumption DEF Init, Serving, NoContainer
<1>2. \A i \in Sandbox : pc[i] = "check_port" /\ ~claimed[i] /\ answeredBy[i] \notin Sandbox
  BY ScriptsAssumption DEF Init, Instances
<1> QED
  BY <1>1, <1>2 DEF AnswerInv, OneServes, ClaimsInTime, SandboxOnOwnTarget, Waiting

\* What a step of sandbox i does to its own pc and claim.
LEMMA SandboxMoves ==
    ASSUME Inv, NEW i \in Sandbox, ScriptNext(i) \/ Abandon(i) \/ Killed(i)
    PROVE  /\ pc[i] # "done"
           /\ pc'[i] \in Waiting => pc[i] \in Waiting \/ claimed'[i]
           /\ pc[i] \in Late => pc'[i] \in Late
           /\ claimed[i] => claimed'[i]
           /\ claimed'[i] => claimed[i] \/ pc'[i] \in Late
<1> USE DEF Waiting, Late, Steps
<1>1. i \in Instances /\ i \notin Local
  BY ScriptsAssumption DEF Instances
<1>2. pc[i] \in Steps /\ (GiveUp(i) => pc'[i] \in {"exit", "done"})
  BY <1>1, GiveUpMoves DEF Inv, TypeOK
<1>3. \A s \in Steps : Goto(i, s) => pc'[i] = s
  BY <1>1, GotoMoves
<1>4. CASE CheckPort(i) \/ CheckName(i) \/ Build(i) \/ DockerCreate(i) \/ DockerStart(i)
  BY <1>1, <1>2, <1>3, <1>4 DEF CheckPort, CheckName, Build, DockerCreate, DockerStart, RunFails, At
<1>5. CASE Claim(i)
  <2>1. pc[i] = "claim" /\ pc'[i] = "poll" /\ claimed'[i]
    BY <1>1, <1>3, <1>5 DEF Claim, At, Inv, TypeOK
  <2> QED
    BY <2>1
<1>6. CASE Poll(i) \/ NotReady(i) \/ SandboxReady(i) \/ Setup(i)
  BY <1>1, <1>2, <1>3, <1>6 DEF Poll, NotReady, SandboxReady, Setup, At
<1>7. CASE HkReply(i) \/ HkQuiet(i)
  BY <1>1, <1>2, <1>3, <1>7 DEF HkReply, HkQuiet, At
<1>8. CASE RunSuite(i) \/ Cleanup(i) \/ Abandon(i) \/ Killed(i)
  BY <1>1, <1>2, <1>3, <1>8 DEF RunSuite, Cleanup, Abandon, Killed, At
<1> QED
  BY <1>1, <1>4, <1>5, <1>6, <1>7, <1>8 DEF ScriptNext

LEMMA OthersStay ==
    ASSUME Inv, NEW i \in Instances, ScriptNext(i) \/ Abandon(i) \/ Killed(i), NEW j \in Instances, j # i
    PROVE  pc'[j] = pc[j] /\ claimed'[j] = claimed[j] /\ answeredBy'[j] = answeredBy[j]
<1> USE DEF Steps
<1>1. /\ \A s \in Steps : Goto(i, s) => pc'[j] = pc[j]
      /\ GiveUp(i) => pc'[j] = pc[j]
  BY GotoMoves, GiveUpMoves
<1>2. pc' = pc \/ GiveUp(i) \/ \E s \in Steps : Goto(i, s)
  BY DEF ScriptNext, Abandon, Killed, CheckPort, Poll, NotReady, RunSuite, Cleanup, Spawn, MakeConfig,
     LocalReady, CheckName, Build, DockerCreate, DockerStart, RunFails, Claim, SandboxReady,
     Setup, HkReply, HkQuiet
<1>3. claimed' = claimed \/ claimed' = [claimed EXCEPT ![i] = TRUE]
  BY DEF ScriptNext, Abandon, Killed, CheckPort, Poll, NotReady, RunSuite, Cleanup, Spawn, MakeConfig,
     LocalReady, CheckName, Build, DockerCreate, DockerStart, Claim, SandboxReady, Setup,
     HkReply, HkQuiet
<1>4. answeredBy' = answeredBy \/ \E h \in Serving : answeredBy' = [answeredBy EXCEPT ![i] = h]
  BY DEF ScriptNext, Abandon, Killed, CheckPort, Poll, NotReady, RunSuite, Cleanup, Spawn, MakeConfig,
     LocalReady, LocalAnswers, CheckName, Build, DockerCreate, DockerStart, Claim, SandboxReady,
     Setup, HkReply, HkQuiet
<1> QED
  BY <1>1, <1>2, <1>3, <1>4 DEF Inv, TypeOK

\* The instances whose target serves become fewer, unless the port was free.
LEMMA ServingStep ==
    ASSUME Inv, Next
    PROVE  /\ name' = name
           /\ Serving' \subseteq Serving \/ (Serving = {} /\ \E i \in Instances : Serving' \subseteq {i})
<1>1. CASE UNCHANGED <<name, target, container>>
  BY <1>1 DEF Serving
<1>7. CASE \E i \in Local : Dies(i)
  BY <1>7, ScriptsAssumption DEF Dies, Serving, Inv, TypeOK
<1>2. CASE \E i \in Local : Bind(i)
  <2>1. PICK i \in Local : Bind(i)
    BY <1>2
  <2>2. UNCHANGED <<name, container>> /\ target' = [target EXCEPT ![i] = IF PortFree THEN "serving" ELSE "gone"]
    BY <2>1 DEF Bind
  <2> QED
    BY <2>2 DEF Serving, PortFree, Inv, TypeOK, Instances
<1>3. CASE TargetCrashes
  <2>1. CASE container' = container
    BY <1>3, <2>1 DEF TargetCrashes, Serving, Inv, TypeOK
  <2>2. CASE target' = target
    <3>1. \/ container' = container
          \/ \E n \in Names : container' = [container EXCEPT ![n].state = "stopped"]
      BY <1>3, <2>2 DEF TargetCrashes
    <3>2. \A m \in Names : container'[m] = container[m] \/ container'[m].state = "stopped"
      <4>1. ASSUME NEW n \in Names, container' = [container EXCEPT ![n].state = "stopped"],
                   NEW m \in Names
            PROVE  container'[m] = container[m] \/ container'[m].state = "stopped"
        BY <4>1 DEF Inv, TypeOK, NoContainer
      <4> QED
        BY <3>1, <4>1
    <3>3. \A j \in Sandbox : container'[name[j]] = [owner |-> j, state |-> "running"]
                            => container'[name[j]] = container[name[j]]
      BY <3>2, NamesAreThere
    <3>4. name' = name
      BY <1>3 DEF TargetCrashes
    <3>5. ASSUME NEW j \in Serving' PROVE j \in Serving
      <4>1. CASE j \in Local
        BY <2>2, <3>5, <4>1, ScriptsAssumption DEF Serving
      <4>2. CASE j \in Sandbox
        BY <3>3, <3>4, <3>5, <4>2, ScriptsAssumption DEF Serving
      <4> QED
        BY <4>1, <4>2 DEF Serving
    <3> QED
      BY <3>4, <3>5
  <2> QED
    BY <1>3, <2>1, <2>2 DEF TargetCrashes
<1>4. CASE \E i \in Local : Spawn(i) \/ Cleanup(i)
  BY <1>4, ScriptsAssumption DEF Spawn, Cleanup, Serving, Inv, TypeOK
<1>5. CASE \E i \in Sandbox : DockerCreate(i) \/ Cleanup(i)
  <2>1. PICK i \in Sandbox : DockerCreate(i) \/ Cleanup(i)
    BY <1>5
  <2>2. UNCHANGED <<name, target>>
    BY <2>1, ScriptsAssumption DEF DockerCreate, Cleanup
  <2>3. \A m \in Names : \/ container'[m] = container[m]
                         \/ container'[m] = [owner |-> i, state |-> "created"]
                         \/ container'[m] = NoContainer
    BY <2>1, ScriptsAssumption DEF DockerCreate, Cleanup, AfterRemove, Inv, TypeOK
  <2>4. \A j \in Sandbox : container'[name[j]] = [owner |-> j, state |-> "running"]
                            => container'[name[j]] = container[name[j]]
    BY <2>3, NamesAreThere DEF NoContainer
  <2> QED
    BY <2>2, <2>4 DEF Serving
<1>6. CASE \E i \in Sandbox : DockerStart(i)
  <2>1. PICK i \in Sandbox : DockerStart(i)
    BY <1>6
  <2>2. CASE ~PortFree
    BY <1>1, <2>1, <2>2 DEF DockerStart
  <2>3. CASE PortFree
    <3>1. UNCHANGED <<name, target>> /\ container' = [container EXCEPT ![name[i]].state = "running"]
      BY <2>1, <2>3 DEF DockerStart
    <3>2. container[name[i]].owner = i
      BY <2>1 DEF DockerStart, At, Inv, OwnsItsContainer
    <3>3. \A m \in Names : container'[m] = container[m] \/ container'[m].owner = i
      BY <3>1, <3>2 DEF Inv, TypeOK, NoContainer
    <3>4. \A j \in Sandbox : container'[name[j]] = [owner |-> j, state |-> "running"]
                              => j = i \/ container'[name[j]] = container[name[j]]
      BY <3>3, NamesAreThere
    <3> QED
      BY <2>3, <3>1, <3>4 DEF Serving, PortFree, Instances
  <2> QED
    BY <2>2, <2>3
<1> QED
  <2>1. ASSUME NEW i \in Instances, ScriptNext(i) \/ Abandon(i) \/ Killed(i),
               ~Cleanup(i), ~DockerCreate(i), ~DockerStart(i), ~Spawn(i)
        PROVE  UNCHANGED <<name, target, container>>
    BY <2>1 DEF ScriptNext, Abandon, Killed, CheckPort, Poll, NotReady, RunSuite, MakeConfig, LocalReady,
       CheckName, Build, Claim, SandboxReady, Setup, HkReply, HkQuiet
  <2>2. ASSUME NEW i \in Sandbox, HkForeign(i)
        PROVE  UNCHANGED <<name, target, container>>
    BY <2>2 DEF HkForeign
  <2>3. ASSUME NEW i \in Instances, ScriptNext(i) \/ Abandon(i) \/ Killed(i),
               Cleanup(i) \/ DockerCreate(i) \/ DockerStart(i) \/ Spawn(i),
               ~UNCHANGED <<name, target, container>>
        PROVE  \/ \E j \in Local : Spawn(j) \/ Cleanup(j)
               \/ \E j \in Sandbox : DockerCreate(j) \/ Cleanup(j) \/ DockerStart(j)
    BY <2>3, ScriptsAssumption DEF ScriptNext, Abandon, Killed, CheckPort, Poll, NotReady, RunSuite,
       MakeConfig, LocalReady, CheckName, Build, Claim, SandboxReady, Setup, HkReply, HkQuiet, Instances
  <2> QED
    BY <1>1, <1>2, <1>3, <1>4, <1>5, <1>6, <1>7, <2>1, <2>2, <2>3 DEF Next

LEMMA OnlyStartMakesRunning ==
    ASSUME Inv, Next, NEW m \in Names, container'[m].state = "running", container[m].state # "running"
    PROVE  \E j \in Sandbox : DockerStart(j) /\ name[j] = m
<1>1. container' # container
  OBVIOUS
<1>2. ASSUME \E n \in Names : container' = [container EXCEPT ![n].state = "stopped"] PROVE FALSE
  <2>1. PICK n \in Names : container' = [container EXCEPT ![n].state = "stopped"]
    BY <1>2
  <2>2. container'[m] = container[m] \/ container'[m].state = "stopped"
    BY <2>1 DEF Inv, TypeOK, NoContainer
  <2> QED
    BY <2>2
<1>3. ASSUME NEW i \in Sandbox, Cleanup(i) \/ DockerCreate(i) PROVE FALSE
  <2>1. \/ container'[m] = container[m]
        \/ container'[m] = [owner |-> i, state |-> "created"]
        \/ container'[m] = NoContainer
    BY <1>3, ScriptsAssumption DEF DockerCreate, Cleanup, AfterRemove, Inv, TypeOK
  <2> QED
    BY <2>1 DEF NoContainer
<1>4. PICK j \in Sandbox : DockerStart(j)
  BY <1>1, <1>2, <1>3, ScriptsAssumption
     DEF Next, Bind, Dies, HkForeign, TargetCrashes, ScriptNext, Abandon, Killed, CheckPort, Poll, NotReady,
         RunSuite, Cleanup, Spawn, MakeConfig, LocalReady, CheckName, Build, Claim, SandboxReady,
         Setup, HkReply, HkQuiet, Instances
<1>5. container' = [container EXCEPT ![name[j]].state = "running"]
  BY <1>1, <1>4 DEF DockerStart
<1> QED
  BY <1>1, <1>4, <1>5 DEF Inv, TypeOK

LEMMA OneServesStep == Inv /\ OneServes /\ Next => OneServes'
  BY ServingStep DEF OneServes

LEMMA ClaimsStep == Inv /\ AnswerInv /\ Next => ClaimsInTime'
<1> SUFFICES ASSUME Inv, AnswerInv, Next, NEW j \in Sandbox
             PROVE  /\ pc'[j] \in Waiting \/ answeredBy'[j] \in Sandbox \ {j} => claimed'[j]
                    /\ claimed'[j] => pc'[j] \in Late
  BY DEF ClaimsInTime
<1>1. /\ pc[j] \in Waiting \/ answeredBy[j] \in Sandbox \ {j} => claimed[j]
      /\ claimed[j] => pc[j] \in Late
  BY DEF AnswerInv, ClaimsInTime
<1>2. CASE UNCHANGED <<pc, claimed, answeredBy>>
  BY <1>1, <1>2
<1>3. ASSUME NEW i \in Instances, ScriptNext(i) \/ Abandon(i) \/ Killed(i), i # j
      PROVE  UNCHANGED <<pc[j], claimed[j], answeredBy[j]>>
  BY <1>3, OthersStay DEF Instances
<1>4. CASE ScriptNext(j) \/ Abandon(j) \/ Killed(j)
  <2>1. /\ pc'[j] \in Waiting => pc[j] \in Waiting \/ claimed'[j]
        /\ pc[j] \in Late => pc'[j] \in Late
        /\ claimed[j] => claimed'[j]
        /\ claimed'[j] => claimed[j] \/ pc'[j] \in Late
    BY <1>4, SandboxMoves
  <2>2. answeredBy'[j] = answeredBy[j] \/ pc[j] = "hk"
    BY <1>4, ScriptsAssumption DEF ScriptNext, Abandon, Killed, CheckPort, Poll, NotReady, RunSuite, Cleanup,
       CheckName, Build, DockerCreate, DockerStart, Claim, SandboxReady, Setup, HkReply, HkQuiet, At
  <2> QED
    BY <1>1, <2>1, <2>2 DEF Waiting
<1> QED
  BY <1>1, <1>2, <1>3, <1>4 DEF Next, Bind, Dies, HkForeign, TargetCrashes

LEMMA OwnAnswerStep == Inv /\ AnswerInv /\ Next /\ Inv' /\ ClaimsInTime' => SandboxOnOwnTarget'
<1> SUFFICES ASSUME Inv, AnswerInv, Next, Inv', ClaimsInTime', NEW i \in Sandbox,
                    answeredBy'[i] \in Sandbox \ {i}
             PROVE  /\ name'[answeredBy'[i]] # name'[i]
                    /\ pc'[i] # "done" => container'[name'[i]].owner = i /\ ~ContainerAlive(i)'
  BY DEF SandboxOnOwnTarget
<1>1. name' = name /\ i \in Instances /\ name[i] \in Names
  BY ServingStep, NamesAreThere DEF Instances
<1>2. claimed'[i] /\ (pc'[i] # "done" => container'[name[i]].owner = i)
  BY <1>1 DEF ClaimsInTime, Inv, OwnsItsContainer
<1>3. CASE answeredBy'[i] = answeredBy[i]
  <2>1. /\ name[answeredBy[i]] # name[i]
        /\ claimed[i]
        /\ pc[i] # "done" => container[name[i]].owner = i /\ container[name[i]].state # "running"
    BY <1>3 DEF AnswerInv, ClaimsInTime, SandboxOnOwnTarget, ContainerAlive
  <2>2. ASSUME pc'[i] # "done" PROVE container'[name[i]].state # "running"
    <3>1. pc[i] # "done"
      BY <2>2, OthersStay, SandboxMoves DEF Next, Bind, Dies, HkForeign, TargetCrashes, Instances
    <3>2. ASSUME container'[name[i]].state = "running" PROVE FALSE
      <4>1. PICK j \in Sandbox : DockerStart(j) /\ name[j] = name[i]
        BY <1>1, <2>1, <3>1, <3>2, OnlyStartMakesRunning
      <4>2. pc[j] = "start" /\ container[name[j]].owner = j
        BY <4>1 DEF DockerStart, At, Inv, OwnsItsContainer
      <4>3. pc[i] \in Late
        BY <2>1 DEF AnswerInv, ClaimsInTime
      <4> QED
        BY <2>1, <3>1, <4>1, <4>2, <4>3 DEF Late, Waiting
    <3> QED
      BY <3>2
  <2> QED
    BY <1>1, <1>2, <1>3, <2>1, <2>2 DEF ContainerAlive
<1>4. CASE answeredBy'[i] # answeredBy[i]
  <2>1. HkReply(i)
    BY <1>1, <1>4, OthersStay, ScriptsAssumption
       DEF Next, Bind, Dies, HkForeign, TargetCrashes, ScriptNext, Abandon, Killed, CheckPort, Poll, NotReady,
           RunSuite, Cleanup, CheckName, Build, DockerCreate, DockerStart, Claim, SandboxReady,
           Setup, HkQuiet
  <2>2. PICK h \in Serving \cap Sandbox : answeredBy' = [answeredBy EXCEPT ![i] = h]
    BY <2>1 DEF HkReply
  <2>3. answeredBy'[i] = h /\ h # i
    BY <1>1, <2>2 DEF Inv, TypeOK
  <2>4. container[name[i]].owner = i /\ container' = container
    BY <2>1 DEF HkReply, At, AnswerInv, ClaimsInTime, Waiting, Inv, OwnsItsContainer
  <2>5. container[name[h]] = [owner |-> h, state |-> "running"]
    BY <2>2, ScriptsAssumption DEF Serving
  <2>6. container[name[i]].state # "running"
    <3>1. ASSUME container[name[i]].state = "running" PROVE i \in Serving
      <4>1. container[name[i]] \in [owner : Sandbox, state : {"created", "running", "stopped"}]
        BY <1>1, <3>1 DEF Inv, TypeOK, NoContainer
      <4>2. container[name[i]] = [owner |-> i, state |-> "running"]
        BY <2>4, <3>1, <4>1
      <4> QED
        BY <4>2 DEF Serving
    <3> QED
      BY <2>2, <2>3, <3>1 DEF AnswerInv, OneServes
  <2> QED
    BY <1>1, <2>3, <2>4, <2>5, <2>6 DEF ContainerAlive
<1> QED
  BY <1>3, <1>4

-----------------------------------------------------------------------------
(***************************************************************************)
(* The theorems.                                                           *)
(***************************************************************************)

\* However many scripts race for a name, whatever crashes, whoever is interrupted
\* or killed and whatever is left behind: no exit trap removes a container its
\* script did not create.
THEOREM RemovesOwnOnly == Spec => OnlyOwnContainerRemoved
<1>1. Inv /\ [Next]_vars =>
        [\A i \in Sandbox, n \in Names :
            Cleanup(i) /\ container'[n] # container[n] => container[n].owner = i]_vars
  <2> SUFFICES ASSUME Inv, NEW i \in Sandbox, NEW n \in Names,
                      Cleanup(i), container'[n] # container[n]
               PROVE  container[n].owner = i
    OBVIOUS
  <2>1. /\ container' \in {container, [container EXCEPT ![name[i]] = AfterRemove(i)]}
        /\ pc[i] = "exit"
    BY ScriptsAssumption DEF Cleanup, At
  <2>2. n = name[i] /\ claimed[i]
    BY <2>1 DEF Inv, TypeOK, AfterRemove, Removes
  <2> QED
    BY <2>1, <2>2 DEF Inv, OwnsItsContainer
<1> QED
  BY <1>1, InitInv, StepInv, PTL DEF Spec, OnlyOwnContainerRemoved

\* Every reachable state is one the scripts can be in.
THEOREM TypesAreRight == Spec => []TypeOK
<1>1. Inv => TypeOK
  BY DEF Inv
<1> QED
  BY <1>1, InitInv, StepInv, PTL DEF Spec

\* Whatever names are chosen, and whatever crashes: a sandbox starts its suite on
\* an answer of its own container, or its container has crashed.
THEOREM AnsweredByItsOwn == Spec => []SandboxOnOwnTarget
<1>1. Inv /\ AnswerInv /\ Inv' /\ [Next]_vars => AnswerInv'
  <2> SUFFICES ASSUME Inv, AnswerInv, Inv', [Next]_vars PROVE AnswerInv'
    OBVIOUS
  <2>1. CASE Next
    BY <2>1, OneServesStep, ClaimsStep, OwnAnswerStep DEF AnswerInv
  <2>2. CASE UNCHANGED vars
    BY <2>2 DEF vars, AnswerInv, OneServes, Serving, ClaimsInTime, SandboxOnOwnTarget, ContainerAlive
  <2> QED
    BY <2>1, <2>2
<1>2. AnswerInv => SandboxOnOwnTarget
  BY DEF AnswerInv
<1> QED
  BY <1>1, <1>2, InitInv, StepInv, InitAnswerInv, PTL DEF Spec
=============================================================================
