----------------------------- MODULE RunScripts -----------------------------
(***************************************************************************)
(* Several users of one machine start scripts/run-local.sh (Local) and     *)
(* scripts/run-cfs-docker.sh (Sandbox) at the same time.  Each checks that *)
(* UDP port 1234 is free, brings up a target on it (the mock target, or a  *)
(* cFS container), waits until the target is ready, runs the suite, and    *)
(* takes its target down.  The scripts share the port and the names of     *)
(* their containers, and nothing locks either.                             *)
(*                                                                         *)
(* Left out: looking for Python, resolving identifiers and rendering the   *)
(* configuration (they fail or succeed), and the reading of the report.    *)
(***************************************************************************)
EXTENDS Naturals

CONSTANTS
    Local,      \* instances of run-local.sh, all on the default port
    Sandbox,    \* instances of run-cfs-docker.sh
    Names,      \* container names: the script's default, and others
    HkPatience, \* socket timeout of the wait for HK telemetry: 5 seconds
    MaxPolls,   \* polls for readiness: 30 (local) and 60 (sandbox)
    NoOne

Instances == Local \cup Sandbox

ASSUME ScriptsAssumption ==
    /\ Local \cap Sandbox = {}
    /\ MaxPolls \in Nat \ {0}
    /\ HkPatience \in Nat \ {0}
    /\ NoOne \notin Instances

VARIABLES
    name,       \* REENTRY_CONTAINER of each Sandbox instance
    pc,         \* what the script does next
    polls,      \* polls for readiness so far
    claimed,    \* the exit trap will take the target down
    target,     \* the mock target process of a Local instance
    container,  \* the container of that name
    answeredBy, \* history: whose target answered the readiness check
    quiet       \* time since a Sandbox instance that waits for HK had a datagram

vars == <<pc, polls, claimed, target, container, answeredBy, quiet, name>>

NoContainer == [owner |-> NoOne, state |-> "none"]

TypeOK ==
    /\ name \in [Sandbox -> Names]
    /\ pc \in [Instances -> {"check_port", "check_name", "build", "create", "start", "claim",
                             "spawn", "config", "poll", "probe", "setup", "hk", "run",
                             "exit", "done"}]
    /\ polls \in [Instances -> 0 .. MaxPolls]
    /\ claimed \in [Instances -> BOOLEAN]
    /\ target \in [Local -> {"none", "starting", "serving", "killed", "gone"}]
    /\ container \in [Names -> [owner : Sandbox, state : {"created", "running", "stopped"}]
                                 \cup {NoContainer}]
    /\ answeredBy \in [Instances -> Instances \cup {NoOne}]
    /\ quiet \in [Sandbox -> 0 .. HkPatience - 1]
    /\ \A i \in Instances : pc[i] \notin {"exit", "done"} => polls[i] < MaxPolls

Init ==
    /\ name \in [Sandbox -> Names]
    /\ pc = [i \in Instances |-> "check_port"]
    /\ polls = [i \in Instances |-> 0]
    /\ claimed = [i \in Instances |-> FALSE]
    /\ target = [i \in Local |-> "none"]
    /\ container = [n \in Names |-> NoContainer]
    /\ answeredBy = [i \in Instances |-> NoOne]
    /\ quiet = [i \in Sandbox |-> 0]

-----------------------------------------------------------------------------
\* The instances whose target is bound to the port: at most one.  A process that
\* was sent a signal is until it dies of it.
Serving ==
    {i \in Local : target[i] \in {"serving", "killed"}}
      \cup {i \in Sandbox : container[name[i]] = [owner |-> i, state |-> "running"]}

PortFree == Serving = {}

At(i, step) == pc[i] = step
Goto(i, step) == pc' = [pc EXCEPT ![i] = step]

\* A script that gives up goes through its exit trap, if it has set it:
\* run-cfs-docker.sh sets it before it does anything, run-local.sh after it
\* has a target and a configuration file.
TrapSet(i) == i \in Sandbox \/ claimed[i]
GiveUp(i) == Goto(i, IF TrapSet(i) THEN "exit" ELSE "done")

\* Plausible errors: the container is claimed before docker run has created it, a
\* docker run that fails is ignored, a readiness loop without a bound, or one poll
\* too long.
ClaimedAnyway(i) == TRUE
IgnoreFailure(i) == Goto(i, "claim")
SamePoll(i) == polls[i]
PastLastPoll(n) == n > MaxPolls

CheckPort(i) ==
    /\ At(i, "check_port")
    /\ IF ~PortFree THEN GiveUp(i)
       ELSE Goto(i, IF i \in Local THEN "spawn" ELSE "check_name")
    /\ UNCHANGED <<polls, claimed, target, container, answeredBy, quiet, name>>

-----------------------------------------------------------------------------
(***************************************************************************)
(* run-local.sh.                                                           *)
(***************************************************************************)
Spawn(i) ==
    /\ At(i, "spawn")
    /\ target' = [target EXCEPT ![i] = "starting"]
    /\ Goto(i, "config")
    /\ UNCHANGED <<polls, claimed, container, answeredBy, quiet, name>>

MakeConfig(i) ==
    /\ At(i, "config")
    /\ claimed' = [claimed EXCEPT ![i] = TRUE]
    /\ Goto(i, "poll")
    /\ UNCHANGED <<polls, target, container, answeredBy, quiet, name>>

\* kill -0: the process is still there, bound to the port or not.
LocalAlive(i) == target[i] # "gone"

\* Whatever answers HK? on the port is taken for the target; mock targets do.
LocalAnswers == Serving \cap Local

-----------------------------------------------------------------------------
(***************************************************************************)
(* run-cfs-docker.sh.                                                      *)
(***************************************************************************)
CheckName(i) ==
    /\ At(i, "check_name")
    /\ IF container[name[i]] # NoContainer THEN GiveUp(i) ELSE Goto(i, "build")
    /\ UNCHANGED <<polls, claimed, target, container, answeredBy, quiet, name>>

Build(i) ==
    /\ At(i, "build")
    /\ Goto(i, "create")
    /\ UNCHANGED <<polls, claimed, target, container, answeredBy, quiet, name>>

\* A docker run that fails ends the script (set -e).
RunFails(i) == GiveUp(i)

\* docker run: the daemon creates the container, unless the name is taken ...
DockerCreate(i) ==
    /\ At(i, "create")
    /\ IF container[name[i]] = NoContainer
         THEN /\ container' = [container EXCEPT ![name[i]] = [owner |-> i, state |-> "created"]]
              /\ Goto(i, "start")
         ELSE /\ RunFails(i)
              /\ UNCHANGED container
    /\ UNCHANGED <<polls, claimed, target, answeredBy, quiet, name>>

\* ... and starts it, unless the port is taken: the container is left created.
DockerStart(i) ==
    /\ At(i, "start")
    /\ IF PortFree
         THEN /\ container' = [container EXCEPT ![name[i]].state = "running"]
              /\ Goto(i, "claim")
         ELSE /\ RunFails(i)
              /\ UNCHANGED container
    /\ UNCHANGED <<polls, claimed, target, answeredBy, quiet, name>>

Claim(i) ==
    /\ At(i, "claim")
    /\ claimed' = [claimed EXCEPT ![i] = TRUE]
    /\ Goto(i, "poll")
    /\ UNCHANGED <<polls, target, container, answeredBy, quiet, name>>

\* docker inspect and docker exec go by name.
ContainerAlive(i) == container[name[i]].state = "running"

Setup(i) ==
    /\ At(i, "setup")
    /\ IF ContainerAlive(i) THEN Goto(i, "hk") ELSE GiveUp(i)
    /\ UNCHANGED <<polls, claimed, target, container, answeredBy, quiet, name>>

\* The script sends one HK request.  The suite starts once the reply came back ...
HkReply(i) ==
    /\ At(i, "hk")
    /\ \E h \in Serving \cap Sandbox : answeredBy' = [answeredBy EXCEPT ![i] = h]
    /\ Goto(i, "run")
    /\ UNCHANGED <<polls, claimed, target, container, quiet, name>>

\* ... which the script waits for as long as the socket does not time out: each
\* datagram of another sender or stream starts the timeout again.
Longer(i) == quiet[i] + 1

HkQuiet(i) ==
    /\ At(i, "hk")
    /\ IF Longer(i) = HkPatience
         THEN GiveUp(i) /\ UNCHANGED quiet
         ELSE quiet' = [quiet EXCEPT ![i] = Longer(i)] /\ UNCHANGED pc
    /\ UNCHANGED <<polls, claimed, target, container, answeredBy, name>>

HkForeign(i) ==
    /\ At(i, "hk")
    /\ quiet' = [quiet EXCEPT ![i] = 0]
    /\ UNCHANGED <<pc, polls, claimed, target, container, answeredBy, name>>

-----------------------------------------------------------------------------
(***************************************************************************)
(* Both scripts.                                                           *)
(***************************************************************************)
Alive(i) == IF i \in Local THEN LocalAlive(i) ELSE ContainerAlive(i)

Poll(i) ==
    /\ At(i, "poll")
    /\ IF Alive(i) THEN Goto(i, "probe") ELSE GiveUp(i)
    /\ UNCHANGED <<polls, claimed, target, container, answeredBy, quiet, name>>

NextPoll(i) == polls[i] + 1
LastPoll(n) == n = MaxPolls

NotReady(i) ==
    /\ At(i, "probe")
    /\ polls' = [polls EXCEPT ![i] = NextPoll(i)]
    /\ IF LastPoll(NextPoll(i)) THEN GiveUp(i) ELSE Goto(i, "poll")
    /\ UNCHANGED <<claimed, target, container, answeredBy, quiet, name>>

LocalReady(i) ==
    /\ At(i, "probe")
    /\ i \in Local
    /\ \E h \in LocalAnswers : answeredBy' = [answeredBy EXCEPT ![i] = h]
    /\ Goto(i, "run")
    /\ UNCHANGED <<polls, claimed, target, container, quiet, name>>

\* The container's log says that cFE is operational.
SandboxReady(i) ==
    /\ At(i, "probe")
    /\ i \in Sandbox
    /\ Goto(i, "setup")
    /\ UNCHANGED <<polls, claimed, target, container, answeredBy, quiet, name>>

RunSuite(i) ==
    /\ At(i, "run")
    /\ Goto(i, "exit")
    /\ UNCHANGED <<polls, claimed, target, container, answeredBy, quiet, name>>

\* docker rm -f goes by name too.
Removes(i) == claimed[i]
AfterRemove(i) == IF Removes(i) THEN NoContainer ELSE container[name[i]]

\* kill only sends a signal, and a docker rm that fails is ignored (|| true).
Cleanup(i) ==
    /\ At(i, "exit")
    /\ IF i \in Local
         THEN /\ target' = [target EXCEPT ![i] = IF @ = "serving" THEN "killed" ELSE "gone"]
              /\ UNCHANGED container
         ELSE /\ container' \in {container, [container EXCEPT ![name[i]] = AfterRemove(i)]}
              /\ UNCHANGED target
    /\ Goto(i, "done")
    /\ UNCHANGED <<polls, claimed, answeredBy, quiet, name>>

\* A command of the script fails, or its user interrupts it.
Abandon(i) ==
    /\ pc[i] \notin {"exit", "done"}
    /\ GiveUp(i)
    /\ UNCHANGED <<polls, claimed, target, container, answeredBy, quiet, name>>

\* The script is killed outright, or interrupted in its exit trap.
Killed(i) ==
    /\ ~At(i, "done")
    /\ Goto(i, "done")
    /\ UNCHANGED <<polls, claimed, target, container, answeredBy, quiet, name>>

ScriptNext(i) ==
    \/ CheckPort(i) \/ Poll(i) \/ NotReady(i) \/ RunSuite(i) \/ Cleanup(i)
    \/ i \in Local /\ (Spawn(i) \/ MakeConfig(i) \/ LocalReady(i))
    \/ i \in Sandbox /\ (\/ CheckName(i) \/ Build(i) \/ DockerCreate(i) \/ DockerStart(i)
                         \/ Claim(i) \/ SandboxReady(i) \/ Setup(i) \/ HkReply(i) \/ HkQuiet(i))

\* The mock target binds the port, or exits because it is taken.
Bind(i) ==
    /\ target[i] = "starting"
    /\ target' = [target EXCEPT ![i] = IF PortFree THEN "serving" ELSE "gone"]
    /\ UNCHANGED <<pc, polls, claimed, container, answeredBy, quiet, name>>

\* The signal that kill sent arrives.
Dies(i) ==
    /\ target[i] = "killed"
    /\ target' = [target EXCEPT ![i] = "gone"]
    /\ UNCHANGED <<pc, polls, claimed, container, answeredBy, quiet, name>>

\* A target that crashes gives up the port; a container stays there, stopped.
TargetCrashes ==
    /\ \/ /\ \E i \in Local : target[i] = "serving" /\ target' = [target EXCEPT ![i] = "gone"]
          /\ UNCHANGED container
       \/ /\ \E n \in Names :
                /\ container[n].state = "running"
                /\ container' = [container EXCEPT ![n].state = "stopped"]
          /\ UNCHANGED target
    /\ UNCHANGED <<pc, polls, claimed, answeredBy, quiet, name>>

Next ==
    \/ \E i \in Instances : ScriptNext(i) \/ Abandon(i) \/ Killed(i)
    \/ \E i \in Local : Bind(i) \/ Dies(i)
    \/ \E i \in Sandbox : HkForeign(i)
    \/ TargetCrashes

Spec == Init /\ [][Next]_vars

\* A script is a process that keeps running.
FairSpec == Spec /\ \A i \in Instances : WF_vars(ScriptNext(i))

-----------------------------------------------------------------------------
(***************************************************************************)
(* Properties.                                                             *)
(***************************************************************************)

\* The exit trap of one script never removes the container of another, whatever
\* they race for, wherever they are stopped and whatever they have left behind.
OnlyOwnContainerRemoved ==
    [][\A i \in Sandbox, n \in Names :
          Cleanup(i) /\ container'[n] # container[n] => container[n].owner = i]_vars

\* A sandbox starts the suite on an answer of its own container, unless that has
\* crashed since the script looked at it and one of another name has the port.
SandboxOnOwnTarget ==
    \A i \in Sandbox :
       answeredBy[i] \in Sandbox \ {i} =>
          /\ name[answeredBy[i]] # name[i]
          /\ pc[i] # "done" => container[name[i]].owner = i /\ ~ContainerAlive(i)

\* Every script ends: it polls for its target a bounded number of times, and a
\* sandbox then waits for telemetry, provided that what is not for it does not
\* keep coming for ever.
EveryScriptEnds ==
    \A i \in Instances :
       (i \in Sandbox => <>[][~HkForeign(i)]_vars) => <>At(i, "done")
=============================================================================
