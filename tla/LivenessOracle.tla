--------------------------- MODULE LivenessOracle ---------------------------
(***************************************************************************)
(* Runner.run judging a suite with the LivenessOracle (oracle/liveness.py):*)
(* send the case, probe the target, and call it alive when the transport   *)
(* lets any datagram through before the timeout.  The probe is the         *)
(* transport's: drain, send, receive.                                      *)
(***************************************************************************)
EXTENDS Target

CONSTANT HealthCommand  \* as in CiLabOracle

ASSUME OracleAssumption == HealthCommand \in {"none", "process", "inspect"}

VARIABLES
    pc,         \* what the harness does next
    findings    \* the runner's findings so far

oracleVars == <<pc, findings>>
vars == <<transportVars, targetVars, oracleVars>>

\* reply is history: the datagram that made probe return True.
Finding == [verdict : Verdict,
            error   : {"none", "send", "receive"},
            reply   : Datagram \cup {None}]

TypeOK ==
    /\ TransportTypeOK
    /\ TargetTypeOK
    /\ pc \in {"send", "drain", "request", "receive", "health", "finished"}
    /\ findings \in Seq(Finding)
    /\ IF pc = "finished" THEN Len(findings) = NCases ELSE Len(findings) < NCases

Init ==
    /\ TransportInit
    /\ TargetInit
    /\ pc = IF NCases = 0 THEN "finished" ELSE "send"
    /\ findings = <<>>

CurrentCase == Len(findings) + 1
Probe == [case |-> CurrentCase, step |-> "after"]
CasePacket == [case |-> CurrentCase, step |-> "case"]

\* Plausible errors: a failed probe taken for a silent target, a health result
\* not looked at, a health command not used, a suite one case too long.
ErrorAsSilence(error) == IF error = "send" THEN "inconclusive" ELSE "hang"
HealthIgnored(alive) == IF HealthCommand # "none" THEN "crash" ELSE "hang"
HealthUnused(alive) == "hang"
PastLastCase == CurrentCase > NCases

LastCase == CurrentCase = NCases

ErrorVerdict(error) == "inconclusive"

HealthReports ==
    {HealthCommand = "inspect" \/ mode # "dead"}
      \cup (IF "health_error" \in Faults THEN {FALSE} ELSE {})

SilenceVerdict(alive) ==
    IF HealthCommand # "none" /\ ~alive THEN "crash" ELSE "hang"

Judged(verdict, error, reply) ==
    /\ findings' = Append(findings, [verdict |-> verdict, error |-> error, reply |-> reply])
    /\ pc' = IF LastCase THEN "finished" ELSE "send"

-----------------------------------------------------------------------------
SendCase ==
    /\ pc = "send"
    /\ Send(CasePacket)
    /\ pc' = "drain"
    /\ UNCHANGED <<downlink, inbox, remaining, targetVars, findings>>

SendFailsAt(place) ==
    /\ pc = place
    /\ SendFails
    /\ Judged(ErrorVerdict("send"), "send", None)
    /\ UNCHANGED <<downlink, inbox, remaining, targetVars>>

Drain ==
    /\ pc = "drain"
    /\ DrainReply
    /\ UNCHANGED <<targetVars, oracleVars>>

EndDrain ==
    /\ pc = "drain"
    /\ DrainOver
    /\ Latency = "late" => AnswersDone
    /\ pc' = "request"
    /\ UNCHANGED <<transportVars, targetVars, findings>>

SendProbe ==
    /\ pc = "request"
    /\ Send(Probe)
    /\ StartReceive
    /\ pc' = "receive"
    /\ UNCHANGED <<downlink, inbox, targetVars, findings>>

\* Any datagram will do: its content is not looked at.
ProbeAnswered ==
    /\ pc = "receive"
    /\ Receive
    /\ Judged("inconclusive", "none", Head(inbox))
    /\ UNCHANGED targetVars

SkipReply ==
    /\ pc = "receive"
    /\ SkipForeign
    /\ UNCHANGED <<targetVars, oracleVars>>

NoReply ==
    /\ pc = "receive"
    /\ ReceiveTimesOut
    /\ pc' = "health"
    /\ UNCHANGED <<targetVars, findings>>

ProbeFails ==
    /\ pc = "receive"
    /\ ReceiveFails
    /\ Judged(ErrorVerdict("receive"), "receive", None)
    /\ UNCHANGED targetVars

CheckHealth ==
    /\ pc = "health"
    /\ \E alive \in HealthReports : Judged(SilenceVerdict(alive), "none", None)
    /\ UNCHANGED <<transportVars, targetVars>>

OracleNext ==
    \/ SendCase \/ SendFailsAt("send") \/ Drain \/ EndDrain
    \/ SendProbe \/ SendFailsAt("request") \/ ProbeAnswered \/ SkipReply
    \/ NoReply \/ ProbeFails \/ CheckHealth

TimePasses ==
    /\ pc = "receive"
    /\ Latency = "timely" => Quiescent
    /\ Tick
    /\ UNCHANGED <<targetVars, oracleVars>>

EnvironmentNext == (NetworkNext /\ UNCHANGED targetVars) \/ TargetNext

Next ==
    \/ OracleNext
    \/ TimePasses
    \/ EnvironmentNext /\ UNCHANGED oracleVars

Spec == Init /\ [][Next]_vars

\* As for the CiLabOracle.
FairSpec ==
    /\ Spec
    /\ WF_vars(OracleNext)
    /\ WF_vars(TimePasses)
    /\ SF_vars(EndDrain)

TimelySpec == FairSpec /\ WF_vars(EnvironmentNext /\ UNCHANGED oracleVars)

-----------------------------------------------------------------------------
Judgements == DOMAIN findings
Answered == {k \in Judgements : findings[k].reply # None}

\* A transport error ends in a finding that carries it and accuses nobody.
ErrorsAreReported ==
    /\ \A k \in Judgements :
          findings[k].error # "none" => findings[k].verdict = "inconclusive"
    /\ lastError # "none" =>
          findings # <<>> /\ findings[Len(findings)].error = lastError

\* A crash is only reported of a target that died, however late the network
\* is; it did so on this case or an earlier one, or was dead from the start.
CrashIsReal ==
    \A k \in Judgements : findings[k].verdict = "crash" => mode = "dead"

\* Late replies of before a crash can hide it, each of them for one case only:
\* once case c has crashed or hung the target, the oracle has called it alive
\* fewer than c times in all.
MissedCrashesAreBounded ==
    \A c \in Cases :
       effects[c] \cap {"crash", "hang"} # {} => Cardinality(Answered) < c

Promise == INSTANCE Campaign WITH
    RejectCases <- {},
    SeesCounters <- FALSE,
    Unsendable <- {},
    target <- IF CurrentCase \in Cases /\ effects[CurrentCase] # {} THEN "up" ELSE mode,
    deeds <- [k \in Judgements |-> Deed(effects[k])],
    report <- [k \in Judgements |-> findings[k].verdict]

\* Over a network that loses nothing and answers in time the oracle tells a
\* crash, a hang and life apart for every case by what the target really did
\* with it, and nothing more.
ImplementsCampaign == Promise!FairSpec
=============================================================================
