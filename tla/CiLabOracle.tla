---------------------------- MODULE CiLabOracle -----------------------------
(***************************************************************************)
(* Runner.run (harness/runner.py) judging a suite of NCases cases with the *)
(* CiLabOracle (oracle/ci_lab.py): for each case read the counters, send   *)
(* the case, read the counters again and turn what came back into one      *)
(* verdict.  A reading drains the socket, requests HK telemetry and takes  *)
(* the first datagram the transport lets through.                          *)
(*                                                                         *)
(* Drain, request, receive, send and health check are steps of their own,  *)
(* the network and the target (UdpTransport, Target) move between any two. *)
(***************************************************************************)
EXTENDS Target, CounterDeltas

CONSTANT
    HealthCommand   \* "none", "process" (exits 0 iff the target runs) or
                    \* "inspect" (docker inspect: exits 0 for a stopped one)

ASSUME OracleAssumption ==
    /\ RejectCases \subseteq Cases
    /\ HealthCommand \in {"none", "process", "inspect"}

VARIABLES
    pc,         \* what the harness does next
    phase,      \* which reading of the case: "before" or "after"
    before,     \* the datagram of the reading before the case, or None
    findings    \* the runner's findings so far

oracleVars == <<pc, phase, before, findings>>
vars == <<transportVars, targetVars, oracleVars>>

\* before and after keep the whole datagram; the code keeps its counters.
Finding == [verdict : Verdict,
            error   : {"none", "send", "receive"},
            before  : Datagram \cup {None},
            after   : Datagram \cup {None}]

TypeOK ==
    /\ TransportTypeOK
    /\ TargetTypeOK
    /\ pc \in {"drain", "request", "receive", "send", "health", "finished", "aborted"}
    /\ phase \in {"before", "after"}
    /\ before \in Datagram \cup {None}
    /\ findings \in Seq(Finding)
    /\ Len(findings) <= NCases
    /\ pc \in {"drain", "request", "receive", "send", "health"} => Len(findings) < NCases

Init ==
    /\ TransportInit
    /\ TargetInit
    /\ pc = IF NCases = 0 THEN "finished" ELSE "drain"
    /\ phase = "before"
    /\ before = None
    /\ findings = <<>>

CurrentCase == Len(findings) + 1
Request == [case |-> CurrentCase, step |-> phase]
CasePacket == [case |-> CurrentCase, step |-> "case"]

-----------------------------------------------------------------------------
(***************************************************************************)
(* From two readings to a verdict.                                         *)
(***************************************************************************)

\* Plausible errors: a reading that failed taken for a silent target, one first
\* reading used for the whole suite, a suite one case too long.
ErrorAsHang(error) == IF error = "receive" THEN "hang" ELSE "inconclusive"
OneBaseline(d) ==
    IF findings # <<>> /\ findings[1].before # None THEN findings[1].before ELSE d
PastLastCase == CurrentCase > NCases

ErrorVerdict(error) == "inconclusive"

FirstReading(d) == d

LastCase == CurrentCase = NCases

\* Whether the health command reports the target alive; a command that cannot
\* be run, or does not end in time, reports it dead.
HealthReports ==
    {HealthCommand = "inspect" \/ mode # "dead"}
      \cup (IF "health_error" \in Faults THEN {FALSE} ELSE {})

SilenceVerdict(alive) ==
    IF HealthCommand # "none" /\ ~alive THEN "crash" ELSE "hang"

\* judge returns, the runner files the result and goes on with the next case.
Judged(verdict, error, after) ==
    /\ findings' = Append(findings, [verdict |-> verdict, error |-> error,
                                     before |-> before, after |-> after])
    /\ pc' = IF LastCase THEN "finished" ELSE "drain"
    /\ phase' = "before"
    /\ before' = None

-----------------------------------------------------------------------------
(***************************************************************************)
(* _read_counters, and what judge does with its result.                    *)
(***************************************************************************)
Drain ==
    /\ pc = "drain"
    /\ DrainReply
    /\ UNCHANGED <<targetVars, oracleVars>>

EndDrain ==
    /\ pc = "drain"
    /\ DrainOver
    /\ Latency = "late" => AnswersDone
    /\ pc' = "request"
    /\ UNCHANGED <<transportVars, targetVars, phase, before, findings>>

RequestCounters ==
    /\ pc = "request"
    /\ Send(Request)
    /\ StartReceive
    /\ pc' = "receive"
    /\ UNCHANGED <<downlink, inbox, targetVars, phase, before, findings>>

RequestFails ==
    /\ pc = "request"
    /\ SendFails
    /\ Judged(ErrorVerdict("send"), "send", None)
    /\ UNCHANGED <<downlink, inbox, remaining, targetVars>>

\* The reading before the case is kept, the reading after it is judged.
ReceiveCounters ==
    /\ pc = "receive"
    /\ Receive
    /\ Head(inbox).counters # None
    /\ IF phase = "before"
         THEN /\ before' = FirstReading(Head(inbox))
              /\ pc' = "send"
              /\ UNCHANGED <<phase, findings>>
         ELSE Judged(DeltaVerdict(CurrentCase, before, Head(inbox)), "none", Head(inbox))
    /\ UNCHANGED targetVars

\* parse_hk_counters raises on a reply that is too short; judge and run do not
\* catch it, and the list of findings goes with them.
ReplyTooShort ==
    /\ pc = "receive"
    /\ Receive
    /\ Head(inbox).counters = None
    /\ pc' = "aborted"
    /\ findings' = <<>>
    /\ UNCHANGED <<targetVars, phase, before>>

SkipReply ==
    /\ pc = "receive"
    /\ SkipForeign
    /\ UNCHANGED <<targetVars, oracleVars>>

NoReply ==
    /\ pc = "receive"
    /\ ReceiveTimesOut
    /\ pc' = "health"
    /\ UNCHANGED <<targetVars, phase, before, findings>>

ReadFails ==
    /\ pc = "receive"
    /\ ReceiveFails
    /\ Judged(ErrorVerdict("receive"), "receive", None)
    /\ UNCHANGED targetVars

CheckHealth ==
    /\ pc = "health"
    /\ \E alive \in HealthReports : Judged(SilenceVerdict(alive), "none", None)
    /\ UNCHANGED <<transportVars, targetVars>>

SendCase ==
    /\ pc = "send"
    /\ Send(CasePacket)
    /\ pc' = "drain"
    /\ phase' = "after"
    /\ UNCHANGED <<downlink, inbox, remaining, targetVars, before, findings>>

SendCaseFails ==
    /\ pc = "send"
    /\ SendFails
    /\ Judged(ErrorVerdict("send"), "send", None)
    /\ UNCHANGED <<downlink, inbox, remaining, targetVars>>

OracleNext ==
    \/ Drain \/ EndDrain \/ RequestCounters \/ RequestFails
    \/ ReceiveCounters \/ ReplyTooShort \/ SkipReply \/ NoReply \/ ReadFails
    \/ CheckHealth \/ SendCase \/ SendCaseFails

\* Time passes while receive waits.
TimePasses ==
    /\ pc = "receive"
    /\ Latency = "timely" => Quiescent
    /\ Tick
    /\ UNCHANGED <<targetVars, oracleVars>>

EnvironmentNext == (NetworkNext /\ UNCHANGED targetVars) \/ TargetNext

Next ==
    \/ OracleNext
    \/ TimePasses
    \/ EnvironmentNext /\ UNCHANGED oracleVars

Spec == Init /\ [][Next]_vars

-----------------------------------------------------------------------------
(***************************************************************************)
(* Fairness.  The harness is one thread that never waits but in receive,   *)
(* where the clock runs on; its network and its target owe it nothing.  A  *)
(* drain ends at the first look that finds the socket empty.               *)
(***************************************************************************)
Fairness ==
    /\ WF_vars(OracleNext)
    /\ WF_vars(TimePasses)
    /\ SF_vars(EndDrain)

FairSpec == Spec /\ Fairness

\* Answers that come in time come: without faults the network delivers and a
\* target that is up serves its queue.
TimelySpec == FairSpec /\ WF_vars(EnvironmentNext /\ UNCHANGED oracleVars)

-----------------------------------------------------------------------------
(***************************************************************************)
(* Safety.                                                                 *)
(***************************************************************************)
Judgements == DOMAIN findings

\* A transport error always ends in a finding that carries it, and such a
\* finding never accuses the target, whatever the network and the target do.
ErrorsAreReported ==
    /\ \A k \in Judgements :
          findings[k].error # "none" => findings[k].verdict = "inconclusive"
    /\ lastError # "none" =>
          findings # <<>> /\ findings[Len(findings)].error = lastError

\* The effects that justify a verdict read off the counters.
CauseOf(verdict) ==
    CASE verdict \in {"clean_accept", "unexpected_accept"} -> "accept"
      [] verdict = "clean_reject" -> "reject"
      [] verdict = "safe_drop"    -> "drop"

\* A verdict read off the counters has a cause: the target did that to this
\* case or to one sent before it, however the replies are lost, duplicated,
\* reordered or late.
VerdictHasCause ==
    \A k \in Judgements :
       findings[k].verdict \in CounterVerdict =>
          \E j \in 1 .. k : CauseOf(findings[k].verdict) \in effects[j]

\* The evidence of a finding answers the requests made for that case.
EvidenceIsFresh ==
    \A k \in Judgements :
       /\ findings[k].before # None =>
             findings[k].before.req = [case |-> k, step |-> "before"]
       /\ findings[k].after # None =>
             findings[k].after.req = [case |-> k, step |-> "after"]

\* The campaign as its user sees it: between two cases, with what the target
\* did with those judged so far and the verdicts on them.  A target that is up
\* stays up until the case in hand is judged.
Promise == INSTANCE Campaign WITH
    SeesCounters <- TRUE,
    Unsendable <- {},
    target <- IF CurrentCase \in Cases /\ effects[CurrentCase] # {} THEN "up" ELSE mode,
    deeds <- [k \in Judgements |-> Deed(effects[k])],
    report <- [k \in Judgements |-> findings[k].verdict]

\* Over a network that loses nothing and answers in time, the readings, the
\* drains and the health checks amount to one verdict for each case, the one
\* for what the target really did with it: an accepted case is not filed as a
\* rejected one, nor a handled case as inconclusive.
ImplementsCampaign == Promise!FairSpec

\* With both readings in hand the verdict is the one the case's own effect
\* deserves, and a case that never arrived is inconclusive.
ConclusiveVerdictExact ==
    \A k \in Judgements :
       findings[k].after # None =>
          \/ effects[k] = {} /\ findings[k].verdict = "inconclusive"
          \/ \E e \in effects[k] : effects[k] = {e} /\ findings[k].verdict = Promise!VerdictFor(k, e)

\* No effect is counted for two cases: the suite never reports more accepted
\* (rejected, dropped) packets than the target accepted (rejected, dropped).
NoEffectCountedTwice ==
    \A e \in {"accept", "reject", "drop"} :
       LET reported == {k \in Judgements : findings[k].verdict \in CounterVerdict
                                             /\ CauseOf(findings[k].verdict) = e}
           real == {k \in Cases : e \in effects[k]}
       IN  Cardinality(reported) <= Cardinality(real)

\* The suite ends, with a verdict for every case or by an exception, provided
\* the telemetry leaves the socket empty again and again.
EveryCaseJudged ==
    []<>(inbox = <<>>) =>
       <>(pc = "aborted" \/ (pc = "finished" /\ Len(findings) = NCases))

-----------------------------------------------------------------------------
(***************************************************************************)
(* What the documents say and the code does not keep.                      *)
(***************************************************************************)

\* README: a clean accept is a CommandCounter one higher than before.
AcceptMeansPlusOne ==
    \A k \in Judgements :
       findings[k].verdict = "clean_accept" =>
          findings[k].after.counters.command
             = Successor(findings[k].before.counters.command, ByteMod)

\* ROADMAP: the verdicts observed are retained.
VerdictsAreRetained == [][Len(findings') >= Len(findings)]_vars

\* README: with a health command a crashed target is told from a hung one.
HangIsNotCrash ==
    HealthCommand # "none" =>
       \A k \in Judgements :
          findings[k].verdict = "hang" => \A j \in 1 .. k : "crash" \notin effects[j]
=============================================================================
