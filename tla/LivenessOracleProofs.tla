------------------------- MODULE LivenessOracleProofs -------------------------
(***************************************************************************)
(* Theorems about the LivenessOracle, for every suite and every choice of  *)
(* faults that a theorem does not exclude.                                 *)
(***************************************************************************)
EXTENDS LivenessOracle, TargetProofs, FiniteSetTheorems

-----------------------------------------------------------------------------
(***************************************************************************)
(* Typing.                                                                 *)
(***************************************************************************)
LEMMA PacketsTyped ==
    ASSUME TypeOK, pc # "finished"
    PROVE  Probe \in Message /\ CasePacket \in Message
<1>1. Len(findings) \in Nat /\ Len(findings) < NCases
  BY LenProperties DEF TypeOK
<1>2. CurrentCase \in Cases
  BY <1>1, TransportAssumption DEF CurrentCase, Cases
<1> QED
  BY <1>2 DEF Probe, CasePacket, Message, Step

LEMMA JudgedTyped ==
    ASSUME TypeOK, pc # "finished",
           NEW v \in Verdict, NEW e \in {"none", "send", "receive"},
           NEW r \in Datagram \cup {None},
           Judged(v, e, r)
    PROVE  /\ pc' \in {"send", "finished"}
           /\ findings' \in Seq(Finding)
           /\ IF pc' = "finished" THEN Len(findings') = NCases ELSE Len(findings') < NCases
<1> DEFINE f == [verdict |-> v, error |-> e, reply |-> r]
<1>1. f \in Finding
  BY DEF Finding
<1>2. findings' = Append(findings, f) /\ pc' = IF LastCase THEN "finished" ELSE "send"
  BY DEF Judged
<1>3. findings \in Seq(Finding) /\ Len(findings) < NCases /\ Len(findings) \in Nat
  BY LenProperties DEF TypeOK
<1>4. findings' \in Seq(Finding) /\ Len(findings') = Len(findings) + 1
  BY <1>1, <1>2, <1>3, AppendProperties
<1> QED
  BY <1>2, <1>3, <1>4, TransportAssumption DEF CurrentCase, LastCase

LEMMA OracleStepTyped ==
    ASSUME TypeOK, OracleNext
    PROVE  TypeOK'
<1>1. TargetTypeOK'
  BY DEF TypeOK, TargetTypeOK, OracleNext, SendCase, SendFailsAt, Drain, EndDrain, SendProbe,
         ProbeAnswered, SkipReply, NoReply, ProbeFails, CheckHealth, targetVars
<1>2. CASE SendCase
  <2>1. uplink' \subseteq Message
    BY <1>2, PacketsTyped DEF SendCase, Send, TypeOK, TransportTypeOK
  <2> QED
    BY <1>1, <1>2, <2>1 DEF TypeOK, TransportTypeOK, SendCase, Send
<1>3. CASE SendFailsAt("send") \/ SendFailsAt("request")
  BY <1>1, <1>3, JudgedTyped
     DEF TypeOK, TransportTypeOK, SendFailsAt, SendFails, ErrorVerdict, Verdict
<1>4. CASE Drain
  <2>1. inbox' \in Seq(Datagram)
    BY <1>4, InboxTyped DEF TypeOK, Drain, DrainReply
  <2> QED
    BY <1>1, <1>4, <2>1 DEF TypeOK, TransportTypeOK, Drain, DrainReply, oracleVars
<1>5. CASE EndDrain
  BY <1>1, <1>5 DEF TypeOK, TransportTypeOK, EndDrain, transportVars
<1>6. CASE SendProbe
  <2>1. uplink' \subseteq Message
    BY <1>6, PacketsTyped DEF SendProbe, Send, TypeOK, TransportTypeOK
  <2>2. remaining' \in 0 .. Timeout
    BY <1>6, TransportAssumption DEF SendProbe, StartReceive
  <2> QED
    BY <1>1, <1>6, <2>1, <2>2 DEF TypeOK, TransportTypeOK, SendProbe, Send
<1>7. CASE ProbeAnswered
  <2>1. Head(inbox) \in Datagram /\ inbox' \in Seq(Datagram)
    BY <1>7, InboxTyped DEF TypeOK, ProbeAnswered, Receive
  <2>2. TransportTypeOK'
    BY <1>7, <2>1, TransportAssumption DEF TypeOK, TransportTypeOK, ProbeAnswered, Receive
  <2> QED
    BY <1>1, <1>7, <2>1, <2>2, JudgedTyped DEF TypeOK, ProbeAnswered, Verdict
<1>8. CASE SkipReply
  <2>1. inbox' \in Seq(Datagram)
    BY <1>8, InboxTyped DEF TypeOK, SkipReply, SkipForeign
  <2> QED
    BY <1>1, <1>8, <2>1
       DEF TypeOK, TransportTypeOK, SkipReply, SkipForeign, DeadlineAfterSkip, oracleVars
<1>9. CASE NoReply
  BY <1>1, <1>9 DEF TypeOK, TransportTypeOK, NoReply, ReceiveTimesOut, transportVars
<1>10. CASE ProbeFails
  <2>1. TransportTypeOK'
    BY <1>10, TransportAssumption DEF TypeOK, TransportTypeOK, ProbeFails, ReceiveFails
  <2> QED
    BY <1>1, <1>10, <2>1, JudgedTyped DEF TypeOK, ProbeFails, ErrorVerdict, Verdict
<1>11. CASE CheckHealth
  <2>1. PICK alive \in HealthReports : Judged(SilenceVerdict(alive), "none", None)
    BY <1>11 DEF CheckHealth
  <2>2. SilenceVerdict(alive) \in Verdict
    BY DEF SilenceVerdict, Verdict
  <2> QED
    BY <1>1, <1>11, <2>1, <2>2, JudgedTyped
       DEF TypeOK, TransportTypeOK, CheckHealth, transportVars
<1> QED
  BY <1>2, <1>3, <1>4, <1>5, <1>6, <1>7, <1>8, <1>9, <1>10, <1>11 DEF OracleNext

LEMMA InitTyped == Init => TypeOK
<1> SUFFICES ASSUME Init PROVE TypeOK
  OBVIOUS
<1> QED
  BY NetworkAndTargetInit, TransportAssumption, EmptySeq DEF Init, TypeOK

LEMMA StepTyped == TypeOK /\ [Next]_vars => TypeOK'
<1> SUFFICES ASSUME TypeOK, [Next]_vars PROVE TypeOK'
  OBVIOUS
<1>1. CASE OracleNext
  BY <1>1, OracleStepTyped
<1>2. CASE TimePasses
  <2>1. remaining' \in 0 .. Timeout
    BY <1>2, TransportAssumption DEF TimePasses, Tick, TypeOK, TransportTypeOK
  <2> QED
    BY <1>2, <2>1 DEF TimePasses, Tick, TypeOK, TransportTypeOK, TargetTypeOK, targetVars, oracleVars
<1>3. CASE NetworkNext /\ UNCHANGED targetVars /\ UNCHANGED oracleVars
  BY <1>3, NetworkStepTyped DEF TypeOK, TargetTypeOK, targetVars, oracleVars
<1>4. CASE TargetNext /\ UNCHANGED oracleVars
  BY <1>4, TargetStepTyped DEF TypeOK, oracleVars
<1>5. CASE UNCHANGED vars
  BY <1>5 DEF vars, transportVars, targetVars, oracleVars, TypeOK, TransportTypeOK, TargetTypeOK
<1> QED
  BY <1>1, <1>2, <1>3, <1>4, <1>5 DEF Next, EnvironmentNext

\* Every state of a run is well typed; the suite ends with one finding for each
\* of its cases, whatever happens on the way.
THEOREM LivenessTypeCorrect == Spec => []TypeOK
  BY InitTyped, StepTyped, PTL DEF Spec

-----------------------------------------------------------------------------
(***************************************************************************)
(* Transport errors.                                                       *)
(***************************************************************************)

\* The send and the probe after it leave no error behind unless the step that
\* met it files it.
NoErrorPending == pc \in {"drain", "request", "receive", "health"} => lastError = "none"

ErrorInv == ErrorsAreReported /\ NoErrorPending

\* What Judged does to the findings.
LEMMA JudgedFindings ==
    ASSUME TypeOK, NEW v, NEW e, NEW r, Judged(v, e, r)
    PROVE  /\ Len(findings') = Len(findings) + 1
           /\ \A k \in DOMAIN findings : findings'[k] = findings[k]
           /\ findings'[Len(findings')] = [verdict |-> v, error |-> e, reply |-> r]
           /\ DOMAIN findings' = DOMAIN findings \cup {Len(findings')}
           /\ DOMAIN findings = 1 .. Len(findings)
           /\ Len(findings) \in Nat
           /\ pc' \in {"send", "finished"}
  BY DEF Judged, TypeOK

LEMMA JudgedReports ==
    ASSUME TypeOK, ErrorInv,
           NEW v, NEW e, NEW r, Judged(v, e, r),
           e # "none" => v = "inconclusive",
           lastError' # "none" => lastError' = e
    PROVE  ErrorInv'
<1> DEFINE f == [verdict |-> v, error |-> e, reply |-> r]
<1>1. /\ Len(findings') = Len(findings) + 1 /\ Len(findings) \in Nat
      /\ DOMAIN findings' = DOMAIN findings \cup {Len(findings')}
      /\ \A k \in DOMAIN findings : findings'[k] = findings[k]
      /\ findings'[Len(findings')] = f
      /\ pc' \in {"send", "finished"}
  BY JudgedFindings
<1>2. ASSUME NEW k \in DOMAIN findings', findings'[k].error # "none"
      PROVE  findings'[k].verdict = "inconclusive"
  BY <1>1, <1>2 DEF ErrorInv, ErrorsAreReported, Judgements
<1>3. findings' # <<>>
  BY <1>1
<1> QED
  BY <1>1, <1>2, <1>3 DEF ErrorInv, ErrorsAreReported, NoErrorPending, Judgements

LEMMA InitReports == Init => ErrorInv
  BY DEF Init, TransportInit, ErrorInv, ErrorsAreReported, NoErrorPending, Judgements

LEMMA StepReports == TypeOK /\ ErrorInv /\ [Next]_vars => ErrorInv'
<1> SUFFICES ASSUME TypeOK, ErrorInv, [Next]_vars PROVE ErrorInv'
  OBVIOUS
<1> USE DEF ErrorInv, ErrorsAreReported, NoErrorPending, Judgements
<1>1. CASE SendCase
  BY <1>1 DEF SendCase, Send
<1>2. CASE SendFailsAt("send") \/ SendFailsAt("request")
  BY <1>2, JudgedReports DEF SendFailsAt, SendFails, ErrorVerdict
<1>3. CASE Drain
  BY <1>3 DEF Drain, DrainReply, oracleVars
<1>4. CASE EndDrain
  BY <1>4 DEF EndDrain, transportVars
<1>5. CASE SendProbe
  BY <1>5 DEF SendProbe, Send
<1>6. CASE ProbeAnswered
  BY <1>6, JudgedReports DEF ProbeAnswered, Receive
<1>7. CASE SkipReply
  BY <1>7 DEF SkipReply, SkipForeign, oracleVars
<1>8. CASE NoReply
  BY <1>8 DEF NoReply, ReceiveTimesOut, transportVars
<1>9. CASE ProbeFails
  BY <1>9, JudgedReports DEF ProbeFails, ReceiveFails, ErrorVerdict
<1>10. CASE CheckHealth
  BY <1>10, JudgedReports DEF CheckHealth, transportVars
<1>11. CASE TimePasses
  BY <1>11 DEF TimePasses, Tick, oracleVars
<1>12. CASE EnvironmentNext /\ UNCHANGED oracleVars
  BY <1>12 DEF EnvironmentNext, NetworkNext, LoseMessage, LoseDatagram, DeliverDatagram,
       ForeignDatagram, TargetNext, AnswerHk, HandleCase, Recover, Restart, OthersCommand,
       oracleVars, transportVars
<1>13. CASE UNCHANGED vars
  BY <1>13 DEF vars, transportVars, oracleVars
<1> QED
  BY <1>1, <1>2, <1>3, <1>4, <1>5, <1>6, <1>7, <1>8, <1>9, <1>10, <1>11, <1>12, <1>13
     DEF Next, OracleNext

\* Under every fault an error of the send, or of the probe, is filed with the
\* case it hit, as inconclusive and never as a hang or a crash.
THEOREM LivenessErrorsReported == Spec => []ErrorsAreReported
<1>1. ErrorInv => ErrorsAreReported
  BY DEF ErrorInv
<1> QED
  BY <1>1, LivenessTypeCorrect, InitReports, StepReports, PTL DEF Spec

-----------------------------------------------------------------------------
(***************************************************************************)
(* Crashes.                                                                *)
(***************************************************************************)

\* A dead target stays dead, and the health command can be run.
CrashesShow == Faults \cap {"restart", "health_error"} = {}

LEMMA DeadStaysDead ==
    ASSUME CrashesShow, [Next]_vars, mode = "dead"
    PROVE  mode' = "dead"
  BY DEF CrashesShow, Next, OracleNext, SendCase, SendFailsAt, Drain, EndDrain, SendProbe,
         ProbeAnswered, SkipReply, NoReply, ProbeFails, CheckHealth, TimePasses, EnvironmentNext,
         TargetNext, AnswerHk, HandleCase, Recover, Restart, OthersCommand, targetVars, vars

LEMMA JudgedCrashes ==
    ASSUME TypeOK, CrashIsReal, CrashesShow, [Next]_vars,
           NEW v, NEW e, NEW r, Judged(v, e, r),
           v = "crash" => mode = "dead"
    PROVE  CrashIsReal'
<1>1. /\ DOMAIN findings' = DOMAIN findings \cup {Len(findings')}
      /\ \A k \in DOMAIN findings : findings'[k] = findings[k]
      /\ findings'[Len(findings')] = [verdict |-> v, error |-> e, reply |-> r]
  BY JudgedFindings
<1>2. ASSUME NEW k \in DOMAIN findings', findings'[k].verdict = "crash"
      PROVE  mode = "dead"
  <2>1. CASE k \in DOMAIN findings
    BY <1>1, <1>2, <2>1 DEF CrashIsReal, Judgements
  <2>2. CASE k = Len(findings')
    BY <1>1, <1>2, <2>2
  <2> QED
    BY <1>1, <2>1, <2>2
<1> QED
  BY <1>2, DeadStaysDead DEF CrashIsReal, Judgements

LEMMA StepCrashes == TypeOK /\ CrashIsReal /\ CrashesShow /\ [Next]_vars => CrashIsReal'
<1> SUFFICES ASSUME TypeOK, CrashIsReal, CrashesShow, [Next]_vars PROVE CrashIsReal'
  OBVIOUS
<1>1. CASE findings' = findings
  BY <1>1, DeadStaysDead DEF CrashIsReal, Judgements
<1>2. CASE \/ SendFailsAt("send") \/ SendFailsAt("request")
           \/ ProbeAnswered \/ ProbeFails
  BY <1>2, JudgedCrashes DEF SendFailsAt, ProbeAnswered, ProbeFails, ErrorVerdict
<1>3. CASE CheckHealth
  <2>1. PICK alive \in HealthReports : Judged(SilenceVerdict(alive), "none", None)
    BY <1>3 DEF CheckHealth
  <2>2. SilenceVerdict(alive) = "crash" => mode = "dead"
    BY DEF SilenceVerdict, HealthReports, CrashesShow
  <2> QED
    BY <2>1, <2>2, JudgedCrashes
<1> QED
  BY <1>1, <1>2, <1>3
     DEF Next, OracleNext, SendCase, Drain, EndDrain, SendProbe, SkipReply, NoReply, TimePasses,
         oracleVars, vars

\* However late, lossy or crowded the network is, and whatever answers: a crash
\* is only reported of a target that died.
THEOREM CrashesAreReal == ASSUME CrashesShow PROVE Spec => []CrashIsReal
<1>1. Init => CrashIsReal
  BY DEF Init, CrashIsReal, Judgements
<1>2. TypeOK /\ CrashIsReal /\ [Next]_vars => CrashIsReal'
  BY StepCrashes, CrashesShow
<1> QED
  BY <1>1, <1>2, LivenessTypeCorrect, PTL DEF Spec

-----------------------------------------------------------------------------
(***************************************************************************)
(* Missed crashes.  Where each probe is answered at most once and in its   *)
(* turn, and a target that is down stays down, the replies to probes of    *)
(* before a crash are all that can hide it, each of them once.             *)
(***************************************************************************)
OneAnswerEach ==
    /\ Faults \cap {"duplicate", "reorder", "recover", "restart"} = {}
    /\ FilterReplies

\* How many cases were sent, how many probes.
SentCases == IF pc \in {"send", "finished"} THEN Len(findings) ELSE CurrentCase
SentProbes == IF pc \in {"receive", "health"} THEN CurrentCase ELSE Len(findings)

Queued == {inbox[i] : i \in DOMAIN inbox}
Taken == {findings[k].reply : k \in Answered}

SameProbe(d, x) == d.req # None /\ x.req # None /\ d.req.case = x.req.case

InBounds ==
    /\ \A m \in uplink :
          m.step # "before" /\ m.case <= (IF m.step = "case" THEN SentCases ELSE SentProbes)
    /\ \A d \in downlink \cup Queued \cup Taken : d.req # None => d.req.case <= SentProbes
    /\ \A d \in Taken : d.req # None

\* A probe is on its way, or one reply to it is somewhere.
OneReply ==
    /\ \A d, x \in downlink : SameProbe(d, x) => d = x
    /\ \A i, j \in DOMAIN inbox : SameProbe(inbox[i], inbox[j]) => i = j
    /\ \A k, l \in Answered : SameProbe(findings[k].reply, findings[l].reply) => k = l
    /\ \A d \in downlink, x \in Queued \cup Taken : ~SameProbe(d, x)
    /\ \A d \in Queued, x \in Taken : ~SameProbe(d, x)
    /\ \A m \in uplink, d \in downlink \cup Queued \cup Taken :
          m.step # "case" /\ d.req # None => m.case # d.req.case

Deadly(c) == effects[c] \cap {"crash", "hang"} # {}

\* What is answered was asked before the case that is still to be handled, or
\* that was the last.
AnsweredBefore ==
    \A c \in Cases :
       /\ Deadly(c) => mode # "up"
       /\ Deadly(c) \/ [case |-> c, step |-> "case"] \in uplink =>
             \A d \in downlink \cup Queued \cup Taken : d.req # None => d.req.case < c

MissedInv == InBounds /\ OneReply /\ AnsweredBefore

LEMMA InitMissed == Init => MissedInv
  BY DEF Init, TransportInit, TargetInit, MissedInv, InBounds, OneReply, AnsweredBefore, Deadly,
         Queued, Taken, Answered, Judgements

LEMMA BoundsAreNumbers ==
    ASSUME TypeOK
    PROVE  /\ Len(findings) \in Nat /\ CurrentCase = Len(findings) + 1
           /\ SentCases \in Nat /\ SentProbes \in Nat
           /\ \A m \in uplink : m.case \in Nat /\ m.step \in Step
           /\ DOMAIN inbox = 1 .. Len(inbox) /\ Len(inbox) \in Nat
           /\ DOMAIN findings = 1 .. Len(findings)
           /\ \A d \in downlink \cup Queued \cup Taken : d.req # None => d.req.case \in Nat
<1>1. /\ Len(findings) \in Nat /\ CurrentCase = Len(findings) + 1
      /\ \A m \in uplink : m.case \in Nat /\ m.step \in Step
      /\ DOMAIN inbox = 1 .. Len(inbox) /\ Len(inbox) \in Nat
      /\ DOMAIN findings = 1 .. Len(findings)
  BY TransportAssumption DEF TypeOK, TransportTypeOK, CurrentCase, Message, Cases
<1>2. ASSUME NEW d \in Datagram, d.req # None PROVE d.req.case \in Nat
  BY <1>2, TransportAssumption DEF Datagram, Message, Cases
<1>3. \A i \in DOMAIN inbox : inbox[i] \in Datagram
  BY ElementOfSeq DEF TypeOK, TransportTypeOK
<1>4. \A k \in DOMAIN findings : findings[k] \in Finding
  BY ElementOfSeq DEF TypeOK
<1>5. downlink \cup Queued \cup Taken \subseteq Datagram
  BY <1>3, <1>4 DEF TypeOK, TransportTypeOK, Queued, Taken, Answered, Judgements, Finding
<1> QED
  BY <1>1, <1>2, <1>5 DEF SentCases, SentProbes

LEMMA SameReplies ==
    ASSUME UNCHANGED <<downlink, inbox, findings>>
    PROVE  /\ Queued' = Queued /\ Taken' = Taken /\ Answered' = Answered
           /\ CurrentCase' = CurrentCase
  BY DEF Queued, Taken, Answered, Judgements, CurrentCase

LEMMA TailQueued ==
    ASSUME TypeOK, inbox # <<>>, inbox' = Tail(inbox)
    PROVE  /\ Queued' \subseteq Queued /\ Head(inbox) \in Queued
           /\ OneReply => /\ \A i, j \in DOMAIN inbox' : SameProbe(inbox'[i], inbox'[j]) => i = j
                          /\ \A i \in DOMAIN inbox' : ~SameProbe(inbox'[i], Head(inbox))
<1>1. /\ Len(inbox') = Len(inbox) - 1
      /\ \A i \in 1 .. Len(inbox') : inbox'[i] = inbox[i + 1]
      /\ Head(inbox) = inbox[1]
      /\ Len(inbox) \in Nat \ {0}
      /\ inbox' \in Seq(Datagram)
  BY HeadTailProperties, EmptySeq DEF TypeOK, TransportTypeOK
<1>2. DOMAIN inbox' = 1 .. Len(inbox') /\ DOMAIN inbox = 1 .. Len(inbox)
  BY <1>1 DEF TypeOK, TransportTypeOK
<1>3. ASSUME NEW i \in DOMAIN inbox' PROVE i + 1 \in DOMAIN inbox /\ inbox'[i] = inbox[i + 1] /\ i + 1 # 1
  BY <1>1, <1>2
<1>4. 1 \in DOMAIN inbox
  BY <1>1, <1>2
<1>5. Queued' \subseteq Queued /\ Head(inbox) \in Queued
  BY <1>1, <1>3, <1>4 DEF Queued
<1>6. ASSUME OneReply, NEW i \in DOMAIN inbox', NEW j \in DOMAIN inbox', SameProbe(inbox'[i], inbox'[j])
      PROVE  i = j
  <2>1. i + 1 = j + 1
    BY <1>3, <1>6, Zenon DEF OneReply
  <2> QED
    BY <1>1, <1>2, <2>1
<1>7. ASSUME OneReply, NEW i \in DOMAIN inbox' PROVE ~SameProbe(inbox'[i], Head(inbox))
  BY <1>1, <1>3, <1>4, <1>7 DEF OneReply
<1> QED
  BY <1>5, <1>6, <1>7

\* Steps that take replies away, or none, and send nothing.
LEMMA FewerReplies ==
    ASSUME TypeOK, MissedInv, UNCHANGED <<effects, findings>>,
           mode' = mode, uplink' \subseteq uplink, downlink' \subseteq downlink,
           SentCases <= SentCases', SentProbes <= SentProbes', SentCases' \in Nat, SentProbes' \in Nat,
           Queued' \subseteq Queued,
           \A i, j \in DOMAIN inbox' : SameProbe(inbox'[i], inbox'[j]) => i = j
    PROVE  MissedInv'
<1>1. Taken' = Taken /\ Answered' = Answered
  BY DEF Taken, Answered, Judgements
<1>2. InBounds'
  <2>1. ASSUME NEW m \in uplink'
        PROVE  m.step # "before" /\ m.case <= (IF m.step = "case" THEN SentCases' ELSE SentProbes')
    BY BoundsAreNumbers DEF MissedInv, InBounds
  <2>2. ASSUME NEW d \in downlink' \cup Queued' \cup Taken', d.req # None
        PROVE  d.req.case <= SentProbes'
    BY <1>1, <2>2, BoundsAreNumbers DEF MissedInv, InBounds
  <2> QED
    BY <1>1, <2>1, <2>2 DEF MissedInv, InBounds
<1>3. OneReply'
  BY <1>1 DEF MissedInv, OneReply
<1>4. AnsweredBefore'
  BY <1>1 DEF MissedInv, AnsweredBefore, Deadly
<1> QED
  BY <1>2, <1>3, <1>4 DEF MissedInv

LEMMA MissedAfterSending ==
    ASSUME TypeOK, MissedInv, SendCase \/ SendProbe
    PROVE  MissedInv'
<1>1. /\ UNCHANGED <<downlink, inbox, findings, mode, effects>>
      /\ Queued' = Queued /\ Taken' = Taken /\ Answered' = Answered /\ CurrentCase' = CurrentCase
  BY SameReplies DEF SendCase, SendProbe, targetVars
<1>2. CASE SendCase
  <2>1. /\ uplink' = uplink \cup {CasePacket} /\ SentCases = Len(findings) /\ SentCases' = CurrentCase
        /\ SentProbes = Len(findings) /\ SentProbes' = Len(findings)
    BY <1>1, <1>2 DEF SendCase, Send, SentCases, SentProbes
  <2>2. InBounds'
    BY <1>1, <2>1, BoundsAreNumbers DEF MissedInv, InBounds, CasePacket
  <2>3. OneReply'
    BY <1>1, <2>1 DEF MissedInv, OneReply, CasePacket
  <2>4. ASSUME NEW c \in Cases, [case |-> c, step |-> "case"] = CasePacket,
               NEW d \in downlink \cup Queued \cup Taken, d.req # None
        PROVE  d.req.case < c
    <3>1. c = CurrentCase
      BY <2>4 DEF CasePacket
    <3> QED
      BY <2>1, <2>4, <3>1, BoundsAreNumbers DEF MissedInv, InBounds
  <2>5. AnsweredBefore'
    BY <1>1, <2>1, <2>4 DEF MissedInv, AnsweredBefore, Deadly
  <2> QED
    BY <2>2, <2>3, <2>5 DEF MissedInv
<1>3. CASE SendProbe
  <2>1. /\ uplink' = uplink \cup {Probe} /\ SentCases = CurrentCase /\ SentCases' = CurrentCase
        /\ SentProbes = Len(findings) /\ SentProbes' = CurrentCase
    BY <1>1, <1>3 DEF SendProbe, Send, SentCases, SentProbes
  <2>2. InBounds'
    BY <1>1, <2>1, BoundsAreNumbers DEF MissedInv, InBounds, Probe
  <2>3. ASSUME NEW d \in downlink \cup Queued \cup Taken, d.req # None PROVE Probe.case # d.req.case
    BY <2>1, <2>3, BoundsAreNumbers DEF MissedInv, InBounds, Probe
  <2>4. OneReply'
    BY <1>1, <2>1, <2>3 DEF MissedInv, OneReply
  <2>5. \A c \in Cases : [case |-> c, step |-> "case"] # Probe
    BY DEF Probe
  <2>6. AnsweredBefore'
    BY <1>1, <2>1, <2>5 DEF MissedInv, AnsweredBefore, Deadly
  <2> QED
    BY <2>2, <2>4, <2>6 DEF MissedInv
<1> QED
  BY <1>2, <1>3

\* Steps of the harness that file nothing and send nothing.
LEMMA MissedAfterWaiting ==
    ASSUME TypeOK, MissedInv,
           Drain \/ EndDrain \/ SkipReply \/ NoReply \/ TimePasses \/ UNCHANGED vars
    PROVE  MissedInv'
<1>1. /\ UNCHANGED <<findings, mode, effects, uplink, downlink>>
      /\ CurrentCase' = CurrentCase
  BY DEF Drain, DrainReply, EndDrain, SkipReply, SkipForeign, NoReply, ReceiveTimesOut,
         TimePasses, Tick,
         transportVars, targetVars, oracleVars, vars, CurrentCase
<1>2. /\ SentCases <= SentCases' /\ SentCases' \in Nat
      /\ SentProbes <= SentProbes' /\ SentProbes' \in Nat
  BY <1>1, BoundsAreNumbers
     DEF Drain, EndDrain, SkipReply, NoReply, TimePasses, oracleVars, vars, SentCases, SentProbes
<1>3. CASE inbox' = inbox
  <2>1. Queued' = Queued
    BY <1>3 DEF Queued
  <2>2. \A i, j \in DOMAIN inbox' : SameProbe(inbox'[i], inbox'[j]) => i = j
    BY <1>3 DEF MissedInv, OneReply
  <2> QED
    BY <1>1, <1>2, <2>1, <2>2, FewerReplies
<1>4. CASE inbox # <<>> /\ inbox' = Tail(inbox)
  BY <1>1, <1>2, <1>4, TailQueued, FewerReplies DEF MissedInv
<1> QED
  BY <1>3, <1>4
     DEF Drain, DrainReply, EndDrain, SkipReply, SkipForeign, NoReply, ReceiveTimesOut,
         TimePasses, Tick,
         transportVars, vars

\* A finding with no reply.
LEMMA MissedAfterSilence ==
    ASSUME TypeOK, MissedInv, pc # "finished",
           NEW v, NEW e, Judged(v, e, None),
           UNCHANGED <<uplink, downlink, inbox, mode, effects>>
    PROVE  MissedInv'
<1>1. /\ Len(findings') = Len(findings) + 1
      /\ \A k \in DOMAIN findings : findings'[k] = findings[k]
      /\ findings'[Len(findings')].reply = None
      /\ DOMAIN findings' = DOMAIN findings \cup {Len(findings')}
      /\ pc' \in {"send", "finished"}
  <2> DEFINE f == [verdict |-> v, error |-> e, reply |-> None]
  <2>1. f.reply = None
    OBVIOUS
  <2>2. findings'[Len(findings')] = f
    BY JudgedFindings
  <2> HIDE DEF f
  <2> QED
    BY <2>1, <2>2, JudgedFindings
<1>2. Answered' = Answered
  <2>1. ASSUME NEW k \in DOMAIN findings', findings'[k].reply # None
        PROVE  k \in DOMAIN findings /\ findings[k].reply # None
    BY <1>1, <2>1
  <2>2. ASSUME NEW k \in DOMAIN findings, findings[k].reply # None
        PROVE  k \in DOMAIN findings' /\ findings'[k].reply # None
    BY <1>1, <2>2
  <2> QED
    BY <2>1, <2>2 DEF Answered, Judgements
<1>3. \A k \in Answered : findings'[k] = findings[k]
  BY <1>1 DEF Answered, Judgements
<1>4. Queued' = Queued /\ Taken' = Taken
  BY <1>2, <1>3 DEF Queued, Taken
<1>5. SentCases <= SentCases' /\ SentProbes <= SentProbes' /\ SentCases' \in Nat /\ SentProbes' \in Nat
  BY <1>1, BoundsAreNumbers DEF SentCases, SentProbes
<1>6. InBounds'
  <2>1. ASSUME NEW m \in uplink
        PROVE  m.step # "before" /\ m.case <= (IF m.step = "case" THEN SentCases' ELSE SentProbes')
    BY <1>5, BoundsAreNumbers DEF MissedInv, InBounds
  <2>2. ASSUME NEW d \in downlink \cup Queued \cup Taken, d.req # None
        PROVE  d.req.case <= SentProbes'
    BY <1>5, <2>2, BoundsAreNumbers DEF MissedInv, InBounds
  <2> QED
    BY <1>4, <2>1, <2>2 DEF MissedInv, InBounds
<1>7. OneReply'
  BY <1>2, <1>3, <1>4 DEF MissedInv, OneReply
<1>8. AnsweredBefore'
  BY <1>4 DEF MissedInv, AnsweredBefore, Deadly
<1> QED
  BY <1>6, <1>7, <1>8 DEF MissedInv

\* A finding with the reply at the head of the queue.
LEMMA MissedAfterAnswer ==
    ASSUME TypeOK, MissedInv, OneAnswerEach, ProbeAnswered
    PROVE  MissedInv'
<1> DEFINE d == Head(inbox)
<1>1. /\ inbox # <<>> /\ inbox' = Tail(inbox) /\ d.req # None
      /\ pc = "receive" /\ Judged("inconclusive", "none", d)
      /\ UNCHANGED <<uplink, downlink, mode, effects>>
  BY DEF ProbeAnswered, Receive, Accepts, OneAnswerEach, targetVars
<1>2. /\ Len(findings') = Len(findings) + 1
      /\ \A k \in DOMAIN findings : findings'[k] = findings[k]
      /\ findings'[Len(findings')].reply = d
      /\ DOMAIN findings' = DOMAIN findings \cup {Len(findings')}
      /\ Len(findings') \notin DOMAIN findings
      /\ pc' \in {"send", "finished"}
  <2> DEFINE f == [verdict |-> "inconclusive", error |-> "none", reply |-> d]
  <2>1. f.reply = d
    OBVIOUS
  <2>2. findings'[Len(findings')] = f
    BY <1>1, JudgedFindings
  <2>3. /\ Len(findings') = Len(findings) + 1
        /\ \A k \in DOMAIN findings : findings'[k] = findings[k]
        /\ DOMAIN findings' = DOMAIN findings \cup {Len(findings')}
        /\ pc' \in {"send", "finished"}
    BY <1>1, JudgedFindings
  <2>4. Len(findings) + 1 \notin DOMAIN findings
    BY BoundsAreNumbers
  <2> HIDE DEF f
  <2> QED
    BY <2>1, <2>2, <2>3, <2>4
<1>3. /\ Queued' \subseteq Queued /\ d \in Queued
      /\ \A i, j \in DOMAIN inbox' : SameProbe(inbox'[i], inbox'[j]) => i = j
      /\ \A i \in DOMAIN inbox' : ~SameProbe(inbox'[i], d)
  BY <1>1, TailQueued DEF MissedInv
<1>4. d # None
  BY <1>1, <1>3, InboxTyped, NoneIsNoPacket DEF TypeOK
<1>5. Answered' = Answered \cup {Len(findings')}
  <2>1. ASSUME NEW k \in DOMAIN findings' PROVE findings'[k].reply # None <=> k \in Answered \/ k = Len(findings')
    BY <1>2, <1>4 DEF Answered, Judgements
  <2> QED
    BY <1>2, <2>1 DEF Answered, Judgements
<1>6. \A k \in Answered : findings'[k] = findings[k]
  BY <1>2 DEF Answered, Judgements
<1>7. Taken' = Taken \cup {d}
  BY <1>2, <1>5, <1>6 DEF Taken
<1>8. SentCases' = SentCases /\ SentProbes' = SentProbes
  BY <1>1, <1>2, BoundsAreNumbers DEF SentCases, SentProbes
<1>9. InBounds'
  BY <1>1, <1>3, <1>7, <1>8 DEF MissedInv, InBounds
<1>10. OneReply'
  <2>1. ASSUME NEW k \in Answered', NEW l \in Answered', SameProbe(findings'[k].reply, findings'[l].reply)
        PROVE  k = l
    <3>1. ASSUME NEW n \in Answered PROVE ~SameProbe(d, findings[n].reply) /\ ~SameProbe(findings[n].reply, d)
      BY <1>3 DEF MissedInv, OneReply, Taken, SameProbe
    <3>2. k \in Answered /\ l \in Answered => k = l
      BY <1>6, <2>1 DEF MissedInv, OneReply
    <3> QED
      BY <1>2, <1>5, <1>6, <2>1, <3>1, <3>2
  <2>2. ASSUME NEW x \in downlink' PROVE \A y \in Queued' \cup Taken' : ~SameProbe(x, y)
    BY <1>1, <1>3, <1>7 DEF MissedInv, OneReply
  <2>3. ASSUME NEW x \in Queued', NEW y \in Taken' PROVE ~SameProbe(x, y)
    <3>1. ~SameProbe(x, d)
      BY <1>3, <2>3 DEF Queued
    <3> QED
      BY <1>3, <1>7, <2>3, <3>1 DEF MissedInv, OneReply
  <2>4. ASSUME NEW m \in uplink', NEW x \in downlink' \cup Queued' \cup Taken',
               m.step # "case", x.req # None
        PROVE  m.case # x.req.case
    BY <1>1, <1>3, <1>7, <2>4 DEF MissedInv, OneReply
  <2> QED
    BY <1>1, <1>3, <2>1, <2>2, <2>3, <2>4 DEF MissedInv, OneReply
<1>11. AnsweredBefore'
  BY <1>1, <1>3, <1>7 DEF MissedInv, AnsweredBefore, Deadly
<1> QED
  BY <1>9, <1>10, <1>11 DEF MissedInv

LEMMA MissedAfterNetwork ==
    ASSUME TypeOK, MissedInv, OneAnswerEach, NetworkNext, UNCHANGED <<targetVars, oracleVars>>
    PROVE  MissedInv'
<1>1. /\ UNCHANGED <<findings, mode, effects, pc>>
      /\ SentCases' = SentCases /\ SentProbes' = SentProbes
      /\ Taken' = Taken /\ Answered' = Answered
      /\ SentCases \in Nat /\ SentProbes \in Nat
  BY BoundsAreNumbers
     DEF oracleVars, targetVars, SentCases, SentProbes, CurrentCase, Taken, Answered, Judgements
<1>2. CASE LoseMessage \/ LoseDatagram
  <2>1. inbox' = inbox /\ uplink' \subseteq uplink /\ downlink' \subseteq downlink
    BY <1>2 DEF LoseMessage, LoseDatagram
  <2>2. Queued' = Queued /\ \A i, j \in DOMAIN inbox' : SameProbe(inbox'[i], inbox'[j]) => i = j
    BY <2>1 DEF Queued, MissedInv, OneReply
  <2> QED
    BY <1>1, <2>1, <2>2, FewerReplies
<1>3. CASE ForeignDatagram
  <2>1. PICK c : downlink' = downlink \cup {[req |-> None, counters |-> c]}
    BY <1>3 DEF ForeignDatagram
  <2>2. UNCHANGED <<uplink, inbox>> /\ Queued' = Queued
    BY <1>3 DEF ForeignDatagram, Queued
  <2>3. ASSUME NEW x PROVE /\ ~SameProbe([req |-> None, counters |-> c], x)
                           /\ ~SameProbe(x, [req |-> None, counters |-> c])
    BY DEF SameProbe
  <2>4. InBounds'
    BY <1>1, <2>1, <2>2 DEF MissedInv, InBounds
  <2>5. OneReply'
    BY <1>1, <2>1, <2>2, <2>3 DEF MissedInv, OneReply
  <2>6. \A x \in downlink' : x.req # None => x \in downlink
    BY <2>1
  <2>7. AnsweredBefore'
    BY <1>1, <2>2, <2>6 DEF MissedInv, AnsweredBefore, Deadly
  <2> QED
    BY <2>4, <2>5, <2>7 DEF MissedInv
<1>4. CASE DeliverDatagram
  <2>1. PICK d \in downlink : /\ downlink' = downlink \ {d}
                              /\ inbox' = IF Len(inbox) < InboxCap THEN Append(inbox, d) ELSE inbox
    BY <1>4 DEF DeliverDatagram, AfterArrival, OneAnswerEach
  <2>2. uplink' = uplink
    BY <1>4 DEF DeliverDatagram
  <2>3. CASE inbox' = inbox
    <3>1. Queued' = Queued /\ \A i, j \in DOMAIN inbox' : SameProbe(inbox'[i], inbox'[j]) => i = j
      BY <2>3 DEF Queued, MissedInv, OneReply
    <3> QED
      BY <1>1, <2>1, <2>2, <3>1, FewerReplies
  <2>4. CASE inbox' = Append(inbox, d)
    <3>1. /\ DOMAIN inbox' = DOMAIN inbox \cup {Len(inbox) + 1}
          /\ Len(inbox) + 1 \notin DOMAIN inbox
          /\ \A i \in DOMAIN inbox : inbox'[i] = inbox[i]
          /\ inbox'[Len(inbox) + 1] = d
      BY <2>4 DEF TypeOK, TransportTypeOK
    <3>2. Queued' = Queued \cup {d}
      BY <3>1 DEF Queued
    <3>3. InBounds'
      BY <1>1, <2>1, <2>2, <3>2 DEF MissedInv, InBounds
    <3>4. ASSUME NEW i \in DOMAIN inbox', NEW j \in DOMAIN inbox', SameProbe(inbox'[i], inbox'[j])
          PROVE  i = j
      <4>1. ASSUME NEW n \in DOMAIN inbox PROVE ~SameProbe(d, inbox[n]) /\ ~SameProbe(inbox[n], d)
        BY DEF MissedInv, OneReply, Queued, SameProbe
      <4>2. i \in DOMAIN inbox /\ j \in DOMAIN inbox => i = j
        BY <3>1, <3>4 DEF MissedInv, OneReply
      <4> QED
        BY <3>1, <3>4, <4>1, <4>2
    <3>5. ASSUME NEW x \in downlink' PROVE ~SameProbe(x, d)
      BY <2>1 DEF MissedInv, OneReply
    <3>6. ASSUME NEW x \in Taken PROVE ~SameProbe(d, x)
      BY DEF MissedInv, OneReply
    <3>7. OneReply'
      BY <1>1, <2>1, <2>2, <3>2, <3>4, <3>5, <3>6 DEF MissedInv, OneReply
    <3>8. AnsweredBefore'
      BY <1>1, <2>1, <2>2, <3>2 DEF MissedInv, AnsweredBefore, Deadly
    <3> QED
      BY <3>3, <3>7, <3>8 DEF MissedInv
  <2> QED
    BY <2>1, <2>3, <2>4
<1> QED
  BY <1>2, <1>3, <1>4 DEF NetworkNext

LEMMA MissedAfterTarget ==
    ASSUME TypeOK, MissedInv, OneAnswerEach, TargetNext, UNCHANGED oracleVars
    PROVE  MissedInv'
<1>1. /\ UNCHANGED <<findings, pc, inbox>>
      /\ SentCases' = SentCases /\ SentProbes' = SentProbes
      /\ Taken' = Taken /\ Answered' = Answered /\ Queued' = Queued
      /\ SentCases \in Nat /\ SentProbes \in Nat
  BY BoundsAreNumbers
     DEF TargetNext, AnswerHk, HandleCase, Recover, Restart, OthersCommand, transportVars,
         oracleVars, SentCases, SentProbes, CurrentCase, Taken, Answered, Judgements, Queued
<1>2. CASE AnswerHk
  <2>1. PICK m \in uplink, c \in {counters, None} :
          /\ NextUp(m) /\ m.step # "case" /\ uplink' = uplink \ {m}
          /\ downlink' = downlink \cup {[req |-> m, counters |-> c]}
    BY <1>2 DEF AnswerHk, AfterArrival, OneAnswerEach
  <2> DEFINE d == [req |-> m, counters |-> c]
  <2>2. mode = "up" /\ UNCHANGED <<mode, effects>>
    BY <1>2 DEF AnswerHk, targetVars
  <2>3. m # None /\ d.req = m /\ m.step = "after" /\ m.case \in Nat
    BY <2>1, NoneIsNoPacket, BoundsAreNumbers DEF TypeOK, TransportTypeOK, MissedInv, InBounds, Step
  <2>4. InBounds'
    BY <1>1, <2>1, <2>3 DEF MissedInv, InBounds
  <2>5. ASSUME NEW x \in downlink \cup Queued \cup Taken PROVE ~SameProbe(d, x) /\ ~SameProbe(x, d)
    BY <2>1, <2>3 DEF MissedInv, OneReply, SameProbe
  <2>6. ASSUME NEW n \in uplink', n.step # "case" PROVE n.case # m.case
    <3>1. n.step = "after" /\ n \in Message /\ m \in Message
      BY <2>1, <2>6, BoundsAreNumbers DEF TypeOK, TransportTypeOK, MissedInv, InBounds, Step
    <3> QED
      BY <2>1, <2>3, <3>1 DEF Message
  <2>7. OneReply'
    BY <1>1, <2>1, <2>3, <2>5, <2>6 DEF MissedInv, OneReply
  <2>8. ASSUME NEW c2 \in Cases, [case |-> c2, step |-> "case"] \in uplink PROVE m.case < c2
    <3>1. ~SentBefore([case |-> c2, step |-> "case"], m)
      BY <2>1, <2>8 DEF NextUp, OneAnswerEach
    <3> QED
      BY <2>3, <3>1, TransportAssumption DEF SentBefore, Rank, Cases
  <2>9. AnsweredBefore'
    BY <1>1, <2>1, <2>2, <2>3, <2>8 DEF MissedInv, AnsweredBefore, Deadly
  <2> QED
    BY <2>4, <2>7, <2>9 DEF MissedInv
<1>3. CASE HandleCase
  <2>1. PICK m \in uplink, e \in Effect :
          /\ m.step = "case" /\ uplink' = uplink \ {m} /\ mode' = ModeAfter(e)
          /\ effects' = [effects EXCEPT ![m.case] = @ \cup {e}]
    BY <1>3 DEF HandleCase, AfterArrival, OneAnswerEach
  <2>2. mode = "up" /\ downlink' = downlink
    BY <1>3 DEF HandleCase
  <2>3. InBounds' /\ OneReply'
    BY <1>1, <2>1, <2>2 DEF MissedInv, InBounds, OneReply
  <2>4. m.case \in Cases /\ m = [case |-> m.case, step |-> "case"]
    BY <2>1 DEF TypeOK, TransportTypeOK, Message
  <2>5. ASSUME NEW c \in Cases, Deadly(c)' PROVE c = m.case /\ mode' # "up"
    <3>1. ~Deadly(c)
      BY <2>2 DEF MissedInv, AnsweredBefore
    <3>2. c = m.case /\ effects'[c] = effects[c] \cup {e}
      BY <2>1, <2>4, <2>5, <3>1 DEF Deadly, TypeOK, TargetTypeOK
    <3>3. e \in {"crash", "hang"}
      BY <2>5, <3>1, <3>2 DEF Deadly
    <3> QED
      BY <2>1, <3>2, <3>3 DEF ModeAfter
  <2>6. AnsweredBefore'
    BY <1>1, <2>1, <2>2, <2>4, <2>5 DEF MissedInv, AnsweredBefore
  <2> QED
    BY <2>3, <2>6 DEF MissedInv
<1>4. CASE OthersCommand
  <2>1. UNCHANGED <<uplink, downlink, mode, effects>>
    BY <1>4 DEF OthersCommand, transportVars
  <2> QED
    BY <1>1, <2>1 DEF MissedInv, InBounds, OneReply, AnsweredBefore, Deadly
<1> QED
  BY <1>2, <1>3, <1>4 DEF TargetNext, Recover, Restart, OneAnswerEach

LEMMA StepMissed == TypeOK /\ MissedInv /\ OneAnswerEach /\ [Next]_vars => MissedInv'
<1> SUFFICES ASSUME TypeOK, MissedInv, OneAnswerEach, [Next]_vars PROVE MissedInv'
  OBVIOUS
<1>1. CASE SendCase \/ SendProbe
  BY <1>1, MissedAfterSending
<1>2. CASE Drain \/ EndDrain \/ SkipReply \/ NoReply \/ TimePasses \/ UNCHANGED vars
  BY <1>2, MissedAfterWaiting
<1>3. CASE ProbeAnswered
  BY <1>3, MissedAfterAnswer
<1>4. CASE SendFailsAt("send") \/ SendFailsAt("request") \/ ProbeFails
  <2>1. /\ pc # "finished" /\ \E v, e : Judged(v, e, None)
        /\ UNCHANGED <<uplink, downlink, inbox, mode, effects>>
    BY <1>4 DEF SendFailsAt, SendFails, ProbeFails, ReceiveFails, targetVars
  <2> QED
    BY <2>1, MissedAfterSilence
<1>5. CASE CheckHealth
  <2>1. /\ pc # "finished" /\ \E v, e : Judged(v, e, None)
        /\ UNCHANGED <<uplink, downlink, inbox, mode, effects>>
    BY <1>5 DEF CheckHealth, transportVars, targetVars
  <2> QED
    BY <2>1, MissedAfterSilence
<1>6. CASE NetworkNext /\ UNCHANGED targetVars /\ UNCHANGED oracleVars
  BY <1>6, MissedAfterNetwork
<1>7. CASE TargetNext /\ UNCHANGED oracleVars
  BY <1>7, MissedAfterTarget
<1> QED
  BY <1>1, <1>2, <1>3, <1>4, <1>5, <1>6, <1>7 DEF Next, OracleNext, EnvironmentNext

\* The probes that were answered are all of before the case that took the target
\* down, and each is counted once.
LEMMA FewAnswered ==
    ASSUME TypeOK, MissedInv
    PROVE  MissedCrashesAreBounded
<1> SUFFICES ASSUME NEW c \in Cases, Deadly(c) PROVE Cardinality(Answered) < c
  BY DEF MissedCrashesAreBounded, Deadly
<1> DEFINE asked == [k \in Answered |-> findings[k].reply.req.case]
<1>1. c \in Nat /\ c >= 1
  BY TransportAssumption DEF Cases
<1>2. ASSUME NEW k \in Answered
      PROVE  findings[k].reply.req # None /\ asked[k] \in 1 .. c - 1
  <2>1. findings[k].reply \in Taken
    BY DEF Taken
  <2>2. findings[k].reply.req # None
    BY <2>1 DEF MissedInv, InBounds
  <2>3. findings[k] \in Finding /\ findings[k].reply # None
    BY ElementOfSeq DEF TypeOK, Answered, Judgements
  <2>4. asked[k] \in Cases
    BY <2>2, <2>3 DEF Finding, Datagram, Message
  <2>5. asked[k] < c
    BY <2>1, <2>2 DEF MissedInv, AnsweredBefore
  <2> QED
    BY <1>1, <2>2, <2>4, <2>5, TransportAssumption DEF Cases
<1>3. asked \in Injection(Answered, 1 .. c - 1)
  <2>1. asked \in [Answered -> 1 .. c - 1]
    BY <1>2
  <2>2. ASSUME NEW k \in Answered, NEW l \in Answered, asked[k] = asked[l] PROVE k = l
    BY <1>2, <2>2 DEF MissedInv, OneReply, SameProbe
  <2> QED
    BY <2>1, <2>2 DEF Injection, IsInjective
<1>4. IsFiniteSet(1 .. c - 1) /\ Cardinality(1 .. c - 1) = c - 1
  BY <1>1, FS_Interval
<1>5. Cardinality(Answered) <= c - 1 /\ IsFiniteSet(Answered)
  <2> HIDE DEF asked
  <2> QED
    BY <1>3, <1>4, FS_Injection
<1>6. Cardinality(Answered) \in Nat
  BY <1>5, FS_CardinalityType
<1> QED
  BY <1>1, <1>5, <1>6

\* Late replies can hide a crash, each of them for one case: however many there
\* are, and lost or late as they may be, the oracle has called the target alive
\* fewer times than the number of the case that took it down.
THEOREM MissedCrashesBounded == ASSUME OneAnswerEach PROVE Spec => []MissedCrashesAreBounded
<1>1. TypeOK /\ MissedInv => MissedCrashesAreBounded
  BY FewAnswered
<1>2. TypeOK /\ MissedInv /\ [Next]_vars => MissedInv'
  BY StepMissed, OneAnswerEach
<1> QED
  BY <1>1, <1>2, InitMissed, LivenessTypeCorrect, PTL DEF Spec

-----------------------------------------------------------------------------
(***************************************************************************)
(* The campaign.  Over a network that loses nothing and answers in time,   *)
(* every step of a run is a step of Campaign or none.  The invariant says, *)
(* for every place in judge, what is still on its way and what the target  *)
(* has done with the case.                                                 *)
(***************************************************************************)
Lossless == Faults = {} /\ Latency = "timely"

Harmless == {"accept", "reject", "drop", "ignore"}

Quiet == downlink = {} /\ inbox = <<>>

\* The case is still to be handled, was handled, killed the target, or never
\* reached it.
ToHandle == mode = "up" /\ effects[CurrentCase] = {}
Handled == mode = "up" /\ \E e \in Harmless : effects[CurrentCase] = {e}
Down ==
    /\ mode # "up"
    /\ \/ effects[CurrentCase] = {}
       \/ \E e \in Effect \ Harmless : effects[CurrentCase] = {e} /\ mode = ModeAfter(e)

Untouched == \A j \in Cases : j > CurrentCase => effects[j] = {}

BetweenCases ==
    /\ Quiet
    /\ mode = "up" => uplink = {}
    /\ CurrentCase \in Cases => effects[CurrentCase] = {}

CaseSent ==
    /\ Quiet
    /\ \/ Down
       \/ ToHandle /\ uplink = {CasePacket}
       \/ Handled /\ uplink = {}

AnswerOnItsWay ==
    \E d \in Datagram :
       /\ d.req = Probe
       /\ \/ downlink = {d} /\ inbox = <<>>
          \/ downlink = {} /\ inbox = <<d>>

ProbeOut ==
    \/ Quiet /\ Down
    \/ remaining > 0 /\ Quiet /\ ToHandle /\ uplink = {CasePacket, Probe}
    \/ remaining > 0 /\ Quiet /\ Handled /\ uplink = {Probe}
    \/ remaining > 0 /\ AnswerOnItsWay /\ Handled /\ uplink = {}

Stage ==
    /\ pc \in {"send", "finished"} => BetweenCases
    /\ pc \in {"drain", "request"} => CaseSent
    /\ pc = "receive" => ProbeOut
    /\ pc = "health" => Quiet /\ Down

StageInv == Untouched /\ Stage

LEMMA InitStage == Init => StageInv
<1> SUFFICES ASSUME Init PROVE StageInv
  OBVIOUS
<1>1. Untouched
  BY DEF Init, TargetInit, Untouched
<1>2. BetweenCases /\ pc \in {"send", "finished"}
  BY DEF Init, TargetInit, TransportInit, BetweenCases, Quiet
<1> QED
  BY <1>1, <1>2 DEF StageInv, Stage

\* A judged case leaves everything as the next one needs to find it.
LEMMA JudgedStage ==
    ASSUME TypeOK, StageInv, pc # "finished",
           NEW v, NEW e, NEW r, Judged(v, e, r),
           UNCHANGED <<mode, effects, uplink>>, Quiet', mode = "up" => uplink = {}
    PROVE  StageInv'
<1>1. CurrentCase' = CurrentCase + 1 /\ CurrentCase \in Nat /\ pc' \in {"send", "finished"}
  <2>1. Len(findings') = Len(findings) + 1 /\ Len(findings) \in Nat /\ pc' \in {"send", "finished"}
    BY JudgedFindings
  <2> QED
    BY <2>1 DEF CurrentCase
<1>2. Untouched'
  BY <1>1 DEF StageInv, Untouched, Cases
<1>3. CurrentCase' \in Cases => effects'[CurrentCase'] = {}
  BY <1>1 DEF StageInv, Untouched, Cases
<1> QED
  BY <1>1, <1>2, <1>3 DEF StageInv, Stage, BetweenCases

LEMMA TheCaseIsACase ==
    ASSUME TypeOK, pc # "finished"
    PROVE  CurrentCase \in Cases /\ CasePacket # Probe /\ CasePacket.case = CurrentCase
<1>1. Len(findings) \in Nat /\ Len(findings) < NCases
  BY LenProperties DEF TypeOK
<1> QED
  BY <1>1, TransportAssumption DEF CurrentCase, Cases, CasePacket, Probe

\* Only the case in hand is ever to be handled.
LEMMA HandledInTurn ==
    ASSUME TypeOK, StageInv, Lossless, HandleCase
    PROVE  /\ pc \in {"drain", "request", "receive"}
           /\ ToHandle /\ Quiet
           /\ \E e \in Effect : /\ mode' = ModeAfter(e)
                               /\ effects' = [effects EXCEPT ![CurrentCase] = {e}]
           /\ uplink' = uplink \ {CasePacket}
<1>1. PICK m \in uplink, e \in Effect :
        /\ m.step = "case"
        /\ uplink' \in AfterArrival(m, uplink)
        /\ mode' = ModeAfter(e)
        /\ effects' = [effects EXCEPT ![m.case] = @ \cup {e}]
        /\ mode = "up"
  BY DEF HandleCase
<1>2. uplink' = uplink \ {m}
  BY <1>1 DEF AfterArrival, Lossless
<1>3. Probe.step = "after" /\ CasePacket.case = CurrentCase
  BY DEF Probe, CasePacket
<1>4. /\ pc \in {"drain", "request", "receive"} /\ m = CasePacket /\ ToHandle /\ Quiet
  <2>1. CASE pc \in {"send", "finished"}
    BY <1>1, <2>1 DEF StageInv, Stage, BetweenCases
  <2>2. CASE pc \in {"drain", "request"}
    BY <1>1, <2>2 DEF StageInv, Stage, CaseSent, Down
  <2>3. CASE pc = "receive"
    BY <1>1, <1>3, <2>3 DEF StageInv, Stage, ProbeOut, Down
  <2>4. CASE pc = "health"
    BY <1>1, <2>4 DEF StageInv, Stage, Down
  <2> QED
    BY <2>1, <2>2, <2>3, <2>4 DEF TypeOK
<1>5. effects' = [effects EXCEPT ![CurrentCase] = {e}]
  BY <1>1, <1>3, <1>4 DEF ToHandle
<1> QED
  BY <1>1, <1>2, <1>4, <1>5

LEMMA StageAfterHandling ==
    ASSUME TypeOK, StageInv, Lossless, HandleCase, UNCHANGED oracleVars
    PROVE  StageInv'
<1>1. PICK e \in Effect : /\ mode' = ModeAfter(e)
                         /\ effects' = [effects EXCEPT ![CurrentCase] = {e}]
  BY HandledInTurn
<1>2. /\ pc \in {"drain", "request", "receive"} /\ ToHandle /\ Quiet
      /\ uplink' = uplink \ {CasePacket}
  BY HandledInTurn
<1>3. /\ CurrentCase \in Cases /\ CasePacket # Probe
      /\ CurrentCase' = CurrentCase /\ CasePacket' = CasePacket /\ Probe' = Probe
      /\ pc' = pc /\ remaining' = remaining /\ downlink' = downlink /\ inbox' = inbox
  BY <1>2, TheCaseIsACase DEF HandleCase, oracleVars, CurrentCase, CasePacket, Probe
<1>4. effects' \in [Cases -> SUBSET Effect] /\ effects'[CurrentCase] = {e}
  BY <1>1, <1>3 DEF TypeOK, TargetTypeOK
<1>5. CASE e \in Harmless
  <2>1. Handled'
    BY <1>1, <1>2, <1>3, <1>4, <1>5 DEF Handled, Harmless, ModeAfter, ToHandle
  <2> QED
    BY <1>1, <1>2, <1>3, <2>1
       DEF StageInv, Stage, CaseSent, ProbeOut, AnswerOnItsWay, Quiet, Down, Handled, ToHandle,
           Untouched
<1>6. CASE e \notin Harmless
  <2>1. Down'
    BY <1>1, <1>3, <1>4, <1>6 DEF Down, Harmless, ModeAfter, Effect
  <2> QED
    BY <1>1, <1>2, <1>3, <2>1
       DEF StageInv, Stage, CaseSent, ProbeOut, Quiet, Untouched
<1> QED
  BY <1>5, <1>6

LEMMA StageAfterAnswer ==
    ASSUME TypeOK, StageInv, Lossless, AnswerHk, UNCHANGED oracleVars
    PROVE  StageInv'
<1>1. PICK m \in uplink :
        /\ NextUp(m) /\ m.step # "case" /\ mode = "up"
        /\ uplink' \in AfterArrival(m, uplink)
        /\ \E c \in {counters} \cup (IF "malformed" \in Faults THEN {None} ELSE {}) :
              downlink' = downlink \cup {[req |-> m, counters |-> c]}
  BY DEF AnswerHk
<1> DEFINE d == [req |-> m, counters |-> counters]
<1>2. uplink' = uplink \ {m} /\ downlink' = downlink \cup {d}
  BY <1>1 DEF AfterArrival, Lossless
<1>3. CasePacket.step = "case" /\ CasePacket.case = CurrentCase /\ Probe.case = CurrentCase
      /\ Probe.step = "after"
  BY DEF CasePacket, Probe
<1>4. pc = "receive" /\ m = Probe /\ Handled /\ Quiet /\ uplink = {Probe} /\ remaining > 0
  <2>1. CASE pc \in {"send", "finished"}
    BY <1>1, <2>1 DEF StageInv, Stage, BetweenCases
  <2>2. CASE pc \in {"drain", "request"}
    BY <1>1, <1>3, <2>2 DEF StageInv, Stage, CaseSent, Down
  <2>3. CASE pc = "receive"
    <3>1. CASE uplink = {CasePacket, Probe}
      <4>1. SentBefore(CasePacket, Probe)
        BY <1>3 DEF SentBefore, Rank
      <4>2. m = Probe
        BY <1>1, <1>3, <3>1
      <4> QED
        BY <1>1, <3>1, <4>1, <4>2 DEF NextUp, Lossless
    <3> QED
      BY <1>1, <2>3, <3>1 DEF StageInv, Stage, ProbeOut, Down
  <2>4. CASE pc = "health"
    BY <1>1, <2>4 DEF StageInv, Stage, Down
  <2> QED
    BY <2>1, <2>2, <2>3, <2>4 DEF TypeOK
<1>5. d \in Datagram
  BY AnswerTyped DEF TypeOK
<1>6. /\ Probe' = Probe /\ CurrentCase' = CurrentCase /\ pc' = pc
      /\ UNCHANGED <<inbox, mode, effects, remaining>>
  BY DEF AnswerHk, oracleVars, targetVars, Probe, CurrentCase
<1>7. AnswerOnItsWay'
  <2>1. d.req = Probe /\ downlink' = {d} /\ inbox' = <<>>
    BY <1>2, <1>4, <1>6 DEF Quiet
  <2> QED
    BY <1>5, <1>6, <2>1 DEF AnswerOnItsWay
<1>8. Handled' /\ uplink' = {} /\ remaining' > 0
  BY <1>2, <1>4, <1>6 DEF Handled
<1> QED
  BY <1>4, <1>6, <1>7, <1>8 DEF StageInv, Stage, ProbeOut, Untouched

LEMMA StageAfterDelivery ==
    ASSUME TypeOK, StageInv, Lossless, DeliverDatagram, UNCHANGED <<targetVars, oracleVars>>
    PROVE  StageInv'
<1>1. PICK d \in downlink :
        /\ downlink' \in AfterArrival(d, downlink)
        /\ inbox' = IF Len(inbox) < InboxCap THEN Append(inbox, d) ELSE inbox
  BY DEF DeliverDatagram
<1>2. downlink' = downlink \ {d} /\ ~Quiet
  BY <1>1 DEF AfterArrival, Lossless, Quiet
<1>3. pc = "receive" /\ remaining > 0 /\ AnswerOnItsWay /\ Handled /\ uplink = {}
  BY <1>2 DEF StageInv, Stage, BetweenCases, CaseSent, ProbeOut, TypeOK
<1>4. d.req = Probe /\ downlink = {d} /\ inbox = <<>> /\ d \in Datagram
  BY <1>1, <1>3 DEF AnswerOnItsWay
<1>5. downlink' = {} /\ inbox' = <<d>>
  BY <1>1, <1>2, <1>4, TransportAssumption
<1>6. /\ Probe' = Probe /\ CurrentCase' = CurrentCase /\ pc' = pc
      /\ UNCHANGED <<uplink, mode, effects, remaining>>
  BY DEF DeliverDatagram, oracleVars, targetVars, Probe, CurrentCase
<1>7. AnswerOnItsWay'
  BY <1>4, <1>5, <1>6 DEF AnswerOnItsWay
<1>8. Handled' /\ uplink' = {} /\ remaining' > 0
  BY <1>3, <1>6 DEF Handled
<1> QED
  BY <1>3, <1>6, <1>7, <1>8 DEF StageInv, Stage, ProbeOut, Untouched

\* Steps that leave the target and the findings alone.
LEMMA SameCase ==
    ASSUME UNCHANGED <<mode, effects, findings>>
    PROVE  /\ CurrentCase' = CurrentCase /\ CasePacket' = CasePacket /\ Probe' = Probe
           /\ Down' = Down /\ ToHandle' = ToHandle /\ Handled' = Handled
           /\ Untouched' = Untouched
<1>1. CurrentCase' = CurrentCase
  BY DEF CurrentCase
<1>2. CasePacket' = CasePacket /\ Probe' = Probe
  BY <1>1 DEF CasePacket, Probe
<1>3. Down' = Down
  BY <1>1, Zenon DEF Down, ModeAfter
<1>4. ToHandle' = ToHandle /\ Untouched' = Untouched
  BY <1>1, Zenon DEF ToHandle, Untouched
<1>5. Handled' = Handled
  BY <1>1, Zenon DEF Handled
<1> QED
  BY <1>1, <1>2, <1>3, <1>4, <1>5

\* A reply that is returned is that of the probe, and the target has taken the case.
LEMMA WhenAnswered ==
    ASSUME StageInv, ProbeAnswered
    PROVE  /\ pc = "receive" /\ AnswerOnItsWay /\ downlink = {} /\ Handled /\ uplink = {}
<1>1. pc = "receive" /\ inbox # <<>>
  BY DEF ProbeAnswered, Receive
<1> QED
  BY <1>1 DEF StageInv, Stage, ProbeOut, Quiet, AnswerOnItsWay

LEMMA StageAfterOracle ==
    ASSUME TypeOK, StageInv, Lossless, OracleNext
    PROVE  StageInv'
<1>1. CASE ProbeAnswered
  <2>1. /\ pc = "receive" /\ downlink = {} /\ AnswerOnItsWay /\ uplink = {}
    BY <1>1, WhenAnswered
  <2>2. \E d \in Datagram : inbox = <<d>>
    BY <2>1 DEF AnswerOnItsWay
  <2>3. Quiet' /\ UNCHANGED <<mode, effects, uplink>>
    BY <1>1, <2>1, <2>2 DEF ProbeAnswered, Receive, Quiet, targetVars
  <2>4. Judged("inconclusive", "none", Head(inbox))
    BY <1>1 DEF ProbeAnswered
  <2> QED
    BY <2>1, <2>3, <2>4, JudgedStage
<1>2. CASE CheckHealth
  <2>1. pc = "health" /\ Quiet /\ Down
    BY <1>2 DEF CheckHealth, StageInv, Stage
  <2>2. PICK alive \in HealthReports : Judged(SilenceVerdict(alive), "none", None)
    BY <1>2 DEF CheckHealth
  <2>3. Quiet' /\ UNCHANGED <<mode, effects, uplink>> /\ mode # "up"
    BY <1>2, <2>1 DEF CheckHealth, Quiet, Down, transportVars, targetVars
  <2> QED
    BY <2>1, <2>2, <2>3, JudgedStage
<1>3. CASE SendCase
  <2>1. /\ pc = "send" /\ pc' = "drain" /\ uplink' = uplink \cup {CasePacket}
        /\ UNCHANGED <<downlink, inbox, remaining, mode, effects, findings>>
    BY <1>3 DEF SendCase, Send, targetVars
  <2>2. CurrentCase' = CurrentCase /\ CasePacket' = CasePacket /\ CurrentCase \in Cases
    BY <2>1, TheCaseIsACase DEF CurrentCase, CasePacket
  <2>3. Untouched' /\ Quiet' /\ (Down' \/ (ToHandle' /\ uplink' = {CasePacket'}))
    BY <2>1, <2>2 DEF StageInv, Stage, BetweenCases, Quiet, Down, ToHandle, Untouched
  <2> QED
    BY <2>1, <2>3 DEF StageInv, Stage, CaseSent
<1>4. CASE Drain
  BY <1>4 DEF Drain, DrainReply, StageInv, Stage, CaseSent, Quiet
<1>5. CASE EndDrain
  <2>1. /\ pc = "drain" /\ pc' = "request" /\ UNCHANGED <<uplink, downlink, inbox, mode, effects, findings>>
    BY <1>5 DEF EndDrain, transportVars, targetVars
  <2> QED
    BY <2>1, SameCase DEF StageInv, Stage, CaseSent, Quiet
<1>6. CASE SendProbe
  <2>1. /\ pc = "request" /\ pc' = "receive" /\ uplink' = uplink \cup {Probe} /\ remaining' = Timeout
        /\ UNCHANGED <<downlink, inbox, mode, effects, findings>>
    BY <1>6 DEF SendProbe, Send, StartReceive, targetVars
  <2>2. remaining' > 0
    BY <2>1, TransportAssumption
  <2>3. ProbeOut' /\ Untouched'
    BY <2>1, <2>2, SameCase DEF StageInv, Stage, CaseSent, ProbeOut, Quiet
  <2> QED
    BY <2>1, <2>3 DEF StageInv, Stage
<1>7. CASE SkipReply
  <2>1. pc = "receive" /\ inbox # <<>> /\ Head(inbox).req = None
    BY <1>7 DEF SkipReply, SkipForeign, Accepts
  <2>2. \E d \in Datagram : d.req = Probe /\ inbox = <<d>>
    BY <2>1 DEF StageInv, Stage, ProbeOut, Quiet, AnswerOnItsWay
  <2>3. Probe \in Message
    BY <2>1, PacketsTyped
  <2> QED
    BY <2>1, <2>2, <2>3, NoneIsNoPacket
<1>8. CASE NoReply
  <2>1. /\ pc = "receive" /\ pc' = "health" /\ remaining = 0
        /\ UNCHANGED <<downlink, inbox, mode, effects, findings>>
    BY <1>8 DEF NoReply, ReceiveTimesOut, transportVars, targetVars
  <2>2. Quiet /\ Down
    BY <2>1 DEF StageInv, Stage, ProbeOut
  <2> QED
    BY <2>1, <2>2, SameCase DEF StageInv, Stage, Quiet
<1>9. CASE SendFailsAt("send") \/ SendFailsAt("request") \/ ProbeFails
  BY <1>9 DEF SendFailsAt, SendFails, ProbeFails, ReceiveFails, Lossless
<1> QED
  BY <1>1, <1>2, <1>3, <1>4, <1>5, <1>6, <1>7, <1>8, <1>9 DEF OracleNext

\* The clock only moves once everything that was to arrive has: a probe that
\* times out is one nobody will answer.
LEMMA StageAfterTick ==
    ASSUME TypeOK, StageInv, Lossless, TimePasses
    PROVE  StageInv'
<1>1. pc = "receive" /\ Quiescent /\ UNCHANGED <<pc, downlink, inbox, mode, effects, findings>>
  BY DEF TimePasses, Tick, Lossless, targetVars, oracleVars
<1>2. Quiet /\ Down
  <2>1. {CasePacket, Probe} # {} /\ {Probe} # {}
    OBVIOUS
  <2>2. mode = "up" => uplink = {} /\ downlink = {} /\ inbox = <<>>
    BY <1>1 DEF Quiescent
  <2>3. ~(AnswerOnItsWay /\ downlink = {} /\ inbox = <<>>)
    BY DEF AnswerOnItsWay
  <2> QED
    BY <1>1, <2>1, <2>2, <2>3 DEF StageInv, Stage, ProbeOut, Handled, ToHandle
<1> QED
  BY <1>1, <1>2, SameCase DEF StageInv, Stage, ProbeOut, Quiet

LEMMA StepStage == TypeOK /\ StageInv /\ Lossless /\ [Next]_vars => StageInv'
<1> SUFFICES ASSUME TypeOK, StageInv, Lossless, [Next]_vars PROVE StageInv'
  OBVIOUS
<1>1. CASE OracleNext
  BY <1>1, StageAfterOracle
<1>2. CASE TimePasses
  BY <1>2, StageAfterTick
<1>3. CASE NetworkNext /\ UNCHANGED targetVars /\ UNCHANGED oracleVars
  <2>1. DeliverDatagram
    BY <1>3 DEF NetworkNext, LoseMessage, LoseDatagram, ForeignDatagram, Lossless
  <2> QED
    BY <1>3, <2>1, StageAfterDelivery
<1>4. CASE TargetNext /\ UNCHANGED oracleVars
  <2>1. AnswerHk \/ HandleCase
    BY <1>4 DEF TargetNext, Recover, Restart, OthersCommand, Lossless
  <2> QED
    BY <1>4, <2>1, StageAfterAnswer, StageAfterHandling
<1>5. CASE UNCHANGED vars
  <2>1. UNCHANGED <<uplink, downlink, inbox, remaining, pc, mode, effects, findings>>
    BY <1>5 DEF vars, transportVars, targetVars, oracleVars
  <2>2. AnswerOnItsWay' = AnswerOnItsWay
    BY <2>1, SameCase DEF AnswerOnItsWay
  <2>3. BetweenCases' = BetweenCases /\ CaseSent' = CaseSent /\ ProbeOut' = ProbeOut /\ Quiet' = Quiet
    BY <2>1, <2>2, SameCase DEF BetweenCases, CaseSent, ProbeOut, Quiet
  <2> QED
    BY <2>1, <2>3, SameCase DEF StageInv, Stage
<1> QED
  BY <1>1, <1>2, <1>3, <1>4, <1>5 DEF Next, EnvironmentNext

\* The target, its deeds and the report of the campaign.
CampaignTarget == IF CurrentCase \in Cases /\ effects[CurrentCase] # {} THEN "up" ELSE mode
CampaignDeeds == [k \in Judgements |-> Deed(effects[k])]
CampaignReport == [k \in Judgements |-> findings[k].verdict]

LEMMA DeedOfOneEffect ==
    ASSUME NEW done, NEW e \in Effect, done = {e}
    PROVE  Deed(done) = e
<1>1. \A x \in Effect : done = {x} => x = e
  OBVIOUS
<1>2. done # {}
  OBVIOUS
<1>3. (CHOOSE x \in Effect : done = {x}) = e
  BY <1>1
<1> QED
  BY <1>2, <1>3 DEF Deed

LEMMA JudgedCampaign ==
    ASSUME TypeOK, StageInv, pc # "finished", NEW v, NEW e, NEW r, Judged(v, e, r),
           UNCHANGED <<mode, effects>>
    PROVE  /\ CampaignDeeds' = Append(CampaignDeeds, Deed(effects[CurrentCase]))
           /\ CampaignReport' = Append(CampaignReport, v)
           /\ Len(CampaignReport) + 1 <= NCases
           /\ CampaignTarget' = mode
<1>1. /\ Len(findings') = Len(findings) + 1 /\ Len(findings) \in Nat
      /\ DOMAIN findings = 1 .. Len(findings) /\ DOMAIN findings' = 1 .. Len(findings')
      /\ \A k \in DOMAIN findings : findings'[k] = findings[k]
      /\ findings'[Len(findings')] = [verdict |-> v, error |-> e, reply |-> r]
  BY JudgedFindings
<1>2. Len(findings) + 1 <= NCases
  BY <1>1, TransportAssumption DEF TypeOK
<1>3. /\ CampaignReport = [k \in 1 .. Len(findings) |-> findings[k].verdict]
      /\ CampaignReport' = [k \in 1 .. Len(findings) + 1 |-> findings'[k].verdict]
  BY <1>1 DEF CampaignReport, Judgements
<1>4. CampaignReport \in Seq({findings[k].verdict : k \in 1 .. Len(findings)} \cup {v})
      /\ Len(CampaignReport) = Len(findings)
  BY <1>1, <1>3
<1>5. CampaignReport' = Append(CampaignReport, v)
  BY <1>1, <1>3, <1>4
<1>6. CurrentCase' = CurrentCase + 1 /\ CurrentCase \in Nat
  BY <1>1 DEF CurrentCase
<1>7. CurrentCase' \in Cases => effects[CurrentCase'] = {}
  BY <1>6 DEF StageInv, Untouched, Cases
<1>8. CampaignDeeds' = Append(CampaignDeeds, Deed(effects[CurrentCase]))
  <2>1. /\ CampaignDeeds = [k \in 1 .. Len(findings) |-> Deed(effects[k])]
        /\ CampaignDeeds' = [k \in 1 .. Len(findings) + 1 |-> Deed(effects[k])]
    BY <1>1 DEF CampaignDeeds, Judgements
  <2>2. CampaignDeeds \in Seq({Deed(effects[k]) : k \in 1 .. Len(findings) + 1})
    BY <1>1, <2>1
  <2> QED
    BY <1>1, <2>1, <2>2 DEF CurrentCase
<1> QED
  BY <1>2, <1>4, <1>5, <1>7, <1>8 DEF CampaignTarget

LEMMA ExchangeMeans ==
    Promise!Exchange <=>
        /\ CampaignTarget = "up"
        /\ \E e \in Effect :
              /\ CampaignTarget' = Promise!StateAfter(e)
              /\ Len(CampaignReport) + 1 <= NCases
              /\ CampaignDeeds' = Append(CampaignDeeds, e)
              /\ CampaignReport' = Append(CampaignReport,
                                         Promise!VerdictFor(Len(CampaignReport) + 1, e))
  BY Zenon DEF Promise!Exchange, Promise!Filed, Promise!NextCase, CampaignTarget, CampaignDeeds,
               CampaignReport, Promise!Effect, Effect

LEMMA NoAnswerMeans ==
    Promise!NoAnswer <=>
        /\ CampaignTarget # "up"
        /\ Len(CampaignReport) + 1 <= NCases
        /\ CampaignDeeds' = Append(CampaignDeeds, "none")
        /\ CampaignReport' = Append(CampaignReport, Promise!Silence(CampaignTarget))
        /\ CampaignTarget' = CampaignTarget
  BY Zenon DEF Promise!NoAnswer, Promise!Filed, Promise!NextCase, CampaignTarget, CampaignDeeds,
               CampaignReport

\* A verdict is that of the campaign for what the target did with the case.
LEMMA AnsweredIsExchange ==
    ASSUME TypeOK, StageInv, Lossless, ProbeAnswered
    PROVE  Promise!Exchange
<1>1. pc = "receive" /\ Handled
  BY WhenAnswered
<1>2. Judged("inconclusive", "none", Head(inbox)) /\ UNCHANGED <<mode, effects>>
  BY DEF ProbeAnswered, targetVars
<1>3. /\ CampaignReport' = Append(CampaignReport, "inconclusive")
      /\ CampaignDeeds' = Append(CampaignDeeds, Deed(effects[CurrentCase]))
      /\ Len(CampaignReport) + 1 <= NCases /\ CampaignTarget' = mode
  BY <1>1, <1>2, JudgedCampaign
<1>4. PICK e \in Harmless : effects[CurrentCase] = {e}
  BY <1>1 DEF Handled
<1>5. CurrentCase \in Cases
  BY <1>1, TheCaseIsACase
<1>6. CampaignTarget = "up" /\ CampaignTarget' = Promise!StateAfter(e)
  BY <1>1, <1>3, <1>4, <1>5 DEF CampaignTarget, Promise!StateAfter, Harmless, Handled
<1>7. Promise!VerdictFor(Len(CampaignReport) + 1, e) = "inconclusive" /\ e \in Effect
  BY <1>4 DEF Promise!VerdictFor, Harmless, Effect
<1>8. Deed(effects[CurrentCase]) = e
  BY <1>4, <1>7, DeedOfOneEffect
<1> QED
  BY <1>3, <1>6, <1>7, <1>8, ExchangeMeans

LEMMA SilenceIsCampaign ==
    ASSUME TypeOK, StageInv, Lossless, CheckHealth
    PROVE  Promise!Next
<1>1. pc = "health" /\ Down
  BY DEF CheckHealth, StageInv, Stage
<1>2. PICK alive \in HealthReports : Judged(SilenceVerdict(alive), "none", None)
  BY DEF CheckHealth
<1>3. alive = (HealthCommand = "inspect" \/ mode # "dead")
  BY DEF HealthReports, Lossless
<1>4. SilenceVerdict(alive) = Promise!Silence(mode)
  BY <1>3, OracleAssumption DEF SilenceVerdict, Promise!Silence
<1>5. UNCHANGED <<mode, effects>>
  BY DEF CheckHealth, targetVars
<1>6. /\ CampaignReport' = Append(CampaignReport, Promise!Silence(mode))
      /\ CampaignDeeds' = Append(CampaignDeeds, Deed(effects[CurrentCase]))
      /\ Len(CampaignReport) + 1 <= NCases /\ CampaignTarget' = mode
  BY <1>1, <1>2, <1>4, <1>5, JudgedCampaign
<1>7. CurrentCase \in Cases
  BY <1>1, TheCaseIsACase
<1>8. CASE effects[CurrentCase] = {}
  <2>1. CampaignTarget = mode /\ mode # "up"
    BY <1>1, <1>8 DEF CampaignTarget, Down
  <2>2. Deed(effects[CurrentCase]) = "none"
    BY <1>8 DEF Deed
  <2>3. Promise!NoAnswer
    BY <1>6, <2>1, <2>2, NoAnswerMeans
  <2> QED
    BY <2>3 DEF Promise!Next
<1>9. CASE effects[CurrentCase] # {}
  <2>1. PICK e \in Effect \ Harmless : effects[CurrentCase] = {e} /\ mode = ModeAfter(e)
    BY <1>1, <1>9 DEF Down
  <2>2. e \in {"hang", "crash"}
    BY <2>1 DEF Effect, Harmless
  <2>3. mode = Promise!StateAfter(e) /\ CampaignTarget = "up"
    BY <1>7, <1>9, <2>1, <2>2 DEF ModeAfter, Promise!StateAfter, CampaignTarget
  <2>4. Promise!VerdictFor(Len(CampaignReport) + 1, e) = Promise!Silence(mode)
    BY <2>2, <2>3 DEF Promise!VerdictFor, Promise!StateAfter
  <2>5. Deed(effects[CurrentCase]) = e
    BY <2>1, DeedOfOneEffect
  <2>6. Promise!Exchange
    BY <1>6, <2>2, <2>3, <2>4, <2>5, ExchangeMeans DEF Effect
  <2> QED
    BY <2>6 DEF Promise!Next
<1> QED
  BY <1>8, <1>9

\* A case that is handled before it is judged changes nothing for the campaign.
LEMMA HandlingIsStuttering ==
    ASSUME TypeOK, StageInv, Lossless, HandleCase, UNCHANGED oracleVars
    PROVE  /\ CampaignTarget' = CampaignTarget /\ CampaignDeeds' = CampaignDeeds
           /\ CampaignReport' = CampaignReport
<1>1. /\ pc \in {"drain", "request", "receive"} /\ ToHandle
      /\ \E e \in Effect : effects' = [effects EXCEPT ![CurrentCase] = {e}]
  BY HandledInTurn
<1>2. CurrentCase \in Cases /\ CurrentCase' = CurrentCase /\ findings' = findings
  BY <1>1, TheCaseIsACase DEF oracleVars, CurrentCase
<1>3. effects'[CurrentCase] # {}
  BY <1>1, <1>2 DEF TypeOK, TargetTypeOK
<1>4. \A k \in Judgements : effects'[k] = effects[k]
  <2>1. DOMAIN findings = 1 .. Len(findings) /\ Len(findings) \in Nat /\ Len(findings) <= NCases
    BY TransportAssumption DEF TypeOK
  <2>2. \A k \in Judgements : k \in Cases /\ k # CurrentCase
    BY <2>1, TransportAssumption DEF Judgements, Cases, CurrentCase
  <2> QED
    BY <1>1, <2>2 DEF TypeOK, TargetTypeOK
<1>5. CampaignDeeds' = CampaignDeeds
  <2>1. Judgements' = Judgements
    BY <1>2 DEF Judgements
  <2> QED
    BY <1>4, <2>1 DEF CampaignDeeds
<1> QED
  BY <1>1, <1>2, <1>3, <1>5 DEF CampaignTarget, CampaignReport, Judgements, ToHandle

LEMMA StepIsCampaign ==
    ASSUME TypeOK, StageInv, Lossless, [Next]_vars
    PROVE  [Promise!Next]_(Promise!campaignVars)
<1>1. CASE ProbeAnswered
  BY <1>1, AnsweredIsExchange DEF Promise!Next
<1>2. CASE CheckHealth
  BY <1>2, SilenceIsCampaign
<1>3. CASE HandleCase /\ UNCHANGED oracleVars
  BY <1>3, HandlingIsStuttering DEF Promise!campaignVars, CampaignTarget, CampaignDeeds, CampaignReport
<1>4. CASE UNCHANGED <<mode, effects, findings>>
  <2>1. /\ CampaignTarget' = CampaignTarget /\ CampaignDeeds' = CampaignDeeds
        /\ CampaignReport' = CampaignReport
    BY <1>4, SameCase DEF CampaignTarget, CampaignDeeds, CampaignReport, Judgements
  <2> QED
    BY <2>1 DEF Promise!campaignVars, CampaignTarget, CampaignDeeds, CampaignReport
<1> QED
  BY <1>1, <1>2, <1>3, <1>4
     DEF Next, OracleNext, SendCase, SendFailsAt, SendFails, Drain, EndDrain, SendProbe, SkipReply,
         NoReply, ProbeFails, ReceiveFails, TimePasses, EnvironmentNext, TargetNext, AnswerHk, Recover,
         Restart, OthersCommand, Lossless, targetVars, oracleVars, vars

\* Over a network that loses nothing and answers in time, a run is a campaign:
\* every case gets the one verdict for what the target did with it (the deed is
\* mapped to the target's own effects), in order, and a target that is gone is
\* charged with the rest.
THEOREM LivenessImplementsCampaign == ASSUME Lossless PROVE Spec => Promise!Spec
<1>1. Init => Promise!Init
  BY DEF Init, TargetInit, Promise!Init, Judgements, Cases
<1>2. TypeOK /\ StageInv /\ [Next]_vars => StageInv'
  BY StepStage, Lossless
<1>3. TypeOK /\ StageInv /\ [Next]_vars => [Promise!Next]_(Promise!campaignVars)
  BY StepIsCampaign, Lossless
<1> QED
  BY <1>1, <1>2, <1>3, InitStage, LivenessTypeCorrect, PTL DEF Spec, Promise!Spec
=============================================================================
