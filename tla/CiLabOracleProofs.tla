------------------------- MODULE CiLabOracleProofs --------------------------
(***************************************************************************)
(* Theorems about the CiLabOracle, for every suite, every counter width    *)
(* and every choice of faults that a theorem does not exclude.             *)
(***************************************************************************)
EXTENDS CiLabOracle, TargetProofs, FiniteSetTheorems

-----------------------------------------------------------------------------
(***************************************************************************)
(* Typing.                                                                 *)
(***************************************************************************)
Active == {"drain", "request", "receive", "send", "health"}

LEMMA MessagesTyped ==
    ASSUME TypeOK, pc \in Active
    PROVE  Request \in Message /\ CasePacket \in Message
<1>1. Len(findings) \in Nat /\ Len(findings) < NCases
  BY LenProperties DEF TypeOK, Active
<1>2. CurrentCase \in Cases
  BY <1>1, TransportAssumption DEF CurrentCase, Cases
<1> QED
  BY <1>2 DEF Request, CasePacket, Message, Step, TypeOK

LEMMA DeltaTyped ==
    ASSUME NEW k, NEW a, NEW b
    PROVE  DeltaVerdict(k, a, b) \in Verdict
  BY DEF DeltaVerdict, Verdict

LEMMA JudgedTyped ==
    ASSUME TypeOK, pc \in Active,
           NEW v \in Verdict, NEW e \in {"none", "send", "receive"},
           NEW a \in Datagram \cup {None},
           Judged(v, e, a)
    PROVE  /\ pc' \in {"drain", "finished"}
           /\ phase' \in {"before", "after"}
           /\ before' \in Datagram \cup {None}
           /\ findings' \in Seq(Finding)
           /\ Len(findings') <= NCases
           /\ pc' \in Active => Len(findings') < NCases
<1> DEFINE f == [verdict |-> v, error |-> e, before |-> before, after |-> a]
<1>1. f \in Finding
  BY DEF Finding, TypeOK
<1>2. /\ findings' = Append(findings, f)
      /\ pc' = IF LastCase THEN "finished" ELSE "drain"
      /\ phase' = "before"
      /\ before' = None
  BY DEF Judged
<1>3. findings \in Seq(Finding) /\ Len(findings) < NCases /\ Len(findings) \in Nat
  BY LenProperties DEF TypeOK, Active
<1>4. findings' \in Seq(Finding) /\ Len(findings') = Len(findings) + 1
  BY <1>1, <1>2, <1>3, AppendProperties
<1> QED
  BY <1>2, <1>3, <1>4, TransportAssumption DEF CurrentCase, Active, LastCase

\* What the oracle's own steps leave in its variables and the transport's.
LEMMA OracleStepTyped ==
    ASSUME TypeOK, OracleNext
    PROVE  TypeOK'
<1> USE DEF Active
<1>1. TargetTypeOK'
  BY DEF TypeOK, TargetTypeOK, OracleNext, Drain, EndDrain, RequestCounters, RequestFails,
         ReceiveCounters, ReplyTooShort, SkipReply, NoReply, ReadFails, CheckHealth,
         SendCase, SendCaseFails, targetVars
<1>2. CASE Drain
  <2>1. inbox' \in Seq(Datagram)
    BY <1>2, InboxTyped DEF TypeOK, Drain, DrainReply
  <2> QED
    BY <1>1, <1>2, <2>1 DEF TypeOK, TransportTypeOK, Drain, DrainReply, oracleVars
<1>3. CASE EndDrain
  BY <1>1, <1>3 DEF TypeOK, TransportTypeOK, EndDrain, transportVars
<1>4. CASE RequestCounters
  <2>1. uplink' \subseteq Message
    BY <1>4, MessagesTyped DEF RequestCounters, Send, TypeOK, TransportTypeOK
  <2>2. remaining' \in 0 .. Timeout
    BY <1>4, TransportAssumption DEF RequestCounters, StartReceive
  <2> QED
    BY <1>1, <1>4, <2>1, <2>2 DEF TypeOK, TransportTypeOK, RequestCounters, Send
<1>5. CASE RequestFails
  BY <1>1, <1>5, JudgedTyped
     DEF TypeOK, TransportTypeOK, RequestFails, SendFails, ErrorVerdict, Verdict
<1>6. CASE ReceiveCounters
  <2>1. inbox # <<>> /\ Head(inbox) \in Datagram /\ inbox' \in Seq(Datagram)
    BY <1>6, InboxTyped DEF TypeOK, ReceiveCounters, Receive
  <2>2. TransportTypeOK'
    BY <1>6, <2>1, TransportAssumption DEF TypeOK, TransportTypeOK, ReceiveCounters, Receive
  <2>3. CASE phase = "before"
    BY <1>1, <1>6, <2>1, <2>2, <2>3 DEF TypeOK, ReceiveCounters, FirstReading
  <2>4. CASE phase # "before"
    <3>1. Judged(DeltaVerdict(CurrentCase, before, Head(inbox)), "none", Head(inbox))
      BY <1>6, <2>4 DEF ReceiveCounters
    <3> QED
      BY <1>1, <1>6, <2>1, <2>2, <3>1, JudgedTyped, DeltaTyped DEF TypeOK, ReceiveCounters
  <2> QED
    BY <2>3, <2>4
<1>7. CASE ReplyTooShort
  <2>1. inbox' \in Seq(Datagram)
    BY <1>7, InboxTyped DEF TypeOK, ReplyTooShort, Receive
  <2>2. findings' \in Seq(Finding) /\ Len(findings') <= NCases
    BY <1>7, EmptySeq, TransportAssumption DEF ReplyTooShort
  <2> QED
    BY <1>1, <1>7, <2>1, <2>2, TransportAssumption
       DEF TypeOK, TransportTypeOK, ReplyTooShort, Receive
<1>8. CASE SkipReply
  <2>1. inbox' \in Seq(Datagram)
    BY <1>8, InboxTyped DEF TypeOK, SkipReply, SkipForeign
  <2> QED
    BY <1>1, <1>8, <2>1
       DEF TypeOK, TransportTypeOK, SkipReply, SkipForeign, DeadlineAfterSkip, oracleVars
<1>9. CASE NoReply
  BY <1>1, <1>9 DEF TypeOK, TransportTypeOK, NoReply, ReceiveTimesOut, transportVars
<1>10. CASE ReadFails
  <2>1. TransportTypeOK'
    BY <1>10, TransportAssumption DEF TypeOK, TransportTypeOK, ReadFails, ReceiveFails
  <2> QED
    BY <1>1, <1>10, <2>1, JudgedTyped DEF TypeOK, ReadFails, ErrorVerdict, Verdict
<1>11. CASE CheckHealth
  <2>1. PICK alive \in HealthReports : Judged(SilenceVerdict(alive), "none", None)
    BY <1>11 DEF CheckHealth
  <2>2. SilenceVerdict(alive) \in Verdict
    BY DEF SilenceVerdict, Verdict
  <2> QED
    BY <1>1, <1>11, <2>1, <2>2, JudgedTyped
       DEF TypeOK, TransportTypeOK, CheckHealth, transportVars
<1>12. CASE SendCase
  <2>1. uplink' \subseteq Message
    BY <1>12, MessagesTyped DEF SendCase, Send, TypeOK, TransportTypeOK
  <2> QED
    BY <1>1, <1>12, <2>1 DEF TypeOK, TransportTypeOK, SendCase, Send
<1>13. CASE SendCaseFails
  BY <1>1, <1>13, JudgedTyped
     DEF TypeOK, TransportTypeOK, SendCaseFails, SendFails, ErrorVerdict, Verdict
<1> QED
  BY <1>2, <1>3, <1>4, <1>5, <1>6, <1>7, <1>8, <1>9, <1>10, <1>11, <1>12, <1>13
     DEF OracleNext

LEMMA StepTyped == TypeOK /\ [Next]_vars => TypeOK'
<1> SUFFICES ASSUME TypeOK, [Next]_vars PROVE TypeOK'
  OBVIOUS
<1>1. CASE OracleNext
  BY <1>1, OracleStepTyped
<1>2. CASE TimePasses
  <2>1. remaining' \in 0 .. Timeout
    BY <1>2, TransportAssumption DEF TimePasses, Tick, TypeOK, TransportTypeOK
  <2> QED
    BY <1>2, <2>1 DEF TimePasses, Tick, TypeOK, TransportTypeOK, TargetTypeOK, targetVars, oracleVars
<1>3. CASE NetworkNext /\ UNCHANGED targetVars /\ UNCHANGED oracleVars
  BY <1>3, NetworkStepTyped DEF TypeOK, TargetTypeOK, targetVars, oracleVars
<1>4. CASE TargetNext /\ UNCHANGED oracleVars
  BY <1>4, TargetStepTyped DEF TypeOK, oracleVars
<1>5. CASE UNCHANGED vars
  BY <1>5 DEF vars, transportVars, targetVars, oracleVars, TypeOK, TransportTypeOK, TargetTypeOK
<1> QED
  BY <1>1, <1>2, <1>3, <1>4, <1>5 DEF Next, EnvironmentNext

LEMMA InitTyped == Init => TypeOK
<1> SUFFICES ASSUME Init PROVE TypeOK
  OBVIOUS
<1> QED
  BY NetworkAndTargetInit, TransportAssumption, EmptySeq DEF Init, TypeOK

\* Every state of a run is well typed: no request names a case beyond the
\* suite, and the runner never files more findings than there are cases.
THEOREM TypeCorrect == Spec => []TypeOK
  BY InitTyped, StepTyped, PTL DEF Spec

-----------------------------------------------------------------------------
(***************************************************************************)
(* Transport errors.  While a request is out, or a case is about to be     *)
(* sent, there is no error pending: one that occurs is filed in that step. *)
(***************************************************************************)
NoErrorPending == pc \in {"receive", "send", "health"} => lastError = "none"

ErrorInv == ErrorsAreReported /\ NoErrorPending

LEMMA JudgedReports ==
    ASSUME TypeOK, ErrorInv,
           NEW v, NEW e, NEW a, Judged(v, e, a),
           e # "none" => v = "inconclusive",
           lastError' # "none" => lastError' = e
    PROVE  ErrorInv'
<1> DEFINE f == [verdict |-> v, error |-> e, before |-> before, after |-> a]
<1>1. findings' = Append(findings, f) /\ pc' \in {"finished", "drain"}
  BY DEF Judged
<1>2. /\ Len(findings') = Len(findings) + 1
      /\ \A k \in 1 .. Len(findings) : findings'[k] = findings[k]
      /\ findings'[Len(findings) + 1] = f
      /\ DOMAIN findings' = 1 .. Len(findings')
      /\ DOMAIN findings = 1 .. Len(findings)
      /\ Len(findings) \in Nat
  BY <1>1 DEF TypeOK
<1>3. ASSUME NEW k \in DOMAIN findings', findings'[k].error # "none"
      PROVE  findings'[k].verdict = "inconclusive"
  BY <1>2, <1>3 DEF ErrorInv, ErrorsAreReported, Judgements
<1>4. findings' # <<>>
  BY <1>2
<1> QED
  BY <1>1, <1>2, <1>3, <1>4 DEF ErrorInv, ErrorsAreReported, NoErrorPending, Judgements

LEMMA InitReports == Init => ErrorInv
  BY DEF Init, TransportInit, ErrorInv, ErrorsAreReported, NoErrorPending, Judgements

LEMMA StepReports == TypeOK /\ ErrorInv /\ [Next]_vars => ErrorInv'
<1> SUFFICES ASSUME TypeOK, ErrorInv, [Next]_vars PROVE ErrorInv'
  OBVIOUS
<1> USE DEF ErrorInv, ErrorsAreReported, NoErrorPending, Judgements
<1>1. CASE Drain
  BY <1>1 DEF Drain, DrainReply, oracleVars
<1>2. CASE EndDrain
  BY <1>2 DEF EndDrain, transportVars
<1>3. CASE RequestCounters
  BY <1>3 DEF RequestCounters, Send
<1>4. CASE RequestFails
  BY <1>4, JudgedReports DEF RequestFails, SendFails, ErrorVerdict
<1>5. CASE ReceiveCounters
  <2>1. CASE phase = "before"
    BY <1>5, <2>1 DEF ReceiveCounters, Receive
  <2>2. CASE phase # "before"
    BY <1>5, <2>2, JudgedReports DEF ReceiveCounters, Receive
  <2> QED
    BY <2>1, <2>2
<1>6. CASE ReplyTooShort
  BY <1>6 DEF ReplyTooShort, Receive
<1>7. CASE SkipReply
  BY <1>7 DEF SkipReply, SkipForeign, oracleVars
<1>8. CASE NoReply
  BY <1>8 DEF NoReply, ReceiveTimesOut, transportVars
<1>9. CASE ReadFails
  BY <1>9, JudgedReports DEF ReadFails, ReceiveFails, ErrorVerdict
<1>10. CASE CheckHealth
  BY <1>10, JudgedReports DEF CheckHealth, transportVars
<1>11. CASE SendCase
  BY <1>11 DEF SendCase, Send
<1>12. CASE SendCaseFails
  BY <1>12, JudgedReports DEF SendCaseFails, SendFails, ErrorVerdict
<1>13. CASE TimePasses
  BY <1>13 DEF TimePasses, Tick, oracleVars
<1>14. CASE EnvironmentNext /\ UNCHANGED oracleVars
  BY <1>14 DEF EnvironmentNext, NetworkNext, LoseMessage, LoseDatagram, DeliverDatagram,
       ForeignDatagram, TargetNext, AnswerHk, HandleCase, Recover, Restart, OthersCommand,
       oracleVars, transportVars
<1>15. CASE UNCHANGED vars
  BY <1>15 DEF vars, transportVars, oracleVars
<1> QED
  BY <1>1, <1>2, <1>3, <1>4, <1>5, <1>6, <1>7, <1>8, <1>9, <1>10, <1>11, <1>12, <1>13,
     <1>14, <1>15 DEF Next, OracleNext

\* Whatever fails, every error of send and receive is filed with the case it
\* hit, as inconclusive and never as an unsafe verdict.
THEOREM ErrorsReported == Spec => []ErrorsAreReported
<1>1. ErrorInv => ErrorsAreReported
  BY DEF ErrorInv
<1> QED
  BY <1>1, TypeCorrect, InitReports, StepReports, PTL DEF Spec

-----------------------------------------------------------------------------
(***************************************************************************)
(* Every verdict read off the counters has a cause.  Two readings of a     *)
(* counter differ only if one of them differs from the counter's present   *)
(* value, and a reading that is on its way, queued or kept can differ from *)
(* the present value only if the target has counted something since.  So   *)
(* the invariant relates every reading in the system to what happened.     *)
(***************************************************************************)

\* Nobody but the suite moves the counters, and only the target's telemetry
\* reaches the oracle.
SoleClient ==
    /\ Faults \cap {"restart", "others"} = {}
    /\ FilterReplies \/ "foreign" \notin Faults

Happened(e) == \E j \in Cases : e \in effects[j]

Agrees(c) ==
    /\ c.command # counters.command => Happened("accept")
    /\ c.command_error # counters.command_error => Happened("reject")
    /\ c.ingest_errors # counters.ingest_errors => Happened("drop")

Honest(d) ==
    /\ d.req = None => "foreign" \in Faults
    /\ d.req # None /\ d.counters # None => Agrees(d.counters)

ReadingsAgree ==
    /\ \A d \in downlink : Honest(d)
    /\ \A i \in DOMAIN inbox : Honest(inbox[i])
    /\ before # None => before.counters # None /\ Agrees(before.counters)

\* judge holds a first reading from the moment it has one to its verdict.
FirstReadingKept ==
    /\ pc = "send" => before # None
    /\ pc \in {"drain", "request", "receive"} /\ phase = "after" => before # None

\* No case is sent, let alone handled, before its turn.
NoneAheadOfTurn ==
    pc # "aborted" =>
       /\ \A m \in uplink : m.case <= CurrentCase
       /\ \A j \in Cases : effects[j] # {} => j <= CurrentCase

CauseInv == ReadingsAgree /\ FirstReadingKept /\ NoneAheadOfTurn /\ VerdictHasCause

LEMMA InitCause == Init => CauseInv
  BY DEF Init, TransportInit, TargetInit, CauseInv, ReadingsAgree, FirstReadingKept,
         NoneAheadOfTurn, VerdictHasCause, Judgements

\* What has happened stays; what is counted has happened.
LEMMA EffectsGrow ==
    ASSUME TypeOK, HandleCase
    PROVE  /\ \A j \in Cases : effects[j] \subseteq effects'[j]
           /\ \A e \in Effect : Happened(e) => Happened(e)'
           /\ counters'.command # counters.command => Happened("accept")'
           /\ counters'.command_error # counters.command_error => Happened("reject")'
           /\ counters'.ingest_errors # counters.ingest_errors => Happened("drop")'
<1>1. PICK m \in uplink, e \in Effect :
        /\ counters' = CountersAfter(counters, e)
        /\ effects' = [effects EXCEPT ![m.case] = @ \cup {e}]
  BY DEF HandleCase
<1>2. m.case \in Cases /\ effects \in [Cases -> SUBSET Effect]
  BY DEF TypeOK, TransportTypeOK, TargetTypeOK, Message
<1>3. \A j \in Cases : effects[j] \subseteq effects'[j]
  BY <1>1, <1>2
<1>4. e \in effects'[m.case]
  BY <1>1, <1>2
<1>5. counters \in Counters
  BY DEF TypeOK, TargetTypeOK
<1>6. /\ counters'.command # counters.command => e = "accept"
      /\ counters'.command_error # counters.command_error => e = "reject"
      /\ counters'.ingest_errors # counters.ingest_errors => e = "drop"
  <2>1. CASE e = "accept"
    BY <1>1, <1>5, <2>1 DEF CountersAfter, Counters
  <2>2. CASE e = "reject"
    BY <1>1, <1>5, <2>2 DEF CountersAfter, Counters
  <2>3. CASE e = "drop"
    BY <1>1, <1>5, <2>3 DEF CountersAfter, Counters
  <2>4. CASE e \notin {"accept", "reject", "drop"}
    <3>1. counters' = counters
      BY <1>1, <2>4 DEF CountersAfter
    <3> QED
      BY <3>1
  <2> QED
    BY <2>1, <2>2, <2>3, <2>4
<1> QED
  BY <1>2, <1>3, <1>4, <1>6 DEF Happened

LEMMA AgreementKept ==
    ASSUME TypeOK, HandleCase, NEW c, Agrees(c)
    PROVE  Agrees(c)'
<1>1. {"accept", "reject", "drop"} \subseteq Effect
  BY DEF Effect
<1> QED
  BY <1>1, EffectsGrow DEF Agrees

\* Two readings that agree with the target differ only for a reason.
LEMMA DeltaHasCause ==
    ASSUME NEW k, NEW a, NEW b, Agrees(a.counters), Agrees(b.counters),
           DeltaVerdict(k, a, b) \in CounterVerdict
    PROVE  Happened(CauseOf(DeltaVerdict(k, a, b)))
<1> DEFINE v == DeltaVerdict(k, a, b)
<1>1. CASE v \in {"clean_accept", "unexpected_accept"}
  <2>1. Changed(a, b, "command")
    BY <1>1 DEF DeltaVerdict
  <2>2. CauseOf(v) = "accept"
    BY <1>1 DEF CauseOf
  <2> QED
    BY <2>1, <2>2 DEF Changed, Agrees
<1>2. CASE v = "clean_reject"
  <2>1. Changed(a, b, "command_error")
    BY <1>2 DEF DeltaVerdict
  <2>2. CauseOf(v) = "reject"
    BY <1>2 DEF CauseOf
  <2> QED
    BY <2>1, <2>2 DEF Changed, Agrees
<1>3. CASE v = "safe_drop"
  <2>1. Changed(a, b, "ingest_errors")
    BY <1>3 DEF DeltaVerdict
  <2>2. CauseOf(v) = "drop"
    BY <1>3 DEF CauseOf
  <2> QED
    BY <2>1, <2>2 DEF Changed, Agrees
<1> QED
  BY <1>1, <1>2, <1>3 DEF CounterVerdict

\* Filing a finding keeps the invariant when its verdict has a cause.
LEMMA JudgedCause ==
    ASSUME TypeOK, CauseInv, pc \in Active,
           NEW v, NEW e, NEW a, Judged(v, e, a),
           v \in CounterVerdict => Happened(CauseOf(v)),
           effects' = effects, uplink' = uplink
    PROVE  VerdictHasCause' /\ FirstReadingKept' /\ NoneAheadOfTurn' /\ before' = None
<1> DEFINE f == [verdict |-> v, error |-> e, before |-> before, after |-> a]
<1>1. /\ findings' = Append(findings, f)
      /\ pc' \in {"finished", "drain"}
      /\ phase' = "before"
      /\ before' = None
  BY DEF Judged
<1>2. /\ Len(findings') = Len(findings) + 1
      /\ \A k \in 1 .. Len(findings) : findings'[k] = findings[k]
      /\ findings'[Len(findings) + 1].verdict = v
      /\ DOMAIN findings' = 1 .. Len(findings')
      /\ DOMAIN findings = 1 .. Len(findings)
      /\ Len(findings) \in Nat
  BY <1>1 DEF TypeOK
<1>3. NoneAheadOfTurn'
  <2>1. /\ \A m \in uplink : m.case <= Len(findings) + 1
        /\ \A j \in Cases : effects[j] # {} => j <= Len(findings) + 1
    BY DEF CauseInv, NoneAheadOfTurn, Active, CurrentCase
  <2>2. \A m \in uplink : m.case \in Nat
    BY DEF TypeOK, TransportTypeOK, Message, Cases
  <2> QED
    BY <1>2, <2>1, <2>2 DEF NoneAheadOfTurn, CurrentCase, Cases
<1>4. VerdictHasCause'
  <2> SUFFICES ASSUME NEW k \in 1 .. Len(findings'), findings'[k].verdict \in CounterVerdict
               PROVE  \E j \in 1 .. k : CauseOf(findings'[k].verdict) \in effects[j]
    BY <1>2 DEF VerdictHasCause, Judgements
  <2>1. CASE k \in 1 .. Len(findings)
    BY <1>2, <2>1 DEF CauseInv, VerdictHasCause, Judgements
  <2>2. CASE k = Len(findings) + 1
    <3>1. PICK j \in Cases : CauseOf(v) \in effects[j]
      BY <1>2, <2>2 DEF Happened
    <3>2. j <= Len(findings) + 1
      BY <3>1 DEF CauseInv, NoneAheadOfTurn, CurrentCase, Active
    <3> QED
      BY <1>2, <2>2, <3>1, <3>2 DEF Cases
  <2> QED
    BY <1>2, <2>1, <2>2
<1> QED
  BY <1>1, <1>3, <1>4 DEF FirstReadingKept

LEMMA TailKeepsHonest ==
    ASSUME TypeOK, CauseInv, inbox # <<>>, inbox' = Tail(inbox), counters' = counters,
           effects' = effects
    PROVE  (\A i \in DOMAIN inbox : Honest(inbox[i]))' /\ Honest(Head(inbox))
<1>1. /\ inbox' \in Seq(Datagram)
      /\ Len(inbox') = Len(inbox) - 1
      /\ \A i \in 1 .. Len(inbox') : inbox'[i] = inbox[i + 1]
      /\ Head(inbox) = inbox[1]
      /\ Len(inbox) \in Nat \ {0}
  BY HeadTailProperties, EmptySeq DEF TypeOK, TransportTypeOK
<1>2. DOMAIN inbox' = 1 .. Len(inbox') /\ DOMAIN inbox = 1 .. Len(inbox)
  BY <1>1 DEF TypeOK, TransportTypeOK
<1>3. \A i \in 1 .. Len(inbox) : Honest(inbox[i])
  BY <1>2 DEF CauseInv, ReadingsAgree
<1>4. \A i \in DOMAIN inbox' : Honest(inbox'[i])
  BY <1>1, <1>2, <1>3
<1> QED
  BY <1>1, <1>3, <1>4 DEF Honest, Agrees, Happened

\* What the transport hands to the oracle comes from the target.
LEMMA ReceivedAgrees ==
    ASSUME TypeOK, CauseInv, SoleClient, Receive, counters' = counters, effects' = effects,
           Head(inbox).counters # None
    PROVE  Agrees(Head(inbox).counters)
<1>1. Honest(Head(inbox))
  BY TailKeepsHonest DEF Receive
<1>2. Head(inbox).req # None
  BY <1>1 DEF SoleClient, Receive, Accepts, Honest
<1> QED
  BY <1>1, <1>2 DEF Honest

LEMMA OracleStepCause ==
    ASSUME TypeOK, CauseInv, SoleClient, OracleNext
    PROVE  CauseInv'
<1> USE DEF Active
<1>1. counters' = counters /\ effects' = effects /\ downlink' = downlink
  BY DEF OracleNext, Drain, DrainReply, EndDrain, RequestCounters, RequestFails,
         ReceiveCounters, Receive, ReplyTooShort, SkipReply, SkipForeign, NoReply,
         ReceiveTimesOut, ReadFails, ReceiveFails, CheckHealth, SendCase, SendCaseFails,
         targetVars, transportVars
<1>2. \A c : Agrees(c)' <=> Agrees(c)
  BY <1>1 DEF Agrees, Happened
<1>3. \A d \in downlink' : Honest(d)'
  BY <1>1 DEF CauseInv, ReadingsAgree, Honest, Agrees, Happened
<1>4. (\A i \in DOMAIN inbox : Honest(inbox[i]))'
  <2>1. CASE inbox' = inbox
    BY <1>1, <2>1 DEF CauseInv, ReadingsAgree, Honest, Agrees, Happened
  <2>2. CASE inbox # <<>> /\ inbox' = Tail(inbox)
    BY <1>1, <2>2, TailKeepsHonest
  <2> QED
    BY <2>1, <2>2 DEF OracleNext, Drain, DrainReply, EndDrain, RequestCounters, RequestFails,
         ReceiveCounters, Receive, ReplyTooShort, SkipReply, SkipForeign, NoReply,
         ReceiveTimesOut, ReadFails, ReceiveFails, CheckHealth, SendCase, SendCaseFails,
         transportVars
\* Steps that file nothing and keep the first reading.
<1>5. ASSUME findings' = findings, before' = before, uplink' = uplink,
             pc # "aborted", pc' # "aborted", FirstReadingKept'
      PROVE  CauseInv'
  BY <1>1, <1>2, <1>3, <1>4, <1>5
     DEF CauseInv, ReadingsAgree, NoneAheadOfTurn, VerdictHasCause, Judgements, CurrentCase
\* Steps that send the packet of the case in hand.
<1>6. ASSUME findings' = findings, before' = before, pc # "aborted", FirstReadingKept',
             NEW m, m.case = CurrentCase, Send(m)
      PROVE  CauseInv'
  <2>1. NoneAheadOfTurn'
    BY <1>1, <1>6, LenProperties
       DEF CauseInv, NoneAheadOfTurn, CurrentCase, Send, TypeOK
  <2> QED
    BY <1>1, <1>2, <1>3, <1>4, <1>6, <2>1
       DEF CauseInv, ReadingsAgree, VerdictHasCause, Judgements
\* Steps that file a finding.
<1>7. ASSUME NEW v, NEW e, NEW a, Judged(v, e, a), uplink' = uplink, pc \in Active,
             v \in CounterVerdict => Happened(CauseOf(v))
      PROVE  CauseInv'
  <2>1. VerdictHasCause' /\ FirstReadingKept' /\ NoneAheadOfTurn' /\ before' = None
    BY <1>1, <1>7, JudgedCause
  <2> QED
    BY <1>3, <1>4, <2>1 DEF CauseInv, ReadingsAgree
<1>8. CASE Drain
  BY <1>5, <1>8 DEF Drain, DrainReply, oracleVars, CauseInv, FirstReadingKept
<1>9. CASE EndDrain
  BY <1>5, <1>9 DEF EndDrain, transportVars, CauseInv, FirstReadingKept
<1>10. CASE RequestCounters
  <2>1. FirstReadingKept'
    BY <1>10 DEF RequestCounters, CauseInv, FirstReadingKept
  <2> QED
    BY <1>6, <1>10, <2>1 DEF RequestCounters, Request
<1>11. CASE RequestFails
  BY <1>7, <1>11 DEF RequestFails, SendFails, ErrorVerdict, CounterVerdict
<1>12. CASE ReceiveCounters
  <2>1. Receive /\ Head(inbox).counters # None /\ pc = "receive"
    BY <1>12 DEF ReceiveCounters
  <2>2. Agrees(Head(inbox).counters)
    BY <1>1, <2>1, ReceivedAgrees
  <2>3. CASE phase = "before"
    <3>1. /\ before' = Head(inbox) /\ pc' = "send" /\ phase' = phase
          /\ findings' = findings /\ uplink' = uplink
      BY <1>12, <2>1, <2>3 DEF ReceiveCounters, Receive, FirstReading
    <3>2. FirstReadingKept'
      <4>1. Head(inbox) # None
        BY <2>1, InboxTyped, NoneIsNoPacket DEF Receive, TypeOK
      <4> QED
        BY <3>1, <4>1 DEF FirstReadingKept
    <3>3. NoneAheadOfTurn' /\ VerdictHasCause'
      BY <1>1, <2>1, <3>1 DEF CauseInv, NoneAheadOfTurn, VerdictHasCause, Judgements, CurrentCase
    <3> QED
      BY <1>2, <1>3, <1>4, <2>1, <2>2, <3>1, <3>2, <3>3 DEF CauseInv, ReadingsAgree
  <2>4. CASE phase = "after"
    <3>1. before # None /\ Agrees(before.counters)
      BY <2>1, <2>4 DEF CauseInv, FirstReadingKept, ReadingsAgree
    <3>2. Judged(DeltaVerdict(CurrentCase, before, Head(inbox)), "none", Head(inbox))
      BY <1>12, <2>4 DEF ReceiveCounters
    <3> QED
      BY <1>7, <2>1, <2>2, <3>1, <3>2, DeltaHasCause DEF Receive
  <2> QED
    BY <2>3, <2>4 DEF TypeOK
<1>13. CASE ReplyTooShort
  <2>1. findings' = <<>> /\ pc' = "aborted" /\ before' = before
    BY <1>13 DEF ReplyTooShort
  <2> QED
    BY <1>2, <1>3, <1>4, <2>1
       DEF CauseInv, ReadingsAgree, FirstReadingKept, NoneAheadOfTurn, VerdictHasCause, Judgements
<1>14. CASE SkipReply
  BY <1>5, <1>14 DEF SkipReply, SkipForeign, oracleVars, CauseInv, FirstReadingKept
<1>15. CASE NoReply
  BY <1>5, <1>15 DEF NoReply, ReceiveTimesOut, transportVars, FirstReadingKept
<1>16. CASE ReadFails
  BY <1>7, <1>16 DEF ReadFails, ReceiveFails, ErrorVerdict, CounterVerdict
<1>17. CASE CheckHealth
  <2>1. PICK alive \in HealthReports : Judged(SilenceVerdict(alive), "none", None)
    BY <1>17 DEF CheckHealth
  <2>2. SilenceVerdict(alive) \notin CounterVerdict
    BY DEF SilenceVerdict, CounterVerdict
  <2> QED
    BY <1>7, <1>17, <2>1, <2>2 DEF CheckHealth, transportVars
<1>18. CASE SendCase
  <2>1. FirstReadingKept'
    BY <1>18 DEF SendCase, CauseInv, FirstReadingKept
  <2> QED
    BY <1>6, <1>18, <2>1 DEF SendCase, CasePacket
<1>19. CASE SendCaseFails
  BY <1>7, <1>19 DEF SendCaseFails, SendFails, ErrorVerdict, CounterVerdict
<1> QED
  BY <1>8, <1>9, <1>10, <1>11, <1>12, <1>13, <1>14, <1>15, <1>16, <1>17, <1>18, <1>19
     DEF OracleNext

LEMMA NetworkStepCause ==
    ASSUME TypeOK, CauseInv, NetworkNext, UNCHANGED <<targetVars, oracleVars>>
    PROVE  CauseInv'
<1>1. /\ counters' = counters /\ effects' = effects
      /\ pc' = pc /\ phase' = phase /\ before' = before /\ findings' = findings
  BY DEF targetVars, oracleVars
<1>2. VerdictHasCause' /\ FirstReadingKept'
  BY <1>1 DEF CauseInv, VerdictHasCause, FirstReadingKept, Judgements
<1>3. \A d : Honest(d)' <=> Honest(d)
  BY <1>1 DEF Honest, Agrees, Happened
<1>4. NoneAheadOfTurn'
  <2>1. uplink' \subseteq uplink
    BY DEF NetworkNext, LoseMessage, LoseDatagram, DeliverDatagram, ForeignDatagram
  <2> QED
    BY <1>1, <2>1 DEF CauseInv, NoneAheadOfTurn, CurrentCase
<1>5. \A d \in downlink' : Honest(d)
  <2>1. CASE ForeignDatagram
    BY <2>1 DEF ForeignDatagram, CauseInv, ReadingsAgree, Honest
  <2>2. CASE ~ForeignDatagram
    <3>1. downlink' \subseteq downlink
      BY <2>2 DEF NetworkNext, LoseMessage, LoseDatagram, DeliverDatagram, AfterArrival
    <3> QED
      BY <3>1 DEF CauseInv, ReadingsAgree
  <2> QED
    BY <2>1, <2>2
<1>6. (\A i \in DOMAIN inbox : Honest(inbox[i]))'
  <2>1. CASE inbox' = inbox
    BY <1>3, <2>1 DEF CauseInv, ReadingsAgree
  <2>2. CASE \E d \in downlink : inbox' = Append(inbox, d)
    <3>1. PICK d \in downlink : inbox' = Append(inbox, d)
      BY <2>2
    <3>2. /\ Len(inbox') = Len(inbox) + 1
          /\ \A i \in 1 .. Len(inbox) : inbox'[i] = inbox[i]
          /\ inbox'[Len(inbox) + 1] = d
          /\ DOMAIN inbox' = 1 .. Len(inbox')
          /\ DOMAIN inbox = 1 .. Len(inbox)
          /\ Len(inbox) \in Nat
      BY <3>1 DEF TypeOK, TransportTypeOK
    <3>3. \A i \in DOMAIN inbox' : Honest(inbox'[i])
      BY <3>2 DEF CauseInv, ReadingsAgree
    <3> QED
      BY <1>1, <3>3 DEF Honest, Agrees, Happened
  <2> QED
    BY <2>1, <2>2
       DEF NetworkNext, LoseMessage, LoseDatagram, DeliverDatagram, ForeignDatagram
<1>7. ReadingsAgree'
  BY <1>1, <1>5, <1>6 DEF CauseInv, ReadingsAgree, Honest, Agrees, Happened
<1> QED
  BY <1>2, <1>4, <1>7 DEF CauseInv

LEMMA HandleCaseCause ==
    ASSUME TypeOK, CauseInv, HandleCase, UNCHANGED oracleVars
    PROVE  CauseInv'
<1>1. /\ downlink' = downlink /\ inbox' = inbox
      /\ pc' = pc /\ phase' = phase /\ before' = before /\ findings' = findings
  BY DEF HandleCase, oracleVars
<1>2. FirstReadingKept'
  BY <1>1 DEF CauseInv, FirstReadingKept
<1>3. VerdictHasCause'
  <2> SUFFICES ASSUME NEW k \in Judgements, findings[k].verdict \in CounterVerdict
               PROVE  \E j \in 1 .. k : CauseOf(findings[k].verdict) \in effects'[j]
    BY <1>1 DEF VerdictHasCause, Judgements
  <2>1. PICK j \in 1 .. k : CauseOf(findings[k].verdict) \in effects[j]
    BY DEF CauseInv, VerdictHasCause
  <2>2. j \in Cases
    BY LenProperties, TransportAssumption DEF TypeOK, Judgements, Cases
  <2> QED
    BY <2>1, <2>2, EffectsGrow
<1>4. ReadingsAgree'
  <2>1. \A d : Honest(d) => Honest(d)'
    BY AgreementKept DEF Honest
  <2> QED
    BY <1>1, <2>1, AgreementKept DEF CauseInv, ReadingsAgree
<1>5. NoneAheadOfTurn'
  <2>1. PICK m \in uplink, e \in Effect :
          /\ uplink' \in AfterArrival(m, uplink)
          /\ effects' = [effects EXCEPT ![m.case] = @ \cup {e}]
    BY DEF HandleCase
  <2>2. uplink' \subseteq uplink
    BY <2>1 DEF AfterArrival
  <2>3. \A j \in Cases : j # m.case => effects'[j] = effects[j]
    BY <2>1 DEF TypeOK, TargetTypeOK
  <2> QED
    BY <1>1, <2>1, <2>2, <2>3 DEF CauseInv, NoneAheadOfTurn, CurrentCase
<1> QED
  BY <1>2, <1>3, <1>4, <1>5 DEF CauseInv

LEMMA AnswerHkCause ==
    ASSUME TypeOK, CauseInv, AnswerHk, UNCHANGED oracleVars
    PROVE  CauseInv'
<1>1. /\ counters' = counters /\ effects' = effects /\ inbox' = inbox
      /\ pc' = pc /\ phase' = phase /\ before' = before /\ findings' = findings
  BY DEF AnswerHk, targetVars, oracleVars
<1>2. PICK m \in uplink, c \in {counters, None} :
        /\ uplink' \in AfterArrival(m, uplink)
        /\ downlink' = downlink \cup {[req |-> m, counters |-> c]}
  BY DEF AnswerHk
<1>3. VerdictHasCause' /\ FirstReadingKept'
  BY <1>1 DEF CauseInv, VerdictHasCause, FirstReadingKept, Judgements
<1>4. NoneAheadOfTurn'
  <2>1. uplink' \subseteq uplink
    BY <1>2 DEF AfterArrival
  <2> QED
    BY <1>1, <2>1 DEF CauseInv, NoneAheadOfTurn, CurrentCase
<1>5. Honest([req |-> m, counters |-> c])
  <2>1. m # None
    BY NoneIsNoPacket DEF TypeOK, TransportTypeOK
  <2>2. c # None => Agrees(c)
    BY DEF Agrees
  <2> QED
    BY <2>1, <2>2 DEF Honest
<1>6. \A d \in downlink' : Honest(d)
  BY <1>2, <1>5 DEF CauseInv, ReadingsAgree
<1>7. ReadingsAgree'
  BY <1>1, <1>6 DEF CauseInv, ReadingsAgree, Honest, Agrees, Happened
<1> QED
  BY <1>3, <1>4, <1>7 DEF CauseInv

LEMMA StepCause == SoleClient /\ TypeOK /\ CauseInv /\ [Next]_vars => CauseInv'
<1> SUFFICES ASSUME SoleClient, TypeOK, CauseInv, [Next]_vars PROVE CauseInv'
  OBVIOUS
<1> USE DEF CauseInv, ReadingsAgree, FirstReadingKept, NoneAheadOfTurn, VerdictHasCause,
            Judgements, CurrentCase, Honest, Agrees, Happened
<1>1. CASE OracleNext
  BY <1>1, OracleStepCause
<1>2. CASE TimePasses
  BY <1>2 DEF TimePasses, Tick, targetVars, oracleVars
<1>3. CASE NetworkNext /\ UNCHANGED targetVars /\ UNCHANGED oracleVars
  BY <1>3, NetworkStepCause
<1>4. CASE AnswerHk /\ UNCHANGED oracleVars
  BY <1>4, AnswerHkCause
<1>5. CASE HandleCase /\ UNCHANGED oracleVars
  BY <1>5, HandleCaseCause
<1>6. CASE Recover /\ UNCHANGED oracleVars
  BY <1>6 DEF Recover, transportVars, oracleVars
<1>7. CASE Restart \/ OthersCommand
  BY <1>7 DEF Restart, OthersCommand, SoleClient
<1>8. CASE UNCHANGED vars
  BY <1>8 DEF vars, transportVars, targetVars, oracleVars
<1> QED
  BY <1>1, <1>2, <1>3, <1>4, <1>5, <1>6, <1>7, <1>8 DEF Next, EnvironmentNext, TargetNext

\* When the suite is the target's only client and only the target's telemetry
\* is let through, no verdict read off the counters comes from nowhere: the
\* target did accept, reject or drop this case or an earlier one.
THEOREM VerdictsHaveCauses ==
    ASSUME SoleClient
    PROVE  Spec => []VerdictHasCause
<1>1. CauseInv => VerdictHasCause
  BY DEF CauseInv
<1>2. TypeOK /\ CauseInv /\ [Next]_vars => CauseInv'
  BY StepCause
<1> QED
  BY <1>1, <1>2, TypeCorrect, InitCause, PTL DEF Spec

-----------------------------------------------------------------------------
(***************************************************************************)
(* No effect is counted twice.  Everything sent has its place in one line, *)
(* the place of its case and step; a reading has the place of the request  *)
(* it answers.  Where nothing overtakes and nothing comes twice, the line  *)
(* runs from the readings already used through the socket, the way back    *)
(* and the way there to what is sent next.  So the readings behind two     *)
(* verdicts span disjoint pieces of it, and each piece holds its own       *)
(* effect.                                                                 *)
(***************************************************************************)
InOrder == SoleClient /\ Faults \cap {"duplicate", "reorder"} = {}

Place(m) == 3 * m.case + Rank(m.step)
CasePlace(i) == 3 * i + 2

\* The place of what is sent next.
NextPlace ==
    CASE pc \in {"receive", "health"} -> Place(Request) + 1
      [] pc = "send"                  -> Place(CasePacket)
      [] OTHER                        -> Place(Request)

Counted == {k \in Judgements : findings[k].verdict \in CounterVerdict}

\* The readings used, those in the socket and those on their way.
Used == {findings[k].after : k \in Counted} \cup ({before} \ {None})
Waiting == {d \in {inbox[i] : i \in DOMAIN inbox} : d.req # None}
Flying == {d \in downlink : d.req # None}

Ahead(S, R) == \A d \in S, x \in R : Place(d.req) < Place(x.req)

Sorted ==
    \A i, j \in DOMAIN inbox :
       i < j /\ inbox[i].req # None /\ inbox[j].req # None =>
          Place(inbox[i].req) < Place(inbox[j].req)

InLine ==
    /\ \A d \in Used : d \in Datagram /\ d.req # None /\ d.counters # None
    /\ Ahead(Used, Waiting) /\ Ahead(Used, Flying) /\ Ahead(Waiting, Flying)
    /\ Sorted
    /\ \A d, x \in Flying : Place(d.req) = Place(x.req) => d = x
    /\ \A d \in Used \cup Waiting \cup Flying :
          /\ Place(d.req) < NextPlace
          /\ \A m \in uplink : Place(d.req) < Place(m)
    /\ \A m \in uplink : Place(m) < NextPlace

HandledInLine ==
    \A i \in Cases : effects[i] # {} =>
       /\ CasePlace(i) < NextPlace
       /\ \A m \in uplink : CasePlace(i) < Place(m)

\* Two readings of the counter that e moves.
Moved(c, x, e) ==
    CASE e = "accept" -> c.command # x.command
      [] e = "reject" -> c.command_error # x.command_error
      [] e = "drop"   -> c.ingest_errors # x.ingest_errors

Counting == {"accept", "reject", "drop"}

\* The readings that may still be compared.
Live == {d \in ({before} \ {None}) \cup Waiting \cup Flying : d.counters # None}

MovedSince ==
    \A d \in Live, e \in Counting :
       Moved(d.counters, counters, e) =>
          \E i \in Cases : e \in effects[i] /\ Place(d.req) < CasePlace(i)

Between(d, x, e) ==
    \E i \in Cases : e \in effects[i] /\ Place(d.req) < CasePlace(i) /\ CasePlace(i) < Place(x.req)

MovedBetween ==
    \A d, x \in Live, e \in Counting :
       Place(d.req) < Place(x.req) /\ Moved(d.counters, x.counters, e) => Between(d, x, e)

\* What was counted happened between the two readings, and the pairs of
\* readings follow each other.
CountedBetween ==
    /\ \A k \in Counted :
          /\ findings[k].before \in Datagram /\ findings[k].before.req # None
          /\ Between(findings[k].before, findings[k].after, CauseOf(findings[k].verdict))
    /\ \A k, l \in Counted :
          k < l => Place(findings[k].after.req) < Place(findings[l].before.req)
    /\ before # None =>
          \A k \in Counted : Place(findings[k].after.req) < Place(before.req)

LineInv == InLine /\ HandledInLine /\ MovedSince /\ MovedBetween /\ CountedBetween

OnceInv == IF pc = "aborted" THEN findings = <<>> ELSE LineInv

LEMMA Places ==
    /\ \A m \in Message :
          /\ Place(m) \in Nat
          /\ m.step = "case" => Place(m) = CasePlace(m.case)
    /\ \A m, n \in Message :
          /\ Place(m) = Place(n) => m = n
          /\ ~SentBefore(n, m) => Place(m) <= Place(n)
<1>1. \A m \in Message :
         /\ m.case \in Nat /\ Rank(m.step) \in 1 .. 3
         /\ m = [case |-> m.case, step |-> m.step]
         /\ m.step = "case" => Rank(m.step) = 2
  BY TransportAssumption DEF Message, Cases, Step, Rank
<1>2. \A s, t \in Step : Rank(s) = Rank(t) => s = t
  BY DEF Step, Rank
<1>3. \A m \in Message : m.step \in Step
  BY DEF Message
<1>4. ASSUME NEW m \in Message, NEW n \in Message, Place(m) = Place(n)
      PROVE  m = n
  <2>1. m.case = n.case /\ Rank(m.step) = Rank(n.step)
    BY <1>1, <1>4 DEF Place
  <2> QED
    BY <1>1, <1>2, <1>3, <2>1
<1>5. ASSUME NEW m \in Message, NEW n \in Message, ~SentBefore(n, m)
      PROVE  Place(m) <= Place(n)
  BY <1>1, <1>5 DEF Place, SentBefore
<1>6. \A m \in Message : Place(m) \in Nat /\ (m.step = "case" => Place(m) = CasePlace(m.case))
  BY <1>1 DEF Place, CasePlace
<1> QED
  BY <1>4, <1>5, <1>6

LEMMA PlacesOfCase ==
    ASSUME NEW c \in Nat
    PROVE  /\ Place([case |-> c, step |-> "before"]) = 3 * c + 1
           /\ Place([case |-> c, step |-> "case"]) = 3 * c + 2
           /\ Place([case |-> c, step |-> "after"]) = 3 * c + 3
  BY DEF Place, Rank

\* What is sent next has the place after all that the case in hand has sent.
LEMMA NextPlaces ==
    ASSUME TypeOK
    PROVE  /\ CurrentCase \in Nat
           /\ pc = "send" => NextPlace = 3 * CurrentCase + 2 /\ Place(CasePacket) = NextPlace
           /\ pc \in {"receive", "health"} =>
                 NextPlace = IF phase = "before" THEN 3 * CurrentCase + 2 ELSE 3 * CurrentCase + 4
           /\ pc \notin {"receive", "health", "send"} =>
                 /\ NextPlace = IF phase = "before" THEN 3 * CurrentCase + 1
                                                    ELSE 3 * CurrentCase + 3
                 /\ Place(Request) = NextPlace
           /\ NextPlace \in Nat
<1>1. CurrentCase \in Nat
  BY LenProperties DEF TypeOK, CurrentCase
<1>2. /\ Place(CasePacket) = 3 * CurrentCase + 2
      /\ Place(Request) = IF phase = "before" THEN 3 * CurrentCase + 1 ELSE 3 * CurrentCase + 3
  BY <1>1, PlacesOfCase DEF CasePacket, Request, TypeOK
<1>3. CASE pc = "send"
  BY <1>1, <1>2, <1>3 DEF NextPlace
<1>4. CASE pc \in {"receive", "health"}
  BY <1>1, <1>2, <1>4 DEF NextPlace
<1>5. CASE pc \notin {"receive", "health", "send"}
  <2>1. NextPlace = Place(Request)
    BY <1>5 DEF NextPlace
  <2> QED
    BY <1>1, <1>2, <1>5, <2>1
<1> QED
  BY <1>1, <1>3, <1>4, <1>5

LEMMA InLineTyped ==
    ASSUME TypeOK, InLine
    PROVE  /\ \A d \in Used \cup Waiting \cup Flying :
                 d \in Datagram /\ d.req \in Message /\ Place(d.req) \in Nat
           /\ \A m \in uplink : m \in Message /\ Place(m) \in Nat
<1>1. \A d \in Used \cup Waiting \cup Flying : d \in Datagram /\ d.req # None
  BY DEF InLine, Waiting, Flying, TypeOK, TransportTypeOK
<1>2. \A d \in Datagram : d.req # None => d.req \in Message
  BY DEF Datagram
<1> QED
  BY <1>1, <1>2, Places DEF TypeOK, TransportTypeOK

\* Taking packets out of the line and moving on keeps it.
LEMMA FewerInLine ==
    ASSUME TypeOK, InLine, HandledInLine, effects' = effects, uplink' \subseteq uplink,
           Used' \subseteq Used, Waiting' \subseteq Waiting, Flying' \subseteq Flying, Sorted',
           NextPlace \in Nat, NextPlace' \in Nat, NextPlace <= NextPlace'
    PROVE  InLine' /\ HandledInLine'
<1>1. InLine'
  BY InLineTyped DEF InLine, Ahead
<1>2. HandledInLine'
  BY DEF HandledInLine, CasePlace, Cases
<1> QED
  BY <1>1, <1>2

LEMMA FewerMoved ==
    ASSUME MovedSince, MovedBetween, effects' = effects, counters' = counters,
           Live' \subseteq Live
    PROVE  MovedSince' /\ MovedBetween'
  BY DEF MovedSince, MovedBetween, Between

LEMMA TailInLine ==
    ASSUME TypeOK, Sorted, inbox # <<>>, inbox' = Tail(inbox)
    PROVE  /\ Sorted' /\ Waiting' \subseteq Waiting
           /\ Head(inbox).req # None =>
                 /\ Head(inbox) \in Waiting
                 /\ \A x \in Waiting' : Place(Head(inbox).req) < Place(x.req)
<1>1. /\ Len(inbox') = Len(inbox) - 1
      /\ \A i \in 1 .. Len(inbox') : inbox'[i] = inbox[i + 1]
      /\ Head(inbox) = inbox[1]
      /\ Len(inbox) \in Nat \ {0}
      /\ DOMAIN inbox' = 1 .. Len(inbox') /\ DOMAIN inbox = 1 .. Len(inbox)
  BY HeadTailProperties, EmptySeq DEF TypeOK, TransportTypeOK
<1>2. Sorted'
  BY <1>1 DEF Sorted
<1>3. ASSUME NEW x \in Waiting'
      PROVE  x \in Waiting /\ (Head(inbox).req # None => Place(Head(inbox).req) < Place(x.req))
  <2>1. PICK i \in DOMAIN inbox' : x = inbox'[i] /\ x.req # None
    BY DEF Waiting
  <2>2. x = inbox[i + 1] /\ i + 1 \in DOMAIN inbox /\ 1 \in DOMAIN inbox /\ 1 < i + 1
    BY <1>1, <2>1
  <2> QED
    BY <1>1, <2>1, <2>2 DEF Waiting, Sorted
<1>4. Head(inbox).req # None => Head(inbox) \in Waiting
  BY <1>1 DEF Waiting
<1> QED
  BY <1>2, <1>3, <1>4

LEMMA DeltaShows ==
    ASSUME NEW k, NEW a, NEW b, DeltaVerdict(k, a, b) \in CounterVerdict
    PROVE  /\ CauseOf(DeltaVerdict(k, a, b)) \in Counting
           /\ Moved(a.counters, b.counters, CauseOf(DeltaVerdict(k, a, b)))
<1> DEFINE v == DeltaVerdict(k, a, b)
<1>1. CASE v \in {"clean_accept", "unexpected_accept"}
  <2>1. Changed(a, b, "command")
    BY <1>1 DEF DeltaVerdict
  <2>2. CauseOf(v) = "accept"
    BY <1>1 DEF CauseOf
  <2> QED
    BY <2>1, <2>2 DEF Changed, Moved, Counting
<1>2. CASE v = "clean_reject"
  <2>1. Changed(a, b, "command_error")
    BY <1>2 DEF DeltaVerdict
  <2>2. CauseOf(v) = "reject"
    BY <1>2 DEF CauseOf
  <2> QED
    BY <2>1, <2>2 DEF Changed, Moved, Counting
<1>3. CASE v = "safe_drop"
  <2>1. Changed(a, b, "ingest_errors")
    BY <1>3 DEF DeltaVerdict
  <2>2. CauseOf(v) = "drop"
    BY <1>3 DEF CauseOf
  <2> QED
    BY <2>1, <2>2 DEF Changed, Moved, Counting
<1> QED
  BY <1>1, <1>2, <1>3 DEF CounterVerdict

LEMMA InitOnce == Init => OnceInv
  BY DEF Init, TransportInit, TargetInit, OnceInv, LineInv, InLine, HandledInLine, MovedSince,
         MovedBetween, CountedBetween, Used, Waiting, Flying, Live, Ahead, Sorted, Counted,
         Judgements

\* A step that neither counts nor sends.
LEMMA QuietStepOnce ==
    ASSUME TypeOK, LineInv, effects' = effects, counters' = counters,
           uplink' \subseteq uplink, Waiting' \subseteq Waiting, Flying' \subseteq Flying, Sorted',
           before' = before, findings' = findings,
           NextPlace' \in Nat, NextPlace <= NextPlace'
    PROVE  LineInv'
<1>1. Used' = Used /\ Live' \subseteq Live /\ Counted' = Counted
  BY DEF Used, Live, Counted, Judgements
<1>2. InLine' /\ HandledInLine'
  BY <1>1, FewerInLine, NextPlaces DEF LineInv
<1>3. MovedSince' /\ MovedBetween'
  BY <1>1, FewerMoved DEF LineInv
<1>4. CountedBetween'
  BY <1>1 DEF LineInv, CountedBetween, Between
<1> QED
  BY <1>2, <1>3, <1>4 DEF LineInv

\* What judge leaves when it files a finding.
LEMMA FiledOnce ==
    ASSUME TypeOK, pc \in Active, NEW v, NEW e, NEW a, Judged(v, e, a)
    PROVE  /\ \A k \in Counted : findings'[k] = findings[k] /\ k < CurrentCase
           /\ Counted' = Counted \cup (IF v \in CounterVerdict THEN {CurrentCase} ELSE {})
           /\ findings'[CurrentCase] = [verdict |-> v, error |-> e, before |-> before, after |-> a]
           /\ before' = None
           /\ pc' # "aborted"
           /\ NextPlace' \in Nat /\ NextPlace' = 3 * CurrentCase + 4
           /\ NextPlace <= NextPlace'
<1>1. /\ findings' = Append(findings, [verdict |-> v, error |-> e, before |-> before, after |-> a])
      /\ pc' \in {"finished", "drain"} /\ phase' = "before" /\ before' = None
  BY DEF Judged
<1>2. /\ Len(findings') = Len(findings) + 1
      /\ \A k \in 1 .. Len(findings) : findings'[k] = findings[k]
      /\ findings'[Len(findings) + 1] = [verdict |-> v, error |-> e, before |-> before, after |-> a]
      /\ DOMAIN findings' = 1 .. Len(findings')
      /\ DOMAIN findings = 1 .. Len(findings)
      /\ Len(findings) \in Nat
  BY <1>1 DEF TypeOK
<1>3. \A k \in Counted : findings'[k] = findings[k] /\ k < CurrentCase
  BY <1>2 DEF Counted, Judgements, CurrentCase
<1>4. findings'[CurrentCase].verdict = v
  BY <1>2 DEF CurrentCase
<1>5. Counted' = Counted \cup (IF v \in CounterVerdict THEN {CurrentCase} ELSE {})
  <2>1. DOMAIN findings' = DOMAIN findings \cup {CurrentCase} /\ CurrentCase \notin DOMAIN findings
    BY <1>2 DEF CurrentCase
  <2> QED
    BY <1>2, <1>4, <2>1 DEF Counted, Judgements
<1>6. NextPlace' = 3 * CurrentCase + 4
  <2>1. CurrentCase' = CurrentCase + 1 /\ CurrentCase \in Nat
    BY <1>2 DEF CurrentCase
  <2>2. NextPlace' = Place([case |-> CurrentCase', step |-> "before"])
    BY <1>1 DEF NextPlace, Request
  <2>3. CurrentCase' \in Nat
    BY <2>1
  <2>4. Place([case |-> CurrentCase', step |-> "before"]) = 3 * CurrentCase' + 1
    BY <2>3, PlacesOfCase
  <2> QED
    BY <2>1, <2>2, <2>4
<1>7. NextPlace' \in Nat /\ NextPlace <= NextPlace'
  BY <1>6, NextPlaces DEF Active
<1> QED
  BY <1>1, <1>2, <1>3, <1>5, <1>6, <1>7 DEF CurrentCase

\* A finding that counts nothing.
LEMMA FiledNothingOnce ==
    ASSUME TypeOK, LineInv, pc \in Active, NEW v, NEW e, NEW a, Judged(v, e, a),
           v \notin CounterVerdict, effects' = effects, counters' = counters,
           UNCHANGED <<uplink, downlink, inbox>>
    PROVE  LineInv' /\ pc' # "aborted"
<1>1. /\ \A k \in Counted : findings'[k] = findings[k]
      /\ Counted' = Counted /\ before' = None /\ pc' # "aborted"
      /\ NextPlace' \in Nat /\ NextPlace <= NextPlace'
  BY FiledOnce
<1>2. Waiting' = Waiting /\ Flying' = Flying /\ Sorted'
  BY DEF Waiting, Flying, Sorted, LineInv, InLine
<1>3. Used' \subseteq Used /\ Live' \subseteq Live
  BY <1>1, <1>2 DEF Used, Live
<1>4. InLine' /\ HandledInLine'
  BY <1>1, <1>2, <1>3, FewerInLine, NextPlaces DEF LineInv
<1>5. MovedSince' /\ MovedBetween'
  BY <1>3, FewerMoved DEF LineInv
<1>6. CountedBetween'
  BY <1>1 DEF LineInv, CountedBetween, Between
<1> QED
  BY <1>1, <1>4, <1>5, <1>6 DEF LineInv

\* A packet sent takes its place at the end of the line.
LEMMA SentOnce ==
    ASSUME TypeOK, LineInv, NEW m \in Message, Send(m), Place(m) = NextPlace,
           NextPlace' = NextPlace + 1, UNCHANGED <<downlink, inbox, counters, effects, before, findings>>
    PROVE  LineInv'
<1>1. /\ Used' = Used /\ Waiting' = Waiting /\ Flying' = Flying /\ Live' = Live
      /\ Counted' = Counted /\ (Sorted' <=> Sorted)
  BY DEF Used, Waiting, Flying, Live, Counted, Judgements, Sorted
<1>2. uplink' = uplink \cup {m} /\ NextPlace \in Nat
  BY NextPlaces DEF Send
<1>3. InLine'
  BY <1>1, <1>2, InLineTyped DEF LineInv, InLine, Ahead
<1>4. HandledInLine'
  BY <1>2, InLineTyped DEF LineInv, HandledInLine, CasePlace, Cases
<1>5. MovedSince' /\ MovedBetween'
  BY <1>1, FewerMoved DEF LineInv
<1>6. CountedBetween'
  BY <1>1 DEF LineInv, CountedBetween, Between
<1> QED
  BY <1>3, <1>4, <1>5, <1>6 DEF LineInv

\* What receive returns answers a request of this suite.
LEMMA ReceivedInLine ==
    ASSUME TypeOK, CauseInv, SoleClient, LineInv, Receive
    PROVE  /\ Head(inbox) \in Waiting /\ Head(inbox).req # None /\ Head(inbox) \in Datagram
           /\ Head(inbox).counters # None => Head(inbox) \in Live
           /\ Sorted' /\ Waiting' \subseteq Waiting
           /\ \A x \in Waiting' : Place(Head(inbox).req) < Place(x.req)
           /\ Flying' = Flying
<1>1. \A i \in DOMAIN inbox : Honest(inbox[i])
  BY DEF CauseInv, ReadingsAgree
<1>2. inbox # <<>> /\ inbox' = Tail(inbox) /\ Accepts(Head(inbox)) /\ downlink' = downlink
  BY DEF Receive
<1>3. Head(inbox) = inbox[1] /\ 1 \in DOMAIN inbox /\ Head(inbox) \in Datagram
  BY <1>2, InboxTyped, HeadTailProperties, EmptySeq DEF TypeOK, TransportTypeOK
<1>4. Head(inbox).req # None
  BY <1>1, <1>2, <1>3 DEF Honest, SoleClient, Accepts
<1>5. Sorted
  BY DEF LineInv, InLine
<1> QED
  BY <1>2, <1>3, <1>4, <1>5, TailInLine DEF Live, Flying

LEMMA FirstReadingOnce ==
    ASSUME TypeOK, CauseInv, SoleClient, LineInv, ReceiveCounters, phase = "before"
    PROVE  LineInv' /\ pc' # "aborted"
<1> DEFINE d == Head(inbox)
<1>1. /\ Receive /\ d.counters # None /\ pc = "receive"
      /\ before' = d /\ pc' = "send" /\ phase' = phase /\ findings' = findings
      /\ uplink' = uplink /\ counters' = counters /\ effects' = effects
  BY DEF ReceiveCounters, Receive, FirstReading, targetVars
<1>2. /\ d \in Waiting /\ d.req # None /\ d \in Datagram /\ d # None /\ d \in Live
      /\ Sorted' /\ Waiting' \subseteq Waiting /\ Flying' = Flying
      /\ \A x \in Waiting' : Place(d.req) < Place(x.req)
  BY <1>1, ReceivedInLine, NoneIsNoPacket
<1>3. NextPlace' = NextPlace /\ NextPlace \in Nat
  <2>1. CurrentCase' = CurrentCase /\ CurrentCase \in Nat
    BY <1>1, NextPlaces DEF CurrentCase
  <2>2. NextPlace' = Place([case |-> CurrentCase, step |-> "case"])
    BY <1>1, <2>1 DEF NextPlace, CasePacket
  <2> QED
    BY <1>1, <2>1, <2>2, PlacesOfCase, NextPlaces
<1>4. Counted' = Counted /\ Used' \subseteq Used \cup {d} /\ Live' \subseteq Live
  BY <1>1, <1>2 DEF Counted, Judgements, Used, Live
<1>5. InLine'
  <2> HIDE DEF d
  <2>1. \A x \in Used' : x \in Datagram /\ x.req # None /\ x.counters # None
    BY <1>1, <1>2, <1>4 DEF LineInv, InLine
  <2>2. Ahead(Used', Waiting') /\ Ahead(Used', Flying') /\ Ahead(Waiting', Flying')
    BY <1>2, <1>4 DEF LineInv, InLine, Ahead
  <2>3. \A x \in Used' \cup Waiting' \cup Flying' :
          /\ Place(x.req) < NextPlace'
          /\ \A m \in uplink' : Place(x.req) < Place(m)
    BY <1>1, <1>2, <1>3, <1>4 DEF LineInv, InLine
  <2> QED
    BY <1>1, <1>2, <1>3, <2>1, <2>2, <2>3 DEF LineInv, InLine, Ahead
<1>6. HandledInLine'
  BY <1>1, <1>3 DEF LineInv, HandledInLine
<1>7. MovedSince' /\ MovedBetween'
  BY <1>1, <1>4, FewerMoved DEF LineInv
<1>8. CountedBetween'
  <2>1. \A k \in Counted : findings[k].after \in Used
    BY DEF Used
  <2>2. \A k \in Counted : Place(findings[k].after.req) < Place(d.req)
    BY <1>2, <2>1 DEF LineInv, InLine, Ahead
  <2> HIDE DEF d
  <2> QED
    BY <1>1, <1>4, <2>2 DEF LineInv, CountedBetween, Between
<1> QED
  BY <1>1, <1>5, <1>6, <1>7, <1>8 DEF LineInv

LEMMA SecondReadingOnce ==
    ASSUME TypeOK, CauseInv, SoleClient, LineInv, ReceiveCounters, phase = "after"
    PROVE  LineInv' /\ pc' # "aborted"
<1> DEFINE d == Head(inbox)
<1> DEFINE v == DeltaVerdict(CurrentCase, before, d)
<1>1. /\ Receive /\ d.counters # None /\ pc = "receive"
      /\ Judged(v, "none", d)
      /\ uplink' = uplink /\ counters' = counters /\ effects' = effects
  BY DEF ReceiveCounters, Receive, targetVars
<1>2. /\ d \in Waiting /\ d.req # None /\ d \in Datagram /\ d \in Live
      /\ Sorted' /\ Waiting' \subseteq Waiting /\ Flying' = Flying
      /\ \A x \in Waiting' : Place(d.req) < Place(x.req)
  BY <1>1, ReceivedInLine
<1>3. /\ \A k \in Counted : findings'[k] = findings[k] /\ k < CurrentCase
      /\ Counted' = Counted \cup (IF v \in CounterVerdict THEN {CurrentCase} ELSE {})
      /\ findings'[CurrentCase] = [verdict |-> v, error |-> "none", before |-> before, after |-> d]
      /\ before' = None /\ pc' # "aborted"
      /\ NextPlace' \in Nat /\ NextPlace <= NextPlace' /\ NextPlace \in Nat
  BY <1>1, FiledOnce, NextPlaces DEF Active
<1>4. before # None /\ before \in Datagram /\ before \in Used /\ before.counters # None
  BY <1>1 DEF CauseInv, FirstReadingKept, ReadingsAgree, Used, TypeOK
<1>5. before \in Live /\ Place(before.req) < Place(d.req) /\ before.req # None
  BY <1>2, <1>4 DEF Live, LineInv, InLine, Ahead
<1>6. v \in CounterVerdict => Between(before, d, CauseOf(v))
  <2>1. v \in CounterVerdict =>
          CauseOf(v) \in Counting /\ Moved(before.counters, d.counters, CauseOf(v))
    BY DeltaShows
  <2> QED
    BY <1>2, <1>5, <2>1 DEF LineInv, MovedBetween
<1> HIDE DEF d, v
<1>7. Used' \subseteq Used \cup {d} /\ Live' \subseteq Live
  <2>1. ASSUME NEW k \in Counted'
        PROVE  findings'[k].after \in Used \cup {d}
    <3>1. CASE k \in Counted
      BY <1>3, <3>1 DEF Used
    <3>2. CASE k = CurrentCase
      BY <1>3, <3>2
    <3> QED
      BY <1>3, <2>1, <3>1, <3>2
  <2>2. Used' \subseteq Used \cup {d}
    BY <1>3, <2>1 DEF Used
  <2>3. Live' \subseteq Live
    BY <1>2, <1>3 DEF Live
  <2> QED
    BY <2>2, <2>3
<1>8. InLine'
  <2>1. \A x \in Used' : x \in Datagram /\ x.req # None /\ x.counters # None
    BY <1>1, <1>2, <1>7 DEF LineInv, InLine, d
  <2>2. Ahead(Used', Waiting') /\ Ahead(Used', Flying') /\ Ahead(Waiting', Flying')
    BY <1>2, <1>7 DEF LineInv, InLine, Ahead
  <2>3. \A x \in Used \cup Waiting \cup Flying : Place(x.req) \in Nat
    BY InLineTyped DEF LineInv
  <2>4. \A x \in Used' \cup Waiting' \cup Flying' :
          /\ Place(x.req) < NextPlace'
          /\ \A m \in uplink' : Place(x.req) < Place(m)
    BY <1>1, <1>2, <1>3, <1>7, <2>3 DEF LineInv, InLine
  <2>5. \A m \in uplink' : Place(m) < NextPlace'
    BY <1>1, <1>3, InLineTyped DEF LineInv, InLine
  <2> QED
    BY <1>1, <1>2, <2>1, <2>2, <2>4, <2>5 DEF LineInv, InLine, Ahead
<1>9. HandledInLine'
  BY <1>1, <1>3 DEF LineInv, HandledInLine, CasePlace, Cases
<1>10. MovedSince' /\ MovedBetween'
  BY <1>1, <1>7, FewerMoved DEF LineInv
<1>11. CountedBetween'
  <2>1. ASSUME NEW k \in Counted'
        PROVE  /\ findings'[k].before \in Datagram /\ findings'[k].before.req # None
               /\ Between(findings'[k].before, findings'[k].after, CauseOf(findings'[k].verdict))
    <3>1. CASE k \in Counted
      BY <1>3, <3>1 DEF LineInv, CountedBetween
    <3>2. CASE k = CurrentCase /\ v \in CounterVerdict
      BY <1>3, <1>4, <1>5, <1>6, <3>2
    <3> QED
      BY <1>3, <2>1, <3>1, <3>2
  <2>2. ASSUME NEW k \in Counted', NEW l \in Counted', k < l
        PROVE  Place(findings'[k].after.req) < Place(findings'[l].before.req)
    <3>1. k \in Counted
      <4>1. Counted \subseteq Nat /\ CurrentCase \in Nat
        BY NextPlaces DEF Counted, Judgements, TypeOK
      <4>2. (k \in Counted \/ k = CurrentCase) /\ (l \in Counted \/ l = CurrentCase)
        BY <1>3, <2>2
      <4>3. l \in Nat /\ l <= CurrentCase
        BY <1>3, <4>1, <4>2
      <4>4. k # CurrentCase
        BY <2>2, <4>1, <4>3
      <4> QED
        BY <4>2, <4>4
    <3>2. CASE l \in Counted
      BY <1>3, <2>2, <3>1, <3>2 DEF LineInv, CountedBetween
    <3>3. CASE l = CurrentCase
      BY <1>3, <1>4, <3>1, <3>3 DEF LineInv, CountedBetween
    <3> QED
      BY <1>3, <2>2, <3>2, <3>3
  <2> QED
    BY <1>1, <1>3, <2>1, <2>2 DEF CountedBetween, Between
<1> QED
  BY <1>3, <1>8, <1>9, <1>10, <1>11 DEF LineInv

\* A reading arrives behind those the socket already has.
LEMMA DeliveredOnce ==
    ASSUME TypeOK, InOrder, LineInv, DeliverDatagram, UNCHANGED <<targetVars, oracleVars>>
    PROVE  LineInv'
<1>1. PICK d \in downlink :
        /\ NextDown(d) /\ downlink' \in AfterArrival(d, downlink)
        /\ inbox' = IF Len(inbox) < InboxCap THEN Append(inbox, d) ELSE inbox
  BY DEF DeliverDatagram
<1>2. /\ downlink' = downlink \ {d} /\ uplink' = uplink
      /\ UNCHANGED <<counters, effects, before, findings, pc, phase>>
  BY <1>1 DEF DeliverDatagram, AfterArrival, InOrder, targetVars, oracleVars
<1>3. NextPlace' = NextPlace /\ NextPlace \in Nat /\ Used' = Used /\ Counted' = Counted
  BY <1>2, NextPlaces
     DEF NextPlace, Request, CasePacket, CurrentCase, Used, Counted, Judgements
<1>4. Flying' = Flying \ {d}
  BY <1>2 DEF Flying
<1>5. CASE inbox' = inbox
  BY <1>2, <1>3, <1>4, <1>5, QuietStepOnce DEF Waiting, LineInv, InLine, Sorted
<1>6. CASE inbox' = Append(inbox, d)
  <2>1. /\ DOMAIN inbox' = DOMAIN inbox \cup {Len(inbox) + 1}
        /\ \A i \in DOMAIN inbox : inbox'[i] = inbox[i] /\ i < Len(inbox) + 1
        /\ inbox'[Len(inbox) + 1] = d
        /\ Len(inbox) \in Nat /\ DOMAIN inbox \subseteq Nat
    BY <1>6 DEF TypeOK, TransportTypeOK
  <2>2. CASE d.req = None
    <3>1. Waiting' = Waiting
      BY <2>1, <2>2 DEF Waiting
    <3>2. Sorted'
      BY <2>1, <2>2 DEF Sorted, LineInv, InLine
    <3> QED
      BY <1>2, <1>3, <1>4, <3>1, <3>2, QuietStepOnce
  <2>3. CASE d.req # None
    <3>1. d \in Flying /\ Waiting' = Waiting \cup {d}
      BY <1>1, <2>1, <2>3 DEF Waiting, Flying
    <3>2. \A x \in Flying' : Place(d.req) < Place(x.req)
      <4>1. \A x \in Flying : d.req \in Message /\ x.req \in Message
        BY <3>1, InLineTyped DEF LineInv
      <4>2. \A x \in Flying : ~SentBefore(x.req, d.req)
        BY <1>1, <2>3 DEF NextDown, InOrder, Flying
      <4>3. \A x \in Flying : Place(d.req) <= Place(x.req) /\ (Place(d.req) = Place(x.req) => d = x)
        BY <3>1, <4>1, <4>2, Places DEF LineInv, InLine
      <4> QED
        BY <1>4, <3>1, <4>3, InLineTyped DEF LineInv
    <3>3. Sorted'
      <4>1. \A x \in Waiting : Place(x.req) < Place(d.req)
        BY <3>1 DEF LineInv, InLine, Ahead
      <4>2. \A i \in DOMAIN inbox : inbox[i].req # None => Place(inbox[i].req) < Place(d.req)
        BY <4>1 DEF Waiting
      <4>3. Sorted
        BY DEF LineInv, InLine
      <4>4. ASSUME NEW i \in DOMAIN inbox', NEW j \in DOMAIN inbox', i < j,
                   inbox'[i].req # None, inbox'[j].req # None
            PROVE  Place(inbox'[i].req) < Place(inbox'[j].req)
        <5>1. i \in DOMAIN inbox
          BY <2>1, <4>4
        <5>2. CASE j \in DOMAIN inbox
          BY <2>1, <4>3, <4>4, <5>1, <5>2 DEF Sorted
        <5>3. CASE j = Len(inbox) + 1
          BY <2>1, <4>2, <4>4, <5>1, <5>3
        <5> QED
          BY <2>1, <5>2, <5>3
      <4> QED
        BY <4>4 DEF Sorted
    <3>4. Live' \subseteq Live
      BY <1>2, <1>4, <3>1 DEF Live
    <3>5. InLine'
      <4>1. \A x \in Used' : x \in Datagram /\ x.req # None /\ x.counters # None
        BY <1>3 DEF LineInv, InLine
      <4>2. Ahead(Used', Waiting') /\ Ahead(Used', Flying') /\ Ahead(Waiting', Flying')
        BY <1>3, <1>4, <3>1, <3>2 DEF LineInv, InLine, Ahead
      <4>3. \A x \in Used' \cup Waiting' \cup Flying' :
              /\ Place(x.req) < NextPlace'
              /\ \A m \in uplink' : Place(x.req) < Place(m)
        BY <1>2, <1>3, <1>4, <3>1 DEF LineInv, InLine
      <4> QED
        BY <1>2, <1>3, <1>4, <3>3, <4>1, <4>2, <4>3 DEF LineInv, InLine, Ahead
    <3>6. HandledInLine'
      BY <1>2, <1>3 DEF LineInv, HandledInLine
    <3>7. MovedSince' /\ MovedBetween'
      BY <1>2, <3>4, FewerMoved DEF LineInv
    <3>8. CountedBetween'
      BY <1>2, <1>3 DEF LineInv, CountedBetween, Between
    <3> QED
      BY <3>5, <3>6, <3>7, <3>8 DEF LineInv
  <2> QED
    BY <2>2, <2>3
<1> QED
  BY <1>1, <1>5, <1>6

LEMMA NetworkStepOnce ==
    ASSUME TypeOK, InOrder, LineInv, NetworkNext, UNCHANGED <<targetVars, oracleVars>>
    PROVE  LineInv'
<1>1. /\ UNCHANGED <<counters, effects, before, findings, pc, phase>>
      /\ NextPlace' = NextPlace /\ NextPlace \in Nat
  BY NextPlaces DEF targetVars, oracleVars, NextPlace, Request, CasePacket, CurrentCase
<1>2. CASE LoseMessage \/ LoseDatagram \/ ForeignDatagram
  <2>1. uplink' \subseteq uplink /\ inbox' = inbox
    BY <1>2 DEF LoseMessage, LoseDatagram, ForeignDatagram
  <2>2. Flying' \subseteq Flying
    BY <1>2 DEF LoseMessage, LoseDatagram, ForeignDatagram, Flying
  <2>3. Waiting' = Waiting /\ Sorted'
    BY <2>1 DEF Waiting, Sorted, LineInv, InLine
  <2> QED
    BY <1>1, <2>1, <2>2, <2>3, QuietStepOnce
<1>3. CASE DeliverDatagram
  BY <1>3, DeliveredOnce
<1> QED
  BY <1>2, <1>3 DEF NetworkNext

\* What the target takes from the line is the first of what it is sent.
LEMMA FirstOfUplink ==
    ASSUME TypeOK, InOrder, NEW m \in uplink, NextUp(m), uplink' \in AfterArrival(m, uplink)
    PROVE  /\ uplink' = uplink \ {m} /\ m \in Message
           /\ \A n \in uplink' : Place(m) < Place(n)
<1>1. uplink' = uplink \ {m}
  BY DEF AfterArrival, InOrder
<1>2. \A n \in uplink : n \in Message /\ ~SentBefore(n, m)
  BY DEF NextUp, InOrder, TypeOK, TransportTypeOK
<1>3. \A n \in uplink : Place(m) <= Place(n) /\ (Place(m) = Place(n) => m = n)
  BY <1>2, Places
<1>4. \A n \in uplink : Place(n) \in Nat
  BY <1>2, Places
<1> QED
  BY <1>1, <1>2, <1>3, <1>4

\* An answer is the last reading, and shows the counters as they are.
LEMMA AnswerHkOnce ==
    ASSUME TypeOK, InOrder, LineInv, AnswerHk, UNCHANGED oracleVars
    PROVE  LineInv'
<1>1. /\ UNCHANGED <<counters, effects, inbox, before, findings>>
      /\ NextPlace' = NextPlace /\ NextPlace \in Nat
  BY NextPlaces
     DEF AnswerHk, targetVars, oracleVars, NextPlace, Request, CasePacket, CurrentCase
<1>2. PICK m \in uplink, c \in {counters, None} :
        /\ NextUp(m) /\ uplink' \in AfterArrival(m, uplink)
        /\ downlink' = downlink \cup {[req |-> m, counters |-> c]}
  BY DEF AnswerHk
<1> DEFINE d == [req |-> m, counters |-> c]
<1>3. /\ uplink' = uplink \ {m} /\ m \in Message
      /\ \A n \in uplink' : Place(m) < Place(n)
  BY <1>2, FirstOfUplink
<1>4. d.req = m /\ d.counters = c /\ d \in Datagram /\ m # None
  <2>1. d \in Datagram
    BY <1>2, AnswerTyped DEF TypeOK
  <2> QED
    BY <1>3, <2>1, NoneIsNoPacket
<1> HIDE DEF d
<1>5. /\ Used' = Used /\ Waiting' = Waiting /\ Counted' = Counted
      /\ Flying' = Flying \cup {d} /\ Live' \subseteq Live \cup {d} /\ (Sorted' <=> Sorted)
  BY <1>1, <1>2, <1>4 DEF Used, Waiting, Counted, Judgements, Flying, Live, Sorted, d
<1>6. \A x \in Used \cup Waiting \cup Flying : Place(x.req) < Place(m) /\ Place(x.req) \in Nat
  BY <1>2, InLineTyped DEF LineInv, InLine
<1>7. Place(m) < NextPlace /\ Place(m) \in Nat
  BY <1>2, <1>3, Places DEF LineInv, InLine
<1>8. InLine'
  <2>1. \A x \in Used' : x \in Datagram /\ x.req # None /\ x.counters # None
    BY <1>5 DEF LineInv, InLine
  <2>2. Ahead(Used', Waiting') /\ Ahead(Used', Flying') /\ Ahead(Waiting', Flying')
    BY <1>4, <1>5, <1>6 DEF LineInv, InLine, Ahead
  <2>3. \A x, y \in Flying' : Place(x.req) = Place(y.req) => x = y
    BY <1>4, <1>5, <1>6, <1>7 DEF LineInv, InLine
  <2>4. \A x \in Used' \cup Waiting' \cup Flying' :
          /\ Place(x.req) < NextPlace'
          /\ \A n \in uplink' : Place(x.req) < Place(n)
    BY <1>1, <1>3, <1>4, <1>5, <1>7 DEF LineInv, InLine
  <2> QED
    BY <1>1, <1>3, <1>5, <2>1, <2>2, <2>3, <2>4 DEF LineInv, InLine
<1>9. HandledInLine'
  BY <1>1, <1>3 DEF LineInv, HandledInLine
<1>10. MovedSince'
  <2>1. d \in Live' => d.counters = counters
    BY <1>2, <1>4 DEF Live
  <2>2. \A e \in Counting : ~Moved(counters, counters, e)
    BY DEF Moved, Counting
  <2> QED
    BY <1>1, <1>5, <2>1, <2>2 DEF LineInv, MovedSince
<1>11. MovedBetween'
  <2> SUFFICES ASSUME NEW y \in Live', NEW x \in Live', NEW e \in Counting,
                      Place(y.req) < Place(x.req), Moved(y.counters, x.counters, e)
               PROVE  Between(y, x, e)
    BY <1>1 DEF MovedBetween, Between
  <2>0. Live \subseteq Used \cup Waiting \cup Flying
    BY DEF Live, Used
  <2>1. CASE y = d
    <3>1. x # d => Place(x.req) < Place(y.req) /\ Place(x.req) \in Nat
      BY <1>4, <1>5, <1>6, <2>0, <2>1
    <3> QED
      BY <1>4, <1>7, <2>1, <3>1
  <2>2. CASE y # d /\ x = d
    <3>1. y \in Live /\ x.counters = counters
      BY <1>2, <1>4, <1>5, <2>2 DEF Live
    <3>2. PICK i \in Cases : e \in effects[i] /\ Place(y.req) < CasePlace(i)
      BY <3>1 DEF LineInv, MovedSince
    <3>3. CasePlace(i) < Place(m)
      BY <1>2, <3>2 DEF LineInv, HandledInLine
    <3> QED
      BY <1>4, <2>2, <3>2, <3>3 DEF Between
  <2>3. CASE y # d /\ x # d
    BY <1>5, <2>3 DEF LineInv, MovedBetween
  <2> QED
    BY <2>1, <2>2, <2>3
<1>12. CountedBetween'
  BY <1>1, <1>5 DEF LineInv, CountedBetween, Between
<1> QED
  BY <1>8, <1>9, <1>10, <1>11, <1>12 DEF LineInv

\* A case handled comes after every reading there is.
LEMMA HandleCaseOnce ==
    ASSUME TypeOK, InOrder, LineInv, HandleCase, UNCHANGED oracleVars
    PROVE  LineInv'
<1>1. /\ UNCHANGED <<downlink, inbox, before, findings>>
      /\ NextPlace' = NextPlace /\ NextPlace \in Nat
  BY NextPlaces DEF HandleCase, oracleVars, NextPlace, Request, CasePacket, CurrentCase
<1>2. PICK m \in uplink, e \in Effect :
        /\ NextUp(m) /\ m.step = "case" /\ uplink' \in AfterArrival(m, uplink)
        /\ counters' = CountersAfter(counters, e)
        /\ effects' = [effects EXCEPT ![m.case] = @ \cup {e}]
  BY DEF HandleCase
<1>3. /\ uplink' = uplink \ {m} /\ m \in Message
      /\ \A n \in uplink' : Place(m) < Place(n)
      /\ m.case \in Cases /\ Place(m) = CasePlace(m.case)
  BY <1>2, FirstOfUplink, Places DEF Message
<1>4. /\ Used' = Used /\ Waiting' = Waiting /\ Counted' = Counted
      /\ Flying' = Flying /\ Live' = Live /\ (Sorted' <=> Sorted)
  BY <1>1 DEF Used, Waiting, Counted, Judgements, Flying, Live, Sorted
<1>5. /\ \A i \in Cases : effects[i] \subseteq effects'[i]
      /\ \A i \in Cases : i # m.case => effects'[i] = effects[i]
      /\ e \in effects'[m.case]
  BY <1>2, <1>3 DEF TypeOK, TargetTypeOK
<1>6. InLine'
  BY <1>1, <1>3, <1>4 DEF LineInv, InLine
<1>7. HandledInLine'
  <2>1. Place(m) < NextPlace
    BY <1>2 DEF LineInv, InLine
  <2> QED
    BY <1>1, <1>3, <1>5, <2>1 DEF LineInv, HandledInLine
<1>8. \A d, x, f : Between(d, x, f) => Between(d, x, f)'
  BY <1>5 DEF Between
<1>9. MovedSince'
  <2> SUFFICES ASSUME NEW d \in Live, NEW f \in Counting, Moved(d.counters, counters', f)
               PROVE  \E i \in Cases : f \in effects'[i] /\ Place(d.req) < CasePlace(i)
    BY <1>4 DEF MovedSince
  <2>1. CASE Moved(d.counters, counters, f)
    BY <1>5, <2>1 DEF LineInv, MovedSince
  <2>2. CASE ~Moved(d.counters, counters, f)
    <3>1. Moved(counters, counters', f)
      BY <2>2 DEF Moved, Counting
    <3>2. f = e
      <4>1. counters \in Counters
        BY DEF TypeOK, TargetTypeOK
      <4>2. CASE e = "accept"
        BY <1>2, <3>1, <4>1, <4>2 DEF CountersAfter, Counters, Moved, Counting
      <4>3. CASE e = "reject"
        BY <1>2, <3>1, <4>1, <4>3 DEF CountersAfter, Counters, Moved, Counting
      <4>4. CASE e = "drop"
        BY <1>2, <3>1, <4>1, <4>4 DEF CountersAfter, Counters, Moved, Counting
      <4>5. CASE e \notin Counting
        <5>1. counters' = counters
          BY <1>2, <4>5 DEF CountersAfter, Counting
        <5> QED
          BY <3>1, <5>1 DEF Moved, Counting
      <4> QED
        BY <4>2, <4>3, <4>4, <4>5 DEF Counting
    <3>3. Place(d.req) < Place(m)
      BY <1>2 DEF LineInv, InLine, Live, Used
    <3> QED
      BY <1>3, <1>5, <3>2, <3>3
  <2> QED
    BY <2>1, <2>2
<1>10. MovedBetween'
  BY <1>4, <1>8 DEF LineInv, MovedBetween
<1>11. CountedBetween'
  BY <1>1, <1>4, <1>8 DEF LineInv, CountedBetween
<1> QED
  BY <1>6, <1>7, <1>9, <1>10, <1>11 DEF LineInv

LEMMA OracleStepOnce ==
    ASSUME TypeOK, CauseInv, InOrder, OnceInv, OracleNext, TypeOK'
    PROVE  OnceInv'
<1> USE DEF Active
<1>1. counters' = counters /\ effects' = effects /\ downlink' = downlink /\ Flying' = Flying
  BY DEF OracleNext, Drain, DrainReply, EndDrain, RequestCounters, RequestFails,
         ReceiveCounters, Receive, ReplyTooShort, SkipReply, SkipForeign, NoReply,
         ReceiveTimesOut, ReadFails, ReceiveFails, CheckHealth, SendCase, SendCaseFails,
         targetVars, transportVars, Flying
<1>2. LineInv /\ pc # "aborted"
  BY DEF OnceInv, OracleNext, Drain, EndDrain, RequestCounters, RequestFails, ReceiveCounters,
         ReplyTooShort, SkipReply, NoReply, ReadFails, CheckHealth, SendCase, SendCaseFails
<1>3. Sorted /\ CurrentCase \in Nat /\ NextPlace \in Nat
  BY <1>2, NextPlaces DEF LineInv, InLine
\* Steps that take nothing but, at most, the first of the socket.
<1>4. ASSUME before' = before, findings' = findings, uplink' = uplink, pc' # "aborted",
             inbox' = inbox \/ (inbox # <<>> /\ inbox' = Tail(inbox)), NextPlace' = NextPlace
      PROVE  OnceInv'
  <2>1. Sorted' /\ Waiting' \subseteq Waiting
    <3>1. CASE inbox' = inbox
      BY <1>3, <3>1 DEF Sorted, Waiting
    <3>2. CASE inbox # <<>> /\ inbox' = Tail(inbox)
      BY <1>3, <3>2, TailInLine
    <3> QED
      BY <1>4, <3>1, <3>2
  <2>2. LineInv'
    BY <1>1, <1>2, <1>3, <1>4, <2>1, QuietStepOnce
  <2> QED
    BY <1>4, <2>2 DEF OnceInv
\* Steps that file a finding without a count.
<1>5. ASSUME NEW v, NEW e, NEW a, Judged(v, e, a), v \notin CounterVerdict, pc \in Active,
             UNCHANGED <<uplink, downlink, inbox>>
      PROVE  OnceInv'
  BY <1>1, <1>2, <1>5, FiledNothingOnce DEF OnceInv
<1>6. CASE Drain
  <2>1. UNCHANGED <<before, findings, uplink, pc, phase>> /\ inbox # <<>> /\ inbox' = Tail(inbox)
    BY <1>6 DEF Drain, DrainReply, oracleVars
  <2>2. NextPlace' = NextPlace
    BY <2>1 DEF NextPlace, Request, CasePacket, CurrentCase
  <2> QED
    BY <1>2, <1>4, <2>1, <2>2
<1>7. CASE EndDrain
  <2>1. UNCHANGED <<before, findings, uplink, inbox, phase>> /\ pc = "drain" /\ pc' = "request"
    BY <1>7 DEF EndDrain, transportVars
  <2>2. NextPlace' = NextPlace
    BY <2>1 DEF NextPlace, Request, CasePacket, CurrentCase
  <2> QED
    BY <1>4, <2>1, <2>2
<1>8. CASE RequestCounters
  <2>1. /\ UNCHANGED <<downlink, inbox, before, findings, phase>> /\ Send(Request)
        /\ pc = "request" /\ pc' = "receive"
    BY <1>8 DEF RequestCounters
  <2>2. Place(Request) = NextPlace /\ Request \in Message
    BY <2>1, NextPlaces, MessagesTyped
  <2>3. NextPlace' = NextPlace + 1
    BY <2>1, <2>2 DEF NextPlace, Request, CurrentCase
  <2> QED
    BY <1>1, <1>2, <2>1, <2>2, <2>3, SentOnce DEF OnceInv
<1>9. CASE RequestFails
  BY <1>5, <1>9 DEF RequestFails, SendFails, ErrorVerdict, CounterVerdict
<1>10. CASE ReceiveCounters
  <2>1. CASE phase = "before"
    BY <1>2, <1>10, <2>1, FirstReadingOnce DEF InOrder, OnceInv
  <2>2. CASE phase = "after"
    BY <1>2, <1>10, <2>2, SecondReadingOnce DEF InOrder, OnceInv
  <2> QED
    BY <2>1, <2>2 DEF TypeOK
<1>11. CASE ReplyTooShort
  BY <1>11 DEF ReplyTooShort, OnceInv
<1>12. CASE SkipReply
  <2>1. UNCHANGED <<before, findings, uplink, pc, phase>> /\ inbox # <<>> /\ inbox' = Tail(inbox)
    BY <1>12 DEF SkipReply, SkipForeign, oracleVars
  <2>2. NextPlace' = NextPlace
    BY <2>1 DEF NextPlace, Request, CasePacket, CurrentCase
  <2> QED
    BY <1>2, <1>4, <2>1, <2>2
<1>13. CASE NoReply
  <2>1. UNCHANGED <<before, findings, uplink, inbox, phase>> /\ pc = "receive" /\ pc' = "health"
    BY <1>13 DEF NoReply, ReceiveTimesOut, transportVars
  <2>2. NextPlace' = NextPlace
    BY <2>1 DEF NextPlace, Request, CasePacket, CurrentCase
  <2> QED
    BY <1>4, <2>1, <2>2
<1>14. CASE ReadFails
  BY <1>5, <1>14 DEF ReadFails, ReceiveFails, ErrorVerdict, CounterVerdict
<1>15. CASE CheckHealth
  <2>1. PICK alive \in HealthReports : Judged(SilenceVerdict(alive), "none", None)
    BY <1>15 DEF CheckHealth
  <2>2. SilenceVerdict(alive) \notin CounterVerdict
    BY DEF SilenceVerdict, CounterVerdict
  <2> QED
    BY <1>5, <1>15, <2>1, <2>2 DEF CheckHealth, transportVars
<1>16. CASE SendCase
  <2>1. /\ UNCHANGED <<downlink, inbox, before, findings>> /\ Send(CasePacket)
        /\ pc = "send" /\ pc' = "drain" /\ phase' = "after"
    BY <1>16 DEF SendCase
  <2>2. /\ Place(CasePacket) = NextPlace /\ NextPlace = 3 * CurrentCase + 2
        /\ CasePacket \in Message
    BY <2>1, NextPlaces, MessagesTyped
  <2>3. NextPlace' = NextPlace + 1
    <3>1. NextPlace' = Place([case |-> CurrentCase, step |-> "after"])
      BY <2>1 DEF NextPlace, Request, CurrentCase
    <3>2. Place([case |-> CurrentCase, step |-> "after"]) = 3 * CurrentCase + 3
      BY <1>3, PlacesOfCase
    <3> QED
      BY <1>3, <2>2, <3>1, <3>2
  <2> QED
    BY <1>1, <1>2, <2>1, <2>2, <2>3, SentOnce DEF OnceInv
<1>17. CASE SendCaseFails
  BY <1>5, <1>17 DEF SendCaseFails, SendFails, ErrorVerdict, CounterVerdict
<1> QED
  BY <1>6, <1>7, <1>8, <1>9, <1>10, <1>11, <1>12, <1>13, <1>14, <1>15, <1>16, <1>17
     DEF OracleNext

LEMMA StepOnce == InOrder /\ TypeOK /\ CauseInv /\ OnceInv /\ [Next]_vars => OnceInv'
<1> SUFFICES ASSUME InOrder, TypeOK, CauseInv, OnceInv, [Next]_vars PROVE OnceInv'
  OBVIOUS
<1>1. CASE OracleNext
  BY <1>1, OracleStepOnce, StepTyped
\* Of the others none moves the harness.
<1>2. CASE UNCHANGED oracleVars /\ pc = "aborted"
  BY <1>2 DEF OnceInv, oracleVars
<1>3. ASSUME UNCHANGED <<uplink, downlink, inbox, counters, effects, oracleVars>>
      PROVE  OnceInv'
  BY <1>3
     DEF OnceInv, LineInv, InLine, HandledInLine, MovedSince, MovedBetween, CountedBetween,
         Used, Waiting, Flying, Live, Sorted, Counted, Judgements, Between, NextPlace, Request,
         CasePacket, CurrentCase, oracleVars
<1>4. CASE NetworkNext /\ UNCHANGED targetVars /\ UNCHANGED oracleVars /\ pc # "aborted"
  BY <1>4, NetworkStepOnce DEF OnceInv, oracleVars
<1>5. CASE AnswerHk /\ UNCHANGED oracleVars /\ pc # "aborted"
  BY <1>5, AnswerHkOnce DEF OnceInv, oracleVars
<1>6. CASE HandleCase /\ UNCHANGED oracleVars /\ pc # "aborted"
  BY <1>6, HandleCaseOnce DEF OnceInv, oracleVars
<1>7. CASE TimePasses \/ (Recover /\ UNCHANGED oracleVars) \/ UNCHANGED vars
  BY <1>3, <1>7
     DEF TimePasses, Tick, Recover, vars, transportVars, targetVars, oracleVars
<1>8. CASE Restart \/ OthersCommand
  BY <1>8 DEF Restart, OthersCommand, InOrder, SoleClient
<1> QED
  BY <1>1, <1>2, <1>4, <1>5, <1>6, <1>7, <1>8 DEF Next, EnvironmentNext, TargetNext

\* Cases that count an effect map one to one into the cases that had it.
LEMMA OneEffectEach ==
    ASSUME TypeOK, OnceInv
    PROVE  NoEffectCountedTwice
<1> SUFFICES ASSUME NEW e \in Counting
             PROVE  Cardinality({k \in Judgements : findings[k].verdict \in CounterVerdict
                                                      /\ CauseOf(findings[k].verdict) = e})
                      <= Cardinality({k \in Cases : e \in effects[k]})
  BY DEF NoEffectCountedTwice, Counting
<1> DEFINE reported == {k \in Judgements : findings[k].verdict \in CounterVerdict
                                             /\ CauseOf(findings[k].verdict) = e}
           real == {k \in Cases : e \in effects[k]}
           Holds(k, i) == /\ Place(findings[k].before.req) < CasePlace(i)
                          /\ CasePlace(i) < Place(findings[k].after.req)
           found == [k \in reported |-> CHOOSE i \in real : Holds(k, i)]
<1>1. IsFiniteSet(real)
  <2>1. IsFiniteSet(Cases)
    BY FS_Interval, TransportAssumption DEF Cases
  <2> QED
    BY <2>1, FS_Subset
<1>2. CASE pc = "aborted"
  <2>1. reported = {}
    BY <1>2 DEF OnceInv, Judgements
  <2> HIDE DEF reported, real
  <2>2. Cardinality(reported) <= Cardinality(real)
    BY <1>1, <2>1, FS_EmptySet, FS_CardinalityType
  <2> QED
    BY <2>2 DEF reported, real
<1>3. CASE pc # "aborted"
  <2>1. \A k \in reported : \E i \in real : Holds(k, i)
    BY <1>3 DEF OnceInv, LineInv, CountedBetween, Counted, Between
  <2>2. \A k \in reported : found[k] \in real /\ Holds(k, found[k])
    BY <2>1
  <2>3. found \in [reported -> real]
    BY <2>2
  <2>4. \A k, l \in reported :
           k < l => Place(findings[k].after.req) < Place(findings[l].before.req)
    BY <1>3 DEF OnceInv, LineInv, CountedBetween, Counted
  <2>5. \A k \in reported : /\ Place(findings[k].before.req) \in Nat
                            /\ Place(findings[k].after.req) \in Nat
    <3>1. \A k \in reported : /\ findings[k].before \in Datagram /\ findings[k].before.req # None
                              /\ findings[k].after \in Used
      BY <1>3 DEF OnceInv, LineInv, CountedBetween, Counted, Used
    <3> QED
      BY <1>3, <3>1, InLineTyped, Places DEF OnceInv, LineInv, Datagram
  <2>6. \A i \in real : CasePlace(i) \in Nat
    BY DEF CasePlace, Cases
  <2>7. reported \subseteq Nat
    BY DEF Judgements, TypeOK
  <2>8. \A k, l \in reported : k < l => found[k] # found[l]
    <3> SUFFICES ASSUME NEW k \in reported, NEW l \in reported, found[k] = found[l], k < l
                 PROVE  FALSE
      OBVIOUS
    <3> HIDE DEF found, reported, real
    <3> QED
      BY <2>2, <2>4, <2>5, <2>6
  <2> HIDE DEF found, reported, real
  <2>9. \A k, l \in reported : found[k] = found[l] => k = l
    BY <2>7, <2>8
  <2>10. found \in Injection(reported, real)
    BY <2>3, <2>9 DEF Injection, IsInjective
  <2>11. Cardinality(reported) <= Cardinality(real)
    BY <1>1, <2>10, FS_Injection
  <2> QED
    BY <2>11 DEF reported, real
<1> QED
  BY <1>2, <1>3

\* However late and lossy the network is, and whatever hangs and recovers: while
\* nothing overtakes and nothing comes twice, the suite never reports more packets
\* accepted (rejected, dropped) than the target accepted (rejected, dropped).
THEOREM EffectsCountedOnce == ASSUME InOrder PROVE Spec => []NoEffectCountedTwice
<1>1. TypeOK /\ OnceInv => NoEffectCountedTwice
  BY OneEffectEach
<1>2. TypeOK /\ CauseInv /\ [Next]_vars => CauseInv'
  BY StepCause, InOrder DEF InOrder
<1>3. TypeOK /\ CauseInv /\ OnceInv /\ [Next]_vars => OnceInv'
  BY StepOnce, InOrder
<1> QED
  BY <1>1, <1>2, <1>3, InitCause, InitOnce, TypeCorrect, PTL DEF Spec
=============================================================================
