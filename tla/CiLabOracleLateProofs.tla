----------------------- MODULE CiLabOracleLateProofs ------------------------
(***************************************************************************)
(* Theorems about the CiLabOracle when an answer may miss its receive but  *)
(* not the drain that follows, on a network that keeps the order of what   *)
(* it does not lose: draining then stands in for correlation.              *)
(* The last section is about answers in time, over a network that loses    *)
(* nothing: a run is then a Campaign.                                      *)
(***************************************************************************)
EXTENDS CiLabOracleProofs

\* The environment: packets are lost, sends and health checks fail, replies
\* are malformed and other senders' telemetry is filtered out, but whatever is
\* answered is answered by the end of the next drain.
Punctual ==
    /\ Latency = "late"
    /\ Faults \cap {"duplicate", "reorder", "receive_error", "recover"} = {}
    /\ SoleClient

InFlight == downlink \cup {inbox[i] : i \in DOMAIN inbox}

FirstRequest == [case |-> CurrentCase, step |-> "before"]
SecondRequest == [case |-> CurrentCase, step |-> "after"]

-----------------------------------------------------------------------------
(***************************************************************************)
(* How each step changes what is in flight.                                *)
(***************************************************************************)
LEMMA InFlightTyped == TypeOK => InFlight \subseteq Datagram
  BY DEF TypeOK, TransportTypeOK, InFlight

LEMMA TailInFlight ==
    ASSUME TypeOK, inbox # <<>>, inbox' = Tail(inbox), downlink' = downlink
    PROVE  InFlight' \subseteq InFlight /\ Head(inbox) \in InFlight
<1>1. /\ Len(inbox') = Len(inbox) - 1
      /\ \A i \in 1 .. Len(inbox') : inbox'[i] = inbox[i + 1]
      /\ Head(inbox) = inbox[1]
      /\ Len(inbox) \in Nat \ {0}
      /\ inbox' \in Seq(Datagram)
  BY HeadTailProperties, EmptySeq DEF TypeOK, TransportTypeOK
<1>2. DOMAIN inbox' = 1 .. Len(inbox') /\ DOMAIN inbox = 1 .. Len(inbox)
  BY <1>1 DEF TypeOK, TransportTypeOK
<1>3. ASSUME NEW i \in DOMAIN inbox' PROVE inbox'[i] \in InFlight
  <2>1. i + 1 \in DOMAIN inbox
    BY <1>1, <1>2
  <2> QED
    BY <1>1, <1>2, <2>1 DEF InFlight
<1>4. 1 \in DOMAIN inbox
  BY <1>1, <1>2
<1> QED
  BY <1>1, <1>3, <1>4 DEF InFlight

\* Nothing comes into flight in a step of the oracle.
LEMMA OracleInFlight ==
    ASSUME TypeOK, OracleNext
    PROVE  InFlight' \subseteq InFlight
<1>1. downlink' = downlink
  BY DEF OracleNext, Drain, DrainReply, EndDrain, RequestCounters, RequestFails,
         ReceiveCounters, Receive, ReplyTooShort, SkipReply, SkipForeign, NoReply,
         ReceiveTimesOut, ReadFails, ReceiveFails, CheckHealth, SendCase, SendCaseFails,
         transportVars
<1>2. CASE inbox' = inbox
  BY <1>1, <1>2 DEF InFlight
<1>3. CASE inbox # <<>> /\ inbox' = Tail(inbox)
  BY <1>1, <1>3, TailInFlight
<1> QED
  BY <1>2, <1>3 DEF OracleNext, Drain, DrainReply, EndDrain, RequestCounters, RequestFails,
       ReceiveCounters, Receive, ReplyTooShort, SkipReply, SkipForeign, NoReply,
       ReceiveTimesOut, ReadFails, ReceiveFails, CheckHealth, SendCase, SendCaseFails,
       transportVars

\* The network delivers, loses, and brings in packets of other senders.
LEMMA NetworkInFlight ==
    ASSUME TypeOK, NetworkNext
    PROVE  /\ uplink' \subseteq uplink
           /\ \A d \in InFlight' : d \in InFlight \/ (d.req = None /\ "foreign" \in Faults)
<1>1. uplink' \subseteq uplink
  BY DEF NetworkNext, LoseMessage, LoseDatagram, DeliverDatagram, ForeignDatagram
<1>2. CASE LoseMessage \/ LoseDatagram
  BY <1>1, <1>2 DEF LoseMessage, LoseDatagram, InFlight
<1>3. CASE ForeignDatagram
  BY <1>1, <1>3 DEF ForeignDatagram, InFlight
<1>4. CASE DeliverDatagram
  <2>1. PICK d \in downlink :
          /\ downlink' \in AfterArrival(d, downlink)
          /\ inbox' = IF Len(inbox) < InboxCap THEN Append(inbox, d) ELSE inbox
    BY <1>4 DEF DeliverDatagram
  <2>2. downlink' \subseteq downlink
    BY <2>1 DEF AfterArrival
  <2>3. \A i \in DOMAIN inbox' : inbox'[i] \in InFlight
    <3>1. CASE inbox' = inbox
      BY <3>1 DEF InFlight
    <3>2. CASE inbox' = Append(inbox, d)
      <4>1. /\ Len(inbox') = Len(inbox) + 1
            /\ \A i \in 1 .. Len(inbox) : inbox'[i] = inbox[i]
            /\ inbox'[Len(inbox) + 1] = d
            /\ DOMAIN inbox' = 1 .. Len(inbox')
            /\ DOMAIN inbox = 1 .. Len(inbox)
            /\ Len(inbox) \in Nat
        BY <3>2 DEF TypeOK, TransportTypeOK
      <4> QED
        BY <4>1, <2>1 DEF InFlight
    <3> QED
      BY <2>1, <3>1, <3>2
  <2> QED
    BY <1>1, <2>2, <2>3 DEF InFlight
<1> QED
  BY <1>2, <1>3, <1>4 DEF NetworkNext

\* An answer takes its request out of the uplink; nothing in the uplink was
\* sent before the request.
LEMMA AnswerInFlight ==
    ASSUME TypeOK, Punctual, AnswerHk
    PROVE  \E m \in uplink, c \in {counters, None} :
              /\ m.step # "case"
              /\ \A n \in uplink : ~SentBefore(n, m)
              /\ uplink' = uplink \ {m}
              /\ InFlight' = InFlight \cup {[req |-> m, counters |-> c]}
<1>1. PICK m \in uplink, c \in {counters, None} :
        /\ NextUp(m)
        /\ m.step # "case"
        /\ uplink' \in AfterArrival(m, uplink)
        /\ downlink' = downlink \cup {[req |-> m, counters |-> c]}
  BY DEF AnswerHk
<1>2. uplink' = uplink \ {m} /\ \A n \in uplink : ~SentBefore(n, m)
  BY <1>1 DEF AfterArrival, NextUp, Punctual
<1>3. InFlight' = InFlight \cup {[req |-> m, counters |-> c]}
  BY <1>1 DEF InFlight, AnswerHk
<1> QED
  BY <1>1, <1>2, <1>3

LEMMA HandleInFlight ==
    ASSUME TypeOK, Punctual, HandleCase
    PROVE  \E m \in uplink, e \in Effect :
              /\ m.step = "case"
              /\ \A n \in uplink : ~SentBefore(n, m)
              /\ uplink' = uplink \ {m}
              /\ counters' = CountersAfter(counters, e)
              /\ mode' = ModeAfter(e)
              /\ effects' = [effects EXCEPT ![m.case] = @ \cup {e}]
              /\ InFlight' = InFlight
<1>1. PICK m \in uplink, e \in Effect :
        /\ NextUp(m)
        /\ m.step = "case"
        /\ uplink' \in AfterArrival(m, uplink)
        /\ counters' = CountersAfter(counters, e)
        /\ mode' = ModeAfter(e)
        /\ effects' = [effects EXCEPT ![m.case] = @ \cup {e}]
  BY DEF HandleCase
<1>2. uplink' = uplink \ {m} /\ \A n \in uplink : ~SentBefore(n, m)
  BY <1>1 DEF AfterArrival, NextUp, Punctual
<1>3. InFlight' = InFlight
  BY DEF InFlight, HandleCase
<1> QED
  BY <1>1, <1>2, <1>3

-----------------------------------------------------------------------------
(***************************************************************************)
(* The evidence is fresh.  When a request goes out nothing else is to be   *)
(* answered and no answer is in flight, so the only reply that can come    *)
(* back before the receive is over is its own.                             *)
(***************************************************************************)
OnlyOwnReply ==
    /\ \A d \in InFlight : d.req = None => "foreign" \in Faults
    /\ pc = "request" =>
          /\ \A d \in InFlight : d.req = None
          /\ mode = "up" => \A m \in uplink : m.step = "case"
    /\ pc = "receive" =>
          /\ \A d \in InFlight : d.req \in {None, Request}
          /\ mode = "up" => \A m \in uplink : m.step = "case" \/ m = Request

FirstReadingFresh == pc # "aborted" /\ before # None => before.req = FirstRequest

FreshInv == EvidenceIsFresh /\ OnlyOwnReply /\ FirstReadingFresh

LEMMA InitFresh == Init => FreshInv
  BY DEF Init, TransportInit, FreshInv, EvidenceIsFresh, OnlyOwnReply, FirstReadingFresh,
         InFlight, Judgements

LEMMA JudgedFresh ==
    ASSUME TypeOK, FreshInv, OracleNext, pc \in Active,
           NEW v, NEW e, NEW a, Judged(v, e, a),
           a # None => a.req = SecondRequest
    PROVE  FreshInv'
<1> DEFINE f == [verdict |-> v, error |-> e, before |-> before, after |-> a]
<1>1. findings' = Append(findings, f) /\ pc' \in {"finished", "drain"} /\ before' = None
  BY DEF Judged
<1>2. /\ Len(findings') = Len(findings) + 1
      /\ \A k \in 1 .. Len(findings) : findings'[k] = findings[k]
      /\ findings'[Len(findings) + 1] = f
      /\ DOMAIN findings' = 1 .. Len(findings')
      /\ DOMAIN findings = 1 .. Len(findings)
      /\ Len(findings) \in Nat
  BY <1>1 DEF TypeOK
<1>3. f.before # None => f.before.req = FirstRequest
  BY DEF FreshInv, FirstReadingFresh, Active
<1>4. EvidenceIsFresh'
  <2> SUFFICES ASSUME NEW k \in 1 .. Len(findings')
               PROVE  /\ findings'[k].before # None =>
                            findings'[k].before.req = [case |-> k, step |-> "before"]
                      /\ findings'[k].after # None =>
                            findings'[k].after.req = [case |-> k, step |-> "after"]
    BY <1>2 DEF EvidenceIsFresh, Judgements
  <2>1. CASE k \in 1 .. Len(findings)
    BY <1>2, <2>1 DEF FreshInv, EvidenceIsFresh, Judgements
  <2>2. CASE k = Len(findings) + 1
    <3>1. FirstRequest = [case |-> k, step |-> "before"]
          /\ SecondRequest = [case |-> k, step |-> "after"]
      BY <2>2 DEF FirstRequest, SecondRequest, CurrentCase
    <3> QED
      BY <1>2, <1>3, <2>2, <3>1
  <2> QED
    BY <1>2, <2>1, <2>2
<1>5. OnlyOwnReply' /\ FirstReadingFresh'
  BY <1>1, OracleInFlight DEF FreshInv, OnlyOwnReply, FirstReadingFresh
<1> QED
  BY <1>4, <1>5 DEF FreshInv

\* What a receive hands over answers the request it waits for.
LEMMA ReceivedFresh ==
    ASSUME TypeOK, Punctual, FreshInv, pc = "receive", Receive
    PROVE  Head(inbox) \in InFlight /\ Head(inbox).req = Request
<1>1. Head(inbox) \in InFlight
  BY TailInFlight DEF Receive
<1>2. Head(inbox).req # None
  BY <1>1 DEF Receive, Accepts, Punctual, SoleClient, FreshInv, OnlyOwnReply
<1> QED
  BY <1>1, <1>2 DEF FreshInv, OnlyOwnReply

LEMMA OracleStepFresh ==
    ASSUME TypeOK, Punctual, FreshInv, OracleNext
    PROVE  FreshInv'
<1> USE DEF Active
<1>1. InFlight' \subseteq InFlight
  BY OracleInFlight
<1>2. mode' = mode
  BY DEF OracleNext, Drain, EndDrain, RequestCounters, RequestFails, ReceiveCounters,
         ReplyTooShort, SkipReply, NoReply, ReadFails, CheckHealth, SendCase, SendCaseFails,
         targetVars
<1>3. ASSUME findings' = findings, before' = before, pc # "aborted",
             pc' \in {"drain", "health", "send"}
      PROVE  FreshInv'
  BY <1>1, <1>3 DEF FreshInv, EvidenceIsFresh, OnlyOwnReply, FirstReadingFresh, Judgements,
                    FirstRequest, CurrentCase
<1>4. CASE Drain
  BY <1>3, <1>4 DEF Drain, oracleVars
<1>5. CASE EndDrain
  <2>1. downlink = {} /\ inbox = <<>> /\ (mode = "up" => \A m \in uplink : m.step = "case")
    BY <1>5 DEF EndDrain, DrainOver, AnswersDone, Punctual
  <2>2. InFlight = {}
    BY <2>1 DEF InFlight
  <2>3. /\ pc' = "request" /\ uplink' = uplink /\ findings' = findings /\ before' = before
        /\ pc # "aborted"
    BY <1>5 DEF EndDrain, transportVars
  <2>4. OnlyOwnReply'
    BY <1>1, <1>2, <2>1, <2>2, <2>3 DEF OnlyOwnReply
  <2> QED
    BY <2>3, <2>4 DEF FreshInv, EvidenceIsFresh, FirstReadingFresh, Judgements, FirstRequest,
                      CurrentCase
<1>6. CASE RequestCounters
  <2>1. /\ pc = "request" /\ pc' = "receive" /\ uplink' = uplink \cup {Request}
        /\ findings' = findings /\ before' = before /\ phase' = phase
    BY <1>6 DEF RequestCounters, Send
  <2>2. Request' = Request
    BY <2>1 DEF Request, CurrentCase
  <2>3. OnlyOwnReply'
    BY <1>1, <1>2, <2>1, <2>2 DEF FreshInv, OnlyOwnReply
  <2> QED
    BY <2>1, <2>3 DEF FreshInv, EvidenceIsFresh, FirstReadingFresh, Judgements, FirstRequest,
                      CurrentCase
<1>7. CASE RequestFails
  BY <1>7, JudgedFresh DEF RequestFails
<1>8. CASE ReceiveCounters
  <2>1. pc = "receive" /\ Head(inbox).req = Request
    BY <1>8, ReceivedFresh DEF ReceiveCounters
  <2>2. CASE phase = "before"
    <3>1. before' = Head(inbox) /\ pc' = "send" /\ findings' = findings
      BY <1>8, <2>2 DEF ReceiveCounters, FirstReading
    <3>2. FirstReadingFresh'
      BY <2>1, <2>2, <3>1 DEF FirstReadingFresh, FirstRequest, Request, CurrentCase
    <3> QED
      BY <1>1, <3>1, <3>2 DEF FreshInv, EvidenceIsFresh, OnlyOwnReply, Judgements
  <2>3. CASE phase = "after"
    <3>1. Judged(DeltaVerdict(CurrentCase, before, Head(inbox)), "none", Head(inbox))
      BY <1>8, <2>3 DEF ReceiveCounters
    <3>2. Head(inbox).req = SecondRequest
      BY <2>1, <2>3 DEF Request, SecondRequest
    <3> QED
      BY <2>1, <3>1, <3>2, JudgedFresh
  <2> QED
    BY <2>2, <2>3 DEF TypeOK
<1>9. CASE ReplyTooShort
  BY <1>1, <1>9 DEF ReplyTooShort, FreshInv, EvidenceIsFresh, OnlyOwnReply, FirstReadingFresh,
                    Judgements
<1>10. CASE SkipReply
  <2>1. /\ pc = "receive" /\ pc' = pc /\ phase' = phase /\ before' = before
        /\ findings' = findings /\ uplink' = uplink
    BY <1>10 DEF SkipReply, SkipForeign, oracleVars
  <2>2. Request' = Request /\ FirstRequest' = FirstRequest
    BY <2>1 DEF Request, FirstRequest, CurrentCase
  <2> QED
    BY <1>1, <1>2, <2>1, <2>2
       DEF FreshInv, EvidenceIsFresh, OnlyOwnReply, FirstReadingFresh, Judgements
<1>11. CASE NoReply
  BY <1>3, <1>11 DEF NoReply
<1>12. CASE ReadFails
  BY <1>12, JudgedFresh DEF ReadFails
<1>13. CASE CheckHealth
  BY <1>13, JudgedFresh DEF CheckHealth
<1>14. CASE SendCase
  BY <1>3, <1>14 DEF SendCase
<1>15. CASE SendCaseFails
  BY <1>15, JudgedFresh DEF SendCaseFails
<1> QED
  BY <1>4, <1>5, <1>6, <1>7, <1>8, <1>9, <1>10, <1>11, <1>12, <1>13, <1>14, <1>15
     DEF OracleNext

LEMMA EnvironmentStepFresh ==
    ASSUME TypeOK, Punctual, FreshInv, EnvironmentNext, UNCHANGED oracleVars
    PROVE  FreshInv'
<1>1. pc' = pc /\ phase' = phase /\ before' = before /\ findings' = findings
  BY DEF oracleVars
<1>2. EvidenceIsFresh' /\ FirstReadingFresh'
  BY <1>1 DEF FreshInv, EvidenceIsFresh, FirstReadingFresh, Judgements, FirstRequest, CurrentCase
<1>3. Request' = Request
  BY <1>1 DEF Request, CurrentCase
<1>4. CASE NetworkNext /\ UNCHANGED targetVars
  <2>1. mode' = mode
    BY <1>4 DEF targetVars
  <2> QED
    BY <1>1, <1>2, <1>3, <1>4, <2>1, NetworkInFlight DEF FreshInv, OnlyOwnReply
<1>5. CASE AnswerHk
  <2>1. PICK m \in uplink, c \in {counters, None} :
          /\ m.step # "case"
          /\ uplink' = uplink \ {m}
          /\ InFlight' = InFlight \cup {[req |-> m, counters |-> c]}
    BY <1>5, AnswerInFlight
  <2>2. mode = "up" /\ mode' = mode
    BY <1>5 DEF AnswerHk, targetVars
  <2>3. m # None
    BY NoneIsNoPacket DEF TypeOK, TransportTypeOK
  <2> QED
    BY <1>1, <1>2, <1>3, <2>1, <2>2, <2>3 DEF FreshInv, OnlyOwnReply
<1>6. CASE HandleCase
  <2>1. mode = "up" /\ uplink' \subseteq uplink /\ InFlight' = InFlight
    BY <1>6, HandleInFlight DEF HandleCase
  <2> QED
    BY <1>1, <1>2, <1>3, <2>1 DEF FreshInv, OnlyOwnReply
<1>7. CASE Recover \/ Restart \/ OthersCommand
  BY <1>7 DEF Recover, Restart, OthersCommand, Punctual, SoleClient
<1> QED
  BY <1>4, <1>5, <1>6, <1>7 DEF EnvironmentNext, TargetNext

LEMMA StepFresh == Punctual /\ TypeOK /\ FreshInv /\ [Next]_vars => FreshInv'
<1> SUFFICES ASSUME Punctual, TypeOK, FreshInv, [Next]_vars PROVE FreshInv'
  OBVIOUS
<1>1. CASE TimePasses
  BY <1>1 DEF TimePasses, Tick, targetVars, oracleVars, FreshInv, EvidenceIsFresh, OnlyOwnReply,
              FirstReadingFresh, Judgements, InFlight, Request, FirstRequest, CurrentCase
<1>2. CASE UNCHANGED vars
  BY <1>2 DEF vars, transportVars, targetVars, oracleVars, FreshInv, EvidenceIsFresh,
              OnlyOwnReply, FirstReadingFresh, Judgements, InFlight, Request, FirstRequest,
              CurrentCase
<1> QED
  BY <1>1, <1>2, OracleStepFresh, EnvironmentStepFresh DEF Next

\* When the drain outlasts the answers still due, draining is as good as
\* correlating: no stale packet becomes evidence of a case.
THEOREM EvidenceFresh ==
    ASSUME Punctual
    PROVE  Spec => []EvidenceIsFresh
<1>1. FreshInv => EvidenceIsFresh
  BY DEF FreshInv
<1>2. TypeOK /\ FreshInv /\ [Next]_vars => FreshInv'
  BY StepFresh
<1> QED
  BY <1>1, <1>2, TypeCorrect, InitFresh, PTL DEF Spec

-----------------------------------------------------------------------------
(***************************************************************************)
(* A verdict from two readings is exact.  The target serves its queue in   *)
(* order, so the first reading is taken with nothing of an earlier case    *)
(* left to be handled, and the second with the case itself handled or      *)
(* lost: in between the counters follow what the case alone did.           *)
(***************************************************************************)
SilentTargetIsDown ==
    mode = "up" => \A j \in Cases : effects[j] \cap {"hang", "crash"} = {}

InTurn ==
    pc # "aborted" =>
       /\ pc = "send" => phase = "before"
       /\ \A m \in uplink : m.step = "case" => effects[m.case] = {}
       /\ phase = "before" /\ CurrentCase \in Cases => effects[CurrentCase] = {}
       /\ phase = "before" => \A m \in uplink : m.case = CurrentCase => m.step = "before"
       /\ pc = "send" \/ phase = "after" => FirstRequest \notin uplink
       /\ \A k \in Judgements : findings[k].after # None => [case |-> k, step |-> "case"] \notin uplink

AnsweredOnce ==
    pc # "aborted" =>
       \A d \in InFlight : d.req # None =>
          /\ d.req \notin uplink
          /\ d.req.step # "case"
          /\ d.req.case <= CurrentCase
          /\ phase = "before" /\ d.req.case = CurrentCase => d.req.step = "before"

\* The counters are those of reading d and what the case has done since.
Follows(d) ==
    \/ effects[CurrentCase] = {} /\ counters = d.counters
    \/ \E e \in Effect : effects[CurrentCase] = {e} /\ counters = CountersAfter(d.counters, e)

FirstReadingFollowed(d) ==
    d.req # None /\ d.req = FirstRequest /\ d.counters # None =>
       Follows(d) /\ \A m \in uplink : m.case = CurrentCase

SecondReadingCurrent(d) ==
    d.req # None /\ d.req = SecondRequest =>
       /\ d.counters \in {counters, None}
       /\ effects[CurrentCase] \cap {"hang", "crash"} = {}
       /\ \A m \in uplink : m.step # "case"

ReadingsFollow ==
    pc # "aborted" =>
       /\ \A d \in InFlight : FirstReadingFollowed(d) /\ SecondReadingCurrent(d)
       /\ before # None => FirstReadingFollowed(before)

AbortKeepsNothing == pc = "aborted" => findings = <<>>

ExactInv ==
    /\ ConclusiveVerdictExact
    /\ SilentTargetIsDown
    /\ InTurn
    /\ AnsweredOnce
    /\ ReadingsFollow
    /\ AbortKeepsNothing

\* A counter of one value could not show that it has moved.
WideCounters == ByteMod > 1 /\ WordMod > 1

LEMMA InitExact == Init => ExactInv
  BY DEF Init, TransportInit, TargetInit, ExactInv, ConclusiveVerdictExact, SilentTargetIsDown,
         InTurn, AnsweredOnce, ReadingsFollow, AbortKeepsNothing, InFlight, Judgements, Cases

LEMMA SuccessorMoves ==
    ASSUME NEW mod \in Nat, mod > 1, NEW n \in 0 .. mod - 1
    PROVE  Successor(n, mod) # n
  BY DEF Successor

\* What the counters show of one effect is the verdict promised for it.
LEMMA DeltaExact ==
    ASSUME WideCounters, NEW k, NEW a, NEW b, a.counters \in Counters,
           NEW e \in Effect \ {"hang", "crash"},
           b.counters = CountersAfter(a.counters, e)
    PROVE  DeltaVerdict(k, a, b) = Promise!VerdictFor(k, e)
<1> DEFINE c == a.counters
<1>1. /\ Successor(c.command, ByteMod) # c.command
      /\ Successor(c.command_error, ByteMod) # c.command_error
      /\ Successor(c.ingest_errors, WordMod) # c.ingest_errors
  BY SuccessorMoves, ModuliAssumption DEF WideCounters, Counters
<1>2. CASE e = "accept"
  <2>1. b.counters = [c EXCEPT !.command = Successor(@, ByteMod)]
    BY <1>2 DEF CountersAfter
  <2> QED
    BY <1>1, <1>2, <2>1 DEF DeltaVerdict, Changed, Counters, Promise!VerdictFor
<1>3. CASE e = "reject"
  <2>1. b.counters = [c EXCEPT !.command_error = Successor(@, ByteMod)]
    BY <1>3 DEF CountersAfter
  <2> QED
    BY <1>1, <1>3, <2>1 DEF DeltaVerdict, Changed, Counters, Promise!VerdictFor
<1>4. CASE e = "drop"
  <2>1. b.counters = [c EXCEPT !.ingest_errors = Successor(@, WordMod)]
    BY <1>4 DEF CountersAfter
  <2> QED
    BY <1>1, <1>4, <2>1 DEF DeltaVerdict, Changed, Counters, Promise!VerdictFor
<1>5. CASE e = "ignore"
  <2>1. b.counters = c
    BY <1>5 DEF CountersAfter
  <2> QED
    BY <1>5, <2>1 DEF DeltaVerdict, Changed, Promise!VerdictFor
<1> QED
  BY <1>2, <1>3, <1>4, <1>5 DEF Effect

LEMMA CurrentCaseNat == TypeOK => CurrentCase \in Nat /\ Len(findings) \in Nat
  BY LenProperties DEF TypeOK, CurrentCase

LEMMA AnswerHkExact ==
    ASSUME TypeOK, Punctual, CauseInv, ExactInv, AnswerHk, UNCHANGED oracleVars
    PROVE  ExactInv'
<1>1. PICK m \in uplink, c \in {counters, None} :
        /\ m.step # "case"
        /\ \A n \in uplink : ~SentBefore(n, m)
        /\ uplink' = uplink \ {m}
        /\ InFlight' = InFlight \cup {[req |-> m, counters |-> c]}
  BY AnswerInFlight
<1> DEFINE d0 == [req |-> m, counters |-> c]
<1>2. /\ mode = "up" /\ mode' = mode /\ counters' = counters /\ effects' = effects
      /\ pc' = pc /\ phase' = phase /\ before' = before /\ findings' = findings
  BY DEF AnswerHk, targetVars, oracleVars
<1>3. CurrentCase' = CurrentCase /\ FirstRequest' = FirstRequest /\ SecondRequest' = SecondRequest
  BY <1>2 DEF CurrentCase, FirstRequest, SecondRequest
<1>4. /\ m \in Message /\ CurrentCase \in Nat
      /\ \A n \in uplink : n \in Message /\ n.case \in Nat
  BY CurrentCaseNat DEF TypeOK, TransportTypeOK, Message, Cases
<1>5. pc # "aborted" => \A n \in uplink : n.case <= CurrentCase
  BY DEF CauseInv, NoneAheadOfTurn
<1>6. ConclusiveVerdictExact' /\ SilentTargetIsDown' /\ InTurn' /\ AbortKeepsNothing'
  BY <1>1, <1>2, <1>3 DEF ExactInv, ConclusiveVerdictExact, SilentTargetIsDown, InTurn,
     AbortKeepsNothing, Judgements, Promise!VerdictFor, Promise!Silence
<1>7. AnsweredOnce'
  <2>1. pc # "aborted" => /\ m.case <= CurrentCase
                          /\ phase = "before" /\ m.case = CurrentCase => m.step = "before"
    BY <1>5 DEF ExactInv, InTurn
  <2> QED
    BY <1>1, <1>2, <1>3, <2>1 DEF ExactInv, AnsweredOnce
<1>8. \A d : (FirstReadingFollowed(d) => FirstReadingFollowed(d)')
             /\ (SecondReadingCurrent(d) => SecondReadingCurrent(d)')
  BY <1>1, <1>2, <1>3 DEF FirstReadingFollowed, SecondReadingCurrent, Follows
<1>9. ASSUME pc # "aborted" PROVE FirstReadingFollowed(d0)
  <2> SUFFICES ASSUME m = FirstRequest, c = counters
               PROVE  Follows(d0) /\ \A n \in uplink : n.case = CurrentCase
    BY DEF FirstReadingFollowed
  <2>1. phase = "before" /\ CurrentCase \in Cases
    BY <1>1, <1>4, <1>9 DEF ExactInv, InTurn, TypeOK, FirstRequest, Message
  <2>2. effects[CurrentCase] = {}
    BY <1>9, <2>1 DEF ExactInv, InTurn
  <2>3. m.case = CurrentCase
    BY DEF FirstRequest
  <2>4. ASSUME NEW n \in uplink PROVE n.case = CurrentCase
    BY <1>1, <1>4, <1>5, <1>9, <2>3 DEF SentBefore
  <2> QED
    BY <2>2, <2>4 DEF Follows
<1>10. ASSUME pc # "aborted" PROVE SecondReadingCurrent(d0)'
  <2> SUFFICES ASSUME m = SecondRequest
               PROVE  /\ c \in {counters, None}
                      /\ effects[CurrentCase] \cap {"hang", "crash"} = {}
                      /\ \A n \in uplink' : n.step # "case"
    BY <1>2, <1>3 DEF SecondReadingCurrent
  <2>1. m.case = CurrentCase /\ m.step = "after" /\ CurrentCase \in Cases
    BY <1>4 DEF SecondRequest, Message
  <2>2. ASSUME NEW n \in uplink, n.step = "case" PROVE FALSE
    <3>1. n.case = CurrentCase
      BY <1>1, <1>4, <1>5, <1>10, <2>1, <2>2 DEF SentBefore
    <3> QED
      BY <1>1, <2>1, <2>2, <3>1 DEF SentBefore, Rank
  <2> QED
    BY <1>1, <1>2, <2>1, <2>2 DEF ExactInv, SilentTargetIsDown
<1>11. ReadingsFollow'
  BY <1>1, <1>2, <1>8, <1>9, <1>10 DEF ExactInv, ReadingsFollow
<1> QED
  BY <1>6, <1>7, <1>11 DEF ExactInv

LEMMA HandleCaseExact ==
    ASSUME TypeOK, Punctual, ExactInv, HandleCase, UNCHANGED oracleVars
    PROVE  ExactInv'
<1>1. PICK m \in uplink, e \in Effect :
        /\ m.step = "case"
        /\ uplink' = uplink \ {m}
        /\ counters' = CountersAfter(counters, e)
        /\ mode' = ModeAfter(e)
        /\ effects' = [effects EXCEPT ![m.case] = @ \cup {e}]
        /\ InFlight' = InFlight
  BY HandleInFlight
<1>2. pc' = pc /\ phase' = phase /\ before' = before /\ findings' = findings /\ mode = "up"
  BY DEF HandleCase, oracleVars
<1>3. CurrentCase' = CurrentCase /\ FirstRequest' = FirstRequest /\ SecondRequest' = SecondRequest
  BY <1>2 DEF CurrentCase, FirstRequest, SecondRequest
<1>4. /\ m \in Message /\ m = [case |-> m.case, step |-> "case"] /\ m.case \in Cases
      /\ uplink \subseteq Message
      /\ effects \in [Cases -> SUBSET Effect]
  BY <1>1 DEF TypeOK, TransportTypeOK, TargetTypeOK, Message
<1>5. \A j \in Cases : j # m.case => effects'[j] = effects[j]
  BY <1>1, <1>4
<1>6. SilentTargetIsDown'
  <2>1. mode' = "up" => e \notin {"hang", "crash"}
    BY <1>1 DEF ModeAfter
  <2>2. effects'[m.case] = effects[m.case] \cup {e}
    BY <1>1, <1>4
  <2> QED
    BY <1>2, <1>4, <1>5, <2>1, <2>2 DEF ExactInv, SilentTargetIsDown
<1>7. CASE pc = "aborted"
  <2>1. ConclusiveVerdictExact'
    <3>1. findings = <<>>
      BY <1>7 DEF ExactInv, AbortKeepsNothing
    <3> QED
      BY <1>2, <3>1 DEF ConclusiveVerdictExact, Judgements
  <2> QED
    BY <1>2, <1>6, <1>7, <2>1
       DEF ExactInv, InTurn, AnsweredOnce, ReadingsFollow, AbortKeepsNothing
<1>8. CASE pc # "aborted"
  <2>1. effects[m.case] = {} /\ effects'[m.case] = {e}
    BY <1>1, <1>4, <1>8 DEF ExactInv, InTurn
  <2>2. ConclusiveVerdictExact'
    <3> SUFFICES ASSUME NEW k \in Judgements, findings[k].after # None
                 PROVE  \/ effects'[k] = {} /\ findings[k].verdict = "inconclusive"
                        \/ \E x \in effects'[k] :
                              effects'[k] = {x} /\ findings[k].verdict = Promise!VerdictFor(k, x)
      BY <1>2 DEF ConclusiveVerdictExact, Judgements, Promise!VerdictFor, Promise!Silence
    <3>1. k # m.case
      BY <1>4, <1>8 DEF ExactInv, InTurn
    <3>2. k \in Cases
      BY LenProperties, TransportAssumption DEF TypeOK, Judgements, Cases
    <3>3. effects'[k] = effects[k]
      BY <1>5, <3>1, <3>2
    <3> QED
      BY <3>3 DEF ExactInv, ConclusiveVerdictExact
  <2>3. InTurn'
    <3>1. \A n \in uplink' : n.step = "case" => n.case # m.case
      BY <1>1, <1>4 DEF Message
    <3>2. phase = "before" => m.case # CurrentCase
      BY <1>1, <1>8 DEF ExactInv, InTurn
    <3> QED
      BY <1>1, <1>2, <1>3, <1>4, <1>5, <1>8, <3>1, <3>2 DEF ExactInv, InTurn, Judgements, Message
  <2>4. AnsweredOnce'
    BY <1>1, <1>2, <1>3 DEF ExactInv, AnsweredOnce
  <2>5. ASSUME NEW d, FirstReadingFollowed(d) PROVE FirstReadingFollowed(d)'
    <3> SUFFICES ASSUME d.req # None, d.req = FirstRequest, d.counters # None
                 PROVE  Follows(d)' /\ \A n \in uplink' : n.case = CurrentCase
      BY <1>3 DEF FirstReadingFollowed
    <3>1. Follows(d) /\ \A n \in uplink : n.case = CurrentCase
      BY <2>5 DEF FirstReadingFollowed
    <3>2. m.case = CurrentCase
      BY <3>1
    <3>3. counters = d.counters
      BY <2>1, <3>1, <3>2 DEF Follows
    <3> QED
      BY <1>1, <1>3, <2>1, <3>1, <3>2, <3>3 DEF Follows
  <2>6. ASSUME NEW d, SecondReadingCurrent(d) PROVE SecondReadingCurrent(d)'
    BY <1>1, <1>3, <2>6 DEF SecondReadingCurrent
  <2>7. ReadingsFollow'
    BY <1>1, <1>2, <1>8, <2>5, <2>6 DEF ExactInv, ReadingsFollow
  <2> QED
    BY <1>2, <1>6, <1>8, <2>2, <2>3, <2>4, <2>7 DEF ExactInv, AbortKeepsNothing
<1> QED
  BY <1>7, <1>8

\* Filing a finding: the next case has not been sent, so nothing in flight and
\* no effect belongs to it.
LEMMA JudgedExact ==
    ASSUME TypeOK, CauseInv, ExactInv, pc \in Active,
           NEW v, NEW e, NEW a, Judged(v, e, a),
           a # None => /\ CasePacket \notin uplink
                       /\ \/ effects[CurrentCase] = {} /\ v = "inconclusive"
                          \/ \E x \in effects[CurrentCase] :
                                effects[CurrentCase] = {x} /\ v = Promise!VerdictFor(CurrentCase, x),
           InFlight' \subseteq InFlight, uplink' = uplink,
           mode' = mode, counters' = counters, effects' = effects
    PROVE  ExactInv'
<1> DEFINE f == [verdict |-> v, error |-> e, before |-> before, after |-> a]
<1>1. /\ findings' = Append(findings, f)
      /\ pc' \in {"finished", "drain"}
      /\ phase' = "before"
      /\ before' = None
  BY DEF Judged
<1>2. /\ Len(findings') = Len(findings) + 1
      /\ \A k \in 1 .. Len(findings) : findings'[k] = findings[k]
      /\ findings'[Len(findings) + 1] = f
      /\ DOMAIN findings' = 1 .. Len(findings')
      /\ DOMAIN findings = 1 .. Len(findings)
      /\ Len(findings) \in Nat
  BY <1>1 DEF TypeOK
<1>3. CurrentCase = Len(findings) + 1 /\ CurrentCase' = CurrentCase + 1
  BY <1>2 DEF CurrentCase
<1>4. pc # "aborted"
  BY DEF Active
<1>5. /\ \A m \in uplink : m.case <= CurrentCase /\ m.case \in Nat
      /\ \A j \in Cases : effects[j] # {} => j <= CurrentCase
  BY <1>4 DEF CauseInv, NoneAheadOfTurn, TypeOK, TransportTypeOK, Message, Cases
<1>6. \A d \in InFlight : d.req # None => d.req.case <= CurrentCase /\ d.req.case \in Nat
  BY <1>4, InFlightTyped DEF ExactInv, AnsweredOnce, Datagram, Message, Cases
<1>7. ConclusiveVerdictExact'
  <2> SUFFICES ASSUME NEW k \in 1 .. Len(findings'), findings'[k].after # None
               PROVE  \/ effects[k] = {} /\ findings'[k].verdict = "inconclusive"
                      \/ \E x \in effects[k] :
                            effects[k] = {x} /\ findings'[k].verdict = Promise!VerdictFor(k, x)
    BY <1>2 DEF ConclusiveVerdictExact, Judgements, Promise!VerdictFor, Promise!Silence
  <2>1. CASE k \in 1 .. Len(findings)
    BY <1>2, <2>1 DEF ExactInv, ConclusiveVerdictExact, Judgements
  <2>2. CASE k = CurrentCase
    <3>1. findings'[k].verdict = v /\ a # None
      BY <1>2, <1>3, <2>2
    <3> QED
      BY <2>2, <3>1
  <2> QED
    BY <1>2, <1>3, <2>1, <2>2
<1>8. InTurn'
  <2>1. \A k \in 1 .. Len(findings') :
           findings'[k].after # None => [case |-> k, step |-> "case"] \notin uplink
    <3> TAKE k \in 1 .. Len(findings')
    <3>1. CASE k \in 1 .. Len(findings)
      BY <1>2, <1>4, <3>1 DEF ExactInv, InTurn, Judgements
    <3>2. CASE k = CurrentCase
      BY <1>2, <1>3, <3>2 DEF CasePacket
    <3> QED
      BY <1>2, <1>3, <3>1, <3>2
  <2>2. \A m \in uplink : m.case # CurrentCase + 1
    BY <1>3, <1>5
  <2>3. CurrentCase + 1 \in Cases => effects[CurrentCase + 1] = {}
    BY <1>3, <1>5 DEF Cases
  <2> QED
    BY <1>1, <1>2, <1>3, <1>4, <2>1, <2>2, <2>3 DEF ExactInv, InTurn, Judgements
<1>9. AnsweredOnce'
  BY <1>2, <1>3, <1>4, <1>6 DEF ExactInv, AnsweredOnce
<1>10. ReadingsFollow'
  <2>1. \A d \in InFlight : d.req # None => d.req # FirstRequest' /\ d.req # SecondRequest'
    BY <1>2, <1>3, <1>6 DEF FirstRequest, SecondRequest
  <2> QED
    BY <1>1, <2>1 DEF ReadingsFollow, FirstReadingFollowed, SecondReadingCurrent
<1>11. SilentTargetIsDown' /\ AbortKeepsNothing'
  BY <1>1 DEF ExactInv, SilentTargetIsDown, AbortKeepsNothing
<1> QED
  BY <1>7, <1>8, <1>9, <1>10, <1>11 DEF ExactInv

\* The case's own effect is what lies between its two readings.
LEMMA SecondReadingJudged ==
    ASSUME TypeOK, Punctual, WideCounters, CauseInv, FreshInv, ExactInv,
           ReceiveCounters, phase = "after"
    PROVE  /\ CasePacket \notin uplink
           /\ LET v == DeltaVerdict(CurrentCase, before, Head(inbox))
              IN  \/ effects[CurrentCase] = {} /\ v = "inconclusive"
                  \/ \E x \in effects[CurrentCase] :
                        effects[CurrentCase] = {x} /\ v = Promise!VerdictFor(CurrentCase, x)
<1> DEFINE d == Head(inbox)
<1>1. pc = "receive" /\ Receive /\ d.counters # None
  BY DEF ReceiveCounters
<1>2. d \in InFlight /\ d.req = SecondRequest
  BY <1>1, ReceivedFresh DEF Request, SecondRequest
<1>3. CurrentCase \in Cases /\ FirstRequest \in Message /\ SecondRequest \in Message
  <2>1. Request \in Message /\ Request.case = CurrentCase
    BY <1>1, MessagesTyped DEF Active, Request
  <2> QED
    BY <2>1 DEF Message, FirstRequest, SecondRequest, Step
<1>4. FirstRequest # None /\ SecondRequest # None
  BY <1>3, NoneIsNoPacket
<1>5. /\ d.counters = counters
      /\ effects[CurrentCase] \cap {"hang", "crash"} = {}
      /\ \A m \in uplink : m.step # "case"
  BY <1>1, <1>2, <1>4 DEF ExactInv, ReadingsFollow, SecondReadingCurrent
<1>6. before # None /\ before.counters # None /\ before.counters \in Counters
  BY <1>1 DEF CauseInv, FirstReadingKept, ReadingsAgree, TypeOK, Datagram
<1>7. before.req = FirstRequest
  BY <1>1, <1>6 DEF FreshInv, FirstReadingFresh
<1>8. Follows(before)
  BY <1>1, <1>4, <1>6, <1>7 DEF ExactInv, ReadingsFollow, FirstReadingFollowed
<1>9. CASE effects[CurrentCase] = {} /\ counters = before.counters
  BY <1>5, <1>9 DEF DeltaVerdict, Changed, CasePacket
<1>10. CASE \E e \in Effect :
              effects[CurrentCase] = {e} /\ counters = CountersAfter(before.counters, e)
  <2>1. PICK e \in Effect :
           effects[CurrentCase] = {e} /\ counters = CountersAfter(before.counters, e)
    BY <1>10
  <2>2. e \notin {"hang", "crash"}
    BY <1>5, <2>1
  <2>3. DeltaVerdict(CurrentCase, before, d) = Promise!VerdictFor(CurrentCase, e)
    BY <1>5, <1>6, <2>1, <2>2, DeltaExact
  <2> QED
    BY <1>5, <2>1, <2>3 DEF CasePacket
<1> QED
  BY <1>8, <1>9, <1>10 DEF Follows

LEMMA OracleStepExact ==
    ASSUME TypeOK, Punctual, WideCounters, CauseInv, FreshInv, ExactInv, OracleNext
    PROVE  ExactInv'
<1> USE DEF Active
<1>1. InFlight' \subseteq InFlight
  BY OracleInFlight
<1>2. mode' = mode /\ counters' = counters /\ effects' = effects
  BY DEF OracleNext, Drain, EndDrain, RequestCounters, RequestFails, ReceiveCounters,
         ReplyTooShort, SkipReply, NoReply, ReadFails, CheckHealth, SendCase, SendCaseFails,
         targetVars
\* Steps that send nothing and file nothing.
<1>3. ASSUME findings' = findings, before' = before, phase' = phase, uplink' = uplink,
             pc # "aborted", pc' \notin {"send", "aborted"}
      PROVE  ExactInv'
  <2>1. CurrentCase' = CurrentCase /\ FirstRequest' = FirstRequest /\ SecondRequest' = SecondRequest
    BY <1>3 DEF CurrentCase, FirstRequest, SecondRequest
  <2>2. ConclusiveVerdictExact' /\ SilentTargetIsDown' /\ InTurn' /\ AbortKeepsNothing'
    BY <1>2, <1>3, <2>1 DEF ExactInv, ConclusiveVerdictExact, SilentTargetIsDown, InTurn,
       AbortKeepsNothing, Judgements, Promise!VerdictFor, Promise!Silence
  <2>3. AnsweredOnce' /\ ReadingsFollow'
    BY <1>1, <1>2, <1>3, <2>1
       DEF ExactInv, AnsweredOnce, ReadingsFollow, FirstReadingFollowed, SecondReadingCurrent,
           Follows
  <2> QED
    BY <2>2, <2>3 DEF ExactInv
\* Steps that file a finding without a second reading.
<1>4. ASSUME pc \in Active, NEW v, NEW e, Judged(v, e, None), uplink' = uplink
      PROVE  ExactInv'
  BY <1>1, <1>2, <1>4, JudgedExact
<1>5. CASE Drain
  BY <1>3, <1>5 DEF Drain, DrainReply, oracleVars
<1>6. CASE EndDrain
  BY <1>3, <1>6 DEF EndDrain, transportVars
<1>7. CASE RequestCounters
  <2>1. /\ pc = "request" /\ pc' = "receive" /\ uplink' = uplink \cup {Request}
        /\ findings' = findings /\ before' = before /\ phase' = phase
    BY <1>7 DEF RequestCounters, Send
  <2>2. CurrentCase' = CurrentCase /\ FirstRequest' = FirstRequest /\ SecondRequest' = SecondRequest
    BY <2>1 DEF CurrentCase, FirstRequest, SecondRequest
  <2>3. Request.case = CurrentCase /\ Request.step = phase /\ phase \in {"before", "after"}
    BY DEF Request, TypeOK
  <2>4. \A d \in InFlight : d.req = None
    BY <2>1 DEF FreshInv, OnlyOwnReply
  <2>5. ConclusiveVerdictExact' /\ SilentTargetIsDown' /\ AbortKeepsNothing'
    BY <1>2, <2>1 DEF ExactInv, ConclusiveVerdictExact, SilentTargetIsDown, AbortKeepsNothing,
       Judgements, Promise!VerdictFor, Promise!Silence
  <2>6. InTurn'
    <3>1. phase = "after" => FirstRequest # Request
      BY <2>3 DEF FirstRequest
    <3>2. \A k : [case |-> k, step |-> "case"] # Request
      BY <2>3
    <3> QED
      BY <1>2, <2>1, <2>2, <2>3, <3>1, <3>2 DEF ExactInv, InTurn, Judgements
  <2>7. AnsweredOnce' /\ ReadingsFollow'
    BY <1>1, <1>2, <2>1, <2>2, <2>3, <2>4
       DEF ExactInv, AnsweredOnce, ReadingsFollow, FirstReadingFollowed, SecondReadingCurrent,
           Follows
  <2> QED
    BY <2>5, <2>6, <2>7 DEF ExactInv
<1>8. CASE RequestFails
  BY <1>4, <1>8 DEF RequestFails, SendFails
<1>9. CASE ReceiveCounters
  <2>1. /\ pc = "receive" /\ uplink' = uplink
        /\ Head(inbox) \in InFlight /\ Head(inbox).req = Request
    BY <1>9, ReceivedFresh DEF ReceiveCounters, Receive
  <2>2. CASE phase = "before"
    <3>1. /\ before' = Head(inbox) /\ pc' = "send" /\ findings' = findings /\ phase' = phase
      BY <1>9, <2>2 DEF ReceiveCounters, FirstReading
    <3>2. /\ CurrentCase' = CurrentCase /\ FirstRequest' = FirstRequest
          /\ SecondRequest' = SecondRequest
      BY <3>1 DEF CurrentCase, FirstRequest, SecondRequest
    <3>3. FirstRequest \notin uplink
      <4>1. Request # None /\ Request = FirstRequest
        BY <2>1, <2>2, MessagesTyped, NoneIsNoPacket DEF Request, FirstRequest
      <4> QED
        BY <2>1, <4>1 DEF ExactInv, AnsweredOnce
    <3>4. InTurn'
      BY <1>2, <2>1, <2>2, <3>1, <3>2, <3>3 DEF ExactInv, InTurn, Judgements
    <3>5. ConclusiveVerdictExact' /\ SilentTargetIsDown' /\ AbortKeepsNothing'
      BY <1>2, <3>1 DEF ExactInv, ConclusiveVerdictExact, SilentTargetIsDown, AbortKeepsNothing,
         Judgements, Promise!VerdictFor, Promise!Silence
    <3>6. AnsweredOnce' /\ ReadingsFollow'
      BY <1>1, <1>2, <2>1, <3>1, <3>2
         DEF ExactInv, AnsweredOnce, ReadingsFollow, FirstReadingFollowed, SecondReadingCurrent,
             Follows
    <3> QED
      BY <3>4, <3>5, <3>6 DEF ExactInv
  <2>3. CASE phase = "after"
    <3>1. Judged(DeltaVerdict(CurrentCase, before, Head(inbox)), "none", Head(inbox))
      BY <1>9, <2>3 DEF ReceiveCounters
    <3> QED
      BY <1>1, <1>2, <1>9, <2>1, <2>3, <3>1, SecondReadingJudged, JudgedExact
  <2> QED
    BY <2>2, <2>3 DEF TypeOK
<1>10. CASE ReplyTooShort
  BY <1>2, <1>10 DEF ReplyTooShort, ExactInv, ConclusiveVerdictExact, SilentTargetIsDown, InTurn,
     AnsweredOnce, ReadingsFollow, AbortKeepsNothing, Judgements
<1>11. CASE SkipReply
  BY <1>3, <1>11 DEF SkipReply, SkipForeign, oracleVars
<1>12. CASE NoReply
  BY <1>3, <1>12 DEF NoReply, ReceiveTimesOut, transportVars
<1>13. CASE ReadFails
  BY <1>4, <1>13 DEF ReadFails, ReceiveFails
<1>14. CASE CheckHealth
  BY <1>4, <1>14 DEF CheckHealth, transportVars
<1>15. CASE SendCase
  <2>1. /\ pc = "send" /\ phase = "before" /\ pc' = "drain" /\ phase' = "after"
        /\ uplink' = uplink \cup {CasePacket} /\ findings' = findings /\ before' = before
    BY <1>15 DEF SendCase, Send, ExactInv, InTurn
  <2>2. CurrentCase' = CurrentCase /\ FirstRequest' = FirstRequest /\ SecondRequest' = SecondRequest
    BY <2>1 DEF CurrentCase, FirstRequest, SecondRequest
  <2>3. CasePacket.case = CurrentCase /\ CasePacket.step = "case" /\ CurrentCase \in Cases
    BY <2>1, MessagesTyped DEF CasePacket, Message
  <2>4. ConclusiveVerdictExact' /\ SilentTargetIsDown' /\ AbortKeepsNothing'
    BY <1>2, <2>1 DEF ExactInv, ConclusiveVerdictExact, SilentTargetIsDown, AbortKeepsNothing,
       Judgements, Promise!VerdictFor, Promise!Silence
  <2>5. InTurn'
    <3>1. effects[CurrentCase] = {}
      BY <2>1, <2>3 DEF ExactInv, InTurn
    <3>2. FirstRequest # CasePacket
      BY <2>3 DEF FirstRequest
    <3>3. \A k \in Judgements : [case |-> k, step |-> "case"] # CasePacket
      BY <2>3, CurrentCaseNat DEF Judgements, CurrentCase, TypeOK
    <3> QED
      BY <1>2, <2>1, <2>2, <2>3, <3>1, <3>2, <3>3 DEF ExactInv, InTurn, Judgements
  <2>6. AnsweredOnce'
    BY <1>1, <2>1, <2>2, <2>3 DEF ExactInv, AnsweredOnce
  <2>7. \A d \in InFlight : d.req # None => d.req # SecondRequest
    BY <2>1 DEF ExactInv, AnsweredOnce, SecondRequest
  <2>8. before # None => before.req # SecondRequest
    BY <2>1 DEF FreshInv, FirstReadingFresh, FirstRequest, SecondRequest
  <2>9. ReadingsFollow'
    BY <1>1, <1>2, <2>1, <2>2, <2>3, <2>7, <2>8
       DEF ExactInv, ReadingsFollow, FirstReadingFollowed, SecondReadingCurrent, Follows
  <2> QED
    BY <2>4, <2>5, <2>6, <2>9 DEF ExactInv
<1>16. CASE SendCaseFails
  BY <1>4, <1>16 DEF SendCaseFails, SendFails
<1> QED
  BY <1>5, <1>6, <1>7, <1>8, <1>9, <1>10, <1>11, <1>12, <1>13, <1>14, <1>15, <1>16
     DEF OracleNext

LEMMA QuietStepExact ==
    ASSUME TypeOK, ExactInv, UNCHANGED <<targetVars, oracleVars>>, uplink' \subseteq uplink,
           \A d \in InFlight' : d \in InFlight \/ d.req = None
    PROVE  ExactInv'
<1>1. /\ mode' = mode /\ counters' = counters /\ effects' = effects
      /\ pc' = pc /\ phase' = phase /\ before' = before /\ findings' = findings
  BY DEF targetVars, oracleVars
<1>2. CurrentCase' = CurrentCase /\ FirstRequest' = FirstRequest /\ SecondRequest' = SecondRequest
  BY <1>1 DEF CurrentCase, FirstRequest, SecondRequest
<1>3. ConclusiveVerdictExact' /\ SilentTargetIsDown' /\ InTurn' /\ AbortKeepsNothing'
  BY <1>1, <1>2 DEF ExactInv, ConclusiveVerdictExact, SilentTargetIsDown, InTurn,
     AbortKeepsNothing, Judgements, Promise!VerdictFor, Promise!Silence
<1>4. AnsweredOnce'
  BY <1>1, <1>2 DEF ExactInv, AnsweredOnce
<1>5. ReadingsFollow'
  BY <1>1, <1>2 DEF ExactInv, ReadingsFollow, FirstReadingFollowed, SecondReadingCurrent, Follows
<1> QED
  BY <1>3, <1>4, <1>5 DEF ExactInv

LEMMA StepExact ==
    Punctual /\ WideCounters /\ TypeOK /\ CauseInv /\ FreshInv /\ ExactInv /\ [Next]_vars
      => ExactInv'
<1> SUFFICES ASSUME Punctual, WideCounters, TypeOK, CauseInv, FreshInv, ExactInv, [Next]_vars
             PROVE  ExactInv'
  OBVIOUS
<1>1. CASE OracleNext
  BY <1>1, OracleStepExact
<1>2. CASE TimePasses
  BY <1>2, QuietStepExact DEF TimePasses, Tick, InFlight
<1>3. CASE NetworkNext /\ UNCHANGED targetVars /\ UNCHANGED oracleVars
  BY <1>3, NetworkInFlight, QuietStepExact
<1>4. CASE AnswerHk /\ UNCHANGED oracleVars
  BY <1>4, AnswerHkExact
<1>5. CASE HandleCase /\ UNCHANGED oracleVars
  BY <1>5, HandleCaseExact
<1>6. CASE Recover \/ Restart \/ OthersCommand
  BY <1>6 DEF Recover, Restart, OthersCommand, Punctual, SoleClient
<1>7. CASE UNCHANGED vars
  BY <1>7, QuietStepExact DEF vars, transportVars, InFlight
<1> QED
  BY <1>1, <1>2, <1>3, <1>4, <1>5, <1>6, <1>7 DEF Next, EnvironmentNext, TargetNext

\* When the drain outlasts the answers still due, both readings in hand give
\* the verdict the case's own effect deserves, from any value of the counters,
\* across their wrap, and however many packets were lost before.
THEOREM ConclusiveExact ==
    ASSUME Punctual, WideCounters
    PROVE  Spec => []ConclusiveVerdictExact
<1>1. ExactInv => ConclusiveVerdictExact
  BY DEF ExactInv
<1>2. TypeOK /\ CauseInv /\ [Next]_vars => CauseInv'
  BY StepCause DEF Punctual
<1>3. TypeOK /\ FreshInv /\ [Next]_vars => FreshInv'
  BY StepFresh
<1>4. TypeOK /\ CauseInv /\ FreshInv /\ ExactInv /\ [Next]_vars => ExactInv'
  BY StepExact
<1> QED
  BY <1>1, <1>2, <1>3, <1>4, TypeCorrect, InitCause, InitFresh, InitExact, PTL DEF Spec

-----------------------------------------------------------------------------
(***************************************************************************)
(* The campaign.  Over a network that loses nothing and answers in time,   *)
(* every step of a run is a step of Campaign or none.  The invariant says, *)
(* for every place in judge and either reading, what is still on its way,  *)
(* what the target has done with the case, and how the counters stand to   *)
(* the first reading.                                                      *)
(***************************************************************************)
Lossless == Faults = {} /\ Latency = "timely"

Harmless == {"accept", "reject", "drop", "ignore"}

Quiet == downlink = {} /\ inbox = <<>>

NotSentYet == CurrentCase \in Cases => effects[CurrentCase] = {}

\* The case is still to be handled, was handled, or found or made the target down.
ToHandle == mode = "up" /\ effects[CurrentCase] = {} /\ counters = before.counters

Handled ==
    /\ mode = "up"
    /\ \E e \in Harmless :
          effects[CurrentCase] = {e} /\ counters = CountersAfter(before.counters, e)

Down ==
    /\ mode # "up"
    /\ \/ effects[CurrentCase] = {}
       \/ \E e \in Effect \ Harmless : effects[CurrentCase] = {e} /\ mode = ModeAfter(e)

Untouched == \A j \in Cases : j > CurrentCase => effects[j] = {}

BetweenCases == Quiet /\ NotSentYet /\ (mode = "up" => uplink = {})

CaseSent ==
    /\ Quiet
    /\ \/ Down
       \/ ToHandle /\ uplink = {CasePacket}
       \/ Handled /\ uplink = {}

AnswerOnItsWay ==
    \E d \in Datagram :
       /\ d.req = Request /\ d.counters = counters
       /\ \/ downlink = {d} /\ inbox = <<>>
          \/ downlink = {} /\ inbox = <<d>>

FirstRequestOut ==
    /\ NotSentYet
    /\ \/ Quiet /\ mode # "up"
       \/ remaining > 0 /\ mode = "up" /\ Quiet /\ uplink = {Request}
       \/ remaining > 0 /\ mode = "up" /\ AnswerOnItsWay /\ uplink = {}

SecondRequestOut ==
    \/ Quiet /\ Down
    \/ remaining > 0 /\ Quiet /\ ToHandle /\ uplink = {CasePacket, Request}
    \/ remaining > 0 /\ Quiet /\ Handled /\ uplink = {Request}
    \/ remaining > 0 /\ AnswerOnItsWay /\ Handled /\ uplink = {}

Stage ==
    /\ pc # "aborted"
    /\ pc \in {"finished", "send"} => phase = "before"
    /\ pc \in {"finished", "send"} \/ (pc \in {"drain", "request"} /\ phase = "before") => BetweenCases
    /\ pc = "send" => ToHandle
    /\ pc \in {"drain", "request"} /\ phase = "after" => CaseSent
    /\ pc = "receive" /\ phase = "before" => FirstRequestOut
    /\ pc = "receive" /\ phase = "after" => SecondRequestOut
    /\ pc = "health" => Quiet /\ Down
    /\ pc = "send" \/ phase = "after" => before.counters \in Counters

StageInv == Untouched /\ Stage

LEMMA InitStage == Init => StageInv
<1> SUFFICES ASSUME Init PROVE StageInv
  OBVIOUS
<1>1. Untouched /\ NotSentYet
  BY DEF Init, TargetInit, Untouched, NotSentYet
<1>2. BetweenCases /\ pc \in {"drain", "finished"} /\ phase = "before"
  BY <1>1 DEF Init, TargetInit, TransportInit, BetweenCases, Quiet
<1> QED
  BY <1>1, <1>2 DEF StageInv, Stage

LEMMA JudgedAppends ==
    ASSUME TypeOK, NEW v, NEW e, NEW a, Judged(v, e, a)
    PROVE  /\ Len(findings') = Len(findings) + 1
           /\ \A k \in DOMAIN findings : findings'[k] = findings[k]
           /\ findings'[Len(findings')].verdict = v
           /\ DOMAIN findings' = 1 .. Len(findings')
           /\ DOMAIN findings = 1 .. Len(findings)
           /\ Len(findings) \in Nat
           /\ pc' \in {"drain", "finished"} /\ phase' = "before"
<1> DEFINE f == [verdict |-> v, error |-> e, before |-> before, after |-> a]
<1>1. findings' = Append(findings, f) /\ f.verdict = v
      /\ pc' \in {"drain", "finished"} /\ phase' = "before"
  BY DEF Judged
<1> HIDE DEF f
<1> QED
  BY <1>1 DEF TypeOK

LEMMA TheCaseIsACase ==
    ASSUME TypeOK, pc \in Active
    PROVE  /\ CurrentCase \in Cases /\ CurrentCase = Len(findings) + 1 /\ Len(findings) < NCases
           /\ CasePacket # Request
<1>1. Len(findings) \in Nat /\ Len(findings) < NCases
  BY LenProperties DEF TypeOK, Active
<1>2. CasePacket # Request
  BY DEF TypeOK, CasePacket, Request
<1> QED
  BY <1>1, <1>2, TransportAssumption DEF CurrentCase, Cases

\* A judged case leaves everything as the next one needs to find it.
LEMMA JudgedStage ==
    ASSUME TypeOK, StageInv,
           NEW v, NEW e, NEW a, Judged(v, e, a),
           UNCHANGED <<mode, effects, uplink>>, Quiet', mode = "up" => uplink = {}
    PROVE  StageInv'
<1>1. CurrentCase' = CurrentCase + 1 /\ CurrentCase \in Nat
      /\ pc' \in {"drain", "finished"} /\ phase' = "before"
  BY JudgedAppends DEF CurrentCase
<1>2. Untouched'
  BY <1>1 DEF StageInv, Untouched, Cases
<1>3. NotSentYet'
  BY <1>1 DEF StageInv, Untouched, NotSentYet, Cases
<1> QED
  BY <1>1, <1>2, <1>3 DEF StageInv, Stage, BetweenCases

\* Steps that leave the target, the case and its first reading alone.
LEMMA SameCase ==
    ASSUME UNCHANGED <<mode, counters, effects, findings, before, phase>>
    PROVE  /\ CurrentCase' = CurrentCase /\ CasePacket' = CasePacket /\ Request' = Request
           /\ Down' = Down /\ ToHandle' = ToHandle /\ Handled' = Handled
           /\ Untouched' = Untouched /\ NotSentYet' = NotSentYet
<1>1. CurrentCase' = CurrentCase
  BY DEF CurrentCase
<1>2. CasePacket' = CasePacket /\ Request' = Request
  BY <1>1 DEF CasePacket, Request
<1>3. Down' = Down
  BY <1>1, Zenon DEF Down, ModeAfter
<1>4. ToHandle' = ToHandle /\ Untouched' = Untouched /\ NotSentYet' = NotSentYet
  BY <1>1, Zenon DEF ToHandle, Untouched, NotSentYet
<1>5. Handled' = Handled
  BY <1>1, Zenon DEF Handled
<1> QED
  BY <1>1, <1>2, <1>3, <1>4, <1>5

\* Only the case in hand is ever to be handled, and after its first reading.
LEMMA HandledInTurn ==
    ASSUME TypeOK, StageInv, Lossless, HandleCase
    PROVE  /\ pc \in {"drain", "request", "receive"} /\ phase = "after"
           /\ ToHandle /\ Quiet
           /\ \E e \in Effect : /\ mode' = ModeAfter(e)
                               /\ counters' = CountersAfter(counters, e)
                               /\ effects' = [effects EXCEPT ![CurrentCase] = {e}]
           /\ uplink' = uplink \ {CasePacket}
<1>1. PICK m \in uplink, e \in Effect :
        /\ m.step = "case"
        /\ uplink' \in AfterArrival(m, uplink)
        /\ counters' = CountersAfter(counters, e)
        /\ mode' = ModeAfter(e)
        /\ effects' = [effects EXCEPT ![m.case] = @ \cup {e}]
        /\ mode = "up"
  BY DEF HandleCase
<1>2. uplink' = uplink \ {m}
  BY <1>1 DEF AfterArrival, Lossless
<1>3. Request.step # "case" /\ CasePacket.case = CurrentCase
  BY DEF Request, CasePacket, TypeOK
<1>4. /\ pc \in {"drain", "request", "receive"} /\ phase = "after"
      /\ m = CasePacket /\ ToHandle /\ Quiet
  <2>1. CASE pc \in {"send", "finished"} \/ (pc \in {"drain", "request"} /\ phase = "before")
    BY <1>1, <2>1 DEF StageInv, Stage, BetweenCases
  <2>2. CASE pc \in {"drain", "request"} /\ phase = "after"
    BY <1>1, <2>2 DEF StageInv, Stage, CaseSent, Down
  <2>3. CASE pc = "receive" /\ phase = "after"
    BY <1>1, <1>3, <2>3 DEF StageInv, Stage, SecondRequestOut, Down
  <2>4. CASE pc = "receive" /\ phase = "before"
    BY <1>1, <1>3, <2>4 DEF StageInv, Stage, FirstRequestOut
  <2>5. CASE pc \in {"health", "aborted"}
    BY <1>1, <2>5 DEF StageInv, Stage, Down
  <2> QED
    BY <2>1, <2>2, <2>3, <2>4, <2>5 DEF TypeOK
<1>5. effects' = [effects EXCEPT ![CurrentCase] = {e}]
  BY <1>1, <1>3, <1>4 DEF ToHandle
<1> QED
  BY <1>1, <1>2, <1>4, <1>5

LEMMA StageAfterHandling ==
    ASSUME TypeOK, StageInv, Lossless, HandleCase, UNCHANGED oracleVars
    PROVE  StageInv'
<1>1. PICK e \in Effect : /\ mode' = ModeAfter(e)
                         /\ counters' = CountersAfter(counters, e)
                         /\ effects' = [effects EXCEPT ![CurrentCase] = {e}]
  BY HandledInTurn
<1>2. /\ pc \in {"drain", "request", "receive"} /\ phase = "after" /\ ToHandle /\ Quiet
      /\ uplink' = uplink \ {CasePacket}
  BY HandledInTurn
<1>3. /\ CurrentCase \in Cases /\ CasePacket # Request
      /\ CurrentCase' = CurrentCase /\ CasePacket' = CasePacket /\ Request' = Request
      /\ pc' = pc /\ remaining' = remaining /\ downlink' = downlink /\ inbox' = inbox
      /\ phase' = phase /\ before' = before
  BY <1>2, TheCaseIsACase DEF HandleCase, oracleVars, CurrentCase, CasePacket, Request, Active
<1>4. effects' \in [Cases -> SUBSET Effect] /\ effects'[CurrentCase] = {e}
  BY <1>1, <1>3 DEF TypeOK, TargetTypeOK
<1>5. Untouched' /\ Quiet' /\ ~(Handled \/ Down)
  BY <1>1, <1>2, <1>3 DEF StageInv, Untouched, Quiet, Handled, Down, ToHandle
<1>6. CASE e \in Harmless
  <2>1. counters' = CountersAfter(before.counters, e)
    BY <1>1, <1>2 DEF ToHandle
  <2>2. Handled'
    BY <1>1, <1>2, <1>3, <1>4, <1>6, <2>1 DEF Handled, Harmless, ModeAfter, ToHandle
  <2> QED
    BY <1>2, <1>3, <1>5, <2>2
       DEF StageInv, Stage, CaseSent, SecondRequestOut, AnswerOnItsWay, Quiet
<1>7. CASE e \notin Harmless
  <2>1. Down'
    BY <1>1, <1>3, <1>4, <1>7 DEF Down, Harmless, ModeAfter, Effect
  <2> QED
    BY <1>2, <1>3, <1>5, <2>1
       DEF StageInv, Stage, CaseSent, SecondRequestOut, Quiet
<1> QED
  BY <1>6, <1>7

\* Which requests are answered: the one that is out, and after the case.
LEMMA AnsweredInTurn ==
    ASSUME TypeOK, StageInv, Lossless, NEW m \in uplink, NextUp(m), m.step # "case", mode = "up"
    PROVE  /\ pc = "receive" /\ m = Request /\ Quiet /\ uplink = {Request} /\ remaining > 0
           /\ phase = "after" => Handled
<1>1. CasePacket.step = "case" /\ CasePacket.case = CurrentCase /\ Request.case = CurrentCase
      /\ Request.step = phase
  BY DEF CasePacket, Request
<1>2. CASE pc \in {"send", "finished"} \/ (pc \in {"drain", "request"} /\ phase = "before")
  BY <1>2 DEF StageInv, Stage, BetweenCases
<1>3. CASE pc \in {"drain", "request"} /\ phase = "after"
  BY <1>1, <1>3 DEF StageInv, Stage, CaseSent, Down
<1>4. CASE pc = "receive" /\ phase = "after"
  <2>1. uplink # {CasePacket, Request}
    <3> SUFFICES ASSUME uplink = {CasePacket, Request} PROVE FALSE
      OBVIOUS
    <3>1. SentBefore(CasePacket, Request)
      BY <1>1, <1>4 DEF SentBefore, Rank
    <3>2. m = Request
      BY <1>1
    <3> QED
      BY <3>1, <3>2 DEF NextUp, Lossless
  <2> QED
    BY <1>4, <2>1 DEF StageInv, Stage, SecondRequestOut, Down
<1>5. CASE pc = "receive" /\ phase = "before"
  BY <1>5 DEF StageInv, Stage, FirstRequestOut
<1>6. CASE pc \in {"health", "aborted"}
  BY <1>6 DEF StageInv, Stage, Down
<1> QED
  BY <1>2, <1>3, <1>4, <1>5, <1>6 DEF TypeOK

LEMMA StageAfterAnswer ==
    ASSUME TypeOK, StageInv, Lossless, AnswerHk, UNCHANGED oracleVars
    PROVE  StageInv'
<1>1. PICK m \in uplink :
        /\ NextUp(m) /\ m.step # "case" /\ mode = "up"
        /\ uplink' \in AfterArrival(m, uplink)
        /\ \E c \in {counters} \cup (IF "malformed" \in Faults THEN {None} ELSE {}) :
              downlink' = downlink \cup {[req |-> m, counters |-> c]}
  BY DEF AnswerHk
<1> DEFINE d == [req |-> m, counters |-> counters]
<1>2. uplink' = uplink \ {m} /\ downlink' = downlink \cup {d}
  BY <1>1 DEF AfterArrival, Lossless
<1>3. /\ pc = "receive" /\ m = Request /\ Quiet /\ uplink = {Request} /\ remaining > 0
      /\ phase = "after" => Handled
  BY <1>1, AnsweredInTurn
<1>4. d \in Datagram
  BY AnswerTyped DEF TypeOK
<1>5. /\ UNCHANGED <<inbox, mode, counters, effects, remaining, pc, phase, before, findings>>
  BY DEF AnswerHk, oracleVars, targetVars
<1>6. AnswerOnItsWay'
  <2>1. d.req = Request /\ d.counters = counters /\ downlink' = {d} /\ inbox' = <<>>
    BY <1>2, <1>3, <1>5 DEF Quiet
  <2>2. Request' = Request
    BY <1>5, SameCase
  <2> QED
    BY <1>4, <1>5, <2>1, <2>2 DEF AnswerOnItsWay
<1>7. uplink' = {} /\ remaining' > 0
  BY <1>2, <1>3, <1>5
<1>8. CASE phase = "after"
  BY <1>3, <1>5, <1>6, <1>7, <1>8, SameCase DEF StageInv, Stage, SecondRequestOut
<1>9. CASE phase = "before"
  BY <1>1, <1>3, <1>5, <1>6, <1>7, <1>9, SameCase DEF StageInv, Stage, FirstRequestOut
<1> QED
  BY <1>8, <1>9 DEF TypeOK

LEMMA StageAfterDelivery ==
    ASSUME TypeOK, StageInv, Lossless, DeliverDatagram, UNCHANGED <<targetVars, oracleVars>>
    PROVE  StageInv'
<1>1. PICK d \in downlink :
        /\ downlink' \in AfterArrival(d, downlink)
        /\ inbox' = IF Len(inbox) < InboxCap THEN Append(inbox, d) ELSE inbox
  BY DEF DeliverDatagram
<1>2. downlink' = downlink \ {d} /\ ~Quiet
  BY <1>1 DEF AfterArrival, Lossless, Quiet
<1>3. /\ pc = "receive" /\ remaining > 0 /\ AnswerOnItsWay /\ uplink = {} /\ mode = "up"
      /\ phase = "after" => Handled
  BY <1>2 DEF StageInv, Stage, BetweenCases, CaseSent, FirstRequestOut, SecondRequestOut, Handled, TypeOK
<1>4. d.req = Request /\ d.counters = counters /\ downlink = {d} /\ inbox = <<>> /\ d \in Datagram
  BY <1>1, <1>3 DEF AnswerOnItsWay
<1>5. downlink' = {} /\ inbox' = <<d>>
  BY <1>1, <1>2, <1>4, TransportAssumption
<1>6. UNCHANGED <<uplink, mode, counters, effects, remaining, pc, phase, before, findings>>
  BY DEF DeliverDatagram, oracleVars, targetVars
<1>7. AnswerOnItsWay'
  BY <1>4, <1>5, <1>6, SameCase DEF AnswerOnItsWay
<1>8. CASE phase = "after"
  BY <1>3, <1>6, <1>7, <1>8, SameCase DEF StageInv, Stage, SecondRequestOut
<1>9. CASE phase = "before"
  <2>1. NotSentYet
    BY <1>3, <1>9 DEF StageInv, Stage, FirstRequestOut
  <2> QED
    BY <1>3, <1>6, <1>7, <1>9, <2>1, SameCase DEF StageInv, Stage, FirstRequestOut
<1> QED
  BY <1>8, <1>9 DEF TypeOK

\* What a reading returns answers its own request, with the counters as they are.
LEMMA ReadingIsCurrent ==
    ASSUME TypeOK, StageInv, pc = "receive", Receive
    PROVE  /\ downlink = {} /\ uplink = {} /\ mode = "up"
           /\ inbox = <<Head(inbox)>> /\ Head(inbox) \in Datagram
           /\ Head(inbox).req = Request /\ Head(inbox).counters = counters
           /\ inbox' = <<>>
           /\ phase = "before" => NotSentYet
           /\ phase = "after" => Handled
<1>1. inbox # <<>> /\ inbox' = Tail(inbox)
  BY DEF Receive
<1>2. /\ AnswerOnItsWay /\ downlink = {} /\ uplink = {} /\ mode = "up"
      /\ phase = "before" => NotSentYet
      /\ phase = "after" => Handled
  BY <1>1 DEF StageInv, Stage, FirstRequestOut, SecondRequestOut, Quiet, AnswerOnItsWay, Handled, TypeOK
<1>3. PICK d \in Datagram : d.req = Request /\ d.counters = counters /\ inbox = <<d>>
  BY <1>1, <1>2 DEF AnswerOnItsWay
<1> QED
  BY <1>1, <1>2, <1>3

LEMMA StageAfterReading ==
    ASSUME TypeOK, StageInv, Lossless, ReceiveCounters
    PROVE  StageInv'
<1>1. pc = "receive" /\ Receive /\ UNCHANGED <<mode, counters, effects>>
  BY DEF ReceiveCounters, targetVars
<1>2. /\ downlink = {} /\ uplink = {} /\ mode = "up" /\ inbox' = <<>>
      /\ Head(inbox).counters = counters
      /\ phase = "before" => NotSentYet
  BY <1>1, ReadingIsCurrent
<1>3. Quiet' /\ uplink' = {}
  BY <1>1, <1>2 DEF Receive, Quiet
<1>4. CASE phase = "before"
  <2>1. before' = Head(inbox) /\ pc' = "send" /\ UNCHANGED <<phase, findings>>
    BY <1>4 DEF ReceiveCounters, FirstReading
  <2>2. CurrentCase' = CurrentCase /\ CurrentCase \in Cases
    BY <1>1, <2>1, TheCaseIsACase DEF CurrentCase, Active
  <2>3. NotSentYet' /\ Untouched' /\ ToHandle'
    BY <1>1, <1>2, <1>4, <2>1, <2>2 DEF NotSentYet, Untouched, ToHandle, StageInv
  <2>4. before'.counters \in Counters
    BY <1>2, <2>1 DEF TypeOK, TargetTypeOK
  <2> QED
    BY <1>3, <1>4, <2>1, <2>3, <2>4 DEF StageInv, Stage, BetweenCases
<1>5. CASE phase # "before"
  <2>1. Judged(DeltaVerdict(CurrentCase, before, Head(inbox)), "none", Head(inbox))
    BY <1>5 DEF ReceiveCounters
  <2> QED
    BY <1>1, <1>2, <1>3, <2>1, JudgedStage DEF Receive
<1> QED
  BY <1>4, <1>5

LEMMA StageAfterOracle ==
    ASSUME TypeOK, StageInv, Lossless, OracleNext
    PROVE  StageInv'
<1>1. CASE ReceiveCounters
  BY <1>1, StageAfterReading
<1>2. CASE CheckHealth
  <2>1. pc = "health" /\ Quiet /\ Down
    BY <1>2 DEF CheckHealth, StageInv, Stage
  <2>2. PICK alive \in HealthReports : Judged(SilenceVerdict(alive), "none", None)
    BY <1>2 DEF CheckHealth
  <2>3. Quiet' /\ UNCHANGED <<mode, effects, uplink>> /\ mode # "up"
    BY <1>2, <2>1 DEF CheckHealth, Quiet, Down, transportVars, targetVars
  <2> QED
    BY <2>2, <2>3, JudgedStage
<1>3. CASE SendCase
  <2>1. /\ pc = "send" /\ pc' = "drain" /\ uplink' = uplink \cup {CasePacket} /\ phase' = "after"
        /\ UNCHANGED <<downlink, inbox, remaining, mode, counters, effects, before, findings>>
    BY <1>3 DEF SendCase, Send, targetVars
  <2>2. CurrentCase' = CurrentCase /\ CasePacket' = CasePacket
    BY <2>1 DEF CurrentCase, CasePacket
  <2>3. Untouched' /\ Quiet' /\ ToHandle' /\ uplink' = {CasePacket'} /\ before'.counters \in Counters
    BY <2>1, <2>2 DEF StageInv, Stage, BetweenCases, Quiet, ToHandle, Untouched
  <2> QED
    BY <2>1, <2>3 DEF StageInv, Stage, CaseSent
<1>4. CASE Drain
  BY <1>4 DEF Drain, DrainReply, StageInv, Stage, BetweenCases, CaseSent, Quiet, TypeOK
<1>5. CASE EndDrain
  <2>1. /\ pc = "drain" /\ pc' = "request"
        /\ UNCHANGED <<uplink, downlink, inbox, mode, counters, effects, findings, before, phase>>
    BY <1>5 DEF EndDrain, transportVars, targetVars
  <2>2. Quiet' = Quiet
    BY <2>1 DEF Quiet
  <2> QED
    BY <2>1, <2>2, SameCase DEF StageInv, Stage, BetweenCases, CaseSent
<1>6. CASE RequestCounters
  <2>1. /\ pc = "request" /\ pc' = "receive" /\ uplink' = uplink \cup {Request} /\ remaining' = Timeout
        /\ UNCHANGED <<downlink, inbox, mode, counters, effects, findings, before, phase>>
    BY <1>6 DEF RequestCounters, Send, StartReceive, targetVars
  <2>2. remaining' > 0 /\ Quiet' = Quiet
    BY <2>1, TransportAssumption DEF Quiet
  <2>3. Untouched'
    BY <2>1, SameCase DEF StageInv
  <2>4. CASE phase = "before"
    <3>1. FirstRequestOut'
      BY <2>1, <2>2, <2>4, SameCase DEF StageInv, Stage, BetweenCases, FirstRequestOut
    <3> QED
      BY <2>1, <2>3, <2>4, <3>1 DEF StageInv, Stage
  <2>5. CASE phase = "after"
    <3>1. SecondRequestOut'
      BY <2>1, <2>2, <2>5, SameCase DEF StageInv, Stage, CaseSent, SecondRequestOut
    <3> QED
      BY <2>1, <2>3, <2>5, <3>1 DEF StageInv, Stage
  <2> QED
    BY <2>4, <2>5 DEF TypeOK
<1>7. CASE ReplyTooShort \/ SkipReply
  <2>1. pc = "receive" /\ inbox # <<>>
        /\ (Head(inbox).req = None \/ Head(inbox).counters = None)
    BY <1>7 DEF ReplyTooShort, SkipReply, SkipForeign, Receive, Accepts
  <2>2. \E d \in Datagram : d.req = Request /\ d.counters = counters /\ inbox = <<d>>
    BY <2>1 DEF StageInv, Stage, FirstRequestOut, SecondRequestOut, Quiet, AnswerOnItsWay, TypeOK
  <2>3. Request \in Message /\ counters \in Counters
    BY <2>1, MessagesTyped DEF Active, TypeOK, TargetTypeOK
  <2> QED
    BY <2>1, <2>2, <2>3, NoneIsNoPacket, NoneIsNoCounters
<1>8. CASE NoReply
  <2>1. /\ pc = "receive" /\ pc' = "health" /\ remaining = 0
        /\ UNCHANGED <<downlink, inbox, mode, counters, effects, findings, before, phase>>
    BY <1>8 DEF NoReply, ReceiveTimesOut, transportVars, targetVars
  <2>2. CurrentCase \in Cases
    BY <2>1, TheCaseIsACase DEF Active
  <2>3. Quiet /\ Down
    BY <2>1, <2>2 DEF StageInv, Stage, FirstRequestOut, SecondRequestOut, NotSentYet, Down, TypeOK
  <2>4. Quiet' /\ Down' /\ Untouched'
    BY <2>1, <2>3, SameCase DEF Quiet, StageInv
  <2> QED
    BY <2>1, <2>4 DEF StageInv, Stage
<1>9. CASE RequestFails \/ ReadFails \/ SendCaseFails
  BY <1>9 DEF RequestFails, ReadFails, SendCaseFails, SendFails, ReceiveFails, Lossless
<1> QED
  BY <1>1, <1>2, <1>3, <1>4, <1>5, <1>6, <1>7, <1>8, <1>9 DEF OracleNext

\* The clock only moves once everything that was to arrive has: a request that
\* times out is one nobody will answer.
LEMMA StageAfterTick ==
    ASSUME TypeOK, StageInv, Lossless, TimePasses
    PROVE  StageInv'
<1>1. /\ pc = "receive" /\ Quiescent
      /\ UNCHANGED <<pc, downlink, inbox, mode, counters, effects, findings, before, phase>>
  BY DEF TimePasses, Tick, Lossless, targetVars, oracleVars
<1>2. Quiet /\ (mode = "up" => uplink = {}) /\ ~AnswerOnItsWay
  BY <1>1 DEF Quiescent, Quiet, AnswerOnItsWay
<1>3. CASE phase = "before"
  <2>1. NotSentYet /\ mode # "up"
    BY <1>1, <1>2, <1>3 DEF StageInv, Stage, FirstRequestOut
  <2>2. NotSentYet' /\ mode' # "up" /\ Quiet' /\ Untouched'
    BY <1>1, <1>2, <2>1, SameCase DEF Quiet, StageInv
  <2> QED
    BY <1>1, <1>3, <2>2 DEF StageInv, Stage, FirstRequestOut
<1>4. CASE phase = "after"
  <2>1. Down
    BY <1>1, <1>2, <1>4 DEF StageInv, Stage, SecondRequestOut, Handled, ToHandle
  <2>2. Down' /\ Quiet' /\ Untouched'
    BY <1>1, <1>2, <2>1, SameCase DEF Quiet, StageInv
  <2> QED
    BY <1>1, <1>4, <2>2 DEF StageInv, Stage, SecondRequestOut
<1> QED
  BY <1>3, <1>4 DEF TypeOK

LEMMA StepStage == TypeOK /\ StageInv /\ Lossless /\ [Next]_vars => StageInv'
<1> SUFFICES ASSUME TypeOK, StageInv, Lossless, [Next]_vars PROVE StageInv'
  OBVIOUS
<1>1. CASE OracleNext
  BY <1>1, StageAfterOracle
<1>2. CASE TimePasses
  BY <1>2, StageAfterTick
<1>3. CASE NetworkNext /\ UNCHANGED targetVars /\ UNCHANGED oracleVars
  <2>1. DeliverDatagram
    BY <1>3 DEF NetworkNext, LoseMessage, LoseDatagram, ForeignDatagram, Lossless
  <2> QED
    BY <1>3, <2>1, StageAfterDelivery
<1>4. CASE TargetNext /\ UNCHANGED oracleVars
  <2>1. AnswerHk \/ HandleCase
    BY <1>4 DEF TargetNext, Recover, Restart, OthersCommand, Lossless
  <2> QED
    BY <1>4, <2>1, StageAfterAnswer, StageAfterHandling
<1>5. CASE UNCHANGED vars
  <2>1. UNCHANGED <<uplink, downlink, inbox, remaining, pc, phase, before, mode, counters, effects, findings>>
    BY <1>5 DEF vars, transportVars, targetVars, oracleVars
  <2>2. AnswerOnItsWay' = AnswerOnItsWay /\ Quiet' = Quiet
    BY <2>1, SameCase DEF AnswerOnItsWay, Quiet
  <2>3. BetweenCases' = BetweenCases /\ CaseSent' = CaseSent
    BY <2>1, <2>2, SameCase DEF BetweenCases, CaseSent
  <2>4. FirstRequestOut' = FirstRequestOut /\ SecondRequestOut' = SecondRequestOut
    BY <2>1, <2>2, SameCase DEF FirstRequestOut, SecondRequestOut
  <2> QED
    BY <2>1, <2>2, <2>3, <2>4, SameCase DEF StageInv, Stage
<1> QED
  BY <1>1, <1>2, <1>3, <1>4, <1>5 DEF Next, EnvironmentNext

\* The target, its deeds and the report of the campaign.
CampaignTarget == IF CurrentCase \in Cases /\ effects[CurrentCase] # {} THEN "up" ELSE mode
CampaignDeeds == [k \in Judgements |-> Deed(effects[k])]
CampaignReport == [k \in Judgements |-> findings[k].verdict]

LEMMA DeedOfOneEffect ==
    ASSUME NEW done, NEW e \in Effect, done = {e}
    PROVE  Deed(done) = e
<1>1. \A x \in Effect : done = {x} => x = e
  OBVIOUS
<1>2. done # {}
  OBVIOUS
<1>3. (CHOOSE x \in Effect : done = {x}) = e
  BY <1>1
<1> QED
  BY <1>2, <1>3 DEF Deed

LEMMA JudgedCampaign ==
    ASSUME TypeOK, StageInv, pc \in Active, NEW v, NEW e, NEW a, Judged(v, e, a),
           UNCHANGED <<mode, effects>>
    PROVE  /\ CampaignDeeds' = Append(CampaignDeeds, Deed(effects[CurrentCase]))
           /\ CampaignReport' = Append(CampaignReport, v)
           /\ Len(CampaignReport) = Len(findings)
           /\ CampaignTarget' = mode
<1>1. /\ Len(findings') = Len(findings) + 1 /\ Len(findings) \in Nat
      /\ DOMAIN findings = 1 .. Len(findings) /\ DOMAIN findings' = 1 .. Len(findings')
      /\ \A k \in DOMAIN findings : findings'[k] = findings[k]
      /\ findings'[Len(findings')].verdict = v
  BY JudgedAppends
<1>2. /\ CampaignReport = [k \in 1 .. Len(findings) |-> findings[k].verdict]
      /\ CampaignReport' = [k \in 1 .. Len(findings) + 1 |-> findings'[k].verdict]
  BY <1>1 DEF CampaignReport, Judgements
<1>3. CampaignReport \in Seq({findings[k].verdict : k \in 1 .. Len(findings)} \cup {v})
      /\ Len(CampaignReport) = Len(findings)
  BY <1>1, <1>2
<1>4. CampaignReport' = Append(CampaignReport, v)
  BY <1>1, <1>2, <1>3
<1>5. CurrentCase' = CurrentCase + 1 /\ CurrentCase \in Nat
  BY <1>1 DEF CurrentCase
<1>6. CurrentCase' \in Cases => effects[CurrentCase'] = {}
  BY <1>5 DEF StageInv, Untouched, Cases
<1>7. CampaignDeeds' = Append(CampaignDeeds, Deed(effects[CurrentCase]))
  <2>1. /\ CampaignDeeds = [k \in 1 .. Len(findings) |-> Deed(effects[k])]
        /\ CampaignDeeds' = [k \in 1 .. Len(findings) + 1 |-> Deed(effects[k])]
    BY <1>1 DEF CampaignDeeds, Judgements
  <2>2. CampaignDeeds \in Seq({Deed(effects[k]) : k \in 1 .. Len(findings) + 1})
    BY <1>1, <2>1
  <2> QED
    BY <1>1, <2>1, <2>2 DEF CurrentCase
<1> QED
  BY <1>3, <1>4, <1>6, <1>7 DEF CampaignTarget

LEMMA ExchangeMeans ==
    Promise!Exchange <=>
        /\ CampaignTarget = "up"
        /\ \E e \in Effect :
              /\ CampaignTarget' = Promise!StateAfter(e)
              /\ Len(CampaignReport) + 1 <= NCases
              /\ CampaignDeeds' = Append(CampaignDeeds, e)
              /\ CampaignReport' = Append(CampaignReport,
                                         Promise!VerdictFor(Len(CampaignReport) + 1, e))
  BY Zenon DEF Promise!Exchange, Promise!Filed, Promise!NextCase, CampaignTarget, CampaignDeeds,
               CampaignReport, Promise!Effect, Effect

LEMMA NoAnswerMeans ==
    Promise!NoAnswer <=>
        /\ CampaignTarget # "up"
        /\ Len(CampaignReport) + 1 <= NCases
        /\ CampaignDeeds' = Append(CampaignDeeds, "none")
        /\ CampaignReport' = Append(CampaignReport, Promise!Silence(CampaignTarget))
        /\ CampaignTarget' = CampaignTarget
  BY Zenon DEF Promise!NoAnswer, Promise!Filed, Promise!NextCase, CampaignTarget, CampaignDeeds,
               CampaignReport

\* The second reading sees exactly what the target did with the case.
LEMMA ReadingIsCampaign ==
    ASSUME TypeOK, StageInv, WideCounters, ReceiveCounters, phase = "after"
    PROVE  Promise!Exchange
<1>1. /\ pc = "receive" /\ Receive /\ UNCHANGED <<mode, effects>>
      /\ Judged(DeltaVerdict(CurrentCase, before, Head(inbox)), "none", Head(inbox))
  BY DEF ReceiveCounters, targetVars
<1>2. Handled /\ Head(inbox).counters = counters /\ before.counters \in Counters
  BY <1>1, ReadingIsCurrent DEF StageInv, Stage
<1>3. PICK e \in Harmless : /\ effects[CurrentCase] = {e}
                           /\ counters = CountersAfter(before.counters, e)
  BY <1>2 DEF Handled
<1>4. e \in Effect \ {"hang", "crash"} /\ e \in Effect
  BY DEF Harmless, Effect
<1>5. CurrentCase \in Cases /\ CurrentCase = Len(findings) + 1 /\ Len(findings) < NCases
  BY <1>1, TheCaseIsACase DEF Active
<1>6. DeltaVerdict(CurrentCase, before, Head(inbox)) = Promise!VerdictFor(CurrentCase, e)
  BY <1>2, <1>3, <1>4, DeltaExact
<1>7. /\ CampaignReport' = Append(CampaignReport, Promise!VerdictFor(CurrentCase, e))
      /\ CampaignDeeds' = Append(CampaignDeeds, Deed(effects[CurrentCase]))
      /\ Len(CampaignReport) = Len(findings) /\ CampaignTarget' = mode
  BY <1>1, <1>6, JudgedCampaign DEF Active
<1>8. CampaignTarget = "up" /\ CampaignTarget' = Promise!StateAfter(e)
  BY <1>2, <1>3, <1>4, <1>5, <1>7 DEF CampaignTarget, Promise!StateAfter, Handled
<1>9. Deed(effects[CurrentCase]) = e
  BY <1>3, <1>4, DeedOfOneEffect
<1>10. Len(CampaignReport) + 1 = CurrentCase /\ Len(CampaignReport) + 1 <= NCases
  BY <1>5, <1>7 DEF Cases
<1> QED
  BY <1>4, <1>7, <1>8, <1>9, <1>10, ExchangeMeans

\* A target that gives no answer is down, and is charged for it.
LEMMA SilenceIsCampaign ==
    ASSUME TypeOK, StageInv, Lossless, CheckHealth
    PROVE  Promise!Next
<1>1. pc = "health" /\ Down /\ UNCHANGED <<mode, effects>>
  BY DEF CheckHealth, StageInv, Stage, targetVars
<1>2. PICK alive \in HealthReports : Judged(SilenceVerdict(alive), "none", None)
  BY DEF CheckHealth
<1>3. alive = (HealthCommand = "inspect" \/ mode # "dead")
  BY DEF HealthReports, Lossless
<1>4. SilenceVerdict(alive) = Promise!Silence(mode)
  BY <1>3, OracleAssumption DEF SilenceVerdict, Promise!Silence
<1>5. CurrentCase \in Cases /\ Len(findings) < NCases
  BY <1>1, TheCaseIsACase DEF Active
<1>6. /\ CampaignReport' = Append(CampaignReport, Promise!Silence(mode))
      /\ CampaignDeeds' = Append(CampaignDeeds, Deed(effects[CurrentCase]))
      /\ Len(CampaignReport) + 1 <= NCases /\ CampaignTarget' = mode
  BY <1>1, <1>2, <1>4, <1>5, JudgedCampaign, TransportAssumption DEF Active, TypeOK
<1>7. CASE effects[CurrentCase] = {}
  <2>1. CampaignTarget = mode /\ mode # "up"
    BY <1>1, <1>7 DEF CampaignTarget, Down
  <2>2. Deed(effects[CurrentCase]) = "none"
    BY <1>7 DEF Deed
  <2>3. Promise!NoAnswer
    BY <1>6, <2>1, <2>2, NoAnswerMeans
  <2> QED
    BY <2>3 DEF Promise!Next
<1>8. CASE effects[CurrentCase] # {}
  <2>1. PICK e \in Effect \ Harmless : effects[CurrentCase] = {e} /\ mode = ModeAfter(e)
    BY <1>1, <1>8 DEF Down
  <2>2. e \in {"hang", "crash"}
    BY <2>1 DEF Effect, Harmless
  <2>3. mode = Promise!StateAfter(e) /\ CampaignTarget = "up"
    BY <1>5, <1>8, <2>1, <2>2 DEF ModeAfter, Promise!StateAfter, CampaignTarget
  <2>4. Promise!VerdictFor(Len(CampaignReport) + 1, e) = Promise!Silence(mode)
    BY <2>2, <2>3 DEF Promise!VerdictFor, Promise!StateAfter
  <2>5. Deed(effects[CurrentCase]) = e
    BY <2>1, DeedOfOneEffect
  <2>6. Promise!Exchange
    BY <1>6, <2>2, <2>3, <2>4, <2>5, ExchangeMeans DEF Effect
  <2> QED
    BY <2>6 DEF Promise!Next
<1> QED
  BY <1>7, <1>8

\* A case that is handled before it is judged changes nothing for the campaign.
LEMMA HandlingIsStuttering ==
    ASSUME TypeOK, StageInv, Lossless, HandleCase, UNCHANGED oracleVars
    PROVE  /\ CampaignTarget' = CampaignTarget /\ CampaignDeeds' = CampaignDeeds
           /\ CampaignReport' = CampaignReport
<1>1. /\ pc \in {"drain", "request", "receive"} /\ ToHandle
      /\ \E e \in Effect : effects' = [effects EXCEPT ![CurrentCase] = {e}]
  BY HandledInTurn
<1>2. CurrentCase \in Cases /\ CurrentCase' = CurrentCase /\ findings' = findings
  BY <1>1, TheCaseIsACase DEF oracleVars, CurrentCase, Active
<1>3. effects'[CurrentCase] # {}
  BY <1>1, <1>2 DEF TypeOK, TargetTypeOK
<1>4. \A k \in Judgements : effects'[k] = effects[k]
  <2>1. DOMAIN findings = 1 .. Len(findings) /\ Len(findings) \in Nat /\ Len(findings) <= NCases
    BY TransportAssumption DEF TypeOK
  <2>2. \A k \in Judgements : k \in Cases /\ k # CurrentCase
    BY <2>1, TransportAssumption DEF Judgements, Cases, CurrentCase
  <2> QED
    BY <1>1, <2>2 DEF TypeOK, TargetTypeOK
<1>5. CampaignDeeds' = CampaignDeeds
  <2>1. Judgements' = Judgements
    BY <1>2 DEF Judgements
  <2> QED
    BY <1>4, <2>1 DEF CampaignDeeds
<1> QED
  BY <1>1, <1>2, <1>3, <1>5 DEF CampaignTarget, CampaignReport, Judgements, ToHandle

\* Neither is a first reading, nor anything else that files no finding.
LEMMA OtherStepsStutter ==
    ASSUME UNCHANGED <<mode, effects, findings>>
    PROVE  /\ CampaignTarget' = CampaignTarget /\ CampaignDeeds' = CampaignDeeds
           /\ CampaignReport' = CampaignReport
<1>1. CurrentCase' = CurrentCase
  BY DEF CurrentCase
<1> QED
  BY <1>1 DEF CampaignTarget, CampaignDeeds, CampaignReport, Judgements

LEMMA StepIsCampaign ==
    ASSUME TypeOK, StageInv, Lossless, WideCounters, [Next]_vars
    PROVE  [Promise!Next]_(Promise!campaignVars)
<1>1. CASE ReceiveCounters /\ phase = "after"
  BY <1>1, ReadingIsCampaign DEF Promise!Next
<1>2. CASE CheckHealth
  BY <1>2, SilenceIsCampaign
<1>3. CASE HandleCase /\ UNCHANGED oracleVars
  BY <1>3, HandlingIsStuttering DEF Promise!campaignVars, CampaignTarget, CampaignDeeds, CampaignReport
<1>4. CASE UNCHANGED <<mode, effects, findings>>
  BY <1>4, OtherStepsStutter DEF Promise!campaignVars, CampaignTarget, CampaignDeeds, CampaignReport
<1>5. CASE ReceiveCounters /\ phase = "before"
  BY <1>4, <1>5 DEF ReceiveCounters, targetVars
<1>6. ~ReplyTooShort
  <2>1. SUFFICES ASSUME ReplyTooShort PROVE FALSE
    OBVIOUS
  <2>2. Head(inbox).counters = counters /\ Head(inbox).counters = None
    BY <2>1, ReadingIsCurrent DEF ReplyTooShort
  <2> QED
    BY <2>2, NoneIsNoCounters DEF TypeOK, TargetTypeOK
<1>7. ~(RequestFails \/ SendCaseFails \/ ReadFails)
  BY DEF RequestFails, SendCaseFails, SendFails, ReadFails, ReceiveFails, Lossless
<1>8. CASE OracleNext
  <2>1. CASE ReceiveCounters
    BY <1>1, <1>5, <2>1 DEF TypeOK
  <2>2. CASE ~ReceiveCounters /\ ~CheckHealth
    BY <1>4, <1>6, <1>7, <1>8, <2>2
       DEF OracleNext, Drain, EndDrain, RequestCounters, SkipReply, NoReply, SendCase,
           targetVars, oracleVars
  <2> QED
    BY <1>2, <2>1, <2>2
<1>9. CASE ~OracleNext
  BY <1>3, <1>4, <1>9
     DEF Next, TimePasses, EnvironmentNext, TargetNext, AnswerHk, Recover, Restart,
         OthersCommand, Lossless, targetVars, oracleVars, vars
<1> QED
  BY <1>8, <1>9

\* Over a network that loses nothing and answers in time, a run is a campaign:
\* every case gets the one verdict for what the target did with it (the deed is
\* mapped to the target's own effects), in order, and a target that is gone is
\* charged with the rest.
THEOREM CiLabImplementsCampaign ==
    ASSUME Lossless, WideCounters
    PROVE  Spec => Promise!Spec
<1>1. Init => Promise!Init
  BY DEF Init, TargetInit, Promise!Init, Judgements, Cases
<1>2. TypeOK /\ StageInv /\ [Next]_vars => StageInv'
  BY StepStage, Lossless
<1>3. TypeOK /\ StageInv /\ [Next]_vars => [Promise!Next]_(Promise!campaignVars)
  BY StepIsCampaign, Lossless, WideCounters
<1> QED
  BY <1>1, <1>2, <1>3, InitStage, TypeCorrect, PTL DEF Spec, Promise!Spec
=============================================================================
