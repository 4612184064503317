---------------------------- MODULE TargetProofs -----------------------------
(***************************************************************************)
(* What both oracles' proofs need of the network and the target: their own *)
(* steps keep every packet and every counter well typed.                   *)
(***************************************************************************)
EXTENDS Target, SequenceTheorems, TLAPS

LEMMA SuccessorTyped ==
    ASSUME NEW mod \in Nat \ {0}, NEW n \in 0 .. mod - 1
    PROVE  Successor(n, mod) \in 0 .. mod - 1
  BY DEF Successor

LEMMA CountersTyped ==
    ASSUME NEW c \in Counters, NEW e \in Effect
    PROVE  CountersAfter(c, e) \in Counters
<1>1. /\ Successor(c.command, ByteMod) \in 0 .. ByteMod - 1
      /\ Successor(c.command_error, ByteMod) \in 0 .. ByteMod - 1
      /\ Successor(c.ingest_errors, WordMod) \in 0 .. WordMod - 1
  BY SuccessorTyped, ModuliAssumption DEF Counters
<1> QED
  BY <1>1 DEF CountersAfter, Counters

LEMMA InboxTyped ==
    ASSUME TransportTypeOK, inbox # <<>>
    PROVE  Head(inbox) \in Datagram /\ Tail(inbox) \in Seq(Datagram)
  BY HeadTailProperties DEF TransportTypeOK

LEMMA AnswerTyped ==
    ASSUME TransportTypeOK, TargetTypeOK, NEW m \in uplink, NEW c \in {counters, None}
    PROVE  [req |-> m, counters |-> c] \in Datagram
  BY DEF TransportTypeOK, TargetTypeOK, Datagram

LEMMA NetworkStepTyped ==
    ASSUME TransportTypeOK, NetworkNext
    PROVE  TransportTypeOK'
<1>1. CASE LoseMessage
  BY <1>1 DEF LoseMessage, TransportTypeOK
<1>2. CASE LoseDatagram
  BY <1>2 DEF LoseDatagram, TransportTypeOK
<1>3. CASE DeliverDatagram
  <2>1. PICK d \in downlink :
          /\ downlink' \in AfterArrival(d, downlink)
          /\ inbox' = IF Len(inbox) < InboxCap THEN Append(inbox, d) ELSE inbox
    BY <1>3 DEF DeliverDatagram
  <2>2. downlink' \subseteq downlink
    BY <2>1 DEF AfterArrival
  <2>3. inbox' \in Seq(Datagram)
    BY <2>1, AppendProperties DEF TransportTypeOK
  <2> QED
    BY <1>3, <2>2, <2>3 DEF DeliverDatagram, TransportTypeOK
<1>4. CASE ForeignDatagram
  <2>1. PICK c \in Counters \cup {None} :
          downlink' = downlink \cup {[req |-> None, counters |-> c]}
    BY <1>4 DEF ForeignDatagram
  <2>2. [req |-> None, counters |-> c] \in Datagram
    BY DEF Datagram
  <2> QED
    BY <1>4, <2>1, <2>2 DEF ForeignDatagram, TransportTypeOK
<1> QED
  BY <1>1, <1>2, <1>3, <1>4 DEF NetworkNext

LEMMA TargetStepTyped ==
    ASSUME TransportTypeOK, TargetTypeOK, TargetNext
    PROVE  TransportTypeOK' /\ TargetTypeOK'
<1>1. CASE AnswerHk
  <2>1. PICK m \in uplink, c \in {counters, None} :
          /\ uplink' \in AfterArrival(m, uplink)
          /\ downlink' = downlink \cup {[req |-> m, counters |-> c]}
    BY <1>1 DEF AnswerHk
  <2>2. uplink' \subseteq uplink
    BY <2>1 DEF AfterArrival
  <2> QED
    BY <1>1, <2>1, <2>2, AnswerTyped
       DEF AnswerHk, TransportTypeOK, TargetTypeOK, targetVars
<1>2. CASE HandleCase
  <2>1. PICK m \in uplink, e \in Effect :
          /\ uplink' \in AfterArrival(m, uplink)
          /\ counters' = CountersAfter(counters, e)
          /\ mode' = ModeAfter(e)
          /\ effects' = [effects EXCEPT ![m.case] = @ \cup {e}]
    BY <1>2 DEF HandleCase
  <2>2. uplink' \subseteq uplink
    BY <2>1 DEF AfterArrival
  <2>3. mode' \in {"up", "hung", "dead"}
    BY <2>1 DEF ModeAfter, TargetTypeOK
  <2>4. effects' \in [Cases -> SUBSET Effect]
    BY <2>1 DEF TargetTypeOK
  <2>5. counters' \in Counters
    BY <2>1, CountersTyped DEF TargetTypeOK
  <2> QED
    BY <1>2, <2>2, <2>3, <2>4, <2>5 DEF HandleCase, TransportTypeOK, TargetTypeOK
<1>3. CASE Recover
  BY <1>3 DEF Recover, TransportTypeOK, TargetTypeOK, transportVars
<1>4. CASE Restart
  <2>1. ZeroCounters \in Counters
    BY ModuliAssumption DEF ZeroCounters, Counters
  <2> QED
    BY <1>4, <2>1 DEF Restart, TransportTypeOK, TargetTypeOK
<1>5. CASE OthersCommand
  <2>1. counters' \in Counters
    BY <1>5, CountersTyped DEF OthersCommand, Effect, TargetTypeOK
  <2> QED
    BY <1>5, <2>1 DEF OthersCommand, TransportTypeOK, TargetTypeOK, transportVars
<1> QED
  BY <1>1, <1>2, <1>3, <1>4, <1>5 DEF TargetNext

LEMMA NetworkAndTargetInit ==
    ASSUME TransportInit, TargetInit
    PROVE  TransportTypeOK /\ TargetTypeOK
<1>1. TransportTypeOK
  BY TransportAssumption, EmptySeq DEF TransportInit, TransportTypeOK
<1>2. TargetTypeOK
  BY TargetAssumption DEF TargetInit, TargetTypeOK
<1> QED
  BY <1>1, <1>2
=============================================================================
