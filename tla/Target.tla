------------------------------- MODULE Target -------------------------------
(***************************************************************************)
(* The target as the harness relies on it: cFS with ci_lab, or the mock of *)
(* tests/fixtures/mock_target.py.  It answers an HK request with its       *)
(* counters and does one of the Effects with a case; whether a case ought  *)
(* to be rejected binds nobody, the target is what is being tested.        *)
(***************************************************************************)
EXTENDS UdpTransport, Verdicts, FiniteSets

CONSTANT InitialCounters    \* what the target may have counted before the run

ASSUME TargetAssumption == InitialCounters \subseteq Counters

VARIABLES
    mode,       \* "up", "hung" (running, answers nothing) or "dead"
    counters,   \* its HK counters
    effects     \* history: what it did with each case, none if it never came

targetVars == <<mode, counters, effects>>

TargetTypeOK ==
    /\ mode \in {"up", "hung", "dead"}
    /\ counters \in Counters
    /\ effects \in [Cases -> SUBSET Effect]

\* A run may start against a target that has counted for long, or is down.
TargetInit ==
    /\ mode \in {"up", "hung", "dead"}
    /\ counters \in InitialCounters
    /\ effects = [k \in Cases |-> {}]

CountersAfter(c, e) ==
    CASE e = "accept" -> [c EXCEPT !.command = Successor(@, ByteMod)]
      [] e = "reject" -> [c EXCEPT !.command_error = Successor(@, ByteMod)]
      [] e = "drop"   -> [c EXCEPT !.ingest_errors = Successor(@, WordMod)]
      [] OTHER        -> c

ModeAfter(e) == CASE e = "hang" -> "hung" [] e = "crash" -> "dead" [] OTHER -> mode

AnswerHk ==
    /\ mode = "up"
    /\ \E m \in uplink :
          /\ NextUp(m)
          /\ m.step # "case"
          /\ uplink' \in AfterArrival(m, uplink)
          /\ \E c \in {counters} \cup (IF "malformed" \in Faults THEN {None} ELSE {}) :
                downlink' = downlink \cup {[req |-> m, counters |-> c]}
    /\ UNCHANGED <<inbox, lastError, remaining, targetVars>>

HandleCase ==
    /\ mode = "up"
    /\ \E m \in uplink, e \in Effect :
          /\ NextUp(m)
          /\ m.step = "case"
          /\ uplink' \in AfterArrival(m, uplink)
          /\ counters' = CountersAfter(counters, e)
          /\ mode' = ModeAfter(e)
          /\ effects' = [effects EXCEPT ![m.case] = @ \cup {e}]
    /\ UNCHANGED <<downlink, inbox, lastError, remaining>>

Recover ==
    /\ "recover" \in Faults
    /\ mode = "hung"
    /\ mode' = "up"
    /\ UNCHANGED <<transportVars, counters, effects>>

\* A supervisor starts the target again: the counters are zero, and what was
\* queued for the old process may be gone.
Restart ==
    /\ "restart" \in Faults
    /\ mode # "up"
    /\ mode' = "up"
    /\ counters' = ZeroCounters
    /\ uplink' \in SUBSET uplink
    /\ UNCHANGED <<downlink, inbox, lastError, remaining, effects>>

\* Another client commands the target.
OthersCommand ==
    /\ "others" \in Faults
    /\ mode = "up"
    /\ \E e \in {"accept", "reject", "drop"} : counters' = CountersAfter(counters, e)
    /\ UNCHANGED <<transportVars, mode, effects>>

TargetNext == AnswerHk \/ HandleCase \/ Recover \/ Restart \/ OthersCommand

-----------------------------------------------------------------------------
\* What it did with a case, if that was one thing.
Deed(done) == IF done = {} THEN "none" ELSE CHOOSE e \in Effect : done = {e}

\* Nothing the harness sent is still going to be answered.
AnswersDone ==
    /\ downlink = {}
    /\ mode = "up" => \A m \in uplink : m.step = "case"

\* ... and nothing it sent is still going to be handled.
Quiescent ==
    /\ downlink = {}
    /\ inbox = <<>>
    /\ mode = "up" => uplink = {}
=============================================================================
