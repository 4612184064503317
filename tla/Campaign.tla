------------------------------ MODULE Campaign ------------------------------
(***************************************************************************)
(* What a run promises its user: the cases go to the target one by one,    *)
(* and each is judged by what the target did with it and nothing else.     *)
(* The deeds are part of what an implementation has to show: it maps them  *)
(* to what its target really did, so that a verdict on one deed cannot     *)
(* pass for the verdict on another.                                        *)
(***************************************************************************)
EXTENDS Naturals, Sequences, Verdicts

CONSTANTS
    NCases,         \* length of the suite
    RejectCases,    \* the cases that ought to be rejected
    HealthCommand,  \* whether a dead target can be told from a hung one
    SeesCounters,   \* whether the oracle sees what a live target did
    Unsendable      \* the cases that no datagram carries

VARIABLES
    target,     \* "up", "hung" or "dead"
    deeds,      \* what the target did with each case judged, "none" if nothing
    report      \* the verdict on each of them

campaignVars == <<target, deeds, report>>

Init ==
    /\ target \in {"up", "hung", "dead"}
    /\ deeds = <<>>
    /\ report = <<>>

Silence(state) ==
    IF state = "dead" /\ HealthCommand = "process" THEN "crash" ELSE "hang"

VerdictFor(k, e) ==
    CASE e = "hang"   -> Silence("hung")
      [] e = "crash"  -> Silence("dead")
      [] e = "accept" /\ SeesCounters ->
            IF k \in RejectCases THEN "unexpected_accept" ELSE "clean_accept"
      [] e = "reject" /\ SeesCounters -> "clean_reject"
      [] e = "drop" /\ SeesCounters   -> "safe_drop"
      [] OTHER -> "inconclusive"

StateAfter(e) == CASE e = "hang" -> "hung" [] e = "crash" -> "dead" [] OTHER -> "up"

NextCase == Len(report) + 1

Filed(deed, verdict) ==
    /\ NextCase <= NCases
    /\ deeds' = Append(deeds, deed)
    /\ report' = Append(report, verdict)

\* The target is up and does e with the next case.
Exchange ==
    /\ target = "up"
    /\ NextCase \notin Unsendable
    /\ \E e \in Effect :
          /\ target' = StateAfter(e)
          /\ Filed(e, VerdictFor(NextCase, e))

\* The next case never leaves the harness: nothing can be said of it.
NotSent ==
    /\ target = "up"
    /\ NextCase \in Unsendable
    /\ Filed("none", "inconclusive")
    /\ UNCHANGED target

\* The target is down: every case left is charged to it.
NoAnswer ==
    /\ target # "up"
    /\ Filed("none", Silence(target))
    /\ UNCHANGED target

Next == Exchange \/ NotSent \/ NoAnswer

Spec == Init /\ [][Next]_campaignVars

FairSpec == Spec /\ WF_campaignVars(Next)
=============================================================================
