---------------------------- MODULE CounterDeltas ----------------------------
(***************************************************************************)
(* How the CiLabOracle turns the counters of two readings into a verdict   *)
(* (the end of judge in oracle/ci_lab.py).                                 *)
(***************************************************************************)
EXTENDS Integers

CONSTANT RejectCases    \* the cases with expect_safe_reject

\* Plausible errors: a delta that misses the wrap, a total taken for a delta.
IncreasedOnly(a, b, field) == b.counters[field] > a.counters[field]
TotalForDelta(a, b, field) == b.counters[field] # 0

Changed(a, b, field) == b.counters[field] # a.counters[field]

\* The order of the tests matters: a case expected to be rejected that was
\* accepted is reported as that, whatever else changed.
DeltaVerdict(k, a, b) ==
    IF Changed(a, b, "command") /\ k \in RejectCases THEN "unexpected_accept"
    ELSE IF Changed(a, b, "command_error") THEN "clean_reject"
    ELSE IF Changed(a, b, "ingest_errors") THEN "safe_drop"
    ELSE IF Changed(a, b, "command") THEN "clean_accept"
    ELSE "inconclusive"
=============================================================================
