-------------------------- MODULE MCLivenessOracle --------------------------
EXTENDS LivenessOracle

\* The oracle never looks at the counters: one value will do.
OneValue == {ZeroCounters}
=============================================================================
