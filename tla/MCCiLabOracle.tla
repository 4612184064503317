--------------------------- MODULE MCCiLabOracle ----------------------------
EXTENDS CiLabOracle

\* The first case ought to be rejected, the others need not be.
MCRejectCases == {1}

\* Every counter is about to wrap.
AboutToWrap ==
    {[command |-> ByteMod - 1, command_error |-> ByteMod - 1, ingest_errors |-> WordMod - 1]}

\* The target has accepted a command before the run.
HasCounted == {[ZeroCounters EXCEPT !.command = 1]}
=============================================================================
