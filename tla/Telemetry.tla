----------------------------- MODULE Telemetry ------------------------------
(***************************************************************************)
(* The ci_lab housekeeping (HK) counters as the oracle reads them out of a *)
(* telemetry packet.  The command counters are one byte wide, the ingest   *)
(* counters four; the moduli are constants so that a small instance wraps. *)
(* IngestPackets, EnableChecksums and SocketConnected are left out: the    *)
(* verdict never depends on them, only the wording of a detail does.       *)
(***************************************************************************)
EXTENDS Integers

CONSTANTS
    ByteMod,    \* 256 in the code ("B" fields)
    WordMod,    \* 2^32 in the code ("<I" fields)
    None        \* Python's None

ASSUME ModuliAssumption == /\ ByteMod \in Nat \ {0}
                           /\ WordMod \in Nat \ {0}

Counters == [command       : 0 .. ByteMod - 1,
             command_error : 0 .. ByteMod - 1,
             ingest_errors : 0 .. WordMod - 1]

ASSUME NoneIsNoCounters == None \notin Counters

ZeroCounters == [command |-> 0, command_error |-> 0, ingest_errors |-> 0]

\* A counter that reaches its width starts again at zero.
Successor(n, mod) == IF n = mod - 1 THEN 0 ELSE n + 1
=============================================================================
