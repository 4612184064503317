---------------------------- MODULE MCSuiteRun ----------------------------
(***************************************************************************)
(* Instances for SuiteRun: every APID a configuration can name, and flight *)
(* software whose export is complete, partial, unreadable or missing, with *)
(* classic message IDs and without, seen from 127.0.0.1 or elsewhere.      *)
(***************************************************************************)
EXTENDS SuiteRun

\* The sizes the theorems of SuiteRunProofs are about.
ASSUME MCSizes == AsSized /\ ByteMod > 1

AllCategories ==
    {"known_good", "command_malformed", "version", "apid", "seq_flags", "packet_length",
     "secondary_header", "truncation", "oversized", "degenerate_payload"}

\* "172.": the beginning of an address in characters.
MCHostIp == <<{0, 4, 5}, {0, 1, 2, 4, 5}, {1, 4, 5}, {1, 2, 3, 5}>>

AllConfigs == [target_apid : (SUBSET APID_MAX) \cup {None}]

\* cFE's own numbers: 0x1884, 0x1885, 0x0884, 0x1880, ports 1234 and 1235.
ClassicIds ==
    [CI_LAB_CMD_MID      |-> Bits(6276, 16), CI_LAB_SEND_HK_MID |-> Bits(6277, 16),
     CI_LAB_HK_TLM_MID   |-> Bits(2180, 16), CI_LAB_CMD_UDP_PORT |-> Bits(1234, 16),
     TO_LAB_CMD_MID      |-> Bits(6272, 16), TO_LAB_TLM_PORT    |-> Bits(1235, 16)]

Renumbered ==
    [ClassicIds EXCEPT !["CI_LAB_CMD_MID"] = Bits(6656, 16), !["TO_LAB_CMD_MID"] = Bits(8191, 16)]

Moved == [ClassicIds EXCEPT !["CI_LAB_CMD_UDP_PORT"] = Bits(1236, 16)]

Extended == {[ClassicIds EXCEPT ![name] = @ \cup {14}] :
                name \in {"CI_LAB_CMD_MID", "CI_LAB_SEND_HK_MID", "CI_LAB_HK_TLM_MID", "TO_LAB_CMD_MID"}}

\* A flight software whose telemetry is seen as the script expects it.
BuildOf(ids, exported) ==
    [ids |-> ids, exported |-> exported, hk_source |-> AllowedReplyHost, hk_length |-> HkCountersEnd]

\* ... from the address of its container, or as a housekeeping packet cut short.
Unexpected ==
    {[BuildOf(ClassicIds, <<ClassicIds>>) EXCEPT !.hk_source = "172.17.0.2"]}
      \cup {[BuildOf(ClassicIds, <<ClassicIds>>) EXCEPT !.hk_length = n] : n \in {5, 6, HkCountersEnd - 1}}

AllBuilds ==
    {BuildOf(ids, <<ids>>) : ids \in {ClassicIds, Renumbered, Moved} \cup Extended}
      \cup {BuildOf(ClassicIds, exported) :
               exported \in {<<>>, <<Unreadable>>}
                              \cup {<<[ClassicIds EXCEPT ![name] = None]>> : name \in WantedDefines}}
      \cup Unexpected
=============================================================================
