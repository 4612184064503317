---------------------------- MODULE CaseSelection ----------------------------
(***************************************************************************)
(* The packets a run sends (harness/runner.py, _select_cases): the cases   *)
(* of the selected categories, made commands for the configured APID where *)
(* one is configured.  How profile and filters give the categories is in   *)
(* CliRun.                                                                 *)
(***************************************************************************)
EXTENDS CaseGenerator, Filtering

CONSTANT Categories     \* the categories selected

Selected == {k \in DOMAIN GenerateAll : GenerateAll[k].category \in Categories}

Suite == AtPositions(GenerateAll, Selected)

\* Plausible errors: the damage of a checksum repaired, the checksum of the old
\* header kept, the APID of the case kept.
NeverDamaged(case, data) == data
NotResealed(case, data) == data
ApidKept(case, apid) ==
    [Unpack(case.packet_bytes) EXCEPT !.packet_type = {0}, !.sec_hdr_flag = {0}]

-----------------------------------------------------------------------------
RetargetedHeader(case, apid) ==
    [Unpack(case.packet_bytes) EXCEPT
        !.apid = apid,
        !.packet_type = {0},
        !.sec_hdr_flag = IF case.category = "secondary_header" THEN @ ELSE {0}]

\* _with_command_checksum; a packet without the octet is left alone.
Sealed(data) == IF Len(data) < 8 THEN data ELSE WithCommandChecksum(data)

\* A checksum that is the defect of the case is damaged again.
AsIntended(case, data) ==
    IF case.checksum_valid \/ Len(data) < 8 THEN data ELSE Damaged(data)

Resealing(case, data) ==
    IF case.category = "secondary_header" THEN data ELSE AsIntended(case, Sealed(data))

KeptAsIs(case) ==
    case.category = "apid" \/ Len(case.packet_bytes) < PRIMARY_HEADER_SIZE

Retargeted(case, apid) ==
    IF apid = None \/ KeptAsIs(case) THEN case
    ELSE [case EXCEPT !.packet_bytes =
             Resealing(case, Pack(RetargetedHeader(case, apid)) \o Payload(@))]
=============================================================================
