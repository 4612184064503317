---------------------------- MODULE CaseGenerator ----------------------------
(***************************************************************************)
(* The boundary cases (generator/boundary.py, generator/cases.py): packets *)
(* with one thing wrong each, and controls.  A name is a label and, where  *)
(* the code numbers the cases of a builder, a number.                      *)
(***************************************************************************)
EXTENDS SpacePacket

CONSTANTS
    ReachableSize,  \* octets of the oversized packet that UDP can carry: 4096
    Surplus         \* octets by which a length claims too much or little: 100

ASSUME GeneratorAssumption == ReachableSize \in Nat \ (0 .. 7) /\ Surplus \in Nat

PacketCase(name, category, data, reject, accept, valid) ==
    [name |-> name, category |-> category, packet_bytes |-> data,
     expect_safe_reject |-> reject, expect_accept |-> accept, checksum_valid |-> valid]
Case(name, category, data, reject) == PacketCase(name, category, data, reject, FALSE, TRUE)

Zeros(n) == [k \in 1 .. n |-> {}]
Counting == <<{}, {0}, {1}, {0, 1}>>       \* 00 01 02 03
AllOnes == 0 .. 7                          \* FF

DefaultApid == {1, 3, 5}                   \* 42
ValidHeader ==
    [version |-> {}, packet_type |-> {}, sec_hdr_flag |-> {}, apid |-> DefaultApid,
     seq_flags |-> SEQ_FLAGS_UNSEGMENTED, seq_count |-> {0}, packet_data_length_field |-> {}]

-----------------------------------------------------------------------------
NoopHeader == [ValidHeader EXCEPT !.packet_type = {0}, !.sec_hdr_flag = {0}]
NoopPacket == WithCommandChecksum(ToBytes(NoopHeader, Zeros(2), None))

BuildKnownGoodNoopCase ==
    <<PacketCase(<<"ci_lab_noop", 0>>, "known_good", NoopPacket, FALSE, TRUE, TRUE)>>

BuildCommandMalformedCases ==
    <<PacketCase(<<"command_bad_checksum", 0>>, "command_malformed",
                 Damaged(NoopPacket), TRUE, FALSE, FALSE),
      Case(<<"command_invalid_function", 0>>, "command_malformed",
           WithCommandChecksum([NoopPacket EXCEPT ![7] = AllOnes]), TRUE),
      Case(<<"command_wrong_length", 0>>, "command_malformed",
           WithCommandChecksum([NoopPacket EXCEPT ![5] = {}, ![6] = {1}]), TRUE)>>

BuildVersionCases ==
    [v \in 1 .. 7 |->
        Case(<<"version", v>>, "version",
             ToBytes([ValidHeader EXCEPT !.version = Bits(v, 3)], Counting, None), TRUE)]

EdgeApids == <<{}, 0 .. 9, APID_MAX>>      \* 0, APID_MAX // 2, APID_IDLE

BuildApidCases ==
    [k \in 1 .. 3 |->
        Case(<<"apid", k>>, "apid",
             ToBytes([ValidHeader EXCEPT !.apid = EdgeApids[k]], Counting, None), TRUE)]

BuildSeqFlagsCases ==
    [k \in 1 .. 4 |->
        LET flags == Bits(k - 1, 2) IN
        Case(<<"seq_flags", k - 1>>, "seq_flags",
             ToBytes([ValidHeader EXCEPT !.seq_flags = flags], Counting, None),
             flags # SEQ_FLAGS_UNSEGMENTED)]

LengthScenarios ==
    <<[name |-> "length_zero", declared |-> 0],
      [name |-> "length_max", declared |-> PACKET_DATA_LENGTH_MAX],
      [name |-> "length_claims_more_than_sent", declared |-> 4 + Surplus - 1],
      [name |-> "length_claims_less_than_sent",
       declared |-> IF 4 - Surplus - 1 > 0 THEN 4 - Surplus - 1 ELSE 0]>>

BuildPacketLengthCases ==
    [k \in 1 .. 4 |->
        Case(<<LengthScenarios[k].name, 0>>, "packet_length",
             ToBytes(ValidHeader, Counting, LengthScenarios[k].declared), TRUE)]

BuildSecondaryHeaderFlagCases ==
    <<Case(<<"sec_hdr_flag_set_but_absent", 0>>, "secondary_header",
           ToBytes([ValidHeader EXCEPT !.sec_hdr_flag = {0}], Counting, None), TRUE),
      Case(<<"sec_hdr_flag_clear_but_present", 0>>, "secondary_header",
           ToBytes(ValidHeader, <<AllOnes, AllOnes, {}, {0}>>, None), FALSE)>>

BuildTruncationCases ==
    [k \in 1 .. PRIMARY_HEADER_SIZE |->
        Case(<<"truncated", k - 1>>, "truncation", SubSeq(Pack(ValidHeader), 1, k - 1), TRUE)]

Oversized(name, size, declared) ==
    Case(<<name, 0>>, "oversized", ToBytes(ValidHeader, Zeros(size), declared), TRUE)

\* Plausible error: no oversized packet that UDP can carry.
OversizedBeyondReach ==
    <<Oversized("oversized_beyond_field_range", MAX_PACKET_DATA_LENGTH + 1, PACKET_DATA_LENGTH_MAX)>>

BuildOversizedCases ==
    LET reachable == ReachableSize - PRIMARY_HEADER_SIZE
        most == MAX_PACKET_DATA_LENGTH
    IN  <<Oversized("oversized_reachable", reachable, reachable - 1),
          Oversized("oversized_max_spec_size", most, most - 1),
          Oversized("oversized_beyond_field_range", most + 1, PACKET_DATA_LENGTH_MAX)>>

BuildDegeneratePayloadCases ==
    <<Case(<<"degenerate_all_zero", 0>>, "degenerate_payload",
           ToBytes(ValidHeader, Zeros(16), None), FALSE),
      Case(<<"degenerate_all_ff", 0>>, "degenerate_payload",
           ToBytes(ValidHeader, [k \in 1 .. 16 |-> AllOnes], None), FALSE),
      Case(<<"degenerate_empty_but_length_nonzero", 0>>, "degenerate_payload",
           ToBytes(ValidHeader, <<>>, 15), TRUE)>>

GenerateAll ==
    BuildKnownGoodNoopCase \o BuildCommandMalformedCases \o BuildVersionCases
      \o BuildApidCases \o BuildSeqFlagsCases \o BuildPacketLengthCases
      \o BuildSecondaryHeaderFlagCases \o BuildTruncationCases
      \o BuildOversizedCases \o BuildDegeneratePayloadCases
=============================================================================
