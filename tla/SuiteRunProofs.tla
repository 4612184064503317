--------------------------- MODULE SuiteRunProofs ---------------------------
(***************************************************************************)
(* Theorems about a run end to end, for every selection of cases, every    *)
(* width of the length field and every APID.  The set-up: a classic build  *)
(* whose export is complete is reached, and a script that passes has       *)
(* exercised the CI_LAB of its own container.  The cases: no command       *)
(* leaves the application under test, and each breaks the target's rule in *)
(* the field it is about and nowhere else.  The verdicts: a target that    *)
(* keeps to the rule is never called unsafe, one that dies is called dead, *)
(* the control tells whether the target was reached, and what is reported  *)
(* is a Campaign.                                                          *)
(***************************************************************************)
EXTENDS SuiteRun, SpacePacketProofs

-----------------------------------------------------------------------------
(***************************************************************************)
(* The cases.                                                              *)
(***************************************************************************)

\* What retargeting relies on.
SoundPacket(category, data) ==
    /\ data \in Seq(Octet)
    /\ category = "apid" => ~IsCommand(data)
    /\ category = "known_good" => IsCommand(data)
    /\ IsCommand(data) => Unpack(data).apid = DefaultApid

Sound(case) == SoundPacket(case.category, case.packet_bytes)

LEMMA ValidHeaderIsHeader ==
    /\ ValidHeader \in Header /\ ValidHeader.packet_type = {} /\ ValidHeader.apid = DefaultApid
    /\ NoopHeader \in Header /\ NoopHeader.packet_type = {0} /\ NoopHeader.apid = DefaultApid
<1>1. /\ DefaultApid \in SUBSET APID_MAX /\ SEQ_FLAGS_UNSEGMENTED \in SUBSET (0 .. 1)
      /\ {} \in SUBSET (0 .. 2) /\ {} \in SUBSET {0} /\ {0} \in SUBSET {0}
      /\ {0} \in SUBSET (0 .. 13) /\ {} \in SUBSET (0 .. LengthBits - 1)
  BY DEF DefaultApid, APID_MAX, SEQ_FLAGS_UNSEGMENTED
<1>2. ValidHeader \in Header /\ ValidHeader.packet_type = {} /\ ValidHeader.apid = DefaultApid
  BY <1>1 DEF ValidHeader, Header
<1>3. NoopHeader \in Header /\ NoopHeader.packet_type = {0} /\ NoopHeader.apid = DefaultApid
  BY <1>1, <1>2 DEF NoopHeader, Header
<1> QED
  BY <1>2, <1>3

LEMMA ToBytesKeeps ==
    ASSUME NEW header \in Header, NEW payload \in Seq(Octet), NEW declared
    PROVE  LET data == ToBytes(header, payload, declared)
           IN  /\ data \in Seq(Octet) /\ Len(data) = 6 + Len(payload)
               /\ Unpack(data).apid = header.apid
               /\ Unpack(data).packet_type = header.packet_type
<1> DEFINE length == IF declared = None THEN LengthField(payload) ELSE declared
           h == [header EXCEPT !.packet_data_length_field = Bits(length, LengthBits)]
<1>1. /\ h.apid = header.apid /\ h.packet_type = header.packet_type
      /\ h.apid \cap APID_MAX = h.apid /\ h.packet_type \cap {0} = h.packet_type
  BY DEF Header
<1>2. ToBytes(header, payload, declared) = Pack(h) \o payload
  BY DEF ToBytes
<1> HIDE DEF h
<1>3. /\ Pack(h) \o payload \in Seq(Octet) /\ Len(Pack(h) \o payload) = 6 + Len(payload)
      /\ Unpack(Pack(h) \o payload) = Unpack(Pack(h))
  BY PackInFront
<1>4. Unpack(Pack(h)) = HeaderOf(Word0(h), Word1(h), Word2(h))
  BY PackGivesOctets DEF Unpack
<1>5. Word0(h) \cap APID_MAX = h.apid \cap APID_MAX /\ Field(Word0(h), 12, 1) = h.packet_type \cap {0}
  BY FieldsOfWords
<1>6. /\ Unpack(Pack(h)).apid = Word0(h) \cap APID_MAX
      /\ Unpack(Pack(h)).packet_type = Field(Word0(h), 12, 1)
  BY <1>4 DEF HeaderOf
<1>7. Unpack(Pack(h)).apid = header.apid /\ Unpack(Pack(h)).packet_type = header.packet_type
  BY <1>1, <1>5, <1>6, Zenon
<1> QED
  BY <1>2, <1>3, <1>7, Zenon

LEMMA ZerosAreOctets ==
    ASSUME NEW n \in Nat
    PROVE  Zeros(n) \in Seq(Octet) /\ Len(Zeros(n)) = n
<1>1. {} \in Octet
  BY DEF Octet
<1> QED
  BY <1>1 DEF Zeros

LEMMA PayloadsAreOctets ==
    /\ Counting \in Seq(Octet)
    /\ <<AllOnes, AllOnes, {}, {0}>> \in Seq(Octet)
    /\ [k \in 1 .. 16 |-> AllOnes] \in Seq(Octet)
    /\ <<>> \in Seq(Octet)
<1>1. {} \in Octet /\ {0} \in Octet /\ {1} \in Octet /\ {0, 1} \in Octet /\ AllOnes \in Octet
  BY DEF Octet, AllOnes
<1>2. [k \in 1 .. 16 |-> AllOnes] \in Seq(Octet)
  BY <1>1
<1> QED
  BY <1>1, <1>2 DEF Counting

LEMMA CaseIsSound ==
    ASSUME NEW name, NEW category, NEW data, SoundPacket(category, data),
           NEW reject, NEW accept, NEW valid
    PROVE  Sound(PacketCase(name, category, data, reject, accept, valid))
<1>1. /\ PacketCase(name, category, data, reject, accept, valid).category = category
      /\ PacketCase(name, category, data, reject, accept, valid).packet_bytes = data
  BY DEF PacketCase
<1> QED
  BY <1>1, Zenon DEF Sound

\* Every case but those made of the NOOP is telemetry, or too short for a header.
LEMMA TelemetryIsSound ==
    ASSUME NEW name, NEW category, category # "known_good",
           NEW header \in Header, header.packet_type = {},
           NEW payload \in Seq(Octet), NEW declared, NEW reject
    PROVE  Sound(Case(name, category, ToBytes(header, payload, declared), reject))
<1> DEFINE data == ToBytes(header, payload, declared)
<1>1. data \in Seq(Octet) /\ Unpack(data).packet_type = {}
  BY ToBytesKeeps
<1> HIDE DEF data
<1>2. ~IsCommand(data)
  BY <1>1 DEF IsCommand
<1>3. SoundPacket(category, data)
  BY <1>1, <1>2 DEF SoundPacket
<1> QED
  BY <1>3, CaseIsSound DEF Case, data

\* Two packets that agree in the first two octets agree in what these say.
LEMMA FirstTwoOctets ==
    ASSUME NEW a, NEW b, a[1] = b[1], a[2] = b[2]
    PROVE  Unpack(a).apid = Unpack(b).apid /\ Unpack(a).packet_type = Unpack(b).packet_type
<1>1. WordAt(a, 1) = WordAt(b, 1)
  BY DEF WordAt
<1> QED
  BY <1>1 DEF Unpack, HeaderOf

\* Sealing and damaging in the terms used here.
IsNoop(data) ==
    /\ data \in Seq(Octet) /\ Len(data) = 8
    /\ Unpack(data).packet_type = {0} /\ Unpack(data).apid = DefaultApid

LEMMA NoopsStayNoops ==
    ASSUME NEW data, IsNoop(data)
    PROVE  IsNoop(WithCommandChecksum(data)) /\ IsNoop(Damaged(data))
<1>1. data \in Seq(Octet) /\ Len(data) = 8 /\ Len(data) >= 8
  BY DEF IsNoop
<1>2. /\ WithCommandChecksum(data) \in Seq(Octet) /\ Damaged(data) \in Seq(Octet)
      /\ Len(WithCommandChecksum(data)) = Len(data) /\ Len(Damaged(data)) = Len(data)
      /\ Unpack(WithCommandChecksum(data)) = Unpack(data)
      /\ Unpack(Damaged(data)) = Unpack(data)
  BY <1>1, SealAndDamage, Zenon
<1> QED
  BY <1>2, Zenon DEF IsNoop

LEMMA OneOctetChanged ==
    ASSUME NEW data \in Seq(Octet), NEW k \in 1 .. Len(data), NEW x \in Octet
    PROVE  [data EXCEPT ![k] = x] \in Seq(Octet) /\ Len([data EXCEPT ![k] = x]) = Len(data)
  BY ExceptSeq

LEMMA NoopsAfterTheSecondOctet ==
    ASSUME NEW data, IsNoop(data), NEW k \in 3 .. 8, NEW x \in Octet
    PROVE  IsNoop([data EXCEPT ![k] = x])
<1>1. data \in Seq(Octet) /\ Len(data) = 8 /\ k \in 1 .. Len(data)
  BY DEF IsNoop
<1> DEFINE new == [data EXCEPT ![k] = x]
<1>2. new \in Seq(Octet) /\ Len(new) = Len(data)
  BY <1>1, OneOctetChanged, Zenon
<1>3. new[1] = data[1] /\ new[2] = data[2]
  BY <1>1
<1> HIDE DEF new
<1>4. Unpack(new).apid = Unpack(data).apid /\ Unpack(new).packet_type = Unpack(data).packet_type
  BY <1>3, FirstTwoOctets, Zenon
<1> QED
  BY <1>1, <1>2, <1>4, Zenon DEF IsNoop, new

LEMMA NoopPacketIsNoop == IsNoop(NoopPacket)
<1> DEFINE data == ToBytes(NoopHeader, Zeros(2), None)
<1>1. Zeros(2) \in Seq(Octet) /\ Len(Zeros(2)) = 2
  BY ZerosAreOctets
<1>2. /\ data \in Seq(Octet) /\ Len(data) = 6 + Len(Zeros(2))
      /\ Unpack(data).apid = NoopHeader.apid /\ Unpack(data).packet_type = NoopHeader.packet_type
  BY <1>1, ValidHeaderIsHeader, ToBytesKeeps, Zenon
<1>3. NoopPacket = WithCommandChecksum(data)
  BY DEF NoopPacket
<1> HIDE DEF data
<1>4. Len(data) = 8
  <2>1. Len(data) = 6 + 2
    BY <1>1, <1>2, Zenon
  <2> QED
    BY <2>1
<1>5. IsNoop(data)
  BY <1>2, <1>4, ValidHeaderIsHeader, Zenon DEF IsNoop
<1> QED
  BY <1>3, <1>5, NoopsStayNoops

LEMMA CommandIsSound ==
    ASSUME NEW data, IsNoop(data), NEW category, category # "apid",
           NEW name, NEW reject, NEW accept, NEW valid
    PROVE  Sound(PacketCase(name, category, data, reject, accept, valid))
<1>1. IsCommand(data) /\ data \in Seq(Octet) /\ Unpack(data).apid = DefaultApid
  BY DEF IsCommand, IsNoop, PRIMARY_HEADER_SIZE
<1>2. SoundPacket(category, data)
  BY <1>1 DEF SoundPacket
<1> QED
  BY <1>2, CaseIsSound

LEMMA NoopCasesAreSound ==
    /\ \A k \in 1 .. 1 : Sound(BuildKnownGoodNoopCase[k])
    /\ \A k \in 1 .. 3 : Sound(BuildCommandMalformedCases[k])
<1>1. AllOnes \in Octet /\ {} \in Octet /\ {1} \in Octet
  BY DEF AllOnes, Octet
<1>2. Sound(BuildKnownGoodNoopCase[1])
  BY NoopPacketIsNoop, CommandIsSound DEF BuildKnownGoodNoopCase
<1>3. Sound(BuildCommandMalformedCases[1])
  <2>1. IsNoop(Damaged(NoopPacket))
    BY NoopPacketIsNoop, NoopsStayNoops
  <2> QED
    BY <2>1, CommandIsSound DEF BuildCommandMalformedCases
<1>4. Sound(BuildCommandMalformedCases[2])
  <2>1. IsNoop([NoopPacket EXCEPT ![7] = AllOnes])
    BY <1>1, NoopPacketIsNoop, NoopsAfterTheSecondOctet
  <2>2. IsNoop(WithCommandChecksum([NoopPacket EXCEPT ![7] = AllOnes]))
    BY <2>1, NoopsStayNoops
  <2> QED
    BY <2>2, CommandIsSound DEF BuildCommandMalformedCases, Case
<1>5. Sound(BuildCommandMalformedCases[3])
  <2> DEFINE half == [NoopPacket EXCEPT ![5] = {}]
             data == [half EXCEPT ![6] = {1}]
  <2>1. IsNoop(half)
    BY <1>1, NoopPacketIsNoop, NoopsAfterTheSecondOctet
  <2> HIDE DEF half
  <2>2. IsNoop(data)
    BY <1>1, <2>1, NoopsAfterTheSecondOctet
  <2> HIDE DEF data
  <2>3. IsNoop(WithCommandChecksum(data))
    BY <2>2, NoopsStayNoops
  <2>4. BuildCommandMalformedCases[3] =
          Case(<<"command_wrong_length", 0>>, "command_malformed", WithCommandChecksum(data), TRUE)
    BY DEF BuildCommandMalformedCases, data, half
  <2> QED
    BY <2>3, <2>4, CommandIsSound DEF Case
<1> QED
  BY <1>2, <1>3, <1>4, <1>5

LEMMA AnyZerosAreOctets == \A n \in Int : Zeros(n) \in Seq(Octet)
<1> SUFFICES ASSUME NEW n \in Int PROVE Zeros(n) \in Seq(Octet)
  OBVIOUS
<1>1. CASE n \in Nat
  BY <1>1, ZerosAreOctets
<1>2. CASE n \notin Nat
  <2>1. 1 .. n = 1 .. 0
    BY <1>2
  <2>2. Zeros(n) = Zeros(0)
    BY <2>1, Zenon DEF Zeros
  <2> QED
    BY <2>2, ZerosAreOctets
<1> QED
  BY <1>1, <1>2

LEMMA OversizedIsSound ==
    ASSUME NEW name, NEW size \in Int, NEW declared
    PROVE  Sound(Oversized(name, size, declared))
<1>1. Zeros(size) \in Seq(Octet)
  BY AnyZerosAreOctets
<1>2. "oversized" # "known_good"
  OBVIOUS
<1> QED
  BY <1>1, <1>2, ValidHeaderIsHeader, TelemetryIsSound, Zenon DEF Oversized

LEMMA VariantsAreHeaders ==
    /\ \A v \in SUBSET (0 .. 2) :
          [ValidHeader EXCEPT !.version = v] \in Header
            /\ [ValidHeader EXCEPT !.version = v].packet_type = {}
    /\ \A a \in SUBSET APID_MAX :
          [ValidHeader EXCEPT !.apid = a] \in Header
            /\ [ValidHeader EXCEPT !.apid = a].packet_type = {}
    /\ \A f \in SUBSET (0 .. 1) :
          [ValidHeader EXCEPT !.seq_flags = f] \in Header
            /\ [ValidHeader EXCEPT !.seq_flags = f].packet_type = {}
    /\ \A f \in SUBSET {0} :
          [ValidHeader EXCEPT !.sec_hdr_flag = f] \in Header
            /\ [ValidHeader EXCEPT !.sec_hdr_flag = f].packet_type = {}
  BY ValidHeaderIsHeader DEF Header

LEMMA TelemetryCasesAreSound ==
    /\ \A k \in 1 .. 7 : Sound(BuildVersionCases[k])
    /\ \A k \in 1 .. 3 : Sound(BuildApidCases[k])
    /\ \A k \in 1 .. 4 : Sound(BuildSeqFlagsCases[k])
    /\ \A k \in 1 .. 4 : Sound(BuildPacketLengthCases[k])
    /\ \A k \in 1 .. 2 : Sound(BuildSecondaryHeaderFlagCases[k])
    /\ \A k \in 1 .. 3 : Sound(BuildDegeneratePayloadCases[k])
<1>1. /\ "version" # "known_good" /\ "apid" # "known_good" /\ "seq_flags" # "known_good"
      /\ "packet_length" # "known_good" /\ "secondary_header" # "known_good"
      /\ "degenerate_payload" # "known_good"
  OBVIOUS
<1>2. ASSUME NEW k \in 1 .. 7 PROVE Sound(BuildVersionCases[k])
  <2>1. Bits(k, 3) \in SUBSET (0 .. 2)
    BY DEF Bits
  <2> QED
    BY <1>1, <2>1, VariantsAreHeaders, PayloadsAreOctets, TelemetryIsSound, Zenon DEF BuildVersionCases
<1>3. ASSUME NEW k \in 1 .. 3 PROVE Sound(BuildApidCases[k])
  <2>1. EdgeApids[k] \in SUBSET APID_MAX
    BY DEF EdgeApids, APID_MAX
  <2> QED
    BY <1>1, <2>1, VariantsAreHeaders, PayloadsAreOctets, TelemetryIsSound, Zenon DEF BuildApidCases
<1>4. ASSUME NEW k \in 1 .. 4 PROVE Sound(BuildSeqFlagsCases[k])
  <2>1. Bits(k - 1, 2) \in SUBSET (0 .. 1)
    BY DEF Bits
  <2> QED
    BY <1>1, <2>1, VariantsAreHeaders, PayloadsAreOctets, TelemetryIsSound, Zenon DEF BuildSeqFlagsCases
<1>5. ASSUME NEW k \in 1 .. 4 PROVE Sound(BuildPacketLengthCases[k])
  BY <1>1, ValidHeaderIsHeader, PayloadsAreOctets, TelemetryIsSound, Zenon DEF BuildPacketLengthCases
<1>6. Sound(BuildSecondaryHeaderFlagCases[1]) /\ Sound(BuildSecondaryHeaderFlagCases[2])
  <2>1. {0} \in SUBSET {0}
    OBVIOUS
  <2>2. Sound(Case(<<"sec_hdr_flag_set_but_absent", 0>>, "secondary_header",
                   ToBytes([ValidHeader EXCEPT !.sec_hdr_flag = {0}], Counting, None), TRUE))
    BY <1>1, <2>1, VariantsAreHeaders, PayloadsAreOctets, TelemetryIsSound, Zenon
  <2>3. Sound(Case(<<"sec_hdr_flag_clear_but_present", 0>>, "secondary_header",
                   ToBytes(ValidHeader, <<AllOnes, AllOnes, {}, {0}>>, None), FALSE))
    BY <1>1, ValidHeaderIsHeader, PayloadsAreOctets, TelemetryIsSound, Zenon
  <2> QED
    BY <2>2, <2>3 DEF BuildSecondaryHeaderFlagCases
<1>7. ASSUME NEW k \in 1 .. 3 PROVE Sound(BuildDegeneratePayloadCases[k])
  <2> DEFINE zero == Case(<<"degenerate_all_zero", 0>>, "degenerate_payload",
                          ToBytes(ValidHeader, Zeros(16), None), FALSE)
             ff == Case(<<"degenerate_all_ff", 0>>, "degenerate_payload",
                        ToBytes(ValidHeader, [j \in 1 .. 16 |-> AllOnes], None), FALSE)
             empty == Case(<<"degenerate_empty_but_length_nonzero", 0>>, "degenerate_payload",
                           ToBytes(ValidHeader, <<>>, 15), TRUE)
  <2>1. Zeros(16) \in Seq(Octet)
    BY ZerosAreOctets
  <2>2. Sound(zero)
    BY <1>1, <2>1, ValidHeaderIsHeader, TelemetryIsSound, Zenon
  <2>3. Sound(ff) /\ Sound(empty)
    BY <1>1, ValidHeaderIsHeader, PayloadsAreOctets, TelemetryIsSound, Zenon
  <2>4. BuildDegeneratePayloadCases = <<zero, ff, empty>>
    BY Zenon DEF BuildDegeneratePayloadCases
  <2> HIDE DEF zero, ff, empty
  <2> QED
    BY <2>2, <2>3, <2>4
<1> QED
  BY <1>2, <1>3, <1>4, <1>5, <1>6, <1>7

LEMMA ShortAndLongCasesAreSound ==
    /\ \A k \in 1 .. PRIMARY_HEADER_SIZE : Sound(BuildTruncationCases[k])
    /\ \A k \in 1 .. 3 : Sound(BuildOversizedCases[k])
<1>1. ASSUME NEW k \in 1 .. PRIMARY_HEADER_SIZE PROVE Sound(BuildTruncationCases[k])
  <2> DEFINE data == SubSeq(Pack(ValidHeader), 1, k - 1)
  <2>1. k \in 1 .. 6
    BY DEF PRIMARY_HEADER_SIZE
  <2>2. \A i \in 1 .. k - 1 : Pack(ValidHeader)[i] \in Octet
    BY <2>1, PackGivesOctets, ElementOfSeq
  <2>3. data \in Seq(Octet) /\ Len(data) = IF 1 <= k - 1 THEN (k - 1) - 1 + 1 ELSE 0
    BY <2>1, <2>2, SubSeqProperties
  <2> HIDE DEF data
  <2>4. ~IsCommand(data)
    BY <2>1, <2>3 DEF IsCommand, PRIMARY_HEADER_SIZE
  <2>5. "truncation" # "known_good"
    OBVIOUS
  <2>6. SoundPacket("truncation", data)
    BY <2>3, <2>4, <2>5 DEF SoundPacket
  <2>7. BuildTruncationCases[k] = Case(<<"truncated", k - 1>>, "truncation", data, TRUE)
    BY DEF BuildTruncationCases, data
  <2> QED
    BY <2>6, <2>7, CaseIsSound DEF Case
<1>2. \A k \in 1 .. 3 : Sound(BuildOversizedCases[k])
  <2>1. /\ ReachableSize - PRIMARY_HEADER_SIZE \in Int
        /\ MAX_PACKET_DATA_LENGTH \in Int /\ MAX_PACKET_DATA_LENGTH + 1 \in Int
    <3>1. 2^LengthBits \in Int
      BY WidthIsNat
    <3> QED
      BY <3>1, GeneratorAssumption DEF PRIMARY_HEADER_SIZE, MAX_PACKET_DATA_LENGTH, PACKET_DATA_LENGTH_MAX
  <2> QED
    BY <2>1, OversizedIsSound DEF BuildOversizedCases
<1> QED
  BY <1>1, <1>2

-----------------------------------------------------------------------------
(***************************************************************************)
(* The suite.                                                              *)
(***************************************************************************)
AllSound(s) == \E S : s \in Seq(S) /\ \A case \in S : Sound(case)

LEMMA BuilderIsSound ==
    ASSUME NEW n \in Nat, NEW s, s = [k \in 1 .. n |-> s[k]], \A k \in 1 .. n : Sound(s[k])
    PROVE  AllSound(s)
<1> DEFINE S == {s[k] : k \in 1 .. n}
<1>1. s \in [1 .. n -> S]
  OBVIOUS
<1>2. s \in Seq(S)
  BY <1>1, SeqDef
<1>3. \A case \in S : Sound(case)
  OBVIOUS
<1> QED
  BY <1>2, <1>3, Zenon DEF AllSound

LEMMA ConcatIsSound ==
    ASSUME NEW s, AllSound(s), NEW t, AllSound(t)
    PROVE  AllSound(s \o t)
<1>1. PICK S : s \in Seq(S) /\ \A case \in S : Sound(case)
  BY DEF AllSound
<1>2. PICK T : t \in Seq(T) /\ \A case \in T : Sound(case)
  BY DEF AllSound
<1> DEFINE U == S \cup T
<1>3. S \subseteq U /\ T \subseteq U /\ \A case \in U : Sound(case)
  BY <1>1, <1>2
<1> HIDE DEF U
<1>4. s \in Seq(U) /\ t \in Seq(U)
  BY <1>1, <1>2, <1>3, SeqMonotonic
<1>5. s \o t \in Seq(U)
  BY <1>4, ConcatProperties
<1> QED
  BY <1>3, <1>5, Zenon DEF AllSound

LEMMA GenerateAllIsSound == AllSound(GenerateAll)
<1>1. AllSound(BuildKnownGoodNoopCase)
  <2>1. BuildKnownGoodNoopCase = [k \in 1 .. 1 |-> BuildKnownGoodNoopCase[k]]
    BY DEF BuildKnownGoodNoopCase
  <2> QED
    BY <2>1, NoopCasesAreSound, BuilderIsSound
<1>2. AllSound(BuildCommandMalformedCases)
  <2>1. BuildCommandMalformedCases = [k \in 1 .. 3 |-> BuildCommandMalformedCases[k]]
    BY DEF BuildCommandMalformedCases
  <2> QED
    BY <2>1, NoopCasesAreSound, BuilderIsSound
<1>3. AllSound(BuildVersionCases)
  <2>1. BuildVersionCases = [k \in 1 .. 7 |-> BuildVersionCases[k]]
    BY DEF BuildVersionCases
  <2> QED
    BY <2>1, TelemetryCasesAreSound, BuilderIsSound
<1>4. AllSound(BuildApidCases)
  <2>1. BuildApidCases = [k \in 1 .. 3 |-> BuildApidCases[k]]
    BY DEF BuildApidCases
  <2> QED
    BY <2>1, TelemetryCasesAreSound, BuilderIsSound
<1>5. AllSound(BuildSeqFlagsCases)
  <2>1. BuildSeqFlagsCases = [k \in 1 .. 4 |-> BuildSeqFlagsCases[k]]
    BY DEF BuildSeqFlagsCases
  <2> QED
    BY <2>1, TelemetryCasesAreSound, BuilderIsSound
<1>6. AllSound(BuildPacketLengthCases)
  <2>1. BuildPacketLengthCases = [k \in 1 .. 4 |-> BuildPacketLengthCases[k]]
    BY DEF BuildPacketLengthCases
  <2> QED
    BY <2>1, TelemetryCasesAreSound, BuilderIsSound
<1>7. AllSound(BuildSecondaryHeaderFlagCases)
  <2>1. BuildSecondaryHeaderFlagCases = [k \in 1 .. 2 |-> BuildSecondaryHeaderFlagCases[k]]
    BY DEF BuildSecondaryHeaderFlagCases
  <2> QED
    BY <2>1, TelemetryCasesAreSound, BuilderIsSound
<1>8. AllSound(BuildTruncationCases)
  <2>1. BuildTruncationCases = [k \in 1 .. PRIMARY_HEADER_SIZE |-> BuildTruncationCases[k]]
    BY DEF BuildTruncationCases
  <2>2. PRIMARY_HEADER_SIZE \in Nat
    BY DEF PRIMARY_HEADER_SIZE
  <2> QED
    BY <2>1, <2>2, ShortAndLongCasesAreSound, BuilderIsSound
<1>9. AllSound(BuildOversizedCases)
  <2>1. BuildOversizedCases = [k \in 1 .. 3 |-> BuildOversizedCases[k]]
    BY DEF BuildOversizedCases
  <2> QED
    BY <2>1, ShortAndLongCasesAreSound, BuilderIsSound
<1>10. AllSound(BuildDegeneratePayloadCases)
  <2>1. BuildDegeneratePayloadCases = [k \in 1 .. 3 |-> BuildDegeneratePayloadCases[k]]
    BY DEF BuildDegeneratePayloadCases
  <2> QED
    BY <2>1, TelemetryCasesAreSound, BuilderIsSound
<1> QED
  BY <1>1, <1>2, <1>3, <1>4, <1>5, <1>6, <1>7, <1>8, <1>9, <1>10, ConcatIsSound, Zenon
  DEF GenerateAll

\* The later of two members has the higher rank.
LEMMA RanksGrow ==
    ASSUME NEW S \in SUBSET Nat, IsFiniteSet(S), NEW k \in S, NEW l \in S, k < l
    PROVE  Cardinality({j \in S : j <= k}) < Cardinality({j \in S : j <= l})
<1> DEFINE below == {j \in S : j <= k}
           upto == {j \in S : j <= l}
<1>1. k \in Nat /\ l \in Nat /\ \A j \in S : j \in Nat
  OBVIOUS
<1>2. \A j \in S : j <= k => j <= l
  BY <1>1
<1>3. upto \in SUBSET S /\ below \in SUBSET upto /\ l \in upto /\ l \notin below
  <2>1. upto \in SUBSET S
    OBVIOUS
  <2>2. below \in SUBSET upto
    BY <1>2
  <2>3. l \in upto
    BY <1>1
  <2>4. l \notin below
    BY <1>1
  <2> QED
    BY <2>1, <2>2, <2>3, <2>4
<1> HIDE DEF below, upto
<1>4. IsFiniteSet(upto)
  BY <1>3, FS_Subset
<1>5. /\ IsFiniteSet(below) /\ Cardinality(below) <= Cardinality(upto)
      /\ Cardinality(below) = Cardinality(upto) => below = upto
  BY <1>3, <1>4, FS_Subset
<1>6. Cardinality(below) \in Nat /\ Cardinality(upto) \in Nat
  BY <1>4, <1>5, FS_CardinalityType
<1>7. Cardinality(below) < Cardinality(upto)
  BY <1>3, <1>5, <1>6
<1> QED
  BY <1>7 DEF below, upto

\* Every number up to the size of a finite set of numbers is the rank of a member:
\* ranks differ, so a number left out would leave the members too few.
LEMMA EveryRankIsTaken ==
    ASSUME NEW S \in SUBSET Nat, IsFiniteSet(S), NEW n \in 1 .. Cardinality(S)
    PROVE  \E k \in S : Cardinality({j \in S : j <= k}) = n
<1> DEFINE upto(k) == {j \in S : j <= k}
           rank == [k \in S |-> Cardinality(upto(k))]
           ranks == 1 .. Cardinality(S)
<1>1. Cardinality(S) \in Nat
  BY FS_CardinalityType
<1>2. ASSUME NEW k \in S
      PROVE  Cardinality(upto(k)) \in ranks
  <2>1. upto(k) \in SUBSET S /\ k \in upto(k)
    OBVIOUS
  <2>2. IsFiniteSet(upto(k)) /\ Cardinality(upto(k)) <= Cardinality(S)
    BY <2>1, FS_Subset
  <2>3. Cardinality(upto(k)) \in Nat /\ Cardinality(upto(k)) # 0
    BY <2>1, <2>2, FS_CardinalityType, FS_EmptySet
  <2> QED
    BY <1>1, <2>2, <2>3
<1>3. rank \in [S -> ranks] /\ \A k \in S : rank[k] = Cardinality(upto(k))
  BY <1>2
<1>4. \A k, l \in S : k # l => rank[k] # rank[l]
  <2> TAKE k, l \in S
  <2>1. k < l \/ l < k \/ k = l
    OBVIOUS
  <2>2. rank[k] \in Nat /\ rank[l] \in Nat
    BY <1>2, <1>3
  <2>3. /\ k < l => rank[k] < rank[l]
        /\ l < k => rank[l] < rank[k]
    BY <1>3, RanksGrow
  <2> QED
    BY <2>1, <2>2, <2>3
<1>5. IsFiniteSet(ranks) /\ Cardinality(ranks) = Cardinality(S)
  BY <1>1, FS_Interval
<1> HIDE DEF rank, ranks, upto
<1>6. rank \in Injection(S, ranks)
  BY <1>3, <1>4, Zenon DEF Injection, IsInjective
<1>7. rank \in Surjection(S, ranks)
  BY <1>5, <1>6, FS_Injection
<1> QED
  BY <1>3, <1>7, Zenon DEF Surjection, ranks, upto

LEMMA SelectedAreFew ==
    /\ Selected \in SUBSET DOMAIN GenerateAll /\ Selected \in SUBSET Nat
    /\ IsFiniteSet(Selected) /\ Cardinality(Selected) \in Nat
<1>1. PICK S : GenerateAll \in Seq(S)
  BY GenerateAllIsSound DEF AllSound
<1>2. DOMAIN GenerateAll = 1 .. Len(GenerateAll) /\ Len(GenerateAll) \in Nat
  BY <1>1, LenProperties
<1>3. Selected \in SUBSET (1 .. Len(GenerateAll))
  BY <1>2 DEF Selected
<1>4. IsFiniteSet(1 .. Len(GenerateAll))
  BY <1>2, FS_Interval
<1>5. IsFiniteSet(Selected)
  BY <1>3, <1>4, FS_Subset, Zenon
<1> QED
  BY <1>2, <1>3, <1>5, FS_CardinalityType

LEMMA SuiteIsSound == \A n \in DOMAIN Suite : Sound(Suite[n])
<1>1. PICK S : GenerateAll \in Seq(S) /\ \A case \in S : Sound(case)
  BY GenerateAllIsSound DEF AllSound
<1>5. ASSUME NEW n \in DOMAIN Suite PROVE Sound(Suite[n])
  <2>1. n \in 1 .. Cardinality(Selected) /\ Suite[n] = GenerateAll[Nth(Selected, n)]
    BY DEF Suite, AtPositions
  <2>2. \E k \in Selected : Cardinality({j \in Selected : j <= k}) = n
    BY SelectedAreFew, <2>1, EveryRankIsTaken
  <2>3. Nth(Selected, n) \in Selected
    BY <2>2, Zenon DEF Nth
  <2>4. GenerateAll[Nth(Selected, n)] \in S
    BY <1>1, SelectedAreFew, <2>3, ElementOfSeq
  <2> QED
    BY <1>1, <2>1, <2>4
<1> QED
  BY <1>5

\* A packet of the suite that is a command is one for the APID the suite is aimed
\* at, and the control is always a command.
LEMMA PacketsAreAimed ==
    ASSUME NEW n \in DOMAIN Suite, NEW apid \in (SUBSET APID_MAX) \cup {None}
    PROVE  LET data == Retargeted(Suite[n], apid).packet_bytes
           IN  /\ IsCommand(data) => Unpack(data).apid = IF apid = None THEN DefaultApid ELSE apid
               /\ Suite[n].category = "known_good" => IsCommand(data)
<1> DEFINE case == Suite[n]
           data == Retargeted(case, apid).packet_bytes
<1>1. SoundPacket(case.category, case.packet_bytes)
  BY SuiteIsSound DEF Sound
<1> HIDE DEF case
<1>2. case.packet_bytes \in Seq(Octet) /\ Len(case.packet_bytes) \in Nat
  BY <1>1, LenProperties DEF SoundPacket
<1>3. CASE apid = None
  <2>1. data = case.packet_bytes
    BY <1>3 DEF Retargeted
  <2> QED
    BY <1>1, <1>3, <2>1 DEF SoundPacket, case
<1>4. CASE apid # None /\ KeptAsIs(case)
  <2>1. data = case.packet_bytes
    BY <1>4 DEF Retargeted
  <2>2. ~IsCommand(data)
    BY <1>1, <1>2, <1>4, <2>1 DEF SoundPacket, KeptAsIs, IsCommand, PRIMARY_HEADER_SIZE
  <2> QED
    BY <1>1, <2>1, <2>2 DEF SoundPacket, case
<1>5. CASE apid # None /\ ~KeptAsIs(case)
  <2>1. /\ data \in Seq(Octet) /\ Len(data) = Len(case.packet_bytes)
        /\ Unpack(data).apid = apid /\ Unpack(data).packet_type = {0}
    <3>1. apid \in SUBSET APID_MAX
      BY <1>5
    <3> QED
      BY <1>2, <1>5, <3>1, RetargetedToApid, Zenon
  <2> HIDE DEF data
  <2>2. ~(Len(case.packet_bytes) < PRIMARY_HEADER_SIZE)
    BY <1>5, Zenon DEF KeptAsIs
  <2>3. Len(case.packet_bytes) >= PRIMARY_HEADER_SIZE
    BY <1>2, <2>2 DEF PRIMARY_HEADER_SIZE
  <2>4. IsCommand(data)
    BY <2>1, <2>3, Zenon DEF IsCommand
  <2> QED
    BY <1>5, <2>1, <2>4 DEF data, case
<1> QED
  BY <1>3, <1>4, <1>5

-----------------------------------------------------------------------------
(***************************************************************************)
(* The run.                                                                *)
(***************************************************************************)
Configured == {"enable", "hk", "suite", "exit", "passed"}

TargetType == [mid : Word, buggy : BOOLEAN, up : BOOLEAN, counters : Counters]

Aimed == step \in Configured => config.target_apid \in (SUBSET APID_MAX) \cup {None}

\* Of a sandbox: what was resolved, and then configured, is what the flight
\* software listens to.
FromTheBuild ==
    build # None =>
       /\ build \in Builds
       /\ target.mid = build.ids["CI_LAB_CMD_MID"]
       /\ step = "render" => \A name \in WantedDefines : resolved[name] = build.ids[name]
       /\ step \in Configured =>
             /\ config.port = build.ids["CI_LAB_CMD_UDP_PORT"]
             /\ config.listen_port = build.ids["TO_LAB_TLM_PORT"]

\* A control that was accepted has reached the target.
ControlReached ==
    /\ findings \in Seq(Verdict)
    /\ step \notin {"suite", "exit", "passed", "failed"} => findings = <<>>
    /\ \A k \in 1 .. Len(findings) :
          findings[k] = "clean_accept" /\ Suite[k].category = "known_good" => OnAim

IInv ==
    /\ target \in TargetType
    /\ Aimed
    /\ FromTheBuild
    /\ ControlReached
    /\ step = "passed" /\ build # None => ScriptPasses

LEMMA InitOK == Init => IInv
<1> SUFFICES ASSUME Init PROVE IInv
  OBVIOUS
<1>1. \/ step = "resolve" /\ build \in Builds
      \/ step = "suite" /\ build = None /\ config \in Configs
  BY Zenon DEF Init, SetupInit
<1>2. Aimed
  BY <1>1, ConfigsAssumption DEF Aimed, Configured
<1>3. PICK mid \in Listens, buggy \in BOOLEAN, n \in FirstCounts :
        target = [mid |-> mid, buggy |-> buggy, up |-> TRUE,
                  counters |-> [command |-> n, command_error |-> n, ingest_errors |-> 0]]
  BY DEF Init
<1>4. target.mid = mid
  BY <1>3
<1>5. mid \in Word
  <2>1. CASE build # None
    <3>1. build.ids \in Ids /\ mid = build.ids["CI_LAB_CMD_MID"]
      BY <1>1, <2>1, BuildsAssumption DEF Listens
    <3> QED
      BY <3>1 DEF Ids, WantedDefines
  <2>2. CASE build = None
    <3>1. DefaultApid \in SUBSET APID_MAX
      BY DEF DefaultApid, APID_MAX
    <3>2. Aim \in SUBSET APID_MAX
      <4>1. config \in Configs
        BY <1>1, <2>2, BuildsAssumption, Zenon
      <4>2. config.target_apid \in (SUBSET APID_MAX) \cup {None}
        BY <4>1, ConfigsAssumption
      <4> QED
        BY <3>1, <4>2, Zenon DEF Aim
    <3>3. mid \in {CommandMid(EXPECTED_APID), CommandMid(Aim)}
      BY <2>2 DEF Listens
    <3>4. ASSUME NEW apid \in SUBSET APID_MAX PROVE CommandMid(apid) \in Word
      BY DEF CommandMid, Word, APID_MAX
    <3> QED
      BY <3>2, <3>3, <3>4, TargetAssumption
  <2> QED
    BY <2>1, <2>2
<1>6. target \in TargetType
  BY <1>3, <1>5, TargetAssumption DEF TargetType, Counters
<1>7. FromTheBuild
  BY <1>1, <1>4 DEF FromTheBuild, Listens, Configured
<1>8. findings = <<>>
  BY DEF Init
<1>9. ControlReached
  BY <1>8 DEF ControlReached
<1> QED
  BY <1>1, <1>2, <1>6, <1>7, <1>9 DEF IInv

\* The steps of a sandbox before the suite leave the target and the verdicts be.
LEMMA SetupStepOK ==
    ASSUME IInv, SetupNext, UNCHANGED suiteVars
    PROVE  IInv'
<1> USE DEF Goto
<1>1. target' = target /\ findings' = findings
  BY DEF suiteVars
<1>2. target' \in TargetType
  BY <1>1 DEF IInv
<1>3. build' = build /\ step \in {"resolve", "render", "enable", "hk"}
  BY DEF SetupNext, Resolve, Render, EnableToLab, AwaitHk, HkTimesOut, CommandFails
<1>4. findings = <<>>
  BY <1>3 DEF IInv, ControlReached
<1>5. ControlReached'
  BY <1>1, <1>4 DEF ControlReached
<1>6. step' \in {"render", "enable", "hk", "suite", "stopped"}
  BY DEF SetupNext, Resolve, Render, EnableToLab, AwaitHk, HkTimesOut, CommandFails
<1>7. Aimed' /\ FromTheBuild'
  <2>1. CASE Resolve
    <3>1. step' \notin Configured /\ step' \in {"render", "stopped"}
      BY <2>1 DEF Resolve, Configured
    <3>2. ASSUME build # None, step' = "render"
          PROVE  \A name \in WantedDefines : resolved'[name] = build.ids[name]
      <4> DEFINE found == FindResolvedDefines(build.exported)
      <4>1. found # Unreadable /\ resolved' = found /\ AllResolved(found)
        BY <2>1, <3>2 DEF Resolve
      <4>2. build \in Builds
        BY <3>2 DEF IInv, FromTheBuild
      <4>3. build.exported # <<>>
        <5>1. ~AllResolved(NothingFound)
          BY DEF AllResolved, NothingFound, WantedDefines
        <5> QED
          BY <4>1, <5>1 DEF FindResolvedDefines
      <4>4. found = Head(build.exported)
        BY <4>3 DEF FindResolvedDefines
      <4>5. \A name \in WantedDefines : found[name] \in {build.ids[name], None}
        BY <4>1, <4>2, <4>3, <4>4, BuildsAssumption
      <4> QED
        BY <4>1, <4>5 DEF AllResolved
    <3> QED
      BY <1>1, <1>3, <3>1, <3>2 DEF IInv, Aimed, FromTheBuild
  <2>2. CASE Render
    <3>1. /\ config'.target_apid = resolved["CI_LAB_CMD_MID"] \cap APID_MAX
          /\ config'.port = resolved["CI_LAB_CMD_UDP_PORT"]
          /\ config'.listen_port = resolved["TO_LAB_TLM_PORT"]
          /\ step = "render" /\ step' = "enable"
      BY <2>2 DEF Render
    <3>2. Aimed'
      BY <3>1 DEF Aimed
    <3>3. build # None => \A name \in WantedDefines : resolved[name] = build.ids[name]
      BY <3>1 DEF IInv, FromTheBuild
    <3>4. "CI_LAB_CMD_UDP_PORT" \in WantedDefines /\ "TO_LAB_TLM_PORT" \in WantedDefines
      BY DEF WantedDefines
    <3>5. FromTheBuild'
      BY <1>1, <1>3, <3>1, <3>3, <3>4 DEF IInv, FromTheBuild
    <3> QED
      BY <3>2, <3>5
  <2>3. CASE EnableToLab \/ AwaitHk \/ HkTimesOut
    <3>1. config' = config /\ step \in Configured /\ step' # "render"
      BY <2>3 DEF EnableToLab, AwaitHk, HkTimesOut, Configured
    <3> QED
      BY <1>1, <1>3, <3>1 DEF IInv, Aimed, FromTheBuild
  <2>4. CASE CommandFails
    <3>1. step' \notin Configured /\ step' # "render"
      BY <2>4 DEF CommandFails, Configured
    <3> QED
      BY <1>1, <1>3, <3>1 DEF IInv, Aimed, FromTheBuild
  <2> QED
    BY <2>1, <2>2, <2>3, <2>4 DEF SetupNext
<1> QED
  BY <1>2, <1>5, <1>6, <1>7 DEF IInv

\* The packet of the control is accepted only by a target at the APID it goes to.
LEMMA AcceptedMeansAimed ==
    ASSUME IInv, InSuite, Suite[Position].category = "known_good",
           Defects(Packet, target.mid) = {}
    PROVE  OnAim
<1>1. config.target_apid \in (SUBSET APID_MAX) \cup {None} /\ Position \in DOMAIN Suite
  BY DEF IInv, Aimed, Configured, InSuite
<1>2. IsCommand(Packet) /\ Unpack(Packet).apid = Aim
  BY <1>1, PacketsAreAimed, Zenon DEF Packet, Aim
<1>3. target.mid = CommandMid(Unpack(Packet).apid)
  <2> DEFINE header == Unpack(Packet)
             wrong == [version      |-> header.version # {},
                       packet_type  |-> header.packet_type # {0},
                       seq_flags    |-> header.seq_flags # SEQ_FLAGS_UNSEGMENTED,
                       length       |-> ~DataLengthIs(header, Len(Packet) - PRIMARY_HEADER_SIZE),
                       apid         |-> target.mid # CommandMid(header.apid),
                       sec_hdr_flag |-> header.sec_hdr_flag # {0},
                       function     |-> Len(Packet) < 8 \/ Packet[7] # {},
                       checksum     |-> ~ChecksumHolds(Packet)]
  <2>1. Len(Packet) \in PRIMARY_HEADER_SIZE .. MAX_COMMAND_SIZE
    BY DEF Defects
  <2>2. {defect \in DOMAIN wrong : wrong[defect]} = {}
    BY <2>1, Zenon DEF Defects
  <2>3. "apid" \in DOMAIN wrong
    OBVIOUS
  <2>4. wrong["apid"] = (target.mid # CommandMid(header.apid))
    BY Zenon
  <2> HIDE DEF wrong
  <2>5. ~wrong["apid"]
    BY <2>2, <2>3, Zenon
  <2> QED
    BY <2>4, <2>5, Zenon
<1> QED
  BY <1>2, <1>3 DEF OnAim

\* A verdict that is added to the findings.
LEMMA JudgedOK ==
    ASSUME IInv, InSuite, NEW verdict \in Verdict, Judged(verdict),
           target' \in TargetType, target'.mid = target.mid,
           verdict = "clean_accept" /\ Suite[Position].category = "known_good" => OnAim
    PROVE  IInv'
<1>1. /\ findings' = Append(findings, verdict)
      /\ step = "suite" /\ step' \in {"exit", "suite"}
      /\ build' = build /\ config' = config
  BY DEF Judged, Goto, InSuite
<1>2. OnAim' <=> OnAim
  BY <1>1 DEF OnAim, Aim
<1>3. findings \in Seq(Verdict) /\ Len(findings) \in Nat
  BY LenProperties DEF IInv, ControlReached
<1>4. /\ findings' \in Seq(Verdict) /\ Len(findings') = Position
      /\ findings'[Position] = verdict
      /\ \A k \in 1 .. Len(findings) : findings'[k] = findings[k]
  BY <1>1, <1>3, AppendProperties DEF Position
<1>5. ASSUME NEW k \in 1 .. Len(findings'),
             findings'[k] = "clean_accept", Suite[k].category = "known_good"
      PROVE  OnAim'
  <2>1. CASE k = Position
    BY <1>2, <1>4, <1>5, <2>1
  <2>2. CASE k \in 1 .. Len(findings)
    BY <1>2, <1>4, <1>5, <2>2 DEF IInv, ControlReached
  <2> QED
    BY <1>3, <1>4, <2>1, <2>2 DEF Position
<1>6. ControlReached'
  BY <1>1, <1>4, <1>5 DEF ControlReached
<1>7. Aimed' /\ FromTheBuild'
  BY <1>1 DEF IInv, Aimed, FromTheBuild, Configured
<1> QED
  BY <1>1, <1>6, <1>7 DEF IInv

LEMMA SuiteStepOK ==
    ASSUME IInv, CaseCounted \/ CaseKills \/ CaseNotCarried \/ TargetSilent
    PROVE  IInv'
<1> USE DEF Verdict
<1>1. target \in TargetType
  BY DEF IInv
<1>2. CASE CaseCounted
  <2> DEFINE field == IF Defects(Packet, target.mid) = {} THEN "command" ELSE "command_error"
             verdict == Deltas!DeltaVerdict(Position, target, target')
  <2>1. target' = [target EXCEPT !.counters = Counted(target.counters, field)]
    BY <1>2 DEF CaseCounted, Handled
  <2>2. field \in {"command", "command_error"}
    OBVIOUS
  <2> HIDE DEF field
  <2>3. target.counters \in Counters
    BY <1>1 DEF TargetType
  <2>4. /\ Counted(target.counters, field) \in Counters
        /\ field = "command_error" =>
              Counted(target.counters, field).command = target.counters.command
    <3>1. \A n \in 0 .. ByteMod - 1 : (n + 1) % ByteMod \in 0 .. ByteMod - 1
      BY TargetAssumption
    <3>2. CASE field = "command"
      BY <2>3, <3>1, <3>2 DEF Counted, Counters
    <3>3. CASE field = "command_error"
      BY <2>3, <3>1, <3>3 DEF Counted, Counters
    <3> QED
      BY <2>2, <3>2, <3>3
  <2>5. target' \in TargetType /\ target'.mid = target.mid
        /\ target'.counters = Counted(target.counters, field)
    BY <1>1, <2>1, <2>4 DEF TargetType
  <2>6. InSuite /\ Judged(verdict)
    BY <1>2 DEF CaseCounted
  <2>7. verdict \in Verdict
    BY DEF Deltas!DeltaVerdict
  <2>8. ASSUME verdict = "clean_accept", Suite[Position].category = "known_good"
        PROVE  OnAim
    <3>1. target'.counters.command # target.counters.command
      BY <2>8 DEF Deltas!DeltaVerdict, Deltas!Changed
    <3>2. field # "command_error"
      BY <2>4, <2>5, <3>1
    <3>3. Defects(Packet, target.mid) = {}
      BY <3>2 DEF field
    <3> QED
      BY <2>6, <2>8, <3>3, AcceptedMeansAimed
  <2> QED
    BY <2>5, <2>6, <2>7, <2>8, JudgedOK
<1>3. CASE CaseKills
  <2>1. target' = [target EXCEPT !.up = FALSE] /\ InSuite /\ Judged("hang")
    BY <1>3 DEF CaseKills, Handled
  <2>2. target' \in TargetType /\ target'.mid = target.mid
    BY <1>1, <2>1 DEF TargetType
  <2> QED
    BY <2>1, <2>2, JudgedOK
<1>4. CASE CaseNotCarried
  BY <1>1, <1>4, JudgedOK DEF CaseNotCarried
<1>5. CASE TargetSilent
  BY <1>1, <1>5, JudgedOK DEF TargetSilent
<1> QED
  BY <1>2, <1>3, <1>4, <1>5

LEMMA ExitOK ==
    ASSUME IInv, Exit
    PROVE  IInv'
<1>1. /\ step \in {"suite", "exit"} /\ step' \in {"passed", "failed"}
      /\ build' = build /\ config' = config /\ target' = target /\ findings' = findings
      /\ step' = "passed" /\ build # None => ScriptPasses
  BY DEF Exit, Goto, suiteVars
<1>2. /\ OnAim' <=> OnAim
      /\ ScriptPasses' <=> ScriptPasses
  BY <1>1 DEF OnAim, Aim, ScriptPasses, RunPasses, Controls
<1>3. ControlReached'
  BY <1>1, <1>2 DEF IInv, ControlReached
<1>4. Aimed' /\ FromTheBuild'
  BY <1>1 DEF IInv, Aimed, FromTheBuild, Configured
<1> QED
  BY <1>1, <1>2, <1>3, <1>4 DEF IInv

LEMMA StutterOK ==
    ASSUME IInv, UNCHANGED vars
    PROVE  IInv'
<1>1. /\ step' = step /\ build' = build /\ resolved' = resolved /\ config' = config
      /\ target' = target /\ findings' = findings
  BY DEF vars, setupVars, suiteVars
<1> QED
  BY <1>1 DEF IInv, Aimed, FromTheBuild, ControlReached, OnAim, Aim, ScriptPasses, RunPasses, Controls

THEOREM IInvIsInvariant == Spec => []IInv
<1>1. IInv /\ [Next]_vars => IInv'
  <2> SUFFICES ASSUME IInv, [Next]_vars PROVE IInv'
    OBVIOUS
  <2>1. CASE SetupNext /\ UNCHANGED suiteVars
    BY <2>1, SetupStepOK
  <2>2. CASE CaseCounted \/ CaseKills \/ CaseNotCarried \/ TargetSilent
    BY <2>2, SuiteStepOK
  <2>3. CASE Exit
    BY <2>3, ExitOK
  <2>4. CASE UNCHANGED vars
    BY <2>4, StutterOK
  <2> QED
    BY <2>1, <2>2, <2>3, <2>4 DEF Next
<1> QED
  BY <1>1, InitOK, PTL DEF Spec

\* _select_cases: a suite aimed at one application sends no command to another,
\* whatever the configured APID, the categories selected and the state of the run.
THEOREM NoCommandGoesAstray == Spec => []StaysOnTarget
<1>1. IInv => StaysOnTarget
  <2> SUFFICES ASSUME IInv, InSuite, IsCommand(Packet) PROVE Unpack(Packet).apid = Aim
    BY DEF StaysOnTarget
  <2>1. config.target_apid \in (SUBSET APID_MAX) \cup {None} /\ Position \in DOMAIN Suite
    BY DEF IInv, Aimed, Configured, InSuite
  <2> QED
    BY <2>1, PacketsAreAimed, Zenon DEF Packet, Aim
<1> QED
  BY <1>1, IInvIsInvariant, PTL

\* run-cfs-docker.sh: a script that passes has exercised the CI_LAB of its own
\* container, at the port it listens on, whatever the build exported.
THEOREM PassingScriptReachedItsTarget == Spec => []PassedOnItsOwnTarget
<1>1. IInv => PassedOnItsOwnTarget
  <2> SUFFICES ASSUME IInv, step = "passed", build # None
               PROVE  /\ OnAim
                      /\ config.port = build.ids["CI_LAB_CMD_UDP_PORT"]
                      /\ config.listen_port = build.ids["TO_LAB_TLM_PORT"]
    BY DEF PassedOnItsOwnTarget
  <2>1. Cardinality(Controls) = 1 /\ \A k \in Controls : findings[k] = "clean_accept"
    BY DEF IInv, ScriptPasses
  <2>2. PICK k \in Controls : TRUE
    <3>1. Controls # {}
      BY <2>1, FS_EmptySet
    <3> QED
      BY <3>1
  <2>3. k \in 1 .. Len(findings) /\ Suite[k].category = "known_good" /\ findings[k] = "clean_accept"
    BY <2>1, <2>2, LenProperties DEF Controls, IInv, ControlReached
  <2>4. OnAim
    BY <2>3 DEF IInv, ControlReached
  <2> QED
    BY <2>4 DEF IInv, FromTheBuild, Configured
<1> QED
  BY <1>1, IInvIsInvariant, PTL

-----------------------------------------------------------------------------
(***************************************************************************)
(* The campaign.                                                           *)
(***************************************************************************)
\* Retargeting leaves the number of octets.
LEMMA SameSize ==
    ASSUME NEW case, case.packet_bytes \in Seq(Octet), NEW apid \in (SUBSET APID_MAX) \cup {None}
    PROVE  Len(Retargeted(case, apid).packet_bytes) = Len(case.packet_bytes)
<1>1. CASE apid = None \/ KeptAsIs(case)
  <2>1. Retargeted(case, apid).packet_bytes = case.packet_bytes
    BY <1>1, Zenon DEF Retargeted
  <2> QED
    BY <2>1
<1>2. CASE apid # None /\ ~KeptAsIs(case)
  BY <1>2, RetargetedToApid
<1> QED
  BY <1>1, <1>2

CampaignTarget == IF target.up THEN "up" ELSE "dead"

\* The next case, and its place in the campaign.
LEMMA CaseInTurn ==
    ASSUME InSuite
    PROVE  /\ Position = Promise!NextCase /\ Promise!NextCase <= Len(Suite)
           /\ Position \in DOMAIN Suite
<1>1. Len(Suite) = Cardinality(Selected) /\ DOMAIN Suite = 1 .. Len(Suite)
  BY SelectedAreFew DEF Suite, AtPositions
<1> QED
  BY <1>1, SelectedAreFew DEF InSuite, Position, Promise!NextCase

\* A packet is carried exactly if the case it is made from can be.
LEMMA CarriedMeansSendable ==
    ASSUME IInv, InSuite
    PROVE  Carried <=> Position \notin Unsendable
<1>1. config.target_apid \in (SUBSET APID_MAX) \cup {None} /\ Position \in DOMAIN Suite
  BY DEF IInv, Aimed, Configured, InSuite
<1>2. Suite[Position].packet_bytes \in Seq(Octet)
  BY <1>1, SuiteIsSound DEF Sound, SoundPacket
<1>3. Len(Packet) = Len(Suite[Position].packet_bytes)
  BY <1>1, <1>2, SameSize, Zenon DEF Packet
<1>4. Position \in Unsendable <=> ~(Len(Suite[Position].packet_bytes) <= UdpLimit)
  BY <1>1, Zenon DEF Unsendable
<1> QED
  BY <1>3, <1>4, Zenon DEF Carried

\* What the target did with a packet, the verdict on it and the state it is left in
\* go together as the campaign has them.
LEMMA ExchangeMeans ==
    ASSUME IInv, NEW e \in Effect,
           InSuite, Carried, CampaignTarget = "up", CampaignTarget' = Promise!StateAfter(e),
           Did(e), Judged(Promise!VerdictFor(Position, e))
    PROVE  Promise!Next
<1>1. Position = Promise!NextCase /\ Promise!NextCase <= Len(Suite)
  BY CaseInTurn
<1>2. Promise!NextCase \notin Unsendable
  BY <1>1, CarriedMeansSendable
<1>3. Promise!Filed(e, Promise!VerdictFor(Promise!NextCase, e))
  BY <1>1, Zenon DEF Promise!Filed, Judged, Did
<1>4. Promise!Exchange
  BY <1>2, <1>3, Zenon DEF Promise!Exchange, CampaignTarget, Promise!Effect, Effect
<1> QED
  BY <1>4 DEF Promise!Next

LEMMA CountedIsExchange ==
    ASSUME IInv, ByteMod > 1, CaseCounted
    PROVE  Promise!Next
<1> DEFINE field == IF Defects(Packet, target.mid) = {} THEN "command" ELSE "command_error"
           effect == IF field = "command" THEN "accept" ELSE "reject"
           after == Counted(target.counters, field)
<1>1. /\ target' = [target EXCEPT !.counters = after] /\ target.up /\ InSuite /\ Carried
      /\ Did(effect)
  BY DEF CaseCounted, Handled, DeedOn
<1>2. Judged(Deltas!DeltaVerdict(Position, target, target'))
  BY DEF CaseCounted
<1>3. field \in {"command", "command_error"}
  OBVIOUS
<1> HIDE DEF field
<1>4. target \in TargetType /\ target.counters \in Counters
  BY DEF IInv, TargetType
<1>5. /\ after.ingest_errors = target.counters.ingest_errors
      /\ (after.command # target.counters.command) <=> (field = "command")
      /\ (after.command_error # target.counters.command_error) <=> (field = "command_error")
  <2>1. \A n \in 0 .. ByteMod - 1 : (n + 1) % ByteMod # n
    BY TargetAssumption
  <2>2. CASE field = "command"
    BY <1>4, <2>1, <2>2 DEF Counted, Counters
  <2>3. CASE field = "command_error"
    BY <1>4, <2>1, <2>3 DEF Counted, Counters
  <2> QED
    BY <1>3, <2>2, <2>3
<1>6. target'.counters = after /\ target'.up
  BY <1>1, <1>4 DEF TargetType
<1> HIDE DEF after
<1>7. Deltas!DeltaVerdict(Position, target, target') = Promise!VerdictFor(Position, effect)
  BY <1>3, <1>5, <1>6 DEF Deltas!DeltaVerdict, Deltas!Changed, Promise!VerdictFor
<1>8. CampaignTarget = "up" /\ CampaignTarget' = "up" /\ effect \in Effect
      /\ Promise!StateAfter(effect) = "up"
  BY <1>1, <1>6 DEF CampaignTarget, Effect, Promise!StateAfter
<1> QED
  BY <1>1, <1>2, <1>7, <1>8, ExchangeMeans

LEMMA KilledIsExchange ==
    ASSUME IInv, CaseKills
    PROVE  Promise!Next
<1>1. /\ target' = [target EXCEPT !.up = FALSE] /\ target.up /\ InSuite /\ Judged("hang")
      /\ Carried /\ Did("crash")
  BY DEF CaseKills, Handled, DeedOn
<1>2. CampaignTarget = "up" /\ CampaignTarget' = "dead"
  BY <1>1 DEF CampaignTarget, IInv, TargetType
<1>3. Promise!StateAfter("crash") = "dead" /\ Promise!VerdictFor(Position, "crash") = "hang"
      /\ "crash" \in Effect
  BY DEF Promise!StateAfter, Promise!VerdictFor, Promise!Silence, Effect
<1> QED
  BY <1>1, <1>2, <1>3, ExchangeMeans

LEMMA NotCarriedIsNotSent ==
    ASSUME IInv, CaseNotCarried
    PROVE  Promise!Next
<1>1. target' = target /\ target.up /\ InSuite /\ ~Carried /\ Judged("inconclusive") /\ Did("none")
  BY DEF CaseNotCarried
<1>2. CampaignTarget = "up" /\ CampaignTarget' = CampaignTarget
  BY <1>1 DEF CampaignTarget
<1>3. Position = Promise!NextCase /\ Promise!NextCase <= Len(Suite)
  BY <1>1, CaseInTurn
<1>4. Promise!NextCase \in Unsendable
  BY <1>1, <1>3, CarriedMeansSendable
<1>5. Promise!Filed("none", "inconclusive")
  BY <1>1, <1>3, Zenon DEF Promise!Filed, Judged, Did
<1>6. Promise!NotSent
  BY <1>2, <1>4, <1>5, Zenon DEF Promise!NotSent, CampaignTarget
<1> QED
  BY <1>6 DEF Promise!Next

LEMMA SilentIsNoAnswer ==
    ASSUME TargetSilent
    PROVE  Promise!Next
<1>1. target' = target /\ ~target.up /\ InSuite /\ Judged("hang") /\ Did("none")
  BY DEF TargetSilent
<1>2. CampaignTarget = "dead" /\ CampaignTarget' = CampaignTarget
  BY <1>1 DEF CampaignTarget
<1>3. Position = Promise!NextCase /\ Promise!NextCase <= Len(Suite)
  BY <1>1, CaseInTurn
<1>4. Promise!Silence("dead") = "hang"
  BY DEF Promise!Silence
<1>5. Promise!Filed("none", Promise!Silence("dead"))
  BY <1>1, <1>3, <1>4, Zenon DEF Promise!Filed, Judged, Did
<1>6. Promise!NoAnswer
  BY <1>2, <1>5, Zenon DEF Promise!NoAnswer, CampaignTarget
<1> QED
  BY <1>6 DEF Promise!Next

\* Runner.run, packet by packet against a target that keeps to the mock's rule or
\* dies of oversized packets: one verdict for each case, in order, the one for
\* what that target did with that packet by its own rule; none is inconclusive but
\* of a packet that no datagram carries.  Wherever its counters start and wrap.
THEOREM SuiteImplementsCampaign == ASSUME ByteMod > 1 PROVE Spec => ImplementsCampaign
<1>1. Init => Promise!Init
  BY DEF Init, Promise!Init
<1>2. IInv /\ [Next]_vars => [Promise!Next]_(Promise!campaignVars)
  <2> SUFFICES ASSUME IInv, [Next]_vars PROVE [Promise!Next]_(Promise!campaignVars)
    OBVIOUS
  <2>1. CASE UNCHANGED suiteVars
    BY <2>1 DEF Promise!campaignVars, suiteVars
  <2>2. CASE CaseCounted
    BY <2>2, ByteMod > 1, CountedIsExchange
  <2>3. CASE CaseKills
    BY <2>3, KilledIsExchange
  <2>4. CASE CaseNotCarried
    BY <2>4, NotCarriedIsNotSent
  <2>5. CASE TargetSilent
    BY <2>5, SilentIsNoAnswer
  <2> QED
    BY <2>1, <2>2, <2>3, <2>4, <2>5 DEF Next, Exit, vars
<1> QED
  BY <1>1, <1>2, IInvIsInvariant, PTL DEF Spec, ImplementsCampaign, Promise!Spec

-----------------------------------------------------------------------------
(***************************************************************************)
(* The packets of the sandbox's helpers.                                   *)
(***************************************************************************)
LEMMA CommandHeaderIsHeader ==
    ASSUME NEW mid
    PROVE  CommandHeader(mid) \in Header /\ Word0(CommandHeader(mid)) = {11, 12} \cup (mid \cap APID_MAX)
<1> DEFINE h == CommandHeader(mid)
<1>1. /\ h.version = {} /\ h.packet_type = {0} /\ h.sec_hdr_flag = {0}
      /\ h.apid = mid \cap APID_MAX
  BY DEF CommandHeader
<1>2. h \in Header
  <2>1. /\ mid \cap APID_MAX \in SUBSET APID_MAX /\ SEQ_FLAGS_UNSEGMENTED \in SUBSET (0 .. 1)
        /\ {} \in SUBSET (0 .. 2) /\ {0} \in SUBSET {0}
        /\ {} \in SUBSET (0 .. 13) /\ {} \in SUBSET (0 .. LengthBits - 1)
    BY DEF SEQ_FLAGS_UNSEGMENTED
  <2> QED
    BY <2>1 DEF CommandHeader, Header
<1> HIDE DEF h
<1>3. Word0(h) = {11, 12} \cup (mid \cap APID_MAX)
  <2>1. Shifted({} \cap 0 .. 2, 13) = {} /\ Shifted({0} \cap {0}, 12) = {12} /\ Shifted({0} \cap {0}, 11) = {11}
    BY DEF Shifted
  <2> QED
    BY <1>1, <2>1 DEF Word0
<1> QED
  BY <1>2, <1>3 DEF h

\* What TO_LAB and CI_LAB look at in a packet of command_packet.
CommandPayload(function, arguments) == <<function, {}>> \o arguments

LEMMA PayloadOfCommand ==
    ASSUME NEW function \in Octet, NEW arguments \in Seq(Octet)
    PROVE  LET payload == CommandPayload(function, arguments)
           IN  /\ payload \in Seq(Octet) /\ Len(payload) = 2 + Len(arguments) /\ Len(arguments) \in Nat
               /\ payload[1] = function
               /\ \A i \in 1 .. Len(arguments) : payload[2 + i] = arguments[i]
<1> DEFINE front == <<function, {}>>
<1>1. front \in Seq(Octet) /\ Len(front) = 2 /\ front[1] = function /\ Len(arguments) \in Nat
  BY LenProperties DEF Octet
<1>2. CommandPayload(function, arguments) = front \o arguments
  BY DEF CommandPayload
<1> HIDE DEF front
<1>3. /\ front \o arguments \in Seq(Octet) /\ Len(front \o arguments) = Len(front) + Len(arguments)
      /\ \A i \in 1 .. Len(front) + Len(arguments) :
            (front \o arguments)[i] = IF i <= Len(front) THEN front[i] ELSE arguments[i - Len(front)]
  BY <1>1, ConcatProperties, Zenon
<1>4. 1 \in 1 .. Len(front) + Len(arguments) /\ 1 <= Len(front)
  BY <1>1
<1>5. (front \o arguments)[1] = function
  BY <1>1, <1>3, <1>4, Zenon
<1>6. ASSUME NEW i \in 1 .. Len(arguments) PROVE (front \o arguments)[2 + i] = arguments[i]
  <2>1. /\ 2 + i \in 1 .. Len(front) + Len(arguments)
        /\ ~(2 + i <= Len(front)) /\ 2 + i - Len(front) = i
    BY <1>1
  <2> QED
    BY <1>3, <2>1
<1> QED
  BY <1>1, <1>2, <1>3, <1>5, <1>6

LEMMA CommandCarries ==
    ASSUME NEW mid, NEW function \in Octet, NEW arguments \in Seq(Octet)
    PROVE  LET data == Command(mid, function, arguments)
           IN  /\ Carries(data, Declaring(CommandHeader(mid), Len(arguments) + 1),
                          CommandPayload(function, arguments))
               /\ WordAt(data, 1) = {11, 12} \cup (mid \cap APID_MAX)
               /\ ChecksumHolds(data)
<1> DEFINE payload == CommandPayload(function, arguments)
           raw == ToBytes(CommandHeader(mid), payload, None)
           data == WithCommandChecksum(raw)
           h == Declaring(CommandHeader(mid), Len(arguments) + 1)
<1>1. payload \in Seq(Octet) /\ Len(payload) = 2 + Len(arguments) /\ Len(arguments) \in Nat
  BY PayloadOfCommand
<1> HIDE DEF payload
<1>2. LengthField(payload) = Len(arguments) + 1
  BY <1>1, EmptySeq DEF LengthField
<1>3. Formed(raw, h, payload) /\ WordAt(raw, 1) = {11, 12} \cup (mid \cap APID_MAX)
  BY <1>1, <1>2, CommandHeaderIsHeader, BuiltIsFormed
<1> HIDE DEF raw, h
<1>4. raw \in Seq(Octet) /\ Len(raw) >= 8 /\ Len(payload) >= 2
  BY <1>1, <1>3, FieldsOfFormed
<1>5. PICK x \in Octet : Formed(data, h, [payload EXCEPT ![2] = x])
  BY <1>3, <1>4, SealedIsFormed
<1>6. data[1] = raw[1] /\ data[2] = raw[2]
  BY <1>4, LenProperties DEF WithCommandChecksum
<1>7. ChecksumHolds(data)
  BY <1>4, SealedHolds
<1> HIDE DEF data
<1>8. Carries(data, h, payload)
  BY <1>1, <1>4, <1>5, ChangedCarries
<1>9. WordAt(data, 1) = {11, 12} \cup (mid \cap APID_MAX)
  BY <1>3, <1>6 DEF WordAt
<1> QED
  BY <1>7, <1>8, <1>9, Zenon DEF Command, CommandPayload, data, raw, payload, h

LEMMA CommandSays ==
    ASSUME NEW mid, NEW function \in Octet, NEW arguments \in Seq(Octet)
    PROVE  LET data == Command(mid, function, arguments)
           IN  /\ data \in Seq(Octet) /\ Len(data) = 8 + Len(arguments)
               /\ Unpack(data).packet_data_length_field = Bits(Len(arguments) + 1, LengthBits)
               /\ data[7] = function
<1> DEFINE data == Command(mid, function, arguments)
           payload == CommandPayload(function, arguments)
           h == Declaring(CommandHeader(mid), Len(arguments) + 1)
<1>1. Carries(data, h, payload)
  BY CommandCarries, Zenon
<1>2. Len(payload) = 2 + Len(arguments) /\ Len(arguments) \in Nat /\ payload[1] = function
  BY PayloadOfCommand
<1>3. h.packet_data_length_field = Bits(Len(arguments) + 1, LengthBits)
  BY CommandHeaderIsHeader DEF Declaring, Header
<1> HIDE DEF data, payload, h
<1>4. data[6 + 1] = payload[1]
  <2>1. 1 \in 1 .. Len(payload) /\ 1 # 2
    BY <1>2
  <2> QED
    BY <1>1, <2>1 DEF Carries
<1>5. data \in Seq(Octet) /\ Len(data) = 8 + Len(arguments) /\ Unpack(data) = h
  BY <1>1, <1>2 DEF Carries
<1> QED
  BY <1>2, <1>3, <1>4, <1>5 DEF data

LEMMA CommandArguments ==
    ASSUME NEW mid, NEW function \in Octet, NEW arguments \in Seq(Octet),
           NEW i \in 1 .. Len(arguments)
    PROVE  Command(mid, function, arguments)[8 + i] = arguments[i]
<1> DEFINE data == Command(mid, function, arguments)
           payload == CommandPayload(function, arguments)
           h == Declaring(CommandHeader(mid), Len(arguments) + 1)
<1>1. Carries(data, h, payload)
  BY CommandCarries, Zenon
<1>2. Len(payload) = 2 + Len(arguments) /\ Len(arguments) \in Nat /\ payload[2 + i] = arguments[i]
  BY PayloadOfCommand
<1> HIDE DEF data, payload, h
<1>3. 2 + i \in 1 .. Len(payload) /\ 6 + (2 + i) = 8 + i /\ 2 + i # 2
  BY <1>2
<1>4. data[8 + i] = payload[2 + i]
  BY <1>1, <1>3 DEF Carries
<1> QED
  BY <1>2, <1>4 DEF data

LEMMA CommandLength ==
    ASSUME NEW mid, NEW function \in Octet, NEW arguments \in Seq(Octet),
           Len(arguments) + 2 <= MAX_PACKET_DATA_LENGTH
    PROVE  LET data == Command(mid, function, arguments)
           IN  Len(data) >= 8 /\ DataLengthIs(Unpack(data), Len(data) - PRIMARY_HEADER_SIZE)
<1> DEFINE data == Command(mid, function, arguments)
           n == Len(arguments) + 1
<1>0. data = Command(mid, function, arguments)
  OBVIOUS
<1> HIDE DEF data
<1>1. Len(data) = 8 + Len(arguments) /\ Unpack(data).packet_data_length_field = Bits(n, LengthBits)
  BY <1>0, CommandSays
<1>2. Len(arguments) \in Nat /\ MAX_PACKET_DATA_LENGTH \in Int
  BY LenProperties, WidthIsNat DEF MAX_PACKET_DATA_LENGTH, PACKET_DATA_LENGTH_MAX
<1>3. /\ Len(data) - PRIMARY_HEADER_SIZE \in 1 .. MAX_PACKET_DATA_LENGTH
      /\ Len(data) - PRIMARY_HEADER_SIZE - 1 = n /\ Len(data) >= 8
  BY <1>1, <1>2 DEF PRIMARY_HEADER_SIZE
<1>4. DataLengthIs(Unpack(data), Len(data) - PRIMARY_HEADER_SIZE)
  BY <1>1, <1>3, Zenon DEF DataLengthIs
<1> QED
  BY <1>3, <1>4 DEF data

\* It is understood by the application of a message ID in the classic form.
LEMMA CommandIsUnderstood ==
    ASSUME NEW mid \in Word, mid \ APID_MAX = {11, 12}, NEW function \in Octet,
           NEW arguments \in Seq(Octet), Len(arguments) + 2 <= MAX_PACKET_DATA_LENGTH
    PROVE  Understood(Command(mid, function, arguments), mid)
<1> DEFINE data == Command(mid, function, arguments)
<1>1. WordAt(data, 1) = {11, 12} \cup (mid \cap APID_MAX)
  BY CommandCarries, Zenon
<1>2. ChecksumHolds(data)
  BY CommandCarries, Zenon
<1>3. Len(data) >= 8 /\ DataLengthIs(Unpack(data), Len(data) - PRIMARY_HEADER_SIZE)
  BY CommandLength, Zenon
<1> HIDE DEF data
<1>4. WordAt(data, 1) = mid
  BY <1>1
<1> QED
  BY <1>2, <1>3, <1>4, Zenon DEF Understood, data

LEMMA HelpersArguments ==
    /\ Padded(HostIp) \in Seq(Octet) /\ Len(Padded(HostIp)) = 16
    /\ \A stream \in Word :
          /\ LittleEndian(stream) \o <<{}, {}, {0}>> \in Seq(Octet)
          /\ Len(LittleEndian(stream) \o <<{}, {}, {0}>>) = 7
          /\ (LittleEndian(stream) \o <<{}, {}, {0}>>)[1] = Low(stream)
          /\ (LittleEndian(stream) \o <<{}, {}, {0}>>)[2] = High(stream)
    /\ {} \in Octet /\ {1} \in Octet /\ {1, 2} \in Octet
<1>1. {} \in Octet /\ {0} \in Octet /\ {1} \in Octet /\ {1, 2} \in Octet
  BY DEF Octet
<1>2. Padded(HostIp) \in Seq(Octet) /\ Len(Padded(HostIp)) = 16
  <2>1. \A k \in 1 .. 16 : (IF k <= Len(HostIp) THEN HostIp[k] ELSE {}) \in Octet
    BY <1>1, HostAssumption, LenProperties, ElementOfSeq
  <2> QED
    BY <2>1 DEF Padded
<1>3. ASSUME NEW stream \in Word
      PROVE  /\ LittleEndian(stream) \o <<{}, {}, {0}>> \in Seq(Octet)
             /\ Len(LittleEndian(stream) \o <<{}, {}, {0}>>) = 7
             /\ (LittleEndian(stream) \o <<{}, {}, {0}>>)[1] = Low(stream)
             /\ (LittleEndian(stream) \o <<{}, {}, {0}>>)[2] = High(stream)
  <2>1. Low(stream) \in Octet /\ High(stream) \in Octet
    BY OctetsOfWord DEF Word
  <2> DEFINE front == <<Low(stream), High(stream), {}, {}>>
             rest == <<{}, {}, {0}>>
  <2>2. /\ front \in Seq(Octet) /\ Len(front) = 4 /\ front[1] = Low(stream) /\ front[2] = High(stream)
        /\ rest \in Seq(Octet) /\ Len(rest) = 3
    BY <1>1, <2>1
  <2> HIDE DEF front, rest
  <2>3. /\ front \o rest \in Seq(Octet) /\ Len(front \o rest) = Len(front) + Len(rest)
        /\ \A i \in 1 .. Len(front) + Len(rest) :
              (front \o rest)[i] = IF i <= Len(front) THEN front[i] ELSE rest[i - Len(front)]
    BY <2>2, ConcatProperties, Zenon
  <2>4. /\ 1 \in 1 .. Len(front) + Len(rest) /\ 1 <= Len(front)
        /\ 2 \in 1 .. Len(front) + Len(rest) /\ 2 <= Len(front)
    BY <2>2
  <2>5. (front \o rest)[1] = Low(stream) /\ (front \o rest)[2] = High(stream)
    BY <2>2, <2>3, <2>4, Zenon
  <2>6. Len(front \o rest) = 7
    BY <2>2, <2>3
  <2> QED
    BY <2>3, <2>5, <2>6 DEF LittleEndian, front, rest
<1> QED
  BY <1>1, <1>2, <1>3

\* The address comes back from the field it was padded to.
LEMMA AddressComesBack ==
    ASSUME NEW mid
    PROVE  AddressIn(SubSeq(BuildEnablePacket(mid, HostIp), 9, 24)) = HostIp
<1> DEFINE data == BuildEnablePacket(mid, HostIp)
           field == SubSeq(data, 9, 24)
           padded == Padded(HostIp)
<1>1. padded \in Seq(Octet) /\ Len(padded) = 16 /\ {1, 2} \in Octet
  BY HelpersArguments
<1>2. data = Command(mid, {1, 2}, padded)
  BY DEF BuildEnablePacket
<1> HIDE DEF data, padded
<1>3. /\ data \in Seq(Octet) /\ Len(data) = 8 + Len(padded)
      /\ \A i \in 1 .. Len(padded) : data[8 + i] = padded[i]
  <2>1. data \in Seq(Octet) /\ Len(data) = 8 + Len(padded)
    BY <1>1, <1>2, CommandSays
  <2>2. ASSUME NEW i \in 1 .. Len(padded) PROVE data[8 + i] = padded[i]
    BY <1>1, <1>2, CommandArguments
  <2> QED
    BY <2>1, <2>2
<1>4. field = padded
  <2>1. \A i \in 9 .. 24 : data[i] \in Octet
    <3> SUFFICES ASSUME NEW i \in 9 .. 24 PROVE data[i] \in Octet
      OBVIOUS
    <3>1. i \in 1 .. Len(data)
      BY <1>1, <1>3
    <3> QED
      BY <1>3, <3>1, ElementOfSeq
  <2>2. /\ field \in Seq(Octet) /\ Len(field) = 16
        /\ \A i \in 1 .. 24 - 9 + 1 : field[i] = data[9 + i - 1]
    BY <2>1, SubSeqProperties
  <2> HIDE DEF field
  <2>3. ASSUME NEW i \in 1 .. 16 PROVE field[i] = padded[i]
    <3>1. i \in 1 .. 24 - 9 + 1 /\ 9 + i - 1 = 8 + i /\ i \in 1 .. Len(padded)
      BY <1>1
    <3> QED
      BY <1>3, <2>2, <3>1
  <2> QED
    BY <1>1, <2>2, <2>3, SeqEqual
<1> DEFINE text == {k \in DOMAIN padded : \A j \in 1 .. k : padded[j] # {}}
<1>5. /\ Len(HostIp) \in 1 .. 15 /\ DOMAIN HostIp = 1 .. Len(HostIp)
      /\ \A k \in 1 .. Len(HostIp) : HostIp[k] # {}
      /\ HostIp = [k \in 1 .. Len(HostIp) |-> HostIp[k]]
  BY HostAssumption, LenProperties
<1>6. DOMAIN padded = 1 .. 16 /\ \A k \in 1 .. 16 : padded[k] = IF k <= Len(HostIp) THEN HostIp[k] ELSE {}
  BY DEF padded, Padded
<1>7. text = 1 .. Len(HostIp)
  <2>1. ASSUME NEW k \in 1 .. 16 PROVE k \in text <=> k <= Len(HostIp)
    <3>1. CASE k <= Len(HostIp)
      <4>1. ASSUME NEW j \in 1 .. k PROVE padded[j] # {}
        <5>1. j \in 1 .. 16 /\ j <= Len(HostIp) /\ j \in 1 .. Len(HostIp)
          BY <1>5, <3>1
        <5> QED
          BY <1>5, <1>6, <5>1
      <4> QED
        BY <1>6, <3>1, <4>1
    <3>2. CASE ~(k <= Len(HostIp))
      BY <1>6, <3>2
    <3> QED
      BY <3>1, <3>2
  <2>2. text \in SUBSET (1 .. 16)
    BY <1>6
  <2>3. \A k \in 1 .. 16 : k <= Len(HostIp) <=> k \in 1 .. Len(HostIp)
    BY <1>5
  <2>4. 1 .. Len(HostIp) \in SUBSET (1 .. 16)
    BY <1>5
  <2> HIDE DEF text
  <2> QED
    BY <2>1, <2>2, <2>3, <2>4
<1>8. AddressIn(padded) = [k \in 1 .. Len(HostIp) |-> padded[k]]
  <2>1. AddressIn(padded) = [k \in text |-> padded[k]]
    BY DEF AddressIn
  <2> HIDE DEF text
  <2> QED
    BY <1>7, <2>1
<1>9. \A k \in 1 .. Len(HostIp) : padded[k] = HostIp[k]
  BY <1>5, <1>6
<1>10. AddressIn(padded) = HostIp
  BY <1>5, <1>8, <1>9
<1> QED
  BY <1>4, <1>10 DEF data

\* What the two packets do to TO_LAB.
LEMMA EnableDoes ==
    ASSUME NEW sends, NEW mid, NEW own
    PROVE  ToLabAfter(sends, own, BuildEnablePacket(mid, HostIp)) =
              IF Understood(BuildEnablePacket(mid, HostIp), own)
              THEN [sends EXCEPT !.to = HostIp] ELSE sends
<1> DEFINE data == BuildEnablePacket(mid, HostIp)
<1>1. data[7] = {1, 2}
  <2>1. data = Command(mid, {1, 2}, Padded(HostIp))
    BY DEF BuildEnablePacket
  <2> QED
    BY <2>1, HelpersArguments, CommandSays
<1>2. AddressIn(SubSeq(data, 9, 24)) = HostIp
  BY AddressComesBack
<1> HIDE DEF data
<1> QED
  BY <1>1, <1>2 DEF ToLabAfter, data

LEMMA AddDoes ==
    ASSUME NEW sends, NEW mid, NEW own, NEW stream \in Word
    PROVE  ToLabAfter(sends, own, BuildAddPacket(mid, stream)) =
              IF Understood(BuildAddPacket(mid, stream), own)
              THEN [sends EXCEPT !.streams = sends.streams \cup {stream}] ELSE sends
<1> DEFINE arguments == LittleEndian(stream) \o <<{}, {}, {0}>>
           data == Command(mid, {1}, arguments)
<1>1. /\ arguments \in Seq(Octet) /\ Len(arguments) = 7 /\ {1} \in Octet
      /\ arguments[1] = Low(stream) /\ arguments[2] = High(stream)
  BY HelpersArguments, Zenon
<1>2. data = Command(mid, {1}, arguments)
  OBVIOUS
<1> HIDE DEF arguments, data
<1>3. data[7] = {1} /\ \A i \in 1 .. Len(arguments) : data[8 + i] = arguments[i]
  <2>1. data[7] = {1}
    BY <1>1, <1>2, CommandSays
  <2>2. ASSUME NEW i \in 1 .. Len(arguments) PROVE data[8 + i] = arguments[i]
    BY <1>1, <1>2, CommandArguments
  <2> QED
    BY <2>1, <2>2
<1>4. data[9] = Low(stream) /\ data[10] = High(stream)
  <2>1. 1 \in 1 .. Len(arguments) /\ 2 \in 1 .. Len(arguments) /\ 8 + 1 = 9 /\ 8 + 2 = 10
    BY <1>1
  <2> QED
    BY <1>1, <1>3, <2>1
<1>5. WordAt(<<data[10], data[9]>>, 1) = stream
  BY <1>4, OctetsOfWord DEF WordAt, Word
<1>6. ToLabAfter(sends, own, data) =
         IF Understood(data, own) THEN [sends EXCEPT !.streams = sends.streams \cup {stream}] ELSE sends
  <2>1. {1} # {1, 2}
    OBVIOUS
  <2> QED
    BY <1>3, <1>5, <2>1 DEF ToLabAfter
<1> QED
  BY <1>6, Zenon DEF BuildAddPacket, data, arguments

-----------------------------------------------------------------------------
(***************************************************************************)
(* The types.                                                              *)
(***************************************************************************)
TelemetryType == [to : {None, HostIp}, streams : SUBSET Word]

\* What TypeOK does not say and its proof needs: a sandbox has a build while it
\* is set up, and the IDs that go into its packets have been resolved.
SetupReady ==
    /\ telemetry \in TelemetryType
    /\ step \in {"resolve", "render", "enable", "hk", "stopped"} => build \in Builds
    /\ step \in {"render", "enable"} => resolved \in Ids

TypeInv == IInv /\ TypeOK /\ SetupReady

LEMMA SuiteLength ==
    /\ Len(Suite) \in Nat /\ DOMAIN Suite = 1 .. Len(Suite)
    /\ Len(Suite) = Cardinality(Selected)
  BY SelectedAreFew DEF Suite, AtPositions

LEMMA TypeInit == Init => TypeInv
<1> SUFFICES ASSUME Init PROVE TypeInv
  OBVIOUS
<1>1. IInv
  BY InitOK
<1>2. /\ \/ step = "resolve" /\ build \in Builds /\ config = None
         \/ step = "suite" /\ build = None /\ config \in Configs
      /\ resolved = None /\ telemetry = [to |-> None, streams |-> {}] /\ mishaps = {}
      /\ findings = <<>> /\ deeds = <<>>
  BY DEF Init, SetupInit
<1>3. Configs \subseteq Config
  BY ConfigsAssumption DEF Config
<1>4. telemetry \in TelemetryType
  BY <1>2 DEF TelemetryType
<1>5. SetupTypeOK
  BY <1>2, <1>3, <1>4, NoneAssumption DEF SetupTypeOK, TelemetryType
<1>6. /\ findings \in Seq(Verdict) /\ Len(findings) = 0
      /\ deeds \in Seq(Effect \cup {"none"}) /\ Len(deeds) = 0
  BY <1>2, EmptySeq
<1>7. TypeOK
  BY <1>1, <1>2, <1>5, <1>6, SuiteLength DEF TypeOK, IInv, TargetType
<1> QED
  BY <1>1, <1>2, <1>4, <1>7 DEF TypeInv, SetupReady

LEMMA WantedIds ==
    ASSUME NEW ids \in Ids
    PROVE  /\ ids["CI_LAB_CMD_MID"] \in Word /\ ids["CI_LAB_SEND_HK_MID"] \in Word
           /\ ids["CI_LAB_HK_TLM_MID"] \in Word /\ ids["CI_LAB_CMD_UDP_PORT"] \in Word
           /\ ids["TO_LAB_CMD_MID"] \in Word /\ ids["TO_LAB_TLM_PORT"] \in Word
  BY DEF Ids, WantedDefines

LEMMA TelemetryStaysTyped ==
    ASSUME TypeInv, EnableToLab
    PROVE  telemetry' \in TelemetryType
<1>1. resolved \in Ids /\ telemetry \in TelemetryType
  BY DEF TypeInv, SetupReady, EnableToLab
<1> DEFINE mid == resolved["TO_LAB_CMD_MID"]
           stream == resolved["CI_LAB_HK_TLM_MID"]
           enabled == AfterPacket(telemetry, "enable", BuildEnablePacket(mid, HostIp))
<1>2. stream \in Word
  BY <1>1, WantedIds
<1>3. telemetry' = AfterPacket(enabled, "add", BuildAddPacket(mid, stream))
  BY DEF EnableToLab
<1>4. \A sends \in TelemetryType :
         [sends EXCEPT !.to = HostIp] \in TelemetryType
           /\ [sends EXCEPT !.streams = sends.streams \cup {stream}] \in TelemetryType
  BY <1>2 DEF TelemetryType
<1>5. enabled \in TelemetryType
  BY <1>1, <1>4, EnableDoes, Zenon DEF AfterPacket
<1> HIDE DEF enabled
<1>6. telemetry' \in TelemetryType
  BY <1>2, <1>3, <1>4, <1>5, AddDoes, Zenon DEF AfterPacket
<1> QED
  BY <1>6

LEMMA TypeSetup ==
    ASSUME TypeInv, SetupNext, UNCHANGED suiteVars
    PROVE  TypeInv'
<1> USE DEF Goto
<1>1. IInv'
  BY SetupStepOK DEF TypeInv
<1>2. target' = target /\ findings' = findings /\ deeds' = deeds
  BY DEF suiteVars
<1>3. /\ step \in {"resolve", "render", "enable", "hk"}
      /\ step' \in {"render", "enable", "hk", "suite", "stopped"} /\ build' = build
  BY DEF SetupNext, Resolve, Render, EnableToLab, AwaitHk, HkTimesOut, CommandFails
<1>4. /\ build \in Builds /\ telemetry \in TelemetryType
      /\ resolved \in PartialIds \cup {None} /\ config \in Config \cup {None}
      /\ mishaps \subseteq {"enable", "add", "hk", "command"}
      /\ step \in {"render", "enable"} => resolved \in Ids
      /\ step \in {"enable", "hk"} => config # None
  BY <1>3 DEF TypeInv, TypeOK, SetupTypeOK, SetupReady
<1>5. /\ resolved' \in PartialIds \cup {None}
      /\ step' \in {"render", "enable"} => resolved' \in Ids
  <2>1. CASE Resolve
    <3> DEFINE found == FindResolvedDefines(build.exported)
    <3>1. step' \in {"render", "stopped"}
      BY <2>1 DEF Resolve
    <3>2. CASE found = Unreadable
      BY <1>4, <2>1, <3>2 DEF Resolve
    <3>3. CASE found # Unreadable
      <4>1. resolved' = found /\ (step' = "render" <=> AllResolved(found))
        BY <2>1, <3>3 DEF Resolve
      <4>2. found \in PartialIds
        <5>1. NothingFound \in PartialIds
          BY DEF NothingFound, PartialIds
        <5>2. found = IF build.exported = <<>> THEN NothingFound ELSE Head(build.exported)
          BY DEF FindResolvedDefines
        <5> QED
          BY <1>4, <3>3, <5>1, <5>2, BuildsAssumption
      <4>3. AllResolved(found) => found \in Ids
        BY <4>2 DEF AllResolved, PartialIds, Ids
      <4> QED
        BY <3>1, <4>1, <4>2, <4>3
    <3> QED
      BY <3>2, <3>3
  <2>2. CASE Render
    BY <1>4, <2>2 DEF Render
  <2>3. CASE EnableToLab \/ AwaitHk \/ HkTimesOut \/ CommandFails
    BY <1>4, <2>3 DEF EnableToLab, AwaitHk, HkTimesOut, CommandFails
  <2> QED
    BY <2>1, <2>2, <2>3 DEF SetupNext
<1>6. /\ config' \in Config \cup {None}
      /\ step' \in {"enable", "hk", "suite", "exit", "passed"} => config' # None
  <2>1. CASE Resolve
    BY <1>4, <2>1 DEF Resolve
  <2>2. CASE Render
    <3>1. resolved \in Ids
      BY <1>4, <2>2 DEF Render
    <3>2. BuildHkRequest(resolved["CI_LAB_SEND_HK_MID"]) \in Seq(Octet)
      <4>1. {} \in Octet /\ <<>> \in Seq(Octet)
        BY EmptySeq DEF Octet
      <4> QED
        BY <4>1, CommandSays, Zenon DEF BuildHkRequest
    <3>3. config' \in [target_apid : SUBSET APID_MAX, allowed_reply_apid : SUBSET APID_MAX,
                       allowed_reply_host : {AllowedReplyHost},
                       port : Word, listen_port : Word, hk_request : Seq(Octet)]
      <4>1. /\ resolved["CI_LAB_CMD_MID"] \cap APID_MAX \in SUBSET APID_MAX
            /\ resolved["CI_LAB_HK_TLM_MID"] \cap APID_MAX \in SUBSET APID_MAX
            /\ resolved["CI_LAB_CMD_UDP_PORT"] \in Word /\ resolved["TO_LAB_TLM_PORT"] \in Word
        BY <3>1, WantedIds
      <4> QED
        BY <2>2, <3>2, <4>1 DEF Render
    <3>4. config' \in Config
      BY <3>3 DEF Config
    <3> QED
      BY <3>4, NoneAssumption
  <2>3. CASE EnableToLab \/ AwaitHk \/ HkTimesOut \/ CommandFails
    BY <1>4, <2>3 DEF EnableToLab, AwaitHk, HkTimesOut, CommandFails
  <2> QED
    BY <2>1, <2>2, <2>3 DEF SetupNext
<1>7. telemetry' \in TelemetryType
  BY <1>4, TelemetryStaysTyped DEF SetupNext, Resolve, Render, AwaitHk, HkTimesOut, CommandFails
<1>8. mishaps' \subseteq {"enable", "add", "hk", "command"}
  BY <1>4 DEF SetupNext, Resolve, Render, EnableToLab, AwaitHk, HkTimesOut, CommandFails
<1>9. SetupTypeOK'
  BY <1>3, <1>4, <1>5, <1>6, <1>7, <1>8 DEF SetupTypeOK, TelemetryType
<1>10. TypeOK'
  BY <1>2, <1>3, <1>9 DEF TypeInv, TypeOK
<1>11. SetupReady'
  BY <1>3, <1>4, <1>5, <1>7 DEF SetupReady
<1> QED
  BY <1>1, <1>10, <1>11 DEF TypeInv

LEMMA TypeSuite ==
    ASSUME TypeInv, CaseCounted \/ CaseKills \/ CaseNotCarried \/ TargetSilent
    PROVE  TypeInv'
<1>1. IInv'
  BY SuiteStepOK DEF TypeInv
<1>2. PICK verdict : Judged(verdict)
  BY DEF CaseCounted, CaseKills, CaseNotCarried, TargetSilent
<1>3. PICK deed \in Effect \cup {"none"} : deeds' = Append(deeds, deed)
  BY DEF CaseCounted, CaseKills, CaseNotCarried, TargetSilent, Did, DeedOn, Effect
<1>4. /\ InSuite /\ findings' = Append(findings, verdict)
      /\ step = "suite" /\ step' = IF Position = Len(Suite) THEN "exit" ELSE "suite"
      /\ build' = build /\ resolved' = resolved /\ config' = config
      /\ telemetry' = telemetry /\ mishaps' = mishaps
  BY <1>2 DEF Judged, Goto, InSuite, CaseCounted, CaseKills, CaseNotCarried, TargetSilent
<1>5. findings \in Seq(Verdict) /\ findings' \in Seq(Verdict)
  BY <1>1 DEF IInv, ControlReached, TypeInv
<1>6. Len(findings') = Position /\ Position \in 1 .. Len(Suite) /\ findings' # <<>>
  <2>1. Len(findings) \in Nat /\ Len(findings') = Len(findings) + 1
    BY <1>4, <1>5, LenProperties
  <2> QED
    BY <1>4, <1>5, <2>1, SuiteLength, EmptySeq DEF Position, InSuite
<1>7. SetupTypeOK'
  BY <1>4 DEF TypeInv, TypeOK, SetupTypeOK
<1>8. deeds' \in Seq(Effect \cup {"none"}) /\ Len(deeds') = Position
  BY <1>3, AppendProperties DEF TypeInv, TypeOK, Position
<1>9. TypeOK'
  BY <1>1, <1>4, <1>5, <1>6, <1>7, <1>8, SuiteLength DEF TypeOK, IInv, TargetType
<1> QED
  BY <1>1, <1>4, <1>6, <1>9 DEF TypeInv, SetupReady

LEMMA TypeExit ==
    ASSUME TypeInv, Exit
    PROVE  TypeInv'
<1>1. IInv'
  BY ExitOK DEF TypeInv
<1>2. /\ step \in {"suite", "exit"} /\ step' \in {"passed", "failed"}
      /\ Len(findings) = Len(Suite)
      /\ UNCHANGED <<build, resolved, config, telemetry, mishaps, target, findings, deeds>>
  BY DEF Exit, Goto, suiteVars
<1> QED
  BY <1>1, <1>2 DEF TypeInv, TypeOK, SetupTypeOK, SetupReady

LEMMA TypeStep == ASSUME TypeInv, [Next]_vars PROVE TypeInv'
<1>1. CASE SetupNext /\ UNCHANGED suiteVars
  BY <1>1, TypeSetup
<1>2. CASE CaseCounted \/ CaseKills \/ CaseNotCarried \/ TargetSilent
  BY <1>2, TypeSuite
<1>3. CASE Exit
  BY <1>3, TypeExit
<1>4. CASE UNCHANGED vars
  <2>1. IInv'
    BY <1>4, StutterOK DEF TypeInv
  <2> QED
    BY <1>4, <2>1 DEF TypeInv, TypeOK, SetupTypeOK, SetupReady, vars, setupVars, suiteVars
<1> QED
  BY <1>1, <1>2, <1>3, <1>4 DEF Next

\* SuiteRun keeps its types, for every configuration, every build and whatever
\* cases are selected: in particular there is one verdict for each case at exit.
THEOREM SuiteTypesAreRight == Spec => []TypeOK
<1>1. TypeInv /\ [Next]_vars => TypeInv'
  BY TypeStep
<1>2. TypeInv => TypeOK
  BY DEF TypeInv
<1> QED
  BY <1>1, <1>2, TypeInit, PTL DEF Spec

-----------------------------------------------------------------------------
(***************************************************************************)
(* The way to the suite.                                                   *)
(***************************************************************************)
GoodBuild ==
    /\ build # None /\ build.exported = <<build.ids>>
    /\ Classic(build.ids)
    /\ build.ids["CI_LAB_CMD_UDP_PORT"] = PublishedPort
    /\ build.hk_source = AllowedReplyHost /\ ~(build.hk_length < HkCountersEnd)

\* What each step of the set-up of such a build has achieved.
SetUp ==
    GoodBuild =>
       /\ step \in {"render", "enable", "hk"} => resolved = build.ids
       /\ step \in {"enable", "hk"} =>
             /\ config.port = build.ids["CI_LAB_CMD_UDP_PORT"]
             /\ config.allowed_reply_apid = build.ids["CI_LAB_HK_TLM_MID"] \cap APID_MAX
             /\ config.allowed_reply_host = AllowedReplyHost
             /\ config.hk_request = BuildHkRequest(build.ids["CI_LAB_SEND_HK_MID"])
       /\ step = "hk" /\ mishaps = {} =>
             telemetry.to = HostIp /\ build.ids["CI_LAB_HK_TLM_MID"] \in telemetry.streams
       /\ step = "stopped" => mishaps # {}

ReachInv == TypeInv /\ SetUp

LEMMA RoomForCommands == ASSUME LengthBits >= 5 PROVE MAX_PACKET_DATA_LENGTH >= 32
<1>1. LengthBits \in 0 .. 16 /\ LengthBits \in 5 .. 16
  BY LengthAssumption
<1>2. 2^LengthBits = Weight[LengthBits + 1]
  BY <1>1, WeightsArePowers, Zenon
<1>3. \A w \in 5 .. 16 : Weight[w + 1] \in Int /\ Weight[w + 1] >= 32
  BY DEF Weight
<1>4. 2^LengthBits \in Int /\ 2^LengthBits >= 32
  BY <1>1, <1>2, <1>3
<1> QED
  BY <1>4 DEF MAX_PACKET_DATA_LENGTH, PACKET_DATA_LENGTH_MAX

\* What the helpers build, the applications of a classic build understand.
LEMMA HelpersAreUnderstood ==
    ASSUME LengthBits >= 5, NEW ids \in Ids, Classic(ids), NEW stream \in Word
    PROVE  /\ Understood(BuildHkRequest(ids["CI_LAB_SEND_HK_MID"]), ids["CI_LAB_SEND_HK_MID"])
           /\ Understood(BuildEnablePacket(ids["TO_LAB_CMD_MID"], HostIp), ids["TO_LAB_CMD_MID"])
           /\ Understood(BuildAddPacket(ids["TO_LAB_CMD_MID"], stream), ids["TO_LAB_CMD_MID"])
<1> DEFINE hk == ids["CI_LAB_SEND_HK_MID"]
           to == ids["TO_LAB_CMD_MID"]
<1>1. hk \in Word /\ to \in Word /\ hk \ APID_MAX = {11, 12} /\ to \ APID_MAX = {11, 12}
  BY WantedIds DEF Classic
<1> HIDE DEF hk, to
<1>2. Understood(BuildHkRequest(hk), hk)
  <2>1. {} \in Octet /\ <<>> \in Seq(Octet) /\ Len(<<>>) + 2 <= MAX_PACKET_DATA_LENGTH
    BY RoomForCommands, EmptySeq, HelpersArguments, WidthIsNat DEF MAX_PACKET_DATA_LENGTH, PACKET_DATA_LENGTH_MAX
  <2> QED
    BY <1>1, <2>1, CommandIsUnderstood, Zenon DEF BuildHkRequest
<1>3. Understood(BuildEnablePacket(to, HostIp), to)
  <2> DEFINE padded == Padded(HostIp)
  <2>1. padded \in Seq(Octet) /\ Len(padded) = 16 /\ {1, 2} \in Octet
    BY HelpersArguments
  <2> HIDE DEF padded
  <2>2. Len(padded) + 2 <= MAX_PACKET_DATA_LENGTH
    BY <2>1, RoomForCommands, WidthIsNat DEF MAX_PACKET_DATA_LENGTH, PACKET_DATA_LENGTH_MAX
  <2> QED
    BY <1>1, <2>1, <2>2, CommandIsUnderstood, Zenon DEF BuildEnablePacket, padded
<1>4. Understood(BuildAddPacket(to, stream), to)
  <2> DEFINE arguments == LittleEndian(stream) \o <<{}, {}, {0}>>
  <2>1. arguments \in Seq(Octet) /\ Len(arguments) = 7 /\ {1} \in Octet
    BY HelpersArguments, Zenon
  <2> HIDE DEF arguments
  <2>2. Len(arguments) + 2 <= MAX_PACKET_DATA_LENGTH
    BY <2>1, RoomForCommands, WidthIsNat DEF MAX_PACKET_DATA_LENGTH, PACKET_DATA_LENGTH_MAX
  <2> QED
    BY <1>1, <2>1, <2>2, CommandIsUnderstood, Zenon DEF BuildAddPacket, arguments
<1> QED
  BY <1>2, <1>3, <1>4, Zenon DEF hk, to

LEMMA CompleteExportIsFound ==
    ASSUME TypeInv, build \in Builds, GoodBuild, Resolve
    PROVE  step' = "render" /\ resolved' = build.ids
<1> DEFINE found == FindResolvedDefines(build.exported)
<1>1. build.ids \in Ids
  BY BuildsAssumption
<1>2. found = build.ids
  BY DEF FindResolvedDefines, GoodBuild
<1> HIDE DEF found
<1>3. found # Unreadable
  <2>1. DOMAIN found = WantedDefines
    BY <1>1, <1>2 DEF Ids
  <2>2. DOMAIN Unreadable = {"unreadable"}
    BY DEF Unreadable
  <2>3. "unreadable" \notin WantedDefines
    BY DEF WantedDefines
  <2> QED
    BY <2>1, <2>2, <2>3
<1>4. AllResolved(found)
  BY <1>1, <1>2, NoneAssumption DEF AllResolved, Ids
<1> QED
  BY <1>2, <1>3, <1>4 DEF Resolve, Goto, found

LEMMA TelemetryIsEnabled ==
    ASSUME LengthBits >= 5, TypeInv, SetUp, build \in Builds, GoodBuild, EnableToLab, mishaps' = {}
    PROVE  telemetry'.to = HostIp /\ build.ids["CI_LAB_HK_TLM_MID"] \in telemetry'.streams
<1>1. resolved = build.ids /\ build.ids \in Ids /\ telemetry \in TelemetryType
  BY BuildsAssumption DEF SetUp, EnableToLab, TypeInv, SetupReady
<1> DEFINE mid == build.ids["TO_LAB_CMD_MID"]
           stream == build.ids["CI_LAB_HK_TLM_MID"]
           enabled == AfterPacket(telemetry, "enable", BuildEnablePacket(mid, HostIp))
<1>2. stream \in Word
  BY <1>1, WantedIds
<1>3. telemetry' = AfterPacket(enabled, "add", BuildAddPacket(mid, stream))
  BY <1>1 DEF EnableToLab
<1>4. Arrives(resolved["CI_LAB_CMD_UDP_PORT"])
  BY <1>1 DEF Arrives, GoodBuild
<1>5. Understood(BuildEnablePacket(mid, HostIp), mid) /\ Understood(BuildAddPacket(mid, stream), mid)
  BY <1>1, <1>2, HelpersAreUnderstood, Zenon DEF GoodBuild
<1>6. enabled = [telemetry EXCEPT !.to = HostIp]
  <2>1. enabled = ToLabAfter(telemetry, mid, BuildEnablePacket(mid, HostIp))
    BY <1>4 DEF AfterPacket
  <2> QED
    BY <1>5, <2>1, EnableDoes, Zenon
<1> HIDE DEF enabled
<1>7. telemetry' = [enabled EXCEPT !.streams = enabled.streams \cup {stream}]
  <2>1. telemetry' = ToLabAfter(enabled, mid, BuildAddPacket(mid, stream))
    BY <1>3, <1>4 DEF AfterPacket
  <2> QED
    BY <1>2, <1>5, <2>1, AddDoes, Zenon
<1> QED
  BY <1>1, <1>6, <1>7 DEF TelemetryType

LEMMA HkComes ==
    ASSUME LengthBits >= 5, TypeInv, SetUp, build \in Builds, GoodBuild, step = "hk", mishaps = {}
    PROVE  HkTelemetryComes
<1>1. /\ build.ids \in Ids
      /\ config.port = build.ids["CI_LAB_CMD_UDP_PORT"]
      /\ config.allowed_reply_apid = build.ids["CI_LAB_HK_TLM_MID"] \cap APID_MAX
      /\ config.allowed_reply_host = AllowedReplyHost
      /\ config.hk_request = BuildHkRequest(build.ids["CI_LAB_SEND_HK_MID"])
      /\ telemetry.to = HostIp /\ build.ids["CI_LAB_HK_TLM_MID"] \in telemetry.streams
  BY BuildsAssumption DEF SetUp
<1>2. build.ids["CI_LAB_HK_TLM_MID"] \in Word
  BY <1>1, WantedIds
<1>3. Understood(config.hk_request, build.ids["CI_LAB_SEND_HK_MID"])
  BY <1>1, <1>2, HelpersAreUnderstood, Zenon DEF GoodBuild
<1>4. Arrives(config.port)
  BY <1>1 DEF Arrives, GoodBuild
<1>5. HkReplyAccepted(build.hk_source, build.hk_length, build.ids["CI_LAB_HK_TLM_MID"])
  <2>1. build.hk_length >= PRIMARY_HEADER_SIZE
    <3>1. build.hk_length \in Nat /\ ~(build.hk_length < 28)
      BY BuildsAssumption DEF GoodBuild, HkCountersEnd
    <3> QED
      BY <3>1 DEF PRIMARY_HEADER_SIZE
  <2> QED
    BY <1>1, <2>1, Zenon DEF HkReplyAccepted, GoodBuild
<1> QED
  BY <1>1, <1>3, <1>4, <1>5, Zenon DEF HkTelemetryComes

LEMMA SetUpSetup ==
    ASSUME LengthBits >= 5, ReachInv, SetupNext, UNCHANGED suiteVars
    PROVE  SetUp'
<1> USE DEF Goto
<1> SUFFICES ASSUME GoodBuild' PROVE SetUp'
  BY DEF SetUp
<1>1. /\ step \in {"resolve", "render", "enable", "hk"} /\ build' = build
  BY DEF SetupNext, Resolve, Render, EnableToLab, AwaitHk, HkTimesOut, CommandFails
<1>2. TypeInv /\ SetUp /\ GoodBuild /\ build \in Builds
  BY <1>1 DEF ReachInv, TypeInv, SetupReady, GoodBuild
<1>3. CASE Resolve
  BY <1>1, <1>2, <1>3, CompleteExportIsFound DEF SetUp
<1>4. CASE Render
  <2>1. step' = "enable" /\ resolved' = resolved /\ resolved = build.ids
    BY <1>2, <1>4 DEF Render, SetUp
  <2>2. /\ config'.port = build.ids["CI_LAB_CMD_UDP_PORT"]
        /\ config'.allowed_reply_apid = build.ids["CI_LAB_HK_TLM_MID"] \cap APID_MAX
        /\ config'.allowed_reply_host = AllowedReplyHost
        /\ config'.hk_request = BuildHkRequest(build.ids["CI_LAB_SEND_HK_MID"])
    BY <1>4, <2>1 DEF Render
  <2> QED
    BY <1>1, <2>1, <2>2 DEF SetUp
<1>5. CASE EnableToLab
  <2>1. step' = "hk" /\ resolved' = resolved /\ config' = config /\ step = "enable"
    BY <1>5 DEF EnableToLab
  <2> QED
    BY <1>1, <1>2, <1>5, <2>1, TelemetryIsEnabled DEF SetUp
<1>6. CASE AwaitHk
  BY <1>1, <1>2, <1>6 DEF AwaitHk, SetUp, GoodBuild
<1>7. CASE HkTimesOut
  <2>1. step = "hk" /\ step' = "stopped"
        /\ mishaps' = IF HkTelemetryComes THEN mishaps \cup {"hk"} ELSE mishaps
    BY <1>7 DEF HkTimesOut
  <2>2. mishaps' # {}
    BY <1>2, <2>1, HkComes
  <2> QED
    BY <2>1, <2>2 DEF SetUp
<1>8. CASE CommandFails
  BY <1>8 DEF CommandFails, SetUp
<1> QED
  BY <1>3, <1>4, <1>5, <1>6, <1>7, <1>8 DEF SetupNext

\* Of a flight software with classic message IDs on the published port, whose
\* export is complete and whose housekeeping telemetry is long enough and comes from
\* the address the script rendered, run-cfs-docker.sh gets to the suite unless a
\* packet of its own was lost or one of its commands failed.
THEOREM GoodBuildIsReached == ASSUME LengthBits >= 5 PROVE Spec => []GoodBuildReachesSuite
<1>1. Init => ReachInv
  <2> SUFFICES ASSUME Init PROVE ReachInv
    OBVIOUS
  <2>1. step \in {"resolve", "suite"}
    BY DEF Init, SetupInit
  <2> QED
    BY <2>1, TypeInit DEF ReachInv, SetUp
<1>2. ReachInv /\ [Next]_vars => ReachInv'
  <2> SUFFICES ASSUME ReachInv, [Next]_vars PROVE ReachInv'
    OBVIOUS
  <2>1. TypeInv'
    BY TypeStep DEF ReachInv
  <2>2. CASE SetupNext /\ UNCHANGED suiteVars
    BY <2>1, <2>2, SetUpSetup DEF ReachInv
  <2>3. CASE CaseCounted \/ CaseKills \/ CaseNotCarried \/ TargetSilent
    <3>1. PICK verdict : Judged(verdict)
      BY <2>3 DEF CaseCounted, CaseKills, CaseNotCarried, TargetSilent
    <3>2. step' \in {"suite", "exit"}
      BY <3>1 DEF Judged, Goto
    <3> QED
      BY <2>1, <3>2 DEF ReachInv, SetUp
  <2>4. CASE Exit
    <3>1. step' \in {"passed", "failed"}
      BY <2>4 DEF Exit, Goto
    <3> QED
      BY <2>1, <3>1 DEF ReachInv, SetUp
  <2>5. CASE UNCHANGED vars
    BY <2>1, <2>5 DEF ReachInv, SetUp, GoodBuild, vars, setupVars, suiteVars
  <2> QED
    BY <2>2, <2>3, <2>4, <2>5 DEF Next
<1>3. ReachInv => GoodBuildReachesSuite
  BY BuildsAssumption DEF ReachInv, TypeInv, SetupReady, SetUp, GoodBuild, GoodBuildReachesSuite
<1> QED
  BY <1>1, <1>2, <1>3, PTL DEF Spec

-----------------------------------------------------------------------------
(***************************************************************************)
(* The cases in their order.                                               *)
(***************************************************************************)
\* The elements of all after the first m are those of t, n of them.
After(all, m, t, n) == \A i \in 1 .. n : all[m + i] = t[i]

LEMMA Joined ==
    ASSUME NEW S, NEW s \in Seq(S), NEW t \in Seq(S), NEW m, m = Len(s), NEW n, n = Len(t)
    PROVE  /\ s \o t \in Seq(S) /\ Len(s \o t) = m + n
           /\ After(s \o t, 0, s, m) /\ After(s \o t, m, t, n)
<1> DEFINE all == s \o t
<1>1. m \in Nat /\ n \in Nat
  BY LenProperties
<1>2. /\ all \in Seq(S) /\ Len(all) = m + n
      /\ \A i \in 1 .. m + n : all[i] = IF i <= m THEN s[i] ELSE t[i - m]
  BY ConcatProperties, Zenon
<1> HIDE DEF all
<1>3. ASSUME NEW i \in 1 .. m PROVE all[0 + i] = s[i]
  <2>1. i \in 1 .. m + n /\ i <= m /\ 0 + i = i
    BY <1>1
  <2> QED
    BY <1>2, <2>1
<1>4. ASSUME NEW i \in 1 .. n PROVE all[m + i] = t[i]
  <2>1. m + i \in 1 .. m + n /\ ~(m + i <= m) /\ (m + i) - m = i
    BY <1>1
  <2> QED
    BY <1>2, <2>1
<1> QED
  BY <1>2, <1>3, <1>4, Zenon DEF After, all

LEMMA StillAfter ==
    ASSUME NEW s, NEW t, NEW all, NEW m \in Nat, NEW n \in Nat, NEW p \in Nat, m + n <= p,
           After(s, m, t, n), After(all, 0, s, p)
    PROVE  After(all, m, t, n)
<1> SUFFICES ASSUME NEW i \in 1 .. n PROVE all[m + i] = t[i]
  BY DEF After
<1>1. m + i \in 1 .. p /\ 0 + (m + i) = m + i
  OBVIOUS
<1>2. all[0 + (m + i)] = s[m + i]
  BY <1>1, Zenon DEF After
<1>3. s[m + i] = t[i]
  BY Zenon DEF After
<1> QED
  BY <1>1, <1>2, <1>3

LEMMA BuilderLengths ==
    \E S : /\ BuildKnownGoodNoopCase \in Seq(S) /\ Len(BuildKnownGoodNoopCase) = 1
           /\ BuildCommandMalformedCases \in Seq(S) /\ Len(BuildCommandMalformedCases) = 3
           /\ BuildVersionCases \in Seq(S) /\ Len(BuildVersionCases) = 7
           /\ BuildApidCases \in Seq(S) /\ Len(BuildApidCases) = 3
           /\ BuildSeqFlagsCases \in Seq(S) /\ Len(BuildSeqFlagsCases) = 4
           /\ BuildPacketLengthCases \in Seq(S) /\ Len(BuildPacketLengthCases) = 4
           /\ BuildSecondaryHeaderFlagCases \in Seq(S) /\ Len(BuildSecondaryHeaderFlagCases) = 2
           /\ BuildTruncationCases \in Seq(S) /\ Len(BuildTruncationCases) = 6
           /\ BuildOversizedCases \in Seq(S) /\ Len(BuildOversizedCases) = 3
           /\ BuildDegeneratePayloadCases \in Seq(S) /\ Len(BuildDegeneratePayloadCases) = 3
<1> DEFINE S == {BuildKnownGoodNoopCase[i] : i \in 1 .. 1}
                  \cup {BuildCommandMalformedCases[i] : i \in 1 .. 3}
                  \cup {BuildVersionCases[i] : i \in 1 .. 7}
                  \cup {BuildApidCases[i] : i \in 1 .. 3}
                  \cup {BuildSeqFlagsCases[i] : i \in 1 .. 4}
                  \cup {BuildPacketLengthCases[i] : i \in 1 .. 4}
                  \cup {BuildSecondaryHeaderFlagCases[i] : i \in 1 .. 2}
                  \cup {BuildTruncationCases[i] : i \in 1 .. 6}
                  \cup {BuildOversizedCases[i] : i \in 1 .. 3}
                  \cup {BuildDegeneratePayloadCases[i] : i \in 1 .. 3}
<1>1. ASSUME NEW n \in Nat, NEW s, s = [i \in 1 .. n |-> s[i]], \A i \in 1 .. n : s[i] \in S
      PROVE  s \in Seq(S) /\ Len(s) = n
  <2>1. s \in [1 .. n -> S]
    BY <1>1
  <2> QED
    BY <1>1, <2>1, SeqDef, LenProperties
<1>2. /\ \A i \in 1 .. 1 : BuildKnownGoodNoopCase[i] \in S
      /\ \A i \in 1 .. 3 : BuildCommandMalformedCases[i] \in S
      /\ \A i \in 1 .. 7 : BuildVersionCases[i] \in S
      /\ \A i \in 1 .. 3 : BuildApidCases[i] \in S
      /\ \A i \in 1 .. 4 : BuildSeqFlagsCases[i] \in S
      /\ \A i \in 1 .. 4 : BuildPacketLengthCases[i] \in S
      /\ \A i \in 1 .. 2 : BuildSecondaryHeaderFlagCases[i] \in S
      /\ \A i \in 1 .. 6 : BuildTruncationCases[i] \in S
      /\ \A i \in 1 .. 3 : BuildOversizedCases[i] \in S
      /\ \A i \in 1 .. 3 : BuildDegeneratePayloadCases[i] \in S
  OBVIOUS
<1>3. /\ BuildKnownGoodNoopCase = [i \in 1 .. 1 |-> BuildKnownGoodNoopCase[i]]
      /\ BuildCommandMalformedCases = [i \in 1 .. 3 |-> BuildCommandMalformedCases[i]]
  BY DEF BuildKnownGoodNoopCase, BuildCommandMalformedCases
<1>4. /\ BuildVersionCases = [i \in 1 .. 7 |-> BuildVersionCases[i]]
      /\ BuildApidCases = [i \in 1 .. 3 |-> BuildApidCases[i]]
      /\ BuildSeqFlagsCases = [i \in 1 .. 4 |-> BuildSeqFlagsCases[i]]
      /\ BuildPacketLengthCases = [i \in 1 .. 4 |-> BuildPacketLengthCases[i]]
  BY DEF BuildVersionCases, BuildApidCases, BuildSeqFlagsCases, BuildPacketLengthCases
<1>5. /\ BuildSecondaryHeaderFlagCases = [i \in 1 .. 2 |-> BuildSecondaryHeaderFlagCases[i]]
      /\ BuildTruncationCases = [i \in 1 .. 6 |-> BuildTruncationCases[i]]
  BY DEF BuildSecondaryHeaderFlagCases, BuildTruncationCases, PRIMARY_HEADER_SIZE
<1>6. /\ BuildOversizedCases = [i \in 1 .. 3 |-> BuildOversizedCases[i]]
      /\ BuildDegeneratePayloadCases = [i \in 1 .. 3 |-> BuildDegeneratePayloadCases[i]]
  BY DEF BuildOversizedCases, BuildDegeneratePayloadCases
<1> HIDE DEF S
<1>7. BuildKnownGoodNoopCase \in Seq(S) /\ Len(BuildKnownGoodNoopCase) = 1
  BY <1>1, <1>2, <1>3
<1>8. BuildCommandMalformedCases \in Seq(S) /\ Len(BuildCommandMalformedCases) = 3
  BY <1>1, <1>2, <1>3
<1>9. BuildVersionCases \in Seq(S) /\ Len(BuildVersionCases) = 7
  BY <1>1, <1>2, <1>4
<1>10. BuildApidCases \in Seq(S) /\ Len(BuildApidCases) = 3
  BY <1>1, <1>2, <1>4
<1>11. BuildSeqFlagsCases \in Seq(S) /\ Len(BuildSeqFlagsCases) = 4
  BY <1>1, <1>2, <1>4
<1>12. BuildPacketLengthCases \in Seq(S) /\ Len(BuildPacketLengthCases) = 4
  BY <1>1, <1>2, <1>4
<1>13. BuildSecondaryHeaderFlagCases \in Seq(S) /\ Len(BuildSecondaryHeaderFlagCases) = 2
  BY <1>1, <1>2, <1>5
<1>14. BuildTruncationCases \in Seq(S) /\ Len(BuildTruncationCases) = 6
  BY <1>1, <1>2, <1>5
<1>15. BuildOversizedCases \in Seq(S) /\ Len(BuildOversizedCases) = 3
  BY <1>1, <1>2, <1>6
<1>16. BuildDegeneratePayloadCases \in Seq(S) /\ Len(BuildDegeneratePayloadCases) = 3
  BY <1>1, <1>2, <1>6
<1> QED
  BY <1>7, <1>8, <1>9, <1>10, <1>11, <1>12, <1>13, <1>14, <1>15, <1>16

LEMMA CasesInOrder ==
    /\ Len(GenerateAll) = 36 /\ DOMAIN GenerateAll = 1 .. 36
    /\ After(GenerateAll, 0, BuildKnownGoodNoopCase, 1)
    /\ After(GenerateAll, 1, BuildCommandMalformedCases, 3)
    /\ After(GenerateAll, 4, BuildVersionCases, 7)
    /\ After(GenerateAll, 11, BuildApidCases, 3)
    /\ After(GenerateAll, 14, BuildSeqFlagsCases, 4)
    /\ After(GenerateAll, 18, BuildPacketLengthCases, 4)
    /\ After(GenerateAll, 22, BuildSecondaryHeaderFlagCases, 2)
    /\ After(GenerateAll, 24, BuildTruncationCases, 6)
    /\ After(GenerateAll, 30, BuildOversizedCases, 3)
    /\ After(GenerateAll, 33, BuildDegeneratePayloadCases, 3)
<1>1. PICK S : /\ BuildKnownGoodNoopCase \in Seq(S) /\ Len(BuildKnownGoodNoopCase) = 1
           /\ BuildCommandMalformedCases \in Seq(S) /\ Len(BuildCommandMalformedCases) = 3
           /\ BuildVersionCases \in Seq(S) /\ Len(BuildVersionCases) = 7
           /\ BuildApidCases \in Seq(S) /\ Len(BuildApidCases) = 3
           /\ BuildSeqFlagsCases \in Seq(S) /\ Len(BuildSeqFlagsCases) = 4
           /\ BuildPacketLengthCases \in Seq(S) /\ Len(BuildPacketLengthCases) = 4
           /\ BuildSecondaryHeaderFlagCases \in Seq(S) /\ Len(BuildSecondaryHeaderFlagCases) = 2
           /\ BuildTruncationCases \in Seq(S) /\ Len(BuildTruncationCases) = 6
           /\ BuildOversizedCases \in Seq(S) /\ Len(BuildOversizedCases) = 3
           /\ BuildDegeneratePayloadCases \in Seq(S) /\ Len(BuildDegeneratePayloadCases) = 3
  BY BuilderLengths
<1> DEFINE upto2 == BuildKnownGoodNoopCase \o BuildCommandMalformedCases
           upto3 == upto2 \o BuildVersionCases
           upto4 == upto3 \o BuildApidCases
           upto5 == upto4 \o BuildSeqFlagsCases
           upto6 == upto5 \o BuildPacketLengthCases
           upto7 == upto6 \o BuildSecondaryHeaderFlagCases
           upto8 == upto7 \o BuildTruncationCases
           upto9 == upto8 \o BuildOversizedCases
           all == upto9 \o BuildDegeneratePayloadCases
<1>2. /\ upto2 \in Seq(S) /\ Len(upto2) = 4
      /\ After(upto2, 0, BuildKnownGoodNoopCase, 1)
      /\ After(upto2, 1, BuildCommandMalformedCases, 3)
  <2>1. /\ upto2 \in Seq(S) /\ Len(upto2) = 1 + 3
        /\ After(upto2, 0, BuildKnownGoodNoopCase, 1) /\ After(upto2, 1, BuildCommandMalformedCases, 3)
    BY <1>1, Joined, Zenon
  <2>2. Len(upto2) = 4
    BY <2>1
  <2> QED
    BY <2>1, <2>2
<1> HIDE DEF upto2
<1>3. /\ upto3 \in Seq(S) /\ Len(upto3) = 11
      /\ After(upto3, 0, BuildKnownGoodNoopCase, 1)
      /\ After(upto3, 1, BuildCommandMalformedCases, 3)
      /\ After(upto3, 4, BuildVersionCases, 7)
  <2>1. /\ upto3 \in Seq(S) /\ Len(upto3) = 4 + 7
        /\ After(upto3, 0, upto2, 4) /\ After(upto3, 4, BuildVersionCases, 7)
    BY <1>1, <1>2, Joined, Zenon
  <2>2. Len(upto3) = 11
    BY <2>1
  <2> HIDE DEF upto3
  <2>3. \A m, n \in Nat : \A t : m + n <= 4 /\ After(upto2, m, t, n) => After(upto3, m, t, n)
    BY <2>1, StillAfter
  <2> QED
    BY <1>2, <2>1, <2>2, <2>3
<1> HIDE DEF upto3
<1>4. /\ upto4 \in Seq(S) /\ Len(upto4) = 14
      /\ After(upto4, 0, BuildKnownGoodNoopCase, 1)
      /\ After(upto4, 1, BuildCommandMalformedCases, 3)
      /\ After(upto4, 4, BuildVersionCases, 7)
      /\ After(upto4, 11, BuildApidCases, 3)
  <2>1. /\ upto4 \in Seq(S) /\ Len(upto4) = 11 + 3
        /\ After(upto4, 0, upto3, 11) /\ After(upto4, 11, BuildApidCases, 3)
    BY <1>1, <1>3, Joined, Zenon
  <2>2. Len(upto4) = 14
    BY <2>1
  <2> HIDE DEF upto4
  <2>3. \A m, n \in Nat : \A t : m + n <= 11 /\ After(upto3, m, t, n) => After(upto4, m, t, n)
    BY <2>1, StillAfter
  <2> QED
    BY <1>3, <2>1, <2>2, <2>3
<1> HIDE DEF upto4
<1>5. /\ upto5 \in Seq(S) /\ Len(upto5) = 18
      /\ After(upto5, 0, BuildKnownGoodNoopCase, 1)
      /\ After(upto5, 1, BuildCommandMalformedCases, 3)
      /\ After(upto5, 4, BuildVersionCases, 7)
      /\ After(upto5, 11, BuildApidCases, 3)
      /\ After(upto5, 14, BuildSeqFlagsCases, 4)
  <2>1. /\ upto5 \in Seq(S) /\ Len(upto5) = 14 + 4
        /\ After(upto5, 0, upto4, 14) /\ After(upto5, 14, BuildSeqFlagsCases, 4)
    BY <1>1, <1>4, Joined, Zenon
  <2>2. Len(upto5) = 18
    BY <2>1
  <2> HIDE DEF upto5
  <2>3. \A m, n \in Nat : \A t : m + n <= 14 /\ After(upto4, m, t, n) => After(upto5, m, t, n)
    BY <2>1, StillAfter
  <2> QED
    BY <1>4, <2>1, <2>2, <2>3
<1> HIDE DEF upto5
<1>6. /\ upto6 \in Seq(S) /\ Len(upto6) = 22
      /\ After(upto6, 0, BuildKnownGoodNoopCase, 1)
      /\ After(upto6, 1, BuildCommandMalformedCases, 3)
      /\ After(upto6, 4, BuildVersionCases, 7)
      /\ After(upto6, 11, BuildApidCases, 3)
      /\ After(upto6, 14, BuildSeqFlagsCases, 4)
      /\ After(upto6, 18, BuildPacketLengthCases, 4)
  <2>1. /\ upto6 \in Seq(S) /\ Len(upto6) = 18 + 4
        /\ After(upto6, 0, upto5, 18) /\ After(upto6, 18, BuildPacketLengthCases, 4)
    BY <1>1, <1>5, Joined, Zenon
  <2>2. Len(upto6) = 22
    BY <2>1
  <2> HIDE DEF upto6
  <2>3. \A m, n \in Nat : \A t : m + n <= 18 /\ After(upto5, m, t, n) => After(upto6, m, t, n)
    BY <2>1, StillAfter
  <2> QED
    BY <1>5, <2>1, <2>2, <2>3
<1> HIDE DEF upto6
<1>7. /\ upto7 \in Seq(S) /\ Len(upto7) = 24
      /\ After(upto7, 0, BuildKnownGoodNoopCase, 1)
      /\ After(upto7, 1, BuildCommandMalformedCases, 3)
      /\ After(upto7, 4, BuildVersionCases, 7)
      /\ After(upto7, 11, BuildApidCases, 3)
      /\ After(upto7, 14, BuildSeqFlagsCases, 4)
      /\ After(upto7, 18, BuildPacketLengthCases, 4)
      /\ After(upto7, 22, BuildSecondaryHeaderFlagCases, 2)
  <2>1. /\ upto7 \in Seq(S) /\ Len(upto7) = 22 + 2
        /\ After(upto7, 0, upto6, 22) /\ After(upto7, 22, BuildSecondaryHeaderFlagCases, 2)
    BY <1>1, <1>6, Joined, Zenon
  <2>2. Len(upto7) = 24
    BY <2>1
  <2> HIDE DEF upto7
  <2>3. \A m, n \in Nat : \A t : m + n <= 22 /\ After(upto6, m, t, n) => After(upto7, m, t, n)
    BY <2>1, StillAfter
  <2> QED
    BY <1>6, <2>1, <2>2, <2>3
<1> HIDE DEF upto7
<1>8. /\ upto8 \in Seq(S) /\ Len(upto8) = 30
      /\ After(upto8, 0, BuildKnownGoodNoopCase, 1)
      /\ After(upto8, 1, BuildCommandMalformedCases, 3)
      /\ After(upto8, 4, BuildVersionCases, 7)
      /\ After(upto8, 11, BuildApidCases, 3)
      /\ After(upto8, 14, BuildSeqFlagsCases, 4)
      /\ After(upto8, 18, BuildPacketLengthCases, 4)
      /\ After(upto8, 22, BuildSecondaryHeaderFlagCases, 2)
      /\ After(upto8, 24, BuildTruncationCases, 6)
  <2>1. /\ upto8 \in Seq(S) /\ Len(upto8) = 24 + 6
        /\ After(upto8, 0, upto7, 24) /\ After(upto8, 24, BuildTruncationCases, 6)
    BY <1>1, <1>7, Joined, Zenon
  <2>2. Len(upto8) = 30
    BY <2>1
  <2> HIDE DEF upto8
  <2>3. \A m, n \in Nat : \A t : m + n <= 24 /\ After(upto7, m, t, n) => After(upto8, m, t, n)
    BY <2>1, StillAfter
  <2> QED
    BY <1>7, <2>1, <2>2, <2>3
<1> HIDE DEF upto8
<1>9. /\ upto9 \in Seq(S) /\ Len(upto9) = 33
      /\ After(upto9, 0, BuildKnownGoodNoopCase, 1)
      /\ After(upto9, 1, BuildCommandMalformedCases, 3)
      /\ After(upto9, 4, BuildVersionCases, 7)
      /\ After(upto9, 11, BuildApidCases, 3)
      /\ After(upto9, 14, BuildSeqFlagsCases, 4)
      /\ After(upto9, 18, BuildPacketLengthCases, 4)
      /\ After(upto9, 22, BuildSecondaryHeaderFlagCases, 2)
      /\ After(upto9, 24, BuildTruncationCases, 6)
      /\ After(upto9, 30, BuildOversizedCases, 3)
  <2>1. /\ upto9 \in Seq(S) /\ Len(upto9) = 30 + 3
        /\ After(upto9, 0, upto8, 30) /\ After(upto9, 30, BuildOversizedCases, 3)
    BY <1>1, <1>8, Joined, Zenon
  <2>2. Len(upto9) = 33
    BY <2>1
  <2> HIDE DEF upto9
  <2>3. \A m, n \in Nat : \A t : m + n <= 30 /\ After(upto8, m, t, n) => After(upto9, m, t, n)
    BY <2>1, StillAfter
  <2> QED
    BY <1>8, <2>1, <2>2, <2>3
<1> HIDE DEF upto9
<1>10. /\ all \in Seq(S) /\ Len(all) = 36
      /\ After(all, 0, BuildKnownGoodNoopCase, 1)
      /\ After(all, 1, BuildCommandMalformedCases, 3)
      /\ After(all, 4, BuildVersionCases, 7)
      /\ After(all, 11, BuildApidCases, 3)
      /\ After(all, 14, BuildSeqFlagsCases, 4)
      /\ After(all, 18, BuildPacketLengthCases, 4)
      /\ After(all, 22, BuildSecondaryHeaderFlagCases, 2)
      /\ After(all, 24, BuildTruncationCases, 6)
      /\ After(all, 30, BuildOversizedCases, 3)
      /\ After(all, 33, BuildDegeneratePayloadCases, 3)
  <2>1. /\ all \in Seq(S) /\ Len(all) = 33 + 3
        /\ After(all, 0, upto9, 33) /\ After(all, 33, BuildDegeneratePayloadCases, 3)
    BY <1>1, <1>9, Joined, Zenon
  <2>2. Len(all) = 36
    BY <2>1
  <2> HIDE DEF all
  <2>3. \A m, n \in Nat : \A t : m + n <= 33 /\ After(upto9, m, t, n) => After(all, m, t, n)
    BY <2>1, StillAfter
  <2> QED
    BY <1>9, <2>1, <2>2, <2>3
<1> HIDE DEF all
<1>11. GenerateAll = all
  BY Zenon DEF GenerateAll, all, upto9, upto8, upto7, upto6, upto5, upto4, upto3, upto2
<1>12. DOMAIN all = 1 .. 36
  BY <1>10, LenProperties
<1> QED
  BY <1>10, <1>11, <1>12

\* Each case of the suite is one of a builder.
LEMMA CaseOfBuilder ==
    ASSUME NEW k \in 1 .. 36
    PROVE  \/ k = 1 /\ GenerateAll[k] = BuildKnownGoodNoopCase[1]
           \/ \E i \in 1 .. 3 : k = 1 + i /\ GenerateAll[k] = BuildCommandMalformedCases[i]
           \/ \E i \in 1 .. 7 : k = 4 + i /\ GenerateAll[k] = BuildVersionCases[i]
           \/ \E i \in 1 .. 3 : k = 11 + i /\ GenerateAll[k] = BuildApidCases[i]
           \/ \E i \in 1 .. 4 : k = 14 + i /\ GenerateAll[k] = BuildSeqFlagsCases[i]
           \/ \E i \in 1 .. 4 : k = 18 + i /\ GenerateAll[k] = BuildPacketLengthCases[i]
           \/ \E i \in 1 .. 2 : k = 22 + i /\ GenerateAll[k] = BuildSecondaryHeaderFlagCases[i]
           \/ \E i \in 1 .. 6 : k = 24 + i /\ GenerateAll[k] = BuildTruncationCases[i]
           \/ \E i \in 1 .. 3 : k = 30 + i /\ GenerateAll[k] = BuildOversizedCases[i]
           \/ \E i \in 1 .. 3 : k = 33 + i /\ GenerateAll[k] = BuildDegeneratePayloadCases[i]
<1>1. CASE k = 1
  <2>1. 1 \in 1 .. 1 /\ 0 + 1 = 1
    OBVIOUS
  <2> QED
    BY <1>1, <2>1, CasesInOrder DEF After
<1>2. CASE k \in 2 .. 4
  <2>1. k - 1 \in 1 .. 3 /\ k = 1 + (k - 1)
    BY <1>2
  <2>2. \A i \in 1 .. 3 : GenerateAll[1 + i] = BuildCommandMalformedCases[i]
    BY CasesInOrder, Zenon DEF After
  <2> QED
    BY <2>1, <2>2
<1>3. CASE k \in 5 .. 11
  <2>1. k - 4 \in 1 .. 7 /\ k = 4 + (k - 4)
    BY <1>3
  <2>2. \A i \in 1 .. 7 : GenerateAll[4 + i] = BuildVersionCases[i]
    BY CasesInOrder, Zenon DEF After
  <2> QED
    BY <2>1, <2>2
<1>4. CASE k \in 12 .. 14
  <2>1. k - 11 \in 1 .. 3 /\ k = 11 + (k - 11)
    BY <1>4
  <2>2. \A i \in 1 .. 3 : GenerateAll[11 + i] = BuildApidCases[i]
    BY CasesInOrder, Zenon DEF After
  <2> QED
    BY <2>1, <2>2
<1>5. CASE k \in 15 .. 18
  <2>1. k - 14 \in 1 .. 4 /\ k = 14 + (k - 14)
    BY <1>5
  <2>2. \A i \in 1 .. 4 : GenerateAll[14 + i] = BuildSeqFlagsCases[i]
    BY CasesInOrder, Zenon DEF After
  <2> QED
    BY <2>1, <2>2
<1>6. CASE k \in 19 .. 22
  <2>1. k - 18 \in 1 .. 4 /\ k = 18 + (k - 18)
    BY <1>6
  <2>2. \A i \in 1 .. 4 : GenerateAll[18 + i] = BuildPacketLengthCases[i]
    BY CasesInOrder, Zenon DEF After
  <2> QED
    BY <2>1, <2>2
<1>7. CASE k \in 23 .. 24
  <2>1. k - 22 \in 1 .. 2 /\ k = 22 + (k - 22)
    BY <1>7
  <2>2. \A i \in 1 .. 2 : GenerateAll[22 + i] = BuildSecondaryHeaderFlagCases[i]
    BY CasesInOrder, Zenon DEF After
  <2> QED
    BY <2>1, <2>2
<1>8. CASE k \in 25 .. 30
  <2>1. k - 24 \in 1 .. 6 /\ k = 24 + (k - 24)
    BY <1>8
  <2>2. \A i \in 1 .. 6 : GenerateAll[24 + i] = BuildTruncationCases[i]
    BY CasesInOrder, Zenon DEF After
  <2> QED
    BY <2>1, <2>2
<1>9. CASE k \in 31 .. 33
  <2>1. k - 30 \in 1 .. 3 /\ k = 30 + (k - 30)
    BY <1>9
  <2>2. \A i \in 1 .. 3 : GenerateAll[30 + i] = BuildOversizedCases[i]
    BY CasesInOrder, Zenon DEF After
  <2> QED
    BY <2>1, <2>2
<1>10. CASE k \in 34 .. 36
  <2>1. k - 33 \in 1 .. 3 /\ k = 33 + (k - 33)
    BY <1>10
  <2>2. \A i \in 1 .. 3 : GenerateAll[33 + i] = BuildDegeneratePayloadCases[i]
    BY CasesInOrder, Zenon DEF After
  <2> QED
    BY <2>1, <2>2
<1>11. \/ k = 1 \/ k \in 2 .. 4 \/ k \in 5 .. 11 \/ k \in 12 .. 14 \/ k \in 15 .. 18 \/ k \in 19 .. 22
       \/ k \in 23 .. 24 \/ k \in 25 .. 30 \/ k \in 31 .. 33 \/ k \in 34 .. 36
  OBVIOUS
<1> QED
  BY <1>1, <1>2, <1>3, <1>4, <1>5, <1>6, <1>7, <1>8, <1>9, <1>10, <1>11

\* The suite keeps the selected cases, in their order.
LEMMA SuiteInOrder ==
    ASSUME NEW n \in DOMAIN Suite
    PROVE  /\ Nth(Selected, n) \in 1 .. 36 /\ Suite[n] = GenerateAll[Nth(Selected, n)]
           /\ Nth(Selected, n) \in Selected
           /\ Cardinality({j \in Selected : j <= Nth(Selected, n)}) = n
<1>1. n \in 1 .. Cardinality(Selected) /\ Suite[n] = GenerateAll[Nth(Selected, n)]
  BY DEF Suite, AtPositions
<1>2. \E k \in Selected : Cardinality({j \in Selected : j <= k}) = n
  BY SelectedAreFew, <1>1, EveryRankIsTaken
<1>3. Nth(Selected, n) \in Selected /\ Cardinality({j \in Selected : j <= Nth(Selected, n)}) = n
  BY <1>2, Zenon DEF Nth
<1>4. Selected \in SUBSET (1 .. 36)
  BY CasesInOrder, SelectedAreFew
<1> QED
  BY <1>1, <1>3, <1>4

-----------------------------------------------------------------------------
(***************************************************************************)
(* What the rule finds wrong, by header and payload.                       *)
(***************************************************************************)
Names == {"version", "packet_type", "seq_flags", "length", "apid", "sec_hdr_flag", "function", "checksum"}

LEMMA DefectsOf ==
    ASSUME NEW data, NEW mid, Len(data) \in PRIMARY_HEADER_SIZE .. MAX_COMMAND_SIZE
    PROVE  /\ Defects(data, mid) \subseteq Names
           /\ "version" \in Defects(data, mid) <=> Unpack(data).version # {}
           /\ "packet_type" \in Defects(data, mid) <=> Unpack(data).packet_type # {0}
           /\ "seq_flags" \in Defects(data, mid) <=> Unpack(data).seq_flags # SEQ_FLAGS_UNSEGMENTED
           /\ "length" \in Defects(data, mid) <=> ~DataLengthIs(Unpack(data), Len(data) - PRIMARY_HEADER_SIZE)
           /\ "apid" \in Defects(data, mid) <=> mid # CommandMid(Unpack(data).apid)
           /\ "sec_hdr_flag" \in Defects(data, mid) <=> Unpack(data).sec_hdr_flag # {0}
           /\ "function" \in Defects(data, mid) <=> (Len(data) < 8 \/ data[7] # {})
           /\ "checksum" \in Defects(data, mid) <=> ~ChecksumHolds(data)
<1> DEFINE header == Unpack(data)
           wrong == [version      |-> header.version # {},
                     packet_type  |-> header.packet_type # {0},
                     seq_flags    |-> header.seq_flags # SEQ_FLAGS_UNSEGMENTED,
                     length       |-> ~DataLengthIs(header, Len(data) - PRIMARY_HEADER_SIZE),
                     apid         |-> mid # CommandMid(header.apid),
                     sec_hdr_flag |-> header.sec_hdr_flag # {0},
                     function     |-> Len(data) < 8 \/ data[7] # {},
                     checksum     |-> ~ChecksumHolds(data)]
<1>1. Defects(data, mid) = {defect \in DOMAIN wrong : wrong[defect]}
  BY Zenon DEF Defects
<1>2. DOMAIN wrong = Names
  BY DEF Names
<1>3. /\ wrong["version"] = (header.version # {})
      /\ wrong["packet_type"] = (header.packet_type # {0})
      /\ wrong["seq_flags"] = (header.seq_flags # SEQ_FLAGS_UNSEGMENTED)
      /\ wrong["length"] = ~DataLengthIs(header, Len(data) - PRIMARY_HEADER_SIZE)
      /\ wrong["apid"] = (mid # CommandMid(header.apid))
      /\ wrong["sec_hdr_flag"] = (header.sec_hdr_flag # {0})
      /\ wrong["function"] = (Len(data) < 8 \/ data[7] # {})
      /\ wrong["checksum"] = ~ChecksumHolds(data)
  BY Zenon
<1>4. /\ "version" \in Names /\ "packet_type" \in Names /\ "seq_flags" \in Names /\ "length" \in Names
      /\ "apid" \in Names /\ "sec_hdr_flag" \in Names /\ "function" \in Names /\ "checksum" \in Names
  BY DEF Names
<1> HIDE DEF wrong
<1> QED
  BY <1>1, <1>2, <1>3, <1>4, Zenon DEF header

LEMMA ChangedSize ==
    ASSUME NEW data, NEW mid, Len(data) \notin PRIMARY_HEADER_SIZE .. MAX_COMMAND_SIZE
    PROVE  Defects(data, mid) = {"size"}
  BY Zenon DEF Defects

LEMMA DefectsSeen ==
    ASSUME NEW data, NEW header \in Header, NEW payload \in Seq(Octet), Carries(data, header, payload),
           6 + Len(payload) <= MAX_COMMAND_SIZE, MAX_COMMAND_SIZE \in Nat, NEW mid
    PROVE  /\ Defects(data, mid) \subseteq Names
           /\ "version" \in Defects(data, mid) <=> header.version # {}
           /\ "packet_type" \in Defects(data, mid) <=> header.packet_type # {0}
           /\ "seq_flags" \in Defects(data, mid) <=> header.seq_flags # SEQ_FLAGS_UNSEGMENTED
           /\ "length" \in Defects(data, mid) <=> ~DataLengthIs(header, Len(payload))
           /\ "apid" \in Defects(data, mid) <=> mid # CommandMid(header.apid)
           /\ "sec_hdr_flag" \in Defects(data, mid) <=> header.sec_hdr_flag # {0}
           /\ "function" \in Defects(data, mid) <=> (Len(payload) < 2 \/ payload[1] # {})
           /\ "checksum" \in Defects(data, mid) <=> ~ChecksumHolds(data)
<1>1. /\ Unpack(data) = header /\ Len(data) = 6 + Len(payload) /\ Len(payload) \in Nat
      /\ Len(payload) >= 1 => data[6 + 1] = payload[1]
  <2>1. Len(payload) \in Nat
    BY LenProperties
  <2>2. Unpack(data) = header /\ Len(data) = 6 + Len(payload)
    BY DEF Carries
  <2>3. ASSUME Len(payload) >= 1 PROVE data[6 + 1] = payload[1]
    <3>1. 1 \in 1 .. Len(payload) /\ 1 # 2
      BY <2>1, <2>3
    <3> QED
      BY <3>1 DEF Carries
  <2> QED
    BY <2>1, <2>2, <2>3
<1>2. /\ Len(data) \in PRIMARY_HEADER_SIZE .. MAX_COMMAND_SIZE
      /\ Len(data) - PRIMARY_HEADER_SIZE = Len(payload)
  BY <1>1 DEF PRIMARY_HEADER_SIZE
<1>3. (Len(data) < 8 \/ data[7] # {}) <=> (Len(payload) < 2 \/ payload[1] # {})
  BY <1>1
<1>4. /\ Defects(data, mid) \subseteq Names
      /\ "version" \in Defects(data, mid) <=> Unpack(data).version # {}
      /\ "packet_type" \in Defects(data, mid) <=> Unpack(data).packet_type # {0}
      /\ "seq_flags" \in Defects(data, mid) <=> Unpack(data).seq_flags # SEQ_FLAGS_UNSEGMENTED
      /\ "length" \in Defects(data, mid) <=> ~DataLengthIs(Unpack(data), Len(data) - PRIMARY_HEADER_SIZE)
      /\ "apid" \in Defects(data, mid) <=> mid # CommandMid(Unpack(data).apid)
      /\ "sec_hdr_flag" \in Defects(data, mid) <=> Unpack(data).sec_hdr_flag # {0}
      /\ "function" \in Defects(data, mid) <=> (Len(data) < 8 \/ data[7] # {})
      /\ "checksum" \in Defects(data, mid) <=> ~ChecksumHolds(data)
  BY <1>2, DefectsOf, Zenon
<1>5. Unpack(data) = header /\ Len(data) - PRIMARY_HEADER_SIZE = Len(payload)
  BY <1>1, <1>2
<1> QED
  BY <1>3, <1>4, <1>5, Zenon

\* The length field of a packet of four or two octets of payload.
LEMMA DeclaredLength ==
    ASSUME NEW header \in Header, NEW n, NEW size \in 1 .. MAX_PACKET_DATA_LENGTH
    PROVE  /\ Declaring(header, n) \in Header
           /\ DataLengthIs(Declaring(header, n), size) <=> Bits(n, LengthBits) = Bits(size - 1, LengthBits)
<1>1. Bits(n, LengthBits) \in SUBSET (0 .. LengthBits - 1)
  BY DEF Bits
<1>2. Declaring(header, n) \in Header
  BY <1>1 DEF Header, Declaring
<1>3. Declaring(header, n).packet_data_length_field = Bits(n, LengthBits)
  BY DEF Header, Declaring
<1> QED
  BY <1>2, <1>3, Zenon DEF DataLengthIs

\* Aimed at an application, a case breaks its rule only in what it was built with.
LEMMA AimedDefects ==
    ASSUME NEW case, NEW header, NEW payload, Formed(case.packet_bytes, header, payload),
           case.category \notin {"apid", "secondary_header"}, case.checksum_valid \in BOOLEAN,
           Len(payload) >= 2, 6 + Len(payload) <= MAX_COMMAND_SIZE, MAX_COMMAND_SIZE \in Nat,
           NEW apid \in SUBSET APID_MAX, apid # None
    PROVE  LET defects == Defects(Retargeted(case, apid).packet_bytes, CommandMid(apid))
           IN  /\ defects \subseteq {"version", "seq_flags", "length", "function", "checksum"}
               /\ "version" \in defects <=> header.version # {}
               /\ "seq_flags" \in defects <=> header.seq_flags # SEQ_FLAGS_UNSEGMENTED
               /\ "length" \in defects <=> ~DataLengthIs(header, Len(payload))
               /\ "function" \in defects <=> payload[1] # {}
               /\ "checksum" \in defects <=> ~case.checksum_valid
<1> DEFINE data == Retargeted(case, apid).packet_bytes
           h == Commanding(header, case.category, apid)
           defects == Defects(data, CommandMid(apid))
<1>1. h \in Header /\ Carries(data, h, payload)
  BY RetargetedCarries, Zenon
<1>2. /\ h.version = header.version /\ h.packet_type = {0} /\ h.seq_flags = header.seq_flags
      /\ h.apid = apid /\ h.sec_hdr_flag = {0}
      /\ h.packet_data_length_field = header.packet_data_length_field
  BY FieldsOfFormed DEF Commanding, Header
<1>3. payload \in Seq(Octet) /\ case.packet_bytes \in Seq(Octet) /\ Len(case.packet_bytes) >= 8
  BY FieldsOfFormed
<1>4. ChecksumHolds(data) <=> case.checksum_valid
  BY <1>3, ChecksumsSurviveRetargeting, Zenon
<1> HIDE DEF data, h
<1>5. /\ defects \subseteq Names
      /\ "version" \in defects <=> h.version # {}
      /\ "packet_type" \in defects <=> h.packet_type # {0}
      /\ "seq_flags" \in defects <=> h.seq_flags # SEQ_FLAGS_UNSEGMENTED
      /\ "length" \in defects <=> ~DataLengthIs(h, Len(payload))
      /\ "apid" \in defects <=> CommandMid(apid) # CommandMid(h.apid)
      /\ "sec_hdr_flag" \in defects <=> h.sec_hdr_flag # {0}
      /\ "function" \in defects <=> (Len(payload) < 2 \/ payload[1] # {})
      /\ "checksum" \in defects <=> ~ChecksumHolds(data)
  BY <1>1, <1>3, DefectsSeen, Zenon
<1> HIDE DEF defects
<1>6. ~(Len(payload) < 2)
  BY <1>3, LenProperties
<1>7. DataLengthIs(h, Len(payload)) <=> DataLengthIs(header, Len(payload))
  BY <1>2, Zenon DEF DataLengthIs
<1>8. "packet_type" \notin defects /\ "apid" \notin defects /\ "sec_hdr_flag" \notin defects
  BY <1>2, <1>5, Zenon
<1>9. defects \subseteq {"version", "seq_flags", "length", "function", "checksum"}
  <2>1. defects \subseteq Names
    BY <1>5, Zenon
  <2> QED
    BY <1>8, <2>1 DEF Names
<1>10. /\ "version" \in defects <=> header.version # {}
       /\ "seq_flags" \in defects <=> header.seq_flags # SEQ_FLAGS_UNSEGMENTED
       /\ "length" \in defects <=> ~DataLengthIs(header, Len(payload))
       /\ "function" \in defects <=> payload[1] # {}
       /\ "checksum" \in defects <=> ~case.checksum_valid
  BY <1>2, <1>4, <1>5, <1>6, <1>7, Zenon
<1> QED
  BY <1>9, <1>10, Zenon DEF defects, data

-----------------------------------------------------------------------------
(***************************************************************************)
(* The packets of the cases: their header, the size of the payload and its *)
(* first octet, the function code of a command.                            *)
(***************************************************************************)
Shaped(data, header, size, function) ==
    \E payload \in Seq(Octet) :
       Len(payload) = size /\ payload[1] = function /\ Formed(data, header, payload)

LEMMA SizesOfFields ==
    ASSUME AsSized
    PROVE  /\ LengthBits \in 3 .. 16 /\ LengthBits \in 2 .. 16 /\ LengthBits \in Nat
           /\ 2^LengthBits \in Nat /\ 2^LengthBits >= 32
           /\ PACKET_DATA_LENGTH_MAX = 2^LengthBits - 1 /\ MAX_PACKET_DATA_LENGTH = 2^LengthBits
           /\ Surplus \in Nat /\ ReachableSize \in Nat
<1>1. LengthBits \in 0 .. 16 /\ LengthBits \in 5 .. 16
  BY LengthAssumption DEF AsSized
<1>2. 2^LengthBits = Weight[LengthBits + 1]
  BY <1>1, WeightsArePowers, Zenon
<1>3. \A w \in 5 .. 16 : Weight[w + 1] \in Nat /\ Weight[w + 1] >= 32
  BY DEF Weight
<1>4. 2^LengthBits \in Nat /\ 2^LengthBits >= 32
  BY <1>1, <1>2, <1>3
<1> QED
  BY <1>1, <1>4, GeneratorAssumption DEF MAX_PACKET_DATA_LENGTH, PACKET_DATA_LENGTH_MAX

LEMMA ShapedBuilt ==
    ASSUME NEW header \in Header, NEW payload \in Seq(Octet)
    PROVE  Shaped(ToBytes(header, payload, None), Declaring(header, LengthField(payload)),
                  Len(payload), payload[1])
<1>1. Formed(ToBytes(header, payload, None), Declaring(header, LengthField(payload)), payload)
  BY BuiltIsFormed
<1> QED
  BY <1>1, Zenon DEF Shaped

LEMMA ShapedDeclaring ==
    ASSUME NEW header \in Header, NEW payload \in Seq(Octet), NEW declared, declared # None
    PROVE  Shaped(ToBytes(header, payload, declared), Declaring(header, declared), Len(payload), payload[1])
<1>1. Formed(ToBytes(header, payload, declared), Declaring(header, declared), payload)
  BY BuiltIsFormed
<1> QED
  BY <1>1, Zenon DEF Shaped

LEMMA ShapedSealed ==
    ASSUME NEW data, NEW header, NEW size \in Nat, size >= 2, NEW function, Shaped(data, header, size, function)
    PROVE  /\ Shaped(WithCommandChecksum(data), header, size, function)
           /\ Shaped(Damaged(data), header, size, function)
<1>1. PICK payload \in Seq(Octet) : Len(payload) = size /\ payload[1] = function /\ Formed(data, header, payload)
  BY DEF Shaped
<1>2. \A x \in Octet : /\ [payload EXCEPT ![2] = x] \in Seq(Octet)
                       /\ Len([payload EXCEPT ![2] = x]) = size
                       /\ [payload EXCEPT ![2] = x][1] = function
  <2> SUFFICES ASSUME NEW x \in Octet
               PROVE  /\ [payload EXCEPT ![2] = x] \in Seq(Octet)
                      /\ Len([payload EXCEPT ![2] = x]) = size
                      /\ [payload EXCEPT ![2] = x][1] = function
    OBVIOUS
  <2>1. 2 \in 1 .. Len(payload) /\ 1 \in 1 .. Len(payload) /\ 1 # 2
    BY <1>1
  <2> QED
    BY <1>1, <2>1, ExceptSeq
<1>3. Len(payload) >= 2
  BY <1>1
<1>4. PICK x \in Octet : Formed(WithCommandChecksum(data), header, [payload EXCEPT ![2] = x])
  BY <1>1, <1>3, SealedIsFormed
<1>5. PICK y \in Octet : Formed(Damaged(data), header, [payload EXCEPT ![2] = y])
  BY <1>1, <1>3, SealedIsFormed
<1> QED
  BY <1>2, <1>4, <1>5, Zenon DEF Shaped

LEMMA ShapedFunction ==
    ASSUME NEW data, NEW header, NEW size \in Nat, size >= 2, NEW function, Shaped(data, header, size, function),
           NEW x \in Octet
    PROVE  Shaped([data EXCEPT ![7] = x], header, size, x)
<1>1. PICK payload \in Seq(Octet) : Len(payload) = size /\ payload[1] = function /\ Formed(data, header, payload)
  BY DEF Shaped
<1> DEFINE new == [payload EXCEPT ![1] = x]
<1>2. 1 \in 1 .. Len(payload) /\ 6 + 1 = 7
  BY <1>1
<1>3. new \in Seq(Octet) /\ Len(new) = size /\ new[1] = x
  BY <1>1, <1>2, ExceptSeq
<1>4. Formed([data EXCEPT ![7] = x], header, new)
  BY <1>1, <1>2, FormedExcept, Zenon
<1> HIDE DEF new
<1> QED
  BY <1>3, <1>4 DEF Shaped

\* The fifth and the sixth octet are the length field.
LEMMA ShapedLength ==
    ASSUME NEW data, NEW header, NEW size \in Nat, NEW function, Shaped(data, header, size, function),
           LengthBits \in 2 .. 16
    PROVE  Shaped([data EXCEPT ![5] = {}, ![6] = {1}], Declaring(header, 2), size, function)
<1>1. PICK payload \in Seq(Octet) : Len(payload) = size /\ payload[1] = function /\ Formed(data, header, payload)
  BY DEF Shaped
<1> DEFINE half == [data EXCEPT ![5] = {}]
           new == [half EXCEPT ![6] = {1}]
<1>2. /\ Unpack(data) = header /\ Len(data) = 6 + Len(payload) /\ Len(payload) \in Nat
      /\ data \in Seq(Octet) /\ header \in Header
      /\ \A i \in 1 .. Len(payload) : data[6 + i] = payload[i]
  BY <1>1, FieldsOfFormed
<1>3. {} \in Octet /\ {1} \in Octet /\ 5 \in 1 .. Len(data) /\ 6 \in 1 .. Len(data)
  BY <1>2 DEF Octet
<1>4. /\ half \in Seq(Octet) /\ Len(half) = Len(data)
      /\ \A j \in 1 .. Len(data) : half[j] = IF j = 5 THEN {} ELSE data[j]
  BY <1>2, <1>3, ExceptSeq
<1> HIDE DEF half
<1>5. /\ new \in Seq(Octet) /\ Len(new) = Len(data)
      /\ \A j \in 1 .. Len(data) : new[j] = IF j = 6 THEN {1} ELSE half[j]
  BY <1>3, <1>4, ExceptSeq
<1> HIDE DEF new
<1>6. new[1] = data[1] /\ new[2] = data[2] /\ new[3] = data[3] /\ new[4] = data[4] /\ new[5] = {} /\ new[6] = {1}
  BY <1>2, <1>4, <1>5
<1>7. ASSUME NEW i \in 1 .. Len(payload) PROVE new[6 + i] = payload[i]
  <2>1. 6 + i \in 1 .. Len(data) /\ 6 + i # 6 /\ 6 + i # 5
    BY <1>2
  <2>2. new[6 + i] = data[6 + i]
    BY <1>4, <1>5, <2>1
  <2> QED
    BY <1>2, <2>2
<1>8. Declaring(header, 2) \in Header
  <2>1. Bits(2, LengthBits) \in SUBSET (0 .. LengthBits - 1)
    BY DEF Bits
  <2> QED
    BY <1>2, <2>1 DEF Header, Declaring
<1>9. Unpack(new) = Declaring(header, 2)
  <2>1. WordAt(new, 1) = WordAt(data, 1) /\ WordAt(new, 3) = WordAt(data, 3)
    BY <1>6 DEF WordAt
  <2>2. WordAt(new, 5) = {1}
    BY <1>6 DEF WordAt, Shifted
  <2>3. Bits(2, LengthBits) = {1}
    <3>1. 2 \in 0 .. 3
      OBVIOUS
    <3>2. Bits(2, LengthBits) = {i \in 0 .. 1 : 2 = 3 \/ 2 = i + 1}
      BY <3>1, SmallBits
    <3> QED
      BY <3>2
  <2>4. Unpack(new) = HeaderOf(WordAt(data, 1), WordAt(data, 3), {1})
    BY <2>1, <2>2 DEF Unpack
  <2>5. header = HeaderOf(WordAt(data, 1), WordAt(data, 3), WordAt(data, 5))
    BY <1>2 DEF Unpack
  <2> DEFINE g == Declaring(header, 2)
             a == WordAt(data, 1)
             b == WordAt(data, 3)
  <2>6. /\ g.version = header.version /\ g.packet_type = header.packet_type
        /\ g.sec_hdr_flag = header.sec_hdr_flag /\ g.apid = header.apid
        /\ g.seq_flags = header.seq_flags /\ g.seq_count = header.seq_count
        /\ g.packet_data_length_field = {1}
    BY <1>2, <2>3 DEF Header, Declaring
  <2>7. /\ header.version = Field(a, 13, 3) /\ header.packet_type = Field(a, 12, 1)
        /\ header.sec_hdr_flag = Field(a, 11, 1) /\ header.apid = a \cap APID_MAX
        /\ header.seq_flags = Field(b, 14, 2) /\ header.seq_count = b \cap 0 .. 13
    BY <2>5 DEF HeaderOf
  <2>8. g \in Header
    BY <1>8
  <2> HIDE DEF g, a, b
  <2>9. HeaderOf(a, b, {1}) = g
    BY <2>6, <2>7, <2>8 DEF Header, HeaderOf
  <2> QED
    BY <2>4, <2>9 DEF g, a, b
<1>10. Formed(new, Declaring(header, 2), payload)
  BY <1>2, <1>5, <1>7, <1>8, <1>9 DEF Formed
<1>11. Shaped(new, Declaring(header, 2), size, function)
  BY <1>1, <1>10 DEF Shaped
<1> QED
  BY <1>11 DEF new, half

LEMMA ShapedNoop ==
    ASSUME AsSized
    PROVE  /\ Shaped(NoopPacket, Declaring(NoopHeader, 1), 2, {})
           /\ Shaped(Damaged(NoopPacket), Declaring(NoopHeader, 1), 2, {})
           /\ Shaped(WithCommandChecksum([NoopPacket EXCEPT ![7] = AllOnes]), Declaring(NoopHeader, 1), 2, AllOnes)
           /\ Shaped(WithCommandChecksum([NoopPacket EXCEPT ![5] = {}, ![6] = {1}]),
                     Declaring(Declaring(NoopHeader, 1), 2), 2, {})
<1> DEFINE raw == ToBytes(NoopHeader, Zeros(2), None)
<1>1. Zeros(2) \in Seq(Octet) /\ Len(Zeros(2)) = 2 /\ Zeros(2)[1] = {}
  BY ZerosAreOctets DEF Zeros
<1>2. LengthField(Zeros(2)) = 1
  BY <1>1, EmptySeq DEF LengthField
<1>3. Shaped(raw, Declaring(NoopHeader, 1), 2, {})
  BY <1>1, <1>2, ValidHeaderIsHeader, ShapedBuilt, Zenon
<1>4. 2 \in Nat /\ 2 >= 2 /\ AllOnes \in Octet
  BY DEF AllOnes, Octet
<1> HIDE DEF raw
<1>5. Shaped(NoopPacket, Declaring(NoopHeader, 1), 2, {})
  <2>1. Shaped(WithCommandChecksum(raw), Declaring(NoopHeader, 1), 2, {})
    BY <1>3, <1>4, ShapedSealed
  <2> QED
    BY <2>1 DEF NoopPacket, raw
<1>6. Shaped(Damaged(NoopPacket), Declaring(NoopHeader, 1), 2, {})
  BY <1>4, <1>5, ShapedSealed
<1>7. Shaped(WithCommandChecksum([NoopPacket EXCEPT ![7] = AllOnes]), Declaring(NoopHeader, 1), 2, AllOnes)
  <2>1. Shaped([NoopPacket EXCEPT ![7] = AllOnes], Declaring(NoopHeader, 1), 2, AllOnes)
    BY <1>4, <1>5, ShapedFunction
  <2> QED
    BY <1>4, <2>1, ShapedSealed
<1>8. Shaped(WithCommandChecksum([NoopPacket EXCEPT ![5] = {}, ![6] = {1}]),
             Declaring(Declaring(NoopHeader, 1), 2), 2, {})
  <2>1. LengthBits \in 2 .. 16
    BY SizesOfFields
  <2>2. Shaped([NoopPacket EXCEPT ![5] = {}, ![6] = {1}], Declaring(Declaring(NoopHeader, 1), 2), 2, {})
    BY <1>4, <1>5, <2>1, ShapedLength
  <2> QED
    BY <1>4, <2>2, ShapedSealed
<1> QED
  BY <1>5, <1>6, <1>7, <1>8

-----------------------------------------------------------------------------
(***************************************************************************)
(* One defect each.                                                        *)
(***************************************************************************)
Made(case, category, header, size, function) ==
    case.category = category /\ Shaped(case.packet_bytes, header, size, function)

LEMMA PacketCaseMade ==
    ASSUME NEW name, NEW category, NEW data, NEW reject, NEW accept, NEW valid,
           NEW header, NEW size, NEW function, Shaped(data, header, size, function)
    PROVE  Made(PacketCase(name, category, data, reject, accept, valid), category, header, size, function)
<1> DEFINE case == PacketCase(name, category, data, reject, accept, valid)
<1>1. case.category = category /\ case.packet_bytes = data
  BY Zenon DEF PacketCase
<1> HIDE DEF case
<1> QED
  BY <1>1, Zenon DEF Made, case

LEMMA KnownGoodMade ==
    ASSUME AsSized
    PROVE  Made(BuildKnownGoodNoopCase[1], "known_good", Declaring(NoopHeader, 1), 2, {})
<1>1. BuildKnownGoodNoopCase[1] = PacketCase(<<"ci_lab_noop", 0>>, "known_good", NoopPacket, FALSE, TRUE, TRUE)
  BY DEF BuildKnownGoodNoopCase
<1> QED
  BY <1>1, ShapedNoop, PacketCaseMade

LEMMA MalformedMade ==
    ASSUME AsSized
    PROVE  /\ Made(BuildCommandMalformedCases[1], "command_malformed", Declaring(NoopHeader, 1), 2, {})
           /\ Made(BuildCommandMalformedCases[2], "command_malformed", Declaring(NoopHeader, 1), 2, AllOnes)
           /\ Made(BuildCommandMalformedCases[3], "command_malformed", Declaring(Declaring(NoopHeader, 1), 2), 2, {})
<1>1. BuildCommandMalformedCases[1] =
         PacketCase(<<"command_bad_checksum", 0>>, "command_malformed", Damaged(NoopPacket), TRUE, FALSE, FALSE)
  BY DEF BuildCommandMalformedCases
<1>2. BuildCommandMalformedCases[2] =
         Case(<<"command_invalid_function", 0>>, "command_malformed",
              WithCommandChecksum([NoopPacket EXCEPT ![7] = AllOnes]), TRUE)
  BY DEF BuildCommandMalformedCases
<1>3. BuildCommandMalformedCases[3] =
         Case(<<"command_wrong_length", 0>>, "command_malformed",
              WithCommandChecksum([NoopPacket EXCEPT ![5] = {}, ![6] = {1}]), TRUE)
  BY DEF BuildCommandMalformedCases
<1>4. Made(BuildCommandMalformedCases[1], "command_malformed", Declaring(NoopHeader, 1), 2, {})
  BY <1>1, ShapedNoop, PacketCaseMade DEF Case
<1>5. Made(BuildCommandMalformedCases[2], "command_malformed", Declaring(NoopHeader, 1), 2, AllOnes)
  BY <1>2, ShapedNoop, PacketCaseMade DEF Case
<1>6. Made(BuildCommandMalformedCases[3], "command_malformed", Declaring(Declaring(NoopHeader, 1), 2), 2, {})
  BY <1>3, ShapedNoop, PacketCaseMade DEF Case
<1> QED
  BY <1>4, <1>5, <1>6

\* The telemetry packets, of which most have the payload 00 01 02 03.
LEMMA CountingIsPayload ==
    /\ Counting \in Seq(Octet) /\ Len(Counting) = 4 /\ Counting[1] = {} /\ LengthField(Counting) = 3
<1>1. Counting \in Seq(Octet) /\ Len(Counting) = 4 /\ Counting[1] = {}
  BY PayloadsAreOctets DEF Counting
<1> QED
  BY <1>1, EmptySeq DEF LengthField

LEMMA TelemetryMade ==
    ASSUME NEW header \in Header, NEW name, NEW category, NEW reject
    PROVE  Made(Case(name, category, ToBytes(header, Counting, None), reject),
                category, Declaring(header, 3), 4, {})
<1>1. Shaped(ToBytes(header, Counting, None), Declaring(header, 3), 4, {})
  BY CountingIsPayload, ShapedBuilt, Zenon
<1> QED
  BY <1>1, PacketCaseMade DEF Case

VersionHeader(v) == [ValidHeader EXCEPT !.version = Bits(v, 3)]
FlagsHeader(flags) == [ValidHeader EXCEPT !.seq_flags = flags]

LEMMA VersionMade ==
    ASSUME NEW v \in 1 .. 7
    PROVE  /\ Made(BuildVersionCases[v], "version", Declaring(VersionHeader(v), 3), 4, {})
           /\ VersionHeader(v) \in Header
<1>1. VersionHeader(v) \in Header
  BY VersionBits, ValidHeaderIsHeader DEF VersionHeader, Header
<1>2. BuildVersionCases[v] = Case(<<"version", v>>, "version", ToBytes(VersionHeader(v), Counting, None), TRUE)
  BY DEF BuildVersionCases, VersionHeader
<1> QED
  BY <1>1, <1>2, TelemetryMade

LEMMA FlagsMade ==
    ASSUME NEW k \in 1 .. 4
    PROVE  /\ Made(BuildSeqFlagsCases[k], "seq_flags", Declaring(FlagsHeader(Bits(k - 1, 2)), 3), 4, {})
           /\ FlagsHeader(Bits(k - 1, 2)) \in Header
<1> DEFINE flags == Bits(k - 1, 2)
<1>1. flags \in SUBSET (0 .. 1)
  BY DEF Bits
<1> HIDE DEF flags
<1>2. FlagsHeader(flags) \in Header
  BY <1>1, ValidHeaderIsHeader DEF FlagsHeader, Header
<1>3. BuildSeqFlagsCases[k] =
         Case(<<"seq_flags", k - 1>>, "seq_flags", ToBytes(FlagsHeader(flags), Counting, None),
              flags # SEQ_FLAGS_UNSEGMENTED)
  BY Zenon DEF BuildSeqFlagsCases, FlagsHeader, flags
<1>4. Made(BuildSeqFlagsCases[k], "seq_flags", Declaring(FlagsHeader(flags), 3), 4, {})
  BY <1>2, <1>3, TelemetryMade
<1> QED
  BY <1>2, <1>4, Zenon DEF flags

LEMMA LengthsMade ==
    ASSUME AsSized, NEW k \in 1 .. 4
    PROVE  \E n \in Nat : /\ n # 3 /\ n < 2^LengthBits
                          /\ Made(BuildPacketLengthCases[k], "packet_length", Declaring(ValidHeader, n), 4, {})
<1> DEFINE n == LengthScenarios[k].declared
           name == LengthScenarios[k].name
<1>1. n \in Nat /\ n # 3 /\ n < 2^LengthBits
  <2>1. /\ LengthScenarios[1].declared = 0 /\ LengthScenarios[2].declared = PACKET_DATA_LENGTH_MAX
        /\ LengthScenarios[3].declared = 4 + Surplus - 1
        /\ LengthScenarios[4].declared = IF 4 - Surplus - 1 > 0 THEN 4 - Surplus - 1 ELSE 0
    BY DEF LengthScenarios
  <2>2. k = 1 \/ k = 2 \/ k = 3 \/ k = 4
    OBVIOUS
  <2> QED
    BY <2>1, <2>2, SizesOfFields DEF AsSized
<1> HIDE DEF n, name
<1>3. n # None
  BY <1>1, NoneAssumption
<1>4. Shaped(ToBytes(ValidHeader, Counting, n), Declaring(ValidHeader, n), 4, {})
  BY <1>3, CountingIsPayload, ValidHeaderIsHeader, ShapedDeclaring, Zenon
<1>5. BuildPacketLengthCases[k] = Case(<<name, 0>>, "packet_length", ToBytes(ValidHeader, Counting, n), TRUE)
  BY Zenon DEF BuildPacketLengthCases, n, name
<1>6. Made(BuildPacketLengthCases[k], "packet_length", Declaring(ValidHeader, n), 4, {})
  BY <1>4, <1>5, PacketCaseMade DEF Case
<1> QED
  BY <1>1, <1>6

\* What the rule of the application that it is aimed at finds wrong with a case.
AimedAt(case, apid) == Defects(Retargeted(case, apid).packet_bytes, CommandMid(apid))

LEMMA MadeDefects ==
    ASSUME AsSized, NEW case, NEW category, NEW header \in Header, NEW n, NEW size \in {2, 4}, NEW function,
           Made(case, category, Declaring(header, n), size, function),
           category \notin {"apid", "secondary_header"}, case.checksum_valid \in BOOLEAN,
           NEW apid \in SUBSET APID_MAX, apid # None
    PROVE  /\ AimedAt(case, apid) \subseteq {"version", "seq_flags", "length", "function", "checksum"}
           /\ "version" \in AimedAt(case, apid) <=> header.version # {}
           /\ "seq_flags" \in AimedAt(case, apid) <=> header.seq_flags # SEQ_FLAGS_UNSEGMENTED
           /\ "length" \in AimedAt(case, apid) <=> Bits(n, LengthBits) # Bits(size - 1, LengthBits)
           /\ "function" \in AimedAt(case, apid) <=> function # {}
           /\ "checksum" \in AimedAt(case, apid) <=> ~case.checksum_valid
<1> DEFINE h == Declaring(header, n)
           defects == Defects(Retargeted(case, apid).packet_bytes, CommandMid(apid))
<1>1. PICK payload \in Seq(Octet) :
         Len(payload) = size /\ payload[1] = function /\ Formed(case.packet_bytes, h, payload)
  BY DEF Made, Shaped
<1>2. case.category \notin {"apid", "secondary_header"}
  BY DEF Made
<1>3. h.version = header.version /\ h.seq_flags = header.seq_flags
  BY DEF Declaring, Header
<1>4. size \in 1 .. MAX_PACKET_DATA_LENGTH /\ MAX_COMMAND_SIZE \in Nat /\ size >= 2 /\ 6 + size <= MAX_COMMAND_SIZE
  BY SizesOfFields DEF AsSized
<1>5. DataLengthIs(h, size) <=> Bits(n, LengthBits) = Bits(size - 1, LengthBits)
  BY <1>4, DeclaredLength, Zenon
<1> HIDE DEF h
<1>6. Len(payload) >= 2 /\ 6 + Len(payload) <= MAX_COMMAND_SIZE
  BY <1>1, <1>4
<1>7. /\ defects \subseteq {"version", "seq_flags", "length", "function", "checksum"}
      /\ "version" \in defects <=> h.version # {}
      /\ "seq_flags" \in defects <=> h.seq_flags # SEQ_FLAGS_UNSEGMENTED
      /\ "length" \in defects <=> ~DataLengthIs(h, Len(payload))
      /\ "function" \in defects <=> payload[1] # {}
      /\ "checksum" \in defects <=> ~case.checksum_valid
  BY <1>1, <1>2, <1>4, <1>6, AimedDefects, Zenon
<1> HIDE DEF defects
<1> QED
  BY <1>1, <1>3, <1>5, <1>7, Zenon DEF defects, AimedAt

\* The fields of the headers the cases are made with.
LEMMA PlainHeaders ==
    /\ ValidHeader \in Header /\ ValidHeader.version = {} /\ ValidHeader.seq_flags = SEQ_FLAGS_UNSEGMENTED
    /\ NoopHeader \in Header /\ NoopHeader.version = {} /\ NoopHeader.seq_flags = SEQ_FLAGS_UNSEGMENTED
    /\ \A n : /\ Declaring(NoopHeader, n) \in Header /\ Declaring(NoopHeader, n).version = {}
              /\ Declaring(NoopHeader, n).seq_flags = SEQ_FLAGS_UNSEGMENTED
<1>1. ValidHeader.version = {} /\ ValidHeader.seq_flags = SEQ_FLAGS_UNSEGMENTED
  BY DEF ValidHeader
<1>2. NoopHeader.version = {} /\ NoopHeader.seq_flags = SEQ_FLAGS_UNSEGMENTED
  BY DEF ValidHeader, NoopHeader
<1>3. ASSUME NEW n
      PROVE  /\ Declaring(NoopHeader, n) \in Header /\ Declaring(NoopHeader, n).version = {}
             /\ Declaring(NoopHeader, n).seq_flags = SEQ_FLAGS_UNSEGMENTED
  <2>1. Bits(n, LengthBits) \in SUBSET (0 .. LengthBits - 1)
    BY DEF Bits
  <2> QED
    BY <1>2, <2>1, ValidHeaderIsHeader DEF Declaring, Header
<1> QED
  BY <1>1, <1>2, <1>3, ValidHeaderIsHeader

LEMMA FieldLengths ==
    ASSUME AsSized
    PROVE  /\ Bits(1, LengthBits) = {0} /\ Bits(2, LengthBits) = {1} /\ Bits(3, LengthBits) = {0, 1}
           /\ \A n \in Nat : n # 3 /\ n < 2^LengthBits => Bits(n, LengthBits) # {0, 1}
<1>1. LengthBits \in 3 .. 16 /\ LengthBits \in 2 .. 16 /\ 1 \in 0 .. 3 /\ 2 \in 0 .. 3
  BY SizesOfFields
<1>2. /\ Bits(1, LengthBits) = {i \in 0 .. 1 : 1 = 3 \/ 1 = i + 1}
      /\ Bits(2, LengthBits) = {i \in 0 .. 1 : 2 = 3 \/ 2 = i + 1}
  BY <1>1, SmallBits
<1>3. {i \in 0 .. 1 : 1 = 3 \/ 1 = i + 1} = {0} /\ {i \in 0 .. 1 : 2 = 3 \/ 2 = i + 1} = {1}
  OBVIOUS
<1> QED
  BY <1>1, <1>2, <1>3, FourOctets

LEMMA MalformedLabels ==
    /\ BuildKnownGoodNoopCase[1].checksum_valid = TRUE /\ BuildKnownGoodNoopCase[1].expect_safe_reject = FALSE
    /\ BuildCommandMalformedCases[1].checksum_valid = FALSE
    /\ BuildCommandMalformedCases[2].checksum_valid = TRUE
    /\ BuildCommandMalformedCases[3].checksum_valid = TRUE
    /\ \A i \in 1 .. 3 : BuildCommandMalformedCases[i].category = "command_malformed"
    /\ BuildCommandMalformedCases[1].name[1] = "command_bad_checksum"
    /\ BuildCommandMalformedCases[2].name[1] = "command_invalid_function"
    /\ BuildCommandMalformedCases[3].name[1] = "command_wrong_length"
    /\ BuildKnownGoodNoopCase[1].category = "known_good"
  BY DEF BuildCommandMalformedCases, BuildKnownGoodNoopCase, Case, PacketCase

LEMMA VersionLabels ==
    ASSUME NEW v \in 1 .. 7
    PROVE  /\ BuildVersionCases[v].category = "version" /\ BuildVersionCases[v].expect_safe_reject = TRUE
           /\ BuildVersionCases[v].checksum_valid = TRUE /\ BuildVersionCases[v].name[1] = "version"
  BY DEF BuildVersionCases, Case, PacketCase

LEMMA FlagsLabels ==
    ASSUME NEW k \in 1 .. 4
    PROVE  /\ BuildSeqFlagsCases[k].category = "seq_flags" /\ BuildSeqFlagsCases[k].name[1] = "seq_flags"
           /\ BuildSeqFlagsCases[k].checksum_valid = TRUE
           /\ BuildSeqFlagsCases[k].expect_safe_reject <=> Bits(k - 1, 2) # SEQ_FLAGS_UNSEGMENTED
<1> DEFINE data == ToBytes([ValidHeader EXCEPT !.seq_flags = Bits(k - 1, 2)], Counting, None)
           reject == Bits(k - 1, 2) # SEQ_FLAGS_UNSEGMENTED
           case == BuildSeqFlagsCases[k]
<1>1. case = Case(<<"seq_flags", k - 1>>, "seq_flags", data, reject)
  BY Zenon DEF BuildSeqFlagsCases
<1> HIDE DEF data, reject, case
<1>2. /\ case.name = <<"seq_flags", k - 1>> /\ case.category = "seq_flags"
      /\ case.expect_safe_reject = reject /\ case.checksum_valid = TRUE
  BY <1>1, Zenon DEF Case, PacketCase
<1>3. case.expect_safe_reject <=> reject
  BY <1>2, Zenon
<1>4. case.name[1] = "seq_flags"
  BY <1>2
<1> QED
  BY <1>2, <1>3, <1>4, Zenon DEF reject, case

LEMMA LengthLabels ==
    ASSUME NEW k \in 1 .. 4
    PROVE  /\ BuildPacketLengthCases[k].category = "packet_length"
           /\ BuildPacketLengthCases[k].expect_safe_reject = TRUE
           /\ BuildPacketLengthCases[k].checksum_valid = TRUE
           /\ BuildPacketLengthCases[k].name[1] \notin {"command_bad_checksum", "command_invalid_function"}
<1> DEFINE name == LengthScenarios[k].name
<1>1. name \notin {"command_bad_checksum", "command_invalid_function"}
  BY DEF LengthScenarios
<1> HIDE DEF name
<1>2. BuildPacketLengthCases[k] =
         Case(<<name, 0>>, "packet_length", ToBytes(ValidHeader, Counting, LengthScenarios[k].declared), TRUE)
  BY Zenon DEF BuildPacketLengthCases, name
<1> QED
  BY <1>1, <1>2 DEF Case, PacketCase

LEMMA DefectsOfCases ==
    ASSUME AsSized, NEW apid \in SUBSET APID_MAX, apid # None
    PROVE  /\ AimedAt(BuildKnownGoodNoopCase[1], apid) = {}
           /\ AimedAt(BuildCommandMalformedCases[1], apid) = {"checksum"}
           /\ AimedAt(BuildCommandMalformedCases[2], apid) = {"function"}
           /\ AimedAt(BuildCommandMalformedCases[3], apid) = {"length"}
           /\ \A v \in 1 .. 7 : AimedAt(BuildVersionCases[v], apid) = {"version"}
           /\ \A k \in 1 .. 4 :
                 AimedAt(BuildSeqFlagsCases[k], apid) =
                    IF Bits(k - 1, 2) # SEQ_FLAGS_UNSEGMENTED THEN {"seq_flags"} ELSE {}
           /\ \A k \in 1 .. 4 : AimedAt(BuildPacketLengthCases[k], apid) = {"length"}
<1>1. Bits(1, LengthBits) = Bits(2 - 1, LengthBits) /\ Bits(3, LengthBits) = Bits(4 - 1, LengthBits)
  OBVIOUS
<1>2. Bits(2, LengthBits) # Bits(2 - 1, LengthBits) /\ Bits(3, LengthBits) = {0, 1}
  BY FieldLengths
<1>3. 2 \in {2, 4} /\ 4 \in {2, 4} /\ AllOnes # {} /\ TRUE \in BOOLEAN /\ FALSE \in BOOLEAN
  BY DEF AllOnes
<1>4. AimedAt(BuildKnownGoodNoopCase[1], apid) = {}
  <2> DEFINE case == BuildKnownGoodNoopCase[1]
  <2>1. case.checksum_valid = TRUE
    BY MalformedLabels, Zenon
  <2>2. Made(case, "known_good", Declaring(NoopHeader, 1), 2, {})
    BY KnownGoodMade, Zenon
  <2> HIDE DEF case
  <2>4. "known_good" \notin {"apid", "secondary_header"} /\ case.checksum_valid \in BOOLEAN
    BY <1>3, <2>1, Zenon
  <2>5. /\ AimedAt(case, apid) \subseteq {"version", "seq_flags", "length", "function", "checksum"}
        /\ "version" \in AimedAt(case, apid) <=> NoopHeader.version # {}
        /\ "seq_flags" \in AimedAt(case, apid) <=> NoopHeader.seq_flags # SEQ_FLAGS_UNSEGMENTED
        /\ "length" \in AimedAt(case, apid) <=> Bits(1, LengthBits) # Bits(2 - 1, LengthBits)
        /\ "function" \in AimedAt(case, apid) <=> {} # {}
        /\ "checksum" \in AimedAt(case, apid) <=> ~case.checksum_valid
    BY <1>3, <2>2, <2>4, PlainHeaders, MadeDefects, Zenon
  <2>6. /\ "version" \notin AimedAt(case, apid)
        /\ "seq_flags" \notin AimedAt(case, apid)
        /\ "length" \notin AimedAt(case, apid)
        /\ "function" \notin AimedAt(case, apid)
        /\ "checksum" \notin AimedAt(case, apid)
    BY <1>1, <1>2, <1>3, <2>1, <2>5, PlainHeaders, Zenon
  <2> QED
    BY <2>5, <2>6 DEF case
<1>5. AimedAt(BuildCommandMalformedCases[1], apid) = {"checksum"}
  <2> DEFINE case == BuildCommandMalformedCases[1]
  <2>1. case.checksum_valid = FALSE
    BY MalformedLabels, Zenon
  <2>2. Made(case, "command_malformed", Declaring(NoopHeader, 1), 2, {})
    BY MalformedMade, Zenon
  <2> HIDE DEF case
  <2>4. "command_malformed" \notin {"apid", "secondary_header"} /\ case.checksum_valid \in BOOLEAN
    BY <1>3, <2>1, Zenon
  <2>5. /\ AimedAt(case, apid) \subseteq {"version", "seq_flags", "length", "function", "checksum"}
        /\ "version" \in AimedAt(case, apid) <=> NoopHeader.version # {}
        /\ "seq_flags" \in AimedAt(case, apid) <=> NoopHeader.seq_flags # SEQ_FLAGS_UNSEGMENTED
        /\ "length" \in AimedAt(case, apid) <=> Bits(1, LengthBits) # Bits(2 - 1, LengthBits)
        /\ "function" \in AimedAt(case, apid) <=> {} # {}
        /\ "checksum" \in AimedAt(case, apid) <=> ~case.checksum_valid
    BY <1>3, <2>2, <2>4, PlainHeaders, MadeDefects, Zenon
  <2>6. /\ "version" \notin AimedAt(case, apid)
        /\ "seq_flags" \notin AimedAt(case, apid)
        /\ "length" \notin AimedAt(case, apid)
        /\ "function" \notin AimedAt(case, apid)
        /\ "checksum" \in AimedAt(case, apid)
    BY <1>1, <1>2, <1>3, <2>1, <2>5, PlainHeaders, Zenon
  <2> QED
    BY <2>5, <2>6 DEF case
<1>6. AimedAt(BuildCommandMalformedCases[2], apid) = {"function"}
  <2> DEFINE case == BuildCommandMalformedCases[2]
  <2>1. case.checksum_valid = TRUE
    BY MalformedLabels, Zenon
  <2>2. Made(case, "command_malformed", Declaring(NoopHeader, 1), 2, AllOnes)
    BY MalformedMade, Zenon
  <2> HIDE DEF case
  <2>4. "command_malformed" \notin {"apid", "secondary_header"} /\ case.checksum_valid \in BOOLEAN
    BY <1>3, <2>1, Zenon
  <2>5. /\ AimedAt(case, apid) \subseteq {"version", "seq_flags", "length", "function", "checksum"}
        /\ "version" \in AimedAt(case, apid) <=> NoopHeader.version # {}
        /\ "seq_flags" \in AimedAt(case, apid) <=> NoopHeader.seq_flags # SEQ_FLAGS_UNSEGMENTED
        /\ "length" \in AimedAt(case, apid) <=> Bits(1, LengthBits) # Bits(2 - 1, LengthBits)
        /\ "function" \in AimedAt(case, apid) <=> AllOnes # {}
        /\ "checksum" \in AimedAt(case, apid) <=> ~case.checksum_valid
    BY <1>3, <2>2, <2>4, PlainHeaders, MadeDefects, Zenon
  <2>6. /\ "version" \notin AimedAt(case, apid)
        /\ "seq_flags" \notin AimedAt(case, apid)
        /\ "length" \notin AimedAt(case, apid)
        /\ "function" \in AimedAt(case, apid)
        /\ "checksum" \notin AimedAt(case, apid)
    BY <1>1, <1>2, <1>3, <2>1, <2>5, PlainHeaders, Zenon
  <2> QED
    BY <2>5, <2>6 DEF case
<1>7. AimedAt(BuildCommandMalformedCases[3], apid) = {"length"}
  <2> DEFINE case == BuildCommandMalformedCases[3]
  <2>1. case.checksum_valid = TRUE
    BY MalformedLabels, Zenon
  <2>2. Made(case, "command_malformed", Declaring(Declaring(NoopHeader, 1), 2), 2, {})
    BY MalformedMade, Zenon
  <2> HIDE DEF case
  <2>4. "command_malformed" \notin {"apid", "secondary_header"} /\ case.checksum_valid \in BOOLEAN
    BY <1>3, <2>1, Zenon
  <2>5. /\ AimedAt(case, apid) \subseteq {"version", "seq_flags", "length", "function", "checksum"}
        /\ "version" \in AimedAt(case, apid) <=> Declaring(NoopHeader, 1).version # {}
        /\ "seq_flags" \in AimedAt(case, apid) <=> Declaring(NoopHeader, 1).seq_flags # SEQ_FLAGS_UNSEGMENTED
        /\ "length" \in AimedAt(case, apid) <=> Bits(2, LengthBits) # Bits(2 - 1, LengthBits)
        /\ "function" \in AimedAt(case, apid) <=> {} # {}
        /\ "checksum" \in AimedAt(case, apid) <=> ~case.checksum_valid
    BY <1>3, <2>2, <2>4, PlainHeaders, MadeDefects, Zenon
  <2>6. /\ "version" \notin AimedAt(case, apid)
        /\ "seq_flags" \notin AimedAt(case, apid)
        /\ "length" \in AimedAt(case, apid)
        /\ "function" \notin AimedAt(case, apid)
        /\ "checksum" \notin AimedAt(case, apid)
    BY <1>1, <1>2, <1>3, <2>1, <2>5, PlainHeaders, Zenon
  <2> QED
    BY <2>5, <2>6 DEF case
<1>8. ASSUME NEW v \in 1 .. 7 PROVE AimedAt(BuildVersionCases[v], apid) = {"version"}
  <2> DEFINE case == BuildVersionCases[v]
  <2>1. case.checksum_valid = TRUE
    BY VersionLabels, Zenon
  <2>2. Made(case, "version", Declaring(VersionHeader(v), 3), 4, {}) /\ VersionHeader(v) \in Header
    BY VersionMade, Zenon
  <2>3. VersionHeader(v).version # {} /\ VersionHeader(v).seq_flags = SEQ_FLAGS_UNSEGMENTED
    BY VersionBits DEF VersionHeader, ValidHeader
  <2> HIDE DEF case
  <2>4. "version" \notin {"apid", "secondary_header"} /\ case.checksum_valid \in BOOLEAN
    BY <1>3, <2>1, Zenon
  <2>5. /\ AimedAt(case, apid) \subseteq {"version", "seq_flags", "length", "function", "checksum"}
        /\ "version" \in AimedAt(case, apid) <=> VersionHeader(v).version # {}
        /\ "seq_flags" \in AimedAt(case, apid) <=> VersionHeader(v).seq_flags # SEQ_FLAGS_UNSEGMENTED
        /\ "length" \in AimedAt(case, apid) <=> Bits(3, LengthBits) # Bits(4 - 1, LengthBits)
        /\ "function" \in AimedAt(case, apid) <=> {} # {}
        /\ "checksum" \in AimedAt(case, apid) <=> ~case.checksum_valid
    BY <1>3, <2>2, <2>4, PlainHeaders, MadeDefects, Zenon
  <2>6. /\ "version" \in AimedAt(case, apid)
        /\ "seq_flags" \notin AimedAt(case, apid)
        /\ "length" \notin AimedAt(case, apid)
        /\ "function" \notin AimedAt(case, apid)
        /\ "checksum" \notin AimedAt(case, apid)
    BY <1>1, <1>2, <1>3, <2>1, <2>5, <2>3, PlainHeaders, Zenon
  <2> QED
    BY <2>5, <2>6 DEF case
<1>9. ASSUME NEW k \in 1 .. 4
      PROVE  AimedAt(BuildSeqFlagsCases[k], apid) =
                IF Bits(k - 1, 2) # SEQ_FLAGS_UNSEGMENTED THEN {"seq_flags"} ELSE {}
  <2> DEFINE case == BuildSeqFlagsCases[k]
             flags == Bits(k - 1, 2)
  <2>1. case.checksum_valid = TRUE
    BY FlagsLabels, Zenon
  <2>2. Made(case, "seq_flags", Declaring(FlagsHeader(flags), 3), 4, {}) /\ FlagsHeader(flags) \in Header
    BY FlagsMade, Zenon
  <2>3. FlagsHeader(flags).version = {} /\ FlagsHeader(flags).seq_flags = flags
    BY DEF FlagsHeader, ValidHeader
  <2> HIDE DEF case, flags
  <2>4. "seq_flags" \notin {"apid", "secondary_header"} /\ case.checksum_valid \in BOOLEAN
    BY <1>3, <2>1, Zenon
  <2>5. /\ AimedAt(case, apid) \subseteq {"version", "seq_flags", "length", "function", "checksum"}
        /\ "version" \in AimedAt(case, apid) <=> FlagsHeader(flags).version # {}
        /\ "seq_flags" \in AimedAt(case, apid) <=> FlagsHeader(flags).seq_flags # SEQ_FLAGS_UNSEGMENTED
        /\ "length" \in AimedAt(case, apid) <=> Bits(3, LengthBits) # Bits(4 - 1, LengthBits)
        /\ "function" \in AimedAt(case, apid) <=> {} # {}
        /\ "checksum" \in AimedAt(case, apid) <=> ~case.checksum_valid
    BY <1>3, <2>2, <2>4, PlainHeaders, MadeDefects, Zenon
  <2>6. /\ "version" \notin AimedAt(case, apid)
        /\ "seq_flags" \in AimedAt(case, apid) <=> flags # SEQ_FLAGS_UNSEGMENTED
        /\ "length" \notin AimedAt(case, apid)
        /\ "function" \notin AimedAt(case, apid)
        /\ "checksum" \notin AimedAt(case, apid)
    BY <1>1, <1>2, <1>3, <2>1, <2>5, <2>3, PlainHeaders, Zenon
  <2> QED
    BY <2>5, <2>6 DEF case, flags
<1>10. ASSUME NEW k \in 1 .. 4 PROVE AimedAt(BuildPacketLengthCases[k], apid) = {"length"}
  <2> DEFINE case == BuildPacketLengthCases[k]
  <2>1. case.checksum_valid = TRUE
    BY LengthLabels, Zenon
  <2>2. PICK n \in Nat : /\ n # 3 /\ n < 2^LengthBits
                         /\ Made(case, "packet_length", Declaring(ValidHeader, n), 4, {})
    BY LengthsMade, Zenon
  <2>3. Bits(n, LengthBits) # Bits(4 - 1, LengthBits)
    BY <1>2, <2>2, FieldLengths
  <2> HIDE DEF case
  <2>4. "packet_length" \notin {"apid", "secondary_header"} /\ case.checksum_valid \in BOOLEAN
    BY <1>3, <2>1, Zenon
  <2>5. /\ AimedAt(case, apid) \subseteq {"version", "seq_flags", "length", "function", "checksum"}
        /\ "version" \in AimedAt(case, apid) <=> ValidHeader.version # {}
        /\ "seq_flags" \in AimedAt(case, apid) <=> ValidHeader.seq_flags # SEQ_FLAGS_UNSEGMENTED
        /\ "length" \in AimedAt(case, apid) <=> Bits(n, LengthBits) # Bits(4 - 1, LengthBits)
        /\ "function" \in AimedAt(case, apid) <=> {} # {}
        /\ "checksum" \in AimedAt(case, apid) <=> ~case.checksum_valid
    BY <1>3, <2>2, <2>4, PlainHeaders, MadeDefects, Zenon
  <2>6. /\ "version" \notin AimedAt(case, apid)
        /\ "seq_flags" \notin AimedAt(case, apid)
        /\ "length" \in AimedAt(case, apid)
        /\ "function" \notin AimedAt(case, apid)
        /\ "checksum" \notin AimedAt(case, apid)
    BY <1>1, <1>2, <1>3, <2>1, <2>5, <2>3, PlainHeaders, Zenon
  <2> QED
    BY <2>5, <2>6 DEF case
<1> QED
  BY <1>4, <1>5, <1>6, <1>7, <1>8, <1>9, <1>10

-----------------------------------------------------------------------------
(***************************************************************************)
(* The cases that need not be rejected: nothing is wrong with them by the  *)
(* standard.                                                               *)
(***************************************************************************)
Plain(case) ==
    /\ case.category # "apid"
    /\ \E header \in Header, size \in 2 .. 16 :
          /\ header.version = {} /\ header.apid = DefaultApid
          /\ \E function : Shaped(case.packet_bytes, Declaring(header, size - 1), size, function)

LEMMA CarriedHasNoIssues ==
    ASSUME NEW data, NEW header, NEW payload \in Seq(Octet), Carries(data, header, payload),
           header.version = {}, header.apid # APID_MAX, DataLengthIs(header, Len(payload))
    PROVE  ParsedIssues(data) = {}
<1>1. /\ data \in Seq(Octet) /\ Len(data) = 6 + Len(payload) /\ Unpack(data) = header
      /\ Len(payload) \in Nat /\ Len(data) >= 6
  BY LenProperties DEF Carries
<1>2. Len(Payload(data)) = Len(payload)
  BY <1>1, PayloadIsOctets
<1> DEFINE wrong == [version |-> header.version # {},
                     idle    |-> header.apid = APID_MAX,
                     length  |-> ~DataLengthIs(header, Len(Payload(data))),
                     size    |-> Len(Payload(data)) > MAX_PACKET_DATA_LENGTH]
<1>3. Len(payload) \in 1 .. MAX_PACKET_DATA_LENGTH
  BY DEF DataLengthIs
<1>4. MAX_PACKET_DATA_LENGTH \in Int
  <2>1. LengthBits \in 0 .. 16 /\ LengthBits + 1 \in 1 .. 17
    BY LengthAssumption
  <2>2. 2^LengthBits = Weight[LengthBits + 1]
    BY <2>1, WeightsArePowers, Zenon
  <2>3. Weight \in Seq(Nat) /\ Len(Weight) = 17
    BY DEF Weight
  <2>4. Weight[LengthBits + 1] \in Nat
    BY <2>1, <2>3, ElementOfSeq
  <2> QED
    BY <2>2, <2>4 DEF MAX_PACKET_DATA_LENGTH, PACKET_DATA_LENGTH_MAX
<1>5. ~(Len(Payload(data)) > MAX_PACKET_DATA_LENGTH)
  BY <1>1, <1>2, <1>3, <1>4
<1>6. DOMAIN wrong = {"version", "idle", "length", "size"}
  OBVIOUS
<1>7. ~wrong["version"] /\ ~wrong["idle"] /\ ~wrong["length"] /\ ~wrong["size"]
  <2>1. wrong["version"] = (header.version # {}) /\ wrong["idle"] = (header.apid = APID_MAX)
        /\ wrong["length"] = ~DataLengthIs(header, Len(Payload(data)))
        /\ wrong["size"] = (Len(Payload(data)) > MAX_PACKET_DATA_LENGTH)
    BY Zenon
  <2> HIDE DEF wrong
  <2> QED
    BY <1>2, <1>5, <2>1, Zenon
<1>8. ParsedIssues(data) = {issue \in DOMAIN wrong : wrong[issue]}
  BY <1>1, Zenon DEF ParsedIssues, Issues
<1> HIDE DEF wrong
<1>9. \A issue \in DOMAIN wrong : ~wrong[issue]
  BY <1>6, <1>7
<1> QED
  BY <1>8, <1>9, Zenon

LEMMA PlainHasNoIssues ==
    ASSUME AsSized, NEW case, Plain(case), NEW apid \in (SUBSET APID_MAX) \cup {None}, apid # APID_MAX
    PROVE  ParsedIssues(Retargeted(case, apid).packet_bytes) = {}
<1>1. PICK header \in Header, size \in 2 .. 16 :
         /\ header.version = {} /\ header.apid = DefaultApid
         /\ \E function : Shaped(case.packet_bytes, Declaring(header, size - 1), size, function)
  BY DEF Plain
<1> DEFINE h == Declaring(header, size - 1)
<1>2. PICK payload \in Seq(Octet) : Len(payload) = size /\ Formed(case.packet_bytes, h, payload)
  BY <1>1 DEF Shaped
<1>3. size \in 1 .. MAX_PACKET_DATA_LENGTH
  BY <1>1, SizesOfFields
<1>4. h \in Header /\ DataLengthIs(h, size)
  BY <1>3, DeclaredLength
<1>5. h.version = {} /\ h.apid = DefaultApid
  BY <1>1 DEF Declaring, Header
<1>6. DefaultApid # APID_MAX
  BY DEF DefaultApid, APID_MAX
<1> HIDE DEF h
<1>7. CASE apid = None
  <2>1. Retargeted(case, apid).packet_bytes = case.packet_bytes
    BY <1>7 DEF Retargeted
  <2>2. Carries(case.packet_bytes, h, payload)
    BY <1>2, FormedCarries
  <2> QED
    BY <1>2, <1>4, <1>5, <1>6, <2>1, <2>2, CarriedHasNoIssues
<1>8. CASE apid # None
  <2> DEFINE g == Commanding(h, case.category, apid)
             data == Retargeted(case, apid).packet_bytes
  <2>1. case.category # "apid" /\ apid \in SUBSET APID_MAX
    BY <1>8 DEF Plain
  <2>2. Carries(data, g, payload)
    BY <1>2, <1>8, <2>1, RetargetedCarries, Zenon
  <2>3. /\ g.version = h.version /\ g.apid = apid
        /\ g.packet_data_length_field = h.packet_data_length_field
    BY <1>4 DEF Commanding, Header
  <2> HIDE DEF g, data
  <2>4. DataLengthIs(g, Len(payload))
    BY <1>2, <1>4, <2>3, Zenon DEF DataLengthIs
  <2>5. g.version = {} /\ g.apid # APID_MAX
    BY <1>5, <2>3, Zenon
  <2>6. ParsedIssues(data) = {}
    BY <1>2, <2>2, <2>4, <2>5, CarriedHasNoIssues, Zenon
  <2> QED
    BY <2>6 DEF data
<1> QED
  BY <1>7, <1>8

LEMMA SecondaryMade ==
    Made(BuildSecondaryHeaderFlagCases[2], "secondary_header", Declaring(ValidHeader, 3), 4, AllOnes)
<1> DEFINE payload == <<AllOnes, AllOnes, {}, {0}>>
<1>1. payload \in Seq(Octet) /\ Len(payload) = 4 /\ payload[1] = AllOnes
  BY PayloadsAreOctets
<1>2. LengthField(payload) = 3
  BY <1>1, EmptySeq DEF LengthField
<1>3. BuildSecondaryHeaderFlagCases[2] =
         PacketCase(<<"sec_hdr_flag_clear_but_present", 0>>, "secondary_header",
                    ToBytes(ValidHeader, payload, None), FALSE, FALSE, TRUE)
  BY DEF BuildSecondaryHeaderFlagCases, Case
<1> HIDE DEF payload
<1>4. Shaped(ToBytes(ValidHeader, payload, None), Declaring(ValidHeader, 3), 4, AllOnes)
  BY <1>1, <1>2, ValidHeaderIsHeader, ShapedBuilt, Zenon
<1> QED
  BY <1>3, <1>4, PacketCaseMade

LEMMA DegenerateMade ==
    /\ Made(BuildDegeneratePayloadCases[1], "degenerate_payload", Declaring(ValidHeader, 15), 16, {})
    /\ Made(BuildDegeneratePayloadCases[2], "degenerate_payload", Declaring(ValidHeader, 15), 16, AllOnes)
<1> DEFINE payload == [k \in 1 .. 16 |-> AllOnes]
<1>1. payload \in Seq(Octet) /\ Len(payload) = 16 /\ payload[1] = AllOnes
  BY PayloadsAreOctets
<1>2. Zeros(16) \in Seq(Octet) /\ Len(Zeros(16)) = 16 /\ Zeros(16)[1] = {}
  BY ZerosAreOctets DEF Zeros
<1>3. LengthField(payload) = 15 /\ LengthField(Zeros(16)) = 15
  BY <1>1, <1>2, EmptySeq DEF LengthField
<1>4. BuildDegeneratePayloadCases[1] =
         PacketCase(<<"degenerate_all_zero", 0>>, "degenerate_payload",
                    ToBytes(ValidHeader, Zeros(16), None), FALSE, FALSE, TRUE)
  BY DEF BuildDegeneratePayloadCases, Case
<1>5. BuildDegeneratePayloadCases[2] =
         PacketCase(<<"degenerate_all_ff", 0>>, "degenerate_payload",
                    ToBytes(ValidHeader, payload, None), FALSE, FALSE, TRUE)
  BY DEF BuildDegeneratePayloadCases, Case
<1> HIDE DEF payload
<1>6. Shaped(ToBytes(ValidHeader, Zeros(16), None), Declaring(ValidHeader, 15), 16, {})
  BY <1>2, <1>3, ValidHeaderIsHeader, ShapedBuilt, Zenon
<1>7. Shaped(ToBytes(ValidHeader, payload, None), Declaring(ValidHeader, 15), 16, AllOnes)
  BY <1>1, <1>3, ValidHeaderIsHeader, ShapedBuilt, Zenon
<1> QED
  BY <1>4, <1>5, <1>6, <1>7, PacketCaseMade

LEMMA MadeIsPlain ==
    ASSUME NEW case, NEW category, NEW header \in Header, NEW n, NEW size \in 2 .. 16, n = size - 1,
           NEW function, Made(case, category, Declaring(header, n), size, function), category # "apid",
           header.version = {}, header.apid = DefaultApid
    PROVE  Plain(case)
  BY Zenon DEF Made, Plain

\* The labels of the cases that must be rejected.
LEMMA RejectLabels ==
    /\ \A i \in 1 .. 3 : BuildCommandMalformedCases[i].expect_safe_reject = TRUE
    /\ \A i \in 1 .. 7 : BuildVersionCases[i].expect_safe_reject = TRUE
    /\ \A i \in 1 .. 3 : BuildApidCases[i].expect_safe_reject = TRUE
    /\ \A i \in 1 .. 4 : BuildPacketLengthCases[i].expect_safe_reject = TRUE
    /\ BuildSecondaryHeaderFlagCases[1].expect_safe_reject = TRUE
    /\ \A i \in 1 .. 6 : BuildTruncationCases[i].expect_safe_reject = TRUE
    /\ \A i \in 1 .. 3 : BuildOversizedCases[i].expect_safe_reject = TRUE
    /\ BuildDegeneratePayloadCases[3].expect_safe_reject = TRUE
<1>1. \A i \in 1 .. 3 : BuildCommandMalformedCases[i].expect_safe_reject = TRUE
  BY DEF BuildCommandMalformedCases, Case, PacketCase
<1>2. \A i \in 1 .. 7 : BuildVersionCases[i].expect_safe_reject = TRUE
  BY VersionLabels
<1>3. \A i \in 1 .. 3 : BuildApidCases[i].expect_safe_reject = TRUE
  BY DEF BuildApidCases, Case, PacketCase
<1>4. \A i \in 1 .. 4 : BuildPacketLengthCases[i].expect_safe_reject = TRUE
  BY LengthLabels
<1>5. BuildSecondaryHeaderFlagCases[1].expect_safe_reject = TRUE
  BY DEF BuildSecondaryHeaderFlagCases, Case, PacketCase
<1>6. \A i \in 1 .. 6 : BuildTruncationCases[i].expect_safe_reject = TRUE
  BY DEF BuildTruncationCases, Case, PacketCase, PRIMARY_HEADER_SIZE
<1>7. \A i \in 1 .. 3 : BuildOversizedCases[i].expect_safe_reject = TRUE
  BY DEF BuildOversizedCases, Oversized, Case, PacketCase
<1>8. BuildDegeneratePayloadCases[3].expect_safe_reject = TRUE
  BY DEF BuildDegeneratePayloadCases, Case, PacketCase
<1> QED
  BY <1>1, <1>2, <1>3, <1>4, <1>5, <1>6, <1>7, <1>8

LEMMA AcceptableIsPlain ==
    ASSUME AsSized, NEW k \in 1 .. 36, ~GenerateAll[k].expect_safe_reject
    PROVE  Plain(GenerateAll[k])
<1>1. /\ 2 \in 2 .. 16 /\ 4 \in 2 .. 16 /\ 16 \in 2 .. 16 /\ 1 = 2 - 1 /\ 3 = 4 - 1 /\ 15 = 16 - 1
      /\ "known_good" # "apid" /\ "seq_flags" # "apid" /\ "secondary_header" # "apid"
      /\ "degenerate_payload" # "apid"
  OBVIOUS
<1>2. /\ ValidHeader.version = {} /\ ValidHeader.apid = DefaultApid /\ ValidHeader \in Header
      /\ NoopHeader.version = {} /\ NoopHeader.apid = DefaultApid /\ NoopHeader \in Header
  BY PlainHeaders, ValidHeaderIsHeader
<1>3. Plain(BuildKnownGoodNoopCase[1])
  BY <1>1, <1>2, KnownGoodMade, MadeIsPlain
<1>4. ASSUME NEW i \in 1 .. 4 PROVE Plain(BuildSeqFlagsCases[i])
  <2> DEFINE flags == Bits(i - 1, 2)
  <2>1. Made(BuildSeqFlagsCases[i], "seq_flags", Declaring(FlagsHeader(flags), 3), 4, {})
        /\ FlagsHeader(flags) \in Header
    BY FlagsMade, Zenon
  <2> HIDE DEF flags
  <2>2. FlagsHeader(flags).version = {} /\ FlagsHeader(flags).apid = DefaultApid
    BY <1>2, <2>1 DEF FlagsHeader, ValidHeader
  <2> QED
    BY <1>1, <2>1, <2>2, MadeIsPlain
<1>5. Plain(BuildSecondaryHeaderFlagCases[2])
  BY <1>1, <1>2, SecondaryMade, MadeIsPlain
<1>6. Plain(BuildDegeneratePayloadCases[1]) /\ Plain(BuildDegeneratePayloadCases[2])
  BY <1>1, <1>2, DegenerateMade, MadeIsPlain
<1>7. \A i \in 1 .. 2 : i = 1 \/ i = 2
  OBVIOUS
<1>8. \A i \in 1 .. 3 : i = 1 \/ i = 2 \/ i = 3
  OBVIOUS
<1> QED
  BY <1>3, <1>4, <1>5, <1>6, <1>7, <1>8, CaseOfBuilder, RejectLabels, Zenon

LEMMA NamedInOrder ==
    /\ BuildKnownGoodNoopCase[1].category = "known_good"
    /\ \A i \in 1 .. 3 : BuildApidCases[i].category = "apid"
    /\ \A i \in 1 .. 2 : BuildSecondaryHeaderFlagCases[i].category = "secondary_header"
    /\ \A i \in 1 .. 6 : BuildTruncationCases[i].category = "truncation"
    /\ \A i \in 1 .. 3 : BuildOversizedCases[i].category = "oversized"
    /\ \A i \in 1 .. 3 : BuildDegeneratePayloadCases[i].category = "degenerate_payload"
<1>1. BuildKnownGoodNoopCase[1].category = "known_good"
  BY MalformedLabels
<1>2. \A i \in 1 .. 3 : BuildApidCases[i].category = "apid"
  BY DEF BuildApidCases, Case, PacketCase
<1>3. \A i \in 1 .. 2 : BuildSecondaryHeaderFlagCases[i].category = "secondary_header"
  BY DEF BuildSecondaryHeaderFlagCases, Case, PacketCase
<1>4. \A i \in 1 .. 6 : BuildTruncationCases[i].category = "truncation"
  BY DEF BuildTruncationCases, Case, PacketCase, PRIMARY_HEADER_SIZE
<1>5. \A i \in 1 .. 3 : BuildOversizedCases[i].category = "oversized"
  BY DEF BuildOversizedCases, Oversized, Case, PacketCase
<1>6. \A i \in 1 .. 3 : BuildDegeneratePayloadCases[i].category = "degenerate_payload"
  BY DEF BuildDegeneratePayloadCases, Case, PacketCase
<1> QED
  BY <1>1, <1>2, <1>3, <1>4, <1>5, <1>6

LEMMA PreciseCases ==
    ASSUME AsSized, NEW k \in 1 .. 36, NEW apid \in SUBSET APID_MAX, apid # None,
           GenerateAll[k].category \in {"known_good", "command_malformed", "version", "seq_flags", "packet_length"}
    PROVE  AimedAt(GenerateAll[k], apid) = DefectOf(GenerateAll[k])
<1> DEFINE Right(case) == AimedAt(case, apid) = DefectOf(case)
<1>1. AimedAt(BuildKnownGoodNoopCase[1], apid) = DefectOf(BuildKnownGoodNoopCase[1])
  <2>1. BuildKnownGoodNoopCase[1].name[1] = "ci_lab_noop"
    BY DEF BuildKnownGoodNoopCase, Case, PacketCase
  <2>2. DefectOf(BuildKnownGoodNoopCase[1]) = {}
    BY <2>1, NamedInOrder DEF DefectOf
  <2> QED
    BY <2>2, DefectsOfCases, Zenon
<1>2. ASSUME NEW i \in 1 .. 3
      PROVE  AimedAt(BuildCommandMalformedCases[i], apid) = DefectOf(BuildCommandMalformedCases[i])
  <2>1. /\ DefectOf(BuildCommandMalformedCases[1]) = {"checksum"}
        /\ DefectOf(BuildCommandMalformedCases[2]) = {"function"}
        /\ DefectOf(BuildCommandMalformedCases[3]) = {"length"}
    BY MalformedLabels DEF DefectOf
  <2>2. i = 1 \/ i = 2 \/ i = 3
    OBVIOUS
  <2> QED
    BY <2>1, <2>2, DefectsOfCases, Zenon
<1>3. ASSUME NEW i \in 1 .. 7 PROVE AimedAt(BuildVersionCases[i], apid) = DefectOf(BuildVersionCases[i])
  <2>1. DefectOf(BuildVersionCases[i]) = {"version"}
    BY VersionLabels DEF DefectOf
  <2> QED
    BY <2>1, DefectsOfCases, Zenon
<1>4. ASSUME NEW i \in 1 .. 4 PROVE AimedAt(BuildSeqFlagsCases[i], apid) = DefectOf(BuildSeqFlagsCases[i])
  <2> DEFINE case == BuildSeqFlagsCases[i]
             reject == Bits(i - 1, 2) # SEQ_FLAGS_UNSEGMENTED
  <2>1. AimedAt(case, apid) = IF reject THEN {"seq_flags"} ELSE {}
    BY DefectsOfCases, Zenon
  <2>2. case.category = "seq_flags" /\ case.name[1] = "seq_flags" /\ (case.expect_safe_reject <=> reject)
    BY FlagsLabels, Zenon
  <2> HIDE DEF case, reject
  <2>3. /\ case.expect_safe_reject => DefectOf(case) = {"seq_flags"}
        /\ ~case.expect_safe_reject => DefectOf(case) = {}
    <3>1. case.category = "seq_flags" /\ case.name[1] = "seq_flags"
      BY <2>2, Zenon
    <3> QED
      BY <3>1 DEF DefectOf
  <2>4. AimedAt(case, apid) = DefectOf(case)
    BY <2>1, <2>2, <2>3, Zenon
  <2> QED
    BY <2>4 DEF case
<1>5. ASSUME NEW i \in 1 .. 4 PROVE AimedAt(BuildPacketLengthCases[i], apid) = DefectOf(BuildPacketLengthCases[i])
  <2>1. DefectOf(BuildPacketLengthCases[i]) = {"length"}
    BY LengthLabels DEF DefectOf
  <2> QED
    BY <2>1, DefectsOfCases, Zenon
<1>6. /\ \A i \in 1 .. 3 : BuildApidCases[i].category # GenerateAll[k].category
      /\ \A i \in 1 .. 2 : BuildSecondaryHeaderFlagCases[i].category # GenerateAll[k].category
      /\ \A i \in 1 .. 6 : BuildTruncationCases[i].category # GenerateAll[k].category
      /\ \A i \in 1 .. 3 : BuildOversizedCases[i].category # GenerateAll[k].category
      /\ \A i \in 1 .. 3 : BuildDegeneratePayloadCases[i].category # GenerateAll[k].category
  BY NamedInOrder
<1>7. /\ Right(BuildKnownGoodNoopCase[1])
      /\ \A i \in 1 .. 3 : Right(BuildCommandMalformedCases[i])
      /\ \A i \in 1 .. 7 : Right(BuildVersionCases[i])
      /\ \A i \in 1 .. 4 : Right(BuildSeqFlagsCases[i])
      /\ \A i \in 1 .. 4 : Right(BuildPacketLengthCases[i])
  BY <1>1, <1>2, <1>3, <1>4, <1>5, Zenon
<1> HIDE DEF Right
<1>8. Right(GenerateAll[k])
  BY <1>6, <1>7, CaseOfBuilder
<1> QED
  BY <1>8, Zenon DEF Right

\* At every application a case breaks the rule of the target in the field that it
\* is about and in no other, and a case that need not be rejected is sound by the
\* standard: building, resealing and retargeting bring in no defect of their own.
THEOREM DefectsAreIntended == ASSUME AsSized PROVE Spec => []OneDefectEach
<1>1. IInv => OneDefectEach
  <2> SUFFICES ASSUME IInv, InSuite
               PROVE  /\ config.target_apid # None
                           /\ Suite[Position].category \in {"known_good", "command_malformed", "version",
                                                            "seq_flags", "packet_length"}
                        => Defects(Packet, CommandMid(Aim)) = DefectOf(Suite[Position])
                      /\ ~Suite[Position].expect_safe_reject /\ Aim # APID_MAX => ParsedIssues(Packet) = {}
    BY Zenon DEF OneDefectEach
  <2> DEFINE apid == config.target_apid
             k == Nth(Selected, Position)
  <2>1. apid \in (SUBSET APID_MAX) \cup {None}
    BY DEF IInv, Aimed, Configured, InSuite
  <2>2. k \in 1 .. 36 /\ Suite[Position] = GenerateAll[k]
    BY SuiteInOrder DEF InSuite
  <2>3. Packet = Retargeted(Suite[Position], apid).packet_bytes
    BY DEF Packet
  <2>4. apid # None => Aim = apid
    BY DEF Aim
  <2>5. None # APID_MAX
    <3>1. 0 .. 10 \in SUBSET (0 .. 15)
      OBVIOUS
    <3> QED
      BY <3>1, NoneAssumption DEF APID_MAX, Word
  <2> HIDE DEF k
  <2>6. ASSUME apid # None,
               Suite[Position].category \in {"known_good", "command_malformed", "version",
                                             "seq_flags", "packet_length"}
        PROVE  Defects(Packet, CommandMid(Aim)) = DefectOf(Suite[Position])
    <3>1. AimedAt(GenerateAll[k], apid) = DefectOf(GenerateAll[k])
      BY <2>1, <2>2, <2>6, PreciseCases
    <3> QED
      BY <2>2, <2>3, <2>4, <2>6, <3>1, Zenon DEF AimedAt
  <2>7. ASSUME ~Suite[Position].expect_safe_reject, Aim # APID_MAX PROVE ParsedIssues(Packet) = {}
    <3>1. Plain(Suite[Position])
      BY <2>2, <2>7, AcceptableIsPlain, Zenon
    <3>2. apid # APID_MAX
      BY <2>4, <2>5, <2>7
    <3> QED
      BY <2>1, <2>3, <3>1, <3>2, PlainHasNoIssues, Zenon
  <2> QED
    BY <2>6, <2>7, Zenon
<1> QED
  BY <1>1, IInvIsInvariant, PTL

-----------------------------------------------------------------------------
(***************************************************************************)
(* The verdicts, case by case.                                             *)
(***************************************************************************)
LEMMA OneMoreVerdict ==
    ASSUME IInv, InSuite, NEW verdict \in Verdict, Judged(verdict)
    PROVE  /\ findings' \in Seq(Verdict) /\ Len(findings') = Position /\ findings'[Position] = verdict
           /\ \A k \in 1 .. Len(findings) : findings'[k] = findings[k]
           /\ Len(findings) \in Nat /\ Position = Len(findings) + 1 /\ Position \in DOMAIN Suite
           /\ build' = build /\ config' = config
           /\ step = "suite" /\ step' = IF Position = Len(Suite) THEN "exit" ELSE "suite"
<1>1. findings \in Seq(Verdict) /\ Len(findings) \in Nat
  BY LenProperties DEF IInv, ControlReached
<1> QED
  BY <1>1, AppendProperties DEF Judged, Goto, InSuite, Position

LEMMA StillIInv == ASSUME IInv, [Next]_vars PROVE IInv'
<1>1. CASE SetupNext /\ UNCHANGED suiteVars
  BY <1>1, SetupStepOK
<1>2. CASE CaseCounted \/ CaseKills \/ CaseNotCarried \/ TargetSilent
  BY <1>2, SuiteStepOK
<1>3. CASE Exit
  BY <1>3, ExitOK
<1>4. CASE UNCHANGED vars
  BY <1>4, StutterOK
<1> QED
  BY <1>1, <1>2, <1>3, <1>4 DEF Next

LEMMA CountedSays ==
    ASSUME IInv, ByteMod > 1, CaseCounted
    PROVE  LET verdict == Deltas!DeltaVerdict(Position, target, target')
           IN  /\ Judged(verdict) /\ InSuite /\ verdict \in Verdict
               /\ target'.up /\ target'.mid = target.mid /\ target'.buggy = target.buggy
               /\ Defects(Packet, target.mid) = {} =>
                     verdict = IF Position \in RejectIndices THEN "unexpected_accept" ELSE "clean_accept"
               /\ Defects(Packet, target.mid) # {} => verdict = "clean_reject"
<1> DEFINE field == IF Defects(Packet, target.mid) = {} THEN "command" ELSE "command_error"
           after == Counted(target.counters, field)
<1>1. target' = [target EXCEPT !.counters = after] /\ target.up /\ InSuite
  BY DEF CaseCounted, Handled
<1>2. Judged(Deltas!DeltaVerdict(Position, target, target'))
  BY DEF CaseCounted
<1>3. /\ Defects(Packet, target.mid) = {} => field = "command"
      /\ Defects(Packet, target.mid) # {} => field = "command_error"
  OBVIOUS
<1> HIDE DEF field
<1>4. target \in TargetType /\ target.counters \in Counters
  BY DEF IInv, TargetType
<1>5. /\ after.ingest_errors = target.counters.ingest_errors
      /\ field = "command" => /\ after.command # target.counters.command
                              /\ after.command_error = target.counters.command_error
      /\ field = "command_error" => /\ after.command_error # target.counters.command_error
                                    /\ after.command = target.counters.command
  <2>1. \A n \in 0 .. ByteMod - 1 : (n + 1) % ByteMod # n
    BY TargetAssumption
  <2>2. CASE field = "command"
    BY <1>4, <2>1, <2>2 DEF Counted, Counters
  <2>3. CASE field = "command_error"
    BY <1>4, <2>1, <2>3 DEF Counted, Counters
  <2>4. field = "command" \/ field = "command_error"
    BY <1>3
  <2> QED
    BY <2>2, <2>3, <2>4
<1> HIDE DEF after
<1>6. target'.counters = after /\ target'.up /\ target'.mid = target.mid
  BY <1>1, <1>4 DEF TargetType
<1>7. target'.buggy = target.buggy
  BY <1>1, <1>4, Zenon DEF TargetType
<1> DEFINE verdict == Deltas!DeltaVerdict(Position, target, target')
<1>8. /\ field = "command" =>
            verdict = IF Position \in RejectIndices THEN "unexpected_accept" ELSE "clean_accept"
      /\ field = "command_error" => verdict = "clean_reject"
      /\ verdict \in Verdict
  BY <1>5, <1>6 DEF Deltas!DeltaVerdict, Deltas!Changed, Verdict
<1> HIDE DEF verdict
<1> QED
  BY <1>1, <1>2, <1>3, <1>6, <1>7, <1>8, Zenon DEF verdict

-----------------------------------------------------------------------------
(***************************************************************************)
(* The control.                                                            *)
(***************************************************************************)
LEMMA OnlyOneControl ==
    ASSUME NEW n \in DOMAIN Suite, Suite[n].category = "known_good"
    PROVE  n = 1 /\ Suite[n] = BuildKnownGoodNoopCase[1]
<1> DEFINE k == Nth(Selected, n)
<1>1. /\ k \in 1 .. 36 /\ Suite[n] = GenerateAll[k] /\ k \in Selected
      /\ Cardinality({j \in Selected : j <= k}) = n
  BY SuiteInOrder
<1> HIDE DEF k
<1>2. /\ \A i \in 1 .. 3 : BuildCommandMalformedCases[i].category # "known_good"
      /\ \A i \in 1 .. 7 : BuildVersionCases[i].category # "known_good"
      /\ \A i \in 1 .. 3 : BuildApidCases[i].category # "known_good"
      /\ \A i \in 1 .. 4 : BuildSeqFlagsCases[i].category # "known_good"
      /\ \A i \in 1 .. 4 : BuildPacketLengthCases[i].category # "known_good"
      /\ \A i \in 1 .. 2 : BuildSecondaryHeaderFlagCases[i].category # "known_good"
      /\ \A i \in 1 .. 6 : BuildTruncationCases[i].category # "known_good"
      /\ \A i \in 1 .. 3 : BuildOversizedCases[i].category # "known_good"
      /\ \A i \in 1 .. 3 : BuildDegeneratePayloadCases[i].category # "known_good"
  <2>1. \A i \in 1 .. 4 : BuildSeqFlagsCases[i].category = "seq_flags"
    BY FlagsLabels, Zenon
  <2>2. \A i \in 1 .. 3 : BuildCommandMalformedCases[i].category = "command_malformed"
    BY MalformedLabels, Zenon
  <2>3. \A i \in 1 .. 7 : BuildVersionCases[i].category = "version"
    BY VersionLabels, Zenon
  <2>4. \A i \in 1 .. 4 : BuildPacketLengthCases[i].category = "packet_length"
    BY LengthLabels, Zenon
  <2> QED
    BY <2>1, <2>2, <2>3, <2>4, NamedInOrder
<1>3. k = 1 /\ Suite[n] = BuildKnownGoodNoopCase[1]
  BY <1>1, <1>2, CaseOfBuilder, Zenon
<1>4. {j \in Selected : j <= k} = {1}
  BY <1>1, <1>3, CasesInOrder DEF Selected
<1> QED
  BY <1>1, <1>3, <1>4, FS_Singleton

LEMMA NoopChecksumHolds == ChecksumHolds(NoopPacket)
<1> DEFINE zeros == Zeros(2)
           raw == ToBytes(NoopHeader, zeros, None)
<1>1. zeros \in Seq(Octet) /\ Len(zeros) = 2
  BY ZerosAreOctets
<1> HIDE DEF zeros
<1>2. raw \in Seq(Octet) /\ Len(raw) = 6 + Len(zeros)
  BY <1>1, ToBytesKeeps, ValidHeaderIsHeader, Zenon
<1> HIDE DEF raw
<1>3. Len(raw) >= 8
  BY <1>1, <1>2
<1>4. ChecksumHolds(WithCommandChecksum(raw))
  BY <1>2, <1>3, SealedHolds, Zenon
<1> QED
  BY <1>4 DEF NoopPacket, raw, zeros

LEMMA ControlIsACommand ==
    ASSUME AsSized, NEW apid \in (SUBSET APID_MAX) \cup {None}
    PROVE  LET data == Retargeted(BuildKnownGoodNoopCase[1], apid).packet_bytes
               aim == IF apid = None THEN DefaultApid ELSE apid
           IN  /\ Defects(data, CommandMid(aim)) = {}
               /\ Len(data) = 8
<1> DEFINE case == BuildKnownGoodNoopCase[1]
           data == Retargeted(case, apid).packet_bytes
<1>1. case.category = "known_good" /\ case.packet_bytes = NoopPacket
  BY DEF BuildKnownGoodNoopCase, PacketCase
<1>2. PICK payload \in Seq(Octet) : /\ Len(payload) = 2 /\ payload[1] = {}
                                    /\ Formed(NoopPacket, Declaring(NoopHeader, 1), payload)
  BY ShapedNoop DEF Shaped
<1>3. CASE apid = None
  <2> DEFINE h == Declaring(NoopHeader, 1)
             defects == Defects(NoopPacket, CommandMid(DefaultApid))
  <2>1. data = NoopPacket
    BY <1>1, <1>3 DEF Retargeted
  <2>2. Carries(NoopPacket, h, payload) /\ h \in Header /\ Len(NoopPacket) = 8
    <3>1. /\ Len(NoopPacket) = 6 + Len(payload) /\ h \in Header
      BY <1>2, FieldsOfFormed, Zenon
    <3> QED
      BY <1>2, <3>1, FormedCarries
  <2>3. /\ h.version = {} /\ h.packet_type = {0} /\ h.seq_flags = SEQ_FLAGS_UNSEGMENTED
        /\ h.apid = DefaultApid /\ h.sec_hdr_flag = {0}
    BY PlainHeaders, ValidHeaderIsHeader DEF Declaring, NoopHeader, ValidHeader
  <2>4. DataLengthIs(h, Len(payload))
    <3>1. 2 \in 1 .. MAX_PACKET_DATA_LENGTH
      BY SizesOfFields
    <3>2. Bits(1, LengthBits) = Bits(2 - 1, LengthBits)
      OBVIOUS
    <3> QED
      BY <1>2, <3>1, <3>2, PlainHeaders, DeclaredLength, Zenon
  <2>5. ChecksumHolds(NoopPacket)
    BY NoopChecksumHolds, Zenon
  <2>6. 6 + Len(payload) <= MAX_COMMAND_SIZE /\ MAX_COMMAND_SIZE \in Nat /\ ~(Len(payload) < 2)
    BY <1>2 DEF AsSized
  <2> HIDE DEF h
  <2>7. /\ defects \subseteq Names
        /\ "version" \in defects <=> h.version # {}
        /\ "packet_type" \in defects <=> h.packet_type # {0}
        /\ "seq_flags" \in defects <=> h.seq_flags # SEQ_FLAGS_UNSEGMENTED
        /\ "length" \in defects <=> ~DataLengthIs(h, Len(payload))
        /\ "apid" \in defects <=> CommandMid(DefaultApid) # CommandMid(h.apid)
        /\ "sec_hdr_flag" \in defects <=> h.sec_hdr_flag # {0}
        /\ "function" \in defects <=> (Len(payload) < 2 \/ payload[1] # {})
        /\ "checksum" \in defects <=> ~ChecksumHolds(NoopPacket)
    BY <2>2, <2>6, DefectsSeen, Zenon
  <2> HIDE DEF defects
  <2>8. /\ "version" \notin defects /\ "packet_type" \notin defects /\ "seq_flags" \notin defects
        /\ "length" \notin defects /\ "apid" \notin defects /\ "sec_hdr_flag" \notin defects
        /\ "function" \notin defects /\ "checksum" \notin defects
    BY <1>2, <2>3, <2>4, <2>5, <2>6, <2>7, Zenon
  <2>9. defects \subseteq Names
    BY <2>7, Zenon
  <2>10. defects = {}
    BY <2>8, <2>9 DEF Names
  <2> HIDE DEF data, case
  <2>11. Len(data) = 8 /\ Defects(data, CommandMid(DefaultApid)) = {}
    BY <2>1, <2>2, <2>10, Zenon DEF defects
  <2> QED
    BY <1>3, <2>11, Zenon DEF data, case
<1>4. CASE apid # None
  <2>1. AimedAt(case, apid) = {}
    BY <1>4, DefectsOfCases
  <2>2. Len(data) = 8
    <3>1. Len(NoopPacket) = 8 /\ NoopPacket \in Seq(Octet)
      BY NoopPacketIsNoop DEF IsNoop
    <3>2. ~KeptAsIs(case)
      BY <1>1, <3>1 DEF KeptAsIs, PRIMARY_HEADER_SIZE
    <3> QED
      BY <1>1, <1>4, <3>1, <3>2, RetargetedToApid
  <2> QED
    BY <1>4, <2>1, <2>2, Zenon DEF AimedAt
<1> QED
  BY <1>3, <1>4

\* The first packet finds the target as it was started.
ControlInv ==
    /\ IInv
    /\ findings = <<>> => target.up
    /\ \A k \in 1 .. Len(findings) :
          Suite[k].category = "known_good" /\ OnAim => findings[k] = "clean_accept"

LEMMA ControlJudged ==
    ASSUME AsSized, ByteMod > 1, ControlInv, CaseCounted \/ CaseKills \/ CaseNotCarried \/ TargetSilent,
           NEW verdict \in Verdict, Judged(verdict), Suite[Position].category = "known_good", OnAim
    PROVE  CaseCounted /\ Deltas!DeltaVerdict(Position, target, target') = "clean_accept"
<1>1. InSuite /\ IInv /\ Position \in DOMAIN Suite
  BY DEF ControlInv, CaseCounted, CaseKills, CaseNotCarried, TargetSilent, InSuite
<1>2. Position = 1 /\ Suite[Position] = BuildKnownGoodNoopCase[1]
  BY <1>1, OnlyOneControl
<1>3. findings = <<>> /\ target.up
  <2>1. findings \in Seq(Verdict) /\ Len(findings) \in Nat /\ Position = Len(findings) + 1
    BY <1>1, LenProperties DEF IInv, ControlReached, Position
  <2> QED
    BY <1>2, <2>1, EmptySeq DEF ControlInv
<1>4. config.target_apid \in (SUBSET APID_MAX) \cup {None}
  BY <1>1 DEF IInv, Aimed, Configured, InSuite
<1>5. Defects(Packet, CommandMid(Aim)) = {} /\ Len(Packet) = 8
  BY <1>2, <1>4, ControlIsACommand, Zenon DEF Packet, Aim
<1>6. Defects(Packet, target.mid) = {}
  BY <1>5 DEF OnAim
<1>7. Carried /\ ~Kills(Packet)
  BY <1>5, SizesOfFields DEF Carried, Kills, AsSized
<1>8. CaseCounted
  BY <1>3, <1>7 DEF CaseKills, CaseNotCarried, TargetSilent
<1>9. Position \notin RejectIndices
  BY <1>2, MalformedLabels DEF RejectIndices
<1> QED
  BY <1>1, <1>6, <1>8, <1>9, CountedSays

LEMMA ControlStep == ASSUME AsSized, ByteMod > 1, ControlInv, [Next]_vars PROVE ControlInv'
<1>1. IInv'
  BY StillIInv DEF ControlInv
<1>2. CASE SetupNext /\ UNCHANGED suiteVars
  <2>1. findings' = findings /\ target' = target
    BY <1>2 DEF suiteVars
  <2>2. step \in {"resolve", "render", "enable", "hk"}
    BY <1>2 DEF SetupNext, Resolve, Render, EnableToLab, AwaitHk, HkTimesOut, CommandFails
  <2>3. findings = <<>> /\ Len(findings) = 0
    BY <2>2, EmptySeq DEF ControlInv, IInv, ControlReached
  <2> QED
    BY <1>1, <2>1, <2>3 DEF ControlInv
<1>3. CASE CaseCounted \/ CaseKills \/ CaseNotCarried \/ TargetSilent
  <2>1. IInv /\ InSuite
    BY <1>3 DEF ControlInv, CaseCounted, CaseKills, CaseNotCarried, TargetSilent
  <2>2. PICK verdict \in Verdict : /\ Judged(verdict) /\ target'.mid = target.mid
                                   /\ CaseCounted => verdict = Deltas!DeltaVerdict(Position, target, target')
    <3>1. CASE CaseCounted
      BY <2>1, <3>1, CountedSays
    <3>2. CASE CaseKills
      <4>1. target'.mid = target.mid /\ Judged("hang") /\ ~CaseCounted
        BY <2>1, <3>2 DEF CaseKills, CaseCounted, Handled, IInv, TargetType
      <4> QED
        BY <4>1 DEF Verdict
    <3>3. CASE CaseNotCarried
      <4>1. target'.mid = target.mid /\ Judged("inconclusive") /\ ~CaseCounted
        BY <3>3 DEF CaseNotCarried, CaseCounted
      <4> QED
        BY <4>1 DEF Verdict
    <3>4. CASE TargetSilent
      <4>1. target'.mid = target.mid /\ Judged("hang") /\ ~CaseCounted
        BY <3>4 DEF TargetSilent, CaseCounted
      <4> QED
        BY <4>1 DEF Verdict
    <3> QED
      BY <1>3, <3>1, <3>2, <3>3, <3>4
  <2>3. /\ Len(findings') = Position /\ findings'[Position] = verdict
        /\ \A k \in 1 .. Len(findings) : findings'[k] = findings[k]
        /\ Len(findings) \in Nat /\ Position = Len(findings) + 1
        /\ config' = config
    BY <2>1, <2>2, OneMoreVerdict
  <2>4. OnAim' <=> OnAim
    BY <2>2, <2>3 DEF OnAim, Aim
  <2>5. findings' # <<>>
    BY <2>3, EmptySeq
  <2>6. ASSUME NEW k \in 1 .. Len(findings'), Suite[k].category = "known_good", OnAim'
        PROVE  findings'[k] = "clean_accept"
    <3>1. CASE k = Position
      BY <1>3, <2>2, <2>3, <2>4, <2>6, <3>1, ControlJudged
    <3>2. CASE k \in 1 .. Len(findings)
      BY <2>3, <2>4, <2>6, <3>2 DEF ControlInv
    <3> QED
      BY <2>3, <3>1, <3>2
  <2> QED
    BY <1>1, <2>5, <2>6 DEF ControlInv
<1>4. CASE Exit \/ UNCHANGED vars
  <2>1. findings' = findings /\ target' = target /\ config' = config
    BY <1>4 DEF Exit, Goto, suiteVars, setupVars, vars
  <2> QED
    BY <1>1, <2>1 DEF ControlInv, OnAim, Aim
<1> QED
  BY <1>2, <1>3, <1>4 DEF Next

\* The control is accepted exactly by a target at the APID that the suite is aimed
\* at, whatever else is selected and whatever the target started with: a run in
\* which it was accepted has reached its target, and one that reached it says so.
THEOREM ControlShowsReach == ASSUME AsSized, ByteMod > 1 PROVE Spec => []ControlTellsReach
<1>1. Init => ControlInv
  <2> SUFFICES ASSUME Init PROVE ControlInv
    OBVIOUS
  <2>1. IInv /\ findings = <<>>
    BY InitOK DEF Init
  <2>2. target.up
    <3>1. PICK mid, buggy, n :
             target = [mid |-> mid, buggy |-> buggy, up |-> TRUE,
                       counters |-> [command |-> n, command_error |-> n, ingest_errors |-> 0]]
      BY Zenon DEF Init
    <3> QED
      BY <3>1, Zenon
  <2> QED
    BY <2>1, <2>2, EmptySeq DEF ControlInv
<1>2. ControlInv /\ [Next]_vars => ControlInv'
  BY ControlStep
<1>3. ControlInv => ControlTellsReach
  <2> SUFFICES ASSUME ControlInv, NEW k \in Controls
               PROVE  findings[k] = "clean_accept" <=> OnAim
    BY Zenon DEF ControlTellsReach
  <2>1. k \in 1 .. Len(findings) /\ Suite[k].category = "known_good"
    BY LenProperties DEF Controls, ControlInv, IInv, ControlReached
  <2>2. findings[k] = "clean_accept" => OnAim
    BY <2>1 DEF ControlInv, IInv, ControlReached
  <2>3. OnAim => findings[k] = "clean_accept"
    BY <2>1 DEF ControlInv
  <2> QED
    BY <2>2, <2>3
<1> QED
  BY <1>1, <1>2, <1>3, PTL DEF Spec

-----------------------------------------------------------------------------
(***************************************************************************)
(* Whatever a case must be rejected for is seen by a target that keeps to  *)
(* the rule, wherever it listens.                                          *)
(***************************************************************************)
LEMMA ShortIsSeen ==
    ASSUME NEW data, NEW mid, Len(data) \in Nat, Len(data) < 8
    PROVE  Defects(data, mid) # {}
<1>1. CASE Len(data) \notin PRIMARY_HEADER_SIZE .. MAX_COMMAND_SIZE
  <2>1. Defects(data, mid) = {"size"}
    BY <1>1, ChangedSize
  <2> QED
    BY <2>1
<1>2. CASE Len(data) \in PRIMARY_HEADER_SIZE .. MAX_COMMAND_SIZE
  <2>1. "function" \in Defects(data, mid)
    BY <1>2, DefectsOf, Zenon
  <2> QED
    BY <2>1, Zenon
<1> QED
  BY <1>1, <1>2

LEMMA LongIsSeen ==
    ASSUME NEW data, NEW mid, Len(data) \in Nat, MAX_COMMAND_SIZE \in Nat, Len(data) > MAX_COMMAND_SIZE
    PROVE  Defects(data, mid) # {}
<1>1. Defects(data, mid) = {"size"}
  BY ChangedSize
<1> QED
  BY <1>1

LEMMA TelemetryIsSeen ==
    ASSUME NEW data, NEW mid, Len(data) \in Nat, ~IsCommand(data)
    PROVE  Defects(data, mid) # {}
<1>1. CASE Len(data) \notin PRIMARY_HEADER_SIZE .. MAX_COMMAND_SIZE
  <2>1. Defects(data, mid) = {"size"}
    BY <1>1, ChangedSize
  <2> QED
    BY <2>1
<1>2. CASE Len(data) \in PRIMARY_HEADER_SIZE .. MAX_COMMAND_SIZE
  <2>1. Unpack(data).packet_type # {0}
    BY <1>2 DEF IsCommand, PRIMARY_HEADER_SIZE
  <2>2. "packet_type" \in Defects(data, mid)
    BY <1>2, <2>1, DefectsOf, Zenon
  <2> QED
    BY <2>2, Zenon
<1> QED
  BY <1>1, <1>2

\* Only the APID is a matter of where a target listens.
LEMMA SeenAnywhere ==
    ASSUME NEW data, NEW a, NEW b, NEW defect, defect # "apid", defect \in Defects(data, a)
    PROVE  defect \in Defects(data, b)
<1>1. CASE Len(data) \notin PRIMARY_HEADER_SIZE .. MAX_COMMAND_SIZE
  BY <1>1, ChangedSize
<1>2. CASE Len(data) \in PRIMARY_HEADER_SIZE .. MAX_COMMAND_SIZE
  <2>1. Defects(data, a) \subseteq Names
    BY <1>2, DefectsOf, Zenon
  <2>2. /\ defect = "version" \/ defect = "packet_type" \/ defect = "seq_flags" \/ defect = "length"
           \/ defect = "sec_hdr_flag" \/ defect = "function" \/ defect = "checksum"
    BY <2>1 DEF Names
  <2>3. /\ "version" \in Defects(data, a) <=> "version" \in Defects(data, b)
        /\ "packet_type" \in Defects(data, a) <=> "packet_type" \in Defects(data, b)
        /\ "seq_flags" \in Defects(data, a) <=> "seq_flags" \in Defects(data, b)
        /\ "length" \in Defects(data, a) <=> "length" \in Defects(data, b)
        /\ "sec_hdr_flag" \in Defects(data, a) <=> "sec_hdr_flag" \in Defects(data, b)
        /\ "function" \in Defects(data, a) <=> "function" \in Defects(data, b)
        /\ "checksum" \in Defects(data, a) <=> "checksum" \in Defects(data, b)
    BY <1>2, DefectsOf, Zenon
  <2> QED
    BY <2>2, <2>3
<1> QED
  BY <1>1, <1>2

LEMMA ShapedTelemetry ==
    ASSUME NEW data, NEW header, header.packet_type = {}, NEW size, NEW function,
           Shaped(data, header, size, function)
    PROVE  ~IsCommand(data) /\ Len(data) \in Nat
<1>1. PICK payload \in Seq(Octet) : Formed(data, header, payload)
  BY DEF Shaped
<1>2. Unpack(data) = header /\ data \in Seq(Octet)
  BY <1>1, FieldsOfFormed
<1> QED
  BY <1>2, LenProperties DEF IsCommand

\* The headers of telemetry.
LEMMA TelemetryHeaders ==
    /\ \A n : Declaring(ValidHeader, n).packet_type = {}
    /\ \A v, n : Declaring(VersionHeader(v), n).packet_type = {}
    /\ \A flags, n : Declaring(FlagsHeader(flags), n).packet_type = {}
  BY DEF Declaring, VersionHeader, FlagsHeader, ValidHeader

\* Not aimed at an application, the cases are sent as they were built.
LEMMA SentAsBuilt ==
    ASSUME NEW case
    PROVE  Retargeted(case, None).packet_bytes = case.packet_bytes
  BY Zenon DEF Retargeted

LEMMA MalformedIsSeen ==
    ASSUME AsSized, NEW i \in 1 .. 3, NEW mid
    PROVE  Defects(BuildCommandMalformedCases[i].packet_bytes, mid) # {}
<1>1. /\ 2 \in 1 .. MAX_PACKET_DATA_LENGTH /\ MAX_COMMAND_SIZE \in Nat /\ MAX_COMMAND_SIZE >= 10
      /\ Declaring(NoopHeader, 1) \in Header /\ Declaring(Declaring(NoopHeader, 1), 2) \in Header
  <2>1. Declaring(NoopHeader, 1) \in Header
    BY PlainHeaders
  <2>2. 2 \in 1 .. MAX_PACKET_DATA_LENGTH
    BY SizesOfFields
  <2>3. Declaring(Declaring(NoopHeader, 1), 2) \in Header
    BY <2>1, <2>2, DeclaredLength
  <2> QED
    BY <2>1, <2>2, <2>3 DEF AsSized
<1>2. Defects(BuildCommandMalformedCases[1].packet_bytes, mid) # {}
  <2> DEFINE data == Damaged(NoopPacket)
  <2>1. BuildCommandMalformedCases[1].packet_bytes = data
    BY DEF BuildCommandMalformedCases, PacketCase
  <2>2. Len(NoopPacket) = 8 /\ NoopPacket \in Seq(Octet) /\ Len(data) = 8
    BY NoopPacketIsNoop, NoopsStayNoops DEF IsNoop
  <2>3. Len(NoopPacket) >= 8
    BY <2>2
  <2>4. ~ChecksumHolds(data)
    BY <2>2, <2>3, NoopChecksumHolds, DamagedFails, Zenon
  <2> HIDE DEF data
  <2>5. Len(data) \in PRIMARY_HEADER_SIZE .. MAX_COMMAND_SIZE
    BY <1>1, <2>2 DEF PRIMARY_HEADER_SIZE
  <2>6. "checksum" \in Defects(data, mid)
    BY <2>4, <2>5, DefectsOf, Zenon
  <2> QED
    BY <2>1, <2>6, Zenon
<1>3. Defects(BuildCommandMalformedCases[2].packet_bytes, mid) # {}
  <2> DEFINE data == BuildCommandMalformedCases[2].packet_bytes
  <2>1. Shaped(data, Declaring(NoopHeader, 1), 2, AllOnes)
    BY MalformedMade, Zenon DEF Made
  <2> HIDE DEF data
  <2>2. PICK payload \in Seq(Octet) : /\ Len(payload) = 2 /\ payload[1] = AllOnes
                                      /\ Formed(data, Declaring(NoopHeader, 1), payload)
    BY <2>1 DEF Shaped
  <2>3. Carries(data, Declaring(NoopHeader, 1), payload) /\ 6 + Len(payload) <= MAX_COMMAND_SIZE
    BY <1>1, <2>2, FormedCarries
  <2>4. payload[1] # {}
    BY <2>2 DEF AllOnes
  <2>5. "function" \in Defects(data, mid)
    BY <1>1, <2>3, <2>4, DefectsSeen, Zenon
  <2>6. Defects(data, mid) # {}
    BY <2>5, Zenon
  <2> QED
    BY <2>6 DEF data
<1>4. Defects(BuildCommandMalformedCases[3].packet_bytes, mid) # {}
  <2> DEFINE data == BuildCommandMalformedCases[3].packet_bytes
             h == Declaring(Declaring(NoopHeader, 1), 2)
  <2>1. Shaped(data, h, 2, {})
    BY MalformedMade, Zenon DEF Made
  <2>2. ~DataLengthIs(h, 2)
    <3>1. DataLengthIs(h, 2) <=> Bits(2, LengthBits) = Bits(2 - 1, LengthBits)
      BY <1>1, DeclaredLength, Zenon
    <3>2. Bits(2, LengthBits) # Bits(2 - 1, LengthBits)
      BY FieldLengths
    <3> QED
      BY <3>1, <3>2, Zenon
  <2>3. h \in Header
    BY <1>1, Zenon
  <2> HIDE DEF data, h
  <2>4. PICK payload \in Seq(Octet) : Len(payload) = 2 /\ Formed(data, h, payload)
    BY <2>1 DEF Shaped
  <2>5. Carries(data, h, payload) /\ 6 + Len(payload) <= MAX_COMMAND_SIZE
    BY <1>1, <2>4, FormedCarries
  <2>6. ~DataLengthIs(h, Len(payload))
    BY <2>2, <2>4, Zenon
  <2>7. "length" \in Defects(data, mid)
    BY <1>1, <2>3, <2>5, <2>6, DefectsSeen, Zenon
  <2>8. Defects(data, mid) # {}
    BY <2>7, Zenon
  <2> QED
    BY <2>8 DEF data
<1>5. i = 1 \/ i = 2 \/ i = 3
  OBVIOUS
<1> QED
  BY <1>2, <1>3, <1>4, <1>5, Zenon

LEMMA SizesOfCases ==
    ASSUME AsSized
    PROVE  /\ \A i \in 1 .. 6 : /\ BuildTruncationCases[i].packet_bytes \in Seq(Octet)
                                /\ Len(BuildTruncationCases[i].packet_bytes) < 6
           /\ \A i \in 1 .. 3 : /\ BuildOversizedCases[i].packet_bytes \in Seq(Octet)
                                /\ Len(BuildOversizedCases[i].packet_bytes) > MAX_COMMAND_SIZE
           /\ Len(BuildOversizedCases[1].packet_bytes) = ReachableSize
           /\ BuildDegeneratePayloadCases[3].packet_bytes \in Seq(Octet)
           /\ Len(BuildDegeneratePayloadCases[3].packet_bytes) = 6
<1>1. ASSUME NEW i \in 1 .. 6
      PROVE  /\ BuildTruncationCases[i].packet_bytes \in Seq(Octet)
             /\ Len(BuildTruncationCases[i].packet_bytes) < 6
  <2> DEFINE data == SubSeq(Pack(ValidHeader), 1, i - 1)
  <2>1. BuildTruncationCases[i].packet_bytes = data
    BY DEF BuildTruncationCases, Case, PacketCase, PRIMARY_HEADER_SIZE
  <2>2. Pack(ValidHeader) \in Seq(Octet) /\ Len(Pack(ValidHeader)) = 6
    BY PackGivesOctets
  <2>3. data \in Seq(Octet) /\ Len(data) = IF 1 <= i - 1 THEN i - 1 - 1 + 1 ELSE 0
    <3>1. \A j \in 1 .. i - 1 : Pack(ValidHeader)[j] \in Octet
      BY <2>2, ElementOfSeq
    <3> QED
      BY <3>1, SubSeqProperties
  <2> HIDE DEF data
  <2> QED
    BY <2>1, <2>3
<1>2. ASSUME NEW name, NEW size \in Nat, NEW declared
      PROVE  /\ Oversized(name, size, declared).packet_bytes \in Seq(Octet)
             /\ Len(Oversized(name, size, declared).packet_bytes) = 6 + size
  <2> DEFINE zeros == Zeros(size)
             data == ToBytes(ValidHeader, zeros, declared)
  <2>1. Oversized(name, size, declared).packet_bytes = data
    BY DEF Oversized, Case, PacketCase
  <2>2. zeros \in Seq(Octet) /\ Len(zeros) = size
    BY ZerosAreOctets
  <2> HIDE DEF zeros
  <2>3. data \in Seq(Octet) /\ Len(data) = 6 + Len(zeros)
    BY <2>2, ToBytesKeeps, ValidHeaderIsHeader, Zenon
  <2> HIDE DEF data
  <2> QED
    BY <2>1, <2>2, <2>3
<1>3. /\ \A i \in 1 .. 3 : /\ BuildOversizedCases[i].packet_bytes \in Seq(Octet)
                           /\ Len(BuildOversizedCases[i].packet_bytes) > MAX_COMMAND_SIZE
      /\ Len(BuildOversizedCases[1].packet_bytes) = ReachableSize
  <2> DEFINE most == MAX_PACKET_DATA_LENGTH
             reachable == ReachableSize - PRIMARY_HEADER_SIZE
             first == Oversized("oversized_reachable", reachable, reachable - 1)
             second == Oversized("oversized_max_spec_size", most, most - 1)
             third == Oversized("oversized_beyond_field_range", most + 1, PACKET_DATA_LENGTH_MAX)
  <2>1. /\ BuildOversizedCases[1] = first /\ BuildOversizedCases[2] = second
        /\ BuildOversizedCases[3] = third
    BY DEF BuildOversizedCases
  <2>2. reachable \in Nat /\ most \in Nat /\ most + 1 \in Nat /\ 6 + reachable = ReachableSize
    BY SizesOfFields, GeneratorAssumption DEF PRIMARY_HEADER_SIZE
  <2>3. MAX_COMMAND_SIZE \in Nat /\ MAX_COMMAND_SIZE <= most /\ MAX_COMMAND_SIZE < ReachableSize
    BY DEF AsSized
  <2> HIDE DEF most, reachable
  <2>4. /\ first.packet_bytes \in Seq(Octet) /\ Len(first.packet_bytes) = 6 + reachable
        /\ second.packet_bytes \in Seq(Octet) /\ Len(second.packet_bytes) = 6 + most
        /\ third.packet_bytes \in Seq(Octet) /\ Len(third.packet_bytes) = 6 + (most + 1)
    BY <1>2, <2>2
  <2> HIDE DEF first, second, third
  <2>5. \A i \in 1 .. 3 : i = 1 \/ i = 2 \/ i = 3
    OBVIOUS
  <2>6. /\ Len(first.packet_bytes) > MAX_COMMAND_SIZE /\ Len(second.packet_bytes) > MAX_COMMAND_SIZE
        /\ Len(third.packet_bytes) > MAX_COMMAND_SIZE /\ Len(first.packet_bytes) = ReachableSize
    BY <2>2, <2>3, <2>4, SizesOfFields
  <2> QED
    BY <2>1, <2>4, <2>5, <2>6
<1>4. /\ BuildDegeneratePayloadCases[3].packet_bytes \in Seq(Octet)
      /\ Len(BuildDegeneratePayloadCases[3].packet_bytes) = 6
  <2> DEFINE data == ToBytes(ValidHeader, <<>>, 15)
  <2>1. BuildDegeneratePayloadCases[3].packet_bytes = data
    BY DEF BuildDegeneratePayloadCases, Case, PacketCase
  <2>2. <<>> \in Seq(Octet)
    BY PayloadsAreOctets
  <2>3. data \in Seq(Octet) /\ Len(data) = 6 + Len(<<>>)
    BY <2>2, ToBytesKeeps, ValidHeaderIsHeader, Zenon
  <2> HIDE DEF data
  <2>4. Len(<<>>) = 0
    BY EmptySeq
  <2> QED
    BY <2>1, <2>3, <2>4
<1> QED
  BY <1>1, <1>3, <1>4

\* The case that is sent with the checksum octet of its payload.
FlagSetHeader == [ValidHeader EXCEPT !.sec_hdr_flag = {0}]

LEMMA FlagSetMade ==
    LET data == BuildSecondaryHeaderFlagCases[1].packet_bytes
    IN  /\ Formed(data, Declaring(FlagSetHeader, 3), Counting)
        /\ BuildSecondaryHeaderFlagCases[1].category = "secondary_header"
        /\ FlagSetHeader \in Header
        /\ Len(data) \in Nat /\ ~IsCommand(data)
<1> DEFINE data == BuildSecondaryHeaderFlagCases[1].packet_bytes
<1>1. data = ToBytes(FlagSetHeader, Counting, None)
  BY DEF BuildSecondaryHeaderFlagCases, Case, PacketCase, FlagSetHeader
<1>2. FlagSetHeader \in Header
  BY ValidHeaderIsHeader DEF FlagSetHeader, Header
<1>3. Formed(data, Declaring(FlagSetHeader, 3), Counting)
  BY <1>1, <1>2, CountingIsPayload, BuiltIsFormed
<1>4. Declaring(FlagSetHeader, 3).packet_type = {}
  BY DEF Declaring, FlagSetHeader, ValidHeader
<1> HIDE DEF data
<1>5. Unpack(data) = Declaring(FlagSetHeader, 3) /\ data \in Seq(Octet)
  BY <1>3, FieldsOfFormed
<1>6. Len(data) \in Nat /\ ~IsCommand(data)
  BY <1>4, <1>5, LenProperties DEF IsCommand
<1> QED
  BY <1>2, <1>3, <1>6, NamedInOrder DEF data

\* The octets of a command header as the generator makes it.
LEMMA OctetsOfFlagSet ==
    ASSUME NEW header \in Header, header.version = {}, header.packet_type = {0},
           header.sec_hdr_flag = {0}, header.seq_flags = SEQ_FLAGS_UNSEGMENTED, header.seq_count = {0},
           header.packet_data_length_field = {0, 1}, LengthBits \in 5 .. 16
    PROVE  LET data == Pack(header) \o Counting
           IN  /\ data \in Seq(Octet) /\ Len(data) = 10
               /\ data[1] = {3, 4} \cup {i \in 0 .. 2 : i + 8 \in header.apid}
               /\ data[2] = header.apid \cap 0 .. 7
               /\ data[3] = {6, 7} /\ data[4] = {0} /\ data[5] = {} /\ data[6] = {0, 1}
               /\ data[7] = {} /\ data[8] = {0} /\ data[9] = {1} /\ data[10] = {0, 1}
<1> DEFINE data == Pack(header) \o Counting
           s == Pack(header)
<1>1. header.apid \in SUBSET (0 .. 10)
  BY DEF Header, APID_MAX
<1>2. High(Word0(header)) = {3, 4} \cup {i \in 0 .. 2 : i + 8 \in header.apid}
  <2>1. Word0(header) = {12, 11} \cup header.apid
    BY <1>1 DEF Word0, Shifted, APID_MAX
  <2> QED
    BY <1>1, <2>1 DEF High, Field
<1>3. Low(Word0(header)) = header.apid \cap 0 .. 7
  <2>1. Word0(header) = {12, 11} \cup header.apid
    BY <1>1 DEF Word0, Shifted, APID_MAX
  <2> QED
    BY <1>1, <2>1 DEF Low, Field
<1>4. High(Word1(header)) = {6, 7} /\ Low(Word1(header)) = {0}
  <2>1. Word1(header) = {14, 15, 0}
    BY DEF Word1, Shifted, SEQ_FLAGS_UNSEGMENTED
  <2> QED
    BY <2>1 DEF High, Low, Field
<1>5. High(Word2(header)) = {} /\ Low(Word2(header)) = {0, 1}
  <2>1. Word2(header) = {0, 1}
    BY DEF Word2
  <2> QED
    BY <2>1 DEF High, Low, Field
<1>6. /\ s[1] = High(Word0(header)) /\ s[2] = Low(Word0(header)) /\ s[3] = High(Word1(header))
      /\ s[4] = Low(Word1(header)) /\ s[5] = High(Word2(header)) /\ s[6] = Low(Word2(header))
  BY DEF Pack
<1>7. s \in Seq(Octet) /\ Len(s) = 6
  BY PackGivesOctets
<1> HIDE DEF s
<1>8. Counting \in Seq(Octet) /\ Len(Counting) = 4
  BY CountingIsPayload
<1>9. Counting[1] = {} /\ Counting[2] = {0} /\ Counting[3] = {1} /\ Counting[4] = {0, 1}
  BY DEF Counting
<1>10. /\ s \o Counting \in Seq(Octet) /\ Len(s \o Counting) = 6 + 4
       /\ After(s \o Counting, 0, s, 6) /\ After(s \o Counting, 6, Counting, 4)
  BY <1>7, <1>8, Joined
<1>11. data = s \o Counting
  BY DEF s
<1> HIDE DEF data
<1>12. /\ data \in Seq(Octet) /\ Len(data) = 10
       /\ data[1] = s[1] /\ data[2] = s[2] /\ data[3] = s[3] /\ data[4] = s[4] /\ data[5] = s[5] /\ data[6] = s[6]
       /\ data[7] = Counting[1] /\ data[8] = Counting[2] /\ data[9] = Counting[3] /\ data[10] = Counting[4]
  <2>1. data \in Seq(Octet) /\ Len(data) = 10
    BY <1>10, <1>11
  <2>2. After(data, 0, s, 6) /\ After(data, 6, Counting, 4)
    BY <1>10, <1>11
  <2>3. \A i \in 1 .. 6 : data[i] = s[i]
    BY <2>2 DEF After
  <2>4. /\ data[6 + 1] = Counting[1] /\ data[6 + 2] = Counting[2]
        /\ data[6 + 3] = Counting[3] /\ data[6 + 4] = Counting[4]
    BY <2>2 DEF After
  <2> QED
    BY <2>1, <2>3, <2>4
<1>13. /\ data \in Seq(Octet) /\ Len(data) = 10
       /\ data[1] = {3, 4} \cup {i \in 0 .. 2 : i + 8 \in header.apid}
       /\ data[2] = header.apid \cap 0 .. 7
       /\ data[3] = {6, 7} /\ data[4] = {0} /\ data[5] = {} /\ data[6] = {0, 1}
       /\ data[7] = {} /\ data[8] = {0} /\ data[9] = {1} /\ data[10] = {0, 1}
  BY <1>2, <1>3, <1>4, <1>5, <1>6, <1>9, <1>12, Zenon
<1> QED
  BY <1>13 DEF data

LEMMA ChanceChecksum ==
    ASSUME AsSized, NEW apid \in (SUBSET APID_MAX) \cup {None}, NEW mid,
           Defects(Retargeted(BuildSecondaryHeaderFlagCases[1], apid).packet_bytes, mid) = {}
    PROVE  /\ apid # None /\ mid = CommandMid(apid)
           /\ {0, 2, 5} = {i \in 0 .. 7 : (i \in apid) # (i <= 2 /\ i + 8 \in apid)}
<1> DEFINE case == BuildSecondaryHeaderFlagCases[1]
           data == Retargeted(case, apid).packet_bytes
           h == Declaring(FlagSetHeader, 3)
           g == Commanding(h, "secondary_header", apid)
<1>1. Formed(case.packet_bytes, h, Counting) /\ case.category = "secondary_header"
  BY FlagSetMade, Zenon
<1>2. apid # None
  <2> SUFFICES ASSUME apid = None PROVE FALSE
    OBVIOUS
  <2>1. data = case.packet_bytes
    BY SentAsBuilt
  <2>2. Len(case.packet_bytes) \in Nat /\ ~IsCommand(case.packet_bytes)
    BY FlagSetMade, Zenon
  <2>3. Defects(case.packet_bytes, mid) # {}
    BY <2>2, TelemetryIsSeen, Zenon
  <2> QED
    BY <2>1, <2>3
<1>3. apid \in SUBSET APID_MAX
  BY <1>2
<1>4. g \in Header /\ data = Pack(g) \o Counting /\ Carries(data, g, Counting)
  <2> DEFINE f == Commanding(h, case.category, apid)
  <2>1. case.category # "apid"
    BY <1>1
  <2>2. f \in Header /\ data = Pack(f) \o Counting /\ Carries(data, f, Counting)
    <3> HIDE DEF case, h
    <3> QED
      BY <1>1, <1>2, <1>3, <2>1, RetargetedCarries, Zenon
  <2>3. f = g
    BY <1>1
  <2> HIDE DEF f, g, data
  <2> QED
    BY <2>2, <2>3
<1>5. /\ g.version = {} /\ g.packet_type = {0} /\ g.sec_hdr_flag = {0} /\ g.apid = apid
      /\ g.seq_flags = SEQ_FLAGS_UNSEGMENTED /\ g.seq_count = {0}
      /\ g.packet_data_length_field = Bits(3, LengthBits)
  BY DEF Commanding, Declaring, FlagSetHeader, ValidHeader
<1>6. g.packet_data_length_field = {0, 1} /\ LengthBits \in 5 .. 16
  BY <1>5, FieldLengths, LengthAssumption DEF AsSized
<1> HIDE DEF g, data, h, case
<1>7. /\ data \in Seq(Octet) /\ Len(data) = 10
      /\ data[1] = {3, 4} \cup {i \in 0 .. 2 : i + 8 \in apid}
      /\ data[2] = apid \cap 0 .. 7
      /\ data[3] = {6, 7} /\ data[4] = {0} /\ data[5] = {} /\ data[6] = {0, 1}
      /\ data[7] = {} /\ data[8] = {0} /\ data[9] = {1} /\ data[10] = {0, 1}
  BY <1>4, <1>5, <1>6, OctetsOfFlagSet, Zenon
<1>8. Len(data) \in PRIMARY_HEADER_SIZE .. MAX_COMMAND_SIZE
  BY <1>7 DEF PRIMARY_HEADER_SIZE, AsSized
<1>9. "checksum" \notin Defects(data, mid) /\ "apid" \notin Defects(data, mid)
  BY DEF data, case
<1>10. ChecksumHolds(data) /\ mid = CommandMid(Unpack(data).apid)
  BY <1>8, <1>9, DefectsOf, Zenon
<1>11. mid = CommandMid(apid)
  BY <1>4, <1>5, <1>10 DEF Carries
<1>12. ASSUME NEW i \in 0 .. 7
       PROVE  (i \in apid) # (i <= 2 /\ i + 8 \in apid) <=> i \in {0, 2, 5}
  <2>1. i \in Xor(data)
    BY <1>10 DEF ChecksumHolds
  <2>2. ~ (i \in data[1] <=> (i \in data[2] <=> (i \in data[3] <=> (i \in data[4] <=>
          (i \in data[5] <=> (i \in data[6] <=> (i \in data[7] <=> (i \in data[8] <=>
          (i \in data[9] <=> i \in data[10])))))))))
    BY <1>7, <2>1, XorOfTen
  <2>3. i \in data[1] <=> (i = 3 \/ i = 4 \/ (i <= 2 /\ i + 8 \in apid))
    BY <1>7
  <2>4. i \in data[2] <=> i \in apid
    BY <1>7
  <2>5. /\ i \in data[3] <=> (i = 6 \/ i = 7)
        /\ i \in data[4] <=> i = 0
        /\ ~(i \in data[5])
        /\ i \in data[6] <=> (i = 0 \/ i = 1)
        /\ ~(i \in data[7])
        /\ i \in data[8] <=> i = 0
        /\ i \in data[9] <=> i = 1
        /\ i \in data[10] <=> (i = 0 \/ i = 1)
    BY <1>7
  <2>6. i = 0 \/ i = 1 \/ i = 2 \/ i = 3 \/ i = 4 \/ i = 5 \/ i = 6 \/ i = 7
    OBVIOUS
  <2>7. (i \in apid <=> (i <= 2 /\ i + 8 \in apid)) <=> ~(i \in {0, 2, 5})
    BY <2>2, <2>3, <2>4, <2>5, <2>6
  <2> QED
    BY <2>7
<1> QED
  BY <1>2, <1>11, <1>12

LEMMA TelemetryCaseIsSeen ==
    ASSUME NEW case, NEW header, header.packet_type = {}, NEW size, NEW function,
           Shaped(case.packet_bytes, header, size, function),
           NEW apid, NEW mid, NEW defect, defect # "apid",
           apid # None => defect \in AimedAt(case, apid)
    PROVE  Defects(Retargeted(case, apid).packet_bytes, mid) # {}
<1>1. CASE apid = None
  <2>1. ~IsCommand(case.packet_bytes) /\ Len(case.packet_bytes) \in Nat
    BY ShapedTelemetry
  <2>2. Retargeted(case, apid).packet_bytes = case.packet_bytes
    BY <1>1, SentAsBuilt
  <2> QED
    BY <2>1, <2>2, TelemetryIsSeen
<1>2. CASE apid # None
  <2>1. defect \in Defects(Retargeted(case, apid).packet_bytes, CommandMid(apid))
    BY <1>2, Zenon DEF AimedAt
  <2>2. defect \in Defects(Retargeted(case, apid).packet_bytes, mid)
    BY <2>1, SeenAnywhere, Zenon
  <2> QED
    BY <2>2, Zenon
<1> QED
  BY <1>1, <1>2

LEMMA ApidCaseIsSeen ==
    ASSUME NEW i \in 1 .. 3, NEW apid, NEW mid
    PROVE  Defects(Retargeted(BuildApidCases[i], apid).packet_bytes, mid) # {}
<1> DEFINE case == BuildApidCases[i]
<1>1. case.category = "apid" /\ Sound(case)
  BY NamedInOrder, TelemetryCasesAreSound, Zenon
<1> HIDE DEF case
<1>2. Retargeted(case, apid).packet_bytes = case.packet_bytes
  BY <1>1, Zenon DEF Retargeted, KeptAsIs
<1>3. ~IsCommand(case.packet_bytes) /\ Len(case.packet_bytes) \in Nat
  BY <1>1, LenProperties DEF Sound, SoundPacket
<1>4. Defects(case.packet_bytes, mid) # {}
  BY <1>3, TelemetryIsSeen
<1> QED
  BY <1>2, <1>4, Zenon DEF case

LEMMA RejectedIsSeen ==
    ASSUME AsSized, NEW k \in 1 .. 36, GenerateAll[k].expect_safe_reject,
           NEW apid \in (SUBSET APID_MAX) \cup {None}, NEW mid,
           Defects(Retargeted(GenerateAll[k], apid).packet_bytes, mid) = {}
    PROVE  GenerateAll[k] = BuildSecondaryHeaderFlagCases[1]
<1> DEFINE Seen(case) == case.expect_safe_reject => Defects(Retargeted(case, apid).packet_bytes, mid) # {}
<1>1. apid # None => apid \in SUBSET APID_MAX
  OBVIOUS
<1>2. /\ "version" # "apid" /\ "seq_flags" # "apid" /\ "length" # "apid" /\ "checksum" # "apid"
      /\ "function" # "apid"
  OBVIOUS
<1>3. Seen(BuildKnownGoodNoopCase[1])
  BY MalformedLabels
<1>4. ASSUME NEW i \in 1 .. 3 PROVE Seen(BuildCommandMalformedCases[i])
  <2>1. CASE apid = None
    BY <2>1, SentAsBuilt, MalformedIsSeen
  <2>2. CASE apid # None
    <3>1. \E defect : defect # "apid" /\ defect \in AimedAt(BuildCommandMalformedCases[i], apid)
      <4>1. i = 1 \/ i = 2 \/ i = 3
        OBVIOUS
      <4> QED
        BY <1>1, <1>2, <2>2, <4>1, DefectsOfCases
    <3>2. \E defect : defect \in Defects(Retargeted(BuildCommandMalformedCases[i], apid).packet_bytes, mid)
      BY <3>1, SeenAnywhere, Zenon DEF AimedAt
    <3> QED
      BY <3>2, Zenon
  <2> QED
    BY <2>1, <2>2
<1>5. ASSUME NEW i \in 1 .. 7 PROVE Seen(BuildVersionCases[i])
  <2> DEFINE case == BuildVersionCases[i]
             h == Declaring(VersionHeader(i), 3)
  <2>1. Shaped(case.packet_bytes, h, 4, {}) /\ h.packet_type = {}
    BY VersionMade, TelemetryHeaders, Zenon DEF Made
  <2>2. apid # None => "version" \in AimedAt(case, apid)
    BY <1>1, DefectsOfCases
  <2> HIDE DEF case, h
  <2>3. Defects(Retargeted(case, apid).packet_bytes, mid) # {}
    BY <1>2, <2>1, <2>2, TelemetryCaseIsSeen
  <2> QED
    BY <2>3, Zenon DEF case
<1>6. ASSUME NEW i \in 1 .. 3 PROVE Seen(BuildApidCases[i])
  BY ApidCaseIsSeen, Zenon
<1>7. ASSUME NEW i \in 1 .. 4 PROVE Seen(BuildSeqFlagsCases[i])
  <2> DEFINE case == BuildSeqFlagsCases[i]
             flags == Bits(i - 1, 2)
             h == Declaring(FlagsHeader(flags), 3)
  <2>1. Shaped(case.packet_bytes, h, 4, {}) /\ h.packet_type = {}
    BY FlagsMade, TelemetryHeaders, Zenon DEF Made
  <2>2. AimedAt(case, apid) = (IF flags # SEQ_FLAGS_UNSEGMENTED THEN {"seq_flags"} ELSE {}) \/ apid = None
    BY <1>1, DefectsOfCases, Zenon
  <2>3. case.expect_safe_reject <=> flags # SEQ_FLAGS_UNSEGMENTED
    BY FlagsLabels, Zenon
  <2> HIDE DEF case, h, flags
  <2>4. ASSUME case.expect_safe_reject PROVE Defects(Retargeted(case, apid).packet_bytes, mid) # {}
    <3>1. flags # SEQ_FLAGS_UNSEGMENTED
      BY <2>3, <2>4, Zenon
    <3>2. apid # None => "seq_flags" \in AimedAt(case, apid)
      BY <2>2, <3>1
    <3> QED
      BY <1>2, <2>1, <3>2, TelemetryCaseIsSeen
  <2> QED
    BY <2>4, Zenon DEF case
<1>8. ASSUME NEW i \in 1 .. 4 PROVE Seen(BuildPacketLengthCases[i])
  <2> DEFINE case == BuildPacketLengthCases[i]
  <2>1. PICK n : Shaped(case.packet_bytes, Declaring(ValidHeader, n), 4, {})
    BY LengthsMade, Zenon DEF Made
  <2>2. Declaring(ValidHeader, n).packet_type = {}
    BY TelemetryHeaders, Zenon
  <2>3. apid # None => "length" \in AimedAt(case, apid)
    BY <1>1, DefectsOfCases
  <2> HIDE DEF case
  <2>4. Defects(Retargeted(case, apid).packet_bytes, mid) # {}
    BY <1>2, <2>1, <2>2, <2>3, TelemetryCaseIsSeen
  <2> QED
    BY <2>4, Zenon DEF case
<1>9. ASSUME NEW i \in 1 .. 6 PROVE Seen(BuildTruncationCases[i])
  <2> DEFINE case == BuildTruncationCases[i]
  <2>1. case.packet_bytes \in Seq(Octet) /\ Len(case.packet_bytes) < 6 /\ Len(case.packet_bytes) \in Nat
    BY SizesOfCases, LenProperties
  <2> HIDE DEF case
  <2>2. Len(Retargeted(case, apid).packet_bytes) = Len(case.packet_bytes)
    BY <2>1, SameSize
  <2>3. Defects(Retargeted(case, apid).packet_bytes, mid) # {}
    BY <2>1, <2>2, ShortIsSeen
  <2> QED
    BY <2>3, Zenon DEF case
<1>10. ASSUME NEW i \in 1 .. 3 PROVE Seen(BuildOversizedCases[i])
  <2> DEFINE case == BuildOversizedCases[i]
  <2>1. /\ case.packet_bytes \in Seq(Octet) /\ Len(case.packet_bytes) > MAX_COMMAND_SIZE
        /\ Len(case.packet_bytes) \in Nat /\ MAX_COMMAND_SIZE \in Nat
    BY SizesOfCases, LenProperties DEF AsSized
  <2> HIDE DEF case
  <2>2. Len(Retargeted(case, apid).packet_bytes) = Len(case.packet_bytes)
    BY <2>1, SameSize
  <2>3. Defects(Retargeted(case, apid).packet_bytes, mid) # {}
    BY <2>1, <2>2, LongIsSeen
  <2> QED
    BY <2>3, Zenon DEF case
<1>11. Seen(BuildDegeneratePayloadCases[3])
  <2> DEFINE case == BuildDegeneratePayloadCases[3]
  <2>1. case.packet_bytes \in Seq(Octet) /\ Len(case.packet_bytes) = 6
    BY SizesOfCases
  <2> HIDE DEF case
  <2>2. Len(case.packet_bytes) < 8 /\ Len(case.packet_bytes) \in Nat
    BY <2>1
  <2>3. Len(Retargeted(case, apid).packet_bytes) = Len(case.packet_bytes)
    BY <2>1, SameSize
  <2>4. Defects(Retargeted(case, apid).packet_bytes, mid) # {}
    BY <2>1, <2>2, <2>3, ShortIsSeen
  <2> QED
    BY <2>4, Zenon DEF case
<1>12. /\ Seen(BuildSecondaryHeaderFlagCases[2])
       /\ Seen(BuildDegeneratePayloadCases[1]) /\ Seen(BuildDegeneratePayloadCases[2])
  <2>1. /\ BuildSecondaryHeaderFlagCases[2].expect_safe_reject = FALSE
        /\ BuildDegeneratePayloadCases[1].expect_safe_reject = FALSE
        /\ BuildDegeneratePayloadCases[2].expect_safe_reject = FALSE
    BY DEF BuildSecondaryHeaderFlagCases, BuildDegeneratePayloadCases, Case, PacketCase
  <2> QED
    BY <2>1, Zenon
<1>13. ~Seen(GenerateAll[k])
  OBVIOUS
<1> HIDE DEF Seen
<1>14. \A i \in 1 .. 2 : i = 1 \/ i = 2
  OBVIOUS
<1>15. \A i \in 1 .. 3 : i = 1 \/ i = 2 \/ i = 3
  OBVIOUS
<1> QED
  BY <1>3, <1>4, <1>5, <1>6, <1>7, <1>8, <1>9, <1>10, <1>11, <1>12, <1>13, <1>14, <1>15, CaseOfBuilder, Zenon

-----------------------------------------------------------------------------
(***************************************************************************)
(* A target that keeps to the rule.                                        *)
(***************************************************************************)
Chance(k) ==
    /\ Suite[k].name[1] = "sec_hdr_flag_set_but_absent"
    /\ OnAim
    /\ {0, 2, 5} = {i \in 0 .. 7 : (i \in Aim) # (i <= 2 /\ i + 8 \in Aim)}

SafeInv ==
    /\ IInv
    /\ ~target.buggy =>
          /\ target.up
          /\ \A k \in 1 .. Len(findings) : findings[k] \in UnsafeVerdict => Chance(k)

LEMMA AcceptedByChance ==
    ASSUME AsSized, IInv, InSuite, Position \in RejectIndices, Defects(Packet, target.mid) = {}
    PROVE  Chance(Position)
<1> DEFINE k == Nth(Selected, Position)
           apid == config.target_apid
<1>1. k \in 1 .. 36 /\ Suite[Position] = GenerateAll[k]
  BY SuiteInOrder DEF InSuite
<1>2. apid \in (SUBSET APID_MAX) \cup {None}
  BY DEF IInv, Aimed, Configured, InSuite
<1>3. Suite[Position].expect_safe_reject
  BY Zenon DEF RejectIndices
<1>4. Packet = Retargeted(Suite[Position], apid).packet_bytes
  BY DEF Packet
<1> HIDE DEF k
<1>5. Suite[Position] = BuildSecondaryHeaderFlagCases[1]
  <2>1. /\ Defects(Retargeted(GenerateAll[k], apid).packet_bytes, target.mid) = {}
        /\ GenerateAll[k].expect_safe_reject
    BY <1>1, <1>3, <1>4, Zenon
  <2> QED
    BY <1>1, <1>2, <2>1, RejectedIsSeen, Zenon
<1>6. /\ apid # None /\ target.mid = CommandMid(apid)
      /\ {0, 2, 5} = {i \in 0 .. 7 : (i \in apid) # (i <= 2 /\ i + 8 \in apid)}
  <2>1. Defects(Retargeted(BuildSecondaryHeaderFlagCases[1], apid).packet_bytes, target.mid) = {}
    BY <1>4, <1>5, Zenon
  <2> QED
    BY <1>2, <2>1, ChanceChecksum, Zenon
<1>7. Aim = apid
  BY <1>6, Zenon DEF Aim
<1>8. OnAim
  BY <1>6, <1>7, Zenon DEF OnAim
<1>9. Suite[Position].name[1] = "sec_hdr_flag_set_but_absent"
  <2>1. BuildSecondaryHeaderFlagCases[1].name[1] = "sec_hdr_flag_set_but_absent"
    BY DEF BuildSecondaryHeaderFlagCases, Case, PacketCase
  <2> QED
    BY <1>5, <2>1, Zenon
<1> QED
  BY <1>6, <1>7, <1>8, <1>9, Zenon DEF Chance

LEMMA SafeStep == ASSUME AsSized, ByteMod > 1, SafeInv, [Next]_vars PROVE SafeInv'
<1>1. IInv'
  BY StillIInv DEF SafeInv
<1>2. CASE (SetupNext /\ UNCHANGED suiteVars)
  <2>1. findings' = findings /\ target' = target
    BY <1>2 DEF suiteVars
  <2>2. step \in {"resolve", "render", "enable", "hk"}
    BY <1>2 DEF SetupNext, Resolve, Render, EnableToLab, AwaitHk, HkTimesOut, CommandFails
  <2>3. Len(findings) = 0
    BY <2>2, EmptySeq DEF SafeInv, IInv, ControlReached
  <2>4. ~target'.buggy => target'.up
    BY <2>1, Zenon DEF SafeInv
  <2>5. \A k \in 1 .. Len(findings') : FALSE
    BY <2>1, <2>3
  <2> QED
    BY <1>1, <2>4, <2>5, Zenon DEF SafeInv
<1>3. CASE CaseCounted \/ CaseKills \/ CaseNotCarried \/ TargetSilent
  <2> SUFFICES ASSUME ~target'.buggy
               PROVE  /\ target'.up
                      /\ \A k \in 1 .. Len(findings') : findings'[k] \in UnsafeVerdict => Chance(k)'
    BY <1>1, Zenon DEF SafeInv
  <2>1. IInv /\ InSuite
    BY <1>3 DEF SafeInv, CaseCounted, CaseKills, CaseNotCarried, TargetSilent
  <2>2. ~target.buggy /\ target.up
    <3>1. target'.buggy = target.buggy
      <4>1. CASE CaseCounted
        BY <2>1, <4>1, CountedSays, Zenon
      <4>2. CASE CaseKills
        BY <2>1, <4>2, Zenon DEF CaseKills, Handled, IInv, TargetType
      <4>3. CASE CaseNotCarried \/ TargetSilent
        BY <4>3, Zenon DEF CaseNotCarried, TargetSilent
      <4> QED
        BY <1>3, <4>1, <4>2, <4>3
    <3> QED
      BY <3>1, Zenon DEF SafeInv
  <2>3. CaseCounted \/ CaseNotCarried
    BY <1>3, <2>2, Zenon DEF CaseKills, Kills, TargetSilent
  <2>4. PICK verdict \in Verdict :
           /\ Judged(verdict) /\ target'.mid = target.mid /\ target'.up
           /\ verdict \in UnsafeVerdict => Chance(Position)
    <3>1. CASE CaseCounted
      <4> DEFINE verdict == Deltas!DeltaVerdict(Position, target, target')
      <4>1. /\ Judged(verdict) /\ verdict \in Verdict /\ target'.up /\ target'.mid = target.mid
            /\ Defects(Packet, target.mid) = {} =>
                  verdict = IF Position \in RejectIndices THEN "unexpected_accept" ELSE "clean_accept"
            /\ Defects(Packet, target.mid) # {} => verdict = "clean_reject"
        BY <2>1, <3>1, CountedSays, Zenon
      <4> HIDE DEF verdict
      <4>2. ASSUME verdict \in UnsafeVerdict
            PROVE  Position \in RejectIndices /\ Defects(Packet, target.mid) = {}
        <5>1. "clean_reject" \notin UnsafeVerdict /\ "clean_accept" \notin UnsafeVerdict
          BY DEF UnsafeVerdict
        <5> QED
          BY <4>1, <4>2, <5>1, Zenon
      <4>3. verdict \in UnsafeVerdict => Chance(Position)
        BY <2>1, <4>2, AcceptedByChance, Zenon
      <4> QED
        BY <4>1, <4>3, Zenon
    <3>2. CASE CaseNotCarried
      <4>1. "inconclusive" \in Verdict /\ "inconclusive" \notin UnsafeVerdict
        BY DEF Verdict, UnsafeVerdict
      <4>2. Judged("inconclusive") /\ target' = target
        BY <3>2 DEF CaseNotCarried
      <4> QED
        BY <2>2, <4>1, <4>2, Zenon
    <3> QED
      BY <2>3, <3>1, <3>2
  <2>5. /\ Len(findings') = Position /\ findings'[Position] = verdict
        /\ \A k \in 1 .. Len(findings) : findings'[k] = findings[k]
        /\ Len(findings) \in Nat /\ Position = Len(findings) + 1
        /\ config' = config
    BY <2>1, <2>4, OneMoreVerdict
  <2>6. \A k : Chance(k) => Chance(k)'
    BY <2>4, <2>5, Zenon DEF Chance, OnAim, Aim
  <2>7. ASSUME NEW k \in 1 .. Len(findings'), findings'[k] \in UnsafeVerdict
        PROVE  Chance(k)'
    <3>1. CASE k = Position
      BY <2>4, <2>5, <2>6, <2>7, <3>1, Zenon
    <3>2. CASE k \in 1 .. Len(findings)
      BY <2>2, <2>5, <2>6, <2>7, <3>2, Zenon DEF SafeInv
    <3> QED
      BY <2>5, <3>1, <3>2
  <2> QED
    BY <2>4, <2>7, Zenon
<1>4. CASE Exit \/ UNCHANGED vars
  <2>1. findings' = findings /\ target' = target /\ config' = config
    BY <1>4 DEF Exit, Goto, suiteVars, setupVars, vars
  <2>2. \A k : Chance(k) => Chance(k)'
    BY <2>1, Zenon DEF Chance, OnAim, Aim
  <2> QED
    BY <1>1, <2>1, <2>2, Zenon DEF SafeInv
<1> QED
  BY <1>2, <1>3, <1>4 DEF Next

\* A target that keeps to the rule is never called unsafe, wherever it listens and
\* whatever the suite is aimed at, but where the octet that stands for a checksum
\* in the one case that is not resealed has the right value by chance.
THEOREM GoodTargetIsNeverBlamed == ASSUME AsSized, ByteMod > 1 PROVE Spec => []WellBehavedTargetIsSafe
<1>1. Init => SafeInv
  <2> SUFFICES ASSUME Init PROVE SafeInv
    OBVIOUS
  <2>1. IInv /\ Len(findings) = 0
    BY InitOK, EmptySeq DEF Init
  <2>2. target.up
    <3>1. PICK mid, buggy, n :
             target = [mid |-> mid, buggy |-> buggy, up |-> TRUE,
                       counters |-> [command |-> n, command_error |-> n, ingest_errors |-> 0]]
      BY Zenon DEF Init
    <3> QED
      BY <3>1, Zenon
  <2>3. \A k \in 1 .. Len(findings) : FALSE
    BY <2>1
  <2> QED
    BY <2>1, <2>2, <2>3, Zenon DEF SafeInv
<1>2. SafeInv /\ [Next]_vars => SafeInv'
  BY SafeStep
<1>3. SafeInv => WellBehavedTargetIsSafe
  <2> SUFFICES ASSUME SafeInv, ~target.buggy, NEW k \in DOMAIN findings, findings[k] \in UnsafeVerdict
               PROVE  Chance(k)
    BY Zenon DEF WellBehavedTargetIsSafe, Chance
  <2>1. k \in 1 .. Len(findings)
    BY LenProperties DEF SafeInv, IInv, ControlReached
  <2> QED
    BY <2>1, Zenon DEF SafeInv
<1> QED
  BY <1>1, <1>2, <1>3, PTL DEF Spec

-----------------------------------------------------------------------------
(***************************************************************************)
(* A target that dies of an oversized packet.                              *)
(***************************************************************************)

\* The first of the oversized cases comes after cases that are not.
LEMMA SmallCases ==
    ASSUME AsSized, NEW k \in 1 .. 30
    PROVE  Len(GenerateAll[k].packet_bytes) <= MAX_COMMAND_SIZE
<1> DEFINE Small(case) == Len(case.packet_bytes) <= MAX_COMMAND_SIZE
<1>1. MAX_COMMAND_SIZE \in Nat /\ 10 <= MAX_COMMAND_SIZE
  BY DEF AsSized
<1>2. ASSUME NEW case, NEW category, NEW header, NEW size \in {2, 4}, NEW function,
             Made(case, category, header, size, function)
      PROVE  Small(case)
  <2>1. PICK payload \in Seq(Octet) : Len(payload) = size /\ Formed(case.packet_bytes, header, payload)
    BY <1>2, Zenon DEF Made, Shaped
  <2>2. Len(case.packet_bytes) = 6 + Len(payload)
    BY <2>1, FieldsOfFormed
  <2> QED
    BY <1>1, <2>1, <2>2
<1>3. ASSUME NEW case, NEW header \in Header, NEW payload \in Seq(Octet), Len(payload) = 4,
             case.packet_bytes = ToBytes(header, payload, None)
      PROVE  Small(case)
  <2> DEFINE data == ToBytes(header, payload, None)
  <2>1. Len(data) = 6 + Len(payload)
    BY ToBytesKeeps
  <2> HIDE DEF data
  <2> QED
    BY <1>1, <1>3, <2>1 DEF data
<1>4. Small(BuildKnownGoodNoopCase[1])
  BY <1>2, KnownGoodMade
<1>5. ASSUME NEW i \in 1 .. 3 PROVE Small(BuildCommandMalformedCases[i])
  <2>1. i = 1 \/ i = 2 \/ i = 3
    OBVIOUS
  <2> HIDE DEF Small
  <2>2. Small(BuildCommandMalformedCases[1]) /\ Small(BuildCommandMalformedCases[2])
        /\ Small(BuildCommandMalformedCases[3])
    BY <1>2, MalformedMade
  <2> QED
    BY <2>1, <2>2
<1>6. ASSUME NEW i \in 1 .. 7 PROVE Small(BuildVersionCases[i])
  BY <1>2, VersionMade
<1>7. ASSUME NEW i \in 1 .. 3 PROVE Small(BuildApidCases[i])
  <2> DEFINE header == [ValidHeader EXCEPT !.apid = EdgeApids[i]]
  <2>1. BuildApidCases[i].packet_bytes = ToBytes(header, Counting, None)
    BY DEF BuildApidCases, Case, PacketCase
  <2>2. header \in Header
    <3>1. EdgeApids[i] \in SUBSET APID_MAX
      BY DEF EdgeApids, APID_MAX
    <3> QED
      BY <3>1, ValidHeaderIsHeader DEF Header
  <2> HIDE DEF header
  <2> QED
    BY <1>3, <2>1, <2>2, CountingIsPayload
<1>8. ASSUME NEW i \in 1 .. 4 PROVE Small(BuildSeqFlagsCases[i])
  BY <1>2, FlagsMade
<1>9. ASSUME NEW i \in 1 .. 4 PROVE Small(BuildPacketLengthCases[i])
  BY <1>2, LengthsMade
<1>10. Small(BuildSecondaryHeaderFlagCases[1])
  <2>1. /\ Formed(BuildSecondaryHeaderFlagCases[1].packet_bytes, Declaring(FlagSetHeader, 3), Counting)
    BY FlagSetMade
  <2>2. Len(BuildSecondaryHeaderFlagCases[1].packet_bytes) = 6 + Len(Counting)
    BY <2>1, FieldsOfFormed
  <2> QED
    BY <1>1, <2>2, CountingIsPayload
<1>11. Small(BuildSecondaryHeaderFlagCases[2])
  <2> DEFINE payload == <<AllOnes, AllOnes, {}, {0}>>
  <2>1. BuildSecondaryHeaderFlagCases[2].packet_bytes = ToBytes(ValidHeader, payload, None)
    BY DEF BuildSecondaryHeaderFlagCases, Case, PacketCase
  <2>2. payload \in Seq(Octet) /\ Len(payload) = 4
    BY PayloadsAreOctets
  <2> HIDE DEF payload
  <2> QED
    BY <1>3, <2>1, <2>2, ValidHeaderIsHeader
<1>12. ASSUME NEW i \in 1 .. 6 PROVE Small(BuildTruncationCases[i])
  <2>1. /\ Len(BuildTruncationCases[i].packet_bytes) \in Nat
        /\ Len(BuildTruncationCases[i].packet_bytes) < 6
    BY SizesOfCases, LenProperties
  <2> QED
    BY <1>1, <2>1
<1>13. \A i \in 1 .. 2 : i = 1 \/ i = 2
  OBVIOUS
<1>14. /\ \A i \in 1 .. 3 : k # 30 + i
       /\ \A i \in 1 .. 3 : k # 33 + i
       /\ k \in 1 .. 36
  OBVIOUS
<1>15. Small(GenerateAll[k])
  <2> HIDE DEF Small
  <2> QED
    BY <1>4, <1>5, <1>6, <1>7, <1>8, <1>9, <1>10, <1>11, <1>12, <1>13, <1>14, CaseOfBuilder, Zenon
<1> QED
  BY <1>15

\* Where oversized cases are selected, the first that kills is the reachable one.
LEMMA DeadlyPosition ==
    ASSUME AsSized, "oversized" \in Categories
    PROVE  /\ FirstDeadly \in 1 .. Len(Suite)
           /\ Len(Suite[FirstDeadly].packet_bytes) = ReachableSize
           /\ \A j \in 1 .. FirstDeadly - 1 : Len(Suite[j].packet_bytes) <= MAX_COMMAND_SIZE
<1> DEFINE n0 == Cardinality({j \in Selected : j <= 31})
           Deadly(n) == /\ Len(Suite[n].packet_bytes) > MAX_COMMAND_SIZE
                        /\ \A j \in 1 .. n - 1 : Len(Suite[j].packet_bytes) <= MAX_COMMAND_SIZE
<1>1. 31 \in Selected /\ GenerateAll[31] = BuildOversizedCases[1]
  <2>1. GenerateAll[31] = BuildOversizedCases[1]
    <3>1. 1 \in 1 .. 3 /\ 30 + 1 = 31
      OBVIOUS
    <3>2. \A i \in 1 .. 3 : GenerateAll[30 + i] = BuildOversizedCases[i]
      BY CasesInOrder, Zenon DEF After
    <3> QED
      BY <3>1, <3>2
  <2>2. BuildOversizedCases[1].category = "oversized"
    BY DEF BuildOversizedCases, Oversized, Case, PacketCase
  <2>3. 31 \in DOMAIN GenerateAll
    BY CasesInOrder
  <2> QED
    BY <2>1, <2>2, <2>3 DEF Selected
<1>2. n0 \in 1 .. Len(Suite)
  <2> DEFINE upto == {j \in Selected : j <= 31}
  <2>1. upto \in SUBSET Selected /\ 31 \in upto
    BY <1>1
  <2> HIDE DEF upto
  <2>2. IsFiniteSet(upto) /\ Cardinality(upto) <= Cardinality(Selected)
    BY <2>1, SelectedAreFew, FS_Subset
  <2>3. Cardinality(upto) \in Nat /\ Cardinality(upto) # 0
    BY <2>1, <2>2, FS_CardinalityType, FS_EmptySet
  <2> QED
    BY <2>2, <2>3, SuiteLength, SelectedAreFew DEF upto
<1> HIDE DEF n0
<1>3. \A m \in Selected : /\ m < 31 => Cardinality({j \in Selected : j <= m}) < n0
                          /\ 31 < m => n0 < Cardinality({j \in Selected : j <= m})
  BY <1>1, SelectedAreFew, RanksGrow DEF n0
<1>4. ASSUME NEW n \in 1 .. Len(Suite)
      PROVE  /\ n < n0 => Len(Suite[n].packet_bytes) <= MAX_COMMAND_SIZE
             /\ n = n0 => Suite[n] = BuildOversizedCases[1]
  <2> DEFINE m == Nth(Selected, n)
  <2>1. /\ m \in 1 .. 36 /\ Suite[n] = GenerateAll[m] /\ m \in Selected
        /\ Cardinality({j \in Selected : j <= m}) = n
    BY SuiteLength, SuiteInOrder
  <2> HIDE DEF m
  <2>2. m < 31 => n < n0
    BY <1>3, <2>1
  <2>3. 31 < m => n0 < n
    BY <1>3, <2>1
  <2>4. m = 31 => n = n0
    BY <2>1 DEF n0
  <2>5. CASE n < n0
    <3>1. m \in 1 .. 30
      BY <1>2, <2>1, <2>3, <2>4, <2>5
    <3>2. Len(GenerateAll[m].packet_bytes) <= MAX_COMMAND_SIZE
      BY <3>1, SmallCases
    <3>3. n # n0
      BY <1>2, <2>5
    <3> QED
      BY <2>1, <3>2, <3>3
  <2>6. CASE n = n0
    <3>1. m = 31
      BY <1>2, <2>1, <2>2, <2>3, <2>6
    <3> QED
      BY <1>1, <1>2, <2>1, <2>6, <3>1
  <2> QED
    BY <2>5, <2>6
<1>5. Len(Suite[n0].packet_bytes) = ReachableSize /\ ReachableSize \in Nat
      /\ MAX_COMMAND_SIZE \in Nat /\ MAX_COMMAND_SIZE < ReachableSize
  BY <1>2, <1>4, SizesOfCases, SizesOfFields DEF AsSized
<1>6. \A j \in 1 .. n0 - 1 : Len(Suite[j].packet_bytes) <= MAX_COMMAND_SIZE
  <2> TAKE j \in 1 .. n0 - 1
  <2>1. j \in 1 .. Len(Suite) /\ j < n0
    BY <1>2, SuiteLength
  <2> QED
    BY <1>4, <2>1
<1>7. Deadly(n0)
  BY <1>5, <1>6
<1>8. ASSUME NEW n \in 1 .. Len(Suite), Deadly(n) PROVE n = n0
  <2>1. CASE n < n0
    <3>1. n \in 1 .. n0 - 1
      BY <1>2, <2>1
    <3>2. Len(Suite[n].packet_bytes) <= MAX_COMMAND_SIZE /\ Len(Suite[n].packet_bytes) > MAX_COMMAND_SIZE
      BY <1>6, <1>8, <3>1
    <3>3. Len(Suite[n].packet_bytes) \in Nat
      BY SuiteIsSound, SuiteLength, LenProperties DEF Sound, SoundPacket
    <3> QED
      BY <1>5, <3>2, <3>3
  <2>2. CASE n0 < n
    <3>1. n0 \in 1 .. n - 1
      BY <1>2, <2>2
    <3> QED
      BY <1>5, <1>8, <3>1
  <2> QED
    BY <1>2, <2>1, <2>2
<1>9. FirstDeadly = CHOOSE n \in DOMAIN Suite : Deadly(n)
  BY Zenon DEF FirstDeadly
<1> HIDE DEF Deadly
<1>10. FirstDeadly = n0
  BY <1>2, <1>7, <1>8, <1>9, SuiteLength
<1> QED
  BY <1>2, <1>5, <1>6, <1>10

\* The packets up to the one that kills, which the network carries.
LEMMA DeadlyPackets ==
    ASSUME AsSized, "oversized" \in Categories, IInv, InSuite
    PROVE  /\ Len(Packet) \in Nat
           /\ Position < FirstDeadly => Len(Packet) <= MAX_COMMAND_SIZE
           /\ Position = FirstDeadly => MAX_COMMAND_SIZE < Len(Packet) /\ Len(Packet) <= UdpLimit
<1>1. Position \in DOMAIN Suite /\ Position \in 1 .. Len(Suite) /\ Len(Suite) \in Nat
  BY SuiteLength DEF InSuite
<1>2. config.target_apid \in (SUBSET APID_MAX) \cup {None}
  BY DEF IInv, Aimed, Configured, InSuite
<1>3. Suite[Position].packet_bytes \in Seq(Octet)
  BY <1>1, SuiteIsSound DEF Sound, SoundPacket
<1>4. Len(Packet) = Len(Suite[Position].packet_bytes)
  BY <1>2, <1>3, SameSize DEF Packet
<1>5. Len(Packet) \in Nat
  BY <1>3, <1>4, LenProperties
<1>6. ASSUME Position < FirstDeadly PROVE Len(Packet) <= MAX_COMMAND_SIZE
  <2>1. Position \in 1 .. FirstDeadly - 1
    BY <1>1, <1>6, DeadlyPosition
  <2> QED
    BY <1>4, <2>1, DeadlyPosition
<1>7. ASSUME Position = FirstDeadly PROVE Len(Packet) = ReachableSize
  BY <1>4, <1>7, DeadlyPosition
<1> QED
  BY <1>5, <1>6, <1>7, SizesOfFields DEF AsSized

\* A target dies of the first oversized packet, and what is said of it is said from
\* there on; who gets to "passed" has no unsafe verdict.
CaughtInv ==
    /\ TypeInv
    /\ step = "passed" => RunPasses
    /\ target.buggy =>
          /\ target.up <=> Len(findings) < FirstDeadly
          /\ \A k \in 1 .. Len(findings) : findings[k] = "hang" <=> k >= FirstDeadly


\* One case more for a buggy target, which is up exactly until the deadly packet.
LEMMA CaughtCase ==
    ASSUME AsSized, "oversized" \in Categories, IInv, target.buggy,
           target.up <=> Len(findings) < FirstDeadly,
           CaseCounted \/ CaseKills \/ CaseNotCarried \/ TargetSilent
    PROVE  \E verdict \in Verdict :
              /\ Judged(verdict)
              /\ verdict = "hang" <=> Position >= FirstDeadly
              /\ target'.up <=> Position < FirstDeadly
<1>1. InSuite
  BY DEF CaseCounted, CaseKills, CaseNotCarried, TargetSilent
<1>2. Len(findings) \in Nat /\ Position = Len(findings) + 1 /\ FirstDeadly \in Nat
  BY LenProperties, DeadlyPosition, SuiteLength DEF IInv, ControlReached, Position
<1>3. /\ Len(Packet) \in Nat
      /\ Position < FirstDeadly => Len(Packet) <= MAX_COMMAND_SIZE
      /\ Position = FirstDeadly => MAX_COMMAND_SIZE < Len(Packet) /\ Len(Packet) <= UdpLimit
  BY <1>1, DeadlyPackets
<1>4. MAX_COMMAND_SIZE \in Nat /\ UdpLimit \in Nat /\ MAX_COMMAND_SIZE < UdpLimit
  BY SizesOfFields DEF AsSized
<1>5. target \in TargetType
  BY DEF IInv
<1>6. CASE CaseCounted
  <2> DEFINE verdict == Deltas!DeltaVerdict(Position, target, target')
  <2>1. target.up /\ ~(Len(Packet) > MAX_COMMAND_SIZE) /\ Judged(verdict)
    BY <1>6, Zenon DEF CaseCounted, Kills
  <2>2. Len(findings) < FirstDeadly
    BY <2>1, Zenon
  <2>3. Position < FirstDeadly
    BY <1>2, <1>3, <1>4, <2>1, <2>2
  <2>4. target'.up = target.up
    <3>1. PICK counters : target' = [target EXCEPT !.counters = counters]
      BY <1>6, Zenon DEF CaseCounted, Handled
    <3> QED
      BY <1>5, <3>1, Zenon DEF TargetType
  <2>5. verdict \in Verdict /\ verdict # "hang"
    BY DEF Deltas!DeltaVerdict, Verdict
  <2> HIDE DEF verdict
  <2>6. ~(Position >= FirstDeadly)
    BY <1>2, <2>3
  <2> QED
    BY <2>1, <2>3, <2>4, <2>5, <2>6, Zenon
<1>7. CASE CaseKills
  <2>1. target.up /\ Len(Packet) > MAX_COMMAND_SIZE /\ Judged("hang")
    BY <1>7, Zenon DEF CaseKills, Kills
  <2>2. ~(Position < FirstDeadly) /\ Position >= FirstDeadly
    BY <1>2, <1>3, <1>4, <2>1
  <2>3. ~target'.up
    <3>1. target' = [target EXCEPT !.up = FALSE]
      BY <1>7, Zenon DEF CaseKills, Handled
    <3> QED
      BY <1>5, <3>1, Zenon DEF TargetType
  <2>4. "hang" \in Verdict
    BY DEF Verdict
  <2> QED
    BY <2>1, <2>2, <2>3, <2>4, Zenon
<1>8. CASE CaseNotCarried
  <2>1. target.up /\ ~(Len(Packet) <= UdpLimit)
    BY <1>8, Zenon DEF CaseNotCarried, Carried
  <2>2. Len(findings) < FirstDeadly
    BY <2>1, Zenon
  <2> QED
    BY <1>2, <1>3, <1>4, <2>1, <2>2
<1>9. CASE TargetSilent
  <2>1. ~target.up /\ Judged("hang") /\ target' = target
    BY <1>9, Zenon DEF TargetSilent
  <2>2. ~(Len(findings) < FirstDeadly)
    BY <2>1, Zenon
  <2>3. ~(Position < FirstDeadly) /\ Position >= FirstDeadly
    BY <1>2, <2>2
  <2>4. "hang" \in Verdict
    BY DEF Verdict
  <2> QED
    BY <2>1, <2>3, <2>4, Zenon
<1> QED
  BY <1>6, <1>7, <1>8, <1>9

LEMMA CaughtStep ==
    ASSUME AsSized, "oversized" \in Categories, CaughtInv, [Next]_vars
    PROVE  CaughtInv'
<1>1. TypeInv'
  BY TypeStep DEF CaughtInv
<1>2. IInv /\ FirstDeadly' = FirstDeadly /\ FirstDeadly \in Nat /\ FirstDeadly >= 1
  BY DeadlyPosition, SuiteLength DEF CaughtInv, TypeInv, FirstDeadly
<1>3. CASE SetupNext /\ UNCHANGED suiteVars
  <2>1. findings' = findings /\ target' = target
    BY <1>3 DEF suiteVars
  <2>2. step' # "passed"
    BY <1>3 DEF SetupNext, Resolve, Render, EnableToLab, AwaitHk, HkTimesOut, CommandFails, Goto
  <2> QED
    BY <1>1, <1>2, <2>1, <2>2, Zenon DEF CaughtInv
<1>4. CASE CaseCounted \/ CaseKills \/ CaseNotCarried \/ TargetSilent
  <2>1. InSuite
    BY <1>4 DEF CaseCounted, CaseKills, CaseNotCarried, TargetSilent
  <2>2. target'.buggy = target.buggy
    <3>1. \/ target' = target
          \/ target' = [target EXCEPT !.up = FALSE]
          \/ \E counters : target' = [target EXCEPT !.counters = counters]
      BY <1>4, Zenon DEF CaseCounted, CaseKills, CaseNotCarried, TargetSilent, Handled
    <3>2. target \in TargetType
      BY <1>2 DEF IInv
    <3> QED
      BY <3>1, <3>2, Zenon DEF TargetType
  <2>3. step' # "passed"
    BY <1>4 DEF CaseCounted, CaseKills, CaseNotCarried, TargetSilent, Judged, Goto
  <2>4. ASSUME target'.buggy
        PROVE  /\ target'.up <=> Len(findings') < FirstDeadly
               /\ \A k \in 1 .. Len(findings') : findings'[k] = "hang" <=> k >= FirstDeadly
    <3>1. target.buggy /\ (target.up <=> Len(findings) < FirstDeadly)
      BY <2>2, <2>4, Zenon DEF CaughtInv
    <3>2. PICK verdict \in Verdict : /\ Judged(verdict)
                                     /\ verdict = "hang" <=> Position >= FirstDeadly
                                     /\ target'.up <=> Position < FirstDeadly
      BY <1>2, <1>4, <3>1, CaughtCase
    <3>3. /\ Len(findings') = Position /\ findings'[Position] = verdict
          /\ \A k \in 1 .. Len(findings) : findings'[k] = findings[k]
          /\ Len(findings) \in Nat /\ Position = Len(findings) + 1
      BY <1>2, <2>1, <3>2, OneMoreVerdict
    <3>4. ASSUME NEW k \in 1 .. Len(findings') PROVE findings'[k] = "hang" <=> k >= FirstDeadly
      <4>1. CASE k = Position
        BY <3>2, <3>3, <4>1, Zenon
      <4>2. CASE k \in 1 .. Len(findings)
        BY <2>2, <2>4, <3>3, <4>2, Zenon DEF CaughtInv
      <4> QED
        BY <3>3, <4>1, <4>2
    <3> QED
      BY <3>2, <3>3, <3>4, Zenon
  <2> QED
    BY <1>1, <1>2, <2>3, <2>4, Zenon DEF CaughtInv
<1>5. CASE Exit
  <2>1. findings' = findings /\ target' = target
    BY <1>5 DEF Exit, suiteVars
  <2>2. RunPasses' <=> RunPasses
    BY <2>1, Zenon DEF RunPasses
  <2>3. step' = "passed" => RunPasses
    BY <1>5 DEF Exit, Goto, ScriptPasses
  <2> QED
    BY <1>1, <1>2, <2>1, <2>2, <2>3, Zenon DEF CaughtInv
<1>6. CASE UNCHANGED vars
  <2>1. findings' = findings /\ target' = target /\ step' = step
    BY <1>6 DEF vars, suiteVars, setupVars
  <2>2. RunPasses' <=> RunPasses
    BY <2>1, Zenon DEF RunPasses
  <2> QED
    BY <1>1, <1>2, <2>1, <2>2, Zenon DEF CaughtInv
<1> QED
  BY <1>3, <1>4, <1>5, <1>6 DEF Next

\* A target that dies of an oversized packet is called dead from the packet that
\* killed it on and not before, and the run does not pass, wherever it listens and
\* whatever else is selected.
THEOREM BuggyTargetIsAlwaysCaught ==
    ASSUME AsSized, "oversized" \in Categories
    PROVE  Spec => []BuggyTargetIsCaught
<1>1. Init => CaughtInv
  <2> SUFFICES ASSUME Init PROVE CaughtInv
    OBVIOUS
  <2>1. TypeInv /\ Len(findings) = 0
    BY TypeInit, EmptySeq DEF Init
  <2>2. target.up
    <3>1. PICK mid, buggy, n :
             target = [mid |-> mid, buggy |-> buggy, up |-> TRUE,
                       counters |-> [command |-> n, command_error |-> n, ingest_errors |-> 0]]
      BY Zenon DEF Init
    <3> QED
      BY <3>1, Zenon
  <2>3. step # "passed"
    BY DEF Init, SetupInit
  <2>4. Len(findings) < FirstDeadly /\ \A k \in 1 .. Len(findings) : FALSE
    BY <2>1, DeadlyPosition, SuiteLength
  <2> QED
    BY <2>1, <2>2, <2>3, <2>4, Zenon DEF CaughtInv
<1>2. CaughtInv /\ [Next]_vars => CaughtInv'
  BY CaughtStep
<1>3. CaughtInv => BuggyTargetIsCaught
  <2> SUFFICES ASSUME CaughtInv, target.buggy, step \in {"exit", "passed", "failed"}
               PROVE  /\ step # "passed"
                      /\ \A k \in DOMAIN findings : findings[k] = "hang" <=> k >= FirstDeadly
    BY Zenon DEF BuggyTargetIsCaught
  <2>1. findings \in Seq(Verdict) /\ DOMAIN findings = 1 .. Len(findings)
    BY LenProperties DEF CaughtInv, TypeInv, TypeOK
  <2>2. \A k \in 1 .. Len(findings) : findings[k] = "hang" <=> k >= FirstDeadly
    BY Zenon DEF CaughtInv
  <2>3. ASSUME step = "passed" PROVE FALSE
    <3>1. Len(findings) = Len(Suite)
      BY <2>3 DEF CaughtInv, TypeInv, TypeOK
    <3>2. FirstDeadly \in 1 .. Len(findings) /\ FirstDeadly >= FirstDeadly
      BY <3>1, DeadlyPosition, SuiteLength
    <3>3. findings[FirstDeadly] = "hang"
      BY <2>2, <3>2
    <3>4. "hang" \in UnsafeVerdict
      BY DEF UnsafeVerdict
    <3> QED
      BY <2>1, <2>3, <3>2, <3>3, <3>4, Zenon DEF CaughtInv, RunPasses
  <2> QED
    BY <2>1, <2>2, <2>3, Zenon
<1> QED
  BY <1>1, <1>2, <1>3, PTL DEF Spec
=============================================================================
