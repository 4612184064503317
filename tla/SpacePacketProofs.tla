-------------------------- MODULE SpacePacketProofs --------------------------
(***************************************************************************)
(* Theorems about packets of any content and any length: what pack and     *)
(* unpack do to a header, what the checksum does, and what retargeting     *)
(* leaves of a case.  A packet is reasoned about by its header and its     *)
(* payload, and a number in the length field by its bits.                  *)
(***************************************************************************)
EXTENDS CaseSelection, FiniteSetTheorems, SequenceTheorems, TLAPS

LEMMA WidthIsNat == LengthBits \in Nat /\ LengthBits <= 16
  BY LengthAssumption

LEMMA OctetsOfWord ==
    ASSUME NEW w \in SUBSET (0 .. 15)
    PROVE  /\ High(w) \in Octet /\ Low(w) \in Octet
           /\ Shifted(High(w), 8) \cup Low(w) = w
<1>1. High(w) \in Octet /\ Low(w) \in Octet
  BY DEF High, Low, Field, Octet
<1>2. ASSUME NEW i \in w PROVE i \in Shifted(High(w), 8) \cup Low(w)
  <2>1. i \in 0 .. 15
    OBVIOUS
  <2>2. CASE i < 8
    BY <2>1, <2>2 DEF Low, Field
  <2>3. CASE i >= 8
    <3>1. i - 8 \in High(w) /\ i = (i - 8) + 8
      BY <2>1, <2>3 DEF High, Field
    <3> QED
      BY <3>1 DEF Shifted
  <2> QED
    BY <2>1, <2>2, <2>3
<1>3. ASSUME NEW i \in Shifted(High(w), 8) \cup Low(w) PROVE i \in w
  BY DEF Shifted, High, Low, Field
<1> QED
  BY <1>1, <1>2, <1>3

LEMMA WordsAreWords ==
    ASSUME NEW h
    PROVE  /\ Word0(h) \in SUBSET (0 .. 15)
           /\ Word1(h) \in SUBSET (0 .. 15)
           /\ Word2(h) \in SUBSET (0 .. 15)
<1>1. Word0(h) \in SUBSET (0 .. 15)
  BY DEF Word0, Shifted, APID_MAX
<1>2. Word1(h) \in SUBSET (0 .. 15)
  BY DEF Word1, Shifted
<1>3. Word2(h) \in SUBSET (0 .. 15)
  BY WidthIsNat DEF Word2
<1> QED
  BY <1>1, <1>2, <1>3

LEMMA PackGivesOctets ==
    ASSUME NEW h
    PROVE  /\ Pack(h) \in Seq(Octet) /\ Len(Pack(h)) = 6
           /\ WordAt(Pack(h), 1) = Word0(h)
           /\ WordAt(Pack(h), 3) = Word1(h)
           /\ WordAt(Pack(h), 5) = Word2(h)
<1>1. /\ High(Word0(h)) \in Octet /\ Low(Word0(h)) \in Octet
      /\ High(Word1(h)) \in Octet /\ Low(Word1(h)) \in Octet
      /\ High(Word2(h)) \in Octet /\ Low(Word2(h)) \in Octet
  BY OctetsOfWord, WordsAreWords
<1>2. Pack(h) \in Seq(Octet) /\ Len(Pack(h)) = 6
  BY <1>1 DEF Pack
<1>3. /\ WordAt(Pack(h), 1) = Shifted(High(Word0(h)), 8) \cup Low(Word0(h))
      /\ WordAt(Pack(h), 3) = Shifted(High(Word1(h)), 8) \cup Low(Word1(h))
      /\ WordAt(Pack(h), 5) = Shifted(High(Word2(h)), 8) \cup Low(Word2(h))
  BY DEF Pack, WordAt
<1> QED
  BY <1>2, <1>3, OctetsOfWord, WordsAreWords

\* Every field comes back from the words as far as its width goes.
LEMMA FieldsOfWords ==
    ASSUME NEW h
    PROVE  /\ Field(Word0(h), 13, 3) = h.version \cap 0 .. 2
           /\ Field(Word0(h), 12, 1) = h.packet_type \cap {0}
           /\ Field(Word0(h), 11, 1) = h.sec_hdr_flag \cap {0}
           /\ Word0(h) \cap APID_MAX = h.apid \cap APID_MAX
           /\ Field(Word1(h), 14, 2) = h.seq_flags \cap 0 .. 1
           /\ Word1(h) \cap 0 .. 13 = h.seq_count \cap 0 .. 13
<1>1. \A i \in Int : /\ i + 13 \in Word0(h) /\ i \in 0 .. 2 <=> i \in h.version \cap 0 .. 2
  BY DEF Word0, Shifted, APID_MAX
<1>2. 12 \in Word0(h) <=> 0 \in h.packet_type
  BY DEF Word0, Shifted, APID_MAX
<1>3. 11 \in Word0(h) <=> 0 \in h.sec_hdr_flag
  BY DEF Word0, Shifted, APID_MAX
<1>4. Word0(h) \cap APID_MAX = h.apid \cap APID_MAX
  BY DEF Word0, Shifted, APID_MAX
<1>5. \A i \in Int : /\ i + 14 \in Word1(h) /\ i \in 0 .. 1 <=> i \in h.seq_flags \cap 0 .. 1
  BY DEF Word1, Shifted
<1>6. Word1(h) \cap 0 .. 13 = h.seq_count \cap 0 .. 13
  BY DEF Word1, Shifted
<1> QED
  BY <1>1, <1>2, <1>3, <1>4, <1>5, <1>6 DEF Field

\* PrimaryHeader: unpack gives back every header that pack was given.
THEOREM HeaderRoundTrip == \A h \in Header : Unpack(Pack(h)) = h
<1> SUFFICES ASSUME NEW h \in Header PROVE Unpack(Pack(h)) = h
  OBVIOUS
<1>1. /\ h.version \in SUBSET (0 .. 2) /\ h.packet_type \in SUBSET {0}
      /\ h.sec_hdr_flag \in SUBSET {0} /\ h.apid \in SUBSET APID_MAX
      /\ h.seq_flags \in SUBSET (0 .. 1) /\ h.seq_count \in SUBSET (0 .. 13)
      /\ h.packet_data_length_field \in SUBSET (0 .. LengthBits - 1)
  BY DEF Header
<1>2. Word2(h) = h.packet_data_length_field
  BY <1>1 DEF Word2
<1>3. Unpack(Pack(h)) = HeaderOf(Word0(h), Word1(h), Word2(h))
  BY PackGivesOctets DEF Unpack
<1>4. /\ h.version \cap 0 .. 2 = h.version /\ h.packet_type \cap {0} = h.packet_type
      /\ h.sec_hdr_flag \cap {0} = h.sec_hdr_flag /\ h.apid \cap APID_MAX = h.apid
      /\ h.seq_flags \cap 0 .. 1 = h.seq_flags /\ h.seq_count \cap 0 .. 13 = h.seq_count
  BY <1>1
<1>5. /\ Field(Word0(h), 13, 3) = h.version /\ Field(Word0(h), 12, 1) = h.packet_type
      /\ Field(Word0(h), 11, 1) = h.sec_hdr_flag /\ Word0(h) \cap APID_MAX = h.apid
      /\ Field(Word1(h), 14, 2) = h.seq_flags /\ Word1(h) \cap 0 .. 13 = h.seq_count
  <2>1. /\ Field(Word0(h), 13, 3) = h.version \cap 0 .. 2
        /\ Field(Word0(h), 12, 1) = h.packet_type \cap {0}
        /\ Field(Word0(h), 11, 1) = h.sec_hdr_flag \cap {0}
        /\ Word0(h) \cap APID_MAX = h.apid \cap APID_MAX
        /\ Field(Word1(h), 14, 2) = h.seq_flags \cap 0 .. 1
        /\ Word1(h) \cap 0 .. 13 = h.seq_count \cap 0 .. 13
    BY FieldsOfWords
  <2> QED
    BY <1>4, <2>1
<1> QED
  BY <1>2, <1>3, <1>5 DEF Header, HeaderOf

-----------------------------------------------------------------------------
(***************************************************************************)
(* The header at the front of a packet, and the changes that leave it be.  *)
(***************************************************************************)
LEMMA UnpackSeesSixOctets ==
    ASSUME NEW a, NEW b, \A k \in 1 .. 6 : a[k] = b[k]
    PROVE  Unpack(a) = Unpack(b)
<1>1. WordAt(a, 1) = WordAt(b, 1) /\ WordAt(a, 3) = WordAt(b, 3) /\ WordAt(a, 5) = WordAt(b, 5)
  BY DEF WordAt
<1> QED
  BY <1>1 DEF Unpack

LEMMA PackInFront ==
    ASSUME NEW h, NEW data \in Seq(Octet)
    PROVE  /\ Pack(h) \o data \in Seq(Octet)
           /\ Len(Pack(h) \o data) = 6 + Len(data)
           /\ Unpack(Pack(h) \o data) = Unpack(Pack(h))
<1>1. Pack(h) \in Seq(Octet) /\ Len(Pack(h)) = 6
  BY PackGivesOctets
<1> DEFINE s == Pack(h)
<1> HIDE DEF s
<1>2. /\ s \o data \in Seq(Octet) /\ Len(s \o data) = 6 + Len(data)
      /\ \A k \in 1 .. 6 : (s \o data)[k] = s[k]
  <2>1. s \in Seq(Octet) /\ Len(s) = 6 /\ Len(data) \in Nat
    BY <1>1, LenProperties DEF s
  <2>2. /\ s \o data \in Seq(Octet) /\ Len(s \o data) = Len(s) + Len(data)
        /\ \A i \in 1 .. Len(s) + Len(data) :
              (s \o data)[i] = IF i <= Len(s) THEN s[i] ELSE data[i - Len(s)]
    BY <2>1, ConcatProperties, Zenon
  <2> QED
    BY <2>1, <2>2
<1>3. Unpack(s \o data) = Unpack(s)
  BY <1>2, UnpackSeesSixOctets
<1> QED
  BY <1>2, <1>3 DEF s

LEMMA PayloadIsOctets ==
    ASSUME NEW data \in Seq(Octet), Len(data) >= 6
    PROVE  /\ Payload(data) \in Seq(Octet) /\ Len(Payload(data)) = Len(data) - 6
           /\ \A i \in 1 .. Len(data) - 6 : Payload(data)[i] = data[6 + i]
<1> DEFINE rest == SubSeq(data, 7, Len(data))
<1>1. Len(data) \in Nat /\ \A i \in 7 .. Len(data) : data[i] \in Octet
  BY LenProperties, ElementOfSeq
<1>2. /\ rest \in Seq(Octet)
      /\ Len(rest) = IF 7 <= Len(data) THEN Len(data) - 7 + 1 ELSE 0
      /\ \A i \in 1 .. Len(data) - 7 + 1 : rest[i] = data[7 + i - 1]
  BY <1>1, SubSeqProperties
<1>3. Payload(data) = rest
  BY DEF Payload, PRIMARY_HEADER_SIZE
<1> HIDE DEF rest
<1>4. Len(rest) = Len(data) - 6
  <2>1. Len(rest) = IF 7 <= Len(data) THEN Len(data) - 7 + 1 ELSE 0
    BY <1>2
  <2>2. Len(data) \in Nat
    BY <1>1
  <2>3. CASE Len(data) = 6
    BY <2>1, <2>3
  <2>4. CASE Len(data) >= 7
    BY <2>1, <2>2, <2>4
  <2>5. \A n \in Nat : n >= 6 => n = 6 \/ n >= 7
    OBVIOUS
  <2> QED
    BY <2>2, <2>3, <2>4, <2>5, Zenon
<1>5. \A i \in 1 .. Len(data) - 6 : rest[i] = data[6 + i]
  BY <1>1, <1>2
<1> QED
  BY <1>2, <1>3, <1>4, <1>5, Zenon

LEMMA EighthOctetOnly ==
    ASSUME NEW data \in Seq(Octet), Len(data) >= 8, NEW x \in Octet
    PROVE  /\ [data EXCEPT ![8] = x] \in Seq(Octet)
           /\ Len([data EXCEPT ![8] = x]) = Len(data)
           /\ Unpack([data EXCEPT ![8] = x]) = Unpack(data)
<1>1. /\ [data EXCEPT ![8] = x] \in Seq(Octet)
      /\ Len([data EXCEPT ![8] = x]) = Len(data)
      /\ \A k \in 1 .. 6 : [data EXCEPT ![8] = x][k] = data[k]
  BY ExceptSeq
<1>2. Unpack([data EXCEPT ![8] = x]) = Unpack(data)
  BY <1>1, UnpackSeesSixOctets
<1> QED
  BY <1>1, <1>2

LEMMA SealAndDamage ==
    ASSUME NEW data \in Seq(Octet), Len(data) >= 8
    PROVE  /\ WithCommandChecksum(data) \in Seq(Octet) /\ Damaged(data) \in Seq(Octet)
           /\ Len(WithCommandChecksum(data)) = Len(data) /\ Len(Damaged(data)) = Len(data)
           /\ Unpack(WithCommandChecksum(data)) = Unpack(data)
           /\ Unpack(Damaged(data)) = Unpack(data)
<1> DEFINE y == IF 0 \in data[8] THEN data[8] \ {0} ELSE data[8] \cup {0}
<1>1. PICK x \in Octet : WithCommandChecksum(data) = [data EXCEPT ![8] = x]
  <2>1. (0 .. 7) \ Xor([data EXCEPT ![8] = {}]) \in Octet
    BY DEF Octet
  <2> QED
    BY <2>1 DEF WithCommandChecksum
<1>2. y \in Octet
  <2>1. data[8] \in Octet
    BY ElementOfSeq
  <2> QED
    BY <2>1 DEF Octet
<1>3. Damaged(data) = [data EXCEPT ![8] = y]
  BY DEF Damaged
<1> HIDE DEF y
<1>4. /\ [data EXCEPT ![8] = x] \in Seq(Octet) /\ [data EXCEPT ![8] = y] \in Seq(Octet)
      /\ Len([data EXCEPT ![8] = x]) = Len(data) /\ Len([data EXCEPT ![8] = y]) = Len(data)
      /\ Unpack([data EXCEPT ![8] = x]) = Unpack(data)
      /\ Unpack([data EXCEPT ![8] = y]) = Unpack(data)
  BY <1>2, EighthOctetOnly
<1> QED
  BY <1>1, <1>3, <1>4, Zenon

\* SpacePacket: what to_bytes writes of a header and a payload with no length
\* declared, from_bytes reads back, and validate finds nothing wrong with it
\* unless version or APID are.
THEOREM BuiltPacketsValidate ==
    ASSUME NEW header \in Header, header.version = {}, header.apid # APID_MAX,
           NEW payload \in Seq(Octet), Len(payload) \in 1 .. MAX_PACKET_DATA_LENGTH
    PROVE  LET data == ToBytes(header, payload, None)
           IN  Payload(data) = payload /\ ParsedIssues(data) = {}
<1> DEFINE bits == Bits(Len(payload) - 1, LengthBits)
           h == [header EXCEPT !.packet_data_length_field = bits]
           data == ToBytes(header, payload, None)
<1>1. h \in Header
  <2>1. bits \in SUBSET (0 .. LengthBits - 1)
    BY DEF Bits
  <2> QED
    BY <2>1 DEF Header
<1>2. data = Pack(h) \o payload
  <2>1. payload # <<>> /\ Len(payload) \in Nat
    BY EmptySeq, LenProperties
  <2>2. LengthField(payload) = Len(payload) - 1
    BY <2>1 DEF LengthField
  <2> QED
    BY <2>2 DEF ToBytes
<1>3. h.packet_data_length_field = bits /\ h.version = {} /\ h.apid # APID_MAX
  BY DEF Header
<1> HIDE DEF bits, h
<1>4. data \in Seq(Octet) /\ Len(data) = 6 + Len(payload) /\ Unpack(data) = h
  BY <1>1, <1>2, PackInFront, HeaderRoundTrip
<1>5. Payload(data) = payload
  <2>1. Pack(h) \in Seq(Octet) /\ Len(Pack(h)) = 6 /\ Len(payload) \in Nat
    BY PackGivesOctets, LenProperties
  <2> DEFINE s == Pack(h)
  <2> HIDE DEF s
  <2>2. \A i \in 1 .. Len(payload) : (s \o payload)[6 + i] = payload[i]
    <3>1. s \in Seq(Octet) /\ Len(s) = 6
      BY <2>1 DEF s
    <3>2. \A i \in 1 .. Len(s) + Len(payload) :
             (s \o payload)[i] = IF i <= Len(s) THEN s[i] ELSE payload[i - Len(s)]
      BY <3>1, ConcatProperties, Zenon
    <3>3. ASSUME NEW i \in 1 .. Len(payload) PROVE (s \o payload)[6 + i] = payload[i]
      <4>1. /\ 6 + i \in 1 .. Len(s) + Len(payload)
            /\ ~(6 + i <= Len(s)) /\ 6 + i - Len(s) = i
        BY <2>1, <3>1
      <4> QED
        BY <3>2, <4>1
    <3> QED
      BY <3>3
  <2>4. Len(data) >= 6 /\ Len(data) - 6 = Len(payload)
    BY <1>4, <2>1
  <2>3. /\ Payload(data) \in Seq(Octet) /\ Len(Payload(data)) = Len(payload)
        /\ \A i \in 1 .. Len(payload) : Payload(data)[i] = data[6 + i]
    <3> HIDE DEF data
    <3> QED
      BY <1>4, <2>4, PayloadIsOctets, Zenon
  <2>5. \A i \in 1 .. Len(payload) : Payload(data)[i] = payload[i]
    BY <1>2, <2>2, <2>3 DEF s
  <2> QED
    BY <2>3, <2>5, SeqEqual
<1>6. Issues(h, payload) = {}
  <2>1. DataLengthIs(h, Len(payload))
    BY <1>3 DEF DataLengthIs, bits
  <2>2. ~(Len(payload) > MAX_PACKET_DATA_LENGTH)
    <3>1. MAX_PACKET_DATA_LENGTH \in Int
      BY WidthIsNat DEF MAX_PACKET_DATA_LENGTH, PACKET_DATA_LENGTH_MAX
    <3> QED
      BY <3>1
  <2> DEFINE wrong == [version |-> h.version # {}, idle |-> h.apid = APID_MAX,
                       length |-> ~DataLengthIs(h, Len(payload)),
                       size |-> Len(payload) > MAX_PACKET_DATA_LENGTH]
  <2>3. /\ DOMAIN wrong = {"version", "idle", "length", "size"}
        /\ ~wrong["version"] /\ ~wrong["idle"] /\ ~wrong["length"] /\ ~wrong["size"]
    BY <1>3, <2>1, <2>2
  <2> HIDE DEF wrong
  <2>4. {issue \in DOMAIN wrong : wrong[issue]} = {}
    BY <2>3
  <2> QED
    BY <2>4 DEF Issues, wrong
<1> QED
  BY <1>4, <1>5, <1>6 DEF ParsedIssues

-----------------------------------------------------------------------------
(***************************************************************************)
(* The checksum: each of its bits is the parity of a column.               *)
(***************************************************************************)
Column(data, i) == {k \in DOMAIN data : i \in data[k]}

LEMMA ColumnIsFinite ==
    ASSUME NEW data \in Seq(Octet), NEW i
    PROVE  IsFiniteSet(Column(data, i)) /\ Cardinality(Column(data, i)) \in Nat
<1>1. IsFiniteSet(1 .. Len(data)) /\ Column(data, i) \in SUBSET (1 .. Len(data))
  BY FS_Interval DEF Column
<1> QED
  BY <1>1, FS_Subset, FS_CardinalityType

\* A bit of one octet that changes changes that bit of the exclusive or.
LEMMA OneBitCounts ==
    ASSUME NEW data \in Seq(Octet), NEW k \in 1 .. Len(data), NEW x \in Octet, NEW i \in 0 .. 7
    PROVE  (i \in Xor([data EXCEPT ![k] = x])) <=> ((i \in Xor(data)) <=> (i \in x <=> i \in data[k]))
<1> DEFINE new == [data EXCEPT ![k] = x]
           rest == Column(data, i) \ {k}
<1>1. new \in Seq(Octet) /\ DOMAIN new = DOMAIN data /\ DOMAIN data = 1 .. Len(data)
  BY ExceptSeq
<1>2. Column(data, i) = IF i \in data[k] THEN rest \cup {k} ELSE rest
  BY <1>1 DEF Column
<1>3. Column(new, i) = IF i \in x THEN rest \cup {k} ELSE rest
  BY <1>1 DEF Column
<1>4. IsFiniteSet(rest) /\ Cardinality(rest) \in Nat
  BY ColumnIsFinite, FS_RemoveElement, FS_CardinalityType
<1>5. Cardinality(rest \cup {k}) = Cardinality(rest) + 1
  BY <1>4, FS_AddElement
<1>6. (Cardinality(rest) + 1) % 2 = 1 <=> Cardinality(rest) % 2 # 1
  BY <1>4
<1>7. /\ i \in Xor(data) <=> Cardinality(Column(data, i)) % 2 = 1
      /\ i \in Xor(new) <=> Cardinality(Column(new, i)) % 2 = 1
  BY DEF Xor, Column
<1> HIDE DEF new, rest
<1>8. (i \in Xor(new)) <=> ((i \in Xor(data)) <=> (i \in x <=> i \in data[k]))
  <2>1. CASE i \in x /\ i \in data[k]
    BY <1>2, <1>3, <1>7, <2>1
  <2>2. CASE i \in x /\ i \notin data[k]
    BY <1>2, <1>3, <1>5, <1>6, <1>7, <2>2
  <2>3. CASE i \notin x /\ i \in data[k]
    BY <1>2, <1>3, <1>5, <1>6, <1>7, <2>3
  <2>4. CASE i \notin x /\ i \notin data[k]
    BY <1>2, <1>3, <1>7, <2>4
  <2> QED
    BY <2>1, <2>2, <2>3, <2>4
<1> QED
  BY <1>8 DEF new

\* _with_command_checksum: the checksum holds afterwards, and a packet whose
\* checksum holds has it no more once it is damaged.
LEMMA SealedHolds ==
    ASSUME NEW data \in Seq(Octet), Len(data) >= 8
    PROVE  ChecksumHolds(WithCommandChecksum(data))
<1> DEFINE zeroed == [data EXCEPT ![8] = {}]
           x == (0 .. 7) \ Xor(zeroed)
<1>1. /\ zeroed \in Seq(Octet) /\ Len(zeroed) = Len(data)
      /\ zeroed[8] = {} /\ [zeroed EXCEPT ![8] = x] = [data EXCEPT ![8] = x]
  <2>1. {} \in Octet
    BY DEF Octet
  <2>2. 8 \in 1 .. Len(data) /\ DOMAIN data = 1 .. Len(data)
    BY LenProperties
  <2>3. /\ zeroed \in Seq(Octet) /\ Len(zeroed) = Len(data)
        /\ \A j \in 1 .. Len(data) : zeroed[j] = IF j = 8 THEN {} ELSE data[j]
    BY <2>1, <2>2, ExceptSeq
  <2>4. ASSUME NEW b PROVE [zeroed EXCEPT ![8] = b] = [data EXCEPT ![8] = b]
    OBVIOUS
  <2> QED
    BY <2>2, <2>3, <2>4
<1>2. x \in Octet
  BY DEF Octet
<1>3. WithCommandChecksum(data) = [zeroed EXCEPT ![8] = x]
  BY <1>1 DEF WithCommandChecksum
<1>4. 8 \in 1 .. Len(zeroed)
  BY <1>1, LenProperties
<1> HIDE DEF zeroed
<1>5. ASSUME NEW i \in 0 .. 7 PROVE i \in Xor([zeroed EXCEPT ![8] = x])
  <2>1. i \in x <=> i \notin Xor(zeroed)
    OBVIOUS
  <2> HIDE DEF x
  <2>2. (i \in Xor([zeroed EXCEPT ![8] = x]))
          <=> ((i \in Xor(zeroed)) <=> (i \in x <=> i \in zeroed[8]))
    BY <1>1, <1>2, <1>4, OneBitCounts
  <2> QED
    BY <1>1, <2>1, <2>2
<1> QED
  BY <1>3, <1>5 DEF ChecksumHolds, Xor

LEMMA DamagedFails ==
    ASSUME NEW data \in Seq(Octet), Len(data) >= 8, ChecksumHolds(data)
    PROVE  ~ChecksumHolds(Damaged(data))
<1> DEFINE y == IF 0 \in data[8] THEN data[8] \ {0} ELSE data[8] \cup {0}
<1>1. 8 \in 1 .. Len(data) /\ data[8] \in Octet
  BY LenProperties, ElementOfSeq
<1>2. y \in Octet /\ (0 \in y <=> 0 \notin data[8])
  BY <1>1 DEF Octet
<1>3. Damaged(data) = [data EXCEPT ![8] = y]
  BY DEF Damaged
<1> HIDE DEF y
<1>4. (0 \in Xor([data EXCEPT ![8] = y]))
        <=> ((0 \in Xor(data)) <=> (0 \in y <=> 0 \in data[8]))
  BY <1>1, <1>2, OneBitCounts
<1>5. 0 \in Xor(data)
  BY DEF ChecksumHolds
<1> QED
  BY <1>2, <1>3, <1>4, <1>5 DEF ChecksumHolds

-----------------------------------------------------------------------------
(***************************************************************************)
(* Retargeting.                                                            *)
(***************************************************************************)

\* What the header of a retargeted case says, as far as it is the code's to set.
LEMMA RetargetedFields ==
    ASSUME NEW case, NEW apid \in SUBSET APID_MAX
    PROVE  LET seen == Unpack(Pack(RetargetedHeader(case, apid)))
           IN  seen.apid = apid /\ seen.packet_type = {0}
<1> DEFINE h == RetargetedHeader(case, apid)
<1>1. h.apid = apid /\ h.packet_type = {0}
  BY DEF RetargetedHeader, Unpack, HeaderOf
<1> HIDE DEF h
<1>2. Unpack(Pack(h)) = HeaderOf(Word0(h), Word1(h), Word2(h))
  BY PackGivesOctets DEF Unpack
<1>3. Word0(h) \cap APID_MAX = h.apid \cap APID_MAX /\ Field(Word0(h), 12, 1) = h.packet_type \cap {0}
  BY FieldsOfWords
<1>4. Unpack(Pack(h)).apid = apid /\ Unpack(Pack(h)).packet_type = {0}
  BY <1>1, <1>2, <1>3 DEF HeaderOf
<1> QED
  BY <1>4 DEF h

LEMMA ResealingKeeps ==
    ASSUME NEW case, NEW data \in Seq(Octet)
    PROVE  /\ Resealing(case, data) \in Seq(Octet)
           /\ Len(Resealing(case, data)) = Len(data)
           /\ Unpack(Resealing(case, data)) = Unpack(data)
<1>1. CASE Len(data) < 8
  BY <1>1 DEF Resealing, AsIntended, Sealed
<1>2. CASE Len(data) >= 8
  <2> DEFINE sealed == WithCommandChecksum(data)
  <2>1. /\ sealed \in Seq(Octet) /\ Len(sealed) = Len(data) /\ Unpack(sealed) = Unpack(data)
    BY <1>2, SealAndDamage
  <2>2. Sealed(data) = sealed
    BY <1>2, LenProperties DEF Sealed
  <2> HIDE DEF sealed
  <2>3. /\ Damaged(sealed) \in Seq(Octet) /\ Len(Damaged(sealed)) = Len(data)
        /\ Unpack(Damaged(sealed)) = Unpack(data)
    BY <1>2, <2>1, SealAndDamage
  <2>4. \/ Resealing(case, data) = data
        \/ Resealing(case, data) = sealed
        \/ Resealing(case, data) = Damaged(sealed)
    BY <2>2 DEF Resealing, AsIntended
  <2> QED
    BY <2>1, <2>3, <2>4, Zenon
<1> QED
  BY <1>1, <1>2, LenProperties

\* _select_cases: whatever case is retargeted goes to the configured APID, as a
\* command, and is as long as it was.
THEOREM RetargetedToApid ==
    ASSUME NEW case, case.packet_bytes \in Seq(Octet),
           NEW apid \in SUBSET APID_MAX, apid # None, ~KeptAsIs(case)
    PROVE  LET data == Retargeted(case, apid).packet_bytes
           IN  /\ data \in Seq(Octet) /\ Len(data) = Len(case.packet_bytes)
               /\ Unpack(data).apid = apid /\ Unpack(data).packet_type = {0}
<1> DEFINE old == case.packet_bytes
           h == RetargetedHeader(case, apid)
           data == Pack(h) \o Payload(old)
<1>1. Len(old) >= 6
  BY LenProperties DEF KeptAsIs, PRIMARY_HEADER_SIZE
<1>2. Payload(old) \in Seq(Octet) /\ Len(Payload(old)) = Len(old) - 6
  BY <1>1, PayloadIsOctets
<1>3. /\ data \in Seq(Octet) /\ Len(data) = 6 + Len(Payload(old))
      /\ Unpack(data) = Unpack(Pack(h))
  BY <1>2, PackInFront
<1>4. Unpack(Pack(h)).apid = apid /\ Unpack(Pack(h)).packet_type = {0}
  BY RetargetedFields
<1>5. Retargeted(case, apid).packet_bytes = Resealing(case, data)
  BY DEF Retargeted
<1> HIDE DEF h, data
<1>6. Len(data) = Len(old)
  BY <1>1, <1>2, <1>3, LenProperties
<1>7. /\ Resealing(case, data) \in Seq(Octet) /\ Len(Resealing(case, data)) = Len(data)
      /\ Unpack(Resealing(case, data)) = Unpack(data)
  BY <1>3, ResealingKeeps
<1> QED
  BY <1>3, <1>4, <1>5, <1>6, <1>7

\* A checksum is right after retargeting exactly if it was meant to be: no case
\* is rejected for a checksum that went stale with its header, and the case that
\* tests the checksum keeps its defect.
THEOREM ChecksumsSurviveRetargeting ==
    ASSUME NEW case, case.packet_bytes \in Seq(Octet), Len(case.packet_bytes) >= 8,
           case.checksum_valid \in BOOLEAN,
           case.category \notin {"apid", "secondary_header"},
           NEW apid \in SUBSET APID_MAX, apid # None
    PROVE  ChecksumHolds(Retargeted(case, apid).packet_bytes) <=> case.checksum_valid
<1> DEFINE old == case.packet_bytes
           data == Pack(RetargetedHeader(case, apid)) \o Payload(old)
<1>1. Payload(old) \in Seq(Octet) /\ Len(Payload(old)) = Len(old) - 6
  BY PayloadIsOctets
<1>2. data \in Seq(Octet) /\ Len(data) = 6 + Len(Payload(old))
  BY <1>1, PackInFront
<1>3. Retargeted(case, apid).packet_bytes = Resealing(case, data)
  BY LenProperties DEF Retargeted, KeptAsIs, PRIMARY_HEADER_SIZE
<1> HIDE DEF data
<1>4. Len(data) >= 8
  BY <1>1, <1>2, LenProperties
<1> DEFINE sealed == WithCommandChecksum(data)
<1>5. sealed \in Seq(Octet) /\ Len(sealed) = Len(data) /\ ChecksumHolds(sealed)
  BY <1>2, <1>4, SealAndDamage, SealedHolds
<1>6. Sealed(data) = sealed
  BY <1>2, <1>4, LenProperties DEF Sealed
<1> HIDE DEF sealed
<1>7. ~ChecksumHolds(Damaged(sealed))
  BY <1>4, <1>5, DamagedFails
<1>8. Resealing(case, data) = IF case.checksum_valid THEN sealed ELSE Damaged(sealed)
  BY <1>2, <1>4, <1>5, <1>6, LenProperties DEF Resealing, AsIntended
<1> QED
  BY <1>3, <1>5, <1>7, <1>8

-----------------------------------------------------------------------------
(***************************************************************************)
(* A packet by its header and its payload.                                 *)
(***************************************************************************)
Formed(data, header, payload) ==
    /\ header \in Header /\ payload \in Seq(Octet)
    /\ data \in Seq(Octet) /\ Len(data) = 6 + Len(payload)
    /\ Unpack(data) = header
    /\ \A i \in 1 .. Len(payload) : data[6 + i] = payload[i]

LEMMA AfterTheHeader ==
    ASSUME NEW h, NEW payload \in Seq(Octet), NEW i \in 1 .. Len(payload)
    PROVE  (Pack(h) \o payload)[6 + i] = payload[i]
<1> DEFINE s == Pack(h)
<1>1. s \in Seq(Octet) /\ Len(s) = 6 /\ Len(payload) \in Nat
  BY PackGivesOctets, LenProperties
<1> HIDE DEF s
<1>2. \A j \in 1 .. Len(s) + Len(payload) :
         (s \o payload)[j] = IF j <= Len(s) THEN s[j] ELSE payload[j - Len(s)]
  BY <1>1, ConcatProperties, Zenon
<1>3. /\ 6 + i \in 1 .. Len(s) + Len(payload)
      /\ ~(6 + i <= Len(s)) /\ 6 + i - Len(s) = i
  BY <1>1
<1>4. (s \o payload)[6 + i] = payload[i]
  BY <1>2, <1>3
<1> QED
  BY <1>4 DEF s

LEMMA PackedIsFormed ==
    ASSUME NEW header \in Header, NEW payload \in Seq(Octet)
    PROVE  /\ Formed(Pack(header) \o payload, header, payload)
           /\ WordAt(Pack(header) \o payload, 1) = Word0(header)
<1> DEFINE data == Pack(header) \o payload
<1>1. data \in Seq(Octet) /\ Len(data) = 6 + Len(payload) /\ Unpack(data) = header
  BY PackInFront, HeaderRoundTrip
<1>2. \A i \in 1 .. Len(payload) : data[6 + i] = payload[i]
  BY AfterTheHeader
<1>3. data[1] = Pack(header)[1] /\ data[2] = Pack(header)[2]
  <2> DEFINE s == Pack(header)
  <2>1. s \in Seq(Octet) /\ Len(s) = 6 /\ Len(payload) \in Nat
    BY PackGivesOctets, LenProperties
  <2> HIDE DEF s
  <2>2. \A i \in 1 .. Len(s) + Len(payload) :
           (s \o payload)[i] = IF i <= Len(s) THEN s[i] ELSE payload[i - Len(s)]
    BY <2>1, ConcatProperties, Zenon
  <2>3. /\ 1 \in 1 .. Len(s) + Len(payload) /\ 1 <= Len(s)
        /\ 2 \in 1 .. Len(s) + Len(payload) /\ 2 <= Len(s)
    BY <2>1
  <2>4. (s \o payload)[1] = s[1] /\ (s \o payload)[2] = s[2]
    BY <2>2, <2>3, Zenon
  <2> QED
    BY <2>4 DEF s
<1>4. WordAt(data, 1) = Word0(header)
  BY <1>3, PackGivesOctets DEF WordAt
<1> QED
  BY <1>1, <1>2, <1>4 DEF Formed

\* SpacePacket.to_bytes.
Declaring(header, length) ==
    [header EXCEPT !.packet_data_length_field = Bits(length, LengthBits)]

LEMMA BuiltIsFormed ==
    ASSUME NEW header \in Header, NEW payload \in Seq(Octet), NEW declared
    PROVE  LET length == IF declared = None THEN LengthField(payload) ELSE declared
               data == ToBytes(header, payload, declared)
           IN  /\ Formed(data, Declaring(header, length), payload)
               /\ WordAt(data, 1) = Word0(header)
<1> DEFINE length == IF declared = None THEN LengthField(payload) ELSE declared
           h == Declaring(header, length)
<1>1. h \in Header
  <2>1. Bits(length, LengthBits) \in SUBSET (0 .. LengthBits - 1)
    BY DEF Bits
  <2> QED
    BY <2>1 DEF Header, Declaring
<1>2. ToBytes(header, payload, declared) = Pack(h) \o payload
  BY DEF ToBytes, Declaring
<1>3. Word0(h) = Word0(header)
  BY DEF Word0, Declaring, Header
<1> HIDE DEF h
<1>4. Formed(Pack(h) \o payload, h, payload) /\ WordAt(Pack(h) \o payload, 1) = Word0(h)
  BY <1>1, PackedIsFormed
<1> QED
  BY <1>2, <1>3, <1>4 DEF h

LEMMA FieldsOfFormed ==
    ASSUME NEW data, NEW header, NEW payload, Formed(data, header, payload)
    PROVE  /\ Unpack(data) = header /\ Len(data) = 6 + Len(payload) /\ Len(payload) \in Nat
           /\ data \in Seq(Octet) /\ payload \in Seq(Octet) /\ header \in Header
           /\ \A i \in 1 .. Len(payload) : data[6 + i] = payload[i]
  BY LenProperties DEF Formed

\* One octet after the header is another.
LEMMA FormedExcept ==
    ASSUME NEW data, NEW header, NEW payload, Formed(data, header, payload),
           NEW i \in 1 .. Len(payload), NEW x \in Octet
    PROVE  Formed([data EXCEPT ![6 + i] = x], header, [payload EXCEPT ![i] = x])
<1> DEFINE new == [data EXCEPT ![6 + i] = x]
           rest == [payload EXCEPT ![i] = x]
<1>1. /\ Unpack(data) = header /\ Len(data) = 6 + Len(payload) /\ Len(payload) \in Nat
      /\ data \in Seq(Octet) /\ payload \in Seq(Octet) /\ header \in Header
      /\ \A j \in 1 .. Len(payload) : data[6 + j] = payload[j]
  BY FieldsOfFormed
<1>2. 6 + i \in 1 .. Len(data)
  BY <1>1
<1>3. /\ new \in Seq(Octet) /\ Len(new) = Len(data)
      /\ \A j \in 1 .. Len(data) : new[j] = IF j = 6 + i THEN x ELSE data[j]
  BY <1>1, <1>2, ExceptSeq
<1>4. /\ rest \in Seq(Octet) /\ Len(rest) = Len(payload)
      /\ \A j \in 1 .. Len(payload) : rest[j] = IF j = i THEN x ELSE payload[j]
  BY <1>1, ExceptSeq
<1> HIDE DEF new, rest
<1>5. ASSUME NEW j \in 1 .. Len(payload) PROVE new[6 + j] = rest[j]
  <2>1. 6 + j \in 1 .. Len(data) /\ (6 + j = 6 + i <=> j = i)
    BY <1>1
  <2>2. new[6 + j] = IF 6 + j = 6 + i THEN x ELSE data[6 + j]
    BY <1>3, <2>1
  <2>3. rest[j] = IF j = i THEN x ELSE payload[j]
    BY <1>4
  <2> QED
    BY <1>1, <2>1, <2>2, <2>3
<1>6. \A k \in 1 .. 6 : new[k] = data[k]
  BY <1>1, <1>3
<1>7. Unpack(new) = header
  BY <1>1, <1>6, UnpackSeesSixOctets
<1>8. Formed(new, header, rest)
  BY <1>1, <1>3, <1>4, <1>5, <1>7 DEF Formed
<1> QED
  BY <1>8 DEF new, rest

\* Sealing and damaging change the second octet of the payload.
LEMMA SealedIsFormed ==
    ASSUME NEW data, NEW header, NEW payload, Formed(data, header, payload), Len(payload) >= 2
    PROVE  /\ \E x \in Octet : Formed(WithCommandChecksum(data), header, [payload EXCEPT ![2] = x])
           /\ \E x \in Octet : Formed(Damaged(data), header, [payload EXCEPT ![2] = x])
<1> DEFINE y == IF 0 \in data[8] THEN data[8] \ {0} ELSE data[8] \cup {0}
<1>1. PICK x \in Octet : WithCommandChecksum(data) = [data EXCEPT ![8] = x]
  <2>1. (0 .. 7) \ Xor([data EXCEPT ![8] = {}]) \in Octet
    BY DEF Octet
  <2> QED
    BY <2>1 DEF WithCommandChecksum
<1>2. y \in Octet
  <2>1. data[8] \in Octet
    <3>1. data \in Seq(Octet) /\ 8 \in 1 .. Len(data)
      BY FieldsOfFormed
    <3> QED
      BY <3>1, ElementOfSeq
  <2> QED
    BY <2>1 DEF Octet
<1>3. Damaged(data) = [data EXCEPT ![8] = y]
  BY DEF Damaged
<1> HIDE DEF y
<1>4. 2 \in 1 .. Len(payload) /\ 6 + 2 = 8
  BY FieldsOfFormed
<1>5. \A z \in Octet : Formed([data EXCEPT ![8] = z], header, [payload EXCEPT ![2] = z])
  BY <1>4, FormedExcept
<1> QED
  BY <1>1, <1>2, <1>3, <1>5
\* The header of a case that is made a command for another application.
Commanding(header, category, apid) ==
    [header EXCEPT !.apid = apid, !.packet_type = {0},
                   !.sec_hdr_flag = IF category = "secondary_header" THEN @ ELSE {0}]

\* What a packet keeps of a payload whose second octet is the checksum.
Carries(data, header, payload) ==
    /\ data \in Seq(Octet) /\ Len(data) = 6 + Len(payload)
    /\ Unpack(data) = header
    /\ \A i \in 1 .. Len(payload) : i # 2 => data[6 + i] = payload[i]

LEMMA FormedCarries ==
    ASSUME NEW data, NEW header, NEW payload, Formed(data, header, payload)
    PROVE  Carries(data, header, payload)
  BY DEF Formed, Carries

LEMMA ChangedCarries ==
    ASSUME NEW data, NEW header, NEW payload, NEW x \in Octet, payload \in Seq(Octet),
           Len(payload) >= 2, Formed(data, header, [payload EXCEPT ![2] = x])
    PROVE  Carries(data, header, payload)
<1>1. Len(payload) \in Nat /\ 2 \in 1 .. Len(payload)
  BY LenProperties
<1> DEFINE new == [payload EXCEPT ![2] = x]
<1>2. /\ Len(new) = Len(payload)
      /\ \A j \in 1 .. Len(payload) : new[j] = IF j = 2 THEN x ELSE payload[j]
  BY <1>1, ExceptSeq
<1> HIDE DEF new
<1>3. Formed(data, header, new)
  BY DEF new
<1> QED
  BY <1>2, <1>3 DEF Formed, Carries

LEMMA ResealedCarries ==
    ASSUME NEW case, NEW data, NEW header, NEW payload, Formed(data, header, payload)
    PROVE  /\ Carries(Resealing(case, data), header, payload)
           /\ case.category = "secondary_header" => Resealing(case, data) = data
<1>1. /\ Len(data) = 6 + Len(payload) /\ Len(payload) \in Nat
      /\ data \in Seq(Octet) /\ payload \in Seq(Octet)
  BY FieldsOfFormed
<1>2. CASE case.category = "secondary_header" \/ Len(data) < 8
  <2>1. Resealing(case, data) = data
    BY <1>2 DEF Resealing, AsIntended, Sealed
  <2> QED
    BY <2>1, FormedCarries
<1>3. CASE ~(case.category = "secondary_header") /\ ~(Len(data) < 8)
  <2> DEFINE sealed == WithCommandChecksum(data)
  <2>1. Len(payload) >= 2
    BY <1>1, <1>3
  <2>2. PICK x \in Octet : Formed(sealed, header, [payload EXCEPT ![2] = x])
    BY <2>1, SealedIsFormed
  <2> DEFINE new == [payload EXCEPT ![2] = x]
  <2>3. /\ new \in Seq(Octet) /\ Len(new) = Len(payload)
        /\ \A z : [new EXCEPT ![2] = z] = [payload EXCEPT ![2] = z]
    <3>1. 2 \in 1 .. Len(payload)
      BY <1>1, <2>1
    <3> QED
      BY <1>1, <3>1, ExceptSeq
  <2> HIDE DEF sealed, new
  <2>4. Formed(sealed, header, new)
    BY <2>2 DEF new
  <2>5. Len(new) >= 2
    BY <2>1, <2>3
  <2>6. PICK y \in Octet : Formed(Damaged(sealed), header, [new EXCEPT ![2] = y])
    BY <2>4, <2>5, SealedIsFormed
  <2>7. Formed(Damaged(sealed), header, [payload EXCEPT ![2] = y])
    BY <2>3, <2>6
  <2>8. Carries(sealed, header, payload) /\ Carries(Damaged(sealed), header, payload)
    BY <1>1, <2>1, <2>2, <2>7, ChangedCarries
  <2>9. Sealed(data) = sealed
    BY <1>3 DEF Sealed, sealed
  <2>10. Resealing(case, data) = sealed \/ Resealing(case, data) = Damaged(sealed)
    BY <1>3, <2>9 DEF Resealing, AsIntended
  <2> QED
    BY <1>3, <2>8, <2>10, Zenon
<1> QED
  BY <1>2, <1>3

\* _select_cases: a case of any category but the one that tests APIDs keeps its
\* payload, and its header but for the APID, the type and the flag.
LEMMA RetargetedCarries ==
    ASSUME NEW case, NEW header, NEW payload, Formed(case.packet_bytes, header, payload),
           case.category # "apid", NEW apid \in SUBSET APID_MAX, apid # None
    PROVE  LET data == Retargeted(case, apid).packet_bytes
               h == Commanding(header, case.category, apid)
           IN  /\ h \in Header
               /\ Carries(data, h, payload)
               /\ case.category = "secondary_header" => data = Pack(h) \o payload
<1> DEFINE old == case.packet_bytes
           h == Commanding(header, case.category, apid)
           data == Pack(h) \o payload
<1>1. /\ Unpack(old) = header /\ Len(old) = 6 + Len(payload) /\ Len(payload) \in Nat
      /\ old \in Seq(Octet) /\ payload \in Seq(Octet) /\ header \in Header
      /\ \A i \in 1 .. Len(payload) : old[6 + i] = payload[i]
  BY FieldsOfFormed
<1>2. RetargetedHeader(case, apid) = h
  BY <1>1 DEF RetargetedHeader, Commanding
<1>3. Payload(old) = payload
  <2>1. Len(old) >= 6 /\ Len(old) - 6 = Len(payload)
    BY <1>1
  <2> HIDE DEF old
  <2>2. /\ Payload(old) \in Seq(Octet) /\ Len(Payload(old)) = Len(payload)
        /\ \A i \in 1 .. Len(payload) : Payload(old)[i] = old[6 + i]
    BY <1>1, <2>1, PayloadIsOctets, Zenon
  <2>3. \A i \in 1 .. Len(payload) : Payload(old)[i] = payload[i]
    BY <1>1, <2>2
  <2> QED
    BY <1>1, <2>2, <2>3, SeqEqual
<1>4. h \in Header
  BY <1>1 DEF Commanding, Header
<1>5. ~KeptAsIs(case)
  BY <1>1 DEF KeptAsIs, PRIMARY_HEADER_SIZE
<1>6. Retargeted(case, apid).packet_bytes = Resealing(case, data)
  BY <1>2, <1>3, <1>5 DEF Retargeted
<1> HIDE DEF h
<1>7. Formed(data, h, payload)
  BY <1>1, <1>4, PackedIsFormed
<1> HIDE DEF data
<1>8. /\ Carries(Resealing(case, data), h, payload)
      /\ case.category = "secondary_header" => Resealing(case, data) = data
  BY <1>7, ResealedCarries
<1> QED
  BY <1>4, <1>6, <1>8, Zenon DEF h, data

-----------------------------------------------------------------------------
(***************************************************************************)
(* Numbers in the length field.                                            *)
(***************************************************************************)
\* The powers of two that octets and fields need, as the provers compute no others.
Weight == <<1, 2, 4, 8, 16, 32, 64, 128, 256, 512, 1024, 2048, 4096, 8192, 16384, 32768, 65536>>

LEMMA WeightsArePowers == ASSUME NEW i \in 0 .. 16 PROVE 2^i = Weight[i + 1]
<1>1. CASE i = 0
  BY <1>1 DEF Weight
<1>2. CASE i = 1
  BY <1>2 DEF Weight
<1>3. CASE i = 2
  BY <1>3 DEF Weight
<1>4. CASE i = 3
  BY <1>4 DEF Weight
<1>5. CASE i = 4
  BY <1>5 DEF Weight
<1>6. CASE i = 5
  BY <1>6 DEF Weight
<1>7. CASE i = 6
  BY <1>7 DEF Weight
<1>8. CASE i = 7
  BY <1>8 DEF Weight
<1>9. CASE i = 8
  BY <1>9 DEF Weight
<1>10. CASE i = 9
  BY <1>10 DEF Weight
<1>11. CASE i = 10
  BY <1>11 DEF Weight
<1>12. CASE i = 11
  BY <1>12 DEF Weight
<1>13. CASE i = 12
  BY <1>13 DEF Weight
<1>14. CASE i = 13
  BY <1>14 DEF Weight
<1>15. CASE i = 14
  BY <1>15 DEF Weight
<1>16. CASE i = 15
  BY <1>16 DEF Weight
<1>17. CASE i = 16
  BY <1>17 DEF Weight
<1> QED
  BY <1>1, <1>2, <1>3, <1>4, <1>5, <1>6, <1>7, <1>8, <1>9, <1>10, <1>11, <1>12, <1>13, <1>14, <1>15, <1>16, <1>17

\* A number that the field holds and that has only its low two bits is below four.
LEMMA MoreThanThree ==
    ASSUME NEW w \in 3 .. 16, NEW n \in Nat, n < 2^w, n > 3
    PROVE  \E i \in 2 .. w - 1 : (n \div 2^i) % 2 = 1
<1> SUFFICES ASSUME \A i \in 2 .. w - 1 : (n \div 2^i) % 2 # 1 PROVE FALSE
  OBVIOUS
<1>1. \A i \in 2 .. w - 1 : (n \div Weight[i + 1]) % 2 # 1
  <2> SUFFICES ASSUME NEW i \in 2 .. w - 1 PROVE (n \div Weight[i + 1]) % 2 # 1
    OBVIOUS
  <2>1. i \in 0 .. 16 /\ (n \div 2^i) % 2 # 1
    OBVIOUS
  <2> QED
    BY <2>1, WeightsArePowers, Zenon
<1>2. n < Weight[w + 1]
  <2>1. w \in 0 .. 16
    OBVIOUS
  <2> QED
    BY <2>1, WeightsArePowers, Zenon
<1>3. \A j \in 3 .. w : (n \div Weight[j]) % 2 = 0
  <2> SUFFICES ASSUME NEW j \in 3 .. w PROVE (n \div Weight[j]) % 2 = 0
    OBVIOUS
  <2>1. j - 1 \in 2 .. w - 1 /\ (j - 1) + 1 = j
    OBVIOUS
  <2>2. (n \div Weight[j]) % 2 # 1
    BY <1>1, <2>1
  <2>3. Weight[j] \in Nat \ {0}
    BY DEF Weight
  <2> QED
    BY <2>2, <2>3
<1>4. /\ Weight[3] = 4 /\ Weight[4] = 8 /\ Weight[5] = 16 /\ Weight[6] = 32 /\ Weight[7] = 64
      /\ Weight[8] = 128 /\ Weight[9] = 256 /\ Weight[10] = 512 /\ Weight[11] = 1024
      /\ Weight[12] = 2048 /\ Weight[13] = 4096 /\ Weight[14] = 8192 /\ Weight[15] = 16384
      /\ Weight[16] = 32768 /\ Weight[17] = 65536
  BY DEF Weight
<1>5. CASE w = 3
  BY <1>2, <1>3, <1>4, <1>5
<1>6. CASE w = 4
  BY <1>2, <1>3, <1>4, <1>6
<1>7. CASE w = 5
  BY <1>2, <1>3, <1>4, <1>7
<1>8. CASE w = 6
  BY <1>2, <1>3, <1>4, <1>8
<1>9. CASE w = 7
  BY <1>2, <1>3, <1>4, <1>9
<1>10. CASE w = 8
  BY <1>2, <1>3, <1>4, <1>10
<1>11. CASE w = 9
  BY <1>2, <1>3, <1>4, <1>11
<1>12. CASE w = 10
  BY <1>2, <1>3, <1>4, <1>12
<1>13. CASE w = 11
  BY <1>2, <1>3, <1>4, <1>13
<1>14. CASE w = 12
  BY <1>2, <1>3, <1>4, <1>14
<1>15. CASE w = 13
  BY <1>2, <1>3, <1>4, <1>15
<1>16. CASE w = 14
  BY <1>2, <1>3, <1>4, <1>16
<1>17. CASE w = 15
  BY <1>2, <1>3, <1>4, <1>17
<1>18. CASE w = 16
  BY <1>2, <1>3, <1>4, <1>18
<1> QED
  BY <1>5, <1>6, <1>7, <1>8, <1>9, <1>10, <1>11, <1>12, <1>13, <1>14, <1>15, <1>16, <1>17, <1>18

LEMMA SmallBits ==
    ASSUME NEW n \in 0 .. 3, NEW w \in 2 .. 16
    PROVE  Bits(n, w) = {i \in 0 .. 1 : n = 3 \/ n = i + 1}
<1>1. ASSUME NEW i \in 0 .. w - 1 PROVE (n \div 2^i) % 2 = 1 <=> i \in 0 .. 1 /\ (n = 3 \/ n = i + 1)
  <2>1. i \in 0 .. 15 /\ i \in 0 .. 16
    OBVIOUS
  <2>2. CASE i = 0
    BY <2>2
  <2>3. CASE i = 1
    BY <2>3
  <2>4. CASE i \in 2 .. 15
    <3>1. Weight[i + 1] \in Nat /\ Weight[i + 1] >= 4
      BY <2>4 DEF Weight
    <3>2. n \div Weight[i + 1] = 0
      BY <3>1
    <3>3. n \div 2^i = 0
      BY <2>1, <3>2, WeightsArePowers, Zenon
    <3>4. 0 % 2 # 1 /\ i \notin 0 .. 1
      BY <2>4
    <3> QED
      BY <3>3, <3>4, Zenon
  <2> QED
    BY <2>1, <2>2, <2>3, <2>4
<1>2. 0 .. 1 \subseteq 0 .. w - 1
  OBVIOUS
<1> QED
  BY <1>1, <1>2 DEF Bits

LEMMA VersionBits ==
    ASSUME NEW v \in 1 .. 7
    PROVE  Bits(v, 3) \in SUBSET (0 .. 2) /\ Bits(v, 3) # {}
<1>1. Bits(v, 3) \in SUBSET (0 .. 2)
  BY DEF Bits
<1>2. (v \div 1) % 2 = 1 \/ (v \div 2) % 2 = 1 \/ (v \div 4) % 2 = 1
  OBVIOUS
<1>3. ASSUME NEW i \in 0 .. 2, (v \div Weight[i + 1]) % 2 = 1 PROVE Bits(v, 3) # {}
  <2>1. i \in 0 .. 16 /\ i \in 0 .. 3 - 1
    OBVIOUS
  <2>2. (v \div 2^i) % 2 = 1
    BY <1>3, <2>1, WeightsArePowers, Zenon
  <2>3. i \in Bits(v, 3)
    BY <2>1, <2>2, Zenon DEF Bits
  <2> QED
    BY <2>3
<1>4. Weight[0 + 1] = 1 /\ Weight[1 + 1] = 2 /\ Weight[2 + 1] = 4
  BY DEF Weight
<1>5. \E i \in 0 .. 2 : (v \div Weight[i + 1]) % 2 = 1
  BY <1>2, <1>4
<1> QED
  BY <1>1, <1>3, <1>5

\* The length field of a packet that declares the length of four octets.
LEMMA FourOctets ==
    ASSUME NEW w \in 3 .. 16
    PROVE  /\ Bits(3, w) = {0, 1}
           /\ \A n \in Nat : n # 3 /\ n < 2^w => Bits(n, w) # {0, 1}
<1>1. w \in 2 .. 16
  OBVIOUS
<1>2. Bits(3, w) = {0, 1}
  BY <1>1, SmallBits
<1>3. ASSUME NEW n \in Nat, n # 3, n < 2^w PROVE Bits(n, w) # {0, 1}
  <2>1. CASE n < 3
    BY <1>1, <2>1, SmallBits
  <2>2. CASE n > 3
    <3>1. PICK i \in 2 .. w - 1 : (n \div 2^i) % 2 = 1
      BY <1>3, <2>2, MoreThanThree
    <3>2. i \in Bits(n, w)
      BY <3>1 DEF Bits
    <3> QED
      BY <3>2
  <2> QED
    BY <1>3, <2>1, <2>2
<1> QED
  BY <1>2, <1>3

-----------------------------------------------------------------------------
(***************************************************************************)
(* The exclusive or of ten octets, and of those of the case with the flag  *)
(* of a secondary header it does not have.                                 *)
(***************************************************************************)
LEMMA XorOfTen ==
    ASSUME NEW data \in Seq(Octet), Len(data) = 10, NEW i \in 0 .. 7
    PROVE  i \in Xor(data) <=>
              ~ (i \in data[1] <=> (i \in data[2] <=> (i \in data[3] <=> (i \in data[4] <=>
                (i \in data[5] <=> (i \in data[6] <=> (i \in data[7] <=> (i \in data[8] <=>
                (i \in data[9] <=> i \in data[10])))))))))
<1> DEFINE upto(n) == {k \in 1 .. n : i \in data[k]}
           odd(n) == Cardinality(upto(n)) % 2 = 1
<1>1. i \in Xor(data) <=> odd(10)
  <2>1. DOMAIN data = 1 .. 10
    BY LenProperties
  <2> QED
    BY <2>1 DEF Xor
<1>2. ~odd(0)
  <2>1. upto(0) = {}
    OBVIOUS
  <2>2. Cardinality(upto(0)) = 0
    BY <2>1, FS_EmptySet
  <2> HIDE DEF upto
  <2> QED
    BY <2>2
<1>3. ASSUME NEW n \in 0 .. 9 PROVE odd(n + 1) <=> ~(odd(n) <=> i \in data[n + 1])
  <2>1. IsFiniteSet(upto(n)) /\ Cardinality(upto(n)) \in Nat
    <3>1. IsFiniteSet(1 .. n) /\ upto(n) \in SUBSET (1 .. n)
      BY FS_Interval
    <3> QED
      BY <3>1, FS_Subset, FS_CardinalityType
  <2>2. n + 1 \notin upto(n)
    OBVIOUS
  <2>3. CASE i \in data[n + 1]
    <3>1. upto(n + 1) = upto(n) \cup {n + 1}
      BY <2>3
    <3> HIDE DEF upto
    <3>2. Cardinality(upto(n + 1)) = Cardinality(upto(n)) + 1
      BY <2>1, <2>2, <3>1, FS_AddElement
    <3> QED
      BY <2>1, <2>3, <3>2
  <2>4. CASE i \notin data[n + 1]
    <3>1. upto(n + 1) = upto(n)
      BY <2>4
    <3> QED
      BY <2>4, <3>1
  <2> QED
    BY <2>3, <2>4
<1> HIDE DEF odd
<1>4. /\ odd(1) <=> ~(odd(0) <=> i \in data[1])
      /\ odd(2) <=> ~(odd(1) <=> i \in data[2])
      /\ odd(3) <=> ~(odd(2) <=> i \in data[3])
      /\ odd(4) <=> ~(odd(3) <=> i \in data[4])
      /\ odd(5) <=> ~(odd(4) <=> i \in data[5])
      /\ odd(6) <=> ~(odd(5) <=> i \in data[6])
      /\ odd(7) <=> ~(odd(6) <=> i \in data[7])
      /\ odd(8) <=> ~(odd(7) <=> i \in data[8])
      /\ odd(9) <=> ~(odd(8) <=> i \in data[9])
      /\ odd(10) <=> ~(odd(9) <=> i \in data[10])
  BY <1>3
<1> QED
  BY <1>1, <1>2, <1>4
=============================================================================
