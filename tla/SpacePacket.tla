----------------------------- MODULE SpacePacket -----------------------------
(***************************************************************************)
(* The CCSDS space packet (ccsds/packet.py, ccsds/constants.py) and the    *)
(* checksum of a cFE command, of which the code has four copies.           *)
(*                                                                         *)
(* A field, an octet and a 16-bit word are the sets of their one bits, bit *)
(* 0 the least significant: a mask is an intersection, a shift adds to     *)
(* every member.  Lengths are numbers.  Octet k of the code, which counts  *)
(* from 0, is member k + 1 of a sequence.                                  *)
(***************************************************************************)
EXTENDS Integers, Sequences, FiniteSets

CONSTANTS
    LengthBits,     \* PACKET_DATA_LENGTH_BITS: 16 in the code
    None            \* Python's None

ASSUME LengthAssumption == LengthBits \in 1 .. 16

PRIMARY_HEADER_SIZE == 6
APID_MAX == 0 .. 10
SEQ_FLAGS_UNSEGMENTED == {0, 1}
PACKET_DATA_LENGTH_MAX == 2^LengthBits - 1
MAX_PACKET_DATA_LENGTH == PACKET_DATA_LENGTH_MAX + 1

Octet == SUBSET (0 .. 7)

\* A PrimaryHeader with every field within its width.
Header == [version      : SUBSET (0 .. 2),
           packet_type  : SUBSET {0},
           sec_hdr_flag : SUBSET {0},
           apid         : SUBSET APID_MAX,
           seq_flags    : SUBSET (0 .. 1),
           seq_count    : SUBSET (0 .. 13),
           packet_data_length_field : SUBSET (0 .. LengthBits - 1)]

\* The low bits of a number, and a field of a word.
Bits(n, width) == {i \in 0 .. width - 1 : (n \div 2^i) % 2 = 1}
Shifted(bits, by) == {i + by : i \in bits}
Field(word, shift, width) == {i \in 0 .. width - 1 : i + shift \in word}

\* Plausible error: a field one bit short.
ApidOneBitShort(h) ==
    Shifted(h.version \cap 0 .. 2, 13) \cup Shifted(h.packet_type \cap {0}, 12)
      \cup Shifted(h.sec_hdr_flag \cap {0}, 11) \cup (h.apid \cap 0 .. 9)

-----------------------------------------------------------------------------
(***************************************************************************)
(* PrimaryHeader.                                                          *)
(***************************************************************************)
Word0(h) ==
    Shifted(h.version \cap 0 .. 2, 13) \cup Shifted(h.packet_type \cap {0}, 12)
      \cup Shifted(h.sec_hdr_flag \cap {0}, 11) \cup (h.apid \cap APID_MAX)
Word1(h) == Shifted(h.seq_flags \cap 0 .. 1, 14) \cup (h.seq_count \cap 0 .. 13)
Word2(h) == h.packet_data_length_field \cap 0 .. LengthBits - 1

High(word) == Field(word, 8, 8)
Low(word) == Field(word, 0, 8)

Pack(h) == <<High(Word0(h)), Low(Word0(h)), High(Word1(h)), Low(Word1(h)),
             High(Word2(h)), Low(Word2(h))>>

WordAt(data, k) == Shifted(data[k], 8) \cup data[k + 1]

HeaderOf(word0, word1, word2) ==
    [version      |-> Field(word0, 13, 3),
     packet_type  |-> Field(word0, 12, 1),
     sec_hdr_flag |-> Field(word0, 11, 1),
     apid         |-> word0 \cap APID_MAX,
     seq_flags    |-> Field(word1, 14, 2),
     seq_count    |-> word1 \cap 0 .. 13,
     packet_data_length_field |-> word2]

\* Of data that has the six octets; unpack raises on less.
Unpack(data) == HeaderOf(WordAt(data, 1), WordAt(data, 3), WordAt(data, 5))

\* data_length, the field plus one, is n.
DataLengthIs(h, n) ==
    n \in 1 .. MAX_PACKET_DATA_LENGTH /\ h.packet_data_length_field = Bits(n - 1, LengthBits)

-----------------------------------------------------------------------------
(***************************************************************************)
(* SpacePacket: a header, what follows it, and the length to declare, None *)
(* for the true one.                                                       *)
(***************************************************************************)
LengthField(payload) == IF payload = <<>> THEN 0 ELSE Len(payload) - 1

ToBytes(header, payload, declared) ==
    LET length == IF declared = None THEN LengthField(payload) ELSE declared
    IN  Pack([header EXCEPT !.packet_data_length_field = Bits(length, LengthBits)]) \o payload

\* What validate finds wrong with a packet of this header and payload.  The
\* declared length of a packet under construction does not enter.
Issues(header, payload) ==
    LET wrong == [version |-> header.version # {},
                  idle    |-> header.apid = APID_MAX,
                  length  |-> ~DataLengthIs(header, Len(payload)),
                  size    |-> Len(payload) > MAX_PACKET_DATA_LENGTH]
    IN  {issue \in DOMAIN wrong : wrong[issue]}

\* from_bytes takes all that follows the header for user data.
Payload(data) == SubSeq(data, PRIMARY_HEADER_SIZE + 1, Len(data))
ParsedIssues(data) == Issues(Unpack(data), Payload(data))

-----------------------------------------------------------------------------
(***************************************************************************)
(* The command checksum, the eighth octet: with it, the exclusive or of    *)
(* all octets is 0xFF.                                                     *)
(***************************************************************************)
Xor(data) == {i \in 0 .. 7 : Cardinality({k \in DOMAIN data : i \in data[k]}) % 2 = 1}

ChecksumHolds(data) == Xor(data) = 0 .. 7

WithCommandChecksum(data) ==
    [data EXCEPT ![8] = (0 .. 7) \ Xor([data EXCEPT ![8] = {}])]

\* data[7] ^= 0x01
Damaged(data) == [data EXCEPT ![8] = IF 0 \in @ THEN @ \ {0} ELSE @ \cup {0}]
=============================================================================
