------------------------------ MODULE Sequence ------------------------------
(***************************************************************************)
(* Packet numbering of a TeamSpeak stream (protocol/packet/sequence.hpp).  *)
(* A stream numbers its packets with a packetId of 16 bits on the wire and  *)
(* a generation of 32 bits that both ends keep to themselves: it is part of *)
(* the key a packet is encrypted with and is never sent.  A receiver must   *)
(* therefore guess the generation of every packet from the one it expects.  *)
(*                                                                         *)
(* SequenceSize stands for 2^16 and MaxGeneration for 2^32 - 1, so that TLC *)
(* reaches the wrap around of both.                                         *)
(***************************************************************************)
EXTENDS Integers

CONSTANTS SequenceSize,   (* number of packet ids: 65536 in the code          *)
          MaxGeneration   (* last generation: numeric_limits<uint32_t>::max() *)

ASSUME SequenceAssumption ==
  /\ SequenceSize \in Nat
  /\ SequenceSize % 2 = 0
  /\ SequenceSize >= 4
  /\ MaxGeneration \in Nat

HalfSequenceSize == SequenceSize \div 2

PacketId == 0 .. SequenceSize - 1

Generation == 0 .. MaxGeneration

PacketSequence == [packetId : PacketId, generationId : Generation]

(* What a function of the code that throws is modelled to return. *)
NoGeneration == -1

-----------------------------------------------------------------------------
(* Numeric position of a packet in its stream: gen << 16 | id. *)
SequenceKey(s) == s.generationId * SequenceSize + s.packetId

(* The sequence with a given key: where Advance, applied key times to the   *)
(* zero sequence, arrives (theorem AdvanceIsSuccessor).                     *)
SequenceOf(key) == [packetId |-> key % SequenceSize, generationId |-> key \div SequenceSize]

(* Advance() throws on the very last packet of the last generation. *)
AdvanceThrows(s) == s.packetId = SequenceSize - 1 /\ s.generationId = MaxGeneration

Advance(s) ==
  IF s.packetId = SequenceSize - 1
  THEN [packetId |-> 0, generationId |-> s.generationId + 1]
  ELSE [s EXCEPT !.packetId = @ + 1]

(* Packets between the expected id and the received one, going forward and  *)
(* around the end.                                                          *)
ForwardDistance(expectedId, packetId) ==
  (packetId + SequenceSize - expectedId) % SequenceSize

(* Mutant: every packet belongs to the generation of the expected one. *)
MutantSameGeneration(expected, packetId) == expected.generationId

(* The generation the receiver takes a packet id to belong to, given the    *)
(* sequence it expects next: NoGeneration where the code throws.            *)
ResolveGeneration(expected, packetId) ==
  LET forward == ForwardDistance(expected.packetId, packetId)
      ahead   == forward < HalfSequenceSize
      gen     == expected.generationId
  IN  IF forward = HalfSequenceSize THEN NoGeneration
      ELSE IF ahead /\ packetId < expected.packetId
           THEN IF gen = MaxGeneration THEN NoGeneration ELSE gen + 1
      ELSE IF ~ahead /\ packetId > expected.packetId
           THEN IF gen = 0 THEN NoGeneration ELSE gen - 1
      ELSE gen
=============================================================================
