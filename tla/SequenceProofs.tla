--------------------------- MODULE SequenceProofs ---------------------------
(***************************************************************************)
(* Proofs about packet numbering, for packet ids and generations of every  *)
(* width: Advance walks through all positions of a stream one by one, and  *)
(* ResolveGeneration inverts what the wire leaves out.                     *)
(***************************************************************************)
EXTENDS Sequence, TLAPS

(* SequenceKey (sequence.cpp) numbers the packets of a stream from 0. *)
LEMMA KeyOfSequence ==
  ASSUME NEW s \in PacketSequence
  PROVE  SequenceKey(s) \in Nat
BY SequenceAssumption DEF PacketSequence, PacketId, Generation, SequenceKey

(* Every position is the key of a sequence: SequenceKey of SequenceOf is the *)
(* identity, and the packet id fits its width.                              *)
LEMMA SequenceOfKey ==
  ASSUME NEW k \in Nat
  PROVE  /\ SequenceOf(k).packetId \in PacketId
         /\ SequenceOf(k).generationId \in Nat
         /\ SequenceKey(SequenceOf(k)) = k
BY SequenceAssumption DEF PacketId, SequenceKey, SequenceOf

(* Two sequences never share a SequenceKey: m_Queued can use it as its key. *)
LEMMA KeyIsInjective ==
  ASSUME NEW s \in PacketSequence, NEW t \in PacketSequence, SequenceKey(s) = SequenceKey(t)
  PROVE  s = t
BY SequenceAssumption DEF PacketSequence, PacketId, Generation, SequenceKey

(* PacketSequence::Advance (sequence.hpp) moves to the next position of the *)
(* stream, across the wrap of packet ids, unless it throws: so no packet id *)
(* and generation is used for two packets of a stream.                      *)
THEOREM AdvanceIsSuccessor ==
  ASSUME NEW s \in PacketSequence, ~AdvanceThrows(s)
  PROVE  Advance(s) \in PacketSequence /\ SequenceKey(Advance(s)) = SequenceKey(s) + 1
BY SequenceAssumption DEF PacketSequence, PacketId, Generation, SequenceKey, Advance, AdvanceThrows

(***************************************************************************)
(* ResolveGeneration (sequence.cpp) recovers the generation of every packet *)
(* less than half a cycle away from the expected one, in either direction:  *)
(* it neither throws nor picks a neighbouring generation, whatever the      *)
(* width of packet ids.                                                     *)
(***************************************************************************)
THEOREM ResolveGenerationCorrect ==
  ASSUME NEW e \in PacketSequence, NEW s \in PacketSequence,
         SequenceKey(s) - SequenceKey(e) < HalfSequenceSize,
         SequenceKey(e) - SequenceKey(s) < HalfSequenceSize
  PROVE  ResolveGeneration(e, s.packetId) = s.generationId
<1> DEFINE M == SequenceSize
           f == ForwardDistance(e.packetId, s.packetId)
<1>1. /\ M \in Nat /\ M >= 4 /\ MaxGeneration \in Nat
      /\ e.packetId \in 0 .. M - 1 /\ s.packetId \in 0 .. M - 1
      /\ e.generationId \in 0 .. MaxGeneration /\ s.generationId \in 0 .. MaxGeneration
      /\ HalfSequenceSize \in Nat /\ 2 * HalfSequenceSize = M
  BY SequenceAssumption DEF PacketSequence, PacketId, Generation, HalfSequenceSize
<1>2. /\ s.packetId >= e.packetId => f = s.packetId - e.packetId
      /\ s.packetId < e.packetId => f = s.packetId + M - e.packetId
  BY <1>1 DEF ForwardDistance
<1>3. CASE s.generationId = e.generationId
  <2>1. s.packetId - e.packetId < HalfSequenceSize /\ e.packetId - s.packetId < HalfSequenceSize
    BY <1>1, <1>3 DEF SequenceKey
  <2> QED BY <1>1, <1>2, <1>3, <2>1 DEF ResolveGeneration
<1>4. CASE s.generationId > e.generationId
  <2>1. (s.generationId - e.generationId) * M + s.packetId - e.packetId < HalfSequenceSize
    BY <1>1 DEF SequenceKey
  <2>2. (s.generationId - e.generationId - 1) * M >= 0
    BY <1>1, <1>4
  <2>3. s.packetId + M - e.packetId < HalfSequenceSize
    BY <1>1, <2>1, <2>2
  <2>4. s.generationId = e.generationId + 1
    <3>1. SUFFICES ASSUME s.generationId - e.generationId - 2 >= 0 PROVE FALSE
      BY <1>1, <1>4
    <3>2. (s.generationId - e.generationId - 2) * M >= 0
      BY <1>1, <3>1
    <3> QED BY <1>1, <2>1, <3>2
  <2> QED BY <1>1, <1>2, <2>3, <2>4 DEF ResolveGeneration
<1>5. CASE s.generationId < e.generationId
  <2>1. (e.generationId - s.generationId) * M + e.packetId - s.packetId < HalfSequenceSize
    BY <1>1 DEF SequenceKey
  <2>2. (e.generationId - s.generationId - 1) * M >= 0
    BY <1>1, <1>5
  <2>3. e.packetId + M - s.packetId < HalfSequenceSize
    BY <1>1, <2>1, <2>2
  <2>4. s.generationId = e.generationId - 1
    <3>1. SUFFICES ASSUME e.generationId - s.generationId - 2 >= 0 PROVE FALSE
      BY <1>1, <1>5
    <3>2. (e.generationId - s.generationId - 2) * M >= 0
      BY <1>1, <3>1
    <3> QED BY <1>1, <2>1, <3>2
  <2> QED BY <1>1, <1>2, <2>3, <2>4 DEF ResolveGeneration
<1> QED BY <1>1, <1>3, <1>4, <1>5
=============================================================================
