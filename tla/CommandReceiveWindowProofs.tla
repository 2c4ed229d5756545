--------------------- MODULE CommandReceiveWindowProofs ---------------------
(***************************************************************************)
(* Proofs about the receive window, for every width of packet ids, every   *)
(* window and every stream length.                                         *)
(***************************************************************************)
EXTENDS CommandReceiveWindow, SequenceProofs, FiniteSetTheorems, SequenceTheorems,
        WellFoundedInduction

(* The inductive invariant: the four safety properties need each other.    *)
(* AckedIsHeld keeps the server's window at most ServerWindow ahead of the *)
(* expected packet, so NoWindowFailure follows from the correctness of     *)
(* ResolveGeneration; QueueInWindow gives the drain loop its end; both make*)
(* InOrderExactlyOnce inductive.                                           *)
WindowInv ==
  /\ WindowTypeOK
  /\ Len(sent) <= MaxPackets
  /\ ExpectedKey >= 1
  /\ QueueInWindow
  /\ InOrderExactlyOnce
  /\ AckedIsHeld
  /\ NoWindowFailure

(* What the assumptions on the constants say, in the form the provers need:  *)
(* the window and the age of a packet are shorter than half a cycle of ids.  *)
LEMMA ConstantFacts ==
  /\ SequenceSize \in Nat /\ SequenceSize >= 4
  /\ HalfSequenceSize \in Nat /\ 2 * HalfSequenceSize = SequenceSize
  /\ MaxGeneration \in Nat
  /\ LastKey \in Nat
  /\ MaxQueuedPackets \in Nat /\ MaxQueuedPackets >= 1 /\ MaxQueuedPackets < HalfSequenceSize
  /\ ServerWindow \in Nat /\ ServerWindow >= 1 /\ ServerWindow <= MaxQueuedPackets + 1
  /\ MaxPacketAge \in Nat /\ MaxPacketAge < HalfSequenceSize
  /\ MaxPackets \in Nat /\ MaxPackets < LastKey
<1>1. SequenceSize \in Nat /\ SequenceSize >= 4 /\ MaxGeneration \in Nat
  BY SequenceAssumption
<1>2. HalfSequenceSize \in Nat /\ 2 * HalfSequenceSize = SequenceSize
  BY SequenceAssumption DEF HalfSequenceSize
<1>3. SequenceSize * (MaxGeneration + 1) \in Nat /\ SequenceSize * (MaxGeneration + 1) >= 4
  BY <1>1
<1>4. LastKey \in Nat
  BY <1>3 DEF LastKey
<1> QED BY <1>1, <1>2, <1>4, WindowAssumption

(* Keys up to LastKey are keys of packet sequences. *)
LEMMA SequenceOfType ==
  ASSUME NEW k \in 0 .. LastKey
  PROVE  SequenceOf(k) \in PacketSequence /\ SequenceKey(SequenceOf(k)) = k
<1>1. k \in Nat /\ k < SequenceSize * (MaxGeneration + 1)
  BY SequenceAssumption, ConstantFacts DEF LastKey
<1>2. SequenceKey(SequenceOf(k)) = k /\ SequenceOf(k).packetId \in PacketId
      /\ SequenceOf(k).generationId \in Nat
  BY <1>1, SequenceOfKey
<1>3. k \div SequenceSize <= MaxGeneration
  BY <1>1, SequenceAssumption
<1>4. SequenceOf(k).generationId \in Generation
  BY <1>2, <1>3, SequenceAssumption DEF SequenceOf, Generation
<1> QED BY <1>2, <1>4 DEF SequenceOf, PacketSequence

(* The drain loop of Feed ends: there is a first key without a packet, at   *)
(* most MaxQueuedPackets + 1 after the expected one.                        *)
LEMMA FirstGapExists ==
  ASSUME ExpectedKey \in Nat, QueueInWindow
  PROVE  /\ FirstGap \in ExpectedKey + 1 .. ExpectedKey + MaxQueuedPackets + 1
         /\ FirstGap \notin DOMAIN queued
         /\ \A m \in ExpectedKey + 1 .. FirstGap - 1 : m \in DOMAIN queued
<1> DEFINE E == ExpectedKey
           T == {n \in E + 1 .. E + MaxQueuedPackets + 1 : n \notin DOMAIN queued}
<1>1. E + MaxQueuedPackets + 1 \in T
  BY ConstantFacts DEF QueueInWindow
<1>2. T \subseteq Nat /\ T # {}
  BY <1>1, ConstantFacts
<1>3. PICK x \in T : \A y \in T : ~(<<y, x>> \in OpToRel(<, Nat))
  BY <1>2, NatLessThanWellFounded, WFMin
<1>4. \A y \in T : ~(y < x)
  BY <1>2, <1>3 DEF OpToRel
<1>5. \A m \in E + 1 .. x - 1 : m \in DOMAIN queued
  BY <1>4, ConstantFacts
<1> QED BY <1>3, <1>5 DEF FirstGap

(* A window that has room for a key has room in its queue. *)
LEMMA QueueHasRoom ==
  ASSUME ExpectedKey \in Nat, QueueInWindow,
         NEW key \in ExpectedKey + 1 .. ExpectedKey + MaxQueuedPackets, key \notin DOMAIN queued
  PROVE  Cardinality(DOMAIN queued) < MaxQueuedPackets
<1> DEFINE I == ExpectedKey + 1 .. ExpectedKey + MaxQueuedPackets
<1>1. IsFiniteSet(I) /\ Cardinality(I) = MaxQueuedPackets
  BY FS_Interval, ConstantFacts
<1>2. IsFiniteSet(DOMAIN queued) /\ Cardinality(DOMAIN queued) \in Nat
  BY <1>1, FS_Subset, FS_CardinalityType DEF QueueInWindow
<1>3. Cardinality(DOMAIN queued \union {key}) = Cardinality(DOMAIN queued) + 1
  BY <1>2, FS_AddElement
<1>4. Cardinality(DOMAIN queued \union {key}) <= Cardinality(I)
  <2>1. DOMAIN queued \union {key} \in SUBSET I
    BY DEF QueueInWindow
  <2> QED BY <1>1, <2>1, FS_Subset
<1> QED BY <1>1, <1>2, <1>3, <1>4, ConstantFacts
-----------------------------------------------------------------------------
(* What the invariant says of the packet that arrives: its generation is    *)
(* resolved right and it is within the window.                              *)
LEMMA ArrivingPacket ==
  ASSUME WindowInv, status = "running", NEW k \in Keys, Deliverable(k)
  PROVE  /\ ExpectedKey \in Nat /\ ExpectedKey <= MaxPackets + 1
         /\ k \in 1 .. MaxPackets
         /\ SequenceOf(k) \in PacketSequence
         /\ SequenceKey(SequenceOf(k)) = k
         /\ k <= ExpectedKey + MaxQueuedPackets
         /\ ResolveGeneration(expected, SequenceOf(k).packetId) = SequenceOf(k).generationId
<1> DEFINE E == ExpectedKey
<1>1. E \in Nat /\ E >= 1 /\ Len(sent) \in Nat /\ Len(sent) <= MaxPackets
  BY KeyOfSequence DEF WindowInv, WindowTypeOK, ExpectedKey
<1>2. E - 1 <= Len(sent)
  <2>1. CASE E = 1
    BY <1>1, <2>1
  <2>2. CASE E > 1
    <3>1. E - 1 \in 1 .. E - 1
      BY <1>1, <2>2
    <3>2. E - 1 \in Keys
      BY <3>1 DEF WindowInv, InOrderExactlyOnce
    <3> QED BY <1>1, <3>2 DEF Keys
  <2> QED BY <1>1, <2>1, <2>2
<1>3. k \in 1 .. MaxPackets /\ k <= Len(sent)
  BY <1>1, ConstantFacts DEF Keys
<1>4. SequenceOf(k) \in PacketSequence /\ SequenceKey(SequenceOf(k)) = k
  BY <1>3, ConstantFacts, SequenceOfType
<1>5. E \notin acked
  <2>1. E \notin DOMAIN queued
    BY <1>1, ConstantFacts DEF WindowInv, QueueInWindow
  <2> QED BY <1>1, <2>1 DEF WindowInv, AckedIsHeld
<1>6. k <= E + MaxQueuedPackets
  <2>1. CASE E <= Len(sent)
    <3>1. E \in Keys \ acked
      BY <1>1, <1>5, <2>1 DEF Keys
    <3>2. k < E + ServerWindow
      BY <3>1 DEF Deliverable
    <3> QED BY <1>1, <1>3, <3>2, ConstantFacts
  <2>2. CASE E > Len(sent)
    BY <1>1, <1>3, <2>2, ConstantFacts
  <2> QED BY <1>1, <2>1, <2>2
<1>7. E - k < HalfSequenceSize /\ k - E < HalfSequenceSize
  BY <1>1, <1>3, <1>6, ConstantFacts DEF Deliverable
<1>8. expected \in PacketSequence
  BY DEF WindowInv, WindowTypeOK
<1>9. ResolveGeneration(expected, SequenceOf(k).packetId) = SequenceOf(k).generationId
  BY <1>4, <1>7, <1>8, ResolveGenerationCorrect DEF ExpectedKey
<1> QED BY <1>1, <1>2, <1>3, <1>4, <1>6, <1>9, ConstantFacts

(* A packet in its turn, with the run queued behind it. *)
LEMMA FeedExpectedInv ==
  ASSUME WindowInv, status = "running", NEW k \in Keys, Deliverable(k),
         k = ExpectedKey, FeedExpected(sent[k]), SendAck(k), UNCHANGED serverVars
  PROVE  WindowInv'
<1> DEFINE E == ExpectedKey
           gap == FirstGap
           run == [i \in 1 .. gap - E |-> IF i = 1 THEN sent[k] ELSE queued[E + i - 1]]
<1>1. /\ E \in Nat /\ E >= 1 /\ E <= MaxPackets + 1 /\ k \in 1 .. MaxPackets
      /\ Len(sent) \in Nat /\ Len(sent) <= MaxPackets
      /\ Keys' = Keys /\ sent' = sent /\ sent \in Seq(Packet)
  BY ArrivingPacket DEF WindowInv, WindowTypeOK, serverVars, Keys
<1>2. /\ gap \in E + 1 .. E + MaxQueuedPackets + 1
      /\ gap \notin DOMAIN queued
      /\ \A m \in E + 1 .. gap - 1 : m \in DOMAIN queued
  BY <1>1, FirstGapExists DEF WindowInv
<1>3. gap - 1 \in Keys
  <2>1. CASE gap = E + 1
    BY <1>1, <2>1
  <2>2. CASE gap > E + 1
    <3>1. gap - 1 \in DOMAIN queued
      BY <1>1, <1>2, <2>2, ConstantFacts
    <3> QED BY <3>1 DEF WindowInv, InOrderExactlyOnce
  <2> QED BY <1>1, <1>2, <2>1, <2>2, ConstantFacts
<1>4. gap \in 0 .. LastKey /\ gap <= MaxPackets + 1
  BY <1>1, <1>2, <1>3, ConstantFacts DEF Keys
<1>5. CASE UNCHANGED <<expected, queued, assembly, ready, processed>> /\ status' = "too large"
  BY <1>1, <1>5 DEF WindowInv, WindowTypeOK, SendAck, serverVars, Keys, Status, QueueInWindow,
     InOrderExactlyOnce, AckedIsHeld, NoWindowFailure, ExpectedKey
<1>6. CASE /\ expected' = SequenceOf(gap)
           /\ queued' = [j \in {i \in DOMAIN queued : i >= gap} |-> queued[j]]
           /\ processed' = [j \in 1 .. gap - 1 |->
                              IF j < E THEN processed[j] ELSE run[j - E + 1]]
           /\ status' = status
  <2>1. expected' \in PacketSequence /\ ExpectedKey' = gap
    BY <1>4, <1>6, SequenceOfType DEF ExpectedKey
  <2>2. DOMAIN queued' = {i \in DOMAIN queued : i >= gap}
    BY <1>6
  <2>3. QueueInWindow'
    <3>1. ASSUME NEW i \in DOMAIN queued, i >= gap
          PROVE  i \in gap + 1 .. gap + MaxQueuedPackets
      BY <1>1, <1>2, <3>1, ConstantFacts DEF WindowInv, QueueInWindow
    <3> QED BY <2>1, <2>2, <3>1 DEF QueueInWindow
  <2>4. ASSUME NEW j \in 1 .. gap - 1
        PROVE  j \in Keys /\ processed'[j] = sent[j]
    <3>1. processed'[j] = IF j < E THEN processed[j] ELSE run[j - E + 1]
      BY <1>6
    <3>2. CASE j < E
      <4>1. j \in 1 .. E - 1
        BY <1>1, <1>2, <3>2, ConstantFacts
      <4>2. processed'[j] = processed[j]
        BY <3>1, <3>2
      <4>3. j \in Keys /\ processed[j] = sent[j]
        BY <4>1 DEF WindowInv, InOrderExactlyOnce
      <4> QED BY <4>2, <4>3
    <3>3. CASE j = E
      BY <1>1, <1>2, <3>1, <3>3, ConstantFacts
    <3>4. CASE j > E
      <4>1. j \in E + 1 .. gap - 1
        BY <1>1, <1>2, <3>4, ConstantFacts
      <4>2. j \in DOMAIN queued /\ queued[j] = sent[j] /\ j \in Keys
        BY <1>2, <4>1 DEF WindowInv, InOrderExactlyOnce
      <4>3. j - E + 1 \in 1 .. gap - E /\ j - E + 1 # 1 /\ E + (j - E + 1) - 1 = j
        <5>1. E \in Int /\ gap \in Int /\ j \in Int /\ j >= E + 1 /\ j <= gap - 1
          BY <1>1, <1>2, <4>1, ConstantFacts
        <5> HIDE DEF E, gap
        <5> QED BY <5>1
      <4>4. run[j - E + 1] = queued[j]
        BY <4>3
      <4> QED BY <3>1, <3>4, <4>2, <4>4, <1>1, <1>2, ConstantFacts
    <3> QED BY <1>1, <1>2, <3>2, <3>3, <3>4, ConstantFacts
  <2>5. InOrderExactlyOnce'
    <3>1. \A j \in DOMAIN queued' : j \in Keys' /\ queued'[j] = sent'[j]
      BY <1>1, <1>6, <2>2 DEF WindowInv, InOrderExactlyOnce
    <3> QED BY <1>1, <2>1, <2>4, <3>1 DEF InOrderExactlyOnce
  <2>6. AckedIsHeld'
    <3>1. \A j \in acked \union acks \union {k} : j < gap \/ j \in DOMAIN queued'
      <4> SUFFICES ASSUME NEW j \in acked \union acks \union {k}, ~(j < gap)
                   PROVE  j \in DOMAIN queued'
        OBVIOUS
      <4>1. j \in (1 .. E - 1) \union DOMAIN queued \union {E}
        BY DEF WindowInv, AckedIsHeld
      <4> QED BY <1>1, <1>2, <2>2, <4>1, ConstantFacts DEF WindowInv, QueueInWindow
    <3>2. acked \union acks \union {k} \subseteq Keys
      BY DEF WindowInv, WindowTypeOK
    <3>3. \A j \in acked \union acks \union {k} : j \in (1 .. gap - 1) \union DOMAIN queued'
      BY <1>1, <1>2, <3>1, <3>2, ConstantFacts DEF Keys
    <3> QED BY <2>1, <3>3 DEF AckedIsHeld, SendAck, serverVars
  <2>7. WindowTypeOK'
    <3>1. queued' \in [DOMAIN queued' -> Packet]
      BY <1>6, <2>2 DEF WindowInv, WindowTypeOK
    <3>2. \A j \in 1 .. gap - 1 : sent[j] \in Packet
      BY <1>1, <2>4 DEF Keys
    <3>3. processed' \in [1 .. ExpectedKey' - 1 -> Packet]
      BY <1>6, <2>1, <2>4, <3>2
    <3>4. (acked \subseteq Keys /\ acks \subseteq Keys)'
      BY <1>1 DEF WindowInv, WindowTypeOK, SendAck, serverVars
    <3> QED BY <1>1, <1>6, <2>1, <3>1, <3>3, <3>4 DEF WindowInv, WindowTypeOK, serverVars
  <2> QED BY <1>1, <1>2, <1>6, <2>1, <2>3, <2>5, <2>6, <2>7, ConstantFacts
      DEF WindowInv, NoWindowFailure
<1>7. ~(gap > LastKey)
  BY <1>4, ConstantFacts
<1>8. CASE Assembled(run).tooLarge
  <2>1. UNCHANGED <<expected, queued, assembly, ready, processed>> /\ status' = "too large"
    BY <1>8, Zenon DEF FeedExpected
  <2> QED BY <1>5, <2>1
<1>9. CASE ~Assembled(run).tooLarge
  <2>1. /\ expected' = SequenceOf(gap)
        /\ queued' = [j \in {i \in DOMAIN queued : i >= gap} |-> queued[j]]
        /\ processed' = [j \in 1 .. gap - 1 |->
                           IF j < E THEN processed[j] ELSE run[j - E + 1]]
        /\ status' = status
    BY <1>7, <1>9, Zenon DEF FeedExpected
  <2> QED BY <1>6, <2>1
<1> QED BY <1>8, <1>9

(* A packet ahead of its turn. *)
LEMMA FeedAheadInv ==
  ASSUME WindowInv, status = "running", NEW k \in Keys, Deliverable(k),
         k > ExpectedKey, FeedAhead(k, sent[k]), SendAck(k), UNCHANGED serverVars
  PROVE  WindowInv'
<1> DEFINE E == ExpectedKey
<1>1. /\ E \in Nat /\ E >= 1 /\ k \in Nat /\ k \in E + 1 .. E + MaxQueuedPackets
      /\ Len(sent) \in Nat /\ Len(sent) <= MaxPackets /\ sent \in Seq(Packet)
      /\ Keys' = Keys /\ sent' = sent /\ acked' = acked
  <2>1. E \in Nat /\ k \in 1 .. MaxPackets /\ k <= E + MaxQueuedPackets
    BY ArrivingPacket
  <2>2. sent \in Seq(Packet) /\ sent' = sent /\ acked' = acked /\ Len(sent) <= MaxPackets /\ E >= 1
    BY DEF WindowInv, WindowTypeOK, serverVars
  <2>3. Len(sent) \in Nat /\ Keys' = Keys
    BY <2>2 DEF Keys
  <2>4. k \in Nat /\ k \in E + 1 .. E + MaxQueuedPackets
    BY <2>1, ConstantFacts
  <2> QED BY <2>1, <2>2, <2>3, <2>4
<1>2. status' = "running"
  <2>1. ~(k - ExpectedKey > MaxQueuedPackets)
    BY <1>1, ConstantFacts
  <2>2. k \notin DOMAIN queued => ~(Cardinality(DOMAIN queued) >= MaxQueuedPackets)
    <3> SUFFICES ASSUME k \notin DOMAIN queued PROVE ~(Cardinality(DOMAIN queued) >= MaxQueuedPackets)
      OBVIOUS
    <3>1. IsFiniteSet(DOMAIN queued)
      <4>1. IsFiniteSet(E + 1 .. E + MaxQueuedPackets)
        BY <1>1, FS_Interval, ConstantFacts
      <4>2. DOMAIN queued \in SUBSET (E + 1 .. E + MaxQueuedPackets)
        BY DEF WindowInv, QueueInWindow
      <4> QED BY <4>1, <4>2, FS_Subset
    <3>2. Cardinality(DOMAIN queued) \in Nat
      BY <3>1, FS_CardinalityType
    <3>3. Cardinality(DOMAIN queued) < MaxQueuedPackets
      BY <1>1, QueueHasRoom DEF WindowInv
    <3> QED BY <3>2, <3>3, ConstantFacts
  <2> QED BY <2>1, <2>2, Zenon DEF FeedAhead
<1>3. UNCHANGED <<expected, processed>> /\ ExpectedKey' = E
  <2>1. expected' = expected /\ processed' = processed
    BY Zenon DEF FeedAhead
  <2> QED BY <2>1 DEF ExpectedKey
<1>4. /\ DOMAIN queued' = DOMAIN queued \union {k}
      /\ \A j \in DOMAIN queued : queued'[j] = queued[j]
      /\ queued'[k] = sent[k]
      /\ queued' \in [DOMAIN queued' -> Packet]
  <2>1. queued \in [DOMAIN queued -> Packet] /\ sent[k] \in Packet
    BY <1>1 DEF WindowInv, WindowTypeOK, Keys
  <2>2. CASE k \in DOMAIN queued
    BY <1>2, <2>1, <2>2 DEF FeedAhead, WindowInv, InOrderExactlyOnce
  <2>3. CASE k \notin DOMAIN queued
    BY <1>2, <2>1, <2>3 DEF FeedAhead
  <2> QED BY <2>2, <2>3
<1>5. QueueInWindow'
  BY <1>1, <1>3, <1>4 DEF WindowInv, QueueInWindow
<1>6. InOrderExactlyOnce'
  BY <1>1, <1>3, <1>4 DEF WindowInv, InOrderExactlyOnce
<1>7. AckedIsHeld'
  BY <1>1, <1>3, <1>4 DEF WindowInv, AckedIsHeld, SendAck
<1>8. WindowTypeOK'
  BY <1>1, <1>2, <1>3, <1>4 DEF WindowInv, WindowTypeOK, SendAck, Status, serverVars
<1> QED BY <1>1, <1>2, <1>3, <1>5, <1>6, <1>7, <1>8 DEF WindowInv, NoWindowFailure

(* A duplicate is only acknowledged again. *)
LEMMA FeedDuplicateInv ==
  ASSUME WindowInv, NEW k \in Keys, k < ExpectedKey, ExpectedKey \in Nat,
         UNCHANGED clientVars, SendAck(k), UNCHANGED serverVars
  PROVE  WindowInv'
<1>1. k \in 1 .. ExpectedKey - 1
  BY DEF WindowInv, WindowTypeOK, Keys
<1>2. AckedIsHeld'
  BY <1>1 DEF WindowInv, AckedIsHeld, SendAck, serverVars, clientVars, ExpectedKey
<1> QED BY <1>2 DEF WindowInv, WindowTypeOK, SendAck, serverVars, clientVars, ExpectedKey, Keys,
        QueueInWindow, InOrderExactlyOnce, NoWindowFailure

(* A new window, expecting packet 1 with nothing queued, satisfies WindowInv. *)
LEMMA WindowInvInit == Init => WindowInv
<1> SUFFICES ASSUME Init PROVE WindowInv
  OBVIOUS
<1>1. expected \in PacketSequence /\ ExpectedKey = 1
  BY SequenceOfType, ConstantFacts DEF Init, ExpectedKey
<1>2. DOMAIN queued = {} /\ DOMAIN processed = {} /\ 1 .. ExpectedKey - 1 = {}
  BY <1>1 DEF Init
<1>3. /\ sent = <<>> /\ sent \in Seq(Packet) /\ Len(sent) = 0 /\ commands \in Seq(Command)
      /\ acked = {} /\ acks = {}
  BY DEF Init
<1>4. processed \in [{} -> Packet] /\ queued \in [{} -> Packet]
  BY <1>2 DEF Init
<1> QED BY <1>1, <1>2, <1>3, <1>4, ConstantFacts DEF Init, WindowInv, WindowTypeOK, Status,
        QueueInWindow, InOrderExactlyOnce, AckedIsHeld, NoWindowFailure

(* Every step of server, network and ProcessIncomingCommand preserves it.    *)
LEMMA WindowInvNext == WindowInv /\ [Next]_vars => WindowInv'
<1> SUFFICES ASSUME WindowInv, [Next]_vars PROVE WindowInv'
  OBVIOUS
<1>1. ASSUME NEW n \in Nat \ {0}, NEW compressed \in BOOLEAN,
             ServerSendCommand(n, compressed)
      PROVE  WindowInv'
  <2> DEFINE f == Fragments(Len(commands) + 1, n, compressed)
  <2>1. n \in Nat /\ n >= 1 /\ compressed \in BOOLEAN
    OBVIOUS
  <2>2. f \in Seq(Packet) /\ Len(f) = n
    <3>1. Len(commands) + 1 \in Nat
      BY DEF WindowInv, WindowTypeOK
    <3>2. \A j \in 1 .. n : f[j] \in Packet
      BY <2>1, <3>1 DEF Fragments, Packet
    <3>3. f = [j \in 1 .. n |-> f[j]]
      BY DEF Fragments
    <3> QED BY <2>1, <3>2, <3>3
  <2>3. sent \in Seq(Packet) /\ sent' = sent \o f
    BY <1>1 DEF ServerSendCommand, WindowInv, WindowTypeOK
  <2>4. /\ sent' \in Seq(Packet) /\ Len(sent') = Len(sent) + n
        /\ \A j \in Keys : j \in Keys' /\ sent'[j] = sent[j]
    <3> HIDE DEF f
    <3>1. /\ Len(sent) \in Nat /\ sent' \in Seq(Packet) /\ Len(sent') = Len(sent) + n
          /\ \A j \in 1 .. Len(sent) : sent'[j] = sent[j]
      <4>1. Len(sent) \in Nat /\ Len(f) = n /\ n \in Nat
        BY <2>1, <2>2, <2>3
      <4>2. /\ sent' \in Seq(Packet) /\ Len(sent') = Len(sent) + Len(f)
            /\ \A j \in 1 .. Len(sent) + Len(f) :
                 sent'[j] = IF j <= Len(sent) THEN sent[j] ELSE f[j - Len(sent)]
        BY <2>2, <2>3, ConcatProperties, Zenon
      <4>3. \A j \in 1 .. Len(sent) : j \in 1 .. Len(sent) + Len(f) /\ j <= Len(sent)
        BY <4>1
      <4> QED BY <4>1, <4>2, <4>3
    <3>2. \A j \in 1 .. Len(sent) : j \in 1 .. Len(sent')
      BY <2>1, <3>1
    <3> QED BY <3>1, <3>2 DEF Keys
  <2>5. Len(sent') <= MaxPackets /\ UNCHANGED <<acked, acks, clientVars>>
    BY <1>1, <2>4 DEF ServerSendCommand
  <2>6. commands' \in Seq(Command)
    <3>1. Len(commands) + 1 \in Nat /\ commands \in Seq(Command)
      BY DEF WindowInv, WindowTypeOK
    <3>2. [j \in 1 .. n |-> <<Len(commands) + 1, j>>] \in Seq(Nat \X Nat)
      BY <2>1, <3>1
    <3> QED BY <1>1, <2>1, <3>1, <3>2 DEF ServerSendCommand, Command
  <2> QED BY <2>4, <2>5, <2>6 DEF WindowInv, WindowTypeOK, clientVars, ExpectedKey,
          QueueInWindow, InOrderExactlyOnce, AckedIsHeld, NoWindowFailure
<1>2. ASSUME NEW k \in Keys, ServerReceiveAck(k)
      PROVE  WindowInv'
  BY <1>2 DEF WindowInv, WindowTypeOK, ServerReceiveAck, clientVars, ExpectedKey, Keys,
     QueueInWindow, InOrderExactlyOnce, AckedIsHeld, NoWindowFailure
<1>3. ASSUME NEW k \in Keys, NetworkLosesAck(k)
      PROVE  WindowInv'
  BY <1>3 DEF WindowInv, WindowTypeOK, NetworkLosesAck, clientVars, serverVars, ExpectedKey, Keys,
     QueueInWindow, InOrderExactlyOnce, AckedIsHeld, NoWindowFailure
<1>4. ASSUME NEW k \in Keys, ProcessIncomingCommand(k)
      PROVE  WindowInv'
  <2>1. status = "running" /\ Deliverable(k) /\ UNCHANGED serverVars
    BY <1>4 DEF ProcessIncomingCommand
  <2>2. /\ ExpectedKey \in Nat /\ k \in Nat
        /\ SequenceOf(k) \in PacketSequence
        /\ SequenceKey(SequenceOf(k)) = k
        /\ ResolveGeneration(expected, SequenceOf(k).packetId) = SequenceOf(k).generationId
    BY <2>1, ArrivingPacket, ConstantFacts
  <2>3. SequenceKey([packetId |-> SequenceOf(k).packetId,
                     generationId |-> SequenceOf(k).generationId]) = k
    BY <2>2 DEF SequenceKey
  <2>4. SendAck(k) /\ Feed(k, sent[k])
    BY <1>4, <2>2, <2>3 DEF ProcessIncomingCommand
  <2> QED BY <2>1, <2>2, <2>4, FeedExpectedInv, FeedAheadInv, FeedDuplicateInv DEF Feed
<1>5. CASE UNCHANGED vars
  BY <1>5 DEF vars, clientVars, serverVars, WindowInv, WindowTypeOK, ExpectedKey, Keys,
     QueueInWindow, InOrderExactlyOnce, AckedIsHeld, NoWindowFailure
<1> QED BY <1>1, <1>2, <1>3, <1>4, <1>5, WindowAssumption DEF Next

(***************************************************************************)
(* In every behaviour the receive window is type correct, holds queued      *)
(* packets inside the window only, processes every packet of the server     *)
(* exactly once and in order, acknowledges nothing it does not hold, and    *)
(* never ends a session because of reordering, duplication or wrap around.  *)
(***************************************************************************)
THEOREM WindowSafety == Spec => []WindowInv
  BY WindowInvInit, WindowInvNext, PTL DEF Spec

(* Feed never finds its queue full, and never leaves a packet queued behind *)
(* the expected one.                                                        *)
THEOREM WindowQueueBounded == Spec => []QueueInWindow
<1>1. WindowInv => QueueInWindow
  BY DEF WindowInv
<1> QED BY <1>1, WindowSafety, PTL

(* ProcessOrdered sees the server's packets in order, each exactly once.    *)
THEOREM WindowInOrder == Spec => []InOrderExactlyOnce
<1>1. WindowInv => InOrderExactlyOnce
  BY DEF WindowInv
<1> QED BY <1>1, WindowSafety, PTL

(* The acknowledgement sent before Feed is one for a packet the client has. *)
THEOREM WindowAckedHeld == Spec => []AckedIsHeld
<1>1. WindowInv => AckedIsHeld
  BY DEF WindowInv
<1> QED BY <1>1, WindowSafety, PTL

(* Reordering, duplication and wrap around never make the window throw.     *)
THEOREM WindowNeverFails == Spec => []NoWindowFailure
<1>1. WindowInv => NoWindowFailure
  BY DEF WindowInv
<1> QED BY <1>1, WindowSafety, PTL
=============================================================================
