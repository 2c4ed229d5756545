------------------------- MODULE ReliableSendProofs -------------------------
(***************************************************************************)
(* Proofs about the sending half of the Command stream, for every width of *)
(* packet ids, every queue length, every timing and every session length.  *)
(***************************************************************************)
EXTENDS ReliableSend, SequenceProofs, FiniteSetTheorems, WellFoundedInduction

(* What an Ack may match: packets are queued under keys the session has     *)
(* numbered, or is about to, no two of them share a packet id, and Acks are *)
(* counted without leaving the range of generations.                        *)
MatchInv ==
  /\ outgoing \in PacketSequence
  /\ attempts \in 0 .. MaxPackets
  /\ OutgoingKey \in FirstKey .. FirstKey + attempts
  /\ DOMAIN pending \subseteq FirstKey .. OutgoingKey
  /\ expectedAck \in PacketSequence
  /\ now \in Nat
  /\ \A packet \in network : packet.key \in Nat /\ packet.sentAt \in Nat
  /\ acks \in Seq([key : Nat, sentAt : Nat])
  /\ Len(acks) <= MaxAcks
  /\ PendingIdsDistinct
  /\ AckGenerationsResolve

(* What SendAssumption and SequenceAssumption say, in the form the provers  *)
(* need.                                                                    *)
LEMMA SendFacts ==
  /\ SequenceSize \in Nat /\ SequenceSize >= 4
  /\ MaxPendingCommands \in Nat /\ MaxPendingCommands < SequenceSize
  /\ MaxPackets \in Nat /\ MaxAcks \in Nat /\ MaxInitFragments \in Nat /\ MaxInitFragments >= 1
  /\ FirstKey = 2 /\ FirstAck = 1
  /\ FirstKey + MaxPackets < SequenceSize * (MaxGeneration + 1)
  /\ FirstAck + MaxAcks < SequenceSize * (MaxGeneration + 1)
BY SequenceAssumption, SendAssumption DEF FirstKey, FirstAck

(* A position below the last generation's end is one Advance reaches. *)
LEMMA SequenceInRange ==
  ASSUME NEW k \in Nat, k < SequenceSize * (MaxGeneration + 1)
  PROVE  SequenceOf(k) \in PacketSequence /\ SequenceKey(SequenceOf(k)) = k
<1>1. SequenceKey(SequenceOf(k)) = k /\ SequenceOf(k).packetId \in PacketId
      /\ SequenceOf(k).generationId \in Nat
  BY SequenceOfKey
<1>2. k \div SequenceSize <= MaxGeneration
  BY SequenceAssumption
<1>3. SequenceOf(k).generationId \in Generation
  BY <1>1, <1>2, SequenceAssumption DEF SequenceOf, Generation
<1> QED BY <1>1, <1>3 DEF SequenceOf, PacketSequence

(* A multiple of a positive number that is smaller than it in absolute value *)
(* is zero; of two different ones, the larger is a whole step ahead.         *)
LEMMA MultiplesApart ==
  ASSUME NEW m \in Nat, m >= 1, NEW a \in Int, NEW b \in Int, m * a < m * b
  PROVE  m * a + m <= m * b
<1>1. a + 1 <= b
  <2>1. SUFFICES ASSUME b <= a PROVE FALSE
    OBVIOUS
  <2>2. m * (a - b) >= 0
    BY <2>1
  <2> QED BY <2>2
<1>2. m * (b - a - 1) >= 0
  BY <1>1
<1> QED BY <1>2

(* Packet ids repeat after a whole cycle, and not before. *)
LEMMA IdsRepeat ==
  ASSUME NEW j \in Nat, NEW k \in Nat
  PROVE  /\ Id(j) \in PacketId
         /\ Id(j) = Id(k) /\ j < k => j + SequenceSize <= k
         /\ k = j + SequenceSize => Id(j) = Id(k)
<1> DEFINE S == SequenceSize
           a == j \div S
           b == k \div S
<1>1. S \in Nat /\ S >= 4
  BY SendFacts
<1>2. Id(j) = j % S /\ Id(k) = k % S
  BY DEF Id, SequenceOf
<1>3. /\ j = S * a + Id(j) /\ k = S * b + Id(k)
      /\ a \in Int /\ b \in Int
      /\ Id(j) \in 0 .. S - 1 /\ Id(k) \in 0 .. S - 1
  BY <1>1, <1>2
<1> HIDE DEF S, a, b
<1>4. ASSUME Id(j) = Id(k), j < k
      PROVE  j + S <= k
  <2>1. S * a < S * b
    BY <1>1, <1>3, <1>4
  <2> QED BY <1>1, <1>3, <1>4, <2>1, MultiplesApart
<1>5. ASSUME k = j + S
      PROVE  Id(j) = Id(k)
  <2>1. S * (a + 1) = S * a + S
    BY <1>1, <1>3
  <2>2. S * b + Id(k) = S * (a + 1) + Id(j)
    BY <1>1, <1>3, <1>5, <2>1
  <2>3. ~(S * b < S * (a + 1))
    <3>1. S * b < S * (a + 1) => S * b + S <= S * (a + 1)
      BY <1>1, <1>3, MultiplesApart
    <3> QED BY <1>1, <1>3, <2>1, <2>2, <3>1
  <2>4. ~(S * (a + 1) < S * b)
    <3>1. S * (a + 1) < S * b => S * (a + 1) + S <= S * b
      BY <1>1, <1>3, MultiplesApart
    <3> QED BY <1>1, <1>3, <2>1, <2>2, <3>1
  <2> QED BY <1>1, <1>3, <2>2, <2>3, <2>4
<1> QED BY <1>3, <1>4, <1>5 DEF PacketId, S

(***************************************************************************)
(* ReliableCommandQueue::Add lets in only packets whose ids differ from     *)
(* those of the pending ones, and a command has fewer packets than there    *)
(* are ids: so they differ from each other too.                             *)
(***************************************************************************)
LEMMA AddKeepsIdsDistinct ==
  ASSUME MatchInv, NEW n \in Nat, n >= 1,
         ~AddThrows(NextKeys(n)), Add(n)
  PROVE  /\ DOMAIN pending' = DOMAIN pending \union NextKeys(n)
         /\ OutgoingKey \notin DOMAIN pending
         /\ \A j, k \in DOMAIN pending' : Id(j) = Id(k) => j = k
<1> DEFINE O == OutgoingKey
           new == NextKeys(n)
<1>0. new = O .. O + n - 1
  BY DEF NextKeys
<1>1. O \in Nat /\ O >= FirstKey /\ DOMAIN pending \subseteq FirstKey .. O
  BY SendFacts DEF MatchInv
<1>2. DOMAIN pending' = DOMAIN pending \union new
  BY DEF Add
<1>3. n <= MaxPendingCommands
  <2>1. IsFiniteSet(FirstKey .. O) /\ IsFiniteSet(DOMAIN pending) /\ Cardinality(DOMAIN pending) \in Nat
    <3>1. IsFiniteSet(FirstKey .. O)
      BY <1>1, SendFacts, FS_Interval
    <3>2. IsFiniteSet(DOMAIN pending)
      BY <1>1, <3>1, FS_Subset, Zenon
    <3> QED BY <3>1, <3>2, FS_CardinalityType, Zenon
  <2>2. Cardinality(new) = n
    BY <1>0, <1>1, FS_Interval
  <2>3. Cardinality(DOMAIN pending) + Cardinality(new) <= MaxPendingCommands
    BY <2>1, <2>2, SendFacts DEF AddThrows
  <2> QED BY <2>1, <2>2, <2>3, SendFacts
<1>4. \A k \in new, p \in DOMAIN pending : Id(k) # Id(p)
  BY DEF AddThrows
<1>5. \A j, k \in new : Id(j) = Id(k) => j = k
  <2> SUFFICES ASSUME NEW j \in new, NEW k \in new, Id(j) = Id(k), j < k
               PROVE  FALSE
    BY <1>0, <1>1
  <2>1. j \in Nat /\ k \in Nat /\ k < j + n
    BY <1>0, <1>1
  <2>2. j + SequenceSize <= k
    BY <2>1, IdsRepeat
  <2> QED BY <1>3, <2>1, <2>2, SendFacts
<1>6. \A j, k \in DOMAIN pending : Id(j) = Id(k) => j = k
  BY DEF MatchInv, PendingIdsDistinct
<1>7. O \in new
  BY <1>0, <1>1
<1> HIDE DEF new
<1>8. O \notin DOMAIN pending
  BY <1>4, <1>7
<1>9. \A j, k \in DOMAIN pending' : Id(j) = Id(k) => j = k
  BY <1>2, <1>4, <1>5, <1>6, Zenon
<1> QED BY <1>2, <1>8, <1>9 DEF new, O

(* SendCommand, whole or with a Send that throws, keeps MatchInv. *)
LEMMA SendCommandMatch ==
  ASSUME MatchInv, NEW n \in Nat, n >= 1, SendCommand(n)
  PROVE  MatchInv'
<1> USE DEF MatchInv
<1>1. UNCHANGED <<expectedAck, acks, now>>
  BY DEF SendCommand, serverVars, loopVars
<1>2. CASE AddThrows(NextKeys(n))
  BY <1>1, <1>2 DEF SendCommand, queueVars, OutgoingKey, PendingIdsDistinct, AckGenerationsResolve
<1>3. CASE ~AddThrows(NextKeys(n))
  <2>1. /\ Add(n) /\ outgoing' = SequenceOf(OutgoingKey + n)
        /\ attempts' = attempts + n /\ attempts + n <= MaxPackets /\ status' = status
    BY <1>3 DEF SendCommand
  <2>2. /\ OutgoingKey + n \in Nat /\ OutgoingKey + n < SequenceSize * (MaxGeneration + 1)
    BY <2>1, SendFacts, SequenceAssumption
  <2>3. outgoing' \in PacketSequence /\ OutgoingKey' = OutgoingKey + n
    BY <2>1, <2>2, SequenceInRange DEF OutgoingKey
  <2>4. /\ DOMAIN pending' = DOMAIN pending \union NextKeys(n)
        /\ \A j, k \in DOMAIN pending' : Id(j) = Id(k) => j = k
    BY <1>3, <2>1, AddKeepsIdsDistinct
  <2>5. DOMAIN pending' \subseteq FirstKey .. OutgoingKey'
    BY <2>3, <2>4, SendFacts DEF NextKeys
  <2>6. attempts' \in 0 .. MaxPackets /\ OutgoingKey' \in FirstKey .. FirstKey + attempts'
    BY <2>1, <2>3, SendFacts
  <2>7. \A packet \in network' : packet.key \in Nat /\ packet.sentAt \in Nat
    <3>1. network' = network \union
            {[key |-> k, payload |-> NextPayload(k), sentAt |-> now] : k \in NextKeys(n)}
      BY <1>3 DEF SendCommand
    <3>2. \A k \in NextKeys(n) : k \in Nat
      BY SendFacts DEF NextKeys
    <3>3. \A packet \in network : packet.key \in Nat /\ packet.sentAt \in Nat
      OBVIOUS
    <3>4. now \in Nat
      OBVIOUS
    <3> QED BY <3>1, <3>2, <3>3, <3>4
  <2> QED BY <1>1, <2>1, <2>3, <2>4, <2>5, <2>6, <2>7 DEF PendingIdsDistinct, AckGenerationsResolve
<1> QED BY <1>2, <1>3

(* ResolveGeneration finds the generation of an Ack, and Acknowledge matches  *)
(* one pending packet at most.                                               *)
LEMMA HandleAckResolves ==
  ASSUME MatchInv, NEW i \in 1 .. Len(acks), HandleAck(i)
  PROVE  /\ i \in Nat
         /\ SequenceKey(SequenceOf(i)) = i
         /\ SequenceOf(i + 1) \in PacketSequence
         /\ ResolveGeneration(expectedAck, SequenceOf(i).packetId) = SequenceOf(i).generationId
         /\ \A p : ~(Cardinality(Matches(p)) > 1)
<1> USE DEF MatchInv
<1> DEFINE header == SequenceOf(i)
           e == SequenceKey(expectedAck)
<1>1. /\ i \in Nat /\ i + 1 < SequenceSize * (MaxGeneration + 1)
      /\ header \in PacketSequence /\ SequenceKey(header) = i
      /\ SequenceOf(i + 1) \in PacketSequence
  <2>1. i \in Nat /\ i + 1 \in Nat /\ i < i + 1 /\ i + 1 < SequenceSize * (MaxGeneration + 1)
    BY SendFacts, SequenceAssumption
  <2>2. i < SequenceSize * (MaxGeneration + 1)
    BY <2>1, SequenceAssumption
  <2> QED BY <2>1, <2>2, SequenceInRange
<1>2. ResolveGeneration(expectedAck, header.packetId) = header.generationId
  <2>1. e \in Nat /\ HalfSequenceSize \in Nat
    BY KeyOfSequence, SequenceAssumption DEF HalfSequenceSize
  <2>2. i < e + HalfSequenceSize /\ e < i + HalfSequenceSize
    BY DEF HandleAck
  <2>3. i - e < HalfSequenceSize /\ e - i < HalfSequenceSize
    <3>1. i \in Nat
      BY <1>1
    <3> HIDE DEF e
    <3> QED BY <2>1, <2>2, <3>1
  <2>4. SequenceKey(header) - e < HalfSequenceSize /\ e - SequenceKey(header) < HalfSequenceSize
    BY <1>1, <2>3
  <2> HIDE DEF header
  <2> QED BY <1>1, <2>4, ResolveGenerationCorrect
<1>3. \A p : ~(Cardinality(Matches(p)) > 1)
  <2> SUFFICES ASSUME NEW p PROVE ~(Cardinality(Matches(p)) > 1)
    OBVIOUS
  <2>1. Matches(p) = {} \/ \E k : Matches(p) = {k}
    BY DEF Matches, PendingIdsDistinct
  <2>2. Cardinality(Matches(p)) \in {0, 1}
    BY <2>1, FS_EmptySet, FS_Singleton, Zenon
  <2> QED BY <2>2
<1> QED BY <1>1, <1>2, <1>3

(* So HandleAck neither throws nor disturbs MatchInv. *)
LEMMA HandleAckMatch ==
  ASSUME MatchInv, NEW i \in 1 .. Len(acks), HandleAck(i)
  PROVE  MatchInv'
<1> USE DEF MatchInv
<1>1. /\ SequenceOf(i + 1) \in PacketSequence
      /\ ResolveGeneration(expectedAck, SequenceOf(i).packetId) = SequenceOf(i).generationId
      /\ \A p : ~(Cardinality(Matches(p)) > 1)
  BY HandleAckResolves
<1>2. /\ status' = "running" /\ UNCHANGED <<outgoing, attempts, acks, now, network>>
      /\ DOMAIN pending' \subseteq DOMAIN pending
      /\ expectedAck' \in {expectedAck, SequenceOf(i + 1)}
  BY <1>1 DEF HandleAck, Awake, Acknowledge, Restricted, serverVars
<1> QED BY <1>1, <1>2 DEF OutgoingKey, PendingIdsDistinct, AckGenerationsResolve

(* A session starts with nothing pending and no Ack. *)
LEMMA MatchInvInit == Init => MatchInv
<1> SUFFICES ASSUME Init PROVE MatchInv
  OBVIOUS
<1>1. /\ FirstKey \in Nat /\ FirstKey < SequenceSize * (MaxGeneration + 1)
      /\ FirstAck \in Nat /\ FirstAck < SequenceSize * (MaxGeneration + 1)
  BY SendFacts, SequenceAssumption
<1>2. outgoing \in PacketSequence /\ OutgoingKey = FirstKey /\ expectedAck \in PacketSequence
  BY <1>1, SequenceInRange DEF Init, OutgoingKey
<1>3. DOMAIN pending = {} /\ acks = <<>> /\ network = {} /\ now = 0 /\ attempts = 0 /\ status = "running"
  BY DEF Init, EmptyFunction
<1> QED BY <1>1, <1>2, <1>3, SendFacts DEF MatchInv, PendingIdsDistinct, AckGenerationsResolve

(* Every step of the client, the server and the clock preserves MatchInv. *)
LEMMA MatchInvNext == MatchInv /\ [Next]_vars => MatchInv'
<1> SUFFICES ASSUME MatchInv, [Next]_vars PROVE MatchInv'
  OBVIOUS
<1> USE DEF MatchInv
<1>1. ASSUME NEW n \in 1 .. MaxInitFragments, Login(n)
      PROVE  MatchInv'
  BY <1>1, SendCommandMatch, SendFacts DEF Login
<1>2. CASE Submit
  BY <1>2, SendCommandMatch DEF Submit
<1>3. CASE SendFails
  <2> DEFINE n == 1
  <2>1. /\ OutgoingKey \in Nat /\ NextKeys(n) = {OutgoingKey}
        /\ n \in Nat /\ n >= 1
    BY SendFacts DEF NextKeys
  <2>2. ~AddThrows(NextKeys(n)) /\ Add(n)
    BY <1>3, <2>1, Zenon DEF SendFails
  <2> HIDE DEF n
  <2>3. /\ DOMAIN pending' = DOMAIN pending \union NextKeys(n)
        /\ \A j, k \in DOMAIN pending' : Id(j) = Id(k) => j = k
    BY <2>1, <2>2, AddKeepsIdsDistinct
  <2>4. /\ UNCHANGED <<outgoing, expectedAck, acks, status, now, network>>
        /\ attempts' = attempts + 1 /\ attempts < MaxPackets
    BY <1>3 DEF SendFails, serverVars, loopVars
  <2>5. OutgoingKey' = OutgoingKey /\ DOMAIN pending' \subseteq FirstKey .. OutgoingKey
    BY <2>1, <2>3, <2>4, SendFacts DEF OutgoingKey
  <2>6. attempts' \in 0 .. MaxPackets /\ OutgoingKey' \in FirstKey .. FirstKey + attempts'
    BY <2>4, <2>5, SendFacts
  <2> QED BY <2>3, <2>4, <2>5, <2>6 DEF PendingIdsDistinct, AckGenerationsResolve
<1>4. ASSUME NEW packet \in network, ServerReceive(packet)
      PROVE  MatchInv'
  <2>1. /\ Len(acks) < MaxAcks /\ acks' = Append(acks, [key |-> packet.key, sentAt |-> packet.sentAt])
        /\ UNCHANGED <<outgoing, pending, attempts, expectedAck, status, now, network>>
    BY <1>4 DEF ServerReceive, queueVars, historyVars, loopVars
  <2>2. acks' \in Seq([key : Nat, sentAt : Nat]) /\ Len(acks') <= MaxAcks
    BY <2>1, SendFacts
  <2> QED BY <2>1, <2>2 DEF OutgoingKey, PendingIdsDistinct, AckGenerationsResolve
<1>5. ASSUME NEW i \in 1 .. Len(acks), HandleAck(i)
      PROVE  MatchInv'
  BY <1>5, HandleAckMatch
<1>6. CASE InitServer
  <2>1. /\ UNCHANGED <<outgoing, attempts, expectedAck, acks, status, now, network>>
        /\ DOMAIN pending' \subseteq DOMAIN pending
    BY <1>6 DEF InitServer, Acknowledge, Restricted, serverVars, historyVars, loopVars
  <2> QED BY <2>1 DEF OutgoingKey, PendingIdsDistinct, AckGenerationsResolve
<1>7. CASE Poll
  <2>1. /\ UNCHANGED <<outgoing, attempts, expectedAck, acks, now>>
        /\ status' \in {status, "not acknowledged"}
        /\ DOMAIN pending' = DOMAIN pending
    BY <1>7 DEF Poll, ProcessTimers, CollectDue, serverVars, loopVars
  <2>2. \A packet \in network' : packet.key \in Nat /\ packet.sentAt \in Nat
    <3>1. \/ network' = network
          \/ network' = network \union
               {[key |-> k, payload |-> pending[k].payload, sentAt |-> now] : k \in Due}
      BY <1>7 DEF Poll, ProcessTimers, CollectDue
    <3>2. \A k \in Due : k \in Nat
      BY SendFacts DEF Due
    <3> QED BY <3>1, <3>2
  <2> QED BY <2>1, <2>2 DEF OutgoingKey, PendingIdsDistinct, AckGenerationsResolve
<1>8. CASE \/ TransportError \/ SetConnected \/ ReceiveOther \/ SessionEnded \/ WaitEnds \/ Tick
           \/ (\E ping \in pings : HandlePong(ping))
  <2>1. /\ UNCHANGED <<outgoing, pending, attempts, expectedAck, acks, network>>
        /\ status' \in {status, "transport error", "timeout"}
        /\ now' \in {now, now + 1}
    BY <1>8 DEF TransportError, SetConnected, ReceiveOther, SessionEnded, WaitEnds, Tick, HandlePong,
       Awake, loopVars, queueVars, historyVars, serverVars
  <2>2. now' \in Nat
    <3>1. now \in Nat /\ (now' = now \/ now' = now + 1)
      BY <2>1
    <3> QED BY <3>1
  <2> QED BY <2>1, <2>2 DEF OutgoingKey, PendingIdsDistinct, AckGenerationsResolve
<1>9. CASE UNCHANGED vars
  BY <1>9 DEF vars, loopVars, queueVars, historyVars, serverVars, OutgoingKey, PendingIdsDistinct,
     AckGenerationsResolve
<1> QED BY <1>1, <1>2, <1>3, <1>4, <1>5, <1>6, <1>7, <1>8, <1>9 DEF Next

(* Whatever the numbers of ids, commands and Acks, sending never fails over  *)
(* numbering.                                                                *)
THEOREM MatchSafety == Spec => []MatchInv
  BY MatchInvInit, MatchInvNext, PTL DEF Spec

(* An Ack, which names a packet id without its generation, never matches two *)
(* pending packets, so Acknowledge never throws: even after a failed send    *)
(* has left a packet in the queue whose id is not used up.                   *)
THEOREM AckMatchesOnePacket == Spec => []PendingIdsDistinct
<1>1. MatchInv => PendingIdsDistinct
  BY DEF MatchInv
<1> QED BY <1>1, MatchSafety, PTL

(* The generation of every Ack less than half a cycle off is found. *)
THEOREM AckGenerationFound == Spec => []AckGenerationsResolve
<1>1. MatchInv => AckGenerationsResolve
  BY DEF MatchInv
<1> QED BY <1>1, MatchSafety, PTL

-----------------------------------------------------------------------------
(***************************************************************************)
(* Delivery.  A packet in flight, pending or at the server carries a        *)
(* payload that was given its key, by a SendCommand that returned or by one *)
(* whose Send threw.                                                        *)
(***************************************************************************)
PendingCommand == [payload : Nat, firstSent : Nat, nextRetry : Nat, retryDelay : Nat,
                   retransmitted : BOOLEAN]

Numbered == FirstKey .. OutgoingKey - 1

Given(commands, key, payload) == \E c \in commands : c.key = key /\ c.payload = payload

(* The queue: all that has been numbered and has not reached the server is   *)
(* pending, but for a first Ack that was mistaken, and nothing is pending    *)
(* for so long that its id is used again, be it by a packet whose Send       *)
(* throws and whose number is still the next one.                            *)
QueueInv ==
  /\ \A c \in submitted : c.key \in Numbered
  /\ \A c, d \in submitted : c.key = d.key => c.payload = d.payload
  /\ \A f \in failed : f.key \in FirstKey .. OutgoingKey
  /\ \A k \in DOMAIN pending :
       /\ pending[k] \in PendingCommand
       /\ OutgoingKey <= k + SequenceSize
       /\ (\E f \in failed : f.key = OutgoingKey) => OutgoingKey # k + SequenceSize
       /\ Given(submitted \union failed, k, pending[k].payload)
       /\ k \in Numbered => Given(submitted, k, pending[k].payload)
  /\ \A packet \in network : Given(submitted \union failed, packet.key, packet.payload)
  /\ \A k \in DOMAIN received : Given(submitted \union failed, k, received[k])
  /\ \A i \in 1 .. Len(acks) : acks[i].key \in DOMAIN received
  /\ \A c \in submitted : \/ c.key \in DOMAIN pending
                          \/ c.key \in DOMAIN received
                          \/ FirstAckMistaken(c)

(* The login: nothing but clientinit is sent until the server has answered   *)
(* it, so the first Ack, which is not read, does answer a packet of it.      *)
LoginInv ==
  /\ phase \in {"bootstrapped", "login", "synchronising", "connected"}
  /\ firstCommand \in {None, Id(FirstKey)}
  /\ firstCommand = None => OutgoingKey = FirstKey
  /\ Len(acks) > 0 => acks[1].key \in FirstKey .. FirstKey + MaxInitFragments - 1
  /\ DOMAIN received # {} => Len(acks) > 0
  /\ phase = "bootstrapped" => OutgoingKey = FirstKey
  /\ phase # "bootstrapped" /\ Running => OutgoingKey > FirstKey
  /\ phase \in {"bootstrapped", "login"} => /\ OutgoingKey <= FirstKey + MaxInitFragments
                                            /\ failed = {}
  /\ phase \in {"synchronising", "connected"} => Len(acks) > 0

DeliveryInv == MatchInv /\ QueueInv /\ LoginInv

(* CollectDue changes when a packet is sent again, never what it carries. *)
LEMMA RetriedKeepsPayload ==
  ASSUME NEW p \in PendingCommand, now \in Nat
  PROVE  Retried(p) \in PendingCommand /\ Retried(p).payload = p.payload
<1> DEFINE delay == Min({2 * p.retryDelay, MaxRetryDelay})
<1>1. p.retryDelay \in Nat /\ MaxRetryDelay \in Nat
  BY SendAssumption DEF PendingCommand
<1>2. delay \in Nat
  <2>1. CASE 2 * p.retryDelay <= MaxRetryDelay
    BY <1>1, <2>1 DEF Min
  <2>2. CASE 2 * p.retryDelay > MaxRetryDelay
    BY <1>1, <2>2 DEF Min
  <2> QED BY <1>1, <2>1, <2>2
<1>3. Retried(p) = [p EXCEPT !.retransmitted = TRUE, !.retryDelay = delay, !.nextRetry = now + delay]
  BY DEF Retried
<1>4. now + delay \in Nat
  BY <1>2
<1> HIDE DEF delay
<1>5. Retried(p) = [payload |-> p.payload, firstSent |-> p.firstSent, nextRetry |-> now + delay,
                    retryDelay |-> delay, retransmitted |-> TRUE]
  BY <1>3 DEF PendingCommand
<1> QED BY <1>2, <1>4, <1>5 DEF PendingCommand

(* The numbers DeliveryInv is about. *)
LEMMA DeliveryNumbers ==
  ASSUME DeliveryInv
  PROVE  /\ OutgoingKey \in Nat /\ OutgoingKey >= FirstKey /\ FirstKey = 2
         /\ attempts \in Nat /\ now \in Nat /\ SequenceSize \in Nat /\ SequenceSize >= 4
         /\ DOMAIN pending \subseteq FirstKey .. OutgoingKey
         /\ DOMAIN received \subseteq FirstKey .. OutgoingKey
<1>1. /\ OutgoingKey \in Nat /\ OutgoingKey >= FirstKey /\ FirstKey = 2
      /\ attempts \in Nat /\ now \in Nat /\ SequenceSize \in Nat /\ SequenceSize >= 4
      /\ DOMAIN pending \subseteq FirstKey .. OutgoingKey
  BY SendFacts DEF DeliveryInv, MatchInv
<1>2. ASSUME NEW k \in DOMAIN received PROVE k \in FirstKey .. OutgoingKey
  <2>1. PICK c \in submitted \union failed : c.key = k
    BY <1>2 DEF DeliveryInv, QueueInv, Given
  <2>2. c.key \in FirstKey .. OutgoingKey
    BY <1>1 DEF DeliveryInv, QueueInv, Numbered
  <2> QED BY <2>1, <2>2
<1> QED BY <1>1, <1>2

(* The only numbered packet an Ack can retire is the one it answers. *)
LEMMA AckRetiresItsPacket ==
  ASSUME DeliveryInv, NEW a \in DOMAIN received, OutgoingKey <= a + SequenceSize,
         NEW k \in DOMAIN pending, k \in Numbered, Id(k) = Id(a)
  PROVE  k = a
<1>1. /\ k \in Nat /\ a \in Nat /\ OutgoingKey \in Nat /\ SequenceSize \in Nat
      /\ k < OutgoingKey /\ a <= OutgoingKey
  BY DeliveryNumbers DEF Numbered
<1>2. OutgoingKey <= k + SequenceSize
  BY DEF DeliveryInv, QueueInv
<1>3. ~(a < k)
  BY <1>1, IdsRepeat
<1>4. ~(k < a)
  <2> SUFFICES ASSUME k < a PROVE FALSE
    OBVIOUS
  <2>1. k + SequenceSize <= a
    BY <1>1, IdsRepeat
  <2>2. a = OutgoingKey /\ OutgoingKey = k + SequenceSize
    BY <1>1, <1>2, <2>1
  <2>3. PICK c \in submitted \union failed : c.key = a
    BY DEF DeliveryInv, QueueInv, Given
  <2>4. c \notin submitted
    BY <1>1, <2>2, <2>3 DEF DeliveryInv, QueueInv, Numbered
  <2>5. OutgoingKey # k + SequenceSize
    BY <2>2, <2>3, <2>4 DEF DeliveryInv, QueueInv
  <2> QED BY <2>2, <2>5
<1> QED BY <1>1, <1>3, <1>4

(* SendCommand takes the next keys, or it throws and the session is over     *)
(* with nothing changed.                                                     *)
LEMMA SendKeepsQueue ==
  ASSUME DeliveryInv, NEW n \in Nat, n >= 1, SendCommand(n)
  PROVE  /\ QueueInv'
         /\ UNCHANGED <<received, acks, failed>>
         /\ \/ OutgoingKey' = OutgoingKey /\ firstCommand' = firstCommand /\ ~Running'
            \/ /\ OutgoingKey' = OutgoingKey + n
               /\ firstCommand' = IF firstCommand = None THEN outgoing.packetId ELSE firstCommand
<1> DEFINE O == OutgoingKey
           keys == NextKeys(n)
<1>1. /\ O \in Nat /\ O >= FirstKey /\ FirstKey = 2 /\ attempts \in Nat /\ now \in Nat
      /\ SequenceSize \in Nat /\ DOMAIN pending \subseteq FirstKey .. O
  BY DeliveryNumbers
<1>2. UNCHANGED <<now, received, acks, failed>>
  BY DEF SendCommand, serverVars, loopVars
<1>3. CASE AddThrows(keys)
  <2>1. UNCHANGED <<outgoing, pending, firstCommand, submitted, network>> /\ ~Running'
    BY <1>3 DEF SendCommand, queueVars, Running
  <2> QED BY <1>2, <2>1 DEF DeliveryInv, QueueInv, Numbered, OutgoingKey, FirstAckMistaken
<1>4. CASE ~AddThrows(keys)
  <2>1. /\ Add(n) /\ outgoing' = SequenceOf(O + n) /\ attempts + n <= MaxPackets
        /\ submitted' = submitted \union NextCommands(n)
        /\ firstCommand' = IF firstCommand = None THEN outgoing.packetId ELSE firstCommand
        /\ network' = network \union
             {[key |-> k, payload |-> NextPayload(k), sentAt |-> now] : k \in keys}
    BY <1>4, Zenon DEF SendCommand
  <2>2. /\ DOMAIN pending' = DOMAIN pending \union keys /\ O \notin DOMAIN pending
        /\ \A j, k \in DOMAIN pending' : Id(j) = Id(k) => j = k
    BY <1>4, <2>1, AddKeepsIdsDistinct DEF DeliveryInv
  <2>3. O' = O + n
    <3>1. O + n \in Nat /\ O + n < SequenceSize * (MaxGeneration + 1)
      BY <1>1, <2>1, SendFacts, SequenceAssumption DEF DeliveryInv, MatchInv
    <3> QED BY <2>1, <3>1, SequenceInRange DEF OutgoingKey
  <2>4. /\ keys = O .. O + n - 1 /\ O \in keys
        /\ Numbered' = Numbered \union keys /\ \A k \in Numbered : k \notin keys
    BY <1>1, <2>3 DEF NextKeys, Numbered
  <2>5. /\ \A k \in DOMAIN pending : pending'[k] = pending[k]
        /\ \A k \in keys \ DOMAIN pending : pending'[k] = NewPending(NextPayload(k))
    BY <2>1 DEF Add
  <2>6. \A k \in keys : NewPending(NextPayload(k)) \in PendingCommand
                        /\ NewPending(NextPayload(k)).payload = NextPayload(k)
    <3> SUFFICES ASSUME NEW k \in keys
                 PROVE  /\ NewPending(NextPayload(k)) \in PendingCommand
                        /\ NewPending(NextPayload(k)).payload = NextPayload(k)
      OBVIOUS
    <3>1. NextPayload(k) \in Nat /\ InitialRetryDelay \in Nat
      BY <1>1, <2>4, SendAssumption DEF NextPayload
    <3> QED BY <1>1, <3>1 DEF NewPending, PendingCommand
  <2>7. \A k \in DOMAIN pending : k \in Numbered
    BY <1>1, <2>2 DEF Numbered
  <2>8. \A k \in keys : \E c \in NextCommands(n) : c.key = k /\ c.payload = NextPayload(k)
    <3> SUFFICES ASSUME NEW k \in keys
                 PROVE  \E c \in NextCommands(n) : c.key = k /\ c.payload = NextPayload(k)
      OBVIOUS
    <3> DEFINE c == [key |-> k, payload |-> NextPayload(k)]
    <3>1. c \in NextCommands(n)
      BY Zenon DEF NextCommands
    <3> QED BY <3>1
  <2>9. \A c \in NextCommands(n) : c.key \in keys /\ c.payload = NextPayload(c.key)
    BY DEF NextCommands
  <2>10. \A k \in DOMAIN pending' : O + n <= k + SequenceSize
    <3>1. ASSUME NEW k \in DOMAIN pending PROVE O + n <= k + SequenceSize
      <4>1. k \in Nat /\ k < O /\ O <= k + SequenceSize
        BY <1>1, <2>7 DEF Numbered, DeliveryInv, QueueInv
      <4>2. k + SequenceSize \notin keys
        <5>1. SUFFICES ASSUME k + SequenceSize \in keys PROVE FALSE
          OBVIOUS
        <5>2. k + SequenceSize \in Nat /\ k # k + SequenceSize
          BY <1>1, <4>1, SendFacts
        <5>3. Id(k + SequenceSize) = Id(k)
          BY <4>1, <5>2, IdsRepeat
        <5> HIDE DEF keys
        <5> QED BY <2>2, <5>1, <5>2, <5>3
      <4> QED BY <1>1, <2>4, <4>1, <4>2
    <3>2. n <= SequenceSize
      <4>1. SUFFICES ASSUME n > SequenceSize PROVE FALSE
        BY <1>1
      <4>2. O + SequenceSize \in keys /\ O + SequenceSize \in Nat /\ O # O + SequenceSize
        BY <1>1, <2>4, <4>1, SendFacts
      <4>3. Id(O) = Id(O + SequenceSize)
        BY <1>1, <4>2, IdsRepeat
      <4> HIDE DEF keys, O
      <4> QED BY <2>2, <2>4, <4>2, <4>3
    <3>3. ASSUME NEW k \in keys PROVE O + n <= k + SequenceSize
      BY <1>1, <2>4, <3>2
    <3> QED BY <2>2, <3>1, <3>3
  <2> HIDE DEF keys
  <2>11. \A f \in failed' : f.key \in FirstKey .. O' /\ f.key # O'
    BY <1>1, <1>2, <2>3 DEF DeliveryInv, QueueInv
  <2>12. \A k, p : Given(submitted \union failed, k, p) => Given(submitted' \union failed', k, p)
    BY <1>2, <2>1 DEF Given
  <2>13. \A k \in keys : Given(submitted', k, NextPayload(k)) /\ Given(submitted' \union failed', k, NextPayload(k))
    BY <2>1, <2>8 DEF Given
  <2>14. \A c \in submitted' : c.key \in Numbered'
    BY <2>1, <2>4, <2>9 DEF DeliveryInv, QueueInv
  <2>15. \A c, d \in submitted' : c.key = d.key => c.payload = d.payload
    BY <2>1, <2>4, <2>9 DEF DeliveryInv, QueueInv
  <2>16. ASSUME NEW k \in DOMAIN pending'
         PROVE  /\ pending'[k] \in PendingCommand
                /\ Given(submitted' \union failed', k, pending'[k].payload)
                /\ k \in Numbered' => Given(submitted', k, pending'[k].payload)
    <3>1. CASE k \in DOMAIN pending
      <4>1. /\ pending'[k] \in PendingCommand /\ Given(submitted \union failed, k, pending'[k].payload)
            /\ Given(submitted, k, pending'[k].payload)
        BY <2>5, <2>7, <3>1 DEF DeliveryInv, QueueInv
      <4>2. Given(submitted', k, pending'[k].payload)
        BY <2>1, <4>1 DEF Given
      <4> QED BY <2>12, <4>1, <4>2
    <3>2. CASE k \in keys \ DOMAIN pending
      BY <2>5, <2>6, <2>13, <3>2
    <3> QED BY <2>2, <3>1, <3>2
  <2>17. \A packet \in network' : Given(submitted' \union failed', packet.key, packet.payload)
    <3> SUFFICES ASSUME NEW packet \in network'
                 PROVE  Given(submitted' \union failed', packet.key, packet.payload)
      OBVIOUS
    <3>1. CASE packet \in network
      BY <2>12, <3>1 DEF DeliveryInv, QueueInv
    <3>2. CASE packet \notin network
      <4>1. PICK k \in keys : packet = [key |-> k, payload |-> NextPayload(k), sentAt |-> now]
        BY <2>1, <3>2
      <4> QED BY <2>13, <4>1
    <3> QED BY <3>1, <3>2
  <2>18. \A c \in submitted' : \/ c.key \in DOMAIN pending' \/ c.key \in DOMAIN received'
                               \/ FirstAckMistaken(c)'
    BY <1>2, <2>1, <2>2, <2>9 DEF DeliveryInv, QueueInv, FirstAckMistaken
  <2>19. QueueInv'
    <3>1. \A k \in DOMAIN received' : Given(submitted' \union failed', k, received'[k])
      BY <1>2, <2>12 DEF DeliveryInv, QueueInv
    <3>2. \A i \in 1 .. Len(acks') : acks'[i].key \in DOMAIN received'
      BY <1>2 DEF DeliveryInv, QueueInv
    <3>3. ~(\E f \in failed' : f.key = O')
      BY <2>11
    <3>4. \A k \in DOMAIN pending' : O' <= k + SequenceSize
      BY <2>3, <2>10
    <3> QED BY <2>11, <2>14, <2>15, <2>16, <2>17, <2>18, <3>1, <3>2, <3>3, <3>4 DEF QueueInv
  <2> QED BY <1>2, <2>1, <2>3, <2>19
<1> QED BY <1>3, <1>4

(* clientinit is the first command. *)
LEMMA LoginDelivers ==
  ASSUME DeliveryInv, NEW n \in 1 .. MaxInitFragments, Login(n)
  PROVE  QueueInv' /\ LoginInv'
<1>1. /\ SendCommand(n) /\ phase = "bootstrapped" /\ phase' = "login" /\ n \in Nat /\ n >= 1
      /\ n <= MaxInitFragments
  BY SendFacts DEF Login
<1>2. OutgoingKey = FirstKey /\ FirstKey = 2
  BY <1>1, SendFacts DEF DeliveryInv, LoginInv
<1>3. outgoing.packetId = Id(FirstKey)
  <2>1. SequenceKey(outgoing) = SequenceKey(SequenceOf(FirstKey))
    BY <1>2, SequenceOfKey DEF OutgoingKey
  <2>2. outgoing = SequenceOf(FirstKey)
    <3>1. SequenceOf(FirstKey) \in PacketSequence
      BY <1>2, SendFacts, SequenceInRange, SequenceAssumption
    <3> QED BY <2>1, <3>1, KeyIsInjective DEF DeliveryInv, MatchInv
  <2> QED BY <2>2 DEF Id
<1>4. /\ QueueInv' /\ UNCHANGED <<received, acks, failed>>
      /\ \/ OutgoingKey' = OutgoingKey /\ firstCommand' = firstCommand /\ ~Running'
         \/ OutgoingKey' = OutgoingKey + n /\ firstCommand' = Id(FirstKey)
  BY <1>1, <1>3, SendKeepsQueue DEF DeliveryInv, LoginInv
<1>5. Id(FirstKey) # None
  BY <1>2, IdsRepeat, SendFacts DEF PacketId, None
<1>6. failed = {} /\ MaxInitFragments \in Nat
  BY <1>1, SendFacts DEF DeliveryInv, LoginInv
<1> QED BY <1>1, <1>2, <1>4, <1>5, <1>6 DEF DeliveryInv, LoginInv

(* Every later command is sent after the server has answered clientinit. *)
LEMMA SubmitDelivers ==
  ASSUME DeliveryInv, Submit
  PROVE  QueueInv' /\ LoginInv'
<1> DEFINE n == 1
<1>0. /\ SendCommand(n) /\ phase \in {"synchronising", "connected"} /\ phase' = phase
      /\ n \in Nat /\ n >= 1
  BY DEF Submit, loginVars
<1> HIDE DEF n
<1>1. /\ SendCommand(n) /\ phase \in {"synchronising", "connected"} /\ Running /\ n \in Nat /\ n >= 1
      /\ phase' = phase
  BY <1>0 DEF SendCommand, Working
<1>2. /\ QueueInv' /\ UNCHANGED <<received, acks, failed>>
      /\ \/ OutgoingKey' = OutgoingKey /\ firstCommand' = firstCommand /\ ~Running'
         \/ /\ OutgoingKey' = OutgoingKey + n
            /\ firstCommand' = IF firstCommand = None THEN outgoing.packetId ELSE firstCommand
  BY <1>1, SendKeepsQueue
<1>3. OutgoingKey \in Nat /\ FirstKey = 2 /\ OutgoingKey > FirstKey /\ firstCommand # None
  BY <1>1, DeliveryNumbers DEF DeliveryInv, LoginInv
<1> QED BY <1>1, <1>2, <1>3 DEF DeliveryInv, LoginInv

(* A Send that throws leaves its packet in the queue under the next number. *)
LEMMA SendFailsDelivers ==
  ASSUME DeliveryInv, SendFails
  PROVE  QueueInv' /\ LoginInv'
<1> DEFINE O == OutgoingKey
           n == 1
<1>1. /\ O \in Nat /\ O >= FirstKey /\ FirstKey = 2 /\ attempts \in Nat /\ now \in Nat
      /\ SequenceSize \in Nat /\ SequenceSize >= 4 /\ DOMAIN pending \subseteq FirstKey .. O
      /\ n \in Nat /\ n >= 1 /\ NextKeys(n) = {O} /\ NextPayload(O) = attempts + 1
  BY DeliveryNumbers DEF NextKeys, NextPayload
<1>2. /\ UNCHANGED <<outgoing, submitted, network, received, acks, firstCommand, phase, status>>
      /\ Connected /\ O' = O
  BY DEF SendFails, serverVars, loginVars, OutgoingKey
<1>3. ~AddThrows(NextKeys(n)) /\ Add(n) /\ failed' = failed \union NextCommands(n)
  BY Zenon DEF SendFails
<1> HIDE DEF n
<1>4. /\ DOMAIN pending' = DOMAIN pending \union {O} /\ O \notin DOMAIN pending
      /\ \A j, k \in DOMAIN pending' : Id(j) = Id(k) => j = k
  BY <1>1, <1>3, AddKeepsIdsDistinct DEF DeliveryInv
<1>5. /\ \A k \in DOMAIN pending : pending'[k] = pending[k]
      /\ pending'[O] = NewPending(NextPayload(O))
  BY <1>1, <1>3, <1>4 DEF Add
<1>6. /\ pending'[O] \in PendingCommand /\ pending'[O].payload = NextPayload(O)
  <2>1. NextPayload(O) \in Nat /\ InitialRetryDelay \in Nat
    BY <1>1, SendAssumption
  <2> QED BY <1>1, <1>5, <2>1 DEF NewPending, PendingCommand
<1>7. failed' = failed \union {[key |-> O, payload |-> NextPayload(O)]}
  BY <1>1, <1>3 DEF NextCommands
<1>8. Numbered' = Numbered /\ O \notin Numbered
  BY <1>1, <1>2 DEF Numbered
<1>9. \A k \in DOMAIN pending' : O <= k + SequenceSize /\ O # k + SequenceSize
  <2> SUFFICES ASSUME NEW k \in DOMAIN pending' PROVE O <= k + SequenceSize /\ O # k + SequenceSize
    OBVIOUS
  <2>1. CASE k = O
    BY <1>1, <2>1
  <2>2. CASE k \in DOMAIN pending
    <3>1. k \in Nat /\ O <= k + SequenceSize /\ k # O
      BY <1>1, <1>4, <2>2 DEF DeliveryInv, QueueInv
    <3>2. O \in DOMAIN pending'
      BY <1>4
    <3>3. Id(k) # Id(O)
      BY <1>4, <3>1, <3>2
    <3> QED BY <1>1, <3>1, <3>3, IdsRepeat
  <2> QED BY <1>4, <2>1, <2>2
<1>10. \A k, p : Given(submitted \union failed, k, p) => Given(submitted' \union failed', k, p)
  BY <1>2, <1>7 DEF Given
<1>11. Given(submitted' \union failed', O, NextPayload(O))
  <2> DEFINE f == [key |-> O, payload |-> NextPayload(O)]
  <2>1. f \in submitted' \union failed' /\ f.key = O /\ f.payload = NextPayload(O)
    BY <1>7
  <2> HIDE DEF f
  <2> QED BY <2>1 DEF Given
<1>12. ASSUME NEW k \in DOMAIN pending'
       PROVE  /\ pending'[k] \in PendingCommand
              /\ Given(submitted' \union failed', k, pending'[k].payload)
              /\ k \in Numbered' => Given(submitted', k, pending'[k].payload)
  <2>1. CASE k = O
    BY <1>6, <1>8, <1>11, <2>1
  <2>2. CASE k \in DOMAIN pending
    BY <1>2, <1>5, <1>8, <1>10, <2>2 DEF DeliveryInv, QueueInv
  <2> QED BY <1>4, <2>1, <2>2
<1>13. \A f \in failed' : f.key \in FirstKey .. O'
  BY <1>1, <1>2, <1>7 DEF DeliveryInv, QueueInv
<1>14. QueueInv'
  <2>1. \A c \in submitted' : c.key \in Numbered'
    BY <1>2, <1>8 DEF DeliveryInv, QueueInv
  <2>2. \A c, d \in submitted' : c.key = d.key => c.payload = d.payload
    BY <1>2 DEF DeliveryInv, QueueInv
  <2>3. \A packet \in network' : Given(submitted' \union failed', packet.key, packet.payload)
    BY <1>2, <1>10 DEF DeliveryInv, QueueInv
  <2>4. \A k \in DOMAIN received' : Given(submitted' \union failed', k, received'[k])
    BY <1>2, <1>10 DEF DeliveryInv, QueueInv
  <2>5. \A i \in 1 .. Len(acks') : acks'[i].key \in DOMAIN received'
    BY <1>2 DEF DeliveryInv, QueueInv
  <2>6. \A c \in submitted' : \/ c.key \in DOMAIN pending' \/ c.key \in DOMAIN received'
                              \/ FirstAckMistaken(c)'
    BY <1>2, <1>4 DEF DeliveryInv, QueueInv, FirstAckMistaken
  <2>7. \A k \in DOMAIN pending' : O' <= k + SequenceSize /\ O' # k + SequenceSize
    BY <1>2, <1>9
  <2> QED BY <1>12, <1>13, <2>1, <2>2, <2>3, <2>4, <2>5, <2>6, <2>7 DEF QueueInv
<1> QED BY <1>2, <1>14 DEF DeliveryInv, LoginInv, Connected, Running

(* The server gets a packet and answers it: the first is one of clientinit. *)
LEMMA ServerReceiveDelivers ==
  ASSUME DeliveryInv, NEW packet \in network, ServerReceive(packet)
  PROVE  QueueInv' /\ LoginInv'
<1> DEFINE ack == [key |-> packet.key, sentAt |-> packet.sentAt]
<1>1. /\ acks' = Append(acks, ack)
      /\ UNCHANGED <<status, phase, outgoing, pending, firstCommand, submitted, failed, network>>
      /\ OutgoingKey' = OutgoingKey /\ Numbered' = Numbered
  BY DEF ServerReceive, loginVars, queueVars, historyVars, OutgoingKey, Numbered
<1>2. Given(submitted \union failed, packet.key, packet.payload)
  BY DEF DeliveryInv, QueueInv
<1>3. /\ DOMAIN received' = DOMAIN received \union {packet.key}
      /\ \A k \in DOMAIN received' : Given(submitted \union failed, k, received'[k])
  BY <1>2 DEF ServerReceive, DeliveryInv, QueueInv
<1>4. acks \in Seq([key : Nat, sentAt : Nat]) /\ ack \in [key : Nat, sentAt : Nat]
  BY DEF DeliveryInv, MatchInv
<1>5. /\ Len(acks') = Len(acks) + 1 /\ Len(acks) \in Nat
      /\ \A i \in 1 .. Len(acks) : acks'[i] = acks[i]
      /\ acks'[Len(acks) + 1] = ack
  BY <1>1, <1>4
<1>6. \A i \in 1 .. Len(acks') : acks'[i].key \in DOMAIN received'
  <2> SUFFICES ASSUME NEW i \in 1 .. Len(acks') PROVE acks'[i].key \in DOMAIN received'
    OBVIOUS
  <2>1. CASE i \in 1 .. Len(acks)
    BY <1>3, <1>5, <2>1 DEF DeliveryInv, QueueInv
  <2>2. CASE i = Len(acks) + 1
    BY <1>3, <1>5, <2>2
  <2> QED BY <1>5, <2>1, <2>2
<1>7. \A c \in submitted : FirstAckMistaken(c) => FirstAckMistaken(c)'
  BY <1>5 DEF FirstAckMistaken
<1>8. QueueInv'
  BY <1>1, <1>3, <1>6, <1>7 DEF DeliveryInv, QueueInv
<1>9. acks'[1].key \in FirstKey .. FirstKey + MaxInitFragments - 1
  <2>1. CASE Len(acks) > 0
    BY <1>5, <2>1 DEF DeliveryInv, LoginInv
  <2>2. CASE Len(acks) = 0
    <3>1. OutgoingKey <= FirstKey + MaxInitFragments /\ failed = {}
      BY <2>2 DEF DeliveryInv, LoginInv
    <3>2. packet.key \in Numbered
      BY <1>2, <3>1 DEF Given, DeliveryInv, QueueInv
    <3>3. OutgoingKey \in Nat /\ FirstKey = 2 /\ MaxInitFragments \in Nat
      BY DeliveryNumbers, SendFacts
    <3> QED BY <1>5, <2>2, <3>1, <3>2, <3>3 DEF Numbered
  <2> QED BY <1>5, <2>1, <2>2
<1> QED BY <1>1, <1>5, <1>8, <1>9 DEF DeliveryInv, LoginInv, Running

(* Retiring a packet keeps QueueInv if the server has it, or if the first    *)
(* Ack was mistaken.                                                         *)
LEMMA RetireDelivers ==
  ASSUME DeliveryInv, NEW packetId, Acknowledge(packetId),
         \A k \in Matches(packetId) : k \in Numbered =>
           \/ k \in DOMAIN received
           \/ k = FirstKey /\ Len(acks) > 0 /\ acks[1].key # FirstKey,
         UNCHANGED <<submitted, failed, network, received, acks>>
  PROVE  QueueInv' /\ OutgoingKey' = OutgoingKey /\ firstCommand' = firstCommand
<1>1. /\ DOMAIN pending' = DOMAIN pending \ Matches(packetId)
      /\ \A k \in DOMAIN pending' : pending'[k] = pending[k]
      /\ UNCHANGED <<outgoing, firstCommand>>
  BY DEF Acknowledge, Restricted
<1>2. OutgoingKey' = OutgoingKey /\ Numbered' = Numbered
  BY <1>1 DEF OutgoingKey, Numbered
<1>3. \A c \in submitted' : \/ c.key \in DOMAIN pending' \/ c.key \in DOMAIN received'
                            \/ FirstAckMistaken(c)'
  BY <1>1 DEF DeliveryInv, QueueInv, FirstAckMistaken
<1>4. \A k \in DOMAIN pending' :
       /\ pending'[k] \in PendingCommand
       /\ OutgoingKey' <= k + SequenceSize
       /\ (\E f \in failed' : f.key = OutgoingKey') => OutgoingKey' # k + SequenceSize
       /\ Given(submitted' \union failed', k, pending'[k].payload)
       /\ k \in Numbered' => Given(submitted', k, pending'[k].payload)
  BY <1>1, <1>2 DEF DeliveryInv, QueueInv
<1> QED BY <1>1, <1>2, <1>3, <1>4 DEF DeliveryInv, QueueInv

(* HandleAck retires what the server has: an Ack that is read names it, and  *)
(* the first one answers clientinit, if not the packet that is retired.      *)
LEMMA HandleAckDelivers ==
  ASSUME DeliveryInv, NEW i \in 1 .. Len(acks), HandleAck(i)
  PROVE  QueueInv' /\ LoginInv'
<1> DEFINE header == SequenceOf(i)
           first == header.generationId = 0 /\ header.packetId = FirstAck
           packetId == IF first THEN firstCommand ELSE Id(acks[i].key)
           a == acks[i].key
<1>1. /\ i \in Nat /\ SequenceKey(header) = i
      /\ ResolveGeneration(expectedAck, header.packetId) = header.generationId
      /\ \A p : ~(Cardinality(Matches(p)) > 1)
  BY HandleAckResolves DEF DeliveryInv
<1>2. /\ Running /\ OutgoingKey + MaxInitFragments <= a + SequenceSize + 1 /\ status' = "running"
      /\ Acknowledge(packetId)
      /\ UNCHANGED <<phase, submitted, failed, network, received, acks>>
  BY <1>1 DEF HandleAck, Awake, loginVars, serverVars
<1>3. a \in DOMAIN received
  BY DEF DeliveryInv, QueueInv
<1>4. /\ OutgoingKey \in Nat /\ FirstKey = 2 /\ SequenceSize \in Nat /\ SequenceSize >= 4
      /\ a \in Nat /\ MaxInitFragments \in Nat /\ MaxInitFragments >= 1
      /\ DOMAIN pending \subseteq FirstKey .. OutgoingKey
  BY <1>3, DeliveryNumbers, SendFacts
<1>5. ASSUME NEW k \in Matches(packetId), k \in Numbered
      PROVE  \/ k \in DOMAIN received
             \/ k = FirstKey /\ Len(acks) > 0 /\ acks[1].key # FirstKey
  <2>1. k \in DOMAIN pending /\ Id(k) = packetId /\ k \in Nat /\ k >= FirstKey /\ k < OutgoingKey
    BY <1>4, <1>5 DEF Matches, Numbered
  <2>2. CASE first
    <3>1. i = 1
      BY <1>1, <2>2, SendFacts DEF SequenceKey
    <3>2. a \in FirstKey .. FirstKey + MaxInitFragments - 1 /\ Len(acks) > 0
      BY <3>1 DEF DeliveryInv, LoginInv
    <3>3. OutgoingKey <= FirstKey + SequenceSize
      BY <1>2, <1>4, <3>2
    <3>4. Id(k) = Id(FirstKey)
      <4>1. Id(k) \in Nat
        BY <2>1, IdsRepeat, SendFacts DEF PacketId
      <4> QED BY <2>1, <2>2, <4>1 DEF DeliveryInv, LoginInv, None
    <3>5. k = FirstKey
      <4>1. ~(FirstKey < k)
        BY <1>4, <2>1, <3>3, <3>4, IdsRepeat
      <4> QED BY <1>4, <2>1, <4>1
    <3> QED BY <1>3, <3>1, <3>2, <3>5
  <2>3. CASE ~first
    <3>1. OutgoingKey <= a + SequenceSize /\ Id(k) = Id(a)
      BY <1>2, <1>4, <2>1, <2>3
    <3>2. k = a
      BY <1>3, <1>5, <2>1, <3>1, AckRetiresItsPacket
    <3> QED BY <1>3, <3>2
  <2> QED BY <2>2, <2>3
<1> HIDE DEF packetId, a
<1>6. QueueInv' /\ OutgoingKey' = OutgoingKey /\ firstCommand' = firstCommand
  BY <1>2, <1>5, RetireDelivers
<1> QED BY <1>2, <1>6 DEF DeliveryInv, LoginInv, Running

(* initserver retires a packet of clientinit, all of which the server has. *)
LEMMA InitServerDelivers ==
  ASSUME DeliveryInv, InitServer
  PROVE  QueueInv' /\ LoginInv'
<1>1. /\ Running /\ phase = "login" /\ phase' = "synchronising" /\ Acknowledge(clientInit)
      /\ Numbered \subseteq DOMAIN received
      /\ UNCHANGED <<status, submitted, failed, network, received, acks>>
  BY DEF InitServer, Working, historyVars, serverVars, Numbered
<1>2. OutgoingKey > FirstKey /\ OutgoingKey \in Nat /\ FirstKey = 2
  BY <1>1, DeliveryNumbers DEF DeliveryInv, LoginInv
<1>3. QueueInv' /\ OutgoingKey' = OutgoingKey /\ firstCommand' = firstCommand
  BY <1>1, RetireDelivers
<1>4. Len(acks) > 0
  <2>1. FirstKey \in DOMAIN received
    BY <1>1, <1>2 DEF Numbered
  <2> QED BY <2>1 DEF DeliveryInv, LoginInv
<1> QED BY <1>1, <1>2, <1>3, <1>4 DEF DeliveryInv, LoginInv

(* A retransmission carries what the first transmission did. *)
LEMMA PollDelivers ==
  ASSUME DeliveryInv, Poll
  PROVE  QueueInv' /\ LoginInv'
<1>1. /\ UNCHANGED <<phase, outgoing, firstCommand, submitted, failed, received, acks>>
      /\ OutgoingKey' = OutgoingKey /\ Numbered' = Numbered
  BY DEF Poll, loginVars, serverVars, OutgoingKey, Numbered
<1>2. Running /\ (CollectDue \/ UNCHANGED <<pending, network>>)
  BY DEF Poll, Working, ProcessTimers
<1>3. CASE CollectDue
  <2>1. /\ DOMAIN pending' = DOMAIN pending
        /\ \A k \in DOMAIN pending :
             pending'[k] = IF k \in Due THEN Retried(pending[k]) ELSE pending[k]
        /\ network' = network \union
             {[key |-> k, payload |-> pending[k].payload, sentAt |-> now] : k \in Due}
    BY <1>3 DEF CollectDue
  <2>2. \A k \in DOMAIN pending : /\ pending'[k] \in PendingCommand
                                  /\ pending'[k].payload = pending[k].payload
    <3> SUFFICES ASSUME NEW k \in DOMAIN pending
                 PROVE  pending'[k] \in PendingCommand /\ pending'[k].payload = pending[k].payload
      OBVIOUS
    <3>1. pending[k] \in PendingCommand /\ now \in Nat
      BY DEF DeliveryInv, QueueInv, MatchInv
    <3>2. Retried(pending[k]) \in PendingCommand /\ Retried(pending[k]).payload = pending[k].payload
      BY <3>1, RetriedKeepsPayload
    <3> QED BY <2>1, <3>1, <3>2
  <2>3. \A packet \in network' : Given(submitted \union failed, packet.key, packet.payload)
    <3>1. \A k \in Due : Given(submitted \union failed, k, pending[k].payload)
      BY DEF Due, DeliveryInv, QueueInv
    <3>2. ASSUME NEW packet \in network', packet \notin network
          PROVE  Given(submitted \union failed, packet.key, packet.payload)
      <4>1. PICK k \in Due : packet.key = k /\ packet.payload = pending[k].payload
        BY <2>1, <3>2
      <4> QED BY <3>1, <4>1
    <3>3. \A packet \in network : Given(submitted \union failed, packet.key, packet.payload)
      BY DEF DeliveryInv, QueueInv
    <3> QED BY <3>2, <3>3
  <2>4. \A c \in submitted : FirstAckMistaken(c)' = FirstAckMistaken(c)
    BY <1>1 DEF FirstAckMistaken
  <2>5. QueueInv'
    BY <1>1, <2>1, <2>2, <2>3, <2>4 DEF DeliveryInv, QueueInv
  <2> QED BY <1>1, <1>2, <2>5 DEF DeliveryInv, LoginInv, Running
<1>4. CASE UNCHANGED <<pending, network>>
  BY <1>1, <1>2, <1>4 DEF DeliveryInv, QueueInv, LoginInv, FirstAckMistaken, Running
<1> QED BY <1>2, <1>3, <1>4

(* A session starts with nothing sent. *)
LEMMA DeliveryInvInit == Init => DeliveryInv
<1> SUFFICES ASSUME Init PROVE DeliveryInv
  OBVIOUS
<1>1. MatchInv
  BY MatchInvInit
<1>2. OutgoingKey = FirstKey /\ FirstKey = 2 /\ MaxInitFragments \in Nat
  BY SendFacts, SequenceOfKey DEF Init, OutgoingKey
<1>3. DOMAIN pending = {} /\ DOMAIN received = {} /\ acks = <<>> /\ Len(acks) = 0 /\ network = {}
      /\ submitted = {} /\ failed = {} /\ phase = "bootstrapped" /\ firstCommand = None
  BY DEF Init, EmptyFunction
<1> QED BY <1>1, <1>2, <1>3 DEF DeliveryInv, QueueInv, LoginInv

(* Every step preserves DeliveryInv. *)
LEMMA DeliveryInvNext == DeliveryInv /\ [Next]_vars => DeliveryInv'
<1> SUFFICES ASSUME DeliveryInv, [Next]_vars PROVE QueueInv' /\ LoginInv'
  BY MatchInvNext DEF DeliveryInv
<1>1. ASSUME NEW n \in 1 .. MaxInitFragments, Login(n)
      PROVE  QueueInv' /\ LoginInv'
  BY <1>1, LoginDelivers
<1>2. CASE Submit
  BY <1>2, SubmitDelivers
<1>3. CASE SendFails
  BY <1>3, SendFailsDelivers
<1>4. ASSUME NEW packet \in network, ServerReceive(packet)
      PROVE  QueueInv' /\ LoginInv'
  BY <1>4, ServerReceiveDelivers
<1>5. ASSUME NEW i \in 1 .. Len(acks), HandleAck(i)
      PROVE  QueueInv' /\ LoginInv'
  BY <1>5, HandleAckDelivers
<1>6. CASE InitServer
  BY <1>6, InitServerDelivers
<1>7. CASE Poll
  BY <1>7, PollDelivers
<1>8. CASE \/ TransportError \/ SetConnected \/ ReceiveOther \/ SessionEnded \/ WaitEnds \/ Tick
           \/ (\E ping \in pings : HandlePong(ping))
  <2>1. /\ UNCHANGED <<outgoing, pending, firstCommand, submitted, failed, network, received, acks>>
        /\ Running
        /\ phase' = phase \/ (phase = "synchronising" /\ phase' = "connected")
    BY <1>8 DEF TransportError, SetConnected, ReceiveOther, SessionEnded, WaitEnds, Tick, HandlePong,
       Working, Awake, loginVars, queueVars, historyVars, serverVars
  <2>2. OutgoingKey' = OutgoingKey /\ Numbered' = Numbered
    BY <2>1 DEF OutgoingKey, Numbered
  <2>3. \A c \in submitted : FirstAckMistaken(c)' = FirstAckMistaken(c)
    BY <2>1 DEF FirstAckMistaken
  <2> QED BY <2>1, <2>2, <2>3 DEF DeliveryInv, QueueInv, LoginInv
<1>9. CASE UNCHANGED vars
  BY <1>9 DEF vars, loginVars, queueVars, historyVars, serverVars, DeliveryInv, QueueInv, LoginInv,
     OutgoingKey, Numbered, FirstAckMistaken, Running
<1> QED BY <1>1, <1>2, <1>3, <1>4, <1>5, <1>6, <1>7, <1>8, <1>9 DEF Next

(***************************************************************************)
(* A command whose SendCommand returned is at the server or will be sent    *)
(* again, whatever the network does to packets and Acks, however often ids  *)
(* wrap, however many packets clientinit takes and whichever sends fail:    *)
(* but for a number that a failed send had taken to the server already, and *)
(* a first packet of clientinit that the Ack of another one retired.        *)
(***************************************************************************)
THEOREM NothingSubmittedIsLost == Spec => []RetiredIsReceived
<1>1. DeliveryInv => RetiredIsReceived
  <2> SUFFICES ASSUME DeliveryInv, NEW c \in submitted
               PROVE  Kept(c) \/ NumberTaken(c) \/ FirstAckMistaken(c)
    BY DEF RetiredIsReceived
  <2>1. CASE c.key \in DOMAIN pending
    <3>1. c.key \in Numbered
      BY DEF DeliveryInv, QueueInv
    <3>2. Given(submitted, c.key, pending[c.key].payload)
      BY <2>1, <3>1 DEF DeliveryInv, QueueInv
    <3>3. PICK d \in submitted : d.key = c.key /\ d.payload = pending[c.key].payload
      BY <3>2 DEF Given
    <3>4. c.payload = d.payload
      BY <3>3 DEF DeliveryInv, QueueInv
    <3> QED BY <2>1, <3>3, <3>4 DEF Kept
  <2>2. CASE c.key \in DOMAIN received
    <3>1. PICK d \in submitted \union failed : d.key = c.key /\ d.payload = received[c.key]
      BY <2>2 DEF DeliveryInv, QueueInv, Given
    <3>2. CASE d \in submitted
      <4>1. c.payload = d.payload
        BY <3>1, <3>2 DEF DeliveryInv, QueueInv
      <4> QED BY <2>2, <3>1, <4>1 DEF Kept
    <3>3. CASE d \in failed
      BY <2>2, <3>1, <3>3 DEF NumberTaken
    <3> QED BY <3>1, <3>2, <3>3
  <2> QED BY <2>1, <2>2 DEF DeliveryInv, QueueInv
<1> QED BY <1>1, DeliveryInvInit, DeliveryInvNext, PTL DEF Spec

-----------------------------------------------------------------------------
(***************************************************************************)
(* Time.  What a step does to the clock, the wait, the queue and the two    *)
(* moments the keepalive looks at.                                          *)
(***************************************************************************)
Woken == waiting /\ waiting' = FALSE /\ until' = now + MaxWork
SameMoment == UNCHANGED <<now, waiting, until>>

(* Commands are queued and sent, or the send fails ... *)
Grows ==
  /\ \E n \in Nat : n >= 1 /\ Add(n)
  /\ SameMoment /\ ~waiting
  /\ UNCHANGED <<lastReceiveAt, pendingPing>>
  /\ lastSentAt' = now \/ (lastSentAt' = lastSentAt /\ Connected)

(* ... retired by an Ack, or by initserver ... *)
Shrinks ==
  /\ \E keys \in SUBSET DOMAIN pending : pending' = Restricted(pending, keys)
  /\ UNCHANGED <<now, lastSentAt, pendingPing>>
  /\ \/ Woken /\ lastReceiveAt' = now
     \/ Woken /\ lastReceiveAt' = lastReceiveAt /\ ~Connected'
     \/ UNCHANGED <<waiting, until, lastReceiveAt>> /\ ~Connected'

(* ... or sent again, before the next wait. *)
Polls ==
  /\ ~waiting /\ Expired = {}
  /\ ProcessTimers
  /\ waiting' = TRUE
  /\ until' \in Earliest({now + MaximumWait} \union NextDeadline(pending'))
  /\ UNCHANGED <<now, lastReceiveAt, phase>>

(* The queue stays as it is, and something is heard or not. *)
Hears ==
  /\ UNCHANGED <<now, pending, lastSentAt>>
  /\ Woken \/ (~waiting /\ UNCHANGED <<waiting, until>>)
  /\ lastReceiveAt' = now
  /\ pendingPing' \in {pendingPing, NoPing}

Rests ==
  /\ UNCHANGED <<now, pending, lastSentAt, lastReceiveAt>>
  /\ Woken \/ UNCHANGED <<waiting, until>>
  /\ pendingPing' = pendingPing \/ (pendingPing' = NoPing /\ ~Connected')
  /\ Connected' => Connected

Ticks ==
  /\ UNCHANGED <<waiting, until, phase, pending, lastReceiveAt, lastSentAt, pendingPing>>
  /\ now' = now + 1 /\ now < until

LEMMA TimeSteps ==
  ASSUME MatchInv, [Next]_vars
  PROVE  Grows \/ Shrinks \/ Polls \/ Hears \/ Rests \/ Ticks
<1> DEFINE Goal == Grows \/ Shrinks \/ Polls \/ Hears \/ Rests \/ Ticks
<1> USE DEF timerVars, loginVars, queueVars, historyVars, serverVars, loopVars, SameMoment
<1>0. ASSUME UNCHANGED <<now, waiting, until, pending, lastSentAt, lastReceiveAt, pendingPing>>,
             Connected' => Connected
      PROVE  Rests
  BY <1>0 DEF Rests
<1>s. ASSUME NEW n \in Nat, n >= 1, SendCommand(n), Connected' => Connected PROVE Goal
  <2>1. CASE AddThrows(NextKeys(n))
    BY <1>0, <1>s, <2>1 DEF SendCommand
  <2>2. CASE ~AddThrows(NextKeys(n))
    <3>1. Add(n) /\ SameMoment /\ ~waiting /\ UNCHANGED <<lastReceiveAt, pendingPing>> /\ lastSentAt' = now
      BY <1>s, <2>2, Zenon DEF SendCommand, Working
    <3> QED BY <1>s, <3>1 DEF Grows
  <2> QED BY <2>1, <2>2
<1>1. ASSUME NEW n \in 1 .. MaxInitFragments, Login(n) PROVE Goal
  <2>1. SendCommand(n) /\ (Connected' => Connected) /\ n \in Nat /\ n >= 1
    BY <1>1, SendFacts DEF Login, Connected
  <2> QED BY <1>s, <2>1
<1>2. CASE Submit
  <2>1. SendCommand(1) /\ (Connected' => Connected)
    BY <1>2 DEF Submit, Connected
  <2> QED BY <1>s, <2>1
<1>3. CASE SendFails
  BY <1>3 DEF SendFails, Working, Grows
<1>4. CASE TransportError \/ SessionEnded
  BY <1>0, <1>4 DEF TransportError, SessionEnded, Connected
<1>5. ASSUME NEW packet \in network, ServerReceive(packet) PROVE Goal
  BY <1>0, <1>5 DEF ServerReceive, Connected
<1>6. ASSUME NEW i \in 1 .. Len(acks), HandleAck(i) PROVE Goal
  <2>1. /\ ResolveGeneration(expectedAck, SequenceOf(i).packetId) = SequenceOf(i).generationId
        /\ \A p : ~(Cardinality(Matches(p)) > 1)
    BY <1>6, HandleAckResolves
  <2>2. /\ Awake /\ UNCHANGED <<lastSentAt, pendingPing, phase>> /\ Received
        /\ \E packetId : Acknowledge(packetId)
    BY <1>6, <2>1 DEF HandleAck
  <2>3. \E keys \in SUBSET DOMAIN pending : pending' = Restricted(pending, keys)
    BY <2>2 DEF Acknowledge
  <2>4. Shrinks
    BY <2>2, <2>3 DEF Shrinks, Awake, Woken, Received, Connected
  <2> QED BY <2>4
<1>7. CASE InitServer
  <2>1. \E keys \in SUBSET DOMAIN pending : pending' = Restricted(pending, keys)
    BY <1>7 DEF InitServer, Acknowledge
  <2>2. Shrinks
    BY <1>7, <2>1 DEF InitServer, Shrinks, Connected
  <2> QED BY <2>2
<1>8. CASE SetConnected
  BY <1>8 DEF SetConnected, Working, Hears
<1>9. ASSUME NEW ping \in pings, HandlePong(ping) PROVE Goal
  <2>1. /\ Awake /\ UNCHANGED <<phase, pending, lastSentAt>> /\ Received
        /\ pendingPing' \in {pendingPing, NoPing}
    BY <1>9 DEF HandlePong
  <2> QED BY <2>1 DEF Awake, Woken, Hears, Rests, Received, Connected
<1>10. CASE ReceiveOther
  <2>1. /\ Awake /\ UNCHANGED <<phase, pending, lastSentAt>> /\ Received /\ pendingPing' = pendingPing
    BY <1>10 DEF ReceiveOther
  <2> QED BY <2>1 DEF Awake, Woken, Hears, Rests, Received, Connected
<1>11. CASE Poll
  <2>1. CASE Expired # {}
    BY <1>0, <1>11, <2>1 DEF Poll, Connected
  <2>2. CASE Expired = {}
    BY <1>11, <2>2, Zenon DEF Poll, Working, Polls
  <2> QED BY <2>1, <2>2
<1>12. CASE WaitEnds
  BY <1>12 DEF WaitEnds, Awake, Woken, Rests, Connected
<1>13. CASE Tick
  BY <1>13 DEF Tick, Ticks
<1>14. CASE UNCHANGED vars
  BY <1>0, <1>14 DEF vars, Connected
<1> QED BY <1>1, <1>2, <1>3, <1>4, <1>5, <1>6, <1>7, <1>8, <1>9, <1>10, <1>11, <1>12, <1>13, <1>14 DEF Next

(* The clock is not behind any moment that has been noted, nor ahead of the  *)
(* end of the wait or of the work in progress.                               *)
ClockInv ==
  /\ now \in Nat /\ lastReceiveAt \in 0 .. now /\ lastSentAt \in 0 .. now
  /\ waiting \in BOOLEAN /\ until \in Nat /\ now <= until
  /\ ~waiting => until <= now + MaxWork
  /\ pendingPing = NoPing \/ pendingPing.sentAt \in 0 .. lastSentAt
  /\ pending = [k \in DOMAIN pending |-> pending[k]]
  /\ \A k \in DOMAIN pending : pending[k] \in PendingCommand

(* A retry is never further off than MaxRetryDelay.  A wait ends before each *)
(* retry and each expiry; the work after it lasts MaxWork more.              *)
RetryInv ==
  \A k \in DOMAIN pending :
    /\ pending[k].nextRetry <= now + MaxRetryDelay
    /\ until <= pending[k].nextRetry + (IF waiting THEN 0 ELSE MaxWork)
    /\ until <= pending[k].firstSent + CommandTimeout + (IF waiting THEN 0 ELSE MaxWork)

(* What SendAssumption says of times. *)
LEMMA TimeFacts ==
  /\ InitialRetryDelay \in Nat /\ InitialRetryDelay >= 1 /\ MaxRetryDelay \in Nat
  /\ InitialRetryDelay <= MaxRetryDelay /\ CommandTimeout \in Nat /\ CommandTimeout > MaxRetryDelay
  /\ PingInterval \in Nat /\ PingInterval >= 1 /\ MaxWork \in Nat
  /\ PollWait \in Nat /\ ReceiveWait \in Nat /\ MaximumWait \in Nat
  /\ MaximumWait = IF Connected THEN PollWait ELSE ReceiveWait
BY SendAssumption DEF MaximumWait

(* There is an earliest of some moments. *)
LEMMA EarliestExists ==
  ASSUME NEW times, times \subseteq Nat, times # {}
  PROVE  \E t \in Earliest(times) : t \in Nat /\ \A u \in times : t <= u
<1>1. PICK t \in times : \A u \in times : ~(<<u, t>> \in OpToRel(<, Nat))
  BY NatLessThanWellFounded, WFMin
<1>2. ASSUME NEW u \in times PROVE t <= u
  <2>1. u \in Nat /\ t \in Nat
    OBVIOUS
  <2>2. ~(<<u, t>> \in OpToRel(<, Nat))
    BY <1>1
  <2>3. ~(u < t)
    BY <2>1, <2>2 DEF OpToRel
  <2> QED BY <2>1, <2>3
<1> QED BY <1>2 DEF Earliest

(* What Add puts into the queue, and what it leaves there. *)
LEMMA AddedCommands ==
  ASSUME MatchInv, ClockInv, NEW n \in Nat, n >= 1, Add(n)
  PROVE  /\ DOMAIN pending' = DOMAIN pending \union NextKeys(n)
         /\ OutgoingKey \in DOMAIN pending'
         /\ pending' = [k \in DOMAIN pending' |-> pending'[k]]
         /\ \A k \in DOMAIN pending : pending'[k] = pending[k]
         /\ \A k \in DOMAIN pending' \ DOMAIN pending :
              /\ pending'[k] \in PendingCommand
              /\ pending'[k].firstSent = now /\ pending'[k].nextRetry = now + InitialRetryDelay
<1> DEFINE O == OutgoingKey
           keys == NextKeys(n)
<1>1. O \in Nat /\ attempts \in Nat /\ now \in Nat /\ InitialRetryDelay \in Nat
  BY SendFacts, SendAssumption DEF MatchInv
<1>2. pending' = [k \in DOMAIN pending \union keys |->
                    IF k \in DOMAIN pending THEN pending[k] ELSE NewPending(NextPayload(k))]
  BY DEF Add
<1>3. \A k \in keys : NextPayload(k) \in Nat
  BY <1>1 DEF NextPayload, NextKeys
<1>4. O \in keys /\ now + InitialRetryDelay \in Nat
  BY <1>1 DEF NextKeys
<1> HIDE DEF keys, O
<1>5. DOMAIN pending' = DOMAIN pending \union keys
  BY <1>2
<1>6. \A k \in DOMAIN pending : pending'[k] = pending[k]
  BY <1>2, <1>5
<1>7. ASSUME NEW k \in DOMAIN pending' \ DOMAIN pending
      PROVE  /\ pending'[k] \in PendingCommand
             /\ pending'[k].firstSent = now /\ pending'[k].nextRetry = now + InitialRetryDelay
  <2>1. pending'[k] = NewPending(NextPayload(k)) /\ k \in keys
    BY <1>2, <1>5
  <2>2. NextPayload(k) \in Nat
    BY <1>3, <2>1
  <2> QED BY <1>1, <1>4, <2>1, <2>2 DEF NewPending, PendingCommand
<1>8. pending' = [k \in DOMAIN pending' |-> pending'[k]]
  BY <1>2
<1> QED BY <1>4, <1>5, <1>6, <1>7, <1>8 DEF keys, O

(* A retry is put off by MaxRetryDelay at most, and its age is kept. *)
LEMMA RetriedTimes ==
  ASSUME NEW p \in PendingCommand, now \in Nat
  PROVE  /\ Retried(p) \in PendingCommand /\ Retried(p).firstSent = p.firstSent
         /\ Retried(p).retransmitted
         /\ now <= Retried(p).nextRetry /\ Retried(p).nextRetry <= now + MaxRetryDelay
<1> DEFINE delay == Min({2 * p.retryDelay, MaxRetryDelay})
<1>1. p.retryDelay \in Nat /\ MaxRetryDelay \in Nat
  BY SendAssumption DEF PendingCommand
<1>2. delay \in 0 .. MaxRetryDelay
  <2>1. \E d \in {2 * p.retryDelay, MaxRetryDelay} :
          \A e \in {2 * p.retryDelay, MaxRetryDelay} : d <= e
    BY <1>1
  <2>2. delay \in {2 * p.retryDelay, MaxRetryDelay} /\ delay <= MaxRetryDelay
    BY <2>1 DEF Min
  <2> QED BY <1>1, <2>2
<1>3. Retried(p) = [p EXCEPT !.retransmitted = TRUE, !.retryDelay = delay, !.nextRetry = now + delay]
  BY DEF Retried
<1> HIDE DEF delay
<1>4. /\ Retried(p).firstSent = p.firstSent /\ Retried(p).nextRetry = now + delay
      /\ Retried(p).retransmitted
  BY <1>3 DEF PendingCommand
<1>5. now <= now + delay /\ now + delay <= now + MaxRetryDelay
  BY <1>1, <1>2
<1> QED BY <1>4, <1>5, RetriedKeepsPayload

(* CollectDue puts off what is due and leaves the rest. *)
LEMMA CollectedTimes ==
  ASSUME ClockInv, CollectDue
  PROVE  /\ DOMAIN pending' = DOMAIN pending
         /\ pending' = [k \in DOMAIN pending' |-> pending'[k]]
         /\ \A k \in DOMAIN pending :
              \/ pending'[k] = pending[k] /\ k \notin Due
              \/ pending'[k] = Retried(pending[k]) /\ k \in Due
         /\ \A k \in DOMAIN pending : pending'[k] \in PendingCommand
<1>1. pending' = [k \in DOMAIN pending |-> IF k \in Due THEN Retried(pending[k]) ELSE pending[k]]
  BY DEF CollectDue
<1>2. /\ DOMAIN pending' = DOMAIN pending
      /\ \A k \in DOMAIN pending : \/ pending'[k] = pending[k] /\ k \notin Due
                                   \/ pending'[k] = Retried(pending[k]) /\ k \in Due
      /\ pending' = [k \in DOMAIN pending' |-> pending'[k]]
  BY <1>1
<1>3. ASSUME NEW k \in DOMAIN pending PROVE pending'[k] \in PendingCommand
  <2>1. pending[k] \in PendingCommand /\ now \in Nat
    BY DEF ClockInv
  <2> QED BY <1>2, <2>1, RetriedTimes
<1> QED BY <1>2, <1>3

(* The wait Poll begins ends at the first of all retries and expiries, or    *)
(* before them, and none of them is over already.                            *)
LEMMA PolledTimes ==
  ASSUME ClockInv, RetryInv, Polls
  PROVE  /\ until' \in Nat /\ now <= until' /\ until' <= now + MaximumWait
         /\ \A k \in DOMAIN pending' : /\ pending'[k] \in PendingCommand
                                       /\ pending'[k].nextRetry <= now + MaxRetryDelay
                                       /\ until' <= pending'[k].nextRetry
                                       /\ until' <= pending'[k].firstSent + CommandTimeout
<1> DEFINE retries == {pending'[k].nextRetry : k \in DOMAIN pending'}
           expiries == {pending'[k].firstSent + CommandTimeout : k \in DOMAIN pending'}
           ends == {now + MaximumWait} \union NextDeadline(pending')
<1>1. now \in Nat /\ MaximumWait \in Nat /\ CommandTimeout \in Nat /\ MaxRetryDelay \in Nat
  BY TimeFacts DEF ClockInv
<1>2. CollectDue /\ Expired = {} /\ until' \in Earliest(ends)
  BY DEF Polls, ProcessTimers
<1>3. ASSUME NEW k \in DOMAIN pending'
      PROVE  /\ pending'[k] \in PendingCommand
             /\ now <= pending'[k].nextRetry /\ now <= pending'[k].firstSent + CommandTimeout
             /\ pending'[k].nextRetry <= now + MaxRetryDelay
  <2>1. k \in DOMAIN pending /\ pending[k] \in PendingCommand /\ pending'[k] \in PendingCommand
    BY <1>2, CollectedTimes DEF ClockInv
  <2>2. pending[k].firstSent \in Nat /\ ~(now >= pending[k].firstSent + CommandTimeout)
    BY <1>2, <2>1 DEF Expired, PendingCommand
  <2>3. CASE pending'[k] = pending[k] /\ k \notin Due
    <3>1. pending[k].nextRetry \in Nat /\ ~(now >= pending[k].nextRetry)
          /\ pending[k].nextRetry <= now + MaxRetryDelay
      BY <2>1, <2>3 DEF Due, PendingCommand, RetryInv
    <3> QED BY <1>1, <2>1, <2>2, <2>3, <3>1
  <2>4. CASE pending'[k] = Retried(pending[k])
    BY <1>1, <2>1, <2>2, <2>4, RetriedTimes
  <2> QED BY <1>2, <2>1, <2>3, <2>4, CollectedTimes
<1>4. retries \subseteq Nat /\ expiries \subseteq Nat
  BY <1>1, <1>3 DEF PendingCommand
<1>5. NextDeadline(pending') = Earliest(retries \union expiries)
  BY DEF NextDeadline
<1>6. \A d \in retries \union expiries : d \in Nat /\ now <= d
  BY <1>3, <1>4
<1>7. /\ until' \in ends /\ \A u \in ends : until' <= u
  BY <1>2 DEF Earliest
<1> HIDE DEF retries, expiries
<1>8. until' \in Nat /\ now <= until' /\ until' <= now + MaximumWait
  <2>1. \A u \in ends : u \in Nat /\ now <= u
    BY <1>1, <1>5, <1>6 DEF Earliest
  <2> QED BY <1>7, <2>1
<1>9. ASSUME NEW d \in retries \union expiries PROVE until' <= d
  <2>1. PICK t \in Earliest(retries \union expiries) : t \in Nat /\ \A u \in retries \union expiries : t <= u
    BY <1>4, EarliestExists
  <2>2. until' <= t /\ t <= d /\ d \in Nat
    BY <1>5, <1>6, <1>7, <2>1
  <2> QED BY <1>8, <2>1, <2>2
<1>10. ASSUME NEW k \in DOMAIN pending'
       PROVE  until' <= pending'[k].nextRetry /\ until' <= pending'[k].firstSent + CommandTimeout
  BY <1>9 DEF retries, expiries
<1> QED BY <1>3, <1>8, <1>10

LEMMA ClockKept ==
  ASSUME MatchInv, ClockInv, RetryInv, [Next]_vars
  PROVE  ClockInv' /\ RetryInv'
<1>1. /\ now \in Nat /\ lastReceiveAt \in 0 .. now /\ lastSentAt \in 0 .. now
      /\ waiting \in BOOLEAN /\ until \in Nat /\ now <= until
      /\ (~waiting => until <= now + MaxWork)
      /\ pendingPing = NoPing \/ pendingPing.sentAt \in 0 .. lastSentAt
      /\ pending = [k \in DOMAIN pending |-> pending[k]]
      /\ \A k \in DOMAIN pending : /\ pending[k] \in PendingCommand
                                   /\ pending[k].nextRetry \in Nat /\ pending[k].firstSent \in Nat
  BY DEF ClockInv, PendingCommand
<1>2. /\ InitialRetryDelay \in Nat /\ InitialRetryDelay <= MaxRetryDelay /\ MaxRetryDelay \in Nat
      /\ CommandTimeout \in Nat /\ MaxWork \in Nat
  BY TimeFacts
<1>3. \A k \in DOMAIN pending :
        /\ pending[k].nextRetry <= now + MaxRetryDelay
        /\ until <= pending[k].nextRetry + (IF waiting THEN 0 ELSE MaxWork)
        /\ until <= pending[k].firstSent + CommandTimeout + (IF waiting THEN 0 ELSE MaxWork)
  BY DEF RetryInv
<1> DEFINE Same(k) == k \in DOMAIN pending /\ pending'[k] = pending[k]
(* A wait that is over is followed by work that began before it had to. *)
<1>4. ASSUME now' = now, Woken \/ UNCHANGED <<waiting, until>>
      PROVE  /\ now' \in Nat /\ waiting' \in BOOLEAN /\ until' \in Nat /\ now' <= until'
             /\ (~waiting' => until' <= now' + MaxWork)
             /\ \A k \in DOMAIN pending :
                  /\ until' <= pending[k].nextRetry + (IF waiting' THEN 0 ELSE MaxWork)
                  /\ until' <= pending[k].firstSent + CommandTimeout + (IF waiting' THEN 0 ELSE MaxWork)
  <2>1. CASE Woken
    <3>1. waiting /\ waiting' = FALSE /\ until' = now + MaxWork
      BY <2>1 DEF Woken
    <3>2. now' \in Nat /\ until' \in Nat /\ now' <= until' /\ until' <= now' + MaxWork
      BY <1>1, <1>2, <1>4, <3>1
    <3>3. ASSUME NEW k \in DOMAIN pending
          PROVE  /\ until' <= pending[k].nextRetry + MaxWork
                 /\ until' <= pending[k].firstSent + CommandTimeout + MaxWork
      <4>1. until <= pending[k].nextRetry + 0 /\ until <= pending[k].firstSent + CommandTimeout + 0
        BY <1>3, <3>1
      <4>2. pending[k].nextRetry \in Nat /\ pending[k].firstSent \in Nat
        BY <1>1
      <4> QED BY <1>1, <1>2, <3>1, <4>1, <4>2
    <3> QED BY <3>1, <3>2, <3>3
  <2>2. CASE UNCHANGED <<waiting, until>>
    BY <1>1, <1>3, <1>4, <2>2
  <2> QED BY <1>4, <2>1, <2>2
<1>5. CASE Grows
  <2>1. PICK n \in Nat : n >= 1 /\ Add(n)
    BY <1>5 DEF Grows
  <2>2. /\ pending' = [k \in DOMAIN pending' |-> pending'[k]]
        /\ \A k \in DOMAIN pending : pending'[k] = pending[k]
        /\ \A k \in DOMAIN pending' \ DOMAIN pending :
             /\ pending'[k] \in PendingCommand
             /\ pending'[k].firstSent = now /\ pending'[k].nextRetry = now + InitialRetryDelay
    BY <2>1, AddedCommands
  <2>3. /\ now' = now /\ waiting' = waiting /\ until' = until /\ waiting = FALSE
        /\ lastReceiveAt' = lastReceiveAt /\ pendingPing' = pendingPing
        /\ lastSentAt' \in lastSentAt .. now
    BY <1>1, <1>5 DEF Grows, SameMoment
  <2>4. pendingPing' = NoPing \/ pendingPing'.sentAt \in 0 .. lastSentAt'
    BY <1>1, <2>3
  <2>5. ClockInv'
    <3>1. \A k \in DOMAIN pending' : pending'[k] \in PendingCommand
      BY <1>1, <2>2
    <3> QED BY <1>1, <2>2, <2>3, <2>4, <3>1 DEF ClockInv
  <2>6. ASSUME NEW k \in DOMAIN pending'
        PROVE  /\ pending'[k].nextRetry <= now + MaxRetryDelay
               /\ until <= pending'[k].nextRetry + MaxWork
               /\ until <= pending'[k].firstSent + CommandTimeout + MaxWork
    <3>1. CASE k \in DOMAIN pending
      BY <1>3, <2>2, <2>3, <3>1
    <3>2. CASE k \notin DOMAIN pending
      BY <1>1, <1>2, <2>2, <2>3, <3>2
    <3> QED BY <3>1, <3>2
  <2> QED BY <2>3, <2>5, <2>6 DEF RetryInv
<1>6. CASE Shrinks
  <2>1. PICK keys \in SUBSET DOMAIN pending : pending' = Restricted(pending, keys)
    BY <1>6 DEF Shrinks
  <2>2. /\ pending' = [k \in DOMAIN pending' |-> pending'[k]]
        /\ \A k \in DOMAIN pending' : Same(k)
    BY <1>1, <2>1 DEF Restricted
  <2>3. now' = now /\ (Woken \/ UNCHANGED <<waiting, until>>)
    BY <1>6 DEF Shrinks
  <2>4. ClockInv'
    BY <1>1, <1>4, <1>6, <2>2, <2>3 DEF ClockInv, Shrinks
  <2>5. RetryInv'
    BY <1>3, <1>4, <2>2, <2>3 DEF RetryInv
  <2> QED BY <2>4, <2>5
<1>7. CASE Polls
  <2>1. CollectDue /\ waiting' = TRUE /\ now' = now /\ lastReceiveAt' = lastReceiveAt
    BY <1>7 DEF Polls, ProcessTimers
  <2>2. pending' = [k \in DOMAIN pending' |-> pending'[k]]
    BY <2>1, CollectedTimes
  <2>3. /\ until' \in Nat /\ now <= until'
        /\ \A k \in DOMAIN pending' : /\ pending'[k] \in PendingCommand
                                      /\ pending'[k].nextRetry <= now + MaxRetryDelay
                                      /\ until' <= pending'[k].nextRetry
                                      /\ until' <= pending'[k].firstSent + CommandTimeout
    BY <1>7, PolledTimes
  <2>4. /\ lastSentAt' \in lastSentAt .. now
        /\ pendingPing' = NoPing \/ pendingPing'.sentAt \in 0 .. lastSentAt'
    <3>1. lastSentAt' = IF Due # {} \/ (KeepaliveRuns /\ PingDue) THEN now ELSE lastSentAt
      BY <1>7 DEF Polls, ProcessTimers
    <3>2. \/ pendingPing' \in {pendingPing, NoPing}
          \/ KeepaliveRuns /\ PingDue /\ pendingPing' = [packetId |-> pingId, sentAt |-> now]
      BY <1>7 DEF Polls, ProcessTimers, Keepalive, SendPing
    <3> QED BY <1>1, <3>1, <3>2
  <2>5. ClockInv'
    BY <1>1, <2>1, <2>2, <2>3, <2>4 DEF ClockInv
  <2>6. RetryInv'
    <3>1. \A k \in DOMAIN pending' : pending'[k].nextRetry \in Nat /\ pending'[k].firstSent + CommandTimeout \in Nat
      BY <1>2, <2>3 DEF PendingCommand
    <3> QED BY <2>1, <2>3, <3>1 DEF RetryInv
  <2> QED BY <2>5, <2>6
<1>8. CASE Hears \/ Rests
  <2>1. now' = now /\ pending' = pending /\ lastSentAt' = lastSentAt /\ (Woken \/ UNCHANGED <<waiting, until>>)
    BY <1>8 DEF Hears, Rests
  <2>2. lastReceiveAt' \in 0 .. now /\ pendingPing' \in {pendingPing, NoPing}
    BY <1>1, <1>8 DEF Hears, Rests
  <2>3. pendingPing' = NoPing \/ pendingPing'.sentAt \in 0 .. lastSentAt'
    BY <1>1, <2>1, <2>2
  <2>4. ClockInv'
    BY <1>1, <1>4, <2>1, <2>2, <2>3 DEF ClockInv
  <2>5. RetryInv'
    BY <1>3, <1>4, <2>1 DEF RetryInv
  <2> QED BY <2>4, <2>5
<1>9. CASE Ticks
  <2>1. /\ now' = now + 1 /\ now + 1 <= until
        /\ UNCHANGED <<waiting, until, pending, lastReceiveAt, lastSentAt, pendingPing>>
    BY <1>1, <1>9 DEF Ticks
  <2>2. ClockInv'
    BY <1>1, <1>2, <2>1 DEF ClockInv
  <2>3. RetryInv'
    BY <1>1, <1>2, <1>3, <2>1 DEF RetryInv
  <2> QED BY <2>2, <2>3
<1> QED BY <1>5, <1>6, <1>7, <1>8, <1>9, TimeSteps

-----------------------------------------------------------------------------
(***************************************************************************)
(* Silence.  An idle connection has asked or heard lately, and a busy one   *)
(* has a command that is sent again soon enough.  A Ping that other traffic *)
(* has answered is retired at the very next Poll.                           *)
(***************************************************************************)
ProbeDelay == Max({PingInterval + PollWait + MaxWork + InitialRetryDelay, MaxRetryDelay})

SilenceInv ==
  Connected =>
    IF DOMAIN pending = {}
    THEN LET idle == PingInterval + PollWait + (IF waiting THEN 0 ELSE MaxWork)
         IN  until <= lastReceiveAt + idle \/ until <= lastSentAt + idle
    ELSE \E k \in DOMAIN pending : \/ pending[k].nextRetry <= lastReceiveAt + ProbeDelay
                                   \/ pending[k].nextRetry <= lastSentAt + ProbeDelay

AnsweredInv ==
  Connected /\ DOMAIN pending = {} /\ PingAnswered => ~waiting /\ until <= lastReceiveAt + MaxWork

LEMMA ProbeDelayFacts ==
  /\ ProbeDelay \in Nat /\ MaxRetryDelay <= ProbeDelay
  /\ PingInterval + PollWait + MaxWork + InitialRetryDelay <= ProbeDelay
  /\ LongestSilence = ProbeDelay + MaxWork
<1> DEFINE a == PingInterval + PollWait + MaxWork + InitialRetryDelay
           b == MaxRetryDelay
<1>1. a \in Nat /\ b \in Nat
  BY TimeFacts
<1>2. \E m \in {a, b} : \A y \in {a, b} : m >= y
  BY <1>1
<1>3. Max({a, b}) \in {a, b} /\ Max({a, b}) >= a /\ Max({a, b}) >= b
  BY <1>2 DEF Max
<1> QED BY <1>1, <1>3 DEF ProbeDelay, LongestSilence

LEMMA AnsweredKept ==
  ASSUME MatchInv, ClockInv, RetryInv, AnsweredInv, [Next]_vars
  PROVE  AnsweredInv'
<1> SUFFICES ASSUME Connected', DOMAIN pending' = {}, PingAnswered'
             PROVE  ~waiting' /\ until' <= lastReceiveAt' + MaxWork
  BY DEF AnsweredInv
<1>1. /\ now \in Nat /\ lastReceiveAt \in 0 .. now /\ MaxWork \in Nat /\ until \in Nat
      /\ (~waiting => until <= now + MaxWork) /\ waiting \in BOOLEAN
  BY TimeFacts DEF ClockInv
<1>2. CASE Grows
  <2>1. PICK n \in Nat : n >= 1 /\ Add(n)
    BY <1>2 DEF Grows
  <2> QED BY <2>1, AddedCommands
<1>3. CASE Shrinks \/ Hears
  BY <1>1, <1>3 DEF Shrinks, Hears, Woken
<1>4. CASE Polls
  <2>1. CollectDue /\ DOMAIN pending = {} /\ Connected /\ lastReceiveAt' = lastReceiveAt
    BY <1>4, CollectedTimes DEF Polls, ProcessTimers, Connected
  <2>2. pending = EmptyFunction
    BY <2>1 DEF ClockInv, EmptyFunction
  <2>3. Keepalive
    BY <1>4, <2>1, <2>2 DEF Polls, ProcessTimers, KeepaliveRuns
  <2>4. CASE PingDue
    <3>1. pendingPing' = [packetId |-> pingId, sentAt |-> now]
      BY <2>3, <2>4 DEF Keepalive, SendPing
    <3> QED BY <1>1, <2>1, <3>1 DEF PingAnswered
  <2>5. CASE ~PingDue
    <3>1. pendingPing' = IF PingAnswered THEN NoPing ELSE pendingPing
      BY <2>3, <2>5 DEF Keepalive
    <3> QED BY <2>1, <3>1 DEF PingAnswered
  <2> QED BY <2>4, <2>5
<1>5. CASE Rests
  <2>1. Connected /\ DOMAIN pending = {} /\ PingAnswered /\ lastReceiveAt' = lastReceiveAt
    BY <1>5 DEF Rests, PingAnswered
  <2>2. ~waiting /\ until <= lastReceiveAt + MaxWork
    BY <2>1 DEF AnsweredInv
  <2> QED BY <1>5, <2>1, <2>2 DEF Rests, Woken
<1>6. CASE Ticks
  <2>1. Connected /\ DOMAIN pending = {} /\ PingAnswered
        /\ UNCHANGED <<waiting, until, lastReceiveAt>>
    BY <1>6 DEF Ticks, PingAnswered, Connected
  <2> QED BY <2>1 DEF AnsweredInv
<1> QED BY <1>2, <1>3, <1>4, <1>5, <1>6, TimeSteps

(* SendFails queues a command without sending it, when the server may not    *)
(* have been asked for a while already: then its first retry is the question. *)
LEMMA SilenceKept ==
  ASSUME MaxWork <= PingInterval,
         MatchInv, ClockInv, RetryInv, AnsweredInv, ClockInv', RetryInv', SilenceInv, [Next]_vars
  PROVE  SilenceInv'
<1> DEFINE Idle == LET idle == PingInterval + PollWait + (IF waiting THEN 0 ELSE MaxWork)
                   IN  until <= lastReceiveAt + idle \/ until <= lastSentAt + idle
           Busy == \E k \in DOMAIN pending : \/ pending[k].nextRetry <= lastReceiveAt + ProbeDelay
                                             \/ pending[k].nextRetry <= lastSentAt + ProbeDelay
           Goal == IF DOMAIN pending' = {} THEN Idle' ELSE Busy'
<1> SUFFICES ASSUME Connected' PROVE Goal
  BY DEF SilenceInv
<1>1. /\ now \in Nat /\ lastReceiveAt \in 0 .. now /\ lastSentAt \in 0 .. now /\ until \in Nat
      /\ now <= until /\ (~waiting => until <= now + MaxWork) /\ waiting \in BOOLEAN
  BY DEF ClockInv
<1>2. /\ InitialRetryDelay \in Nat /\ MaxRetryDelay \in Nat /\ MaxWork \in Nat /\ PollWait \in Nat
      /\ PingInterval \in Nat /\ ProbeDelay \in Nat /\ MaxRetryDelay <= ProbeDelay
      /\ PingInterval + PollWait + MaxWork + InitialRetryDelay <= ProbeDelay
  BY TimeFacts, ProbeDelayFacts
<1>3. Connected => IF DOMAIN pending = {} THEN Idle ELSE Busy
  BY DEF SilenceInv
(* Something was heard or said just now: the next retry is not far off. *)
<1>4. ASSUME now' = now, lastReceiveAt' = now \/ lastSentAt' = now, DOMAIN pending' # {} PROVE Goal
  <2>1. PICK k \in DOMAIN pending' : TRUE
    BY <1>4
  <2>2. pending'[k].nextRetry <= now + MaxRetryDelay /\ pending'[k].nextRetry \in Nat
    BY <1>4 DEF RetryInv, ClockInv, PendingCommand
  <2>3. pending'[k].nextRetry <= now + ProbeDelay
    BY <1>1, <1>2, <2>2
  <2> QED BY <1>4, <2>1, <2>3
<1>5. ASSUME now' = now, lastReceiveAt' = now \/ lastSentAt' = now, DOMAIN pending' = {}, ~waiting'
      PROVE  Goal
  <2>1. until' <= now + MaxWork /\ until' \in Nat
    BY <1>5 DEF ClockInv
  <2>2. until' <= now + (PingInterval + PollWait + MaxWork)
    BY <1>1, <1>2, <2>1
  <2> QED BY <1>5, <2>2
<1>6. CASE Grows
  <2>1. PICK n \in Nat : n >= 1 /\ Add(n)
    BY <1>6 DEF Grows
  <2>2. /\ OutgoingKey \in DOMAIN pending'
        /\ \A k \in DOMAIN pending : k \in DOMAIN pending' /\ pending'[k] = pending[k]
    BY <2>1, AddedCommands
  <2>3. now' = now /\ lastReceiveAt' = lastReceiveAt /\ ~waiting
    BY <1>6 DEF Grows, SameMoment
  <2>4. CASE lastSentAt' = now
    BY <1>4, <2>2, <2>3, <2>4
  <2>5. CASE lastSentAt' = lastSentAt /\ Connected
    <3>1. CASE DOMAIN pending = {}
      <4>1. pending'[OutgoingKey].nextRetry = now + InitialRetryDelay
        BY <2>1, <3>1, AddedCommands
      <4>2. \/ until <= lastReceiveAt + (PingInterval + PollWait + MaxWork)
            \/ until <= lastSentAt + (PingInterval + PollWait + MaxWork)
        BY <1>3, <2>3, <2>5, <3>1
      <4>3. \/ now + InitialRetryDelay <= lastReceiveAt + ProbeDelay
            \/ now + InitialRetryDelay <= lastSentAt + ProbeDelay
        BY <1>1, <1>2, <4>2
      <4>4. \/ pending'[OutgoingKey].nextRetry <= lastReceiveAt' + ProbeDelay
            \/ pending'[OutgoingKey].nextRetry <= lastSentAt' + ProbeDelay
        BY <2>3, <2>5, <4>1, <4>3
      <4> QED BY <2>2, <4>4
    <3>2. CASE DOMAIN pending # {}
      <4>1. PICK k \in DOMAIN pending : \/ pending[k].nextRetry <= lastReceiveAt + ProbeDelay
                                        \/ pending[k].nextRetry <= lastSentAt + ProbeDelay
        BY <1>3, <2>5, <3>2
      <4>2. k \in DOMAIN pending' /\ pending'[k] = pending[k]
        BY <2>2
      <4> QED BY <2>3, <2>5, <4>1, <4>2
    <3> QED BY <3>1, <3>2
  <2> QED BY <1>6, <2>4, <2>5 DEF Grows
<1>7. CASE Shrinks \/ Hears
  <2>1. now' = now /\ lastReceiveAt' = now /\ ~waiting'
    BY <1>7 DEF Shrinks, Hears, Woken
  <2> QED BY <1>4, <1>5, <2>1
<1>8. CASE Polls
  <2>1. /\ CollectDue /\ Connected /\ now' = now /\ lastReceiveAt' = lastReceiveAt /\ ~waiting /\ waiting'
        /\ lastSentAt' = IF Due # {} \/ (KeepaliveRuns /\ PingDue) THEN now ELSE lastSentAt
    BY <1>8 DEF Polls, ProcessTimers, Connected
  <2>2. until' \in Nat /\ until' <= now + PollWait
    BY <1>8, <2>1, PolledTimes, TimeFacts
  <2>3. DOMAIN pending' = DOMAIN pending
    BY <2>1, CollectedTimes
  <2>6. ASSUME \/ until' <= lastReceiveAt' + (PingInterval + PollWait)
               \/ until' <= lastSentAt' + (PingInterval + PollWait)
        PROVE  Idle'
    <3>1. PingInterval + PollWait + (IF waiting' THEN 0 ELSE MaxWork) = PingInterval + PollWait
      BY <1>2, <2>1
    <3> QED BY <2>6, <3>1
  <2>4. CASE DOMAIN pending = {}
    <3>1. pending = EmptyFunction /\ KeepaliveRuns
      BY <2>1, <2>4 DEF ClockInv, EmptyFunction, KeepaliveRuns
    <3>2. CASE PingDue
      <4>1. lastSentAt' = now
        BY <2>1, <3>1, <3>2
      <4>2. until' <= now + (PingInterval + PollWait)
        BY <1>1, <1>2, <2>2
      <4> QED BY <2>3, <2>4, <2>6, <4>1, <4>2
    <3>3. CASE ~PingDue /\ PingAnswered
      <4>1. until <= lastReceiveAt + MaxWork
        BY <2>1, <2>4, <3>3 DEF AnsweredInv
      <4>2. until' <= lastReceiveAt + (PingInterval + PollWait)
        BY <1>1, <1>2, <2>2, <4>1
      <4> QED BY <2>1, <2>3, <2>4, <2>6, <4>2
    <3>4. CASE ~PingDue /\ ~PingAnswered /\ pendingPing = NoPing
      <4>1. ~(now - lastReceiveAt >= PingInterval)
        BY <3>4 DEF PingDue
      <4>2. until' <= lastReceiveAt + (PingInterval + PollWait)
        BY <1>1, <1>2, <2>2, <4>1
      <4> QED BY <2>1, <2>3, <2>4, <2>6, <4>2
    <3>5. CASE ~PingDue /\ ~PingAnswered /\ pendingPing # NoPing
      <4>1. ~(now - pendingPing.sentAt >= PingInterval) /\ pendingPing.sentAt \in 0 .. lastSentAt
        BY <3>5 DEF PingDue, ClockInv
      <4>2. until' <= lastSentAt + (PingInterval + PollWait)
        BY <1>1, <1>2, <2>2, <4>1
      <4>3. until' <= lastSentAt' + (PingInterval + PollWait)
        BY <1>1, <1>2, <2>1, <2>2, <4>2
      <4> QED BY <2>3, <2>4, <2>6, <4>3
    <3> QED BY <3>2, <3>3, <3>4, <3>5
  <2>5. CASE DOMAIN pending # {}
    <3>1. CASE lastSentAt' = now
      BY <1>4, <2>1, <2>3, <2>5, <3>1
    <3>2. CASE lastSentAt' # now
      <4>1. Due = {} /\ lastSentAt' = lastSentAt
        BY <2>1, <3>2
      <4>2. \A k \in DOMAIN pending : pending'[k] = pending[k]
        BY <2>1, <4>1, CollectedTimes
      <4>3. PICK k \in DOMAIN pending : \/ pending[k].nextRetry <= lastReceiveAt + ProbeDelay
                                        \/ pending[k].nextRetry <= lastSentAt + ProbeDelay
        BY <1>3, <2>1, <2>5
      <4> QED BY <2>1, <2>3, <4>1, <4>2, <4>3
    <3> QED BY <3>1, <3>2
  <2> QED BY <2>4, <2>5
<1>9. CASE Rests
  <2>1. Connected /\ UNCHANGED <<now, pending, lastSentAt, lastReceiveAt>>
    BY <1>9 DEF Rests
  <2>2. CASE DOMAIN pending = {}
    <3>1. CASE Woken
      <4>1. waiting /\ waiting' = FALSE /\ until' = now + MaxWork
        BY <3>1 DEF Woken
      <4>2. \/ until <= lastReceiveAt + (PingInterval + PollWait)
            \/ until <= lastSentAt + (PingInterval + PollWait)
        BY <1>2, <1>3, <2>1, <2>2, <4>1
      <4>3. \/ until' <= lastReceiveAt' + (PingInterval + PollWait + MaxWork)
            \/ until' <= lastSentAt' + (PingInterval + PollWait + MaxWork)
        BY <1>1, <1>2, <2>1, <4>1, <4>2
      <4> QED BY <2>1, <2>2, <4>1, <4>3
    <3>2. CASE UNCHANGED <<waiting, until>>
      BY <1>3, <2>1, <2>2, <3>2
    <3> QED BY <1>9, <3>1, <3>2 DEF Rests
  <2>3. CASE DOMAIN pending # {}
    BY <1>3, <2>1, <2>3
  <2> QED BY <2>2, <2>3
<1>10. CASE Ticks
  <2>1. Connected /\ UNCHANGED <<waiting, until, pending, lastReceiveAt, lastSentAt>>
    BY <1>10 DEF Ticks, Connected
  <2> QED BY <1>3, <2>1
<1> QED BY <1>6, <1>7, <1>8, <1>9, <1>10, TimeSteps

-----------------------------------------------------------------------------
(***************************************************************************)
(* Round trips.  While no Send has failed, a packet in flight that was sent *)
(* once was sent when its command was queued, and so was the one an Ack     *)
(* answers.  A pending Ping is the last one sent.                           *)
(***************************************************************************)
SentOnce(k, sentAt) == k \in DOMAIN pending /\ ~pending[k].retransmitted => sentAt = pending[k].firstSent

NumberedInv ==
  NoSendFailed =>
    /\ DOMAIN pending \subseteq Numbered
    /\ \A k \in DOMAIN pending : OutgoingKey <= k + SequenceSize
    /\ \A packet \in network : packet.key \in Numbered /\ SentOnce(packet.key, packet.sentAt)
    /\ \A i \in 1 .. Len(acks) : acks[i].key \in Numbered /\ SentOnce(acks[i].key, acks[i].sentAt)

PingInv ==
  /\ \A ping \in pings : ping.sentAt \in 0 .. now
  /\ pendingPing = NoPing \/ /\ pendingPing \in pings
                             /\ \A ping \in pings : ping.sentAt <= pendingPing.sentAt

LEMMA PingKept ==
  ASSUME ClockInv, PingInv, [Next]_vars
  PROVE  PingInv'
<1> USE DEF timerVars, loopVars, loginVars, queueVars, historyVars, serverVars
<1>1. now \in Nat
  BY DEF ClockInv
<1>2. ASSUME pings' = pings, now' = now \/ now' = now + 1, pendingPing' \in {pendingPing, NoPing} PROVE PingInv'
  <2>1. ASSUME NEW ping \in pings PROVE ping.sentAt \in 0 .. now'
    BY <1>1, <1>2 DEF PingInv
  <2> QED BY <1>2, <2>1 DEF PingInv
<1>3. ASSUME Keepalive, now' = now PROVE PingInv'
  <2>1. CASE PingDue
    <3> DEFINE new == [packetId |-> pingId, sentAt |-> now]
    <3>1. new.sentAt = now /\ pendingPing' = new /\ pings' = pings \union {new}
      BY <1>3, <2>1 DEF Keepalive, SendPing
    <3> HIDE DEF new
    <3>2. \A ping \in pings' : ping.sentAt \in 0 .. now
      BY <1>1, <3>1 DEF PingInv
    <3> QED BY <1>1, <1>3, <3>1, <3>2 DEF PingInv
  <2>2. CASE ~PingDue
    <3>1. pings' = pings /\ pendingPing' \in {pendingPing, NoPing}
      BY <1>3, <2>2 DEF Keepalive
    <3> QED BY <1>2, <1>3, <3>1
  <2> QED BY <2>1, <2>2
<1>4. CASE Poll
  <2>1. now' = now /\ (Keepalive \/ UNCHANGED <<pendingPing, pingId, pings>>)
    BY <1>4 DEF Poll, ProcessTimers
  <2> QED BY <1>2, <1>3, <2>1
<1>5. CASE SetConnected \/ (\E ping \in pings : HandlePong(ping))
  BY <1>2, <1>5 DEF SetConnected, HandlePong, Awake
<1>6. CASE (\E n \in 1 .. MaxInitFragments : Login(n)) \/ Submit \/ SendFails \/ TransportError
  BY <1>2, <1>6 DEF Login, Submit, SendCommand, SendFails, TransportError
<1>7. CASE (\E packet \in network : ServerReceive(packet)) \/ (\E i \in 1 .. Len(acks) : HandleAck(i))
           \/ InitServer \/ ReceiveOther
  BY <1>2, <1>7 DEF ServerReceive, HandleAck, InitServer, ReceiveOther, Awake
<1>8. CASE WaitEnds \/ SessionEnded \/ Tick \/ UNCHANGED vars
  BY <1>2, <1>8 DEF WaitEnds, SessionEnded, Tick, Awake, vars
<1> QED BY <1>4, <1>5, <1>6, <1>7, <1>8 DEF Next

(* What a SendCommand that returns does to the histories. *)
LEMMA SentCommands ==
  ASSUME MatchInv, ClockInv, NumberedInv, NEW n \in Nat, n >= 1,
         ~AddThrows(NextKeys(n)), SendCommand(n)
  PROVE  NumberedInv'
<1> DEFINE O == OutgoingKey
           keys == NextKeys(n)
<1>1. /\ O \in Nat /\ attempts \in Nat /\ O >= FirstKey /\ FirstKey = 2 /\ now \in Nat
      /\ SequenceSize \in Nat /\ SequenceSize >= 4
  BY SendFacts DEF MatchInv
<1>2. /\ Add(n) /\ outgoing' = SequenceOf(O + n) /\ attempts + n <= MaxPackets
      /\ network' = network \union
           {[key |-> k, payload |-> NextPayload(k), sentAt |-> now] : k \in keys}
      /\ UNCHANGED <<acks, failed>>
  BY DEF SendCommand, serverVars
<1>3. O' = O + n /\ Numbered' = Numbered \union keys
  <2>1. O + n \in Nat /\ O + n < SequenceSize * (MaxGeneration + 1)
    BY <1>1, <1>2, SendFacts, SequenceAssumption DEF MatchInv
  <2>2. O' = O + n
    BY <1>2, <2>1, SequenceInRange DEF OutgoingKey
  <2> QED BY <1>1, <2>2 DEF Numbered, NextKeys
<1>4. NoSendFailed' => NoSendFailed
  BY <1>2 DEF NoSendFailed
<1>5. /\ DOMAIN pending' = DOMAIN pending \union keys
      /\ \A k \in DOMAIN pending : pending'[k] = pending[k]
      /\ \A k \in DOMAIN pending' \ DOMAIN pending : pending'[k].firstSent = now
  BY <1>2, AddedCommands
<1>6. \A k \in Numbered : k \notin keys
  BY <1>1 DEF Numbered, NextKeys
<1>7. ASSUME NoSendFailed, NEW k \in DOMAIN pending PROVE O' <= k + SequenceSize
  <2>1. k \in Nat /\ k < O /\ O <= k + SequenceSize
    BY <1>1, <1>7 DEF NumberedInv, Numbered
  <2>2. k + SequenceSize \notin keys
    <3>1. SUFFICES ASSUME k + SequenceSize \in keys PROVE FALSE
      OBVIOUS
    <3>2. k + SequenceSize \in Nat
      BY <1>1, <2>1
    <3>3. Id(k + SequenceSize) = Id(k)
      BY <2>1, <3>2, IdsRepeat
    <3> HIDE DEF keys
    <3> QED BY <3>1, <3>3 DEF AddThrows, keys
  <2> QED BY <1>1, <1>3, <2>1, <2>2 DEF NextKeys
<1>8. \A k \in keys : O + n <= k + SequenceSize
  <2>1. n <= SequenceSize
    <3>1. SUFFICES ASSUME n > SequenceSize PROVE FALSE
      BY <1>1
    <3>2. DOMAIN pending' = DOMAIN pending \union keys /\ \A j, k \in DOMAIN pending' : Id(j) = Id(k) => j = k
      BY <1>2, AddKeepsIdsDistinct
    <3>3. O \in keys /\ O + SequenceSize \in keys /\ O + SequenceSize \in Nat
      BY <1>1, <3>1 DEF NextKeys
    <3>4. Id(O) = Id(O + SequenceSize) /\ O # O + SequenceSize
      BY <1>1, <3>3, IdsRepeat
    <3> HIDE DEF keys, O
    <3> QED BY <3>2, <3>3, <3>4
  <2> QED BY <1>1, <2>1 DEF NextKeys
<1> HIDE DEF keys
<1>9. ASSUME NoSendFailed, NEW k \in Numbered, NEW t, SentOnce(k, t) PROVE SentOnce(k, t)'
  <2>1. k \notin keys
    BY <1>6
  <2> QED BY <1>5, <1>9, <2>1 DEF SentOnce
<1>10. ASSUME NoSendFailed, NEW k \in keys PROVE k \notin DOMAIN pending
  BY <1>6, <1>10 DEF NumberedInv
<1>11. ASSUME NoSendFailed, NEW k \in keys, NEW t, t = now PROVE SentOnce(k, t)'
  BY <1>5, <1>10, <1>11 DEF SentOnce
<1>12. ASSUME NoSendFailed, NEW packet \in network'
       PROVE  packet.key \in Numbered' /\ SentOnce(packet.key, packet.sentAt)'
  <2>1. CASE packet \in network
    BY <1>3, <1>9, <1>12, <2>1 DEF NumberedInv
  <2>2. CASE packet \notin network
    <3>1. packet.key \in keys /\ packet.sentAt = now
      BY <1>2, <2>2
    <3> QED BY <1>3, <1>11, <1>12, <3>1
  <2> QED BY <2>1, <2>2
<1>13. ASSUME NoSendFailed, NEW i \in 1 .. Len(acks')
       PROVE  acks'[i].key \in Numbered' /\ SentOnce(acks[i].key, acks[i].sentAt)'
  BY <1>2, <1>3, <1>9, <1>13 DEF NumberedInv
<1>14. ASSUME NoSendFailed
       PROVE  DOMAIN pending' \subseteq Numbered' /\ \A k \in DOMAIN pending' : O' <= k + SequenceSize
  BY <1>3, <1>5, <1>7, <1>8, <1>14 DEF NumberedInv
<1> QED BY <1>2, <1>4, <1>12, <1>13, <1>14 DEF NumberedInv, SentOnce

(* There is a next command for SendFails to fail with. *)
LEMMA NextCommandsExist ==
  ASSUME MatchInv
  PROVE  NextCommands(1) # {}
<1>1. OutgoingKey \in NextKeys(1)
  <2>1. OutgoingKey \in Int
    BY SendFacts DEF MatchInv
  <2> QED BY <2>1 DEF NextKeys
<1> QED BY <1>1 DEF NextCommands

LEMMA NumberedKept ==
  ASSUME MatchInv, ClockInv, NumberedInv, [Next]_vars
  PROVE  NumberedInv'
<1> USE DEF timerVars, loopVars, loginVars, queueVars, historyVars, serverVars
<1>1. ASSUME UNCHANGED <<outgoing, failed>>
      PROVE  OutgoingKey' = OutgoingKey /\ Numbered' = Numbered /\ (NoSendFailed' <=> NoSendFailed)
  BY <1>1 DEF OutgoingKey, Numbered, NoSendFailed
<1>2. ASSUME UNCHANGED <<outgoing, failed, network, acks>>, DOMAIN pending' \subseteq DOMAIN pending,
             \A k \in DOMAIN pending' : pending'[k] = pending[k]
      PROVE  NumberedInv'
  BY <1>1, <1>2 DEF NumberedInv, SentOnce
<1>3. ASSUME NEW n \in Nat, n >= 1, SendCommand(n) PROVE NumberedInv'
  <2>1. CASE AddThrows(NextKeys(n))
    BY <1>2, <1>3, <2>1 DEF SendCommand
  <2>2. CASE ~AddThrows(NextKeys(n))
    BY <1>3, <2>2, SentCommands
  <2> QED BY <2>1, <2>2
<1>4. ASSUME NEW n \in 1 .. MaxInitFragments, Login(n) PROVE NumberedInv'
  BY <1>3, <1>4, SendFacts DEF Login
<1>5. CASE Submit
  BY <1>3, <1>5 DEF Submit
<1>6. CASE SendFails
  <2>1. failed' = failed \union NextCommands(1)
    BY <1>6 DEF SendFails
  <2> QED BY <2>1, NextCommandsExist DEF NumberedInv, NoSendFailed
<1>7. ASSUME NEW packet \in network, ServerReceive(packet) PROVE NumberedInv'
  <2> DEFINE ack == [key |-> packet.key, sentAt |-> packet.sentAt]
  <2>1. /\ acks' = Append(acks, ack)
        /\ UNCHANGED <<outgoing, failed, pending, network>>
    BY <1>7 DEF ServerReceive
  <2>2. acks \in Seq([key : Nat, sentAt : Nat]) /\ ack \in [key : Nat, sentAt : Nat]
    BY DEF MatchInv
  <2>3. /\ Len(acks') = Len(acks) + 1 /\ Len(acks) \in Nat
        /\ \A i \in 1 .. Len(acks) : acks'[i] = acks[i]
        /\ acks'[Len(acks) + 1] = ack
    BY <2>1, <2>2
  <2>4. ASSUME NoSendFailed, NEW i \in 1 .. Len(acks')
        PROVE  acks'[i].key \in Numbered /\ SentOnce(acks'[i].key, acks'[i].sentAt)
    <3>1. CASE i \in 1 .. Len(acks)
      BY <2>3, <2>4, <3>1 DEF NumberedInv
    <3>2. CASE i = Len(acks) + 1
      <4>1. acks'[i].key = packet.key /\ acks'[i].sentAt = packet.sentAt
        BY <2>3, <3>2
      <4> QED BY <2>4, <4>1 DEF NumberedInv
    <3> QED BY <2>3, <3>1, <3>2
  <2> QED BY <1>1, <2>1, <2>4 DEF NumberedInv, SentOnce
<1>8. ASSUME NEW i \in 1 .. Len(acks), HandleAck(i) PROVE NumberedInv'
  <2>1. /\ UNCHANGED <<outgoing, failed, network, acks>>
        /\ pending' = pending \/ \E keys \in SUBSET DOMAIN pending : pending' = Restricted(pending, keys)
    BY <1>8 DEF HandleAck, Acknowledge
  <2> QED BY <1>2, <2>1 DEF Restricted
<1>9. CASE InitServer
  <2>1. /\ UNCHANGED <<outgoing, failed, network, acks>>
        /\ \E keys \in SUBSET DOMAIN pending : pending' = Restricted(pending, keys)
    BY <1>9 DEF InitServer, Acknowledge
  <2> QED BY <1>2, <2>1 DEF Restricted
<1>10. CASE Poll
  <2>1. UNCHANGED <<outgoing, failed, acks>> /\ (CollectDue \/ UNCHANGED <<pending, network>>)
    BY <1>10 DEF Poll, ProcessTimers
  <2>2. CASE CollectDue
    <3>1. /\ DOMAIN pending' = DOMAIN pending
          /\ \A k \in DOMAIN pending :
               pending'[k] = IF k \in Due THEN Retried(pending[k]) ELSE pending[k]
          /\ network' = network \union
               {[key |-> k, payload |-> pending[k].payload, sentAt |-> now] : k \in Due}
      BY <2>2 DEF CollectDue
    <3>2. \A k \in Due : pending'[k].retransmitted
      <4> SUFFICES ASSUME NEW k \in Due PROVE pending'[k].retransmitted
        OBVIOUS
      <4>1. k \in DOMAIN pending /\ pending[k] \in PendingCommand /\ now \in Nat
        BY DEF Due, ClockInv
      <4> QED BY <3>1, <4>1, RetriedTimes
    <3>3. ASSUME NEW k, NEW t, SentOnce(k, t) \/ k \in Due PROVE SentOnce(k, t)'
      BY <3>1, <3>2, <3>3 DEF SentOnce
    <3>4. ASSUME NoSendFailed, NEW packet \in network'
          PROVE  packet.key \in Numbered /\ SentOnce(packet.key, packet.sentAt)'
      <4>1. CASE packet \in network
        BY <3>3, <3>4, <4>1 DEF NumberedInv
      <4>2. CASE packet \notin network
        <5>1. packet.key \in Due /\ packet.key \in DOMAIN pending
          BY <3>1, <4>2 DEF Due
        <5> QED BY <3>3, <3>4, <5>1 DEF NumberedInv
      <4> QED BY <4>1, <4>2
    <3>5. ASSUME NoSendFailed, NEW i \in 1 .. Len(acks)
          PROVE  acks[i].key \in Numbered /\ SentOnce(acks[i].key, acks[i].sentAt)'
      <4>1. acks[i].key \in Numbered /\ SentOnce(acks[i].key, acks[i].sentAt)
        BY <3>5 DEF NumberedInv
      <4> QED BY <2>1, <3>1, <3>2, <4>1 DEF SentOnce
    <3> QED BY <1>1, <2>1, <3>1, <3>4, <3>5 DEF NumberedInv, SentOnce
  <2> QED BY <1>2, <2>1, <2>2
<1>11. CASE \/ TransportError \/ SetConnected \/ ReceiveOther \/ WaitEnds \/ SessionEnded \/ Tick
            \/ (\E ping \in pings : HandlePong(ping)) \/ UNCHANGED vars
  <2>1. UNCHANGED <<outgoing, failed, network, acks, pending>>
    BY <1>11 DEF TransportError, SetConnected, ReceiveOther, WaitEnds, SessionEnded, Tick, HandlePong, vars
  <2> QED BY <1>2, <2>1
<1> QED BY <1>4, <1>5, <1>6, <1>7, <1>8, <1>9, <1>10, <1>11 DEF Next

(* An Ack that is a sample answers the one transmission of its command, and  *)
(* a Pong that is one answers the pending Ping.                              *)
LEMMA RttKept ==
  ASSUME MatchInv, ClockInv, NumberedInv, PingInv, RttIsRoundTrip, [Next]_vars
  PROVE  RttIsRoundTrip'
<1> USE DEF timerVars, loopVars, loginVars, queueVars, historyVars, serverVars
<1>1. ASSUME rtt' = rtt, UNCHANGED failed PROVE RttIsRoundTrip'
  BY <1>1 DEF RttIsRoundTrip, NoSendFailed
<1>2. ASSUME NEW n \in Nat, SendCommand(n) PROVE RttIsRoundTrip'
  BY <1>1, <1>2 DEF SendCommand
<1>3. ASSUME NEW n \in 1 .. MaxInitFragments, Login(n) PROVE RttIsRoundTrip'
  BY <1>2, <1>3, SendFacts DEF Login
<1>4. CASE Submit
  BY <1>2, <1>4 DEF Submit
<1>5. CASE SendFails
  <2>1. failed' = failed \union NextCommands(1)
    BY <1>5 DEF SendFails
  <2> QED BY <2>1, NextCommandsExist DEF NoSendFailed, RttIsRoundTrip
<1>6. ASSUME NEW i \in 1 .. Len(acks), HandleAck(i) PROVE RttIsRoundTrip'
  <2> DEFINE header == SequenceOf(i)
             a == acks[i].key
             match == Matches(Id(a))
             acked == CHOOSE k \in match : TRUE
  <2>1. /\ ResolveGeneration(expectedAck, header.packetId) = header.generationId
        /\ \A p : ~(Cardinality(Matches(p)) > 1)
    BY <1>6, HandleAckResolves
  <2>2. /\ UNCHANGED failed /\ OutgoingKey + MaxInitFragments <= a + SequenceSize + 1
        /\ \/ rtt' = rtt
           \/ /\ match # {} /\ ~pending[acked].retransmitted
              /\ rtt' = [sample |-> now - pending[acked].firstSent, trip |-> now - acks[i].sentAt]
    BY <1>6, <2>1 DEF HandleAck
  <2> SUFFICES ASSUME NoSendFailed, match # {}, ~pending[acked].retransmitted,
                      rtt' = [sample |-> now - pending[acked].firstSent, trip |-> now - acks[i].sentAt]
               PROVE  rtt'.sample = rtt'.trip
    BY <1>1, <2>2 DEF RttIsRoundTrip, NoSendFailed
  <2>3. acked \in DOMAIN pending /\ Id(acked) = Id(a)
    BY DEF Matches
  <2> HIDE DEF acked
  <2>4. /\ a \in Numbered /\ acked \in Numbered /\ OutgoingKey <= acked + SequenceSize
        /\ SentOnce(a, acks[i].sentAt)
    BY <2>3 DEF NumberedInv
  <2>5. /\ a \in Nat /\ acked \in Nat /\ a < OutgoingKey /\ acked < OutgoingKey /\ OutgoingKey \in Nat
        /\ SequenceSize \in Nat /\ MaxInitFragments \in Nat /\ MaxInitFragments >= 1
    <3>1. OutgoingKey \in Nat /\ FirstKey \in Nat /\ SequenceSize \in Nat
          /\ MaxInitFragments \in Nat /\ MaxInitFragments >= 1
      BY SendFacts, SendAssumption DEF MatchInv
    <3> HIDE DEF a
    <3> QED BY <2>4, <3>1 DEF Numbered
  <2>6. acked = a
    <3>1. ~(acked < a)
      <4>1. acked < a => acked + SequenceSize <= a
        BY <2>3, <2>5, IdsRepeat
      <4> QED BY <2>4, <2>5, <4>1
    <3>2. ~(a < acked)
      <4>1. a < acked => a + SequenceSize <= acked
        BY <2>3, <2>5, IdsRepeat
      <4> QED BY <2>2, <2>5, <4>1
    <3> QED BY <2>5, <3>1, <3>2
  <2>7. acks[i].sentAt = pending[acked].firstSent
    BY <2>3, <2>4, <2>6 DEF SentOnce
  <2> QED BY <2>7
<1>7. ASSUME NEW ping \in pings, HandlePong(ping) PROVE RttIsRoundTrip'
  <2>1. /\ UNCHANGED failed
        /\ \A later \in pings : later.packetId = ping.packetId => later.sentAt <= ping.sentAt
        /\ \/ rtt' = rtt
           \/ /\ pendingPing # NoPing /\ pendingPing.packetId = ping.packetId
              /\ rtt' = [sample |-> now - pendingPing.sentAt, trip |-> now - ping.sentAt]
    BY <1>7 DEF HandlePong
  <2> SUFFICES ASSUME pendingPing # NoPing, pendingPing.packetId = ping.packetId,
                      rtt' = [sample |-> now - pendingPing.sentAt, trip |-> now - ping.sentAt]
               PROVE  rtt'.sample = rtt'.trip
    BY <1>1, <2>1 DEF RttIsRoundTrip
  <2>2. pendingPing \in pings /\ ping.sentAt <= pendingPing.sentAt
    BY DEF PingInv
  <2>3. pendingPing.sentAt <= ping.sentAt
    BY <2>1, <2>2
  <2>4. pendingPing.sentAt \in 0 .. now /\ ping.sentAt \in 0 .. now /\ now \in Nat
    BY <2>2 DEF PingInv, ClockInv
  <2>5. pendingPing.sentAt = ping.sentAt
    BY <2>2, <2>3, <2>4
  <2> QED BY <2>5
<1>8. CASE TransportError \/ (\E packet \in network : ServerReceive(packet)) \/ InitServer \/ SetConnected
  BY <1>1, <1>8 DEF TransportError, ServerReceive, InitServer, SetConnected
<1>9. CASE ReceiveOther \/ Poll \/ WaitEnds \/ SessionEnded \/ Tick \/ UNCHANGED vars
  BY <1>1, <1>9 DEF ReceiveOther, Poll, WaitEnds, SessionEnded, Tick, vars
<1> QED BY <1>3, <1>4, <1>5, <1>6, <1>7, <1>8, <1>9 DEF Next

-----------------------------------------------------------------------------
TimeInv == MatchInv /\ ClockInv /\ RetryInv
TripInv == TimeInv /\ NumberedInv /\ PingInv /\ RttIsRoundTrip
QuietInv == TimeInv /\ AnsweredInv /\ SilenceInv

LEMMA TimeInvInit ==
  ASSUME Init
  PROVE  TripInv /\ QuietInv
<1>1. MatchInv
  BY MatchInvInit
<1>2. DOMAIN pending = {} /\ pending = EmptyFunction /\ network = {} /\ acks = <<>> /\ pings = {}
      /\ now = 0 /\ waiting = FALSE /\ until = MaxWork /\ failed = {} /\ phase = "bootstrapped"
      /\ pendingPing = NoPing
      /\ lastReceiveAt = 0 /\ lastSentAt = 0 /\ rtt = [sample |-> 0, trip |-> 0]
  BY DEF Init, EmptyFunction
<1>3. pending = [k \in DOMAIN pending |-> pending[k]]
  BY <1>2 DEF EmptyFunction
<1>4. ClockInv
  <2>1. now \in Nat /\ lastReceiveAt \in 0 .. now /\ lastSentAt \in 0 .. now
        /\ until \in Nat /\ now <= until /\ until <= now + MaxWork
    <3>1. MaxWork \in Nat
      BY TimeFacts
    <3>2. now = 0 /\ lastReceiveAt = 0 /\ lastSentAt = 0
      BY <1>2
    <3>3. until = MaxWork
      BY <1>2
    <3> QED BY <3>1, <3>2, <3>3
  <2>2. \A k \in DOMAIN pending : pending[k] \in PendingCommand
    BY <1>2
  <2>3. waiting \in BOOLEAN
    BY <1>2
  <2> QED BY <1>2, <1>3, <2>1, <2>2, <2>3 DEF ClockInv
<1>5. RetryInv /\ PingInv
  BY <1>2 DEF RetryInv, PingInv
<1>6. ~Connected
  BY <1>2 DEF Connected
<1>7. AnsweredInv /\ SilenceInv
  BY <1>6 DEF AnsweredInv, SilenceInv
<1>8. NumberedInv /\ RttIsRoundTrip
  BY <1>2 DEF NumberedInv, RttIsRoundTrip
<1> QED BY <1>1, <1>4, <1>5, <1>7, <1>8 DEF TimeInv, TripInv, QuietInv

LEMMA TimeInvNext == TimeInv /\ [Next]_vars => TimeInv'
<1> SUFFICES ASSUME TimeInv, [Next]_vars PROVE TimeInv'
  OBVIOUS
<1> QED BY MatchInvNext, ClockKept DEF TimeInv

LEMMA TripInvNext == TripInv /\ [Next]_vars => TripInv'
<1> SUFFICES ASSUME TripInv, [Next]_vars PROVE TripInv'
  OBVIOUS
<1> QED BY TimeInvNext, NumberedKept, PingKept, RttKept DEF TripInv, TimeInv

(* Every pending command is sent again within MaxRetryDelay and expires at   *)
(* CommandTimeout, but for the work in progress (CollectDue, NextDeadline,   *)
(* Poll): no wait outlasts a deadline, whatever the delays are and however   *)
(* commands, datagrams, Acks and time interleave.                            *)
THEOREM CommandsAreRetried == Spec => []RetriesInTime
<1>1. ASSUME TimeInv, NEW k \in DOMAIN pending
      PROVE  /\ now <= pending[k].nextRetry + MaxWork
             /\ now <= pending[k].firstSent + CommandTimeout + MaxWork
  <2>1. /\ now \in Nat /\ until \in Nat /\ now <= until /\ waiting \in BOOLEAN
        /\ pending[k].nextRetry \in Nat /\ pending[k].firstSent \in Nat
    BY <1>1 DEF TimeInv, ClockInv, PendingCommand
  <2>2. MaxWork \in Nat /\ CommandTimeout \in Nat
    BY TimeFacts
  <2>3. /\ until <= pending[k].nextRetry + (IF waiting THEN 0 ELSE MaxWork)
        /\ until <= pending[k].firstSent + CommandTimeout + (IF waiting THEN 0 ELSE MaxWork)
    BY <1>1 DEF TimeInv, RetryInv
  <2>4. CASE waiting
    BY <2>1, <2>2, <2>3, <2>4
  <2>5. CASE ~waiting
    BY <2>1, <2>2, <2>3, <2>5
  <2> QED BY <2>4, <2>5
<1>2. TimeInv => RetriesInTime
  BY <1>1 DEF RetriesInTime
<1>3. Init => TimeInv
  BY TimeInvInit DEF TripInv
<1> QED BY <1>2, <1>3, TimeInvNext, PTL DEF Spec

(* ProcessTimers and Poll never leave a connected session that hears nothing *)
(* without a question to the server for longer than LongestSilence, however  *)
(* sends fail and commands hold the Pings back; what the thread does between *)
(* two waits must only not last longer than PingInterval (1 s).              *)
THEOREM SilenceIsAlwaysProbed ==
  ASSUME MaxWork <= PingInterval
  PROVE  Spec => []SilenceIsProbed
<1>1. ASSUME QuietInv PROVE SilenceIsProbed
  <2> SUFFICES ASSUME Running, Connected
               PROVE  now - Max({lastReceiveAt, lastSentAt}) <= LongestSilence
    BY DEF SilenceIsProbed
  <2>1. /\ now \in Nat /\ lastReceiveAt \in Nat /\ lastSentAt \in Nat /\ until \in Nat /\ now <= until
        /\ waiting \in BOOLEAN
    BY <1>1 DEF QuietInv, TimeInv, ClockInv
  <2>2. /\ PingInterval \in Nat /\ PollWait \in Nat /\ MaxWork \in Nat /\ InitialRetryDelay \in Nat
        /\ ProbeDelay \in Nat /\ LongestSilence = ProbeDelay + MaxWork
        /\ PingInterval + PollWait + MaxWork + InitialRetryDelay <= ProbeDelay
    BY TimeFacts, ProbeDelayFacts
  <2>3. now <= lastReceiveAt + (ProbeDelay + MaxWork) \/ now <= lastSentAt + (ProbeDelay + MaxWork)
    <3>1. CASE DOMAIN pending = {}
      <4> DEFINE idle == PingInterval + PollWait + (IF waiting THEN 0 ELSE MaxWork)
      <4>1. until <= lastReceiveAt + idle \/ until <= lastSentAt + idle
        BY <1>1, <3>1 DEF QuietInv, SilenceInv
      <4>2. idle \in Nat /\ idle <= ProbeDelay
        BY <2>1, <2>2
      <4> HIDE DEF idle
      <4> QED BY <2>1, <2>2, <4>1, <4>2
    <3>2. CASE DOMAIN pending # {}
      <4>1. PICK k \in DOMAIN pending : \/ pending[k].nextRetry <= lastReceiveAt + ProbeDelay
                                        \/ pending[k].nextRetry <= lastSentAt + ProbeDelay
        BY <1>1, <3>2 DEF QuietInv, SilenceInv
      <4>2. until <= pending[k].nextRetry + (IF waiting THEN 0 ELSE MaxWork)
            /\ pending[k].nextRetry \in Nat
        BY <1>1 DEF QuietInv, TimeInv, RetryInv, ClockInv, PendingCommand
      <4>3. until <= pending[k].nextRetry + MaxWork
        BY <2>1, <2>2, <4>2
      <4> QED BY <2>1, <2>2, <4>1, <4>2, <4>3
    <3> QED BY <3>1, <3>2
  <2>4. \E m \in {lastReceiveAt, lastSentAt} : \A y \in {lastReceiveAt, lastSentAt} : m >= y
    BY <2>1
  <2>5. /\ Max({lastReceiveAt, lastSentAt}) \in {lastReceiveAt, lastSentAt}
        /\ Max({lastReceiveAt, lastSentAt}) >= lastReceiveAt
        /\ Max({lastReceiveAt, lastSentAt}) >= lastSentAt
    BY <2>4 DEF Max
  <2> HIDE DEF LongestSilence, ProbeDelay
  <2> QED BY <2>1, <2>2, <2>3, <2>5
<1>2. Init => QuietInv
  BY TimeInvInit
<1>3. QuietInv /\ [Next]_vars => QuietInv'
  <2> SUFFICES ASSUME QuietInv, [Next]_vars PROVE QuietInv'
    OBVIOUS
  <2>1. TimeInv' /\ ClockInv' /\ RetryInv'
    BY TimeInvNext DEF QuietInv, TimeInv
  <2> QED BY <2>1, AnsweredKept, SilenceKept DEF QuietInv, TimeInv
<1>4. QuietInv => SilenceIsProbed
  BY <1>1
<1> QED BY <1>2, <1>3, <1>4, PTL DEF Spec

(* RecordRtt measures round trips of one transmission and its own answer:    *)
(* Karn's rule in HandleAck and the pending Ping in HandlePong are enough,   *)
(* with ids of any width, while no Send has failed.                          *)
THEOREM RttIsMeasured == Spec => []RttIsRoundTrip
<1>1. TripInv => RttIsRoundTrip
  BY DEF TripInv
<1>2. Init => TripInv
  BY TimeInvInit
<1> QED BY <1>1, <1>2, TripInvNext, PTL DEF Spec
=============================================================================
