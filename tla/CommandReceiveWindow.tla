------------------------ MODULE CommandReceiveWindow ------------------------
(***************************************************************************)
(* The receiving half of one reliable command stream (Command or           *)
(* CommandLow): SessionTransport::ProcessIncomingCommand and               *)
(* CommandReceiveWindow::Feed, fed by a TeamSpeak server through UDP.       *)
(*                                                                         *)
(* The server is external: it cuts commands into packets, keeps at most    *)
(* ServerWindow packets in front of the oldest one it has no              *)
(* acknowledgement of, and retransmits.  The network loses, duplicates,     *)
(* reorders and delays: any packet the server may still send, and any       *)
(* packet at most MaxPacketAge positions old, can arrive at any time and    *)
(* any number of times.                                                     *)
(*                                                                         *)
(* Position k of the stream is the packet with key k (Sequence.tla); the    *)
(* first packet of a session has key 1, as in PacketSequenceState.          *)
(***************************************************************************)
EXTENDS Sequence, Sequences, FiniteSets, SequencesExt

CONSTANTS MaxQueuedPackets,  (* CommandReceiveWindow::MaxQueuedPackets: 64    *)
          MaxCommandSize,    (* packet_limits::MaxCommandSize, in fragments   *)
          ServerWindow,      (* packets the server sends past an unacked one  *)
          MaxPacketAge,      (* how far behind a delayed duplicate can be     *)
          PlainSizes,        (* the server's commands: packets of a plain one *)
          CompressedSizes,   (*   and of a compressed one                     *)
          MaxPackets         (* bound: packets of the whole stream            *)

LastKey == SequenceSize * (MaxGeneration + 1) - 1

ASSUME WindowAssumption ==
  /\ MaxQueuedPackets \in Nat \ {0}
  /\ MaxQueuedPackets < HalfSequenceSize
  /\ ServerWindow \in 1 .. MaxQueuedPackets + 1
  /\ MaxPacketAge \in ServerWindow .. HalfSequenceSize - 1
  /\ MaxCommandSize \in Nat \ {0}
  /\ PlainSizes \subseteq Nat \ {0}
  /\ CompressedSizes \subseteq Nat \ {0}
  /\ MaxPackets \in Nat
  /\ MaxPackets < LastKey

VARIABLES
  sent,        (* server: packets of the stream, sent[k] has key k           *)
  commands,    (* server: the commands those packets carry                   *)
  acked,       (* server: keys it has an acknowledgement of                  *)
  acks,        (* network: acknowledgements in flight, by key                *)
  expected,    (* m_Sequences.Incoming( dataType )                           *)
  queued,      (* m_Queued: packets received ahead of their turn, by key     *)
  assembly,    (* m_Assembling, m_Compressed and m_Fragments                 *)
  ready,       (* m_ReadyCommands, nothing taken out                         *)
  processed,   (* history: packets handed to ProcessOrdered, by key          *)
  status       (* "running", or the exception that ended the session         *)

serverVars == <<sent, commands, acked>>
clientVars == <<expected, queued, assembly, ready, processed, status>>
vars == <<serverVars, acks, clientVars>>

Status == {"running", "bad generation", "outside window", "queue full",
           "too large", "generation overflow"}

Packet == [fragmented : BOOLEAN, compressed : BOOLEAN, data : Nat \X Nat]

Command == [data : Seq(Nat \X Nat), compressed : BOOLEAN]

NotAssembling == [assembling |-> FALSE, compressed |-> FALSE, fragments |-> <<>>]

ExpectedKey == SequenceKey(expected)

Keys == 1 .. Len(sent)

(* The part of the state Feed decides about; the assembly of commands comes *)
(* on top of it.                                                            *)
WindowTypeOK ==
  /\ sent \in Seq(Packet)
  /\ commands \in Seq(Command)
  /\ acked \subseteq Keys
  /\ acks \subseteq Keys
  /\ expected \in PacketSequence
  /\ queued \in [DOMAIN queued -> Packet]
  /\ processed \in [1 .. ExpectedKey - 1 -> Packet]
  /\ status \in Status

Init ==
  /\ sent = <<>> /\ commands = <<>> /\ acked = {} /\ acks = {}
  /\ expected = SequenceOf(1)
  /\ queued = [k \in {} |-> NotAssembling]
  /\ assembly = NotAssembling
  /\ ready = <<>>
  /\ processed = [k \in {} |-> NotAssembling]
  /\ status = "running"

-----------------------------------------------------------------------------
(* The server cuts its next command, number c, into n packets.  The first   *)
(* and the last of several carry the Fragmented flag, the first one says    *)
(* whether the whole command is compressed.                                 *)
Fragments(c, n, compressed) ==
  [j \in 1 .. n |-> [fragmented |-> n > 1 /\ j \in {1, n},
                     compressed |-> compressed /\ j = 1,
                     data       |-> <<c, j>>]]

ServerSendCommand(n, compressed) ==
  LET c == Len(commands) + 1
  IN  /\ Len(sent) + n <= MaxPackets
      /\ sent' = sent \o Fragments(c, n, compressed)
      /\ commands' = Append(commands, [data |-> [j \in 1 .. n |-> <<c, j>>],
                                       compressed |-> compressed])
      /\ UNCHANGED <<acked, acks, clientVars>>

(* An acknowledgement reaches the server. *)
ServerReceiveAck(k) ==
  /\ k \in acks
  /\ acked' = acked \union {k}
  /\ acks' = acks \ {k}
  /\ UNCHANGED <<sent, commands, clientVars>>

NetworkLosesAck(k) ==
  /\ k \in acks
  /\ acks' = acks \ {k}
  /\ UNCHANGED <<serverVars, clientVars>>

(* The packets that can arrive now: the server has sent them, and the       *)
(* network has not delayed them for longer than a packet lives.             *)
Deliverable(k) ==
  /\ k \in Keys
  /\ \A j \in Keys \ acked : k < j + ServerWindow
  /\ ExpectedKey <= k + MaxPacketAge

-----------------------------------------------------------------------------
(* Mutant: a command is decompressed if its last fragment says so. *)
MutantLastFragmentCompression(acc, packet) ==
  LET a == acc.assembly
      whole == Append(a.fragments, packet.data)
  IN  IF acc.tooLarge \/ Len(whole) > MaxCommandSize
      THEN [acc EXCEPT !.tooLarge = TRUE]
      ELSE IF a.assembling = packet.fragmented
      THEN [acc EXCEPT !.assembly = NotAssembling,
                       !.ready = Append(@, [data |-> whole, compressed |-> packet.compressed])]
      ELSE [acc EXCEPT !.assembly = [assembling |-> TRUE, fragments |-> whole,
                                     compressed |-> packet.compressed]]

(* ProcessOrdered: the next packet of the stream completes a command, is    *)
(* part of one, or makes it too large.  acc is the state of the assembly    *)
(* and what is ready so far.                                                *)
ProcessOrdered(acc, packet) ==
  LET a == acc.assembly
      whole == Append(a.fragments, packet.data)
      Emit(compressed) ==
        [assembly |-> NotAssembling, tooLarge |-> acc.tooLarge,
         ready |-> Append(acc.ready, [data |-> whole, compressed |-> compressed])]
  IN  IF acc.tooLarge \/ Len(whole) > MaxCommandSize
      THEN [acc EXCEPT !.tooLarge = TRUE]
      ELSE IF ~a.assembling /\ ~packet.fragmented THEN Emit(packet.compressed)
      ELSE IF a.assembling /\ packet.fragmented   THEN Emit(a.compressed)
      ELSE [acc EXCEPT !.assembly =
              [assembling |-> TRUE, fragments |-> whole,
               compressed |-> IF a.assembling THEN a.compressed ELSE packet.compressed]]

(* Where the drain loop of Feed stops: the first key after the expected one *)
(* that has no packet queued.                                               *)
FirstGap ==
  CHOOSE n \in ExpectedKey + 1 .. ExpectedKey + MaxQueuedPackets + 1 :
    /\ n \notin DOMAIN queued
    /\ \A m \in ExpectedKey + 1 .. n - 1 : m \in DOMAIN queued

(* The assembly after ProcessOrdered has seen a run of packets. *)
Assembled(run) ==
  FoldLeft(ProcessOrdered, [assembly |-> assembly, ready |-> ready, tooLarge |-> FALSE], run)

(* Mutant: the drained packets stay in m_Queued. *)
MutantKeepsDrained(packet) ==
  LET gap == FirstGap
      run == [i \in 1 .. gap - ExpectedKey |->
                IF i = 1 THEN packet ELSE queued[ExpectedKey + i - 1]]
  IN  /\ expected' = SequenceOf(gap)
      /\ assembly' = Assembled(run).assembly
      /\ ready' = Assembled(run).ready
      /\ processed' = [k \in 1 .. gap - 1 |->
                         IF k < ExpectedKey THEN processed[k] ELSE run[k - ExpectedKey + 1]]
      /\ UNCHANGED <<queued, status>>

(* Feed, packet in its turn: process it and the run queued behind it. *)
FeedExpected(packet) ==
  LET gap == FirstGap
      run == [i \in 1 .. gap - ExpectedKey |->
                IF i = 1 THEN packet ELSE queued[ExpectedKey + i - 1]]
      result == Assembled(run)
  IN  IF result.tooLarge \/ gap > LastKey
      THEN /\ status' = IF result.tooLarge THEN "too large" ELSE "generation overflow"
           /\ UNCHANGED <<expected, queued, assembly, ready, processed>>
      ELSE /\ expected' = SequenceOf(gap)
           /\ queued' = [k \in {j \in DOMAIN queued : j >= gap} |-> queued[k]]
           /\ assembly' = result.assembly
           /\ ready' = result.ready
           /\ processed' = [k \in 1 .. gap - 1 |->
                              IF k < ExpectedKey THEN processed[k] ELSE run[k - ExpectedKey + 1]]
           /\ UNCHANGED status

(* Feed, packet ahead of its turn: keep it unless it is already queued. *)
FeedAhead(key, packet) ==
  /\ status' = IF key - ExpectedKey > MaxQueuedPackets THEN "outside window"
               ELSE IF key \notin DOMAIN queued /\ Cardinality(DOMAIN queued) >= MaxQueuedPackets
                    THEN "queue full"
               ELSE "running"
  /\ queued' = IF status' = "running" /\ key \notin DOMAIN queued
               THEN [k \in DOMAIN queued \union {key} |-> IF k = key THEN packet ELSE queued[k]]
               ELSE queued
  /\ UNCHANGED <<expected, assembly, ready, processed>>

(* Mutant: a packet ahead of its turn is dropped, to be sent again. *)
MutantDropsAhead(key, packet) ==
  \/ key # ExpectedKey /\ UNCHANGED clientVars
  \/ key = ExpectedKey /\ FeedExpected(packet)

(* Mutant: no reorder check, any new packet is taken to be the expected one. *)
MutantNoReorder(key, packet) ==
  \/ key < ExpectedKey /\ UNCHANGED clientVars
  \/ key >= ExpectedKey /\ FeedExpected(packet)

(* Feed: a packet behind the expected one is a duplicate and is dropped. *)
Feed(key, packet) ==
  \/ key < ExpectedKey /\ UNCHANGED clientVars
  \/ key > ExpectedKey /\ FeedAhead(key, packet)
  \/ key = ExpectedKey /\ FeedExpected(packet)

(* Mutant: duplicates are not acknowledged a second time. *)
MutantAckOnce(k) ==
  acks' = IF k >= ExpectedKey THEN acks \union {k} ELSE acks

(* SendAck: every packet that authenticates is acknowledged, duplicates     *)
(* too, and before it is looked at any further.                             *)
SendAck(k) == acks' = acks \union {k}

(* ProcessIncomingCommand for the packet with key k.  DecryptServer derives *)
(* its key from the resolved generation: any but the one the server         *)
(* encrypted with fails to authenticate and throws.                         *)
ProcessIncomingCommand(k) ==
  LET header == SequenceOf(k)
      generationId == ResolveGeneration(expected, header.packetId)
      packetKey == SequenceKey([packetId |-> header.packetId, generationId |-> generationId])
  IN  /\ status = "running"
      /\ Deliverable(k)
      /\ IF generationId = header.generationId
         THEN SendAck(k) /\ Feed(packetKey, sent[k])
         ELSE /\ status' = "bad generation"
              /\ UNCHANGED <<acks, expected, queued, assembly, ready, processed>>
      /\ UNCHANGED serverVars

Next ==
  \/ \E n \in PlainSizes : ServerSendCommand(n, FALSE)
  \/ \E n \in CompressedSizes : ServerSendCommand(n, TRUE)
  \/ \E k \in Keys : ServerReceiveAck(k)
  \/ \E k \in Keys : NetworkLosesAck(k)
  \/ \E k \in Keys : ProcessIncomingCommand(k)

Spec == Init /\ [][Next]_vars

(* The server retransmits its oldest packet until it has the               *)
(* acknowledgement, and UDP delivers what is sent often enough.             *)
IsOldest(k) == k \in Keys \ acked /\ \A j \in Keys \ acked : k <= j

FairSpec ==
  /\ Spec
  /\ SF_vars(\E k \in Keys : IsOldest(k) /\ ProcessIncomingCommand(k))
  /\ SF_vars(\E k \in Keys : IsOldest(k) /\ ServerReceiveAck(k))

-----------------------------------------------------------------------------
(* Packets wait only inside the receive window: Feed never meets a full     *)
(* queue, and a queued packet is never behind the expected one, where       *)
(* nothing would take it out again.                                         *)
QueueInWindow == DOMAIN queued \subseteq ExpectedKey + 1 .. ExpectedKey + MaxQueuedPackets

(* The packets ProcessOrdered has seen are the server's, each exactly once  *)
(* and in order, across the wrap of packet ids and of the generation; those *)
(* that wait are the server's too.                                          *)
InOrderExactlyOnce ==
  /\ \A k \in 1 .. ExpectedKey - 1 : k \in Keys /\ processed[k] = sent[k]
  /\ \A k \in DOMAIN queued : k \in Keys /\ queued[k] = sent[k]

(* SendAck comes before Feed: still, no packet is acknowledged (and so      *)
(* never sent again) that the window does not hold or has not processed.    *)
AckedIsHeld ==
  status = "running" => acked \union acks \subseteq (1 .. ExpectedKey - 1) \union DOMAIN queued

(* A server that keeps to its window and a network without packets older    *)
(* than half a cycle never make ResolveGeneration, DecryptServer, Feed or   *)
(* Advance throw: a session that fails, fails in ProcessOrdered.            *)
NoWindowFailure == status \in {"running", "too large"}

Channel == INSTANCE CommandChannel WITH commands <- commands, ready <- ready

(* The window implements the promise: commands come out reassembled, with   *)
(* the compression of their first fragment, in order, exactly once.         *)
ImplementsChannel == Channel!Spec

(* Every command of a stream reaches Session in the end: a packet whose     *)
(* acknowledgement is lost is acknowledged again, so the server's window    *)
(* keeps moving, and nothing that waits in the queue is left there.         *)
EventuallyReady == <>[](status = "running" => Len(ready) = Len(commands))
=============================================================================
