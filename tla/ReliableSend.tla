---------------------------- MODULE ReliableSend ----------------------------
(***************************************************************************)
(* The sending half of the Command stream and the keepalive: SendCommand,  *)
(* ReliableCommandQueue, HandleAck, HandlePong and ProcessTimers of         *)
(* SessionTransport, with the login that numbers the first command.         *)
(*                                                                         *)
(* The server is external: it keeps the first packet it gets with a key,    *)
(* and answers each one, duplicates too, with the next Ack of its own       *)
(* numbering.  A packet in flight may arrive any number of times, in any    *)
(* order, late or never, as long as its packet id has not been used again.  *)
(*                                                                         *)
(* One thread does it all.  It sends, handles what it received and reads    *)
(* the timers in a moment it is awake, which lasts MaxWork at most; then it *)
(* waits for a datagram, or for Wake, until the moment Poll or              *)
(* ReceiveCommand worked out from NextDeadline.  Time passes in both.       *)
(***************************************************************************)
EXTENDS Sequence, FiniteSets, FiniteSetsExt, SequencesExt

CONSTANTS MaxPendingCommands,  (* ReliableCommandQueue: 1024                  *)
          InitialRetryDelay,   (* 500 ms                                      *)
          MaxRetryDelay,       (* 4000 ms                                     *)
          CommandTimeout,      (* 30 s                                        *)
          PingInterval,        (* SessionTransport: 1 s                       *)
          ReceiveTimeout,      (* 30 s                                        *)
          PollWait,            (* Connection::Run: 50 ms, or 250 ms           *)
          ReceiveWait,         (* SessionTransport::ReceiveCommand: 1 s       *)
          MaxWork,             (* bound: what the thread does between waits   *)
          MaxInitFragments,    (* packets clientinit may need                 *)
          TransportFails,      (* BOOLEAN: can Transport::Send throw          *)
          MaxPackets,          (* bound: Command packets of the session       *)
          MaxAcks,             (* bound: acknowledgements of the session      *)
          MaxTime              (* bound: on the clock                         *)

(* clientek was Command packet 1, so clientinit is packet 2; the Ack that    *)
(* answered clientek was number 0.                                           *)
FirstKey == 2
FirstAck == 1

ASSUME SendAssumption ==
  /\ MaxPendingCommands \in Nat \ {0}
  /\ MaxPendingCommands < SequenceSize
  /\ InitialRetryDelay \in Nat \ {0}
  /\ MaxRetryDelay \in Nat /\ MaxRetryDelay >= InitialRetryDelay
  /\ CommandTimeout \in Nat /\ CommandTimeout > MaxRetryDelay
  /\ PingInterval \in Nat \ {0}
  /\ ReceiveTimeout \in Nat /\ ReceiveTimeout > PingInterval
  /\ PollWait \in Nat \ {0} /\ ReceiveWait \in Nat \ {0}
  /\ MaxWork \in Nat
  /\ MaxInitFragments \in Nat \ {0}
  /\ TransportFails \in BOOLEAN
  /\ MaxPackets \in Nat
  /\ MaxAcks \in Nat
  /\ FirstKey + MaxPackets < SequenceSize * (MaxGeneration + 1)
  /\ FirstAck + MaxAcks < SequenceSize * (MaxGeneration + 1)
  /\ MaxTime \in Nat

VARIABLES
  now,            (* Clock::now()                                            *)
  waiting,        (* the thread is in WaitReadable                           *)
  until,          (* when the wait, or the work between two waits, is over   *)
  phase,          (* how far Session::Login is; m_Connected is the last one  *)
  status,         (* "running", or how the session ended                     *)
  outgoing,       (* m_Sequences.Outgoing( Command )                         *)
  pending,        (* m_ReliableCommands.m_Pending, by key                    *)
  firstCommand,   (* m_FirstCommandPacketId                                  *)
  clientInit,     (* clientInitPacketId: the last packet of clientinit       *)
  expectedAck,    (* m_Sequences.Incoming( Ack )                             *)
  pendingPing,    (* m_PendingPing                                           *)
  pingId,         (* m_Sequences.Outgoing( Ping ).packetId                   *)
  lastReceiveAt,  (* m_LastReceiveAt                                         *)
  attempts,       (* history: packets SendCommandPacket was called for       *)
  submitted,      (* history: those whose SendCommand returned, with keys    *)
  failed,         (* history: those whose Send threw after Add               *)
  lastSentAt,     (* history: when the server was last sent something that   *)
                  (*   it answers                                            *)
  rtt,            (* history: the last RecordRtt, with the real round trip   *)
  network,        (* Command packets in flight to the server                 *)
  pings,          (* Pings in flight, with their Pongs                       *)
  received,       (* server: the packet it has for a key                     *)
  acks            (* server: the Acks it has sent, in order                  *)

timerVars == <<pendingPing, pingId, pings, lastReceiveAt>>
loopVars == <<now, waiting, until>>
loginVars == <<phase, clientInit>>
queueVars == <<outgoing, pending, firstCommand>>
historyVars == <<attempts, submitted, failed, lastSentAt, rtt>>
serverVars == <<received, acks>>
vars == <<loopVars, status, loginVars, queueVars, expectedAck, timerVars, historyVars, network,
          serverVars>>

None == -1
NoPing == [packetId |-> None, sentAt |-> None]

Connected == phase = "connected"
Running == status = "running"

OutgoingKey == SequenceKey(outgoing)
Id(key) == SequenceOf(key).packetId

EmptyFunction == [k \in {} |-> None]

Init ==
  /\ now = 0 /\ waiting = FALSE /\ until = MaxWork
  /\ phase = "bootstrapped" /\ status = "running"
  /\ outgoing = SequenceOf(FirstKey)
  /\ pending = EmptyFunction
  /\ firstCommand = None /\ clientInit = None
  /\ expectedAck = SequenceOf(FirstAck)
  /\ pendingPing = NoPing /\ pingId = 1 /\ lastReceiveAt = 0
  /\ attempts = 0 /\ submitted = {} /\ failed = {} /\ lastSentAt = 0
  /\ rtt = [sample |-> 0, trip |-> 0]
  /\ network = {} /\ pings = {}
  /\ received = EmptyFunction
  /\ acks = <<>>

Restricted(f, S) == [k \in S |-> f[k]]

(* The thread is between two waits ... *)
Working == Running /\ ~waiting

(* ... or its wait ends. *)
Awake == Running /\ waiting /\ waiting' = FALSE /\ until' = now + MaxWork /\ UNCHANGED now

-----------------------------------------------------------------------------
(* Mutant: Add does not look for a pending packet with the same id. *)
MutantOnlySize(keys) == Cardinality(DOMAIN pending) + Cardinality(keys) > MaxPendingCommands

(* ReliableCommandQueue::Add throws for one of the packets with these keys: *)
(* the queue is full, or the packet id has come round to one still pending.  *)
AddThrows(keys) ==
  \/ Cardinality(DOMAIN pending) + Cardinality(keys) > MaxPendingCommands
  \/ \E k \in keys, p \in DOMAIN pending : Id(k) = Id(p)

NewPending(payload) ==
  [payload |-> payload, firstSent |-> now, nextRetry |-> now + InitialRetryDelay,
   retryDelay |-> InitialRetryDelay, retransmitted |-> FALSE]

(* The packets with the next n keys: every call has a payload of its own. *)
NextKeys(n) == OutgoingKey .. OutgoingKey + n - 1
NextPayload(key) == attempts + 1 + key - OutgoingKey
NextCommands(n) == {[key |-> k, payload |-> NextPayload(k)] : k \in NextKeys(n)}

Add(n) ==
  pending' = [k \in DOMAIN pending \union NextKeys(n) |->
                IF k \in DOMAIN pending THEN pending[k] ELSE NewPending(NextPayload(k))]

(* SendCommand: every fragment is queued, sent and numbered.  Add throws out *)
(* of SendCommand, and that ends the session.                                *)
SendCommand(n) ==
  /\ Working
  /\ attempts + n <= MaxPackets
  /\ IF AddThrows(NextKeys(n))
     THEN /\ status' = "send queue"
          /\ UNCHANGED <<queueVars, attempts, submitted, lastSentAt, network>>
     ELSE /\ Add(n)
          /\ firstCommand' = IF firstCommand = None THEN outgoing.packetId ELSE firstCommand
          /\ outgoing' = SequenceOf(OutgoingKey + n)
          /\ attempts' = attempts + n
          /\ submitted' = submitted \union NextCommands(n)
          /\ lastSentAt' = now
          /\ network' = network \union
               {[key |-> k, payload |-> NextPayload(k), sentAt |-> now] : k \in NextKeys(n)}
          /\ UNCHANGED status
  /\ UNCHANGED <<loopVars, expectedAck, timerVars, failed, rtt, serverVars>>

(* Session::Login sends clientinit. *)
Login(n) ==
  /\ phase = "bootstrapped"
  /\ n <= MaxInitFragments
  /\ SendCommand(n)
  /\ phase' = "login"
  /\ clientInit' = Id(OutgoingKey + n - 1)

(* Any command after initserver. *)
Submit ==
  /\ phase \in {"synchronising", "connected"}
  /\ SendCommand(1)
  /\ UNCHANGED loginVars

(* Transport::Send throws under SetAudioState, and ProcessAudio catches it:  *)
(* the packet stays queued, its id is not used up, the session goes on.      *)
SendFails ==
  /\ TransportFails
  /\ Working /\ Connected
  /\ attempts < MaxPackets
  /\ ~AddThrows(NextKeys(1))
  /\ Add(1)
  /\ attempts' = attempts + 1
  /\ failed' = failed \union NextCommands(1)
  /\ UNCHANGED <<loopVars, status, loginVars, outgoing, firstCommand, expectedAck, timerVars,
                 submitted, lastSentAt, rtt, network, serverVars>>

(* Any other caller lets the exception through to Connection::Run. *)
TransportError ==
  /\ TransportFails
  /\ Running
  /\ status' = "transport error"
  /\ UNCHANGED <<loopVars, loginVars, queueVars, expectedAck, timerVars, historyVars, network,
                 serverVars>>

-----------------------------------------------------------------------------
(* The server gets a Command packet and answers it. *)
ServerReceive(packet) ==
  /\ Len(acks) < MaxAcks
  /\ received' = IF packet.key \in DOMAIN received THEN received
                 ELSE [k \in DOMAIN received \union {packet.key} |->
                         IF k = packet.key THEN packet.payload ELSE received[k]]
  /\ acks' = Append(acks, [key |-> packet.key, sentAt |-> packet.sentAt])
  /\ UNCHANGED <<loopVars, status, loginVars, queueVars, expectedAck, timerVars, historyVars, network>>

(* ProcessPacket ends with the note that the server is alive. *)
Received == lastReceiveAt' = IF Connected THEN now ELSE lastReceiveAt

(* Mutant: an Ack is taken to acknowledge all packets up to the one it names. *)
MutantCumulative(packetId) == {k \in DOMAIN pending : Id(k) <= packetId}

(* ReliableCommandQueue::Acknowledge: the packets it matches. *)
Matches(packetId) == {k \in DOMAIN pending : Id(k) = packetId}

Acknowledge(packetId) ==
  /\ pending' = Restricted(pending, DOMAIN pending \ Matches(packetId))
  /\ UNCHANGED <<outgoing, firstCommand>>

(* HandleAck for Ack number i.  The first one of a session is not read: it   *)
(* retires the first command.  A round trip counts only if the command was   *)
(* sent once.                                                                *)
HandleAck(i) ==
  LET header == SequenceOf(i)
      generationId == ResolveGeneration(expectedAck, header.packetId)
      first == generationId = 0 /\ header.packetId = FirstAck
      packetId == IF first THEN firstCommand ELSE Id(acks[i].key)
      match == Matches(packetId)
      acked == CHOOSE k \in match : TRUE
      fails == IF generationId # header.generationId THEN "bad generation"
               ELSE IF Cardinality(match) > 1 THEN "ambiguous"
               ELSE "running"
  IN  /\ Awake
      /\ i \in DOMAIN acks
      /\ OutgoingKey + MaxInitFragments <= acks[i].key + SequenceSize + 1
      /\ i < SequenceKey(expectedAck) + HalfSequenceSize
      /\ SequenceKey(expectedAck) < i + HalfSequenceSize
      /\ status' = fails
      /\ IF fails # "running"
         THEN UNCHANGED <<queueVars, expectedAck, lastReceiveAt, rtt>>
         ELSE /\ Acknowledge(packetId)
              /\ expectedAck' = IF i >= SequenceKey(expectedAck) THEN SequenceOf(i + 1) ELSE expectedAck
              /\ rtt' = IF match = {} \/ first \/ pending[acked].retransmitted THEN rtt
                        ELSE [sample |-> now - pending[acked].firstSent, trip |-> now - acks[i].sentAt]
              /\ Received
      /\ UNCHANGED <<loginVars, pendingPing, pingId, pings, attempts, submitted, failed, lastSentAt,
                     network, serverVars>>

(* initserver arrives: the server has all of clientinit.  Login confirms its *)
(* last packet, whatever became of its Ack.                                  *)
InitServer ==
  /\ Working
  /\ phase = "login"
  /\ FirstKey .. OutgoingKey - 1 \subseteq DOMAIN received
  /\ phase' = "synchronising"
  /\ Acknowledge(clientInit)
  /\ UNCHANGED <<loopVars, status, clientInit, expectedAck, timerVars, historyVars, network, serverVars>>

(* The initial state is complete. *)
SetConnected ==
  /\ Working
  /\ phase = "synchronising"
  /\ phase' = "connected"
  /\ lastReceiveAt' = now
  /\ pendingPing' = NoPing
  /\ UNCHANGED <<loopVars, status, clientInit, queueVars, expectedAck, pingId, pings, historyVars,
                 network, serverVars>>

(* HandlePong: only the Pong of the pending Ping is a round trip. *)
HandlePong(ping) ==
  LET matches == pendingPing # NoPing /\ pendingPing.packetId = ping.packetId
  IN  /\ Awake
      /\ \A later \in pings : later.packetId = ping.packetId => later.sentAt <= ping.sentAt
      /\ pendingPing' = IF matches THEN NoPing ELSE pendingPing
      /\ rtt' = IF matches THEN [sample |-> now - pendingPing.sentAt, trip |-> now - ping.sentAt]
                ELSE rtt
      /\ Received
      /\ UNCHANGED <<status, loginVars, queueVars, expectedAck, pingId, pings, attempts, submitted,
                     failed, lastSentAt, network, serverVars>>

(* Any other packet of the server: commands, voice, Pings. *)
ReceiveOther ==
  /\ Awake
  /\ Received
  /\ UNCHANGED <<status, loginVars, queueVars, expectedAck, pendingPing, pingId, pings,
                 historyVars, network, serverVars>>

-----------------------------------------------------------------------------
(* CollectDue *)
Expired == {k \in DOMAIN pending : now >= pending[k].firstSent + CommandTimeout}
Due == {k \in DOMAIN pending : now >= pending[k].nextRetry}

(* Mutant: a retransmission is not marked as one. *)
MutantUnmarked(p) ==
  LET delay == Min({2 * p.retryDelay, MaxRetryDelay})
  IN  [p EXCEPT !.retryDelay = delay, !.nextRetry = now + delay]

Retried(p) ==
  LET delay == Min({2 * p.retryDelay, MaxRetryDelay})
  IN  [p EXCEPT !.retransmitted = TRUE, !.retryDelay = delay, !.nextRetry = now + delay]

CollectDue ==
  /\ pending' = [k \in DOMAIN pending |-> IF k \in Due THEN Retried(pending[k]) ELSE pending[k]]
  /\ network' = network \union
       {[key |-> k, payload |-> pending[k].payload, sentAt |-> now] : k \in Due}

(* What ProcessTimers does about the Ping, once nothing else is pending. *)
PingAnswered == pendingPing # NoPing /\ lastReceiveAt > pendingPing.sentAt

(* Mutant: a Ping that got no answer is not followed by another. *)
MutantPingOnce == pendingPing = NoPing /\ now - lastReceiveAt >= PingInterval

PingDue ==
  IF pendingPing = NoPing THEN now - lastReceiveAt >= PingInterval
  ELSE ~PingAnswered /\ now - pendingPing.sentAt >= PingInterval

SendPing ==
  /\ pendingPing' = [packetId |-> pingId, sentAt |-> now]
  /\ pingId' = (pingId + 1) % SequenceSize
  /\ pings' = pings \union {[packetId |-> pingId, sentAt |-> now]}

Keepalive ==
  IF PingDue THEN SendPing
  ELSE /\ pendingPing' = IF PingAnswered THEN NoPing ELSE pendingPing
       /\ UNCHANGED <<pingId, pings>>

KeepaliveRuns == Connected /\ pending = EmptyFunction

(* ProcessTimers, when no command has expired. *)
ProcessTimers ==
  /\ CollectDue
  /\ IF KeepaliveRuns THEN Keepalive ELSE UNCHANGED <<pendingPing, pingId, pings>>
  /\ lastSentAt' = IF Due # {} \/ (KeepaliveRuns /\ PingDue) THEN now ELSE lastSentAt

Earliest(times) == {t \in times : \A u \in times : t <= u}

(* Mutant: the retries are waited for, but not the end of CommandTimeout. *)
MutantRetryOnly(queue) == Earliest({queue[k].nextRetry : k \in DOMAIN queue})

(* ReliableCommandQueue::NextDeadline: no moment while nothing is pending. *)
NextDeadline(queue) ==
  Earliest({queue[k].nextRetry : k \in DOMAIN queue} \union
           {queue[k].firstSent + CommandTimeout : k \in DOMAIN queue})

(* WaitTimeout of ReceiveCommand while logging in, the same in Poll later. *)
MaximumWait == IF Connected THEN PollWait ELSE ReceiveWait

(* Connection::SessionEnded *)
TimedOut == Connected /\ now - lastReceiveAt >= ReceiveTimeout

(* Connection::Poll and the loop of ReceiveCommand: the timers, then a wait  *)
(* for as long as the timers, as they are now, allow.                        *)
Poll ==
  /\ Working /\ phase # "bootstrapped"
  /\ ~TimedOut
  /\ IF Expired # {}
     THEN /\ status' = "not acknowledged"
          /\ UNCHANGED <<loopVars, pending, network, timerVars, lastSentAt>>
     ELSE /\ ProcessTimers
          /\ waiting' = TRUE
          /\ until' \in Earliest({now + MaximumWait} \union NextDeadline(pending'))
          /\ UNCHANGED <<now, status, lastReceiveAt>>
  /\ UNCHANGED <<loginVars, outgoing, firstCommand, expectedAck, attempts, submitted, failed, rtt,
                 serverVars>>

(* WaitReadable returns with no datagram: in time, or for Wake. *)
WaitEnds ==
  /\ Awake
  /\ UNCHANGED <<status, loginVars, queueVars, expectedAck, timerVars, historyVars, network,
                 serverVars>>

SessionEnded ==
  /\ Working
  /\ TimedOut
  /\ status' = "timeout"
  /\ UNCHANGED <<loopVars, loginVars, queueVars, expectedAck, timerVars, historyVars, network,
                 serverVars>>

Tick ==
  /\ Running
  /\ now < until /\ now < MaxTime
  /\ now' = now + 1
  /\ UNCHANGED <<waiting, until, status, loginVars, queueVars, expectedAck, timerVars, historyVars,
                 network, serverVars>>

Next ==
  \/ \E n \in 1 .. MaxInitFragments : Login(n)
  \/ Submit
  \/ SendFails
  \/ TransportError
  \/ \E packet \in network : ServerReceive(packet)
  \/ \E i \in 1 .. Len(acks) : HandleAck(i)
  \/ InitServer
  \/ SetConnected
  \/ \E ping \in pings : HandlePong(ping)
  \/ ReceiveOther
  \/ Poll
  \/ WaitEnds
  \/ SessionEnded
  \/ Tick

Spec == Init /\ [][Next]_vars

-----------------------------------------------------------------------------
(* The server has the command, or it is pending and will be sent again. *)
Kept(c) ==
  \/ c.key \in DOMAIN pending /\ pending[c.key].payload = c.payload
  \/ c.key \in DOMAIN received /\ received[c.key] = c.payload

(* The command went out under a number that an earlier one, whose Send       *)
(* threw, had taken to the server: the server drops it as a duplicate.       *)
NumberTaken(c) ==
  \E f \in failed : /\ f.key = c.key
                    /\ c.key \in DOMAIN received /\ received[c.key] = f.payload

(* The first Ack of the session answers another packet of clientinit than    *)
(* the first, the one HandleAck retires without reading the Ack.             *)
FirstAckMistaken(c) == c.key = FirstKey /\ Len(acks) > 0 /\ acks[1].key # FirstKey

(* A command whose SendCommand returned is not forgotten while the session   *)
(* lasts, whatever becomes of packets and Acks, in any fragmentation of      *)
(* clientinit and with sends that fail: two mistakes of numbering apart, it  *)
(* is at the server or pending.                                              *)
RetiredIsReceived ==
  Running => \A c \in submitted : Kept(c) \/ NumberTaken(c) \/ FirstAckMistaken(c)

(* An Ack names a packet id only, without its generation: still it can mean  *)
(* one pending packet at most, so Acknowledge never throws.                  *)
PendingIdsDistinct ==
  /\ \A j, k \in DOMAIN pending : Id(j) = Id(k) => j = k
  /\ status # "ambiguous"

(* ResolveGeneration finds the generation every Ack was sent in. *)
AckGenerationsResolve == status # "bad generation"

(* A pending command is sent again, or ends the session, as soon as the work *)
(* in progress lets Poll run after its retry or its expiry is due: no wait   *)
(* outlasts either, though commands are added, retried and acknowledged in   *)
(* between and the two deadlines of every command move apart.                *)
RetriesInTime ==
  Running => \A k \in DOMAIN pending :
    /\ now <= pending[k].nextRetry + MaxWork
    /\ now <= pending[k].firstSent + CommandTimeout + MaxWork

(* The longest a connected server goes without a question: an idle one is    *)
(* pinged at the first Poll after PingInterval, or by the first retry of a   *)
(* command whose Send failed in that very moment; a busy one is sent the     *)
(* retries.                                                                  *)
LongestSilence ==
  Max({PingInterval + PollWait + MaxWork + InitialRetryDelay, MaxRetryDelay}) + MaxWork

(* A connection that has heard nothing for a while is asking: ProcessTimers  *)
(* suppresses Pings while commands are pending and retires those that other  *)
(* traffic answered, yet never leaves the server without something to answer *)
(* for longer than that, well before ReceiveTimeout gives the server up.     *)
SilenceIsProbed ==
  Running /\ Connected => now - Max({lastReceiveAt, lastSentAt}) <= LongestSilence

(* Every packet Add has queued was sent and numbered by SendCommand. *)
NoSendFailed == failed = {}

(* RecordRtt samples real round trips: never the answer to one transmission  *)
(* timed from another, and never the Pong of an earlier Ping.  Once a Send   *)
(* has failed the id it left unused may come back (README, section 6).       *)
RttIsRoundTrip == NoSendFailed => rtt.sample = rtt.trip
=============================================================================
