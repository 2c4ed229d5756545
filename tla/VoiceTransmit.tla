--------------------------- MODULE VoiceTransmit ----------------------------
(***************************************************************************)
(* Microphone frames on their way to the server: three threads and a       *)
(* capture callback around AudioEngine.                                     *)
(*                                                                         *)
(*   the user interface   SetTransmitEnabled (/mute, /unmute), the capture  *)
(*                        monitor, speaker mute                             *)
(*   the audio callback   OnCapturedSamples fills the capture ring          *)
(*   the audio worker     ProcessCapture: gate, encode, outgoing ring       *)
(*   the network thread   NetworkRuntime::ProcessAudio: publish, send       *)
(*                                                                         *)
(* The threads share m_TransmitState, a flag with the number of times it    *)
(* has changed, and the two rings.  The last voice packet sent is           *)
(* remembered in wire, with what the server knew at that moment.            *)
(*                                                                         *)
(* The published state goes out as a reliable command (ReliableSend).  One  *)
(* whose Send throws stays queued under the next Command packet id without  *)
(* using it up, and is sent again from there; the command that takes the    *)
(* same id after its Ack is a duplicate to the server.                      *)
(***************************************************************************)
EXTENDS Naturals, Sequences

CONSTANTS CaptureQueueCapacity,   (* SpscRing: one slot stays free; 16        *)
          OutgoingQueueCapacity,  (* 16                                       *)
          HangoverFrames,         (* CaptureGate: 15                          *)
          TalkStartPackets,       (* 5                                        *)
          Monitors,               (* the CaptureMonitor modes in use          *)
          MaxFrames,              (* bound: frames captured                   *)
          MaxRevision,            (* bound: changes of m_TransmitState        *)
          MaxSettingChanges,      (* bound: changes of monitor or speakers    *)
          MaxSendFailures,        (* bound: failures of Transport::Send       *)
          WorkerMayFail           (* BOOLEAN: can the codec or backend throw  *)

ASSUME TransmitAssumption ==
  /\ CaptureQueueCapacity \in Nat /\ CaptureQueueCapacity >= 2
  /\ OutgoingQueueCapacity \in Nat /\ OutgoingQueueCapacity >= 2
  /\ HangoverFrames \in Nat /\ TalkStartPackets \in Nat
  /\ "off" \in Monitors /\ Monitors \subseteq {"off", "level", "loopback"}
  /\ MaxFrames \in Nat /\ MaxRevision \in Nat \ {0}
  /\ MaxSettingChanges \in Nat /\ MaxSendFailures \in Nat
  /\ WorkerMayFail \in BOOLEAN

VARIABLES
  transmit,        (* m_TransmitState: enabled and revision                  *)
  monitor,         (* m_CaptureMonitor                                       *)
  playbackMuted,   (* m_PlaybackMuted                                        *)
  available,       (* m_Available                                            *)
  capture,         (* m_CaptureQueue: is the frame over the threshold        *)
  outgoing,        (* m_OutgoingQueue                                        *)
  encodedDrops,    (* m_EncodedDrops # 0                                     *)
  worker,          (* the locals of Worker, and where it is                  *)
  network,         (* m_NetworkTransmitRevision, the m_Audio... members of   *)
                   (*   NetworkRuntime, and where ProcessAudio is            *)
  command,         (* the next Command packet id: is it pending, does the    *)
                   (*   server have it, and the audio state queued under it  *)
  published,       (* server: the last audio state it has taken              *)
  dropped,         (* history: it took the last one announced for a duplicate *)
  wire,            (* history: the last voice packet, with these two         *)
  frames,          (* bound counters                                         *)
  settingChanges,
  sendFailures

sharedVars == <<transmit, monitor, playbackMuted, available>>
ringVars == <<capture, outgoing, encodedDrops>>
serverVars == <<command, published, dropped, wire>>
boundVars == <<frames, settingChanges, sendFailures>>
vars == <<sharedVars, ringVars, worker, network, serverVars, boundVars>>

Unpublished == [hardware |-> FALSE, inputMuted |-> TRUE, outputMuted |-> FALSE, revision |-> 0]

Off == [enabled |-> FALSE, revision |-> 0]

(* The next packet id: not used so far; pending after a Send that threw, and *)
(* not at the server ("queued") or at the server too ("taken"); or no longer *)
(* pending, but used up at the server.                                       *)
CommandId(id) == [id |-> id, state |-> Unpublished]

NoFrame == [revision |-> 0, talkStart |-> FALSE, talkEnd |-> TRUE]

Init ==
  /\ transmit = [enabled |-> FALSE, revision |-> 1]
  /\ monitor = "off" /\ playbackMuted = FALSE /\ available = TRUE
  /\ capture = <<>> /\ outgoing = <<>> /\ encodedDrops = FALSE
  /\ worker = [pc |-> "sync", state |-> Off, monitor |-> "off", active |-> FALSE,
               hangover |-> 0, starts |-> 0]
  /\ network = [pc |-> "idle", seen |-> 0, state |-> Off, published |-> FALSE,
                available |-> FALSE, playbackMuted |-> FALSE]
  /\ command = CommandId("free") /\ published = Unpublished /\ dropped = FALSE
  /\ wire = [frame |-> NoFrame, published |-> Unpublished, dropped |-> FALSE]
  /\ frames = 0 /\ settingChanges = 0 /\ sendFailures = 0

-----------------------------------------------------------------------------
(* SetTransmitEnabled: no change, no new revision. *)
WithTransmit(enabled) ==
  transmit' = IF transmit.enabled = enabled THEN transmit
              ELSE [enabled |-> enabled, revision |-> transmit.revision + 1]

SetTransmitEnabled(enabled) ==
  /\ enabled => available
  /\ transmit.enabled # enabled /\ transmit.revision < MaxRevision
  /\ WithTransmit(enabled)
  /\ UNCHANGED <<monitor, playbackMuted, available, ringVars, worker, network, serverVars, boundVars>>

SetCaptureMonitor(mode) ==
  /\ mode # "off" => available
  /\ settingChanges < MaxSettingChanges
  /\ settingChanges' = settingChanges + 1
  /\ monitor' = mode
  /\ UNCHANGED <<transmit, playbackMuted, available, ringVars, worker, network, serverVars, frames, sendFailures>>

SetPlaybackMuted ==
  /\ settingChanges < MaxSettingChanges
  /\ settingChanges' = settingChanges + 1
  /\ playbackMuted' = ~playbackMuted
  /\ UNCHANGED <<transmit, monitor, available, ringVars, worker, network, serverVars, frames, sendFailures>>

(* OnCapturedSamples completes a frame; a full ring drops it. *)
OnCapturedSamples(loud) ==
  /\ transmit.enabled \/ monitor # "off"
  /\ frames < MaxFrames
  /\ frames' = frames + 1
  /\ capture' = IF Len(capture) = CaptureQueueCapacity - 1 THEN capture ELSE Append(capture, loud)
  /\ UNCHANGED <<sharedVars, outgoing, encodedDrops, worker, network, serverVars, settingChanges, sendFailures>>

-----------------------------------------------------------------------------
(* m_OutgoingQueue.TryPush, counting what does not fit. *)
PushOutgoing(frame) ==
  IF Len(outgoing) = OutgoingQueueCapacity - 1
  THEN encodedDrops' = TRUE /\ UNCHANGED outgoing
  ELSE outgoing' = Append(outgoing, frame) /\ UNCHANGED encodedDrops

(* Mutant: a talk-end is tagged with the revision before. *)
MutantOldTalkEnd(revision) == [revision |-> revision - 1, talkStart |-> FALSE, talkEnd |-> TRUE]

TalkEnd(revision) == [revision |-> revision, talkStart |-> FALSE, talkEnd |-> TRUE]

QueueTalkEnd(revision) == PushOutgoing(TalkEnd(revision))

(* ProcessCapture begins: a new transmit state or monitor starts over, and   *)
(* ends the burst the old one was in.                                        *)
WorkerSync ==
  LET changed == transmit.revision # worker.state.revision \/ monitor # worker.monitor
      listening == transmit.enabled \/ monitor # "off"
  IN  /\ worker.pc = "sync"
      /\ IF changed
         THEN /\ worker' = [pc |-> IF listening THEN "frames" ELSE "sync", state |-> transmit,
                            monitor |-> monitor, active |-> FALSE, hangover |-> 0, starts |-> 0]
              /\ capture' = <<>>
              /\ IF worker.active /\ worker.state.enabled THEN QueueTalkEnd(transmit.revision)
                 ELSE UNCHANGED <<outgoing, encodedDrops>>
         ELSE /\ listening  (* nothing changed: these are the worker's too *)
              /\ worker' = [worker EXCEPT !.pc = "frames"]
              /\ UNCHANGED ringVars
      /\ UNCHANGED <<sharedVars, network, serverVars, boundVars>>

(* CaptureGate::Process: does the frame pass, and the gate afterwards. *)
GatePasses(loud) == loud \/ (worker.active /\ worker.hangover # 0)

Gated(loud) ==
  [worker EXCEPT !.active = GatePasses(loud),
                 !.hangover = IF loud THEN HangoverFrames
                              ELSE IF worker.active /\ @ # 0 THEN @ - 1 ELSE @]

(* One round of the loop of ProcessCapture. *)
WorkerFrame ==
  LET loud == Head(capture)
      passes == GatePasses(loud)
      starts == IF worker.active THEN worker.starts ELSE TalkStartPackets
  IN  /\ worker.pc = "frames" /\ capture # <<>>
      /\ capture' = Tail(capture)
      /\ worker' = [Gated(loud) EXCEPT
                      !.starts = IF passes THEN IF starts = 0 THEN 0 ELSE starts - 1
                                 ELSE IF worker.active THEN 0 ELSE @]
      /\ IF ~worker.state.enabled THEN UNCHANGED <<outgoing, encodedDrops>>
         ELSE IF passes
              THEN PushOutgoing([revision |-> worker.state.revision, talkStart |-> starts # 0,
                                 talkEnd |-> FALSE])
         ELSE IF worker.active THEN QueueTalkEnd(worker.state.revision)
         ELSE UNCHANGED <<outgoing, encodedDrops>>
      /\ UNCHANGED <<sharedVars, network, serverVars, boundVars>>

WorkerLoopEnds ==
  /\ worker.pc = "frames" /\ capture = <<>>
  /\ worker' = [worker EXCEPT !.pc = "sync"]
  /\ UNCHANGED <<sharedVars, ringVars, network, serverVars, boundVars>>

(* A codec throws out of the loop: Worker gives up in two steps. *)
WorkerFails ==
  /\ WorkerMayFail
  /\ worker.pc \in {"sync", "frames"}
  /\ worker' = [worker EXCEPT !.pc = "failing"]
  /\ WithTransmit(FALSE)
  /\ UNCHANGED <<monitor, playbackMuted, available, ringVars, network, serverVars, boundVars>>

WorkerGone ==
  /\ worker.pc = "failing"
  /\ worker' = [worker EXCEPT !.pc = "dead"]
  /\ available' = FALSE
  /\ UNCHANGED <<transmit, monitor, playbackMuted, ringVars, network, serverVars, boundVars>>

-----------------------------------------------------------------------------
(* Mutant: a change of the speakers is not published. *)
MutantSpeakersUnpublished(change) ==
  ~network.published \/ change \/ available # network.available

(* What makes ProcessAudio publish the audio state. *)
Publishes(change) ==
  \/ ~network.published
  \/ change
  \/ available # network.available
  \/ playbackMuted # network.playbackMuted

(* Add throws: the packet id is pending. *)
AddThrows == command.id \in {"queued", "taken"}

(* The packet whose Send throws is queued under the id it would have had. *)
QueuedUnsent(state) ==
  IF command.id = "free" THEN [id |-> "queued", state |-> state] ELSE CommandId("taken")

(* ProcessAudio begins: it takes the transmit state, once, and publishes     *)
(* what has changed.  If Add or Send throws, it mutes the microphone and     *)
(* gives up this pass.                                                       *)
NetworkBegin(sendThrows) ==
  LET change == transmit.revision # network.seen
      state == IF change THEN transmit ELSE network.state
      publishes == Publishes(change)
      throws == publishes /\ (AddThrows \/ sendThrows)
      returns == publishes /\ ~throws
      told == [hardware |-> available, inputMuted |-> ~state.enabled,
               outputMuted |-> playbackMuted, revision |-> state.revision]
      taken == [network EXCEPT !.seen = transmit.revision, !.state = state]
  IN  /\ network.pc = "idle"
      /\ publishes \/ outgoing # <<>>
      /\ sendThrows => publishes /\ ~AddThrows /\ sendFailures < MaxSendFailures
      /\ sendFailures' = IF sendThrows THEN sendFailures + 1 ELSE sendFailures
      /\ command' = IF sendThrows THEN QueuedUnsent(told)
                    ELSE IF returns THEN CommandId("free") ELSE command
      /\ published' = IF returns /\ command.id = "free" THEN told ELSE published
      /\ dropped' = IF returns THEN command.id = "used" ELSE dropped
      /\ network' = IF throws THEN taken
                    ELSE IF publishes
                         THEN [taken EXCEPT !.pc = "popping", !.published = TRUE,
                                            !.available = available, !.playbackMuted = playbackMuted]
                    ELSE [taken EXCEPT !.pc = "popping"]
      /\ IF throws THEN WithTransmit(FALSE) ELSE UNCHANGED transmit
      /\ UNCHANGED <<monitor, playbackMuted, available, ringVars, worker, wire, frames, settingChanges>>

(* ProcessTimers sends the queued command again, and the server takes it. *)
CommandRetransmitted ==
  /\ command.id = "queued"
  /\ command' = CommandId("taken")
  /\ published' = command.state
  /\ UNCHANGED <<sharedVars, ringVars, worker, network, dropped, wire, boundVars>>

(* Its Ack arrives: the id is free to Add, but used up at the server. *)
CommandAcknowledged ==
  /\ command.id = "taken"
  /\ command' = CommandId("used")
  /\ UNCHANGED <<sharedVars, ringVars, worker, network, published, dropped, wire, boundVars>>

(* Another command of the session goes out under that id, and is dropped. *)
OtherCommandSent ==
  /\ command.id = "used"
  /\ command' = CommandId("free")
  /\ UNCHANGED <<sharedVars, ringVars, worker, network, published, dropped, wire, boundVars>>

(* Mutant: frames are not checked for their revision. *)
MutantAnyRevision(frame) == network.state.enabled \/ frame.talkEnd

(* A frame of another revision is dropped, and so is one of a muted period   *)
(* unless it ends a burst.                                                   *)
Sendable(frame) ==
  /\ frame.revision = network.state.revision
  /\ network.state.enabled \/ frame.talkEnd

(* One round of the loop of ProcessAudio. *)
NetworkPop ==
  /\ network.pc = "popping" /\ outgoing # <<>>
  /\ outgoing' = Tail(outgoing)
  /\ wire' = IF Sendable(Head(outgoing))
             THEN [frame |-> Head(outgoing), published |-> published, dropped |-> dropped]
             ELSE wire
  /\ UNCHANGED <<sharedVars, capture, encodedDrops, worker, network, command, published, dropped,
                 boundVars>>

(* SendVoice throws: the frame is gone and the microphone muted. *)
NetworkSendVoiceThrows ==
  /\ network.pc = "popping" /\ outgoing # <<>> /\ Sendable(Head(outgoing))
  /\ sendFailures < MaxSendFailures
  /\ sendFailures' = sendFailures + 1
  /\ outgoing' = Tail(outgoing)
  /\ network' = [network EXCEPT !.pc = "idle"]
  /\ WithTransmit(FALSE)
  /\ UNCHANGED <<monitor, playbackMuted, available, capture, encodedDrops, worker, serverVars,
                 frames, settingChanges>>

NetworkLoopEnds ==
  /\ network.pc = "popping" /\ outgoing = <<>>
  /\ network' = [network EXCEPT !.pc = "idle"]
  /\ UNCHANGED <<sharedVars, ringVars, worker, serverVars, boundVars>>

Worker == WorkerSync \/ WorkerFrame \/ WorkerLoopEnds \/ WorkerGone
Delivery == CommandRetransmitted \/ CommandAcknowledged
Network == NetworkBegin(FALSE) \/ NetworkPop \/ NetworkLoopEnds

Next ==
  \/ \E enabled \in BOOLEAN : SetTransmitEnabled(enabled)
  \/ \E mode \in Monitors \ {monitor} : SetCaptureMonitor(mode)
  \/ SetPlaybackMuted
  \/ \E loud \in BOOLEAN : OnCapturedSamples(loud)
  \/ Worker
  \/ WorkerFails
  \/ Network
  \/ NetworkBegin(TRUE)
  \/ Delivery
  \/ OtherCommandSent
  \/ NetworkSendVoiceThrows

Spec == Init /\ [][Next]_vars

(* The network thread runs its cycle every 50 ms. *)
FairSpec == Spec /\ WF_vars(Network)

-----------------------------------------------------------------------------
(* All speech belongs to the talking period the server was last told of: it *)
(* gets none between the mute it knows and the next unmute, nor speech of an *)
(* earlier period after that, nor any while a failed announcement is queued. *)
(* The one exception: after a Send that threw, the announcement of the       *)
(* period may have gone out under the failed one's number and been dropped.  *)
(* And "an old talk-end marker cannot terminate a newly started talk burst   *)
(* after /unmute" (docs/client/runtime.md).                                  *)
VoiceMatchesPublished ==
  /\ wire.frame.revision >= wire.published.revision
  /\ ~wire.frame.talkEnd => \/ wire.dropped
                            \/ /\ wire.frame.revision = wire.published.revision
                               /\ ~wire.published.inputMuted

Caught ==
  /\ worker.pc = "sync" /\ worker.state = transmit /\ capture = <<>> /\ outgoing = <<>>
  /\ network.pc = "idle" /\ network.state = transmit

BurstOpen == ~wire.frame.talkEnd

(* A burst that ends by silence is closed on the wire: once all threads have *)
(* caught up, the gate is shut and no frame was dropped, the last packet of  *)
(* the current period is its talk-end.                                       *)
SilenceClosesBurst ==
  Caught /\ ~worker.active /\ ~encodedDrops /\ sendFailures = 0 /\ transmit.enabled =>
    ~(BurstOpen /\ wire.frame.revision = transmit.revision)

(* What the server knows about microphone, speakers and hardware becomes     *)
(* what they are, once the user leaves them alone, as long as no send fails. *)
PublishedIsCurrent ==
  <>[](sendFailures = 0 => /\ published.hardware = available
                           /\ published.inputMuted = ~transmit.enabled
                           /\ published.outputMuted = playbackMuted)
=============================================================================
