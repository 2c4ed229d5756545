---------------------------- MODULE VoiceProofs -----------------------------
(***************************************************************************)
(* Proofs about voice.  The microphone's way to the server, for rings,      *)
(* hangovers, monitors, failures and sequences of /mute and /unmute of any  *)
(* length; and, further down, the way from the server to the mix, for any   *)
(* number of frames, wraps of the voice ids, losses and repetitions.        *)
(***************************************************************************)
EXTENDS VoiceTransmit, VoiceReceive, Integers, SequenceTheorems, TLAPS

TransmitState == [enabled : BOOLEAN, revision : Nat]
Frame == [revision : Nat, talkStart : BOOLEAN, talkEnd : BOOLEAN]
WorkerState == [pc : {"sync", "frames", "failing", "dead"}, state : TransmitState, monitor : Monitors,
                active : BOOLEAN, hangover : Nat, starts : Nat]
NetworkState == [pc : {"idle", "popping"}, seen : Nat, state : TransmitState, published : BOOLEAN,
                 available : BOOLEAN, playbackMuted : BOOLEAN]
AudioState == [hardware : BOOLEAN, inputMuted : BOOLEAN, outputMuted : BOOLEAN, revision : Nat]
CommandState == [id : {"free", "queued", "taken", "used"}, state : AudioState]

TransmitTypes ==
  /\ transmit \in TransmitState
  /\ monitor \in Monitors /\ playbackMuted \in BOOLEAN /\ available \in BOOLEAN
  /\ capture \in Seq(BOOLEAN) /\ outgoing \in Seq(Frame) /\ encodedDrops \in BOOLEAN
  /\ worker \in WorkerState
  /\ network \in NetworkState
  /\ command \in CommandState /\ published \in AudioState /\ dropped \in BOOLEAN
  /\ wire \in [frame : Frame, published : AudioState, dropped : BOOLEAN]
  /\ sendFailures \in Nat

(* The network thread's view of the microphone: a revision it has taken      *)
(* stands for one state; what it sends under is what it has published, or    *)
(* what the server has dropped.  A pass that failed to publish has muted the *)
(* microphone, so the revision it took with it is not the current one; and   *)
(* as long as its command is queued, nothing is published and so none of the *)
(* passes gets as far as to send speech.                                     *)
NetworkInv ==
  /\ network.state.revision = network.seen
  /\ network.seen <= transmit.revision
  /\ network.seen = transmit.revision => network.state = transmit
  /\ published.revision <= network.seen
  /\ /\ network.pc = "popping" \/ (network.published /\ network.seen = transmit.revision)
     /\ network.state.enabled
     => dropped \/ (published.revision = network.seen /\ ~published.inputMuted)
  /\ command.state.revision <= network.seen
  /\ AddThrows => ~network.state.enabled \/ (network.pc = "idle" /\ network.seen # transmit.revision)

(* Revisions on their way never go back: worker, ring, wire. *)
OrderInv ==
  /\ worker.state.revision <= transmit.revision
  /\ wire.frame.revision <= worker.state.revision
  /\ \A i \in 1 .. Len(outgoing) :
       /\ wire.frame.revision <= outgoing[i].revision
       /\ outgoing[i].revision <= worker.state.revision
       /\ \A j \in i .. Len(outgoing) : outgoing[i].revision <= outgoing[j].revision

(* Speech on the wire is of a period the network thread has taken, and of    *)
(* its present one only while that is not muted.                             *)
TakenInv ==
  ~wire.frame.talkEnd =>
    \/ network.seen > wire.frame.revision
    \/ network.seen = wire.frame.revision /\ network.state.enabled

(* The newest frame the worker has let out. *)
Newest == IF outgoing = <<>> THEN wire.frame ELSE outgoing[Len(outgoing)]

(* Speech of the current period with nothing behind it means an open gate.   *)
OpenSpeech ==
  /\ ~encodedDrops /\ sendFailures = 0
  /\ ~Newest.talkEnd /\ Newest.revision = worker.state.revision
  /\ worker.state.revision = transmit.revision

GateInv == OpenSpeech => worker.active /\ worker.state.enabled

TransmitInv ==
  TransmitTypes /\ NetworkInv /\ OrderInv /\ TakenInv /\ GateInv /\ VoiceMatchesPublished

-----------------------------------------------------------------------------
(* SetTransmitEnabled changes the state and its revision together, or not at *)
(* all.                                                                      *)
TransmitKept == transmit' = transmit
TransmitChanged == transmit' \in TransmitState /\ transmit'.revision = transmit.revision + 1

LEMMA WithTransmitStep ==
  ASSUME transmit \in TransmitState, NEW enabled \in BOOLEAN, WithTransmit(enabled)
  PROVE  TransmitKept \/ TransmitChanged
<1>1. CASE transmit.enabled = enabled
  BY <1>1 DEF WithTransmit, TransmitKept
<1>2. CASE transmit.enabled # enabled
  <2>1. transmit.revision \in Nat
    BY DEF TransmitState
  <2>2. transmit.revision + 1 \in Nat
    BY <2>1
  <2>3. transmit' = [enabled |-> enabled, revision |-> transmit.revision + 1]
    BY <1>2 DEF WithTransmit
  <2> QED BY <2>2, <2>3 DEF TransmitChanged, TransmitState
<1> QED BY <1>1, <1>2

(* PushOutgoing appends a frame or counts a drop. *)
Pushed(frame) ==
  \/ outgoing' = Append(outgoing, frame) /\ encodedDrops' = encodedDrops
  \/ outgoing' = outgoing /\ encodedDrops'

Unpushed == UNCHANGED <<outgoing, encodedDrops>>

(* The steps, by what they do to the variables the invariant is about.       *)
(* Those of the user interface and the callback, and of threads that come or *)
(* go.                                                                       *)
Outside ==
  /\ TransmitKept \/ TransmitChanged
  /\ UNCHANGED <<network, command, published, dropped, wire, outgoing, encodedDrops, sendFailures>>
  /\ worker'.state = worker.state /\ worker'.active = worker.active

(* A queued command goes to the server, or its number is dealt with. *)
Delivers ==
  /\ UNCHANGED <<transmit, worker, network, dropped, wire, outgoing, encodedDrops, sendFailures>>
  /\ published' = published \/ (AddThrows /\ published' = command.state)
  /\ command'.state = Unpublished /\ (AddThrows' => AddThrows)

(* The worker starts over ... *)
StartsOver ==
  /\ UNCHANGED <<transmit, network, command, published, dropped, wire, sendFailures>>
  /\ worker'.state = transmit /\ worker'.active = FALSE
  /\ IF worker.active /\ worker.state.enabled THEN Pushed(TalkEnd(transmit.revision)) ELSE Unpushed

(* ... or takes a frame through the gate. *)
Encodes ==
  /\ UNCHANGED <<transmit, network, command, published, dropped, wire, sendFailures>>
  /\ worker'.state = worker.state
  /\ \/ ~worker.state.enabled /\ Unpushed
     \/ /\ worker.state.enabled /\ worker'.active
        /\ \E start \in BOOLEAN :
             Pushed([revision |-> worker.state.revision, talkStart |-> start, talkEnd |-> FALSE])
     \/ worker.state.enabled /\ ~worker'.active /\ Pushed(TalkEnd(worker.state.revision))
     \/ ~worker.active /\ ~worker'.active /\ Unpushed

(* The network thread begins a pass: it publishes and goes on, finds nothing *)
(* to publish, or fails to and mutes the microphone.                         *)
Begins ==
  /\ UNCHANGED <<worker, wire, outgoing, encodedDrops>>
  /\ network.pc = "idle"
  /\ network'.seen = transmit.revision
  /\ network'.state = IF transmit.revision # network.seen THEN transmit ELSE network.state
  /\ sendFailures' \in {sendFailures, sendFailures + 1}
  /\ \/ /\ \/ /\ published'.revision = network'.state.revision
              /\ published'.inputMuted = ~network'.state.enabled
           \/ published' = published /\ dropped'
        /\ TransmitKept
        /\ command' = CommandId("free")
     \/ /\ UNCHANGED <<command, published, dropped>> /\ TransmitKept
        /\ network.published /\ transmit.revision = network.seen
     \/ /\ UNCHANGED <<published, dropped>>
        /\ command' = command \/ command'.state = Unpublished
             \/ command'.state.revision = network'.state.revision
        /\ network'.pc = "idle"
        /\ WithTransmit(FALSE)

Pops ==
  /\ UNCHANGED <<transmit, worker, network, command, published, dropped, encodedDrops, sendFailures>>
  /\ network.pc = "popping" /\ outgoing # <<>>
  /\ outgoing' = Tail(outgoing)
  /\ IF Sendable(Head(outgoing))
     THEN wire' = [frame |-> Head(outgoing), published |-> published, dropped |-> dropped]
     ELSE wire' = wire

(* A pass ends, because the ring is empty or SendVoice has thrown. *)
Ends ==
  /\ UNCHANGED <<worker, command, published, dropped, wire, encodedDrops>>
  /\ network.pc = "popping" /\ network' = [network EXCEPT !.pc = "idle"]
  /\ \/ UNCHANGED <<transmit, outgoing, sendFailures>>
     \/ /\ TransmitKept \/ TransmitChanged
        /\ outgoing # <<>> /\ outgoing' = Tail(outgoing)
        /\ sendFailures' = sendFailures + 1

LEMMA TransmitSteps ==
  ASSUME TransmitTypes, [Next]_vars
  PROVE  Outside \/ Delivers \/ StartsOver \/ Encodes \/ Begins \/ Pops \/ Ends
<1> USE DEF sharedVars, ringVars, serverVars, boundVars
<1>0. /\ transmit \in TransmitState /\ worker \in WorkerState /\ network \in NetworkState
      /\ encodedDrops \in BOOLEAN /\ worker.state \in TransmitState
  BY DEF TransmitTypes, WorkerState
<1>1. ASSUME NEW enabled \in BOOLEAN, SetTransmitEnabled(enabled) PROVE Outside
  <2>1. TransmitKept \/ TransmitChanged
    BY <1>0, <1>1, WithTransmitStep DEF SetTransmitEnabled
  <2> QED BY <1>1, <2>1 DEF SetTransmitEnabled, Outside
<1>2. ASSUME NEW mode \in Monitors, SetCaptureMonitor(mode) PROVE Outside
  BY <1>2 DEF SetCaptureMonitor, Outside, TransmitKept
<1>3. ASSUME SetPlaybackMuted PROVE Outside
  BY <1>3 DEF SetPlaybackMuted, Outside, TransmitKept
<1>4. ASSUME NEW loud \in BOOLEAN, OnCapturedSamples(loud) PROVE Outside
  BY <1>4 DEF OnCapturedSamples, Outside, TransmitKept
<1>5. ASSUME WorkerSync PROVE StartsOver \/ Outside
  <2> DEFINE changed == transmit.revision # worker.state.revision \/ monitor # worker.monitor
  <2>1. UNCHANGED <<transmit, network, command, published, dropped, wire, sendFailures>>
    BY <1>5 DEF WorkerSync
  <2>2. CASE changed
    <3>1. worker'.state = transmit /\ worker'.active = FALSE
      BY <1>5, <2>2 DEF WorkerSync
    <3>2. IF worker.active /\ worker.state.enabled THEN PushOutgoing(TalkEnd(transmit.revision)) ELSE Unpushed
      BY <1>5, <2>2 DEF WorkerSync, QueueTalkEnd, Unpushed
    <3> QED BY <2>1, <3>1, <3>2 DEF StartsOver, PushOutgoing, Pushed
  <2>3. CASE ~changed
    <3>1. worker' = [worker EXCEPT !.pc = "frames"] /\ UNCHANGED ringVars
      BY <1>5, <2>3 DEF WorkerSync
    <3>2. worker'.state = worker.state /\ worker'.active = worker.active
      BY <1>0, <3>1 DEF WorkerState
    <3> QED BY <2>1, <3>1, <3>2 DEF Outside, TransmitKept
  <2> QED BY <2>2, <2>3
<1>6. ASSUME WorkerFrame PROVE Encodes
  <2> DEFINE loud == Head(capture)
             passes == GatePasses(loud)
             starts == IF worker.active THEN worker.starts ELSE TalkStartPackets
             now == IF passes THEN IF starts = 0 THEN 0 ELSE starts - 1
                    ELSE IF worker.active THEN 0 ELSE Gated(loud).starts
  <2>1. UNCHANGED <<transmit, network, command, published, dropped, wire, sendFailures>>
    BY <1>6 DEF WorkerFrame
  <2>2. worker' = [Gated(loud) EXCEPT !.starts = now]
    BY <1>6 DEF WorkerFrame
  <2>3. IF ~worker.state.enabled THEN Unpushed
        ELSE IF passes THEN PushOutgoing([revision |-> worker.state.revision, talkStart |-> starts # 0,
                                          talkEnd |-> FALSE])
        ELSE IF worker.active THEN PushOutgoing(TalkEnd(worker.state.revision)) ELSE Unpushed
    BY <1>6 DEF WorkerFrame, QueueTalkEnd, Unpushed
  <2>4. worker'.state = worker.state /\ worker'.active = passes
    BY <1>0, <2>2 DEF Gated, WorkerState
  <2> HIDE DEF passes, starts, loud, now
  <2>5. (starts # 0) \in BOOLEAN
    OBVIOUS
  <2>6. CASE ~worker.state.enabled
    BY <2>1, <2>3, <2>4, <2>6 DEF Encodes
  <2>7. CASE worker.state.enabled /\ passes
    BY <2>1, <2>3, <2>4, <2>5, <2>7 DEF Encodes, PushOutgoing, Pushed
  <2>8. CASE worker.state.enabled /\ ~passes /\ worker.active
    BY <2>1, <2>3, <2>4, <2>8 DEF Encodes, PushOutgoing, Pushed
  <2>9. CASE worker.state.enabled /\ ~passes /\ ~worker.active
    BY <2>1, <2>3, <2>4, <2>9 DEF Encodes
  <2> QED BY <2>6, <2>7, <2>8, <2>9
<1>7. ASSUME WorkerLoopEnds PROVE Outside
  BY <1>0, <1>7 DEF WorkerLoopEnds, Outside, TransmitKept, WorkerState
<1>8. ASSUME WorkerGone PROVE Outside
  BY <1>0, <1>8 DEF WorkerGone, Outside, TransmitKept, WorkerState
<1>9. ASSUME WorkerFails PROVE Outside
  <2>1. TransmitKept \/ TransmitChanged
    BY <1>0, <1>9, WithTransmitStep DEF WorkerFails
  <2> QED BY <1>0, <1>9, <2>1 DEF WorkerFails, Outside, WorkerState
<1>10. ASSUME NEW throws \in BOOLEAN, NetworkBegin(throws) PROVE Begins
  <2> DEFINE change == transmit.revision # network.seen
             state == IF change THEN transmit ELSE network.state
             publishes == Publishes(change)
             fails == publishes /\ (AddThrows \/ throws)
             told == [hardware |-> available, inputMuted |-> ~state.enabled,
                      outputMuted |-> playbackMuted, revision |-> state.revision]
             taken == [network EXCEPT !.seen = transmit.revision, !.state = state]
             done == [taken EXCEPT !.pc = "popping", !.published = TRUE,
                                   !.available = available, !.playbackMuted = playbackMuted]
  <2>1. /\ UNCHANGED <<worker, wire, outgoing, encodedDrops>>
        /\ network.pc = "idle"
    BY <1>10 DEF NetworkBegin
  <2>2. sendFailures' \in {sendFailures, sendFailures + 1}
    BY <1>10 DEF NetworkBegin
  <2>3. /\ published' = IF (publishes /\ ~fails) /\ command.id = "free" THEN told ELSE published
        /\ dropped' = IF publishes /\ ~fails THEN command.id = "used" ELSE dropped
        /\ command' = IF throws THEN QueuedUnsent(told)
                      ELSE IF publishes /\ ~fails THEN CommandId("free") ELSE command
        /\ throws => publishes
    BY <1>10 DEF NetworkBegin
  <2>4. network' = IF fails THEN taken ELSE IF publishes THEN done ELSE [taken EXCEPT !.pc = "popping"]
    BY <1>10 DEF NetworkBegin
  <2>5. IF fails THEN WithTransmit(FALSE) ELSE transmit' = transmit
    BY <1>10 DEF NetworkBegin
  <2>6. ~publishes => network.published /\ ~change
    BY <1>0 DEF Publishes, NetworkState
  <2>12. told.revision = state.revision /\ told.inputMuted = ~state.enabled
    OBVIOUS
  <2>13. throws => fails
    BY <2>3 DEF fails
  <2> HIDE DEF change, state, publishes, told
  <2>7. taken.seen = transmit.revision /\ taken.state = state /\ taken.pc = network.pc
        /\ DOMAIN taken = {"pc", "seen", "state", "published", "available", "playbackMuted"}
    BY <1>0 DEF NetworkState
  <2> HIDE DEF taken
  <2>8. network'.seen = transmit.revision /\ network'.state = state
    BY <2>4, <2>7
  <2>9. CASE fails
    <3>1. network'.pc = "idle"
      BY <2>1, <2>4, <2>7, <2>9
    <3>2. UNCHANGED <<published, dropped>>
      BY <2>3, <2>9
    <3>3. command' = command \/ command'.state = Unpublished
            \/ command'.state.revision = network'.state.revision
      BY <2>3, <2>8, <2>9, <2>12 DEF QueuedUnsent, CommandId
    <3> QED BY <2>1, <2>2, <2>5, <2>8, <2>9, <3>1, <3>2, <3>3 DEF Begins, state, change
  <2>10. CASE ~fails /\ publishes
    <3>1. ~AddThrows /\ command' = CommandId("free")
      BY <2>3, <2>10, <2>13 DEF fails
    <3>2. command.id = "free" \/ command.id = "used"
      BY <3>1 DEF AddThrows, TransmitTypes, CommandState
    <3>3. \/ /\ published'.revision = network'.state.revision
             /\ published'.inputMuted = ~network'.state.enabled
          \/ published' = published /\ dropped'
      BY <2>3, <2>8, <2>10, <2>12, <3>2
    <3>4. TransmitKept
      BY <2>5, <2>10 DEF TransmitKept
    <3> QED BY <2>1, <2>2, <2>8, <3>1, <3>3, <3>4 DEF Begins, state, change
  <2>11. CASE ~fails /\ ~publishes
    <3>1. UNCHANGED <<command, published, dropped>>
      BY <2>3, <2>11
    <3>2. TransmitKept
      BY <2>5, <2>11 DEF TransmitKept
    <3> QED BY <2>1, <2>2, <2>6, <2>8, <2>11, <3>1, <3>2 DEF Begins, state, change
  <2> QED BY <2>9, <2>10, <2>11
<1>11. ASSUME NetworkPop PROVE Pops
  BY <1>11 DEF NetworkPop, Pops
<1>12. ASSUME NetworkLoopEnds PROVE Ends
  BY <1>12 DEF NetworkLoopEnds, Ends
<1>13. ASSUME NetworkSendVoiceThrows PROVE Ends
  <2>1. TransmitKept \/ TransmitChanged
    BY <1>0, <1>13, WithTransmitStep DEF NetworkSendVoiceThrows
  <2> QED BY <1>13, <2>1 DEF NetworkSendVoiceThrows, Ends
<1>14. ASSUME Delivery \/ OtherCommandSent PROVE Delivers
  BY <1>14 DEF Delivery, CommandRetransmitted, CommandAcknowledged, OtherCommandSent, Delivers, AddThrows,
               CommandId
<1>15. ASSUME UNCHANGED vars PROVE Outside
  BY <1>15 DEF vars, Outside, TransmitKept
<1> QED BY <1>1, <1>2, <1>3, <1>4, <1>5, <1>6, <1>7, <1>8, <1>9, <1>10, <1>11, <1>12, <1>13, <1>14, <1>15
        DEF Next, Worker, Network

(* Every step keeps the types. *)
LEMMA PushedType ==
  ASSUME TransmitTypes, NEW frame \in Frame, PushOutgoing(frame)
  PROVE  outgoing' \in Seq(Frame) /\ encodedDrops' \in BOOLEAN
<1>1. outgoing \in Seq(Frame) /\ encodedDrops \in BOOLEAN
  BY DEF TransmitTypes
<1>2. Append(outgoing, frame) \in Seq(Frame)
  BY <1>1, AppendProperties
<1> QED BY <1>1, <1>2 DEF PushOutgoing

LEMMA TransmitTypesStep ==
  ASSUME TransmitTypes, [Next]_vars
  PROVE  TransmitTypes'
<1> USE DEF sharedVars, ringVars, serverVars, boundVars
<1> DEFINE Wire == [frame : Frame, published : AudioState, dropped : BOOLEAN]
<1>0. /\ transmit \in TransmitState /\ worker \in WorkerState /\ network \in NetworkState
      /\ command \in CommandState /\ published \in AudioState /\ dropped \in BOOLEAN
      /\ wire \in Wire /\ sendFailures \in Nat
      /\ monitor \in Monitors /\ playbackMuted \in BOOLEAN /\ available \in BOOLEAN
      /\ capture \in Seq(BOOLEAN) /\ outgoing \in Seq(Frame) /\ encodedDrops \in BOOLEAN
  BY DEF TransmitTypes
<1>w. ASSUME NEW enabled \in BOOLEAN, WithTransmit(enabled) PROVE transmit' \in TransmitState
  BY <1>0, <1>w, WithTransmitStep DEF TransmitKept, TransmitChanged
<1>u. Unpublished \in AudioState
  BY DEF Unpublished, AudioState
<1>r. ASSUME NEW place \in {"sync", "frames", "failing", "dead"}
      PROVE  [worker EXCEPT !.pc = place] \in WorkerState
  BY <1>0, <1>r DEF WorkerState
<1> HIDE DEF Wire
<1>1. ASSUME NEW enabled \in BOOLEAN, SetTransmitEnabled(enabled) PROVE TransmitTypes'
  <2>1. transmit' \in TransmitState
    BY <1>1, <1>w DEF SetTransmitEnabled
  <2> QED BY <1>0, <1>1, <2>1 DEF SetTransmitEnabled, TransmitTypes, Wire
<1>2. ASSUME NEW mode \in Monitors, SetCaptureMonitor(mode) PROVE TransmitTypes'
  BY <1>0, <1>2 DEF SetCaptureMonitor, TransmitTypes, Wire
<1>3. ASSUME SetPlaybackMuted PROVE TransmitTypes'
  BY <1>0, <1>3 DEF SetPlaybackMuted, TransmitTypes, Wire
<1>4. ASSUME NEW loud \in BOOLEAN, OnCapturedSamples(loud) PROVE TransmitTypes'
  <2>1. Append(capture, loud) \in Seq(BOOLEAN)
    BY <1>0, AppendProperties
  <2>2. capture' \in Seq(BOOLEAN)
    BY <1>0, <1>4, <2>1 DEF OnCapturedSamples
  <2> QED BY <1>0, <1>4, <2>2 DEF OnCapturedSamples, TransmitTypes, Wire
<1>5. ASSUME WorkerSync PROVE TransmitTypes'
  <2>1. worker' \in WorkerState
    <3>1. CASE worker' = [worker EXCEPT !.pc = "frames"]
      BY <1>r, <3>1
    <3>2. ASSUME NEW place \in {"sync", "frames"},
                 worker' = [pc |-> place, state |-> transmit, monitor |-> monitor, active |-> FALSE,
                            hangover |-> 0, starts |-> 0]
          PROVE  worker' \in WorkerState
      BY <1>0, <3>2 DEF WorkerState
    <3> QED BY <1>5, <3>1, <3>2 DEF WorkerSync
  <2>2. capture' \in Seq(BOOLEAN)
    <3>1. capture' = <<>> \/ capture' = capture
      BY <1>5 DEF WorkerSync
    <3>2. <<>> \in Seq(BOOLEAN)
      OBVIOUS
    <3> QED BY <1>0, <3>1, <3>2
  <2>3. outgoing' \in Seq(Frame) /\ encodedDrops' \in BOOLEAN
    <3>1. TalkEnd(transmit.revision) \in Frame
      BY <1>0 DEF TalkEnd, Frame, TransmitState
    <3>2. PushOutgoing(TalkEnd(transmit.revision)) \/ UNCHANGED <<outgoing, encodedDrops>>
      BY <1>5 DEF WorkerSync, QueueTalkEnd
    <3> QED BY <1>0, <3>1, <3>2, PushedType
  <2> QED BY <1>0, <1>5, <2>1, <2>2, <2>3 DEF WorkerSync, TransmitTypes, Wire
<1>6. ASSUME WorkerFrame PROVE TransmitTypes'
  <2> DEFINE loud == Head(capture)
             passes == GatePasses(loud)
             starts == IF worker.active THEN worker.starts ELSE TalkStartPackets
             now == IF passes THEN IF starts = 0 THEN 0 ELSE starts - 1
                    ELSE IF worker.active THEN 0 ELSE Gated(loud).starts
  <2>1. capture # <<>> /\ capture' = Tail(capture) /\ worker' = [Gated(loud) EXCEPT !.starts = now]
    BY <1>6 DEF WorkerFrame
  <2>2. capture' \in Seq(BOOLEAN) /\ loud \in BOOLEAN
    BY <1>0, <2>1, HeadTailProperties
  <2>3. worker.hangover \in Nat /\ worker.starts \in Nat /\ worker.state \in TransmitState
        /\ worker.active \in BOOLEAN
    BY <1>0 DEF WorkerState
  <2>4. HangoverFrames \in Nat /\ TalkStartPackets \in Nat
    BY TransmitAssumption
  <2> DEFINE hang == IF loud THEN HangoverFrames
                     ELSE IF worker.active /\ worker.hangover # 0 THEN worker.hangover - 1
                     ELSE worker.hangover
  <2>5. hang \in Nat
    <3>1. worker.hangover # 0 => worker.hangover - 1 \in Nat
      BY <2>3
    <3> QED BY <2>3, <2>4, <3>1
  <2>6. Gated(loud) = [worker EXCEPT !.active = passes, !.hangover = hang]
    BY DEF Gated
  <2>7. passes \in BOOLEAN
    BY DEF GatePasses
  <2> HIDE DEF passes, hang, loud
  <2>8. Gated(loud) \in WorkerState
    BY <1>0, <2>5, <2>6, <2>7 DEF WorkerState
  <2>9. Gated(loud).starts \in Nat
    BY <2>8 DEF WorkerState
  <2>10. now \in Nat
    BY <2>3, <2>4, <2>9
  <2> HIDE DEF now
  <2>11. worker' \in WorkerState
    BY <2>1, <2>8, <2>10 DEF WorkerState
  <2>12. outgoing' \in Seq(Frame) /\ encodedDrops' \in BOOLEAN
    <3>1. TalkEnd(worker.state.revision) \in Frame
      BY <2>3 DEF TalkEnd, Frame, TransmitState
    <3>2. [revision |-> worker.state.revision, talkStart |-> starts # 0, talkEnd |-> FALSE] \in Frame
      BY <2>3 DEF Frame, TransmitState
    <3> HIDE DEF starts
    <3>3. \/ PushOutgoing(TalkEnd(worker.state.revision))
          \/ PushOutgoing([revision |-> worker.state.revision, talkStart |-> starts # 0, talkEnd |-> FALSE])
          \/ UNCHANGED <<outgoing, encodedDrops>>
      BY <1>6 DEF WorkerFrame, QueueTalkEnd, starts
    <3> QED BY <1>0, <3>1, <3>2, <3>3, PushedType
  <2> QED BY <1>0, <1>6, <2>2, <2>11, <2>12 DEF WorkerFrame, TransmitTypes, Wire
<1>7. ASSUME WorkerLoopEnds PROVE TransmitTypes'
  BY <1>0, <1>r, <1>7 DEF WorkerLoopEnds, TransmitTypes, Wire
<1>8. ASSUME WorkerGone PROVE TransmitTypes'
  BY <1>0, <1>r, <1>8 DEF WorkerGone, TransmitTypes, Wire
<1>9. ASSUME WorkerFails PROVE TransmitTypes'
  <2>1. transmit' \in TransmitState
    BY <1>9, <1>w DEF WorkerFails
  <2> QED BY <1>0, <1>r, <1>9, <2>1 DEF WorkerFails, TransmitTypes, Wire
<1>10. ASSUME NEW throws \in BOOLEAN, NetworkBegin(throws) PROVE TransmitTypes'
  <2> DEFINE change == transmit.revision # network.seen
             state == IF change THEN transmit ELSE network.state
             publishes == Publishes(change)
             taken == [network EXCEPT !.seen = transmit.revision, !.state = state]
             done == [taken EXCEPT !.pc = "popping", !.published = TRUE,
                                   !.available = available, !.playbackMuted = playbackMuted]
             told == [hardware |-> available, inputMuted |-> ~state.enabled,
                      outputMuted |-> playbackMuted, revision |-> state.revision]
  <2>1. state \in TransmitState /\ transmit.revision \in Nat
    BY <1>0 DEF NetworkState, TransmitState
  <2>2. sendFailures' \in Nat
    <3>1. sendFailures + 1 \in Nat
      BY <1>0
    <3> QED BY <1>0, <1>10, <3>1 DEF NetworkBegin
  <2>3. network' = taken \/ network' = done \/ network' = [taken EXCEPT !.pc = "popping"]
    BY <1>10 DEF NetworkBegin
  <2>4. /\ published' = told \/ published' = published
        /\ dropped' = (command.id = "used") \/ dropped' = dropped
        /\ command' = QueuedUnsent(told) \/ command' = CommandId("free") \/ command' = command
    BY <1>10 DEF NetworkBegin
  <2>5. transmit' \in TransmitState
    BY <1>0, <1>10, <1>w DEF NetworkBegin
  <2> HIDE DEF state
  <2>6. told \in AudioState
    <3>1. (~state.enabled) \in BOOLEAN /\ state.revision \in Nat
      BY <2>1 DEF TransmitState
    <3> QED BY <1>0, <3>1 DEF AudioState
  <2>7. taken \in NetworkState
    BY <1>0, <2>1 DEF NetworkState
  <2> HIDE DEF taken, told
  <2>8. network' \in NetworkState
    BY <1>0, <2>3, <2>7 DEF NetworkState
  <2>9. published' \in AudioState /\ dropped' \in BOOLEAN
    BY <1>0, <2>4, <2>6
  <2>10. command' \in CommandState
    BY <1>0, <1>u, <2>4, <2>6 DEF QueuedUnsent, CommandId, CommandState
  <2> QED BY <1>0, <1>10, <2>2, <2>5, <2>8, <2>9, <2>10 DEF NetworkBegin, TransmitTypes, Wire
<1>11. ASSUME NetworkPop PROVE TransmitTypes'
  <2>1. outgoing' \in Seq(Frame) /\ Head(outgoing) \in Frame
    BY <1>0, <1>11, HeadTailProperties DEF NetworkPop
  <2>2. wire' \in Wire
    BY <1>0, <1>11, <2>1 DEF NetworkPop, Wire
  <2> QED BY <1>0, <1>11, <2>1, <2>2 DEF NetworkPop, TransmitTypes, Wire
<1>12. ASSUME NetworkLoopEnds PROVE TransmitTypes'
  <2>1. network' \in NetworkState
    BY <1>0, <1>12 DEF NetworkLoopEnds, NetworkState
  <2> QED BY <1>0, <1>12, <2>1 DEF NetworkLoopEnds, TransmitTypes, Wire
<1>13. ASSUME NetworkSendVoiceThrows PROVE TransmitTypes'
  <2>1. network' \in NetworkState
    BY <1>0, <1>13 DEF NetworkSendVoiceThrows, NetworkState
  <2>2. outgoing' \in Seq(Frame)
    BY <1>0, <1>13, HeadTailProperties DEF NetworkSendVoiceThrows
  <2>3. transmit' \in TransmitState
    BY <1>13, <1>w DEF NetworkSendVoiceThrows
  <2>4. sendFailures' \in Nat
    BY <1>0, <1>13 DEF NetworkSendVoiceThrows
  <2> QED BY <1>0, <1>13, <2>1, <2>2, <2>3, <2>4 DEF NetworkSendVoiceThrows, TransmitTypes, Wire
<1>14. ASSUME Delivery \/ OtherCommandSent PROVE TransmitTypes'
  <2>1. /\ command' \in {CommandId("taken"), CommandId("used"), CommandId("free")}
        /\ published' \in {published, command.state}
    BY <1>14 DEF Delivery, CommandRetransmitted, CommandAcknowledged, OtherCommandSent
  <2>2. command' \in CommandState /\ published' \in AudioState
    BY <1>0, <1>u, <2>1 DEF CommandId, CommandState
  <2> QED BY <1>0, <1>14, <2>2 DEF Delivery, CommandRetransmitted, CommandAcknowledged, OtherCommandSent,
                                   TransmitTypes, Wire
<1>15. ASSUME UNCHANGED vars PROVE TransmitTypes'
  BY <1>15 DEF vars, TransmitTypes
<1> QED BY <1>1, <1>2, <1>3, <1>4, <1>5, <1>6, <1>7, <1>8, <1>9, <1>10, <1>11, <1>12, <1>13, <1>14, <1>15
        DEF Next, Worker, Network

-----------------------------------------------------------------------------
(* Field types, for the proofs of the parts. *)
LEMMA TransmitFields ==
  ASSUME TransmitTypes
  PROVE  /\ transmit.revision \in Nat /\ transmit.enabled \in BOOLEAN
         /\ worker.state.revision \in Nat /\ worker.state.enabled \in BOOLEAN /\ worker.active \in BOOLEAN
         /\ network.seen \in Nat /\ network.state.revision \in Nat /\ network.state.enabled \in BOOLEAN
         /\ published.revision \in Nat /\ published.inputMuted \in BOOLEAN
         /\ command.state.revision \in Nat /\ dropped \in BOOLEAN
         /\ wire.frame \in Frame /\ wire.frame.revision \in Nat /\ wire.frame.talkEnd \in BOOLEAN
<1>1. worker.state \in TransmitState /\ network.state \in TransmitState /\ wire.frame \in Frame
      /\ worker.active \in BOOLEAN /\ network.seen \in Nat
  BY DEF TransmitTypes, WorkerState, NetworkState
<1> QED BY <1>1 DEF TransmitTypes, TransmitState, AudioState, CommandState, Frame

LEMMA NetworkKept ==
  ASSUME TransmitTypes, NetworkInv, [Next]_vars
  PROVE  NetworkInv'
<1>1. /\ transmit.revision \in Nat /\ transmit.enabled \in BOOLEAN
      /\ network.seen \in Nat /\ network.state.enabled \in BOOLEAN /\ published.revision \in Nat
      /\ command.state.revision \in Nat /\ Unpublished.revision = 0
  BY TransmitFields DEF Unpublished
<1>2. CASE UNCHANGED <<network, command, published, dropped>> /\ TransmitKept
  BY <1>2 DEF NetworkInv, TransmitKept, AddThrows
<1>3. CASE UNCHANGED <<network, command, published, dropped>> /\ TransmitChanged
  <2>1. network.seen <= transmit'.revision /\ network.seen # transmit'.revision
    BY <1>1, <1>3 DEF TransmitChanged, NetworkInv
  <2> QED BY <1>3, <2>1 DEF NetworkInv, AddThrows
<1>4. CASE Begins
  <2>1. network'.seen = transmit.revision
        /\ network'.state = IF transmit.revision # network.seen THEN transmit ELSE network.state
    BY <1>4 DEF Begins
  <2>2. network'.state = transmit
    BY <2>1 DEF NetworkInv
  <2>3. network'.state.revision = network'.seen
    BY <2>1, <2>2
  <2>0. /\ published.revision <= transmit.revision /\ command.state.revision <= transmit.revision
        /\ network.seen <= transmit.revision
    <3>1. /\ published.revision <= network.seen /\ network.seen <= transmit.revision
          /\ command.state.revision <= network.seen
      BY DEF NetworkInv
    <3> QED BY <1>1, <3>1
  <2>4. ASSUME TransmitKept, command' = CommandId("free"),
               \/ /\ published'.revision = network'.state.revision
                  /\ published'.inputMuted = ~network'.state.enabled
               \/ published' = published /\ dropped'
        PROVE  NetworkInv'
    <3>1. transmit' = transmit /\ network'.seen = transmit'.revision /\ network'.state = transmit'
      BY <2>1, <2>2, <2>4 DEF TransmitKept
    <3>2. published'.revision <= network'.seen
      BY <1>1, <2>0, <2>1, <2>3, <2>4
    <3>3. network'.seen <= transmit'.revision /\ ~AddThrows' /\ command'.state.revision <= network'.seen
      BY <1>1, <2>1, <2>4, <3>1 DEF AddThrows, CommandId
    <3>4. network'.state.enabled => dropped' \/ (published'.revision = network'.seen /\ ~published'.inputMuted)
      BY <2>3, <2>4
    <3> QED BY <2>3, <3>1, <3>2, <3>3, <3>4 DEF NetworkInv
  <2>5. ASSUME TransmitKept, UNCHANGED <<command, published, dropped>>, network.published,
               transmit.revision = network.seen
        PROVE  NetworkInv'
    <3>1. network.state = transmit /\ (AddThrows' <=> AddThrows)
      BY <2>5 DEF NetworkInv, AddThrows
    <3>2. network.state.enabled => dropped \/ (published.revision = network.seen /\ ~published.inputMuted)
      BY <2>5 DEF NetworkInv
    <3>3. published'.revision <= network'.seen /\ command'.state.revision <= network'.seen
      BY <2>0, <2>1, <2>5
    <3>4. AddThrows => ~network.state.enabled
      BY <2>5 DEF NetworkInv
    <3> QED BY <1>1, <2>1, <2>2, <2>3, <2>5, <3>1, <3>2, <3>3, <3>4 DEF NetworkInv, TransmitKept
  <2>6. ASSUME WithTransmit(FALSE), network'.pc = "idle", UNCHANGED <<published, dropped>>,
               \/ command' = command \/ command'.state = Unpublished
               \/ command'.state.revision = network'.state.revision
        PROVE  NetworkInv'
    <3>1. published'.revision <= network'.seen /\ command'.state.revision <= network'.seen
      BY <1>1, <2>0, <2>1, <2>3, <2>6
    <3>2. CASE transmit.enabled
      <4>1. transmit'.revision = transmit.revision + 1
        BY <1>1, <2>6, <3>2 DEF WithTransmit
      <4>2. network'.seen <= transmit'.revision /\ network'.seen # transmit'.revision
        BY <1>1, <2>1, <4>1
      <4> QED BY <2>3, <2>6, <3>1, <4>2 DEF NetworkInv
    <3>3. CASE ~transmit.enabled
      <4>1. transmit' = transmit
        BY <1>1, <2>6, <3>3 DEF WithTransmit
      <4>2. ~network'.state.enabled
        BY <2>2, <3>3
      <4> QED BY <1>1, <2>1, <2>2, <2>3, <3>1, <4>1, <4>2 DEF NetworkInv
    <3> QED BY <3>2, <3>3
  <2> QED BY <1>4, <2>4, <2>5, <2>6 DEF Begins
<1>5. CASE Ends
  <2>1. /\ network'.pc = "idle" /\ network'.seen = network.seen /\ network'.state = network.state
        /\ network'.published = network.published
    BY <1>5 DEF Ends, TransmitTypes, NetworkState
  <2>2. /\ UNCHANGED <<command, published, dropped>> /\ (TransmitKept \/ TransmitChanged)
        /\ network.pc = "popping" /\ (AddThrows' <=> AddThrows)
    BY <1>5 DEF Ends, TransmitKept, AddThrows
  <2>3. CASE TransmitKept
    BY <2>1, <2>2, <2>3 DEF NetworkInv, TransmitKept
  <2>4. CASE TransmitChanged
    <3>1. network.seen <= transmit'.revision /\ network.seen # transmit'.revision
      BY <1>1, <2>4 DEF TransmitChanged, NetworkInv
    <3> QED BY <2>1, <2>2, <3>1 DEF NetworkInv
  <2> QED BY <2>2, <2>3, <2>4
<1>6. CASE Delivers
  <2>1. /\ UNCHANGED <<transmit, network, dropped>> /\ (AddThrows' => AddThrows)
        /\ command'.state.revision = 0
        /\ published' = published \/ (AddThrows /\ published' = command.state)
    BY <1>1, <1>6 DEF Delivers
  <2>2. published'.revision <= network.seen /\ command'.state.revision <= network.seen
    BY <1>1, <2>1 DEF NetworkInv
  <2>3. ASSUME AddThrows, network.pc = "popping" \/ (network.published /\ network.seen = transmit.revision),
               network.state.enabled
        PROVE  FALSE
    BY <2>3 DEF NetworkInv
  <2> QED BY <2>1, <2>2, <2>3 DEF NetworkInv
<1>7. CASE Outside \/ StartsOver \/ Encodes \/ Pops
  BY <1>2, <1>3, <1>7 DEF Outside, StartsOver, Encodes, Pops, TransmitKept
<1> QED BY <1>4, <1>5, <1>6, <1>7, TransmitSteps

(* What has been sent is what was published when it was sent. *)
LEMMA VoiceKept ==
  ASSUME TransmitTypes, NetworkInv, VoiceMatchesPublished, [Next]_vars
  PROVE  VoiceMatchesPublished'
<1>1. CASE wire' = wire
  BY <1>1 DEF VoiceMatchesPublished
<1>2. CASE Pops /\ Sendable(Head(outgoing))
  <2>1. wire' = [frame |-> Head(outgoing), published |-> published, dropped |-> dropped]
    BY <1>2 DEF Pops
  <2>2. wire'.frame = Head(outgoing) /\ wire'.published = published /\ wire'.dropped = dropped
    BY <2>1
  <2>3. Head(outgoing).revision = network.seen /\ (~Head(outgoing).talkEnd => network.state.enabled)
    BY <1>2 DEF Sendable, NetworkInv
  <2>4. published.revision <= network.seen
    BY DEF NetworkInv
  <2>5. network.state.enabled => dropped \/ (published.revision = network.seen /\ ~published.inputMuted)
    BY <1>2 DEF NetworkInv, Pops
  <2>6. network.seen \in Nat /\ published.revision \in Nat
    BY TransmitFields
  <2>7. Head(outgoing).revision >= published.revision
    BY <2>3, <2>4, <2>6
  <2> QED BY <2>2, <2>3, <2>5, <2>7 DEF VoiceMatchesPublished
<1>3. CASE Pops /\ ~Sendable(Head(outgoing))
  BY <1>1, <1>3 DEF Pops
<1>4. CASE Outside \/ Delivers \/ StartsOver \/ Encodes \/ Begins \/ Ends
  BY <1>1, <1>4 DEF Outside, Delivers, StartsOver, Encodes, Begins, Ends
<1> QED BY <1>2, <1>3, <1>4, TransmitSteps

-----------------------------------------------------------------------------
(* A push puts a frame of the worker's revision behind older ones ... *)
LEMMA OrderAfterPush ==
  ASSUME TransmitTypes, TransmitTypes', OrderInv, wire' = wire,
         worker.state.revision <= worker'.state.revision, worker'.state.revision <= transmit'.revision,
         NEW frame, frame.revision = worker'.state.revision, Pushed(frame) \/ Unpushed
  PROVE  OrderInv'
<1>1. /\ outgoing \in Seq(Frame) /\ outgoing' \in Seq(Frame)
      /\ worker.state.revision \in Nat /\ wire.frame.revision \in Nat
  BY TransmitFields DEF TransmitTypes
<1>2. worker'.state.revision \in Nat
  <2>1. worker'.state \in TransmitState
    BY DEF TransmitTypes, WorkerState
  <2> QED BY <2>1 DEF TransmitState
<1>3. ASSUME NEW i \in 1 .. Len(outgoing) PROVE outgoing[i].revision \in Nat
  <2>1. outgoing[i] \in Frame
    BY <1>1, ElementOfSeq
  <2> QED BY <2>1 DEF Frame
<1>4. wire'.frame.revision <= worker'.state.revision
  BY <1>1, <1>2 DEF OrderInv
<1>5. CASE outgoing' = outgoing
  BY <1>1, <1>2, <1>3, <1>4, <1>5 DEF OrderInv
<1>6. CASE outgoing' = Append(outgoing, frame)
  <2>1. /\ Len(outgoing') = Len(outgoing) + 1 /\ Len(outgoing) \in Nat
        /\ \A i \in 1 .. Len(outgoing) : outgoing'[i] = outgoing[i]
        /\ outgoing'[Len(outgoing) + 1] = frame
    BY <1>1, <1>6
  <2>3. ASSUME NEW i \in 1 .. Len(outgoing')
        PROVE  /\ wire'.frame.revision <= outgoing'[i].revision
               /\ outgoing'[i].revision <= worker'.state.revision
    <3>1. CASE i = Len(outgoing) + 1
      BY <1>2, <1>4, <2>1, <3>1
    <3>2. CASE i \in 1 .. Len(outgoing)
      <4>1. wire.frame.revision <= outgoing[i].revision /\ outgoing[i].revision <= worker.state.revision
        BY <3>2 DEF OrderInv
      <4>2. outgoing[i].revision <= worker'.state.revision
        BY <1>1, <1>2, <1>3, <3>2, <4>1
      <4> QED BY <2>1, <3>2, <4>1, <4>2
    <3> QED BY <2>1, <3>1, <3>2
  <2>4. ASSUME NEW i \in 1 .. Len(outgoing'), NEW j \in i .. Len(outgoing')
        PROVE  outgoing'[i].revision <= outgoing'[j].revision
    <3>1. CASE j = Len(outgoing) + 1
      BY <2>1, <2>3, <3>1
    <3>2. CASE j # Len(outgoing) + 1
      <4>1. i \in 1 .. Len(outgoing) /\ j \in i .. Len(outgoing) /\ j \in 1 .. Len(outgoing)
        BY <2>1, <3>2
      <4> QED BY <2>1, <4>1 DEF OrderInv
    <3> QED BY <3>1, <3>2
  <2> QED BY <1>4, <2>3, <2>4 DEF OrderInv
<1> QED BY <1>5, <1>6 DEF Pushed, Unpushed

(* ... and a pop takes the oldest away, to the wire or not. *)
LEMMA OrderAfterPop ==
  ASSUME TransmitTypes, OrderInv, worker'.state = worker.state,
         worker.state.revision <= transmit'.revision, outgoing # <<>>, outgoing' = Tail(outgoing),
         wire' = wire \/ wire'.frame = Head(outgoing)
  PROVE  OrderInv'
<1>1. outgoing \in Seq(Frame)
  BY DEF TransmitTypes
<1>2. /\ Len(outgoing) \in Nat /\ Len(outgoing) >= 1 /\ Len(outgoing') = Len(outgoing) - 1
      /\ \A i \in 1 .. Len(outgoing') : outgoing'[i] = outgoing[i + 1]
      /\ Head(outgoing) = outgoing[1]
  BY <1>1, HeadTailProperties
<1>3. wire'.frame.revision <= worker'.state.revision
  BY <1>2 DEF OrderInv
<1>4. ASSUME NEW i \in 1 .. Len(outgoing')
      PROVE  /\ wire'.frame.revision <= outgoing'[i].revision
             /\ outgoing'[i].revision <= worker'.state.revision
  <2>1. outgoing'[i] = outgoing[i + 1] /\ i + 1 \in 1 .. Len(outgoing) /\ 1 \in 1 .. Len(outgoing)
    BY <1>2
  <2>2. outgoing[1].revision <= outgoing[i + 1].revision
    BY <1>2, <2>1 DEF OrderInv
  <2> QED BY <1>2, <2>1, <2>2 DEF OrderInv
<1>5. ASSUME NEW i \in 1 .. Len(outgoing'), NEW j \in i .. Len(outgoing')
      PROVE  outgoing'[i].revision <= outgoing'[j].revision
  <2>1. /\ outgoing'[i] = outgoing[i + 1] /\ i + 1 \in 1 .. Len(outgoing)
        /\ outgoing'[j] = outgoing[j + 1] /\ j + 1 \in i + 1 .. Len(outgoing)
    BY <1>2
  <2> QED BY <2>1 DEF OrderInv
<1> QED BY <1>3, <1>4, <1>5 DEF OrderInv

(* m_TransmitState's revision never goes back. *)
LEMMA RevisionGrows ==
  ASSUME TransmitTypes, [Next]_vars
  PROVE  transmit'.revision \in Nat /\ transmit.revision <= transmit'.revision
<1>1. transmit \in TransmitState /\ transmit.revision \in Nat
  BY TransmitFields DEF TransmitTypes
<1>2. TransmitKept \/ TransmitChanged
  BY <1>1, TransmitSteps, WithTransmitStep
     DEF Outside, Delivers, StartsOver, Encodes, Begins, Pops, Ends, TransmitKept
<1>3. transmit'.revision = transmit.revision \/ transmit'.revision = transmit.revision + 1
  BY <1>2 DEF TransmitKept, TransmitChanged
<1> QED BY <1>1, <1>3

LEMMA OrderKept ==
  ASSUME TransmitTypes, TransmitTypes', OrderInv, [Next]_vars
  PROVE  OrderInv'
<1>1. /\ transmit.revision \in Nat /\ worker.state.revision \in Nat
      /\ transmit'.revision \in Nat /\ transmit.revision <= transmit'.revision
      /\ worker.state.revision <= transmit.revision
  BY TransmitFields, RevisionGrows DEF OrderInv
<1>2. worker.state.revision <= transmit'.revision /\ worker.state.revision <= worker.state.revision
  BY <1>1
<1> DEFINE last == TalkEnd(worker'.state.revision)
<1>3. last.revision = worker'.state.revision
  BY DEF TalkEnd
<1> HIDE DEF last
<1>4. ASSUME wire' = wire, worker'.state = worker.state, Unpushed PROVE OrderInv'
  BY <1>2, <1>3, <1>4, OrderAfterPush
<1>5. CASE StartsOver
  <2>1. worker'.state = transmit /\ transmit' = transmit /\ wire' = wire
    BY <1>5 DEF StartsOver
  <2>2. worker.state.revision <= worker'.state.revision /\ worker'.state.revision <= transmit'.revision
    BY <1>1, <2>1
  <2>3. Pushed(last) \/ Unpushed
    BY <1>5, <2>1 DEF StartsOver, last
  <2> QED BY <1>3, <2>1, <2>2, <2>3, OrderAfterPush
<1>6. CASE Encodes
  <2>1. worker'.state = worker.state /\ wire' = wire
    BY <1>6 DEF Encodes
  <2>2. PICK frame : frame.revision = worker'.state.revision /\ (Pushed(frame) \/ Unpushed)
    <3>1. CASE Unpushed
      BY <1>3, <3>1
    <3>2. CASE Pushed(last)
      BY <1>3, <3>2
    <3>3. ASSUME NEW start \in BOOLEAN,
                 Pushed([revision |-> worker.state.revision, talkStart |-> start, talkEnd |-> FALSE])
          PROVE  \E frame : frame.revision = worker'.state.revision /\ (Pushed(frame) \/ Unpushed)
      BY <2>1, <3>3
    <3> QED BY <1>6, <2>1, <3>1, <3>2, <3>3 DEF Encodes, last
  <2> QED BY <1>2, <2>1, <2>2, OrderAfterPush
<1>7. CASE Pops
  <2>1. wire' = wire \/ wire'.frame = Head(outgoing)
    BY <1>7 DEF Pops
  <2> QED BY <1>2, <1>7, <2>1, OrderAfterPop DEF Pops
<1>8. CASE Ends
  <2>1. CASE outgoing' = outgoing
    BY <1>4, <1>8, <2>1 DEF Ends, Unpushed
  <2>2. CASE outgoing # <<>> /\ outgoing' = Tail(outgoing)
    BY <1>2, <1>8, <2>2, OrderAfterPop DEF Ends
  <2> QED BY <1>8, <2>1, <2>2 DEF Ends
<1>9. CASE Outside \/ Delivers \/ Begins
  BY <1>4, <1>9 DEF Outside, Delivers, Begins, Unpushed
<1> QED BY <1>5, <1>6, <1>7, <1>8, <1>9, TransmitSteps

-----------------------------------------------------------------------------
LEMMA TakenKept ==
  ASSUME TransmitTypes, NetworkInv, TakenInv, [Next]_vars
  PROVE  TakenInv'
<1>1. /\ network.seen \in Nat /\ wire.frame.revision \in Nat /\ transmit.revision \in Nat
      /\ network.seen <= transmit.revision
  BY TransmitFields DEF NetworkInv
<1>2. ASSUME wire' = wire, network'.seen = network.seen, network'.state = network.state PROVE TakenInv'
  BY <1>2 DEF TakenInv
<1>3. CASE Begins
  <2>1. /\ network'.seen = transmit.revision /\ wire' = wire
        /\ transmit.revision = network.seen => network'.state = network.state
    BY <1>3 DEF Begins
  <2>2. CASE transmit.revision = network.seen
    BY <1>2, <2>1, <2>2
  <2>3. CASE transmit.revision > network.seen
    <3>1. ASSUME ~wire.frame.talkEnd PROVE transmit.revision > wire.frame.revision
      BY <1>1, <2>3, <3>1 DEF TakenInv
    <3> QED BY <2>1, <3>1 DEF TakenInv
  <2> QED BY <1>1, <2>2, <2>3
<1>4. CASE Pops /\ Sendable(Head(outgoing))
  <2>1. wire'.frame = Head(outgoing) /\ network' = network
    BY <1>4 DEF Pops
  <2>2. Head(outgoing).revision = network.seen /\ (~Head(outgoing).talkEnd => network.state.enabled)
    BY <1>4 DEF Sendable, NetworkInv
  <2> QED BY <2>1, <2>2 DEF TakenInv
<1>5. CASE Pops /\ ~Sendable(Head(outgoing))
  BY <1>2, <1>5 DEF Pops
<1>6. CASE Ends
  <2>1. network'.seen = network.seen /\ network'.state = network.state /\ wire' = wire
    BY <1>6 DEF Ends, TransmitTypes, NetworkState
  <2> QED BY <1>2, <2>1
<1>7. CASE Outside \/ Delivers \/ StartsOver \/ Encodes
  BY <1>2, <1>7 DEF Outside, Delivers, StartsOver, Encodes
<1> QED BY <1>3, <1>4, <1>5, <1>6, <1>7, TransmitSteps

(* The newest frame is the one pushed last, and none is newer than the       *)
(* worker's state.                                                           *)
LEMMA NewestAfterPush ==
  ASSUME TransmitTypes, NEW frame, outgoing' = Append(outgoing, frame)
  PROVE  Newest' = frame
<1>1. outgoing \in Seq(Frame)
  BY DEF TransmitTypes
<1>2. Len(outgoing') = Len(outgoing) + 1 /\ outgoing'[Len(outgoing) + 1] = frame /\ outgoing' # <<>>
  BY <1>1
<1> QED BY <1>2 DEF Newest

LEMMA NewestBounded ==
  ASSUME TransmitTypes, OrderInv
  PROVE  Newest.revision \in Nat /\ Newest.revision <= worker.state.revision
<1>1. outgoing \in Seq(Frame) /\ wire.frame.revision \in Nat
  BY TransmitFields DEF TransmitTypes
<1>2. CASE outgoing = <<>>
  BY <1>1, <1>2 DEF Newest, OrderInv
<1>3. CASE outgoing # <<>>
  <2>1. Len(outgoing) \in 1 .. Len(outgoing)
    BY <1>1, <1>3
  <2>2. outgoing[Len(outgoing)] \in Frame
    BY <1>1, <2>1, ElementOfSeq
  <2>3. Newest = outgoing[Len(outgoing)]
    BY <1>3 DEF Newest
  <2> QED BY <2>1, <2>2, <2>3 DEF OrderInv, Frame
<1> QED BY <1>2, <1>3

LEMMA GateKept ==
  ASSUME TransmitTypes, NetworkInv, OrderInv, TakenInv, GateInv, [Next]_vars
  PROVE  GateInv'
<1>1. /\ transmit.revision \in Nat /\ worker.state.revision \in Nat
      /\ worker.state.revision <= transmit.revision
      /\ network.seen \in Nat /\ network.seen <= transmit.revision
      /\ wire.frame.revision \in Nat /\ sendFailures \in Nat
      /\ worker.active \in BOOLEAN /\ worker.state.enabled \in BOOLEAN
  BY TransmitFields DEF OrderInv, NetworkInv, TransmitTypes
<1>2. Newest.revision \in Nat /\ Newest.revision <= worker.state.revision
  BY NewestBounded
<1> SUFFICES ASSUME OpenSpeech' PROVE worker'.active /\ worker'.state.enabled
  BY DEF GateInv
<1>3. /\ ~encodedDrops' /\ sendFailures' = 0
      /\ ~Newest'.talkEnd /\ Newest'.revision = worker'.state.revision
      /\ worker'.state.revision = transmit'.revision
  BY DEF OpenSpeech
<1>4. ASSUME Newest' = Newest, worker'.state = worker.state, worker'.active = worker.active,
             transmit'.revision = transmit.revision, encodedDrops' = encodedDrops, sendFailures = 0
      PROVE  worker'.active /\ worker'.state.enabled
  BY <1>3, <1>4 DEF GateInv, OpenSpeech
<1>5. ASSUME outgoing' = outgoing, wire' = wire PROVE Newest' = Newest
  BY <1>5 DEF Newest
<1>6. ASSUME TransmitKept \/ TransmitChanged, worker'.state = worker.state PROVE TransmitKept
  <2>1. ASSUME TransmitChanged PROVE FALSE
    BY <1>1, <1>3, <1>6, <2>1 DEF TransmitChanged
  <2> QED BY <1>6, <2>1
<1>7. CASE Outside
  <2>1. TransmitKept /\ Newest' = Newest
    BY <1>5, <1>6, <1>7 DEF Outside
  <2> QED BY <1>3, <1>4, <1>7, <2>1 DEF Outside, TransmitKept
<1>8. CASE StartsOver
  <2>1. worker'.state = transmit /\ transmit' = transmit /\ wire' = wire /\ sendFailures = 0
    BY <1>3, <1>8 DEF StartsOver
  <2>2. CASE Pushed(TalkEnd(transmit.revision))
    <3>1. Newest' = TalkEnd(transmit.revision)
      BY <1>3, <2>2, NewestAfterPush DEF Pushed
    <3> QED BY <1>3, <3>1 DEF TalkEnd
  <2>3. CASE Unpushed /\ ~(worker.active /\ worker.state.enabled)
    <3>1. Newest' = Newest /\ ~encodedDrops
      BY <1>3, <1>5, <2>1, <2>3 DEF Unpushed
    <3>2. Newest.revision = transmit.revision /\ ~Newest.talkEnd
      BY <1>3, <2>1, <3>1
    <3>3. worker.state.revision = transmit.revision
      BY <1>1, <1>2, <3>2
    <3> QED BY <2>1, <2>3, <3>1, <3>2, <3>3 DEF GateInv, OpenSpeech
  <2> QED BY <1>8, <2>2, <2>3 DEF StartsOver
<1>9. CASE Encodes
  <2>1. worker'.state = worker.state /\ transmit' = transmit /\ wire' = wire /\ sendFailures = 0
    BY <1>3, <1>9 DEF Encodes
  <2>2. ASSUME Unpushed PROVE worker.active /\ worker.state.enabled
    <3>1. Newest' = Newest /\ ~encodedDrops
      BY <1>3, <1>5, <2>1, <2>2 DEF Unpushed
    <3> QED BY <1>3, <2>1, <3>1 DEF GateInv, OpenSpeech
  <2>3. ASSUME Pushed(TalkEnd(worker.state.revision)) PROVE FALSE
    <3>1. Newest' = TalkEnd(worker.state.revision)
      BY <1>3, <2>3, NewestAfterPush DEF Pushed
    <3> QED BY <1>3, <3>1 DEF TalkEnd
  <2> QED BY <1>9, <2>1, <2>2, <2>3 DEF Encodes
<1>10. CASE Begins
  <2>1. TransmitKept \/ TransmitChanged
    BY <1>10, WithTransmitStep DEF Begins, TransmitTypes
  <2>2. TransmitKept /\ Newest' = Newest /\ worker' = worker /\ encodedDrops' = encodedDrops
    BY <1>5, <1>6, <1>10, <2>1 DEF Begins
  <2>3. sendFailures = 0
    BY <1>1, <1>3, <1>10 DEF Begins
  <2> QED BY <1>4, <2>2, <2>3 DEF TransmitKept
<1>11. CASE Pops
  <2>1. /\ worker' = worker /\ transmit' = transmit /\ encodedDrops' = encodedDrops /\ sendFailures = 0
        /\ outgoing # <<>> /\ outgoing' = Tail(outgoing) /\ outgoing \in Seq(Frame)
    BY <1>3, <1>11 DEF Pops, TransmitTypes
  <2>2. /\ Len(outgoing) \in Nat /\ Len(outgoing) >= 1 /\ Len(outgoing') = Len(outgoing) - 1
        /\ \A i \in 1 .. Len(outgoing') : outgoing'[i] = outgoing[i + 1]
        /\ Head(outgoing) = outgoing[1] /\ Newest = outgoing[Len(outgoing)]
        /\ outgoing' \in Seq(Frame)
    BY <2>1, HeadTailProperties DEF Newest
  <2>3. CASE Len(outgoing) > 1
    <3>1. outgoing' # <<>> /\ outgoing'[Len(outgoing')] = outgoing[Len(outgoing)]
      BY <2>2, <2>3
    <3>2. Newest' = Newest
      BY <2>2, <3>1 DEF Newest
    <3> QED BY <1>4, <2>1, <3>2
  <2>4. CASE Len(outgoing) = 1
    <3>1. outgoing' = <<>> /\ Newest = Head(outgoing)
      BY <2>2, <2>4
    <3>2. Newest' = wire'.frame
      BY <3>1 DEF Newest
    <3>3. CASE Sendable(Head(outgoing))
      <4>1. wire'.frame = Head(outgoing)
        BY <1>11, <3>3 DEF Pops
      <4> QED BY <1>4, <2>1, <3>1, <3>2, <4>1
    <3>4. CASE ~Sendable(Head(outgoing))
      (* The frame before it was of the same revision, and sent. *)
      <4>1. wire' = wire
        BY <1>11, <3>4 DEF Pops
      <4>2. ~wire.frame.talkEnd /\ wire.frame.revision = transmit.revision
        BY <1>3, <2>1, <3>2, <4>1
      <4>3. wire.frame.revision <= Head(outgoing).revision
        BY <2>2, <2>4 DEF OrderInv
      <4>4. Head(outgoing).revision = transmit.revision
        BY <1>1, <1>2, <3>1, <4>2, <4>3
      <4>5. network.seen = transmit.revision /\ network.state.enabled
        BY <1>1, <4>2 DEF TakenInv
      <4>6. Sendable(Head(outgoing))
        BY <4>4, <4>5 DEF Sendable, NetworkInv
      <4> QED BY <3>4, <4>6
    <3> QED BY <3>3, <3>4
  <2> QED BY <2>2, <2>3, <2>4
<1>12. CASE Ends
  <2>1. sendFailures' # sendFailures + 1
    BY <1>1, <1>3
  <2>2. Newest' = Newest /\ worker' = worker /\ transmit' = transmit /\ encodedDrops' = encodedDrops
        /\ sendFailures = 0
    BY <1>3, <1>5, <1>12, <2>1 DEF Ends
  <2> QED BY <1>4, <2>2
<1>13. CASE Delivers
  <2>1. TransmitKept /\ Newest' = Newest
    BY <1>5, <1>13 DEF Delivers, TransmitKept
  <2> QED BY <1>3, <1>4, <1>13, <2>1 DEF Delivers, TransmitKept
<1> QED BY <1>7, <1>8, <1>9, <1>10, <1>11, <1>12, <1>13, TransmitSteps

-----------------------------------------------------------------------------
LEMMA TransmitInvInit ==
  ASSUME Init
  PROVE  TransmitInv
<1> USE DEF Init
<1>1. TransmitTypes
  <2>1. <<>> \in Seq(BOOLEAN) /\ <<>> \in Seq(Frame)
    OBVIOUS
  <2>2. Off \in TransmitState /\ Unpublished \in AudioState /\ NoFrame \in Frame
        /\ [enabled |-> FALSE, revision |-> 1] \in TransmitState
    BY DEF Off, Unpublished, NoFrame, TransmitState, AudioState, Frame
  <2>3. worker \in WorkerState
    BY <2>2, TransmitAssumption DEF WorkerState
  <2>4. network \in NetworkState
    BY <2>2 DEF NetworkState
  <2>5. command \in CommandState /\ wire \in [frame : Frame, published : AudioState, dropped : BOOLEAN]
    BY <2>2 DEF CommandState, CommandId
  <2> QED BY <2>1, <2>2, <2>3, <2>4, <2>5, TransmitAssumption DEF TransmitTypes
<1>2. NetworkInv
  BY DEF NetworkInv, Off, Unpublished, CommandId, AddThrows
<1>3. OrderInv
  BY DEF OrderInv, Off, NoFrame
<1>4. TakenInv /\ GateInv
  BY DEF TakenInv, GateInv, OpenSpeech, Newest, NoFrame
<1>5. VoiceMatchesPublished
  BY DEF VoiceMatchesPublished, NoFrame, Unpublished
<1> QED BY <1>1, <1>2, <1>3, <1>4, <1>5 DEF TransmitInv

LEMMA TransmitInvStep ==
  ASSUME TransmitInv, [Next]_vars
  PROVE  TransmitInv'
<1>1. TransmitTypes /\ NetworkInv /\ OrderInv /\ TakenInv /\ GateInv /\ VoiceMatchesPublished
  BY DEF TransmitInv
<1>2. TransmitTypes'
  BY <1>1, TransmitTypesStep
<1> QED BY <1>1, <1>2, NetworkKept, OrderKept, TakenKept, GateKept, VoiceKept DEF TransmitInv

LEMMA TransmitInvAlways == Spec => []TransmitInv
  BY TransmitInvInit, TransmitInvStep, PTL DEF Spec

(* Every voice packet belongs to the talking period the server was last told *)
(* of when it left (NetworkRuntime::ProcessAudio), whatever the user and the *)
(* audio worker do in between, unless a Send that threw before has made the  *)
(* server drop the announcement of that period as a duplicate.               *)
THEOREM VoiceIsPublished == Spec => []VoiceMatchesPublished
<1>1. TransmitInv => VoiceMatchesPublished
  BY DEF TransmitInv
<1> QED BY <1>1, TransmitInvAlways, PTL

(* A burst that ends by silence is closed on the wire (ProcessCapture's      *)
(* talk-end), for gates and rings of every size.                             *)
THEOREM SilenceIsSent == Spec => []SilenceClosesBurst
<1>1. ASSUME TransmitInv PROVE SilenceClosesBurst
  <2> SUFFICES ASSUME Caught, ~worker.active, ~encodedDrops, sendFailures = 0, BurstOpen,
                      wire.frame.revision = transmit.revision
               PROVE  FALSE
    BY DEF SilenceClosesBurst
  <2>1. Newest = wire.frame /\ worker.state.revision = transmit.revision
    BY DEF Caught, Newest
  <2>2. OpenSpeech
    BY <2>1 DEF OpenSpeech, BurstOpen
  <2> QED BY <1>1, <2>2 DEF TransmitInv, GateInv
<1> QED BY <1>1, TransmitInvAlways, PTL

-----------------------------------------------------------------------------
(* What VoiceReceiveAssumption says of the numbers the code fixes: a frame   *)
(* comes late by less than half a cycle of voice ids.                        *)
VoiceNumbers ==
  /\ Modulus \in Nat /\ Half \in Nat /\ Half > 0 /\ 2 * Half <= Modulus
  /\ MaxDelay \in Nat /\ MaxDelay + 1 <= Half
  /\ FirstId \in Nat /\ Gap \in Nat /\ MaxSent \in Nat /\ MaxSentNew \in Nat
  /\ None = Modulus

Ids == 0 .. Modulus - 1

LEMMA Numbers == VoiceNumbers
<1>1. Modulus \in Nat /\ MaxReorder \in Nat /\ MaxDelay \in Nat /\ FirstId \in Nat
      /\ Gap \in Nat /\ MaxSent \in Nat /\ MaxSentNew \in Nat
  BY VoiceReceiveAssumption
<1>2. MaxReorder + MaxDelay < Modulus \div 2 /\ MaxReorder > 0
  BY VoiceReceiveAssumption
<1>3. Half \in Nat /\ 2 * Half <= Modulus
  BY <1>1 DEF Half
<1> QED BY <1>1, <1>2, <1>3 DEF VoiceNumbers, Half, None

(* Remainders: the one that a quotient leaves, and that of a sum.            *)
LEMMA Remainder ==
  ASSUME NEW m \in Nat, m > 0, NEW y \in Nat, NEW q \in Int, NEW r \in 0 .. m - 1, y = m * q + r
  PROVE  y % m = r
<1> DEFINE p == y \div m
           s == y % m
<1>1. y = m * p + s /\ s \in 0 .. m - 1 /\ p \in Int
  OBVIOUS
<1> HIDE DEF p, s
<1>2. m * (q - p) = s - r
  BY <1>1
<1>3. q - p >= 1 => m * (q - p) >= m
  BY <1>1
<1>4. q - p <= -1 => m * (p - q) >= m /\ m * (q - p) = -(m * (p - q))
  BY <1>1
<1>5. q = p
  BY <1>1, <1>2, <1>3, <1>4
<1> QED BY <1>1, <1>5 DEF s

LEMMA Shifted ==
  ASSUME NEW m \in Nat, m > 0, NEW x \in Nat, NEW d \in 0 .. m - 1
  PROVE  /\ x % m \in 0 .. m - 1
         /\ (x + d) % m = IF (x % m) + d < m THEN (x % m) + d ELSE (x % m) + d - m
<1> DEFINE q == x \div m
           r == x % m
<1>1. x = m * q + r /\ r \in 0 .. m - 1 /\ q \in Int
  OBVIOUS
<1> HIDE DEF q, r
<1>2. CASE r + d < m
  <2>1. x + d = m * q + (r + d) /\ r + d \in 0 .. m - 1 /\ x + d \in Nat
    BY <1>1, <1>2
  <2> QED BY <1>1, <1>2, <2>1, Remainder DEF r
<1>3. CASE r + d >= m
  <2>1. x + d = m * (q + 1) + (r + d - m) /\ r + d - m \in 0 .. m - 1 /\ x + d \in Nat
              /\ q + 1 \in Int
    BY <1>1, <1>3
  <2>2. (x + d) % m = r + d - m
    BY ONLY <2>1, m \in Nat, m > 0, Remainder
  <2> QED BY <1>1, <1>3, <2>2 DEF r
<1> QED BY <1>1, <1>2, <1>3

(* VoiceJitterBuffer::Distance without a remainder. *)
LEMMA DistanceType ==
  ASSUME VoiceNumbers, NEW from \in Ids, NEW to \in Ids
  PROVE  /\ Distance(from, to) = IF from <= to THEN to - from ELSE to + Modulus - from
         /\ Distance(from, to) \in Ids /\ Distance(from, to) \in Nat
<1>1. CASE from <= to
  <2>1. to + Modulus - from = Modulus * 1 + (to - from) /\ to - from \in 0 .. Modulus - 1
        /\ to + Modulus - from \in Nat /\ Modulus > 0
    BY <1>1 DEF VoiceNumbers, Ids
  <2> QED BY <1>1, <2>1, Remainder DEF Distance, Ids, VoiceNumbers
<1>2. CASE from > to
  <2>1. to + Modulus - from = Modulus * 0 + (to + Modulus - from)
        /\ to + Modulus - from \in 0 .. Modulus - 1 /\ to + Modulus - from \in Nat /\ Modulus > 0
    BY <1>2 DEF VoiceNumbers, Ids
  <2> QED BY <1>2, <2>1, Remainder DEF Distance, Ids, VoiceNumbers
<1> QED BY <1>1, <1>2 DEF Ids, VoiceNumbers

(* Voice ids, and the one Advance makes the expected one. *)
LEMMA VoiceIdType ==
  ASSUME VoiceNumbers, NEW who, NEW n \in Nat
  PROVE  VoiceId(who, n) \in Ids
               /\ (VoiceId(who, n) + 1) % Modulus = VoiceId(who, n + 1)
<1> DEFINE x == (IF who = 1 THEN FirstId ELSE 0) + n
<1>1. x \in Nat /\ Modulus \in Nat /\ Modulus > 1
  BY DEF VoiceNumbers
<1>2. VoiceId(who, n) = x % Modulus /\ VoiceId(who, n + 1) = (x + 1) % Modulus
  BY <1>1 DEF VoiceId, VoiceNumbers
<1> HIDE DEF x
<1>3. x % Modulus \in 0 .. Modulus - 1
      /\ (x + 1) % Modulus = IF (x % Modulus) + 1 < Modulus THEN (x % Modulus) + 1
            ELSE (x % Modulus) + 1 - Modulus
  BY <1>1, Shifted
<1>4. CASE (x % Modulus) + 1 < Modulus
  <2>1. ((x % Modulus) + 1) % Modulus = (x % Modulus) + 1
    BY <1>1, <1>3, <1>4
  <2> QED BY <1>2, <1>3, <1>4, <2>1 DEF Ids
<1>5. CASE (x % Modulus) + 1 = Modulus
  <2>1. ((x % Modulus) + 1) % Modulus = 0
    BY <1>1, <1>3, <1>5
  <2> QED BY <1>1, <1>2, <1>3, <1>5, <2>1 DEF Ids
<1> QED BY <1>1, <1>3, <1>4, <1>5

(* The distance of voice ids is the distance of the frames, as long as it is *)
(* less than a cycle.                                                        *)
LEMMA Ahead ==
  ASSUME VoiceNumbers, NEW who, NEW a \in Nat, NEW b \in Nat, a <= b, b < a + Modulus
  PROVE  Distance(VoiceId(who, a), VoiceId(who, b)) = b - a
<1> DEFINE x == (IF who = 1 THEN FirstId ELSE 0) + a
           d == b - a
<1>1. x \in Nat /\ Modulus \in Nat /\ Modulus > 0 /\ d \in 0 .. Modulus - 1
  BY DEF VoiceNumbers
<1>2. VoiceId(who, a) = x % Modulus /\ VoiceId(who, b) = (x + d) % Modulus
  <2>1. (IF who = 1 THEN FirstId ELSE 0) + b = x + d
    BY DEF VoiceNumbers
  <2> QED BY <2>1 DEF VoiceId
<1>3. VoiceId(who, a) \in Ids /\ VoiceId(who, b) \in Ids
  BY VoiceIdType
<1> HIDE DEF x, d
<1>4. VoiceId(who, b) = IF VoiceId(who, a) + d < Modulus THEN VoiceId(who, a) + d
                        ELSE VoiceId(who, a) + d - Modulus
  <2>1. (x + d) % Modulus = IF (x % Modulus) + d < Modulus THEN (x % Modulus) + d
                            ELSE (x % Modulus) + d - Modulus
    BY ONLY <1>1, Shifted
  <2> QED BY ONLY <1>2, <2>1
<1>5. Distance(VoiceId(who, a), VoiceId(who, b)) = d
  <2> DEFINE v == VoiceId(who, a)
             w == VoiceId(who, b)
  <2>1. v \in Ids /\ w \in Ids
    BY <1>3
  <2>2. w = IF v + d < Modulus THEN v + d ELSE v + d - Modulus
    BY <1>4
  <2> HIDE DEF v, w
  <2>3. Distance(v, w) = IF v <= w THEN w - v ELSE w + Modulus - v
    BY <2>1, DistanceType
  <2>4. Distance(v, w) = d
    BY ONLY <1>1, <2>1, <2>2, <2>3 DEF Ids
  <2> QED BY <2>4 DEF v, w
<1> QED BY <1>5 DEF d

(* A frame up to half a cycle back has a distance of half a cycle or more. *)
LEMMA Behind ==
  ASSUME VoiceNumbers, NEW who, NEW a \in Nat, NEW b \in Nat, b < a, a <= b + Half
  PROVE  Distance(VoiceId(who, a), VoiceId(who, b)) >= Half
<1>1. VoiceId(who, a) \in Ids /\ VoiceId(who, b) \in Ids
  BY VoiceIdType
<1>2. Distance(VoiceId(who, b), VoiceId(who, a)) = a - b
  BY Ahead DEF VoiceNumbers
<1> DEFINE v == VoiceId(who, a)
           w == VoiceId(who, b)
<1>3. v \in Ids /\ w \in Ids /\ Distance(w, v) = a - b
  BY <1>1, <1>2
<1> HIDE DEF v, w
<1>4. /\ Distance(v, w) = IF v <= w THEN w - v ELSE w + Modulus - v
      /\ Distance(w, v) = IF w <= v THEN v - w ELSE v + Modulus - w
  BY <1>3, DistanceType
<1>5. Distance(v, w) >= Half
  BY <1>3, <1>4 DEF Ids, VoiceNumbers
<1> QED BY <1>5 DEF v, w

(* The frame an id stands for, counted from the expected one. *)
LEMMA Standing ==
  ASSUME VoiceNumbers, NEW who, NEW a \in Nat, NEW id \in Ids
  PROVE  /\ a + Distance(VoiceId(who, a), id) \in Nat
         /\ VoiceId(who, a + Distance(VoiceId(who, a), id)) = id
<1> DEFINE x == (IF who = 1 THEN FirstId ELSE 0) + a
           d == Distance(VoiceId(who, a), id)
<1>1. VoiceId(who, a) \in Ids
  BY VoiceIdType
<1>2. d \in 0 .. Modulus - 1 /\ d = IF VoiceId(who, a) <= id THEN id - VoiceId(who, a)
                                     ELSE id + Modulus - VoiceId(who, a)
  BY <1>1, DistanceType DEF Ids
<1>3. x \in Nat /\ Modulus \in Nat /\ Modulus > 0
  BY DEF VoiceNumbers
<1> HIDE DEF d
<1>4. VoiceId(who, a) = x % Modulus /\ VoiceId(who, a + d) = (x + d) % Modulus
  <2>1. (IF who = 1 THEN FirstId ELSE 0) + (a + d) = x + d
    BY <1>2 DEF VoiceNumbers
  <2> QED BY <2>1 DEF VoiceId
<1> HIDE DEF x
<1>5. VoiceId(who, a + d) = IF VoiceId(who, a) + d < Modulus THEN VoiceId(who, a) + d
                            ELSE VoiceId(who, a) + d - Modulus
  <2>1. d \in 0 .. Modulus - 1
    BY <1>2
  <2>2. (x + d) % Modulus = IF (x % Modulus) + d < Modulus THEN (x % Modulus) + d
                            ELSE (x % Modulus) + d - Modulus
    BY ONLY <2>1, <1>3, Shifted
  <2> QED BY ONLY <1>4, <2>2
<1>6. VoiceId(who, a + d) = id
  <2> DEFINE v == VoiceId(who, a)
  <2>1. v \in Ids /\ d \in 0 .. Modulus - 1
        /\ d = (IF v <= id THEN id - v ELSE id + Modulus - v)
    BY <1>1, <1>2
  <2>2. VoiceId(who, a + d) = IF v + d < Modulus THEN v + d ELSE v + d - Modulus
    BY <1>5
  <2> HIDE DEF v
  <2> QED BY ONLY <1>3, <2>1, <2>2, id \in Ids DEF Ids
<1>7. a + d \in Nat
  BY <1>2, <1>3
<1> QED BY <1>6, <1>7 DEF d

-----------------------------------------------------------------------------
(* What the queues, the jitter buffer and a talker are made of. *)
Frames == [who : {1, 2}, n : Nat, id : Ids, start : BOOLEAN, end : BOOLEAN, size : Nat]
Packets == [who : {1, 2}, n : Nat, id : Ids, payload : {"voice", "none"}, size : Nat,
            flagged : BOOLEAN]
Pendings == UNION {[ids -> Frames] : ids \in SUBSET Ids}
Jitters == [expected : 0 .. Modulus, end : 0 .. Modulus, pending : Pendings, losses : Nat,
            started : BOOLEAN, first : BOOLEAN, who : 0 .. 2, at : Nat,
            last : [who : 0 .. 2, n : Nat]]
Talkers == [jitter : Jitters, decoded : Nat, packet : Nat, ordered : BOOLEAN, refused : BOOLEAN]

(* m_Pending, a map from voice ids to frames: its parts, and one frame more. *)
LEMMA PendingFacts ==
  ASSUME NEW p \in Pendings
  PROVE  DOMAIN p \subseteq Ids /\ \A id \in DOMAIN p : p[id] \in Frames
BY DEF Pendings

LEMMA PendingPart ==
  ASSUME NEW p \in Pendings, NEW ids \in SUBSET DOMAIN p
  PROVE  [id \in ids |-> p[id]] \in Pendings
<1> DEFINE q == [id \in ids |-> p[id]]
<1>1. ids \in SUBSET Ids /\ \A id \in ids : p[id] \in Frames
  BY PendingFacts
<1>2. q \in [ids -> Frames]
  BY <1>1
<1> QED BY <1>1, <1>2 DEF Pendings

LEMMA PendingAdd ==
  ASSUME NEW p \in Pendings, NEW f \in Frames
  PROVE  [i \in DOMAIN p \union {f.id} |-> IF i \in DOMAIN p THEN p[i] ELSE f] \in Pendings
<1> DEFINE ids == DOMAIN p \union {f.id}
           q == [i \in ids |-> IF i \in DOMAIN p THEN p[i] ELSE f]
<1>1. ids \in SUBSET Ids /\ \A id \in DOMAIN p : p[id] \in Frames
  BY PendingFacts DEF Frames
<1>2. q \in [ids -> Frames]
  BY <1>1
<1> QED BY <1>1, <1>2 DEF Pendings

LEMMA EmptyFields ==
  ASSUME VoiceNumbers
  PROVE  /\ Empty \in Jitters /\ Empty.expected = None /\ Empty.end = None
         /\ DOMAIN Empty.pending = {} /\ ~Empty.started /\ Empty.last = NotYet
         /\ Empty.who = 0 /\ NotYet.who = 0
<1>1. <<>> \in Pendings /\ DOMAIN <<>> = {}
  <2>1. <<>> \in [{} -> Frames]
    OBVIOUS
  <2> QED BY <2>1 DEF Pendings
<1> QED BY <1>1 DEF Empty, Jitters, NotYet, None, VoiceNumbers

(* MoveTo and Expect start the stream of k at the frame f. *)
Restarted(k, j, f) ==
  /\ k \in Jitters
  /\ k.expected = f.id /\ k.who = f.who /\ k.at = f.n
  /\ k.pending = j.pending /\ k.end = j.end /\ k.last = j.last /\ k.started = j.started

LEMMA MoveFields ==
  ASSUME VoiceNumbers, NEW j \in Jitters, NEW f \in Frames
  PROVE  Restarted(MoveTo(j, f), j, f) /\ Restarted(Expect(j, f), j, f)
<1>1. f.id \in 0 .. Modulus /\ f.who \in 0 .. 2 /\ f.n \in Nat
  BY DEF Frames, Ids, VoiceNumbers
<1>2. Restarted(MoveTo(j, f), j, f)
  BY <1>1 DEF Restarted, MoveTo, Jitters
<1> HIDE DEF MoveTo
<1>3. Restarted(Expect(j, f), j, f)
  BY <1>2 DEF Restarted, Expect, Jitters
<1> QED BY <1>2, <1>3

LEMMA PlaceFields ==
  ASSUME VoiceNumbers, NEW j \in Jitters, NEW f \in Frames
  PROVE  /\ j.expected = None => Restarted(Place(j, f), j, f)
         /\ IsBackward(j, f) => Restarted(Place(j, f), j, f)
         /\ j.expected # None /\ ~IsBackward(j, f) =>
              Restarted(Place(j, f), Empty, f) \/ Place(j, f) = j
         /\ Place(j, f) \in Jitters
<1>1. CASE j.expected = None
  BY <1>1, MoveFields DEF Place, IsBackward, Restarted
<1>2. CASE j.expected # None /\ IsBackward(j, f)
  BY <1>2, MoveFields DEF Place, Restarted
<1>3. CASE j.expected # None /\ ~IsBackward(j, f)
  BY <1>3, MoveFields, EmptyFields DEF Place, Restarted
<1> QED BY <1>1, <1>2, <1>3

(* Everything of a jitter buffer but what waits in it. *)
SameStream(k, j) ==
  /\ k \in Jitters
  /\ k.expected = j.expected /\ k.who = j.who /\ k.at = j.at
  /\ k.end = j.end /\ k.last = j.last /\ k.started = j.started

LEMMA InsertFields ==
  ASSUME NEW j \in Jitters, NEW f \in Frames
  PROVE  /\ SameStream(Insert(j, f), j)
         /\ DOMAIN Insert(j, f).pending = DOMAIN j.pending \union {f.id}
         /\ \A id \in DOMAIN j.pending : Insert(j, f).pending[id] = j.pending[id]
         /\ f.id \notin DOMAIN j.pending => Insert(j, f).pending[f.id] = f
<1> DEFINE p == [i \in DOMAIN j.pending \union {f.id} |->
                   IF i \in DOMAIN j.pending THEN j.pending[i] ELSE f]
<1>1. p \in Pendings
  BY PendingAdd DEF Jitters
<1>2. /\ DOMAIN p = DOMAIN j.pending \union {f.id}
      /\ \A id \in DOMAIN j.pending : p[id] = j.pending[id]
      /\ f.id \notin DOMAIN j.pending => p[f.id] = f
  OBVIOUS
<1>3. Insert(j, f) = [j EXCEPT !.pending = p]
  BY DEF Insert
<1> HIDE DEF p
<1>4. SameStream([j EXCEPT !.pending = p], j) /\ [j EXCEPT !.pending = p].pending = p
  BY <1>1 DEF SameStream, Jitters
<1> QED BY <1>2, <1>3, <1>4

LEMMA TrimFields ==
  ASSUME NEW j \in Jitters
  PROVE  /\ SameStream(Trim(j), j)
         /\ DOMAIN Trim(j).pending \subseteq DOMAIN j.pending
         /\ \A id \in DOMAIN Trim(j).pending : Trim(j).pending[id] = j.pending[id]
<1> DEFINE ids == DOMAIN j.pending
           furthest == CHOOSE i \in ids :
                         \A k \in ids : Distance(j.expected, k) <= Distance(j.expected, i)
           p == [i \in ids \ {furthest} |-> j.pending[i]]
<1>1. Trim(j) = IF Cardinality(ids) <= MaxPending THEN j ELSE [j EXCEPT !.pending = p]
  BY DEF Trim
<1>2. p \in Pendings
  <2> HIDE DEF furthest
  <2>1. j.pending \in Pendings /\ ids \ {furthest} \in SUBSET ids
    BY DEF Jitters
  <2> QED BY <2>1, PendingPart
<1>3. DOMAIN p \subseteq ids /\ \A id \in DOMAIN p : p[id] = j.pending[id]
  OBVIOUS
<1> HIDE DEF p
<1>4. SameStream([j EXCEPT !.pending = p], j) /\ [j EXCEPT !.pending = p].pending = p
  BY <1>2 DEF SameStream, Jitters
<1>5. SameStream(j, j)
  BY DEF SameStream
<1> QED BY <1>1, <1>3, <1>4, <1>5

-----------------------------------------------------------------------------
(* A stream in the jitter buffer: the expected id is that of the frame at of *)
(* its owner; what waits is of that owner, from the expected frame on and    *)
(* less than half a cycle ahead, and so is the end; what has been taken out  *)
(* is from before the expected frame.                                        *)
Waits(j, id) ==
  LET f == j.pending[id]
  IN  /\ f.who = j.who /\ f.id = id /\ id = VoiceId(f.who, f.n)
      /\ j.at <= f.n /\ f.n < j.at + Half

StreamOK(j) ==
  /\ j.expected = None => j = Empty
  /\ j.expected # None =>
       /\ j.who # 0 /\ j.expected = VoiceId(j.who, j.at)
       /\ \A id \in DOMAIN j.pending : Waits(j, id)
       /\ j.end # None => Distance(j.expected, j.end) < Half
       /\ j.last.who = j.who => j.last.n < j.at
       /\ ~j.started => j.last = NotYet

(* No frame of the stream is newer than top: not the last one passed, nor a  *)
(* waiting one, nor the end.                                                 *)
Within(j, top) ==
  /\ j.at <= top + 1
  /\ \A id \in DOMAIN j.pending : j.pending[id].n <= top
  /\ j.end # None => j.at + Distance(j.expected, j.end) <= top

(* What is asked of a frame that is pushed: it is of the stream's owner and  *)
(* not half a cycle ahead, and no frame of the stream is more than MaxDelay  *)
(* newer.                                                                    *)
Fits(j, f) ==
  /\ f.id = VoiceId(f.who, f.n)
  /\ j.expected # None => f.who = j.who /\ f.n < j.at + Half /\ Within(j, f.n + MaxDelay)

LEMMA JitterFields ==
  ASSUME VoiceNumbers, NEW j \in Jitters
  PROVE  /\ j.at \in Nat /\ j.who \in 0 .. 2 /\ j.expected \in 0 .. Modulus
               /\ j.end \in 0 .. Modulus
         /\ j.last.who \in 0 .. 2 /\ j.last.n \in Nat
         /\ j.expected # None => j.expected \in Ids
         /\ j.end # None => j.end \in Ids
         /\ \A id \in DOMAIN j.pending : id \in Ids /\ j.pending[id] \in Frames
               /\ j.pending[id].n \in Nat
<1>1. j.pending \in Pendings
  BY DEF Jitters
<1>2. \A id \in DOMAIN j.pending : id \in Ids /\ j.pending[id] \in Frames
  BY <1>1, PendingFacts
<1> QED BY <1>2 DEF Jitters, Ids, VoiceNumbers, Frames

(* A frame that fits and is not behind the expected id is of its place or a  *)
(* later one; a frame that is behind it is of an earlier one.                *)
LEMMA SideOfFrame ==
  ASSUME VoiceNumbers, NEW j \in Jitters, StreamOK(j), NEW f \in Frames, Fits(j, f),
               j.expected # None
  PROVE  /\ Distance(j.expected, f.id) < Half <=> j.at <= f.n
         /\ Distance(j.expected, f.id) >= Half <=> f.n < j.at
         /\ j.at <= f.n => Distance(j.expected, f.id) = f.n - j.at
<1>1. j.at \in Nat /\ f.n \in Nat /\ f.id \in Ids /\ j.expected \in Ids
  BY JitterFields DEF Frames
<1>2. j.expected = VoiceId(f.who, j.at) /\ f.id = VoiceId(f.who, f.n)
            /\ f.n < j.at + Half
      /\ j.at <= f.n + MaxDelay + 1
  BY DEF StreamOK, Fits, Within
<1>3. Distance(j.expected, f.id) \in Nat /\ Half \in Nat /\ Half <= Modulus
            /\ MaxDelay + 1 <= Half
      /\ MaxDelay \in Nat /\ Modulus \in Nat
  BY <1>1, DistanceType DEF VoiceNumbers
<1>4. CASE j.at <= f.n
  <2>1. Distance(VoiceId(f.who, j.at), VoiceId(f.who, f.n)) = f.n - j.at
    BY <1>1, <1>2, <1>3, <1>4, Ahead
  <2> QED BY <1>1, <1>2, <1>3, <1>4, <2>1
<1>5. CASE f.n < j.at
  <2>1. Distance(VoiceId(f.who, j.at), VoiceId(f.who, f.n)) >= Half
    BY <1>1, <1>2, <1>3, <1>5, Behind
  <2> QED BY <1>1, <1>2, <1>3, <1>5, <2>1
<1> QED BY <1>1, <1>4, <1>5

(* A stream that starts with f in an empty buffer. *)
LEMMA FreshStream ==
  ASSUME VoiceNumbers, NEW f \in Frames, f.id = VoiceId(f.who, f.n),
         NEW k, Restarted(k, Empty, f)
  PROVE  /\ StreamOK(k) /\ k.expected # None /\ k.who = f.who /\ k.at = f.n
         /\ \A top \in Nat : f.n <= top => Within(k, top)
<1>1. f.id \in Ids /\ f.who \in {1, 2} /\ f.n \in Nat
  BY DEF Frames
<1>2. k.expected = f.id /\ k.who = f.who /\ k.at = f.n /\ DOMAIN k.pending = {} /\ k.end = None
      /\ k.last = NotYet /\ k.last.who = 0
  BY EmptyFields DEF Restarted
<1>3. k.expected # None
  BY <1>1, <1>2 DEF Ids, VoiceNumbers
<1>4. StreamOK(k)
  BY <1>1, <1>2, <1>3 DEF StreamOK
<1>5. ASSUME NEW top \in Nat, f.n <= top PROVE Within(k, top)
  BY <1>1, <1>2, <1>5 DEF Within
<1> QED BY <1>2, <1>3, <1>4, <1>5

(* An earlier start of the burst: the expected id goes back to it. *)
LEMMA EarlierStream ==
  ASSUME VoiceNumbers, NEW j \in Jitters, StreamOK(j), NEW f \in Frames, Fits(j, f),
         IsBackward(j, f), ~j.started, NEW k, Restarted(k, j, f)
  PROVE  /\ StreamOK(k) /\ k.expected # None /\ k.who = f.who /\ k.at = f.n
         /\ \A top \in Nat : Within(j, top) /\ f.n <= top => Within(k, top)
<1>1. f.id \in Ids /\ f.who \in {1, 2} /\ f.n \in Nat /\ j.at \in Nat /\ j.expected \in Ids
  BY JitterFields DEF Frames, IsBackward
<1>2. k.expected = f.id /\ k.who = f.who /\ k.at = f.n /\ k.pending = j.pending /\ k.end = j.end
      /\ k.last = j.last /\ k.started = j.started
  BY DEF Restarted
<1>3. j.expected # None /\ k.expected # None /\ f.n < j.at /\ f.who = j.who
      /\ Within(j, f.n + MaxDelay)
  BY <1>1, <1>2, SideOfFrame DEF IsBackward, Ids, VoiceNumbers, Fits
<1>4. j.last = NotYet /\ NotYet.who = 0
  BY <1>3, EmptyFields DEF StreamOK
<1>5. ASSUME NEW id \in DOMAIN k.pending PROVE Waits(k, id)
  <2>1. Waits(j, id) /\ j.pending[id].n <= f.n + MaxDelay /\ j.pending[id].n \in Nat
    BY <1>2, <1>3, JitterFields DEF StreamOK, Within
  <2> QED BY <1>1, <1>2, <1>3, <2>1 DEF Waits, VoiceNumbers
<1>6. ASSUME k.end # None
      PROVE  f.n + Distance(k.expected, k.end) = j.at + Distance(j.expected, j.end)
             /\ Distance(k.expected, k.end) < Half
  <2> DEFINE m == j.at + Distance(j.expected, j.end)
  <2>1. j.end \in Ids /\ j.expected = VoiceId(f.who, j.at)
    BY <1>2, <1>3, <1>6, JitterFields DEF StreamOK
  <2>2. Distance(j.expected, j.end) \in Nat
    BY <1>1, <2>1, DistanceType
  <2>3. m \in Nat /\ VoiceId(f.who, m) = j.end
    BY <1>1, <2>1, Standing
  <2>4. m >= j.at /\ m <= f.n + MaxDelay
    BY <1>1, <1>2, <1>3, <1>6, <2>2 DEF Within
  <2> HIDE DEF m
  <2>5. Distance(VoiceId(f.who, f.n), VoiceId(f.who, m)) = m - f.n
    <3>1. f.n <= m /\ m < f.n + Modulus
      BY <1>1, <1>3, <2>3, <2>4 DEF VoiceNumbers
    <3> QED BY <1>1, <2>3, <3>1, Ahead
  <2>6. Distance(k.expected, k.end) = m - f.n
    BY <1>2, <2>3, <2>5 DEF Fits
  <2>7. f.n + (m - f.n) = m /\ m - f.n < Half
    BY <1>1, <2>3, <2>4 DEF VoiceNumbers
  <2> QED BY <2>6, <2>7 DEF m
<1>7. StreamOK(k)
  BY <1>1, <1>2, <1>3, <1>4, <1>5, <1>6 DEF StreamOK, Fits
<1>8. ASSUME NEW top \in Nat, Within(j, top), f.n <= top PROVE Within(k, top)
  BY <1>1, <1>2, <1>6, <1>8 DEF Within
<1> QED BY <1>2, <1>3, <1>7, <1>8

LEMMA PlaceStream ==
  ASSUME VoiceNumbers, NEW j \in Jitters, StreamOK(j), NEW f \in Frames, Fits(j, f),
         ~f.end, ~Discards(j, f)
  PROVE  LET k == Place(j, f)
         IN  /\ k \in Jitters /\ StreamOK(k) /\ k.expected # None /\ k.who = f.who
             /\ k.at <= f.n /\ f.n < k.at + Half
             /\ \A top \in Nat : (j.expected # None => Within(j, top)) /\ f.n <= top
                   => Within(k, top)
<1> DEFINE k == Place(j, f)
<1>0. f.n \in Nat /\ j.at \in Nat /\ f.n < f.n + Half
  BY JitterFields DEF Frames, VoiceNumbers
<1>1. CASE j.expected = None
  <2>1. Restarted(k, Empty, f)
    BY <1>1, PlaceFields DEF StreamOK
  <2>2. k \in Jitters
    BY PlaceFields
  <2> HIDE DEF k
  <2> QED BY <1>0, <1>1, <2>1, <2>2, FreshStream DEF Fits, k
<1>2. CASE j.expected # None /\ IsBackward(j, f)
  <2>1. Restarted(k, j, f) /\ ~j.started /\ k \in Jitters
    BY <1>2, PlaceFields DEF Discards, IsEarlierStart
  <2> HIDE DEF k
  <2> QED BY <1>0, <1>2, <2>1, EarlierStream DEF k
<1>3. CASE j.expected # None /\ ~IsBackward(j, f)
  <2>1. k \in Jitters /\ (Restarted(k, Empty, f) \/ k = j)
    BY <1>3, PlaceFields
  <2> HIDE DEF k
  <2>2. CASE Restarted(k, Empty, f)
    BY <1>0, <2>1, <2>2, FreshStream DEF Fits, k
  <2>3. CASE k = j
    <3>1. j.at <= f.n /\ f.n < j.at + Half /\ f.who = j.who
      <4>1. ~(Distance(j.expected, f.id) >= Half)
        BY <1>3 DEF IsBackward
      <4>2. ~(f.n < j.at)
        BY <1>3, <4>1, SideOfFrame
      <4> QED BY <1>0, <1>3, <4>2 DEF Fits
    <3> QED BY <1>3, <2>1, <2>3, <3>1 DEF k
  <2> QED BY <2>1, <2>2, <2>3
<1> QED BY <1>1, <1>2, <1>3

LEMMA InsertStream ==
  ASSUME VoiceNumbers, NEW k \in Jitters, StreamOK(k), NEW f \in Frames,
         f.id = VoiceId(f.who, f.n), k.expected # None, k.who = f.who,
         k.at <= f.n, f.n < k.at + Half
  PROVE  LET l == Trim(Insert(k, f))
         IN  /\ l \in Jitters /\ StreamOK(l) /\ l.expected # None /\ l.who = f.who
             /\ \A top \in Nat : Within(k, top) /\ f.n <= top => Within(l, top)
<1> DEFINE i == Insert(k, f)
           l == Trim(i)
<1>1. /\ SameStream(i, k) /\ DOMAIN i.pending = DOMAIN k.pending \union {f.id}
      /\ \A id \in DOMAIN k.pending : i.pending[id] = k.pending[id]
      /\ f.id \notin DOMAIN k.pending => i.pending[f.id] = f
  BY InsertFields
<1> HIDE DEF i
<1>2. i \in Jitters
  BY <1>1 DEF SameStream
<1>3. /\ SameStream(l, i) /\ DOMAIN l.pending \subseteq DOMAIN i.pending
      /\ \A id \in DOMAIN l.pending : l.pending[id] = i.pending[id]
  BY <1>2, TrimFields
<1> HIDE DEF l
<1>4. \A id \in DOMAIN l.pending :
        \/ id \in DOMAIN k.pending /\ l.pending[id] = k.pending[id]
        \/ id = f.id /\ l.pending[id] = f
  BY <1>1, <1>3
<1>5. l \in Jitters /\ l.expected = k.expected /\ l.who = k.who /\ l.at = k.at /\ l.end = k.end
      /\ l.last = k.last /\ l.started = k.started
  BY <1>1, <1>3 DEF SameStream
<1>6. ASSUME NEW id \in DOMAIN l.pending PROVE Waits(l, id)
  <2>1. CASE id \in DOMAIN k.pending /\ l.pending[id] = k.pending[id]
    <3>1. Waits(k, id)
      BY <2>1 DEF StreamOK
    <3> QED BY <1>5, <2>1, <3>1 DEF Waits
  <2>2. CASE id = f.id /\ l.pending[id] = f
    BY <1>5, <2>2 DEF Waits
  <2> QED BY <1>4, <2>1, <2>2
<1>7. StreamOK(l)
  BY <1>5, <1>6 DEF StreamOK
<1>8. ASSUME NEW top \in Nat, Within(k, top), f.n <= top PROVE Within(l, top)
  <2>1. \A id \in DOMAIN l.pending : l.pending[id].n <= top
    BY <1>4, <1>8 DEF Within
  <2> QED BY <1>5, <1>8, <2>1 DEF Within
<1>9. l.expected # None /\ l.who = f.who
  BY <1>5
<1>10. l = Trim(Insert(k, f))
  BY DEF l, i
<1> QED BY <1>5, <1>7, <1>8, <1>9, <1>10

LEMMA EndStream ==
  ASSUME VoiceNumbers, NEW j \in Jitters, StreamOK(j), NEW f \in Frames, Fits(j, f)
  PROVE  LET k == PushEnd(j, f)
         IN  /\ k \in Jitters /\ StreamOK(k) /\ k.expected # None /\ k.who = f.who
             /\ \A top \in Nat : (j.expected # None => Within(j, top)) /\ f.n <= top
                   => Within(k, top)
<1> DEFINE i == IF j.expected = None THEN Expect(j, f) ELSE j
           e == [i EXCEPT !.end = f.id]
<1>0. f.n \in Nat /\ f.id \in Ids /\ f.id \in 0 .. Modulus
  BY DEF Frames, Ids, VoiceNumbers
<1>1. PushEnd(j, f) = IF Distance(i.expected, f.id) < Half THEN e ELSE i
  BY DEF PushEnd
<1>2. /\ i \in Jitters /\ StreamOK(i) /\ i.expected # None /\ i.who = f.who
      /\ Distance(i.expected, f.id) < Half => Distance(i.expected, f.id) = f.n - i.at
      /\ \A top \in Nat : (j.expected # None => Within(j, top)) /\ f.n <= top => Within(i, top)
  <2>1. CASE j.expected = None
    <3>1. Restarted(i, Empty, f)
      BY <2>1, MoveFields DEF StreamOK
    <3> HIDE DEF i
    <3>2. Distance(VoiceId(f.who, f.n), VoiceId(f.who, f.n)) = f.n - f.n
      BY <1>0, Ahead DEF VoiceNumbers
    <3>3. i \in Jitters /\ i.expected = f.id
      BY <3>1 DEF Restarted
    <3> QED BY <1>0, <2>1, <3>1, <3>2, <3>3, FreshStream DEF Fits
  <2>2. CASE j.expected # None
    <3>1. Distance(j.expected, f.id) < Half => Distance(j.expected, f.id) = f.n - j.at
      BY <2>2, SideOfFrame
    <3> QED BY <2>2, <3>1 DEF Fits
  <2> QED BY <2>1, <2>2
<1> HIDE DEF i
<1>3. CASE Distance(i.expected, f.id) < Half
  <2>1. e \in Jitters /\ e.end = f.id /\ e.expected = i.expected /\ e.who = i.who /\ e.at = i.at
        /\ e.pending = i.pending /\ e.last = i.last /\ e.started = i.started
    BY <1>0, <1>2 DEF Jitters
  <2> HIDE DEF e
  <2>2. \A id \in DOMAIN e.pending : Waits(e, id)
    BY <1>2, <2>1 DEF Waits, StreamOK
  <2>3. StreamOK(e)
    BY <1>2, <1>3, <2>1, <2>2 DEF StreamOK
  <2>4. i.at \in Nat
    BY <1>2, JitterFields
  <2>5. ASSUME NEW top \in Nat, j.expected # None => Within(j, top), f.n <= top
                     PROVE Within(e, top)
    <3>1. Within(i, top)
      BY <1>2, <2>5
    <3>2. e.at + Distance(e.expected, e.end) = f.n
      BY <1>0, <1>2, <1>3, <2>1, <2>4
    <3> QED BY <2>1, <2>5, <3>1, <3>2 DEF Within
  <2>6. e.expected # None /\ e.who = f.who /\ PushEnd(j, f) = e
    BY <1>1, <1>2, <1>3, <2>1
  <2> QED BY <2>1, <2>3, <2>5, <2>6
<1>4. CASE ~(Distance(i.expected, f.id) < Half)
  BY <1>1, <1>2, <1>4
<1> QED BY <1>3, <1>4

(* Push keeps the stream a stream, whatever branch it takes. *)
LEMMA PushStream ==
  ASSUME VoiceNumbers, NEW j \in Jitters, StreamOK(j), NEW f \in Frames, Fits(j, f)
  PROVE  LET k == Push(j, f)
         IN  /\ k \in Jitters /\ StreamOK(k) /\ k.expected # None /\ k.who = f.who
             /\ \A top \in Nat : (j.expected # None => Within(j, top)) /\ f.n <= top
                   => Within(k, top)
<1>1. CASE f.end
  <2>1. Push(j, f) = PushEnd(j, f)
    BY <1>1 DEF Push, Discards
  <2> QED BY <2>1, EndStream
<1>2. CASE Discards(j, f)
  <2>1. Push(j, f) = j /\ j.expected # None
    BY <1>2 DEF Push, Discards, IsBackward
  <2> QED BY <2>1 DEF Fits
<1>3. CASE ~f.end /\ ~Discards(j, f)
  <2> DEFINE k == Place(j, f)
             l == Trim(Insert(k, f))
  <2>1. Push(j, f) = l
    BY <1>3 DEF Push
  <2>2. /\ k \in Jitters /\ StreamOK(k) /\ k.expected # None /\ k.who = f.who
        /\ k.at <= f.n /\ f.n < k.at + Half
        /\ \A top \in Nat : (j.expected # None => Within(j, top)) /\ f.n <= top
              => Within(k, top)
    BY <1>3, PlaceStream
  <2> HIDE DEF k
  <2>3. /\ l \in Jitters /\ StreamOK(l) /\ l.expected # None /\ l.who = f.who
        /\ \A top \in Nat : Within(k, top) /\ f.n <= top => Within(l, top)
    BY <2>2, InsertStream DEF Fits
  <2> HIDE DEF l
  <2> QED BY <2>1, <2>2, <2>3
<1> QED BY <1>1, <1>2, <1>3

-----------------------------------------------------------------------------
(* k is j one frame on, without the frame that was expected. *)
Onward(k, j) ==
  /\ k \in Jitters
  /\ k.expected = (j.expected + 1) % Modulus /\ k.at = j.at + 1 /\ k.who = j.who /\ k.end = j.end
  /\ k.started
  /\ DOMAIN k.pending = DOMAIN j.pending \ {j.expected}
  /\ \A id \in DOMAIN k.pending : k.pending[id] = j.pending[id]

Outcome(item, kind, jitter) == item.kind = kind /\ item.jitter = jitter

LEMMA NextId ==
  ASSUME VoiceNumbers, NEW id \in Ids
  PROVE  (id + 1) % Modulus \in Ids
<1>1. id + 1 \in Nat /\ Modulus \in Nat /\ Modulus > 0
  BY DEF Ids, VoiceNumbers
<1>2. (id + 1) % Modulus \in 0 .. Modulus - 1
  BY <1>1
<1> QED BY <1>2 DEF Ids

LEMMA AdvanceFields ==
  ASSUME VoiceNumbers, NEW i \in Jitters, i.expected # None
  PROVE  LET k == Advance(i)
         IN  /\ k \in Jitters /\ k.expected = (i.expected + 1) % Modulus /\ k.at = i.at + 1
             /\ k.who = i.who /\ k.end = i.end /\ k.started = i.started /\ k.pending = i.pending
             /\ k.last = i.last
<1> DEFINE x == (i.expected + 1) % Modulus
           y == i.at + 1
<1>1. x \in 0 .. Modulus /\ y \in Nat
  BY JitterFields, NextId DEF Ids, VoiceNumbers
<1>2. Advance(i) = [i EXCEPT !.expected = x, !.at = y]
  BY DEF Advance
<1> HIDE DEF x, y
<1>3. LET k == [i EXCEPT !.expected = x, !.at = y]
      IN  /\ k \in Jitters /\ k.expected = x /\ k.at = y
          /\ k.who = i.who /\ k.end = i.end /\ k.started = i.started /\ k.pending = i.pending
          /\ k.last = i.last
  BY <1>1 DEF Jitters
<1> QED BY <1>2, <1>3 DEF x, y

LEMMA FrameOnward ==
  ASSUME VoiceNumbers, NEW j \in Jitters, j.expected # None, j.expected \in DOMAIN j.pending
  PROVE  LET f    == j.pending[j.expected]
             rest == [id \in DOMAIN j.pending \ {j.expected} |-> j.pending[id]]
             k    == Advance([[j EXCEPT !.started = TRUE] EXCEPT
                                !.pending = rest, !.losses = 0, !.first = FALSE,
                                !.last = [who |-> f.who, n |-> f.n]])
         IN  f \in Frames /\ Onward(k, j) /\ k.last = [who |-> f.who, n |-> f.n]
<1> DEFINE f    == j.pending[j.expected]
           rest == [id \in DOMAIN j.pending \ {j.expected} |-> j.pending[id]]
           l    == [who |-> f.who, n |-> f.n]
           i    == [[j EXCEPT !.started = TRUE] EXCEPT
                      !.pending = rest, !.losses = 0, !.first = FALSE, !.last = l]
<1>1. f \in Frames /\ j.at \in Nat /\ j.expected \in Ids
  BY JitterFields
<1>2. l \in [who : 0 .. 2, n : Nat]
  BY <1>1 DEF Frames
<1>3. rest \in Pendings
  <2>1. j.pending \in Pendings /\ DOMAIN j.pending \ {j.expected} \in SUBSET DOMAIN j.pending
    BY DEF Jitters
  <2> QED BY <2>1, PendingPart
<1>4. DOMAIN rest = DOMAIN j.pending \ {j.expected}
      /\ \A id \in DOMAIN rest : rest[id] = j.pending[id]
  OBVIOUS
<1> HIDE DEF f, rest, l
<1>6. i \in Jitters /\ i.expected = j.expected /\ i.at = j.at /\ i.who = j.who /\ i.end = j.end
      /\ i.started /\ i.pending = rest /\ i.last = l
  BY <1>2, <1>3 DEF Jitters
<1> HIDE DEF i
<1>7. Onward(Advance(i), j) /\ Advance(i).last = l
  BY <1>4, <1>6, AdvanceFields DEF Onward
<1> QED BY <1>1, <1>7 DEF f, rest, l, i

LEMMA LossOnward ==
  ASSUME VoiceNumbers, NEW j \in Jitters, j.expected # None,
               j.expected \notin DOMAIN j.pending, j.started
  PROVE  LET k == Advance([j EXCEPT !.losses = @ + 1, !.first = FALSE])
         IN  Onward(k, j) /\ k.last = j.last
<1> DEFINE i == [j EXCEPT !.losses = @ + 1, !.first = FALSE]
<1>1. j.at \in Nat /\ j.expected \in Ids
  BY JitterFields
<1>2. j.losses + 1 \in Nat
  BY DEF Jitters
<1>3. i \in Jitters /\ i.expected = j.expected /\ i.at = j.at /\ i.who = j.who /\ i.end = j.end
      /\ i.started = j.started /\ i.pending = j.pending /\ i.last = j.last
  BY <1>2 DEF Jitters
<1> HIDE DEF i
<1>4. DOMAIN j.pending = DOMAIN j.pending \ {j.expected}
  OBVIOUS
<1>5. Onward(Advance(i), j) /\ Advance(i).last = j.last
  BY <1>3, <1>4, AdvanceFields DEF Onward
<1> QED BY <1>5 DEF i

(* What Pull can return. *)
LEMMA PullCases ==
  ASSUME VoiceNumbers, NEW j \in Jitters
  PROVE  LET item == Pull(j)
             k    == [j EXCEPT !.started = TRUE]
         IN  /\ item.start \in BOOLEAN
             /\ \/ Outcome(item, "Wait", j)
                \/ j.expected # None /\ Outcome(item, "Wait", k)
                \/ Outcome(item, "End", Empty)
                \/ /\ j.expected # None /\ ~AtEnd(j) /\ item.kind = "Frame"
                   /\ j.expected \in DOMAIN j.pending
                   /\ item.frames = {j.pending[j.expected]}
                   /\ Onward(item.jitter, j)
                   /\ item.jitter.last = [who |-> j.pending[j.expected].who, n |-> j.pending[j.expected].n]
                \/ /\ j.expected # None /\ ~AtEnd(j) /\ item.kind = "PacketLoss"
                   /\ j.expected \notin DOMAIN j.pending /\ HasFutureData(j)
                   /\ Onward(item.jitter, j)
                   /\ item.jitter.last = j.last
<1> DEFINE item == Pull(j)
           k    == [j EXCEPT !.started = TRUE]
           rest == [id \in DOMAIN j.pending \ {j.expected} |-> j.pending[id]]
           f    == k.pending[k.expected]
           goes == Advance([k EXCEPT !.pending = rest, !.losses = 0, !.first = FALSE,
                                     !.last = [who |-> f.who, n |-> f.n]])
<1>1. k \in Jitters /\ k.expected = j.expected /\ k.pending = j.pending /\ k.end = j.end
      /\ k.at = j.at /\ k.who = j.who /\ k.last = j.last /\ k.started /\ k.first \in BOOLEAN
  BY DEF Jitters
<1>2. CASE j.expected = None
  <2>1. item = Pulled("Wait", j, {}, FALSE)
    BY <1>2 DEF Pull
  <2> HIDE DEF item
  <2> QED BY <2>1 DEF Pulled, Outcome, item
<1>3. CASE j.expected # None /\ AtEnd(j)
  <2>1. item = Pulled("End", Empty, {}, FALSE)
    BY <1>3 DEF Pull
  <2> HIDE DEF item
  <2> QED BY <2>1 DEF Pulled, Outcome, item
<1>4. CASE /\ j.expected # None /\ ~AtEnd(j) /\ ~j.started
           /\ Cardinality(DOMAIN j.pending) < Prebuffer /\ j.end = None
  <2>1. item = Pulled("Wait", j, {}, FALSE)
    BY <1>4 DEF Pull
  <2> HIDE DEF item
  <2> QED BY <2>1 DEF Pulled, Outcome, item
<1>5. CASE /\ j.expected # None /\ ~AtEnd(j)
           /\ ~(~j.started /\ Cardinality(DOMAIN j.pending) < Prebuffer /\ j.end = None)
  <2>1. item = IF k.expected \in DOMAIN k.pending THEN Pulled("Frame", goes, {f}, k.first)
               ELSE IF ~HasFutureData(k) THEN Pulled("Wait", k, {}, FALSE)
                     ELSE PullGap(k)
    BY <1>5 DEF Pull
  <2>2. CASE k.expected \in DOMAIN k.pending
    <3>1. item = Pulled("Frame", goes, {f}, k.first)
      BY <2>1, <2>2
    <3>2. Onward(goes, j)
                /\ goes.last = [who |-> j.pending[j.expected].who, n |-> j.pending[j.expected].n]
          /\ f = j.pending[j.expected]
      BY <1>1, <1>5, <2>2, FrameOnward
    <3> HIDE DEF item, goes, f
    <3> QED BY <1>1, <1>5, <2>2, <3>1, <3>2 DEF Pulled, item
  <2>3. CASE k.expected \notin DOMAIN k.pending /\ ~HasFutureData(k)
    <3>1. item = Pulled("Wait", k, {}, FALSE)
      BY <2>1, <2>3
    <3> HIDE DEF item, k
    <3> QED BY <1>5, <3>1 DEF Pulled, Outcome, item, k
  <2>4. CASE k.expected \notin DOMAIN k.pending /\ HasFutureData(k)
    <3> DEFINE lost == Advance([k EXCEPT !.losses = @ + 1, !.first = FALSE])
               next == (k.expected + 1) % Modulus
               recovery == { k.pending[id] : id \in {next} \cap DOMAIN k.pending }
    <3>1. item = IF k.losses < MaxLosses THEN Pulled("PacketLoss", lost, recovery, FALSE)
                 ELSE Pulled("End", Empty, {}, FALSE)
      BY <2>1, <2>4 DEF PullGap
    <3>2. Onward(lost, k) /\ lost.last = k.last
      BY <1>1, <1>5, <2>4, LossOnward
    <3>3. Onward(lost, j) /\ lost.last = j.last /\ HasFutureData(j)
      BY <1>1, <2>4, <3>2 DEF Onward, HasFutureData, IsFuture
    <3> HIDE DEF item, lost, recovery
    <3> QED BY <1>1, <1>5, <2>4, <3>1, <3>3 DEF Pulled, Outcome, item
  <2> QED BY <2>2, <2>3, <2>4
<1> QED BY <1>2, <1>3, <1>4, <1>5

(* One frame on, the stream is a stream still: nothing that is kept is from  *)
(* before the new expected frame.                                            *)
LEMMA OnwardStream ==
  ASSUME VoiceNumbers, NEW j \in Jitters, StreamOK(j), j.expected # None, ~AtEnd(j),
         NEW k, Onward(k, j), k.last.who = j.who => k.last.n <= j.at
  PROVE  /\ StreamOK(k) /\ k.expected # None /\ k.who = j.who
         /\ \A top \in Nat : Within(j, top) /\ j.at <= top => Within(k, top)
<1>1. j.at \in Nat /\ j.expected \in Ids /\ j.expected = VoiceId(j.who, j.at) /\ k \in Jitters
  BY JitterFields DEF StreamOK, Onward
<1>2. k.expected = VoiceId(j.who, j.at + 1) /\ k.expected \in Ids /\ k.expected # None
  <2>1. VoiceId(j.who, j.at + 1) \in Ids
    BY <1>1, VoiceIdType
  <2> QED BY <1>1, <2>1, VoiceIdType DEF Onward, Ids, VoiceNumbers
<1>3. ASSUME NEW id \in DOMAIN k.pending PROVE Waits(k, id)
  <2>1. id \in DOMAIN j.pending /\ id # j.expected /\ k.pending[id] = j.pending[id]
    BY DEF Onward
  <2>2. Waits(j, id) /\ j.pending[id].n \in Nat
    BY <2>1, JitterFields DEF StreamOK
  <2>3. j.pending[id].n # j.at
    BY <1>1, <2>1, <2>2 DEF Waits
  <2> QED BY <1>1, <2>1, <2>2, <2>3 DEF Waits, Onward, VoiceNumbers
<1>4. ASSUME k.end # None
      PROVE  /\ k.at + Distance(k.expected, k.end) = j.at + Distance(j.expected, j.end)
             /\ Distance(k.expected, k.end) < Half
  <2> DEFINE d == Distance(j.expected, j.end)
             m == j.at + d
  <2>1. k.end = j.end /\ j.end \in Ids /\ j.end # j.expected /\ d < Half /\ k.at = j.at + 1
    BY <1>4, JitterFields DEF Onward, AtEnd, StreamOK
  <2>2. d \in Nat
    BY <1>1, <2>1, DistanceType
  <2>3. m \in Nat /\ VoiceId(j.who, m) = j.end
    BY <1>1, <2>1, Standing
  <2> HIDE DEF d
  <2>4. d # 0
    BY <1>1, <2>1, <2>3
  <2>5. Distance(VoiceId(j.who, j.at + 1), VoiceId(j.who, m)) = m - (j.at + 1)
    <3>1. j.at + 1 \in Nat /\ j.at + 1 <= m /\ m < j.at + 1 + Modulus
      BY <1>1, <2>1, <2>2, <2>4 DEF VoiceNumbers
    <3> HIDE DEF m
    <3> QED BY <2>3, <3>1, Ahead
  <2>6. Distance(k.expected, k.end) = m - (j.at + 1)
    BY <1>2, <2>1, <2>3, <2>5
  <2>7. k.at + (m - (j.at + 1)) = m /\ m - (j.at + 1) < Half
    BY <1>1, <2>1, <2>2 DEF VoiceNumbers
  <2> QED BY <2>6, <2>7 DEF d
<1>5. k.last.who = k.who => k.last.n < k.at
  <2>1. k.last.n \in Nat
    BY <1>1, JitterFields
  <2> QED BY <1>1, <2>1 DEF Onward
<1>6. StreamOK(k)
  BY <1>2, <1>3, <1>4, <1>5 DEF StreamOK, Onward
<1>7. ASSUME NEW top \in Nat, Within(j, top), j.at <= top PROVE Within(k, top)
  <2>1. \A id \in DOMAIN k.pending : k.pending[id].n <= top
    BY <1>7 DEF Within, Onward
  <2>2. k.at <= top + 1
    BY <1>1, <1>7 DEF Onward
  <2>3. k.end # None => k.at + Distance(k.expected, k.end) <= top
    BY <1>4, <1>7 DEF Within, Onward
  <2> QED BY <2>1, <2>2, <2>3 DEF Within
<1> QED BY <1>2, <1>6, <1>7 DEF Onward

(* The frame at the expected id is the one expected. *)
LEMMA ExpectedFrame ==
  ASSUME VoiceNumbers, NEW j \in Jitters, StreamOK(j), j.expected # None,
         j.expected \in DOMAIN j.pending
  PROVE  j.pending[j.expected].n = j.at /\ j.pending[j.expected].who = j.who
<1> DEFINE f == j.pending[j.expected]
<1>1. j.at \in Nat /\ f.n \in Nat /\ j.expected = VoiceId(j.who, j.at)
  BY JitterFields DEF StreamOK
<1>2. f.who = j.who /\ j.expected = VoiceId(j.who, f.n) /\ j.at <= f.n /\ f.n < j.at + Half
  BY DEF StreamOK, Waits
<1> HIDE DEF f
<1>3. Distance(VoiceId(j.who, j.at), VoiceId(j.who, f.n)) = f.n - j.at
  <2>1. f.n < j.at + Modulus
    BY <1>1, <1>2 DEF VoiceNumbers
  <2> QED BY <1>1, <1>2, <2>1, Ahead
<1>4. Distance(VoiceId(j.who, j.at), VoiceId(j.who, j.at)) = j.at - j.at
  BY <1>1, Ahead DEF VoiceNumbers
<1>5. f.n - j.at = j.at - j.at
  BY <1>1, <1>2, <1>3, <1>4
<1> QED BY <1>1, <1>2, <1>5 DEF f

(* k is what a stream j has become: the same stream, or none. *)
Continued(k, j) ==
  \/ k = Empty
  \/ /\ j.expected # None /\ k.expected # None /\ k.who = j.who
     /\ \A top \in Nat : Within(j, top) => Within(k, top)

(* Pull keeps the stream a stream, and what it takes out is newer than what  *)
(* it took out before.                                                       *)
LEMMA PullStream ==
  ASSUME VoiceNumbers, NEW j \in Jitters, StreamOK(j)
  PROVE  LET item == Pull(j)
         IN  /\ item.jitter \in Jitters /\ StreamOK(item.jitter) /\ Continued(item.jitter, j)
             /\ item.kind = "Frame" =>
                  \E f \in Frames : item.frames = {f} /\ (j.last.who = f.who => f.n > j.last.n)
<1> DEFINE item == Pull(j)
           k    == [j EXCEPT !.started = TRUE]
<1> HIDE DEF item
<1>0. StreamOK(Empty) /\ Continued(Empty, j) /\ Empty \in Jitters
  BY EmptyFields DEF StreamOK, Continued
<1>1. CASE Outcome(item, "Wait", j)
  <2>1. Continued(j, j)
    BY DEF Continued, StreamOK
  <2> QED BY <1>1, <2>1 DEF Outcome, item
<1>2. CASE j.expected # None /\ Outcome(item, "Wait", k)
  <2>1. k \in Jitters /\ k.expected = j.expected /\ k.pending = j.pending /\ k.end = j.end
        /\ k.at = j.at /\ k.who = j.who /\ k.last = j.last /\ k.started
    BY DEF Jitters
  <2> HIDE DEF k
  <2>2. \A id \in DOMAIN k.pending : Waits(k, id)
    BY <1>2, <2>1 DEF StreamOK, Waits
  <2>3. StreamOK(k)
    BY <1>2, <2>1, <2>2 DEF StreamOK
  <2>4. Continued(k, j)
    BY <1>2, <2>1 DEF Continued, Within
  <2> QED BY <1>2, <2>1, <2>3, <2>4 DEF Outcome, item
<1>3. CASE Outcome(item, "End", Empty)
  BY <1>0, <1>3 DEF Outcome, item
<1>4. CASE /\ j.expected # None /\ ~AtEnd(j) /\ item.kind = "Frame"
           /\ j.expected \in DOMAIN j.pending
           /\ item.frames = {j.pending[j.expected]}
           /\ Onward(item.jitter, j)
           /\ item.jitter.last = [who |-> j.pending[j.expected].who, n |-> j.pending[j.expected].n]
  <2> DEFINE f == j.pending[j.expected]
  <2>1. f.n = j.at /\ f.who = j.who
    BY <1>4, ExpectedFrame
  <2>2. f \in Frames /\ j.at \in Nat /\ j.last.n \in Nat
    BY <1>4, JitterFields
  <2>3. item.jitter.last.n = j.at
    BY <1>4, <2>1
  <2>4. /\ StreamOK(item.jitter) /\ item.jitter.expected # None /\ item.jitter.who = j.who
        /\ \A top \in Nat : Within(j, top) /\ j.at <= top => Within(item.jitter, top)
    BY <1>4, <2>2, <2>3, OnwardStream
  <2>5. \A top \in Nat : Within(j, top) => j.at <= top
    BY <1>4, <2>1 DEF Within
  <2>6. j.last.who = f.who => f.n > j.last.n
    BY <1>4, <2>1, <2>2 DEF StreamOK
  <2>7. item.jitter \in Jitters /\ Continued(item.jitter, j)
    BY <1>4, <2>4, <2>5 DEF Continued, Onward
  <2> HIDE DEF f
  <2>8. item.frames = {f}
    BY <1>4 DEF f
  <2> QED BY <2>2, <2>4, <2>6, <2>7, <2>8 DEF item
<1>5. CASE /\ j.expected # None /\ ~AtEnd(j) /\ item.kind = "PacketLoss"
           /\ j.expected \notin DOMAIN j.pending /\ HasFutureData(j)
           /\ Onward(item.jitter, j)
           /\ item.jitter.last = j.last
  <2>1. j.at \in Nat /\ j.last.n \in Nat /\ (j.last.who = j.who => j.last.n <= j.at)
    BY <1>5, JitterFields DEF StreamOK
  <2>2. /\ StreamOK(item.jitter) /\ item.jitter.expected # None /\ item.jitter.who = j.who
        /\ \A top \in Nat : Within(j, top) /\ j.at <= top => Within(item.jitter, top)
    BY <1>5, <2>1, OnwardStream
  <2>3. ASSUME NEW top \in Nat, Within(j, top) PROVE j.at <= top
    <3>1. CASE j.end # None /\ IsFuture(j, j.end)
      <4>1. Distance(j.expected, j.end) \in Nat
        BY <1>5, <3>1, JitterFields, DistanceType
      <4> QED BY <2>1, <2>3, <3>1, <4>1 DEF Within
    <3>2. CASE \E id \in DOMAIN j.pending : IsFuture(j, id)
      <4>1. PICK id \in DOMAIN j.pending : TRUE
        BY <3>2
      <4>2. Waits(j, id) /\ j.pending[id].n <= top /\ j.pending[id].n \in Nat
        BY <1>5, <2>3, <4>1, JitterFields DEF StreamOK, Within
      <4> QED BY <2>1, <4>2 DEF Waits
    <3> QED BY <1>5, <3>1, <3>2 DEF HasFutureData
  <2>4. item.jitter \in Jitters /\ Continued(item.jitter, j)
    BY <1>5, <2>2, <2>3 DEF Continued, Onward
  <2> QED BY <1>5, <2>2, <2>4 DEF item
<1>6. \/ Outcome(item, "Wait", j)
      \/ j.expected # None /\ Outcome(item, "Wait", k)
      \/ Outcome(item, "End", Empty)
      \/ /\ j.expected # None /\ ~AtEnd(j) /\ item.kind = "Frame"
         /\ j.expected \in DOMAIN j.pending
         /\ item.frames = {j.pending[j.expected]}
         /\ Onward(item.jitter, j)
         /\ item.jitter.last = [who |-> j.pending[j.expected].who, n |-> j.pending[j.expected].n]
      \/ /\ j.expected # None /\ ~AtEnd(j) /\ item.kind = "PacketLoss"
         /\ j.expected \notin DOMAIN j.pending /\ HasFutureData(j)
         /\ Onward(item.jitter, j)
         /\ item.jitter.last = j.last
  BY PullCases DEF item
<1> QED BY <1>1, <1>2, <1>3, <1>4, <1>5, <1>6

(* What Pull does whatever the stream is: for the owner of the buffer. *)
LEMMA PullOwner ==
  ASSUME VoiceNumbers, NEW j \in Jitters
  PROVE  LET item == Pull(j)
         IN  /\ item.jitter \in Jitters /\ item.start \in BOOLEAN
             /\ item.kind \in {"Wait", "End", "Frame", "PacketLoss"}
             /\ item.jitter.expected # None => j.expected # None /\ item.jitter.who = j.who
             /\ item.kind = "Frame" => \E f \in Frames : item.frames = {f}
<1> DEFINE item == Pull(j)
           k    == [j EXCEPT !.started = TRUE]
<1>1. k \in Jitters /\ k.expected = j.expected /\ k.who = j.who
  BY DEF Jitters
<1>2. Empty \in Jitters /\ Empty.expected = None
  BY EmptyFields
<1>3. \A id \in DOMAIN j.pending : j.pending[id] \in Frames
  BY JitterFields
<1>4. /\ item.start \in BOOLEAN
      /\ \/ Outcome(item, "Wait", j)
         \/ j.expected # None /\ Outcome(item, "Wait", k)
         \/ Outcome(item, "End", Empty)
         \/ /\ j.expected # None /\ item.kind = "Frame" /\ j.expected \in DOMAIN j.pending
            /\ item.frames = {j.pending[j.expected]} /\ Onward(item.jitter, j)
         \/ j.expected # None /\ item.kind = "PacketLoss" /\ Onward(item.jitter, j)
  BY PullCases
<1> HIDE DEF item, k
<1>5. item.kind = "Frame" => \E f \in Frames : item.frames = {f}
  BY <1>3, <1>4 DEF Outcome
<1>6. /\ item.jitter \in Jitters /\ item.start \in BOOLEAN
      /\ item.kind \in {"Wait", "End", "Frame", "PacketLoss"}
      /\ item.jitter.expected # None => j.expected # None /\ item.jitter.who = j.who
  BY <1>1, <1>2, <1>4 DEF Outcome, Onward
<1> QED BY <1>5, <1>6 DEF item

-----------------------------------------------------------------------------
(* A round of MixPlayback leaves the jitter buffer as Pull returns it, or    *)
(* empty, and plays what it took out.                                        *)
LEMMA RoundCases ==
  ASSUME VoiceNumbers, NEW t \in Talkers, NEW over \in BOOLEAN
  PROVE  LET item == Pull(t.jitter)
             next == DecodeRound([talker |-> t, over |-> over])
             u    == next.talker
         IN  /\ next = [talker |-> u, over |-> next.over] /\ next.over \in BOOLEAN
             /\ u \in Talkers /\ u.refused = t.refused
             /\ u.jitter \in {t.jitter, item.jitter, Empty}
             /\ \/ u.ordered = t.ordered
                \/ /\ item.kind = "Frame" /\ u.jitter = item.jitter
                   /\ LET f == CHOOSE f \in item.frames : TRUE
                      IN  u.ordered = (t.ordered /\ (t.jitter.last.who = f.who
                            => f.n > t.jitter.last.n))
<1> DEFINE item == Pull(t.jitter)
           round == [talker |-> t, over |-> over]
           next == DecodeRound(round)
           u == [t EXCEPT !.jitter = item.jitter]
           v == IF item.start THEN StartStream(u) ELSE u
           f == CHOOSE g \in item.frames : TRUE
           Over(x) == [talker |-> x, over |-> TRUE]
           More(x) == [talker |-> x, over |-> FALSE]
           Goal(w) == /\ w \in Talkers /\ w.refused = t.refused
                      /\ w.jitter \in {t.jitter, item.jitter, Empty}
                      /\ \/ w.ordered = t.ordered
                         \/ /\ item.kind = "Frame" /\ w.jitter = item.jitter
                            /\ w.ordered = (t.ordered /\ (t.jitter.last.who = f.who
                                  => f.n > t.jitter.last.n))
<1>0. round.talker = t /\ round.over = over
  OBVIOUS
<1>1. /\ t.jitter \in Jitters /\ item.jitter \in Jitters /\ item.start \in BOOLEAN
      /\ item.kind \in {"Wait", "End", "Frame", "PacketLoss"}
      /\ item.kind = "Frame" => \E g \in Frames : item.frames = {g}
  BY PullOwner DEF Talkers
<1>2. item.kind = "Frame" => f \in Frames /\ f.size \in Nat
  BY <1>1 DEF Frames
<1> SUFFICES \E w : (next = Over(w) \/ next = More(w)) /\ Goal(w)
  <2>1. PICK w : (next = Over(w) \/ next = More(w)) /\ Goal(w)
    OBVIOUS
  <2> HIDE DEF next, f, item
  <2>2. next.talker = w /\ next.over \in BOOLEAN /\ next = [talker |-> w, over |-> next.over]
    <3>1. next = [talker |-> w, over |-> TRUE] \/ next = [talker |-> w, over |-> FALSE]
      BY <2>1
    <3>2. CASE next = [talker |-> w, over |-> TRUE]
      BY ONLY <3>2
    <3>3. CASE next = [talker |-> w, over |-> FALSE]
      BY ONLY <3>3
    <3> QED BY <3>1, <3>2, <3>3
  <2>3. next = [talker |-> next.talker, over |-> next.over] /\ Goal(next.talker)
    BY <2>1, <2>2
  <2> QED BY <2>2, <2>3 DEF next, f, item
<1> HIDE DEF item
<1>3. u \in Talkers /\ u.jitter = item.jitter /\ u.ordered = t.ordered /\ u.refused = t.refused
      /\ u.decoded = t.decoded /\ u.decoded \in Nat
  BY <1>1 DEF Talkers
<1>4. v \in Talkers /\ v.jitter = item.jitter /\ v.ordered = t.ordered /\ v.refused = t.refused
      /\ v.decoded \in Nat /\ v.packet \in Nat
  <2> HIDE DEF u
  <2>1. StartStream(u) \in Talkers /\ StartStream(u).jitter = u.jitter
        /\ StartStream(u).ordered = u.ordered /\ StartStream(u).refused = u.refused
    BY <1>3 DEF StartStream, SamplesPerFrame, Talkers
  <2>2. v \in Talkers /\ v.jitter = item.jitter /\ v.ordered = t.ordered /\ v.refused = t.refused
    BY <1>3, <2>1
  <2> QED BY <2>2 DEF Talkers
<1>5. CASE over \/ t.decoded >= SamplesPerFrame
  <2>0. ~(~over /\ t.decoded < SamplesPerFrame)
    BY <1>5 DEF Talkers, SamplesPerFrame
  <2>1. next = Over(t)
    BY <1>0, <1>5, <2>0 DEF DecodeRound
  <2>2. Goal(t)
    OBVIOUS
  <2> QED BY <2>1, <2>2
<1>6. CASE ~(over \/ t.decoded >= SamplesPerFrame)
  <2>0. ~over /\ t.decoded < SamplesPerFrame
    BY <1>6 DEF Talkers, SamplesPerFrame
  <2>1. CASE item.kind = "Wait"
    <3>1. next = Over(u)
      BY <1>0, <1>6, <2>0, <2>1 DEF DecodeRound, item
    <3>2. Goal(u)
      BY <1>3
    <3> QED BY <3>1, <3>2
  <2>2. CASE item.kind = "End"
    <3> DEFINE d == IF u.decoded = 0 THEN 0 ELSE SamplesPerFrame
               w == [u EXCEPT !.packet = SamplesPerFrame, !.decoded = d]
    <3>1. next = Over(w)
      BY <1>0, <1>6, <2>0, <2>2 DEF DecodeRound, item
    <3>2. d \in Nat /\ SamplesPerFrame \in Nat
      BY DEF SamplesPerFrame
    <3> HIDE DEF u, d
    <3>3. Goal(w)
      BY <1>3, <3>2 DEF Talkers
    <3> QED BY <3>1, <3>3
  <2>3. CASE item.kind \in {"Frame", "PacketLoss"} /\ DecodeThrows(item)
    <3>1. next = Over(Reset(v))
      BY <1>0, <1>6, <2>0, <2>3 DEF DecodeRound, item
    <3> HIDE DEF v
    <3>2. Goal(Reset(v))
      BY <1>4, EmptyFields DEF Talkers, Reset, SamplesPerFrame
    <3> QED BY <3>1, <3>2
  <2>4. CASE item.kind = "Frame" /\ ~DecodeThrows(item)
    <3> DEFINE w == Played(v, t.jitter.last, f)
    <3>1. next = More(w)
      BY <1>0, <1>6, <2>0, <2>4 DEF DecodeRound, item
    <3> HIDE DEF v, f
    <3>2. v.decoded + f.size \in Nat /\ f.size \in Nat
      BY <1>2, <1>4, <2>4
    <3> DEFINE o == v.ordered /\ (t.jitter.last.who = f.who => f.n > t.jitter.last.n)
               s == v.decoded + f.size
    <3>3. w = [v EXCEPT !.ordered = o, !.decoded = s, !.packet = f.size]
      BY DEF Played
    <3>4. o \in BOOLEAN
      OBVIOUS
    <3> HIDE DEF w, o, s
    <3>5. w \in Talkers /\ w.refused = v.refused /\ w.jitter = v.jitter /\ w.ordered = o
      BY <1>4, <3>2, <3>3, <3>4 DEF Talkers, s
    <3>6. Goal(w)
      BY <1>4, <2>4, <3>5 DEF o
    <3> QED BY <3>1, <3>6 DEF w
  <2>5. CASE item.kind = "PacketLoss" /\ ~DecodeThrows(item)
    <3> DEFINE s == v.decoded + v.packet
               w == [v EXCEPT !.decoded = s]
    <3>1. next = More(w)
      BY <1>0, <1>6, <2>0, <2>5 DEF DecodeRound, item
    <3> HIDE DEF v
    <3>2. s \in Nat
      BY <1>4
    <3> HIDE DEF s
    <3>3. Goal(w)
      BY <1>4, <3>2 DEF Talkers
    <3> QED BY <3>1, <3>3
  <2> QED BY <1>1, <2>1, <2>2, <2>3, <2>4, <2>5
<1> QED BY <1>5, <1>6

LEMMA RoundOwner ==
  ASSUME VoiceNumbers, NEW t \in Talkers, NEW over \in BOOLEAN
  PROVE  LET next == DecodeRound([talker |-> t, over |-> over])
             u    == next.talker
         IN  /\ next = [talker |-> u, over |-> next.over] /\ next.over \in BOOLEAN
             /\ u \in Talkers
             /\ u.jitter.expected # None => t.jitter.expected # None
                   /\ u.jitter.who = t.jitter.who
<1> DEFINE item == Pull(t.jitter)
           next == DecodeRound([talker |-> t, over |-> over])
           u    == next.talker
<1>1. /\ next = [talker |-> u, over |-> next.over] /\ next.over \in BOOLEAN
      /\ u \in Talkers /\ u.jitter \in {t.jitter, item.jitter, Empty}
  BY RoundCases
<1>2. item.jitter.expected # None => t.jitter.expected # None
            /\ item.jitter.who = t.jitter.who
  BY PullOwner DEF Talkers
<1> HIDE DEF next, item
<1>3. u.jitter.expected # None => t.jitter.expected # None /\ u.jitter.who = t.jitter.who
  BY <1>1, <1>2, EmptyFields
<1> QED BY <1>1, <1>3 DEF next

(* What is shown of a talker. *)
TalkerOK(t) == t \in Talkers /\ StreamOK(t.jitter) /\ t.ordered /\ ~t.refused

LEMMA RoundStream ==
  ASSUME VoiceNumbers, NEW t, TalkerOK(t), NEW over \in BOOLEAN
  PROVE  LET next == DecodeRound([talker |-> t, over |-> over])
             u    == next.talker
         IN  TalkerOK(u) /\ Continued(u.jitter, t.jitter)
<1> DEFINE item == Pull(t.jitter)
           next == DecodeRound([talker |-> t, over |-> over])
           u    == next.talker
           f    == CHOOSE f \in item.frames : TRUE
<1>0. t \in Talkers /\ t.jitter \in Jitters /\ StreamOK(t.jitter) /\ t.ordered /\ ~t.refused
      /\ t.ordered \in BOOLEAN /\ t.refused \in BOOLEAN
  BY DEF TalkerOK, Talkers
<1>1. /\ u \in Talkers /\ u.refused = t.refused /\ u.jitter \in {t.jitter, item.jitter, Empty}
      /\ \/ u.ordered = t.ordered
         \/ /\ item.kind = "Frame"
            /\ u.ordered = (t.ordered /\ (t.jitter.last.who = f.who => f.n > t.jitter.last.n))
  BY <1>0, RoundCases
<1>2. /\ StreamOK(item.jitter) /\ Continued(item.jitter, t.jitter)
      /\ item.kind = "Frame" =>
           \E g \in Frames : item.frames = {g} /\ (t.jitter.last.who = g.who
                 => g.n > t.jitter.last.n)
  BY <1>0, PullStream
<1> HIDE DEF next, item
<1>3. StreamOK(Empty) /\ Continued(Empty, t.jitter) /\ Continued(t.jitter, t.jitter)
  BY <1>0, EmptyFields DEF StreamOK, Continued
<1>4. item.kind = "Frame" => (t.jitter.last.who = f.who => f.n > t.jitter.last.n)
  <2>1. SUFFICES ASSUME item.kind = "Frame" PROVE t.jitter.last.who = f.who => f.n > t.jitter.last.n
    OBVIOUS
  <2>2. PICK g \in Frames : item.frames = {g} /\ (t.jitter.last.who = g.who
              => g.n > t.jitter.last.n)
    BY <1>2, <2>1
  <2>3. f = g
    BY <2>2
  <2> QED BY <2>2, <2>3
<1> HIDE DEF f
<1>5. u.ordered = TRUE
  BY <1>0, <1>1, <1>4
<1>6. TalkerOK(u) /\ Continued(u.jitter, t.jitter)
  BY <1>0, <1>1, <1>2, <1>3, <1>5 DEF TalkerOK
<1> QED BY <1>6 DEF next

LEMMA TakeFrameFields ==
  ASSUME NEW t \in Talkers
  PROVE  LET u == TakeFrame(t)
         IN  u \in Talkers /\ u.jitter = t.jitter /\ u.ordered = t.ordered /\ u.refused = t.refused
<1> DEFINE d == t.decoded - SamplesPerFrame
           w == [t EXCEPT !.decoded = d]
<1>1. t.decoded \in Nat
  BY DEF Talkers
<1>2. CASE t.decoded < SamplesPerFrame
  BY <1>2 DEF TakeFrame
<1>3. CASE ~(t.decoded < SamplesPerFrame)
  <2>1. d \in Nat
    BY <1>1, <1>3 DEF SamplesPerFrame
  <2>2. TakeFrame(t) = w
    BY <1>3 DEF TakeFrame
  <2> HIDE DEF d
  <2> QED BY <2>1, <2>2 DEF Talkers
<1> QED BY <1>2, <1>3

(* MixPlayback, for one talker: two rounds and the frame that is taken.      *)
LEMMA MixOwner ==
  ASSUME VoiceNumbers, NEW t \in Talkers
  PROVE  LET u == TakeFrame(DecodeTalker(t))
         IN  /\ u \in Talkers
             /\ u.jitter.expected # None => t.jitter.expected # None
                   /\ u.jitter.who = t.jitter.who
<1> DEFINE a == DecodeRound([talker |-> t, over |-> FALSE])
           b == DecodeRound(a)
<1>1. /\ a = [talker |-> a.talker, over |-> a.over] /\ a.over \in BOOLEAN /\ a.talker \in Talkers
      /\ a.talker.jitter.expected # None => t.jitter.expected # None
            /\ a.talker.jitter.who = t.jitter.who
  BY RoundOwner
<1> HIDE DEF a
<1>2. LET c == DecodeRound([talker |-> a.talker, over |-> a.over])
      IN  /\ c.talker \in Talkers
          /\ c.talker.jitter.expected # None =>
               a.talker.jitter.expected # None /\ c.talker.jitter.who = a.talker.jitter.who
  BY <1>1, RoundOwner
<1>3. /\ b.talker \in Talkers
      /\ b.talker.jitter.expected # None =>
           a.talker.jitter.expected # None /\ b.talker.jitter.who = a.talker.jitter.who
  BY <1>1, <1>2
<1>4. DecodeTalker(t) = b.talker
  BY DEF DecodeTalker, a
<1> HIDE DEF b
<1>5. TakeFrame(b.talker) \in Talkers /\ TakeFrame(b.talker).jitter = b.talker.jitter
  BY <1>3, TakeFrameFields
<1> QED BY <1>1, <1>3, <1>4, <1>5

LEMMA MixStream ==
  ASSUME VoiceNumbers, NEW t, TalkerOK(t)
  PROVE  LET u == TakeFrame(DecodeTalker(t))
         IN  TalkerOK(u) /\ Continued(u.jitter, t.jitter)
<1> DEFINE a == DecodeRound([talker |-> t, over |-> FALSE])
           b == DecodeRound(a)
<1>0. t \in Talkers
  BY DEF TalkerOK
<1>1. /\ a = [talker |-> a.talker, over |-> a.over] /\ a.over \in BOOLEAN
      /\ TalkerOK(a.talker) /\ Continued(a.talker.jitter, t.jitter)
  BY <1>0, RoundOwner, RoundStream
<1> HIDE DEF a
<1>2. LET c == DecodeRound([talker |-> a.talker, over |-> a.over])
      IN  TalkerOK(c.talker) /\ Continued(c.talker.jitter, a.talker.jitter)
  BY <1>1, RoundStream
<1>3. TalkerOK(b.talker) /\ Continued(b.talker.jitter, a.talker.jitter)
  BY <1>1, <1>2
<1>4. DecodeTalker(t) = b.talker
  BY DEF DecodeTalker, a
<1> HIDE DEF b
<1>5. Continued(b.talker.jitter, t.jitter)
  BY <1>1, <1>3, EmptyFields DEF Continued
<1>6. LET u == TakeFrame(b.talker)
      IN  u \in Talkers /\ u.jitter = b.talker.jitter /\ u.ordered = b.talker.ordered
          /\ u.refused = b.talker.refused
  BY <1>3, TakeFrameFields DEF TalkerOK
<1> QED BY <1>3, <1>4, <1>5, <1>6 DEF TalkerOK

(* Push leaves the buffer with its owner or the pushed frame's. *)
LEMMA PushOwner ==
  ASSUME VoiceNumbers, NEW j \in Jitters, NEW f \in Frames
  PROVE  LET k == Push(j, f)
         IN  /\ k \in Jitters
             /\ k.who \in {j.who, f.who} /\ (j.expected = None => k.who = f.who)
<1>0. f.id \in 0 .. Modulus
  BY DEF Frames, Ids, VoiceNumbers
<1>1. CASE f.end
  <2> DEFINE i == IF j.expected = None THEN Expect(j, f) ELSE j
             e == [i EXCEPT !.end = f.id]
  <2>1. Push(j, f) = e \/ Push(j, f) = i
    BY <1>1 DEF Push, PushEnd, Discards
  <2>2. i \in Jitters /\ i.who \in {j.who, f.who} /\ (j.expected = None => i.who = f.who)
    BY MoveFields DEF Restarted
  <2> HIDE DEF i
  <2>3. e \in Jitters /\ e.who = i.who
    BY <1>0, <2>2 DEF Jitters
  <2> HIDE DEF e
  <2> QED BY <2>1, <2>2, <2>3
<1>2. CASE Discards(j, f)
  <2>1. Push(j, f) = j /\ j.expected # None
    BY <1>2 DEF Push, Discards, IsBackward
  <2> QED BY <2>1
<1>3. CASE ~f.end /\ ~Discards(j, f)
  <2> DEFINE k == Place(j, f)
             i == Insert(k, f)
  <2>1. Push(j, f) = Trim(i)
    BY <1>3 DEF Push
  <2>2. k \in Jitters /\ k.who \in {j.who, f.who} /\ (j.expected = None => k.who = f.who)
    BY PlaceFields DEF Restarted
  <2> HIDE DEF k
  <2>3. i \in Jitters /\ i.who = k.who
    BY <2>2, InsertFields DEF SameStream
  <2> HIDE DEF i
  <2>4. Trim(i) \in Jitters /\ Trim(i).who = i.who
    BY <2>3, TrimFields DEF SameStream
  <2> QED BY <2>1, <2>2, <2>3, <2>4
<1> QED BY <1>1, <1>2, <1>3

LEMMA PushToFields ==
  ASSUME VoiceNumbers, NEW t \in Talkers, NEW f \in Frames
  PROVE  LET u == PushTo(t, f)
         IN  /\ u \in Talkers /\ u.jitter = Push(t.jitter, f) /\ u.ordered = t.ordered
             /\ u.refused = (t.refused \/ (/\ Discards(t.jitter, f) /\ f.who = t.jitter.who
                                           /\ f.n >= t.jitter.at))
<1> DEFINE k == Push(t.jitter, f)
           r == t.refused \/ (/\ Discards(t.jitter, f) /\ f.who = t.jitter.who
                              /\ f.n >= t.jitter.at)
<1>1. t.jitter \in Jitters
  BY DEF Talkers
<1>2. k \in Jitters /\ r \in BOOLEAN
  BY <1>1, PushOwner
<1>3. PushTo(t, f) = [t EXCEPT !.jitter = k, !.refused = r]
  BY DEF PushTo
<1> HIDE DEF k, r
<1>4. LET u == [t EXCEPT !.jitter = k, !.refused = r]
      IN  u \in Talkers /\ u.jitter = k /\ u.ordered = t.ordered /\ u.refused = r
  BY <1>2 DEF Talkers
<1> QED BY <1>3, <1>4 DEF k, r

LEMMA NewTalkerOK ==
  ASSUME VoiceNumbers
  PROVE  TalkerOK(NewTalker) /\ NewTalker.jitter = Empty
<1>1. NewTalker \in Talkers /\ NewTalker.jitter = Empty /\ NewTalker.ordered
            /\ ~NewTalker.refused
  BY EmptyFields DEF NewTalker, Talkers, SamplesPerFrame
<1>2. StreamOK(Empty)
  BY EmptyFields DEF StreamOK
<1> QED BY <1>1, <1>2 DEF TalkerOK

-----------------------------------------------------------------------------
(* The frames in the incoming ring. *)
Entries(queue) == {queue[i] : i \in 1 .. Len(queue)}

LEMMA EntriesFacts ==
  ASSUME NEW queue \in Seq(Frames)
  PROVE  /\ \A q \in Entries(queue) : q \in Frames
         /\ \A f \in Frames : Entries(Append(queue, f)) = Entries(queue) \union {f}
         /\ queue # <<>> => /\ Head(queue) \in Entries(queue) /\ Tail(queue) \in Seq(Frames)
                            /\ Entries(Tail(queue)) \subseteq Entries(queue)
                            /\ Head(queue) = queue[1] /\ Len(queue) >= 1
<1>1. \A q \in Entries(queue) : q \in Frames
  BY DEF Entries
<1>2. ASSUME NEW f \in Frames PROVE Entries(Append(queue, f)) = Entries(queue) \union {f}
  <2>1. Len(Append(queue, f)) = Len(queue) + 1 /\ Len(queue) \in Nat
        /\ Append(queue, f)[Len(queue) + 1] = f
        /\ \A i \in 1 .. Len(queue) : Append(queue, f)[i] = queue[i]
    BY AppendProperties
  <2>2. Entries(Append(queue, f)) \subseteq Entries(queue) \union {f}
    BY <2>1 DEF Entries
  <2>3. Entries(queue) \subseteq Entries(Append(queue, f)) /\ f \in Entries(Append(queue, f))
    BY <2>1 DEF Entries
  <2> QED BY <2>2, <2>3
<1>3. ASSUME queue # <<>>
      PROVE  /\ Head(queue) \in Entries(queue) /\ Tail(queue) \in Seq(Frames)
             /\ Entries(Tail(queue)) \subseteq Entries(queue)
             /\ Head(queue) = queue[1] /\ Len(queue) >= 1
  <2>1. /\ Tail(queue) \in Seq(Frames) /\ Len(Tail(queue)) = Len(queue) - 1
        /\ \A i \in 1 .. Len(Tail(queue)) : Tail(queue)[i] = queue[i + 1]
    BY <1>3, HeadTailProperties
  <2>2. Len(queue) \in Nat /\ Len(queue) >= 1 /\ Head(queue) = queue[1]
    BY <1>3, EmptySeq
  <2> QED BY <2>1, <2>2 DEF Entries
<1> QED BY <1>1, <1>2, <1>3

VoiceTypes ==
  /\ incoming \in Seq(Frames) /\ arriving \subseteq Packets /\ talkers \subseteq Talkers
  /\ sender \in [who : {1, 2}, n : Nat, talking : BOOLEAN, left : Nat]
  /\ resets \in Nat /\ drops \in BOOLEAN /\ clean \in BOOLEAN

(* Before the id changes hands everything is of its first owner; afterwards, *)
(* while the history is clean, everything queued is of the second.           *)
OwnerInv ==
  /\ sender.who = 1 => /\ \A q \in arriving : q.who = 1
                       /\ \A q \in Entries(incoming) : q.who = 1
                       /\ \A t \in talkers : t.jitter.expected # None => t.jitter.who = 1
  /\ clean => \A q \in Entries(incoming) : q.who = sender.who
  /\ NewOwnerStartsFresh

(* A step of the talker: the frame it sends and what it leaves in the air. *)
Speaks(p) ==
  /\ p \in Packets /\ p.who = sender.who /\ p.n = sender.n /\ p.id = VoiceId(p.who, p.n)
  /\ sender' \in [who : {1, 2}, n : Nat, talking : BOOLEAN, left : Nat]
  /\ sender'.who = sender.who /\ sender'.n = sender.n + 1
  /\ sender.left > 0 /\ sender'.left = sender.left - 1
  /\ p \in arriving'
  /\ \A q \in arriving' : q = p \/ (q \in arriving /\ (q.who = p.who => q.n + MaxDelay >= p.n))
  /\ UNCHANGED <<incoming, resets, drops, talkers, mixer, clean>>

LEMMA SendsSpeaks ==
  ASSUME VoiceNumbers, VoiceTypes, NEW payload \in {"voice", "none"}, NEW size \in Nat,
         NEW flagged \in BOOLEAN, NEW talking \in BOOLEAN, Sends(Voice(payload, size, flagged), talking)
  PROVE  Speaks(Voice(payload, size, flagged))
<1> DEFINE p == Voice(payload, size, flagged)
           s == [sender EXCEPT !.n = @ + 1, !.talking = talking, !.left = @ - 1]
<1>1. sender.who \in {1, 2} /\ sender.n \in Nat /\ sender.left \in Nat
  BY DEF VoiceTypes
<1>2. VoiceId(sender.who, sender.n) \in Ids
  BY <1>1, VoiceIdType
<1>3. p \in Packets /\ p.who = sender.who /\ p.n = sender.n /\ p.id = VoiceId(p.who, p.n)
  BY <1>1, <1>2 DEF Voice, Packets
<1>4. /\ s \in [who : {1, 2}, n : Nat, talking : BOOLEAN, left : Nat]
      /\ s.who = sender.who /\ s.n = sender.n + 1 /\ s.left = sender.left - 1
  <2>1. sender.left - 1 \in Nat /\ sender.n + 1 \in Nat
    BY <1>1 DEF Sends
  <2> QED BY <1>1, <2>1 DEF VoiceTypes
<1> HIDE DEF s, p
<1>5. Sends(p, talking)
  BY DEF p
<1>6. sender' = s /\ sender.left > 0 /\ UNCHANGED <<incoming, resets, drops, talkers, mixer, clean>>
  BY <1>5 DEF Sends, s
<1>7. arriving' = { q \in arriving : IF q.who = p.who THEN q.n + MaxDelay >= p.n
                                                    ELSE MaxDelay >= p.n } \union {p}
  BY <1>5 DEF Sends
<1>8. /\ p \in arriving'
      /\ \A q \in arriving' : q = p \/ (q \in arriving /\ (q.who = p.who => q.n + MaxDelay >= p.n))
  BY <1>7
<1>9. Speaks(p)
  BY <1>3, <1>4, <1>6, <1>8 DEF Speaks
<1> QED BY <1>9 DEF p

LEMMA TalkerSpeaks ==
  ASSUME VoiceNumbers, VoiceTypes, Talk \/ EndTalk
  PROVE  \E p : Speaks(p)
<1>1. SizeOf(sender.who, sender.n) \in Nat /\ sender.talking \in BOOLEAN
  BY DEF SizeOf, SamplesPerFrame, VoiceTypes
<1>2. CASE Talk
  <2>1. Sends(Voice("voice", SizeOf(sender.who, sender.n), ~sender.talking), TRUE)
    BY <1>2 DEF Talk
  <2> QED BY <1>1, <2>1, SendsSpeaks
<1>3. CASE EndTalk
  <2>1. Sends(Voice("none", 1, FALSE), FALSE)
    BY <1>3 DEF EndTalk
  <2> QED BY <1>1, <2>1, SendsSpeaks
<1> QED BY <1>2, <1>3

(* What a voice packet leaves in the ring. *)
Submits(p) ==
  /\ p \in Packets /\ p \in arriving
  /\ LET f == DecodeServer(p)
     IN  /\ f \in Frames /\ f.who = p.who /\ f.n = p.n /\ f.id = p.id
         /\ incoming' = incoming \/ incoming' = Append(incoming, f)
  /\ arriving' \subseteq arriving
  /\ clean' = (clean /\ (p.who = sender.who \/ incoming' = incoming))
  /\ UNCHANGED <<resets, drops, talkers, mixer, sender>>

LEMMA VoiceSubmits ==
  ASSUME VoiceNumbers, VoiceTypes, NEW p \in arriving, HandleVoice(p)
  PROVE  Submits(p)
<1>1. p \in Packets
  BY DEF VoiceTypes
<1>2. LET f == DecodeServer(p) IN f \in Frames /\ f.who = p.who /\ f.n = p.n /\ f.id = p.id
  BY <1>1 DEF DecodeServer, Packets, Frames
<1>3. incoming' = incoming \/ incoming' = Append(incoming, DecodeServer(p))
  BY DEF HandleVoice, SubmitIncoming
<1>4. arriving' \subseteq arriving
  BY DEF HandleVoice
<1> QED BY <1>1, <1>2, <1>3, <1>4 DEF Submits, HandleVoice

LEMMA SubmittedEntries ==
  ASSUME VoiceTypes, NEW p, Submits(p)
  PROVE  \A q \in Entries(incoming') : q \in Entries(incoming) \/ (q.who = p.who /\ q.n = p.n)
<1> DEFINE f == DecodeServer(p)
<1>1. f \in Frames /\ f.who = p.who /\ f.n = p.n
      /\ (incoming' = incoming \/ incoming' = Append(incoming, f))
  BY DEF Submits
<1> HIDE DEF f
<1>2. Entries(Append(incoming, f)) = Entries(incoming) \union {f}
  BY <1>1, EntriesFacts DEF VoiceTypes
<1> QED BY <1>1, <1>2

(* What the worker makes of a frame. *)
Takes(t) ==
  /\ t \in Talkers /\ (t = NewTalker \/ t \in talkers)
  /\ incoming # <<>> /\ talkers' = {PushTo(t, Head(incoming))} /\ incoming' = Tail(incoming)
  /\ mixer = "frames"
  /\ UNCHANGED <<resets, drops, sender, arriving, clean>>

LEMMA IncomingTaken ==
  ASSUME VoiceNumbers, VoiceTypes, ProcessIncoming, incoming # <<>>
  PROVE  \E t : Takes(t)
<1> DEFINE t == IF talkers = {} THEN NewTalker ELSE CHOOSE x \in talkers : TRUE
<1>1. talkers' = {PushTo(t, Head(incoming))} /\ incoming' = Tail(incoming) /\ mixer = "frames"
      /\ UNCHANGED <<resets, drops, sender, arriving, clean>>
  BY DEF ProcessIncoming
<1>2. t = NewTalker \/ t \in talkers
  OBVIOUS
<1> HIDE DEF t
<1>3. t \in Talkers
  BY <1>2, NewTalkerOK DEF VoiceTypes, TalkerOK
<1> QED BY <1>1, <1>2, <1>3 DEF Takes

(* The kinds of steps, by what they do to the state the invariants are of.   *)
Senders == [who : {1, 2}, n : Nat, talking : BOOLEAN, left : Nat]
Quiet == UNCHANGED <<incoming, resets, drops, talkers, sender, arriving, clean>>
Mixes ==
  /\ talkers' = { TakeFrame(DecodeTalker(t)) : t \in talkers }
  /\ UNCHANGED <<incoming, resets, drops, sender, arriving, clean>>
Forgets ==
  /\ resets # 0 /\ talkers' = {} /\ resets' = resets - 1
  /\ UNCHANGED <<incoming, drops, sender, arriving, clean>>
Wanders ==
  /\ sender' \in Senders /\ sender'.who = sender.who /\ sender'.n >= sender.n
  /\ sender.who = 1 /\ sender.n >= 2 /\ sender.n <= Gap
  /\ sender'.n = sender.n + Gap /\ sender'.left = sender.left
  /\ UNCHANGED <<incoming, resets, drops, talkers, arriving, clean>>
Leaves ==
  /\ sender.who = 1 /\ sender' \in Senders /\ sender'.who = 2 /\ sender'.n = 1
  /\ sender'.left = MaxSentNew
  /\ (resets' = resets + 1 /\ drops' = drops) \/ (drops' = TRUE /\ resets' = resets)
  /\ clean' = (incoming = <<>>)
  /\ UNCHANGED <<incoming, talkers, arriving>>

LEMMA StepCases ==
  ASSUME VoiceNumbers, VoiceTypes, [ReceiveNext]_receiveVars
  PROVE  \/ Quiet \/ Mixes \/ Forgets \/ Wanders \/ Leaves
         \/ (\E t : Takes(t)) \/ (\E p : Submits(p)) \/ (\E p : Speaks(p))
<1>1. CASE UNCHANGED receiveVars \/ NoMixDue
  BY <1>1 DEF receiveVars, NoMixDue, Quiet
<1>2. CASE MixPlayback
  BY <1>2 DEF MixPlayback, Mixes
<1>3. CASE ProcessResets
  BY <1>3 DEF ProcessResets, Quiet, Forgets
<1>4. CASE ProcessIncoming
  <2>1. CASE incoming = <<>>
    BY <1>4, <2>1 DEF ProcessIncoming, Quiet
  <2>2. CASE incoming # <<>>
    BY <1>4, <2>2, IncomingTaken
  <2> QED BY <2>1, <2>2
<1>5. CASE Receive
  <2>1. PICK p \in arriving : HandleVoice(p)
    BY <1>5 DEF Receive
  <2> QED BY <2>1, VoiceSubmits
<1>6. CASE Talk \/ EndTalk
  BY <1>6, TalkerSpeaks
<1>7. CASE TalkElsewhere
  <2> DEFINE s == [sender EXCEPT !.n = @ + Gap, !.talking = FALSE]
  <2>1. sender \in Senders /\ sender.n \in Nat /\ Gap \in Nat
    BY DEF VoiceTypes, Senders, VoiceNumbers
  <2>2. sender.n + Gap \in Nat /\ sender.n + Gap >= sender.n
    BY <2>1
  <2>3. s \in Senders /\ s.who = sender.who /\ s.n = sender.n + Gap /\ s.left = sender.left
    BY <2>1, <2>2 DEF Senders
  <2>4. sender' = s /\ UNCHANGED <<incoming, resets, drops, talkers, arriving, clean>>
        /\ sender.who = 1 /\ sender.n \in 2 .. Gap
    BY <1>7 DEF TalkElsewhere
  <2> HIDE DEF s
  <2>5. Wanders
    BY <2>1, <2>2, <2>3, <2>4 DEF Wanders
  <2> QED BY <2>5
<1>8. CASE Leave
  <2>1. sender' \in Senders /\ sender'.who = 2 /\ sender'.n = 1 /\ sender'.left = MaxSentNew
    BY <1>8 DEF Leave, Senders, VoiceNumbers
  <2>2. Leaves
    BY <1>8, <2>1 DEF Leave, Leaves, RemoveTalker
  <2> QED BY <2>2
<1> QED BY <1>1, <1>2, <1>3, <1>4, <1>5, <1>6, <1>7, <1>8 DEF ReceiveNext, WorkerNext

LEMMA VoiceTypesKept ==
  ASSUME VoiceNumbers, VoiceTypes, [ReceiveNext]_receiveVars
  PROVE  VoiceTypes'
<1>1. CASE Quiet
  BY <1>1 DEF Quiet, VoiceTypes
<1>2. CASE Mixes
  <2>1. talkers' \subseteq Talkers
    BY <1>2, MixOwner DEF Mixes, VoiceTypes
  <2> QED BY <1>2, <2>1 DEF Mixes, VoiceTypes
<1>3. CASE Forgets
  BY <1>3 DEF Forgets, VoiceTypes
<1>4. CASE Wanders
  BY <1>4 DEF Wanders, Senders, VoiceTypes
<1>8. CASE Leaves
  <2>1. clean' \in BOOLEAN
    BY <1>8 DEF Leaves
  <2>2. resets' \in Nat /\ drops' \in BOOLEAN
    <3>1. CASE resets' = resets + 1 /\ drops' = drops
      BY <3>1 DEF VoiceTypes
    <3>2. CASE drops' = TRUE /\ resets' = resets
      BY <3>2 DEF VoiceTypes
    <3> QED BY <1>8, <3>1, <3>2 DEF Leaves
  <2> QED BY <1>8, <2>1, <2>2 DEF Leaves, Senders, VoiceTypes
<1>5. ASSUME NEW t, Takes(t) PROVE VoiceTypes'
  <2>1. Head(incoming) \in Frames /\ Tail(incoming) \in Seq(Frames)
    BY <1>5, EntriesFacts DEF Takes, VoiceTypes
  <2>2. PushTo(t, Head(incoming)) \in Talkers
    BY <1>5, <2>1, PushToFields DEF Takes
  <2> QED BY <1>5, <2>1, <2>2 DEF Takes, VoiceTypes
<1>6. ASSUME NEW p, Submits(p) PROVE VoiceTypes'
  <2>1. incoming' \in Seq(Frames)
    <3> DEFINE f == DecodeServer(p)
    <3>1. f \in Frames /\ (incoming' = incoming \/ incoming' = Append(incoming, f))
      BY <1>6 DEF Submits
    <3> HIDE DEF f
    <3>2. Append(incoming, f) \in Seq(Frames)
      BY <3>1, AppendProperties DEF VoiceTypes
    <3> QED BY <3>1, <3>2 DEF VoiceTypes
  <2>2. clean' \in BOOLEAN
    BY <1>6 DEF Submits, VoiceTypes
  <2> QED BY <1>6, <2>1, <2>2 DEF Submits, VoiceTypes
<1>7. ASSUME NEW p, Speaks(p) PROVE VoiceTypes'
  <2>1. arriving' \subseteq Packets
    BY <1>7 DEF Speaks, VoiceTypes
  <2> QED BY <1>7, <2>1 DEF Speaks, VoiceTypes
<1> QED BY <1>1, <1>2, <1>3, <1>4, <1>5, <1>6, <1>7, <1>8, StepCases

LEMMA OwnerKept ==
  ASSUME VoiceNumbers, VoiceTypes, OwnerInv, [ReceiveNext]_receiveVars
  PROVE  OwnerInv'
<1>1. CASE Quiet
  BY <1>1 DEF Quiet, OwnerInv, NewOwnerStartsFresh
<1>2. CASE Mixes
  <2>1. \A u \in talkers' : u.jitter.expected # None =>
          \E t \in talkers : t.jitter.expected # None /\ u.jitter.who = t.jitter.who
    BY <1>2, MixOwner DEF Mixes, VoiceTypes
  <2> QED BY <1>2, <2>1 DEF Mixes, OwnerInv, NewOwnerStartsFresh
<1>3. CASE Forgets
  BY <1>3 DEF Forgets, OwnerInv, NewOwnerStartsFresh
<1>4. CASE Wanders
  BY <1>4 DEF Wanders, OwnerInv, NewOwnerStartsFresh
<1>5. CASE Leaves
  <2>1. incoming = <<>> => Entries(incoming) = {}
    BY DEF Entries
  <2>2. ~drops' => resets' # 0
    BY <1>5 DEF Leaves, VoiceTypes
  <2>3. NewOwnerStartsFresh'
    BY <2>2 DEF NewOwnerStartsFresh
  <2>4. clean' => Entries(incoming') = {}
    BY <1>5, <2>1 DEF Leaves
  <2>5. sender'.who # 1
    BY <1>5 DEF Leaves
  <2> QED BY <2>3, <2>4, <2>5 DEF OwnerInv
<1>6. ASSUME NEW t, Takes(t) PROVE OwnerInv'
  <2> DEFINE f == Head(incoming)
             u == PushTo(t, f)
  <2>1. f \in Entries(incoming) /\ f \in Frames /\ Entries(incoming') \subseteq Entries(incoming)
    BY <1>6, EntriesFacts DEF Takes, VoiceTypes
  <2>2. t \in Talkers /\ t.jitter \in Jitters
    BY <1>6 DEF Takes, Talkers
  <2> HIDE DEF f
  <2>3. u.jitter = Push(t.jitter, f)
    BY <2>1, <2>2, PushToFields
  <2>4. u.jitter.who \in {t.jitter.who, f.who} /\ (t.jitter.expected = None
              => u.jitter.who = f.who)
    BY <2>1, <2>2, <2>3, PushOwner
  <2>5. talkers' = {u} /\ UNCHANGED <<resets, drops, sender, arriving, clean>>
    BY <1>6 DEF Takes, f
  <2> HIDE DEF u
  <2>6. t.jitter.expected = None \/ t \in talkers
    BY <1>6, NewTalkerOK, EmptyFields DEF Takes
  <2>7. sender.who = 1 => u.jitter.who = 1
    BY <2>1, <2>4, <2>6 DEF OwnerInv
  <2>8. clean /\ ~drops /\ resets = 0 => u.jitter.who = sender.who
    BY <2>1, <2>4, <2>6 DEF OwnerInv, NewOwnerStartsFresh
  <2> QED BY <2>1, <2>5, <2>7, <2>8 DEF OwnerInv, NewOwnerStartsFresh
<1>7. ASSUME NEW p, Submits(p) PROVE OwnerInv'
  <2>1. CASE incoming' = incoming
    BY <1>7, <2>1 DEF Submits, OwnerInv, NewOwnerStartsFresh, VoiceTypes
  <2>2. CASE incoming' # incoming
    <3> DEFINE f == DecodeServer(p)
    <3>1. f \in Frames /\ f.who = p.who /\ incoming' = Append(incoming, f)
      BY <1>7, <2>2 DEF Submits
    <3> HIDE DEF f
    <3>2. Entries(incoming') = Entries(incoming) \union {f}
      BY <3>1, EntriesFacts DEF VoiceTypes
    <3>3. clean' => clean /\ p.who = sender.who
      BY <1>7, <2>2 DEF Submits, VoiceTypes
    <3>4. sender.who = 1 => p.who = 1
      BY <1>7 DEF Submits, OwnerInv
    <3> QED BY <1>7, <3>1, <3>2, <3>3, <3>4 DEF Submits, OwnerInv, NewOwnerStartsFresh
  <2> QED BY <2>1, <2>2
<1>8. ASSUME NEW p, Speaks(p) PROVE OwnerInv'
  BY <1>8 DEF Speaks, OwnerInv, NewOwnerStartsFresh
<1> QED BY <1>1, <1>2, <1>3, <1>4, <1>5, <1>6, <1>7, <1>8, StepCases

LEMMA OwnerInit ==
  ASSUME VoiceNumbers, ReceiveInit
  PROVE  VoiceTypes /\ OwnerInv
<1>1. Entries(<<>>) = {}
  BY DEF Entries
<1>2. VoiceTypes
  <2>1. sender \in [who : {1, 2}, n : Nat, talking : BOOLEAN, left : Nat]
    BY DEF ReceiveInit, VoiceNumbers
  <2>2. incoming \in Seq(Frames) /\ arriving = {} /\ talkers = {} /\ resets \in Nat
    BY DEF ReceiveInit
  <2>3. drops \in BOOLEAN /\ clean \in BOOLEAN
    BY DEF ReceiveInit
  <2> QED BY <2>1, <2>2, <2>3 DEF VoiceTypes
<1>3. OwnerInv
  BY <1>1 DEF ReceiveInit, OwnerInv, NewOwnerStartsFresh
<1> QED BY <1>2, <1>3

(* RemoveTalker works: once the worker has taken the reset, and unless the   *)
(* reset was dropped or voice of the old owner was queued or came late, no   *)
(* jitter buffer has an id to expect from the old owner of the client id.    *)
THEOREM OwnersStartFresh ==
  ReceiveSpec => []NewOwnerStartsFresh
<1>0. VoiceNumbers
  BY Numbers
<1>1. ReceiveInit => VoiceTypes /\ OwnerInv
  BY <1>0, OwnerInit
<1>2. VoiceTypes /\ OwnerInv /\ [ReceiveNext]_receiveVars => VoiceTypes' /\ OwnerInv'
  BY <1>0, VoiceTypesKept, OwnerKept
<1>3. OwnerInv => NewOwnerStartsFresh
  BY DEF OwnerInv
<1> QED BY <1>1, <1>2, <1>3, PTL DEF ReceiveSpec

-----------------------------------------------------------------------------
(* Voice on its way is what its talker has sent, and no voice that is ahead  *)
(* of other voice, in the ring or on the way, is more than MaxDelay newer.   *)
Sent(q) == q.id = VoiceId(q.who, q.n) /\ (q.who = sender.who => q.n < sender.n)
NotLate(p, q) == p.who = q.who => p.n <= q.n + MaxDelay

DelayInv ==
  /\ sender.n >= 1
  /\ \A q \in arriving : Sent(q)
  /\ \A q \in Entries(incoming) : Sent(q)
  /\ \A p \in arriving, q \in arriving : NotLate(p, q)
  /\ \A p \in Entries(incoming), q \in arriving : NotLate(p, q)
  /\ \A i \in 1 .. Len(incoming) : \A k \in 1 .. i : NotLate(incoming[k], incoming[i])

(* The stream is older than what its owner sends next, and at most MaxDelay  *)
(* newer than what is to come of it.                                         *)
Placed(j) ==
  /\ j.who = sender.who => Within(j, sender.n - 1)
  /\ \A q \in arriving : q.who = j.who => Within(j, q.n + MaxDelay)
  /\ \A q \in Entries(incoming) : q.who = j.who => Within(j, q.n + MaxDelay)

StreamInv ==
  \A t \in talkers : TalkerOK(t) /\ (t.jitter.expected # None => Placed(t.jitter))

(* The hypothesis of the two theorems on streams: the frame the worker takes *)
(* next is of the talker whose stream the buffer holds, and not half a cycle *)
(* of voice ids (eleven minutes of voice) ahead of the expected one.  A gap  *)
(* that long, or a new owner's frame in the old one's buffer, the code       *)
(* cannot tell from a late frame.                                            *)
InReach ==
  mixer = "frames" /\ incoming # <<>> =>
    \A t \in talkers : t.jitter.expected # None =>
      /\ Head(incoming).who = t.jitter.who
      /\ Head(incoming).n < t.jitter.at + Half

LEMMA WithinMore ==
  ASSUME VoiceNumbers, NEW j \in Jitters, NEW a \in Int, NEW b \in Int, a <= b, Within(j, a),
         j.expected # None
  PROVE  Within(j, b)
<1>1. j.at \in Nat /\ \A id \in DOMAIN j.pending : j.pending[id].n \in Nat
  BY JitterFields
<1>2. j.at <= b + 1
  BY <1>1 DEF Within
<1>3. \A id \in DOMAIN j.pending : j.pending[id].n <= b
  BY <1>1 DEF Within
<1>4. ASSUME j.end # None PROVE j.at + Distance(j.expected, j.end) <= b
  <2>1. Distance(j.expected, j.end) \in Nat
    BY <1>4, JitterFields, DistanceType
  <2> QED BY <1>1, <1>4, <2>1 DEF Within
<1> QED BY <1>2, <1>3, <1>4 DEF Within

LEMMA DelayKept ==
  ASSUME VoiceNumbers, VoiceTypes, OwnerInv, DelayInv, [ReceiveNext]_receiveVars
  PROVE  DelayInv'
<1>0. /\ sender.n \in Nat /\ MaxDelay \in Nat
      /\ \A q \in arriving : q.n \in Nat
      /\ \A q \in Entries(incoming) : q.n \in Nat
  BY EntriesFacts DEF VoiceTypes, VoiceNumbers, Packets, Frames
<1>1. CASE Quiet \/ Mixes \/ Forgets
  BY <1>1 DEF Quiet, Mixes, Forgets, DelayInv, Sent, NotLate
<1>2. CASE Wanders
  <2>1. sender'.n >= sender.n /\ sender'.n \in Nat /\ sender'.who = sender.who
        /\ UNCHANGED <<incoming, arriving>>
    BY <1>2 DEF Wanders, Senders
  <2> QED BY <1>0, <2>1 DEF DelayInv, Sent, NotLate
<1>3. CASE Leaves
  <2>1. sender'.n >= 1 /\ sender'.who = 2 /\ sender.who = 1 /\ UNCHANGED <<incoming, arriving>>
    BY <1>3 DEF Leaves
  <2>2. (\A q \in arriving : q.who = 1) /\ (\A q \in Entries(incoming) : q.who = 1)
    BY <2>1 DEF OwnerInv
  <2> QED BY <2>1, <2>2 DEF DelayInv, Sent, NotLate
<1>4. ASSUME NEW t, Takes(t) PROVE DelayInv'
  <2>1. incoming # <<>> /\ incoming' = Tail(incoming) /\ UNCHANGED <<sender, arriving>>
    BY <1>4 DEF Takes
  <2>2. Entries(incoming') \subseteq Entries(incoming)
    BY <2>1, EntriesFacts DEF VoiceTypes
  <2>3. Len(incoming') = Len(incoming) - 1 /\ Len(incoming) \in Nat
        /\ \A i \in 1 .. Len(incoming') : incoming'[i] = incoming[i + 1]
    BY <2>1, HeadTailProperties DEF VoiceTypes
  <2>4. ASSUME NEW i \in 1 .. Len(incoming'), NEW k \in 1 .. i
        PROVE  NotLate(incoming'[k], incoming'[i])
    <3>1. i + 1 \in 1 .. Len(incoming) /\ k + 1 \in 1 .. i + 1 /\ k \in 1 .. Len(incoming')
      BY <2>3
    <3>2. NotLate(incoming[k + 1], incoming[i + 1])
      BY <3>1 DEF DelayInv
    <3> QED BY <2>3, <3>1, <3>2
  <2>5. \A i \in 1 .. Len(incoming') : \A k \in 1 .. i : NotLate(incoming'[k], incoming'[i])
    BY <2>4
  <2> HIDE DEF NotLate
  <2> QED BY <2>1, <2>2, <2>5 DEF DelayInv, Sent, NotLate
<1>5. ASSUME NEW p, Submits(p) PROVE DelayInv'
  <2>0. p \in arriving /\ arriving' \subseteq arriving /\ sender' = sender
    BY <1>5 DEF Submits
  <2>1. CASE incoming' = incoming
    BY <2>0, <2>1 DEF DelayInv, Sent, NotLate
  <2>2. CASE incoming' # incoming
    <3> DEFINE f == DecodeServer(p)
    <3>1. f \in Frames /\ f.who = p.who /\ f.n = p.n /\ f.id = p.id
                /\ incoming' = Append(incoming, f)
      BY <1>5, <2>2 DEF Submits
    <3> HIDE DEF f
    <3>2. Entries(incoming') = Entries(incoming) \union {f}
      BY <3>1, EntriesFacts DEF VoiceTypes
    <3>3. Len(incoming') = Len(incoming) + 1 /\ Len(incoming) \in Nat
          /\ incoming'[Len(incoming) + 1] = f
          /\ \A i \in 1 .. Len(incoming) : incoming'[i] = incoming[i]
      BY <3>1, AppendProperties DEF VoiceTypes
    <3>4. ASSUME NEW i \in 1 .. Len(incoming'), NEW k \in 1 .. i
          PROVE  NotLate(incoming'[k], incoming'[i])
      <4>1. CASE i <= Len(incoming)
        BY <3>3, <4>1 DEF DelayInv
      <4>2. CASE i = Len(incoming) + 1 /\ k <= Len(incoming)
        <5>1. incoming'[k] \in Entries(incoming) /\ incoming'[i] = f
          BY <3>3, <4>2 DEF Entries
        <5>2. NotLate(incoming'[k], p)
          BY <2>0, <5>1 DEF DelayInv
        <5> QED BY <3>1, <5>1, <5>2 DEF NotLate
      <4>3. CASE i = Len(incoming) + 1 /\ k = Len(incoming) + 1
        BY <1>0, <2>0, <3>1, <3>3, <4>3 DEF NotLate
      <4> QED BY <3>3, <4>1, <4>2, <4>3
    <3>5. \A i \in 1 .. Len(incoming') : \A k \in 1 .. i : NotLate(incoming'[k], incoming'[i])
      BY <3>4
    <3>6. \A q \in arriving' : q \in arriving /\ NotLate(f, q)
      BY <2>0, <3>1 DEF DelayInv, NotLate
    <3>7. Sent(f)'
      BY <2>0, <3>1 DEF DelayInv, Sent
    <3>8. /\ \A q \in arriving' : Sent(q)'
          /\ \A q \in Entries(incoming') : Sent(q)'
      BY <2>0, <3>2, <3>7 DEF DelayInv, Sent
    <3>9. \A q \in Entries(incoming'), r \in arriving' : NotLate(q, r)
      BY <3>2, <3>6 DEF DelayInv
    <3>10. \A q \in arriving', r \in arriving' : NotLate(q, r)
      BY <2>0 DEF DelayInv
    <3> QED BY <2>0, <3>5, <3>8, <3>9, <3>10 DEF DelayInv, NotLate
  <2> QED BY <2>1, <2>2
<1>6. ASSUME NEW p, Speaks(p) PROVE DelayInv'
  <2>1. /\ p.who = sender.who /\ p.n = sender.n /\ p.id = VoiceId(p.who, p.n)
        /\ sender'.who = sender.who /\ sender'.n = sender.n + 1
        /\ \A q \in arriving' : q = p \/ (q \in arriving /\ (q.who = p.who
              => q.n + MaxDelay >= p.n))
        /\ incoming' = incoming
    BY <1>6 DEF Speaks
  <2>2. /\ \A q \in arriving' : Sent(q)'
        /\ \A q \in Entries(incoming') : Sent(q)'
    BY <1>0, <2>1 DEF DelayInv, Sent
  <2>3. \A q \in arriving \union Entries(incoming) : NotLate(q, p)
    BY <1>0, <2>1 DEF DelayInv, Sent, NotLate
  <2>4. \A q \in arriving' : NotLate(p, q)
    BY <1>0, <2>1 DEF NotLate
  <2>5. \A q \in arriving', r \in arriving' : NotLate(q, r)
    BY <2>1, <2>3, <2>4 DEF DelayInv
  <2>6. \A q \in Entries(incoming'), r \in arriving' : NotLate(q, r)
    BY <2>1, <2>3 DEF DelayInv
  <2>7. sender'.n >= 1
    BY <1>0, <2>1
  <2> QED BY <2>1, <2>2, <2>5, <2>6, <2>7 DEF DelayInv, NotLate
<1> QED BY <1>1, <1>2, <1>3, <1>4, <1>5, <1>6, StepCases

LEMMA StreamTaken ==
  ASSUME VoiceNumbers, VoiceTypes, OwnerInv, DelayInv, StreamInv, InReach, NEW t, Takes(t)
  PROVE  StreamInv'
<1> DEFINE f == Head(incoming)
           u == PushTo(t, f)
           j == t.jitter
           k == Push(j, f)
<1>1. /\ f \in Entries(incoming) /\ f \in Frames /\ f.n \in Nat /\ f = incoming[1]
            /\ Len(incoming) >= 1
      /\ incoming # <<>> /\ incoming' = Tail(incoming) /\ talkers' = {u}
      /\ t \in Talkers /\ j \in Jitters /\ mixer = "frames" /\ UNCHANGED <<sender, arriving>>
  BY EntriesFacts DEF Takes, VoiceTypes, Frames, Talkers
<1>2. TalkerOK(t) /\ (j.expected # None => t \in talkers)
  BY NewTalkerOK, EmptyFields DEF Takes, StreamInv
<1>3. j.expected # None => Placed(j) /\ f.who = j.who /\ f.n < j.at + Half
  BY <1>1, <1>2 DEF StreamInv, InReach
<1> HIDE DEF f
<1>4. Fits(j, f) /\ StreamOK(j) /\ Sent(f)
  <2>1. Sent(f)
    BY <1>1 DEF DelayInv
  <2>2. j.expected # None => Within(j, f.n + MaxDelay)
    BY <1>1, <1>3 DEF Placed
  <2> QED BY <1>2, <1>3, <2>1, <2>2 DEF Fits, Sent, TalkerOK
<1>5. u \in Talkers /\ u.jitter = k /\ u.ordered = t.ordered
      /\ u.refused = (t.refused \/ (Discards(j, f) /\ f.who = j.who /\ f.n >= j.at))
  BY <1>1, PushToFields
<1>6. /\ k \in Jitters /\ StreamOK(k) /\ k.expected # None /\ k.who = f.who
      /\ \A top \in Nat : (j.expected # None => Within(j, top)) /\ f.n <= top => Within(k, top)
  BY <1>1, <1>4, PushStream
<1>7. ~(Discards(j, f) /\ f.n >= j.at)
  <2>1. Discards(j, f) => f.n < j.at
    BY <1>1, <1>4, SideOfFrame DEF Discards, IsBackward
  <2>2. j.at \in Nat
    BY <1>1, JitterFields
  <2> QED BY <1>1, <2>1, <2>2
<1> HIDE DEF u, k
<1>8. TalkerOK(u)
  BY <1>2, <1>5, <1>6, <1>7 DEF TalkerOK
<1>9. f.who = sender.who => Within(k, sender.n - 1)
  <2>1. SUFFICES ASSUME f.who = sender.who PROVE Within(k, sender.n - 1)
    OBVIOUS
  <2>2. sender.n \in Nat /\ f.n < sender.n
    BY <1>4, <2>1 DEF Sent, VoiceTypes
  <2>3. sender.n - 1 \in Nat /\ f.n <= sender.n - 1
    BY <1>1, <2>2
  <2>4. j.expected # None => Within(j, sender.n - 1)
    BY <1>3, <2>1 DEF Placed
  <2> QED BY <1>6, <2>3, <2>4
<1>10. ASSUME NEW q, q.n \in Nat, NotLate(f, q), q.who = f.who,
              j.expected # None => Within(j, q.n + MaxDelay)
       PROVE  Within(k, q.n + MaxDelay)
  <2>1. q.n + MaxDelay \in Nat /\ f.n <= q.n + MaxDelay
    BY <1>10 DEF NotLate, VoiceNumbers
  <2> QED BY <1>6, <1>10, <2>1
<1>11. ASSUME NEW q \in arriving, q.who = f.who PROVE Within(k, q.n + MaxDelay)
  <2>1. q.n \in Nat
    BY DEF VoiceTypes, Packets
  <2>2. NotLate(f, q)
    BY <1>1 DEF DelayInv
  <2>3. j.expected # None => Within(j, q.n + MaxDelay)
    BY <1>3, <1>11 DEF Placed
  <2> QED BY <1>10, <1>11, <2>1, <2>2, <2>3
<1>12. ASSUME NEW q \in Entries(incoming'), q.who = f.who PROVE Within(k, q.n + MaxDelay)
  <2>1. q \in Entries(incoming) /\ q.n \in Nat
    BY <1>1, EntriesFacts DEF VoiceTypes, Frames
  <2>2. NotLate(f, q)
    <3>1. PICK i \in 1 .. Len(incoming) : q = incoming[i]
      BY <2>1 DEF Entries
    <3>2. 1 \in 1 .. i
      BY <3>1
    <3> QED BY <1>1, <3>1, <3>2 DEF DelayInv
  <2>3. j.expected # None => Within(j, q.n + MaxDelay)
    BY <1>3, <1>12, <2>1 DEF Placed
  <2> QED BY <1>10, <1>12, <2>1, <2>2, <2>3
<1>13. ASSUME NEW w \in talkers'
       PROVE  TalkerOK(w) /\ Placed(w.jitter)'
  <2>1. w = u /\ w.jitter = k
    BY <1>1, <1>5
  <2>2. TalkerOK(w)
    BY <1>8, <2>1
  <2>3. /\ w.jitter.who = sender'.who => Within(w.jitter, sender'.n - 1)
        /\ \A q \in arriving' : q.who = w.jitter.who => Within(w.jitter, q.n + MaxDelay)
        /\ \A q \in Entries(incoming') : q.who = w.jitter.who => Within(w.jitter, q.n + MaxDelay)
    BY <1>1, <1>6, <1>9, <1>11, <1>12, <2>1
  <2> QED BY <2>2, <2>3 DEF Placed
<1> QED BY <1>13 DEF StreamInv

LEMMA StreamKept ==
  ASSUME VoiceNumbers, VoiceTypes, OwnerInv, DelayInv, StreamInv, InReach, [ReceiveNext]_receiveVars
  PROVE  StreamInv'
<1>0. /\ sender.n \in Nat /\ MaxDelay \in Nat
      /\ \A q \in arriving : q.n \in Nat
      /\ \A q \in Entries(incoming) : q.n \in Nat
      /\ \A t \in talkers : TalkerOK(t) /\ t.jitter \in Jitters
                            /\ (t.jitter.expected # None => Placed(t.jitter))
  BY EntriesFacts DEF VoiceTypes, VoiceNumbers, Packets, Frames, Talkers, StreamInv
<1>1. CASE Quiet
  BY <1>1 DEF Quiet, StreamInv, Placed
<1>2. CASE Mixes
  <2>1. ASSUME NEW u \in talkers'
        PROVE  TalkerOK(u) /\ (u.jitter.expected # None => Placed(u.jitter))
    <3>1. PICK t \in talkers : u = TakeFrame(DecodeTalker(t))
      BY <1>2 DEF Mixes
    <3>2. TalkerOK(u) /\ Continued(u.jitter, t.jitter)
      BY <1>0, <3>1, MixStream
    <3>3. ASSUME u.jitter.expected # None PROVE Placed(u.jitter)
      <4>1. /\ t.jitter.expected # None /\ u.jitter.who = t.jitter.who
            /\ \A top \in Nat : Within(t.jitter, top) => Within(u.jitter, top)
        BY <3>2, <3>3, EmptyFields DEF Continued
      <4>2. Placed(t.jitter)
        BY <1>0, <4>1
      <4>3. /\ sender.n - 1 \in Nat
            /\ \A q \in arriving : q.n + MaxDelay \in Nat
            /\ \A q \in Entries(incoming) : q.n + MaxDelay \in Nat
        BY <1>0 DEF DelayInv
      <4> QED BY <4>1, <4>2, <4>3 DEF Placed
    <3> QED BY <3>2, <3>3
  <2> QED BY <1>2, <2>1 DEF Mixes, StreamInv, Placed
<1>3. CASE Forgets
  BY <1>3 DEF Forgets, StreamInv
<1>4. ASSUME sender'.n \in Nat, sender'.n >= sender.n, sender'.who = sender.who, talkers' = talkers,
             incoming' = incoming,
             \A q \in arriving' : q \in arriving \/ (q.who = sender.who /\ q.n = sender.n)
      PROVE  StreamInv'
  <2>1. ASSUME NEW t \in talkers, t.jitter.expected # None PROVE Placed(t.jitter)'
    <3> DEFINE j == t.jitter
    <3>1. j \in Jitters /\ Placed(j) /\ j.expected # None
      BY <1>0, <2>1
    <3> HIDE DEF j
    <3>2. ASSUME j.who = sender.who, NEW top \in Int, sender.n - 1 <= top PROVE Within(j, top)
      <4>1. Within(j, sender.n - 1) /\ sender.n - 1 \in Int
        BY <1>0, <3>1, <3>2 DEF Placed
      <4> QED BY <3>1, <3>2, <4>1, WithinMore
    <3>3. j.who = sender'.who => Within(j, sender'.n - 1)
      <4>1. sender'.n - 1 \in Int /\ sender.n - 1 <= sender'.n - 1
        BY <1>0, <1>4
      <4> QED BY <1>4, <3>2, <4>1
    <3>4. \A q \in arriving' : q.who = j.who => Within(j, q.n + MaxDelay)
      <4>1. SUFFICES ASSUME NEW q \in arriving', q.who = j.who PROVE Within(j, q.n + MaxDelay)
        OBVIOUS
      <4>2. CASE q \in arriving
        BY <3>1, <4>1, <4>2 DEF Placed
      <4>3. CASE q.who = sender.who /\ q.n = sender.n
        <5>1. q.n + MaxDelay \in Int /\ sender.n - 1 <= q.n + MaxDelay
          BY <1>0, <4>3
        <5> QED BY <3>2, <4>1, <4>3, <5>1
      <4> QED BY <1>4, <4>1, <4>2, <4>3
    <3>5. \A q \in Entries(incoming') : q.who = j.who => Within(j, q.n + MaxDelay)
      BY <1>4, <3>1 DEF Placed
    <3>6. Placed(j)'
      BY <3>3, <3>4, <3>5 DEF Placed, j
    <3> QED BY <3>6 DEF j
  <2> QED BY <1>0, <1>4, <2>1 DEF StreamInv
<1>5. CASE Wanders
  BY <1>4, <1>5 DEF Wanders, Senders
<1>6. CASE Leaves
  <2>1. \A t \in talkers : t.jitter.expected # None => t.jitter.who = 1
    BY <1>6 DEF Leaves, OwnerInv
  <2>2. sender'.who = 2 /\ UNCHANGED <<incoming, talkers, arriving>>
    BY <1>6 DEF Leaves
  <2> QED BY <1>0, <2>1, <2>2 DEF StreamInv, Placed
<1>7. ASSUME NEW t, Takes(t) PROVE StreamInv'
  BY <1>7, StreamTaken
<1>8. ASSUME NEW p, Submits(p) PROVE StreamInv'
  <2>0. p \in arriving /\ arriving' \subseteq arriving /\ UNCHANGED <<sender, talkers>>
    BY <1>8 DEF Submits
  <2>1. \A q \in Entries(incoming') : q \in Entries(incoming) \/ (q.who = p.who /\ q.n = p.n)
    BY <1>8, SubmittedEntries
  <2>2. ASSUME NEW t \in talkers, t.jitter.expected # None PROVE Placed(t.jitter)'
    <3>1. Placed(t.jitter)
      BY <1>0, <2>2
    <3> QED BY <2>0, <2>1, <3>1 DEF Placed
  <2> QED BY <1>0, <2>0, <2>2 DEF StreamInv
<1>9. ASSUME NEW p, Speaks(p) PROVE StreamInv'
  <2>1. /\ sender'.n = sender.n + 1 /\ sender'.who = sender.who /\ talkers' = talkers
        /\ incoming' = incoming
        /\ \A q \in arriving' : q \in arriving \/ (q.who = sender.who /\ q.n = sender.n)
    BY <1>9 DEF Speaks
  <2>2. sender'.n \in Nat /\ sender'.n >= sender.n
    BY <1>0, <2>1
  <2> QED BY <1>4, <2>1, <2>2
<1> QED BY <1>1, <1>2, <1>3, <1>5, <1>6, <1>7, <1>8, <1>9, StepCases

LEMMA StreamInvHolds ==
  ReceiveSpec /\ []InReach => []StreamInv
<1>0. VoiceNumbers
  BY Numbers
<1>1. ReceiveInit => VoiceTypes /\ OwnerInv /\ DelayInv /\ StreamInv
  <2>1. Entries(<<>>) = {}
    BY DEF Entries
  <2>2. ReceiveInit => DelayInv
    BY <2>1 DEF ReceiveInit, DelayInv
  <2>3. ReceiveInit => StreamInv
    BY DEF ReceiveInit, StreamInv
  <2> QED BY <1>0, <2>2, <2>3, OwnerInit
<1>2. VoiceTypes /\ OwnerInv /\ DelayInv /\ StreamInv /\ InReach /\ [ReceiveNext]_receiveVars
      => VoiceTypes' /\ OwnerInv' /\ DelayInv' /\ StreamInv'
  BY <1>0, VoiceTypesKept, OwnerKept, DelayKept, StreamKept
<1> QED BY <1>1, <1>2, PTL DEF ReceiveSpec

(* What the jitter buffer gives MixPlayback of a stream is in the order it   *)
(* was spoken, each frame once, across any number of wraps of the voice ids, *)
(* losses, repetitions and frames that come up to MaxDelay late.             *)
THEOREM VoiceStaysInOrder ==
  ReceiveSpec /\ []InReach => []StreamInOrder
<1>1. StreamInv => StreamInOrder
  BY DEF StreamInv, StreamInOrder, TalkerOK
<1> QED BY StreamInvHolds, <1>1, PTL

(* Push refuses a frame only when its place has passed, and nothing waits    *)
(* in m_Pending behind the expected frame: Distance tells late from new.     *)
THEOREM NewVoiceIsTaken ==
  ReceiveSpec /\ []InReach => []OnlyLateIsRefused
<1>0. VoiceNumbers
  BY Numbers
<1>1. StreamInv => OnlyLateIsRefused
  <2> SUFFICES ASSUME StreamInv, NEW t \in talkers
               PROVE  /\ ~t.refused
                      /\ \A id \in DOMAIN t.jitter.pending : Distance(t.jitter.expected, id) < Half
    BY DEF OnlyLateIsRefused
  <2> DEFINE j == t.jitter
  <2>1. TalkerOK(t) /\ j \in Jitters /\ StreamOK(j) /\ ~t.refused
    BY DEF StreamInv, TalkerOK, Talkers
  <2> HIDE DEF j
  <2>2. ASSUME NEW id \in DOMAIN j.pending PROVE Distance(j.expected, id) < Half
    <3>1. j.expected # None
      BY <1>0, <2>1, EmptyFields DEF StreamOK
    <3>2. Waits(j, id) /\ j.pending[id].n \in Nat /\ j.at \in Nat
                /\ j.expected = VoiceId(j.who, j.at)
      BY <1>0, <2>1, <3>1, JitterFields DEF StreamOK
    <3> DEFINE n == j.pending[id].n
    <3>3. n \in Nat /\ id = VoiceId(j.who, n) /\ j.at <= n /\ n < j.at + Half
      BY <3>2 DEF Waits
    <3> HIDE DEF n
    <3>4. n < j.at + Modulus /\ Half \in Nat
      BY <1>0, <3>2, <3>3 DEF VoiceNumbers
    <3>5. Distance(VoiceId(j.who, j.at), VoiceId(j.who, n)) = n - j.at
      BY <1>0, <3>2, <3>3, <3>4, Ahead
    <3> QED BY <3>2, <3>3, <3>4, <3>5
  <2> QED BY <2>1, <2>2 DEF j
<1> QED BY StreamInvHolds, <1>1, PTL

-----------------------------------------------------------------------------
(* One owner and less than half a cycle of frames: then InReach holds by     *)
(* itself.                                                                   *)
ReachInv ==
  /\ sender.who = 1 => \/ sender.n + sender.left <= 1 + MaxSent
                       \/ sender.n > Gap /\ sender.n + sender.left <= 1 + MaxSent + Gap
  /\ sender.who = 2 => sender.left = 0
  /\ \A q \in arriving : q.who = 1 /\ q.n < Half
  /\ \A q \in Entries(incoming) : q.who = 1 /\ q.n < Half
  /\ \A t \in talkers : t.jitter.expected # None => t.jitter.who = 1

LEMMA ReachKept ==
  ASSUME VoiceNumbers, VoiceTypes, MaxSentNew = 0, MaxSent + Gap + 1 < Half, ReachInv,
               [ReceiveNext]_receiveVars
  PROVE  ReachInv'
<1>0. sender.n \in Nat /\ sender.left \in Nat /\ Gap \in Nat /\ MaxSent \in Nat /\ Half \in Nat
      /\ sender.who \in {1, 2}
  BY DEF VoiceTypes, VoiceNumbers
<1>1. CASE Quiet
  BY <1>1 DEF Quiet, ReachInv
<1>2. CASE Mixes
  <2>1. \A u \in talkers' : u.jitter.expected # None =>
          \E t \in talkers : t.jitter.expected # None /\ u.jitter.who = t.jitter.who
    BY <1>2, MixOwner DEF Mixes, VoiceTypes
  <2>2. \A u \in talkers' : u.jitter.expected # None => u.jitter.who = 1
    BY <2>1 DEF ReachInv
  <2> QED BY <1>2, <2>2 DEF Mixes, ReachInv
<1>3. CASE Forgets
  BY <1>3 DEF Forgets, ReachInv
<1>4. CASE Wanders
  BY <1>0, <1>4 DEF Wanders, ReachInv
<1>5. CASE Leaves
  BY <1>5 DEF Leaves, ReachInv
<1>6. ASSUME NEW t, Takes(t) PROVE ReachInv'
  <2> DEFINE f == Head(incoming)
             u == PushTo(t, f)
  <2>1. f \in Entries(incoming) /\ f \in Frames /\ Entries(incoming') \subseteq Entries(incoming)
    BY <1>6, EntriesFacts DEF Takes, VoiceTypes
  <2>2. t \in Talkers /\ t.jitter \in Jitters
    BY <1>6 DEF Takes, Talkers
  <2> HIDE DEF f
  <2>3. u.jitter = Push(t.jitter, f)
    BY <2>1, <2>2, PushToFields
  <2>4. u.jitter.who \in {t.jitter.who, f.who} /\ (t.jitter.expected = None
              => u.jitter.who = f.who)
    BY <2>1, <2>2, <2>3, PushOwner
  <2>5. talkers' = {u} /\ UNCHANGED <<sender, arriving>>
    BY <1>6 DEF Takes, f
  <2> HIDE DEF u
  <2>6. t.jitter.expected = None \/ t \in talkers
    BY <1>6, NewTalkerOK, EmptyFields DEF Takes
  <2>7. u.jitter.who = 1
    BY <2>1, <2>4, <2>6 DEF ReachInv
  <2> QED BY <2>1, <2>5, <2>7 DEF ReachInv
<1>7. ASSUME NEW p, Submits(p) PROVE ReachInv'
  <2>0. p \in arriving /\ arriving' \subseteq arriving /\ UNCHANGED <<sender, talkers>>
    BY <1>7 DEF Submits
  <2>1. \A q \in Entries(incoming') : q \in Entries(incoming) \/ (q.who = p.who /\ q.n = p.n)
    BY <1>7, SubmittedEntries
  <2> QED BY <2>0, <2>1 DEF ReachInv
<1>8. ASSUME NEW p, Speaks(p) PROVE ReachInv'
  <2>1. /\ p.who = sender.who /\ p.n = sender.n /\ sender.left > 0
        /\ sender'.who = sender.who /\ sender'.n = sender.n + 1 /\ sender'.left = sender.left - 1
        /\ \A q \in arriving' : q = p \/ q \in arriving
        /\ incoming' = incoming /\ talkers' = talkers
    BY <1>8 DEF Speaks
  <2>2. sender.who = 1
    BY <1>0, <2>1 DEF ReachInv
  <2>3. p.n < Half
    BY <1>0, <2>1, <2>2 DEF ReachInv
  <2>4. \/ sender'.n + sender'.left <= 1 + MaxSent
        \/ sender'.n > Gap /\ sender'.n + sender'.left <= 1 + MaxSent + Gap
    BY <1>0, <2>1, <2>2 DEF ReachInv
  <2> QED BY <2>1, <2>2, <2>3, <2>4 DEF ReachInv
<1> QED BY <1>1, <1>2, <1>3, <1>4, <1>5, <1>6, <1>7, <1>8, StepCases

(* Without the hypothesis: a talker that keeps its client id and sends less  *)
(* than half a cycle of voice, a talk elsewhere included, is played in order *)
(* by VoiceJitterBuffer, and only what is late of it is refused.             *)
THEOREM ShortTalkInOrder ==
  ASSUME MaxSentNew = 0, MaxSent + Gap + 1 < Half
  PROVE  ReceiveSpec => [](StreamInOrder /\ OnlyLateIsRefused)
<1>0. VoiceNumbers
  BY Numbers
<1>1. ReceiveInit => VoiceTypes /\ ReachInv
  <2>1. Entries(<<>>) = {}
    BY DEF Entries
  <2>2. ReceiveInit => ReachInv
    BY <1>0, <2>1 DEF ReceiveInit, ReachInv, VoiceNumbers
  <2> QED BY <1>0, <2>2, OwnerInit
<1>2. VoiceTypes /\ ReachInv /\ [ReceiveNext]_receiveVars => VoiceTypes' /\ ReachInv'
  BY <1>0, VoiceTypesKept, ReachKept
<1>3. VoiceTypes /\ ReachInv => InReach
  <2> SUFFICES ASSUME VoiceTypes, ReachInv, incoming # <<>>, NEW t \in talkers,
                            t.jitter.expected # None
               PROVE  /\ Head(incoming).who = t.jitter.who
                      /\ Head(incoming).n < t.jitter.at + Half
    BY DEF InReach
  <2>1. Head(incoming) \in Entries(incoming) /\ Head(incoming) \in Frames
    BY EntriesFacts DEF VoiceTypes
  <2>2. t.jitter.at \in Nat /\ Head(incoming).n \in Nat /\ Half \in Nat
    BY <1>0, <2>1 DEF VoiceTypes, Talkers, Jitters, Frames, VoiceNumbers
  <2>3. Head(incoming).who = 1 /\ Head(incoming).n < Half /\ t.jitter.who = 1
    BY <2>1 DEF ReachInv
  <2>4. \A n \in Nat, at \in Nat : n < Half => n < at + Half
    BY <2>2
  <2>5. Head(incoming).n < t.jitter.at + Half
    BY ONLY <2>2, <2>3, <2>4
  <2> QED BY <2>3, <2>5
<1> QED BY <1>1, <1>2, <1>3, VoiceStaysInOrder, NewVoiceIsTaken, PTL DEF ReceiveSpec
=============================================================================
