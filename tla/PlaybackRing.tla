---------------------------- MODULE PlaybackRing ----------------------------
(***************************************************************************)
(* The playback queue between the audio worker, which mixes frames, and the *)
(* output device's own thread, which asks for samples: SpscRing one load or *)
(* store of an index at a time, RenderPlayback on the one side and the      *)
(* worker's top-up of the queue on the other.  The device (external) asks   *)
(* when it likes, for what it likes.                                        *)
(***************************************************************************)
EXTENDS Naturals, Sequences

CONSTANTS Capacity,         (* PlaybackQueueCapacity: 32                       *)
          SamplesPerFrame,  (* 960                                             *)
          Requests,         (* external: the samples a device may ask for      *)
          MaxRequests       (* bound: requests of the device                   *)

ASSUME PlaybackRingAssumption ==
  /\ {Capacity, SamplesPerFrame, MaxRequests} \subseteq Nat
  /\ Capacity > 2 /\ SamplesPerFrame > 0
  /\ Requests \subseteq 1 .. (Capacity - 1) * SamplesPerFrame

VARIABLES
  slots,     (* m_Data: frames, named by the order they were mixed in          *)
  write,     (* m_Write                                                        *)
  read,      (* m_Read                                                         *)
  mixer,     (* the worker: where it is, its target, how many frames it mixed  *)
  current,   (* m_PlaybackCurrent                                              *)
  offset,    (* m_PlaybackOffset                                               *)
  render,    (* RenderPlayback: where it is and the samples it still owes      *)
  request,   (* m_PlaybackRequestSamples                                       *)
  last,      (* m_LastPlaybackRequest: never, recent or over 250 ms old        *)
  requests,  (* bound: requests so far                                         *)
  promise    (* history: samples promised to the next request, and kept so far *)

vars == <<slots, write, read, mixer, current, offset, render, request, last, requests, promise>>

Smaller(a, b) == IF a < b THEN a ELSE b
Indices == 0 .. Capacity - 1
After(index) == (index + 1) % Capacity
Size == (write + Capacity - read) % Capacity

-----------------------------------------------------------------------------
(* The worker.                                                               *)
(* Mutant: one request's worth of frames, without the frame of slack.        *)
MutantNoSlack(samples) ==
  LET frames == (samples + SamplesPerFrame - 1) \div SamplesPerFrame
  IN  IF frames < 2 THEN 2 ELSE Smaller(frames, Capacity - 1)
PlaybackBufferFrames(samples) ==
  LET frames == (samples + SamplesPerFrame - 1) \div SamplesPerFrame + 1
  IN  IF frames < 2 THEN 2 ELSE Smaller(frames, Capacity - 1)

PlaybackDeviceActive == last = "recent"

(* A pass that finds no device active discards its mix and changes nothing   *)
(* here.                                                                     *)
MixerPass ==
  /\ mixer.at = "pass" /\ PlaybackDeviceActive
  /\ mixer' = [mixer EXCEPT !.at = "top up", !.target = PlaybackBufferFrames(request), !.fresh = TRUE]
  /\ UNCHANGED <<slots, write, read, current, offset, render, request, last, requests, promise>>

(* TryEmplace: the slot first, then the index.                               *)
(* Mutant: the index is stored before the slot is filled.                    *)
MutantIndexFirst(step) ==
  IF step = 1 THEN write' = After(write) /\ UNCHANGED slots
              ELSE slots' = [slots EXCEPT ![(write + Capacity - 1) % Capacity] = mixer.mixed + 1]
                   /\ UNCHANGED write
EmplaceStep(step) ==
  IF step = 1 THEN slots' = [slots EXCEPT ![write] = mixer.mixed + 1] /\ UNCHANGED write
              ELSE write' = After(write) /\ UNCHANGED slots

TopUp ==
  /\ mixer.at = "top up" /\ Size < mixer.target
  /\ IF After(write) = read
       THEN UNCHANGED <<slots, write, mixer>>
       ELSE EmplaceStep(1) /\ mixer' = [mixer EXCEPT !.at = "publish"]
  /\ UNCHANGED <<read, current, offset, render, request, last, requests, promise>>

Publish ==
  /\ mixer.at = "publish"
  /\ EmplaceStep(2)
  /\ mixer' = [mixer EXCEPT !.at = "top up", !.mixed = @ + 1]
  /\ UNCHANGED <<read, current, offset, render, request, last, requests, promise>>

(* The queue is full enough: the next request, if it is no more than a frame *)
(* larger than the one the worker has seen answered, is promised.            *)
ToppedUp ==
  /\ mixer.at = "top up" /\ Size >= mixer.target
  /\ mixer' = [mixer EXCEPT !.at = "pass"]
  /\ promise' = IF mixer.fresh /\ render.at = "idle"
                  THEN [promise EXCEPT !.samples =
                          Smaller(request + SamplesPerFrame, (Capacity - 1) * SamplesPerFrame)]
                  ELSE promise
  /\ UNCHANGED <<slots, write, read, current, offset, render, request, last, requests>>

-----------------------------------------------------------------------------
(* The device's thread.  Copying out of m_PlaybackCurrent is its own affair  *)
(* and happens with the step before it.                                      *)
Copy(owed, from) ==
  LET count == Smaller(SamplesPerFrame - from, owed)
  IN  /\ offset' = from + count
      /\ render' = [render EXCEPT !.owed = owed - count, !.at = IF owed = count THEN "idle" ELSE "pop"]

RenderPlayback(samples) ==
  /\ render.at = "idle" /\ requests < MaxRequests
  /\ requests' = requests + 1
  /\ last' = "recent"
  /\ request' = samples
  /\ LET count == Smaller(SamplesPerFrame - offset, samples)
     IN  /\ offset' = offset + count
         /\ render' = [at |-> IF samples = count THEN "idle" ELSE "pop", owed |-> samples - count,
                       active |-> last = "recent", promised |-> samples <= promise.samples]
  /\ promise' = [promise EXCEPT !.samples = 0]
  /\ mixer' = [mixer EXCEPT !.fresh = FALSE]
  /\ UNCHANGED <<slots, write, read, current>>

(* TryPop finds nothing: the rest is silence.                                *)
Underrun ==
  /\ render.at = "pop" /\ read = write
  /\ render' = [render EXCEPT !.at = "idle", !.owed = 0]
  /\ promise' = [promise EXCEPT !.kept = @ /\ ~(render.active /\ render.promised)]
  /\ UNCHANGED <<slots, write, read, mixer, current, offset, request, last, requests>>

PopFrame ==
  /\ render.at = "pop" /\ read # write
  /\ current' = slots[read]
  /\ render' = [render EXCEPT !.at = "popped"]
  /\ UNCHANGED <<slots, write, read, mixer, offset, request, last, requests, promise>>

PopIndex ==
  /\ render.at = "popped"
  /\ read' = After(read)
  /\ Copy(render.owed, 0)
  /\ UNCHANGED <<slots, write, mixer, current, request, last, requests, promise>>

(* 250 ms without a request.                                                 *)
DeviceGoesIdle ==
  /\ last = "recent" /\ render.at = "idle"
  /\ last' = "old"
  /\ UNCHANGED <<slots, write, read, mixer, current, offset, render, request, requests, promise>>

Init ==
  /\ slots = [i \in Indices |-> 0]
  /\ write = 0 /\ read = 0
  /\ mixer = [at |-> "pass", target |-> 0, mixed |-> 0, fresh |-> FALSE]
  /\ current = 0
  /\ offset = SamplesPerFrame
  /\ render = [at |-> "idle", owed |-> 0, active |-> FALSE, promised |-> FALSE]
  /\ request = SamplesPerFrame
  /\ last = "never"
  /\ requests = 0
  /\ promise = [samples |-> 0, kept |-> TRUE]

MixerNext == MixerPass \/ TopUp \/ Publish \/ ToppedUp
DeviceNext ==
  (\E n \in Requests : RenderPlayback(n)) \/ Underrun \/ PopFrame \/ PopIndex \/ DeviceGoesIdle
Next == MixerNext \/ DeviceNext
Spec == Init /\ [][Next]_vars

-----------------------------------------------------------------------------
(* The frames between read and write; one that RenderPlayback has copied is  *)
(* taken although its index still stands.                                    *)
Waiting ==
  [i \in 1 .. Size - (IF render.at = "popped" THEN 1 ELSE 0) |->
     slots[(read + i - (IF render.at = "popped" THEN 0 ELSE 1)) % Capacity]]

Queue == INSTANCE BoundedQueue WITH queue <- Waiting, pushed <- mixer.mixed, out <- current,
                                    Limit <- Capacity - 1

(* The lock-free ring is a bounded queue: every frame that was mixed reaches *)
(* the device once, whole and in order, whatever the interleaving of the     *)
(* two threads' loads and stores.                                            *)
RingIsQueue == Queue!Spec

(* The device finds the buffer it was promised: once the worker has topped   *)
(* up the queue after a request, the next one is answered in full even if    *)
(* it is a frame larger (PlaybackBufferFrames: a frame of slack).            *)
PromiseKept == promise.kept

=============================================================================
