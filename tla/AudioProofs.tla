---------------------------- MODULE AudioProofs -----------------------------
(***************************************************************************)
(* Proofs about the audio engine.  The playback queue, for every capacity,  *)
(* frame length, device and number of requests: SpscRing implements a       *)
(* bounded queue, and a device finds the samples PlaybackBufferFrames set   *)
(* aside for it.  Further down the devices, for any devices, changes and    *)
(* failures: what is selected, open, shown and saved agrees, and what Start *)
(* has created is taken down.                                               *)
(***************************************************************************)
EXTENDS PlaybackRing, AudioDevices, Integers, SequenceTheorems, TLAPS

(* How far behind read a slot is, and so how many pops before it is taken.   *)
Place(index) == (index + Capacity - read) % Capacity

(* The frames that wait: one that is being popped is taken already.          *)
WaitingFrames == Size - (IF render.at = "popped" THEN 1 ELSE 0)

RingTypes ==
  /\ slots \in [Indices -> Nat] /\ write \in Indices /\ read \in Indices
  /\ mixer \in [at : {"pass", "top up", "publish"}, target : Nat, mixed : Nat, fresh : BOOLEAN]
  /\ current \in Nat /\ offset \in 0 .. SamplesPerFrame
  /\ render \in [at : {"idle", "pop", "popped"}, owed : Nat, active : BOOLEAN, promised : BOOLEAN]
  /\ request \in Nat

(* The slots between read and write hold the last Size frames mixed, in      *)
(* order, and the device has the one before them.  A frame that is emplaced  *)
(* and not yet published is in the slot at write, which is free; a frame     *)
(* that is copied and not yet released is still counted.                     *)
RingInv ==
  /\ RingTypes
  /\ Size <= mixer.mixed
  /\ \A index \in Indices : Place(index) < Size => slots[index] = mixer.mixed - Size + 1 + Place(index)
  /\ mixer.at = "publish" => After(write) # read /\ slots[write] = mixer.mixed + 1
  /\ render.at = "popped" => read # write
  /\ current = mixer.mixed - WaitingFrames

(* A worker that has seen the last request tops the queue up for it; what is *)
(* promised while the device is idle is in the queue, and what a promised    *)
(* request still owes is in the queue until it has been copied.              *)
PromiseInv ==
  /\ promise \in [samples : Nat, kept : BOOLEAN]
  /\ mixer.at # "pass" /\ mixer.fresh => mixer.target = PlaybackBufferFrames(request)
  /\ promise.samples <= Size * SamplesPerFrame
  /\ render.at # "idle" => promise.samples = 0 /\ render.owed > 0
  /\ render.at # "idle" /\ render.promised => render.owed <= Size * SamplesPerFrame
  /\ promise.kept

-----------------------------------------------------------------------------
(* What PlaybackRingAssumption says of the numbers the code fixes.           *)
LEMMA RingFacts ==
  /\ Capacity \in Nat /\ Capacity > 2
  /\ SamplesPerFrame \in Nat /\ SamplesPerFrame > 0
  /\ Requests \subseteq Nat
BY PlaybackRingAssumption

(* Reduction modulo the capacity, for the sums the code reduces. *)
LEMMA ModSmall ==
  ASSUME NEW n \in 0 .. 2 * Capacity - 1
  PROVE  n % Capacity = IF n < Capacity THEN n ELSE n - Capacity
<1>1. CASE n < Capacity
  BY <1>1, RingFacts
<1>2. CASE n >= Capacity
  <2>1. n - Capacity \in 0 .. Capacity - 1 /\ n = Capacity + (n - Capacity)
    BY <1>2, RingFacts
  <2> QED BY <2>1, <1>2, RingFacts
<1> QED BY <1>1, <1>2, RingFacts

(* The distance from one index forward to another, and the next index,       *)
(* without a remainder.                                                      *)
LEMMA Distance ==
  ASSUME NEW to \in Indices, NEW from \in Indices
  PROVE  /\ (to + Capacity - from) % Capacity
              = IF from <= to THEN to - from ELSE to + Capacity - from
         /\ (to + Capacity - from) % Capacity \in 0 .. Capacity - 1
<1>1. to + Capacity - from \in 0 .. 2 * Capacity - 1
  BY RingFacts DEF Indices
<1> QED BY <1>1, ModSmall, RingFacts DEF Indices

LEMMA Following ==
  ASSUME NEW index \in Indices
  PROVE  /\ After(index) = IF index = Capacity - 1 THEN 0 ELSE index + 1
         /\ After(index) \in Indices
<1>1. index + 1 \in 0 .. 2 * Capacity - 1
  BY RingFacts DEF Indices
<1> QED BY <1>1, ModSmall, RingFacts DEF Indices, After

(* What the invariant says of the numbers, for the proofs of the steps. *)
LEMMA RingNumbers ==
  ASSUME RingTypes
  PROVE  /\ Size = IF read <= write THEN write - read ELSE write + Capacity - read
         /\ Size \in 0 .. Capacity - 1
         /\ \A index \in Indices :
              /\ Place(index) = IF read <= index THEN index - read ELSE index + Capacity - read
              /\ Place(index) \in 0 .. Capacity - 1
BY Distance DEF RingTypes, Size, Place

LEMMA RingNumbersNext ==
  ASSUME RingTypes'
  PROVE  /\ Size' = IF read' <= write' THEN write' - read' ELSE write' + Capacity - read'
         /\ Size' \in 0 .. Capacity - 1
         /\ \A index \in Indices :
              /\ Place(index)' = IF read' <= index THEN index - read' ELSE index + Capacity - read'
              /\ Place(index)' \in 0 .. Capacity - 1
BY Distance DEF RingTypes, Size, Place, Indices

(* PlaybackBufferFrames is a number of frames, and holds the request it is   *)
(* for and a frame more, or as much as the ring can.                         *)
LEMMA BufferFrames ==
  ASSUME NEW samples \in Nat
  PROVE  /\ PlaybackBufferFrames(samples) \in Nat
         /\ Smaller(samples + SamplesPerFrame, (Capacity - 1) * SamplesPerFrame)
              <= PlaybackBufferFrames(samples) * SamplesPerFrame
<1> DEFINE S == SamplesPerFrame
           q == (samples + S - 1) \div S
<1>1. S \in Nat /\ S > 0 /\ Capacity \in Nat /\ Capacity > 2
  BY RingFacts
<1>2. q \in Nat /\ samples <= q * S
  <2>1. /\ samples + S - 1 = S * q + ((samples + S - 1) % S)
        /\ (samples + S - 1) % S \in 0 .. S - 1 /\ q \in Int
    BY <1>1
  <2>2. q >= 0
    <3>1. SUFFICES ASSUME q <= -1 PROVE FALSE
      BY <2>1
    <3>2. S * (-1 - q) >= 0
      BY <1>1, <2>1, <3>1
    <3> QED BY <1>1, <2>1, <3>2
  <2> QED BY <1>1, <2>1, <2>2
<1>3. PlaybackBufferFrames(samples) = IF q + 1 < 2 THEN 2 ELSE Smaller(q + 1, Capacity - 1)
  BY DEF PlaybackBufferFrames
<1> HIDE DEF q, S
<1>4. (q + 1) * S = q * S + S
  BY <1>1, <1>2
<1>5. CASE q = 0
  BY <1>1, <1>2, <1>3, <1>5 DEF S, Smaller
<1>6. CASE q # 0
  <2>1. PlaybackBufferFrames(samples) = Smaller(q + 1, Capacity - 1)
    BY <1>2, <1>3, <1>6
  <2>2. CASE q + 1 < Capacity - 1
    BY <1>1, <1>2, <1>4, <2>1, <2>2 DEF S, Smaller
  <2>3. CASE ~(q + 1 < Capacity - 1)
    BY <1>1, <1>2, <1>4, <2>1, <2>3 DEF S, Smaller
  <2> QED BY <2>2, <2>3
<1> QED BY <1>5, <1>6

(* Every step keeps the types. *)
LEMMA RingTypesStep ==
  ASSUME RingTypes, [Next]_vars
  PROVE  RingTypes'
<1> DEFINE Mixer == [at : {"pass", "top up", "publish"}, target : Nat, mixed : Nat, fresh : BOOLEAN]
           Render == [at : {"idle", "pop", "popped"}, owed : Nat, active : BOOLEAN, promised : BOOLEAN]
<1>0. /\ slots \in [Indices -> Nat] /\ write \in Indices /\ read \in Indices
      /\ mixer \in Mixer /\ current \in Nat /\ offset \in 0 .. SamplesPerFrame
      /\ render \in Render /\ request \in Nat
  BY DEF RingTypes
<1> HIDE DEF Mixer, Render
<1>1. CASE MixerPass
  <2>1. PlaybackBufferFrames(request) \in Nat
    BY <1>0, BufferFrames
  <2>2. mixer' \in Mixer
    BY <1>0, <1>1, <2>1 DEF MixerPass, Mixer
  <2> QED BY <1>0, <1>1, <2>2 DEF MixerPass, RingTypes, Mixer, Render
<1>2. CASE TopUp
  <2>1. mixer' \in Mixer
    BY <1>0, <1>2 DEF TopUp, Mixer
  <2>2. mixer.mixed + 1 \in Nat
    <3>1. mixer.mixed \in Nat
      BY <1>0 DEF Mixer
    <3> QED BY <3>1
  <2>3. slots' \in [Indices -> Nat] /\ write' \in Indices
    BY <1>0, <1>2, <2>2 DEF TopUp, EmplaceStep
  <2> QED BY <1>0, <1>2, <2>1, <2>3 DEF TopUp, RingTypes, Mixer, Render
<1>3. CASE Publish
  <2>1. mixer.mixed + 1 \in Nat
    <3>1. mixer.mixed \in Nat
      BY <1>0 DEF Mixer
    <3> QED BY <3>1
  <2>2. mixer' \in Mixer
    BY <1>0, <1>3, <2>1 DEF Publish, Mixer
  <2>3. slots' \in [Indices -> Nat] /\ write' \in Indices
    <3>1. slots' = slots /\ write' = After(write)
      BY <1>3 DEF Publish, EmplaceStep
    <3> QED BY <1>0, <3>1, Following
  <2> QED BY <1>0, <1>3, <2>2, <2>3 DEF Publish, RingTypes, Mixer, Render
<1>4. CASE ToppedUp
  <2>1. mixer' \in Mixer
    BY <1>0, <1>4 DEF ToppedUp, Mixer
  <2> QED BY <1>0, <1>4, <2>1 DEF ToppedUp, RingTypes, Mixer, Render
<1>5. ASSUME NEW n \in Requests, RenderPlayback(n) PROVE RingTypes'
  <2> DEFINE count == Smaller(SamplesPerFrame - offset, n)
  <2>1. n \in Nat /\ offset \in Nat /\ offset <= SamplesPerFrame /\ SamplesPerFrame \in Nat
    BY <1>0, RingFacts
  <2>2. count \in Nat /\ count <= SamplesPerFrame - offset /\ count <= n
    BY <2>1 DEF Smaller
  <2>3. /\ render' = [at |-> IF n = count THEN "idle" ELSE "pop", owed |-> n - count,
                      active |-> last = "recent", promised |-> n <= promise.samples]
        /\ offset' = offset + count
        /\ request' = n
    BY <1>5 DEF RenderPlayback
  <2>4. mixer' \in Mixer
    BY <1>0, <1>5 DEF RenderPlayback, Mixer
  <2> HIDE DEF count
  <2>5. n - count \in Nat /\ offset' \in 0 .. SamplesPerFrame
    BY <2>1, <2>2, <2>3
  <2>6. render' \in Render
    BY <2>3, <2>5 DEF Render
  <2> QED BY <1>0, <1>5, <2>1, <2>3, <2>4, <2>5, <2>6 DEF RenderPlayback, RingTypes, Mixer, Render
<1>6. CASE Underrun
  <2>1. render' \in Render
    BY <1>0, <1>6 DEF Underrun, Render
  <2> QED BY <1>0, <1>6, <2>1 DEF Underrun, RingTypes, Mixer, Render
<1>7. CASE PopFrame
  <2>1. render' \in Render /\ current' \in Nat
    BY <1>0, <1>7 DEF PopFrame, Render
  <2> QED BY <1>0, <1>7, <2>1 DEF PopFrame, RingTypes, Mixer, Render
<1>8. CASE PopIndex
  <2> DEFINE count == Smaller(SamplesPerFrame - 0, render.owed)
  <2>1. render.owed \in Nat /\ SamplesPerFrame \in Nat
    BY <1>0, RingFacts DEF Render
  <2>2. count \in Nat /\ count <= SamplesPerFrame /\ count <= render.owed
    BY <2>1 DEF Smaller
  <2>3. /\ offset' = 0 + count
        /\ render' = [render EXCEPT !.owed = render.owed - count,
                                   !.at = IF render.owed = count THEN "idle" ELSE "pop"]
        /\ read' = After(read)
    BY <1>8 DEF PopIndex, Copy
  <2> HIDE DEF count
  <2>4. render.owed - count \in Nat /\ offset' \in 0 .. SamplesPerFrame
    BY <2>1, <2>2, <2>3
  <2>5. render' \in Render
    BY <1>0, <2>3, <2>4 DEF Render
  <2>6. read' \in Indices
    BY <1>0, <2>3, Following
  <2> QED BY <1>0, <1>8, <2>4, <2>5, <2>6 DEF PopIndex, RingTypes, Mixer, Render
<1>9. CASE DeviceGoesIdle
  BY <1>9 DEF DeviceGoesIdle, RingTypes
<1>10. CASE UNCHANGED vars
  BY <1>10 DEF vars, RingTypes
<1> QED BY <1>1, <1>2, <1>3, <1>4, <1>5, <1>6, <1>7, <1>8, <1>9, <1>10 DEF Next, MixerNext, DeviceNext

-----------------------------------------------------------------------------
(* The steps that move no frame: they keep slots, indices and the frame the  *)
(* device has, and neither begin nor end an emplace or a pop.                *)
Quiet ==
  /\ UNCHANGED <<slots, write, read, current>>
  /\ mixer'.mixed = mixer.mixed
  /\ mixer'.at = "publish" <=> mixer.at = "publish"
  /\ render'.at = "popped" <=> render.at = "popped"

(* The four steps that do. *)
Emplace ==
  /\ mixer.at = "top up" /\ After(write) # read
  /\ slots' = [slots EXCEPT ![write] = mixer.mixed + 1]
  /\ UNCHANGED <<write, read, current, render>>
  /\ mixer'.mixed = mixer.mixed /\ mixer'.at = "publish"

Advance ==
  /\ mixer.at = "publish"
  /\ write' = After(write)
  /\ UNCHANGED <<slots, read, current, render>>
  /\ mixer'.mixed = mixer.mixed + 1 /\ mixer'.at # "publish"

Take ==
  /\ render.at = "pop" /\ read # write
  /\ current' = slots[read]
  /\ UNCHANGED <<slots, write, read, mixer>>
  /\ render'.at = "popped"

Release ==
  /\ render.at = "popped"
  /\ read' = After(read)
  /\ UNCHANGED <<slots, write, mixer, current>>
  /\ render'.at # "popped"

LEMMA RingSteps ==
  ASSUME RingTypes, [Next]_vars
  PROVE  Quiet \/ Emplace \/ Advance \/ Take \/ Release
<1> DEFINE Mixer == [at : {"pass", "top up", "publish"}, target : Nat, mixed : Nat, fresh : BOOLEAN]
           Render == [at : {"idle", "pop", "popped"}, owed : Nat, active : BOOLEAN, promised : BOOLEAN]
<1>0. mixer \in Mixer /\ render \in Render
  BY DEF RingTypes
<1>1. CASE MixerPass
  BY <1>0, <1>1 DEF MixerPass, Quiet
<1>2. CASE TopUp
  <2>1. CASE After(write) = read
    BY <1>0, <1>2, <2>1 DEF TopUp, Quiet
  <2>2. CASE After(write) # read
    <3>1. mixer' = [mixer EXCEPT !.at = "publish"]
      BY <1>2, <2>2 DEF TopUp
    <3>2. mixer'.mixed = mixer.mixed /\ mixer'.at = "publish"
      BY <1>0, <3>1
    <3> QED BY <1>2, <2>2, <3>2 DEF TopUp, EmplaceStep, Emplace
  <2> QED BY <2>1, <2>2
<1>3. CASE Publish
  <2>1. mixer' = [mixer EXCEPT !.at = "top up", !.mixed = @ + 1]
    BY <1>3 DEF Publish
  <2>2. mixer'.mixed = mixer.mixed + 1 /\ mixer'.at = "top up"
    BY <1>0, <2>1
  <2> QED BY <1>3, <2>2 DEF Publish, EmplaceStep, Advance
<1>4. CASE ToppedUp
  BY <1>0, <1>4 DEF ToppedUp, Quiet
<1>5. ASSUME NEW n \in Requests, RenderPlayback(n) PROVE Quiet
  <2>1. mixer' = [mixer EXCEPT !.fresh = FALSE]
    BY <1>5 DEF RenderPlayback
  <2>2. mixer'.mixed = mixer.mixed /\ mixer'.at = mixer.at
    BY <1>0, <2>1
  <2>3. render.at = "idle" /\ render'.at \in {"idle", "pop"}
    BY <1>5 DEF RenderPlayback
  <2> QED BY <1>5, <2>2, <2>3 DEF RenderPlayback, Quiet
<1>6. CASE Underrun
  BY <1>0, <1>6 DEF Underrun, Quiet
<1>7. CASE PopFrame
  BY <1>0, <1>7 DEF PopFrame, Take
<1>8. CASE PopIndex
  <2>1. \E n : render' = [render EXCEPT !.owed = n, !.at = "idle"] \/ render' = [render EXCEPT !.owed = n, !.at = "pop"]
    BY <1>8 DEF PopIndex, Copy
  <2>2. render'.at # "popped"
    BY <1>0, <2>1
  <2> QED BY <1>8, <2>2 DEF PopIndex, Release
<1>9. CASE DeviceGoesIdle
  BY <1>9 DEF DeviceGoesIdle, Quiet
<1>10. CASE UNCHANGED vars
  BY <1>10 DEF vars, Quiet
<1> QED BY <1>1, <1>2, <1>3, <1>4, <1>5, <1>6, <1>7, <1>8, <1>9, <1>10 DEF Next, MixerNext, DeviceNext

(* The invariant of the ring is inductive. *)
LEMMA RingInvStep ==
  ASSUME RingInv, [Next]_vars
  PROVE  RingInv'
<1> DEFINE m == mixer.mixed
           n == Size
<1>1. RingTypes /\ RingTypes'
  BY RingTypesStep DEF RingInv
<1>2. /\ m \in Nat /\ mixer'.mixed \in Nat
      /\ write \in Indices /\ read \in Indices /\ write' \in Indices /\ read' \in Indices
      /\ slots \in [Indices -> Nat]
  BY <1>1 DEF RingTypes
<1>3. /\ n <= m
      /\ \A index \in Indices : Place(index) < n => slots[index] = m - n + 1 + Place(index)
      /\ mixer.at = "publish" => After(write) # read /\ slots[write] = m + 1
      /\ render.at = "popped" => read # write
      /\ current = m - (n - (IF render.at = "popped" THEN 1 ELSE 0))
  BY DEF RingInv, WaitingFrames
<1>2a. /\ Capacity \in Nat /\ Capacity > 2
      /\ write \in Nat /\ write < Capacity /\ read \in Nat /\ read < Capacity
      /\ \A index \in Indices : index \in Nat /\ index < Capacity
  BY <1>2, RingFacts DEF Indices
<1>2b. /\ n = IF read <= write THEN write - read ELSE write + Capacity - read
      /\ n \in Nat
  BY <1>1, RingNumbers, RingFacts
<1>2c. /\ Size' = IF read' <= write' THEN write' - read' ELSE write' + Capacity - read'
      /\ Size' \in Nat
  BY <1>1, RingNumbersNext, RingFacts
<1>4. \A index \in Indices :
           /\ Place(index) = IF read <= index THEN index - read ELSE index + Capacity - read
           /\ Place(index) \in 0 .. Capacity - 1
  BY <1>1, RingNumbers
<1>5. \A index \in Indices :
           /\ Place(index)' = IF read' <= index THEN index - read' ELSE index + Capacity - read'
           /\ Place(index)' \in 0 .. Capacity - 1
  BY <1>1, RingNumbersNext
<1>6. SUFFICES
        /\ Size' <= mixer'.mixed
        /\ \A index \in Indices :
             Place(index)' < Size' => slots'[index] = mixer'.mixed - Size' + 1 + Place(index)'
        /\ mixer'.at = "publish" => After(write') # read' /\ slots'[write'] = mixer'.mixed + 1
        /\ render'.at = "popped" => read' # write'
        /\ current' = mixer'.mixed - (Size' - (IF render'.at = "popped" THEN 1 ELSE 0))
  BY <1>1 DEF RingInv, WaitingFrames, After, Indices
<1> HIDE DEF m, n
<1>7. CASE Quiet
  <2>1. Size' = n /\ \A index \in Indices : Place(index)' = Place(index)
    BY <1>7, <1>4, <1>5, <1>2b, <1>2c DEF Quiet
  <2> QED BY <1>7, <2>1, <1>3 DEF Quiet, m
<1>8. CASE Emplace
  <2>1. Size' = n /\ \A index \in Indices : Place(index)' = Place(index)
    BY <1>8, <1>4, <1>5, <1>2b, <1>2c DEF Emplace
  <2>2. \A index \in Indices : Place(index) < n => index # write
    BY <1>2a, <1>4, <1>2b
  <2>3. \A index \in Indices : Place(index) < n => slots'[index] = slots[index]
    BY <1>8, <1>2, <1>4, <2>2 DEF Emplace
  <2>4. slots'[write] = m + 1
    BY <1>8, <1>2 DEF Emplace, m
  <2> QED BY <1>8, <2>1, <2>3, <2>4, <1>3 DEF Emplace, m
<1>9. CASE Advance
  <2>1. write' = After(write) /\ read' = read /\ After(write) # read /\ slots' = slots
        /\ mixer'.mixed = m + 1 /\ slots[write] = m + 1 /\ mixer'.at # "publish"
        /\ current' = current /\ render' = render
    BY <1>9, <1>3 DEF Advance, m
  <2>2. After(write) = IF write = Capacity - 1 THEN 0 ELSE write + 1
    BY <1>2, Following
  <2>3. Size' = n + 1
    BY <1>2a, <1>2b, <1>2c, <2>1, <2>2
  <2>4. \A index \in Indices : Place(index)' = Place(index)
    BY <1>4, <1>5, <2>1
  <2>5. \A index \in Indices : Place(index) = n => index = write
    BY <1>2a, <1>2b, <1>4
  <2>6. \A index \in Indices : Place(index)' < Size' =>
                slots'[index] = mixer'.mixed - Size' + 1 + Place(index)'
    <3> SUFFICES ASSUME NEW index \in Indices, Place(index)' < Size'
                 PROVE  slots'[index] = mixer'.mixed - Size' + 1 + Place(index)'
      OBVIOUS
    <3>1. CASE Place(index) < n
      <4>1. slots[index] = m - n + 1 + Place(index)
        BY <3>1, <1>3
      <4> QED BY <4>1, <2>1, <2>3, <2>4, <1>2, <1>2b, <1>4
    <3>2. CASE Place(index) = n
      BY <3>2, <2>1, <2>3, <2>4, <2>5, <1>2, <1>2b, <1>4
    <3> QED BY <3>1, <3>2, <2>3, <2>4, <1>4, <1>2b
  <2>7. read' # write'
    BY <2>1
  <2> QED BY <2>1, <2>3, <2>6, <2>7, <1>2, <1>3, <1>2b, <1>4
<1>10. CASE Take
  <2>1. Size' = n /\ \A index \in Indices : Place(index)' = Place(index)
    BY <1>10, <1>4, <1>5, <1>2b, <1>2c DEF Take
  <2>2. Place(read) = 0 /\ n > 0
    BY <1>10, <1>2, <1>2a, <1>2b, <1>4 DEF Take
  <2>3. current' = m - n + 1
    <3>1. slots[read] = m - n + 1 + Place(read)
      BY <1>2, <1>3, <2>2
    <3> QED BY <3>1, <1>10, <2>2, <1>2, <1>2b, <1>4 DEF Take
  <2> QED BY <1>10, <2>1, <2>2, <2>3, <1>2, <1>3, <1>2b, <1>4 DEF Take, m
<1>11. CASE Release
  <2>1. write' = write /\ read' = After(read) /\ slots' = slots /\ mixer' = mixer
        /\ current' = current /\ read # write /\ render'.at # "popped" /\ current = m - (n - 1)
    BY <1>11, <1>3 DEF Release
  <2>2. After(read) = IF read = Capacity - 1 THEN 0 ELSE read + 1
    BY <1>2, Following
  <2>3. Size' = n - 1 /\ n > 0
    BY <1>2a, <1>2b, <1>2c, <2>1, <2>2
  <2>4. \A index \in Indices : index # read => Place(index)' = Place(index) - 1
    BY <1>2a, <1>4, <1>5, <2>1, <2>2
  <2>5. \A index \in Indices : index = read => Place(index)' = Capacity - 1
    BY <1>2a, <1>5, <2>1, <2>2
  <2>6. \A index \in Indices : Place(index)' < Size' =>
                slots'[index] = mixer'.mixed - Size' + 1 + Place(index)'
    <3> SUFFICES ASSUME NEW index \in Indices, Place(index)' < Size'
                 PROVE  slots'[index] = mixer'.mixed - Size' + 1 + Place(index)'
      OBVIOUS
    <3>1. index # read
      <4>1. n < Capacity
        BY <1>2a, <1>2b
      <4> QED BY <2>3, <2>5, <4>1, <1>2a, <1>2b
    <3>2. Place(index)' = Place(index) - 1 /\ Place(index) < n
      BY <3>1, <2>3, <2>4, <1>4, <1>2b
    <3>3. slots[index] = m - n + 1 + Place(index)
      BY <3>2, <1>3
    <3> QED BY <3>2, <3>3, <2>1, <2>3, <1>2, <1>2b, <1>4 DEF m
  <2>7. mixer'.at = "publish" => After(write') # read' /\ slots'[write'] = mixer'.mixed + 1
    <3> SUFFICES ASSUME mixer'.at = "publish"
                 PROVE  After(write') # read' /\ slots'[write'] = mixer'.mixed + 1
      OBVIOUS
    <3>1. slots[write] = m + 1
      BY <2>1, <1>3
    <3>2. After(write) = IF write = Capacity - 1 THEN 0 ELSE write + 1
      BY <1>2, Following
    <3>3. After(write) # After(read)
      BY <2>1, <2>2, <3>2, <1>2, RingFacts DEF Indices
    <3> QED BY <2>1, <3>1, <3>3 DEF m
  <2> QED BY <2>1, <2>3, <2>6, <2>7, <1>2, <1>3, <1>2b, <1>4 DEF m
<1> QED BY <1>1, <1>7, <1>8, <1>9, <1>10, <1>11, RingSteps

LEMMA RingInvHolds == Spec => []RingInv
<1>1. Init => RingInv
  <2> SUFFICES ASSUME Init PROVE RingInv
    OBVIOUS
  <2>1. RingTypes
    BY RingFacts DEF Init, RingTypes, Indices
  <2>2. Size = 0
    BY <2>1, RingNumbers DEF Init
  <2>3. ASSUME NEW index \in Indices PROVE ~(Place(index) < 0)
    <3>1. Place(index) \in 0 .. Capacity - 1
      BY <2>1, RingNumbers
    <3> QED BY <3>1, RingFacts
  <2>4. mixer.mixed = 0 /\ current = 0 /\ mixer.at = "pass" /\ render.at = "idle"
    BY DEF Init
  <2>5. WaitingFrames = 0
    BY <2>2, <2>4 DEF WaitingFrames
  <2> QED BY <2>1, <2>2, <2>3, <2>4, <2>5 DEF RingInv
<1>2. RingInv /\ [Next]_vars => RingInv'
  BY RingInvStep
<1> QED BY <1>1, <1>2, PTL DEF Spec

-----------------------------------------------------------------------------
(* The count frames up to the last one, as a queue. *)
Run(count, total) == [i \in 1 .. count |-> total - count + i]

LEMMA RunIsQueue ==
  ASSUME NEW count \in Nat, NEW total \in Nat, count <= total
  PROVE  /\ Run(count, total) \in Seq(Nat) /\ Len(Run(count, total)) = count
         /\ Run(count + 1, total + 1) = Append(Run(count, total), total + 1)
         /\ count > 0 => /\ Run(count, total) # <<>>
                         /\ Head(Run(count, total)) = total - count + 1
                         /\ Tail(Run(count, total)) = Run(count - 1, total)
<1>1. Run(count, total) \in Seq(Nat) /\ Len(Run(count, total)) = count
  <2>1. \A i \in 1 .. count : total - count + i \in Nat
    OBVIOUS
  <2> QED BY <2>1 DEF Run
<1>2. Run(count + 1, total + 1) = Append(Run(count, total), total + 1)
  BY <1>1 DEF Run
<1>3. ASSUME count > 0
      PROVE  /\ Run(count, total) # <<>>
             /\ Head(Run(count, total)) = total - count + 1
             /\ Tail(Run(count, total)) = Run(count - 1, total)
  <2> DEFINE q == Run(count, total)
  <2>1. q # <<>>
    BY <1>1, <1>3
  <2>2. Head(q) = total - count + 1
    BY <1>1, <1>3 DEF Run
  <2>3. q \in Seq(Nat) /\ Len(q) = count /\ \A i \in 1 .. count : q[i] = total - count + i
    BY <1>1 DEF Run
  <2> DEFINE r == Run(count - 1, total)
  <2>4. r \in Seq(Nat) /\ Len(r) = count - 1 /\ \A i \in 1 .. count - 1 : r[i] = total - (count - 1) + i
    <3>1. \A i \in 1 .. count - 1 : total - (count - 1) + i \in Nat
      OBVIOUS
    <3> QED BY <3>1, <1>3 DEF Run
  <2> HIDE DEF q, r
  <2>5. /\ Tail(q) \in Seq(Nat) /\ Len(Tail(q)) = count - 1
        /\ \A i \in 1 .. count - 1 : Tail(q)[i] = q[i + 1]
    BY <2>1, <2>3, HeadTailProperties
  <2>6. \A i \in 1 .. count - 1 : q[i + 1] = r[i]
    BY <2>3, <2>4
  <2>7. Tail(q) = r
    BY <2>4, <2>5, <2>6, SeqEqual
  <2> QED BY <2>1, <2>2, <2>7 DEF q, r
<1> QED BY <1>1, <1>2, <1>3

(* The refinement mapping, computed: what waits is the run of frames that    *)
(* ends with the last one mixed, and the device has the one before it.       *)
Mapped ==
  /\ Waiting = Run(WaitingFrames, mixer.mixed)
  /\ current = mixer.mixed - WaitingFrames
  /\ mixer.mixed \in Nat
  /\ WaitingFrames \in Nat /\ WaitingFrames <= mixer.mixed
  /\ WaitingFrames <= Size /\ Size <= Capacity - 1
  /\ render.at # "popped" => WaitingFrames = Size
  /\ render.at = "popped" => WaitingFrames = Size - 1

LEMMA WaitingIsRun == RingInv => Mapped
<1> SUFFICES ASSUME RingInv PROVE Mapped
  OBVIOUS
<1> DEFINE m == mixer.mixed
           n == Size
           p == IF render.at = "popped" THEN 1 ELSE 0
<1>1. RingTypes
  BY DEF RingInv
<1>2. /\ m \in Nat
      /\ write \in Nat /\ write < Capacity /\ read \in Nat /\ read < Capacity
      /\ read \in Indices /\ Capacity \in Nat /\ Capacity > 2
  <2>1. m \in Nat /\ write \in Indices /\ read \in Indices
    BY <1>1 DEF RingTypes
  <2> QED BY <2>1, RingFacts DEF Indices
<1>3. /\ n = IF read <= write THEN write - read ELSE write + Capacity - read
      /\ n \in 0 .. Capacity - 1
  BY <1>1, RingNumbers
<1>4. /\ n <= m /\ current = m - WaitingFrames /\ (render.at = "popped" => read # write)
      /\ \A index \in Indices : Place(index) < n => slots[index] = m - n + 1 + Place(index)
  BY DEF RingInv
<1>5. WaitingFrames = n - p /\ p \in {0, 1} /\ (p = 1 <=> render.at = "popped")
      /\ (p = 0 <=> render.at # "popped")
  BY DEF WaitingFrames
<1>6. Waiting = [i \in 1 .. n - p |-> slots[(read + i - (1 - p)) % Capacity]]
  BY DEF Waiting
<1> HIDE DEF m, n, p
<1>7. n - p \in Nat /\ n - p <= m
  <2>1. p = 1 => n > 0
    BY <1>2, <1>3, <1>4, <1>5
  <2> QED BY <2>1, <1>2, <1>3, <1>4, <1>5
<1>8. ASSUME NEW i \in 1 .. n - p
      PROVE  slots[(read + i - (1 - p)) % Capacity] = m - (n - p) + i
  <2> DEFINE sum == read + i - (1 - p)
             index == sum % Capacity
             k == sum - read
  <2>1. sum \in 0 .. 2 * Capacity - 1 /\ k \in Nat /\ sum = read + k /\ k < n /\ n < Capacity
        /\ k + 1 = i + p /\ n \in Nat
    BY <1>2, <1>3, <1>5, <1>7
  <2> HIDE DEF sum, k
  <2>2. index = IF sum < Capacity THEN sum ELSE sum - Capacity
    BY <2>1, ModSmall
  <2> HIDE DEF index
  <2>3. index \in Indices
    BY <2>1, <2>2, <1>2 DEF Indices
  <2>4. Place(index) = IF read <= index THEN index - read ELSE index + Capacity - read
    BY <2>3, <1>1, RingNumbers
  <2>5. Place(index) = k
    BY <2>1, <2>2, <2>4, <1>2
  <2>6. slots[index] = m - n + 1 + k
    BY <2>1, <2>3, <2>5, <1>4
  <2>7. slots[index] = m - (n - p) + i
    BY <2>1, <2>6, <1>2, <1>5
  <2> QED BY <2>7 DEF index, sum
<1>9. Waiting = Run(n - p, m)
  BY <1>6, <1>8 DEF Run
<1>10. n <= Capacity - 1 /\ n - p <= n /\ (p = 0 => n - p = n) /\ (p = 1 => n - p = n - 1)
  BY <1>2, <1>3, <1>5
<1> QED BY <1>2, <1>4, <1>5, <1>7, <1>9, <1>10 DEF m, n, Mapped

(* Every step of the ring is a step of the queue or changes nothing of it:   *)
(* a push happens where the index is stored, a pop where the slot is copied. *)
LEMMA RingStepRefines ==
  RingInv /\ RingInv' /\ [Next]_vars => [Queue!Next]_<<Waiting, mixer.mixed, current>>
<1> SUFFICES ASSUME RingInv, RingInv', [Next]_vars
             PROVE  [Queue!Next]_<<Waiting, mixer.mixed, current>>
  OBVIOUS
<1> DEFINE w == WaitingFrames
           m == mixer.mixed
           S == Size
<1>1. /\ Waiting = Run(w, m) /\ current = m - w
      /\ m \in Nat /\ w \in Nat /\ w <= m /\ w <= S /\ S <= Capacity - 1
      /\ render.at # "popped" => w = S
      /\ render.at = "popped" => w = S - 1
  BY WaitingIsRun DEF Mapped
<1>2. /\ Waiting' = Run(w', m') /\ current' = m' - w'
      /\ m' \in Nat /\ w' \in Nat /\ w' <= m' /\ w' <= S' /\ S' <= Capacity - 1
      /\ render'.at # "popped" => w' = S'
      /\ render'.at = "popped" => w' = S' - 1
  <2>1. RingInv' => Mapped'
    BY WaitingIsRun, PTL
  <2> QED BY <2>1 DEF Mapped, Run
<1>3. RingTypes /\ RingTypes' /\ (mixer.at = "publish" => After(write) # read)
      /\ (render.at = "popped" => read # write)
  BY DEF RingInv
<1>4. /\ Capacity \in Nat /\ Capacity > 2
      /\ write \in Nat /\ write < Capacity /\ read \in Nat /\ read < Capacity
      /\ write \in Indices /\ read \in Indices
  <2>1. write \in Indices /\ read \in Indices
    BY <1>3 DEF RingTypes
  <2> QED BY <2>1, RingFacts DEF Indices
<1>5. /\ S = IF read <= write THEN write - read ELSE write + Capacity - read
      /\ S \in 0 .. Capacity - 1
  BY <1>3, RingNumbers
<1>6. /\ S' = IF read' <= write' THEN write' - read' ELSE write' + Capacity - read'
      /\ S' \in 0 .. Capacity - 1
  BY <1>3, RingNumbersNext
<1>6a. /\ current = m - w /\ m \in Nat /\ w \in Nat
       /\ current' = m' - w' /\ m' \in Nat /\ w' \in Nat
  BY <1>1, <1>2
<1> HIDE DEF w, m, S
<1>7. CASE Quiet \/ Emplace \/ Release
  <2>1. m' = m /\ current' = current
    BY <1>7 DEF Quiet, Emplace, Release, m
  <2>2. w' = w
    BY <2>1, <1>6a DEF w, m
  <2> QED BY <2>1, <2>2, <1>1, <1>2 DEF m
<1>8. CASE Advance
  <2>1. m' = m + 1 /\ current' = current /\ read' = read /\ write' = After(write) /\ After(write) # read
    BY <1>8, <1>3 DEF Advance, m
  <2>2. w' = w + 1
    BY <2>1, <1>6a DEF w, m
  <2>3. w < Capacity - 1
    BY <2>2, <1>1, <1>2, <1>4, <1>5, <1>6
  <2>4. Waiting' = Append(Waiting, m') /\ Len(Waiting) = w
    BY <2>1, <2>2, <1>1, <1>2, RunIsQueue
  <2>5. Queue!Push
    BY <2>1, <2>3, <2>4 DEF Queue!Push, m
  <2> QED BY <2>5 DEF Queue!Next
<1>9. CASE Take
  <2>1. m' = m /\ render.at = "pop" /\ render'.at = "popped" /\ read' = read /\ write' = write
    BY <1>9 DEF Take, m
  <2>2. w = S /\ w' = S' - 1 /\ S' = S
    BY <2>1, <1>1, <1>2, <1>5, <1>6
  <2>3. w > 0 /\ w' = w - 1
    BY <2>2, <1>1, <1>2
  <2>4. Waiting # <<>> /\ Head(Waiting) = m - w + 1 /\ Tail(Waiting) = Run(w - 1, m)
    BY <2>3, <1>1, RunIsQueue
  <2>5. current' = m - w + 1
    BY <2>1, <2>3, <1>1, <1>2
  <2>6. Queue!Pop
    BY <2>1, <2>3, <2>4, <2>5, <1>2 DEF Queue!Pop, m
  <2> QED BY <2>6 DEF Queue!Next
<1> QED BY <1>3, <1>7, <1>8, <1>9, RingSteps

(* SpscRing as RenderPlayback and the audio worker use it is a bounded queue *)
(* for every capacity: every frame mixed reaches the device once, whole and  *)
(* in order, and never more than Capacity - 1 of them wait, whatever the     *)
(* interleaving of the loads and stores of the two threads.                  *)
THEOREM RingImplementsQueue == Spec => RingIsQueue
<1>1. Init => Queue!Init
  <2> SUFFICES ASSUME Init PROVE Queue!Init
    OBVIOUS
  <2>1. write \in Indices /\ read \in Indices /\ write = 0 /\ read = 0
    BY RingFacts DEF Init, Indices
  <2>2. Size = 0
    BY <2>1, Distance DEF Size
  <2>3. render.at = "idle" /\ mixer.mixed = 0 /\ current = 0
    BY DEF Init
  <2>4. Waiting = <<>>
    BY <2>2, <2>3 DEF Waiting
  <2> QED BY <2>3, <2>4 DEF Queue!Init
<1>2. RingInv /\ RingInv' /\ [Next]_vars => [Queue!Next]_<<Waiting, mixer.mixed, current>>
  BY RingStepRefines
<1>3. Spec => []RingInv
  BY RingInvHolds
<1> QED BY <1>1, <1>2, <1>3, PTL DEF Spec, RingIsQueue, Queue!Spec

-----------------------------------------------------------------------------
(* While the device is idle nothing leaves the ring, and a pop takes one     *)
(* frame from it.                                                            *)
LEMMA SizeSteps ==
  ASSUME RingInv, [Next]_vars
  PROVE  /\ Size \in Nat /\ Size' \in Nat
         /\ ~PopIndex => Size' >= Size
         /\ PopIndex => Size' = Size - 1 /\ Size > 0
<1>1. RingTypes /\ RingTypes'
  BY RingTypesStep DEF RingInv
<1>2. /\ Capacity \in Nat /\ Capacity > 2
      /\ write \in Nat /\ write < Capacity /\ read \in Nat /\ read < Capacity
      /\ write \in Indices /\ read \in Indices
  <2>1. write \in Indices /\ read \in Indices
    BY <1>1 DEF RingTypes
  <2> QED BY <2>1, RingFacts DEF Indices
<1>3. Size = IF read <= write THEN write - read ELSE write + Capacity - read
  BY <1>1, RingNumbers
<1>4. Size' = IF read' <= write' THEN write' - read' ELSE write' + Capacity - read'
  BY <1>1, RingNumbersNext
<1>5. Size \in Nat /\ Size' \in Nat
  BY <1>1, RingNumbers, RingNumbersNext, RingFacts
<1>6. /\ After(write) = IF write = Capacity - 1 THEN 0 ELSE write + 1
      /\ After(read) = IF read = Capacity - 1 THEN 0 ELSE read + 1
  BY <1>2, Following
<1>7. /\ render.at = "popped" => read # write
      /\ mixer.at = "publish" => After(write) # read
  BY DEF RingInv
<1>8. CASE Release
  <2>1. write' = write /\ read' = After(read) /\ read # write /\ render.at = "popped"
    BY <1>7, <1>8 DEF Release
  <2>2. Size' = Size - 1 /\ Size > 0
    BY <1>2, <1>3, <1>4, <1>6, <2>1
  <2>3. PopIndex
    <3>1. ASSUME NEW n \in Requests, RenderPlayback(n) PROVE FALSE
      BY <3>1, <2>1 DEF RenderPlayback
    <3>2. read' # read
      BY <1>2, <1>6, <2>1
    <3> QED BY <3>1, <3>2, <2>1 DEF Next, MixerNext, DeviceNext, MixerPass, TopUp, Publish, ToppedUp,
              Underrun, PopFrame, DeviceGoesIdle, vars
  <2> QED BY <1>5, <2>2, <2>3
<1>9. CASE Quiet \/ Emplace \/ Take
  <2>1. write' = write /\ read' = read
    BY <1>9 DEF Quiet, Emplace, Take
  <2>2. Size' = Size
    BY <1>3, <1>4, <2>1
  <2>3. ~PopIndex
    BY <1>2, <1>6, <2>1 DEF PopIndex
  <2> QED BY <1>5, <2>2, <2>3
<1>10. CASE Advance
  <2>1. read' = read /\ write' = After(write) /\ After(write) # read
    BY <1>7, <1>10 DEF Advance
  <2>2. Size' = Size + 1
    BY <1>2, <1>3, <1>4, <1>6, <2>1
  <2>3. ~PopIndex
    BY <1>2, <1>6, <2>1 DEF PopIndex
  <2> QED BY <1>5, <2>2, <2>3
<1> QED BY <1>1, <1>8, <1>9, <1>10, RingSteps

(* Samples in a number of frames. *)
LEMMA SamplesOf ==
  ASSUME NEW a \in Nat, NEW b \in Nat
  PROVE  /\ a * SamplesPerFrame \in Nat
         /\ a <= b => a * SamplesPerFrame <= b * SamplesPerFrame
         /\ (a + 1) * SamplesPerFrame = a * SamplesPerFrame + SamplesPerFrame
<1>1. SamplesPerFrame \in Nat
  BY RingFacts
<1>2. ASSUME a <= b PROVE a * SamplesPerFrame <= b * SamplesPerFrame
  <2>1. (b - a) * SamplesPerFrame >= 0
    BY <1>1, <1>2
  <2> QED BY <1>1, <2>1
<1> QED BY <1>1, <1>2

LEMMA PromiseInvStep ==
  ASSUME RingInv, PromiseInv, [Next]_vars
  PROVE  PromiseInv'
<1> DEFINE S == SamplesPerFrame
           Promise == [samples : Nat, kept : BOOLEAN]
           room == Size * S
<1>1. /\ promise \in Promise
      /\ mixer.at # "pass" /\ mixer.fresh => mixer.target = PlaybackBufferFrames(request)
      /\ promise.samples <= room
      /\ render.at # "idle" => promise.samples = 0 /\ render.owed > 0
      /\ render.at # "idle" /\ render.promised => render.owed <= room
      /\ promise.kept
  BY DEF PromiseInv
<1>0. /\ RingTypes
      /\ mixer \in [at : {"pass", "top up", "publish"}, target : Nat, mixed : Nat, fresh : BOOLEAN]
      /\ render \in [at : {"idle", "pop", "popped"}, owed : Nat, active : BOOLEAN, promised : BOOLEAN]
  BY DEF RingInv, RingTypes
<1>2. /\ request \in Nat /\ render.owed \in Nat /\ offset \in 0 .. S
      /\ promise.samples \in Nat /\ Size \in Nat /\ Size' \in Nat /\ S \in Nat /\ S > 0
  <2>1. render.owed \in Nat /\ request \in Nat /\ offset \in 0 .. S
    BY <1>0 DEF RingTypes
  <2>2. promise.samples \in Nat
    BY <1>1
  <2> QED BY <2>1, <2>2, SizeSteps, RingFacts
<1> DEFINE next == Size' * S
<1>3. room \in Nat /\ next \in Nat /\ (~PopIndex => room <= next)
  BY <1>2, SizeSteps, SamplesOf
<1> DEFINE Goal ==
      /\ promise' \in Promise
      /\ mixer'.at # "pass" /\ mixer'.fresh => mixer'.target = PlaybackBufferFrames(request')
      /\ promise'.samples <= next
      /\ render'.at # "idle" => promise'.samples = 0 /\ render'.owed > 0
      /\ render'.at # "idle" /\ render'.promised => render'.owed <= next
      /\ promise'.kept
<1>4. SUFFICES Goal
  BY DEF PromiseInv, PlaybackBufferFrames
<1> HIDE DEF room, next, S, Promise
(* A step of the worker, or of a device that has just gone idle. *)
<1>5. ASSUME UNCHANGED <<promise, render, request>>, ~PopIndex,
             mixer'.at # "pass" /\ mixer'.fresh => mixer'.target = PlaybackBufferFrames(request')
      PROVE  /\ promise' \in Promise
             /\ promise'.samples <= next
             /\ render'.at # "idle" => promise'.samples = 0 /\ render'.owed > 0
             /\ render'.at # "idle" /\ render'.promised => render'.owed <= next
             /\ promise'.kept
  <2>1. promise.samples <= next
    BY <1>1, <1>2, <1>3, <1>5
  <2>2. render.at # "idle" /\ render.promised => render.owed <= next
    BY <1>1, <1>2, <1>3, <1>5
  <2> QED BY <2>1, <2>2, <1>1, <1>5
<1>6. CASE MixerPass
  <2>1. mixer'.target = PlaybackBufferFrames(request')
    BY <1>0, <1>6 DEF MixerPass
  <2>2. UNCHANGED <<promise, render, request>>
    BY <1>6 DEF MixerPass
  <2>3. ~PopIndex
    BY <1>6, <1>0 DEF PopIndex, MixerPass
  <2> QED BY <2>1, <2>2, <2>3, <1>5
<1>7. CASE TopUp \/ Publish
  <2>1. UNCHANGED <<promise, render, request>>
    BY <1>7 DEF TopUp, Publish
  <2>2. mixer'.fresh = mixer.fresh /\ mixer'.target = mixer.target /\ mixer.at # "pass"
    BY <1>0, <1>7 DEF TopUp, Publish
  <2>3. ~PopIndex
    <3>1. SUFFICES ASSUME PopIndex PROVE FALSE
      OBVIOUS
    <3>2. render'.at # "popped" /\ render.at = "popped"
      BY <3>1, <1>0 DEF PopIndex, Copy
    <3> QED BY <3>2, <2>1
  <2>4. request' = request
    BY <2>1
  <2> QED BY <2>1, <2>2, <2>3, <2>4, <1>1, <1>5
<1>8. CASE ToppedUp
  <2>1. UNCHANGED <<render, request, write, read>> /\ mixer'.at = "pass"
    BY <1>0, <1>8 DEF ToppedUp
  <2>2. Size' = Size
    BY <2>1 DEF Size
  <2>3. next = room
    BY <2>2 DEF next, room
  <2>4. CASE ~(mixer.fresh /\ render.at = "idle")
    <3>1. promise' = promise
      BY <1>8, <2>4 DEF ToppedUp
    <3> QED BY <3>1, <2>1, <2>3, <1>1
  <2>5. CASE mixer.fresh /\ render.at = "idle"
    <3> DEFINE granted == Smaller(request + S, (Capacity - 1) * S)
               frames == PlaybackBufferFrames(request)
    <3>1. promise' = [promise EXCEPT !.samples = granted] /\ mixer.target = frames /\ Size >= frames
      BY <1>1, <1>8, <2>5 DEF ToppedUp, S
    <3>2. frames \in Nat /\ granted <= frames * S
      BY <1>2, BufferFrames DEF S
    <3>3. granted \in Nat
      BY <1>2, RingFacts DEF Smaller
    <3>4. frames * S <= room /\ frames * S \in Nat
      BY <1>2, <3>1, <3>2, SamplesOf DEF room, S
    <3> HIDE DEF granted, frames
    <3>5. granted <= next
      BY <3>2, <3>3, <3>4, <2>3, <1>3
    <3>6. promise'.samples = granted /\ promise'.kept = promise.kept /\ promise' \in Promise
      BY <3>1, <3>3, <1>1 DEF Promise
    <3> QED BY <3>5, <3>6, <2>1, <2>5, <1>1
  <2> QED BY <2>4, <2>5
<1>9. ASSUME NEW n \in Requests, RenderPlayback(n)
      PROVE  Goal
  <2>1. ~PopIndex
    BY <1>9 DEF RenderPlayback, PopIndex
  <2> DEFINE count == Smaller(S - offset, n)
  <2>2. n \in Nat /\ count \in Nat /\ count <= n
    BY <1>2, RingFacts DEF Smaller
  <2>3. render' = [at |-> IF n = count THEN "idle" ELSE "pop", owed |-> n - count,
                   active |-> last = "recent", promised |-> n <= promise.samples]
    BY <1>9 DEF RenderPlayback, S
  <2>4. promise' = [promise EXCEPT !.samples = 0]
    BY <1>9 DEF RenderPlayback
  <2>5. mixer'.fresh = FALSE
    BY <1>0, <1>9 DEF RenderPlayback
  <2> HIDE DEF count
  <2>6. promise'.samples = 0 /\ promise'.kept = promise.kept /\ promise' \in Promise
    BY <2>4, <1>1 DEF Promise
  <2>7. render'.at # "idle" => render'.owed > 0
    BY <2>2, <2>3
  <2>8. render'.promised => render'.owed <= next
    <3>1. render'.promised => n <= promise.samples
      BY <2>3
    <3>2. render'.owed = n - count
      BY <2>3
    <3> QED BY <3>1, <3>2, <2>1, <2>2, <1>1, <1>2, <1>3
  <2> QED BY <2>5, <2>6, <2>7, <2>8, <1>1, <1>3
<1>10. CASE Underrun
  <2>1. render.at = "pop" /\ read = write /\ UNCHANGED <<write, read, mixer, request>>
    BY <1>10 DEF Underrun
  <2>2. Size = 0
    <3>1. read \in Indices
      BY <1>0 DEF RingTypes
    <3> QED BY <2>1, <3>1, Distance, RingFacts DEF Size, Indices
  <2>3. room = 0
    BY <2>2, <1>2 DEF room
  <2>4. ~render.promised
    BY <2>1, <2>3, <1>1, <1>2
  <2>5. render'.at = "idle"
    BY <1>0, <1>10 DEF Underrun
  <2>6. promise' = [promise EXCEPT !.kept = @ /\ ~(render.active /\ render.promised)]
    BY <1>10 DEF Underrun
  <2>7. promise'.samples = promise.samples /\ promise'.kept /\ promise' \in Promise
    BY <2>4, <2>6, <1>1 DEF Promise
  <2>8. promise'.samples <= next
    BY <2>1, <2>7, <1>1, <1>2, <1>3
  <2> QED BY <2>1, <2>5, <2>7, <2>8, <1>1
<1>11. CASE PopFrame
  <2>1. UNCHANGED <<write, read, mixer, request, promise>>
    BY <1>11 DEF PopFrame
  <2>2. Size' = Size
    BY <2>1 DEF Size
  <2>3. next = room
    BY <2>2 DEF next, room
  <2>4. render.at = "pop" /\ render'.owed = render.owed /\ render'.promised = render.promised
    BY <1>0, <1>11 DEF PopFrame
  <2> QED BY <2>1, <2>3, <2>4, <1>1
<1>12. CASE PopIndex
  <2>1. UNCHANGED <<mixer, request, promise>> /\ render.at = "popped"
    BY <1>12 DEF PopIndex
  <2>2. Size = Size' + 1
    <3>1. Size' = Size - 1
      BY <1>12, SizeSteps
    <3> QED BY <3>1, <1>2
  <2>3. room = next + S
    BY <2>2, <1>2, SamplesOf DEF room, next, S
  <2> DEFINE count == Smaller(S - 0, render.owed)
  <2>4. render' = [render EXCEPT !.owed = render.owed - count,
                                 !.at = IF render.owed = count THEN "idle" ELSE "pop"]
    BY <1>12 DEF PopIndex, Copy, S
  <2>5. count \in Nat /\ count <= render.owed /\ (render.owed # count => count = S)
    BY <1>2 DEF Smaller
  <2> HIDE DEF count
  <2>6. /\ render'.owed = render.owed - count /\ render'.promised = render.promised
        /\ render'.at = IF render.owed = count THEN "idle" ELSE "pop"
    BY <2>4, <1>0
  <2>7. render'.at # "idle" => render'.owed > 0
    BY <2>5, <2>6, <1>2
  <2>8. render'.at # "idle" /\ render'.promised => render'.owed <= next
    BY <2>1, <2>3, <2>5, <2>6, <1>1, <1>2, <1>3
  <2>9. promise.samples = 0 /\ promise.samples <= next
    BY <2>1, <1>1, <1>3
  <2> QED BY <2>1, <2>7, <2>8, <2>9, <1>1
<1>13. CASE DeviceGoesIdle \/ UNCHANGED vars
  <2>1. UNCHANGED <<promise, render, request, mixer>>
    BY <1>13 DEF DeviceGoesIdle, vars
  <2>2. ~PopIndex
    <3>1. SUFFICES ASSUME PopIndex PROVE FALSE
      OBVIOUS
    <3>2. render'.at # "popped" /\ render.at = "popped"
      BY <3>1, <1>0 DEF PopIndex, Copy
    <3> QED BY <3>2, <2>1
  <2> QED BY <2>1, <2>2, <1>1, <1>5
<1> HIDE DEF Goal
<1> QED BY <1>6, <1>7, <1>8, <1>9, <1>10, <1>11, <1>12, <1>13 DEF Next, MixerNext, DeviceNext

(* A request of the device that is at most a frame larger than the last one  *)
(* is answered in full once the worker has topped the queue up: the frame of *)
(* slack of PlaybackBufferFrames suffices for every frame length, capacity   *)
(* and sequence of requests.                                                 *)
THEOREM PromiseIsKept == Spec => []PromiseKept
<1>1. Init => PromiseInv
  <2> SUFFICES ASSUME Init PROVE PromiseInv
    OBVIOUS
  <2>1. write \in Indices /\ read \in Indices /\ write = 0 /\ read = 0
    BY RingFacts DEF Init, Indices
  <2>2. Size = 0
    BY <2>1, Distance DEF Size
  <2>3. Size * SamplesPerFrame = 0
    BY <2>2, RingFacts
  <2>4. mixer.at = "pass" /\ render.at = "idle" /\ promise.samples = 0 /\ promise.kept
        /\ promise \in [samples : Nat, kept : BOOLEAN]
    BY DEF Init
  <2> QED BY <2>3, <2>4 DEF PromiseInv
<1>2. RingInv /\ PromiseInv /\ [Next]_vars => PromiseInv'
  BY PromiseInvStep
<1>3. Spec => []RingInv
  BY RingInvHolds
<1>4. PromiseInv => PromiseKept
  BY DEF PromiseInv, PromiseKept
<1> QED BY <1>1, <1>2, <1>3, <1>4, PTL DEF Spec

-----------------------------------------------------------------------------
Rebuilding == call.at \in {"destroy", "reset", "connect"}
Changing(k) == Rebuilding /\ call.kind = k /\ call.why \in {"applied", "selected"}
Choices == {"none", "default"} \cup Inputs \cup Outputs
Saved(k) == <<k, saved.config[k]>>
Settled(k) == todo = <<>> \/ (k = "input" /\ todo = <<Saved("output")>>)

Places == {"start", "destroy", "reset", "connect", "idle", "persist", "join", "stop", "stopping",
           "done"}
Whys == {"start", "applied", "selected", "restored"}
CallRecord ==
  [at : Places, step : 0 .. 5, kind : Kinds, why : Whys, previous : Choices,
   refused : SUBSET Kinds]
SavedRecord == [config : [Kinds -> Choices], file : [Kinds -> Choices], failed : BOOLEAN]
EngineRecord == [backend : BOOLEAN, available : BOOLEAN, selected : [Kinds -> Choices]]

EngineTypes ==
  /\ platform \in {"pipewire", "wasapi"}
  /\ selector \in [Kinds -> Choices] /\ stream \in [Kinds -> Choices]
  /\ clock \in [Kinds -> Choices] /\ saved \in SavedRecord
  /\ engine \in EngineRecord /\ call \in CallRecord

\* What Start has created up to now, and what that means for Stop.
Created == { StartSteps[i] : i \in 1 .. call.step }
HeldInv ==
  /\ call.at = "start" => held = Created /\ ~engine.backend
  /\ Rebuilding \/ (engine.backend /\ call.at # "stopping") => HasStarted
  /\ ~HasStarted /\ call.at # "stopping" => held = {} \/ (held = {"events"} /\ call.step = 1)
  /\ Rebuilding => (call.why = "start" <=> ~engine.backend)
  /\ \A k \in Kinds : stream[k] # "none" \/ clock[k] # "none" =>
       /\ platform = "pipewire" => "loop" \in held /\ call.at # "stopping"
       /\ platform = "wasapi" => OwnerOf(k) \in held

\* The selectors, the streams and their clocks, also while one is rebuilt.
StreamInv ==
  \A k \in Kinds :
    /\ clock[k] \in {"none", stream[k]} \/ (call.at = "reset" /\ call.kind = k)
    /\ stream[k] \in {"none", selector[k]} \/ (call.at = "destroy" /\ call.kind = k)
    /\ call.at \in {"reset", "connect"} /\ call.kind = k => stream[k] = "none"
    /\ engine.selected[k] = IF Changing(k) THEN call.previous ELSE selector[k]

\* What is in the Config, once the saved devices were applied and but for a
\* change that is still to be persisted, and in the file.
SavedInv ==
  /\ \/ todo = <<>>
     \/ todo = <<Saved("output")>>
     \/ todo = <<Saved("input"), Saved("output")>>
  /\ (Rebuilding /\ call.why = "selected") \/ call.at = "persist" => todo = <<>>
  /\ saved.file = saved.config \/ saved.failed
  /\ \A k \in Kinds : Settled(k) /\ k \notin call.refused /\ call.at # "persist" =>
       saved.config[k] = IF Changing(k) /\ call.why = "selected" THEN call.previous ELSE selector[k]

DevicesInv == EngineTypes /\ HeldInv /\ StreamInv /\ SavedInv /\ NothingLeftOpen

-----------------------------------------------------------------------------
\* The calling thread goes on elsewhere.
LEMMA GoFields ==
  ASSUME call \in CallRecord, NEW at \in Places, Go(at)
  PROVE  /\ call' \in CallRecord /\ call'.at = at
         /\ call'.step = call.step /\ call'.kind = call.kind /\ call'.why = call.why
         /\ call'.previous = call.previous /\ call'.refused = call.refused
BY DEF Go, CallRecord

\* A change is persisted, or another one is.
Saving == Persist \/ OtherSettingChanges \/ OtherUpdate

LEMMA UpdateFields ==
  ASSUME NEW config \in [Kinds -> Choices], saved \in SavedRecord, Update(config)
  PROVE  /\ saved' \in SavedRecord /\ saved'.config = config
         /\ saved'.file = saved'.config \/ saved'.failed
<1>1. CASE saved' = [config |-> config, file |-> config, failed |-> FALSE]
  BY <1>1 DEF SavedRecord
<1>2. CASE saved' = [config |-> config, file |-> saved.file, failed |-> TRUE]
  BY <1>2 DEF SavedRecord
<1> QED BY <1>1, <1>2 DEF Update

LEMMA SavingFields ==
  ASSUME EngineTypes, Saving
  PROVE  /\ UNCHANGED <<platform, held, selector, stream, clock, engine, todo>>
         /\ saved' \in SavedRecord
         /\ saved' = saved \/ saved'.file = saved'.config \/ saved'.failed
         /\ call' \in CallRecord /\ call'.step = call.step /\ call'.kind = call.kind
         /\ call'.why = call.why /\ call'.previous = call.previous
         /\ \/ /\ call.at = "persist" /\ call'.at = "idle"
               /\ saved'.config = engine.selected
            \/ /\ call.at = "idle" /\ call'.at = "persist" /\ todo = <<>> /\ saved' = saved
            \/ /\ call.at = "idle" /\ call' = call /\ todo = <<>>
               /\ saved'.config = saved.config
<1> USE DEF EngineTypes
<1>1. CASE Persist
  <2>1. /\ UNCHANGED <<platform, held, selector, stream, clock, engine, todo>>
        /\ call.at = "persist" /\ Update(engine.selected)
        /\ call' = [call EXCEPT !.at = "idle", !.refused = {}]
    BY <1>1 DEF Persist
  <2>2. engine.selected \in [Kinds -> Choices]
    BY DEF EngineRecord
  <2>3. /\ call' \in CallRecord /\ call'.at = "idle" /\ call'.step = call.step
        /\ call'.kind = call.kind /\ call'.why = call.why /\ call'.previous = call.previous
    BY <2>1 DEF CallRecord, Places
  <2> QED BY <2>1, <2>2, <2>3, UpdateFields
<1>2. CASE OtherSettingChanges
  BY <1>2, GoFields DEF OtherSettingChanges, Places
<1>3. CASE OtherUpdate
  <2>1. /\ UNCHANGED <<platform, held, selector, stream, clock, engine, call, todo>>
        /\ call.at = "idle" /\ todo = <<>> /\ Update(saved.config)
    BY <1>3 DEF OtherUpdate
  <2>2. saved.config \in [Kinds -> Choices]
    BY DEF SavedRecord
  <2> QED BY <2>1, <2>2, UpdateFields
<1> QED BY <1>1, <1>2, <1>3 DEF Saving

\* The steps that leave the backend, its streams and the selection alone.
Elsewhere ==
  \/ Destroy \/ Joined \/ WorkerStops \/ WorkerFails \/ PlaybackProcess
        \/ UNCHANGED devicesVars
  \/ \E d \in Inputs \cup Outputs : RegistryChanges(d) \/ Hotplug(d)

LEMMA ElsewhereSteps ==
  ASSUME EngineTypes, Elsewhere
  PROVE  /\ UNCHANGED <<platform, held, selector, stream, clock, todo, saved>>
         /\ engine' \in EngineRecord /\ engine'.backend = engine.backend
         /\ engine'.selected = engine.selected
         /\ call' \in CallRecord
         /\ \/ call' = call
            \/ call.at = "idle" /\ call'.at = "join"
            \/ call.at = "join" /\ call'.at = "stop"
         /\ call'.step = call.step /\ call'.kind = call.kind /\ call'.why = call.why
         /\ call'.previous = call.previous /\ call'.refused = call.refused
<1> USE DEF EngineTypes
<1>1. CASE Destroy
  BY <1>1, GoFields DEF Destroy, Places
<1>2. CASE Joined
  BY <1>2, GoFields DEF Joined, Places
<1>3. CASE WorkerFails
  BY <1>3 DEF WorkerFails, EngineRecord
<1>4. CASE WorkerStops \/ PlaybackProcess \/ UNCHANGED devicesVars
  BY <1>4 DEF WorkerStops, PlaybackProcess, devicesVars
<1>5. ASSUME NEW d \in Inputs \cup Outputs, RegistryChanges(d) \/ Hotplug(d)
      PROVE  UNCHANGED <<platform, held, selector, stream, clock, todo, saved, engine, call>>
  BY <1>5 DEF RegistryChanges, Hotplug
<1> QED BY <1>1, <1>2, <1>3, <1>4, <1>5 DEF Elsewhere

LEMMA Steps ==
  ASSUME [DevicesNext]_devicesVars
  PROVE  \/ Elsewhere \/ Saving \/ CreateNext \/ CreateStreams \/ DestroyStream
               \/ ResetClock \/ Connect
         \/ ConnectFails \/ ApplyAudioSettings
               \/ (\E k \in Kinds : \E s \in Selectors(k) : UserSelects(k, s))
         \/ StopNothing \/ StopBegins \/ StopEnds \/ ControlThreadEnds
         \/ \E k \in Kinds : StreamThreadEnds(k) \/ UpdateClock(k)
BY DEF DevicesNext, CallerNext, ThreadsNext, Done, Elsewhere, Saving

\* The ways a device change begins: refused before anything changes, or with
\* the stream to rebuild.
LEMMA SetDeviceFields ==
  ASSUME EngineTypes, NEW k \in Kinds, NEW s \in Choices, NEW why \in {"applied", "selected"},
         SetDevice(k, s, why)
  PROVE  /\ call' \in CallRecord /\ selector' \in [Kinds -> Choices]
         /\ call'.step = call.step
         /\ \/ /\ engine.backend
               /\ selector' = [selector EXCEPT ![k] = s]
               /\ call'.at = "destroy" /\ call'.kind = k /\ call'.why = why
               /\ call'.previous = selector[k] /\ call'.refused = call.refused
            \/ /\ selector' = selector
               /\ call'.at = call.at /\ call'.kind = call.kind /\ call'.why = call.why
               /\ call'.previous = call.previous
               /\ call'.refused = IF why = "applied" THEN call.refused \cup {k} ELSE call.refused
<1> USE DEF EngineTypes
<1>1. CASE engine.available /\ engine.backend /\ Resolves(k, s)
  <2>1. /\ selector' = [selector EXCEPT ![k] = s]
        /\ call' = [call EXCEPT !.at = "destroy", !.kind = k, !.why = why, !.previous = selector[k]]
    BY <1>1 DEF SetDevice
  <2>2. selector[k] \in Choices
    OBVIOUS
  <2> QED BY <1>1, <2>1, <2>2 DEF CallRecord, Places, Whys
<1>2. CASE ~(engine.available /\ engine.backend /\ Resolves(k, s))
  <2> DEFINE refused == IF why = "applied" THEN call.refused \cup {k} ELSE call.refused
  <2>1. selector' = selector /\ call' = [call EXCEPT !.refused = refused]
    BY <1>2 DEF SetDevice
  <2>2. refused \in SUBSET Kinds
    BY DEF CallRecord
  <2> HIDE DEF refused
  <2>3. /\ call' \in CallRecord /\ call'.refused = refused
        /\ call'.step = call.step /\ call'.at = call.at /\ call'.kind = call.kind
        /\ call'.why = call.why /\ call'.previous = call.previous
    BY <2>1, <2>2 DEF CallRecord
  <2> QED BY <2>1, <2>3 DEF refused
<1> QED BY <1>1, <1>2

\* The saved devices, one after the other.
LEMMA ApplyFields ==
  ASSUME EngineTypes, SavedInv, ApplyAudioSettings
  PROVE  \E k \in Kinds :
           /\ SetDevice(k, saved.config[k], "applied")
           /\ \/ k = "input" /\ todo = <<Saved("input"), Saved("output")>>
                 /\ todo' = <<Saved("output")>>
              \/ k = "output" /\ todo = <<Saved("output")>> /\ todo' = <<>>
<1>1. CASE todo = <<Saved("input"), Saved("output")>>
  <2>1. Head(todo) = Saved("input") /\ Tail(todo) = <<Saved("output")>>
    BY <1>1
  <2>2. SetDevice("input", saved.config["input"], "applied") /\ todo' = <<Saved("output")>>
    BY <2>1 DEF ApplyAudioSettings, Saved
  <2> QED BY <1>1, <2>2 DEF Kinds
<1>2. CASE todo = <<Saved("output")>>
  <2>1. Head(todo) = Saved("output") /\ Tail(todo) = <<>>
    BY <1>2
  <2>2. SetDevice("output", saved.config["output"], "applied") /\ todo' = <<>>
    BY <2>1 DEF ApplyAudioSettings, Saved
  <2> QED BY <1>2, <2>2 DEF Kinds
<1> QED BY <1>1, <1>2 DEF SavedInv, ApplyAudioSettings

\* A stream that opens ends what it was rebuilt for.
LEMMA ConnectFields ==
  ASSUME EngineTypes, Connect
  PROVE  /\ call.at = "connect" /\ RunOnQueue(OwnerOf(call.kind))
         /\ UNCHANGED <<platform, held, selector, todo, saved>>
         /\ stream' = [stream EXCEPT ![call.kind] = selector[call.kind]]
         /\ \/ clock' = clock
            \/ clock' = [clock EXCEPT ![call.kind] = selector[call.kind]]
         /\ stream' \in [Kinds -> Choices] /\ clock' \in [Kinds -> Choices]
         /\ engine' \in EngineRecord
         /\ call' \in CallRecord /\ call'.step = call.step /\ call'.why = call.why
         /\ call'.previous = call.previous /\ call'.refused = call.refused
         /\ \/ /\ call.why = "start" /\ call.kind = "input"
               /\ call'.at = "destroy" /\ call'.kind = "output" /\ engine' = engine
            \/ /\ call.why = "start" /\ call'.at = "idle" /\ call'.kind = call.kind
               /\ engine'.backend /\ engine'.selected = engine.selected
            \/ /\ call.why \in {"applied", "selected"}
               /\ call'.at = (IF call.why = "selected" THEN "persist" ELSE "idle")
               /\ call'.kind = call.kind
               /\ engine'.backend = engine.backend
               /\ engine'.selected = [engine.selected EXCEPT ![call.kind] = selector[call.kind]]
            \/ /\ call.why = "restored" /\ call'.at = "idle" /\ call'.kind = call.kind
               /\ engine' = engine
<1> USE DEF EngineTypes
<1>1. call.kind \in Kinds /\ selector[call.kind] \in Choices
  BY DEF CallRecord
<1>2. /\ call.at = "connect" /\ RunOnQueue(OwnerOf(call.kind))
      /\ UNCHANGED <<platform, held, selector, todo, saved>>
      /\ stream' = [stream EXCEPT ![call.kind] = selector[call.kind]]
      /\ clock' = clock \/ clock' = [clock EXCEPT ![call.kind] = selector[call.kind]]
      /\ Opened
  BY DEF Connect
<1>3. stream' \in [Kinds -> Choices] /\ clock' \in [Kinds -> Choices]
  BY <1>1, <1>2
<1>4. CASE call.why = "start" /\ call.kind = "input"
  <2>1. call' = [call EXCEPT !.at = "destroy", !.kind = "output"] /\ engine' = engine
    BY <1>2, <1>4 DEF Opened
  <2>2. "output" \in Kinds
    BY DEF Kinds
  <2>3. /\ call' \in CallRecord /\ call'.step = call.step /\ call'.why = call.why
        /\ call'.previous = call.previous /\ call'.refused = call.refused
        /\ call'.at = "destroy" /\ call'.kind = "output"
    BY <2>1, <2>2 DEF CallRecord, Places
  <2> QED BY <1>2, <1>3, <1>4, <2>1, <2>3
<1>5. CASE call.why = "start" /\ call.kind # "input"
  <2>1. call.kind = "output"
    BY <1>1, <1>5 DEF Kinds
  <2>2. /\ engine' = [engine EXCEPT !.backend = TRUE, !.available = TRUE]
        /\ Go("idle")
    BY <1>2, <1>5, <2>1 DEF Opened, Constructed
  <2>3. engine' \in EngineRecord /\ engine'.backend /\ engine'.selected = engine.selected
    BY <2>2 DEF EngineRecord
  <2> QED BY <1>2, <1>3, <1>5, <2>2, <2>3, GoFields DEF Places
<1>6. CASE call.why \in {"applied", "selected"}
  <2> DEFINE selected == [engine.selected EXCEPT ![call.kind] = selector[call.kind]]
  <2>1. /\ engine' = [engine EXCEPT !.selected = selected]
        /\ Go(IF call.why = "selected" THEN "persist" ELSE "idle")
    BY <1>2, <1>6 DEF Opened
  <2>2. selected \in [Kinds -> Choices]
    BY <1>1 DEF EngineRecord
  <2> HIDE DEF selected
  <2>3. engine' \in EngineRecord /\ engine'.backend = engine.backend /\ engine'.selected = selected
    BY <2>1, <2>2 DEF EngineRecord
  <2>4. engine'.selected = [engine.selected EXCEPT ![call.kind] = selector[call.kind]]
    BY <2>3 DEF selected
  <2>5. call' \in CallRecord /\ call'.kind = call.kind
        /\ call'.at = (IF call.why = "selected" THEN "persist" ELSE "idle")
        /\ call'.step = call.step /\ call'.why = call.why
        /\ call'.previous = call.previous /\ call'.refused = call.refused
    BY <2>1, GoFields DEF Places
  <2> QED BY <1>2, <1>3, <1>6, <2>1, <2>3, <2>4, <2>5
<1>7. CASE call.why = "restored"
  <2>1. Go("idle") /\ engine' = engine
    BY <1>2, <1>7 DEF Opened
  <2> QED BY <1>2, <1>3, <1>7, <2>1, GoFields DEF Places
<1> QED BY <1>4, <1>5, <1>6, <1>7 DEF CallRecord, Whys

\* A stream that does not open: the start is given up, or the device is put
\* back, or nothing more is tried.
LEMMA ConnectFailsFields ==
  ASSUME EngineTypes, ConnectFails
  PROVE  /\ call.at = "connect"
         /\ UNCHANGED <<platform, held, stream, clock, engine, saved, todo>>
         /\ selector' \in [Kinds -> Choices]
         /\ call' \in CallRecord /\ call'.step = call.step /\ call'.kind = call.kind
         /\ \/ /\ call.why = "start" /\ call'.at = "stop" /\ selector' = selector
               /\ call'.refused = call.refused
            \/ /\ call.why \in {"applied", "selected"}
               /\ selector' = [selector EXCEPT ![call.kind] = call.previous]
               /\ call'.why = "restored" /\ call'.at \in {"destroy", "idle"}
               /\ call'.refused = Refused
            \/ /\ call.why = "restored" /\ call'.at = "idle" /\ selector' = selector
               /\ call'.why = "restored" /\ call'.refused = call.refused
<1> USE DEF EngineTypes
<1>1. call.at = "connect" /\ UNCHANGED <<platform, held, stream, clock, engine, saved, todo>>
  BY DEF ConnectFails
<1>2. CASE call.why = "start"
  <2>1. Go("stop") /\ selector' = selector
    BY <1>2 DEF ConnectFails
  <2> QED BY <1>1, <1>2, <2>1, GoFields DEF Places
<1>3. CASE call.why \in {"applied", "selected"}
  <2>1. /\ selector' = [selector EXCEPT ![call.kind] = call.previous]
        /\ \E at \in {"destroy", "idle"} :
             call' = [call EXCEPT !.why = "restored", !.refused = Refused, !.at = at]
    BY <1>3 DEF ConnectFails, Restore
  <2>2. Refused \in SUBSET Kinds /\ call.previous \in Choices /\ call.kind \in Kinds
    BY DEF CallRecord, Refused
  <2>3. selector' \in [Kinds -> Choices]
    BY <2>1, <2>2
  <2>4. /\ call' \in CallRecord /\ call'.step = call.step /\ call'.kind = call.kind
        /\ call'.why = "restored" /\ call'.at \in {"destroy", "idle"} /\ call'.refused = Refused
    BY <2>1, <2>2 DEF CallRecord, Places, Whys
  <2> QED BY <1>1, <1>3, <2>1, <2>3, <2>4
<1>4. CASE call.why = "restored"
  <2>1. Go("idle") /\ selector' = selector
    BY <1>4 DEF ConnectFails
  <2> QED BY <1>1, <1>4, <2>1, GoFields DEF Places
<1> QED BY <1>2, <1>3, <1>4 DEF CallRecord, Whys

\* What Stop leaves of the engine.
LEMMA StoppedFields ==
  ASSUME EngineTypes, Stopped
  PROVE  /\ engine' \in EngineRecord /\ ~engine'.backend /\ engine'.selected = engine.selected
         /\ call' \in CallRecord /\ call'.at \in {"idle", "done"}
         /\ call'.step = call.step /\ call'.kind = call.kind /\ call'.why = call.why
         /\ call'.previous = call.previous /\ call'.refused = call.refused
<1>1. engine' = [engine EXCEPT !.backend = FALSE, !.available = FALSE] /\ (Go("idle")
            \/ Go("done"))
  BY DEF Stopped, Constructed
<1> QED BY <1>1, GoFields DEF EngineTypes, EngineRecord, Places

LEMMA TypesKept ==
  ASSUME EngineTypes, SavedInv, [DevicesNext]_devicesVars
  PROVE  EngineTypes'
<1> USE DEF EngineTypes
<1>1. CASE Elsewhere
  BY <1>1, ElsewhereSteps
<1>2. CASE CreateNext
  <2>1. UNCHANGED <<platform, selector, stream, clock, saved, engine>>
    BY <1>2 DEF CreateNext
  <2>2. Len(StartSteps) = 5
    BY DEF StartSteps
  <2>3. \/ call' = [call EXCEPT !.step = @ + 1] /\ call.step < 5
        \/ call' = [call EXCEPT !.at = "stop"]
    BY <1>2, <2>2 DEF CreateNext
  <2>4. call' \in CallRecord
    BY <2>3 DEF CallRecord, Places
  <2> QED BY <2>1, <2>4
<1>3. CASE CreateStreams
  <2>1. UNCHANGED <<platform, selector, stream, clock, saved, engine>>
    BY <1>3 DEF CreateStreams
  <2>2. Go("stop") \/ call' = [call EXCEPT !.at = "destroy", !.kind = "input", !.why = "start"]
    BY <1>3 DEF CreateStreams
  <2>3. call' \in CallRecord
    BY <2>2, GoFields DEF CallRecord, Places, Whys, Kinds
  <2> QED BY <2>1, <2>3
<1>4. CASE DestroyStream \/ ResetClock
  <2>1. Go("reset") \/ Go("connect")
    BY <1>4 DEF DestroyStream, ResetClock
  <2>2. call' \in CallRecord
    BY <2>1, GoFields DEF Places
  <2>3. /\ stream' = stream \/ stream' = [stream EXCEPT ![call.kind] = "none"]
        /\ clock' = clock \/ clock' = [clock EXCEPT ![call.kind] = "none"]
        /\ UNCHANGED <<platform, selector, saved, engine>>
    BY <1>4 DEF DestroyStream, ResetClock
  <2>4. "none" \in Choices
    BY DEF Choices
  <2> QED BY <2>2, <2>3, <2>4
<1>5. CASE Connect
  BY <1>5, ConnectFields
<1>6. CASE ConnectFails
  BY <1>6, ConnectFailsFields
<1>7. CASE ApplyAudioSettings
  <2>1. PICK k \in Kinds : SetDevice(k, saved.config[k], "applied")
    BY <1>7, ApplyFields
  <2>2. call' \in CallRecord /\ selector' \in [Kinds -> Choices]
    BY <2>1, SetDeviceFields DEF SavedRecord
  <2>3. UNCHANGED <<platform, stream, clock, saved, engine>>
    BY <1>7 DEF ApplyAudioSettings
  <2> QED BY <2>2, <2>3
<1>8. ASSUME NEW k \in Kinds, NEW s \in Selectors(k), UserSelects(k, s)
                   PROVE EngineTypes'
  <2>1. s \in Choices
    BY DEF Selectors, Devices, Choices
  <2>2. call' \in CallRecord /\ selector' \in [Kinds -> Choices]
    BY <1>8, <2>1, SetDeviceFields DEF UserSelects
  <2>3. UNCHANGED <<platform, stream, clock, saved, engine>>
    BY <1>8 DEF UserSelects
  <2> QED BY <2>2, <2>3
<1>9. CASE StopNothing
  BY <1>9, StoppedFields DEF StopNothing
<1>10. CASE StopBegins
  <2>1. call' \in CallRecord
    BY <1>10, GoFields DEF StopBegins, Places
  <2>2. /\ stream' = stream \/ stream' = [k \in Kinds |-> "none"]
        /\ clock' = clock \/ clock' = [k \in Kinds |-> "none"]
        /\ UNCHANGED <<platform, selector, saved, engine>>
    BY <1>10 DEF StopBegins
  <2>3. "none" \in Choices
    BY DEF Choices
  <2> QED BY <2>1, <2>2, <2>3
<1>11. CASE StopEnds
  BY <1>11, StoppedFields DEF StopEnds
<1>12. CASE ControlThreadEnds
  BY <1>12 DEF ControlThreadEnds
<1>13. ASSUME NEW k \in Kinds, StreamThreadEnds(k) \/ UpdateClock(k) PROVE EngineTypes'
  <2>1. "none" \in Choices /\ stream[k] \in Choices
    BY DEF Choices
  <2> QED BY <1>13, <2>1 DEF StreamThreadEnds, UpdateClock
<1>14. CASE Saving
  BY <1>14, SavingFields
<1> QED
  BY <1>1, <1>2, <1>3, <1>4, <1>5, <1>6, <1>7, <1>8, <1>9, <1>10, <1>11, <1>12, <1>13, <1>14, Steps

-----------------------------------------------------------------------------
\* What the backend has taken hold of.
LEMMA HeldKept ==
  ASSUME EngineTypes, SavedInv, HeldInv, [DevicesNext]_devicesVars
  PROVE  HeldInv'
<1> USE DEF EngineTypes, Rebuilding
<1>0. call.kind \in Kinds /\ call.at \in Places /\ "loop" \notin Threads
  BY DEF CallRecord, Threads
<1>1. CASE Elsewhere
  <2>1. /\ UNCHANGED <<platform, held, selector, stream, clock, todo, saved>>
        /\ engine'.backend = engine.backend
        /\ \/ call' = call
           \/ call.at = "idle" /\ call'.at = "join"
           \/ call.at = "join" /\ call'.at = "stop"
        /\ call'.step = call.step
    BY <1>1, ElsewhereSteps
  <2> QED BY <2>1 DEF HeldInv, HasStarted, Created, StartSteps
<1>2. CASE CreateNext
  <2>1. /\ call.at = "start" /\ call.step \in 0 .. 4 /\ held = Created
        /\ UNCHANGED <<platform, stream, clock, engine>>
    BY <1>2 DEF CreateNext, StartSteps, HeldInv, CallRecord
  <2>2. CASE call' = [call EXCEPT !.at = "stop"] /\ held' = held
    <3>1. call'.at = "stop" /\ call'.step = call.step
      BY <2>2 DEF CallRecord
    <3> QED BY <2>1, <2>2, <3>1 DEF HeldInv, HasStarted
  <2>3. CASE call' = [call EXCEPT !.step = @ + 1]
                   /\ held' = held \cup {StartSteps[call.step + 1]}
    <3>1. call'.at = "start" /\ call'.step = call.step + 1
      BY <2>1, <2>3 DEF CallRecord
    <3>2. StartSteps' = StartSteps
      BY <2>1 DEF StartSteps
    <3>3. held' = Created'
      <4>1. 1 .. call'.step = (1 .. call.step) \cup {call.step + 1}
        BY <2>1, <3>1
      <4> QED BY <2>1, <2>3, <3>2, <4>1 DEF Created
    <3>4. call'.step = 1 => held' = {StartSteps[1]}
      BY <2>1, <2>3, <3>1 DEF Created
    <3>5. call'.step # 1 => StartSteps[1] \in held' /\ StartSteps[2] \in held'
      BY <2>1, <3>1, <3>2, <3>3 DEF Created
    <3>6. \/ platform = "pipewire" /\ StartSteps[1] = "loop"
          \/ platform = "wasapi" /\ StartSteps[1] = "events" /\ StartSteps[2] = "control"
      BY DEF StartSteps
    <3>7. ~HasStarted' => held' = {"events"} /\ call'.step = 1
      BY <2>1, <3>4, <3>5, <3>6 DEF HasStarted, Threads
    <3>8. HasStarted => HasStarted'
      BY <2>1, <2>3 DEF HasStarted
    <3> QED BY <2>1, <2>3, <3>1, <3>3, <3>7, <3>8 DEF HeldInv
  <2> QED BY <1>2, <2>2, <2>3 DEF CreateNext
<1>3. CASE CreateStreams
  <2>1. /\ call.at = "start" /\ call.step = 5 /\ ~engine.backend
        /\ UNCHANGED <<platform, held, stream, clock, engine>>
    BY <1>3 DEF CreateStreams, StartSteps, HeldInv
  <2>2. HasStarted
    BY <1>3 DEF CreateStreams, StartSteps, HeldInv, Created, HasStarted, Threads
  <2>3. \/ call'.at = "stop"
        \/ call'.at = "destroy" /\ call'.why = "start"
    BY <1>3, GoFields DEF CreateStreams, CallRecord, Places
  <2> QED BY <2>1, <2>2, <2>3 DEF HeldInv, HasStarted
<1>4. CASE DestroyStream \/ ResetClock
  <2>1. /\ Rebuilding /\ call'.at \in {"reset", "connect"} /\ call'.why = call.why
        /\ UNCHANGED <<platform, held, engine>>
    BY <1>4, GoFields DEF DestroyStream, ResetClock, Places
  <2>2. /\ \A k \in Kinds : stream'[k] # "none" => stream[k] # "none"
        /\ \A k \in Kinds : clock'[k] # "none" => clock[k] # "none"
    BY <1>4 DEF DestroyStream, ResetClock
  <2> QED BY <2>1, <2>2 DEF HeldInv, HasStarted
<1>5. CASE Connect
  <2>1. /\ Rebuilding /\ RunOnQueue(OwnerOf(call.kind)) /\ UNCHANGED <<platform, held>>
        /\ call'.why = call.why
    BY <1>5, ConnectFields
  <2>2. HasStarted /\ HasStarted'
    BY <2>1 DEF HeldInv, HasStarted
  <2>3. \A k \in Kinds : stream'[k] # "none" \/ clock'[k] # "none" =>
          k = call.kind \/ stream[k] # "none" \/ clock[k] # "none"
    BY <1>5, ConnectFields
  <2>4. \/ call'.at = "destroy" /\ engine'.backend = engine.backend
        \/ call'.at = "idle"
        \/ call'.at = "persist"
    BY <1>5, ConnectFields
  <2>5. \A k \in Kinds : stream'[k] # "none" \/ clock'[k] # "none" =>
          /\ platform' = "pipewire" => "loop" \in held' /\ call'.at # "stopping"
          /\ platform' = "wasapi" => OwnerOf(k) \in held'
    BY <2>1, <2>2, <2>3, <2>4 DEF HeldInv, HasStarted, RunOnQueue
  <2> QED BY <2>1, <2>2, <2>4, <2>5 DEF HeldInv
<1>6. CASE ConnectFails
  <2>1. /\ call.at = "connect" /\ UNCHANGED <<platform, held, stream, clock, engine>>
        /\ \/ call'.at = "stop" \/ call'.at = "idle"
           \/ call'.at = "destroy" /\ call'.why = "restored" /\ call.why # "start"
    BY <1>6, ConnectFailsFields
  <2> QED BY <2>1 DEF HeldInv, HasStarted
<1>7. ASSUME NEW k \in Kinds, NEW s \in Choices, NEW why \in {"applied", "selected"},
             SetDevice(k, s, why), call.at = "idle",
             UNCHANGED <<platform, held, stream, clock, engine>>
      PROVE  HeldInv'
  <2>1. /\ call'.step = call.step
        /\ \/ call'.at = "idle"
           \/ call'.at = "destroy" /\ call'.why \in {"applied", "selected"} /\ engine.backend
    BY <1>7, SetDeviceFields
  <2> QED BY <1>7, <2>1 DEF HeldInv, HasStarted
<1>8. CASE ApplyAudioSettings
  <2>1. PICK k \in Kinds : SetDevice(k, saved.config[k], "applied")
    BY <1>8, ApplyFields
  <2>2. saved.config[k] \in Choices
    BY DEF SavedRecord
  <2> QED BY <1>7, <1>8, <2>1, <2>2 DEF ApplyAudioSettings
<1>9. ASSUME NEW k \in Kinds, NEW s \in Selectors(k), UserSelects(k, s) PROVE HeldInv'
  <2>1. s \in Choices
    BY DEF Selectors, Devices, Choices
  <2> QED BY <1>7, <1>9, <2>1 DEF UserSelects
<1>10. CASE StopNothing
  <2>1. /\ ~HasStarted /\ call.at = "stop" /\ UNCHANGED <<platform, held, stream, clock>>
    BY <1>10 DEF StopNothing
  <2>2. ~engine'.backend /\ call'.at \in {"idle", "done"} /\ call'.step = call.step
    BY <1>10, StoppedFields DEF StopNothing
  <2> QED BY <2>1, <2>2 DEF HeldInv, HasStarted
<1>11. CASE StopBegins
  <2>1. call'.at = "stopping" /\ UNCHANGED <<platform, held>>
    BY <1>11, GoFields DEF StopBegins, Places
  <2>2. \A k \in Kinds : stream'[k] # "none" \/ clock'[k] # "none" =>
          platform = "wasapi" /\ stream'[k] = stream[k] /\ clock'[k] = clock[k]
    BY <1>11 DEF StopBegins
  <2> QED BY <2>1, <2>2 DEF HeldInv
<1>12. CASE StopEnds
  <2>1. /\ call.at = "stopping" /\ Threads \cap held = {} /\ held' = {}
        /\ UNCHANGED <<platform, stream, clock>>
    BY <1>12 DEF StopEnds
  <2>2. ~engine'.backend /\ call'.at \in {"idle", "done"} /\ call'.step = call.step
    BY <1>12, StoppedFields DEF StopEnds
  <2>3. \A k \in Kinds : stream[k] = "none" /\ clock[k] = "none"
    BY <2>1 DEF HeldInv, OwnerOf, Threads
  <2> QED BY <2>1, <2>2, <2>3 DEF HeldInv
<1>13. CASE ControlThreadEnds
  <2>1. /\ call.at = "stopping" /\ held' = held \ {"control", "enumerator"}
        /\ UNCHANGED <<platform, stream, clock, call>>
    BY <1>13 DEF ControlThreadEnds
  <2> QED BY <2>1 DEF HeldInv, OwnerOf
<1>14. ASSUME NEW k \in Kinds, StreamThreadEnds(k) PROVE HeldInv'
  <2>1. /\ call.at = "stopping" /\ held' = held \ {OwnerOf(k)}
        /\ stream' = [stream EXCEPT ![k] = "none"] /\ clock' = [clock EXCEPT ![k] = "none"]
        /\ UNCHANGED <<platform, call>>
    BY <1>14 DEF StreamThreadEnds
  <2>2. \A j \in Kinds : stream'[j] # "none" \/ clock'[j] # "none" =>
          j # k /\ (stream[j] # "none" \/ clock[j] # "none")
    BY <2>1
  <2>3. \A j \in Kinds : j # k => OwnerOf(j) # OwnerOf(k)
    BY DEF Kinds, OwnerOf
  <2> QED BY <2>1, <2>2, <2>3 DEF HeldInv
<1>15. ASSUME NEW k \in Kinds, UpdateClock(k) PROVE HeldInv'
  <2>1. /\ stream[k] # "none" /\ clock' = [clock EXCEPT ![k] = stream[k]]
        /\ UNCHANGED <<platform, held, stream, engine, call>>
    BY <1>15 DEF UpdateClock
  <2>2. \A j \in Kinds : clock'[j] # "none" => clock[j] # "none" \/ stream[j] # "none"
    BY <2>1
  <2> QED BY <2>1, <2>2 DEF HeldInv, HasStarted, Created, StartSteps
<1>16. CASE Saving
  <2>1. /\ UNCHANGED <<platform, held, stream, clock, engine>> /\ call'.step = call.step
        /\ call.at \in {"idle", "persist"} /\ call'.at \in {"idle", "persist"}
    BY <1>16, SavingFields
  <2> QED BY <2>1 DEF HeldInv, HasStarted
<1> QED
  BY <1>1, <1>2, <1>3, <1>4, <1>5, <1>6, <1>8, <1>9, <1>10, <1>11, <1>12, <1>13, <1>14, <1>15,
     <1>16, Steps

\* Nothing is left open.
LEMMA NothingKept ==
  ASSUME EngineTypes, SavedInv, HeldInv, NothingLeftOpen, [DevicesNext]_devicesVars
  PROVE  NothingLeftOpen'
<1> USE DEF EngineTypes, Rebuilding
<1>1. CASE Elsewhere
  <2>1. /\ UNCHANGED <<held, stream, clock>> /\ engine'.backend = engine.backend
        /\ \/ call' = call
           \/ call'.at \in {"join", "stop"}
        /\ call'.step = call.step
    BY <1>1, ElsewhereSteps
  <2> QED BY <2>1 DEF NothingLeftOpen
<1>2. CASE CreateNext \/ CreateStreams
  <2>1. call.at = "start" /\ call'.at \in {"start", "destroy", "stop"}
    BY <1>2, GoFields DEF CreateNext, CreateStreams, CallRecord, Places
  <2> QED BY <2>1 DEF NothingLeftOpen
<1>3. CASE DestroyStream \/ ResetClock
  <2>1. call'.at \in {"reset", "connect"}
    BY <1>3, GoFields DEF DestroyStream, ResetClock, Places
  <2> QED BY <2>1 DEF NothingLeftOpen
<1>4. CASE Connect
  <2>1. \/ call'.at = "destroy"
        \/ engine'.backend
        \/ call.at = "connect" /\ call.why # "start" /\ engine'.backend = engine.backend
    BY <1>4, ConnectFields
  <2> QED BY <2>1 DEF NothingLeftOpen, HeldInv
<1>5. CASE ConnectFails
  <2>1. /\ call.at = "connect" /\ engine' = engine
        /\ call'.at \in {"stop", "destroy"} \/ call.why # "start"
    BY <1>5, ConnectFailsFields
  <2> QED BY <2>1 DEF NothingLeftOpen, HeldInv
<1>6. ASSUME NEW k \in Kinds, NEW s \in Choices, NEW why \in {"applied", "selected"},
             SetDevice(k, s, why), UNCHANGED <<held, stream, clock, engine>>
      PROVE  NothingLeftOpen'
  <2>1. call'.step = call.step /\ call'.at \in {"destroy", call.at}
    BY <1>6, SetDeviceFields
  <2> QED BY <1>6, <2>1 DEF NothingLeftOpen
<1>7. CASE ApplyAudioSettings
  <2>1. PICK k \in Kinds : SetDevice(k, saved.config[k], "applied")
    BY <1>7, ApplyFields
  <2>2. saved.config[k] \in Choices
    BY DEF SavedRecord
  <2> QED BY <1>6, <1>7, <2>1, <2>2 DEF ApplyAudioSettings
<1>8. ASSUME NEW k \in Kinds, NEW s \in Selectors(k), UserSelects(k, s)
                   PROVE NothingLeftOpen'
  <2>1. s \in Choices
    BY DEF Selectors, Devices, Choices
  <2> QED BY <1>6, <1>8, <2>1 DEF UserSelects
<1>9. CASE StopNothing
  <2>1. /\ ~HasStarted /\ call.at = "stop" /\ UNCHANGED <<platform, held, stream, clock>>
    BY <1>9 DEF StopNothing
  <2>2. ~engine'.backend /\ call'.at \in {"idle", "done"} /\ call'.step = call.step
    BY <1>9, StoppedFields DEF StopNothing
  <2>3. \A k \in Kinds : stream[k] = "none" /\ clock[k] = "none"
    BY <2>1 DEF HeldInv, HasStarted, OwnerOf, Threads
  <2> QED BY <2>1, <2>2, <2>3 DEF HeldInv, NothingLeftOpen
<1>10. CASE StopBegins
  BY <1>10, GoFields DEF StopBegins, Places, NothingLeftOpen
<1>11. CASE StopEnds
  <2>1. /\ call.at = "stopping" /\ Threads \cap held = {} /\ held' = {}
        /\ UNCHANGED <<platform, stream, clock>>
    BY <1>11 DEF StopEnds
  <2>2. \A k \in Kinds : stream[k] = "none" /\ clock[k] = "none"
    BY <2>1 DEF HeldInv, OwnerOf, Threads
  <2> QED BY <2>1, <2>2 DEF NothingLeftOpen
<1>12. CASE ControlThreadEnds
  BY <1>12 DEF ControlThreadEnds, NothingLeftOpen
<1>13. ASSUME NEW k \in Kinds, StreamThreadEnds(k) PROVE NothingLeftOpen'
  BY <1>13 DEF StreamThreadEnds, NothingLeftOpen
<1>14. ASSUME NEW k \in Kinds, UpdateClock(k) PROVE NothingLeftOpen'
  BY <1>14 DEF UpdateClock, NothingLeftOpen
<1>15. CASE Saving
  <2>1. /\ UNCHANGED <<held, stream, clock, engine>> /\ call'.step = call.step
        /\ call.at \in {"idle", "persist"}
    BY <1>15, SavingFields
  <2> QED BY <2>1 DEF NothingLeftOpen
<1> QED
  BY <1>1, <1>2, <1>3, <1>4, <1>5, <1>7, <1>8, <1>9, <1>10, <1>11, <1>12, <1>13, <1>14, <1>15,
     Steps

-----------------------------------------------------------------------------
\* The steps that rebuild no stream and change no selection.
LEMMA OtherSteps ==
  ASSUME EngineTypes, HeldInv,
         Elsewhere \/ CreateNext \/ CreateStreams \/ StopNothing \/ StopBegins
               \/ StopEnds
           \/ ControlThreadEnds \/ (\E k \in Kinds : StreamThreadEnds(k)
                 \/ UpdateClock(k))
  PROVE  /\ UNCHANGED <<selector, todo, saved>>
         /\ engine'.selected = engine.selected
         /\ call'.refused = call.refused /\ call'.previous = call.previous
         /\ \/ call'.at = call.at /\ call'.kind = call.kind /\ call'.why = call.why
            \/ /\ call.at \notin {"destroy", "reset", "connect", "persist"}
               /\ call'.at \notin {"destroy", "reset", "connect", "persist"}
            \/ call.at = "start" /\ call'.at = "destroy" /\ call'.why = "start"
         /\ \A k \in Kinds :
              /\ stream'[k] \in {"none", stream[k]}
              /\ \/ clock'[k] = "none"
                 \/ stream'[k] = stream[k] /\ clock'[k] \in {clock[k], stream'[k]}
<1> USE DEF EngineTypes
<1>1. CASE Elsewhere
  BY <1>1, ElsewhereSteps
<1>2. CASE CreateNext
  <2>1. /\ call.at = "start" /\ UNCHANGED <<selector, stream, clock, engine, todo, saved>>
        /\ \/ call' = [call EXCEPT !.step = @ + 1]
           \/ call' = [call EXCEPT !.at = "stop"]
    BY <1>2 DEF CreateNext
  <2>2. /\ call'.at \in {"start", "stop"} /\ call'.kind = call.kind /\ call'.why = call.why
        /\ call'.refused = call.refused /\ call'.previous = call.previous
    BY <2>1 DEF CallRecord
  <2> QED BY <2>1, <2>2
<1>3. CASE CreateStreams
  <2>1. /\ call.at = "start" /\ UNCHANGED <<selector, stream, clock, engine, todo, saved>>
        /\ \/ call' = [call EXCEPT !.at = "destroy", !.kind = "input", !.why = "start"]
           \/ Go("stop")
    BY <1>3 DEF CreateStreams
  <2>2. /\ (call'.at = "destroy" /\ call'.why = "start") \/ call'.at = "stop"
        /\ call'.refused = call.refused /\ call'.previous = call.previous
    BY <2>1, GoFields DEF CallRecord, Places
  <2> QED BY <2>1, <2>2
<1>4. CASE StopNothing
  BY <1>4, StoppedFields DEF StopNothing
<1>5. CASE StopBegins
  <2>1. /\ call'.at = "stopping" /\ call.at = "stop"
        /\ call'.refused = call.refused /\ call'.previous = call.previous
    BY <1>5, GoFields DEF StopBegins, Places
  <2>2. /\ UNCHANGED <<selector, engine, todo, saved>>
        /\ \/ stream' = [k \in Kinds |-> "none"] /\ clock' = [k \in Kinds |-> "none"]
           \/ UNCHANGED <<stream, clock>>
    BY <1>5 DEF StopBegins
  <2> QED BY <2>1, <2>2
<1>6. CASE StopEnds
  BY <1>6, StoppedFields DEF StopEnds
<1>7. CASE ControlThreadEnds
  BY <1>7 DEF ControlThreadEnds
<1>8. ASSUME NEW k \in Kinds, StreamThreadEnds(k)
      PROVE  /\ UNCHANGED <<selector, todo, saved, engine, call>>
             /\ \A j \in Kinds :
                  \/ stream'[j] = "none" /\ clock'[j] = "none"
                  \/ stream'[j] = stream[j] /\ clock'[j] = clock[j]
  BY <1>8 DEF StreamThreadEnds
<1>9. ASSUME NEW k \in Kinds, UpdateClock(k)
      PROVE  /\ UNCHANGED <<selector, todo, saved, engine, call, stream>>
             /\ \A j \in Kinds : clock'[j] \in {clock[j], stream[j]}
  BY <1>9 DEF UpdateClock
<1> QED BY <1>1, <1>2, <1>3, <1>4, <1>5, <1>6, <1>7, <1>8, <1>9

\* The selectors, the streams and their clocks.
LEMMA StreamKept ==
  ASSUME EngineTypes, SavedInv, HeldInv, StreamInv, [DevicesNext]_devicesVars
  PROVE  StreamInv'
<1> USE DEF EngineTypes, Rebuilding, Changing
<1>0. call.kind \in Kinds /\ call.at \in Places /\ call.why \in Whys
  BY DEF CallRecord
<1>1. CASE Elsewhere \/ CreateNext \/ CreateStreams \/ StopNothing
                 \/ StopBegins \/ StopEnds
             \/ ControlThreadEnds \/ (\E k \in Kinds : StreamThreadEnds(k)
                   \/ UpdateClock(k))
  BY <1>1, OtherSteps DEF StreamInv
<1>2. CASE DestroyStream
  <2>1. /\ call.at = "destroy" /\ stream' = [stream EXCEPT ![call.kind] = "none"]
        /\ UNCHANGED <<selector, clock, engine>>
        /\ call'.at = "reset" /\ call'.kind = call.kind /\ call'.why = call.why
        /\ call'.previous = call.previous
    BY <1>2, GoFields DEF DestroyStream, Places
  <2> QED BY <1>0, <2>1 DEF StreamInv
<1>3. CASE ResetClock
  <2>1. /\ call.at = "reset" /\ clock' = [clock EXCEPT ![call.kind] = "none"]
        /\ UNCHANGED <<selector, stream, engine>>
        /\ call'.at = "connect" /\ call'.kind = call.kind /\ call'.why = call.why
        /\ call'.previous = call.previous
    BY <1>3, GoFields DEF ResetClock, Places
  <2> QED BY <1>0, <2>1 DEF StreamInv
<1>4. CASE Connect
  <2>1. /\ call.at = "connect" /\ selector' = selector
        /\ stream' = [stream EXCEPT ![call.kind] = selector[call.kind]]
        /\ \/ clock' = clock
           \/ clock' = [clock EXCEPT ![call.kind] = selector[call.kind]]
    BY <1>4, ConnectFields
  <2>2. /\ call'.why = call.why
        /\ call'.at \in {"destroy", "idle", "persist"}
        /\ call'.at = "destroy" => call.why = "start" /\ call'.kind = "output"
        /\ \/ call.why \in {"start", "restored"} /\ engine'.selected = engine.selected
           \/ engine'.selected = [engine.selected EXCEPT ![call.kind] = selector[call.kind]]
    BY <1>4, ConnectFields
  <2>3. engine.selected \in [Kinds -> Choices]
    BY DEF EngineRecord
  <2>4. \A k \in Kinds :
          stream'[k] \in {"none", selector[k]} /\ clock'[k] \in {"none", stream'[k]}
    BY <1>0, <2>1 DEF StreamInv
  <2>5. \A k \in Kinds : engine'.selected[k] = selector[k] /\ ~Changing(k)'
    BY <1>0, <2>1, <2>2, <2>3 DEF StreamInv
  <2> QED BY <2>1, <2>2, <2>4, <2>5 DEF StreamInv
<1>5. CASE ConnectFails
  <2>1. call.at = "connect" /\ UNCHANGED <<stream, clock, engine>> /\ call'.kind = call.kind
    BY <1>5, ConnectFailsFields
  <2>2. \/ /\ call.why \in {"start", "restored"} /\ selector' = selector /\ call'.at \in {"stop",
              "idle"}
        \/ /\ call.why \in {"applied", "selected"}
           /\ selector' = [selector EXCEPT ![call.kind] = call.previous]
           /\ call'.why = "restored" /\ call'.at \in {"destroy", "idle"}
    BY <1>5, ConnectFailsFields
  <2>3. \A k \in Kinds : stream[k] \in {"none", selector[k]} /\ clock[k] \in {"none", stream[k]}
    BY <2>1 DEF StreamInv
  <2>4. stream[call.kind] = "none"
    BY <1>0, <2>1 DEF StreamInv
  <2>5. \A k \in Kinds : engine.selected[k] = selector'[k] /\ ~Changing(k)'
    BY <1>0, <2>1, <2>2 DEF StreamInv
  <2>6. \A k \in Kinds : k # call.kind => selector'[k] = selector[k]
    BY <2>2
  <2> QED BY <1>0, <2>1, <2>2, <2>3, <2>4, <2>5, <2>6 DEF StreamInv
<1>6. ASSUME NEW k \in Kinds, NEW s \in Choices, NEW why \in {"applied", "selected"},
             SetDevice(k, s, why), call.at = "idle", UNCHANGED <<stream, clock, engine>>
      PROVE  StreamInv'
  <2>1. \/ /\ selector' = [selector EXCEPT ![k] = s]
           /\ call'.at = "destroy" /\ call'.kind = k /\ call'.why = why
           /\ call'.previous = selector[k]
        \/ selector' = selector /\ call'.at = call.at
    BY <1>6, SetDeviceFields
  <2> QED BY <1>6, <2>1 DEF StreamInv
<1>7. CASE ApplyAudioSettings
  <2>1. PICK k \in Kinds : SetDevice(k, saved.config[k], "applied")
    BY <1>7, ApplyFields
  <2>2. saved.config[k] \in Choices
    BY DEF SavedRecord
  <2> QED BY <1>6, <1>7, <2>1, <2>2 DEF ApplyAudioSettings
<1>8. ASSUME NEW k \in Kinds, NEW s \in Selectors(k), UserSelects(k, s) PROVE StreamInv'
  <2>1. s \in Choices
    BY DEF Selectors, Devices, Choices
  <2> QED BY <1>6, <1>8, <2>1 DEF UserSelects
<1>9. CASE Saving
  <2>1. /\ UNCHANGED <<selector, stream, clock, engine>>
        /\ call.at \in {"idle", "persist"} /\ call'.at \in {"idle", "persist"}
    BY <1>9, SavingFields
  <2> QED BY <2>1 DEF StreamInv
<1> QED BY <1>1, <1>2, <1>3, <1>4, <1>5, <1>7, <1>8, <1>9, Steps

\* What is saved.
LEMMA SavedKept ==
  ASSUME EngineTypes, SavedInv, HeldInv, StreamInv, [DevicesNext]_devicesVars
  PROVE  SavedInv'
<1> USE DEF EngineTypes, Rebuilding, Changing
<1>0. call.kind \in Kinds /\ call.at \in Places /\ call.why \in Whys
  BY DEF CallRecord
<1>1. CASE Elsewhere \/ CreateNext \/ CreateStreams \/ StopNothing
                 \/ StopBegins \/ StopEnds
             \/ ControlThreadEnds \/ (\E k \in Kinds : StreamThreadEnds(k)
                   \/ UpdateClock(k))
  BY <1>1, OtherSteps DEF SavedInv, Settled, Saved
<1>2. CASE DestroyStream \/ ResetClock
  <2>1. /\ Rebuilding /\ call'.at \in {"reset", "connect"}
        /\ call'.kind = call.kind /\ call'.why = call.why
        /\ call'.previous = call.previous /\ call'.refused = call.refused
        /\ UNCHANGED <<selector, todo, saved>>
    BY <1>2, GoFields DEF DestroyStream, ResetClock, Places
  <2> QED BY <2>1 DEF SavedInv, Settled, Saved
<1>3. CASE Connect
  <2>1. /\ call.at = "connect" /\ UNCHANGED <<selector, todo, saved>>
        /\ call'.refused = call.refused /\ call'.why = call.why
    BY <1>3, ConnectFields
  <2>2. \/ call.why \in {"applied", "restored"} /\ call'.at = "idle"
        \/ call.why = "start" /\ call'.at \in {"idle", "destroy"}
        \/ call.why = "selected" /\ call'.at = "persist"
    BY <1>3, ConnectFields
  <2> QED BY <2>1, <2>2 DEF SavedInv, Settled, Saved
<1>4. CASE ConnectFails
  <2>1. call.at = "connect" /\ UNCHANGED <<todo, saved>> /\ call'.kind = call.kind
    BY <1>4, ConnectFailsFields
  <2>2. CASE /\ call.why \in {"start", "restored"} /\ selector' = selector
             /\ call'.at \in {"stop", "idle"} /\ call'.refused = call.refused
    BY <2>1, <2>2 DEF SavedInv, Settled, Saved
  <2>3. CASE /\ call.why \in {"applied", "selected"}
             /\ selector' = [selector EXCEPT ![call.kind] = call.previous]
             /\ call'.why = "restored" /\ call'.at \in {"destroy", "idle"}
             /\ call'.refused = Refused
    <3>1. \A k \in Kinds : k \notin call'.refused =>
            /\ k \notin call.refused
            /\ k = call.kind => call.why = "selected" /\ selector'[k] = call.previous
            /\ k # call.kind => selector'[k] = selector[k]
      BY <1>0, <2>3 DEF Refused
    <3> QED BY <2>1, <2>3, <3>1 DEF SavedInv, Settled, Saved
  <2> QED BY <1>4, <2>2, <2>3, ConnectFailsFields
<1>5. CASE ApplyAudioSettings
  <2>1. PICK k \in Kinds :
          /\ SetDevice(k, saved.config[k], "applied")
          /\ \/ k = "input" /\ todo = <<Saved("input"), Saved("output")>>
                /\ todo' = <<Saved("output")>>
             \/ k = "output" /\ todo = <<Saved("output")>> /\ todo' = <<>>
    BY <1>5, ApplyFields
  <2>2. saved.config[k] \in Choices /\ call.at = "idle" /\ saved' = saved
    BY <1>5 DEF ApplyAudioSettings, SavedRecord
  <2>3. \/ /\ selector' = [selector EXCEPT ![k] = saved.config[k]]
           /\ call'.at = "destroy" /\ call'.kind = k /\ call'.why = "applied"
           /\ call'.refused = call.refused
        \/ /\ selector' = selector /\ call'.at = "idle"
           /\ call'.refused = call.refused \cup {k}
    BY <2>1, <2>2, SetDeviceFields
  <2>4. \A j \in Kinds : Settled(j)' => j = k \/ Settled(j)
    <3>1. CASE k = "input"
      <4>1. todo' = <<Saved("output")>>
        BY <2>1, <3>1
      <4>2. todo' # <<>>
        BY <4>1
      <4> QED BY <3>1, <4>2 DEF Settled
    <3>2. CASE k = "output"
      <4>1. Settled("input")
        BY <2>1, <3>2 DEF Settled
      <4> QED BY <3>2, <4>1 DEF Kinds
    <3> QED BY <3>1, <3>2 DEF Kinds
  <2>5. \A j \in Kinds : Settled(j)' /\ j \notin call'.refused => saved'.config[j] = selector'[j]
    BY <2>2, <2>3, <2>4 DEF SavedInv
  <2>6. todo' = <<>> \/ todo' = <<Saved("output")'>>
    BY <2>1, <2>2 DEF Saved
  <2> QED BY <2>2, <2>3, <2>5, <2>6 DEF SavedInv
<1>6. ASSUME NEW k \in Kinds, NEW s \in Selectors(k), UserSelects(k, s) PROVE SavedInv'
  <2>1. s \in Choices
    BY DEF Selectors, Devices, Choices
  <2>2. call.at = "idle" /\ todo = <<>> /\ UNCHANGED <<todo, saved>>
              /\ SetDevice(k, s, "selected")
    BY <1>6 DEF UserSelects
  <2>3. \/ /\ selector' = [selector EXCEPT ![k] = s]
           /\ call'.at = "destroy" /\ call'.kind = k /\ call'.why = "selected"
           /\ call'.previous = selector[k] /\ call'.refused = call.refused
        \/ /\ selector' = selector /\ call'.at = "idle"
           /\ call'.refused = call.refused
    BY <2>1, <2>2, SetDeviceFields
  <2>4. \A j \in Kinds : j \notin call.refused => saved.config[j] = selector[j]
    BY <2>2 DEF SavedInv, Settled
  <2> QED BY <2>2, <2>3, <2>4 DEF SavedInv
<1>7. CASE Saving
  <2>1. /\ UNCHANGED <<selector, todo, engine>>
        /\ saved' = saved \/ saved'.file = saved'.config \/ saved'.failed
    BY <1>7, SavingFields
  <2>2. CASE call.at = "persist" /\ call'.at = "idle" /\ saved'.config = engine.selected
    <3>1. todo = <<>>
      BY <2>2 DEF SavedInv
    <3>2. \A k \in Kinds : saved'.config[k] = selector'[k]
      BY <2>1, <2>2 DEF StreamInv
    <3> QED BY <2>1, <2>2, <3>1, <3>2 DEF SavedInv
  <2>3. CASE call.at = "idle" /\ call'.at = "persist" /\ todo = <<>> /\ saved' = saved
    BY <2>1, <2>3 DEF SavedInv
  <2>4. CASE call.at = "idle" /\ call' = call /\ todo = <<>> /\ saved'.config = saved.config
    BY <2>1, <2>4 DEF SavedInv, Settled
  <2> QED BY <1>7, <2>2, <2>3, <2>4, SavingFields
<1> QED BY <1>1, <1>2, <1>3, <1>4, <1>5, <1>6, <1>7, Steps

LEMMA DevicesInvInit == DevicesInit => DevicesInv
<1> SUFFICES ASSUME DevicesInit PROVE DevicesInv
  OBVIOUS
<1>1. call.at = "start" /\ call.step = 0 /\ call.kind = "input" /\ call.refused = {}
            /\ call.why = "start"
  BY DEF DevicesInit
<1>2. saved \in SavedRecord /\ saved.file = saved.config
  <2>1. UNION { Selectors(k) : k \in Kinds } \subseteq Choices
    BY DEF Selectors, Devices, Choices
  <2> QED BY <2>1 DEF DevicesInit, SavedRecord
<1>3. EngineTypes
  BY <1>2 DEF DevicesInit, EngineTypes, EngineRecord, CallRecord, Choices, Kinds, Places, Whys
<1>4. HeldInv
  BY <1>1 DEF DevicesInit, HeldInv, Rebuilding, Created, HasStarted, Kinds
<1>5. StreamInv
  BY <1>1 DEF DevicesInit, StreamInv, Changing, Rebuilding
<1>6. SavedInv
  BY <1>1, <1>2 DEF DevicesInit, SavedInv, Settled, Saved, Changing, Rebuilding, Kinds
<1>7. NothingLeftOpen
  BY <1>1 DEF NothingLeftOpen
<1> QED BY <1>3, <1>4, <1>5, <1>6, <1>7 DEF DevicesInv

LEMMA DevicesInvHolds == DevicesSpec => []DevicesInv
<1>1. DevicesInv /\ [DevicesNext]_devicesVars => DevicesInv'
  BY TypesKept, HeldKept, StreamKept, SavedKept, NothingKept DEF DevicesInv
<1> QED BY DevicesInvInit, <1>1, PTL DEF DevicesSpec

(* Between calls AudioEngine's selection, the backend's, the open stream,    *)
(* its clock and the Config name one device, whichever steps of SetInput,    *)
(* SetOutput and their way back failed, and so does the file, whichever      *)
(* Config::Update threw: but for a saved device that was refused and not     *)
(* overwritten since, and for the file while the last Save has failed.  On   *)
(* both backends and for any number of devices.                              *)
THEOREM DevicesAgree == DevicesSpec => []SelectionConsistent
<1>1. DevicesInv => SelectionConsistent
  BY DEF DevicesInv, StreamInv, SavedInv, Settled, Changing, Rebuilding, SelectionConsistent
<1> QED BY DevicesInvHolds, <1>1, PTL

(* A Start that failed at any step and a Stop leave no stream, thread or     *)
(* connection behind (but the WASAPI events, where Stop returns early).      *)
THEOREM StopLeavesNothing == DevicesSpec => []NothingLeftOpen
<1>1. DevicesInv => NothingLeftOpen
  BY DEF DevicesInv
<1> QED BY DevicesInvHolds, <1>1, PTL
=============================================================================
