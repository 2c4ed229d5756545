---------------------------- MODULE VoiceReceive ----------------------------
(***************************************************************************)
(* Voice from the server to the mix: the network thread submits frames and  *)
(* removes talkers, the audio worker drains both rings into one jitter      *)
(* buffer per talker and pulls from it whatever a playback frame needs.     *)
(*                                                                         *)
(* The talker and the network are external: voice may be lost, reordered    *)
(* and delivered twice, but is never later than MaxDelay newer frames.  A   *)
(* talker may talk elsewhere for Gap frames, and its client id may be given *)
(* to another talker.  Samples count half playback frames.                  *)
(***************************************************************************)
EXTENDS Naturals, FiniteSets, Sequences

CONSTANTS Modulus,         (* voice ids: 2^16 in the code                      *)
          Prebuffer,       (* PrebufferFrames: 3                               *)
          MaxPending,      (* MaxPendingFrames: 32                             *)
          MaxReorder,      (* MaxReorderDistance: 64                           *)
          MaxLosses,       (* MaxConsecutiveLosses: 3                          *)
          IncomingCapacity,(* frames the incoming ring holds: 127              *)
          ResetCapacity,   (* client ids the reset ring holds: 127             *)
          FirstId,         (* external: the voice id before the first one met  *)
          Malformed,       (* external: frames the decoder throws on           *)
          MaxDelay,        (* external: how late a frame may be                *)
          Gap,             (* external: frames of a talk elsewhere             *)
          MaxSent,         (* bound: packets the first talker sends            *)
          MaxSentNew,      (* bound: packets the second talker sends           *)
          MaxCopies        (* bound: packets delivered twice                   *)

ASSUME VoiceReceiveAssumption ==
  /\ {Modulus, Prebuffer, MaxPending, MaxReorder, MaxLosses, IncomingCapacity, ResetCapacity,
      MaxDelay, Gap, MaxSent, MaxSentNew, MaxCopies} \subseteq Nat
  /\ Prebuffer < MaxPending /\ MaxPending < MaxReorder
  /\ MaxReorder + MaxDelay < Modulus \div 2 /\ Gap + MaxPending + MaxDelay < Modulus \div 2
  /\ FirstId \in 0 .. Modulus - 1
  /\ Malformed \subseteq Nat

VARIABLES
  incoming,   (* m_IncomingQueue                                               *)
  resets,     (* m_TalkerResetQueue, of the one client id modelled             *)
  drops,      (* whether m_ReceiveDrops has counted a reset                    *)
  talkers,    (* m_Talkers: at most one TalkerState                            *)
  mixer,      (* where the worker is in its loop                               *)
  idle,       (* whether the worker's last loop found no mix due               *)
  sender,     (* external: the talker and its voice id, as it counts them      *)
  arriving,   (* external: voice on its way                                    *)
  copies,     (* external: packets delivered twice so far                      *)
  clean       (* history: nothing of an earlier talker came after its removal  *)

receiveVars == <<incoming, resets, drops, talkers, mixer, idle, sender, arriving, copies, clean>>

Half == Modulus \div 2
None == Modulus
SamplesPerFrame == 2

-----------------------------------------------------------------------------
(* VoiceJitterBuffer.  who, at and last are history: whose expected is, the  *)
(* talker's own count of it, and the last frame taken out of this stream,    *)
(* which lasts from the first id expected to the next Reset.                 *)
NotYet == [who |-> 0, n |-> 0]
(* Mutant: ids are compared as if they never wrapped.                        *)
MutantNoWrap(from, to) == IF to >= from THEN to - from ELSE Modulus - 1
Distance(from, to) == (to + Modulus - from) % Modulus
Empty == [expected |-> None, end |-> None, pending |-> <<>>, losses |-> 0, started |-> FALSE,
          first |-> FALSE, who |-> 0, at |-> 0, last |-> NotYet]
MoveTo(j, f) == [j EXCEPT !.expected = f.id, !.who = f.who, !.at = f.n]
Expect(j, f) == [MoveTo(j, f) EXCEPT !.first = TRUE]

PushEnd(j, f) ==
  LET k == IF j.expected = None THEN Expect(j, f) ELSE j
  IN  IF Distance(k.expected, f.id) < Half THEN [k EXCEPT !.end = f.id] ELSE k

(* A frame from before the expected one is late, unless nothing has been     *)
(* played yet and it is an earlier start of the burst.                       *)
IsBackward(j, f) == j.expected # None /\ Distance(j.expected, f.id) >= Half
IsEarlierStart(j, f) ==
  ~j.started /\ f.start /\ Distance(f.id, j.expected) <= MaxReorder
(* Mutant: a late frame is put back in its place.                            *)
MutantKeepsLate(j, f) == FALSE
Discards(j, f) == ~f.end /\ IsBackward(j, f) /\ ~IsEarlierStart(j, f)
Place(j, f) ==
  CASE j.expected = None -> Expect(j, f)
    [] j.expected # None /\ IsBackward(j, f) -> MoveTo(j, f)
    [] j.expected # None /\ ~IsBackward(j, f) /\ Distance(j.expected, f.id) > MaxReorder ->
         Expect(Empty, f)
    [] OTHER -> j

(* More than MaxPending: the furthest frame goes.                            *)
Trim(j) ==
  LET ids      == DOMAIN j.pending
      furthest == CHOOSE i \in ids : \A k \in ids : Distance(j.expected, k) <= Distance(j.expected, i)
  IN  IF Cardinality(ids) <= MaxPending THEN j
      ELSE [j EXCEPT !.pending = [i \in ids \ {furthest} |-> j.pending[i]]]

Insert(j, f) ==
  [j EXCEPT !.pending = [i \in DOMAIN j.pending \union {f.id} |->
                           IF i \in DOMAIN j.pending THEN j.pending[i] ELSE f]]

Push(j, f) ==
  CASE f.end -> PushEnd(j, f)
    [] Discards(j, f) -> j
    [] OTHER -> Trim(Insert(Place(j, f), f))

Advance(j) == [j EXCEPT !.expected = (@ + 1) % Modulus, !.at = @ + 1]
AtEnd(j) == j.end # None /\ j.end = j.expected
IsFuture(j, id) == Distance(j.expected, id) > 0 /\ Distance(j.expected, id) < Half
HasFutureData(j) ==
  (j.end # None /\ IsFuture(j, j.end)) \/ \E id \in DOMAIN j.pending : IsFuture(j, id)

Pulled(kind, j, frames, start) == [kind |-> kind, jitter |-> j, frames |-> frames, start |-> start]
(* Mutant: a gap that is too long is waited for.                             *)
MutantWaitsForGap(j) == Pulled("Wait", j, {}, FALSE)
(* Losses: conceal one frame, with the next one for recovery if it is there; *)
(* after MaxLosses of them in a row the stream is over.                      *)
PullGap(j) ==
  LET next == (j.expected + 1) % Modulus
  IN  IF j.losses < MaxLosses
        THEN Pulled("PacketLoss", Advance([j EXCEPT !.losses = @ + 1, !.first = FALSE]),
                    { j.pending[id] : id \in {next} \cap DOMAIN j.pending }, FALSE)
        ELSE Pulled("End", Empty, {}, FALSE)

Pull(j) ==
  LET k == [j EXCEPT !.started = TRUE]
      rest == [id \in DOMAIN j.pending \ {j.expected} |-> j.pending[id]]
  IN  CASE j.expected = None -> Pulled("Wait", j, {}, FALSE)
        [] j.expected # None /\ AtEnd(j) -> Pulled("End", Empty, {}, FALSE)
        [] j.expected # None /\ ~AtEnd(j) /\ ~j.started
             /\ Cardinality(DOMAIN j.pending) < Prebuffer /\ j.end = None ->
             Pulled("Wait", j, {}, FALSE)
        [] OTHER ->
             IF k.expected \in DOMAIN k.pending
               THEN LET f == k.pending[k.expected]
                    IN  Pulled("Frame", Advance([k EXCEPT !.pending = rest, !.losses = 0, !.first = FALSE,
                                                          !.last = [who |-> f.who, n |-> f.n]]),
                               {f}, k.first)
             ELSE IF ~HasFutureData(k) THEN Pulled("Wait", k, {}, FALSE)
             ELSE PullGap(k)

-----------------------------------------------------------------------------
(* TalkerState.  ordered and refused are history: whether the frames of each *)
(* stream came in the talker's order, and whether one was refused in time.   *)
NewTalker ==
  [jitter |-> Empty, decoded |-> 0, packet |-> SamplesPerFrame, ordered |-> TRUE, refused |-> FALSE]

(* Decode throws on a malformed frame, in the normal mode and in recovery.   *)
DecodeThrows(item) == item.frames # {} /\ \E f \in item.frames : f.size = 0

Reset(t) == [t EXCEPT !.jitter = Empty, !.decoded = 0, !.packet = SamplesPerFrame]
StartStream(t) == [t EXCEPT !.decoded = 0, !.packet = SamplesPerFrame]
Played(t, last, f) ==
  [t EXCEPT !.ordered = @ /\ (last.who = f.who => f.n > last.n),
            !.decoded = @ + f.size, !.packet = f.size]

(* The inner loop of MixPlayback for one talker: pull until a playback frame *)
(* is decoded.  Every round adds a sample or is the last.                    *)
DecodeRound(round) ==
  LET t    == round.talker
      item == Pull(t.jitter)
      u    == [t EXCEPT !.jitter = item.jitter]
      v    == IF item.start THEN StartStream(u) ELSE u
      Over(x) == [talker |-> x, over |-> TRUE]
      More(x) == [talker |-> x, over |-> FALSE]
  IN  CASE round.over \/ t.decoded >= SamplesPerFrame -> Over(t)
        [] ~round.over /\ t.decoded < SamplesPerFrame ->
             CASE item.kind = "Wait" -> Over(u)
               [] item.kind = "End" ->
                    Over([u EXCEPT !.packet = SamplesPerFrame,
                                   !.decoded = IF @ = 0 THEN 0 ELSE SamplesPerFrame])
               [] item.kind \in {"Frame", "PacketLoss"} /\ DecodeThrows(item) -> Over(Reset(v))
               [] item.kind = "Frame" /\ ~DecodeThrows(item) ->
                    More(Played(v, t.jitter.last, CHOOSE f \in item.frames : TRUE))
               [] item.kind = "PacketLoss" /\ ~DecodeThrows(item) ->
                    More([v EXCEPT !.decoded = @ + v.packet])

(* As many rounds as a playback frame has samples.                           *)
DecodeTalker(t) == DecodeRound(DecodeRound([talker |-> t, over |-> FALSE])).talker

(* A whole frame goes into the mix, muted or not.                            *)
TakeFrame(t) == IF t.decoded < SamplesPerFrame THEN t ELSE [t EXCEPT !.decoded = @ - SamplesPerFrame]

(* The worker: MixPlayback as often as the device or the timer asks for it.  *)
MixPlayback ==
  /\ mixer = "mix"
  /\ talkers' = { TakeFrame(DecodeTalker(t)) : t \in talkers }
  /\ mixer' \in {"mix", "resets"}
  /\ idle' = FALSE
  /\ UNCHANGED <<incoming, resets, drops, sender, arriving, copies, clean>>

(* The device's next request or nextMix comes: bounded to one loop without.  *)
NoMixDue ==
  /\ mixer = "mix" /\ ~idle
  /\ mixer' = "resets"
  /\ idle' = TRUE
  /\ UNCHANGED <<incoming, resets, drops, talkers, sender, arriving, copies, clean>>

(* ProcessIncoming: the resets first, then the frames.                       *)
ProcessResets ==
  /\ mixer = "resets"
  /\ IF resets = 0
       THEN mixer' = "frames" /\ UNCHANGED <<resets, talkers>>
       ELSE talkers' = {} /\ resets' = resets - 1 /\ UNCHANGED mixer
  /\ UNCHANGED <<incoming, drops, idle, sender, arriving, copies, clean>>

PushTo(t, f) ==
  [t EXCEPT !.jitter = Push(@, f),
            !.refused = @ \/ (Discards(t.jitter, f) /\ f.who = t.jitter.who
                                                  /\ f.n >= t.jitter.at)]

ProcessIncoming ==
  /\ mixer = "frames"
  /\ IF incoming = <<>>
       THEN mixer' = "mix" /\ UNCHANGED <<incoming, talkers>>
       ELSE /\ LET t == IF talkers = {} THEN NewTalker ELSE CHOOSE x \in talkers : TRUE
               IN  talkers' = {PushTo(t, Head(incoming))}
            /\ incoming' = Tail(incoming)
            /\ UNCHANGED mixer
  /\ UNCHANGED <<resets, drops, idle, sender, arriving, copies, clean>>

-----------------------------------------------------------------------------
(* The network thread.  A voice packet becomes a frame (a payload without    *)
(* data is the end of a burst) and is submitted.  (A frame of a codec other  *)
(* than Opus is refused, which is as if it had been lost.)                   *)
DecodeServer(p) == [who |-> p.who, n |-> p.n, id |-> p.id, start |-> p.flagged,
                    end |-> p.payload = "none", size |-> p.size]
SubmitIncoming(p) ==
  incoming' = IF Len(incoming) < IncomingCapacity
                THEN Append(incoming, DecodeServer(p)) ELSE incoming

HandleVoice(p) ==
  /\ p \in arriving
  /\ SubmitIncoming(p)
  /\ \/ arriving' = arriving \ {p} /\ UNCHANGED copies
     \/ copies < MaxCopies /\ copies' = copies + 1 /\ UNCHANGED arriving
  /\ clean' = (clean /\ (p.who = sender.who \/ incoming' = incoming))
  /\ UNCHANGED <<resets, drops, talkers, mixer, idle, sender>>

(* RemoveTalker, when the client has left or its id has a new owner.         *)
(* Mutant: the worker is not told.                                           *)
MutantNoReset == UNCHANGED <<resets, drops>>
RemoveTalker ==
  IF resets < ResetCapacity THEN resets' = resets + 1 /\ UNCHANGED drops
                            ELSE drops' = TRUE /\ UNCHANGED resets

-----------------------------------------------------------------------------
(* The talkers: the first is met in the middle of its voice ids, the second  *)
(* is new.  Bursts of frames, the first of each flagged as its start; the    *)
(* next voice id each time, and once Gap ids are spent elsewhere.            *)
VoiceId(who, n) == ((IF who = 1 THEN FirstId ELSE 0) + n) % Modulus
Voice(payload, size, flagged) ==
  [who |-> sender.who, n |-> sender.n, id |-> VoiceId(sender.who, sender.n), payload |-> payload,
   size |-> size, flagged |-> flagged]
Sends(p, talking) ==
  /\ sender.left > 0
  /\ sender' = [sender EXCEPT !.n = @ + 1, !.talking = talking, !.left = @ - 1]
  /\ arriving' = { q \in arriving : IF q.who = p.who THEN q.n + MaxDelay >= p.n
                                                    ELSE MaxDelay >= p.n } \union {p}
  /\ UNCHANGED <<incoming, resets, drops, talkers, mixer, idle, copies, clean>>
SizeOf(who, n) == IF n \in Malformed THEN 0 ELSE IF who = 1 THEN SamplesPerFrame ELSE 1
Talk == Sends(Voice("voice", SizeOf(sender.who, sender.n), ~sender.talking), TRUE)
EndTalk == sender.talking /\ Sends(Voice("none", 1, FALSE), FALSE)
TalkElsewhere ==
  /\ sender.who = 1 /\ sender.n \in 2 .. Gap
  /\ sender' = [sender EXCEPT !.n = @ + Gap, !.talking = FALSE]
  /\ UNCHANGED <<incoming, resets, drops, talkers, mixer, idle, arriving, copies, clean>>
Leave ==
  /\ sender.who = 1
  /\ sender' = [who |-> 2, n |-> 1, talking |-> FALSE, left |-> MaxSentNew]
  /\ RemoveTalker
  /\ clean' = (incoming = <<>>)
  /\ UNCHANGED <<incoming, talkers, mixer, idle, arriving, copies>>

ReceiveInit ==
  /\ incoming = <<>>
  /\ resets = 0
  /\ drops = FALSE
  /\ talkers = {}
  /\ mixer = "resets"
  /\ idle = FALSE
  /\ sender = [who |-> 1, n |-> 1, talking |-> FALSE, left |-> MaxSent]
  /\ arriving = {}
  /\ copies = 0
  /\ clean = TRUE

WorkerNext == NoMixDue \/ ProcessResets \/ ProcessIncoming \/ MixPlayback
Receive == \E p \in arriving : HandleVoice(p)
ReceiveNext == WorkerNext \/ Receive \/ Talk \/ EndTalk \/ TalkElsewhere \/ Leave

(* The worker goes round its loop for ever: it never stays in one part of    *)
(* it.  Nothing is assumed of the network and the talker.                    *)
WorkerMovesOn == mixer' \in {"mix", "resets", "frames"} \ {mixer}
ReceiveSpec == ReceiveInit /\ [][ReceiveNext]_receiveVars /\ WF_mixer(WorkerMovesOn)

-----------------------------------------------------------------------------
(* What is played of a stream comes in the order it was spoken, each frame   *)
(* once, across the wrap of the voice ids: nothing the network reorders or   *)
(* repeats is heard out of place.                                            *)
StreamInOrder == \A t \in talkers : t.ordered

(* The jitter buffer refuses a frame only when its place has passed: no      *)
(* reordering, gap or wrap makes it take new voice for old and mute the      *)
(* talker.  Nothing waits in it behind the expected frame.                   *)
OnlyLateIsRefused ==
  \A t \in talkers :
    /\ ~t.refused
    /\ \A id \in DOMAIN t.jitter.pending : Distance(t.jitter.expected, id) < Half

(* After RemoveTalker the next owner of the client id starts fresh: unless   *)
(* the reset was dropped or voice of the old owner was still queued or came  *)
(* late, no jitter state of the old owner refuses the new one's frames.      *)
NewOwnerStartsFresh ==
  (clean /\ ~drops /\ resets = 0) =>
    \A t \in talkers : t.jitter.expected # None => t.jitter.who = sender.who

(* A talker that has been started is played out: what is pending is heard,   *)
(* concealed or given up with its stream, and nothing is held back for ever. *)
Playing(t) == t.jitter.started /\ t.jitter.pending # <<>>
PlaysOut == (\E t \in talkers : Playing(t)) ~> (\A t \in talkers : ~Playing(t))

=============================================================================
