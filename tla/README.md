# A TLA+ development for ts-cli

ts-cli is a TeamSpeak 3 client in C++: a protocol library, an audio engine, a
terminal client and a GTK client. This directory holds TLA+ specifications of
its core, the TLC configurations that check them on small instances, and
theorems checked by TLAPS that hold for every value of the constants.

The specifications are translated from the C++ code. Documentation and comments
are used for the statements a property makes about that code; where the two
disagree, section 6 says how. Comments in the modules name the code by its own
names; `PROJECT.json` maps each definition to source lines.

## 1. The system

### Components, their state and their operations

| Component | Source | State | Operations | Specification |
|---|---|---|---|---|
| Packet numbering | `protocol/src/packet/sequence.cpp` | packet id (16 bit, on the wire), generation (32 bit, never sent) per stream | `Advance`, `ResolveGeneration`, `SequenceKey` | `Sequence` |
| Reliable receiving | `protocol/src/reliability/command_receive_window.cpp`, `session_transport.cpp` | expected sequence, packets queued ahead of it, the command being assembled, ready commands | `ProcessIncomingCommand`, `SendAck`, `Feed`, `ProcessOrdered` | `CommandReceiveWindow`, `CommandChannel` |
| Reliable sending and keepalive | `protocol/src/reliability/reliable_command_queue.cpp`, `session_transport.cpp` | pending commands with their retry timers, the pending Ping, time of the last packet | `SendCommand`, `HandleAck`, `ProcessTimers`, `HandlePong`, `TimedOut`, `ConfirmCommand` | `ReliableSend` |
| Handshake and login | `protocol/src/handshake/*`, `protocol/src/connection.cpp`, `net/src/endpoint_resolution.cpp` | attempt, secrets, bootstrap sequences, fragments, commands kept for later | `ResolveEndpoint`, `Handshake::Run`, `BootstrapTransport`, `License::Parse`, `Session::Login`, `Disconnect` | `Connect` |
| Session and mirrored state | `protocol/src/session/session.cpp`, `protocol/src/state/*`, `protocol/src/message/*` | channels as chains of predecessors, clients (some partial), current channel, events | `ProcessCommand`, the parsers, both stores, `ReplyTargetFor`, the user's requests | `Session`, `ChannelStore`, `ClientStore`, `Messages` |
| Talker settings | `client/src/runtime/network_runtime.cpp`, `config/src/user_config.cpp` | volume and mute per identity, applied per client id | `SyncTalkerSettings`, `/user` | `Session` |
| Microphone to server | `audio/src/audio_engine.cpp`, `client/src/runtime/network_runtime.cpp` | transmit state with a revision, capture ring, outgoing ring, gate, published audio state | `SetTransmitEnabled`, `OnCapturedSamples`, `ProcessCapture`, `ProcessAudio` | `VoiceTransmit` |
| Voice receiving | `audio/src/voice_jitter_buffer.cpp`, `audio_engine.cpp` | frames by 16 bit voice id, the next id to play, losses in a row, a ring of frames and one of resets | `HandleVoice`, `RemoveTalker`, `Push`, `Pull`, `MixPlayback` | `VoiceReceive` |
| Lock-free ring, playback | `audio/include/audio/spsc_ring.hpp`, `audio_engine.cpp` | slots, read and write index, the frame being played | `TryEmplace`, `TryPop`, `RenderPlayback`, the worker's top-up | `PlaybackRing`, `BoundedQueue` |
| Audio devices | `audio/src/posix/pipewire_backend.cpp`, `audio/src/win32/wasapi_backend.cpp` | selection, streams, clocks, threads, device registry | `Start`, `Stop`, `SetInput`, `SetOutput`, hotplug | `AudioDevices` |
| Terminal runtime | `client/src/main.cpp`, `client/src/runtime/*`, `protocol/src/connection.cpp` | action queue, event queue, stop token, wakeup descriptor | the main loop, `Connection::Run`, `DisconnectGracefully`, `RequestStop`, `Join` | `ClientRuntime` |
| GTK client | `client-gtk/src/*` | connector thread, runtime, event queue, conversations, channel tree, microphone test | `Session`, `MainWindow::Tick`, `EndSession`, `Shutdown`, `ChannelTree::Update` | `GtkClient` |
| Configuration, identities | `config/src/*`, `client-gtk/src/identity_page.cpp` | files, temporary files, each process's copy | `WriteSecureFile`, the setup, `Config::Update`, the search for a security level | `Storage` |
| Statistics, presentation, text syntax, cryptography, codecs, logging | see `PROJECT.json` | | | not modelled, see section 7 |

### How they interact

`Connect` resolves the endpoint and runs the handshake and the login in the
calling thread (in the GTK client a thread of its own). Then the *network
thread* of `NetworkRuntime` runs `Connection::Run`: dispatch session events to
the event queue, ask whether the session has ended, run the cycle handler
(`ProcessActions`, `ProcessAudio`), poll the socket for at most 50 ms. Inside
the poll `SessionTransport` decrypts packets, acknowledges and orders command
packets, matches Acks and Pongs, collects voice and runs its timers; complete
commands go to `Session`, which updates the stores and emits events. The *main
thread* (of the GTK client: a tick every 50 ms) shows events, reads input and
pushes actions. Around `AudioEngine` there are the devices' callbacks (fill the
capture ring, empty the playback ring), the *audio worker* (gates and encodes;
orders, decodes and mixes) and the network thread, which publishes the audio
state with a reliable command, sends and submits voice. Devices are changed
from the user interface's thread; under WASAPI that work is done by a control
thread and the streams' threads. All clients of a user share the files of one
directory. UDP lies under the protocol.

### What is hard here

* The generation of a packet is guessed from its 16-bit id, and a wrong guess is
  an authentication failure that ends the session.
* Packets are acknowledged *before* they are put into the receive window.
* An Ack names an id without a generation, the first Ack is not read at all, and
  the id of a pending command may be used again.
* Retry delays, the overall command timeout, the Ping cadence and the receive
  timeout run against each other on one clock.
* The handshake starts over on a Reset with packets of the earlier attempt still
  on their way, and hands its counters over to the session's transport.
* The mirror is built from differences: an order of messages nobody thought of
  leaves a chain broken or a client that nobody removes.
* Client ids and voice ids are used again, by other users and after a wrap.
* Three threads look at the transmit state at different moments; frames are
  tagged with a revision so that speech of a muted period is not sent.
* A send, a device change or a save may fail between two changes of state.
* Both queues of a runtime are closed by one thread while the other uses them,
  and `Join` has no timeout.
* Users cancel, close and quit while a thread is in the middle of connecting.

The complete list, with source lines and the properties that watch each item, is
`hazards` in `PROJECT.json`.

### What makes each component correct

* *Numbering*: the generation found is the one the packet was sent in.
* *Receiving*: commands come out whole, in order, once; nothing acknowledged is
  lost; a server within its window never ends the session; every command
  arrives in the end.
* *Sending*: a command handed to `SendCommand` is at the server or will be sent
  again, two mistakes of numbering apart (section 6); an Ack retires the packet it
  answers; retries, expiry and probes happen in time; round trips are real ones.
* *Connecting*: fails closed, loses no command on the way into the session, ends.
* *Session*: the mirror is the server's picture, the events add up to it, a
  malformed command changes nothing, voice has its user's settings.
* *Voice*: the server hears only what it has been told it will hear; bursts are
  closed; the published state becomes the actual one. What is heard comes in
  order and is not withheld, and a new talker is not muted by an old one.
* *Playback and devices*: the ring is a queue, the device finds what it needs,
  selection, stream and configuration agree, nothing is left open.
* *Files*: whole after any crash; an identity is replaced only where its owner
  asked for it or a client acts on what it read before another one saved.
* *Runtimes*: events and actions in order, none lost or doubled; a session does
  not end in silence and leaves nothing behind; the programs terminate.

## 2. Modules

```
Sequence ---- SequenceProofs
   |                |
   +-- CommandReceiveWindow ---- CommandReceiveWindowProofs
   |        |  (refines) CommandChannel
   +-- ReliableSend ---- ReliableSendProofs
Messages -- ChannelStore -- ClientStore -- Session
Connect ---- ConnectProofs
VoiceTransmit --+-- VoiceProofs
VoiceReceive  --+
PlaybackRing  --+-- AudioProofs         (PlaybackRing refines BoundedQueue)
AudioDevices  --+
ClientRuntime --+-- ClientProofs
GtkClient     --+
Storage ---- StorageProofs
```

`Session` composes the parsers, both stores, the session and the runtime that
follows it, and takes from `CommandChannel` that commands arrive whole and in
order. `Connect` composes the resolver, the handshake, the bootstrap's and the
session's transport and the login; from its end on the other modules apply.
`VoiceTransmit` and `VoiceReceive` use rings as the bounded queues that
`PlaybackRing` shows them to be.

`VoiceProofs`, `AudioProofs` and `ClientProofs` each extend two modules that share
nothing. The second one of each therefore has names of its own for what every
specification has: `ReceiveSpec` of `VoiceReceive`, `DevicesSpec` of `AudioDevices`
and `GtkSpec` of `GtkClient`.

A definition called `Mutant...` is a wrong variant of the definition below it, a
mistake the code could have contained. No specification uses one; replacing the
definition by it makes the property listed with it in `PROJECT.json` fail, which
shows that the property is sensitive to that piece of the code.

### Sequence

Packet ids have `SequenceSize` values and generations go up to `MaxGeneration`,
so that both wraps are within reach. A *key* is the position in the stream, the
number the code computes as `generation << 16 | id`. `Advance` and
`ResolveGeneration` follow the code branch by branch; where the code throws the
operator returns `NoGeneration`.

### CommandReceiveWindow and CommandChannel

One action, `ProcessIncomingCommand(k)`, is the whole handler: resolve the
generation, decrypt (which works only under the generation the packet was
encrypted in), `SendAck`, and `Feed` with its three cases. `FeedExpected`
contains the drain loop: it goes on to `FirstGap`, the first key that is not
queued, and folds `ProcessOrdered` over that run. `processed` is a history
variable of the packets that went into `ProcessOrdered`. An exception ends the
session, as it does in `Connection::Run`, so an action that throws only sets
`status`; what Feed has changed before it throws is of no consequence then.

The server and the network are external. The server cuts commands into packets
as the receiver expects them (the Fragmented flag on the first and the last, the
Compressed flag on the first) and keeps its unacknowledged packets within
`ServerWindow`. `ServerWindow <= MaxQueuedPackets + 1` is the assumption the
code makes of the server when it treats anything further ahead as an error. Any
sent packet may arrive at any time, any number of times, or never, unless it is
more than `MaxPacketAge` positions behind; that age is below half a cycle of
ids, as no numbering of 16 bits survives older duplicates.

`CommandChannel` is what `Session` is promised: a sequence of commands of which
a growing prefix has been delivered. The window implements it, with `commands`
and `ready` as they are.

### ReliableSend

The Command stream towards the server with `ReliableCommandQueue`, the Ack
stream back, Pings and Pongs, and as much of `Session::Login` as numbers the
first packets: `clientek` was packet 1 and its Ack number 0, so `clientinit` is
packet 2 and its Ack is the first one the session sees. `SendCommand` may take
several packets (`MaxInitFragments`) and throws when the queue is full or an id
is still pending. `SendFails` is a failure of `Transport::Send` under
`SetAudioState`, which `ProcessAudio` catches; under every other caller the
failure ends the session (`TransportError`).

Time is a counter. One thread runs the connection: it works for at most `MaxWork`
units, then `Poll` lets `ProcessTimers` run and waits. The wait ends with a datagram,
with `Wake` or whatever else makes `WaitReadable` return (`WaitEnds`), and at the
latest at `until`: the earlier of the longest wait (`PollWait`; during the login
`ReceiveWait`) and `NextDeadline` of the commands pending then. Time passes while the
thread works and while it waits, so that a deadline computed too late, or not for
every command, is a timer that runs too late. The server keeps the first packet it
receives with a key, and answers every one. A packet stays deliverable for as long
as its id is not used again. The history `failed` has the commands whose `Send` threw.

### VoiceTransmit

One action per step another thread can observe: the user's changes, a captured
frame, the start of `ProcessCapture` (`WorkerSync`), a round of its loop, the
start of `ProcessAudio` (`NetworkBegin`), a round of its loop, and the failures
of codec, worker and socket. Frames are reduced to whether they are over the
gate's threshold, packets to revision, talk start and talk end. The rings are
queues of capacity - 1.

`command` is the next Command packet id, which a `Send` that throws does not use up.
The audio state announced under it then is *queued*: `Add` throws for the next one,
until a retransmission has reached the server (*taken*) and its Ack has come back
(*used*). The id is free to `Add` then, but whatever is sent under it is a duplicate
to the server: another command of the session, or the next audio state, which
`ProcessAudio` takes for announced (`dropped`).

### ClientRuntime

The main loop of `main.cpp` and `Connection::Run` with the handlers of
`NetworkRuntime`, statement by statement where the other thread could notice:
each queue operation, the test of the stop token, the drain of the wakeup, the
two `Close` calls. A packet is reduced to what it does to the loop (an event, the
removal of the client, the Ack of `clientdisconnect`), a handler to whether it
throws.

### Messages, ChannelStore, ClientStore and Session

A command of the server is a name and rows of named values. `Messages` says what
each parser of `protocol/message` requires and yields; a parser reads all rows
before anything is applied. `ChannelStore` keeps channels as the code does, by
parent and predecessor, with `Move`, `Remove`, the edits, the depth-first `Tree`
and the conditions under which it throws. `ClientStore` has the partial clients
that moves and updates create. `Session.ProcessCommand` is the whole function:
events and stores, in the code's order, and the requests it sends. One action
receives a command, others dispatch an event or run a cycle, each after
`SyncTalkerSettings` as in `NetworkRuntime::Run`. `roster` adds the presence
events up, `played` compares the settings of a voice packet with its sender's.

The server is external. It keeps channels as sequences of children, gives a free
client id to the next user who comes, sends every change as the commands the
client understands, and shows the clients of subscribed channels only. It may
also send commands that do not parse, and moves that `ChannelStore` refuses.

### Connect

One step per datagram that a blocking call of `Connect` takes, with everything
the code does until the next one: the Init1 exchange with its restarts, the
fragments and acknowledgements of `BootstrapTransport`, the checks of
`initivexpand2` and of the license's blocks, the derivation of the key, and the
login with the commands that come before `initserver`. Keys are the tuples of
the secrets they are made of, so that a mixture of two attempts is a different
key. The network loses, reorders and repeats; one socket serves all attempts.
`Disconnect` and the end of a connection that was refused are included.

A wait of the handshake ends by the socket's timeout only if no datagram comes in
the meantime, whatever the datagram is worth: each receive waits anew (`waited`,
`ReceiveWaits`, `ReceiveTimesOut`). The server may send fragments again.

### VoiceReceive

The network thread puts frames and resets of one client id into two rings; the
worker drains the resets, then the frames, then mixes. `Push` and `Pull` of the
jitter buffer are taken branch by branch, with voice ids modulo `Modulus`. The
talker counts its frames without wrap, which is what the properties compare with.
A talker may be heard elsewhere for a while (`Gap` ids pass unseen), and another
one may get its client id. No frame is later than `MaxDelay` newer ones. A *stream*
lasts from the first id the buffer expects to its next `Reset`; the history `last`
is the frame it gave out last. The code's own mark, `streamStart`, cannot serve for
this: it is not reported when the first item of a stream is a concealed loss
(section 6).

### PlaybackRing and BoundedQueue

`SpscRing` between `RenderPlayback` on the device's thread and the worker, one
load or store of an index at a time, under the acquire and release orders the code
uses. `promise` remembers what the worker topped the queue up for. The ring
implements `BoundedQueue` with the slots between the indices as its queue; a frame
counts as taken once it is copied, before `m_Read` moves.

### AudioDevices

The engine, a backend (either one) and its threads. `Start` creates its pieces in
order and may fail at each; a change of a device stores the selection, rebuilds
the stream and has a way back, which may fail too. Once a change has succeeded the
command's handler stores it (`Persist`): the `Config` has the new device, and saving
the file may fail. Changes of other settings save the file as well. `UpdateClock`, the
playback callback, the registry's callbacks and unplugged devices run in between
wherever the thread loop's lock or the control thread's queue admit them.

### Storage

`WriteSecureFile` of either system as create, write, synchronise, install, with a
failure at any step and what the code does about it, under the operations that
save: the setup, updates of the configuration, settings of a user, an export, the
replacement of the identity and the search for a higher security level. Any number
of clients run beside each other, terminal and GTK ones. A process may be killed
between any two steps. A power loss tears what is not synchronised and may undo the
last rename. On Windows all clients that save one file have the same temporary file:
`by` says who wrote it, and the history `crossed` which files were installed by one
client and written by another. The history `overtaken` has the clients that still go
by an identity, or by there being none, when another client has saved one.

### GtkClient

The UI thread (ticks, handlers, `EndSession`, `on_hide` and `Shutdown`), the
connector thread, the network thread of the runtime, and the audio worker as a
user of `NetworkWake`. An attempt may wait for a command of the server without a
bound (`ConnectWaits`). Events are a snapshot, talking clients or a line of a
conversation; the tree's rows are what `ChannelTree::Update` makes of the last
snapshot and the unread counts. The microphone and its test are included because
ending a test turns transmission on again.

## 3. Runs

| Run | Specification | What it shows | States |
|---|---|---|---|
| `window` | `CommandReceiveWindow`, `FairSpec` | safety, refinement of `CommandChannel` and progress across the wrap of ids | 45 000 |
| `send_wrap` | `ReliableSend`, `Spec` | ids and generations of commands and Acks over the wrap, with failing sends and a `clientinit` of two packets | 860 000 |
| `send_timers` | `ReliableSend`, `Spec` | retries, expiry, Pings, round trips and waits, with failing sends | 3 970 000 |
| `voice_transmit` | `VoiceTransmit`, `FairSpec` | three threads with failures of socket and worker | 715 000 |
| `runtime_queues` | `ClientRuntime`, `FairSpec` | two threads, both queues, exceptions, termination | 166 000 |
| `mirror` | `Session`, `Spec` | the mirror against a server that changes, with ids used again and bad commands | 440 000 |
| `connect` | `Connect`, `Spec` | connecting over a faulty network, with Resets and two attempts | 977 000 |
| `voice_receive` | `VoiceReceive`, `ReceiveSpec` | the jitter buffer over the wrap of voice ids, with changing owners of an id | 458 000 |
| `playback` | `PlaybackRing`, `Spec` | the lock-free ring, refinement of `BoundedQueue` | 62 000 |
| `devices` | `AudioDevices`, `DevicesSpec` | both backends with failing steps, saves, hotplug and callbacks | 5 020 000 |
| `storage` | `Storage`, `Spec` | two clients at once on both systems, failures, kills, power loss | 4 420 000 |
| `gtk` | `GtkClient`, `GtkSpec` | four threads, cancelling and closing at any moment | 730 000 |

### Properties

*window.* `QueueInWindow`: what waits is ahead of the expected packet and within
the window. `InOrderExactlyOnce`: what was processed is what the server sent,
position by position. `AckedIsHeld`: an acknowledged packet has been processed or
waits in the queue; the code acknowledges first, so this rests on `Feed` never
refusing a packet a conforming server can send. `NoWindowFailure`: none of the
exceptions about numbering or the window occurs. `ImplementsChannel`: the
refinement. `EventuallyReady`: all commands arrive.

*send_wrap.* `RetiredIsReceived`: a command whose `SendCommand` returned is pending
or at the server while the session lasts. Two ways remain for one to disappear, and
the property names them: an earlier command whose `Send` threw has taken its number to
the server (`NumberTaken`), or it is the first packet of a fragmented `clientinit` and
the first Ack was that of another one (`FirstAckMistaken`; both in section 6).
`PendingIdsDistinct`: an Ack cannot match two pending packets.
`AckGenerationsResolve`: the generation of an Ack is always found.

*send_timers.* `RetriesInTime`: a retry and the expiry of a command are never later
than the work in progress when they became due, because no wait is longer than
`NextDeadline` allows.
`SilenceIsProbed`: while the server is silent something it must answer has been
sent to it within `LongestSilence`, the slower of the two cadences with the wait and
the work around it, although Pings are withheld while commands are pending and a Ping
is retired by unrelated traffic.
`RttIsRoundTrip`: the round trip recorded is the time since the transmission
that was answered, as long as no send has failed (section 6).

*voice_transmit.* `VoiceMatchesPublished`: speech on the wire belongs to the
talking period the server was last told of, and once it has been told of a
period nothing of an earlier one is sent, talk ends included, so an old talk end
cannot close a new burst. While an announcement whose `Send` threw is queued nothing
is spoken; the one exception is speech after the server has dropped an announcement as
a duplicate (section 6). `SilenceClosesBurst`: a burst that ends in silence is
closed on the wire, unless a full ring dropped its end. `PublishedIsCurrent`: the
server's knowledge of microphone, speakers and hardware becomes right, if no send
fails.

*runtime_queues.* `NothingIsLost`: nothing is lost, doubled or overtaken in either
queue, and the session ends without a `DisconnectedEvent` only when the user
asked. `LeavingEnds`: the program terminates. `ActionsAreExecuted`: an accepted
action is executed unless the session ends first.

*mirror.* `MirrorIsServer`: with nothing on the way, every chain of channels
orders them as the server does, `Tree` does not throw, our channel and its codec
are right, and exactly the visible clients are there, introduced and in their
place. `PresenceIsTrue`: the joined and left events add up to who is in our
channel. `RepliesReachSender`: the target of a reply is where the message came
from. `VoiceHasItsUsersSettings`: voice is played with the settings of the user
who has the client id now. `FailedCommandChangesNothing`: a command that throws
has changed, announced and requested nothing.

*connect.* `SecureSession`: an established connection has a key the server has
too, a proved offer, and a license in which no block outlives those above it and
the last two are a server and an ephemeral one. `HandoverContinues`: the counters
the session's transport takes over are the server's. `CommandsInOrder`: what the
login gives to `ProcessCommand` is what the server sent, in order. `ConnectEnds`:
connecting comes to an end, with two exceptions that are the server's to make: it
never answers the login (`AwaitsServer`), or it sends a fragment that is there already
again and again while another one is missing (`HeldFragmentArrives`; section 6).

*voice_receive.* `StreamInOrder`: a stream is played in the order it was spoken,
each frame once. `OnlyLateIsRefused`: the buffer refuses a frame only when its
place has passed. `NewOwnerStartsFresh`: after `RemoveTalker` nothing of the old
owner's buffer is left for the new one, unless the reset ring was full or voice of
the old owner came late. `PlaysOut`: a talker that was started is played out.

*playback.* `RingIsQueue`: the refinement. `PromiseKept`: a queue topped up after a
request answers the next one in full, even if it is a frame larger.

*devices.* `SelectionConsistent`: between calls, engine, backend, stream and clock
name the same device; so does the `Config`, but for a saved device that could not be
opened and has not been overwritten since; and the file has what the `Config` has,
unless the last attempt to save it failed. `NothingLeftOpen`: a failed start and a
stop leave nothing open (but the WASAPI events of section 6).

*storage.* `NextStartWorks`: every file is absent or whole, and a configuration
implies an identity, whoever saves at the same time; on Windows not a file that one
client installed and another wrote. `IdentityIsKept`: an identity on disk is replaced
only on confirmation or by the same key at a higher level, with one exception on every
system, a client that acts on what it read before another one saved, and one on
Windows, the crossed files (section 6).

*gtk.* `GoneLeavesNothing`: after a session, `NetworkWake` points to no destroyed
connection, every published event was shown, a connection that was cancelled or
ended has left the server, also when it succeeded as it was cancelled and when the
window is only hidden by then, and the microphone is muted. Exceptions: the window was
closed after the connector had last looked for a cancellation and before a tick saw
it succeed; and the microphone is not muted if the session that just ended was in a
microphone test. `TreeIsCurrent`: between ticks the tree shows what is known or is
marked to be rebuilt. `LeavingTakesEffect`: cancelling, disconnecting and closing come
to their end, unless an attempt waits for a command of the server for ever.

### Bounds

* `window`: 6 ids and 6 packets, so that ids wrap within the stream, with two
  generations used; a window of 2, so that it is reached and one further packet
  would be refused; a maximum of 2 fragments per command with commands of up to
  3, so that both a maximal and an oversized command occur.
* `send_wrap`: 4 ids, 6 packets and 4 Acks: the ids of both streams wrap, while
  commands of the cycle before are pending. 3 pending commands, so `Add` throws for
  a full queue and for an id still pending. `clientinit` takes up to two packets,
  and any later send may fail. One unit of time, one retransmission: no property of
  this run depends on more.
* `send_timers`: 7 units of time with a command timeout of 4, a receive timeout of 6
  and a delay that doubles from 1 to 2: three transmissions, then expiry. Work of one
  unit and waits of one (two during the login) put a deadline in every place of a wait
  and of the work after it. Two commands and two Acks give retransmissions whose Acks
  cross. That an id is used again, after a failed send or a cycle of ids, takes more
  packets: `send_wrap` has those, and the theorems about the timers hold for any number.
* `voice_transmit`: 4 revisions are two complete mute/unmute pairs, 2 frames a burst
  and its end, without a hangover; one change of the monitor or of the speakers, one
  failed send and one failure of the worker, at any moment; the rings hold one and
  two entries and overflow.
* `runtime_queues`: two actions, two packets and two polls of goodbye give each
  order of the two threads' steps at every place where they meet.
* `mirror`: three channels are enough for every shape of a chain (first, middle,
  last, and a child below each); three operations suffice to break and to notice:
  create, move, delete. One other client id, taken by two users in turn, and two
  names that differ in case.
* `connect`: two attempts and two Resets, so that the last attempt is reset too; an
  offer of up to three fragments, one datagram delivered twice, any lost, one fragment
  sent again.
* `voice_receive`: 32 voice ids starting at 29, so that they wrap at the third
  frame; the limits keep the code's order (prebuffer < pending < reorder distance
  < half a cycle). Four packets of a first talker and one of the next, one copy,
  one malformed frame.
* `playback`: a ring of 4 with requests of half a frame to two and a half frames,
  five of them: indices wrap, the ring is full and empty.
* `devices`: one input, two outputs, two changes by the user beside the saved ones,
  two unplugged or plugged devices.
* `storage`: a terminal and a GTK client at once, two identities, one save that the
  users ask for beside the setups and searches, and one fault.
* `gtk`: two sessions, so that one meets what the last left; two events, one
  action; a snapshot with a client that may leave.

`CHECK_DEADLOCK FALSE` is set, except for `devices` and `gtk`, because these systems
do stop: a session that ended takes no more steps, a program that has been joined
neither, and the bounds end the streams and the clock. In `devices` and `gtk` only
the end of the program is a place to stop, so that TLC finds any other. Whether a
thread waits for ever is asked by `LeavingEnds`, and whether a stream stalls by
`EventuallyReady`.

No symmetry is used: ids, keys, revisions and actions are ordered numbers.

### Fairness

* `window`: strong fairness of the delivery of the oldest packet without an
  acknowledgement, and of the receipt of that packet's acknowledgement by the
  server. The server retransmits it until it is acknowledged, and UDP is assumed
  to deliver something that is sent over and over. The acknowledgement is lost
  infinitely often if the network likes; nothing is assumed of any other packet.
* `voice_transmit`: weak fairness of the network thread, a loop with waits of 50 ms.
  None of the worker, the user, the device, an Ack or a failure.
* `runtime_queues`: weak fairness of both threads; every wait in them except
  `Join` has a timeout. No fairness of input, signals or packets: the goodbye
  ends by its timeout.
* `connect`: weak fairness of the resolver (its lookup has a budget), of the expiry of
  a command, of taking a command that is ready, and of the socket's timeout: a receive
  that begins is either ended by a datagram or times out, and a datagram starts the
  timeout anew. The server and the network promise nothing.
* `voice_receive`: the worker goes round its loop. Nothing of talker and network.
* `gtk`: weak fairness of the connector, but not while it waits for a command of the
  server, which has no timeout; of a network thread that was asked to stop or has
  ended (its goodbye has a timeout) and of ticks; strong fairness of the idle
  callback that ends the application, which GLib runs although ticks come in
  between.
* `mirror`, `playback`, `devices` and `storage` have safety properties only, and
  state no fairness.

## 4. Proofs

`SequenceProofs` (assuming `SequenceAssumption`: an even number of ids, at least
four, any number of generations):

* `AdvanceIsSuccessor`: `Advance` increments the key unless it throws, hence no
  pair of id and generation comes twice. This also justifies that the other
  modules write `SequenceOf(key)` for the result of several `Advance` calls.
* `ResolveGenerationCorrect`: for an expected packet and a packet less than half
  a cycle of ids away, in either direction, `ResolveGeneration` returns the
  generation the packet was sent in. The argument compares the two keys'
  quotients: they differ by at most one, and the forward distance of the ids
  tells which case it is.

`CommandReceiveWindowProofs` (assuming also `WindowAssumption`, the server's
window and the age of packets described above), for every width of ids, window
and stream:

* `WindowSafety`: `Spec => []WindowInv`, and from it `WindowQueueBounded`,
  `WindowInOrder`, `WindowAckedHeld`, `WindowNeverFails`, which state
  `QueueInWindow`, `InOrderExactlyOnce`, `AckedIsHeld` and `NoWindowFailure`.

None of the four is inductive by itself. The distance of an arriving packet is
bounded because the server's oldest unacknowledged packet is not ahead of the
expected one, and that is so only because everything acknowledged is held
(`AckedIsHeld`). Everything acknowledged is held only because `Feed` does not
throw (`NoWindowFailure`), which needs that distance bound
(`ArrivingPacket`), `ResolveGenerationCorrect`, and room in the queue
(`QueueHasRoom`, a count of the keys in the window from `QueueInWindow`).
`FirstGapExists` gives the drain loop its end, and `InOrderExactlyOnce` follows
the run it moves. `WindowInv` is their conjunction with the types; the proof
that a step preserves it has one step per action and, for `Feed`, one lemma per
case.

`ReliableSendProofs` (assuming `SendAssumption`: fewer pending commands than ids,
a session within the range of generations), for every width of ids, queue, timing
and session length:

* `AckMatchesOnePacket`: `Spec => []PendingIdsDistinct`, from the inductive
  invariant `MatchInv`. `Add` refuses an id that is pending, and a command has
  fewer packets than there are ids, so ids stay distinct even when a failed send
  leaves a packet queued under an id that is not used up. `AckGenerationFound`
  (`AckGenerationsResolve`) comes with it.
* `NothingSubmittedIsLost`: `Spec => []RetiredIsReceived`, for any fragmentation of
  `clientinit` and any sends that fail. The inductive invariant `DeliveryInv` adds two
  parts. `QueueInv`: every numbered packet is pending, at the server, or the one a
  mistaken first Ack retired; whatever the server or the network has under a key was
  given that key by a command that was sent or by one whose `Send` threw; and a pending
  packet's id is not used again (`OutgoingKey <= k + SequenceSize`), which makes an
  Ack's bare id mean the packet the server has (`AcknowledgeKeepsQueue`). `LoginInv`:
  nothing but `clientinit` is sent before the server has answered it, so the first
  Ack, which is never read, answers a packet of it.
* `CommandsAreRetried`: `Spec => []RetriesInTime`, from `TimeInv`: `MatchInv`, the
  clock being neither behind anything noted nor ahead of the wait (`ClockInv`), and
  `RetryInv`: the end of a wait is not after any retry or expiry, and the end of the
  work that follows not more than `MaxWork` after it. What `NextDeadline` returns, and
  that a command added or a delay doubled after it keeps the bound, are steps of this
  proof; the property is what is left of it at each moment.
* `SilenceIsAlwaysProbed`: `Spec => []SilenceIsProbed`, under `MaxWork <= PingInterval`:
  what the thread does between two waits takes less than a second. `SilenceInv` tells
  an idle connection, whose wait and work end soon after the Ping interval, from a busy
  one, some command of which is sent again within `LongestSilence` of the last question
  or answer. `AnsweredInv`: a Ping that other traffic has answered does not outlast the
  work in progress, which is where the condition is needed.
* `RttIsMeasured`: `Spec => []RttIsRoundTrip`, from `TripInv`. `NumberedInv`: while
  no send has failed, every packet and Ack in flight for a command that was sent
  once was sent when the command was queued, and no pending id is used again.
  `PingInv`: a pending Ping is the last one sent.

`AudioProofs` (assuming `PlaybackRingAssumption`: more than two slots, and
requests that fit into the ring), for every capacity, frame length and sequence of
requests:

* `RingImplementsQueue`: `Spec => RingIsQueue`, the refinement of `BoundedQueue`,
  step by step: moving `m_Write` is a push, copying a frame is a pop, every other
  load or store a stutter. `RingInv` says what each slot holds by its distance from
  `m_Read`, that the slot a frame is emplaced in is free, and that a frame copied
  but not released is still counted; the arithmetic modulo the capacity is in
  lemmas (`ModSmall` and those after it).
* `PromiseIsKept`: `Spec => []PromiseKept`. `PromiseInv` adds that a worker that has
  seen the last request tops up for that one, and that what a promised request
  still owes stays in the queue until it is copied.

and of the devices, for both backends, any sets of devices and any number of changes,
without an assumption:

* `DevicesAgree`: `DevicesSpec => []SelectionConsistent`, and `StopLeavesNothing`:
  `DevicesSpec => []NothingLeftOpen`, from `DevicesInv`. `HeldInv`: what `Start` has
  created so far, that a running backend has all of it, and that a stream or a clock
  exists only while the thread or loop that will clear it does. `StreamInv`: the
  properties' agreement weakened at each step of a rebuild by what that step is
  about to repair, with the engine still at `call.previous` until the change has
  succeeded. `SavedInv`: the saved devices not yet applied, in order; that the
  `Config` has what runs, or ran before a change that is not persisted yet, but for
  refused devices; and that the file has what the `Config` has unless the last save
  failed. `StreamInv` alone is not inductive: that a clock's late update cannot
  outlive its stream needs the owners in `HeldInv`.

`ClientProofs` (assuming `RuntimeAssumption`), for any number of lines,
packets, signals and exceptions:

* `RuntimeLosesNothing`: `Spec => []NothingIsLost`. Both queues are what went in
  and has not come out; that nothing is pushed into a closed queue needs that the
  network thread closes events last (`eventsClosed => net = "gone"`), and the quiet
  end needs to know of each place on the way out whether a stop was asked for.

and of the GTK client (assuming `GtkAssumption`), for any channels and any number of
sessions, events and actions:

* `WindowLeavesNothing`: `GtkSpec => []GoneLeavesNothing`, and `TreeShowsView`:
  `GtkSpec => []TreeIsCurrent`, from `GtkInv`. `LifeInv`: `m_State`, `m_Session`,
  its runtime and `NetworkWake` belong together wherever the UI thread is, in a tick,
  in `EndSession` or in `Shutdown`. `PartingInv`: a runtime that has ended has said
  goodbye, an attempt that was given up before its thread last looked has left the
  server, and the UI thread drains for the last time only after that; so what is
  destroyed has no unseen event, and no connection the user wanted ended but the one
  of a window closed too late. `MutedInv` follows transmission through a microphone
  test to the end of the session it was in. `ViewInv`: outside a connection
  the view is dirty, so the first tick of the next one rebuilds the tree.

`VoiceProofs` (assuming `TransmitAssumption`), for rings, hangovers,
monitors, failures and sequences of `/mute` and `/unmute` of any length:

* `VoiceIsPublished`: `Spec => []VoiceMatchesPublished`, and `SilenceIsSent`: `Spec
  => []SilenceClosesBurst`, from `TransmitInv`. `NetworkInv`: a revision that the
  network thread has taken stands for one state; what it sends under is what it has
  published, or what the server has dropped; and while a command whose `Send` threw
  is queued no pass gets as far as speech. `OrderInv`: revisions never go back on
  their way from worker to ring to wire. `TakenInv`: speech on the wire is of a
  period the network thread has taken. `GateInv`: speech of the current period with
  nothing behind it means an open gate. Each holds of one thread's view only because
  of the others.

and of the receive path (assuming `VoiceReceiveAssumption`: the order of the buffer's
limits, with `MaxDelay` and `Gap` well below half a cycle), for every number of voice
ids, rings and buffers of every size, and any number of frames, losses and copies:

* `OwnersStartFresh`: `ReceiveSpec => []NewOwnerStartsFresh`, from `OwnerInv`: until
  the id changes hands everything is of its first owner, and while the history is
  clean, everything queued after that is of the second.
* `VoiceStaysInOrder`: `ReceiveSpec /\ []InReach => []StreamInOrder`, and
  `NewVoiceIsTaken`, the same for `OnlyLateIsRefused`. `DelayInv` says what can still
  come behind each frame, on the way and in the ring; `StreamInv`, that the buffer's
  pending frames lie between the expected one and that bound. The core is `Ahead` and
  `Behind`: within half a cycle the code's `Distance`, modulo the number of ids, is the
  distance of the frames as they were spoken. `PushStream` and `PullStream` then follow
  the jitter buffer branch by branch.

  `InReach`: the frame the worker takes next is of the talker whose stream the buffer
  holds, and less than half a cycle of ids ahead of the expected one. It is what 16-bit
  ids can promise: after 32768 lost frames in a row (eleven minutes of voice), or in
  the buffer of another owner, no receiver can tell new from late. The `voice_receive`
  run does not assume it and has a second owner; its gaps are shorter than half a cycle.
* `ShortTalkInOrder` shows what satisfies it: a talker that keeps its client id
  (`MaxSentNew = 0`) and sends less than half a cycle, a talk elsewhere included
  (`MaxSent + Gap + 1 < Half`), is played in order without the hypothesis.

`StorageProofs` (assuming `StorageAssumption`), for any number of clients, saves,
identities, failures, kills and power losses, on both systems:

* `StorageSurvives`: `Spec => []NextStartWorks`, and `IdentityOutlivesClients`:
  `Spec => IdentityIsKept`, without an assumption on the clients. The inductive
  invariant `StorageInv` follows a file from the process's buffer (`ProcessInv`: what a
  process is about to install fits the operation it is in) to its temporary file
  (`TemporaryInv`: it is the process's own, on Windows only as long as no other client
  has written it since) to the disk (`DiskInv`: what a path names *or would name after
  a power loss* is whole and synchronised, crossed files apart, and an identity whose
  rename may still be undone has no configuration beside it). `OvertakenInv`: a client
  that no other one has overtaken goes by the identity that is on disk.

`ConnectProofs` (assuming `ConnectAssumption`), for any number of attempts, Resets
and datagrams delivered twice, and the server's offers and scripts of the model
(`Offers`, `Scripts`):

* `HandshakeFailsClosed`: `Spec => []SecureSession`, and `SequencesContinue`:
  `Spec => HandoverContinues`, from `ConnectInv`. `OfferInv`: only one
  `PuzzleAnswer` is ever sent, so the alpha the server's offer answers is the
  client's, and every packet of the bootstrap is one of that offer. `KeyInv`:
  `clientek` is sent, answered and relied on in this order, so the server's key is
  the client's before the first Ack. `HandoverInv`: where the counters stand in each
  wait. The nesting of the license's blocks is `LicenseIsNested`, for any license
  that `License::Parse` accepts, up to its limit of eight blocks.

Every inductive invariant was checked with TLC on the run's instance before it was
proved.

Only model-checked:

* everything about fairness: `EventuallyReady`, `PublishedIsCurrent`, `LeavingEnds`,
  `ActionsAreExecuted`, `ConnectEnds`, `PlaysOut`, `LeavingTakesEffect`;
* what is computed by a fold, a sort or a recursion over data of any length, which
  needs induction over data: what `ProcessOrdered` assembles (`ImplementsChannel`),
  `CommandsInOrder` of `Connect` (fragments and commands put in order), and the
  properties of `Session` (chains of channels, rows of commands). Also
  `FailedCommandChangesNothing` is of this kind: it rests on a fold over the rows of
  a command leaving `failed` alone.

## 5. What is abstracted

* Cryptography is its guarantee: a packet authenticates under its own generation
  only. Forged packets are not considered.
* Payloads are numbers, an encoded frame is its revision and flags, an action is
  its place in the order of typing.
* Timers are exact to the unit of the clock.
* `CommandLow` and `AckLow` follow the code of `Command` and `Ack`; receiving is
  modelled for one stream, as the two windows share nothing.
* Strings are members of small sets; a value that does not parse is one of them.
  Flags of channels and clients that are only shown are represented by one.
* One client id stands for the talkers of the receive path: their buffers share
  only the ring, whose overflow is modelled.
* Memory orders are those of the code's acquire and release operations, hence
  interleavings of single loads and stores.
* What a file contains is a value and whether it is whole.

## 6. Where code and documentation disagree

The runs check what the code does. The following was met while modelling and
proving. Where a property names an exception for it, leaving out that part of the
property makes TLC show the behaviour.

* *A fragmented `clientinit`.* The comment at `protocol/src/session_transport.cpp:239`
  speaks of "a special first Ack after clientinit". `HandleAck` (line 251) takes Ack
  number 1 to answer the session's first packet without reading it. If `clientinit`
  needs two packets and the second arrives first, the first is retired and never
  reaches the server: `FirstAckMistaken` in `RetiredIsReceived` (`send_wrap`).
* *A send that fails.* `SendCommandPacket` queues, sends, then advances the id
  (`protocol/src/session_transport.cpp:134`). A `Send` that throws under
  `SetAudioState` is caught in `ProcessAudio` (`network_runtime.cpp:214`), and the
  next command takes the id of the one still queued: `Add` throws, or, if the queued
  one has been acknowledged by then, the server drops the new command as a duplicate
  while the client sees its Ack. `docs/protocol/reliability.md:5` promises "reliable
  ordered command delivery". `NumberTaken` in `RetiredIsReceived` (`send_wrap`). When
  the next command is an audio state, the server goes on with the old one while the
  client sends voice under the new one: `wire.dropped` in `VoiceMatchesPublished`
  (`voice_transmit`).
* *The talk end after `/mute`.* It carries the new revision, and a pass of
  `ProcessAudio` that began under the old one drops it, so the burst stays open;
  `docs/protocol/voice.md:57` says "A matching empty talk-end frame is allowed through
  to close the active talk burst." In `VoiceTransmit`: `NetworkBegin` takes the enabled
  state, the user mutes, `WorkerSync` queues the talk end with the next revision, and
  `NetworkPop` of the pass in progress drops it. `SilenceClosesBurst` is therefore
  about bursts that silence ends.
* *The last event of the terminal client.* The main loop drains the event queue, then
  asks whether it is closed (`client/src/main.cpp:287`). A `DisconnectedEvent` pushed
  and a queue closed in between end the loop with the event unshown, although
  `client/include/client/runtime/event.hpp:37` says it is "Published so the terminal
  says what happened instead of simply going quiet." `DisconnectIsShown` of
  `ClientRuntime` with `MaxActions = 2`, `MaxPackets = 2`, `GoodbyePolls = 2`,
  `MayThrow = FALSE`. (The GTK client drains once more and does not have this.)
* *Two Windows clients that save.* `win32_secure_file.cpp:107` names the temporary
  file after the target, so two processes that save the same file share it, and one may
  install what the other is still writing; `config/platform/secure_file.hpp:24` says a
  "concurrent reader never observes a partial write". `crossed` in `NextStartWorks` and
  `Crosses` in `IdentityIsKept` (`storage`).
* *A client that was overtaken.* The search for a higher security level
  (`client/src/main.cpp:82`, and the identity page) reads the identity, searches for
  minutes, and saves what it found over whatever is there by then, also an identity
  that another process has put there: a second GTK client (`client-gtk/src/main.cpp:85`
  allows any number) or the terminal client. The setup's test for an identity and its
  save are apart in the same way. `overtaken` in `IdentityIsKept` (`storage`). Within
  one process the GTK client takes care of it.
* *Closing the window during an attempt.* The connector looks for a cancellation once
  more after it has connected (`client-gtk/src/session.cpp:38`). When the window is
  closed after that and before a tick, `~Session` destroys the connection without a
  goodbye, although `docs/client/gtk.md:78` says that closing the window disconnects
  cleanly; the server keeps the client until its own timeout. `last.late` in
  `GoneLeavesNothing` (`gtk`).
* *An attempt that does not end.* `docs/client/gtk.md:20` says an attempt that was
  cancelled "finishes or times out", and `~Session` joins its thread
  (`client-gtk/src/session.cpp:55`). Two of its waits have no bound. Once `clientinit`
  is acknowledged nothing is pending, and `ReceiveCommand` waits for `initserver`
  without a timeout (`session_transport.cpp:580`). And `SO_RCVTIMEO` counts anew with
  every datagram, while `BootstrapTransport::ReceiveCommand`
  (`bootstrap_transport.cpp:137`) takes any number of fragments it already has. Both
  need a server that behaves so. `AwaitsServer` and `HeldFragmentArrives` in
  `ConnectEnds` (`connect`), and the second part of `LeavingTakesEffect` (`gtk`).

Protocol and session:

* After a failed send the id that was queued under it is used again (see above), and a
  late second Ack of the earlier packet is taken for the answer of the new command,
  which has been sent once: `HandleAck` then records a round trip that never was.
  `RttIsRoundTrip` is conditional on no send having failed; without the condition
  `send_timers` with `MaxPackets = 3` violates it. The estimate is reported to the server
  (`set_connection_info.cpp:16`) and decides nothing in the client.
* An exception of a handler comes back from `Connection::Run` as `TransportError`
  (`connection.cpp:148`), while `docs/protocol/api.md:188` says it propagates.
  `Connection::Disconnect` lets an exception of `Poll` through and then leaves
  `m_State` as it was.
* The comment at `bootstrap_transport.cpp:148` says that retransmissions are
  acknowledged again; once the command is complete, `ReceiveAck` (line 100) throws on
  the next one. Packets of the bootstrap that come after the login has begun end the
  connection. Both fail closed.
* `ClientStore` keeps the channel of a partial client that is introduced, even when
  the introduction names another one. A `notifyclientleftview` for ourselves with a
  target changes `m_CurrentChannelId` but not our own entry. The model's server sends
  neither.
* `SyncTalkerSettings` remembers an identity also when its settings could not be
  loaded, so a file repaired later is not read again. Two clients of one user do not
  both get changed settings.

Audio:

* A frame of the period just muted may still be sent within the pass that began before
  the mute (`network_runtime.cpp:197`), whereas `docs/client/runtime.md:80` says such
  frames "cannot leak after the mute request". The server has not been told of the
  mute at that moment, so `VoiceMatchesPublished` holds.
* After a failed send of the audio state the change counts as seen
  (`network_runtime.cpp:176`) and is not published again until something else changes:
  `PublishedIsCurrent` is conditional on no send failing. A full outgoing ring drops a
  talk end like any frame (`audio_engine.cpp:549`).
* When the worker fails it mutes first and marks the device unavailable afterwards
  (`audio_engine.cpp:411`); an unmute in between leaves a microphone enabled that
  nobody reads.
* A late frame of a client that has left makes its talker again, and its voice id
  may mute the next owner of the client id for a while: the condition in
  `NewOwnerStartsFresh`. `Pull` reports the start of a stream with its first frame;
  when the first item is a concealed loss instead (an end frame sets the expected id
  and a farther one arrives before the worker mixes), the start is never reported. A
  burst of one or two frames whose end is lost is not played. A talker that spoke
  elsewhere for more than half a cycle of ids would be taken to be late; the model's
  `Gap` is smaller.
* WASAPI's `Stop` returns at once when no thread was started
  (`wasapi_backend.cpp:298`) and leaves the events open. `PersistAudioSettings`
  overwrites a configured device that is not plugged in by the one in use.
* `PersistAudioSettings` comes after the change of the device
  (`command_handler.cpp:59`), and `Config::Update` changes its copy before a `Save` that
  may throw (`config.cpp:100`). The file then lacks the change until something else is
  saved: `saved.failed` in `SelectionConsistent`.

Files and the GTK client:

* A save of the configuration writes the whole file, hence takes back what another
  process has saved meanwhile.
* A session that ends during a microphone test is left with transmission enabled
  (`audio_settings_page.cpp:271`), while `docs/client/gtk.md:20` says every connection
  starts muted. `GoneLeavesNothing` excepts the session after such a one, and no other.
* A runtime that fails to start destroys an established connection without a goodbye.
  Conversations and the popover of a client are kept by client id, which another user
  may get.

## 7. What is not modelled, and the plan

* *Text*: the syntax of commands and of the command line, escaping, Base64, the text
  of the configuration files, terminal and GTK presentation. Examples test these
  better.
* *Cryptography, compression, codecs, filters*: byte- and sample-level algorithms. The
  models use what they guarantee.
* *The operating system's side* of sockets, devices and name resolution.
* *Connection statistics*: counters and averages that decide nothing in the client.
* *Logging.*
* Of components that are modelled in part: `AckLow` and the answers to the server's
  Pings in `ReliableSend`, the sizes `CommandFragmenter` plans, the samples of the
  loopback monitor, layout and menus of the GTK client.

Possible next steps: the sequences of `Connect` and the chains of `Session` written
without folds, so that their invariants could be proved as well; `LossTracker`'s
arithmetic, if its numbers come to decide anything.
