---------------------------- MODULE AudioDevices ----------------------------
(***************************************************************************)
(* The audio engine's life with its device backend, PipeWire or WASAPI:     *)
(* starting it piece by piece, changing devices with a way back, devices    *)
(* that come and go, the streams' own threads, and taking it all down.      *)
(*                                                                         *)
(* One thread makes the calls (ts-cli's main thread, the GTK main loop).    *)
(* On Windows its calls run on a control thread and from there on the       *)
(* stream's thread, and it waits: a step of them needs that thread alive.   *)
(***************************************************************************)
EXTENDS Naturals, Sequences, FiniteSets

CONSTANTS Inputs, Outputs,  (* external: the devices there may be              *)
          MaxCalls,         (* bound: device changes by the user               *)
          MaxHotplugs       (* bound: devices plugged or unplugged             *)

ASSUME AudioDevicesAssumption ==
  /\ MaxCalls \in Nat /\ MaxHotplugs \in Nat
  /\ Inputs \cap Outputs = {} /\ "default" \notin Inputs \union Outputs

VARIABLES
  platform,   (* the backend of this build                                     *)
  held,       (* what the backend has created besides its streams              *)
  selector,   (* the backend's m_InputSelector, m_OutputSelector               *)
  stream,     (* per kind: the selection its open stream was made for, or none *)
  clock,      (* per kind: the stream its device clock is of, or none          *)
  devices,    (* m_Devices: PipeWire's copy of the registry                    *)
  worker,     (* m_Worker: off, running, failed or stopped                     *)
  rendering,  (* whether a callback of the playback stream is running          *)
  engine,     (* m_Backend, m_Available, m_InputSelector, m_OutputSelector     *)
  call,       (* where the calling thread is                                   *)
  todo,       (* ApplyAudioSettings: the saved devices still to be selected    *)
  saved,      (* the devices in the Config and in its file, and whether the    *)
              (*   last Save failed                                            *)
  calls,      (* bound: device changes so far                                  *)
  present,    (* external: the devices that are plugged in                     *)
  hotplugs    (* bound: changes of present so far                              *)

devicesVars == <<worker, rendering, platform, held, selector, stream, clock, devices, engine, call, todo, saved, calls,
          present, hotplugs>>

Kinds == {"input", "output"}
Devices(kind) == IF kind = "input" THEN Inputs ELSE Outputs
Selectors(kind) == {"default"} \union Devices(kind)

(* What Start creates, in order, before the streams.                         *)
StartSteps == IF platform = "pipewire" THEN <<"loop", "context", "core", "registry", "thread">>
                                       ELSE <<"events", "control", "capture", "render", "enumerator">>
Threads == {"control", "capture", "render"}
OwnerOf(kind) == IF kind = "input" THEN "capture" ELSE "render"

(* RunOnQueue: the task is run by the thread it is posted to, and waited for.*)
RunOnQueue(thread) == platform = "wasapi" => thread \in held

(* Resolving a selector: in the cached registry, or among the endpoints.     *)
ResolveTarget(kind, s) == s = "default" \/ s \in devices
ResolveDevice(kind, s) ==
  IF s = "default" THEN present \cap Devices(kind) # {} ELSE s \in present
Resolves(kind, s) == IF platform = "pipewire" THEN ResolveTarget(kind, s) ELSE ResolveDevice(kind, s)

(* A stream for a device that is gone: PipeWire leaves it unconnected, an    *)
(* endpoint that is gone cannot be activated.                                *)
MayConnect(kind) == platform = "wasapi" => Resolves(kind, selector[kind])

(* The thread loop's lock, held over every change of a stream.               *)
Locked == call.at \in {"destroy", "reset", "connect"}

(* pw_stream_destroy and the render thread's own loop wait for a callback    *)
(* that is running.                                                          *)
StreamQuiet(kind) == kind = "output" => ~rendering

Go(at) == call' = [call EXCEPT !.at = at]

-----------------------------------------------------------------------------
(* AudioEngine's constructor and Start.                                      *)
CreateNext ==
  /\ call.at = "start" /\ call.step < Len(StartSteps)
  /\ StartSteps[call.step + 1] = "enumerator" => RunOnQueue("control")
  /\ \/ /\ held' = held \union {StartSteps[call.step + 1]}
        /\ call' = [call EXCEPT !.step = @ + 1]
     \/ /\ call' = [call EXCEPT !.at = "stop"]
        /\ UNCHANGED held
  /\ UNCHANGED <<worker, rendering, platform, selector, stream, clock, devices, engine, todo, saved,
                 calls, present, hotplugs>>

(* The streams: PipeWire makes one after the other, WASAPI looks both        *)
(* devices up first.                                                         *)
CreateStreams ==
  /\ call.at = "start" /\ Len(StartSteps) = call.step
  /\ IF \A k \in Kinds : Resolves(k, "default")
       THEN call' = [call EXCEPT !.at = "destroy", !.kind = "input", !.why = "start"]
       ELSE Go("stop")
  /\ UNCHANGED <<worker, rendering, platform, held, selector, stream, clock, devices, engine,
                 todo, saved, calls, present, hotplugs>>

(* The engine is there, with or without a backend; its worker starts.        *)
Constructed(available) ==
  /\ engine' = [engine EXCEPT !.backend = available, !.available = available]
  /\ worker' = "running"
  /\ Go("idle")

-----------------------------------------------------------------------------
(* Rebuilding a stream: away with the old one, then its clock (a callback    *)
(* may still have set it), then the new one.                                 *)
DestroyStream ==
  /\ call.at = "destroy" /\ StreamQuiet(call.kind) /\ RunOnQueue(OwnerOf(call.kind))
  /\ stream' = [stream EXCEPT ![call.kind] = "none"]
  /\ Go("reset")
  /\ UNCHANGED <<worker, rendering, platform, held, selector, clock, devices, engine, todo, saved,
                 calls, present, hotplugs>>

ResetClock ==
  /\ call.at = "reset"
  /\ clock' = [clock EXCEPT ![call.kind] = "none"]
  /\ Go("connect")
  /\ UNCHANGED <<worker, rendering, platform, held, selector, stream, devices, engine, todo, saved,
                 calls, present, hotplugs>>

(* What follows a stream that is open; a device the user chose is now to be  *)
(* saved.                                                                    *)
Opened ==
  CASE call.why = "start" /\ call.kind = "input" ->
         /\ call' = [call EXCEPT !.at = "destroy", !.kind = "output"]
         /\ UNCHANGED <<engine, worker>>
    [] call.why = "start" /\ call.kind = "output" -> Constructed(TRUE)
    [] call.why \in {"applied", "selected"} ->
         /\ engine' = [engine EXCEPT !.selected = [@ EXCEPT ![call.kind] = selector[call.kind]]]
         /\ Go(IF call.why = "selected" THEN "persist" ELSE "idle")
         /\ UNCHANGED worker
    [] call.why = "restored" -> Go("idle") /\ UNCHANGED <<engine, worker>>

Connect ==
  /\ call.at = "connect" /\ MayConnect(call.kind) /\ RunOnQueue(OwnerOf(call.kind))
  /\ stream' = [stream EXCEPT ![call.kind] = selector[call.kind]]
  /\ clock' = IF platform = "wasapi" THEN [clock EXCEPT ![call.kind] = selector[call.kind]] ELSE clock
  /\ Opened
  /\ UNCHANGED <<rendering, platform, held, selector, devices, todo, saved, calls, present, hotplugs>>

(* History: the kinds whose saved device could not be applied.               *)
Refused == IF call.why = "applied" THEN call.refused \union {call.kind} ELSE call.refused
(* The way back from a device that failed: the selector as it was, and a     *)
(* stream for it, whose failure is ignored.                                  *)
(* Mutant: only the stream is put back.                                      *)
MutantKeepsSelector ==
  /\ selector' = selector
  /\ call' = [call EXCEPT !.why = "restored", !.refused = Refused, !.at = "destroy"]
Restore ==
  /\ selector' = [selector EXCEPT ![call.kind] = call.previous]
  /\ call' = [call EXCEPT !.why = "restored", !.refused = Refused,
                          !.at = IF platform = "pipewire" \/ Resolves(call.kind, call.previous)
                                   THEN "destroy" ELSE "idle"]

ConnectFails ==
  /\ call.at = "connect"
  /\ CASE call.why = "start" -> Go("stop") /\ UNCHANGED selector
       [] call.why \in {"applied", "selected"} -> Restore
       [] call.why = "restored" -> Go("idle") /\ UNCHANGED selector
  /\ UNCHANGED <<worker, rendering, platform, held, stream, clock, devices, engine, todo, saved, calls,
                 present, hotplugs>>

-----------------------------------------------------------------------------
(* SetInputDevice, SetOutputDevice.  An unavailable engine and a device that *)
(* is not there throw before anything changes.                               *)
SetDevice(kind, s, why) ==
  IF engine.available /\ engine.backend /\ Resolves(kind, s)
    THEN /\ RunOnQueue("control")
         /\ selector' = [selector EXCEPT ![kind] = s]
         /\ call' = [call EXCEPT !.at = "destroy", !.kind = kind, !.why = why,
                                 !.previous = selector[kind]]
    ELSE /\ call' = [call EXCEPT !.refused = IF why = "applied" THEN @ \union {kind} ELSE @]
         /\ UNCHANGED selector

(* The saved devices, when audio is available: a failure is only a warning.  *)
ApplyAudioSettings ==
  /\ call.at = "idle" /\ todo # <<>>
  /\ SetDevice(Head(todo)[1], Head(todo)[2], "applied")
  /\ todo' = Tail(todo)
  /\ UNCHANGED <<worker, rendering, platform, held, stream, clock, devices, engine, saved, calls,
                 present, hotplugs>>

UserSelects(kind, s) ==
  /\ call.at = "idle" /\ todo = <<>> /\ calls < MaxCalls
  /\ calls' = calls + 1
  /\ SetDevice(kind, s, "selected")
  /\ UNCHANGED <<worker, rendering, platform, held, stream, clock, devices, engine, todo, saved,
                 present, hotplugs>>

-----------------------------------------------------------------------------
(* Config::Update changes the Config and saves it; a Save that throws leaves *)
(* the file as it was, and the Config as it is now.                          *)
Update(config) ==
  \E works \in BOOLEAN :
    saved' = [config |-> config, file |-> IF works THEN config ELSE saved.file, failed |-> ~works]

(* PersistAudioSettings puts what the engine has selected into the Config.   *)
Persist ==
  /\ call.at = "persist"
  /\ Update(engine.selected)
  /\ call' = [call EXCEPT !.at = "idle", !.refused = {}]
  /\ UNCHANGED <<worker, rendering, platform, held, selector, stream, clock, devices, engine, todo,
                 calls, present, hotplugs>>

(* A change of the filter or of the threshold is persisted in the same way.  *)
OtherSettingChanges ==
  /\ call.at = "idle" /\ todo = <<>> /\ calls < MaxCalls
  /\ calls' = calls + 1
  /\ Go("persist")
  /\ UNCHANGED <<worker, rendering, platform, held, selector, stream, clock, devices, engine, todo,
                 saved, present, hotplugs>>

(* A new nickname or server: the Config is saved with the devices it has.    *)
OtherUpdate ==
  /\ call.at = "idle" /\ todo = <<>> /\ calls < MaxCalls
  /\ calls' = calls + 1
  /\ Update(saved.config)
  /\ UNCHANGED <<worker, rendering, platform, held, selector, stream, clock, devices, engine, call,
                 todo, present, hotplugs>>

-----------------------------------------------------------------------------
(* The destructor: the worker first, then Stop.                              *)
Destroy ==
  /\ call.at = "idle" /\ todo = <<>>
  /\ Go("join")
  /\ UNCHANGED <<worker, rendering, platform, held, selector, stream, clock, devices, engine,
                 todo, saved, calls, present, hotplugs>>

WorkerStops ==
  /\ call.at = "join" /\ worker = "running"
  /\ worker' = "stopped"
  /\ UNCHANGED <<rendering, platform, held, selector, stream, clock, devices, engine, call,
                 todo, saved, calls, present, hotplugs>>

Joined ==
  /\ call.at = "join" /\ worker \in {"stopped", "failed"}
  /\ Go("stop")
  /\ UNCHANGED <<worker, rendering, platform, held, selector, stream, clock, devices, engine,
                 todo, saved, calls, present, hotplugs>>

(* An exception in the worker's loop ends it; the backend stays as it is.    *)
WorkerFails ==
  /\ worker = "running"
  /\ worker' = "failed"
  /\ engine' = [engine EXCEPT !.available = FALSE]
  /\ UNCHANGED <<rendering, platform, held, selector, stream, clock, devices, call, todo, saved, calls,
                 present, hotplugs>>

(* Stop has nothing to do without a loop, or without a thread.               *)
(* Mutant: a backend that never ran is not taken down.                       *)
MutantOnlyRunning == IF platform = "pipewire" THEN "thread" \in held ELSE Threads \cap held # {}
HasStarted == IF platform = "pipewire" THEN "loop" \in held ELSE Threads \cap held # {}

(* After Stop the constructor gives up its backend, the destructor is done.  *)
Stopped ==
  IF worker = "off" THEN Constructed(FALSE)
  ELSE /\ engine' = [engine EXCEPT !.backend = FALSE, !.available = FALSE]
       /\ Go("done")
       /\ UNCHANGED worker

StopNothing ==
  /\ call.at = "stop" /\ ~HasStarted
  /\ Stopped
  /\ UNCHANGED <<rendering, platform, held, selector, stream, clock, devices, todo, saved, calls,
                 present, hotplugs>>

(* PipeWire: the streams under the lock, then everything else.  WASAPI: the  *)
(* stop event.                                                               *)
StopBegins ==
  /\ call.at = "stop" /\ HasStarted
  /\ \/ /\ platform = "pipewire" /\ StreamQuiet("output")
        /\ stream' = [k \in Kinds |-> "none"]
        /\ clock' = [k \in Kinds |-> "none"]
     \/ platform = "wasapi" /\ UNCHANGED <<stream, clock>>
  /\ Go("stopping")
  /\ UNCHANGED <<worker, rendering, platform, held, selector, devices, engine, todo, saved, calls,
                 present, hotplugs>>

ControlThreadEnds ==
  /\ call.at = "stopping" /\ "control" \in held
  /\ held' = held \ {"control", "enumerator"}
  /\ UNCHANGED <<worker, rendering, platform, selector, stream, clock, devices, engine, call,
                 todo, saved, calls, present, hotplugs>>

StreamThreadEnds(kind) ==
  /\ call.at = "stopping" /\ OwnerOf(kind) \in held /\ StreamQuiet(kind)
  /\ held' = held \ {OwnerOf(kind)}
  /\ stream' = [stream EXCEPT ![kind] = "none"]
  /\ clock' = [clock EXCEPT ![kind] = "none"]
  /\ UNCHANGED <<worker, rendering, platform, selector, devices, engine, call, todo, saved, calls,
                 present, hotplugs>>

StopEnds ==
  /\ call.at = "stopping" /\ Threads \cap held = {}
  /\ held' = {}
  /\ devices' = {}
  /\ Stopped
  /\ UNCHANGED <<rendering, platform, selector, stream, clock, todo, saved, calls, present, hotplugs>>

Done == call.at = "done" /\ UNCHANGED devicesVars

-----------------------------------------------------------------------------
(* RegistryGlobal and RegistryGlobalRemove, on the loop's thread.            *)
RegistryChanges(d) ==
  /\ platform = "pipewire" /\ "thread" \in held /\ ~Locked
  /\ devices' = IF d \in present THEN devices \union {d} ELSE devices \ {d}
  /\ devices' # devices
  /\ UNCHANGED <<worker, rendering, platform, held, selector, stream, clock, engine, call, todo, saved,
                 calls, present, hotplugs>>

(* CaptureProcess and PlaybackProcess note the graph's clock.                *)
UpdateClock(kind) ==
  /\ platform = "pipewire" /\ stream[kind] # "none" /\ clock[kind] # stream[kind]
  /\ clock' = [clock EXCEPT ![kind] = stream[kind]]
  /\ UNCHANGED <<worker, rendering, platform, held, selector, stream, devices, engine, call,
                 todo, saved, calls, present, hotplugs>>

(* PlaybackProcess and DrainRenderOnRenderThread call RenderPlayback.        *)
PlaybackProcess ==
  /\ rendering \/ stream["output"] # "none"
  /\ rendering' = ~rendering
  /\ UNCHANGED <<worker, platform, held, selector, stream, clock, devices, engine, call, todo, saved,
                 calls, present, hotplugs>>

(* External: a device is plugged in or unplugged.                            *)
Hotplug(d) ==
  /\ hotplugs < MaxHotplugs
  /\ hotplugs' = hotplugs + 1
  /\ present' = IF d \in present THEN present \ {d} ELSE present \union {d}
  /\ UNCHANGED <<worker, rendering, platform, held, selector, stream, clock, devices, engine,
                 call, todo, saved, calls>>

DevicesInit ==
  /\ worker = "off"
  /\ rendering = FALSE
  /\ platform \in {"pipewire", "wasapi"}
  /\ held = {}
  /\ selector = [k \in Kinds |-> "default"]
  /\ stream = [k \in Kinds |-> "none"]
  /\ clock = [k \in Kinds |-> "none"]
  /\ devices = {}
  /\ engine = [backend |-> FALSE, available |-> FALSE, selected |-> [k \in Kinds |-> "default"]]
  /\ call = [at |-> "start", step |-> 0, kind |-> "input", why |-> "start", previous |-> "default",
             refused |-> {}]
  /\ \E stored \in [Kinds -> UNION { Selectors(k) : k \in Kinds }] :
       /\ \A k \in Kinds : stored[k] \in Selectors(k)
       /\ saved = [config |-> stored, file |-> stored, failed |-> FALSE]
  /\ todo = <<<<"input", saved.config["input"]>>, <<"output", saved.config["output"]>>>>
  /\ calls = 0
  /\ present = Inputs \union Outputs
  /\ hotplugs = 0

CallerNext ==
  CreateNext \/ CreateStreams \/ DestroyStream \/ ResetClock \/ Connect \/ ConnectFails
  \/ Persist \/ OtherSettingChanges \/ OtherUpdate
  \/ ApplyAudioSettings \/ (\E k \in Kinds : \E s \in Selectors(k) : UserSelects(k, s))
  \/ Destroy \/ Joined \/ StopNothing \/ StopBegins \/ StopEnds \/ Done

ThreadsNext ==
  \/ WorkerStops \/ WorkerFails \/ ControlThreadEnds
  \/ \E k \in Kinds : StreamThreadEnds(k) \/ UpdateClock(k)
  \/ PlaybackProcess
  \/ \E d \in Inputs \union Outputs : RegistryChanges(d) \/ Hotplug(d)

DevicesNext == CallerNext \/ ThreadsNext
DevicesSpec == DevicesInit /\ [][DevicesNext]_devicesVars

-----------------------------------------------------------------------------
(* Between calls the engine, the backend and the streams agree: the device   *)
(* shown as selected is the backend's, an open stream was made for it, and   *)
(* the clock shown is of that stream; also after a device failed, after the  *)
(* way back from it failed too, and with callbacks running all the while.    *)
(* The Config has what runs, but for a saved device that was refused and not *)
(* overwritten since, and the file has what the Config has, unless the last  *)
(* attempt to save it failed.                                                *)
SelectionConsistent ==
  (call.at = "idle" /\ engine.backend) =>
    \A k \in Kinds :
      /\ engine.selected[k] = selector[k]
      /\ stream[k] \in {"none", selector[k]}
      /\ clock[k] \in {"none", stream[k]}
      /\ todo = <<>> /\ k \notin call.refused => saved.config[k] = selector[k]
      /\ saved.file[k] = saved.config[k] \/ saved.failed

(* Whatever step of Start failed, and after Stop, nothing is left behind: no *)
(* stream, no thread, no connection.  (The WASAPI events stay when not even  *)
(* the first thread could be created: Stop returns early then.)              *)
NothingLeftOpen ==
  (~engine.backend /\ call.at \in {"idle", "persist", "done"}) =>
    /\ \A k \in Kinds : stream[k] = "none" /\ clock[k] = "none"
    /\ held # {} => held = {"events"} /\ call.step = 1

=============================================================================
