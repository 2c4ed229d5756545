------------------------------- MODULE Session ------------------------------
(***************************************************************************)
(* Session's mirror of the server and the network thread's use of it: the   *)
(* commands of the server are parsed and applied to the channel and client  *)
(* stores, presence and text events are raised from them, requests go back, *)
(* and NetworkRuntime keeps the playback settings of the talkers in step.   *)
(*                                                                          *)
(* The server is external.  It keeps its channels as sequences of children, *)
(* shows the client what its subscriptions allow, and sends its commands in *)
(* order (CommandChannel).                                                  *)
(***************************************************************************)
EXTENDS ClientStore

CONSTANTS Channel,          (* channel ids; 1 is the server's default channel *)
          Self,             (* the client's own id                            *)
          Others,           (* ids the server gives to other clients          *)
          Name,             (* names of channels and clients, from 1          *)
          MaxOps,           (* bound: operations of the server and the user   *)
          MaxEvents         (* bound: events not yet dispatched               *)

ASSUME SessionAssumption ==
  /\ Channel \subseteq Nat \ {0} /\ 1 \in Channel
  /\ {Self} \cup Others \subseteq 1 .. MaxClientId /\ Self \notin Others
  /\ Name \subseteq {1, 2} /\ MaxOps \in Nat /\ MaxEvents \in Nat \ {0}

VARIABLES
  session,     (* the members of Session                                      *)
  identities,  (* NetworkRuntime::m_TalkerIdentities: client id -> unique id  *)
  talkers,     (* the settings AudioEngine holds: client id -> setting        *)
  config,      (* UserConfigStore: unique id -> setting, or unreadable        *)
  server,      (* external: the server's channels, clients and subscriptions  *)
  wire,        (* external: commands on their way to the client               *)
  requests,    (* external: commands on their way to the server               *)
  roster,      (* history: who is in our channel by the events shown          *)
  played,      (* history: the last voice's setting, and its sender's         *)
  ops          (* history: operations so far                                  *)

runtimeVars == <<identities, talkers, config>>
vars == <<session, runtimeVars, server, wire, requests, roster, played, ops>>

Unreadable == 9
Setting == {0, 1}           (* 0: the default, 1: muted or another volume     *)
Uid == Name                 (* unique ids; 0 is none                          *)

Command(name, rows) == [name |-> name, rows |-> rows]

(***************************************************************************)
(* Events and presence.                                                     *)
(***************************************************************************)
NoTarget == <<0, 0>>
Event(kind, id, channel, reply, label) ==
  [kind |-> kind, id |-> id, channel |-> channel, reply |-> reply, label |-> label]
Emit(s, event) == [s EXCEPT !.events = Append(@, event)]

EmitPresence(s, kind, id, channel) ==
  IF channel = 0 \/ channel # s.current \/ channel \notin Ids(s.store) THEN s
  ELSE Emit(s, Event(kind, id, channel, NoTarget, Client(s.clients, id).nickname))

EnterSelf(s, channel) ==
  IF channel = 0 THEN s
  ELSE [s EXCEPT !.current = channel, !.store = SetSubscribed(@, channel, TRUE)]

SeeEnter(s, entry) ==
  LET old == Client(s.clients, entry.id)
      channel == IF entry.channelId # 0 THEN entry.channelId ELSE old.channelId
      known == old.detailsKnown /\ channel # 0 /\ old.channelId = channel
  IN IF entry.id = Self THEN [EnterSelf(s, entry.channelId) EXCEPT !.nickname = entry.nickname]
     ELSE IF s.complete /\ ~known /\ channel = s.current
          THEN EmitPresence(s, "joined", entry.id, channel) ELSE s

\* Announcing a client that was never introduced.
MutantJoinsUnknown(s, entry) ==
  LET old == Client(s.clients, entry.id)
  IN IF entry.id = Self THEN EnterSelf(s, entry.channelId)
     ELSE IF ~s.complete \/ entry.channelId = old.channelId THEN s
     ELSE IF old.channelId = s.current THEN EmitPresence(s, "left", entry.id, old.channelId)
     ELSE IF entry.channelId = s.current THEN EmitPresence(s, "joined", entry.id, entry.channelId)
     ELSE s

SeeMove(s, entry) ==
  LET old == Client(s.clients, entry.id)
  IN IF entry.id = Self THEN EnterSelf(s, entry.channelId)
     ELSE IF ~s.complete \/ entry.channelId = old.channelId THEN s
     ELSE IF old.channelId = s.current THEN EmitPresence(s, "left", entry.id, old.channelId)
     ELSE IF entry.channelId = s.current /\ old.detailsKnown
          THEN EmitPresence(s, "joined", entry.id, entry.channelId)
     ELSE s

SeeLeave(s, entry) ==
  LET exists == entry.id \in DOMAIN s.clients
      old == Client(s.clients, entry.id)
      previous == IF entry.fromChannelId # 0 THEN entry.fromChannelId ELSE old.channelId
  IN IF entry.id = Self
     THEN [s EXCEPT !.current = entry.toChannelId,
                    !.store = SetSubscribed(@, entry.toChannelId, TRUE),
                    !.removal = IF entry.toChannelId = 0 /\ @ = NoValue THEN entry.reasonId ELSE @]
     ELSE IF s.complete /\ previous = s.current /\ entry.toChannelId # s.current
             /\ (exists => old.channelId = previous)
          THEN EmitPresence(s, "left", entry.id, previous) ELSE s

Leave(s, entry) ==
  IF entry.id = Self THEN s
  ELSE IF entry.toChannelId # 0 /\ IsSubscribed(s.store, entry.toChannelId)
       THEN [s EXCEPT !.clients = MoveClient(@, entry.id, entry.toChannelId)]
       ELSE [s EXCEPT !.clients = RemoveClient(@, entry.id)]

SeeUpdate(s, entry) ==
  IF entry.id = Self /\ entry.nickname \notin {NoValue, 0} THEN [s EXCEPT !.nickname = entry.nickname]
  ELSE s

(***************************************************************************)
(* Text messages: whom a reply goes to, and the name they are shown under.  *)
(***************************************************************************)
FirstKnown(candidates) ==
  LET known == SelectSeq(candidates, LAMBDA c : c # 0) IN IF known = <<>> THEN 0 ELSE Head(known)

Place(s, id) == IF id = 0 THEN 0 ELSE Client(s.clients, id).channelId
Target(s, message) == IF message.targetId \in Ids(s.store) THEN message.targetId ELSE 0

\* Replying where the reader is, not where the sender is.
MutantReplyHere(s, message) ==
  CASE message.targetMode = TargetMode.private -> <<TargetMode.private, message.invokerId>>
    [] message.targetMode = TargetMode.channel -> <<TargetMode.channel, s.current>>
    [] message.targetMode = TargetMode.server -> <<TargetMode.server, 0>>

ReplyTargetFor(s, message) ==
  LET channel == FirstKnown(<<Target(s, message), Place(s, message.invokerId), Place(s, Self)>>)
  IN CASE message.targetMode = TargetMode.private ->
            IF message.invokerId \in {0, Self} THEN NoTarget ELSE <<TargetMode.private, message.invokerId>>
       [] message.targetMode = TargetMode.channel ->
            IF channel = 0 THEN NoTarget ELSE <<TargetMode.channel, channel>>
       [] message.targetMode = TargetMode.server -> <<TargetMode.server, 0>>

ChannelNameFor(s, message) ==
  LET channel == FirstKnown(<<Target(s, message), Place(s, message.invokerId), s.current>>)
  IN IF message.targetMode = TargetMode.channel /\ channel \in Ids(s.store)
     THEN s.store.channels[channel].name ELSE 0

PrivatePeerNameFor(s, message) ==
  IF message.targetMode # TargetMode.private THEN 0
  ELSE IF message.invokerId = Self THEN Client(s.clients, message.targetId).nickname
  ELSE FirstKnown(<<message.invokerName, Client(s.clients, message.invokerId).nickname>>)

EmitText(s, message) ==
  Emit(s, Event("text", message.invokerId, 0, ReplyTargetFor(s, message),
                FirstKnown(<<ChannelNameFor(s, message), PrivatePeerNameFor(s, message)>>)))

(***************************************************************************)
(* ProcessCommand.  A parser or Move that throws ends the session with the  *)
(* mirror as it was; commands it does not know are ignored.                 *)
(***************************************************************************)
Fail(s) == [s EXCEPT !.failed = TRUE]
Send(s, request) == [s EXCEPT !.sent = Append(@, request)]

ChannelCommand(s, name, entries) ==
  LET entry == entries[1]
  IN CASE name = "channellist" -> [s EXCEPT !.store = ApplyChannelList(@, entries)]
       [] name = "notifychannelsubscribed" -> [s EXCEPT !.store = ApplySubscription(@, entries, TRUE)]
       [] name = "notifychannelunsubscribed" ->
            [s EXCEPT !.store = ApplySubscription(@, entries, FALSE),
                      !.clients = FoldLeft(LAMBDA c, id : RemoveInChannel(c, id, Self), @, entries)]
       [] name = "notifychannelcreated" ->
            LET created == [s EXCEPT !.store = ApplyChannelCreated(@, entry)]
            IN IF s.complete THEN Send(created, ChannelSubscribe(entry.id)) ELSE created
       [] name = "notifychanneldeleted" ->
            [s EXCEPT !.clients = RemoveInChannel(@, entry, Self), !.store = RemoveChannel(@, entry)]
       [] name = "notifychannelmoved" ->
            IF MoveThrows(s.store, entry.id, entry.parentId, entry.orderAfterId) THEN Fail(s)
            ELSE [s EXCEPT !.store = Move(@, entry.id, entry.parentId, entry.orderAfterId)]
       [] name = "notifychanneledited" ->
            IF ApplyChannelEditedThrows(s.store, entry) THEN Fail(s)
            ELSE [s EXCEPT !.store = ApplyChannelEdited(@, entry)]

ClientCommand(s, name, entries) ==
  CASE name = "notifycliententerview" ->
         [FoldLeft(SeeEnter, s, entries) EXCEPT !.clients = ApplyEnterView(@, entries)]
    [] name = "notifyclientmoved" ->
         [FoldLeft(SeeMove, s, entries) EXCEPT !.clients = ApplyMoved(@, entries)]
    [] name = "notifyclientleftview" -> FoldLeft(Leave, FoldLeft(SeeLeave, s, entries), entries)
    [] name = "notifyclientupdated" ->
         [FoldLeft(SeeUpdate, s, entries) EXCEPT !.clients = ApplyUpdated(@, entries)]

UserCommand(s, name, entries) ==
  CASE name = "error" ->
         FoldLeft(LAMBDA t, e : IF e.id = 0 THEN t ELSE Emit(t, Event("error", e.id, 0, NoTarget, 0)), s, entries)
    [] name = "notifytextmessage" -> FoldLeft(EmitText, s, entries)
    [] name = "notifyclientpoke" ->
         Emit(s, Event("poke", entries[1].invokerId, 0, NoTarget, entries[1].invokerName))

Parse(command) ==
  LET name == command.name
  IN CASE name = "channellist" -> ParseChannelList(command)
       [] name = "notifychannelcreated" -> ParseChannelCreated(command)
       [] name = "notifychanneledited" -> ParseChannelEdited(command)
       [] name = "notifychannelmoved" -> ParseChannelMoved(command)
       [] name = "notifychanneldeleted" -> ParseChannelDeleted(command)
       [] name \in {"notifychannelsubscribed", "notifychannelunsubscribed"} -> ParseChannelSubscription(command)
       [] name = "notifycliententerview" -> ParseClientEnterView(command)
       [] name = "notifyclientmoved" -> ParseClientMoved(command)
       [] name = "notifyclientleftview" -> ParseClientLeftView(command)
       [] name = "notifyclientupdated" -> ParseClientUpdated(command)
       [] name = "notifytextmessage" -> ParseTextMessage(command)
       [] name = "notifyclientpoke" -> ParseClientPoke(command)
       [] name = "error" -> ParseCommandResult(command)

ChannelCommands == {"channellist", "notifychannelsubscribed", "notifychannelunsubscribed",
                    "notifychannelcreated", "notifychanneldeleted", "notifychannelmoved",
                    "notifychanneledited"}
ClientCommands == {"notifycliententerview", "notifyclientmoved", "notifyclientleftview",
                   "notifyclientupdated"}
UserCommands == {"error", "notifytextmessage", "notifyclientpoke"}

\* Rows applied as they are read, until one is bad.
MutantRowByRow(s, command) ==
  IF command.name \in ClientCommands /\ Parse(command) = Throws
  THEN Fail(ClientCommand(s, command.name, Parse([command EXCEPT !.rows = <<Head(@)>>])))
  ELSE IF command.name \in ChannelCommands THEN ChannelCommand(s, command.name, Parse(command))
  ELSE IF command.name \in ClientCommands THEN ClientCommand(s, command.name, Parse(command))
  ELSE s

ProcessCommand(s, command) ==
  LET name == command.name
      entries == Parse(command)
  IN IF name = "notifyconnectioninforequest" THEN [s EXCEPT !.infoRequested = TRUE]
     ELSE IF name \notin ChannelCommands \cup ClientCommands \cup UserCommands THEN s
     ELSE IF entries = Throws THEN Fail(s)
     ELSE IF name \in ChannelCommands THEN ChannelCommand(s, name, entries)
     ELSE IF name \in ClientCommands THEN ClientCommand(s, name, entries)
     ELSE UserCommand(s, name, entries)

(***************************************************************************)
(* channellistfinished: the tree must be whole, our own channel must be     *)
(* known, by our own introduction or as the default channel, and all        *)
(* channels are subscribed to.                                              *)
(***************************************************************************)
InitialChannel(s) ==
  LET defaults == SelectSeq(TreeEntries(s.store), LAMBDA e : s.store.channels[e.id].defaultChannel = 1)
  IN IF Place(s, Self) # 0 THEN Place(s, Self)
     ELSE IF defaults # <<>> THEN Head(defaults).id ELSE s.current

FinishInitialState(s, command) ==
  IF command.rows # <<>> \/ TreeThrows(s.store) THEN Fail(s)
  ELSE IF InitialChannel(s) \notin Ids(s.store) THEN Fail(s)
  ELSE LET placed == Send(EnterSelf(s, InitialChannel(s)), ChannelSubscribeAll)
       IN IF ValidateThrows(s.clients, placed.store) THEN Fail(placed)
          ELSE [placed EXCEPT !.complete = TRUE]

(***************************************************************************)
(* Voice is sent with the codec and the encryption of the current channel;  *)
(* 0 stands for the exception.                                              *)
(***************************************************************************)
CurrentVoiceCodec(s) ==
  IF s.current \notin Ids(s.store) THEN 0
  ELSE IF s.store.channels[s.current].codec \in {4, 5} THEN s.store.channels[s.current].codec ELSE 0

(***************************************************************************)
(* The network thread: a command is received; an event is dispatched or a   *)
(* cycle run, each of which first brings the talkers' settings in step; the *)
(* cycle also processes an action of the user.                              *)
(***************************************************************************)
Members(s) == {c \in Others \cap DOMAIN s.clients :
                 s.clients[c].detailsKnown /\ s.clients[c].channelId = s.current}

\* The server shows the clients in the channels we subscribe to.
Visible(c) == server.at[c] \in server.subs \ {0}

Follow(who, event) ==
  CASE event.kind = "joined" -> who \cup {event.id}
    [] event.kind = "left" -> who \ {event.id}
    [] OTHER -> who

Receive ==
  /\ wire # <<>> /\ ~session.failed /\ Len(session.events) < MaxEvents
  /\ LET command == Head(wire)
         s == IF command.name = "channellistfinished" /\ ~session.complete
              THEN FinishInitialState(session, command) ELSE ProcessCommand(session, command)
         fresh == SubSeq(s.events, Len(session.events) + 1, Len(s.events))
     IN /\ session' = [s EXCEPT !.sent = <<>>]
        /\ requests' = requests \o s.sent
        /\ roster' = IF s.current # session.current \/ ~session.complete THEN Members(s)
                     ELSE FoldLeft(Follow, roster, fresh)
  /\ wire' = Tail(wire) /\ played' = <<0, 0>>
  /\ UNCHANGED <<runtimeVars, server, ops>>

Load(uid) == IF config[uid] = Unreadable THEN 0 ELSE config[uid]

ActiveIds(s) == {c \in DOMAIN s.clients \ {Self} : s.clients[c].detailsKnown /\ s.clients[c].uniqueId # 0}

\* Settings are loaded once per client id, whoever has it now.
MutantKeepsIdentity(s, c) ==
  IF c \in DOMAIN identities THEN <<identities[c], talkers[c]>>
  ELSE <<s.clients[c].uniqueId, Load(s.clients[c].uniqueId)>>

\* The identity and the setting of one client after SyncTalkerSettings.
SyncTalker(s, c) ==
  LET uid == s.clients[c].uniqueId
  IN IF c \in DOMAIN identities /\ identities[c] = uid THEN <<uid, talkers[c]>> ELSE <<uid, Load(uid)>>

SyncTalkerSettings(s) == [c \in ActiveIds(s) |-> SyncTalker(s, c)]

Synced ==
  /\ identities' = [c \in ActiveIds(session) |-> SyncTalkerSettings(session)[c][1]]
  /\ talkers' = [c \in ActiveIds(session) |-> SyncTalkerSettings(session)[c][2]]

Dispatch ==
  /\ session.events # <<>> /\ ~session.failed
  /\ session' = [session EXCEPT !.events = Tail(@)]
  /\ Synced
  /\ UNCHANGED <<config, server, wire, requests, roster, played, ops>>

\* A voice packet of a client: its own event, with the settings it is played with.
Voice(c) ==
  /\ session.complete /\ ~session.failed /\ session.events = <<>>
  /\ wire = <<>> /\ Visible(c)
  /\ Synced
  /\ played' = <<IF c \in DOMAIN talkers' THEN talkers'[c] ELSE 0, Load(server.who[c].uid)>>
  /\ UNCHANGED <<session, config, server, wire, requests, roster, ops>>

Cycle == session.complete /\ ~session.failed /\ session.events = <<>> /\ session.removal = NoValue

UserDoes == Cycle /\ ops < MaxOps /\ ops' = ops + 1 /\ UNCHANGED <<server, wire, roster, played>>

(***************************************************************************)
(* TargetResolver and ActionProcessor.  Candidates are in the order of the  *)
(* tree or of client ids; a unique match is needed for settings.            *)
(***************************************************************************)
TargetCandidate(id, name) == [id |-> id, name |-> name]

ClientCandidates(s) ==
  LET ids == SetToSortSeq({c \in DOMAIN s.clients : s.clients[c].detailsKnown /\ s.clients[c].nickname # 0}, <)
  IN [i \in DOMAIN ids |-> TargetCandidate(ids[i], s.clients[ids[i]].nickname)]

ChannelCandidates(s) ==
  LET entries == TreeEntries(s.store)
  IN [i \in DOMAIN entries |-> TargetCandidate(entries[i].id, s.store.channels[entries[i].id].name)]

\* The names 1 and 2 differ in case only.
EqualAsciiInsensitive(a, b) == (a + 1) \div 2 = (b + 1) \div 2

\* The exact matches or, if there are none, those that differ in case.
Matches(candidates, name) ==
  LET exact == SelectSeq(candidates, LAMBDA c : c.name = name)
  IN IF exact # <<>> THEN exact
     ELSE SelectSeq(candidates, LAMBDA c : EqualAsciiInsensitive(c.name, name))

Resolve(candidates, name) ==
  LET matches == Matches(candidates, name) IN IF matches = <<>> THEN 0 ELSE Head(matches).id

ResolveUniqueClient(s, name) ==
  LET matches == Matches(ClientCandidates(s), name)
  IN IF Len(matches) # 1 THEN 0 ELSE Head(matches).id

\* An action sends a request, or pushes an error and sends nothing.
Request(request) ==
  /\ UserDoes /\ Synced
  /\ requests' = Append(requests, request)
  /\ UNCHANGED <<session, config>>

SendPrivateMessage(name) ==
  LET target == Resolve(ClientCandidates(session), name)
  IN target # 0 /\ Request(SendTextMessage(target))

\* The tree is walked for the candidates, and throws when it is broken.
JoinChannel(name) ==
  IF TreeThrows(session.store)
  THEN UserDoes /\ Synced /\ session' = Fail(session) /\ UNCHANGED <<requests, config>>
  ELSE LET target == Resolve(ChannelCandidates(session), name)
       IN target # 0 /\ Request(ClientMove(target))

MoveToChannel(channel) == channel \in Ids(session.store) /\ Request(ClientMove(channel))
ChangeNickname(name) == Request(ClientUpdate(name))

StoreAudio(c, setting) ==
  /\ UserDoes /\ c # Self /\ c \in ActiveIds(session)
  /\ LET uid == session.clients[c].uniqueId
     IN /\ config' = [config EXCEPT ![uid] = setting]
        /\ identities' = [d \in ActiveIds(session) |-> SyncTalkerSettings(session)[d][1]]
        /\ talkers' = [d \in ActiveIds(session) |->
                         IF d = c THEN setting ELSE SyncTalkerSettings(session)[d][2]]
  /\ UNCHANGED <<session, requests>>

ProcessSetUserAudio(c, setting) == StoreAudio(c, setting)

ProcessUserSettings(name, setting) ==
  LET target == ResolveUniqueClient(session, name)
  IN target \in ActiveIds(session) /\ StoreAudio(target, setting)

\* ProcessTimers: asked for, nothing unacknowledged, and a second since the last.
SendConnectionInfo ==
  /\ session.infoRequested /\ ~session.failed /\ requests = <<>>
  /\ session' = [session EXCEPT !.infoRequested = FALSE]
  /\ requests' = <<SetConnectionInfo>>
  /\ UNCHANGED <<runtimeVars, server, wire, roster, played, ops>>

(***************************************************************************)
(* The server (external).  It acts when the client has everything it sent;  *)
(* an operation changes its state and sends what the client may see of it.  *)
(***************************************************************************)
Channels == UNION {Range(server.kids[p]) : p \in DOMAIN server.kids}
Before(order, i) == IF i = 1 THEN 0 ELSE order[i - 1]
Index(order, x) == CHOOSE i \in DOMAIN order : order[i] = x
ParentOf(ch) == CHOOSE p \in DOMAIN server.kids : ch \in Range(server.kids[p])
Clients == {Self} \cup Others

ChannelWire(kids, label, ch, parent) ==
  [cid |-> ch, cpid |-> parent, channel_order |-> Before(kids[parent], Index(kids[parent], ch)),
   channel_name |-> label[ch], channel_flag_default |-> IF ch = 1 THEN 1 ELSE 0,
   channel_codec |-> 3 + label[ch], channel_flag_permanent |-> 1]

Introduce(s, c, known) ==
  LET row == [clid |-> c, client_nickname |-> s.who[c].nick,
              client_unique_identifier |-> s.who[c].uid, client_input_muted |-> 0]
  IN IF known THEN row @@ ("ctid" :> s.at[c]) ELSE row

Moved(c, ch) == Command("notifyclientmoved", <<[clid |-> c, ctid |-> ch, reasonid |-> 0]>>)
Enter(s, who) ==
  IF who = {} THEN <<>>
  ELSE <<Command("notifycliententerview",
                 LET order == SetToSeq(who) IN [i \in DOMAIN order |-> Introduce(s, order[i], TRUE)])>>

ServerDoes == wire = <<>> /\ ~session.failed /\ session.removal = NoValue /\ ops < MaxOps
Serve(s, commands) ==
  /\ ServerDoes /\ ops' = ops + 1
  /\ server' = s /\ wire' = commands
  /\ UNCHANGED <<session, runtimeVars, requests, roster, played>>

CreateChannel(ch, parent, i) ==
  /\ ch \notin Channels /\ parent \in Channels \cup {0}
  /\ i \in 1 .. Len(server.kids[parent]) + 1
  /\ LET kids == [server.kids EXCEPT ![parent] = InsertAt(@, i, ch)]
     IN Serve([server EXCEPT !.kids = kids, !.label[ch] = 1],
              <<Command("notifychannelcreated",
                        <<ChannelWire(kids, [server.label EXCEPT ![ch] = 1], ch, parent)>>)>>)

DeleteChannel(ch) ==
  /\ ch \in Channels \ {1} /\ server.kids[ch] = <<>> /\ \A c \in Clients : server.at[c] # ch
  /\ LET parent == ParentOf(ch)
     IN Serve([server EXCEPT !.kids[parent] = SelectSeq(@, LAMBDA k : k # ch), !.subs = @ \ {ch}],
              <<Command("notifychanneldeleted", <<[cid |-> ch]>>)>>)

\* A move below another channel of the same depth or to another place, told as a move or an edit.
PlaceChannel(ch, parent, i, edit) ==
  /\ ch \in Channels /\ parent \in (Channels \cup {0}) \ {ch}
  /\ server.kids[ch] = <<>> \/ parent = 0
  /\ LET without == [p \in DOMAIN server.kids |-> SelectSeq(server.kids[p], LAMBDA k : k # ch)]
         kids == [without EXCEPT ![parent] = InsertAt(@, i, ch)]
         after == Before(kids[parent], i)
     IN /\ i \in 1 .. Len(without[parent]) + 1
        /\ Serve([server EXCEPT !.kids = kids],
                 IF edit THEN <<Command("notifychanneledited",
                                        <<[cid |-> ch, cpid |-> parent, channel_order |-> after]>>)>>
                 ELSE <<Command("notifychannelmoved", <<[cid |-> ch, cpid |-> parent, order |-> after]>>)>>)

EditChannel(ch, n) ==
  /\ ch \in Channels /\ n # server.label[ch]
  /\ Serve([server EXCEPT !.label[ch] = n],
           <<Command("notifychanneledited",
                     <<[cid |-> ch, channel_name |-> n, channel_codec |-> 3 + n]>>)>>)

(* A client comes: introduced at once, or its placement told separately.   *)
ClientComes(c, ch, uid, how) ==
  /\ server.at[c] = 0 /\ ch \in Channels
  /\ \A d \in Others : server.at[d] # 0 => server.who[d].uid # uid
  /\ LET s == [server EXCEPT !.at[c] = ch, !.who[c] = [nick |-> 1, uid |-> uid]]
         bare == Command("notifycliententerview", <<Introduce(s, c, FALSE)>>)
     IN Serve(s, CASE ch \notin server.subs -> <<>>
                   [] how = "placed" -> Enter(s, {c})
                   [] how = "move first" -> <<Moved(c, ch), bare>>
                   [] how = "move after" -> <<bare, Moved(c, ch)>>)

\* What the client sees of a move of c to ch, itself included.
MoveCommands(s, c, ch) ==
  LET left == <<Command("notifyclientleftview", <<[clid |-> c, cfid |-> server.at[c], ctid |-> ch]>>)>>
  IN IF c = Self THEN <<Moved(Self, ch)>> \o Enter(s, {d \in Others : s.at[d] = ch /\ ~Visible(d)})
     ELSE IF Visible(c) THEN IF ch \in server.subs THEN <<Moved(c, ch)>> ELSE left
     ELSE IF ch \in server.subs THEN Enter(s, {c}) ELSE <<>>

MovedServer(c, ch) ==
  [server EXCEPT !.at[c] = ch, !.subs = IF c = Self THEN @ \cup {ch} ELSE @]

MoveClientTo(c, ch) ==
  /\ server.at[c] # 0 /\ ch \in Channels \ {server.at[c]}
  /\ Serve(MovedServer(c, ch), MoveCommands(MovedServer(c, ch), c, ch))

\* A client goes, or the client itself is removed (a kick, a shutdown).
ClientGoes(c) ==
  /\ server.at[c] # 0
  /\ Serve([server EXCEPT !.at[c] = 0],
           IF c = Self \/ Visible(c)
           THEN <<Command("notifyclientleftview", <<[clid |-> c, cfid |-> server.at[c], reasonid |-> 5]>>)>>
           ELSE <<>>)

RenameClient(c, nick) ==
  /\ Visible(c) /\ nick # server.who[c].nick
  /\ Serve([server EXCEPT !.who[c].nick = nick],
           <<Command("notifyclientupdated", <<[clid |-> c, client_nickname |-> nick]>>)>>)

Unsubscribe(ch) ==
  /\ ch \in server.subs \ {server.at[Self]}
  /\ Serve([server EXCEPT !.subs = @ \ {ch}], <<Command("notifychannelunsubscribed", <<[cid |-> ch]>>)>>)

\* Text to our channel or to us, a poke, and a request for the connection info.
Speak(c, mode) ==
  /\ Visible(c)
  /\ Serve(server, <<Command("notifytextmessage",
                             <<[targetmode |-> mode, msg |-> 1, invokerid |-> c,
                                invokername |-> server.who[c].nick]>>)>>)

Ask(name) ==
  Serve(server, <<Command(name, <<[invokerid |-> 0, invokername |-> 1, invokeruid |-> 1, msg |-> 1]>>)>>)

\* A command with a good row and one the parser rejects.
SendMalformed(c) ==
  /\ Visible(c)
  /\ Serve(server, <<Command("notifyclientmoved",
                             <<[clid |-> c, ctid |-> 1, reasonid |-> 0], [clid |-> 0, ctid |-> 1, reasonid |-> 0]>>)>>)

HandleRequest ==
  /\ requests # <<>> /\ wire = <<>> /\ ~session.failed /\ session.removal = NoValue
  /\ LET kind == Head(requests)[1]
         id == Head(requests)[2]
         error == <<Command("error", <<[id |-> 768, msg |-> 1]>>)>>
         wanted == (IF kind = "channelsubscribeall" THEN Channels ELSE {id} \cap Channels) \ server.subs
         subscribed == [server EXCEPT !.subs = @ \cup wanted]
         order == SetToSeq(wanted)
     IN CASE kind \in {"channelsubscribeall", "channelsubscribe"} ->
               IF wanted = {} THEN wire' = <<>> /\ UNCHANGED server
               ELSE /\ server' = subscribed
                    /\ wire' = <<Command("notifychannelsubscribed", [i \in DOMAIN order |-> [cid |-> order[i]]])>>
                               \o Enter(subscribed, {c \in Others : server.at[c] \in wanted})
          [] kind = "clientmove" ->
               IF id \notin Channels \/ id = server.at[Self] THEN wire' = error /\ UNCHANGED server
               ELSE server' = MovedServer(Self, id) /\ wire' = MoveCommands(MovedServer(Self, id), Self, id)
          [] kind = "clientupdate" ->
               /\ server' = [server EXCEPT !.who[Self].nick = id]
               /\ wire' = <<Command("notifyclientupdated", <<[clid |-> Self, client_nickname |-> id]>>)>>
          [] kind \in {"sendtextmessage", "setconnectioninfo"} -> wire' = <<>> /\ UNCHANGED server
  /\ requests' = Tail(requests)
  /\ UNCHANGED <<session, runtimeVars, roster, played, ops>>

(***************************************************************************)
(* Init: logged in, the channel list on its way, our own introduction       *)
(* before its end or after it; one other client may be in a channel we do   *)
(* not see yet.                                                             *)
(***************************************************************************)
InitialTrees == {(0 :> <<1, 2>>), (0 :> <<1>> @@ 1 :> <<2>>)}
Tree(t) == [p \in Channel \cup {0} |-> IF p \in DOMAIN t THEN t[p] ELSE <<>>]
FirstOther == Min(Others)

Init ==
  /\ \E t \in InitialTrees, at \in {0, 2} :
       server = [kids |-> Tree(t), label |-> [ch \in Channel |-> 1],
                 at |-> [c \in Clients |-> IF c = Self THEN 1 ELSE IF c = FirstOther THEN at ELSE 0],
                 who |-> [c \in Clients |-> [nick |-> 1, uid |-> 1]], subs |-> {1}]
  /\ \E first \in {"child", "parent"} :
       LET List(ch) == Command("channellist", <<ChannelWire(server.kids, server.label, ch, ParentOf(ch))>>)
           finished == <<Command("channellistfinished", <<>>)>>
           intro == Enter(server, {Self})
       IN wire = IF first = "child" THEN <<List(2), List(1)>> \o intro \o finished
                 ELSE <<List(1), List(2)>> \o finished \o intro
  /\ session = [store |-> EmptyChannels, clients |-> EmptyClients, current |-> 0, nickname |-> 1,
                complete |-> FALSE, infoRequested |-> FALSE, removal |-> NoValue, events |-> <<>>,
                sent |-> <<>>, failed |-> FALSE]
  /\ identities = <<>> /\ talkers = <<>>
  /\ config = [u \in Uid |-> IF u = 1 THEN 1 ELSE Unreadable]
  /\ requests = <<>> /\ roster = {} /\ played = <<0, 0>> /\ ops = 0

ServerNext ==
  /\ ServerDoes
  /\ \/ \E ch \in Channel, parent \in Channel \cup {0}, i \in 1 .. Cardinality(Channel) :
          CreateChannel(ch, parent, i)
     \/ \E ch \in Channel : DeleteChannel(ch)
     \/ \E ch \in Channel, parent \in Channel \cup {0}, i \in 1 .. Cardinality(Channel), edit \in BOOLEAN :
          PlaceChannel(ch, parent, i, edit)
     \/ \E ch \in Channel, n \in Name : EditChannel(ch, n)
     \/ \E c \in Others, ch \in Channel, uid \in Uid, how \in {"placed", "move first", "move after"} :
          ClientComes(c, ch, uid, how)
     \/ \E c \in Clients, ch \in Channel : MoveClientTo(c, ch)
     \/ \E c \in Clients : ClientGoes(c)
     \/ \E c \in Others, nick \in Name : RenameClient(c, nick)
     \/ \E ch \in Channel : Unsubscribe(ch)
     \/ \E c \in Others, mode \in 1 .. 3 : Speak(c, mode)
     \/ \E name \in {"notifyclientpoke", "notifyconnectioninforequest"} : Ask(name)
     \/ \E c \in Others : SendMalformed(c)

UserNext ==
  /\ Cycle /\ ops < MaxOps
  /\ \/ \E name \in Name : SendPrivateMessage(name) \/ JoinChannel(name) \/ ChangeNickname(name)
     \/ \E ch \in Channel : MoveToChannel(ch)
     \/ \E c \in Others, setting \in Setting : ProcessSetUserAudio(c, setting)
     \/ \E name \in Name, setting \in Setting : ProcessUserSettings(name, setting)

Next ==
  \/ Receive \/ Dispatch \/ SendConnectionInfo \/ HandleRequest
  \/ \E c \in Others : Voice(c)
  \/ ServerNext \/ UserNext

Spec == Init /\ [][Next]_vars

-----------------------------------------------------------------------------
(***************************************************************************)
(* Properties.                                                              *)
(***************************************************************************)
\* Whenever the client has everything the server sent, its mirror is the
\* server's own picture: the chains of ChannelStore order every channel's
\* children as the server does and Tree does not throw, our channel and the
\* codec of our voice are right, and ClientStore holds exactly the clients
\* the server shows, fully introduced, in their place.
MirrorIsServer ==
  wire = <<>> /\ session.complete /\ ~session.failed /\ session.removal = NoValue =>
    /\ ~TreeThrows(session.store)
    /\ Ids(session.store) = Channels
    /\ \A p \in Channels \cup {0} : OrderedChildren(session.store, p) = server.kids[p]
    /\ \A ch \in Channels : /\ session.store.channels[ch].name = server.label[ch]
                             /\ session.store.channels[ch].subscribed = (ch \in server.subs)
    /\ session.current = server.at[Self]
    /\ CurrentVoiceCodec(session) = 3 + server.label[server.at[Self]]
    /\ DOMAIN session.clients \ {Self} = {c \in Others : Visible(c)}
    /\ \A c \in DOMAIN session.clients :
         /\ session.clients[c].channelId = server.at[c] /\ session.clients[c].detailsKnown
         /\ session.clients[c].nickname = server.who[c].nick

\* The joined and left events since we entered our channel add up to who is
\* in it: no client is announced twice, none leaves that was not there, and
\* none slips in or out unseen, however the server tells a client's coming.
PresenceIsTrue == session.complete /\ ~session.failed => roster = Members(session)

\* A command that throws, in its parser or in ChannelStore::Move, has changed
\* nothing: no row of it is applied and nothing is announced or requested.
FailedCommandChangesNothing ==
  [][session'.failed /\ ~session.failed =>
       /\ session' = [session EXCEPT !.failed = TRUE] /\ requests' = requests]_vars

\* The voice of a client we see is played with the settings stored for the
\* user who has that client id now, whoever had it before.
VoiceHasItsUsersSettings == played[1] = played[2]

\* A reply to a text message goes where it came from: to its sender, or to
\* the channel the sender wrote in.
RepliesReachSender ==
  wire # <<>> /\ Head(wire).name = "notifytextmessage" /\ ~session.failed =>
    LET message == ParseTextMessage(Head(wire))[1]
    IN ReplyTargetFor(session, message) =
         CASE message.targetMode = TargetMode.private -> <<TargetMode.private, message.invokerId>>
           [] message.targetMode = TargetMode.channel -> <<TargetMode.channel, server.at[message.invokerId]>>
           [] message.targetMode = TargetMode.server -> <<TargetMode.server, 0>>

=============================================================================
