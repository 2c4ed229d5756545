----------------------------- MODULE GtkClient -----------------------------
(***************************************************************************)
(* The GTK client between its threads: the UI thread with its window, its  *)
(* 50 ms tick and its handlers; the thread that connects a Session; the    *)
(* network thread of the session's runtime, which publishes events until   *)
(* it closes their queue; and the audio worker, which wakes the connection *)
(* that NetworkWake points to.  What the server sends is an event for the  *)
(* view: a snapshot of the server, who is talking, or a line of a          *)
(* conversation.  The view is what the channel tree shows of the last      *)
(* snapshot and of the unread lines.                                       *)
(***************************************************************************)
EXTENDS Naturals, Sequences

CONSTANTS
    Channels,       \* the server's channels
    Visited,        \* the ones the client may be in
    MaxSessions,    \* bound on the connection attempts
    MaxEvents,      \* bound on the events published
    MaxQueued       \* bound on the actions in the queue

ASSUME GtkAssumption ==
    /\ Visited \subseteq Channels
    /\ {MaxSessions, MaxEvents, MaxQueued} \subseteq Nat

VARIABLES
    window,     \* "open", "hidden" (its hide handler has queued the end), "gone"
    ui,         \* where the UI thread is in a tick or in Shutdown
    state,      \* MainWindow::m_State
    session,    \* MainWindow::m_Session
    networkWake, \* NetworkWake::m_Connection: the session it belongs to, or 0
    eventQueue, \* the session's event queue
    actionQueue, \* how many actions the session's action queue holds
    view,       \* what the UI thread knows: snapshot, talkers, conversations
    tree,       \* what the channel tree shows
    audio,      \* microphone: transmission, its test, and what to restore
    left,       \* what is left of the bounds
    last        \* history: how the last sessions ended

connectionVars == <<state, session, networkWake, eventQueue, actionQueue>>
viewVars == <<view, tree>>
gtkVars == <<window, ui, connectionVars, viewVars, audio, left, last>>

\* The rows of the tree, and the conversation each one opens.
Conversations == {"server", "client"} \cup Channels
Snapshots == [channel : Visited, client : BOOLEAN]

\* What the network thread may publish.
Events == [kind : {"snapshot"}, snapshot : Snapshots]
     \cup [kind : {"talk"}, talking : BOOLEAN]
     \cup [kind : {"line"}, to : Conversations]

\* A bounded thing happens once more.
Uses(what) == left[what] > 0 /\ left' = [left EXCEPT ![what] = @ - 1]

\* Session::Session: the connector runs, there is no runtime yet.  "late" is
\* history: the user gave the attempt up after its thread had looked whether
\* he had.
NewSession(n) ==
    [n |-> n, connector |-> "connecting", abandoned |-> FALSE, late |-> FALSE,
     error |-> FALSE, connection |-> "none", runtime |-> "none", stop |-> FALSE,
     started |-> FALSE, published |-> [channel |-> "none", client |-> FALSE]]

NoSession == [NewSession(0) EXCEPT !.connector = "none"]
NoSnapshot == [channel |-> "none", client |-> FALSE]
NoUnread == [c \in Conversations |-> 0]
NoRows == [rows |-> {}, current |-> "none", unread |-> NoUnread, selected |-> "none", talking |-> FALSE]

\* "tested": when the last session that had started ended, a microphone test
\* was holding its transmission back.
NothingLeft == [asked |-> FALSE, late |-> FALSE, parted |-> TRUE, unseen |-> 0, tested |-> FALSE]

GtkInit ==
    /\ window = "open" /\ ui = "idle" /\ state = "Disconnected"
    /\ session = NoSession /\ networkWake = 0 /\ eventQueue = <<>> /\ actionQueue = 0
    /\ view = [snapshot |-> NoSnapshot, talking |-> FALSE, unread |-> NoUnread,
               active |-> "server", userSelected |-> FALSE, dirty |-> TRUE]
    /\ tree = NoRows
    /\ audio = [transmit |-> FALSE, options |-> "closed", restore |-> FALSE]
    /\ left = [sessions |-> MaxSessions, events |-> MaxEvents]
    /\ last = NothingLeft

Exists == session.n # 0

----------------------------------------------------------------------------
(* The thread that connects.                                               *)

ConnectorVars == <<window, ui, state, networkWake, eventQueue, actionQueue, viewVars, audio, left, last>>

\* Connect is in a ReceiveCommand: the handshake's waits on while fragments
\* it holds are repeated, and the login's, which has no timeout, while the
\* server acknowledges everything and does not answer.
ConnectWaits ==
    /\ Exists /\ session.connector = "connecting"
    /\ session' = [session EXCEPT !.connector = "waiting"]
    /\ UNCHANGED ConnectorVars

\* The connection could not be made: resolving, handshake or login failed.
ConnectFails ==
    /\ Exists /\ session.connector \in {"connecting", "waiting"}
    /\ session' = [session EXCEPT !.error = TRUE, !.connection = "failed", !.connector = "finished"]
    /\ UNCHANGED ConnectorVars

\* The server's initserver arrives.
ConnectSucceeds ==
    /\ Exists /\ session.connector = "waiting"
    /\ session' = [session EXCEPT !.connection = "open", !.connector = "established"]
    /\ UNCHANGED ConnectorVars

\* An attempt that was abandoned meanwhile leaves the server again.
ConnectorChecks ==
    /\ Exists /\ session.connector = "established"
    /\ session' = [session EXCEPT !.connector = "finished",
                                  !.error = session.abandoned,
                                  !.connection = IF session.abandoned THEN "left" ELSE @]
    /\ UNCHANGED ConnectorVars

----------------------------------------------------------------------------
(* The network thread of the runtime.                                      *)

NetVars == <<window, ui, state, networkWake, viewVars, audio, last>>

\* One event of a cycle.  PublishServerSnapshotIfChanged comes before what
\* else a cycle publishes, except for the line that the client has changed
\* its channel.
Publish(e) ==
    /\ Exists /\ session.runtime = "running" /\ Uses("events")
    /\ IF e.kind = "snapshot"
       THEN /\ e.snapshot # session.published
            /\ session' = [session EXCEPT !.published = e.snapshot]
       ELSE /\ session.published # NoSnapshot \/ (e.kind = "line" /\ e.to \in Channels)
            /\ UNCHANGED session
    /\ eventQueue' = Append(eventQueue, e)
    /\ UNCHANGED <<NetVars, actionQueue>>

\* ProcessActions takes what the user sent.
ProcessAction ==
    /\ Exists /\ session.runtime = "running" /\ actionQueue > 0
    /\ actionQueue' = actionQueue - 1
    /\ UNCHANGED <<NetVars, session, eventQueue, left>>

\* Connection::Run returns: it said goodbye because it was asked to stop, or
\* the session was ended by the server, a timeout or an error, which is
\* published, or by an exception, which Join throws again.
RunEnds ==
    /\ Exists /\ session.runtime = "running"
    /\ \/ /\ session.stop
          /\ session' = [session EXCEPT !.runtime = "ending", !.connection = "left"]
          /\ UNCHANGED eventQueue
       \/ /\ session' = [session EXCEPT !.runtime = "ending", !.connection = "failed"]
          /\ eventQueue' \in {eventQueue, Append(eventQueue, [kind |-> "line", to |-> "active"])}
    /\ UNCHANGED <<NetVars, actionQueue, left>>

RuntimeCloses ==
    /\ Exists /\ session.runtime = "ending"
    /\ session' = [session EXCEPT !.runtime = "closed"]
    /\ UNCHANGED <<NetVars, eventQueue, actionQueue, left>>

----------------------------------------------------------------------------
(* The view.                                                               *)

\* Mutant: selecting a conversation leaves the count of its row.
MutantKeepsCount(v, c) ==
    [v EXCEPT !.active = c, !.unread[c] = 0, !.dirty = @ \/ ~v.userSelected]

\* MainWindow::SelectConversation and ConversationLog::SetActive
Select(v, c) ==
    [v EXCEPT !.active = c, !.unread[c] = 0,
              !.dirty = @ \/ v.unread[c] # 0 \/ ~v.userSelected]

\* MainWindow::AppendLine and ConversationLog::Append
AppendLine(v, c) ==
    IF c \in {"active", v.active} THEN v
    ELSE [v EXCEPT !.unread[c] = @ + 1, !.dirty = TRUE]

\* One event of DrainEvents; RouteEvent names the conversation of a line.
Shown(v, e) ==
    CASE e.kind = "snapshot" ->
            LET seen == [v EXCEPT !.snapshot = e.snapshot, !.dirty = TRUE]
            IN  IF v.userSelected THEN seen ELSE Select(seen, e.snapshot.channel)
      [] e.kind = "talk" -> [v EXCEPT !.talking = e.talking]
      [] e.kind = "line" -> AppendLine(v, e.to)

\* The rows a snapshot gives: the server, its channels, and the client in
\* one of them.
Rows(snapshot) ==
    {"server"} \cup (IF snapshot.channel = "none" THEN {} ELSE Channels)
               \cup (IF snapshot.client THEN {"client"} ELSE {})

\* ChannelTree::Update
Update(v) ==
    LET rows == Rows(v.snapshot)
    IN  [rows |-> rows,
         current |-> v.snapshot.channel,
         unread |-> [c \in Conversations |-> IF c \in rows THEN v.unread[c] ELSE 0],
         selected |-> IF v.active \in rows THEN v.active ELSE "none",
         talking |-> "client" \in rows /\ v.talking]

\* ChannelTree::ApplyTalking, at once, on the rows there are
Talking(t, v) == [t EXCEPT !.talking = "client" \in t.rows /\ v.talking]

\* ChannelTree::Clear
Cleared(v) == [v EXCEPT !.talking = FALSE]

----------------------------------------------------------------------------
(* Ticks.                                                                  *)

Restarts(v) ==
    Select([v EXCEPT !.snapshot = NoSnapshot, !.unread = NoUnread, !.userSelected = FALSE,
                     !.talking = FALSE], "server")

\* The Session is destroyed: its runtime has ended and its connector joined.
\* "last" keeps what it left behind.
Destroy(tested) ==
    /\ session' = NoSession
    /\ networkWake' = 0
    /\ eventQueue' = <<>> /\ actionQueue' = 0
    /\ last' = [asked |-> session.abandoned \/ session.stop,
                late |-> session.late,
                parted |-> session.connection # "open",
                unseen |-> Len(eventQueue),
                tested |-> tested]

\* Mutant: an attempt cancelled as it succeeded is destroyed as it is.
MutantDropsLateSuccess ==
    /\ session.connector = "finished" /\ (session.error \/ session.abandoned)
    /\ ui' = "tree" /\ state' = "Disconnected"
    /\ Destroy(last.tested)
    /\ UNCHANGED <<window, viewVars, audio, left>>

\* Session::Poll and PollSession when the attempt has failed, or has been
\* cancelled just as it succeeded: the connection is left.
PollFailed ==
    /\ session.connector = "finished" /\ (session.error \/ session.abandoned)
    /\ ui' = "tree" /\ state' = "Disconnected"
    /\ session' = NoSession /\ networkWake' = 0 /\ eventQueue' = <<>> /\ actionQueue' = 0
    /\ last' = [last EXCEPT !.asked = session.abandoned, !.late = session.late,
                            !.parted = TRUE, !.unseen = 0]
    /\ UNCHANGED <<window, viewVars, audio, left>>

\* The runtime is made and started, or that fails.  A session that starts
\* while it is being cancelled is stopped at once.
PollConnected ==
    /\ session.connector = "finished" /\ ~session.error /\ ~session.abandoned
    /\ \/ /\ ui' = "drain"
          /\ networkWake' = session.n
          /\ session' = [session EXCEPT !.connector = "joined", !.runtime = "running",
                                        !.started = TRUE, !.stop = state = "Disconnecting"]
          /\ state' = IF state = "Disconnecting" THEN state ELSE "Connected"
          /\ UNCHANGED <<eventQueue, actionQueue, last>>
       \/ ui' = "tree" /\ state' = "Disconnected" /\ Destroy(last.tested)
    /\ UNCHANGED <<window, viewVars, audio, left>>

\* MainWindow::Tick, as far as PollSession gets without the event queue.
TickNothing ==
    /\ \/ ~Exists
       \/ ~session.started /\ session.connector # "finished"
    /\ ui' = "tree"
    /\ UNCHANGED <<window, connectionVars, viewVars, audio, left, last>>

TickDrains ==
    /\ Exists /\ session.started
    /\ ui' = "drain"
    /\ UNCHANGED <<window, connectionVars, viewVars, audio, left, last>>

Tick ==
    /\ ui = "idle" /\ window # "gone"
    /\ \/ TickNothing
       \/ TickDrains
       \/ Exists /\ ~session.started /\ (PollFailed \/ PollConnected)

\* DrainEvents, event by event; the last drain comes after Closed was seen.
Drain ==
    /\ ui \in {"drain", "last drain"} /\ eventQueue # <<>>
    /\ view' = Shown(view, Head(eventQueue))
    /\ tree' = IF Head(eventQueue).kind = "talk" THEN Talking(tree, view') ELSE tree
    /\ eventQueue' = Tail(eventQueue)
    /\ UNCHANGED <<window, ui, state, session, networkWake, actionQueue, audio, left, last>>

Drained ==
    /\ ui = "drain" /\ eventQueue = <<>>
    /\ ui' = "ended"
    /\ UNCHANGED <<window, connectionVars, viewVars, audio, left, last>>

\* Session::Ended
AskEnded ==
    /\ ui = "ended"
    /\ ui' = IF session.runtime = "closed" THEN "last drain" ELSE "tree"
    /\ UNCHANGED <<window, connectionVars, viewVars, audio, left, last>>

\* MainWindow::EndSession mutes the microphone, whose test may go on.
EndSession ==
    /\ ui = "last drain" /\ eventQueue = <<>>
    /\ ui' = "tree" /\ state' = "Disconnected"
    /\ Destroy(audio.restore)
    /\ audio' = [audio EXCEPT !.transmit = FALSE]
    /\ view' = Cleared(view) /\ tree' = NoRows
    /\ UNCHANGED <<window, left>>

TickTree ==
    /\ ui = "tree"
    /\ ui' = "idle"
    /\ IF view.dirty /\ state = "Connected"
       THEN tree' = Update(view) /\ view' = [view EXCEPT !.dirty = FALSE]
       ELSE UNCHANGED viewVars
    /\ UNCHANGED <<window, connectionVars, audio, left, last>>

----------------------------------------------------------------------------
(* What the user does, between ticks.  The options are modal: while they    *)
(* are open nothing else of the window is reached.                          *)

Free == ui = "idle" /\ window = "open"
MainReached == Free /\ audio.options = "closed"

\* MainWindow::Connect: the view starts over, whether or not the identity
\* loads.
Connect ==
    /\ MainReached /\ state = "Disconnected" /\ Uses("sessions")
    /\ view' = Restarts(view) /\ tree' = NoRows
    /\ \/ session' = NewSession(left.sessions) /\ state' = "Connecting"
       \/ UNCHANGED <<session, state>>
    /\ last' = [NothingLeft EXCEPT !.tested = last.tested]
    /\ UNCHANGED <<window, ui, networkWake, eventQueue, actionQueue, audio>>

\* Session::RequestStop
RequestStop ==
    session' = IF session.runtime # "none" THEN [session EXCEPT !.stop = TRUE]
               ELSE [session EXCEPT !.abandoned = TRUE,
                                    !.late = IF session.abandoned THEN @
                                             ELSE session.connector = "finished"]

\* Cancel or Disconnect
ConnectClicked ==
    /\ MainReached /\ state \in {"Connecting", "Connected"}
    /\ RequestStop
    /\ state' = "Disconnecting"
    /\ UNCHANGED <<window, ui, networkWake, eventQueue, actionQueue, viewVars, audio, left, last>>

\* A row is selected, or right-clicked for its user audio, which selects it
\* too: the feed shows its conversation.
SelectRow ==
    /\ MainReached /\ state # "Disconnected"
    /\ \E c \in tree.rows \ {tree.selected} :
         /\ view' = Select([view EXCEPT !.userSelected = TRUE], c)
         /\ tree' = [tree EXCEPT !.selected = c]
    /\ UNCHANGED <<window, ui, connectionVars, audio, left, last>>

\* What the handlers push: joining a channel the client is not in, a message
\* to the selected conversation if it can be reached, a nickname from the
\* options, or settings of the client the popover was opened for, which stays
\* open when that client leaves.
MayPush(kind) ==
    CASE kind = "move" -> MainReached /\ (Channels \cap tree.rows) \ {view.snapshot.channel} # {}
      [] kind = "text" -> MainReached /\ \/ view.active \in {"server", view.snapshot.channel}
                                         \/ view.active = "client" /\ view.snapshot.client
      [] kind = "user audio" -> MainReached
      [] kind = "nickname" -> Free /\ audio.options # "closed"

PushAction ==
    /\ state = "Connected" /\ actionQueue < MaxQueued
    /\ \E kind \in {"move", "text", "user audio", "nickname"} : MayPush(kind)
    /\ actionQueue' = IF session.runtime = "closed" THEN actionQueue ELSE actionQueue + 1
    /\ UNCHANGED <<window, ui, state, session, networkWake, eventQueue, viewVars, audio, left, last>>

\* MainWindow::MicrophoneToggled; SyncAudioControls offers the button only
\* while connected.
ToggleMicrophone ==
    /\ MainReached /\ state = "Connected"
    /\ audio' = [audio EXCEPT !.transmit = ~@]
    /\ UNCHANGED <<window, ui, connectionVars, viewVars, left, last>>

\* AudioSettingsPage::SetMonitor: the test pauses transmission and what
\* ends the test restores it.
SetMonitor(to) ==
    IF to = "test"
    THEN [audio EXCEPT !.options = to, !.transmit = FALSE, !.restore = @ \/ audio.transmit]
    ELSE [audio EXCEPT !.options = to, !.transmit = @ \/ audio.restore, !.restore = FALSE]

OpenOptions ==
    /\ MainReached
    /\ audio' = SetMonitor("open")
    /\ UNCHANGED <<window, ui, connectionVars, viewVars, left, last>>

TestMicrophone ==
    /\ Free /\ audio.options # "closed"
    /\ audio' = SetMonitor(IF audio.options = "test" THEN "open" ELSE "test")
    /\ UNCHANGED <<window, ui, connectionVars, viewVars, left, last>>

CloseOptions ==
    /\ Free /\ audio.options # "closed"
    /\ audio' = SetMonitor("closed")
    /\ UNCHANGED <<window, ui, connectionVars, viewVars, left, last>>

----------------------------------------------------------------------------
(* Closing the window.                                                      *)

\* MainWindow::on_hide closes the options; the rest waits for an idle
\* callback, before which ticks may still run.
CloseWindow ==
    /\ ui = "idle" /\ window = "open"
    /\ window' = "hidden"
    /\ audio' = SetMonitor("closed")
    /\ UNCHANGED <<ui, connectionVars, viewVars, left, last>>

\* Mutant: the attempt or the runtime is waited for but not asked to stop.
MutantOnlyWaits ==
    /\ ui = "idle" /\ window = "hidden"
    /\ ui' = "closing"
    /\ networkWake' = IF Exists /\ session.started THEN 0 ELSE networkWake
    /\ UNCHANGED <<window, state, session, eventQueue, actionQueue, viewVars, audio, left, last>>

\* MainWindow::Shutdown: no more ticks; the session is asked to stop ...
Shutdown ==
    /\ ui = "idle" /\ window = "hidden"
    /\ ui' = "closing"
    /\ IF Exists THEN RequestStop ELSE UNCHANGED session
    /\ networkWake' = IF Exists /\ session.started THEN 0 ELSE networkWake
    /\ UNCHANGED <<window, state, eventQueue, actionQueue, viewVars, audio, left, last>>

\* ... and waited for: Join, or ~Session joining the connector.
ShutdownJoined ==
    /\ ui = "closing"
    /\ \/ ~Exists
       \/ session.runtime = "closed"
       \/ session.runtime = "none" /\ session.connector = "finished"

ShutdownEnds ==
    /\ ShutdownJoined
    /\ window' = "gone" /\ ui' = "gone"
    /\ Destroy(last.tested)
    /\ UNCHANGED <<state, viewVars, audio, left>>

----------------------------------------------------------------------------
Connector == ConnectWaits \/ ConnectFails \/ ConnectSucceeds \/ ConnectorChecks
Network == RunEnds \/ RuntimeCloses
UI == Tick \/ Drain \/ Drained \/ AskEnded \/ EndSession \/ TickTree
Closing == Shutdown \/ ShutdownEnds
User == \/ Connect \/ ConnectClicked \/ SelectRow \/ PushAction
        \/ ToggleMicrophone \/ OpenOptions \/ TestMicrophone \/ CloseOptions \/ CloseWindow

\* The application has ended.
Done == window = "gone" /\ UNCHANGED gtkVars

GtkNext == Connector \/ Network \/ (\E e \in Events : Publish(e)) \/ ProcessAction
        \/ UI \/ Closing \/ User \/ Done

\* Every thread runs, but that a connection attempt may wait for a command of
\* the server for as long as the server likes: a runtime asked to stop says
\* goodbye for at most DisconnectTimeout, the ticker fires and the idle
\* callback of the hide handler runs.
GtkSpec ==
    /\ GtkInit /\ [][GtkNext]_gtkVars
    /\ WF_gtkVars(Connector /\ session.connector # "waiting")
    /\ WF_gtkVars(Network /\ (session.stop \/ session.runtime # "running"))
    /\ WF_gtkVars(UI) /\ SF_gtkVars(Shutdown) /\ WF_gtkVars(ShutdownEnds)

----------------------------------------------------------------------------
(* Properties.                                                              *)

\* A session that is gone leaves nothing behind: NetworkWake, which the audio
\* worker follows at any time, points to no destroyed connection; a connection
\* the user cancelled or ended has left the server, also when it succeeded as
\* it was cancelled, unless he closed the window after the attempt's thread
\* had seen no cancelling and before a tick saw it connected (Shutdown stops
\* the ticks, and ~Session says no goodbye); and, until the application ends,
\* no handler is in a state in which it would use the session, and every event
\* the network thread published was shown, those published just before the
\* queue closed too.  Every session starts muted, unless the one before it
\* ended while a microphone test held its transmission back.
GoneLeavesNothing ==
    /\ networkWake # 0 => networkWake = session.n
    /\ ~Exists => (last.asked => last.parted \/ (window = "gone" /\ last.late))
    /\ ~Exists /\ window # "gone" => state = "Disconnected" /\ last.unseen = 0
    /\ ~session.started /\ window # "gone" => (audio.transmit \/ audio.restore => last.tested)

\* Between ticks, while connected, the channel tree shows the last snapshot,
\* the unread counts, the selection and who talks, or is marked to be rebuilt
\* (m_TreeDirty) and rebuilt by the next tick.
TreeIsCurrent ==
    state = "Connected" /\ ui = "idle" /\ ~view.dirty => tree = Update(view)

\* Cancelling an attempt, ending a session or closing the window takes
\* effect: the session comes to its end, and so does the application once its
\* window is closed (main's idle callback calls Shutdown, which waits).  That
\* is so unless the attempt waits for ever for a command of the server.
LeavingTakesEffect ==
    \/ (state = "Disconnecting" \/ window = "hidden" ~> ~Exists /\ window # "hidden")
    \/ <>[](session.connector = "waiting")
=============================================================================
