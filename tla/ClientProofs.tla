---------------------------- MODULE ClientProofs ----------------------------
(***************************************************************************)
(* Proofs about the two clients: the terminal client's two threads, for any *)
(* number of typed lines, packets, signals and exceptions; and, further     *)
(* down, the GTK client's window, sessions and channel tree, for any number *)
(* of sessions, channels and events.                                        *)
(***************************************************************************)
EXTENDS ClientRuntime, GtkClient, SequenceTheorems, TLAPS

NetPlace == {"dispatch", "loop", "cycle", "poll", "goodbye", "parting", "farewell", "announce",
             "close actions", "close events", "gone"}

(* The network thread takes no step after its last Push but to close. *)
Ending == {"close actions", "close events", "gone"}

RuntimeTypes ==
  /\ actions \in Seq(Nat) /\ accepted \in Seq(Nat) /\ executed \in Seq(Nat)
  /\ events \in Seq(Event) /\ pushed \in Seq(Event) /\ shown \in Seq(Event)
  /\ sessionEvents \in Seq(Event)
  /\ net \in NetPlace

(* A queue is what has gone in and not come out.  The event queue is closed  *)
(* by the last step of the network thread, so that no Push meets a closed    *)
(* queue; a thread on its way out says goodbye only when asked to stop, and  *)
(* publishes the end of the session before anything else unless it did.      *)
RuntimeInv ==
  /\ RuntimeTypes
  /\ pushed = shown \o events
  /\ accepted = executed \o actions
  /\ eventsClosed => net = "gone"
  /\ net \in {"goodbye", "parting", "farewell"} => stop
  /\ result = "LocalRequest" => stop /\ net \in Ending \cup {"announce"}
  /\ net \in Ending /\ result # "LocalRequest" => Contains(pushed, "disconnected")

-----------------------------------------------------------------------------
(* Pushing at one end of a queue and popping at the other keep what has gone *)
(* through it.                                                               *)
LEMMA QueuePush ==
  ASSUME NEW S, NEW past \in Seq(S), NEW queue \in Seq(S), NEW e \in S,
         NEW longer, longer = Append(queue, e)
  PROVE  longer \in Seq(S) /\ past \o longer = Append(past \o queue, e)
<1>1. past \o queue \in Seq(S) /\ <<e>> \in Seq(S)
  BY ConcatProperties
<1>2. Append(past \o queue, e) = (past \o queue) \o <<e>>
  BY <1>1, AppendIsConcat
<1>3. longer = queue \o <<e>> /\ longer \in Seq(S)
  BY AppendIsConcat, AppendProperties
<1> QED BY <1>1, <1>2, <1>3, ConcatAssociative

LEMMA QueuePop ==
  ASSUME NEW S, NEW past \in Seq(S), NEW queue \in Seq(S), queue # <<>>
  PROVE  /\ Head(queue) \in S /\ Tail(queue) \in Seq(S)
         /\ Append(past, Head(queue)) \in Seq(S)
         /\ past \o queue = Append(past, Head(queue)) \o Tail(queue)
<1> DEFINE h == Head(queue)
           t == Tail(queue)
<1>1. h \in S /\ t \in Seq(S) /\ <<h>> \in Seq(S)
  BY HeadTailProperties
<1>2. queue = <<h>> \o t
  <2>1. /\ Len(t) = Len(queue) - 1 /\ Len(<<h>>) = 1 /\ Len(queue) \in Nat
        /\ \A i \in 1 .. Len(t) : t[i] = queue[i + 1]
    BY HeadTailProperties
  <2>2. /\ <<h>> \o t \in Seq(S) /\ Len(<<h>> \o t) = 1 + Len(t)
        /\ \A i \in 1 .. 1 + Len(t) : (<<h>> \o t)[i] = IF i <= 1 THEN <<h>>[i] ELSE t[i - 1]
    BY <1>1, <2>1, ConcatProperties
  <2>3. h = queue[1]
    OBVIOUS
  <2>4. Len(<<h>> \o t) = Len(queue)
    BY <2>1, <2>2
  <2>5. ASSUME NEW i \in 1 .. Len(queue) PROVE queue[i] = (<<h>> \o t)[i]
    <3>1. CASE i = 1
      BY <3>1, <2>1, <2>2, <2>3
    <3>2. CASE i > 1
      <4>1. i - 1 \in 1 .. Len(t) /\ (i - 1) + 1 = i /\ i \in 1 .. 1 + Len(t)
        BY <3>2, <2>1
      <4>2. t[i - 1] = queue[i]
        BY <4>1, <2>1
      <4> QED BY <3>2, <4>1, <4>2, <2>2
    <3> QED BY <3>1, <3>2
  <2> HIDE DEF h, t
  <2> QED BY <2>2, <2>4, <2>5, SeqEqual
<1>3. Append(past, h) = past \o <<h>> /\ Append(past, h) \in Seq(S)
  BY <1>1, AppendIsConcat, AppendProperties
<1> HIDE DEF h, t
<1>4. past \o queue = (past \o <<h>>) \o t
  BY <1>1, <1>2, ConcatAssociative
<1> QED BY <1>1, <1>3, <1>4 DEF h, t

(* What an event queue has held it still has held after a Push. *)
LEMMA ContainsAppend ==
  ASSUME NEW S, NEW s \in Seq(S), NEW e \in S, NEW x
  PROVE  /\ Append(s, e) \in Seq(S)
         /\ Contains(s, x) => Contains(Append(s, e), x)
         /\ Contains(Append(s, e), e)
<1>1. /\ Append(s, e) \in Seq(S) /\ Len(Append(s, e)) = Len(s) + 1 /\ Len(s) \in Nat
      /\ \A i \in 1 .. Len(s) : Append(s, e)[i] = s[i]
      /\ Append(s, e)[Len(s) + 1] = e
  BY AppendProperties
<1>2. Len(s) + 1 \in 1 .. Len(Append(s, e)) /\ 1 .. Len(s) \subseteq 1 .. Len(Append(s, e))
  BY <1>1
<1> QED BY <1>1, <1>2 DEF Contains
-----------------------------------------------------------------------------
(* What a step does to the two queues, whatever else it does. *)
EventsStep ==
  \/ UNCHANGED <<events, pushed, shown>>
  \/ /\ \E e \in Event : PushEvent(e)
     /\ shown' = shown /\ net # "gone"
  \/ /\ events # <<>> /\ shown' = Append(shown, Head(events)) /\ events' = Tail(events)
     /\ pushed' = pushed

ActionsStep ==
  \/ UNCHANGED <<actions, accepted, executed>>
  \/ /\ \E a \in Nat : actions' = Append(actions, a) /\ accepted' = Append(accepted, a)
     /\ executed' = executed
  \/ /\ actions # <<>> /\ executed' = Append(executed, Head(actions)) /\ actions' = Tail(actions)
     /\ accepted' = accepted

LEMMA QueueSteps ==
  ASSUME RuntimeTypes, [Next]_vars
  PROVE  EventsStep /\ ActionsStep
<1> USE DEF queueVars, mainVars, sessionVars, netVars, vars
<1>1. CASE MainTop \/ MainCheck \/ MainInputTimeout \/ MainInputQuit \/ Signal \/ MainLeave \/ MainJoin
  BY <1>1 DEF MainTop, MainCheck, MainInputTimeout, MainInputQuit, Signal, MainLeave, MainJoin,
              EventsStep, ActionsStep
<1>2. CASE MainPop
  BY <1>2 DEF MainPop, EventsStep, ActionsStep
<1>3. CASE MainInputLine
  <2>1. Len(accepted) + 1 \in Nat
    <3>1. Len(accepted) \in Nat
      BY LenProperties DEF RuntimeTypes
    <3> QED BY <3>1
  <2> QED BY <1>3, <2>1 DEF MainInputLine, EventsStep, ActionsStep
<1>4. CASE NetDispatch
  <2>1. Head(sessionEvents) \in Event
    BY <1>4, HeadTailProperties DEF NetDispatch, RuntimeTypes
  <2> QED BY <1>4, <2>1 DEF NetDispatch, EventsStep, ActionsStep
<1>5. ASSUME NEW fails \in BOOLEAN, NetAction(fails) PROVE EventsStep /\ ActionsStep
  <2>1. "action error" \in Event
    BY DEF Event
  <2> QED BY <1>5, <2>1 DEF NetAction, EventsStep, ActionsStep
<1>6. CASE NetDispatched \/ NetLoop \/ NetCycled \/ NetPollNothing \/ NetGoodbye \/ NetFarewell
  BY <1>6 DEF NetDispatched, NetLoop, NetCycled, NetPollNothing, NetGoodbye, NetFarewell,
              EventsStep, ActionsStep
<1>7. ASSUME NEW kind, NetPollPacket(kind) PROVE EventsStep /\ ActionsStep
  BY <1>7 DEF NetPollPacket, EventsStep, ActionsStep
<1>8. CASE NetAnnounce
  <2>1. "disconnected" \in Event
    BY DEF Event
  <2> QED BY <1>8, <2>1 DEF NetAnnounce, EventsStep, ActionsStep
<1>9. CASE NetCloseActions \/ NetCloseEvents \/ GoesSilent \/ NetSessionThrows \/ UNCHANGED vars
  BY <1>9 DEF NetCloseActions, NetCloseEvents, GoesSilent, NetSessionThrows, EventsStep, ActionsStep
<1>10. CASE NetHandlerThrows
  BY <1>10 DEF NetHandlerThrows, EventsStep, ActionsStep
<1> QED BY <1>1, <1>2, <1>3, <1>4, <1>5, <1>6, <1>7, <1>8, <1>9, <1>10 DEF Next, Main, Net

(* The queues keep their types and what has gone through them. *)
LEMMA EventsKept ==
  ASSUME RuntimeInv, [Next]_vars
  PROVE  /\ events' \in Seq(Event) /\ pushed' \in Seq(Event) /\ shown' \in Seq(Event)
         /\ pushed' = shown' \o events'
<1>1. /\ events \in Seq(Event) /\ pushed \in Seq(Event) /\ shown \in Seq(Event)
      /\ pushed = shown \o events /\ EventsStep /\ (eventsClosed => net = "gone")
  BY QueueSteps DEF RuntimeInv, RuntimeTypes
<1>2. CASE UNCHANGED <<events, pushed, shown>>
  BY <1>1, <1>2
<1>3. ASSUME NEW e \in Event, PushEvent(e), shown' = shown, net # "gone"
      PROVE  /\ events' \in Seq(Event) /\ pushed' \in Seq(Event) /\ shown' \in Seq(Event)
             /\ pushed' = shown' \o events'
  <2>1. events' = Append(events, e) /\ pushed' = Append(pushed, e)
    BY <1>1, <1>3 DEF PushEvent
  <2>2. Append(events, e) \in Seq(Event) /\ Append(pushed, e) \in Seq(Event)
    BY <1>1, AppendProperties
  <2>3. shown \o events' = Append(shown \o events, e)
    BY <1>1, <2>1, QueuePush
  <2> QED BY <1>1, <1>3, <2>1, <2>2, <2>3
<1>4. CASE events # <<>> /\ shown' = Append(shown, Head(events)) /\ events' = Tail(events) /\ pushed' = pushed
  <2>1. /\ Tail(events) \in Seq(Event) /\ Append(shown, Head(events)) \in Seq(Event)
        /\ shown \o events = Append(shown, Head(events)) \o Tail(events)
    BY <1>1, <1>4, QueuePop
  <2> QED BY <1>1, <1>4, <2>1
<1> QED BY <1>1, <1>2, <1>3, <1>4 DEF EventsStep

LEMMA ActionsKept ==
  ASSUME RuntimeInv, [Next]_vars
  PROVE  /\ actions' \in Seq(Nat) /\ accepted' \in Seq(Nat) /\ executed' \in Seq(Nat)
         /\ accepted' = executed' \o actions'
<1>1. /\ actions \in Seq(Nat) /\ accepted \in Seq(Nat) /\ executed \in Seq(Nat)
      /\ accepted = executed \o actions /\ ActionsStep
  BY QueueSteps DEF RuntimeInv, RuntimeTypes
<1>2. CASE UNCHANGED <<actions, accepted, executed>>
  BY <1>1, <1>2
<1>3. ASSUME NEW a \in Nat, actions' = Append(actions, a), accepted' = Append(accepted, a),
             executed' = executed
      PROVE  /\ actions' \in Seq(Nat) /\ accepted' \in Seq(Nat) /\ executed' \in Seq(Nat)
             /\ accepted' = executed' \o actions'
  <2>1. Append(actions, a) \in Seq(Nat) /\ Append(accepted, a) \in Seq(Nat)
    BY <1>1, AppendProperties
  <2>2. executed \o actions' = Append(executed \o actions, a)
    BY <1>1, <1>3, QueuePush
  <2> QED BY <1>1, <1>3, <2>1, <2>2
<1>4. CASE /\ actions # <<>> /\ executed' = Append(executed, Head(actions)) /\ actions' = Tail(actions)
           /\ accepted' = accepted
  <2>1. /\ Tail(actions) \in Seq(Nat) /\ Append(executed, Head(actions)) \in Seq(Nat)
        /\ executed \o actions = Append(executed, Head(actions)) \o Tail(actions)
    BY <1>1, <1>4, QueuePop
  <2> QED BY <1>1, <1>4, <2>1
<1> QED BY <1>1, <1>2, <1>3, <1>4 DEF ActionsStep

LEMMA SessionEventsKept ==
  ASSUME RuntimeTypes, [Next]_vars
  PROVE  sessionEvents' \in Seq(Event)
<1> USE DEF queueVars, mainVars, sessionVars, netVars, vars
<1>1. sessionEvents \in Seq(Event)
  BY DEF RuntimeTypes
<1>2. sessionEvents # <<>> => Tail(sessionEvents) \in Seq(Event)
  BY <1>1, HeadTailProperties
<1>3. Append(sessionEvents, "protocol") \in Seq(Event)
  BY <1>1, AppendProperties DEF Event
<1>4. \/ sessionEvents' = sessionEvents
      \/ sessionEvents # <<>> /\ sessionEvents' = Tail(sessionEvents)
      \/ sessionEvents' = Append(sessionEvents, "protocol")
  <2>1. ASSUME MainTop \/ MainPop \/ MainCheck \/ MainInputTimeout PROVE sessionEvents' = sessionEvents
    BY <2>1 DEF MainTop, MainPop, MainCheck, MainInputTimeout
  <2>2. ASSUME MainInputLine \/ MainInputQuit \/ MainLeave \/ MainJoin \/ Signal
        PROVE  sessionEvents' = sessionEvents
    BY <2>2 DEF MainInputLine, MainInputQuit, MainLeave, MainJoin, Signal
  <2>3. ASSUME NetDispatch PROVE sessionEvents # <<>> /\ sessionEvents' = Tail(sessionEvents)
    BY <2>3 DEF NetDispatch
  <2>4. ASSUME NetHandlerThrows
        PROVE  \/ sessionEvents' = sessionEvents
               \/ sessionEvents # <<>> /\ sessionEvents' = Tail(sessionEvents)
    BY <2>4 DEF NetHandlerThrows
  <2>5. ASSUME NEW kind, NetPollPacket(kind)
        PROVE  sessionEvents' = sessionEvents \/ sessionEvents' = Append(sessionEvents, "protocol")
    BY <2>5 DEF NetPollPacket
  <2>6. ASSUME NEW fails \in BOOLEAN, NetAction(fails) PROVE sessionEvents' = sessionEvents
    BY <2>6 DEF NetAction
  <2>7. ASSUME NetDispatched \/ NetLoop \/ NetCycled \/ NetPollNothing \/ NetGoodbye \/ NetFarewell
        PROVE  sessionEvents' = sessionEvents
    BY <2>7 DEF NetDispatched, NetLoop, NetCycled, NetPollNothing, NetGoodbye, NetFarewell
  <2>8. ASSUME NetAnnounce \/ NetCloseActions \/ NetCloseEvents \/ NetSessionThrows
        PROVE  sessionEvents' = sessionEvents
    BY <2>8 DEF NetAnnounce, NetCloseActions, NetCloseEvents, NetSessionThrows
  <2>9. ASSUME GoesSilent PROVE sessionEvents' = sessionEvents
    BY <2>9 DEF GoesSilent
  <2>10. ASSUME UNCHANGED vars PROVE sessionEvents' = sessionEvents
    BY <2>10
  <2> QED BY <2>1, <2>2, <2>3, <2>4, <2>5, <2>6, <2>7, <2>8, <2>9, <2>10 DEF Next, Main, Net
<1> QED BY <1>1, <1>2, <1>3, <1>4

(* The end of the session: goodbye only when asked, the last event before    *)
(* the queues close.                                                         *)
EndInv ==
  /\ net \in NetPlace
  /\ eventsClosed => net = "gone"
  /\ net \in {"goodbye", "parting", "farewell"} => stop
  /\ result = "LocalRequest" => stop /\ net \in Ending \cup {"announce"}
  /\ net \in Ending /\ result # "LocalRequest" => Contains(pushed, "disconnected")

LEMMA EndKept ==
  ASSUME RuntimeInv, [Next]_vars
  PROVE  EndInv'
<1> USE DEF queueVars, mainVars, sessionVars, netVars, vars
<1>1. EndInv /\ pushed \in Seq(Event)
  BY DEF RuntimeInv, RuntimeTypes, EndInv
<1>2. CASE Main \/ Signal
  <2>1. UNCHANGED <<net, eventsClosed, result, pushed>> /\ (stop => stop')
    BY <1>2 DEF Main, MainTop, MainPop, MainCheck, MainInputTimeout, MainInputLine, MainInputQuit,
                MainLeave, MainJoin, Signal
  <2> QED BY <1>1, <2>1 DEF EndInv
<1>3. CASE NetDispatch
  <2>1. net \in {"dispatch", "farewell"} /\ net' = net /\ UNCHANGED <<eventsClosed, result, stop>>
    BY <1>3 DEF NetDispatch
  <2> QED BY <1>1, <2>1 DEF EndInv, NetPlace, Ending
<1>4. CASE NetDispatched
  <2>1. net = "dispatch" /\ net' \in {"loop", "announce"} /\ UNCHANGED <<eventsClosed, stop>>
        /\ result' # "LocalRequest"
    BY <1>4 DEF NetDispatched, Ended
  <2> QED BY <1>1, <2>1 DEF EndInv, NetPlace, Ending
<1>5. CASE NetLoop
  <2>1. net = "loop" /\ net' \in {"goodbye", "cycle"} /\ (net' = "goodbye" => stop) /\ UNCHANGED <<eventsClosed, result, stop>>
    BY <1>5 DEF NetLoop
  <2> QED BY <1>1, <2>1 DEF EndInv, NetPlace, Ending
<1>6. ASSUME NEW fails \in BOOLEAN, NetAction(fails) PROVE EndInv'
  <2>1. net = "cycle" /\ net' = net /\ UNCHANGED <<eventsClosed, result, stop>>
    BY <1>6 DEF NetAction
  <2> QED BY <1>1, <2>1 DEF EndInv, NetPlace, Ending
<1>7. CASE NetCycled
  <2>1. net = "cycle" /\ net' = "poll" /\ UNCHANGED <<eventsClosed, result, stop>>
    BY <1>7 DEF NetCycled
  <2> QED BY <1>1, <2>1 DEF EndInv, NetPlace, Ending
<1>8. ASSUME NEW kind, NetPollPacket(kind) PROVE EndInv'
  <2>1. UNCHANGED <<eventsClosed, result, stop>>
        /\ ((net = "poll" /\ net' = "dispatch") \/ (net = "parting" /\ net' = "farewell"))
    BY <1>8 DEF NetPollPacket, AfterPoll
  <2>2. CASE net = "poll"
    BY <1>1, <2>1, <2>2 DEF EndInv, NetPlace, Ending
  <2>3. CASE net = "parting"
    BY <1>1, <2>1, <2>3 DEF EndInv, NetPlace, Ending
  <2> QED BY <2>1, <2>2, <2>3
<1>9. CASE NetPollNothing
  <2>1. UNCHANGED <<eventsClosed, result, stop>>
        /\ ((net = "poll" /\ net' = "dispatch") \/ (net = "parting" /\ net' = "farewell"))
    BY <1>9 DEF NetPollNothing, AfterPoll
  <2>2. CASE net = "poll"
    BY <1>1, <2>1, <2>2 DEF EndInv, NetPlace, Ending
  <2>3. CASE net = "parting"
    BY <1>1, <2>1, <2>3 DEF EndInv, NetPlace, Ending
  <2> QED BY <2>1, <2>2, <2>3
<1>10. CASE NetGoodbye
  <2>1. net = "goodbye" /\ net' = "parting" /\ UNCHANGED <<eventsClosed, result, stop>>
    BY <1>10 DEF NetGoodbye
  <2> QED BY <1>1, <2>1 DEF EndInv, NetPlace, Ending
<1>11. CASE NetFarewell
  <2>1. net = "farewell" /\ UNCHANGED <<eventsClosed, stop>>
    BY <1>11 DEF NetFarewell
  <2>2. net' = "announce" \/ (net' = "parting" /\ result' = result)
    BY <1>11 DEF NetFarewell
  <2>3. CASE net' = "announce"
    BY <1>1, <2>1, <2>3 DEF EndInv, NetPlace, Ending
  <2>4. CASE net' = "parting" /\ result' = result
    BY <1>1, <2>1, <2>4 DEF EndInv, NetPlace, Ending
  <2> QED BY <2>2, <2>3, <2>4
<1>12. CASE NetAnnounce
  <2>1. net = "announce" /\ net' = "close actions" /\ UNCHANGED <<eventsClosed, result, stop>>
    BY <1>12 DEF NetAnnounce
  <2>2. "disconnected" \in Event
    BY DEF Event
  <2>3. Contains(Append(pushed, "disconnected"), "disconnected")
    BY <1>1, <2>2, ContainsAppend, Zenon
  <2>4. result # "LocalRequest" => pushed' = Append(pushed, "disconnected")
    BY <1>12 DEF NetAnnounce, PushEvent
  <2>5. result # "LocalRequest" => Contains(pushed, "disconnected")'
    BY <2>3, <2>4 DEF Contains
  <2> QED BY <1>1, <2>1, <2>5 DEF EndInv, NetPlace, Ending
<1>13. CASE NetCloseActions
  <2>1. net = "close actions" /\ net' = "close events"
        /\ UNCHANGED <<eventsClosed, result, stop, pushed>>
    BY <1>13 DEF NetCloseActions
  <2> QED BY <1>1, <2>1 DEF EndInv, NetPlace, Ending
<1>14. CASE NetCloseEvents
  <2>1. net = "close events" /\ net' = "gone" /\ UNCHANGED <<result, stop, pushed>>
    BY <1>14 DEF NetCloseEvents
  <2> QED BY <1>1, <2>1 DEF EndInv, NetPlace, Ending
<1>15. CASE NetHandlerThrows \/ NetSessionThrows
  <2>1. net \notin Ending \cup {"announce"} /\ net' = "announce" /\ UNCHANGED <<eventsClosed, stop>>
        /\ result' = "TransportError"
    BY <1>15 DEF NetHandlerThrows, NetSessionThrows, Ending
  <2> QED BY <1>1, <2>1 DEF EndInv, NetPlace, Ending
<1>16. CASE GoesSilent \/ UNCHANGED vars
  <2>1. UNCHANGED <<net, eventsClosed, result, stop, pushed>>
    BY <1>16 DEF GoesSilent
  <2> QED BY <1>1, <2>1 DEF EndInv
<1> QED BY <1>2, <1>3, <1>4, <1>5, <1>6, <1>7, <1>8, <1>9, <1>10, <1>11, <1>12, <1>13, <1>14, <1>15, <1>16 DEF Next, Net

-----------------------------------------------------------------------------
(* The terminal client's threads lose nothing between them, whatever the     *)
(* user types and the network does: NetworkRuntime prints every event it     *)
(* publishes and executes every action it takes, once and in order, and a    *)
(* session ends without a DisconnectedEvent only when the user asked for it. *)
THEOREM RuntimeLosesNothing == Spec => []NothingIsLost
<1>1. Init => RuntimeInv
  <2> SUFFICES ASSUME Init PROVE RuntimeInv
    OBVIOUS
  <2>1. RuntimeTypes
    <3>1. sessionEvents \in Seq(Event)
      <4>1. <<>> \in Seq(Event) /\ <<"protocol">> \in Seq(Event)
        BY DEF Event
      <4> QED BY <4>1 DEF Init
    <3>2. net \in NetPlace
      BY DEF Init, NetPlace
    <3> QED BY <3>1, <3>2 DEF Init, RuntimeTypes
  <2>2. pushed = shown \o events /\ accepted = executed \o actions
    BY DEF Init
  <2> QED BY <2>1, <2>2 DEF Init, RuntimeInv, Ending
<1>2. RuntimeInv /\ [Next]_vars => RuntimeInv'
  <2> SUFFICES ASSUME RuntimeInv, [Next]_vars PROVE RuntimeInv'
    OBVIOUS
  <2>1. RuntimeTypes
    BY DEF RuntimeInv
  <2>2. EndInv'
    BY EndKept
  <2> QED BY <2>1, <2>2, EventsKept, ActionsKept, SessionEventsKept DEF RuntimeInv, RuntimeTypes, EndInv
<1>3. RuntimeInv => NothingIsLost
  BY DEF RuntimeInv, NothingIsLost, Ending
<1> QED BY <1>1, <1>2, <1>3, PTL DEF Spec

-----------------------------------------------------------------------------
Connectors == {"none", "connecting", "waiting", "established", "finished", "joined"}
Published == Snapshots \cup {NoSnapshot}
SessionRecord ==
    [n : Nat, connector : Connectors, abandoned : BOOLEAN, late : BOOLEAN, error : BOOLEAN,
     connection : {"none", "open", "failed", "left"},
     runtime : {"none", "running", "ending", "closed"}, stop : BOOLEAN,
     started : BOOLEAN, published : Published]
LastRecord == [asked : BOOLEAN, late : BOOLEAN, parted : BOOLEAN, unseen : Nat, tested : BOOLEAN]
Queued == Events \cup {[kind |-> "line", to |-> "active"]}

SessionTypes ==
    /\ session \in SessionRecord
    /\ eventQueue \in Seq(Queued)
    /\ left \in [{"sessions", "events"} -> Nat]
    /\ window \in {"open", "hidden", "gone"}
    /\ ui \in {"idle", "tree", "drain", "ended", "last drain", "closing", "gone"}
    /\ state \in {"Disconnected", "Connecting", "Connected", "Disconnecting"}
    /\ audio \in [transmit : BOOLEAN, options : {"closed", "open", "test"}, restore : BOOLEAN]
    /\ last \in LastRecord

\* The session the window's state speaks of is there, and everything of a
\* runtime is there only once it has started.
LifeInv ==
    /\ window = "gone" <=> ui = "gone"
    /\ window = "gone" => ~Exists
    /\ window # "gone" => /\ Exists <=> state # "Disconnected"
                          /\ state = "Connected" => session.started
                          /\ state = "Connecting" => ~session.started
    /\ ~Exists => session = NoSession
    /\ session.started <=> session.runtime # "none"
    /\ ~session.started => ~session.stop /\ eventQueue = <<>> /\ networkWake = 0
    /\ session.started => networkWake \in {0, session.n}

\* A connection is not left open by a runtime that has ended, which the UI
\* thread has seen before its last drain, nor by an attempt given up in time.
PartingInv ==
    /\ session.runtime # "none" => session.connector = "joined"
    /\ session.runtime \in {"ending", "closed"} => session.connection # "open"
    /\ session.connector = "finished" /\ session.abandoned =>
         session.connection # "open" \/ session.late
    /\ ui = "last drain" => session.runtime = "closed"
    /\ window # "gone" => last.unseen = 0 /\ (last.asked => last.parted)
    /\ last.asked => last.parted \/ last.late

\* Without a session only the end of a microphone test turns transmission on.
MutedInv ==
    window # "gone" /\ ~session.started => (audio.transmit \/ audio.restore => last.tested)

View ==
    [snapshot : Published, talking : BOOLEAN, unread : [Conversations -> Nat],
     active : Conversations, userSelected : BOOLEAN, dirty : BOOLEAN]
Tree ==
    [rows : SUBSET Conversations, current : {NoSnapshot.channel} \cup Visited,
     unread : [Conversations -> Nat],
     selected : {"none"} \cup Conversations, talking : BOOLEAN]

ViewInv ==
    /\ view \in View /\ tree \in Tree
    /\ state = "Connecting" => view.dirty
    /\ state = "Connected" /\ ~view.dirty => tree = Update(view)

GtkInv == SessionTypes /\ LifeInv /\ PartingInv /\ MutedInv /\ ViewInv

-----------------------------------------------------------------------------
LEMMA NoSessionType == NoSession \in SessionRecord /\ NoSession.n = 0
      /\ ~NoSession.started /\ ~NoSession.abandoned /\ NoSession.connector = "none"
      /\ NoSession.runtime = "none" /\ ~NoSession.stop
BY DEF NoSession, NewSession, SessionRecord, Connectors, NoSnapshot, Published

LEMMA NewSessionType ==
  ASSUME NEW n \in Nat
  PROVE  /\ NewSession(n) \in SessionRecord /\ NewSession(n).n = n
         /\ ~NewSession(n).started /\ NewSession(n).connector = "connecting"
         /\ NewSession(n).runtime = "none" /\ ~NewSession(n).stop
BY DEF NewSession, SessionRecord, Connectors, NoSnapshot, Published

\* What RequestStop does to a session.
LEMMA StopKept ==
  ASSUME session \in SessionRecord, RequestStop
  PROVE  /\ session' \in SessionRecord
         /\ session'.n = session.n /\ session'.started = session.started
         /\ session'.runtime = session.runtime /\ session'.connector = session.connector
         /\ session'.connection = session.connection
         /\ session.runtime = "none" => session'.stop = session.stop
         /\ session.runtime = "none" /\ session.connector = "finished" /\ ~session.abandoned => session'.late
         /\ session.runtime # "none" \/ session.abandoned =>
              session'.abandoned = session.abandoned /\ session'.late = session.late
<1>1. CASE session.runtime # "none"
  <2>1. session' = [session EXCEPT !.stop = TRUE]
    BY <1>1 DEF RequestStop
  <2> QED BY <1>1, <2>1 DEF SessionRecord
<1>2. CASE session.runtime = "none"
  <2> DEFINE late == IF session.abandoned THEN session.late ELSE session.connector = "finished"
  <2>1. session' = [session EXCEPT !.abandoned = TRUE, !.late = late]
    BY <1>2 DEF RequestStop
  <2>2. late \in BOOLEAN
    BY DEF SessionRecord
  <2>3. /\ session.abandoned => late = session.late
        /\ session.connector = "finished" /\ ~session.abandoned => late
    OBVIOUS
  <2>4. session.abandoned \in BOOLEAN
    BY DEF SessionRecord
  <2> HIDE DEF late
  <2>5. /\ session' \in SessionRecord
        /\ session'.n = session.n /\ session'.started = session.started
        /\ session'.runtime = session.runtime /\ session'.connector = session.connector
        /\ session'.connection = session.connection
        /\ session'.stop = session.stop /\ session'.late = late /\ session'.abandoned = TRUE
    BY <2>1, <2>2 DEF SessionRecord
  <2> QED BY <1>2, <2>3, <2>4, <2>5
<1> QED BY <1>1, <1>2

LEMMA GtkInvInit ==
  ASSUME GtkInit
  PROVE  GtkInv
<1>1. SessionTypes
  BY NoSessionType, GtkAssumption DEF GtkInit, SessionTypes, LastRecord, NothingLeft
<1>2. LifeInv /\ PartingInv /\ MutedInv
  BY NoSessionType DEF GtkInit, LifeInv, PartingInv, MutedInv, Exists, NothingLeft
<1>3. ViewInv
  BY DEF GtkInit, ViewInv, View, Tree, NoRows, Conversations, NoUnread, Published,
     NoSnapshot
<1> QED BY <1>1, <1>2, <1>3 DEF GtkInv


LEMMA OnlySessionSteps ==
  ASSUME [GtkNext]_gtkVars
  PROVE  \/ Connector \/ Network \/ \E e \in Events : Publish(e)
         \/ Tick \/ EndSession \/ Connect \/ ConnectClicked \/ Closing
         \/ UNCHANGED session
<1>1. ProcessAction => UNCHANGED session
  BY DEF ProcessAction
<1>2. Drain \/ Drained \/ AskEnded \/ TickTree => UNCHANGED session
  BY DEF Drain, Drained, AskEnded, TickTree, connectionVars
<1>3. SelectRow \/ PushAction \/ ToggleMicrophone \/ OpenOptions
            \/ TestMicrophone
        \/ CloseOptions \/ CloseWindow => UNCHANGED session
  BY DEF SelectRow, PushAction, ToggleMicrophone, OpenOptions, TestMicrophone,
     CloseOptions, CloseWindow, connectionVars
<1>4. UNCHANGED gtkVars => UNCHANGED session
  BY DEF gtkVars, connectionVars
<1> QED BY <1>1, <1>2, <1>3, <1>4 DEF GtkNext, UI, User, Done

LEMMA SessionKept ==
  ASSUME SessionTypes, [GtkNext]_gtkVars
  PROVE  session' \in SessionRecord
<1> USE DEF SessionTypes
<1>0. CASE ConnectWaits
  BY <1>0 DEF ConnectWaits, SessionRecord, Connectors
<1>1. CASE ConnectFails
  BY <1>1 DEF ConnectFails, SessionRecord, Connectors
<1>2. CASE ConnectSucceeds
  BY <1>2 DEF ConnectSucceeds, SessionRecord, Connectors
<1>3. CASE ConnectorChecks
  BY <1>3 DEF ConnectorChecks, SessionRecord, Connectors
<1>4. CASE RunEnds
  <2>1. CASE session' = [session EXCEPT !.runtime = "ending", !.connection = "left"]
    BY <2>1 DEF SessionRecord
  <2>2. CASE session' = [session EXCEPT !.runtime = "ending", !.connection = "failed"]
    BY <2>2 DEF SessionRecord
  <2> QED BY <1>4, <2>1, <2>2 DEF RunEnds
<1>5. CASE RuntimeCloses
  BY <1>5 DEF RuntimeCloses, SessionRecord
<1>6. ASSUME NEW e \in Events, Publish(e) PROVE session' \in SessionRecord
  <2>1. CASE e.kind = "snapshot"
    <3>1. e.snapshot \in Published
      BY <2>1 DEF Events, Published
    <3>2. session' = [session EXCEPT !.published = e.snapshot]
      BY <1>6, <2>1 DEF Publish
    <3> QED BY <3>1, <3>2 DEF SessionRecord
  <2>2. CASE e.kind # "snapshot"
    BY <1>6, <2>2 DEF Publish
  <2> QED BY <2>1, <2>2
<1>7. CASE Tick
  <2>1. CASE PollConnected
    <3>1. CASE session' = NoSession
      BY <3>1, NoSessionType
    <3>2. CASE session' = [session EXCEPT !.connector = "joined", !.runtime = "running",
                                          !.started = TRUE, !.stop = state = "Disconnecting"]
      BY <3>2 DEF SessionRecord, Connectors
    <3> QED BY <2>1, <3>1, <3>2 DEF PollConnected, Destroy
  <2>2. CASE session' = session \/ session' = NoSession
    BY <2>2, NoSessionType
  <2> QED BY <1>7, <2>1, <2>2 DEF Tick, TickNothing, TickDrains, PollFailed,
             connectionVars
<1>8. CASE Connect
  <2>1. left.sessions \in Nat
    OBVIOUS
  <2>2. session' = NewSession(left.sessions) \/ session' = session
    BY <1>8 DEF Connect
  <2> QED BY <2>1, <2>2, NewSessionType
<1>9. CASE ConnectClicked
  BY <1>9, StopKept DEF ConnectClicked
<1>10. CASE Shutdown
  BY <1>10, StopKept DEF Shutdown
<1>11. CASE EndSession \/ ShutdownEnds
  BY <1>11, NoSessionType DEF EndSession, ShutdownEnds, Destroy
<1>12. CASE UNCHANGED session
  BY <1>12
<1> QED
  BY <1>0, <1>1, <1>2, <1>3, <1>4, <1>5, <1>6, <1>7, <1>8, <1>9, <1>10, <1>11, <1>12, OnlySessionSteps
     DEF Connector, Network, Closing

LEMMA QueueKept ==
  ASSUME SessionTypes, [GtkNext]_gtkVars
  PROVE  eventQueue' \in Seq(Queued)
<1> USE DEF SessionTypes
<1>0. <<>> \in Seq(Queued)
  BY EmptySeq
<1>1. CASE Connector
  BY <1>1 DEF Connector, ConnectWaits, ConnectFails, ConnectSucceeds, ConnectorChecks,
     ConnectorVars
<1>2. CASE Network
  <2>1. [kind |-> "line", to |-> "active"] \in Queued
    BY DEF Queued
  <2>2. eventQueue' = eventQueue
              \/ eventQueue' = Append(eventQueue, [kind |-> "line", to |-> "active"])
    BY <1>2 DEF Network, RunEnds, RuntimeCloses
  <2>3. Append(eventQueue, [kind |-> "line", to |-> "active"]) \in Seq(Queued)
    BY <2>1, AppendProperties
  <2> QED BY <2>2, <2>3
<1>3. ASSUME NEW e \in Events, Publish(e) PROVE eventQueue' \in Seq(Queued)
  <2>1. eventQueue' = Append(eventQueue, e) /\ e \in Queued
    BY <1>3 DEF Publish, Queued
  <2> QED BY <2>1, AppendProperties
<1>4. CASE Drain
  BY <1>4, HeadTailProperties DEF Drain
<1>5. CASE Tick
  <2>1. eventQueue' = eventQueue \/ eventQueue' = <<>>
    BY <1>5 DEF Tick, TickNothing, TickDrains, PollFailed, PollConnected,
       Destroy, connectionVars
  <2> QED BY <1>0, <2>1
<1>6. CASE EndSession \/ ShutdownEnds
  <2>1. eventQueue' = <<>>
    BY <1>6 DEF EndSession, ShutdownEnds, Destroy
  <2> QED BY <1>0, <2>1
<1>7. CASE Shutdown \/ Connect \/ ConnectClicked \/ PushAction \/ ProcessAction
  BY <1>7 DEF Shutdown, Connect, ConnectClicked, PushAction, ProcessAction
<1>8. CASE UNCHANGED connectionVars \/ UNCHANGED gtkVars
  BY <1>8 DEF gtkVars, connectionVars
<1>9. Drained \/ AskEnded \/ TickTree \/ SelectRow \/ ToggleMicrophone
            \/ OpenOptions
        \/ TestMicrophone \/ CloseOptions \/ CloseWindow => UNCHANGED connectionVars
  BY DEF Drained, AskEnded, TickTree, SelectRow, ToggleMicrophone,
     OpenOptions, TestMicrophone, CloseOptions, CloseWindow
<1> QED
  BY <1>1, <1>2, <1>3, <1>4, <1>5, <1>6, <1>7, <1>8, <1>9 DEF GtkNext, UI, User,
     Closing, Done

\* What the session's two threads leave alone.
LEMMA ThreadsLeave ==
  ASSUME Connector \/ Network \/ (\E e \in Events : Publish(e)) \/ ProcessAction
  PROVE  UNCHANGED <<window, ui, state, networkWake, view, tree, audio, last>>
<1>1. CASE Connector
  BY <1>1 DEF Connector, ConnectWaits, ConnectFails, ConnectSucceeds, ConnectorChecks,
     ConnectorVars, viewVars
<1>2. CASE Network
  BY <1>2 DEF Network, RunEnds, RuntimeCloses, NetVars, viewVars
<1>3. ASSUME NEW e \in Events, Publish(e)
      PROVE  UNCHANGED <<window, ui, state, networkWake, view, tree, audio, last>>
  BY <1>3 DEF Publish, NetVars, viewVars
<1>4. CASE ProcessAction
  BY <1>4 DEF ProcessAction, NetVars, viewVars
<1> QED BY <1>1, <1>2, <1>3, <1>4

LEMMA ControlKept ==
  ASSUME SessionTypes, [GtkNext]_gtkVars
  PROVE  /\ window' \in {"open", "hidden", "gone"}
         /\ ui' \in {"idle", "tree", "drain", "ended", "last drain", "closing", "gone"}
         /\ state' \in {"Disconnected", "Connecting", "Connected", "Disconnecting"}
<1> USE DEF SessionTypes
<1>1. CASE UNCHANGED <<window, ui, state>>
  BY <1>1
<1>2. Connector \/ Network \/ (\E e \in Events : Publish(e))
            \/ ProcessAction \/ Drain
        \/ SelectRow \/ PushAction \/ ToggleMicrophone \/ OpenOptions
              \/ TestMicrophone
        \/ CloseOptions => UNCHANGED <<window, ui, state>>
  BY ThreadsLeave DEF Drain, SelectRow, PushAction, ToggleMicrophone,
     OpenOptions, TestMicrophone, CloseOptions, connectionVars
<1>3. CASE UNCHANGED gtkVars
  BY <1>3 DEF gtkVars, connectionVars
<1>4. CASE Tick
  BY <1>4 DEF Tick, TickNothing, TickDrains, PollFailed, PollConnected,
     connectionVars
<1>5. CASE Drained \/ AskEnded \/ EndSession \/ TickTree
  BY <1>5 DEF Drained, AskEnded, EndSession, TickTree, connectionVars
<1>6. CASE Shutdown \/ ShutdownEnds
  BY <1>6 DEF Shutdown, ShutdownEnds
<1>7. CASE Connect \/ ConnectClicked \/ CloseWindow
  BY <1>7 DEF Connect, ConnectClicked, CloseWindow, connectionVars
<1> QED BY <1>1, <1>2, <1>3, <1>4, <1>5, <1>6, <1>7 DEF GtkNext, UI, User, Closing,
           Done

LEMMA UsesKept ==
  ASSUME left \in [{"sessions", "events"} -> Nat], NEW what \in {"sessions", "events"},
               Uses(what)
  PROVE  left[what] \in Nat \ {0} /\ left' \in [{"sessions", "events"} -> Nat]
<1>1. left[what] \in Nat \ {0} /\ left[what] - 1 \in Nat
  BY DEF Uses
<1>2. left' = [left EXCEPT ![what] = left[what] - 1]
  BY DEF Uses
<1> QED BY <1>1, <1>2

LEMMA AudioKept ==
  ASSUME SessionTypes, [GtkNext]_gtkVars
  PROVE  /\ audio' \in [transmit : BOOLEAN, options : {"closed", "open", "test"}, restore : BOOLEAN]
         /\ last' \in LastRecord
         /\ left' \in [{"sessions", "events"} -> Nat]
<1> USE DEF SessionTypes
<1>1. CASE UNCHANGED <<audio, last, left>>
  BY <1>1
<1>2. Connector \/ Network \/ ProcessAction \/ TickNothing \/ TickDrains
            \/ Drain \/ Drained
        \/ AskEnded \/ TickTree \/ ConnectClicked \/ SelectRow
              \/ PushAction \/ Shutdown
        => UNCHANGED <<audio, last, left>>
  <2>1. Connector => UNCHANGED <<audio, last, left>>
    BY DEF Connector, ConnectWaits, ConnectFails, ConnectSucceeds, ConnectorChecks,
       ConnectorVars
  <2>2. Network \/ ProcessAction => UNCHANGED <<audio, last, left>>
    BY DEF Network, RunEnds, RuntimeCloses, ProcessAction, NetVars
  <2>3. TickNothing \/ TickDrains \/ Drain \/ Drained \/ AskEnded
              \/ TickTree
         => UNCHANGED <<audio, last, left>>
    BY DEF TickNothing, TickDrains, Drain, Drained, AskEnded, TickTree
  <2>4. ConnectClicked \/ SelectRow \/ PushAction \/ Shutdown
              => UNCHANGED <<audio, last, left>>
    BY DEF ConnectClicked, SelectRow, PushAction, Shutdown
  <2> QED BY <2>1, <2>2, <2>3, <2>4
<1>3. UNCHANGED gtkVars => UNCHANGED <<audio, last, left>>
  BY DEF gtkVars
<1>4. ASSUME NEW e \in Events, Publish(e) PROVE UNCHANGED <<audio, last>> /\ left'
                   \in [{"sessions", "events"} -> Nat]
  BY <1>4, UsesKept DEF Publish, NetVars
<1>5. ASSUME NEW tested \in BOOLEAN, Destroy(tested)
      PROVE  last' \in LastRecord
  <2>1. Len(eventQueue) \in Nat
    BY LenProperties
  <2>2. session.abandoned \in BOOLEAN /\ session.stop \in BOOLEAN /\ session.late \in BOOLEAN
    BY DEF SessionRecord
  <2> QED BY <1>5, <2>1, <2>2 DEF Destroy, LastRecord
<1>0. last.tested \in BOOLEAN /\ audio.restore \in BOOLEAN
  BY DEF LastRecord
<1>6. CASE PollFailed \/ PollConnected
  <2>1. session.abandoned \in BOOLEAN /\ session.late \in BOOLEAN
    BY DEF SessionRecord
  <2>2. UNCHANGED <<audio, left>>
    BY <1>6 DEF PollFailed, PollConnected
  <2>3. CASE PollFailed
    <3>1. last' = [last EXCEPT !.asked = session.abandoned, !.late = session.late,
                               !.parted = TRUE, !.unseen = 0]
      BY <2>3 DEF PollFailed
    <3> QED BY <2>1, <2>2, <3>1 DEF LastRecord
  <2>4. CASE PollConnected
    BY <1>0, <1>5, <2>2, <2>4 DEF PollConnected
  <2> QED BY <1>6, <2>3, <2>4
<1>7. CASE EndSession \/ ShutdownEnds
  BY <1>0, <1>5, <1>7 DEF EndSession, ShutdownEnds
<1>8. CASE Connect
  <2>1. left' \in [{"sessions", "events"} -> Nat]
    BY <1>8, UsesKept DEF Connect
  <2> QED BY <1>0, <1>8, <2>1 DEF Connect, NothingLeft, LastRecord
<1>9. CASE ToggleMicrophone
  BY <1>9 DEF ToggleMicrophone
<1>10. CASE OpenOptions \/ TestMicrophone \/ CloseOptions \/ CloseWindow
  <2>1. \E to \in {"closed", "open", "test"} : audio' = SetMonitor(to)
    BY <1>10 DEF OpenOptions, TestMicrophone, CloseOptions, CloseWindow
  <2>2. UNCHANGED <<last, left>>
    BY <1>10 DEF OpenOptions, TestMicrophone, CloseOptions, CloseWindow
  <2> QED BY <2>1, <2>2 DEF SetMonitor
<1> QED
  BY <1>1, <1>2, <1>3, <1>4, <1>6, <1>7, <1>8, <1>9, <1>10 DEF GtkNext, UI, Tick, User,
     Closing, Done

LEMMA TypesKept ==
  ASSUME SessionTypes, [GtkNext]_gtkVars
  PROVE  SessionTypes'
BY SessionKept, QueueKept, ControlKept, AudioKept DEF SessionTypes

\* What they change of the session.
LEMMA ThreadsOnSession ==
  ASSUME SessionTypes, Connector \/ Network \/ (\E e \in Events : Publish(e))
               \/ ProcessAction
  PROVE  /\ session.n # 0
         /\ session'.n = session.n /\ session'.started = session.started
         /\ session'.stop = session.stop /\ session'.abandoned = session.abandoned
         /\ \/ session.runtime = "none" /\ session'.runtime = "none" /\ eventQueue' = eventQueue
            \/ /\ session.runtime # "none" /\ session'.runtime # "none"
               /\ session'.runtime = "running" => session.runtime = "running"
               /\ session.runtime = "closed" => session'.runtime = "closed"
<1> USE DEF SessionTypes, Exists
<1>0. CASE ConnectWaits
  BY <1>0 DEF ConnectWaits, SessionRecord, ConnectorVars
<1>1. CASE ConnectFails
  BY <1>1 DEF ConnectFails, SessionRecord, ConnectorVars
<1>2. CASE ConnectSucceeds
  BY <1>2 DEF ConnectSucceeds, SessionRecord, ConnectorVars
<1>3. CASE ConnectorChecks
  BY <1>3 DEF ConnectorChecks, SessionRecord, ConnectorVars
<1>4. CASE RunEnds
  <2>1. /\ session.n # 0 /\ session.runtime = "running"
        /\ session' \in {[session EXCEPT !.runtime = "ending", !.connection = "left"],
                        [session EXCEPT !.runtime = "ending", !.connection = "failed"]}
    BY <1>4 DEF RunEnds
  <2>2. /\ session'.n = session.n /\ session'.started = session.started
        /\ session'.stop = session.stop /\ session'.abandoned = session.abandoned
        /\ session'.runtime = "ending"
    BY <2>1 DEF SessionRecord
  <2> QED BY <2>1, <2>2
<1>5. CASE RuntimeCloses
  BY <1>5 DEF RuntimeCloses, SessionRecord
<1>6. ASSUME NEW e \in Events, Publish(e)
      PROVE  /\ session.n # 0 /\ session.runtime = "running"
             /\ session'.n = session.n /\ session'.started = session.started
             /\ session'.stop = session.stop /\ session'.abandoned = session.abandoned
             /\ session'.runtime = session.runtime
  BY <1>6 DEF Publish, SessionRecord
<1>7. CASE ProcessAction
  BY <1>7 DEF ProcessAction
<1> QED BY <1>0, <1>1, <1>2, <1>3, <1>4, <1>5, <1>6, <1>7 DEF Connector, Network

\* The steps of the UI thread that leave the session, its life and what it
\* has queued.
LEMMA QuietSteps ==
  ASSUME Drain \/ Drained \/ AskEnded \/ TickTree \/ TickNothing
               \/ TickDrains \/ SelectRow
           \/ PushAction \/ ToggleMicrophone \/ OpenOptions \/ TestMicrophone
                 \/ CloseOptions
           \/ CloseWindow \/ UNCHANGED gtkVars
  PROVE  /\ UNCHANGED <<state, session, networkWake, last>>
         /\ eventQueue' = eventQueue \/ (Drain /\ eventQueue' = Tail(eventQueue))
<1> USE DEF connectionVars, viewVars, gtkVars
<1>1. CASE Drain \/ Drained \/ AskEnded \/ TickTree
  BY <1>1 DEF Drain, Drained, AskEnded, TickTree
<1>2. CASE TickNothing \/ TickDrains \/ UNCHANGED gtkVars
  BY <1>2 DEF TickNothing, TickDrains
<1>3. CASE SelectRow \/ PushAction \/ ToggleMicrophone
  BY <1>3 DEF SelectRow, PushAction, ToggleMicrophone
<1>4. CASE OpenOptions \/ TestMicrophone \/ CloseOptions \/ CloseWindow
  BY <1>4 DEF OpenOptions, TestMicrophone, CloseOptions, CloseWindow
<1> QED BY <1>1, <1>2, <1>3, <1>4

LEMMA WindowKept ==
  ASSUME SessionTypes, LifeInv, [GtkNext]_gtkVars
  PROVE  /\ window' = "gone" <=> ui' = "gone"
         /\ window = "gone" => UNCHANGED gtkVars
         /\ window' = "gone" => window = "gone" \/ ShutdownEnds
<1> USE DEF SessionTypes, LifeInv
<1>1. CASE Connector \/ Network \/ (\E e \in Events : Publish(e))
                 \/ ProcessAction
  <2>1. window # "gone"
    BY <1>1, ThreadsOnSession, NoSessionType DEF Exists
  <2> QED BY <1>1, <2>1, ThreadsLeave
<1>2. CASE Tick
  BY <1>2 DEF Tick, TickNothing, TickDrains, PollFailed, PollConnected
<1>3. CASE Drain \/ Drained \/ AskEnded \/ EndSession \/ TickTree
  BY <1>3 DEF Drain, Drained, AskEnded, EndSession, TickTree
<1>4. CASE Shutdown \/ ShutdownEnds
  BY <1>4 DEF Shutdown, ShutdownEnds, ShutdownJoined
<1>5. CASE Connect \/ ConnectClicked \/ SelectRow \/ ToggleMicrophone
  BY <1>5 DEF Connect, ConnectClicked, SelectRow, ToggleMicrophone,
     MainReached, Free
<1>6. CASE OpenOptions \/ TestMicrophone \/ CloseOptions \/ CloseWindow
  BY <1>6 DEF OpenOptions, TestMicrophone, CloseOptions, CloseWindow,
     MainReached, Free
<1>7. CASE PushAction
  BY <1>7 DEF PushAction, MayPush, MainReached, Free
<1>8. CASE UNCHANGED gtkVars
  BY <1>8 DEF gtkVars
<1> QED
  BY <1>1, <1>2, <1>3, <1>4, <1>5, <1>6, <1>7, <1>8 DEF GtkNext, UI, User, Closing,
     Done

\* A step by its effect on the life of the session.
Threads ==
  Connector \/ Network \/ (\E e \in Events : Publish(e)) \/ ProcessAction
Quiet ==
  \/ Drain \/ Drained \/ AskEnded \/ TickTree \/ TickNothing
  \/ TickDrains \/ SelectRow \/ PushAction \/ ToggleMicrophone
  \/ OpenOptions \/ TestMicrophone \/ CloseOptions \/ CloseWindow
  \/ UNCHANGED gtkVars
Polled == ui = "idle" /\ window # "gone" /\ Exists /\ ~session.started

LEMMA Steps ==
  ASSUME [GtkNext]_gtkVars
  PROVE  \/ Threads \/ Quiet \/ (Polled /\ PollFailed) \/ (Polled /\ PollConnected)
         \/ EndSession \/ Connect \/ ConnectClicked \/ Shutdown \/ ShutdownEnds
BY DEF GtkNext, UI, Tick, User, Closing, Done, Threads, Quiet, Polled

LEMMA LifeKept ==
  ASSUME SessionTypes, LifeInv, [GtkNext]_gtkVars
  PROVE  LifeInv'
<1>0. /\ window' = "gone" <=> ui' = "gone"
      /\ window = "gone" => UNCHANGED gtkVars
      /\ window' = "gone" => window = "gone" \/ ShutdownEnds
  BY WindowKept
<1> USE DEF Exists
<1>1. CASE window = "gone"
  BY <1>0, <1>1 DEF LifeInv, gtkVars, connectionVars
<1> SUFFICES ASSUME window # "gone" PROVE LifeInv'
  BY <1>1
<1> USE DEF LifeInv, SessionTypes
<1>2. CASE Threads
  <2>1. /\ session.n # 0
        /\ session'.n = session.n /\ session'.started = session.started
        /\ session'.stop = session.stop
        /\ \/ session.runtime = "none" /\ session'.runtime = "none" /\ eventQueue' = eventQueue
           \/ session.runtime # "none" /\ session'.runtime # "none"
    BY <1>2, ThreadsOnSession DEF Threads
  <2>2. UNCHANGED <<window, ui, state, networkWake>>
    BY <1>2, ThreadsLeave DEF Threads
  <2> QED BY <1>0, <2>1, <2>2
<1>3. CASE Quiet
  <2>1. UNCHANGED <<state, session, networkWake>> /\ (eventQueue' = eventQueue \/ (Drain
              /\ eventQueue' = Tail(eventQueue)))
    BY <1>3, QuietSteps DEF Quiet
  <2>2. eventQueue = <<>> => eventQueue' = <<>>
    BY <2>1 DEF Drain
  <2>3. window' # "gone" \/ ShutdownEnds
    BY <1>0
  <2>4. ShutdownEnds => session' = NoSession
    BY DEF ShutdownEnds, Destroy
  <2> QED BY <1>0, <2>1, <2>2, <2>3, <2>4, NoSessionType
<1>4. CASE Polled /\ PollFailed
  <2>1. /\ session' = NoSession /\ networkWake' = 0 /\ eventQueue' = <<>>
              /\ state' = "Disconnected"
        /\ window' = window
    BY <1>4 DEF PollFailed
  <2> QED BY <1>0, <2>1, NoSessionType
<1>5. CASE Polled /\ PollConnected
  <2>1. window' = window
    BY <1>5 DEF PollConnected
  <2>2. CASE state' = "Disconnected" /\ Destroy(last.tested)
    BY <1>0, <2>1, <2>2, NoSessionType DEF Destroy
  <2>3. CASE /\ networkWake' = session.n
             /\ session' = [session EXCEPT !.connector = "joined", !.runtime = "running",
                                           !.started = TRUE, !.stop = state = "Disconnecting"]
             /\ state' = IF state = "Disconnecting" THEN state ELSE "Connected"
    <3>1. session'.n = session.n /\ session'.started /\ session'.runtime = "running"
      BY <2>3 DEF SessionRecord
    <3>2. session.n # 0
      BY <1>5 DEF Polled
    <3> QED BY <1>0, <2>1, <2>3, <3>1, <3>2
  <2> QED BY <1>5, <2>2, <2>3 DEF PollConnected
<1>6. CASE EndSession
  <2>1. /\ session' = NoSession /\ networkWake' = 0 /\ eventQueue' = <<>>
              /\ state' = "Disconnected"
        /\ window' = window
    BY <1>6 DEF EndSession, Destroy
  <2> QED BY <1>0, <2>1, NoSessionType
<1>7. CASE Connect
  <2>1. left.sessions \in Nat /\ left.sessions # 0 /\ state = "Disconnected"
    BY <1>7, UsesKept DEF Connect
  <2>2. UNCHANGED <<window, networkWake, eventQueue>> /\ ~Exists /\ session = NoSession
              /\ networkWake = 0 /\ eventQueue = <<>>
    BY <1>7, <2>1, NoSessionType DEF Connect
  <2>3. CASE session' = NewSession(left.sessions) /\ state' = "Connecting"
    BY <1>0, <2>1, <2>2, <2>3, NewSessionType
  <2>4. CASE UNCHANGED <<session, state>>
    BY <1>0, <2>2, <2>4
  <2> QED BY <1>7, <2>3, <2>4 DEF Connect
<1>8. CASE ConnectClicked
  <2>1. /\ session'.n = session.n /\ session'.started = session.started
        /\ session'.runtime = session.runtime
        /\ session.runtime = "none" => session'.stop = session.stop
    BY <1>8, StopKept DEF ConnectClicked
  <2>2. UNCHANGED <<window, networkWake, eventQueue>> /\ state' = "Disconnecting" /\ session.n # 0
    BY <1>8 DEF ConnectClicked
  <2> QED BY <1>0, <2>1, <2>2
<1>9. CASE Shutdown
  <2>1. /\ session'.n = session.n /\ session'.started = session.started
        /\ session'.runtime = session.runtime
        /\ session.runtime = "none" => session'.stop = session.stop
        /\ session.n = 0 => session' = session
    <3>1. CASE session.n = 0
      BY <1>9, <3>1 DEF Shutdown
    <3>2. CASE session.n # 0
      BY <1>9, <3>2, StopKept DEF Shutdown
    <3> QED BY <3>1, <3>2
  <2>2. UNCHANGED <<window, state, eventQueue>> /\ networkWake' \in {networkWake, 0}
    BY <1>9 DEF Shutdown
  <2> QED BY <1>0, <2>1, <2>2
<1>10. CASE ShutdownEnds
  <2>1. session' = NoSession /\ networkWake' = 0 /\ eventQueue' = <<>> /\ window' = "gone"
    BY <1>10 DEF ShutdownEnds, Destroy
  <2> QED BY <1>0, <2>1, NoSessionType
<1> QED BY <1>2, <1>3, <1>4, <1>5, <1>6, <1>7, <1>8, <1>9, <1>10, Steps

LEMMA PartingKept ==
  ASSUME SessionTypes, LifeInv, PartingInv, [GtkNext]_gtkVars
  PROVE  PartingInv'
<1> USE DEF SessionTypes, PartingInv
<1>1. CASE window = "gone"
  <2>1. UNCHANGED gtkVars
    BY <1>1, WindowKept
  <2> QED BY <2>1 DEF gtkVars, connectionVars
<1> SUFFICES ASSUME window # "gone" PROVE PartingInv'
  BY <1>1
<1>2. CASE Threads
  <2>1. UNCHANGED <<window, ui, last>>
    BY <1>2, ThreadsLeave DEF Threads
  <2>2. session.runtime = "closed" => session'.runtime = "closed"
    BY <1>2, ThreadsOnSession DEF Threads
  <2>3. /\ session'.runtime # "none" => session'.connector = "joined"
        /\ session'.runtime \in {"ending", "closed"} => session'.connection # "open"
        /\ session'.connector = "finished" /\ session'.abandoned =>
             session'.connection # "open" \/ session'.late
    <3>1. CASE Connector
      <4>1. session.runtime = "none"
        BY <3>1 DEF Connector, ConnectWaits, ConnectFails, ConnectSucceeds, ConnectorChecks
      <4>2. session'.connector = "finished" /\ session'.abandoned => session'.connection # "open"
        BY <3>1 DEF Connector, ConnectWaits, ConnectFails, ConnectSucceeds, ConnectorChecks, SessionRecord
      <4> QED BY <1>2, <4>1, <4>2, ThreadsOnSession DEF Threads
    <3>2. CASE Network
      <4>1. session.connector = "joined" /\ session'.connector = session.connector
        BY <3>2 DEF Network, RunEnds, RuntimeCloses, SessionRecord
      <4>2. session'.runtime \in {"ending", "closed"} /\ session'.connection # "open"
        BY <3>2 DEF Network, RunEnds, RuntimeCloses, SessionRecord
      <4> QED BY <4>1, <4>2
    <3>3. ASSUME NEW e \in Events, Publish(e)
          PROVE  /\ session'.runtime = session.runtime /\ session'.connection = session.connection
                 /\ session'.connector = session.connector /\ session'.late = session.late
                 /\ session'.abandoned = session.abandoned
      BY <3>3 DEF Publish, SessionRecord
    <3>4. CASE ProcessAction
      BY <3>4 DEF ProcessAction
    <3> QED BY <1>2, <3>1, <3>2, <3>3, <3>4 DEF Threads
  <2> QED BY <2>1, <2>2, <2>3
<1>3. CASE Quiet
  <2>1. UNCHANGED <<session, last>>
    BY <1>3, QuietSteps DEF Quiet
  <2>2. ui' = "last drain" => ui = "last drain" \/ session.runtime = "closed"
    <3>1. CASE Drain \/ Drained \/ AskEnded \/ TickTree \/ TickNothing
                     \/ TickDrains \/ UNCHANGED gtkVars
      BY <3>1 DEF Drain, Drained, AskEnded, TickTree, TickNothing,
         TickDrains, gtkVars
    <3>2. CASE SelectRow \/ PushAction \/ ToggleMicrophone \/ OpenOptions
                     \/ TestMicrophone
                 \/ CloseOptions \/ CloseWindow
      BY <3>2 DEF SelectRow, PushAction, ToggleMicrophone, OpenOptions,
         TestMicrophone, CloseOptions, CloseWindow
    <3> QED BY <1>3, <3>1, <3>2 DEF Quiet
  <2> QED BY <2>1, <2>2
<1>4. CASE Polled /\ PollFailed
  <2>1. session' = NoSession /\ ui' = "tree"
    BY <1>4 DEF PollFailed
  <2>2. last'.unseen = 0 /\ last'.parted
    BY <1>4 DEF PollFailed, LastRecord
  <2> QED BY <2>1, <2>2, NoSessionType
<1>5. CASE Polled /\ PollConnected
  <2>1. window' = window /\ ui' # "last drain"
    BY <1>5 DEF PollConnected
  <2>2. CASE Destroy(last.tested) /\ ~session.abandoned
    <3>1. ~session.stop /\ eventQueue = <<>>
      BY <1>5 DEF Polled, LifeInv
    <3> QED BY <2>1, <2>2, <3>1, NoSessionType, EmptySeq DEF Destroy
  <2>3. CASE /\ session' = [session EXCEPT !.connector = "joined", !.runtime = "running",
                                           !.started = TRUE, !.stop = state = "Disconnecting"]
             /\ last' = last
    BY <2>1, <2>3 DEF SessionRecord
  <2> QED BY <1>5, <2>2, <2>3 DEF PollConnected
<1>6. CASE EndSession
  <2>1. session.connection # "open" /\ eventQueue = <<>> /\ Destroy(audio.restore) /\ ui' = "tree"
    BY <1>6 DEF EndSession
  <2> QED BY <2>1, NoSessionType, EmptySeq DEF Destroy
<1>7. CASE Connect
  <2>1. last' = [NothingLeft EXCEPT !.tested = last.tested] /\ ui' = ui /\ ui = "idle"
    BY <1>7 DEF Connect, MainReached, Free
  <2>2. last'.unseen = 0 /\ ~last'.asked
    BY <2>1 DEF NothingLeft
  <2>3. session' = session \/ session' = NewSession(left.sessions)
    BY <1>7 DEF Connect
  <2> QED BY <2>1, <2>2, <2>3, NewSessionType
<1>8. ASSUME RequestStop, UNCHANGED <<window, last>>, ui' # "last drain" PROVE PartingInv'
  <2>1. /\ session'.runtime = session.runtime /\ session'.connector = session.connector
        /\ session'.connection = session.connection
        /\ session.runtime = "none" /\ session.connector = "finished" /\ ~session.abandoned => session'.late
        /\ session.runtime # "none" \/ session.abandoned =>
             session'.abandoned = session.abandoned /\ session'.late = session.late
    BY <1>8, StopKept
  <2> QED BY <1>8, <2>1
<1>9. CASE ConnectClicked \/ Shutdown
  <2>1. UNCHANGED <<window, last>> /\ ui' # "last drain"
    BY <1>9 DEF ConnectClicked, Shutdown, MainReached, Free
  <2> QED BY <1>8, <1>9, <2>1 DEF ConnectClicked, Shutdown
<1>10. CASE ShutdownEnds
  <2>1. Destroy(last.tested) /\ ShutdownJoined /\ window' = "gone" /\ ui' = "gone"
    BY <1>10 DEF ShutdownEnds
  <2>2. session.abandoned \/ session.stop => session.connection # "open" \/ session.late
    <3>1. CASE ~Exists
      BY <3>1, NoSessionType DEF LifeInv
    <3>2. CASE session.runtime = "closed"
      BY <3>2
    <3>3. CASE session.runtime = "none" /\ session.connector = "finished"
      BY <3>3 DEF LifeInv
    <3> QED BY <2>1, <3>1, <3>2, <3>3 DEF ShutdownJoined
  <2> QED BY <2>1, <2>2, NoSessionType DEF Destroy
<1> QED BY <1>2, <1>3, <1>4, <1>5, <1>6, <1>7, <1>9, <1>10, Steps

LEMMA MutedKept ==
  ASSUME SessionTypes, LifeInv, MutedInv, [GtkNext]_gtkVars
  PROVE  MutedInv'
<1> USE DEF SessionTypes, MutedInv
<1>1. CASE window = "gone"
  <2>1. UNCHANGED gtkVars
    BY <1>1, WindowKept
  <2> QED BY <2>1 DEF gtkVars, connectionVars
<1> SUFFICES ASSUME window # "gone" PROVE MutedInv'
  BY <1>1
<1>2. CASE Threads
  <2>1. UNCHANGED <<window, audio, last>>
    BY <1>2, ThreadsLeave DEF Threads
  <2>2. session'.started = session.started
    BY <1>2, ThreadsOnSession DEF Threads
  <2> QED BY <2>1, <2>2
<1>3. CASE Quiet
  <2>1. UNCHANGED <<state, session, last>>
    BY <1>3, QuietSteps DEF Quiet
  <2>2. CASE Drain \/ Drained \/ AskEnded \/ TickTree \/ TickNothing
                   \/ TickDrains \/ SelectRow
               \/ PushAction \/ UNCHANGED gtkVars
    BY <2>1, <2>2 DEF Drain, Drained, AskEnded, TickTree, TickNothing,
       TickDrains, SelectRow, PushAction, gtkVars
  <2>3. CASE ToggleMicrophone
    BY <2>1, <2>3 DEF ToggleMicrophone, LifeInv
  <2>4. CASE OpenOptions \/ TestMicrophone \/ CloseOptions \/ CloseWindow
    BY <2>1, <2>4 DEF OpenOptions, TestMicrophone, CloseOptions, CloseWindow,
       SetMonitor
  <2> QED BY <1>3, <2>2, <2>3, <2>4 DEF Quiet
<1>4. CASE Polled /\ PollFailed
  <2>1. last'.tested = last.tested
    BY <1>4 DEF PollFailed, LastRecord
  <2> QED BY <1>4, <2>1 DEF PollFailed, Polled
<1>5. CASE Polled /\ PollConnected
  <2>1. UNCHANGED <<window, audio>>
    BY <1>5 DEF PollConnected
  <2>2. CASE Destroy(last.tested)
    BY <1>5, <2>1, <2>2 DEF Destroy, Polled
  <2>3. CASE session' = [session EXCEPT !.connector = "joined", !.runtime = "running",
                                        !.started = TRUE, !.stop = state = "Disconnecting"]
    BY <2>3 DEF SessionRecord
  <2> QED BY <1>5, <2>2, <2>3 DEF PollConnected
<1>6. CASE EndSession
  BY <1>6 DEF EndSession, Destroy
<1>7. CASE Connect
  <2>1. ~session.started
    BY <1>7, NoSessionType DEF Connect, LifeInv
  <2>2. last'.tested = last.tested /\ UNCHANGED <<window, audio>>
    BY <1>7 DEF Connect, NothingLeft
  <2> QED BY <2>1, <2>2
<1>8. CASE ConnectClicked
  BY <1>8, StopKept DEF ConnectClicked
<1>9. CASE Shutdown
  BY <1>9, StopKept DEF Shutdown
<1>10. CASE ShutdownEnds
  BY <1>10 DEF ShutdownEnds
<1> QED BY <1>2, <1>3, <1>4, <1>5, <1>6, <1>7, <1>8, <1>9, <1>10, Steps

-----------------------------------------------------------------------------
LEMMA SelectType ==
  ASSUME NEW v \in View, NEW c \in Conversations
  PROVE  /\ Select(v, c) \in View
         /\ Select(v, c).dirty <=> (v.dirty \/ v.unread[c] # 0 \/ ~v.userSelected)
         /\ Select(v, c).snapshot = v.snapshot /\ Select(v, c).talking = v.talking
         /\ Select(v, c).active = c /\ Select(v, c).unread = [v.unread EXCEPT ![c] = 0]
<1> DEFINE unread == [v.unread EXCEPT ![c] = 0]
           dirty == v.dirty \/ v.unread[c] # 0 \/ ~v.userSelected
<1>1. unread \in [Conversations -> Nat] /\ dirty \in BOOLEAN
  BY DEF View
<1>2. Select(v, c) = [v EXCEPT !.active = c, !.unread = unread, !.dirty = dirty]
  BY DEF Select, View
<1> HIDE DEF unread, dirty
<1>3. /\ Select(v, c) \in View /\ Select(v, c).dirty = dirty
      /\ Select(v, c).snapshot = v.snapshot /\ Select(v, c).talking = v.talking
      /\ Select(v, c).active = c /\ Select(v, c).unread = unread
  BY <1>1, <1>2 DEF View
<1> QED BY <1>3 DEF unread, dirty

LEMMA AppendLineType ==
  ASSUME NEW v \in View, NEW c \in Conversations \cup {"active"}
  PROVE  /\ AppendLine(v, c) \in View
         /\ AppendLine(v, c) = v \/ AppendLine(v, c).dirty
<1>1. CASE c \in {"active", v.active}
  BY <1>1 DEF AppendLine
<1>2. CASE c \notin {"active", v.active}
  <2> DEFINE unread == [v.unread EXCEPT ![c] = @ + 1]
  <2>1. unread \in [Conversations -> Nat]
    BY <1>2 DEF View
  <2>2. AppendLine(v, c) = [v EXCEPT !.unread = unread, !.dirty = TRUE]
    BY <1>2 DEF AppendLine, View
  <2> HIDE DEF unread
  <2> QED BY <2>1, <2>2 DEF View
<1> QED BY <1>1, <1>2

LEMMA ChannelIsConversation ==
  ASSUME NEW snapshot \in Snapshots
  PROVE  snapshot \in Published /\ snapshot.channel \in Conversations
BY GtkAssumption DEF Snapshots, Published, Conversations

\* What an event makes of the view: it marks the tree, or it is a talker.
LEMMA ShownType ==
  ASSUME NEW v \in View, NEW e \in Queued
  PROVE  /\ Shown(v, e) \in View
         /\ v.dirty => Shown(v, e).dirty
         /\ \/ e.kind = "talk" /\ Shown(v, e) = [v EXCEPT !.talking = e.talking]
               /\ e.talking \in BOOLEAN
            \/ e.kind # "talk" /\ Shown(v, e) = v
            \/ e.kind # "talk" /\ Shown(v, e).dirty
<1>1. CASE e.kind = "snapshot"
  <2>1. e.snapshot \in Snapshots
    BY <1>1 DEF Queued, Events
  <2>2. e.snapshot \in Published /\ e.snapshot.channel \in Conversations
    BY <2>1, ChannelIsConversation
  <2> DEFINE seen == [v EXCEPT !.snapshot = e.snapshot, !.dirty = TRUE]
  <2>3. seen \in View /\ seen.dirty
    BY <2>2 DEF View
  <2>4. Shown(v, e) = IF v.userSelected THEN seen ELSE Select(seen, e.snapshot.channel)
    BY <1>1 DEF Shown
  <2> HIDE DEF seen
  <2>5. Select(seen, e.snapshot.channel) \in View /\ Select(seen, e.snapshot.channel).dirty
    BY <2>2, <2>3, SelectType
  <2> QED BY <1>1, <2>3, <2>4, <2>5
<1>2. CASE e.kind = "talk"
  <2>1. e.talking \in BOOLEAN
    BY <1>2 DEF Queued, Events
  <2>2. Shown(v, e) = [v EXCEPT !.talking = e.talking]
    BY <1>2 DEF Shown
  <2> QED BY <1>2, <2>1, <2>2 DEF View
<1>3. CASE e.kind = "line"
  <2>1. e.to \in Conversations \cup {"active"}
    BY <1>3 DEF Queued, Events
  <2>2. Shown(v, e) = AppendLine(v, e.to)
    BY <1>3 DEF Shown
  <2> QED BY <1>3, <2>1, <2>2, AppendLineType
<1>4. e.kind \in {"snapshot", "talk", "line"}
  BY DEF Queued, Events
<1> QED BY <1>1, <1>2, <1>3, <1>4

LEMMA UpdateType ==
  ASSUME NEW v \in View
  PROVE  Update(v) \in Tree
<1>1. Rows(v.snapshot) \subseteq Conversations
  BY DEF Rows, Conversations
<1>2. v.snapshot.channel \in {NoSnapshot.channel} \cup Visited
  BY DEF View, Published, Snapshots, NoSnapshot
<1>3. [c \in Conversations |-> IF c \in Rows(v.snapshot) THEN v.unread[c] ELSE 0]
            \in [Conversations -> Nat]
  BY DEF View
<1>4. (IF v.active \in Rows(v.snapshot) THEN v.active
            ELSE "none") \in {"none"} \cup Conversations
  BY <1>1
<1>5. ("client" \in Rows(v.snapshot) /\ v.talking) \in BOOLEAN
  OBVIOUS
<1> QED BY <1>1, <1>2, <1>3, <1>4, <1>5 DEF Update, Tree

LEMMA RestartsType ==
  ASSUME NEW v \in View
  PROVE  Restarts(v) \in View /\ Restarts(v).dirty
<1> DEFINE w == [v EXCEPT !.snapshot = NoSnapshot, !.unread = NoUnread, !.userSelected = FALSE,
                          !.talking = FALSE]
<1>1. NoUnread \in [Conversations -> Nat] /\ "server" \in Conversations
            /\ NoSnapshot \in Published
  BY DEF NoUnread, Conversations, Published
<1>2. w \in View /\ ~w.userSelected
  BY <1>1 DEF View
<1>3. Restarts(v) = Select(w, "server")
  BY DEF Restarts
<1> HIDE DEF w
<1>4. /\ Select(w, "server") \in View
      /\ Select(w, "server").dirty <=> (w.dirty \/ w.unread["server"] # 0 \/ ~w.userSelected)
  BY <1>1, <1>2, SelectType
<1> QED BY <1>2, <1>3, <1>4

LEMMA NoRowsType == NoRows \in Tree
BY DEF NoRows, NoUnread, Tree, NoSnapshot

\* A talker is shown at once, on the rows there are.
LEMMA TalkingUpdates ==
  ASSUME NEW v \in View, NEW b \in BOOLEAN
  PROVE  Talking(Update(v), [v EXCEPT !.talking = b]) = Update([v EXCEPT !.talking = b])
<1> DEFINE w == [v EXCEPT !.talking = b]
<1>1. w.snapshot = v.snapshot /\ w.unread = v.unread /\ w.active = v.active /\ w.talking = b
  BY DEF View
<1> HIDE DEF w
<1> DEFINE rows == Rows(v.snapshot)
           unread == [c \in Conversations |-> IF c \in Rows(v.snapshot)
                 THEN v.unread[c] ELSE 0]
           selected == IF v.active \in Rows(v.snapshot) THEN v.active ELSE "none"
           Row(talks) == [rows |-> rows, current |-> v.snapshot.channel, unread |-> unread,
                          selected |-> selected, talking |-> "client" \in rows /\ talks]
<1>2. Update(v) = Row(v.talking) /\ Update(w) = Row(w.talking)
  BY <1>1 DEF Update
<1> HIDE DEF rows, unread, selected
<1>3. Talking(Row(v.talking), w) = Row(w.talking)
  BY DEF Talking
<1> QED BY <1>2, <1>3 DEF w

\* Selecting a row whose lines are all read changes nothing else.
LEMMA SelectUpdates ==
  ASSUME NEW v \in View, NEW c \in Update(v).rows, v.unread[c] = 0,
         NEW w \in View, w.snapshot = v.snapshot, w.talking = v.talking, w.active = c,
         w.unread = [v.unread EXCEPT ![c] = 0]
  PROVE  [Update(v) EXCEPT !.selected = c] = Update(w)
<1>1. w.unread = v.unread
  BY DEF View
<1> DEFINE rows == Rows(v.snapshot)
           unread == [k \in Conversations |-> IF k \in Rows(v.snapshot) THEN v.unread[k] ELSE 0]
           talking == "client" \in rows /\ v.talking
           Row(s) == [rows |-> rows, current |-> v.snapshot.channel, unread |-> unread,
                      selected |-> s, talking |-> talking]
<1>2. c \in Rows(v.snapshot)
  BY DEF Update
<1>3. Update(v) = Row(IF v.active \in rows THEN v.active ELSE "none") /\ Update(w) = Row(c)
  BY <1>1, <1>2 DEF Update
<1> HIDE DEF rows, unread, talking
<1>4. \A s : [Row(s) EXCEPT !.selected = c] = Row(c)
  OBVIOUS
<1> QED BY <1>3, <1>4

LEMMA ViewKept ==
  ASSUME SessionTypes, LifeInv, ViewInv, [GtkNext]_gtkVars
  PROVE  ViewInv'
<1> USE DEF ViewInv
<1>1. CASE UNCHANGED <<view, tree, state>>
  BY <1>1 DEF Update
<1>2. CASE UNCHANGED <<view, tree>> /\ state' \notin {"Connecting", "Connected"}
  BY <1>2
<1>3. CASE Threads
  BY <1>1, <1>3, ThreadsLeave DEF Threads
<1>4. CASE TickNothing \/ TickDrains \/ Drained \/ AskEnded \/ PushAction
                 \/ ToggleMicrophone
             \/ OpenOptions \/ TestMicrophone \/ CloseOptions \/ CloseWindow
                   \/ UNCHANGED gtkVars
             \/ Shutdown \/ ShutdownEnds
  BY <1>1, <1>4 DEF TickNothing, TickDrains, Drained, AskEnded, PushAction,
     ToggleMicrophone, OpenOptions, TestMicrophone, CloseOptions, CloseWindow,
     Shutdown, ShutdownEnds, gtkVars, connectionVars, viewVars
<1>5. CASE Polled /\ PollFailed
  BY <1>2, <1>5 DEF PollFailed, viewVars
<1>6. CASE Polled /\ PollConnected
  <2>1. UNCHANGED <<view, tree>>
    BY <1>6 DEF PollConnected, viewVars
  <2>2. state = "Connecting" \/ state = "Disconnecting"
    BY <1>6 DEF Polled, LifeInv, SessionTypes
  <2>3. state' # "Connecting"
    BY <1>6, <2>2 DEF PollConnected
  <2>4. state' = "Connected" => view.dirty
    BY <1>6, <2>2 DEF PollConnected
  <2> QED BY <2>1, <2>3, <2>4
<1>7. CASE ConnectClicked
  BY <1>2, <1>7 DEF ConnectClicked, viewVars
<1>8. CASE EndSession
  <2>1. state' = "Disconnected" /\ view' = [view EXCEPT !.talking = FALSE] /\ tree' = NoRows
    BY <1>8 DEF EndSession, Cleared
  <2>2. view' \in View
    BY <2>1 DEF View
  <2> QED BY <2>1, <2>2, NoRowsType
<1>9. CASE Connect
  <2>1. view' = Restarts(view) /\ tree' = NoRows
    BY <1>9 DEF Connect
  <2> QED BY <2>1, RestartsType, NoRowsType
<1>10. CASE TickTree
  <2>1. CASE view.dirty /\ state = "Connected"
    <3>1. tree' = Update(view) /\ view' = [view EXCEPT !.dirty = FALSE] /\ state' = state
      BY <1>10, <2>1 DEF TickTree, connectionVars
    <3>2. view' \in View
      BY <3>1 DEF View
    <3>3. Update(view') = Update(view)
      <4>1. /\ view'.snapshot = view.snapshot /\ view'.unread = view.unread
            /\ view'.active = view.active /\ view'.talking = view.talking
        BY <3>1 DEF View
      <4> QED BY <4>1 DEF Update
    <3> QED BY <2>1, <3>1, <3>2, <3>3, UpdateType
  <2>2. CASE ~(view.dirty /\ state = "Connected")
    BY <1>1, <1>10, <2>2 DEF TickTree, connectionVars, viewVars
  <2> QED BY <2>1, <2>2
<1>11. CASE Drain
  <2> DEFINE e == Head(eventQueue)
  <2>1. e \in Queued
    BY <1>11, HeadTailProperties DEF Drain, SessionTypes
  <2>2. view' = Shown(view, e) /\ state' = state
        /\ tree' = IF e.kind = "talk" THEN Talking(tree, view') ELSE tree
    BY <1>11 DEF Drain
  <2> HIDE DEF e
  <2>3. view' \in View /\ (view.dirty => view'.dirty)
    BY <2>1, <2>2, ShownType
  <2>4. CASE e.kind = "talk"
    <3>1. view' = [view EXCEPT !.talking = e.talking] /\ e.talking \in BOOLEAN
      BY <2>1, <2>2, <2>4, ShownType
    <3>2. view'.dirty = view.dirty
      BY <3>1 DEF View
    <3>3. tree' \in Tree
      <4>1. tree' = [tree EXCEPT !.talking = "client" \in tree.rows /\ view'.talking]
        BY <2>2, <2>4 DEF Talking
      <4>2. ("client" \in tree.rows /\ view'.talking) \in BOOLEAN
        OBVIOUS
      <4> QED BY <4>1, <4>2 DEF Tree
    <3>4. tree = Update(view) => tree' = Update(view')
      BY <2>2, <2>4, <3>1, TalkingUpdates
    <3> QED BY <2>2, <2>3, <3>2, <3>3, <3>4
  <2>5. CASE e.kind # "talk"
    <3>1. view' = view \/ view'.dirty
      BY <2>1, <2>2, <2>5, ShownType
    <3> QED BY <1>1, <2>2, <2>3, <2>5, <3>1
  <2> QED BY <2>4, <2>5
<1>12. CASE SelectRow
  <2>1. PICK c \in tree.rows \ {tree.selected} :
          /\ view' = Select([view EXCEPT !.userSelected = TRUE], c)
          /\ tree' = [tree EXCEPT !.selected = c]
    BY <1>12 DEF SelectRow
  <2> DEFINE v == [view EXCEPT !.userSelected = TRUE]
  <2>2. c \in Conversations
    BY DEF Tree
  <2>3. /\ v \in View /\ v.userSelected /\ v.dirty = view.dirty /\ v.unread = view.unread
        /\ v.snapshot = view.snapshot /\ v.talking = view.talking
    BY DEF View
  <2> HIDE DEF v
  <2>4. view' = Select(v, c)
    BY <2>1 DEF v
  <2>5. /\ view' \in View
        /\ view'.dirty <=> (view.dirty \/ view.unread[c] # 0)
        /\ view'.snapshot = view.snapshot /\ view'.talking = view.talking
        /\ view'.active = c /\ view'.unread = [view.unread EXCEPT ![c] = 0]
    BY <2>2, <2>3, <2>4, SelectType
  <2>6. tree' \in Tree
    BY <2>1, <2>2 DEF Tree
  <2>7. state' = state
    BY <1>12 DEF SelectRow, connectionVars
  <2>8. ASSUME view.unread[c] = 0, tree = Update(view)
        PROVE  tree' = Update(view')
    <3>1. view \in View /\ c \in Update(view).rows
      BY <2>1, <2>8
    <3>2. [Update(view) EXCEPT !.selected = c] = Update(view')
      BY <2>5, <2>8, <3>1, SelectUpdates
    <3> QED BY <2>1, <2>8, <3>2
  <2> QED BY <2>5, <2>6, <2>7, <2>8
<1> QED
  BY <1>3, <1>4, <1>5, <1>6, <1>7, <1>8, <1>9, <1>10, <1>11, <1>12, Steps DEF Quiet

LEMMA GtkInvHolds == GtkSpec => []GtkInv
<1>1. GtkInv /\ [GtkNext]_gtkVars => GtkInv'
  BY TypesKept, LifeKept, PartingKept, MutedKept, ViewKept DEF GtkInv
<1> QED BY GtkInvInit, <1>1, PTL DEF GtkSpec

(* A session that is gone leaves nothing behind in the GTK client: Wake and  *)
(* EndSession leave no pointer to a destroyed connection in NetworkWake,     *)
(* every event was shown until the application ends, and what the user       *)
(* cancelled or ended has left the server, except an attempt that had        *)
(* succeeded and no tick had seen when the window closed; a session starts   *)
(* muted, unless the one before it ended in a microphone test that held its  *)
(* transmission back.  For any number of sessions and events.                *)
THEOREM WindowLeavesNothing == GtkSpec => []GoneLeavesNothing
<1>1. GtkInv => GoneLeavesNothing
  BY NoSessionType DEF GtkInv, LifeInv, PartingInv, MutedInv, GoneLeavesNothing, Exists
<1> QED BY GtkInvHolds, <1>1, PTL

(* Between two ticks of MainWindow the channel tree of a connected window    *)
(* shows what is known, or m_TreeDirty is set and the next tick rebuilds it, *)
(* for any set of channels and any number of events.                         *)
THEOREM TreeShowsView == GtkSpec => []TreeIsCurrent
<1>1. GtkInv => TreeIsCurrent
  BY DEF GtkInv, ViewInv, TreeIsCurrent
<1> QED BY GtkInvHolds, <1>1, PTL
=============================================================================
