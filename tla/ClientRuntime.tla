--------------------------- MODULE ClientRuntime ----------------------------
(***************************************************************************)
(* The terminal client's two threads, from NetworkRuntime::Start to Join:   *)
(* the loop of main.cpp and Connection::Run on the network thread, joined   *)
(* by the action queue, the event queue, a stop token and the socket's      *)
(* wakeup descriptor.  What a session does with a packet or an action is    *)
(* another module's business: here it is an event for the user, the end of  *)
(* the session, or an exception.                                            *)
(***************************************************************************)
EXTENDS Naturals, Sequences, SequencesExt

CONSTANTS MaxActions,       (* bound: lines that become actions               *)
          MaxPackets,       (* bound: packets the server sends                *)
          GoodbyePolls,     (* polls that fit in DisconnectTimeout (1500 ms)  *)
          MayThrow          (* BOOLEAN: can handlers and the transport throw  *)

ASSUME RuntimeAssumption ==
  /\ MaxActions \in Nat /\ MaxPackets \in Nat
  /\ GoodbyePolls \in Nat \ {0}
  /\ MayThrow \in BOOLEAN

VARIABLES
  main,           (* where the main loop is                                  *)
  signalled,      (* StopRequested, set by the signal handler                *)
  quit,           (* the user left: end of input or a command to quit        *)
  actions,        (* m_ActionQueue                                           *)
  actionsClosed,
  events,         (* m_EventQueue                                            *)
  eventsClosed,
  stop,           (* the stop token of the network thread                    *)
  wake,           (* the eventfd of the socket                               *)
  net,            (* where the network thread is                             *)
  sessionEvents,  (* Session::m_Events                                       *)
  removed,        (* Session::ServerRemoval                                  *)
  silent,         (* Session::TimedOut                                       *)
  goodbye,        (* polls left to wait for the Ack of clientdisconnect      *)
  result,         (* what Connection::Run came to                            *)
  packets,        (* history: packets received                               *)
  accepted,       (* history: actions the action queue took                  *)
  executed,       (* history: actions processed                              *)
  pushed,         (* history: events given to EventQueue::Push               *)
  shown           (* history: events printed                                 *)

queueVars == <<actions, actionsClosed, events, eventsClosed>>
mainVars == <<main, signalled, quit, shown, accepted>>
sessionVars == <<sessionEvents, removed, silent, packets>>
netVars == <<net, goodbye, result, executed, pushed>>
vars == <<queueVars, mainVars, sessionVars, netVars, stop, wake>>

Action == 1 .. MaxActions
Event == {"protocol", "action error", "disconnected"}

Init ==
  /\ main = "top" /\ signalled = FALSE /\ quit = FALSE
  /\ actions = <<>> /\ actionsClosed = FALSE /\ events = <<>> /\ eventsClosed = FALSE
  /\ stop = FALSE /\ wake = FALSE
  /\ net = "dispatch" /\ goodbye = 0 /\ result = "none"
  /\ sessionEvents \in {<<>>, <<"protocol">>}  (* from the initial state *)
  /\ removed = FALSE /\ silent = FALSE /\ packets = 0
  /\ accepted = <<>> /\ executed = <<>> /\ pushed = <<>> /\ shown = <<>>

(* EventQueue::Push *)
PushEvent(event) ==
  /\ pushed' = Append(pushed, event)
  /\ events' = IF eventsClosed THEN events ELSE Append(events, event)

-----------------------------------------------------------------------------
(* The main thread.  The loop condition, then WaitPop until nothing is left. *)
MainTop ==
  /\ main = "top"
  /\ main' = IF signalled \/ quit THEN "leave" ELSE "drain"
  /\ UNCHANGED <<queueVars, signalled, quit, shown, accepted, sessionVars, netVars, stop, wake>>

MainPop ==
  /\ main = "drain"
  /\ IF events # <<>>
     THEN shown' = Append(shown, Head(events)) /\ events' = Tail(events) /\ UNCHANGED main
     ELSE main' = "check" /\ UNCHANGED <<shown, events>>
  /\ UNCHANGED <<actions, actionsClosed, eventsClosed, signalled, quit, accepted, sessionVars,
                 netVars, stop, wake>>

(* EventQueue::Closed ends the loop. *)
MainCheck ==
  /\ main = "check"
  /\ main' = IF eventsClosed THEN "leave" ELSE "input"
  /\ UNCHANGED <<queueVars, signalled, quit, shown, accepted, sessionVars, netVars, stop, wake>>

MainInputTimeout ==
  /\ main = "input"
  /\ main' = "top"
  /\ UNCHANGED <<queueVars, signalled, quit, shown, accepted, sessionVars, netVars, stop, wake>>

(* HandleLine pushes an action; a closed queue drops it. *)
MainInputLine ==
  LET action == Len(accepted) + 1
  IN  /\ main = "input"
      /\ action \in Action
      /\ main' = "top"
      /\ IF actionsClosed THEN UNCHANGED <<actions, accepted>>
         ELSE actions' = Append(actions, action) /\ accepted' = Append(accepted, action)
      /\ UNCHANGED <<actionsClosed, events, eventsClosed, signalled, quit, shown, sessionVars,
                     netVars, stop, wake>>

MainInputQuit ==
  /\ main = "input"
  /\ main' = "top" /\ quit' = TRUE
  /\ UNCHANGED <<queueVars, signalled, shown, accepted, sessionVars, netVars, stop, wake>>

Signal ==
  /\ ~signalled /\ main # "done"
  /\ signalled' = TRUE
  /\ UNCHANGED <<queueVars, main, quit, shown, accepted, sessionVars, netVars, stop, wake>>

(* RequestStop, then Join. *)
MainLeave ==
  /\ main = "leave"
  /\ main' = "join"
  /\ stop' = TRUE /\ wake' = TRUE
  /\ UNCHANGED <<queueVars, signalled, quit, shown, accepted, sessionVars, netVars>>

MainJoin ==
  /\ main = "join" /\ net = "gone"
  /\ main' = "done"
  /\ UNCHANGED <<queueVars, signalled, quit, shown, accepted, sessionVars, netVars, stop, wake>>

-----------------------------------------------------------------------------
(* Connection::Run on the network thread.                                    *)

(* DispatchEvents, one event at a time, while the live loop or the farewell  *)
(* goes on.  Nothing left: SessionEnded is asked, in this order.             *)
Ended == IF removed THEN "ServerClosed" ELSE IF silent THEN "Timeout" ELSE "none"

NetDispatch ==
  /\ net \in {"dispatch", "farewell"}
  /\ sessionEvents # <<>>
  /\ PushEvent(Head(sessionEvents))
  /\ sessionEvents' = Tail(sessionEvents)
  /\ UNCHANGED <<actions, actionsClosed, eventsClosed, mainVars, removed, silent, packets, net,
                 goodbye, result, executed, stop, wake>>

NetDispatched ==
  /\ net = "dispatch" /\ sessionEvents = <<>>
  /\ result' = Ended
  /\ net' = IF Ended = "none" THEN "loop" ELSE "announce"
  /\ UNCHANGED <<queueVars, mainVars, sessionVars, goodbye, executed, pushed, stop, wake>>

NetLoop ==
  /\ net = "loop"
  /\ net' = IF stop THEN "goodbye" ELSE "cycle"
  /\ UNCHANGED <<queueVars, mainVars, sessionVars, goodbye, result, executed, pushed,
                 stop, wake>>

(* The cycle handler: ProcessActions until TryPop finds nothing. *)
NetAction(fails) ==
  /\ net = "cycle" /\ actions # <<>>
  /\ actions' = Tail(actions)
  /\ executed' = Append(executed, Head(actions))
  /\ IF fails THEN PushEvent("action error") ELSE UNCHANGED <<events, pushed>>
  /\ UNCHANGED <<actionsClosed, eventsClosed, mainVars, sessionVars, net, goodbye, result, stop, wake>>

(* Mutant: the cycle ends with actions still queued. *)
MutantCycleEndsEarly ==
  /\ net = "cycle"
  /\ net' = "poll"
  /\ UNCHANGED <<queueVars, mainVars, sessionVars, goodbye, result, executed, pushed,
                 stop, wake>>

NetCycled ==
  /\ net = "cycle" /\ actions = <<>>
  /\ net' = "poll"
  /\ UNCHANGED <<queueVars, mainVars, sessionVars, goodbye, result, executed, pushed,
                 stop, wake>>

(* Poll, where its caller goes on afterwards. *)
AfterPoll == IF net = "poll" THEN "dispatch" ELSE "farewell"

(* WaitReadable times out or is woken, and drains the wakeup. *)
NetPollNothing ==
  /\ net \in {"poll", "parting"}
  /\ wake' = FALSE
  /\ net' = AfterPoll
  /\ UNCHANGED <<queueVars, mainVars, sessionVars, goodbye, result, executed, pushed, stop>>

(* A packet arrives, with an event for the user or the server's removal of   *)
(* the client; in parting it may be the Ack of clientdisconnect.             *)
NetPollPacket(kind) ==
  /\ net \in {"poll", "parting"}
  /\ packets < MaxPackets
  /\ packets' = packets + 1
  /\ sessionEvents' = IF kind = "event" THEN Append(sessionEvents, "protocol") ELSE sessionEvents
  /\ removed' = (removed \/ kind = "removal")
  /\ goodbye' = IF kind = "ack" THEN 0 ELSE goodbye
  /\ kind = "ack" => net = "parting"
  /\ silent' = FALSE
  /\ wake' = FALSE
  /\ net' = AfterPoll
  /\ UNCHANGED <<queueVars, mainVars, result, executed, pushed, stop>>

(* The server has been silent for ReceiveTimeout. *)
GoesSilent ==
  /\ ~silent /\ net \in {"poll", "cycle"}
  /\ silent' = TRUE
  /\ UNCHANGED <<queueVars, mainVars, sessionEvents, removed, packets, netVars, stop, wake>>

(* DisconnectGracefully sends clientdisconnect and polls until it is         *)
(* acknowledged, or for DisconnectTimeout.                                   *)
NetGoodbye ==
  /\ net = "goodbye"
  /\ net' = "parting"
  /\ goodbye' = GoodbyePolls
  /\ UNCHANGED <<queueVars, mainVars, sessionVars, result, executed, pushed, stop, wake>>

(* Mutant: no DisconnectTimeout. *)
MutantNoDeadline ==
  /\ net = "farewell" /\ sessionEvents = <<>>
  /\ IF goodbye = 0 THEN net' = "announce" /\ result' = "LocalRequest"
     ELSE net' = "parting" /\ UNCHANGED result
  /\ UNCHANGED <<queueVars, mainVars, sessionVars, goodbye, executed, pushed, stop, wake>>

NetFarewell ==
  /\ net = "farewell" /\ sessionEvents = <<>>
  /\ IF goodbye <= 1
     THEN net' = "announce" /\ goodbye' = 0 /\ result' = "LocalRequest"
     ELSE net' = "parting" /\ goodbye' = goodbye - 1 /\ UNCHANGED result
  /\ UNCHANGED <<queueVars, mainVars, sessionVars, executed, pushed, stop, wake>>

(* Anything that throws inside Run ends in its catch clause: a handler of    *)
(* the caller, with the action or event it was given gone from its queue ... *)
NetHandlerThrows ==
  /\ MayThrow
  /\ \/ /\ net = "cycle" /\ actions # <<>>
        /\ actions' = Tail(actions)
        /\ executed' = Append(executed, Head(actions))
        /\ UNCHANGED sessionEvents
     \/ /\ net \in {"dispatch", "farewell"} /\ sessionEvents # <<>>
        /\ sessionEvents' = Tail(sessionEvents)
        /\ UNCHANGED <<actions, executed>>
  /\ result' = "TransportError"
  /\ net' = "announce"
  /\ UNCHANGED <<actionsClosed, events, eventsClosed, mainVars, removed, silent, packets, goodbye,
                 pushed, stop, wake>>

(* ... or the session: Poll or the goodbye. *)
NetSessionThrows ==
  /\ MayThrow
  /\ net \in {"poll", "goodbye", "parting"}
  /\ result' = "TransportError"
  /\ net' = "announce"
  /\ UNCHANGED <<queueVars, mainVars, sessionVars, goodbye, executed, pushed, stop, wake>>

(* Mutant: the event queue is closed before the last event is pushed. *)
MutantClosesFirst ==
  /\ net = "announce"
  /\ net' = "close actions"
  /\ eventsClosed' = TRUE
  /\ pushed' = IF result # "LocalRequest" THEN Append(pushed, "disconnected") ELSE pushed
  /\ UNCHANGED <<actions, actionsClosed, events, mainVars, sessionVars, goodbye, result,
                 executed, stop, wake>>

(* NetworkRuntime::Run after Connection::Run. *)
NetAnnounce ==
  /\ net = "announce"
  /\ net' = "close actions"
  /\ IF result # "LocalRequest" THEN PushEvent("disconnected") ELSE UNCHANGED <<events, pushed>>
  /\ UNCHANGED <<actions, actionsClosed, eventsClosed, mainVars, sessionVars, goodbye, result,
                 executed, stop, wake>>

NetCloseActions ==
  /\ net = "close actions"
  /\ net' = "close events"
  /\ actionsClosed' = TRUE
  /\ UNCHANGED <<actions, events, eventsClosed, mainVars, sessionVars, goodbye, result, executed,
                 pushed, stop, wake>>

NetCloseEvents ==
  /\ net = "close events"
  /\ net' = "gone"
  /\ eventsClosed' = TRUE
  /\ UNCHANGED <<actions, actionsClosed, events, mainVars, sessionVars, goodbye, result, executed,
                 pushed, stop, wake>>

Main == \/ MainTop \/ MainPop \/ MainCheck \/ MainInputTimeout \/ MainInputLine \/ MainInputQuit
        \/ MainLeave \/ MainJoin

Net == \/ NetDispatch \/ NetDispatched \/ NetLoop \/ NetAction(FALSE) \/ NetAction(TRUE) \/ NetCycled
       \/ NetPollNothing \/ (\E kind \in {"event", "removal", "ack"} : NetPollPacket(kind))
       \/ NetGoodbye \/ NetFarewell \/ NetAnnounce \/ NetCloseActions \/ NetCloseEvents

Next == Main \/ Signal \/ Net \/ GoesSilent \/ NetHandlerThrows \/ NetSessionThrows

Spec == Init /\ [][Next]_vars

(* Both threads run; every wait of theirs has a timeout (50 ms for input and *)
(* for a poll) except Join.                                                  *)
FairSpec == Spec /\ WF_vars(Main) /\ WF_vars(Net)

-----------------------------------------------------------------------------
(* Nothing is lost between the threads.  Every event the network thread      *)
(* publishes is printed or still queued, in order and once: the queue is     *)
(* closed only after the last Push.  Actions are executed in the order they  *)
(* were typed, each once: what has not been executed is still queued, even   *)
(* after the session has ended.  And a session that is over without an event *)
(* that says so is one the user asked to end.                                *)
NothingIsLost ==
  /\ pushed = shown \o events
  /\ accepted = executed \o actions
  /\ net \in {"close actions", "close events", "gone"} /\ ~Contains(pushed, "disconnected") =>
       stop /\ result = "LocalRequest"

(* event.hpp on DisconnectedEvent: "Published so the terminal says what      *)
(* happened instead of simply going quiet."  The code does not ensure it:    *)
(* README, section 6.                                                        *)
DisconnectIsShown ==
  main = "done" /\ ~quit /\ ~signalled => Contains(shown, "disconnected")

(* The client always comes to an end once the user or the session does:      *)
(* neither thread waits for the other forever.                               *)
LeavingEnds == (signalled \/ quit \/ result # "none") ~> main = "done"

(* A typed action is executed, unless the session ends first. *)
ActionsAreExecuted ==
  \A a \in Action : Contains(accepted, a) ~> (Contains(executed, a) \/ stop \/ result # "none")
=============================================================================
