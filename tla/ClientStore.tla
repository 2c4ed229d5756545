----------------------------- MODULE ClientStore ----------------------------
(***************************************************************************)
(* ClientStore: the clients the server has shown, a map from client id to   *)
(* client.  A client first seen in a move or an update is partial, with     *)
(* detailsKnown false, until the server introduces it.                      *)
(***************************************************************************)
EXTENDS ChannelStore

EmptyClients == <<>>

NewClient == [channelId |-> 0, nickname |-> 0, uniqueId |-> 0, muted |-> 0, detailsKnown |-> FALSE]

\* try_emplace: the client, or a new partial one.
Client(clients, id) == IF id \in DOMAIN clients THEN clients[id] ELSE NewClient

EnterView(clients, entry) ==
  LET old == Client(clients, entry.id)
      keeps == old.channelId # 0 /\ (entry.channelId = 0 \/ ~old.detailsKnown)
  IN (entry.id :> [channelId |-> IF keeps THEN old.channelId ELSE entry.channelId,
                   nickname |-> entry.nickname,
                   uniqueId |-> IF entry.uniqueId = 0 THEN old.uniqueId ELSE entry.uniqueId,
                   muted |-> entry.muted, detailsKnown |-> TRUE]) @@ clients

ApplyEnterView(clients, entries) == FoldLeft(EnterView, clients, entries)

MoveClient(clients, id, channel) ==
  (id :> [Client(clients, id) EXCEPT !.channelId = channel]) @@ clients

ApplyMoved(clients, entries) ==
  FoldLeft(LAMBDA c, entry : MoveClient(c, entry.id, entry.channelId), clients, entries)

ApplyUpdated(clients, entries) ==
  FoldLeft(LAMBDA c, entry : (entry.id :> [Client(c, entry.id) EXCEPT
                                !.nickname = Or(entry.nickname, @), !.muted = Or(entry.muted, @)]) @@ c,
           clients, entries)

RemoveClient(clients, id) == [c \in DOMAIN clients \ {id} |-> clients[c]]

RemoveInChannel(clients, channel, preserve) ==
  [c \in {c \in DOMAIN clients : clients[c].channelId # channel \/ c = preserve} |-> clients[c]]

ValidateThrows(clients, store) ==
  \E c \in DOMAIN clients : clients[c].channelId \notin Ids(store) \cup {0}

=============================================================================
