------------------------------ MODULE Messages ------------------------------
(***************************************************************************)
(* The server's commands and what the parsers of protocol/message make of   *)
(* them.  A command is a name and a sequence of rows; a row is a function   *)
(* from the names of its parameters to their values.  Every value is a      *)
(* natural number: a number for itself, a string by an index with 0 for the *)
(* empty one, a flag by 0 or 1, and Unparsable for text that is no number   *)
(* where one is due.                                                        *)
(* A parser reads every row before anything is applied; it yields the       *)
(* entries or, for a C++ exception, Throws.                                 *)
(***************************************************************************)
EXTENDS Integers, Sequences

CONSTANT MaxClientId        (* 65535 in the code: the largest client id       *)

ASSUME MessagesAssumption == MaxClientId \in Nat \ {0}

Unparsable == -1
Throws == <<>>
NoValue == -2               (* std::nullopt                                   *)

(***************************************************************************)
(* CommandRow::Find and Require, and ParseUnsigned and ParseOptionalBoolean *)
(* of the parsers.                                                          *)
(***************************************************************************)
Find(row, name, default) == IF name \in DOMAIN row THEN row[name] ELSE default
Require(row, name) == name \in DOMAIN row
ParseUnsigned(row, name) == Require(row, name) /\ row[name] # Unparsable
ParseOptional(row, name) == Require(row, name) => row[name] # Unparsable
ParseFlags(row, names) == \A n \in names : Require(row, n) => row[n] \in {0, 1}

ParseRows(command, Valid(_), Entry(_)) ==
  IF \E i \in DOMAIN command.rows : ~Valid(command.rows[i]) THEN Throws
  ELSE [i \in DOMAIN command.rows |-> Entry(command.rows[i])]

ParseRow(command, Valid(_), Entry(_)) ==
  IF Len(command.rows) # 1 THEN Throws ELSE ParseRows(command, Valid, Entry)

(***************************************************************************)
(* Channels.  "permanent" stands for the flags that are only shown.         *)
(***************************************************************************)
ChannelFlags == {"channel_flag_permanent", "channel_flag_default", "channel_codec_is_unencrypted"}

ChannelEntry(row) ==
  [id |-> row.cid, parentId |-> row.cpid, orderAfterId |-> row.channel_order,
   name |-> row.channel_name, permanent |-> Find(row, "channel_flag_permanent", 0),
   defaultChannel |-> Find(row, "channel_flag_default", 0),
   codec |-> Find(row, "channel_codec", 4),
   codecIsUnencrypted |-> Find(row, "channel_codec_is_unencrypted", 1)]

ChannelRow(row) ==
  /\ ParseUnsigned(row, "cid") /\ row.cid # 0
  /\ ParseUnsigned(row, "cpid") /\ ParseUnsigned(row, "channel_order")
  /\ Require(row, "channel_name")
  /\ ParseFlags(row, ChannelFlags)
  /\ Require(row, "channel_codec") => row.channel_codec \in 0 .. 5

ParseChannelList(command) == ParseRows(command, ChannelRow, ChannelEntry)
ParseChannelCreated(command) == ParseRow(command, ChannelRow, ChannelEntry)

ChannelEditedEntry(row) ==
  [id |-> row.cid, parentId |-> Find(row, "cpid", NoValue),
   orderAfterId |-> Find(row, "channel_order", NoValue),
   name |-> Find(row, "channel_name", NoValue),
   permanent |-> Find(row, "channel_flag_permanent", NoValue),
   defaultChannel |-> Find(row, "channel_flag_default", NoValue),
   codec |-> Find(row, "channel_codec", NoValue),
   codecIsUnencrypted |-> Find(row, "channel_codec_is_unencrypted", NoValue)]

ChannelEditedRow(row) ==
  /\ ParseUnsigned(row, "cid") /\ row.cid # 0
  /\ ParseOptional(row, "cpid") /\ ParseOptional(row, "channel_order")
  /\ ParseFlags(row, ChannelFlags)
  /\ Require(row, "channel_codec") => row.channel_codec \in 0 .. 5

ParseChannelEdited(command) == ParseRow(command, ChannelEditedRow, ChannelEditedEntry)

ChannelMovedRow(row) ==
  /\ ParseUnsigned(row, "cid") /\ row.cid # 0
  /\ ParseUnsigned(row, "cpid") /\ ParseUnsigned(row, "order")

ChannelMovedEntry(row) == [id |-> row.cid, parentId |-> row.cpid, orderAfterId |-> row.order]
ParseChannelMoved(command) == ParseRow(command, ChannelMovedRow, ChannelMovedEntry)

ChannelIdRow(row) == ParseUnsigned(row, "cid") /\ row.cid # 0
ChannelId(row) == row.cid
ParseChannelDeleted(command) == ParseRow(command, ChannelIdRow, ChannelId)
ParseChannelSubscription(command) == ParseRows(command, ChannelIdRow, ChannelId)

(***************************************************************************)
(* Clients.  "muted" stands for the flags of a client, all treated alike.   *)
(***************************************************************************)
ClientIdRow(row) == ParseUnsigned(row, "clid") /\ row.clid \in 1 .. MaxClientId

ClientEnterViewEntry(row) ==
  [id |-> row.clid, channelId |-> Find(row, "ctid", 0), nickname |-> row.client_nickname,
   uniqueId |-> Find(row, "client_unique_identifier", 0),
   muted |-> Find(row, "client_input_muted", 0)]

ClientEnterViewRow(row) ==
  /\ ClientIdRow(row) /\ ParseOptional(row, "ctid")
  /\ Require(row, "client_nickname") /\ row.client_nickname # 0
  /\ ParseFlags(row, {"client_input_muted"})

ParseClientEnterView(command) == ParseRows(command, ClientEnterViewRow, ClientEnterViewEntry)

ClientMovedRow(row) == ClientIdRow(row) /\ ParseUnsigned(row, "ctid") /\ ParseUnsigned(row, "reasonid")
ClientMovedEntry(row) == [id |-> row.clid, channelId |-> row.ctid]
ParseClientMoved(command) == ParseRows(command, ClientMovedRow, ClientMovedEntry)

ClientLeftViewRow(row) ==
  ClientIdRow(row) /\ \A n \in {"cfid", "ctid", "reasonid"} : ParseOptional(row, n)

ClientLeftViewEntry(row) ==
  [id |-> row.clid, fromChannelId |-> Find(row, "cfid", 0), toChannelId |-> Find(row, "ctid", 0),
   reasonId |-> Find(row, "reasonid", 0)]

ParseClientLeftView(command) == ParseRows(command, ClientLeftViewRow, ClientLeftViewEntry)

\* notifyclientupdated accepts the client id 0, unlike the others.
ClientUpdatedRow(row) ==
  /\ ParseUnsigned(row, "clid") /\ row.clid \in 0 .. MaxClientId
  /\ ParseFlags(row, {"client_input_muted"})

ClientUpdatedEntry(row) ==
  [id |-> row.clid, nickname |-> Find(row, "client_nickname", NoValue),
   muted |-> Find(row, "client_input_muted", NoValue)]

ParseClientUpdated(command) == ParseRows(command, ClientUpdatedRow, ClientUpdatedEntry)

(***************************************************************************)
(* Messages for the user.                                                   *)
(***************************************************************************)
TargetMode == [private |-> 1, channel |-> 2, server |-> 3]

TextMessageRow(row) ==
  /\ ParseUnsigned(row, "targetmode") /\ row.targetmode \in 1 .. 3
  /\ Require(row, "msg") /\ ParseOptional(row, "target")
  /\ ParseOptional(row, "invokerid") /\ Find(row, "invokerid", 0) <= MaxClientId

TextMessageEntry(row) ==
  [targetMode |-> row.targetmode, targetId |-> Find(row, "target", NoValue),
   invokerId |-> Find(row, "invokerid", 0), invokerName |-> Find(row, "invokername", 0)]

ParseTextMessage(command) == ParseRows(command, TextMessageRow, TextMessageEntry)

ClientPokeRow(row) ==
  /\ ParseUnsigned(row, "invokerid") /\ row.invokerid <= MaxClientId
  /\ Require(row, "invokername") /\ Require(row, "invokeruid") /\ Require(row, "msg")

ClientPokeEntry(row) == [invokerId |-> row.invokerid, invokerName |-> row.invokername]
ParseClientPoke(command) == ParseRow(command, ClientPokeRow, ClientPokeEntry)

CommandResultRow(row) == ParseUnsigned(row, "id") /\ Require(row, "msg")
CommandResultEntry(row) == [id |-> row.id]
ParseCommandResult(command) == ParseRows(command, CommandResultRow, CommandResultEntry)

(***************************************************************************)
(* Requests of the client: the command and what it names.                   *)
(***************************************************************************)
SendTextMessage(client) == <<"sendtextmessage", client>>
ClientMove(channel) == <<"clientmove", channel>>
ClientUpdate(nickname) == <<"clientupdate", nickname>>
ChannelSubscribe(channel) == <<"channelsubscribe", channel>>
ChannelSubscribeAll == <<"channelsubscribeall", 0>>
SetConnectionInfo == <<"setconnectioninfo", 0>>

=============================================================================
