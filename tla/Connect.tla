------------------------------ MODULE Connect ------------------------------
(***************************************************************************)
(* From the endpoint the user typed to an established connection: the       *)
(* resolution of the endpoint, Connection::Connect with the Init1 exchange, *)
(* the bootstrap transport, the derivation of the session's key, the login  *)
(* over SessionTransport, and Connection::Disconnect.                       *)
(*                                                                         *)
(* The server and the network are external.  A datagram may be lost,        *)
(* overtaken and, MaxDuplicates times, delivered twice; one socket serves   *)
(* all attempts, so what belongs to an earlier attempt may arrive late.     *)
(* Cryptography is symbolic: a key is the tuple of the secrets it is made   *)
(* of, and a packet decrypts only under the key it was encrypted with.      *)
(* Acks of commands are not messages here, nor is their counter.            *)
(***************************************************************************)
EXTENDS Naturals, FiniteSets, Sequences, SequencesExt

CONSTANTS MaxAttempts,    (* Handshake::Run: 5 in the code                   *)
          MaxFragments,   (* BootstrapTransport::MaxFragments: 64            *)
          MaxResets,      (* bound: Resets the server sends                  *)
          MaxDuplicates   (* bound: datagrams delivered twice                *)

ASSUME ConnectAssumption ==
  /\ MaxAttempts \in Nat \ {0}
  /\ MaxFragments \in Nat \ {0, 1}
  /\ MaxResets \in Nat
  /\ MaxDuplicates \in Nat

VARIABLES
  state,       (* Connection::m_State; "none" before the constructor is done *)
  pc,          (* the blocking call the connecting thread is in              *)
  address,     (* m_Address: which name it was resolved from                 *)
  attempt,     (* Handshake::Run: attempt                                    *)
  held,        (* ClientInitIv::m_Alpha and Session::m_DisconnectPacketId    *)
  sequences,   (* BootstrapTransport::m_Sequences, then SessionTransport's   *)
  fragments,   (* ReceiveCommand: fragments, by packet id                    *)
  material,    (* SessionMaterial: sharedIv as the secrets it is made of     *)
  pending,     (* m_ReliableCommands: the ids of unacknowledged commands     *)
  window,      (* m_CommandWindow: packets ahead of the expected one         *)
  ready,       (* m_ReadyCommands                                            *)
  before,      (* Login: commandsBeforeInitServer                            *)
  clientId,    (* Session::m_ClientId                                        *)
  processed,   (* history: commands given to Session::ProcessCommand         *)
  network,     (* datagrams on the way to the client                         *)
  upstream,    (* datagrams on the way to the server                         *)
  duplicates,  (* datagrams delivered twice so far                           *)
  waited,      (* has recv been waiting, since the last datagram             *)
  resets,      (* Resets the server has sent                                 *)
  server,      (* the server's side of the connection                        *)
  lookup       (* the detached thread of ResolveSrvRecordWithTimeout         *)

clientVars == <<state, pc, address, attempt, held, sequences, fragments, material, pending,
                window, ready, before, clientId, processed>>
serverVars == <<server, resets>>
networkVars == <<network, upstream, duplicates, waited>>
vars == <<clientVars, serverVars, networkVars, lookup>>

(* A datagram's type and id are its header, key what it is encrypted with.   *)
NoKey == <<>>
BootstrapKey == <<"bootstrap">>
Datagram(type, id, key, body, value) ==
  [type |-> type, id |-> id, key |-> key, body |-> body, value |-> value, fragmented |-> FALSE]
Init1(command, value) == Datagram("Init1", 101, NoKey, command, value)

(* The packet ids the bootstrap starts with.                                 *)
FirstSequences == [outCommand |-> 1, inCommand |-> 0, inAck |-> 0]

-----------------------------------------------------------------------------
(* net::ParseEndpoint: where the last colon is, and what follows it.         *)
NotANumber == -1
Endpoints == [colon : {"none", "first", "last", "inside"}, port : {NotANumber, 9987, 65536}]
ParseEndpointThrows(e) ==
  /\ e.colon # "none"
  /\ e.colon \in {"first", "last"} \/ e.port = NotANumber \/ e.port > 65535

(* ResolveSrvRecord: the records of an answer in the order they come; the    *)
(* preferred one has the lowest priority, then the highest weight, and is    *)
(* the first of its equals.                                                  *)
Records == { [priority |-> 0, weight |-> 1], [priority |-> 0, weight |-> 2],
             [priority |-> 1, weight |-> 2] }
IsBetter(candidate, best) ==
  IF candidate.priority # best.priority THEN candidate.priority < best.priority
                                        ELSE candidate.weight > best.weight
ResolveSrvRecord(records) ==
  LET Best(best, candidate) == IF IsBetter(candidate, best) THEN candidate ELSE best
  IN  FoldLeft(Best, records[1], records)

NoRecord == [priority |-> 0, weight |-> 0]

(* The thread of the lookup answers, in its own time: with a record or none. *)
SrvAnswer ==
  /\ lookup.state = "running"
  /\ \E records \in UNION { [1 .. n -> Records] : n \in 0 .. 2 } :
       lookup' = [state |-> "answered",
                  record |-> IF records = <<>> THEN NoRecord ELSE ResolveSrvRecord(records)]
  /\ UNCHANGED <<clientVars, serverVars, networkVars>>

(* The constructor: parse the endpoint, then start the lookup.               *)
Construct ==
  /\ pc = "new"
  /\ \E e \in Endpoints :
       IF ParseEndpointThrows(e)
         THEN pc' = "failed" /\ UNCHANGED lookup
         ELSE pc' = "lookup" /\ lookup' = [lookup EXCEPT !.state = "running"]
  /\ UNCHANGED <<state, address, attempt, held, sequences, fragments, material, pending, window,
                 ready, before, clientId, processed, serverVars, networkVars>>

(* ResolveEndpoint goes on with the record, without one, or when the budget  *)
(* of the lookup is over; then nobody reads what the thread answers later.   *)
(* ResolveHostPort and the socket may throw.                                 *)
Resolve ==
  /\ pc = "lookup"
  /\ address' = IF lookup.state = "answered" /\ lookup.record # NoRecord THEN "record" ELSE "host"
  /\ \/ pc' = "created" /\ state' = "Created"
     \/ pc' = "failed" /\ UNCHANGED state
  /\ lookup' = [state |-> "over", record |-> NoRecord]
  /\ UNCHANGED <<attempt, held, sequences, fragments, material, pending, window, ready, before,
                 clientId, processed, serverVars, networkVars>>

-----------------------------------------------------------------------------
(* A datagram is taken off the network, or a copy of it stays there.  The    *)
(* timeout of the socket starts anew with the next call of recv.             *)
Arrives(d) ==
  /\ d \in network
  /\ waited' = FALSE
  /\ \/ network' = network \ {d} /\ UNCHANGED duplicates
     \/ /\ duplicates < MaxDuplicates
        /\ duplicates' = duplicates + 1
        /\ UNCHANGED network

Transmit(messages) == upstream' = upstream \union messages
Quiet == UNCHANGED upstream

sessionVars == <<pending, window, ready, before, clientId, processed>>

(* An exception leaves Connect: m_State becomes Closed and it is rethrown.   *)
Throw ==
  /\ state' = "Closed"
  /\ pc' = "closed"
  /\ Quiet
  /\ UNCHANGED <<address, attempt, held, sequences, fragments, material, sessionVars, serverVars,
                 lookup>>

GetCookie(n) == [command |-> "GetCookie", value |-> n, alpha |-> 0, key |-> NoKey]
GetPuzzle(cookie) == [command |-> "GetPuzzle", value |-> cookie, alpha |-> 0, key |-> NoKey]
PuzzleAnswer(puzzle, alpha) ==
  [command |-> "PuzzleAnswer", value |-> puzzle, alpha |-> alpha, key |-> NoKey]
ClientEk(beta, ek) == [command |-> "clientek", value |-> beta, alpha |-> ek, key |-> BootstrapKey]
ClientInit(id, key) == [command |-> "clientinit", value |-> id, alpha |-> 0, key |-> key]
ClientDisconnect(id, key) ==
  [command |-> "clientdisconnect", value |-> id, alpha |-> 0, key |-> key]
ChannelSubscribeAll(id, key) ==
  [command |-> "channelsubscribeall", value |-> id, alpha |-> 0, key |-> key]

(* Connect: only once; UdpSocket::Connect may throw.                         *)
ConnectCall ==
  /\ pc = "created"
  /\ state = "Created"
  /\ \/ /\ state' = "Connecting"
        /\ pc' = "cookie"
        /\ attempt' = 1
        /\ Transmit({GetCookie(1)})
        /\ UNCHANGED <<address, held, sequences, fragments, material, sessionVars, serverVars,
                       lookup>>
     \/ Throw
  /\ UNCHANGED <<network, duplicates, waited>>

(* SO_RCVTIMEO: a blocking receive of the handshake to which no datagram     *)
(* comes for 5 seconds throws; each datagram that does come is a new wait.   *)
(* Mutant: ReceiveAck waits without the socket's timeout.                    *)
MutantAckWaits == pc \in {"cookie", "puzzle", "expand"}
InHandshake == pc \in {"cookie", "puzzle", "expand", "clientek"}
ReceiveWaits ==
  /\ InHandshake /\ ~waited
  /\ waited' = TRUE
  /\ UNCHANGED <<clientVars, serverVars, network, upstream, duplicates, lookup>>

ReceiveTimesOut ==
  /\ InHandshake /\ waited
  /\ waited' = FALSE
  /\ Throw
  /\ UNCHANGED <<network, duplicates>>

(* SetCookie::Parse takes any cookie, of this attempt or an earlier one.     *)
ReceiveCookie(d) ==
  /\ pc = "cookie"
  /\ IF d.type = "Init1" /\ d.body = "SetCookie"
       THEN /\ pc' = "puzzle"
            /\ Transmit({GetPuzzle(d.value)})
            /\ UNCHANGED <<state, address, attempt, held, sequences, fragments, material,
                           sessionVars, serverVars, lookup>>
       ELSE Throw

(* SolvePuzzle: x squared Level times modulo N (the puzzle is its x here).   *)
Level == 2
N == 7
SolvePuzzle(x) == FoldLeft(LAMBDA value, i : (value * value) % N, x, [i \in 1 .. Level |-> i])

(* The answer to GetPuzzle: a Reset starts the next attempt, the last Reset  *)
(* ends the handshake; a Puzzle is solved and answered with a new alpha.     *)
ReceivePuzzle(d) ==
  /\ pc = "puzzle"
  /\ \/ /\ d.type = "Init1" /\ d.body = "Reset" /\ attempt < MaxAttempts
        /\ pc' = "cookie"
        /\ attempt' = attempt + 1
        /\ Transmit({GetCookie(attempt + 1)})
        /\ UNCHANGED <<state, address, held, sequences, fragments, material, sessionVars,
                       serverVars, lookup>>
     \/ /\ d.type = "Init1" /\ d.body = "Puzzle"
        /\ pc' = "expand"
        /\ held' = [held EXCEPT !.alpha = attempt]
        /\ sequences' = FirstSequences
        /\ fragments' = <<>>
        /\ Transmit({PuzzleAnswer(SolvePuzzle(d.value), attempt)})
        /\ UNCHANGED <<state, address, attempt, material, sessionVars, serverVars, lookup>>
     \/ /\ d.type # "Init1" \/ d.body \notin {"Reset", "Puzzle"}
           \/ (d.body = "Reset" /\ attempt = MaxAttempts)
        /\ Throw

-----------------------------------------------------------------------------
(* License::Parse on the blocks of a license: what LicenseBlock::Parse makes *)
(* of each, the validity inside the parent's, and the last two blocks.       *)
MaxLicenseBlocks == 8
Block(type, first, last) == [type |-> type, first |-> first, last |-> last, wellFormed |-> TRUE]
LicenseBlockThrows(b) == ~b.wellFormed \/ b.first > b.last
IsServerBlock(b) == b.type = "Server"
LicenseThrows(blocks) ==
  \/ Len(blocks) > MaxLicenseBlocks
  \/ \E i \in DOMAIN blocks : LicenseBlockThrows(blocks[i])
  \/ \E i \in DOMAIN blocks \ {1} :
       blocks[i].first < blocks[i - 1].first \/ blocks[i].last > blocks[i - 1].last
  \/ Len(blocks) < 2
  \/ ~IsServerBlock(blocks[Len(blocks) - 1])
  \/ blocks[Len(blocks)].type # "Ephemeral"

(* InitIvExpand2::Parse and the checks of Run that follow it: the name, one  *)
(* row, the fields, the protocol version, and the server's proof.            *)
InitIvExpand2Throws(offer) ==
  \/ offer.name # "initivexpand2"
  \/ offer.rows # 1
  \/ \E f \in {"l", "beta", "omega", "proof"} : offer.fields[f] # "decodes"
  \/ offer.ot # 1
VerifyFails(offer) == ~offer.proved
(* Mutant: the proof is not verified.                                        *)
MutantTakesUnproved(offer) == InitIvExpand2Throws(offer) \/ LicenseThrows(offer.license)
OfferThrows(offer) ==
  InitIvExpand2Throws(offer) \/ VerifyFails(offer) \/ LicenseThrows(offer.license)

(* SessionMaterialDeriver::Derive: the shared secret of the client's new key *)
(* and the key of the license, mixed with alpha and beta.  The key of the    *)
(* license is a sum over its blocks, so it is their set that counts.         *)
DeriveServerPublicKey(license) == Range(license)
SharedSecret(license, ek) == <<DeriveServerPublicKey(license), ek>>
Derive(license, ek, alpha, beta) == <<SharedSecret(license, ek), alpha, beta>>

(* AesEax::Decrypt gives the plaintext back under the key it was encrypted   *)
(* with, and nothing under another one: then the transports throw.           *)
Decrypts(d, key) == d.key = key
BootstrapDecrypts(d) == Decrypts(d, BootstrapKey)
DecryptServer(d) == Decrypts(d, material)

(* BootstrapTransport::ReceiveCommand, once a packet with id 0 is there: the *)
(* whole command, when it is not fragmented or when its last fragment and    *)
(* all before it are here.                                                   *)
LastFragment(fs) ==
  { n \in 1 .. MaxFragments - 1 :
      /\ 0 .. n \subseteq DOMAIN fs
      /\ fs[n].fragmented
      /\ \A m \in 1 .. n - 1 : ~fs[m].fragmented }
(* Mutant: the last fragment is the highest id that is here.                 *)
MutantTakesHighest(fs) ==
  IF 0 \in DOMAIN fs THEN { n \in DOMAIN fs : \A m \in DOMAIN fs : m <= n } ELSE {}
CommandEnd(fs) ==
  CASE 0 \notin DOMAIN fs -> {}
    [] 0 \in DOMAIN fs /\ ~fs[0].fragmented -> {0}
    [] OTHER -> LastFragment(fs)

(* Run after ReceiveCommand: check the offer, derive the key, send clientek. *)
TakeOffer(offer, fs, last) ==
  IF OfferThrows(offer)
    THEN Throw
    ELSE /\ pc' = "clientek"
         /\ fragments' = fs
         /\ material' = Derive(offer.license, attempt, held.alpha, offer.beta)
         /\ sequences' = [sequences EXCEPT !.inCommand = last + 1, !.outCommand = @ + 1]
         /\ Transmit({ClientEk(offer.beta, attempt)})
         /\ UNCHANGED <<state, address, attempt, held, sessionVars, serverVars, lookup>>

(* One packet of BootstrapTransport::ReceiveCommand: every Command that      *)
(* decrypts is acknowledged, one that is already there is dropped.           *)
ReceiveFragment(d) ==
  /\ pc = "expand"
  /\ IF d.type # "Command" \/ ~BootstrapDecrypts(d)
       THEN Throw
       ELSE LET fs  == [i \in DOMAIN fragments \union {d.id} |->
                          IF i \in DOMAIN fragments THEN fragments[i] ELSE d]
                end == IF d.id \in DOMAIN fragments THEN {} ELSE CommandEnd(fs)
            IN  IF d.id \notin DOMAIN fragments /\ Cardinality(DOMAIN fragments) >= MaxFragments
                  THEN Throw
                ELSE IF end # {}
                  THEN \E last \in end : TakeOffer(server.offers[d.value], fs, last)
                  ELSE /\ fragments' = fs
                       /\ Quiet
                       /\ UNCHANGED <<state, pc, address, attempt, held, sequences, material,
                                      sessionVars, serverVars, lookup>>

(* ReceiveAck takes the one Ack it expects; Session::Login begins: the       *)
(* session continues the bootstrap's sequences and sends clientinit.         *)
ReceiveAck(d) ==
  /\ pc = "clientek"
  /\ IF d.type = "Ack" /\ d.id = sequences.inAck /\ BootstrapDecrypts(d)
                       /\ d.value = sequences.outCommand - 1
       THEN /\ pc' = "login"
            /\ pending' = {sequences.outCommand}
            /\ sequences' = [sequences EXCEPT !.inAck = @ + 1, !.outCommand = @ + 1]
            /\ Transmit({ClientInit(sequences.outCommand, material)})
            /\ UNCHANGED <<state, address, attempt, held, fragments, material, window, ready,
                           before, clientId, processed, serverVars, lookup>>
       ELSE Throw

-----------------------------------------------------------------------------
(* SessionTransport::ProcessPacket.  The Ack with id 1 retires the first     *)
(* command unread; everything else must decrypt, or carry the shared MAC.    *)
FirstCommandId == 2
IsFirstAck(d) == d.type = "Ack" /\ d.id = 1
PacketThrows(d) == d.type = "Init1" \/ (~IsFirstAck(d) /\ ~DecryptServer(d))

Released(ds) ==
  { d \in ds : \A i \in sequences.inCommand .. d.id : \E e \in ds : e.id = i }
Feed(d) ==
  LET ds       == IF d.id >= sequences.inCommand THEN window \union {d} ELSE window
      released == SetToSortSeq(Released(ds), LAMBDA a, b : a.id < b.id)
  IN  /\ window' = ds \ Range(released)
      /\ ready' = ready \o [i \in DOMAIN released |-> server.script[released[i].value]]
      /\ sequences' = [sequences EXCEPT !.inCommand = @ + Len(released)]

ProcessPacket(d) ==
  \/ /\ d.type = "Ack"
     /\ pending' = pending \ {IF IsFirstAck(d) THEN FirstCommandId ELSE d.value}
     /\ sequences' = [sequences EXCEPT !.inAck = IF d.id >= @ THEN d.id + 1 ELSE @]
     /\ UNCHANGED <<window, ready>>
  \/ d.type = "Command" /\ Feed(d) /\ UNCHANGED pending
  \/ d.type = "Ping" /\ UNCHANGED <<pending, sequences, window, ready>>

(* The goodbye is polled for until its packet is acknowledged.               *)
DisconnectPending == pc = "goodbye" /\ held.goodbye \in pending

InSession == pc \in {"login", "initial", "established"} \/ DisconnectPending

(* ProcessPacket throws: Connect and Run close the connection; Disconnect    *)
(* lets the exception through and m_State stays Established.                 *)
SessionThrow ==
  /\ state' = IF pc = "goodbye" THEN state ELSE "Closed"
  /\ pc' = "closed"
  /\ UNCHANGED <<address, attempt, held, sequences, fragments, material, sessionVars, serverVars,
                 lookup>>

ReceivePacket(d) ==
  /\ InSession
  /\ Quiet
  /\ IF PacketThrows(d)
       THEN SessionThrow
       ELSE /\ ProcessPacket(d)
            /\ UNCHANGED <<state, pc, address, attempt, held, fragments, material, before,
                           clientId, processed, serverVars, lookup>>

Receive ==
  \E d \in network :
    /\ Arrives(d)
    /\ ReceiveCookie(d) \/ ReceivePuzzle(d) \/ ReceiveFragment(d) \/ ReceiveAck(d)
       \/ ReceivePacket(d)

(* CollectDue gives a command up that is not acknowledged in time.           *)
CommandExpires ==
  /\ InSession
  /\ pending # {}
  /\ SessionThrow
  /\ UNCHANGED networkVars

(* Mutant: the commands kept before initserver are dropped.                  *)
MutantForgetsKept == processed' = processed
(* Login, after initserver: what came before it is processed now.            *)
ProcessKept == processed' = processed \o before

(* Login's loop with one command: initserver ends it, a failed result is a   *)
(* LoginRejectedError, a successful one is dropped, the rest is kept.        *)
(* initserver retires clientinit and lets the kept commands be processed.    *)
LoginCommand ==
  /\ pc = "login"
  /\ ready # <<>>
  /\ LET c == Head(ready)
     IN  \/ /\ c = "initserver"
            /\ pc' = "initial"
            /\ clientId' = 1
            /\ pending' = pending \ {FirstCommandId}
            /\ ProcessKept
            /\ before' = <<>>
            /\ UNCHANGED <<state, material>>
         \/ /\ c \in {"rejected", "malformed"}
            /\ state' = "Closed"
            /\ pc' = "closed"
            /\ UNCHANGED <<pending, clientId, processed, before, material>>
         \/ /\ c = "accepted"
            /\ UNCHANGED <<state, pc, pending, clientId, processed, before, material>>
         \/ /\ c \in {"first", "second"}
            /\ before' = Append(before, c)
            /\ UNCHANGED <<state, pc, pending, clientId, processed, material>>
  /\ ready' = Tail(ready)
  /\ UNCHANGED <<address, attempt, held, sequences, fragments, window, serverVars, networkVars,
                 lookup>>

(* ReceiveInitialState processes commands until channellistfinished, then    *)
(* subscribes to all channels and the connection is established.             *)
InitialCommand ==
  /\ pc = "initial"
  /\ ready # <<>>
  /\ \/ /\ Head(ready) = "channellistfinished"
        /\ state' = "Established"
        /\ pc' = "established"
        /\ pending' = pending \union {sequences.outCommand}
        /\ sequences' = [sequences EXCEPT !.outCommand = @ + 1]
        /\ Transmit({ChannelSubscribeAll(sequences.outCommand, material)})
        /\ UNCHANGED processed
     \/ /\ Head(ready) # "channellistfinished"
        /\ processed' = Append(processed, Head(ready))
        /\ UNCHANGED <<state, pc, pending, sequences, upstream>>
  /\ ready' = Tail(ready)
  /\ UNCHANGED <<address, attempt, held, fragments, material, window, before, clientId, network,
                 duplicates, waited, serverVars, lookup>>

(* Poll on an established connection: ready commands are processed.          *)
PollCommand ==
  /\ pc \in {"established", "goodbye"}
  /\ ready # <<>>
  /\ processed' = Append(processed, Head(ready))
  /\ ready' = Tail(ready)
  /\ UNCHANGED <<state, pc, address, attempt, held, sequences, fragments, material, pending,
                 window, before, clientId, serverVars, networkVars, lookup>>

(* Disconnect says goodbye and polls until it is acknowledged, or for 1.5 s. *)
Disconnect ==
  /\ pc = "established"
  /\ state = "Established"
  /\ pc' = "goodbye"
  /\ held' = [held EXCEPT !.goodbye = sequences.outCommand]
  /\ pending' = pending \union {sequences.outCommand}
  /\ sequences' = [sequences EXCEPT !.outCommand = @ + 1]
  /\ Transmit({ClientDisconnect(sequences.outCommand, material)})
  /\ UNCHANGED <<state, address, attempt, fragments, material, window, ready, before, clientId,
                 processed, network, duplicates, waited, serverVars, lookup>>

DisconnectEnds ==
  /\ pc = "goodbye"
  /\ state' = "Closed"
  /\ pc' = "closed"
  /\ UNCHANGED <<address, attempt, held, sequences, fragments, material, sessionVars, serverVars,
                 networkVars, lookup>>

-----------------------------------------------------------------------------
(* The server.  It may answer GetPuzzle with a Reset, makes a new beta for   *)
(* each PuzzleAnswer it takes, and may make an offer the client must refuse. *)
GoodLicense == <<Block("Server", 1, 4), Block("Ephemeral", 2, 3)>>
Decodes == [f \in {"l", "beta", "omega", "proof"} |-> "decodes"]
GoodOffer(beta) ==
  [name |-> "initivexpand2", rows |-> 1, fields |-> Decodes, ot |-> 1, proved |-> TRUE,
   license |-> GoodLicense, beta |-> beta, packets |-> 1]
LongLicense == <<Block("Intermediate", 1, 4), Block("Server", 1, 4), Block("Ephemeral", 2, 4)>>
BadLicenses ==
  { <<Block("Intermediate", 2, 3), Block("Server", 1, 4), Block("Ephemeral", 1, 4)>>,
    <<Block("Server", 1, 3), Block("Ephemeral", 2, 4)>>,
    <<Block("Server", 1, 4), Block("Website", 1, 4)>>,
    <<Block("Ephemeral", 1, 4)>>,
    <<Block("Server", 4, 1), Block("Ephemeral", 2, 3)>> }
Offers(beta) ==
  LET good == GoodOffer(beta)
  IN  { [good EXCEPT !.license = l] : l \in BadLicenses } \union
      { good, [good EXCEPT !.license = LongLicense, !.packets = 3],
        [good EXCEPT !.proved = FALSE], [good EXCEPT !.ot = 0],
        [good EXCEPT !.name = "initivexpand"], [good EXCEPT !.fields["beta"] = "fails"] }

(* The scripts a server may play after clientinit.                           *)
Scripts == { <<"first", "initserver", "second", "channellistfinished", "third">>,
             <<"accepted", "initserver", "channellistfinished">>,
             <<"first", "second", "initserver", "channellistfinished">>,
             <<"rejected">>, <<"malformed">> }

Takes(m) ==
  /\ m \in upstream
  /\ \/ upstream' = upstream \ {m} /\ UNCHANGED duplicates
     \/ /\ duplicates < MaxDuplicates
        /\ duplicates' = duplicates + 1
        /\ UNCHANGED upstream

ServeCookie(m) ==
  /\ m.command = "GetCookie"
  /\ network' = network \union {Init1("SetCookie", m.value)}
  /\ UNCHANGED serverVars

ServePuzzle(m) ==
  /\ m.command = "GetPuzzle"
  /\ \/ network' = network \union {Init1("Puzzle", m.value)} /\ UNCHANGED serverVars
     \/ /\ resets < MaxResets
        /\ resets' = resets + 1
        /\ network' = network \union {Init1("Reset", resets + 1)}
        /\ UNCHANGED server

(* The packets of the n-th offer: the first and the last are flagged.        *)
OfferPackets(n, count) ==
  { [Datagram("Command", i, BootstrapKey, "offer", n) EXCEPT
       !.fragmented = count > 1 /\ i \in {0, count - 1}] : i \in 0 .. count - 1 }

ServeAnswer(m) ==
  /\ m.command = "PuzzleAnswer"
  /\ \E x \in 1 .. MaxAttempts : m.value = SolvePuzzle(x)
  /\ server.material = NoKey
  /\ server.offers = <<>>
  /\ \E offer \in Offers(1) :
       /\ server' = [server EXCEPT !.offers = Append(@, offer), !.alpha = m.alpha]
       /\ network' = network \union OfferPackets(1, offer.packets)
  /\ UNCHANGED resets

(* Until clientek comes the server may send a packet of its offer again,     *)
(* when no Ack of it has arrived or for no reason.                           *)
ServerRepeats ==
  /\ pc # "closed"
  /\ server.offers # <<>> /\ server.material = NoKey
  /\ \E d \in OfferPackets(1, server.offers[1].packets) :
       /\ d \notin network
       /\ network' = network \union {d}
  /\ UNCHANGED <<clientVars, serverVars, upstream, duplicates, waited, lookup>>

ServeClientEk(m) ==
  /\ m.command = "clientek"
  /\ server.material = NoKey
  /\ LET offer == Last(server.offers)
     IN  server' = [server EXCEPT
           !.material = Derive(offer.license, m.alpha, server.alpha, offer.beta),
           !.firstId = offer.packets]
  /\ network' = network \union {Datagram("Ack", 0, BootstrapKey, "ack", 1)}
  /\ UNCHANGED resets

ServeClientInit(m) ==
  /\ m.command = "clientinit"
  /\ m.key = server.material
  /\ server.script = <<>>
  /\ \E script \in Scripts :
       /\ server' = [server EXCEPT !.script = script, !.acks = 1]
       /\ network' = network \union {Datagram("Ack", 1, NoKey, "ack", m.value)} \union
            { Datagram("Command", server.firstId + i - 1, server.material, "session", i) :
                i \in DOMAIN script }
  /\ UNCHANGED resets

ServeCommand(m) ==
  /\ m.command \in {"channelsubscribeall", "clientdisconnect"}
  /\ server' = [server EXCEPT !.acks = @ + 1]
  /\ network' = network \union {Datagram("Ack", server.acks + 1, server.material, "ack", m.value)}
                        \union {Datagram("Ping", 1, server.material, "ping", 0)}
  /\ UNCHANGED resets

(* (Once the client is gone the server's doings change nothing of it.)       *)
ServerNext ==
  /\ pc # "closed"
  /\ \E m \in upstream :
       /\ Takes(m)
       /\ ServeCookie(m) \/ ServePuzzle(m) \/ ServeAnswer(m) \/ ServeClientEk(m)
          \/ ServeClientInit(m) \/ ServeCommand(m)
  /\ UNCHANGED <<clientVars, waited, lookup>>

-----------------------------------------------------------------------------
Init ==
  /\ state = "none"
  /\ pc = "new"
  /\ address = "none"
  /\ attempt = 0
  /\ held = [alpha |-> 0, goodbye |-> 0]
  /\ sequences = FirstSequences
  /\ fragments = <<>>
  /\ material = NoKey
  /\ pending = {}
  /\ window = {}
  /\ ready = <<>>
  /\ before = <<>>
  /\ clientId = 0
  /\ processed = <<>>
  /\ network = {}
  /\ upstream = {}
  /\ duplicates = 0
  /\ waited = FALSE
  /\ resets = 0
  /\ server = [offers |-> <<>>, alpha |-> 0, material |-> NoKey, firstId |-> 0,
               script |-> <<>>, acks |-> 0]
  /\ lookup = [state |-> "idle", record |-> NoRecord]

ClientNext ==
  \/ Construct \/ Resolve \/ ConnectCall \/ ReceiveWaits \/ ReceiveTimesOut \/ Receive
  \/ CommandExpires
  \/ LoginCommand \/ InitialCommand \/ PollCommand \/ Disconnect \/ DisconnectEnds

Next == ClientNext \/ ServerNext \/ ServerRepeats \/ SrvAnswer

(* The connecting thread is never stopped inside Connect: a wait ends by a   *)
(* packet or, when none comes, by its timeout.  The server and the network   *)
(* promise nothing.                                                          *)
Fairness == WF_vars(Resolve) /\ WF_vars(ReceiveWaits) /\ WF_vars(ReceiveTimesOut)
            /\ WF_vars(CommandExpires) /\ WF_vars(LoginCommand) /\ WF_vars(InitialCommand)
Spec == Init /\ [][Next]_vars /\ Fairness

-----------------------------------------------------------------------------
(* The session's commands the login leaves to ProcessCommand.                *)
Notifications ==
  SelectSeq(server.script, LAMBDA c : c \notin {"initserver", "accepted", "channellistfinished"})

(* A connection is established only with a key the server has too, and only  *)
(* after a proved offer whose license ends in a server and an ephemeral      *)
(* block and in which no block outlives any block above it: whatever arrives *)
(* late, twice or out of order, the handshake fails closed.                  *)
SecureSession ==
  state = "Established" =>
    /\ material = server.material
    /\ LET offer == Last(server.offers)
           n     == Len(offer.license)
       IN  /\ offer.proved
           /\ \A i, j \in 1 .. n :
                i < j => /\ offer.license[i].first <= offer.license[j].first
                         /\ offer.license[j].last <= offer.license[i].last
           /\ offer.license[n].type = "Ephemeral" /\ offer.license[n - 1].type = "Server"

(* When Handshake::Run hands the sequences to SessionTransport they are the  *)
(* server's: the next Command and the next Ack the client expects are the    *)
(* next ones the server sends, however the bootstrap's packets arrived.      *)
HandoverContinues ==
  [][(pc = "clientek" /\ pc' = "login") =>
       /\ sequences'.inCommand = server.firstId
       /\ sequences'.inAck = 1
       /\ sequences'.outCommand = FirstCommandId + 1]_vars

(* Login and ReceiveInitialState lose and reorder nothing: what              *)
(* ProcessCommand has seen is a prefix of what the server sent, with the     *)
(* commands that came before initserver, and Connect returns only when the   *)
(* state up to channellistfinished is in.                                    *)
CommandsInOrder ==
  /\ IsPrefix(processed, Notifications)
  /\ state = "Established" =>
       \A i \in DOMAIN server.script :
         (\E j \in i .. Len(server.script) : server.script[j] = "channellistfinished") =>
           server.script[i] \in Range(processed) \union
                                {"initserver", "accepted", "channellistfinished"}

(* Connect comes to an end, whatever the server and the network do, except   *)
(* in two places.  Once clientinit is acknowledged nothing is pending, and   *)
(* ReceiveCommand waits for the server's next command for as long as it      *)
(* takes; and a server that keeps sending a fragment the bootstrap has,      *)
(* while another one is missing, starts the socket's timeout again and again.*)
AwaitsServer == pc \in {"login", "initial"} /\ pending = {} /\ ready = <<>>
HeldFragmentArrives ==
  \E d \in network : d.id \in DOMAIN fragments /\ Arrives(d) /\ ReceiveFragment(d)
ConnectEnds ==
  \/ (state = "Connecting") ~> (state # "Connecting" \/ AwaitsServer)
  \/ []<><<HeldFragmentArrives>>_vars

=============================================================================
