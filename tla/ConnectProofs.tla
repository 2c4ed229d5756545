---------------------------- MODULE ConnectProofs ----------------------------
(***************************************************************************)
(* Proofs about the handshake, for any number of attempts, Resets and       *)
(* datagrams delivered twice: the key of an established connection is the   *)
(* server's, and the session's sequences continue the bootstrap's.          *)
(***************************************************************************)
EXTENDS Connect, TLAPS

\* Before the client has answered a puzzle, and once it has the server's Ack.
Early == {"new", "lookup", "failed", "created", "cookie", "puzzle"}
InTouch == {"login", "initial", "established", "goodbye"}

TheOffer == server.offers[1]

\* d is packet i of the offer.
IsPacket(d, i) ==
  /\ server.offers # <<>>
  /\ i \in 0 .. TheOffer.packets - 1
  /\ d.fragmented = (TheOffer.packets > 1 /\ i \in {0, TheOffer.packets - 1})

\* The client has taken the server's offer and derived its key from it.
Agreed ==
  /\ server.offers # <<>> /\ ~OfferThrows(TheOffer)
  /\ material = Derive(TheOffer.license, attempt, held.alpha, TheOffer.beta)
  /\ pc \notin Early \union {"expand"}

\* The fields of the records, and the one offer the server makes.
ShapeInv ==
  /\ server = [offers |-> server.offers, alpha |-> server.alpha, material |-> server.material,
               firstId |-> server.firstId, script |-> server.script, acks |-> server.acks]
  /\ held = [alpha |-> held.alpha, goodbye |-> held.goodbye]
  /\ server.offers = <<>> \/ \E o \in Offers(1) : server.offers = <<o>>

\* Only one PuzzleAnswer is ever sent, so the alpha of the offer is the
\* client's; a packet of the bootstrap is a packet of the offer.
OfferInv ==
  /\ server.offers # <<>> => pc \notin Early /\ server.alpha = held.alpha
  /\ \A m \in upstream : m.command = "PuzzleAnswer" => pc \notin Early /\ m.alpha = held.alpha
  /\ \A d \in network : d.type = "Command" /\ d.key = BootstrapKey => d.value = 1 /\ IsPacket(d, d.id)

\* clientek is sent, answered and relied on in this order.
KeyInv ==
  /\ \A m \in upstream : m.command = "clientek" => Agreed /\ m.alpha = attempt
  /\ server.material # NoKey =>
       Agreed /\ server.material = material /\ server.firstId = TheOffer.packets
  /\ server.material # BootstrapKey
  /\ \A d \in network : d.type = "Ack" /\ d.key = BootstrapKey => server.material # NoKey
  /\ pc \in InTouch \/ state = "Established" => server.material # NoKey

\* What ReceiveCommand keeps, and where the sequences stand after it.
HandoverInv ==
  /\ pc \in {"expand", "clientek"} =>
       /\ sequences \in [outCommand : Nat, inCommand : Nat, inAck : Nat]
       /\ sequences.inAck = 0
  /\ pc = "expand" => sequences.outCommand = 1 /\ \A i \in DOMAIN fragments : IsPacket(fragments[i], i)
  /\ pc = "clientek" =>
       Agreed /\ sequences.outCommand = 2 /\ sequences.inCommand = TheOffer.packets

ConnectInv == ShapeInv /\ OfferInv /\ KeyInv /\ HandoverInv

-----------------------------------------------------------------------------
\* The blocks of a license.
BlockType == [type : {"Intermediate", "Website", "Server", "Code", "Ephemeral"},
              first : Nat, last : Nat, wellFormed : BOOLEAN]

LEMMA LeqTransitive ==
  ASSUME NEW a \in Nat, NEW b \in Nat, NEW c \in Nat, a <= b, b <= c
  PROVE  a <= c
OBVIOUS

\* A license that parses, of any number of blocks, is nested: a block is
\* valid inside the validity of every block above it.
LEMMA LicenseIsNested ==
  ASSUME NEW blocks \in Seq(BlockType), ~LicenseThrows(blocks),
         NEW i \in 1 .. Len(blocks), NEW j \in 1 .. Len(blocks), i < j
  PROVE  blocks[i].first <= blocks[j].first /\ blocks[j].last <= blocks[i].last
<1> DEFINE n == Len(blocks)
           Nested(k) == k <= n => \A x \in 1 .. k : blocks[x].first <= blocks[k].first /\ blocks[k].last <= blocks[x].last
<1>1. n \in Nat /\ n <= 8 /\ DOMAIN blocks = 1 .. n
  BY DEF LicenseThrows, MaxLicenseBlocks
<1>2. \A x \in 1 .. n : blocks[x].first \in Nat /\ blocks[x].last \in Nat
  <2> SUFFICES ASSUME NEW x \in 1 .. n PROVE blocks[x].first \in Nat /\ blocks[x].last \in Nat
    OBVIOUS
  <2>1. blocks[x] \in BlockType
    BY <1>1
  <2> QED BY <2>1 DEF BlockType
<1>3. \A x \in 2 .. n : blocks[x - 1].first <= blocks[x].first /\ blocks[x].last <= blocks[x - 1].last
  <2> SUFFICES ASSUME NEW x \in 2 .. n
               PROVE  blocks[x - 1].first <= blocks[x].first /\ blocks[x].last <= blocks[x - 1].last
    OBVIOUS
  <2>1. x \in DOMAIN blocks \ {1} /\ x \in 1 .. n /\ x - 1 \in 1 .. n
    BY <1>1
  <2>2. ~(blocks[x].first < blocks[x - 1].first) /\ ~(blocks[x].last > blocks[x - 1].last)
    BY <2>1 DEF LicenseThrows
  <2>3. /\ blocks[x].first \in Nat /\ blocks[x - 1].first \in Nat
        /\ blocks[x].last \in Nat /\ blocks[x - 1].last \in Nat
    BY <1>2, <2>1
  <2> QED BY <2>2, <2>3
<1>4. Nested(1)
  BY <1>1, <1>2
<1>5. ASSUME NEW k \in 1 .. 7, Nested(k) PROVE Nested(k + 1)
  <2> SUFFICES ASSUME k + 1 <= n, NEW x \in 1 .. k + 1
               PROVE  blocks[x].first <= blocks[k + 1].first /\ blocks[k + 1].last <= blocks[x].last
    OBVIOUS
  <2>1. k + 1 \in 2 .. n /\ k \in 1 .. n /\ x \in 1 .. n /\ k + 1 \in 1 .. n /\ (k + 1) - 1 = k
    BY <1>1
  <2>2. blocks[k].first <= blocks[k + 1].first /\ blocks[k + 1].last <= blocks[k].last
    BY <1>3, <2>1
  <2>3. /\ blocks[x].first \in Nat /\ blocks[k].first \in Nat /\ blocks[k + 1].first \in Nat
        /\ blocks[x].last \in Nat /\ blocks[k].last \in Nat /\ blocks[k + 1].last \in Nat
    BY <1>2, <2>1
  <2>4. CASE x = k + 1
    BY <2>3, <2>4
  <2>5. CASE x # k + 1
    <3>1. x \in 1 .. k
      BY <2>5
    <3>2. blocks[x].first <= blocks[k].first /\ blocks[k].last <= blocks[x].last
      BY <1>1, <1>5, <2>1, <3>1
    <3> QED BY <2>2, <2>3, <3>2, LeqTransitive
  <2> QED BY <2>4, <2>5
<1> HIDE DEF Nested
<1>6. Nested(1) /\ Nested(2) /\ Nested(3) /\ Nested(4)
  <2>1. Nested(2)
    BY <1>4, <1>5
  <2>2. Nested(3)
    BY <1>5, <2>1
  <2>3. Nested(4)
    BY <1>5, <2>2
  <2> QED BY <1>4, <2>1, <2>2, <2>3
<1>7. Nested(5) /\ Nested(6) /\ Nested(7) /\ Nested(8)
  <2>1. Nested(5)
    BY <1>5, <1>6
  <2>2. Nested(6)
    BY <1>5, <2>1
  <2>3. Nested(7)
    BY <1>5, <2>2
  <2>4. Nested(8)
    BY <1>5, <2>3
  <2> QED BY <2>1, <2>2, <2>3, <2>4
<1>8. j \in 1 .. 8
  BY <1>1
<1>9. Nested(j)
  BY <1>6, <1>7, <1>8
<1> QED BY <1>1, <1>9 DEF Nested

\* The offers of the server: their licenses are blocks, and they come in at
\* least one packet.
LEMMA OfferTypes ==
  ASSUME NEW o \in Offers(1)
  PROVE  o.license \in Seq(BlockType) /\ o.packets \in Nat \ {0}
<1>2. \A a \in BlockType : <<a>> \in Seq(BlockType)
  OBVIOUS
<1>3. \A a, b \in BlockType : <<a, b>> \in Seq(BlockType)
  OBVIOUS
<1>4. \A a, b, c \in BlockType : <<a, b, c>> \in Seq(BlockType)
  OBVIOUS
<1>5. BadLicenses \subseteq Seq(BlockType) /\ GoodLicense \in Seq(BlockType) /\ LongLicense \in Seq(BlockType)
  <2>1. /\ Block("Server", 1, 4) \in BlockType /\ Block("Ephemeral", 2, 3) \in BlockType
        /\ Block("Intermediate", 1, 4) \in BlockType /\ Block("Ephemeral", 2, 4) \in BlockType
        /\ Block("Intermediate", 2, 3) \in BlockType /\ Block("Ephemeral", 1, 4) \in BlockType
        /\ Block("Server", 1, 3) \in BlockType /\ Block("Website", 1, 4) \in BlockType
        /\ Block("Server", 4, 1) \in BlockType
    BY DEF Block, BlockType
  <2> HIDE DEF BlockType
  <2>2. GoodLicense \in Seq(BlockType)
    BY <1>3, <2>1 DEF GoodLicense
  <2>3. /\ LongLicense \in Seq(BlockType)
        /\ <<Block("Intermediate", 2, 3), Block("Server", 1, 4), Block("Ephemeral", 1, 4)>> \in Seq(BlockType)
    BY <1>4, <2>1 DEF LongLicense
  <2>4. /\ <<Block("Server", 1, 3), Block("Ephemeral", 2, 4)>> \in Seq(BlockType)
        /\ <<Block("Server", 1, 4), Block("Website", 1, 4)>> \in Seq(BlockType)
        /\ <<Block("Ephemeral", 1, 4)>> \in Seq(BlockType)
        /\ <<Block("Server", 4, 1), Block("Ephemeral", 2, 3)>> \in Seq(BlockType)
    BY <1>2, <1>3, <2>1
  <2> QED BY <2>2, <2>3, <2>4, Zenon DEF BadLicenses
<1> DEFINE good == GoodOffer(1)
<1>6. /\ good = [name |-> "initivexpand2", rows |-> 1, fields |-> Decodes, ot |-> 1, proved |-> TRUE,
                 license |-> GoodLicense, beta |-> 1, packets |-> 1]
      /\ good.license \in Seq(BlockType) /\ good.packets = 1
  BY <1>5 DEF GoodOffer
<1>7. o \in { [good EXCEPT !.license = l] : l \in BadLicenses } \union
      { good, [good EXCEPT !.license = LongLicense, !.packets = 3],
        [good EXCEPT !.proved = FALSE], [good EXCEPT !.ot = 0],
        [good EXCEPT !.name = "initivexpand"], [good EXCEPT !.fields["beta"] = "fails"] }
  BY DEF Offers
<1> HIDE DEF good
<1>8. CASE o \in { [good EXCEPT !.license = l] : l \in BadLicenses }
  <2>1. PICK l \in BadLicenses : o = [good EXCEPT !.license = l]
    BY <1>8
  <2>2. o.license = l /\ o.packets = 1
    BY <1>6, <2>1
  <2> QED BY <1>5, <2>2
<1>9. CASE o \in {good, [good EXCEPT !.license = LongLicense, !.packets = 3]}
  <2>1. o.license \in {good.license, LongLicense} /\ o.packets \in {1, 3}
    BY <1>6, <1>9
  <2> QED BY <1>5, <1>6, <2>1
<1>10. CASE o \in {[good EXCEPT !.proved = FALSE], [good EXCEPT !.ot = 0], [good EXCEPT !.name = "initivexpand"],
                   [good EXCEPT !.fields["beta"] = "fails"]}
  <2>1. o.license = good.license /\ o.packets = good.packets
    BY <1>6, <1>10
  <2> QED BY <1>6, <2>1
<1> QED BY <1>7, <1>8, <1>9, <1>10

\* A session key is no other kind of key.
LEMMA SessionKeys ==
  ASSUME NEW license, NEW ek, NEW alpha, NEW beta
  PROVE  Derive(license, ek, alpha, beta) \notin {NoKey, BootstrapKey} /\ NoKey # BootstrapKey
<1>1. Len(Derive(license, ek, alpha, beta)) = 3 /\ Len(NoKey) = 0 /\ Len(BootstrapKey) = 1
  BY DEF Derive, NoKey, BootstrapKey
<1> QED BY <1>1

LEMMA TheOfferIs ==
  ASSUME ShapeInv, server.offers # <<>>
  PROVE  /\ TheOffer \in Offers(1) /\ server.offers = <<TheOffer>> /\ Len(server.offers) = 1
         /\ TheOffer.license \in Seq(BlockType) /\ TheOffer.packets \in Nat \ {0}
<1>1. TheOffer \in Offers(1) /\ server.offers = <<TheOffer>>
  BY DEF ShapeInv, TheOffer
<1> QED BY <1>1, OfferTypes

-----------------------------------------------------------------------------
\* What a step of the client may do: leave the network poorer, and the
\* server alone.
ClientStep == server' = server /\ network' \subseteq network

\* Messages that are none of the handshake's two secrets.
Plain(messages) == \A m \in messages : m.command \notin {"PuzzleAnswer", "clientek"}

\* Before the puzzle is answered.
EarlyStep ==
  /\ ClientStep /\ pc \in Early /\ pc' \in Early
  /\ UNCHANGED <<held, material>>
  /\ state' \in {state, "Created", "Connecting"}
  /\ \E ms : upstream' = upstream \union ms /\ Plain(ms)

\* An exception ends the connection.
ClosingStep ==
  /\ ClientStep /\ pc \notin Early /\ pc' = "closed"
  /\ UNCHANGED <<held, material, attempt, upstream>>
  /\ state' \in {state, "Closed"}

\* A packet of the offer that does not complete it.
FragmentStep ==
  /\ ClientStep /\ pc = "expand" /\ pc' = "expand"
  /\ UNCHANGED <<state, held, sequences, material, attempt, upstream>>
  /\ \E d \in network :
       /\ d.type = "Command" /\ d.key = BootstrapKey
       /\ fragments' = [i \in DOMAIN fragments \union {d.id} |->
                          IF i \in DOMAIN fragments THEN fragments[i] ELSE d]

\* The session, once the server has the key.
SessionStep ==
  /\ ClientStep /\ pc \in InTouch /\ pc' \in InTouch \union {"closed"}
  /\ UNCHANGED <<material, attempt>>
  /\ held' \in {held, [held EXCEPT !.goodbye = sequences.outCommand]}
  /\ \E ms : upstream' = upstream \union ms /\ Plain(ms)

LEMMA DerivedStays ==
  ASSUME Agreed, server'.offers = server.offers, material' = material, attempt' = attempt,
         held'.alpha = held.alpha, pc' \notin Early \union {"expand"}
  PROVE  Agreed'
BY DEF Agreed, TheOffer

LEMMA EarlyKeeps ==
  ASSUME ConnectInv, EarlyStep
  PROVE  ConnectInv'
<1>1. PICK ms : upstream' = upstream \union ms /\ Plain(ms)
  BY DEF EarlyStep
<1>2. /\ server' = server /\ network' \subseteq network /\ pc \in Early /\ pc' \in Early
      /\ held' = held /\ material' = material /\ state' \in {state, "Created", "Connecting"}
  BY DEF EarlyStep, ClientStep
<1>3. server.offers = <<>> /\ server.material = NoKey
  BY <1>2 DEF ConnectInv, OfferInv, KeyInv, Agreed
<1>4. ShapeInv'
  BY <1>2 DEF ConnectInv, ShapeInv
<1>5. \A m \in upstream' : m.command \notin {"PuzzleAnswer", "clientek"}
  BY <1>1, <1>2 DEF ConnectInv, OfferInv, KeyInv, Plain, Agreed
<1>6. \A d \in network' : ~(d.type = "Command" /\ d.key = BootstrapKey) /\ ~(d.type = "Ack" /\ d.key = BootstrapKey)
  BY <1>2, <1>3 DEF ConnectInv, OfferInv, KeyInv, IsPacket
<1>7. OfferInv'
  BY <1>2, <1>3, <1>5, <1>6 DEF OfferInv
<1>8. pc' \notin InTouch /\ pc' \notin {"expand", "clientek"}
  BY <1>2 DEF Early, InTouch
<1>9. KeyInv'
  BY <1>2, <1>3, <1>5, <1>6, <1>8 DEF ConnectInv, KeyInv
<1>10. HandoverInv'
  BY <1>8 DEF HandoverInv
<1> QED BY <1>4, <1>7, <1>9, <1>10 DEF ConnectInv

LEMMA ClosingKeeps ==
  ASSUME ConnectInv, ClosingStep
  PROVE  ConnectInv'
<1>1. /\ server' = server /\ network' \subseteq network /\ pc \notin Early /\ pc' = "closed"
      /\ held' = held /\ material' = material /\ attempt' = attempt /\ upstream' = upstream
      /\ state' \in {state, "Closed"}
  BY DEF ClosingStep, ClientStep
<1>2. pc' \notin Early \union {"expand"} /\ pc' \notin InTouch /\ pc' \notin {"expand", "clientek"}
  BY <1>1 DEF Early, InTouch
<1>3. ShapeInv'
  BY <1>1 DEF ConnectInv, ShapeInv
<1>5. OfferInv'
  BY <1>1, <1>2 DEF ConnectInv, OfferInv, IsPacket, TheOffer
<1>6. Agreed => Agreed'
  BY <1>1, <1>2, DerivedStays
<1>7. KeyInv'
  BY <1>1, <1>2, <1>6 DEF ConnectInv, KeyInv, TheOffer
<1>8. HandoverInv'
  BY <1>2 DEF HandoverInv
<1> QED BY <1>3, <1>5, <1>7, <1>8 DEF ConnectInv

LEMMA SessionKeeps ==
  ASSUME ConnectInv, SessionStep
  PROVE  ConnectInv'
<1>1. PICK ms : upstream' = upstream \union ms /\ Plain(ms)
  BY DEF SessionStep
<1>2. /\ server' = server /\ network' \subseteq network /\ pc \in InTouch /\ pc' \in InTouch \union {"closed"}
      /\ material' = material /\ attempt' = attempt
      /\ held' \in {held, [held EXCEPT !.goodbye = sequences.outCommand]}
  BY DEF SessionStep, ClientStep
<1>3. /\ pc \notin Early \union {"expand"} /\ pc' \notin Early \union {"expand"}
      /\ pc' \notin {"expand", "clientek"}
  BY <1>2 DEF Early, InTouch
<1>4. server.material # NoKey
  BY <1>2 DEF ConnectInv, KeyInv
<1>5. held'.alpha = held.alpha /\ held' = [alpha |-> held'.alpha, goodbye |-> held'.goodbye]
  <2>1. held = [alpha |-> held.alpha, goodbye |-> held.goodbye]
    BY DEF ConnectInv, ShapeInv
  <2> QED BY <1>2, <2>1
<1>6. ShapeInv'
  BY <1>2, <1>5 DEF ConnectInv, ShapeInv
<1>7. OfferInv'
  BY <1>1, <1>2, <1>3, <1>5 DEF ConnectInv, OfferInv, IsPacket, TheOffer, Plain
<1>8. Agreed => Agreed'
  BY <1>2, <1>3, <1>5, DerivedStays
<1>9. KeyInv'
  BY <1>1, <1>2, <1>4, <1>8 DEF ConnectInv, KeyInv, TheOffer, Plain
<1>10. HandoverInv'
  BY <1>3 DEF HandoverInv
<1> QED BY <1>6, <1>7, <1>9, <1>10 DEF ConnectInv

LEMMA FragmentKeeps ==
  ASSUME ConnectInv, FragmentStep
  PROVE  ConnectInv'
<1>1. PICK d \in network :
        /\ d.type = "Command" /\ d.key = BootstrapKey
        /\ fragments' = [i \in DOMAIN fragments \union {d.id} |->
                           IF i \in DOMAIN fragments THEN fragments[i] ELSE d]
  BY DEF FragmentStep
<1>2. /\ server' = server /\ network' \subseteq network /\ pc = "expand" /\ pc' = "expand"
      /\ state' = state /\ held' = held /\ material' = material /\ attempt' = attempt /\ upstream' = upstream
      /\ sequences' = sequences
  BY DEF FragmentStep, ClientStep
<1>3. ShapeInv'
  BY <1>2 DEF ConnectInv, ShapeInv
<1>4. OfferInv'
  BY <1>2 DEF ConnectInv, OfferInv, IsPacket, TheOffer
<1>5. KeyInv'
  BY <1>2 DEF ConnectInv, KeyInv, Agreed, TheOffer
<1>6. \A i \in DOMAIN fragments' : IsPacket(fragments'[i], i)
  <2> SUFFICES ASSUME NEW i \in DOMAIN fragments' PROVE IsPacket(fragments'[i], i)
    OBVIOUS
  <2>1. CASE i \in DOMAIN fragments
    <3>1. fragments'[i] = fragments[i]
      BY <1>1, <2>1
    <3> QED BY <1>2, <2>1, <3>1 DEF ConnectInv, HandoverInv
  <2>2. CASE i \notin DOMAIN fragments
    <3>1. i = d.id /\ fragments'[i] = d
      BY <1>1, <2>2
    <3> QED BY <1>1, <3>1 DEF ConnectInv, OfferInv
  <2> QED BY <2>1, <2>2
<1>7. /\ sequences \in [outCommand : Nat, inCommand : Nat, inAck : Nat]
      /\ sequences.inAck = 0 /\ sequences.outCommand = 1
  BY <1>2 DEF ConnectInv, HandoverInv
<1>8. /\ sequences' \in [outCommand : Nat, inCommand : Nat, inAck : Nat]
      /\ sequences'.inAck = 0 /\ sequences'.outCommand = 1
  BY <1>2, <1>7
<1>9. HandoverInv'
  BY <1>2, <1>6, <1>8 DEF HandoverInv, IsPacket, TheOffer
<1> QED BY <1>3, <1>4, <1>5, <1>9 DEF ConnectInv

\* The puzzle is answered, once and for all.
PuzzleStep ==
  /\ ClientStep /\ pc = "puzzle" /\ pc' = "expand"
  /\ UNCHANGED <<state, attempt, material>>
  /\ held' = [held EXCEPT !.alpha = attempt]
  /\ sequences' = FirstSequences /\ fragments' = <<>>
  /\ \E value : upstream' = upstream \union {PuzzleAnswer(value, attempt)}

LEMMA PuzzleKeeps ==
  ASSUME ConnectInv, PuzzleStep
  PROVE  ConnectInv'
<1>1. PICK value : upstream' = upstream \union {PuzzleAnswer(value, attempt)}
  BY DEF PuzzleStep
<1>2. /\ server' = server /\ network' \subseteq network /\ pc = "puzzle" /\ pc' = "expand"
      /\ state' = state /\ attempt' = attempt /\ material' = material
      /\ held' = [held EXCEPT !.alpha = attempt]
      /\ sequences' = FirstSequences /\ fragments' = <<>>
  BY DEF PuzzleStep, ClientStep
<1>3. pc \in Early /\ pc' \notin Early /\ pc' \notin InTouch
  BY <1>2 DEF Early, InTouch
<1>4. server.offers = <<>> /\ server.material = NoKey
  BY <1>3 DEF ConnectInv, OfferInv, KeyInv, Agreed
<1>5. held'.alpha = attempt /\ held' = [alpha |-> held'.alpha, goodbye |-> held'.goodbye]
  <2>1. held = [alpha |-> held.alpha, goodbye |-> held.goodbye]
    BY DEF ConnectInv, ShapeInv
  <2> QED BY <1>2, <2>1
<1>6. ShapeInv'
  BY <1>2, <1>5 DEF ConnectInv, ShapeInv
<1>7. \A m \in upstream' : m.command # "clientek" /\ (m.command = "PuzzleAnswer" => m.alpha = attempt)
  <2>1. PuzzleAnswer(value, attempt).command = "PuzzleAnswer" /\ PuzzleAnswer(value, attempt).alpha = attempt
    BY DEF PuzzleAnswer
  <2>2. \A m \in upstream : m.command \notin {"PuzzleAnswer", "clientek"}
    BY <1>3 DEF ConnectInv, OfferInv, KeyInv, Agreed
  <2> QED BY <1>1, <2>1, <2>2
<1>8. \A d \in network' : ~(d.type = "Command" /\ d.key = BootstrapKey) /\ ~(d.type = "Ack" /\ d.key = BootstrapKey)
  BY <1>2, <1>4 DEF ConnectInv, OfferInv, KeyInv, IsPacket
<1>9. OfferInv'
  BY <1>2, <1>3, <1>4, <1>5, <1>7, <1>8 DEF OfferInv
<1>10. KeyInv'
  BY <1>2, <1>3, <1>4, <1>7, <1>8 DEF ConnectInv, KeyInv
<1>11. HandoverInv'
  <2>1. /\ sequences' \in [outCommand : Nat, inCommand : Nat, inAck : Nat]
        /\ sequences'.inAck = 0 /\ sequences'.outCommand = 1
    BY <1>2 DEF FirstSequences
  <2>2. DOMAIN fragments' = {}
    BY <1>2
  <2> QED BY <1>2, <2>1, <2>2 DEF HandoverInv
<1> QED BY <1>6, <1>9, <1>10, <1>11 DEF ConnectInv

\* The last packet of the offer is here: fs are all of them, and the number
\* of the last one is theirs.
OfferStep ==
  /\ ClientStep /\ pc = "expand" /\ pc' = "clientek"
  /\ UNCHANGED <<state, attempt, held>>
  /\ server.offers # <<>> /\ ~OfferThrows(TheOffer)
  /\ material' = Derive(TheOffer.license, attempt, held.alpha, TheOffer.beta)
  /\ \E last : /\ last + 1 = TheOffer.packets
               /\ sequences' = [sequences EXCEPT !.inCommand = last + 1, !.outCommand = @ + 1]
  /\ upstream' = upstream \union {ClientEk(TheOffer.beta, attempt)}

LEMMA OfferKeeps ==
  ASSUME ConnectInv, OfferStep
  PROVE  ConnectInv'
<1>1. PICK last : /\ last + 1 = TheOffer.packets
                  /\ sequences' = [sequences EXCEPT !.inCommand = last + 1, !.outCommand = @ + 1]
  BY DEF OfferStep
<1>2. /\ server' = server /\ network' \subseteq network /\ pc = "expand" /\ pc' = "clientek"
      /\ state' = state /\ attempt' = attempt /\ held' = held
      /\ server.offers # <<>> /\ ~OfferThrows(TheOffer)
      /\ material' = Derive(TheOffer.license, attempt, held.alpha, TheOffer.beta)
      /\ upstream' = upstream \union {ClientEk(TheOffer.beta, attempt)}
  BY DEF OfferStep, ClientStep
<1>3. pc' \notin Early \union {"expand"} /\ pc' \notin InTouch
  BY <1>2 DEF Early, InTouch
<1>4. Agreed'
  BY <1>2, <1>3 DEF Agreed, TheOffer
<1>5. server.material = NoKey /\ \A m \in upstream : m.command # "clientek"
  BY <1>2 DEF ConnectInv, KeyInv, Agreed
<1>6. ShapeInv'
  BY <1>2 DEF ConnectInv, ShapeInv
<1>7. ClientEk(TheOffer.beta, attempt).command = "clientek" /\ ClientEk(TheOffer.beta, attempt).alpha = attempt
  BY DEF ClientEk
<1>8. OfferInv'
  BY <1>2, <1>3, <1>7 DEF ConnectInv, OfferInv, IsPacket, TheOffer
<1>9. KeyInv'
  BY <1>2, <1>3, <1>4, <1>5, <1>7 DEF ConnectInv, KeyInv
<1>10. HandoverInv'
  <2>1. /\ sequences \in [outCommand : Nat, inCommand : Nat, inAck : Nat]
        /\ sequences.inAck = 0 /\ sequences.outCommand = 1
    BY <1>2 DEF ConnectInv, HandoverInv
  <2>2. TheOffer.packets \in Nat
    BY <1>2, TheOfferIs DEF ConnectInv
  <2> DEFINE n == TheOffer.packets
  <2>3. /\ sequences' \in [outCommand : Nat, inCommand : Nat, inAck : Nat]
        /\ sequences'.inAck = 0 /\ sequences'.outCommand = 2 /\ sequences'.inCommand = n
    <3>1. sequences' = [sequences EXCEPT !.inCommand = n, !.outCommand = @ + 1]
      BY <1>1
    <3>2. n \in Nat
      BY <2>2
    <3>3. sequences.outCommand + 1 = 2
      BY <2>1
    <3> HIDE DEF n
    <3>4. sequences' \in [outCommand : Nat, inCommand : Nat, inAck : Nat]
      <4> DEFINE c == sequences.outCommand + 1
      <4>1. sequences' = [sequences EXCEPT !.inCommand = n, !.outCommand = c]
        BY <3>1
      <4>2. c \in Nat
        BY <2>1
      <4> HIDE DEF c
      <4> QED BY <2>1, <3>2, <4>1, <4>2
    <3>5. sequences'.inAck = sequences.inAck /\ sequences'.inCommand = n
          /\ sequences'.outCommand = sequences.outCommand + 1
      BY <2>1, <3>1
    <3> QED BY <2>1, <3>3, <3>4, <3>5
  <2> QED BY <1>2, <1>4, <2>3 DEF HandoverInv, TheOffer
<1> QED BY <1>6, <1>8, <1>9, <1>10 DEF ConnectInv

\* The Ack of clientek is here: the session begins.
AckStep ==
  /\ ClientStep /\ pc = "clientek" /\ pc' = "login"
  /\ UNCHANGED <<state, attempt, held, material>>
  /\ \E d \in network : d.type = "Ack" /\ d.key = BootstrapKey
  /\ sequences' = [sequences EXCEPT !.inAck = @ + 1, !.outCommand = @ + 1]
  /\ upstream' = upstream \union {ClientInit(sequences.outCommand, material)}

LEMMA AckKeeps ==
  ASSUME ConnectInv, AckStep
  PROVE  ConnectInv'
<1>1. /\ server' = server /\ network' \subseteq network /\ pc = "clientek" /\ pc' = "login"
      /\ state' = state /\ attempt' = attempt /\ held' = held /\ material' = material
      /\ upstream' = upstream \union {ClientInit(sequences.outCommand, material)}
  BY DEF AckStep, ClientStep
<1>2. server.material # NoKey
  BY DEF AckStep, ConnectInv, KeyInv
<1>3. pc' \notin Early \union {"expand"} /\ pc' \notin {"expand", "clientek"}
  BY <1>1 DEF Early
<1>4. Agreed => Agreed'
  BY <1>1, <1>3, DerivedStays
<1>5. ClientInit(sequences.outCommand, material).command = "clientinit"
  BY DEF ClientInit
<1>6. ShapeInv'
  BY <1>1 DEF ConnectInv, ShapeInv
<1>7. OfferInv'
  BY <1>1, <1>3, <1>5 DEF ConnectInv, OfferInv, IsPacket, TheOffer
<1>8. KeyInv'
  BY <1>1, <1>2, <1>4, <1>5 DEF ConnectInv, KeyInv, TheOffer
<1>9. HandoverInv'
  BY <1>3 DEF HandoverInv
<1> QED BY <1>6, <1>7, <1>8, <1>9 DEF ConnectInv

-----------------------------------------------------------------------------
\* What the client does is one of these steps.
LEMMA ThrowCloses ==
  ASSUME Throw, network' \subseteq network, pc \notin Early
  PROVE  ClosingStep
BY DEF Throw, ClosingStep, ClientStep, Quiet, serverVars

\* Only a step that fails so early that nothing has been offered yet.
LEMMA EarlyThrow ==
  ASSUME ConnectInv, Throw, network' \subseteq network, pc \in Early
  PROVE  ConnectInv'
<1>1. /\ server' = server /\ pc' = "closed" /\ state' = "Closed"
      /\ held' = held /\ material' = material /\ upstream' = upstream
  BY DEF Throw, Quiet, serverVars
<1>2. pc' \notin Early /\ pc' \notin InTouch /\ pc' \notin {"expand", "clientek"}
  BY <1>1 DEF Early, InTouch
<1>3. server.offers = <<>> /\ server.material = NoKey
  BY DEF ConnectInv, OfferInv, KeyInv, Agreed
<1>4. \A m \in upstream' : m.command \notin {"PuzzleAnswer", "clientek"}
  BY <1>1 DEF ConnectInv, OfferInv, KeyInv, Agreed
<1>5. \A d \in network' : ~(d.type = "Command" /\ d.key = BootstrapKey) /\ ~(d.type = "Ack" /\ d.key = BootstrapKey)
  BY <1>3 DEF ConnectInv, OfferInv, KeyInv, IsPacket
<1>6. ShapeInv'
  BY <1>1 DEF ConnectInv, ShapeInv
<1>7. OfferInv'
  BY <1>1, <1>3, <1>4, <1>5 DEF OfferInv
<1>8. KeyInv'
  BY <1>1, <1>2, <1>3, <1>4, <1>5 DEF ConnectInv, KeyInv
<1>9. HandoverInv'
  BY <1>2 DEF HandoverInv
<1> QED BY <1>6, <1>7, <1>8, <1>9 DEF ConnectInv

LEMMA ThrowKeeps ==
  ASSUME ConnectInv, Throw, network' \subseteq network
  PROVE  ConnectInv'
BY ThrowCloses, ClosingKeeps, EarlyThrow

\* The number of the packet that completes the offer is the last one's.
LEMMA LastPacket ==
  ASSUME NEW fs, DOMAIN fs # {}, \A i \in DOMAIN fs : IsPacket(fs[i], i), TheOffer.packets \in Nat \ {0},
         NEW last \in CommandEnd(fs)
  PROVE  last + 1 = TheOffer.packets
<1> DEFINE n == TheOffer.packets
<1>1. 0 \in DOMAIN fs
  BY DEF CommandEnd
<1>2. fs[0].fragmented = (n > 1)
  BY <1>1 DEF IsPacket
<1>3. CASE ~fs[0].fragmented
  <2>1. last = 0
    BY <1>1, <1>3 DEF CommandEnd
  <2>2. ~(n > 1)
    BY <1>2, <1>3
  <2>3. n \in Nat \ {0}
    OBVIOUS
  <2> HIDE DEF n
  <2>4. n = 1
    BY <2>2, <2>3
  <2> QED BY <2>1, <2>4 DEF n
<1>4. CASE fs[0].fragmented
  <2>1. last \in LastFragment(fs)
    BY <1>1, <1>4 DEF CommandEnd
  <2>2. last \in 1 .. MaxFragments - 1 /\ last \in DOMAIN fs /\ fs[last].fragmented
    BY <2>1, ConnectAssumption DEF LastFragment
  <2>3. last \in {0, n - 1}
    BY <2>2 DEF IsPacket
  <2> QED BY <2>2, <2>3, ConnectAssumption
<1> QED BY <1>3, <1>4

LEMMA BeginningKeeps ==
  ASSUME ConnectInv, Construct \/ Resolve \/ ConnectCall
  PROVE  ConnectInv'
<1>1. CASE Construct
  <2>1. /\ ClientStep /\ pc \in Early /\ pc' \in Early /\ UNCHANGED <<held, material, state>>
        /\ upstream' = upstream \union {}
    BY <1>1 DEF Construct, ClientStep, Early, serverVars, networkVars
  <2>2. Plain({})
    BY DEF Plain
  <2>3. EarlyStep
    BY <2>1, <2>2 DEF EarlyStep
  <2> QED BY <2>3, EarlyKeeps
<1>2. CASE Resolve
  <2>1. /\ ClientStep /\ pc \in Early /\ pc' \in Early /\ UNCHANGED <<held, material>>
        /\ state' \in {state, "Created"} /\ upstream' = upstream \union {}
    BY <1>2 DEF Resolve, ClientStep, Early, serverVars, networkVars
  <2>2. Plain({})
    BY DEF Plain
  <2>3. EarlyStep
    BY <2>1, <2>2 DEF EarlyStep
  <2> QED BY <2>3, EarlyKeeps
<1>3. CASE ConnectCall
  <2>1. CASE Throw
    BY <1>3, <2>1, ThrowKeeps DEF ConnectCall
  <2>2. CASE ~Throw
    <3>1. /\ ClientStep /\ pc \in Early /\ pc' \in Early /\ UNCHANGED <<held, material>>
          /\ state' = "Connecting" /\ upstream' = upstream \union {GetCookie(1)}
      BY <1>3, <2>2 DEF ConnectCall, ClientStep, Early, serverVars, Transmit
    <3>2. Plain({GetCookie(1)})
      BY DEF Plain, GetCookie
    <3>3. EarlyStep
      BY <3>1, <3>2 DEF EarlyStep
    <3> QED BY <3>3, EarlyKeeps
  <2> QED BY <2>1, <2>2
<1> QED BY <1>1, <1>2, <1>3

LEMMA Init1Keeps ==
  ASSUME ConnectInv, NEW d \in network, network' \subseteq network,
         ReceiveCookie(d) \/ ReceivePuzzle(d)
  PROVE  ConnectInv'
<1>1. CASE Throw
  BY <1>1, ThrowKeeps
<1>2. CASE ReceiveCookie(d) /\ ~Throw
  <2>1. /\ ClientStep /\ pc \in Early /\ pc' \in Early /\ UNCHANGED <<held, material, state>>
        /\ upstream' = upstream \union {GetPuzzle(d.value)}
    BY <1>2 DEF ReceiveCookie, ClientStep, Early, serverVars, Transmit
  <2>2. Plain({GetPuzzle(d.value)})
    BY DEF Plain, GetPuzzle
  <2>3. EarlyStep
    BY <2>1, <2>2 DEF EarlyStep
  <2> QED BY <2>3, EarlyKeeps
<1>3. CASE ReceivePuzzle(d) /\ ~Throw /\ pc' = "cookie"
  <2>1. /\ ClientStep /\ pc \in Early /\ pc' \in Early /\ UNCHANGED <<held, material, state>>
        /\ upstream' = upstream \union {GetCookie(attempt + 1)}
    BY <1>3 DEF ReceivePuzzle, ClientStep, Early, serverVars, Transmit
  <2>2. Plain({GetCookie(attempt + 1)})
    BY DEF Plain, GetCookie
  <2>3. EarlyStep
    BY <2>1, <2>2 DEF EarlyStep
  <2> QED BY <2>3, EarlyKeeps
<1>4. CASE ReceivePuzzle(d) /\ ~Throw /\ pc' # "cookie"
  <2>1. PuzzleStep
    BY <1>4 DEF ReceivePuzzle, PuzzleStep, ClientStep, serverVars, Transmit
  <2> QED BY <2>1, PuzzleKeeps
<1> QED BY <1>1, <1>2, <1>3, <1>4

LEMMA FragmentStepKeeps ==
  ASSUME ConnectInv, NEW d \in network, network' \subseteq network, ReceiveFragment(d)
  PROVE  ConnectInv'
<1> DEFINE fs  == [i \in DOMAIN fragments \union {d.id} |->
                     IF i \in DOMAIN fragments THEN fragments[i] ELSE d]
           end == IF d.id \in DOMAIN fragments THEN {} ELSE CommandEnd(fs)
<1>1. CASE Throw
  BY <1>1, ThrowKeeps
<1>2. CASE ~Throw
  <2>1. pc = "expand" /\ d.type = "Command" /\ d.key = BootstrapKey
    BY <1>2 DEF ReceiveFragment, BootstrapDecrypts, Decrypts
  <2>2. d.value = 1 /\ IsPacket(d, d.id)
    BY <2>1 DEF ConnectInv, OfferInv
  <2>3. server.offers # <<>> /\ TheOffer.packets \in Nat \ {0} /\ server.offers[d.value] = TheOffer
    BY <2>2, TheOfferIs DEF ConnectInv, IsPacket, TheOffer
  <2>4. \/ end # {} /\ \E last \in end : TakeOffer(TheOffer, fs, last)
        \/ /\ fragments' = fs
           /\ Quiet
           /\ UNCHANGED <<state, pc, address, attempt, held, sequences, material, sessionVars, serverVars, lookup>>
    BY <1>2, <2>1, <2>3 DEF ReceiveFragment, BootstrapDecrypts, Decrypts
  <2>5. CASE /\ fragments' = fs
             /\ Quiet
             /\ UNCHANGED <<state, pc, address, attempt, held, sequences, material, sessionVars, serverVars, lookup>>
    <3>1. FragmentStep
      BY <2>1, <2>5 DEF FragmentStep, ClientStep, serverVars, Quiet
    <3> QED BY <3>1, FragmentKeeps
  <2>6. ASSUME NEW last \in end, TakeOffer(TheOffer, fs, last) PROVE ConnectInv'
    <3>1. last \in CommandEnd(fs) /\ d.id \notin DOMAIN fragments
      BY <2>6
    <3>2. \A i \in DOMAIN fs : IsPacket(fs[i], i)
      <4> SUFFICES ASSUME NEW i \in DOMAIN fs PROVE IsPacket(fs[i], i)
        OBVIOUS
      <4>1. CASE i \in DOMAIN fragments
        BY <2>1, <4>1 DEF ConnectInv, HandoverInv
      <4>2. CASE i \notin DOMAIN fragments
        BY <2>2, <4>2
      <4> QED BY <4>1, <4>2
    <3>3. DOMAIN fs # {}
      OBVIOUS
    <3>4. last + 1 = TheOffer.packets
      <4> HIDE DEF fs
      <4> QED BY <2>3, <3>1, <3>2, <3>3, LastPacket
    <3> HIDE DEF fs, end
    <3>5. OfferStep
      BY <1>2, <2>1, <2>3, <2>6, <3>4 DEF TakeOffer, OfferStep, ClientStep, serverVars, Transmit
    <3> QED BY <3>5, OfferKeeps
  <2> QED BY <2>4, <2>5, <2>6
<1> QED BY <1>1, <1>2

LEMMA ReceiveAckStep ==
  ASSUME NEW d \in network, network' \subseteq network, ReceiveAck(d), ~Throw
  PROVE  AckStep
BY DEF ReceiveAck, AckStep, ClientStep, serverVars, Transmit, BootstrapDecrypts, Decrypts

LEMMA SessionThrowCloses ==
  ASSUME SessionThrow, network' \subseteq network, upstream' = upstream, pc \in InTouch
  PROVE  ClosingStep
<1>1. pc \notin Early
  BY DEF Early, InTouch
<1> QED BY <1>1 DEF SessionThrow, ClosingStep, ClientStep, serverVars

\* The session's own steps send neither of the handshake's secrets.
LEMMA SessionStepsKeep ==
  ASSUME ConnectInv,
         \/ LoginCommand \/ InitialCommand \/ PollCommand \/ Disconnect \/ DisconnectEnds
  PROVE  ConnectInv'
<1>0. Plain({})
  BY DEF Plain
<1>1. CASE LoginCommand
  <2>1. /\ ClientStep /\ pc \in InTouch /\ pc' \in InTouch \union {"closed"} /\ UNCHANGED <<material, attempt, held>>
        /\ upstream' = upstream \union {}
    BY <1>1 DEF LoginCommand, ClientStep, InTouch, serverVars, networkVars
  <2> QED BY <1>0, <2>1, SessionKeeps DEF SessionStep
<1>2. CASE InitialCommand
  <2> DEFINE ms == {ChannelSubscribeAll(sequences.outCommand, material)}
  <2>1. /\ ClientStep /\ pc \in InTouch /\ pc' \in InTouch /\ UNCHANGED <<material, attempt, held>>
        /\ upstream' = upstream \union {} \/ upstream' = upstream \union ms
    BY <1>2 DEF InitialCommand, ClientStep, InTouch, serverVars, Transmit
  <2>2. Plain(ms)
    BY DEF Plain, ChannelSubscribeAll
  <2> HIDE DEF ms
  <2> QED BY <1>0, <2>1, <2>2, SessionKeeps DEF SessionStep
<1>3. CASE PollCommand
  <2>1. /\ ClientStep /\ pc \in InTouch /\ pc' \in InTouch /\ UNCHANGED <<material, attempt, held>>
        /\ upstream' = upstream \union {}
    BY <1>3 DEF PollCommand, ClientStep, InTouch, serverVars, networkVars
  <2> QED BY <1>0, <2>1, SessionKeeps DEF SessionStep
<1>4. CASE Disconnect
  <2> DEFINE ms == {ClientDisconnect(sequences.outCommand, material)}
  <2>1. /\ ClientStep /\ pc \in InTouch /\ pc' \in InTouch /\ UNCHANGED <<material, attempt>>
        /\ held' = [held EXCEPT !.goodbye = sequences.outCommand] /\ upstream' = upstream \union ms
    BY <1>4 DEF Disconnect, ClientStep, InTouch, serverVars, Transmit
  <2>2. Plain(ms)
    BY DEF Plain, ClientDisconnect
  <2> HIDE DEF ms
  <2> QED BY <2>1, <2>2, SessionKeeps DEF SessionStep
<1>5. CASE DisconnectEnds
  <2>1. /\ ClientStep /\ pc \in InTouch /\ pc' \in InTouch \union {"closed"} /\ UNCHANGED <<material, attempt, held>>
        /\ upstream' = upstream \union {}
    BY <1>5 DEF DisconnectEnds, ClientStep, InTouch, serverVars, networkVars
  <2> QED BY <1>0, <2>1, SessionKeeps DEF SessionStep
<1> QED BY <1>1, <1>2, <1>3, <1>4, <1>5

LEMMA PacketKeeps ==
  ASSUME ConnectInv, NEW d \in network, network' \subseteq network, ReceivePacket(d)
  PROVE  ConnectInv'
<1>1. pc \in InTouch /\ upstream' = upstream
  BY DEF ReceivePacket, InSession, DisconnectPending, InTouch, Quiet
<1>2. CASE PacketThrows(d)
  <2>1. SessionThrow
    BY <1>2 DEF ReceivePacket
  <2> QED BY <1>1, <2>1, SessionThrowCloses, ClosingKeeps
<1>3. CASE ~PacketThrows(d)
  <2>1. UNCHANGED <<state, pc, address, attempt, held, fragments, material, before,
                    clientId, processed, serverVars, lookup>>
    BY <1>3 DEF ReceivePacket
  <2>2. ClientStep /\ Plain({}) /\ upstream' = upstream \union {}
    BY <1>1, <2>1 DEF ClientStep, Plain, serverVars
  <2>3. SessionStep
    BY <1>1, <2>1, <2>2 DEF SessionStep
  <2> QED BY <2>3, SessionKeeps
<1> QED BY <1>2, <1>3

LEMMA IdleKeeps ==
  ASSUME ConnectInv, UNCHANGED <<clientVars, serverVars, network, upstream>>
  PROVE  ConnectInv'
<1>1. /\ UNCHANGED <<state, pc, attempt, held, sequences, fragments, material>>
      /\ UNCHANGED <<server, network, upstream>>
  BY DEF clientVars, serverVars
<1>2. TheOffer' = TheOffer /\ Agreed' = Agreed
  BY <1>1 DEF TheOffer, Agreed
<1> QED BY <1>1, <1>2 DEF ConnectInv, ShapeInv, OfferInv, KeyInv, HandoverInv, IsPacket

LEMMA ClientKeeps ==
  ASSUME ConnectInv, ClientNext
  PROVE  ConnectInv'
<1>1. CASE Receive
  <2>1. PICK d \in network :
          /\ Arrives(d)
          /\ ReceiveCookie(d) \/ ReceivePuzzle(d) \/ ReceiveFragment(d) \/ ReceiveAck(d) \/ ReceivePacket(d)
    BY <1>1 DEF Receive
  <2>2. network' \subseteq network
    BY <2>1 DEF Arrives
  <2>3. CASE ReceiveAck(d)
    BY <2>2, <2>3, ThrowKeeps, ReceiveAckStep, AckKeeps
  <2> QED BY <2>1, <2>2, <2>3, Init1Keeps, FragmentStepKeeps, PacketKeeps
<1>2. CASE ReceiveTimesOut
  <2>1. Throw /\ network' \subseteq network
    BY <1>2 DEF ReceiveTimesOut
  <2> QED BY <2>1, ThrowKeeps
<1>3. CASE CommandExpires
  <2>1. SessionThrow /\ network' \subseteq network /\ upstream' = upstream /\ pc \in InTouch
    BY <1>3 DEF CommandExpires, networkVars, InSession, DisconnectPending, InTouch
  <2> QED BY <2>1, SessionThrowCloses, ClosingKeeps
<1>4. CASE ReceiveWaits
  <2>1. UNCHANGED <<clientVars, serverVars, network, upstream>>
    BY <1>4 DEF ReceiveWaits
  <2> QED BY <2>1, IdleKeeps
<1> QED BY <1>1, <1>2, <1>3, <1>4, BeginningKeeps, SessionStepsKeep DEF ClientNext

-----------------------------------------------------------------------------
\* The server answers and keeps its offer and its key.
AnswerStep ==
  /\ UNCHANGED clientVars /\ upstream' \subseteq upstream
  /\ server' = [offers |-> server'.offers, alpha |-> server'.alpha, material |-> server'.material,
                firstId |-> server'.firstId, script |-> server'.script, acks |-> server'.acks]
  /\ server'.offers = server.offers /\ server'.alpha = server.alpha
  /\ server'.material = server.material /\ server'.firstId = server.firstId
  /\ \A d \in network' \ network : ~(d.type \in {"Command", "Ack"} /\ d.key = BootstrapKey)

LEMMA AnswerKeeps ==
  ASSUME ConnectInv, AnswerStep
  PROVE  ConnectInv'
<1>1. /\ pc' = pc /\ state' = state /\ held' = held /\ attempt' = attempt /\ material' = material
      /\ sequences' = sequences /\ fragments' = fragments /\ upstream' \subseteq upstream
      /\ server'.offers = server.offers /\ server'.alpha = server.alpha
      /\ server'.material = server.material /\ server'.firstId = server.firstId
  BY DEF AnswerStep, clientVars
<1>2. \A d \in network' : d.type \in {"Command", "Ack"} /\ d.key = BootstrapKey => d \in network
  BY DEF AnswerStep
<1>3. TheOffer' = TheOffer
  BY <1>1 DEF TheOffer
<1>4. Agreed' = Agreed
  BY <1>1, <1>3 DEF Agreed
<1>5. ShapeInv'
  BY <1>1 DEF ConnectInv, ShapeInv, AnswerStep
<1>6. OfferInv'
  BY <1>1, <1>2, <1>3 DEF ConnectInv, OfferInv, IsPacket
<1>7. KeyInv'
  BY <1>1, <1>2, <1>3, <1>4 DEF ConnectInv, KeyInv
<1>8. HandoverInv'
  BY <1>1, <1>3, <1>4 DEF ConnectInv, HandoverInv, IsPacket
<1> QED BY <1>5, <1>6, <1>7, <1>8 DEF ConnectInv

LEMMA AnswersKeep ==
  ASSUME ConnectInv, UNCHANGED clientVars, upstream' \subseteq upstream, NEW m \in upstream,
         ServeCookie(m) \/ ServePuzzle(m) \/ ServeClientInit(m) \/ ServeCommand(m)
  PROVE  ConnectInv'
<1>0. server = [offers |-> server.offers, alpha |-> server.alpha, material |-> server.material,
                firstId |-> server.firstId, script |-> server.script, acks |-> server.acks]
  BY DEF ConnectInv, ShapeInv
<1>1. CASE ServeCookie(m) \/ ServePuzzle(m)
  <2>1. server' = server /\ \E b, v : network' = network \union {Init1(b, v)}
    BY <1>1 DEF ServeCookie, ServePuzzle, serverVars
  <2>2. \A b, v : Init1(b, v).type = "Init1"
    BY DEF Init1, Datagram
  <2>3. \A d \in network' \ network : d.type = "Init1"
    BY <2>1, <2>2
  <2>4. AnswerStep
    BY <1>0, <2>1, <2>3 DEF AnswerStep
  <2> QED BY <2>4, AnswerKeeps
<1>2. server.material # BootstrapKey /\ NoKey # BootstrapKey
  BY SessionKeys DEF ConnectInv, KeyInv
<1>3. \A t, i, k, b, v : Datagram(t, i, k, b, v).key = k /\ Datagram(t, i, k, b, v).type = t
  BY DEF Datagram
<1>4. CASE ServeClientInit(m)
  <2>1. PICK script :
          /\ server' = [server EXCEPT !.script = script, !.acks = 1]
          /\ network' = network \union {Datagram("Ack", 1, NoKey, "ack", m.value)} \union
               { Datagram("Command", server.firstId + i - 1, server.material, "session", i) : i \in DOMAIN script }
    BY <1>4 DEF ServeClientInit
  <2>2. \A d \in network' \ network : d.key # BootstrapKey
    BY <1>2, <1>3, <2>1
  <2>3. server' = [offers |-> server.offers, alpha |-> server.alpha, material |-> server.material,
                   firstId |-> server.firstId, script |-> script, acks |-> 1]
    BY <1>0, <2>1
  <2>4. AnswerStep
    BY <2>2, <2>3 DEF AnswerStep
  <2> QED BY <2>4, AnswerKeeps
<1>5. CASE ServeCommand(m)
  <2>1. /\ server' = [server EXCEPT !.acks = @ + 1]
        /\ network' = network \union {Datagram("Ack", server.acks + 1, server.material, "ack", m.value)}
                              \union {Datagram("Ping", 1, server.material, "ping", 0)}
    BY <1>5 DEF ServeCommand
  <2>2. \A d \in network' \ network : d.key # BootstrapKey
    BY <1>2, <1>3, <2>1
  <2>3. server' = [offers |-> server.offers, alpha |-> server.alpha, material |-> server.material,
                   firstId |-> server.firstId, script |-> server.script, acks |-> server.acks + 1]
    BY <1>0, <2>1
  <2>4. AnswerStep
    BY <2>2, <2>3 DEF AnswerStep
  <2> QED BY <2>4, AnswerKeeps
<1> QED BY <1>1, <1>4, <1>5

\* The packets of the offer are what the client takes them for.
LEMMA OffersPackets ==
  ASSUME NEW n \in Nat \ {0}, TheOffer.packets = n, server.offers # <<>>, NEW d \in OfferPackets(1, n)
  PROVE  d.type = "Command" /\ d.value = 1 /\ IsPacket(d, d.id)
<1>1. PICK i \in 0 .. n - 1 :
        d = [Datagram("Command", i, BootstrapKey, "offer", 1) EXCEPT !.fragmented = n > 1 /\ i \in {0, n - 1}]
  BY DEF OfferPackets
<1>2. d.type = "Command" /\ d.value = 1 /\ d.id = i /\ d.fragmented = (n > 1 /\ i \in {0, n - 1})
  BY <1>1 DEF Datagram
<1>3. IsPacket(d, i)
  BY <1>2 DEF IsPacket
<1> QED BY <1>2, <1>3

\* The server sends a packet of its offer again.
LEMMA RepeatsKeep ==
  ASSUME ConnectInv, ServerRepeats
  PROVE  ConnectInv'
<1>1. /\ UNCHANGED <<clientVars, server, upstream>> /\ server.offers # <<>>
  BY DEF ServerRepeats, serverVars
<1>2. PICK d \in OfferPackets(1, server.offers[1].packets) : network' = network \union {d}
  BY DEF ServerRepeats
<1>3. server.offers[1] = TheOffer /\ TheOffer.packets \in Nat \ {0}
  BY <1>1, TheOfferIs DEF ConnectInv, TheOffer
<1>4. d.type = "Command" /\ d.value = 1 /\ IsPacket(d, d.id)
  BY <1>1, <1>2, <1>3, OffersPackets
<1>5. OfferInv'
  BY <1>1, <1>2, <1>4 DEF ConnectInv, OfferInv, IsPacket, TheOffer, clientVars
<1>6. KeyInv'
  BY <1>1, <1>2, <1>4 DEF ConnectInv, KeyInv, Agreed, TheOffer, clientVars
<1>7. ShapeInv' /\ HandoverInv'
  BY <1>1 DEF ConnectInv, ShapeInv, HandoverInv, IsPacket, Agreed, TheOffer, clientVars
<1> QED BY <1>5, <1>6, <1>7 DEF ConnectInv

\* The server makes its offer.
LEMMA ServeAnswerKeeps ==
  ASSUME ConnectInv, UNCHANGED clientVars, upstream' \subseteq upstream, NEW m \in upstream, ServeAnswer(m)
  PROVE  ConnectInv'
<1>1. PICK o \in Offers(1) :
        /\ server' = [server EXCEPT !.offers = Append(@, o), !.alpha = m.alpha]
        /\ network' = network \union OfferPackets(1, o.packets)
  BY DEF ServeAnswer
<1>2. m.command = "PuzzleAnswer" /\ server.material = NoKey /\ server.offers = <<>>
  BY DEF ServeAnswer
<1>3. /\ pc' = pc /\ state' = state /\ held' = held /\ attempt' = attempt /\ material' = material
      /\ sequences' = sequences /\ fragments' = fragments
  BY DEF clientVars
<1>4. server = [offers |-> server.offers, alpha |-> server.alpha, material |-> server.material,
                firstId |-> server.firstId, script |-> server.script, acks |-> server.acks]
  BY DEF ConnectInv, ShapeInv
<1>5. server' = [offers |-> <<o>>, alpha |-> m.alpha, material |-> server.material,
                 firstId |-> server.firstId, script |-> server.script, acks |-> server.acks]
  <2>1. Append(server.offers, o) = <<o>>
    BY <1>2
  <2>2. server' = [server EXCEPT !.offers = <<o>>, !.alpha = m.alpha]
    BY <1>1, <2>1
  <2> QED BY <1>4, <2>2
<1>6. server'.offers = <<o>> /\ server'.alpha = m.alpha /\ server'.material = NoKey
  BY <1>2, <1>5
<1>7. pc \notin Early /\ m.alpha = held.alpha
  BY <1>2 DEF ConnectInv, OfferInv
<1>8. ShapeInv'
  <2>1. server' = [offers |-> server'.offers, alpha |-> server'.alpha, material |-> server'.material,
                   firstId |-> server'.firstId, script |-> server'.script, acks |-> server'.acks]
    BY <1>5
  <2> QED BY <1>3, <1>6, <2>1 DEF ConnectInv, ShapeInv
<1>9. /\ \A x \in upstream : x.command # "clientek"
      /\ \A d \in network : ~(d.type \in {"Command", "Ack"} /\ d.key = BootstrapKey)
      /\ pc # "clientek" /\ pc \notin InTouch /\ state # "Established"
      /\ pc = "expand" => DOMAIN fragments = {}
  BY <1>2 DEF ConnectInv, OfferInv, KeyInv, HandoverInv, Agreed, IsPacket
<1>10. TheOffer' = o /\ o.packets \in Nat \ {0} /\ server'.offers # <<>>
  BY <1>6, OfferTypes DEF TheOffer
<1>11. \A d \in network' : d.type \in {"Command", "Ack"} /\ d.key = BootstrapKey =>
          d.type = "Command" /\ d.value = 1 /\ IsPacket(d, d.id)'
  <2> SUFFICES ASSUME NEW d \in OfferPackets(1, o.packets)
               PROVE  d.type = "Command" /\ d.value = 1 /\ IsPacket(d, d.id)'
    BY <1>1, <1>9
  <2> DEFINE n == o.packets
  <2>1. PICK i \in 0 .. n - 1 :
          d = [Datagram("Command", i, BootstrapKey, "offer", 1) EXCEPT !.fragmented = n > 1 /\ i \in {0, n - 1}]
    BY DEF OfferPackets
  <2>2. d.type = "Command" /\ d.value = 1 /\ d.id = i /\ d.fragmented = (n > 1 /\ i \in {0, n - 1})
    BY <2>1 DEF Datagram
  <2>3. IsPacket(d, i)'
    BY <1>10, <2>2 DEF IsPacket
  <2> QED BY <2>2, <2>3
<1>12. OfferInv'
  BY <1>3, <1>6, <1>7, <1>11 DEF ConnectInv, OfferInv
<1>13. KeyInv'
  BY <1>2, <1>3, <1>6, <1>9, <1>11, SessionKeys DEF KeyInv
<1>14. HandoverInv'
  BY <1>3, <1>9 DEF ConnectInv, HandoverInv
<1> QED BY <1>8, <1>12, <1>13, <1>14 DEF ConnectInv

\* The server takes clientek: both sides have the key.
LEMMA ServeClientEkKeeps ==
  ASSUME ConnectInv, UNCHANGED clientVars, upstream' \subseteq upstream, NEW m \in upstream, ServeClientEk(m)
  PROVE  ConnectInv'
<1> DEFINE o == Last(server.offers)
           key == Derive(o.license, m.alpha, server.alpha, o.beta)
           ack == Datagram("Ack", 0, BootstrapKey, "ack", 1)
<1>1. /\ m.command = "clientek" /\ server.material = NoKey
      /\ server' = [server EXCEPT !.material = key, !.firstId = o.packets]
      /\ network' = network \union {ack}
  BY DEF ServeClientEk
<1>2. /\ pc' = pc /\ state' = state /\ held' = held /\ attempt' = attempt /\ material' = material
      /\ sequences' = sequences /\ fragments' = fragments
  BY DEF clientVars
<1>3. Agreed /\ m.alpha = attempt
  BY <1>1 DEF ConnectInv, KeyInv
<1>4. o = TheOffer /\ server.alpha = held.alpha
  BY <1>3, TheOfferIs DEF ConnectInv, OfferInv, Agreed, Last, TheOffer
<1>5. key = material
  BY <1>3, <1>4 DEF Agreed
<1>6. key \notin {NoKey, BootstrapKey}
  BY SessionKeys
<1> HIDE DEF o, key
<1>7. server = [offers |-> server.offers, alpha |-> server.alpha, material |-> server.material,
                firstId |-> server.firstId, script |-> server.script, acks |-> server.acks]
  BY DEF ConnectInv, ShapeInv
<1>8. server' = [offers |-> server.offers, alpha |-> server.alpha, material |-> key,
                 firstId |-> o.packets, script |-> server.script, acks |-> server.acks]
  BY <1>1, <1>7
<1>9. /\ server'.offers = server.offers /\ server'.alpha = server.alpha /\ server'.material = key
      /\ server'.firstId = o.packets
  BY <1>8
<1>10. TheOffer' = TheOffer /\ Agreed'
  BY <1>2, <1>3, <1>9 DEF TheOffer, Agreed
<1>11. ShapeInv'
  <2>1. server' = [offers |-> server'.offers, alpha |-> server'.alpha, material |-> server'.material,
                   firstId |-> server'.firstId, script |-> server'.script, acks |-> server'.acks]
    BY <1>8
  <2> QED BY <1>2, <1>9, <2>1 DEF ConnectInv, ShapeInv
<1>12. ack.type = "Ack"
  BY DEF Datagram
<1> HIDE DEF ack
<1>13. OfferInv'
  BY <1>1, <1>2, <1>9, <1>10, <1>12 DEF ConnectInv, OfferInv, IsPacket
<1>14. KeyInv'
  BY <1>2, <1>3, <1>4, <1>5, <1>6, <1>9, <1>10 DEF ConnectInv, KeyInv
<1>15. HandoverInv'
  BY <1>2, <1>9, <1>10 DEF ConnectInv, HandoverInv, IsPacket
<1> QED BY <1>11, <1>13, <1>14, <1>15 DEF ConnectInv

LEMMA ServerKeeps ==
  ASSUME ConnectInv, ServerNext
  PROVE  ConnectInv'
<1>1. PICK m \in upstream :
        /\ Takes(m)
        /\ ServeCookie(m) \/ ServePuzzle(m) \/ ServeAnswer(m) \/ ServeClientEk(m)
           \/ ServeClientInit(m) \/ ServeCommand(m)
  BY DEF ServerNext
<1>2. UNCHANGED clientVars /\ upstream' \subseteq upstream
  BY <1>1 DEF ServerNext, Takes
<1> QED BY <1>1, <1>2, AnswersKeep, ServeAnswerKeeps, ServeClientEkKeeps

-----------------------------------------------------------------------------
LEMMA ConnectInitInv == Init => ConnectInv
<1> SUFFICES ASSUME Init PROVE ConnectInv
  OBVIOUS
<1>1. /\ pc = "new" /\ state = "none" /\ network = {} /\ upstream = {}
      /\ held = [alpha |-> 0, goodbye |-> 0]
      /\ server = [offers |-> <<>>, alpha |-> 0, material |-> NoKey, firstId |-> 0,
                   script |-> <<>>, acks |-> 0]
  BY DEF Init
<1>2. server.offers = <<>> /\ server.material = NoKey
  BY <1>1
<1>3. ShapeInv
  BY <1>1 DEF ShapeInv
<1>4. OfferInv
  BY <1>1, <1>2 DEF OfferInv
<1>5. KeyInv
  BY <1>1, <1>2, SessionKeys DEF KeyInv, InTouch
<1>6. HandoverInv
  BY <1>1 DEF HandoverInv
<1> QED BY <1>3, <1>4, <1>5, <1>6 DEF ConnectInv

LEMMA ConnectInductive ==
  ASSUME ConnectInv, [Next]_vars
  PROVE  ConnectInv'
<1>1. CASE SrvAnswer \/ UNCHANGED vars
  <2>1. UNCHANGED <<clientVars, serverVars, network, upstream>>
    BY <1>1 DEF SrvAnswer, vars, networkVars
  <2> QED BY <2>1, IdleKeeps
<1> QED BY <1>1, ClientKeeps, ServerKeeps, RepeatsKeep DEF Next

\* The handshake fails closed, however many attempts it takes and whatever
\* arrives late, twice or out of order: an established connection has the
\* server's key, and its license parsed, so that no block outlives any block
\* above it.
THEOREM HandshakeFailsClosed == Spec => []SecureSession
<1>1. ConnectInv => SecureSession
  <2> SUFFICES ASSUME ConnectInv, state = "Established" PROVE SecureSession
    BY DEF SecureSession
  <2> DEFINE o == Last(server.offers)
             n == Len(o.license)
  <2>1. Agreed /\ material = server.material
    BY DEF ConnectInv, KeyInv
  <2>2. o = TheOffer /\ o.license \in Seq(BlockType)
    BY <2>1, TheOfferIs DEF ConnectInv, Agreed, Last, TheOffer
  <2>3. ~OfferThrows(o)
    BY <2>1, <2>2 DEF Agreed
  <2> HIDE DEF o
  <2>4. ~VerifyFails(o) /\ ~LicenseThrows(o.license)
    BY <2>3 DEF OfferThrows
  <2>5. \A i, j \in 1 .. n : i < j => /\ o.license[i].first <= o.license[j].first
                                       /\ o.license[j].last <= o.license[i].last
    BY <2>2, <2>4, LicenseIsNested
  <2>6. o.proved /\ o.license[n].type = "Ephemeral" /\ o.license[n - 1].type = "Server"
    BY <2>4 DEF VerifyFails, LicenseThrows, IsServerBlock
  <2> QED BY <2>1, <2>5, <2>6 DEF SecureSession, o
<1>2. ConnectInv /\ [Next]_vars => ConnectInv'
  BY ConnectInductive
<1> QED BY ConnectInitInv, <1>1, <1>2, PTL DEF Spec

\* Only the Ack of clientek begins the session.
LEMMA LoginIsAck ==
  ASSUME [Next]_vars, pc = "clientek", pc' = "login"
  PROVE  AckStep
<1>1. ~Throw /\ ~SessionThrow
  BY DEF Throw, SessionThrow
<1>2. ~UNCHANGED vars /\ ~SrvAnswer /\ ~ServerNext /\ ~ServerRepeats /\ ~ReceiveWaits
  BY DEF vars, SrvAnswer, ServerNext, ServerRepeats, ReceiveWaits, clientVars
<1>3. Receive
  BY <1>1, <1>2 DEF Next, ClientNext, Construct, Resolve, ConnectCall, ReceiveTimesOut, CommandExpires,
                    LoginCommand, InitialCommand, PollCommand, Disconnect, DisconnectEnds
<1>4. PICK d \in network :
        /\ Arrives(d)
        /\ ReceiveCookie(d) \/ ReceivePuzzle(d) \/ ReceiveFragment(d) \/ ReceiveAck(d) \/ ReceivePacket(d)
  BY <1>3 DEF Receive
<1>5. ReceiveAck(d)
  BY <1>4 DEF ReceiveCookie, ReceivePuzzle, ReceiveFragment, ReceivePacket, InSession, DisconnectPending
<1>6. network' \subseteq network
  BY <1>4 DEF Arrives
<1> QED BY <1>1, <1>5, <1>6, ReceiveAckStep

\* The session's sequences continue the bootstrap's: for an offer of any
\* number of packets, in whatever order and however often they arrived, the
\* next Command and the next Ack the client expects are the server's next.
THEOREM SequencesContinue == Spec => HandoverContinues
<1> DEFINE Continues == (pc = "clientek" /\ pc' = "login") =>
              /\ sequences'.inCommand = server.firstId
              /\ sequences'.inAck = 1
              /\ sequences'.outCommand = FirstCommandId + 1
<1>1. ASSUME ConnectInv, [Next]_vars PROVE Continues
  <2> SUFFICES ASSUME pc = "clientek", pc' = "login"
               PROVE  /\ sequences'.inCommand = server.firstId
                      /\ sequences'.inAck = 1
                      /\ sequences'.outCommand = FirstCommandId + 1
    OBVIOUS
  <2>1. AckStep
    BY <1>1, LoginIsAck
  <2>2. server.material # NoKey
    BY <1>1, <2>1 DEF AckStep, ConnectInv, KeyInv
  <2>3. server.firstId = TheOffer.packets
    BY <1>1, <2>2 DEF ConnectInv, KeyInv
  <2>4. /\ sequences \in [outCommand : Nat, inCommand : Nat, inAck : Nat]
        /\ sequences.inAck = 0 /\ sequences.outCommand = 2 /\ sequences.inCommand = TheOffer.packets
    BY <1>1 DEF ConnectInv, HandoverInv
  <2>5. /\ sequences'.inCommand = sequences.inCommand /\ sequences'.inAck = sequences.inAck + 1
        /\ sequences'.outCommand = sequences.outCommand + 1
    BY <2>1, <2>4 DEF AckStep
  <2> QED BY <2>3, <2>4, <2>5 DEF FirstCommandId
<1>2. ConnectInv /\ [Next]_vars => ConnectInv' /\ [Continues]_vars
  BY <1>1, ConnectInductive
<1> QED BY ConnectInitInv, <1>2, PTL DEF Spec, HandoverContinues
=============================================================================
