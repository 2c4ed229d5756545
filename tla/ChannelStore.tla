---------------------------- MODULE ChannelStore ----------------------------
(***************************************************************************)
(* ChannelStore: the server's channels as the client keeps them.  A store   *)
(* is a record of the map m_Channels, from channel id to channel, and the   *)
(* set m_SubscribedChannels.  The children of a channel are ordered by a    *)
(* chain: orderAfterId names the previous sibling, 0 the first place.       *)
(***************************************************************************)
EXTENDS Messages, FiniteSets, FiniteSetsExt, SequencesExt

EmptyChannels == [channels |-> <<>>, subscribed |-> {}]
Ids(store) == DOMAIN store.channels
IsSubscribed(store, id) == id \in store.subscribed

Upsert(store, entry) ==
  LET channel == [entry EXCEPT !.subscribed = IsSubscribed(store, entry.id)]
  IN [store EXCEPT !.channels = (entry.id :> channel) @@ @]

\* The subscribed flag of Channel; Upsert sets it.
AsChannel(entry) == ("subscribed" :> FALSE) @@ entry

ApplyChannelList(store, entries) ==
  FoldLeft(LAMBDA s, entry : Upsert(s, AsChannel(entry)), store, entries)

(***************************************************************************)
(* The first channel in the order of ids, except the one named, that comes  *)
(* after "after" below "parent" is put after "new" instead.                 *)
(***************************************************************************)
Follower(channels, except, parent, after) ==
  {id \in DOMAIN channels \ {except} :
     channels[id].parentId = parent /\ channels[id].orderAfterId = after}

Relink(channels, except, parent, after, new) ==
  LET followers == Follower(channels, except, parent, after)
  IN IF followers = {} THEN channels
     ELSE [channels EXCEPT ![Min(followers)].orderAfterId = new]

ApplyChannelCreated(store, entry) ==
  LET inserted == IF entry.id \in Ids(store) THEN store
                  ELSE [store EXCEPT !.channels = Relink(@, entry.id, entry.parentId,
                                                         entry.orderAfterId, entry.id)]
  IN Upsert(inserted, AsChannel(entry))

(***************************************************************************)
(* Move takes the channel out of its chain and puts it in another, or       *)
(* throws before it has changed anything.                                   *)
(***************************************************************************)
MoveThrows(store, id, parent, after) ==
  /\ id \in Ids(store)
  /\ \/ after = id
     \/ parent # 0 /\ parent \notin Ids(store)
     \/ after # 0 /\ (after \notin Ids(store) \/ store.channels[after].parentId # parent)

\* A move that forgets to close the gap it leaves.
MutantLeavesGap(store, id, parent, after) ==
  IF id \notin Ids(store) THEN store
  ELSE LET opened == Relink(store.channels, id, parent, after, id)
       IN [store EXCEPT !.channels = [opened EXCEPT ![id].parentId = parent,
                                                    ![id].orderAfterId = after]]

Move(store, id, parent, after) ==
  IF id \notin Ids(store) THEN store
  ELSE LET old == store.channels[id]
           closed == Relink(store.channels, id, old.parentId, id, old.orderAfterId)
           opened == Relink(closed, id, parent, after, id)
       IN [store EXCEPT !.channels = [opened EXCEPT ![id].parentId = parent,
                                                    ![id].orderAfterId = after]]

Or(value, current) == IF value = NoValue THEN current ELSE value

EditPlace(store, entry) ==
  LET old == store.channels[entry.id]
  IN <<Or(entry.parentId, old.parentId), Or(entry.orderAfterId, old.orderAfterId)>>

Replaces(entry) == entry.parentId # NoValue \/ entry.orderAfterId # NoValue

ApplyChannelEditedThrows(store, entry) ==
  /\ entry.id \in Ids(store) /\ Replaces(entry)
  /\ LET place == EditPlace(store, entry) IN MoveThrows(store, entry.id, place[1], place[2])

ApplyChannelEdited(store, entry) ==
  IF entry.id \notin Ids(store) THEN store
  ELSE LET place == EditPlace(store, entry)
           moved == IF Replaces(entry) THEN Move(store, entry.id, place[1], place[2]) ELSE store
           Edit(channel) == [channel EXCEPT !.name = Or(entry.name, @),
                                            !.permanent = Or(entry.permanent, @),
                                            !.defaultChannel = Or(entry.defaultChannel, @),
                                            !.codec = Or(entry.codec, @),
                                            !.codecIsUnencrypted = Or(entry.codecIsUnencrypted, @)]
       IN [moved EXCEPT !.channels[entry.id] = Edit(@)]

SetSubscribed(store, id, subscribed) ==
  IF id = 0 THEN store
  ELSE [channels |-> [c \in Ids(store) |-> IF c = id THEN [store.channels[c] EXCEPT !.subscribed = subscribed]
                                           ELSE store.channels[c]],
        subscribed |-> IF subscribed THEN store.subscribed \cup {id} ELSE store.subscribed \ {id}]

ApplySubscription(store, ids, subscribed) ==
  FoldLeft(LAMBDA s, id : SetSubscribed(s, id, subscribed), store, ids)

RemoveChannel(store, id) ==
  [channels |->
     IF id \notin Ids(store) THEN store.channels
     ELSE LET removed == store.channels[id]
              Relinked(c) == IF c.parentId = removed.parentId /\ c.orderAfterId = id
                             THEN [c EXCEPT !.orderAfterId = removed.orderAfterId] ELSE c
          IN [c \in Ids(store) \ {id} |-> Relinked(store.channels[c])],
   subscribed |-> store.subscribed \ {id}]

(***************************************************************************)
(* OrderedChildren follows the chain from its first channel; it throws      *)
(* where no channel or more than one comes next.  Tree lists the channels   *)
(* depth first and throws when it cannot reach them all.                    *)
(***************************************************************************)
Children(store, parent) == {id \in Ids(store) : store.channels[id].parentId = parent}

OrderedChildrenThrows(store, parent) ==
  LET kids == Children(store, parent)
      After(id) == {k \in kids : store.channels[k].orderAfterId = id}
      chain[n \in Nat] == IF n = 0 THEN {0}
                          ELSE chain[n - 1] \cup UNION {After(id) : id \in chain[n - 1]}
  IN \/ \E id \in kids \cup {0} : Cardinality(After(id)) > 1
     \/ ~(kids \subseteq chain[Cardinality(kids)])

OrderedChildren(store, parent) ==
  LET kids == Children(store, parent)
      chain[n \in Nat] ==
        IF n = 0 THEN <<>>
        ELSE LET before == chain[n - 1]
                 last == IF before = <<>> THEN 0 ELSE Last(before)
             IN Append(before, CHOOSE k \in kids : store.channels[k].orderAfterId = last)
  IN chain[Cardinality(kids)]

TreeEntries(store) ==
  LET below[parent \in Ids(store) \cup {0}, depth \in Nat] ==
        IF depth > Cardinality(Ids(store)) THEN <<>>
        ELSE LET kids == OrderedChildren(store, parent)
             IN FlattenSeq([i \in DOMAIN kids |->
                  <<[id |-> kids[i], depth |-> depth]>> \o below[kids[i], depth + 1]])
  IN below[0, 0]

TreeThrows(store) ==
  \/ \E id \in Ids(store) : store.channels[id].parentId \notin Ids(store) \cup {0}
  \/ \E parent \in Ids(store) \cup {0} : OrderedChildrenThrows(store, parent)
  \/ Len(TreeEntries(store)) # Cardinality(Ids(store))

=============================================================================
