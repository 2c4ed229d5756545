---------------------------- MODULE StorageProofs ----------------------------
(***************************************************************************)
(* Proofs about the files of the configuration directory, for any number   *)
(* of clients, saves, identities, failures, kills and power losses.        *)
(***************************************************************************)
EXTENDS Storage, FiniteSetTheorems, TLAPS

Texts == Settings \cup {"default", "broken", "quiet", "identity", "none", "missing"}
Value == [key : Nat, level : Nat, text : Texts]
FileState == [value : Value, whole : BOOLEAN, synced : BOOLEAN]
Places == {"off", "setup", "prompting", "configure", "started", "idle", "raising"}
Client == Processes \cup {"nobody"}
TempState == [data : FileState, open : Client, by : Client]
Process ==
    [at : Places, config : Texts, seen : Value, search : Value,
     op : {"none", "setup", "update", "user", "replace", "export", "raise"},
     file : Files \cup {"none"}, data : FileState,
     step : {"none", "create", "write", "sync", "install", "discard"}]

StorageTypes ==
    /\ platform \in {"posix", "win32"}
    /\ disk \in [Files -> FileState]
    /\ temp \in [Temporaries -> TempState]
    /\ undo \in [file : Files \cup {"none"}, was : FileState]
    /\ proc \in [Processes -> Process]
    /\ keys \in Nat /\ crossed \in SUBSET Files /\ overtaken \in SUBSET Processes
    /\ left \in [saves : Nat, faults : Nat]

\* What a process saves, and while it is where.
SaveKind(r) ==
    \/ r.op = "setup" /\ r.file = "identity" /\ r.at = "prompting"
    \/ r.op = "setup" /\ r.file = "config" /\ r.at = "configure"
    \/ r.op = "update" /\ r.file = "config" /\ r.at = "idle"
    \/ r.op = "user" /\ r.file = "user" /\ r.at = "idle"
    \/ r.op = "export" /\ r.file = "pem" /\ r.at = "idle"
    \/ r.op = "replace" /\ r.file = "identity" /\ r.at = "idle"
    \/ /\ r.op = "raise" /\ r.file = "identity" /\ r.at \in {"idle", "raising"}
       /\ r.data.value.key = r.seen.key /\ r.data.value.level > r.seen.level

\* A process that saves has all of the data, and saves an identity only if
\* no search is running; a search is for a higher level of what was seen.
Sound(r) ==
    /\ r.at = "off" => r = NotRunning
    /\ r.at = "prompting" => r.seen = NoIdentity
    /\ r.step # "none" =>
         /\ SaveKind(r)
         /\ r.data.whole
         /\ r.file = "identity" => r.search = NoIdentity
    /\ r.search # NoIdentity =>
         /\ r.at \in {"idle", "raising"}
         /\ r.search.key = r.seen.key /\ r.search.level > r.seen.level

\* Whoever may save a configuration has an identity.
Settled == {"configure", "started", "idle"}

ProcessInv ==
    \A p \in Processes : Sound(proc[p]) /\ (proc[p].at \in Settled => Exists("identity"))

\* What process r = proc[p] may rely on in its temporary file t.  On Windows
\* the clients share the name of it: once p has closed it, it may be written
\* by another.
Owns(p, r, t) ==
    /\ r.step \in {"write", "sync"} => t.open = p /\ t.by = p
    /\ r.step = "sync" => t.data = r.data
    /\ r.step = "install" /\ t.by = p => t.data = [r.data EXCEPT !.synced = TRUE]
    /\ r.step = "install" /\ platform = "posix" => t.open = p /\ t.by = p

TemporaryInv == \A p \in Processes : Owns(p, proc[p], temp[Mine(p)])

\* A process that no other client has overtaken goes by what is on disk.
Current(r) ==
    /\ r.at = "prompting" => ~Exists("identity")
    /\ r.search # NoIdentity \/ (r.step # "none" /\ r.op = "raise") =>
         disk["identity"].value = r.seen

OvertakenInv == \A p \in Processes \ overtaken : Current(proc[p])

\* What a path names, or would after a power loss, is all there, unless one
\* client installed what another one wrote.
Good(file) == file.whole /\ file.synced

DiskInv ==
    /\ \A f \in Files \ crossed : Good(disk[f])
    /\ platform = "posix" => crossed = {}
    /\ undo.file \in Files => platform = "posix" /\ Good(undo.was)
    /\ Exists("config") => Exists("identity")
    /\ undo.file = "config" => Exists("identity")
    /\ undo.file = "identity" /\ undo.was.value = Missing.value =>
         /\ ~Exists("config")
         /\ \A p \in Processes : ~(proc[p].step = "install" /\ proc[p].file = "config")

StorageInv == StorageTypes /\ ProcessInv /\ TemporaryInv /\ OvertakenInv /\ DiskInv

-----------------------------------------------------------------------------
\* The values, files and processes the actions make have their types.
LEMMA StorageConstants ==
    /\ Missing \in FileState /\ Missing.whole /\ Missing.synced
    /\ NoIdentity \in Value /\ NoIdentity.text = "none"
    /\ NotRunning \in Process /\ Sound(NotRunning)
    /\ NotRunning.at = "off" /\ NotRunning.step = "none" /\ NotRunning.search = NoIdentity
    /\ NoTemp \in TempState /\ NoTemp.by = "nobody"
    /\ NoUndo \in [file : Files \cup {"none"}, was : FileState] /\ NoUndo.file = "none"
<1>1. NoIdentity \in Value /\ NoIdentity.text = "none" /\ Text("missing") \in Value
  BY DEF NoIdentity, Text, Value, Texts
<1>2. Missing \in FileState /\ Missing.whole /\ Missing.synced
  BY <1>1 DEF Missing, FileState
<1> HIDE DEF Missing, NoIdentity
<1>3. NotRunning \in Process
  BY <1>1, <1>2 DEF NotRunning, Process, Places, Texts
<1>4. NotRunning.at = "off" /\ NotRunning.step = "none" /\ NotRunning.search = NoIdentity
  BY DEF NotRunning
<1>5. Sound(NotRunning)
  BY <1>4 DEF Sound
<1>6. NoTemp \in TempState /\ NoTemp.by = "nobody"
  BY <1>2 DEF NoTemp, TempState, Client
<1>7. NoUndo \in [file : Files \cup {"none"}, was : FileState] /\ NoUndo.file = "none"
  BY <1>2 DEF NoUndo
<1> QED BY <1>1, <1>2, <1>3, <1>4, <1>5, <1>6, <1>7

LEMMA FileIsWhole ==
    ASSUME NEW v \in Value
    PROVE  File(v) \in FileState /\ File(v).value = v /\ File(v).whole
BY DEF File, FileState

LEMMA TextIsValue ==
    ASSUME NEW t \in Texts
    PROVE  Text(t) \in Value
BY DEF Text, Value

LEMMA IdentityIsValue ==
    ASSUME NEW key \in Nat, NEW level \in Nat
    PROVE  /\ NewIdentity(key, level) \in Value
           /\ NewIdentity(key, level).key = key /\ NewIdentity(key, level).level = level
           /\ NewIdentity(key, level).text = "identity"
           /\ NewIdentity(key, level) # NoIdentity
<1>1. /\ NewIdentity(key, level) \in Value
      /\ NewIdentity(key, level).key = key /\ NewIdentity(key, level).level = level
      /\ NewIdentity(key, level).text = "identity"
  BY DEF NewIdentity, Value, Texts
<1> QED BY <1>1, StorageConstants

LEMMA SavingIs ==
    ASSUME StorageTypes, NEW p \in Processes, NEW op \in {"setup", "update", "user", "replace", "export", "raise"},
           NEW f \in Files, NEW v \in Value
    PROVE  /\ Saving(p, op, f, v) \in Process
           /\ Saving(p, op, f, v).at = proc[p].at /\ Saving(p, op, f, v).config = proc[p].config
           /\ Saving(p, op, f, v).seen = proc[p].seen /\ Saving(p, op, f, v).search = proc[p].search
           /\ Saving(p, op, f, v).op = op /\ Saving(p, op, f, v).file = f
           /\ Saving(p, op, f, v).data = File(v) /\ Saving(p, op, f, v).step = "create"
<1>1. proc[p] \in Process /\ File(v) \in FileState
  BY FileIsWhole DEF StorageTypes
<1> HIDE DEF File
<1> QED BY <1>1 DEF Saving, Process

\* A client that is not running goes by nothing.
LEMMA NotRunningCurrent == Current(NotRunning)
BY StorageConstants DEF Current

\* On POSIX two processes at work have two temporary files.
LEMMA TemporariesApart ==
    ASSUME NEW p \in Processes, NEW q \in Processes, p # q, Mine(p) = Mine(q)
    PROVE  platform # "posix"
BY DEF Mine, Temporary

\* What process p may do to a temporary file without taking from another
\* process what that one relies on.
Takes(p, old, new) ==
    /\ old.open \in {p, "nobody"}
    /\ new.by \in {p, "nobody"} \/ (new.by = old.by /\ new.data = old.data)

LEMMA OthersOwn ==
    ASSUME StorageTypes, TemporaryInv, NEW p \in Processes, NEW q \in Processes, p # q, NEW new,
           temp[Mine(q)] = new \/ (Mine(q) = Mine(p) /\ Takes(p, temp[Mine(p)], new))
    PROVE  Owns(q, proc[q], new)
<1>1. Owns(q, proc[q], temp[Mine(q)]) /\ q # "nobody"
  BY StorageAssumption DEF TemporaryInv
<1>2. CASE Mine(q) = Mine(p) /\ Takes(p, temp[Mine(p)], new)
  <2>1. platform # "posix" /\ proc[q].step \notin {"write", "sync"}
    BY <1>1, <1>2, TemporariesApart DEF Takes, Owns
  <2>2. new.by = q => temp[Mine(q)].by = q /\ new.data = temp[Mine(q)].data
    BY <1>1, <1>2 DEF Takes
  <2> QED BY <1>1, <2>1, <2>2 DEF Owns
<1> QED BY <1>1, <1>2

LEMMA MineIsTemporary ==
    ASSUME StorageTypes, NEW p \in Processes, proc[p].file # "none"
    PROVE  Mine(p) \in Temporaries
<1>1. proc[p].file \in Files
  BY DEF StorageTypes, Process
<1> QED BY <1>1 DEF Mine, Temporary, Temporaries

-----------------------------------------------------------------------------
\* An operation of process p that touches no file: it may begin a save.
Local(p) ==
    /\ UNCHANGED <<platform, disk, temp, undo, crossed>>
    /\ overtaken' \in {overtaken, overtaken \ {p}}
    /\ keys' \in Nat /\ left' \in [saves : Nat, faults : Nat]
    /\ proc[p].step = "none"
    /\ \E r \in Process :
         /\ proc' = [proc EXCEPT ![p] = r]
         /\ Sound(r) /\ r.step \in {"none", "create"}
         /\ r.at \in Settled => Exists("identity")
         /\ p \notin overtaken' => Current(r)

LEMMA LocalKeeps ==
    ASSUME StorageInv, NEW p \in Processes, Local(p)
    PROVE  StorageInv'
<1>1. PICK r \in Process :
        /\ proc' = [proc EXCEPT ![p] = r]
        /\ Sound(r) /\ r.step \in {"none", "create"}
        /\ r.at \in Settled => Exists("identity")
        /\ p \notin overtaken' => Current(r)
  BY DEF Local
<1>2. /\ StorageTypes /\ UNCHANGED <<platform, disk, temp, undo, crossed>>
      /\ overtaken' \in {overtaken, overtaken \ {p}}
      /\ keys' \in Nat /\ left' \in [saves : Nat, faults : Nat]
  BY DEF Local, StorageInv
<1>3. proc \in [Processes -> Process]
  BY <1>2 DEF StorageTypes
<1>4. proc'[p] = r /\ (\A q \in Processes : q # p => proc'[q] = proc[q]) /\ proc' \in [Processes -> Process]
  BY <1>1, <1>3
<1>5. StorageTypes'
  BY <1>2, <1>4 DEF StorageTypes
<1>6. ProcessInv'
  BY <1>1, <1>2, <1>4 DEF StorageInv, ProcessInv, Exists
<1>7. TemporaryInv'
  <2> SUFFICES ASSUME NEW q \in Processes, q # p
               PROVE  proc'[q] = proc[q] /\ Mine(q)' = Mine(q)
    BY <1>1, <1>2, <1>4 DEF TemporaryInv, Owns, StorageInv
  <2> QED BY <1>2, <1>4 DEF Mine, Temporary
<1>8. OvertakenInv'
  BY <1>1, <1>2, <1>4 DEF StorageInv, OvertakenInv, Current, Exists
<1>9. DiskInv'
  <2>1. \A q \in Processes : proc'[q].step = "install" => proc'[q] = proc[q]
    BY <1>1, <1>4
  <2> QED BY <1>2, <2>1 DEF DiskInv, StorageInv, Exists, Good
<1> QED BY <1>5, <1>6, <1>7, <1>8, <1>9 DEF StorageInv

\* A path other than the identity's is removed or edited by hand.
Edited ==
    /\ UNCHANGED <<platform, temp, proc, keys, crossed, overtaken>>
    /\ left' \in [saves : Nat, faults : Nat]
    /\ \E f \in {"user", "config"}, file \in FileState :
         /\ disk' = [disk EXCEPT ![f] = file]
         /\ file.whole /\ file.synced
         /\ f = "config" => Exists("config")
    /\ undo' \in {undo, NoUndo}

LEMMA EditedKeeps ==
    ASSUME StorageInv, Edited
    PROVE  StorageInv'
<1>1. PICK f \in {"user", "config"}, file \in FileState :
        /\ disk' = [disk EXCEPT ![f] = file]
        /\ file.whole /\ file.synced
        /\ f = "config" => Exists("config")
  BY DEF Edited
<1>2. /\ StorageTypes /\ UNCHANGED <<platform, temp, proc, keys, crossed, overtaken>>
      /\ left' \in [saves : Nat, faults : Nat]
      /\ undo' \in {undo, NoUndo}
  BY DEF Edited, StorageInv
<1>3. disk \in [Files -> FileState] /\ f \in Files /\ "identity" \in Files
  BY <1>2 DEF StorageTypes, Files
<1>4. /\ disk'[f] = file /\ \A g \in Files : g # f => disk'[g] = disk[g]
      /\ disk' \in [Files -> FileState] /\ disk'["identity"] = disk["identity"]
  BY <1>1, <1>3
<1>5. StorageTypes'
  BY <1>2, <1>4, StorageConstants DEF StorageTypes
<1>6. Exists("identity")' = Exists("identity")
  BY <1>4 DEF Exists
<1>7. ProcessInv' /\ TemporaryInv' /\ OvertakenInv'
  BY <1>2, <1>4, <1>6
  DEF StorageInv, ProcessInv, TemporaryInv, Owns, OvertakenInv, Current, Mine, Temporary
<1>8. DiskInv'
  <2>1. \A g \in Files \ crossed : Good(disk'[g])
    BY <1>1, <1>4 DEF StorageInv, DiskInv, Good
  <2>2. Exists("config")' => Exists("config")
    BY <1>1, <1>4 DEF Exists, Files
  <2>3. undo' = undo \/ undo'.file = "none"
    BY <1>2, StorageConstants
  <2>4. "none" \notin Files
    BY DEF Files
  <2> QED BY <1>2, <1>6, <2>1, <2>2, <2>3, <2>4 DEF StorageInv, DiskInv, Good
<1> QED BY <1>5, <1>7, <1>8 DEF StorageInv

\* The levels a search may aim at, and the keys an identity may have.
LEMMA KeysAndLevels ==
    ASSUME StorageTypes
    PROVE  /\ Generated \subseteq Nat /\ Imported \subseteq Nat
           /\ disk["identity"].value.key \in Nat /\ disk["identity"].value.level \in Nat
           /\ disk["identity"].value \in Value
           /\ MaxLevel \in Nat /\ DefaultSecurityLevel \in Nat /\ 0 \in Nat
           /\ 0 .. MaxLevel \subseteq Nat
<1>1. disk["identity"] \in FileState /\ disk["pem"] \in FileState /\ keys \in Nat
  BY DEF StorageTypes, Files
<1>2. disk["identity"].value \in Value /\ disk["pem"].value \in Value
  BY <1>1 DEF FileState
<1>3. disk["identity"].value.key \in Nat /\ disk["identity"].value.level \in Nat /\ disk["pem"].value.key \in Nat
  BY <1>2 DEF Value
<1>4. keys + 1 \in Nat
  BY <1>1
<1>5. MaxLevel \in Nat /\ DefaultSecurityLevel \in Nat
  BY StorageAssumption
<1> QED BY <1>2, <1>3, <1>4, <1>5 DEF Generated, Imported

\* Process p begins a save, with c for its configuration.
Begins(p, op, f, v, c) == [Saving(p, op, f, v) EXCEPT !.config = c]

LEMMA SavingConfigured ==
    ASSUME StorageTypes, NEW p \in Processes, NEW op \in {"setup", "update", "user", "replace", "export", "raise"},
           NEW f \in Files, NEW v \in Value
    PROVE  Saving(p, op, f, v) = Begins(p, op, f, v, proc[p].config)
<1> DEFINE s == Saving(p, op, f, v)
<1>1. s \in Process /\ s.config = proc[p].config
  BY SavingIs
<1> HIDE DEF s
<1>2. s = [s EXCEPT !.config = s.config]
  BY <1>1 DEF Process
<1> QED BY <1>1, <1>2 DEF s, Begins

LEMMA SaveIsLocal ==
    ASSUME StorageInv, NEW p \in Processes, NEW op \in {"setup", "update", "user", "replace", "export"},
           NEW f \in Files, NEW v \in Value, NEW c \in Texts,
           UNCHANGED <<platform, disk, temp, undo, crossed, overtaken>>,
           keys' \in Nat, left' \in [saves : Nat, faults : Nat],
           proc[p].step = "none", proc' = [proc EXCEPT ![p] = Begins(p, op, f, v, c)],
           \/ op = "setup" /\ f = "identity" /\ proc[p].at = "prompting"
           \/ op = "setup" /\ f = "config" /\ proc[p].at = "configure"
           \/ op = "update" /\ f = "config" /\ proc[p].at = "idle"
           \/ op = "user" /\ f = "user" /\ proc[p].at = "idle"
           \/ op = "export" /\ f = "pem" /\ proc[p].at = "idle"
           \/ op = "replace" /\ f = "identity" /\ proc[p].at = "idle",
           f = "identity" => proc[p].search = NoIdentity
    PROVE  Local(p)
<1> DEFINE r0 == proc[p]
           s == Saving(p, op, f, v)
           r == [s EXCEPT !.config = c]
<1>1. /\ StorageTypes /\ r0 \in Process /\ Sound(r0) /\ (r0.at \in Settled => Exists("identity"))
      /\ p \notin overtaken => Current(r0)
  BY DEF StorageInv, StorageTypes, ProcessInv, OvertakenInv
<1>2. /\ s \in Process /\ s.at = r0.at /\ s.seen = r0.seen /\ s.search = r0.search
      /\ s.op = op /\ s.file = f /\ s.data = File(v) /\ s.step = "create"
  BY <1>1, SavingIs
<1> HIDE DEF s
<1>3. /\ r \in Process /\ r.at = r0.at /\ r.seen = r0.seen /\ r.search = r0.search
      /\ r.op = op /\ r.file = f /\ r.data = File(v) /\ r.step = "create"
  BY <1>2 DEF Process
<1>4. proc' = [proc EXCEPT ![p] = r]
  BY DEF Begins, s
<1> HIDE DEF r
<1>5. r.data.whole /\ r.data.value = v
  BY <1>3, FileIsWhole
<1>6. SaveKind(r) /\ r.at # "off"
  BY <1>3 DEF SaveKind
<1>7. Sound(r)
  BY <1>1, <1>3, <1>5, <1>6 DEF Sound
<1>8. p \notin overtaken' => Current(r)
  BY <1>1, <1>3 DEF Current
<1> QED BY <1>1, <1>3, <1>4, <1>6, <1>7, <1>8 DEF Local

\* Starting, setting up and ending are local ...
LEMMA StartIsLocal ==
    ASSUME StorageInv, NEW p \in Processes,
           Start(p) \/ Started(p) \/ SetupIdentity(p) \/ SetupCreates(p) \/ SetupConfigures(p)
             \/ PromptEnds(p) \/ Quit(p)
    PROVE  Local(p)
<1> DEFINE r0 == proc[p]
<1>0. /\ StorageTypes /\ r0 \in Process /\ Sound(r0) /\ (r0.at \in Settled => Exists("identity"))
      /\ keys \in Nat /\ left \in [saves : Nat, faults : Nat]
  BY DEF StorageInv, StorageTypes, ProcessInv
<1>1. /\ r0.at = "off" => r0.step = "none"
      /\ r0.at \in {"setup", "started"} => r0.step = "none"
      /\ r0.search # NoIdentity => r0.at \in {"idle", "raising"}
  BY <1>0, StorageConstants DEF Sound, SaveKind
<1>2. ASSUME UNCHANGED <<platform, disk, temp, undo, keys, crossed, left>>, r0.step = "none",
             overtaken' \in {overtaken, overtaken \ {p}}, proc' = [proc EXCEPT ![p] = NotRunning]
      PROVE  Local(p)
  <2>1. NotRunning.at \notin Settled
    BY StorageConstants DEF Settled
  <2> QED BY <1>0, <1>2, <2>1, StorageConstants, NotRunningCurrent DEF Local
<1>3. CASE Start(p)
  <2>1. UNCHANGED <<platform, disk, temp, undo, keys, crossed, overtaken, left>> /\ r0.at = "off"
    BY <1>3 DEF Start
  <2>2. CASE ~Exists("config") /\ proc' = [proc EXCEPT ![p].at = "setup"]
    <3> DEFINE r == [r0 EXCEPT !.at = "setup"]
    <3>1. r \in Process
      BY <1>0 DEF Process, Places
    <3>2. r.at = "setup" /\ r.step = "none" /\ r.search = NoIdentity
      BY <1>0, <1>1, <2>1 DEF Process
    <3>3. proc' = [proc EXCEPT ![p] = r]
      BY <2>2
    <3> HIDE DEF r
    <3>4. Sound(r) /\ Current(r) /\ r.at \notin Settled
      BY <3>2 DEF Sound, Current, Settled
    <3> QED BY <1>0, <1>1, <2>1, <3>1, <3>2, <3>3, <3>4 DEF Local
  <2>3. ASSUME Exists("config"), NEW c \in Parse(disk["config"]),
               proc' = [proc EXCEPT ![p].at = "started", ![p].config = c]
        PROVE  Local(p)
    <3> DEFINE r == [r0 EXCEPT !.at = "started", !.config = c]
    <3>0. c \in Texts
      <4>1. disk["config"].value.text \in Texts
        BY <1>0 DEF StorageTypes, Files, FileState, Value
      <4> QED BY <4>1 DEF Parse, Texts
    <3>1. r \in Process
      BY <1>0, <3>0 DEF Process, Places
    <3>2. r.at = "started" /\ r.step = "none" /\ r.search = NoIdentity
      BY <1>0, <1>1, <2>1 DEF Process
    <3>3. proc' = [proc EXCEPT ![p] = r]
      BY <2>3
    <3> HIDE DEF r
    <3>4. Sound(r) /\ Current(r)
      BY <3>2 DEF Sound, Current
    <3>5. Exists("identity")
      BY <2>3 DEF StorageInv, DiskInv
    <3> QED BY <1>0, <1>1, <2>1, <3>1, <3>2, <3>3, <3>4, <3>5 DEF Local
  <2> QED BY <1>3, <2>2, <2>3 DEF Start
<1>4. CASE Started(p)
  <2>1. UNCHANGED <<platform, disk, temp, undo, keys, crossed, overtaken, left>> /\ r0.at = "started"
    BY <1>4 DEF Started
  <2>2. ASSUME NEW s \in Value, proc' = [proc EXCEPT ![p] = [r0 EXCEPT !.at = "idle", !.seen = s]]
        PROVE  Local(p)
    <3> DEFINE r == [r0 EXCEPT !.at = "idle", !.seen = s]
    <3>1. r \in Process
      BY <1>0 DEF Process, Places
    <3>2. r.at = "idle" /\ r.step = "none" /\ r.search = NoIdentity
      BY <1>0, <1>1, <2>1 DEF Process
    <3>3. proc' = [proc EXCEPT ![p] = r]
      BY <2>2
    <3> HIDE DEF r
    <3>4. Sound(r) /\ Current(r)
      BY <3>2 DEF Sound, Current
    <3>5. Exists("identity")
      BY <1>0, <2>1 DEF Settled
    <3> QED BY <1>0, <1>1, <2>1, <3>1, <3>2, <3>3, <3>4, <3>5 DEF Local
  <2>3. CASE proc' = [proc EXCEPT ![p] = [r0 EXCEPT !.at = "idle"]]
    <3>1. r0.seen \in Value /\ [r0 EXCEPT !.at = "idle"] = [r0 EXCEPT !.at = "idle", !.seen = r0.seen]
      BY <1>0 DEF Process
    <3> QED BY <2>2, <2>3, <3>1
  <2>4. CASE proc' = [proc EXCEPT ![p] = NotRunning]
    BY <1>1, <1>2, <2>1, <2>4
  <2> QED BY <1>0, <1>4, <2>2, <2>3, <2>4, KeysAndLevels DEF Started
<1>5. CASE SetupIdentity(p)
  <2>1. /\ UNCHANGED <<platform, disk, temp, undo, keys, crossed, left>> /\ r0.at = "setup"
        /\ overtaken' = overtaken \ {p}
    BY <1>5 DEF SetupIdentity
  <2>2. ASSUME NEW s \in Value, NEW place \in {"prompting", "configure"},
               place = "configure" => Exists("identity"), place = "prompting" => s = NoIdentity /\ ~Exists("identity"),
               proc' = [proc EXCEPT ![p] = [r0 EXCEPT !.at = place, !.seen = s]]
        PROVE  Local(p)
    <3> DEFINE r == [r0 EXCEPT !.at = place, !.seen = s]
    <3>1. r \in Process
      BY <1>0 DEF Process, Places
    <3>2. r.at = place /\ r.step = "none" /\ r.search = NoIdentity /\ r.seen = s
      BY <1>0, <1>1, <2>1 DEF Process
    <3>3. proc' = [proc EXCEPT ![p] = r]
      BY <2>2
    <3> HIDE DEF r
    <3>4. Sound(r) /\ Current(r)
      BY <2>2, <3>2 DEF Sound, Current
    <3>5. r.at \in Settled => Exists("identity")
      BY <2>2, <3>2 DEF Settled
    <3> QED BY <1>0, <1>1, <2>1, <3>1, <3>2, <3>3, <3>4, <3>5 DEF Local
  <2>3. CASE proc' = [proc EXCEPT ![p] = NotRunning]
    BY <1>1, <1>2, <2>1, <2>3
  <2> QED BY <1>0, <1>5, <2>2, <2>3, KeysAndLevels, StorageConstants DEF SetupIdentity, LoadsIdentity
<1>6. CASE SetupCreates(p)
  <2>1. PICK key \in Generated \cup Imported, level \in {DefaultSecurityLevel} \cup 0 .. MaxLevel :
          /\ keys' = IF key \in Generated THEN key ELSE keys
          /\ proc' = [proc EXCEPT ![p] = Saving(p, "setup", "identity", NewIdentity(key, level))]
    BY <1>6 DEF SetupCreates
  <2>2. /\ UNCHANGED <<platform, disk, temp, undo, crossed, overtaken, left>>
        /\ r0.at = "prompting" /\ r0.step = "none"
    BY <1>6 DEF SetupCreates
  <2>3. NewIdentity(key, level) \in Value /\ keys' \in Nat
    <3>1. key \in Nat /\ level \in Nat
      BY <1>0, <2>1, KeysAndLevels
    <3> QED BY <1>0, <2>1, <3>1, IdentityIsValue
  <2>4. proc' = [proc EXCEPT ![p] = Begins(p, "setup", "identity", NewIdentity(key, level), r0.config)]
    BY <1>0, <2>1, <2>3, SavingConfigured DEF Files
  <2>5. r0.search = NoIdentity
    BY <1>1, <2>2
  <2> QED BY <1>0, <2>2, <2>3, <2>4, <2>5, SaveIsLocal DEF Files, Process
<1>7. CASE SetupConfigures(p)
  <2>1. /\ UNCHANGED <<platform, disk, temp, undo, keys, crossed, overtaken, left>>
        /\ r0.at = "configure" /\ r0.step = "none"
        /\ proc' = [proc EXCEPT ![p] = Begins(p, "setup", "config", Text("default"), "default")]
    BY <1>7 DEF SetupConfigures, Begins
  <2>2. "default" \in Texts /\ Text("default") \in Value
    BY TextIsValue DEF Texts
  <2> QED BY <1>0, <2>1, <2>2, SaveIsLocal DEF Files
<1>8. CASE PromptEnds(p)
  BY <1>2, <1>8 DEF PromptEnds
<1>9. CASE Quit(p)
  BY <1>2, <1>9 DEF Quit, Idle
<1> QED BY <1>3, <1>4, <1>5, <1>6, <1>7, <1>8, <1>9

\* ... and so is what a running client does, but for the removal of a file.
LEMMA RunningIsLocal ==
    ASSUME StorageInv, NEW p \in Processes,
           Update(p) \/ SaveUser(p) \/ Replace(p) \/ Export(p)
    PROVE  Local(p) \/ Edited
<1> DEFINE r0 == proc[p]
<1>0. /\ StorageTypes /\ r0 \in Process /\ Sound(r0) /\ (r0.at \in Settled => Exists("identity"))
      /\ keys \in Nat /\ left \in [saves : Nat, faults : Nat] /\ r0.config \in Texts
  BY DEF StorageInv, StorageTypes, ProcessInv, Process
<1>1. r0.at = "idle" /\ r0.step = "none"
  BY DEF Update, SaveUser, Replace, Export, Idle
<1>2. left' \in [saves : Nat, faults : Nat]
  <2>1. left.saves > 0 /\ left' = [left EXCEPT !.saves = left.saves - 1]
    BY DEF Update, SaveUser, Replace, Export, Asked
  <2>2. left.saves - 1 \in Nat
    BY <1>0, <2>1
  <2> QED BY <1>0, <2>1, <2>2
<1>3. CASE Update(p)
  <2>1. PICK c \in Settings : proc' = [proc EXCEPT ![p] = Begins(p, "update", "config", Text(c), c)]
    BY <1>3 DEF Update, Begins
  <2>2. c \in Texts /\ Text(c) \in Value
    BY TextIsValue DEF Texts
  <2>3. UNCHANGED <<platform, disk, temp, undo, keys, crossed, overtaken>>
    BY <1>3 DEF Update
  <2> QED BY <1>0, <1>1, <1>2, <2>1, <2>2, <2>3, SaveIsLocal DEF Files
<1>4. CASE SaveUser(p)
  <2>1. UNCHANGED <<platform, temp, undo, keys, crossed, overtaken>>
    BY <1>4 DEF SaveUser
  <2>2. CASE disk' = disk /\ proc' = [proc EXCEPT ![p] = Saving(p, "user", "user", Text("quiet"))]
    <3> DEFINE v == Text("quiet")
    <3>1. v \in Value
      BY TextIsValue DEF Texts
    <3> HIDE DEF v
    <3>2. proc' = [proc EXCEPT ![p] = Begins(p, "user", "user", v, r0.config)]
      BY <1>0, <2>2, <3>1, SavingConfigured DEF Files, v
    <3>3. disk' = disk /\ "user" \in Files /\ keys' = keys
          /\ UNCHANGED <<platform, disk, temp, undo, crossed, overtaken>>
      BY <2>1, <2>2 DEF Files
    <3> QED BY <1>0, <1>1, <1>2, <3>1, <3>2, <3>3, SaveIsLocal
  <2>3. CASE disk' = [disk EXCEPT !["user"] = Missing] /\ proc' = proc
    BY <1>2, <2>1, <2>3, StorageConstants DEF Edited
  <2> QED BY <1>4, <2>2, <2>3 DEF SaveUser
<1>5. CASE Replace(p)
  <2>1. PICK key \in Generated \cup Imported :
          /\ keys' = IF key \in Generated THEN key ELSE keys
          /\ proc' = [proc EXCEPT ![p] =
                         Saving(p, "replace", "identity", NewIdentity(key, DefaultSecurityLevel))]
    BY <1>5 DEF Replace, Replacements
  <2>2. UNCHANGED <<platform, disk, temp, undo, crossed, overtaken>> /\ r0.search = NoIdentity
    BY <1>5 DEF Replace, MayReplace
  <2> DEFINE v == NewIdentity(key, DefaultSecurityLevel)
  <2>3. v \in Value /\ keys' \in Nat
    <3>1. key \in Nat /\ DefaultSecurityLevel \in Nat
      BY <1>0, <2>1, KeysAndLevels
    <3> QED BY <1>0, <2>1, <3>1, IdentityIsValue
  <2> HIDE DEF v
  <2>4. proc' = [proc EXCEPT ![p] = Begins(p, "replace", "identity", v, r0.config)]
    BY <1>0, <2>1, <2>3, SavingConfigured DEF Files, v
  <2> QED BY <1>0, <1>1, <1>2, <2>2, <2>3, <2>4, SaveIsLocal DEF Files
<1>6. CASE Export(p)
  <2> DEFINE v == NewIdentity(disk["identity"].value.key, 0)
  <2>1. /\ UNCHANGED <<platform, disk, temp, undo, keys, crossed, overtaken>>
        /\ proc' = [proc EXCEPT ![p] = Saving(p, "export", "pem", v)]
    BY <1>6 DEF Export
  <2>2. v \in Value
    BY <1>0, KeysAndLevels, IdentityIsValue
  <2> HIDE DEF v
  <2>3. proc' = [proc EXCEPT ![p] = Begins(p, "export", "pem", v, r0.config)]
    BY <1>0, <2>1, <2>2, SavingConfigured DEF Files
  <2> QED BY <1>0, <1>1, <1>2, <2>1, <2>2, <2>3, SaveIsLocal DEF Files
<1> QED BY <1>3, <1>4, <1>5, <1>6

\* A search remembers the identity it started from.
LEMMA SearchIsLocal ==
    ASSUME StorageInv, NEW p \in Processes,
           StartSearch(p) \/ IncreaseSecurityLevel(p) \/ SearchFound(p) \/ SearchStopped(p)
    PROVE  Local(p)
<1> DEFINE r0 == proc[p]
<1>0. /\ StorageTypes /\ r0 \in Process /\ Sound(r0) /\ (r0.at \in Settled => Exists("identity"))
      /\ keys \in Nat /\ left \in [saves : Nat, faults : Nat] /\ r0.config \in Texts
      /\ p \notin overtaken => Current(r0)
  BY DEF StorageInv, StorageTypes, ProcessInv, OvertakenInv, Process
<1>1. r0.at = "off" => r0 = NotRunning /\ r0.step = "none"
  BY <1>0, StorageConstants DEF Sound
<1>2. ASSUME NEW place \in {"idle", "raising"}, Searches(p, place), r0.step = "none",
             place = "idle" => r0.at = "idle"
      PROVE  Local(p)
  <2> DEFINE old == disk["identity"].value
  <2>1. PICK target \in (old.level + 1) .. MaxLevel :
          proc' = [proc EXCEPT ![p].at = place, ![p].search = NewIdentity(old.key, target), ![p].seen = old]
    BY <1>2 DEF Searches
  <2>2. UNCHANGED <<platform, disk, temp, undo, keys, crossed, left>> /\ overtaken' = overtaken \ {p}
    BY <1>2 DEF Searches
  <2> DEFINE new == NewIdentity(old.key, target)
             r == [r0 EXCEPT !.at = place, !.search = new, !.seen = old]
  <2>3. /\ old \in Value /\ old.key \in Nat /\ old.level \in Nat /\ target \in Nat /\ target > old.level
    <3>1. old \in Value /\ old.key \in Nat /\ old.level \in Nat /\ MaxLevel \in Nat
      BY <1>0, KeysAndLevels
    <3> QED BY <3>1
  <2>4. new \in Value /\ new.key = old.key /\ new.level = target
    BY <2>3, IdentityIsValue
  <2>5. proc' = [proc EXCEPT ![p] = r]
    BY <2>1
  <2> HIDE DEF new, old
  <2>6. r \in Process
    BY <1>0, <2>3, <2>4 DEF Process, Places
  <2>7. r.at = place /\ r.search = new /\ r.seen = old /\ r.step = "none"
    BY <1>0, <1>2 DEF Process
  <2> HIDE DEF r
  <2>8. Sound(r) /\ Current(r)
    BY <2>3, <2>4, <2>7 DEF Sound, Current, old
  <2>9. r.at \in Settled => Exists("identity")
    BY <1>0, <1>2, <2>7 DEF Settled
  <2> QED BY <1>0, <1>2, <2>2, <2>5, <2>6, <2>7, <2>8, <2>9 DEF Local
<1>3. CASE StartSearch(p)
  BY <1>2, <1>3 DEF StartSearch, Idle
<1>4. CASE IncreaseSecurityLevel(p)
  BY <1>1, <1>2, <1>4 DEF IncreaseSecurityLevel
<1>5. CASE SearchFound(p)
  <2> DEFINE found == r0.search
             b == Saving(p, "raise", "identity", found)
             r == [b EXCEPT !.search = NoIdentity]
  <2>1. /\ UNCHANGED <<platform, disk, temp, undo, keys, crossed, overtaken, left>>
        /\ found # NoIdentity /\ r0.step = "none"
        /\ proc' = [proc EXCEPT ![p] = r]
    BY <1>5 DEF SearchFound
  <2>2. /\ found \in Value /\ found.key = r0.seen.key /\ found.level > r0.seen.level
        /\ r0.at \in {"idle", "raising"}
    BY <1>0, <2>1 DEF Sound, Process
  <2>3. /\ b \in Process /\ b.at = r0.at /\ b.seen = r0.seen /\ b.op = "raise" /\ b.file = "identity"
        /\ b.data = File(found) /\ b.step = "create"
    BY <1>0, <2>2, SavingIs DEF Files
  <2> HIDE DEF b
  <2>4. r \in Process /\ r.at = r0.at /\ r.seen = r0.seen /\ r.op = "raise" /\ r.file = "identity"
        /\ r.data = File(found) /\ r.step = "create" /\ r.search = NoIdentity
    BY <2>3, StorageConstants DEF Process
  <2> HIDE DEF r
  <2>5. r.data.whole /\ r.data.value = found
    BY <2>2, <2>4, FileIsWhole
  <2> HIDE DEF found
  <2>6. SaveKind(r)
    BY <2>2, <2>4, <2>5 DEF SaveKind
  <2>7. Sound(r)
    BY <2>2, <2>4, <2>5, <2>6 DEF Sound
  <2>8. r.at \in Settled => Exists("identity")
    BY <1>0, <2>2, <2>4
  <2>9. p \notin overtaken' => Current(r)
    BY <1>0, <2>1, <2>2, <2>4 DEF Current, found
  <2> QED BY <1>0, <2>1, <2>4, <2>7, <2>8, <2>9 DEF Local
<1>6. CASE SearchStopped(p)
  <2>1. /\ UNCHANGED <<platform, disk, temp, undo, keys, crossed, overtaken, left>>
        /\ r0.search # NoIdentity /\ r0.step = "none"
    BY <1>6 DEF SearchStopped
  <2>2. CASE proc' = [proc EXCEPT ![p] = NotRunning]
    <3>1. NotRunning.at \notin Settled
      BY StorageConstants DEF Settled
    <3> QED BY <1>0, <2>1, <2>2, <3>1, StorageConstants, NotRunningCurrent DEF Local
  <2>3. CASE proc' = [proc EXCEPT ![p] = [r0 EXCEPT !.search = NoIdentity]]
    <3> DEFINE r == [r0 EXCEPT !.search = NoIdentity]
    <3>1. r \in Process /\ r.at = r0.at /\ r.step = "none" /\ r.search = NoIdentity
      BY <1>0, <2>1, StorageConstants DEF Process
    <3>2. r0.at \in {"idle", "raising"}
      BY <1>0, <2>1 DEF Sound
    <3> HIDE DEF r
    <3>3. Sound(r) /\ Current(r)
      BY <3>1, <3>2 DEF Sound, Current
    <3> QED BY <1>0, <2>1, <2>3, <3>1, <3>2, <3>3 DEF Local, r
  <2> QED BY <1>6, <2>2, <2>3 DEF SearchStopped
<1> QED BY <1>3, <1>4, <1>5, <1>6

-----------------------------------------------------------------------------
\* The steps of WriteSecureFile before the rename touch the temporary file
\* of process p only, and take nothing from others who have the same.
Writes(p) ==
    /\ UNCHANGED <<platform, disk, keys, crossed, overtaken, left>>
    /\ undo' \in {undo, NoUndo}
    /\ proc[p].step # "none"
    /\ temp' \in [Temporaries -> TempState]
    /\ \A t \in Temporaries : t # Mine(p) => temp'[t] = temp[t]
    /\ temp'[Mine(p)] = temp[Mine(p)] \/ Takes(p, temp[Mine(p)], temp'[Mine(p)])
    /\ \E r \in Process :
         /\ proc' = [proc EXCEPT ![p] = r]
         /\ Sound(r) /\ r.at \in {"off", proc[p].at} /\ (Current(proc[p]) => Current(r))
         /\ r.step # "none" => r.file = proc[p].file /\ Owns(p, r, temp'[Mine(p)])
         /\ r.step = "install" => undo' = NoUndo
         /\ proc[p].step = "install" => r.step # "none"

\* A process that is saving has a path to save to, and runs.
LEMMA SaverRuns ==
    ASSUME StorageInv, NEW p \in Processes, proc[p].step # "none"
    PROVE  /\ proc[p].at # "off" /\ proc[p].file \in Files /\ Mine(p) \in Temporaries
           /\ SaveKind(proc[p]) /\ proc[p].data \in FileState /\ proc[p].data.whole
           /\ proc[p].file = "identity" => proc[p].search = NoIdentity
<1>1. StorageTypes /\ proc[p] \in Process /\ Sound(proc[p])
  BY DEF StorageInv, StorageTypes, ProcessInv
<1>2. /\ SaveKind(proc[p]) /\ proc[p].data.whole
      /\ proc[p].file = "identity" => proc[p].search = NoIdentity
  BY <1>1 DEF Sound
<1>3. proc[p].at # "off" /\ proc[p].file \in Files
  BY <1>2 DEF SaveKind, Files
<1>4. proc[p].file # "none"
  BY <1>3 DEF Files
<1>5. Mine(p) \in Temporaries
  BY <1>1, <1>4, MineIsTemporary
<1> QED BY <1>1, <1>2, <1>3, <1>5 DEF Process

LEMMA WritesKeeps ==
    ASSUME StorageInv, NEW p \in Processes, Writes(p)
    PROVE  StorageInv'
<1>1. PICK r \in Process :
        /\ proc' = [proc EXCEPT ![p] = r]
        /\ Sound(r) /\ r.at \in {"off", proc[p].at} /\ (Current(proc[p]) => Current(r))
        /\ r.step # "none" => r.file = proc[p].file /\ Owns(p, r, temp'[Mine(p)])
        /\ r.step = "install" => undo' = NoUndo
  BY DEF Writes
<1>2. /\ StorageTypes /\ UNCHANGED <<platform, disk, keys, crossed, overtaken, left>>
      /\ undo' \in {undo, NoUndo}
      /\ temp' \in [Temporaries -> TempState]
      /\ \A t \in Temporaries : t # Mine(p) => temp'[t] = temp[t]
      /\ temp'[Mine(p)] = temp[Mine(p)] \/ Takes(p, temp[Mine(p)], temp'[Mine(p)])
  BY DEF Writes, StorageInv
<1>3. proc \in [Processes -> Process] /\ proc[p].at # "off" /\ Mine(p) \in Temporaries
  BY <1>2, SaverRuns DEF StorageTypes, Writes
<1>4. proc'[p] = r /\ (\A q \in Processes : q # p => proc'[q] = proc[q]) /\ proc' \in [Processes -> Process]
  BY <1>1, <1>3
<1>5. StorageTypes'
  <2>1. undo' \in [file : Files \cup {"none"}, was : FileState]
    BY <1>2, StorageConstants DEF StorageTypes
  <2> QED BY <1>2, <1>4, <2>1 DEF StorageTypes, TempState
<1>6. ProcessInv'
  <2>1. "off" \notin Settled
    BY DEF Settled
  <2> QED BY <1>1, <1>2, <1>4, <2>1 DEF StorageInv, ProcessInv, Exists
<1>7. TemporaryInv'
  <2>1. ASSUME NEW q \in Processes, proc'[q].step # "none" PROVE Owns(q, proc'[q], temp'[Mine(q)'])
    <3>1. CASE q = p
      <4>1. Mine(q)' = Mine(p)
        BY <1>1, <1>2, <1>4, <2>1, <3>1 DEF Mine, Temporary
      <4> QED BY <1>1, <1>4, <2>1, <3>1, <4>1
    <3>2. CASE q # p
      <4>1. proc'[q] = proc[q] /\ Mine(q)' = Mine(q)
        BY <1>2, <1>4, <3>2 DEF Mine, Temporary
      <4>2. Mine(q) \in Temporaries
        BY <2>1, <4>1, SaverRuns
      <4>3. \/ temp[Mine(q)] = temp'[Mine(q)]
            \/ Mine(q) = Mine(p) /\ Takes(p, temp[Mine(p)], temp'[Mine(q)])
        BY <1>2, <4>2
      <4> QED BY <1>2, <3>2, <4>1, <4>3, OthersOwn DEF StorageInv
    <3> QED BY <3>1, <3>2
  <2> QED BY <1>2, <2>1 DEF TemporaryInv, Owns
<1>8. OvertakenInv'
  BY <1>1, <1>2, <1>4 DEF StorageInv, OvertakenInv, Current, Exists
<1>9. DiskInv'
  <2>1. undo' = undo \/ undo'.file = "none"
    BY <1>2, StorageConstants
  <2>2. ASSUME NEW q \in Processes, proc'[q].step = "install", undo'.file # "none"
        PROVE  proc[q].step = "install" /\ proc[q].file = proc'[q].file
    BY <1>1, <1>4, <2>2, StorageConstants
  <2>3. "none" \notin Files
    BY DEF Files
  <2> QED BY <1>2, <2>1, <2>2, <2>3 DEF DiskInv, StorageInv, Exists, Good
<1> QED BY <1>5, <1>6, <1>7, <1>8, <1>9 DEF StorageInv

\* What a process is after a save that failed.
LEMMA AfterFailureSound ==
    ASSUME StorageInv, NEW p \in Processes, proc[p].step # "none"
    PROVE  /\ AfterFailure(p) \in Process /\ Sound(AfterFailure(p)) /\ AfterFailure(p).step = "none"
           /\ AfterFailure(p).at \in {"off", proc[p].at}
           /\ Current(proc[p]) => Current(AfterFailure(p))
<1> DEFINE r0 == proc[p]
           r == [r0 EXCEPT !.step = "none", !.op = "none", !.file = "none", !.data = Missing]
<1>1. r0 \in Process /\ Sound(r0) /\ SaveKind(r0)
  BY SaverRuns DEF StorageInv, StorageTypes, ProcessInv
<1>2. CASE r0.at \in {"prompting", "configure", "raising"}
  BY <1>2, StorageConstants, NotRunningCurrent DEF AfterFailure
<1>3. CASE r0.at \notin {"prompting", "configure", "raising"}
  <2>1. r0.at = "idle" /\ AfterFailure(p) = r
    BY <1>1, <1>3 DEF SaveKind, AfterFailure
  <2>2. r \in Process /\ r.at = r0.at /\ r.step = "none" /\ r.search = r0.search /\ r.seen = r0.seen
    BY <1>1, StorageConstants DEF Process
  <2> HIDE DEF r
  <2>3. Sound(r) /\ (Current(r0) => Current(r))
    BY <1>1, <2>1, <2>2 DEF Sound, Current
  <2> QED BY <2>1, <2>2, <2>3
<1> QED BY <1>2, <1>3

\* Process p goes on to another step of its save.
LEMMA NextStep ==
    ASSUME StorageInv, NEW p \in Processes, proc[p].step # "none",
           NEW s \in {"write", "sync", "install", "discard"}
    PROVE  LET r == [proc[p] EXCEPT !.step = s]
           IN  /\ r \in Process /\ Sound(r) /\ r.at = proc[p].at /\ r.step = s
               /\ r.file = proc[p].file /\ r.data = proc[p].data
               /\ Current(proc[p]) => Current(r)
<1> DEFINE r0 == proc[p]
           r == [r0 EXCEPT !.step = s]
<1>1. r0 \in Process /\ Sound(r0) /\ r0.at # "off" /\ r0.step # "none"
  BY SaverRuns DEF StorageInv, StorageTypes, ProcessInv
<1>2. /\ r \in Process /\ r.at = r0.at /\ r.step = s /\ r.file = r0.file /\ r.data = r0.data
      /\ r.op = r0.op /\ r.seen = r0.seen /\ r.search = r0.search
  BY <1>1 DEF Process
<1> HIDE DEF r
<1>3. SaveKind(r)
  BY <1>1, <1>2 DEF Sound, SaveKind
<1>4. Sound(r) /\ (Current(r0) => Current(r))
  BY <1>1, <1>2, <1>3 DEF Sound, Current
<1> QED BY <1>2, <1>4 DEF r

LEMMA StepsWrite ==
    ASSUME StorageInv, NEW p \in Processes,
           CreateTemporary(p) \/ WriteTemporary(p) \/ SyncTemporary(p) \/ SaveFails(p) \/ Discard(p)
    PROVE  Writes(p)
<1> DEFINE r0 == proc[p]
           m == Mine(p)
           t == temp[m]
           To(s) == [r0 EXCEPT !.step = s]
<1>0. r0.step # "none"
  BY DEF CreateTemporary, WriteTemporary, SyncTemporary, SaveFails, Discard
<1>1. /\ m \in Temporaries /\ temp \in [Temporaries -> TempState] /\ t \in TempState
      /\ r0.data \in FileState /\ p \in Client /\ "nobody" \in Client
      /\ Owns(p, r0, t)
  BY <1>0, SaverRuns DEF StorageInv, StorageTypes, Client, TemporaryInv
<1>2. \A s \in {"write", "sync", "install", "discard"} :
        /\ To(s) \in Process /\ Sound(To(s)) /\ To(s).at = r0.at /\ To(s).step = s
        /\ To(s).file = r0.file /\ To(s).data = r0.data
        /\ Current(r0) => Current(To(s))
  BY <1>0, NextStep
<1>3. t.data \in FileState /\ t.open \in Client /\ t.by \in Client
  BY <1>1 DEF TempState
<1> HIDE DEF m, t
<1>4. ASSUME NEW new \in TempState, temp' = [temp EXCEPT ![m] = new]
      PROVE  /\ temp' \in [Temporaries -> TempState] /\ temp'[m] = new
             /\ \A x \in Temporaries : x # m => temp'[x] = temp[x]
  BY <1>1, <1>4
<1>5. ASSUME NEW s \in {"write", "sync", "install", "discard"}, NEW new \in TempState,
             temp' = [temp EXCEPT ![m] = new], proc' = [proc EXCEPT ![p] = To(s)],
             Owns(p, To(s), new), Takes(p, t, new), undo' \in {undo, NoUndo}, s = "install" => undo' = NoUndo,
             UNCHANGED <<platform, disk, keys, crossed, overtaken, left>>
      PROVE  Writes(p)
  <2> DEFINE r == To(s)
  <2>1. /\ r \in Process /\ Sound(r) /\ r.at = r0.at /\ r.step = s /\ r.file = r0.file
        /\ Current(r0) => Current(r)
    BY <1>2
  <2>2. proc' = [proc EXCEPT ![p] = r] /\ Owns(p, r, new) /\ s # "none"
    BY <1>5
  <2> HIDE DEF r
  <2> QED BY <1>0, <1>4, <1>5, <2>1, <2>2 DEF Writes, m, t
<1>6. CASE CreateTemporary(p)
  <2> DEFINE d == [r0.data EXCEPT !.whole = FALSE]
             new == [data |-> d, open |-> p, by |-> p]
  <2>1. /\ temp' = [temp EXCEPT ![m] = new] /\ proc' = [proc EXCEPT ![p] = To("write")]
        /\ UNCHANGED <<platform, disk, undo, keys, crossed, overtaken, left>>
    BY <1>6 DEF CreateTemporary, Step, m
  <2>0. t.open = "nobody"
    BY <1>6 DEF CreateTemporary, m, t
  <2>2. d \in FileState
    BY <1>1 DEF FileState
  <2> HIDE DEF d
  <2>3. new \in TempState /\ new.open = p /\ new.by = p
    BY <1>1, <2>2 DEF TempState
  <2> HIDE DEF new
  <2>4. Owns(p, To("write"), new) /\ Takes(p, t, new)
    BY <1>2, <2>0, <2>3 DEF Owns, Takes
  <2> QED BY <1>5, <2>1, <2>3, <2>4
<1>7. CASE WriteTemporary(p)
  <2> DEFINE new == [t EXCEPT !.data = r0.data]
  <2>1. /\ temp' = [temp EXCEPT ![m] = new] /\ proc' = [proc EXCEPT ![p] = To("sync")]
        /\ UNCHANGED <<platform, disk, undo, keys, crossed, overtaken, left>> /\ r0.step = "write"
    BY <1>7 DEF WriteTemporary, Step, m, t
  <2>2. t.open = p /\ t.by = p
    BY <1>1, <2>1 DEF Owns
  <2>3. new \in TempState /\ new.open = p /\ new.by = p /\ new.data = r0.data
    BY <1>1, <2>2 DEF TempState
  <2> HIDE DEF new
  <2>4. Owns(p, To("sync"), new) /\ Takes(p, t, new)
    BY <1>2, <2>2, <2>3 DEF Owns, Takes
  <2> QED BY <1>5, <2>1, <2>3, <2>4
<1>8. CASE SyncTemporary(p)
  <2> DEFINE holder == IF platform = "posix" THEN p ELSE "nobody"
             d == [t.data EXCEPT !.synced = TRUE]
             new == [t EXCEPT !.data = d, !.open = holder]
  <2>1. /\ temp' = [temp EXCEPT ![m].data.synced = TRUE, ![m].open = holder]
        /\ proc' = [proc EXCEPT ![p] = To("install")]
        /\ UNCHANGED <<platform, disk, keys, crossed, overtaken, left>>
        /\ r0.step = "sync" /\ undo' = NoUndo
    BY <1>8 DEF SyncTemporary, Synchronize, Step, m
  <2>2. t.data = r0.data /\ t.open = p /\ t.by = p
    BY <1>1, <2>1 DEF Owns
  <2>3. temp' = [temp EXCEPT ![m] = new]
    BY <1>1, <2>1 DEF t, TempState
  <2>4. d \in FileState /\ holder \in Client
    BY <1>1, <1>3 DEF FileState
  <2>5. d = [r0.data EXCEPT !.synced = TRUE]
    BY <2>2
  <2> HIDE DEF d, holder
  <2>6. new \in TempState /\ new.data = d /\ new.by = p /\ new.open = holder
    BY <1>1, <2>2, <2>4 DEF TempState
  <2> HIDE DEF new
  <2>7. Owns(p, To("install"), new) /\ Takes(p, t, new)
    BY <1>2, <2>2, <2>5, <2>6 DEF Owns, Takes, holder
  <2> QED BY <1>5, <2>1, <2>3, <2>6, <2>7
<1>9. ASSUME temp' = temp \/ (\E new \in TempState : temp' = [temp EXCEPT ![m] = new]
                                                  /\ (new = t \/ Takes(p, t, new))),
             proc' = [proc EXCEPT ![p] = AfterFailure(p)], r0.step \in {"create", "discard"},
             UNCHANGED <<platform, disk, undo, keys, crossed, overtaken, left>>
      PROVE  Writes(p)
  <2> DEFINE r == AfterFailure(p)
  <2>1. /\ r \in Process /\ Sound(r) /\ r.step = "none" /\ r.at \in {"off", r0.at}
        /\ Current(r0) => Current(r)
    BY <1>0, AfterFailureSound
  <2>2. proc' = [proc EXCEPT ![p] = r]
    BY <1>9
  <2> HIDE DEF r
  <2>3. /\ temp' \in [Temporaries -> TempState] /\ \A x \in Temporaries : x # m => temp'[x] = temp[x]
        /\ temp'[m] = t \/ Takes(p, t, temp'[m])
    BY <1>1, <1>4, <1>9 DEF t
  <2> QED BY <1>0, <1>9, <2>1, <2>2, <2>3 DEF Writes, m, t
<1>10. CASE SaveFails(p)
  <2> DEFINE new == [t EXCEPT !.open = "nobody"]
  <2>1. /\ UNCHANGED <<platform, disk, undo, keys, crossed, overtaken, left>>
        /\ IF t.open = p THEN temp' = [temp EXCEPT ![m] = new] ELSE temp' = temp
    BY <1>10 DEF SaveFails, m, t
  <2>2. new \in TempState /\ new.by = t.by /\ new.data = t.data
    BY <1>1 DEF TempState
  <2> HIDE DEF new
  <2>3. t.open = p => Takes(p, t, new)
    BY <2>2 DEF Takes
  <2>4. CASE r0.step = "create"
    BY <1>9, <1>10, <2>1, <2>2, <2>3, <2>4 DEF SaveFails
  <2>5. CASE r0.step # "create"
    <3> DEFINE r == To("discard")
    <3>1. proc' = [proc EXCEPT ![p] = r]
      BY <1>10, <2>5 DEF SaveFails
    <3>2. /\ r \in Process /\ Sound(r) /\ r.at = r0.at /\ r.step = "discard" /\ r.file = r0.file
          /\ Current(r0) => Current(r)
      BY <1>2
    <3> HIDE DEF r
    <3>3. \A x : Owns(p, r, x)
      BY <3>2 DEF Owns
    <3>4. /\ temp' \in [Temporaries -> TempState] /\ \A x \in Temporaries : x # m => temp'[x] = temp[x]
          /\ temp'[m] = t \/ Takes(p, t, temp'[m])
      BY <1>1, <1>4, <2>1, <2>2, <2>3 DEF t
    <3> QED BY <1>0, <2>1, <3>1, <3>2, <3>3, <3>4 DEF Writes, m, t
  <2> QED BY <2>4, <2>5
<1>11. CASE Discard(p)
  <2>1. /\ UNCHANGED <<platform, disk, undo, keys, crossed, overtaken, left>> /\ r0.step = "discard"
        /\ IF t.open = "nobody" THEN temp' = [temp EXCEPT ![m] = NoTemp] ELSE temp' = temp
        /\ proc' = [proc EXCEPT ![p] = AfterFailure(p)]
    BY <1>11 DEF Discard, m, t
  <2>2. NoTemp \in TempState /\ (t.open = "nobody" => Takes(p, t, NoTemp))
    BY StorageConstants DEF Takes
  <2> QED BY <1>9, <2>1, <2>2
<1> QED BY <1>6, <1>7, <1>8, <1>10, <1>11

-----------------------------------------------------------------------------
\* What a process is after a save that succeeded.
LEMMA AfterSaveSound ==
    ASSUME StorageInv, NEW p \in Processes, proc[p].step # "none"
    PROVE  /\ AfterSave(p) \in Process /\ Sound(AfterSave(p)) /\ AfterSave(p).step = "none"
           /\ AfterSave(p).at \in Settled \cup {"off"}
           /\ proc[p].file = "identity" \/ Current(proc[p]) => Current(AfterSave(p))
<1> DEFINE r0 == proc[p]
           v == IF r0.file = "identity" THEN r0.data.value ELSE r0.seen
           done == [r0 EXCEPT !.step = "none", !.op = "none", !.file = "none", !.data = Missing, !.seen = v]
<1>1. r0 \in Process /\ Sound(r0) /\ SaveKind(r0) /\ r0.data \in FileState
  BY SaverRuns DEF StorageInv, StorageTypes, ProcessInv
<1>2. r0.file = "identity" => r0.search = NoIdentity
  BY SaverRuns
<1>3. v \in Value /\ (r0.file # "identity" => v = r0.seen)
  BY <1>1 DEF Process, FileState
<1> HIDE DEF v
<1>4. ASSUME NEW a \in Settled, a = "idle" \/ r0.at \notin {"idle", "raising"}
      PROVE  LET r == [done EXCEPT !.at = a]
             IN  /\ r \in Process /\ Sound(r) /\ r.step = "none" /\ r.at \in Settled
                 /\ r0.file = "identity" \/ Current(r0) => Current(r)
  <2> DEFINE r == [done EXCEPT !.at = a]
  <2>1. a \in Places /\ a # "off" /\ a # "prompting"
    BY DEF Settled, Places
  <2>2. done \in Process /\ done.step = "none" /\ done.seen = v /\ done.search = r0.search
    BY <1>1, <1>3, StorageConstants DEF Process
  <2> HIDE DEF done
  <2>3. r \in Process /\ r.at = a /\ r.step = "none" /\ r.seen = v /\ r.search = r0.search
    BY <2>1, <2>2 DEF Process
  <2> HIDE DEF r
  <2>4. r.search # NoIdentity =>
          /\ r.at = "idle" /\ r.search.key = r.seen.key /\ r.search.level > r.seen.level
    BY <1>1, <1>2, <1>3, <1>4, <2>3 DEF Sound
  <2>5. Sound(r)
    BY <2>1, <2>3, <2>4 DEF Sound
  <2>6. r0.file = "identity" \/ Current(r0) => Current(r)
    BY <1>2, <1>3, <2>1, <2>3 DEF Current
  <2> QED BY <2>3, <2>5, <2>6 DEF r
<1>5. AfterSave(p) =
        CASE r0.op = "setup" /\ r0.file = "identity" -> [done EXCEPT !.at = "configure"]
          [] r0.op = "setup" /\ r0.file = "config"   -> [done EXCEPT !.at = "started"]
          [] r0.op = "raise" /\ r0.at = "raising"    -> NotRunning
          [] OTHER -> [done EXCEPT !.at = "idle"]
  BY DEF AfterSave, v
<1> HIDE DEF done
<1>6. CASE r0.op = "setup" /\ r0.file = "identity"
  <2>1. r0.at \notin {"idle", "raising"} /\ "configure" \in Settled
    BY <1>1, <1>6 DEF SaveKind, Settled
  <2>2. AfterSave(p) = [done EXCEPT !.at = "configure"]
    BY <1>5, <1>6
  <2> QED BY <1>4, <2>1, <2>2
<1>7. CASE r0.op = "setup" /\ r0.file = "config"
  <2>1. r0.at \notin {"idle", "raising"} /\ "started" \in Settled
    BY <1>1, <1>7 DEF SaveKind, Settled
  <2>2. AfterSave(p) = [done EXCEPT !.at = "started"]
    BY <1>5, <1>7
  <2> QED BY <1>4, <2>1, <2>2
<1>8. CASE r0.op = "raise" /\ r0.at = "raising"
  <2>1. AfterSave(p) = NotRunning
    BY <1>5, <1>8
  <2> QED BY <2>1, StorageConstants, NotRunningCurrent
<1>9. CASE /\ r0.op # "setup" /\ ~(r0.op = "raise" /\ r0.at = "raising")
  <2>1. "idle" \in Settled
    BY DEF Settled
  <2>2. AfterSave(p) = [done EXCEPT !.at = "idle"]
    BY <1>5, <1>9
  <2> QED BY <1>4, <2>1, <2>2
<1>10. r0.op = "setup" => r0.file \in {"identity", "config"}
  BY <1>1 DEF SaveKind
<1> QED BY <1>6, <1>7, <1>8, <1>9, <1>10

\* After the save of an identity no search runs.
LEMMA AfterSaveSearch ==
    ASSUME StorageInv, NEW p \in Processes, proc[p].step # "none", proc[p].file = "identity"
    PROVE  AfterSave(p).search = NoIdentity
<1>1. proc[p] \in Process /\ proc[p].search = NoIdentity
  BY SaverRuns DEF StorageInv, StorageTypes
<1> DEFINE done(at) == [proc[p] EXCEPT !.step = "none", !.op = "none", !.file = "none", !.data = Missing,
                                       !.seen = proc[p].data.value, !.at = at]
<1>2. \/ AfterSave(p) = NotRunning
      \/ \E at \in {"configure", "started", "idle"} : AfterSave(p) = done(at)
  BY DEF AfterSave
<1>3. ASSUME NEW at \in {"configure", "started", "idle"} PROVE done(at).search = NoIdentity
  BY <1>1 DEF Process
<1> HIDE DEF done
<1> QED BY <1>2, <1>3, StorageConstants

\* What Install moves: all of the data, synchronised, unless another client
\* has written there.
LEMMA InstallsWhole ==
    ASSUME StorageInv, NEW p \in Processes, Install(p)
    PROVE  /\ proc[p].step = "install" /\ proc[p].file \in Files /\ SaveKind(proc[p])
           /\ disk' = [disk EXCEPT ![proc[p].file] = temp[Mine(p)].data]
           /\ temp[Mine(p)].data \in FileState
           /\ Crosses(p) \/ (/\ temp[Mine(p)].data.value = proc[p].data.value
                             /\ Good(temp[Mine(p)].data))
           /\ Crosses(p) => platform = "win32"
           /\ temp[Mine(p)].data.value # Missing.value
           /\ disk'[proc[p].file] = temp[Mine(p)].data
           /\ \A f \in Files : f # proc[p].file => disk'[f] = disk[f]
           /\ disk' \in [Files -> FileState]
<1> DEFINE r0 == proc[p]
           t == temp[Mine(p)]
           d == t.data
<1>1. r0.step = "install" /\ disk' = [disk EXCEPT ![r0.file] = d] /\ d.value # Missing.value
  BY DEF Install
<1>2. /\ r0.file \in Files /\ SaveKind(r0) /\ r0.data \in FileState /\ r0.data.whole
      /\ Mine(p) \in Temporaries
  BY <1>1, SaverRuns
<1>3. t \in TempState /\ Owns(p, r0, t) /\ platform \in {"posix", "win32"}
  BY <1>2 DEF StorageInv, StorageTypes, TemporaryInv
<1> HIDE DEF t
<1>4. d \in FileState
  BY <1>3 DEF TempState
<1>5. Crosses(p) => platform = "win32"
  BY <1>1, <1>3 DEF Crosses, Owns, t
<1>6. ~Crosses(p) => d = [r0.data EXCEPT !.synced = TRUE]
  BY <1>1, <1>3 DEF Crosses, Owns, t
<1> HIDE DEF d
<1>7. ~Crosses(p) => d.value = r0.data.value /\ Good(d)
  BY <1>2, <1>6 DEF FileState, Good
<1>8. disk \in [Files -> FileState]
  BY DEF StorageInv, StorageTypes
<1>9. disk'[r0.file] = d /\ (\A f \in Files : f # r0.file => disk'[f] = disk[f]) /\ disk' \in [Files -> FileState]
  BY <1>1, <1>2, <1>4, <1>8
<1> QED BY <1>1, <1>2, <1>4, <1>5, <1>7, <1>9 DEF d, t

LEMMA InstallKeeps ==
    ASSUME StorageInv, NEW p \in Processes, Install(p)
    PROVE  StorageInv'
<1> DEFINE r0 == proc[p]
           m == Mine(p)
           d == temp[m].data
           f == r0.file
           r == AfterSave(p)
<1>1. /\ r0.step = "install" /\ f \in Files /\ SaveKind(r0) /\ d \in FileState /\ d.value # Missing.value
      /\ Crosses(p) \/ Good(d)
      /\ Crosses(p) => platform = "win32"
      /\ disk'[f] = d /\ (\A g \in Files : g # f => disk'[g] = disk[g]) /\ disk' \in [Files -> FileState]
  BY InstallsWhole
<1>2. /\ r \in Process /\ Sound(r) /\ r.step = "none" /\ r.at \in Settled \cup {"off"}
      /\ f = "identity" \/ Current(r0) => Current(r)
  BY <1>1, AfterSaveSound
<1>3. /\ StorageTypes /\ UNCHANGED <<platform, keys, left>>
      /\ crossed' = IF Crosses(p) THEN crossed \cup {f} ELSE crossed \ {f}
      /\ overtaken' = IF f = "identity" THEN Processes \ {p} ELSE overtaken
      /\ undo' = IF platform = "posix" THEN [file |-> f, was |-> disk[f]] ELSE NoUndo
      /\ temp' = [temp EXCEPT ![m] = NoTemp] /\ proc' = [proc EXCEPT ![p] = r]
  BY DEF Install, StorageInv
<1>4. r0.at # "off" /\ m \in Temporaries
  BY <1>1, SaverRuns
<1> HIDE DEF d, r, m
<1>5. /\ proc \in [Processes -> Process] /\ disk \in [Files -> FileState] /\ "identity" \in Files
      /\ "config" \in Files /\ "none" \notin Files /\ temp \in [Temporaries -> TempState]
  BY <1>3 DEF StorageTypes, Files, TempState
<1>6. proc'[p] = r /\ (\A q \in Processes : q # p => proc'[q] = proc[q]) /\ proc' \in [Processes -> Process]
  BY <1>2, <1>3, <1>5
<1>7. NoTemp \in TempState
  BY StorageConstants DEF TempState
<1>8. temp' \in [Temporaries -> TempState] /\ \A t \in Temporaries : t # m => temp'[t] = temp[t]
  BY <1>3, <1>4, <1>5, <1>7
<1>9. undo' \in [file : Files \cup {"none"}, was : FileState] /\ undo'.file \in {f, "none"}
      /\ (undo'.file = f => undo'.was = disk[f])
  <2>1. CASE platform = "posix"
    <3>1. undo' = [file |-> f, was |-> disk[f]] /\ disk[f] \in FileState
      BY <1>1, <1>3, <1>5, <2>1
    <3> QED BY <1>1, <3>1
  <2>2. CASE platform # "posix"
    <3>1. undo' = NoUndo
      BY <1>3, <2>2
    <3> QED BY <1>1, <1>5, <3>1, StorageConstants
  <2> QED BY <2>1, <2>2
<1>10. StorageTypes'
  <2>1. crossed' \in SUBSET Files /\ overtaken' \in SUBSET Processes
    BY <1>1, <1>3 DEF StorageTypes
  <2> QED BY <1>1, <1>3, <1>6, <1>8, <1>9, <2>1 DEF StorageTypes
<1>11. r0.at \in Settled \/ f = "identity"
  BY <1>1 DEF SaveKind, Settled
<1>12. Exists("identity") => Exists("identity")'
  BY <1>1, <1>5 DEF Exists
<1>13. Exists("identity")'
  <2>1. CASE f = "identity"
    BY <1>1, <2>1 DEF Exists
  <2>2. CASE r0.at \in Settled
    BY <1>12, <2>2 DEF StorageInv, ProcessInv
  <2> QED BY <1>11, <2>1, <2>2
<1>14. ProcessInv'
  BY <1>2, <1>6, <1>13 DEF StorageInv, ProcessInv
<1>15. OvertakenInv'
  <2>1. Current(r0) \/ f = "identity" \/ p \in overtaken
    BY DEF StorageInv, OvertakenInv
  <2>2. CASE f = "identity"
    <3>1. Current(r) /\ r.at # "prompting" /\ r.search = NoIdentity
      BY <1>1, <1>2, <2>2, AfterSaveSearch DEF Settled, r
    <3> QED BY <1>2, <1>3, <1>6, <2>2, <3>1 DEF OvertakenInv, Current
  <2>3. CASE f # "identity"
    <3>1. disk'["identity"] = disk["identity"] /\ overtaken' = overtaken
      BY <1>1, <1>3, <1>5, <2>3
    <3> QED BY <1>2, <1>6, <2>1, <2>3, <3>1 DEF StorageInv, OvertakenInv, Current, Exists
  <2> QED BY <2>2, <2>3
<1>16. TemporaryInv'
  <2>1. ASSUME NEW q \in Processes, proc'[q].step # "none" PROVE Owns(q, proc'[q], temp'[Mine(q)'])
    <3>1. q # p
      BY <1>2, <1>6, <2>1
    <3>2. proc'[q] = proc[q] /\ Mine(q)' = Mine(q)
      BY <1>3, <1>6, <3>1 DEF Mine, Temporary
    <3>3. Mine(q) \in Temporaries
      BY <2>1, <3>2, SaverRuns
    <3>4. temp'[m] = NoTemp /\ Takes(p, temp[m], NoTemp)
      BY <1>3, <1>4, <1>5, StorageConstants DEF Install, Takes, m
    <3>5. \/ temp[Mine(q)] = temp'[Mine(q)]
          \/ Mine(q) = Mine(p) /\ Takes(p, temp[Mine(p)], temp'[Mine(q)])
      BY <1>8, <3>3, <3>4 DEF m
    <3> QED BY <1>3, <3>1, <3>2, <3>5, OthersOwn DEF StorageInv, Owns
  <2> QED BY <1>3, <2>1 DEF TemporaryInv, Owns
<1>17. DiskInv'
  <2>0. /\ platform' = "posix" => crossed' = {}
        /\ undo'.file \in Files => platform = "posix"
    BY <1>1, <1>3, StorageConstants DEF StorageInv, DiskInv, Files
  <2>1. \A g \in Files \ crossed' : Good(disk'[g])
    BY <1>1, <1>3 DEF StorageInv, DiskInv
  <2>2. undo'.file \in Files => platform' = "posix" /\ Good(undo'.was)
    BY <1>1, <1>3, <1>5, <1>9, <2>0 DEF StorageInv, DiskInv
  <2>3. ASSUME undo'.file = "identity", undo'.was.value = Missing.value
        PROVE  /\ ~Exists("config")'
               /\ \A q \in Processes : ~(proc'[q].step = "install" /\ proc'[q].file = "config")
    <3>1. f = "identity" /\ ~Exists("identity")
      BY <1>5, <1>9, <2>3 DEF Exists
    <3>2. ~Exists("config")
      BY <3>1 DEF StorageInv, DiskInv
    <3>3. ~Exists("config")'
      BY <1>1, <1>5, <3>1, <3>2 DEF Exists
    <3>4. ASSUME NEW q \in Processes, proc'[q].step = "install", proc'[q].file = "config"
          PROVE  FALSE
      <4>1. proc'[q] = proc[q]
        BY <1>2, <1>6, <3>4
      <4>2. SaveKind(proc[q])
        BY <3>4, <4>1, SaverRuns
      <4>3. proc[q].at \in Settled
        BY <3>4, <4>1, <4>2 DEF SaveKind, Settled
      <4> QED BY <3>1, <4>3 DEF StorageInv, ProcessInv
    <3> QED BY <3>3, <3>4
  <2> QED BY <1>13, <2>0, <2>1, <2>2, <2>3 DEF DiskInv, Good
<1> QED BY <1>10, <1>14, <1>15, <1>16, <1>17 DEF StorageInv

-----------------------------------------------------------------------------
\* A process that dies takes its own temporary files with it, no other's.
LEMMA KillKeeps ==
    ASSUME StorageInv, NEW p \in Processes, Kill(p)
    PROVE  StorageInv'
<1>1. /\ StorageTypes /\ proc[p].at # "off" /\ proc' = [proc EXCEPT ![p] = NotRunning]
      /\ UNCHANGED <<platform, disk, undo, keys, crossed, overtaken>> /\ Fault
      /\ temp' = [t \in Temporaries |->
                    IF temp[t].open # p THEN temp[t]
                    ELSE IF platform = "posix" THEN NoTemp ELSE [temp[t] EXCEPT !.open = "nobody"]]
  BY DEF Kill, StorageInv
<1>2. /\ proc \in [Processes -> Process] /\ temp \in [Temporaries -> TempState]
      /\ left \in [saves : Nat, faults : Nat]
  BY <1>1 DEF StorageTypes, TempState
<1>3. /\ proc'[p] = NotRunning /\ (\A q \in Processes : q # p => proc'[q] = proc[q])
      /\ proc' \in [Processes -> Process]
  BY <1>1, <1>2, StorageConstants
<1>4. left' \in [saves : Nat, faults : Nat]
  <2>1. left.faults > 0 /\ left' = [left EXCEPT !.faults = @ - 1]
    BY <1>1 DEF Fault
  <2> QED BY <1>2, <2>1
<1>5. temp' \in [Temporaries -> TempState]
  <2>1. \A t \in TempState : [t EXCEPT !.open = "nobody"] \in TempState
    BY DEF TempState, Client
  <2>2. NoTemp \in TempState
    BY StorageConstants DEF TempState
  <2> QED BY <1>1, <1>2, <2>1, <2>2
<1>6. StorageTypes'
  BY <1>1, <1>3, <1>4, <1>5 DEF StorageTypes
<1>7. "off" \notin Settled
  BY DEF Settled
<1>8. ProcessInv'
  BY <1>1, <1>3, <1>7, StorageConstants DEF StorageInv, ProcessInv, Exists
<1>9. OvertakenInv'
  BY <1>1, <1>3, NotRunningCurrent DEF StorageInv, OvertakenInv, Current, Exists
<1>10. TemporaryInv'
  <2>1. ASSUME NEW q \in Processes, proc'[q].step # "none" PROVE Owns(q, proc'[q], temp'[Mine(q)'])
    <3>1. q # p /\ proc'[q] = proc[q]
      BY <1>3, <2>1, StorageConstants
    <3>2. Mine(q)' = Mine(q)
      BY <1>1, <3>1 DEF Mine, Temporary
    <3>3. Mine(q) \in Temporaries /\ temp[Mine(q)] \in TempState
      BY <1>2, <2>1, <3>1, SaverRuns
    <3>4. Owns(q, proc[q], temp[Mine(q)]) /\ q # "nobody"
      BY StorageAssumption DEF StorageInv, TemporaryInv
    <3>5. CASE temp[Mine(q)].open = p
      <4>1. proc[q].step \notin {"write", "sync"}
        BY <3>1, <3>4, <3>5 DEF Owns
      <4>2. temp'[Mine(q)].by = q => temp[Mine(q)].by = q /\ temp'[Mine(q)].data = temp[Mine(q)].data
        <5>1. CASE platform = "posix"
          <6>1. temp'[Mine(q)] = NoTemp
            BY <1>1, <3>3, <3>5, <5>1
          <6> QED BY <3>4, <6>1, StorageConstants
        <5>2. CASE platform # "posix"
          <6>1. temp'[Mine(q)] = [temp[Mine(q)] EXCEPT !.open = "nobody"]
            BY <1>1, <3>3, <3>5, <5>2
          <6> QED BY <3>3, <6>1 DEF TempState
        <5> QED BY <5>1, <5>2
      <4>3. platform = "posix" => proc[q].step # "install"
        BY <3>1, <3>4, <3>5 DEF Owns
      <4> QED BY <3>1, <3>2, <3>4, <4>1, <4>2, <4>3 DEF Owns
    <3>6. CASE temp[Mine(q)].open # p
      <4>1. temp'[Mine(q)] = temp[Mine(q)]
        BY <1>1, <3>3, <3>6
      <4> QED BY <1>1, <3>1, <3>2, <3>4, <4>1 DEF Owns
    <3> QED BY <3>2, <3>5, <3>6
  <2>2. platform' = platform
    BY <1>1
  <2> QED BY <2>1, <2>2 DEF TemporaryInv, Owns
<1>11. DiskInv'
  <2>1. \A q \in Processes : proc'[q].step = "install" => proc'[q] = proc[q]
    BY <1>3, StorageConstants
  <2> QED BY <1>1, <2>1 DEF StorageInv, DiskInv, Exists, Good
<1> QED BY <1>6, <1>8, <1>9, <1>10, <1>11 DEF StorageInv

\* A power loss takes no file away, and a file that is all there stays it.
LEMMA GoodSurvives ==
    ASSUME NEW file \in FileState
    PROVE  /\ Survives(file) \in FileState
           /\ Survives(file).value = file.value
           /\ Good(file) => Good(Survives(file))
  BY DEF Survives, FileState, Good

LEMMA PowerLossKeeps ==
    ASSUME StorageInv, PowerLoss
    PROVE  StorageInv'
<1> DEFINE undone == IF undo = NoUndo THEN disk ELSE [disk EXCEPT ![undo.file] = undo.was]
<1>1. PICK after \in {disk, undone} : disk' = [f \in Files |-> Survives(after[f])]
  BY DEF PowerLoss
<1>2. /\ StorageTypes /\ UNCHANGED <<platform, keys, crossed, overtaken>> /\ Fault /\ undo' = NoUndo
      /\ proc' = [p \in Processes |-> NotRunning]
      /\ temp' = [t \in Temporaries |->
                    IF platform = "posix" THEN NoTemp
                    ELSE [temp[t] EXCEPT !.data = Survives(@), !.open = "nobody"]]
  BY DEF PowerLoss, StorageInv
<1>3. /\ disk \in [Files -> FileState] /\ undo.file \in Files \cup {"none"} /\ undo.was \in FileState
      /\ temp \in [Temporaries -> TempState] /\ left \in [saves : Nat, faults : Nat]
      /\ "none" \notin Files /\ "config" \in Files /\ "identity" \in Files
  BY <1>2 DEF StorageTypes, Files, TempState
<1>4. after = disk \/ (undo.file \in Files /\ after = [disk EXCEPT ![undo.file] = undo.was])
  BY <1>1, <1>3
<1> HIDE DEF undone
<1>5. after \in [Files -> FileState]
  BY <1>3, <1>4
<1>6. \A f \in Files \ crossed : Good(after[f])
  BY <1>3, <1>4 DEF StorageInv, DiskInv
<1>7. after["config"].value # Missing.value => after["identity"].value # Missing.value
  <2>1. CASE after = disk
    BY <2>1 DEF StorageInv, DiskInv, Exists
  <2>2. CASE undo.file = "config" /\ after = [disk EXCEPT ![undo.file] = undo.was]
    <3>1. after["identity"] = disk["identity"] /\ Exists("identity")
      BY <1>3, <2>2 DEF StorageInv, DiskInv
    <3> QED BY <3>1 DEF Exists
  <2>3. CASE undo.file = "identity" /\ after = [disk EXCEPT ![undo.file] = undo.was]
    <3>1. after["config"] = disk["config"] /\ after["identity"] = undo.was
      BY <1>3, <2>3
    <3> QED BY <2>3, <3>1 DEF StorageInv, DiskInv, Exists
  <2>4. CASE undo.file \notin {"config", "identity"} /\ after = [disk EXCEPT ![undo.file] = undo.was]
    <3>1. after["config"] = disk["config"] /\ after["identity"] = disk["identity"]
      BY <1>3, <2>4
    <3> QED BY <3>1 DEF StorageInv, DiskInv, Exists
  <2> QED BY <1>4, <2>1, <2>2, <2>3, <2>4
<1>8. /\ disk' \in [Files -> FileState]
      /\ \A f \in Files : disk'[f].value = after[f].value
      /\ \A f \in Files \ crossed : Good(disk'[f])
  <2>1. ASSUME NEW f \in Files
        PROVE  /\ disk'[f] \in FileState /\ disk'[f].value = after[f].value
               /\ f \notin crossed => Good(disk'[f])
    BY <1>1, <1>5, <1>6, GoodSurvives
  <2> QED BY <1>1, <2>1
<1>9. left' \in [saves : Nat, faults : Nat]
  <2>1. left.faults > 0 /\ left' = [left EXCEPT !.faults = @ - 1]
    BY <1>2 DEF Fault
  <2> QED BY <1>3, <2>1
<1>10. temp' \in [Temporaries -> TempState]
  <2>1. NoTemp \in TempState
    BY StorageConstants DEF TempState
  <2>2. ASSUME NEW t \in Temporaries
        PROVE  [temp[t] EXCEPT !.data = Survives(@), !.open = "nobody"] \in TempState
    <3>1. temp[t] \in TempState /\ Survives(temp[t].data) \in FileState
      BY <1>3, GoodSurvives DEF TempState
    <3> QED BY <3>1 DEF TempState, Client
  <2> QED BY <1>2, <2>1, <2>2
<1>11. proc' \in [Processes -> Process] /\ \A p \in Processes : proc'[p] = NotRunning
  BY <1>2, StorageConstants
<1>12. StorageTypes'
  BY <1>2, <1>8, <1>9, <1>10, <1>11, StorageConstants DEF StorageTypes
<1>13. "off" \notin Settled
  BY DEF Settled
<1>14. ProcessInv' /\ OvertakenInv' /\ TemporaryInv'
  BY <1>11, <1>13, StorageConstants DEF ProcessInv, OvertakenInv, Current, TemporaryInv, Owns
<1>15. DiskInv'
  BY <1>2, <1>3, <1>7, <1>8, StorageConstants DEF StorageInv, DiskInv, Exists, Good
<1> QED BY <1>12, <1>14, <1>15 DEF StorageInv

LEMMA EditIsEdited ==
    ASSUME StorageInv, EditConfig
    PROVE  Edited
<1>1. PICK c \in {Missing} \cup {[File(Text(v)) EXCEPT !.synced = TRUE] : v \in {"default", "broken"}} :
        disk' = [disk EXCEPT !["config"] = c]
  BY DEF EditConfig
<1>2. c \in FileState /\ c.whole /\ c.synced
  <2>1. CASE c = Missing
    BY <2>1, StorageConstants
  <2>2. ASSUME NEW v \in {"default", "broken"}, c = [File(Text(v)) EXCEPT !.synced = TRUE]
        PROVE  c \in FileState /\ c.whole /\ c.synced
    <3>1. Text(v) \in Value
      BY TextIsValue DEF Texts
    <3>2. File(Text(v)) \in FileState /\ File(Text(v)).whole
      BY <3>1, FileIsWhole
    <3> QED BY <2>2, <3>2 DEF FileState
  <2> QED BY <1>1, <2>1, <2>2
<1>3. left \in [saves : Nat, faults : Nat]
  BY DEF StorageInv, StorageTypes
<1>4. left' \in [saves : Nat, faults : Nat]
  BY <1>3 DEF EditConfig, Fault
<1>5. UNCHANGED <<platform, temp, proc, keys, crossed, overtaken>> /\ Exists("config") /\ undo' \in {undo, NoUndo}
  BY DEF EditConfig
<1> QED BY <1>1, <1>2, <1>4, <1>5 DEF Edited

-----------------------------------------------------------------------------
LEMMA StorageInitInv == Init => StorageInv
<1> SUFFICES ASSUME Init PROVE StorageInv
  OBVIOUS
<1>1. /\ platform \in {"posix", "win32"} /\ keys = 0 /\ undo = NoUndo /\ crossed = {} /\ overtaken = {}
      /\ disk = [f \in Files |-> Missing] /\ temp = [t \in Temporaries |-> NoTemp]
      /\ proc = [p \in Processes |-> NotRunning] /\ left = [saves |-> MaxSaves, faults |-> MaxFaults]
  BY DEF Init
<1>2. left \in [saves : Nat, faults : Nat]
  BY <1>1, StorageAssumption
<1>3. StorageTypes
  BY <1>1, <1>2, StorageConstants DEF StorageTypes
<1>4. \A p \in Processes : proc[p] = NotRunning
  BY <1>1
<1>5. "off" \notin Settled /\ "none" \notin Files /\ "config" \in Files
  BY DEF Settled, Files
<1>6. ProcessInv /\ OvertakenInv /\ TemporaryInv
  BY <1>4, <1>5, StorageConstants DEF ProcessInv, OvertakenInv, Current, TemporaryInv, Owns
<1>7. \A f \in Files : disk[f] = Missing
  BY <1>1
<1>8. DiskInv
  BY <1>1, <1>5, <1>7, StorageConstants DEF DiskInv, Good, Exists
<1> QED BY <1>3, <1>6, <1>8 DEF StorageInv

\* Every step is one of a process, of its save, or a fault.
StorageStep ==
    \/ \E p \in Processes : Local(p) \/ Writes(p) \/ Install(p) \/ Kill(p)
    \/ Edited \/ PowerLoss \/ UNCHANGED vars

LEMMA StorageSteps ==
    ASSUME StorageInv, [Next]_vars
    PROVE  StorageStep
<1>1. ASSUME NEW p \in Processes, WriteSecureFile(p) PROVE Writes(p) \/ Install(p)
  BY <1>1, StepsWrite DEF WriteSecureFile
<1>2. ASSUME NEW p \in Processes, Operation(p) PROVE Local(p) \/ Edited
  BY <1>2, StartIsLocal, RunningIsLocal, SearchIsLocal DEF Operation
<1> QED BY <1>1, <1>2, EditIsEdited DEF Next, StorageStep

LEMMA StorageInductive ==
    ASSUME StorageInv, [Next]_vars
    PROVE  StorageInv'
<1>1. CASE UNCHANGED vars
  BY <1>1 DEF vars, StorageInv, StorageTypes, ProcessInv, OvertakenInv, Current, TemporaryInv, Owns, DiskInv,
              Exists, Mine, Temporary
<1> QED BY <1>1, StorageSteps, LocalKeeps, WritesKeeps, InstallKeeps, KillKeeps, EditedKeeps, PowerLossKeeps DEF StorageStep

\* Whatever fails, dies or loses power, and whoever saves at the same time,
\* the files the next start reads are all there, and with a configuration
\* there is an identity.  The one exception is a file that a Windows client
\* installed when another one had written into the temporary file they share.
THEOREM StorageSurvives == Spec => []NextStartWorks
<1>1. StorageInv => NextStartWorks
  BY DEF StorageInv, StorageTypes, DiskInv, Good, NextStartWorks
<1>2. StorageInv /\ [Next]_vars => StorageInv'
  BY StorageInductive
<1> QED BY StorageInitInv, <1>1, <1>2, PTL DEF Spec

\* Only Install ends a save of process p at the rename.
LEMMA InstallsIsInstall ==
    ASSUME StorageInv, [Next]_vars, NEW p \in Processes, Installs(p)
    PROVE  Install(p)
<1>1. /\ proc[p].step = "install" /\ proc'[p].step = "none" /\ left' = left
      /\ proc \in [Processes -> Process] /\ left \in [saves : Nat, faults : Nat]
  BY DEF Installs, StorageInv, StorageTypes
<1>2. proc'[p] # proc[p]
  BY <1>1
<1>3. ~Fault
  <2>1. ASSUME Fault PROVE FALSE
    <3>1. left.faults \in Nat /\ left'.faults = left.faults - 1
      BY <1>1, <2>1 DEF Fault
    <3> QED BY <1>1, <3>1
  <2> QED BY <2>1
<1>4. ASSUME NEW q \in Processes, Local(q) PROVE FALSE
  <2>1. PICK r \in Process : proc' = [proc EXCEPT ![q] = r]
    BY <1>4 DEF Local
  <2> QED BY <1>1, <1>2, <1>4, <2>1 DEF Local
<1>5. ASSUME NEW q \in Processes, Writes(q) PROVE FALSE
  <2>1. PICK r \in Process :
          proc' = [proc EXCEPT ![q] = r] /\ (proc[q].step = "install" => r.step # "none")
    BY <1>5 DEF Writes
  <2> QED BY <1>1, <1>2, <2>1
<1>6. ASSUME NEW q \in Processes, Install(q) PROVE q = p
  BY <1>1, <1>2, <1>6 DEF Install
<1>7. ~PowerLoss /\ ~Edited /\ ~UNCHANGED vars /\ \A q \in Processes : ~Kill(q)
  BY <1>2, <1>3 DEF PowerLoss, Edited, Kill, vars
<1> QED BY <1>4, <1>5, <1>6, <1>7, StorageSteps DEF StorageStep

\* With any number of clients: an identity that is on disk is replaced when
\* the user confirmed it, or by the same key at a higher level.  The only
\* others who replace one are a client that goes by what it read before
\* another client saved an identity, by a setup or a search, and a Windows
\* client that installs what another one wrote.
THEOREM IdentityOutlivesClients == Spec => IdentityIsKept
<1> DEFINE Kept(p) == Installs(p) /\ Exists("identity") =>
              \/ proc[p].op = "replace"
              \/ Raised(disk'["identity"].value, disk["identity"].value)
              \/ /\ p \in overtaken
                 /\ proc[p].op = "setup" \/ Raised(disk'["identity"].value, proc[p].seen)
              \/ platform = "win32" /\ Crosses(p)
<1>1. ASSUME StorageInv, [Next]_vars, NEW p \in Processes PROVE Kept(p)
  <2> SUFFICES ASSUME Installs(p), Exists("identity"), proc[p].op # "replace", ~Crosses(p)
               PROVE  \/ Raised(disk'["identity"].value, disk["identity"].value)
                      \/ /\ p \in overtaken
                         /\ proc[p].op = "setup" \/ Raised(disk'["identity"].value, proc[p].seen)
    BY <1>1, InstallsIsInstall, InstallsWhole
  <2>1. Install(p) /\ proc[p].file = "identity" /\ proc[p].step # "none"
    BY <1>1, InstallsIsInstall DEF Installs
  <2>2. SaveKind(proc[p]) /\ disk'["identity"].value = proc[p].data.value
    BY <1>1, <2>1, InstallsWhole
  <2>3. p \in overtaken \/ Current(proc[p])
    BY <1>1 DEF StorageInv, OvertakenInv
  <2>4. CASE proc[p].op = "raise"
    <3>1. Raised(disk'["identity"].value, proc[p].seen)
      BY <2>2, <2>4 DEF SaveKind, Raised
    <3> QED BY <2>1, <2>3, <2>4, <3>1 DEF Current
  <2>5. CASE proc[p].op = "setup"
    <3>1. proc[p].at = "prompting"
      BY <2>1, <2>2, <2>5 DEF SaveKind
    <3> QED BY <2>3, <2>5, <3>1 DEF Current
  <2> QED BY <2>1, <2>2, <2>4, <2>5 DEF SaveKind
<1>2. StorageInv /\ [Next]_vars => StorageInv' /\ [\A p \in Processes : Kept(p)]_vars
  BY <1>1, StorageInductive
<1> QED BY StorageInitInv, <1>2, PTL DEF Spec, IdentityIsKept
=============================================================================
