------------------------------ MODULE Storage ------------------------------
(***************************************************************************)
(* The files of a user's configuration directory and the clients that      *)
(* share them: config.conf, the one local identity, the settings of a      *)
(* remote user and an exported private key.  The terminal client and the   *)
(* GTK client may run at once, each with its own copy of the               *)
(* configuration in memory.  Every save goes through WriteSecureFile,      *)
(* which is taken here step by step: a step may fail, the process may die  *)
(* between two steps, and the machine may lose power.                      *)
(*                                                                         *)
(* External, from how the code uses it: the file system.  What was not     *)
(* synchronised may be torn by a power loss; metadata is journaled, so     *)
(* that a power loss undoes at most the last rename, and synchronising a   *)
(* file commits the renames before it.  On Windows an open temporary file  *)
(* admits no second opener, no move and no delete.                         *)
(***************************************************************************)
EXTENDS Naturals, FiniteSets

CONSTANTS
    Processes,      \* the clients that may run in this directory, and ...
    GtkClients,     \* ... those of them that are ts-gtk
    Settings,       \* values of the configuration
    DefaultSecurityLevel, MaxLevel, \* IdentityStore's
    MaxKeys,        \* bound on the identities generated
    MaxSaves,       \* bound on the saves the users ask for
    MaxFaults       \* bound on processes killed, power losses and edited files

ASSUME StorageAssumption ==
    /\ IsFiniteSet(Processes) /\ Processes \cap {"tmp", "nobody"} = {}
    /\ MaxKeys \in Nat \ {0}
    /\ MaxLevel \in Nat /\ DefaultSecurityLevel \in 0 .. MaxLevel
    /\ {MaxSaves, MaxFaults} \subseteq Nat

Files == {"config", "identity", "user", "pem"}

VARIABLES
    platform,   \* "posix" or "win32": which secure_file is built
    disk,       \* what each path names
    temp,       \* the temporary files
    undo,       \* the rename a power loss would undo
    proc,       \* the processes
    keys,       \* how many identities have been generated
    crossed,    \* history: the files that one client installed and another wrote
    overtaken,  \* history: the clients that go by an identity that another
                \* client has replaced, or by there being none
    left        \* what is left of the bounds

vars == <<platform, disk, temp, undo, proc, keys, crossed, overtaken, left>>

\* What a file says: an identity or an exported key, or a text (the settings
\* in a config.conf, those of a user).
Text(t) == [key |-> 0, level |-> 0, text |-> t]
NewIdentity(key, level) == [key |-> key, level |-> level, text |-> "identity"]
NoIdentity == Text("none")

Missing == [value |-> Text("missing"), whole |-> TRUE, synced |-> TRUE]
File(v) == [value |-> v, whole |-> TRUE, synced |-> FALSE]
NoTemp == [data |-> Missing, open |-> "nobody", by |-> "nobody"]
NoUndo == [file |-> "none", was |-> Missing]

\* The name of the temporary file: mkstemp makes a new one for every save,
\* Windows appends ".tmp", the same for everyone who saves that file.  A
\* temporary file has its data, who has it open and, as history, who wrote it.
Temporary(p, f) == IF platform = "posix" THEN <<f, p>> ELSE <<f, "tmp">>
Temporaries == Files \X (Processes \cup {"tmp"})

\* A process that is not running.  "seen" is the identity it last read to
\* act on, or saved; "search" what a search for a higher security level works on.
NotRunning == [at |-> "off", config |-> "none", seen |-> NoIdentity, search |-> NoIdentity,
               op |-> "none", file |-> "none", data |-> Missing, step |-> "none"]

Init ==
    /\ platform \in {"posix", "win32"}
    /\ disk = [f \in Files |-> Missing]
    /\ temp = [t \in Temporaries |-> NoTemp]
    /\ undo = NoUndo
    /\ proc = [p \in Processes |-> NotRunning]
    /\ keys = 0
    /\ crossed = {} /\ overtaken = {}
    /\ left = [saves |-> MaxSaves, faults |-> MaxFaults]

----------------------------------------------------------------------------
(* ReadSecureFile and the parsers.                                         *)

Exists(f) == disk[f].value # Missing.value

\* An incomplete or invalid identity file does not load.
LoadsIdentity == Exists("identity") /\ disk["identity"].whole

\* What loading config.conf can give: the settings in it, or an exception
\* ("broken").  A torn file may well parse: absent keys keep their defaults.
Parse(file) ==
    IF file.whole THEN {file.value.text} ELSE {"broken", "default"}

\* The settings of a remote user without a file are the defaults.
LoadUser == IF Exists("user") THEN disk["user"].value.text ELSE "default"

----------------------------------------------------------------------------
(* WriteSecureFile.                                                        *)

\* Process p, at "at", begins to save d as file f for operation op.
Saving(p, op, f, d) ==
    [proc[p] EXCEPT !.op = op, !.file = f, !.data = File(d), !.step = "create"]

Idle(p) == proc[p].at = "idle" /\ proc[p].step = "none"
Mine(p) == Temporary(p, proc[p].file)
Step(p, s) == proc' = [proc EXCEPT ![p].step = s]

\* mkstemp, or CreateFileW with CREATE_ALWAYS and no sharing: it truncates
\* what an earlier save left behind.
CreateTemporary(p) ==
    /\ proc[p].step = "create"
    /\ temp[Mine(p)].open = "nobody"
    /\ temp' = [temp EXCEPT ![Mine(p)] =
                   [data |-> [proc[p].data EXCEPT !.whole = FALSE], open |-> p, by |-> p]]
    /\ Step(p, "write")
    /\ UNCHANGED <<platform, disk, undo, keys, crossed, overtaken, left>>

\* The loop of writes ends: all of the data is in the temporary file.
WriteTemporary(p) ==
    /\ proc[p].step = "write"
    /\ temp' = [temp EXCEPT ![Mine(p)].data = proc[p].data]
    /\ Step(p, "sync")
    /\ UNCHANGED <<platform, disk, undo, keys, crossed, overtaken, left>>

\* Mutant: the temporary file is installed without having been synchronised.
MutantNoSync(p) ==
    /\ temp' = [temp EXCEPT ![Mine(p)].open = IF platform = "posix" THEN p ELSE "nobody"]
    /\ undo' = NoUndo

\* fsync or FlushFileBuffers; Windows then closes the file, POSIX only when
\* the save returns.
Synchronize(p) ==
    /\ temp' = [temp EXCEPT ![Mine(p)].data.synced = TRUE,
                            ![Mine(p)].open = IF platform = "posix" THEN p ELSE "nobody"]
    /\ undo' = NoUndo

SyncTemporary(p) ==
    /\ proc[p].step = "sync"
    /\ Synchronize(p)
    /\ Step(p, "install")
    /\ UNCHANGED <<platform, disk, keys, crossed, overtaken, left>>

\* What a process is doing once its save has returned.  The setup saves the
\* configuration after the identity; ts-cli reads its identity once it has a
\* configuration; ts-cli --security-level ends.
AfterSave(p) ==
    LET done == [proc[p] EXCEPT !.step = "none", !.op = "none", !.file = "none",
                                !.data = Missing,
                                !.seen = IF proc[p].file = "identity" THEN proc[p].data.value ELSE @]
    IN  CASE proc[p].op = "setup" /\ proc[p].file = "identity" -> [done EXCEPT !.at = "configure"]
          [] proc[p].op = "setup" /\ proc[p].file = "config"   -> [done EXCEPT !.at = "started"]
          [] proc[p].op = "raise" /\ proc[p].at = "raising"    -> NotRunning
          [] OTHER -> [done EXCEPT !.at = "idle"]

\* A save that throws ends the setup and ts-cli --security-level; everyone
\* else reports it and goes on.
AfterFailure(p) ==
    IF proc[p].at \in {"prompting", "configure", "raising"}
    THEN NotRunning
    ELSE [proc[p] EXCEPT !.step = "none", !.op = "none", !.file = "none", !.data = Missing]

\* On Windows what p installs may be what another client wrote there after p
\* had closed the file.
Crosses(p) == temp[Mine(p)].by # p

\* rename, or MoveFileExW of a file nobody has open.
Install(p) ==
    /\ proc[p].step = "install"
    /\ temp[Mine(p)].open \in {p, "nobody"}
    /\ temp[Mine(p)].data.value # Missing.value
    /\ disk' = [disk EXCEPT ![proc[p].file] = temp[Mine(p)].data]
    /\ undo' = IF platform = "posix"
               THEN [file |-> proc[p].file, was |-> disk[proc[p].file]]
               ELSE NoUndo
    /\ temp' = [temp EXCEPT ![Mine(p)] = NoTemp]
    /\ proc' = [proc EXCEPT ![p] = AfterSave(p)]
    /\ crossed' = IF Crosses(p) THEN crossed \cup {proc[p].file} ELSE crossed \ {proc[p].file}
    /\ overtaken' = IF proc[p].file = "identity" THEN Processes \ {p} ELSE overtaken
    /\ UNCHANGED <<platform, keys, left>>

\* Any step may fail (a full disk, a lost mount), and on Windows because
\* another process holds the temporary file: the file is closed.
SaveFails(p) ==
    /\ proc[p].step \in {"create", "write", "sync", "install"}
    /\ temp' = IF temp[Mine(p)].open = p THEN [temp EXCEPT ![Mine(p)].open = "nobody"] ELSE temp
    /\ proc' = [proc EXCEPT ![p] =
                   IF proc[p].step = "create" THEN AfterFailure(p) ELSE [@ EXCEPT !.step = "discard"]]
    /\ UNCHANGED <<platform, disk, undo, keys, crossed, overtaken, left>>

\* The temporary file is removed, whether that works or not, and the
\* exception goes on.
Discard(p) ==
    /\ proc[p].step = "discard"
    /\ temp' = IF temp[Mine(p)].open = "nobody" THEN [temp EXCEPT ![Mine(p)] = NoTemp] ELSE temp
    /\ proc' = [proc EXCEPT ![p] = AfterFailure(p)]
    /\ UNCHANGED <<platform, disk, undo, keys, crossed, overtaken, left>>

WriteSecureFile(p) ==
    \/ CreateTemporary(p) \/ WriteTemporary(p) \/ SyncTemporary(p)
    \/ Install(p) \/ SaveFails(p) \/ Discard(p)

----------------------------------------------------------------------------
(* Starting a client.                                                      *)

\* With a config.conf the client loads it, and without one it sets up; a
\* configuration that does not parse ends the start.
Start(p) ==
    /\ proc[p].at = "off"
    /\ \/ /\ ~Exists("config")
          /\ proc' = [proc EXCEPT ![p].at = "setup"]
       \/ /\ Exists("config")
          /\ \E c \in Parse(disk["config"]) :
               /\ c # "broken"
               /\ proc' = [proc EXCEPT ![p].at = "started", ![p].config = c]
    /\ UNCHANGED <<platform, disk, temp, undo, keys, crossed, overtaken, left>>

\* ts-cli loads the identity and ends without one; ts-gtk reads it only when
\* it connects or shows it, and reports what is wrong then.
Started(p) ==
    /\ proc[p].at = "started"
    /\ proc' = [proc EXCEPT ![p] =
                   IF p \in GtkClients THEN [@ EXCEPT !.at = "idle"]
                   ELSE IF LoadsIdentity
                   THEN [@ EXCEPT !.at = "idle", !.seen = disk["identity"].value]
                   ELSE NotRunning]
    /\ UNCHANGED <<platform, disk, temp, undo, keys, crossed, overtaken, left>>

\* ConfigSetup::Run after its first questions, and CreateDefault: an
\* identity that exists is kept, and must load.
SetupIdentity(p) ==
    /\ proc[p].at = "setup"
    /\ proc' = [proc EXCEPT ![p] =
                   IF ~Exists("identity") THEN [@ EXCEPT !.at = "prompting", !.seen = NoIdentity]
                   ELSE IF LoadsIdentity
                   THEN [@ EXCEPT !.at = "configure", !.seen = disk["identity"].value]
                   ELSE NotRunning]
    /\ overtaken' = overtaken \ {p}
    /\ UNCHANGED <<platform, disk, temp, undo, keys, crossed, left>>

\* The keys an identity can be made of: Identity{}, or a PEM file's.
Generated == IF keys < MaxKeys THEN {keys + 1} ELSE {}
Imported == IF Exists("pem") /\ disk["pem"].whole THEN {disk["pem"].value.key} ELSE {}

\* The questions about the identity are answered and it is saved.  ts-gtk
\* does not ask: it generates one at the default level.
SetupCreates(p) ==
    /\ proc[p].at = "prompting" /\ proc[p].step = "none"
    /\ \E key \in Generated \cup (IF p \in GtkClients THEN {} ELSE Imported),
          level \in IF p \in GtkClients THEN {DefaultSecurityLevel} ELSE 0 .. MaxLevel :
         /\ keys' = IF key \in Generated THEN key ELSE keys
         /\ proc' = [proc EXCEPT ![p] = Saving(p, "setup", "identity", NewIdentity(key, level))]
    /\ UNCHANGED <<platform, disk, temp, undo, crossed, overtaken, left>>

\* Both setups end by saving the configuration they made.
SetupConfigures(p) ==
    /\ proc[p].at = "configure" /\ proc[p].step = "none"
    /\ proc' = [proc EXCEPT ![p] = [Saving(p, "setup", "config", Text("default")) EXCEPT !.config = "default"]]
    /\ UNCHANGED <<platform, disk, temp, undo, keys, crossed, overtaken, left>>

\* End of input at one of the questions ends ts-cli.
PromptEnds(p) ==
    /\ proc[p].at \in {"setup", "prompting"} /\ proc[p].step = "none" /\ p \notin GtkClients
    /\ proc' = [proc EXCEPT ![p] = NotRunning]
    /\ UNCHANGED <<platform, disk, temp, undo, keys, crossed, overtaken, left>>

Quit(p) ==
    /\ Idle(p)
    /\ proc' = [proc EXCEPT ![p] = NotRunning]
    /\ UNCHANGED <<platform, disk, temp, undo, keys, crossed, overtaken, left>>

----------------------------------------------------------------------------
(* A running client.                                                       *)

Asked == left.saves > 0 /\ left' = [left EXCEPT !.saves = @ - 1]

\* Config::Update: nickname, last server or audio settings change in memory,
\* then the whole file is saved from memory.
Update(p) ==
    /\ Idle(p) /\ Asked
    /\ \E c \in Settings \ {proc[p].config} :
         proc' = [proc EXCEPT ![p] = [Saving(p, "update", "config", Text(c)) EXCEPT !.config = c]]
    /\ UNCHANGED <<platform, disk, temp, undo, keys, crossed, overtaken>>

\* UserConfigStore::Save: default settings remove the file.
SaveUser(p) ==
    /\ Idle(p) /\ Asked
    /\ \/ /\ LoadUser = "default"
          /\ proc' = [proc EXCEPT ![p] = Saving(p, "user", "user", Text("quiet"))]
          /\ UNCHANGED disk
       \/ /\ LoadUser # "default"
          /\ disk' = [disk EXCEPT !["user"] = Missing]
          /\ UNCHANGED proc
    /\ UNCHANGED <<platform, temp, undo, keys, crossed, overtaken>>

\* Mutant: the page lets the user replace an identity that is being searched.
MutantAlwaysReplaces(p) == TRUE

\* IdentityPage, once the user has confirmed: generate or import an identity.
\* Its buttons are insensitive while a search runs.
MayReplace(p) == proc[p].search = NoIdentity

\* What GenerateIdentity and ImportIdentity offer.
Replacements == Generated \cup Imported

Replace(p) ==
    /\ p \in GtkClients /\ Idle(p) /\ MayReplace(p) /\ Asked
    /\ \E key \in Replacements :
         /\ keys' = IF key \in Generated THEN key ELSE keys
         /\ proc' = [proc EXCEPT ![p] =
                        Saving(p, "replace", "identity", NewIdentity(key, DefaultSecurityLevel))]
    /\ UNCHANGED <<platform, disk, temp, undo, crossed, overtaken>>

\* ExportPem of the identity on disk.
Export(p) ==
    /\ p \in GtkClients /\ Idle(p) /\ LoadsIdentity /\ Asked
    /\ proc' = [proc EXCEPT ![p] = Saving(p, "export", "pem", NewIdentity(disk["identity"].value.key, 0))]
    /\ UNCHANGED <<platform, disk, temp, undo, keys, crossed, overtaken>>

\* IdentityStore::IncreaseSecurityLevel works on a copy of the identity on
\* disk, towards a level above its own.
Searches(p, at) ==
    /\ LoadsIdentity
    /\ \E target \in (disk["identity"].value.level + 1) .. MaxLevel :
         proc' = [proc EXCEPT ![p].at = at,
                              ![p].search = NewIdentity(disk["identity"].value.key, target),
                              ![p].seen = disk["identity"].value]
    /\ overtaken' = overtaken \ {p}
    /\ UNCHANGED <<platform, disk, temp, undo, keys, crossed, left>>

\* On the options' identity page ...
StartSearch(p) ==
    /\ p \in GtkClients /\ Idle(p) /\ proc[p].search = NoIdentity
    /\ Searches(p, "idle")

\* ... or as ts-cli --security-level, which does nothing else.
IncreaseSecurityLevel(p) ==
    /\ p \notin GtkClients /\ proc[p].at = "off"
    /\ Searches(p, "raising")

\* The search found an offset, and its result is saved.
SearchFound(p) ==
    /\ proc[p].search # NoIdentity /\ proc[p].step = "none"
    /\ proc' = [proc EXCEPT ![p] = [Saving(p, "raise", "identity", proc[p].search)
                                       EXCEPT !.search = NoIdentity]]
    /\ UNCHANGED <<platform, disk, temp, undo, keys, crossed, overtaken, left>>

\* Stopped, by the button, by closing the options or by Ctrl+C, or failed
\* because no offset was found: the identity is unchanged.
SearchStopped(p) ==
    /\ proc[p].search # NoIdentity /\ proc[p].step = "none"
    /\ proc' = [proc EXCEPT ![p] =
                   IF proc[p].at = "raising" THEN NotRunning ELSE [@ EXCEPT !.search = NoIdentity]]
    /\ UNCHANGED <<platform, disk, temp, undo, keys, crossed, overtaken, left>>

----------------------------------------------------------------------------
(* Faults and the user's own hands.                                        *)

Fault == left.faults > 0 /\ left' = [left EXCEPT !.faults = @ - 1]

\* A process dies: the system closes its files, nothing is undone.  (What
\* mkstemp created stays behind under a name that nobody opens again: the
\* model drops it.)
Kill(p) ==
    /\ proc[p].at # "off" /\ Fault
    /\ proc' = [proc EXCEPT ![p] = NotRunning]
    /\ temp' = [t \in Temporaries |->
                   IF temp[t].open # p THEN temp[t]
                   ELSE IF platform = "posix" THEN NoTemp ELSE [temp[t] EXCEPT !.open = "nobody"]]
    /\ UNCHANGED <<platform, disk, undo, keys, crossed, overtaken>>

Survives(file) == [file EXCEPT !.whole = @ /\ file.synced, !.synced = TRUE]

\* The machine loses power.
PowerLoss ==
    /\ Fault
    /\ \E after \in {disk, IF undo = NoUndo THEN disk ELSE [disk EXCEPT ![undo.file] = undo.was]} :
         disk' = [f \in Files |-> Survives(after[f])]
    /\ temp' = [t \in Temporaries |->
                   IF platform = "posix" THEN NoTemp
                   ELSE [temp[t] EXCEPT !.data = Survives(@), !.open = "nobody"]]
    /\ proc' = [p \in Processes |-> NotRunning]
    /\ undo' = NoUndo
    /\ UNCHANGED <<platform, keys, crossed, overtaken>>

\* The user removes config.conf, or edits it, rightly or wrongly.
EditConfig ==
    /\ Exists("config") /\ Fault
    /\ \E c \in {Missing} \cup {[File(Text(v)) EXCEPT !.synced = TRUE] : v \in {"default", "broken"}} :
         disk' = [disk EXCEPT !["config"] = c]
    /\ undo' = IF undo.file = "config" THEN NoUndo ELSE undo
    /\ UNCHANGED <<platform, temp, proc, keys, crossed, overtaken>>

Operation(p) ==
    \/ Start(p) \/ Started(p) \/ SetupIdentity(p) \/ SetupCreates(p) \/ SetupConfigures(p)
    \/ PromptEnds(p) \/ Quit(p) \/ Update(p) \/ SaveUser(p) \/ Replace(p) \/ Export(p)
    \/ StartSearch(p) \/ IncreaseSecurityLevel(p) \/ SearchFound(p) \/ SearchStopped(p)

Next ==
    \/ \E p \in Processes : WriteSecureFile(p) \/ Operation(p) \/ Kill(p)
    \/ PowerLoss \/ EditConfig

Spec == Init /\ [][Next]_vars

----------------------------------------------------------------------------
(* Properties.                                                             *)

\* Whatever fails, dies or loses power, the next start finds files that
\* load: each is absent or holds all of what one save wrote (WriteSecureFile
\* installs only complete, synchronised files), and a configuration implies
\* an identity, for no later start would set one up (the setup saves the
\* identity first).  With any number of clients at once; but on Windows a
\* client may install what another one wrote into the temporary file they
\* share, having begun to save the same file meanwhile: such a file may be
\* torn until it is saved again.
NextStartWorks ==
    /\ \A f \in Files : disk[f].whole \/ (platform = "win32" /\ f \in crossed)
    /\ Exists("config") => Exists("identity")

Installs(p) ==
    /\ proc[p].step = "install" /\ proc[p].file = "identity"
    /\ proc'[p].step = "none" /\ left' = left

\* The level went up, and the key stayed.
Raised(new, old) == new.key = old.key /\ new.level > old.level

\* A client takes an identity that is on disk away only when the user
\* confirmed that, and otherwise raises its level; a setup keeps one that
\* survived, and a search of this client that ends late does not bring back
\* what this client has replaced.  Between clients that does not hold: one
\* that still goes by what it read before another client saved an identity
\* saves over that one (a search: the identity it read, at a higher level; a
\* setup: a new one), and on Windows the one may install what the other
\* wrote.  There is no other way.
IdentityIsKept ==
    [][\A p \in Processes :
          Installs(p) /\ Exists("identity") =>
              \/ proc[p].op = "replace"
              \/ Raised(disk'["identity"].value, disk["identity"].value)
              \/ /\ p \in overtaken
                 /\ proc[p].op = "setup" \/ Raised(disk'["identity"].value, proc[p].seen)
              \/ platform = "win32" /\ Crosses(p)]_vars
=============================================================================
