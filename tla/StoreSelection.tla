---------------------------- MODULE StoreSelection ----------------------------
(***************************************************************************)
(* Which wallet store the app opens, and with which storage key: the       *)
(* selector and the restored generations of store_selection.rs, the files  *)
(* storage.rs and backup.rs install, and the key records of                *)
(* StorageVault.kt and StorageVault.swift, which drive both.  Android      *)
(* keeps a record in a file of the store, wrapped with a master key of the *)
(* Keystore; iOS keeps it in the Keychain.  A vault runs one call at a     *)
(* time, in steps; a call may stop at any step, the process may be killed, *)
(* and the power may fail, which takes back what a directory has not       *)
(* synced.  Entries may be lost from outside while the app is closed.      *)
(***************************************************************************)
EXTENDS Naturals, FiniteSets

CONSTANTS
  Default,      \* the root directory's own store, generation "default"
  Generations,  \* names of restored stores; random in the code
  None,
  MaxKeys,      \* bound: storage keys drawn
  MaxLosses     \* bound: entries lost from outside, by platform

ASSUME GenerationAssumption == Default \notin Generations
ASSUME AbsentAssumption ==
  None \notin {Default} \cup Generations \cup [key : 0 .. MaxKeys, initialized : BOOLEAN]
ASSUME BoundsAssumption == MaxKeys \in Nat /\ MaxLosses \in [{"android", "ios"} -> Nat]

VARIABLES
  platform, \* "android" or "ios"
  fault,    \* what goes wrong in this behaviour: the "power", or a "loss"
  seen,     \* directory entries the process sees
  kept,     \* directory entries a power failure leaves
  alias,    \* Android: stores whose master key the Keystore has
  call,     \* the vault's call in progress, or None
  handle,   \* the store whose core the app holds open, or None
  lastKey,  \* storage keys drawn so far
  opened,   \* stores ever handed to the app; not seen by the code
  damaged,  \* stores, or the selector as Default, that lost an entry; likewise
  losses    \* bound

disk == <<seen, kept, alias>>
ghosts == <<opened, damaged, losses>>
world == <<platform, fault>>
vars == <<world, disk, call, handle, lastKey, ghosts>>

Ios == platform = "ios"

Locations == {Default} \cup Generations
Keys      == 0 .. MaxKeys
Records   == [key : Keys, initialized : BOOLEAN]
Forms     == {"missing", "empty", "plain", "protected"}
Databases == [form : Forms, key : Keys, data : {"none", "legacy", "fresh", "restored"}]

Selector == <<"selector", Default>>  \* active-store.v1
Stores   == <<"stores", Default>>    \* restored-stores
Dir(g)   == <<"dir", g>>             \* a generation's directory
Key(l)   == <<"key", l>>             \* storage-key.v1; the Keychain item
Db(l)    == <<"db", l>>              \* tundra.sqlite

Entries == {Selector, Stores} \cup ({"dir"} \X Generations) \cup ({"key", "db"} \X Locations)

\* The directory an entry is in: the root, restored-stores or a generation.
Parent(e) == IF e[1] = "dir" THEN Stores ELSE Dir(e[2])

Blank(e) == CASE e[1] \in {"selector", "key"} -> None
              [] e[1] \in {"stores", "dir"}   -> FALSE
              [] e[1] = "db"                  -> [form |-> "missing", key |-> 0, data |-> "none"]

Steps == {"anchor", "anchored", "allocate", "made", "candidate", "allocated", "master", "inspect",
          "retain", "retained", "check", "upgraded", "install", "installed", "database", "create",
          "mark", "marked", "verify", "select", "selected", "done"}

Calls == [op : {"open", "restore"}, at : Steps, location : Locations, must : BOOLEAN, key : Keys]

-----------------------------------------------------------------------------
(* One step of a call *)

At(step) == call # None /\ call.at = step

Goes(step)  == call' = [call EXCEPT !.at = step]
Writes(e, value) == seen' = [seen EXCEPT ![e] = value]

Home == call.location
Record == seen[Key(Home)]
Database == seen[Db(Home)]

\* A record is a file of the store's directory, or durable in the Keychain.
WritesRecord(record) ==
  /\ Writes(Key(Home), record)
  /\ kept' = IF Ios THEN [kept EXCEPT ![Key(Home)] = record] ELSE kept

\* A directory is synced: its entries are as the process sees them.
Syncs(parent) == kept' = [e \in Entries |-> IF Parent(e) = parent THEN seen[e] ELSE kept[e]]

\* The directory of a store exists.
Exists(f, l) == l = Default \/ (f[Stores] /\ f[Dir(l)])

\* Variant: a missing selector always means the default store.
SelectedFallback(f) ==
  CASE f[Selector] = None -> Default
    [] f[Selector] # None /\ Exists(f, f[Selector]) -> f[Selector]
    [] OTHER -> None

\* read_selection: the generation to open, or None when it is refused.  A
\* missing selector is a new installation only where nothing was restored.
Selected(f) ==
  CASE f[Selector] = None /\ ~f[Stores] -> Default
    [] f[Selector] # None /\ Exists(f, f[Selector]) -> f[Selector]
    [] OTHER -> None

\* openActive, for an app without a core: the selector also says whether the
\* store must exist.
OpenActive ==
  /\ call = None /\ handle = None
  /\ Selected(seen) # None
  /\ call' = [op |-> "open", at |-> "inspect", location |-> Selected(seen),
              must |-> seen[Selector] # None, key |-> 0]
  /\ UNCHANGED <<world, disk, handle, lastKey, ghosts>>

\* Variant: a set-up that was interrupted starts over with another key.
FindRecordRekeying ==
  /\ At("inspect")
  /\ call.must => Database.form \in {"protected", "empty"}
  /\ Record # None /\ (Ios \/ Home \in alias)
  /\ call' = [call EXCEPT !.at = IF Record.initialized THEN "check" ELSE "retain",
                          !.key = Record.key]
  /\ UNCHANGED <<world, disk, handle, lastKey, ghosts>>

\* A record is read, on Android with its master key.
FindRecord ==
  /\ At("inspect")
  /\ call.must => Database.form \in {"protected", "empty"}
  /\ Record # None /\ (Ios \/ Home \in alias)
  /\ call' = [call EXCEPT !.at = "check", !.key = Record.key]
  /\ UNCHANGED <<world, disk, handle, lastKey, ghosts>>

\* Only a store without any trace of a key, and without a protected database,
\* gets one; and so does a new candidate.
Keyless ==
  /\ \/ At("inspect") /\ ~call.must /\ Database.form \in {"missing", "plain"}
     \/ At("master") /\ Database.form = "missing"
  /\ Record = None

MakeMaster ==
  /\ ~Ios
  /\ Keyless /\ Home \notin alias
  /\ alias' = alias \cup {Home}
  /\ Goes("retain")
  /\ UNCHANGED <<world, seen, kept, handle, lastKey, ghosts>>

\* A fresh random key is retained as pending, before any database has it.
AfterRetain == IF call.op = "open" THEN "check" ELSE "install"
RetainKey ==
  /\ IF Ios THEN Keyless ELSE At("retain")
  /\ lastKey < MaxKeys
  /\ lastKey' = lastKey + 1
  /\ WritesRecord([key |-> lastKey + 1, initialized |-> FALSE])
  /\ call' = [call EXCEPT !.at = IF Ios THEN AfterRetain ELSE "retained", !.key = lastKey + 1]
  /\ UNCHANGED <<world, alias, handle, ghosts>>

\* Every step that ends with the sync of a directory.
SyncStep(step, parent, next) ==
  /\ At(step)
  /\ Syncs(parent)
  /\ Goes(next)
  /\ UNCHANGED <<world, seen, alias, handle, lastKey, ghosts>>

Retained == SyncStep("retained", Dir(Home), AfterRetain)

-----------------------------------------------------------------------------
(* open: the database with the retained key *)

\* A store that must exist, or has been used, is never set up again.
MayOpen ==
  /\ call.must => Record.initialized
  /\ Record.initialized => Database.form \in {"protected", "empty"}

Opening == At("database") \/ (At("check") /\ MayOpen /\ Database.form # "plain")

\* Every open commits the schema's transaction to a new write-ahead log, and
\* SQLite syncs the directory of a log it creates.
CommitsSchema(f) ==
  kept' = [e \in Entries |-> IF Parent(e) = Dir(Home) THEN f[e] ELSE kept[e]]

\* Variant: the protected database is a new one instead of a copy.
UpgradeFresh ==
  /\ At("check") /\ MayOpen
  /\ Database.form = "plain"
  /\ Writes(Db(Home), [form |-> "protected", key |-> call.key, data |-> "fresh"])
  /\ Goes("upgraded")
  /\ UNCHANGED <<world, kept, alias, handle, lastKey, ghosts>>

\* upgradeStorage replaces the plaintext database by its encrypted copy.
Upgrade ==
  /\ At("check") /\ MayOpen
  /\ Database.form = "plain"
  /\ Writes(Db(Home), [Database EXCEPT !.form = "protected", !.key = call.key])
  /\ Goes("upgraded")
  /\ UNCHANGED <<world, kept, alias, handle, lastKey, ghosts>>

Upgraded == SyncStep("upgraded", Dir(Home), "database")

\* A missing database is created: an empty file, then a schema.
CreateFile ==
  /\ Opening
  /\ Database.form = "missing"
  /\ Writes(Db(Home), [Database EXCEPT !.form = "empty"])
  /\ Goes("create")
  /\ UNCHANGED <<world, kept, alias, handle, lastKey, ghosts>>

CreateSchema ==
  /\ At("create")
  /\ Writes(Db(Home), [form |-> "protected", key |-> call.key, data |-> "fresh"])
  /\ CommitsSchema(seen')
  /\ Goes("mark")
  /\ UNCHANGED <<world, alias, handle, lastKey, ghosts>>

\* Only the key the database was written with opens it.
OpenProtected ==
  /\ Opening
  /\ Database.form = "protected" /\ Database.key = call.key
  /\ CommitsSchema(seen)
  /\ Goes("mark")
  /\ UNCHANGED <<world, seen, alias, handle, lastKey, ghosts>>

AfterMark == IF call.op = "open" THEN "done" ELSE "verify"

\* The key is marked as in use, once, before the core is handed out.
Mark ==
  /\ At("mark")
  /\ IF Record.initialized THEN /\ Goes(AfterMark)
                                /\ UNCHANGED <<seen, kept>>
     ELSE /\ WritesRecord([Record EXCEPT !.initialized = TRUE])
          /\ Goes(IF Ios THEN AfterMark ELSE "marked")
  /\ UNCHANGED <<world, alias, handle, lastKey, ghosts>>

\* Variant: the marked record's directory is not synced.
MarkedUnsynced ==
  /\ At("marked")
  /\ Goes(AfterMark)
  /\ UNCHANGED <<world, disk, handle, lastKey, ghosts>>

Marked == SyncStep("marked", Dir(Home), AfterMark)

HandOut ==
  /\ At("done")
  /\ handle' = Home
  /\ opened' = opened \cup {Home}
  /\ call' = None
  /\ UNCHANGED <<world, disk, lastKey, damaged, losses>>

-----------------------------------------------------------------------------
(* restoreActive *)

\* Variant: the old core stays open until the restored one replaces it.
BeginKeeping ==
  /\ call = None
  /\ call' = [op |-> "restore", at |-> "anchor", location |-> Default, must |-> FALSE, key |-> 0]
  /\ UNCHANGED <<world, disk, handle, lastKey, ghosts>>

\* The app closes its core first, whatever becomes of the restore.
Begin ==
  /\ call = None
  /\ handle' = None
  /\ call' = [op |-> "restore", at |-> "anchor", location |-> Default, must |-> FALSE, key |-> 0]
  /\ UNCHANGED <<world, disk, lastKey, ghosts>>

\* The first restore makes the default store's selection explicit.
Anchor ==
  /\ At("anchor")
  /\ IF seen[Selector] = None /\ ~seen[Stores]
     THEN Writes(Selector, Default) /\ Goes("anchored")
     ELSE UNCHANGED seen /\ Goes("allocate")
  /\ UNCHANGED <<world, kept, alias, handle, lastKey, ghosts>>

Anchored == SyncStep("anchored", Dir(Default), "allocate")

MakeStores ==
  /\ At("allocate")
  /\ IF seen[Stores] THEN UNCHANGED seen /\ Goes("candidate")
                     ELSE Writes(Stores, TRUE) /\ Goes("made")
  /\ UNCHANGED <<world, kept, alias, handle, lastKey, ghosts>>

Made == SyncStep("made", Dir(Default), "candidate")

\* A new random name for the candidate; nothing is ever deleted.
Allocate(g) ==
  /\ At("candidate")
  /\ ~seen[Dir(g)] /\ g \notin alias /\ seen[Key(g)] = None
  /\ Writes(Dir(g), TRUE)
  /\ call' = [call EXCEPT !.at = "allocated", !.location = g]
  /\ UNCHANGED <<world, kept, alias, handle, lastKey, ghosts>>

Allocated == SyncStep("allocated", Stores, "master")

\* restore_backup installs the database under the retained key, never over
\* another one.
Install ==
  /\ At("install")
  /\ Database.form = "missing"
  /\ Writes(Db(Home), [form |-> "protected", key |-> call.key, data |-> "restored"])
  /\ Goes("installed")
  /\ UNCHANGED <<world, kept, alias, handle, lastKey, ghosts>>

\* Variant: the candidate is activated without opening it with the vault.
InstalledUnopened == SyncStep("installed", Dir(Home), "verify")

\* The vault opens the candidate with what it retained, and marks its key.
Installed == SyncStep("installed", Dir(Home), "inspect")

\* activate opens the database once more, with the key of this attempt.
Verify ==
  /\ At("verify")
  /\ Database.form = "protected" /\ Database.key = call.key
  /\ Syncs(Dir(Home))
  /\ Goes("select")
  /\ UNCHANGED <<world, seen, alias, handle, lastKey, ghosts>>

Select ==
  /\ At("select")
  /\ Writes(Selector, Home)
  /\ Goes("selected")
  /\ UNCHANGED <<world, kept, alias, handle, lastKey, ghosts>>

SelectedSynced == SyncStep("selected", Dir(Default), "done")

-----------------------------------------------------------------------------
(* Failures *)

\* A refusal, an error, or the process killed: what was done stays.
Stop ==
  /\ call # None
  /\ call' = None
  /\ \/ UNCHANGED handle
     \/ handle' = None
  /\ UNCHANGED <<world, disk, lastKey, ghosts>>

Close ==
  /\ call = None /\ handle # None
  /\ handle' = None
  /\ UNCHANGED <<world, disk, call, lastKey, ghosts>>

\* The system writes a directory back when it likes: its changes reach the disk
\* in their order, those of different directories in any.
WriteBack(parent) ==
  /\ fault = "power"
  /\ Syncs(parent)
  /\ UNCHANGED <<world, seen, alias, call, handle, lastKey, ghosts>>

Reached(f, e) ==
  \/ Parent(e) = Dir(Default)
  \/ Ios /\ e[1] = "key"
  \/ f[Stores] /\ (e[1] = "dir" \/ f[Dir(e[2])])

PowerLoss ==
  /\ fault = "power"
  /\ seen' = [e \in Entries |-> IF Reached(kept, e) THEN kept[e] ELSE Blank(e)]
  /\ kept' = seen'
  /\ call' = None /\ handle' = None
  /\ UNCHANGED <<world, alias, lastKey, ghosts>>

\* The Keystore, or something outside the app, loses an entry.
Loses(l) ==
  /\ fault = "loss"
  /\ call = None /\ handle = None
  /\ losses < MaxLosses[platform]
  /\ losses' = losses + 1
  /\ damaged' = damaged \cup {l}
  /\ UNCHANGED <<world, call, handle, lastKey, opened>>

LoseMaster(l) ==
  /\ Loses(l)
  /\ l \in alias
  /\ alias' = alias \ {l}
  /\ UNCHANGED <<seen, kept>>

LoseEntry(e) ==
  /\ Loses(e[2])
  /\ seen[e] # Blank(e)
  /\ seen' = [seen EXCEPT ![e] = Blank(e)]
  /\ kept' = [kept EXCEPT ![e] = Blank(e)]
  /\ UNCHANGED alias

-----------------------------------------------------------------------------
\* A new installation, or one with a database from before encryption.
SelectionInit ==
  /\ platform \in {"android", "ios"} /\ fault \in {"power", "loss"}
  /\ \E database \in {Blank(Db(Default)), [form |-> "plain", key |-> 0, data |-> "legacy"]} :
       seen = [e \in Entries |-> IF e = Db(Default) THEN database ELSE Blank(e)]
  /\ kept = seen
  /\ alias = {} /\ call = None /\ handle = None /\ lastKey = 0
  /\ opened = {} /\ damaged = {} /\ losses = 0

OpenSteps ==
  OpenActive \/ FindRecord \/ MakeMaster \/ RetainKey \/ Retained \/ Upgrade \/ Upgraded
  \/ CreateFile \/ CreateSchema \/ OpenProtected \/ Mark \/ Marked \/ HandOut

RestoreSteps ==
  Begin \/ Anchor \/ Anchored \/ MakeStores \/ Made \/ (\E g \in Generations : Allocate(g))
  \/ Allocated \/ Install \/ Installed \/ Verify \/ Select \/ SelectedSynced

Failures ==
  \/ Stop \/ Close
  \/ PowerLoss
  \/ \E parent \in {Stores} \cup {Dir(l) : l \in Locations} : WriteBack(parent)
  \/ \E l \in Locations : LoseMaster(l) \/ LoseEntry(Key(l)) \/ LoseEntry(Db(l))
  \/ LoseEntry(Selector)

SelectionNext == OpenSteps \/ RestoreSteps \/ Failures

SelectionSpec == SelectionInit /\ [][SelectionNext]_vars

-----------------------------------------------------------------------------
(* Properties *)

EntryOK(e, value) ==
  CASE e[1] = "selector" -> value \in Locations \cup {None}
    [] e[1] \in {"stores", "dir"} -> value \in BOOLEAN
    [] e[1] = "key" -> value \in Records \cup {None}
    [] e[1] = "db" -> value \in Databases

SelectionTypeOK ==
  /\ DOMAIN seen = Entries /\ DOMAIN kept = Entries
  /\ \A e \in Entries : EntryOK(e, seen[e]) /\ EntryOK(e, kept[e])
  /\ alias \subseteq Locations
  /\ call \in Calls \cup {None}
  /\ handle \in Locations \cup {None}
  /\ lastKey \in Keys
  /\ opened \subseteq Locations /\ damaged \subseteq Locations
  /\ losses \in 0 .. MaxLosses[platform]

\* The vault can open l with what the disk f has: key, database, and the marker
\* where the selector demands it.
Opens(f, l) ==
  /\ Ios \/ l \in alias
  /\ f[Key(l)] # None
  /\ f[Selector] # None => f[Key(l)].initialized
  /\ f[Db(l)].form = "protected" /\ f[Db(l)].key = f[Key(l)].key

\* Whenever a restore is stopped, and whatever a power failure takes back, a
\* selected generation can be opened: directory, database and initialized key
\* are there before the selector ("The selected generation must have both an
\* existing protected database and initialized key record").
SelectedOpens ==
  \A f \in {seen, kept} :
    f[Selector] \in Generations \ damaged => Selected(f) = f[Selector] /\ Opens(f, f[Selector])

\* A store once handed to the app can be opened again after any failure, as
\* long as its path is on the disk.  (A killed restore may leave the path
\* unsynced when its selector has won, and nothing syncs it at the next open.)
HandedOutStays ==
  \A f \in {seen, kept} : \A l \in opened \ damaged : Reached(f, Db(l)) => Opens(f, l)

\* A protected database never exists without the key it was written with: the
\* key is retained first, so neither an upgrade nor a restore can strand data
\* ("The native caller must durably retain its storage key before").
KeysRetained ==
  \A f \in {seen, kept} : \A l \in Locations \ damaged :
    f[Db(l)].form = "protected" =>
      (Ios \/ l \in alias) /\ f[Key(l)] # None /\ f[Key(l)].key = f[Db(l)].key

\* The core the app holds is the selected store's, also after a restore that
\* reported an error when its selector had already won.
HandleIsSelected == handle # None => Selected(seen) = handle

\* Once a store was handed out no empty one is ever set up in its place, even
\* when its key, its record, its database or the selector is lost, as long as
\* its path is on the disk ("A lost key must never authorize a fresh empty
\* wallet database").
NeverFreshAgain ==
  [][(\E l \in opened : Reached(seen, Db(l))) => \A l \in Locations :
       seen'[Db(l)].data = "fresh" => seen[Db(l)].data = "fresh"]_vars

\* A restored store that was handed out, and lost no entry since, is never
\* forgotten: the missing selector does not look like a new installation ("An
\* interrupted first restore cannot make a missing selector look like a new
\* install").
NeverLooksNew ==
  opened \cap (Generations \ damaged) # {} => seen[Selector] # None \/ seen[Stores]

\* The data of a store the app was handed, and a database from before
\* encryption, is only lost with an entry lost from outside: no restore,
\* upgrade, retry, kill or power failure replaces it ("Dropping it never
\* deletes old or candidate data").
DataStays ==
  [][\A l \in Locations : l \in opened \/ seen[Db(l)].data = "legacy" =>
       \/ seen'[Db(l)].data = seen[Db(l)].data
       \/ l \in damaged'
       \/ ~Reached(kept, Db(l))]_vars
=============================================================================
