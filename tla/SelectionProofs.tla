--------------------------- MODULE SelectionProofs ---------------------------
(***************************************************************************)
(* Store selection for any number of generations, keys and losses.  The    *)
(* disk is followed in two copies, as the process sees it and as a power   *)
(* failure leaves it.  A store is settled when the copies agree on a       *)
(* database and its initialized key: no step of any call changes such a    *)
(* store.  StoreInv says when a store is settled (before it is selected or *)
(* handed out), and CallInv what a call has established at each step.      *)
(***************************************************************************)
EXTENDS StoreSelection, TLAPS

\* A used store on the disk f, and one on both copies of the disk alike.
Used(f, l) ==
  /\ f[Key(l)] # None /\ f[Key(l)].initialized
  /\ f[Db(l)].form = "protected"
Synced(l)  == kept[Key(l)] = seen[Key(l)] /\ kept[Db(l)] = seen[Db(l)]
Settled(l) == Synced(l) /\ Used(seen, l)

\* A generation's directory is on both copies of the disk.
Placed(g)  == seen[Dir(g)] /\ kept[Dir(g)]

\* A power failure has taken the path to a generation back.
PathLost(l) == l \in Generations /\ ~seen[Dir(l)] /\ ~kept[Dir(l)]

\* What keeps the name of a store from being given to another one.
Claimed(l) == IF Ios THEN seen[Key(l)] # None ELSE l \in alias

\* The database of l on the disk f was written with the key of its record.
Matches(f, l) ==
  f[Db(l)].form = "protected" =>
    (Ios \/ l \in alias) /\ f[Key(l)] # None /\ f[Key(l)].key = f[Db(l)].key

DiskTypeOK(f) ==
  /\ DOMAIN f = Entries
  /\ f[Selector] \in Locations \cup {None}
  /\ f[Stores] \in BOOLEAN
  /\ \A g \in Generations : f[Dir(g)] \in BOOLEAN
  /\ \A l \in Locations : f[Key(l)] \in Records \cup {None} /\ f[Db(l)] \in Databases

TypesInv ==
  /\ platform \in {"android", "ios"} /\ fault \in {"power", "loss"}
  /\ alias \subseteq Locations
  /\ call \in Calls \cup {None}
  /\ handle \in Locations \cup {None}
  /\ lastKey \in Keys
  /\ opened \subseteq Locations /\ damaged \subseteq Locations
  /\ losses \in 0 .. MaxLosses[platform]
  /\ fault = "power" => losses = 0 /\ damaged = {}

MatchInv  == \A l \in Locations \ damaged : Matches(seen, l) /\ Matches(kept, l)
KeychainInv == Ios => \A l \in Locations : kept[Key(l)] = seen[Key(l)]
SelectorInv ==
  \A g \in Generations \ damaged :
    /\ seen[Selector] = g => seen[Stores] /\ Placed(g) /\ Settled(g)
    /\ kept[Selector] = g => kept[Stores] /\ Placed(g) /\ Settled(g)
OpenedInv ==
  \A l \in Locations : l \in opened \ damaged => Claimed(l) /\ (PathLost(l) \/ Settled(l))
StoreInv  == MatchInv /\ KeychainInv /\ SelectorInv /\ OpenedInv

DataInv ==
  \A l \in Locations :
    /\ \A f \in {seen, kept} :
         /\ f[Db(l)].form \in {"missing", "empty"} => f[Db(l)].data = "none"
         /\ f[Db(l)].data = "legacy" => l = Default
    /\ kept[Db(l)].data = "fresh"  => seen[Db(l)].data = "fresh"
    /\ seen[Db(l)].data = "legacy" => kept[Db(l)].data = "legacy"

\* The steps of an open, those of a restore that has its directory, those after
\* the key was retained, and those after the database was opened for good.
OpenAt    == {"inspect", "retain", "retained", "check", "upgraded", "database", "create",
              "mark", "marked", "done"}
PlacedAt  == {"master", "retain", "retained", "install", "installed", "inspect", "check",
              "mark", "marked", "verify", "select", "selected", "done"}
KeyedAt   == {"retained", "check", "upgraded", "database", "create", "install", "installed",
              "mark", "marked", "verify", "select", "selected", "done"}
SettledAt == {"verify", "select", "selected", "done"}

\* What the call has established of its store l.
OpenFacts(l) ==
  call.op = "open" =>
    /\ call.at \in OpenAt
    /\ Selected(seen) = l
    /\ ~call.must => l = Default /\ ~seen[Stores]
RestoreFacts(l) ==
  call.op = "restore" =>
    /\ ~call.must
    /\ call.at \in PlacedAt \cup {"anchor", "anchored", "allocate", "made", "candidate", "allocated"}
    /\ call.at \in PlacedAt \cup {"made", "candidate", "allocated"} => seen[Stores]
    /\ call.at \in PlacedAt \cup {"allocated"} => l \in Generations /\ seen[Dir(l)]
    /\ call.at \in PlacedAt => kept[Dir(l)]
    /\ call.at \in {"installed", "inspect", "check"} => seen[Db(l)].form = "protected"
    /\ call.at \in {"selected", "done"} => seen[Selector] = l
KeyFacts(l) ==
  /\ call.at = "retain" =>
       ~Ios /\ l \in alias /\ seen[Key(l)] = None /\ seen[Db(l)].form # "protected"
  /\ call.at \in KeyedAt =>
       Claimed(l) /\ seen[Key(l)] # None /\ seen[Key(l)].key = call.key
DbFacts(l) ==
  /\ call.at = "create" =>
       /\ call.op = "open" /\ ~call.must
       /\ seen[Db(l)].form = "empty" /\ ~seen[Key(l)].initialized
  /\ call.at \in {"upgraded", "database", "mark", "marked"} => seen[Db(l)].form = "protected"
  /\ call.at = "mark" => Synced(l)
  /\ call.at = "marked" => seen[Key(l)].initialized
  /\ call.at \in SettledAt => Settled(l)

CallInv ==
  call # None =>
    /\ handle = None
    /\ \A l \in Locations :
         l = Home => OpenFacts(l) /\ RestoreFacts(l) /\ KeyFacts(l) /\ DbFacts(l)

HandleInv == handle # None => Selected(seen) = handle

DiskInv == StoreInv /\ DataInv /\ DiskTypeOK(seen) /\ DiskTypeOK(kept)
SelInv  == TypesInv /\ DiskInv /\ CallInv /\ HandleInv

-----------------------------------------------------------------------------
(* Entries and directories *)

\* The entries of the disk are distinct, and each is in one directory.
LEMMA EntriesApart ==
  /\ {Selector, Stores} \subseteq Entries /\ Selector # Stores
  /\ \A g \in Generations :
       /\ Dir(g) \in Entries /\ Dir(g) \notin {Selector, Stores}
       /\ \A h \in Generations : Dir(h) = Dir(g) => h = g
       /\ \A l \in Locations : Dir(g) \notin {Key(l), Db(l)}
  /\ \A l \in Locations :
       /\ {Key(l), Db(l)} \subseteq Entries
       /\ {Key(l), Db(l)} \cap {Selector, Stores} = {}
       /\ \A m \in Locations :
            Key(l) # Db(m) /\ (Key(l) = Key(m) => l = m) /\ (Db(l) = Db(m) => l = m)
BY DEF Selector, Stores, Entries, Dir, Key, Db, Locations

LEMMA Parents ==
  /\ Parent(Selector) = Dir(Default) /\ Parent(Stores) = Dir(Default)
  /\ \A g \in Generations : Parent(Dir(g)) = Stores
  /\ \A l \in Locations : Parent(Key(l)) = Dir(l) /\ Parent(Db(l)) = Dir(l)
  /\ \A l, m \in Locations : Dir(l) = Dir(m) => l = m
  /\ \A l \in Locations : Dir(l) # Stores
BY DEF Parent, Selector, Stores, Entries, Dir, Key, Db

LEMMA Blanks ==
  /\ Blank(Selector) = None
  /\ \A g \in Generations : Blank(Dir(g)) = FALSE
  /\ \A l \in Locations :
       Blank(Key(l)) = None /\ Blank(Db(l)) = [form |-> "missing", key |-> 0, data |-> "none"]
<1>1. Selector[1] = "selector" /\ Blank(Selector) = None
  BY DEF Selector, Blank
<1>2. ASSUME NEW g \in Generations PROVE Blank(Dir(g)) = FALSE
  BY DEF Dir, Blank
<1>3. ASSUME NEW l \in Locations PROVE Blank(Key(l)) = None
  BY DEF Key, Blank
<1>4. ASSUME NEW l \in Locations
      PROVE  Blank(Db(l)) = [form |-> "missing", key |-> 0, data |-> "none"]
  BY DEF Db, Blank
<1> QED BY <1>1, <1>2, <1>3, <1>4

\* What one write, or the sync of one directory, makes of a disk.
SamePaths(f, h) ==
  /\ h[Selector] = f[Selector] /\ h[Stores] = f[Stores]
  /\ \A g \in Generations : h[Dir(g)] = f[Dir(g)]
SameStores(f, h) ==
  \A m \in Locations : h[Key(m)] = f[Key(m)] /\ h[Db(m)] = f[Db(m)]

KeyWritten(f, h, l, r) ==
  /\ DOMAIN h = Entries /\ h[Key(l)] = r /\ SamePaths(f, h)
  /\ \A m \in Locations : h[Db(m)] = f[Db(m)] /\ (m # l => h[Key(m)] = f[Key(m)])
DbWritten(f, h, l, v) ==
  /\ DOMAIN h = Entries /\ h[Db(l)] = v /\ SamePaths(f, h)
  /\ \A m \in Locations : h[Key(m)] = f[Key(m)] /\ (m # l => h[Db(m)] = f[Db(m)])
SelectorWritten(f, h, r) ==
  /\ DOMAIN h = Entries /\ h[Selector] = r /\ h[Stores] = f[Stores]
  /\ \A g \in Generations : h[Dir(g)] = f[Dir(g)]
  /\ SameStores(f, h)
StoresWritten(f, h) ==
  /\ DOMAIN h = Entries /\ h[Selector] = f[Selector] /\ h[Stores] = TRUE
  /\ \A g \in Generations : h[Dir(g)] = f[Dir(g)]
  /\ SameStores(f, h)
DirWritten(f, h, g) ==
  /\ DOMAIN h = Entries /\ h[Selector] = f[Selector] /\ h[Stores] = f[Stores]
  /\ h[Dir(g)] = TRUE
  /\ \A i \in Generations : i # g => h[Dir(i)] = f[Dir(i)]
  /\ SameStores(f, h)
StoreSynced(f, k, h, l) ==
  /\ DOMAIN h = Entries
  /\ \A g \in Generations : h[Dir(g)] = k[Dir(g)]
  /\ \A m \in Locations : IF m = l THEN h[Key(m)] = f[Key(m)] /\ h[Db(m)] = f[Db(m)]
                                   ELSE h[Key(m)] = k[Key(m)] /\ h[Db(m)] = k[Db(m)]
  /\ IF l = Default THEN h[Selector] = f[Selector] /\ h[Stores] = f[Stores]
                    ELSE h[Selector] = k[Selector] /\ h[Stores] = k[Stores]
StoresSynced(f, k, h) ==
  /\ DOMAIN h = Entries /\ h[Selector] = k[Selector] /\ h[Stores] = k[Stores]
  /\ \A g \in Generations : h[Dir(g)] = f[Dir(g)]
  /\ SameStores(k, h)

LEMMA Writing ==
  ASSUME NEW f, NEW h, NEW r, DOMAIN f = Entries
  PROVE  /\ \A l \in Locations : h = [f EXCEPT ![Key(l)] = r] => KeyWritten(f, h, l, r)
         /\ \A l \in Locations : h = [f EXCEPT ![Db(l)] = r] => DbWritten(f, h, l, r)
         /\ h = [f EXCEPT ![Selector] = r] => SelectorWritten(f, h, r)
<1>1. ASSUME NEW l \in Locations, h = [f EXCEPT ![Key(l)] = r] PROVE KeyWritten(f, h, l, r)
  BY <1>1, EntriesApart DEF KeyWritten, SamePaths
<1>2. ASSUME NEW l \in Locations, h = [f EXCEPT ![Db(l)] = r] PROVE DbWritten(f, h, l, r)
  BY <1>2, EntriesApart DEF DbWritten, SamePaths
<1>3. ASSUME h = [f EXCEPT ![Selector] = r] PROVE SelectorWritten(f, h, r)
  BY <1>3, EntriesApart DEF SelectorWritten, SameStores
<1> QED BY <1>1, <1>2, <1>3

LEMMA Making ==
  ASSUME NEW f, NEW h, DOMAIN f = Entries
  PROVE  /\ h = [f EXCEPT ![Stores] = TRUE] => StoresWritten(f, h)
         /\ \A g \in Generations : h = [f EXCEPT ![Dir(g)] = TRUE] => DirWritten(f, h, g)
<1>1. ASSUME h = [f EXCEPT ![Stores] = TRUE] PROVE StoresWritten(f, h)
  BY <1>1, EntriesApart DEF StoresWritten, SameStores
<1>2. ASSUME NEW g \in Generations, h = [f EXCEPT ![Dir(g)] = TRUE] PROVE DirWritten(f, h, g)
  BY <1>2, EntriesApart DEF DirWritten, SameStores, Locations
<1> QED BY <1>1, <1>2

LEMMA Syncing ==
  ASSUME NEW f, NEW k, NEW h, NEW d, h = [e \in Entries |-> IF Parent(e) = d THEN f[e] ELSE k[e]]
  PROVE  /\ \A l \in Locations : d = Dir(l) => StoreSynced(f, k, h, l)
         /\ d = Stores => StoresSynced(f, k, h)
<1>1. ASSUME NEW l \in Locations, d = Dir(l) PROVE StoreSynced(f, k, h, l)
  BY <1>1, EntriesApart, Parents DEF Locations, StoreSynced
<1>2. ASSUME d = Stores PROVE StoresSynced(f, k, h)
  BY <1>2, EntriesApart, Parents DEF Locations, StoresSynced, SameStores
<1> QED BY <1>1, <1>2

-----------------------------------------------------------------------------
(* What the kinds of steps do to the disk *)

Aside == UNCHANGED <<platform, opened, damaged>> /\ alias \subseteq alias'

\* A step that leaves the disk alone.
LEMMA QuietStep ==
  ASSUME DiskInv, Aside, UNCHANGED <<seen, kept>>
  PROVE  DiskInv'
<1>1. MatchInv'
  BY DEF DiskInv, StoreInv, MatchInv, Matches, Aside, Ios
<1>2. KeychainInv'
  BY DEF DiskInv, StoreInv, KeychainInv, Aside, Ios
<1>3. SelectorInv'
  BY DEF DiskInv, StoreInv, SelectorInv, Placed, Settled, Synced, Used, Aside, Locations
<1>4. OpenedInv'
  BY DEF DiskInv, StoreInv, OpenedInv, Claimed, PathLost, Settled, Synced, Used, Aside, Ios,
     Locations
<1>5. DataInv'
  BY DEF DiskInv, DataInv
<1>6. DiskTypeOK(seen)' /\ DiskTypeOK(kept)'
  BY DEF DiskInv, DiskTypeOK
<1> QED BY <1>1, <1>2, <1>3, <1>4, <1>5, <1>6 DEF DiskInv, StoreInv

\* The sync of the directory of a store.
LEMMA SyncStoreStep ==
  ASSUME DiskInv, Aside, seen' = seen, NEW l \in Locations, StoreSynced(seen, kept, kept', l)
  PROVE  DiskInv'
<1>1. MatchInv'
  BY DEF DiskInv, StoreInv, MatchInv, Matches, Aside, Ios, StoreSynced
<1>2. KeychainInv'
  BY DEF DiskInv, StoreInv, KeychainInv, Aside, Ios, StoreSynced
<1>3. SelectorInv'
  BY DEF DiskInv, StoreInv, SelectorInv, Placed, Settled, Synced, Used, Aside, Locations,
     StoreSynced
<1>4. OpenedInv'
  BY DEF DiskInv, StoreInv, OpenedInv, Claimed, PathLost, Settled, Synced, Used, Aside, Ios,
     Locations, StoreSynced
<1>5. DataInv'
  BY DEF DiskInv, DataInv, StoreSynced
<1>6. DiskTypeOK(seen)' /\ DiskTypeOK(kept)'
  BY DEF DiskInv, DiskTypeOK, StoreSynced
<1> QED BY <1>1, <1>2, <1>3, <1>4, <1>5, <1>6 DEF DiskInv, StoreInv

\* The sync of restored-stores.
LEMMA SyncStoresStep ==
  ASSUME DiskInv, Aside, seen' = seen, StoresSynced(seen, kept, kept')
  PROVE  DiskInv'
<1>1. MatchInv'
  BY DEF DiskInv, StoreInv, MatchInv, Matches, Aside, Ios, StoresSynced, SameStores
<1>2. KeychainInv'
  BY DEF DiskInv, StoreInv, KeychainInv, Aside, Ios, StoresSynced, SameStores
<1>3. SelectorInv'
  BY DEF DiskInv, StoreInv, SelectorInv, Placed, Settled, Synced, Used, Aside, Locations,
     StoresSynced, SameStores
<1>4. OpenedInv'
  BY DEF DiskInv, StoreInv, OpenedInv, Claimed, PathLost, Settled, Synced, Used, Aside, Ios,
     Locations, StoresSynced, SameStores
<1>5. DataInv'
  BY DEF DiskInv, DataInv, StoresSynced, SameStores
<1>6. DiskTypeOK(seen)' /\ DiskTypeOK(kept)'
  BY DEF DiskInv, DiskTypeOK, StoresSynced, SameStores
<1> QED BY <1>1, <1>2, <1>3, <1>4, <1>5, <1>6 DEF DiskInv, StoreInv

\* A record is written: the first one of a store that has no protected database,
\* or the same key once more.
LEMMA KeyStep ==
  ASSUME DiskInv, Aside, NEW l \in Locations, NEW r \in Records,
         KeyWritten(seen, seen', l, r),
         IF Ios THEN KeyWritten(kept, kept', l, r) ELSE kept' = kept,
         ~Used(seen, l),
         IF seen[Key(l)] = None THEN seen[Db(l)].form # "protected" ELSE seen[Key(l)].key = r.key
  PROVE  DiskInv'
<1>1. r # None
  BY AbsentAssumption DEF Records, Keys
<1>2. MatchInv'
  BY <1>1 DEF DiskInv, StoreInv, MatchInv, Matches, Aside, Ios, KeyWritten, SamePaths, KeychainInv
<1>3. KeychainInv'
  BY DEF DiskInv, StoreInv, KeychainInv, Aside, Ios, KeyWritten, SamePaths
<1>4. SelectorInv'
  BY DEF DiskInv, StoreInv, SelectorInv, Placed, Settled, Synced, Used, Aside, Locations,
     KeyWritten, SamePaths
<1>5. OpenedInv'
  BY <1>1 DEF DiskInv, StoreInv, OpenedInv, Claimed, PathLost, Settled, Synced, Used, Aside, Ios,
       Locations, KeyWritten, SamePaths
<1>6. DataInv'
  BY DEF DiskInv, DataInv, KeyWritten, SamePaths
<1>7. DiskTypeOK(seen)' /\ DiskTypeOK(kept)'
  BY DEF DiskInv, DiskTypeOK, KeyWritten, SamePaths
<1> QED BY <1>2, <1>3, <1>4, <1>5, <1>6, <1>7 DEF DiskInv, StoreInv

\* A database is written where there is no protected one.
Follows(v, l) ==
  /\ v.form = "protected" =>
       (Ios \/ l \in alias) /\ seen[Key(l)] # None /\ seen[Key(l)].key = v.key
  /\ v.form \in {"missing", "empty"} => v.data = "none"

LEMMA DbStep ==
  ASSUME DiskInv, Aside, NEW l \in Locations, NEW v \in Databases, kept' = kept,
         DbWritten(seen, seen', l, v),
         seen[Db(l)].form # "protected", Follows(v, l),
         v.data = seen[Db(l)].data \/ (v.data = "restored" /\ seen[Db(l)].form = "missing")
  PROVE  DiskInv'
<1>1. MatchInv'
  BY DEF DiskInv, StoreInv, MatchInv, Matches, Aside, Ios, DbWritten, SamePaths, Follows
<1>2. KeychainInv'
  BY DEF DiskInv, StoreInv, KeychainInv, Aside, Ios, DbWritten, SamePaths
<1>3. SelectorInv'
  BY DEF DiskInv, StoreInv, SelectorInv, Placed, Settled, Synced, Used, Aside, Locations,
     DbWritten, SamePaths
<1>4. OpenedInv'
  BY DEF DiskInv, StoreInv, OpenedInv, Claimed, PathLost, Settled, Synced, Used, Aside, Ios,
     Locations, DbWritten, SamePaths
<1>5. DataInv'
  BY DEF DiskInv, DataInv, DbWritten, SamePaths, Follows
<1>6. DiskTypeOK(seen)' /\ DiskTypeOK(kept)'
  BY DEF DiskInv, DiskTypeOK, DbWritten, SamePaths
<1> QED BY <1>1, <1>2, <1>3, <1>4, <1>5, <1>6 DEF DiskInv, StoreInv

\* A schema is written and committed where the database is an empty file.
LEMMA SchemaStep ==
  ASSUME DiskInv, Aside, NEW l \in Locations, NEW v \in Databases,
         DbWritten(seen, seen', l, v), StoreSynced(seen', kept, kept', l),
         seen[Db(l)].form = "empty", Follows(v, l), v.form = "protected", v.data = "fresh"
  PROVE  DiskInv'
<1>1. MatchInv'
  BY DEF DiskInv, StoreInv, MatchInv, Matches, Aside, Ios, DbWritten, SamePaths, StoreSynced,
     Follows
<1>2. KeychainInv'
  BY DEF DiskInv, StoreInv, KeychainInv, Aside, Ios, DbWritten, SamePaths, StoreSynced
<1>3. SelectorInv'
  BY DEF DiskInv, StoreInv, SelectorInv, Placed, Settled, Synced, Used, Aside, Locations,
     DbWritten, SamePaths, StoreSynced
<1>4. OpenedInv'
  BY DEF DiskInv, StoreInv, OpenedInv, Claimed, PathLost, Settled, Synced, Used, Aside, Ios,
     Locations, DbWritten, SamePaths, StoreSynced
<1>5. DataInv'
  BY DEF DiskInv, DataInv, DbWritten, SamePaths, StoreSynced
<1>6. DiskTypeOK(seen)' /\ DiskTypeOK(kept)'
  BY DEF DiskInv, DiskTypeOK, DbWritten, SamePaths, StoreSynced
<1> QED BY <1>1, <1>2, <1>3, <1>4, <1>5, <1>6 DEF DiskInv, StoreInv

\* A new selection, of a store that is placed and settled unless it is the first.
LEMMA SelectorStep ==
  ASSUME DiskInv, Aside, NEW l \in Locations, kept' = kept,
         SelectorWritten(seen, seen', l),
         l \in Generations => seen[Stores] /\ Placed(l) /\ Settled(l)
  PROVE  DiskInv'
<1>1. MatchInv'
  BY DEF DiskInv, StoreInv, MatchInv, Matches, Aside, Ios, SelectorWritten, SameStores
<1>2. KeychainInv'
  BY DEF DiskInv, StoreInv, KeychainInv, Aside, Ios, SelectorWritten, SameStores
<1>3. SelectorInv'
  BY DEF DiskInv, StoreInv, SelectorInv, Placed, Settled, Synced, Used, Aside, Locations,
     SelectorWritten, SameStores
<1>4. OpenedInv'
  BY DEF DiskInv, StoreInv, OpenedInv, Claimed, PathLost, Settled, Synced, Used, Aside, Ios,
     Locations, SelectorWritten, SameStores
<1>5. DataInv'
  BY DEF DiskInv, DataInv, SelectorWritten, SameStores
<1>6. DiskTypeOK(seen)' /\ DiskTypeOK(kept)'
  BY DEF DiskInv, DiskTypeOK, SelectorWritten, SameStores
<1> QED BY <1>1, <1>2, <1>3, <1>4, <1>5, <1>6 DEF DiskInv, StoreInv

\* restored-stores is made.
LEMMA MakeStoresStep ==
  ASSUME DiskInv, Aside, kept' = kept, StoresWritten(seen, seen')
  PROVE  DiskInv'
<1>1. MatchInv'
  BY DEF DiskInv, StoreInv, MatchInv, Matches, Aside, Ios, StoresWritten, SameStores
<1>2. KeychainInv'
  BY DEF DiskInv, StoreInv, KeychainInv, Aside, Ios, StoresWritten, SameStores
<1>3. SelectorInv'
  BY DEF DiskInv, StoreInv, SelectorInv, Placed, Settled, Synced, Used, Aside, Locations,
     StoresWritten, SameStores
<1>4. OpenedInv'
  BY DEF DiskInv, StoreInv, OpenedInv, Claimed, PathLost, Settled, Synced, Used, Aside, Ios,
     Locations, StoresWritten, SameStores
<1>5. DataInv'
  BY DEF DiskInv, DataInv, StoresWritten, SameStores
<1>6. DiskTypeOK(seen)' /\ DiskTypeOK(kept)'
  BY DEF DiskInv, DiskTypeOK, StoresWritten, SameStores
<1> QED BY <1>1, <1>2, <1>3, <1>4, <1>5, <1>6 DEF DiskInv, StoreInv

\* The directory of a generation is made, under a name nothing claims.
LEMMA AllocateStep ==
  ASSUME DiskInv, Aside, NEW g \in Generations, kept' = kept,
         DirWritten(seen, seen', g), ~Claimed(g)
  PROVE  DiskInv'
<1>1. MatchInv'
  BY DEF DiskInv, StoreInv, MatchInv, Matches, Aside, Ios, DirWritten, SameStores
<1>2. KeychainInv'
  BY DEF DiskInv, StoreInv, KeychainInv, Aside, Ios, DirWritten, SameStores
<1>3. SelectorInv'
  BY DEF DiskInv, StoreInv, SelectorInv, Placed, Settled, Synced, Used, Aside, Locations,
     DirWritten, SameStores
<1>4. OpenedInv'
  BY DEF DiskInv, StoreInv, OpenedInv, Claimed, PathLost, Settled, Synced, Used, Aside, Ios,
     Locations, DirWritten, SameStores
<1>5. DataInv'
  BY DEF DiskInv, DataInv, DirWritten, SameStores
<1>6. DiskTypeOK(seen)' /\ DiskTypeOK(kept)'
  BY DEF DiskInv, DiskTypeOK, DirWritten, SameStores
<1> QED BY <1>1, <1>2, <1>3, <1>4, <1>5, <1>6 DEF DiskInv, StoreInv

\* What the disk k leaves of an entry when the power fails.
LEMMA Paths ==
  ASSUME NEW f
  PROVE  /\ Reached(f, Selector) /\ Reached(f, Stores)
         /\ \A g \in Generations : Reached(f, Dir(g)) <=> f[Stores]
         /\ \A l \in Locations : /\ Reached(f, Db(l)) <=> Exists(f, l)
                                 /\ Reached(f, Key(l)) <=> Ios \/ Exists(f, l)
<1>1. Reached(f, Selector) /\ Reached(f, Stores)
  BY Parents DEF Reached
<1>2. ASSUME NEW g \in Generations PROVE Reached(f, Dir(g)) <=> f[Stores]
  <2>1. Parent(Dir(g)) # Dir(Default)
    BY <1>2, Parents DEF Locations
  <2>2. Dir(g)[1] = "dir"
    BY DEF Dir
  <2> QED BY <2>1, <2>2 DEF Reached
<1>3. ASSUME NEW l \in Locations
      PROVE  /\ Reached(f, Db(l)) <=> Exists(f, l)
             /\ Reached(f, Key(l)) <=> Ios \/ Exists(f, l)
  <2>1. /\ Parent(Db(l)) = Dir(l) /\ Parent(Key(l)) = Dir(l)
        /\ Dir(l) = Dir(Default) <=> l = Default
    BY Parents DEF Locations
  <2>2. Db(l)[1] = "db" /\ Db(l)[2] = l /\ Key(l)[1] = "key" /\ Key(l)[2] = l
    BY DEF Db, Key
  <2> QED BY <2>1, <2>2 DEF Reached, Exists
<1> QED BY <1>1, <1>2, <1>3

\* What the power fails to take back from the disk f is h.
Missing == [form |-> "missing", key |-> 0, data |-> "none"]
PowerFailed(f, h) ==
  /\ DOMAIN h = Entries /\ h[Selector] = f[Selector] /\ h[Stores] = f[Stores]
  /\ \A g \in Generations : h[Dir(g)] = IF f[Stores] THEN f[Dir(g)] ELSE FALSE
  /\ \A l \in Locations :
       /\ h[Db(l)] = IF Exists(f, l) THEN f[Db(l)] ELSE Missing
       /\ h[Key(l)] = IF Ios \/ Exists(f, l) THEN f[Key(l)] ELSE None

LEMMA Failing ==
  ASSUME NEW f, NEW h, h = [e \in Entries |-> IF Reached(f, e) THEN f[e] ELSE Blank(e)]
  PROVE  PowerFailed(f, h)
<1>1. DOMAIN h = Entries /\ h[Selector] = f[Selector] /\ h[Stores] = f[Stores]
  BY Paths, EntriesApart
<1>2. ASSUME NEW g \in Generations PROVE h[Dir(g)] = IF f[Stores] THEN f[Dir(g)] ELSE FALSE
  BY Paths, EntriesApart, Blanks
<1>3. ASSUME NEW l \in Locations
      PROVE  /\ h[Db(l)] = IF Exists(f, l) THEN f[Db(l)] ELSE Missing
             /\ h[Key(l)] = IF Ios \/ Exists(f, l) THEN f[Key(l)] ELSE None
  BY Paths, EntriesApart, Blanks DEF Missing
<1> QED BY <1>1, <1>2, <1>3 DEF PowerFailed

LEMMA PowerStep ==
  ASSUME DiskInv, UNCHANGED <<platform, alias, opened, damaged>>, damaged = {},
         PowerFailed(kept, seen'), kept' = seen'
  PROVE  DiskInv'
<1>1. MatchInv'
  BY DEF PowerFailed, DiskInv, StoreInv, MatchInv, Matches, Missing, Ios
<1>2. KeychainInv'
  BY DEF PowerFailed, DiskInv, StoreInv, KeychainInv, Ios
<1>3. SelectorInv'
  <2>1. SUFFICES ASSUME NEW g \in Generations, kept[Selector] = g
                 PROVE  seen'[Stores] /\ Placed(g)' /\ Settled(g)'
    BY DEF SelectorInv, PowerFailed, Placed, Settled, Synced, Used
  <2>2. kept[Stores] /\ kept[Dir(g)] /\ Placed(g) /\ Settled(g)
    BY <2>1 DEF DiskInv, StoreInv, SelectorInv, Placed
  <2>3. Exists(kept, g) /\ g \in Locations
    BY <2>2 DEF Exists, Locations
  <2>4. seen'[Stores] /\ Placed(g)'
    BY <2>1, <2>2 DEF PowerFailed, Placed
  <2>5. Settled(g)'
    BY <2>2, <2>3 DEF PowerFailed, Settled, Synced, Used
  <2> QED BY <2>4, <2>5
<1>4. OpenedInv'
  <2>1. SUFFICES ASSUME NEW l \in Locations, l \in opened
                 PROVE  Claimed(l)' /\ (PathLost(l)' \/ Settled(l)')
    BY DEF OpenedInv
  <2>2. Claimed(l) /\ (PathLost(l) \/ Settled(l))
    BY <2>1 DEF DiskInv, StoreInv, OpenedInv
  <2>3. Claimed(l)'
    BY <2>1, <2>2 DEF Claimed, DiskInv, StoreInv, KeychainInv, PowerFailed, Ios
  <2>4. ASSUME Exists(kept, l), Settled(l) PROVE Settled(l)'
    BY <2>1, <2>4 DEF PowerFailed, Settled, Synced, Used
  <2>5. ASSUME ~Exists(kept, l) \/ PathLost(l) PROVE PathLost(l)'
    <3>1. l \in Generations /\ (~kept[Stores] \/ ~kept[Dir(l)])
      BY <2>1, <2>5 DEF PathLost, Exists, Locations
    <3>2. ~seen'[Dir(l)] /\ ~kept'[Dir(l)]
      BY <3>1 DEF PowerFailed, DiskInv, DiskTypeOK
    <3> QED BY <3>1, <3>2 DEF PathLost
  <2> QED BY <2>2, <2>3, <2>4, <2>5
<1>5. DataInv'
  BY DEF PowerFailed, DiskInv, DataInv, Missing
<1>6. DiskTypeOK(seen)' /\ DiskTypeOK(kept)'
  <2>1. Missing \in Databases
    BY BoundsAssumption DEF Missing, Databases, Forms, Keys
  <2> QED BY <2>1 DEF PowerFailed, DiskInv, DiskTypeOK
<1> QED BY <1>1, <1>2, <1>3, <1>4, <1>5, <1>6 DEF DiskInv, StoreInv

\* An entry is lost from outside.
LEMMA MasterLossStep ==
  ASSUME DiskInv, NEW l \in Locations, UNCHANGED <<platform, opened, seen, kept>>,
         damaged' = damaged \cup {l}, alias' = alias \ {l}
  PROVE  DiskInv'
<1>1. MatchInv'
  BY DEF DiskInv, StoreInv, MatchInv, Matches, Ios
<1>2. KeychainInv' /\ SelectorInv'
  BY DEF DiskInv, StoreInv, KeychainInv, SelectorInv, Placed, Settled, Synced, Used, Ios
<1>3. OpenedInv'
  BY DEF DiskInv, StoreInv, OpenedInv, Claimed, PathLost, Settled, Synced, Used, Ios
<1>4. DataInv' /\ DiskTypeOK(seen)' /\ DiskTypeOK(kept)'
  BY DEF DiskInv, DataInv, DiskTypeOK
<1> QED BY <1>1, <1>2, <1>3, <1>4 DEF DiskInv, StoreInv

LEMMA KeyLossStep ==
  ASSUME DiskInv, NEW l \in Locations, UNCHANGED <<platform, opened, alias>>,
         damaged' = damaged \cup {l},
         KeyWritten(seen, seen', l, None), KeyWritten(kept, kept', l, None)
  PROVE  DiskInv'
<1>1. MatchInv'
  BY DEF KeyWritten, DiskInv, StoreInv, MatchInv, Matches, Ios
<1>2. KeychainInv'
  BY DEF KeyWritten, DiskInv, StoreInv, KeychainInv, Ios
<1>3. SelectorInv'
  BY DEF KeyWritten, SamePaths, DiskInv, StoreInv, SelectorInv, Placed, Settled, Synced, Used,
     Locations
<1>4. OpenedInv'
  BY DEF KeyWritten, SamePaths, DiskInv, StoreInv, OpenedInv, Claimed, PathLost, Settled, Synced,
     Used, Ios
<1>5. DataInv' /\ DiskTypeOK(seen)' /\ DiskTypeOK(kept)'
  BY DEF KeyWritten, SamePaths, DiskInv, DataInv, DiskTypeOK
<1> QED BY <1>1, <1>2, <1>3, <1>4, <1>5 DEF DiskInv, StoreInv

LEMMA DbLossStep ==
  ASSUME DiskInv, NEW l \in Locations, UNCHANGED <<platform, opened, alias>>,
         damaged' = damaged \cup {l},
         DbWritten(seen, seen', l, Missing), DbWritten(kept, kept', l, Missing)
  PROVE  DiskInv'
<1>1. MatchInv'
  BY DEF DbWritten, DiskInv, StoreInv, MatchInv, Matches, Ios
<1>2. KeychainInv'
  BY DEF DbWritten, DiskInv, StoreInv, KeychainInv, Ios
<1>3. SelectorInv'
  BY DEF DbWritten, SamePaths, DiskInv, StoreInv, SelectorInv, Placed, Settled, Synced, Used,
     Locations
<1>4. OpenedInv'
  BY DEF DbWritten, SamePaths, DiskInv, StoreInv, OpenedInv, Claimed, PathLost, Settled, Synced,
     Used, Ios
<1>5. DataInv'
  BY DEF DbWritten, DiskInv, DataInv, Missing
<1>6. DiskTypeOK(seen)' /\ DiskTypeOK(kept)'
  <2>1. Missing \in Databases
    BY BoundsAssumption DEF Missing, Databases, Forms, Keys
  <2> QED BY <2>1 DEF DbWritten, SamePaths, DiskInv, DiskTypeOK
<1> QED BY <1>1, <1>2, <1>3, <1>4, <1>5, <1>6 DEF DiskInv, StoreInv

LEMMA SelectorLossStep ==
  ASSUME DiskInv, UNCHANGED <<platform, opened, alias>>, damaged' = damaged \cup {Default},
         SelectorWritten(seen, seen', None), SelectorWritten(kept, kept', None)
  PROVE  DiskInv'
<1>1. MatchInv'
  BY DEF SelectorWritten, SameStores, DiskInv, StoreInv, MatchInv, Matches, Ios
<1>2. KeychainInv'
  BY DEF SelectorWritten, SameStores, DiskInv, StoreInv, KeychainInv, Ios
<1>3. SelectorInv'
  BY AbsentAssumption DEF SelectorWritten, SelectorInv
<1>4. OpenedInv'
  BY DEF SelectorWritten, SameStores, DiskInv, StoreInv, OpenedInv, Claimed, PathLost, Settled,
     Synced, Used, Ios
<1>5. DataInv' /\ DiskTypeOK(seen)' /\ DiskTypeOK(kept)'
  BY DEF SelectorWritten, SameStores, DiskInv, DataInv, DiskTypeOK
<1> QED BY <1>1, <1>2, <1>3, <1>4, <1>5 DEF DiskInv, StoreInv

\* A store is handed to the app.
LEMMA HandOutStep ==
  ASSUME DiskInv, NEW l \in Locations, UNCHANGED <<platform, alias, seen, kept, damaged>>,
         opened' = opened \cup {l}, Claimed(l), Settled(l)
  PROVE  DiskInv'
<1>1. MatchInv' /\ KeychainInv'
  BY DEF DiskInv, StoreInv, MatchInv, KeychainInv, Matches, Ios
<1>2. SelectorInv'
  BY DEF DiskInv, StoreInv, SelectorInv, Placed, Settled, Synced, Used
<1>3. OpenedInv'
  BY DEF DiskInv, StoreInv, OpenedInv, Claimed, PathLost, Settled, Synced, Used, Ios
<1>4. DataInv' /\ DiskTypeOK(seen)' /\ DiskTypeOK(kept)'
  BY DEF DiskInv, DataInv, DiskTypeOK
<1> QED BY <1>1, <1>2, <1>3, <1>4 DEF DiskInv, StoreInv

-----------------------------------------------------------------------------
(* Every step of a call *)

Rest == <<world, handle, ghosts>>

\* What is known of a call in progress and its store.
LEMMA Calling ==
  ASSUME SelInv, call # None
  PROVE  /\ call \in Calls /\ handle = None
         /\ \E l \in Locations :
              l = call.location /\ OpenFacts(l) /\ RestoreFacts(l) /\ KeyFacts(l) /\ DbFacts(l)
BY DEF SelInv, TypesInv, CallInv, Calls, Home

\* The same paths select the same store.
LEMMA SameSelection ==
  ASSUME NEW f, NEW h, f[Selector] \in Locations \cup {None}, SamePaths(f, h)
  PROVE  Selected(h) = Selected(f)
<1>1. PICK s \in Locations \cup {None} : s = f[Selector] /\ s = h[Selector]
  BY DEF SamePaths
<1>2. s # None => (Exists(h, s) <=> Exists(f, s))
  BY <1>1 DEF Exists, SamePaths, Locations
<1>3. h[Stores] = f[Stores]
  BY DEF SamePaths
<1> QED BY <1>1, <1>2, <1>3 DEF Selected

\* A call that goes on keeps the invariant when the disk's and its own are kept.
LEMMA GoesOn ==
  ASSUME SelInv, NEW l \in Locations, UNCHANGED Rest, call # None,
         call' \in Calls, call'.location = l, alias' \subseteq Locations, lastKey' \in Keys,
         DiskInv', OpenFacts(l)', RestoreFacts(l)', KeyFacts(l)', DbFacts(l)'
  PROVE  SelInv'
<1>1. handle' = None
  BY Calling DEF Rest
<1>2. TypesInv'
  BY <1>1 DEF SelInv, TypesInv, Rest, world, ghosts
<1>3. CallInv' /\ HandleInv'
  BY <1>1 DEF CallInv, HandleInv, Home
<1> QED BY <1>2, <1>3 DEF SelInv

LEMMA FindRecordStep == ASSUME SelInv, FindRecord PROVE SelInv'
<1>1. PICK l \in Locations :
        l = call.location /\ OpenFacts(l) /\ RestoreFacts(l) /\ KeyFacts(l) /\ DbFacts(l)
  BY Calling DEF FindRecord, At
<1>2. /\ call \in Calls /\ call # None /\ call.at = "inspect"
      /\ seen[Key(l)] # None /\ (Ios \/ l \in alias)
      /\ call' = [call EXCEPT !.at = "check", !.key = seen[Key(l)].key]
      /\ UNCHANGED <<Rest, seen, kept, alias, lastKey>>
  BY <1>1, Calling DEF FindRecord, At, Home, Record, Rest, disk
<1>3. seen[Key(l)] \in Records
  BY <1>2 DEF SelInv, DiskInv, DiskTypeOK
<1>4. /\ call' \in Calls /\ call'.op = call.op /\ call'.at = "check" /\ call'.location = l
      /\ call'.must = call.must /\ call'.key = seen[Key(l)].key
  BY <1>1, <1>2, <1>3 DEF Calls, Records, Steps
<1>5. DiskInv'
  BY <1>2, QuietStep DEF SelInv, Rest, world, ghosts, Aside
<1>6. OpenFacts(l)' /\ RestoreFacts(l)'
  BY <1>1, <1>2, <1>4 DEF OpenFacts, OpenAt, Selected, Exists, RestoreFacts, PlacedAt
<1>7. KeyFacts(l)' /\ DbFacts(l)'
  BY <1>1, <1>2, <1>4 DEF KeyFacts, KeyedAt, Claimed, Ios, Rest, world, DbFacts, SettledAt
<1> QED BY <1>1, <1>2, <1>4, <1>5, <1>6, <1>7, GoesOn DEF SelInv, TypesInv

LEMMA MakeMasterStep == ASSUME SelInv, MakeMaster PROVE SelInv'
<1>1. PICK l \in Locations :
        l = call.location /\ OpenFacts(l) /\ RestoreFacts(l) /\ KeyFacts(l) /\ DbFacts(l)
  BY Calling DEF MakeMaster, Keyless, At
<1>2. /\ call \in Calls /\ call # None /\ call.at \in {"inspect", "master"} /\ ~Ios
      /\ seen[Key(l)] = None /\ seen[Db(l)].form # "protected"
      /\ call' = [call EXCEPT !.at = "retain"] /\ alias' = alias \cup {l}
      /\ UNCHANGED <<Rest, seen, kept, lastKey>>
  BY <1>1, Calling DEF MakeMaster, Keyless, Goes, At, Home, Record, Database, Rest
<1>3. /\ call' \in Calls /\ call'.op = call.op /\ call'.at = "retain" /\ call'.location = l
      /\ call'.must = call.must
  BY <1>1, <1>2 DEF Calls, Steps
<1>4. DiskInv'
  BY <1>2, QuietStep DEF SelInv, Rest, world, ghosts, Aside
<1>5. OpenFacts(l)' /\ RestoreFacts(l)'
  BY <1>1, <1>2, <1>3 DEF OpenFacts, OpenAt, Selected, Exists, RestoreFacts, PlacedAt
<1>6. KeyFacts(l)' /\ DbFacts(l)'
  BY <1>2, <1>3 DEF KeyFacts, KeyedAt, Ios, Rest, world, DbFacts, SettledAt
<1> QED BY <1>2, <1>3, <1>4, <1>5, <1>6, GoesOn DEF SelInv, TypesInv

LEMMA RetainKeyStep == ASSUME SelInv, RetainKey PROVE SelInv'
<1>1. PICK l \in Locations :
        l = call.location /\ OpenFacts(l) /\ RestoreFacts(l) /\ KeyFacts(l) /\ DbFacts(l)
  BY Calling DEF RetainKey, Keyless, At
<1> DEFINE r == [key |-> lastKey + 1, initialized |-> FALSE]
<1>2. /\ call \in Calls /\ call # None /\ lastKey < MaxKeys /\ lastKey' = lastKey + 1
      /\ call.at \in IF Ios THEN {"inspect", "master"} ELSE {"retain"}
      /\ call' = [call EXCEPT !.at = IF Ios THEN AfterRetain ELSE "retained", !.key = lastKey + 1]
      /\ seen' = [seen EXCEPT ![Key(l)] = r]
      /\ kept' = IF Ios THEN [kept EXCEPT ![Key(l)] = r] ELSE kept
      /\ UNCHANGED <<Rest, alias>>
  BY <1>1, Calling DEF RetainKey, Keyless, At, Home, WritesRecord, Writes, Rest
<1>3. /\ seen[Key(l)] = None /\ seen[Db(l)].form # "protected"
      /\ Ios \/ l \in alias
      /\ Ios /\ call.at = "inspect" => call.op = "open"
  BY <1>1, <1>2 DEF RetainKey, Keyless, At, Home, Record, Database, KeyFacts, RestoreFacts, Calls
<1>4. lastKey' \in Keys /\ r \in Records /\ r.key = lastKey + 1
  BY <1>2, BoundsAssumption DEF SelInv, TypesInv, Keys, Records
<1>5. KeyWritten(seen, seen', l, r) /\ IF Ios THEN KeyWritten(kept, kept', l, r) ELSE kept' = kept
  BY <1>2, Writing DEF SelInv, DiskInv, DiskTypeOK
<1>6. DiskInv'
  <2> HIDE DEF r
  <2> QED BY <1>2, <1>3, <1>4, <1>5, KeyStep DEF SelInv, Rest, world, ghosts, Aside, Used
<1>7. /\ call' \in Calls /\ call'.op = call.op /\ call'.location = l
      /\ call'.must = call.must /\ call'.key = r.key
      /\ call'.at = IF ~Ios THEN "retained" ELSE IF call.op = "open" THEN "check" ELSE "install"
  BY <1>1, <1>2, <1>4 DEF Calls, Steps, AfterRetain
<1> HIDE DEF r
<1>8. OpenFacts(l)'
  <2>1. SamePaths(seen, seen') /\ Selected(seen)' = Selected(seen)
    BY <1>5, SameSelection DEF KeyWritten, SelInv, DiskInv, DiskTypeOK
  <2> QED BY <1>1, <1>2, <1>3, <1>7, <2>1 DEF OpenFacts, OpenAt, SamePaths
<1>9. RestoreFacts(l)'
  BY <1>1, <1>2, <1>3, <1>5, <1>7 DEF RestoreFacts, PlacedAt, KeyWritten, SamePaths
<1>10. KeyFacts(l)' /\ DbFacts(l)'
  <2>1. r # None
    BY <1>4, AbsentAssumption DEF Records, Keys
  <2> QED BY <2>1, <1>2, <1>3, <1>5, <1>7 DEF KeyFacts, KeyedAt, Claimed, Ios, Rest, world, KeyWritten,
               DbFacts, SettledAt
<1> QED BY <1>2, <1>4, <1>6, <1>7, <1>8, <1>9, <1>10, GoesOn DEF SelInv, TypesInv

\* The sync of the call's own directory, at any of its steps.
LEMMA HomeSynced ==
  ASSUME SelInv, NEW l \in Locations, call # None, l = call.location, call \in Calls,
         NEW next \in Steps, call' = [call EXCEPT !.at = next],
         seen' = seen, StoreSynced(seen, kept, kept', l), UNCHANGED <<Rest, alias, lastKey>>,
         OpenFacts(l), RestoreFacts(l), KeyFacts(l), DbFacts(l),
         call.at \in KeyedAt, next \in KeyedAt \cup {"inspect"},
         call.op = "open" => next \in OpenAt,
         call.op = "restore" =>
           /\ call.at \in PlacedAt /\ next \in PlacedAt
           /\ next \in {"inspect", "check"} => seen[Db(l)].form = "protected"
           /\ next # "installed"
           /\ next \in {"selected", "done"} => call.at = "selected",
         next # "create",
         next \in {"database", "mark", "marked"} \cup SettledAt => seen[Db(l)].form = "protected",
         next # "upgraded",
         next \in {"marked"} \cup SettledAt => seen[Key(l)].initialized
  PROVE  SelInv'
<1>1. /\ call' \in Calls /\ call'.op = call.op /\ call'.at = next /\ call'.location = l
      /\ call'.must = call.must /\ call'.key = call.key
  BY DEF Calls
<1>2. DiskInv'
  BY SyncStoreStep DEF SelInv, Rest, world, ghosts, Aside
<1>3. OpenFacts(l)'
  BY <1>1 DEF OpenFacts, Selected, Exists
<1>4. RestoreFacts(l)'
  BY <1>1 DEF RestoreFacts, PlacedAt, StoreSynced
<1>5. KeyFacts(l)'
  BY <1>1 DEF KeyFacts, KeyedAt, Claimed, Ios, Rest, world
<1>6. DbFacts(l)'
  BY <1>1 DEF DbFacts, KeyFacts, KeyedAt, SettledAt, Settled, Synced, Used, StoreSynced
<1> QED BY <1>1, <1>2, <1>3, <1>4, <1>5, <1>6, GoesOn DEF SelInv, TypesInv

LEMMA HomeSync ==
  ASSUME SelInv, NEW l \in Locations, l = call.location, Syncs(Dir(Home))
  PROVE  StoreSynced(seen, kept, kept', l)
BY Syncing DEF Syncs, Home

LEMMA RetainedStep == ASSUME SelInv, Retained PROVE SelInv'
<1>1. PICK l \in Locations :
        l = call.location /\ OpenFacts(l) /\ RestoreFacts(l) /\ KeyFacts(l) /\ DbFacts(l)
  BY Calling DEF Retained, SyncStep, At
<1>2. /\ call \in Calls /\ call # None /\ call.at = "retained"
      /\ call' = [call EXCEPT !.at = AfterRetain]
      /\ seen' = seen /\ StoreSynced(seen, kept, kept', l)
      /\ UNCHANGED <<Rest, alias, lastKey>>
  BY <1>1, Calling, HomeSync DEF Retained, SyncStep, At, Goes, Rest
<1>3. PICK next \in Steps :
        next = AfterRetain /\ next = IF call.op = "open" THEN "check" ELSE "install"
  BY DEF AfterRetain, Steps
<1> QED BY <1>1, <1>2, <1>3, HomeSynced DEF KeyedAt, OpenAt, PlacedAt, SettledAt

LEMMA UpgradedStep == ASSUME SelInv, Upgraded PROVE SelInv'
<1>1. PICK l \in Locations :
        l = call.location /\ OpenFacts(l) /\ RestoreFacts(l) /\ KeyFacts(l) /\ DbFacts(l)
  BY Calling DEF Upgraded, SyncStep, At
<1>2. /\ call \in Calls /\ call # None /\ call.at = "upgraded"
      /\ call' = [call EXCEPT !.at = "database"]
      /\ seen' = seen /\ StoreSynced(seen, kept, kept', l)
      /\ UNCHANGED <<Rest, alias, lastKey>>
  BY <1>1, Calling, HomeSync DEF Upgraded, SyncStep, At, Goes, Rest
<1>3. call.op # "restore" /\ seen[Db(l)].form = "protected"
  BY <1>1, <1>2 DEF RestoreFacts, PlacedAt, DbFacts
<1>4. "database" \in Steps
  BY DEF Steps
<1> QED BY <1>1, <1>2, <1>3, <1>4, HomeSynced DEF KeyedAt, OpenAt, SettledAt

LEMMA OpenProtectedStep == ASSUME SelInv, OpenProtected PROVE SelInv'
<1>1. PICK l \in Locations :
        l = call.location /\ OpenFacts(l) /\ RestoreFacts(l) /\ KeyFacts(l) /\ DbFacts(l)
  BY Calling DEF OpenProtected, Opening, At
<1>2. /\ call \in Calls /\ call # None /\ call.at \in {"database", "check"}
      /\ call' = [call EXCEPT !.at = "mark"] /\ seen[Db(l)].form = "protected"
      /\ seen' = seen /\ Syncs(Dir(Home))
      /\ UNCHANGED <<Rest, alias, lastKey>>
  BY <1>1, Calling DEF OpenProtected, Opening, At, Goes, Rest, CommitsSchema, Syncs, Database, Home
<1>3. StoreSynced(seen, kept, kept', l)
  BY <1>1, <1>2, HomeSync
<1>4. call.op = "restore" => call.at = "check"
  BY <1>1, <1>2 DEF RestoreFacts, PlacedAt
<1>5. "mark" \in Steps
  BY DEF Steps
<1> QED BY <1>1, <1>2, <1>3, <1>4, <1>5, HomeSynced DEF KeyedAt, OpenAt, PlacedAt, SettledAt

LEMMA MarkedStep == ASSUME SelInv, Marked PROVE SelInv'
<1>1. PICK l \in Locations :
        l = call.location /\ OpenFacts(l) /\ RestoreFacts(l) /\ KeyFacts(l) /\ DbFacts(l)
  BY Calling DEF Marked, SyncStep, At
<1>2. /\ call \in Calls /\ call # None /\ call.at = "marked"
      /\ call' = [call EXCEPT !.at = AfterMark]
      /\ seen' = seen /\ StoreSynced(seen, kept, kept', l)
      /\ UNCHANGED <<Rest, alias, lastKey>>
  BY <1>1, Calling, HomeSync DEF Marked, SyncStep, At, Goes, Rest
<1>3. PICK next \in Steps :
        next = AfterMark /\ next = IF call.op = "open" THEN "done" ELSE "verify"
  BY DEF AfterMark, Steps
<1>4. seen[Db(l)].form = "protected" /\ seen[Key(l)].initialized
  BY <1>1, <1>2 DEF DbFacts
<1> QED BY <1>1, <1>2, <1>3, <1>4, HomeSynced DEF KeyedAt, OpenAt, PlacedAt, SettledAt

LEMMA InstalledStep == ASSUME SelInv, Installed PROVE SelInv'
<1>1. PICK l \in Locations :
        l = call.location /\ OpenFacts(l) /\ RestoreFacts(l) /\ KeyFacts(l) /\ DbFacts(l)
  BY Calling DEF Installed, SyncStep, At
<1>2. /\ call \in Calls /\ call # None /\ call.at = "installed"
      /\ call' = [call EXCEPT !.at = "inspect"]
      /\ seen' = seen /\ StoreSynced(seen, kept, kept', l)
      /\ UNCHANGED <<Rest, alias, lastKey>>
  BY <1>1, Calling, HomeSync DEF Installed, SyncStep, At, Goes, Rest
<1>3. "inspect" \in Steps
  BY DEF Steps
<1> QED BY <1>1, <1>2, <1>3, HomeSynced
    DEF KeyedAt, OpenAt, PlacedAt, SettledAt, RestoreFacts, OpenFacts

LEMMA VerifyStep == ASSUME SelInv, Verify PROVE SelInv'
<1>1. PICK l \in Locations :
        l = call.location /\ OpenFacts(l) /\ RestoreFacts(l) /\ KeyFacts(l) /\ DbFacts(l)
  BY Calling DEF Verify, At
<1>2. /\ call \in Calls /\ call # None /\ call.at = "verify"
      /\ call' = [call EXCEPT !.at = "select"] /\ seen' = seen
      /\ Syncs(Dir(Home)) /\ UNCHANGED <<Rest, alias, lastKey>>
  BY <1>1, Calling DEF Verify, At, Goes, Rest
<1>3. StoreSynced(seen, kept, kept', l)
  BY <1>1, <1>2, HomeSync
<1>4. call.op # "open" /\ Used(seen, l)
  BY <1>1, <1>2 DEF OpenFacts, OpenAt, DbFacts, SettledAt, Settled
<1>5. "select" \in Steps
  BY DEF Steps
<1> QED BY <1>1, <1>2, <1>3, <1>4, <1>5, HomeSynced DEF KeyedAt, PlacedAt, SettledAt, Used

LEMMA MarkStep == ASSUME SelInv, Mark PROVE SelInv'
<1>1. PICK l \in Locations :
        l = call.location /\ OpenFacts(l) /\ RestoreFacts(l) /\ KeyFacts(l) /\ DbFacts(l)
  BY Calling DEF Mark, At
<1>2. /\ call \in Calls /\ call # None /\ call.at = "mark"
      /\ UNCHANGED <<Rest, alias, lastKey>>
  BY <1>1, Calling DEF Mark, At, Rest
<1>3. /\ seen[Key(l)] \in Records /\ seen[Key(l)] # None /\ seen[Db(l)].form = "protected"
      /\ Synced(l) /\ Claimed(l) /\ seen[Key(l)].key = call.key
  BY <1>1, <1>2 DEF SelInv, DiskInv, DiskTypeOK, DbFacts, KeyFacts, KeyedAt
<1>4. PICK after \in Steps :
        after = AfterMark /\ after = IF call.op = "open" THEN "done" ELSE "verify"
  BY DEF AfterMark, Steps
<1>5. CASE seen[Key(l)].initialized
  <2>1. call' = [call EXCEPT !.at = after] /\ UNCHANGED <<seen, kept>>
    BY <1>1, <1>2, <1>4, <1>5 DEF Mark, Goes, Record, Home
  <2>2. /\ call' \in Calls /\ call'.op = call.op /\ call'.at = after /\ call'.location = l
        /\ call'.must = call.must /\ call'.key = call.key
    BY <1>1, <1>2, <2>1 DEF Calls
  <2>3. DiskInv'
    BY <1>2, <2>1, QuietStep DEF SelInv, Rest, world, ghosts, Aside
  <2>4. OpenFacts(l)' /\ RestoreFacts(l)'
    BY <1>1, <1>2, <1>4, <2>1, <2>2
       DEF OpenFacts, OpenAt, Selected, Exists, RestoreFacts, PlacedAt
  <2>5. KeyFacts(l)' /\ DbFacts(l)'
    BY <1>2, <1>3, <1>4, <1>5, <2>1, <2>2
       DEF KeyFacts, Claimed, Ios, Rest, world, DbFacts, SettledAt, Settled, Synced, Used
  <2> QED BY <1>2, <2>2, <2>3, <2>4, <2>5, GoesOn DEF SelInv, TypesInv
<1>6. CASE ~seen[Key(l)].initialized
  <2> DEFINE r == [seen[Key(l)] EXCEPT !.initialized = TRUE]
  <2>1. r \in Records /\ r.initialized /\ r.key = seen[Key(l)].key /\ r # None
    BY <1>3, AbsentAssumption DEF Records, Keys
  <2>2. /\ call' = [call EXCEPT !.at = IF Ios THEN after ELSE "marked"]
        /\ seen' = [seen EXCEPT ![Key(l)] = r]
        /\ kept' = IF Ios THEN [kept EXCEPT ![Key(l)] = r] ELSE kept
    BY <1>1, <1>2, <1>4, <1>6 DEF Mark, Goes, Record, Home, WritesRecord, Writes
  <2> HIDE DEF r
  <2>3. KeyWritten(seen, seen', l, r) /\ IF Ios THEN KeyWritten(kept, kept', l, r) ELSE kept' = kept
    BY <2>2, Writing DEF SelInv, DiskInv, DiskTypeOK
  <2>4. DiskInv'
    BY <1>2, <1>3, <1>6, <2>1, <2>3, KeyStep DEF SelInv, Rest, world, ghosts, Aside, Used
  <2>5. /\ call' \in Calls /\ call'.op = call.op /\ call'.location = l
        /\ call'.at = IF Ios THEN after ELSE "marked"
        /\ call'.must = call.must /\ call'.key = call.key
    BY <1>1, <1>2, <2>2 DEF Calls, Steps
  <2>6. Selected(seen)' = Selected(seen)
    BY <2>3, SameSelection DEF KeyWritten, SelInv, DiskInv, DiskTypeOK
  <2>7. OpenFacts(l)' /\ RestoreFacts(l)'
    BY <1>1, <1>2, <1>4, <2>3, <2>5, <2>6
       DEF OpenFacts, OpenAt, RestoreFacts, PlacedAt, KeyWritten, SamePaths
  <2>8. KeyFacts(l)' /\ DbFacts(l)'
    BY <1>2, <1>3, <1>4, <2>1, <2>3, <2>5
       DEF KeyFacts, Claimed, Ios, Rest, world, DbFacts, SettledAt, Settled, Synced, Used, KeyWritten
  <2> QED BY <1>2, <2>4, <2>5, <2>7, <2>8, GoesOn DEF SelInv, TypesInv
<1> QED BY <1>5, <1>6

\* A database the call writes, at the steps that do.
LEMMA HomeWritten ==
  ASSUME SelInv, NEW l \in Locations, call # None, l = call.location, call \in Calls,
         NEW next \in {"upgraded", "create", "mark", "installed"}, call' = [call EXCEPT !.at = next],
         NEW v, DbWritten(seen, seen', l, v), DiskInv', UNCHANGED <<Rest, alias, lastKey>>,
         kept' = kept \/ StoreSynced(seen', kept, kept', l),
         OpenFacts(l), RestoreFacts(l), KeyFacts(l),
         call.at \in KeyedAt,
         IF next = "installed" THEN call.op = "restore" /\ call.at = "install" ELSE call.op = "open",
         IF next = "create" THEN v.form = "empty" /\ ~call.must /\ ~seen[Key(l)].initialized
                            ELSE v.form = "protected",
         next = "mark" => StoreSynced(seen', kept, kept', l)
  PROVE  SelInv'
<1>1. /\ call' \in Calls /\ call'.op = call.op /\ call'.at = next /\ call'.location = l
      /\ call'.must = call.must /\ call'.key = call.key
  BY DEF Calls, Steps
<1>2. Selected(seen)' = Selected(seen)
  BY SameSelection DEF DbWritten, SelInv, DiskInv, DiskTypeOK
<1>3. OpenFacts(l)'
  BY <1>1, <1>2 DEF OpenFacts, OpenAt, DbWritten, SamePaths
<1>4. RestoreFacts(l)'
  BY <1>1 DEF RestoreFacts, PlacedAt, DbWritten, SamePaths, StoreSynced
<1>5. KeyFacts(l)'
  BY <1>1 DEF KeyFacts, KeyedAt, Claimed, Ios, Rest, world, DbWritten
<1>6. DbFacts(l)'
  BY <1>1 DEF DbFacts, SettledAt, Synced, DbWritten, StoreSynced
<1> QED BY <1>1, <1>3, <1>4, <1>5, <1>6, GoesOn DEF SelInv, TypesInv

LEMMA UpgradeStep == ASSUME SelInv, Upgrade PROVE SelInv'
<1>1. PICK l \in Locations :
        l = call.location /\ OpenFacts(l) /\ RestoreFacts(l) /\ KeyFacts(l) /\ DbFacts(l)
  BY Calling DEF Upgrade, At
<1>2. /\ call \in Calls /\ call # None /\ call.at = "check" /\ seen[Db(l)].form = "plain"
      /\ call' = [call EXCEPT !.at = "upgraded"] /\ kept' = kept
      /\ seen' = [seen EXCEPT ![Db(l)] =
                    [seen[Db(l)] EXCEPT !.form = "protected", !.key = call.key]]
      /\ UNCHANGED <<Rest, alias, lastKey>>
  BY <1>1, Calling DEF Upgrade, At, Goes, Home, Database, Writes, Rest
<1>3. seen[Db(l)] \in Databases /\ call.key \in Keys
  BY <1>2 DEF SelInv, DiskInv, DiskTypeOK, Calls
<1> DEFINE v == [seen[Db(l)] EXCEPT !.form = "protected", !.key = call.key]
<1>4. v \in Databases /\ v.form = "protected" /\ v.key = call.key /\ v.data = seen[Db(l)].data
  BY <1>3 DEF Databases, Forms
<1>5. DbWritten(seen, seen', l, v)
  BY <1>2, Writing DEF SelInv, DiskInv, DiskTypeOK
<1> HIDE DEF v
<1>6. Follows(v, l) /\ call.op = "open"
  BY <1>1, <1>2, <1>4 DEF Follows, KeyFacts, KeyedAt, Claimed, RestoreFacts, Calls
<1>7. DiskInv'
  BY <1>2, <1>4, <1>5, <1>6, DbStep DEF SelInv, Rest, world, ghosts, Aside
<1> QED BY <1>1, <1>2, <1>4, <1>5, <1>6, <1>7, HomeWritten DEF KeyedAt

LEMMA CreateFileStep == ASSUME SelInv, CreateFile PROVE SelInv'
<1>1. PICK l \in Locations :
        l = call.location /\ OpenFacts(l) /\ RestoreFacts(l) /\ KeyFacts(l) /\ DbFacts(l)
  BY Calling DEF CreateFile, Opening, At
<1>2. /\ call \in Calls /\ call # None /\ seen[Db(l)].form = "missing"
      /\ call' = [call EXCEPT !.at = "create"] /\ kept' = kept
      /\ seen' = [seen EXCEPT ![Db(l)] = [seen[Db(l)] EXCEPT !.form = "empty"]]
      /\ UNCHANGED <<Rest, alias, lastKey>>
  BY <1>1, Calling DEF CreateFile, Opening, At, Goes, Home, Database, Writes, Rest
<1>3. /\ call.at = "check" /\ call.op = "open"
      /\ ~call.must /\ ~seen[Key(l)].initialized
  BY <1>1, <1>2 DEF CreateFile, Opening, At, MayOpen, Home, Database, Record, DbFacts,
                    RestoreFacts, Calls
<1>4. seen[Db(l)] \in Databases /\ seen[Db(l)].data = "none"
  BY <1>2 DEF SelInv, DiskInv, DiskTypeOK, DataInv
<1> DEFINE v == [seen[Db(l)] EXCEPT !.form = "empty"]
<1>5. v \in Databases /\ v.form = "empty" /\ v.data = "none"
  BY <1>4 DEF Databases, Forms
<1>6. DbWritten(seen, seen', l, v)
  BY <1>2, Writing DEF SelInv, DiskInv, DiskTypeOK
<1> HIDE DEF v
<1>7. DiskInv'
  BY <1>2, <1>4, <1>5, <1>6, DbStep DEF SelInv, Rest, world, ghosts, Aside, Follows
<1> QED BY <1>1, <1>2, <1>3, <1>5, <1>6, <1>7, HomeWritten DEF KeyedAt

LEMMA CreateSchemaStep == ASSUME SelInv, CreateSchema PROVE SelInv'
<1>1. PICK l \in Locations :
        l = call.location /\ OpenFacts(l) /\ RestoreFacts(l) /\ KeyFacts(l) /\ DbFacts(l)
  BY Calling DEF CreateSchema, At
<1>2. call \in Calls /\ call # None /\ call.at = "create"
  BY Calling DEF CreateSchema, At
<1> DEFINE v == [form |-> "protected", key |-> call.key, data |-> "fresh"]
<1>3. v \in Databases /\ v.form = "protected" /\ v.key = call.key /\ v.data = "fresh"
  BY <1>2 DEF Databases, Forms, Calls
<1>4. /\ call' = [call EXCEPT !.at = "mark"]
      /\ seen' = [seen EXCEPT ![Db(l)] = v]
      /\ kept' = [e \in Entries |-> IF Parent(e) = Dir(l) THEN seen'[e] ELSE kept[e]]
      /\ UNCHANGED <<Rest, alias, lastKey>>
  BY <1>1 DEF CreateSchema, Goes, Home, Writes, CommitsSchema, Rest
<1>5. DbWritten(seen, seen', l, v) /\ StoreSynced(seen', kept, kept', l)
  BY <1>4, Writing, Syncing DEF SelInv, DiskInv, DiskTypeOK
<1> HIDE DEF v
<1>6. Follows(v, l) /\ seen[Db(l)].form = "empty" /\ call.op = "open"
  BY <1>1, <1>2, <1>3 DEF Follows, KeyFacts, KeyedAt, Claimed, DbFacts
<1>7. DiskInv'
  BY <1>3, <1>4, <1>5, <1>6, SchemaStep DEF SelInv, Rest, world, ghosts, Aside
<1> QED BY <1>1, <1>2, <1>3, <1>4, <1>5, <1>6, <1>7, HomeWritten DEF KeyedAt

LEMMA InstallStep == ASSUME SelInv, Install PROVE SelInv'
<1>1. PICK l \in Locations :
        l = call.location /\ OpenFacts(l) /\ RestoreFacts(l) /\ KeyFacts(l) /\ DbFacts(l)
  BY Calling DEF Install, At
<1>2. call \in Calls /\ call # None /\ call.at = "install"
  BY Calling DEF Install, At
<1> DEFINE v == [form |-> "protected", key |-> call.key, data |-> "restored"]
<1>3. v \in Databases /\ v.form = "protected" /\ v.key = call.key /\ v.data = "restored"
  BY <1>2 DEF Databases, Forms, Calls
<1>4. /\ call' = [call EXCEPT !.at = "installed"] /\ seen[Db(l)].form = "missing"
      /\ seen' = [seen EXCEPT ![Db(l)] = v] /\ kept' = kept
      /\ UNCHANGED <<Rest, alias, lastKey>>
  BY <1>1 DEF Install, Goes, Home, Database, Writes, Rest
<1>5. DbWritten(seen, seen', l, v)
  BY <1>4, Writing DEF SelInv, DiskInv, DiskTypeOK
<1> HIDE DEF v
<1>6. Follows(v, l) /\ call.op = "restore"
  BY <1>1, <1>2, <1>3 DEF Follows, KeyFacts, KeyedAt, Claimed, OpenFacts, OpenAt, Calls
<1>7. DiskInv'
  BY <1>3, <1>4, <1>5, <1>6, DbStep DEF SelInv, Rest, world, ghosts, Aside
<1> QED BY <1>1, <1>2, <1>3, <1>4, <1>5, <1>6, <1>7, HomeWritten DEF KeyedAt

\* A step of a restore that writes to the root directory at most.
LEMMA RestoreGoesOn ==
  ASSUME SelInv, NEW l \in Locations, call # None, l = call.location, call \in Calls,
         NEW next \in Steps, call' = [call EXCEPT !.at = next], UNCHANGED <<Rest, alias, lastKey>>,
         DiskInv', RestoreFacts(l), KeyFacts(l), DbFacts(l), call.op = "restore",
         SameStores(seen, seen'), kept' = kept,
         \A g \in Generations : seen[Dir(g)] => seen'[Dir(g)],
         \/ /\ call.at \in {"anchor", "allocate"}
            /\ next \in {"anchored", "allocate", "made", "candidate"}
            /\ next \in {"made", "candidate"} => seen'[Stores]
         \/ call.at = "select" /\ next = "selected" /\ seen'[Selector] = l /\ seen'[Stores]
  PROVE  SelInv'
<1>1. /\ call' \in Calls /\ call'.op = call.op /\ call'.at = next /\ call'.location = l
      /\ call'.must = call.must /\ call'.key = call.key
  BY DEF Calls
<1>2. OpenFacts(l)' /\ RestoreFacts(l)'
  BY <1>1 DEF OpenFacts, RestoreFacts, PlacedAt
<1>3. KeyFacts(l)'
  BY <1>1 DEF KeyFacts, KeyedAt, Claimed, Ios, Rest, world, SameStores
<1>4. DbFacts(l)'
  BY <1>1 DEF DbFacts, SettledAt, Settled, Synced, Used, SameStores
<1> QED BY <1>1, <1>2, <1>3, <1>4, GoesOn DEF SelInv, TypesInv

LEMMA AnchorStep == ASSUME SelInv, Anchor PROVE SelInv'
<1>1. PICK l \in Locations :
        l = call.location /\ OpenFacts(l) /\ RestoreFacts(l) /\ KeyFacts(l) /\ DbFacts(l)
  BY Calling DEF Anchor, At
<1>2. /\ call \in Calls /\ call # None /\ call.at = "anchor" /\ kept' = kept
      /\ UNCHANGED <<Rest, alias, lastKey>>
  BY Calling DEF Anchor, At, Rest
<1>3. call.op = "restore" /\ {"anchored", "allocate"} \subseteq Steps
  BY <1>1, <1>2 DEF OpenFacts, OpenAt, Calls, Steps
<1>4. CASE seen[Selector] = None /\ ~seen[Stores]
  <2>1. call' = [call EXCEPT !.at = "anchored"] /\ seen' = [seen EXCEPT ![Selector] = Default]
    BY <1>4 DEF Anchor, Writes, Goes
  <2>2. SelectorWritten(seen, seen', Default)
    BY <2>1, Writing DEF SelInv, DiskInv, DiskTypeOK
  <2>3. DiskInv'
    BY <1>2, <2>2, SelectorStep, GenerationAssumption
       DEF SelInv, Rest, world, ghosts, Aside, Locations
  <2> QED BY <1>1, <1>2, <1>3, <2>1, <2>2, <2>3, RestoreGoesOn DEF SelectorWritten
<1>5. CASE ~(seen[Selector] = None /\ ~seen[Stores])
  <2>1. call' = [call EXCEPT !.at = "allocate"] /\ seen' = seen
    BY <1>5 DEF Anchor, Goes
  <2>2. DiskInv'
    BY <1>2, <2>1, QuietStep DEF SelInv, Rest, world, ghosts, Aside
  <2> QED BY <1>1, <1>2, <1>3, <2>1, <2>2, RestoreGoesOn DEF SameStores
<1> QED BY <1>4, <1>5

\* The sync of the root directory, at a step that has not the default store.
LEMMA RootSync ==
  ASSUME SelInv, Syncs(Dir(Default)), seen' = seen, UNCHANGED <<Rest, alias>>
  PROVE  DiskInv' /\ StoreSynced(seen, kept, kept', Default)
<1>1. StoreSynced(seen, kept, kept', Default)
  BY Syncing DEF Syncs, Locations
<1> QED BY <1>1, SyncStoreStep DEF SelInv, Rest, world, ghosts, Aside, Locations

\* The first steps of a restore, which has no store yet.
LEMMA FirstSynced ==
  ASSUME SelInv, NEW l \in Locations, l = call.location, call # None, call \in Calls,
         RestoreFacts(l), NEW next \in Steps, call' = [call EXCEPT !.at = next],
         call.op = "restore", UNCHANGED <<Rest, alias, lastKey>>,
         call.at \in {"anchored", "made"}, DiskInv', seen' = seen,
         next \in {"allocate", "candidate"}, next = "candidate" => seen[Stores]
  PROVE  SelInv'
<1>1. /\ call' \in Calls /\ call'.op = call.op /\ call'.at = next /\ call'.location = l
      /\ call'.must = call.must
  BY DEF Calls
<1>2. OpenFacts(l)' /\ RestoreFacts(l)'
  BY <1>1 DEF OpenFacts, RestoreFacts, PlacedAt
<1>3. KeyFacts(l)' /\ DbFacts(l)'
  BY <1>1 DEF KeyFacts, KeyedAt, DbFacts, SettledAt
<1> QED BY <1>1, <1>2, <1>3, GoesOn DEF SelInv, TypesInv

LEMMA AnchoredStep == ASSUME SelInv, Anchored PROVE SelInv'
<1>1. PICK l \in Locations :
        l = call.location /\ OpenFacts(l) /\ RestoreFacts(l) /\ KeyFacts(l) /\ DbFacts(l)
  BY Calling DEF Anchored, SyncStep, At
<1>2. /\ call \in Calls /\ call # None /\ call.at = "anchored" /\ seen' = seen
      /\ call' = [call EXCEPT !.at = "allocate"] /\ Syncs(Dir(Default))
      /\ UNCHANGED <<Rest, alias, lastKey>>
  BY Calling DEF Anchored, SyncStep, At, Goes, Rest
<1>3. call.op = "restore" /\ "allocate" \in Steps
  BY <1>1, <1>2 DEF OpenFacts, OpenAt, Calls, Steps
<1>4. DiskInv'
  BY <1>2, RootSync
<1> QED BY <1>1, <1>2, <1>3, <1>4, FirstSynced

LEMMA MadeStep == ASSUME SelInv, Made PROVE SelInv'
<1>1. PICK l \in Locations :
        l = call.location /\ OpenFacts(l) /\ RestoreFacts(l) /\ KeyFacts(l) /\ DbFacts(l)
  BY Calling DEF Made, SyncStep, At
<1>2. /\ call \in Calls /\ call # None /\ call.at = "made" /\ seen' = seen
      /\ call' = [call EXCEPT !.at = "candidate"] /\ Syncs(Dir(Default))
      /\ UNCHANGED <<Rest, alias, lastKey>>
  BY Calling DEF Made, SyncStep, At, Goes, Rest
<1>3. call.op = "restore" /\ "candidate" \in Steps
  BY <1>1, <1>2 DEF OpenFacts, OpenAt, Calls, Steps
<1>4. DiskInv' /\ seen[Stores]
  BY <1>1, <1>2, <1>3, RootSync DEF RestoreFacts
<1> QED BY <1>1, <1>2, <1>3, <1>4, FirstSynced

LEMMA MakeStoresStepInv == ASSUME SelInv, MakeStores PROVE SelInv'
<1>1. PICK l \in Locations :
        l = call.location /\ OpenFacts(l) /\ RestoreFacts(l) /\ KeyFacts(l) /\ DbFacts(l)
  BY Calling DEF MakeStores, At
<1>2. /\ call \in Calls /\ call # None /\ call.at = "allocate" /\ kept' = kept
      /\ UNCHANGED <<Rest, alias, lastKey>>
  BY Calling DEF MakeStores, At, Rest
<1>3. call.op = "restore" /\ {"made", "candidate"} \subseteq Steps
  BY <1>1, <1>2 DEF OpenFacts, OpenAt, Calls, Steps
<1>4. CASE ~seen[Stores]
  <2>1. call' = [call EXCEPT !.at = "made"] /\ seen' = [seen EXCEPT ![Stores] = TRUE]
    BY <1>4 DEF MakeStores, Writes, Goes
  <2>2. StoresWritten(seen, seen')
    BY <2>1, Making DEF SelInv, DiskInv, DiskTypeOK
  <2>3. DiskInv'
    BY <1>2, <2>2, MakeStoresStep DEF SelInv, Rest, world, ghosts, Aside
  <2> QED BY <1>1, <1>2, <1>3, <2>1, <2>2, <2>3, RestoreGoesOn DEF StoresWritten
<1>5. CASE seen[Stores]
  <2>1. call' = [call EXCEPT !.at = "candidate"] /\ seen' = seen
    BY <1>5 DEF MakeStores, Goes
  <2>2. DiskInv'
    BY <1>2, <2>1, QuietStep DEF SelInv, Rest, world, ghosts, Aside
  <2> QED BY <1>1, <1>2, <1>3, <1>5, <2>1, <2>2, RestoreGoesOn DEF SameStores
<1> QED BY <1>4, <1>5

LEMMA AllocateStepInv == ASSUME SelInv, NEW g \in Generations, Allocate(g) PROVE SelInv'
<1>1. PICK l \in Locations :
        l = call.location /\ OpenFacts(l) /\ RestoreFacts(l) /\ KeyFacts(l) /\ DbFacts(l)
  BY Calling DEF Allocate, At
<1>2. /\ call \in Calls /\ call # None /\ call.at = "candidate" /\ kept' = kept
      /\ ~Claimed(g) /\ seen' = [seen EXCEPT ![Dir(g)] = TRUE]
      /\ call' = [call EXCEPT !.at = "allocated", !.location = g]
      /\ UNCHANGED <<Rest, alias, lastKey>>
  BY Calling DEF Allocate, At, Rest, Writes, Claimed
<1>3. call.op = "restore" /\ seen[Stores] /\ ~call.must
  BY <1>1, <1>2 DEF OpenFacts, OpenAt, RestoreFacts, Calls
<1>4. DirWritten(seen, seen', g)
  BY <1>2, Making DEF SelInv, DiskInv, DiskTypeOK
<1>5. DiskInv'
  BY <1>2, <1>4, AllocateStep DEF SelInv, Rest, world, ghosts, Aside
<1>6. /\ call' \in Calls /\ call'.op = call.op /\ call'.at = "allocated" /\ call'.location = g
      /\ call'.must = call.must /\ g \in Locations
  BY <1>2 DEF Calls, Steps, Locations
<1>7. OpenFacts(g)' /\ RestoreFacts(g)'
  BY <1>3, <1>4, <1>6 DEF OpenFacts, RestoreFacts, PlacedAt, DirWritten
<1>8. KeyFacts(g)' /\ DbFacts(g)'
  BY <1>6 DEF KeyFacts, KeyedAt, DbFacts, SettledAt
<1> QED BY <1>2, <1>5, <1>6, <1>7, <1>8, GoesOn DEF SelInv, TypesInv

LEMMA AllocatedStep == ASSUME SelInv, Allocated PROVE SelInv'
<1>1. PICK l \in Locations :
        l = call.location /\ OpenFacts(l) /\ RestoreFacts(l) /\ KeyFacts(l) /\ DbFacts(l)
  BY Calling DEF Allocated, SyncStep, At
<1>2. /\ call \in Calls /\ call # None /\ call.at = "allocated" /\ seen' = seen
      /\ call' = [call EXCEPT !.at = "master"] /\ Syncs(Stores)
      /\ UNCHANGED <<Rest, alias, lastKey>>
  BY Calling DEF Allocated, SyncStep, At, Goes, Rest
<1>3. call.op = "restore" /\ "master" \in Steps
  BY <1>1, <1>2 DEF OpenFacts, OpenAt, Calls, Steps
<1>4. StoresSynced(seen, kept, kept')
  BY <1>2, Syncing DEF Syncs
<1>5. DiskInv'
  BY <1>2, <1>4, SyncStoresStep DEF SelInv, Rest, world, ghosts, Aside
<1>6. /\ call' \in Calls /\ call'.op = call.op /\ call'.at = "master" /\ call'.location = l
      /\ call'.must = call.must
  BY <1>1, <1>2, <1>3 DEF Calls
<1>7. OpenFacts(l)' /\ RestoreFacts(l)'
  BY <1>1, <1>2, <1>3, <1>4, <1>6 DEF OpenFacts, RestoreFacts, PlacedAt, StoresSynced
<1>8. KeyFacts(l)' /\ DbFacts(l)'
  BY <1>6 DEF KeyFacts, KeyedAt, DbFacts, SettledAt
<1> QED BY <1>1, <1>2, <1>5, <1>6, <1>7, <1>8, GoesOn DEF SelInv, TypesInv

LEMMA SelectStep == ASSUME SelInv, Select PROVE SelInv'
<1>1. PICK l \in Locations :
        l = call.location /\ OpenFacts(l) /\ RestoreFacts(l) /\ KeyFacts(l) /\ DbFacts(l)
  BY Calling DEF Select, At
<1>2. /\ call \in Calls /\ call # None /\ call.at = "select" /\ kept' = kept
      /\ call' = [call EXCEPT !.at = "selected"] /\ seen' = [seen EXCEPT ![Selector] = l]
      /\ UNCHANGED <<Rest, alias, lastKey>>
  BY <1>1, Calling DEF Select, At, Goes, Home, Writes, Rest
<1>3. call.op = "restore" /\ "selected" \in Steps
  BY <1>1, <1>2 DEF OpenFacts, OpenAt, Calls, Steps
<1>4. l \in Generations /\ seen[Stores] /\ Placed(l) /\ Settled(l)
  BY <1>1, <1>2, <1>3 DEF RestoreFacts, PlacedAt, Placed, DbFacts, SettledAt
<1>5. SelectorWritten(seen, seen', l)
  BY <1>2, Writing DEF SelInv, DiskInv, DiskTypeOK
<1>6. DiskInv'
  BY <1>2, <1>4, <1>5, SelectorStep DEF SelInv, Rest, world, ghosts, Aside
<1> QED BY <1>1, <1>2, <1>3, <1>4, <1>5, <1>6, RestoreGoesOn DEF SelectorWritten, SameStores

LEMMA SelectedSyncedStep == ASSUME SelInv, SelectedSynced PROVE SelInv'
<1>1. PICK l \in Locations :
        l = call.location /\ OpenFacts(l) /\ RestoreFacts(l) /\ KeyFacts(l) /\ DbFacts(l)
  BY Calling DEF SelectedSynced, SyncStep, At
<1>2. /\ call \in Calls /\ call # None /\ call.at = "selected" /\ seen' = seen
      /\ call' = [call EXCEPT !.at = "done"] /\ Syncs(Dir(Default))
      /\ UNCHANGED <<Rest, alias, lastKey>>
  BY Calling DEF SelectedSynced, SyncStep, At, Goes, Rest
<1>3. call.op = "restore"
  BY <1>1, <1>2 DEF OpenFacts, OpenAt, Calls
<1>4. DiskInv' /\ StoreSynced(seen, kept, kept', Default)
  BY <1>2, RootSync
<1>5. /\ call' \in Calls /\ call'.op = call.op /\ call'.at = "done" /\ call'.location = l
      /\ call'.must = call.must /\ call'.key = call.key
  BY <1>1, <1>2 DEF Calls, Steps
<1>6. OpenFacts(l)' /\ RestoreFacts(l)'
  BY <1>1, <1>2, <1>3, <1>4, <1>5 DEF OpenFacts, RestoreFacts, PlacedAt, StoreSynced
<1>7. KeyFacts(l)'
  BY <1>1, <1>2, <1>5 DEF KeyFacts, KeyedAt, Claimed, Ios, Rest, world
<1>8. DbFacts(l)'
  BY <1>1, <1>2, <1>4, <1>5 DEF DbFacts, SettledAt, Settled, Synced, Used, StoreSynced
<1> QED BY <1>1, <1>2, <1>4, <1>5, <1>6, <1>7, <1>8, GoesOn DEF SelInv, TypesInv

-----------------------------------------------------------------------------
(* The steps between calls *)

\* With no call the invariant is about the disk and the handle.
LEMMA NoCall ==
  ASSUME call' = None, TypesInv', DiskInv', HandleInv'
  PROVE  SelInv'
BY DEF SelInv, CallInv

LEMMA OpenActiveStep == ASSUME SelInv, OpenActive PROVE SelInv'
<1>1. /\ UNCHANGED <<Rest, seen, kept, alias, lastKey>> /\ handle = None
      /\ Selected(seen) # None
  BY DEF OpenActive, Rest, disk
<1>2. PICK s \in Locations \cup {None} : s = seen[Selector]
  BY DEF SelInv, DiskInv, DiskTypeOK
<1>3. PICK l \in Locations :
        /\ l = Selected(seen) /\ (s = None => l = Default /\ ~seen[Stores])
  BY <1>1, <1>2 DEF Selected, Locations
<1>4. PICK must \in BOOLEAN : must = (s # None)
  OBVIOUS
<1>5. call' = [op |-> "open", at |-> "inspect", location |-> l, must |-> must, key |-> 0]
  BY <1>2, <1>3, <1>4 DEF OpenActive
<1>6. /\ call' \in Calls /\ call'.op = "open" /\ call'.at = "inspect" /\ call'.location = l
      /\ call'.must = must
  BY <1>5, BoundsAssumption DEF Calls, Steps, Keys
<1>7. DiskInv'
  BY <1>1, QuietStep DEF SelInv, Rest, world, ghosts, Aside
<1>8. TypesInv'
  BY <1>1, <1>6 DEF SelInv, TypesInv, Rest, world, ghosts
<1>9. OpenFacts(l)' /\ RestoreFacts(l)'
  BY <1>1, <1>3, <1>4, <1>6 DEF OpenFacts, OpenAt, RestoreFacts, Selected, Exists
<1>10. KeyFacts(l)' /\ DbFacts(l)'
  BY <1>6 DEF KeyFacts, KeyedAt, DbFacts, SettledAt
<1>11. CallInv' /\ HandleInv'
  BY <1>1, <1>6, <1>9, <1>10 DEF CallInv, HandleInv, Home, Rest
<1> QED BY <1>7, <1>8, <1>11 DEF SelInv

LEMMA BeginStep == ASSUME SelInv, Begin PROVE SelInv'
<1>1. /\ UNCHANGED <<world, ghosts, seen, kept, alias, lastKey>> /\ handle' = None
      /\ call' = [op |-> "restore", at |-> "anchor", location |-> Default, must |-> FALSE, key |-> 0]
  BY DEF Begin, disk
<1>2. /\ call' \in Calls /\ call'.op = "restore" /\ call'.at = "anchor" /\ ~call'.must
  BY <1>1, BoundsAssumption DEF Calls, Steps, Keys, Locations
<1>3. DiskInv'
  BY <1>1, QuietStep DEF SelInv, world, ghosts, Aside
<1>4. TypesInv'
  BY <1>1, <1>2 DEF SelInv, TypesInv, world, ghosts
<1>5. ASSUME NEW l \in Locations
      PROVE  OpenFacts(l)' /\ RestoreFacts(l)' /\ KeyFacts(l)' /\ DbFacts(l)'
  BY <1>2 DEF OpenFacts, RestoreFacts, PlacedAt, KeyFacts, KeyedAt, DbFacts, SettledAt
<1>6. CallInv' /\ HandleInv'
  BY <1>1, <1>5 DEF CallInv, HandleInv
<1> QED BY <1>3, <1>4, <1>6 DEF SelInv

LEMMA HandOutStepInv == ASSUME SelInv, HandOut PROVE SelInv'
<1>1. PICK l \in Locations :
        l = call.location /\ OpenFacts(l) /\ RestoreFacts(l) /\ KeyFacts(l) /\ DbFacts(l)
  BY Calling DEF HandOut, At
<1>2. /\ call \in Calls /\ call.at = "done" /\ call' = None /\ handle' = l
      /\ opened' = opened \cup {l}
      /\ UNCHANGED <<world, seen, kept, alias, lastKey, damaged, losses>>
  BY <1>1, Calling DEF HandOut, At, Home, disk
<1>3. Claimed(l) /\ Settled(l)
  BY <1>1, <1>2 DEF KeyFacts, KeyedAt, DbFacts, SettledAt
<1>4. DiskInv'
  BY <1>2, <1>3, HandOutStep DEF SelInv, world
<1>5. Selected(seen) = l
  <2>1. CASE call.op = "open"
    BY <1>1, <2>1 DEF OpenFacts
  <2>2. CASE call.op = "restore"
    BY <1>1, <1>2, <2>2, AbsentAssumption DEF RestoreFacts, PlacedAt, Selected, Exists, Locations
  <2> QED BY <1>2, <2>1, <2>2 DEF Calls
<1>6. HandleInv'
  BY <1>2, <1>5 DEF HandleInv, Selected, Exists
<1>7. TypesInv'
  BY <1>2 DEF SelInv, TypesInv, world
<1> QED BY <1>2, <1>4, <1>6, <1>7, NoCall

LEMMA StopStep == ASSUME SelInv, Stop PROVE SelInv'
<1>1. /\ UNCHANGED <<world, ghosts, seen, kept, alias, lastKey>>
      /\ handle' = None /\ call' = None
  BY Calling DEF Stop, disk
<1>2. DiskInv'
  BY <1>1, QuietStep DEF SelInv, world, ghosts, Aside
<1>3. TypesInv' /\ HandleInv'
  BY <1>1 DEF SelInv, TypesInv, HandleInv, world, ghosts
<1> QED BY <1>1, <1>2, <1>3, NoCall

LEMMA CloseStep == ASSUME SelInv, Close PROVE SelInv'
<1>1. /\ UNCHANGED <<world, ghosts, seen, kept, alias, lastKey>>
      /\ handle' = None /\ call' = None
  BY DEF Close, disk
<1>2. DiskInv'
  BY <1>1, QuietStep DEF SelInv, world, ghosts, Aside
<1>3. TypesInv' /\ HandleInv'
  BY <1>1 DEF SelInv, TypesInv, HandleInv, world, ghosts
<1> QED BY <1>1, <1>2, <1>3, NoCall

\* The system writes a directory back: what a call knows of the disk still holds.
LEMMA WriteBackStep ==
  ASSUME SelInv, NEW parent \in {Stores} \cup {Dir(l) : l \in Locations}, WriteBack(parent)
  PROVE  SelInv'
<1>1. /\ UNCHANGED <<Rest, seen, alias, lastKey, call>> /\ Syncs(parent)
  BY DEF WriteBack, Rest
<1>2. CASE parent = Stores
  <2>1. StoresSynced(seen, kept, kept')
    BY <1>1, <1>2, Syncing DEF Syncs
  <2>2. DiskInv'
    BY <1>1, <2>1, SyncStoresStep DEF SelInv, Rest, world, ghosts, Aside
  <2>3. TypesInv' /\ HandleInv'
    BY <1>1 DEF SelInv, TypesInv, HandleInv, Rest, world, ghosts, Selected, Exists
  <2>4. ASSUME call # None PROVE CallInv'
    <3>1. PICK l \in Locations :
            l = call.location /\ OpenFacts(l) /\ RestoreFacts(l) /\ KeyFacts(l) /\ DbFacts(l)
      BY <2>4, Calling
    <3>2. OpenFacts(l)' /\ RestoreFacts(l)'
      BY <1>1, <2>1, <3>1 DEF OpenFacts, RestoreFacts, PlacedAt, Selected, Exists, StoresSynced
    <3>3. KeyFacts(l)' /\ DbFacts(l)'
      BY <1>1, <2>1, <3>1 DEF KeyFacts, KeyedAt, Claimed, Ios, Rest, world, DbFacts, SettledAt,
                              Settled, Synced, Used, StoresSynced, SameStores
    <3> QED BY <1>1, <2>4, <3>1, <3>2, <3>3, Calling DEF CallInv, Home, Rest
  <2>5. call = None => CallInv'
    BY <1>1 DEF CallInv
  <2> QED BY <2>2, <2>3, <2>4, <2>5 DEF SelInv
<1>3. CASE parent # Stores
  <2>1. PICK m \in Locations : parent = Dir(m)
    BY <1>3
  <2>2. StoreSynced(seen, kept, kept', m)
    BY <1>1, <2>1, Syncing DEF Syncs
  <2>3. DiskInv'
    BY <1>1, <2>2, SyncStoreStep DEF SelInv, Rest, world, ghosts, Aside
  <2>4. TypesInv' /\ HandleInv'
    BY <1>1 DEF SelInv, TypesInv, HandleInv, Rest, world, ghosts, Selected, Exists
  <2>5. ASSUME call # None PROVE CallInv'
    <3>1. PICK l \in Locations :
            l = call.location /\ OpenFacts(l) /\ RestoreFacts(l) /\ KeyFacts(l) /\ DbFacts(l)
      BY <2>5, Calling
    <3>2. OpenFacts(l)' /\ RestoreFacts(l)'
      BY <1>1, <2>2, <3>1 DEF OpenFacts, RestoreFacts, PlacedAt, Selected, Exists, StoreSynced
    <3>3. KeyFacts(l)' /\ DbFacts(l)'
      BY <1>1, <2>2, <3>1 DEF KeyFacts, KeyedAt, Claimed, Ios, Rest, world, DbFacts, SettledAt,
                              Settled, Synced, Used, StoreSynced
    <3> QED BY <1>1, <2>5, <3>1, <3>2, <3>3, Calling DEF CallInv, Home, Rest
  <2>6. call = None => CallInv'
    BY <1>1 DEF CallInv
  <2> QED BY <2>3, <2>4, <2>5, <2>6 DEF SelInv
<1> QED BY <1>2, <1>3

LEMMA PowerLossStep == ASSUME SelInv, PowerLoss PROVE SelInv'
<1>1. /\ UNCHANGED <<world, ghosts, alias, lastKey>> /\ call' = None /\ handle' = None
      /\ PowerFailed(kept, seen') /\ kept' = seen' /\ damaged = {}
  BY Failing DEF PowerLoss, SelInv, TypesInv
<1>2. DiskInv'
  BY <1>1, PowerStep DEF SelInv, world, ghosts
<1>3. TypesInv' /\ HandleInv'
  BY <1>1 DEF SelInv, TypesInv, HandleInv, world, ghosts
<1> QED BY <1>1, <1>2, <1>3, NoCall

\* A loss from outside leaves no call and no handle.
LEMMA LossStep ==
  ASSUME SelInv, NEW l \in Locations, Loses(l), DiskInv', alias' \subseteq alias
  PROVE  SelInv'
<1>1. /\ UNCHANGED <<world, lastKey, opened>> /\ call' = None /\ handle' = None
      /\ fault = "loss" /\ losses < MaxLosses[platform] /\ losses' = losses + 1
      /\ damaged' = damaged \cup {l}
  BY DEF Loses
<1>2. MaxLosses[platform] \in Nat
  BY BoundsAssumption DEF SelInv, TypesInv
<1>3. TypesInv' /\ HandleInv'
  BY <1>1, <1>2 DEF SelInv, TypesInv, HandleInv, world
<1> QED BY <1>1, <1>3, NoCall

LEMMA LossSteps ==
  ASSUME SelInv,
         \/ \E l \in Locations : LoseMaster(l) \/ LoseEntry(Key(l)) \/ LoseEntry(Db(l))
         \/ LoseEntry(Selector)
  PROVE  SelInv'
<1>1. ASSUME NEW l \in Locations, LoseMaster(l) PROVE SelInv'
  <2>1. DiskInv'
    BY <1>1, MasterLossStep DEF LoseMaster, Loses, SelInv, world
  <2> QED BY <1>1, <2>1, LossStep DEF LoseMaster
<1>2. ASSUME NEW l \in Locations, LoseEntry(Key(l)) PROVE SelInv'
  <2>1. Key(l)[2] = l
    BY DEF Key
  <2>2. Loses(l) /\ alias' = alias
    BY <1>2, <2>1 DEF LoseEntry
  <2>3. KeyWritten(seen, seen', l, None) /\ KeyWritten(kept, kept', l, None)
    BY <1>2, Blanks, Writing DEF LoseEntry, SelInv, DiskInv, DiskTypeOK
  <2>4. DiskInv'
    BY <2>2, <2>3, KeyLossStep DEF Loses, SelInv, world
  <2> QED BY <2>2, <2>4, LossStep
<1>3. ASSUME NEW l \in Locations, LoseEntry(Db(l)) PROVE SelInv'
  <2>1. Db(l)[2] = l
    BY DEF Db
  <2>2. Loses(l) /\ alias' = alias
    BY <1>3, <2>1 DEF LoseEntry
  <2>3. DbWritten(seen, seen', l, Missing) /\ DbWritten(kept, kept', l, Missing)
    BY <1>3, Blanks, Writing DEF LoseEntry, SelInv, DiskInv, DiskTypeOK, Missing
  <2>4. DiskInv'
    BY <2>2, <2>3, DbLossStep DEF Loses, SelInv, world
  <2> QED BY <2>2, <2>4, LossStep
<1>4. ASSUME LoseEntry(Selector) PROVE SelInv'
  <2>1. Selector[2] = Default
    BY DEF Selector
  <2>2. Loses(Default) /\ alias' = alias /\ Default \in Locations
    BY <1>4, <2>1 DEF LoseEntry, Locations
  <2>3. SelectorWritten(seen, seen', None) /\ SelectorWritten(kept, kept', None)
    BY <1>4, Blanks, Writing DEF LoseEntry, SelInv, DiskInv, DiskTypeOK
  <2>4. DiskInv'
    BY <2>2, <2>3, SelectorLossStep DEF Loses, SelInv, world
  <2> QED BY <2>2, <2>4, LossStep
<1> QED BY <1>1, <1>2, <1>3, <1>4

-----------------------------------------------------------------------------
(* The invariant and what follows from it *)

LEMMA SelInvInit == SelectionInit => SelInv
<1> SUFFICES ASSUME SelectionInit PROVE SelInv
  OBVIOUS
<1>1. PICK database \in {Blank(Db(Default)), [form |-> "plain", key |-> 0, data |-> "legacy"]} :
        seen = [e \in Entries |-> IF e = Db(Default) THEN database ELSE Blank(e)]
  BY DEF SelectionInit
<1>2. Default \in Locations /\ Missing \in Databases
      /\ [form |-> "plain", key |-> 0, data |-> "legacy"] \in Databases
  BY BoundsAssumption DEF Locations, Missing, Databases, Forms, Keys
<1>3. /\ database \in Databases
      /\ \/ database = Missing
         \/ database.form = "plain" /\ database.data = "legacy"
  BY <1>1, <1>2, Blanks DEF Missing
<1>4. /\ DOMAIN seen = Entries /\ seen[Selector] = None /\ seen[Stores] = FALSE
      /\ \A g \in Generations : seen[Dir(g)] = FALSE
  <2>1. Blank(Stores) = FALSE
    BY DEF Blank, Stores
  <2> QED BY <1>1, <1>2, <2>1, EntriesApart, Blanks
<1>5. /\ seen[Db(Default)] = database
      /\ \A l \in Locations : /\ seen[Key(l)] = None
                              /\ l # Default => seen[Db(l)] = Missing
  BY <1>1, <1>2, EntriesApart, Blanks DEF Missing
<1>6. kept = seen /\ alias = {} /\ call = None /\ handle = None /\ opened = {} /\ damaged = {}
  BY DEF SelectionInit
<1>7. DiskTypeOK(seen) /\ DiskTypeOK(kept)
  BY <1>2, <1>3, <1>4, <1>5, <1>6 DEF DiskTypeOK
<1>8. DataInv
  BY <1>2, <1>3, <1>5, <1>6 DEF DataInv, Missing
<1>9. MatchInv /\ KeychainInv
  BY <1>3, <1>5, <1>6 DEF MatchInv, KeychainInv, Matches, Missing
<1>10. SelectorInv /\ OpenedInv
  BY <1>4, <1>6, AbsentAssumption DEF SelectorInv, OpenedInv
<1>11. TypesInv
  <2>1. MaxLosses[platform] \in Nat
    BY BoundsAssumption DEF SelectionInit
  <2> QED BY <2>1, BoundsAssumption DEF SelectionInit, TypesInv, Keys
<1> QED BY <1>6, <1>7, <1>8, <1>9, <1>10, <1>11 DEF SelInv, DiskInv, StoreInv, CallInv, HandleInv

LEMMA SelInvNext == SelInv /\ [SelectionNext]_vars => SelInv'
<1> SUFFICES ASSUME SelInv, [SelectionNext]_vars PROVE SelInv'
  OBVIOUS
<1>1. CASE OpenSteps
  BY <1>1, OpenActiveStep, FindRecordStep, MakeMasterStep, RetainKeyStep, RetainedStep,
     UpgradeStep, UpgradedStep, CreateFileStep, CreateSchemaStep, OpenProtectedStep, MarkStep,
     MarkedStep, HandOutStepInv DEF OpenSteps
<1>2. CASE RestoreSteps
  BY <1>2, BeginStep, AnchorStep, AnchoredStep, MakeStoresStepInv, MadeStep, AllocateStepInv,
     AllocatedStep, InstallStep, InstalledStep, VerifyStep, SelectStep, SelectedSyncedStep
     DEF RestoreSteps
<1>3. CASE Failures
  BY <1>3, StopStep, CloseStep, PowerLossStep, WriteBackStep, LossSteps DEF Failures
<1>4. CASE UNCHANGED vars
  <2>1. UNCHANGED <<Rest, seen, kept, alias, lastKey, call>>
    BY <1>4 DEF vars, disk, Rest
  <2>2. DiskInv'
    BY <2>1, QuietStep DEF SelInv, Rest, world, ghosts, Aside
  <2>3. TypesInv' /\ HandleInv'
    BY <2>1 DEF SelInv, TypesInv, HandleInv, Rest, world, ghosts, Selected, Exists
  <2>4. call = None => CallInv'
    BY <2>1 DEF CallInv
  <2>5. ASSUME call # None PROVE CallInv'
    <3>1. PICK l \in Locations :
            l = call.location /\ OpenFacts(l) /\ RestoreFacts(l) /\ KeyFacts(l) /\ DbFacts(l)
      BY <2>5, Calling
    <3>2. OpenFacts(l)' /\ RestoreFacts(l)'
      BY <2>1, <3>1 DEF OpenFacts, RestoreFacts, Selected, Exists
    <3>3. KeyFacts(l)' /\ DbFacts(l)'
      BY <2>1, <3>1 DEF KeyFacts, Claimed, Ios, Rest, world, DbFacts, Settled, Synced, Used
    <3> QED BY <2>1, <2>5, <3>1, <3>2, <3>3, Calling DEF CallInv, Home, Rest
  <2> QED BY <2>2, <2>3, <2>4, <2>5 DEF SelInv
<1> QED BY <1>1, <1>2, <1>3, <1>4 DEF SelectionNext

\* Both copies of the disk, the call in progress and the handle fit together in
\* every reachable state, whatever was stopped, taken back or lost.
THEOREM SelInvCorrect == SelectionSpec => []SelInv
BY SelInvInit, SelInvNext, PTL DEF SelectionSpec

\* Every entry of the disk has, in both copies, a value the code writes there.
THEOREM SelectionTypesCorrect == SelectionSpec => []SelectionTypeOK
<1>1. ASSUME NEW f, DiskTypeOK(f), NEW e \in Entries
      PROVE  EntryOK(e, f[e])
  <2>1. CASE e = Selector
    BY <1>1, <2>1 DEF DiskTypeOK, EntryOK, Selector
  <2>2. CASE e = Stores
    BY <1>1, <2>2 DEF DiskTypeOK, EntryOK, Stores
  <2>3. CASE e \in {"dir"} \X Generations
    <3>1. PICK g \in Generations : e = Dir(g)
      BY <2>3 DEF Dir
    <3> QED BY <1>1, <3>1 DEF DiskTypeOK, EntryOK, Dir
  <2>4. CASE e \in {"key", "db"} \X Locations
    <3>1. PICK l \in Locations : e = Key(l) \/ e = Db(l)
      BY <2>4 DEF Key, Db
    <3>2. CASE e = Key(l)
      BY <1>1, <3>1, <3>2 DEF DiskTypeOK, EntryOK, Key
    <3>3. CASE e = Db(l)
      BY <1>1, <3>1, <3>3 DEF DiskTypeOK, EntryOK, Db
    <3> QED BY <3>1, <3>2, <3>3
  <2> QED BY <1>1, <2>1, <2>2, <2>3, <2>4 DEF Entries
<1>2. SelInv => SelectionTypeOK
  BY <1>1 DEF SelInv, DiskInv, TypesInv, DiskTypeOK, SelectionTypeOK
<1> QED BY <1>2, SelInvCorrect, PTL

\* A used store opens: its key is there, is the database's and is marked.
LEMMA UsedOpens ==
  ASSUME NEW f, NEW l, Matches(f, l), Used(f, l)
  PROVE  Opens(f, l)
BY DEF Matches, Used, Opens, Ios

\* The selected generation can be opened, on the disk as it is and as a power
\* failure would leave it, at every step of every call.
THEOREM SelectedAlwaysOpens == SelectionSpec => []SelectedOpens
<1>1. SelInv => SelectedOpens
  <2> SUFFICES ASSUME SelInv, NEW f \in {seen, kept},
                      NEW g \in Generations \ damaged, f[Selector] = g
               PROVE  Selected(f) = g /\ Opens(f, g)
    BY DEF SelectedOpens
  <2>1. /\ f[Stores] /\ f[Dir(g)] /\ Matches(f, g) /\ Used(f, g)
    BY DEF SelInv, DiskInv, StoreInv, SelectorInv, MatchInv, Placed, Settled, Synced, Used, Locations
  <2>2. Selected(f) = g
    BY <2>1, AbsentAssumption DEF Selected, Exists
  <2> QED BY <2>1, <2>2, UsedOpens
<1> QED BY <1>1, SelInvCorrect, PTL

\* What was handed to the app opens again, as long as its path is on the disk.
THEOREM HandedOutAlwaysStays == SelectionSpec => []HandedOutStays
<1>1. SelInv => HandedOutStays
  <2> SUFFICES ASSUME SelInv, NEW f \in {seen, kept},
                      NEW l \in opened \ damaged, Reached(f, Db(l))
               PROVE  Opens(f, l)
    BY DEF HandedOutStays
  <2>1. l \in Locations /\ Matches(f, l)
    BY DEF SelInv, TypesInv, DiskInv, StoreInv, MatchInv
  <2>2. Exists(f, l)
    BY <2>1, Paths
  <2>3. Used(f, l)
    BY <2>1, <2>2, GenerationAssumption DEF SelInv, DiskInv, StoreInv, OpenedInv, PathLost, Exists,
       Settled, Synced, Used
  <2> QED BY <2>1, <2>3, UsedOpens
<1> QED BY <1>1, SelInvCorrect, PTL

\* No protected database is without the key it was written with.
THEOREM KeysAlwaysRetained == SelectionSpec => []KeysRetained
<1>1. SelInv => KeysRetained
  BY DEF SelInv, DiskInv, StoreInv, MatchInv, Matches, KeysRetained, Ios
<1> QED BY <1>1, SelInvCorrect, PTL

\* The core the app holds is the selected store's.
THEOREM HandleAlwaysSelected == SelectionSpec => []HandleIsSelected
<1>1. SelInv => HandleIsSelected
  BY DEF SelInv, HandleInv, HandleIsSelected
<1> QED BY <1>1, SelInvCorrect, PTL

-----------------------------------------------------------------------------
(* The data of a store *)

\* The steps that leave the databases alone.
LEMMA QuietData ==
  ASSUME SelInv,
         \/ OpenActive \/ FindRecord \/ MakeMaster \/ RetainKey \/ Retained \/ Upgraded
         \/ OpenProtected \/ Mark \/ Marked \/ HandOut
         \/ Begin \/ Anchor \/ Anchored \/ MakeStores \/ Made
         \/ (\E g \in Generations : Allocate(g)) \/ Allocated \/ Installed \/ Verify \/ Select
         \/ SelectedSynced \/ Stop \/ Close
         \/ \E parent \in {Stores} \cup {Dir(l) : l \in Locations} : WriteBack(parent)
  PROVE  \A l \in Locations : seen'[Db(l)] = seen[Db(l)]
<1>0. DOMAIN seen = Entries
  BY DEF SelInv, DiskInv, DiskTypeOK
<1>1. ASSUME NEW r, seen' = [seen EXCEPT ![Selector] = r] \/ seen' = [seen EXCEPT ![Stores] = r]
      PROVE  \A l \in Locations : seen'[Db(l)] = seen[Db(l)]
  BY <1>0, <1>1, EntriesApart
<1>2. ASSUME NEW r, NEW m \in Locations, seen' = [seen EXCEPT ![Key(m)] = r]
      PROVE  \A l \in Locations : seen'[Db(l)] = seen[Db(l)]
  BY <1>0, <1>2, EntriesApart
<1>3. ASSUME NEW r, NEW g \in Generations, seen' = [seen EXCEPT ![Dir(g)] = r]
      PROVE  \A l \in Locations : seen'[Db(l)] = seen[Db(l)]
  BY <1>0, <1>3, EntriesApart
<1>4. CASE OpenActive \/ FindRecord \/ MakeMaster \/ Retained \/ Upgraded \/ OpenProtected
           \/ Marked \/ HandOut \/ Begin \/ Anchored \/ Made \/ Allocated \/ Installed \/ Verify
           \/ SelectedSynced \/ Stop \/ Close
  BY <1>4 DEF OpenActive, FindRecord, MakeMaster, Retained, Upgraded, OpenProtected, Marked,
     HandOut, Begin, Anchored, Made, Allocated, Installed, Verify, SelectedSynced, Stop, Close,
     SyncStep, disk
<1>5. CASE RetainKey \/ Mark
  <2>1. PICK m \in Locations : m = call.location
    BY <1>5, Calling DEF RetainKey, Mark, Keyless, At
  <2>2. seen' = seen \/ \E r : seen' = [seen EXCEPT ![Key(m)] = r]
    BY <1>5, <2>1 DEF RetainKey, Mark, WritesRecord, Writes, Home
  <2> QED BY <1>2, <2>2
<1>6. CASE Anchor \/ MakeStores \/ Select
  <2>1. seen' = seen \/ \E r : \/ seen' = [seen EXCEPT ![Selector] = r]
                               \/ seen' = [seen EXCEPT ![Stores] = r]
    BY <1>6 DEF Anchor, MakeStores, Select, Writes
  <2> QED BY <1>1, <2>1
<1>7. ASSUME NEW g \in Generations, Allocate(g)
      PROVE  \A l \in Locations : seen'[Db(l)] = seen[Db(l)]
  BY <1>3, <1>7 DEF Allocate, Writes
<1>8. ASSUME NEW parent, WriteBack(parent)
      PROVE  \A l \in Locations : seen'[Db(l)] = seen[Db(l)]
  BY <1>8 DEF WriteBack
<1> QED BY <1>4, <1>5, <1>6, <1>7, <1>8

\* A write changes the data of a database only where there was none, and only
\* the creation of a schema makes it fresh.
LEMMA WritingData ==
  ASSUME SelInv, Upgrade \/ CreateFile \/ CreateSchema \/ Install
  PROVE  \A l \in Locations :
           \/ seen'[Db(l)].data = seen[Db(l)].data
           \/ /\ seen[Db(l)].form \in {"missing", "empty"}
              /\ seen'[Db(l)].data = "fresh" => CreateSchema /\ l = Home
<1>1. PICK m \in Locations : m = call.location /\ DbFacts(m)
  BY Calling DEF Upgrade, CreateFile, CreateSchema, Install, Opening, At
<1>2. seen[Db(m)] \in Databases
  BY DEF SelInv, DiskInv, DiskTypeOK
<1>3. ASSUME NEW v, seen' = [seen EXCEPT ![Db(m)] = v]
      PROVE  seen'[Db(m)] = v /\ \A l \in Locations : l # m => seen'[Db(l)] = seen[Db(l)]
  <2>1. DbWritten(seen, seen', m, v)
    BY <1>3, Writing DEF SelInv, DiskInv, DiskTypeOK
  <2> QED BY <2>1 DEF DbWritten
<1>4. CASE Upgrade
  <2> DEFINE v == [seen[Db(m)] EXCEPT !.form = "protected", !.key = call.key]
  <2>1. seen' = [seen EXCEPT ![Db(m)] = v] /\ v.data = seen[Db(m)].data
    BY <1>1, <1>2, <1>4 DEF Upgrade, Writes, Home, Database, Databases
  <2> QED BY <1>3, <2>1
<1>5. CASE CreateFile
  <2> DEFINE v == [seen[Db(m)] EXCEPT !.form = "empty"]
  <2>1. seen' = [seen EXCEPT ![Db(m)] = v] /\ v.data = seen[Db(m)].data
    BY <1>1, <1>2, <1>5 DEF CreateFile, Writes, Home, Database, Databases
  <2> QED BY <1>3, <2>1
<1>6. CASE CreateSchema
  <2> DEFINE v == [form |-> "protected", key |-> call.key, data |-> "fresh"]
  <2>1. /\ seen' = [seen EXCEPT ![Db(m)] = v] /\ seen[Db(m)].form = "empty" /\ m = Home
    BY <1>1, <1>6 DEF CreateSchema, Writes, Home, At, DbFacts
  <2> QED BY <1>3, <1>6, <2>1
<1>7. CASE Install
  <2> DEFINE v == [form |-> "protected", key |-> call.key, data |-> "restored"]
  <2>1. /\ seen' = [seen EXCEPT ![Db(m)] = v] /\ v.data = "restored"
        /\ seen[Db(m)].form = "missing"
    BY <1>1, <1>7 DEF Install, Writes, Home, Database
  <2> QED BY <1>3, <2>1
<1> QED BY <1>4, <1>5, <1>6, <1>7

\* No step takes a mark of damage back.
LEMMA DamageStays ==
  ASSUME [SelectionNext]_vars
  PROVE  damaged \subseteq damaged'
<1>1. ASSUME OpenSteps PROVE damaged' = damaged
  BY <1>1 DEF OpenSteps, OpenActive, FindRecord, MakeMaster, RetainKey, Retained, Upgrade,
     Upgraded, CreateFile, CreateSchema, OpenProtected, Mark, Marked, HandOut, SyncStep, ghosts
<1>2. ASSUME RestoreSteps PROVE damaged' = damaged
  BY <1>2 DEF RestoreSteps, Begin, Anchor, Anchored, MakeStores, Made, Allocate, Allocated,
     Install, Installed, Verify, Select, SelectedSynced, SyncStep, ghosts
<1>3. ASSUME Failures PROVE damaged \subseteq damaged'
  BY <1>3 DEF Failures, Stop, Close, PowerLoss, WriteBack, LoseMaster, LoseEntry, Loses, ghosts
<1> QED BY <1>1, <1>2, <1>3 DEF SelectionNext, vars, ghosts

\* What the steps of calls, stops and write-backs do to data; what a power
\* failure does; and what a loss does.
LEMMA DataSteps ==
  ASSUME SelInv, [SelectionNext]_vars
  PROVE  \/ \A l \in Locations :
              \/ seen'[Db(l)].data = seen[Db(l)].data
              \/ /\ seen[Db(l)].form \in {"missing", "empty"}
                 /\ seen'[Db(l)].data = "fresh" => CreateSchema /\ l = Home
         \/ PowerFailed(kept, seen') /\ UNCHANGED <<opened, damaged>>
         \/ \E m \in Locations : /\ damaged' = damaged \cup {m}
                                 /\ \A l \in Locations :
                                      \/ seen'[Db(l)] = seen[Db(l)]
                                      \/ l = m /\ seen'[Db(l)] = Missing
<1>1. CASE OpenSteps \/ RestoreSteps
  BY <1>1, QuietData, WritingData DEF OpenSteps, RestoreSteps
<1>2. CASE Stop \/ Close \/ \E p \in {Stores} \cup {Dir(l) : l \in Locations} : WriteBack(p)
  BY <1>2, QuietData
<1>3. CASE PowerLoss
  BY <1>3, Failing DEF PowerLoss, ghosts
<1>4. ASSUME NEW m \in Locations, LoseMaster(m) \/ LoseEntry(Key(m)) \/ LoseEntry(Db(m))
      PROVE  /\ damaged' = damaged \cup {m}
             /\ \A l \in Locations : \/ seen'[Db(l)] = seen[Db(l)]
                                     \/ l = m /\ seen'[Db(l)] = Missing
  <2>1. Key(m)[2] = m /\ Db(m)[2] = m
    BY DEF Key, Db
  <2>2. CASE LoseMaster(m)
    BY <2>2 DEF LoseMaster, Loses
  <2>3. CASE LoseEntry(Key(m))
    <3>1. KeyWritten(seen, seen', m, None)
      BY <2>3, Blanks, Writing DEF LoseEntry, SelInv, DiskInv, DiskTypeOK
    <3> QED BY <2>1, <2>3, <3>1 DEF LoseEntry, Loses, KeyWritten
  <2>4. CASE LoseEntry(Db(m))
    <3>1. DbWritten(seen, seen', m, Missing)
      BY <2>4, Blanks, Writing DEF LoseEntry, SelInv, DiskInv, DiskTypeOK, Missing
    <3> QED BY <2>1, <2>4, <3>1 DEF LoseEntry, Loses, DbWritten
  <2> QED BY <1>4, <2>2, <2>3, <2>4
<1>5. CASE LoseEntry(Selector)
  <2>1. Selector[2] = Default /\ Default \in Locations
    BY DEF Selector, Locations
  <2>2. SelectorWritten(seen, seen', None)
    BY <1>5, Blanks, Writing DEF LoseEntry, SelInv, DiskInv, DiskTypeOK
  <2> QED BY <1>5, <2>1, <2>2 DEF LoseEntry, Loses, SelectorWritten, SameStores
<1>6. CASE UNCHANGED vars
  BY <1>6 DEF vars, disk
<1> QED BY <1>1, <1>2, <1>3, <1>4, <1>5, <1>6 DEF SelectionNext, Failures

\* What the app was handed, and what it had before encryption, is never replaced.
THEOREM DataAlwaysStays == SelectionSpec => DataStays
<1>1. ASSUME SelInv, [SelectionNext]_vars, NEW l \in Locations,
             l \in opened \/ seen[Db(l)].data = "legacy"
      PROVE  \/ seen'[Db(l)].data = seen[Db(l)].data
             \/ l \in damaged'
             \/ ~Reached(kept, Db(l))
  <2> USE <1>1
  <2>1. \/ l \in damaged
        \/ l \in opened /\ (PathLost(l) \/ Settled(l))
        \/ seen[Db(l)].data = "legacy" /\ kept[Db(l)].data = "legacy"
    BY DEF SelInv, DiskInv, StoreInv, OpenedInv, DataInv
  <2>2. CASE \A m \in Locations : \/ seen'[Db(m)].data = seen[Db(m)].data
                                  \/ seen[Db(m)].form \in {"missing", "empty"}
    <3>1. damaged \subseteq damaged'
      BY DamageStays
    <3>2. Settled(l) \/ seen[Db(l)].data = "legacy" => seen'[Db(l)].data = seen[Db(l)].data
      BY <2>2 DEF Settled, Used, SelInv, DiskInv, DataInv
    <3>3. PathLost(l) => ~Reached(kept, Db(l))
      BY Paths, GenerationAssumption DEF PathLost, Exists
    <3> QED BY <2>1, <3>1, <3>2, <3>3
  <2>3. CASE PowerFailed(kept, seen') /\ UNCHANGED <<opened, damaged>>
    <3>1. PathLost(l) => ~Reached(kept, Db(l))
      BY Paths, GenerationAssumption DEF PathLost, Exists
    <3>2. Reached(kept, Db(l)) => seen'[Db(l)] = kept[Db(l)]
      BY <2>3, Paths DEF PowerFailed
    <3> QED BY <2>1, <2>3, <3>1, <3>2 DEF Settled, Synced
  <2>4. CASE \E m \in Locations : /\ damaged' = damaged \cup {m}
                                  /\ \A k \in Locations :
                                       \/ seen'[Db(k)] = seen[Db(k)]
                                       \/ k = m /\ seen'[Db(k)] = Missing
    BY <2>4
  <2> QED BY <2>2, <2>3, <2>4, DataSteps
<1>2. SelInv /\ [SelectionNext]_vars =>
        [\A l \in Locations : l \in opened \/ seen[Db(l)].data = "legacy" =>
           \/ seen'[Db(l)].data = seen[Db(l)].data
           \/ l \in damaged'
           \/ ~Reached(kept, Db(l))]_vars
  BY <1>1
<1> QED BY <1>2, SelInvCorrect, PTL DEF SelectionSpec, DataStays

-----------------------------------------------------------------------------
(* What proves that the first store was used *)

\* From outside at most all but one of its entries are lost: a master key, a
\* record and a database on Android, a record and a database on iOS.
FewLosses == MaxLosses["android"] <= 2 /\ MaxLosses["ios"] <= 1

\* How many of these entries are gone.  A loss takes one at a time, and while one
\* is left no step brings another back.
Gone ==
  (IF Ios \/ Default \in alias THEN 0 ELSE 1)
  + (IF seen[Key(Default)] # None THEN 0 ELSE 1)
  + (IF seen[Db(Default)].form = "protected" THEN 0 ELSE 1)

TracesInv ==
  Default \in opened =>
    /\ Gone <= losses
    /\ seen[Key(Default)] # None => seen[Key(Default)].initialized
    /\ call # None /\ call.at = "retain" => Home # Default

LEMMA OneIsLeft ==
  ASSUME FewLosses, SelInv, TracesInv, Default \in opened,
         seen[Key(Default)] = None, seen[Db(Default)].form # "protected"
  PROVE  ~Ios /\ Default \in alias
<1>1. platform \in {"android", "ios"} /\ losses \in Nat /\ losses <= MaxLosses[platform]
  BY BoundsAssumption DEF SelInv, TypesInv
<1>2. MaxLosses["android"] \in Nat /\ MaxLosses["ios"] \in Nat
  BY BoundsAssumption
<1> QED BY <1>1, <1>2 DEF FewLosses, TracesInv, Gone, Ios

\* A step that leaves the entries of the first store alone.
LEMMA TracesKept ==
  ASSUME TracesInv, UNCHANGED <<platform, opened, losses>>,
         Default \in alias' <=> Default \in alias,
         seen'[Key(Default)] = seen[Key(Default)], seen'[Db(Default)] = seen[Db(Default)],
         call' # None /\ call'.at = "retain" => call' = call
  PROVE  TracesInv'
BY DEF TracesInv, Gone, Ios, Home

\* Once the first store was used, no call on it writes anything of it.
LEMMA UsedFirst ==
  ASSUME FewLosses, SelInv, TracesInv, Default \in opened,
         \/ MakeMaster \/ RetainKey \/ Upgrade \/ CreateFile \/ CreateSchema \/ Install
  PROVE  Home # Default
<1> SUFFICES ASSUME Home = Default PROVE FALSE
  OBVIOUS
<1>1. PICK l \in Locations :
        l = call.location /\ OpenFacts(l) /\ RestoreFacts(l) /\ KeyFacts(l) /\ DbFacts(l)
  BY Calling DEF MakeMaster, RetainKey, Keyless, Upgrade, CreateFile, CreateSchema, Install,
                 Opening, At
<1>2. l = Default /\ call \in Calls /\ call # None
  BY <1>1, Calling DEF Home, MakeMaster, RetainKey, Keyless, Upgrade, CreateFile, CreateSchema,
                       Install, Opening, At
<1>3. seen[Key(Default)] # None => seen[Key(Default)].initialized
  BY DEF TracesInv
<1>4. ASSUME Keyless PROVE ~Ios /\ Default \in alias
  <2>1. seen[Key(Default)] = None /\ seen[Db(Default)].form # "protected"
    BY <1>1, <1>2, <1>4 DEF Keyless, Record, Database, Home
  <2> QED BY <2>1, OneIsLeft
<1>5. CASE MakeMaster
  BY <1>1, <1>2, <1>4, <1>5 DEF MakeMaster, Home
<1>6. CASE RetainKey
  BY <1>2, <1>4, <1>6 DEF RetainKey, At, TracesInv
<1>7. CASE Upgrade \/ CreateFile
  <2>1. call.at \in {"check", "database"} /\ seen[Key(Default)] # None
    BY <1>1, <1>2, <1>7 DEF Upgrade, CreateFile, Opening, At, KeyFacts, KeyedAt
  <2>2. seen[Db(Default)].form \in {"plain", "missing"}
    BY <1>1, <1>2, <1>7 DEF Upgrade, CreateFile, Database, Home
  <2>3. call.at # "database"
    BY <1>1, <1>2, <2>2 DEF DbFacts
  <2>4. MayOpen
    BY <1>7, <2>1, <2>3 DEF Upgrade, CreateFile, Opening, At
  <2> QED BY <1>1, <1>2, <1>3, <2>1, <2>2, <2>4 DEF MayOpen, Record, Database, Home
<1>8. CASE CreateSchema
  BY <1>1, <1>2, <1>3, <1>8 DEF CreateSchema, At, KeyFacts, KeyedAt, DbFacts
<1>9. CASE Install
  BY <1>1, <1>2, <1>9, GenerationAssumption
     DEF Install, At, OpenFacts, OpenAt, RestoreFacts, PlacedAt, Calls
<1> QED BY <1>5, <1>6, <1>7, <1>8, <1>9

LEMMA TracesHome ==
  ASSUME FewLosses, SelInv, TracesInv,
         \/ MakeMaster \/ RetainKey \/ Upgrade \/ CreateFile \/ CreateSchema \/ Install
  PROVE  TracesInv'
<1>1. PICK m \in Locations : m = call.location /\ m = Home
  BY Calling DEF MakeMaster, RetainKey, Keyless, Upgrade, CreateFile, CreateSchema, Install,
                 Opening, At, Home
<1>2. call \in Calls /\ UNCHANGED <<platform, opened, losses>>
  BY Calling DEF MakeMaster, RetainKey, Keyless, Upgrade, CreateFile, CreateSchema, Install,
                 Opening, At, world, ghosts
<1>3. /\ alias' = alias \/ alias' = alias \cup {m}
      /\ \/ seen' = seen
         \/ \E r : seen' = [seen EXCEPT ![Key(m)] = r]
         \/ \E r : seen' = [seen EXCEPT ![Db(m)] = r]
  BY <1>1 DEF MakeMaster, RetainKey, Upgrade, CreateFile, CreateSchema, Install, Writes,
              WritesRecord, disk
<1>4. ASSUME NEW r, m # Default,
             seen' = [seen EXCEPT ![Key(m)] = r] \/ seen' = [seen EXCEPT ![Db(m)] = r]
      PROVE  seen'[Key(Default)] = seen[Key(Default)] /\ seen'[Db(Default)] = seen[Db(Default)]
  <2>1. KeyWritten(seen, seen', m, r) \/ DbWritten(seen, seen', m, r)
    BY <1>4, Writing DEF SelInv, DiskInv, DiskTypeOK
  <2> QED BY <1>4, <2>1 DEF KeyWritten, DbWritten, Locations
<1>5. ASSUME call' # None, call'.at = "retain" PROVE call'.location = m
  BY <1>1, <1>2, <1>5 DEF MakeMaster, RetainKey, Upgrade, CreateFile, CreateSchema, Install, Goes,
                          Calls
<1>6. ASSUME Default \in opened PROVE TracesInv'
  <2>1. m # Default
    BY <1>1, <1>6, UsedFirst
  <2>2. seen'[Key(Default)] = seen[Key(Default)] /\ seen'[Db(Default)] = seen[Db(Default)]
    BY <1>3, <1>4, <2>1
  <2>3. Default \in alias' <=> Default \in alias
    BY <1>3, <2>1
  <2> QED BY <1>2, <1>5, <2>1, <2>2, <2>3 DEF TracesInv, Gone, Ios, Home
<1> QED BY <1>2, <1>6 DEF TracesInv

\* The steps that write no entry of a store.
LEMMA TracesQuiet ==
  ASSUME SelInv, TracesInv,
         \/ OpenActive \/ FindRecord \/ Retained \/ Upgraded \/ OpenProtected \/ Marked
         \/ Begin \/ Anchor \/ Anchored \/ MakeStores \/ Made
         \/ (\E g \in Generations : Allocate(g)) \/ Allocated \/ Installed \/ Verify \/ Select
         \/ SelectedSynced \/ Stop \/ Close
         \/ (\E parent \in {Stores} \cup {Dir(l) : l \in Locations} : WriteBack(parent))
         \/ UNCHANGED vars
  PROVE  TracesInv'
<1> DEFINE Same == SameStores(seen, seen') /\ UNCHANGED <<platform, opened, losses, alias>>
           Elsewhere == call' # None /\ call'.at = "retain" => call' = call
<1>0. DOMAIN seen = Entries /\ (call # None => call \in Calls)
  BY DEF SelInv, TypesInv, DiskInv, DiskTypeOK
<1>1. ASSUME NEW r, \/ seen' = [seen EXCEPT ![Selector] = r] \/ seen' = [seen EXCEPT ![Stores] = r]
                    \/ \E g \in Generations : seen' = [seen EXCEPT ![Dir(g)] = r]
      PROVE  SameStores(seen, seen')
  BY <1>0, <1>1, EntriesApart DEF SameStores
<1>2. ASSUME \/ OpenActive \/ FindRecord \/ Retained \/ Upgraded \/ OpenProtected \/ Marked
             \/ Begin \/ Anchored \/ Made \/ Allocated \/ Installed \/ Verify \/ SelectedSynced
             \/ Stop \/ Close \/ UNCHANGED vars
      PROVE  Same
  BY <1>2 DEF OpenActive, FindRecord, Retained, Upgraded, OpenProtected, Marked, Begin, Anchored,
     Made, Allocated, Installed, Verify, SelectedSynced, Stop, Close, SyncStep, vars, disk, world,
     ghosts, SameStores
<1>3. ASSUME NEW parent, WriteBack(parent) PROVE Same /\ Elsewhere
  BY <1>3 DEF WriteBack, world, ghosts, SameStores
<1>4. ASSUME Anchor \/ MakeStores \/ Select \/ \E g \in Generations : Allocate(g) PROVE Same
  <2>1. seen' = seen \/ \E r : \/ seen' = [seen EXCEPT ![Selector] = r]
                               \/ seen' = [seen EXCEPT ![Stores] = r]
                               \/ \E g \in Generations : seen' = [seen EXCEPT ![Dir(g)] = r]
    BY <1>4 DEF Anchor, MakeStores, Select, Allocate, Writes
  <2>2. SameStores(seen, seen')
    BY <1>1, <2>1 DEF SameStores
  <2> QED BY <1>4, <2>2 DEF Anchor, MakeStores, Select, Allocate, world, ghosts
<1>5. ASSUME OpenActive \/ FindRecord \/ Begin \/ Stop \/ Close \/ UNCHANGED vars PROVE Elsewhere
  <2>1. CASE FindRecord
    BY <1>0, <2>1 DEF FindRecord, At, Calls
  <2>2. CASE OpenActive \/ Begin
    BY <2>2 DEF OpenActive, Begin
  <2>3. CASE Stop \/ Close \/ UNCHANGED vars
    BY <2>3 DEF Stop, Close, vars
  <2> QED BY <1>5, <2>1, <2>2, <2>3
<1>6. ASSUME NEW step, NEW parent, NEW next, SyncStep(step, parent, next), next # "retain"
      PROVE  Elsewhere
  BY <1>0, <1>6 DEF SyncStep, At, Goes, Calls
<1>7. ASSUME Retained \/ Upgraded \/ Marked \/ Anchored \/ Made \/ Allocated \/ Installed
             \/ SelectedSynced
      PROVE  Elsewhere
  BY <1>6, <1>7 DEF Retained, Upgraded, Marked, Anchored, Made, Allocated, Installed,
     SelectedSynced, AfterRetain, AfterMark
<1>8. ASSUME OpenProtected \/ Anchor \/ MakeStores \/ Verify \/ Select PROVE Elsewhere
  BY <1>0, <1>8 DEF OpenProtected, Opening, Anchor, MakeStores, Verify, Select, At, Goes, Calls
<1>9. ASSUME NEW g \in Generations, Allocate(g) PROVE Elsewhere
  BY <1>0, <1>9 DEF Allocate, At, Calls
<1>10. Same /\ Elsewhere
  BY <1>2, <1>3, <1>4, <1>5, <1>7, <1>8, <1>9
<1> QED BY <1>10, TracesKept DEF SameStores, Locations

LEMMA TracesMark == ASSUME SelInv, TracesInv, Mark PROVE TracesInv'
<1>1. PICK m \in Locations : m = call.location /\ m = Home /\ KeyFacts(m)
  BY Calling DEF Mark, At, Home
<1>2. /\ call \in Calls /\ call # None /\ call.at = "mark"
      /\ UNCHANGED <<platform, opened, losses, alias>>
  BY Calling DEF Mark, At, world, ghosts
<1>3. call'.at # "retain"
  BY <1>2 DEF Mark, Goes, AfterMark, Calls
<1>4. ASSUME Default \in opened
      PROVE  seen'[Key(Default)] = seen[Key(Default)] /\ seen'[Db(Default)] = seen[Db(Default)]
  <2>1. CASE m = Default
    <3>1. seen[Key(Default)].initialized
      BY <1>1, <1>2, <1>4, <2>1 DEF TracesInv, KeyFacts, KeyedAt
    <3> QED BY <1>1, <2>1, <3>1 DEF Mark, Record
  <2>2. CASE m # Default
    <3>1. seen' = seen \/ \E r : seen' = [seen EXCEPT ![Key(m)] = r]
      BY <1>1 DEF Mark, WritesRecord, Writes
    <3>2. ASSUME NEW r, seen' = [seen EXCEPT ![Key(m)] = r]
          PROVE  KeyWritten(seen, seen', m, r)
      BY <3>2, Writing DEF SelInv, DiskInv, DiskTypeOK
    <3> QED BY <2>2, <3>1, <3>2 DEF KeyWritten, Locations
  <2> QED BY <2>1, <2>2
<1> QED BY <1>2, <1>3, <1>4 DEF TracesInv, Gone, Ios

LEMMA TracesHandOut == ASSUME SelInv, TracesInv, HandOut PROVE TracesInv'
<1>1. PICK m \in Locations : m = call.location /\ m = Home /\ KeyFacts(m) /\ DbFacts(m)
  BY Calling DEF HandOut, At, Home
<1>2. /\ call.at = "done" /\ call' = None /\ opened' = opened \cup {m}
      /\ UNCHANGED <<platform, losses, alias, seen>>
  BY <1>1 DEF HandOut, At, world, disk
<1>3. Claimed(m) /\ Used(seen, m)
  BY <1>1, <1>2 DEF KeyFacts, KeyedAt, DbFacts, SettledAt, Settled
<1>4. m = Default => Gone = 0 /\ seen[Key(Default)].initialized
  BY <1>3 DEF Gone, Claimed, Used
<1>5. losses >= 0
  BY BoundsAssumption DEF SelInv, TypesInv
<1> QED BY <1>2, <1>4, <1>5 DEF TracesInv, Gone, Ios

LEMMA TracesPower == ASSUME SelInv, SelInv', PowerLoss PROVE TracesInv'
<1>1. /\ call' = None /\ losses' = losses /\ losses = 0 /\ damaged' = {}
  BY DEF PowerLoss, SelInv, TypesInv, ghosts
<1>2. ASSUME Default \in opened' PROVE Claimed(Default)' /\ Used(seen, Default)'
  <2>1. Claimed(Default)' /\ (PathLost(Default)' \/ Settled(Default)')
    BY <1>1, <1>2 DEF SelInv, DiskInv, StoreInv, OpenedInv, Locations
  <2> QED BY <2>1, GenerationAssumption DEF PathLost, Settled
<1> QED BY <1>1, <1>2 DEF TracesInv, Gone, Claimed, Used

LEMMA TracesLoss ==
  ASSUME SelInv, TracesInv,
         \/ \E l \in Locations : LoseMaster(l) \/ LoseEntry(Key(l)) \/ LoseEntry(Db(l))
         \/ LoseEntry(Selector)
  PROVE  TracesInv'
<1>1. ASSUME NEW l, Loses(l)
      PROVE  /\ UNCHANGED <<platform, opened>> /\ call' = None
             /\ losses \in Nat /\ losses' = losses + 1
  BY <1>1 DEF Loses, world, SelInv, TypesInv
<1>2. Default \in Locations
  BY DEF Locations
<1>3. ASSUME NEW l \in Locations, LoseMaster(l) PROVE TracesInv'
  <2>1. Loses(l) /\ seen' = seen /\ alias' = alias \ {l}
    BY <1>3 DEF LoseMaster
  <2> QED BY <1>1, <2>1 DEF TracesInv, Gone, Ios
<1>4. ASSUME NEW l \in Locations, LoseEntry(Key(l)) PROVE TracesInv'
  <2>1. Loses(l) /\ alias' = alias
    BY <1>4 DEF LoseEntry, Key
  <2>2. KeyWritten(seen, seen', l, None)
    BY <1>4, Blanks, Writing DEF LoseEntry, SelInv, DiskInv, DiskTypeOK
  <2>3. /\ seen'[Db(Default)] = seen[Db(Default)]
        /\ seen'[Key(Default)] = seen[Key(Default)] \/ seen'[Key(Default)] = None
    BY <1>2, <2>2 DEF KeyWritten
  <2> QED BY <1>1, <2>1, <2>3 DEF TracesInv, Gone, Ios
<1>5. ASSUME NEW l \in Locations, LoseEntry(Db(l)) PROVE TracesInv'
  <2>1. Loses(l) /\ alias' = alias
    BY <1>5 DEF LoseEntry, Db
  <2>2. DbWritten(seen, seen', l, Missing)
    BY <1>5, Blanks, Writing DEF LoseEntry, SelInv, DiskInv, DiskTypeOK, Missing
  <2>3. seen'[Key(Default)] = seen[Key(Default)]
    BY <1>2, <2>2 DEF DbWritten
  <2> QED BY <1>1, <2>1, <2>3 DEF TracesInv, Gone, Ios
<1>6. ASSUME LoseEntry(Selector) PROVE TracesInv'
  <2>1. Loses(Default) /\ alias' = alias
    BY <1>6 DEF LoseEntry, Selector
  <2>2. SelectorWritten(seen, seen', None)
    BY <1>6, Blanks, Writing DEF LoseEntry, SelInv, DiskInv, DiskTypeOK
  <2> QED BY <1>1, <1>2, <2>1, <2>2 DEF TracesInv, Gone, Ios, SelectorWritten, SameStores
<1> QED BY <1>3, <1>4, <1>5, <1>6

LEMMA TracesNext ==
  ASSUME FewLosses, SelInv, TracesInv, [SelectionNext]_vars
  PROVE  TracesInv'
<1>1. CASE OpenSteps
  BY <1>1, TracesQuiet, TracesHome, TracesMark, TracesHandOut DEF OpenSteps
<1>2. CASE RestoreSteps
  BY <1>2, TracesQuiet, TracesHome DEF RestoreSteps
<1>3. CASE Failures
  <2>1. SelInv'
    BY SelInvNext
  <2> QED BY <1>3, <2>1, TracesQuiet, TracesPower, TracesLoss DEF Failures
<1>4. CASE UNCHANGED vars
  BY <1>4, TracesQuiet
<1> QED BY <1>1, <1>2, <1>3, <1>4 DEF SelectionNext

\* While an entry of the first store is left that proves it was used, no store is
\* set up again: not where data was lost, and not in place of a restored store.
THEOREM FreshNeverAgain ==
  ASSUME MaxLosses["android"] <= 2, MaxLosses["ios"] <= 1
  PROVE  SelectionSpec => NeverFreshAgain
<1>1. ASSUME SelInv, TracesInv, [SelectionNext]_vars,
             NEW k \in opened, Reached(seen, Db(k)),
             NEW l \in Locations, seen'[Db(l)].data = "fresh"
      PROVE  seen[Db(l)].data = "fresh"
  <2> USE <1>1
  <2>1. k \in Locations /\ Exists(seen, k)
    BY Paths DEF SelInv, TypesInv
  <2>2. ~CreateSchema
    <3> SUFFICES ASSUME CreateSchema PROVE FALSE
      OBVIOUS
    <3>1. PICK m \in Locations : m = Home /\ OpenFacts(m) /\ DbFacts(m)
      BY Calling DEF CreateSchema, At, Home
    <3>2. m = Default /\ ~seen[Stores]
      BY <3>1 DEF CreateSchema, At, OpenFacts, DbFacts
    <3>3. k = Default
      BY <2>1, <3>2 DEF Exists
    <3> QED BY <3>1, <3>2, <3>3, UsedFirst DEF FewLosses
  <2>3. CASE \A m \in Locations :
               \/ seen'[Db(m)].data = seen[Db(m)].data
               \/ /\ seen[Db(m)].form \in {"missing", "empty"}
                  /\ seen'[Db(m)].data = "fresh" => CreateSchema /\ m = Home
    BY <2>2, <2>3
  <2>4. CASE PowerFailed(kept, seen')
    BY <2>4 DEF PowerFailed, Missing, SelInv, DiskInv, DataInv
  <2>5. CASE \E m \in Locations : /\ damaged' = damaged \cup {m}
                                  /\ \A i \in Locations : \/ seen'[Db(i)] = seen[Db(i)]
                                                          \/ i = m /\ seen'[Db(i)] = Missing
    BY <2>5 DEF Missing
  <2> QED BY <2>3, <2>4, <2>5, DataSteps
<1>2. SelInv /\ TracesInv /\ [SelectionNext]_vars =>
        [(\E l \in opened : Reached(seen, Db(l))) => \A l \in Locations :
           seen'[Db(l)].data = "fresh" => seen[Db(l)].data = "fresh"]_vars
  BY <1>1
<1>3. SelectionInit => TracesInv
  BY DEF SelectionInit, TracesInv
<1>4. SelInv /\ TracesInv /\ [SelectionNext]_vars => TracesInv'
  BY TracesNext DEF FewLosses
<1> QED BY <1>2, <1>3, <1>4, SelInvCorrect, PTL DEF SelectionSpec, NeverFreshAgain

==============================================================================
