------------------------------ MODULE SyncProofs ------------------------------
(***************************************************************************)
(* Proofs about SyncOps, for any number of cores, callers, wallets and     *)
(* operations: its types, and that it keeps the promise of SyncPromise.    *)
(***************************************************************************)
EXTENDS SyncOps, FiniteSetTheorems, TLAPS

-----------------------------------------------------------------------------
(* Types *)

\* The types of SyncTypeOK without the lock.
Typed ==
  /\ revision \in [Wallets -> Nat]
  /\ view \in [Wallets -> Views]
  /\ revealed \in [Wallets -> Nat]
  /\ now \in Nat
  /\ prep \in [Callers -> Prepares \cup {None}]
  /\ next \in 0 .. MaxOps
  /\ table \in [Cores -> [Ids -> Entries \cup {None}]]
  /\ thread \in [Cores -> [Ids -> Threads \cup {None}]]
  /\ holder \in [Cores -> Ids \cup {None}]

\* An entry of a table with another phase, or without its snapshot, is one.
LEMMA EntryUpdate ==
  ASSUME Typed, NEW c \in Cores, NEW id \in Ids, Present(c, id), NEW phase \in Phases
  PROVE  /\ table[c][id] \in Entries
         /\ Marked(c, id, phase) \in Entries
         /\ Marked(c, id, phase).phase = phase
         /\ Marked(c, id, phase).wallet = table[c][id].wallet
         /\ Marked(c, id, phase).pending = table[c][id].pending
         /\ Taken(c, id, phase) \in Entries
         /\ Taken(c, id, phase).phase = phase
         /\ Taken(c, id, phase).wallet = table[c][id].wallet
         /\ Taken(c, id, phase).pending = None
<1>1. table[c][id] \in Entries
  BY DEF Typed, Present
<1> QED
  BY <1>1 DEF Marked, Taken, Entries

\* A snapshot of the store is a snapshot.
LEMMA CurrentType ==
  ASSUME Typed, NEW w \in Wallets
  PROVE  Current(w) \in Snapshots
BY DEF Typed, Current, Snapshots

\* What a scan covers: a gap after the addresses it found in use, and a gap
\* less one after those of its snapshot.
LEMMA ScannedCovers ==
  ASSUME NEW t \in Threads
  PROVE  /\ Scanned(t) \in Nat
         /\ Scanned(t) >= t.found + Gap - 1
         /\ Scanned(t) >= t.snapshot.revealed + Gap - 1
<1>1. t.found \in Nat /\ t.snapshot \in Snapshots
  BY DEF Threads
<1>2. t.snapshot.revealed \in Nat
  BY <1>1 DEF Snapshots
<1>3. Gap \in Nat /\ Gap >= 1
  BY TableAssumption
<1> QED
  BY <1>1, <1>2, <1>3 DEF Scanned, Greater

\* The entry of an operation that is being applied is in the table.
AppliedPresent == \A c \in Cores, id \in Ids : AtStep(c, id, "applying") => Present(c, id)

\* Every action keeps the store, the tables and the threads typed.
LEMMA TypedStep == Typed /\ AppliedPresent /\ [SyncNext]_svars => Typed'
<1> SUFFICES ASSUME Typed, AppliedPresent, [SyncNext]_svars PROVE Typed'
  OBVIOUS
<1> USE DEF Typed, store
<1>1. ASSUME NEW x \in Callers, NEW c \in Cores, NEW w \in Wallets, PrepareRead(x, c, w)
      PROVE  Typed'
  <2>1. [core |-> c, wallet |-> w, snapshot |-> Current(w)] \in Prepares
    BY CurrentType DEF Prepares
  <2> QED
    BY <1>1, <2>1 DEF PrepareRead
<1>2. ASSUME NEW x \in Callers, PrepareInsert(x)
      PROVE  Typed'
  <2>1. prep[x] \in Prepares
    BY <1>2 DEF PrepareInsert
  <2>2. [wallet |-> prep[x].wallet, phase |-> "prepared", pending |-> prep[x].snapshot] \in Entries
    BY <2>1 DEF Prepares, Entries, Phases
  <2>3. table' \in [Cores -> [Ids -> Entries \cup {None}]]
    BY <1>2, <2>1, <2>2 DEF PrepareInsert
  <2>4. next' \in 0 .. MaxOps
    BY <1>2, BoundAssumption DEF PrepareInsert
  <2> QED
    BY <1>2, <2>3, <2>4 DEF PrepareInsert
<1>3. ASSUME NEW x \in Callers, PrepareBusy(x)
      PROVE  Typed'
  BY <1>3 DEF PrepareBusy
<1>4. ASSUME NEW c \in Cores, NEW id \in Ids, RunSync(c, id)
      PROVE  Typed'
  <2>1. table[c][id].pending \in Snapshots
    BY <1>4, EntryUpdate DEF RunSync, Entries, Phases
  <2>2. PICK step \in {"unspawned", "scanning"} :
          thread' = [thread EXCEPT ![c][id] =
            [step |-> step, snapshot |-> table[c][id].pending, version |-> 0, found |-> 0]]
    BY <1>4 DEF RunSync
  <2>3. [step |-> step, snapshot |-> table[c][id].pending, version |-> 0, found |-> 0] \in Threads
    BY <2>1 DEF Threads, Steps
  <2>4. table' \in [Cores -> [Ids -> Entries \cup {None}]]
    BY <1>4, EntryUpdate DEF RunSync, Phases
  <2> QED
    BY <1>4, <2>2, <2>3, <2>4 DEF RunSync
<1>5. ASSUME NEW c \in Cores, NEW id \in Ids, CancelSync(c, id)
      PROVE  Typed'
  BY <1>5, EntryUpdate DEF CancelSync, CancelEntry, Open, Phases, Terminal
<1>6. ASSUME NEW w \in Wallets, ReceiveAddress(w)
      PROVE  Typed'
  BY <1>6 DEF ReceiveAddress
<1>7. ASSUME ChainMoves
      PROVE  Typed'
  BY <1>7 DEF ChainMoves
<1>8. ASSUME NEW c \in Cores, NEW id \in Ids, Thread(c, id)
      PROVE  Typed'
  <2>1. thread[c][id] \in Threads
    BY <1>8 DEF Thread, SpawnFailed, ScanDone, ScanFails, EnterApply, TooLate, Commit, Refuse,
                Report, AtStep
  <2>2. \A step \in Steps : [thread[c][id] EXCEPT !.step = step] \in Threads
    BY <2>1 DEF Threads
  <2>3. \A step \in Steps : MoveTo(c, id, step) => thread' \in [Cores -> [Ids -> Threads \cup {None}]]
    BY <2>2 DEF MoveTo
  <2>4. Ends(c, id) => thread' \in [Cores -> [Ids -> Threads \cup {None}]]
    BY DEF Ends
  <2>5. \A phase \in Phases : Present(c, id) =>
          [table EXCEPT ![c][id] = Marked(c, id, phase)] \in [Cores -> [Ids -> Entries \cup {None}]]
    BY EntryUpdate
  <2>6. Present(c, id) /\ CancelEntry(c, id) => table' \in [Cores -> [Ids -> Entries \cup {None}]]
    BY EntryUpdate DEF CancelEntry, Phases, Terminal
  <2>7. CASE SpawnFailed(c, id)
    BY <2>4, <2>6, <2>7 DEF SpawnFailed, Open
  <2>8. ASSUME NEW found \in 0 .. MaxReveal, ScanDone(c, id, found)
        PROVE  Typed'
    <3>1. found \in Nat
      BY BoundAssumption
    <3>2. [thread[c][id] EXCEPT !.step = "scanned", !.version = now, !.found = found] \in Threads
      BY <2>1, <3>1 DEF Threads, Steps
    <3> QED
      BY <2>8, <3>2 DEF ScanDone
  <2>9. CASE ScanFails(c, id)
    BY <2>3, <2>9 DEF ScanFails, Steps
  <2>10. CASE EnterApply(c, id)
    BY <2>3, <2>5, <2>10 DEF EnterApply, Steps, Phases
  <2>11. CASE TooLate(c, id)
    BY <2>3, <2>11 DEF TooLate, Steps
  <2>12. CASE Refuse(c, id)
    BY <2>3, <2>12 DEF Refuse, Steps
  <2>13. CASE Report(c, id)
    <3>1. PICK phase \in Phases :
            IF Open(c, id) THEN table' = [table EXCEPT ![c][id] = Marked(c, id, phase)]
                           ELSE UNCHANGED table
      BY <2>13 DEF Report, Phases, Terminal
    <3>2. table' \in [Cores -> [Ids -> Entries \cup {None}]]
      BY <2>5, <3>1 DEF Open
    <3>3. thread' \in [Cores -> [Ids -> Threads \cup {None}]]
      BY <2>4, <2>13 DEF Report
    <3> QED
      BY <2>13, <3>2, <3>3 DEF Report
  <2>14. CASE Commit(c, id)
    <3>1. /\ thread[c][id].version \in Nat
          /\ thread[c][id].found \in Nat
      BY <2>1 DEF Threads
    <3>2. [version |-> thread[c][id].version, upto |-> Scanned(thread[c][id])] \in Views
      BY <2>1, <3>1, ScannedCovers DEF Views
    <3>3. view' \in [Wallets -> Views]
      BY <2>14, <3>2 DEF Commit
    <3>0. Present(c, id) /\ table[c][id].wallet \in Wallets
      BY <2>14, EntryUpdate DEF Commit, AppliedPresent, Phases, Entries
    <3>4. revision' \in [Wallets -> Nat] /\ revealed' \in [Wallets -> Nat]
      BY <2>14, <3>0, <3>1 DEF Commit, Greater
    <3>5. table' \in [Cores -> [Ids -> Entries \cup {None}]]
      BY <2>14, <2>5, <3>0 DEF Commit, Phases, Terminal
    <3> QED
      BY <2>14, <2>4, <3>3, <3>4, <3>5 DEF Commit
  <2> QED
    BY <1>8, <2>7, <2>8, <2>9, <2>10, <2>11, <2>12, <2>13, <2>14 DEF Thread
<1>9. CASE UNCHANGED svars
  BY <1>9 DEF svars
<1> QED
  BY <1>1, <1>2, <1>3, <1>4, <1>5, <1>6, <1>7, <1>8, <1>9 DEF SyncNext

-----------------------------------------------------------------------------
(* The inductive invariant *)

\* A thread works for the entry it was started for, as long as that is in the
\* table; the entry's snapshot is gone once the operation runs; and the lock
\* keeps the entry of an operation that is being applied as it is.
ThreadsOwnEntries ==
  \A c \in Cores, id \in Ids :
    /\ holder[c] = id <=> AtStep(c, id, "applying")
    /\ AtStep(c, id, "applying") => Present(c, id) /\ table[c][id].phase = "applying"
    /\ Present(c, id) /\ thread[c][id] # None =>
         table[c][id].phase \in {"scanning", "applying", "cancelled"}
    /\ Present(c, id) /\ table[c][id].pending # None => table[c][id].phase = "prepared"
    /\ id > next => table[c][id] = None /\ thread[c][id] = None

\* What a scan of this snapshot may replace the wallet's view with.
ScanHolds(c, id) ==
  /\ thread[c][id].version <= now
  /\ thread[c][id].snapshot.revision = revision[table[c][id].wallet] =>
       view[table[c][id].wallet].version <= thread[c][id].version

\* Snapshots are not newer than the store, views not newer than the chain, and
\* a scan of a snapshot that is still fresh is not older than the view.
SnapshotsBehind ==
  /\ \A w \in Wallets : view[w].version <= now
  /\ \A x \in Callers : prep[x] # None => prep[x].snapshot.revision <= revision[prep[x].wallet]
  /\ \A c \in Cores, id \in Ids : Present(c, id) =>
       /\ table[c][id].pending # None =>
            table[c][id].pending.revision <= revision[table[c][id].wallet]
       /\ thread[c][id] # None =>
            thread[c][id].snapshot.revision <= revision[table[c][id].wallet]
       /\ AtStep(c, id, "scanned") \/ AtStep(c, id, "applying") => ScanHolds(c, id)

SInv == Typed /\ ThreadsOwnEntries /\ SnapshotsBehind

\* Every action leaves threads and entries agreeing with each other.
LEMMA OwnStep == SInv /\ [SyncNext]_svars => ThreadsOwnEntries'
<1> SUFFICES ASSUME SInv, [SyncNext]_svars PROVE ThreadsOwnEntries'
  OBVIOUS
<1> USE DEF SInv
<1>0. Typed /\ ThreadsOwnEntries /\ None \notin Ids /\ next \in Nat
  BY NoneAssumption, BoundAssumption DEF Typed, Ids
<1>1. ASSUME NEW x \in Callers, NEW c \in Cores, NEW w \in Wallets, PrepareRead(x, c, w)
      PROVE  ThreadsOwnEntries'
  BY <1>0, <1>1 DEF PrepareRead, ThreadsOwnEntries, Present, AtStep
<1>2. ASSUME NEW x \in Callers, PrepareInsert(x)
      PROVE  ThreadsOwnEntries'
  <2> DEFINE c == prep[x].core
             new == [wallet |-> prep[x].wallet, phase |-> "prepared", pending |-> prep[x].snapshot]
  <2>1. c \in Cores /\ new \in Entries /\ new # None
    BY <1>0, <1>2, NoneAssumption DEF PrepareInsert, Typed, Prepares, Entries, Phases
  <2>2. /\ \A e \in Cores, i \in Ids : table'[e][i] =
             IF e = c THEN IF i = next + 1 THEN new ELSE IF i \in Evicted(c) THEN None ELSE table[e][i]
                      ELSE table[e][i]
        /\ next' = next + 1 /\ UNCHANGED <<thread, holder>>
    BY <1>0, <1>2, <2>1 DEF PrepareInsert, Typed, NextOperation
  <2>3. \A i \in Ids : i \in Evicted(c) => ~Open(c, i)
    BY DEF Evicted
  <2> HIDE DEF c
  <2> SUFFICES ASSUME NEW e \in Cores, NEW i \in Ids
               PROVE  /\ (AtStep(e, i, "applying") => Present(e, i) /\ table[e][i].phase = "applying")'
                      /\ (Present(e, i) /\ thread[e][i] # None =>
                           table[e][i].phase \in {"scanning", "applying", "cancelled"})'
                      /\ (Present(e, i) /\ table[e][i].pending # None =>
                           table[e][i].phase = "prepared")'
                      /\ i > next' => table'[e][i] = None /\ thread'[e][i] = None
    BY <1>0, <2>2 DEF ThreadsOwnEntries, AtStep
  <2>4. CASE e = c /\ i = next + 1
    BY <1>0, <2>1, <2>2, <2>4 DEF ThreadsOwnEntries, AtStep, Present, Ids
  <2>5. CASE e = c /\ i \in Evicted(c) /\ i # next + 1
    BY <1>0, <2>2, <2>3, <2>5 DEF ThreadsOwnEntries, AtStep, Present, Open, Terminal, Ids
  <2>6. CASE ~(e = c /\ i = next + 1) /\ ~(e = c /\ i \in Evicted(c))
    BY <1>0, <2>2, <2>6 DEF ThreadsOwnEntries, AtStep, Present, Ids
  <2> QED
    BY <2>4, <2>5, <2>6
<1>3. ASSUME NEW x \in Callers, PrepareBusy(x)
      PROVE  ThreadsOwnEntries'
  BY <1>0, <1>3 DEF PrepareBusy, ThreadsOwnEntries, Present, AtStep
<1>4. ASSUME NEW c \in Cores, NEW id \in Ids, RunSync(c, id)
      PROVE  ThreadsOwnEntries'
  <2>1. PICK step \in {"unspawned", "scanning"} :
          thread' = [thread EXCEPT ![c][id] =
            [step |-> step, snapshot |-> table[c][id].pending, version |-> 0, found |-> 0]]
    BY <1>4 DEF RunSync
  <2>2. /\ table' = [table EXCEPT ![c][id] = Taken(c, id, "scanning")]
        /\ UNCHANGED <<next, holder>>
        /\ Present(c, id) /\ table[c][id].phase = "prepared"
    BY <1>0, <1>4 DEF RunSync, ThreadsOwnEntries
  <2>3. /\ Taken(c, id, "scanning") \in Entries
        /\ Taken(c, id, "scanning").phase = "scanning"
        /\ Taken(c, id, "scanning").pending = None
    BY <1>0, <2>2, EntryUpdate DEF Phases
  <2>4. ~AtStep(c, id, "applying") /\ id <= next /\ id \in Nat
    BY <1>0, <2>2 DEF ThreadsOwnEntries, Ids, Present
  <2> QED
    BY <1>0, <2>1, <2>2, <2>3, <2>4 DEF ThreadsOwnEntries, AtStep, Present, Typed
<1>5. ASSUME NEW c \in Cores, NEW id \in Ids, CancelSync(c, id)
      PROVE  ThreadsOwnEntries'
  <2>1. /\ Taken(c, id, "cancelled") \in Entries
        /\ Taken(c, id, "cancelled").phase = "cancelled"
        /\ Taken(c, id, "cancelled").pending = None
        /\ Present(c, id) /\ Free(c)
    BY <1>0, <1>5, EntryUpdate DEF Phases, Terminal, CancelSync, Open
  <2>2. ~AtStep(c, id, "applying") /\ id <= next /\ id \in Nat
    BY <1>0, <2>1 DEF ThreadsOwnEntries, Ids, Present, Free
  <2>3. /\ \A e \in Cores, i \in Ids : table'[e][i] =
             IF e = c /\ i = id THEN Taken(c, id, "cancelled") ELSE table[e][i]
        /\ UNCHANGED <<next, thread, holder>>
    BY <1>0, <1>5 DEF CancelSync, CancelEntry, Typed
  <2> QED
    BY <1>0, <2>1, <2>2, <2>3, NoneAssumption DEF ThreadsOwnEntries, AtStep, Present
<1>6. ASSUME \/ \E w \in Wallets : ReceiveAddress(w)
             \/ ChainMoves
             \/ UNCHANGED svars
      PROVE  ThreadsOwnEntries'
  BY <1>0, <1>6 DEF ReceiveAddress, ChainMoves, svars, ThreadsOwnEntries, Present, AtStep
<1>7. ASSUME NEW c \in Cores, NEW id \in Ids, Thread(c, id)
      PROVE  ThreadsOwnEntries'
  <2>1. thread[c][id] \in Threads
    <3>1. thread[c][id] # None
      BY <1>7 DEF Thread, SpawnFailed, ScanDone, ScanFails, EnterApply, TooLate, Commit, Refuse,
                  Report, AtStep
    <3> QED
      BY <1>0, <3>1 DEF Typed
  <2>2. \A step \in Steps : /\ [thread[c][id] EXCEPT !.step = step] \in Threads
                             /\ [thread[c][id] EXCEPT !.step = step].step = step
    BY <2>1 DEF Threads
  <2>3. id <= next /\ id \in Nat
    BY <1>0, <2>1, NoneAssumption DEF ThreadsOwnEntries, Ids
  <2>4. \A phase \in Phases : Present(c, id) =>
          /\ Marked(c, id, phase) \in Entries /\ Marked(c, id, phase) # None
          /\ Marked(c, id, phase).phase = phase
          /\ Marked(c, id, phase).pending = table[c][id].pending
    BY <1>0, EntryUpdate, NoneAssumption
  <2>5. Present(c, id) => table[c][id].phase \in {"scanning", "applying", "cancelled"}
                          /\ table[c][id].pending = None
    BY <1>0, <2>1, NoneAssumption DEF ThreadsOwnEntries
  <2>6. \A e \in Cores, i \in Ids : AtStep(e, i, "applying") <=> holder[e] = i
    BY <1>0 DEF ThreadsOwnEntries
  <2>15. ASSUME NEW step \in Steps, MoveTo(c, id, step)
         PROVE  /\ \A e \in Cores, i \in Ids : ~(e = c /\ i = id) => thread'[e][i] = thread[e][i]
                /\ thread'[c][id] # None /\ thread'[c][id].step = step
    BY <1>0, <2>2, <2>15, NoneAssumption DEF MoveTo, Typed
  <2>7. CASE SpawnFailed(c, id)
    <3>1. Present(c, id) => /\ Taken(c, id, "cancelled") \in Entries
                            /\ Taken(c, id, "cancelled").phase = "cancelled"
                            /\ Taken(c, id, "cancelled").pending = None
      BY <1>0, EntryUpdate DEF Phases, Terminal
    <3> QED
      BY <1>0, <2>3, <2>7, <3>1 DEF SpawnFailed, Ends, CancelEntry, Open, ThreadsOwnEntries, AtStep,
         Present, Typed
  <2>8. ASSUME NEW found \in 0 .. MaxReveal, ScanDone(c, id, found)
        PROVE  ThreadsOwnEntries'
    <3>1. /\ [thread[c][id] EXCEPT !.step = "scanned", !.version = now, !.found = found].step = "scanned"
          /\ [thread[c][id] EXCEPT !.step = "scanned", !.version = now, !.found = found] # None
      <4>0. found \in Nat /\ now \in Nat
        BY <1>0, BoundAssumption DEF Typed
      <4>1. [thread[c][id] EXCEPT !.step = "scanned", !.version = now, !.found = found] \in Threads
        BY <2>1, <4>0 DEF Threads, Steps
      <4> QED
        BY <2>1, <4>1, NoneAssumption DEF Threads
    <3> QED
      BY <1>0, <2>3, <2>8, <3>1 DEF ScanDone, ThreadsOwnEntries, AtStep, Present, Typed
  <2>9. CASE ScanFails(c, id)
    <3>1. ~AtStep(c, id, "applying") /\ UNCHANGED <<next, table, holder>>
      BY <2>9 DEF ScanFails, AtStep
    <3>2. \/ MoveTo(c, id, "failing")
          \/ MoveTo(c, id, "cancelling")
      BY <2>9 DEF ScanFails
    <3>3. /\ \A e \in Cores, i \in Ids : ~(e = c /\ i = id) => thread'[e][i] = thread[e][i]
          /\ thread'[c][id] # None /\ thread'[c][id].step # "applying"
      BY <2>15, <3>2 DEF Steps
    <3> QED
      BY <1>0, <2>1, <2>3, <2>5, <3>1, <3>3 DEF ThreadsOwnEntries, AtStep, Present
  <2>10. CASE EnterApply(c, id)
    <3>1. /\ Present(c, id) /\ Free(c) /\ UNCHANGED next
          /\ MoveTo(c, id, "applying")
      BY <2>10 DEF EnterApply
    <3>2. /\ \A e \in Cores, i \in Ids : table'[e][i] =
               IF e = c /\ i = id THEN Marked(c, id, "applying") ELSE table[e][i]
          /\ \A e \in Cores : holder'[e] = IF e = c THEN id ELSE holder[e]
      BY <1>0, <2>10 DEF EnterApply, Typed
    <3>3. /\ \A e \in Cores, i \in Ids : ~(e = c /\ i = id) => thread'[e][i] = thread[e][i]
          /\ thread'[c][id] # None /\ thread'[c][id].step = "applying"
      BY <2>15, <3>1 DEF Steps
    <3>4. /\ Marked(c, id, "applying") # None /\ Marked(c, id, "applying").phase = "applying"
          /\ Marked(c, id, "applying").pending = None
      BY <2>4, <2>5, <3>1 DEF Phases
    <3>5. \A e \in Cores, i \in Ids : AtStep(e, i, "applying")' <=> holder'[e] = i
      BY <1>0, <2>6, <3>1, <3>2, <3>3, NoneAssumption DEF AtStep, Free
    <3>6. ASSUME NEW e \in Cores, NEW i \in Ids, ~(e = c /\ i = id)
          PROVE  /\ AtStep(e, i, "applying")' = AtStep(e, i, "applying")
                 /\ Present(e, i)' = Present(e, i)
                 /\ table'[e][i] = table[e][i] /\ thread'[e][i] = thread[e][i]
      BY <3>2, <3>3, <3>6 DEF AtStep, Present
    <3>7. /\ table'[c][id] = Marked(c, id, "applying")
          /\ next' = next
      BY <3>1, <3>2
    <3> QED
      BY <1>0, <2>3, <3>3, <3>4, <3>5, <3>6, <3>7 DEF ThreadsOwnEntries, Present
  <2>11. CASE TooLate(c, id)
    <3>1. ~AtStep(c, id, "applying") /\ UNCHANGED <<next, table, holder>>
      BY <2>11 DEF TooLate, AtStep
    <3>2. \/ MoveTo(c, id, "failing")
          \/ MoveTo(c, id, "cancelling")
      BY <2>11 DEF TooLate
    <3>3. /\ \A e \in Cores, i \in Ids : ~(e = c /\ i = id) => thread'[e][i] = thread[e][i]
          /\ thread'[c][id] # None /\ thread'[c][id].step # "applying"
      BY <2>15, <3>2 DEF Steps
    <3> QED
      BY <1>0, <2>1, <2>3, <2>5, <3>1, <3>3 DEF ThreadsOwnEntries, AtStep, Present
  <2>12. CASE Refuse(c, id)
    <3>1. /\ AtStep(c, id, "applying") /\ UNCHANGED <<next, table>>
          /\ \A e \in Cores : holder'[e] = IF e = c THEN None ELSE holder[e]
          /\ MoveTo(c, id, "failing")
      BY <1>0, <2>12 DEF Refuse, Typed
    <3>2. /\ \A e \in Cores, i \in Ids : ~(e = c /\ i = id) => thread'[e][i] = thread[e][i]
          /\ thread'[c][id] # None /\ thread'[c][id].step # "applying"
      BY <2>15, <3>1 DEF Steps
    <3> QED
      BY <1>0, <2>1, <2>3, <2>5, <3>1, <3>2, NoneAssumption DEF ThreadsOwnEntries, AtStep, Present
  <2>13. CASE Report(c, id)
    BY <1>0, <2>3, <2>4, <2>5, <2>13, NoneAssumption DEF Report, Ends, Open, ThreadsOwnEntries, AtStep,
       Present, Typed, Phases, Terminal
  <2>14. CASE Commit(c, id)
    <3>1. Present(c, id)
      BY <1>0, <2>14 DEF Commit, ThreadsOwnEntries
    <3> QED
      BY <1>0, <2>3, <2>4, <2>5, <2>6, <2>14, <3>1, NoneAssumption DEF Commit, Ends, ThreadsOwnEntries, AtStep,
         Present, Typed, Phases, Terminal
  <2> QED
    BY <1>7, <2>7, <2>8, <2>9, <2>10, <2>11, <2>12, <2>13, <2>14 DEF Thread
<1> QED
  BY <1>1, <1>2, <1>3, <1>4, <1>5, <1>6, <1>7 DEF SyncNext

\* Every action keeps snapshots behind the store, and fresh scans ahead of it.
LEMMA BehindStep == SInv /\ Typed' /\ ThreadsOwnEntries' /\ [SyncNext]_svars => SnapshotsBehind'
<1> SUFFICES ASSUME SInv, Typed', ThreadsOwnEntries', [SyncNext]_svars PROVE SnapshotsBehind'
  OBVIOUS
<1>0. Typed /\ ThreadsOwnEntries /\ SnapshotsBehind /\ None \notin Ids /\ next \in Nat /\ now \in Nat
  BY NoneAssumption, BoundAssumption DEF SInv, Typed, Ids
<1>a. \A w \in Wallets : revision[w] \in Nat /\ view[w].version \in Nat /\ revealed[w] \in Nat
  BY <1>0 DEF Typed, Views
<1>1. ASSUME NEW x \in Callers, NEW c \in Cores, NEW w \in Wallets, PrepareRead(x, c, w)
      PROVE  SnapshotsBehind'
  <2>1. /\ \A y \in Callers : prep'[y] = IF y = x THEN [core |-> c, wallet |-> w, snapshot |-> Current(w)]
                                            ELSE prep[y]
        /\ Current(w).revision = revision[w]
        /\ UNCHANGED <<revision, view, now, table, thread>>
    BY <1>0, <1>1 DEF PrepareRead, Typed, Current, store
  <2> QED
    BY <1>0, <1>a, <2>1 DEF SnapshotsBehind, ScanHolds, Present, AtStep
<1>2. ASSUME NEW x \in Callers, PrepareInsert(x)
      PROVE  SnapshotsBehind'
  <2> DEFINE c == prep[x].core
             new == [wallet |-> prep[x].wallet, phase |-> "prepared", pending |-> prep[x].snapshot]
  <2>1. c \in Cores /\ prep[x] # None /\ next + 1 \in Ids
    BY <1>0, <1>2 DEF PrepareInsert, Typed, Prepares, Ids
  <2>2. /\ \A e \in Cores, i \in Ids : table'[e][i] =
             IF e = c THEN IF i = next + 1 THEN new ELSE IF i \in Evicted(c) THEN None ELSE table[e][i]
                      ELSE table[e][i]
        /\ \A y \in Callers : prep'[y] = IF y = x THEN None ELSE prep[y]
        /\ UNCHANGED <<revision, view, now, thread>>
    BY <1>0, <1>2, <2>1 DEF PrepareInsert, Typed, NextOperation, store
  <2>3. thread[c][next + 1] = None
    BY <1>0, <2>1 DEF ThreadsOwnEntries
  <2>4. new.pending.revision <= revision[new.wallet]
    BY <1>0, <2>1 DEF SnapshotsBehind
  <2> HIDE DEF c, new
  <2>5. \A e \in Cores, i \in Ids :
          \/ e = c /\ i = next + 1 /\ table'[e][i] = new
          \/ table'[e][i] = None
          \/ table'[e][i] = table[e][i]
    BY <2>2
  <2> QED
    BY <1>0, <2>2, <2>3, <2>4, <2>5 DEF SnapshotsBehind, ScanHolds, Present, AtStep
<1>3. ASSUME NEW x \in Callers, PrepareBusy(x)
      PROVE  SnapshotsBehind'
  <2>1. /\ \A y \in Callers : prep'[y] = IF y = x THEN None ELSE prep[y]
        /\ UNCHANGED <<revision, view, now, table, thread>>
    BY <1>0, <1>3 DEF PrepareBusy, Typed, store
  <2> QED
    BY <1>0, <2>1 DEF SnapshotsBehind, ScanHolds, Present, AtStep
<1>4. ASSUME NEW c \in Cores, NEW id \in Ids, RunSync(c, id)
      PROVE  SnapshotsBehind'
  <2>1. PICK step \in {"unspawned", "scanning"} :
          thread' = [thread EXCEPT ![c][id] =
            [step |-> step, snapshot |-> table[c][id].pending, version |-> 0, found |-> 0]]
    BY <1>4 DEF RunSync
  <2>2. /\ \A e \in Cores, i \in Ids : table'[e][i] =
             IF e = c /\ i = id THEN Taken(c, id, "scanning") ELSE table[e][i]
        /\ \A e \in Cores, i \in Ids : ~(e = c /\ i = id) => thread'[e][i] = thread[e][i]
        /\ thread'[c][id].snapshot = table[c][id].pending
        /\ thread'[c][id].step \in {"unspawned", "scanning"}
        /\ Present(c, id) /\ table[c][id].pending # None
        /\ UNCHANGED <<revision, view, now, prep>>
    BY <1>0, <1>4, <2>1 DEF RunSync, Typed, store
  <2>3. /\ Taken(c, id, "scanning").wallet = table[c][id].wallet
        /\ Taken(c, id, "scanning").pending = None
    BY <1>0, <2>2, EntryUpdate DEF Phases
  <2> QED
    BY <1>0, <2>2, <2>3 DEF SnapshotsBehind, ScanHolds, Present, AtStep
<1>5. ASSUME NEW c \in Cores, NEW id \in Ids, CancelSync(c, id)
      PROVE  SnapshotsBehind'
  <2>1. /\ \A e \in Cores, i \in Ids : table'[e][i] =
             IF e = c /\ i = id THEN Taken(c, id, "cancelled") ELSE table[e][i]
        /\ Present(c, id)
        /\ UNCHANGED <<revision, view, now, prep, thread>>
    BY <1>0, <1>5 DEF CancelSync, CancelEntry, Open, Typed, store
  <2>2. /\ Taken(c, id, "cancelled").wallet = table[c][id].wallet
        /\ Taken(c, id, "cancelled").pending = None
    BY <1>0, <2>1, EntryUpdate DEF Phases, Terminal
  <2> QED
    BY <1>0, <2>1, <2>2 DEF SnapshotsBehind, ScanHolds, Present, AtStep
<1>6. ASSUME \/ \E w \in Wallets : ReceiveAddress(w)
             \/ UNCHANGED svars
      PROVE  SnapshotsBehind'
  BY <1>0, <1>6 DEF ReceiveAddress, svars, store, SnapshotsBehind, ScanHolds, Present, AtStep
<1>7. CASE ChainMoves
  <2>1. \A c \in Cores, i \in Ids : thread[c][i] # None => thread[c][i].version \in Nat
    BY <1>0 DEF Typed, Threads
  <2> QED
    BY <1>0, <1>a, <1>7, <2>1 DEF ChainMoves, store, SnapshotsBehind, ScanHolds, Present, AtStep
<1>8. ASSUME NEW c \in Cores, NEW id \in Ids, Thread(c, id)
      PROVE  SnapshotsBehind'
  <2>1. thread[c][id] \in Threads
    <3>1. thread[c][id] # None
      BY <1>8 DEF Thread, SpawnFailed, ScanDone, ScanFails, EnterApply, TooLate, Commit, Refuse,
                  Report, AtStep
    <3> QED
      BY <1>0, <3>1 DEF Typed
  <2>2. ASSUME NEW step \in Steps, MoveTo(c, id, step)
        PROVE  /\ \A e \in Cores, i \in Ids : ~(e = c /\ i = id) => thread'[e][i] = thread[e][i]
               /\ thread'[c][id].step = step /\ thread'[c][id].snapshot = thread[c][id].snapshot
               /\ thread'[c][id].version = thread[c][id].version
               /\ thread'[c][id].found = thread[c][id].found
    BY <1>0, <2>1, <2>2 DEF MoveTo, Typed, Threads
  <2>3. ASSUME Ends(c, id)
        PROVE  \A e \in Cores, i \in Ids :
                 thread'[e][i] = IF e = c /\ i = id THEN None ELSE thread[e][i]
    BY <1>0, <2>3 DEF Ends, Typed
  <2>4. ASSUME NEW phase \in Phases, Present(c, id)
        PROVE  /\ Marked(c, id, phase).wallet = table[c][id].wallet
               /\ Marked(c, id, phase).pending = table[c][id].pending
               /\ Taken(c, id, phase).wallet = table[c][id].wallet
               /\ Taken(c, id, phase).pending = None
    BY <1>0, <2>4, EntryUpdate
  <2>5. CASE SpawnFailed(c, id)
    <3>1. /\ Ends(c, id) /\ UNCHANGED <<revision, view, now, prep>>
          /\ \A e \in Cores, i \in Ids :
               \/ table'[e][i] = table[e][i]
               \/ e = c /\ i = id /\ Present(c, id) /\ table'[c][id] = Taken(c, id, "cancelled")
      BY <1>0, <2>5 DEF SpawnFailed, CancelEntry, Open, Typed, store
    <3> QED
      BY <1>0, <2>3, <2>4, <3>1 DEF SnapshotsBehind, ScanHolds, Present, AtStep, Phases, Terminal
  <2>6. ASSUME NEW found \in 0 .. MaxReveal, ScanDone(c, id, found)
        PROVE  SnapshotsBehind'
    <3>1. found \in Nat
      BY <2>6, BoundAssumption
    <3>2. /\ \A e \in Cores, i \in Ids : ~(e = c /\ i = id) => thread'[e][i] = thread[e][i]
          /\ thread'[c][id].snapshot = thread[c][id].snapshot
          /\ thread'[c][id].version = now /\ thread'[c][id].found = found
          /\ thread'[c][id] # None /\ thread[c][id] # None
      <4>1. thread' = [thread EXCEPT ![c][id] = [thread[c][id] EXCEPT !.step = "scanned",
                         !.version = now, !.found = found]]
        BY <2>6 DEF ScanDone
      <4>2. [thread[c][id] EXCEPT !.step = "scanned", !.version = now, !.found = found] \in Threads
        BY <1>0, <2>1, <3>1 DEF Typed, Threads, Steps
      <4>3. \A e \in Cores, i \in Ids : thread'[e][i] =
              IF e = c /\ i = id
              THEN [thread[c][id] EXCEPT !.step = "scanned", !.version = now, !.found = found]
              ELSE thread[e][i]
        BY <1>0, <4>1 DEF Typed
      <4>4. /\ thread'[c][id] =
                 [thread[c][id] EXCEPT !.step = "scanned", !.version = now, !.found = found]
            /\ thread'[c][id] \in Threads
        BY <4>2, <4>3
      <4>5. thread'[c][id] # None /\ thread[c][id] # None
        BY <2>1, <4>4, NoneAssumption
      <4>6. /\ thread'[c][id].snapshot = thread[c][id].snapshot
            /\ thread'[c][id].version = now /\ thread'[c][id].found = found
        BY <2>1, <4>4 DEF Threads
      <4> QED
        BY <4>3, <4>5, <4>6
    <3>3. UNCHANGED <<revision, view, now, prep, table>>
      BY <2>6 DEF ScanDone, store
    <3>4. Present(c, id) => table[c][id].wallet \in Wallets
      BY <1>0 DEF Present, Typed, Entries
    <3> QED
      BY <1>0, <1>a, <3>1, <3>2, <3>3, <3>4 DEF SnapshotsBehind, ScanHolds, Present, AtStep
  <2>7. CASE ScanFails(c, id) \/ TooLate(c, id)
    <3>1. /\ MoveTo(c, id, "failing") \/ MoveTo(c, id, "cancelling")
          /\ UNCHANGED <<revision, view, now, prep, table>>
      BY <2>7 DEF ScanFails, TooLate, store
    <3>2. thread[c][id] # None
      BY <2>1, NoneAssumption
    <3> QED
      BY <1>0, <2>2, <3>1, <3>2 DEF SnapshotsBehind, ScanHolds, Present, AtStep, Steps
  <2>8. CASE EnterApply(c, id)
    <3>1. /\ MoveTo(c, id, "applying") /\ Present(c, id) /\ AtStep(c, id, "scanned")
          /\ \A e \in Cores, i \in Ids : table'[e][i] =
               IF e = c /\ i = id THEN Marked(c, id, "applying") ELSE table[e][i]
          /\ UNCHANGED <<revision, view, now, prep>>
      BY <1>0, <2>8 DEF EnterApply, store, Typed
    <3> QED
      BY <1>0, <2>2, <2>4, <3>1 DEF SnapshotsBehind, ScanHolds, Present, AtStep, Steps, Phases
  <2>9. CASE Refuse(c, id)
    <3>1. /\ MoveTo(c, id, "failing")
          /\ UNCHANGED <<revision, view, now, prep, table>>
      BY <2>9 DEF Refuse, store
    <3>2. thread[c][id] # None
      BY <2>1, NoneAssumption
    <3> QED
      BY <1>0, <2>2, <3>1, <3>2 DEF SnapshotsBehind, ScanHolds, Present, AtStep, Steps
  <2>10. CASE Report(c, id)
    <3>1. /\ Ends(c, id) /\ UNCHANGED <<revision, view, now, prep>>
          /\ \A e \in Cores, i \in Ids :
               \/ table'[e][i] = table[e][i]
               \/ /\ e = c /\ i = id /\ Present(c, id)
                  /\ \/ table'[c][id] = Marked(c, id, "failed")
                     \/ table'[c][id] = Marked(c, id, "cancelled")
      BY <1>0, <2>10 DEF Report, Open, Typed, store
    <3> QED
      BY <1>0, <2>3, <2>4, <3>1 DEF SnapshotsBehind, ScanHolds, Present, AtStep, Phases, Terminal
  <2>11. CASE Commit(c, id)
    <3> DEFINE w == table[c][id].wallet
    <3>1. Present(c, id) /\ AtStep(c, id, "applying") /\ table[c][id].wallet \in Wallets
      BY <1>0, <2>11 DEF Commit, ThreadsOwnEntries, Present, Typed, Entries
    <3>2. /\ Ends(c, id) /\ UNCHANGED <<now, prep>>
          /\ \A e \in Cores, i \in Ids : table'[e][i] =
               IF e = c /\ i = id THEN Marked(c, id, "complete") ELSE table[e][i]
      BY <1>0, <2>11 DEF Commit, Typed
    <3>3. \A v \in Wallets : revision'[v] = IF v = w THEN revision[w] + 1 ELSE revision[v]
      BY <1>0, <2>11, <3>1 DEF Commit, Typed
    <3>4. \A v \in Wallets : v # w => view'[v] = view[v]
      BY <1>0, <2>11, <3>1 DEF Commit, Typed
    <3>5. view'[w].version = thread[c][id].version
      BY <1>0, <2>11, <3>1 DEF Commit, Typed
    <3>6. thread[c][id].version <= now
      BY <1>0, <3>1 DEF SnapshotsBehind, ScanHolds
    <3>7. \A x \in Callers : prep[x] # None => prep[x].wallet \in Wallets
                                            /\ prep[x].snapshot.revision \in Nat
      BY <1>0 DEF Typed, Prepares, Snapshots
    <3>8. \A e \in Cores, i \in Ids : Present(e, i) =>
            /\ table[e][i].wallet \in Wallets
            /\ table[e][i].pending # None => table[e][i].pending.revision \in Nat
            /\ thread[e][i] # None => thread[e][i].snapshot.revision \in Nat
      BY <1>0 DEF Typed, Entries, Threads, Snapshots, Present
    <3>9. /\ Marked(c, id, "complete").wallet = w
          /\ Marked(c, id, "complete").pending = table[c][id].pending
      BY <2>4, <3>1 DEF Phases, Terminal
    <3> HIDE DEF w
    <3>10. \A v \in Wallets : view'[v].version <= now'
      BY <1>0, <3>2, <3>4, <3>5, <3>6 DEF SnapshotsBehind
    <3>11. \A x \in Callers : (prep[x] # None => prep[x].snapshot.revision <= revision[prep[x].wallet])'
      BY <1>0, <1>a, <3>2, <3>3, <3>7 DEF SnapshotsBehind
    <3>12. ASSUME NEW e \in Cores, NEW i \in Ids, ~(e = c /\ i = id), Present(e, i)
           PROVE  /\ (table[e][i].pending # None =>
                       table[e][i].pending.revision <= revision[table[e][i].wallet])'
                  /\ (thread[e][i] # None =>
                       thread[e][i].snapshot.revision <= revision[table[e][i].wallet])'
                  /\ (AtStep(e, i, "scanned") \/ AtStep(e, i, "applying") => ScanHolds(e, i))'
      <4>1. table'[e][i] = table[e][i] /\ thread'[e][i] = thread[e][i]
        BY <2>3, <3>2, <3>12
      <4>2. /\ table[e][i].pending # None =>
                 table[e][i].pending.revision <= revision[table[e][i].wallet]
            /\ thread[e][i] # None =>
                 thread[e][i].snapshot.revision <= revision[table[e][i].wallet]
            /\ AtStep(e, i, "scanned") \/ AtStep(e, i, "applying") => ScanHolds(e, i)
        BY <1>0, <3>12 DEF SnapshotsBehind
      <4>3. revision[table[e][i].wallet] \in Nat /\ table[e][i].wallet \in Wallets
        BY <1>a, <3>8, <3>12
      <4>4. table[e][i].wallet = w => thread[e][i] = None \/
              thread[e][i].snapshot.revision # revision'[w]
        BY <3>1, <3>3, <3>8, <3>12, <4>2, <4>3
      <4> QED
        BY <3>2, <3>3, <3>4, <3>8, <3>12, <4>1, <4>2, <4>3, <4>4 DEF ScanHolds, AtStep
    <3>13. Present(c, id)' =>
             /\ (table[c][id].pending # None =>
                  table[c][id].pending.revision <= revision[table[c][id].wallet])'
             /\ thread'[c][id] = None
      <4>1. revision[w] \in Nat /\ w \in Wallets
        BY <1>a, <3>1 DEF w
      <4>2. table'[c][id].wallet = w /\ table'[c][id].pending = table[c][id].pending
        BY <3>2, <3>9
      <4>3. table[c][id].pending # None => table[c][id].pending.revision <= revision[w]
        BY <1>0, <3>1 DEF SnapshotsBehind, w
      <4> QED
        BY <2>3, <3>1, <3>2, <3>3, <3>8, <4>1, <4>2, <4>3
    <3> QED
      BY <2>3, <3>2, <3>10, <3>11, <3>12, <3>13 DEF SnapshotsBehind, Present, AtStep
  <2> QED
    BY <1>8, <2>5, <2>6, <2>7, <2>8, <2>9, <2>10, <2>11 DEF Thread
<1> QED
  BY <1>1, <1>2, <1>3, <1>4, <1>5, <1>6, <1>7, <1>8 DEF SyncNext

-----------------------------------------------------------------------------
(* Theorems *)

\* The invariant is inductive: it holds when a process starts, and every step
\* of callers, threads, other cores and the chain keeps it.
THEOREM SyncInvCorrect == SyncSpec => []SInv
<1>1. SyncInit => SInv
  <2> SUFFICES ASSUME SyncInit PROVE SInv
    OBVIOUS
  <2>1. Typed
    BY BoundAssumption DEF SyncInit, Typed, Views
  <2>2. ThreadsOwnEntries
    BY NoneAssumption DEF SyncInit, ThreadsOwnEntries, AtStep, Present, Ids
  <2>3. SnapshotsBehind
    BY DEF SyncInit, SnapshotsBehind, Present
  <2> QED
    BY <2>1, <2>2, <2>3 DEF SInv
<1>2. SInv /\ [SyncNext]_svars => SInv'
  <2> SUFFICES ASSUME SInv, [SyncNext]_svars PROVE SInv'
    OBVIOUS
  <2>1. AppliedPresent
    BY DEF SInv, ThreadsOwnEntries, AppliedPresent
  <2>2. Typed'
    BY <2>1, TypedStep DEF SInv
  <2>3. ThreadsOwnEntries'
    BY OwnStep
  <2>4. SnapshotsBehind'
    BY <2>2, <2>3, BehindStep
  <2> QED
    BY <2>2, <2>3, <2>4 DEF SInv
<1> QED
  BY <1>1, <1>2, PTL DEF SyncSpec

\* Tables, threads and store keep their types, and a core's table lock is held
\* by exactly the operation that is being applied, for any number of them.
THEOREM SyncTypesCorrect == SyncSpec => []SyncTypeOK
<1>1. SInv => SyncTypeOK
  BY DEF SInv, Typed, ThreadsOwnEntries, SyncTypeOK
<1> QED
  BY <1>1, SyncInvCorrect, PTL

\* A commit only replaces a view by one that is not older, and that has scanned
\* the gap beyond every address handed out while its scan was under way.
LEMMA CommitAdvances ==
  ASSUME SInv, NEW c \in Cores, NEW id \in Ids, Commit(c, id)
  PROVE  LET w == table[c][id].wallet
         IN  /\ w \in Wallets
             /\ \A v \in Wallets \ {w} : view'[v] = view[v] /\ revealed'[v] = revealed[v]
             /\ view'[w].version >= view[w].version
             /\ view'[w].upto >= revealed'[w] + Gap - 1
             /\ revealed'[w] >= revealed[w]
<1> DEFINE w == table[c][id].wallet
           t == thread[c][id]
<1>1. Present(c, id) /\ AtStep(c, id, "applying") /\ w \in Wallets /\ t \in Threads
  BY DEF SInv, Commit, ThreadsOwnEntries, AtStep, Present, Typed, Entries
<1>2. Fresh(w, t.snapshot) /\ ScanHolds(c, id)
  BY <1>1 DEF SInv, Commit, SnapshotsBehind
<1>3. t.snapshot.revision = revision[w] /\ t.snapshot.revealed = revealed[w]
  <2>1. Current(w) = t.snapshot
    BY <1>2 DEF Fresh
  <2>2. Current(w).revision = revision[w] /\ Current(w).revealed = revealed[w]
    BY DEF Current
  <2> QED
    BY <2>1, <2>2
<1>4. view[w].version <= t.version
  BY <1>2, <1>3 DEF ScanHolds
<1>5. /\ t.found \in Nat /\ t.version \in Nat /\ revealed[w] \in Nat /\ Gap \in Nat
      /\ view[w].version \in Nat /\ Scanned(t) \in Nat
      /\ Scanned(t) >= t.found + Gap - 1 /\ Scanned(t) >= revealed[w] + Gap - 1
  BY <1>1, <1>3, ScannedCovers, TableAssumption DEF SInv, Typed, Threads, Views
<1>6. /\ view' = [view EXCEPT ![w] = [version |-> t.version, upto |-> Scanned(t)]]
      /\ revealed' = [revealed EXCEPT ![w] = Greater(@, t.found)]
  BY DEF Commit
<1>7. /\ view'[w].version = t.version /\ view'[w].upto = Scanned(t)
      /\ revealed'[w] = Greater(revealed[w], t.found)
      /\ \A v \in Wallets \ {w} : view'[v] = view[v] /\ revealed'[v] = revealed[v]
  BY <1>1, <1>6 DEF SInv, Typed
<1>8. revealed'[w] >= revealed[w] /\ Scanned(t) >= revealed'[w] + Gap - 1
  BY <1>5, <1>7 DEF Greater
<1> QED
  BY <1>1, <1>4, <1>5, <1>7, <1>8

\* Only a commit and an address handed out write the store.
LEMMA OthersKeepStore ==
  ASSUME Typed, [SyncNext]_svars
  PROVE  \/ \E c \in Cores, id \in Ids : Commit(c, id)
         \/ \E w \in Wallets : ReceiveAddress(w)
         \/ UNCHANGED <<view, revealed>>
<1>1. ASSUME NEW x \in Callers,
             \/ \E c \in Cores, w \in Wallets : PrepareRead(x, c, w)
             \/ PrepareInsert(x)
             \/ PrepareBusy(x)
      PROVE  UNCHANGED <<view, revealed>>
  <2>1. UNCHANGED store
    BY <1>1 DEF PrepareRead, PrepareInsert, PrepareBusy
  <2> QED
    BY <2>1 DEF store
<1>2. ASSUME NEW c \in Cores, NEW id \in Ids, RunSync(c, id) \/ CancelSync(c, id)
      PROVE  UNCHANGED <<view, revealed>>
  BY <1>2 DEF RunSync, CancelSync, store
<1>3. ASSUME NEW c \in Cores, NEW id \in Ids, Thread(c, id), ~Commit(c, id)
      PROVE  UNCHANGED <<view, revealed>>
  <2>1. CASE SpawnFailed(c, id) \/ ScanFails(c, id) \/ TooLate(c, id) \/ Report(c, id)
    BY <2>1 DEF SpawnFailed, ScanFails, TooLate, Report, store
  <2>2. CASE (\E found \in 0 .. MaxReveal : ScanDone(c, id, found)) \/ EnterApply(c, id) \/ Refuse(c, id)
    BY <2>2 DEF ScanDone, EnterApply, Refuse, store
  <2> QED
    BY <1>3, <2>1, <2>2 DEF Thread
<1>4. ASSUME ChainMoves \/ UNCHANGED svars
      PROVE  UNCHANGED <<view, revealed>>
  BY <1>4 DEF ChainMoves, svars, store
<1> QED
  BY <1>1, <1>2, <1>3, <1>4 DEF SyncNext

\* A slow scan never undoes a newer view or an address, for any number of
\* cores, callers and wallets and any interleaving of them.
THEOREM NeverBackwardsAlways == SyncSpec => NeverBackwards
<1>1. SInv /\ [SyncNext]_svars => [ViewAdvances]_svars
  <2> SUFFICES ASSUME SInv, [SyncNext]_svars PROVE ViewAdvances
    OBVIOUS
  <2>1. \A w \in Wallets : view[w].version \in Nat /\ revealed[w] \in Nat
    BY DEF SInv, Typed, Views
  <2>2. ASSUME NEW c \in Cores, NEW id \in Ids, Commit(c, id)
        PROVE  ViewAdvances
    BY <2>1, <2>2, CommitAdvances DEF ViewAdvances
  <2>3. ASSUME NEW w \in Wallets, ReceiveAddress(w)
        PROVE  ViewAdvances
    BY <2>1, <2>3 DEF SInv, Typed, ReceiveAddress, ViewAdvances
  <2>4. CASE UNCHANGED <<view, revealed>>
    BY <2>1, <2>4 DEF ViewAdvances
  <2> QED
    BY <2>2, <2>3, <2>4, OthersKeepStore DEF SInv
<1> QED
  BY <1>1, SyncInvCorrect, PTL DEF SyncSpec, NeverBackwards

-----------------------------------------------------------------------------
(* The promise *)

Shown == [o \in Cores \X Ids |-> Outcome(o[1], o[2])]

\* One thing the promise allows to happen, or nothing.
Allowed == [Abstract!PromiseNext]_(Abstract!pvars)

\* A step that keeps every entry's outcome and the store is a stutter.
LEMMA Stutters ==
  ASSUME UNCHANGED <<view, revealed>>,
         \A c \in Cores, id \in Ids : Outcome(c, id)' = Outcome(c, id)
  PROVE  Allowed
<1>1. Shown' = Shown
  BY DEF Shown
<1> QED
  BY <1>1 DEF Allowed, Shown, Abstract!pvars

\* A step that ends one open operation and keeps the store is a quit.
LEMMA Quits ==
  ASSUME UNCHANGED <<view, revealed>>, NEW c \in Cores, NEW id \in Ids,
         Outcome(c, id) = "open", NEW end \in {"cancelled", "failed"}, Outcome(c, id)' = end,
         \A e \in Cores, i \in Ids : ~(e = c /\ i = id) => Outcome(e, i)' = Outcome(e, i)
  PROVE  Allowed
<1> DEFINE o == <<c, id>>
<1>1. Shown[o] = "open" /\ Shown' = [Shown EXCEPT ![o] = end]
  <2>1. \A q \in Cores \X Ids :
          Outcome(q[1], q[2])' = IF q = o THEN end ELSE Outcome(q[1], q[2])
    <3> SUFFICES ASSUME NEW e \in Cores, NEW i \in Ids
                 PROVE  Outcome(e, i)' = IF <<e, i>> = o THEN end ELSE Outcome(e, i)
      OBVIOUS
    <3> QED
      OBVIOUS
  <2>2. o \in Cores \X Ids /\ Shown[o] = Outcome(c, id)
    BY DEF Shown
  <2> QED
    BY <2>1, <2>2 DEF Shown
<1>2. Abstract!Quit(o, end)
  BY <1>1 DEF Abstract!Quit, Shown
<1> QED
  BY <1>2 DEF Allowed, Abstract!PromiseNext, Abstract!Ended

\* A step that rewrites one present entry to another phase changes only what
\* that operation shows.
LEMMA PhaseShown ==
  ASSUME Typed, NEW c \in Cores, NEW id \in Ids, Present(c, id), NEW phase \in Phases,
         \/ table' = [table EXCEPT ![c][id] = Marked(c, id, phase)]
         \/ table' = [table EXCEPT ![c][id] = Taken(c, id, phase)]
  PROVE  /\ \A e \in Cores, i \in Ids : ~(e = c /\ i = id) => Outcome(e, i)' = Outcome(e, i)
         /\ Outcome(c, id)' = IF phase \in Terminal THEN phase ELSE "open"
         /\ Outcome(c, id) = IF table[c][id].phase \in Terminal THEN table[c][id].phase ELSE "open"
<1>1. /\ \A e \in Cores, i \in Ids : ~(e = c /\ i = id) => table'[e][i] = table[e][i]
      /\ table'[c][id] = Marked(c, id, phase) \/ table'[c][id] = Taken(c, id, phase)
  BY DEF Typed
<1>2. table'[c][id] # None /\ table'[c][id].phase = phase
  BY <1>1, EntryUpdate, NoneAssumption
<1>3. \A e \in Cores, i \in Ids : ~(e = c /\ i = id) => Outcome(e, i)' = Outcome(e, i)
  BY <1>1 DEF Outcome, Open, Present
<1>4. Outcome(c, id)' = IF phase \in Terminal THEN phase ELSE "open"
  BY <1>2 DEF Outcome, Open, Present
<1> QED
  BY <1>3, <1>4 DEF Outcome, Open, Present

LEMMA PhaseOpens ==
  ASSUME Typed, NEW c \in Cores, NEW id \in Ids, Present(c, id), NEW phase \in Phases \ Terminal,
         \/ table' = [table EXCEPT ![c][id] = Marked(c, id, phase)]
         \/ table' = [table EXCEPT ![c][id] = Taken(c, id, phase)]
  PROVE  /\ \A e \in Cores, i \in Ids : ~(e = c /\ i = id) => Outcome(e, i)' = Outcome(e, i)
         /\ Outcome(c, id)' = "open"
<1>1. /\ \A e \in Cores, i \in Ids : ~(e = c /\ i = id) => table'[e][i] = table[e][i]
      /\ table'[c][id] = Marked(c, id, phase) \/ table'[c][id] = Taken(c, id, phase)
  BY DEF Typed
<1>2. table'[c][id] # None /\ table'[c][id].phase = phase
  BY <1>1, EntryUpdate, NoneAssumption
<1> QED
  BY <1>1, <1>2 DEF Outcome, Open, Present

\* Making room and inserting an entry is an opening of the promise.
LEMMA InsertOpens ==
  ASSUME SInv, NEW x \in Callers, PrepareInsert(x)
  PROVE  Allowed
<1>a. /\ prep[x].core \in Cores /\ next + 1 \in Ids /\ next \in Nat
      /\ [wallet |-> prep[x].wallet, phase |-> "prepared", pending |-> prep[x].snapshot] \in Entries
  BY BoundAssumption, NoneAssumption
  DEF SInv, PrepareInsert, Typed, Prepares, Ids, Entries, Phases
<1>b. PICK c \in Cores : c = prep[x].core
  BY <1>a
<1>c. PICK id \in Ids : id = next + 1
  BY <1>a
<1>d. PICK new \in Entries :
        new = [wallet |-> prep[x].wallet, phase |-> "prepared", pending |-> prep[x].snapshot]
  BY <1>a
<1> DEFINE o == <<c, id>>
<1>1. new # None /\ new.phase = "prepared"
  BY <1>d, NoneAssumption
<1>2. /\ \A e \in Cores, i \in Ids : table'[e][i] =
           IF e = c THEN IF i = id THEN new ELSE IF i \in Evicted(c) THEN None ELSE table[e][i]
                    ELSE table[e][i]
      /\ UNCHANGED <<view, revealed>>
  BY <1>a, <1>b, <1>c, <1>d DEF PrepareInsert, SInv, Typed, NextOperation, store
<1>3. table[c][id] = None
  BY <1>a, <1>c DEF SInv, ThreadsOwnEntries
<1>4. \A i \in Ids : i \in Evicted(c) => Present(c, i) /\ ~Open(c, i)
  BY DEF Evicted
<1>5. Outcome(c, id) = "absent" /\ Outcome(c, id)' = "open"
  <2>1. table'[c][id] = new
    BY <1>2
  <2> QED
    BY <1>1, <1>3, <2>1 DEF Outcome, Open, Present, Terminal
<1>6. ASSUME NEW e \in Cores, NEW i \in Ids, ~(e = c /\ i = id)
      PROVE  \/ Outcome(e, i)' = Outcome(e, i)
             \/ Outcome(e, i) \in Terminal /\ Outcome(e, i)' = "absent"
  <2>1. CASE e = c /\ i \in Evicted(c)
    <3>1. table'[e][i] = None
      BY <1>2, <1>6, <2>1
    <3> QED
      BY <1>4, <2>1, <3>1 DEF Outcome, Open, Present
  <2>2. CASE ~(e = c /\ i \in Evicted(c))
    <3>1. table'[e][i] = table[e][i]
      BY <1>2, <1>6, <2>2
    <3> QED
      BY <3>1 DEF Outcome, Open, Present
  <2> QED
    BY <2>1, <2>2
<1>7. Abstract!Open(o)
  <2>1. o \in Cores \X Ids /\ Shown[o] = "absent" /\ Shown'[o] = "open"
    BY <1>1, <1>5 DEF Shown
  <2>2. \A q \in (Cores \X Ids) \ {o} : \/ Shown'[q] = Shown[q]
                                        \/ Shown[q] \in Terminal /\ Shown'[q] = "absent"
    <3> SUFFICES ASSUME NEW e \in Cores, NEW i \in Ids, <<e, i>> # o
                 PROVE  \/ Outcome(e, i)' = Outcome(e, i)
                        \/ Outcome(e, i) \in Terminal /\ Outcome(e, i)' = "absent"
      BY DEF Shown
    <3> QED
      BY <1>6
  <2> QED
    BY <1>2, <2>1, <2>2 DEF Abstract!Open, Abstract!Ended, Terminal, Shown
<1> QED
  BY <1>1, <1>7 DEF Allowed, Abstract!PromiseNext

\* A commit is the completion the promise speaks of.
LEMMA CommitCompletes ==
  ASSUME SInv, NEW c \in Cores, NEW id \in Ids, Commit(c, id)
  PROVE  Allowed
<1> DEFINE o == <<c, id>>
           w == table[c][id].wallet
<1>1. /\ Present(c, id) /\ table[c][id].phase = "applying"
      /\ table' = [table EXCEPT ![c][id] = Marked(c, id, "complete")]
  BY DEF SInv, Commit, ThreadsOwnEntries
<1>2. /\ \A e \in Cores, i \in Ids : ~(e = c /\ i = id) => Outcome(e, i)' = Outcome(e, i)
      /\ Outcome(c, id)' = "complete"
      /\ Outcome(c, id) = "open"
  BY <1>1, PhaseShown DEF SInv, Phases, Terminal
<1>3. Shown[o] = "open" /\ Shown' = [Shown EXCEPT ![o] = "complete"]
  <2>1. \A q \in Cores \X Ids :
          Outcome(q[1], q[2])' = IF q = o THEN "complete" ELSE Outcome(q[1], q[2])
    <3> SUFFICES ASSUME NEW e \in Cores, NEW i \in Ids
                 PROVE  Outcome(e, i)' = IF <<e, i>> = o THEN "complete" ELSE Outcome(e, i)
      OBVIOUS
    <3> QED
      BY <1>2
  <2>2. o \in Cores \X Ids /\ Shown[o] = Outcome(c, id)
    BY DEF Shown
  <2> QED
    BY <1>2, <2>1, <2>2 DEF Shown
<1>4. /\ w \in Wallets
      /\ view'[w].version >= view[w].version
      /\ view'[w].upto >= revealed'[w] + Gap - 1
      /\ revealed'[w] >= revealed[w]
  BY CommitAdvances
<1>5. /\ view' = [view EXCEPT ![w] = view'[w]]
      /\ revealed' = [revealed EXCEPT ![w] = revealed'[w]]
  <2>1. /\ view' = [view EXCEPT ![w] = [version |-> thread[c][id].version,
                                        upto |-> Scanned(thread[c][id])]]
        /\ revealed' = [revealed EXCEPT ![w] = Greater(@, thread[c][id].found)]
    BY DEF Commit
  <2>2. view \in [Wallets -> Views] /\ revealed \in [Wallets -> Nat]
    BY DEF SInv, Typed
  <2> QED
    BY <1>4, <2>1, <2>2
<1>6. view'[w].upto >= revealed'[w]
  <2>1. view'[w].upto \in Nat /\ revealed'[w] \in Nat /\ Gap \in Nat /\ Gap >= 1
    <3>1. SyncNext /\ AppliedPresent
      BY DEF SyncNext, Thread, SInv, ThreadsOwnEntries, AppliedPresent
    <3>2. Typed'
      BY <3>1, TypedStep DEF SInv
    <3> QED
      BY <1>4, <3>2, TableAssumption DEF Typed, Views
  <2> QED
    BY <1>4, <2>1
<1>7. Abstract!Complete(o, w)
  BY <1>3, <1>4, <1>5, <1>6 DEF Abstract!Complete, Shown
<1> QED
  BY <1>4, <1>7 DEF Allowed, Abstract!PromiseNext

\* Every step of callers, threads, other cores and the chain is allowed.
LEMMA StepAllowed == SInv /\ [SyncNext]_svars => Allowed
<1> SUFFICES ASSUME SInv, [SyncNext]_svars PROVE Allowed
  OBVIOUS
<1>0. Typed /\ ThreadsOwnEntries
  BY DEF SInv
<1>1. ASSUME UNCHANGED <<view, revealed, table>>
      PROVE  Allowed
  BY <1>1, Stutters DEF Outcome, Open, Present
<1>2. ASSUME NEW x \in Callers, \/ \E c \in Cores, w \in Wallets : PrepareRead(x, c, w)
                               \/ PrepareBusy(x)
      PROVE  Allowed
  BY <1>1, <1>2 DEF PrepareRead, PrepareBusy, store
<1>3. ASSUME NEW c \in Cores, NEW id \in Ids, RunSync(c, id)
      PROVE  Allowed
  <2>1. /\ Present(c, id) /\ table[c][id].phase = "prepared"
        /\ table' = [table EXCEPT ![c][id] = Taken(c, id, "scanning")]
        /\ UNCHANGED <<view, revealed>>
    BY <1>0, <1>3 DEF RunSync, ThreadsOwnEntries, store
  <2>2. /\ Outcome(c, id)' = Outcome(c, id)
        /\ \A e \in Cores, i \in Ids : ~(e = c /\ i = id) => Outcome(e, i)' = Outcome(e, i)
    <3>1. "scanning" \in Phases \ Terminal
      BY DEF Phases, Terminal
    <3>2. Outcome(c, id) = "open"
      BY <2>1 DEF Outcome, Open, Terminal
    <3> QED
      BY <1>0, <2>1, <3>1, <3>2, PhaseOpens
  <2> QED
    BY <2>1, <2>2, Stutters
<1>4. ASSUME NEW c \in Cores, NEW id \in Ids, Open(c, id), CancelEntry(c, id),
             UNCHANGED <<view, revealed>>
      PROVE  Allowed
  <2>1. /\ Present(c, id) /\ table[c][id].phase \notin Terminal
        /\ table' = [table EXCEPT ![c][id] = Taken(c, id, "cancelled")]
    BY <1>4 DEF Open, CancelEntry
  <2>2. /\ Outcome(c, id) = "open" /\ Outcome(c, id)' = "cancelled"
        /\ \A e \in Cores, i \in Ids : ~(e = c /\ i = id) => Outcome(e, i)' = Outcome(e, i)
    BY <1>0, <2>1, PhaseShown DEF Phases, Terminal
  <2> QED
    BY <1>4, <2>2, Quits
<1>5. ASSUME NEW c \in Cores, NEW id \in Ids, CancelSync(c, id)
      PROVE  Allowed
  BY <1>4, <1>5 DEF CancelSync, store
<1>6. ASSUME NEW w \in Wallets, ReceiveAddress(w)
      PROVE  Allowed
  <2>1. \A c \in Cores, id \in Ids : Outcome(c, id)' = Outcome(c, id)
    BY <1>6 DEF ReceiveAddress, Outcome, Open, Present
  <2>2. Shown' = Shown
    BY <2>1 DEF Shown
  <2>3. Abstract!Reveal(w)
    BY <1>6, <2>2 DEF ReceiveAddress, Abstract!Reveal, Shown
  <2> QED
    BY <2>3 DEF Allowed, Abstract!PromiseNext
<1>7. ASSUME ChainMoves \/ UNCHANGED svars
      PROVE  Allowed
  BY <1>1, <1>7 DEF ChainMoves, svars, store
<1>8. ASSUME NEW c \in Cores, NEW id \in Ids, Thread(c, id)
      PROVE  Allowed
  <2>1. CASE SpawnFailed(c, id)
    BY <1>1, <1>4, <2>1 DEF SpawnFailed, store
  <2>2. CASE (\E found \in 0 .. MaxReveal : ScanDone(c, id, found)) \/ ScanFails(c, id)
             \/ TooLate(c, id) \/ Refuse(c, id)
    BY <1>1, <2>2 DEF ScanDone, ScanFails, TooLate, Refuse, store
  <2>3. CASE EnterApply(c, id)
    <3>1. /\ Present(c, id) /\ thread[c][id] # None /\ table[c][id].phase # "cancelled"
          /\ table' = [table EXCEPT ![c][id] = Marked(c, id, "applying")]
          /\ UNCHANGED <<view, revealed>>
      BY <2>3 DEF EnterApply, AtStep, store
    <3>2. table[c][id].phase \in {"scanning", "applying"}
      BY <1>0, <3>1 DEF ThreadsOwnEntries
    <3>3. /\ Outcome(c, id)' = Outcome(c, id)
          /\ \A e \in Cores, i \in Ids : ~(e = c /\ i = id) => Outcome(e, i)' = Outcome(e, i)
      <4>1. /\ \A e \in Cores, i \in Ids : ~(e = c /\ i = id) => Outcome(e, i)' = Outcome(e, i)
            /\ Outcome(c, id)' = "open"
        <5>1. "applying" \in Phases \ Terminal
          BY DEF Phases, Terminal
        <5> QED
          BY <1>0, <3>1, <5>1, PhaseOpens
      <4>2. Outcome(c, id) = "open"
        BY <3>1, <3>2 DEF Outcome, Open, Terminal
      <4> QED
        BY <4>1, <4>2
    <3> QED
      BY <3>1, <3>3, Stutters
  <2>4. CASE Commit(c, id)
    BY <2>4, CommitCompletes
  <2>5. CASE Report(c, id) /\ ~Open(c, id)
    BY <1>1, <2>5 DEF Report, store
  <2>6. CASE Report(c, id) /\ Open(c, id)
    <3>1. PICK end \in {"cancelled", "failed"} : table' = [table EXCEPT ![c][id] = Marked(c, id, end)]
      BY <2>6 DEF Report
    <3>2. Present(c, id) /\ table[c][id].phase \notin Terminal /\ UNCHANGED <<view, revealed>>
      BY <2>6 DEF Open, Report, store
    <3>3. /\ Outcome(c, id) = "open" /\ Outcome(c, id)' = end
          /\ \A e \in Cores, i \in Ids : ~(e = c /\ i = id) => Outcome(e, i)' = Outcome(e, i)
      BY <1>0, <3>1, <3>2, PhaseShown DEF Phases, Terminal
    <3> QED
      BY <3>2, <3>3, Quits
  <2> QED
    BY <1>8, <2>1, <2>2, <2>3, <2>4, <2>5, <2>6 DEF Thread
<1> QED
  BY <1>2, <1>3, <1>5, <1>6, <1>7, <1>8, InsertOpens DEF SyncNext

\* Synchronization keeps its promise: an operation is complete exactly when its
\* view was committed, and a cancelled or failed one never commits, for any
\* number of cores, callers, wallets and operations.
THEOREM KeepsPromiseAlways == SyncSpec => KeepsPromise
<1>1. SyncInit => Abstract!PromiseInit
  <2> SUFFICES ASSUME SyncInit PROVE Abstract!PromiseInit
    OBVIOUS
  <2>1. \A c \in Cores, id \in Ids : Outcome(c, id) = "absent"
    BY DEF SyncInit, Outcome, Present
  <2>2. Shown = [o \in Cores \X Ids |-> "absent"]
    BY <2>1 DEF Shown
  <2> QED
    BY <2>2 DEF SyncInit, Abstract!PromiseInit, Shown
<1>2. SInv /\ [SyncNext]_svars => [Abstract!PromiseNext]_(Abstract!pvars)
  BY StepAllowed DEF Allowed
<1> QED
  BY <1>1, <1>2, SyncInvCorrect, PTL DEF SyncSpec, KeepsPromise, Abstract!Promise

-----------------------------------------------------------------------------
(* Ids and limits of the tables *)

Occupied(c) == {id \in Ids : Present(c, id)}

\* A step that inserts nothing keeps the entries and their wallets, reopens
\* none, and starts threads for entries only.
Keeps ==
  \A c \in Cores, id \in Ids :
    /\ Present(c, id)' <=> Present(c, id)
    /\ Present(c, id) => table'[c][id].wallet = table[c][id].wallet
    /\ Open(c, id)' => Open(c, id)
    /\ thread'[c][id] # None => thread[c][id] # None \/ Present(c, id)

\* One rewritten entry, of an operation that was open or is not open now.
LEMMA RewriteKeeps ==
  ASSUME SInv, NEW c \in Cores, NEW id \in Ids, Present(c, id), NEW phase \in Phases,
         \/ table' = [table EXCEPT ![c][id] = Marked(c, id, phase)]
         \/ table' = [table EXCEPT ![c][id] = Taken(c, id, phase)],
         Open(c, id) \/ phase \in Terminal,
         \A e \in Cores, i \in Ids :
           thread'[e][i] # None => thread[e][i] # None \/ Present(e, i)
  PROVE  Keeps
<1>1. /\ \A e \in Cores, i \in Ids : ~(e = c /\ i = id) => table'[e][i] = table[e][i]
      /\ table'[c][id] = Marked(c, id, phase) \/ table'[c][id] = Taken(c, id, phase)
  BY DEF SInv, Typed
<1>2. /\ table'[c][id] # None /\ table'[c][id].phase = phase
      /\ table'[c][id].wallet = table[c][id].wallet
  BY <1>1, EntryUpdate, NoneAssumption DEF SInv
<1> QED
  BY <1>1, <1>2 DEF Keeps, Present, Open

LEMMA OthersKeep ==
  ASSUME SInv, [SyncNext]_svars
  PROVE  Keeps \/ \E x \in Callers : PrepareInsert(x)
<1>0. Typed /\ ThreadsOwnEntries
  BY DEF SInv
<1>1. ASSUME UNCHANGED table,
             \A e \in Cores, i \in Ids : thread'[e][i] # None => thread[e][i] # None
      PROVE  Keeps
  BY <1>1 DEF Keeps, Present, Open
<1>2. ASSUME \/ \E x \in Callers : \/ \E c \in Cores, w \in Wallets : PrepareRead(x, c, w)
                                   \/ PrepareBusy(x)
             \/ \E w \in Wallets : ReceiveAddress(w)
             \/ ChainMoves
             \/ UNCHANGED svars
      PROVE  Keeps
  <2>1. UNCHANGED <<table, thread>>
    BY <1>2 DEF PrepareRead, PrepareBusy, ReceiveAddress, ChainMoves, svars
  <2> QED
    BY <1>1, <2>1
<1>3. ASSUME NEW c \in Cores, NEW id \in Ids, RunSync(c, id)
      PROVE  Keeps
  <2>1. /\ Present(c, id) /\ Open(c, id)
        /\ table' = [table EXCEPT ![c][id] = Taken(c, id, "scanning")]
        /\ \A e \in Cores, i \in Ids : ~(e = c /\ i = id) => thread'[e][i] = thread[e][i]
    BY <1>0, <1>3 DEF RunSync, ThreadsOwnEntries, Open, Terminal, Typed
  <2> QED
    BY <2>1, RewriteKeeps DEF Phases
<1>4. ASSUME NEW c \in Cores, NEW id \in Ids, Open(c, id), CancelEntry(c, id),
             \A e \in Cores, i \in Ids : thread'[e][i] # None => thread[e][i] # None
      PROVE  Keeps
  BY <1>4, RewriteKeeps DEF CancelEntry, Open, Phases, Terminal
<1>5. ASSUME NEW c \in Cores, NEW id \in Ids, CancelSync(c, id)
      PROVE  Keeps
  BY <1>4, <1>5 DEF CancelSync
<1>6. ASSUME NEW c \in Cores, NEW id \in Ids, Thread(c, id)
      PROVE  Keeps
  <2>1. ASSUME Ends(c, id)
        PROVE  \A e \in Cores, i \in Ids : thread'[e][i] # None => thread[e][i] # None
    BY <1>0, <2>1 DEF Ends, AtStep, Typed
  <2>2. ASSUME NEW step, NEW to, AtStep(c, id, step), MoveTo(c, id, to)
        PROVE  \A e \in Cores, i \in Ids : thread'[e][i] # None => thread[e][i] # None
    BY <1>0, <2>2 DEF MoveTo, AtStep, Typed
  <2>3. CASE SpawnFailed(c, id)
    BY <1>1, <1>4, <2>1, <2>3 DEF SpawnFailed
  <2>4. ASSUME NEW found, ScanDone(c, id, found) PROVE Keeps
    <3>1. UNCHANGED table /\ \A e \in Cores, i \in Ids : thread'[e][i] # None => thread[e][i] # None
      BY <1>0, <2>4 DEF ScanDone, AtStep, Typed
    <3> QED
      BY <1>1, <3>1
  <2>5. CASE ScanFails(c, id)
    BY <1>1, <2>2, <2>5 DEF ScanFails
  <2>6. CASE TooLate(c, id)
    BY <1>1, <2>2, <2>6 DEF TooLate
  <2>7. CASE Refuse(c, id)
    BY <1>1, <2>2, <2>7 DEF Refuse
  <2>8. CASE EnterApply(c, id)
    <3>1. /\ Open(c, id) /\ Present(c, id)
          /\ table' = [table EXCEPT ![c][id] = Marked(c, id, "applying")]
          /\ \A e \in Cores, i \in Ids : thread'[e][i] # None => thread[e][i] # None
      BY <1>0, <2>2, <2>8 DEF EnterApply, ThreadsOwnEntries, AtStep, Open, Terminal
    <3> QED
      BY <3>1, RewriteKeeps DEF Phases
  <2>9. CASE Commit(c, id)
    <3>1. /\ Present(c, id)
          /\ table' = [table EXCEPT ![c][id] = Marked(c, id, "complete")]
          /\ \A e \in Cores, i \in Ids : thread'[e][i] # None => thread[e][i] # None
      BY <1>0, <2>1, <2>9 DEF Commit, ThreadsOwnEntries
    <3> QED
      BY <3>1, RewriteKeeps DEF Phases, Terminal
  <2>10. CASE Report(c, id)
    <3>1. \A e \in Cores, i \in Ids : thread'[e][i] # None => thread[e][i] # None
      BY <2>1, <2>10 DEF Report
    <3>2. CASE Open(c, id)
      <4>1. PICK end \in Terminal : table' = [table EXCEPT ![c][id] = Marked(c, id, end)]
        BY <2>10, <3>2 DEF Report, Terminal
      <4> QED
        BY <3>1, <3>2, <4>1, RewriteKeeps DEF Open, Phases
    <3>3. CASE ~Open(c, id)
      BY <1>1, <2>10, <3>1, <3>3 DEF Report
    <3> QED
      BY <3>2, <3>3
  <2> QED
    BY <1>6, <2>3, <2>4, <2>5, <2>6, <2>7, <2>8, <2>9, <2>10 DEF Thread
<1> QED
  BY <1>2, <1>3, <1>5, <1>6 DEF SyncNext

\* What prepare_sync inserts has a new id, no open rival and room for itself.
LEMMA InsertFits ==
  ASSUME SInv, NEW x \in Callers, PrepareInsert(x)
  PROVE  \E c \in Cores, id \in Ids, w \in Wallets :
           /\ id = next + 1 /\ next' = next + 1
           /\ \A e \in Cores, i \in Ids : e # c => table'[e][i] = table[e][i]
           /\ table'[c][id] # None /\ table'[c][id].wallet = w
           /\ \A i \in Ids \ {id} : table'[c][i] = IF i \in Evicted(c) THEN None ELSE table[c][i]
           /\ ~Busy(c, w) /\ ~Full(c)
           /\ UNCHANGED thread
<1>1. /\ prep[x].core \in Cores /\ prep[x].wallet \in Wallets /\ next + 1 \in Ids
      /\ [wallet |-> prep[x].wallet, phase |-> "prepared", pending |-> prep[x].snapshot] \in Entries
  BY BoundAssumption, NoneAssumption
  DEF SInv, PrepareInsert, Typed, Prepares, Ids, Entries, Phases
<1>2. PICK c \in Cores, w \in Wallets, id \in Ids : c = prep[x].core /\ w = prep[x].wallet /\ id = next + 1
  BY <1>1
<1>3. PICK new \in Entries :
        new = [wallet |-> w, phase |-> "prepared", pending |-> prep[x].snapshot]
  BY <1>1, <1>2
<1>4. new # None /\ new.wallet = w
  BY <1>3, NoneAssumption
<1>5. \A e \in Cores, i \in Ids : table'[e][i] =
        IF e = c THEN IF i = id THEN new ELSE IF i \in Evicted(c) THEN None ELSE table[e][i]
                 ELSE table[e][i]
  BY <1>2, <1>3 DEF PrepareInsert, SInv, Typed, NextOperation
<1>6. /\ next' = next + 1 /\ UNCHANGED thread
      /\ ~Busy(c, w) /\ ~Full(c)
  BY <1>2 DEF PrepareInsert
<1>7. /\ \A e \in Cores, i \in Ids : e # c => table'[e][i] = table[e][i]
      /\ table'[c][id] # None /\ table'[c][id].wallet = w
      /\ \A i \in Ids \ {id} : table'[c][i] = IF i \in Evicted(c) THEN None ELSE table[c][i]
  BY <1>4, <1>5
<1> QED
  BY <1>2, <1>6, <1>7

LEMMA LimitsStep ==
  ASSUME SInv, OperationsLimited, IdsDistinct, [SyncNext]_svars
  PROVE  OperationsLimited' /\ IdsDistinct'
<1>1. CASE Keeps
  <2>1. \A c \in Cores : Occupied(c)' = Occupied(c)
    BY <1>1 DEF Keeps, Occupied
  <2>2. TableBounded'
    BY <2>1 DEF OperationsLimited, TableBounded, Occupied
  <2>3. OneOpenOperation'
    BY <1>1 DEF Keeps, OperationsLimited, OneOpenOperation, Open
  <2>4. IdsDistinct'
    BY <1>1 DEF Keeps, IdsDistinct
  <2> QED
    BY <2>2, <2>3, <2>4 DEF OperationsLimited
<1>2. ASSUME NEW x \in Callers, PrepareInsert(x)
      PROVE  OperationsLimited' /\ IdsDistinct'
  <2>1. PICK c \in Cores, id \in Ids, w \in Wallets :
           /\ id = next + 1 /\ next' = next + 1
           /\ \A e \in Cores, i \in Ids : e # c => table'[e][i] = table[e][i]
           /\ table'[c][id] # None /\ table'[c][id].wallet = w
           /\ \A i \in Ids \ {id} : table'[c][i] = IF i \in Evicted(c) THEN None ELSE table[c][i]
           /\ ~Busy(c, w) /\ ~Full(c)
           /\ UNCHANGED thread
    BY <1>2, InsertFits
  <2>2. \A e \in Cores : table[e][id] = None /\ thread[e][id] = None
    BY <2>1, BoundAssumption DEF SInv, Typed, ThreadsOwnEntries, Ids
  <2>3. IdsDistinct'
    BY <2>1, <2>2 DEF IdsDistinct, Present
  <2>4. OneOpenOperation'
    <3> SUFFICES ASSUME NEW e \in Cores, NEW i \in Ids, NEW j \in Ids \ {i}, Open(e, i)', Open(e, j)'
                 PROVE  table'[e][j].wallet # table'[e][i].wallet
      BY DEF OneOpenOperation
    <3>1. CASE e # c
      BY <2>1, <3>1 DEF OperationsLimited, OneOpenOperation, Open, Present
    <3>2. CASE e = c
      <4>1. \A k \in Ids \ {id} : Open(c, k)' => Open(c, k) /\ table'[c][k] = table[c][k]
        BY <2>1 DEF Open, Present
      <4>2. \A k \in Ids \ {id} : Open(c, k)' => table'[c][k].wallet # w
        BY <2>1, <4>1 DEF Busy
      <4> QED
        BY <2>1, <3>2, <4>1, <4>2 DEF OperationsLimited, OneOpenOperation
    <3> QED
      BY <3>1, <3>2
  <2>5. TableBounded'
    <3> SUFFICES ASSUME NEW e \in Cores PROVE Cardinality(Occupied(e)') <= TableSize
      BY DEF TableBounded, Occupied
    <3>1. CASE e # c
      <4>1. Occupied(e)' = Occupied(e)
        BY <2>1, <3>1 DEF Occupied, Present
      <4> QED
        BY <4>1 DEF OperationsLimited, TableBounded, Occupied
    <3>2. CASE e = c
      <4> DEFINE kept == Occupied(c) \ Evicted(c)
      <4>1. Occupied(c)' = kept \cup {id}
        BY <2>1, <2>2 DEF Occupied, Present
      <4>2. IsFiniteSet(kept)
        <5>1. IsFiniteSet(Ids)
          BY FS_Interval, BoundAssumption DEF Ids
        <5> QED
          BY <5>1, FS_Subset, kept \in SUBSET Ids DEF Occupied
      <4>3. Cardinality(kept) < TableSize
        BY <2>1, <4>2, FS_CardinalityType, TableAssumption DEF Full, Occupied
      <4> HIDE DEF kept
      <4>4. Cardinality(kept \cup {id}) = IF id \in kept THEN Cardinality(kept) ELSE Cardinality(kept) + 1
        BY <4>2, FS_AddElement
      <4>5. Cardinality(kept) \in Nat
        BY <4>2, FS_CardinalityType
      <4> QED
        BY <3>2, <4>1, <4>3, <4>4, <4>5, TableAssumption
    <3> QED
      BY <3>1, <3>2
  <2> QED
    BY <2>3, <2>4, <2>5 DEF OperationsLimited
<1> QED
  BY <1>1, <1>2, OthersKeep

LEMMA InitLimits == SyncInit => OperationsLimited /\ IdsDistinct
<1> SUFFICES ASSUME SyncInit PROVE OperationsLimited /\ IdsDistinct
  OBVIOUS
<1>1. \A c \in Cores, id \in Ids : ~Present(c, id)
  BY DEF SyncInit, Present
<1>2. \A c \in Cores : {id \in Ids : Present(c, id)} = {}
  BY <1>1
<1>3. TableBounded
  BY <1>2, FS_EmptySet, TableAssumption DEF TableBounded
<1> QED
  BY <1>1, <1>3 DEF OperationsLimited, OneOpenOperation, IdsDistinct, Open, SyncInit

\* However many callers prepare operations at once, and whatever ends or is
\* cancelled meanwhile: one open operation per wallet, and no table beyond its
\* limit (prepare_sync's second lock).
THEOREM OperationsAlwaysLimited == SyncSpec => []OperationsLimited
<1>1. SInv /\ OperationsLimited /\ IdsDistinct /\ [SyncNext]_svars => (OperationsLimited /\ IdsDistinct)'
  BY LimitsStep
<1> QED
  BY <1>1, InitLimits, SyncInvCorrect, PTL DEF SyncSpec

\* An id never names operations of two cores (NEXT_OPERATION).
THEOREM IdsAlwaysDistinct == SyncSpec => []IdsDistinct
<1>1. SInv /\ OperationsLimited /\ IdsDistinct /\ [SyncNext]_svars => (OperationsLimited /\ IdsDistinct)'
  BY LimitsStep
<1> QED
  BY <1>1, InitLimits, SyncInvCorrect, PTL DEF SyncSpec
=============================================================================
