------------------------------- MODULE SyncOps --------------------------------
(***************************************************************************)
(* Synchronization operations of tundra-core (sync.rs): every open core    *)
(* keeps a table of operations; a caller prepares one from a snapshot of   *)
(* its wallet, runs it on a thread of its own that scans the network with  *)
(* no lock held, and may cancel it at any time.  The thread then takes the *)
(* table's lock, keeps it while it compares the snapshot with the store    *)
(* and commits, and only then lets go.  Several cores may be open on one   *)
(* database, and addresses are handed out meanwhile.                       *)
(***************************************************************************)
EXTENDS Naturals, FiniteSets

CONSTANTS
  Cores,      \* open cores of the process, all on one database
  Callers,    \* concurrent callers of prepare_sync
  Wallets,
  None,
  TableSize,  \* entries of one operation table; 32 in the code
  Gap,        \* unused addresses that end the scan of a keychain; 20 in the code
  MaxOps,     \* bound: operations of one process
  MaxReveal,  \* bound: addresses handed out
  MaxChain    \* bound: versions of the chain

ASSUME TableAssumption == TableSize \in Nat \ {0} /\ Gap \in Nat \ {0}
ASSUME BoundAssumption == MaxOps \in Nat /\ MaxReveal \in Nat /\ MaxChain \in Nat

VARIABLES
  revision,   \* sync_state.revision
  view,       \* persisted chain view: its version, number of addresses scanned
  revealed,   \* number of addresses revealed in the persisted wallet state
  now,        \* version of the chain the endpoint shows; not seen by the code
  prep,       \* prepare_sync between its two locks: core, wallet and snapshot
  next,       \* NEXT_OPERATION, one counter for the process
  table,      \* entries of each core: wallet, phase and pending snapshot
  thread,     \* thread of each started operation
  holder      \* operation whose thread holds the core's table lock, or None

store == <<revision, view, revealed>>
svars == <<store, now, prep, next, table, thread, holder>>

Ids      == 1 .. MaxOps
Terminal == {"complete", "cancelled", "failed"}
Phases   == {"prepared", "scanning", "applying"} \cup Terminal
Steps    == {"unspawned", "scanning", "scanned", "applying", "failing", "cancelling"}

Greater(m, n) == IF m > n THEN m ELSE n

Views     == [version : Nat, upto : Nat]
Snapshots == [revision : Nat, view : Views, revealed : Nat]
Entries   == [wallet : Wallets, phase : Phases, pending : Snapshots \cup {None}]
Threads   == [step : Steps, snapshot : Snapshots, version : Nat, found : Nat]
Prepares  == [core : Cores, wallet : Wallets, snapshot : Snapshots]

ASSUME NoneAssumption ==
  None \notin Nat \cup Snapshots \cup Entries \cup Threads \cup Prepares

\* load, revision: what the stale check will compare.
Current(w) == [revision |-> revision[w], view |-> view[w], revealed |-> revealed[w]]

Present(c, id) == table[c][id] # None
Open(c, id)    == Present(c, id) /\ table[c][id].phase \notin Terminal
Free(c)        == holder[c] = None
Marked(c, id, phase) == [table[c][id] EXCEPT !.phase = phase]
Taken(c, id, phase)  == [table[c][id] EXCEPT !.phase = phase, !.pending = None]
AtStep(c, id, step) == thread[c][id] # None /\ thread[c][id].step = step

-----------------------------------------------------------------------------
(* Callers *)

\* First half of prepare_sync, under the connection lock only.
PrepareRead(x, c, w) ==
  /\ prep[x] = None
  /\ next < MaxOps
  /\ prep' = [prep EXCEPT ![x] = [core |-> c, wallet |-> w, snapshot |-> Current(w)]]
  /\ UNCHANGED <<store, now, next, table, thread, holder>>

Busy(c, w) == \E id \in Ids : Open(c, id) /\ table[c][id].wallet = w

\* At the table's limit the entries that have ended make room.
Evicted(c) == IF Cardinality({id \in Ids : Present(c, id)}) < TableSize THEN {}
              ELSE {id \in Ids : Present(c, id) /\ ~Open(c, id)}

\* Still full: nothing in it has ended.
Full(c) == Cardinality({id \in Ids : Present(c, id)} \ Evicted(c)) >= TableSize

\* Variant: a counter for each core, as before operations could outlive one.
NextOfCore(c) == Cardinality({id \in Ids : Present(c, id) \/ thread[c][id] # None}) + 1

NextOperation(c) == next + 1

\* Variant: only the caller's own snapshot is checked for a running operation.
PrepareInsertUnchecked(x) ==
  /\ prep[x] # None
  /\ LET c == prep[x].core
         w == prep[x].wallet
     IN  /\ Free(c)
         /\ next < MaxOps
         /\ table' = [table EXCEPT ![c] =
              [id \in Ids |-> IF id = NextOperation(c)
                              THEN [wallet |-> w, phase |-> "prepared", pending |-> prep[x].snapshot]
                              ELSE IF id \in Evicted(c) THEN None ELSE table[c][id]]]
  /\ next' = next + 1
  /\ prep' = [prep EXCEPT ![x] = None]
  /\ UNCHANGED <<store, now, thread, holder>>

\* Second half, under the table lock only.
PrepareInsert(x) ==
  /\ prep[x] # None
  /\ LET c == prep[x].core
         w == prep[x].wallet
     IN  /\ Free(c)
         /\ ~Busy(c, w)
         /\ ~Full(c)
         /\ next < MaxOps
         /\ table' = [table EXCEPT ![c] =
              [id \in Ids |-> IF id = NextOperation(c)
                              THEN [wallet |-> w, phase |-> "prepared", pending |-> prep[x].snapshot]
                              ELSE IF id \in Evicted(c) THEN None ELSE table[c][id]]]
  /\ next' = next + 1
  /\ prep' = [prep EXCEPT ![x] = None]
  /\ UNCHANGED <<store, now, thread, holder>>

\* SyncBusy: the wallet has an open operation, or the table is full of them
\* and nothing could be dropped.
PrepareBusy(x) ==
  /\ prep[x] # None
  /\ Free(prep[x].core)
  /\ Busy(prep[x].core, prep[x].wallet) \/ Full(prep[x].core)
  /\ prep' = [prep EXCEPT ![x] = None]
  /\ UNCHANGED <<store, now, next, table, thread, holder>>

\* run_sync takes the snapshot, once; the thread may fail to start.
RunSync(c, id) ==
  /\ Free(c)
  /\ Present(c, id)
  /\ table[c][id].phase # "cancelled"
  /\ table[c][id].pending # None
  /\ table' = [table EXCEPT ![c][id] = Taken(c, id, "scanning")]
  /\ \E step \in {"unspawned", "scanning"} :
       thread' = [thread EXCEPT ![c][id] =
         [step |-> step, snapshot |-> table[c][id].pending, version |-> 0, found |-> 0]]
  /\ UNCHANGED <<store, now, prep, next, holder>>

CancelEntry(c, id) == table' = [table EXCEPT ![c][id] = Taken(c, id, "cancelled")]

\* cancel_sync waits for a commit in progress, and then finds it complete.
CancelSync(c, id) ==
  /\ Free(c)
  /\ Open(c, id)
  /\ CancelEntry(c, id)
  /\ UNCHANGED <<store, now, prep, next, thread, holder>>

\* receive_address, and a draft that reveals a change address.
ReceiveAddress(w) ==
  /\ revealed[w] < MaxReveal
  /\ revealed' = [revealed EXCEPT ![w] = @ + 1]
  /\ UNCHANGED <<revision, view, now, prep, next, table, thread, holder>>

-----------------------------------------------------------------------------
(* The thread of an operation *)

MoveTo(c, id, step) == thread' = [thread EXCEPT ![c][id] = [@ EXCEPT !.step = step]]
Ends(c, id)         == thread' = [thread EXCEPT ![c][id] = None]

\* Variant: the entry of a thread that did not start is left as it was.
SpawnIgnored(c, id) ==
  /\ AtStep(c, id, "unspawned")
  /\ Ends(c, id)
  /\ UNCHANGED <<store, now, prep, next, table, holder>>

\* The thread could not be started: run_sync cancels the operation itself.
SpawnFailed(c, id) ==
  /\ AtStep(c, id, "unspawned")
  /\ Free(c)
  /\ IF Open(c, id) THEN CancelEntry(c, id) ELSE UNCHANGED table
  /\ Ends(c, id)
  /\ UNCHANGED <<store, now, prep, next, holder>>

\* A scan that completes shows the one tip it rechecked at the end, and the
\* last address it found in use.
ScanDone(c, id, found) ==
  /\ AtStep(c, id, "scanning")
  /\ thread' = [thread EXCEPT ![c][id] =
       [@ EXCEPT !.step = "scanned", !.version = now, !.found = found]]
  /\ UNCHANGED <<store, now, prep, next, table, holder>>

\* An error, a limit, the 180 seconds, or the cancellation noticed on the way.
ScanFails(c, id) ==
  /\ AtStep(c, id, "scanning")
  /\ \/ MoveTo(c, id, "failing")
     \/ /\ Free(c)
        /\ Present(c, id)
        /\ table[c][id].phase = "cancelled"
        /\ MoveTo(c, id, "cancelling")
  /\ UNCHANGED <<store, now, prep, next, table, holder>>

\* Variant: the table lock is released before the store is written.
EnterApplyUnlocked(c, id) ==
  /\ AtStep(c, id, "scanned")
  /\ Free(c)
  /\ Open(c, id)
  /\ table' = [table EXCEPT ![c][id] = Marked(c, id, "applying")]
  /\ MoveTo(c, id, "applying")
  /\ UNCHANGED <<store, now, prep, next, holder>>

\* The scan is over: from here to the end of the commit the table is locked.
EnterApply(c, id) ==
  /\ AtStep(c, id, "scanned")
  /\ Free(c)
  /\ Present(c, id)
  /\ table[c][id].phase # "cancelled"
  /\ table' = [table EXCEPT ![c][id] = Marked(c, id, "applying")]
  /\ holder' = [holder EXCEPT ![c] = id]
  /\ MoveTo(c, id, "applying")
  /\ UNCHANGED <<store, now, prep, next>>

\* The operation was cancelled, or even evicted, while it scanned.
TooLate(c, id) ==
  /\ AtStep(c, id, "scanned")
  /\ Free(c)
  /\ IF Present(c, id) THEN /\ table[c][id].phase = "cancelled"
                            /\ MoveTo(c, id, "cancelling")
                       ELSE MoveTo(c, id, "failing")
  /\ UNCHANGED <<store, now, prep, next, table, holder>>

\* Variant: the revision alone is compared, not the wallet state.
FreshRevision(w, snapshot) == revision[w] = snapshot.revision

Fresh(w, snapshot) == Current(w) = snapshot

\* The scan goes on for a whole gap after the last address in use, and for a
\* gap less one after the last address that the snapshot had revealed.
Scanned(t) == Greater(t.found + Gap, t.snapshot.revealed + Gap - 1)

\* The transaction commits and the entry is complete before the lock is free.
Commit(c, id) ==
  /\ AtStep(c, id, "applying")
  /\ LET t == thread[c][id]
         w == table[c][id].wallet
     IN  /\ Fresh(w, t.snapshot)
         /\ revision' = [revision EXCEPT ![w] = @ + 1]
         /\ view' = [view EXCEPT ![w] = [version |-> t.version, upto |-> Scanned(t)]]
         /\ revealed' = [revealed EXCEPT ![w] = Greater(@, t.found)]
  /\ table' = [table EXCEPT ![c][id] = Marked(c, id, "complete")]
  /\ holder' = [holder EXCEPT ![c] = None]
  /\ Ends(c, id)
  /\ UNCHANGED <<now, prep, next>>

\* The snapshot is stale, or the store refuses: the transaction rolls back.
Refuse(c, id) ==
  /\ AtStep(c, id, "applying")
  /\ holder' = [holder EXCEPT ![c] = None]
  /\ MoveTo(c, id, "failing")
  /\ UNCHANGED <<store, now, prep, next, table>>

\* The thread's last word, unless the entry has ended or is gone.
Report(c, id) ==
  /\ AtStep(c, id, "failing") \/ AtStep(c, id, "cancelling")
  /\ Free(c)
  /\ IF Open(c, id)
     THEN table' = [table EXCEPT ![c][id] =
            Marked(c, id, IF AtStep(c, id, "failing") THEN "failed" ELSE "cancelled")]
     ELSE UNCHANGED table
  /\ Ends(c, id)
  /\ UNCHANGED <<store, now, prep, next, holder>>

-----------------------------------------------------------------------------
\* A block, or a reorganization, at the endpoint.
ChainMoves ==
  /\ now < MaxChain
  /\ now' = now + 1
  /\ UNCHANGED <<store, prep, next, table, thread, holder>>

SyncInit ==
  /\ revision = [w \in Wallets |-> 0]
  /\ view     = [w \in Wallets |-> [version |-> 0, upto |-> 0]]
  /\ revealed = [w \in Wallets |-> 0]
  /\ now      = 0
  /\ prep     = [x \in Callers |-> None]
  /\ next     = 0
  /\ table    = [c \in Cores |-> [id \in Ids |-> None]]
  /\ thread   = [c \in Cores |-> [id \in Ids |-> None]]
  /\ holder   = [c \in Cores |-> None]

Thread(c, id) ==
  \/ SpawnFailed(c, id)
  \/ \E found \in 0 .. MaxReveal : ScanDone(c, id, found)
  \/ ScanFails(c, id)
  \/ EnterApply(c, id)
  \/ TooLate(c, id)
  \/ Commit(c, id)
  \/ Refuse(c, id)
  \/ Report(c, id)

SyncNext ==
  \/ \E x \in Callers : \/ \E c \in Cores, w \in Wallets : PrepareRead(x, c, w)
                        \/ PrepareInsert(x)
                        \/ PrepareBusy(x)
  \/ \E c \in Cores, id \in Ids : RunSync(c, id) \/ CancelSync(c, id) \/ Thread(c, id)
  \/ \E w \in Wallets : ReceiveAddress(w)
  \/ ChainMoves

SyncSpec == SyncInit /\ [][SyncNext]_svars

\* A thread that was started runs; its scan is bounded by a timeout, and the
\* locks it waits for are released by every operation that takes them.
FairSync == SyncSpec /\ \A c \in Cores, id \in Ids : WF_svars(Thread(c, id))

-----------------------------------------------------------------------------
(* Properties *)

\* Tables, threads and store are typed, and the table lock belongs to exactly
\* the operation that is being applied.
SyncTypeOK ==
  /\ revision \in [Wallets -> Nat]
  /\ view \in [Wallets -> Views]
  /\ revealed \in [Wallets -> Nat]
  /\ now \in Nat
  /\ prep \in [Callers -> Prepares \cup {None}]
  /\ next \in 0 .. MaxOps
  /\ table \in [Cores -> [Ids -> Entries \cup {None}]]
  /\ thread \in [Cores -> [Ids -> Threads \cup {None}]]
  /\ holder \in [Cores -> Ids \cup {None}]
  /\ \A c \in Cores, id \in Ids : holder[c] = id <=> AtStep(c, id, "applying")

\* An id names one operation of the process, whichever core it is given to
\* ("An ID must not select a new store's operation merely because that core
\* started its own counter at zero").
IdsDistinct ==
  \A c, e \in Cores, id \in Ids :
    c # e /\ (Present(c, id) \/ thread[c][id] # None) =>
      ~Present(e, id) /\ thread[e][id] = None

\* A core never has two open operations for one wallet, however many callers
\* prepared one from the same idle moment (SyncBusy).
OneOpenOperation ==
  \A c \in Cores : \A id \in Ids : Open(c, id) =>
    \A other \in Ids \ {id} :
      Open(c, other) => table[c][other].wallet # table[c][id].wallet

\* A table never outgrows its limit, although an operation is prepared in two
\* locks and only ended entries may be dropped (SyncBusy at 32 entries).
TableBounded == \A c \in Cores : Cardinality({id \in Ids : Present(c, id)}) <= TableSize

\* What SyncBusy promises, in one wallet and over all of them.
OperationsLimited == OneOpenOperation /\ TableBounded

ViewAdvances ==
  \A w \in Wallets :
    /\ view'[w].version >= view[w].version
    /\ view'[w] # view[w] => view'[w].upto >= revealed'[w] + Gap - 1
    /\ revealed'[w] >= revealed[w]

\* Whatever cores and addresses compete, a slow scan never puts an older chain
\* view in place of a newer one, never takes back an address, and every view
\* that is committed has scanned the gap (less one) beyond all addresses handed out
\* ("Scan past every already revealed address"; the StaleSync check).
NeverBackwards == [][ViewAdvances]_svars

\* The abstract promise: how an operation ended, as sync_progress shows it.
Outcome(c, id) ==
  IF ~Present(c, id) THEN "absent"
  ELSE IF Open(c, id) THEN "open" ELSE table[c][id].phase

Abstract == INSTANCE SyncPromise WITH
  Ops     <- Cores \X Ids,
  outcome <- [o \in Cores \X Ids |-> Outcome(o[1], o[2])]

\* An operation is complete exactly when its view was committed, in one step,
\* and a cancelled or failed one never commits ("If Complete is returned the
\* commit already won; otherwise a cancelled scan cannot commit").
KeepsPromise == Abstract!Promise

\* An operation that was run comes to an end.
RunsEnd ==
  \A c \in Cores, id \in Ids :
    Present(c, id) /\ table[c][id].phase \in {"scanning", "applying"} ~> ~Open(c, id)
=============================================================================
