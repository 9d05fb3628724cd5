# Tundra wallet core: verification project

TLA+ models, TLC runs and TLAPS proofs for tundra-wallet: a watch-only Bitcoin
wallet core in Rust (`crates/tundra-core`) used by an Android and an iOS app
through a foreign function interface. The core keeps wallets in an encrypted
SQLite database, builds transactions for outside signers, merges their
signatures, finalizes and broadcasts transactions, follows the chain through an
Esplora endpoint, and makes and restores encrypted backups. It holds no Bitcoin
private key; what can go wrong is a coin promised twice, a payment sent and
forgotten, an old view of the chain that replaces a newer one, or a store that
can no longer be opened.

## 1. Inventory

### Components

| Component | State | Operations | Correct when |
|---|---|---|---|
| Wallet store (`engine.rs`, `schema.sql`, `labels.rs`) | tables of one database: wallets with their serialized BDK state, freezes, labels, drafts, reservations | import, reveal an address, list coins, create and discard drafts, freeze, edit and import labels | a coin is in at most one draft that can still be sent; reservations follow drafts exactly |
| Signatures and finalization (`signing.rs`) | `draft_signatures`, `finalized_drafts` | accept a signed PSBT, finalize | final bytes always agree with the signatures stored; what was submitted never changes |
| Broadcast (`broadcast.rs`) | `broadcast_attempts`, `draft_label_applications` | validate, preflight, record, send, acknowledge; observe in a scan | nothing is sent without a durable record; an answer marks its own attempt; stale screens do not send twice |
| Recovered submissions (`recovery.rs`) | `recovered_submissions`, `recovery_holds` | suspend at a restore, resume | coins of a payment that may be in flight are held until it is seen or resumed |
| Backup (`backup.rs`, `BackupFiles.*`) | one exported file | export, inspect, restore | a backup of any moment can be restored and then resumed |
| Synchronization (`sync.rs`) | in memory: a table of operations, their phases, cancellation marks; persisted: wallet state, revision | prepare, run on a thread, progress, cancel | see `SyncPromise.tla` |
| Protected storage (`storage.rs`) | the database file, its lock file | classify, open with a key, create, upgrade plaintext | data is never left without its key or replaced by an empty database |
| Store selection (`store_selection.rs`) | selector file, directories of restored generations | select, begin a restore, restore, activate | the selected store always opens; nothing falls back to an empty wallet |
| Native vaults (`StorageVault.kt`, `StorageVault.swift`) | key record or Keychain item with its marker, Keystore alias | open, restore | the key is durable before a database has it |
| USB (`usb/*.rs`, `hardware.rs`, `UsbExchange.kt`) | session state machine, step number, bytes received, partial frames; the dialog's job and token; `hardware_registrations` | prepare, receive a report, stop, poll | a command is sent once; success is shown only after revalidation and saving; the link is always closed again |
| QR decoding (`qr.rs`; `QrScanner` in `tundra-ffi`) | a session: frames of one sequence, phase, payload, lifetime | make, receive, progress, cancel, payload | a payload is that of one sequence, or the session fails; a closed session stays closed |
| QR scan screens (`QrExchange.kt`, `QrExchange.swift`) | the dialog's session, camera preview, the task of a frame, the poll, the task that cancels | open, frame, leave, camera failure, new scan, close | a payload is delivered once; no dialog is left without a way on; a scan that was left delivers nothing (Android does not keep this) |
| Amounts and fee rates (`amount.rs`) | none | parse, format | conversions are exact; a fee rate is never rounded down |
| Descriptors (`descriptor.rs`) | none | parse, identify a policy | a policy is what was imported |
| FFI (`tundra-ffi`) | handles, one mutex for each | wrappers | converts and delegates |
| Apps (`WalletViewModel.kt`, `WalletModel.swift`, `CoreService.swift`) | the open core, screen state | one wallet operation at a time | no handle of a replaced store is used |

### How they interact

Every mutating core operation takes the connection mutex, opens `BEGIN
IMMEDIATE`, checks, writes and commits. Several cores may be open on one
database (each holds a *shared* advisory lock; only an upgrade needs it
exclusive), so a process-wide mutex is not what makes this safe: the checks
inside the transaction are. Two operations let the lock go in the middle:
`broadcast_draft`, for its network requests, and `run_sync`, for its scan.
A scan that commits invalidates drafts whose coins are gone, marks drafts whose
exact transaction appeared as observed and applies their labels. A restore
turns all live drafts into invalidated ones and its unresolved submissions into
held ones. The vault decides, before any core exists, which database to open
with which key.

### What is hard

* two operations overlapping a third one's network request (broadcast, sync);
* state checked in one transaction and used in a later one;
* evicted, replaced and returning transactions, which change drafts, holds and
  labels that other operations rely on;
* a process killed at any point between "recorded" and "answered", and between
  any two writes of a restore or an upgrade;
* a backup that is older than what it is restored over;
* a table with a limit, maintained in two locks;
* a device that answers late, to a conversation that was given up, or never;
* a camera, a decoder on another thread, a timer and a user, all of which may
  end a scan at the same moment.

`PROJECT.json` lists each at its line with the properties that watch it, and
those no property watches yet with the reason.

## 2. Modules

| Module | Models | Extends |
|---|---|---|
| `CoinLocks` | abstract specification of what the store promises about coins | |
| `WalletStore` | one wallet's tables; every transaction on them is one action | |
| `WalletStoreProofs` | proofs for every instance, with the refinement of `CoinLocks` | `WalletStore` |
| `Broadcast` | concurrent `broadcast_draft` calls, step by step, over the store | `WalletStore` |
| `BroadcastProofs` | proofs for every instance, on top of the store's | `Broadcast`, `WalletStoreProofs` |
| `SyncPromise` | abstract specification of synchronization | |
| `SyncOps` | operation tables, threads, snapshots and locks of several cores | |
| `SyncProofs` | proofs for every instance, with the refinement of `SyncPromise` | `SyncOps` |
| `StoreSelection` | selector, generations, keys and database files of both platforms, with kills, power failures and losses | |
| `SelectionProofs` | proofs for every instance | `StoreSelection` |
| `UsbSession` | a USB operation: dialog, coroutine, session, report reader, registrations | |
| `UsbProofs` | proofs for every instance | `UsbSession` |
| `QrDecoder` | the decoders of animated and single codes | |
| `QrProofs` | proofs for every instance | `QrDecoder` |
| `QrScan` | the scan dialog of either app, with its tasks, over the decoders | `QrDecoder` |
| `ScanProofs` | proofs for every instance, on top of the decoders' | `QrScan`, `QrProofs` |
| `Amounts` | the four conversions of amounts and fee rates, with their proofs | |
| `MCDrafts`, `MCBroadcast`, `MCSync`, `MCSelection`, `MCUsb`, `MCDecoder`, `MCQr` | the instances TLC checks | the above |

### WalletStore

`state`, `reservations`, `sigs`, `bytes`, `attempts`, `applied`, `recovered`,
`holds`, `freezes` and `labels` are tables of `schema.sql`; `position`, `seen`
and `synced` are what the code reads from the persisted chain view. A draft id
is the hash of wallet and transaction id, so `Inputs` and `Outputs` are
constants: the transaction a draft id stands for never changes. An operation is
one action because it is one transaction; an error is the absence of a step.

| Action | Code |
|---|---|
| `SetLabel`, `EditCoins`, `ImportLabels` | label and freeze edits, `import_labels` |
| `CreateDraft` | `create_draft`: only available coins, all reserved |
| `AcceptSigned`, `FinalizeDraft`, `DiscardDraft` | the same functions |
| `RecordAttempt`, `Acknowledge` | the two transactions of `broadcast_draft` |
| `ApplySync(view)` | the commit of a scan: `observe_drafts`, `invalidate_drafts`, labels, in this order |
| `ExportBackup`, `RestoreBackup` | the rows copied; suspension of all that was live |
| `ResumeRecovered` | `resume_recovered_submission` |

A scan may report any consistent chain view (`ChainViews`): a transaction that
is present spends its inputs, no two present ones conflict.

Abstractions: a signature is a pair of a coin and a key that passed validation;
the witness of a transaction is the first `Required` signatures in key order. A
transaction that the chain shows with another witness is not the draft's exact
transaction and appears only as its spent inputs. Coins confirmed too recently
and unconfirmed coins are both "immature": the code treats them alike. Amounts,
fee, provenance rows and address labels are left out. Provenance is written
together with the label marker and carries no decision.

`CoinLocks` has no tables: a payment acquires all its coins or none, only free
ones, and ends giving them back; the payments of a restored store hold theirs
suspended, several of them the same coin if need be. `WalletStore` implements
it with a coin owned by the draft its reservation names and held by the
suspended submissions in `recovery_holds` (`CoinsLocked`).

### Broadcast

A call is `Begin` (first section: everything checked), the request of the
preflight (`Preflight` when the endpoint serves the right chain, `GiveUp`
otherwise), `Record` (second section: everything checked again, attempt
inserted), `Post`, `Answer` when the exact txid came back or `NoAnswer`,
`AcknowledgeOwn` (third section, only for an answer) and `ReadStatus` (last
section: `broadcast_status`). A later section that finds what it checks to be
otherwise, or whose write fails, ends the call (`Refuse`). An attempt's random id
is its position among its draft's attempts.

Waiting for the endpoint (`preflight`, `posted`) and waiting for the connection
mutex (`preflighted`, `answered`, `ended`) are states of their own. A section is
one step, since the mutex and its transaction shut others out; `Enter` lets it
start only when no guard of the mutex is alive, and `Exit` drops its guard.
`holding` names the calls whose guard outlived its section. It stays empty as
the code is written (`CallsOK`, proved), and is there because nothing but the
scope of a block keeps it so: the mutex is not reentrant, so a guard that is
still alive when `broadcast_status` takes it again, or while a request is on its
way, blocks this call and every other. All callers share one mutex; calls on
connections of their own would wait for each other less.

`TimeOut` is the limit that the client sets for each request; it ends a request
as an error does. `Crash` ends the process, and with it every call, at any step,
and leaves the tables. `sent` records what was handed to the network and what
the active store should know; after a restore it only holds the requests that
the backup is as old as, since nobody can promise more.

### SyncOps and SyncPromise

`prepare_sync` is two actions because it takes two locks (`PrepareRead`,
`PrepareInsert` / `PrepareBusy`). A thread goes from `unspawned` to `scanning`
to `scanned`; `EnterApply` takes the table lock and holds it (`holder`) until
`Commit` or `Refuse`, so a cancellation is either before or after the commit.
A snapshot is what the stale check compares: revision, view and revealed
addresses. `ScanDone` ends a scan with the chain version of the moment it rechecks
the tip, since a changed tip refuses the scan. A scan covers `Gap` addresses
after the last one it found in use and `Gap - 1` after the last revealed one of
its snapshot (`Scanned`). `ReceiveAddress` is any operation that reveals an
address, concurrent with everything. The chain's version only grows: it counts
the changes, a reorganization included.

`SyncPromise` has no threads, locks or snapshots: an operation opens and ends
once, and completing it *is* replacing the view with one that is not older and
covers every address handed out. `SyncOps` implements it with `outcome`
computed from the entry that `sync_progress` shows.

### StoreSelection

A directory entry has the value the process sees (`seen`) and the value a power
failure leaves (`kept`). A sync copies the entries of one directory, and the
system may do the same at any moment (`WriteBack`): changes within one
directory reach the disk in order, those of different directories in any. An
open or a restore is one step for each write, rename or sync in
`StorageVault.kt` or `StorageVault.swift`, `store_selection.rs`, `storage.rs`
and the installing end of `backup.rs`. The two vaults differ in where a record
is: Android keeps a file in the store's directory, wrapped with a master key of
the Keystore (`alias`); iOS has one Keychain item, which holds key and marker,
is durable when it is written and survives a power failure. `Stop` ends a call after any step: an error, a refusal, or a kill.
A temporary file that is renamed is one step, because its contents are synced
first. Opening a database with SQLite commits `user_version` to a new
write-ahead log, whose directory SQLite syncs; this is how the code's
reliance on the library is modelled. Entries can also be lost from outside.
A malformed selector is refused like a missing one where restores exist.

### UsbSession

`job` is the step at which the coroutine of `UsbExchange.kt` stands; `Goes` is
its check for a cancellation (`ensureActive`). `stopped` stands for the
cancelled job and the token that is no longer the current generation, which
`stop` always changes together. `session` is the core's, `update` the copy the
coroutine works from and `info` the one on the screen. `Handle` and `Received`
are `Session::receive`, `Expected` its preflight with the pairing of phases and
responses; `Receive` adds the transaction of `UsbSession::receive`, and
`StorageFails` is its failure. A command is one packet and a response one or two
reports. The continuations of a command (status `e000`, or `6a82` for the
account) are one reply, "more", after which the command is out again. The code
counts the bytes of the reports, the model the reports.

A device is outside the code: it answers the commands it has in order, whenever
it likes, with any answer the interpreter can tell apart (`Replies`), keeps
unread reports when a link is closed or drops them at the next `Open`, and loses
everything when it is unplugged. `stop` is also what the detach broadcast, the
app leaving the screen and the closing dialog call, so one action stands for
them. Signing is refused by the qualification gate (`usb/mod.rs:64`) in every
build of this source, so its branch is not modelled.

### QrDecoder and QrScan

A decoder (`dec[s]`) has the phases of `qr.rs`. A frame is a record of what the
code reads from it: format, head (what the frames of a sequence have in common),
the number of parts, its own number and the parts it carries. A UR frame past
the first ones carries several parts combined by XOR; which parts a set of
frames determines is the UR library's work and external (`Determined`). `Take` is
`receive_ur`, `receive_bbqr` and the plain payload; every error is `Failed`,
and a closed session forgets what it collected. The lifetime may pass between
any two calls (`Lapse`) and inside one (`Receive`). `fed`, which no code reads,
is what a session was given.

`QrScan` runs two such sessions under the dialog of either app. A frame starts a
task that calls the decoder on another thread, returns to the main thread, reads
the payload on another thread again and delivers; each of these is a step, with
leaving, closing, a camera failure, a new scan and the polls between any two.
Android shows what its state asks for with the next composition (`Compose`),
which also ends the effects of the session it replaces; iOS compares a token
(`current`) wherever a task returns, and cancels in a task of its own
(`cancelling`). `left` notes with a delivered payload whether its scan had been
cancelled or replaced by then.

### Amounts

A text is its digits before and after the point, read as numbers, and what else
the code asks of it. The conversions and their widths are those of `amount.rs`.

## 3. Runs

| Run | Instance | Question | Distinct states |
|---|---|---|---|
| `store` | 2 drafts that compete for a coin, 1 key, 1 attempt, backup at any moment, restored at any later one | Can competing approvals, discards, submissions, scans and restores break the agreement of the tables, use a held coin, or leave the abstract `CoinLocks`? | 226,424 |
| `labels` | 1 labelled draft with a change output, 2 of 3 keys, a freezable coin, user labels | Does a returning payment overwrite what the user wrote or cleared? Do late signatures move final bytes? | 15,445 |
| `broadcast` | 2 callers, 1 draft, 2 keys of which 1 is needed, 2 attempts, backup and restore at any moment | Do overlapping calls, crashes, late answers and restores record and mark the right attempts, keep every request recorded with its bytes, and does every call return, whatever the endpoint does? | 976,477 |
| `sync` | 2 cores, 2 callers, 2 operations, table of 1, gap 2 | Can slow scans, cancellations and new addresses corrupt the view? | 324,029 |
| `sync_table` | 1 core, 2 callers, 2 wallets, 2 operations, table of 1 | Do the limit and the one-operation rule survive two-lock preparation, and does every operation that was run end? | 43,186 |
| `selection` | default store (new or legacy) and 2 generations, 3 keys, both platforms; the power may fail, or entries are lost (2 on Android, 1 on iOS) | Does the selected store open after a stop at any step, and is no data lost and no empty wallet set up in the place of one in use? | 1,256,658 |
| `selection_forgotten` | the same | A violation: is a restored store forgotten? | |
| `usb` | 2 wallets with one signer each, same fingerprint, 2 operations, 5 exchanges, 6 reports | Do late, wrong or missing answers, stops and failures send a command twice, save a wrong registration or show a wrong success? | 2,600,800 |
| `usb_liveness` | 1 wallet, 1 device, 2 operations | Does every operation end? | 48,882 |
| `qr_decoder` | 15 frames: a UR sequence with a combined and a damaged frame, BBQr sequences that share a head or a part, single and foreign codes; 4 frames read | Is a completed payload that of one sequence? | 221 |
| `qr_scan` | both apps, 2 sessions, 2 BBQr frames, 2 frames read | Is a payload delivered once, do sessions end, and has every dialog a way on? | 193,747 |
| `qr_left` | the same, Android | A violation: does a scan that was left deliver? | |

Why the bounds are enough to see the interesting cases:

* Two drafts, `{a}` and `{a, b}`, are the smallest pair where one payment
  competes for part of the other's coins, so that releasing or holding has to
  treat the coins of a draft one by one. More drafts, freezes with competing
  drafts and more keys are covered by the proofs, which hold for any number;
  freezes are explored with one draft in `labels`, resubmission in `broadcast`,
  where two attempts give a first request and one retry and reach the limit.
* In `labels`, two of three keys leave surplus signatures that come after
  finalization. In `broadcast`, one of two keys suffices, so that a draft that is
  discarded and approved again has other final bytes.
* Two cores with one operation each are what it takes for a scan to become
  stale. A table of one entry makes every second operation meet the limit.
  Gap 2 is the smallest where the two ends of the scan range differ.
* Two USB operations leave the answers of the first one to the second; the two
  signers share a fingerprint, so only the account tells them apart. Five
  exchanges and six reports let every operation complete, also after one "more",
  and run into either limit.
* Two generations allow a restore over a restored store, three keys one
  interrupted attempt besides. One loss more than `MCLosses` could remove
  every trace of a store, and no code can tell that from a new installation.
  Losses and power failures are explored in separate behaviours (`fault`).
* The frames of `qr_decoder` pair every way two frames can disagree (head,
  number, part, format); four of them are more than any sequence there needs.
  `qr_scan` needs a sequence that completes with its last frame and two sessions,
  an abandoned one and its successor.

No run uses a state constraint; bounds are in the guards and named in the
constants. Deadlock is not checked where operations are counted by a bound: the
instance really may run out of operations, and a scan dialog that is closed
stays closed. The store, broadcast, USB and decoder runs do check it. Four
runs, none of them with a liveness property, use symmetry: `Names` permutes the
generations of the two selection runs, `Interchangeable` the callers, cores and wallets of
`sync`, which no formula distinguishes, and `MCSymmetry` exchanges the two
wallets of `usb` together with their signers.

### Fairness

`FairBroadcast` assumes weak fairness of each call's own steps (`Call`): its
thread runs on where nothing blocks it, and time passes, so that the limit of a
request comes. It assumes nothing of the endpoint, whose answers and errors are
not among these steps, and nothing of the mutex: a section can only start while
no guard is alive, and that this comes true is for the sections to ensure. Both
can be seen to matter: without the limit of the second request
(`TimeOutPreflight`), or with a guard that lives on to the last section
(`AcknowledgeHolding`), `CallsReturn` is violated. Starvation on the mutex cannot
be seen, since sections are single steps; the platform's mutex is trusted to
admit who waits. Nor is it assumed that the user acts or that scans happen.
`FairSync` assumes weak fairness of each started thread: the scan has a limit of 180 seconds, and the
failure to start the thread is one of its steps. Callers are not fair, and
`RunsEnd` speaks of operations that were run: one that is prepared and never
run stays open, which is what the code does. `FairUsb` assumes weak fairness of
the coroutine, whose waits on the link are bounded, and that time passes, so that
a session reaches its LIFETIME. It assumes nothing of the device. `FairScan`
assumes that the threads and timers of the scan screens go on, that Android
composes what changed and that time passes; it assumes nothing of the camera or
the user. `SessionsEnd` speaks of sessions that were fed a frame: an Android
session that is replaced before the next composition was never shown, is never
fed, and stays as it is until its handle is freed.

## 4. Proofs

Eight modules hold theorems. They hold for all values of the constants that
satisfy the named assumptions (inputs are non-empty sets of coins, drafts have
disjoint outputs, frames with one head agree on their shape, a wallet's signers
have different fingerprints, `None` is no value, the bounds are numbers). One
theorem has a hypothesis of its own (`FreshNeverAgain`, below). Every inductive
invariant was first checked by TLC on the instance of the component's run.

**`WalletStoreProofs`.** The inductive invariant `IInv` is the conjunction of
the types, seven invariants of the tables and `ObservedIsSeen` (a draft shown as
observed is in the chain view); `LiveDraftsDisjoint` follows from it, because a
reservation has one owner. They need each other: that drafts are disjoint needs
that reservations match live drafts, because `CreateDraft` looks at reservations
and not at drafts; `ResumeRecovered` only takes coins that are not reserved, and
needs that the holds are exactly the inputs of suspended submissions;
`SubmissionsHaveBytes` needs `FinalBytesStand`, and so do the facts about the
backup, since a restore makes the backup's rows current. Each is preserved by
each action (one step of the proof for each), and the theorems follow:

* `TypeCorrect`, `InvCorrect`; from it `NoDoubleReservation`,
  `ReservationsSound`, `LiveDraftsAlwaysStand`, `FinalBytesAlwaysStand`,
  `HeldCoinsSafe`, `BackupAlwaysRestorable`;
* action properties `ApprovalsNeverRevived`, `SubmissionsNeverLost`,
  `HoldsKeptUntilSettled`, `LabelsAlwaysAppliedOnce`, `AppliedNeverForgotten`;
* `CoinsAlwaysLocked`: the store implements `CoinLocks`. A scan is one `End`:
  the drafts it observes or invalidates lose their coins, the submissions it
  settles their holds.

The label theorems rest on `AppliedInv`: the marker of an applied label exists
only for a draft that was submitted, in the store and in the backup. A discard
refuses such a draft, so the cascade over its rows never takes a marker with it,
and only a restore can go back to a store without it.

**`BroadcastProofs`.** `BroadcastUsesStore` proves that the calls use the store
only through its operations, so that every theorem about `WalletStore` holds
while any number of calls are under way. `CallsInv` then adds to the invariants
of `Broadcast` what they rest on: a call that has posted has its request on the
wire, only the first attempt goes out without an acknowledged retry
(`WireInv`), and the rows of the last backup, which a restore makes the store's,
agree with the wire as the store's own do (`BackupInv`). Theorems:
`CallsInvCorrect`, `SentAlwaysRecorded`, `AcknowledgedAlwaysSent`,
`InitialRequestUnique`, `AttemptsAlwaysVetted`.

**`SyncProofs`.** `SInv` has three parts: types; `ThreadsOwnEntries`, which ties
the step of each thread to the phase of its entry and to the lock; and
`SnapshotsBehind`: a snapshot is not newer than the store, and while its
revision is still the store's, the scan made from it saw a chain at least as new
as the view. The last is what makes `Fresh` sufficient at the commit. Theorems:
`SyncInvCorrect`, `SyncTypesCorrect`, `NeverBackwardsAlways`, and
`KeepsPromiseAlways`, the refinement of `SyncPromise`: each action maps to one
abstract step or to a stutter, `Commit` to `Complete`, insertion to `Open` (which
forgets evicted entries), a cancel or failed report to `Quit`.
`OperationsAlwaysLimited` (the table never exceeds its size and holds one open
operation of a wallet) follows from one observation: only `PrepareInsert` adds
an entry or opens one, and it looks at the table in the lock in which it
inserts. `IdsAlwaysDistinct` says that no entry or thread meets an id in use.

**`UsbProofs`.** `UInv` follows the session: in each phase it records what has
been established (`Established`: the account is a signer with the fingerprint
reported; once its public key was confirmed, it is the device of the link; an
address is only asked for with a registration at hand), ties the coroutine's
copy to the session, and says that a device only answers for itself, whichever
conversation its answers belong to. The one step that matters is `Receive`: a
session that completes has confirmed the signer, and what it saves and shows is
this device's own answer. Theorems: `UsbInvCorrect`,
`RegistrationsAlwaysGenuine`, `ShownAlwaysTrue`, for any devices that share
fingerprints, any limits and any number of operations. `CommandsAlwaysSentOnce`
has an invariant of its own (`SendingInv`): the packets the coroutine holds are
those of the step after the last one written, and while it waits for a report
they have been written already, so an update with no packets, or a read that
times out, sends nothing.

**`QrProofs`.** `QrInv` says what a decoder knows in each phase: while scanning,
that its frames belong together and do not determine all parts; complete, that
the payload is theirs; closed, nothing. Theorems: `QrInvCorrect`,
`DecoderTypesCorrect`, `ConsistentAlways`, `PayloadAlways`, `ProgressAlwaysTrue`,
`ClosedAlways`, for any frames, including any combination of parts.

**`ScanProofs`.** `ScanUsesDecoder` proves that the scan screens use the decoders
by their methods alone, so the theorems of `QrProofs` hold of every scan.
`ScanInv` adds what the tasks know (`TasksInv`): a session has one frame task at
a time and on Android the whole dialog has one, the flag that drops further
frames is set while the current session has one, and a task that is on its way to deliver has seen its session
end. No second task can therefore take the same payload. `DialogInv` is what iOS adds: nothing
but the dialog itself cancels the session its token names, and a dialog that
delivered is closed. Theorems: `ScanInvCorrect`, `DeliveredAtMostOnce`,
`IosLeftNeverDelivers`. That Android's last step looks at nothing is visible in
the same proof: the invariant says of an Android delivery that its payload is
valid and the first of its session, and no more (`qr_left`).

**`SelectionProofs`.** The difficulty is that each fact is about two copies of
the disk, which power failures and the order of syncs set apart, and that a call
may stop after any of its steps. The argument has one idea: a store is
*settled* when both copies agree on a protected database and on its initialized
key, and no step of any call, no write-back and no power failure changes a
settled store. `StoreInv` says which stores are settled: the one a selector on
either copy names, and everything handed to the app whose path is not lost
(`OpenedInv`); besides, a protected database has its key on the same copy, at
every step (`MatchInv`). All three leave out stores that were damaged from
outside. `CallInv` is what a call has established when it
stands at a given step: a record that was found or
written, a directory that is synced, a database that exists, and from the
verification on a settled store. Every step of the call is one lemma.
Theorems: `SelInvCorrect`, `SelectionTypesCorrect`, `SelectedAlwaysOpens`,
`HandedOutAlwaysStays`, `KeysAlwaysRetained`, `HandleAlwaysSelected`, and the
action properties `DataAlwaysStays` and `FreshNeverAgain`, for any number of
generations and keys, both vaults, and failures at any step.

`FreshNeverAgain` assumes that at most two entries are lost on Android and one
on iOS. Three entries prove that the default store was used on Android (master
key, record, database), two on iOS (the Keychain item and the database); one
loss more could take them all, and then no code could tell the device from a
new one. `TracesInv` counts the entries that are gone against the losses: no
step of the code brings an entry back while another one is left, so a set-up
always meets one that refuses it. The other theorems hold for any number of
losses.

**`Amounts`.** Pure conversions have no behaviour to explore; they are proved:
`ParseExact` (a text of at most eight places parses to its exact value or, above
the supply, to an error; nothing overflows on the way), `RoundTrip` (what is
shown parses back to the same amount), `FeeNeverLower` (a fee rate is rounded up
by less than one unit) and `FeeRoundTrip`.

Every safety property of the passing runs is proved. Only model-checked are the
liveness properties (`CallsReturn`, `RunsEnd`, `OperationsEnd`, `SessionsEnd`,
`NoDeadEnd`), which rest on fairness and so on ENABLED, out of the prover's
reach, and the two violations. No module declares a RECURSIVE operator.

## 5. What the checks brought up

Two runs show the code at variance with a sentence of the repository:

* `qr_left`: `src/plan/09-qr.md` says that leaving a scan cancels its session,
  and the Android dialog says "Scan cancelled when the app left the screen.
  Start a new scan to continue." The frame task reads the payload on another
  thread and then calls `onPayload` without looking again, so the payload of a
  scan cancelled in between is imported all the same. The iOS task compares its
  token again (`IosLeftDeliversNothing` holds).
* `selection_forgotten`: a comment in `store_selection.rs` says that an
  interrupted first restore cannot make a missing selector look like a new
  install. `begin_at` syncs the root directory only in the call that creates an
  entry. Interruptions of three restores, each between a change and its sync, let
  a later restore succeed with neither `restored-stores` nor the selector on the
  disk, and a power failure then takes both back. It takes several coincidences,
  and `plan/13-storage.md:101` leaves power-loss qualification open; without them
  `SelectedOpens` and `HandedOutStays` hold.

Some behaviours a reader should know:

* A restore killed after its selector was renamed and before the directory was
  synced leaves a selection that the next open uses without syncing it. A power
  failure can then take the selection, and with it the path of the new store,
  back, so `HandedOutStays` speaks of stores whose path is on the disk.
* A kill between the creation of the master key and its record, or between the
  creation of a database file and its first page, makes the first set-up
  refuse for good. The documents state the refusal as intended.
* The step number echoed by the native caller does not tie a report to a command:
  it is the caller's own copy. A report a device still holds from a conversation
  that was given up is read as the next answer, and is refused only when it does
  not fit the phase. This never saves or shows anything wrong
  (`RegistrationsAlwaysGenuine`, `ShownAlwaysTrue`); the operation fails and the
  user starts it again.
* BBQr frames carry no checksum: frames of two sequences with the same header
  and different numbers are put together, and only the parser of the payload
  can refuse the result. `plan/09-qr.md:20` says as much; `PayloadFromFrames` promises a
  checksum for UR alone.
* A scan covers one address less after the last revealed one than after the
  last used one; `NeverBackwards` states `Gap - 1`.

## 6. Not modelled, and the plan

What is left, in this order:

1. The upgrade lock of `storage.rs` against other handles of the same database,
   and the export file of a backup.
2. Maturity by height (`sync.rs`): a coin is reported as immature or spendable,
   without block heights.
3. USB signing, when a device is qualified: its signatures enter the store in a
   second transaction (`AcceptSigned`).
4. Provenance and address labels, if a property needs them.

External, modelled from their use: which parts fountain frames determine
(`Determined`, `Xor`, the UR library), the hardware device, the endpoint, the
chain and the user.

Left out for good: parsing of descriptors, PSBTs, label files and QR frames, the
encoding of animated codes, and cryptography (a policy, a signature, a frame and
a file that passed validation are values of the model); the FFI, which only
converts and locks; the display of screens; the vendored SQLCipher; scripts and evidence
files.
