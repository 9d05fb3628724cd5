----------------------------- MODULE WalletStore -----------------------------
(***************************************************************************)
(* One wallet in the encrypted SQLite store of tundra-core: its chain      *)
(* view, its coins, its drafts with their reservations, signatures, final  *)
(* bytes and submission attempts, the recovered submissions of a restored  *)
(* store, and one backup of all that.                                      *)
(*                                                                         *)
(* Every mutating operation of the core takes the connection mutex, opens  *)
(* BEGIN IMMEDIATE, checks, writes and commits, or returns an error and    *)
(* rolls back.  Each is one action here: its guard is the conjunction of   *)
(* the checks, an error is the absence of a step.  What happens between    *)
(* two transactions of one operation (broadcast_draft, run_sync) belongs   *)
(* to the modules that compose this one.                                   *)
(***************************************************************************)
EXTENDS Naturals, Sequences, FiniteSets

CONSTANTS
  Coins,        \* outpoints the wallet may come to own
  DraftIds,     \* draft ids; an id is the hash of wallet id and txid
  Inputs,       \* Inputs[d]: the coins spent by the transaction d is the id of
  Outputs,      \* Outputs[d]: the wallet's own outputs of that transaction
  LabelTexts,   \* label texts, "" among them
  DraftLabel,   \* DraftLabel[d]: the label the user gave when approving d
  Keys,         \* the policy's keys, in the order the witness lists them
  Required,     \* signatures the policy requires for an input
  None,         \* absence of a row
  MaxAttempts,  \* submissions recorded per draft; 64 in the code
  Freezable,    \* bound: the coins the user may freeze
  UserLabels,   \* bound: the label texts the user may write
  Reported,     \* bound: the chain positions that scans report
  BackupAllowed \* bound: whether backups are taken in this instance

\* "immature" stands for every confirmed-too-recently or unconfirmed coin.
Positions   == {"unknown", "spent", "immature", "spendable"}
LiveStates  == {"unsigned", "partially_signed", "signed", "finalized"}
DraftStates == LiveStates \cup {"observed", "invalidated"}

ASSUME InputsAssumption  == Inputs  \in [DraftIds -> (SUBSET Coins) \ {{}}]
ASSUME OutputsAssumption == /\ Outputs \in [DraftIds -> SUBSET Coins]
                            /\ \A d, e \in DraftIds :
                                 d # e => Outputs[d] \cap Outputs[e] = {}
                            /\ \A d \in DraftIds : Inputs[d] \cap Outputs[d] = {}
ASSUME LabelAssumption   == /\ DraftLabel \in [DraftIds -> LabelTexts]
                            /\ UserLabels \subseteq LabelTexts
ASSUME NoneAssumption    == None \notin DraftIds \cup LabelTexts \cup DraftStates
ASSUME PolicyAssumption  == Keys \subseteq Nat /\ Required \in Nat \ {0}
ASSUME AttemptAssumption == MaxAttempts \in Nat
ASSUME BoundAssumption   == /\ Freezable \subseteq Coins
                            /\ Reported \subseteq Positions
                            /\ BackupAllowed \in BOOLEAN

VARIABLES
  position,     \* chain position of each coin in the persisted wallet state
  seen,         \* drafts whose exact transaction that state contains
  synced,       \* wallets.synced_at IS NOT NULL
  freezes,      \* table freezes
  labels,       \* table labels: a draft stands for its tx, a coin for an output
  state,        \* drafts.review_json .state; None where there is no row
  reservations, \* table reservations, keyed by outpoint
  sigs,         \* table draft_signatures: validated <<coin, key>> signatures
  bytes,        \* table finalized_drafts: {} or {w}, w the signatures in the witness
  attempts,     \* table broadcast_attempts: the acknowledged flags, oldest first
  applied,      \* table draft_label_applications
  recovered,    \* table recovered_submissions
  holds,        \* table recovery_holds: <<coin, draft>>
  backup        \* the rows of the last exported backup, or None

draftTables == <<state, reservations, sigs, bytes, attempts>>
recoveryTables == <<recovered, holds>>
chainState  == <<position, seen, synced>>
metadata    == <<freezes, labels, applied>>
vars == <<chainState, metadata, draftTables, recoveryTables, backup>>

-----------------------------------------------------------------------------
(* Values *)

Marks       == {"keep", "freeze", "thaw"}
References  == DraftIds \cup Coins
Signatures  == Coins \X Keys

\* What a completed scan may report: a transaction that is present spends its
\* inputs, two present transactions do not conflict, and a wallet output that
\* exists has a parent that spent its inputs.
ChainViews ==
  {v \in [position : [Coins -> Reported], seen : SUBSET DraftIds] :
     /\ \A d \in v.seen : /\ \A c \in Inputs[d]  : v.position[c] = "spent"
                          /\ \A c \in Outputs[d] : v.position[c] # "unknown"
                          /\ \A e \in v.seen \ {d} : Inputs[d] \cap Inputs[e] = {}
     /\ \A d \in DraftIds : \A c \in Outputs[d] :
          v.position[c] # "unknown" => \A i \in Inputs[d] : v.position[i] = "spent"}

Snapshots ==
  [position : [Coins -> Positions], seen : SUBSET DraftIds,
   freezes : SUBSET Coins, labels : [References -> LabelTexts \cup {None}],
   state : [DraftIds -> DraftStates \cup {None}],
   sigs : [DraftIds -> SUBSET Signatures],
   bytes : [DraftIds -> SUBSET SUBSET Signatures],
   attempts : [DraftIds -> Seq(BOOLEAN)], applied : SUBSET DraftIds]

-----------------------------------------------------------------------------
(* Reading the tables *)

Live(d)      == state[d] \in LiveStates
Submitted(d) == attempts[d] # <<>>
Held(c)      == \E d \in DraftIds : <<c, d>> \in holds
Unspent(c)   == position[c] \in {"immature", "spendable"}

\* Variant: the status query without the holds of recovered submissions.
AvailableUnlessReserved(c) == c \notin freezes /\ reservations[c] = None /\ position[c] = "spendable"

\* Coin status: frozen, then reserved or held, then pending or immature.
Available(c) == /\ c \notin freezes
                /\ reservations[c] = None
                /\ ~Held(c)
                /\ position[c] = "spendable"

\* load_draft: what every signing, finalizing and broadcasting step rechecks.
Eligible(d) == /\ synced
               /\ Live(d)
               /\ \A c \in Inputs[d] : /\ position[c] = "spendable"
                                       /\ reservations[c] = d
                                       /\ c \notin freezes

Complete(d, s) ==
  \A c \in Inputs[d] : Cardinality({k \in Keys : <<c, k>> \in s}) >= Required

\* The final witness takes the first Required signatures of each input.
Witness(s) ==
  {p \in s : Cardinality({k \in Keys : <<p[1], k>> \in s /\ k < p[2]}) < Required}

\* validated_finalized returning a review: the recomputed bytes are the stored.
Finalized(d) == /\ Eligible(d)
                /\ state[d] = "finalized"
                /\ Complete(d, sigs[d])
                /\ bytes[d] = {Witness(sigs[d])}

-----------------------------------------------------------------------------
(* The user's metadata *)

\* known_reference: the wallet's transactions and its outputs, spent or not.
Known(r) == r \in seen \/ (r \in Coins /\ position[r] # "unknown")

SetLabel(r, label) ==
  /\ Known(r)
  /\ labels' = [labels EXCEPT ![r] = label]
  /\ UNCHANGED <<chainState, freezes, applied, draftTables, recoveryTables, backup>>

\* set_frozen and edit_coins: all the named coins are unspent, or nothing
\* changes; label = None and mark = "keep" leave that part alone.
EditCoins(cs, label, mark) ==
  /\ cs # {}
  /\ \A c \in cs : Unspent(c)
  /\ labels' = [r \in References |-> IF r \in cs /\ label # None THEN label ELSE labels[r]]
  /\ freezes' = CASE mark = "keep"   -> freezes
                   [] mark = "freeze" -> freezes \cup cs
                   [] mark = "thaw"   -> freezes \ cs
  /\ UNCHANGED <<chainState, applied, draftTables, recoveryTables, backup>>

\* The patches an instance imports: labels only where the user writes labels,
\* marks only on the coins the user freezes.
Labelable == IF UserLabels = {} THEN {} ELSE References
Patches   == {m \in [Coins -> Marks] : \A c \in Coins \ Freezable : m[c] = "keep"}

\* import_labels, applied: unknown references are skipped, and unlike an edit
\* it may mark coins that are spent.
ImportLabels(rs, label, marks) ==
  /\ labels' = [r \in References |-> IF r \in rs /\ Known(r) /\ label # None
                                  THEN label ELSE labels[r]]
  /\ freezes' = {c \in Coins : IF Known(c) /\ marks[c] # "keep"
                             THEN marks[c] = "freeze" ELSE c \in freezes}
  /\ UNCHANGED <<chainState, applied, draftTables, recoveryTables, backup>>

-----------------------------------------------------------------------------
(* Drafts *)

CreateDraft(d) ==
  /\ synced
  /\ state[d] = None
  /\ \A c \in Inputs[d] : Available(c)
  /\ state' = [state EXCEPT ![d] = "unsigned"]
  /\ reservations' = [c \in Coins |-> IF c \in Inputs[d] THEN d ELSE reservations[c]]
  /\ UNCHANGED <<chainState, metadata, sigs, bytes, attempts, recoveryTables, backup>>

\* Variant: signatures are still accepted after finalization.
AcceptSignedAlways(d, response) ==
  /\ Eligible(d)
  /\ sigs[d] \cup response # {}
  /\ sigs' = [sigs EXCEPT ![d] = @ \cup response]
  /\ UNCHANGED <<chainState, metadata, state, reservations, bytes, attempts, recoveryTables, backup>>

AcceptSigned(d, response) ==
  /\ Eligible(d)
  /\ state[d] # "finalized"
  /\ LET merged == sigs[d] \cup response
     IN  /\ merged # {}
         /\ sigs'  = [sigs EXCEPT ![d] = merged]
         /\ state' = [state EXCEPT ![d] = IF Complete(d, merged)
                                          THEN "signed" ELSE "partially_signed"]
  /\ UNCHANGED <<chainState, metadata, reservations, bytes, attempts, recoveryTables, backup>>

FinalizeDraft(d) ==
  /\ Eligible(d)
  /\ Complete(d, sigs[d])
  /\ bytes[d] = {}
  /\ state[d] # "finalized"
  /\ bytes' = [bytes EXCEPT ![d] = {Witness(sigs[d])}]
  /\ state' = [state EXCEPT ![d] = "finalized"]
  /\ UNCHANGED <<chainState, metadata, reservations, sigs, attempts, recoveryTables, backup>>

\* Variants: the refusal of submitted drafts, or the cascade, is missing.
DiscardSubmitted(d) ==
  /\ state[d] # None
  /\ state' = [state EXCEPT ![d] = None]
  /\ reservations' = [c \in Coins |-> IF reservations[c] = d THEN None ELSE reservations[c]]
  /\ sigs' = [sigs EXCEPT ![d] = {}]
  /\ bytes' = [bytes EXCEPT ![d] = {}]
  /\ attempts' = [attempts EXCEPT ![d] = <<>>]
  /\ UNCHANGED <<chainState, metadata, recoveryTables, backup>>
DiscardRowOnly(d) ==
  /\ state[d] # None
  /\ ~Submitted(d)
  /\ state' = [state EXCEPT ![d] = None]
  /\ UNCHANGED <<chainState, metadata, reservations, sigs, bytes, attempts, recoveryTables, backup>>

\* The row and, by its foreign keys, everything that refers to it.
DiscardDraft(d) ==
  /\ state[d] # None
  /\ ~Submitted(d)
  /\ state' = [state EXCEPT ![d] = None]
  /\ reservations' = [c \in Coins |-> IF reservations[c] = d THEN None ELSE reservations[c]]
  /\ sigs'  = [sigs EXCEPT ![d] = {}]
  /\ bytes' = [bytes EXCEPT ![d] = {}]
  /\ applied' = applied \ {d}
  /\ recovered' = recovered \ {d}
  /\ holds' = {h \in holds : h[2] # d}
  /\ UNCHANGED <<chainState, freezes, labels, attempts, backup>>

-----------------------------------------------------------------------------
(* Submissions *)

\* check_previous: expected is the latest attempt the user reviewed (0: none),
\* retry the explicit acknowledgement of a resubmission.
PreviousChecked(d, expected, retry) ==
  /\ Len(attempts[d]) = expected
  /\ Submitted(d) => retry
  /\ Len(attempts[d]) < MaxAttempts

\* The second transaction of broadcast_draft.
RecordAttempt(d, expected, retry) ==
  /\ Finalized(d)
  /\ PreviousChecked(d, expected, retry)
  /\ attempts' = [attempts EXCEPT ![d] = Append(@, FALSE)]
  /\ UNCHANGED <<chainState, metadata, state, reservations, sigs, bytes, recoveryTables, backup>>

\* The endpoint answered attempt i with the exact txid.
Acknowledge(d, i) ==
  /\ i \in DOMAIN attempts[d]
  /\ attempts' = [attempts EXCEPT ![d][i] = TRUE]
  /\ UNCHANGED <<chainState, metadata, state, reservations, sigs, bytes, recoveryTables, backup>>

-----------------------------------------------------------------------------
(* Applying a completed scan *)

\* Variant: any spend of all its inputs counts as the payment itself.
SpentIn(view) == {d \in DraftIds : /\ state[d] # None /\ Submitted(d)
                                  /\ \A c \in Inputs[d] : view.position[c] = "spent"}

\* observe_draft: a submitted draft whose exact transaction the new view has.
ObservedIn(view) == {d \in view.seen : state[d] # None /\ Submitted(d)}

\* Variant: only a vanished observation ends a draft.
VanishedIn(view) == {d \in DraftIds \ ObservedIn(view) : state[d] = "observed"}

\* The other drafts that can no longer stand: once observed and gone again, or
\* with an input that is not an unspent, confirmed and mature coin.
LostIn(view) ==
  {d \in DraftIds \ ObservedIn(view) :
     /\ state[d] # None
     /\ \/ state[d] = "observed"
        \/ \E c \in Inputs[d] : view.position[c] # "spendable"}

\* Variants: an evicted payment is ready to be sent again; an unknown state.
StateReviving(d, view) ==
  IF d \in ObservedIn(view) THEN "observed"
  ELSE IF d \notin LostIn(view) THEN state[d]
  ELSE IF state[d] = "observed" THEN "finalized" ELSE "invalidated"
StateUnread(d, view) ==
  IF d \in ObservedIn(view) THEN "observed"
  ELSE IF d \in LostIn(view) THEN "evicted" ELSE state[d]

StateAfter(d, view) == IF d \in ObservedIn(view) THEN "observed"
                       ELSE IF d \in LostIn(view) THEN "invalidated"
                       ELSE state[d]

\* Variant: the approval's label replaces whatever the user wrote.
OverwritingLabels(newly) ==
  [r \in References |->
     IF \E d \in newly : r = d \/ r \in Outputs[d]
     THEN DraftLabel[CHOOSE d \in newly : r = d \/ r \in Outputs[d]] ELSE labels[r]]

\* apply_observed_labels: once per draft; a label that is there already stays.
ObservedLabels(newly) ==
  [r \in References |->
     LET approved == {d \in newly : DraftLabel[d] # "" /\ (r = d \/ r \in Outputs[d])}
     IN  IF labels[r] # None \/ approved = {} THEN labels[r]
         ELSE DraftLabel[CHOOSE d \in approved : TRUE]]

ApplySync(view) ==
  LET observed == ObservedIn(view)
      lost     == LostIn(view)
  IN  /\ position' = view.position
      /\ seen' = view.seen
      /\ synced' = TRUE
      /\ state' = [d \in DraftIds |-> StateAfter(d, view)]
      /\ reservations' = [c \in Coins |-> IF reservations[c] \in observed \cup lost
                                          THEN None ELSE reservations[c]]
      /\ recovered' = recovered \ observed
      /\ holds' = {h \in holds : h[2] \notin observed}
      /\ labels' = ObservedLabels(observed \ applied)
      /\ applied' = applied \cup observed
      /\ UNCHANGED <<freezes, sigs, bytes, attempts, backup>>

-----------------------------------------------------------------------------
(* Backup, restore and recovery *)

ExportBackup ==
  /\ BackupAllowed
  /\ backup' = [position |-> position, seen |-> seen,
                freezes |-> freezes, labels |-> labels, state |-> state, sigs |-> sigs,
                bytes |-> bytes, attempts |-> attempts, applied |-> applied]
  /\ UNCHANGED <<chainState, metadata, draftTables, recoveryTables>>

HoldsOf(ds) == {h \in Coins \X ds : h[1] \in Inputs[h[2]]}

Suspend(s) == IF s = None THEN None ELSE "invalidated"

\* Variant: broadcast_attempts is not among the copied tables.
NoAttempts == [d \in DraftIds |-> <<>>]

RestoredAttempts == backup.attempts

\* restore_snapshot with suspend: the copied rows become the active store, every
\* approval is invalid and every submitted payment holds its inputs.
RestoreBackup ==
  /\ backup # None
  /\ position' = backup.position
  /\ seen' = backup.seen
  /\ synced' = FALSE
  /\ freezes' = backup.freezes
  /\ labels' = backup.labels
  /\ applied' = backup.applied
  /\ state' = [d \in DraftIds |-> Suspend(backup.state[d])]
  /\ reservations' = [c \in Coins |-> None]
  /\ sigs' = backup.sigs
  /\ bytes' = backup.bytes
  /\ attempts' = RestoredAttempts
  /\ recovered' = {d \in DraftIds : RestoredAttempts[d] # <<>>}
  /\ holds' = HoldsOf({d \in DraftIds : RestoredAttempts[d] # <<>>})
  /\ UNCHANGED backup

\* Variant: INSERT OR REPLACE, the resumed draft takes the coin over.
Seize(d) == [c \in Coins |-> IF c \in Inputs[d] THEN d ELSE reservations[c]]

\* INSERT OR IGNORE: an input another draft has reserved stays with that draft,
\* and then validated_finalized refuses the whole transaction.
Grant(d) == [c \in Coins |-> IF c \in Inputs[d] /\ reservations[c] = None
                             THEN d ELSE reservations[c]]

ResumeRecovered(d, expected) ==
  LET granted == Grant(d)
  IN  /\ d \in recovered
      /\ Submitted(d)
      /\ Len(attempts[d]) = expected
      /\ state[d] = "invalidated"
      /\ synced
      /\ \A c \in Inputs[d] : /\ position[c] = "spendable"
                              /\ granted[c] = d
                              /\ c \notin freezes
      /\ Complete(d, sigs[d])
      /\ bytes[d] = {Witness(sigs[d])}
      /\ state' = [state EXCEPT ![d] = "finalized"]
      /\ reservations' = granted
      /\ recovered' = recovered \ {d}
      /\ holds' = {h \in holds : h[2] # d}
      /\ UNCHANGED <<chainState, metadata, sigs, bytes, attempts, backup>>

-----------------------------------------------------------------------------
(* A freshly imported watch-only wallet that was never synchronized. *)
Init ==
  /\ position = [c \in Coins |-> "unknown"]
  /\ seen = {}
  /\ synced = FALSE
  /\ freezes = {}
  /\ labels = [r \in References |-> None]
  /\ state = [d \in DraftIds |-> None]
  /\ reservations = [c \in Coins |-> None]
  /\ sigs = [d \in DraftIds |-> {}]
  /\ bytes = [d \in DraftIds |-> {}]
  /\ attempts = [d \in DraftIds |-> <<>>]
  /\ applied = {}
  /\ recovered = {}
  /\ holds = {}
  /\ backup = None

Metadata ==
  \/ \E r \in References, label \in UserLabels : SetLabel(r, label)
  \/ \E cs \in SUBSET Freezable, label \in UserLabels \cup {None}, mark \in Marks :
       EditCoins(cs, label, mark)
  \/ \E rs \in SUBSET Labelable, label \in UserLabels \cup {None}, marks \in Patches :
       ImportLabels(rs, label, marks)

Approval(d) ==
  \/ CreateDraft(d)
  \/ \E response \in SUBSET (Inputs[d] \X Keys) : AcceptSigned(d, response)
  \/ FinalizeDraft(d)
  \/ DiscardDraft(d)

Submission(d) ==
  \/ \E expected \in 0 .. MaxAttempts, retry \in BOOLEAN : RecordAttempt(d, expected, retry)
  \/ \E i \in 1 .. MaxAttempts : Acknowledge(d, i)
  \/ \E expected \in 1 .. MaxAttempts : ResumeRecovered(d, expected)

Next ==
  \/ Metadata
  \/ \E d \in DraftIds : Approval(d) \/ Submission(d)
  \/ \E view \in ChainViews : ApplySync(view)
  \/ ExportBackup
  \/ RestoreBackup

Spec == Init /\ [][Next]_vars
-----------------------------------------------------------------------------
(* Invariants *)

\* Every table holds rows of its schema and every persisted state is one that
\* the code writes (schema.sql; the state strings of DraftReview).
TypeOK ==
  /\ position \in [Coins -> Positions]
  /\ seen \subseteq DraftIds
  /\ synced \in BOOLEAN
  /\ freezes \subseteq Coins
  /\ labels \in [References -> LabelTexts \cup {None}]
  /\ state \in [DraftIds -> DraftStates \cup {None}]
  /\ reservations \in [Coins -> DraftIds \cup {None}]
  /\ sigs \in [DraftIds -> SUBSET Signatures]
  /\ bytes \in [DraftIds -> SUBSET SUBSET Signatures]
  /\ attempts \in [DraftIds -> Seq(BOOLEAN)]
  /\ applied \subseteq DraftIds
  /\ recovered \subseteq DraftIds
  /\ holds \subseteq Coins \X DraftIds
  /\ backup \in Snapshots \cup {None}

\* Two approvals that can still be signed or sent never spend the same coin:
\* create_draft and resume_recovered_submission are the only ways to become
\* live, from different tables, and neither may overlook the other's coins.
LiveDraftsDisjoint ==
  \A d, e \in DraftIds : d # e /\ Live(d) /\ Live(e) => Inputs[d] \cap Inputs[e] = {}

\* A live draft has reserved each of its inputs, and a reservation belongs to
\* an input of a live draft: no coin stays locked by a draft that has ended.
ReservationsMatchLiveDrafts ==
  \A c \in Coins, d \in DraftIds :
    reservations[c] = d <=> Live(d) /\ c \in Inputs[d]

\* No draft stays live across a chain view in which one of its inputs is not an
\* unspent mature coin, nor in a store that was restored and not yet synced
\* (invalidate_drafts, suspend).
LiveDraftsStand ==
  \A d \in DraftIds : Live(d) => synced /\ \A c \in Inputs[d] : position[c] = "spendable"

\* The CorruptState branches of validated_finalized and finalize_draft are not
\* reachable: final bytes exist exactly for the live drafts marked finalized,
\* and wherever they exist the stored signatures still rebuild them.
FinalBytesStand ==
  \A d \in DraftIds :
    /\ Live(d) => (state[d] = "finalized" <=> bytes[d] # {})
    /\ bytes[d] # {} => state[d] # None /\ Complete(d, sigs[d]) /\ bytes[d] = {Witness(sigs[d])}

\* A submission never outlives the bytes it sent: status, observation and
\* recovery read them for every attempt (foreign key of broadcast_attempts).
SubmissionsHaveBytes ==
  \A d \in DraftIds : Submitted(d) => bytes[d] # {} /\ state[d] \in
                                      {"finalized", "observed", "invalidated"}

\* A draft presented as observed was submitted and is in the persisted chain
\* view, so a reorganized or evicted payment is never still shown as paid.
ObservedIsSeen ==
  \A d \in DraftIds : state[d] = "observed" => Submitted(d) /\ d \in seen

\* A suspended submission is an invalidated, submitted draft; it holds exactly
\* its inputs, so no automatic selection can reuse them.
RecoveredHoldsInputs ==
  /\ \A d \in recovered : state[d] = "invalidated" /\ Submitted(d)
  /\ holds = {h \in Coins \X recovered : h[1] \in Inputs[h[2]]}

\* While a payment of the restored store may still be in flight, none of its
\* coins is in a live draft unless that draft was itself submitted before.
HeldCoinsNotReused ==
  \A d \in DraftIds : Live(d) /\ (\E c \in Inputs[d] : Held(c)) => Submitted(d)

\* Whatever moment a backup is taken at, its rows satisfy what a restore and
\* then a resume will demand of them: a draft and final bytes behind every
\* submission, and signatures that rebuild those bytes.
BackupRestorable ==
  backup # None =>
    \A d \in DraftIds :
      /\ backup.attempts[d] # <<>> => backup.bytes[d] # {}
      /\ backup.bytes[d] # {} => /\ backup.state[d] # None
                                /\ Complete(d, backup.sigs[d])
                                /\ backup.bytes[d] = {Witness(backup.sigs[d])}

-----------------------------------------------------------------------------
(* What the tables promise about coins *)

Locks == INSTANCE CoinLocks WITH
  Payments <- DraftIds, Needs <- Inputs, owner <- reservations,
  held <- [c \in Coins |-> {d \in DraftIds : <<c, d>> \in holds}]

\* Whatever interleaving of approvals, scans, restores and resumes, the two
\* tables act as one lock per coin: an approval takes all its coins or none and
\* only free ones, nothing but its end or a restore takes them away, and a
\* suspended payment gets its coins back whole (create_draft's constraint and
\* check, resume_recovered_submission's INSERT OR IGNORE).
CoinsLocked == Locks!Spec

-----------------------------------------------------------------------------
(* Action properties *)

RevivedByResume ==
  \A d \in DraftIds :
    state[d] \in {"observed", "invalidated"} /\ state'[d] \in LiveStates =>
      /\ d \in recovered \ recovered'
      /\ state'[d] = "finalized"
      /\ bytes'[d] = bytes[d] /\ sigs'[d] = sigs[d]

SubmissionsKept ==
  ~RestoreBackup =>
    \A d \in DraftIds : Submitted(d) =>
      /\ Len(attempts[d]) <= Len(attempts'[d])
      /\ \A i \in DOMAIN attempts[d] : attempts[d][i] => attempts'[d][i]
      /\ bytes'[d] = bytes[d] /\ sigs'[d] = sigs[d]

HoldsSettled ==
  ~RestoreBackup =>
    \A d \in recovered \ recovered' :
      \/ d \in seen' /\ state'[d] = "observed"
      \/ \A c \in Inputs[d] : reservations'[c] = d

LabelsOnce ==
  (\E view \in ChainViews : ApplySync(view)) =>
    \A r \in References : labels'[r] # labels[r] =>
      /\ labels[r] = None
      /\ \E d \in applied' \ applied : r = d \/ r \in Outputs[d]

\* An approval that was observed or invalidated becomes live again only by an
\* explicit resume of a recovered submission, as the finalized draft it was
\* (broadcast.rs: "An evicted/reorged approval is never revived").
NeverRevived == [][RevivedByResume]_vars

\* In one store the record of a submission is never lost and an acknowledgement
\* never withdrawn, and what was sent never changes (discard_draft's refusal).
SubmissionsIndelible == [][SubmissionsKept]_vars

\* A suspended submission keeps its coins locked until the chain view contains
\* its transaction or the user resumes it, and then the reservation takes over
\* (observe_draft, resume_recovered_submission).
HeldUntilSettled == [][HoldsSettled]_vars

\* A scan never overwrites a label, and the labels of an approval are applied
\* at most once: what the user changed or cleared afterwards stays
\* (apply_observed_labels).
LabelsAppliedOnce == [][LabelsOnce]_vars
=============================================================================
