-------------------------- MODULE WalletStoreProofs --------------------------
(***************************************************************************)
(* Proofs about WalletStore, for every set of coins, drafts and keys and   *)
(* every bound: its types, its safety invariants and its action            *)
(* properties.                                                             *)
(***************************************************************************)
EXTENDS WalletStore, SequenceTheorems, TLAPS

-----------------------------------------------------------------------------
(* Types *)

\* The witness of a set of signatures is a set of those signatures.
LEMMA WitnessType ==
  ASSUME NEW s \in SUBSET Signatures
  PROVE  Witness(s) \in SUBSET Signatures
BY DEF Witness

\* The labels a scan leaves behind are label texts, or still absent.
LEMMA ObservedLabelsType ==
  ASSUME TypeOK, NEW newly \in SUBSET DraftIds
  PROVE  ObservedLabels(newly) \in [References -> LabelTexts \cup {None}]
<1> SUFFICES ASSUME NEW r \in References
             PROVE  ObservedLabels(newly)[r] \in LabelTexts \cup {None}
  BY DEF ObservedLabels
<1> DEFINE approved == {d \in newly : DraftLabel[d] # "" /\ (r = d \/ r \in Outputs[d])}
<1>1. CASE labels[r] # None \/ approved = {}
  BY <1>1 DEF ObservedLabels, TypeOK
<1>2. CASE labels[r] = None /\ approved # {}
  <2>1. (CHOOSE d \in approved : TRUE) \in DraftIds
    BY <1>2
  <2>2. ObservedLabels(newly)[r] = DraftLabel[CHOOSE d \in approved : TRUE]
    BY <1>2 DEF ObservedLabels
  <2> QED
    BY <2>1, <2>2, LabelAssumption
<1> QED
  BY <1>1, <1>2

\* Every action keeps every table within its schema.
LEMMA TypeStep == TypeOK /\ [Next]_vars => TypeOK'
<1> SUFFICES ASSUME TypeOK, [Next]_vars PROVE TypeOK'
  OBVIOUS
<1> USE DEF TypeOK, chainState, metadata, draftTables, recoveryTables
<1>1. ASSUME NEW r \in References, NEW label \in UserLabels, SetLabel(r, label)
      PROVE  TypeOK'
  BY <1>1, LabelAssumption DEF SetLabel
<1>2. ASSUME NEW cs \in SUBSET Freezable, NEW label \in UserLabels \cup {None},
             NEW mark \in Marks, EditCoins(cs, label, mark)
      PROVE  TypeOK'
  <2>1. freezes' \subseteq Coins
    BY <1>2, BoundAssumption DEF EditCoins, Marks
  <2>2. labels' \in [References -> LabelTexts \cup {None}]
    BY <1>2, LabelAssumption DEF EditCoins
  <2> QED
    BY <1>2, <2>1, <2>2 DEF EditCoins
<1>3. ASSUME NEW d \in DraftIds, CreateDraft(d)
      PROVE  TypeOK'
  BY <1>3 DEF CreateDraft, DraftStates, LiveStates
<1>4. ASSUME NEW d \in DraftIds, NEW response \in SUBSET (Inputs[d] \X Keys),
             AcceptSigned(d, response)
      PROVE  TypeOK'
  <2>1. response \in SUBSET Signatures
    BY InputsAssumption DEF Signatures
  <2> QED
    BY <1>4, <2>1 DEF AcceptSigned, DraftStates, LiveStates
<1>5. ASSUME NEW d \in DraftIds, FinalizeDraft(d)
      PROVE  TypeOK'
  <2>1. {Witness(sigs[d])} \in SUBSET SUBSET Signatures
    BY WitnessType
  <2> QED
    BY <1>5, <2>1 DEF FinalizeDraft, DraftStates, LiveStates
<1>6. ASSUME NEW d \in DraftIds, DiscardDraft(d)
      PROVE  TypeOK'
  BY <1>6 DEF DiscardDraft
<1>7. ASSUME NEW d \in DraftIds, NEW expected \in 0 .. MaxAttempts, NEW retry \in BOOLEAN,
             RecordAttempt(d, expected, retry)
      PROVE  TypeOK'
  BY <1>7 DEF RecordAttempt
<1>8. ASSUME NEW d \in DraftIds, NEW i \in 1 .. MaxAttempts, Acknowledge(d, i)
      PROVE  TypeOK'
  <2>1. [attempts[d] EXCEPT ![i] = TRUE] \in Seq(BOOLEAN)
    BY <1>8 DEF Acknowledge
  <2> QED
    BY <1>8, <2>1 DEF Acknowledge
<1>9. ASSUME NEW d \in DraftIds, NEW expected \in 1 .. MaxAttempts, ResumeRecovered(d, expected)
      PROVE  TypeOK'
  BY <1>9 DEF ResumeRecovered, Grant, DraftStates, LiveStates
<1>10. ASSUME NEW view \in ChainViews, ApplySync(view)
       PROVE  TypeOK'
  <2>1. view.position \in [Coins -> Positions] /\ view.seen \subseteq DraftIds
    BY BoundAssumption DEF ChainViews
  <2>2. ObservedIn(view) \subseteq DraftIds
    BY <2>1 DEF ObservedIn
  <2>3. labels' \in [References -> LabelTexts \cup {None}]
    BY <1>10, <2>2, ObservedLabelsType DEF ApplySync
  <2> QED
    BY <1>10, <2>1, <2>2, <2>3 DEF ApplySync, StateAfter, DraftStates
<1>11. ASSUME ExportBackup
       PROVE  TypeOK'
  <2>1. backup' \in Snapshots
    BY <1>11 DEF ExportBackup, Snapshots
  <2> QED
    BY <1>11, <2>1 DEF ExportBackup
<1>12. ASSUME RestoreBackup
       PROVE  TypeOK'
  <2>1. backup \in Snapshots
    BY <1>12 DEF RestoreBackup
  <2> QED
    BY <1>12, <2>1 DEF RestoreBackup, RestoredAttempts, Snapshots, DraftStates, Suspend, HoldsOf
<1>13. CASE UNCHANGED vars
  BY <1>13 DEF vars
<1>14. ASSUME NEW rs \in SUBSET Labelable, NEW label \in UserLabels \cup {None}, NEW marks,
              ImportLabels(rs, label, marks)
       PROVE  TypeOK'
  <2>1. labels' \in [References -> LabelTexts \cup {None}]
    BY <1>14, LabelAssumption DEF ImportLabels
  <2> QED
    BY <1>14, <2>1 DEF ImportLabels
<1>15. ASSUME NEW d \in DraftIds, Approval(d) PROVE TypeOK'
  BY <1>3, <1>4, <1>5, <1>6, <1>15 DEF Approval
<1>16. ASSUME NEW d \in DraftIds, Submission(d) PROVE TypeOK'
  BY <1>7, <1>8, <1>9, <1>16 DEF Submission
<1>17. ASSUME Metadata PROVE TypeOK'
  BY <1>1, <1>2, <1>14, <1>17 DEF Metadata
<1> QED
  BY <1>10, <1>11, <1>12, <1>13, <1>15, <1>16, <1>17 DEF Next

\* A freshly imported wallet is within the schema.
LEMMA InitType == Init => TypeOK
<1> SUFFICES ASSUME Init PROVE TypeOK
  OBVIOUS
<1>1. position \in [Coins -> Positions] /\ seen \subseteq DraftIds /\ synced \in BOOLEAN
  BY DEF Init, Positions
<1>2. attempts \in [DraftIds -> Seq(BOOLEAN)]
  <2>1. <<>> \in Seq(BOOLEAN)
    OBVIOUS
  <2> QED
    BY <2>1 DEF Init
<1>3. /\ freezes \subseteq Coins
      /\ labels \in [References -> LabelTexts \cup {None}]
      /\ state \in [DraftIds -> DraftStates \cup {None}]
      /\ reservations \in [Coins -> DraftIds \cup {None}]
      /\ sigs \in [DraftIds -> SUBSET Signatures]
      /\ bytes \in [DraftIds -> SUBSET SUBSET Signatures]
  BY DEF Init
<1>4. /\ applied \subseteq DraftIds
      /\ recovered \subseteq DraftIds
      /\ holds \subseteq Coins \X DraftIds
      /\ backup \in Snapshots \cup {None}
  BY DEF Init
<1> QED
  BY <1>1, <1>2, <1>3, <1>4 DEF TypeOK

\* The store stays within its schema (schema.sql, DraftReview.state).
THEOREM TypeCorrect == Spec => []TypeOK
BY InitType, TypeStep, PTL DEF Spec

-----------------------------------------------------------------------------
(* Safety *)

\* The inductive invariant: the safety invariants of WalletStore need each
\* other.  A resumed draft stands because suspended drafts hold their coins, a
\* restored store is sound because every backup was taken in a sound one.
IInv == /\ TypeOK
        /\ ReservationsMatchLiveDrafts
        /\ LiveDraftsStand
        /\ FinalBytesStand
        /\ SubmissionsHaveBytes
        /\ ObservedIsSeen
        /\ RecoveredHoldsInputs
        /\ HeldCoinsNotReused
        /\ BackupRestorable

\* A draft has at least one input and all of them are coins.
LEMMA InputsFacts ==
  ASSUME NEW d \in DraftIds
  PROVE  Inputs[d] \subseteq Coins /\ Inputs[d] # {}
BY InputsAssumption

\* A freshly imported wallet satisfies the invariant: it has no drafts.
LEMMA InitInv == Init => IInv
<1> SUFFICES ASSUME Init PROVE IInv
  OBVIOUS
<1>1. TypeOK
  BY InitType
<1>2. /\ ReservationsMatchLiveDrafts
      /\ LiveDraftsStand
      /\ FinalBytesStand
      /\ SubmissionsHaveBytes
      /\ ObservedIsSeen
  BY NoneAssumption DEF Init, ReservationsMatchLiveDrafts, LiveDraftsStand, FinalBytesStand,
     SubmissionsHaveBytes, ObservedIsSeen, Live, Submitted, LiveStates, DraftStates
<1>3. /\ RecoveredHoldsInputs
      /\ HeldCoinsNotReused
      /\ BackupRestorable
  BY DEF Init, RecoveredHoldsInputs, HeldCoinsNotReused, BackupRestorable, Held
<1> QED
  BY <1>1, <1>2, <1>3 DEF IInv

\* Writing metadata disturbs no draft.
LEMMA MetadataInv ==
  ASSUME IInv, TypeOK', Metadata
  PROVE  IInv'
<1>1. UNCHANGED <<chainState, draftTables, recoveryTables, backup>>
  BY DEF Metadata, SetLabel, EditCoins, ImportLabels
<1> QED
  BY <1>1 DEF IInv, chainState, draftTables, recoveryTables,
     ReservationsMatchLiveDrafts, LiveDraftsStand, FinalBytesStand, SubmissionsHaveBytes,
     ObservedIsSeen, RecoveredHoldsInputs, HeldCoinsNotReused, BackupRestorable,
     Live, Submitted, Held

\* create_draft reserves what it spends, and takes only coins nobody
\* reserves or holds.
LEMMA CreateDraftInv ==
  ASSUME IInv, TypeOK', NEW d \in DraftIds, CreateDraft(d)
  PROVE  IInv'
<1> USE DEF IInv, CreateDraft, chainState, metadata, recoveryTables, Live, Submitted, LiveStates,
            DraftStates, Available, TypeOK
<1>1. ReservationsMatchLiveDrafts'
  BY InputsFacts, NoneAssumption DEF ReservationsMatchLiveDrafts
<1>2. LiveDraftsStand'
  BY InputsFacts DEF LiveDraftsStand
<1>3. FinalBytesStand' /\ SubmissionsHaveBytes' /\ ObservedIsSeen'
  BY NoneAssumption DEF FinalBytesStand, SubmissionsHaveBytes, ObservedIsSeen
<1>4. RecoveredHoldsInputs'
  BY NoneAssumption DEF RecoveredHoldsInputs
<1>5. HeldCoinsNotReused'
  BY InputsFacts DEF HeldCoinsNotReused, Held
<1>6. BackupRestorable'
  BY DEF BackupRestorable
<1> QED
  BY <1>1, <1>2, <1>3, <1>4, <1>5, <1>6

\* accept_signed_psbt never touches a finalized draft, so final bytes stay
\* what the stored signatures rebuild.
LEMMA AcceptSignedInv ==
  ASSUME IInv, TypeOK', NEW d \in DraftIds, NEW response \in SUBSET (Inputs[d] \X Keys),
         AcceptSigned(d, response)
  PROVE  IInv'
<1> USE DEF IInv, AcceptSigned, Eligible, chainState, metadata, recoveryTables, Live, Submitted,
            LiveStates, DraftStates, TypeOK
<1>1. ReservationsMatchLiveDrafts' /\ LiveDraftsStand'
  BY DEF ReservationsMatchLiveDrafts, LiveDraftsStand
<1>2. FinalBytesStand' /\ SubmissionsHaveBytes' /\ ObservedIsSeen'
  BY NoneAssumption DEF FinalBytesStand, SubmissionsHaveBytes, ObservedIsSeen
<1>3. RecoveredHoldsInputs' /\ HeldCoinsNotReused'
  BY DEF RecoveredHoldsInputs, HeldCoinsNotReused, Held
<1>4. BackupRestorable'
  BY DEF BackupRestorable
<1> QED
  BY <1>1, <1>2, <1>3, <1>4

\* finalize_draft stores exactly the bytes that the signatures rebuild.
LEMMA FinalizeDraftInv ==
  ASSUME IInv, TypeOK', NEW d \in DraftIds, FinalizeDraft(d)
  PROVE  IInv'
<1> USE DEF IInv, FinalizeDraft, Eligible, chainState, metadata, recoveryTables, Live, Submitted,
            LiveStates, DraftStates, TypeOK
<1>1. ReservationsMatchLiveDrafts' /\ LiveDraftsStand'
  BY DEF ReservationsMatchLiveDrafts, LiveDraftsStand
<1>2. FinalBytesStand' /\ SubmissionsHaveBytes' /\ ObservedIsSeen'
  BY NoneAssumption DEF FinalBytesStand, SubmissionsHaveBytes, ObservedIsSeen
<1>3. RecoveredHoldsInputs' /\ HeldCoinsNotReused'
  BY DEF RecoveredHoldsInputs, HeldCoinsNotReused, Held
<1>4. BackupRestorable'
  BY DEF BackupRestorable
<1> QED
  BY <1>1, <1>2, <1>3, <1>4

\* discard_draft takes the reservations, signatures and bytes along; a
\* recovered draft was submitted, so it is not discarded.
LEMMA DiscardDraftInv ==
  ASSUME IInv, TypeOK', NEW d \in DraftIds, DiscardDraft(d)
  PROVE  IInv'
<1> USE DEF IInv, DiscardDraft, chainState, Live, Submitted, LiveStates, DraftStates, TypeOK
<1>1. d \notin recovered
  BY DEF RecoveredHoldsInputs
<1>2. ReservationsMatchLiveDrafts' /\ LiveDraftsStand'
  BY NoneAssumption DEF ReservationsMatchLiveDrafts, LiveDraftsStand
<1>3. FinalBytesStand'
  BY NoneAssumption DEF FinalBytesStand
<1>4. SubmissionsHaveBytes' /\ ObservedIsSeen'
  BY NoneAssumption DEF SubmissionsHaveBytes, ObservedIsSeen
<1>5. \A h \in holds : h[2] \in recovered => h[2] # d
  BY <1>1
<1>6. RecoveredHoldsInputs'
  BY <1>1, <1>5, NoneAssumption DEF RecoveredHoldsInputs
<1>7. HeldCoinsNotReused'
  <2> SUFFICES ASSUME NEW e \in DraftIds, Live(e)', NEW c \in Inputs[e], Held(c)'
               PROVE  Submitted(e)'
    BY DEF HeldCoinsNotReused
  <2>1. Held(c)
    BY DEF Held
  <2>2. Live(e) /\ e # d
    BY NoneAssumption
  <2> QED BY <2>1, <2>2 DEF HeldCoinsNotReused
<1>8. BackupRestorable'
  BY DEF BackupRestorable
<1> QED
  BY <1>2, <1>3, <1>4, <1>6, <1>7, <1>8

\* Recording an attempt and acknowledging one only touch the attempts, and
\* leave exactly the submitted drafts submitted, the recorded one added.
LEMMA AttemptsInv ==
  ASSUME IInv, TypeOK',
         UNCHANGED <<chainState, metadata, state, reservations, sigs, bytes, recoveryTables, backup>>,
         \A e \in DraftIds : Submitted(e) => attempts'[e] # <<>>,
         \A e \in DraftIds : attempts'[e] # <<>> => Submitted(e) \/ state[e] = "finalized"
  PROVE  IInv'
<1> USE DEF IInv, chainState, metadata, recoveryTables, Live, Submitted, LiveStates, DraftStates,
            TypeOK
<1>1. ReservationsMatchLiveDrafts' /\ LiveDraftsStand' /\ FinalBytesStand'
  BY DEF ReservationsMatchLiveDrafts, LiveDraftsStand, FinalBytesStand
<1>2. SubmissionsHaveBytes' /\ ObservedIsSeen'
  BY DEF SubmissionsHaveBytes, ObservedIsSeen, FinalBytesStand
<1>3. RecoveredHoldsInputs' /\ HeldCoinsNotReused'
  BY DEF RecoveredHoldsInputs, HeldCoinsNotReused, Held
<1>4. BackupRestorable'
  BY DEF BackupRestorable
<1> QED
  BY <1>1, <1>2, <1>3, <1>4

\* broadcast_draft submits finalized drafts only.
LEMMA RecordAttemptInv ==
  ASSUME IInv, TypeOK', NEW d \in DraftIds, NEW expected, NEW retry,
         RecordAttempt(d, expected, retry)
  PROVE  IInv'
<1>1. Append(attempts[d], FALSE) # <<>>
  BY AppendProperties DEF IInv, TypeOK
<1> QED
  BY <1>1, AttemptsInv DEF RecordAttempt, Finalized, Submitted, IInv, TypeOK

\* An acknowledgement marks an attempt and adds none.
LEMMA AcknowledgeInv ==
  ASSUME IInv, TypeOK', NEW d \in DraftIds, NEW i, Acknowledge(d, i)
  PROVE  IInv'
<1>1. attempts[d] # <<>> /\ attempts'[d] # <<>>
  BY DEF Acknowledge, IInv, TypeOK
<1> QED
  BY <1>1, AttemptsInv DEF Acknowledge, Submitted, IInv, TypeOK

\* The one action that makes an ended draft live again.
LEMMA ResumeRecoveredInv ==
  ASSUME IInv, TypeOK', NEW d \in DraftIds, NEW expected, ResumeRecovered(d, expected)
  PROVE  IInv'
<1> USE DEF IInv, ResumeRecovered, Grant, chainState, metadata, Live, Submitted, LiveStates, DraftStates,
            TypeOK
<1>1. ReservationsMatchLiveDrafts'
  <2>1. \A c \in Coins : reservations[c] # d
    BY DEF ReservationsMatchLiveDrafts
  <2>2. \A c \in Inputs[d] : c \in Coins /\ reservations[c] = None /\ reservations'[c] = d
    BY <2>1, InputsFacts
  <2>3. \A c \in Coins \ Inputs[d] : reservations'[c] = reservations[c]
    OBVIOUS
  <2>4. Live(d)' /\ \A e \in DraftIds \ {d} : Live(e)' <=> Live(e)
    OBVIOUS
  <2>5. \A c \in Coins, e \in DraftIds : reservations[c] = e <=> Live(e) /\ c \in Inputs[e]
    BY DEF ReservationsMatchLiveDrafts
  <2> SUFFICES ASSUME NEW c \in Coins, NEW e \in DraftIds
               PROVE  reservations'[c] = e <=> Live(e)' /\ c \in Inputs[e]
    BY DEF ReservationsMatchLiveDrafts
  <2> HIDE DEF ResumeRecovered, Live
  <2>6. CASE c \in Inputs[d]
    BY <2>2, <2>4, <2>5, <2>6, NoneAssumption
  <2>7. CASE c \notin Inputs[d]
    BY <2>1, <2>3, <2>4, <2>5, <2>7
  <2> QED
    BY <2>6, <2>7
<1>2. LiveDraftsStand'
  BY InputsFacts DEF LiveDraftsStand
<1>3. FinalBytesStand' /\ SubmissionsHaveBytes' /\ ObservedIsSeen'
  BY NoneAssumption DEF FinalBytesStand, SubmissionsHaveBytes, ObservedIsSeen
<1>4. RecoveredHoldsInputs' /\ HeldCoinsNotReused'
  BY DEF RecoveredHoldsInputs, HeldCoinsNotReused, Held
<1>5. BackupRestorable'
  BY DEF BackupRestorable
<1> QED
  BY <1>1, <1>2, <1>3, <1>4, <1>5

\* Applying a scan ends every draft it contradicts.
LEMMA ApplySyncInv ==
  ASSUME IInv, TypeOK', NEW view \in ChainViews, ApplySync(view)
  PROVE  IInv'
<1> DEFINE observed == ObservedIn(view)
           lost == LostIn(view)
<1>1. /\ position' = view.position /\ seen' = view.seen /\ synced' = TRUE
      /\ \A d \in DraftIds : state'[d] = IF d \in observed THEN "observed"
                                         ELSE IF d \in lost THEN "invalidated" ELSE state[d]
      /\ \A c \in Coins : reservations'[c] = IF reservations[c] \in observed \cup lost
                                              THEN None ELSE reservations[c]
      /\ recovered' = recovered \ observed
      /\ holds' = {h \in holds : h[2] \notin observed}
      /\ UNCHANGED <<sigs, bytes, attempts, backup>>
  BY DEF ApplySync, StateAfter, IInv, TypeOK
<1>2. /\ \A d \in observed : d \in DraftIds /\ d \in seen' /\ state[d] # None /\ Submitted(d)
      /\ \A d \in lost : d \in DraftIds /\ state[d] # None
  <2>1. view.seen \subseteq DraftIds
    BY DEF ChainViews
  <2> QED
    BY <1>1, <2>1 DEF ObservedIn, LostIn
<1>3. \A d \in DraftIds : Live(d)' =>
        /\ d \notin observed /\ d \notin lost /\ state'[d] = state[d] /\ Live(d)
        /\ \A c \in Inputs[d] : view.position[c] = "spendable"
  BY <1>1, <1>2, NoneAssumption DEF Live, LiveStates, DraftStates, LostIn
<1>4. \A d \in DraftIds : Live(d) /\ d \notin observed /\ d \notin lost => Live(d)'
  BY <1>1 DEF Live
<1> HIDE DEF observed, lost
<1> USE DEF IInv, TypeOK
<1>5. ReservationsMatchLiveDrafts'
  BY <1>1, <1>2, <1>3, <1>4, NoneAssumption DEF ReservationsMatchLiveDrafts
<1>6. LiveDraftsStand'
  BY <1>1, <1>3 DEF LiveDraftsStand
<1>7. FinalBytesStand'
  BY <1>1, <1>2, <1>3, NoneAssumption DEF FinalBytesStand, DraftStates
<1>8. SubmissionsHaveBytes'
  BY <1>1 DEF SubmissionsHaveBytes, Submitted
<1>9. ObservedIsSeen'
  <2> SUFFICES ASSUME NEW d \in DraftIds, state'[d] = "observed"
               PROVE  Submitted(d)' /\ d \in seen'
    BY DEF ObservedIsSeen
  <2>1. d \notin observed => d \in lost
    <3> SUFFICES ASSUME d \notin observed, d \notin lost PROVE FALSE
      OBVIOUS
    <3>1. state[d] = "observed"
      BY <1>1
    <3> QED
      BY <3>1, NoneAssumption DEF LostIn, observed, lost, DraftStates
  <2>2. d \in observed
    BY <1>1, <2>1
  <2> QED
    BY <1>1, <1>2, <2>2 DEF Submitted
<1>10. RecoveredHoldsInputs'
  BY <1>1, <1>2 DEF RecoveredHoldsInputs, Submitted
<1>11. HeldCoinsNotReused'
  BY <1>1, <1>3 DEF HeldCoinsNotReused, Held, Submitted
<1>12. BackupRestorable'
  BY <1>1 DEF BackupRestorable
<1> QED
  BY <1>5, <1>6, <1>7, <1>8, <1>9, <1>10, <1>11, <1>12

\* A backup of a sound store can be restored and resumed from.
LEMMA ExportBackupInv ==
  ASSUME IInv, TypeOK', ExportBackup
  PROVE  IInv'
<1> USE DEF IInv, ExportBackup, chainState, metadata, draftTables, recoveryTables
<1>1. /\ ReservationsMatchLiveDrafts'
      /\ LiveDraftsStand'
      /\ FinalBytesStand'
      /\ SubmissionsHaveBytes'
      /\ ObservedIsSeen'
      /\ RecoveredHoldsInputs'
      /\ HeldCoinsNotReused'
  BY DEF ReservationsMatchLiveDrafts, LiveDraftsStand, FinalBytesStand, SubmissionsHaveBytes,
     ObservedIsSeen, RecoveredHoldsInputs, HeldCoinsNotReused, Live, Submitted, Held
<1>2. BackupRestorable'
  BY DEF BackupRestorable, FinalBytesStand, SubmissionsHaveBytes, Submitted
<1> QED
  BY <1>1, <1>2

\* A restored store has no live draft, and holds for every submission.
LEMMA RestoreBackupInv ==
  ASSUME IInv, TypeOK', RestoreBackup
  PROVE  IInv'
<1>1. backup \in Snapshots
  BY DEF IInv, TypeOK, RestoreBackup, RestoredAttempts
<1>2. \A d \in DraftIds : state'[d] = IF backup.state[d] = None THEN None ELSE "invalidated"
  BY DEF RestoreBackup, RestoredAttempts, Suspend
<1>3. \A d \in DraftIds : ~Live(d)'
  BY <1>2, NoneAssumption DEF Live, LiveStates, DraftStates
<1>4. ReservationsMatchLiveDrafts' /\ LiveDraftsStand' /\ HeldCoinsNotReused'
  BY <1>3, NoneAssumption
     DEF RestoreBackup, RestoredAttempts, ReservationsMatchLiveDrafts, LiveDraftsStand, HeldCoinsNotReused
<1>5. \A d \in DraftIds : Submitted(d)' => bytes'[d] # {} /\ backup.state[d] # None
  BY DEF RestoreBackup, RestoredAttempts, Submitted, IInv, BackupRestorable
<1>6. FinalBytesStand'
  BY <1>2, <1>3, NoneAssumption DEF RestoreBackup, RestoredAttempts, FinalBytesStand, IInv, BackupRestorable, DraftStates
<1>7. SubmissionsHaveBytes' /\ ObservedIsSeen'
  BY <1>2, <1>5, NoneAssumption DEF SubmissionsHaveBytes, ObservedIsSeen, DraftStates
<1>8. RecoveredHoldsInputs'
  BY <1>2, <1>5 DEF RestoreBackup, RestoredAttempts, HoldsOf, RecoveredHoldsInputs, Submitted
<1>9. BackupRestorable'
  BY DEF RestoreBackup, RestoredAttempts, IInv, BackupRestorable
<1> QED
  BY <1>4, <1>6, <1>7, <1>8, <1>9 DEF IInv

\* Every transaction of the store preserves the invariant.
LEMMA InvStep == IInv /\ [Next]_vars => IInv'
<1> SUFFICES ASSUME IInv, [Next]_vars PROVE IInv'
  OBVIOUS
<1>1. TypeOK'
  BY TypeStep DEF IInv
<1>2. CASE UNCHANGED vars
  BY <1>1, <1>2 DEF vars, IInv, chainState, metadata, draftTables, recoveryTables,
     ReservationsMatchLiveDrafts, LiveDraftsStand, FinalBytesStand, SubmissionsHaveBytes,
     ObservedIsSeen, RecoveredHoldsInputs, HeldCoinsNotReused, BackupRestorable,
     Live, Submitted, Held
<1>3. CASE Metadata
  BY <1>1, <1>3, MetadataInv
<1>4. ASSUME NEW d \in DraftIds, Approval(d)
      PROVE  IInv'
  BY <1>1, <1>4, CreateDraftInv, AcceptSignedInv, FinalizeDraftInv, DiscardDraftInv DEF Approval
<1>5. ASSUME NEW d \in DraftIds, Submission(d)
      PROVE  IInv'
  BY <1>1, <1>5, RecordAttemptInv, AcknowledgeInv, ResumeRecoveredInv DEF Submission
<1>6. ASSUME NEW view \in ChainViews, ApplySync(view)
      PROVE  IInv'
  BY <1>1, <1>6, ApplySyncInv
<1> QED
  BY <1>1, <1>2, <1>3, <1>4, <1>5, <1>6, ExportBackupInv, RestoreBackupInv DEF Next

\* The inductive invariant holds in every reachable state of the store.
THEOREM InvCorrect == Spec => []IInv
BY InitInv, InvStep, PTL DEF Spec

\* Two approvals that can still be signed or sent never spend the same coin.
THEOREM NoDoubleReservation == Spec => []LiveDraftsDisjoint
<1>1. IInv => LiveDraftsDisjoint
  BY InputsFacts DEF IInv, LiveDraftsDisjoint, ReservationsMatchLiveDrafts
<1> QED
  BY <1>1, InvCorrect, PTL

\* No reservation outlives its draft and no live draft loses one.
THEOREM ReservationsSound == Spec => []ReservationsMatchLiveDrafts
<1>1. IInv => ReservationsMatchLiveDrafts
  BY DEF IInv
<1> QED
  BY <1>1, InvCorrect, PTL

\* Live approvals always spend unspent mature coins of the current chain view.
THEOREM LiveDraftsAlwaysStand == Spec => []LiveDraftsStand
<1>1. IInv => LiveDraftsStand
  BY DEF IInv
<1> QED
  BY <1>1, InvCorrect, PTL

\* The corrupt-state branches around final bytes are unreachable.
THEOREM FinalBytesAlwaysStand == Spec => []FinalBytesStand
<1>1. IInv => FinalBytesStand
  BY DEF IInv
<1> QED
  BY <1>1, InvCorrect, PTL

\* The coins of a suspended submission are never reused by a new approval.
THEOREM HeldCoinsSafe == Spec => [](RecoveredHoldsInputs /\ HeldCoinsNotReused)
<1>1. IInv => RecoveredHoldsInputs /\ HeldCoinsNotReused
  BY DEF IInv
<1> QED
  BY <1>1, InvCorrect, PTL

-----------------------------------------------------------------------------
(* What a step may never do *)

\* Only resume_recovered_submission makes an ended draft live.
LEMMA RevivedStep ==
  ASSUME IInv, [Next]_vars PROVE RevivedByResume
<1> SUFFICES ASSUME NEW d \in DraftIds, state[d] \in {"observed", "invalidated"},
                    state'[d] \in LiveStates
             PROVE  /\ d \in recovered \ recovered'
                    /\ state'[d] = "finalized"
                    /\ bytes'[d] = bytes[d] /\ sigs'[d] = sigs[d]
  BY DEF RevivedByResume
<1> USE DEF IInv, TypeOK, LiveStates, DraftStates, Live
<1>1. ASSUME NEW e \in DraftIds, NEW expected, ResumeRecovered(e, expected)
      PROVE  /\ d \in recovered \ recovered'
             /\ state'[d] = "finalized"
             /\ bytes'[d] = bytes[d] /\ sigs'[d] = sigs[d]
  BY <1>1 DEF ResumeRecovered
<1>2. ASSUME Metadata \/ ExportBackup \/ UNCHANGED vars PROVE FALSE
  BY <1>2 DEF Metadata, SetLabel, EditCoins, ImportLabels, ExportBackup, vars, draftTables
<1>3. ASSUME NEW e \in DraftIds, Approval(e) PROVE FALSE
  <2>1. CASE CreateDraft(e) \/ DiscardDraft(e)
    BY <2>1, NoneAssumption DEF CreateDraft, DiscardDraft
  <2>2. CASE \E response \in SUBSET (Inputs[e] \X Keys) : AcceptSigned(e, response)
    BY <2>2, NoneAssumption DEF AcceptSigned, Eligible
  <2>3. CASE FinalizeDraft(e)
    BY <2>3, NoneAssumption DEF FinalizeDraft, Eligible
  <2> QED
    BY <1>3, <2>1, <2>2, <2>3, Zenon DEF Approval
<1>4. ASSUME NEW e \in DraftIds,
             \/ \E expected, retry : RecordAttempt(e, expected, retry)
             \/ \E i : Acknowledge(e, i)
      PROVE  FALSE
  BY <1>4 DEF RecordAttempt, Acknowledge
<1>5. ASSUME NEW view \in ChainViews, ApplySync(view) PROVE FALSE
  BY <1>5 DEF ApplySync, StateAfter
<1>6. ASSUME RestoreBackup PROVE FALSE
  BY <1>6, NoneAssumption DEF RestoreBackup, Suspend
<1> QED
  BY <1>1, <1>2, <1>3, <1>4, <1>5, <1>6 DEF Next, Submission

\* No ended approval is revived except by resuming a recovered submission.
THEOREM ApprovalsNeverRevived == Spec => NeverRevived
<1>1. IInv /\ [Next]_vars => [RevivedByResume]_vars
  BY RevivedStep
<1> QED
  BY <1>1, InvCorrect, PTL DEF Spec, NeverRevived

\* No transaction but a restore takes a submission or its bytes away.
LEMMA KeptStep ==
  ASSUME IInv, [Next]_vars PROVE SubmissionsKept
<1> SUFFICES ASSUME ~RestoreBackup, NEW d \in DraftIds, Submitted(d)
             PROVE  /\ Len(attempts[d]) <= Len(attempts'[d])
                    /\ \A i \in DOMAIN attempts[d] : attempts[d][i] => attempts'[d][i]
                    /\ bytes'[d] = bytes[d] /\ sigs'[d] = sigs[d]
  BY DEF SubmissionsKept
<1> USE DEF IInv, TypeOK, draftTables
<1>0. attempts[d] \in Seq(BOOLEAN)
  OBVIOUS
<1>1. ASSUME NEW e \in DraftIds, NEW response, AcceptSigned(e, response)
      PROVE  UNCHANGED attempts /\ bytes'[d] = bytes[d] /\ sigs'[d] = sigs[d]
  <2>1. e # d
    BY <1>1 DEF AcceptSigned, Eligible, Live, LiveStates, SubmissionsHaveBytes
  <2> QED
    BY <1>1, <2>1 DEF AcceptSigned
<1>2. ASSUME NEW e \in DraftIds, FinalizeDraft(e) \/ DiscardDraft(e)
      PROVE  UNCHANGED attempts /\ bytes'[d] = bytes[d] /\ sigs'[d] = sigs[d]
  <2>1. e # d
    BY <1>2 DEF FinalizeDraft, DiscardDraft, SubmissionsHaveBytes
  <2> QED
    BY <1>2, <2>1 DEF FinalizeDraft, DiscardDraft
<1>3. ASSUME NEW e \in DraftIds, NEW expected, NEW retry, RecordAttempt(e, expected, retry)
      PROVE  /\ Len(attempts[d]) <= Len(attempts'[d])
             /\ \A i \in DOMAIN attempts[d] : attempts[d][i] => attempts'[d][i]
             /\ bytes'[d] = bytes[d] /\ sigs'[d] = sigs[d]
  <2>1. attempts'[d] = attempts[d] \/ attempts'[d] = Append(attempts[d], FALSE)
    BY <1>3 DEF RecordAttempt
  <2> QED
    BY <1>0, <1>3, <2>1 DEF RecordAttempt
<1>4. ASSUME NEW e \in DraftIds, NEW i, Acknowledge(e, i)
      PROVE  /\ Len(attempts[d]) <= Len(attempts'[d])
             /\ \A j \in DOMAIN attempts[d] : attempts[d][j] => attempts'[d][j]
             /\ bytes'[d] = bytes[d] /\ sigs'[d] = sigs[d]
  <2>1. attempts'[d] = attempts[d] \/ attempts'[d] = [attempts[d] EXCEPT ![i] = TRUE]
    BY <1>4 DEF Acknowledge
  <2> QED
    BY <1>0, <1>4, <2>1 DEF Acknowledge
<1>5. ASSUME \/ Metadata
             \/ \E e \in DraftIds : CreateDraft(e) \/ \E expected : ResumeRecovered(e, expected)
             \/ \E view \in ChainViews : ApplySync(view)
             \/ ExportBackup
             \/ UNCHANGED vars
      PROVE  UNCHANGED <<attempts, bytes, sigs>>
  BY <1>5 DEF Metadata, SetLabel, EditCoins, ImportLabels, CreateDraft, ResumeRecovered, ApplySync, ExportBackup, vars
<1> QED
  BY <1>0, <1>1, <1>2, <1>3, <1>4, <1>5 DEF Next, Approval, Submission

\* In one store no submission record, acknowledgement or sent byte is lost.
THEOREM SubmissionsNeverLost == Spec => SubmissionsIndelible
<1>1. IInv /\ [Next]_vars => [SubmissionsKept]_vars
  BY KeptStep
<1> QED
  BY <1>1, InvCorrect, PTL DEF Spec, SubmissionsIndelible

\* Only observation and resume release the coins of a submission.
LEMMA SettledStep ==
  ASSUME IInv, [Next]_vars PROVE HoldsSettled
<1> SUFFICES ASSUME ~RestoreBackup, NEW d \in recovered \ recovered'
             PROVE  \/ d \in seen' /\ state'[d] = "observed"
                    \/ \A c \in Inputs[d] : reservations'[c] = d
  BY DEF HoldsSettled
<1>0. d \in DraftIds /\ Submitted(d)
  BY DEF IInv, TypeOK, RecoveredHoldsInputs
<1>1. ASSUME NEW e \in DraftIds, NEW expected, ResumeRecovered(e, expected)
      PROVE  \A c \in Inputs[d] : reservations'[c] = d
  <2>1. d = e
    BY <1>1 DEF ResumeRecovered
  <2> QED
    BY <1>0, <1>1, <2>1, InputsFacts DEF ResumeRecovered, Grant
<1>2. ASSUME NEW view \in ChainViews, ApplySync(view)
      PROVE  d \in seen' /\ state'[d] = "observed"
  BY <1>0, <1>2 DEF ApplySync, StateAfter, ObservedIn
<1>3. ASSUME NEW e \in DraftIds, DiscardDraft(e) PROVE FALSE
  BY <1>0, <1>3 DEF DiscardDraft
<1>4. ASSUME \/ Metadata
             \/ \E e \in DraftIds : \/ CreateDraft(e) \/ FinalizeDraft(e)
                                    \/ \E response : AcceptSigned(e, response)
                                    \/ \E expected, retry : RecordAttempt(e, expected, retry)
                                    \/ \E i : Acknowledge(e, i)
             \/ ExportBackup
             \/ UNCHANGED vars
      PROVE  FALSE
  BY <1>4 DEF Metadata, SetLabel, EditCoins, ImportLabels, CreateDraft, FinalizeDraft, AcceptSigned, RecordAttempt,
     Acknowledge, ExportBackup, vars, recoveryTables
<1> QED
  BY <1>1, <1>2, <1>3, <1>4 DEF Next, Approval, Submission

\* Coins of a suspended submission stay locked until it is settled.
THEOREM HoldsKeptUntilSettled == Spec => HeldUntilSettled
<1>1. IInv /\ [Next]_vars => [HoldsSettled]_vars
  BY SettledStep
<1> QED
  BY <1>1, InvCorrect, PTL DEF Spec, HeldUntilSettled

\* apply_observed_labels only fills labels that are missing, of drafts whose
\* labels it has not applied before.
LEMMA LabelsStep ==
  ASSUME TypeOK, NEW view \in ChainViews, ApplySync(view), NEW r \in References, labels'[r] # labels[r]
  PROVE  labels[r] = None /\ \E d \in applied' \ applied : r = d \/ r \in Outputs[d]
<1> DEFINE newly    == ObservedIn(view) \ applied
           approved == {d \in newly : DraftLabel[d] # "" /\ (r = d \/ r \in Outputs[d])}
<1>1. labels'[r] = ObservedLabels(newly)[r] /\ applied' = applied \cup ObservedIn(view)
  BY DEF ApplySync
<1>2. ObservedLabels(newly)[r] = IF labels[r] # None \/ approved = {} THEN labels[r]
                                 ELSE DraftLabel[CHOOSE d \in approved : TRUE]
  BY DEF ObservedLabels
<1>3. labels[r] = None /\ approved # {}
  BY <1>1, <1>2
<1>4. PICK d \in newly : r = d \/ r \in Outputs[d]
  BY <1>3
<1> QED
  BY <1>1, <1>3, <1>4

\* A scan leaves the labels of the user alone (apply_observed_labels).
THEOREM LabelsAlwaysAppliedOnce == Spec => LabelsAppliedOnce
<1>1. IInv /\ [Next]_vars => [LabelsOnce]_vars
  BY LabelsStep DEF LabelsOnce, IInv
<1> QED
  BY <1>1, InvCorrect, PTL DEF Spec, LabelsAppliedOnce

\* Labels are applied for submitted drafts, in the store and in its backup.
AppliedInv ==
  /\ \A d \in applied : Submitted(d)
  /\ backup # None => \A d \in backup.applied : backup.attempts[d] # <<>>

LEMMA AppliedStep ==
  ASSUME IInv, AppliedInv, [Next]_vars
  PROVE  AppliedInv' /\ (~RestoreBackup => applied \subseteq applied')
<1> USE DEF AppliedInv
<1>0. TypeOK /\ applied \subseteq DraftIds
  BY DEF IInv, TypeOK
<1>1. CASE RestoreBackup
  <2>1. backup # None /\ applied' = backup.applied /\ attempts' = backup.attempts /\ backup' = backup
    BY <1>1 DEF RestoreBackup, RestoredAttempts
  <2> QED
    BY <1>1, <2>1 DEF Submitted
<1>2. ASSUME ~RestoreBackup, NEW d \in DraftIds, Submitted(d) PROVE (Submitted(d))'
  <2>1. Len(attempts[d]) <= Len(attempts'[d]) /\ attempts'[d] \in Seq(BOOLEAN)
    BY <1>2, KeptStep, TypeStep DEF SubmissionsKept, IInv, TypeOK
  <2>2. attempts[d] \in Seq(BOOLEAN)
    BY <1>0 DEF TypeOK
  <2> QED
    BY <1>2, <2>1, <2>2 DEF Submitted
<1>3. ASSUME ~RestoreBackup, UNCHANGED <<applied, backup>>
      PROVE  AppliedInv' /\ applied \subseteq applied'
  BY <1>0, <1>2, <1>3
<1>4. ASSUME NEW view \in ChainViews, ApplySync(view), ~RestoreBackup
      PROVE  AppliedInv' /\ applied \subseteq applied'
  <2>1. applied' = applied \cup ObservedIn(view) /\ backup' = backup
    BY <1>4 DEF ApplySync
  <2>2. \A d \in ObservedIn(view) : d \in DraftIds /\ Submitted(d)
    BY DEF ObservedIn, ChainViews
  <2> QED
    BY <1>0, <1>2, <1>4, <2>1, <2>2
<1>5. ASSUME NEW d \in DraftIds, DiscardDraft(d), ~RestoreBackup
      PROVE  AppliedInv' /\ applied \subseteq applied'
  <2>1. applied' = applied /\ backup' = backup
    BY <1>5 DEF DiscardDraft
  <2> QED
    BY <1>3, <1>5, <2>1
<1>6. CASE ExportBackup
  <2>1. /\ backup'.applied = applied /\ backup'.attempts = attempts
        /\ UNCHANGED <<applied, attempts>>
    BY <1>6 DEF ExportBackup, metadata, draftTables
  <2> QED
    BY <1>1, <1>6, <2>1 DEF Submitted
<1>7. ASSUME ~RestoreBackup,
             \/ Metadata
             \/ \E d \in DraftIds : \/ CreateDraft(d) \/ FinalizeDraft(d)
                                    \/ \E response : AcceptSigned(d, response)
                                    \/ \E expected, retry : RecordAttempt(d, expected, retry)
                                    \/ \E i : Acknowledge(d, i)
                                    \/ \E expected : ResumeRecovered(d, expected)
             \/ UNCHANGED vars
      PROVE  AppliedInv' /\ applied \subseteq applied'
  <2>1. UNCHANGED <<applied, backup>>
    BY <1>7 DEF Metadata, SetLabel, EditCoins, ImportLabels, CreateDraft, FinalizeDraft, AcceptSigned,
       RecordAttempt, Acknowledge, ResumeRecovered, vars, metadata
  <2> QED
    BY <1>3, <1>7, <2>1
<1> QED
  BY <1>1, <1>4, <1>5, <1>6, <1>7 DEF Next, Approval, Submission

\* Only a restore forgets that labels were applied: discard_draft, which deletes
\* the row in draft_label_applications, refuses every draft that has one.  So
\* the labels of an approval are applied at most once in the life of a store.
THEOREM AppliedNeverForgotten == Spec => [][~RestoreBackup => applied \subseteq applied']_vars
<1>1. Init => AppliedInv
  BY DEF Init, AppliedInv
<1>2. IInv /\ AppliedInv /\ [Next]_vars =>
        AppliedInv' /\ [~RestoreBackup => applied \subseteq applied']_vars
  BY AppliedStep
<1> QED
  BY <1>1, <1>2, InvCorrect, PTL DEF Spec

-----------------------------------------------------------------------------
(* The store implements CoinLocks *)

Holders == [c \in Coins |-> {d \in DraftIds : <<c, d>> \in holds}]

LEMMA LocksInit == Init => Locks!Init
BY DEF Init, Locks!Init

\* What ends some drafts, and settles some of them, is an End of the locks.
LEMMA LocksEnd ==
  ASSUME IInv, NEW ended \in SUBSET DraftIds, NEW settled \in SUBSET ended,
         reservations' = [c \in Coins |-> IF reservations[c] \in ended THEN None ELSE reservations[c]],
         holds' = {h \in holds : h[2] \notin settled}
  PROVE  Locks!Next
<1>1. Holders' = [c \in Coins |-> Holders[c] \ settled]
  BY DEF Holders
<1>2. Locks!End(ended, settled)
  BY <1>1 DEF Locks!End, Holders
<1> QED BY <1>2, Zenon DEF Locks!Next

\* Each step of the store is a step of the locks or leaves them alone.
LEMMA LocksStep ==
  ASSUME IInv, [Next]_vars
  PROVE  [Locks!Next]_<<reservations, Holders>>
<1> DEFINE Step == [Locks!Next]_<<reservations, Holders>>
<1>1. ASSUME UNCHANGED <<reservations, holds>> PROVE Step
  BY <1>1 DEF Holders
<1>2. ASSUME NEW d \in DraftIds, CreateDraft(d) PROVE Step
  <2>1. \A c \in Inputs[d] : reservations[c] = None /\ Holders[c] = {}
    BY <1>2, InputsFacts DEF CreateDraft, Available, Held, Holders
  <2>2. Locks!Acquire(d)
    BY <1>2, <2>1, InputsFacts DEF CreateDraft, Locks!Acquire, Locks!Owned, Holders, recoveryTables
  <2> QED BY <2>2, Zenon DEF Locks!Next
<1>3. ASSUME NEW d \in DraftIds, DiscardDraft(d) PROVE Step
  <2>1. reservations' = [c \in Coins |-> IF reservations[c] \in {d} THEN None ELSE reservations[c]]
    BY <1>3 DEF DiscardDraft
  <2>2. holds' = {h \in holds : h[2] \notin {d}}
    BY <1>3 DEF DiscardDraft
  <2>3. {d} \in SUBSET DraftIds /\ {d} \in SUBSET {d}
    OBVIOUS
  <2> QED BY <2>1, <2>2, <2>3, LocksEnd
<1>4. ASSUME NEW view \in ChainViews, ApplySync(view) PROVE Step
  <2>1. /\ ObservedIn(view) \subseteq DraftIds /\ LostIn(view) \subseteq DraftIds
    BY DEF ObservedIn, LostIn, ChainViews
  <2> QED BY <1>4, <2>1, LocksEnd DEF ApplySync
<1>5. ASSUME RestoreBackup PROVE Step
  <2>1. PICK payments \in SUBSET DraftIds : payments = {d \in DraftIds : RestoredAttempts[d] # <<>>}
    OBVIOUS
  <2>2. Holders' = [c \in Coins |-> {d \in payments : c \in Inputs[d]}]
    BY <1>5, <2>1 DEF RestoreBackup, HoldsOf, Holders
  <2>3. reservations' = [c \in Coins |-> None]
    BY <1>5 DEF RestoreBackup
  <2>4. Locks!Suspend(payments)
    BY <2>2, <2>3 DEF Locks!Suspend, Holders
  <2> QED BY <2>4, Zenon DEF Locks!Next
<1>6. ASSUME NEW d \in DraftIds, NEW expected, ResumeRecovered(d, expected) PROVE Step
  <2>1. ~Live(d)
    BY <1>6 DEF ResumeRecovered, Live, LiveStates
  <2>2. \A c \in Inputs[d] : reservations[c] = None /\ d \in Holders[c]
    <3> SUFFICES ASSUME NEW c \in Inputs[d] PROVE reservations[c] = None /\ d \in Holders[c]
      OBVIOUS
    <3>1. c \in Coins /\ reservations[c] # d
      BY <2>1, InputsFacts DEF IInv, ReservationsMatchLiveDrafts
    <3>2. reservations[c] = None
      BY <1>6, <3>1 DEF ResumeRecovered, Grant
    <3>3. <<c, d>> \in holds
      BY <1>6, <3>1 DEF ResumeRecovered, IInv, RecoveredHoldsInputs
    <3> QED BY <3>1, <3>2, <3>3 DEF Holders
  <2>3. reservations' = [c \in Coins |-> IF c \in Inputs[d] THEN d ELSE reservations[c]]
    BY <1>6, <2>2 DEF ResumeRecovered, Grant
  <2>4. Holders' = [c \in Coins |-> Holders[c] \ {d}]
    BY <1>6 DEF ResumeRecovered, Holders
  <2>5. Locks!Resume(d)
    BY <2>2, <2>3, <2>4 DEF Locks!Resume, Locks!Owned, Holders
  <2> QED BY <2>5, Zenon DEF Locks!Next
<1>7. ASSUME \/ UNCHANGED vars \/ Metadata \/ ExportBackup PROVE Step
  BY <1>1, <1>7 DEF vars, Metadata, SetLabel, EditCoins, ImportLabels, ExportBackup, draftTables, recoveryTables
<1>8. ASSUME NEW d \in DraftIds, NEW response, AcceptSigned(d, response) PROVE Step
  BY <1>1, <1>8 DEF AcceptSigned, recoveryTables
<1>9. ASSUME NEW d \in DraftIds, FinalizeDraft(d) PROVE Step
  BY <1>1, <1>9 DEF FinalizeDraft, recoveryTables
<1>10. ASSUME NEW d \in DraftIds, NEW expected, NEW retry, RecordAttempt(d, expected, retry) PROVE Step
  BY <1>1, <1>10 DEF RecordAttempt, recoveryTables
<1>11. ASSUME NEW d \in DraftIds, NEW i, Acknowledge(d, i) PROVE Step
  BY <1>1, <1>11 DEF Acknowledge, recoveryTables
<1>12. ASSUME NEW d \in DraftIds, Approval(d) PROVE Step
  BY <1>2, <1>3, <1>8, <1>9, <1>12 DEF Approval
<1>13. ASSUME NEW d \in DraftIds, Submission(d) PROVE Step
  BY <1>6, <1>10, <1>11, <1>13 DEF Submission
<1> QED
  BY <1>4, <1>5, <1>7, <1>12, <1>13 DEF Next

\* The tables of the store act as one lock per coin, whatever coins, drafts and
\* backups there are (create_draft, resume_recovered_submission).
THEOREM CoinsAlwaysLocked == Spec => CoinsLocked
<1>1. Init => Locks!Init
  BY LocksInit
<1>2. IInv /\ [Next]_vars => [Locks!Next]_<<reservations, Holders>>
  BY LocksStep
<1> QED BY <1>1, <1>2, InvCorrect, PTL DEF Spec, CoinsLocked, Locks!Spec, Holders

\* A backup taken at any moment has all a restore and a resume will ask of it
\* (export_snapshot).
THEOREM BackupAlwaysRestorable == Spec => []BackupRestorable
<1>1. IInv => BackupRestorable
  BY DEF IInv
<1> QED
  BY <1>1, InvCorrect, PTL
=============================================================================
