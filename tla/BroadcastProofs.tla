--------------------------- MODULE BroadcastProofs ---------------------------
(***************************************************************************)
(* Broadcasting for any number of callers, drafts, keys and backups.  The  *)
(* inductive invariant CallsInv adds to the four invariants of Broadcast   *)
(* what they rest on: a call that posted has its request on the wire, only *)
(* the first attempt of a draft goes out without an acknowledged retry,    *)
(* and the rows of the last backup, which a restore makes the store's,     *)
(* agree with the wire as the store's own rows do.                         *)
(***************************************************************************)
EXTENDS Broadcast, WalletStoreProofs

RequestOf(p) == [draft |-> job[p].draft, row |-> job[p].row, retry |-> job[p].retry,
                 bytes |-> job[p].approved]

WireInv ==
  /\ \A d \in DraftIds : Len(attempts[d]) <= MaxAttempts
  /\ \A m \in sent : m.retry \/ m.row = 1
  /\ \A p \in Clients : InFlight(p) => job[p].retry \/ job[p].row = 1
  /\ \A p \in Clients : pc[p] \in {"posted", "answered"} => RequestOf(p) \in sent

BackupInv ==
  backup # None =>
    /\ \A d \in DraftIds : Len(backup.attempts[d]) <= Len(attempts[d])
    /\ \A m \in sent :
         m.row <= Len(backup.attempts[m.draft]) => m.bytes = backup.bytes[m.draft]
    /\ \A p \in Clients :
         InFlight(p) /\ job[p].row <= Len(backup.attempts[job[p].draft]) =>
           job[p].approved = backup.bytes[job[p].draft]
    /\ \A d \in DraftIds : \A i \in 1 .. Len(backup.attempts[d]) :
         backup.attempts[d][i] => \E m \in sent : m.draft = d /\ m.row = i

CallsInv ==
  CallsOK /\ SentIsRecorded /\ OwnAttempt /\ AcknowledgedWasSent /\ WireInv /\ BackupInv

-----------------------------------------------------------------------------
(* A broadcast uses the store only through its operations *)

\* A call that has not ended has a request of the right shape.
LEMMA JobType ==
  ASSUME CallsOK, NEW p \in Clients, pc[p] \notin {"idle", "ended"}
  PROVE  job[p] \in Jobs
BY DEF CallsOK

LEMMA StoreSteps ==
  ASSUME IInv, CallsOK, WireInv, [BroadcastNext]_bvars
  PROVE  [Next]_vars
<1>1. ASSUME StoreStep PROVE Next
  BY <1>1, Zenon DEF StoreStep, Next, Submission
<1>2. ASSUME Restore PROVE Next
  BY <1>2 DEF Restore, Next
<1>3. ASSUME NEW p \in Clients, Record(p) PROVE Next
  <2>1. job[p] \in Jobs
    BY <1>3, JobType DEF Record, Enter
  <2>2. /\ RecordAttempt(job[p].draft, job[p].expected, job[p].retry)
        /\ job[p].expected = Len(attempts[job[p].draft])
    BY <1>3 DEF Record, RecordAttempt, PreviousChecked
  <2>3. /\ job[p].draft \in DraftIds /\ job[p].expected \in 0 .. MaxAttempts
        /\ job[p].retry \in BOOLEAN
    BY <2>1, <2>2, AttemptAssumption DEF Jobs, WireInv
  <2>4. PICK d \in DraftIds, expected \in 0 .. MaxAttempts, retry \in BOOLEAN :
          d = job[p].draft /\ expected = job[p].expected /\ retry = job[p].retry
    BY <2>3
  <2>5. RecordAttempt(d, expected, retry)
    BY <2>2, <2>4 DEF RecordAttempt
  <2> QED BY <2>5, Zenon DEF Next, Submission
<1>4. ASSUME NEW p \in Clients, AcknowledgeOwn(p) PROVE Next
  <2>1. job[p] \in Jobs
    BY <1>4, JobType DEF AcknowledgeOwn, Enter
  <2>2. Acknowledge(job[p].draft, job[p].row)
    BY <1>4 DEF AcknowledgeOwn
  <2>3. job[p].draft \in DraftIds /\ job[p].row \in 1 .. MaxAttempts
    BY <2>1, <2>2, AttemptAssumption DEF Jobs, WireInv, IInv, TypeOK, Acknowledge
  <2>4. PICK d \in DraftIds, i \in 1 .. MaxAttempts : d = job[p].draft /\ i = job[p].row
    BY <2>3
  <2>5. Acknowledge(d, i)
    BY <2>2, <2>4 DEF Acknowledge
  <2> QED BY <2>5, Zenon DEF Next, Submission
<1>5. ASSUME NEW p \in Clients, NEW d \in DraftIds, NEW expected \in 0 .. MaxAttempts,
             NEW retry \in BOOLEAN, Begin(p, d, expected, retry)
      PROVE  UNCHANGED vars
  BY <1>5 DEF Begin
<1>6. ASSUME Crash \/ \E p \in Clients : Refuse(p) \/ Post(p) \/ TimeOut(p) \/ ReadStatus(p) \/ Endpoint(p)
      PROVE  UNCHANGED vars
  BY <1>6 DEF Crash, Refuse, Post, TimeOut, ReadStatus, Endpoint, Preflight, GiveUp, Answer, NoAnswer
<1>7. CASE UNCHANGED bvars
  BY <1>7 DEF bvars
<1> QED
  BY <1>1, <1>2, <1>3, <1>4, <1>5, <1>6, <1>7, Zenon DEF BroadcastNext, Call

-----------------------------------------------------------------------------
(* The inductive invariant *)

LEMMA InitCalls == BroadcastInit => IInv /\ CallsInv
<1> SUFFICES ASSUME BroadcastInit PROVE IInv /\ CallsInv
  OBVIOUS
<1>1. IInv
  BY InitInv DEF BroadcastInit
<1>2. CallsOK /\ SentIsRecorded /\ OwnAttempt
  BY DEF BroadcastInit, CallsOK, CallStates, SentIsRecorded, OwnAttempt, InFlight
<1>3. AcknowledgedWasSent /\ WireInv /\ BackupInv
  BY AttemptAssumption DEF BroadcastInit, Init, AcknowledgedWasSent, WireInv, BackupInv, InFlight
<1> QED
  BY <1>1, <1>2, <1>3 DEF CallsInv

\* Steps of the store that neither add attempts nor touch sent bytes.
LEMMA QuietStep ==
  ASSUME IInv, CallsInv, UNCHANGED <<calls, attempts, backup>>,
         \A d \in DraftIds : Submitted(d) => bytes'[d] = bytes[d]
  PROVE  CallsInv'
<1> USE DEF CallsInv, calls
<1>1. CallsOK' /\ AcknowledgedWasSent' /\ WireInv' /\ BackupInv'
  BY DEF CallsOK, AcknowledgedWasSent, WireInv, BackupInv, InFlight, RequestOf
<1>2. SentIsRecorded'
  <2> SUFFICES ASSUME NEW m \in sent
               PROVE  m.row \in DOMAIN attempts[m.draft] /\ m.bytes = bytes'[m.draft]
    BY DEF SentIsRecorded
  <2>1. m.draft \in DraftIds /\ m.row \in DOMAIN attempts[m.draft] /\ m.bytes = bytes[m.draft]
    BY DEF SentIsRecorded, CallsOK, Requests
  <2>2. attempts[m.draft] # <<>>
    BY <2>1
  <2> QED BY <2>1, <2>2 DEF Submitted
<1>3. OwnAttempt'
  <2> SUFFICES ASSUME NEW p \in Clients, InFlight(p)
               PROVE  bytes'[job[p].draft] = job[p].approved
    BY DEF OwnAttempt, InFlight
  <2>1. job[p].draft \in DraftIds
    BY JobType DEF InFlight, Jobs
  <2>2. job[p].row \in DOMAIN attempts[job[p].draft] /\ bytes[job[p].draft] = job[p].approved
    BY DEF OwnAttempt
  <2>3. attempts[job[p].draft] # <<>>
    BY <2>2
  <2> QED BY <2>1, <2>2, <2>3 DEF Submitted
<1> QED
  BY <1>1, <1>2, <1>3

LEMMA StoreStepCalls == ASSUME IInv, CallsInv, StoreStep PROVE CallsInv'
<1>1. UNCHANGED calls
  BY DEF StoreStep
<1>2. ASSUME \/ Metadata
             \/ \E view \in ChainViews : ApplySync(view)
             \/ \E d \in DraftIds : \/ CreateDraft(d)
                                    \/ \E response : AcceptSigned(d, response)
                                    \/ \E expected : ResumeRecovered(d, expected)
      PROVE  UNCHANGED <<attempts, bytes, backup>>
  BY <1>2 DEF Metadata, SetLabel, EditCoins, ImportLabels, ApplySync, CreateDraft, AcceptSigned,
              ResumeRecovered, draftTables
<1>3. ASSUME NEW e \in DraftIds, FinalizeDraft(e) \/ DiscardDraft(e)
      PROVE  CallsInv'
  <2>1. ~Submitted(e) /\ UNCHANGED <<attempts, backup>>
    BY <1>3 DEF FinalizeDraft, DiscardDraft, IInv, SubmissionsHaveBytes
  <2>2. \A d \in DraftIds : d # e => bytes'[d] = bytes[d]
    BY <1>3 DEF FinalizeDraft, DiscardDraft, IInv, TypeOK
  <2> QED BY <1>1, <2>1, <2>2, QuietStep
<1>4. ASSUME ExportBackup PROVE CallsInv'
  <2>1. UNCHANGED <<attempts, bytes, calls>> /\ backup'.attempts = attempts /\ backup'.bytes = bytes
    BY <1>1, <1>4 DEF ExportBackup, draftTables
  <2>2. CallsOK' /\ SentIsRecorded' /\ OwnAttempt' /\ AcknowledgedWasSent' /\ WireInv'
    BY <2>1 DEF calls, CallsInv, CallsOK, SentIsRecorded, OwnAttempt, AcknowledgedWasSent, WireInv,
                InFlight, RequestOf
  <2>3. BackupInv'
    <3>1. attempts \in [DraftIds -> Seq(BOOLEAN)]
      BY DEF IInv, TypeOK
    <3>2. \A m \in sent : m.draft \in DraftIds /\ m.bytes = bytes[m.draft]
      BY DEF CallsInv, CallsOK, Requests, SentIsRecorded
    <3>3. \A p \in Clients : InFlight(p) => job[p].approved = bytes[job[p].draft]
      BY DEF CallsInv, OwnAttempt
    <3>4. \A d \in DraftIds : \A i \in 1 .. Len(attempts[d]) :
            attempts[d][i] => \E m \in sent : m.draft = d /\ m.row = i
      BY <3>1 DEF CallsInv, AcknowledgedWasSent
    <3> QED BY <2>1, <3>1, <3>2, <3>3, <3>4 DEF BackupInv, calls, InFlight
  <2> QED BY <2>2, <2>3 DEF CallsInv
<1>5. ASSUME UNCHANGED <<attempts, bytes, backup>> PROVE CallsInv'
  BY <1>1, <1>5, QuietStep
<1>6. ASSUME NEW d \in DraftIds, Approval(d) PROVE CallsInv'
  BY <1>2, <1>3, <1>5, <1>6 DEF Approval
<1> QED
  BY <1>2, <1>4, <1>5, <1>6 DEF StoreStep

\* A restore waits for the calls to end; the requests it keeps are those the
\* backup knows, and BackupInv is what the restored rows say of them.
LEMMA RestoreCalls == ASSUME IInv, CallsInv, Restore PROVE CallsInv'
<1>1. /\ backup \in Snapshots /\ backup # None
      /\ UNCHANGED <<backup, pc, job, holding>> /\ \A p \in Clients : pc[p] = "idle"
      /\ attempts' = backup.attempts /\ bytes' = backup.bytes
      /\ sent' = {m \in sent : m.row <= Len(backup.attempts[m.draft])}
  BY DEF Restore, RestoreBackup, RestoredAttempts, IInv, TypeOK
<1>2. backup.attempts \in [DraftIds -> Seq(BOOLEAN)]
  BY <1>1 DEF Snapshots
<1>3. sent' \subseteq sent /\ sent \subseteq Requests /\ attempts \in [DraftIds -> Seq(BOOLEAN)]
  BY <1>1 DEF CallsInv, CallsOK, IInv, TypeOK
<1>4. CallsOK'
  BY <1>1, <1>3 DEF CallsInv, CallsOK
<1>5. SentIsRecorded'
  <2> SUFFICES ASSUME NEW m \in sent'
               PROVE  m.row \in DOMAIN backup.attempts[m.draft] /\ m.bytes = backup.bytes[m.draft]
    BY <1>1 DEF SentIsRecorded
  <2>1. /\ m \in sent /\ m.draft \in DraftIds /\ m.row \in Nat
        /\ m.row <= Len(backup.attempts[m.draft]) /\ m.row \in DOMAIN attempts[m.draft]
    BY <1>1, <1>3 DEF Requests, CallsInv, SentIsRecorded
  <2>2. m.row >= 1
    BY <1>3, <2>1
  <2> QED BY <1>1, <1>2, <2>1, <2>2 DEF CallsInv, BackupInv
<1>6. OwnAttempt'
  BY <1>1 DEF OwnAttempt, InFlight
<1>7. \A d \in DraftIds : \A i \in 1 .. Len(backup.attempts[d]) :
        backup.attempts[d][i] => \E m \in sent' : m.draft = d /\ m.row = i
  BY <1>1, <1>2 DEF CallsInv, BackupInv
<1>8. AcknowledgedWasSent'
  BY <1>1, <1>2, <1>7 DEF AcknowledgedWasSent
<1>9. WireInv'
  <2>1. \A d \in DraftIds : Len(backup.attempts[d]) <= MaxAttempts
    BY <1>1, <1>2, <1>3, AttemptAssumption DEF CallsInv, BackupInv, WireInv
  <2> QED BY <1>1, <1>3, <2>1 DEF CallsInv, WireInv, InFlight
<1>10. BackupInv'
  BY <1>1, <1>2, <1>3, <1>7 DEF CallsInv, BackupInv, InFlight
<1> QED
  BY <1>4, <1>5, <1>6, <1>8, <1>9, <1>10 DEF CallsInv

\* A call that begins or ends leaves the other calls, the rows and the wire.
LEMMA IdleStep ==
  ASSUME IInv, CallsInv, CallsOK', UNCHANGED <<vars, sent>>,
         NEW p \in Clients, ~InFlight(p)',
         \A q \in Clients \ {p} : pc'[q] = pc[q] /\ job'[q] = job[q]
  PROVE  CallsInv'
<1>1. UNCHANGED <<attempts, bytes, backup, sent>>
  BY DEF vars, draftTables
<1>2. \A q \in Clients : InFlight(q)' => q # p /\ InFlight(q) /\ pc'[q] = pc[q] /\ job'[q] = job[q]
  BY DEF InFlight
<1>3. SentIsRecorded' /\ AcknowledgedWasSent'
  BY <1>1 DEF CallsInv, SentIsRecorded, AcknowledgedWasSent
<1>4. OwnAttempt'
  BY <1>1, <1>2 DEF CallsInv, OwnAttempt
<1>5. WireInv'
  <2>1. \A q \in Clients : pc'[q] \in {"posted", "answered"} => RequestOf(q)' \in sent
    BY <1>2 DEF CallsInv, WireInv, InFlight, RequestOf
  <2> QED BY <1>1, <1>2, <2>1 DEF CallsInv, WireInv
<1>6. BackupInv'
  BY <1>1, <1>2 DEF CallsInv, BackupInv
<1> QED
  BY <1>3, <1>4, <1>5, <1>6 DEF CallsInv

LEMMA BeginCalls ==
  ASSUME IInv, CallsInv, NEW p \in Clients, NEW d \in DraftIds, NEW expected \in 0 .. MaxAttempts,
         NEW retry \in BOOLEAN, Begin(p, d, expected, retry)
  PROVE  CallsInv'
<1> DEFINE j == [draft |-> d, expected |-> expected, retry |-> retry, approved |-> bytes[d], row |-> 0]
<1>1. j \in Jobs /\ j # None
  <2>1. j \in Jobs
    BY AttemptAssumption DEF IInv, TypeOK, Jobs
  <2>2. j # None
    BY <2>1, JobAssumption
  <2> QED BY <2>1, <2>2
<1> HIDE DEF j
<1>2. /\ pc' = [pc EXCEPT ![p] = "preflight"] /\ job' = [job EXCEPT ![p] = j]
      /\ holding' = {} /\ UNCHANGED <<vars, sent>>
  BY DEF Begin, Goto, Exit, j
<1>3. CallsOK'
  BY <1>1, <1>2 DEF CallsInv, CallsOK, CallStates
<1>4. /\ ~InFlight(p)'
      /\ \A q \in Clients \ {p} : pc'[q] = pc[q] /\ job'[q] = job[q]
  BY <1>2 DEF CallsInv, CallsOK, InFlight
<1> QED
  BY <1>2, <1>3, <1>4, IdleStep

LEMMA LeaveCalls ==
  ASSUME IInv, CallsInv, NEW p \in Clients,
         \/ Refuse(p) \/ GiveUp(p) \/ NoAnswer(p) \/ ReadStatus(p)
  PROVE  CallsInv'
<1>1. PICK at \in {"idle", "ended"} : pc' = [pc EXCEPT ![p] = at]
  BY DEF Refuse, GiveUp, NoAnswer, ReadStatus, Leave, Goto
<1>2. job' = [job EXCEPT ![p] = None] /\ holding' = {} /\ UNCHANGED <<vars, sent>>
  BY DEF Refuse, GiveUp, NoAnswer, ReadStatus, Leave, Goto, Forget, Exit, CallsInv, CallsOK
<1>3. CallsOK'
  BY <1>1, <1>2 DEF CallsInv, CallsOK, CallStates
<1>4. /\ ~InFlight(p)'
      /\ \A q \in Clients \ {p} : pc'[q] = pc[q] /\ job'[q] = job[q]
  BY <1>1, <1>2 DEF CallsInv, CallsOK, InFlight
<1> QED
  BY <1>2, <1>3, <1>4, IdleStep

LEMMA PreflightCalls ==
  ASSUME IInv, CallsInv, NEW p \in Clients, Preflight(p)
  PROVE  CallsInv'
<1>1. /\ pc[p] = "preflight" /\ pc' = [pc EXCEPT ![p] = "preflighted"]
      /\ UNCHANGED <<vars, job, holding, sent>>
  BY DEF Preflight, Goto
<1>2. CallsOK'
  BY <1>1 DEF CallsInv, CallsOK, CallStates
<1>3. /\ ~InFlight(p)'
      /\ \A q \in Clients \ {p} : pc'[q] = pc[q] /\ job'[q] = job[q]
  BY <1>1 DEF CallsInv, CallsOK, InFlight
<1> QED
  BY <1>1, <1>2, <1>3, IdleStep

\* The rows and the wire are as they were, and no call has a claim on them.
LEMMA CrashCalls == ASSUME IInv, CallsInv, Crash PROVE CallsInv'
<1>1. /\ \A q \in Clients : pc'[q] = "idle" /\ job'[q] = None
      /\ pc' \in [Clients -> CallStates] /\ job' \in [Clients -> Jobs \cup {None}]
      /\ holding' = {} /\ UNCHANGED <<attempts, bytes, backup, sent>>
  BY DEF Crash, CallStates, vars, draftTables
<1>2. \A q \in Clients : ~InFlight(q)'
  BY <1>1 DEF InFlight
<1>3. CallsOK'
  BY <1>1 DEF CallsInv, CallsOK
<1>4. SentIsRecorded' /\ OwnAttempt' /\ AcknowledgedWasSent'
  BY <1>1, <1>2 DEF CallsInv, SentIsRecorded, OwnAttempt, AcknowledgedWasSent
<1>5. WireInv' /\ BackupInv'
  BY <1>1, <1>2 DEF CallsInv, WireInv, BackupInv
<1> QED
  BY <1>3, <1>4, <1>5 DEF CallsInv

\* The attempt is the newest row, so no call, request or backup has it yet.
LEMMA RecordCalls ==
  ASSUME IInv, CallsInv, NEW p \in Clients, Record(p)
  PROVE  CallsInv'
<1> DEFINE d == job[p].draft
           row == Len(attempts[d]) + 1
<1>1. /\ pc \in [Clients -> CallStates] /\ job \in [Clients -> Jobs \cup {None}]
      /\ sent \subseteq Requests /\ attempts \in [DraftIds -> Seq(BOOLEAN)]
      /\ \A q \in Clients : job[q] = None <=> pc[q] \in {"idle", "ended"}
  BY DEF CallsInv, CallsOK, IInv, TypeOK
<1>2. job[p] \in Jobs /\ d \in DraftIds /\ row \in Nat
  BY <1>1, JobType DEF CallsInv, Record, Enter, Jobs
<1>3. /\ bytes[d] = job[p].approved
      /\ Len(attempts[d]) < MaxAttempts /\ (job[p].retry \/ row = 1)
      /\ UNCHANGED <<bytes, backup, sent>>
      /\ attempts' = [attempts EXCEPT ![d] = Append(attempts[d], FALSE)]
      /\ pc[p] = "preflighted" /\ holding' = {}
      /\ pc' = [pc EXCEPT ![p] = "recorded"] /\ job' = [job EXCEPT ![p].row = row]
  BY <1>1, <1>2 DEF Record, Enter, Exit, Goto, RecordAttempt, PreviousChecked, Submitted
<1> HIDE DEF d, row
<1>4. /\ job'[p] \in Jobs /\ job'[p].row = row /\ job'[p].draft = d
      /\ job'[p].approved = job[p].approved /\ job'[p].retry = job[p].retry
  BY <1>1, <1>2, <1>3 DEF Jobs, d
<1>5. \A q \in Clients \ {p} : pc'[q] = pc[q] /\ job'[q] = job[q]
  BY <1>1, <1>3
<1>6. /\ \A e \in DraftIds : e # d => attempts'[e] = attempts[e]
      /\ Len(attempts'[d]) = row /\ DOMAIN attempts'[d] = 1 .. row /\ attempts'[d][row] = FALSE
      /\ \A i \in 1 .. Len(attempts[d]) : attempts'[d][i] = attempts[d][i]
  BY <1>1, <1>2, <1>3 DEF row
<1>7. CallsOK'
  <2>1. pc' \in [Clients -> CallStates] /\ job' \in [Clients -> Jobs \cup {None}]
    BY <1>1, <1>3, <1>4 DEF CallStates
  <2>2. \A q \in Clients : job'[q] = None <=> pc'[q] \in {"idle", "ended"}
    BY <1>1, <1>3, <1>4, <1>5, JobAssumption
  <2> QED BY <1>1, <1>3, <2>1, <2>2 DEF CallsOK
<1>8. SentIsRecorded'
  <2> SUFFICES ASSUME NEW m \in sent
               PROVE  m.row \in DOMAIN attempts'[m.draft] /\ m.bytes = bytes[m.draft]
    BY <1>3 DEF SentIsRecorded
  <2>1. m.draft \in DraftIds /\ m.row \in DOMAIN attempts[m.draft] /\ m.bytes = bytes[m.draft]
    BY <1>1 DEF CallsInv, SentIsRecorded, Requests
  <2> QED BY <1>1, <1>2, <1>6, <2>1 DEF row
<1>9. \A q \in Clients \ {p} : InFlight(q)' =>
        /\ InFlight(q) /\ job[q].draft \in DraftIds /\ job[q].row \in DOMAIN attempts[job[q].draft]
        /\ bytes[job[q].draft] = job[q].approved
  BY <1>1, <1>5, JobType DEF CallsInv, OwnAttempt, InFlight, Jobs
<1>10. \A q \in Clients \ {p} : InFlight(q)' =>
         /\ job[q].row \in DOMAIN attempts'[job[q].draft]
         /\ job[q].draft = d => job[q].row # row
  <2>1. DOMAIN attempts[d] = 1 .. Len(attempts[d]) /\ Len(attempts[d]) \in Nat
    BY <1>1, <1>2
  <2> QED BY <1>6, <1>9, <2>1 DEF row
<1>11. OwnAttempt'
  <2> SUFFICES ASSUME NEW q \in Clients, InFlight(q)'
               PROVE  /\ job'[q].row \in DOMAIN attempts'[job'[q].draft]
                      /\ bytes'[job'[q].draft] = job'[q].approved
                      /\ \A x \in Clients \ {q} :
                           InFlight(x)' /\ job'[x].draft = job'[q].draft => job'[x].row # job'[q].row
    BY DEF OwnAttempt
  <2>1. CASE q = p
    <3>1. job'[q].row = row /\ job'[q].draft = d /\ bytes'[d] = job'[q].approved
      BY <1>3, <1>4, <2>1
    <3>2. row \in DOMAIN attempts'[d]
      BY <1>1, <1>6 DEF row
    <3>3. \A x \in Clients \ {p} : InFlight(x)' /\ job'[x].draft = d => job'[x].row # row
      BY <1>5, <1>10
    <3> QED BY <2>1, <3>1, <3>2, <3>3
  <2>2. CASE q # p
    <3>1. job'[q] = job[q] /\ InFlight(q)
      BY <1>5, <1>9, <2>2
    <3>2. \A x \in Clients \ {q, p} : InFlight(x)' /\ job[x].draft = job[q].draft => job[x].row # job[q].row
      BY <1>9, <3>1 DEF CallsInv, OwnAttempt
    <3> QED BY <1>3, <1>4, <1>5, <1>9, <1>10, <2>2, <3>1, <3>2
  <2> QED BY <2>1, <2>2
<1>12. AcknowledgedWasSent'
  <2> SUFFICES ASSUME NEW e \in DraftIds, NEW i \in DOMAIN attempts'[e], attempts'[e][i]
               PROVE  \E m \in sent : m.draft = e /\ m.row = i
    BY <1>3 DEF AcknowledgedWasSent
  <2>0. DOMAIN attempts[d] = 1 .. Len(attempts[d]) /\ Len(attempts[d]) \in Nat
    BY <1>1, <1>2
  <2>1. i \in DOMAIN attempts[e] /\ attempts[e][i]
    <3>1. CASE e = d
      <4>1. i \in 1 .. row /\ i # row
        BY <1>6, <3>1
      <4>2. i \in 1 .. Len(attempts[d])
        BY <2>0, <4>1 DEF row
      <4> QED BY <1>6, <2>0, <3>1, <4>2
    <3> QED BY <1>6, <3>1
  <2> QED BY <2>1 DEF CallsInv, AcknowledgedWasSent
<1>13. WireInv'
  <2>1. \A e \in DraftIds : Len(attempts'[e]) <= MaxAttempts
    BY <1>1, <1>2, <1>3, <1>6, AttemptAssumption DEF CallsInv, WireInv, row
  <2>2. \A q \in Clients : InFlight(q)' => job'[q].retry \/ job'[q].row = 1
    BY <1>3, <1>4, <1>5, <1>9 DEF CallsInv, WireInv
  <2>3. \A q \in Clients : pc'[q] \in {"posted", "answered"} => RequestOf(q)' \in sent
    <3> SUFFICES ASSUME NEW q \in Clients, pc'[q] \in {"posted", "answered"}
                 PROVE  RequestOf(q)' \in sent
      OBVIOUS
    <3>1. q # p
      BY <1>1, <1>3
    <3> QED BY <1>5, <3>1 DEF CallsInv, WireInv, RequestOf
  <2> QED BY <1>3, <2>1, <2>2, <2>3 DEF CallsInv, WireInv
<1>14. BackupInv'
  <2> SUFFICES ASSUME backup # None PROVE BackupInv'
    BY <1>3 DEF BackupInv
  <2>0. backup.attempts \in [DraftIds -> Seq(BOOLEAN)]
    BY DEF IInv, TypeOK, Snapshots
  <2>1. \A e \in DraftIds : Len(backup.attempts[e]) <= Len(attempts[e])
    BY DEF CallsInv, BackupInv
  <2>2. \A e \in DraftIds : Len(backup.attempts[e]) <= Len(attempts'[e])
    <3>1. /\ Len(backup.attempts[d]) <= Len(attempts[d])
          /\ Len(attempts[d]) \in Nat /\ Len(backup.attempts[d]) \in Nat
      BY <1>1, <1>2, <2>0, <2>1
    <3>2. Len(backup.attempts[d]) <= Len(attempts'[d])
      BY <1>6, <3>1 DEF row
    <3> QED BY <1>6, <2>1, <3>2
  <2>3. ~(row <= Len(backup.attempts[d]))
    BY <1>1, <1>2, <2>0, <2>1 DEF row
  <2>4. \A q \in Clients : InFlight(q)' /\ job'[q].row <= Len(backup.attempts[job'[q].draft]) =>
                           job'[q].approved = backup.bytes[job'[q].draft]
    BY <1>4, <1>5, <1>9, <2>3 DEF CallsInv, BackupInv
  <2> QED BY <1>3, <2>2, <2>4 DEF CallsInv, BackupInv
<1> QED
  BY <1>7, <1>8, <1>11, <1>12, <1>13, <1>14 DEF CallsInv

\* What is sent is the attempt just recorded, with the bytes of the store.
LEMMA PostCalls ==
  ASSUME IInv, CallsInv, NEW p \in Clients, Post(p)
  PROVE  CallsInv'
<1>1. /\ job[p] \in Jobs /\ InFlight(p)
      /\ pc' = [pc EXCEPT ![p] = "posted"] /\ sent' = sent \cup {RequestOf(p)}
      /\ UNCHANGED <<attempts, bytes, backup, job>>
  BY JobType DEF CallsInv, Post, InFlight, RequestOf, vars, draftTables
<1>2. RequestOf(p) \in Requests
  BY <1>1 DEF RequestOf, Jobs, Requests
<1>3. CallsOK'
  BY <1>1, <1>2 DEF CallsInv, CallsOK, CallStates, Post
<1>4. \A q \in Clients : InFlight(q)' => InFlight(q)
  BY <1>1 DEF CallsInv, CallsOK, InFlight
<1>5. SentIsRecorded'
  BY <1>1 DEF CallsInv, SentIsRecorded, OwnAttempt, RequestOf
<1>6. OwnAttempt' /\ AcknowledgedWasSent'
  BY <1>1, <1>4 DEF CallsInv, OwnAttempt, AcknowledgedWasSent
<1>7. WireInv'
  <2>1. \A q \in Clients : pc'[q] \in {"posted", "answered"} => RequestOf(q)' \in sent'
    BY <1>1 DEF CallsInv, CallsOK, WireInv, RequestOf
  <2> QED BY <1>1, <1>4, <2>1 DEF CallsInv, WireInv, RequestOf
<1>8. BackupInv'
  BY <1>1, <1>4 DEF CallsInv, BackupInv, RequestOf
<1> QED
  BY <1>3, <1>5, <1>6, <1>7, <1>8 DEF CallsInv

LEMMA AnswerCalls ==
  ASSUME IInv, CallsInv, NEW p \in Clients, Answer(p)
  PROVE  CallsInv'
<1>1. /\ pc[p] = "posted" /\ pc' = [pc EXCEPT ![p] = "answered"]
      /\ UNCHANGED <<attempts, bytes, backup, job, sent>>
  BY DEF Answer, Goto, vars, draftTables
<1>2. CallsOK' /\ SentIsRecorded' /\ AcknowledgedWasSent'
  BY <1>1 DEF Answer, CallsInv, CallsOK, CallStates, SentIsRecorded, AcknowledgedWasSent
<1>3. \A q \in Clients : /\ InFlight(q)' => InFlight(q)
                         /\ pc'[q] \in {"posted", "answered"} => pc[q] \in {"posted", "answered"}
  BY <1>1 DEF CallsInv, CallsOK, InFlight
<1>4. OwnAttempt' /\ WireInv' /\ BackupInv'
  BY <1>1, <1>3 DEF CallsInv, OwnAttempt, WireInv, BackupInv, RequestOf
<1> QED
  BY <1>2, <1>4 DEF CallsInv

LEMMA AcknowledgeCalls ==
  ASSUME IInv, CallsInv, NEW p \in Clients, AcknowledgeOwn(p)
  PROVE  CallsInv'
<1> DEFINE d == job[p].draft
           i == job[p].row
<1>1. /\ job[p] \in Jobs /\ d \in DraftIds /\ RequestOf(p) \in sent
      /\ i \in DOMAIN attempts[d] /\ attempts' = [attempts EXCEPT ![d][i] = TRUE]
      /\ UNCHANGED <<bytes, backup, sent>> /\ holding' = {}
      /\ pc' = [pc EXCEPT ![p] = "ended"] /\ job' = [job EXCEPT ![p] = None]
  BY JobType DEF CallsInv, WireInv, AcknowledgeOwn, Acknowledge, Enter, Exit, Goto, Forget, Jobs
<1>2. attempts \in [DraftIds -> Seq(BOOLEAN)]
  BY DEF IInv, TypeOK
<1> HIDE DEF d, i
<1>3. \A e \in DraftIds : /\ Len(attempts'[e]) = Len(attempts[e]) /\ DOMAIN attempts'[e] = DOMAIN attempts[e]
                          /\ \A j \in DOMAIN attempts[e] : attempts'[e][j] =>
                               attempts[e][j] \/ (e = d /\ j = i)
  BY <1>1, <1>2
<1>4. CallsOK'
  BY <1>1 DEF CallsInv, CallsOK, CallStates
<1>5. \A q \in Clients : InFlight(q)' => InFlight(q) /\ pc'[q] = pc[q] /\ job'[q] = job[q]
  BY <1>1 DEF CallsInv, CallsOK, InFlight
<1>6. \A q \in Clients : InFlight(q) => job[q].draft \in DraftIds
  BY JobType DEF CallsInv, InFlight, Jobs
<1>7. SentIsRecorded'
  BY <1>1, <1>3 DEF CallsInv, CallsOK, SentIsRecorded, Requests
<1>8. OwnAttempt'
  BY <1>1, <1>3, <1>5, <1>6 DEF CallsInv, OwnAttempt
<1>9. AcknowledgedWasSent'
  <2>1. RequestOf(p).draft = d /\ RequestOf(p).row = i
    BY DEF RequestOf, d, i
  <2> QED BY <1>1, <1>3, <2>1 DEF CallsInv, AcknowledgedWasSent
<1>10. WireInv'
  <2>1. \A q \in Clients : pc'[q] \in {"posted", "answered"} => RequestOf(q)' \in sent
    BY <1>5 DEF CallsInv, WireInv, RequestOf, InFlight
  <2> QED BY <1>1, <1>3, <1>5, <2>1 DEF CallsInv, WireInv
<1>11. BackupInv'
  BY <1>1, <1>3, <1>5 DEF CallsInv, BackupInv
<1> QED
  BY <1>4, <1>7, <1>8, <1>9, <1>10, <1>11 DEF CallsInv

LEMMA CallsStep == IInv /\ CallsInv /\ [BroadcastNext]_bvars => IInv' /\ CallsInv'
<1> SUFFICES ASSUME IInv, CallsInv, [BroadcastNext]_bvars PROVE IInv' /\ CallsInv'
  OBVIOUS
<1>1. IInv'
  BY StoreSteps, InvStep DEF CallsInv
<1>2. ASSUME UNCHANGED bvars PROVE CallsInv'
  <2>1. UNCHANGED <<calls, attempts, bytes, backup>>
    BY <1>2 DEF bvars, calls, vars, draftTables
  <2>2. UNCHANGED <<calls, attempts, backup>> /\ \A d \in DraftIds : bytes'[d] = bytes[d]
    BY <2>1
  <2> QED BY <2>2, QuietStep
<1>3. ASSUME NEW p \in Clients, NEW d \in DraftIds, NEW expected \in 0 .. MaxAttempts,
             NEW retry \in BOOLEAN, Begin(p, d, expected, retry)
      PROVE  CallsInv'
  BY <1>3, BeginCalls
<1>4. ASSUME NEW p \in Clients, Call(p) PROVE CallsInv'
  BY <1>4, LeaveCalls, RecordCalls, PostCalls, AcknowledgeCalls DEF Call, TimeOut
<1>5. ASSUME NEW p \in Clients, Endpoint(p) PROVE CallsInv'
  BY <1>5, LeaveCalls, PreflightCalls, AnswerCalls DEF Endpoint
<1>6. ASSUME BroadcastNext PROVE CallsInv'
  <2>1. CASE StoreStep
    BY <2>1, StoreStepCalls
  <2>2. CASE Restore
    BY <2>2, RestoreCalls
  <2>3. CASE Crash
    BY <2>3, CrashCalls
  <2>4. ASSUME NEW p \in Clients,
               \/ \E d \in DraftIds, expected \in 0 .. MaxAttempts, retry \in BOOLEAN :
                    Begin(p, d, expected, retry)
               \/ Call(p)
               \/ Endpoint(p)
        PROVE  CallsInv'
    BY <1>3, <1>4, <1>5, <2>4
  <2> QED
    BY <1>6, <2>1, <2>2, <2>3, <2>4, Zenon DEF BroadcastNext
<1> QED
  BY <1>1, <1>2, <1>6

\* Only RecordAttempt adds an attempt, to a draft that stands.
LEMMA GrowStep ==
  ASSUME IInv, [Next]_vars, ~RestoreBackup, NEW d \in DraftIds, Len(attempts'[d]) > Len(attempts[d])
  PROVE  Finalized(d) /\ Len(attempts'[d]) <= MaxAttempts
<1>1. attempts \in [DraftIds -> Seq(BOOLEAN)] /\ Len(attempts[d]) \in Nat
  BY DEF IInv, TypeOK
<1>2. attempts' # attempts
  BY <1>1
<1>3. ASSUME NEW e \in DraftIds, NEW expected, NEW retry, RecordAttempt(e, expected, retry)
      PROVE  Finalized(d) /\ Len(attempts'[d]) <= MaxAttempts
  <2>1. /\ Finalized(e) /\ Len(attempts[e]) < MaxAttempts
        /\ attempts' = [attempts EXCEPT ![e] = Append(attempts[e], FALSE)]
    BY <1>3 DEF RecordAttempt, PreviousChecked
  <2>2. e = d
    BY <1>1, <2>1
  <2>3. Len(attempts'[d]) = Len(attempts[d]) + 1
    BY <1>1, <2>1, <2>2
  <2> QED BY <1>1, <2>1, <2>2, <2>3, AttemptAssumption
<1>4. ASSUME NEW e \in DraftIds, NEW i, Acknowledge(e, i) PROVE FALSE
  <2>1. i \in DOMAIN attempts[e] /\ attempts' = [attempts EXCEPT ![e][i] = TRUE]
    BY <1>4 DEF Acknowledge
  <2>2. Len(attempts'[d]) = Len(attempts[d])
    BY <1>1, <2>1
  <2> QED BY <1>1, <2>2
<1>5. ASSUME NEW e \in DraftIds, Approval(e) PROVE UNCHANGED attempts
  BY <1>5 DEF Approval, CreateDraft, AcceptSigned, FinalizeDraft, DiscardDraft
<1>6. ASSUME NEW e \in DraftIds, Submission(e)
      PROVE  Finalized(d) /\ Len(attempts'[d]) <= MaxAttempts
  <2>1. ASSUME NEW expected, ResumeRecovered(e, expected) PROVE UNCHANGED attempts
    BY <2>1 DEF ResumeRecovered
  <2> QED BY <1>2, <1>3, <1>4, <1>6, <2>1 DEF Submission
<1>7. ASSUME \/ Metadata \/ ExportBackup \/ UNCHANGED vars
             \/ \E view \in ChainViews : ApplySync(view)
      PROVE  UNCHANGED attempts
  BY <1>7 DEF Metadata, SetLabel, EditCoins, ImportLabels, ApplySync, ExportBackup, draftTables, vars
<1> QED
  BY <1>2, <1>5, <1>6, <1>7 DEF Next

-----------------------------------------------------------------------------
(* Theorems *)

\* The invariant holds however callers, scans, edits, backups, restores and
\* crashes interleave.
THEOREM CallsInvCorrect == BroadcastSpec => [](IInv /\ CallsInv)
BY InitCalls, CallsStep, PTL DEF BroadcastSpec

\* Concurrent broadcasts are operations of the store: whatever holds of Spec
\* holds with any number of callers (broadcast_draft's two transactions).
THEOREM BroadcastUsesStore == BroadcastSpec => Spec
<1>1. BroadcastInit => Init
  BY DEF BroadcastInit
<1>2. IInv /\ CallsInv /\ [BroadcastNext]_bvars => [Next]_vars
  BY StoreSteps DEF CallsInv
<1> QED
  BY <1>1, <1>2, CallsInvCorrect, PTL DEF BroadcastSpec, Spec

\* Nothing is on the wire without a durable attempt, and with other bytes than
\* the stored ones (broadcast_draft: record, commit, then send).
THEOREM SentAlwaysRecorded == BroadcastSpec => []SentIsRecorded
<1>1. CallsInv => SentIsRecorded
  BY DEF CallsInv
<1> QED
  BY <1>1, CallsInvCorrect, PTL

\* An answer only ever marks the attempt it answers (the row's own id).
THEOREM AcknowledgedAlwaysSent == BroadcastSpec => []AcknowledgedWasSent
<1>1. CallsInv => AcknowledgedWasSent
  BY DEF CallsInv
<1> QED
  BY <1>1, CallsInvCorrect, PTL

\* However many callers race, one initial request leaves (check_previous).
THEOREM InitialRequestUnique == BroadcastSpec => []OneInitialRequest
<1>1. CallsInv => OneInitialRequest
  BY DEF CallsInv, WireInv, OneInitialRequest
<1> QED
  BY <1>1, CallsInvCorrect, PTL

\* Each attempt is vetted at the moment it is recorded (the second lock).
THEOREM AttemptsAlwaysVetted == BroadcastSpec => AttemptsVetted
<1>1. ASSUME IInv, CallsInv, [BroadcastNext]_bvars PROVE AttemptsEligible
  <2> SUFFICES ASSUME ~RestoreBackup, NEW d \in DraftIds, Len(attempts'[d]) > Len(attempts[d])
               PROVE  Finalized(d) /\ Len(attempts'[d]) <= MaxAttempts
    BY DEF AttemptsEligible
  <2> QED BY <1>1, StoreSteps, GrowStep DEF CallsInv
<1> QED
  BY <1>1, CallsInvCorrect, PTL DEF BroadcastSpec, AttemptsVetted
=============================================================================
