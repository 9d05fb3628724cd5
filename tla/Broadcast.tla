------------------------------ MODULE Broadcast ------------------------------
(***************************************************************************)
(* Concurrent broadcast_draft calls on one WalletStore.  A call validates  *)
(* the final transaction under the connection mutex, lets it go for the    *)
(* network preflight, validates again and records its attempt in one       *)
(* transaction, sends the transaction without the mutex, marks its own     *)
(* attempt acknowledged when the endpoint answers with the exact txid, and *)
(* reads the status it returns.  Waiting for the endpoint and waiting for  *)
(* the mutex are told apart; between any two steps every operation of the  *)
(* store, the other calls and the death of the process may happen.         *)
(***************************************************************************)
EXTENDS WalletStore

CONSTANT Clients       \* callers of broadcast_draft: the screens of one core

VARIABLES
  pc,                  \* where each call stands
  job,                 \* its request, the review it approved and its attempt
  holding,             \* calls whose guard of the mutex outlived its section
  sent                 \* requests handed to the network, known to this store

bvars == <<vars, pc, job, holding, sent>>
calls == <<pc, job, holding, sent>>

\* The mutex is what a call needs next at "preflighted", "answered" and "ended",
\* an answer of the endpoint at "preflight" and "posted".
CallStates == {"idle", "preflight", "preflighted", "recorded", "posted", "answered", "ended"}
Jobs == [draft : DraftIds, expected : Nat, retry : BOOLEAN,
         approved : SUBSET SUBSET Signatures, row : Nat]
Requests == [draft : DraftIds, row : Nat, retry : BOOLEAN, bytes : SUBSET SUBSET Signatures]

\* None tells a caller without a request from one with a request.
ASSUME JobAssumption == None \notin Jobs

\* The attempt of p is recorded, and an answer may come or have come.
InFlight(p) == pc[p] \in {"recorded", "posted", "answered"}

-----------------------------------------------------------------------------
(* The mutex of the connection *)

\* Core::lock waits while any guard lives, one of the same call included: the
\* mutex is not reentrant.
Enter(p, at) == pc[p] = at /\ holding = {}

\* A section is one step, and its guard goes out of scope where it ends.
Exit == holding' = {}

-----------------------------------------------------------------------------
(* Steps of a call *)

Goto(p, at) == pc' = [pc EXCEPT ![p] = at] /\ UNCHANGED sent
Forget(p)   == job' = [job EXCEPT ![p] = None]

Leave(p)    == Goto(p, "idle") /\ Forget(p)

\* First section: everything is checked before any network access.  The request
\* may be as old as the screen it was made on.
Begin(p, d, expected, retry) ==
  /\ Enter(p, "idle")
  /\ Finalized(d)
  /\ PreviousChecked(d, expected, retry)
  /\ Goto(p, "preflight")
  /\ job' = [job EXCEPT ![p] = [draft |-> d, expected |-> expected, retry |-> retry,
                                approved |-> bytes[d], row |-> 0]]
  /\ Exit
  /\ UNCHANGED vars

\* A later section ends the call: what it checks is not so, or the store fails.
Refuse(p) ==
  /\ Enter(p, "preflighted") \/ Enter(p, "answered")
  /\ Leave(p)
  /\ Exit
  /\ UNCHANGED vars

\* The endpoint serves the genesis block of the wallet's network ...
Preflight(p) ==
  /\ pc[p] = "preflight"
  /\ Goto(p, "preflighted")
  /\ UNCHANGED <<vars, job, holding>>

\* ... or anything else, or the connection fails.
GiveUp(p) ==
  /\ pc[p] = "preflight"
  /\ Leave(p)
  /\ UNCHANGED <<vars, holding>>

\* Variant: what the first section checked is not checked again.
RecordUnchecked(p) ==
  /\ Enter(p, "preflighted")
  /\ attempts' = [attempts EXCEPT ![job[p].draft] = Append(@, FALSE)]
  /\ Goto(p, "recorded")
  /\ job' = [job EXCEPT ![p].row = Len(attempts[job[p].draft]) + 1]
  /\ Exit
  /\ UNCHANGED <<chainState, metadata, state, reservations, sigs, bytes, recoveryTables, backup>>

\* Variant: a review approved anew in the meantime is taken for the same.
RecordRevised(p) ==
  /\ Enter(p, "preflighted")
  /\ RecordAttempt(job[p].draft, job[p].expected, job[p].retry)
  /\ Goto(p, "recorded")
  /\ job' = [job EXCEPT ![p].row = Len(attempts[job[p].draft]) + 1]
  /\ Exit

\* Second section: the same checks again, then the durable uncertain attempt.
Record(p) ==
  /\ Enter(p, "preflighted")
  /\ bytes[job[p].draft] = job[p].approved
  /\ RecordAttempt(job[p].draft, job[p].expected, job[p].retry)
  /\ Goto(p, "recorded")
  /\ job' = [job EXCEPT ![p].row = Len(attempts[job[p].draft]) + 1]
  /\ Exit

\* The request leaves; whether and when it arrives nobody knows.
Post(p) ==
  /\ pc[p] = "recorded"
  /\ pc' = [pc EXCEPT ![p] = "posted"]
  /\ sent' = sent \cup {[draft |-> job[p].draft, row |-> job[p].row, retry |-> job[p].retry,
                         bytes |-> job[p].approved]}
  /\ UNCHANGED <<vars, job, holding>>

\* The exact txid came back ...
Answer(p) ==
  /\ pc[p] = "posted"
  /\ Goto(p, "answered")
  /\ UNCHANGED <<vars, job, holding>>

\* ... or an error or something else: the attempt stays uncertain.
NoAnswer(p) ==
  /\ pc[p] = "posted"
  /\ Goto(p, "ended") /\ Forget(p)
  /\ UNCHANGED <<vars, holding>>

\* Variant: only the preflight has a time limit.
TimeOutPreflight(p) == GiveUp(p)

\* Nothing came within the limit that the client sets for each of its requests.
TimeOut(p) == GiveUp(p) \/ NoAnswer(p)

\* Variant: the acknowledgement goes to the latest attempt.
AcknowledgeLatest(p) ==
  /\ Enter(p, "answered")
  /\ Acknowledge(job[p].draft, Len(attempts[job[p].draft]))
  /\ Goto(p, "ended") /\ Forget(p)
  /\ Exit

\* Variant: the guard lives on when the status is read.
AcknowledgeHolding(p) ==
  /\ Enter(p, "answered")
  /\ Acknowledge(job[p].draft, job[p].row)
  /\ Goto(p, "ended") /\ Forget(p)
  /\ holding' = {p}

\* Third section, only for an answer.
AcknowledgeOwn(p) ==
  /\ Enter(p, "answered")
  /\ Acknowledge(job[p].draft, job[p].row)
  /\ Goto(p, "ended") /\ Forget(p)
  /\ Exit

\* Last section: broadcast_status reads what the call returns.
ReadStatus(p) ==
  /\ Enter(p, "ended")
  /\ Leave(p)
  /\ Exit
  /\ UNCHANGED vars

\* The process dies with its calls; what they committed and sent is not undone.
Crash ==
  /\ \E p \in Clients : pc[p] # "idle"
  /\ pc'  = [p \in Clients |-> "idle"]
  /\ job' = [p \in Clients |-> None]
  /\ holding' = {}
  /\ UNCHANGED <<vars, sent>>

\* The applications run one operation at a time and drop the old core before a
\* restore switches stores; requests the backup does not know are out of reach.
Restore ==
  /\ \A p \in Clients : pc[p] = "idle"
  /\ RestoreBackup
  /\ sent' = {m \in sent : m.row <= Len(backup.attempts[m.draft])}
  /\ UNCHANGED <<pc, job, holding>>

-----------------------------------------------------------------------------
BroadcastInit ==
  /\ Init
  /\ pc   = [p \in Clients |-> "idle"]
  /\ job  = [p \in Clients |-> None]
  /\ holding = {}
  /\ sent = {}

\* The operations of the store that are not part of a broadcast, each in one
\* section of this or another connection.
StoreStep ==
  /\ \/ Metadata
     \/ \E d \in DraftIds : \/ Approval(d)
                            \/ \E expected \in 1 .. MaxAttempts : ResumeRecovered(d, expected)
     \/ \E view \in ChainViews : ApplySync(view)
     \/ ExportBackup
  /\ UNCHANGED calls

\* What the call does itself: no step of it waits for an answer.
Call(p) ==
  \/ Refuse(p) \/ Record(p) \/ Post(p) \/ TimeOut(p) \/ AcknowledgeOwn(p) \/ ReadStatus(p)

\* What the endpoint and the network do to it.
Endpoint(p) == Preflight(p) \/ GiveUp(p) \/ Answer(p) \/ NoAnswer(p)

BroadcastNext ==
  \/ StoreStep
  \/ Restore
  \/ Crash
  \/ \E p \in Clients :
       \/ \E d \in DraftIds, expected \in 0 .. MaxAttempts, retry \in BOOLEAN :
            Begin(p, d, expected, retry)
       \/ Call(p)
       \/ Endpoint(p)

BroadcastSpec == BroadcastInit /\ [][BroadcastNext]_bvars

\* The thread of a call runs on where nothing blocks it, and time passes up to a
\* limit.  Nothing is assumed of the endpoint, or of a guard that is not dropped.
FairBroadcast == BroadcastSpec /\ \A p \in Clients : WF_pc(Call(p))

-----------------------------------------------------------------------------
(* Properties *)

\* The calls are typed, a call carries a request exactly while it needs it, and
\* no guard outlives its section.
CallsOK ==
  /\ pc \in [Clients -> CallStates]
  /\ job \in [Clients -> Jobs \cup {None}]
  /\ \A p \in Clients : job[p] = None <=> pc[p] \in {"idle", "ended"}
  /\ holding = {}
  /\ sent \subseteq Requests

\* Nothing is on the wire without a durable attempt, and the bytes on the wire
\* are the stored bytes that status, observation and recovery will compare with
\* ("A crash from this point must retain an uncertain outcome").
SentIsRecorded ==
  \A m \in sent : m.row \in DOMAIN attempts[m.draft] /\ m.bytes = bytes[m.draft]

\* The attempts of running calls are their own: no two calls share one, so a
\* late answer can only mark the request that it answers.
OwnAttempt ==
  \A p \in Clients : InFlight(p) =>
    /\ job[p].row \in DOMAIN attempts[job[p].draft]
    /\ bytes[job[p].draft] = job[p].approved
    /\ \A q \in Clients \ {p} :
         InFlight(q) /\ job[q].draft = job[p].draft => job[q].row # job[p].row

\* An acknowledged attempt was sent: an answer never marks another attempt,
\* and a crash before the request leaves the attempt uncertain.
AcknowledgedWasSent ==
  \A d \in DraftIds : \A i \in DOMAIN attempts[d] :
    attempts[d][i] => \E m \in sent : m.draft = d /\ m.row = i

\* Competing callers send at most one request the user did not acknowledge as
\* a resubmission ("prevents stale screens and competing connections from
\* creating the same initial attempt").
OneInitialRequest ==
  \A m, n \in sent : m.draft = n.draft /\ ~m.retry /\ ~n.retry => m.row = n.row

AttemptsEligible ==
  \A d \in DraftIds : Len(attempts'[d]) > Len(attempts[d]) /\ ~RestoreBackup =>
    Finalized(d) /\ Len(attempts'[d]) <= MaxAttempts

\* At the moment an attempt is recorded, its draft still stands, however old
\* the caller's preflight is: a freeze, a scan or a discard in between wins,
\* and racing callers do not exceed the attempt limit.
AttemptsVetted == [][AttemptsEligible]_bvars

\* Every call comes back to its screen, whatever the endpoint does: each request
\* has its time limit, and no section keeps the mutex that a later one, of this
\* or another call, waits for ("Blocking operation for a native IO worker").
CallsReturn == \A p \in Clients : []<>(pc[p] = "idle")
=============================================================================
