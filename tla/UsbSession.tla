------------------------------ MODULE UsbSession ------------------------------
(***************************************************************************)
(* A USB operation on a hardware signer: the dialog that starts and stops  *)
(* it, the one coroutine that owns the link (UsbExchange.kt), the session  *)
(* that drives the conversation step by step (usb/protocol.rs), the report *)
(* reader (usb/framing.rs) and the registrations the wallet keeps          *)
(* (usb/mod.rs).  Devices answer late, wrongly or never, keep answers of a *)
(* conversation that was given up, and are unplugged at any time.          *)
(* Signing is not among the operations: the qualification gate refuses it. *)
(***************************************************************************)
EXTENDS Naturals, Sequences

CONSTANTS
  Wallets,       \* a wallet also stands for its policy and its policy's id
  Devices,
  Fingerprint,   \* the fingerprint a device reports; two devices may share one
  Signers,       \* the devices whose accounts a wallet's policy names
  Indexes,       \* receive indexes
  None,
  MaxExchanges,  \* commands a session may send
  MaxReports,    \* reports it may read; the code counts their bytes
  MaxLaunches    \* bound: operations started

Prints == {Fingerprint[d] : d \in Devices}

ASSUME SignersAssumption ==
  /\ Signers \in [Wallets -> SUBSET Devices]
  /\ \A w \in Wallets : \A d, e \in Signers[w] : Fingerprint[d] = Fingerprint[e] => d = e
ASSUME LimitsAssumption == {MaxExchanges, MaxReports, MaxLaunches} \subseteq Nat \ {0}
ASSUME AbsentAssumption ==
  /\ Indexes \subseteq Nat
  /\ None \notin Wallets \cup Devices \cup Prints \cup Indexes
  /\ None \notin [device : Devices, policy : Wallets]
  /\ None \notin [kind : {"info", "print", "xpub", "register", "address"},
                  policy : Wallets \cup {None}, index : Indexes \cup {None}]

VARIABLES
  table,      \* hardware_registrations: by wallet and fingerprint, the hmac
  issued,     \* receive indexes the wallets have issued
  job,        \* where the coroutine stands
  request,    \* the operation last launched
  pending,    \* the operation waiting for the USB permission
  stopped,    \* the job was cancelled and its token is no longer current
  session,    \* the core's session
  update,     \* the coroutine's copy of the session's last update
  report,     \* the report it has read
  info,       \* the update on the screen
  plugged,    \* devices that are connected
  asked,      \* commands a device has not answered yet
  answers,    \* reports a device has ready to be read
  sent,       \* steps whose command was written; seen by no code
  told,       \* addresses the device gave to this operation; likewise
  launches    \* bound

wallet  == <<table, issued>>
dialog  == <<request, pending, stopped, info, launches>>
core    == <<session, update, report>>
device  == <<plugged, asked, answers>>
ghosts  == <<sent, told>>
vars    == <<wallet, job, dialog, core, device, ghosts>>

Operations ==
  {[kind |-> k, index |-> None] : k \in {"inspect", "register"}}
    \cup {[kind |-> "address", index |-> i] : i \in Indexes}
Requests == [wallet : Wallets, device : Devices, op : Operations]

-----------------------------------------------------------------------------
(* Commands, replies and reports *)

Command(kind, w, i) == [kind |-> kind, policy |-> w, index |-> i]
Reply(kind, d, w, i) == [kind |-> kind, device |-> d, policy |-> w, index |-> i]

\* What a device may answer: it may refuse anything, ask for more, register
\* another policy and give an address that is not the wallet's (None).
Replies(d, c) ==
  {Reply("refused", d, None, None)} \cup
  CASE c.kind \in {"info", "print"} -> {Reply(c.kind, d, None, None)}
    [] c.kind = "xpub"     -> {Reply(k, d, c.policy, None) : k \in {"xpub", "more"}}
    [] c.kind = "register" -> {Reply("more", d, c.policy, None)}
                                \cup {Reply("registered", d, w, None) : w \in Wallets}
    [] c.kind = "address"  -> {Reply("more", d, c.policy, None)}
                                \cup {Reply("address", d, c.policy, i) : i \in Indexes \cup {None}}

Addresses == {Reply("address", d, w, i) : d \in Devices, w \in Wallets, i \in Indexes}

\* Keys, registrations and addresses do not fit in one report.
Parts(reply) == IF reply.kind \in {"xpub", "registered", "address"} THEN 2 ELSE 1
Reports(reply) == [n \in 1 .. Parts(reply) |-> [reply |-> reply, part |-> n - 1]]

-----------------------------------------------------------------------------
(* The session *)

Closed(s, state) == [s EXCEPT !.state = state, !.packets = None, !.reader = 0]
Failed(s) == Closed(s, "failed")

Update(s) == [state |-> s.state, step |-> s.step, packets |-> s.packets, print |-> s.print]

\* Variant: a session waits for as long as the device takes.
ProgressPatient(s) == s

\* A session is older than LIFETIME.
Progress(s) == IF s.state = "waiting" /\ s.expired THEN Failed(s) ELSE s

Transmit(s, c) ==
  IF s.step < MaxExchanges
  THEN [s EXCEPT !.step = @ + 1, !.packets = c, !.reader = 0]
  ELSE Failed(s)

Finish(s) == [s EXCEPT !.state = "complete"]

\* The fingerprints of the registrations the wallet has.
Registered(w) == {f \in Prints : table[<<w, f>>] # None}

Session(r) ==
  Transmit([wallet |-> r.wallet, op |-> r.op, registrations |-> Registered(r.wallet),
            state |-> "waiting", phase |-> "info", account |-> None, print |-> None,
            step |-> 0, packets |-> None, reader |-> 0, reports |-> 0, expired |-> FALSE],
           Command("info", None, None))

\* The account is confirmed: the operation itself, which needs a registration
\* unless it makes one or asks for nothing more.
Act(s) ==
  CASE s.op.kind = "inspect"  -> Finish(s)
    [] s.op.kind = "register" -> Transmit(s, Command("register", s.wallet, None))
    [] s.op.kind = "address" /\ s.print \in s.registrations ->
         Transmit(s, Command("address", s.wallet, s.op.index))
    [] OTHER -> Failed(s)

\* Variant: a registration of any policy is taken.
ExpectedAnyPolicy(s, reply) ==
  \/ reply.kind = s.phase
  \/ reply.kind = "more" /\ s.phase \in {"xpub", "action"}
  \/ /\ s.phase = "action"
     /\ \/ s.op.kind = "register" /\ reply.kind = "registered"
        \/ s.op.kind = "address"  /\ reply.kind = "address"
\* preflight, and the pairing of phase and response: what may follow what.
Expected(s, reply) ==
  \/ reply.kind = s.phase
  \/ reply.kind = "more" /\ s.phase \in {"xpub", "action"}
  \/ /\ s.phase = "action"
     /\ \/ s.op.kind = "register" /\ reply.kind = "registered" /\ reply.policy = s.wallet
        \/ s.op.kind = "address"  /\ reply.kind = "address"

\* A complete reply; the account is the one with the device's fingerprint, and
\* its public key must then be the device's.
Handle(s, reply) ==
  LET account == {d \in Signers[s.wallet] : Fingerprint[d] = Fingerprint[reply.device]} IN
  IF ~Expected(s, reply) THEN Failed(s) ELSE
  CASE reply.kind = "info" ->
         Transmit([s EXCEPT !.phase = "print"], Command("print", None, None))
    [] reply.kind = "print" /\ account # {} ->
         Transmit([s EXCEPT !.phase = "xpub", !.account = CHOOSE d \in account : TRUE,
                            !.print = Fingerprint[reply.device]],
                  Command("xpub", s.wallet, None))
    [] reply.kind = "xpub" /\ reply.device = s.account /\ reply.policy = s.wallet ->
         Act([s EXCEPT !.phase = "action"])
    [] reply.kind = "more" /\ s.phase = "xpub" -> Transmit(s, Command("xpub", s.wallet, None))
    [] reply.kind = "more" /\ s.phase = "action" -> Act(s)
    [] reply.kind = "registered" -> Finish(s)
    [] reply.kind = "address" /\ reply.policy = s.wallet /\ reply.index = s.op.index -> Finish(s)
    [] OTHER -> Failed(s)

\* Session::receive.  Anything but the next report of the command that is out
\* ends the session, whatever state it was in.
Received(s, step, r) ==
  IF \/ Progress(s).state # "waiting" \/ step # s.step
     \/ s.reports = MaxReports \/ r.part # s.reader
  THEN Failed(s)
  ELSE LET t == [s EXCEPT !.reports = @ + 1, !.packets = None, !.reader = @ + 1] IN
       IF r.part + 1 < Parts(r.reply) THEN t ELSE Handle(t, r.reply)

-----------------------------------------------------------------------------
(* The dialog *)

\* launch: one job at a time.
Start(r) ==
  /\ job = "none" /\ launches < MaxLaunches
  /\ request' = r /\ job' = "prepare" /\ stopped' = FALSE /\ info' = None
  /\ launches' = launches + 1
  /\ sent' = <<>> /\ told' = {}
  /\ UNCHANGED <<wallet, core, device>>

\* A button, when the device's permission is there already.
Launch(r) ==
  /\ pending = None /\ r.device \in plugged
  /\ Start(r)
  /\ UNCHANGED pending

\* A button, when the system has to ask first.
AskPermission(r) ==
  /\ job = "none" /\ pending = None /\ r.device \in plugged /\ launches < MaxLaunches
  /\ pending' = r
  /\ UNCHANGED <<wallet, job, request, stopped, info, launches, core, device, ghosts>>

\* The reply to the request that is pending; replies to earlier ones carry
\* another nonce and are dropped.
Granted ==
  /\ pending # None
  /\ pending' = None
  /\ Start(pending)
Denied ==
  /\ pending # None
  /\ pending' = None
  /\ UNCHANGED <<wallet, job, request, stopped, info, launches, core, device, ghosts>>

\* stop: the cancel button, the device's detach broadcast, the app leaving the
\* screen and the dialog being closed.
Stop ==
  /\ job # "none" \/ pending # None \/ info # None
  /\ pending' = None /\ info' = None
  /\ stopped' = (stopped \/ job # "none")
  /\ UNCHANGED <<wallet, job, request, launches, core, device, ghosts>>

-----------------------------------------------------------------------------
(* The coroutine.  It looks at the cancellation between its steps. *)

Goes(step) == job' = (IF stopped THEN "close" ELSE step)

Issued(w, op) == op.kind = "address" => op.index < issued[w]

\* prepare_usb, which refuses an address that was not issued and a wallet with
\* registrations of other keys than its own.
Prepare ==
  /\ job = "prepare"
  /\ IF /\ Issued(request.wallet, request.op)
        /\ Registered(request.wallet) \subseteq {Fingerprint[d] : d \in Signers[request.wallet]}
     THEN /\ session' = Session(request)
          /\ Goes("open")
     ELSE /\ session' = None
          /\ job' = "close"
  /\ UNCHANGED <<wallet, dialog, update, report, device, ghosts>>

\* LedgerUsbLink.open; a device may drop what an earlier link did not read.
Open ==
  /\ job = "open" /\ request.device \in plugged
  /\ Goes("show")
  /\ session' = Progress(session)
  /\ update' = Update(session')
  /\ \E kept \in {answers[request.device], <<>>} :
       answers' = [answers EXCEPT ![request.device] = kept]
  /\ UNCHANGED <<wallet, dialog, report, plugged, asked, ghosts>>

\* The update is shown when the job's token is still the current one.
Show ==
  /\ job = "show"
  /\ info' = IF stopped THEN info ELSE update
  /\ Goes(IF update.state = "waiting" THEN "write" ELSE "close")
  /\ UNCHANGED <<wallet, request, pending, stopped, launches, core, device, ghosts>>

\* The update's packets, if it has any.  A job stopped before the last packet
\* leaves the device without the command.
Write ==
  /\ job = "write"
  /\ \/ /\ update.packets = None
        /\ job' = "read"
        /\ UNCHANGED <<asked, sent>>
     \/ /\ update.packets # None /\ ~stopped /\ request.device \in plugged
        /\ job' = "read"
        /\ asked' = [asked EXCEPT ![request.device] = Append(@, update.packets)]
        /\ sent' = Append(sent, update.step)
     \/ /\ update.packets # None /\ stopped
        /\ job' = "close"
        /\ UNCHANGED <<asked, sent>>
  /\ UNCHANGED <<wallet, dialog, core, plugged, answers, told>>

\* One report, whichever command it answers.
Read ==
  /\ job = "read" /\ answers[request.device] # <<>>
  /\ report' = Head(answers[request.device])
  /\ answers' = [answers EXCEPT ![request.device] = Tail(@)]
  /\ Goes("receive")
  /\ UNCHANGED <<wallet, dialog, session, update, plugged, asked, ghosts>>

\* Variant: the session's update as it is.
PolledWhole(s) == Update(s)
\* The update a read without a report goes on with: nothing is sent again.
Polled(s) == [Update(s) EXCEPT !.packets = None]

\* No report within the wait; the queued read is kept.
ReadTimesOut ==
  /\ job = "read"
  /\ Goes("show")
  /\ session' = IF stopped THEN session ELSE Progress(session)
  /\ update' = IF stopped THEN update ELSE Polled(session')
  /\ UNCHANGED <<wallet, dialog, report, device, ghosts>>

\* A write, a read or the opening of the link fails.
LinkFails ==
  /\ job \in {"open", "write", "read"}
  /\ job' = "close"
  /\ UNCHANGED <<wallet, dialog, core, device, ghosts>>

\* UsbSession::receive.  A complete session is validated against the wallet once
\* more and what it brought is saved before the update is published.  A stop
\* between the read and the end of this call does not undo it.
Revalidated(s) == IF s.state = "complete" /\ ~Issued(s.wallet, s.op) THEN Failed(s) ELSE s

Saved(s, reply) ==
  IF s.state = "complete" /\ s.op.kind = "register"
  THEN [table EXCEPT ![<<s.wallet, s.print>>] = [device |-> reply.device, policy |-> reply.policy]]
  ELSE table

Receive ==
  /\ job = "receive"
  /\ session' = Revalidated(Received(session, update.step, report))
  /\ table' = Saved(session', report.reply)
  /\ IF session'.state = "failed"
     THEN job' = "close" /\ UNCHANGED update
     ELSE job' = "show" /\ update' = Update(session')
  /\ told' = told \cup {<<r.policy, r.index>> : r \in {report.reply} \cap Addresses}
  /\ report' = None
  /\ UNCHANGED <<issued, dialog, device, sent>>

\* Variant: the update is published although it could not be saved.
StorageFailsSilently ==
  /\ job = "receive"
  /\ Received(session, update.step, report).state = "complete"
  /\ session' = Received(session, update.step, report)
  /\ update' = Update(session')
  /\ job' = "show" /\ report' = None
  /\ UNCHANGED <<wallet, dialog, device, ghosts>>

\* The wallet cannot be opened or the registration cannot be written.
StorageFails ==
  /\ job = "receive"
  /\ Received(session, update.step, report).state = "complete"
  /\ session' = Failed(session)
  /\ job' = "close" /\ report' = None
  /\ UNCHANGED <<wallet, dialog, update, device, ghosts>>

\* finally: the link is closed, the session cancelled and disposed of.
Close ==
  /\ job = "close"
  /\ job' = "none" /\ stopped' = FALSE
  /\ session' = None /\ update' = None /\ report' = None /\ sent' = <<>>
  /\ UNCHANGED <<wallet, request, pending, info, launches, device, told>>

Coroutine == \/ Prepare \/ Open \/ Show \/ Write \/ Read \/ ReadTimesOut
             \/ LinkFails \/ Receive \/ StorageFails \/ Close

-----------------------------------------------------------------------------
(* The world around *)

\* The session passes its LIFETIME.
TimePasses ==
  /\ session # None /\ ~session.expired
  /\ session' = [session EXCEPT !.expired = TRUE]
  /\ UNCHANGED <<wallet, job, dialog, update, report, device, ghosts>>

\* The process dies; the registrations are on the disk.
Kill ==
  /\ job # "none" \/ pending # None \/ info # None
  /\ job' = "none" /\ pending' = None /\ info' = None /\ stopped' = FALSE
  /\ session' = None /\ update' = None /\ report' = None /\ sent' = <<>>
  /\ UNCHANGED <<wallet, request, launches, device, told>>

\* The device answers the oldest command, also one nobody waits for any more.
Answer(d) ==
  /\ d \in plugged /\ asked[d] # <<>>
  /\ \E reply \in Replies(d, Head(asked[d])) :
       answers' = [answers EXCEPT ![d] = @ \o Reports(reply)]
  /\ asked' = [asked EXCEPT ![d] = Tail(@)]
  /\ UNCHANGED <<wallet, job, dialog, core, plugged, ghosts>>

\* Pulling the cable ends every conversation of the device.
Unplug(d) ==
  /\ d \in plugged
  /\ plugged' = plugged \ {d}
  /\ asked' = [asked EXCEPT ![d] = <<>>] /\ answers' = [answers EXCEPT ![d] = <<>>]
  /\ UNCHANGED <<wallet, job, dialog, core, ghosts>>
Plug(d) ==
  /\ d \notin plugged
  /\ plugged' = plugged \cup {d}
  /\ UNCHANGED <<wallet, job, dialog, core, asked, answers, ghosts>>

\* The wallet issues its next receive address.
IssueAddress(w) ==
  /\ issued[w] \in Indexes
  /\ issued' = [issued EXCEPT ![w] = @ + 1]
  /\ UNCHANGED <<table, job, dialog, core, device, ghosts>>

UsbInit ==
  /\ table = [k \in Wallets \X Prints |-> None]
  /\ issued = [w \in Wallets |-> 0]
  /\ job = "none" /\ request = None /\ pending = None /\ stopped = FALSE /\ info = None
  /\ session = None /\ update = None /\ report = None
  /\ plugged = Devices
  /\ asked = [d \in Devices |-> <<>>] /\ answers = [d \in Devices |-> <<>>]
  /\ sent = <<>> /\ told = {} /\ launches = 0

UsbNext ==
  \/ \E r \in Requests : Launch(r) \/ AskPermission(r)
  \/ Granted \/ Denied \/ Stop \/ Kill \/ TimePasses
  \/ Coroutine
  \/ \E d \in Devices : Answer(d) \/ Unplug(d) \/ Plug(d)
  \/ \E w \in Wallets : IssueAddress(w)

UsbSpec == UsbInit /\ [][UsbNext]_vars

\* The dispatcher runs the coroutine, whose waits are bounded, and time passes.
\* Nothing is assumed of the device, the user or the system's permission.
FairUsb == UsbSpec /\ WF_vars(Coroutine) /\ WF_vars(TimePasses)

-----------------------------------------------------------------------------
(* Properties *)

\* Every command of a session is written once and in order, however often the
\* app polls ("A native caller must send these packets once").
CommandsSentOnce == \A n \in DOMAIN sent : sent[n] = n

\* A registration the wallet keeps is one of its own policy by one of its own
\* signers, under that signer's fingerprint, whichever devices and earlier
\* conversations the answers came from.
RegistrationsGenuine ==
  \A w \in Wallets : \A f \in Prints :
    table[<<w, f>>] # None =>
      \E d \in Signers[w] : Fingerprint[d] = f /\ table[<<w, f>>] = [device |-> d, policy |-> w]

\* Success on the screen means it: the device holds the account of the wallet
\* it was asked about, a registration is saved, and the address was issued and
\* came from this device in this operation ("Completion is published only
\* after wallet revalidation and any persistence").
ShownIsTrue ==
  info # None /\ info.state = "complete" =>
    LET w == request.wallet IN
    /\ request.device \in Signers[w] /\ Fingerprint[request.device] = info.print
    /\ request.op.kind # "inspect" => info.print \in Registered(w)
    /\ request.op.kind = "address" =>
         request.op.index < issued[w] /\ <<w, request.op.index>> \in told

\* An operation ends, whether or not the device ever answers, so that the
\* dialog can start another one ("Each wait is bounded").
OperationsEnd == job # "none" ~> job = "none"
===============================================================================
