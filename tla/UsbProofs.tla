------------------------------ MODULE UsbProofs ------------------------------
(***************************************************************************)
(* Proofs about UsbSession, for any wallets, devices, shared fingerprints, *)
(* limits and number of operations: what the wallet keeps and what the     *)
(* screen shows is true, whichever conversations the answers come from.    *)
(* The argument follows the session: it learns the signer from the         *)
(* fingerprint, confirms it by the public key of the device the link is    *)
(* to, and only then acts; a device only ever answers for itself.          *)
(***************************************************************************)
EXTENDS UsbSession, TLAPS

-----------------------------------------------------------------------------
(* Types *)

States   == {"waiting", "complete", "failed"}
Asking   == {"info", "print", "xpub", "register", "address"}
Telling  == Asking \cup {"refused", "more", "registered"}
Commands == [kind : Asking, policy : Wallets \cup {None}, index : Indexes \cup {None}]
Letters  == [kind : Telling, device : Devices, policy : Wallets \cup {None},
             index : Indexes \cup {None}]
Packets  == [reply : Letters, part : Nat]
Entries  == [device : Devices, policy : Wallets]
Sessions ==
  [wallet : Wallets, op : Operations, registrations : SUBSET Prints, state : States,
   phase : {"info", "print", "xpub", "action"}, account : Devices \cup {None},
   print : Prints \cup {None}, step : Nat, packets : Commands \cup {None}, reader : Nat,
   reports : Nat, expired : BOOLEAN]
Updates == [state : States, step : Nat, packets : Commands \cup {None}, print : Prints \cup {None}]

-----------------------------------------------------------------------------
(* One session, as a value *)

\* What a session for request r has established in each phase.
Established(s, r) ==
  /\ s \in Sessions /\ s.wallet = r.wallet /\ s.op = r.op
  /\ s.phase \in {"xpub", "action"} =>
       s.account \in Signers[s.wallet] /\ Fingerprint[s.account] = s.print
  /\ s.phase = "action" => s.account = r.device
  /\ s.phase = "action" /\ s.state = "waiting" /\ s.op.kind = "address" => s.print \in s.registrations
  /\ s.state = "complete" => /\ s.phase = "action"
                             /\ s.op.kind = "address" => s.print \in s.registrations

\* What the reply that completed a session was.
Completed(s, reply) ==
  s.state = "complete" =>
    /\ s.op.kind = "register" => reply.policy = s.wallet
    /\ s.op.kind = "address" => /\ reply.kind = "address" /\ reply.policy = s.wallet
                                /\ reply.index = s.op.index

\* The fields that sending a command or failing leave alone.
Same(t, s) ==
  /\ t.wallet = s.wallet /\ t.op = s.op /\ t.registrations = s.registrations
  /\ t.phase = s.phase /\ t.account = s.account /\ t.print = s.print

LEMMA FailedSame ==
  ASSUME NEW s \in Sessions
  PROVE  Failed(s) \in Sessions /\ Same(Failed(s), s) /\ Failed(s).state = "failed"
BY DEF Failed, Closed, Sessions, States, Same

LEMMA TransmitSame ==
  ASSUME NEW s \in Sessions, NEW c \in Commands
  PROVE  /\ Transmit(s, c) \in Sessions /\ Same(Transmit(s, c), s)
         /\ Transmit(s, c).state \in {s.state, "failed"}
<1>1. CASE s.step < MaxExchanges
  <2> DEFINE t == [s EXCEPT !.step = @ + 1, !.packets = c, !.reader = 0]
  <2>1. Transmit(s, c) = t
    BY <1>1 DEF Transmit
  <2>2. t \in Sessions
    <3>1. s.step + 1 \in Nat
      BY DEF Sessions
    <3> QED BY <3>1 DEF Sessions
  <2>3. Same(t, s) /\ t.state = s.state
    BY DEF Sessions, Same
  <2> QED BY <2>1, <2>2, <2>3
<1>2. CASE ~(s.step < MaxExchanges)
  BY <1>2, FailedSame DEF Transmit
<1> QED BY <1>1, <1>2

LEMMA FailedEstablished ==
  ASSUME NEW r \in Requests, NEW s, Established(s, r)
  PROVE  Established(Failed(s), r) /\ Failed(s).state = "failed" /\ Failed(s).registrations = s.registrations
BY FailedSame DEF Established, Same

LEMMA ProgressEstablished ==
  ASSUME NEW r \in Requests, NEW s, Established(s, r)
  PROVE  Established(Progress(s), r) /\ Progress(s).registrations = s.registrations
         /\ (Progress(s).state = "complete" => Progress(s) = s)
BY FailedEstablished DEF Progress

\* Sending a command completes nothing and forgets nothing.
LEMMA TransmitEstablished ==
  ASSUME NEW r \in Requests, NEW s, Established(s, r), s.state = "waiting", NEW c \in Commands
  PROVE  /\ Established(Transmit(s, c), r) /\ Transmit(s, c).state # "complete"
         /\ Transmit(s, c).registrations = s.registrations
BY TransmitSame DEF Established, Same

\* The operation itself, once the device has shown to be the signer.
LEMMA ActEstablished ==
  ASSUME NEW r \in Requests, NEW s \in Sessions, s.wallet = r.wallet, s.op = r.op, s.state = "waiting",
         s.phase = "action", s.account = r.device, s.account \in Signers[s.wallet],
         Fingerprint[s.account] = s.print, NEW reply
  PROVE  /\ Established(Act(s), r) /\ Completed(Act(s), reply)
         /\ Act(s).registrations = s.registrations
<1>1. r.op \in Operations /\ r.wallet \in Wallets
  BY DEF Requests
<1>2. CASE s.op.kind = "inspect"
  BY <1>1, <1>2 DEF Act, Finish, Established, Completed, Sessions, States
<1>3. CASE s.op.kind = "register"
  <2>1. Command("register", s.wallet, None) \in Commands
    BY <1>1 DEF Command, Commands, Asking
  <2>2. Established(s, r)
    BY <1>3 DEF Established
  <2>3. Act(s) = Transmit(s, Command("register", s.wallet, None))
    BY <1>3 DEF Act
  <2> QED BY <2>1, <2>2, <2>3, TransmitEstablished DEF Completed
<1>4. CASE s.op.kind = "address" /\ s.print \in s.registrations
  <2>1. Command("address", s.wallet, s.op.index) \in Commands
    BY <1>1, <1>4 DEF Command, Commands, Asking, Operations
  <2>2. Established(s, r)
    BY <1>4 DEF Established
  <2>3. Act(s) = Transmit(s, Command("address", s.wallet, s.op.index))
    BY <1>4 DEF Act
  <2> QED BY <2>1, <2>2, <2>3, TransmitEstablished DEF Completed
<1>5. CASE s.op.kind = "address" /\ s.print \notin s.registrations
  <2>1. Act(s) = Failed(s)
    BY <1>5 DEF Act
  <2> QED BY <2>1, FailedSame DEF Same, Established, Completed
<1> QED BY <1>1, <1>2, <1>3, <1>4, <1>5 DEF Operations

\* A complete reply of the device takes a waiting session one step further, or
\* fails it; what it establishes is what the code confirmed in that order.
LEMMA HandleEstablished ==
  ASSUME NEW r \in Requests, NEW s, Established(s, r), s.state = "waiting",
         NEW reply \in Letters, reply.device = r.device
  PROVE  /\ Established(Handle(s, reply), r) /\ Completed(Handle(s, reply), reply)
         /\ Handle(s, reply).registrations = s.registrations
<1> DEFINE account == {d \in Signers[s.wallet] : Fingerprint[d] = Fingerprint[reply.device]}
           Good(t) == Established(t, r) /\ Completed(t, reply) /\ t.registrations = s.registrations
<1>0. /\ s \in Sessions /\ r.wallet \in Wallets /\ s.wallet = r.wallet /\ r.device \in Devices
      /\ Signers[s.wallet] \subseteq Devices
  BY SignersAssumption DEF Established, Requests
<1>1. Good(Failed(s))
  BY FailedEstablished DEF Completed
<1>2. \A c \in Commands : Good(Transmit(s, c))
  BY TransmitEstablished DEF Completed
<1>3. /\ Command("print", None, None) \in Commands
      /\ Command("xpub", s.wallet, None) \in Commands
  BY <1>0 DEF Command, Commands, Asking
<1>4. CASE ~Expected(s, reply)
  <2>1. Handle(s, reply) = Failed(s)
    BY <1>4 DEF Handle
  <2> QED BY <1>1, <2>1
<1>5. CASE Expected(s, reply) /\ reply.kind = "info"
  <2> DEFINE t == [s EXCEPT !.phase = "print"]
  <2>1. Handle(s, reply) = Transmit(t, Command("print", None, None))
    BY <1>5 DEF Handle
  <2>2. t \in Sessions /\ t.phase = "print" /\ t.state = s.state /\ t.registrations = s.registrations
        /\ t.wallet = s.wallet /\ t.op = s.op
    BY <1>0 DEF Sessions
  <2> HIDE DEF t
  <2>3. Established(t, r) /\ t.state = "waiting"
    BY <2>2 DEF Established
  <2> QED BY <1>3, <2>1, <2>2, <2>3, TransmitEstablished DEF Completed
<1>6. CASE Expected(s, reply) /\ reply.kind = "print" /\ account # {}
  <2> DEFINE signer == CHOOSE d \in account : TRUE
             t == [s EXCEPT !.phase = "xpub", !.account = signer, !.print = Fingerprint[reply.device]]
  <2>1. Handle(s, reply) = Transmit(t, Command("xpub", s.wallet, None))
    BY <1>6 DEF Handle
  <2>2. signer \in Signers[s.wallet] /\ Fingerprint[signer] = Fingerprint[reply.device]
    BY <1>6
  <2>3. Fingerprint[reply.device] \in Prints
    BY DEF Letters, Prints
  <2> HIDE DEF signer
  <2>4. /\ t \in Sessions /\ t.phase = "xpub" /\ t.state = s.state /\ t.registrations = s.registrations
        /\ t.wallet = s.wallet /\ t.op = s.op /\ t.account = signer /\ t.print = Fingerprint[reply.device]
    BY <1>0, <2>2, <2>3 DEF Sessions
  <2> HIDE DEF t
  <2>5. Established(t, r) /\ t.state = "waiting" /\ t.registrations = s.registrations
    BY <2>2, <2>4 DEF Established
  <2> QED BY <1>0, <1>3, <2>1, <2>5, TransmitEstablished DEF Completed
<1>7. CASE Expected(s, reply) /\ reply.kind = "xpub"
  <2>1. s.phase = "xpub"
    BY <1>7 DEF Expected
  <2>2. CASE reply.device = s.account /\ reply.policy = s.wallet
    <3> DEFINE t == [s EXCEPT !.phase = "action"]
    <3>1. Handle(s, reply) = Act(t)
      BY <1>7, <2>2 DEF Handle
    <3>2. /\ t \in Sessions /\ t.wallet = r.wallet /\ t.op = r.op /\ t.state = "waiting"
          /\ t.phase = "action" /\ t.account = r.device /\ t.account \in Signers[t.wallet]
          /\ Fingerprint[t.account] = t.print /\ t.registrations = s.registrations
      BY <1>0, <2>1, <2>2 DEF Established, Sessions
    <3> HIDE DEF t
    <3> QED BY <3>1, <3>2, ActEstablished
  <2>3. CASE ~(reply.device = s.account /\ reply.policy = s.wallet)
    <3>1. Handle(s, reply) = Failed(s)
      BY <1>7, <2>3 DEF Handle
    <3> QED BY <1>1, <3>1
  <2> QED BY <2>2, <2>3
<1>8. CASE Expected(s, reply) /\ reply.kind = "more"
  <2>1. CASE s.phase = "xpub"
    <3>1. Handle(s, reply) = Transmit(s, Command("xpub", s.wallet, None))
      BY <1>8, <2>1 DEF Handle
    <3> QED BY <1>2, <1>3, <3>1
  <2>2. CASE s.phase = "action"
    <3>1. Handle(s, reply) = Act(s)
      BY <1>8, <2>2 DEF Handle
    <3> QED BY <1>0, <2>2, <3>1, ActEstablished DEF Established
  <2> QED BY <1>8, <2>1, <2>2, <1>0 DEF Expected, Sessions
<1>9. CASE Expected(s, reply) /\ reply.kind \in {"registered", "address"}
  <2>1. s.phase = "action" /\ (reply.kind = "registered" => s.op.kind = "register" /\ reply.policy = s.wallet)
        /\ (reply.kind = "address" => s.op.kind = "address")
    BY <1>0, <1>9 DEF Expected, Sessions
  <2>2. Handle(s, reply) = Failed(s)
        \/ /\ Handle(s, reply) = Finish(s)
           /\ reply.kind = "address" => reply.policy = s.wallet /\ reply.index = s.op.index
    BY <1>9 DEF Handle
  <2>3. Established(Finish(s), r) /\ Finish(s).registrations = s.registrations /\ Finish(s).op = s.op
        /\ Finish(s).wallet = s.wallet
    BY <1>0, <2>1 DEF Finish, Established, Sessions, States
  <2> QED BY <1>1, <1>9, <2>1, <2>2, <2>3 DEF Completed
<1>10. CASE Expected(s, reply) /\ reply.kind = "print" /\ account = {}
  <2>1. Handle(s, reply) = Failed(s)
    BY <1>10 DEF Handle
  <2> QED BY <1>1, <2>1
<1>11. CASE Expected(s, reply) /\ reply.kind \notin {"info", "print", "xpub", "more", "registered", "address"}
  <2>1. Handle(s, reply) = Failed(s)
    BY <1>11 DEF Handle
  <2> QED BY <1>1, <2>1
<1> QED BY <1>4, <1>5, <1>6, <1>7, <1>8, <1>9, <1>10, <1>11

\* Session::receive: whatever the report is.
LEMMA ReceivedEstablished ==
  ASSUME NEW r \in Requests, NEW s, Established(s, r), NEW step,
         NEW packet \in Packets, packet.reply.device = r.device
  PROVE  /\ Established(Received(s, step, packet), r)
         /\ Completed(Received(s, step, packet), packet.reply)
         /\ Received(s, step, packet).registrations = s.registrations
<1>1. CASE \/ Progress(s).state # "waiting" \/ step # s.step
           \/ s.reports = MaxReports \/ packet.part # s.reader
  <2>1. Received(s, step, packet) = Failed(s)
    BY <1>1 DEF Received
  <2> QED BY <2>1, FailedEstablished DEF Completed
<1>2. CASE ~(\/ Progress(s).state # "waiting" \/ step # s.step
             \/ s.reports = MaxReports \/ packet.part # s.reader)
  <2> DEFINE t == [s EXCEPT !.reports = @ + 1, !.packets = None, !.reader = @ + 1]
  <2>1. s.state = "waiting"
    BY <1>2, FailedEstablished DEF Progress
  <2>2. t \in Sessions /\ t.state = "waiting" /\ Same(t, s)
    <3>1. s \in Sessions /\ s.reports + 1 \in Nat /\ s.reader + 1 \in Nat
      BY DEF Established, Sessions
    <3> QED BY <2>1, <3>1 DEF Sessions, Same
  <2> HIDE DEF t
  <2>3. Established(t, r) /\ t.registrations = s.registrations
    BY <2>1, <2>2 DEF Established, Same
  <2>4. Received(s, step, packet) \in {t, Handle(t, packet.reply)}
    BY <1>2 DEF Received, t
  <2>5. packet.reply \in Letters
    BY DEF Packets
  <2>6. /\ Established(Handle(t, packet.reply), r) /\ Completed(Handle(t, packet.reply), packet.reply)
        /\ Handle(t, packet.reply).registrations = s.registrations
    BY <2>2, <2>3, <2>5, HandleEstablished
  <2> QED BY <2>2, <2>3, <2>4, <2>6 DEF Completed
<1> QED BY <1>1, <1>2

-----------------------------------------------------------------------------
(* The invariant *)

Running == {"open", "show", "write", "read", "receive"}

PacketsOf(d) == {p \in Packets : p.reply.device = d}

UsbTypes ==
  /\ table \in [Wallets \X Prints -> Entries \cup {None}]
  /\ issued \in [Wallets -> Nat]
  /\ job \in {"none", "prepare", "close"} \cup Running
  /\ request \in Requests \cup {None} /\ pending \in Requests \cup {None}
  /\ job # "none" => request \in Requests

\* A device answers for itself, whatever it answers.
DevicesAnswer ==
  /\ asked \in [Devices -> Seq(Commands)]
  /\ answers \in [Devices -> Seq(Packets)]
  /\ \A d \in Devices : answers[d] \in Seq(PacketsOf(d))

\* What an update that says "complete" promises.
Vouched(u) ==
  u.state = "complete" =>
    /\ request.device \in Signers[request.wallet] /\ Fingerprint[request.device] = u.print
    /\ request.op.kind # "inspect" => u.print \in Registered(request.wallet)
    /\ request.op.kind = "address" => /\ request.op.index < issued[request.wallet]
                                      /\ <<request.wallet, request.op.index>> \in told

\* The session, the coroutine's copy of it and the report agree with the
\* operation, and a complete session is published before anything else.
SessionStands ==
  /\ job \in Running => /\ Established(session, request)
                        /\ session.registrations \subseteq Registered(session.wallet)
  /\ job \in Running \ {"open"} => /\ update \in Updates
                                   /\ update.state = session.state /\ update.print = session.print
  /\ job = "show" => Vouched(update)
  /\ job \in Running \ {"show"} => session.state # "complete"
  /\ job = "receive" => report \in PacketsOf(request.device)

InfoVouched == info # None => request \in Requests /\ Vouched(info)

UInv == UsbTypes /\ DevicesAnswer /\ SessionStands /\ InfoVouched /\ RegistrationsGenuine

-----------------------------------------------------------------------------
(* The device's side *)

LEMMA RepliesOwn ==
  ASSUME NEW d \in Devices, NEW c \in Commands, NEW reply \in Replies(d, c)
  PROVE  reply \in Letters /\ reply.device = d
BY DEF Replies, Reply, Letters, Telling, Asking, Commands

LEMMA ReportsOwn ==
  ASSUME NEW d \in Devices, NEW reply \in Letters, reply.device = d
  PROVE  Reports(reply) \in Seq(PacketsOf(d))
<1>1. Parts(reply) \in {1, 2}
  BY DEF Parts
<1>2. \A n \in 1 .. Parts(reply) : [reply |-> reply, part |-> n - 1] \in PacketsOf(d)
  <2> SUFFICES ASSUME NEW n \in 1 .. Parts(reply)
               PROVE  [reply |-> reply, part |-> n - 1] \in PacketsOf(d)
    OBVIOUS
  <2>1. n - 1 \in Nat
    BY <1>1
  <2> QED BY <2>1 DEF PacketsOf, Packets
<1>3. Reports(reply) \in [1 .. Parts(reply) -> PacketsOf(d)]
  BY <1>2 DEF Reports
<1> QED BY <1>1, <1>3

LEMMA AnswersHold ==
  ASSUME UInv, [UsbNext]_vars
  PROVE  DevicesAnswer'
<1> USE DEF DevicesAnswer
<1>0. DevicesAnswer /\ SessionStands /\ UsbTypes
  BY DEF UInv
<1>1. \A d \in Devices : PacketsOf(d) \subseteq Packets /\ Seq(PacketsOf(d)) \subseteq Seq(Packets)
  BY DEF PacketsOf
<1>2. ASSUME UNCHANGED <<asked, answers>> PROVE DevicesAnswer'
  BY <1>0, <1>2
<1>3. CASE Open
  <2>1. PICK d \in Devices : d = request.device
    BY <1>0, <1>3 DEF Open, UsbTypes, Requests
  <2>2. PICK kept \in {answers[d], <<>>} : answers' = [answers EXCEPT ![d] = kept]
    BY <1>3, <2>1 DEF Open
  <2>3. <<>> \in Seq(PacketsOf(d)) /\ asked' = asked
    BY <1>3 DEF Open
  <2>4. kept \in Seq(PacketsOf(d)) /\ kept \in Seq(Packets)
    BY <1>0, <1>1, <2>2, <2>3
  <2> QED BY <1>0, <2>2, <2>3, <2>4
<1>4. CASE Write
  <2>1. CASE UNCHANGED asked
    BY <1>2, <1>4, <2>1 DEF Write, device
  <2>2. CASE update.packets # None /\ asked' = [asked EXCEPT ![request.device] = Append(@, update.packets)]
    <3>1. request.device \in Devices /\ update.packets \in Commands /\ answers' = answers
      BY <1>0, <1>4, <2>2 DEF Write, UsbTypes, Requests, SessionStands, Running, Updates
    <3>2. asked[request.device] \in Seq(Commands)
      BY <1>0, <3>1
    <3>3. Append(asked[request.device], update.packets) \in Seq(Commands)
      BY <3>1, <3>2
    <3> QED BY <1>0, <2>2, <3>1, <3>3
  <2> QED BY <1>4, <2>1, <2>2 DEF Write
<1>5. CASE Read
  <2>1. PICK d \in Devices : d = request.device
    BY <1>0, <1>5 DEF Read, UsbTypes, Requests
  <2>2. answers[d] # <<>> /\ answers' = [answers EXCEPT ![d] = Tail(@)] /\ asked' = asked
    BY <1>5, <2>1 DEF Read
  <2>3. Tail(answers[d]) \in Seq(PacketsOf(d))
    BY <1>0, <2>2
  <2> QED BY <1>0, <1>1, <2>2, <2>3
<1>6. ASSUME NEW d \in Devices, Answer(d) PROVE DevicesAnswer'
  <2>1. asked[d] \in Seq(Commands) /\ asked[d] # <<>> /\ asked' = [asked EXCEPT ![d] = Tail(@)]
    BY <1>0, <1>6 DEF Answer
  <2>2. Head(asked[d]) \in Commands /\ Tail(asked[d]) \in Seq(Commands)
    BY <2>1
  <2>3. PICK reply \in Replies(d, Head(asked[d])) :
          answers' = [answers EXCEPT ![d] = @ \o Reports(reply)]
    BY <1>6 DEF Answer
  <2>4. reply \in Letters /\ reply.device = d
    BY <2>2, <2>3, RepliesOwn
  <2>5. Reports(reply) \in Seq(PacketsOf(d))
    BY <2>4, ReportsOwn
  <2>6. answers[d] \o Reports(reply) \in Seq(PacketsOf(d))
    BY <1>0, <2>5
  <2> QED BY <1>0, <1>1, <2>1, <2>2, <2>3, <2>6
<1>7. ASSUME NEW d \in Devices, Unplug(d) PROVE DevicesAnswer'
  <2>1. <<>> \in Seq(Commands) /\ <<>> \in Seq(Packets) /\ <<>> \in Seq(PacketsOf(d))
    OBVIOUS
  <2> QED BY <1>0, <1>7, <2>1 DEF Unplug
<1>8. ASSUME NEW d \in Devices, Plug(d) PROVE DevicesAnswer'
  BY <1>2, <1>8 DEF Plug
<1>9. ASSUME NEW w \in Wallets, IssueAddress(w) PROVE DevicesAnswer'
  BY <1>2, <1>9 DEF IssueAddress, device
<1>10. ASSUME NEW r \in Requests, Launch(r) \/ AskPermission(r) PROVE DevicesAnswer'
  BY <1>2, <1>10 DEF Launch, AskPermission, Start, device
<1>11. CASE Granted \/ Denied \/ Stop \/ Kill \/ TimePasses
  BY <1>2, <1>11 DEF Granted, Denied, Stop, Kill, TimePasses, Start, device
<1>12. CASE Prepare \/ Show \/ ReadTimesOut \/ LinkFails \/ Receive \/ StorageFails \/ Close
  BY <1>2, <1>12 DEF Prepare, Show, ReadTimesOut, LinkFails, Receive, StorageFails, Close, device
<1>13. CASE UNCHANGED vars
  BY <1>2, <1>13 DEF vars, device
<1> QED BY <1>3, <1>4, <1>5, <1>6, <1>7, <1>8, <1>9, <1>10, <1>11, <1>12, <1>13 DEF UsbNext, Coroutine

-----------------------------------------------------------------------------
(* A report reaches the session *)

\* Receive is the step all of it hangs on: a session that completes confirmed
\* the signer, and what it saves and shows is the device's own answer.
LEMMA ReceiveEstablishes ==
  ASSUME UInv, Receive
  PROVE  /\ Established(session', request) /\ Completed(session', report.reply)
         /\ session'.registrations \subseteq Registered(session'.wallet)
         /\ session'.state = "complete" => Issued(request.wallet, request.op)
<1>1. PICK s, r, packet, step : s = session /\ r = request /\ packet = report /\ step = update.step
  OBVIOUS
<1>2. Established(s, r) /\ s.registrations \subseteq Registered(s.wallet)
  BY <1>1 DEF UInv, SessionStands, Running, Receive
<1>3. r \in Requests
  BY <1>1 DEF UInv, UsbTypes, Receive
<1>4. packet \in Packets /\ packet.reply.device = r.device
  <2>1. report \in PacketsOf(request.device)
    BY DEF UInv, SessionStands, Receive
  <2> QED BY <1>1, <2>1 DEF PacketsOf
<1> DEFINE t == Received(s, step, packet)
<1>5. Established(t, r) /\ Completed(t, packet.reply) /\ t.registrations = s.registrations
  BY <1>2, <1>3, <1>4, ReceivedEstablished
<1>6. t.wallet = s.wallet
  BY <1>2, <1>5 DEF Established
<1> HIDE DEF t
<1>7. session' = Revalidated(t)
  BY <1>1 DEF Receive, t
<1>8. CASE t.state = "complete" /\ ~Issued(t.wallet, t.op)
  <2>1. session' = Failed(t)
    BY <1>7, <1>8 DEF Revalidated
  <2>2. /\ Established(Failed(t), r) /\ Failed(t).state = "failed"
        /\ Failed(t).registrations = t.registrations
    BY <1>3, <1>5, FailedEstablished
  <2>3. Failed(t).wallet = s.wallet
    BY <1>2, <2>2 DEF Established
  <2> QED BY <1>1, <1>2, <1>5, <2>1, <2>2, <2>3 DEF Completed
<1>9. CASE ~(t.state = "complete" /\ ~Issued(t.wallet, t.op))
  <2>1. session' = t
    BY <1>7, <1>9 DEF Revalidated
  <2>2. t.wallet = r.wallet /\ t.op = r.op
    BY <1>5 DEF Established
  <2> QED BY <1>1, <1>2, <1>5, <1>6, <1>9, <2>1, <2>2
<1> QED BY <1>8, <1>9

LEMMA GenuineEntry ==
  ASSUME RegistrationsGenuine, NEW w \in Wallets, NEW f \in Prints, table[<<w, f>>] # None
  PROVE  \E d \in Signers[w] : Fingerprint[d] = f /\ table[<<w, f>>] = [device |-> d, policy |-> w]
<1>1. \A x \in Prints : table[<<w, x>>] # None =>
        \E d \in Signers[w] : Fingerprint[d] = x /\ table[<<w, x>>] = [device |-> d, policy |-> w]
  BY Zenon DEF RegistrationsGenuine
<1> QED BY <1>1, Zenon

\* What is saved is genuine, and nothing saved before is lost.
LEMMA ReceiveSaves ==
  ASSUME UInv, Receive
  PROVE  /\ table' \in [Wallets \X Prints -> Entries \cup {None}]
         /\ RegistrationsGenuine'
         /\ \A w \in Wallets : Registered(w) \subseteq Registered(w)'
         /\ session'.state = "complete" =>
              /\ request.device \in Signers[request.wallet]
              /\ Fingerprint[request.device] = session'.print
              /\ request.op.kind = "register" => session'.print \in Registered(request.wallet)'
<1>1. PICK s, r, reply : s = session' /\ r = request /\ reply = report.reply
  OBVIOUS
<1>2. Established(s, r) /\ Completed(s, reply)
  BY <1>1, ReceiveEstablishes
<1>3. r \in Requests /\ table \in [Wallets \X Prints -> Entries \cup {None}] /\ RegistrationsGenuine
  BY <1>1 DEF UInv, UsbTypes, Receive
<1>4. reply \in Letters /\ reply.device = r.device
  <2>1. report \in PacketsOf(request.device)
    BY DEF UInv, SessionStands, Receive
  <2> QED BY <1>1, <2>1 DEF PacketsOf, Packets
<1>5. s.wallet = r.wallet /\ s.op = r.op /\ r.wallet \in Wallets /\ r.device \in Devices
  BY <1>2, <1>3 DEF Established, Requests
<1>6. s.state = "complete" => r.device \in Signers[r.wallet] /\ Fingerprint[r.device] = s.print /\ s.print \in Prints
  BY <1>2, <1>5 DEF Established, Prints
<1>9. request' = request
  BY DEF Receive, dialog
<1> DEFINE entry == [device |-> r.device, policy |-> r.wallet]
<1>7. CASE s.state = "complete" /\ s.op.kind = "register"
  <2>1. reply.policy = r.wallet
    BY <1>2, <1>5, <1>7 DEF Completed
  <2>2. table' = [table EXCEPT ![<<r.wallet, s.print>>] = entry]
    BY <1>1, <1>4, <1>5, <1>7, <2>1 DEF Receive, Saved
  <2>3. entry \in Entries
    BY <1>5 DEF Entries
  <2>4. entry # None
    BY <2>3, AbsentAssumption DEF Entries
  <2>5. table' \in [Wallets \X Prints -> Entries \cup {None}]
    BY <1>3, <1>5, <1>6, <1>7, <2>2, <2>3
  <2>6. \A w \in Wallets, f \in Prints :
          table'[<<w, f>>] = IF w = r.wallet /\ f = s.print THEN entry ELSE table[<<w, f>>]
    BY <1>3, <2>2
  <2> HIDE DEF entry
  <2>7. \A w \in Wallets : Registered(w) \subseteq Registered(w)'
    BY <2>4, <2>6 DEF Registered
  <2>8. s.print \in Registered(r.wallet)'
    BY <1>5, <1>6, <1>7, <2>4, <2>6 DEF Registered
  <2>9. RegistrationsGenuine'
    <3>1. ASSUME NEW w \in Wallets, NEW f \in Prints, table'[<<w, f>>] # None
          PROVE  \E d \in Signers[w] : Fingerprint[d] = f /\ table'[<<w, f>>] = [device |-> d, policy |-> w]
      <4>1. CASE w = r.wallet /\ f = s.print
        BY <1>6, <1>7, <2>6, <4>1 DEF entry
      <4>2. CASE w # r.wallet \/ f # s.print
        <5>1. table'[<<w, f>>] = table[<<w, f>>]
          BY <2>6, <4>2
        <5>2. PICK d \in Signers[w] : Fingerprint[d] = f /\ table[<<w, f>>] = [device |-> d, policy |-> w]
          BY <1>3, <3>1, <5>1, GenuineEntry
        <5> QED BY <5>1, <5>2
      <4> QED BY <4>1, <4>2
    <3> QED BY <3>1 DEF RegistrationsGenuine
  <2> QED BY <1>1, <1>6, <1>9, <2>5, <2>7, <2>8, <2>9 DEF Registered
<1>8. CASE ~(s.state = "complete" /\ s.op.kind = "register")
  <2>1. table' = table
    BY <1>1, <1>8 DEF Receive, Saved
  <2>2. RegistrationsGenuine'
    <3>1. ASSUME NEW w \in Wallets, NEW f \in Prints, table'[<<w, f>>] # None
          PROVE  \E d \in Signers[w] : Fingerprint[d] = f /\ table'[<<w, f>>] = [device |-> d, policy |-> w]
      <4>1. PICK d \in Signers[w] : Fingerprint[d] = f /\ table[<<w, f>>] = [device |-> d, policy |-> w]
        <5>1. table[<<w, f>>] # None
          BY <2>1, <3>1
        <5>2. RegistrationsGenuine
          BY <1>3
        <5> QED BY <5>1, <5>2, GenuineEntry
      <4> QED BY <2>1, <4>1
    <3> QED BY <3>1 DEF RegistrationsGenuine
  <2>3. \A w \in Wallets : Registered(w)' = Registered(w)
    BY <2>1 DEF Registered
  <2> QED BY <1>1, <1>3, <1>5, <1>6, <1>8, <2>1, <2>2, <2>3
<1> QED BY <1>7, <1>8

\* An address is shown after this device gave it to this operation.
LEMMA ReceiveTells ==
  ASSUME UInv, Receive
  PROVE  session'.state = "complete" /\ request.op.kind = "address" =>
           <<request.wallet, request.op.index>> \in told'
<1>1. PICK s, r, reply : s = session' /\ r = request /\ reply = report.reply
  OBVIOUS
<1>2. Established(s, r) /\ Completed(s, reply)
  BY <1>1, ReceiveEstablishes
<1>3. r \in Requests
  BY <1>1 DEF UInv, UsbTypes, Receive
<1>4. reply \in Letters
  <2>1. report \in PacketsOf(request.device)
    BY DEF UInv, SessionStands, Receive
  <2> QED BY <1>1, <2>1 DEF PacketsOf, Packets
<1>5. told' = told \cup {<<a.policy, a.index>> : a \in {reply} \cap Addresses}
  BY <1>1 DEF Receive
<1>6. ASSUME s.state = "complete", r.op.kind = "address"
      PROVE  <<r.wallet, r.op.index>> \in told'
  <2>1. s.wallet = r.wallet /\ s.op = r.op /\ r.wallet \in Wallets /\ r.op.index \in Indexes
    BY <1>2, <1>3, <1>6, AbsentAssumption DEF Established, Requests, Operations
  <2>2. reply.kind = "address" /\ reply.policy = r.wallet /\ reply.index = r.op.index
    BY <1>2, <1>6, <2>1 DEF Completed
  <2>3. reply = Reply("address", reply.device, r.wallet, r.op.index) /\ reply.device \in Devices
    BY <1>4, <2>2 DEF Reply, Letters
  <2>4. reply \in Addresses
    BY <2>1, <2>3 DEF Addresses
  <2> QED BY <1>5, <2>2, <2>4
<1> QED BY <1>1, <1>6

-----------------------------------------------------------------------------
(* Every step *)

LEMMA SessionEstablished ==
  ASSUME NEW r \in Requests
  PROVE  /\ Established(Session(r), r) /\ Session(r).state # "complete"
         /\ Session(r).registrations = Registered(r.wallet)
<1> DEFINE s == [wallet |-> r.wallet, op |-> r.op, registrations |-> Registered(r.wallet),
                 state |-> "waiting", phase |-> "info", account |-> None, print |-> None,
                 step |-> 0, packets |-> None, reader |-> 0, reports |-> 0, expired |-> FALSE]
<1>1. s \in Sessions
  BY DEF Requests, Registered, Sessions, States
<1>2. Established(s, r) /\ s.state = "waiting" /\ s.registrations = Registered(r.wallet)
  BY <1>1 DEF Established
<1>3. Command("info", None, None) \in Commands
  BY DEF Command, Commands, Asking
<1>4. Session(r) = Transmit(s, Command("info", None, None))
  BY DEF Session
<1> HIDE DEF s
<1> QED BY <1>2, <1>3, <1>4, TransmitEstablished

\* What was promised of an update stays true while the operation lasts.
LEMMA VouchedKept ==
  ASSUME UInv, NEW u, Vouched(u), request \in Requests, request' = request, told \subseteq told',
         \A w \in Wallets : Registered(w) \subseteq Registered(w)',
         \A w \in Wallets : issued'[w] \in Nat /\ issued[w] <= issued'[w]
  PROVE  Vouched(u)'
<1>1. PICK r \in Requests : r = request
  OBVIOUS
<1>2. r.wallet \in Wallets /\ (r.op.kind = "address" => r.op.index \in Nat) /\ issued[r.wallet] \in Nat
  BY AbsentAssumption DEF Requests, Operations, UInv, UsbTypes
<1>3. Registered(r.wallet) \subseteq Registered(r.wallet)'
  BY <1>2
<1>4. r.op.kind = "address" /\ r.op.index < issued[r.wallet] => r.op.index < issued'[r.wallet]
  BY <1>2
<1> QED BY <1>1, <1>2, <1>3, <1>4 DEF Vouched, Registered

\* Steps that touch nothing the session depends on.
LEMMA SessionUntouched ==
  ASSUME UInv, UNCHANGED <<table, job, request, session, update, report, told>>,
         \A w \in Wallets : issued'[w] \in Nat /\ issued[w] <= issued'[w]
  PROVE  SessionStands'
<1>1. SessionStands /\ UsbTypes
  BY DEF UInv
<1>2. PICK s, r, u : s = session /\ r = request /\ u = update
  OBVIOUS
<1>3. job = "show" => Vouched(u)'
  <2> SUFFICES ASSUME job = "show" PROVE Vouched(u)'
    OBVIOUS
  <2>1. \A w \in Wallets : Registered(w) \subseteq Registered(w)'
    BY DEF Registered
  <2> QED BY <2>1, <1>1, <1>2, VouchedKept DEF SessionStands, UsbTypes
<1>4. job = "show" => Vouched(update)'
  BY <1>2, <1>3 DEF Vouched
<1>5. job \in Running => session.registrations \subseteq Registered(session.wallet)'
  BY <1>1 DEF SessionStands, Registered
<1>6. /\ job' = job /\ request' = request /\ session' = session /\ update' = update /\ report' = report
  OBVIOUS
<1> QED BY <1>1, <1>4, <1>5, <1>6 DEF SessionStands, Registered

LEMMA TypesHold ==
  ASSUME UInv, [UsbNext]_vars
  PROVE  UsbTypes'
<1>0. UsbTypes
  BY DEF UInv
<1>1. CASE Receive
  <2>1. table' \in [Wallets \X Prints -> Entries \cup {None}]
    BY <1>1, ReceiveSaves
  <2>2. job' \in {"close", "show"} /\ UNCHANGED <<issued, request, pending>> /\ request \in Requests
    BY <1>0, <1>1 DEF Receive, dialog, UsbTypes
  <2> QED BY <1>0, <2>1, <2>2 DEF UsbTypes, Running, Prints
<1>2. ASSUME UNCHANGED <<table, issued>>, job' = job \/ (job # "none" /\ job' \in {"none", "close"} \cup Running),
             UNCHANGED <<request, pending>> \/ (request' = request /\ pending' = None)
      PROVE  UsbTypes'
  BY <1>0, <1>2 DEF UsbTypes, Running, Prints
<1>3. CASE Prepare \/ Open \/ Show \/ Write \/ Read \/ ReadTimesOut \/ LinkFails \/ StorageFails \/ Close
  <2>1. UNCHANGED <<table, issued, request, pending>>
    BY <1>3 DEF Prepare, Open, Show, Write, Read, ReadTimesOut, LinkFails, StorageFails, Close, wallet, dialog
  <2>2. job # "none" /\ job' \in {"none", "close"} \cup Running
    BY <1>3 DEF Prepare, Open, Show, Write, Read, ReadTimesOut, LinkFails, StorageFails, Close, Goes, Running
  <2> QED BY <1>2, <2>1, <2>2
<1>4. CASE Denied \/ Stop \/ TimePasses
  BY <1>2, <1>4 DEF Denied, Stop, TimePasses, wallet, dialog
<1>5. CASE Kill
  BY <1>0, <1>5 DEF Kill, wallet, UsbTypes, Prints
<1>6. ASSUME NEW r \in Requests, Start(r), pending' \in {pending, None} PROVE UsbTypes'
  BY <1>0, <1>6 DEF Start, wallet, UsbTypes, Prints
<1>7. ASSUME NEW r \in Requests, Launch(r) PROVE UsbTypes'
  BY <1>6, <1>7 DEF Launch
<1>8. ASSUME NEW r \in Requests, AskPermission(r) PROVE UsbTypes'
  BY <1>0, <1>8 DEF AskPermission, wallet, UsbTypes, Prints
<1>9. CASE Granted
  <2>1. PICK r : r = pending
    OBVIOUS
  <2>2. r \in Requests /\ Start(r) /\ pending' = None
    BY <1>0, <1>9, <2>1 DEF Granted, UsbTypes
  <2> QED BY <1>6, <2>2
<1>10. ASSUME NEW d \in Devices, Answer(d) \/ Unplug(d) \/ Plug(d) PROVE UsbTypes'
  BY <1>2, <1>10 DEF Answer, Unplug, Plug, wallet, dialog
<1>11. ASSUME NEW w \in Wallets, IssueAddress(w) PROVE UsbTypes'
  <2>1. issued[w] + 1 \in Nat
    BY <1>0 DEF UsbTypes
  <2> QED BY <1>0, <1>11, <2>1 DEF IssueAddress, dialog, UsbTypes, Prints
<1>12. CASE UNCHANGED vars
  BY <1>2, <1>12 DEF vars, wallet, dialog
<1> QED BY <1>1, <1>3, <1>4, <1>5, <1>7, <1>8, <1>9, <1>10, <1>11, <1>12 DEF UsbNext, Coroutine

LEMMA GenuineHolds ==
  ASSUME UInv, [UsbNext]_vars
  PROVE  RegistrationsGenuine'
<1>1. CASE Receive
  BY <1>1, ReceiveSaves
<1>2. ASSUME table' = table PROVE RegistrationsGenuine'
  <2>1. ASSUME NEW w \in Wallets, NEW f \in Prints, table'[<<w, f>>] # None
        PROVE  \E d \in Signers[w] : Fingerprint[d] = f /\ table'[<<w, f>>] = [device |-> d, policy |-> w]
    <3>1. PICK d \in Signers[w] : Fingerprint[d] = f /\ table[<<w, f>>] = [device |-> d, policy |-> w]
      BY <1>2, <2>1, GenuineEntry DEF UInv
    <3> QED BY <1>2, <3>1
  <2> QED BY <2>1 DEF RegistrationsGenuine
<1>3. ~Receive => table' = table
  BY DEF UsbNext, Coroutine, Launch, AskPermission, Granted, Denied, Start, Stop, Kill, TimePasses,
         Prepare, Open, Show, Write, Read, ReadTimesOut, LinkFails, StorageFails, Close,
         Answer, Unplug, Plug, IssueAddress, vars, wallet
<1> QED BY <1>1, <1>2, <1>3

LEMMA SessionHolds ==
  ASSUME UInv, [UsbNext]_vars
  PROVE  SessionStands'
<1>0. UsbTypes /\ SessionStands
  BY DEF UInv
<1>1. PICK s, r, u : s = session /\ r = request /\ u = update
  OBVIOUS
<1>2. \A w \in Wallets : issued[w] \in Nat
  BY <1>0 DEF UsbTypes
<1>3. ASSUME job' \notin Running PROVE SessionStands'
  BY <1>3 DEF SessionStands, Running
<1>4. ASSUME UNCHANGED <<table, issued, job, request, session, update, report, told>>
      PROVE  SessionStands'
  BY <1>2, <1>4, SessionUntouched
<1>5. ASSUME job \in Running PROVE r \in Requests /\ Established(s, r) /\ s.registrations \subseteq Registered(s.wallet)
  BY <1>0, <1>1, <1>5 DEF UsbTypes, SessionStands, Running
<1>6. CASE Prepare
  <2>1. CASE session' = Session(request)
    <3>1. r \in Requests /\ request' = r /\ table' = table
      BY <1>0, <1>1, <1>6 DEF Prepare, UsbTypes, wallet, dialog
    <3>2. /\ Established(Session(r), r) /\ Session(r).state # "complete"
          /\ Session(r).registrations = Registered(r.wallet)
      BY <3>1, SessionEstablished
    <3>3. job' \in {"open", "close"} /\ session' = Session(r)
      BY <1>1, <1>6, <2>1 DEF Prepare, Goes
    <3>4. Session(r).wallet = r.wallet
      BY <3>2 DEF Established
    <3> QED BY <3>1, <3>2, <3>3, <3>4 DEF SessionStands, Running, Registered
  <2>2. CASE job' = "close"
    BY <1>3, <2>2 DEF Running
  <2> QED BY <1>6, <2>1, <2>2 DEF Prepare
<1>7. CASE Open
  <2>1. PICK t : t = Progress(s)
    OBVIOUS
  <2>2. /\ Established(t, r) /\ t.registrations = s.registrations /\ t.state # "complete"
        /\ s.registrations \subseteq Registered(s.wallet)
    BY <1>0, <1>1, <1>5, <1>7, <2>1, ProgressEstablished DEF Open, SessionStands, Running
  <2>3. /\ session' = t /\ update' = Update(t) /\ request' = r /\ job' \in {"show", "close"}
        /\ table' = table
    BY <1>1, <1>7, <2>1 DEF Open, Goes, dialog, wallet
  <2>4. Update(t) \in Updates /\ Update(t).state = t.state /\ Update(t).print = t.print
    BY <2>2 DEF Established, Update, Updates, Sessions
  <2>5. Vouched(update)'
    BY <2>2, <2>3, <2>4 DEF Vouched
  <2>6. t.wallet = s.wallet
    BY <1>5, <1>7, <2>2 DEF Established, Open, Running
  <2> QED BY <2>2, <2>3, <2>4, <2>5, <2>6 DEF SessionStands, Running, Registered
<1>8. CASE Show
  <2>1. UNCHANGED <<table, request, session, update>> /\ job' \in {"write", "close"}
        /\ (job' = "write" => update.state = "waiting")
    BY <1>8 DEF Show, Goes, wallet, core
  <2>2. u.state = s.state /\ Established(s, r) /\ s.registrations \subseteq Registered(s.wallet) /\ u \in Updates
        /\ u.print = s.print
    BY <1>0, <1>1, <1>5, <1>8 DEF Show, SessionStands, Running
  <2> QED BY <1>1, <2>1, <2>2 DEF SessionStands, Running, Registered
<1>9. CASE Write
  <2>1. UNCHANGED <<table, request, session, update>> /\ job' \in {"read", "close"}
    BY <1>9 DEF Write, wallet, core, dialog
  <2>2. u.state = s.state /\ Established(s, r) /\ s.registrations \subseteq Registered(s.wallet) /\ u \in Updates
        /\ u.print = s.print /\ s.state # "complete"
    BY <1>0, <1>1, <1>5, <1>9 DEF Write, SessionStands, Running
  <2> QED BY <1>1, <2>1, <2>2 DEF SessionStands, Running, Registered
<1>10. CASE Read
  <2>1. UNCHANGED <<table, request, session, update>> /\ job' \in {"receive", "close"}
        /\ answers[request.device] # <<>> /\ report' = Head(answers[request.device])
    BY <1>10 DEF Read, Goes, wallet, dialog
  <2>2. u.state = s.state /\ Established(s, r) /\ s.registrations \subseteq Registered(s.wallet) /\ u \in Updates
        /\ u.print = s.print /\ s.state # "complete" /\ r \in Requests
    BY <1>0, <1>1, <1>5, <1>10 DEF Read, SessionStands, Running
  <2>3. PICK d \in Devices : d = r.device
    BY <2>2 DEF Requests
  <2>4. answers[d] \in Seq(PacketsOf(d)) /\ answers[d] # <<>>
    BY <1>1, <2>1, <2>3 DEF UInv, DevicesAnswer
  <2>5. Head(answers[d]) \in PacketsOf(d)
    BY <2>4
  <2>6. report' \in PacketsOf(request'.device)
    BY <1>1, <2>1, <2>3, <2>5 DEF PacketsOf
  <2> QED BY <1>1, <2>1, <2>2, <2>6 DEF SessionStands, Running, Registered, PacketsOf
<1>11. CASE ReadTimesOut
  <2>1. CASE stopped
    <3>1. job' = "close"
      BY <1>11, <2>1 DEF ReadTimesOut, Goes
    <3> QED BY <1>3, <3>1 DEF Running
  <2>2. CASE ~stopped
    <3>1. PICK t : t = Progress(s)
      OBVIOUS
    <3>2. /\ Established(t, r) /\ t.registrations = s.registrations /\ t.state # "complete"
          /\ s.registrations \subseteq Registered(s.wallet)
      BY <1>0, <1>1, <1>5, <1>11, <3>1, ProgressEstablished DEF ReadTimesOut, SessionStands, Running
    <3>3. session' = t /\ update' = Polled(t) /\ request' = r /\ job' = "show" /\ table' = table
      BY <1>1, <1>11, <2>2, <3>1 DEF ReadTimesOut, Goes, dialog, wallet
    <3>4. Polled(t) \in Updates /\ Polled(t).state = t.state /\ Polled(t).print = t.print
      BY <3>2 DEF Established, Update, Polled, Updates, Sessions
    <3>5. Vouched(update)'
      BY <3>2, <3>3, <3>4 DEF Vouched
    <3>6. t.wallet = s.wallet
      BY <1>5, <1>11, <3>2 DEF Established, ReadTimesOut, Running
    <3> QED BY <3>2, <3>3, <3>4, <3>5, <3>6 DEF SessionStands, Running, Registered
  <2> QED BY <2>1, <2>2
<1>12. CASE Receive
  <2>1. CASE job' = "close"
    BY <1>3, <2>1 DEF Running
  <2>2. CASE job' = "show"
    <3>1. PICK t : t = session'
      OBVIOUS
    <3>2. /\ Established(t, r) /\ t.registrations \subseteq Registered(t.wallet)
          /\ t.state = "complete" => Issued(r.wallet, r.op)
      BY <1>1, <1>12, <3>1, ReceiveEstablishes
    <3>3. update' = Update(t) /\ request' = r /\ issued' = issued /\ r \in Requests
      BY <1>0, <1>1, <1>12, <2>2, <3>1 DEF Receive, dialog, UsbTypes
    <3>4. Update(t) \in Updates /\ Update(t).state = t.state /\ Update(t).print = t.print
      BY <3>2 DEF Established, Update, Updates, Sessions
    <3>5. t.wallet = r.wallet /\ t.op = r.op /\ r.wallet \in Wallets /\ r.op \in Operations
          /\ (t.state = "complete" => t.phase = "action")
      BY <3>2, <3>3 DEF Established, Requests
    <3>6. Registered(r.wallet) \subseteq Registered(r.wallet)'
      BY <1>12, <3>5, ReceiveSaves
    <3>7. t.state = "complete" =>
            /\ r.device \in Signers[r.wallet] /\ Fingerprint[r.device] = t.print
            /\ r.op.kind = "register" => t.print \in Registered(r.wallet)'
      BY <1>1, <1>12, <3>1, <3>3, ReceiveSaves DEF Registered
    <3>8. t.state = "complete" /\ r.op.kind = "address" => <<r.wallet, r.op.index>> \in told'
      BY <1>1, <1>12, <3>1, ReceiveTells
    <3>9. t.state = "complete" /\ r.op.kind = "address" =>
            t.print \in Registered(r.wallet)' /\ r.op.index < issued'[r.wallet]
      BY <3>2, <3>3, <3>5, <3>6 DEF Established, Issued
    <3>10. Vouched(update)'
      BY <3>3, <3>4, <3>5, <3>7, <3>8, <3>9 DEF Vouched, Operations, Registered
    <3> QED BY <2>2, <3>1, <3>2, <3>3, <3>4, <3>5, <3>6, <3>10 DEF SessionStands, Running, Registered
  <2> QED BY <1>12, <2>1, <2>2 DEF Receive
<1>13. CASE TimePasses
  <2>1. CASE job \in Running
    <3> DEFINE t == [s EXCEPT !.expired = TRUE]
    <3>1. session' = t /\ UNCHANGED <<table, issued, job, request, update, report, told>>
      BY <1>1, <1>13 DEF TimePasses, wallet, dialog, ghosts
    <3>2. Established(s, r) /\ s.registrations \subseteq Registered(s.wallet)
      BY <1>5, <2>1
    <3>3. t \in Sessions /\ Same(t, s) /\ t.state = s.state
      BY <3>2 DEF Established, Sessions, Same
    <3> HIDE DEF t
    <3>4. Established(t, r)
      BY <3>2, <3>3 DEF Established, Same
    <3>5. job = "show" => Vouched(update)'
      BY <1>0, <3>1 DEF SessionStands, Vouched, Registered
    <3> QED BY <1>0, <1>1, <3>1, <3>2, <3>3, <3>4, <3>5 DEF SessionStands, Same, Registered, PacketsOf
  <2>2. CASE job \notin Running
    BY <1>3, <1>13, <2>2 DEF TimePasses
  <2> QED BY <2>1, <2>2
<1>14. CASE Granted \/ Kill \/ LinkFails \/ StorageFails \/ Close
  <2>1. job' \notin Running
    BY <1>14 DEF Granted, Start, Kill, LinkFails, StorageFails, Close, Running
  <2> QED BY <1>3, <2>1
<1>15. ASSUME NEW q \in Requests, Launch(q) \/ AskPermission(q) PROVE SessionStands'
  <2>1. job' \notin Running
    BY <1>15 DEF Launch, AskPermission, Start, Running
  <2> QED BY <1>3, <2>1
<1>16. CASE Denied \/ Stop
  BY <1>4, <1>16 DEF Denied, Stop, wallet, core, ghosts
<1>17. ASSUME NEW d \in Devices, Answer(d) \/ Unplug(d) \/ Plug(d) PROVE SessionStands'
  BY <1>4, <1>17 DEF Answer, Unplug, Plug, wallet, dialog, core, ghosts
<1>18. ASSUME NEW w \in Wallets, IssueAddress(w) PROVE SessionStands'
  <2>1. \A x \in Wallets : issued'[x] \in Nat /\ issued[x] <= issued'[x]
    BY <1>0, <1>18 DEF IssueAddress, UsbTypes
  <2> QED BY <1>18, <2>1, SessionUntouched DEF IssueAddress, dialog, core, ghosts
<1>19. CASE UNCHANGED vars
  BY <1>4, <1>19 DEF vars, wallet, dialog, core, ghosts
<1> QED BY <1>6, <1>7, <1>8, <1>9, <1>10, <1>11, <1>12, <1>13, <1>14, <1>15, <1>16, <1>17, <1>18, <1>19
        DEF UsbNext, Coroutine

LEMMA InfoHolds ==
  ASSUME UInv, [UsbNext]_vars
  PROVE  InfoVouched'
<1>0. UsbTypes /\ SessionStands /\ InfoVouched
  BY DEF UInv
<1>1. PICK i, u : i = info /\ u = update
  OBVIOUS
<1>2. \A w \in Wallets : issued[w] \in Nat
  BY <1>0 DEF UsbTypes
<1>3. CASE info' = None
  BY <1>3 DEF InfoVouched
<1>4. ASSUME UNCHANGED <<info, request>>, info # None, job # "none" \/ UNCHANGED told, told \subseteq told',
             \A w \in Wallets : Registered(w) \subseteq Registered(w)',
             \A w \in Wallets : issued'[w] \in Nat /\ issued[w] <= issued'[w],
             request \in Requests
      PROVE  InfoVouched'
  <2>1. Vouched(i)
    BY <1>0, <1>1, <1>4 DEF InfoVouched, Vouched
  <2>2. Vouched(i)'
    BY <1>4, <2>1, VouchedKept
  <2> QED BY <1>1, <1>4, <2>2 DEF InfoVouched, Vouched
<1>5. ASSUME UNCHANGED <<info, request, table, issued, told>> PROVE InfoVouched'
  BY <1>0, <1>5 DEF InfoVouched, Vouched, Registered
<1>6. CASE Show
  <2>1. CASE stopped
    BY <1>5, <1>6, <2>1 DEF Show, wallet, ghosts
  <2>2. CASE ~stopped
    BY <1>0, <1>6, <2>2 DEF Show, wallet, ghosts, UsbTypes, SessionStands, InfoVouched, Vouched, Registered
  <2> QED BY <2>1, <2>2
<1>7. CASE Receive
  <2>1. \A w \in Wallets : Registered(w) \subseteq Registered(w)'
    BY <1>7, ReceiveSaves
  <2>2. /\ UNCHANGED <<info, request, issued>> /\ told \subseteq told'
        /\ job = "receive" /\ request \in Requests
    BY <1>0, <1>7 DEF Receive, dialog, UsbTypes
  <2> QED BY <1>2, <1>3, <1>4, <2>1, <2>2
<1>8. CASE Prepare \/ Open \/ Write \/ Read \/ ReadTimesOut \/ LinkFails \/ StorageFails \/ Close
  BY <1>5, <1>8 DEF Prepare, Open, Write, Read, ReadTimesOut, LinkFails, StorageFails, Close,
                    wallet, dialog, ghosts
<1>9. CASE Granted \/ Stop \/ Kill
  BY <1>3, <1>9 DEF Granted, Start, Stop, Kill
<1>10. ASSUME NEW r \in Requests, Launch(r) PROVE InfoVouched'
  BY <1>3, <1>10 DEF Launch, Start
<1>11. ASSUME NEW r \in Requests, AskPermission(r) PROVE InfoVouched'
  BY <1>5, <1>11 DEF AskPermission, wallet, ghosts
<1>12. CASE Denied \/ TimePasses
  BY <1>5, <1>12 DEF Denied, TimePasses, wallet, dialog, ghosts
<1>13. ASSUME NEW d \in Devices, Answer(d) \/ Unplug(d) \/ Plug(d) PROVE InfoVouched'
  BY <1>5, <1>13 DEF Answer, Unplug, Plug, wallet, dialog, ghosts
<1>14. ASSUME NEW w \in Wallets, IssueAddress(w) PROVE InfoVouched'
  <2>1. UNCHANGED <<info, request, table, told>>
    BY <1>14 DEF IssueAddress, dialog, ghosts
  <2>2. \A x \in Wallets : issued'[x] \in Nat /\ issued[x] <= issued'[x]
    BY <1>0, <1>14 DEF IssueAddress, UsbTypes
  <2>3. CASE info # None
    <3>1. request \in Requests
      BY <1>0, <2>3 DEF InfoVouched
    <3>2. \A x \in Wallets : Registered(x) \subseteq Registered(x)'
      BY <2>1 DEF Registered
    <3> QED BY <1>4, <2>1, <2>2, <2>3, <3>1, <3>2
  <2> QED BY <1>3, <2>1, <2>3
<1>15. CASE UNCHANGED vars
  BY <1>5, <1>15 DEF vars, wallet, dialog, ghosts
<1> QED BY <1>6, <1>7, <1>8, <1>9, <1>10, <1>11, <1>12, <1>13, <1>14, <1>15 DEF UsbNext, Coroutine

-----------------------------------------------------------------------------
(* Commands *)

\* A session that goes on has its next command to send.
Advanced(t, s) == t.state = "waiting" => t.step = s.step + 1 /\ t.packets # None

LEMMA TransmitAdvances ==
  ASSUME NEW s \in Sessions, NEW c \in Commands
  PROVE  Advanced(Transmit(s, c), s)
<1>1. c # None
  BY AbsentAssumption DEF Commands, Asking
<1>2. CASE s.step < MaxExchanges
  BY <1>1, <1>2 DEF Transmit, Sessions, Advanced
<1>3. CASE ~(s.step < MaxExchanges)
  BY <1>3, FailedSame DEF Transmit, Advanced
<1> QED BY <1>2, <1>3

LEMMA ActAdvances ==
  ASSUME NEW s \in Sessions
  PROVE  Advanced(Act(s), s)
<1>1. /\ Command("register", s.wallet, None) \in Commands
      /\ s.op.kind = "address" => Command("address", s.wallet, s.op.index) \in Commands
  BY DEF Sessions, Operations, Command, Commands, Asking
<1>2. Advanced(Failed(s), s) /\ Advanced(Finish(s), s)
  BY FailedSame DEF Advanced, Finish, Sessions
<1>3. CASE s.op.kind = "inspect"
  BY <1>2, <1>3 DEF Act
<1>4. CASE s.op.kind = "register"
  BY <1>1, <1>4, TransmitAdvances DEF Act
<1>5. CASE s.op.kind = "address"
  BY <1>1, <1>2, <1>5, TransmitAdvances DEF Act
<1> QED BY <1>3, <1>4, <1>5 DEF Sessions, Operations

LEMMA HandleAdvances ==
  ASSUME NEW s \in Sessions, NEW reply \in Letters
  PROVE  Advanced(Handle(s, reply), s)
<1> DEFINE account == {d \in Signers[s.wallet] : Fingerprint[d] = Fingerprint[reply.device]}
<1>1. /\ Command("print", None, None) \in Commands
      /\ Command("xpub", s.wallet, None) \in Commands
  BY DEF Sessions, Command, Commands, Asking
<1>2. Advanced(Failed(s), s) /\ Advanced(Finish(s), s)
  BY FailedSame DEF Advanced, Finish, Sessions
<1>3. ASSUME NEW t \in Sessions, t.step = s.step, NEW c \in Commands
      PROVE  Advanced(Transmit(t, c), s)
  BY <1>3, TransmitAdvances DEF Advanced
<1>4. CASE Expected(s, reply) /\ reply.kind = "info"
  <2> DEFINE t == [s EXCEPT !.phase = "print"]
  <2>1. Handle(s, reply) = Transmit(t, Command("print", None, None))
    BY <1>4 DEF Handle
  <2>2. t \in Sessions /\ t.step = s.step
    BY DEF Sessions
  <2> QED BY <1>1, <1>3, <2>1, <2>2
<1>5. CASE Expected(s, reply) /\ reply.kind = "print" /\ account # {}
  <2> DEFINE signer == CHOOSE d \in account : TRUE
             t == [s EXCEPT !.phase = "xpub", !.account = signer, !.print = Fingerprint[reply.device]]
  <2>1. Handle(s, reply) = Transmit(t, Command("xpub", s.wallet, None))
    BY <1>5 DEF Handle
  <2>2. signer \in Signers[s.wallet]
    BY <1>5
  <2>3. signer \in Devices /\ Fingerprint[reply.device] \in Prints
    BY <2>2, SignersAssumption DEF Letters, Prints, Sessions
  <2> HIDE DEF signer
  <2>4. t \in Sessions /\ t.step = s.step
    BY <2>3 DEF Sessions
  <2> QED BY <1>1, <1>3, <2>1, <2>4
<1>6. CASE Expected(s, reply) /\ reply.kind = "xpub" /\ reply.device = s.account /\ reply.policy = s.wallet
  <2> DEFINE t == [s EXCEPT !.phase = "action"]
  <2>1. Handle(s, reply) = Act(t)
    BY <1>6 DEF Handle
  <2>2. t \in Sessions /\ t.step = s.step
    BY DEF Sessions
  <2> HIDE DEF t
  <2> QED BY <2>1, <2>2, ActAdvances DEF Advanced
<1>7. CASE Expected(s, reply) /\ reply.kind = "more" /\ s.phase = "xpub"
  <2>1. Handle(s, reply) = Transmit(s, Command("xpub", s.wallet, None))
    BY <1>7 DEF Handle
  <2> QED BY <1>1, <1>3, <2>1
<1>8. CASE Expected(s, reply) /\ reply.kind = "more" /\ s.phase = "action"
  <2>1. Handle(s, reply) = Act(s)
    BY <1>8 DEF Handle
  <2> QED BY <2>1, ActAdvances
<1>9. ASSUME Expected(s, reply) =>
               /\ reply.kind # "info" /\ ~(reply.kind = "print" /\ account # {})
               /\ ~(reply.kind = "xpub" /\ reply.device = s.account /\ reply.policy = s.wallet)
               /\ ~(reply.kind = "more" /\ s.phase \in {"xpub", "action"})
      PROVE  Advanced(Handle(s, reply), s)
  <2>1. Handle(s, reply) \in {Failed(s), Finish(s)}
    BY <1>9 DEF Handle
  <2> QED BY <1>2, <2>1
<1> QED BY <1>4, <1>5, <1>6, <1>7, <1>8, <1>9

\* A report either leaves the session waiting for the rest of the reply, with
\* nothing to send, or completes the reply.
LEMMA ReceivedAdvances ==
  ASSUME NEW s \in Sessions, NEW step, NEW packet \in Packets,
         Received(s, step, packet).state = "waiting"
  PROVE  \/ Received(s, step, packet).step = s.step /\ Received(s, step, packet).packets = None
         \/ Advanced(Received(s, step, packet), s)
<1>1. Received(s, step, packet) # Failed(s)
  BY FailedSame
<1> DEFINE t == [s EXCEPT !.reports = @ + 1, !.packets = None, !.reader = @ + 1]
<1>2. Received(s, step, packet) \in {t, Handle(t, packet.reply)}
  BY <1>1 DEF Received
<1>3. t \in Sessions /\ t.step = s.step /\ t.packets = None
  <2>1. s.reports + 1 \in Nat /\ s.reader + 1 \in Nat
    BY DEF Sessions
  <2> QED BY <2>1 DEF Sessions
<1> HIDE DEF t
<1>4. packet.reply \in Letters
  BY DEF Packets
<1>5. Advanced(Handle(t, packet.reply), t)
  BY <1>3, <1>4, HandleAdvances
<1> QED BY <1>2, <1>3, <1>5 DEF Advanced

\* Where the session is told from the commands written: packets are shown with
\* the step after the last one written, and a read waits for its answer.
SendingInv ==
  /\ sent \in Seq(Nat) /\ CommandsSentOnce
  /\ job \in {"prepare", "open"} => sent = <<>>
  /\ job = "open" /\ session.state = "waiting" => session.step = 1 /\ session.packets # None
  /\ job \in {"show", "write"} /\ update.state = "waiting" =>
       /\ update.step = session.step
       /\ update.step = IF update.packets = None THEN Len(sent) ELSE Len(sent) + 1
  /\ job = "write" => update.state = "waiting"
  /\ job \in {"read", "receive"} => update.step = Len(sent) /\ session.step = Len(sent)

LEMMA SessionSends ==
  ASSUME NEW r \in Requests
  PROVE  Session(r).state = "waiting" => Session(r).step = 1 /\ Session(r).packets # None
<1> DEFINE s == [wallet |-> r.wallet, op |-> r.op, registrations |-> Registered(r.wallet),
                 state |-> "waiting", phase |-> "info", account |-> None, print |-> None,
                 step |-> 0, packets |-> None, reader |-> 0, reports |-> 0, expired |-> FALSE]
<1>1. s \in Sessions /\ s.step = 0
  BY DEF Sessions, Requests, States, Registered
<1>2. Command("info", None, None) \in Commands
  BY DEF Command, Commands, Asking
<1>3. Session(r) = Transmit(s, Command("info", None, None))
  BY DEF Session
<1> HIDE DEF s
<1>4. Advanced(Session(r), s)
  BY <1>1, <1>2, <1>3, TransmitAdvances
<1> QED BY <1>1, <1>4 DEF Advanced

LEMMA SendingHolds ==
  ASSUME UInv, SendingInv, [UsbNext]_vars
  PROVE  SendingInv'
<1>0. UsbTypes /\ SessionStands
  BY DEF UInv
<1>1. PICK r, s, u : r = request /\ s = session /\ u = update
  OBVIOUS
<1>2. /\ job \in Running => s \in Sessions
      /\ job \in Running \ {"open"} => u \in Updates /\ u.state = s.state
  BY <1>0, <1>1 DEF SessionStands, Established
<1>3. ASSUME UNCHANGED <<job, session, update, sent>> PROVE SendingInv'
  BY <1>3 DEF SendingInv, CommandsSentOnce
<1>4. ASSUME job' \in {"none", "close"}, sent' \in {sent, <<>>} PROVE SendingInv'
  <2>1. sent' \in Seq(Nat) /\ \A n \in DOMAIN sent' : sent'[n] = n
    <3>1. CASE sent' = sent
      BY <3>1 DEF SendingInv, CommandsSentOnce
    <3>2. CASE sent' = <<>>
      BY <3>2
    <3> QED BY <1>4, <3>1, <3>2
  <2> QED BY <1>4, <2>1 DEF SendingInv, CommandsSentOnce
<1>5. ASSUME job' = "prepare", sent' = <<>> PROVE SendingInv'
  BY <1>5 DEF SendingInv, CommandsSentOnce
<1>6. CASE Prepare
  <2>1. CASE session' = Session(request) /\ job' = "open"
    <3>1. r \in Requests
      BY <1>0, <1>1, <1>6 DEF Prepare, UsbTypes
    <3>2. Session(r).state = "waiting" => Session(r).step = 1 /\ Session(r).packets # None
      BY <3>1, SessionSends
    <3>3. sent' = sent /\ sent = <<>>
      BY <1>6 DEF Prepare, SendingInv, ghosts
    <3> QED BY <1>1, <2>1, <3>2, <3>3 DEF SendingInv, CommandsSentOnce
  <2>2. CASE job' = "close"
    BY <1>4, <1>6, <2>2 DEF Prepare, ghosts
  <2> QED BY <1>6, <2>1, <2>2 DEF Prepare, Goes
<1>7. CASE Open
  <2>1. CASE job' = "close"
    BY <1>4, <1>7, <2>1 DEF Open, ghosts
  <2>2. CASE job' = "show"
    <3>1. PICK t : t = Progress(s)
      OBVIOUS
    <3>2. /\ session' = t /\ update' = Update(t) /\ sent' = sent /\ sent = <<>>
          /\ s.state = "waiting" => s.step = 1 /\ s.packets # None
      BY <1>1, <1>7, <3>1 DEF Open, SendingInv, ghosts
    <3>3. s \in Sessions
      BY <1>2, <1>7 DEF Open, Running
    <3>4. t.state = "waiting" => t = s
      BY <3>1, <3>3, FailedSame DEF Progress
    <3>5. Len(sent) = 0
      BY <3>2
    <3>6. Update(t).state = t.state /\ Update(t).step = t.step /\ Update(t).packets = t.packets
      BY DEF Update
    <3> QED BY <2>2, <3>2, <3>4, <3>5, <3>6 DEF SendingInv, CommandsSentOnce
  <2> QED BY <1>7, <2>1, <2>2 DEF Open, Goes
<1>8. CASE Show
  BY <1>8 DEF Show, Goes, SendingInv, CommandsSentOnce, core, ghosts
<1>9. CASE Write
  <2>1. CASE job' = "close"
    BY <1>4, <1>9, <2>1 DEF Write
  <2>2. CASE update.packets = None /\ job' = "read" /\ sent' = sent
    BY <1>9, <2>2 DEF Write, SendingInv, CommandsSentOnce, core
  <2>3. CASE update.packets # None /\ job' = "read" /\ sent' = Append(sent, update.step)
    <3>1. /\ sent \in Seq(Nat) /\ u.step = Len(sent) + 1 /\ s.step = u.step /\ sent' = Append(sent, u.step)
          /\ session' = s /\ update' = u /\ \A n \in DOMAIN sent : sent[n] = n
      BY <1>1, <1>9, <2>3 DEF Write, SendingInv, CommandsSentOnce, core
    <3>2. sent' \in Seq(Nat) /\ Len(sent') = u.step /\ \A n \in DOMAIN sent' : sent'[n] = n
      BY <3>1
    <3> QED BY <2>3, <3>1, <3>2 DEF SendingInv, CommandsSentOnce
  <2> QED BY <1>9, <2>1, <2>2, <2>3 DEF Write
<1>10. CASE Read
  BY <1>10 DEF Read, Goes, SendingInv, CommandsSentOnce, ghosts
<1>11. CASE ReadTimesOut
  <2>1. CASE stopped
    BY <1>4, <1>11, <2>1 DEF ReadTimesOut, Goes, ghosts
  <2>2. CASE ~stopped
    <3>1. PICK t : t = Progress(s)
      OBVIOUS
    <3>2. /\ session' = t /\ update' = Polled(t) /\ sent' = sent /\ job' = "show"
          /\ s.step = Len(sent)
      BY <1>1, <1>11, <2>2, <3>1 DEF ReadTimesOut, Goes, SendingInv, ghosts
    <3>3. s \in Sessions
      BY <1>2, <1>11 DEF ReadTimesOut, Running
    <3>4. t.state = "waiting" => t = s
      BY <3>1, <3>3, FailedSame DEF Progress
    <3>5. Polled(t).state = t.state /\ Polled(t).step = t.step /\ Polled(t).packets = None
      BY DEF Polled, Update
    <3> QED BY <3>2, <3>4, <3>5 DEF SendingInv, CommandsSentOnce
  <2> QED BY <2>1, <2>2
<1>12. CASE Receive
  <2>1. CASE job' = "close"
    BY <1>4, <1>12, <2>1 DEF Receive
  <2>2. CASE job' = "show"
    <3>1. PICK step, packet, t : step = update.step /\ packet = report /\ t = Received(s, step, packet)
      OBVIOUS
    <3>2. /\ session' = Revalidated(t) /\ update' = Update(session') /\ sent' = sent
          /\ s.step = Len(sent) /\ s \in Sessions /\ packet \in Packets
      BY <1>0, <1>1, <1>2, <1>12, <2>2, <3>1
         DEF Receive, SendingInv, SessionStands, Running, PacketsOf
    <3>3. PICK v : v = session'
      OBVIOUS
    <3>4. v.state = "waiting" => v = t
      BY <3>2, <3>3 DEF Revalidated, Failed, Closed
    <3>5. v.state = "waiting" =>
            \/ v.step = Len(sent) /\ v.packets = None
            \/ v.step = Len(sent) + 1 /\ v.packets # None
      BY <3>1, <3>2, <3>4, ReceivedAdvances DEF Advanced
    <3>6. Update(v).state = v.state /\ Update(v).step = v.step /\ Update(v).packets = v.packets
      BY DEF Update
    <3> QED BY <2>2, <3>2, <3>3, <3>5, <3>6 DEF SendingInv, CommandsSentOnce
  <2> QED BY <1>12, <2>1, <2>2 DEF Receive
<1>13. CASE TimePasses
  <2>1. CASE job \in Running
    <3>1. session' = [s EXCEPT !.expired = TRUE] /\ UNCHANGED <<job, update, sent>> /\ s \in Sessions
      BY <1>1, <1>2, <1>13, <2>1 DEF TimePasses, ghosts
    <3>2. session'.state = s.state /\ session'.step = s.step /\ session'.packets = s.packets
      BY <3>1 DEF Sessions
    <3> QED BY <1>1, <3>1, <3>2 DEF SendingInv, CommandsSentOnce
  <2>2. CASE job \notin Running
    <3>1. UNCHANGED <<job, update, sent>>
      BY <1>13 DEF TimePasses, ghosts
    <3> QED BY <2>2, <3>1 DEF SendingInv, CommandsSentOnce, Running
  <2> QED BY <2>1, <2>2
<1>14. CASE LinkFails \/ StorageFails \/ Close \/ Kill
  BY <1>4, <1>14 DEF LinkFails, StorageFails, Close, Kill, ghosts
<1>15. CASE Granted
  BY <1>5, <1>15 DEF Granted, Start
<1>16. ASSUME NEW q \in Requests, Launch(q) PROVE SendingInv'
  BY <1>5, <1>16 DEF Launch, Start
<1>17. ASSUME NEW q \in Requests, AskPermission(q) PROVE SendingInv'
  BY <1>3, <1>17 DEF AskPermission, core, ghosts
<1>18. CASE Denied \/ Stop
  BY <1>3, <1>18 DEF Denied, Stop, core, ghosts
<1>19. ASSUME NEW d \in Devices, Answer(d) \/ Unplug(d) \/ Plug(d) PROVE SendingInv'
  BY <1>3, <1>19 DEF Answer, Unplug, Plug, core, ghosts
<1>20. ASSUME NEW w \in Wallets, IssueAddress(w) PROVE SendingInv'
  BY <1>3, <1>20 DEF IssueAddress, core, ghosts
<1>21. CASE UNCHANGED vars
  BY <1>3, <1>21 DEF vars, core, ghosts
<1> QED BY <1>6, <1>7, <1>8, <1>9, <1>10, <1>11, <1>12, <1>13, <1>14, <1>15, <1>16, <1>17, <1>18,
           <1>19, <1>20, <1>21 DEF UsbNext, Coroutine

-----------------------------------------------------------------------------
(* Theorems *)

LEMMA UsbInitInv == UsbInit => UInv
<1> SUFFICES ASSUME UsbInit PROVE UInv
  OBVIOUS
<1>1. UsbTypes
  BY DEF UsbInit, UsbTypes, Requests
<1>2. DevicesAnswer
  <2>1. \A d \in Devices : answers[d] = <<>>
    BY DEF UsbInit
  <2>2. \A d \in Devices : <<>> \in Seq(PacketsOf(d))
    OBVIOUS
  <2>3. <<>> \in Seq(Commands) /\ <<>> \in Seq(Packets)
    OBVIOUS
  <2> QED BY <2>1, <2>2, <2>3 DEF UsbInit, DevicesAnswer
<1>3. SessionStands /\ InfoVouched
  BY DEF UsbInit, SessionStands, InfoVouched, Running
<1>4. RegistrationsGenuine
  BY DEF UsbInit, RegistrationsGenuine
<1> QED BY <1>1, <1>2, <1>3, <1>4 DEF UInv

\* The invariant holds in every reachable state, for any number of operations.
THEOREM UsbInvCorrect == UsbSpec => []UInv
<1>1. UInv /\ [UsbNext]_vars => UInv'
  BY TypesHold, AnswersHold, SessionHolds, InfoHolds, GenuineHolds DEF UInv
<1> QED BY UsbInitInv, <1>1, PTL DEF UsbSpec

\* Every registration save_registration keeps is one of its own policy by one
\* of its own signers, under that signer's fingerprint.
THEOREM RegistrationsAlwaysGenuine == UsbSpec => []RegistrationsGenuine
<1>1. UInv => RegistrationsGenuine
  BY DEF UInv
<1> QED BY UsbInvCorrect, <1>1, PTL

\* UsbSession::receive publishes a completed operation only when it is one: the
\* device is a signer, its registration is saved, the address is the wallet's.
THEOREM ShownAlwaysTrue == UsbSpec => []ShownIsTrue
<1>1. UInv => ShownIsTrue
  BY DEF UInv, InfoVouched, Vouched, ShownIsTrue
<1> QED BY UsbInvCorrect, <1>1, PTL

\* However often the app polls, is interrupted or reads what an earlier
\* conversation left, UsbExchange.run writes the packets of each step of the
\* session once, in order.
THEOREM CommandsAlwaysSentOnce == UsbSpec => []CommandsSentOnce
<1>1. UsbInit => SendingInv
  BY DEF UsbInit, SendingInv, CommandsSentOnce
<1>2. UInv /\ SendingInv /\ [UsbNext]_vars => SendingInv'
  BY SendingHolds
<1>3. SendingInv => CommandsSentOnce
  BY DEF SendingInv
<1> QED BY UsbInvCorrect, <1>1, <1>2, <1>3, PTL DEF UsbSpec
===============================================================================
