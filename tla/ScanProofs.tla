------------------------------ MODULE ScanProofs ------------------------------
(***************************************************************************)
(* Proofs about QrScan, for any sessions, frames and payloads.  The dialog *)
(* uses the decoders by their operations alone, so what QrProofs shows of  *)
(* a decoder holds of the scans; and what the tasks, which outlive the     *)
(* session they were started for, have read when they come back is still   *)
(* true enough that no payload is delivered twice.                         *)
(***************************************************************************)
EXTENDS QrScan, QrProofs

Tasks ==
  [step : {"none", "payload"}]
    \cup [step : {"receive"}, frame : Frames]
    \cup [step : {"received"}, phase : Phases, ok : BOOLEAN]
    \cup [step : {"deliver"}, payload : Valid \cup {None}]

ScanTypes ==
  /\ platform \in {"android", "ios"}
  /\ dialog \in {"new", "open", "closing", "closed"}
  /\ current \in Sessions \cup {None}
  /\ shown \in [session : Sessions \cup {None}, preview : BOOLEAN, retry : BOOLEAN]
  /\ info \in Phases \cup {None}
  /\ error \in BOOLEAN /\ processing \in BOOLEAN
  /\ task \in [Sessions -> Tasks]
  /\ poll \in [Sessions -> Phases \cup {"off", "asleep"}]
  /\ cancelling \subseteq Sessions
  /\ delivered \in Seq([session : Sessions, payload : Valid, left : BOOLEAN])
  /\ Android /\ dialog \in {"open", "closing"} => current \in Sessions /\ shown.session \in Sessions

\* The session of a task on its way to a delivery has ended.
Delivering(s) ==
  \/ At(s, "received") /\ task[s].ok /\ task[s].phase = "complete"
  \/ At(s, "payload") \/ At(s, "deliver")

\* The flag keeps a second task from a session that has one; on Android, from
\* every other session too.
Busy(s) == ~At(s, "none")
TaskOK(s) ==
  /\ Busy(s) => dec[s] # None /\ (Android \/ current = s => processing)
  /\ Delivering(s) => dec[s].phase # "scanning"
  /\ ~Android /\ current = s /\ At(s, "deliver") /\ task[s].payload # None =>
       dec[s].phase = "complete"
TasksInv ==
  /\ \A s \in Sessions : TaskOK(s)
  /\ Android => \A s, t \in Sessions : Busy(s) /\ Busy(t) => s = t
  /\ Android => \A s \in Sessions : Busy(s) => dialog \in {"open", "closing"}

\* On iOS nothing cancels the session of an open dialog, and the dialog that
\* has delivered is closed.
DialogInv ==
  /\ \A s \in cancelling : dec[s] # None
  /\ current # None => dec[current] # None
  /\ ~Android => /\ current \notin cancelling
                 /\ current # None => dialog = "open"
                 /\ delivered # <<>> => dialog = "closed"

\* A session that has delivered has ended, and has no task that will again.
DeliveredInv ==
  /\ DeliveredOnce /\ IosLeftDeliversNothing
  /\ \A i \in DOMAIN delivered : \A s \in Sessions :
       delivered[i].session = s => dec[s] # None /\ dec[s].phase # "scanning" /\ ~Delivering(s)

ScanInv == QrInv /\ ScanTypes /\ TasksInv /\ DialogInv /\ DeliveredInv

-----------------------------------------------------------------------------
(* The decoders *)

\* Every step of the dialog, its tasks and the composition is an operation of
\* one decoder, or none.
LEMMA DecoderSteps ==
  ASSUME ScanTypes, [ScanNext]_qvars
  PROVE  [DecoderNext]_dec
<1> USE DEF DecoderNext
<1>1. ASSUME NEW s \in Sessions, Open(s) \/ StartScan(s) PROVE [DecoderNext]_dec
  BY <1>1 DEF Open, StartScan
<1>2. ASSUME NEW f \in Frames, Frame(f) PROVE [DecoderNext]_dec
  BY <1>2 DEF Frame
<1>3. CASE Leave
  BY <1>3 DEF Leave, StopAndroid, ScanTypes
<1>4. CASE CameraFails
  BY <1>4 DEF CameraFails, StopAndroid, ScanTypes
<1>5. CASE Close
  BY <1>5 DEF Close
<1>6. CASE Compose
  BY <1>6 DEF Compose, ScanTypes
<1>7. ASSUME NEW s \in Sessions, Task(s) PROVE [DecoderNext]_dec
  <2>1. CASE TaskReceives(s)
    <3>1. task[s].frame \in Frames /\ Receive(s, task[s].frame)
      BY <2>1 DEF TaskReceives, At, ScanTypes, Tasks
    <3> QED BY <3>1
  <2>2. CASE TaskReturns(s)
    BY <2>2 DEF TaskReturns, Fails
  <2>3. CASE TaskReads(s)
    BY <2>3 DEF TaskReads
  <2>4. CASE TaskDelivers(s)
    BY <2>4 DEF TaskDelivers, Fails, Deliver
  <2> QED BY <1>7, <2>1, <2>2, <2>3, <2>4 DEF Task
<1>8. ASSUME NEW s \in Sessions, PollAsks(s) \/ PollReturns(s) \/ CancelRuns(s) \/ TimePasses(s)
      PROVE  [DecoderNext]_dec
  BY <1>8 DEF PollAsks, PollReturns, CancelRuns, TimePasses
<1>9. CASE UNCHANGED qvars
  BY <1>9 DEF qvars
<1> HIDE DEF DecoderNext
<1> QED BY <1>1, <1>2, <1>3, <1>4, <1>5, <1>6, <1>7, <1>8, <1>9 DEF ScanNext, Background

\* A decoder that has ended stays so.
LEMMA EndedStays ==
  ASSUME ScanInv, [ScanNext]_qvars, NEW s \in Sessions, dec[s] # None
  PROVE  dec'[s] # None /\ (dec[s].phase # "scanning" => dec'[s].phase # "scanning")
<1>1. [DecoderNext]_dec /\ QrInv
  BY DecoderSteps DEF ScanInv
<1>2. dec[s] \in Decoders
  BY <1>1 DEF QrInv, DecoderTypeOK
<1>3. Closed(dec[s], "cancelled").phase = "cancelled"
  BY <1>2 DEF Closed, Decoders
<1> QED BY <1>1, <1>3, DecodersStay

\* On iOS a decoder that is complete stays so as long as the dialog scans with it.
LEMMA CurrentStays ==
  ASSUME ScanInv, [ScanNext]_qvars, ~Android, NEW s \in Sessions, current = s,
         dec[s] # None, dec[s].phase = "complete"
  PROVE  dec'[s].phase = "complete"
<1>0. ScanTypes /\ DialogInv /\ QrInv /\ DOMAIN dec = Sessions
  BY DEF ScanInv, QrInv, DecoderTypeOK
<1>1. ASSUME dec' = dec PROVE dec'[s].phase = "complete"
  BY <1>1
<1>2. ASSUME NEW t \in Sessions, Make(t) PROVE dec'[s].phase = "complete"
  BY <1>0, <1>2 DEF Make
<1>3. ASSUME NEW t \in Sessions, Open(t) \/ StartScan(t) PROVE dec'[s].phase = "complete"
  BY <1>2, <1>3 DEF Open, StartScan
<1>4. ASSUME NEW f \in Frames, Frame(f) PROVE dec'[s].phase = "complete"
  BY <1>1, <1>4 DEF Frame
<1>5. CASE Leave \/ CameraFails \/ Close \/ Compose
  BY <1>1, <1>5 DEF Leave, CameraFails, Close, Compose
<1>6. ASSUME NEW t \in Sessions, Task(t) PROVE dec'[s].phase = "complete"
  <2>1. CASE TaskReceives(t)
    <3>1. PICK f : f = task[t].frame
      OBVIOUS
    <3>2. Receive(t, f)
      BY <2>1, <3>1 DEF TaskReceives
    <3>3. Received(dec[s], f) = dec[s]
      BY DEF Received
    <3> QED BY <1>0, <3>2, <3>3 DEF Receive
  <2>2. CASE ~TaskReceives(t)
    BY <1>1, <1>6, <2>2 DEF Task, TaskReturns, TaskReads, TaskDelivers, Fails, Deliver
  <2> QED BY <2>1, <2>2
<1>7. ASSUME NEW t \in Sessions, PollAsks(t) PROVE dec'[s].phase = "complete"
  BY <1>0, <1>7 DEF PollAsks, AskProgress, Progress
<1>8. ASSUME NEW t \in Sessions, PollReturns(t) PROVE dec'[s].phase = "complete"
  BY <1>1, <1>8 DEF PollReturns
<1>9. ASSUME NEW t \in Sessions, CancelRuns(t) PROVE dec'[s].phase = "complete"
  BY <1>0, <1>9 DEF CancelRuns, Cancel, DialogInv
<1>10. ASSUME NEW t \in Sessions, TimePasses(t) PROVE dec'[s].phase = "complete"
  <2>1. t # s
    BY <1>10 DEF TimePasses, Lapse
  <2> QED BY <1>0, <1>10, <2>1 DEF TimePasses, Lapse
<1>11. CASE UNCHANGED qvars
  BY <1>1, <1>11 DEF qvars
<1> QED BY <1>3, <1>4, <1>5, <1>6, <1>7, <1>8, <1>9, <1>10, <1>11 DEF ScanNext, Background

-----------------------------------------------------------------------------
(* Types *)

LEMMA TypesStep ==
  ASSUME ScanInv, [ScanNext]_qvars
  PROVE  ScanTypes'
<1>0. ScanTypes /\ TasksInv /\ DialogInv /\ QrInv /\ QrInv'
  <2>1. [DecoderNext]_dec
    BY DecoderSteps DEF ScanInv
  <2> QED BY <2>1, QrInvNext DEF ScanInv
<1>1. \A s \in Sessions : dec[s] # None => dec[s] \in Decoders /\ dec[s].phase \in Phases
  BY <1>0 DEF QrInv, DecoderTypeOK, Decoders
<1>2. \A s \in Sessions : dec'[s] # None => dec'[s].phase \in Phases
  BY <1>0 DEF QrInv, DecoderTypeOK, Decoders
<1> USE DEF ScanTypes, Android
<1>3. ASSUME NEW s \in Sessions, Open(s) \/ StartScan(s) PROVE ScanTypes'
  <2>1. CASE Open(s)
    <3>1. /\ UNCHANGED <<platform, info, error, processing, task, cancelling, delivered>>
          /\ dialog' = "open" /\ current' = s /\ poll' = [poll EXCEPT ![s] = "asleep"]
          /\ shown' \in {shown, [session |-> s, preview |-> TRUE, retry |-> FALSE]}
          /\ Android => shown'.session = s
      BY <2>1 DEF Open
    <3>2. [session |-> s, preview |-> TRUE, retry |-> FALSE]
            \in [session : Sessions \cup {None}, preview : BOOLEAN, retry : BOOLEAN]
      OBVIOUS
    <3> QED BY <1>0, <3>1, <3>2
  <2>2. CASE StartScan(s)
    <3>1. poll' \in [Sessions -> Phases \cup {"off", "asleep"}]
      BY <1>0, <2>2 DEF StartScan
    <3>2. /\ UNCHANGED <<platform, dialog, shown, task, delivered>> /\ dialog = "open"
          /\ current' = s /\ info' = None /\ error' = FALSE /\ processing' \in BOOLEAN
          /\ cancelling' \subseteq Sessions
      BY <1>0, <2>2 DEF StartScan
    <3> QED BY <1>0, <3>1, <3>2
  <2> QED BY <1>3, <2>1, <2>2
<1>4. ASSUME NEW f \in Frames, Frame(f) PROVE ScanTypes'
  <2>1. current \in Sessions
    BY <1>0, <1>4 DEF Frame
  <2>2. [step |-> "receive", frame |-> f] \in Tasks
    BY DEF Tasks
  <2> QED BY <1>0, <1>4, <2>1, <2>2 DEF Frame
<1>5. CASE Leave
  BY <1>0, <1>5 DEF Leave, StopAndroid, StopIos, Phases
<1>6. CASE CameraFails
  BY <1>0, <1>6 DEF CameraFails, StopAndroid, StopIos, Phases
<1>7. CASE Close
  BY <1>0, <1>7 DEF Close, Dismiss, StopIos
<1>8. CASE Compose
  <2>1. UNCHANGED <<platform, current, info, error, processing, cancelling, delivered>>
        /\ dialog' \in {"open", "closing", "closed"} /\ (dialog' = "closed" \/ dialog' = dialog)
    BY <1>8 DEF Compose
  <2>2. shown' \in [session : Sessions \cup {None}, preview : BOOLEAN, retry : BOOLEAN]
        /\ (dialog' # "closed" => shown'.session = current)
    <3> DEFINE preview == ~error /\ info \in {None, "scanning"}
    <3>1. preview \in BOOLEAN /\ error \in BOOLEAN /\ current \in Sessions \cup {None}
      BY <1>0
    <3>2. \/ dialog' = "open" /\ shown' = [session |-> current, preview |-> preview, retry |-> error]
          \/ dialog' = "closed" /\ shown' = NoScreen
      BY <1>8 DEF Compose
    <3> HIDE DEF preview
    <3>3. CASE dialog' = "open" /\ shown' = [session |-> current, preview |-> preview, retry |-> error]
      <4>1. [session |-> current, preview |-> preview, retry |-> error]
              \in [session : Sessions \cup {None}, preview : BOOLEAN, retry : BOOLEAN]
        BY <3>1
      <4> QED BY <3>3, <4>1
    <3>4. CASE dialog' = "closed" /\ shown' = NoScreen
      BY <3>4 DEF NoScreen
    <3> QED BY <3>2, <3>3, <3>4
  <2>3. task' \in [Sessions -> Tasks] /\ poll' \in [Sessions -> Phases \cup {"off", "asleep"}]
    BY <1>0, <1>8 DEF Compose, NoTask, Tasks
  <2> QED BY <1>0, <2>1, <2>2, <2>3
<1>9. ASSUME NEW s \in Sessions, NEW t \in Tasks, Goes(s, t),
             UNCHANGED <<platform, dialog, current, shown, error, poll, cancelling, delivered>>,
             info' \in Phases \cup {None}, processing' \in BOOLEAN
      PROVE  ScanTypes'
  BY <1>0, <1>9 DEF Goes
<1>10. ASSUME NEW s \in Sessions, TaskReceives(s) PROVE ScanTypes'
  <2>1. dec'[s].phase \in Phases
    BY <1>0, <1>2, <1>10, EndedStays DEF TaskReceives, Receive
  <2>2. [step |-> "received", phase |-> dec'[s].phase,
         ok |-> dec[s].phase = "scanning" /\ Received(dec[s], task[s].frame).phase # "failed"] \in Tasks
    BY <2>1 DEF Tasks
  <2> QED BY <1>0, <1>9, <1>10, <2>2 DEF TaskReceives, view
<1>11. NoTask \in Tasks
  BY DEF NoTask, Tasks
<1>12. ASSUME NEW s \in Sessions, Fails(s) PROVE ScanTypes'
  BY <1>0, <1>11, <1>12 DEF Fails, Goes, StopIos
<1>13. ASSUME NEW s \in Sessions, TaskReturns(s) PROVE ScanTypes'
  <2>1. [step |-> "payload"] \in Tasks /\ (At(s, "received") => task[s].phase \in Phases)
    BY <1>0 DEF Tasks, At
  <2> QED BY <1>0, <1>9, <1>11, <1>12, <1>13, <2>1 DEF TaskReturns, Ends
<1>14. ASSUME NEW s \in Sessions, TaskReads(s) PROVE ScanTypes'
  <2>1. dec[s] # None /\ dec[s].phase # "scanning" /\ DecoderOK(dec[s])
    BY <1>0, <1>14 DEF TaskReads, TasksInv, TaskOK, Busy, Delivering, At, QrInv
  <2>2. dec[s].payload \in Valid \cup {None}
    BY <1>1, <2>1 DEF DecoderOK, CompleteOK, ClosedOK, Phases
  <2>3. [step |-> "deliver", payload |-> dec[s].payload] \in Tasks
    BY <2>2 DEF Tasks
  <2> QED BY <1>0, <1>9, <1>14, <2>3 DEF TaskReads, view
<1>15. ASSUME NEW s \in Sessions, TaskDelivers(s) PROVE ScanTypes'
  <2>1. CASE Fails(s)
    BY <1>12, <2>1
  <2>2. CASE Goes(s, NoTask) /\ UNCHANGED <<dec, platform, view, poll, cancelling, delivered>>
    BY <1>0, <1>9, <1>11, <2>2 DEF view
  <2>3. CASE Deliver(s) /\ task[s].payload # None
    <3>1. task[s].payload \in Valid
      BY <1>0, <1>15, <2>3 DEF TaskDelivers, At, Tasks
    <3>2. [session |-> s, payload |-> task[s].payload,
           left |-> ~IsCurrent(s) \/ dec[s].phase # "complete"]
          \in [session : Sessions, payload : Valid, left : BOOLEAN]
      BY <3>1
    <3> DEFINE given == [session |-> s, payload |-> task[s].payload,
                         left |-> ~IsCurrent(s) \/ dec[s].phase # "complete"]
    <3>3. delivered' = Append(delivered, given) /\ given \in [session : Sessions, payload : Valid, left : BOOLEAN]
      BY <2>3, <3>2 DEF Deliver
    <3> HIDE DEF given
    <3>4. delivered' \in Seq([session : Sessions, payload : Valid, left : BOOLEAN])
      <4>1. PICK T, g : T = [session : Sessions, payload : Valid, left : BOOLEAN] /\ g = given
        OBVIOUS
      <4>2. delivered \in Seq(T) /\ g \in T /\ delivered' = Append(delivered, g)
        BY <1>0, <3>3, <4>1
      <4>3. delivered' \in Seq(T)
        BY <4>2
      <4> QED BY <4>1, <4>3
    <3>5. task' \in [Sessions -> Tasks] /\ UNCHANGED <<platform, info>>
      BY <1>0, <1>11, <2>3 DEF Deliver, Goes
    <3>6. /\ dialog' \in {"closing", "closed"} /\ current' \in {current, None} /\ shown' = shown
          /\ error' \in BOOLEAN /\ processing' \in BOOLEAN /\ cancelling' \subseteq Sessions
          /\ poll' \in [Sessions -> Phases \cup {"off", "asleep"}]
      BY <1>0, <2>3 DEF Deliver, Dismiss, StopIos
    <3>7. Android => dialog \in {"open", "closing"} /\ current' = current
      BY <1>0, <1>15, <2>3 DEF Deliver, Dismiss, TaskDelivers, TasksInv, Busy, At
    <3> QED BY <1>0, <3>4, <3>5, <3>6, <3>7
  <2> QED BY <1>15, <2>1, <2>2, <2>3 DEF TaskDelivers
<1>16. ASSUME NEW s \in Sessions, PollAsks(s) PROVE ScanTypes'
  <2>1. dec'[s].phase \in Phases
    BY <1>2, <1>16, EndedStays DEF PollAsks, AskProgress
  <2> QED BY <1>0, <1>16, <2>1 DEF PollAsks, view
<1>17. ASSUME NEW s \in Sessions, PollReturns(s) PROVE ScanTypes'
  BY <1>0, <1>17 DEF PollReturns, StopIos
<1>18. ASSUME NEW s \in Sessions, CancelRuns(s) \/ TimePasses(s) PROVE ScanTypes'
  BY <1>0, <1>18 DEF CancelRuns, TimePasses, view, tasks
<1>19. CASE UNCHANGED qvars
  BY <1>0, <1>19 DEF qvars, view, tasks
<1> QED BY <1>3, <1>4, <1>5, <1>6, <1>7, <1>8, <1>10, <1>13, <1>14, <1>15, <1>16, <1>17, <1>18, <1>19
        DEF ScanNext, Background, Task

-----------------------------------------------------------------------------
(* Tasks *)

\* A step that leaves the task of a session alone, and either the flag with it or
\* the dialog without that session.
LEMMA TaskStays ==
  ASSUME ScanInv, [ScanNext]_qvars, UNCHANGED platform, NEW s \in Sessions, task'[s] = task[s],
         Android => ~Busy(s) \/ processing' = processing,
         ~Android /\ current' = s => UNCHANGED <<current, processing>> \/ dec[s] = None
  PROVE  TaskOK(s)'
<1>0. TaskOK(s)
  BY DEF ScanInv, TasksInv
<1>1. /\ (Busy(s))' = Busy(s) /\ (Delivering(s))' = Delivering(s)
      /\ (At(s, "deliver"))' = At(s, "deliver") /\ Android' = Android
  BY DEF At, Busy, Delivering, Android
<1>2. (Delivering(s) => Busy(s)) /\ (At(s, "deliver") => Busy(s))
  BY DEF Delivering, Busy, At
<1>3. Busy(s) => dec[s] # None /\ dec'[s] # None
  BY <1>0, EndedStays DEF TaskOK
<1>4. Delivering(s) => dec'[s].phase # "scanning"
  BY <1>0, <1>2, <1>3, EndedStays DEF TaskOK
<1>5. ~Android /\ current' = s /\ Busy(s) => current' = current /\ processing' = processing
  BY <1>3
<1>6. ~Android /\ current' = s /\ At(s, "deliver") /\ task[s].payload # None =>
        dec'[s].phase = "complete"
  BY <1>0, <1>2, <1>3, <1>5, CurrentStays DEF TaskOK
<1> QED BY <1>0, <1>1, <1>3, <1>4, <1>5, <1>6 DEF TaskOK

\* A step that leaves all tasks alone.
LEMMA TasksStay ==
  ASSUME ScanInv, [ScanNext]_qvars, UNCHANGED <<platform, task>>,
         Android => processing' = processing /\ dialog' \in {dialog, "open", "closing"},
         ~Android /\ current' # None => UNCHANGED <<current, processing>> \/ dec[current'] = None
  PROVE  TasksInv'
<1>1. ASSUME NEW s \in Sessions PROVE TaskOK(s)'
  BY <1>1, TaskStays, SessionsAssumption
<1>2. \A s \in Sessions : (Busy(s))' = Busy(s)
  BY DEF At, Busy
<1> QED BY <1>1, <1>2 DEF TasksInv, ScanInv, Android

\* A step that takes one task further.
LEMMA TaskGoes ==
  ASSUME ScanInv, [ScanNext]_qvars, NEW s \in Sessions, NEW t, Goes(s, t), Busy(s),
         UNCHANGED <<platform, dialog, current, processing>>, t.step # "none", TaskOK(s)'
  PROVE  TasksInv'
<1>0. ScanTypes /\ TasksInv
  BY DEF ScanInv
<1>1. \A x \in Sessions : x # s => task'[x] = task[x]
  BY <1>0 DEF Goes, ScanTypes
<1>2. ASSUME NEW x \in Sessions PROVE TaskOK(x)' /\ ((Busy(x))' => Busy(x))
  BY <1>1, TaskStays DEF Busy, At
<1> QED BY <1>0, <1>2 DEF TasksInv, Android

\* A step that ends one.
LEMMA TaskEnds ==
  ASSUME ScanInv, [ScanNext]_qvars, NEW s \in Sessions, Goes(s, NoTask), Busy(s), UNCHANGED platform,
         ~Android /\ current' # None /\ current' # s => UNCHANGED <<current, processing>>
  PROVE  TasksInv'
<1>0. ScanTypes /\ TasksInv
  BY DEF ScanInv
<1>1. /\ \A x \in Sessions : x # s => task'[x] = task[x]
      /\ task'[s] = NoTask
  BY <1>0 DEF Goes, ScanTypes
<1>2. ~(Busy(s))' /\ ~(Delivering(s))' /\ ~(At(s, "deliver"))'
  BY <1>1 DEF Busy, Delivering, At, NoTask
<1>3. TaskOK(s)'
  BY <1>2 DEF TaskOK
<1>4. Android => \A x \in Sessions : x # s => ~Busy(x)
  BY <1>0 DEF TasksInv
<1>5. ASSUME NEW x \in Sessions, x # s PROVE TaskOK(x)' /\ (Busy(x))' = Busy(x)
  BY <1>1, <1>4, <1>5, TaskStays, SessionsAssumption DEF Busy, At
<1> QED BY <1>0, <1>2, <1>3, <1>4, <1>5 DEF TasksInv, Android

LEMMA TasksStep ==
  ASSUME ScanInv, [ScanNext]_qvars
  PROVE  TasksInv'
<1>0. ScanTypes /\ TasksInv /\ QrInv
  BY DEF ScanInv
<1>1. ASSUME NEW s \in Sessions, Open(s) \/ StartScan(s) PROVE TasksInv'
  BY <1>1, TasksStay DEF Open, StartScan, Make
<1>2. ASSUME NEW f \in Frames, Frame(f) PROVE TasksInv'
  <2>1. PICK s \in Sessions : s = current
    BY <1>0, <1>2 DEF Frame, ScanTypes
  <2>2. /\ task'[s] = [step |-> "receive", frame |-> f]
        /\ \A x \in Sessions : x # s => task'[x] = task[x]
        /\ ~processing /\ processing' = TRUE /\ UNCHANGED <<platform, current, dec, dialog>>
        /\ dialog \in {"open", "closing"}
    BY <1>0, <1>2, <2>1 DEF Frame, ScanTypes
  <2>3. dec[s] # None
    BY <2>1, SessionsAssumption DEF ScanInv, DialogInv
  <2>4. TaskOK(s)'
    BY <2>2, <2>3 DEF TaskOK, Busy, Delivering, At
  <2>5. Android => \A x \in Sessions : ~Busy(x)
    BY <1>0, <2>2 DEF TasksInv, TaskOK
  <2>6. ASSUME NEW x \in Sessions, x # s PROVE TaskOK(x)' /\ (Busy(x))' = Busy(x)
    BY <2>1, <2>2, <2>5, <2>6, TaskStays DEF Busy, At
  <2> QED BY <1>0, <2>2, <2>4, <2>5, <2>6 DEF TasksInv, Android
<1>3. CASE Leave \/ CameraFails
  BY <1>3, TasksStay DEF Leave, CameraFails, StopAndroid, StopIos
<1>4. CASE Close
  BY <1>4, TasksStay DEF Close, Dismiss, StopIos
<1>5. CASE Compose
  <2>1. CASE dialog' = "closed"
    <3>1. task' = [s \in Sessions |-> NoTask]
      BY <1>5, <2>1 DEF Compose
    <3>2. \A s \in Sessions : ~(Busy(s))' /\ ~(Delivering(s))' /\ ~(At(s, "deliver"))'
      BY <3>1 DEF Busy, Delivering, At, NoTask
    <3> QED BY <3>2 DEF TasksInv, TaskOK
  <2>2. CASE dialog' # "closed"
    BY <1>5, <2>2, TasksStay DEF Compose
  <2> QED BY <2>1, <2>2
<1>6. ASSUME NEW s \in Sessions, TaskReceives(s) PROVE TasksInv'
  <2> DEFINE t == [step |-> "received", phase |-> dec'[s].phase,
                   ok |-> dec[s].phase = "scanning" /\ Received(dec[s], task[s].frame).phase # "failed"]
  <2>1. Busy(s) /\ Goes(s, t) /\ UNCHANGED <<platform, view>> /\ dec[s] # None
    BY <1>6 DEF TaskReceives, Busy, At, Receive
  <2>2. task'[s] = t /\ TaskOK(s)
    BY <1>0, <2>1 DEF Goes, ScanTypes, TasksInv
  <2>3. dec'[s] # None
    BY <2>1, EndedStays
  <2>4. TaskOK(s)'
    BY <2>1, <2>2, <2>3 DEF TaskOK, Busy, Delivering, At, view, Android
  <2> HIDE DEF t
  <2>5. t.step = "received"
    BY DEF t
  <2> QED BY <2>1, <2>4, <2>5, TaskGoes DEF view
<1>7. ASSUME NEW s \in Sessions, Busy(s), Fails(s) PROVE TasksInv'
  <2>1. /\ Goes(s, NoTask) /\ platform' = platform
        /\ ~Android /\ current' # None => current' = current /\ processing' = processing
    BY <1>0, <1>7 DEF Fails, StopIos, ScanTypes
  <2> QED BY <1>7, <2>1, TaskEnds
<1>8. ASSUME NEW s \in Sessions, TaskReturns(s) PROVE TasksInv'
  <2>1. Busy(s)
    BY <1>8 DEF TaskReturns, Busy, At
  <2>2. CASE Ends(s) /\ UNCHANGED <<dec, platform, current>>
    <3>1. /\ Goes(s, NoTask)
          /\ ~Android /\ current' # s => processing' = processing
      BY <1>0, <2>2 DEF Ends, IsCurrent, ScanTypes
    <3> QED BY <2>1, <2>2, <3>1, TaskEnds
  <2>3. CASE /\ Goes(s, [step |-> "payload"]) /\ task[s].ok /\ task[s].phase = "complete"
             /\ UNCHANGED <<dec, platform, dialog, current, processing>>
    <3>1. task'[s] = [step |-> "payload"] /\ TaskOK(s)
      BY <1>0, <2>3 DEF Goes, ScanTypes, TasksInv
    <3>2. Delivering(s)
      BY <1>8, <2>3 DEF TaskReturns, Delivering
    <3>3. TaskOK(s)'
      BY <2>1, <2>3, <3>1, <3>2 DEF TaskOK, Busy, Delivering, At, Android
    <3> QED BY <2>1, <2>3, <3>3, TaskGoes
  <2> QED BY <1>7, <1>8, <2>1, <2>2, <2>3 DEF TaskReturns
<1>9. ASSUME NEW s \in Sessions, TaskReads(s) PROVE TasksInv'
  <2>1. Busy(s) /\ Delivering(s)
    BY <1>9 DEF TaskReads, Busy, Delivering, At
  <2>2. /\ Goes(s, [step |-> "deliver", payload |-> dec[s].payload])
        /\ UNCHANGED <<dec, platform, view>>
    BY <1>9 DEF TaskReads
  <2>3. task'[s] = [step |-> "deliver", payload |-> dec[s].payload] /\ TaskOK(s)
    BY <1>0, <2>2 DEF Goes, ScanTypes, TasksInv
  <2>4. dec[s] # None /\ DecoderOK(dec[s]) /\ dec[s].phase # "scanning"
    BY <1>0, <2>1, <2>3 DEF TaskOK, QrInv
  <2>5. dec[s].payload # None => dec[s].phase = "complete"
    BY <2>4 DEF DecoderOK, ClosedOK, Decoders, Phases
  <2>6. TaskOK(s)'
    BY <2>1, <2>2, <2>3, <2>4, <2>5 DEF TaskOK, Busy, Delivering, At, Android, view
  <2> QED BY <2>1, <2>2, <2>6, TaskGoes DEF view
<1>10. ASSUME NEW s \in Sessions, TaskDelivers(s) PROVE TasksInv'
  <2>1. Busy(s)
    BY <1>10 DEF TaskDelivers, Busy, At
  <2>2. CASE Deliver(s)
    BY <2>1, <2>2, TaskEnds DEF Deliver, Dismiss, StopIos
  <2>3. CASE Goes(s, NoTask) /\ UNCHANGED <<dec, platform, view, poll, cancelling, delivered>>
    BY <2>1, <2>3, TaskEnds DEF view
  <2> QED BY <1>7, <1>10, <2>1, <2>2, <2>3 DEF TaskDelivers
<1>11. ASSUME NEW s \in Sessions, PollAsks(s) \/ PollReturns(s) \/ CancelRuns(s) \/ TimePasses(s)
       PROVE  TasksInv'
  BY <1>11, TasksStay DEF PollAsks, PollReturns, CancelRuns, TimePasses, StopIos, view, tasks
<1>12. CASE UNCHANGED qvars
  BY <1>12, TasksStay DEF qvars, view, tasks
<1> QED BY <1>1, <1>2, <1>3, <1>4, <1>5, <1>6, <1>8, <1>9, <1>10, <1>11, <1>12
        DEF ScanNext, Background, Task

-----------------------------------------------------------------------------
(* The dialog and what it has delivered *)

\* iOS: a stop leaves no session to the dialog, and a new scan has a new one.
LEMMA DialogStep ==
  ASSUME ScanInv, [ScanNext]_qvars
  PROVE  DialogInv'
<1>0. ScanTypes /\ DialogInv /\ DOMAIN dec = Sessions
  BY DEF ScanInv, QrInv, DecoderTypeOK
<1>1. \A s \in Sessions : dec[s] # None => dec'[s] # None
  BY EndedStays
<1>2. \A s \in Sessions : Make(s) => dec[s] = None /\ dec'[s] # None
  <2>1. New # None
    BY AbsentAssumption, NewOK DEF DecoderOK
  <2> QED BY <1>0, <2>1 DEF Make
<1>3. ASSUME UNCHANGED <<platform, current, cancelling, dialog, delivered>> PROVE DialogInv'
  BY <1>0, <1>1, <1>3, SessionsAssumption DEF DialogInv, ScanTypes, Android
<1>4. ASSUME Android, platform' = platform, cancelling' = cancelling, current' = current
      PROVE  DialogInv'
  BY <1>0, <1>1, <1>4, SessionsAssumption DEF DialogInv, ScanTypes, Android
<1>5. ASSUME ~Android, platform' = platform, NEW m, StopIos(m),
             delivered' # <<>> => dialog' = "closed"
      PROVE  DialogInv'
  BY <1>0, <1>1, <1>5, SessionsAssumption DEF DialogInv, ScanTypes, Android, StopIos
<1>6. ASSUME NEW s \in Sessions, Open(s) PROVE DialogInv'
  BY <1>0, <1>1, <1>2, <1>6, SessionsAssumption DEF Open, DialogInv, ScanTypes, Android
<1>7. ASSUME NEW s \in Sessions, StartScan(s) PROVE DialogInv'
  BY <1>0, <1>1, <1>2, <1>7, SessionsAssumption DEF StartScan, DialogInv, ScanTypes, Android
<1>8. ASSUME NEW f \in Frames, Frame(f) PROVE DialogInv'
  BY <1>3, <1>8 DEF Frame
<1>9. CASE Leave \/ CameraFails
  BY <1>0, <1>3, <1>5, <1>9 DEF Leave, CameraFails, StopAndroid, DialogInv
<1>10. CASE Close
  BY <1>4, <1>5, <1>10 DEF Close, Dismiss
<1>11. CASE Compose
  BY <1>4, <1>11 DEF Compose
<1>12. ASSUME NEW s \in Sessions, Fails(s) PROVE DialogInv'
  BY <1>0, <1>3, <1>5, <1>12 DEF Fails, DialogInv
<1>13. ASSUME NEW s \in Sessions, Task(s) PROVE DialogInv'
  <2>1. CASE Deliver(s)
    BY <1>4, <1>5, <2>1 DEF Deliver, Dismiss
  <2>2. CASE UNCHANGED <<platform, current, cancelling, dialog, delivered>>
    BY <1>3, <2>2
  <2> QED BY <1>12, <1>13, <2>1, <2>2
         DEF Task, TaskReceives, TaskReturns, TaskReads, TaskDelivers, Ends, view
<1>14. ASSUME NEW s \in Sessions, PollReturns(s) PROVE DialogInv'
  BY <1>0, <1>3, <1>5, <1>14 DEF PollReturns, DialogInv
<1>15. ASSUME NEW s \in Sessions, PollAsks(s) \/ TimePasses(s) PROVE DialogInv'
  BY <1>3, <1>15 DEF PollAsks, TimePasses, view, tasks
<1>16. ASSUME NEW s \in Sessions, CancelRuns(s) PROVE DialogInv'
  BY <1>0, <1>1, <1>16, SessionsAssumption DEF CancelRuns, DialogInv, ScanTypes, Android, view
<1>17. CASE UNCHANGED qvars
  BY <1>3, <1>17 DEF qvars, view, tasks
<1> QED BY <1>6, <1>7, <1>8, <1>9, <1>10, <1>11, <1>13, <1>14, <1>15, <1>16, <1>17
        DEF ScanNext, Background

\* Steps that deliver nothing, and put no delivered session on its way again.
LEMMA NothingDelivered ==
  ASSUME ScanInv, [ScanNext]_qvars, UNCHANGED <<platform, delivered>>,
         \A s \in Sessions : (Delivering(s))' =>
           Delivering(s) \/ dec[s] = None \/ dec[s].phase = "scanning"
  PROVE  DeliveredInv'
<1>0. ScanTypes /\ DeliveredInv
  BY DEF ScanInv
<1>1. DeliveredOnce' /\ IosLeftDeliversNothing'
  BY <1>0 DEF DeliveredInv, DeliveredOnce, IosLeftDeliversNothing, LeftDeliversNothing, Android
<1>2. ASSUME NEW i \in DOMAIN delivered, NEW s \in Sessions, delivered[i].session = s
      PROVE  dec'[s] # None /\ dec'[s].phase # "scanning" /\ ~(Delivering(s))'
  BY <1>0, <1>2, EndedStays DEF DeliveredInv
<1> QED BY <1>0, <1>1, <1>2 DEF DeliveredInv

LEMMA DeliveredStep ==
  ASSUME ScanInv, [ScanNext]_qvars
  PROVE  DeliveredInv'
<1>0. ScanTypes /\ TasksInv /\ DialogInv /\ DeliveredInv
  BY DEF ScanInv
<1>1. ASSUME UNCHANGED <<platform, task, delivered>> PROVE DeliveredInv'
  BY <1>1, NothingDelivered DEF Delivering, At
<1>2. ASSUME NEW s \in Sessions, NEW t, Goes(s, t), UNCHANGED <<platform, delivered>>,
             (Delivering(s))' => Delivering(s) \/ dec[s] = None \/ dec[s].phase = "scanning"
      PROVE  DeliveredInv'
  <2>1. \A x \in Sessions : x # s => task'[x] = task[x]
    BY <1>0, <1>2 DEF Goes, ScanTypes
  <2>2. \A x \in Sessions : x # s => (Delivering(x))' = Delivering(x)
    BY <2>1 DEF Delivering, At
  <2> QED BY <1>2, <2>2, NothingDelivered
<1>3. ASSUME NEW s \in Sessions, NEW t, Goes(s, t), UNCHANGED <<platform, delivered>>,
             t.step \in {"none", "receive"}
      PROVE  DeliveredInv'
  <2>1. task'[s] = t
    BY <1>0, <1>3 DEF Goes, ScanTypes
  <2>2. ~(Delivering(s))'
    BY <1>3, <2>1 DEF Delivering, At
  <2> QED BY <1>2, <1>3, <2>2
<1>4. NoTask.step = "none"
  BY DEF NoTask
<1>5. ASSUME NEW s \in Sessions, Open(s) \/ StartScan(s) PROVE DeliveredInv'
  BY <1>1, <1>5 DEF Open, StartScan
<1>6. ASSUME NEW f \in Frames, Frame(f) PROVE DeliveredInv'
  <2>1. PICK s \in Sessions : s = current
    BY <1>0, <1>6 DEF Frame, ScanTypes
  <2>2. Goes(s, [step |-> "receive", frame |-> f]) /\ UNCHANGED <<platform, delivered>>
    BY <1>6, <2>1 DEF Frame, Goes
  <2> QED BY <1>3, <2>2
<1>7. CASE Leave \/ CameraFails \/ Close
  BY <1>1, <1>7 DEF Leave, CameraFails, Close
<1>8. CASE Compose
  <2>1. UNCHANGED <<platform, delivered>> /\ (task' = task \/ task' = [s \in Sessions |-> NoTask])
    BY <1>8 DEF Compose
  <2>2. \A s \in Sessions : (Delivering(s))' => Delivering(s)
    BY <2>1, <1>4 DEF Delivering, At
  <2> QED BY <2>1, <2>2, NothingDelivered
<1>9. ASSUME NEW s \in Sessions, TaskReceives(s) PROVE DeliveredInv'
  <2> DEFINE ok == dec[s].phase = "scanning" /\ Received(dec[s], task[s].frame).phase # "failed"
             t == [step |-> "received", phase |-> dec'[s].phase, ok |-> ok]
  <2>1. Goes(s, t) /\ UNCHANGED <<platform, delivered>> /\ (ok => dec[s].phase = "scanning")
    BY <1>9 DEF TaskReceives
  <2> HIDE DEF ok
  <2>2. task'[s] = t
    BY <1>0, <2>1 DEF Goes, ScanTypes
  <2>3. (Delivering(s))' => ok
    BY <2>2 DEF Delivering, At
  <2> HIDE DEF t
  <2> QED BY <1>2, <2>1, <2>3
<1>10. ASSUME NEW s \in Sessions, Fails(s) PROVE DeliveredInv'
  BY <1>3, <1>4, <1>10 DEF Fails
<1>11. ASSUME NEW s \in Sessions, TaskReturns(s) PROVE DeliveredInv'
  <2>1. CASE Ends(s) /\ UNCHANGED <<platform, delivered>>
    BY <1>3, <1>4, <2>1 DEF Ends
  <2>2. CASE Goes(s, [step |-> "payload"]) /\ UNCHANGED <<platform, delivered>> /\ Delivering(s)
    BY <1>2, <2>2
  <2> QED BY <1>10, <1>11, <2>1, <2>2 DEF TaskReturns, Delivering
<1>12. ASSUME NEW s \in Sessions, TaskReads(s) PROVE DeliveredInv'
  BY <1>2, <1>12 DEF TaskReads, Delivering
<1>13. ASSUME NEW s \in Sessions, At(s, "deliver"), Deliver(s), task[s].payload # None,
              Android \/ IsCurrent(s)
       PROVE  DeliveredInv'
  <2> DEFINE given == [session |-> s, payload |-> task[s].payload,
                       left |-> ~IsCurrent(s) \/ dec[s].phase # "complete"]
  <2>1. /\ delivered' = Append(delivered, given)
        /\ Goes(s, NoTask) /\ platform' = platform
    BY <1>13 DEF Deliver
  <2>2. Delivering(s) /\ Busy(s) /\ TaskOK(s)
    BY <1>0, <1>13 DEF Delivering, Busy, At, TasksInv
  <2>3. given.session = s /\ given.payload \in Valid
    BY <1>0, <1>13 DEF ScanTypes, Tasks, At
  <2>4. ~Android => ~given.left /\ delivered = <<>>
    <3>1. ~Android => dec[s].phase = "complete" /\ dialog = "open"
      BY <1>0, <1>13, <2>2, SessionsAssumption DEF TaskOK, DialogInv, IsCurrent
    <3>2. ~Android => delivered = <<>>
      BY <1>0, <3>1 DEF DialogInv
    <3> QED BY <1>13, <3>1, <3>2
  <2>5. PICK g, n : g = given /\ n = Len(delivered) + 1
    OBVIOUS
  <2> HIDE DEF given
  <2>6. /\ DOMAIN delivered' = DOMAIN delivered \cup {n} /\ delivered'[n] = g
        /\ n \notin DOMAIN delivered /\ \A i \in DOMAIN delivered : delivered'[i] = delivered[i]
    BY <1>0, <2>1, <2>5 DEF ScanTypes
  <2>7. \A i \in DOMAIN delivered : delivered[i].session # s
    BY <1>0, <2>2 DEF DeliveredInv
  <2>8. ~Android => DOMAIN delivered = {}
    BY <2>4
  <2>9. DeliveredOnce'
    BY <1>0, <2>1, <2>3, <2>5, <2>6, <2>7, <2>8 DEF DeliveredInv, DeliveredOnce, Android
  <2>10. IosLeftDeliversNothing'
    BY <2>1, <2>4, <2>5, <2>6, <2>8 DEF IosLeftDeliversNothing, LeftDeliversNothing, Android
  <2>11. task'[s] = NoTask /\ \A x \in Sessions : x # s => task'[x] = task[x]
    BY <1>0, <2>1 DEF Goes, ScanTypes
  <2>12. ~(Delivering(s))' /\ \A x \in Sessions : x # s => (Delivering(x))' = Delivering(x)
    BY <1>4, <2>11 DEF Delivering, At
  <2>13. dec'[s] # None /\ dec'[s].phase # "scanning"
    BY <2>2, EndedStays DEF TaskOK
  <2>14. ASSUME NEW i \in DOMAIN delivered, NEW x \in Sessions, delivered[i].session = x
         PROVE  dec'[x] # None /\ dec'[x].phase # "scanning" /\ ~(Delivering(x))'
    BY <1>0, <2>7, <2>12, <2>14, EndedStays DEF DeliveredInv
  <2>15. \A i \in DOMAIN delivered' : \A x \in Sessions :
           delivered'[i].session = x =>
             dec'[x] # None /\ dec'[x].phase # "scanning" /\ ~(Delivering(x))'
    BY <2>3, <2>5, <2>6, <2>12, <2>13, <2>14
  <2> QED BY <2>9, <2>10, <2>15 DEF DeliveredInv
<1>14. ASSUME NEW s \in Sessions, TaskDelivers(s) PROVE DeliveredInv'
  BY <1>3, <1>4, <1>10, <1>13, <1>14 DEF TaskDelivers
<1>15. ASSUME NEW s \in Sessions, PollAsks(s) \/ PollReturns(s) \/ CancelRuns(s) \/ TimePasses(s)
       PROVE  DeliveredInv'
  BY <1>1, <1>15 DEF PollAsks, PollReturns, CancelRuns, TimePasses, tasks
<1>16. CASE UNCHANGED qvars
  BY <1>1, <1>16 DEF qvars, tasks
<1> QED BY <1>5, <1>6, <1>7, <1>8, <1>9, <1>11, <1>12, <1>14, <1>15, <1>16
        DEF ScanNext, Background, Task

-----------------------------------------------------------------------------
(* Theorems *)

LEMMA ScanInvInit == ScanInit => ScanInv
<1> SUFFICES ASSUME ScanInit PROVE ScanInv
  OBVIOUS
<1>1. QrInv
  BY QrInvInit DEF ScanInit
<1>2. ScanTypes
  <2>1. NoTask \in Tasks
    BY DEF NoTask, Tasks
  <2>2. NoScreen \in [session : Sessions \cup {None}, preview : BOOLEAN, retry : BOOLEAN]
    BY DEF NoScreen
  <2>3. <<>> \in Seq([session : Sessions, payload : Valid, left : BOOLEAN])
    OBVIOUS
  <2> QED BY <2>1, <2>2, <2>3, PlatformsAssumption DEF ScanInit, ScanTypes
<1>3. \A s \in Sessions : At(s, "none")
  BY DEF ScanInit, At, NoTask
<1>4. TasksInv
  BY <1>3 DEF TasksInv, TaskOK, Busy, Delivering, At
<1>5. DialogInv /\ DeliveredInv
  BY DEF ScanInit, DialogInv, DeliveredInv, DeliveredOnce, IosLeftDeliversNothing, LeftDeliversNothing
<1> QED BY <1>1, <1>2, <1>4, <1>5 DEF ScanInv

\* The inductive invariant: what a task has read of its session, and what the
\* dialog and the flag say of its tasks, in every interleaving of the main
\* thread, the tasks, the polls and the clock (QrExchange.kt, QrExchange.swift).
THEOREM ScanInvCorrect == ScanSpec => []ScanInv
<1>1. ScanInv /\ [ScanNext]_qvars => ScanInv'
  <2> SUFFICES ASSUME ScanInv, [ScanNext]_qvars PROVE ScanInv'
    OBVIOUS
  <2>1. QrInv'
    BY DecoderSteps, QrInvNext DEF ScanInv
  <2> QED BY <2>1, TypesStep, TasksStep, DialogStep, DeliveredStep DEF ScanInv
<1> QED BY ScanInvInit, <1>1, PTL DEF ScanSpec

\* A scan dialog drives the decoders by the methods of QrScanner alone: QrScan
\* implements QrDecoder, and every theorem about the decoders holds of the scans.
THEOREM ScanUsesDecoder == ScanSpec => DecoderSpec
<1>1. ScanInit => DecoderInit
  BY DEF ScanInit
<1>2. ScanInv /\ [ScanNext]_qvars => [DecoderNext]_dec
  BY DecoderSteps DEF ScanInv
<1> QED BY <1>1, <1>2, ScanInvCorrect, PTL DEF ScanSpec, DecoderSpec

\* receivedPayload and onReceived: no session delivers twice, on iOS no dialog
\* does, and what is delivered is whole and valid.
THEOREM DeliveredAtMostOnce == ScanSpec => []DeliveredOnce
<1>1. ScanInv => DeliveredOnce
  BY DEF ScanInv, DeliveredInv
<1> QED BY <1>1, ScanInvCorrect, PTL

\* QrExchange.swift compares its token after it has read the payload: a scan that
\* was cancelled, replaced or closed delivers nothing.
THEOREM IosLeftNeverDelivers == ScanSpec => []IosLeftDeliversNothing
<1>1. ScanInv => IosLeftDeliversNothing
  BY DEF ScanInv, DeliveredInv
<1> QED BY <1>1, ScanInvCorrect, PTL
==============================================================================
