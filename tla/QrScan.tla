-------------------------------- MODULE QrScan ---------------------------------
(***************************************************************************)
(* A scan dialog of either app over the decoders: QrExchange.kt and        *)
(* QrExchange.swift.  The camera hands frames to the main thread, which    *)
(* starts a task for one at a time; the task calls the decoder on another  *)
(* thread and comes back to the main thread with the result.  A second     *)
(* task polls the session's progress.  Meanwhile the app may leave the     *)
(* screen, the camera may fail, the user may start a new scan or close the *)
(* dialog, which on Android shows and ends things with the next            *)
(* composition.                                                            *)
(***************************************************************************)
EXTENDS QrDecoder, Sequences

CONSTANT Platforms

ASSUME PlatformsAssumption == Platforms \subseteq {"android", "ios"}
ASSUME SessionsAssumption == None \notin Sessions

VARIABLES
  platform,
  dialog,      \* "new", "open", "closing" until the next composition, "closed"
  current,     \* the session the dialog scans with; None on iOS after a stop
  shown,       \* Android: what is composed: session, camera preview, retry button
  info,        \* the phase of the last progress, or None
  error,       \* there is an error message
  processing,  \* a frame is being processed
  task,        \* by session: the step of its frame's task and what it has
  poll,        \* by session: "off", "asleep", or the phase it came back with
  cancelling,  \* iOS: sessions whose cancel task has not run yet
  delivered    \* what the caller was given: session, payload, and whether the
               \* scan had been cancelled or replaced by then

view  == <<dialog, current, shown, info, error, processing>>
tasks == <<task, poll, cancelling>>
qvars == <<dec, platform, view, tasks, delivered>>

Android   == platform = "android"
NoTask    == [step |-> "none"]
NoScreen  == [session |-> None, preview |-> FALSE, retry |-> FALSE]
IsCurrent(s) == current = s

-----------------------------------------------------------------------------
(* Main thread: the dialog *)

\* iOS stop: a new token, and a task that cancels the session.
StopIos(message) ==
  /\ current' = None /\ processing' = FALSE
  /\ cancelling' = cancelling \cup ({current} \ {None})
  /\ poll' = [s \in Sessions |-> IF s = current THEN "off" ELSE poll[s]]
  /\ error' = (error \/ message)
  /\ UNCHANGED shown

Open(s) ==
  /\ dialog = "new" /\ dialog' = "open"
  /\ Make(s)
  /\ current' = s
  /\ IF Android
     THEN /\ shown' = [session |-> s, preview |-> TRUE, retry |-> FALSE]
     ELSE UNCHANGED shown
  /\ poll' = [poll EXCEPT ![s] = "asleep"]
  /\ UNCHANGED <<platform, info, error, processing, task, cancelling, delivered>>

\* The button for a new scan.  Android: a new scanner; iOS: restart, which
\* stops the session there may be.
StartScan(s) ==
  /\ dialog = "open"
  /\ IF Android THEN shown.retry ELSE error
  /\ Make(s)
  /\ current' = s /\ info' = None /\ error' = FALSE
  /\ IF Android
     THEN UNCHANGED <<processing, poll, cancelling>>
     ELSE /\ processing' = FALSE
          /\ cancelling' = cancelling \cup ({current} \ {None})
          /\ poll' = [t \in Sessions |-> IF t = s THEN "asleep"
                                         ELSE IF t = current THEN "off" ELSE poll[t]]
  /\ UNCHANGED <<platform, dialog, shown, task, delivered>>

\* A frame the camera has decoded; the others are dropped.
Frame(f) ==
  /\ dialog \in {"open", "closing"}
  /\ IF Android THEN shown.preview ELSE current # None
  /\ ~processing
  /\ processing' = TRUE
  /\ task' = [task EXCEPT ![current] = [step |-> "receive", frame |-> f]]
  /\ UNCHANGED <<dec, platform, dialog, current, shown, info, error, poll, cancelling, delivered>>

\* Android cancels the session at once, on the main thread.
StopAndroid(s) ==
  /\ Cancel(s)
  /\ info' = "cancelled" /\ error' = TRUE
  /\ UNCHANGED <<current, shown, processing, poll, cancelling>>

\* The app leaves the screen (ON_STOP, scenePhase), or the camera fails.
Leave ==
  /\ dialog \in {"open", "closing"}
  /\ IF Android THEN StopAndroid(shown.session) ELSE StopIos(TRUE) /\ UNCHANGED <<dec, info>>
  /\ UNCHANGED <<platform, dialog, task, delivered>>
CameraFails ==
  /\ dialog \in {"open", "closing"}
  /\ IF Android THEN shown.preview /\ StopAndroid(current)
                ELSE StopIos(TRUE) /\ UNCHANGED <<dec, info>>
  /\ UNCHANGED <<platform, dialog, task, delivered>>

\* The button, or the caller that has got its payload.  iOS: hide.
Dismiss ==
  IF Android THEN /\ dialog' = "closing"
                  /\ UNCHANGED <<current, shown, poll, cancelling, error>>
             ELSE dialog' = "closed" /\ StopIos(FALSE)
Close ==
  /\ dialog = "open"
  /\ Dismiss
  /\ Android => UNCHANGED processing
  /\ UNCHANGED <<dec, platform, info, task, delivered>>

\* Android: what the state asks for is shown.  The effects of a session that
\* was replaced end, and it is cancelled; a dialog that was closed takes its
\* coroutines with it.
Compose ==
  /\ Android
  /\ \/ /\ dialog = "open"
        /\ shown' = [session |-> current, preview |-> ~error /\ info \in {None, "scanning"},
                     retry |-> error]
        /\ shown' # shown
        /\ IF current = shown.session THEN UNCHANGED <<dec, poll>>
           ELSE /\ Cancel(shown.session)
                /\ poll' = [poll EXCEPT ![shown.session] = "off", ![current] = "asleep"]
        /\ UNCHANGED <<dialog, task>>
     \/ /\ dialog = "closing" /\ dialog' = "closed"
        /\ Cancel(shown.session)
        /\ shown' = NoScreen
        /\ poll' = [s \in Sessions |-> "off"]
        /\ task' = [s \in Sessions |-> NoTask]
  /\ UNCHANGED <<platform, current, info, error, processing, cancelling, delivered>>

-----------------------------------------------------------------------------
(* The task of a frame *)

At(s, step) == task[s].step = step
Goes(s, t)  == task' = [task EXCEPT ![s] = t]

\* On iOS a task that is not the dialog's any more leaves the flag alone.
Ends(s) ==
  /\ Goes(s, NoTask)
  /\ processing' = (processing /\ ~Android /\ ~IsCurrent(s))

\* An error is the dialog's when the task still is.
Fails(s) ==
  /\ Goes(s, NoTask)
  /\ IF ~Android /\ IsCurrent(s) THEN StopIos(TRUE)
     ELSE /\ processing' = (processing /\ ~Android)
          /\ error' = (error \/ (Android /\ IsCurrent(s)))
          /\ UNCHANGED <<current, shown, poll, cancelling>>
  /\ UNCHANGED <<dec, platform, dialog, info, delivered>>

TaskReceives(s) ==
  /\ At(s, "receive")
  /\ Receive(s, task[s].frame)
  /\ Goes(s, [step |-> "received", phase |-> dec'[s].phase,
              ok |-> dec[s].phase = "scanning" /\ Received(dec[s], task[s].frame).phase # "failed"])
  /\ UNCHANGED <<platform, view, poll, cancelling, delivered>>

TaskReturns(s) ==
  /\ At(s, "received")
  /\ IF ~task[s].ok THEN Fails(s)
     ELSE /\ info' = IF IsCurrent(s) THEN task[s].phase ELSE info
          /\ IF IsCurrent(s) /\ task[s].phase = "complete"
             THEN Goes(s, [step |-> "payload"]) /\ UNCHANGED processing
             ELSE Ends(s)
          /\ UNCHANGED <<dec, platform, dialog, current, shown, error, poll, cancelling, delivered>>

\* payload: that of a session which is complete at this moment, or an error.
TaskReads(s) ==
  /\ At(s, "payload")
  /\ Goes(s, [step |-> "deliver", payload |-> dec[s].payload])
  /\ UNCHANGED <<dec, platform, view, poll, cancelling, delivered>>

Deliver(s) ==
  /\ delivered' = Append(delivered, [session |-> s, payload |-> task[s].payload,
                                     left |-> ~IsCurrent(s) \/ dec[s].phase # "complete"])
  /\ Goes(s, NoTask)
  /\ Dismiss
  /\ Android => processing' = FALSE
  /\ UNCHANGED <<dec, platform, info>>

\* Variant: the token is not compared again.
TaskDeliversLate(s) ==
  /\ At(s, "deliver") /\ task[s].payload # None
  /\ Deliver(s)

\* Android gives the payload to its caller, who closes the dialog; iOS looks
\* at its token again, and stops first.
TaskDelivers(s) ==
  /\ At(s, "deliver")
  /\ IF task[s].payload = None THEN Fails(s)
     ELSE IF Android \/ IsCurrent(s) THEN Deliver(s)
     ELSE /\ Goes(s, NoTask)
          /\ UNCHANGED <<dec, platform, view, poll, cancelling, delivered>>

Task(s) == TaskReceives(s) \/ TaskReturns(s) \/ TaskReads(s) \/ TaskDelivers(s)

-----------------------------------------------------------------------------
(* The other tasks *)

PollAsks(s) ==
  /\ poll[s] = "asleep"
  /\ AskProgress(s)
  /\ poll' = [poll EXCEPT ![s] = dec'[s].phase]
  /\ UNCHANGED <<platform, view, task, cancelling, delivered>>

\* Variant: an expired session only stops the camera.
PollReturnsQuiet(s) ==
  /\ poll[s] \notin {"off", "asleep"}
  /\ info' = poll[s]
  /\ poll' = [poll EXCEPT ![s] = IF poll[s] = "scanning" THEN "asleep" ELSE "off"]
  /\ UNCHANGED <<dec, platform, dialog, current, shown, error, processing, cancelling, task, delivered>>

\* A poll goes on while the session does; an expired session is an error.
PollReturns(s) ==
  /\ poll[s] \notin {"off", "asleep"}
  /\ info' = poll[s]
  /\ IF poll[s] = "failed" /\ ~Android THEN StopIos(TRUE)
     ELSE /\ poll' = [poll EXCEPT ![s] = IF poll[s] = "scanning" THEN "asleep" ELSE "off"]
          /\ error' = (error \/ poll[s] = "failed")
          /\ UNCHANGED <<current, shown, processing, cancelling>>
  /\ UNCHANGED <<dec, platform, dialog, task, delivered>>

CancelRuns(s) ==
  /\ s \in cancelling
  /\ Cancel(s)
  /\ cancelling' = cancelling \ {s}
  /\ UNCHANGED <<platform, view, task, poll, delivered>>

TimePasses(s) ==
  /\ Lapse(s)
  /\ UNCHANGED <<platform, view, tasks, delivered>>

-----------------------------------------------------------------------------
ScanInit ==
  /\ DecoderInit
  /\ platform \in Platforms
  /\ dialog = "new" /\ current = None /\ shown = NoScreen
  /\ info = None /\ error = FALSE /\ processing = FALSE
  /\ task = [s \in Sessions |-> NoTask]
  /\ poll = [s \in Sessions |-> "off"]
  /\ cancelling = {} /\ delivered = <<>>

Background(s) == Task(s) \/ PollAsks(s) \/ PollReturns(s) \/ CancelRuns(s) \/ TimePasses(s)

ScanNext ==
  \/ \E s \in Sessions : Open(s) \/ StartScan(s) \/ Background(s)
  \/ \E f \in Frames : Frame(f)
  \/ Leave \/ CameraFails \/ Close \/ Compose

ScanSpec == ScanInit /\ [][ScanNext]_qvars

\* Threads, timers and the clock go on; the camera and the user need not.
FairScan ==
  /\ ScanSpec
  /\ WF_qvars(Compose)
  /\ \A s \in Sessions : /\ WF_qvars(Task(s)) /\ WF_qvars(CancelRuns(s)) /\ WF_qvars(TimePasses(s))
                         /\ WF_qvars(PollAsks(s)) /\ WF_qvars(PollReturns(s))

-----------------------------------------------------------------------------
(* Properties *)

\* A session hands out its payload at most once, whole and valid, and on iOS
\* so does the dialog.
DeliveredOnce ==
  /\ \A i, j \in DOMAIN delivered :
       (~Android \/ delivered[i].session = delivered[j].session) => i = j
  /\ \A i \in DOMAIN delivered : delivered[i].payload \in Valid

\* A scan that was cancelled or replaced delivers nothing ("Leaving a scan
\* cancels its session"; "Scan cancelled when the app left the screen.  Start
\* a new scan to continue.").
LeftDeliversNothing == \A i \in DOMAIN delivered : ~delivered[i].left

\* On iOS, which compares its token again after it has read the payload.
IosLeftDeliversNothing == Android \/ LeftDeliversNothing

Reads(s) == IF dec[s] = None THEN FALSE ELSE dec[s].phase = "scanning" /\ dec[s].fed # {}
Ended(s) == IF dec[s] = None THEN FALSE ELSE dec[s].phase # "scanning"

\* Every session that reads anything ends: it completes, fails, expires or is
\* cancelled when the dialog does not want it any more.
SessionsEnd == \A s \in Sessions : Reads(s) ~> Ended(s)

\* A scan that has ended is either delivered or shows why it was not, with the
\* button for a new one: no dialog is left without either.
NoDeadEnd ==
  \A s \in Sessions : (dialog = "open" /\ IsCurrent(s) /\ Ended(s)) ~> (error \/ dialog # "open")
===============================================================================
