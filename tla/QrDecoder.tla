------------------------------- MODULE QrDecoder -------------------------------
(***************************************************************************)
(* The decoders of qr.rs: a scan session collects the frames of one        *)
(* animated code, in any order and as often as the camera reads them,      *)
(* until it has the payload, fails, expires or is cancelled.               *)
(*                                                                         *)
(* A frame carries parts of a payload: one part when it is a BBQr frame or *)
(* one of the first UR frames, several combined by XOR when it is a later  *)
(* UR frame.  What parses as no frame for the session's purpose is "junk". *)
(* Every method runs under the mutex of its QrScanner and is one action.   *)
(***************************************************************************)
EXTENDS Naturals, FiniteSets, FiniteSetsExt

CONSTANTS
  Sessions,   \* decoders that may come to exist
  Frames,     \* the codes a camera may read
  Values,     \* contents of parts
  Length,     \* the bytes of each
  Valid,      \* the payloads that parse for the purpose of the sessions
  Checked,    \* <<head, payload>>: the payload has the checksum in the head
  None,
  MaxFrames,  \* frames of a session; the code also counts their bytes
  MaxBytes    \* bytes of the parts of a BBQr sequence

Formats == {"junk", "raw", "single", "ur", "bbqr"}
Multipart == {f \in Frames : f.format \in {"ur", "bbqr"}}
Alone == {f \in Frames : f.format \in {"raw", "single"}}

\* The parts a frame contains; of a frame that stands alone, the payload.
Parts(f) == DOMAIN f.data
Payloads == UNION {[1 .. n -> Values] : n \in {f.total : f \in Frames}}

\* A head is what the frames of a sequence have in common: type and count of
\* parts, for UR also length and checksum.  It says which parts a frame of a
\* given number contains.
ASSUME FramesAssumption ==
  /\ \A f \in Frames :
       /\ f.format \in Formats /\ f.total \in Nat \ {0}
       /\ f.number \in Nat /\ f.data \in [Parts(f) -> Values]
       /\ Parts(f) \subseteq 1 .. f.total
  /\ \A f \in Alone : f.total = 1 /\ Parts(f) = {1}
  /\ \A f \in Multipart : f.format = "bbqr" => Parts(f) = {f.number}
  /\ \A f, g \in Multipart :
       f.head = g.head => /\ f.format = g.format /\ f.total = g.total
                          /\ f.number = g.number => Parts(f) = Parts(g)
ASSUME ValuesAssumption == Length \in [Values -> Nat] /\ None \notin Payloads
ASSUME LimitsAssumption == MaxFrames \in Nat \ {0} /\ MaxBytes \in Nat

VARIABLE dec  \* each session's decoder; None before it is made

-----------------------------------------------------------------------------
(* A decoder *)

New == [phase |-> "scanning", got |-> {}, payload |-> None, frames |-> 0,
        resolved |-> 0, total |-> None, late |-> FALSE, fed |-> {}]

Closed(d, phase) == [d EXCEPT !.phase = phase, !.got = {}, !.payload = None, !.fed = {}]
Failed(d) == Closed(d, "failed")

\* Variant: the lifetime is only looked at when a frame arrives.
ProgressPatient(d) == d

\* progress: the session is older than SESSION_LIFETIME.
Progress(d) == IF d.phase = "scanning" /\ d.late THEN Failed(d) ELSE d

\* The parts the frames determine: each is the XOR of some of them.  (The code
\* leaves this to the decoder of its UR library.)
Xor(fs) == {i \in UNION {Parts(f) : f \in fs} : Cardinality({f \in fs : i \in Parts(f)}) % 2 = 1}
Determined(fs) == {i \in UNION {Parts(f) : f \in fs} : \E gs \in SUBSET fs : Xor(gs) = {i}}

\* The payloads of n parts whose frames these are.
Assemblies(fs, n) == {p \in [1 .. n -> Values] : \A f \in fs : \A i \in Parts(f) : f.data[i] = p[i]}

Bytes(fs) == MapThenSumSet(LAMBDA f : Length[f.data[f.number]], fs)

\* finish: only a payload that parses completes the session.
Finish(d, p, n) ==
  IF p \in Valid
  THEN [d EXCEPT !.phase = "complete", !.got = {}, !.payload = p, !.total = n, !.resolved = n]
  ELSE Failed(d)

\* Variant: the checksum of the head is not compared.
AssembledUnchecked(d, f) ==
  LET whole == Assemblies(d.got, f.total)
  IN  IF whole = {} THEN Failed(d) ELSE Finish(d, CHOOSE p \in whole : TRUE, f.total)

\* All parts are there.  A UR message has to have the checksum in its head;
\* BBQr has none.
Assembled(d, f) ==
  LET whole == {p \in Assemblies(d.got, f.total) : f.format = "ur" => <<f.head, p>> \in Checked}
  IN  IF whole = {} THEN Failed(d) ELSE Finish(d, CHOOSE p \in whole : TRUE, f.total)

\* Variant: the heads are not compared.
FitsAnyHead(d, f) == \A g \in d.got : g.number = f.number => g.data = f.data

\* A frame of the sequence, and no other one under a number already seen.
Fits(d, f) == \A g \in d.got : g.head = f.head /\ (g.number = f.number => g.data = f.data)

\* Variant: a repeated frame counts as another resolved part.
AddCounting(d, f) == [d EXCEPT !.got = @ \cup {f}, !.total = f.total, !.resolved = @ + 1]

Add(d, f) ==
  [d EXCEPT !.got = @ \cup {f}, !.total = f.total,
            !.resolved = Cardinality(Determined(d.got \cup {f}))]

\* receive_ur, receive_bbqr and the plain payload.
Take(d, f) ==
  CASE f \in Alone /\ d.got = {} -> Finish(d, f.data, 1)
    [] f \in Multipart /\ Fits(d, f)
         /\ (f.format = "bbqr" => Bytes(d.got \cup {f}) <= MaxBytes) ->
           IF Determined(d.got \cup {f}) = 1 .. f.total
           THEN Assembled(Add(d, f), f) ELSE Add(d, f)
    [] OTHER -> Failed(d)

\* receive: a closed session takes nothing; every error closes it.
Received(d, f) ==
  IF d.phase # "scanning" THEN d
  ELSE LET e == [d EXCEPT !.fed = @ \cup {f}] IN
       IF d.late \/ d.frames = MaxFrames THEN Failed(e)
       ELSE Take([e EXCEPT !.frames = @ + 1], f)

-----------------------------------------------------------------------------
(* The sessions *)

Make(s) ==
  /\ dec[s] = None
  /\ dec' = [dec EXCEPT ![s] = New]

\* The lifetime may pass between the frame and the progress that is returned.
Receive(s, f) ==
  /\ dec[s] # None
  /\ \E lapse \in BOOLEAN :
       LET d == Received(dec[s], f) IN
       dec' = [dec EXCEPT ![s] = IF lapse /\ d.phase = "scanning" THEN Failed(d) ELSE d]

AskProgress(s) ==
  /\ dec[s] # None
  /\ dec' = [dec EXCEPT ![s] = Progress(dec[s])]

\* Variant: what was collected stays.
CancelKeeping(s) ==
  /\ dec[s] # None
  /\ dec' = [dec EXCEPT ![s].phase = "cancelled"]

Cancel(s) ==
  /\ dec[s] # None
  /\ dec' = [dec EXCEPT ![s] = Closed(dec[s], "cancelled")]

Lapse(s) ==
  /\ dec[s] # None /\ dec[s].phase = "scanning"
  /\ dec' = [dec EXCEPT ![s].late = TRUE]

DecoderInit == dec = [s \in Sessions |-> None]

DecoderNext ==
  \E s \in Sessions : \/ Make(s) \/ AskProgress(s) \/ Cancel(s) \/ Lapse(s)
                      \/ \E f \in Frames : Receive(s, f)

DecoderSpec == DecoderInit /\ [][DecoderNext]_dec
-----------------------------------------------------------------------------
(* Properties *)

Phases == {"scanning", "complete", "cancelled", "failed"}
Decoders ==
  [phase : Phases, got : SUBSET Multipart, payload : Payloads \cup {None}, frames : 0 .. MaxFrames,
   resolved : Nat, total : Nat \cup {None}, late : BOOLEAN, fed : SUBSET Frames]

ASSUME AbsentAssumption == None \notin Decoders

Existing == {s \in Sessions : dec[s] # None}

\* The decoders have the shape of QrDecoder; fed, which no code reads, is what an
\* open or complete session was given.
DecoderTypeOK == dec \in [Sessions -> Decoders \cup {None}]

\* A session that goes on or has completed was only given frames that belong
\* together: one that stands alone, or frames with one head of which no two
\* disagree under one number ("Malformed data, conflicting duplicates and
\* inconsistent stream headers fail the session").
ConsistentOrFailed ==
  \A s \in Existing : dec[s].phase \in {"scanning", "complete"} =>
    \/ \E f \in Alone : dec[s].fed = {f}
    \/ /\ dec[s].fed \subseteq Multipart
       /\ \A f, g \in dec[s].fed : f.head = g.head /\ (f.number = g.number => f.data = g.data)

\* The payload is what the frames contain, each part in its place and none
\* missing, whatever their order and repetition; and a UR payload has the
\* checksum that its frames name.
PayloadFromFrames ==
  \A s \in Existing : dec[s].phase = "complete" =>
    /\ dec[s].payload \in Valid
    /\ Determined(dec[s].fed) = DOMAIN dec[s].payload
    /\ \A f \in dec[s].fed :
         /\ \A i \in Parts(f) : f.data[i] = dec[s].payload[i]
         /\ f.format = "ur" => <<f.head, dec[s].payload>> \in Checked

\* What the screen counts are the parts that the frames determine, and a session
\* that has them all does not go on scanning.
ProgressTrue ==
  \A s \in Existing : dec[s].phase = "scanning" =>
    /\ dec[s].resolved = Cardinality(Determined(dec[s].fed))
    /\ \A f \in dec[s].fed : dec[s].total = f.total /\ dec[s].resolved < f.total

ClosedStays ==
  \A s \in Existing : dec[s].phase # "scanning" =>
    /\ dec'[s].phase \in {dec[s].phase, "cancelled"}
    /\ dec'[s].payload \in {dec[s].payload, None}
    /\ dec'[s].phase \in {"cancelled", "failed"} => dec'[s].got = {} /\ dec'[s].payload = None

\* A closed session never opens again, its payload never becomes another one,
\* and a cancelled or failed one keeps nothing of what it has read.
ClosedForGood == [][ClosedStays]_dec
===============================================================================
