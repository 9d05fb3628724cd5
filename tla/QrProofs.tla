-------------------------------- MODULE QrProofs --------------------------------
(***************************************************************************)
(* Proofs about QrDecoder: for any frames, payloads, sessions and limits,  *)
(* a decoder that completes has one consistent sequence.                   *)
(***************************************************************************)
EXTENDS QrDecoder, FiniteSetTheorems, TLAPS

\* Frames that belong together.
Together(fs) == fs \subseteq Multipart /\ \A f, g \in fs : f.head = g.head /\ (f.number = g.number => f.data = g.data)

\* What a decoder knows, by its phase.
ScanningOK(d) ==
  /\ d.fed = d.got /\ Together(d.got)
  /\ d.resolved = Cardinality(Determined(d.got))
  /\ \A f \in d.got : d.total = f.total /\ Determined(d.got) # 1 .. f.total
CompleteOK(d) ==
  /\ (\E f \in Alone : d.fed = {f}) \/ Together(d.fed)
  /\ d.payload \in Valid
  /\ Determined(d.fed) = DOMAIN d.payload
  /\ \A f \in d.fed : /\ \A i \in Parts(f) : f.data[i] = d.payload[i]
                      /\ f.format = "ur" => <<f.head, d.payload>> \in Checked
ClosedOK(d) == d.got = {} /\ d.payload = None

DecoderOK(d) ==
  /\ d \in Decoders
  /\ d.phase = "scanning" => ScanningOK(d)
  /\ d.phase = "complete" => CompleteOK(d)
  /\ d.phase \in {"cancelled", "failed"} => ClosedOK(d)

QrInv == DecoderTypeOK /\ \A s \in Sessions : dec[s] = None \/ DecoderOK(dec[s])

-----------------------------------------------------------------------------
(* The frames *)

\* The parts of frames of one sequence are parts of its payload.
LEMMA TogetherParts ==
  ASSUME NEW fs, Together(fs), NEW f \in fs
  PROVE  /\ f.total \in Nat
         /\ Determined(fs) \subseteq 1 .. f.total
         /\ IsFiniteSet(Determined(fs)) /\ Cardinality(Determined(fs)) \in Nat
         /\ Cardinality(Determined(fs)) <= f.total
         /\ Cardinality(Determined(fs)) = f.total => Determined(fs) = 1 .. f.total
<1>1. f \in Frames /\ f \in Multipart /\ f.total \in Nat \ {0}
  BY FramesAssumption DEF Together, Multipart
<1>2. \A g \in fs : Parts(g) \subseteq 1 .. f.total
  <2> SUFFICES ASSUME NEW g \in fs PROVE Parts(g) \subseteq 1 .. f.total
    OBVIOUS
  <2>1. g \in Frames /\ g \in Multipart /\ g.head = f.head
    BY DEF Together, Multipart
  <2>2. g.total = f.total
    BY <1>1, <2>1, FramesAssumption
  <2> QED BY <2>1, <2>2, FramesAssumption
<1>3. Determined(fs) \subseteq 1 .. f.total
  BY <1>2, Zenon DEF Determined
<1>4. IsFiniteSet(1 .. f.total) /\ Cardinality(1 .. f.total) = f.total
  BY <1>1, FS_Interval
<1>5. /\ IsFiniteSet(Determined(fs)) /\ Cardinality(Determined(fs)) <= Cardinality(1 .. f.total)
      /\ Cardinality(Determined(fs)) = Cardinality(1 .. f.total) => Determined(fs) = 1 .. f.total
  BY <1>3, <1>4, FS_Subset
<1>6. Cardinality(Determined(fs)) \in Nat
  BY <1>5, FS_CardinalityType
<1> QED BY <1>1, <1>3, <1>4, <1>5, <1>6

\* A frame that stands alone determines its payload.
LEMMA AloneDetermined ==
  ASSUME NEW f \in Alone
  PROVE  /\ Determined({f}) = DOMAIN f.data /\ f.data \in Payloads
         /\ f.format # "ur"
<1>1. f \in Frames /\ f.total = 1 /\ Parts(f) = {1} /\ f.data \in [Parts(f) -> Values]
      /\ f.format \in {"raw", "single"}
  <2>1. f \in Frames /\ f.format \in {"raw", "single"}
    BY DEF Alone
  <2>2. f.data \in [Parts(f) -> Values]
    BY <2>1, FramesAssumption
  <2>3. f.total = 1 /\ Parts(f) = {1}
    BY FramesAssumption
  <2> QED BY <2>1, <2>2, <2>3
<1>2. UNION {Parts(g) : g \in {f}} = {1}
  BY <1>1
<1>3. \A fs \in SUBSET {f} : Xor(fs) \subseteq {1}
  BY <1>1 DEF Xor
<1>4. Xor({f}) = {1}
  <2>1. {g \in {f} : 1 \in Parts(g)} = {f}
    BY <1>1
  <2>2. Cardinality({g \in {f} : 1 \in Parts(g)}) % 2 = 1
    BY <2>1, FS_Singleton
  <2> QED BY <1>2, <2>2 DEF Xor
<1>5. Determined({f}) = {1}
  BY <1>2, <1>4 DEF Determined
<1>6. f.data \in Payloads
  <2>1. f.data \in [1 .. f.total -> Values]
    BY <1>1
  <2> QED BY <1>1, <2>1 DEF Payloads
<1> QED BY <1>1, <1>5, <1>6 DEF Parts

-----------------------------------------------------------------------------
(* One decoder *)

LEMMA NewOK == DecoderOK(New)
<1>1. Determined({}) = {} /\ Cardinality({}) = 0
  BY FS_EmptySet DEF Determined
<1>2. New \in Decoders
  BY LimitsAssumption DEF New, Decoders, Phases
<1> QED BY <1>1, <1>2 DEF DecoderOK, New, ScanningOK, Together

LEMMA ClosedDecoderOK ==
  ASSUME NEW d \in Decoders, NEW phase \in {"cancelled", "failed"}
  PROVE  DecoderOK(Closed(d, phase)) /\ Closed(d, phase).phase = phase
         /\ ClosedOK(Closed(d, phase))
<1>1. Closed(d, phase) \in Decoders
  BY DEF Closed, Decoders, Phases
<1> QED BY <1>1 DEF Closed, DecoderOK, ClosedOK, Decoders

\* finish, given a payload that all the frames bear out.
LEMMA FinishOK ==
  ASSUME NEW d \in Decoders, d.phase = "scanning",
         NEW p \in Payloads, NEW n \in Nat,
         (\E f \in Alone : d.fed = {f}) \/ Together(d.fed),
         Determined(d.fed) = DOMAIN p,
         \A f \in d.fed : /\ \A i \in Parts(f) : f.data[i] = p[i]
                          /\ f.format = "ur" => <<f.head, p>> \in Checked
  PROVE  DecoderOK(Finish(d, p, n)) /\ Finish(d, p, n).phase \in {"complete", "failed"}
<1>1. CASE p \in Valid
  <2> DEFINE e == [d EXCEPT !.phase = "complete", !.got = {}, !.payload = p, !.total = n, !.resolved = n]
  <2>1. e \in Decoders
    BY DEF Decoders, Phases
  <2>2. e.phase = "complete" /\ e.payload = p /\ e.fed = d.fed
    BY DEF Decoders
  <2>3. CompleteOK(e)
    BY <1>1, <2>2 DEF CompleteOK
  <2>4. Finish(d, p, n) = e
    BY <1>1 DEF Finish
  <2> HIDE DEF e
  <2> QED BY <2>1, <2>2, <2>3, <2>4 DEF DecoderOK
<1>2. CASE p \notin Valid
  BY <1>2, ClosedDecoderOK DEF Finish, Failed
<1> QED BY <1>1, <1>2

\* A frame that fits joins the others.
LEMMA FitsTogether ==
  ASSUME NEW d \in Decoders, Together(d.got), NEW f \in Multipart, Fits(d, f)
  PROVE  Together(d.got \cup {f})
BY DEF Together, Fits

LEMMA AddOK ==
  ASSUME NEW d \in Decoders, Together(d.got), NEW f \in Multipart, Fits(d, f)
  PROVE  /\ Add(d, f) \in Decoders /\ Add(d, f).phase = d.phase /\ Add(d, f).fed = d.fed
         /\ Add(d, f).got = d.got \cup {f}
         /\ Add(d, f).total = f.total
         /\ Add(d, f).resolved = Cardinality(Determined(d.got \cup {f}))
<1>1. Together(d.got \cup {f})
  BY FitsTogether
<1>2. f.total \in Nat /\ Cardinality(Determined(d.got \cup {f})) \in Nat
  BY <1>1, TogetherParts, f \in d.got \cup {f}, Zenon
<1>3. d.got \cup {f} \in SUBSET Multipart
  BY DEF Decoders
<1> HIDE DEF Multipart
<1> QED BY <1>2, <1>3 DEF Add, Decoders

\* All parts are determined: the payload is assembled from exactly these frames.
LEMMA AssembledOK ==
  ASSUME NEW d \in Decoders, d.phase = "scanning", d.fed = d.got, Together(d.got),
         NEW f \in d.got, Determined(d.got) = 1 .. f.total
  PROVE  DecoderOK(Assembled(d, f)) /\ Assembled(d, f).phase \in {"complete", "failed"}
<1> DEFINE whole == {p \in Assemblies(d.got, f.total) : f.format = "ur" => <<f.head, p>> \in Checked}
<1>1. CASE whole = {}
  BY <1>1, ClosedDecoderOK DEF Assembled, Failed
<1>2. CASE whole # {}
  <2> DEFINE p == CHOOSE q \in whole : TRUE
  <2>1. p \in whole
    BY <1>2
  <2>2. f \in Frames /\ f \in Multipart /\ f.total \in Nat
    BY FramesAssumption DEF Together, Multipart
  <2>3. p \in [1 .. f.total -> Values] /\ \A g \in d.got : \A i \in Parts(g) : g.data[i] = p[i]
    BY <2>1 DEF Assemblies
  <2>4. p \in Payloads
    BY <2>2, <2>3 DEF Payloads
  <2>5. \A g \in d.got : g.format = "ur" => <<g.head, p>> \in Checked
    <3> SUFFICES ASSUME NEW g \in d.got, g.format = "ur" PROVE <<g.head, p>> \in Checked
      OBVIOUS
    <3>1. g.head = f.head /\ g \in Multipart
      BY DEF Together
    <3>2. f.format = "ur"
      BY <2>2, <3>1, FramesAssumption
    <3> QED BY <2>1, <3>1, <3>2
  <2>6. Assembled(d, f) = Finish(d, p, f.total)
    BY <1>2, Zenon DEF Assembled
  <2>7. Determined(d.fed) = DOMAIN p
    BY <2>3
  <2> HIDE DEF p, whole
  <2> QED BY <2>2, <2>3, <2>4, <2>5, <2>6, <2>7, FinishOK
<1> QED BY <1>1, <1>2

LEMMA TakeOK ==
  ASSUME NEW d \in Decoders, d.phase = "scanning", NEW f \in Frames,
         Together(d.got), d.fed = d.got \cup {f},
         \A g \in d.got : d.total = g.total
  PROVE  DecoderOK(Take(d, f))
<1>1. CASE f \in Alone /\ d.got = {}
  <2> f \notin Multipart
    BY <1>1 DEF Alone, Multipart
  <2>1. Take(d, f) = Finish(d, f.data, 1)
    BY <1>1, Zenon DEF Take
  <2>2. d.fed = {f}
    BY <1>1
  <2>3. \A g \in d.fed : /\ \A i \in Parts(g) : g.data[i] = f.data[i]
                         /\ g.format = "ur" => <<g.head, f.data>> \in Checked
    BY <1>1, <2>2, AloneDetermined
  <2> QED BY <1>1, <2>1, <2>2, <2>3, AloneDetermined, FinishOK
<1>2. CASE /\ ~(f \in Alone /\ d.got = {})
           /\ f \in Multipart /\ Fits(d, f)
           /\ f.format = "bbqr" => Bytes(d.got \cup {f}) <= MaxBytes
  <2> DEFINE e == Add(d, f)
  <2>1. Together(d.got \cup {f})
    BY <1>2, FitsTogether
  <2>2. e \in Decoders /\ e.phase = "scanning" /\ e.fed = e.got /\ e.got = d.got \cup {f}
        /\ e.total = f.total /\ e.resolved = Cardinality(Determined(e.got))
    <3>1. /\ e \in Decoders /\ e.phase = d.phase /\ e.fed = d.fed /\ e.got = d.got \cup {f}
          /\ e.total = f.total /\ e.resolved = Cardinality(Determined(d.got \cup {f}))
      BY <1>2, AddOK, Zenon
    <3> QED BY <3>1, Zenon
  <2> HIDE DEF e
  <2>3. CASE Determined(d.got \cup {f}) = 1 .. f.total
    <3>1. Take(d, f) = Assembled(e, f)
      BY <1>2, <2>3, Zenon DEF Take, e
    <3> QED BY <2>1, <2>2, <2>3, <3>1, AssembledOK
  <2>4. CASE Determined(d.got \cup {f}) # 1 .. f.total
    <3>1. Take(d, f) = e
      BY <1>2, <2>4, Zenon DEF Take, e
    <3>2. \A g \in e.got : e.total = g.total /\ Determined(e.got) # 1 .. g.total
      <4> SUFFICES ASSUME NEW g \in e.got PROVE g.total = f.total
        BY <2>2, <2>4
      <4>1. g \in Multipart /\ f \in Multipart /\ g.head = f.head
        BY <1>2, <2>1, <2>2 DEF Together
      <4> QED BY <4>1, FramesAssumption
    <3> QED BY <2>1, <2>2, <3>1, <3>2 DEF DecoderOK, ScanningOK
  <2> QED BY <2>3, <2>4
<1>3. CASE /\ ~(f \in Alone /\ d.got = {})
           /\ ~(/\ f \in Multipart /\ Fits(d, f)
                /\ f.format = "bbqr" => Bytes(d.got \cup {f}) <= MaxBytes)
  <2>1. Take(d, f) = Failed(d)
    BY <1>3, Zenon DEF Take
  <2> QED BY <2>1, ClosedDecoderOK DEF Failed
<1> QED BY <1>1, <1>2, <1>3

LEMMA ReceivedOK ==
  ASSUME NEW d, DecoderOK(d), NEW f \in Frames
  PROVE  DecoderOK(Received(d, f))
<1>1. CASE d.phase # "scanning"
  BY <1>1 DEF Received
<1>2. CASE d.phase = "scanning"
  <2> DEFINE e == [d EXCEPT !.fed = @ \cup {f}]
             g == [e EXCEPT !.frames = @ + 1]
  <2>1. e \in Decoders /\ e.phase = "scanning" /\ e.fed = e.got \cup {f} /\ Together(e.got)
        /\ \A h \in e.got : e.total = h.total
    BY <1>2 DEF DecoderOK, ScanningOK, Decoders
  <2>2. CASE d.late \/ d.frames = MaxFrames
    <3>1. Received(d, f) = Failed(e)
      BY <1>2, <2>2, Zenon DEF Received
    <3> HIDE DEF e
    <3> QED BY <2>1, <3>1, ClosedDecoderOK DEF Failed
  <2>3. CASE ~(d.late \/ d.frames = MaxFrames)
    <3>1. Received(d, f) = Take(g, f)
      BY <1>2, <2>3, Zenon DEF Received
    <3>2. d.frames \in 0 .. MaxFrames /\ e.frames = d.frames
      BY DEF DecoderOK, Decoders
    <3> HIDE DEF e
    <3>3. e.frames + 1 \in 0 .. MaxFrames
      BY <2>3, <3>2, LimitsAssumption
    <3>4. g \in Decoders /\ g.phase = e.phase /\ g.fed = e.fed /\ g.got = e.got /\ g.total = e.total
      BY <2>1, <3>3 DEF Decoders
    <3> HIDE DEF g
    <3> QED BY <2>1, <3>1, <3>4, TakeOK
  <2> QED BY <2>2, <2>3
<1> QED BY <1>1, <1>2

-----------------------------------------------------------------------------
(* The sessions *)

LEMMA QrInvInit == DecoderInit => QrInv
BY DEF DecoderInit, QrInv, DecoderTypeOK

\* An operation takes one decoder, or none yet, to a sound one, and leaves one
\* that has ended as it is or forgets it.
Evolves(s, d) ==
  /\ DecoderOK(d) /\ dec' = [dec EXCEPT ![s] = d]
  /\ dec[s] # None /\ dec[s].phase # "scanning" => d \in {dec[s], Closed(dec[s], "cancelled")}

LEMMA OneEvolves ==
  ASSUME QrInv, DecoderNext
  PROVE  \E s \in Sessions : \E d : Evolves(s, d)
<1>1. ASSUME NEW s \in Sessions, Make(s) PROVE Evolves(s, New)
  BY <1>1, NewOK DEF Make, Evolves
<1>2. ASSUME NEW s \in Sessions, AskProgress(s) PROVE Evolves(s, Progress(dec[s]))
  <2>1. DecoderOK(dec[s]) /\ dec[s] \in Decoders
    BY <1>2 DEF AskProgress, QrInv, DecoderOK
  <2>2. DecoderOK(Progress(dec[s]))
    BY <2>1, ClosedDecoderOK DEF Progress, Failed
  <2>3. dec[s].phase # "scanning" => Progress(dec[s]) = dec[s]
    BY DEF Progress
  <2> QED BY <1>2, <2>2, <2>3 DEF AskProgress, Evolves
<1>3. ASSUME NEW s \in Sessions, Cancel(s) PROVE Evolves(s, Closed(dec[s], "cancelled"))
  <2>1. DecoderOK(dec[s]) /\ dec[s] \in Decoders
    BY <1>3 DEF Cancel, QrInv, DecoderOK
  <2> QED BY <1>3, <2>1, ClosedDecoderOK DEF Cancel, Evolves
<1>4. ASSUME NEW s \in Sessions, Lapse(s) PROVE \E d : Evolves(s, d)
  <2>1. DecoderOK(dec[s]) /\ dec[s].phase = "scanning"
    BY <1>4 DEF Lapse, QrInv
  <2> DEFINE d == [dec[s] EXCEPT !.late = TRUE]
  <2>2. d \in Decoders /\ d.phase = "scanning" /\ ScanningOK(d)
    BY <2>1 DEF DecoderOK, Decoders, ScanningOK
  <2>3. dec' = [dec EXCEPT ![s] = d]
    BY <1>4 DEF Lapse
  <2> HIDE DEF d
  <2>4. DecoderOK(d)
    BY <2>2 DEF DecoderOK
  <2> QED BY <2>1, <2>3, <2>4 DEF Evolves
<1>5. ASSUME NEW s \in Sessions, NEW f \in Frames, Receive(s, f) PROVE \E d : Evolves(s, d)
  <2>1. DecoderOK(dec[s])
    BY <1>5 DEF Receive, QrInv
  <2> DEFINE d == Received(dec[s], f)
  <2>2. DecoderOK(d) /\ d \in Decoders
    BY <2>1, ReceivedOK DEF DecoderOK
  <2>3. DecoderOK(Failed(d))
    BY <2>2, ClosedDecoderOK DEF Failed
  <2>4. \/ dec' = [dec EXCEPT ![s] = d]
        \/ d.phase = "scanning" /\ dec' = [dec EXCEPT ![s] = Failed(d)]
    BY <1>5 DEF Receive
  <2>5. dec[s].phase # "scanning" => d = dec[s]
    BY DEF Received
  <2> HIDE DEF d
  <2>6. Evolves(s, d) \/ Evolves(s, Failed(d))
    BY <2>2, <2>3, <2>4, <2>5 DEF Evolves
  <2> QED BY <2>6
<1> QED BY <1>1, <1>2, <1>3, <1>4, <1>5 DEF DecoderNext

LEMMA QrInvNext == QrInv /\ [DecoderNext]_dec => QrInv'
<1> SUFFICES ASSUME QrInv, [DecoderNext]_dec PROVE QrInv'
  OBVIOUS
<1>1. CASE DecoderNext
  <2>1. PICK s \in Sessions : \E d : Evolves(s, d)
    BY <1>1, OneEvolves
  <2>2. PICK d : Evolves(s, d)
    BY <2>1
  <2> QED BY <2>2 DEF Evolves, QrInv, DecoderOK, DecoderTypeOK
<1>2. CASE UNCHANGED dec
  BY <1>2 DEF QrInv, DecoderTypeOK
<1> QED BY <1>1, <1>2

\* No decoder is unmade, and one that has ended stays as it is or is forgotten.
LEMMA DecodersStay ==
  ASSUME QrInv, [DecoderNext]_dec, NEW s \in Sessions, dec[s] # None
  PROVE  /\ dec'[s] # None
         /\ dec[s].phase # "scanning" => dec'[s] \in {dec[s], Closed(dec[s], "cancelled")}
<1>1. CASE DecoderNext
  <2>1. PICK t \in Sessions : \E d : Evolves(t, d)
    BY <1>1, OneEvolves
  <2>2. PICK d : Evolves(t, d)
    BY <2>1
  <2>3. d # None
    BY <2>2, AbsentAssumption DEF Evolves, DecoderOK
  <2> QED BY <2>2, <2>3 DEF Evolves, QrInv, DecoderTypeOK
<1>2. CASE UNCHANGED dec
  BY <1>2
<1> QED BY <1>1, <1>2

\* The inductive invariant: a scanning decoder has collected exactly what it was
\* given, a complete one was given one sequence (struct QrDecoder).
THEOREM QrInvCorrect == DecoderSpec => []QrInv
BY QrInvInit, QrInvNext, PTL DEF DecoderSpec

\* Decoders keep the shape of QrDecoder and their limits.
THEOREM DecoderTypesCorrect == DecoderSpec => []DecoderTypeOK
<1>1. QrInv => DecoderTypeOK
  BY DEF QrInv
<1> QED BY <1>1, QrInvCorrect, PTL

\* A session that goes on or completes was only given frames that belong
\* together (receive_ur, receive_bbqr).
THEOREM ConsistentAlways == DecoderSpec => []ConsistentOrFailed
<1>1. QrInv => ConsistentOrFailed
  BY DEF QrInv, DecoderOK, ScanningOK, CompleteOK, Together, ConsistentOrFailed, Existing
<1> QED BY <1>1, QrInvCorrect, PTL

\* The payload is what the frames contain, whole and with their checksum
\* (finish).
THEOREM PayloadAlways == DecoderSpec => []PayloadFromFrames
<1>1. QrInv => PayloadFromFrames
  BY DEF QrInv, DecoderOK, CompleteOK, PayloadFromFrames, Existing
<1> QED BY <1>1, QrInvCorrect, PTL

\* The progress shown is the number of parts determined, short of their total
\* (progress).
THEOREM ProgressAlwaysTrue == DecoderSpec => []ProgressTrue
<1>1. QrInv => ProgressTrue
  <2> SUFFICES ASSUME QrInv, NEW s \in Existing, dec[s].phase = "scanning"
               PROVE  /\ dec[s].resolved = Cardinality(Determined(dec[s].fed))
                      /\ \A f \in dec[s].fed : dec[s].total = f.total /\ dec[s].resolved < f.total
    BY DEF ProgressTrue
  <2>1. ScanningOK(dec[s])
    BY DEF QrInv, DecoderOK, Existing
  <2>2. ASSUME NEW f \in dec[s].got PROVE Cardinality(Determined(dec[s].got)) < f.total
    <3>1. Together(dec[s].got) /\ Determined(dec[s].got) # 1 .. f.total
      BY <2>1 DEF ScanningOK
    <3> QED BY <3>1, TogetherParts
  <2> QED BY <2>1, <2>2 DEF ScanningOK
<1> QED BY <1>1, QrInvCorrect, PTL

\* Nothing opens a closed session again or changes its payload (cancel, close).
THEOREM ClosedAlways == DecoderSpec => ClosedForGood
<1>1. QrInv /\ QrInv' /\ [DecoderNext]_dec => [ClosedStays]_dec
  <2> SUFFICES ASSUME QrInv, QrInv', DecoderNext, NEW s \in Existing, dec[s].phase # "scanning"
               PROVE  /\ dec'[s].phase \in {dec[s].phase, "cancelled"}
                      /\ dec'[s].payload \in {dec[s].payload, None}
                      /\ dec'[s].phase \in {"cancelled", "failed"} =>
                           dec'[s].got = {} /\ dec'[s].payload = None
    BY DEF ClosedStays
  <2>1. s \in Sessions /\ dec[s] # None /\ dec[s] \in Decoders /\ DecoderOK(dec[s])
    BY DEF Existing, QrInv, DecoderOK
  <2>2. dec'[s] = dec[s] \/ dec'[s] = Closed(dec[s], "cancelled")
    BY <2>1, DecodersStay
  <2>3. CASE dec'[s] = dec[s]
    BY <2>1, <2>3 DEF DecoderOK, ClosedOK
  <2>4. CASE dec'[s] = Closed(dec[s], "cancelled")
    BY <2>1, <2>4, ClosedDecoderOK DEF ClosedOK
  <2> QED BY <2>2, <2>3, <2>4
<1> QED BY <1>1, QrInvCorrect, PTL DEF DecoderSpec, ClosedForGood
=================================================================================
