-------------------------------- MODULE Amounts --------------------------------
(***************************************************************************)
(* The decimal conversions of amount.rs: what the user enters and is shown *)
(* as bitcoin or sat/vB, and the integers the wallet works with.           *)
(*                                                                         *)
(* A text is abstracted to what the code reads from it.  Texts of any      *)
(* other form (signs, exponents, other separators, a point without digits  *)
(* on both sides) are not decimal; zeros in front of a text count only for *)
(* its length.                                                             *)
(***************************************************************************)
EXTENDS Integers, Sequences, TLAPS

Coin    == 100000000             \* satoshis in a bitcoin
MaxSats == 21000000 * Coin
U32     == 4294967296            \* 2^32
MaxU64  == U32 * U32 - 1

\* 10^(8 - n): what the n-th place after the point is worth.
Worth == <<10000000, 1000000, 100000, 10000, 1000, 100, 10, 1>>

\* The digits before and after the point, read as numbers; long: more than 32
\* characters.
Texts == [decimal : BOOLEAN, long : BOOLEAN, whole : Nat, places : Nat, fraction : Nat]

\* fraction.len() <= 8; a fraction has no more digits than places.
WellFormed(t) ==
  /\ t.decimal /\ ~t.long
  /\ t.places \in 0 .. 8
  /\ t.places > 0 => t.fraction * Worth[t.places] < Coin

FractionOf(t) == IF t.places = 0 THEN 0 ELSE t.fraction * Worth[t.places]
Value(t) == t.whole * Coin + FractionOf(t)

Error == -1

ParseBtc(t) ==
  IF /\ WellFormed(t)
     /\ t.whole <= MaxU64 /\ t.whole * Coin <= MaxU64 /\ Value(t) <= MaxU64
     /\ Value(t) <= MaxSats
  THEN Value(t) ELSE Error

Shown(whole, places, fraction) ==
  [decimal |-> TRUE, long |-> FALSE, whole |-> whole, places |-> places, fraction |-> fraction]

\* The fewest places that show a fraction: trim_end_matches('0').
Ends(fraction, n) == fraction % Worth[n] = 0
Shortest(fraction) ==
  CHOOSE n \in 1 .. 8 : Ends(fraction, n) /\ \A m \in 1 .. 8 : m < n => ~Ends(fraction, m)

FormatBtc(sats) ==
  LET whole    == sats \div Coin
      fraction == sats % Coin
      places   == Shortest(fraction)
  IN  IF fraction = 0 THEN Shown(whole, 0, 0)
      ELSE Shown(whole, places, fraction \div Worth[places])

\* A sat/vB rate, up to 1000, in satoshis per 1000 weight units.
Unit == 400000
MaxRate == 250000

ParseFeeRate(t) ==
  LET sats == ParseBtc(t)
  IN  IF sats <= 0 \/ sats > 1000 * Coin THEN Error ELSE (sats + Unit - 1) \div Unit

FormatFeeRate(rate) == FormatBtc(IF rate * Unit <= MaxU64 THEN rate * Unit ELSE MaxU64)

-----------------------------------------------------------------------------
(* Theorems *)

LEMMA WorthValues ==
  /\ Worth[1] = 10000000 /\ Worth[2] = 1000000 /\ Worth[3] = 100000 /\ Worth[4] = 10000
  /\ Worth[5] = 1000 /\ Worth[6] = 100 /\ Worth[7] = 10 /\ Worth[8] = 1
BY SMT DEF Worth

LEMMA SupplyFits == MaxU64 \in Nat /\ MaxSats \in Nat /\ MaxSats <= MaxU64
<1>1. U32 \in Nat /\ 4000000 <= U32 /\ 1000000000 <= U32
  BY SMT DEF U32
<1>2. 4000000 * 1000000000 <= U32 * U32
  BY <1>1, SMT
<1> QED BY <1>1, <1>2, SMT DEF MaxU64, MaxSats, Coin

LEMMA WorthNat == \A n \in 1 .. 8 : Worth[n] \in Nat \ {0}
BY WorthValues, SMT

\* Whatever the fraction is, some number of places shows it.
LEMMA ShortestEnds ==
  ASSUME NEW fraction \in Nat
  PROVE  Shortest(fraction) \in 1 .. 8 /\ Ends(fraction, Shortest(fraction))
<1> DEFINE E(n) == Ends(fraction, n)
           First(n) == E(n) /\ \A m \in 1 .. 8 : m < n => ~E(m)
<1>1. E(8)
  BY WorthValues, SMT DEF Ends
<1> HIDE DEF E
<1>2. \E n \in 1 .. 8 : First(n)
  <2>1. CASE E(1) \/ E(2)
    BY <2>1, SMT
  <2>2. CASE ~E(1) /\ ~E(2) /\ (E(3) \/ E(4))
    BY <2>2, SMT
  <2>3. CASE ~E(1) /\ ~E(2) /\ ~E(3) /\ ~E(4) /\ (E(5) \/ E(6))
    BY <2>3, SMT
  <2>4. CASE ~E(1) /\ ~E(2) /\ ~E(3) /\ ~E(4) /\ ~E(5) /\ ~E(6)
    BY <1>1, <2>4, SMT
  <2> QED BY <2>1, <2>2, <2>3, <2>4, Zenon
<1> QED BY <1>2, Zenon DEF Shortest, First, E

LEMMA FractionNat ==
  ASSUME NEW t \in Texts, WellFormed(t)
  PROVE  FractionOf(t) \in Nat /\ t.whole \in Nat
<1>1. t.places \in 0 .. 8 /\ t.whole \in Nat /\ t.fraction \in Nat
  BY SMT DEF Texts, WellFormed
<1>2. CASE t.places = 0
  BY <1>1, <1>2, SMT DEF FractionOf
<1>3. CASE t.places # 0
  <2>1. Worth[t.places] \in Nat
    BY <1>1, <1>3, WorthNat, SMT
  <2> QED BY <1>1, <1>3, <2>1, SMT DEF FractionOf
<1> QED BY <1>2, <1>3

\* A text with at most eight places is read exactly: no place is rounded, no
\* product overflows, and the only limit is the supply ("Parse user-entered BTC
\* without binary floating point or silent rounding").
THEOREM ParseExact ==
  ASSUME NEW t \in Texts, WellFormed(t)
  PROVE  ParseBtc(t) = IF Value(t) <= MaxSats THEN Value(t) ELSE Error
<1>1. FractionOf(t) \in Nat /\ t.whole \in Nat
  BY FractionNat
<1>2. Value(t) <= MaxSats =>
        t.whole <= MaxU64 /\ t.whole * Coin <= MaxU64 /\ Value(t) <= MaxU64
  BY <1>1, SupplyFits, SMT DEF Value, Coin
<1> QED BY <1>2, SMT DEF ParseBtc

\* What is shown is read back as the same amount, for every amount there can be.
THEOREM RoundTrip ==
  ASSUME NEW sats \in 0 .. MaxSats
  PROVE  FormatBtc(sats) \in Texts /\ ParseBtc(FormatBtc(sats)) = sats
<1> DEFINE fraction == sats % Coin
           whole == sats \div Coin
           n == Shortest(fraction)
           digits == fraction \div Worth[n]
<1>1. fraction \in Nat /\ fraction < Coin /\ whole \in Nat /\ whole * Coin + fraction = sats
  <2>1. sats \in Nat
    BY SMT
  <2> QED BY <2>1, SMT DEF Coin
<1>2. n \in 1 .. 8 /\ fraction % Worth[n] = 0
  BY <1>1, ShortestEnds DEF Ends
<1> HIDE DEF fraction, whole, n
<1>3. digits \in Nat /\ digits * Worth[n] = fraction
  <2>1. n = 1 \/ n = 2 \/ n = 3 \/ n = 4 \/ n = 5 \/ n = 6 \/ n = 7 \/ n = 8
    BY <1>2, SMT
  <2> QED BY <1>1, <1>2, <2>1, WorthValues, SMT
<1> HIDE DEF digits
<1>4. \E t \in Texts : FormatBtc(sats) = t /\ WellFormed(t) /\ Value(t) = sats
  <2>1. CASE fraction = 0
    <3>1. FormatBtc(sats) = Shown(whole, 0, 0)
      BY <2>1, Zenon DEF FormatBtc, fraction, whole
    <3>2. Shown(whole, 0, 0) \in Texts /\ WellFormed(Shown(whole, 0, 0))
      BY <1>1, SMT DEF Shown, Texts, WellFormed
    <3>3. Value(Shown(whole, 0, 0)) = sats
      BY <1>1, <2>1, SMT DEF Shown, Value, FractionOf, Coin
    <3> QED BY <3>1, <3>2, <3>3
  <2>2. CASE fraction # 0
    <3>1. FormatBtc(sats) = Shown(whole, n, digits)
      BY <2>2, Zenon DEF FormatBtc, fraction, whole, n, digits
    <3>2. Shown(whole, n, digits) \in Texts /\ WellFormed(Shown(whole, n, digits))
      BY <1>1, <1>2, <1>3, SMT DEF Shown, Texts, WellFormed
    <3>3. Value(Shown(whole, n, digits)) = sats
      BY <1>1, <1>2, <1>3, SMT DEF Shown, Value, FractionOf
    <3> QED BY <3>1, <3>2, <3>3
  <2> QED BY <2>1, <2>2
<1>5. sats <= MaxSats
  BY SMT
<1> QED BY <1>4, <1>5, ParseExact

\* A fee rate is never lowered by the precision the wallet keeps, and raised by
\* less than one unit of it ("rounded upward to BDK's exact integer sat/kwu
\* precision").
THEOREM FeeNeverLower ==
  ASSUME NEW t \in Texts, ParseFeeRate(t) # Error
  PROVE  /\ ParseFeeRate(t) \in Nat \ {0} /\ ParseFeeRate(t) <= MaxRate
         /\ ParseBtc(t) <= ParseFeeRate(t) * Unit
         /\ ParseFeeRate(t) * Unit < ParseBtc(t) + Unit
<1> DEFINE sats == ParseBtc(t)
<1>1. sats \in Int
  <2>1. CASE WellFormed(t)
    BY <2>1, FractionNat, SMT DEF ParseBtc, Value, Coin, Error
  <2>2. CASE ~WellFormed(t)
    BY <2>2, SMT DEF ParseBtc, Error
  <2> QED BY <2>1, <2>2
<1> HIDE DEF sats
<1>2. 0 < sats /\ sats <= 1000 * Coin /\ ParseFeeRate(t) = (sats + Unit - 1) \div Unit
  BY <1>1, SMT DEF ParseFeeRate, sats, Coin, Unit
<1>3. /\ (sats + Unit - 1) \div Unit \in Nat \ {0} /\ (sats + Unit - 1) \div Unit <= MaxRate
      /\ sats <= ((sats + Unit - 1) \div Unit) * Unit
      /\ ((sats + Unit - 1) \div Unit) * Unit < sats + Unit
  BY <1>1, <1>2, SMT DEF Coin, Unit, MaxRate
<1> QED BY <1>2, <1>3, SMT DEF sats

\* The rate a review shows is the rate it was made with: it is read back as the
\* same number of units.
THEOREM FeeRoundTrip ==
  ASSUME NEW rate \in Nat \ {0}, rate <= MaxRate
  PROVE  ParseFeeRate(FormatFeeRate(rate)) = rate
<1> DEFINE sats == rate * Unit
<1>1. sats \in Nat /\ 0 < sats /\ sats <= 1000 * Coin /\ sats <= MaxSats
  BY SMT DEF Unit, MaxSats, Coin, MaxRate
<1>2. (sats + Unit - 1) \div Unit = rate
  BY SMT DEF Unit
<1> HIDE DEF sats
<1>3. FormatFeeRate(rate) = FormatBtc(sats)
  BY <1>1, SupplyFits, SMT DEF FormatFeeRate, sats
<1>4. ParseBtc(FormatFeeRate(rate)) = sats
  BY <1>1, <1>3, RoundTrip, SupplyFits, SMT
<1> QED BY <1>1, <1>2, <1>4, SMT DEF ParseFeeRate, Coin, Unit
================================================================================
