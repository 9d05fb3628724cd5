------------------------------- MODULE CoinLocks -------------------------------
(***************************************************************************)
(* What the store promises about coins, without its tables: a payment gets *)
(* all the coins it needs or none, only free ones, and gives them back     *)
(* together; the payments of a restored store keep theirs suspended, until *)
(* each is settled or gets its coins back.                                 *)
(***************************************************************************)
CONSTANTS Coins, Payments, Needs, None

VARIABLES
  owner,  \* the payment a coin is reserved for, or None
  held    \* the suspended payments that hold a coin

TypeOK == owner \in [Coins -> Payments \cup {None}] /\ held \in [Coins -> SUBSET Payments]

Init == owner = [c \in Coins |-> None] /\ held = [c \in Coins |-> {}]

Owned(p) == [c \in Coins |-> IF c \in Needs[p] THEN p ELSE owner[c]]

Acquire(p) ==
  /\ \A c \in Needs[p] : owner[c] = None /\ held[c] = {}
  /\ owner' = Owned(p)
  /\ UNCHANGED held

\* The ended payments lose what they own, the settled ones what they hold.
End(ended, settled) ==
  /\ owner' = [c \in Coins |-> IF owner[c] \in ended THEN None ELSE owner[c]]
  /\ held' = [c \in Coins |-> held[c] \ settled]

Suspend(payments) ==
  /\ owner' = [c \in Coins |-> None]
  /\ held' = [c \in Coins |-> {p \in payments : c \in Needs[p]}]

Resume(p) ==
  /\ \A c \in Needs[p] : owner[c] = None /\ p \in held[c]
  /\ owner' = Owned(p)
  /\ held' = [c \in Coins |-> held[c] \ {p}]

Next ==
  \/ \E ended \in SUBSET Payments : \E settled \in SUBSET ended : End(ended, settled)
  \/ \E p \in Payments : Acquire(p) \/ Resume(p)
  \/ \E payments \in SUBSET Payments : Suspend(payments)

Spec == Init /\ [][Next]_<<owner, held>>
================================================================================
