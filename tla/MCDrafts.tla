------------------------------- MODULE MCDrafts -------------------------------
(***************************************************************************)
(* WalletStore with two drafts that compete for a coin, d1 spends a and d2 *)
(* spends a and b; and with one labelled draft that has a change output.   *)
(***************************************************************************)
EXTENDS WalletStore
CONSTANTS a, b, d1, d2

MCCoins    == {a, b}
TwoDrafts  == {d1, d2}
MCInputs   == [d \in DraftIds |-> IF d = d1 THEN {a} ELSE {a, b}]
NoOutputs  == [d \in DraftIds |-> {}]
NoLabels   == [d \in DraftIds |-> ""]

\* One labelled draft that spends a and pays b back to the wallet.
ChangeDraft   == {d1}
ChangeOutputs == [d \in DraftIds |-> {b}]
ChangeLabel   == [d \in DraftIds |-> "approved"]
=============================================================================
