----------------------------- MODULE MCBroadcast ------------------------------
(***************************************************************************)
(* Broadcast with one draft d of one coin a, which either of two keys can  *)
(* sign, so that discarding and approving it anew changes its final bytes. *)
(***************************************************************************)
EXTENDS Broadcast
CONSTANTS a, d

MCCoins   == {a}
MCDrafts  == {d}
MCInputs  == [e \in DraftIds |-> {a}]
MCOutputs == [e \in DraftIds |-> {}]
MCLabel   == [e \in DraftIds |-> ""]
=============================================================================
