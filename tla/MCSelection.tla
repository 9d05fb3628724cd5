----------------------------- MODULE MCSelection ------------------------------
(***************************************************************************)
(* StoreSelection with a few generations, whose names are interchangeable. *)
(* Of the entries that prove a store was used, Android has a master key, a *)
(* record and a database, iOS a record and a database: at least one stays. *)
(***************************************************************************)
EXTENDS StoreSelection, TLC

MCLosses == [p \in {"android", "ios"} |-> IF p = "ios" THEN 1 ELSE 2]
Names == Permutations(Generations)
=============================================================================
