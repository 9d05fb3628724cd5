------------------------------- MODULE MCSync ---------------------------------
(***************************************************************************)
(* SyncOps with small sets of cores, callers and wallets, which are        *)
(* interchangeable in the safety runs.                                     *)
(***************************************************************************)
EXTENDS SyncOps, TLC

Interchangeable == Permutations(Callers) \cup Permutations(Cores) \cup Permutations(Wallets)
=============================================================================
