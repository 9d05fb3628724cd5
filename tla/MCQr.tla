--------------------------------- MODULE MCQr ----------------------------------
(***************************************************************************)
(* QrScan with a BBQr sequence of two parts.                              *)
(***************************************************************************)
EXTENDS QrScan

Code(format, head, total, number, data) ==
  [format |-> format, head |-> head, total |-> total, number |-> number, data |-> data]
Only(i, v) == [j \in {i} |-> v]

MCFrames == {Code("bbqr", "b", 2, 1, Only(1, "x")), Code("bbqr", "b", 2, 2, Only(2, "y"))}
MCValues  == {"x", "y"}
MCLength  == [v \in MCValues |-> 1]
MCValid   == {<<"x", "y">>}
================================================================================
