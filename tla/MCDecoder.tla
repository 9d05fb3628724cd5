------------------------------- MODULE MCDecoder -------------------------------
(***************************************************************************)
(* QrDecoder with a UR sequence, whose last frame combines both its parts, *)
(* and a damaged frame of it; two BBQr sequences with one header that      *)
(* differ in one part, and one with another header; a code that stands     *)
(* alone, and one that is no frame at all.                                 *)
(***************************************************************************)
EXTENDS QrDecoder

Code(format, head, total, number, data) ==
  [format |-> format, head |-> head, total |-> total, number |-> number, data |-> data]
Only(i, v) == [j \in {i} |-> v]

MCFrames ==
  {Code("ur", "u", 2, 1, Only(1, "x")), Code("ur", "u", 2, 2, Only(2, "y")),
   Code("ur", "u", 2, 3, <<"x", "y">>), Code("ur", "u", 2, 2, Only(2, "z")),
   Code("bbqr", "b", 2, 1, Only(1, "x")), Code("bbqr", "b", 2, 2, Only(2, "y")),
   Code("bbqr", "b", 2, 2, Only(2, "z")), Code("bbqr", "c", 2, 2, Only(2, "y")),
   Code("bbqr", "l", 3, 1, Only(1, "y")), Code("bbqr", "l", 3, 2, Only(2, "y")),
   Code("bbqr", "l", 3, 3, Only(3, "z")), Code("bbqr", "l", 3, 3, Only(3, "x")),
   Code("raw", "r", 1, 1, <<"z">>), Code("single", "s", 1, 1, <<"x">>),
   Code("junk", "j", 1, 1, <<"x">>)}
MCValues  == {"x", "y", "z"}
MCLength  == [v \in MCValues |-> IF v = "z" THEN 2 ELSE 1]
MCValid   == {<<"x", "y">>, <<"x", "z">>, <<"x">>, <<"y", "y", "x">>}
MCChecked == {<<"u", <<"x", "y">>>>}
================================================================================
