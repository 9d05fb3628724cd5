-------------------------------- MODULE MCUsb ---------------------------------
(***************************************************************************)
(* UsbSession with signer d1 of wallet w1 and signer d2 of wallet w2,      *)
(* different keys behind the same fingerprint f.                           *)
(***************************************************************************)
EXTENDS UsbSession
CONSTANTS w1, w2, d1, d2, f

MCFingerprint   == [d \in Devices |-> f]
MCSigners == [w \in Wallets |-> IF w = w1 THEN {d1} ELSE {d2}]

\* The wallets are alike when their signers change places with them.
Swap == [x \in {w1, w2, d1, d2} |->
           CASE x = w1 -> w2 [] x = w2 -> w1 [] x = d1 -> d2 [] x = d2 -> d1]
MCSymmetry == {Swap}
===============================================================================
