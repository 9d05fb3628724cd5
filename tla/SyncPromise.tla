----------------------------- MODULE SyncPromise ------------------------------
(***************************************************************************)
(* What synchronization promises its callers, without threads, tables,     *)
(* locks or snapshots: an operation is opened and ends once; the one step  *)
(* that completes it is the step that replaces the wallet's chain view, by *)
(* one that is not older and that has scanned every address handed out.    *)
(***************************************************************************)
EXTENDS Naturals

CONSTANTS Wallets, Ops

VARIABLES
  view,      \* view[w]: version of the chain seen, number of addresses scanned
  revealed,  \* number of addresses of w handed out
  outcome    \* outcome[o]: "absent", "open" or how the operation ended

pvars == <<view, revealed, outcome>>

Ended == {"complete", "cancelled", "failed"}

PromiseInit ==
  /\ view = [w \in Wallets |-> [version |-> 0, upto |-> 0]]
  /\ revealed = [w \in Wallets |-> 0]
  /\ outcome = [o \in Ops |-> "absent"]

Reveal(w) ==
  /\ revealed' = [revealed EXCEPT ![w] = @ + 1]
  /\ UNCHANGED <<view, outcome>>

\* Opening may forget operations that have ended.
Open(o) ==
  /\ outcome[o] = "absent"
  /\ outcome'[o] = "open"
  /\ \A p \in Ops \ {o} : \/ outcome'[p] = outcome[p]
                          \/ outcome[p] \in Ended /\ outcome'[p] = "absent"
  /\ UNCHANGED <<view, revealed>>

Complete(o, w) ==
  /\ outcome[o] = "open"
  /\ outcome' = [outcome EXCEPT ![o] = "complete"]
  /\ view' = [view EXCEPT ![w] = view'[w]]
  /\ revealed' = [revealed EXCEPT ![w] = revealed'[w]]
  /\ view'[w].version >= view[w].version
  /\ revealed'[w] >= revealed[w]
  /\ view'[w].upto >= revealed'[w]

Quit(o, end) ==
  /\ outcome[o] = "open"
  /\ end \in {"cancelled", "failed"}
  /\ outcome' = [outcome EXCEPT ![o] = end]
  /\ UNCHANGED <<view, revealed>>

PromiseNext ==
  \/ \E w \in Wallets : Reveal(w)
  \/ \E o \in Ops : \/ Open(o)
                    \/ \E w \in Wallets : Complete(o, w)
                    \/ \E end \in Ended : Quit(o, end)

Promise == PromiseInit /\ [][PromiseNext]_pvars
=============================================================================
