----------------------------- MODULE AtomicApply -----------------------------
(***************************************************************************)
(* What `apply` promises about the server's checkout, seen as one step: it *)
(* goes from one checkout to the deployed one, and if it is cut short, to  *)
(* one between the two that a repeated deploy can finish.                  *)
(***************************************************************************)
EXTENDS Overlay

CONSTANTS Requests, HandFiles

VARIABLE checkout

\* Every file, index entry and the ledger are as before or as deployed, the
\* index entry of a draft possibly as it was written before it was restaged or
\* absorbed.  HEAD moves only when all files are written, and the ledger only
\* after HEAD.
Torn(old, new, r) ==
  LET full == Applied(old, r) IN
    /\ new.head \in {old.head, full.head}
    /\ new.ledger \in {old.ledger, full.ledger}
    /\ \A p \in Paths : /\ new.disk[p] \in {old.disk[p], full.disk[p]}
                        /\ new.index[p] \in {old.index[p], WrittenIndex(old, r)[p], full.index[p]}
    /\ new.head # old.head =>
         /\ new.disk = full.disk
         /\ \A p \in DeploySet(old, r) : new.index[p] \in {WrittenIndex(old, r)[p], full.index[p]}
    /\ new.ledger # old.ledger => new = full

Init == checkout \in Server

Work(p) == \/ \E v \in Content : checkout' = [checkout EXCEPT !.disk[p] = v]
           \/ checkout' = [checkout EXCEPT !.index[p] = checkout.disk[p]]
Deploy(r) == checkout' = Applied(checkout, r)
Tear(r)   == checkout' \in Server /\ Torn(checkout, checkout', r)

Next == \/ \E p \in HandFiles : Work(p)
        \/ \E r \in Requests : Deploy(r) \/ Tear(r)

Spec == Init /\ [][Next]_checkout
=============================================================================
