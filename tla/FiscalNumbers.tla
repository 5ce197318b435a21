---------------------------- MODULE FiscalNumbers ----------------------------
(***************************************************************************)
(* What the service promises its clients and DGII, whatever goes on        *)
(* between them: an invoice has at most one fiscal number (eNCF) that DGII *)
(* holds for valid, a number serves one invoice, and an acceptance the     *)
(* service reports is DGII's own, for the content reported, and is never   *)
(* taken back.                                                             *)
(***************************************************************************)
CONSTANTS Txn, Encf, Edit, None

VARIABLES
  held,      \* held[n]: DGII's verdict on the number n, the invoice and the content
  reported   \* reported[t]: the number and the content t is reported accepted with

numbers == <<held, reported>>

Init ==
  /\ held = [n \in Encf |-> None]
  /\ reported = [t \in Txn |-> None]

\* The number n of t counts, or may yet come to.
Live(n, t) == held[n] # None /\ held[n].txn = t /\ held[n].st \in {"En Proceso", "Aceptado"}

Register(n, t) ==
  /\ held[n] = None
  /\ \A k \in Encf : ~Live(k, t)
  /\ \E s \in {"En Proceso", "Aceptado", "Rechazado"}, e \in Edit :
       held' = [held EXCEPT ![n] = [st |-> s, txn |-> t, edit |-> e]]
  /\ UNCHANGED reported

Decide(n) ==
  /\ held[n] # None /\ held[n].st = "En Proceso"
  /\ \E s \in {"Aceptado", "Rechazado"} : held' = [held EXCEPT ![n].st = s]
  /\ UNCHANGED reported

Reportable(t, r) == held[r.encf] = [st |-> "Aceptado", txn |-> t, edit |-> r.edit]

\* A pass of the reconciler may report several invoices at once.
Report ==
  /\ reported' \in [Txn -> [encf : Encf, edit : Edit] \cup {None}]
  /\ \A t \in Txn :
       reported'[t] # reported[t] => reported[t] = None /\ Reportable(t, reported'[t])
  /\ UNCHANGED held

Next ==
  \/ \E n \in Encf : Decide(n) \/ \E t \in Txn : Register(n, t)
  \/ Report

Spec == Init /\ [][Next]_numbers
=============================================================================
