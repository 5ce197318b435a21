--------------------------- MODULE MCEcfDocuments ---------------------------
(* Small instances of EcfDocuments for TLC. *)
EXTENDS EcfDocuments, TLC

CONSTANTS w1, w2, t1, t2

\* Every request may come for every invoice.
All == [w \in Worker |-> Txn]

\* w2 can race w1 only on t1.
Overlap == (w1 :> {t1, t2}) @@ (w2 :> {t1})
=============================================================================
