--------------------------- MODULE MCFiscalPromise ---------------------------
(* A small instance of EcfDocuments on which TLC checks what                *)
(* FiscalPromiseProofs proves, and the invariant it proves it from.         *)
EXTENDS FiscalPromiseProofs, TLC

CONSTANTS w1, w2, t1, t2

\* A thread for each invoice.
OneEach == (w1 :> {t1}) @@ (w2 :> {t2})

\* Contents are only compared.
Contents == Permutations(Edit)
=============================================================================
