--------------------------- MODULE MCEcfSequences ---------------------------
(* Small instances of EcfSequences for TLC. *)
EXTENDS EcfSequences, TLC

\* Two ambientes of one tenant that stand in for each other, and another scope.
PairScopes == {"t:PreCertificacion", "t:TestEcf", "t:Produccion"}
PairAlt == ("t:PreCertificacion" :> "t:TestEcf") @@ ("t:TestEcf" :> "t:PreCertificacion")
           @@ ("t:Produccion" :> None)
PairBare == [s \in PairScopes |-> None]

\* The default tenant, with and without an explicit environment.
DefaultScopes == {"default-tenant", "default-tenant:Produccion"}
DefaultAlt == [s \in DefaultScopes |-> None]
DefaultBare == ("default-tenant" :> None) @@ ("default-tenant:Produccion" :> "default-tenant")

RowDesde == (1 :> 2) @@ (2 :> 1)
RowHasta == (1 :> 4) @@ (2 :> 3)
DefaultDesde == (1 :> 1) @@ (2 :> 1)
DefaultHasta == (1 :> 3) @@ (2 :> 3)

Symmetry == Permutations(Caller)
=============================================================================
