---------------------------- MODULE MCDgiiTokens ----------------------------
(* Small instances of DgiiTokens for TLC. *)
EXTENDS DgiiTokens, TLC
CONSTANTS t1, t2, shop, tenant, p1

\* shop is the default client's manager, tenant one made for one call.
MCProcessOf == (shop :> p1) @@ (tenant :> p1)

\* Both threads share shop, or each has its own manager.
MCHomes == {(t1 :> shop) @@ (t2 :> m) : m \in {shop, tenant}}
=============================================================================
