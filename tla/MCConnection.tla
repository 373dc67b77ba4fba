------------------------------ MODULE MCConnection ------------------------------
(* Two tenants with access to one shop, one of them to a second shop as well. *)
EXTENDS Connection

CONSTANTS t1, t2, s1, s2

MCTenants == {t1, t2}
MCShops == {s1, s2}
MCPairs == {<<t1, s1>>, <<t2, s1>>, <<t2, s2>>}
=============================================================================
