--------------------------- MODULE MCEntitlements ---------------------------
(***************************************************************************)
(* Entitlements for TLC: an operations account and an affiliate, two       *)
(* organizations with one subscription each (d1, d2) at the same cloud     *)
(* account x1, and a container (d3, account x2) that the job must skip.    *)
(***************************************************************************)
EXTENDS Entitlements

CONSTANTS e1, e2, o1, o2, d1, d2, d3, x1, x2, ops, aff, c1, c2

MCOwnerOf == [d \in Datasource |-> IF d = d2 THEN o2 ELSE o1]
MCAccountOf == [d \in Datasource |-> IF d = d3 THEN x2 ELSE x1]
MCCreatedAt == [o \in Organization |-> IF o = o1 THEN 1 ELSE 2]

=============================================================================
