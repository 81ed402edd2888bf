----------------------------- MODULE MCSystems -----------------------------
(***************************************************************************)
(* Systems for TLC: two systems, a user of the operations account.         *)
(***************************************************************************)
EXTENDS Systems

CONSTANTS s1, s2, ops, aff, admin, x1, x2, c1, c2

MCAccountOf == [u \in User |-> ops]

=============================================================================
