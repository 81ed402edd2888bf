--------------------------- MODULE MCMemberships ---------------------------
(***************************************************************************)
(* Memberships for TLC: two users, memberships and accounts, one address.  *)
(***************************************************************************)
EXTENDS Memberships

CONSTANTS u1, u2, m1, m2, a1, a2, mail1, p1, p2, t1, t2, t3, c1, c2

=============================================================================
