------------------------------ MODULE MCAccess ------------------------------
(***************************************************************************)
(* Access for TLC: one user who may be invited to an account twice, or to  *)
(* two accounts, two sessions of that user and one request that changes    *)
(* the user or the memberships.                                            *)
(***************************************************************************)
EXTENDS Access

CONSTANTS u1, m1, m2, a1, a2, mail1, p1, p2, t1, t2, r1, c1, l1, l2

\* Rows, tokens and accounts are taken in order, and a user joins with the first password:
\* whatever does otherwise is the same up to names.
InOrder ==
  /\ membership[m1].account \in {None, a1}
  /\ membership[m2].status # Absent => membership[m1].status # Absent
  /\ t2 \in issued => t1 \in issued
  /\ request[c1].phase = "invite" /\ membership[m1].status = Absent => request[c1].account = a1
  /\ request[c1].phase = "accept" => request[c1].password # p2

\* One session is for tokens, the other for passwords.
Split ==
  /\ session[l1].phase \notin {"recover", "reset"}
  /\ session[l2].phase \in {"idle", "recover", "reset"}

\* Invitations neither lapse nor are renewed: Memberships is checked with both.
Prompt ==
  /\ expired = {}
  /\ request[c1].phase \notin {"regenerate", "find_invitation", "resend"}

Bounded == InOrder /\ Split /\ Prompt

=============================================================================
