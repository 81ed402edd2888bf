----------------------------- MODULE MCAccounts -----------------------------
(***************************************************************************)
(* Accounts for TLC: the operations account and one or two others; the     *)
(* entitlements are all of one of them.                                    *)
(***************************************************************************)
EXTENDS Accounts

CONSTANTS ops, a1, a2, x1, x2, e1, e2, c1, c2, r1, r2

MCOwnerOf == [e \in EntitlementId |-> a1]

\* Identifiers are interchangeable: the first account is ops with the external id x1.  It has
\* no entitlements, so its row is never written: runs that find no other are left out, and
\* the others count it last.
FirstThings ==
  /\ account'[a1].type # Absent => account'[ops].type # Absent
  /\ account'[ops].external_id # x2
  /\ \A r \in Run : run'[r].phase # "idle" => account[a1].type # Absent
  /\ \A r \in Run : run[r].todo = {ops, a1} => ops \in run'[r].todo \/ run'[r].phase = "idle"

OrderedNext == Next /\ FirstThings

OrderedSpec == Init /\ [][OrderedNext]_vars

=============================================================================
