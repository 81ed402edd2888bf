-------------------------- MODULE MCOrganizations --------------------------
(***************************************************************************)
(* Organizations for TLC: two rows, one of them left partially created.    *)
(***************************************************************************)
EXTENDS Organizations, TLC

CONSTANTS g1, g2, r1, r2, n1, n2, x1, x2, mail1, c1, c2

\* Updates and administrators have nothing in common but the row they read: each is
\* explored without the other, together with creations and deletions.
NoUpdates ==
  /\ \A c \in Client : request[c].phase \notin {"set_external", "rename"}
  /\ \A r \in Remote : remote[r].named \subseteq {remote[r].name}

NoAdministrators ==
  /\ \A c \in Client : request[c].email = None
  /\ employee = {}

Apart == NoUpdates \/ NoAdministrators

\* Nobody but add_additional_admin creates users and resets passwords.
OnlyAdministrators ==
  remote_user' # remote_user => \E c \in Client : request[c].phase \in {"create_user", "reset"}

Interchangeable ==
  Permutations(Name) \cup Permutations(ExternalId) \cup Permutations(Remote) \cup Permutations(Client)

=============================================================================
