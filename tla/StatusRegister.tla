--------------------------- MODULE StatusRegister ---------------------------
(***************************************************************************)
(* What the persistence layer of the Operations API promises about the     *)
(* status column of a table, whatever the table is.                        *)
(*                                                                         *)
(* A client (a request, a job, a command) reads the status of a row,       *)
(* validates the move it wants against what it read, and writes the new    *)
(* status later.  Nothing ties the write to the read: the promise is only  *)
(* that every status a client writes is a legal move from a status that    *)
(* the row really had when THAT client read it.  Jobs that use one         *)
(* conditional UPDATE statement read and write in the same step.           *)
(***************************************************************************)
CONSTANTS
  Rows,      \* primary keys
  Clients,   \* requests, jobs and commands that may be in flight
  Statuses,  \* the values of the status enumeration
  Fresh,     \* the statuses a row may be inserted with
  Moves,     \* <<from, to>>: the moves the handlers validate
  Nothing    \* no such row; or: the client has not read this row

\* What an instance must satisfy.
RegisterAssumption ==
  /\ Fresh \subseteq Statuses
  /\ Moves \subseteq Statuses \X Statuses
  /\ Nothing \notin Statuses

VARIABLES
  status,    \* [Rows -> committed status, or Nothing]
  seen       \* [Clients -> [Rows -> the status it read and may act upon]]

vars == <<status, seen>>

Blind == [r \in Rows |-> Nothing]

TypeOK ==
  /\ status \in [Rows -> Statuses \cup {Nothing}]
  /\ seen \in [Clients -> [Rows -> Statuses \cup {Nothing}]]

Init ==
  /\ status \in [Rows -> Fresh \cup {Nothing}]
  /\ seen = [c \in Clients |-> Blind]

-----------------------------------------------------------------------------

\* The rows of R take the statuses new gives them.
SetStatus(R, new) ==
  status' = [r \in Rows |-> IF r \in R THEN new[r] ELSE status[r]]

Insert(r) ==
  /\ status[r] = Nothing
  /\ \E s \in Fresh : status' = [status EXCEPT ![r] = s]
  /\ UNCHANGED seen

Observe(c, r) ==
  /\ status[r] # Nothing
  /\ seen' = [seen EXCEPT ![c][r] = status[r]]
  /\ UNCHANGED status

\* The client commits what it decided from what it read, however old that is.
Commit(c) ==
  /\ \E R \in SUBSET Rows : \E new \in [R -> Statuses] :
       /\ \A r \in R : <<seen[c][r], new[r]>> \in Moves
       /\ SetStatus(R, new)
  /\ seen' = [seen EXCEPT ![c] = Blind]

\* A rollback: the request failed, timed out or was rejected.
Rollback(c) ==
  /\ seen' = [seen EXCEPT ![c] = Blind]
  /\ UNCHANGED status

\* One UPDATE ... WHERE status = ... statement: the check and the write are one step.
ConditionalUpdate ==
  /\ \E R \in SUBSET Rows : \E new \in [R -> Statuses] :
       /\ \A r \in R : <<status[r], new[r]>> \in Moves
       /\ SetStatus(R, new)
  /\ UNCHANGED seen

Next ==
  \/ \E r \in Rows : Insert(r)
  \/ \E c \in Clients, r \in Rows : Observe(c, r)
  \/ \E c \in Clients : Commit(c) \/ Rollback(c)
  \/ ConditionalUpdate

Spec == Init /\ [][Next]_vars

-----------------------------------------------------------------------------

\* A step that leaves row r alone, inserts it, or moves it along the life cycle.
FollowsLifecycle(r) ==
  \/ status'[r] = status[r]
  \/ status[r] = Nothing /\ status'[r] \in Fresh
  \/ <<status[r], status'[r]>> \in Moves

\* No client in flight holds an outdated view of row r.
Settled(r) == \A c \in Clients : seen[c][r] \in {Nothing, status[r]}

\* A row that no client holds an outdated view of moves along the life cycle only:
\* reading before somebody else's commit and writing after it is the one way to
\* leave the life cycle (ModelHandler.update writes without looking again).
SettledRowsFollowLifecycle ==
  [][\A r \in Rows : Settled(r) => FollowsLifecycle(r)]_vars

\* What the callers of the API are told ("Only new entitlements can be redeemed"):
\* every row, always, moves along the life cycle.
RowsFollowLifecycle == [][\A r \in Rows : FollowsLifecycle(r)]_vars

=============================================================================
