------------------------------ MODULE Accounts ------------------------------
(***************************************************************************)
(* The accounts: how they are created and changed, and the counters the    *)
(* calculate_accounts_stats command keeps in them.                         *)
(*                                                                         *)
(* The command is one transaction: it loads every account, counts the      *)
(* entitlements of one after the other with a statement that sees what is  *)
(* committed by then, and writes the counters that differ from the loaded  *)
(* ones.  A row it has written is locked until its commit.  Entitlements   *)
(* change all the while, and a second run may overlap the first.           *)
(***************************************************************************)
EXTENDS Naturals, FiniteSets, OrmSession

CONSTANTS
  AccountId,      \* primary keys of the accounts table
  ExternalId,     \* accounts.external_id
  EntitlementId,  \* primary keys of the entitlements table
  OwnerOf,        \* [EntitlementId -> AccountId]
  Client,         \* slots for requests and create_operations_account commands in flight
  Run,            \* slots for runs of calculate_accounts_stats
  None            \* SQL NULL

ASSUME AccountsAssumption ==
  /\ OwnerOf \in [EntitlementId -> AccountId]
  /\ IsFiniteSet(EntitlementId)
  /\ None \notin AccountId \cup ExternalId

VARIABLES
  account,        \* the committed accounts table
  entitlement,    \* the committed entitlements.status column
  request,        \* what each request in flight holds in its session
  run,            \* what each run of the command holds in its session
  been            \* the counts there have been, per account and counter

vars == <<account, entitlement, request, run, been>>

-----------------------------------------------------------------------------
(* Rows *)

AccountType == {"operations", "affiliate"}
EntitlementStatus == {"new", "active", "terminated", "deleted"}
Counted == EntitlementStatus \ {"deleted"}
Absent == "absent"

\* No handler changes accounts.status: a row that is there is active.
Account == [type: AccountType \cup {Absent}, external_id: ExternalId \cup {None},
            new: Nat, active: Nat, terminated: Nat]

NoAccount == [type |-> Absent, external_id |-> None, new |-> 0, active |-> 0, terminated |-> 0]

\* Mutant: the counters have no default.
NewAccountNull(type, x) ==
  [NoAccount EXCEPT !.type = type, !.external_id = x,
                    !.new = None, !.active = None, !.terminated = None]

\* Accounts are created with the defaults of their counters.
NewAccount(type, x) == [NoAccount EXCEPT !.type = type, !.external_id = x]

Exists(a) == account[a].type # Absent

\* loaded: the external id of the account as loaded; a request assigns no other column.
Request == [phase: {"idle", "create", "create_operations", "update"},
            account: AccountId \cup {None}, loaded: ExternalId \cup {None},
            external_id: ExternalId \cup {None}]

Idle == [phase |-> "idle", account |-> None, loaded |-> None, external_id |-> None]

Counts == [Counted -> Nat]

\* todo: the accounts it has yet to count; loaded and assigned: its identity map, before and
\* after its assignments; counts: of the account it has just counted.
RunState == [phase: {"idle", "count", "write"}, todo: SUBSET AccountId,
             loaded: [AccountId -> Account], assigned: [AccountId -> Account],
             account: AccountId \cup {None}, counts: Counts]

Nothing == [s \in Counted |-> 0]

NoRun == [phase |-> "idle", todo |-> {}, loaded |-> [a \in AccountId |-> NoAccount],
          assigned |-> [a \in AccountId |-> NoAccount], account |-> None, counts |-> Nothing]

TypeOK ==
  /\ account \in [AccountId -> Account]
  /\ entitlement \in [EntitlementId -> EntitlementStatus \cup {Absent}]
  /\ request \in [Client -> Request]
  /\ run \in [Run -> RunState]
  /\ been \in [AccountId -> [Counted -> SUBSET Nat]]

Init ==
  /\ account = [a \in AccountId |-> NoAccount]
  /\ entitlement = [e \in EntitlementId |-> Absent]
  /\ request = [c \in Client |-> Idle]
  /\ run = [r \in Run |-> NoRun]
  /\ been = [a \in AccountId |-> [s \in Counted |-> {0}]]

-----------------------------------------------------------------------------
(* Requests *)

\* The rows a run has written; it writes those whose counters have changed.
Written(r) == {a \in AccountId : run[r].assigned[a] # run[r].loaded[a]}
Locked(a) == \E r \in Run : a \in Written(r)

Goes(c, to) ==
  /\ request' = [request EXCEPT ![c] = to]
  /\ UNCHANGED <<account, entitlement, run, been>>

\* The commit; the request is over.
Saves(c, a, row) ==
  /\ account' = [account EXCEPT ![a] = row]
  /\ request' = [request EXCEPT ![c] = Idle]
  /\ UNCHANGED <<entitlement, run, been>>

RequestFails(c) ==
  /\ request[c].phase # "idle"
  /\ Goes(c, Idle)

\* check_operations_account: the API is for users and systems of the operations account.
OperationsCalls == \E a \in AccountId : account[a].type = "operations"

\* create_account looks the external id up, then inserts.
CreateLookUp(c, x) ==
  /\ request[c].phase = "idle"
  /\ OperationsCalls
  /\ \A a \in AccountId : Exists(a) => account[a].external_id # x
  /\ Goes(c, [Idle EXCEPT !.phase = "create", !.external_id = x])

Create(c, a) ==
  /\ request[c].phase = "create"
  /\ ~Exists(a)
  /\ Saves(c, a, NewAccount("affiliate", request[c].external_id))

\* The create_operations_account command does nothing if there is an operations account.
OperationsLookUp(c, x) ==
  /\ request[c].phase = "idle"
  /\ \A a \in AccountId : account[a].type # "operations"
  /\ Goes(c, [Idle EXCEPT !.phase = "create_operations", !.external_id = x])

CreateOperations(c, a) ==
  /\ request[c].phase = "create_operations"
  /\ ~Exists(a)
  /\ Saves(c, a, NewAccount("operations", request[c].external_id))

\* update_account looks at the type and at nothing else.
UpdateRead(c, a, x) ==
  /\ request[c].phase = "idle"
  /\ OperationsCalls
  /\ account[a].type = "affiliate"
  /\ Goes(c, [phase |-> "update", account |-> a, loaded |-> account[a].external_id,
              external_id |-> x])

Update(c) ==
  LET q == request[c]
      row == account[q.account]
  IN
  /\ q.phase = "update"
  /\ ~Locked(q.account)
  /\ Saves(c, q.account, Flush(row, [row EXCEPT !.external_id = q.loaded],
                                    [row EXCEPT !.external_id = q.external_id]))

-----------------------------------------------------------------------------
(* Entitlements, as module Entitlements promises: inserted new, and moved by whoever has *)
(* once seen them in a status that allows the move *)

OwnedBy(a, s) == {e \in EntitlementId : OwnerOf[e] = a /\ entitlement[e] = s}
Count(a) == [s \in Counted |-> Cardinality(OwnedBy(a, s))]

EntitlementChanges(e, s) ==
  LET a == OwnerOf[e] IN
  /\ account[a].type = "affiliate"
  /\ entitlement[e] = Absent <=> s = "new"
  /\ entitlement' = [entitlement EXCEPT ![e] = s]
  /\ been' = [been EXCEPT ![a] = [t \in Counted |-> @[t] \cup {Count(a)'[t]}]]
  /\ UNCHANGED <<account, request, run>>

-----------------------------------------------------------------------------
(* calculate_accounts_stats *)

RunGoes(r, to) ==
  /\ run' = [run EXCEPT ![r] = to]
  /\ UNCHANGED <<account, entitlement, request, been>>

StartRun(r) ==
  /\ run[r].phase = "idle"
  /\ RunGoes(r, [NoRun EXCEPT !.phase = "count", !.todo = {a \in AccountId : Exists(a)},
                              !.loaded = account, !.assigned = account])

\* Mutant: the condition on the owner is missing.
CountEverybodys(r, a) ==
  /\ run[r].phase = "count"
  /\ a \in run[r].todo
  /\ RunGoes(r, [run[r] EXCEPT !.phase = "write", !.todo = @ \ {a}, !.account = a,
       !.counts = [s \in Counted |-> Cardinality({e \in EntitlementId : entitlement[e] = s})]])

\* The query has no order: any account is next.  get_stats_by_account is one statement.
CountEntitlements(r, a) ==
  /\ run[r].phase = "count"
  /\ a \in run[r].todo
  /\ RunGoes(r, [run[r] EXCEPT !.phase = "write", !.todo = @ \ {a}, !.account = a,
                               !.counts = Count(a)])

\* Mutant: a status without entitlements keeps its counter.
WithCountsPresent(row, n) ==
  [row EXCEPT !.new = IF n["new"] = 0 THEN @ ELSE n["new"],
              !.active = IF n["active"] = 0 THEN @ ELSE n["active"],
              !.terminated = IF n["terminated"] = 0 THEN @ ELSE n["terminated"]]

\* stats.get(status, 0) for each of the three.
WithCounts(row, n) ==
  [row EXCEPT !.new = n["new"], !.active = n["active"], !.terminated = n["terminated"]]

\* The flush, which waits for another run that has written the row.
WriteCounts(r) ==
  LET a == run[r].account
      row == WithCounts(run[r].assigned[a], run[r].counts)
  IN
  /\ run[r].phase = "write"
  /\ row = run[r].loaded[a] \/ ~Locked(a)
  /\ RunGoes(r, [run[r] EXCEPT !.phase = "count", !.assigned = [@ EXCEPT ![a] = row],
                               !.account = None, !.counts = Nothing])

\* Mutant: whole rows are written.
CommitRows(r) ==
  /\ run[r].phase = "count"
  /\ run[r].todo = {}
  /\ account' = [a \in AccountId |->
       IF a \in Written(r) THEN run[r].assigned[a] ELSE account[a]]
  /\ run' = [run EXCEPT ![r] = NoRun]
  /\ UNCHANGED <<entitlement, request, been>>

Commit(r) ==
  /\ run[r].phase = "count"
  /\ run[r].todo = {}
  /\ account' = [a \in AccountId |->
       IF a \in Written(r) THEN Flush(account[a], run[r].loaded[a], run[r].assigned[a])
       ELSE account[a]]
  /\ run' = [run EXCEPT ![r] = NoRun]
  /\ UNCHANGED <<entitlement, request, been>>

\* A crash, or the victim PostgreSQL chooses when two runs wait for each other.
RunFails(r) ==
  /\ run[r].phase # "idle"
  /\ RunGoes(r, NoRun)

-----------------------------------------------------------------------------

Requests(c) ==
  \/ \E x \in ExternalId : CreateLookUp(c, x) \/ OperationsLookUp(c, x)
  \/ \E a \in AccountId : Create(c, a) \/ CreateOperations(c, a)
  \/ \E a \in AccountId, x \in ExternalId : UpdateRead(c, a, x)
  \/ Update(c) \/ RequestFails(c)

Runs(r) ==
  \/ StartRun(r)
  \/ \E a \in AccountId : CountEntitlements(r, a)
  \/ WriteCounts(r) \/ Commit(r) \/ RunFails(r)

Next ==
  \/ \E c \in Client : Requests(c)
  \/ \E e \in EntitlementId, s \in EntitlementStatus : EntitlementChanges(e, s)
  \/ \E r \in Run : Runs(r)

Spec == Init /\ [][Next]_vars

-----------------------------------------------------------------------------
(* Safety *)

Counters(row) ==
  [s \in Counted |-> IF s = "new" THEN row.new
                     ELSE IF s = "active" THEN row.active ELSE row.terminated]

\* Every counter of an account is a number of entitlements it once had in that status, or is
\* about to be, whichever runs overlap and whenever entitlements change.  The three together
\* need not have been true at one time: two runs may each have written some of them.
CountersWereTrue ==
  /\ \A a \in AccountId, s \in Counted : Counters(account[a])[s] \in been[a][s]
  /\ \A r \in Run :
       /\ run[r].phase = "write" => /\ run[r].account \in AccountId
                                    /\ \A s \in Counted : run[r].counts[s] \in been[run[r].account][s]
       /\ \A a \in AccountId, s \in Counted : Counters(run[r].assigned[a])[s] \in been[a][s]

\* A run of the command never takes back the external id of an account, which an update may
\* have committed since the run loaded it, nor creates or removes an account.
RunsChangeCountersOnly ==
  [][(\E r \in Run : run'[r] # run[r]) =>
       \A a \in AccountId : /\ account'[a].external_id = account[a].external_id
                            /\ account'[a].type = account[a].type]_vars

\* "The Operations Account already exist": one at most, if the command is not run twice at
\* the same time.
OneOperationsAccount ==
  \A a, b \in AccountId :
    account[a].type = "operations" /\ account[b].type = "operations" => a = b

\* "The external_id field has to be unique and not in DELETED status"
\* (validate_account_type_and_required_conditions): two creations that overlap, or an
\* update, which does not look, break it.
ExternalIdsAreUnique ==
  \A a, b \in AccountId :
    /\ account[a].type = "affiliate" /\ account[b].type = "affiliate"
    /\ account[a].external_id = account[b].external_id
    => a = b

-----------------------------------------------------------------------------
(* Liveness *)

\* If entitlements stop changing and runs keep succeeding, the counters end up right and
\* stay so: a run that counted before may overwrite what a later one has written, but only
\* once.
CountersConverge ==
  /\ <>[][UNCHANGED entitlement]_vars
  /\ []<><<\E r \in Run : Commit(r)>>_vars
  => <>[](\A a \in AccountId : Counters(account[a]) = Count(a))

=============================================================================
