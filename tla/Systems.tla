------------------------------ MODULE Systems ------------------------------
(***************************************************************************)
(* Systems call the API with tokens they sign themselves, and they are     *)
(* also what some of these calls create, change, disable, enable and       *)
(* delete: a request is made by an actor that another request may be       *)
(* about to disable.                                                       *)
(*                                                                         *)
(* A request has one database session.  Authentication loads the system    *)
(* that calls; the handler loads the system it is about in the same        *)
(* session, whose identity map answers with the object it has if the two   *)
(* are one row.  What the handler checks of its own caller is therefore    *)
(* what authentication saw, not what the row has become.                   *)
(*                                                                         *)
(* Users who call are authenticated by module Access.  A valid signature   *)
(* and a lifespan within the limit are part of authentication: callers     *)
(* without them get nowhere, and the secret plays no other part.           *)
(***************************************************************************)
EXTENDS OrmSession

CONSTANTS
  SystemId,    \* primary keys of the systems table
  AccountId,   \* accounts
  Operations,  \* those of type operations
  User,        \* users who call
  AccountOf,   \* [User -> AccountId]: the account each of them calls for
  ExternalId,  \* systems.external_id
  Client,      \* slots for requests in flight, over all worker processes
  None         \* SQL NULL

ASSUME SystemsAssumption ==
  /\ Operations \subseteq AccountId
  /\ AccountOf \in [User -> AccountId]
  /\ SystemId \cap User = {}
  /\ None \notin SystemId \cup AccountId \cup User \cup ExternalId

VARIABLES
  system,      \* the committed systems table
  request      \* what each request in flight holds in its session

vars == <<system, request>>

-----------------------------------------------------------------------------
(* Rows *)

SystemStatus == {"active", "disabled", "deleted"}
Absent == "absent"

Actor == SystemId \cup User

\* deleted_by stands for the actor and the date, which are assigned together.
System == [status: SystemStatus \cup {Absent}, external_id: ExternalId \cup {None},
           owner: AccountId \cup {None}, deleted_by: Actor \cup {None}]

NoSystem == [status |-> Absent, external_id |-> None, owner |-> None, deleted_by |-> None]

Phase == {"idle", "authenticated", "update", "delete", "disable", "enable"}

\* caller: the actor, its account and, if it is a system, its row as authentication
\* loaded it; id and loaded: the system the request is about.
Request == [phase: Phase, caller: Actor \cup {None}, account: AccountId \cup {None},
            self: System, id: SystemId \cup {None}, loaded: System,
            external_id: ExternalId \cup {None}]

Idle == [phase |-> "idle", caller |-> None, account |-> None, self |-> NoSystem,
         id |-> None, loaded |-> NoSystem, external_id |-> None]

TypeOK ==
  /\ system \in [SystemId -> System]
  /\ request \in [Client -> Request]

Init ==
  /\ system = [s \in SystemId |-> NoSystem]
  /\ request = [c \in Client |-> Idle]

-----------------------------------------------------------------------------
(* Steps every request takes *)

\* The request goes on with what it has read.
Goes(c, to) ==
  /\ request' = [request EXCEPT ![c] = to]
  /\ UNCHANGED system

\* A refusal, a constraint violation, a lost connection, a dead worker: rollback.
RequestFails(c) ==
  /\ request[c].phase # "idle"
  /\ Goes(c, Idle)

\* Mutant: a system whose token is still good is authenticated, whatever its status.
AuthenticateSystemAny(c, s) ==
  /\ request[c].phase = "idle"
  /\ system[s].status # Absent
  /\ Goes(c, [Idle EXCEPT !.phase = "authenticated", !.caller = s,
                          !.account = system[s].owner, !.self = system[s]])

\* Only an active system is authenticated, and acts for its owner.
AuthenticateSystem(c, s) ==
  /\ request[c].phase = "idle"
  /\ system[s].status = "active"
  /\ Goes(c, [Idle EXCEPT !.phase = "authenticated", !.caller = s,
                          !.account = system[s].owner, !.self = system[s]])

AuthenticateUser(c, u) ==
  /\ request[c].phase = "idle"
  /\ Goes(c, [Idle EXCEPT !.phase = "authenticated", !.caller = u, !.account = AccountOf[u]])

\* Affiliate accounts see their own systems that are not deleted, operations all of them.
Visible(s, a) ==
  /\ system[s].status # Absent
  /\ a \notin Operations => system[s].owner = a /\ system[s].status # "deleted"

\* Mutant: the row is read again although the session has it.
LoadedAgain(c, s) == system[s]

\* What the session answers when the handler asks for s.
Loaded(c, s) == IF request[c].caller = s THEN request[c].self ELSE system[s]

\* fetch_system_or_404, then the handler's check of the loaded status.  A request that is
\* refused here has changed nothing.
Fetch(c, s, statuses, phase) ==
  /\ request[c].phase = "authenticated"
  /\ Visible(s, request[c].account)
  /\ Loaded(c, s).status \in statuses
  /\ Goes(c, [request[c] EXCEPT !.phase = phase, !.id = s, !.loaded = Loaded(c, s)])

\* Mutant: the index does not know of rows that come back.
IndexAllowsOthers(s, row) ==
  system[s].status # "deleted" => \A t \in SystemId \ {s} :
    system[t].status \notin {Absent, "deleted"} => system[t].external_id # row.external_id

\* The unique index over the external ids of systems that are not deleted.
IndexAllows(s, row) ==
  row.status # "deleted" => \A t \in SystemId \ {s} :
    system[t].status \notin {Absent, "deleted"} => system[t].external_id # row.external_id

\* The flush and the commit.  Other writers of the row, and of an index entry, wait in between.
Save(c, phase, assigned) ==
  LET s == request[c].id
      row == Flush(system[s], request[c].loaded, assigned)
  IN
  /\ request[c].phase = phase
  /\ IndexAllows(s, row)
  /\ system' = [system EXCEPT ![s] = row]
  /\ request' = [request EXCEPT ![c] = Idle]

-----------------------------------------------------------------------------
(* Operations *)

\* Operations name the owner, affiliates get systems of their own.
Create(c, s, x, owner) ==
  LET row == [status |-> "active", external_id |-> x, owner |-> owner, deleted_by |-> None] IN
  /\ request[c].phase = "authenticated"
  /\ request[c].account \notin Operations => owner = request[c].account
  /\ system[s].status = Absent
  /\ IndexAllows(s, row)
  /\ system' = [system EXCEPT ![s] = row]
  /\ request' = [request EXCEPT ![c] = Idle]

\* Of the fields of the payload only the external id matters to others.
FetchToUpdate(c, s, x) ==
  /\ request[c].phase = "authenticated"
  /\ Visible(s, request[c].account)
  /\ Loaded(c, s).status # "deleted"
  /\ Goes(c, [request[c] EXCEPT !.phase = "update", !.id = s, !.loaded = Loaded(c, s),
                                !.external_id = x])

\* Mutant: a deleted system is enabled.
FetchToEnableAny(c, s) == Fetch(c, s, {"disabled", "deleted"}, "enable")

FetchToDelete(c, s) ==
  /\ s # request[c].caller
  /\ Fetch(c, s, {"active", "disabled"}, "delete")

FetchToDisable(c, s) ==
  /\ s # request[c].caller
  /\ Fetch(c, s, {"active"}, "disable")

\* No such check here: a system that is disabled does not get this far.
FetchToEnable(c, s) == Fetch(c, s, {"disabled"}, "enable")

Update(c) == Save(c, "update", [request[c].loaded EXCEPT !.external_id = request[c].external_id])

\* Mutant: who deleted it is not recorded.
DeleteSilently(c) == Save(c, "delete", [request[c].loaded EXCEPT !.status = "deleted"])

Delete(c) == Save(c, "delete", [request[c].loaded EXCEPT !.status = "deleted",
                                                         !.deleted_by = request[c].caller])

Disable(c) == Save(c, "disable", [request[c].loaded EXCEPT !.status = "disabled"])
Enable(c) == Save(c, "enable", [request[c].loaded EXCEPT !.status = "active"])

-----------------------------------------------------------------------------

Reads(c) ==
  \/ \E s \in SystemId : AuthenticateSystem(c, s)
  \/ \E u \in User : AuthenticateUser(c, u)
  \/ \E s \in SystemId : FetchToDelete(c, s) \/ FetchToDisable(c, s) \/ FetchToEnable(c, s)
  \/ \E s \in SystemId, x \in ExternalId : FetchToUpdate(c, s, x)

Writes(c) ==
  \/ \E s \in SystemId, x \in ExternalId, a \in AccountId : Create(c, s, x, a)
  \/ Update(c) \/ Delete(c) \/ Disable(c) \/ Enable(c)

Next == \E c \in Client : Reads(c) \/ Writes(c) \/ RequestFails(c)

Spec == Init /\ [][Next]_vars

-----------------------------------------------------------------------------
(* Safety *)

\* A deletion is always the act of somebody else, and recorded as such, also when it meets
\* an enable that brings the row back and is carried out again ("A system cannot delete
\* itself").
DeletedByAnother ==
  \A s \in SystemId :
    system[s].status = "deleted" => system[s].deleted_by \in Actor \ {s}

\* At most one system that is not deleted has an external id, also when an enable that
\* overlapped a deletion brings back one whose id has been given away.
OneSystemPerExternalId ==
  \A s, t \in SystemId :
    /\ {system[s].status, system[t].status} \cap {Absent, "deleted"} = {}
    /\ system[s].external_id = system[t].external_id
    => s = t

\* What one session holds, by phase.  A caller that is a system was active when it was
\* authenticated; a request about its own caller holds that very view of it, and is an
\* update; all others hold a status the row had, and a row, once there, has an owner for good.
SessionIsSound(r) ==
  /\ r.phase # "idle" => r.caller # None
  /\ r.caller \in SystemId =>
       /\ r.self.status = "active"
       /\ r.account = system[r.caller].owner
       /\ r.self.owner = system[r.caller].owner
       /\ system[r.caller].status # Absent
  /\ r.phase \in {"update", "delete", "disable", "enable"} =>
       /\ r.id \in SystemId
       /\ system[r.id].status # Absent
       /\ r.loaded.owner = system[r.id].owner
       /\ r.account \in Operations \/ r.account = system[r.id].owner
       /\ r.id = r.caller => r.phase = "update" /\ r.loaded = r.self
  /\ r.phase = "update" => r.loaded.status \in {"active", "disabled"} /\ r.external_id # None
  /\ r.phase = "delete" => r.loaded.status \in {"active", "disabled"}
  /\ r.phase = "disable" => r.loaded.status = "active"
  /\ r.phase = "enable" => r.loaded.status = "disabled"

\* With TypeOK inductive.  A deletion recorded by the system itself is nowhere, neither in
\* the table nor in a row a session has loaded, so no flush can leave one behind.
SessionsAreSound ==
  /\ \A c \in Client : SessionIsSound(request[c])
  /\ \A s \in SystemId : /\ system[s].deleted_by # s
                         /\ system[s].status # Absent => system[s].external_id # None

\* No system disables, enables or deletes itself, whatever happens to it while its request
\* is in flight ("such a request will fail earlier anyway during the authorization phase",
\* says enable_system, which does not check): whenever the status of a system changes, a
\* request of another actor ends.
StatusIsChangedByOthers ==
  [][\A s \in SystemId :
       system[s].status \notin {Absent, system'[s].status} =>
         \E c \in Client : /\ request[c].id = s /\ request'[c] = Idle
                           /\ request[c].caller # s]_vars

\* A system of an affiliate account is changed by requests for that account or for an
\* operations account only, and never changes hands.
OwnersKeepTheirSystems ==
  [][\A s \in SystemId : system[s].status # Absent /\ system'[s] # system[s] =>
       /\ system'[s].owner = system[s].owner
       /\ \E c \in Client : /\ request[c].id = s /\ request'[c] = Idle
                            /\ request[c].account \in Operations \cup {system[s].owner}]_vars

-----------------------------------------------------------------------------
(* Refinement: the status column is a StatusRegister *)

SystemMoves ==
  {<<"active", "disabled">>, <<"disabled", "active">>,
   <<"active", "deleted">>, <<"disabled", "deleted">>}

\* The row a request may still move.
StatusSeenBy(c) == [s \in SystemId |->
  IF request[c].id = s /\ request[c].phase \in {"delete", "disable", "enable"}
  THEN request[c].loaded.status ELSE Absent]

Register == INSTANCE StatusRegister WITH
  Rows <- SystemId, Clients <- Client, Statuses <- SystemStatus, Fresh <- {"active"},
  Moves <- SystemMoves, Nothing <- Absent,
  status <- [s \in SystemId |-> system[s].status],
  seen <- [c \in Client |-> StatusSeenBy(c)]

\* Every status a request commits is a legal move from the status it loaded; a deleted
\* system comes back only through an enable that loaded it before it was deleted.
ImplementsRegister == Register!Spec

-----------------------------------------------------------------------------
(* Liveness *)

\* A request goes on or fails: nothing in it waits but for the database.
Fairness == \A c \in Client : WF_vars(request[c].phase # "idle" /\ (Writes(c) \/ RequestFails(c)))

FairSpec == Spec /\ Fairness

\* Once a system is no longer active, and stays so, it stops acting: the requests it had
\* authenticated before come to their end, and no others begin.
DisabledSystemsStopActing ==
  \A s \in SystemId :
    <>[](system[s].status # "active") => <>[](\A c \in Client : request[c].caller # s)

=============================================================================
