---------------------------- MODULE Entitlements ----------------------------
(***************************************************************************)
(* The entitlements of the Operations API: the request handlers of         *)
(* routers/entitlements.py and the redeem_entitlements job, over one       *)
(* PostgreSQL database (READ COMMITTED) that several worker processes and  *)
(* the job share.                                                          *)
(*                                                                         *)
(* A request runs in one transaction (dependencies/db.py): it loads the    *)
(* entitlement, validates the loaded object, possibly awaits Optscale, and *)
(* writes.  Whatever other transactions commit between the load and the    *)
(* write is not noticed.  The job is one transaction from its first query  *)
(* to its commit; the rows it has updated stay locked until then, and a    *)
(* crash undoes all of them, though not the notifications already sent.    *)
(***************************************************************************)
EXTENDS Naturals, OrmSession

CONSTANTS
  EntitlementId, \* primary keys of the entitlements table
  Organization,  \* rows of the organizations table
  Datasource,    \* data sources known to Optscale, by their Optscale id
  CloudAccount,  \* account ids of data sources at their cloud provider
  Account,       \* Operations API accounts in status active
  Affiliate,     \* those of type affiliate
  Client,        \* slots for requests in flight, over all worker processes
  Job,           \* the redeem_entitlements process
  None,          \* SQL NULL
  OwnerOf,       \* [Datasource -> Organization]: organization_id at Optscale
  AccountOf,     \* [Datasource -> CloudAccount]: account_id at Optscale
  Redeemable,    \* data sources of type azure_cnr, aws_cnr or gcp_cnr
  CreatedAt      \* [Organization -> Nat]: organizations.created_at

ASSUME EntitlementsAssumption ==
  /\ OwnerOf \in [Datasource -> Organization]
  /\ AccountOf \in [Datasource -> CloudAccount]
  /\ CreatedAt \in [Organization -> Nat]
  /\ Redeemable \subseteq Datasource
  /\ Affiliate \subseteq Account
  /\ Job \notin Client
  /\ None \notin EntitlementId \cup Organization \cup Datasource \cup CloudAccount \cup Account

VARIABLES
  entitlement,   \* the committed entitlements table
  organization,  \* the committed organizations.status column
  request,       \* what each request in flight holds in its session
  job,           \* control state of the redeem_entitlements job
  todo,          \* organizations its cursor has yet to return
  org,           \* the organization whose data sources it is going through
  datasources,   \* data sources of org it has yet to go through
  candidate,     \* the entitlement it has just selected, with its loaded version
  pending,       \* rows it has updated and not committed: locked until it ends
  announced      \* redemptions it has sent a notification about

jobVars == <<job, todo, org, datasources, candidate, pending, announced>>
vars == <<entitlement, organization, request, jobVars>>

-----------------------------------------------------------------------------
(* Rows *)

EntitlementStatus == {"new", "active", "terminated", "deleted"}
OrganizationStatus == {"active", "cancelled", "deleted"}
Absent == "absent"

Row == [status: EntitlementStatus \cup {Absent},
        owner: Account \cup {None},
        datasource: CloudAccount \cup {None},
        redeemed_by: Organization \cup {None},
        linked_datasource: Datasource \cup {None},
        terminated: BOOLEAN]

NoRow == [status |-> Absent, owner |-> None, datasource |-> None,
          redeemed_by |-> None, linked_datasource |-> None, terminated |-> FALSE]

NewRow(owner, account) ==
  [NoRow EXCEPT !.status = "new", !.owner = owner, !.datasource = account]

\* Mutant: the organization and the data source change places.
RedeemedSwapped(row, o, d) ==
  [row EXCEPT !.status = "active", !.redeemed_by = d, !.linked_datasource = o]

\* The attributes handler.redeem and the job assign, terminate assigns, delete assigns.
Redeemed(row, o, d) ==
  [row EXCEPT !.status = "active", !.redeemed_by = o, !.linked_datasource = d]
Terminated(row) == [row EXCEPT !.status = "terminated", !.terminated = TRUE]
Deleted(row) == [row EXCEPT !.status = "deleted"]

Phase == {"idle", "terminate", "delete", "redeem_organization", "redeem_datasource", "redeem"}

Request == [phase: Phase,
            id: EntitlementId \cup {None},
            loaded: Row,
            org: Organization \cup {None},
            datasource: Datasource \cup {None}]

Idle == [phase |-> "idle", id |-> None, loaded |-> NoRow, org |-> None, datasource |-> None]

NoCandidate == [id |-> None, loaded |-> NoRow, datasource |-> None]

TypeOK ==
  /\ entitlement \in [EntitlementId -> Row]
  /\ organization \in [Organization -> OrganizationStatus]
  /\ request \in [Client -> Request]
  /\ \A c \in Client : request[c].phase # "idle" => request[c].id \in EntitlementId
  /\ job \in {"idle", "organizations", "datasources", "update"}
  /\ todo \subseteq Organization
  /\ org \in Organization \cup {None}
  /\ datasources \subseteq Datasource
  /\ candidate \in [id: EntitlementId \cup {None}, loaded: Row, datasource: Datasource \cup {None}]
  /\ pending \in [EntitlementId -> Row]
  /\ announced \subseteq EntitlementId \X Organization

Init ==
  /\ entitlement = [e \in EntitlementId |-> NoRow]
  /\ organization = [o \in Organization |-> "active"]
  /\ request = [c \in Client |-> Idle]
  /\ job = "idle"
  /\ todo = {}
  /\ org = None
  /\ datasources = {}
  /\ candidate = NoCandidate
  /\ pending = [e \in EntitlementId |-> NoRow]
  /\ announced = {}

-----------------------------------------------------------------------------
(* Requests *)

\* An affiliate account sees its own entitlements that are not deleted; an operations
\* account sees them all (common_extra_conditions).
Visible(e, a) ==
  /\ entitlement[e].status # Absent
  /\ a \in Affiliate => entitlement[e].owner = a /\ entitlement[e].status # "deleted"

\* Rows the job has updated are locked until it commits or rolls back.
Locked(e) == pending[e].status # Absent

CreateEntitlement(e, a, owner, account) ==
  /\ entitlement[e].status = Absent
  /\ owner \in Affiliate
  /\ a \in Affiliate => owner = a
  /\ entitlement' = [entitlement EXCEPT ![e] = NewRow(owner, account)]
  /\ UNCHANGED <<organization, request, jobVars>>

\* fetch_entitlement_or_404, then the handler's check of the loaded status.  A request
\* that is refused here has changed nothing.
Fetch(c, e, a, status, phase) ==
  /\ request[c].phase = "idle"
  /\ Visible(e, a)
  /\ entitlement[e].status = status
  /\ request' = [request EXCEPT ![c] = [Idle EXCEPT !.phase = phase, !.id = e,
                                                    !.loaded = entitlement[e]]]
  /\ UNCHANGED <<entitlement, organization, jobVars>>

\* Mutants: delete and redeem refuse less than they should.
FetchToDeleteAny(c, e, a) == \E s \in EntitlementStatus : Fetch(c, e, a, s, "delete")
FetchToRedeemAgain(c, e, a) ==
  a \notin Affiliate /\ \E s \in {"new", "active"} : Fetch(c, e, a, s, "redeem_organization")

FetchToTerminate(c, e, a) == Fetch(c, e, a, "active", "terminate")
FetchToDelete(c, e, a) == Fetch(c, e, a, "new", "delete")
FetchToRedeem(c, e, a) == a \notin Affiliate /\ Fetch(c, e, a, "new", "redeem_organization")

\* The organization of the payload is read, and must be active.
CheckOrganization(c, o, d) ==
  /\ request[c].phase = "redeem_organization"
  /\ request' = [request EXCEPT ![c] =
       IF organization[o] = "active"
       THEN [@ EXCEPT !.phase = "redeem_datasource", !.org = o, !.datasource = d]
       ELSE Idle]
  /\ UNCHANGED <<entitlement, organization, jobVars>>

\* Mutant: a data source that is found is good enough.
CheckDatasourceFound(c) ==
  /\ request[c].phase = "redeem_datasource"
  /\ request' = [request EXCEPT ![c].phase = "redeem"]
  /\ UNCHANGED <<entitlement, organization, jobVars>>

\* Optscale answers fetch_datasource_by_id: the data source must belong to the organization.
CheckDatasource(c) ==
  /\ request[c].phase = "redeem_datasource"
  /\ request' = [request EXCEPT ![c] =
       IF OwnerOf[@.datasource] = @.org THEN [@ EXCEPT !.phase = "redeem"] ELSE Idle]
  /\ UNCHANGED <<entitlement, organization, jobVars>>

\* handler.update and the commit at the end of the request.  Between the flush and the
\* commit other writers of the row wait, so the two are one step; the request itself
\* waits while the job holds the row.
Save(c, phase, assigned) ==
  LET e == request[c].id IN
  /\ request[c].phase = phase
  /\ ~Locked(e)
  /\ entitlement' = [entitlement EXCEPT ![e] = Flush(@, request[c].loaded, assigned)]
  /\ request' = [request EXCEPT ![c] = Idle]
  /\ UNCHANGED <<organization, jobVars>>

Terminate(c) == Save(c, "terminate", Terminated(request[c].loaded))
Delete(c) == Save(c, "delete", Deleted(request[c].loaded))
Redeem(c) == Save(c, "redeem", Redeemed(request[c].loaded, request[c].org, request[c].datasource))

\* Optscale answers with an error or not in time, the payload is refused, the connection
\* or the worker process dies: get_db_session rolls the transaction back.
RequestFails(c) ==
  /\ request[c].phase # "idle"
  /\ request' = [request EXCEPT ![c] = Idle]
  /\ UNCHANGED <<entitlement, organization, jobVars>>

\* delete_organization_by_id commits (Optscale has suspended the organization before).
DeleteOrganization(o) ==
  /\ organization[o] # "deleted"
  /\ organization' = [organization EXCEPT ![o] = "deleted"]
  /\ UNCHANGED <<entitlement, request, jobVars>>

-----------------------------------------------------------------------------
(* The redeem_entitlements job *)

\* The cursor over the active organizations sees them as they are when it is opened.
JobStart ==
  /\ job = "idle"
  /\ job' = "organizations"
  /\ todo' = {o \in Organization : organization[o] = "active"}
  /\ UNCHANGED <<entitlement, organization, request, org, datasources, candidate, pending,
                 announced>>

NextOrganization(o) ==
  /\ job = "organizations"
  /\ o \in todo
  /\ \A p \in todo : CreatedAt[o] <= CreatedAt[p]
  /\ todo' = todo \ {o}

\* Optscale lists the data sources of the next organization; those of a type that is no
\* subscription or project are skipped.
JobFetchDatasources(o) ==
  /\ NextOrganization(o)
  /\ job' = "datasources"
  /\ org' = o
  /\ datasources' = {d \in Redeemable : OwnerOf[d] = o}
  /\ UNCHANGED <<entitlement, organization, request, candidate, pending, announced>>

\* httpx.HTTPError: the organization is skipped until the next run.
JobFetchFails(o) ==
  /\ NextOrganization(o)
  /\ UNCHANGED <<entitlement, organization, request, job, org, datasources, candidate, pending,
                 announced>>

\* The job's own updates are visible to its queries.
JobView(e) == IF Locked(e) THEN pending[e] ELSE entitlement[e]

\* Mutant: the query loses its condition on the cloud account.
MatchesAnyNew(e, d) == JobView(e).status = "new"

Matches(e, d) == JobView(e).status = "new" /\ JobView(e).datasource = AccountOf[d]

\* handler.first: any one of the new entitlements for the data source's cloud account.
JobSelect(d, e) ==
  /\ job = "datasources"
  /\ d \in datasources
  /\ Matches(e, d)
  /\ job' = "update"
  /\ datasources' = datasources \ {d}
  /\ candidate' = [id |-> e, loaded |-> JobView(e), datasource |-> d]
  /\ UNCHANGED <<entitlement, organization, request, todo, org, pending, announced>>

JobNoMatch(d) ==
  /\ job = "datasources"
  /\ d \in datasources
  /\ ~ \E e \in EntitlementId : Matches(e, d)
  /\ datasources' = datasources \ {d}
  /\ UNCHANGED <<entitlement, organization, request, job, todo, org, candidate, pending,
                 announced>>

\* The flush takes the row lock and builds on the version committed last.
JobUpdate ==
  LET e == candidate.id IN
  /\ job = "update"
  /\ job' = "datasources"
  /\ pending' = [pending EXCEPT ![e] =
       Flush(JobView(e), candidate.loaded, Redeemed(candidate.loaded, org, candidate.datasource))]
  /\ candidate' = NoCandidate
  /\ UNCHANGED <<entitlement, organization, request, todo, org, datasources, announced>>

\* send_info about what was redeemed for this organization, still inside the transaction.
JobAnnounce ==
  /\ job = "datasources"
  /\ datasources = {}
  /\ job' = "organizations"
  /\ org' = None
  /\ announced' = announced \cup
       {<<e, org>> : e \in {x \in EntitlementId : pending[x].redeemed_by = org}}
  /\ UNCHANGED <<entitlement, organization, request, todo, datasources, candidate, pending>>

\* Mutant: a session that is never closed keeps its locks.
JobEndsHoldingLocks ==
  /\ job' = "idle"
  /\ todo' = {}
  /\ org' = None
  /\ datasources' = {}
  /\ candidate' = NoCandidate
  /\ UNCHANGED <<organization, request, pending, announced>>

\* Every way out of the job's transaction: the session is gone, the locks are released.
JobEnds ==
  /\ job' = "idle"
  /\ todo' = {}
  /\ org' = None
  /\ datasources' = {}
  /\ candidate' = NoCandidate
  /\ pending' = [e \in EntitlementId |-> NoRow]
  /\ UNCHANGED <<organization, request, announced>>

\* Mutant: a session opened without begin() is rolled back when it is closed.
JobNeverCommits ==
  /\ job = "organizations"
  /\ todo = {}
  /\ JobEnds
  /\ UNCHANGED entitlement

JobCommit ==
  /\ job = "organizations"
  /\ todo = {}
  /\ entitlement' = [e \in EntitlementId |-> JobView(e)]
  /\ JobEnds

\* Any exception but httpx.HTTPError, or the process dies: everything is rolled back.
JobCrash ==
  /\ job # "idle"
  /\ JobEnds
  /\ UNCHANGED entitlement

-----------------------------------------------------------------------------

RequestNext ==
  \/ \E e \in EntitlementId, a \in Account, owner \in Affiliate, account \in CloudAccount :
       CreateEntitlement(e, a, owner, account)
  \/ \E c \in Client, e \in EntitlementId, a \in Account :
       \/ FetchToTerminate(c, e, a)
       \/ FetchToDelete(c, e, a)
       \/ FetchToRedeem(c, e, a)
  \/ \E c \in Client, o \in Organization, d \in Datasource : CheckOrganization(c, o, d)
  \/ \E c \in Client : CheckDatasource(c) \/ Terminate(c) \/ Delete(c) \/ Redeem(c)
  \/ \E c \in Client : RequestFails(c)
  \/ \E o \in Organization : DeleteOrganization(o)

JobNext ==
  \/ JobStart
  \/ \E o \in Organization : JobFetchDatasources(o) \/ JobFetchFails(o)
  \/ \E d \in Datasource, e \in EntitlementId : JobSelect(d, e)
  \/ \E d \in Datasource : JobNoMatch(d)
  \/ JobUpdate \/ JobAnnounce \/ JobCommit \/ JobCrash

Next == RequestNext \/ JobNext

Spec == Init /\ [][Next]_vars

-----------------------------------------------------------------------------
(* Safety *)

\* A redemption is never torn between two writers: redeemed_by and the linked data source
\* of a row were assigned by one redemption, and the data source belonged to the redeeming
\* organization (redeem_entitlement checks it, the job lists it); active and terminated
\* entitlements have a redemption, new ones have none.  Each flush sends only the columns
\* that differ from what its own session loaded, so this is about interleaved writers.
Whole(row) ==
  /\ (row.redeemed_by = None) <=> (row.linked_datasource = None)
  /\ row.redeemed_by # None => OwnerOf[row.linked_datasource] = row.redeemed_by
  /\ row.status \in {"active", "terminated"} => row.redeemed_by # None
  /\ row.status \in {Absent, "new"} => row.redeemed_by = None /\ ~row.terminated
  /\ row.status = "terminated" => row.terminated

RedemptionIsWhole == \A e \in EntitlementId : Whole(entitlement[e])

\* What a request in flight can rely on although others commit: its own view was whole,
\* and a redemption or a termination it saw is still in the row it will overwrite.
RequestsAreSound ==
  \A c \in Client : LET r == request[c] IN r.phase # "idle" =>
    /\ Whole(r.loaded)
    /\ r.loaded.status = IF r.phase = "terminate" THEN "active" ELSE "new"
    /\ r.loaded.redeemed_by # None => entitlement[r.id].redeemed_by # None
    /\ r.loaded.terminated => entitlement[r.id].terminated
    /\ r.phase \in {"redeem_datasource", "redeem"}
         => r.org \in Organization /\ r.datasource \in Datasource
    /\ r.phase = "redeem" => OwnerOf[r.datasource] = r.org

\* What the job holds in its open transaction.
JobIsSound ==
  /\ job \in {"datasources", "update"}
       => org \in Organization /\ \A d \in datasources : OwnerOf[d] = org
  /\ job = "update" =>
       /\ candidate.id \in EntitlementId /\ candidate.datasource \in Datasource
       /\ OwnerOf[candidate.datasource] = org
       /\ Whole(candidate.loaded) /\ candidate.loaded.status = "new"
  /\ \A e \in EntitlementId : Locked(e) =>
       /\ Whole(pending[e])
       /\ pending[e].redeemed_by # None
       /\ pending[e].terminated = entitlement[e].terminated

\* With TypeOK and RedemptionIsWhole, inductive: no writer in flight can tear a redemption.
SessionsAreSound == RequestsAreSound /\ JobIsSound

\* What the job has redeemed in its open transaction: every row for the data source of its
\* own cloud account, never for a container, and no two rows for one data source.
JobRedemptionsMatch ==
  /\ \A e \in EntitlementId : Locked(e) =>
       /\ pending[e].linked_datasource \in Redeemable
       /\ AccountOf[pending[e].linked_datasource] = pending[e].datasource
  /\ \A e, f \in EntitlementId :
       /\ Locked(e) /\ Locked(f)
       /\ pending[e].linked_datasource = pending[f].linked_datasource
       => e = f

-----------------------------------------------------------------------------
(* Refinement: the status column is a StatusRegister *)

EntitlementMoves ==
  {<<"new", "active">>, <<"active", "terminated">>, <<"new", "deleted">>}

StatusSeenBy(c) == [e \in EntitlementId |->
  IF c = Job
  THEN IF candidate.id = e THEN candidate.loaded.status
       ELSE IF Locked(e) THEN "new" ELSE Absent
  ELSE IF request[c].id = e THEN request[c].loaded.status ELSE Absent]

Register == INSTANCE StatusRegister WITH
  Rows <- EntitlementId,
  Clients <- Client \cup {Job},
  Statuses <- EntitlementStatus,
  Fresh <- {"new"},
  Moves <- EntitlementMoves,
  Nothing <- Absent,
  status <- [e \in EntitlementId |-> entitlement[e].status],
  seen <- [c \in Client \cup {Job} |-> StatusSeenBy(c)]

\* Every status a request or the job commits is a legal move (new to active, active to
\* terminated, new to deleted) from a status the row had when that client loaded it.
ImplementsRegister == Register!Spec

\* An entitlement no request in flight holds an outdated view of follows the life cycle.
SettledEntitlementsFollowLifecycle == Register!SettledRowsFollowLifecycle

\* A redemption is final: a second one (another request, the job) replaces it only by
\* writing what it validated before the first was committed.
SettledRedemptionIsFinal ==
  [][\A e \in EntitlementId :
       entitlement[e].redeemed_by # None /\ Register!Settled(e)
       => /\ entitlement'[e].redeemed_by = entitlement[e].redeemed_by
          /\ entitlement'[e].linked_datasource = entitlement[e].linked_datasource]_vars

-----------------------------------------------------------------------------
(* What the code says of itself, and the interleavings do not keep *)

\* "Only new entitlements can be redeemed" (redeem_entitlement).
OnlyNewIsRedeemed ==
  [][\A e \in EntitlementId :
       entitlement'[e].status = "active" /\ entitlement'[e] # entitlement[e]
       => entitlement[e].status = "new"]_vars

\* "Only active organizations can redeem entitlements" (redeem_entitlement).
OnlyActiveOrganizationsRedeem ==
  [][\A e \in EntitlementId :
       entitlement'[e].redeemed_by # entitlement[e].redeemed_by
       => organization[entitlement'[e].redeemed_by] = "active"]_vars

\* "... been successfully redeemed" (the job's notification): when no run is open, every
\* redemption announced is in the database.
AnnouncedIsRedeemed ==
  job = "idle" => \A a \in announced : entitlement[a[1]].redeemed_by # None

-----------------------------------------------------------------------------
(* Liveness *)

\* A request in flight goes on: Optscale answers within the read timeout or the request
\* fails.  A flush that waits for a row lock is served in turn (PostgreSQL queues waiters).
\* The job is started again and again, and every await in it ends.
Fairness ==
  /\ \A c \in Client :
       /\ WF_vars(\E o \in Organization, d \in Datasource : CheckOrganization(c, o, d))
       /\ WF_vars(CheckDatasource(c))
       /\ SF_vars(Terminate(c) \/ Delete(c) \/ Redeem(c))
  /\ WF_vars(JobStart)
  /\ WF_vars(\E o \in Organization : JobFetchDatasources(o) \/ JobFetchFails(o))
  /\ WF_vars(\E d \in Datasource : JobNoMatch(d) \/ \E e \in EntitlementId : JobSelect(d, e))
  /\ WF_vars(JobUpdate)
  /\ WF_vars(JobAnnounce)
  /\ WF_vars(JobCommit)

FairSpec == Spec /\ Fairness

\* Every request ends, though its flush may have to wait for the job's whole transaction
\* (Optscale calls included) and the job may run, crash and run again.
EveryRequestEnds == \A c \in Client : request[c].phase # "idle" ~> request[c].phase = "idle"

\* An entitlement the job can redeem: it is new and some active organization is connected
\* to its cloud account.
CanBeRedeemed(e) ==
  /\ entitlement[e].status = "new"
  /\ \E d \in Redeemable : /\ AccountOf[d] = entitlement[e].datasource
                           /\ organization[OwnerOf[d]] = "active"

\* If from some time on every run commits and reaches Optscale for every organization, no
\* entitlement that can be redeemed is passed over for ever, however many wait for the same
\* data source.
RunsSucceed ==
  [][/\ job # "idle" /\ job' = "idle" => JobCommit
     /\ \A o \in Organization : ~JobFetchFails(o)]_vars

EventuallyRedeemed ==
  <>RunsSucceed => \A e \in EntitlementId : CanBeRedeemed(e) ~> ~CanBeRedeemed(e)

=============================================================================
