# FinOps Operations API: specifications

TLA+ specifications of the FinOps Operations API (`src/app`): a FastAPI service with
several worker processes, a set of scheduled commands (`src/app/commands`), one PostgreSQL
database they share, and two remote services, Optscale ("FinOps for Cloud") and its API
modifier. Almost every operation is *read a row, check it, wait for a remote service, write
the row*; nothing ties the write to the read. The specifications are about what remains true
when such operations overlap, fail and are repeated.

## 1. Inventory

| component | state | operations | interacts with |
|---|---|---|---|
| Entitlement requests (`routers/entitlements.py`) | `entitlements` | create, terminate, delete, redeem | organizations (read), Optscale, the job |
| `redeem_entitlements` job | open transaction, cursor, row locks | one run over all active organizations | entitlements, Optscale, notifications |
| Persistence (`db/handlers.py`, `dependencies/db.py`) | session identity maps | get, create, update, delete, `delete_by_user` | all components |
| Users, invitations, memberships (`routers/users.py`, part of `routers/accounts.py`) | `users`, `accounts_users` | invite, resend, accept, remove, delete, disable, enable | the job, the command |
| `invite_user` command | the same | invite, `--force` | users |
| `check_expired_invitations` job | the same | one conditional UPDATE | invitations |
| Organizations (`routers/organizations.py`, API clients) | `organizations`, `additionaladminrequests`; Optscale's own copy | create, update, delete, add admin, make admin | Optscale, API modifier |
| Data source expenses (two commands, `routers/expenses.py`) | `datasource_expenses` | fetch, clean up | Optscale, organizations |
| Accounts (`routers/accounts.py`, `create_operations_account` command) | `accounts` | create, update, the command | memberships, statistics |
| Account statistics (`calculate_accounts_stats` command) | counters in `accounts`, open transaction, row locks | recount | entitlements |
| Systems (`routers/systems.py`, `auth/auth.py`) | `systems` | authenticate, create, update, disable, enable, delete | accounts, itself as caller |
| Authentication (`routers/auth.py`, `auth/auth.py`, `reset_password`) | tokens that are out, `last_used_account_id`, recovery token | login, refresh, authenticate a request, recover, reset | users, memberships, systems |
| Pagination (`pagination.py`) | none; the client's walk | count, select a page | every table |
| Employees (`routers/employees.py`) | none (Optscale's users) | create, look up | Optscale, API modifier, the administrators of organizations |
| Notifications, telemetry, API clients, schemas, RQL, migrations, CLI | none | | |

What makes each hard, and what makes it correct:

- **Entitlements.** The redeem request awaits Optscale between its checks and its write; the job
  keeps one transaction open over all organizations and their Optscale calls. Correct means: a
  redemption is never torn between two writers; the organization owns the data source; statuses
  move new → active → terminated or new → deleted; a redemption is final; every request ends
  although rows stay locked for a whole run; whatever can be redeemed is redeemed in the end.
- **Users and memberships.** A user is created by one request and activated by another one, and
  several requests and a job write the same membership. Correct means: nobody becomes active
  without having set a password; deleted is final; a user belongs to an account at most once,
  an address to one user; deleted users belong nowhere; a pending invitation can be accepted.
- **Organizations.** Two systems of record and no distributed transaction. Correct means: what
  exists here exists there, a retry finishes what a failed attempt started.
- **Expenses.** A daily run that may be missed, repeated, or fail in the middle. Correct means:
  one row per data source and day, daily and monthly values that agree.
- **Accounts.** External ids kept apart by a look-up that the insert does not repeat.
- **Statistics.** Counters that are stale by construction, written by runs that may overlap. Correct
  means: each was true once, nothing else in the row is touched, and they converge.
- **Systems.** The actor of a request is a row of the table the request is about. Correct means: external ids are
  unique, nobody changes its own status, a disabled system stops acting.
- **Authentication.** Tokens that cannot be recalled, used against users and memberships that
  change. Correct means: tokens go to members only, a reset password is not undone by a login that was under way, and
  revocation has its effect when what is out has expired.
- **Pagination.** Pages are cut from an order that moves. Correct means: what stays put is seen.

`PROJECT.json` lists the hazards line by line with the properties that cover them.

## 2. Modules

| module | what it is |
|---|---|
| `OrmSession` | one operator, `Flush`: what SQLAlchemy's flush of a loaded object does to the row |
| `StatusRegister` | abstract specification: what the persistence layer promises about a status column |
| `Entitlements` | entitlement requests and the `redeem_entitlements` job; implements `StatusRegister` |
| `Memberships` | users, invitations, memberships; implements `StatusRegister` twice |
| `Organizations` | organizations here and at Optscale: creation, update, deletion, administrators |
| `DatasourceExpenses` | the daily expenses of data sources: the fetching runs and the clean-up |
| `Systems` | systems as callers and as rows; implements `StatusRegister` |
| `Access` | extends `Memberships`: login, refresh, authentication, password recovery and reset, composed with every request of `Memberships` |
| `Accounts` | accounts and the `calculate_accounts_stats` command, over entitlements that move as in `Entitlements` |
| `Listing` | `paginate`, and a client that walks through a listing while others write |
| `MCEntitlements`, `MCMemberships`, `MCOrganizations`, `MCDatasourceExpenses`, `MCSystems`, `MCAccess`, `MCAccounts`, `MCListing` | instances for TLC |
| `Entitlements_proofs`, `Memberships_proofs`, `Organizations_proofs`, `DatasourceExpenses_proofs`, `Systems_proofs`, `Access_proofs`, `Accounts_proofs` | theorems about the module of that name |
| `Persistence_proofs` | theorems about `StatusRegister` and `Listing` |

### Assumptions shared by all modules

- A request is one transaction: `get_db_session` opens it, commits when the handler returns and
  rolls back on any exception. Every failure (a refusal, an Optscale error, a read timeout, a lost
  connection, a dead worker, a deadlock PostgreSQL breaks) is therefore one action, `RequestFails`,
  that may happen at any point before the commit and forgets what the request held.
- The isolation level is PostgreSQL's default, READ COMMITTED: each query sees what was committed
  last. A session's identity map keeps the first version of a row it loaded, and later look-ups
  of the same row do not refresh it; a handler decides on that version.
- `ModelHandler.update` assigns attributes and flushes. SQLAlchemy writes the columns whose value
  differs from the *loaded* one, `WHERE id = ...`: no version counter, no status. `Flush` is exactly
  that, applied to the newest committed row (an UPDATE waits for the row lock, then sees it).
- From the flush to the commit the row is locked, so other writers cannot tell them apart: for
  requests, flush and commit are one step. The job holds its locks while it does other things,
  so for it they are separate (`pending`); so are the two flushes of `Organizations` that a call of
  Optscale follows (`wrote`, `holds`).
- Statements of the form `UPDATE ... WHERE status ...` (the expiry job, `delete_by_user`) look at the
  committed row and write it in one step.
- What a service answers is a choice of the action that asks; names, dates, prices, e-mail bodies,
  audit columns and messages are left out.

### Entitlements

`entitlement` is the table: status, owner, `datasource` (the account id at the cloud provider),
`redeemed_by`, `linked_datasource`, and whether it was terminated. `organization` is the status column of
the organizations table, which redemptions read. `request[c]` is what request slot `c` holds: the
row as loaded, the organization and the data source, and the point it has reached (`phase`).

| action | code |
|---|---|
| `CreateEntitlement` | `create_entitlement` |
| `FetchToTerminate`, `FetchToDelete`, `FetchToRedeem` | `fetch_entitlement_or_404`, the visibility conditions and the handler's check of the status |
| `CheckOrganization`, `CheckDatasource` | the two checks of `redeem_entitlement`; the second waits for Optscale |
| `Terminate`, `Delete`, `Redeem` | `handler.update` and the commit; it waits while the job has the row locked |
| `JobStart`, `JobFetchDatasources`, `JobFetchFails` | the cursor over the active organizations (as they were when it was opened, oldest first), and the call to Optscale |
| `JobSelect`, `JobNoMatch`, `JobUpdate` | `process_datasource`: `first` has no order, so any match may be returned; its own updates are visible to it; the update builds on the newest version |
| `JobAnnounce` | the notification, sent before the commit |
| `JobCommit`, `JobCrash` | the end of `session_factory.begin()`; `announced` survives a crash, the rows do not |
| `DeleteOrganization` | the commit of `delete_organization_by_id` |

What Optscale says (`OwnerOf`, `AccountOf`, `Redeemable`) is constant: the model is about this
service's own races, not about data sources that move. The order of data sources within an
organization is free.

### Memberships

`user` and `membership` are the tables `users` and `accounts_users`. A password is its value, hashed or
not; `last_used` is the account of the latest acceptance or login.
A `token` stands for the invitation token and its expiry date, which the code always assigns
together; `expired` tells which dates have passed. Accounts are active throughout: no handler writes
`accounts.status`. The actions go by phase: a request reads in one or two steps (`InviteReadUser`,
`InviteCheckMembership`, `ResendReadMembership`, `AcceptReadMembership`, ...) and writes in one (`Invite`,
`Regenerate`, `Resend`, `Accept`, `AcceptTooLate`, `Remove`, `DeleteUser`, `DisableUser`, `EnableUser`).
`AcceptTooLate` is the commit that the handler forces before it refuses. `InviteForce` and
`Regenerate` are the `--force` branch of the command, which gives any live membership a new token and leaves
its status alone, an active one's too: such a member can go back to `invitation-expired` by
accepting too late, and `AccountUserMoves` has that move. "Another operator than the user itself"
is left out: the acting operator is not in the model.

### Access

`Access` extends `Memberships` and takes each of its steps as one of its own, so that everything a request can do to a
user or a membership happens between any two steps of a session. A session is a login, a refresh, an authenticated request, a
recovery or a reset; it loads the user (`LoginReadUser`, `RefreshReadUser`, `AuthenticateReadUser`, `RecoverReadUser`,
`ResetReadUser`), then the membership (`ReadMembership`), and goes on with what it has loaded. `Issue` saves the account last used and hands out
both tokens; `Recover` stores a recovery token, `Reset` a password. `access` and `refresh` are the tokens
that are out: they are signed, stored nowhere, and end with their date only (`AccessExpires`, `RefreshExpires`). A login that
names no account takes `last_used`. `joined` is a history: every pair of a user and an account for which an acceptance (`Accept`) has
committed. No guard reads it; `TokensAreFounded` compares the tokens that are out with it, so that an
invitation that is only pending does not count, and one that was accepted and left does. Signatures and hashes are taken to work; a recovery token remains valid
after its use, as in the code, until it lapses.

### Systems

`system` is the table, `deleted_by` stands for the actor and the date of a deletion. A request is authenticated
(`AuthenticateSystem`, `AuthenticateUser`), loads the row it is about (`FetchToUpdate`, `FetchToDelete`, ...) and writes it. What is
special here is `Loaded`: both look-ups use one session, so a system that asks for itself gets the object that
authentication loaded, whatever the row has become. `IndexAllows` is the unique index over external ids, which
exempts deleted rows; it is checked for what the flush leaves in the row, thus also when an `Enable` that
loaded a disabled system writes `active` over `deleted`.

### Accounts

`account` has the columns that handlers and the command write; `entitlement` is the status column of the entitlements, whose changes
are `EntitlementChanges`, any move of `Entitlements`. A run of the command loads all accounts (`StartRun`), and for
each counts with one statement (`CountEntitlements`) and flushes if a counter differs from the loaded one (`WriteCounts`); the
row is then locked (`Written`, `Locked`) until `Commit` or `RunFails`, for requests and for other runs. `been` is a history:
for every account and status, the numbers there have been. `CreateLookUp` and `Create` are the two statements
of `create_account`; `UpdateRead` and `Update` are `update_account`, which does not look the external id up.

### Listing

`row` is any table with timestamps, seen through the conditions of a listing. A page is two statements, `Count` and `QueryPage`. A
transaction of somebody else takes its time at its beginning (`current_timestamp` is that) and commits later, with
any rows written and any rows shown afterwards: a row can enter or leave a listing without being written, as the users of an
account do with their memberships. Among equal timestamps the database chooses the order anew for each statement (`Orders`).
The client asks for the next offset until a page is not full, and asks again for a page that fails. `kept`, `disturbed` and
`quiet` are histories for the two properties.

### Organizations

`organization` and `recorded` are the tables `organizations` and `additionaladminrequests`; `remote`, `remote_user`, `employee`
and `admin` are Optscale's organizations, users, employees and administrators, modelled from how the API
clients use them. Optscale's organizations carry one history variable, `named`: the names accepted so far.
A call of Optscale is a step of its own (`Provision`, `Rename`, `Suspend`, `CreateUser`, `Employ`, `Promote`, `ResetPassword`, and `CreateEmployee`, `ResetEmployeePassword` of the employees router): it
takes effect there at once and for good, and its answer arrives or is lost (`Answered`). A
request that fails before the effect is `RequestFails`; either way the transaction here is rolled back, also where
`update_organization` first puts the old external id back. The commits are `Link`, `SaveName`, `SetExternal` (when only the external id changes),
`Delete` and `Record`.

Two flushes come before a call: the insert of a new row (`CreateInsert`) and a new external id
(`SetExternal`). The row is then locked, and so are the old and the new external id in the unique
index, until the request ends (`Locked`, `ExternalFree`). An insert that waits for such a lock is a step that
is not yet enabled; one that finds the id taken can only fail.

`Partial` are rows that were found without a link to Optscale: `create_organization` resumes them, though no
failure in this code leaves one behind, since the insert is rolled back with the rest. Two requests may resume one row at once, and
the second link replaces the first. The invariants that relate the two sides are about all other organizations (`Ours`).

What the model leaves out: currencies, the user who creates, listings of employees and data sources, the re-import of a
data source (a schedule at Optscale), and changes that are made at Optscale by others.

### DatasourceExpenses

`expense[k, d]` is the row of data source `k` for day `d`; the unique constraint makes it one (the type of a data source, which is part of the
constraint, is taken not to change). Amounts are abstracted: a row is `stored` with its total, and `expenses` says whether the cost of the
day alone has been added. `run[r]` is a run in progress: the day on which it was started (`main` computes today and yesterday once), the
organizations it is for and those Optscale has answered about, and its open transaction. `Fetch` stands for the calls
for all organizations, which touch no state of ours; where a call fails there is nothing to store, and the run goes on. A row is looked up
(`LookUp`) and later inserted or updated (`Save`; the day of its insertion, `created`, stays), under a lock until `CommitMonthly` or `CommitDaily`; if somebody else has inserted it
in between, the constraint fails the run. `completed` and `accounted` are histories: on which days a run did everything, and after
which of these the run of the next day did so too, having started later. Days pass at any time (`NextDay`), so runs are missed, repeated, or last past midnight.

### StatusRegister

A row has a status; a client has *seen* a status of it, perhaps long ago, and commits moves that are legal
from what it has seen. That is all that `get`, a check and `update` give together. From it follows
what the callers may rely on: a row of which nobody holds an outdated view moves along its life
cycle only (`SettledRowsFollowLifecycle`); and what they may not: `RowsFollowLifecycle`. `Entitlements`
instantiates it with the job as one more client, `Memberships` with the two status columns, `Systems` with its own; the
mapping of `seen` is the loaded status in the phases that may still write it.

## 3. What the runs check

| run | instance | shows |
|---|---|---|
| `entitlements_concurrent` | 1 entitlement, 2 requests, 2 organizations with one subscription each at the same cloud account, a container, an operations and an affiliate account, the job | `RedemptionIsWhole`; the refinement `ImplementsRegister`; `SettledRedemptionIsFinal`; `EveryRequestEnds` |
| `entitlements_job` | 2 entitlements for one data source, 1 organization, 1 request, the job | `JobRedemptionsMatch` (never for a container or another cloud account, never twice for a data source in one run); `EventuallyRedeemed` |
| `memberships_concurrent` | 2 users, 2 memberships, 1 account, 1 password, 2 tokens, 2 requests, the job | `Activated`; both refinements |
| `memberships_sequential` | the same with 2 accounts, 2 passwords, 3 tokens, 1 request at a time, the job at any moment | `AddressesAreUnique`, `DeletedUsersBelongNowhere`, `BelongsOnce`, `InvitationsHaveTokens`, `MembersKeepTheirPassword` |
| `access_concurrent` | 1 user, 2 memberships, 2 accounts, 2 passwords, 2 invitations, 1 request, a session for tokens and one for passwords | `TokensAreFounded`, `PasswordsAreChosen`, `RevocationEndsAccess` |
| `systems_concurrent` | 2 systems, an operations and an affiliate account, 1 user, 2 external ids, 2 requests | `DeletedByAnother`, `OneSystemPerExternalId`, `StatusIsChangedByOthers`, the refinement, `DisabledSystemsStopActing` |
| `accounts_stats` | the operations account and an affiliate with an entitlement, 1 request, 2 runs | `CountersWereTrue`, `RunsChangeCountersOnly`, `CountersConverge` |
| `organizations_concurrent` | 1 new and 1 partially created organization, 2 Optscale ids, 2 names, 2 external ids, 1 address, 2 requests | `LinksAreReal`, `NamesWereAccepted`, `DeletedAreSuspended`, `RecordedAreAdmins`, `OneOrganizationPerExternalId` |
| `expenses_overlapping` | 2 data sources of 1 organization, one of which costs nothing on the first day, 2 runs, 3 days, rows kept for 2 | `ConsecutiveRunsAccount`, `FiguresAreFinal`, `ExpensesAreKept` |
| `listing_pages` | 3 rows, pages of 1, 2 overlapping writers, 4 transactions | `WalksMissNothing`, `PagesMatchTotals` |
| `organizations_password` | 1 organization, 1 request at a time | a counterexample: section 5 |
| `accounts_external_id` | 3 accounts, 2 requests, no runs | a counterexample: section 5 |

Each component's `TypeOK` is checked in its concurrent run or proved (section 4; for `Listing`, lemma `ListingTyping`).

*Bounds.* Each row is written through its primary key, and the properties of a row mention that row
and what is linked to it; what can go wrong needs two overlapping writers of one row (two requests, or a
request and the job) and, for redemptions, two different organizations to mix up. One entitlement,
two requests, the job and two organizations contain every such overlap. The job's selection needs
two candidate entitlements for one data source, which is the second run. For memberships, two users and two memberships
let an address or an account be taken twice. Tokens bound the number of invitations and resends: two
are enough for a first invitation and a second one that overtakes it; the sequential run has three, for longer histories. The
slots for requests are reused, so the length of a history is otherwise not bounded. Rows are not
reused: the number of creations is bounded by the primary keys.

For organizations, two rows and two external ids let one id be taken twice, two names let an old name return, and the second Optscale
id is for the row that is resumed or for the retry of a creation whose answer was lost. Updates and
administrators meet only in the row they read, and the constraint `Apart` explores histories with one or the other, each
with all creations and deletions; the proofs have no such restriction. Optscale ids, names, external ids and
requests are interchangeable (`SYMMETRY`): no property checked there is temporal.

For expenses, a day, the next one (in which its cost is stored) and a third (in which it becomes obsolete while the second
is accounted for) are one round of the daily schedule, and two data sources make a transaction that can be
half done. Organizations share nothing but the transaction, so one is enough. The constraint `Brisk` leaves out runs that last
more than a day. Months (`datasources_expenses_obsolete_after_months`, 6) become days. The clean-up compares moments and the model days: on the
day a row's time comes, `CleanUp` takes any of the rows of that day, and from the day after on all of them.

For systems, two of them let one be the caller and the other the object, either be its own object, and an external id be given away and
come back; two requests are an enable and the deletion it overlaps. For access, the histories of one user are independent of those of
another. With two memberships the user can be active for one account and only invited to the other, join both, or leave one and be invited to
it again. The request is any of `Memberships`; one session is a login, a refresh or an authenticated request, the other the recovery or the reset it
overlaps. The constraint `Bounded` of `MCAccess` has three parts: `InOrder` takes rows, tokens, accounts and the first password in
a fixed order (others are the same up to names); `Split` keeps the two sessions to their kinds; `Prompt` leaves out invitations that lapse
or are renewed, which `Memberships` is checked with. None cuts off a step that fairness demands, and the proofs have none of them. For accounts, entitlements belong to one affiliate: a
run counts account by account, and nothing relates two of them. `OrderedSpec` explores it up to the renaming of accounts and external ids, and
leaves out runs that find the operations account alone, which change nothing. For listings, three rows
and pages of one make a walk of three pages with a row before, on and after the page being read; four transactions are two pairs that overlap.

*Deadlock* is checked in all runs but `accounts_external_id`: without runs of the command, and with all accounts created and
no operations account among them, nobody may call the API.

*Fairness* (`Entitlements!Fairness`). A request between two steps goes on: what it awaits is Optscale, with a read
timeout (`conf.py`, 90 s), or the database. A write that waits for a row lock is
served when the lock is released, in PostgreSQL's queue order; since the job may take the lock again
and again, this is strong fairness. The job is started again by its scheduler, and each
await in it ends. Nothing is assumed about `JobCrash`, `JobFetchFails`, `RequestFails` or the users. `EventuallyRedeemed`
states its own hypothesis (`RunsSucceed`): from some time on every run commits and reaches Optscale. It also uses
that creations end (the set of primary keys is finite): the job redeems one entitlement per data source and run,
in no fixed order, so an endless supply of new ones could overtake one for ever.

`Systems!Fairness` says that a request that has begun ends, by its write or by failing: it waits for the database alone. `Access!AccessFairness` says that a session goes on
(ditto) and that access tokens expire, which is the clock. Nothing is assumed about refresh tokens, which is the point of `RevocationEndsAccess`: a
good refresh token must not help. `CountersConverge` states its hypotheses itself: entitlements stop changing and runs of the command keep committing
(the scheduler starts them); no fairness is assumed beside it.

## 4. What is proved

For all values of the constants (any numbers of rows, requests, organizations, data sources), with
`EntitlementsAssumption`, `MembershipsAssumption`, `AccessAssumption`, `OrganizationsAssumption`, `ExpensesAssumption`, `SystemsAssumption`, `AccountsAssumption`
and `ListingAssumption` (functions have their types, `None` is no identifier, the job is no request, a system is no user, entitlements and listed
rows are finitely many, a page and the life of an expense are not empty) as the only assumptions. Those marked *one at a time*
assume in their statement that there is one slot for requests; the job, which is no request, still runs between the steps of one:

| theorem | statement |
|---|---|
| `Entitlements_proofs!Typing` | `Spec => []TypeOK` |
| `Entitlements_proofs!RedemptionsAreWhole` | `Spec => []RedemptionIsWhole` |
| `Entitlements_proofs!SoundSessions` | `Spec => []SessionsAreSound` |
| `Entitlements_proofs!RedemptionsMatch` | `Spec => []JobRedemptionsMatch` |
| `Entitlements_proofs!Refinement` | `Spec => ImplementsRegister` |
| `Entitlements_proofs!SettledEntitlements` | `Spec => SettledEntitlementsFollowLifecycle` |
| `Entitlements_proofs!RedemptionsAreFinal` | `Spec => SettledRedemptionIsFinal` |
| `Memberships_proofs!Typing` | `Spec => []TypeOK` |
| `Memberships_proofs!NobodyUnactivated` | `Spec => []Activated` |
| `Memberships_proofs!UsersRefine` | `Spec => UsersImplementRegister` |
| `Memberships_proofs!MembershipsRefine` | `Spec => MembershipsImplementRegister` |
| `Memberships_proofs!SettledStatuses` | `SettledRowsFollowLifecycle` of both registers |
| `Memberships_proofs!OneUserPerAddress` | `Spec => []AddressesAreUnique`, one at a time |
| `Memberships_proofs!DeletedUsersHaveNoMemberships` | `Spec => []DeletedUsersBelongNowhere`, one at a time |
| `Memberships_proofs!MembersBelongOnce` | `Spec => []BelongsOnce`, one at a time |
| `Memberships_proofs!OpenInvitationsHaveTokens` | `Spec => []InvitationsHaveTokens`, one at a time |
| `Memberships_proofs!JoinedUsersKeepTheirPassword` | `Spec => MembersKeepTheirPassword`, one at a time |
| `Memberships_proofs!StatusesFollowLifecycle` | `RowsFollowLifecycle` of both registers, one at a time |
| `Organizations_proofs!Typing` | `Spec => []TypeOK` |
| `Organizations_proofs!LinkedForReal` | `Spec => []LinksAreReal` |
| `Organizations_proofs!AcceptedNames` | `Spec => []NamesWereAccepted` |
| `Organizations_proofs!SuspendedWhenDeleted` | `Spec => []DeletedAreSuspended` |
| `Organizations_proofs!RecordedAdministrators` | `Spec => []RecordedAreAdmins` |
| `Organizations_proofs!ExternalIdsAreUnique` | `Spec => []OneOrganizationPerExternalId` |
| `Organizations_proofs!SoundSessions` | `Spec => []SessionsAreSound` |
| `DatasourceExpenses_proofs!Typing` | `Spec => []TypeOK` |
| `DatasourceExpenses_proofs!DaysAreAccounted` | `Spec => []ConsecutiveRunsAccount` |
| `DatasourceExpenses_proofs!NothingIsStoredEarly` | `Spec => []FiguresAreFinal` |
| `DatasourceExpenses_proofs!NoRunTakesExpensesBack` | `Spec => ExpensesAreKept` |
| `DatasourceExpenses_proofs!SessionsAreSound` | `Spec => []RunsAreSound` |
| `Access_proofs!AccessTyping` | `AccessSpec => []AccessTypeOK` |
| `Access_proofs!TokensFounded` | `AccessSpec => []TokensAreFounded` |
| `Access_proofs!MembersJoined` | `AccessSpec => []MembersHaveJoined` |
| `Access_proofs!ChosenPasswords` | `AccessSpec => PasswordsAreChosen` |
| `Systems_proofs!Typing` | `Spec => []TypeOK` |
| `Systems_proofs!DeletionsAreOthers` | `Spec => []DeletedByAnother` |
| `Systems_proofs!ExternalIdsAreUnique` | `Spec => []OneSystemPerExternalId` |
| `Systems_proofs!OthersChangeStatus` | `Spec => StatusIsChangedByOthers` |
| `Systems_proofs!OwnersKeep` | `Spec => OwnersKeepTheirSystems` |
| `Systems_proofs!Refinement` | `Spec => ImplementsRegister` |
| `Systems_proofs!SettledSystems` | `Spec => Register!SettledRowsFollowLifecycle` |
| `Systems_proofs!StatusesFollowLifecycle` | `Spec => Register!RowsFollowLifecycle`, one at a time |
| `Accounts_proofs!Typing` | `Spec => []TypeOK` |
| `Accounts_proofs!CountersHold` | `Spec => []CountersWereTrue` |
| `Accounts_proofs!CountersOnly` | `Spec => RunsChangeCountersOnly` |
| `Accounts_proofs!OneAtATime` | one operations account at most, one at a time |
| `Persistence_proofs!RegisterTyping`, `SettledRows` | `Spec => []TypeOK`, `Spec => SettledRowsFollowLifecycle` of `StatusRegister`, under `RegisterAssumption` |
| `Persistence_proofs!NothingIsMissed` | `Spec => []WalksMissNothing` of `Listing` |
| `Persistence_proofs!PagesMatch` | `Spec => []PagesMatchTotals` of `Listing` |

*Entitlements.* `RedemptionIsWhole` is not inductive: a flush keeps the row's columns where the handler assigned what it had
loaded, so whether the result is whole depends on the versions the sessions in flight hold. The inductive invariant
adds `SessionsAreSound`: what a session loaded was whole and had the status its handler checked; a redemption
or termination it saw has not disappeared from the row; data source and organization it is
about to write belong together; and the same for the job's open transaction. The key fact is that `redeemed_by` and
`linked_datasource` are either both assigned by a flush or both left alone. For a redeem the loaded row has
neither, so it writes both; a terminate or a delete writes neither. The proof has one step per action, and one
lemma for a flush of each kind. The second half adds what a transaction knows of itself (`TransactionsHoldTheirOwn`): the data sources
the job has still to look at are other than the ones of the rows it holds, and the candidate is a row of the right cloud account that it does not
hold yet, which nobody can take away before the update since rows keep their data source. `JobRedemptionsMatch` follows, and so do the refinement, in which the job is
one more client of the register (what it sees is the candidate or what it holds), and that a redemption changes
only under a writer that loaded the entitlement before it (`WritesMove` says what a writer leaves alone otherwise).

*Memberships.* `Activated` is not inductive either: `EnableUser` writes `active` and relies on the `disabled` it
loaded, `Accept` on an active user writes nothing and relies on the user it loaded. The invariant adds `SessionsAreSound`: a
password, once set, stays set, and nobody returns to draft, so an old view errs on the safe side only. For the refinements
`SessionsHaveSeen` adds which statuses were seen in each phase; a deletion, which ends a user and its memberships in one commit, is a move of one register
and a conditional update of the other.

What the code says of users and memberships as such (section 5) does not survive overlapping requests, and nothing but look-ups stands
for it. The theorems marked *one at a time* show that overlap is all that can go wrong: with `OneAtATime`, `SequentialInv` is inductive over all
requests, the command and the job. It has the four invariants (`Kept`), which need each other, and `SessionsAreCurrent`: what the
request has loaded is what is committed, with the one exception that an invitation it loaded may have been expired by the job meanwhile, and what
its look-ups have found (no such user, no such membership) is still so. That exception is why the statement about tokens has to hold for expired invitations
too, and why `StatusesFollowLifecycle` needs that an expired invitation may go wherever a pending one may.

*Organizations.* Each of the four invariants about the two sides is established by a commit that relies on a call made
several steps before, with a row that others may have changed since. The inductive invariant is their conjunction with
`SessionsAreSound`: what a session knows of Optscale (its link exists, the name was accepted, the organization is suspended,
the user promoted) and that it cannot become untrue; that a link which was loaded is the link of the
row still, because only rows without one are linked; and that two sessions never have one row flushed or one new id
in hand. The proof is in two halves. Steps that commit no organization only let Optscale grow (`RemotesEvolve`, `PeopleEvolve`),
and `SessionsEvolve`, `RowsEvolve` and `StepInv` say once what that preserves. Steps that commit one go through `RowInv`, which says what the new row
has to satisfy, and `CommitFacts`, which says what the flush makes of it. `OneOrganizationPerExternalId` needs `IndexIsHeld`: a
request that has flushed an external id holds it in the index, together with the one it replaces, no two requests hold the same one, and no other
live row has one that is held.

*DatasourceExpenses.* What the two histories say of the table is brought about by transactions that looked a row up long before they
commit. `RunsAreSound` says what such a transaction holds: for each row it has looked up or written, every cost the table has is in what will replace
it, as long as the row is not obsolete; no cost it holds is of a day that is not over; the data sources it has still to look at, is looking at or has
written are together all those it will account for; and two runs with one day have no row in common. Lemmas treat the steps by what they change
(days that pass, the table, one run), and `CommitMonthly` and `CommitDaily` by which day's row they write.

*Systems.* The action properties rest on what a session knows of its caller. The invariant (`SessionsAreSound`) says that a request about its own
caller holds the very view authentication had, which was active, and is an update: `enable_system` needs no check of the caller because it needs a
disabled system. It also says that a deletion recorded by the system itself is nowhere, in the table or in a session, from which
`DeletedByAnother` follows even where an enable is carried out over a deletion. That an enable brings a deleted system back takes an overlap:
`SettledSystems` and, one at a time, `StatusesFollowLifecycle`. The refinement is proved in full: initial states
(`InitRefines`), and each kind of step (`ForgetsRefines`, `LooksRefines`, `MovesRefines`, `InsertRefines`) maps to a step of the register or a stutter.

*Access.* The invariant of `Memberships` is kept by its own lemmas, since `Access` adds writers of `users` that change two columns only; on top of it
`AccessSessionsAreSound` says that a session's user is set up, once and for all, and that a session which has
seen the membership is for an account the user has joined. That an active membership is one whose invitation was accepted
(`MembersHaveJoined`) is what `ReadMembership` relies on; a lemma for each writer (`WritesActivate`) shows that a flush makes a membership active in an
acceptance only, and `Memberships_proofs!LastUsedEvolves` the same of the account used last. `ChosenPasswords` rests on what a flush leaves alone:
a login writes the account last used only, so the old password it has verified is not written back.

*Accounts.* `CountersWereTrue` is stated over the identity maps of the runs too, which makes it inductive with `TypeOK`: a flush
takes each counter either from the row or from the run, and both have been true. `OneAtATime` assumes in its statement that there
is one slot for requests.

*Listing.* `WalksMissNothing` speaks of the end of a walk. The invariant (`WalkIsSound`) speaks of every moment of it: a row that is still to be found
is in the listing, ties with none, and has at least as many newer rows as the offset of the next page. Insertions and updates only add newer
rows; a page takes the rows whose places follow the offset, and a place is the number of newer rows plus one. The proof counts with the theorems about finite
sets of the library (`FS_Interval`, `FS_Subset`, `FS_Bijection`).

*Only model-checked:* the liveness properties (`EveryRequestEnds`, `EventuallyRedeemed`, `RevocationEndsAccess`, `DisabledSystemsStopActing`,
`CountersConverge`). They rest on fairness, thus on `ENABLED`, which the prover does not support; `CountersConverge`, which
states its hypotheses itself, would need an induction over steps that happen again and again.

## 5. Findings

Statements that the code or its messages make and that do not survive overlapping requests, a failure or a crash. Two have a
run in which TLC finds the behaviour:

- *"... the reset flow will also be triggered to allow the user to set a new password"* (`routers/organizations.py:410-411`; run
  `organizations_password`): when adding an administrator fails after the user was created at Optscale, the retry finds the user,
  succeeds, and never triggers the flow. (The run leaves `create_employee` out, which leaves such users behind too: `OnlyAdministrators`.)
- *"The external_id field has to be unique and not in DELETED status"* (`routers/accounts.py:96`; run `accounts_external_id`): two creations that
  overlap both find none, an update does not look, and no index stops either.

Five more are stated as properties of the modules and fail if they are given to TLC with an instance of section 3:

- *"Only new entitlements can be redeemed"* (`routers/entitlements.py:181`; `OnlyNewIsRedeemed`): a redemption that waits for Optscale while the
  entitlement is deleted, or redeemed by another request or by the job, is written all the same.
- *"Only active organizations can redeem entitlements"* (`routers/entitlements.py:199`; `OnlyActiveOrganizationsRedeem`): the organization is
  deleted while Optscale is asked.
- *"... been successfully redeemed"* (`redeem_entitlements.py:144`; `AnnouncedIsRedeemed`) is sent before the commit; a later failure of
  the run takes the redemption back.
- *"if the user is in status DELETE then the account user will be deleted as well"* (`routers/users.py:676-677`; `DeletedUsersBelongNowhere` with
  two requests): an invitation that overlaps the deletion leaves a deleted user with a live membership, and an acceptance that does makes the user
and the membership active again.
- *"HTTP STATUS 400 if the provided user already belongs to the fetched account"* (`routers/users.py:198`; `BelongsOnce` with two requests): two
  overlapping requests leave two memberships, and `get_account_user` (`scalar_one_or_none`) fails for that pair from then on.

Three more consequences are allowed by the model and contradict no statement of the code: a resend that overlaps the expiry job
leaves an `invitation-expired` row with a valid token; an acceptance just before its expiry date and a retry just after
it leave an expired invitation without a token; and two overlapping invitations of a new address create two users (`AddressesAreUnique` with two requests).
`Organizations` allows three: two overlapping renames that both succeed can leave the two sides with different names (the
invariant says no more than that Optscale accepted the name once); a lost answer leaves an organization at Optscale that
no row points to, and the retry creates another one; a deleted organization's external id is refused to a new one,
although the unique index exempts deleted rows. In `DatasourceExpenses` a missed run leaves the day before without its cost
for good: only the run of the next day stores it. `Access` allows an acceptance
that overlaps another of the same draft user to replace the password the first one set; a password that was reset leaves its recovery token valid. In
`Systems` an enable that loaded a system before its deletion brings it back, unless its external id has been given away.
In `Accounts` two overlapping commands create two operations accounts. `Listing` allows rows to be missed if others leave the listing, if
transactions commit in the opposite order of their beginnings, and, with nothing written at all, where one transaction has
written several rows (a run of `fetch_datasource_expenses`): no second column makes the order total.

## 6. Not modelled

- Notifications, telemetry, logging, the HTTP clients, schemas, RQL, OpenAPI output, migrations, start-up:
  no state of their own, or conversions only.
- Two requests that insert the same human-readable primary key: the constraint makes one fail, which is `RequestFails`.
- Totals of expenses: overlapping runs may store the older one last, and a run that asks after the end of a month stores the new month's
  total under the old one.
- The status of an account: no handler changes it. Names and descriptions throughout.
- Signatures, hashes and encodings of tokens and passwords.

## 7. Plan

Done: all modules of section 2 and the proofs of section 4; of the properties the passing runs check, every invariant, action
property and refinement is proved. What is left:

1. Proofs: what a settled row gives for the columns beside the status (a user's password under overlapping acceptances); for
   `Accounts`, unique external ids while requests come one at a time and no update changes one.
2. A walk over a listing that is resumed after several pages, with the filters of RQL as conditions that depend on what is written.
