--------------------------- MODULE Organizations ---------------------------
(***************************************************************************)
(* Organizations exist twice: as rows of the organizations table and at    *)
(* Optscale, which knows nothing of our transactions.  The handlers of     *)
(* routers/organizations.py call Optscale (and its API modifier) in the    *)
(* middle of a transaction and commit afterwards: a call that fails after  *)
(* others succeeded, an answer that is lost, a commit that never comes     *)
(* leave the two sides apart, and the caller tries again.                  *)
(*                                                                         *)
(* An inserted row and a changed external id are flushed before Optscale   *)
(* is called: the row and its entries in the unique index stay locked      *)
(* until the commit.  All other flushes are one step with the commit.      *)
(***************************************************************************)
EXTENDS OrmSession

CONSTANTS
  OrganizationId, \* primary keys of the organizations table
  Partial,        \* rows that were there before, never linked to Optscale
  Remote,         \* ids Optscale gives to organizations
  Name,           \* names of organizations
  ExternalId,     \* operations_external_id
  Email,          \* addresses of administrators to add
  Client,         \* slots for requests in flight, over all worker processes
  None            \* SQL NULL; a field of the payload that is not set

ASSUME OrganizationsAssumption ==
  /\ Partial \subseteq OrganizationId
  /\ None \notin OrganizationId \cup Remote \cup Name \cup ExternalId \cup Email

VARIABLES
  organization,   \* the committed organizations table
  remote,         \* the organizations at Optscale
  remote_user,    \* the users at Optscale
  employee,       \* who belongs to which organization at Optscale
  admin,          \* who administrates which organization at Optscale
  recorded,       \* the committed additionaladminrequests table
  request         \* what each request in flight holds in its session

people == <<remote_user, employee, admin, recorded>>
vars == <<organization, remote, people, request>>

-----------------------------------------------------------------------------
(* Rows *)

Absent == "absent"
OrganizationStatus == {"active", "cancelled", "deleted"}

Organization == [status: OrganizationStatus \cup {Absent}, name: Name \cup {None},
                 external: ExternalId \cup {None}, linked: Remote \cup {None}]

NoOrganization == [status |-> Absent, name |-> None, external |-> None, linked |-> None]

\* named collects the names Optscale has accepted, the last of which is its present one.
RemoteOrganization == [name: Name \cup {None}, named: SUBSET Name, suspended: BOOLEAN]

NoRemote == [name |-> None, named |-> {}, suspended |-> FALSE]

\* own: registered by itself; new: created here with a random password that nobody knows;
\* reset: created here and sent the mail that lets it set a password.
UserState == {Absent, "own", "new", "reset"}

Phase == {"idle", "insert", "provision", "link", "set_external", "rename", "save_name",
          "suspend", "delete", "find_user", "create_user", "employ", "promote", "reset",
          "record", "reset_employee"}

\* Those of a request that has not read a row.
WithoutRow == {"idle", "insert", "reset_employee"}

\* wrote: the row has been flushed, and is locked with the index entries of holds.
Request == [phase: Phase, org: OrganizationId \cup {None}, loaded: Organization,
            wrote: BOOLEAN, holds: SUBSET ExternalId, name: Name \cup {None},
            external: ExternalId \cup {None}, remote: Remote \cup {None},
            email: Email \cup {None}, created: BOOLEAN]

Idle == [phase |-> "idle", org |-> None, loaded |-> NoOrganization, wrote |-> FALSE,
         holds |-> {}, name |-> None, external |-> None, remote |-> None, email |-> None,
         created |-> FALSE]

TypeOK ==
  /\ organization \in [OrganizationId -> Organization]
  /\ remote \in [Remote -> RemoteOrganization]
  /\ remote_user \in [Email -> UserState]
  /\ employee \subseteq Email \X Remote
  /\ admin \subseteq Email \X Remote
  /\ recorded \subseteq OrganizationId \X Email
  /\ request \in [Client -> Request]

Init ==
  /\ \E name \in [Partial -> Name], external \in [Partial -> ExternalId] :
       /\ \A o, p \in Partial : external[o] = external[p] => o = p
       /\ organization = [o \in OrganizationId |->
            IF o \in Partial
            THEN [status |-> "active", name |-> name[o], external |-> external[o], linked |-> None]
            ELSE NoOrganization]
  /\ remote = [r \in Remote |-> NoRemote]
  /\ remote_user \in [Email -> {Absent, "own"}]
  /\ employee = {}
  /\ admin = {}
  /\ recorded = {}
  /\ request = [c \in Client |-> Idle]

-----------------------------------------------------------------------------
(* Steps of a request *)

Goes(c, to) == request' = [request EXCEPT ![c] = to]

\* The request has read something and goes on.
Reads(c, to) == Goes(c, to) /\ UNCHANGED <<organization, remote, people>>

\* A remote call has been carried out: its answer arrives, or is lost and with it the
\* request, which is rolled back.
Answered(c, to) == Goes(c, to) \/ Goes(c, Idle)

\* An error or a timeout before the call had an effect, a refusal, a constraint violation,
\* a dead worker: everything the request did in the database is rolled back.
RequestFails(c) ==
  /\ request[c].phase # "idle"
  /\ Reads(c, Idle)

Load(o, phase) == [Idle EXCEPT !.phase = phase, !.org = o, !.loaded = organization[o]]

\* Somebody else has flushed row o and not committed.
Locked(c, o) == \E d \in Client \ {c} : request[d].wrote /\ request[d].org = o

\* Mutant: the index is not unique, and only the look-up is left.
ExternalNotUnique(c, x) == TRUE

\* The unique index over rows that are not deleted: no other row has x, and no transaction
\* that is open may be about to take or to give it up.
ExternalFree(c, x) ==
  /\ \A p \in OrganizationId \ {request[c].org} :
       organization[p].external = x => organization[p].status \in {Absent, "deleted"}
  /\ \A d \in Client \ {c} : x \notin request[d].holds

\* The flush, if there was none yet, and the commit.
Commit(c, assigned) ==
  /\ ~Locked(c, request[c].org)
  /\ organization' = [organization EXCEPT ![request[c].org] =
       IF request[c].wrote THEN assigned ELSE Flush(@, request[c].loaded, assigned)]
  /\ Goes(c, Idle)
  /\ UNCHANGED <<remote, people>>

-----------------------------------------------------------------------------
(* create_organization *)

\* get_or_create, which looks at deleted rows too: an organization that is linked already
\* or has another name is refused, one that is not linked is resumed.
CreateLookUp(c, x, n) ==
  LET found == {o \in OrganizationId : organization[o].external = x} IN
  /\ request[c].phase = "idle"
  /\ \/ /\ found = {}
        /\ Reads(c, [Idle EXCEPT !.phase = "insert", !.name = n, !.external = x])
     \/ \E o \in found :
          /\ organization[o].linked = None
          /\ organization[o].name = n
          /\ Reads(c, [Load(o, "provision") EXCEPT !.name = n])

CreateInsert(c, o) ==
  /\ request[c].phase = "insert"
  /\ organization[o].status = Absent
  /\ \A d \in Client : request[d].org # o
  /\ ExternalFree(c, request[c].external)
  /\ Reads(c, [request[c] EXCEPT !.phase = "provision", !.org = o, !.wrote = TRUE,
                 !.holds = {request[c].external},
                 !.loaded = [status |-> "active", name |-> request[c].name,
                             external |-> request[c].external, linked |-> None]])

\* The API modifier creates the organization at Optscale.
Provision(c, r) ==
  /\ request[c].phase = "provision"
  /\ remote[r] = NoRemote
  /\ remote' = [remote EXCEPT ![r] = [name |-> request[c].name, named |-> {request[c].name},
                                      suspended |-> FALSE]]
  /\ Answered(c, [request[c] EXCEPT !.phase = "link", !.remote = r])
  /\ UNCHANGED <<organization, people>>

\* Mutant: the row is committed before Optscale is asked.
LinkBefore(c) ==
  /\ request[c].phase \in {"provision", "link"}
  /\ Commit(c, [request[c].loaded EXCEPT !.linked = request[c].remote])

Link(c) ==
  /\ request[c].phase = "link"
  /\ Commit(c, [request[c].loaded EXCEPT !.linked = request[c].remote])

-----------------------------------------------------------------------------
(* update_organization *)

\* Fields of the payload that are not set or equal to the loaded ones change nothing; the
\* name of an organization that is not linked cannot change.
UpdateRead(c, o, n, x) ==
  LET row == organization[o] IN
  /\ request[c].phase = "idle"
  /\ row.status # Absent
  /\ n # row.name /\ x # row.external
  /\ n # None \/ x # None
  /\ n # None => row.linked # None
  /\ Reads(c, [Load(o, IF x # None THEN "set_external" ELSE "rename")
                 EXCEPT !.name = n, !.external = x])

\* The external id first: its uniqueness is checked before Optscale is called.  The flush
\* refreshes the loaded row.
SetExternal(c) ==
  LET r == request[c]
      flushed == Flush(organization[r.org], r.loaded, [r.loaded EXCEPT !.external = r.external])
  IN
  /\ r.phase = "set_external"
  /\ ~Locked(c, r.org)
  /\ organization[r.org].status # "deleted" => ExternalFree(c, r.external)
  /\ UNCHANGED <<remote, people>>
  /\ IF r.name = None
     THEN /\ organization' = [organization EXCEPT ![r.org] = flushed]
          /\ Goes(c, Idle)
     ELSE /\ Goes(c, [r EXCEPT !.phase = "rename", !.wrote = TRUE, !.loaded = flushed,
                        !.holds = IF flushed.status = "deleted" THEN {}
                                  ELSE {r.external, organization[r.org].external}])
          /\ UNCHANGED organization

\* update_organization_name at Optscale.
Rename(c) ==
  LET linked == request[c].loaded.linked IN
  /\ request[c].phase = "rename"
  /\ remote' = [remote EXCEPT ![linked].name = request[c].name,
                              ![linked].named = @ \cup {request[c].name}]
  /\ Answered(c, [request[c] EXCEPT !.phase = "save_name"])
  /\ UNCHANGED <<organization, people>>

\* Mutant: the name is saved whatever Optscale says.
SaveNameBefore(c) ==
  /\ request[c].phase \in {"rename", "save_name"}
  /\ Commit(c, [request[c].loaded EXCEPT !.name = request[c].name])

SaveName(c) ==
  /\ request[c].phase = "save_name"
  /\ Commit(c, [request[c].loaded EXCEPT !.name = request[c].name])

-----------------------------------------------------------------------------
(* delete_organization_by_id *)

DeleteRead(c, o) ==
  /\ request[c].phase = "idle"
  /\ organization[o].status \notin {Absent, "deleted"}
  /\ Reads(c, Load(o, "suspend"))

\* Optscale does not know an organization without an id.
Suspend(c) ==
  LET linked == request[c].loaded.linked IN
  /\ request[c].phase = "suspend"
  /\ linked # None
  /\ remote' = [remote EXCEPT ![linked].suspended = TRUE]
  /\ Answered(c, [request[c] EXCEPT !.phase = "delete"])
  /\ UNCHANGED <<organization, people>>

\* Mutant: a status outside the enumeration.
DeleteMisspelt(c) ==
  /\ request[c].phase = "delete"
  /\ Commit(c, [request[c].loaded EXCEPT !.status = "removed"])

\* Mutant: the row is deleted whatever Optscale says.
DeleteBefore(c) ==
  /\ request[c].phase \in {"suspend", "delete"}
  /\ Commit(c, [request[c].loaded EXCEPT !.status = "deleted"])

Delete(c) ==
  /\ request[c].phase = "delete"
  /\ Commit(c, [request[c].loaded EXCEPT !.status = "deleted"])

-----------------------------------------------------------------------------
(* add_additional_admin and make_organization_user_admin *)

AddAdminRead(c, o, e) ==
  /\ request[c].phase = "idle"
  /\ organization[o].status \notin {Absent, "deleted"}
  /\ Reads(c, [Load(o, "find_user") EXCEPT !.email = e])

FindUser(c) ==
  /\ request[c].phase = "find_user"
  /\ Reads(c, [request[c] EXCEPT !.phase =
                 IF remote_user[request[c].email] = Absent THEN "create_user" ELSE "employ"])

\* Optscale refuses an address it has.
CreateUser(c) ==
  /\ request[c].phase = "create_user"
  /\ remote_user[request[c].email] = Absent
  /\ remote_user' = [remote_user EXCEPT ![request[c].email] = "new"]
  /\ Answered(c, [request[c] EXCEPT !.phase = "employ", !.created = TRUE])
  /\ UNCHANGED <<organization, remote, employee, admin, recorded>>

\* Somebody who belongs to the organization already is no error.
Employ(c) ==
  LET linked == request[c].loaded.linked IN
  /\ request[c].phase = "employ"
  /\ linked # None
  /\ employee' = employee \cup {<<request[c].email, linked>>}
  /\ Answered(c, [request[c] EXCEPT !.phase = "promote"])
  /\ UNCHANGED <<organization, remote, remote_user, admin, recorded>>

\* The reset of the password follows only if this request has created the user.
Promote(c) ==
  /\ request[c].phase = "promote"
  /\ admin' = admin \cup {<<request[c].email, request[c].loaded.linked>>}
  /\ Answered(c, [request[c] EXCEPT !.phase = IF request[c].created THEN "reset" ELSE "record"])
  /\ UNCHANGED <<organization, remote, remote_user, employee, recorded>>

ResetPassword(c) ==
  /\ request[c].phase = "reset"
  /\ remote_user' = [remote_user EXCEPT ![request[c].email] = "reset"]
  /\ Answered(c, [request[c] EXCEPT !.phase = "record"])
  /\ UNCHANGED <<organization, remote, employee, admin, recorded>>

\* Mutant: the request is recorded before the user is promoted.
RecordBefore(c) ==
  /\ request[c].phase \in {"promote", "record"}
  /\ recorded' = recorded \cup {<<request[c].org, request[c].email>>}
  /\ Goes(c, Idle)
  /\ UNCHANGED <<organization, remote, remote_user, employee, admin>>

Record(c) ==
  /\ request[c].phase = "record"
  /\ recorded' = recorded \cup {<<request[c].org, request[c].email>>}
  /\ Goes(c, Idle)
  /\ UNCHANGED <<organization, remote, remote_user, employee, admin>>

\* An employee of any organization.
MakeAdmin(o, e) ==
  /\ organization[o].linked # None
  /\ \E r \in Remote : <<e, r>> \in employee
  /\ admin' = admin \cup {<<e, organization[o].linked>>}
  /\ UNCHANGED <<organization, remote, remote_user, employee, recorded, request>>

-----------------------------------------------------------------------------
(* create_employee, about users at Optscale only *)

\* Nobody looks whether the user exists: Optscale refuses an address it has, and a request
\* that has failed in between cannot be repeated.
CreateEmployee(c, e) ==
  /\ request[c].phase = "idle"
  /\ remote_user[e] = Absent
  /\ remote_user' = [remote_user EXCEPT ![e] = "new"]
  /\ Answered(c, [Idle EXCEPT !.phase = "reset_employee", !.email = e])
  /\ UNCHANGED <<organization, remote, employee, admin, recorded>>

ResetEmployeePassword(c) ==
  /\ request[c].phase = "reset_employee"
  /\ remote_user' = [remote_user EXCEPT ![request[c].email] = "reset"]
  /\ Goes(c, Idle)
  /\ UNCHANGED <<organization, remote, employee, admin, recorded>>

-----------------------------------------------------------------------------

CreateNext(c) ==
  \/ \E x \in ExternalId, n \in Name : CreateLookUp(c, x, n)
  \/ \E o \in OrganizationId : CreateInsert(c, o)
  \/ \E r \in Remote : Provision(c, r)
  \/ Link(c)

UpdateNext(c) ==
  \/ \E o \in OrganizationId, n \in Name \cup {None}, x \in ExternalId \cup {None} :
       UpdateRead(c, o, n, x)
  \/ SetExternal(c) \/ Rename(c) \/ SaveName(c)

DeleteNext(c) ==
  \/ \E o \in OrganizationId : DeleteRead(c, o)
  \/ Suspend(c) \/ Delete(c)

AddAdminNext(c) ==
  \/ \E o \in OrganizationId, e \in Email : AddAdminRead(c, o, e)
  \/ FindUser(c) \/ CreateUser(c) \/ Employ(c) \/ Promote(c) \/ ResetPassword(c) \/ Record(c)

EmployeeNext(c) == (\E e \in Email : CreateEmployee(c, e)) \/ ResetEmployeePassword(c)

Next ==
  \/ \E c \in Client :
       \/ CreateNext(c) \/ UpdateNext(c) \/ DeleteNext(c)
       \/ AddAdminNext(c) \/ EmployeeNext(c)
       \/ RequestFails(c)
  \/ \E o \in OrganizationId, e \in Email : MakeAdmin(o, e)

Spec == Init /\ [][Next]_vars

-----------------------------------------------------------------------------
(* Invariants.  An organization resumed by two requests at once is linked twice, and its  *)
(* history with the first link is lost: they are about organizations created as a whole.  *)

Ours == {o \in OrganizationId \ Partial : organization[o].status # Absent}

\* Whatever fails or overlaps, an organization in the table exists at Optscale, under an id
\* that no other organization has: the row is committed only with the id Optscale gave.
LinksAreReal ==
  \A o \in Ours :
    /\ organization[o].linked # None
    /\ remote[organization[o].linked] # NoRemote
    /\ \A p \in OrganizationId : organization[p].linked = organization[o].linked => p = o

\* "change it in the DB only if the API call is successful" (update_organization): the name
\* of an organization is one that Optscale has accepted for it, though not always the last.
NamesWereAccepted ==
  \A o \in Ours : organization[o].name \in remote[organization[o].linked].named

\* A deleted organization is suspended at Optscale and incurs no cost there, whatever other
\* requests wrote to its row in the meantime.
DeletedAreSuspended ==
  \A o \in Ours : organization[o].status = "deleted" => remote[organization[o].linked].suspended

\* Who is recorded as an additional administrator is one at Optscale.
RecordedAreAdmins ==
  \A o \in Ours, e \in Email : <<o, e>> \in recorded
    => <<e, organization[o].linked>> \in employee \cap admin

\* The external id of an organization that is not deleted is its own, though the look-up of
\* get_or_create and the insert are two steps.
OneOrganizationPerExternalId ==
  \A o, p \in OrganizationId :
    /\ {organization[o].status, organization[p].status} \cap {Absent, "deleted"} = {}
    /\ organization[o].external = organization[p].external
    => o = p

\* The request has inserted its row and not committed.
Inserting(r) == r.wrote /\ r.phase \in {"provision", "link"}

\* What a session holds, by phase: an organization once linked stays so, a row that was
\* flushed keeps everything, and what was done at Optscale stays done.
SessionIsSound(r) ==
  LET row == organization[r.org]
      linked == r.loaded.linked
  IN
  /\ r.phase \in WithoutRow => r.org = None /\ ~r.wrote
  /\ r.phase = "insert" => r.name \in Name /\ r.external \in ExternalId
  /\ r.phase \notin WithoutRow =>
       /\ r.org \in OrganizationId
       /\ r.loaded.status # Absent /\ r.loaded.name \in Name /\ r.loaded.external \in ExternalId
       /\ linked # None => remote[linked] # NoRemote
       /\ Inserting(r) => r.org \notin Partial /\ row.status = Absent /\ r.loaded.status = "active"
       /\ ~Inserting(r) =>
            /\ row.status # Absent
            /\ r.org \notin Partial => linked = row.linked
            /\ linked # None => row.linked # None
            /\ r.wrote => /\ r.phase \in {"rename", "save_name"}
                          /\ linked = row.linked
                          /\ r.loaded.status = row.status /\ r.loaded.name = row.name
  /\ r.phase \in {"provision", "link"} => linked = None /\ r.name = r.loaded.name
  /\ r.phase = "link" =>
       /\ r.remote \in Remote
       /\ r.name \in remote[r.remote].named
       /\ \A o \in OrganizationId : organization[o].linked # r.remote
  /\ r.phase = "set_external" => r.external \in ExternalId /\ (r.name # None => linked # None)
  /\ r.phase \in {"rename", "save_name"} => linked # None /\ r.name \in Name
  /\ r.phase = "save_name" => r.name \in remote[linked].named
  /\ r.phase = "delete" => linked # None /\ remote[linked].suspended
  /\ r.phase \in {"find_user", "create_user", "employ", "promote", "reset", "record",
                  "reset_employee"} => r.email \in Email
  /\ r.phase \in {"promote", "reset", "record"}
       => linked # None /\ <<r.email, linked>> \in employee
  /\ r.phase \in {"reset", "record"} => <<r.email, linked>> \in admin

\* No two requests have flushed one row or are about to use one link, and nobody has read a
\* row that is not committed.
Exclusive(r, s) ==
  /\ r.org = s.org => ~Inserting(r) /\ ~(r.wrote /\ s.wrote)
  /\ r.phase = "link" /\ s.phase = "link" => r.remote # s.remote

\* With TypeOK and the four invariants above, inductive.
SessionsAreSound ==
  /\ \A c, d \in Client : c # d => Exclusive(request[c], request[d])
  /\ \A c \in Client : SessionIsSound(request[c])
  /\ \A o \in OrganizationId :
       IF organization[o].status = Absent
       THEN /\ organization[o] = NoOrganization /\ o \notin Partial
            /\ \A e \in Email : <<o, e>> \notin recorded
       ELSE organization[o].name \in Name /\ organization[o].external \in ExternalId
  /\ \A o \in OrganizationId : organization[o].linked # None
       => remote[organization[o].linked] # NoRemote
  /\ \A r \in Remote : remote[r] # NoRemote => remote[r].named # {}

\* What the unique index knows of open transactions, on which OneOrganizationPerExternalId
\* rests: who has flushed a live row holds the external id it will commit, and an id that is
\* held belongs to no other transaction and to no other live row.
IndexIsHeld ==
  \A c \in Client :
    LET r == request[c] IN
    /\ ~r.wrote => r.holds = {}
    /\ r.wrote /\ r.loaded.status # "deleted" => r.loaded.external \in r.holds
    /\ \A o \in OrganizationId \ {r.org} :
         organization[o].external \in r.holds => organization[o].status \in {Absent, "deleted"}
    /\ \A d \in Client \ {c} : r.holds \cap request[d].holds = {}

\* "it will be created ..., and the reset flow will also be triggered to allow the user to
\* set a new password" (add_additional_admin): a retry finds the user its failed predecessor
\* created, and takes it for one that has a password.
AdminsCanSetAPassword ==
  \A o \in OrganizationId, e \in Email : <<o, e>> \in recorded => remote_user[e] # "new"

=============================================================================
