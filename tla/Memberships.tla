---------------------------- MODULE Memberships ----------------------------
(***************************************************************************)
(* Users, their memberships of accounts and the invitations that create    *)
(* both: the handlers of routers/users.py, the removal of a user from an   *)
(* account (routers/accounts.py), the invite_user command and the          *)
(* check_expired_invitations job, over the tables users and accounts_users.*)
(*                                                                         *)
(* A request reads in several steps and writes in one: its flushes and its *)
(* commit are one step because the rows it has flushed are locked for      *)
(* others until the commit (user rows are flushed before membership rows;  *)
(* a deadlock PostgreSQL breaks is a request that fails).  What it writes  *)
(* is computed from what it loaded, however old that is; only the two      *)
(* UPDATE ... WHERE statements (delete_by_user, the job) look again.       *)
(* The accounts are active throughout: no handler changes accounts.status. *)
(***************************************************************************)
EXTENDS OrmSession

CONSTANTS
  UserId,        \* primary keys of the users table
  MembershipId,  \* primary keys of the accounts_users table
  AccountId,     \* accounts, all of them active
  Email,         \* e-mail addresses, up to case
  Password,      \* passwords users choose
  Token,         \* invitation tokens that may be issued: bounds resends and retries
  Client,        \* slots for requests and commands in flight
  None           \* SQL NULL

ASSUME MembershipsAssumption ==
  None \notin UserId \cup MembershipId \cup AccountId \cup Email \cup Password \cup Token

VARIABLES
  user,          \* the committed users table
  membership,    \* the committed accounts_users table
  issued,        \* tokens handed out so far
  expired,       \* tokens whose invitation_token_expires_at has passed
  request        \* what each request in flight holds in its session

vars == <<user, membership, issued, expired, request>>

-----------------------------------------------------------------------------
(* Rows *)

UserStatus == {"draft", "active", "disabled", "deleted"}
AccountUserStatus == {"invited", "invitation-expired", "active", "deleted"}
Absent == "absent"

\* The hash of a password is that password to everybody who may compare it; last_used is
\* the account a user logs in to without naming one.
User == [status: UserStatus \cup {Absent}, email: Email \cup {None},
         password: Password \cup {None}, last_used: AccountId \cup {None}]

\* token stands for the token and its expiry date, which are always assigned together.
AccountUser == [status: AccountUserStatus \cup {Absent}, account: AccountId \cup {None},
                user: UserId \cup {None}, token: Token \cup {None}]

NoUser == [status |-> Absent, email |-> None, password |-> None, last_used |-> None]
NoMembership == [status |-> Absent, account |-> None, user |-> None, token |-> None]

\* Not deleted, and there.
LiveUser(u) == user[u].status \notin {Absent, "deleted"}
LiveMembership(m) == membership[m].status \notin {Absent, "deleted"}

\* get_account_user with status != deleted.
LiveMembershipsOf(u, a) ==
  {m \in MembershipId : /\ LiveMembership(m)
                        /\ membership[m].user = u /\ membership[m].account = a}

Phase == {"idle", "check_invited", "invite", "regenerate", "find_invitation", "resend",
          "find_token", "accept", "expire", "remove", "delete", "disable", "enable"}

\* loaded_user and loaded are the rows in the session's identity map.
Request == [phase: Phase, user: UserId \cup {None}, loaded_user: User,
            account: AccountId \cup {None}, email: Email \cup {None},
            password: Password \cup {None},
            membership: MembershipId \cup {None}, loaded: AccountUser]

Idle == [phase |-> "idle", user |-> None, loaded_user |-> NoUser, account |-> None,
         email |-> None, password |-> None, membership |-> None, loaded |-> NoMembership]

TypeOK ==
  /\ user \in [UserId -> User]
  /\ membership \in [MembershipId -> AccountUser]
  /\ issued \subseteq Token
  /\ expired \subseteq issued
  /\ request \in [Client -> Request]

Init ==
  /\ user = [u \in UserId |-> NoUser]
  /\ membership = [m \in MembershipId |-> NoMembership]
  /\ issued = {}
  /\ expired = {}
  /\ request = [c \in Client |-> Idle]

-----------------------------------------------------------------------------
(* Steps of a request *)

\* The request goes on with what it has read.
Goes(c, to) ==
  /\ request' = [request EXCEPT ![c] = to]
  /\ UNCHANGED <<user, membership, issued, expired>>

\* The commit; the request is over.
Ends(c) == request' = [request EXCEPT ![c] = Idle]

LoadUser(u, phase) ==
  [Idle EXCEPT !.phase = phase, !.user = u, !.loaded_user = user[u]]

LoadMembership(c, m, phase) ==
  [request[c] EXCEPT !.phase = phase, !.membership = m, !.loaded = membership[m]]

\* Flushes of the loaded rows with these attributes assigned.
FlushUser(c, assigned) ==
  [user EXCEPT ![request[c].user] = Flush(@, request[c].loaded_user, assigned)]

FlushMembership(c, assigned) ==
  [membership EXCEPT ![request[c].membership] = Flush(@, request[c].loaded, assigned)]

\* A rejection, a timeout, a dropped connection, a dead worker: rollback.
RequestFails(c) ==
  /\ request[c].phase # "idle"
  /\ Goes(c, Idle)

-----------------------------------------------------------------------------
(* Inviting: invite_user of the API and the invite_user command *)

\* Mutant: a disabled user is not looked for.
KnownEnabled(email) == {u \in UserId : user[u].status \in {"draft", "active"} /\ user[u].email = email}

\* The users with this address that are not deleted.
Known(email) == {u \in UserId : LiveUser(u) /\ user[u].email = email}

\* The first of them, unless disabled; or nobody yet.
InviteReadUser(c, email, a) ==
  /\ request[c].phase = "idle"
  /\ \/ /\ Known(email) = {}
        /\ Goes(c, [Idle EXCEPT !.phase = "invite", !.email = email, !.account = a])
     \/ \E u \in Known(email) :
          /\ user[u].status # "disabled"
          /\ Goes(c, [LoadUser(u, "check_invited") EXCEPT !.email = email, !.account = a])

\* Mutant: only an active membership is refused.
InviteCheckMembershipActive(c) ==
  /\ request[c].phase = "check_invited"
  /\ Goes(c, IF \E m \in LiveMembershipsOf(request[c].user, request[c].account) :
                  membership[m].status = "active"
             THEN Idle ELSE [request[c] EXCEPT !.phase = "invite"])

\* A user who is a member already, or invited, is refused.
InviteCheckMembership(c) ==
  /\ request[c].phase = "check_invited"
  /\ Goes(c, IF LiveMembershipsOf(request[c].user, request[c].account) = {}
             THEN [request[c] EXCEPT !.phase = "invite"] ELSE Idle)

\* The command with --force goes on with the first membership it finds, whatever its status.
InviteForce(c, m) ==
  /\ request[c].phase = "check_invited"
  /\ m \in LiveMembershipsOf(request[c].user, request[c].account)
  /\ Goes(c, LoadMembership(c, m, "regenerate"))

\* Inserts the membership, invited with a new token, and the draft user if there was none.
Invite(c, u, m, t) ==
  /\ request[c].phase = "invite"
  /\ IF request[c].user = None
     THEN /\ user[u].status = Absent
          /\ user' = [user EXCEPT ![u] = [NoUser EXCEPT !.status = "draft",
                                                       !.email = request[c].email]]
     ELSE /\ u = request[c].user
          /\ UNCHANGED user
  /\ membership[m].status = Absent
  /\ t \notin issued
  /\ membership' = [membership EXCEPT ![m] =
       [status |-> "invited", account |-> request[c].account, user |-> u, token |-> t]]
  /\ issued' = issued \cup {t}
  /\ Ends(c)
  /\ UNCHANGED expired

\* The command with --force assigns a new token and leaves the status alone.
Regenerate(c, t) ==
  /\ request[c].phase = "regenerate"
  /\ t \notin issued
  /\ membership' = FlushMembership(c, [request[c].loaded EXCEPT !.token = t])
  /\ issued' = issued \cup {t}
  /\ Ends(c)
  /\ UNCHANGED <<user, expired>>

-----------------------------------------------------------------------------
(* Resending: resend_user_invitation *)

ResendReadUser(c, u, a) ==
  /\ request[c].phase = "idle"
  /\ LiveUser(u)
  /\ Goes(c, [LoadUser(u, "find_invitation") EXCEPT !.account = a])

\* get_account_user fails when there is more than one; an active member is refused.
ResendReadMembership(c) ==
  /\ request[c].phase = "find_invitation"
  /\ \E m \in MembershipId :
       /\ LiveMembershipsOf(request[c].user, request[c].account) = {m}
       /\ membership[m].status # "active"
       /\ Goes(c, LoadMembership(c, m, "resend"))

Resend(c, t) ==
  /\ request[c].phase = "resend"
  /\ t \notin issued
  /\ membership' = FlushMembership(c, [request[c].loaded EXCEPT !.status = "invited",
                                                                !.token = t])
  /\ issued' = issued \cup {t}
  /\ Ends(c)
  /\ UNCHANGED <<user, expired>>

-----------------------------------------------------------------------------
(* Accepting: accept_user_invitation *)

AcceptReadUser(c, u) ==
  /\ request[c].phase = "idle"
  /\ user[u].status \in {"draft", "active"}
  /\ Goes(c, LoadUser(u, "find_token"))

\* The membership of this user with this token that is not deleted.  After the expiry date
\* the request is refused, once the status says so; before, if an active user sends a
\* password or a draft user none.
AcceptReadMembership(c, m, password) ==
  /\ request[c].phase = "find_token"
  /\ LiveMembership(m)
  /\ membership[m].user = request[c].user
  /\ membership[m].token # None
  /\ IF membership[m].token \in expired
     THEN /\ membership[m].status # "invitation-expired"
          /\ Goes(c, LoadMembership(c, m, "expire"))
     ELSE /\ request[c].loaded_user.status = "draft" <=> password # None
          /\ Goes(c, [LoadMembership(c, m, "accept") EXCEPT !.password = password])

\* The attributes a draft user gets.
Joining(c) ==
  [request[c].loaded_user EXCEPT !.status = "active", !.password = request[c].password,
                                 !.last_used = request[c].loaded.account]

\* Mutant: a member who was a user already is not activated.
AcceptDraftOnly(c) ==
  LET loaded == request[c].loaded_user IN
  /\ request[c].phase = "accept"
  /\ user' = IF loaded.status = "draft" THEN FlushUser(c, Joining(c)) ELSE user
  /\ membership' = FlushMembership(c, [request[c].loaded EXCEPT
       !.status = IF loaded.status = "draft" THEN "active" ELSE @, !.token = None])
  /\ Ends(c)
  /\ UNCHANGED <<issued, expired>>

\* Mutant: whoever accepts is written like a draft user.
AcceptAnybody(c) ==
  /\ request[c].phase = "accept"
  /\ user' = FlushUser(c, Joining(c))
  /\ membership' = FlushMembership(c, [request[c].loaded EXCEPT !.status = "active",
                                                                !.token = None])
  /\ Ends(c)
  /\ UNCHANGED <<issued, expired>>

\* A draft user becomes active and gets a password and an account; an active user is not
\* written.  The membership becomes active and loses its token.
Accept(c) ==
  LET loaded == request[c].loaded_user IN
  /\ request[c].phase = "accept"
  /\ user' = IF loaded.status = "draft" THEN FlushUser(c, Joining(c)) ELSE user
  /\ membership' = FlushMembership(c, [request[c].loaded EXCEPT !.status = "active",
                                                                !.token = None])
  /\ Ends(c)
  /\ UNCHANGED <<issued, expired>>

\* The commit that is forced before the request is refused.
AcceptTooLate(c) ==
  /\ request[c].phase = "expire"
  /\ membership' = FlushMembership(c, [request[c].loaded EXCEPT !.status = "invitation-expired"])
  /\ Ends(c)
  /\ UNCHANGED <<user, issued, expired>>

-----------------------------------------------------------------------------
(* Removing from an account; deleting, disabling, enabling, which another user does *)

\* remove_user_from_account
RemoveReadMembership(c, u, a) ==
  /\ request[c].phase = "idle"
  /\ \E m \in MembershipId :
       /\ LiveMembershipsOf(u, a) = {m}
       /\ Goes(c, LoadMembership(c, m, "remove"))

Remove(c) ==
  /\ request[c].phase = "remove"
  /\ membership' = FlushMembership(c, [request[c].loaded EXCEPT !.status = "deleted"])
  /\ Ends(c)
  /\ UNCHANGED <<user, issued, expired>>

\* fetch_user_or_404, then the handler's check of the loaded status.
ReadUser(c, u, statuses, phase) ==
  /\ request[c].phase = "idle"
  /\ user[u].status \in statuses
  /\ Goes(c, LoadUser(u, phase))

\* Mutants: disable takes a draft user, enable anybody who is not active.
DisableReadUserAny(c, u) == ReadUser(c, u, {"draft", "active"}, "disable")
EnableReadUserNotActive(c, u) == ReadUser(c, u, {"draft", "disabled", "deleted"}, "enable")

DeleteReadUser(c, u) == ReadUser(c, u, {"draft", "active", "disabled"}, "delete")
DisableReadUser(c, u) == ReadUser(c, u, {"active"}, "disable")
EnableReadUser(c, u) == ReadUser(c, u, {"disabled"}, "enable")

\* Mutant: the memberships are forgotten.
DeleteUserOnly(c) ==
  /\ request[c].phase = "delete"
  /\ user' = FlushUser(c, [request[c].loaded_user EXCEPT !.status = "deleted"])
  /\ Ends(c)
  /\ UNCHANGED <<membership, issued, expired>>

\* The user, then every membership of it that is not deleted, in one transaction.
DeleteUser(c) ==
  /\ request[c].phase = "delete"
  /\ user' = FlushUser(c, [request[c].loaded_user EXCEPT !.status = "deleted"])
  /\ membership' = [m \in MembershipId |->
       IF LiveMembership(m) /\ membership[m].user = request[c].user
       THEN [membership[m] EXCEPT !.status = "deleted"] ELSE membership[m]]
  /\ Ends(c)
  /\ UNCHANGED <<issued, expired>>

SaveUser(c, phase, status) ==
  /\ request[c].phase = phase
  /\ user' = FlushUser(c, [request[c].loaded_user EXCEPT !.status = status])
  /\ Ends(c)
  /\ UNCHANGED <<membership, issued, expired>>

\* Mutant: a status outside the enumeration.
EnableUserMisspelt(c) == SaveUser(c, "enable", "enabled")

DisableUser(c) == SaveUser(c, "disable", "disabled")
EnableUser(c) == SaveUser(c, "enable", "active")

-----------------------------------------------------------------------------
(* Time and the check_expired_invitations job *)

TokenExpires(t) ==
  /\ t \in issued \ expired
  /\ expired' = expired \cup {t}
  /\ UNCHANGED <<user, membership, issued, request>>

\* UPDATE ... SET status = invitation-expired WHERE status = invited AND expires_at < now().
\* Mutant: the WHERE clause loses its condition on the status.
ExpirableAnyStatus(m) == membership[m].token \in expired /\ membership[m].status # "invitation-expired"

Expirable(m) == membership[m].status = "invited" /\ membership[m].token \in expired

ExpireInvitations ==
  /\ \E m \in MembershipId : Expirable(m)
  /\ membership' = [m \in MembershipId |->
       IF Expirable(m) THEN [membership[m] EXCEPT !.status = "invitation-expired"]
       ELSE membership[m]]
  /\ UNCHANGED <<user, issued, expired, request>>

-----------------------------------------------------------------------------

Reads(c) ==
  \/ \E email \in Email, a \in AccountId : InviteReadUser(c, email, a)
  \/ InviteCheckMembership(c)
  \/ \E m \in MembershipId : InviteForce(c, m)
  \/ \E m \in MembershipId, password \in Password \cup {None} :
       AcceptReadMembership(c, m, password)
  \/ \E u \in UserId, a \in AccountId : ResendReadUser(c, u, a) \/ RemoveReadMembership(c, u, a)
  \/ ResendReadMembership(c)
  \/ \E u \in UserId :
       \/ AcceptReadUser(c, u)
       \/ DeleteReadUser(c, u) \/ DisableReadUser(c, u) \/ EnableReadUser(c, u)

Writes(c) ==
  \/ \E u \in UserId, m \in MembershipId, t \in Token : Invite(c, u, m, t)
  \/ \E t \in Token : Regenerate(c, t) \/ Resend(c, t)
  \/ Accept(c) \/ AcceptTooLate(c) \/ Remove(c)
  \/ DeleteUser(c) \/ DisableUser(c) \/ EnableUser(c)

Next ==
  \/ \E c \in Client : Reads(c) \/ Writes(c) \/ RequestFails(c)
  \/ \E t \in Token : TokenExpires(t)
  \/ ExpireInvitations

Spec == Init /\ [][Next]_vars

-----------------------------------------------------------------------------
(* Invariants *)

\* What a user needs to log in.
SetUp(row) == row.password # None /\ row.last_used # None

\* Somebody who is active, or disabled and may be enabled again, has set a password and has
\* an account to log in to, and so has every active member of an account: whatever requests
\* overlap, no stale write of a status can let in a user who never accepted an invitation.
Activated ==
  /\ \A u \in UserId : user[u].status \in {"active", "disabled"} => SetUp(user[u])
  /\ \A m \in MembershipId : membership[m].status = "active"
       => /\ SetUp(user[membership[m].user])
          /\ user[membership[m].user].status # "draft"

\* What a session knows of a user it loaded: the row may have changed, but what was set
\* still is, and a user who left draft stays out of it.
UserViewIsSound(u, loaded) ==
  /\ user[u].status # Absent
  /\ loaded.status \in {"active", "disabled"} => SetUp(loaded)
  /\ loaded.password # None => user[u].password # None
  /\ loaded.last_used # None => user[u].last_used # None
  /\ user[u].status = "draft" => loaded.status = "draft"

\* What one session holds, by phase.
SessionIsSound(r) ==
  /\ r.user # None => UserViewIsSound(r.user, r.loaded_user)
  /\ r.membership # None => membership[r.membership].status # Absent
  /\ r.phase \in {"check_invited", "find_token", "accept", "delete", "disable", "enable"}
       => r.user # None
  /\ r.phase \in {"check_invited", "invite"} => r.account # None
  /\ r.phase \in {"regenerate", "resend", "accept", "expire", "remove"} => r.membership # None
  /\ r.phase = "accept" => /\ membership[r.membership].user = r.user
                           /\ membership[r.membership].account = r.loaded.account
                           /\ r.loaded_user.status = "draft" => r.password # None
  /\ r.phase \in {"find_token", "accept"} => r.loaded_user.status \in {"draft", "active"}
  /\ r.phase = "disable" => r.loaded_user.status = "active"
  /\ r.phase = "enable" => r.loaded_user.status = "disabled"

\* With TypeOK and Activated, inductive: however old, what the sessions hold cannot undo an
\* activation, and the foreign keys of the memberships hold.
SessionsAreSound ==
  /\ \A m \in MembershipId : membership[m].status # Absent
       => /\ membership[m].user \in UserId /\ user[membership[m].user].status # Absent
          /\ membership[m].account # None
  /\ \A c \in Client : SessionIsSound(request[c])

-----------------------------------------------------------------------------
(* Refinement: both status columns are StatusRegisters *)

UserMoves ==
  {<<"draft", "active">>, <<"active", "disabled">>, <<"disabled", "active">>,
   <<"draft", "deleted">>, <<"active", "deleted">>, <<"disabled", "deleted">>}

\* A member whose token was regenerated with --force expires by accepting too late.
AccountUserMoves ==
  {<<"invited", "active">>, <<"invited", "invitation-expired">>,
   <<"invitation-expired", "invited">>, <<"invitation-expired", "active">>,
   <<"active", "invitation-expired">>,
   <<"invited", "deleted">>, <<"invitation-expired", "deleted">>, <<"active", "deleted">>}

\* The user row a request may still write, and the membership row.
UserSeenBy(c) == [u \in UserId |->
  IF request[c].user = u /\ request[c].phase \in {"find_token", "accept", "delete", "disable", "enable"}
  THEN request[c].loaded_user.status ELSE Absent]

MembershipSeenBy(c) == [m \in MembershipId |->
  IF request[c].membership = m THEN request[c].loaded.status ELSE Absent]

UserRegister == INSTANCE StatusRegister WITH
  Rows <- UserId, Clients <- Client, Statuses <- UserStatus, Fresh <- {"draft"},
  Moves <- UserMoves, Nothing <- Absent,
  status <- [u \in UserId |-> user[u].status],
  seen <- [c \in Client |-> UserSeenBy(c)]

MembershipRegister == INSTANCE StatusRegister WITH
  Rows <- MembershipId, Clients <- Client, Statuses <- AccountUserStatus, Fresh <- {"invited"},
  Moves <- AccountUserMoves, Nothing <- Absent,
  status <- [m \in MembershipId |-> membership[m].status],
  seen <- [c \in Client |-> MembershipSeenBy(c)]

\* Every user status a request commits is a legal move from the status it loaded.
UsersImplementRegister == UserRegister!Spec

\* The same of memberships; the job and delete_by_user move rows from the status they have.
MembershipsImplementRegister == MembershipRegister!Spec

-----------------------------------------------------------------------------
(* What the code says of itself: kept while requests come one at a time, whatever    *)
(* the job does between their steps, and not by overlapping requests                 *)

\* "if the user is in status DELETE then the account user will be deleted as well"
\* (get_user_by_id, which relies on it).
DeletedUsersBelongNowhere ==
  \A m \in MembershipId : LiveMembership(m) => user[membership[m].user].status # "deleted"

\* "let's fetch the first occurrence of the user with the provided email address"
\* (validate_and_get_user): the look-up, and no constraint, keeps an address to one user; a
\* login and a recovery by address take the first they find as well.
AddressesAreUnique ==
  \A u, v \in UserId : LiveUser(u) /\ LiveUser(v) /\ user[u].email = user[v].email => u = v

\* "HTTP STATUS 400 if the provided user already belongs to the fetched account"
\* (invite_user): get_account_user fails for good where there are two.
BelongsOnce ==
  \A m, n \in MembershipId :
    /\ LiveMembership(m) /\ LiveMembership(n)
    /\ membership[m].user = membership[n].user /\ membership[m].account = membership[n].account
    => m = n

\* "A password cannot be provided for an Active User." (accept_user_invitation): once a user
\* has joined, no acceptance changes the password, whichever invitations are still open.
MembersKeepTheirPassword ==
  [][\A u \in UserId : user[u].status = "active" => user'[u].password = user[u].password]_vars

\* An invitation that is pending or expired has a token, so it can still be accepted or
\* refused for its date (accept_user_invitation finds memberships by token).  Overlapping
\* acceptances can leave one without.
InvitationsHaveTokens ==
  \A m \in MembershipId :
    membership[m].status \in {"invited", "invitation-expired"} => membership[m].token # None

=============================================================================
