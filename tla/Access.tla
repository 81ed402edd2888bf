------------------------------- MODULE Access -------------------------------
(***************************************************************************)
(* How users get in: passwords, access and refresh tokens, the             *)
(* authentication of every request a user makes, password recovery and     *)
(* reset, while the requests of module Memberships change the users and    *)
(* the memberships these steps depend on.                                  *)
(*                                                                         *)
(* Tokens are signed and nowhere stored: a token that is out stays out     *)
(* until its date, whatever becomes of the user.  What protects the API is *)
(* that a token is checked again, against both tables, when it is used.    *)
(* Systems authenticate in module Systems.                                 *)
(***************************************************************************)
EXTENDS Memberships

CONSTANTS
  Login,          \* slots for logins, refreshes, resets and authenticated requests in flight
  RecoveryToken   \* password recovery tokens that may be issued: bounds recoveries

ASSUME AccessAssumption == None \notin RecoveryToken

VARIABLES
  recovery,       \* users.pwd_reset_token, assigned together with its expiry date
  recoveries,     \* recovery tokens handed out so far
  lapsed,         \* those whose expiry date has passed
  access,         \* <<user, account>>: access tokens that are out and have not expired
  refresh,        \* the users with a refresh token that is out and has not expired
  session,        \* what each of the requests in flight holds
  joined          \* history: <<user, account>>, the invitations that were ever accepted

tokens == <<recovery, recoveries, lapsed, access, refresh>>
accessVars == <<vars, tokens, session, joined>>

AccessPhase == {"idle", "login", "identify", "issue", "context", "recover", "reset"}

\* loaded is the user in the session's identity map, password the new one of a reset.
Session == [phase: AccessPhase, user: UserId \cup {None}, loaded: User,
            account: AccountId \cup {None}, password: Password \cup {None}]

NoSession == [phase |-> "idle", user |-> None, loaded |-> NoUser, account |-> None,
              password |-> None]

AccessTypeOK ==
  /\ TypeOK
  /\ recovery \in [UserId -> RecoveryToken \cup {None}]
  /\ recoveries \subseteq RecoveryToken
  /\ lapsed \subseteq recoveries
  /\ access \subseteq UserId \X AccountId
  /\ refresh \subseteq UserId
  /\ session \in [Login -> Session]
  /\ joined \subseteq UserId \X AccountId

AccessInit ==
  /\ Init
  /\ recovery = [u \in UserId |-> None]
  /\ recoveries = {}
  /\ lapsed = {}
  /\ access = {}
  /\ refresh = {}
  /\ session = [l \in Login |-> NoSession]
  /\ joined = {}

-----------------------------------------------------------------------------
(* Steps of a session *)

\* The session goes on with what it has read.
Continues(l, to) ==
  /\ session' = [session EXCEPT ![l] = to]
  /\ UNCHANGED <<vars, tokens, joined>>

\* The commit; the session is over.
Closes(l) == session' = [session EXCEPT ![l] = NoSession]

\* A refusal, a timeout, a dropped connection, a dead worker: rollback.
SessionFails(l) ==
  /\ session[l].phase # "idle"
  /\ Continues(l, NoSession)

\* Mutant: the status of the user is not looked at.
OpensAny(l, u, phase, a) ==
  /\ session[l].phase = "idle"
  /\ Continues(l, [NoSession EXCEPT !.phase = phase, !.user = u, !.loaded = user[u],
                                   !.account = a])

\* The user who is active, for some account.
Opens(l, u, phase, a) ==
  /\ session[l].phase = "idle"
  /\ user[u].status = "active"
  /\ Continues(l, [NoSession EXCEPT !.phase = phase, !.user = u, !.loaded = user[u],
                                   !.account = a])

-----------------------------------------------------------------------------
(* Tokens *)

\* get_tokens_from_credentials: the account of the payload, or the last one used.
LoginReadUser(l, u, password, a) ==
  /\ user[u].password = password
  /\ Opens(l, u, "login", IF a = None THEN user[u].last_used ELSE a)

\* get_tokens_from_refresh: a good token stands for the password.
RefreshReadUser(l, u, a) ==
  /\ u \in refresh
  /\ Opens(l, u, "login", a)

\* get_authentication_context_for_account_user: the access token names its account.
AuthenticateReadUser(l, u, a) ==
  /\ <<u, a>> \in access
  /\ Opens(l, u, "identify", a)

\* get_account_user with status = active, which fails when there is more than one.
ActiveMemberships(u, a) ==
  {m \in MembershipId : /\ membership[m].status = "active"
                        /\ membership[m].user = u /\ membership[m].account = a}

\* Mutant: a membership in any status will do.
ReadMembershipAny(l) ==
  LET s == session[l] IN
  /\ s.phase \in {"login", "identify"}
  /\ \E m \in MembershipId : membership[m].user = s.user /\ membership[m].account = s.account
  /\ Continues(l, [s EXCEPT !.phase = IF @ = "login" THEN "issue" ELSE "context"])

\* What all three go on with.
ReadMembership(l) ==
  LET s == session[l] IN
  /\ s.phase \in {"login", "identify"}
  /\ \E m \in MembershipId : ActiveMemberships(s.user, s.account) = {m}
  /\ Continues(l, [s EXCEPT !.phase = IF @ = "login" THEN "issue" ELSE "context"])

\* Mutant: the whole row is written, not the columns that changed.
IssueWholeRow(l) ==
  LET s == session[l] IN
  /\ s.phase = "issue"
  /\ user' = [user EXCEPT ![s.user] = [s.loaded EXCEPT !.last_used = s.account]]
  /\ access' = access \cup {<<s.user, s.account>>}
  /\ refresh' = refresh \cup {s.user}
  /\ Closes(l)
  /\ UNCHANGED <<membership, issued, expired, request, recovery, recoveries, lapsed, joined>>

\* The last account used is saved and both tokens are handed out.
Issue(l) ==
  LET s == session[l] IN
  /\ s.phase = "issue"
  /\ user' = [user EXCEPT ![s.user] =
                Flush(@, s.loaded, [s.loaded EXCEPT !.last_used = s.account])]
  /\ access' = access \cup {<<s.user, s.account>>}
  /\ refresh' = refresh \cup {s.user}
  /\ Closes(l)
  /\ UNCHANGED <<membership, issued, expired, request, recovery, recoveries, lapsed, joined>>

\* The handler behind the authentication has run; what it does is in the other modules.
Respond(l) ==
  /\ session[l].phase = "context"
  /\ Continues(l, NoSession)

-----------------------------------------------------------------------------
(* Recovery *)

\* start_reset_password_flow: nothing happens while a token is still good.
RecoverReadUser(l, u) ==
  /\ recovery[u] \in lapsed \cup {None}
  /\ Opens(l, u, "recover", None)

Recover(l, r) ==
  /\ session[l].phase = "recover"
  /\ r \notin recoveries
  /\ recovery' = [recovery EXCEPT ![session[l].user] = r]
  /\ recoveries' = recoveries \cup {r}
  /\ Closes(l)
  /\ UNCHANGED <<vars, lapsed, access, refresh, joined>>

\* reset_user_password, with the token the user has been given.
ResetReadUser(l, u, r, password) ==
  /\ session[l].phase = "idle"
  /\ user[u].status = "active"
  /\ recovery[u] = r
  /\ r \notin lapsed
  /\ Continues(l, [NoSession EXCEPT !.phase = "reset", !.user = u, !.loaded = user[u],
                                   !.password = password])

\* The hash has a new salt, so the column is written even if the password is the old one.
\* The token remains.
Reset(l) ==
  LET s == session[l] IN
  /\ s.phase = "reset"
  /\ user' = [user EXCEPT ![s.user] = [Flush(@, s.loaded, s.loaded) EXCEPT !.password = s.password]]
  /\ Closes(l)
  /\ UNCHANGED <<membership, issued, expired, request, tokens, joined>>

-----------------------------------------------------------------------------
(* Time *)

RecoveryLapses(r) ==
  /\ r \in recoveries \ lapsed
  /\ lapsed' = lapsed \cup {r}
  /\ UNCHANGED <<vars, recovery, recoveries, access, refresh, session, joined>>

AccessExpires(u, a) ==
  /\ <<u, a>> \in access
  /\ access' = access \ {<<u, a>>}
  /\ UNCHANGED <<vars, recovery, recoveries, lapsed, refresh, session, joined>>

RefreshExpires(u) ==
  /\ u \in refresh
  /\ refresh' = refresh \ {u}
  /\ UNCHANGED <<vars, recovery, recoveries, lapsed, access, session, joined>>

-----------------------------------------------------------------------------

SessionReads(l) ==
  \/ \E u \in UserId, password \in Password, a \in AccountId \cup {None} :
       LoginReadUser(l, u, password, a)
  \/ \E u \in UserId, a \in AccountId : RefreshReadUser(l, u, a) \/ AuthenticateReadUser(l, u, a)
  \/ \E u \in UserId : RecoverReadUser(l, u)
  \/ \E u \in UserId, r \in RecoveryToken, password \in Password :
       ResetReadUser(l, u, r, password)

SessionSteps(l) ==
  \/ ReadMembership(l)
  \/ Issue(l) \/ Respond(l) \/ Reset(l)
  \/ \E r \in RecoveryToken : Recover(l, r)
  \/ SessionFails(l)

\* Who accepts an invitation in this step, and to which account: the membership's.
Acceptances ==
  {<<request[c].user, request[c].loaded.account>> : c \in {d \in Client : Accept(d)}}

AccessNext ==
  \/ \E l \in Login : SessionReads(l) \/ SessionSteps(l)
  \/ \E r \in RecoveryToken : RecoveryLapses(r)
  \/ \E u \in UserId, a \in AccountId : AccessExpires(u, a)
  \/ \E u \in UserId : RefreshExpires(u)
  \/ /\ Next
     /\ joined' = joined \cup Acceptances
     /\ UNCHANGED <<tokens, session>>

AccessSpec == AccessInit /\ [][AccessNext]_accessVars

-----------------------------------------------------------------------------
(* Safety *)

\* Tokens belong to users who have accepted an invitation to the very account they are for,
\* and so does the account a login goes to when it names none: an invitation that is pending,
\* to a second account of a user who is active for a first one, opens nothing, however old
\* what a login, a refresh or an acceptance has read is when it writes.
TokensAreFounded ==
  /\ access \subseteq joined
  /\ \A u \in refresh : \E a \in AccountId : <<u, a>> \in joined
  /\ \A u \in UserId : user[u].last_used # None => <<u, user[u].last_used>> \in joined

\* Whoever is an active member has accepted the invitation: no stale write of a membership
\* makes one active that never was.
MembersHaveJoined ==
  \A m \in MembershipId :
    membership[m].status = "active" => <<membership[m].user, membership[m].account>> \in joined

\* What one session holds: a user that was active when it was loaded, and by the time it has
\* seen the membership, one who has joined the account.
SessionHolds(s) ==
  /\ s.phase # "idle" => /\ s.user # None
                         /\ user[s.user].status \notin {Absent, "draft"}
                         /\ s.loaded.status = "active" /\ SetUp(s.loaded)
                         /\ SetUp(user[s.user])
  /\ s.phase \in {"issue", "context"} => <<s.user, s.account>> \in joined
  /\ s.phase = "reset" => s.password # None

AccessSessionsAreSound == \A l \in Login : SessionHolds(session[l])

\* A password is replaced by the reset or the acceptance that carries the new one, and by
\* nothing else: a login that has verified the old password while it was being reset does
\* not bring it back with what it saves.
PasswordsAreChosen ==
  [][\A u \in UserId : user'[u].password # user[u].password =>
       \/ \E l \in Login : /\ session[l].phase = "reset" /\ session'[l].phase = "idle"
                           /\ session[l].user = u /\ session[l].password = user'[u].password
       \/ \E c \in Client : /\ request[c].phase = "accept" /\ request'[c].phase = "idle"
                            /\ request[c].user = u /\ request[c].password = user'[u].password
    ]_accessVars

-----------------------------------------------------------------------------
(* Liveness *)

\* A session that has begun ends, and time passes.
AccessFairness ==
  /\ \A l \in Login : WF_accessVars(SessionSteps(l))
  /\ \A u \in UserId, a \in AccountId : WF_accessVars(AccessExpires(u, a))

FairAccessSpec == AccessSpec /\ AccessFairness

Acting(u, a) ==
  \/ <<u, a>> \in access
  \/ \E l \in Login : /\ session[l].phase \in {"issue", "context"}
                      /\ session[l].user = u /\ session[l].account = a

\* Nobody is told when a user is disabled or deleted or loses a membership, and refresh
\* tokens go on for days; yet somebody for whom that is final acts for the account no more
\* once the access token that was out has expired.
RevocationEndsAccess ==
  \A u \in UserId, a \in AccountId :
    \/ <>[](user[u].status # "active")
    \/ <>[](ActiveMemberships(u, a) = {})
    => <>[]~Acting(u, a)

=============================================================================
