------------------------- MODULE Memberships_proofs -------------------------
(***************************************************************************)
(* For every number of users, memberships, tokens and requests in flight:  *)
(* type correctness, that nobody is active without having accepted an      *)
(* invitation, and that both status columns are StatusRegisters.  Then,    *)
(* while requests come one at a time (OneAtATime) and the job runs at any  *)
(* moment between their steps: addresses and memberships are unique,       *)
(* deleted users belong nowhere, open invitations have tokens, members     *)
(* keep their password, and statuses follow their life cycles.             *)
(***************************************************************************)
EXTENDS Memberships, TLAPS

\* The inductive invariant: sessions are sound because committed rows only evolve.
Inv == TypeOK /\ Activated /\ SessionsAreSound

-----------------------------------------------------------------------------
(* Rows and flushes *)

LEMMA RowsAreTyped ==
  /\ NoUser \in User /\ NoUser.status = Absent
  /\ NoMembership \in AccountUser /\ NoMembership.status = Absent
  /\ Idle \in Request /\ Idle.phase = "idle" /\ Idle.user = None /\ Idle.membership = None
BY DEF NoUser, User, NoMembership, AccountUser, Absent, Idle, Request, Phase

LEMMA FlushUserColumns ==
  ASSUME NEW row \in User, NEW loaded \in User, NEW assigned \in User
  PROVE  LET new == Flush(row, loaded, assigned) IN
         /\ new \in User
         /\ new.status = IF assigned.status = loaded.status THEN row.status ELSE assigned.status
         /\ new.password = IF assigned.password = loaded.password
                           THEN row.password ELSE assigned.password
         /\ new.last_used = IF assigned.last_used = loaded.last_used
                            THEN row.last_used ELSE assigned.last_used
         /\ assigned.email = loaded.email => new.email = row.email
BY DEF Flush, User

LEMMA FlushMembershipColumns ==
  ASSUME NEW row \in AccountUser, NEW loaded \in AccountUser, NEW assigned \in AccountUser
  PROVE  LET new == Flush(row, loaded, assigned) IN
         /\ new \in AccountUser
         /\ new.status = IF assigned.status = loaded.status THEN row.status ELSE assigned.status
         /\ assigned.user = loaded.user => new.user = row.user
         /\ assigned.account = loaded.account => new.account = row.account
         /\ new.token = IF assigned.token = loaded.token THEN row.token ELSE assigned.token
BY DEF Flush, AccountUser

-----------------------------------------------------------------------------
(* The two kinds of step *)

\* A request that read something goes on, and what it holds is sound.
LEMMA GoesInv ==
  ASSUME Inv, NEW c \in Client, NEW to \in Request, SessionIsSound(to), Goes(c, to)
  PROVE  Inv'
<1>1. UNCHANGED <<user, membership, issued, expired>> /\ request' = [request EXCEPT ![c] = to]
  BY DEF Goes
<1>2. TypeOK'
  BY <1>1 DEF Inv, TypeOK
<1>3. Activated'
  BY <1>1 DEF Inv, Activated
<1>4. SessionsAreSound'
  BY <1>1 DEF Inv, TypeOK, SessionsAreSound, SessionIsSound, UserViewIsSound
<1>5. QED
  BY <1>2, <1>3, <1>4 DEF Inv

\* Committed users: what was set stays set, draft is left for good, nobody disappears.
UsersEvolve ==
  /\ user' \in [UserId -> User]
  /\ \A u \in UserId :
       /\ user'[u].status \in {"active", "disabled"} => SetUp(user'[u])
       /\ user[u].status # Absent => /\ user'[u].status # Absent
                                     /\ user[u].password # None => user'[u].password # None
                                     /\ user[u].last_used # None => user'[u].last_used # None
                                     /\ user'[u].status = "draft" => user[u].status = "draft"

\* Committed memberships stay with their user, who exists and, of an active one, is activated.
MembershipsEvolve ==
  /\ membership' \in [MembershipId -> AccountUser]
  /\ \A m \in MembershipId :
       /\ membership[m].status # Absent => /\ membership'[m].status # Absent
                                           /\ membership'[m].user = membership[m].user
                                           /\ membership'[m].account = membership[m].account
       /\ membership'[m].status # Absent => /\ membership'[m].user \in UserId
                                            /\ user'[membership'[m].user].status # Absent
                                            /\ membership'[m].account # None
       /\ membership'[m].status = "active" => /\ SetUp(user'[membership'[m].user])
                                              /\ user'[membership'[m].user].status # "draft"

\* The account a user has used last stays, or is the one the user joins.
LastUsedEvolves ==
  \A u \in UserId :
    \/ user'[u].last_used \in {user[u].last_used, None}
    \/ \E c \in Client : /\ Accept(c) /\ request[c].user = u
                        /\ request[c].loaded.account = user'[u].last_used

\* What every step does to the tables.
Evolves == UsersEvolve /\ MembershipsEvolve /\ LastUsedEvolves

\* Rows that evolve leave every session sound.
LEMMA EvolveInv ==
  ASSUME Inv, UsersEvolve, MembershipsEvolve,
         issued' \subseteq Token, expired' \subseteq issued',
         \/ UNCHANGED request
         \/ \E c \in Client : request' = [request EXCEPT ![c] = Idle]
  PROVE  Inv'
<1>1. /\ request' \in [Client -> Request]
      /\ \A c \in Client : request'[c] = request[c] \/ request'[c] = Idle
  BY RowsAreTyped DEF Inv, TypeOK
<1>2. TypeOK'
  BY <1>1 DEF TypeOK, UsersEvolve, MembershipsEvolve
<1>3. Activated'
  BY DEF Activated, UsersEvolve, MembershipsEvolve
<1>4. ASSUME NEW c \in Client PROVE SessionIsSound(request[c])'
  <2>1. CASE request'[c] = Idle
    BY <2>1, RowsAreTyped DEF SessionIsSound
  <2>2. CASE request'[c] = request[c]
    <3>1. request[c] \in Request /\ SessionIsSound(request[c])
      BY DEF Inv, TypeOK, SessionsAreSound
    <3>2. request[c].user # None => UserViewIsSound(request[c].user, request[c].loaded_user)'
      BY <2>2, <3>1 DEF SessionIsSound, UserViewIsSound, UsersEvolve, Request
    <3>3. request[c].membership # None =>
            /\ membership'[request[c].membership].status # Absent
            /\ membership'[request[c].membership].user = membership[request[c].membership].user
            /\ membership'[request[c].membership].account
                 = membership[request[c].membership].account
      BY <3>1 DEF SessionIsSound, MembershipsEvolve, Request
    <3>4. QED
      BY <2>2, <3>1, <3>2, <3>3 DEF SessionIsSound, UserViewIsSound
  <2>3. QED
    BY <1>1, <2>1, <2>2
<1>5. SessionsAreSound'
  BY <1>4 DEF SessionsAreSound, MembershipsEvolve
<1>6. QED
  BY <1>2, <1>3, <1>5 DEF Inv

\* Rows that do not change evolve.
LEMMA SameUsersEvolve ==
  ASSUME Inv, UNCHANGED user PROVE UsersEvolve /\ LastUsedEvolves
BY DEF Inv, TypeOK, Activated, SetUp, UsersEvolve, LastUsedEvolves

LEMMA SameMembershipsEvolve ==
  ASSUME Inv, UsersEvolve, UNCHANGED membership PROVE MembershipsEvolve
BY DEF Inv, TypeOK, Activated, SetUp, SessionsAreSound, UsersEvolve, MembershipsEvolve, Absent

LEMMA ReadingEvolves ==
  ASSUME Inv, UNCHANGED <<user, membership>> PROVE Evolves
BY SameUsersEvolve, SameMembershipsEvolve DEF Evolves

\* A flush of a membership that some session loaded, the users evolving with it.
LEMMA FlushMembershipEvolves ==
  ASSUME Inv, UsersEvolve, NEW c \in Client, request[c].membership # None,
         NEW assigned \in AccountUser,
         membership' = FlushMembership(c, assigned),
         assigned.user = request[c].loaded.user,
         assigned.account = request[c].loaded.account,
         assigned.status = request[c].loaded.status \/ assigned.status # Absent,
         LET u == membership[request[c].membership].user IN
           assigned.status = "active" /\ request[c].loaded.status # "active"
             => SetUp(user'[u]) /\ user'[u].status # "draft"
  PROVE  MembershipsEvolve
<1> DEFINE m == request[c].membership
           new == Flush(membership[m], request[c].loaded, assigned)
<1>1. /\ m \in MembershipId /\ membership[m] \in AccountUser /\ request[c].loaded \in AccountUser
      /\ membership[m].status # Absent
      /\ membership[m].user \in UserId /\ user[membership[m].user].status # Absent
      /\ membership[m].account # None
  BY DEF Inv, TypeOK, Request, SessionsAreSound, SessionIsSound
<1>2. membership' = [membership EXCEPT ![m] = new]
  BY DEF FlushMembership
<1>3. /\ new \in AccountUser /\ new.user = membership[m].user
      /\ new.account = membership[m].account
      /\ new.status # Absent
      /\ new.status = "active" => \/ membership[m].status = "active"
                                  \/ /\ SetUp(user'[membership[m].user])
                                     /\ user'[membership[m].user].status # "draft"
  BY <1>1, FlushMembershipColumns
<1> HIDE DEF m, new
<1>4. QED
  BY <1>1, <1>2, <1>3
     DEF Inv, TypeOK, Activated, SetUp, SessionsAreSound, UsersEvolve, MembershipsEvolve, Absent

\* A flush of a user whose assigned status is not draft.
LEMMA FlushUserEvolves ==
  ASSUME Inv, NEW c \in Client, request[c].user # None, NEW assigned \in User,
         user' = FlushUser(c, assigned),
         assigned.status \notin {Absent, "draft", request[c].loaded_user.status},
         assigned.password = request[c].loaded_user.password \/ assigned.password # None,
         assigned.last_used = request[c].loaded_user.last_used \/ assigned.last_used # None,
         assigned.status \in {"active", "disabled"} => SetUp(assigned)
  PROVE  /\ UsersEvolve
         /\ user'[request[c].user].status = assigned.status
         /\ \A u \in UserId :
              \/ user'[u].last_used = user[u].last_used
              \/ /\ u = request[c].user
                 /\ user'[u].last_used = assigned.last_used
                 /\ assigned.last_used # request[c].loaded_user.last_used
<1> DEFINE u == request[c].user
           loaded == request[c].loaded_user
           new == Flush(user[u], loaded, assigned)
<1>1. /\ u \in UserId /\ user[u] \in User /\ loaded \in User
      /\ UserViewIsSound(u, loaded)
  BY DEF Inv, TypeOK, Request, SessionsAreSound, SessionIsSound
<1>2. user' = [user EXCEPT ![u] = new]
  BY DEF FlushUser
<1>3. /\ new \in User /\ new.status = assigned.status
      /\ new.password = IF assigned.password = loaded.password
                        THEN user[u].password ELSE assigned.password
      /\ new.last_used = IF assigned.last_used = loaded.last_used
                         THEN user[u].last_used ELSE assigned.last_used
  BY <1>1, FlushUserColumns
<1>4. /\ user[u].password # None => new.password # None
      /\ user[u].last_used # None => new.last_used # None
      /\ new.status \in {"active", "disabled"} => SetUp(new)
  BY <1>1, <1>3 DEF UserViewIsSound, SetUp
<1>5. assigned.last_used = loaded.last_used => new.last_used = user[u].last_used
  BY <1>3
<1>6. assigned.last_used # loaded.last_used => new.last_used = assigned.last_used
  BY <1>3
<1> HIDE DEF new
<1>7. user'[u] = new /\ \A v \in UserId \ {u} : user'[v] = user[v]
  BY <1>1, <1>2 DEF Inv, TypeOK
<1>8. ASSUME NEW v \in UserId
      PROVE  \/ user'[v].last_used = user[v].last_used
             \/ /\ v = u
                /\ user'[v].last_used = assigned.last_used
                /\ assigned.last_used # loaded.last_used
  BY <1>5, <1>6, <1>7
<1>9. UsersEvolve
  <2> HIDE DEF loaded
  <2>1. QED
    BY <1>1, <1>2, <1>3, <1>4 DEF Inv, TypeOK, Activated, SetUp, UsersEvolve, u
<1>10. QED
  BY <1>3, <1>7, <1>8, <1>9

-----------------------------------------------------------------------------
(* Reading steps *)

LEMMA LoadedUser ==
  ASSUME Inv, NEW u \in UserId, user[u].status # Absent
  PROVE  user[u] \in User /\ UserViewIsSound(u, user[u])
BY DEF Inv, TypeOK, Activated, UserViewIsSound

LEMMA InviteReadUserInv ==
  ASSUME Inv, NEW c \in Client, NEW email \in Email, NEW a \in AccountId,
         InviteReadUser(c, email, a)
  PROVE  Inv'
<1>1. CASE Goes(c, [Idle EXCEPT !.phase = "invite", !.email = email, !.account = a])
  <2> DEFINE to == [Idle EXCEPT !.phase = "invite", !.email = email, !.account = a]
  <2>1. /\ to \in Request /\ to.phase = "invite" /\ to.user = None /\ to.membership = None
        /\ to.account = a /\ a # None
    BY RowsAreTyped, MembershipsAssumption DEF Idle, Request, Phase
  <2>2. SessionIsSound(to)
    BY <2>1 DEF SessionIsSound
  <2>3. QED
    BY <1>1, <2>1, <2>2, GoesInv
<1>2. ASSUME NEW u \in Known(email),
             Goes(c, [LoadUser(u, "check_invited") EXCEPT !.email = email, !.account = a])
      PROVE  Inv'
  <2> DEFINE to == [LoadUser(u, "check_invited") EXCEPT !.email = email, !.account = a]
  <2>1. u \in UserId /\ user[u].status # Absent
    BY DEF Known, LiveUser
  <2>2. /\ to \in Request /\ to.phase = "check_invited" /\ to.user = u
        /\ to.loaded_user = user[u] /\ to.membership = None /\ to.account = a
    BY <2>1, LoadedUser, RowsAreTyped DEF LoadUser, Idle, Request, Phase
  <2>3. SessionIsSound(to)
    BY <2>1, <2>2, LoadedUser, MembershipsAssumption DEF SessionIsSound
  <2>4. QED
    BY <1>2, <2>2, <2>3, GoesInv
<1>3. QED
  BY <1>1, <1>2 DEF InviteReadUser

\* A request that loads a user to do something with it.
LEMMA ReadUserInv ==
  ASSUME Inv, NEW c \in Client, NEW u \in UserId, NEW phase, NEW to, Goes(c, to),
         \/ to = LoadUser(u, phase)
         \/ \E a \in AccountId : to = [LoadUser(u, phase) EXCEPT !.account = a],
         user[u].status # Absent,
         \/ phase \in {"find_invitation", "delete"}
         \/ phase = "find_token" /\ user[u].status \in {"draft", "active"}
         \/ phase = "disable" /\ user[u].status = "active"
         \/ phase = "enable" /\ user[u].status = "disabled"
  PROVE  Inv'
<1>1. /\ to \in Request /\ to.phase = phase /\ to.user = u
      /\ to.loaded_user = user[u] /\ to.membership = None
  BY LoadedUser, RowsAreTyped DEF LoadUser, Idle, Request, Phase
<1>2. SessionIsSound(to)
  BY <1>1, LoadedUser, MembershipsAssumption DEF SessionIsSound
<1>3. QED
  BY <1>1, <1>2, GoesInv

\* A request that loads a membership to do something else with it than accept it.
LEMMA ReadMembershipInv ==
  ASSUME Inv, NEW c \in Client, NEW m \in MembershipId, NEW phase,
         Goes(c, LoadMembership(c, m, phase)), LiveMembership(m),
         phase \in {"regenerate", "resend", "expire", "remove"}
  PROVE  Inv'
<1> DEFINE to == LoadMembership(c, m, phase)
<1>1. request[c] \in Request /\ SessionIsSound(request[c]) /\ membership[m].status # Absent
  BY DEF Inv, TypeOK, SessionsAreSound, LiveMembership
<1>2. /\ to \in Request /\ to.phase = phase /\ to.membership = m
      /\ to.user = request[c].user /\ to.loaded_user = request[c].loaded_user
  BY <1>1 DEF LoadMembership, Request, Phase, Inv, TypeOK
<1>3. SessionIsSound(to)
  BY <1>1, <1>2, MembershipsAssumption DEF SessionIsSound
<1>4. QED
  BY <1>2, <1>3, GoesInv

\* One that is to accept it has loaded its user, and carries a password for a draft user.
LEMMA AcceptReadMembershipInv ==
  ASSUME Inv, NEW c \in Client, NEW m \in MembershipId, NEW password \in Password \cup {None},
         AcceptReadMembership(c, m, password)
  PROVE  Inv'
<1>1. CASE Goes(c, LoadMembership(c, m, "expire"))
  BY <1>1, ReadMembershipInv DEF AcceptReadMembership
<1>2. CASE /\ request[c].loaded_user.status = "draft" <=> password # None
           /\ Goes(c, [LoadMembership(c, m, "accept") EXCEPT !.password = password])
  <2> DEFINE to == [LoadMembership(c, m, "accept") EXCEPT !.password = password]
  <2>1. /\ request[c] \in Request /\ SessionIsSound(request[c])
        /\ request[c].phase = "find_token" /\ membership[m].user = request[c].user
        /\ membership[m].status # Absent /\ membership[m].account # None
    BY DEF Inv, TypeOK, SessionsAreSound, LiveMembership, AcceptReadMembership
  <2>2. /\ to \in Request /\ to.phase = "accept" /\ to.membership = m
        /\ to.user = request[c].user /\ to.loaded_user = request[c].loaded_user
        /\ to.password = password /\ to.loaded = membership[m]
    BY <2>1 DEF LoadMembership, Request, Phase, Inv, TypeOK
  <2>3. SessionIsSound(to)
    BY <1>2, <2>1, <2>2, MembershipsAssumption DEF SessionIsSound
  <2>4. QED
    BY <1>2, <2>2, <2>3, GoesInv
<1>3. QED
  BY <1>1, <1>2 DEF AcceptReadMembership

LEMMA EndsReadingInv ==
  ASSUME Inv, NEW c \in Client, Goes(c, Idle)
  PROVE  Inv'
<1>1. SessionIsSound(Idle)
  BY RowsAreTyped DEF SessionIsSound
<1>2. QED
  BY <1>1, RowsAreTyped, GoesInv

LEMMA InviteCheckMembershipInv ==
  ASSUME Inv, NEW c \in Client, InviteCheckMembership(c)
  PROVE  Inv'
<1>1. CASE Goes(c, Idle)
  BY <1>1, EndsReadingInv
<1>2. CASE Goes(c, [request[c] EXCEPT !.phase = "invite"])
  <2> DEFINE to == [request[c] EXCEPT !.phase = "invite"]
  <2>1. request[c] \in Request /\ SessionIsSound(request[c])
    BY DEF Inv, TypeOK, SessionsAreSound
  <2>2. /\ to \in Request /\ to.phase = "invite" /\ to.membership = request[c].membership
        /\ to.user = request[c].user /\ to.loaded_user = request[c].loaded_user
        /\ to.account = request[c].account /\ request[c].phase = "check_invited"
    BY <2>1 DEF Request, Phase, InviteCheckMembership
  <2>3. SessionIsSound(to)
    BY <2>1, <2>2 DEF SessionIsSound
  <2>4. QED
    BY <1>2, <2>2, <2>3, GoesInv
<1>3. QED
  BY <1>1, <1>2 DEF InviteCheckMembership

LEMMA ReadsInv ==
  ASSUME Inv, NEW c \in Client, Reads(c)
  PROVE  Inv'
<1>1. ASSUME NEW email \in Email, NEW a \in AccountId, InviteReadUser(c, email, a)
      PROVE  Inv'
  BY <1>1, InviteReadUserInv
<1>2. CASE InviteCheckMembership(c)
  BY <1>2, InviteCheckMembershipInv
<1>3. ASSUME NEW m \in MembershipId, InviteForce(c, m)
      PROVE  Inv'
  BY <1>3, ReadMembershipInv DEF InviteForce, LiveMembershipsOf
<1>4. ASSUME NEW m \in MembershipId, NEW password \in Password \cup {None},
             AcceptReadMembership(c, m, password)
      PROVE  Inv'
  BY <1>4, AcceptReadMembershipInv
<1>5. ASSUME NEW u \in UserId, NEW a \in AccountId, ResendReadUser(c, u, a)
      PROVE  Inv'
  BY <1>5, ReadUserInv DEF ResendReadUser, LiveUser
<1>6. ASSUME NEW u \in UserId, NEW a \in AccountId, RemoveReadMembership(c, u, a)
      PROVE  Inv'
  BY <1>6, ReadMembershipInv DEF RemoveReadMembership, LiveMembershipsOf
<1>7. CASE ResendReadMembership(c)
  BY <1>7, ReadMembershipInv DEF ResendReadMembership, LiveMembershipsOf
<1>8. ASSUME NEW u \in UserId, AcceptReadUser(c, u)
      PROVE  Inv'
  BY <1>8, ReadUserInv DEF AcceptReadUser, Absent
<1>9. ASSUME NEW u \in UserId,
             DeleteReadUser(c, u) \/ DisableReadUser(c, u) \/ EnableReadUser(c, u)
      PROVE  Inv'
  BY <1>9, ReadUserInv
     DEF DeleteReadUser, DisableReadUser, EnableReadUser, ReadUser, Absent
<1>10. QED
  BY <1>1, <1>2, <1>3, <1>4, <1>5, <1>6, <1>7, <1>8, <1>9 DEF Reads

-----------------------------------------------------------------------------
(* Writing steps *)

LEMMA InviteInv ==
  ASSUME Inv, NEW c \in Client, NEW u \in UserId, NEW m \in MembershipId, NEW t \in Token,
         Invite(c, u, m, t)
  PROVE  Inv' /\ Evolves
<1> DEFINE draft == [NoUser EXCEPT !.status = "draft", !.email = request[c].email]
           row == [status |-> "invited", account |-> request[c].account, user |-> u, token |-> t]
<1>1. request[c] \in Request /\ SessionIsSound(request[c]) /\ request[c].phase = "invite"
  BY DEF Invite, Inv, TypeOK, SessionsAreSound
<1>2. /\ draft \in User /\ draft.status = "draft" /\ draft.last_used = None
      /\ row \in AccountUser /\ row.status = "invited" /\ row.user = u
      /\ row.account # None
  BY <1>1 DEF SessionIsSound, NoUser, User, UserStatus, AccountUser, AccountUserStatus, Request
<1>3. /\ membership' = [membership EXCEPT ![m] = row] /\ membership[m].status = Absent
      /\ issued' \subseteq Token /\ expired' \subseteq issued'
      /\ request' = [request EXCEPT ![c] = Idle]
  BY DEF Invite, Ends, Inv, TypeOK
<1>4. UsersEvolve /\ LastUsedEvolves /\ user'[u].status # Absent
  <2>1. CASE request[c].user = None
    <3>1. user[u].status = Absent /\ user' = [user EXCEPT ![u] = draft]
      BY <2>1 DEF Invite
    <3> HIDE DEF draft
    <3>2. QED
      BY <1>2, <3>1 DEF Inv, TypeOK, Activated, SetUp, UsersEvolve, LastUsedEvolves, Absent
  <2>2. CASE request[c].user # None
    <3>1. u = request[c].user /\ UNCHANGED user
      BY <2>2 DEF Invite
    <3>2. user[u].status # Absent
      BY <1>1, <2>2, <3>1 DEF SessionIsSound, UserViewIsSound
    <3>3. QED
      BY <3>1, <3>2, SameUsersEvolve
  <2>3. QED
    BY <2>1, <2>2
<1> HIDE DEF row
<1>5. MembershipsEvolve
  BY <1>2, <1>3, <1>4
     DEF Inv, TypeOK, Activated, SetUp, SessionsAreSound, UsersEvolve, MembershipsEvolve, Absent
<1>6. QED
  BY <1>3, <1>4, <1>5, EvolveInv DEF Evolves

\* Writes of a loaded membership alone, to a status other than active.
LEMMA SaveMembershipInv ==
  ASSUME Inv, NEW c \in Client, request[c].membership # None,
         NEW assigned \in AccountUser, membership' = FlushMembership(c, assigned),
         assigned.user = request[c].loaded.user,
         assigned.account = request[c].loaded.account,
         assigned.status = request[c].loaded.status \/ assigned.status # "active",
         assigned.status = request[c].loaded.status \/ assigned.status # Absent,
         UNCHANGED user, Ends(c), issued' \subseteq Token, expired' \subseteq issued'
  PROVE  Inv' /\ Evolves
<1>1. UsersEvolve /\ LastUsedEvolves
  BY SameUsersEvolve
<1>2. MembershipsEvolve
  BY <1>1, FlushMembershipEvolves
<1>3. QED
  BY <1>1, <1>2, EvolveInv DEF Ends, Evolves

\* Writes of a loaded user alone.
LEMMA SaveUserInv ==
  ASSUME Inv, NEW c \in Client, NEW phase, NEW status, SaveUser(c, phase, status),
         \/ phase = "disable" /\ status = "disabled"
         \/ phase = "enable" /\ status = "active"
  PROVE  Inv' /\ Evolves
<1> DEFINE assigned == [request[c].loaded_user EXCEPT !.status = status]
<1>1. /\ request[c].phase = phase /\ user' = FlushUser(c, assigned)
      /\ Ends(c) /\ UNCHANGED <<membership, issued, expired>>
  BY DEF SaveUser
<1>2. /\ request[c] \in Request /\ request[c].user # None
      /\ request[c].loaded_user.status \in {"active", "disabled"} \ {status}
      /\ SetUp(request[c].loaded_user)
  BY <1>1 DEF Inv, TypeOK, SessionsAreSound, SessionIsSound, UserViewIsSound
<1>3. /\ assigned \in User /\ assigned.status = status
      /\ assigned.password = request[c].loaded_user.password
      /\ assigned.last_used = request[c].loaded_user.last_used /\ SetUp(assigned)
  BY <1>2 DEF SetUp, Request, User, UserStatus
<1>4. UsersEvolve /\ LastUsedEvolves
  <2> HIDE DEF assigned
  <2>1. QED
    BY <1>1, <1>2, <1>3, FlushUserEvolves DEF Absent, LastUsedEvolves
<1>5. MembershipsEvolve
  BY <1>1, <1>4 DEF Inv, TypeOK, Activated, SetUp, SessionsAreSound, UsersEvolve, MembershipsEvolve, Absent
<1>6. QED
  BY <1>1, <1>4, <1>5, EvolveInv DEF Ends, Inv, TypeOK, Evolves

LEMMA MembershipWritesInv ==
  ASSUME Inv, NEW c \in Client,
         \/ AcceptTooLate(c) \/ Remove(c)
         \/ \E t \in Token : Regenerate(c, t) \/ Resend(c, t)
  PROVE  Inv' /\ Evolves
<1> DEFINE loaded == request[c].loaded
<1>1. /\ loaded \in AccountUser /\ issued' \subseteq Token /\ expired' \subseteq issued'
      /\ request[c].membership # None
      /\ UNCHANGED user /\ Ends(c)
  <2>1. request[c] \in Request /\ SessionIsSound(request[c])
    BY DEF Inv, TypeOK, SessionsAreSound
  <2>2. request[c].phase \in {"regenerate", "resend", "expire", "remove"}
    BY DEF AcceptTooLate, Remove, Regenerate, Resend
  <2>3. QED
    BY <2>1, <2>2
       DEF SessionIsSound, Request, AcceptTooLate, Remove, Regenerate, Resend, Inv, TypeOK
<1>2. CASE AcceptTooLate(c)
  <2> DEFINE assigned == [loaded EXCEPT !.status = "invitation-expired"]
  <2>1. /\ assigned \in AccountUser /\ assigned.status = "invitation-expired"
        /\ assigned.user = loaded.user
        /\ assigned.account = loaded.account
    BY <1>1 DEF AccountUser, AccountUserStatus
  <2>2. membership' = FlushMembership(c, assigned)
    BY <1>2 DEF AcceptTooLate
  <2> HIDE DEF assigned
  <2>3. QED
    BY <1>1, <2>1, <2>2, SaveMembershipInv DEF Absent
<1>3. CASE Remove(c)
  <2> DEFINE assigned == [loaded EXCEPT !.status = "deleted"]
  <2>1. /\ assigned \in AccountUser /\ assigned.status = "deleted"
        /\ assigned.user = loaded.user
        /\ assigned.account = loaded.account
    BY <1>1 DEF AccountUser, AccountUserStatus
  <2>2. membership' = FlushMembership(c, assigned)
    BY <1>3 DEF Remove
  <2> HIDE DEF assigned
  <2>3. QED
    BY <1>1, <2>1, <2>2, SaveMembershipInv DEF Absent
<1>4. ASSUME NEW t \in Token, Regenerate(c, t)
      PROVE  Inv' /\ Evolves
  <2> DEFINE assigned == [loaded EXCEPT !.token = t]
  <2>1. /\ assigned \in AccountUser /\ assigned.status = loaded.status
        /\ assigned.user = loaded.user
        /\ assigned.account = loaded.account
    BY <1>1 DEF AccountUser
  <2>2. membership' = FlushMembership(c, assigned)
    BY <1>4 DEF Regenerate
  <2> HIDE DEF assigned
  <2>3. QED
    BY <1>1, <2>1, <2>2, SaveMembershipInv
<1>5. ASSUME NEW t \in Token, Resend(c, t)
      PROVE  Inv' /\ Evolves
  <2> DEFINE assigned == [loaded EXCEPT !.status = "invited", !.token = t]
  <2>1. /\ assigned \in AccountUser /\ assigned.status = "invited"
        /\ assigned.user = loaded.user
        /\ assigned.account = loaded.account
    BY <1>1 DEF AccountUser, AccountUserStatus
  <2>2. membership' = FlushMembership(c, assigned)
    BY <1>5 DEF Resend
  <2> HIDE DEF assigned
  <2>3. QED
    BY <1>1, <2>1, <2>2, SaveMembershipInv DEF Absent
<1>6. QED
  BY <1>2, <1>3, <1>4, <1>5

\* A draft user gets the password with the status; an active one has had it since before.
LEMMA AcceptInv ==
  ASSUME Inv, NEW c \in Client, Accept(c)
  PROVE  Inv' /\ Evolves
<1> DEFINE u == request[c].user
           view == request[c].loaded_user
           assigned == [request[c].loaded EXCEPT !.status = "active", !.token = None]
<1>1. /\ view \in User /\ view.status \in {"draft", "active"}
      /\ u \in UserId /\ UserViewIsSound(u, view)
      /\ request[c].membership # None /\ membership[request[c].membership].user = u
      /\ request[c].membership \in MembershipId
      /\ membership[request[c].membership].status # Absent
      /\ membership[request[c].membership].account = request[c].loaded.account
      /\ request[c].loaded \in AccountUser /\ request[c].loaded.account # None
      /\ request[c] \in Request
      /\ view.status = "draft" => request[c].password # None
  BY DEF Accept, Inv, TypeOK, Request, SessionsAreSound, SessionIsSound
<1>2. /\ assigned \in AccountUser /\ assigned.status = "active"
      /\ assigned.user = request[c].loaded.user /\ assigned.account = request[c].loaded.account
  BY <1>1 DEF AccountUser, AccountUserStatus
<1>3. /\ membership' = FlushMembership(c, assigned)
      /\ Ends(c) /\ UNCHANGED <<issued, expired>>
  BY DEF Accept
<1>4. UsersEvolve /\ LastUsedEvolves /\ SetUp(user'[u]) /\ user'[u].status # "draft"
  <2>1. CASE view.status = "draft"
    <3> DEFINE new == Joining(c)
    <3>1. /\ request[c].password \in Password \cup {None} /\ request[c].password # None
          /\ request[c].loaded.account \in AccountId \cup {None}
      BY <1>1, <2>1 DEF Request, AccountUser
    <3>2. /\ new \in User /\ new.status = "active"
          /\ new.password # None /\ new.last_used # None
          /\ new.last_used = request[c].loaded.account
      BY <1>1, <3>1 DEF Joining, User, UserStatus
    <3>3. user' = FlushUser(c, new)
      BY <2>1 DEF Accept
    <3> HIDE DEF new
    <3>4. SetUp(new)
      BY <3>2 DEF SetUp
    <3>5. /\ UsersEvolve /\ user'[u].status = "active"
          /\ \A v \in UserId : \/ user'[v].last_used = user[v].last_used
                               \/ v = u /\ user'[v].last_used = new.last_used
      BY <1>1, <2>1, <3>2, <3>3, <3>4, MembershipsAssumption, FlushUserEvolves DEF Absent
    <3>6. LastUsedEvolves
      BY <3>2, <3>5 DEF LastUsedEvolves
    <3>7. QED
      BY <1>1, <3>5, <3>6 DEF UsersEvolve
  <2>2. CASE view.status = "active"
    <3>1. UNCHANGED user
      BY <2>2 DEF Accept
    <3>2. QED
      BY <1>1, <2>2, <3>1, SameUsersEvolve DEF UserViewIsSound, SetUp
  <2>3. QED
    BY <1>1, <2>1, <2>2
<1> HIDE DEF assigned
<1>5. MembershipsEvolve
  BY <1>1, <1>2, <1>3, <1>4, FlushMembershipEvolves DEF Absent
<1>6. QED
  BY <1>3, <1>4, <1>5, EvolveInv DEF Ends, Inv, TypeOK, Evolves

LEMMA DeleteUserInv ==
  ASSUME Inv, NEW c \in Client, DeleteUser(c)
  PROVE  Inv' /\ Evolves
<1> DEFINE view == request[c].loaded_user
           new == [view EXCEPT !.status = "deleted"]
<1>1. request[c].user \in UserId /\ view \in User /\ UserViewIsSound(request[c].user, view)
  BY DEF DeleteUser, Inv, TypeOK, Request, SessionsAreSound, SessionIsSound
<1>2. new \in User /\ new.status = "deleted" /\ new.password = view.password
      /\ new.last_used = view.last_used
  BY <1>1 DEF User, UserStatus
<1>3. /\ user' = FlushUser(c, new) /\ Ends(c) /\ UNCHANGED <<issued, expired>>
      /\ membership' = [m \in MembershipId |->
           IF LiveMembership(m) /\ membership[m].user = request[c].user
           THEN [membership[m] EXCEPT !.status = "deleted"] ELSE membership[m]]
  BY DEF DeleteUser
<1>4. UsersEvolve /\ LastUsedEvolves
  <2> HIDE DEF new
  <2>1. CASE view.status # "deleted"
    BY <1>1, <1>2, <1>3, <2>1, MembershipsAssumption, FlushUserEvolves
       DEF Absent, LastUsedEvolves
  <2>2. CASE view.status = "deleted"
    <3> DEFINE u == request[c].user
               row == Flush(user[u], view, new)
    <3>1. user[u] \in User
      BY <1>1 DEF Inv, TypeOK
    <3>2. user' = [user EXCEPT ![u] = row]
      BY <1>3 DEF FlushUser
    <3>3. row \in User /\ row.status = user[u].status /\ row.password = user[u].password
          /\ row.last_used = user[u].last_used
      BY <1>1, <1>2, <2>2, <3>1, FlushUserColumns
    <3> HIDE DEF row
    <3>4. QED
      BY <1>1, <3>2, <3>3 DEF Inv, TypeOK, Activated, SetUp, UsersEvolve, LastUsedEvolves
  <2>3. QED
    BY <2>1, <2>2
<1>5. ASSUME NEW m \in MembershipId
      PROVE  /\ membership'[m] \in AccountUser
             /\ membership'[m].user = membership[m].user
             /\ membership'[m].account = membership[m].account
             /\ membership'[m].status \in {membership[m].status, "deleted"}
             /\ membership[m].status = Absent => membership'[m].status = Absent
  BY <1>3 DEF Inv, TypeOK, AccountUser, AccountUserStatus, LiveMembership
<1>6. MembershipsEvolve
  <2>1. membership' \in [MembershipId -> AccountUser]
    BY <1>3, <1>5
  <2>2. QED
    BY <1>4, <1>5, <2>1
       DEF Inv, TypeOK, Activated, SetUp, SessionsAreSound, UsersEvolve, MembershipsEvolve, Absent
<1>7. QED
  BY <1>3, <1>4, <1>6, EvolveInv DEF Ends, Inv, TypeOK, Evolves

-----------------------------------------------------------------------------
(* Time, the job, and the invariance *)

LEMMA TokenExpiresInv ==
  ASSUME Inv, NEW t \in Token, TokenExpires(t)
  PROVE  Inv' /\ Evolves
<1>1. UNCHANGED <<user, membership, issued, request>> /\ expired' \subseteq issued'
  BY DEF TokenExpires, Inv, TypeOK
<1>2. MembershipsEvolve
  BY <1>1 DEF Inv, TypeOK, Activated, SessionsAreSound, MembershipsEvolve, Absent
<1>3. QED
  BY <1>1, <1>2, SameUsersEvolve, EvolveInv DEF Inv, TypeOK, Evolves

LEMMA ExpireInvitationsInv ==
  ASSUME Inv, ExpireInvitations
  PROVE  Inv' /\ Evolves
<1>1. UNCHANGED <<user, issued, expired, request>>
  BY DEF ExpireInvitations
<1>2. ASSUME NEW m \in MembershipId
      PROVE  /\ membership'[m] \in AccountUser
             /\ membership'[m].user = membership[m].user
             /\ membership'[m].account = membership[m].account
             /\ \/ membership'[m].status = membership[m].status
                \/ /\ membership[m].status = "invited"
                   /\ membership'[m].status = "invitation-expired"
  BY DEF ExpireInvitations, Expirable, Inv, TypeOK, AccountUser, AccountUserStatus
<1>3. membership' \in [MembershipId -> AccountUser]
  BY <1>2 DEF ExpireInvitations
<1>4. MembershipsEvolve
  BY <1>1, <1>2, <1>3 DEF Inv, Activated, SessionsAreSound, MembershipsEvolve, Absent
<1>5. QED
  BY <1>1, <1>4, SameUsersEvolve, EvolveInv DEF Inv, TypeOK, Evolves

LEMMA InitInv == Init => Inv
<1> SUFFICES ASSUME Init PROVE Inv
  OBVIOUS
<1>1. TypeOK
  BY RowsAreTyped DEF Init, TypeOK
<1>2. Activated
  BY RowsAreTyped DEF Init, Activated, Absent
<1>3. SessionsAreSound
  BY RowsAreTyped DEF Init, SessionsAreSound, SessionIsSound
<1>4. QED
  BY <1>1, <1>2, <1>3 DEF Inv

LEMMA WritesInv ==
  ASSUME Inv, NEW c \in Client, Writes(c)
  PROVE  Inv' /\ Evolves
<1>1. CASE \E u \in UserId, m \in MembershipId, t \in Token : Invite(c, u, m, t)
  BY <1>1, InviteInv
<1>2. CASE \/ AcceptTooLate(c) \/ Remove(c)
           \/ \E t \in Token : Regenerate(c, t) \/ Resend(c, t)
  BY <1>2, MembershipWritesInv
<1>3. CASE Accept(c)
  BY <1>3, AcceptInv
<1>4. CASE DeleteUser(c)
  BY <1>4, DeleteUserInv
<1>5. CASE DisableUser(c) \/ EnableUser(c)
  BY <1>5, SaveUserInv DEF DisableUser, EnableUser
<1>6. QED
  BY <1>1, <1>2, <1>3, <1>4, <1>5 DEF Writes

LEMMA ReadsKeepTables ==
  ASSUME NEW c \in Client, Reads(c) \/ RequestFails(c)
  PROVE  UNCHANGED <<user, membership>>
BY DEF Reads, RequestFails, Goes, InviteReadUser, InviteCheckMembership, InviteForce,
       AcceptReadMembership, ResendReadUser, RemoveReadMembership, ResendReadMembership,
       AcceptReadUser, DeleteReadUser, DisableReadUser, EnableReadUser, ReadUser

\* Every step preserves the invariant, and the tables evolve.
LEMMA NextInv == Inv /\ [Next]_vars => Inv' /\ Evolves
<1> SUFFICES ASSUME Inv, [Next]_vars PROVE Inv' /\ Evolves
  OBVIOUS
<1>1. ASSUME NEW c \in Client, Reads(c) \/ RequestFails(c)
      PROVE  Inv' /\ Evolves
  BY <1>1, ReadsInv, EndsReadingInv, ReadsKeepTables, ReadingEvolves DEF RequestFails
<1>2. ASSUME NEW c \in Client, Writes(c)
      PROVE  Inv' /\ Evolves
  BY <1>2, WritesInv
<1>3. CASE \E t \in Token : TokenExpires(t)
  BY <1>3, TokenExpiresInv
<1>4. CASE ExpireInvitations
  BY <1>4, ExpireInvitationsInv
<1>5. CASE UNCHANGED vars
  <2>1. Inv'
    BY <1>5 DEF vars, Inv, TypeOK, Activated, SessionsAreSound, SessionIsSound, UserViewIsSound
  <2>2. QED
    BY <1>5, <2>1, ReadingEvolves DEF vars
<1>6. QED
  BY <1>1, <1>2, <1>3, <1>4, <1>5 DEF Next

\* The inductive invariant holds in every reachable state of the handlers, the command and
\* the job.
THEOREM Invariance == Spec => []Inv
BY InitInv, NextInv, PTL DEF Spec

\* The two tables and the sessions are well typed.
THEOREM Typing == Spec => []TypeOK
BY Invariance, PTL DEF Inv

\* However accept, enable, disable, delete and the invitations interleave, somebody active,
\* disabled, or an active member of an account has set a password and has an account.
THEOREM NobodyUnactivated == Spec => []Activated
BY Invariance, PTL DEF Inv

-----------------------------------------------------------------------------
(* Passwords *)

\* A row that is not there has no password.
BlankRows == \A u \in UserId : user[u].status = Absent => user[u].password = None

\* Only an acceptance by a user it has loaded as draft changes a password, to the one it
\* carries.
PasswordsEvolve ==
  \A u \in UserId : user'[u].password # user[u].password =>
    \E c \in Client : /\ request[c].phase = "accept" /\ request'[c].phase = "idle"
                      /\ request[c].user = u /\ request[c].password = user'[u].password
                      /\ request[c].loaded_user.status = "draft"

\* The password column of a user that is flushed.
LEMMA FlushedPassword ==
  ASSUME Inv, NEW c \in Client, request[c].user # None, NEW assigned \in User,
         user' = FlushUser(c, assigned)
  PROVE  \A u \in UserId :
           \/ user'[u].password = user[u].password
           \/ /\ u = request[c].user /\ user'[u].password = assigned.password
              /\ assigned.password # request[c].loaded_user.password
<1> DEFINE v == request[c].user
           new == Flush(user[v], request[c].loaded_user, assigned)
<1>1. v \in UserId /\ user[v] \in User /\ request[c].loaded_user \in User
  BY DEF Inv, TypeOK, Request
<1>2. new.password = IF assigned.password = request[c].loaded_user.password
                     THEN user[v].password ELSE assigned.password
  BY <1>1, FlushUserColumns
<1>3. user' = [user EXCEPT ![v] = new]
  BY DEF FlushUser
<1> HIDE DEF new
<1>4. QED
  BY <1>1, <1>2, <1>3 DEF Inv, TypeOK

LEMMA AcceptKeepsPasswords ==
  ASSUME Inv, NEW c \in Client, Accept(c)
  PROVE  PasswordsEvolve
<1> DEFINE loaded == request[c].loaded_user
           assigned == Joining(c)
<1>1. /\ request[c].user # None /\ request[c].phase = "accept" /\ loaded \in User
      /\ request[c] \in Request /\ request[c].loaded \in AccountUser
      /\ request'[c].phase = "idle"
  BY RowsAreTyped DEF Accept, Ends, Inv, TypeOK, SessionsAreSound, SessionIsSound, Request
<1>2. assigned \in User /\ assigned.password = request[c].password
  BY <1>1 DEF Joining, User, UserStatus, Request, AccountUser
<1>3. CASE loaded.status = "draft"
  <2>1. user' = FlushUser(c, assigned)
    BY <1>3 DEF Accept
  <2> HIDE DEF assigned
  <2>2. QED
    BY <1>1, <1>2, <1>3, <2>1, FlushedPassword DEF PasswordsEvolve
<1>4. CASE loaded.status # "draft"
  BY <1>4 DEF Accept, PasswordsEvolve
<1>5. QED
  BY <1>3, <1>4

\* Everybody else who writes a user assigns the status.
LEMMA SavingKeepsPasswords ==
  ASSUME Inv, NEW c \in Client, DeleteUser(c) \/ DisableUser(c) \/ EnableUser(c)
  PROVE  PasswordsEvolve
<1>1. PICK status \in UserStatus :
        user' = FlushUser(c, [request[c].loaded_user EXCEPT !.status = status])
  BY DEF DeleteUser, DisableUser, EnableUser, SaveUser, UserStatus
<1> DEFINE assigned == [request[c].loaded_user EXCEPT !.status = status]
<1>2. request[c].user # None /\ request[c].loaded_user \in User
  BY DEF DeleteUser, DisableUser, EnableUser, SaveUser, Inv, TypeOK, SessionsAreSound,
         SessionIsSound, Request
<1>3. assigned \in User /\ assigned.password = request[c].loaded_user.password
  BY <1>2 DEF User
<1>4. user' = FlushUser(c, assigned)
  BY <1>1
<1> HIDE DEF assigned
<1>5. QED
  BY <1>2, <1>3, <1>4, FlushedPassword DEF PasswordsEvolve

LEMMA NextPasswords ==
  ASSUME Inv, BlankRows, [Next]_vars
  PROVE  PasswordsEvolve /\ BlankRows'
<1>1. ASSUME UNCHANGED user PROVE PasswordsEvolve
  BY <1>1 DEF PasswordsEvolve
<1>2. ASSUME NEW c \in Client, NEW u \in UserId, NEW m \in MembershipId, NEW t \in Token,
             Invite(c, u, m, t)
      PROVE  PasswordsEvolve
  <2>1. \/ UNCHANGED user
        \/ /\ user[u].status = Absent
           /\ user' = [user EXCEPT ![u] = [NoUser EXCEPT !.status = "draft",
                                                        !.email = request[c].email]]
    BY <1>2 DEF Invite
  <2>2. \A v \in UserId : user'[v].password = user[v].password
    BY <2>1 DEF NoUser, BlankRows, Inv, TypeOK
  <2>3. QED
    BY <2>2 DEF PasswordsEvolve
<1>3. ASSUME NEW c \in Client, Writes(c)
      PROVE  PasswordsEvolve
  BY <1>1, <1>2, <1>3, AcceptKeepsPasswords, SavingKeepsPasswords
     DEF Writes, Regenerate, Resend, AcceptTooLate, Remove
<1>4. PasswordsEvolve
  BY <1>1, <1>3, ReadsKeepTables DEF Next, vars, TokenExpires, ExpireInvitations
<1>5. \A u \in UserId : user'[u].status = Absent => user[u].status = Absent
  BY NextInv DEF Evolves, UsersEvolve
<1>6. ASSUME NEW u \in UserId, user'[u].status = Absent, user'[u].password # user[u].password
      PROVE  FALSE
  <2>1. PICK c \in Client : request[c].phase = "accept" /\ request[c].user = u
    BY <1>4, <1>6 DEF PasswordsEvolve
  <2>2. user[u].status # Absent
    BY <2>1, MembershipsAssumption DEF Inv, SessionsAreSound, SessionIsSound, UserViewIsSound
  <2>3. QED
    BY <1>5, <1>6, <2>2
<1>7. QED
  BY <1>4, <1>5, <1>6 DEF BlankRows

-----------------------------------------------------------------------------
(* What a session has seen *)

\* The statuses a request has checked, which its write starts from; a request that is idle
\* knows nothing, and only those that have found a membership hold one.
HasSeen(r) ==
  /\ r.phase = "idle" => r = Idle
  /\ r.phase \in {"check_invited", "invite", "find_invitation", "find_token",
                  "delete", "disable", "enable"} => r.membership = None
  /\ r.phase = "delete" => r.loaded_user.status \in {"draft", "active", "disabled"}
  /\ r.phase = "resend" => r.loaded.status \in {"invited", "invitation-expired"}
  /\ r.phase = "expire" => r.loaded.status \in {"invited", "active"}
  /\ r.phase \in {"accept", "remove"}
       => r.loaded.status \in {"invited", "invitation-expired", "active"}

SessionsHaveSeen == \A c \in Client : HasSeen(request[c])

LEMMA LoadedFields ==
  ASSUME Inv, NEW c \in Client
  PROVE  /\ \A u \in UserId, phase \in Phase :
              LET to == LoadUser(u, phase) IN
              /\ to.phase = phase /\ to.user = u /\ to.loaded_user = user[u]
              /\ to.membership = None
         /\ \A m \in MembershipId, phase \in Phase :
              LET to == LoadMembership(c, m, phase) IN
              /\ to.phase = phase /\ to.membership = m /\ to.loaded = membership[m]
              /\ to.user = request[c].user /\ to.loaded_user = request[c].loaded_user
BY DEF LoadUser, LoadMembership, Idle, Inv, TypeOK, Request

LEMMA LiveStatuses ==
  ASSUME Inv, NEW m \in MembershipId, LiveMembership(m)
  PROVE  membership[m].status \in {"invited", "invitation-expired", "active"}
BY DEF Inv, TypeOK, AccountUser, AccountUserStatus, LiveMembership

\* The session of one request becomes to.
LEMMA StepHasSeen ==
  ASSUME Inv, SessionsHaveSeen, NEW c \in Client, NEW to,
         request' = [request EXCEPT ![c] = to], HasSeen(to)
  PROVE  SessionsHaveSeen'
BY DEF Inv, TypeOK, SessionsHaveSeen, HasSeen

LEMMA ReadsHaveSeen ==
  ASSUME Inv, SessionsHaveSeen, NEW c \in Client, Reads(c)
  PROVE  SessionsHaveSeen'
<1> DEFINE Changed == \E to : HasSeen(to) /\ request' = [request EXCEPT ![c] = to]
<1>1. request[c] \in Request /\ HasSeen(request[c])
  BY DEF Inv, TypeOK, SessionsHaveSeen
<1>2. ASSUME NEW email \in Email, NEW a \in AccountId, InviteReadUser(c, email, a)
      PROVE  Changed
  <2>1. CASE Goes(c, [Idle EXCEPT !.phase = "invite", !.email = email, !.account = a])
    BY <2>1 DEF Goes, Idle, HasSeen
  <2>2. ASSUME NEW u \in UserId,
               Goes(c, [LoadUser(u, "check_invited") EXCEPT !.email = email, !.account = a])
        PROVE  Changed
    BY <2>2 DEF Goes, LoadUser, Idle, HasSeen
  <2>3. QED
    BY <1>2, <2>1, <2>2 DEF InviteReadUser, Known
<1>3. ASSUME InviteCheckMembership(c) PROVE Changed
  <2>1. HasSeen([request[c] EXCEPT !.phase = "invite"]) /\ HasSeen(Idle)
    BY <1>1, <1>3 DEF InviteCheckMembership, HasSeen, Request, Idle
  <2>2. QED
    BY <1>3, <2>1 DEF InviteCheckMembership, Goes
<1>4. ASSUME NEW m \in MembershipId, LiveMembership(m),
             NEW phase \in {"regenerate", "resend", "expire", "accept", "remove"},
             NEW to, to.phase = phase, to.loaded = membership[m], Goes(c, to),
             phase = "resend" => membership[m].status # "active",
             phase = "expire" => membership[m].status # "invitation-expired"
      PROVE  Changed
  <2>1. HasSeen(to)
    BY <1>4, LiveStatuses DEF HasSeen
  <2>2. QED
    BY <1>4, <2>1 DEF Goes
<1>5. ASSUME NEW m \in MembershipId, InviteForce(c, m) PROVE Changed
  BY <1>4, <1>5, LoadedFields DEF InviteForce, LiveMembershipsOf, Phase
<1>6. ASSUME NEW m \in MembershipId, NEW password \in Password \cup {None},
             AcceptReadMembership(c, m, password)
      PROVE  Changed
  <2>1. CASE /\ membership[m].status # "invitation-expired"
             /\ Goes(c, LoadMembership(c, m, "expire"))
    BY <1>4, <1>6, <2>1, LoadedFields DEF AcceptReadMembership, Phase
  <2>2. CASE Goes(c, [LoadMembership(c, m, "accept") EXCEPT !.password = password])
    <3> DEFINE to == [LoadMembership(c, m, "accept") EXCEPT !.password = password]
    <3>1. to.phase = "accept" /\ to.loaded = membership[m]
      BY <1>1 DEF LoadMembership, Request
    <3>2. QED
      BY <1>4, <1>6, <2>2, <3>1 DEF AcceptReadMembership
  <2>3. QED
    BY <1>6, <2>1, <2>2 DEF AcceptReadMembership
<1>7. ASSUME NEW u \in UserId, NEW a \in AccountId, ResendReadUser(c, u, a) PROVE Changed
  BY <1>7 DEF ResendReadUser, Goes, LoadUser, Idle, HasSeen
<1>8. ASSUME NEW u \in UserId, NEW a \in AccountId, RemoveReadMembership(c, u, a)
      PROVE  Changed
  BY <1>4, <1>8, LoadedFields DEF RemoveReadMembership, LiveMembershipsOf, Phase
<1>9. ASSUME ResendReadMembership(c) PROVE Changed
  BY <1>4, <1>9, LoadedFields DEF ResendReadMembership, LiveMembershipsOf, Phase
<1>10. ASSUME NEW u \in UserId,
              \/ AcceptReadUser(c, u)
              \/ DeleteReadUser(c, u) \/ DisableReadUser(c, u) \/ EnableReadUser(c, u)
       PROVE  Changed
  BY <1>10 DEF AcceptReadUser, DeleteReadUser, DisableReadUser, EnableReadUser, ReadUser, Goes,
               LoadUser, Idle, HasSeen
<1>11. Changed
  BY <1>2, <1>3, <1>5, <1>6, <1>7, <1>8, <1>9, <1>10 DEF Reads
<1>12. QED
  BY <1>11, StepHasSeen

LEMMA NextHaveSeen ==
  ASSUME Inv, SessionsHaveSeen, [Next]_vars
  PROVE  SessionsHaveSeen'
<1>1. HasSeen(Idle)
  BY DEF HasSeen, Idle
<1>2. ASSUME NEW c \in Client, Writes(c) \/ RequestFails(c)
      PROVE  SessionsHaveSeen'
  <2>1. request' = [request EXCEPT ![c] = Idle]
    BY <1>2 DEF Writes, RequestFails, Goes, Ends, Invite, Regenerate, Resend, Accept,
                AcceptTooLate, Remove, DeleteUser, DisableUser, EnableUser, SaveUser
  <2>2. QED
    BY <1>1, <2>1, StepHasSeen
<1>3. ASSUME UNCHANGED request PROVE SessionsHaveSeen'
  BY <1>3 DEF SessionsHaveSeen, HasSeen
<1>4. QED
  BY <1>2, <1>3, ReadsHaveSeen DEF Next, vars, TokenExpires, ExpireInvitations

SeenInv == Inv /\ SessionsHaveSeen

LEMMA SeenInvariance == Spec => []SeenInv
<1>1. Init => SeenInv
  BY InitInv DEF Init, SeenInv, SessionsHaveSeen, HasSeen, Idle
<1>2. SeenInv /\ [Next]_vars => SeenInv'
  BY NextInv, NextHaveSeen DEF SeenInv
<1>3. QED
  BY <1>1, <1>2, PTL DEF Spec

-----------------------------------------------------------------------------
(* Refinement: the status columns and what requests have seen of them *)

Seeing == {"find_token", "accept", "delete", "disable", "enable"}

LEMMA RegistersInit == Init => UserRegister!Init /\ MembershipRegister!Init
<1> SUFFICES ASSUME Init PROVE UserRegister!Init /\ MembershipRegister!Init
  OBVIOUS
<1>1. /\ \A u \in UserId : user[u].status = Absent
      /\ \A m \in MembershipId : membership[m].status = Absent
      /\ \A c \in Client : request[c] = Idle
  BY RowsAreTyped DEF Init
<1>2. \A c \in Client : /\ UserSeenBy(c) = [u \in UserId |-> Absent]
                        /\ MembershipSeenBy(c) = [m \in MembershipId |-> Absent]
  BY <1>1, RowsAreTyped, MembershipsAssumption DEF UserSeenBy, MembershipSeenBy
<1>3. QED
  BY <1>1, <1>2 DEF UserRegister!Init, UserRegister!Blind, MembershipRegister!Init,
                    MembershipRegister!Blind

\* Which views a request changes: its own.
LEMMA Views ==
  ASSUME Inv, NEW c \in Client, NEW to, request' = [request EXCEPT ![c] = to]
  PROVE  /\ \A d \in Client \ {c} : /\ UserSeenBy(d)' = UserSeenBy(d)
                                    /\ MembershipSeenBy(d)' = MembershipSeenBy(d)
         /\ UserSeenBy(c)' = [u \in UserId |->
              IF to.user = u /\ to.phase \in Seeing THEN to.loaded_user.status ELSE Absent]
         /\ MembershipSeenBy(c)' = [m \in MembershipId |->
              IF to.membership = m THEN to.loaded.status ELSE Absent]
BY DEF Inv, TypeOK, UserSeenBy, MembershipSeenBy, Seeing

\* Users: nobody sees or writes another status.
LEMMA UsersStutter ==
  ASSUME \A c \in Client : UserSeenBy(c)' = UserSeenBy(c),
         \A u \in UserId : user'[u].status = user[u].status
  PROVE  UNCHANGED UserRegister!vars
BY DEF UserRegister!vars

\* A request that has not seen any reads one.
LEMMA UserObserved ==
  ASSUME Inv, NEW c \in Client, NEW u \in UserId, user[u].status # Absent, UNCHANGED user,
         request[c].phase = "idle", NEW to, request' = [request EXCEPT ![c] = to],
         to.user = u, to.phase \in Seeing, to.loaded_user = user[u]
  PROVE  UserRegister!Next
<1>1. UserSeenBy(c) = [v \in UserId |-> Absent]
  BY DEF UserSeenBy
<1>2. UserSeenBy(c)' = [UserSeenBy(c) EXCEPT ![u] = user[u].status]
  <2>1. UserSeenBy(c)' = [v \in UserId |->
          IF to.user = v /\ to.phase \in Seeing THEN to.loaded_user.status ELSE Absent]
    BY Views
  <2>2. QED
    BY <1>1, <2>1
<1>3. UserRegister!Observe(c, u)
  BY <1>2, Views DEF UserRegister!Observe
<1>4. QED
  BY <1>3 DEF UserRegister!Next

\* A request is over, or will not write a user; the statuses it changes make moves from
\* those it has seen.
LEMMA UsersCommitted ==
  ASSUME Inv, NEW c \in Client, NEW to, request' = [request EXCEPT ![c] = to],
         to.phase \notin Seeing,
         \A u \in UserId : user'[u].status # user[u].status =>
           <<UserSeenBy(c)[u], user'[u].status>> \in UserMoves
  PROVE  UserRegister!Next
<1>1. PICK R \in SUBSET UserId : R = {u \in UserId : user'[u].status # user[u].status}
  OBVIOUS
<1>2. PICK new \in [R -> UserStatus] : \A u \in R : new[u] = user'[u].status
  <2> DEFINE column == [u \in R |-> user'[u].status]
  <2>1. column \in [R -> UserStatus] /\ \A u \in R : column[u] = user'[u].status
    BY <1>1 DEF UserMoves, UserStatus
  <2> HIDE DEF column
  <2>2. QED
    BY <2>1
<1>3. UserRegister!SetStatus(R, new)
  BY <1>1, <1>2 DEF UserRegister!SetStatus
<1>4. \A u \in R : <<[d \in Client |-> UserSeenBy(d)][c][u], new[u]>> \in UserMoves
  BY <1>1, <1>2
<1>5. UserSeenBy(c)' = [u \in UserId |-> Absent]
  <2>1. UserSeenBy(c)' = [u \in UserId |->
          IF to.user = u /\ to.phase \in Seeing THEN to.loaded_user.status ELSE Absent]
    BY Views
  <2>2. QED
    BY <2>1
<1>6. [d \in Client |-> UserSeenBy(d)]'
        = [[d \in Client |-> UserSeenBy(d)] EXCEPT ![c] = UserRegister!Blind]
  BY <1>5, Views DEF UserRegister!Blind
<1>7. UserRegister!Commit(c)
  BY <1>3, <1>4, <1>6 DEF UserRegister!Commit
<1>8. QED
  BY <1>7 DEF UserRegister!Next

\* The draft user of an invitation.
LEMMA UserInserted ==
  ASSUME Inv, NEW c \in Client, NEW u \in UserId, request[c].phase = "invite",
         request' = [request EXCEPT ![c] = Idle],
         user[u].status = Absent, NEW row, user' = [user EXCEPT ![u] = row],
         row.status = "draft"
  PROVE  UserRegister!Next
<1>1. \A d \in Client : UserSeenBy(d)' = UserSeenBy(d)
  <2>1. UserSeenBy(c)' = [v \in UserId |-> Absent]
    <3>1. UserSeenBy(c)' = [v \in UserId |->
            IF Idle.user = v /\ Idle.phase \in Seeing THEN Idle.loaded_user.status ELSE Absent]
      BY Views
    <3>2. QED
      BY <3>1, RowsAreTyped DEF Seeing
  <2>2. UserSeenBy(c) = [v \in UserId |-> Absent]
    BY DEF UserSeenBy
  <2>3. QED
    BY <2>1, <2>2, Views
<1>2. \A v \in UserId : user'[v].status = IF v = u THEN "draft" ELSE user[v].status
  BY DEF Inv, TypeOK
<1>3. UserRegister!Insert(u)
  BY <1>1, <1>2 DEF UserRegister!Insert
<1>4. QED
  BY <1>3 DEF UserRegister!Next

\* The one user whose status a write can change, and how.
LEMMA UserWritten ==
  ASSUME SeenInv, NEW c \in Client, NEW assigned \in User,
         request[c].phase \in Seeing, request[c].user # None,
         user' = FlushUser(c, assigned),
         \/ assigned.status = request[c].loaded_user.status
         \/ <<request[c].loaded_user.status, assigned.status>> \in UserMoves
  PROVE  \A u \in UserId : user'[u].status # user[u].status =>
           <<UserSeenBy(c)[u], user'[u].status>> \in UserMoves
<1> DEFINE u == request[c].user
           new == Flush(user[u], request[c].loaded_user, assigned)
<1>1. u \in UserId /\ user[u] \in User /\ request[c].loaded_user \in User
  BY DEF SeenInv, Inv, TypeOK, Request
<1>2. new.status = IF assigned.status = request[c].loaded_user.status
                   THEN user[u].status ELSE assigned.status
  BY <1>1, FlushUserColumns
<1>3. user' = [user EXCEPT ![u] = new]
  BY DEF FlushUser
<1>4. UserSeenBy(c)[u] = request[c].loaded_user.status
  BY <1>1 DEF UserSeenBy, Seeing
<1> HIDE DEF new
<1>5. QED
  BY <1>1, <1>2, <1>3, <1>4 DEF SeenInv, Inv, TypeOK

LEMMA UserReadsRefine ==
  ASSUME SeenInv, NEW c \in Client, Reads(c)
  PROVE  UserRegister!Next \/ UNCHANGED UserRegister!vars
<1>1. Inv /\ UNCHANGED user /\ request[c] \in Request
  BY ReadsKeepTables DEF SeenInv, Inv, TypeOK
<1>2. ASSUME NEW to, Goes(c, to), to.phase \notin Seeing
      PROVE  UserRegister!Next
  BY <1>1, <1>2, UsersCommitted DEF Goes
<1>3. ASSUME NEW u \in UserId, NEW phase \in {"find_token", "delete", "disable", "enable"},
             Goes(c, LoadUser(u, phase)), request[c].phase = "idle", user[u].status # Absent
      PROVE  UserRegister!Next
  <2>1. phase \in Phase /\ phase \in Seeing
    BY DEF Phase, Seeing
  <2> DEFINE to == LoadUser(u, phase)
  <2>2. to.user = u /\ to.phase \in Seeing /\ to.loaded_user = user[u]
    BY <1>1, <2>1, LoadedFields
  <2>3. request' = [request EXCEPT ![c] = to]
    BY <1>3 DEF Goes
  <2> HIDE DEF to
  <2>4. QED
    BY <1>1, <1>3, <2>2, <2>3, UserObserved
<1>4. ASSUME NEW email \in Email, NEW a \in AccountId, InviteReadUser(c, email, a)
      PROVE  UserRegister!Next
  <2>1. [Idle EXCEPT !.phase = "invite", !.email = email, !.account = a].phase \notin Seeing
    BY DEF Idle, Seeing
  <2>2. \A u \in UserId :
          [LoadUser(u, "check_invited") EXCEPT !.email = email, !.account = a].phase \notin Seeing
    BY DEF LoadUser, Idle, Seeing
  <2>3. QED
    BY <1>2, <1>4, <2>1, <2>2 DEF InviteReadUser, Known
<1>5. ASSUME InviteCheckMembership(c) PROVE UserRegister!Next
  <2>1. Idle.phase \notin Seeing /\ [request[c] EXCEPT !.phase = "invite"].phase \notin Seeing
    BY <1>1 DEF Idle, Seeing, Request
  <2>2. QED
    BY <1>2, <1>5, <2>1 DEF InviteCheckMembership
<1>6. ASSUME NEW m \in MembershipId, NEW phase \in {"regenerate", "resend", "expire", "remove"},
             Goes(c, LoadMembership(c, m, phase))
      PROVE  UserRegister!Next
  <2>1. LoadMembership(c, m, phase).phase \notin Seeing
    BY <1>1 DEF LoadMembership, Request, Seeing
  <2>2. QED
    BY <1>2, <1>6, <2>1
<1>7. ASSUME NEW m \in MembershipId, NEW password \in Password \cup {None},
             AcceptReadMembership(c, m, password)
      PROVE  UserRegister!Next \/ UNCHANGED UserRegister!vars
  <2>1. CASE Goes(c, LoadMembership(c, m, "expire"))
    BY <1>6, <2>1
  <2>2. CASE Goes(c, [LoadMembership(c, m, "accept") EXCEPT !.password = password])
    <3> DEFINE to == [LoadMembership(c, m, "accept") EXCEPT !.password = password]
    <3>1. to.phase = "accept" /\ to.user = request[c].user
          /\ to.loaded_user = request[c].loaded_user /\ request[c].phase = "find_token"
      BY <1>1, <1>7 DEF LoadMembership, Request, AcceptReadMembership
    <3>2. request' = [request EXCEPT ![c] = to]
      BY <2>2 DEF Goes
    <3> HIDE DEF to
    <3>3. UserSeenBy(c)' = UserSeenBy(c)
      BY <1>1, <3>1, <3>2, Views DEF UserSeenBy, Seeing
    <3>4. QED
      BY <1>1, <3>2, <3>3, Views, UsersStutter
  <2>3. QED
    BY <1>7, <2>1, <2>2 DEF AcceptReadMembership
<1>8. ASSUME NEW u \in UserId, NEW a \in AccountId, ResendReadUser(c, u, a)
      PROVE  UserRegister!Next
  <2>1. [LoadUser(u, "find_invitation") EXCEPT !.account = a].phase \notin Seeing
    BY DEF LoadUser, Idle, Seeing
  <2>2. QED
    BY <1>2, <1>8, <2>1 DEF ResendReadUser
<1>9. QED
  BY <1>3, <1>4, <1>5, <1>6, <1>7, <1>8
     DEF Reads, InviteForce, RemoveReadMembership, ResendReadMembership, AcceptReadUser,
         DeleteReadUser, DisableReadUser, EnableReadUser, ReadUser, Absent

LEMMA UserWritesRefine ==
  ASSUME SeenInv, NEW c \in Client, Writes(c)
  PROVE  UserRegister!Next
<1>1. /\ Inv /\ request[c] \in Request /\ HasSeen(request[c]) /\ SessionIsSound(request[c])
      /\ Idle.phase \notin Seeing
      /\ request' = [request EXCEPT ![c] = Idle]
  BY DEF SeenInv, Inv, TypeOK, SessionsHaveSeen, SessionsAreSound, Idle, Seeing, Writes, Ends,
         Invite, Regenerate, Resend, Accept, AcceptTooLate, Remove, DeleteUser, DisableUser,
         EnableUser, SaveUser
<1>2. ASSUME UNCHANGED user PROVE UserRegister!Next
  BY <1>1, <1>2, UsersCommitted
<1>3. ASSUME NEW u \in UserId, NEW m \in MembershipId, NEW t \in Token, Invite(c, u, m, t)
      PROVE  UserRegister!Next
  <2>1. CASE UNCHANGED user
    BY <1>2, <2>1
  <2>2. CASE request[c].user = None
    <3> DEFINE row == [NoUser EXCEPT !.status = "draft", !.email = request[c].email]
    <3>1. row.status = "draft"
      BY DEF NoUser
    <3>2. user[u].status = Absent /\ user' = [user EXCEPT ![u] = row] /\ request[c].phase = "invite"
      BY <1>3, <2>2 DEF Invite
    <3> HIDE DEF row
    <3>3. QED
      BY <1>1, <3>1, <3>2, UserInserted
  <2>3. QED
    BY <1>3, <2>1, <2>2 DEF Invite
<1>4. ASSUME NEW assigned \in User, request[c].phase \in Seeing, request[c].user # None,
             user' = FlushUser(c, assigned),
             \/ assigned.status = request[c].loaded_user.status
             \/ <<request[c].loaded_user.status, assigned.status>> \in UserMoves
      PROVE  UserRegister!Next
  BY <1>1, <1>4, UserWritten, UsersCommitted
<1>5. ASSUME Accept(c), request[c].loaded_user.status = "draft" PROVE UserRegister!Next
  <2> DEFINE assigned == Joining(c)
  <2>1. /\ request[c].phase = "accept" /\ user' = FlushUser(c, assigned)
        /\ request[c].user # None
    BY <1>1, <1>5 DEF Accept, SessionIsSound
  <2>2. assigned \in User /\ assigned.status = "active"
    BY <1>1 DEF Joining, User, UserStatus, Request, AccountUser
  <2> HIDE DEF assigned
  <2>3. QED
    BY <1>4, <1>5, <2>1, <2>2 DEF Seeing, UserMoves
<1>6. ASSUME NEW status \in UserStatus, request[c].phase \in {"delete", "disable", "enable"},
             user' = FlushUser(c, [request[c].loaded_user EXCEPT !.status = status]),
             <<request[c].loaded_user.status, status>> \in UserMoves
      PROVE  UserRegister!Next
  <2> DEFINE assigned == [request[c].loaded_user EXCEPT !.status = status]
  <2>1. assigned \in User /\ assigned.status = status /\ request[c].user # None
    BY <1>1, <1>6 DEF User, Request, SessionIsSound
  <2>2. user' = FlushUser(c, assigned) /\ request[c].phase \in Seeing
    BY <1>6 DEF Seeing
  <2> HIDE DEF assigned
  <2>3. QED
    BY <1>4, <1>6, <2>1, <2>2
<1>7. ASSUME DeleteUser(c) PROVE UserRegister!Next
  BY <1>1, <1>6, <1>7 DEF DeleteUser, HasSeen, UserMoves, UserStatus
<1>8. ASSUME DisableUser(c) \/ EnableUser(c) PROVE UserRegister!Next
  BY <1>1, <1>6, <1>8
     DEF DisableUser, EnableUser, SaveUser, SessionIsSound, UserMoves, UserStatus
<1>9. QED
  BY <1>2, <1>3, <1>5, <1>7, <1>8
     DEF Writes, Accept, AcceptTooLate, Remove, Regenerate, Resend

LEMMA UserStepsRefine ==
  ASSUME SeenInv, [Next]_vars
  PROVE  [UserRegister!Next]_(UserRegister!vars)
<1>1. ASSUME NEW c \in Client, RequestFails(c) PROVE UserRegister!Next
  <2>1. Idle.phase \notin Seeing
    BY DEF Idle, Seeing
  <2>2. QED
    BY <1>1, <2>1, UsersCommitted DEF RequestFails, Goes, SeenInv
<1>2. ASSUME UNCHANGED <<user, request>> PROVE UNCHANGED UserRegister!vars
  <2>1. \A c \in Client : UserSeenBy(c)' = UserSeenBy(c)
    BY <1>2 DEF UserSeenBy
  <2>2. QED
    BY <1>2, <2>1, UsersStutter
<1>3. QED
  BY <1>1, <1>2, UserReadsRefine, UserWritesRefine
     DEF Next, vars, TokenExpires, ExpireInvitations

\* Every user status that a handler commits is a legal move from the status it has loaded.
THEOREM UsersRefine == Spec => UsersImplementRegister
<1>1. SeenInv /\ [Next]_vars => [UserRegister!Next]_(UserRegister!vars)
  BY UserStepsRefine
<1>2. QED
  BY <1>1, RegistersInit, SeenInvariance, PTL DEF Spec, UsersImplementRegister, UserRegister!Spec

\* Memberships: nobody sees or writes another status.
LEMMA MembershipsStutter ==
  ASSUME \A c \in Client : MembershipSeenBy(c)' = MembershipSeenBy(c),
         \A m \in MembershipId : membership'[m].status = membership[m].status
  PROVE  UNCHANGED MembershipRegister!vars
BY DEF MembershipRegister!vars

LEMMA MembershipObserved ==
  ASSUME Inv, NEW c \in Client, NEW m \in MembershipId, LiveMembership(m), UNCHANGED membership,
         request[c].membership = None, NEW to, request' = [request EXCEPT ![c] = to],
         to.membership = m, to.loaded = membership[m]
  PROVE  MembershipRegister!Next
<1>1. MembershipSeenBy(c) = [n \in MembershipId |-> Absent]
  BY MembershipsAssumption DEF MembershipSeenBy
<1>2. MembershipSeenBy(c)' = [MembershipSeenBy(c) EXCEPT ![m] = membership[m].status]
  <2>1. MembershipSeenBy(c)' = [n \in MembershipId |->
          IF to.membership = n THEN to.loaded.status ELSE Absent]
    BY Views
  <2>2. QED
    BY <1>1, <2>1
<1>3. MembershipRegister!Observe(c, m)
  BY <1>2, Views DEF MembershipRegister!Observe, LiveMembership
<1>4. QED
  BY <1>3 DEF MembershipRegister!Next

\* A request that holds no membership has seen none.
LEMMA NoMembershipSeen ==
  ASSUME Inv, NEW c \in Client, NEW to, request' = [request EXCEPT ![c] = to],
         to.membership = None
  PROVE  MembershipSeenBy(c)' = [m \in MembershipId |-> Absent]
<1>1. request'[c] = to
  BY DEF Inv, TypeOK
<1>2. QED
  BY <1>1, MembershipsAssumption DEF MembershipSeenBy

\* The rows that change, and their new statuses.
LEMMA MembershipsChange ==
  ASSUME \A m \in MembershipId : membership'[m].status # membership[m].status =>
           membership'[m].status \in AccountUserStatus
  PROVE  \E R \in SUBSET MembershipId : \E new \in [R -> AccountUserStatus] :
           /\ \A m \in R : /\ membership'[m].status # membership[m].status
                           /\ new[m] = membership'[m].status
           /\ MembershipRegister!SetStatus(R, new)
<1>1. PICK R \in SUBSET MembershipId :
        R = {m \in MembershipId : membership'[m].status # membership[m].status}
  OBVIOUS
<1>2. PICK new \in [R -> AccountUserStatus] : \A m \in R : new[m] = membership'[m].status
  <2> DEFINE column == [m \in R |-> membership'[m].status]
  <2>1. column \in [R -> AccountUserStatus] /\ \A m \in R : column[m] = membership'[m].status
    BY <1>1
  <2> HIDE DEF column
  <2>2. QED
    BY <2>1
<1>3. MembershipRegister!SetStatus(R, new)
  BY <1>1, <1>2 DEF MembershipRegister!SetStatus
<1>4. QED
  BY <1>1, <1>2, <1>3

\* A request is over, or has not found a membership; what changes makes moves from the
\* statuses it has seen.
LEMMA MembershipsCommitted ==
  ASSUME Inv, NEW c \in Client, NEW to, request' = [request EXCEPT ![c] = to],
         to.membership = None,
         \A m \in MembershipId : membership'[m].status # membership[m].status =>
           <<MembershipSeenBy(c)[m], membership'[m].status>> \in AccountUserMoves
  PROVE  MembershipRegister!Next
<1>1. \A m \in MembershipId : membership'[m].status # membership[m].status =>
        membership'[m].status \in AccountUserStatus
  BY DEF AccountUserMoves, AccountUserStatus
<1>2. PICK R \in SUBSET MembershipId : \E new \in [R -> AccountUserStatus] :
           /\ \A m \in R : /\ membership'[m].status # membership[m].status
                           /\ new[m] = membership'[m].status
           /\ MembershipRegister!SetStatus(R, new)
  BY <1>1, MembershipsChange
<1> PICK new \in [R -> AccountUserStatus] :
           /\ \A m \in R : /\ membership'[m].status # membership[m].status
                           /\ new[m] = membership'[m].status
           /\ MembershipRegister!SetStatus(R, new)
  BY <1>2
<1>3. \A m \in R : <<[d \in Client |-> MembershipSeenBy(d)][c][m], new[m]>> \in AccountUserMoves
  BY <1>2
<1>4. MembershipSeenBy(c)' = [m \in MembershipId |-> Absent]
  BY NoMembershipSeen
<1>5. [d \in Client |-> MembershipSeenBy(d)]'
        = [[d \in Client |-> MembershipSeenBy(d)] EXCEPT ![c] = MembershipRegister!Blind]
  BY <1>4, Views DEF MembershipRegister!Blind
<1>6. MembershipRegister!Commit(c)
  BY <1>2, <1>3, <1>5 DEF MembershipRegister!Commit
<1>7. QED
  BY <1>6 DEF MembershipRegister!Next

\* One statement looks at the rows again: nobody's view of them matters.
LEMMA MembershipsUpdated ==
  ASSUME \A c \in Client : MembershipSeenBy(c)' = MembershipSeenBy(c),
         \A m \in MembershipId : membership'[m].status # membership[m].status =>
           <<membership[m].status, membership'[m].status>> \in AccountUserMoves
  PROVE  MembershipRegister!Next
<1>1. \A m \in MembershipId : membership'[m].status # membership[m].status =>
        membership'[m].status \in AccountUserStatus
  BY DEF AccountUserMoves, AccountUserStatus
<1>2. PICK R \in SUBSET MembershipId : \E new \in [R -> AccountUserStatus] :
           /\ \A m \in R : /\ membership'[m].status # membership[m].status
                           /\ new[m] = membership'[m].status
           /\ MembershipRegister!SetStatus(R, new)
  BY <1>1, MembershipsChange
<1> PICK new \in [R -> AccountUserStatus] :
           /\ \A m \in R : /\ membership'[m].status # membership[m].status
                           /\ new[m] = membership'[m].status
           /\ MembershipRegister!SetStatus(R, new)
  BY <1>2
<1>3. MembershipRegister!ConditionalUpdate
  BY <1>2 DEF MembershipRegister!ConditionalUpdate
<1>4. QED
  BY <1>3 DEF MembershipRegister!Next

\* The membership of an invitation.
LEMMA MembershipInserted ==
  ASSUME Inv, NEW c \in Client, NEW m \in MembershipId, request[c].membership = None,
         request' = [request EXCEPT ![c] = Idle],
         membership[m].status = Absent, NEW row, membership' = [membership EXCEPT ![m] = row],
         row.status = "invited"
  PROVE  MembershipRegister!Next
<1>1. \A d \in Client : MembershipSeenBy(d)' = MembershipSeenBy(d)
  <2>1. MembershipSeenBy(c)' = [n \in MembershipId |-> Absent]
    BY NoMembershipSeen, RowsAreTyped
  <2>2. MembershipSeenBy(c) = [n \in MembershipId |-> Absent]
    BY MembershipsAssumption DEF MembershipSeenBy
  <2>3. QED
    BY <2>1, <2>2, Views
<1>2. \A n \in MembershipId :
        membership'[n].status = IF n = m THEN "invited" ELSE membership[n].status
  BY DEF Inv, TypeOK
<1>3. MembershipRegister!Insert(m)
  BY <1>1, <1>2 DEF MembershipRegister!Insert
<1>4. QED
  BY <1>3 DEF MembershipRegister!Next

\* A flush of the membership that the request has loaded.
LEMMA MembershipWritten ==
  ASSUME SeenInv, NEW c \in Client, NEW assigned \in AccountUser,
         request[c].membership # None, Ends(c),
         membership' = FlushMembership(c, assigned),
         \/ assigned.status = request[c].loaded.status
         \/ <<request[c].loaded.status, assigned.status>> \in AccountUserMoves
  PROVE  MembershipRegister!Next
<1> DEFINE m == request[c].membership
           new == Flush(membership[m], request[c].loaded, assigned)
<1>1. m \in MembershipId /\ membership[m] \in AccountUser /\ request[c].loaded \in AccountUser
  BY DEF SeenInv, Inv, TypeOK, Request
<1>2. new.status = IF assigned.status = request[c].loaded.status
                   THEN membership[m].status ELSE assigned.status
  BY <1>1, FlushMembershipColumns
<1>3. membership' = [membership EXCEPT ![m] = new]
  BY DEF FlushMembership
<1>4. MembershipSeenBy(c)[m] = request[c].loaded.status
  BY <1>1 DEF MembershipSeenBy
<1> HIDE DEF new
<1>5. \A n \in MembershipId : membership'[n].status # membership[n].status =>
        <<MembershipSeenBy(c)[n], membership'[n].status>> \in AccountUserMoves
  BY <1>1, <1>2, <1>3, <1>4 DEF SeenInv, Inv, TypeOK
<1>6. QED
  BY <1>5, RowsAreTyped, MembershipsCommitted DEF SeenInv, Ends

LEMMA MembershipReadsRefine ==
  ASSUME SeenInv, NEW c \in Client, Reads(c)
  PROVE  MembershipRegister!Next
<1>1. /\ Inv /\ UNCHANGED membership /\ request[c] \in Request /\ HasSeen(request[c])
      /\ Idle.membership = None
  BY ReadsKeepTables DEF SeenInv, Inv, TypeOK, SessionsHaveSeen, Idle
<1>2. ASSUME NEW to, Goes(c, to), to.membership = None
      PROVE  MembershipRegister!Next
  BY <1>1, <1>2, MembershipsCommitted DEF Goes
<1>3. ASSUME NEW m \in MembershipId, LiveMembership(m), request[c].membership = None,
             NEW to, Goes(c, to), to.membership = m, to.loaded = membership[m]
      PROVE  MembershipRegister!Next
  BY <1>1, <1>3, MembershipObserved DEF Goes
<1>4. ASSUME NEW m \in MembershipId, NEW phase, LiveMembership(m),
             request[c].phase \in {"idle", "check_invited", "find_invitation", "find_token"},
             Goes(c, LoadMembership(c, m, phase))
      PROVE  MembershipRegister!Next
  <2>1. request[c].membership = None
    BY <1>1, <1>4 DEF HasSeen
  <2>2. LoadMembership(c, m, phase).membership = m
        /\ LoadMembership(c, m, phase).loaded = membership[m]
    BY <1>1 DEF LoadMembership, Request
  <2>3. QED
    BY <1>3, <1>4, <2>1, <2>2
<1>5. ASSUME NEW m \in MembershipId, NEW password \in Password \cup {None},
             AcceptReadMembership(c, m, password)
      PROVE  MembershipRegister!Next
  <2>1. CASE Goes(c, LoadMembership(c, m, "expire"))
    BY <1>4, <1>5, <2>1 DEF AcceptReadMembership
  <2>2. CASE Goes(c, [LoadMembership(c, m, "accept") EXCEPT !.password = password])
    <3> DEFINE to == [LoadMembership(c, m, "accept") EXCEPT !.password = password]
    <3>1. to.membership = m /\ to.loaded = membership[m] /\ request[c].membership = None
      BY <1>1, <1>5 DEF LoadMembership, Request, AcceptReadMembership, HasSeen
    <3> HIDE DEF to
    <3>2. QED
      BY <1>3, <1>5, <2>2, <3>1 DEF AcceptReadMembership, to
  <2>3. QED
    BY <1>5, <2>1, <2>2 DEF AcceptReadMembership
<1>6. ASSUME NEW email \in Email, NEW a \in AccountId, InviteReadUser(c, email, a)
      PROVE  MembershipRegister!Next
  <2>1. [Idle EXCEPT !.phase = "invite", !.email = email, !.account = a].membership = None
    BY DEF Idle
  <2>2. \A u \in UserId :
          [LoadUser(u, "check_invited") EXCEPT !.email = email, !.account = a].membership = None
    BY DEF LoadUser, Idle
  <2>3. QED
    BY <1>2, <1>6, <2>1, <2>2 DEF InviteReadUser, Known
<1>7. ASSUME InviteCheckMembership(c) PROVE MembershipRegister!Next
  <2>1. [request[c] EXCEPT !.phase = "invite"].membership = None
    BY <1>1, <1>7 DEF Request, InviteCheckMembership, HasSeen
  <2>2. QED
    BY <1>1, <1>2, <1>7, <2>1 DEF InviteCheckMembership
<1>8. ASSUME NEW u \in UserId, NEW a \in AccountId, ResendReadUser(c, u, a)
      PROVE  MembershipRegister!Next
  <2>1. [LoadUser(u, "find_invitation") EXCEPT !.account = a].membership = None
    BY DEF LoadUser, Idle
  <2>2. QED
    BY <1>2, <1>8, <2>1 DEF ResendReadUser
<1>9. ASSUME NEW u \in UserId, NEW phase, Goes(c, LoadUser(u, phase))
      PROVE  MembershipRegister!Next
  <2>1. LoadUser(u, phase).membership = None
    BY DEF LoadUser, Idle
  <2>2. QED
    BY <1>2, <1>9, <2>1
<1>10. ASSUME NEW m \in MembershipId, InviteForce(c, m) PROVE MembershipRegister!Next
  BY <1>4, <1>10 DEF InviteForce, LiveMembershipsOf
<1>11. ASSUME NEW u \in UserId, NEW a \in AccountId, RemoveReadMembership(c, u, a)
       PROVE  MembershipRegister!Next
  BY <1>4, <1>11 DEF RemoveReadMembership, LiveMembershipsOf
<1>12. ASSUME ResendReadMembership(c) PROVE MembershipRegister!Next
  BY <1>4, <1>12 DEF ResendReadMembership, LiveMembershipsOf
<1>13. QED
  BY <1>5, <1>6, <1>7, <1>8, <1>9, <1>10, <1>11, <1>12
     DEF Reads, AcceptReadUser, DeleteReadUser, DisableReadUser, EnableReadUser, ReadUser

LEMMA MembershipWritesRefine ==
  ASSUME SeenInv, NEW c \in Client, Writes(c)
  PROVE  MembershipRegister!Next
<1>1. /\ Inv /\ request[c] \in Request /\ HasSeen(request[c]) /\ SessionIsSound(request[c])
      /\ Idle.membership = None /\ Ends(c)
      /\ request[c].loaded \in AccountUser
  BY DEF SeenInv, Inv, TypeOK, SessionsHaveSeen, SessionsAreSound, Idle, Writes, Ends, Request,
         Invite, Regenerate, Resend, Accept, AcceptTooLate, Remove, DeleteUser, DisableUser,
         EnableUser, SaveUser
<1>2. ASSUME NEW u \in UserId, NEW m \in MembershipId, NEW t \in Token, Invite(c, u, m, t)
      PROVE  MembershipRegister!Next
  <2> DEFINE row == [status |-> "invited", account |-> request[c].account, user |-> u, token |-> t]
  <2>1. row.status = "invited"
    OBVIOUS
  <2>2. /\ request[c].membership = None /\ membership[m].status = Absent
        /\ membership' = [membership EXCEPT ![m] = row]
        /\ request' = [request EXCEPT ![c] = Idle]
    BY <1>1, <1>2 DEF Invite, HasSeen, Ends
  <2> HIDE DEF row
  <2>3. QED
    BY <1>1, <2>1, <2>2, MembershipInserted
<1>3. ASSUME NEW assigned \in AccountUser, membership' = FlushMembership(c, assigned),
             request[c].phase \in {"regenerate", "resend", "accept", "expire", "remove"},
             \/ assigned.status = request[c].loaded.status
             \/ <<request[c].loaded.status, assigned.status>> \in AccountUserMoves
      PROVE  MembershipRegister!Next
  BY <1>1, <1>3, MembershipWritten DEF SessionIsSound
<1>4. ASSUME NEW t \in Token, Regenerate(c, t) PROVE MembershipRegister!Next
  <2> DEFINE assigned == [request[c].loaded EXCEPT !.token = t]
  <2>1. assigned \in AccountUser /\ assigned.status = request[c].loaded.status
    BY <1>1 DEF AccountUser
  <2>2. membership' = FlushMembership(c, assigned) /\ request[c].phase = "regenerate"
    BY <1>4 DEF Regenerate
  <2> HIDE DEF assigned
  <2>3. QED
    BY <1>3, <2>1, <2>2
<1>5. ASSUME NEW t \in Token, Resend(c, t) PROVE MembershipRegister!Next
  <2> DEFINE assigned == [request[c].loaded EXCEPT !.status = "invited", !.token = t]
  <2>1. assigned \in AccountUser /\ assigned.status = "invited"
    BY <1>1 DEF AccountUser, AccountUserStatus
  <2>2. membership' = FlushMembership(c, assigned) /\ request[c].phase = "resend"
    BY <1>5 DEF Resend
  <2> HIDE DEF assigned
  <2>3. QED
    BY <1>1, <1>3, <2>1, <2>2 DEF HasSeen, AccountUserMoves
<1>6. ASSUME Accept(c) PROVE MembershipRegister!Next
  <2> DEFINE assigned == [request[c].loaded EXCEPT !.status = "active", !.token = None]
  <2>1. assigned \in AccountUser /\ assigned.status = "active"
    BY <1>1 DEF AccountUser, AccountUserStatus
  <2>2. membership' = FlushMembership(c, assigned) /\ request[c].phase = "accept"
    BY <1>6 DEF Accept
  <2> HIDE DEF assigned
  <2>3. QED
    BY <1>1, <1>3, <2>1, <2>2 DEF HasSeen, AccountUserMoves
<1>7. ASSUME AcceptTooLate(c) PROVE MembershipRegister!Next
  <2> DEFINE assigned == [request[c].loaded EXCEPT !.status = "invitation-expired"]
  <2>1. assigned \in AccountUser /\ assigned.status = "invitation-expired"
    BY <1>1 DEF AccountUser, AccountUserStatus
  <2>2. membership' = FlushMembership(c, assigned) /\ request[c].phase = "expire"
    BY <1>7 DEF AcceptTooLate
  <2> HIDE DEF assigned
  <2>3. QED
    BY <1>1, <1>3, <2>1, <2>2 DEF HasSeen, AccountUserMoves
<1>8. ASSUME Remove(c) PROVE MembershipRegister!Next
  <2> DEFINE assigned == [request[c].loaded EXCEPT !.status = "deleted"]
  <2>1. assigned \in AccountUser /\ assigned.status = "deleted"
    BY <1>1 DEF AccountUser, AccountUserStatus
  <2>2. membership' = FlushMembership(c, assigned) /\ request[c].phase = "remove"
    BY <1>8 DEF Remove
  <2> HIDE DEF assigned
  <2>3. QED
    BY <1>1, <1>3, <2>1, <2>2 DEF HasSeen, AccountUserMoves
<1>9. ASSUME DeleteUser(c) PROVE MembershipRegister!Next
  <2>1. \A m \in MembershipId : membership'[m].status # membership[m].status =>
          /\ LiveMembership(m)
          /\ membership'[m].status = "deleted"
    BY <1>1, <1>9 DEF DeleteUser, Inv, TypeOK, AccountUser
  <2>2. \A m \in MembershipId : membership'[m].status # membership[m].status =>
          <<membership[m].status, membership'[m].status>> \in AccountUserMoves
    BY <1>1, <2>1, LiveStatuses DEF AccountUserMoves
  <2>3. MembershipSeenBy(c)' = [m \in MembershipId |-> Absent]
    BY <1>1, NoMembershipSeen DEF Ends
  <2>4. MembershipSeenBy(c) = [m \in MembershipId |-> Absent]
    BY <1>1, <1>9, MembershipsAssumption DEF DeleteUser, HasSeen, MembershipSeenBy
  <2>5. \A d \in Client : MembershipSeenBy(d)' = MembershipSeenBy(d)
    BY <1>1, <2>3, <2>4, Views DEF Ends
  <2>6. QED
    BY <2>2, <2>5, MembershipsUpdated
<1>10. ASSUME DisableUser(c) \/ EnableUser(c) PROVE MembershipRegister!Next
  BY <1>1, <1>10, MembershipsCommitted DEF DisableUser, EnableUser, SaveUser, Ends
<1>11. QED
  BY <1>2, <1>4, <1>5, <1>6, <1>7, <1>8, <1>9, <1>10 DEF Writes

LEMMA MembershipStepsRefine ==
  ASSUME SeenInv, [Next]_vars
  PROVE  [MembershipRegister!Next]_(MembershipRegister!vars)
<1>1. ASSUME NEW c \in Client, RequestFails(c) PROVE MembershipRegister!Next
  BY <1>1, RowsAreTyped, MembershipsCommitted DEF RequestFails, Goes, SeenInv
<1>2. ASSUME UNCHANGED request
      PROVE  \A c \in Client : MembershipSeenBy(c)' = MembershipSeenBy(c)
  BY <1>2 DEF MembershipSeenBy
<1>3. ASSUME UNCHANGED <<membership, request>> PROVE UNCHANGED MembershipRegister!vars
  BY <1>2, <1>3, MembershipsStutter
<1>4. ASSUME ExpireInvitations PROVE MembershipRegister!Next
  <2>1. \A m \in MembershipId : membership'[m].status # membership[m].status =>
          <<membership[m].status, membership'[m].status>> \in AccountUserMoves
    BY <1>4 DEF ExpireInvitations, Expirable, SeenInv, Inv, TypeOK, AccountUser, AccountUserMoves
  <2>2. QED
    BY <1>2, <1>4, <2>1, MembershipsUpdated DEF ExpireInvitations
<1>5. QED
  BY <1>1, <1>3, <1>4, MembershipReadsRefine, MembershipWritesRefine
     DEF Next, vars, TokenExpires

\* Every status of a membership that a handler, the command or the job commits is a legal
\* move from the one it has loaded, or from the one it finds in its UPDATE ... WHERE.
THEOREM MembershipsRefine == Spec => MembershipsImplementRegister
<1>1. SeenInv /\ [Next]_vars => [MembershipRegister!Next]_(MembershipRegister!vars)
  BY MembershipStepsRefine
<1>2. QED
  BY <1>1, RegistersInit, SeenInvariance, PTL
     DEF Spec, MembershipsImplementRegister, MembershipRegister!Spec

-----------------------------------------------------------------------------
(* One request at a time, the job at any moment *)

OneAtATime == \A c, d \in Client : c = d

\* What the only session holds is what is committed, but for invitations the job expires.
IsCurrent(r) ==
  /\ r.user # None => r.loaded_user = user[r.user]
  /\ r.membership # None =>
       /\ membership[r.membership].token = r.loaded.token
       /\ \/ membership[r.membership].status = r.loaded.status
          \/ /\ r.loaded.status = "invited"
             /\ membership[r.membership].status = "invitation-expired"
  /\ r.phase \in {"check_invited", "invite"} /\ r.user # None => user[r.user].status # "deleted"
  /\ r.phase = "invite" /\ r.user # None =>
       \A m \in MembershipId : LiveMembership(m) =>
         membership[m].user # r.user \/ membership[m].account # r.account
  /\ r.phase = "invite" /\ r.user = None => Known(r.email) = {}
  /\ r.phase \in {"accept", "expire"} => r.loaded.token # None

SessionsAreCurrent == \A c \in Client : IsCurrent(request[c])

Kept == /\ AddressesAreUnique /\ DeletedUsersBelongNowhere
        /\ BelongsOnce /\ InvitationsHaveTokens

\* Nobody comes to life, or changes the address.
UsersFade == \A u \in UserId : LiveUser(u)' => LiveUser(u) /\ user'[u].email = user[u].email

SequentialInv == SeenInv /\ SessionsAreCurrent /\ Kept

\* A request that has read something, while nobody else is there to hold anything.
LEMMA GoesCurrent ==
  ASSUME OneAtATime, SequentialInv, NEW c \in Client, NEW to, Goes(c, to), IsCurrent(to)
  PROVE  (SessionsAreCurrent /\ Kept)'
<1>1. UNCHANGED <<user, membership>> /\ \A d \in Client : request'[d] = to
  BY DEF Goes, OneAtATime, SequentialInv, SeenInv, Inv, TypeOK
<1>2. SessionsAreCurrent'
  BY <1>1 DEF SessionsAreCurrent, IsCurrent, LiveMembership, Known, LiveUser
<1>3. Kept'
  BY <1>1 DEF SequentialInv, Kept, AddressesAreUnique, DeletedUsersBelongNowhere, BelongsOnce,
              InvitationsHaveTokens, LiveMembership, LiveUser
<1>4. QED
  BY <1>2, <1>3

LEMMA ReadsCurrent ==
  ASSUME OneAtATime, SequentialInv, NEW c \in Client, Reads(c)
  PROVE  (SessionsAreCurrent /\ Kept)'
<1> DEFINE Changed == \E to : IsCurrent(to) /\ Goes(c, to)
<1>1. /\ Inv /\ request[c] \in Request /\ HasSeen(request[c]) /\ IsCurrent(request[c])
      /\ IsCurrent(Idle)
  BY DEF SequentialInv, SeenInv, Inv, TypeOK, SessionsHaveSeen, SessionsAreCurrent, IsCurrent,
         Idle
<1>2. ASSUME NEW email \in Email, NEW a \in AccountId, InviteReadUser(c, email, a)
      PROVE  Changed
  <2>1. Known(email) = {} =>
          IsCurrent([Idle EXCEPT !.phase = "invite", !.email = email, !.account = a])
    BY DEF Idle, IsCurrent
  <2>2. ASSUME NEW u \in UserId, user[u].status # "deleted"
        PROVE  IsCurrent([LoadUser(u, "check_invited") EXCEPT !.email = email, !.account = a])
    BY <2>2 DEF LoadUser, Idle, IsCurrent
  <2>3. QED
    BY <1>2, <2>1, <2>2 DEF InviteReadUser, Known, LiveUser
<1>3. ASSUME InviteCheckMembership(c) PROVE Changed
  <2> DEFINE to == [request[c] EXCEPT !.phase = "invite"]
  <2>1. CASE LiveMembershipsOf(request[c].user, request[c].account) = {} /\ Goes(c, to)
    <3>1. \A m \in MembershipId : LiveMembership(m) =>
            membership[m].user # request[c].user \/ membership[m].account # request[c].account
      BY <2>1 DEF LiveMembershipsOf
    <3>2. /\ to.phase = "invite" /\ to.user = request[c].user /\ to.account = request[c].account
          /\ to.loaded_user = request[c].loaded_user /\ to.membership = None
      BY <1>1, <1>3 DEF Request, InviteCheckMembership, HasSeen
    <3> HIDE DEF to
    <3>3. request[c].user # None
      BY <1>1, <1>3 DEF Inv, SessionsAreSound, SessionIsSound, InviteCheckMembership
    <3>4. IsCurrent(to)
      BY <1>1, <1>3, <3>1, <3>2, <3>3 DEF IsCurrent, InviteCheckMembership
    <3>5. QED
      BY <2>1, <3>4
  <2>2. CASE Goes(c, Idle)
    BY <1>1, <2>2
  <2>3. QED
    BY <1>3, <2>1, <2>2 DEF InviteCheckMembership
<1>4. ASSUME NEW m \in MembershipId, NEW to, Goes(c, to), to.membership = m,
             to.loaded = membership[m], to.user = request[c].user,
             to.loaded_user = request[c].loaded_user,
             to.phase \in {"regenerate", "resend", "expire", "accept", "remove"},
             to.phase \in {"expire", "accept"} => membership[m].token # None
      PROVE  Changed
  BY <1>1, <1>4 DEF IsCurrent
<1>5. ASSUME NEW m \in MembershipId, NEW phase \in {"regenerate", "resend", "remove"},
             Goes(c, LoadMembership(c, m, phase))
      PROVE  Changed
  BY <1>1, <1>4, <1>5, LoadedFields DEF Phase
<1>6. ASSUME NEW m \in MembershipId, NEW password \in Password \cup {None},
             AcceptReadMembership(c, m, password)
      PROVE  Changed
  <2>1. CASE Goes(c, LoadMembership(c, m, "expire"))
    BY <1>1, <1>4, <1>6, <2>1, LoadedFields DEF Phase, AcceptReadMembership
  <2>2. CASE Goes(c, [LoadMembership(c, m, "accept") EXCEPT !.password = password])
    <3> DEFINE to == [LoadMembership(c, m, "accept") EXCEPT !.password = password]
    <3>1. /\ to.phase = "accept" /\ to.membership = m /\ to.loaded = membership[m]
          /\ to.user = request[c].user /\ to.loaded_user = request[c].loaded_user
      BY <1>1 DEF LoadMembership, Request
    <3> HIDE DEF to
    <3>2. QED
      BY <1>4, <1>6, <2>2, <3>1 DEF AcceptReadMembership, to
  <2>3. QED
    BY <1>6, <2>1, <2>2 DEF AcceptReadMembership
<1>7. ASSUME NEW u \in UserId, NEW a \in AccountId, ResendReadUser(c, u, a) PROVE Changed
  BY <1>7 DEF ResendReadUser, LoadUser, Idle, IsCurrent
<1>8. ASSUME NEW u \in UserId,
             NEW phase \in {"find_token", "delete", "disable", "enable"},
             Goes(c, LoadUser(u, phase))
      PROVE  Changed
  BY <1>8 DEF LoadUser, Idle, IsCurrent
<1>9. Changed
  BY <1>2, <1>3, <1>5, <1>6, <1>7, <1>8
     DEF Reads, InviteForce, RemoveReadMembership, ResendReadMembership, AcceptReadUser,
         DeleteReadUser, DisableReadUser, EnableReadUser, ReadUser
<1>10. QED
  BY <1>9, GoesCurrent

\* Nothing comes to life: who belonged nowhere still does, and nobody belongs twice.
LEMMA NothingRevives ==
  ASSUME Kept, UsersFade,
         \A m \in MembershipId : LiveMembership(m)' =>
           /\ LiveMembership(m)
           /\ membership'[m].user = membership[m].user
           /\ membership'[m].account = membership[m].account
           /\ user'[membership[m].user].status = "deleted"
                => user[membership[m].user].status = "deleted",
         \A m \in MembershipId : membership'[m].status \in {"invited", "invitation-expired"}
           => membership'[m].token # None
  PROVE  Kept'
<1>1. AddressesAreUnique'
  BY DEF Kept, UsersFade, AddressesAreUnique
<1>2. DeletedUsersBelongNowhere'
  BY DEF Kept, DeletedUsersBelongNowhere
<1>3. BelongsOnce'
  BY DEF Kept, BelongsOnce
<1>4. InvitationsHaveTokens'
  BY DEF InvitationsHaveTokens
<1>5. QED
  BY <1>1, <1>2, <1>3, <1>4 DEF Kept

\* Once the only request has written, no session holds anything.
LEMMA EndsCurrent ==
  ASSUME OneAtATime, SequentialInv, NEW c \in Client, Ends(c)
  PROVE  SessionsAreCurrent'
<1>1. \A d \in Client : request'[d] = Idle
  BY DEF OneAtATime, SequentialInv, SeenInv, Inv, TypeOK, Ends
<1>2. QED
  BY <1>1 DEF SessionsAreCurrent, IsCurrent, Idle

\* A flush of the membership the request holds, which is current.
LEMMA SaveMembershipKept ==
  ASSUME SequentialInv, NEW c \in Client, request[c].membership # None,
         NEW assigned \in AccountUser,
         assigned.user = request[c].loaded.user, assigned.account = request[c].loaded.account,
         \/ assigned.status = request[c].loaded.status
         \/ request[c].loaded.status \in {"invited", "invitation-expired", "active"},
         assigned.status \in {"active", "deleted"} \/ assigned.token # None,
         membership' = FlushMembership(c, assigned), UsersFade,
         \A u \in UserId : user'[u].status = "deleted" => user[u].status = "deleted"
  PROVE  Kept'
<1>1. PICK id \in MembershipId : id = request[c].membership
  BY DEF SequentialInv, SeenInv, Inv, TypeOK, Request
<1> DEFINE loaded == request[c].loaded
           row == membership[id]
           new == membership'[id]
<1>2. loaded \in AccountUser /\ row \in AccountUser
  BY DEF SequentialInv, SeenInv, Inv, TypeOK, Request
<1>3. /\ new = Flush(row, loaded, assigned)
      /\ \A m \in MembershipId : m # id => membership'[m] = membership[m]
  BY <1>1, <1>2 DEF FlushMembership, SequentialInv, SeenInv, Inv, TypeOK
<1>4. /\ new.status = IF assigned.status = loaded.status THEN row.status ELSE assigned.status
      /\ new.user = row.user /\ new.account = row.account
      /\ new.token = IF assigned.token = loaded.token THEN row.token ELSE assigned.token
  BY <1>2, <1>3, FlushMembershipColumns
<1>5. /\ row.token = loaded.token
      /\ \/ row.status = loaded.status
         \/ loaded.status = "invited" /\ row.status = "invitation-expired"
  BY <1>1 DEF SequentialInv, SessionsAreCurrent, IsCurrent
<1>6. new.token = assigned.token
  BY <1>4, <1>5
<1>7. new.status \in {"invited", "invitation-expired"} => new.token # None
  BY <1>4, <1>5, <1>6
<1>8. new.status \notin {Absent, "deleted"} => row.status \notin {Absent, "deleted"}
  BY <1>4, <1>5 DEF Absent
<1>9. \A m \in MembershipId : LiveMembership(m) => membership[m].user \in UserId
  BY DEF SequentialInv, SeenInv, Inv, SessionsAreSound, LiveMembership
<1> HIDE DEF loaded, row, new
<1>10. \A m \in MembershipId : membership'[m].status \in {"invited", "invitation-expired"}
        => membership'[m].token # None
  BY <1>3, <1>7 DEF new, SequentialInv, Kept, InvitationsHaveTokens
<1>11. \A m \in MembershipId : LiveMembership(m)' =>
         /\ LiveMembership(m)
         /\ membership'[m].user = membership[m].user
         /\ membership'[m].account = membership[m].account
  BY <1>3, <1>4, <1>8 DEF new, row, LiveMembership
<1>12. QED
  BY <1>9, <1>10, <1>11, NothingRevives DEF SequentialInv

\* The request is current, so the user it writes was neither deleted nor absent; it still is not.
LEMMA SaveUserKeepsLife ==
  ASSUME SequentialInv, NEW c \in Client, request[c].user # None, NEW assigned \in User,
         assigned.status \in {"draft", "active", "disabled"},
         request[c].loaded_user.status \in {"draft", "active", "disabled"},
         assigned.email = request[c].loaded_user.email, user' = FlushUser(c, assigned)
  PROVE  /\ UsersFade
         /\ \A u \in UserId : user'[u].status = "deleted" => user[u].status = "deleted"
<1> DEFINE id == request[c].user
<1>1. /\ id \in UserId /\ request[c].loaded_user \in User /\ user[id] \in User
      /\ user[id] = request[c].loaded_user
  BY DEF SequentialInv, SeenInv, Inv, TypeOK, Request, SessionsAreCurrent, IsCurrent
<1>2. /\ user'[id] = Flush(user[id], request[c].loaded_user, assigned)
      /\ \A u \in UserId : u # id => user'[u] = user[u]
  BY <1>1 DEF FlushUser, SequentialInv, SeenInv, Inv, TypeOK
<1>3. user'[id].status = assigned.status /\ user'[id].email = user[id].email
  BY <1>1, <1>2, FlushUserColumns
<1> HIDE DEF id
<1>4. QED
  BY <1>1, <1>2, <1>3 DEF UsersFade, LiveUser, Absent

\* The new membership is the first of its user in its account, and the user is not deleted.
LEMMA InviteKept ==
  ASSUME SequentialInv, NEW c \in Client,
         NEW u \in UserId, NEW m \in MembershipId, NEW t \in Token, Invite(c, u, m, t)
  PROVE  Kept'
<1> DEFINE new == [status |-> "invited", account |-> request[c].account, user |-> u, token |-> t]
<1>1. /\ membership'[m] = new /\ membership[m].status = Absent /\ t # None
      /\ \A n \in MembershipId : n # m => membership'[n] = membership[n]
  BY MembershipsAssumption DEF Invite, SequentialInv, SeenInv, Inv, TypeOK
<1>2. /\ \A v \in UserId : user[v].status # Absent => user'[v] = user[v]
      /\ user'[u].status # "deleted"
  <2>1. CASE request[c].user = None
    BY <2>1 DEF Invite, SequentialInv, SeenInv, Inv, TypeOK, NoUser
  <2>2. CASE request[c].user # None
    <3>1. u = request[c].user /\ user' = user /\ request[c].phase = "invite"
      BY <2>2 DEF Invite
    <3>2. user[u].status # "deleted"
      BY <2>2, <3>1 DEF SequentialInv, SessionsAreCurrent, IsCurrent
    <3>3. QED
      BY <3>1, <3>2
  <2>3. QED
    BY <2>1, <2>2
<1>3. \A n \in MembershipId : LiveMembership(n) =>
        /\ n # m
        /\ membership[n].user \in UserId /\ user[membership[n].user].status # Absent
        /\ membership[n].user # u \/ membership[n].account # request[c].account
  <2> SUFFICES ASSUME NEW n \in MembershipId, LiveMembership(n)
               PROVE  /\ n # m
                      /\ membership[n].user \in UserId
                      /\ user[membership[n].user].status # Absent
                      /\ membership[n].user # u \/ membership[n].account # request[c].account
    OBVIOUS
  <2>1. /\ n # m /\ membership[n].user \in UserId /\ user[membership[n].user].status # Absent
    BY <1>1 DEF LiveMembership, SequentialInv, SeenInv, Inv, SessionsAreSound
  <2>2. CASE request[c].user = None
    BY <2>1, <2>2 DEF Invite
  <2>3. CASE request[c].user # None
    <3>1. u = request[c].user /\ request[c].phase = "invite" /\ IsCurrent(request[c])
      BY <2>3 DEF Invite, SequentialInv, SessionsAreCurrent
    <3>2. QED
      BY <2>1, <2>3, <3>1 DEF IsCurrent
  <2>4. QED
    BY <2>1, <2>2, <2>3
<1>4. /\ new.status = "invited" /\ new.user = u /\ new.account = request[c].account
      /\ new.token = t
  OBVIOUS
<1>5. AddressesAreUnique'
  <2>1. CASE request[c].user = None
    <3>1. /\ user'[u].email = request[c].email
          /\ \A v \in UserId : v # u => user'[v] = user[v]
      BY <2>1 DEF Invite, SequentialInv, SeenInv, Inv, TypeOK, NoUser
    <3>2. request[c].phase = "invite" /\ IsCurrent(request[c])
      BY DEF Invite, SequentialInv, SessionsAreCurrent
    <3>3. \A v \in UserId : LiveUser(v) => user[v].email # request[c].email
      BY <2>1, <3>2 DEF IsCurrent, Known
    <3>4. \A v \in UserId : v # u => (LiveUser(v)' <=> LiveUser(v))
      BY <3>1 DEF LiveUser
    <3>5. QED
      BY <3>1, <3>3, <3>4 DEF SequentialInv, Kept, AddressesAreUnique
  <2>2. CASE request[c].user # None
    BY <2>2 DEF Invite, SequentialInv, Kept, AddressesAreUnique, LiveUser
  <2>3. QED
    BY <2>1, <2>2
<1> HIDE DEF new
<1>6. \A n \in MembershipId : n # m => (LiveMembership(n)' <=> LiveMembership(n))
  BY <1>1 DEF LiveMembership
<1>7. DeletedUsersBelongNowhere'
  BY <1>1, <1>2, <1>3, <1>4, <1>6 DEF SequentialInv, Kept, DeletedUsersBelongNowhere
<1>8. BelongsOnce'
  BY <1>1, <1>3, <1>4, <1>6 DEF SequentialInv, Kept, BelongsOnce
<1>9. InvitationsHaveTokens'
  BY <1>1, <1>4 DEF SequentialInv, Kept, InvitationsHaveTokens
<1>10. QED
  BY <1>7, <1>8, <1>9, <1>5 DEF Kept

\* With a user go all of its memberships.
LEMMA DeleteUserKept ==
  ASSUME SequentialInv, NEW c \in Client, DeleteUser(c)
  PROVE  Kept'
<1>1. \A m \in MembershipId : LiveMembership(m)' =>
        /\ LiveMembership(m) /\ membership'[m] = membership[m]
        /\ membership[m].user # request[c].user
  BY DEF DeleteUser, LiveMembership, SequentialInv, SeenInv, Inv, TypeOK, AccountUser
<1>2. \A u \in UserId : u # request[c].user => user'[u] = user[u]
  BY DEF DeleteUser, FlushUser, SequentialInv, SeenInv, Inv, TypeOK
<1>3. request[c].user \in UserId => user'[request[c].user].status = "deleted"
  <2> DEFINE assigned == [request[c].loaded_user EXCEPT !.status = "deleted"]
  <2>1. /\ request[c].loaded_user \in User
        /\ request[c].loaded_user.status \in {"draft", "active", "disabled"}
    BY DEF DeleteUser, SequentialInv, SeenInv, Inv, TypeOK, Request, SessionsHaveSeen, HasSeen
  <2>2. assigned \in User /\ assigned.status = "deleted"
    BY <2>1 DEF User, UserStatus
  <2>3. user' = FlushUser(c, assigned)
    BY DEF DeleteUser
  <2> HIDE DEF assigned
  <2>4. request[c].user \in UserId =>
          user'[request[c].user] = Flush(user[request[c].user], request[c].loaded_user, assigned)
    BY <2>3 DEF FlushUser, SequentialInv, SeenInv, Inv, TypeOK
  <2>5. QED
    BY <2>1, <2>2, <2>4, FlushUserColumns DEF SequentialInv, SeenInv, Inv, TypeOK
<1>4. UsersFade
  BY <1>2, <1>3 DEF UsersFade, LiveUser
<1>5. \A m \in MembershipId : LiveMembership(m) => membership[m].user \in UserId
  BY DEF SequentialInv, SeenInv, Inv, SessionsAreSound, LiveMembership
<1>6. \A m \in MembershipId : membership'[m].status \in {"invited", "invitation-expired"}
        => membership'[m].token # None
  BY <1>1 DEF LiveMembership, Absent, SequentialInv, Kept, InvitationsHaveTokens
<1>7. QED
  BY <1>1, <1>2, <1>5, <1>6, <1>4, NothingRevives DEF SequentialInv

LEMMA WritesCurrent ==
  ASSUME OneAtATime, SequentialInv, NEW c \in Client, Writes(c)
  PROVE  (SessionsAreCurrent /\ Kept)'
<1>1. /\ Inv /\ request[c] \in Request /\ HasSeen(request[c]) /\ IsCurrent(request[c])
      /\ SessionIsSound(request[c]) /\ request[c].loaded \in AccountUser
      /\ request[c].loaded_user \in User
  BY DEF SequentialInv, SeenInv, Inv, TypeOK, SessionsHaveSeen, SessionsAreCurrent,
         SessionsAreSound, Request
<1>2. SessionsAreCurrent'
  BY EndsCurrent DEF Writes, Invite, Regenerate, Resend, Accept, AcceptTooLate, Remove,
                     DeleteUser, DisableUser, EnableUser, SaveUser
<1>3. user' = user => UsersFade
  BY DEF UsersFade, LiveUser
<1>4. ASSUME NEW t \in Token, Regenerate(c, t) PROVE Kept'
  <2> DEFINE assigned == [request[c].loaded EXCEPT !.token = t]
  <2>1. /\ assigned \in AccountUser /\ assigned.token # None
        /\ assigned.user = request[c].loaded.user /\ assigned.account = request[c].loaded.account
        /\ assigned.status = request[c].loaded.status
    BY <1>1, MembershipsAssumption DEF AccountUser
  <2>2. membership' = FlushMembership(c, assigned) /\ user' = user /\ request[c].membership # None
    BY <1>1, <1>4 DEF Regenerate, SessionIsSound
  <2> HIDE DEF assigned
  <2>3. QED
    BY <1>3, <2>1, <2>2, SaveMembershipKept
<1>5. ASSUME NEW t \in Token, Resend(c, t) PROVE Kept'
  <2> DEFINE assigned == [request[c].loaded EXCEPT !.status = "invited", !.token = t]
  <2>1. /\ assigned \in AccountUser /\ assigned.token # None
        /\ assigned.user = request[c].loaded.user /\ assigned.account = request[c].loaded.account
    BY <1>1, MembershipsAssumption DEF AccountUser, AccountUserStatus
  <2>2. /\ membership' = FlushMembership(c, assigned) /\ user' = user
        /\ request[c].membership # None
        /\ request[c].loaded.status \in {"invited", "invitation-expired", "active"}
    BY <1>1, <1>5 DEF Resend, SessionIsSound, HasSeen
  <2> HIDE DEF assigned
  <2>3. QED
    BY <1>3, <2>1, <2>2, SaveMembershipKept
<1>6. ASSUME Accept(c) PROVE Kept'
  <2> DEFINE assigned == [request[c].loaded EXCEPT !.status = "active", !.token = None]
  <2>1. /\ assigned \in AccountUser /\ assigned.status = "active"
        /\ assigned.user = request[c].loaded.user /\ assigned.account = request[c].loaded.account
    BY <1>1 DEF AccountUser, AccountUserStatus
  <2>2. /\ membership' = FlushMembership(c, assigned)
        /\ request[c].membership # None /\ request[c].user # None
        /\ request[c].loaded.status \in {"invited", "invitation-expired", "active"}
    BY <1>1, <1>6 DEF Accept, SessionIsSound, HasSeen
  <2> HIDE DEF assigned
  <2>3. request[c].loaded_user.status = "draft"
          => /\ Joining(c) \in User /\ Joining(c).status = "active"
             /\ Joining(c).email = request[c].loaded_user.email
    <3>1. request[c].loaded.account \in AccountId \cup {None}
      BY <1>1 DEF AccountUser
    <3>2. QED
      BY <1>1, <3>1 DEF Joining, User, UserStatus, Request
  <2>4. /\ UsersFade
        /\ \A u \in UserId : user'[u].status = "deleted" => user[u].status = "deleted"
    <3>1. CASE request[c].loaded_user.status = "draft"
      BY <1>1, <1>6, <2>2, <2>3, <3>1, SaveUserKeepsLife DEF Accept
    <3>2. CASE request[c].loaded_user.status # "draft"
      BY <1>3, <1>6, <3>2 DEF Accept
    <3>3. QED
      BY <3>1, <3>2
  <2>5. QED
    BY <2>1, <2>2, <2>4, SaveMembershipKept
<1>7. ASSUME AcceptTooLate(c) PROVE Kept'
  <2> DEFINE assigned == [request[c].loaded EXCEPT !.status = "invitation-expired"]
  <2>1. /\ assigned \in AccountUser /\ assigned.token = request[c].loaded.token
        /\ assigned.user = request[c].loaded.user /\ assigned.account = request[c].loaded.account
    BY <1>1 DEF AccountUser, AccountUserStatus
  <2>2. /\ membership' = FlushMembership(c, assigned) /\ user' = user
        /\ request[c].membership # None /\ request[c].loaded.token # None
        /\ request[c].loaded.status \in {"invited", "invitation-expired", "active"}
    BY <1>1, <1>7 DEF AcceptTooLate, SessionIsSound, HasSeen, IsCurrent
  <2> HIDE DEF assigned
  <2>3. QED
    BY <1>3, <2>1, <2>2, SaveMembershipKept
<1>8. ASSUME Remove(c) PROVE Kept'
  <2> DEFINE assigned == [request[c].loaded EXCEPT !.status = "deleted"]
  <2>1. /\ assigned \in AccountUser /\ assigned.status = "deleted"
        /\ assigned.user = request[c].loaded.user /\ assigned.account = request[c].loaded.account
    BY <1>1 DEF AccountUser, AccountUserStatus
  <2>2. /\ membership' = FlushMembership(c, assigned) /\ user' = user
        /\ request[c].membership # None
        /\ request[c].loaded.status \in {"invited", "invitation-expired", "active"}
    BY <1>1, <1>8 DEF Remove, SessionIsSound, HasSeen
  <2> HIDE DEF assigned
  <2>3. QED
    BY <1>3, <2>1, <2>2, SaveMembershipKept
<1>9. ASSUME NEW phase \in {"disable", "enable"}, NEW status \in {"disabled", "active"},
             SaveUser(c, phase, status)
      PROVE  Kept'
  <2> DEFINE assigned == [request[c].loaded_user EXCEPT !.status = status]
  <2>1. /\ assigned \in User /\ assigned.status \in {"draft", "active", "disabled"}
        /\ assigned.email = request[c].loaded_user.email
    BY <1>1 DEF User, UserStatus
  <2>2. /\ user' = FlushUser(c, assigned) /\ membership' = membership /\ request[c].user # None
        /\ request[c].loaded_user.status \in {"draft", "active", "disabled"}
    BY <1>1, <1>9 DEF SaveUser, SessionIsSound
  <2> HIDE DEF assigned
  <2>3. /\ UsersFade
        /\ \A u \in UserId : user'[u].status = "deleted" => user[u].status = "deleted"
    BY <1>1, <2>1, <2>2, SaveUserKeepsLife
  <2>4. \A m \in MembershipId : LiveMembership(m) => membership[m].user \in UserId
    BY <1>1 DEF Inv, SessionsAreSound, LiveMembership
  <2>5. \A m \in MembershipId : LiveMembership(m)' <=> LiveMembership(m)
    BY <2>2 DEF LiveMembership
  <2>6. QED
    BY <2>2, <2>3, <2>4, <2>5, NothingRevives DEF SequentialInv, Kept, InvitationsHaveTokens
<1>10. Kept'
  BY <1>4, <1>5, <1>6, <1>7, <1>8, <1>9, InviteKept, DeleteUserKept
     DEF Writes, DisableUser, EnableUser
<1>11. QED
  BY <1>2, <1>10

\* The job changes what the request has read, in the one way IsCurrent allows.
LEMMA ExpireInvitationsCurrent ==
  ASSUME SequentialInv, ExpireInvitations
  PROVE  (SessionsAreCurrent /\ Kept)'
<1>1. UNCHANGED <<user, request>> /\ Inv
  BY DEF ExpireInvitations, SequentialInv, SeenInv
<1>2. \A m \in MembershipId :
        /\ membership'[m].user = membership[m].user
        /\ membership'[m].account = membership[m].account
        /\ membership'[m].token = membership[m].token
        /\ \/ membership'[m].status = membership[m].status
           \/ membership[m].status = "invited" /\ membership'[m].status = "invitation-expired"
  BY <1>1 DEF ExpireInvitations, Expirable, Inv, TypeOK, AccountUser
<1>3. \A m \in MembershipId : LiveMembership(m)' <=> LiveMembership(m)
  BY <1>2 DEF LiveMembership, Absent
<1>4. ASSUME NEW c \in Client PROVE IsCurrent(request[c])'
  <2>1. IsCurrent(request[c]) /\ request'[c] = request[c] /\ request[c] \in Request
    BY <1>1 DEF SequentialInv, SessionsAreCurrent, Inv, TypeOK
  <2>2. request[c].membership # None => request[c].membership \in MembershipId
    BY <2>1 DEF Request
  <2>3. QED
    BY <1>1, <1>2, <1>3, <2>1, <2>2 DEF IsCurrent, Known, LiveUser
<1>5. UsersFade
  BY <1>1 DEF UsersFade, LiveUser
<1>6. Kept'
  BY <1>1, <1>2, <1>3, <1>5, NothingRevives DEF SequentialInv, Kept, InvitationsHaveTokens
<1>7. QED
  BY <1>4, <1>6 DEF SessionsAreCurrent

LEMMA NextCurrent ==
  ASSUME OneAtATime, SequentialInv, [Next]_vars
  PROVE  SequentialInv'
<1>1. SeenInv'
  BY NextInv, NextHaveSeen DEF SequentialInv, SeenInv
<1>2. ASSUME NEW c \in Client, RequestFails(c) PROVE (SessionsAreCurrent /\ Kept)'
  BY <1>2, GoesCurrent DEF RequestFails, IsCurrent, Idle
<1>3. ASSUME UNCHANGED <<user, membership, request>> PROVE (SessionsAreCurrent /\ Kept)'
  BY <1>3 DEF SequentialInv, SessionsAreCurrent, IsCurrent, Kept, AddressesAreUnique,
              DeletedUsersBelongNowhere, BelongsOnce, InvitationsHaveTokens, LiveMembership,
              LiveUser, Known
<1>4. (SessionsAreCurrent /\ Kept)'
  BY <1>2, <1>3, ReadsCurrent, WritesCurrent, ExpireInvitationsCurrent
     DEF Next, vars, TokenExpires
<1>5. QED
  BY <1>1, <1>4 DEF SequentialInv

LEMMA SequentialInit == Init => SequentialInv
BY InitInv DEF Init, SequentialInv, SeenInv, SessionsHaveSeen, HasSeen, SessionsAreCurrent,
   IsCurrent, Idle, NoMembership, NoUser, Absent, Kept, AddressesAreUnique,
   DeletedUsersBelongNowhere, BelongsOnce, InvitationsHaveTokens, LiveMembership, LiveUser

LEMMA SequentialInvariance ==
  ASSUME OneAtATime
  PROVE  Spec => []SequentialInv
<1>1. SequentialInv /\ [Next]_vars => SequentialInv'
  BY NextCurrent
<1>2. QED
  BY <1>1, SequentialInit, PTL DEF Spec

\* While requests come one at a time, whatever the job does between their steps, a deleted
\* user has no membership left (what get_user_by_id relies on).
THEOREM DeletedUsersHaveNoMemberships ==
  ASSUME OneAtATime
  PROVE  Spec => []DeletedUsersBelongNowhere
<1>1. SequentialInv => DeletedUsersBelongNowhere
  BY DEF SequentialInv, Kept
<1>2. QED
  BY <1>1, SequentialInvariance, PTL

\* While requests come one at a time, an address belongs to one user that is not deleted
\* (validate_and_get_user), so a login by address finds the user it means.
THEOREM OneUserPerAddress ==
  ASSUME OneAtATime
  PROVE  Spec => []AddressesAreUnique
<1>1. SequentialInv => AddressesAreUnique
  BY DEF SequentialInv, Kept
<1>2. QED
  BY <1>1, SequentialInvariance, PTL

\* While requests come one at a time, nobody is twice a member of one account (invite_user).
THEOREM MembersBelongOnce ==
  ASSUME OneAtATime
  PROVE  Spec => []BelongsOnce
<1>1. SequentialInv => BelongsOnce
  BY DEF SequentialInv, Kept
<1>2. QED
  BY <1>1, SequentialInvariance, PTL

\* While requests come one at a time, every open invitation has a token, so it can still be
\* accepted or refused for its date.
THEOREM OpenInvitationsHaveTokens ==
  ASSUME OneAtATime
  PROVE  Spec => []InvitationsHaveTokens
<1>1. SequentialInv => InvitationsHaveTokens
  BY DEF SequentialInv, Kept
<1>2. QED
  BY <1>1, SequentialInvariance, PTL

\* While requests come one at a time, no acceptance changes the password of an active user
\* (accept_user_invitation).
THEOREM JoinedUsersKeepTheirPassword ==
  ASSUME OneAtATime
  PROVE  Spec => MembersKeepTheirPassword
<1> DEFINE PasswordInv == SequentialInv /\ BlankRows
<1>1. Init => PasswordInv
  BY SequentialInit DEF Init, BlankRows, NoUser
<1>2. PasswordInv /\ [Next]_vars => PasswordInv' /\ PasswordsEvolve
  BY NextCurrent, NextPasswords DEF SequentialInv, SeenInv
<1>3. ASSUME SequentialInv, PasswordsEvolve, NEW u \in UserId, user[u].status = "active"
      PROVE  user'[u].password = user[u].password
  <2>1. ASSUME NEW c \in Client, request[c].user = u, request[c].loaded_user.status = "draft"
        PROVE  FALSE
    BY <1>3, <2>1, MembershipsAssumption DEF SequentialInv, SessionsAreCurrent, IsCurrent
  <2>2. QED
    BY <1>3, <2>1 DEF PasswordsEvolve
<1>4. PasswordInv /\ [Next]_vars
        => [\A u \in UserId : user[u].status = "active" => user'[u].password = user[u].password]_vars
  BY <1>2, <1>3
<1>5. QED
  BY <1>1, <1>2, <1>4, PTL DEF Spec, MembersKeepTheirPassword

-----------------------------------------------------------------------------
(* The life cycles *)

LEMMA SeenUsersMove ==
  ASSUME UserRegister!Next, NEW u \in UserId,
         \A c \in Client : UserSeenBy(c)[u] \in {Absent, user[u].status}
  PROVE  UserRegister!FollowsLifecycle(u)
<1>1. CASE \E v \in UserId : UserRegister!Insert(v)
  BY <1>1 DEF UserRegister!Insert, UserRegister!FollowsLifecycle
<1>2. CASE \/ \E c \in Client, v \in UserId : UserRegister!Observe(c, v)
           \/ \E c \in Client : UserRegister!Rollback(c)
  BY <1>2 DEF UserRegister!Observe, UserRegister!Rollback, UserRegister!FollowsLifecycle
<1>3. ASSUME NEW c \in Client, UserRegister!Commit(c)
      PROVE  UserRegister!FollowsLifecycle(u)
  <2>1. PICK R \in SUBSET UserId : \E new \in [R -> UserStatus] :
          /\ \A v \in R : <<[d \in Client |-> UserSeenBy(d)][c][v], new[v]>> \in UserMoves
          /\ UserRegister!SetStatus(R, new)
    BY <1>3 DEF UserRegister!Commit
  <2>2. QED
    BY <2>1 DEF UserMoves, Absent, UserRegister!SetStatus, UserRegister!FollowsLifecycle
<1>4. CASE UserRegister!ConditionalUpdate
  BY <1>4 DEF UserRegister!ConditionalUpdate, UserRegister!SetStatus,
              UserRegister!FollowsLifecycle
<1>5. QED
  BY <1>1, <1>2, <1>3, <1>4 DEF UserRegister!Next

\* An invitation that has expired since it was loaded may go wherever a pending one may.
LEMMA SeenMembershipsMove ==
  ASSUME MembershipRegister!Next, NEW m \in MembershipId,
         \A c \in Client :
           \/ MembershipSeenBy(c)[m] \in {Absent, membership[m].status}
           \/ MembershipSeenBy(c)[m] = "invited" /\ membership[m].status = "invitation-expired"
  PROVE  MembershipRegister!FollowsLifecycle(m)
<1>1. CASE \E n \in MembershipId : MembershipRegister!Insert(n)
  BY <1>1 DEF MembershipRegister!Insert, MembershipRegister!FollowsLifecycle
<1>2. CASE \/ \E c \in Client, n \in MembershipId : MembershipRegister!Observe(c, n)
           \/ \E c \in Client : MembershipRegister!Rollback(c)
  BY <1>2 DEF MembershipRegister!Observe, MembershipRegister!Rollback,
              MembershipRegister!FollowsLifecycle
<1>3. ASSUME NEW c \in Client, MembershipRegister!Commit(c)
      PROVE  MembershipRegister!FollowsLifecycle(m)
  <2>1. PICK R \in SUBSET MembershipId : \E new \in [R -> AccountUserStatus] :
          /\ \A n \in R : <<[d \in Client |-> MembershipSeenBy(d)][c][n], new[n]>>
                            \in AccountUserMoves
          /\ MembershipRegister!SetStatus(R, new)
    BY <1>3 DEF MembershipRegister!Commit
  <2>2. QED
    BY <2>1 DEF AccountUserMoves, Absent, MembershipRegister!SetStatus,
                MembershipRegister!FollowsLifecycle
<1>4. CASE MembershipRegister!ConditionalUpdate
  BY <1>4 DEF MembershipRegister!ConditionalUpdate, MembershipRegister!SetStatus,
              MembershipRegister!FollowsLifecycle
<1>5. QED
  BY <1>1, <1>2, <1>3, <1>4 DEF MembershipRegister!Next

\* Whatever requests and the job overlap, users and memberships of which no request holds an
\* outdated view follow their life cycle (ModelHandler.update writes without looking again).
THEOREM SettledStatuses ==
  Spec => /\ UserRegister!SettledRowsFollowLifecycle
          /\ MembershipRegister!SettledRowsFollowLifecycle
<1>1. SeenInv /\ [Next]_vars
        => [\A r \in UserId : UserRegister!Settled(r)
              => UserRegister!FollowsLifecycle(r)]_(UserRegister!vars)
  BY UserStepsRefine, SeenUsersMove DEF UserRegister!Settled
<1>2. SeenInv /\ [Next]_vars
        => [\A r \in MembershipId : MembershipRegister!Settled(r)
              => MembershipRegister!FollowsLifecycle(r)]_(MembershipRegister!vars)
  BY MembershipStepsRefine, SeenMembershipsMove DEF MembershipRegister!Settled
<1>3. Spec => [][\A r \in UserId : UserRegister!Settled(r)
                    => UserRegister!FollowsLifecycle(r)]_(UserRegister!vars)
  BY <1>1, SeenInvariance, PTL DEF Spec
<1>4. Spec => [][\A r \in MembershipId : MembershipRegister!Settled(r)
                    => MembershipRegister!FollowsLifecycle(r)]_(MembershipRegister!vars)
  BY <1>2, SeenInvariance, PTL DEF Spec
<1>5. QED
  BY <1>3, <1>4 DEF UserRegister!SettledRowsFollowLifecycle,
                    MembershipRegister!SettledRowsFollowLifecycle

\* While requests come one at a time, both status columns follow their life cycle, whatever
\* the job does: what is deleted stays deleted (the handlers' checks of the loaded status,
\* which ModelHandler.update does not repeat).
THEOREM StatusesFollowLifecycle ==
  ASSUME OneAtATime
  PROVE  Spec => UserRegister!RowsFollowLifecycle /\ MembershipRegister!RowsFollowLifecycle
<1>1. ASSUME SequentialInv
      PROVE  /\ \A c \in Client, u \in UserId : UserSeenBy(c)[u] \in {Absent, user[u].status}
             /\ \A c \in Client, m \in MembershipId :
                  \/ MembershipSeenBy(c)[m] \in {Absent, membership[m].status}
                  \/ /\ MembershipSeenBy(c)[m] = "invited"
                     /\ membership[m].status = "invitation-expired"
  BY <1>1, MembershipsAssumption
     DEF UserSeenBy, MembershipSeenBy, SequentialInv, SessionsAreCurrent, IsCurrent
<1>2. SequentialInv /\ [Next]_vars
        => [\A r \in UserId : UserRegister!FollowsLifecycle(r)]_(UserRegister!vars)
  BY <1>1, UserStepsRefine, SeenUsersMove DEF SequentialInv
<1>3. SequentialInv /\ [Next]_vars
        => [\A r \in MembershipId : MembershipRegister!FollowsLifecycle(r)]_(MembershipRegister!vars)
  BY <1>1, MembershipStepsRefine, SeenMembershipsMove DEF SequentialInv
<1>4. Spec => [][\A r \in UserId : UserRegister!FollowsLifecycle(r)]_(UserRegister!vars)
  BY <1>2, SequentialInvariance, PTL DEF Spec
<1>5. Spec => [][\A r \in MembershipId :
                    MembershipRegister!FollowsLifecycle(r)]_(MembershipRegister!vars)
  BY <1>3, SequentialInvariance, PTL DEF Spec
<1>6. Spec => UserRegister!RowsFollowLifecycle
  BY <1>4 DEF UserRegister!RowsFollowLifecycle
<1>7. Spec => MembershipRegister!RowsFollowLifecycle
  BY <1>5 DEF MembershipRegister!RowsFollowLifecycle
<1>8. QED
  BY <1>6, <1>7

=============================================================================
