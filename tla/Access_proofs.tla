--------------------------- MODULE Access_proofs ---------------------------
(***************************************************************************)
(* Type correctness of Access, that tokens and the accounts they are for   *)
(* are founded on an accepted invitation to that account, and that         *)
(* passwords are replaced by those who choose new ones only, for every     *)
(* number of users, memberships, requests and sessions.  The invariant of  *)
(* Memberships is kept by the steps of Access, and a step of Memberships   *)
(* makes a membership active, or sets the account used last, only by an    *)
(* acceptance for that user and that account.                              *)
(***************************************************************************)
EXTENDS Access, Memberships_proofs

AccessInv ==
  Inv /\ AccessTypeOK /\ TokensAreFounded /\ MembersHaveJoined /\ AccessSessionsAreSound

-----------------------------------------------------------------------------
(* What is kept when the tables evolve *)

LEMMA SessionsAreTyped ==
  NoSession \in Session /\ NoSession.phase = "idle"
BY RowsAreTyped DEF NoSession, Session, AccessPhase

LEMMA SessionStays ==
  ASSUME Inv, UsersEvolve, joined \subseteq joined', NEW s \in Session, SessionHolds(s)
  PROVE  SessionHolds(s)'
BY DEF SessionHolds, Session, SetUp, UsersEvolve, Absent

\* Sessions that go on, close or stay, while the tables evolve, and what is new in them, and
\* the tokens that are new, rest on the acceptances there have been.
LEMMA AccessEvolveInv ==
  ASSUME AccessInv, Inv', UsersEvolve, MembershipsEvolve,
         recovery' \in [UserId -> RecoveryToken \cup {None}],
         recoveries' \subseteq RecoveryToken, lapsed' \subseteq recoveries',
         joined \subseteq joined', joined' \subseteq UserId \X AccountId,
         access' \subseteq access \cup joined', refresh' \subseteq UserId,
         \A u \in refresh' : u \in refresh \/ \E a \in AccountId : <<u, a>> \in joined',
         \A u \in UserId : \/ user'[u].last_used \in {user[u].last_used, None}
                           \/ <<u, user'[u].last_used>> \in joined',
         \A m \in MembershipId : membership'[m].status = "active" =>
           \/ membership[m].status = "active"
           \/ <<membership'[m].user, membership'[m].account>> \in joined',
         \/ UNCHANGED session
         \/ \E l \in Login : session' = [session EXCEPT ![l] = NoSession]
  PROVE  AccessInv'
<1>1. /\ session' \in [Login -> Session]
      /\ \A l \in Login : session'[l] \in {session[l], NoSession}
  BY SessionsAreTyped DEF AccessInv, AccessTypeOK
<1>2. access' \subseteq joined'
  BY DEF AccessInv, TokensAreFounded
<1>3. AccessTypeOK'
  BY <1>1, <1>2 DEF AccessTypeOK, Inv
<1>4. TokensAreFounded'
  <2>1. ASSUME NEW u \in refresh'
        PROVE  \E a \in AccountId : <<u, a>> \in joined'
    BY <2>1 DEF AccessInv, TokensAreFounded
  <2>2. ASSUME NEW u \in UserId, user'[u].last_used # None
        PROVE  <<u, user'[u].last_used>> \in joined'
    BY <2>2 DEF AccessInv, TokensAreFounded
  <2>3. QED
    BY <1>2, <2>1, <2>2 DEF TokensAreFounded
<1>5. MembersHaveJoined'
  <2>1. ASSUME NEW m \in MembershipId, membership'[m].status = "active",
               membership[m].status = "active"
        PROVE  <<membership'[m].user, membership'[m].account>> \in joined'
    BY <2>1 DEF AccessInv, MembersHaveJoined, MembershipsEvolve, Absent
  <2>2. QED
    BY <2>1 DEF MembersHaveJoined
<1>6. ASSUME NEW l \in Login
      PROVE  SessionHolds(session[l])'
  <2>1. CASE session'[l] = NoSession
    BY <2>1, SessionsAreTyped DEF SessionHolds
  <2>2. CASE session'[l] = session[l]
    <3>1. SessionHolds(session[l]) /\ session[l] \in Session
      BY DEF AccessInv, AccessTypeOK, AccessSessionsAreSound
    <3>2. ASSUME NEW r \in Session, SessionHolds(r)
          PROVE  SessionHolds(r)'
      BY <3>2, SessionStays DEF AccessInv
    <3>3. QED
      BY <2>2, <3>1, <3>2 DEF SessionHolds
  <2>3. QED
    BY <1>1, <2>1, <2>2
<1>7. QED
  BY <1>3, <1>4, <1>5, <1>6 DEF AccessInv, AccessSessionsAreSound

\* A session that has read something.
LEMMA ContinuesInv ==
  ASSUME AccessInv, NEW l \in Login, NEW to \in Session, SessionHolds(to), Continues(l, to)
  PROVE  AccessInv'
<1>1. UNCHANGED <<vars, tokens, joined>> /\ session' = [session EXCEPT ![l] = to]
  BY DEF Continues
<1>2. Inv' /\ TokensAreFounded' /\ MembersHaveJoined'
  BY <1>1 DEF vars, tokens, AccessInv, Inv, TypeOK, Activated, SessionsAreSound,
              SessionIsSound, UserViewIsSound, TokensAreFounded, MembersHaveJoined
<1>3. AccessTypeOK'
  BY <1>1, <1>2 DEF tokens, AccessInv, AccessTypeOK, Inv
<1>4. AccessSessionsAreSound'
  BY <1>1 DEF vars, AccessInv, AccessTypeOK, AccessSessionsAreSound, SessionHolds
<1>5. QED
  BY <1>2, <1>3, <1>4 DEF AccessInv

-----------------------------------------------------------------------------
(* Acceptances *)

\* What a membership's flush makes active.
LEMMA FlushActivates ==
  ASSUME Inv, NEW c \in Client, request[c].membership # None, NEW assigned \in AccountUser,
         membership' = FlushMembership(c, assigned)
  PROVE  \A m \in MembershipId : membership'[m].status = "active" =>
           \/ membership[m].status = "active"
           \/ /\ m = request[c].membership
              /\ assigned.status = "active" /\ request[c].loaded.status # "active"
<1> DEFINE n == request[c].membership
           new == Flush(membership[n], request[c].loaded, assigned)
<1>1. n \in MembershipId /\ membership[n] \in AccountUser /\ request[c].loaded \in AccountUser
  BY DEF Inv, TypeOK, Request
<1>2. new.status = IF assigned.status = request[c].loaded.status
                   THEN membership[n].status ELSE assigned.status
  BY <1>1, FlushMembershipColumns
<1>3. membership' = [membership EXCEPT ![n] = new]
  BY DEF FlushMembership
<1> HIDE DEF new
<1>4. QED
  BY <1>1, <1>2, <1>3 DEF Inv, TypeOK

\* Whom an acceptance makes a member, and of what.
LEMMA AcceptsFor ==
  ASSUME Inv, NEW c \in Client, Accept(c)
  PROVE  /\ request[c].user \in UserId /\ request[c].loaded.account \in AccountId
         /\ request[c].membership # None /\ request[c].membership \in MembershipId
         /\ membership[request[c].membership].status # Absent
         /\ membership[request[c].membership].user = request[c].user
         /\ membership[request[c].membership].account = request[c].loaded.account
<1>1. /\ request[c].phase = "accept" /\ request[c] \in Request /\ SessionIsSound(request[c])
  BY DEF Accept, Inv, TypeOK, SessionsAreSound
<1>2. /\ request[c].user \in UserId /\ request[c].membership # None
      /\ request[c].membership \in MembershipId
      /\ membership[request[c].membership].user = request[c].user
      /\ membership[request[c].membership].account = request[c].loaded.account
      /\ membership[request[c].membership].status # Absent
      /\ request[c].loaded.account \in AccountId \cup {None}
  BY <1>1 DEF SessionIsSound, Request, AccountUser
<1>3. request[c].loaded.account # None
  BY <1>2 DEF Inv, SessionsAreSound
<1>4. QED
  BY <1>2, <1>3

\* A membership becomes active by the acceptance of its user for its account.
MembersEvolve ==
  \A m \in MembershipId : membership'[m].status = "active" =>
    \/ membership[m].status = "active"
    \/ \E c \in Client : Accept(c) /\ request[c].membership = m

LEMMA WritesActivate ==
  ASSUME Inv, NEW c \in Client, Writes(c)
  PROVE  MembersEvolve
<1>1. request[c].loaded \in AccountUser /\ SessionIsSound(request[c])
  BY DEF Inv, TypeOK, Request, SessionsAreSound
<1>2. ASSUME NEW u \in UserId, NEW m \in MembershipId, NEW t \in Token, Invite(c, u, m, t)
      PROVE  MembersEvolve
  BY <1>2 DEF Invite, Inv, TypeOK, MembersEvolve
<1>3. ASSUME NEW assigned \in AccountUser, membership' = FlushMembership(c, assigned),
             request[c].membership # None,
             assigned.status = request[c].loaded.status \/ assigned.status # "active"
      PROVE  MembersEvolve
  BY <1>3, FlushActivates DEF MembersEvolve
<1>4. ASSUME NEW t \in Token, Regenerate(c, t) PROVE MembersEvolve
  <2> DEFINE assigned == [request[c].loaded EXCEPT !.token = t]
  <2>1. assigned \in AccountUser /\ assigned.status = request[c].loaded.status
    BY <1>1 DEF AccountUser
  <2>2. membership' = FlushMembership(c, assigned) /\ request[c].membership # None
    BY <1>1, <1>4 DEF Regenerate, SessionIsSound
  <2> HIDE DEF assigned
  <2>3. QED
    BY <1>3, <2>1, <2>2
<1>5. ASSUME NEW t \in Token, Resend(c, t) PROVE MembersEvolve
  <2> DEFINE assigned == [request[c].loaded EXCEPT !.status = "invited", !.token = t]
  <2>1. assigned \in AccountUser /\ assigned.status = "invited"
    BY <1>1 DEF AccountUser, AccountUserStatus
  <2>2. membership' = FlushMembership(c, assigned) /\ request[c].membership # None
    BY <1>1, <1>5 DEF Resend, SessionIsSound
  <2> HIDE DEF assigned
  <2>3. QED
    BY <1>3, <2>1, <2>2
<1>6. ASSUME Accept(c) PROVE MembersEvolve
  <2> DEFINE assigned == [request[c].loaded EXCEPT !.status = "active", !.token = None]
  <2>1. assigned \in AccountUser
    BY <1>1 DEF AccountUser, AccountUserStatus
  <2>2. membership' = FlushMembership(c, assigned)
    BY <1>6 DEF Accept
  <2> HIDE DEF assigned
  <2>3. QED
    BY <1>6, <2>1, <2>2, AcceptsFor, FlushActivates DEF MembersEvolve
<1>7. ASSUME NEW status \in {"invitation-expired", "deleted"}, request[c].membership # None,
             membership' = FlushMembership(c, [request[c].loaded EXCEPT !.status = status])
      PROVE  MembersEvolve
  <2> DEFINE assigned == [request[c].loaded EXCEPT !.status = status]
  <2>1. assigned \in AccountUser /\ assigned.status # "active"
    BY <1>1 DEF AccountUser, AccountUserStatus
  <2> HIDE DEF assigned
  <2>2. QED
    BY <1>3, <1>7, <2>1 DEF assigned
<1>8. CASE AcceptTooLate(c) \/ Remove(c)
  BY <1>1, <1>7, <1>8 DEF AcceptTooLate, Remove, SessionIsSound
<1>9. CASE DeleteUser(c)
  BY <1>9 DEF DeleteUser, Inv, TypeOK, AccountUser, MembersEvolve
<1>10. CASE DisableUser(c) \/ EnableUser(c)
  BY <1>10 DEF DisableUser, EnableUser, SaveUser, MembersEvolve
<1>11. QED
  BY <1>2, <1>4, <1>5, <1>6, <1>8, <1>9, <1>10 DEF Writes

LEMMA NextActivates ==
  ASSUME Inv, [Next]_vars PROVE MembersEvolve
<1>1. CASE UNCHANGED membership
  BY <1>1 DEF MembersEvolve
<1>2. CASE ExpireInvitations
  BY <1>2 DEF ExpireInvitations, Inv, TypeOK, AccountUser, MembersEvolve
<1>3. QED
  BY <1>1, <1>2, WritesActivate, ReadsKeepTables DEF Next, vars, TokenExpires

\* A step of Memberships, with the acceptances it adds to the history.
LEMMA MembershipStepInv ==
  ASSUME AccessInv, Next, joined' = joined \cup Acceptances, UNCHANGED <<tokens, session>>
  PROVE  AccessInv'
<1>1. Inv' /\ Evolves /\ MembersEvolve
  BY NextInv, NextActivates DEF AccessInv
<1>2. \A c \in Client : Accept(c) => <<request[c].user, request[c].loaded.account>> \in joined'
  BY DEF Acceptances
<1>3. joined' \subseteq UserId \X AccountId
  BY AcceptsFor DEF Acceptances, AccessInv, AccessTypeOK
<1>4. \A u \in UserId : \/ user'[u].last_used \in {user[u].last_used, None}
                        \/ <<u, user'[u].last_used>> \in joined'
  BY <1>1, <1>2 DEF Evolves, LastUsedEvolves
<1>5. ASSUME NEW m \in MembershipId, membership'[m].status = "active",
             membership[m].status # "active"
      PROVE  <<membership'[m].user, membership'[m].account>> \in joined'
  <2>1. PICK c \in Client : Accept(c) /\ request[c].membership = m
    BY <1>1, <1>5 DEF MembersEvolve
  <2>2. /\ membership[m].status # Absent
        /\ membership[m].user = request[c].user
        /\ membership[m].account = request[c].loaded.account
    BY <2>1, AcceptsFor DEF AccessInv
  <2>3. QED
    BY <1>1, <1>2, <2>1, <2>2 DEF Evolves, MembershipsEvolve
<1>6. QED
  BY <1>1, <1>3, <1>4, <1>5, AccessEvolveInv DEF Evolves, tokens, AccessInv, AccessTypeOK

-----------------------------------------------------------------------------
(* Reading *)

\* A session that loads an active user.
LEMMA OpensInv ==
  ASSUME AccessInv, NEW l \in Login, NEW u \in UserId, NEW a \in AccountId \cup {None},
         NEW phase \in {"login", "identify", "recover"}, Opens(l, u, phase, a)
  PROVE  AccessInv'
<1> DEFINE to == [NoSession EXCEPT !.phase = phase, !.user = u, !.loaded = user[u],
                                   !.account = a]
<1>1. user[u] \in User /\ user[u].status = "active" /\ SetUp(user[u])
  BY DEF Opens, AccessInv, Inv, TypeOK, Activated
<1>2. /\ to \in Session /\ to.phase = phase /\ to.user = u /\ to.loaded = user[u]
  BY <1>1, SessionsAreTyped DEF NoSession, Session, AccessPhase
<1>3. SessionHolds(to)
  BY <1>1, <1>2, MembershipsAssumption DEF SessionHolds, Absent
<1>4. QED
  BY <1>2, <1>3, ContinuesInv DEF Opens

LEMMA ResetReadUserInv ==
  ASSUME AccessInv, NEW l \in Login, NEW u \in UserId, NEW r \in RecoveryToken,
         NEW password \in Password, ResetReadUser(l, u, r, password)
  PROVE  AccessInv'
<1> DEFINE to == [NoSession EXCEPT !.phase = "reset", !.user = u, !.loaded = user[u],
                                   !.password = password]
<1>1. user[u] \in User /\ user[u].status = "active" /\ SetUp(user[u])
  BY DEF ResetReadUser, AccessInv, Inv, TypeOK, Activated
<1>2. /\ to \in Session /\ to.phase = "reset" /\ to.user = u /\ to.loaded = user[u]
      /\ to.password = password
  BY <1>1, SessionsAreTyped DEF NoSession, Session, AccessPhase
<1>3. SessionHolds(to)
  BY <1>1, <1>2, MembershipsAssumption DEF SessionHolds, Absent
<1>4. QED
  BY <1>2, <1>3, ContinuesInv DEF ResetReadUser

LEMMA SessionReadsInv ==
  ASSUME AccessInv, NEW l \in Login, SessionReads(l)
  PROVE  AccessInv'
<1>1. ASSUME NEW u \in UserId, NEW password \in Password, NEW a \in AccountId \cup {None},
             LoginReadUser(l, u, password, a)
      PROVE  AccessInv'
  <2>1. user[u].last_used \in AccountId \cup {None}
    BY DEF AccessInv, Inv, TypeOK, User
  <2>2. QED
    BY <1>1, <2>1, OpensInv DEF LoginReadUser
<1>2. ASSUME NEW u \in UserId, NEW a \in AccountId,
             RefreshReadUser(l, u, a) \/ AuthenticateReadUser(l, u, a)
      PROVE  AccessInv'
  BY <1>2, OpensInv DEF RefreshReadUser, AuthenticateReadUser
<1>3. ASSUME NEW u \in UserId, RecoverReadUser(l, u)
      PROVE  AccessInv'
  BY <1>3, OpensInv DEF RecoverReadUser
<1>4. QED
  BY <1>1, <1>2, <1>3, ResetReadUserInv DEF SessionReads

\* The membership that is active makes the user one who has joined.
LEMMA ReadMembershipSound ==
  ASSUME AccessInv, NEW l \in Login, ReadMembership(l)
  PROVE  AccessInv'
<1> DEFINE s == session[l]
           phase == IF s.phase = "login" THEN "issue" ELSE "context"
           to == [s EXCEPT !.phase = phase]
<1>1. /\ s \in Session /\ SessionHolds(s) /\ s.phase \in {"login", "identify"}
      /\ s.user \in UserId
  BY DEF ReadMembership, AccessInv, AccessTypeOK, AccessSessionsAreSound, SessionHolds, Session
<1>2. PICK m \in MembershipId : /\ membership[m].status = "active"
                                /\ membership[m].user = s.user
                                /\ membership[m].account = s.account
  BY DEF ReadMembership, ActiveMemberships
<1>3. <<s.user, s.account>> \in joined
  BY <1>2 DEF AccessInv, MembersHaveJoined
<1>4. /\ to \in Session /\ to.phase \in {"issue", "context"} /\ to.user = s.user
      /\ to.loaded = s.loaded /\ to.account = s.account
  BY <1>1 DEF Session, AccessPhase
<1>5. SessionHolds(to)
  BY <1>1, <1>3, <1>4 DEF SessionHolds
<1>6. Continues(l, to)
  BY DEF ReadMembership
<1>7. QED
  BY <1>4, <1>5, <1>6, ContinuesInv

LEMMA FailsInv ==
  ASSUME AccessInv, NEW l \in Login, Continues(l, NoSession)
  PROVE  AccessInv'
BY SessionsAreTyped, ContinuesInv DEF SessionHolds

-----------------------------------------------------------------------------
(* Writing *)

\* A user whose row keeps its status, and gets or keeps a password and an account.
LEMMA UserWriteEvolves ==
  ASSUME AccessInv, NEW u \in UserId, NEW new \in User,
         user' = [user EXCEPT ![u] = new], UNCHANGED <<membership, issued, expired, request>>,
         user[u].status \notin {Absent, "draft"}, new.status = user[u].status, SetUp(new)
  PROVE  Inv' /\ UsersEvolve /\ MembershipsEvolve
<1>1. \A v \in UserId : user'[v] = IF v = u THEN new ELSE user[v]
  BY DEF AccessInv, Inv, TypeOK
<1>2. UsersEvolve
  BY <1>1 DEF AccessInv, Inv, TypeOK, Activated, SetUp, UsersEvolve
<1>3. MembershipsEvolve
  BY <1>2, SameMembershipsEvolve DEF AccessInv
<1>4. Inv'
  BY <1>2, <1>3, EvolveInv DEF AccessInv, Inv, TypeOK
<1>5. QED
  BY <1>2, <1>3, <1>4

LEMMA IssueInv ==
  ASSUME AccessInv, NEW l \in Login, Issue(l)
  PROVE  AccessInv'
<1> DEFINE s == session[l]
           assigned == [s.loaded EXCEPT !.last_used = s.account]
           new == Flush(user[s.user], s.loaded, assigned)
<1>1. /\ s \in Session /\ s.user \in UserId /\ s.account \in AccountId
      /\ user[s.user].status \notin {Absent, "draft"} /\ SetUp(user[s.user])
      /\ <<s.user, s.account>> \in joined /\ s.loaded \in User /\ user[s.user] \in User
  BY DEF Issue, AccessInv, AccessTypeOK, AccessSessionsAreSound, SessionHolds, Session, Inv, TypeOK
<1>2. /\ assigned \in User /\ assigned.status = s.loaded.status
      /\ assigned.password = s.loaded.password /\ assigned.last_used = s.account
  BY <1>1 DEF User
<1> HIDE DEF assigned
<1>3. /\ new \in User /\ new.status = user[s.user].status
      /\ new.password = user[s.user].password
      /\ new.last_used \in {user[s.user].last_used, s.account}
  BY <1>1, <1>2, FlushUserColumns
<1> USE DEF assigned
<1>4. /\ user' = [user EXCEPT ![s.user] = new]
      /\ access' = access \cup {<<s.user, s.account>>}
      /\ refresh' = refresh \cup {s.user}
      /\ session' = [session EXCEPT ![l] = NoSession]
      /\ UNCHANGED <<membership, issued, expired, request, recovery, recoveries, lapsed, joined>>
  BY DEF Issue, Closes
<1> HIDE DEF new, s
<1>5. SetUp(new)
  BY <1>1, <1>3, MembershipsAssumption DEF SetUp
<1>6. Inv' /\ UsersEvolve /\ MembershipsEvolve
  BY <1>1, <1>3, <1>4, <1>5, UserWriteEvolves
<1>7. /\ recovery' \in [UserId -> RecoveryToken \cup {None}]
      /\ recoveries' \subseteq RecoveryToken /\ lapsed' \subseteq recoveries'
      /\ joined' = joined /\ joined' \subseteq UserId \X AccountId
      /\ access' \subseteq access \cup joined' /\ refresh' \subseteq UserId
      /\ \A u \in refresh' : u \in refresh \/ \E a \in AccountId : <<u, a>> \in joined'
  BY <1>1, <1>4 DEF AccessInv, AccessTypeOK
<1>8. \A u \in UserId : \/ user'[u].last_used \in {user[u].last_used, None}
                        \/ <<u, user'[u].last_used>> \in joined'
  BY <1>1, <1>3, <1>4 DEF AccessInv, Inv, TypeOK
<1>9. QED
  BY <1>4, <1>6, <1>7, <1>8, AccessEvolveInv

LEMMA ResetInv ==
  ASSUME AccessInv, NEW l \in Login, Reset(l)
  PROVE  AccessInv'
<1> DEFINE s == session[l]
           kept == Flush(user[s.user], s.loaded, s.loaded)
           new == [kept EXCEPT !.password = s.password]
<1>1. /\ s \in Session /\ s.user \in UserId /\ s.password \in Password /\ s.password # None
      /\ user[s.user].status \notin {Absent, "draft"} /\ SetUp(user[s.user])
      /\ s.loaded \in User /\ user[s.user] \in User
  BY DEF Reset, AccessInv, AccessTypeOK, AccessSessionsAreSound, SessionHolds, Session, Inv, TypeOK
<1>2. /\ kept \in User /\ kept.status = user[s.user].status
      /\ kept.last_used = user[s.user].last_used
  BY <1>1, FlushUserColumns
<1>3. user' = [user EXCEPT ![s.user] = new]
  BY DEF Reset
<1> HIDE DEF kept
<1>4. /\ new \in User /\ new.status = user[s.user].status
      /\ new.last_used = user[s.user].last_used /\ new.password = s.password
  BY <1>1, <1>2 DEF User
<1>5. SetUp(new)
  BY <1>1, <1>4 DEF SetUp
<1>6. /\ UNCHANGED <<membership, issued, expired, request, tokens, joined>>
      /\ session' = [session EXCEPT ![l] = NoSession]
  BY DEF Reset, Closes
<1> HIDE DEF new, s
<1>7. Inv' /\ UsersEvolve /\ MembershipsEvolve
  BY <1>1, <1>3, <1>4, <1>5, <1>6, UserWriteEvolves
<1>8. \A u \in UserId : user'[u].last_used = user[u].last_used
  BY <1>1, <1>3, <1>4 DEF AccessInv, Inv, TypeOK
<1>9. QED
  BY <1>6, <1>7, <1>8, AccessEvolveInv DEF tokens, AccessInv, AccessTypeOK

\* Steps that leave users and memberships alone.
LEMMA QuietInv ==
  ASSUME AccessInv, UNCHANGED <<vars, joined>>,
         recovery' \in [UserId -> RecoveryToken \cup {None}],
         recoveries' \subseteq RecoveryToken, lapsed' \subseteq recoveries',
         access' \subseteq access, refresh' \subseteq refresh,
         \/ UNCHANGED session
         \/ \E l \in Login : session' = [session EXCEPT ![l] = NoSession]
  PROVE  AccessInv'
<1>1. Inv' /\ UsersEvolve /\ MembershipsEvolve
  BY NextInv DEF AccessInv, Evolves
<1>2. QED
  BY <1>1, AccessEvolveInv DEF vars, AccessInv, AccessTypeOK

LEMMA RecoverInv ==
  ASSUME AccessInv, NEW l \in Login, NEW r \in RecoveryToken, Recover(l, r)
  PROVE  AccessInv'
<1>1. UNCHANGED <<vars, lapsed, access, refresh, joined>>
  BY DEF Recover
<1>2. /\ recovery' \in [UserId -> RecoveryToken \cup {None}]
      /\ recoveries' \subseteq RecoveryToken /\ lapsed' \subseteq recoveries'
      /\ session' = [session EXCEPT ![l] = NoSession]
  BY DEF Recover, Closes, AccessInv, AccessTypeOK
<1>3. QED
  BY <1>1, <1>2, QuietInv

-----------------------------------------------------------------------------

LEMMA SessionStepsInv ==
  ASSUME AccessInv, NEW l \in Login, SessionSteps(l)
  PROVE  AccessInv'
<1>1. CASE Respond(l) \/ SessionFails(l)
  BY <1>1, FailsInv DEF Respond, SessionFails
<1>2. QED
  BY <1>1, ReadMembershipSound, IssueInv, ResetInv, RecoverInv DEF SessionSteps

LEMMA AccessInitInv == AccessInit => AccessInv
<1> SUFFICES ASSUME AccessInit PROVE AccessInv
  OBVIOUS
<1>1. Inv
  BY InitInv DEF AccessInit
<1>2. AccessTypeOK /\ AccessSessionsAreSound
  BY <1>1, SessionsAreTyped
     DEF AccessInit, AccessTypeOK, AccessSessionsAreSound, SessionHolds, Inv
<1>3. TokensAreFounded /\ MembersHaveJoined
  BY DEF AccessInit, Init, NoUser, NoMembership, Absent, TokensAreFounded, MembersHaveJoined
<1>4. QED
  BY <1>1, <1>2, <1>3 DEF AccessInv

LEMMA AccessNextInv == AccessInv /\ [AccessNext]_accessVars => AccessInv'
<1> SUFFICES ASSUME AccessInv, [AccessNext]_accessVars PROVE AccessInv'
  OBVIOUS
<1>1. ASSUME NEW l \in Login, SessionReads(l) \/ SessionSteps(l)
      PROVE  AccessInv'
  BY <1>1, SessionReadsInv, SessionStepsInv
<1>2. ASSUME NEW r \in RecoveryToken, RecoveryLapses(r)
      PROVE  AccessInv'
  BY <1>2, QuietInv DEF RecoveryLapses, AccessInv, AccessTypeOK
<1>3. ASSUME NEW u \in UserId, NEW a \in AccountId, AccessExpires(u, a)
      PROVE  AccessInv'
  BY <1>3, QuietInv DEF AccessExpires, AccessInv, AccessTypeOK
<1>4. ASSUME NEW u \in UserId, RefreshExpires(u)
      PROVE  AccessInv'
  BY <1>4, QuietInv DEF RefreshExpires, AccessInv, AccessTypeOK
<1>5. CASE UNCHANGED accessVars
  BY <1>5, QuietInv DEF accessVars, tokens, AccessInv, AccessTypeOK
<1>6. QED
  BY <1>1, <1>2, <1>3, <1>4, <1>5, MembershipStepInv DEF AccessNext

\* The inductive invariant holds in every reachable state of Access.
THEOREM AccessInvariance == AccessSpec => []AccessInv
BY AccessInitInv, AccessNextInv, PTL DEF AccessSpec

\* Tables, tokens and sessions are well typed.
THEOREM AccessTyping == AccessSpec => []AccessTypeOK
BY AccessInvariance, PTL DEF AccessInv

\* Tokens, and the account a login goes to by default, are of users who accepted an
\* invitation to that very account.
THEOREM TokensFounded == AccessSpec => []TokensAreFounded
BY AccessInvariance, PTL DEF AccessInv

\* Whoever is an active member of an account has accepted an invitation to it: no outdated
\* write of a removal, a resend, a deletion or a refusal makes a membership active.
THEOREM MembersJoined == AccessSpec => []MembersHaveJoined
BY AccessInvariance, PTL DEF AccessInv

\* What a login, a refresh, a reset or an authenticated request holds stays good until it is
\* used.
THEOREM SessionsHold == AccessSpec => []AccessSessionsAreSound
BY AccessInvariance, PTL DEF AccessInv

-----------------------------------------------------------------------------
(* Passwords *)

\* A password changes by the acceptance or the reset that carries it.
PasswordsAreCarried ==
  \A u \in UserId : user'[u].password # user[u].password =>
    \/ \E l \in Login : /\ session[l].phase = "reset" /\ session'[l].phase = "idle"
                        /\ session[l].user = u /\ session[l].password = user'[u].password
    \/ \E c \in Client : /\ request[c].phase = "accept" /\ request'[c].phase = "idle"
                         /\ request[c].user = u /\ request[c].password = user'[u].password

\* A login or refresh saves the account only.
LEMMA IssueKeepsPasswords ==
  ASSUME AccessInv, NEW l \in Login, Issue(l)
  PROVE  \A u \in UserId : user'[u].password = user[u].password
                           /\ user'[u].status = user[u].status
<1> DEFINE s == session[l]
           assigned == [s.loaded EXCEPT !.last_used = s.account]
           new == Flush(user[s.user], s.loaded, assigned)
<1>1. s \in Session /\ s.user \in UserId /\ s.loaded \in User /\ user[s.user] \in User
      /\ s.account \in AccountId
  BY DEF Issue, AccessInv, AccessTypeOK, AccessSessionsAreSound, SessionHolds, Session, Inv, TypeOK
<1>2. /\ assigned \in User /\ assigned.password = s.loaded.password
      /\ assigned.status = s.loaded.status
  BY <1>1 DEF User
<1>3. user' = [user EXCEPT ![s.user] = new]
  BY DEF Issue
<1> HIDE DEF assigned
<1>4. new.password = user[s.user].password /\ new.status = user[s.user].status
  BY <1>1, <1>2, FlushUserColumns
<1> HIDE DEF new
<1>5. QED
  BY <1>1, <1>3, <1>4 DEF AccessInv, Inv, TypeOK

LEMMA ResetCarriesPassword ==
  ASSUME AccessInv, NEW l \in Login, Reset(l)
  PROVE  /\ \A u \in UserId : \/ user'[u].password = user[u].password
                              \/ u = session[l].user /\ user'[u].password = session[l].password
         /\ \A u \in UserId : user'[u].status = user[u].status
<1> DEFINE s == session[l]
           kept == Flush(user[s.user], s.loaded, s.loaded)
           new == [kept EXCEPT !.password = s.password]
<1>1. s \in Session /\ s.user \in UserId /\ s.loaded \in User /\ user[s.user] \in User
  BY DEF Reset, AccessInv, AccessTypeOK, AccessSessionsAreSound, SessionHolds, Session, Inv, TypeOK
<1>2. kept \in User /\ kept.status = user[s.user].status
  BY <1>1, FlushUserColumns
<1>3. user' = [user EXCEPT ![s.user] = new]
  BY DEF Reset
<1> HIDE DEF kept
<1>4. new.password = s.password /\ new.status = user[s.user].status
  BY <1>2 DEF User
<1> HIDE DEF new
<1>5. QED
  BY <1>1, <1>3, <1>4 DEF AccessInv, Inv, TypeOK

LEMMA AccessPasswords ==
  ASSUME AccessInv, BlankRows, [AccessNext]_accessVars
  PROVE  PasswordsAreCarried /\ BlankRows'
<1>1. ASSUME [Next]_vars PROVE PasswordsAreCarried /\ BlankRows'
  BY <1>1, NextPasswords DEF AccessInv, PasswordsEvolve, PasswordsAreCarried
<1>2. ASSUME NEW l \in Login, Issue(l)
      PROVE  PasswordsAreCarried /\ BlankRows'
  BY <1>2, IssueKeepsPasswords DEF PasswordsAreCarried, BlankRows
<1>3. ASSUME NEW l \in Login, Reset(l)
      PROVE  PasswordsAreCarried /\ BlankRows'
  <2>1. session[l].phase = "reset" /\ session'[l].phase = "idle"
    BY <1>3, SessionsAreTyped DEF Reset, Closes, AccessInv, AccessTypeOK
  <2>2. PasswordsAreCarried
    BY <1>3, <2>1, ResetCarriesPassword DEF PasswordsAreCarried
  <2>3. ASSUME NEW u \in UserId, user'[u].status = Absent, user'[u].password # None
        PROVE  FALSE
    <3>1. user[u].status = Absent /\ user[u].password = None
      BY <1>3, <2>3, ResetCarriesPassword DEF BlankRows
    <3>2. u = session[l].user
      BY <1>3, <2>3, <3>1, ResetCarriesPassword
    <3>3. user[session[l].user].status # Absent
      BY <2>1 DEF AccessInv, AccessSessionsAreSound, SessionHolds
    <3>4. QED
      BY <3>1, <3>2, <3>3
  <2>4. QED
    BY <2>2, <2>3 DEF BlankRows
<1>4. ASSUME NEW l \in Login, SessionReads(l)
      PROVE  UNCHANGED vars
  BY <1>4 DEF SessionReads, LoginReadUser, RefreshReadUser, AuthenticateReadUser, RecoverReadUser,
              ResetReadUser, Opens, Continues
<1>5. ASSUME NEW l \in Login, ReadMembership(l) \/ Respond(l) \/ SessionFails(l)
                              \/ \E r \in RecoveryToken : Recover(l, r)
      PROVE  UNCHANGED vars
  BY <1>5 DEF ReadMembership, Respond, SessionFails, Recover, Continues
<1>6. QED
  BY <1>1, <1>2, <1>3, <1>4, <1>5
     DEF AccessNext, SessionSteps, accessVars, RecoveryLapses, AccessExpires, RefreshExpires

\* However logins, refreshes, resets and acceptances overlap, a stored password is replaced
\* only by the request that was given the new one.
THEOREM ChosenPasswords == AccessSpec => PasswordsAreChosen
<1>1. AccessInit => BlankRows
  BY DEF AccessInit, Init, BlankRows, NoUser
<1>2. AccessInv /\ BlankRows /\ [AccessNext]_accessVars => BlankRows'
  BY AccessPasswords
<1>3. AccessInv /\ BlankRows /\ [AccessNext]_accessVars => [PasswordsAreCarried]_accessVars
  BY AccessPasswords
<1>4. AccessSpec => [][PasswordsAreCarried]_accessVars
  BY <1>1, <1>2, <1>3, AccessInvariance, PTL DEF AccessSpec
<1>5. QED
  BY <1>4 DEF PasswordsAreChosen, PasswordsAreCarried

=============================================================================
