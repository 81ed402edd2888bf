------------------------ MODULE Organizations_proofs ------------------------
(***************************************************************************)
(* What the organizations table and Optscale agree on, whatever fails or   *)
(* overlaps, and that external ids are unique, for every number of         *)
(* organizations, names, users and requests in flight.                     *)
(***************************************************************************)
EXTENDS Organizations, TLAPS

\* The inductive invariant: commits rest on what the sessions in flight know of Optscale.
Inv ==
  /\ TypeOK
  /\ LinksAreReal
  /\ NamesWereAccepted
  /\ DeletedAreSuspended
  /\ RecordedAreAdmins
  /\ SessionsAreSound

-----------------------------------------------------------------------------
(* Rows *)

LEMMA RowsAreTyped ==
  /\ NoOrganization \in Organization
  /\ NoRemote \in RemoteOrganization /\ NoRemote.named = {}
  /\ Idle \in Request /\ Idle.phase = "idle" /\ Idle.org = None /\ ~Idle.wrote
BY DEF NoOrganization, Organization, Absent, NoRemote, RemoteOrganization, Idle, Request, Phase

LEMMA FlushColumns ==
  ASSUME NEW row \in Organization, NEW loaded \in Organization, NEW assigned \in Organization
  PROVE  LET new == Flush(row, loaded, assigned) IN
         /\ new \in Organization
         /\ new.status = IF assigned.status = loaded.status THEN row.status ELSE assigned.status
         /\ new.name = IF assigned.name = loaded.name THEN row.name ELSE assigned.name
         /\ new.external = IF assigned.external = loaded.external
                           THEN row.external ELSE assigned.external
         /\ new.linked = IF assigned.linked = loaded.linked THEN row.linked ELSE assigned.linked
BY DEF Flush, Organization

LEMMA IdleIsSound == SessionIsSound(Idle) /\ SessionIsSound(Idle)'
BY RowsAreTyped DEF SessionIsSound, WithoutRow

-----------------------------------------------------------------------------
(* Steps that commit no organization *)

\* What exists at Optscale stays there; names and suspensions only accumulate.
RemotesEvolve ==
  /\ remote' \in [Remote -> RemoteOrganization]
  /\ \A r \in Remote :
       /\ remote[r] # NoRemote => remote'[r] # NoRemote
       /\ remote'[r] # NoRemote => remote'[r].named # {}
       /\ remote[r].named \subseteq remote'[r].named
       /\ remote[r].suspended => remote'[r].suspended

\* Employees and administrators are added only; those newly recorded are administrators.
PeopleEvolve ==
  /\ remote_user' \in [Email -> UserState]
  /\ employee \subseteq employee' /\ employee' \subseteq Email \X Remote
  /\ admin \subseteq admin' /\ admin' \subseteq Email \X Remote
  /\ recorded' \subseteq OrganizationId \X Email
  /\ \A o \in OrganizationId, e \in Email : <<o, e>> \in recorded' \ recorded
       => /\ organization[o].status # Absent
          /\ o \notin Partial => <<e, organization[o].linked>> \in employee' \cap admin'

LEMMA SessionsEvolve ==
  ASSUME Inv, UNCHANGED organization, RemotesEvolve, PeopleEvolve
  PROVE  \A r \in Request : SessionIsSound(r) => SessionIsSound(r)'
<1> SUFFICES ASSUME NEW r \in Request, SessionIsSound(r) PROVE SessionIsSound(r)'
  OBVIOUS
<1>1. r.loaded.linked # None => r.loaded.linked \in Remote
  BY DEF Request, Organization
<1>2. QED
  BY <1>1 DEF SessionIsSound, RemotesEvolve, PeopleEvolve, Inserting

LEMMA RowsEvolve ==
  ASSUME Inv, UNCHANGED organization, RemotesEvolve, PeopleEvolve
  PROVE  LinksAreReal' /\ NamesWereAccepted' /\ DeletedAreSuspended' /\ RecordedAreAdmins'
<1>1. \A o \in Ours : organization[o].linked \in Remote
  BY DEF Inv, TypeOK, Organization, LinksAreReal, Ours
<1>2. Ours' = Ours
  BY DEF Ours
<1>3. LinksAreReal'
  BY <1>1, <1>2 DEF Inv, LinksAreReal, RemotesEvolve
<1>4. NamesWereAccepted' /\ DeletedAreSuspended'
  BY <1>1, <1>2 DEF Inv, NamesWereAccepted, DeletedAreSuspended, RemotesEvolve
<1>5. RecordedAreAdmins'
  BY <1>2 DEF Inv, RecordedAreAdmins, PeopleEvolve, Ours
<1>6. QED
  BY <1>3, <1>4, <1>5

\* The session of one request becomes to.
LEMMA StepInv ==
  ASSUME Inv, NEW c \in Client, NEW to \in Request, Goes(c, to),
         UNCHANGED organization, RemotesEvolve, PeopleEvolve, SessionIsSound(to)',
         \A d \in Client \ {c} : Exclusive(to, request[d]) /\ Exclusive(request[d], to)
  PROVE  Inv'
<1>1. request' \in [Client -> Request] /\ request'[c] = to
      /\ \A d \in Client \ {c} : request'[d] = request[d]
  BY DEF Goes, Inv, TypeOK
<1>2. TypeOK'
  BY <1>1 DEF Inv, TypeOK, RemotesEvolve, PeopleEvolve
<1>3. \A d \in Client : SessionIsSound(request[d])'
  <2> SUFFICES ASSUME NEW d \in Client PROVE SessionIsSound(request[d])'
    OBVIOUS
  <2>1. CASE d = c
    BY <1>1, <2>1 DEF SessionIsSound
  <2>2. CASE d # c
    <3>1. request'[d] = request[d] /\ request[d] \in Request /\ SessionIsSound(request[d])
      BY <1>1, <2>2 DEF Inv, TypeOK, SessionsAreSound
    <3>2. PICK r \in Request : r = request[d]
      BY <3>1
    <3>3. SessionIsSound(r)
      BY <3>1, <3>2
    <3>4. SessionIsSound(r)'
      BY <3>3, SessionsEvolve
    <3>5. request'[d] = r
      BY <3>1, <3>2
    <3>6. QED
      BY <3>4, <3>5 DEF SessionIsSound
  <2>3. QED
    BY <2>1, <2>2
<1>4. \A d, e \in Client : d # e => Exclusive(request'[d], request'[e])
  BY <1>1 DEF Inv, SessionsAreSound
<1>5. SessionsAreSound'
  <2>1. \A o \in OrganizationId : organization[o].linked # None
          => organization[o].linked \in Remote
    BY DEF Inv, TypeOK, Organization
  <2>2. \A d, e \in Client : d # e => Exclusive(request[d], request[e])'
    BY <1>4 DEF Exclusive, Inserting
  <2>3. QED
    BY <1>3, <2>1, <2>2 DEF Inv, SessionsAreSound, RemotesEvolve, PeopleEvolve
<1>6. QED
  BY <1>2, <1>5, RowsEvolve DEF Inv

LEMMA SameRemotes ==
  ASSUME Inv, UNCHANGED remote PROVE RemotesEvolve
BY DEF Inv, TypeOK, SessionsAreSound, RemotesEvolve

LEMMA SamePeople ==
  ASSUME Inv, UNCHANGED people PROVE PeopleEvolve
BY DEF Inv, TypeOK, people, PeopleEvolve

\* A request that goes on, or is over, with the row it had and what it had flushed.
LEMMA SameRow ==
  ASSUME Inv, NEW c \in Client, NEW to \in Request,
         \/ to = Idle
         \/ /\ to.org = request[c].org /\ to.wrote = request[c].wrote
            /\ Inserting(to) => Inserting(request[c])
            /\ to.phase # "link"
  PROVE  \A d \in Client \ {c} : Exclusive(to, request[d]) /\ Exclusive(request[d], to)
<1> SUFFICES ASSUME NEW d \in Client \ {c}
             PROVE  Exclusive(to, request[d]) /\ Exclusive(request[d], to)
  OBVIOUS
<1>1. /\ Exclusive(request[c], request[d]) /\ Exclusive(request[d], request[c])
      /\ SessionIsSound(request[d]) /\ request[d] \in Request
  BY DEF Inv, TypeOK, SessionsAreSound
<1>2. Inserting(request[d]) => request[d].org # None
  BY <1>1, OrganizationsAssumption DEF SessionIsSound, Inserting
<1>3. QED
  BY <1>1, <1>2, RowsAreTyped DEF Exclusive, Inserting

LEMMA ReadsInv ==
  ASSUME Inv, NEW c \in Client, NEW to \in Request, Reads(c, to), SessionIsSound(to),
         \A d \in Client \ {c} : Exclusive(to, request[d]) /\ Exclusive(request[d], to)
  PROVE  Inv'
<1>1. Goes(c, to) /\ UNCHANGED organization /\ RemotesEvolve /\ PeopleEvolve
  BY SameRemotes, SamePeople DEF Reads
<1>2. SessionIsSound(to)'
  BY <1>1, SessionsEvolve
<1>3. QED
  BY <1>1, <1>2, StepInv

LEMMA EndsInv ==
  ASSUME Inv, NEW c \in Client, Goes(c, Idle), UNCHANGED organization,
         RemotesEvolve, PeopleEvolve
  PROVE  Inv'
BY RowsAreTyped, IdleIsSound, SameRow, StepInv

LEMMA AnsweredInv ==
  ASSUME Inv, NEW c \in Client, NEW to \in Request, Answered(c, to), UNCHANGED organization,
         RemotesEvolve, PeopleEvolve, SessionIsSound(to)',
         \A d \in Client \ {c} : Exclusive(to, request[d]) /\ Exclusive(request[d], to)
  PROVE  Inv'
BY EndsInv, StepInv DEF Answered

-----------------------------------------------------------------------------
(* Reading a row *)

LEMMA LoadedRow ==
  ASSUME Inv, NEW o \in OrganizationId, organization[o].status # Absent
  PROVE  /\ organization[o] \in Organization
         /\ organization[o].name \in Name /\ organization[o].external \in ExternalId
         /\ organization[o].linked # None => remote[organization[o].linked] # NoRemote
BY DEF Inv, TypeOK, SessionsAreSound

\* A request that loads a row to do something with it.
LEMMA LoadInv ==
  ASSUME Inv, NEW c \in Client, NEW o \in OrganizationId, organization[o].status # Absent,
         NEW to \in Request, Reads(c, to),
         to.org = o, to.loaded = organization[o], ~to.wrote,
         \/ to.phase = "suspend"
         \/ to.phase = "provision" /\ to.loaded.linked = None /\ to.name = to.loaded.name
         \/ to.phase = "set_external" /\ to.external \in ExternalId
                                     /\ (to.name # None => to.loaded.linked # None)
         \/ to.phase = "rename" /\ to.loaded.linked # None /\ to.name \in Name
         \/ to.phase = "find_user" /\ to.email \in Email
  PROVE  Inv'
<1>1. SessionIsSound(to)
  BY LoadedRow DEF SessionIsSound, WithoutRow, Inserting
<1>2. \A d \in Client \ {c} : Exclusive(to, request[d]) /\ Exclusive(request[d], to)
  BY DEF Exclusive, Inserting, Inv, SessionsAreSound, SessionIsSound
<1>3. QED
  BY <1>1, <1>2, ReadsInv

LEMMA CreateLookUpInv ==
  ASSUME Inv, NEW c \in Client, NEW x \in ExternalId, NEW n \in Name, CreateLookUp(c, x, n)
  PROVE  Inv'
<1>1. CASE Reads(c, [Idle EXCEPT !.phase = "insert", !.name = n, !.external = x])
  <2> DEFINE to == [Idle EXCEPT !.phase = "insert", !.name = n, !.external = x]
  <2>1. /\ to \in Request /\ to.phase = "insert" /\ to.org = None /\ ~to.wrote
        /\ to.name = n /\ to.external = x
    BY RowsAreTyped DEF Idle, Request, Phase
  <2>2. SessionIsSound(to)
    BY <2>1 DEF SessionIsSound, WithoutRow
  <2>3. \A d \in Client \ {c} : Exclusive(to, request[d]) /\ Exclusive(request[d], to)
    BY <2>1, OrganizationsAssumption
       DEF Exclusive, Inserting, Inv, SessionsAreSound, SessionIsSound
  <2>4. QED
    BY <1>1, <2>1, <2>2, <2>3, ReadsInv
<1>2. ASSUME NEW o \in OrganizationId, organization[o].external = x,
             organization[o].linked = None, organization[o].name = n,
             Reads(c, [Load(o, "provision") EXCEPT !.name = n])
      PROVE  Inv'
  <2> DEFINE to == [Load(o, "provision") EXCEPT !.name = n]
  <2>1. organization[o] \in Organization
    BY DEF Inv, TypeOK
  <2>2. /\ to \in Request /\ to.phase = "provision" /\ to.org = o /\ ~to.wrote
        /\ to.name = n /\ to.loaded = organization[o]
    BY <2>1, RowsAreTyped DEF Load, Idle, Request, Phase
  <2>3. organization[o].status # Absent
    BY <1>2, OrganizationsAssumption DEF Inv, SessionsAreSound, NoOrganization
  <2>4. QED
    BY <1>2, <2>2, <2>3, LoadInv
<1>3. QED
  BY <1>1, <1>2 DEF CreateLookUp

LEMMA CreateInsertInv ==
  ASSUME Inv, NEW c \in Client, NEW o \in OrganizationId, CreateInsert(c, o)
  PROVE  Inv'
<1> DEFINE row == [status |-> "active", name |-> request[c].name,
                   external |-> request[c].external, linked |-> None]
           to == [request[c] EXCEPT !.phase = "provision", !.org = o, !.wrote = TRUE,
                    !.holds = {request[c].external}, !.loaded = row]
<1>1. /\ request[c] \in Request /\ request[c].phase = "insert"
      /\ request[c].name \in Name /\ request[c].external \in ExternalId
      /\ organization[o].status = Absent /\ o \notin Partial
  BY DEF CreateInsert, Inv, TypeOK, SessionsAreSound, SessionIsSound
<1>2. row \in Organization
  BY <1>1 DEF Organization, OrganizationStatus
<1>3. /\ to \in Request /\ to.phase = "provision" /\ to.org = o /\ to.wrote
      /\ to.loaded = row /\ to.name = request[c].name
  BY <1>1, <1>2 DEF Request, Phase
<1>4. SessionIsSound(to)
  BY <1>1, <1>3 DEF SessionIsSound, WithoutRow, Inserting, Absent
<1>5. \A d \in Client \ {c} : Exclusive(to, request[d]) /\ Exclusive(request[d], to)
  BY <1>3 DEF Exclusive, CreateInsert
<1>6. Reads(c, to)
  BY DEF CreateInsert
<1> HIDE DEF to
<1>7. QED
  BY <1>3, <1>4, <1>5, <1>6, ReadsInv

LEMMA UpdateReadInv ==
  ASSUME Inv, NEW c \in Client, NEW o \in OrganizationId, NEW n \in Name \cup {None},
         NEW x \in ExternalId \cup {None}, UpdateRead(c, o, n, x)
  PROVE  Inv'
<1> DEFINE phase == IF x # None THEN "set_external" ELSE "rename"
           to == [Load(o, phase) EXCEPT !.name = n, !.external = x]
<1>1. organization[o] \in Organization /\ phase \in Phase
  BY DEF Inv, TypeOK, Phase
<1>2. /\ to \in Request /\ to.phase = phase /\ to.org = o /\ ~to.wrote
      /\ to.loaded = organization[o] /\ to.name = n /\ to.external = x
  BY <1>1, RowsAreTyped DEF Load, Idle, Request
<1>3. /\ Reads(c, to) /\ organization[o].status # Absent
      /\ n # None \/ x # None
      /\ n # None => organization[o].linked # None
  BY DEF UpdateRead
<1> HIDE DEF to
<1>4. QED
  BY <1>2, <1>3, LoadInv

LEMMA DeleteReadInv ==
  ASSUME Inv, NEW c \in Client, NEW o \in OrganizationId, DeleteRead(c, o)
  PROVE  Inv'
<1> DEFINE to == Load(o, "suspend")
<1>1. /\ to \in Request /\ to.phase = "suspend" /\ to.org = o /\ ~to.wrote
      /\ to.loaded = organization[o]
  BY RowsAreTyped DEF Load, Idle, Request, Phase, Inv, TypeOK
<1>2. Reads(c, to) /\ organization[o].status # Absent
  BY DEF DeleteRead
<1>3. QED
  BY <1>1, <1>2, LoadInv

LEMMA AddAdminReadInv ==
  ASSUME Inv, NEW c \in Client, NEW o \in OrganizationId, NEW e \in Email,
         AddAdminRead(c, o, e)
  PROVE  Inv'
<1> DEFINE to == [Load(o, "find_user") EXCEPT !.email = e]
<1>1. /\ to \in Request /\ to.phase = "find_user" /\ to.org = o /\ ~to.wrote
      /\ to.loaded = organization[o] /\ to.email = e
  BY RowsAreTyped DEF Load, Idle, Request, Phase, Inv, TypeOK
<1>2. Reads(c, to) /\ organization[o].status # Absent
  BY DEF AddAdminRead
<1>3. QED
  BY <1>1, <1>2, LoadInv

-----------------------------------------------------------------------------
(* Calls of Optscale *)

\* What is known of the request before and after the call; r is its session.
LEMMA CallFacts ==
  ASSUME Inv, NEW c \in Client
  PROVE  request[c] \in Request /\ SessionIsSound(request[c])
         /\ (request[c].loaded.linked # None => request[c].loaded.linked \in Remote)
BY DEF Inv, TypeOK, SessionsAreSound, Request, Organization

LEMMA FindUserInv ==
  ASSUME Inv, NEW c \in Client, FindUser(c)
  PROVE  Inv'
<1> DEFINE next == IF remote_user[request[c].email] = Absent THEN "create_user" ELSE "employ"
           to == [request[c] EXCEPT !.phase = next]
<1>1. /\ to \in Request /\ to.phase \in {"create_user", "employ"}
      /\ to.org = request[c].org /\ to.wrote = request[c].wrote /\ to.loaded = request[c].loaded
      /\ to.email = request[c].email
  BY CallFacts DEF Request, Phase
<1>2. Reads(c, to) /\ request[c].phase = "find_user"
  BY DEF FindUser
<1> HIDE DEF to
<1>3. SessionIsSound(to)
  BY <1>1, <1>2, CallFacts DEF SessionIsSound, WithoutRow, Inserting
<1>4. QED
  BY <1>1, <1>2, <1>3, SameRow, ReadsInv DEF Inserting

\* A call that changes only users, employees and administrators.
LEMMA PeopleCallInv ==
  ASSUME Inv, NEW c \in Client, NEW to \in Request, Answered(c, to),
         UNCHANGED <<organization, remote>>, PeopleEvolve,
         request[c].phase \in {"create_user", "employ", "promote", "reset"},
         to.org = request[c].org, to.wrote = request[c].wrote,
         to.loaded = request[c].loaded, to.email = request[c].email,
         \/ to.phase = "employ"
         \/ /\ to.phase \in {"promote", "reset", "record"}
            /\ to.loaded.linked # None
            /\ <<to.email, to.loaded.linked>> \in employee'
            /\ to.phase \in {"reset", "record"} => <<to.email, to.loaded.linked>> \in admin'
  PROVE  Inv'
<1>1. RemotesEvolve
  BY SameRemotes
<1>2. SessionIsSound(to)'
  <2>1. PICK r \in Request : r = request[c]
    BY CallFacts
  <2>2. SessionIsSound(r)'
    BY <1>1, <2>1, CallFacts, SessionsEvolve
  <2>3. QED
    BY <2>1, <2>2 DEF SessionIsSound, WithoutRow, Inserting
<1>3. \A d \in Client \ {c} : Exclusive(to, request[d]) /\ Exclusive(request[d], to)
  BY SameRow DEF Inserting
<1>4. QED
  BY <1>1, <1>2, <1>3, AnsweredInv

LEMMA CreateUserInv ==
  ASSUME Inv, NEW c \in Client, CreateUser(c)
  PROVE  Inv'
<1> DEFINE to == [request[c] EXCEPT !.phase = "employ", !.created = TRUE]
<1>1. /\ to \in Request /\ to.phase = "employ" /\ to.email = request[c].email
      /\ to.org = request[c].org /\ to.wrote = request[c].wrote /\ to.loaded = request[c].loaded
  BY CallFacts DEF Request, Phase
<1>2. Answered(c, to) /\ UNCHANGED <<organization, remote>> /\ request[c].phase = "create_user"
  BY DEF CreateUser
<1>3. PeopleEvolve
  BY DEF CreateUser, PeopleEvolve, Inv, TypeOK, UserState
<1> HIDE DEF to
<1>4. QED
  BY <1>1, <1>2, <1>3, PeopleCallInv

LEMMA EmployInv ==
  ASSUME Inv, NEW c \in Client, Employ(c)
  PROVE  Inv'
<1> DEFINE to == [request[c] EXCEPT !.phase = "promote"]
<1>1. /\ to \in Request /\ to.phase = "promote" /\ to.email = request[c].email
      /\ to.org = request[c].org /\ to.wrote = request[c].wrote /\ to.loaded = request[c].loaded
  BY CallFacts DEF Request, Phase
<1>2. Answered(c, to) /\ UNCHANGED <<organization, remote>> /\ request[c].phase = "employ"
      /\ to.loaded.linked # None
  BY <1>1 DEF Employ
<1>3. request[c].email \in Email /\ request[c].loaded.linked \in Remote
  BY <1>1, <1>2, CallFacts DEF SessionIsSound
<1>4. PeopleEvolve /\ <<to.email, to.loaded.linked>> \in employee'
  BY <1>1, <1>3 DEF Employ, PeopleEvolve, Inv, TypeOK
<1> HIDE DEF to
<1>5. QED
  BY <1>1, <1>2, <1>4, PeopleCallInv

LEMMA PromoteInv ==
  ASSUME Inv, NEW c \in Client, Promote(c)
  PROVE  Inv'
<1> DEFINE next == IF request[c].created THEN "reset" ELSE "record"
           to == [request[c] EXCEPT !.phase = next]
<1>1. /\ to \in Request /\ to.phase \in {"reset", "record"} /\ to.email = request[c].email
      /\ to.org = request[c].org /\ to.wrote = request[c].wrote /\ to.loaded = request[c].loaded
  BY CallFacts DEF Request, Phase
<1>2. Answered(c, to) /\ UNCHANGED <<organization, remote>> /\ request[c].phase = "promote"
  BY DEF Promote
<1>3. /\ request[c].email \in Email /\ request[c].loaded.linked \in Remote
      /\ request[c].loaded.linked # None
      /\ <<request[c].email, request[c].loaded.linked>> \in employee
  BY <1>2, CallFacts DEF SessionIsSound
<1>4. PeopleEvolve /\ <<to.email, to.loaded.linked>> \in employee' \cap admin'
  BY <1>1, <1>3 DEF Promote, PeopleEvolve, Inv, TypeOK
<1> HIDE DEF to
<1>5. QED
  BY <1>1, <1>2, <1>3, <1>4, PeopleCallInv

LEMMA ResetPasswordInv ==
  ASSUME Inv, NEW c \in Client, ResetPassword(c)
  PROVE  Inv'
<1> DEFINE to == [request[c] EXCEPT !.phase = "record"]
<1>1. /\ to \in Request /\ to.phase = "record" /\ to.email = request[c].email
      /\ to.org = request[c].org /\ to.wrote = request[c].wrote /\ to.loaded = request[c].loaded
  BY CallFacts DEF Request, Phase
<1>2. Answered(c, to) /\ UNCHANGED <<organization, remote>> /\ request[c].phase = "reset"
  BY DEF ResetPassword
<1>3. /\ request[c].loaded.linked # None
      /\ <<request[c].email, request[c].loaded.linked>> \in employee \cap admin
  BY <1>2, CallFacts DEF SessionIsSound
<1>4. PeopleEvolve /\ <<to.email, to.loaded.linked>> \in employee' \cap admin'
  BY <1>1, <1>3 DEF ResetPassword, PeopleEvolve, Inv, TypeOK, UserState
<1> HIDE DEF to
<1>5. QED
  BY <1>1, <1>2, <1>3, <1>4, PeopleCallInv

LEMMA CreateEmployeeInv ==
  ASSUME Inv, NEW c \in Client, NEW e \in Email, CreateEmployee(c, e)
  PROVE  Inv'
<1> DEFINE to == [Idle EXCEPT !.phase = "reset_employee", !.email = e]
<1>1. /\ to \in Request /\ to.phase = "reset_employee" /\ to.email = e
      /\ to.org = None /\ ~to.wrote
  BY RowsAreTyped DEF Idle, Request, Phase
<1>2. PeopleEvolve
  BY DEF CreateEmployee, PeopleEvolve, Inv, TypeOK, UserState
<1>3. RemotesEvolve
  BY SameRemotes DEF CreateEmployee
<1>4. SessionIsSound(to)'
  BY <1>1 DEF SessionIsSound, WithoutRow
<1>5. \A d \in Client \ {c} : Exclusive(to, request[d]) /\ Exclusive(request[d], to)
  BY <1>1, OrganizationsAssumption
     DEF Exclusive, Inserting, Inv, SessionsAreSound, SessionIsSound
<1>6. Answered(c, to) /\ UNCHANGED organization
  BY DEF CreateEmployee
<1> HIDE DEF to
<1>7. QED
  BY <1>1, <1>2, <1>3, <1>4, <1>5, <1>6, AnsweredInv

LEMMA ResetEmployeePasswordInv ==
  ASSUME Inv, NEW c \in Client, ResetEmployeePassword(c)
  PROVE  Inv'
<1>1. request[c].email \in Email
  BY CallFacts DEF ResetEmployeePassword, SessionIsSound
<1>2. PeopleEvolve
  BY <1>1 DEF ResetEmployeePassword, PeopleEvolve, Inv, TypeOK, UserState
<1>3. RemotesEvolve
  BY SameRemotes DEF ResetEmployeePassword
<1>4. QED
  BY <1>2, <1>3, EndsInv DEF ResetEmployeePassword

\* Who is recorded has been promoted in the organization the session has loaded.
LEMMA RecordInv ==
  ASSUME Inv, NEW c \in Client, Record(c)
  PROVE  Inv'
<1>1. /\ request[c].org \in OrganizationId /\ request[c].email \in Email
      /\ organization[request[c].org].status # Absent
      /\ request[c].org \notin Partial
           => request[c].loaded.linked = organization[request[c].org].linked
      /\ <<request[c].email, request[c].loaded.linked>> \in employee \cap admin
  BY CallFacts DEF Record, SessionIsSound, WithoutRow, Inserting
<1>2. PeopleEvolve
  BY <1>1 DEF Record, PeopleEvolve, Inv, TypeOK
<1>3. RemotesEvolve
  BY SameRemotes DEF Record
<1>4. QED
  BY <1>2, <1>3, EndsInv DEF Record

LEMMA MakeAdminInv ==
  ASSUME Inv, NEW o \in OrganizationId, NEW e \in Email, MakeAdmin(o, e)
  PROVE  Inv'
<1>1. organization[o].linked \in Remote
  BY DEF MakeAdmin, Inv, TypeOK, Organization
<1>2. RemotesEvolve /\ PeopleEvolve /\ UNCHANGED <<organization, remote, request, recorded>>
  BY <1>1, SameRemotes DEF MakeAdmin, PeopleEvolve, Inv, TypeOK
<1>3. TypeOK'
  BY <1>2 DEF Inv, TypeOK, PeopleEvolve
<1>4. \A d \in Client : SessionIsSound(request[d])'
  <2> SUFFICES ASSUME NEW d \in Client PROVE SessionIsSound(request[d])'
    OBVIOUS
  <2>1. PICK r \in Request : r = request[d]
    BY CallFacts
  <2>2. SessionIsSound(r)'
    BY <1>2, <2>1, CallFacts, SessionsEvolve
  <2>3. QED
    BY <1>2, <2>1, <2>2 DEF SessionIsSound
<1>5. SessionsAreSound'
  BY <1>2, <1>4 DEF Inv, SessionsAreSound, Exclusive, Inserting
<1>6. QED
  BY <1>2, <1>3, <1>5, RowsEvolve DEF Inv

\* A call that changes only an organization at Optscale.
LEMMA RemoteCallInv ==
  ASSUME Inv, NEW c \in Client, NEW to \in Request, Answered(c, to),
         UNCHANGED <<organization, people>>, RemotesEvolve,
         to.org = request[c].org, to.wrote = request[c].wrote,
         to.loaded = request[c].loaded, to.name = request[c].name,
         to.loaded.linked # None,
         \/ /\ request[c].phase = "rename" /\ to.phase = "save_name"
            /\ to.name \in remote'[to.loaded.linked].named
         \/ /\ request[c].phase = "suspend" /\ to.phase = "delete"
            /\ remote'[to.loaded.linked].suspended
  PROVE  Inv'
<1>1. PeopleEvolve
  BY SamePeople
<1>2. SessionIsSound(to)'
  <2>1. PICK r \in Request : r = request[c]
    BY CallFacts
  <2>2. SessionIsSound(r)'
    BY <1>1, <2>1, CallFacts, SessionsEvolve
  <2>3. QED
    BY <2>1, <2>2 DEF SessionIsSound, WithoutRow, Inserting
<1>3. \A d \in Client \ {c} : Exclusive(to, request[d]) /\ Exclusive(request[d], to)
  BY SameRow DEF Inserting
<1>4. QED
  BY <1>1, <1>2, <1>3, AnsweredInv

LEMMA RenameInv ==
  ASSUME Inv, NEW c \in Client, Rename(c)
  PROVE  Inv'
<1> DEFINE linked == request[c].loaded.linked
           to == [request[c] EXCEPT !.phase = "save_name"]
<1>1. /\ to \in Request /\ to.phase = "save_name" /\ to.name = request[c].name
      /\ to.org = request[c].org /\ to.wrote = request[c].wrote /\ to.loaded = request[c].loaded
  BY CallFacts DEF Request, Phase
<1>2. /\ Answered(c, to) /\ UNCHANGED <<organization, people>> /\ request[c].phase = "rename"
      /\ remote' = [remote EXCEPT ![linked].name = request[c].name,
                                  ![linked].named = @ \cup {request[c].name}]
  BY DEF Rename
<1>3. linked \in Remote /\ linked # None /\ request[c].name \in Name
  BY <1>2, CallFacts DEF SessionIsSound
<1>4. RemotesEvolve /\ request[c].name \in remote'[linked].named
  BY <1>2, <1>3, RowsAreTyped DEF RemotesEvolve, RemoteOrganization, Inv, TypeOK, SessionsAreSound
<1> HIDE DEF to
<1>5. QED
  BY <1>1, <1>2, <1>3, <1>4, RemoteCallInv

LEMMA SuspendInv ==
  ASSUME Inv, NEW c \in Client, Suspend(c)
  PROVE  Inv'
<1> DEFINE linked == request[c].loaded.linked
           to == [request[c] EXCEPT !.phase = "delete"]
<1>1. /\ to \in Request /\ to.phase = "delete" /\ to.name = request[c].name
      /\ to.org = request[c].org /\ to.wrote = request[c].wrote /\ to.loaded = request[c].loaded
  BY CallFacts DEF Request, Phase
<1>2. /\ Answered(c, to) /\ UNCHANGED <<organization, people>> /\ request[c].phase = "suspend"
      /\ remote' = [remote EXCEPT ![linked].suspended = TRUE]
      /\ linked # None
  BY DEF Suspend
<1>3. linked \in Remote
  BY <1>2, CallFacts
<1>4. remote[linked] # NoRemote
  BY <1>2, CallFacts DEF SessionIsSound, WithoutRow
<1>5. RemotesEvolve /\ remote'[linked].suspended
  BY <1>2, <1>3, <1>4, RowsAreTyped DEF RemotesEvolve, RemoteOrganization, Inv, TypeOK, SessionsAreSound
<1> HIDE DEF to
<1>6. QED
  BY <1>1, <1>2, <1>5, RemoteCallInv

\* Optscale gives an id that nobody has, and that no other request is about to link.
LEMMA ProvisionInv ==
  ASSUME Inv, NEW c \in Client, NEW r \in Remote, Provision(c, r)
  PROVE  Inv'
<1> DEFINE new == [name |-> request[c].name, named |-> {request[c].name}, suspended |-> FALSE]
<1>1. PICK to \in Request :
        /\ Answered(c, to) /\ to.phase = "link" /\ to.name = request[c].name /\ to.remote = r
        /\ to.org = request[c].org /\ to.wrote = request[c].wrote /\ to.loaded = request[c].loaded
  <2> DEFINE t == [request[c] EXCEPT !.phase = "link", !.remote = r]
  <2>1. /\ t \in Request /\ t.phase = "link" /\ t.name = request[c].name /\ t.remote = r
        /\ t.org = request[c].org /\ t.wrote = request[c].wrote /\ t.loaded = request[c].loaded
    BY CallFacts DEF Request, Phase
  <2>2. Answered(c, t)
    BY DEF Provision
  <2> HIDE DEF t
  <2>3. QED
    BY <2>1, <2>2
<1>2. /\ UNCHANGED <<organization, people>>
      /\ request[c].phase = "provision" /\ remote[r] = NoRemote
      /\ remote' = [remote EXCEPT ![r] = new]
  BY DEF Provision
<1>3. request[c].name \in Name
  BY <1>2, CallFacts DEF SessionIsSound, WithoutRow
<1>4. new \in RemoteOrganization /\ new.named = {request[c].name} /\ new # NoRemote
  BY <1>3, RowsAreTyped DEF RemoteOrganization
<1>5. RemotesEvolve /\ remote'[r] = new
  <2>1. remote'[r] = new /\ \A q \in Remote \ {r} : remote'[q] = remote[q]
    BY <1>2 DEF Inv, TypeOK
  <2>2. remote' \in [Remote -> RemoteOrganization]
    BY <1>2, <1>4 DEF Inv, TypeOK
  <2>3. NoRemote.named = {} /\ ~NoRemote.suspended
    BY DEF NoRemote
  <2> HIDE DEF new
  <2>4. QED
    BY <1>2, <1>4, <2>1, <2>2, <2>3 DEF RemotesEvolve, Inv, SessionsAreSound
<1>6. PeopleEvolve
  BY <1>2, SamePeople
<1>7. \A o \in OrganizationId : organization[o].linked # r
  BY <1>2, OrganizationsAssumption DEF Inv, SessionsAreSound
<1>8. SessionIsSound(to)'
  <2>1. PICK s \in Request : s = request[c]
    BY CallFacts
  <2>2. SessionIsSound(s)'
    BY <1>2, <1>5, <1>6, <2>1, CallFacts, SessionsEvolve
  <2>3. \A o \in OrganizationId : organization'[o].linked # r
    BY <1>2, <1>7
  <2>4. to.name \in remote'[r].named /\ r \in Remote
    BY <1>1, <1>4, <1>5
  <2>5. Inserting(to) = Inserting(s) /\ s.phase = "provision"
    BY <1>1, <1>2, <2>1 DEF Inserting
  <2>6. QED
    BY <1>1, <2>1, <2>2, <2>3, <2>4, <2>5 DEF SessionIsSound, WithoutRow, Inserting
<1>9. \A d \in Client \ {c} : Exclusive(to, request[d]) /\ Exclusive(request[d], to)
  <2> SUFFICES ASSUME NEW d \in Client \ {c}
               PROVE  Exclusive(to, request[d]) /\ Exclusive(request[d], to)
    OBVIOUS
  <2>1. Exclusive(request[c], request[d]) /\ Exclusive(request[d], request[c])
    BY DEF Inv, SessionsAreSound
  <2>2. request[d].phase = "link" => request[d].remote # r
    BY <1>2, CallFacts, RowsAreTyped DEF SessionIsSound
  <2>3. QED
    BY <1>1, <1>2, <2>1, <2>2 DEF Exclusive, Inserting
<1>10. QED
  BY <1>1, <1>2, <1>5, <1>6, <1>8, <1>9, AnsweredInv

-----------------------------------------------------------------------------
(* Changes of a row *)

\* A request is over and leaves row o, which nobody else has flushed, as new: the
\* organization keeps its link, or is linked to what only this request knows of.
LEMMA RowInv ==
  ASSUME Inv, NEW c \in Client, NEW o \in OrganizationId, NEW new \in Organization,
         Goes(c, Idle), organization' = [organization EXCEPT ![o] = new],
         UNCHANGED <<remote, people>>, ~Locked(c, o),
         new.status # Absent, new.name \in Name, new.external \in ExternalId,
         o \notin Partial => /\ new.linked # None
                             /\ new.name \in remote[new.linked].named
                             /\ new.status = "deleted" => remote[new.linked].suspended,
         \/ new.linked = organization[o].linked /\ organization[o].status # Absent
         \/ /\ new.linked \in Remote /\ remote[new.linked] # NoRemote
            /\ \A p \in OrganizationId : organization[p].linked # new.linked
            /\ \A d \in Client \ {c} :
                 request[d].phase = "link" => request[d].remote # new.linked
            /\ o \notin Partial => /\ organization[o].status = Absent
                                   /\ \A d \in Client \ {c} : request[d].org # o
  PROVE  Inv'
<1>1. organization'[o] = new /\ \A p \in OrganizationId \ {o} : organization'[p] = organization[p]
  BY DEF Inv, TypeOK
<1>2. request'[c] = Idle /\ \A d \in Client \ {c} : request'[d] = request[d]
  BY DEF Goes, Inv, TypeOK
<1>3. TypeOK'
  BY RowsAreTyped DEF Goes, Inv, TypeOK, people
<1>4. \A p \in OrganizationId \ {o} : p \in Ours <=> p \in Ours'
  BY <1>1 DEF Ours
<1>5. organization[o].status # Absent => o \in Ours \cup Partial
  BY DEF Ours
<1>6. new.linked # None => new.linked \in Remote /\ remote[new.linked] # NoRemote
  BY DEF Inv, TypeOK, SessionsAreSound, Organization
<1>7. LinksAreReal'
  <2> SUFFICES ASSUME NEW p \in OrganizationId, p \in Ours'
               PROVE  /\ organization'[p].linked # None
                      /\ remote[organization'[p].linked] # NoRemote
                      /\ \A q \in OrganizationId :
                           organization'[q].linked = organization'[p].linked => q = p
    BY DEF LinksAreReal, Ours
  <2>1. CASE p = o
    BY <1>1, <1>5, <1>6, <2>1 DEF Inv, LinksAreReal, Ours
  <2>2. CASE p # o
    BY <1>1, <1>4, <2>2 DEF Inv, LinksAreReal
  <2>3. QED
    BY <2>1, <2>2
<1>8. NamesWereAccepted' /\ DeletedAreSuspended'
  BY <1>1, <1>4 DEF Inv, NamesWereAccepted, DeletedAreSuspended, Ours
<1>9. RecordedAreAdmins'
  <2> SUFFICES ASSUME NEW p \in OrganizationId, p \in Ours', NEW e \in Email,
                      <<p, e>> \in recorded
               PROVE  <<e, organization'[p].linked>> \in employee \cap admin
    BY DEF RecordedAreAdmins, Ours, people
  <2>1. p \in Ours /\ organization'[p].linked = organization[p].linked
    BY <1>1, <1>4 DEF Inv, SessionsAreSound, Ours
  <2>2. QED
    BY <2>1 DEF Inv, RecordedAreAdmins
<1>10. \A d \in Client : SessionIsSound(request[d])'
  <2> SUFFICES ASSUME NEW d \in Client PROVE SessionIsSound(request[d])'
    OBVIOUS
  <2>1. CASE d = c
    BY <1>2, <2>1, IdleIsSound DEF SessionIsSound
  <2>2. CASE d # c
    <3>1. PICK r \in Request : r = request[d]
      BY CallFacts
    <3>2. SessionIsSound(r) /\ request'[d] = r
      BY <1>2, <2>2, <3>1, CallFacts
    <3>3. r.org = o => ~r.wrote
      BY <2>2, <3>1 DEF Locked
    <3>4. r.phase = "link" => organization'[o].linked # r.remote
      BY <1>1, <2>2, <3>1, <3>2 DEF SessionIsSound
    <3>5. \A p \in OrganizationId : r.phase = "link" => organization'[p].linked # r.remote
      BY <1>1, <3>2, <3>4 DEF SessionIsSound
    <3>6. SessionIsSound(r)'
      <4>1. CASE r.org = o
        <5>1. new.linked # None \/ organization[o].linked = new.linked
          BY OrganizationsAssumption
        <5>2. organization[o].status # Absent \/ o \in Partial \/ r.phase \in {"idle", "insert"}
          BY <2>2, <3>1, <4>1
        <5>3. organization[o].status = Absent => o \notin Partial
          BY DEF Inv, SessionsAreSound
        <5>4. o \notin Partial => new.linked = organization[o].linked
          BY <2>2, <3>1, <4>1
        <5>5. QED
          BY <1>1, <3>2, <3>3, <3>5, <4>1, <5>1, <5>2, <5>3, <5>4
             DEF SessionIsSound, Inserting, people
      <4>2. CASE r.org # o
        BY <1>1, <3>2, <3>5, <4>2 DEF SessionIsSound, Inserting, people
      <4>3. QED
        BY <4>1, <4>2
    <3>7. QED
      BY <3>2, <3>6 DEF SessionIsSound
  <2>3. QED
    BY <2>1, <2>2
<1>11. \A d, e \in Client : d # e => Exclusive(request[d], request[e])'
  <2>1. \A d \in Client \ {c} : Exclusive(Idle, request[d]) /\ Exclusive(request[d], Idle)
    BY SameRow, RowsAreTyped
  <2>2. QED
    BY <1>2, <2>1 DEF Inv, SessionsAreSound, Exclusive, Inserting
<1>12. SessionsAreSound'
  BY <1>1, <1>6, <1>10, <1>11 DEF Inv, SessionsAreSound, people
<1>13. QED
  BY <1>3, <1>7, <1>8, <1>9, <1>12 DEF Inv

\* The row after a request over row o has committed what it has assigned.
LEMMA CommitFacts ==
  ASSUME Inv, NEW c \in Client, NEW assigned \in Organization, Commit(c, assigned),
         request[c].phase \notin WithoutRow
  PROVE  \E new \in Organization :
           LET o == request[c].org
               row == organization[o]
               loaded == request[c].loaded
           IN
           /\ organization' = [organization EXCEPT ![o] = new]
           /\ Goes(c, Idle) /\ UNCHANGED <<remote, people>> /\ ~Locked(c, o)
           /\ o \in OrganizationId /\ row \in Organization /\ loaded \in Organization
           /\ request[c].wrote => new = assigned
           /\ ~request[c].wrote =>
                /\ new.status = IF assigned.status = loaded.status THEN row.status ELSE assigned.status
                /\ new.name = IF assigned.name = loaded.name THEN row.name ELSE assigned.name
                /\ new.external = IF assigned.external = loaded.external
                                  THEN row.external ELSE assigned.external
                /\ new.linked = IF assigned.linked = loaded.linked THEN row.linked ELSE assigned.linked
<1> DEFINE o == request[c].org
           row == organization[o]
           loaded == request[c].loaded
           new == IF request[c].wrote THEN assigned ELSE Flush(row, loaded, assigned)
<1>1. o \in OrganizationId
  BY CallFacts DEF SessionIsSound
<1>2. row \in Organization /\ loaded \in Organization
  BY <1>1, CallFacts DEF Request, Inv, TypeOK
<1>3. organization' = [organization EXCEPT ![o] = new]
  BY DEF Commit
<1>4. Goes(c, Idle) /\ UNCHANGED <<remote, people>> /\ ~Locked(c, o)
  BY DEF Commit
<1>5. new \in Organization
  BY <1>2, FlushColumns
<1>6. ~request[c].wrote =>
        /\ new.status = IF assigned.status = loaded.status THEN row.status ELSE assigned.status
        /\ new.name = IF assigned.name = loaded.name THEN row.name ELSE assigned.name
        /\ new.external = IF assigned.external = loaded.external
                          THEN row.external ELSE assigned.external
        /\ new.linked = IF assigned.linked = loaded.linked THEN row.linked ELSE assigned.linked
  BY <1>2, FlushColumns
<1>7. request[c].wrote => new = assigned
  OBVIOUS
<1> HIDE DEF new
<1>8. QED
  BY <1>1, <1>2, <1>3, <1>4, <1>5, <1>6, <1>7

\* A name that Optscale has accepted is saved.
LEMMA SaveNameInv ==
  ASSUME Inv, NEW c \in Client, SaveName(c)
  PROVE  Inv'
<1> DEFINE o == request[c].org
           loaded == request[c].loaded
           assigned == [loaded EXCEPT !.name = request[c].name]
<1>1. /\ o \in OrganizationId /\ organization[o].status # Absent /\ request[c].name \in Name
      /\ loaded.linked # None /\ request[c].name \in remote[loaded.linked].named
      /\ loaded.status # Absent /\ loaded.external \in ExternalId
      /\ organization[o].name \in Name /\ organization[o].external \in ExternalId
      /\ o \notin Partial => loaded.linked = organization[o].linked
      /\ request[c].wrote => loaded.linked = organization[o].linked
                             /\ loaded.status = organization[o].status
  BY CallFacts, LoadedRow DEF SaveName, SessionIsSound, WithoutRow, Inserting
<1>2. /\ assigned \in Organization /\ assigned.status = loaded.status
      /\ assigned.name = request[c].name /\ assigned.external = loaded.external
      /\ assigned.linked = loaded.linked
  BY <1>1, CallFacts DEF Request, Organization
<1>3. Commit(c, assigned) /\ request[c].phase = "save_name"
  BY DEF SaveName
<1> HIDE DEF assigned
<1>4. PICK new \in Organization :
        /\ organization' = [organization EXCEPT ![o] = new]
        /\ Goes(c, Idle) /\ UNCHANGED <<remote, people>> /\ ~Locked(c, o)
        /\ new.status = organization[o].status /\ new.linked = organization[o].linked
        /\ new.name \in {organization[o].name, request[c].name} /\ new.external \in ExternalId
  BY <1>1, <1>2, <1>3, CommitFacts DEF WithoutRow
<1>5. o \notin Partial
        => /\ organization[o].linked # None
           /\ organization[o].name \in remote[organization[o].linked].named
           /\ organization[o].status = "deleted" => remote[organization[o].linked].suspended
  BY <1>1 DEF Inv, LinksAreReal, NamesWereAccepted, DeletedAreSuspended, Ours
<1>6. o \notin Partial => new.name \in remote[new.linked].named
  BY <1>1, <1>4, <1>5
<1>7. QED
  BY <1>1, <1>4, <1>5, <1>6, RowInv

\* An organization that Optscale has suspended is deleted.
LEMMA DeleteInv ==
  ASSUME Inv, NEW c \in Client, Delete(c)
  PROVE  Inv'
<1> DEFINE o == request[c].org
           loaded == request[c].loaded
           assigned == [loaded EXCEPT !.status = "deleted"]
<1>1. /\ o \in OrganizationId /\ organization[o].status # Absent /\ ~request[c].wrote
      /\ loaded.linked # None /\ remote[loaded.linked].suspended
      /\ organization[o].name \in Name /\ organization[o].external \in ExternalId
      /\ o \notin Partial => loaded.linked = organization[o].linked
  BY CallFacts, LoadedRow DEF Delete, SessionIsSound, WithoutRow, Inserting
<1>2. /\ assigned \in Organization /\ assigned.status = "deleted"
      /\ assigned.name = loaded.name /\ assigned.external = loaded.external
      /\ assigned.linked = loaded.linked
  BY <1>1, CallFacts DEF Request, Organization, OrganizationStatus
<1>3. Commit(c, assigned) /\ request[c].phase = "delete"
  BY DEF Delete
<1> HIDE DEF assigned
<1>4. PICK new \in Organization :
        /\ organization' = [organization EXCEPT ![o] = new]
        /\ Goes(c, Idle) /\ UNCHANGED <<remote, people>> /\ ~Locked(c, o)
        /\ new.status \in {organization[o].status, "deleted"}
        /\ new.linked = organization[o].linked
        /\ new.name = organization[o].name /\ new.external = organization[o].external
  BY <1>1, <1>2, <1>3, CommitFacts DEF WithoutRow
<1>5. o \notin Partial
        => /\ organization[o].linked # None
           /\ organization[o].name \in remote[organization[o].linked].named
  BY <1>1 DEF Inv, LinksAreReal, NamesWereAccepted, Ours
<1>6. new.status # Absent
  BY <1>1, <1>4 DEF Absent
<1>7. QED
  BY <1>1, <1>4, <1>5, <1>6, RowInv

\* The id that Optscale gave to this request is linked to the row it has inserted, or to a
\* row that was partially created.
LEMMA LinkInv ==
  ASSUME Inv, NEW c \in Client, Link(c)
  PROVE  Inv'
<1> DEFINE o == request[c].org
           loaded == request[c].loaded
           linked == request[c].remote
           assigned == [loaded EXCEPT !.linked = linked]
<1>1. /\ o \in OrganizationId /\ loaded.linked = None /\ loaded.status # Absent
      /\ loaded.name \in Name /\ loaded.external \in ExternalId
      /\ linked \in Remote /\ loaded.name \in remote[linked].named
      /\ \A p \in OrganizationId : organization[p].linked # linked
      /\ request[c].wrote => o \notin Partial /\ organization[o].status = Absent
                             /\ loaded.status = "active"
      /\ ~request[c].wrote => /\ organization[o].status # Absent
                              /\ o \notin Partial => organization[o].linked = None
  BY CallFacts DEF Link, SessionIsSound, WithoutRow, Inserting
<1>2. remote[linked] # NoRemote
  BY <1>1, RowsAreTyped
<1>3. /\ assigned \in Organization /\ assigned.status = loaded.status
      /\ assigned.name = loaded.name /\ assigned.external = loaded.external
      /\ assigned.linked = linked
  BY <1>1, CallFacts DEF Request, Organization
<1>4. Commit(c, assigned) /\ request[c].phase = "link"
  BY DEF Link
<1>5. linked # loaded.linked
  BY <1>1, OrganizationsAssumption
<1> HIDE DEF assigned, linked
<1>6. ~request[c].wrote => o \in Partial /\ organization[o].name \in Name
                           /\ organization[o].external \in ExternalId
  BY <1>1, LoadedRow DEF Inv, LinksAreReal, Ours
<1>7. PICK new \in Organization :
        /\ organization' = [organization EXCEPT ![o] = new]
        /\ Goes(c, Idle) /\ UNCHANGED <<remote, people>> /\ ~Locked(c, o)
        /\ new.linked = linked /\ new.name \in Name /\ new.external \in ExternalId
        /\ new.status # Absent
        /\ request[c].wrote => new = assigned
  BY <1>1, <1>3, <1>4, <1>5, <1>6, CommitFacts DEF WithoutRow
<1>8. \A d \in Client \ {c} :
        /\ request[d].phase = "link" => request[d].remote # linked
        /\ request[c].wrote => request[d].org # o
  BY <1>4 DEF Inv, SessionsAreSound, Exclusive, Inserting, linked
<1>9. o \notin Partial => /\ organization[o].status = Absent
                          /\ \A d \in Client \ {c} : request[d].org # o
                          /\ new.name \in remote[new.linked].named
                          /\ new.status = "active"
  BY <1>1, <1>3, <1>6, <1>7, <1>8 DEF linked
<1>10. new.linked \in Remote /\ remote[new.linked] # NoRemote /\ new.linked # None
  BY <1>1, <1>2, <1>7, OrganizationsAssumption DEF linked
<1>11. \A p \in OrganizationId : organization[p].linked # new.linked
  BY <1>1, <1>7 DEF linked
<1>12. QED
  BY <1>1, <1>7, <1>8, <1>9, <1>10, <1>11, RowInv

\* The external id is flushed: committed at once, or kept with the lock while Optscale is
\* asked for the new name.
LEMMA SetExternalInv ==
  ASSUME Inv, NEW c \in Client, SetExternal(c)
  PROVE  Inv'
<1> DEFINE o == request[c].org
           row == organization[o]
           loaded == request[c].loaded
           assigned == [loaded EXCEPT !.external = request[c].external]
           flushed == Flush(row, loaded, assigned)
           holds == IF flushed.status = "deleted" THEN {} ELSE {request[c].external, row.external}
           to == [request[c] EXCEPT !.phase = "rename", !.wrote = TRUE, !.loaded = flushed,
                    !.holds = holds]
<1>1. /\ o \in OrganizationId /\ row.status # Absent /\ request[c].external \in ExternalId
      /\ row.name \in Name /\ row.external \in ExternalId
      /\ row.linked # None => remote[row.linked] # NoRemote
      /\ o \notin Partial => loaded.linked = row.linked
      /\ loaded.linked # None => row.linked # None
      /\ request[c].name # None => loaded.linked # None
  BY CallFacts, LoadedRow DEF SetExternal, SessionIsSound, WithoutRow, Inserting
<1>2. row \in Organization /\ loaded \in Organization
  BY <1>1, CallFacts DEF Request, Inv, TypeOK
<1>3. /\ assigned \in Organization /\ assigned.status = loaded.status
      /\ assigned.name = loaded.name /\ assigned.external = request[c].external
      /\ assigned.linked = loaded.linked
  BY <1>1, <1>2 DEF Organization
<1>4. /\ flushed \in Organization /\ flushed.status = row.status /\ flushed.name = row.name
      /\ flushed.linked = row.linked /\ flushed.external \in ExternalId
  <2> HIDE DEF assigned
  <2>1. QED
    BY <1>1, <1>2, <1>3, FlushColumns
<1>5. ~Locked(c, o) /\ UNCHANGED <<remote, people>> /\ request[c].phase = "set_external"
  BY DEF SetExternal
<1> HIDE DEF flushed
<1>6. CASE request[c].name = None
  <2>1. organization' = [organization EXCEPT ![o] = flushed] /\ Goes(c, Idle)
    BY <1>6 DEF SetExternal, flushed
  <2>2. o \notin Partial
          => /\ row.linked # None /\ row.name \in remote[row.linked].named
             /\ row.status = "deleted" => remote[row.linked].suspended
    BY <1>1 DEF Inv, LinksAreReal, NamesWereAccepted, DeletedAreSuspended, Ours
  <2>3. QED
    BY <1>1, <1>4, <1>5, <2>1, <2>2, RowInv
<1>7. CASE request[c].name # None
  <2>1. Reads(c, to)
    BY <1>5, <1>7 DEF SetExternal, Reads, flushed
  <2>2. holds \subseteq ExternalId
    BY <1>1
  <2>3. request[c] \in Request /\ request[c].name \in Name
    BY <1>7, CallFacts DEF Request
  <2> HIDE DEF holds
  <2>4. /\ to \in Request /\ to.phase = "rename" /\ to.org = o /\ to.wrote
        /\ to.loaded = flushed /\ to.name = request[c].name
    BY <1>4, <2>2, <2>3 DEF Request, Phase
  <2> HIDE DEF to
  <2>5. SessionIsSound(to)
    BY <1>1, <1>4, <1>7, <2>3, <2>4 DEF SessionIsSound, WithoutRow, Inserting
  <2>6. \A d \in Client \ {c} : Exclusive(to, request[d]) /\ Exclusive(request[d], to)
    <3> SUFFICES ASSUME NEW d \in Client \ {c}
                 PROVE  Exclusive(to, request[d]) /\ Exclusive(request[d], to)
      OBVIOUS
    <3>1. request[d].org = o => ~request[d].wrote
      BY <1>5 DEF Locked
    <3>2. QED
      BY <2>4, <3>1 DEF Exclusive, Inserting
  <2>7. QED
    BY <2>1, <2>4, <2>5, <2>6, ReadsInv
<1>8. QED
  BY <1>6, <1>7

LEMMA RequestFailsInv ==
  ASSUME Inv, NEW c \in Client, RequestFails(c)
  PROVE  Inv'
BY SameRemotes, SamePeople, EndsInv DEF RequestFails, Reads

-----------------------------------------------------------------------------
(* The unique index *)

\* With what the index entries of open transactions exclude, the external ids stay unique.
FullInv == Inv /\ IndexIsHeld /\ OneOrganizationPerExternalId

\* What a session has to hold.
HoldsIndex(c, r) ==
  /\ ~r.wrote => r.holds = {}
  /\ r.wrote /\ r.loaded.status # "deleted" => r.loaded.external \in r.holds
  /\ \A o \in OrganizationId \ {r.org} :
       organization[o].external \in r.holds => organization[o].status \in {Absent, "deleted"}
  /\ \A d \in Client \ {c} : r.holds \cap request[d].holds = {}

LEMMA IdleHolds ==
  ASSUME NEW c \in Client PROVE HoldsIndex(c, Idle)
BY RowsAreTyped DEF HoldsIndex, Idle

\* No organization changes, and the session of one request becomes to.
LEMMA SessionIndex ==
  ASSUME FullInv, NEW c \in Client, NEW to \in Request, Goes(c, to), UNCHANGED organization,
         HoldsIndex(c, to)
  PROVE  (IndexIsHeld /\ OneOrganizationPerExternalId)'
<1>1. request' \in [Client -> Request] /\ request'[c] = to
      /\ \A d \in Client \ {c} : request'[d] = request[d]
  BY DEF Goes, FullInv, Inv, TypeOK
<1>2. OneOrganizationPerExternalId'
  BY DEF FullInv, OneOrganizationPerExternalId
<1>3. IndexIsHeld'
  BY <1>1 DEF FullInv, IndexIsHeld, HoldsIndex
<1>4. QED
  BY <1>2, <1>3

\* A request that goes on with what it had flushed, or with nothing.
LEMMA SameIndex ==
  ASSUME FullInv, NEW c \in Client, NEW to \in Request, Goes(c, to) \/ Goes(c, Idle),
         UNCHANGED organization,
         \/ ~to.wrote /\ to.holds = {}
         \/ /\ to.org = request[c].org /\ to.wrote = request[c].wrote
            /\ to.loaded = request[c].loaded /\ to.holds = request[c].holds
  PROVE  (IndexIsHeld /\ OneOrganizationPerExternalId)'
<1>1. HoldsIndex(c, to)
  BY DEF HoldsIndex, FullInv, IndexIsHeld
<1>2. QED
  BY <1>1, IdleHolds, RowsAreTyped, SessionIndex

\* The commit of a row under an external id that is free.
LEMMA CommitIndex ==
  ASSUME FullInv, NEW c \in Client, request[c].org \in OrganizationId, NEW new \in Organization,
         organization' = [organization EXCEPT ![request[c].org] = new],
         Goes(c, Idle), ~Locked(c, request[c].org),
         new.status \in {Absent, "deleted"} \/ ExternalFree(c, new.external)
  PROVE  (IndexIsHeld /\ OneOrganizationPerExternalId)'
<1> DEFINE o == request[c].org
<1>1. request' \in [Client -> Request] /\ request'[c] = Idle
      /\ \A d \in Client \ {c} : request'[d] = request[d]
  BY RowsAreTyped DEF Goes, FullInv, Inv, TypeOK
<1>2. organization'[o] = new
      /\ \A p \in OrganizationId \ {o} : organization'[p] = organization[p]
  BY DEF FullInv, Inv, TypeOK
<1>3. \A p \in OrganizationId \ {o} :
        /\ new.status \notin {Absent, "deleted"} /\ new.external = organization[p].external
        => organization[p].status \in {Absent, "deleted"}
  BY DEF ExternalFree
<1>4. OneOrganizationPerExternalId'
  <2> SUFFICES ASSUME NEW p \in OrganizationId, NEW q \in OrganizationId, p # q,
                      organization'[p].status \notin {Absent, "deleted"},
                      organization'[q].status \notin {Absent, "deleted"},
                      organization'[p].external = organization'[q].external
               PROVE  FALSE
    BY DEF OneOrganizationPerExternalId
  <2>1. CASE p = o \/ q = o
    BY <1>2, <1>3, <2>1
  <2>2. CASE p # o /\ q # o
    BY <1>2, <2>2 DEF FullInv, OneOrganizationPerExternalId
  <2>3. QED
    BY <2>1, <2>2
<1>5. ASSUME NEW d \in Client \ {c}
      PROVE  \A p \in OrganizationId \ {request[d].org} :
               organization'[p].external \in request[d].holds
               => organization'[p].status \in {Absent, "deleted"}
  BY <1>2 DEF FullInv, IndexIsHeld, ExternalFree
<1>6. IndexIsHeld'
  BY <1>1, <1>5, RowsAreTyped DEF FullInv, IndexIsHeld, Idle
<1>7. QED
  BY <1>4, <1>6

\* The id of a row that nobody else has flushed, and one that is held, are free.
LEMMA OwnIsFree ==
  ASSUME FullInv, NEW c \in Client, request[c].org \in OrganizationId,
         ~Locked(c, request[c].org), organization[request[c].org].status \notin {Absent, "deleted"}
  PROVE  ExternalFree(c, organization[request[c].org].external)
<1> DEFINE o == request[c].org
<1>1. \A p \in OrganizationId \ {o} :
        organization[p].external = organization[o].external
        => organization[p].status \in {Absent, "deleted"}
  BY DEF FullInv, OneOrganizationPerExternalId
<1>2. ASSUME NEW d \in Client \ {c} PROVE organization[o].external \notin request[d].holds
  BY DEF Locked, FullInv, IndexIsHeld
<1>3. QED
  BY <1>1, <1>2 DEF ExternalFree

LEMMA HeldIsFree ==
  ASSUME FullInv, NEW c \in Client, NEW x \in request[c].holds
  PROVE  ExternalFree(c, x)
BY DEF ExternalFree, FullInv, IndexIsHeld

\* A commit that leaves the external id alone.
LEMMA CommitKeepsIndex ==
  ASSUME FullInv, NEW c \in Client, NEW assigned \in Organization, Commit(c, assigned),
         request[c].phase \notin WithoutRow, assigned.external = request[c].loaded.external,
         \/ assigned.status = "deleted"
         \/ assigned.status = request[c].loaded.status
  PROVE  (IndexIsHeld /\ OneOrganizationPerExternalId)'
<1>1. PICK new \in Organization :
        LET o == request[c].org
            row == organization[o]
            loaded == request[c].loaded
        IN
        /\ organization' = [organization EXCEPT ![o] = new]
        /\ Goes(c, Idle) /\ ~Locked(c, o) /\ o \in OrganizationId
        /\ request[c].wrote => new = assigned
        /\ ~request[c].wrote =>
             /\ new.status = IF assigned.status = loaded.status THEN row.status ELSE assigned.status
             /\ new.external = row.external
  BY CommitFacts DEF FullInv
<1>2. CASE request[c].wrote
  <2>1. new.status = "deleted" \/ new.external \in request[c].holds
    BY <1>1, <1>2 DEF FullInv, IndexIsHeld
  <2>2. QED
    BY <1>1, <2>1, HeldIsFree, CommitIndex
<1>3. CASE ~request[c].wrote
  <2>1. \/ new.status = "deleted"
        \/ new.status = organization[request[c].org].status
           /\ new.external = organization[request[c].org].external
    BY <1>1, <1>3
  <2>2. QED
    BY <1>1, <2>1, OwnIsFree, CommitIndex
<1>4. QED
  BY <1>2, <1>3

LEMMA LookUpIndex ==
  ASSUME FullInv, NEW c \in Client, NEW x \in ExternalId, NEW n \in Name, CreateLookUp(c, x, n)
  PROVE  (IndexIsHeld /\ OneOrganizationPerExternalId)'
<1> DEFINE fresh == [Idle EXCEPT !.phase = "insert", !.name = n, !.external = x]
           resumed(o) == [Load(o, "provision") EXCEPT !.name = n]
<1>1. fresh \in Request /\ ~fresh.wrote /\ fresh.holds = {}
  BY RowsAreTyped DEF Idle, Request, Phase
<1>2. ASSUME NEW o \in OrganizationId
      PROVE  resumed(o) \in Request /\ ~resumed(o).wrote /\ resumed(o).holds = {}
  BY RowsAreTyped DEF Load, Idle, Request, Phase, FullInv, Inv, TypeOK
<1>3. Reads(c, fresh) \/ \E o \in OrganizationId : Reads(c, resumed(o))
  BY DEF CreateLookUp
<1> HIDE DEF fresh, resumed
<1>4. QED
  BY <1>1, <1>2, <1>3, SameIndex DEF Reads

\* The inserted row holds its id.
LEMMA CreateInsertIndex ==
  ASSUME FullInv, NEW c \in Client, NEW o \in OrganizationId, CreateInsert(c, o)
  PROVE  (IndexIsHeld /\ OneOrganizationPerExternalId)'
<1> DEFINE x == request[c].external
           row == [status |-> "active", name |-> request[c].name, external |-> x, linked |-> None]
           to == [request[c] EXCEPT !.phase = "provision", !.org = o, !.wrote = TRUE,
                    !.holds = {x}, !.loaded = row]
<1>1. request[c] \in Request /\ request[c].org = None /\ x \in ExternalId
      /\ request[c].name \in Name /\ ExternalFree(c, x)
  BY CallFacts DEF CreateInsert, FullInv, SessionIsSound, WithoutRow
<1>2. row \in Organization
  BY <1>1 DEF Organization, OrganizationStatus
<1>3. to \in Request /\ to.wrote /\ to.org = o /\ to.holds = {x} /\ to.loaded.external = x
  BY <1>1, <1>2 DEF Request, Phase
<1>4. Goes(c, to) /\ UNCHANGED organization
  BY DEF CreateInsert, Reads
<1> HIDE DEF to
<1>5. HoldsIndex(c, to)
  BY <1>1, <1>3, OrganizationsAssumption DEF HoldsIndex, ExternalFree
<1>6. QED
  BY <1>3, <1>4, <1>5, SessionIndex

LEMMA LinkIndex ==
  ASSUME FullInv, NEW c \in Client, Link(c)
  PROVE  (IndexIsHeld /\ OneOrganizationPerExternalId)'
<1> DEFINE loaded == request[c].loaded
           assigned == [loaded EXCEPT !.linked = request[c].remote]
<1>1. /\ assigned \in Organization /\ assigned.status = loaded.status
      /\ assigned.external = loaded.external
  BY CallFacts DEF FullInv, Request, Organization
<1>2. Commit(c, assigned) /\ request[c].phase \notin WithoutRow
  BY DEF Link, WithoutRow
<1>3. QED
  BY <1>1, <1>2, CommitKeepsIndex

LEMMA SaveNameIndex ==
  ASSUME FullInv, NEW c \in Client, SaveName(c)
  PROVE  (IndexIsHeld /\ OneOrganizationPerExternalId)'
<1> DEFINE loaded == request[c].loaded
           assigned == [loaded EXCEPT !.name = request[c].name]
<1>1. /\ assigned \in Organization /\ assigned.status = loaded.status
      /\ assigned.external = loaded.external
  BY CallFacts DEF FullInv, Request, Organization
<1>2. Commit(c, assigned) /\ request[c].phase \notin WithoutRow
  BY DEF SaveName, WithoutRow
<1>3. QED
  BY <1>1, <1>2, CommitKeepsIndex

LEMMA DeleteIndex ==
  ASSUME FullInv, NEW c \in Client, Delete(c)
  PROVE  (IndexIsHeld /\ OneOrganizationPerExternalId)'
<1> DEFINE loaded == request[c].loaded
           assigned == [loaded EXCEPT !.status = "deleted"]
<1>1. /\ assigned \in Organization /\ assigned.status = "deleted"
      /\ assigned.external = loaded.external
  BY CallFacts DEF FullInv, Request, Organization, OrganizationStatus
<1>2. Commit(c, assigned) /\ request[c].phase \notin WithoutRow
  BY DEF Delete, WithoutRow
<1>3. QED
  BY <1>1, <1>2, CommitKeepsIndex

LEMMA UpdateReadIndex ==
  ASSUME FullInv, NEW c \in Client, NEW o \in OrganizationId, NEW n \in Name \cup {None},
         NEW x \in ExternalId \cup {None}, UpdateRead(c, o, n, x)
  PROVE  (IndexIsHeld /\ OneOrganizationPerExternalId)'
<1> DEFINE phase == IF x # None THEN "set_external" ELSE "rename"
           to == [Load(o, phase) EXCEPT !.name = n, !.external = x]
<1>1. organization[o] \in Organization /\ phase \in Phase
  BY DEF FullInv, Inv, TypeOK, Phase
<1>2. to \in Request /\ ~to.wrote /\ to.holds = {}
  BY <1>1, RowsAreTyped DEF Load, Idle, Request
<1>3. Goes(c, to) /\ UNCHANGED organization
  BY DEF UpdateRead, Reads
<1> HIDE DEF to
<1>4. QED
  BY <1>2, <1>3, SameIndex

\* The new id is free when it is flushed; the old one is held as well, and was the row's own.
LEMMA SetExternalIndex ==
  ASSUME FullInv, NEW c \in Client, SetExternal(c)
  PROVE  (IndexIsHeld /\ OneOrganizationPerExternalId)'
<1> DEFINE o == request[c].org
           row == organization[o]
           loaded == request[c].loaded
           assigned == [loaded EXCEPT !.external = request[c].external]
           flushed == Flush(row, loaded, assigned)
           holds == IF flushed.status = "deleted" THEN {} ELSE {request[c].external, row.external}
           to == [request[c] EXCEPT !.phase = "rename", !.wrote = TRUE, !.loaded = flushed,
                    !.holds = holds]
<1>1. /\ request[c] \in Request /\ o \in OrganizationId /\ request[c].external \in ExternalId
      /\ row.status # Absent /\ row.external \in ExternalId
      /\ row \in Organization /\ loaded \in Organization
  <2>1. /\ request[c] \in Request /\ o \in OrganizationId /\ request[c].external \in ExternalId
        /\ row.status # Absent
    BY CallFacts DEF FullInv, SetExternal, SessionIsSound, WithoutRow, Inserting
  <2>2. QED
    BY <2>1, LoadedRow DEF FullInv, Request
<1>2. /\ assigned \in Organization /\ assigned.status = loaded.status
      /\ assigned.external = request[c].external
  BY <1>1 DEF Organization
<1>3. /\ flushed \in Organization /\ flushed.status = row.status
      /\ flushed.external \in {request[c].external, row.external}
  <2> HIDE DEF assigned
  <2>1. QED
    BY <1>1, <1>2, FlushColumns
<1>4. /\ ~Locked(c, o)
      /\ row.status # "deleted" => ExternalFree(c, request[c].external)
      /\ \/ organization' = [organization EXCEPT ![o] = flushed] /\ Goes(c, Idle)
         \/ Goes(c, to) /\ UNCHANGED organization
  BY DEF SetExternal
<1> HIDE DEF flushed
<1>5. row.status # "deleted" => \A x \in holds : ExternalFree(c, x)
  BY <1>1, <1>4, OwnIsFree
<1>6. CASE organization' = [organization EXCEPT ![o] = flushed] /\ Goes(c, Idle)
  <2>1. flushed.status = "deleted" \/ ExternalFree(c, flushed.external)
    BY <1>3, <1>5
  <2>2. QED
    BY <1>1, <1>3, <1>4, <1>6, <2>1, CommitIndex
<1>7. CASE Goes(c, to) /\ UNCHANGED organization
  <2>1. holds \subseteq ExternalId
    BY <1>1
  <2>2. /\ flushed.status # "deleted" => flushed.external \in holds
        /\ \A x \in holds : ExternalFree(c, x)
    BY <1>3, <1>5
  <2> HIDE DEF holds
  <2>3. to \in Request /\ to.wrote /\ to.org = o /\ to.holds = holds /\ to.loaded = flushed
    BY <1>1, <1>3, <2>1 DEF Request, Phase
  <2> HIDE DEF to
  <2>4. HoldsIndex(c, to)
    BY <2>2, <2>3 DEF HoldsIndex, ExternalFree
  <2>5. QED
    BY <1>7, <2>3, <2>4, SessionIndex
<1>8. QED
  BY <1>4, <1>6, <1>7

LEMMA RenameIndex ==
  ASSUME FullInv, NEW c \in Client, Rename(c)
  PROVE  (IndexIsHeld /\ OneOrganizationPerExternalId)'
<1> DEFINE to == [request[c] EXCEPT !.phase = "save_name"]
<1>1. /\ to \in Request /\ to.org = request[c].org /\ to.wrote = request[c].wrote
      /\ to.loaded = request[c].loaded /\ to.holds = request[c].holds
  BY CallFacts DEF FullInv, Request, Phase
<1>2. (Goes(c, to) \/ Goes(c, Idle)) /\ UNCHANGED organization
  BY DEF Rename, Answered
<1> HIDE DEF to
<1>3. QED
  BY <1>1, <1>2, SameIndex

LEMMA ProvisionIndex ==
  ASSUME FullInv, NEW c \in Client, NEW r \in Remote, Provision(c, r)
  PROVE  (IndexIsHeld /\ OneOrganizationPerExternalId)'
<1> DEFINE to == [request[c] EXCEPT !.phase = "link", !.remote = r]
<1>1. /\ to \in Request /\ to.org = request[c].org /\ to.wrote = request[c].wrote
      /\ to.loaded = request[c].loaded /\ to.holds = request[c].holds
  BY CallFacts DEF FullInv, Request, Phase
<1>2. (Goes(c, to) \/ Goes(c, Idle)) /\ UNCHANGED organization
  BY DEF Provision, Answered
<1> HIDE DEF to
<1>3. QED
  BY <1>1, <1>2, SameIndex

\* What reads a row to delete it or to add an administrator.
LEMMA DeleteReadIndex ==
  ASSUME FullInv, NEW c \in Client, NEW o \in OrganizationId, DeleteRead(c, o)
  PROVE  (IndexIsHeld /\ OneOrganizationPerExternalId)'
<1> DEFINE to == Load(o, "suspend")
<1>1. to \in Request /\ ~to.wrote /\ to.holds = {}
  BY RowsAreTyped DEF Load, Idle, Request, Phase, FullInv, Inv, TypeOK
<1>2. Goes(c, to) /\ UNCHANGED organization
  BY DEF DeleteRead, Reads
<1> HIDE DEF to
<1>3. QED
  BY <1>1, <1>2, SameIndex

LEMMA AddAdminReadIndex ==
  ASSUME FullInv, NEW c \in Client, NEW o \in OrganizationId, NEW e \in Email,
         AddAdminRead(c, o, e)
  PROVE  (IndexIsHeld /\ OneOrganizationPerExternalId)'
<1> DEFINE to == [Load(o, "find_user") EXCEPT !.email = e]
<1>1. to \in Request /\ ~to.wrote /\ to.holds = {}
  BY RowsAreTyped DEF Load, Idle, Request, Phase, FullInv, Inv, TypeOK
<1>2. Goes(c, to) /\ UNCHANGED organization
  BY DEF AddAdminRead, Reads
<1> HIDE DEF to
<1>3. QED
  BY <1>1, <1>2, SameIndex

\* A request that changes its phase and remembers whether it has created a user.
LEMMA PhaseIndex ==
  ASSUME FullInv, NEW c \in Client, NEW phase \in Phase, UNCHANGED organization,
         \/ Goes(c, [request[c] EXCEPT !.phase = phase])
         \/ Goes(c, [request[c] EXCEPT !.phase = phase, !.created = TRUE])
         \/ Goes(c, Idle)
  PROVE  (IndexIsHeld /\ OneOrganizationPerExternalId)'
<1>1. ASSUME NEW to, to \in {[request[c] EXCEPT !.phase = phase],
                             [request[c] EXCEPT !.phase = phase, !.created = TRUE]}
      PROVE  /\ to \in Request /\ to.org = request[c].org /\ to.wrote = request[c].wrote
             /\ to.loaded = request[c].loaded /\ to.holds = request[c].holds
  BY <1>1, CallFacts DEF FullInv, Request
<1>2. ~Idle.wrote /\ Idle.holds = {} /\ Idle \in Request
  BY RowsAreTyped DEF Idle
<1>3. QED
  BY <1>1, <1>2, SameIndex

LEMMA PeopleIndex ==
  ASSUME FullInv, NEW c \in Client,
         \/ Suspend(c) \/ FindUser(c) \/ CreateUser(c) \/ Employ(c) \/ Promote(c)
         \/ ResetPassword(c) \/ Record(c) \/ ResetEmployeePassword(c) \/ RequestFails(c)
  PROVE  (IndexIsHeld /\ OneOrganizationPerExternalId)'
<1>1. {"idle", "delete", "create_user", "employ", "promote", "reset", "record"} \subseteq Phase
  BY DEF Phase
<1>2. CASE Suspend(c)
  BY <1>1, <1>2, PhaseIndex DEF Suspend, Answered
<1>3. CASE FindUser(c)
  <2> DEFINE next == IF remote_user[request[c].email] = Absent THEN "create_user" ELSE "employ"
  <2>1. next \in Phase /\ Goes(c, [request[c] EXCEPT !.phase = next]) /\ UNCHANGED organization
    BY <1>1, <1>3 DEF FindUser, Reads
  <2> HIDE DEF next
  <2>2. QED
    BY <2>1, PhaseIndex
<1>4. CASE CreateUser(c) \/ Employ(c) \/ ResetPassword(c)
  BY <1>1, <1>4, PhaseIndex DEF CreateUser, Employ, ResetPassword, Answered
<1>5. CASE Promote(c)
  <2> DEFINE next == IF request[c].created THEN "reset" ELSE "record"
  <2>1. /\ next \in Phase /\ UNCHANGED organization
        /\ Goes(c, [request[c] EXCEPT !.phase = next]) \/ Goes(c, Idle)
    BY <1>1, <1>5 DEF Promote, Answered
  <2> HIDE DEF next
  <2>2. QED
    BY <2>1, PhaseIndex
<1>6. CASE Record(c) \/ ResetEmployeePassword(c) \/ RequestFails(c)
  BY <1>1, <1>6, PhaseIndex DEF Record, ResetEmployeePassword, RequestFails, Reads
<1>7. QED
  BY <1>2, <1>3, <1>4, <1>5, <1>6

LEMMA CreateEmployeeIndex ==
  ASSUME FullInv, NEW c \in Client, NEW e \in Email, CreateEmployee(c, e)
  PROVE  (IndexIsHeld /\ OneOrganizationPerExternalId)'
<1> DEFINE to == [Idle EXCEPT !.phase = "reset_employee", !.email = e]
<1>1. to \in Request /\ ~to.wrote /\ to.holds = {}
  BY RowsAreTyped DEF Idle, Request, Phase
<1>2. (Goes(c, to) \/ Goes(c, Idle)) /\ UNCHANGED organization
  BY DEF CreateEmployee, Answered
<1> HIDE DEF to
<1>3. QED
  BY <1>1, <1>2, SameIndex

-----------------------------------------------------------------------------
(* The specification *)

LEMMA InitInv == Init => Inv
<1> SUFFICES ASSUME Init PROVE Inv
  OBVIOUS
<1>1. PICK name \in [Partial -> Name], external \in [Partial -> ExternalId] :
        organization = [o \in OrganizationId |->
          IF o \in Partial
          THEN [status |-> "active", name |-> name[o], external |-> external[o], linked |-> None]
          ELSE NoOrganization]
  BY DEF Init
<1>2. \A o \in Partial : /\ organization[o].status = "active" /\ organization[o].linked = None
                         /\ organization[o].name \in Name /\ organization[o].external \in ExternalId
  BY <1>1, OrganizationsAssumption
<1>3. \A o \in OrganizationId \ Partial : organization[o] = NoOrganization
  BY <1>1
<1>4. NoOrganization.status = Absent /\ NoOrganization.linked = None
  BY DEF NoOrganization
<1>5. organization \in [OrganizationId -> Organization]
  BY <1>1, RowsAreTyped DEF Organization, OrganizationStatus
<1>6. TypeOK
  BY <1>5, RowsAreTyped DEF Init, TypeOK, UserState
<1>7. Ours = {}
  BY <1>3, <1>4 DEF Ours
<1>8. \A c, d \in Client : c # d => Exclusive(request[c], request[d])
  BY RowsAreTyped DEF Init, Exclusive, Inserting
<1>9. SessionsAreSound
  BY <1>2, <1>3, <1>4, <1>8, RowsAreTyped, IdleIsSound
     DEF Init, SessionsAreSound, Absent
<1>10. QED
  BY <1>6, <1>7, <1>9
     DEF Inv, LinksAreReal, NamesWereAccepted, DeletedAreSuspended, RecordedAreAdmins

LEMMA NextInv == Inv /\ [Next]_vars => Inv'
<1> SUFFICES ASSUME Inv, [Next]_vars PROVE Inv'
  OBVIOUS
<1>1. ASSUME NEW c \in Client, CreateNext(c) PROVE Inv'
  BY <1>1, CreateLookUpInv, CreateInsertInv, ProvisionInv, LinkInv DEF CreateNext
<1>2. ASSUME NEW c \in Client, UpdateNext(c) PROVE Inv'
  BY <1>2, UpdateReadInv, SetExternalInv, RenameInv, SaveNameInv DEF UpdateNext
<1>3. ASSUME NEW c \in Client, DeleteNext(c) PROVE Inv'
  BY <1>3, DeleteReadInv, SuspendInv, DeleteInv DEF DeleteNext
<1>4. ASSUME NEW c \in Client, AddAdminNext(c) PROVE Inv'
  BY <1>4, AddAdminReadInv, FindUserInv, CreateUserInv, EmployInv, PromoteInv,
     ResetPasswordInv, RecordInv DEF AddAdminNext
<1>5. ASSUME NEW c \in Client, EmployeeNext(c) PROVE Inv'
  BY <1>5, CreateEmployeeInv, ResetEmployeePasswordInv DEF EmployeeNext
<1>6. CASE UNCHANGED vars
  <2>1. RemotesEvolve /\ PeopleEvolve
    BY <1>6, SameRemotes, SamePeople DEF vars
  <2>2. UNCHANGED <<organization, remote, remote_user, employee, admin, recorded, request>>
    BY <1>6 DEF vars, people
  <2>3. TypeOK' /\ SessionsAreSound'
    BY <2>2 DEF Inv, TypeOK, SessionsAreSound, SessionIsSound, Exclusive, Inserting
  <2>4. QED
    BY <2>1, <2>2, <2>3, RowsEvolve DEF Inv
<1>7. QED
  BY <1>1, <1>2, <1>3, <1>4, <1>5, <1>6, RequestFailsInv, MakeAdminInv DEF Next

\* Every reachable state satisfies the inductive invariant.
THEOREM Invariance == Spec => []Inv
<1>1. QED
  BY InitInv, NextInv, PTL DEF Spec

LEMMA FullInitInv == Init => FullInv
<1> SUFFICES ASSUME Init PROVE FullInv
  OBVIOUS
<1>1. PICK name \in [Partial -> Name], external \in [Partial -> ExternalId] :
        /\ \A o, p \in Partial : external[o] = external[p] => o = p
        /\ organization = [o \in OrganizationId |->
             IF o \in Partial
             THEN [status |-> "active", name |-> name[o], external |-> external[o], linked |-> None]
             ELSE NoOrganization]
  BY DEF Init
<1>2. \A o \in Partial : organization[o].external = external[o]
  BY <1>1, OrganizationsAssumption
<1>3. \A o \in OrganizationId \ Partial : organization[o].status = Absent
  BY <1>1 DEF NoOrganization
<1>4. OneOrganizationPerExternalId
  BY <1>1, <1>2, <1>3 DEF OneOrganizationPerExternalId
<1>5. IndexIsHeld
  BY RowsAreTyped DEF Init, IndexIsHeld, Idle
<1>6. QED
  BY <1>4, <1>5, InitInv DEF FullInv

LEMMA FullNextInv == FullInv /\ [Next]_vars => FullInv'
<1> SUFFICES ASSUME FullInv, [Next]_vars PROVE FullInv'
  OBVIOUS
<1>1. Inv'
  BY NextInv DEF FullInv
<1> SUFFICES (IndexIsHeld /\ OneOrganizationPerExternalId)'
  BY <1>1 DEF FullInv
<1>2. ASSUME NEW c \in Client, CreateNext(c)
      PROVE  (IndexIsHeld /\ OneOrganizationPerExternalId)'
  BY <1>2, LookUpIndex, CreateInsertIndex, ProvisionIndex, LinkIndex DEF CreateNext
<1>3. ASSUME NEW c \in Client, UpdateNext(c)
      PROVE  (IndexIsHeld /\ OneOrganizationPerExternalId)'
  BY <1>3, UpdateReadIndex, SetExternalIndex, RenameIndex, SaveNameIndex DEF UpdateNext
<1>4. ASSUME NEW c \in Client, DeleteNext(c)
      PROVE  (IndexIsHeld /\ OneOrganizationPerExternalId)'
  BY <1>4, DeleteReadIndex, PeopleIndex, DeleteIndex DEF DeleteNext
<1>5. ASSUME NEW c \in Client, AddAdminNext(c)
      PROVE  (IndexIsHeld /\ OneOrganizationPerExternalId)'
  BY <1>5, AddAdminReadIndex, PeopleIndex DEF AddAdminNext
<1>6. ASSUME NEW c \in Client, EmployeeNext(c)
      PROVE  (IndexIsHeld /\ OneOrganizationPerExternalId)'
  BY <1>6, CreateEmployeeIndex, PeopleIndex DEF EmployeeNext
<1>7. ASSUME UNCHANGED <<organization, request>>
      PROVE  (IndexIsHeld /\ OneOrganizationPerExternalId)'
  BY <1>7 DEF FullInv, IndexIsHeld, OneOrganizationPerExternalId
<1>8. QED
  BY <1>2, <1>3, <1>4, <1>5, <1>6, <1>7, PeopleIndex DEF Next, MakeAdmin, vars

\* However the look-up of get_or_create, its insert and changes of external ids overlap, an
\* external id belongs to one organization that is not deleted.
THEOREM ExternalIdsAreUnique == Spec => []OneOrganizationPerExternalId
<1>1. FullInv => OneOrganizationPerExternalId
  BY DEF FullInv
<1>2. QED
  BY <1>1, FullInitInv, FullNextInv, PTL DEF Spec

\* The tables, Optscale and the sessions of requests keep their types.
THEOREM Typing == Spec => []TypeOK
<1>1. Inv => TypeOK
  BY DEF Inv
<1>2. QED
  BY <1>1, Invariance, PTL

\* Whatever fails or overlaps in routers/organizations.py, an organization that was created
\* as a whole exists at Optscale under an id of its own.
THEOREM LinkedForReal == Spec => []LinksAreReal
<1>1. Inv => LinksAreReal
  BY DEF Inv
<1>2. QED
  BY <1>1, Invariance, PTL

\* Its name is one that Optscale has accepted for it.
THEOREM AcceptedNames == Spec => []NamesWereAccepted
<1>1. Inv => NamesWereAccepted
  BY DEF Inv
<1>2. QED
  BY <1>1, Invariance, PTL

\* Once it is deleted, it is suspended at Optscale.
THEOREM SuspendedWhenDeleted == Spec => []DeletedAreSuspended
<1>1. Inv => DeletedAreSuspended
  BY DEF Inv
<1>2. QED
  BY <1>1, Invariance, PTL

\* Its recorded additional administrators are its administrators at Optscale.
THEOREM RecordedAdministrators == Spec => []RecordedAreAdmins
<1>1. Inv => RecordedAreAdmins
  BY DEF Inv
<1>2. QED
  BY <1>1, Invariance, PTL

\* What the sessions in flight rest on: two of them never flush one row or link one id.
THEOREM SoundSessions == Spec => []SessionsAreSound
<1>1. Inv => SessionsAreSound
  BY DEF Inv
<1>2. QED
  BY <1>1, Invariance, PTL

=============================================================================
