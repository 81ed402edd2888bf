--------------------------- MODULE Systems_proofs ---------------------------
(***************************************************************************)
(* Type correctness of Systems, its safety invariants, who may change a    *)
(* system, that the status column is a StatusRegister, and when it follows *)
(* its life cycle, for every number of systems, accounts, users and        *)
(* requests in flight.                                                     *)
(***************************************************************************)
EXTENDS Systems, TLAPS

\* A deletion a request has seen recorded is recorded still: its own flush, which would then
\* leave the column alone, cannot leave it empty.
DeletionsStayRecorded ==
  \A c \in Client : request[c].phase = "delete" /\ request[c].loaded.deleted_by # None
                      => system[request[c].id].deleted_by # None

Inv == /\ TypeOK /\ SessionsAreSound /\ DeletionsStayRecorded
       /\ DeletedByAnother /\ OneSystemPerExternalId

-----------------------------------------------------------------------------
(* Rows, flushes and steps *)

LEMMA RowsAreTyped ==
  /\ NoSystem \in System /\ NoSystem.status = Absent /\ NoSystem.deleted_by = None
  /\ Idle \in Request /\ Idle.phase = "idle" /\ Idle.caller = None /\ Idle.id = None
BY DEF NoSystem, System, Absent, Idle, Request, Phase

LEMMA FlushColumns ==
  ASSUME NEW row \in System, NEW loaded \in System, NEW assigned \in System
  PROVE  LET new == Flush(row, loaded, assigned) IN
         /\ new \in System
         /\ new.status = IF assigned.status = loaded.status THEN row.status ELSE assigned.status
         /\ new.external_id = IF assigned.external_id = loaded.external_id
                              THEN row.external_id ELSE assigned.external_id
         /\ new.owner = IF assigned.owner = loaded.owner THEN row.owner ELSE assigned.owner
         /\ new.deleted_by = IF assigned.deleted_by = loaded.deleted_by
                             THEN row.deleted_by ELSE assigned.deleted_by
BY DEF Flush, System

\* A request that has read something.
LEMMA GoesInv ==
  ASSUME Inv, NEW c \in Client, NEW to \in Request, Goes(c, to), SessionIsSound(to),
         to.phase = "delete" /\ to.loaded.deleted_by # None => system[to.id].deleted_by # None
  PROVE  Inv'
<1>1. UNCHANGED system /\ request' = [request EXCEPT ![c] = to]
  BY DEF Goes
<1>2. TypeOK'
  BY <1>1 DEF Inv, TypeOK
<1>3. SessionsAreSound'
  BY <1>1 DEF Inv, TypeOK, SessionsAreSound, SessionIsSound
<1>4. DeletionsStayRecorded'
  BY <1>1 DEF Inv, TypeOK, DeletionsStayRecorded
<1>5. DeletedByAnother' /\ OneSystemPerExternalId'
  BY <1>1 DEF Inv, DeletedByAnother, OneSystemPerExternalId
<1>6. QED
  BY <1>2, <1>3, <1>4, <1>5 DEF Inv

\* What a commit makes of the row of s.
RowIsSound(s, row) ==
  /\ row \in System
  /\ row.status # Absent /\ row.external_id # None /\ row.deleted_by # s
  /\ row.status = "deleted" => row.deleted_by # None
  /\ system[s].status # Absent => /\ row.owner = system[s].owner
                                  /\ system[s].deleted_by # None => row.deleted_by # None
  /\ IndexAllows(s, row)

\* A request that commits such a row.
LEMMA CommitInv ==
  ASSUME Inv, NEW c \in Client, NEW s \in SystemId, NEW row, RowIsSound(s, row),
         system' = [system EXCEPT ![s] = row], request' = [request EXCEPT ![c] = Idle]
  PROVE  Inv'
<1> USE DEF RowIsSound
<1>1. TypeOK'
  BY RowsAreTyped DEF Inv, TypeOK
<1>2. /\ \A d \in Client : request'[d] \in {request[d], Idle}
      /\ \A t \in SystemId : /\ system[t].status # Absent =>
                                  /\ system'[t].status # Absent
                                  /\ system'[t].owner = system[t].owner
                                  /\ system[t].deleted_by # None => system'[t].deleted_by # None
                             /\ system'[t].deleted_by # t
                             /\ system'[t].status # Absent => system'[t].external_id # None
  BY DEF Inv, TypeOK, SessionsAreSound
<1>3. ASSUME NEW d \in Client PROVE SessionIsSound(request[d])'
  <2>1. CASE request'[d] = Idle
    BY <2>1, RowsAreTyped, SystemsAssumption DEF SessionIsSound
  <2>2. CASE request'[d] = request[d]
    BY <2>2, <1>2 DEF Inv, TypeOK, SessionsAreSound, SessionIsSound
  <2>3. QED
    BY <1>2, <2>1, <2>2
<1>4. SessionsAreSound'
  BY <1>2, <1>3 DEF SessionsAreSound
<1>5. DeletionsStayRecorded'
  <2> SUFFICES ASSUME NEW d \in Client, request'[d].phase = "delete",
                      request'[d].loaded.deleted_by # None
               PROVE  system'[request'[d].id].deleted_by # None
    BY DEF DeletionsStayRecorded
  <2>1. request'[d] = request[d]
    BY <1>2, RowsAreTyped
  <2>2. QED
    BY <1>2, <2>1 DEF Inv, DeletionsStayRecorded, SessionsAreSound, SessionIsSound
<1>6. DeletedByAnother'
  BY DEF Inv, TypeOK, DeletedByAnother, System
<1>7. OneSystemPerExternalId'
  BY DEF Inv, TypeOK, OneSystemPerExternalId, IndexAllows, Absent
<1>8. QED
  BY <1>1, <1>4, <1>5, <1>6, <1>7 DEF Inv

-----------------------------------------------------------------------------
(* One lemma per kind of step *)

LEMMA FailsInv ==
  ASSUME Inv, NEW c \in Client, RequestFails(c)
  PROVE  Inv'
BY GoesInv, RowsAreTyped, SystemsAssumption DEF RequestFails, SessionIsSound

LEMMA AuthenticateInv ==
  ASSUME Inv, NEW c \in Client,
         \/ \E s \in SystemId : AuthenticateSystem(c, s)
         \/ \E u \in User : AuthenticateUser(c, u)
  PROVE  Inv'
<1>1. ASSUME NEW s \in SystemId, AuthenticateSystem(c, s)
      PROVE  Inv'
  <2> DEFINE to == [Idle EXCEPT !.phase = "authenticated", !.caller = s,
                                !.account = system[s].owner, !.self = system[s]]
  <2>1. /\ to \in Request /\ to.phase = "authenticated" /\ to.caller = s
        /\ to.account = system[s].owner /\ to.self = system[s]
    BY DEF Inv, TypeOK, System, Idle, NoSystem, Request, Phase, Actor, Absent
  <2>2. Goes(c, to) /\ system[s].status = "active"
    BY <1>1 DEF AuthenticateSystem
  <2> HIDE DEF to
  <2>3. SessionIsSound(to)
    BY <2>1, <2>2, SystemsAssumption DEF SessionIsSound, Absent
  <2>4. QED
    BY <2>1, <2>2, <2>3, GoesInv
<1>2. ASSUME NEW u \in User, AuthenticateUser(c, u)
      PROVE  Inv'
  <2> DEFINE to == [Idle EXCEPT !.phase = "authenticated", !.caller = u, !.account = AccountOf[u]]
  <2>1. to \in Request /\ to.phase = "authenticated" /\ to.caller = u
    BY SystemsAssumption DEF Idle, NoSystem, System, Request, Phase, Actor, Absent
  <2>2. Goes(c, to)
    BY <1>2 DEF AuthenticateUser
  <2> HIDE DEF to
  <2>3. SessionIsSound(to)
    BY <2>1, SystemsAssumption DEF SessionIsSound
  <2>4. QED
    BY <2>1, <2>2, <2>3, GoesInv
<1>3. QED
  BY <1>1, <1>2

\* The session's answer is the committed row, or the caller's own as it was authenticated.
LEMMA LoadedRows ==
  ASSUME Inv, NEW c \in Client, NEW s \in SystemId, request[c].phase = "authenticated",
         Visible(s, request[c].account)
  PROVE  /\ Loaded(c, s) \in System
         /\ Loaded(c, s).owner = system[s].owner
         /\ s # request[c].caller => Loaded(c, s) = system[s]
         /\ s = request[c].caller => /\ Loaded(c, s) = request[c].self
                                     /\ Loaded(c, s).status = "active"
         /\ system[s].status # Absent
         /\ request[c].account \in Operations \/ request[c].account = system[s].owner
BY DEF Inv, TypeOK, Request, SessionsAreSound, SessionIsSound, Loaded, Visible

LEMMA FetchInv ==
  ASSUME Inv, NEW c \in Client, NEW s \in SystemId,
         FetchToDelete(c, s) \/ FetchToDisable(c, s) \/ FetchToEnable(c, s)
  PROVE  Inv'
<1> DEFINE r == request[c]
<1>1. PICK phase \in {"delete", "disable", "enable"} :
        /\ r.phase = "authenticated" /\ Visible(s, r.account)
        /\ Goes(c, [r EXCEPT !.phase = phase, !.id = s, !.loaded = Loaded(c, s)])
        /\ phase = "delete" => Loaded(c, s).status \in {"active", "disabled"} /\ s # r.caller
        /\ phase = "disable" => Loaded(c, s).status = "active" /\ s # r.caller
        /\ phase = "enable" => Loaded(c, s).status = "disabled"
  BY DEF FetchToDelete, FetchToDisable, FetchToEnable, Fetch
<1>2. /\ r \in Request /\ SessionIsSound(r)
      /\ Loaded(c, s) \in System
      /\ Loaded(c, s).owner = system[s].owner
      /\ s # r.caller => Loaded(c, s) = system[s]
      /\ s = r.caller => Loaded(c, s).status = "active"
      /\ system[s].status # Absent
      /\ r.account \in Operations \/ r.account = system[s].owner
  BY <1>1, LoadedRows DEF Inv, TypeOK, SessionsAreSound
<1> DEFINE to == [r EXCEPT !.phase = phase, !.id = s, !.loaded = Loaded(c, s)]
<1>3. /\ to \in Request /\ to.phase = phase /\ to.id = s /\ to.loaded = Loaded(c, s)
      /\ to.caller = r.caller /\ to.account = r.account /\ to.self = r.self
  BY <1>2 DEF Request, Phase
<1>4. Goes(c, to)
  BY <1>1
<1> HIDE DEF to, r
<1>5. s # r.caller
  BY <1>1, <1>2
<1>6. SessionIsSound(to)
  BY <1>1, <1>2, <1>3, <1>5 DEF SessionIsSound
<1>7. to.phase = "delete" /\ to.loaded.deleted_by # None => system[to.id].deleted_by # None
  BY <1>2, <1>3, <1>5
<1>8. QED
  BY <1>3, <1>4, <1>6, <1>7, GoesInv

LEMMA FetchToUpdateInv ==
  ASSUME Inv, NEW c \in Client, NEW s \in SystemId, NEW x \in ExternalId, FetchToUpdate(c, s, x)
  PROVE  Inv'
<1> DEFINE r == request[c]
           to == [r EXCEPT !.phase = "update", !.id = s, !.loaded = Loaded(c, s),
                           !.external_id = x]
<1>1. /\ r \in Request /\ SessionIsSound(r) /\ r.phase = "authenticated"
      /\ Goes(c, to) /\ Loaded(c, s).status # "deleted"
  BY DEF FetchToUpdate, Inv, TypeOK, SessionsAreSound
<1>2. /\ Loaded(c, s) \in System
      /\ Loaded(c, s).owner = system[s].owner
      /\ s # r.caller => Loaded(c, s) = system[s]
      /\ s = r.caller => Loaded(c, s) = r.self
      /\ system[s].status # Absent
      /\ r.account \in Operations \/ r.account = system[s].owner
  BY LoadedRows DEF FetchToUpdate
<1>3. /\ to \in Request /\ to.phase = "update" /\ to.id = s /\ to.loaded = Loaded(c, s)
      /\ to.caller = r.caller /\ to.account = r.account /\ to.self = r.self
      /\ to.external_id = x
  BY <1>1, <1>2 DEF Request, Phase
<1>4. Loaded(c, s).status \in {"active", "disabled"}
  BY <1>1, <1>2 DEF System, SystemStatus, SessionIsSound
<1> HIDE DEF to, r
<1>5. SessionIsSound(to)
  BY <1>1, <1>2, <1>3, <1>4, SystemsAssumption DEF SessionIsSound
<1>6. QED
  BY <1>1, <1>3, <1>5, GoesInv

LEMMA CreateInv ==
  ASSUME Inv, NEW c \in Client, NEW s \in SystemId, NEW x \in ExternalId, NEW a \in AccountId,
         Create(c, s, x, a)
  PROVE  Inv'
<1> DEFINE row == [status |-> "active", external_id |-> x, owner |-> a, deleted_by |-> None]
<1>1. /\ row \in System /\ row.status = "active" /\ row.external_id = x
      /\ row.deleted_by = None
  BY DEF System, SystemStatus
<1>2. /\ IndexAllows(s, row) /\ system[s].status = Absent
      /\ system' = [system EXCEPT ![s] = row] /\ request' = [request EXCEPT ![c] = Idle]
  BY DEF Create
<1> HIDE DEF row
<1>3. RowIsSound(s, row)
  BY <1>1, <1>2, SystemsAssumption DEF RowIsSound, Absent
<1>4. QED
  BY <1>2, <1>3, CommitInv

\* What a request that is about to commit holds, and what its flush does to the row.
LEMMA SaveInv ==
  ASSUME Inv, NEW c \in Client, Update(c) \/ Delete(c) \/ Disable(c) \/ Enable(c)
  PROVE  /\ Inv'
         /\ \A s \in SystemId : system'[s] # system[s] =>
              /\ s = request[c].id /\ request'[c] = Idle
              /\ system'[s].owner = system[s].owner
              /\ request[c].account \in Operations \cup {system[s].owner}
              /\ system'[s].status # system[s].status =>
                   /\ s # request[c].caller
                   /\ request[c].phase \in {"delete", "disable", "enable"}
                   /\ <<request[c].loaded.status, system'[s].status>> \in SystemMoves
<1> DEFINE r == request[c]
<1>1. /\ r \in Request /\ SessionIsSound(r) /\ system \in [SystemId -> System]
      /\ request \in [Client -> Request]
      /\ r.phase = "delete" /\ r.loaded.deleted_by # None => system[r.id].deleted_by # None
  BY DEF Inv, TypeOK, SessionsAreSound, DeletionsStayRecorded
<1>2. PICK phase \in {"update", "delete", "disable", "enable"}, assigned \in System :
        /\ r.phase = phase /\ Save(c, phase, assigned)
        /\ assigned.owner = r.loaded.owner
        /\ phase = "update" => /\ assigned.status = r.loaded.status
                               /\ assigned.deleted_by = r.loaded.deleted_by
                               /\ assigned.external_id = r.external_id
        /\ phase # "update" => assigned.external_id = r.loaded.external_id
        /\ phase = "delete" => assigned.status = "deleted" /\ assigned.deleted_by = r.caller
        /\ phase = "disable" => assigned.status = "disabled"
        /\ phase = "enable" => assigned.status = "active"
        /\ phase # "delete" => assigned.deleted_by = r.loaded.deleted_by
  <2>1. CASE Update(c)
    <3> DEFINE assigned == [r.loaded EXCEPT !.external_id = r.external_id]
    <3>1. /\ r.phase = "update" /\ Save(c, "update", assigned)
          /\ r.loaded \in System /\ r.external_id \in ExternalId \cup {None}
      BY <2>1, <1>1 DEF Update, Save, Request
    <3>2. /\ assigned \in System /\ assigned.owner = r.loaded.owner
          /\ assigned.status = r.loaded.status /\ assigned.deleted_by = r.loaded.deleted_by
          /\ assigned.external_id = r.external_id
      BY <3>1 DEF System
    <3> HIDE DEF assigned, r
    <3>3. QED
      BY <3>1, <3>2
  <2>2. CASE Delete(c)
    <3> DEFINE assigned == [r.loaded EXCEPT !.status = "deleted", !.deleted_by = r.caller]
    <3>1. /\ r.phase = "delete" /\ Save(c, "delete", assigned)
          /\ r.loaded \in System /\ r.caller \in Actor \cup {None}
      BY <2>2, <1>1 DEF Delete, Save, Request
    <3>2. /\ assigned \in System /\ assigned.owner = r.loaded.owner
          /\ assigned.status = "deleted" /\ assigned.deleted_by = r.caller
          /\ assigned.external_id = r.loaded.external_id
      BY <3>1 DEF System, SystemStatus
    <3> HIDE DEF assigned, r
    <3>3. QED
      BY <3>1, <3>2
  <2>3. CASE Disable(c) \/ Enable(c)
    <3>1. PICK phase \in {"disable", "enable"} :
            Save(c, phase, [r.loaded EXCEPT !.status = IF phase = "disable" THEN "disabled"
                                                       ELSE "active"])
      BY <2>3 DEF Disable, Enable
    <3> DEFINE assigned == [r.loaded EXCEPT !.status = IF phase = "disable" THEN "disabled"
                                                       ELSE "active"]
    <3>2. r.phase = phase /\ Save(c, phase, assigned) /\ r.loaded \in System
      BY <3>1, <1>1 DEF Save, Request
    <3>3. /\ assigned \in System /\ assigned.owner = r.loaded.owner
          /\ assigned.status = IF phase = "disable" THEN "disabled" ELSE "active"
          /\ assigned.deleted_by = r.loaded.deleted_by
          /\ assigned.external_id = r.loaded.external_id
      BY <3>2 DEF System, SystemStatus
    <3> HIDE DEF assigned, r
    <3>4. QED
      BY <3>2, <3>3
  <2>4. QED
    BY <2>1, <2>2, <2>3
<1>3. PICK s \in SystemId, loaded \in System :
        /\ s = r.id /\ loaded = r.loaded /\ system[s].status # Absent
        /\ loaded.owner = system[s].owner
        /\ r.account \in Operations \/ r.account = system[s].owner
        /\ phase # "update" => s # r.caller
        /\ r.caller # None
        /\ phase = "update" => r.external_id # None
        /\ phase = "delete" => loaded.status \in {"active", "disabled"}
        /\ phase = "disable" => loaded.status = "active"
        /\ phase = "enable" => loaded.status = "disabled"
  BY <1>1, <1>2 DEF SessionIsSound, Request
<1>4. PICK row : /\ row = Flush(system[s], loaded, assigned) /\ IndexAllows(s, row)
                 /\ system' = [system EXCEPT ![s] = row]
                 /\ request' = [request EXCEPT ![c] = Idle]
  BY <1>2, <1>3 DEF Save
<1>5. /\ row \in System
      /\ row.status = IF assigned.status = loaded.status THEN system[s].status
                      ELSE assigned.status
      /\ row.external_id = IF assigned.external_id = loaded.external_id
                           THEN system[s].external_id ELSE assigned.external_id
      /\ row.owner = system[s].owner
      /\ row.deleted_by = IF assigned.deleted_by = loaded.deleted_by
                          THEN system[s].deleted_by ELSE assigned.deleted_by
  BY <1>1, <1>2, <1>3, <1>4, FlushColumns
<1>6. /\ system[s].deleted_by # s /\ system[s].external_id # None
      /\ system[s].status = "deleted" => system[s].deleted_by # None
  BY <1>3, SystemsAssumption DEF Inv, SessionsAreSound, DeletedByAnother, Actor
<1> HIDE DEF r
<1>7. row.status # Absent /\ row.external_id # None
  BY <1>2, <1>3, <1>5, <1>6 DEF Absent
<1>8. /\ row.deleted_by # s
      /\ row.status = "deleted" => row.deleted_by # None
      /\ system[s].deleted_by # None => row.deleted_by # None
  BY <1>1, <1>2, <1>3, <1>5, <1>6
<1>9. RowIsSound(s, row)
  BY <1>4, <1>5, <1>7, <1>8 DEF RowIsSound
<1>10. /\ \A t \in SystemId : system'[t] # system[t] => t = s
       /\ system'[s] = row /\ request'[c] = Idle
  BY <1>1, <1>4
<1>11. row.status # system[s].status =>
         /\ s # r.caller /\ phase \in {"delete", "disable", "enable"}
         /\ <<loaded.status, row.status>> \in SystemMoves
  BY <1>2, <1>3, <1>5 DEF SystemMoves
<1>12. Inv'
  BY <1>4, <1>9, CommitInv
<1>13. QED
  BY <1>2, <1>3, <1>5, <1>10, <1>11, <1>12 DEF r

-----------------------------------------------------------------------------
(* The theorems *)

LEMMA InitInv == Init => Inv
BY RowsAreTyped, SystemsAssumption
   DEF Init, Inv, TypeOK, SessionsAreSound, SessionIsSound, DeletionsStayRecorded,
       DeletedByAnother, OneSystemPerExternalId, Absent

LEMMA NextInv == Inv /\ [Next]_vars => Inv'
<1> SUFFICES ASSUME Inv, [Next]_vars PROVE Inv'
  OBVIOUS
<1>1. CASE UNCHANGED vars
  BY <1>1 DEF vars, Inv, TypeOK, SessionsAreSound, SessionIsSound, DeletionsStayRecorded,
              DeletedByAnother, OneSystemPerExternalId
<1>2. ASSUME NEW c \in Client, Reads(c) PROVE Inv'
  BY <1>2, AuthenticateInv, FetchInv, FetchToUpdateInv DEF Reads
<1>3. ASSUME NEW c \in Client, Writes(c) PROVE Inv'
  BY <1>3, CreateInv, SaveInv DEF Writes
<1>4. ASSUME NEW c \in Client, RequestFails(c) PROVE Inv'
  BY <1>4, FailsInv
<1>5. QED
  BY <1>1, <1>2, <1>3, <1>4 DEF Next

THEOREM Invariance == Spec => []Inv
BY InitInv, NextInv, PTL DEF Spec

\* The table and the sessions are well typed.
THEOREM Typing == Spec => []TypeOK
<1>1. Inv => TypeOK
  BY DEF Inv
<1>2. QED
  BY <1>1, Invariance, PTL

\* What sessions hold of their caller and of the row they are about.
THEOREM SessionsHold == Spec => []SessionsAreSound
<1>1. Inv => SessionsAreSound
  BY DEF Inv
<1>2. QED
  BY <1>1, Invariance, PTL

\* A deleted system was deleted by somebody else (delete_system, "A system cannot delete
\* itself").
THEOREM DeletionsAreOthers == Spec => []DeletedByAnother
<1>1. Inv => DeletedByAnother
  BY DEF Inv
<1>2. QED
  BY <1>1, Invariance, PTL

\* An external id is of one system that is not deleted, also when an enable brings one back
\* (the unique index of the systems table).
THEOREM ExternalIdsAreUnique == Spec => []OneSystemPerExternalId
<1>1. Inv => OneSystemPerExternalId
  BY DEF Inv
<1>2. QED
  BY <1>1, Invariance, PTL

\* What a step other than a commit does to the table: nothing, or a new row.
LEMMA OtherStepsOfTheTable ==
  ASSUME Inv, NEW c \in Client,
         \/ Reads(c) \/ RequestFails(c)
         \/ \E s \in SystemId, x \in ExternalId, a \in AccountId : Create(c, s, x, a)
  PROVE  \A s \in SystemId : system'[s] # system[s] => system[s].status = Absent
BY DEF Inv, TypeOK, Reads, RequestFails, Create, AuthenticateSystem, AuthenticateUser,
       FetchToDelete, FetchToDisable, FetchToEnable, Fetch, FetchToUpdate, Goes

\* A change of status is somebody else's: enable_system needs no check of its own.
THEOREM OthersChangeStatus == Spec => StatusIsChangedByOthers
<1>1. Inv /\ [Next]_vars =>
        [\A s \in SystemId :
           system[s].status \notin {Absent, system'[s].status} =>
             \E c \in Client : /\ request[c].id = s /\ request'[c] = Idle
                               /\ request[c].caller # s]_vars
  <2> SUFFICES ASSUME Inv, Next, NEW s \in SystemId,
                      system[s].status \notin {Absent, system'[s].status}
               PROVE  \E c \in Client : /\ request[c].id = s /\ request'[c] = Idle
                                        /\ request[c].caller # s
    OBVIOUS
  <2>1. PICK c \in Client : Reads(c) \/ Writes(c) \/ RequestFails(c)
    BY DEF Next
  <2>2. Update(c) \/ Delete(c) \/ Disable(c) \/ Enable(c)
    BY <2>1, OtherStepsOfTheTable DEF Writes
  <2>3. QED
    BY <2>2, SaveInv
<1>2. QED
  BY <1>1, Invariance, PTL DEF Spec, StatusIsChangedByOthers

\* A system stays with its owner, and only the owner and operations change it.
THEOREM OwnersKeep == Spec => OwnersKeepTheirSystems
<1>1. Inv /\ [Next]_vars =>
        [\A s \in SystemId : system[s].status # Absent /\ system'[s] # system[s] =>
           /\ system'[s].owner = system[s].owner
           /\ \E c \in Client :
                /\ request[c].id = s /\ request'[c] = Idle
                /\ request[c].account \in Operations \cup {system[s].owner}]_vars
  <2> SUFFICES ASSUME Inv, Next, NEW s \in SystemId,
                      system[s].status # Absent, system'[s] # system[s]
               PROVE  /\ system'[s].owner = system[s].owner
                      /\ \E c \in Client :
                           /\ request[c].id = s /\ request'[c] = Idle
                           /\ request[c].account \in Operations \cup {system[s].owner}
    OBVIOUS
  <2>1. PICK c \in Client : Reads(c) \/ Writes(c) \/ RequestFails(c)
    BY DEF Next
  <2>2. Update(c) \/ Delete(c) \/ Disable(c) \/ Enable(c)
    BY <2>1, OtherStepsOfTheTable DEF Writes
  <2>3. QED
    BY <2>2, SaveInv
<1>2. QED
  BY <1>1, Invariance, PTL DEF Spec, OwnersKeepTheirSystems

-----------------------------------------------------------------------------
(* Refinement: the status column and what requests have seen of it *)

LEMMA InitRefines == Init => Register!Init
<1> SUFFICES ASSUME Init PROVE Register!Init
  OBVIOUS
<1>1. \A s \in SystemId : system[s].status = Absent
  BY RowsAreTyped DEF Init
<1>2. \A c \in Client : StatusSeenBy(c) = [s \in SystemId |-> Absent]
  BY RowsAreTyped DEF Init, StatusSeenBy
<1>3. QED
  BY <1>1, <1>2 DEF Register!Init, Register!Blind

\* The request forgets what it has seen, if anything, and the status column stays.
LEMMA ForgetsRefines ==
  ASSUME Inv, NEW c \in Client, NEW to \in Request,
         to.phase \notin {"delete", "disable", "enable"},
         request' = [request EXCEPT ![c] = to],
         \A s \in SystemId : system'[s].status = system[s].status
  PROVE  Register!Next
<1>1. /\ StatusSeenBy(c)' = [s \in SystemId |-> Absent]
      /\ \A d \in Client \ {c} : StatusSeenBy(d)' = StatusSeenBy(d)
  BY DEF Inv, TypeOK, StatusSeenBy
<1>2. Register!Rollback(c)
  BY <1>1 DEF Register!Rollback, Register!Blind
<1>3. QED
  BY <1>2 DEF Register!Next

\* An authenticated request, which has seen nothing yet, loads the row it may move.
LEMMA LooksRefines ==
  ASSUME Inv, NEW c \in Client, NEW to \in Request, Goes(c, to),
         request[c].phase = "authenticated", to.phase \in {"delete", "disable", "enable"},
         to.id \in SystemId, to.loaded = system[to.id], system[to.id].status # Absent
  PROVE  Register!Next
<1>1. /\ StatusSeenBy(c) = [s \in SystemId |-> Absent]
      /\ StatusSeenBy(c)' = [s \in SystemId |-> IF s = to.id THEN system[s].status ELSE Absent]
      /\ \A d \in Client \ {c} : StatusSeenBy(d)' = StatusSeenBy(d)
      /\ UNCHANGED system
  BY DEF Inv, TypeOK, StatusSeenBy, Goes
<1>2. Register!Observe(c, to.id)
  BY <1>1 DEF Register!Observe
<1>3. QED
  BY <1>2 DEF Register!Next

\* The request commits a move from the status it has seen.
LEMMA MovesRefines ==
  ASSUME Inv, NEW c \in Client, NEW s \in SystemId, NEW new \in SystemStatus,
         request' = [request EXCEPT ![c] = Idle],
         s = request[c].id, request[c].phase \in {"delete", "disable", "enable"},
         <<request[c].loaded.status, new>> \in SystemMoves,
         \A t \in SystemId : system'[t].status = IF t = s THEN new ELSE system[t].status
  PROVE  Register!Next
<1>1. /\ StatusSeenBy(c)[s] = request[c].loaded.status
      /\ StatusSeenBy(c)' = [t \in SystemId |-> Absent]
      /\ \A d \in Client \ {c} : StatusSeenBy(d)' = StatusSeenBy(d)
  BY RowsAreTyped DEF Inv, TypeOK, StatusSeenBy
<1> DEFINE R == {s}
           news == [t \in R |-> new]
<1>2. /\ R \in SUBSET SystemId /\ news \in [R -> SystemStatus]
      /\ \A t \in R : <<StatusSeenBy(c)[t], news[t]>> \in SystemMoves
      /\ \A t \in SystemId : system'[t].status = IF t \in R THEN news[t] ELSE system[t].status
  BY <1>1
<1> HIDE DEF R, news
<1>3. Register!SetStatus(R, news)
  BY <1>2 DEF Register!SetStatus
<1>4. [d \in Client |-> StatusSeenBy(d)]'
        = [[d \in Client |-> StatusSeenBy(d)] EXCEPT ![c] = Register!Blind]
  BY <1>1 DEF Register!Blind
<1>5. \A t \in R : <<[d \in Client |-> StatusSeenBy(d)][c][t], news[t]>> \in SystemMoves
  BY <1>2
<1>6. Register!Commit(c)
  BY <1>2, <1>3, <1>4, <1>5 DEF Register!Commit
<1>7. QED
  BY <1>6 DEF Register!Next

\* An active row is inserted.
LEMMA InsertRefines ==
  ASSUME Inv, NEW c \in Client, NEW s \in SystemId, NEW x \in ExternalId, NEW a \in AccountId,
         Create(c, s, x, a)
  PROVE  Register!Next
<1>1. /\ \A t \in SystemId : system'[t].status = IF t = s THEN "active" ELSE system[t].status
      /\ system[s].status = Absent
  BY DEF Inv, TypeOK, Create
<1>2. \A d \in Client : StatusSeenBy(d)' = StatusSeenBy(d)
  BY RowsAreTyped DEF Inv, TypeOK, Create, StatusSeenBy
<1>3. Register!Insert(s)
  BY <1>1, <1>2 DEF Register!Insert
<1>4. QED
  BY <1>3 DEF Register!Next

LEMMA NextRefines == Inv /\ [Next]_vars => [Register!Next]_(Register!vars)
<1> SUFFICES ASSUME Inv, [Next]_vars PROVE [Register!Next]_(Register!vars)
  OBVIOUS
<1>1. CASE UNCHANGED vars
  BY <1>1 DEF vars, Register!vars, StatusSeenBy
<1>2. ASSUME NEW c \in Client,
             \/ RequestFails(c)
             \/ \E s \in SystemId : AuthenticateSystem(c, s)
             \/ \E u \in User : AuthenticateUser(c, u)
             \/ \E s \in SystemId, x \in ExternalId : FetchToUpdate(c, s, x)
      PROVE  Register!Next
  <2>1. PICK to : /\ to.phase \notin {"delete", "disable", "enable"}
                  /\ Goes(c, to)
    BY <1>2, RowsAreTyped DEF RequestFails, AuthenticateSystem, AuthenticateUser, FetchToUpdate,
                              Inv, TypeOK, Request, Idle
  <2>2. request'[c] = to /\ Inv' /\ UNCHANGED system /\ request' = [request EXCEPT ![c] = to]
    BY <2>1, <1>2, FailsInv, AuthenticateInv, FetchToUpdateInv DEF Goes, Inv, TypeOK
  <2>3. to \in Request
    BY <2>2 DEF Inv, TypeOK
  <2>4. QED
    BY <2>1, <2>2, <2>3, ForgetsRefines
<1>3. ASSUME NEW c \in Client, NEW s \in SystemId,
             FetchToDelete(c, s) \/ FetchToDisable(c, s) \/ FetchToEnable(c, s)
      PROVE  Register!Next
  <2>1. PICK phase \in {"delete", "disable", "enable"} :
          /\ request[c].phase = "authenticated" /\ Visible(s, request[c].account)
          /\ Goes(c, [request[c] EXCEPT !.phase = phase, !.id = s, !.loaded = Loaded(c, s)])
          /\ phase \in {"delete", "disable"} => s # request[c].caller
          /\ phase = "enable" => Loaded(c, s).status = "disabled"
    BY <1>3 DEF FetchToDelete, FetchToDisable, FetchToEnable, Fetch
  <2>2. Loaded(c, s) = system[s] /\ system[s].status # Absent
    BY <2>1, LoadedRows
  <2>3. PICK to : /\ to.phase = phase /\ to.id = s /\ to.loaded = system[s]
                  /\ Goes(c, to)
    BY <2>1, <2>2 DEF Inv, TypeOK, Request
  <2>4. Inv' /\ request'[c] = to
    BY <1>3, <2>3, FetchInv DEF Goes, Inv, TypeOK
  <2>5. to \in Request
    BY <2>4 DEF Inv, TypeOK
  <2>6. QED
    BY <2>1, <2>2, <2>3, <2>5, LooksRefines
<1>4. ASSUME NEW c \in Client, Update(c) \/ Delete(c) \/ Disable(c) \/ Enable(c)
      PROVE  Register!Next
  <2>1. PICK s \in SystemId : /\ s = request[c].id
                              /\ \A t \in SystemId \ {s} : system'[t] = system[t]
                              /\ request' = [request EXCEPT ![c] = Idle]
    BY <1>4 DEF Update, Delete, Disable, Enable, Save, Inv, TypeOK, SessionsAreSound,
                SessionIsSound
  <2>2. system' \in [SystemId -> System] /\ SessionsAreSound'
    BY <1>4, SaveInv DEF Inv, TypeOK
  <2>3. CASE system'[s].status = system[s].status
    BY <2>1, <2>3, RowsAreTyped, ForgetsRefines
  <2>4. CASE system'[s].status # system[s].status
    <3>1. /\ request[c].phase \in {"delete", "disable", "enable"}
          /\ <<request[c].loaded.status, system'[s].status>> \in SystemMoves
      BY <1>4, <2>1, <2>4, SaveInv
    <3>2. PICK new \in SystemStatus : new = system'[s].status
      BY <3>1 DEF SystemMoves, SystemStatus
    <3>3. QED
      BY <2>1, <3>1, <3>2, MovesRefines
  <2>5. QED
    BY <2>3, <2>4
<1>5. QED
  BY <1>1, <1>2, <1>3, <1>4, InsertRefines DEF Next, Reads, Writes

\* Whatever requests overlap, the status column keeps the promise of the persistence layer.
THEOREM Refinement == Spec => ImplementsRegister
<1>1. QED
  BY InitRefines, NextRefines, Invariance, PTL DEF Spec, ImplementsRegister, Register!Spec

-----------------------------------------------------------------------------
(* The life cycle *)

LEMMA SettledRowsMove ==
  ASSUME Register!Next, NEW s \in SystemId, Register!Settled(s)
  PROVE  Register!FollowsLifecycle(s)
<1>1. CASE \E t \in SystemId : Register!Insert(t)
  BY <1>1 DEF Register!Insert, Register!FollowsLifecycle
<1>2. CASE \/ \E c \in Client, t \in SystemId : Register!Observe(c, t)
           \/ \E c \in Client : Register!Rollback(c)
  BY <1>2 DEF Register!Observe, Register!Rollback, Register!FollowsLifecycle
<1>3. ASSUME NEW c \in Client, Register!Commit(c)
      PROVE  Register!FollowsLifecycle(s)
  <2>1. StatusSeenBy(c)[s] \in {Absent, system[s].status}
    BY DEF Register!Settled
  <2>2. PICK R \in SUBSET SystemId : \E new \in [R -> SystemStatus] :
          /\ \A t \in R : <<[d \in Client |-> StatusSeenBy(d)][c][t], new[t]>> \in SystemMoves
          /\ Register!SetStatus(R, new)
    BY <1>3 DEF Register!Commit
  <2>3. QED
    BY <2>1, <2>2 DEF SystemMoves, Absent, Register!SetStatus, Register!FollowsLifecycle
<1>4. CASE Register!ConditionalUpdate
  BY <1>4 DEF Register!ConditionalUpdate, Register!SetStatus, Register!FollowsLifecycle
<1>5. QED
  BY <1>1, <1>2, <1>3, <1>4 DEF Register!Next

\* A system of which no request holds an outdated view follows its life cycle: only an enable
\* that has loaded a system before its deletion brings it back (enable_system).
THEOREM SettledSystems == Spec => Register!SettledRowsFollowLifecycle
<1>1. Inv /\ [Next]_vars
        => [\A r \in SystemId :
              Register!Settled(r) => Register!FollowsLifecycle(r)]_(Register!vars)
  BY NextRefines, SettledRowsMove
<1>2. Spec => [][\A r \in SystemId :
                   Register!Settled(r) => Register!FollowsLifecycle(r)]_(Register!vars)
  BY <1>1, Invariance, PTL DEF Spec
<1>3. QED
  BY <1>2 DEF Register!SettledRowsFollowLifecycle

\* The status a request is about to move is the one the row has.
NobodyIsOutdated ==
  \A c \in Client : request[c].phase \in {"delete", "disable", "enable"}
                      => request[c].loaded.status = system[request[c].id].status

LEMMA NextKeepsViews ==
  ASSUME \A c, d \in Client : c = d, Inv, NobodyIsOutdated, Next
  PROVE  NobodyIsOutdated'
<1>1. PICK c \in Client : Reads(c) \/ Writes(c) \/ RequestFails(c)
  BY DEF Next
<1>2. CASE Writes(c) \/ RequestFails(c)
  <2>1. request' = [request EXCEPT ![c] = Idle]
    BY <1>2 DEF Writes, Create, Update, Delete, Disable, Enable, Save, RequestFails, Goes
  <2>2. request'[c].phase = "idle"
    BY <2>1 DEF Inv, TypeOK, Idle
  <2>3. request'[c].phase \notin {"delete", "disable", "enable"}
    BY <2>2
  <2>4. QED
    BY <2>3 DEF NobodyIsOutdated
<1>3. CASE \/ \E s \in SystemId : AuthenticateSystem(c, s)
           \/ \E u \in User : AuthenticateUser(c, u)
           \/ \E s \in SystemId, x \in ExternalId : FetchToUpdate(c, s, x)
  <2>1. PICK to : to.phase \notin {"delete", "disable", "enable"} /\ Goes(c, to)
    BY <1>3, RowsAreTyped DEF AuthenticateSystem, AuthenticateUser, FetchToUpdate, Inv, TypeOK,
                              Request, Idle
  <2>2. request'[c].phase \notin {"delete", "disable", "enable"}
    BY <2>1 DEF Goes, Inv, TypeOK
  <2>3. QED
    BY <2>2 DEF NobodyIsOutdated
<1>4. ASSUME NEW s \in SystemId,
             FetchToDelete(c, s) \/ FetchToDisable(c, s) \/ FetchToEnable(c, s)
      PROVE  NobodyIsOutdated'
  <2>1. PICK phase \in {"delete", "disable", "enable"} :
          /\ request[c].phase = "authenticated" /\ Visible(s, request[c].account)
          /\ Goes(c, [request[c] EXCEPT !.phase = phase, !.id = s, !.loaded = Loaded(c, s)])
          /\ phase \in {"delete", "disable"} => s # request[c].caller
          /\ phase = "enable" => Loaded(c, s).status = "disabled"
    BY <1>4 DEF FetchToDelete, FetchToDisable, FetchToEnable, Fetch
  <2>2. Loaded(c, s) = system[s]
    BY <2>1, LoadedRows
  <2>3. request'[c].id = s /\ request'[c].loaded = system[s] /\ UNCHANGED system
    BY <2>1, <2>2 DEF Goes, Inv, TypeOK, Request
  <2>4. QED
    BY <2>3 DEF NobodyIsOutdated
<1>5. QED
  BY <1>1, <1>2, <1>3, <1>4 DEF Reads

\* While requests come one at a time, every system follows its life cycle: what is deleted
\* stays deleted (the handlers' checks of the loaded status).
THEOREM StatusesFollowLifecycle ==
  ASSUME \A c, d \in Client : c = d
  PROVE  Spec => Register!RowsFollowLifecycle
<1>1. Init => NobodyIsOutdated
  BY DEF Init, NobodyIsOutdated, Idle
<1>2. Inv /\ NobodyIsOutdated /\ [Next]_vars => NobodyIsOutdated'
  BY NextKeepsViews DEF NobodyIsOutdated, vars
<1>3. ASSUME NobodyIsOutdated, NEW s \in SystemId PROVE Register!Settled(s)
  BY <1>3 DEF NobodyIsOutdated, Register!Settled, StatusSeenBy
<1>4. Inv /\ NobodyIsOutdated /\ [Next]_vars
        => [\A r \in SystemId : Register!FollowsLifecycle(r)]_(Register!vars)
  BY <1>3, NextRefines, SettledRowsMove
<1>5. Spec => [][\A r \in SystemId : Register!FollowsLifecycle(r)]_(Register!vars)
  BY <1>1, <1>2, <1>4, Invariance, PTL DEF Spec
<1>6. QED
  BY <1>5 DEF Register!RowsFollowLifecycle

=============================================================================
