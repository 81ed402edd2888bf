------------------------- MODULE Entitlements_proofs -------------------------
(***************************************************************************)
(* For every number of entitlements, organizations, data sources and       *)
(* requests in flight: type correctness, that a redemption is never torn   *)
(* between two writers, that the job redeems for the right data sources    *)
(* and once for each, that the status column is a StatusRegister, and that *)
(* a redemption is final for whoever has seen it.                          *)
(***************************************************************************)
EXTENDS Entitlements, TLAPS

-----------------------------------------------------------------------------
(* Rows and what writers assign *)

\* A flush stays inside the table, and column by column keeps or assigns.
LEMMA FlushColumns ==
  ASSUME NEW row \in Row, NEW loaded \in Row, NEW assigned \in Row
  PROVE  LET new == Flush(row, loaded, assigned) IN
         /\ new \in Row
         /\ new.status =
              IF assigned.status = loaded.status THEN row.status ELSE assigned.status
         /\ new.redeemed_by = IF assigned.redeemed_by = loaded.redeemed_by
                              THEN row.redeemed_by ELSE assigned.redeemed_by
         /\ new.linked_datasource = IF assigned.linked_datasource = loaded.linked_datasource
                                    THEN row.linked_datasource ELSE assigned.linked_datasource
         /\ new.datasource = IF assigned.datasource = loaded.datasource
                             THEN row.datasource ELSE assigned.datasource
         /\ new.terminated = IF assigned.terminated = loaded.terminated
                             THEN row.terminated ELSE assigned.terminated
BY DEF Flush, Row

LEMMA NoRowIsRow == NoRow \in Row
BY DEF NoRow, Row

LEMMA NewRowIsRow ==
  ASSUME NEW owner \in Account, NEW account \in CloudAccount
  PROVE  NewRow(owner, account) \in Row
BY DEF NewRow, NoRow, Row, EntitlementStatus

\* What each writer's flush makes of a whole row, given what it knows of the row.
LEMMA FlushTerminated ==
  ASSUME NEW row \in Row, NEW loaded \in Row, Whole(row), loaded.status = "active",
         row.redeemed_by # None, loaded.terminated => row.terminated
  PROVE  LET new == Flush(row, loaded, Terminated(loaded)) IN
         /\ new \in Row /\ Whole(new) /\ new.status = "terminated"
         /\ new.redeemed_by = row.redeemed_by
         /\ new.linked_datasource = row.linked_datasource
         /\ new.datasource = row.datasource
         /\ new.terminated
<1> DEFINE assigned == Terminated(loaded)
<1>1. assigned \in Row
  BY DEF Terminated, Row, EntitlementStatus
<1>2. /\ assigned.status = "terminated" /\ assigned.terminated
      /\ assigned.redeemed_by = loaded.redeemed_by
      /\ assigned.linked_datasource = loaded.linked_datasource
      /\ assigned.datasource = loaded.datasource
  BY DEF Terminated, Row
<1>3. loaded.terminated \in BOOLEAN /\ row.terminated \in BOOLEAN
  BY DEF Row
<1> HIDE DEF assigned
<1>4. QED
  BY <1>1, <1>2, <1>3, FlushColumns DEF Whole, Absent, assigned

LEMMA FlushDeleted ==
  ASSUME NEW row \in Row, NEW loaded \in Row, Whole(row), loaded.status = "new"
  PROVE  LET new == Flush(row, loaded, Deleted(loaded)) IN
         /\ new \in Row /\ Whole(new) /\ new.status = "deleted"
         /\ new.redeemed_by = row.redeemed_by
         /\ new.linked_datasource = row.linked_datasource
         /\ new.datasource = row.datasource
         /\ new.terminated = row.terminated
<1> DEFINE assigned == Deleted(loaded)
<1>1. assigned \in Row
  BY DEF Deleted, Row, EntitlementStatus
<1>2. /\ assigned.status = "deleted"
      /\ assigned.terminated = loaded.terminated
      /\ assigned.redeemed_by = loaded.redeemed_by
      /\ assigned.linked_datasource = loaded.linked_datasource
      /\ assigned.datasource = loaded.datasource
  BY DEF Deleted, Row
<1> HIDE DEF assigned
<1>3. QED
  BY <1>1, <1>2, FlushColumns DEF Whole, Absent, assigned

\* Both redemption columns are NULL in the loaded object, so both are sent.
LEMMA FlushRedeemed ==
  ASSUME NEW row \in Row, NEW loaded \in Row, Whole(row), Whole(loaded),
         loaded.status = "new", NEW o \in Organization, NEW d \in Datasource, OwnerOf[d] = o
  PROVE  LET new == Flush(row, loaded, Redeemed(loaded, o, d)) IN
         /\ new \in Row /\ Whole(new)
         /\ new.status = "active"
         /\ new.redeemed_by = o /\ new.linked_datasource = d
         /\ new.datasource = row.datasource
         /\ new.terminated = row.terminated
<1> DEFINE assigned == Redeemed(loaded, o, d)
<1>1. assigned \in Row
  BY DEF Redeemed, Row, EntitlementStatus
<1>2. /\ assigned.status = "active" /\ assigned.redeemed_by = o
      /\ assigned.linked_datasource = d /\ assigned.terminated = loaded.terminated
      /\ assigned.datasource = loaded.datasource
  BY DEF Redeemed, Row
<1>3. o # None /\ d # None /\ loaded.redeemed_by = None /\ loaded.linked_datasource = None
  BY EntitlementsAssumption DEF Whole
<1> HIDE DEF assigned
<1>4. QED
  BY <1>1, <1>2, <1>3, FlushColumns DEF Whole, Absent, assigned

-----------------------------------------------------------------------------
(* The inductive invariant *)

Inv == TypeOK /\ RedemptionIsWhole /\ SessionsAreSound

LEMMA IdleIsRequest ==
  /\ Idle \in Request /\ Idle.phase = "idle"
  /\ NoCandidate \in [id: EntitlementId \cup {None}, loaded: Row,
                      datasource: Datasource \cup {None}]
BY NoRowIsRow DEF Idle, Request, Phase, NoCandidate

LEMMA NoRowIsWhole == Whole(NoRow) /\ NoRow.status = Absent
BY DEF Whole, NoRow, Absent

LEMMA InitInv == Init => Inv
<1> SUFFICES ASSUME Init PROVE Inv
  OBVIOUS
<1>1. TypeOK
  BY NoRowIsRow, IdleIsRequest DEF Init, TypeOK, OrganizationStatus
<1>2. RedemptionIsWhole
  BY NoRowIsWhole DEF Init, RedemptionIsWhole
<1>3. SessionsAreSound
  BY IdleIsRequest, NoRowIsWhole
     DEF Init, SessionsAreSound, RequestsAreSound, JobIsSound, Locked
<1>4. QED
  BY <1>1, <1>2, <1>3 DEF Inv

\* A request ends: its slot is free again and nothing else has changed.
LEMMA EndedRequest ==
  ASSUME Inv, NEW c \in Client, request' = [request EXCEPT ![c] = Idle],
         UNCHANGED <<entitlement, organization, jobVars>>
  PROVE  Inv'
<1> USE DEF jobVars
<1>1. TypeOK'
  BY IdleIsRequest DEF Inv, TypeOK
<1>2. RedemptionIsWhole'
  BY DEF Inv, RedemptionIsWhole
<1>3. RequestsAreSound'
  BY IdleIsRequest DEF Inv, TypeOK, SessionsAreSound, RequestsAreSound
<1>4. JobIsSound'
  BY DEF Inv, SessionsAreSound, JobIsSound, Locked
<1>5. QED
  BY <1>1, <1>2, <1>3, <1>4 DEF Inv, SessionsAreSound

LEMMA CreateInv ==
  ASSUME Inv, NEW e \in EntitlementId, NEW a \in Account, NEW owner \in Affiliate,
         NEW account \in CloudAccount, CreateEntitlement(e, a, owner, account)
  PROVE  Inv'
<1> USE DEF jobVars
<1> DEFINE row == NewRow(owner, account)
<1>1. /\ row \in Row /\ Whole(row) /\ ~row.terminated /\ row.redeemed_by = None
  BY NewRowIsRow, EntitlementsAssumption DEF NewRow, NoRow, Whole, Absent
<1>2. ~entitlement[e].terminated /\ entitlement[e].redeemed_by = None
  BY DEF Inv, RedemptionIsWhole, Whole, CreateEntitlement
<1>3. entitlement' = [entitlement EXCEPT ![e] = row]
  BY DEF CreateEntitlement
<1> HIDE DEF row
<1>4. TypeOK'
  BY <1>1, <1>3 DEF CreateEntitlement, Inv, TypeOK
<1>5. RedemptionIsWhole'
  BY <1>1, <1>3 DEF Inv, TypeOK, RedemptionIsWhole
<1>6. RequestsAreSound'
  BY <1>1, <1>2, <1>3
     DEF CreateEntitlement, Inv, TypeOK, SessionsAreSound, RequestsAreSound
<1>7. JobIsSound'
  BY <1>1, <1>2, <1>3
     DEF CreateEntitlement, Inv, TypeOK, Row, SessionsAreSound, JobIsSound, Locked
<1>8. QED
  BY <1>4, <1>5, <1>6, <1>7 DEF Inv, SessionsAreSound

\* The request keeps the version it loaded; at that moment it is the committed one.
LEMMA FetchInv ==
  ASSUME Inv, NEW c \in Client, NEW e \in EntitlementId, NEW a \in Account, NEW s, NEW phase,
         Fetch(c, e, a, s, phase),
         \/ s = "active" /\ phase = "terminate"
         \/ s = "new" /\ phase \in {"delete", "redeem_organization"}
  PROVE  Inv'
<1> USE DEF jobVars
<1> DEFINE new == [Idle EXCEPT !.phase = phase, !.id = e, !.loaded = entitlement[e]]
<1>1. /\ new \in Request
      /\ new.phase = phase /\ new.id = e /\ new.loaded = entitlement[e]
  BY IdleIsRequest DEF Inv, TypeOK, Request, Phase, Idle
<1>2. request' = [request EXCEPT ![c] = new] /\ entitlement[e].status = s
  BY DEF Fetch
<1> HIDE DEF new
<1>3. TypeOK'
  BY <1>1, <1>2 DEF Fetch, Inv, TypeOK
<1>4. RedemptionIsWhole'
  BY DEF Fetch, Inv, RedemptionIsWhole
<1>5. RequestsAreSound'
  BY <1>1, <1>2 DEF Fetch, Inv, TypeOK, RedemptionIsWhole, SessionsAreSound, RequestsAreSound
<1>6. JobIsSound'
  BY DEF Fetch, Inv, SessionsAreSound, JobIsSound, Locked
<1>7. QED
  BY <1>3, <1>4, <1>5, <1>6 DEF Inv, SessionsAreSound

LEMMA CheckOrganizationInv ==
  ASSUME Inv, NEW c \in Client, NEW o \in Organization, NEW d \in Datasource,
         CheckOrganization(c, o, d)
  PROVE  Inv'
<1> USE DEF jobVars
<1>1. CASE organization[o] # "active"
  BY <1>1, EndedRequest DEF CheckOrganization
<1>2. CASE organization[o] = "active"
  <2> DEFINE new == [request[c] EXCEPT !.phase = "redeem_datasource", !.org = o,
                                       !.datasource = d]
  <2>1. /\ new \in Request /\ new.phase = "redeem_datasource"
        /\ new.org = o /\ new.datasource = d
        /\ new.id = request[c].id /\ new.loaded = request[c].loaded
    BY DEF Inv, TypeOK, Request, Phase
  <2>2. request' = [request EXCEPT ![c] = new] /\ request[c].phase = "redeem_organization"
    BY <1>2 DEF CheckOrganization, Inv, TypeOK
  <2> HIDE DEF new
  <2>3. TypeOK'
    BY <2>1, <2>2 DEF CheckOrganization, Inv, TypeOK
  <2>4. RedemptionIsWhole'
    BY DEF CheckOrganization, Inv, RedemptionIsWhole
  <2>5. RequestsAreSound'
    BY <2>1, <2>2 DEF CheckOrganization, Inv, TypeOK, SessionsAreSound, RequestsAreSound
  <2>6. JobIsSound'
    BY DEF CheckOrganization, Inv, SessionsAreSound, JobIsSound, Locked
  <2>7. QED
    BY <2>3, <2>4, <2>5, <2>6 DEF Inv, SessionsAreSound
<1>3. QED
  BY <1>1, <1>2

\* Only a request whose data source belongs to its organization goes on.
LEMMA CheckDatasourceInv ==
  ASSUME Inv, NEW c \in Client, CheckDatasource(c)
  PROVE  Inv'
<1> USE DEF jobVars
<1>1. CASE OwnerOf[request[c].datasource] # request[c].org
  BY <1>1, EndedRequest DEF CheckDatasource, Inv, TypeOK
<1>2. CASE OwnerOf[request[c].datasource] = request[c].org
  <2> DEFINE new == [request[c] EXCEPT !.phase = "redeem"]
  <2>1. /\ new \in Request /\ new.phase = "redeem"
        /\ new.org = request[c].org /\ new.datasource = request[c].datasource
        /\ new.id = request[c].id /\ new.loaded = request[c].loaded
    BY DEF Inv, TypeOK, Request, Phase
  <2>2. request' = [request EXCEPT ![c] = new] /\ request[c].phase = "redeem_datasource"
    BY <1>2 DEF CheckDatasource, Inv, TypeOK
  <2> HIDE DEF new
  <2>3. TypeOK'
    BY <2>1, <2>2 DEF CheckDatasource, Inv, TypeOK
  <2>4. RedemptionIsWhole'
    BY DEF CheckDatasource, Inv, RedemptionIsWhole
  <2>5. RequestsAreSound'
    BY <1>2, <2>1, <2>2 DEF CheckDatasource, Inv, TypeOK, SessionsAreSound, RequestsAreSound
  <2>6. JobIsSound'
    BY DEF CheckDatasource, Inv, SessionsAreSound, JobIsSound, Locked
  <2>7. QED
    BY <2>3, <2>4, <2>5, <2>6 DEF Inv, SessionsAreSound
<1>3. QED
  BY <1>1, <1>2

\* A write of a row the job does not hold: it suffices that the new version is whole and
\* that redemption and termination, once there, are still there.
LEMMA SaveInv ==
  ASSUME Inv, NEW c \in Client, NEW phase \in Phase \ {"idle"}, NEW assigned,
         Save(c, phase, assigned),
         LET row == entitlement[request[c].id]
             new == Flush(row, request[c].loaded, assigned)
         IN  /\ new \in Row /\ Whole(new)
             /\ row.redeemed_by # None => new.redeemed_by # None
             /\ row.terminated => new.terminated
  PROVE  Inv'
<1> USE DEF jobVars
<1> DEFINE e == request[c].id
           new == Flush(entitlement[e], request[c].loaded, assigned)
<1>1. /\ e \in EntitlementId /\ ~Locked(e)
      /\ entitlement' = [entitlement EXCEPT ![e] = new]
      /\ request' = [request EXCEPT ![c] = Idle]
      /\ UNCHANGED <<organization, jobVars>>
  BY DEF Save, Inv, TypeOK
<1>2. /\ new \in Row /\ Whole(new)
      /\ entitlement[e].redeemed_by # None => new.redeemed_by # None
      /\ entitlement[e].terminated => new.terminated
  OBVIOUS
<1> HIDE DEF e, new
<1>3. TypeOK'
  BY <1>1, <1>2, IdleIsRequest DEF Inv, TypeOK
<1>4. RedemptionIsWhole'
  BY <1>1, <1>2 DEF Inv, TypeOK, RedemptionIsWhole
<1>5. RequestsAreSound'
  BY <1>1, <1>2, IdleIsRequest DEF Inv, TypeOK, SessionsAreSound, RequestsAreSound
<1>6. JobIsSound'
  BY <1>1 DEF Inv, TypeOK, SessionsAreSound, JobIsSound, Locked
<1>7. QED
  BY <1>3, <1>4, <1>5, <1>6 DEF Inv, SessionsAreSound

LEMMA WritesInv ==
  ASSUME Inv, NEW c \in Client, Terminate(c) \/ Delete(c) \/ Redeem(c)
  PROVE  Inv'
<1> DEFINE row == entitlement[request[c].id]
           loaded == request[c].loaded
<1>1. request[c].phase # "idle"
  BY DEF Terminate, Delete, Redeem, Save
<1>2. /\ row \in Row /\ loaded \in Row /\ Whole(row) /\ Whole(loaded)
      /\ loaded.redeemed_by # None => row.redeemed_by # None
      /\ loaded.terminated => row.terminated
  BY <1>1 DEF Inv, TypeOK, Request, RedemptionIsWhole, SessionsAreSound, RequestsAreSound
<1>3. CASE Terminate(c)
  <2>1. loaded.status = "active"
    BY <1>1, <1>3 DEF Terminate, Save, Inv, SessionsAreSound, RequestsAreSound
  <2>2. row.redeemed_by # None
    BY <1>2, <2>1 DEF Whole
  <2>3. QED
    BY <1>2, <1>3, <2>1, <2>2, FlushTerminated, SaveInv DEF Terminate, Phase
<1>4. CASE Delete(c)
  <2>1. loaded.status = "new"
    BY <1>1, <1>4 DEF Delete, Save, Inv, SessionsAreSound, RequestsAreSound
  <2>2. QED
    BY <1>2, <1>4, <2>1, FlushDeleted, SaveInv DEF Delete, Phase
<1>5. CASE Redeem(c)
  <2>1. /\ loaded.status = "new"
        /\ request[c].org \in Organization /\ request[c].datasource \in Datasource
        /\ OwnerOf[request[c].datasource] = request[c].org
    BY <1>1, <1>5 DEF Redeem, Save, Inv, SessionsAreSound, RequestsAreSound
  <2>2. request[c].org # None
    BY <2>1, EntitlementsAssumption
  <2>3. QED
    BY <1>2, <1>5, <2>1, <2>2, FlushRedeemed, SaveInv DEF Redeem, Phase
<1>6. QED
  BY <1>3, <1>4, <1>5

LEMMA DeleteOrganizationInv ==
  ASSUME Inv, NEW o \in Organization, DeleteOrganization(o)
  PROVE  Inv'
<1> USE DEF jobVars, DeleteOrganization
<1>1. TypeOK'
  BY DEF Inv, TypeOK, OrganizationStatus
<1>2. RedemptionIsWhole' /\ SessionsAreSound'
  BY DEF Inv, RedemptionIsWhole, SessionsAreSound, RequestsAreSound, JobIsSound, Locked
<1>3. QED
  BY <1>1, <1>2 DEF Inv

\* Steps of the job that write no row: they leave the table, the requests and the rows
\* it has pending alone.
JobReads ==
  \/ JobStart \/ JobAnnounce
  \/ \E o \in Organization : JobFetchDatasources(o) \/ JobFetchFails(o)
  \/ \E d \in Datasource : JobNoMatch(d)

LEMMA JobReadInv ==
  ASSUME Inv, JobReads
  PROVE  Inv'
<1>1. UNCHANGED <<entitlement, organization, request, candidate, pending>>
  BY DEF JobReads, JobStart, JobAnnounce, JobFetchDatasources, JobFetchFails, JobNoMatch
<1>2. RedemptionIsWhole' /\ RequestsAreSound'
  BY <1>1 DEF Inv, RedemptionIsWhole, SessionsAreSound, RequestsAreSound
<1>3. CASE JobStart
  BY <1>1, <1>2, <1>3 DEF JobStart, Inv, TypeOK, SessionsAreSound, JobIsSound, Locked
<1>4. CASE JobAnnounce
  <2>1. org \in Organization
    BY <1>4 DEF JobAnnounce, Inv, SessionsAreSound, JobIsSound
  <2>2. QED
    BY <1>1, <1>2, <1>4, <2>1
       DEF JobAnnounce, Inv, TypeOK, SessionsAreSound, JobIsSound, Locked
<1>5. CASE \E o \in Organization : JobFetchDatasources(o)
  BY <1>1, <1>2, <1>5, EntitlementsAssumption
     DEF JobFetchDatasources, NextOrganization, Inv, TypeOK, SessionsAreSound, JobIsSound, Locked
<1>6. CASE \E o \in Organization : JobFetchFails(o)
  BY <1>1, <1>2, <1>6
     DEF JobFetchFails, NextOrganization, Inv, TypeOK, SessionsAreSound, JobIsSound, Locked
<1>7. CASE \E d \in Datasource : JobNoMatch(d)
  BY <1>1, <1>2, <1>7 DEF JobNoMatch, Inv, TypeOK, SessionsAreSound, JobIsSound, Locked
<1>8. QED
  BY <1>3, <1>4, <1>5, <1>6, <1>7 DEF JobReads

\* The job sees a whole row: its own update, or the committed version.
LEMMA JobViewIsWhole ==
  ASSUME Inv, NEW e \in EntitlementId
  PROVE  /\ JobView(e) \in Row /\ Whole(JobView(e))
         /\ JobView(e).terminated = entitlement[e].terminated
         /\ entitlement[e].redeemed_by # None => JobView(e).redeemed_by # None
BY DEF Inv, TypeOK, RedemptionIsWhole, SessionsAreSound, JobIsSound, JobView

LEMMA JobSelectInv ==
  ASSUME Inv, NEW d \in Datasource, NEW e \in EntitlementId, JobSelect(d, e)
  PROVE  Inv'
<1> DEFINE new == [id |-> e, loaded |-> JobView(e), datasource |-> d]
<1>1. /\ new.id = e /\ new.datasource = d /\ new.loaded = JobView(e)
      /\ new \in [id: EntitlementId \cup {None}, loaded: Row, datasource: Datasource \cup {None}]
  BY JobViewIsWhole
<1>2. /\ candidate' = new /\ JobView(e).status = "new" /\ d \in datasources
      /\ job = "datasources" /\ job' = "update"
      /\ datasources' = datasources \ {d}
      /\ UNCHANGED <<entitlement, organization, request, todo, org, pending, announced>>
  BY DEF JobSelect, Matches
<1> HIDE DEF new
<1>3. TypeOK'
  BY <1>1, <1>2 DEF Inv, TypeOK
<1>4. RedemptionIsWhole' /\ RequestsAreSound'
  BY <1>2 DEF Inv, RedemptionIsWhole, SessionsAreSound, RequestsAreSound
<1>5. JobIsSound'
  BY <1>1, <1>2, JobViewIsWhole DEF Inv, SessionsAreSound, JobIsSound, Locked
<1>6. QED
  BY <1>3, <1>4, <1>5 DEF Inv, SessionsAreSound

LEMMA JobUpdateInv ==
  ASSUME Inv, JobUpdate
  PROVE  Inv'
<1> DEFINE e == candidate.id
           new == Flush(JobView(e), candidate.loaded,
                        Redeemed(candidate.loaded, org, candidate.datasource))
<1>1. /\ e \in EntitlementId /\ org \in Organization /\ candidate.datasource \in Datasource
      /\ OwnerOf[candidate.datasource] = org
      /\ candidate.loaded \in Row /\ Whole(candidate.loaded) /\ candidate.loaded.status = "new"
  BY DEF JobUpdate, Inv, TypeOK, SessionsAreSound, JobIsSound
<1>2. /\ new \in Row /\ Whole(new) /\ new.status = "active" /\ new.redeemed_by # None
      /\ new.terminated = entitlement[e].terminated
  BY <1>1, JobViewIsWhole, FlushRedeemed, EntitlementsAssumption
<1>3. /\ pending' = [pending EXCEPT ![e] = new] /\ candidate' = NoCandidate
      /\ job = "update" /\ job' = "datasources"
      /\ UNCHANGED <<entitlement, organization, request, todo, org, datasources, announced>>
  BY DEF JobUpdate
<1> HIDE DEF e, new
<1>4. TypeOK'
  BY <1>1, <1>2, <1>3, IdleIsRequest DEF Inv, TypeOK
<1>5. RedemptionIsWhole' /\ RequestsAreSound'
  BY <1>3 DEF Inv, RedemptionIsWhole, SessionsAreSound, RequestsAreSound
<1>6. JobIsSound'
  BY <1>1, <1>2, <1>3 DEF Inv, TypeOK, SessionsAreSound, JobIsSound, Locked
<1>7. QED
  BY <1>4, <1>5, <1>6 DEF Inv, SessionsAreSound

\* Commit or rollback: nothing is pending afterwards; what a request in flight saw of
\* redemptions and terminations survives the commit.
LEMMA JobEndInv ==
  ASSUME Inv, JobCommit \/ JobCrash
  PROVE  Inv'
<1>1. /\ job' = "idle" /\ todo' = {} /\ org' = None /\ datasources' = {}
      /\ candidate' = NoCandidate /\ pending' = [e \in EntitlementId |-> NoRow]
      /\ UNCHANGED <<organization, request, announced>>
  BY DEF JobCommit, JobCrash, JobEnds
<1>2. /\ entitlement' \in [EntitlementId -> Row]
      /\ \A e \in EntitlementId :
           /\ Whole(entitlement'[e])
           /\ entitlement'[e].terminated = entitlement[e].terminated
           /\ entitlement[e].redeemed_by # None => entitlement'[e].redeemed_by # None
  <2>1. CASE JobCommit
    BY <2>1, JobViewIsWhole DEF JobCommit
  <2>2. CASE JobCrash
    BY <2>2 DEF JobCrash, Inv, TypeOK, RedemptionIsWhole
  <2>3. QED
    BY <2>1, <2>2
<1>3. TypeOK'
  BY <1>1, <1>2, IdleIsRequest, NoRowIsRow DEF Inv, TypeOK
<1>4. RedemptionIsWhole'
  BY <1>2 DEF RedemptionIsWhole
<1>5. RequestsAreSound'
  BY <1>1, <1>2 DEF Inv, TypeOK, SessionsAreSound, RequestsAreSound
<1>6. JobIsSound'
  BY <1>1, NoRowIsWhole DEF JobIsSound, Locked
<1>7. QED
  BY <1>3, <1>4, <1>5, <1>6 DEF Inv, SessionsAreSound

LEMMA StutterInv ==
  ASSUME Inv, UNCHANGED vars
  PROVE  Inv'
BY DEF vars, jobVars, Inv, TypeOK, RedemptionIsWhole, SessionsAreSound, RequestsAreSound,
       JobIsSound, Locked

LEMMA NextInv == Inv /\ [Next]_vars => Inv'
<1> SUFFICES ASSUME Inv, [Next]_vars PROVE Inv'
  OBVIOUS
<1>1. CASE RequestNext
  <2>1. CASE \E e \in EntitlementId, a \in Account, owner \in Affiliate,
                account \in CloudAccount : CreateEntitlement(e, a, owner, account)
    BY <2>1, CreateInv
  <2>2. ASSUME NEW c \in Client, NEW e \in EntitlementId, NEW a \in Account,
               FetchToTerminate(c, e, a) \/ FetchToDelete(c, e, a) \/ FetchToRedeem(c, e, a)
        PROVE  Inv'
    BY <2>2, FetchInv DEF FetchToTerminate, FetchToDelete, FetchToRedeem
  <2>3. CASE \E c \in Client, o \in Organization, d \in Datasource : CheckOrganization(c, o, d)
    BY <2>3, CheckOrganizationInv
  <2>4. CASE \E c \in Client : CheckDatasource(c) \/ Terminate(c) \/ Delete(c) \/ Redeem(c)
    BY <2>4, CheckDatasourceInv, WritesInv
  <2>5. CASE \E c \in Client : RequestFails(c)
    BY <2>5, EndedRequest DEF RequestFails
  <2>6. CASE \E o \in Organization : DeleteOrganization(o)
    BY <2>6, DeleteOrganizationInv
  <2>7. QED
    BY <1>1, <2>1, <2>2, <2>3, <2>4, <2>5, <2>6 DEF RequestNext
<1>2. CASE JobNext
  BY <1>2, JobReadInv, JobSelectInv, JobUpdateInv, JobEndInv DEF JobNext, JobReads
<1>3. CASE UNCHANGED vars
  BY <1>3, StutterInv
<1>4. QED
  BY <1>1, <1>2, <1>3 DEF Next

\* The inductive invariant holds in every reachable state of the handlers and the job.
THEOREM Invariance == Spec => []Inv
BY InitInv, NextInv, PTL DEF Spec

\* The state of the model is well typed: the table, the sessions and the job's transaction.
THEOREM Typing == Spec => []TypeOK
BY Invariance, PTL DEF Inv

\* However requests and the job interleave, the redemption in a row is one redemption that
\* was validated as a whole, and it is there when the status says so.
THEOREM RedemptionsAreWhole == Spec => []RedemptionIsWhole
BY Invariance, PTL DEF Inv

\* What each session holds stays true of the row it loaded, whoever commits in between.
THEOREM SoundSessions == Spec => []SessionsAreSound
BY Invariance, PTL DEF Inv

-----------------------------------------------------------------------------
(* What transactions hold beyond that *)

\* A session holds something only while it is in use, and a run of the job never comes back
\* to an organization, a data source or an entitlement.
TransactionsHoldTheirOwn ==
  /\ \A c \in Client : request[c].phase = "idle" => request[c] = Idle
  /\ job = "idle" => \A e \in EntitlementId : ~Locked(e)
  /\ job # "update" => candidate = NoCandidate
  /\ job \in {"datasources", "update"} => org \notin todo
  /\ datasources \subseteq Redeemable
  /\ job = "update" => /\ candidate.datasource \in Redeemable \ datasources
                       /\ ~Locked(candidate.id)
                       /\ entitlement[candidate.id].status # Absent
                       /\ entitlement[candidate.id].datasource = AccountOf[candidate.datasource]
                       /\ \A e \in EntitlementId :
                            Locked(e) => pending[e].linked_datasource # candidate.datasource
  /\ \A e \in EntitlementId : Locked(e) =>
       /\ pending[e].status = "active"
       /\ OwnerOf[pending[e].linked_datasource] \notin todo
       /\ pending[e].linked_datasource \notin datasources

FullInv == Inv /\ TransactionsHoldTheirOwn /\ JobRedemptionsMatch

\* What a request writes: a legal move from the status it loaded, and nothing of the redemption
\* in the row if what it loaded is redeemed.
LEMMA WritesMove ==
  ASSUME Inv, NEW c \in Client, Terminate(c) \/ Delete(c) \/ Redeem(c)
  PROVE  LET e == request[c].id IN
         /\ e \in EntitlementId /\ request[c].phase # "idle"
         /\ request' = [request EXCEPT ![c] = Idle]
         /\ UNCHANGED <<organization, jobVars>>
         /\ \E new \in Row :
              /\ entitlement' = [entitlement EXCEPT ![e] = new]
              /\ <<request[c].loaded.status, new.status>> \in EntitlementMoves
              /\ new.datasource = entitlement[e].datasource
              /\ request[c].loaded.status = "active" =>
                   /\ new.redeemed_by = entitlement[e].redeemed_by
                   /\ new.linked_datasource = entitlement[e].linked_datasource
<1> DEFINE e == request[c].id
           row == entitlement[e]
           loaded == request[c].loaded
<1>1. request[c].phase # "idle"
  BY DEF Terminate, Delete, Redeem, Save
<1>2. /\ e \in EntitlementId /\ row \in Row /\ loaded \in Row /\ Whole(row) /\ Whole(loaded)
      /\ loaded.redeemed_by # None => row.redeemed_by # None
      /\ loaded.terminated => row.terminated
  BY <1>1 DEF Inv, TypeOK, Request, RedemptionIsWhole, SessionsAreSound, RequestsAreSound
<1>3. CASE Terminate(c)
  <2>1. loaded.status = "active" /\ entitlement' = [entitlement EXCEPT ![e] =
                                      Flush(row, loaded, Terminated(loaded))]
    BY <1>1, <1>3 DEF Terminate, Save, Inv, TypeOK, SessionsAreSound, RequestsAreSound
  <2>2. row.redeemed_by # None
    BY <1>2, <2>1 DEF Whole
  <2> HIDE DEF e, row, loaded
  <2>3. QED
    BY <1>1, <1>2, <1>3, <2>1, <2>2, FlushTerminated
       DEF EntitlementMoves, Terminate, Save, e, row, loaded
<1>4. CASE Delete(c)
  <2>1. loaded.status = "new" /\ entitlement' = [entitlement EXCEPT ![e] =
                                   Flush(row, loaded, Deleted(loaded))]
    BY <1>1, <1>4 DEF Delete, Save, Inv, TypeOK, SessionsAreSound, RequestsAreSound
  <2> HIDE DEF e, row, loaded
  <2>2. QED
    BY <1>1, <1>2, <1>4, <2>1, FlushDeleted
       DEF EntitlementMoves, Delete, Save, e, row, loaded
<1>5. CASE Redeem(c)
  <2> DEFINE o == request[c].org
             d == request[c].datasource
  <2>1. /\ loaded.status = "new" /\ o \in Organization /\ d \in Datasource /\ OwnerOf[d] = o
        /\ entitlement' = [entitlement EXCEPT ![e] = Flush(row, loaded, Redeemed(loaded, o, d))]
    BY <1>1, <1>5 DEF Redeem, Save, Inv, TypeOK, SessionsAreSound, RequestsAreSound
  <2> DEFINE new == Flush(row, loaded, Redeemed(loaded, o, d))
  <2> HIDE DEF e, row, loaded, o, d
  <2>2. new \in Row /\ new.status = "active" /\ new.datasource = row.datasource
    BY <1>2, <2>1, FlushRedeemed
  <2>3. request' = [request EXCEPT ![c] = Idle] /\ UNCHANGED <<organization, jobVars>>
    BY <1>5 DEF Redeem, Save
  <2> HIDE DEF new
  <2>4. entitlement' = [entitlement EXCEPT ![e] = new]
    BY <2>1 DEF new
  <2>5. QED
    BY <1>1, <1>2, <2>1, <2>2, <2>3, <2>4 DEF EntitlementMoves, e, row, loaded
<1>6. QED
  BY <1>3, <1>4, <1>5

\* A request neither takes an entitlement away nor moves it to another cloud account.
LEMMA RequestsHold ==
  ASSUME FullInv, UNCHANGED jobVars,
         \A c \in Client : request'[c].phase = "idle" => request'[c] = Idle,
         \A e \in EntitlementId : entitlement[e].status # Absent =>
           entitlement'[e].status # Absent /\ entitlement'[e].datasource = entitlement[e].datasource
  PROVE  TransactionsHoldTheirOwn' /\ JobRedemptionsMatch'
<1>1. \A e \in EntitlementId : Locked(e)' <=> Locked(e)
  BY DEF Locked, jobVars
<1>2. job = "update" => candidate.id \in EntitlementId
  BY DEF FullInv, Inv, SessionsAreSound, JobIsSound
<1>3. TransactionsHoldTheirOwn'
  BY <1>1, <1>2 DEF FullInv, TransactionsHoldTheirOwn, jobVars
<1>4. JobRedemptionsMatch'
  BY <1>1 DEF FullInv, JobRedemptionsMatch, jobVars
<1>5. QED
  BY <1>3, <1>4

LEMMA RequestNextHolds ==
  ASSUME FullInv, RequestNext
  PROVE  TransactionsHoldTheirOwn' /\ JobRedemptionsMatch'
<1>1. \A c \in Client : request[c].phase = "idle" => request[c] = Idle
  BY DEF FullInv, TransactionsHoldTheirOwn
<1>2. /\ request \in [Client -> Request] /\ entitlement \in [EntitlementId -> Row]
      /\ Idle.phase = "idle" /\ DOMAIN Idle = {"phase", "id", "loaded", "org", "datasource"}
  BY IdleIsRequest DEF FullInv, Inv, TypeOK, Idle
<1>3. ASSUME NEW e \in EntitlementId, NEW a \in Account, NEW owner \in Affiliate,
             NEW account \in CloudAccount, CreateEntitlement(e, a, owner, account)
      PROVE  TransactionsHoldTheirOwn' /\ JobRedemptionsMatch'
  BY <1>1, <1>2, <1>3, RequestsHold DEF CreateEntitlement
<1>4. ASSUME NEW c \in Client, UNCHANGED <<entitlement, jobVars>>,
             \/ \E to : request' = [request EXCEPT ![c] = to] /\ to.phase # "idle"
             \/ request' = [request EXCEPT ![c] = Idle]
      PROVE  TransactionsHoldTheirOwn' /\ JobRedemptionsMatch'
  BY <1>1, <1>2, <1>4, RequestsHold
<1>5. ASSUME NEW c \in Client, NEW e \in EntitlementId, NEW a \in Account,
             FetchToTerminate(c, e, a) \/ FetchToDelete(c, e, a) \/ FetchToRedeem(c, e, a)
      PROVE  TransactionsHoldTheirOwn' /\ JobRedemptionsMatch'
  <2>1. PICK phase \in {"terminate", "delete", "redeem_organization"} :
          /\ UNCHANGED <<entitlement, jobVars>>
          /\ request' = [request EXCEPT ![c] = [Idle EXCEPT !.phase = phase, !.id = e,
                                                            !.loaded = entitlement[e]]]
    BY <1>5 DEF FetchToTerminate, FetchToDelete, FetchToRedeem, Fetch
  <2>2. [Idle EXCEPT !.phase = phase, !.id = e, !.loaded = entitlement[e]].phase # "idle"
    BY <1>2
  <2>3. QED
    BY <1>4, <2>1, <2>2
<1>6. ASSUME NEW c \in Client, NEW o \in Organization, NEW d \in Datasource,
             CheckOrganization(c, o, d)
      PROVE  TransactionsHoldTheirOwn' /\ JobRedemptionsMatch'
  <2>1. /\ UNCHANGED <<entitlement, jobVars>>
        /\ \/ request' = [request EXCEPT ![c] = [request[c] EXCEPT !.phase = "redeem_datasource",
                                                   !.org = o, !.datasource = d]]
           \/ request' = [request EXCEPT ![c] = Idle]
    BY <1>2, <1>6 DEF CheckOrganization
  <2>2. [request[c] EXCEPT !.phase = "redeem_datasource", !.org = o, !.datasource = d].phase
          = "redeem_datasource"
    BY <1>2 DEF Request
  <2>3. QED
    BY <1>4, <2>1, <2>2
<1>7. ASSUME NEW c \in Client, CheckDatasource(c) \/ RequestFails(c)
      PROVE  TransactionsHoldTheirOwn' /\ JobRedemptionsMatch'
  <2>1. /\ UNCHANGED <<entitlement, jobVars>>
        /\ \/ request' = [request EXCEPT ![c] = [request[c] EXCEPT !.phase = "redeem"]]
           \/ request' = [request EXCEPT ![c] = Idle]
    BY <1>2, <1>7 DEF CheckDatasource, RequestFails
  <2>2. [request[c] EXCEPT !.phase = "redeem"].phase = "redeem"
    BY <1>2 DEF Request
  <2>3. QED
    BY <1>4, <2>1, <2>2
<1>8. ASSUME NEW c \in Client, Terminate(c) \/ Delete(c) \/ Redeem(c)
      PROVE  TransactionsHoldTheirOwn' /\ JobRedemptionsMatch'
  <2>1. Inv
    BY DEF FullInv
  <2>2. PICK e \in EntitlementId, new \in Row :
          /\ request' = [request EXCEPT ![c] = Idle] /\ UNCHANGED jobVars
          /\ entitlement' = [entitlement EXCEPT ![e] = new]
          /\ new.status # Absent /\ new.datasource = entitlement[e].datasource
    BY <1>8, <2>1, WritesMove DEF EntitlementMoves, Absent
  <2>3. QED
    BY <1>1, <1>2, <2>2, RequestsHold
<1>9. ASSUME NEW o \in Organization, DeleteOrganization(o)
      PROVE  TransactionsHoldTheirOwn' /\ JobRedemptionsMatch'
  BY <1>1, <1>9, RequestsHold DEF DeleteOrganization
<1>10. QED
  BY <1>3, <1>5, <1>6, <1>7, <1>8, <1>9 DEF RequestNext

\* The job goes on to an organization it has not been to, or ends with one.
LEMMA JobReadHolds ==
  ASSUME FullInv, JobReads
  PROVE  TransactionsHoldTheirOwn' /\ JobRedemptionsMatch'
<1>1. /\ UNCHANGED <<entitlement, request, candidate, pending>>
      /\ \A e \in EntitlementId : Locked(e)' <=> Locked(e)
  BY DEF JobReads, JobStart, JobAnnounce, JobFetchDatasources, JobFetchFails, JobNoMatch, Locked
<1>2. JobRedemptionsMatch'
  BY <1>1 DEF FullInv, JobRedemptionsMatch
<1>3. CASE JobStart
  BY <1>1, <1>2, <1>3 DEF JobStart, FullInv, TransactionsHoldTheirOwn
<1>4. CASE JobAnnounce
  BY <1>1, <1>2, <1>4 DEF JobAnnounce, FullInv, TransactionsHoldTheirOwn
<1>5. ASSUME NEW o \in Organization, JobFetchDatasources(o)
      PROVE  TransactionsHoldTheirOwn'
  BY <1>1, <1>5
     DEF JobFetchDatasources, NextOrganization, FullInv, TransactionsHoldTheirOwn
<1>6. ASSUME NEW o \in Organization, JobFetchFails(o)
      PROVE  TransactionsHoldTheirOwn'
  BY <1>1, <1>6
     DEF JobFetchFails, NextOrganization, FullInv, TransactionsHoldTheirOwn
<1>7. ASSUME NEW d \in Datasource, JobNoMatch(d)
      PROVE  TransactionsHoldTheirOwn'
  BY <1>1, <1>7 DEF JobNoMatch, FullInv, TransactionsHoldTheirOwn
<1>8. QED
  BY <1>2, <1>3, <1>4, <1>5, <1>6, <1>7 DEF JobReads

\* What the job selects it has not redeemed itself: what it sees is what is committed.
LEMMA SelectedRow ==
  ASSUME FullInv, NEW d \in Datasource, NEW e \in EntitlementId, JobSelect(d, e)
  PROVE  /\ ~Locked(e) /\ JobView(e) = entitlement[e]
         /\ entitlement[e].status = "new" /\ entitlement[e].datasource = AccountOf[d]
BY DEF JobSelect, Matches, JobView, FullInv, TransactionsHoldTheirOwn

LEMMA JobSelectHolds ==
  ASSUME FullInv, NEW d \in Datasource, NEW e \in EntitlementId, JobSelect(d, e)
  PROVE  TransactionsHoldTheirOwn' /\ JobRedemptionsMatch'
<1>1. /\ job = "datasources" /\ job' = "update" /\ d \in datasources
      /\ datasources' = datasources \ {d}
      /\ candidate'.id = e /\ candidate'.datasource = d
      /\ UNCHANGED <<entitlement, request, todo, org, pending>>
      /\ \A f \in EntitlementId : Locked(f)' <=> Locked(f)
  BY DEF JobSelect, Locked
<1>2. JobRedemptionsMatch'
  BY <1>1 DEF FullInv, JobRedemptionsMatch
<1>3. TransactionsHoldTheirOwn'
  BY <1>1, SelectedRow DEF FullInv, TransactionsHoldTheirOwn, Absent
<1>4. QED
  BY <1>2, <1>3

LEMMA JobUpdateHolds ==
  ASSUME FullInv, JobUpdate
  PROVE  TransactionsHoldTheirOwn' /\ JobRedemptionsMatch'
<1> DEFINE e == candidate.id
           d == candidate.datasource
           new == Flush(JobView(e), candidate.loaded, Redeemed(candidate.loaded, org, d))
<1>1. /\ e \in EntitlementId /\ org \in Organization /\ d \in Datasource /\ OwnerOf[d] = org
      /\ candidate.loaded \in Row /\ Whole(candidate.loaded) /\ candidate.loaded.status = "new"
  BY DEF JobUpdate, FullInv, Inv, TypeOK, SessionsAreSound, JobIsSound
<1>2. /\ d \in Redeemable \ datasources /\ ~Locked(e) /\ JobView(e) = entitlement[e]
      /\ entitlement[e].datasource = AccountOf[d] /\ org \notin todo
      /\ \A f \in EntitlementId : Locked(f) => pending[f].linked_datasource # d
  BY DEF JobUpdate, JobView, FullInv, TransactionsHoldTheirOwn
<1>3. /\ new.status = "active" /\ new.linked_datasource = d
      /\ new.datasource = AccountOf[d]
  <2>1. JobView(e) \in Row /\ Whole(JobView(e))
    BY <1>1, JobViewIsWhole DEF FullInv
  <2> HIDE DEF e, d
  <2>2. QED
    BY <1>1, <1>2, <2>1, FlushRedeemed
<1>4. /\ pending' = [pending EXCEPT ![e] = new] /\ candidate' = NoCandidate
      /\ job = "update" /\ job' = "datasources"
      /\ UNCHANGED <<entitlement, request, todo, org, datasources>>
      /\ pending \in [EntitlementId -> Row]
  BY DEF JobUpdate, FullInv, Inv, TypeOK
<1> HIDE DEF e, d, new
<1>5. \A f \in EntitlementId : /\ f # e => (Locked(f)' <=> Locked(f)) /\ pending'[f] = pending[f]
                               /\ f = e => pending'[f] = new
  BY <1>1, <1>4 DEF Locked
<1>6. TransactionsHoldTheirOwn'
  BY <1>1, <1>2, <1>3, <1>4, <1>5 DEF FullInv, TransactionsHoldTheirOwn
<1>7. JobRedemptionsMatch'
  BY <1>1, <1>2, <1>3, <1>4, <1>5 DEF FullInv, JobRedemptionsMatch
<1>8. QED
  BY <1>6, <1>7

LEMMA JobEndHolds ==
  ASSUME FullInv, JobCommit \/ JobCrash
  PROVE  TransactionsHoldTheirOwn' /\ JobRedemptionsMatch'
<1>1. /\ job' = "idle" /\ todo' = {} /\ datasources' = {}
      /\ candidate' = NoCandidate /\ UNCHANGED request
      /\ \A e \in EntitlementId : ~Locked(e)'
  BY NoRowIsWhole DEF JobCommit, JobCrash, JobEnds, Locked
<1>2. QED
  BY <1>1 DEF FullInv, TransactionsHoldTheirOwn, JobRedemptionsMatch

LEMMA InitFullInv == Init => FullInv
<1> SUFFICES ASSUME Init PROVE FullInv
  OBVIOUS
<1>1. Inv /\ \A e \in EntitlementId : ~Locked(e)
  BY InitInv, NoRowIsWhole DEF Init, Locked
<1>2. QED
  BY <1>1 DEF FullInv, Init, TransactionsHoldTheirOwn, JobRedemptionsMatch

LEMMA NextFullInv == FullInv /\ [Next]_vars => FullInv'
<1> SUFFICES ASSUME FullInv, [Next]_vars PROVE FullInv'
  OBVIOUS
<1>1. Inv'
  BY NextInv DEF FullInv
<1>2. CASE RequestNext
  BY <1>1, <1>2, RequestNextHolds DEF FullInv
<1>3. CASE JobNext
  <2>1. CASE JobReads
    BY <1>1, <2>1, JobReadHolds DEF FullInv, JobReads
  <2>2. QED
    BY <1>1, <1>3, <2>1, JobSelectHolds, JobUpdateHolds, JobEndHolds
       DEF FullInv, JobNext, JobReads
<1>4. CASE UNCHANGED vars
  <2>1. TransactionsHoldTheirOwn'
    BY <1>4 DEF vars, jobVars, FullInv, TransactionsHoldTheirOwn, Locked
  <2>2. JobRedemptionsMatch'
    BY <1>4 DEF vars, jobVars, FullInv, JobRedemptionsMatch, Locked
  <2>3. QED
    BY <1>1, <2>1, <2>2 DEF FullInv
<1>5. QED
  BY <1>2, <1>3, <1>4 DEF Next

LEMMA FullInvariance == Spec => []FullInv
BY InitFullInv, NextFullInv, PTL DEF Spec

\* What a run of the job redeems it redeems for the data source whose account the
\* entitlement is for, never for a container, and for no data source twice.
THEOREM RedemptionsMatch == Spec => []JobRedemptionsMatch
BY FullInvariance, PTL DEF FullInv

-----------------------------------------------------------------------------
(* Refinement: the status column and what requests and the job have seen of it *)

Clients == Client \cup {Job}

LEMMA InitRefines == Init => Register!Init
<1> SUFFICES ASSUME Init PROVE Register!Init
  OBVIOUS
<1>1. \A e \in EntitlementId : entitlement[e].status = Absent /\ ~Locked(e)
  BY NoRowIsWhole DEF Init, Locked
<1>2. \A c \in Client : request[c].id = None
  BY DEF Init, Idle
<1>3. candidate.id = None
  BY DEF Init, NoCandidate
<1>4. \A c \in Clients : StatusSeenBy(c) = [e \in EntitlementId |-> Absent]
  BY <1>1, <1>2, <1>3, EntitlementsAssumption DEF StatusSeenBy, Clients
<1>5. QED
  BY <1>1, <1>4 DEF Register!Init, Register!Blind, Clients

\* Nobody sees or writes another status.
LEMMA StuttersRefine ==
  ASSUME \A c \in Clients : StatusSeenBy(c)' = StatusSeenBy(c),
         \A e \in EntitlementId : entitlement'[e].status = entitlement[e].status
  PROVE  UNCHANGED Register!vars
BY DEF Register!vars, Clients

\* The client, which has not seen this row, reads it.
LEMMA ObserveRefines ==
  ASSUME NEW c \in Clients, NEW e \in EntitlementId, entitlement[e].status # Absent,
         StatusSeenBy(c)' = [StatusSeenBy(c) EXCEPT ![e] = entitlement[e].status],
         \A d \in Clients \ {c} : StatusSeenBy(d)' = StatusSeenBy(d),
         UNCHANGED entitlement
  PROVE  Register!Next
<1>1. Register!Observe(c, e)
  BY DEF Register!Observe, Clients
<1>2. QED
  BY <1>1 DEF Register!Next, Clients

\* The client forgets what it has seen.
LEMMA RollbackRefines ==
  ASSUME NEW c \in Clients, StatusSeenBy(c)' = [e \in EntitlementId |-> Absent],
         \A d \in Clients \ {c} : StatusSeenBy(d)' = StatusSeenBy(d),
         UNCHANGED entitlement
  PROVE  Register!Next
<1>1. Register!Rollback(c)
  BY DEF Register!Rollback, Register!Blind, Clients
<1>2. QED
  BY <1>1 DEF Register!Next, Clients

\* Every status that changes makes a move from the one the client has seen.
LEMMA CommitRefines ==
  ASSUME NEW c \in Clients, StatusSeenBy(c)' = [e \in EntitlementId |-> Absent],
         \A d \in Clients \ {c} : StatusSeenBy(d)' = StatusSeenBy(d),
         \A e \in EntitlementId : entitlement'[e].status # entitlement[e].status =>
           <<StatusSeenBy(c)[e], entitlement'[e].status>> \in EntitlementMoves
  PROVE  Register!Next
<1>1. PICK R \in SUBSET EntitlementId :
        R = {e \in EntitlementId : entitlement'[e].status # entitlement[e].status}
  OBVIOUS
<1>2. PICK new \in [R -> EntitlementStatus] : \A e \in R : new[e] = entitlement'[e].status
  <2> DEFINE to == [e \in R |-> entitlement'[e].status]
  <2>1. to \in [R -> EntitlementStatus] /\ \A e \in R : to[e] = entitlement'[e].status
    BY <1>1 DEF EntitlementMoves, EntitlementStatus
  <2> HIDE DEF to
  <2>2. QED
    BY <2>1
<1>3. Register!SetStatus(R, new)
  BY <1>1, <1>2 DEF Register!SetStatus
<1>4. \A e \in R : <<[d \in Clients |-> StatusSeenBy(d)][c][e], new[e]>> \in EntitlementMoves
  BY <1>1, <1>2
<1>5. [d \in Clients |-> StatusSeenBy(d)]'
        = [[d \in Clients |-> StatusSeenBy(d)] EXCEPT ![c] = Register!Blind]
  BY DEF Register!Blind
<1>6. Register!Commit(c)
  BY <1>3, <1>4, <1>5 DEF Register!Commit, Clients
<1>7. QED
  BY <1>6 DEF Register!Next, Clients

LEMMA InsertRefines ==
  ASSUME Inv, NEW e \in EntitlementId, NEW a \in Account, NEW owner \in Affiliate,
         NEW account \in CloudAccount, CreateEntitlement(e, a, owner, account)
  PROVE  Register!Next
<1>1. /\ entitlement[e].status = Absent
      /\ \A f \in EntitlementId :
           entitlement'[f].status = IF f = e THEN "new" ELSE entitlement[f].status
  BY DEF CreateEntitlement, NewRow, NoRow, Inv, TypeOK
<1>2. \A c \in Clients : StatusSeenBy(c)' = StatusSeenBy(c)
  BY DEF CreateEntitlement, jobVars, StatusSeenBy, Locked
<1>3. Register!Insert(e)
  BY <1>1, <1>2 DEF Register!Insert, Clients
<1>4. QED
  BY <1>3 DEF Register!Next

\* Which views a request changes: its own.
LEMMA RequestViews ==
  ASSUME Inv, NEW c \in Client, \A d \in Client \ {c} : request'[d] = request[d],
         UNCHANGED jobVars
  PROVE  /\ c \in Clients
         /\ \A d \in Clients \ {c} : StatusSeenBy(d)' = StatusSeenBy(d)
         /\ StatusSeenBy(c)' = [e \in EntitlementId |->
              IF request'[c].id = e THEN request'[c].loaded.status ELSE Absent]
         /\ StatusSeenBy(c) = [e \in EntitlementId |->
              IF request[c].id = e THEN request[c].loaded.status ELSE Absent]
BY EntitlementsAssumption DEF Inv, TypeOK, StatusSeenBy, Clients, jobVars, Locked

LEMMA RequestRefines ==
  ASSUME FullInv, RequestNext
  PROVE  Register!Next \/ UNCHANGED Register!vars
<1>1. /\ Inv /\ request \in [Client -> Request] /\ Idle.id = None /\ None \notin EntitlementId
      /\ \A c \in Client : request[c].phase = "idle" => request[c] = Idle
  BY EntitlementsAssumption DEF FullInv, Inv, TypeOK, TransactionsHoldTheirOwn, Idle
<1>2. CASE \E e \in EntitlementId, a \in Account, owner \in Affiliate,
              account \in CloudAccount : CreateEntitlement(e, a, owner, account)
  BY <1>1, <1>2, InsertRefines
<1>3. ASSUME NEW c \in Client, NEW e \in EntitlementId, NEW a \in Account,
             FetchToTerminate(c, e, a) \/ FetchToDelete(c, e, a) \/ FetchToRedeem(c, e, a)
      PROVE  Register!Next
  <2>1. PICK phase : /\ UNCHANGED <<entitlement, jobVars>> /\ request[c] = Idle
                     /\ entitlement[e].status # Absent
                     /\ request' = [request EXCEPT ![c] =
                          [Idle EXCEPT !.phase = phase, !.id = e, !.loaded = entitlement[e]]]
    BY <1>1, <1>3 DEF FetchToTerminate, FetchToDelete, FetchToRedeem, Fetch, Visible
  <2> DEFINE to == [Idle EXCEPT !.phase = phase, !.id = e, !.loaded = entitlement[e]]
  <2>2. to.id = e /\ to.loaded = entitlement[e]
    BY DEF Idle
  <2>3. request' = [request EXCEPT ![c] = to]
    BY <2>1
  <2> HIDE DEF to
  <2>4. StatusSeenBy(c)' = [StatusSeenBy(c) EXCEPT ![e] = entitlement[e].status]
    BY <1>1, <2>1, <2>2, <2>3, RequestViews
  <2>5. QED
    BY <1>1, <2>1, <2>3, <2>4, RequestViews, ObserveRefines
<1>4. ASSUME NEW c \in Client, UNCHANGED <<entitlement, jobVars>>,
             request' = [request EXCEPT ![c] = Idle]
      PROVE  Register!Next
  <2>1. StatusSeenBy(c)' = [e \in EntitlementId |-> Absent]
    BY <1>1, <1>4, RequestViews
  <2>2. QED
    BY <1>1, <1>4, <2>1, RequestViews, RollbackRefines
<1>5. ASSUME NEW c \in Client, NEW to, UNCHANGED <<entitlement, jobVars>>,
             request' = [request EXCEPT ![c] = to],
             to.id = request[c].id, to.loaded = request[c].loaded
      PROVE  UNCHANGED Register!vars
  <2>1. \A d \in Clients : StatusSeenBy(d)' = StatusSeenBy(d)
    BY <1>1, <1>5, RequestViews
  <2>2. QED
    BY <1>5, <2>1, StuttersRefine
<1>6. ASSUME NEW c \in Client, NEW o \in Organization, NEW d \in Datasource,
             CheckOrganization(c, o, d)
      PROVE  Register!Next \/ UNCHANGED Register!vars
  <2> DEFINE to == [request[c] EXCEPT !.phase = "redeem_datasource", !.org = o, !.datasource = d]
  <2>1. /\ UNCHANGED <<entitlement, jobVars>>
        /\ \/ request' = [request EXCEPT ![c] = to]
           \/ request' = [request EXCEPT ![c] = Idle]
    BY <1>1, <1>6 DEF CheckOrganization
  <2>2. to.id = request[c].id /\ to.loaded = request[c].loaded
    BY <1>1 DEF Request
  <2> HIDE DEF to
  <2>3. QED
    BY <1>4, <1>5, <2>1, <2>2
<1>7. ASSUME NEW c \in Client, CheckDatasource(c) \/ RequestFails(c)
      PROVE  Register!Next \/ UNCHANGED Register!vars
  <2> DEFINE to == [request[c] EXCEPT !.phase = "redeem"]
  <2>1. /\ UNCHANGED <<entitlement, jobVars>>
        /\ \/ request' = [request EXCEPT ![c] = to]
           \/ request' = [request EXCEPT ![c] = Idle]
    BY <1>1, <1>7 DEF CheckDatasource, RequestFails
  <2>2. to.id = request[c].id /\ to.loaded = request[c].loaded
    BY <1>1 DEF Request
  <2> HIDE DEF to
  <2>3. QED
    BY <1>4, <1>5, <2>1, <2>2
<1>8. ASSUME NEW c \in Client, Terminate(c) \/ Delete(c) \/ Redeem(c)
      PROVE  Register!Next
  <2>1. PICK e \in EntitlementId, new \in Row :
          /\ e = request[c].id /\ request' = [request EXCEPT ![c] = Idle]
          /\ UNCHANGED jobVars
          /\ entitlement' = [entitlement EXCEPT ![e] = new]
          /\ <<request[c].loaded.status, new.status>> \in EntitlementMoves
    BY <1>1, <1>8, WritesMove
  <2>2. /\ StatusSeenBy(c)' = [f \in EntitlementId |-> Absent]
        /\ StatusSeenBy(c)[e] = request[c].loaded.status
    BY <1>1, <2>1, RequestViews
  <2>3. \A f \in EntitlementId : entitlement'[f].status # entitlement[f].status =>
          <<StatusSeenBy(c)[f], entitlement'[f].status>> \in EntitlementMoves
    BY <1>1, <2>1, <2>2 DEF Inv, TypeOK
  <2>4. QED
    BY <1>1, <2>1, <2>2, <2>3, RequestViews, CommitRefines
<1>9. ASSUME NEW o \in Organization, DeleteOrganization(o)
      PROVE  UNCHANGED Register!vars
  <2>1. \A d \in Clients : StatusSeenBy(d)' = StatusSeenBy(d)
    BY <1>9 DEF DeleteOrganization, StatusSeenBy, jobVars, Locked
  <2>2. QED
    BY <1>9, <2>1, StuttersRefine DEF DeleteOrganization
<1>10. QED
  BY <1>2, <1>3, <1>4, <1>5, <1>6, <1>7, <1>8, <1>9 DEF RequestNext

\* What the job has seen: the entitlement it has selected, and those it has updated.
LEMMA JobViews ==
  ASSUME UNCHANGED request
  PROVE  /\ Job \in Clients
         /\ \A d \in Clients \ {Job} : StatusSeenBy(d)' = StatusSeenBy(d)
         /\ StatusSeenBy(Job) = [e \in EntitlementId |->
              IF candidate.id = e THEN candidate.loaded.status
              ELSE IF Locked(e) THEN "new" ELSE Absent]
         /\ StatusSeenBy(Job)' = [e \in EntitlementId |->
              IF candidate'.id = e THEN candidate'.loaded.status
              ELSE IF Locked(e)' THEN "new" ELSE Absent]
BY DEF StatusSeenBy, Clients

LEMMA JobRefines ==
  ASSUME FullInv, JobNext
  PROVE  Register!Next \/ UNCHANGED Register!vars
<1>1. /\ Inv /\ UNCHANGED request /\ NoCandidate.id = None /\ None \notin EntitlementId
      /\ job # "update" => candidate = NoCandidate
  BY EntitlementsAssumption
     DEF FullInv, TransactionsHoldTheirOwn, NoCandidate, JobNext, JobStart, JobFetchDatasources,
         JobFetchFails, JobSelect, JobNoMatch, JobUpdate, JobAnnounce, JobCommit, JobCrash,
         JobEnds
<1>2. CASE JobReads
  <2>1. /\ UNCHANGED <<entitlement, candidate, pending>>
        /\ \A e \in EntitlementId : Locked(e)' <=> Locked(e)
    BY <1>2 DEF JobReads, JobStart, JobAnnounce, JobFetchDatasources, JobFetchFails, JobNoMatch,
                Locked
  <2>2. \A d \in Clients : StatusSeenBy(d)' = StatusSeenBy(d)
    BY <1>1, <2>1, JobViews
  <2>3. QED
    BY <2>1, <2>2, StuttersRefine
<1>3. ASSUME NEW d \in Datasource, NEW e \in EntitlementId, JobSelect(d, e)
      PROVE  Register!Next
  <2>1. /\ ~Locked(e) /\ entitlement[e].status = "new" /\ JobView(e) = entitlement[e]
    BY <1>3, SelectedRow
  <2>2. /\ candidate.id = None
        /\ candidate'.id = e /\ candidate'.loaded = entitlement[e]
        /\ UNCHANGED <<entitlement, pending>>
        /\ \A f \in EntitlementId : Locked(f)' <=> Locked(f)
    BY <1>1, <1>3, <2>1 DEF JobSelect, Locked
  <2>3. StatusSeenBy(Job)' = [StatusSeenBy(Job) EXCEPT ![e] = entitlement[e].status]
    BY <1>1, <2>2, JobViews
  <2>4. QED
    BY <1>1, <2>1, <2>2, <2>3, JobViews, ObserveRefines DEF Absent
<1>4. CASE JobUpdate
  <2>1. PICK e \in EntitlementId : e = candidate.id
    BY <1>4 DEF JobUpdate, FullInv, Inv, SessionsAreSound, JobIsSound
  <2>2. /\ job = "update" /\ UNCHANGED entitlement /\ candidate' = NoCandidate
        /\ candidate.loaded.status = "new" /\ ~Locked(e)
    BY <1>4, <2>1 DEF JobUpdate, FullInv, Inv, SessionsAreSound, JobIsSound,
                      TransactionsHoldTheirOwn
  <2> DEFINE new == Flush(JobView(e), candidate.loaded,
                          Redeemed(candidate.loaded, org, candidate.datasource))
  <2>3. new.status = "active"
    <3>1. /\ candidate.loaded \in Row /\ org \in Organization /\ candidate.datasource \in Datasource
          /\ OwnerOf[candidate.datasource] = org /\ Whole(candidate.loaded)
      BY <2>2 DEF FullInv, Inv, TypeOK, SessionsAreSound, JobIsSound
    <3>2. JobView(e) \in Row /\ Whole(JobView(e))
      BY JobViewIsWhole DEF FullInv
    <3>3. QED
      BY <2>2, <3>1, <3>2, FlushRedeemed
  <2>4. pending' = [pending EXCEPT ![e] = new] /\ pending \in [EntitlementId -> Row]
    BY <1>4, <2>1 DEF JobUpdate, FullInv, Inv, TypeOK
  <2> HIDE DEF new
  <2>5. \A f \in EntitlementId : Locked(f)' <=> (Locked(f) \/ f = e)
    BY <2>3, <2>4 DEF Locked, Absent
  <2>6. StatusSeenBy(Job)' = StatusSeenBy(Job)
    BY <1>1, <2>1, <2>2, <2>5, JobViews
  <2>7. QED
    BY <1>1, <2>2, <2>6, JobViews, StuttersRefine
<1>5. CASE JobCommit
  <2>1. /\ candidate.id = None /\ candidate'.id = None
        /\ \A e \in EntitlementId : ~Locked(e)'
        /\ \A e \in EntitlementId : Locked(e) => pending[e].status = "active"
        /\ \A e \in EntitlementId : entitlement'[e] = JobView(e)
    BY <1>1, <1>5, NoRowIsWhole
       DEF JobCommit, JobEnds, Locked, FullInv, TransactionsHoldTheirOwn
  <2>2. \A e \in EntitlementId : entitlement'[e].status # entitlement[e].status =>
          <<StatusSeenBy(Job)[e], entitlement'[e].status>> \in EntitlementMoves
    BY <1>1, <2>1, JobViews DEF EntitlementMoves, JobView
  <2>3. StatusSeenBy(Job)' = [e \in EntitlementId |-> Absent]
    BY <1>1, <2>1, JobViews
  <2>4. QED
    BY <1>1, <2>2, <2>3, JobViews, CommitRefines
<1>6. CASE JobCrash
  <2>1. /\ candidate'.id = None /\ UNCHANGED entitlement
        /\ \A e \in EntitlementId : ~Locked(e)'
    BY <1>1, <1>6, NoRowIsWhole DEF JobCrash, JobEnds, Locked
  <2>2. StatusSeenBy(Job)' = [e \in EntitlementId |-> Absent]
    BY <1>1, <2>1, JobViews
  <2>3. QED
    BY <1>1, <2>1, <2>2, JobViews, RollbackRefines
<1>7. QED
  BY <1>2, <1>3, <1>4, <1>5, <1>6 DEF JobNext, JobReads

LEMMA NextRefines == FullInv /\ [Next]_vars => [Register!Next]_(Register!vars)
<1>1. UNCHANGED vars => UNCHANGED Register!vars
  BY DEF vars, jobVars, Register!vars, StatusSeenBy, Locked
<1>2. QED
  BY <1>1, RequestRefines, JobRefines DEF Next

\* However requests and the job overlap, crash or roll back, every status that is committed
\* is a legal move from one the row had when that client loaded it.
THEOREM Refinement == Spec => ImplementsRegister
BY InitRefines, NextRefines, FullInvariance, PTL
   DEF Spec, ImplementsRegister, Register!Spec

\* An entitlement of which nobody in flight has an outdated view follows the life cycle.
THEOREM SettledEntitlements == Spec => SettledEntitlementsFollowLifecycle
<1>1. FullInv /\ [Next]_vars
        => [\A r \in EntitlementId :
              Register!Settled(r) => Register!FollowsLifecycle(r)]_(Register!vars)
  <2> SUFFICES ASSUME Register!Next, NEW e \in EntitlementId, Register!Settled(e)
               PROVE  Register!FollowsLifecycle(e)
    BY NextRefines
  <2>1. CASE \E f \in EntitlementId : Register!Insert(f)
    BY <2>1 DEF Register!Insert, Register!FollowsLifecycle
  <2>2. CASE \/ \E c \in Clients, f \in EntitlementId : Register!Observe(c, f)
             \/ \E c \in Clients : Register!Rollback(c)
    BY <2>2 DEF Register!Observe, Register!Rollback, Register!FollowsLifecycle
  <2>3. ASSUME NEW c \in Clients, Register!Commit(c)
        PROVE  Register!FollowsLifecycle(e)
    <3>1. StatusSeenBy(c)[e] \in {Absent, entitlement[e].status}
      BY DEF Register!Settled, Clients
    <3>2. PICK R \in SUBSET EntitlementId : \E new \in [R -> EntitlementStatus] :
            /\ \A f \in R : <<[d \in Clients |-> StatusSeenBy(d)][c][f], new[f]>>
                              \in EntitlementMoves
            /\ Register!SetStatus(R, new)
      BY <2>3 DEF Register!Commit, Clients
    <3>3. QED
      BY <3>1, <3>2
         DEF EntitlementMoves, Absent, Register!SetStatus, Register!FollowsLifecycle
  <2>4. CASE Register!ConditionalUpdate
    BY <2>4 DEF Register!ConditionalUpdate, Register!SetStatus, Register!FollowsLifecycle
  <2>5. QED
    BY <2>1, <2>2, <2>3, <2>4 DEF Register!Next, Clients
<1>2. Spec => [][\A r \in EntitlementId :
                   Register!Settled(r) => Register!FollowsLifecycle(r)]_(Register!vars)
  BY <1>1, FullInvariance, PTL DEF Spec
<1>3. QED
  BY <1>2 DEF SettledEntitlementsFollowLifecycle, Register!SettledRowsFollowLifecycle

\* A redemption is replaced only by a writer, a request or the job, that has loaded the
\* entitlement before it was redeemed.
THEOREM RedemptionsAreFinal == Spec => SettledRedemptionIsFinal
<1> DEFINE Kept(e) == /\ entitlement'[e].redeemed_by = entitlement[e].redeemed_by
                      /\ entitlement'[e].linked_datasource = entitlement[e].linked_datasource
           Final == \A e \in EntitlementId :
             entitlement[e].redeemed_by # None /\ Register!Settled(e) => Kept(e)
<1>1. FullInv /\ [Next]_vars => Final
  <2> SUFFICES ASSUME FullInv, [Next]_vars, NEW e \in EntitlementId,
                      entitlement[e].redeemed_by # None, Register!Settled(e)
               PROVE  Kept(e)
    OBVIOUS
  <2>1. /\ Inv /\ entitlement \in [EntitlementId -> Row]
        /\ entitlement[e].status \notin {Absent, "new"}
        /\ \A c \in Clients : StatusSeenBy(c)[e] \in {Absent, entitlement[e].status}
    BY DEF FullInv, Inv, TypeOK, RedemptionIsWhole, Whole, Register!Settled, Clients
  <2>2. CASE UNCHANGED entitlement
    BY <2>2
  <2>3. ASSUME NEW f \in EntitlementId, NEW a \in Account, NEW owner \in Affiliate,
               NEW account \in CloudAccount, CreateEntitlement(f, a, owner, account)
        PROVE  Kept(e)
    BY <2>1, <2>3 DEF CreateEntitlement
  <2>4. ASSUME NEW c \in Client, Terminate(c) \/ Delete(c) \/ Redeem(c)
        PROVE  Kept(e)
    <3>1. PICK f \in EntitlementId, new \in Row :
            /\ f = request[c].id
            /\ entitlement' = [entitlement EXCEPT ![f] = new]
            /\ <<request[c].loaded.status, new.status>> \in EntitlementMoves
            /\ request[c].loaded.status = "active" =>
                 /\ new.redeemed_by = entitlement[f].redeemed_by
                 /\ new.linked_datasource = entitlement[f].linked_datasource
      BY <2>1, <2>4, WritesMove
    <3>2. c \in Clients /\ c # Job
      BY EntitlementsAssumption DEF Clients
    <3>3. f = e => request[c].loaded.status # "new"
      BY <2>1, <3>1, <3>2 DEF StatusSeenBy, Absent
    <3>4. QED
      BY <2>1, <3>1, <3>3 DEF EntitlementMoves
  <2>5. CASE JobCommit
    <3>1. candidate.id # e
      BY <2>5, EntitlementsAssumption
         DEF JobCommit, FullInv, TransactionsHoldTheirOwn, NoCandidate
    <3>2. ~Locked(e)
      BY <2>1, <3>1 DEF StatusSeenBy, Absent, Clients
    <3>3. QED
      BY <2>5, <3>2 DEF JobCommit, JobView
  <2>6. CASE RequestNext
    BY <2>2, <2>3, <2>4, <2>6
       DEF RequestNext, FetchToTerminate, FetchToDelete, FetchToRedeem, Fetch,
           CheckOrganization, CheckDatasource, RequestFails, DeleteOrganization
  <2>7. CASE JobNext
    BY <2>2, <2>5, <2>7
       DEF JobNext, JobStart, JobFetchDatasources, JobFetchFails, JobSelect, JobNoMatch,
           JobUpdate, JobAnnounce, JobCrash
  <2>8. CASE UNCHANGED vars
    BY <2>2, <2>8 DEF vars
  <2>9. QED
    BY <2>6, <2>7, <2>8 DEF Next
<1>2. QED
  BY <1>1, FullInvariance, PTL DEF Spec, SettledRedemptionIsFinal

=============================================================================
