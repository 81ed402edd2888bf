--------------------------- MODULE Accounts_proofs ---------------------------
(***************************************************************************)
(* Type correctness of Accounts, and that the counters of an account were  *)
(* true once and are all that a run of calculate_accounts_stats changes,   *)
(* for every number of accounts, entitlements, requests and runs.          *)
(***************************************************************************)
EXTENDS Accounts, FiniteSetTheorems, TLAPS

\* The history has every count up to now, and the zero that counters start with.
BeenIsComplete ==
  \A a \in AccountId, s \in Counted : 0 \in been[a][s] /\ Count(a)[s] \in been[a][s]

\* A run assigns nothing but counters.
RunsAssignCounters ==
  \A r \in Run, a \in AccountId :
    /\ run[r].assigned[a].type = run[r].loaded[a].type
    /\ run[r].assigned[a].external_id = run[r].loaded[a].external_id

Inv == TypeOK /\ CountersWereTrue /\ BeenIsComplete /\ RunsAssignCounters

-----------------------------------------------------------------------------
(* Rows and counts *)

LEMMA RowsAreTyped ==
  /\ NoAccount \in Account /\ Idle \in Request /\ NoRun \in RunState
  /\ NoRun.phase = "idle" /\ \A a \in AccountId : NoRun.assigned[a] = NoAccount /\ NoRun.loaded[a] = NoAccount
  /\ \A s \in Counted : Counters(NoAccount)[s] = 0
BY DEF NoAccount, Account, Absent, Idle, Request, NoRun, RunState, Nothing, Counts, Counted,
       EntitlementStatus, Counters

LEMMA NewAccountsAreTyped ==
  ASSUME NEW type \in AccountType, NEW x \in ExternalId \cup {None}
  PROVE  /\ NewAccount(type, x) \in Account
         /\ \A s \in Counted : Counters(NewAccount(type, x))[s] = 0
BY DEF NewAccount, NoAccount, Account, Counters

LEMMA CountsAreTyped ==
  ASSUME TypeOK, NEW a \in AccountId
  PROVE  Count(a) \in Counts
<1>1. ASSUME NEW s \in Counted PROVE Cardinality(OwnedBy(a, s)) \in Nat
  BY AccountsAssumption, FS_Subset, FS_CardinalityType DEF OwnedBy
<1>2. QED
  BY <1>1 DEF Count, Counts

LEMMA FlushColumns ==
  ASSUME NEW row \in Account, NEW loaded \in Account, NEW assigned \in Account
  PROVE  LET new == Flush(row, loaded, assigned) IN
         /\ new \in Account
         /\ new.type = IF assigned.type = loaded.type THEN row.type ELSE assigned.type
         /\ new.external_id = IF assigned.external_id = loaded.external_id
                              THEN row.external_id ELSE assigned.external_id
         /\ \A s \in Counted : Counters(new)[s] \in {Counters(row)[s], Counters(assigned)[s]}
BY DEF Flush, Account, Counters

LEMMA WithCountsColumns ==
  ASSUME NEW row \in Account, NEW n \in Counts
  PROVE  LET new == WithCounts(row, n) IN
         /\ new \in Account /\ new.type = row.type /\ new.external_id = row.external_id
         /\ \A s \in Counted : Counters(new)[s] = n[s]
BY DEF WithCounts, Account, Counts, Counted, EntitlementStatus, Counters

-----------------------------------------------------------------------------
(* Steps of requests *)

\* A step that leaves the entitlements and the runs alone and commits at most one row,
\* which keeps the counters of the committed one or starts with zeros.
LEMMA RequestInv ==
  ASSUME Inv, NEW c \in Client, NEW to \in Request, request' = [request EXCEPT ![c] = to],
         UNCHANGED <<entitlement, run, been>>,
         account' \in [AccountId -> Account],
         \A a \in AccountId, s \in Counted :
           Counters(account'[a])[s] \in {Counters(account[a])[s], 0}
  PROVE  Inv'
<1>1. TypeOK'
  BY DEF Inv, TypeOK
<1>2. CountersWereTrue'
  BY DEF Inv, CountersWereTrue, BeenIsComplete
<1>3. BeenIsComplete' /\ RunsAssignCounters'
  BY DEF Inv, BeenIsComplete, RunsAssignCounters, Count, OwnedBy
<1>4. QED
  BY <1>1, <1>2, <1>3 DEF Inv

LEMMA GoesInv ==
  ASSUME Inv, NEW c \in Client, NEW to \in Request, Goes(c, to)
  PROVE  Inv'
BY RequestInv DEF Goes, Inv, TypeOK

LEMMA CreateInv ==
  ASSUME Inv, NEW c \in Client, NEW a \in AccountId, Create(c, a) \/ CreateOperations(c, a)
  PROVE  Inv' /\ UNCHANGED run
<1>1. PICK row \in Account :
        /\ \A s \in Counted : Counters(row)[s] = 0
        /\ Saves(c, a, row)
  BY NewAccountsAreTyped DEF Inv, TypeOK, Request, Create, CreateOperations, AccountType
<1>2. QED
  BY <1>1, RowsAreTyped, RequestInv DEF Saves, Inv, TypeOK

LEMMA UpdateInv ==
  ASSUME Inv, NEW c \in Client, Update(c)
  PROVE  Inv' /\ UNCHANGED run
<1> DEFINE q == request[c]
<1>1. q \in Request /\ request \in [Client -> Request] /\ account \in [AccountId -> Account]
  BY DEF Inv, TypeOK
<1>2. CASE q.account \in AccountId
  <2> DEFINE row == account[q.account]
             new == Flush(row, [row EXCEPT !.external_id = q.loaded],
                               [row EXCEPT !.external_id = q.external_id])
  <2>1. new \in Account /\ \A s \in Counted : Counters(new)[s] = Counters(row)[s]
    BY <1>1, <1>2 DEF Request, Account, Flush, Counters
  <2>2. Saves(c, q.account, new)
    BY DEF Update
  <2> HIDE DEF new
  <2>3. QED
    BY <1>1, <1>2, <2>1, <2>2, RowsAreTyped, RequestInv DEF Saves
<1>3. CASE q.account \notin AccountId
  <2>1. account' = account /\ request' = [request EXCEPT ![c] = Idle]
        /\ UNCHANGED <<entitlement, run, been>>
    BY <1>1, <1>3 DEF Update, Saves
  <2>2. QED
    BY <1>1, <2>1, RowsAreTyped, RequestInv
<1>4. QED
  BY <1>2, <1>3

LEMMA ReadInv ==
  ASSUME Inv, NEW c \in Client,
         \/ \E x \in ExternalId : CreateLookUp(c, x) \/ OperationsLookUp(c, x)
         \/ \E a \in AccountId, x \in ExternalId : UpdateRead(c, a, x)
         \/ RequestFails(c)
  PROVE  Inv' /\ UNCHANGED <<account, run>>
<1>1. PICK to \in Request : Goes(c, to)
  BY RowsAreTyped DEF CreateLookUp, OperationsLookUp, UpdateRead, RequestFails, Idle, Request,
                      Inv, TypeOK, Account
<1>2. QED
  BY <1>1, GoesInv DEF Goes

-----------------------------------------------------------------------------
(* Entitlements change *)

LEMMA EntitlementInv ==
  ASSUME Inv, NEW e \in EntitlementId, NEW s \in EntitlementStatus, EntitlementChanges(e, s)
  PROVE  Inv' /\ UNCHANGED <<account, run>>
<1> DEFINE a == OwnerOf[e]
<1>1. /\ a \in AccountId /\ UNCHANGED <<account, request, run>>
      /\ entitlement' = [entitlement EXCEPT ![e] = s]
      /\ been' = [been EXCEPT ![a] = [t \in Counted |-> @[t] \cup {Count(a)'[t]}]]
  BY AccountsAssumption DEF EntitlementChanges
<1>2. entitlement' \in [EntitlementId -> EntitlementStatus \cup {Absent}]
  BY <1>1 DEF Inv, TypeOK
<1>3. \A t \in Counted : Count(a)'[t] \in Nat
  <2> SUFFICES ASSUME NEW t \in Counted PROVE Cardinality(OwnedBy(a, t)') \in Nat
    BY <1>1 DEF Count
  <2>1. OwnedBy(a, t)' \subseteq EntitlementId
    BY <1>1 DEF OwnedBy
  <2>2. QED
    BY <2>1, AccountsAssumption, FS_Subset, FS_CardinalityType
<1>4. PICK now \in [Counted -> Nat] : \A t \in Counted : now[t] = Count(a)'[t]
  <2>1. [t \in Counted |-> Count(a)'[t]] \in [Counted -> Nat]
    BY <1>3
  <2>2. QED
    BY <2>1
<1>5. /\ been' \in [AccountId -> [Counted -> SUBSET Nat]]
      /\ \A t \in Counted : been'[a][t] = been[a][t] \cup {now[t]}
      /\ \A b \in AccountId \ {a} : been'[b] = been[b]
  BY <1>1, <1>4 DEF Inv, TypeOK
<1>6. TypeOK'
  BY <1>1, <1>2, <1>5 DEF Inv, TypeOK
<1>7. \A b \in AccountId, t \in Counted : been[b][t] \subseteq been'[b][t]
  BY <1>5
<1>8. CountersWereTrue'
  BY <1>1, <1>7 DEF Inv, CountersWereTrue, Counters
<1>9. ASSUME NEW b \in AccountId, NEW t \in Counted
      PROVE  0 \in been'[b][t] /\ Count(b)'[t] \in been'[b][t]
  <2>1. CASE b = a
    BY <2>1, <1>4, <1>5 DEF Inv, BeenIsComplete, Count
  <2>2. CASE b # a
    <3>1. OwnedBy(b, t)' = OwnedBy(b, t)
      BY <2>2, <1>1 DEF Inv, TypeOK, OwnedBy
    <3>2. Count(b)'[t] = Count(b)[t]
      BY <3>1 DEF Count
    <3>3. QED
      BY <3>2, <1>7 DEF Inv, BeenIsComplete
  <2>3. QED
    BY <2>1, <2>2
<1>10. BeenIsComplete' /\ RunsAssignCounters'
  BY <1>1, <1>9 DEF Inv, BeenIsComplete, RunsAssignCounters
<1>11. QED
  BY <1>1, <1>6, <1>8, <1>10 DEF Inv

-----------------------------------------------------------------------------
(* Steps of a run *)

\* What a run may hold.
RunIsSound(q) ==
  /\ q \in RunState
  /\ q.phase = "write" => /\ q.account \in AccountId
                          /\ \A s \in Counted : q.counts[s] \in been[q.account][s]
  /\ \A a \in AccountId :
       /\ \A s \in Counted : Counters(q.assigned[a])[s] \in been[a][s]
       /\ q.assigned[a].type = q.loaded[a].type
       /\ q.assigned[a].external_id = q.loaded[a].external_id

LEMMA RunsAreSound ==
  ASSUME Inv, NEW r \in Run PROVE RunIsSound(run[r])
BY DEF Inv, TypeOK, CountersWereTrue, RunsAssignCounters, RunIsSound

LEMMA NoRunIsSound ==
  ASSUME Inv PROVE RunIsSound(NoRun)
BY RowsAreTyped DEF Inv, BeenIsComplete, RunIsSound

\* A run that goes on, and commits counters there have been, if anything.
LEMMA RunInv ==
  ASSUME Inv, NEW r \in Run, NEW to, RunIsSound(to), run' = [run EXCEPT ![r] = to],
         UNCHANGED <<entitlement, request, been>>,
         account' \in [AccountId -> Account],
         \A a \in AccountId, s \in Counted : Counters(account'[a])[s] \in been[a][s]
  PROVE  Inv'
<1>1. TypeOK'
  BY DEF Inv, TypeOK, RunIsSound
<1>2. /\ \A q \in Run \ {r} : run'[q] = run[q]
      /\ run'[r] = to
  BY DEF Inv, TypeOK
<1>3. CountersWereTrue'
  BY <1>2 DEF Inv, CountersWereTrue, RunIsSound
<1>4. BeenIsComplete'
  BY DEF Inv, BeenIsComplete, Count, OwnedBy
<1>5. RunsAssignCounters'
  BY <1>2 DEF Inv, RunsAssignCounters, RunIsSound
<1>6. QED
  BY <1>1, <1>3, <1>4, <1>5 DEF Inv

LEMMA RunGoesInv ==
  ASSUME Inv, NEW r \in Run, NEW to, RunIsSound(to), RunGoes(r, to)
  PROVE  Inv' /\ UNCHANGED account
BY RunInv DEF RunGoes, Inv, TypeOK, CountersWereTrue

LEMMA StartRunInv ==
  ASSUME Inv, NEW r \in Run, StartRun(r)
  PROVE  Inv' /\ UNCHANGED account
<1> DEFINE to == [NoRun EXCEPT !.phase = "count", !.todo = {a \in AccountId : Exists(a)},
                               !.loaded = account, !.assigned = account]
<1>1. /\ to \in RunState /\ to.phase = "count"
      /\ to.loaded = account /\ to.assigned = account
  BY RowsAreTyped DEF NoRun, RunState, Inv, TypeOK
<1> HIDE DEF to
<1>2. RunIsSound(to)
  BY <1>1 DEF RunIsSound, Inv, CountersWereTrue
<1>3. RunGoes(r, to)
  BY DEF StartRun, to
<1>4. QED
  BY <1>2, <1>3, RunGoesInv

LEMMA CountInv ==
  ASSUME Inv, NEW r \in Run, NEW a \in AccountId, CountEntitlements(r, a)
  PROVE  Inv' /\ UNCHANGED account
<1> DEFINE to == [run[r] EXCEPT !.phase = "write", !.todo = @ \ {a}, !.account = a,
                                !.counts = Count(a)]
<1>1. run[r] \in RunState /\ RunIsSound(run[r]) /\ Count(a) \in Counts
  BY RunsAreSound, CountsAreTyped DEF Inv, RunIsSound
<1>2. /\ to \in RunState /\ to.phase = "write" /\ to.account = a /\ to.counts = Count(a)
      /\ to.loaded = run[r].loaded /\ to.assigned = run[r].assigned
  BY <1>1 DEF RunState
<1>3. RunGoes(r, to)
  BY DEF CountEntitlements
<1> HIDE DEF to
<1>4. RunIsSound(to)
  BY <1>1, <1>2 DEF RunIsSound, Inv, BeenIsComplete
<1>5. QED
  BY <1>3, <1>4, RunGoesInv

LEMMA WriteCountsInv ==
  ASSUME Inv, NEW r \in Run, WriteCounts(r)
  PROVE  Inv' /\ UNCHANGED account
<1>1. /\ run[r] \in RunState /\ RunIsSound(run[r]) /\ run[r].phase = "write"
  BY RunsAreSound DEF WriteCounts, RunIsSound
<1>2. PICK a \in AccountId, n \in Counts :
        a = run[r].account /\ n = run[r].counts /\ \A s \in Counted : n[s] \in been[a][s]
  BY <1>1 DEF RunIsSound, RunState
<1>3. PICK row : row = WithCounts(run[r].assigned[a], n)
  OBVIOUS
<1>4. /\ row \in Account /\ row.type = run[r].assigned[a].type
      /\ row.external_id = run[r].assigned[a].external_id
      /\ \A s \in Counted : Counters(row)[s] = n[s]
  BY <1>1, <1>2, <1>3, WithCountsColumns DEF RunState
<1> DEFINE to == [run[r] EXCEPT !.phase = "count", !.assigned = [@ EXCEPT ![a] = row],
                                !.account = None, !.counts = Nothing]
<1>5. RunGoes(r, to)
  BY <1>2, <1>3 DEF WriteCounts
<1>6. /\ to \in RunState /\ to.phase = "count" /\ to.loaded = run[r].loaded
      /\ to.assigned = [run[r].assigned EXCEPT ![a] = row]
      /\ run[r].assigned \in [AccountId -> Account]
  BY <1>1, <1>2, <1>4 DEF RunState, Nothing, Counts
<1> HIDE DEF to
<1>7. RunIsSound(to)
  BY <1>1, <1>2, <1>4, <1>6 DEF RunIsSound
<1>8. QED
  BY <1>5, <1>7, RunGoesInv

LEMMA CommitInv ==
  ASSUME Inv, NEW r \in Run, Commit(r)
  PROVE  /\ Inv'
         /\ \A a \in AccountId : /\ account'[a].external_id = account[a].external_id
                                 /\ account'[a].type = account[a].type
<1>1. RunIsSound(run[r]) /\ account \in [AccountId -> Account]
  BY RunsAreSound DEF Inv, TypeOK
<1>2. ASSUME NEW a \in AccountId
      PROVE  /\ account'[a] \in Account
             /\ account'[a].external_id = account[a].external_id
             /\ account'[a].type = account[a].type
             /\ \A s \in Counted : Counters(account'[a])[s] \in been[a][s]
  <2>1. CASE a \in Written(r)
    <3>1. account'[a] = Flush(account[a], run[r].loaded[a], run[r].assigned[a])
      BY <2>1 DEF Commit
    <3>2. /\ account[a] \in Account /\ run[r].loaded[a] \in Account
          /\ run[r].assigned[a] \in Account
          /\ run[r].assigned[a].type = run[r].loaded[a].type
          /\ run[r].assigned[a].external_id = run[r].loaded[a].external_id
      BY <1>1 DEF RunIsSound, RunState
    <3>3. \A s \in Counted : /\ Counters(run[r].assigned[a])[s] \in been[a][s]
                             /\ Counters(account[a])[s] \in been[a][s]
      BY <1>1 DEF RunIsSound, Inv, CountersWereTrue
    <3>4. PICK row, loaded, assigned :
            row = account[a] /\ loaded = run[r].loaded[a] /\ assigned = run[r].assigned[a]
      OBVIOUS
    <3>5. QED
      BY <3>1, <3>2, <3>3, FlushColumns
  <2>2. CASE a \notin Written(r)
    <3>1. account'[a] = account[a]
      BY <2>2 DEF Commit
    <3>2. QED
      BY <1>1, <3>1 DEF Inv, CountersWereTrue
  <2>3. QED
    BY <2>1, <2>2
<1>3. /\ account' \in [AccountId -> Account]
      /\ run' = [run EXCEPT ![r] = NoRun] /\ UNCHANGED <<entitlement, request, been>>
  BY <1>2 DEF Commit
<1>4. Inv'
  BY <1>2, <1>3, NoRunIsSound, RunInv
<1>5. QED
  BY <1>2, <1>4

-----------------------------------------------------------------------------
(* The theorems *)

LEMMA InitInv == Init => Inv
<1> SUFFICES ASSUME Init PROVE Inv
  OBVIOUS
<1>1. TypeOK
  BY RowsAreTyped DEF Init, TypeOK
<1>2. ASSUME NEW a \in AccountId, NEW s \in Counted PROVE Count(a)[s] = 0
  <2>1. OwnedBy(a, s) = {}
    BY DEF Init, OwnedBy, Counted, EntitlementStatus, Absent
  <2>2. QED
    BY <2>1, FS_EmptySet DEF Count
<1>3. BeenIsComplete
  BY <1>2 DEF Init, BeenIsComplete
<1>4. CountersWereTrue
  BY RowsAreTyped DEF Init, CountersWereTrue
<1>5. RunsAssignCounters
  BY RowsAreTyped DEF Init, RunsAssignCounters
<1>6. QED
  BY <1>1, <1>3, <1>4, <1>5 DEF Inv

\* What a step of a run commits.
RunsKeep ==
  (\E r \in Run : run'[r] # run[r]) =>
    \A a \in AccountId : /\ account'[a].external_id = account[a].external_id
                         /\ account'[a].type = account[a].type

LEMMA NextInv == Inv /\ [Next]_vars => Inv' /\ RunsKeep
<1> SUFFICES ASSUME Inv, [Next]_vars PROVE Inv' /\ RunsKeep
  OBVIOUS
<1> USE DEF RunsKeep
<1>1. CASE UNCHANGED vars
  BY <1>1 DEF vars, Inv, TypeOK, CountersWereTrue, BeenIsComplete, RunsAssignCounters, Count,
              OwnedBy, Counters
<1>2. ASSUME NEW c \in Client, Requests(c) PROVE Inv' /\ RunsKeep
  BY <1>2, ReadInv, CreateInv, UpdateInv DEF Requests
<1>3. ASSUME NEW e \in EntitlementId, NEW s \in EntitlementStatus, EntitlementChanges(e, s)
      PROVE  Inv' /\ RunsKeep
  BY <1>3, EntitlementInv
<1>4. ASSUME NEW r \in Run, Runs(r) PROVE Inv' /\ RunsKeep
  <2>1. CASE RunFails(r)
    BY <2>1, NoRunIsSound, RunGoesInv DEF RunFails
  <2>2. QED
    BY <1>4, <2>1, StartRunInv, CountInv, WriteCountsInv, CommitInv DEF Runs
<1>5. QED
  BY <1>1, <1>2, <1>3, <1>4 DEF Next

THEOREM Invariance == Spec => []Inv
BY InitInv, NextInv, PTL DEF Spec

\* Accounts, entitlements, requests and runs are well typed; counts are numbers.
THEOREM Typing == Spec => []TypeOK
<1>1. Inv => TypeOK
  BY DEF Inv
<1>2. QED
  BY <1>1, Invariance, PTL

\* Every counter in the table, and every one a run is about to store, was once the number of
\* entitlements (calculate_accounts_stats).
THEOREM CountersHold == Spec => []CountersWereTrue
<1>1. Inv => CountersWereTrue
  BY DEF Inv
<1>2. QED
  BY <1>1, Invariance, PTL

\* A run changes counters and nothing else of an account.
THEOREM CountersOnly == Spec => RunsChangeCountersOnly
<1>1. Inv /\ [Next]_vars =>
        [(\E r \in Run : run'[r] # run[r]) =>
           \A a \in AccountId : /\ account'[a].external_id = account[a].external_id
                                /\ account'[a].type = account[a].type]_vars
  BY NextInv DEF RunsKeep
<1>2. QED
  BY <1>1, Invariance, PTL DEF Spec, RunsChangeCountersOnly

-----------------------------------------------------------------------------
(* One operations account, if requests and commands do not overlap *)

\* What the command saw when it looked is still so.
NoneYet ==
  \A c \in Client : request[c].phase = "create_operations"
                      => \A a \in AccountId : account[a].type # "operations"

\* Only creations touch the types of accounts.
LEMMA TypesStay ==
  ASSUME Inv, NEW c \in Client, Update(c)
  PROVE  \A a \in AccountId : account'[a].type = account[a].type
<1>1. account \in [AccountId -> Account]
  BY DEF Inv, TypeOK
<1>2. ASSUME NEW a \in AccountId, NEW x, NEW y
      PROVE  Flush(account[a], [account[a] EXCEPT !.external_id = x],
                               [account[a] EXCEPT !.external_id = y]).type = account[a].type
  BY <1>1 DEF Flush, Account
<1>3. QED
  BY <1>1, <1>2 DEF Update, Saves

LEMMA CreatedTypes ==
  ASSUME Inv, NEW c \in Client, NEW a \in AccountId
  PROVE  /\ Create(c, a) =>
              /\ account'[a].type = "affiliate"
              /\ \A b \in AccountId \ {a} : account'[b].type = account[b].type
         /\ CreateOperations(c, a) =>
              \A b \in AccountId \ {a} : account'[b].type = account[b].type
BY DEF Inv, TypeOK, Create, CreateOperations, Saves, NewAccount, NoAccount

\* At most one operations account (create_operations_account looks for one and inserts), for
\* commands and requests that come one after the other; runs may overlap them.
THEOREM OneAtATime ==
  ASSUME \A c, d \in Client : c = d
  PROVE  Spec => []OneOperationsAccount
<1>1. Init => OneOperationsAccount /\ NoneYet
  BY RowsAreTyped DEF Init, OneOperationsAccount, NoneYet, NoAccount, Absent, Idle
<1>2. Inv /\ OneOperationsAccount /\ NoneYet /\ [Next]_vars => (OneOperationsAccount /\ NoneYet)'
  <2> SUFFICES ASSUME Inv, OneOperationsAccount, NoneYet, [Next]_vars
               PROVE  OneOperationsAccount' /\ NoneYet'
    OBVIOUS
  <2> USE DEF OneOperationsAccount, NoneYet
  <2>1. ASSUME \A a \in AccountId : account'[a].type = account[a].type,
               \A c \in Client : request'[c].phase = "create_operations" =>
                 \/ request[c].phase = "create_operations"
                 \/ \A a \in AccountId : account[a].type # "operations"
        PROVE  OneOperationsAccount' /\ NoneYet'
    BY <2>1
  <2>2. CASE UNCHANGED vars
    BY <2>1, <2>2 DEF vars
  <2>3. ASSUME NEW c \in Client, Requests(c)
        PROVE  OneOperationsAccount' /\ NoneYet'
    <3>1. CASE Update(c)
      BY <2>1, <3>1, TypesStay DEF Update, Saves, Inv, TypeOK, Idle
    <3>2. ASSUME NEW a \in AccountId, Create(c, a)
          PROVE  OneOperationsAccount' /\ NoneYet'
      <4>1. \A d \in Client : request'[d].phase = "idle"
        BY <3>2 DEF Create, Saves, Inv, TypeOK, Idle
      <4>2. QED
        BY <3>2, <4>1, CreatedTypes
    <3>3. ASSUME NEW a \in AccountId, CreateOperations(c, a)
          PROVE  OneOperationsAccount' /\ NoneYet'
      <4>1. /\ \A d \in Client : request'[d].phase = "idle"
            /\ \A b \in AccountId : account[b].type # "operations"
        BY <3>3 DEF CreateOperations, Saves, Inv, TypeOK, Idle
      <4>2. QED
        BY <3>3, <4>1, CreatedTypes
    <3>4. CASE \/ \E x \in ExternalId : CreateLookUp(c, x) \/ OperationsLookUp(c, x)
               \/ \E a \in AccountId, x \in ExternalId : UpdateRead(c, a, x)
               \/ RequestFails(c)
      <4>1. PICK to : /\ Goes(c, to)
                      /\ to.phase = "create_operations" =>
                           \A a \in AccountId : account[a].type # "operations"
        <5>1. ASSUME NEW x \in ExternalId, CreateLookUp(c, x) \/ OperationsLookUp(c, x)
              PROVE  \E to : /\ Goes(c, to)
                             /\ to.phase = "create_operations" =>
                                  \A a \in AccountId : account[a].type # "operations"
          <6> DEFINE one == [Idle EXCEPT !.phase = "create", !.external_id = x]
                     two == [Idle EXCEPT !.phase = "create_operations", !.external_id = x]
          <6>1. one.phase = "create"
            BY DEF Idle
          <6>2. \/ Goes(c, one)
                \/ Goes(c, two) /\ \A a \in AccountId : account[a].type # "operations"
            BY <5>1 DEF CreateLookUp, OperationsLookUp
          <6> HIDE DEF one, two
          <6>3. QED
            BY <6>1, <6>2
        <5>2. CASE \E a \in AccountId, x \in ExternalId : UpdateRead(c, a, x)
          BY <5>2 DEF UpdateRead
        <5>3. CASE RequestFails(c)
          BY <5>3 DEF RequestFails, Idle
        <5>4. QED
          BY <3>4, <5>1, <5>2, <5>3
      <4>2. UNCHANGED account /\ request' = [request EXCEPT ![c] = to]
        BY <4>1 DEF Goes
      <4>3. QED
        BY <2>1, <4>1, <4>2 DEF Inv, TypeOK
    <3>5. QED
      BY <2>3, <3>1, <3>2, <3>3, <3>4 DEF Requests
  <2>4. ASSUME NEW e \in EntitlementId, NEW s \in EntitlementStatus, EntitlementChanges(e, s)
        PROVE  OneOperationsAccount' /\ NoneYet'
    BY <2>1, <2>4 DEF EntitlementChanges
  <2>5. ASSUME NEW r \in Run, Runs(r)
        PROVE  OneOperationsAccount' /\ NoneYet'
    <3>1. UNCHANGED request
      BY <2>5 DEF Runs, StartRun, CountEntitlements, WriteCounts, Commit, RunFails, RunGoes
    <3>2. \A a \in AccountId : account'[a].type = account[a].type
      BY <2>5, CommitInv DEF Runs, StartRun, CountEntitlements, WriteCounts, RunFails, RunGoes
    <3>3. QED
      BY <2>1, <3>1, <3>2
  <2>6. QED
    BY <2>2, <2>3, <2>4, <2>5 DEF Next
<1>3. QED
  BY <1>1, <1>2, Invariance, PTL DEF Spec

=============================================================================
