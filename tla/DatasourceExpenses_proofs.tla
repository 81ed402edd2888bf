--------------------- MODULE DatasourceExpenses_proofs ---------------------
(***************************************************************************)
(* What the table of expenses says, however many runs overlap, fail, are   *)
(* missed or last for days, and however many data sources there are.       *)
(***************************************************************************)
EXTENDS DatasourceExpenses, TLAPS

\* The inductive invariant: what a run commits rests on what its transaction holds.
Inv ==
  /\ TypeOK
  /\ ConsecutiveRunsAccount
  /\ FiguresAreFinal
  /\ RunsAreSound

-----------------------------------------------------------------------------
(* Types *)

LEMMA DaysAreNaturals ==
  /\ LastDay \in Nat /\ Keep \in Nat /\ Keep > 0 /\ 1 \in Day
  /\ \A d \in Day : d \in Nat /\ d > 0 /\ d \in 0..LastDay /\ d - 1 \in 0..LastDay
BY ExpensesAssumption DEF Day

LEMMA RowsAreTyped ==
  /\ NoRow \in Row /\ NoRow = [stored |-> FALSE, expenses |-> FALSE, created |-> 0]
  /\ Idle \in RunState /\ Idle.phase = "idle" /\ ~Idle.daily /\ Idle.looked = None
  /\ Idle.todo = {} /\ Idle.written = {} /\ Idle.answered = {} /\ Idle.follows = {}
BY DaysAreNaturals DEF NoRow, Row, Idle, RunState

LEMMA RunsAreTyped ==
  ASSUME TypeOK, NEW r \in Run
  PROVE  /\ run[r] \in RunState
         /\ run[r].today \in 0..LastDay /\ run[r].daily \in BOOLEAN
         /\ run[r].loaded \in Row /\ run[r].pending \in [Datasource -> Row]
         /\ run[r].looked \in Datasource \cup {None}
         /\ run[r].todo \subseteq Datasource /\ run[r].written \subseteq Datasource
         /\ now \in Day
BY DEF TypeOK, RunState

\* The day a pass stores is 0 only if it stores nothing.
LEMMA DayOfRun ==
  ASSUME Inv, NEW r \in Run, run[r].phase # "idle"
  PROVE  /\ run[r].today \in 1..now /\ run[r].today \in Day
         /\ StoredDay(r) \in 0..now /\ StoredDay(r) \in 0..LastDay
BY RunsAreTyped, DaysAreNaturals
   DEF Inv, TypeOK, RunsAreSound, RunIsSound, StoredDay, Day

-----------------------------------------------------------------------------
(* The table *)

LEMMA RowsAreSound ==
  ASSUME Inv, NEW k \in Datasource, NEW d \in 0..LastDay
  PROVE  /\ <<k, d>> \in Key /\ expense[<<k, d>>] \in Row
         /\ RowIsSound(expense[<<k, d>>], k, d, now)
<1>1. <<k, d>> \in Key /\ <<k, d>>[1] = k /\ <<k, d>>[2] = d
  BY DEF Key
<1>2. expense[<<k, d>>] \in Row
  BY <1>1 DEF Inv, TypeOK
<1>3. \A key \in Key : RowIsSound(expense[key], key[1], key[2], now)
  BY DEF Inv, RunsAreSound
<1>4. QED
  BY <1>1, <1>2, <1>3

LEMMA RowStaysSound ==
  ASSUME NEW m \in Nat, NEW n \in Nat, m <= n, NEW row \in Row, NEW k, NEW d \in Nat,
         RowIsSound(row, k, d, m)
  PROVE  RowIsSound(row, k, d, n)
<1>1. row.created \in Nat
  BY DaysAreNaturals DEF Row
<1>2. QED
  BY <1>1 DEF RowIsSound

\* What every step does: days only pass, and a row that is not obsolete yet stays, as does
\* its cost.
TableEvolves ==
  /\ now' \in Day /\ now <= now'
  /\ expense' \in [Key -> Row]
  /\ completed' \in [Organization -> SUBSET Day]
  /\ \A o \in Organization : completed[o] \subseteq completed'[o]
  /\ \A k \in Datasource, d \in 0..LastDay :
       /\ RowIsSound(expense'[<<k, d>>], k, d, now')
       /\ now' < d + Keep =>
            /\ expense[<<k, d>>].stored => expense'[<<k, d>>].stored
            /\ expense[<<k, d>>].expenses => expense'[<<k, d>>].expenses

LEMMA SameTable ==
  ASSUME Inv, UNCHANGED <<expense, completed>>, now' \in Day, now <= now'
  PROVE  TableEvolves
<1>1. \A k \in Datasource, d \in 0..LastDay :
        /\ expense[<<k, d>>] \in Row /\ RowIsSound(expense[<<k, d>>], k, d, now)
  BY RowsAreSound
<1>2. now \in Nat /\ now' \in Nat /\ \A d \in 0..LastDay : d \in Nat
  BY DaysAreNaturals DEF Inv, TypeOK, Day
<1>3. \A k \in Datasource, d \in 0..LastDay : RowIsSound(expense[<<k, d>>], k, d, now')
  BY <1>1, <1>2, RowStaysSound
<1>4. QED
  BY <1>3 DEF TableEvolves, Inv, TypeOK

-----------------------------------------------------------------------------
(* Runs that take no part in a step *)

LEMMA OthersStaySound ==
  ASSUME Inv, TableEvolves, NEW s \in Run, run'[s] = run[s],
         \A j \in run[s].written :
           expense'[<<j, StoredDay(s)>>].expenses => expense[<<j, StoredDay(s)>>].expenses
  PROVE  TransactionIsSound(s)' /\ RunIsSound(s)' /\ StoredDay(s)' = StoredDay(s)
<1> DEFINE d == StoredDay(s)
<1>1. TransactionIsSound(s) /\ RunIsSound(s)
  BY DEF Inv, RunsAreSound
<1>2. StoredDay(s)' = StoredDay(s)
  BY DEF StoredDay
<1>3. /\ now \in Nat /\ now' \in Nat /\ now <= now' /\ Keep \in Nat
      /\ \A e \in 0..LastDay : e \in Nat
  BY DaysAreNaturals DEF Inv, TypeOK, Day, TableEvolves
<1>4. /\ run[s] \in RunState /\ run[s].loaded \in Row
      /\ \A j \in run[s].written : j \in Datasource /\ run[s].pending[j] \in Row
  BY RunsAreTyped DEF Inv
<1>5. CASE run[s].phase = "idle"
  <2>1. run[s] = Idle
    BY <1>1, <1>5 DEF RunIsSound
  <2>2. QED
    BY <1>2, <2>1, RowsAreTyped DEF TransactionIsSound, RunIsSound
<1>6. CASE run[s].phase # "idle"
  <2>1. d \in 0..LastDay /\ d \in Nat /\ run[s].today \in 1..now /\ run[s].today \in 0..LastDay
    <3>1. d \in 0..LastDay /\ run[s].today \in 1..now /\ run[s].today \in Day
      BY <1>6, DayOfRun
    <3>2. QED
      BY <1>3, <3>1, DaysAreNaturals
  <2>2. TransactionIsSound(s)'
    <3>1. run[s].looked # None =>
            /\ run[s].looked \in Datasource
            /\ RowIsSound(run[s].loaded, run[s].looked, d, now')
            /\ now' < d + Keep /\ run[s].loaded.expenses => expense'[<<run[s].looked, d>>].expenses
      <4>1. run[s].looked # None => run[s].looked \in Datasource
        BY RunsAreTyped DEF Inv
      <4>2. run[s].looked # None => RowIsSound(run[s].loaded, run[s].looked, d, now)
        BY <1>1 DEF TransactionIsSound
      <4>3. (run[s].looked # None /\ now < d + Keep /\ run[s].loaded.expenses)
              => expense[<<run[s].looked, d>>].expenses
        BY <1>1 DEF TransactionIsSound
      <4>4. now' < d + Keep => now < d + Keep
        BY <1>3, <2>1
      <4> HIDE DEF d
      <4>5. QED
        BY <1>3, <1>4, <2>1, <4>1, <4>2, <4>3, <4>4, RowStaysSound DEF TableEvolves
    <3>2. \A j \in run[s].written :
            /\ run[s].pending[j].stored
            /\ RowIsSound(run[s].pending[j], j, d, now')
            /\ expense'[<<j, d>>].expenses => run[s].pending[j].expenses
            /\ run[s].daily /\ now' < d + Keep => run[s].pending[j].expenses
      <4>1. \A j \in run[s].written :
              /\ run[s].pending[j].stored
              /\ RowIsSound(run[s].pending[j], j, d, now)
              /\ expense[<<j, d>>].expenses => run[s].pending[j].expenses
              /\ run[s].daily /\ now < d + Keep => run[s].pending[j].expenses
        BY <1>1 DEF TransactionIsSound
      <4>2. \A j \in run[s].written :
              expense'[<<j, d>>].expenses => expense[<<j, d>>].expenses
        OBVIOUS
      <4>3. now' < d + Keep => now < d + Keep
        BY <1>3, <2>1
      <4> HIDE DEF d
      <4>4. QED
        BY <1>3, <1>4, <2>1, <4>1, <4>2, <4>3, RowStaysSound
    <3>3. /\ run[s].phase # "store" =>
               (run[s].todo = {} /\ run[s].looked = None /\ run[s].written = {})
          /\ run[s].daily =>
               \A j \in (run[s].todo \cup {run[s].looked}) \ {None} : <<j, d>> \in Spends
          /\ run[s].looked # None => (run[s].daily => run[s].loaded.stored)
      BY <1>1 DEF TransactionIsSound
    <3> HIDE DEF d
    <3>4. d = StoredDay(s)'
      BY <1>2 DEF d
    <3>5. QED
      BY <3>1, <3>2, <3>3, <3>4 DEF TransactionIsSound
  <2>3. RunIsSound(s)'
    <3>1. \A k \in Datasource : OrganizationOf[k] \in run[s].answered =>
            ((run[s].daily /\ now' < run[s].today + Keep)
               => expense'[<<k, run[s].today>>].stored)
      <4>1. \A k \in Datasource : OrganizationOf[k] \in run[s].answered =>
              ((run[s].daily /\ now < run[s].today + Keep)
                 => expense[<<k, run[s].today>>].stored)
        BY <1>1 DEF RunIsSound
      <4>2. now' < run[s].today + Keep => now < run[s].today + Keep
        BY <1>3, <2>1
      <4>3. QED
        BY <2>1, <4>1, <4>2 DEF TableEvolves
    <3>2. \A o \in run[s].follows : run[s].today - 1 \in completed'[o]
      BY <1>1, <1>4 DEF RunIsSound, TableEvolves, RunState
    <3>3. now' < run[s].today - 1 + Keep => now < run[s].today - 1 + Keep
      BY <1>3, <2>1
    <3>4. run[s].today \in 1..now'
      BY <1>3, <2>1
    <3>5. Covered(s)' = Covered(s)
      BY DEF Covered
    <3>6. QED
      BY <1>1, <1>6, <3>1, <3>2, <3>3, <3>4, <3>5 DEF RunIsSound
  <2>4. QED
    BY <1>2, <2>2, <2>3
<1>7. QED
  BY <1>5, <1>6
-----------------------------------------------------------------------------
(* Steps of one run that leave the table alone *)

\* What such a step has to show of the run.
LEMMA StepsStaySound ==
  ASSUME Inv, NEW r \in Run, NEW to \in RunState, Steps(r, to),
         TransactionIsSound(r)', RunIsSound(r)',
         \A s \in Run \ {r} :
           StoredDay(s) = StoredDay(r)' => to.written \cap run[s].written = {}
  PROVE  Inv'
<1>1. now' \in Day /\ now <= now' /\ UNCHANGED <<now, expense, completed, accounted>>
  BY DaysAreNaturals DEF Inv, TypeOK, Steps, Day
<1>2. TableEvolves
  BY <1>1, SameTable
<1>3. run' = [run EXCEPT ![r] = to] /\ run'[r] = to
      /\ \A s \in Run : s # r => run'[s] = run[s]
  BY DEF Steps, Goes, Inv, TypeOK
<1>4. TypeOK'
  BY <1>1, <1>3 DEF Inv, TypeOK
<1>5. ConsecutiveRunsAccount' /\ FiguresAreFinal'
  BY <1>1 DEF Inv, ConsecutiveRunsAccount, FiguresAreFinal
<1>6. \A key \in Key : RowIsSound(expense'[key], key[1], key[2], now')
  BY <1>1 DEF Inv, RunsAreSound
<1>7. \A s \in Run \ {r} :
        TransactionIsSound(s)' /\ RunIsSound(s)' /\ StoredDay(s)' = StoredDay(s)
  BY <1>1, <1>2, <1>3, OthersStaySound
<1>8. \A s, t \in Run : s # t /\ StoredDay(s)' = StoredDay(t)'
                          => run'[s].written \cap run'[t].written = {}
  BY <1>3, <1>7 DEF Inv, RunsAreSound
<1>9. RunsAreSound'
  BY <1>6, <1>7, <1>8 DEF RunsAreSound
<1>10. QED
  BY <1>4, <1>5, <1>9 DEF Inv

\* A run that has written nothing more excludes the same writers.
LEMMA WritersAreExcluded ==
  ASSUME Inv, NEW r \in Run, NEW to \in RunState, Goes(r, to), to.written \subseteq run[r].written,
         StoredDay(r)' = StoredDay(r) \/ to.written = {}
  PROVE  \A s \in Run \ {r} :
           StoredDay(s) = StoredDay(r)' => to.written \cap run[s].written = {}
BY DEF Inv, RunsAreSound

LEMMA RunStops ==
  ASSUME Inv, NEW r \in Run, Steps(r, Idle)
  PROVE  Inv'
<1>1. run'[r] = Idle
  BY DEF Steps, Goes, Inv, TypeOK
<1>2. TransactionIsSound(r)' /\ RunIsSound(r)'
  BY <1>1, RowsAreTyped DEF TransactionIsSound, RunIsSound
<1>3. QED
  BY <1>2, RowsAreTyped, WritersAreExcluded, StepsStaySound DEF Steps

LEMMA StartKeepsInv ==
  ASSUME Inv, NEW r \in Run, NEW scope \in SUBSET Organization, Start(r, scope)
  PROVE  Inv'
<1> DEFINE to == [Idle EXCEPT !.phase = "fetch", !.today = now, !.scope = scope,
                    !.answered = scope,
                    !.follows = {o \in scope : now - 1 \in completed[o]}]
<1>1. Steps(r, to)
  BY DEF Start
<1>2. now \in 1..now /\ now \in 0..LastDay
  BY DaysAreNaturals DEF Inv, TypeOK, Day
<1>3. to \in RunState
  BY <1>2, RowsAreTyped DEF RunState
<1>4. /\ to.phase = "fetch" /\ to.today = now /\ ~to.daily /\ to.todo = {} /\ to.looked = None
      /\ to.written = {} /\ \A o \in to.follows : now - 1 \in completed[o]
  BY RowsAreTyped DEF Idle
<1> HIDE DEF to
<1>5. run'[r] = to /\ UNCHANGED <<now, completed>>
  BY <1>1 DEF Steps, Goes, Inv, TypeOK
<1>6. TransactionIsSound(r)'
  BY <1>4, <1>5 DEF TransactionIsSound
<1>7. RunIsSound(r)'
  BY <1>2, <1>4, <1>5 DEF RunIsSound
<1>8. QED
  BY <1>1, <1>3, <1>4, <1>6, <1>7, WritersAreExcluded, StepsStaySound DEF Steps

LEMMA FetchKeepsInv ==
  ASSUME Inv, NEW r \in Run, NEW ok \in SUBSET Organization, Fetch(r, ok)
  PROVE  Inv'
<1> DEFINE relevant == {k \in Datasource :
             /\ OrganizationOf[k] \in ok
             /\ run[r].daily => <<k, run[r].today - 1>> \in Spends}
           to == [run[r] EXCEPT !.phase = "store", !.answered = @ \cap ok, !.todo = relevant]
<1>1. Steps(r, to) /\ run[r].phase = "fetch"
  BY DEF Fetch
<1>2. run[r] \in RunState /\ TransactionIsSound(r) /\ RunIsSound(r)
  BY RunsAreTyped DEF Inv, RunsAreSound
<1>3. to \in RunState
  BY <1>2 DEF RunState
<1>4. /\ to.phase = "store" /\ to.today = run[r].today /\ to.daily = run[r].daily
      /\ to.answered = run[r].answered \cap ok /\ to.todo = relevant
      /\ to.looked = run[r].looked /\ to.written = run[r].written /\ to.follows = run[r].follows
  BY <1>2 DEF RunState
<1>5. run[r].looked = None /\ run[r].written = {}
  BY <1>1, <1>2 DEF TransactionIsSound
<1> HIDE DEF to
<1>6. run'[r] = to /\ UNCHANGED <<now, expense, completed>>
  BY <1>1 DEF Steps, Goes, Inv, TypeOK
<1>7. StoredDay(r)' = StoredDay(r)
  BY <1>4, <1>6 DEF StoredDay
<1>8. TransactionIsSound(r)'
  BY <1>4, <1>5, <1>6, <1>7 DEF TransactionIsSound, StoredDay
<1>9. RunIsSound(r)'
  BY <1>1, <1>2, <1>4, <1>6 DEF RunIsSound, Covered
<1>10. QED
  BY <1>1, <1>3, <1>4, <1>7, <1>8, <1>9, WritersAreExcluded, StepsStaySound DEF Steps
\* The daily pass never skips a data source it accounts for.
LEMMA LookUpKeepsInv ==
  ASSUME Inv, NEW r \in Run, NEW k \in Datasource, LookUp(r, k)
  PROVE  Inv'
<1> DEFINE d == StoredDay(r)
           row == expense[<<k, d>>]
           skipped == run[r].daily /\ ~row.stored
           looked == IF skipped THEN None ELSE k
           loaded == IF skipped THEN NoRow ELSE row
           rest == run[r].todo \ {k}
           to == [run[r] EXCEPT !.todo = rest, !.looked = looked, !.loaded = loaded]
<1>1. Steps(r, to) /\ run[r].phase = "store" /\ run[r].looked = None /\ k \in run[r].todo
  BY DEF LookUp
<1>2. run[r] \in RunState /\ TransactionIsSound(r) /\ RunIsSound(r)
  BY RunsAreTyped DEF Inv, RunsAreSound
<1>3. d \in 0..LastDay /\ run[r].today \in 1..now
  BY <1>1, DayOfRun
<1>4. row \in Row /\ RowIsSound(row, k, d, now)
  BY <1>3, RowsAreSound
<1> HIDE DEF row, d
<1>5. looked \in Datasource \cup {None} /\ loaded \in Row /\ rest \subseteq Datasource
  BY <1>2, <1>4, RowsAreTyped DEF RunState
<1> HIDE DEF looked, loaded, rest
<1>6. to \in RunState
  BY <1>2, <1>5 DEF RunState
<1>7. /\ to.phase = "store" /\ to.today = run[r].today /\ to.daily = run[r].daily
      /\ to.answered = run[r].answered /\ to.todo = rest
      /\ to.looked = looked /\ to.loaded = loaded
      /\ to.written = run[r].written /\ to.follows = run[r].follows
  BY <1>1, <1>2, <1>5 DEF RunState
<1>8. to.pending = run[r].pending
  BY <1>2, <1>5 DEF RunState
<1> HIDE DEF to
<1>9. run'[r] = to /\ UNCHANGED <<now, expense, completed>>
  BY <1>1 DEF Steps, Goes, Inv, TypeOK
<1>10. StoredDay(r)' = d
  BY <1>7, <1>9 DEF StoredDay, d
<1>11. k # None
  BY ExpensesAssumption
<1>12. TransactionIsSound(r)'
  <2>1. run[r].daily => \A j \in (to.todo \cup {to.looked}) \ {None} : <<j, d>> \in Spends
    BY <1>1, <1>2, <1>7 DEF TransactionIsSound, d, rest, looked
  <2>2. to.looked # None => /\ RowIsSound(to.loaded, to.looked, d, now)
                            /\ to.daily => to.loaded.stored
                            /\ (to.loaded.expenses /\ now < d + Keep)
                                 => expense[<<to.looked, d>>].expenses
    BY <1>4, <1>7 DEF row, looked, loaded
  <2>3. \A j \in to.written : /\ to.pending[j].stored
                              /\ RowIsSound(to.pending[j], j, d, now)
                              /\ expense[<<j, d>>].expenses => to.pending[j].expenses
                              /\ to.daily /\ now < d + Keep => to.pending[j].expenses
    BY <1>2, <1>7, <1>8 DEF TransactionIsSound, d
  <2>4. QED
    BY <1>7, <1>9, <1>10, <2>1, <2>2, <2>3 DEF TransactionIsSound
<1>13. (/\ OrganizationOf[k] \in run[r].answered
        /\ run[r].daily => (/\ OrganizationOf[k] \in run[r].follows
                            /\ <<k, run[r].today - 1>> \in Spends
                            /\ now < run[r].today - 1 + Keep))
         => ~skipped
  <2>1. run[r].daily => d = run[r].today - 1
    BY DEF StoredDay, d
  <2>2. <<k, run[r].today - 1>> \in Spends => run[r].today - 1 \in Day
    BY ExpensesAssumption
  <2>3. OrganizationOf[k] \in run[r].follows
          => run[r].today - 1 \in completed[OrganizationOf[k]]
    BY <1>2 DEF RunIsSound
  <2>4. QED
    BY <2>1, <2>2, <2>3 DEF Inv, ConsecutiveRunsAccount, row
<1>14. RunIsSound(r)'
  <2> DEFINE done == (run[r].todo \ {k}) \cup {to.looked} \cup run[r].written
  <2>1. Covered(r)' = done
    BY <1>7, <1>9 DEF Covered, rest
  <2>2. \A j \in Datasource : j # k /\ j \in Covered(r) => j \in done
    BY <1>1, ExpensesAssumption DEF Covered
  <2>3. ~skipped => k \in done
    BY <1>7 DEF looked
  <2> HIDE DEF done, skipped
  <2>4. \A j \in Datasource : OrganizationOf[j] \in run[r].answered =>
          /\ ~run[r].daily => j \in done
          /\ (/\ run[r].daily
              /\ OrganizationOf[j] \in run[r].follows
              /\ <<j, run[r].today - 1>> \in Spends
              /\ now < run[r].today - 1 + Keep)
             => j \in done
    BY <1>1, <1>2, <1>13, <2>2, <2>3 DEF RunIsSound
  <2>5. QED
    BY <1>1, <1>2, <1>7, <1>9, <2>1, <2>4 DEF RunIsSound
<1>15. QED
  BY <1>1, <1>6, <1>7, <1>10, <1>12, <1>14, WritersAreExcluded, StepsStaySound DEF Steps, d

\* The row has not been deleted or inserted since the look-up: it was looked up if and only
\* if it is still there.
LEMMA SavedRow ==
  ASSUME Inv, NEW r \in Run, run[r].phase = "store", run[r].looked # None,
         NEW row, row = expense[<<run[r].looked, StoredDay(r)>>],
         row.created = run[r].loaded.created,
         NEW to, to = Flush(row, run[r].loaded, Assigned(r))
  PROVE  /\ run[r].looked \in Datasource /\ to \in Row /\ to.stored
         /\ RowIsSound(to, run[r].looked, StoredDay(r), now)
         /\ row.expenses => to.expenses
         /\ run[r].daily /\ now < StoredDay(r) + Keep => to.expenses
<1> DEFINE k == run[r].looked
           d == StoredDay(r)
           loaded == run[r].loaded
<1>1. TransactionIsSound(r) /\ k \in Datasource /\ loaded \in Row /\ run[r].daily \in BOOLEAN
  BY RunsAreTyped DEF Inv, RunsAreSound
<1>2. d \in 0..LastDay /\ d \in Nat /\ now \in Nat /\ run[r].today \in 1..now
  BY DayOfRun, DaysAreNaturals DEF Inv, TypeOK, Day
<1>3. row \in Row /\ RowIsSound(row, k, d, now)
  BY <1>1, <1>2, RowsAreSound
<1>4. /\ RowIsSound(loaded, k, d, now)
      /\ run[r].daily => loaded.stored /\ <<k, d>> \in Spends
      /\ (loaded.expenses /\ now < d + Keep) => row.expenses
  BY <1>1 DEF TransactionIsSound
<1>5. row.stored = loaded.stored
  BY <1>1, <1>2, <1>3, <1>4, RowsAreTyped DEF RowIsSound, Row
<1>6. CASE run[r].daily
  <2>1. d = run[r].today - 1 /\ d < now
    BY <1>2, <1>6 DEF StoredDay
  <2>2. /\ DOMAIN row = {"stored", "expenses", "created"}
        /\ Assigned(r) = [loaded EXCEPT !.expenses = TRUE]
        /\ loaded = [stored |-> loaded.stored, expenses |-> loaded.expenses,
                     created |-> loaded.created]
    BY <1>1, <1>3, <1>6 DEF Assigned, Row
  <2>3. to = [stored |-> row.stored, created |-> row.created,
              expenses |-> IF loaded.expenses THEN row.expenses ELSE TRUE]
    BY <1>1, <1>3, <2>2 DEF Flush, Row
  <2> HIDE DEF k, d, loaded
  <2>4. row.stored
    BY <1>4, <1>5, <1>6
  <2>5. to \in Row /\ to.stored /\ to.created = row.created /\ (row.expenses => to.expenses)
    <3>1. CASE loaded.expenses
      BY <1>3, <2>3, <2>4, <3>1 DEF Row
    <3>2. CASE ~loaded.expenses
      BY <1>3, <2>3, <2>4, <3>2 DEF Row
    <3>3. QED
      BY <3>1, <3>2
  <2>6. RowIsSound(to, k, d, now)
    BY <1>3, <1>4, <1>6, <2>1, <2>4, <2>5 DEF RowIsSound
  <2>7. now < d + Keep => to.expenses
    BY <1>4, <2>3, <2>4
  <2>8. QED
    BY <1>1, <2>5, <2>6, <2>7 DEF k, d
<1>7. CASE ~run[r].daily
  <2>1. d = run[r].today /\ d \in 1..now
    BY <1>2, <1>7 DEF StoredDay
  <2>2. to = [stored |-> TRUE, expenses |-> row.expenses,
              created |-> IF row.stored THEN row.created ELSE now]
    BY <1>1, <1>3, <1>4, <1>5, <1>7, RowsAreTyped DEF Assigned, Flush, Row, RowIsSound
  <2> HIDE DEF k, d, loaded
  <2>3. now \in 0..LastDay
    BY DaysAreNaturals DEF Inv, TypeOK
  <2>4. to \in Row /\ to.stored /\ (row.expenses => to.expenses)
    BY <1>3, <2>2, <2>3 DEF Row
  <2>5. RowIsSound(to, k, d, now)
    <3>1. row.stored => RowIsSound(to, k, d, now)
      BY <1>3, <2>1, <2>2 DEF RowIsSound
    <3>2. ~row.stored => ~row.expenses
      BY <1>3, RowsAreTyped DEF RowIsSound
    <3>3. ~row.stored => RowIsSound(to, k, d, now)
      BY <1>2, <2>1, <2>2, <3>2 DEF RowIsSound
    <3>4. QED
      BY <3>1, <3>3
  <2>6. QED
    BY <1>1, <1>7, <2>4, <2>5 DEF k, d
<1>8. QED
  BY <1>6, <1>7
\* A row that the daily pass writes is that of a data source that cost something.
LEMMA SaveKeepsInv ==
  ASSUME Inv, NEW r \in Run, Save(r)
  PROVE  Inv'
<1> DEFINE k == run[r].looked
           d == StoredDay(r)
           row == expense[<<k, d>>]
           pending == Flush(row, run[r].loaded, Assigned(r))
           to == [run[r] EXCEPT !.looked = None, !.loaded = NoRow, !.written = @ \cup {k},
                    !.pending[k] = pending]
<1>1. CASE row.created # run[r].loaded.created
  BY <1>1, RunStops DEF Save
<1>2. CASE row.created = run[r].loaded.created
  <2>1. Steps(r, to) /\ run[r].phase = "store" /\ k # None /\ ~Locked(r, k)
    BY <1>2 DEF Save
  <2>2. run[r] \in RunState /\ TransactionIsSound(r) /\ RunIsSound(r)
    BY RunsAreTyped DEF Inv, RunsAreSound
  <2>3. /\ k \in Datasource /\ pending \in Row /\ pending.stored
        /\ RowIsSound(pending, k, d, now)
        /\ row.expenses => pending.expenses
        /\ run[r].daily /\ now < d + Keep => pending.expenses
    BY <1>2, <2>1, SavedRow
  <2> HIDE DEF pending
  <2>4. to \in RunState
    BY <2>2, <2>3, RowsAreTyped DEF RunState
  <2>5. /\ to.phase = "store" /\ to.today = run[r].today /\ to.daily = run[r].daily
        /\ to.answered = run[r].answered /\ to.todo = run[r].todo /\ to.looked = None
        /\ to.written = run[r].written \cup {k} /\ to.follows = run[r].follows
    BY <2>1, <2>2 DEF RunState
  <2>6. \A j \in Datasource : to.pending[j] = IF j = k THEN pending ELSE run[r].pending[j]
    BY <2>2 DEF RunState
  <2> HIDE DEF to
  <2>7. run'[r] = to /\ UNCHANGED <<now, expense, completed>>
    BY <2>1 DEF Steps, Goes, Inv, TypeOK
  <2>8. StoredDay(r)' = d
    BY <2>5, <2>7 DEF StoredDay
  <2>9. TransactionIsSound(r)'
    <3>1. \A j \in run[r].written : /\ run[r].pending[j].stored
                                    /\ RowIsSound(run[r].pending[j], j, d, now)
                                    /\ expense[<<j, d>>].expenses => run[r].pending[j].expenses
                                    /\ run[r].daily /\ now < d + Keep
                                         => run[r].pending[j].expenses
      BY <2>2 DEF TransactionIsSound
    <3>2. run[r].written \subseteq Datasource
      BY <2>2 DEF RunState
    <3> HIDE DEF d
    <3>3. \A j \in to.written : /\ to.pending[j].stored
                                /\ RowIsSound(to.pending[j], j, d, now)
                                /\ expense[<<j, d>>].expenses => to.pending[j].expenses
                                /\ to.daily /\ now < d + Keep => to.pending[j].expenses
      BY <2>3, <2>5, <2>6, <3>1, <3>2
    <3>4. to.daily => \A j \in to.todo : <<j, d>> \in Spends
      <4>1. run[r].daily => \A j \in run[r].todo \ {None} : <<j, d>> \in Spends
        BY <2>2 DEF TransactionIsSound, d
      <4>2. None \notin run[r].todo
        BY <2>2, ExpensesAssumption DEF RunState
      <4>3. QED
        BY <2>5, <4>1, <4>2
    <3>5. QED
      BY <2>5, <2>7, <2>8, <3>3, <3>4 DEF TransactionIsSound
  <2>10. RunIsSound(r)'
    <3>1. Covered(r) \subseteq Covered(r)' \cup {None}
      BY <2>5, <2>7 DEF Covered
    <3>2. \A j \in Datasource : j \in Covered(r) => j \in Covered(r)'
      BY <3>1, ExpensesAssumption
    <3>3. QED
      BY <2>1, <2>2, <2>5, <2>7, <3>2 DEF RunIsSound
  <2>11. \A s \in Run \ {r} :
           StoredDay(s) = StoredDay(r)' => to.written \cap run[s].written = {}
    BY <2>1, <2>5, <2>8 DEF Locked, Inv, RunsAreSound
  <2>12. QED
    BY <2>1, <2>4, <2>9, <2>10, <2>11, StepsStaySound
<1>3. QED
  BY <1>1, <1>2
-----------------------------------------------------------------------------
(* Steps that change the table, or the day *)

\* No figure of a sound row is stored before its time.
LEMMA SoundRowsAreFinal ==
  ASSUME NEW t \in Nat, NEW table,
         \A k \in Datasource, d \in 0..LastDay : RowIsSound(table[<<k, d>>], k, d, t),
         NEW key \in Key, table[key].stored
  PROVE  key[2] \in 1..t /\ (table[key].expenses => (key[2] < t /\ key \in Spends))
<1>1. PICK k \in Datasource, d \in 0..LastDay : key = <<k, d>>
  BY DEF Key
<1>2. RowIsSound(table[key], k, d, t) /\ key[2] = d
  BY <1>1
<1>3. QED
  BY <1>1, <1>2 DEF RowIsSound

\* What such a step has to show.
LEMMA TableStepsStaySound ==
  ASSUME Inv, TableEvolves, TypeOK', ConsecutiveRunsAccount',
         \A r \in Run : TransactionIsSound(r)' /\ RunIsSound(r)',
         \A r, s \in Run : r # s /\ StoredDay(r)' = StoredDay(s)'
                             => run'[r].written \cap run'[s].written = {}
  PROVE  Inv'
<1>1. now' \in Nat
  BY DaysAreNaturals DEF TableEvolves
<1>2. \A k \in Datasource, d \in 0..LastDay : RowIsSound(expense'[<<k, d>>], k, d, now')
  BY DEF TableEvolves
<1>3. FiguresAreFinal'
  BY <1>1, <1>2, SoundRowsAreFinal DEF FiguresAreFinal
<1>4. \A key \in Key : \E k \in Datasource, d \in 0..LastDay :
        key = <<k, d>> /\ key[1] = k /\ key[2] = d
  BY DEF Key
<1>5. \A key \in Key : RowIsSound(expense'[key], key[1], key[2], now')
  BY <1>2, <1>4
<1>6. RunsAreSound'
  BY <1>5 DEF RunsAreSound
<1>7. QED
  BY <1>3, <1>6 DEF Inv

LEMMA NextDayKeepsInv ==
  ASSUME Inv, NextDay
  PROVE  Inv'
<1>1. now' \in Day /\ now <= now' /\ now \in Nat /\ now' = now + 1
      /\ UNCHANGED <<expense, run, completed, accounted>>
  BY DaysAreNaturals DEF Inv, TypeOK, Day, NextDay
<1>2. TableEvolves
  BY <1>1, SameTable
<1>3. TypeOK'
  BY <1>1 DEF Inv, TypeOK
<1>4. ConsecutiveRunsAccount'
  <2>1. \A d \in Day : now' < d + Keep => now < d + Keep
    BY <1>1, DaysAreNaturals
  <2>2. QED
    BY <1>1, <2>1 DEF Inv, ConsecutiveRunsAccount
<1>5. \A r \in Run : /\ TransactionIsSound(r)' /\ RunIsSound(r)'
                     /\ StoredDay(r)' = StoredDay(r) /\ run'[r] = run[r]
  BY <1>1, <1>2, OthersStaySound
<1>6. QED
  BY <1>2, <1>3, <1>4, <1>5, TableStepsStaySound DEF Inv, RunsAreSound

\* A row is obsolete when nobody is to rely on it any more.
LEMMA CleanUpKeepsInv ==
  ASSUME Inv, CleanUp
  PROVE  Inv'
<1>1. PICK rows \in SUBSET {key \in Key : Obsolete(expense[key])} :
        /\ UNCHANGED <<now, run, completed, accounted>>
        /\ expense' = [key \in Key |-> IF key \in rows THEN NoRow ELSE expense[key]]
  BY DEF CleanUp
<1>2. now \in Day /\ now' \in Day /\ now <= now' /\ now \in Nat /\ now' = now
  BY <1>1, DaysAreNaturals DEF Inv, TypeOK
<1>3. expense' \in [Key -> Row]
  BY <1>1, RowsAreTyped DEF Inv, TypeOK
<1>4. \A k \in Datasource, d \in 0..LastDay :
        /\ expense'[<<k, d>>] = expense[<<k, d>>] \/ expense'[<<k, d>>] = NoRow
        /\ now < d + Keep => expense'[<<k, d>>] = expense[<<k, d>>]
        /\ RowIsSound(expense'[<<k, d>>], k, d, now)
  <2> TAKE k \in Datasource, d \in 0..LastDay
  <2>1. /\ <<k, d>> \in Key /\ expense[<<k, d>>] \in Row
        /\ RowIsSound(expense[<<k, d>>], k, d, now)
    BY RowsAreSound
  <2>2. /\ expense'[<<k, d>>] = IF <<k, d>> \in rows THEN NoRow ELSE expense[<<k, d>>]
        /\ <<k, d>> \in rows => Obsolete(expense[<<k, d>>])
    BY <1>1, <2>1
  <2>3. d \in Nat /\ expense[<<k, d>>].created \in Nat
    BY <2>1, DaysAreNaturals DEF Row
  <2>4. Obsolete(expense[<<k, d>>]) => ~(now < d + Keep)
    BY <1>2, <2>1, <2>3, DaysAreNaturals DEF Obsolete, RowIsSound
  <2>5. RowIsSound(NoRow, k, d, now)
    BY RowsAreTyped DEF RowIsSound
  <2>6. QED
    BY <2>1, <2>2, <2>4, <2>5
<1>5. TableEvolves
  BY <1>1, <1>2, <1>3, <1>4 DEF TableEvolves, Inv, TypeOK
<1>6. TypeOK'
  BY <1>1, <1>3 DEF Inv, TypeOK
<1>7. ConsecutiveRunsAccount'
  BY <1>1, <1>4, DaysAreNaturals DEF Inv, ConsecutiveRunsAccount
<1>8. \A r \in Run : /\ TransactionIsSound(r)' /\ RunIsSound(r)'
                     /\ StoredDay(r)' = StoredDay(r) /\ run'[r] = run[r]
  <2> TAKE r \in Run
  <2>1. CASE run[r].phase = "idle"
    <3>1. run[r].written = {}
      BY <2>1 DEF Inv, RunsAreSound, TransactionIsSound
    <3>2. QED
      BY <1>1, <1>5, <3>1, OthersStaySound
  <2>2. CASE run[r].phase # "idle"
    <3>1. StoredDay(r) \in 0..LastDay /\ run[r].written \subseteq Datasource
      BY <2>2, DayOfRun, RunsAreTyped DEF Inv
    <3>2. \A j \in run[r].written :
            expense'[<<j, StoredDay(r)>>].expenses => expense[<<j, StoredDay(r)>>].expenses
      BY <1>4, <3>1, RowsAreTyped
    <3>3. QED
      BY <1>1, <1>5, <3>2, OthersStaySound
  <2>3. QED
    BY <2>1, <2>2
<1>9. QED
  BY <1>5, <1>6, <1>7, <1>8, TableStepsStaySound DEF Inv, RunsAreSound
-----------------------------------------------------------------------------
(* Commits *)

\* A commit replaces rows of one day, and takes no expense back.
LEMMA CommitEvolves ==
  ASSUME Inv, NEW r \in Run, Commits(r), completed' \in [Organization -> SUBSET Day],
         \A o \in Organization : completed[o] \subseteq completed'[o]
  PROVE  /\ run[r].phase = "store" /\ StoredDay(r) \in 0..LastDay
         /\ TableEvolves /\ now' = now
         /\ \A k \in Datasource : k \in Covered(r) =>
              /\ k \in run[r].written
              /\ expense'[<<k, StoredDay(r)>>] = run[r].pending[k]
              /\ expense'[<<k, StoredDay(r)>>].stored
         /\ \A s \in Run \ {r} : \A j \in run[s].written :
              expense'[<<j, StoredDay(s)>>].expenses => expense[<<j, StoredDay(s)>>].expenses
<1> DEFINE d == StoredDay(r)
           written == run[r].written
           pending == run[r].pending
<1>1. /\ run[r].phase = "store" /\ run[r].todo = {} /\ run[r].looked = None
      /\ expense' = [key \in Key |-> IF key[1] \in written /\ key[2] = d
                                     THEN pending[key[1]] ELSE expense[key]]
      /\ now' = now
  BY DEF Commits
<1>2. d \in 0..LastDay
  BY <1>1, DayOfRun
<1>3. \A k \in Datasource, e \in 0..LastDay :
        /\ <<k, e>> \in Key /\ expense[<<k, e>>] \in Row
        /\ RowIsSound(expense[<<k, e>>], k, e, now)
  BY RowsAreSound
<1>4. /\ written \subseteq Datasource /\ pending \in [Datasource -> Row]
      /\ \A j \in written : /\ pending[j].stored
                            /\ RowIsSound(pending[j], j, d, now)
                            /\ expense[<<j, d>>].expenses => pending[j].expenses
  BY RunsAreTyped DEF Inv, RunsAreSound, TransactionIsSound
<1>5. \A s \in Run \ {r} : StoredDay(s) = d => written \cap run[s].written = {}
  BY DEF Inv, RunsAreSound
<1>6. now \in Day /\ now <= now'
  BY <1>1, DaysAreNaturals DEF Inv, TypeOK
<1>7. \A k \in Datasource : k \in Covered(r) => k \in written
  BY <1>1, ExpensesAssumption DEF Covered
<1> HIDE DEF d, written, pending
<1>8. \A k \in Datasource, e \in 0..LastDay :
        expense'[<<k, e>>] = IF k \in written /\ e = d THEN pending[k] ELSE expense[<<k, e>>]
  BY <1>1, <1>3
<1>9. expense' \in [Key -> Row]
  <2>1. \A key \in Key : key[1] \in Datasource /\ expense[key] \in Row
    BY DEF Key, Inv, TypeOK
  <2>2. QED
    BY <1>1, <1>4, <2>1
<1>10. TableEvolves
  BY <1>1, <1>3, <1>4, <1>6, <1>8, <1>9 DEF TableEvolves
<1>11. \A s \in Run \ {r} : \A j \in run[s].written :
         expense'[<<j, StoredDay(s)>>].expenses => expense[<<j, StoredDay(s)>>].expenses
  <2> TAKE s \in Run \ {r}
  <2>1. CASE run[s].phase = "idle"
    BY <2>1 DEF Inv, RunsAreSound, TransactionIsSound
  <2>2. CASE run[s].phase # "idle"
    <3>1. StoredDay(s) \in 0..LastDay /\ run[s].written \subseteq Datasource
      BY <2>2, DayOfRun, RunsAreTyped DEF Inv
    <3>2. QED
      BY <1>5, <1>8, <3>1
  <2>3. QED
    BY <2>1, <2>2
<1>12. QED
  BY <1>1, <1>2, <1>4, <1>7, <1>8, <1>10, <1>11 DEF d, written, pending

\* When all runs are sound, and only r has moved, to a state without writes.
LEMMA CommitsStaySound ==
  ASSUME Inv, NEW r \in Run, Commits(r), NEW to \in RunState, Goes(r, to), to.written = {},
         TransactionIsSound(r)', RunIsSound(r)', ConsecutiveRunsAccount',
         completed' \in [Organization -> SUBSET Day],
         accounted' \in [Organization -> SUBSET (0..LastDay)],
         \A o \in Organization : completed[o] \subseteq completed'[o]
  PROVE  Inv'
<1>1. /\ TableEvolves
      /\ \A s \in Run \ {r} : \A j \in run[s].written :
           expense'[<<j, StoredDay(s)>>].expenses => expense[<<j, StoredDay(s)>>].expenses
  BY CommitEvolves
<1>2. /\ run' \in [Run -> RunState] /\ run'[r] = to
      /\ \A s \in Run \ {r} : run'[s] = run[s]
  BY DEF Goes, Inv, TypeOK
<1>3. \A s \in Run \ {r} :
        TransactionIsSound(s)' /\ RunIsSound(s)' /\ StoredDay(s)' = StoredDay(s)
  BY <1>1, <1>2, OthersStaySound
<1>4. \A s, t \in Run : s # t /\ StoredDay(s)' = StoredDay(t)'
                          => run'[s].written \cap run'[t].written = {}
  BY <1>2, <1>3 DEF Inv, RunsAreSound
<1>5. TypeOK'
  BY <1>1, <1>2 DEF TypeOK, TableEvolves
<1>6. QED
  BY <1>1, <1>3, <1>4, <1>5, TableStepsStaySound

LEMMA CommitMonthlyKeepsInv ==
  ASSUME Inv, NEW r \in Run, CommitMonthly(r)
  PROVE  Inv'
<1> DEFINE to == [run[r] EXCEPT !.phase = "fetch", !.daily = TRUE, !.written = {},
                                !.pending = Idle.pending]
<1>1. Commits(r) /\ Goes(r, to) /\ ~run[r].daily /\ UNCHANGED <<completed, accounted>>
  BY DEF CommitMonthly
<1>2. /\ completed' \in [Organization -> SUBSET Day]
      /\ accounted' \in [Organization -> SUBSET (0..LastDay)]
      /\ \A o \in Organization : completed[o] \subseteq completed'[o]
  BY <1>1 DEF Inv, TypeOK
<1>3. /\ run[r].phase = "store" /\ TableEvolves /\ now' = now
      /\ \A k \in Datasource : k \in Covered(r) => expense'[<<k, StoredDay(r)>>].stored
  BY <1>1, <1>2, CommitEvolves
<1>4. run[r] \in RunState /\ RunIsSound(r) /\ run[r].todo = {} /\ run[r].looked = None
  BY <1>1, RunsAreTyped DEF Inv, RunsAreSound, Commits
<1>5. to \in RunState
  BY <1>4, RowsAreTyped DEF RunState
<1>6. /\ to.phase = "fetch" /\ to.today = run[r].today /\ to.daily
      /\ to.answered = run[r].answered /\ to.todo = {} /\ to.looked = None
      /\ to.written = {} /\ to.follows = run[r].follows
  BY <1>4 DEF RunState
<1> HIDE DEF to
<1>7. run'[r] = to
  BY <1>1 DEF Goes, Inv, TypeOK
<1>8. TransactionIsSound(r)'
  BY <1>6, <1>7 DEF TransactionIsSound
<1>9. RunIsSound(r)'
  <2>1. StoredDay(r) = run[r].today
    BY <1>1 DEF StoredDay
  <2>2. \A k \in Datasource : OrganizationOf[k] \in run[r].answered =>
          expense'[<<k, run[r].today>>].stored
    BY <1>1, <1>3, <1>4, <2>1 DEF RunIsSound
  <2>3. QED
    BY <1>1, <1>3, <1>4, <1>6, <1>7, <2>2 DEF RunIsSound
<1>10. ConsecutiveRunsAccount'
  BY <1>1, <1>3, DaysAreNaturals DEF ConsecutiveRunsAccount, Inv, TableEvolves
<1>11. QED
  BY <1>1, <1>2, <1>5, <1>6, <1>8, <1>9, <1>10, CommitsStaySound

\* What a run has done when it is over.
LEMMA CommitDailyKeepsInv ==
  ASSUME Inv, NEW r \in Run, CommitDaily(r)
  PROVE  Inv'
<1> DEFINE d == run[r].today - 1
<1>1. /\ Commits(r) /\ Goes(r, Idle) /\ run[r].daily /\ StoredDay(r) = d
      /\ completed' = [o \in Organization |->
           IF o \in run[r].answered THEN completed[o] \cup {run[r].today} ELSE completed[o]]
      /\ accounted' = [o \in Organization |->
           IF o \in run[r].answered \cap run[r].follows
           THEN accounted[o] \cup {d} ELSE accounted[o]]
  BY DEF CommitDaily, StoredDay
<1>2. run[r].phase # "idle" /\ TransactionIsSound(r) /\ RunIsSound(r)
  BY <1>1 DEF Commits, Inv, RunsAreSound
<1>3. run[r].today \in Day /\ run[r].today \in 0..LastDay /\ d \in 0..LastDay
  BY <1>1, <1>2, DayOfRun, DaysAreNaturals
<1> HIDE DEF d
<1>4. /\ completed' \in [Organization -> SUBSET Day]
      /\ accounted' \in [Organization -> SUBSET (0..LastDay)]
      /\ \A o \in Organization : completed[o] \subseteq completed'[o]
  BY <1>1, <1>3 DEF Inv, TypeOK
<1>5. /\ run[r].phase = "store" /\ TableEvolves /\ now' = now
      /\ \A k \in Datasource : k \in Covered(r) =>
           k \in run[r].written /\ expense'[<<k, d>>] = run[r].pending[k]
  BY <1>1, <1>4, CommitEvolves
<1>6. run'[r] = Idle
  BY <1>1 DEF Goes, Inv, TypeOK
<1>7. TransactionIsSound(r)' /\ RunIsSound(r)'
  BY <1>6, RowsAreTyped DEF TransactionIsSound, RunIsSound
<1>8. ConsecutiveRunsAccount'
  <2> SUFFICES ASSUME NEW k \in Datasource, NEW e \in Day, now < e + Keep
               PROVE  /\ e \in completed'[OrganizationOf[k]] => expense'[<<k, e>>].stored
                      /\ e \in accounted'[OrganizationOf[k]] /\ <<k, e>> \in Spends
                           => expense'[<<k, e>>].expenses
    BY <1>5 DEF ConsecutiveRunsAccount
  <2>1. OrganizationOf[k] \in Organization /\ e \in 0..LastDay
    BY ExpensesAssumption, DaysAreNaturals
  <2>2. /\ expense[<<k, e>>].stored => expense'[<<k, e>>].stored
        /\ expense[<<k, e>>].expenses => expense'[<<k, e>>].expenses
    BY <1>5, <2>1 DEF TableEvolves
  <2>3. /\ e \in completed[OrganizationOf[k]] => expense[<<k, e>>].stored
        /\ e \in accounted[OrganizationOf[k]] /\ <<k, e>> \in Spends
             => expense[<<k, e>>].expenses
    BY DEF Inv, ConsecutiveRunsAccount
  <2>4. OrganizationOf[k] \in run[r].answered /\ e = run[r].today => expense[<<k, e>>].stored
    BY <1>1, <1>2 DEF RunIsSound
  <2>5. (OrganizationOf[k] \in run[r].answered \cap run[r].follows /\ e = d /\ <<k, e>> \in Spends)
          => expense'[<<k, e>>].expenses
    <3>1. (OrganizationOf[k] \in run[r].answered \cap run[r].follows /\ e = d
             /\ <<k, e>> \in Spends) => k \in Covered(r)
      BY <1>1, <1>2, <1>5 DEF RunIsSound, d
    <3>2. k \in run[r].written /\ e = d => run[r].pending[k].expenses
      BY <1>1, <1>2 DEF TransactionIsSound
    <3>3. QED
      BY <1>5, <3>1, <3>2
  <2>6. QED
    BY <1>1, <2>1, <2>2, <2>3, <2>4, <2>5
<1>9. QED
  BY <1>1, <1>4, <1>7, <1>8, RowsAreTyped, CommitsStaySound

-----------------------------------------------------------------------------
(* The invariant *)

LEMMA InitInv == Init => Inv
<1> SUFFICES ASSUME Init PROVE Inv
  OBVIOUS
<1>1. TypeOK
  BY DaysAreNaturals, RowsAreTyped DEF Init, TypeOK
<1>2. \A r \in Run : run[r] = Idle
  BY DEF Init
<1>3. \A key \in Key : expense[key] = NoRow
  BY DEF Init
<1>4. ConsecutiveRunsAccount
  BY ExpensesAssumption DEF Init, ConsecutiveRunsAccount
<1>5. FiguresAreFinal
  BY <1>3, RowsAreTyped DEF FiguresAreFinal
<1>6. RunsAreSound
  BY <1>2, <1>3, RowsAreTyped DEF RunsAreSound, RowIsSound, TransactionIsSound, RunIsSound
<1>7. QED
  BY <1>1, <1>4, <1>5, <1>6 DEF Inv

LEMMA NextKeepsInv == Inv /\ [Next]_vars => Inv'
<1> SUFFICES ASSUME Inv, [Next]_vars PROVE Inv'
  OBVIOUS
<1>1. ASSUME NEW r \in Run, NEW scope \in {Organization} \cup {{o} : o \in Organization},
             Start(r, scope)
      PROVE  Inv'
  BY <1>1, StartKeepsInv
<1>2. ASSUME NEW r \in Run, NEW ok \in SUBSET Organization, Fetch(r, ok) PROVE Inv'
  BY <1>2, FetchKeepsInv
<1>3. ASSUME NEW r \in Run, NEW k \in Datasource, LookUp(r, k) PROVE Inv'
  BY <1>3, LookUpKeepsInv
<1>4. ASSUME NEW r \in Run, Save(r) PROVE Inv'
  BY <1>4, SaveKeepsInv
<1>5. ASSUME NEW r \in Run, CommitMonthly(r) PROVE Inv'
  BY <1>5, CommitMonthlyKeepsInv
<1>6. ASSUME NEW r \in Run, CommitDaily(r) PROVE Inv'
  BY <1>6, CommitDailyKeepsInv
<1>7. ASSUME NEW r \in Run, RunFails(r) PROVE Inv'
  BY <1>7, RunStops DEF RunFails
<1>8. CASE UNCHANGED vars
  BY <1>8 DEF vars, Inv, TypeOK, ConsecutiveRunsAccount, FiguresAreFinal, RunsAreSound,
              TransactionIsSound, RunIsSound, StoredDay, Covered
<1>9. QED
  BY <1>1, <1>2, <1>3, <1>4, <1>5, <1>6, <1>7, <1>8, NextDayKeepsInv, CleanUpKeepsInv DEF Next

LEMMA Invariance == Spec => []Inv
BY InitInv, NextKeepsInv, PTL DEF Spec
-----------------------------------------------------------------------------
(* Theorems *)

\* Every state is of the declared types: the days of rows, runs and records of what was
\* completed never leave the period.
THEOREM Typing == Spec => []TypeOK
BY Invariance, PTL DEF Inv

\* When the runs of two consecutive days were completed one after the other, the table has
\* the cost of the first day for every data source that had one, whatever overlapped.
THEOREM DaysAreAccounted == Spec => []ConsecutiveRunsAccount
BY Invariance, PTL DEF Inv

\* The cost of a day is stored only when that day is over, and only where there was one.
THEOREM NothingIsStoredEarly == Spec => []FiguresAreFinal
BY Invariance, PTL DEF Inv

\* The cost of a day, once stored, goes only with an obsolete row: no run that looked the
\* row up before takes it back.
THEOREM NoRunTakesExpensesBack == Spec => ExpensesAreKept
<1> DEFINE Kept == \A key \in Key :
             expense[key].expenses => expense'[key].expenses \/ Obsolete(expense[key])
<1>1. Inv /\ [Next]_vars => Kept
  <2> SUFFICES ASSUME Inv, [Next]_vars PROVE Kept
    OBVIOUS
  <2>1. UNCHANGED expense => Kept
    OBVIOUS
  <2>2. ASSUME NEW r \in Run, Commits(r) PROVE Kept
    <3>1. expense' = [key \in Key |-> IF key[1] \in run[r].written /\ key[2] = StoredDay(r)
                                      THEN run[r].pending[key[1]] ELSE expense[key]]
      BY <2>2 DEF Commits
    <3>2. \A j \in run[r].written :
            expense[<<j, StoredDay(r)>>].expenses => run[r].pending[j].expenses
      BY DEF Inv, RunsAreSound, TransactionIsSound
    <3>3. \A key \in Key : key = <<key[1], key[2]>>
      BY DEF Key
    <3>4. QED
      BY <3>1, <3>2, <3>3
  <2>3. CleanUp => Kept
    BY DEF CleanUp
  <2>4. QED
    BY <2>1, <2>2, <2>3
       DEF Next, Start, Fetch, LookUp, Save, CommitMonthly, CommitDaily, RunFails, Steps,
           NextDay, vars
<1>2. QED
  BY <1>1, Invariance, PTL DEF Spec, ExpensesAreKept

\* What the sessions of overlapping runs hold is sound: no two have written one row, what
\* they will commit has the costs that are in the table, and they leave nothing out.
THEOREM SessionsAreSound == Spec => []RunsAreSound
BY Invariance, PTL DEF Inv

=============================================================================
