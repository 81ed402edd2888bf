------------------------- MODULE DatasourceExpenses -------------------------
(***************************************************************************)
(* The fetch_datasource_expenses command stores, for every data source and *)
(* day, what the month has cost so far and, one day later, what that day   *)
(* alone has cost.  It is started every day for all organizations, may be  *)
(* started by hand for one, and may fail anywhere, overlap another run or  *)
(* take longer than the day.  The cleanup_obsolete_datasource_expenses     *)
(* command deletes old rows.                                               *)
(*                                                                         *)
(* A run has two passes, monthly and daily, each with one transaction: a   *)
(* row is looked up, inserted or updated, and stays locked until the       *)
(* commit.  Of the amounts, only whether the cost of the day has been      *)
(* stored is kept: totals are replaced by newer totals.                    *)
(***************************************************************************)
EXTENDS OrmSession, Naturals

CONSTANTS
  Organization,   \* linked organizations that are not deleted
  Datasource,     \* data sources that are no containers
  OrganizationOf, \* the organization of each data source
  Spends,         \* pairs of a data source and a day on which it costs something
  Run,            \* slots for runs that overlap
  LastDay,        \* bound on the days that pass
  Keep,           \* days for which a row is kept, to the second (months, in the settings)
  None

Day == 1..LastDay

ASSUME ExpensesAssumption ==
  /\ LastDay \in Nat \ {0} /\ Keep \in Nat \ {0}
  /\ OrganizationOf \in [Datasource -> Organization]
  /\ Spends \subseteq Datasource \X Day
  /\ None \notin Datasource

VARIABLES
  now,        \* today
  expense,    \* the committed datasource_expenses table
  run,        \* what each run in progress holds
  completed,  \* days on which a run did everything for an organization
  accounted   \* days on which one did, and another on the day after, later

vars == <<now, expense, run, completed, accounted>>

-----------------------------------------------------------------------------
(* Rows, by data source and day: the unique constraint *)

\* stored: there is one, with a total; expenses: the cost of the day has been stored too.
Row == [stored: BOOLEAN, expenses: BOOLEAN, created: 0..LastDay]

NoRow == [stored |-> FALSE, expenses |-> FALSE, created |-> 0]

Key == Datasource \X (0..LastDay)

\* daily: in the second pass; answered: organizations of scope Optscale has always answered
\* about; todo, looked, loaded, written, pending: the transaction; follows: organizations
\* for which the run of the day before was over when this one started.
RunState == [phase: {"idle", "fetch", "store"}, daily: BOOLEAN, today: 0..LastDay,
             scope: SUBSET Organization, answered: SUBSET Organization,
             todo: SUBSET Datasource, looked: Datasource \cup {None},
             loaded: Row, written: SUBSET Datasource, pending: [Datasource -> Row],
             follows: SUBSET Organization]

Idle == [phase |-> "idle", daily |-> FALSE, today |-> 0, scope |-> {}, answered |-> {},
         todo |-> {}, looked |-> None, loaded |-> NoRow, written |-> {},
         pending |-> [k \in Datasource |-> NoRow], follows |-> {}]

TypeOK ==
  /\ now \in Day
  /\ expense \in [Key -> Row]
  /\ run \in [Run -> RunState]
  /\ completed \in [Organization -> SUBSET Day]
  /\ accounted \in [Organization -> SUBSET (0..LastDay)]

Init ==
  /\ now = 1
  /\ expense = [key \in Key |-> NoRow]
  /\ run = [r \in Run |-> Idle]
  /\ completed = [o \in Organization |-> {}]
  /\ accounted = [o \in Organization |-> {}]

-----------------------------------------------------------------------------
(* A run *)

Goes(r, to) == run' = [run EXCEPT ![r] = to]

\* Only the run itself changes: it is over, or goes on.
Steps(r, to) == Goes(r, to) /\ UNCHANGED <<now, expense, completed, accounted>>

\* Mutant: the daily pass stores under the day of the run.
SameDay(r) == run[r].today

\* The day whose rows the pass stores.
StoredDay(r) == IF run[r].daily THEN run[r].today - 1 ELSE run[r].today

\* Another run has written the row of k that r is about to write, and not committed.
Locked(r, k) ==
  \E s \in Run \ {r} : k \in run[s].written /\ StoredDay(s) = StoredDay(r)

\* For all organizations, or by hand for one.
Start(r, scope) ==
  /\ run[r].phase = "idle"
  /\ Steps(r, [Idle EXCEPT !.phase = "fetch", !.today = now, !.scope = scope, !.answered = scope,
                 !.follows = {o \in scope : now - 1 \in completed[o]}])

\* Optscale is asked about one organization after the other; where it fails there is
\* nothing to store.  Its breakdown of a day has the data sources that cost something.
Fetch(r, ok) ==
  LET relevant == {k \in Datasource :
        /\ OrganizationOf[k] \in ok
        /\ run[r].daily => <<k, run[r].today - 1>> \in Spends}
  IN
  /\ run[r].phase = "fetch"
  /\ ok \subseteq run[r].scope
  /\ Steps(r, [run[r] EXCEPT !.phase = "store", !.answered = @ \cap ok, !.todo = relevant])

\* The daily pass skips a data source without a row.
LookUp(r, k) ==
  LET row == expense[<<k, StoredDay(r)>>]
      skipped == run[r].daily /\ ~row.stored
  IN
  /\ run[r].phase = "store"
  /\ run[r].looked = None
  /\ k \in run[r].todo
  /\ Steps(r, [run[r] EXCEPT !.todo = @ \ {k}, !.looked = IF skipped THEN None ELSE k,
                 !.loaded = IF skipped THEN NoRow ELSE row])

\* Mutant: the date of expiry in place of that of creation.
AssignedExpiry(r) ==
  [run[r].loaded EXCEPT !.stored = TRUE, !.expenses = run[r].daily, !.created = now + Keep]

Assigned(r) ==
  IF run[r].daily
  THEN [run[r].loaded EXCEPT !.expenses = TRUE]
  ELSE [run[r].loaded EXCEPT !.stored = TRUE,
                             !.created = IF run[r].loaded.stored THEN @ ELSE now]

\* Mutant: the update writes all columns.
SaveWholeRow(r) ==
  LET k == run[r].looked
      row == expense[<<k, StoredDay(r)>>]
  IN
  /\ run[r].phase = "store"
  /\ k # None
  /\ ~Locked(r, k)
  /\ IF row.created # run[r].loaded.created
     THEN Steps(r, Idle)
     ELSE Steps(r, [run[r] EXCEPT !.looked = None, !.loaded = NoRow, !.written = @ \cup {k},
                      !.pending[k] = Assigned(r)])

\* The insert or update waits for other writers of the row.  The constraint fails the whole
\* run when somebody has inserted the row since the look-up; so does an update that finds the
\* row deleted, even if there is a new one: created tells them apart.
Save(r) ==
  LET k == run[r].looked
      row == expense[<<k, StoredDay(r)>>]
  IN
  /\ run[r].phase = "store"
  /\ k # None
  /\ ~Locked(r, k)
  /\ IF row.created # run[r].loaded.created
     THEN Steps(r, Idle)
     ELSE Steps(r, [run[r] EXCEPT !.looked = None, !.loaded = NoRow, !.written = @ \cup {k},
                      !.pending[k] = Flush(row, run[r].loaded, Assigned(r))])

Commits(r) ==
  /\ run[r].phase = "store"
  /\ run[r].todo = {} /\ run[r].looked = None
  /\ expense' = [key \in Key |-> IF key[1] \in run[r].written /\ key[2] = StoredDay(r)
                                 THEN run[r].pending[key[1]] ELSE expense[key]]
  /\ UNCHANGED now

CommitMonthly(r) ==
  /\ ~run[r].daily
  /\ Commits(r)
  /\ Goes(r, [run[r] EXCEPT !.phase = "fetch", !.daily = TRUE, !.written = {},
                            !.pending = Idle.pending])
  /\ UNCHANGED <<completed, accounted>>

CommitDaily(r) ==
  /\ run[r].daily
  /\ Commits(r)
  /\ Goes(r, Idle)
  /\ completed' = [o \in Organization |->
       IF o \in run[r].answered THEN completed[o] \cup {run[r].today} ELSE completed[o]]
  /\ accounted' = [o \in Organization |->
       IF o \in run[r].answered \cap run[r].follows
       THEN accounted[o] \cup {run[r].today - 1} ELSE accounted[o]]

\* An exception, a dead process, the victim of a deadlock with a run that takes the
\* organizations in another order.
RunFails(r) ==
  /\ run[r].phase # "idle"
  /\ Steps(r, Idle)

-----------------------------------------------------------------------------

NextDay ==
  /\ now < LastDay
  /\ now' = now + 1
  /\ UNCHANGED <<expense, run, completed, accounted>>

\* Mutant: days are counted the wrong way.
ObsoleteToday(row) == row.stored /\ row.created < now

\* The threshold has passed the moment at which the row was created, or does so today.
Obsolete(row) == row.stored /\ row.created + Keep <= now

\* Which of the rows whose moment comes today have had it is left open.
CleanUp ==
  \E rows \in SUBSET {key \in Key : Obsolete(expense[key])} :
    /\ rows # {}
    /\ \A key \in Key : expense[key].stored /\ expense[key].created + Keep < now => key \in rows
    /\ \A r \in Run : \A k \in run[r].written : <<k, StoredDay(r)>> \notin rows
    /\ expense' = [key \in Key |-> IF key \in rows THEN NoRow ELSE expense[key]]
    /\ UNCHANGED <<now, run, completed, accounted>>

Next ==
  \/ \E r \in Run :
       \/ \E scope \in {Organization} \cup {{o} : o \in Organization} : Start(r, scope)
       \/ \E ok \in SUBSET Organization : Fetch(r, ok)
       \/ \E k \in Datasource : LookUp(r, k)
       \/ Save(r) \/ CommitMonthly(r) \/ CommitDaily(r) \/ RunFails(r)
  \/ NextDay
  \/ CleanUp

Spec == Init /\ [][Next]_vars

-----------------------------------------------------------------------------
(* Safety *)

\* When the runs of two consecutive days were completed one after the other, every data
\* source of the organization has a row for the first day, with the cost of that day if it
\* had one, whatever other runs did meanwhile; until the clean-up.
ConsecutiveRunsAccount ==
  \A k \in Datasource, d \in Day : now < d + Keep =>
    /\ d \in completed[OrganizationOf[k]] => expense[<<k, d>>].stored
    /\ d \in accounted[OrganizationOf[k]] /\ <<k, d>> \in Spends => expense[<<k, d>>].expenses

\* No figure is stored before its time: the cost of a day only when that day is over.
FiguresAreFinal ==
  \A key \in Key : expense[key].stored =>
    /\ key[2] \in 1..now
    /\ expense[key].expenses => key[2] < now /\ key \in Spends

\* Only the clean-up takes back the cost of a day: not a run that looked the row up before
\* it was stored, and stores its total afterwards.
ExpensesAreKept ==
  [][\A key \in Key :
       expense[key].expenses => expense'[key].expenses \/ Obsolete(expense[key])]_vars

-----------------------------------------------------------------------------
(* What sessions hold *)

\* A row of data source k for day d, or none, at the date of today.
RowIsSound(row, k, d, today) ==
  IF row.stored
  THEN /\ d \in 1..today /\ row.created \in d..today
       /\ row.expenses => (d < today /\ <<k, d>> \in Spends)
  ELSE row = NoRow

\* What the transaction of a run has looked up and written.  An expense that is in the table
\* is in what will replace it, and a row that is not obsolete is not lost in between.
TransactionIsSound(r) ==
  LET q == run[r]
      d == StoredDay(r)
      k == q.looked
  IN
  /\ q.phase # "store" => (q.todo = {} /\ k = None /\ q.written = {})
  /\ q.daily => \A j \in (q.todo \cup {k}) \ {None} : <<j, d>> \in Spends
  /\ k # None => /\ RowIsSound(q.loaded, k, d, now)
                 /\ q.daily => q.loaded.stored
                 /\ (q.loaded.expenses /\ now < d + Keep) => expense[<<k, d>>].expenses
  /\ \A j \in q.written : /\ q.pending[j].stored
                          /\ RowIsSound(q.pending[j], j, d, now)
                          /\ expense[<<j, d>>].expenses => q.pending[j].expenses
                          /\ (q.daily /\ now < d + Keep) => q.pending[j].expenses

\* The data sources a pass is not done with, or has written.
Covered(r) == run[r].todo \cup {run[r].looked} \cup run[r].written

\* What a run accounts for when it commits: all data sources of the organizations that
\* answered, in the daily pass those which have a row since the day before.
RunIsSound(r) ==
  LET q == run[r] IN
  /\ q.phase = "idle" => q = Idle
  /\ q.phase # "idle" => q.today \in 1..now
  /\ \A o \in q.follows : q.today - 1 \in completed[o]
  /\ \A k \in Datasource : OrganizationOf[k] \in q.answered =>
       /\ (q.phase = "store" /\ ~q.daily) => k \in Covered(r)
       /\ (q.daily /\ now < q.today + Keep) => expense[<<k, q.today>>].stored
       /\ (/\ q.phase = "store" /\ q.daily
           /\ OrganizationOf[k] \in q.follows
           /\ <<k, q.today - 1>> \in Spends
           /\ now < q.today - 1 + Keep)
          => k \in Covered(r)

\* With TypeOK and the two invariants above, inductive.
RunsAreSound ==
  /\ \A key \in Key : RowIsSound(expense[key], key[1], key[2], now)
  /\ \A r \in Run : TransactionIsSound(r) /\ RunIsSound(r)
  /\ \A r, s \in Run :
       r # s /\ StoredDay(r) = StoredDay(s) => run[r].written \cap run[s].written = {}

=============================================================================
