------------------------ MODULE MCDatasourceExpenses ------------------------
(***************************************************************************)
(* DatasourceExpenses for TLC: two data sources, one of which costs        *)
(* nothing on the first day, and runs that take no longer than a day.      *)
(***************************************************************************)
EXTENDS DatasourceExpenses, TLC

CONSTANTS o1, k1, k2, run1, run2

MCOrganizationOf == [k \in Datasource |-> o1]

MCSpends == {<<k1, 1>>, <<k1, 2>>, <<k2, 2>>}

Brisk == \A r \in Run : run[r].phase # "idle" => now - run[r].today <= 1

Interchangeable == Permutations(Run)

=============================================================================
