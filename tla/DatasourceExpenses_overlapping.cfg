\* two runs that may overlap over three days
SPECIFICATION Spec
CONSTANTS
  o1 = o1
  k1 = k1
  k2 = k2
  run1 = run1
  run2 = run2
  None = None
  Organization = {o1}
  Datasource = {k1, k2}
  OrganizationOf <- MCOrganizationOf
  Spends <- MCSpends
  Run = {run1, run2}
  LastDay = 3
  Keep = 2
CONSTRAINT Brisk
SYMMETRY Interchangeable
INVARIANTS TypeOK ConsecutiveRunsAccount FiguresAreFinal
PROPERTIES ExpensesAreKept
