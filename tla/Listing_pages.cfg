\* Three rows and pages of one row, two overlapping transactions.
SPECIFICATION Spec
CONSTANTS
  r1 = r1
  r2 = r2
  r3 = r3
  w1 = w1
  w2 = w2
  Row = {r1, r2, r3}
  Writer = {w1, w2}
  Limit = 1
  MaxTime = 4
SYMMETRY Symmetry
INVARIANTS WalksMissNothing PagesMatchTotals
