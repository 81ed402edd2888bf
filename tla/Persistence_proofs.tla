-------------------------- MODULE Persistence_proofs --------------------------
(***************************************************************************)
(* What the persistence layer promises: that pages agree with their totals *)
(* and that a walk through a listing misses nothing it had to find, for    *)
(* every table, page size and number of writers; and what follows from the *)
(* promise of StatusRegister, for any table and any clients.               *)
(***************************************************************************)
EXTENDS Listing, FiniteSetTheorems, TLAPS

CONSTANTS Rows, Clients, Statuses, Fresh, Moves, Nothing
VARIABLES status, seen

Register == INSTANCE StatusRegister

-----------------------------------------------------------------------------
(* Orders and pages *)

\* An order holds every row of the listing, once.
LEMMA OrdersAreComplete ==
  ASSUME NEW s \in Orders
  PROVE  /\ IsFiniteSet(Visible) /\ Cardinality(Visible) \in Nat
         /\ s \in Seq(Visible) /\ Len(s) = Cardinality(Visible)
         /\ \A i, j \in 1..Len(s) : s[i] = s[j] => i = j
         /\ \A r \in Visible : \E i \in 1..Len(s) : s[i] = r
<1> DEFINE n == Cardinality(Visible)
<1>1. IsFiniteSet(Visible) /\ n \in Nat
  BY ListingAssumption, FS_Subset, FS_CardinalityType DEF Visible
<1> HIDE DEF n
<1>2. s \in [1..n -> Visible] /\ \A i, j \in 1..n : s[i] = s[j] => i = j
  BY DEF Orders, n
<1>3. s \in Seq(Visible) /\ Len(s) = n
  BY <1>1, <1>2
<1>4. s \in Injection(1..n, Visible)
  BY <1>2 DEF Injection, IsInjective
<1>5. Cardinality(1..n) = n
  BY <1>1, FS_Interval
<1>6. s \in Surjection(1..n, Visible)
  BY <1>1, <1>4, <1>5, FS_Injection DEF n
<1>7. \A r \in Visible : \E i \in 1..n : s[i] = r
  BY <1>6 DEF Surjection
<1>8. QED
  BY <1>1, <1>2, <1>3, <1>7 DEF n

LEMMA CountUpTo ==
  ASSUME NEW k \in Nat
  PROVE  IsFiniteSet(1..k) /\ Cardinality(1..k) = k
<1>1. IsFiniteSet(1..k) /\ Cardinality(1..k) = IF 1 > k THEN 0 ELSE k - 1 + 1
  <2>1. 1 \in Int /\ k \in Int
    OBVIOUS
  <2>2. QED
    BY <2>1, FS_Interval, Zenon
<1>2. QED
  BY <1>1

\* A row that shares its place with no other comes after those that are newer.
LEMMA NewerComeFirst ==
  ASSUME TypeOK, NEW s \in Orders, NEW p \in 1..Len(s), ~Tied(s[p])
  PROVE  Cardinality(Newer(s[p])) = p - 1
<1>1. PICK k \in Nat : k = p - 1
  BY OrdersAreComplete
<1> DEFINE before == [i \in 1..k |-> s[i]]
<1>2. /\ Len(s) \in Nat /\ s \in [1..Len(s) -> Visible] /\ p \in Nat
      /\ \A i, j \in 1..Len(s) : s[i] = s[j] => i = j
      /\ \A r \in Visible : \E i \in 1..Len(s) : s[i] = r
  BY OrdersAreComplete
<1>3. \A i, j \in 1..Len(s) : i < j => row[s[i]].updated_at >= row[s[j]].updated_at
  BY <1>2 DEF Orders, Ordered
<1>4. \A r \in Visible : row[r].updated_at \in Nat
  BY ListingAssumption DEF Visible, TypeOK, Time
<1>5. ASSUME NEW i \in 1..k PROVE s[i] \in Newer(s[p])
  <2>1. i \in 1..Len(s) /\ i < p /\ s[i] # s[p] /\ s[i] \in Visible /\ s[p] \in Visible
    BY <1>1, <1>2
  <2>2. row[s[i]].updated_at >= row[s[p]].updated_at
    BY <1>3, <2>1
  <2>3. row[s[i]].updated_at # row[s[p]].updated_at
    BY <2>1 DEF Tied
  <2>4. QED
    BY <1>4, <2>1, <2>2, <2>3 DEF Newer
<1>6. ASSUME NEW r \in Newer(s[p]) PROVE \E i \in 1..k : before[i] = r
  <2>1. PICK i \in 1..Len(s) : s[i] = r
    BY <1>2 DEF Newer
  <2>2. row[s[i]].updated_at > row[s[p]].updated_at
    BY <2>1 DEF Newer
  <2>3. s[i] \in Visible /\ s[p] \in Visible
    BY <1>2
  <2>4. ~(p < i) /\ i # p
    BY <1>3, <1>4, <2>2, <2>3
  <2>5. i \in 1..k
    BY <1>1, <1>2, <2>4
  <2>6. QED
    BY <2>1, <2>5
<1>7. before \in [1..k -> Newer(s[p])]
  BY <1>5
<1>8. \A i, j \in 1..k : before[i] = before[j] => i = j
  BY <1>1, <1>2
<1> HIDE DEF before
<1>9. before \in Bijection(1..k, Newer(s[p]))
  BY <1>6, <1>7, <1>8 DEF Bijection, Injection, IsInjective, Surjection
<1>10. IsFiniteSet(1..k) /\ Cardinality(1..k) = k
  BY CountUpTo
<1>11. QED
  BY <1>1, <1>9, <1>10, FS_Bijection DEF ExistsBijection

PageAt(s, offset) == SubSeq(s, offset + 1, Min({offset + Limit, Len(s)}))

\* How long a page is, and which rows are on it.
LEMMA Pages ==
  ASSUME NEW s \in Orders, NEW offset \in Nat
  PROVE  LET page == PageAt(s, offset) IN
         /\ Len(page) \in Nat
         /\ Len(page) = IF offset + Limit <= Len(s) THEN Limit
                        ELSE IF offset <= Len(s) THEN Len(s) - offset ELSE 0
         /\ {page[i] : i \in DOMAIN page} \subseteq Visible
         /\ \A p \in 1..Len(s) : offset < p /\ p <= offset + Limit
              => s[p] \in {page[i] : i \in DOMAIN page}
<1> DEFINE last == Min({offset + Limit, Len(s)})
           page == PageAt(s, offset)
<1>1. Len(s) \in Nat /\ s \in Seq(Visible) /\ Limit \in Nat \ {0}
  BY OrdersAreComplete, ListingAssumption
<1>2. last = IF offset + Limit <= Len(s) THEN offset + Limit ELSE Len(s)
  <2>1. ASSUME NEW a \in Nat, NEW b \in Nat, a <= b PROVE Min({a, b}) = a /\ Min({b, a}) = a
    BY <2>1 DEF Min
  <2>2. QED
    BY <1>1, <2>1
<1> HIDE DEF last
<1>3. page = SubSeq(s, offset + 1, last)
  BY DEF PageAt, last
<1>4. /\ Len(page) = IF offset + 1 <= last THEN last - offset ELSE 0
      /\ DOMAIN page = 1..Len(page)
      /\ \A i \in 1..Len(page) : page[i] = s[offset + i]
  BY <1>1, <1>2, <1>3
<1> HIDE DEF page
<1>5. {page[i] : i \in DOMAIN page} \subseteq Visible
  <2>1. ASSUME NEW i \in 1..Len(page) PROVE page[i] \in Visible
    <3>1. page[i] = s[offset + i] /\ offset + i \in 1..Len(s)
      BY <1>1, <1>2, <1>4
    <3>2. QED
      BY <1>1, <3>1
  <2>2. QED
    BY <1>4, <2>1
<1>6. ASSUME NEW p \in 1..Len(s), offset < p, p <= offset + Limit
      PROVE  s[p] \in {page[i] : i \in DOMAIN page}
  <2>1. p - offset \in DOMAIN page /\ page[p - offset] = s[p]
    BY <1>1, <1>2, <1>4, <1>6
  <2>2. QED
    BY <2>1
<1>7. QED
  BY <1>1, <1>2, <1>4, <1>5, <1>6 DEF page

-----------------------------------------------------------------------------
(* Walks *)

WalkInv == TypeOK /\ WalkIsSound /\ PagesMatchTotals

\* The rows of the first k places that a page of Limit rows after offset holds.
LEMMA SizeOfSlice ==
  ASSUME NEW offset \in Nat, NEW n \in Nat
  PROVE  Cardinality((offset + 1)..(offset + Limit) \cap 1..n) =
           IF offset + Limit <= n THEN Limit ELSE IF offset <= n THEN n - offset ELSE 0
<1> DEFINE slice == (offset + 1)..(offset + Limit) \cap 1..n
<1>1. Limit \in Nat \ {0}
  BY ListingAssumption
<1>2. \A a, b \in Int : Cardinality(a..b) = IF a > b THEN 0 ELSE b - a + 1
  BY FS_Interval
<1>3. CASE offset + Limit <= n
  <2>1. slice = (offset + 1)..(offset + Limit)
    BY <1>1, <1>3
  <2>2. Cardinality((offset + 1)..(offset + Limit)) = Limit
    <3>1. /\ offset + 1 \in Int /\ offset + Limit \in Int /\ ~(offset + 1 > offset + Limit)
          /\ (offset + Limit) - (offset + 1) + 1 = Limit
      BY <1>1
    <3>2. QED
      BY <1>2, <3>1
  <2>3. QED
    BY <1>3, <2>1, <2>2
<1>4. CASE ~(offset + Limit <= n)
  <2>1. slice = (offset + 1)..n
    BY <1>1, <1>4
  <2>2. Cardinality((offset + 1)..n) = IF offset <= n THEN n - offset ELSE 0
    <3>1. Cardinality((offset + 1)..n) = IF offset + 1 > n THEN 0 ELSE n - (offset + 1) + 1
      BY <1>2
    <3>2. QED
      BY <3>1
  <2>3. QED
    BY <1>4, <2>1, <2>2
<1>5. QED
  BY <1>3, <1>4

\* The walk ends with a page that is not full: what was still to come was on it.
LEMMA QueryPageWalk ==
  ASSUME WalkInv, QueryPage
  PROVE  WalkInv'
<1>1. PICK s \in Orders :
        LET page == PageAt(s, walk.offset) IN
        walk' = [walk EXCEPT !.phase = IF Len(page) < Limit THEN "idle" ELSE "count",
                             !.offset = @ + Limit, !.items = Len(page),
                             !.seen = @ \cup {page[i] : i \in DOMAIN page}]
  BY DEF QueryPage, PageAt
<1> DEFINE page == PageAt(s, walk.offset)
           found == {page[i] : i \in DOMAIN page}
<1>2. /\ walk \in Walk /\ walk.phase = "page" /\ UNCHANGED <<row, now, writer>>
      /\ walk.offset \in Nat /\ Limit \in Nat \ {0}
  BY ListingAssumption DEF QueryPage, WalkInv, TypeOK, Walk
<1>3. /\ walk'.phase = IF Len(page) < Limit THEN "idle" ELSE "count"
      /\ walk'.offset = walk.offset + Limit /\ walk'.items = Len(page)
      /\ walk'.seen = walk.seen \cup found
      /\ walk'.kept = walk.kept /\ walk'.disturbed = walk.disturbed
      /\ walk'.quiet = walk.quiet /\ walk'.total = walk.total
  BY <1>1, <1>2 DEF Walk
<1>4. /\ Len(page) \in Nat /\ found \subseteq Visible
      /\ Len(page) = IF walk.offset + Limit <= Len(s) THEN Limit
                     ELSE IF walk.offset <= Len(s) THEN Len(s) - walk.offset ELSE 0
      /\ \A p \in 1..Len(s) : walk.offset < p /\ p <= walk.offset + Limit => s[p] \in found
  BY <1>2, Pages
<1>5. Len(s) = Cardinality(Visible) /\ Len(s) \in Nat
  BY OrdersAreComplete
<1>6. walk' = [walk EXCEPT !.phase = IF Len(page) < Limit THEN "idle" ELSE "count",
                           !.offset = @ + Limit, !.items = Len(page), !.seen = @ \cup found]
  BY <1>1
<1> HIDE DEF page, found
<1>7. TypeOK'
  <2>1. found \subseteq Row
    BY <1>4 DEF Visible
  <2>2. walk' \in Walk
    <3> DEFINE phase == IF Len(page) < Limit THEN "idle" ELSE "count"
               offset == walk.offset + Limit
               seenNow == walk.seen \cup found
    <3>1. /\ phase \in {"idle", "count"} /\ offset \in Nat /\ seenNow \in SUBSET Row
          /\ Len(page) \in Nat
      BY <1>2, <1>4, <2>1 DEF Walk
    <3>2. walk' = [walk EXCEPT !.phase = phase, !.offset = offset, !.items = Len(page),
                               !.seen = seenNow]
      BY <1>6
    <3> HIDE DEF phase, offset, seenNow
    <3>3. QED
      BY <1>2, <3>1, <3>2 DEF Walk
  <2>3. QED
    BY <1>2, <2>2 DEF WalkInv, TypeOK, Time
<1>8. ASSUME NEW r \in walk.kept, r \notin walk.seen, r \notin found, ~walk.disturbed
      PROVE  /\ walk'.phase # "idle"
             /\ r \in Visible /\ ~Tied(r)
             /\ Cardinality(Newer(r)) >= walk.offset + Limit
  <2>1. r \in Visible /\ ~Tied(r) /\ Cardinality(Newer(r)) >= walk.offset
    BY <1>8 DEF WalkInv, WalkIsSound
  <2>2. PICK p \in 1..Len(s) : s[p] = r
    BY <2>1, OrdersAreComplete
  <2>3. Cardinality(Newer(r)) = p - 1
    BY <2>1, <2>2, NewerComeFirst DEF WalkInv
  <2>4. walk.offset < p
    BY <1>2, <1>5, <2>1, <2>3
  <2>5. p > walk.offset + Limit
    BY <1>2, <1>4, <1>5, <1>8, <2>2, <2>4
  <2>6. QED
    BY <1>2, <1>3, <1>4, <1>5, <2>1, <2>3, <2>5
<1>9. WalkIsSound'
  <2>1. Visible' = Visible /\ \A r : Tied(r)' = Tied(r) /\ Newer(r)' = Newer(r)
    BY <1>2 DEF Visible, Tied, Newer
  <2>2. walk'.phase # "page"
    BY <1>3
  <2>3. QED
    BY <1>3, <1>8, <2>1, <2>2 DEF WalkIsSound
<1>10. PagesMatchTotals'
  <2>1. walk.quiet => Len(page) = Cardinality((walk.offset + 1)..(walk.offset + Limit) \cap 1..walk.total)
    <3>1. walk.quiet => walk.total = Len(s)
      BY <1>2, <1>5 DEF WalkInv, WalkIsSound
    <3>2. Len(page) = Cardinality((walk.offset + 1)..(walk.offset + Limit) \cap 1..Len(s))
      BY <1>2, <1>4, <1>5, SizeOfSlice
    <3>3. QED
      BY <3>1, <3>2
  <2>2. walk'.offset - Limit + 1 = walk.offset + 1
    BY <1>2, <1>3
  <2>3. QED
    BY <1>2, <1>3, <2>1, <2>2 DEF PagesMatchTotals
<1>11. QED
  BY <1>7, <1>9, <1>10 DEF WalkInv

\* A commit pushes what the walk still has to find towards the pages to come.
LEMMA CommitWalk ==
  ASSUME WalkInv, NEW w \in Writer, NEW written \in SUBSET Row, NEW shown \in SUBSET Row,
         Commit(w, written, shown)
  PROVE  WalkInv'
<1>1. /\ walk \in Walk /\ row \in [Row -> [visible: BOOLEAN, updated_at: Time]]
      /\ writer[w] \in Time /\ Time \subseteq Nat
  BY ListingAssumption DEF WalkInv, TypeOK, Time
<1>2. \A r \in Row :
        /\ row'[r].visible = (r \in shown)
        /\ row'[r].updated_at = IF r \in written THEN writer[w] ELSE row[r].updated_at
  BY DEF Commit
<1>3. /\ walk'.phase = walk.phase /\ walk'.offset = walk.offset /\ walk'.seen = walk.seen
      /\ walk'.quiet = FALSE
      /\ walk'.kept = {r \in walk.kept \ written : ~Tied(r)'}
      /\ walk'.disturbed = (walk.disturbed \/ \E r \in Visible :
                               r \notin shown \/ (r \in written /\ writer[w] < row[r].updated_at))
  BY <1>1 DEF Commit, Walk
<1>4. TypeOK'
  <2>1. row' \in [Row -> [visible: BOOLEAN, updated_at: Time]]
    BY <1>1 DEF Commit
  <2>2. walk' \in Walk
    BY <1>1, <1>3 DEF Commit, Walk
  <2>3. now' \in Time /\ writer' \in [Writer -> 0..now']
    BY ListingAssumption DEF Commit, WalkInv, TypeOK, Time
  <2>4. QED
    BY <2>1, <2>2, <2>3 DEF TypeOK, Time
<1>5. ASSUME ~walk'.disturbed, NEW r \in walk'.kept, r \notin walk'.seen
      PROVE  /\ walk'.phase # "idle"
             /\ r \in Visible' /\ ~Tied(r)'
             /\ Cardinality(Newer(r)') >= walk'.offset
  <2>1. /\ r \in walk.kept /\ r \notin written /\ ~Tied(r)' /\ ~walk.disturbed
        /\ \A q \in Visible : q \in shown /\ (q \in written => ~(writer[w] < row[q].updated_at))
    BY <1>3, <1>5
  <2>2. /\ walk.phase # "idle" /\ r \in Visible
        /\ Cardinality(Newer(r)) >= walk.offset
    BY <1>3, <1>5, <2>1 DEF WalkInv, WalkIsSound
  <2>3. Visible \subseteq Visible' /\ r \in Row
    BY <1>2, <2>1, <2>2 DEF Visible
  <2>4. Newer(r) \subseteq Newer(r)'
    <3>1. ASSUME NEW q \in Newer(r) PROVE q \in Newer(r)'
      <4>1. q \in Visible /\ q \in Row /\ row[q].updated_at > row[r].updated_at
        BY DEF Newer, Visible
      <4>2. row'[r].updated_at = row[r].updated_at /\ row'[q].updated_at >= row[q].updated_at
        <5>1. \A x \in Row : row[x].updated_at \in Nat
          BY <1>1
        <5>2. writer[w] \in Nat
          BY <1>1
        <5>3. QED
          BY <1>2, <2>1, <2>3, <4>1, <5>1, <5>2
      <4>3. row'[q].updated_at > row'[r].updated_at
        <5>1. row[q].updated_at \in Nat /\ row[r].updated_at \in Nat /\ row'[q].updated_at \in Nat
          BY <1>1, <1>2, <2>3, <4>1
        <5>2. QED
          BY <4>1, <4>2, <5>1
      <4>4. QED
        BY <2>3, <4>1, <4>3 DEF Newer
    <3>2. QED
      BY <3>1
  <2>5. IsFiniteSet(Newer(r)')
    BY ListingAssumption, FS_Subset DEF Newer, Visible
  <2>6. Cardinality(Newer(r)) <= Cardinality(Newer(r)') /\ Cardinality(Newer(r)) \in Nat
        /\ Cardinality(Newer(r)') \in Nat
    BY <2>4, <2>5, FS_Subset, FS_CardinalityType
  <2>7. QED
    BY <1>1, <1>3, <2>1, <2>2, <2>3, <2>6 DEF Walk
<1>6. WalkIsSound' /\ PagesMatchTotals'
  BY <1>3, <1>5 DEF WalkIsSound, PagesMatchTotals
<1>7. QED
  BY <1>4, <1>6 DEF WalkInv

\* Steps that leave the table alone.
LEMMA OtherWalkSteps ==
  ASSUME WalkInv, UNCHANGED row, TypeOK',
         \/ UNCHANGED walk
         \/ StartWalk
         \/ Count
         \/ PageFails
  PROVE  WalkInv'
<1>1. Visible' = Visible /\ \A r : Tied(r)' = Tied(r) /\ Newer(r)' = Newer(r)
  BY DEF Visible, Tied, Newer
<1>2. walk \in Walk
  BY DEF WalkInv, TypeOK
<1>3. CASE UNCHANGED walk
  BY <1>1, <1>3 DEF WalkInv, WalkIsSound, PagesMatchTotals
<1>4. CASE StartWalk
  <2>1. /\ walk'.phase = "count" /\ walk'.offset = 0 /\ walk'.seen = {}
        /\ walk'.kept = {r \in Visible : ~Tied(r)} /\ walk'.quiet = FALSE
    BY <1>4 DEF StartWalk, NoWalk
  <2>2. \A r \in Visible : Cardinality(Newer(r)) \in Nat
    BY ListingAssumption, FS_Subset, FS_CardinalityType DEF Newer, Visible
  <2>3. WalkIsSound'
    BY <1>1, <2>1, <2>2 DEF WalkIsSound
  <2>4. PagesMatchTotals'
    BY <2>1 DEF PagesMatchTotals
  <2>5. QED
    BY <2>3, <2>4 DEF WalkInv
<1>5. CASE Count
  <2>1. /\ walk.phase = "count" /\ walk'.phase = "page" /\ walk'.total = Cardinality(Visible)
        /\ walk'.offset = walk.offset /\ walk'.seen = walk.seen /\ walk'.kept = walk.kept
        /\ walk'.disturbed = walk.disturbed
    BY <1>2, <1>5 DEF Count, Walk, Selected
  <2>2. WalkIsSound'
    BY <1>1, <2>1 DEF WalkInv, WalkIsSound
  <2>3. QED
    BY <2>1, <2>2 DEF WalkInv, PagesMatchTotals
<1>6. CASE PageFails
  <2>1. /\ walk.phase = "page" /\ walk'.phase = "count" /\ walk'.quiet = FALSE
        /\ walk'.offset = walk.offset /\ walk'.seen = walk.seen /\ walk'.kept = walk.kept
        /\ walk'.disturbed = walk.disturbed
    BY <1>2, <1>6 DEF PageFails, Walk
  <2>2. WalkIsSound'
    BY <1>1, <2>1 DEF WalkInv, WalkIsSound
  <2>3. QED
    BY <2>1, <2>2 DEF WalkInv, PagesMatchTotals
<1>7. QED
  BY <1>3, <1>4, <1>5, <1>6

LEMMA ListingTyping ==
  ASSUME TypeOK, [Next]_vars,
         ~QueryPage, \A w \in Writer, written, shown \in SUBSET Row : ~Commit(w, written, shown)
  PROVE  TypeOK' /\ UNCHANGED row
<1>1. Time \subseteq Nat /\ now \in Nat
  BY ListingAssumption DEF TypeOK, Time
<1>2. CASE StartWalk
  BY <1>2 DEF StartWalk, NoWalk, TypeOK, Walk, Visible, Time
<1>3. CASE Count
  <2>1. Cardinality(Visible) \in Nat
    BY ListingAssumption, FS_Subset, FS_CardinalityType DEF Visible
  <2>2. QED
    BY <1>3, <2>1 DEF Count, TypeOK, Walk, Selected, Time
<1>4. CASE PageFails
  BY <1>4 DEF PageFails, TypeOK, Walk, Time
<1>5. ASSUME NEW w \in Writer, Begin(w) PROVE TypeOK' /\ UNCHANGED row
  BY <1>1, <1>5, ListingAssumption DEF Begin, TypeOK, Time
<1>6. ASSUME NEW w \in Writer, Rollback(w) PROVE TypeOK' /\ UNCHANGED row
  BY <1>1, <1>6 DEF Rollback, TypeOK, Time
<1>7. CASE UNCHANGED vars
  BY <1>7 DEF vars, TypeOK, Time
<1>8. QED
  BY <1>2, <1>3, <1>4, <1>5, <1>6, <1>7 DEF Next

LEMMA WalkInvariance == Spec => []WalkInv
<1>1. Init => WalkInv
  BY ListingAssumption DEF Init, WalkInv, TypeOK, Time, Walk, NoWalk, WalkIsSound, PagesMatchTotals
<1>2. WalkInv /\ [Next]_vars => WalkInv'
  <2> SUFFICES ASSUME WalkInv, [Next]_vars PROVE WalkInv'
    OBVIOUS
  <2>1. CASE QueryPage
    BY <2>1, QueryPageWalk
  <2>2. ASSUME NEW w \in Writer, NEW written \in SUBSET Row, NEW shown \in SUBSET Row,
               Commit(w, written, shown)
        PROVE  WalkInv'
    BY <2>2, CommitWalk
  <2>3. CASE ~QueryPage /\ \A w \in Writer, written, shown \in SUBSET Row :
                             ~Commit(w, written, shown)
    <3>1. TypeOK' /\ UNCHANGED row
      BY <2>3, ListingTyping DEF WalkInv
    <3>2. UNCHANGED walk \/ StartWalk \/ Count \/ PageFails
      BY <2>3 DEF Next, vars, Begin, Rollback
    <3>3. QED
      BY <3>1, <3>2, OtherWalkSteps
  <2>4. QED
    BY <2>1, <2>2, <2>3
<1>3. QED
  BY <1>1, <1>2, PTL DEF Spec

\* A walk through a listing (paginate) that no row leaves and in which none moves back meets
\* every row that was there from the beginning, in a place of its own, and was not written:
\* for every page size, table and number of writers.
THEOREM NothingIsMissed == Spec => []WalksMissNothing
<1>1. WalkInv => WalksMissNothing
  BY DEF WalkInv, WalkIsSound, WalksMissNothing
<1>2. QED
  BY <1>1, WalkInvariance, PTL

\* The page and the total paginate answers with agree, unless something was committed between
\* its two statements.
THEOREM PagesMatch == Spec => []PagesMatchTotals
<1>1. WalkInv => PagesMatchTotals
  BY DEF WalkInv
<1>2. QED
  BY <1>1, WalkInvariance, PTL


-----------------------------------------------------------------------------
(* The promise of StatusRegister *)

\* The register holds statuses, or nothing.
THEOREM RegisterTyping ==
  ASSUME Register!RegisterAssumption
  PROVE  Register!Spec => []Register!TypeOK
<1>1. Register!Init => Register!TypeOK
  BY DEF Register!RegisterAssumption, Register!Init, Register!TypeOK, Register!Blind
<1>2. Register!TypeOK /\ [Register!Next]_(Register!vars) => Register!TypeOK'
  <2> SUFFICES ASSUME Register!TypeOK, [Register!Next]_(Register!vars) PROVE Register!TypeOK'
    OBVIOUS
  <2> USE DEF Register!RegisterAssumption, Register!TypeOK
  <2>1. CASE \E r \in Rows : Register!Insert(r)
    BY <2>1 DEF Register!Insert
  <2>2. CASE \E c \in Clients, r \in Rows : Register!Observe(c, r)
    BY <2>2 DEF Register!Observe
  <2>3. CASE \E c \in Clients : Register!Commit(c)
    BY <2>3 DEF Register!Commit, Register!SetStatus, Register!Blind
  <2>4. CASE \E c \in Clients : Register!Rollback(c)
    BY <2>4 DEF Register!Rollback, Register!Blind
  <2>5. CASE Register!ConditionalUpdate
    BY <2>5 DEF Register!ConditionalUpdate, Register!SetStatus
  <2>6. CASE UNCHANGED Register!vars
    BY <2>6 DEF Register!vars
  <2>7. QED
    BY <2>1, <2>2, <2>3, <2>4, <2>5, <2>6 DEF Register!Next
<1>3. QED
  BY <1>1, <1>2, PTL DEF Register!Spec

\* A row that no client holds an outdated view of moves along its life cycle only,
\* whatever the clients in flight are about to write (ModelHandler.update).
THEOREM SettledRows ==
  ASSUME Register!RegisterAssumption
  PROVE  Register!Spec => Register!SettledRowsFollowLifecycle
<1>1. Register!TypeOK /\ [Register!Next]_(Register!vars)
      => [\A r \in Rows : Register!Settled(r) => Register!FollowsLifecycle(r)]_(Register!vars)
  <2> SUFFICES ASSUME Register!TypeOK, Register!Next, NEW r \in Rows, Register!Settled(r)
               PROVE  Register!FollowsLifecycle(r)
    OBVIOUS
  <2>1. CASE \E q \in Rows : Register!Insert(q)
    BY <2>1 DEF Register!Insert, Register!FollowsLifecycle, Register!TypeOK
  <2>2. CASE \E c \in Clients, q \in Rows : Register!Observe(c, q)
    BY <2>2 DEF Register!Observe, Register!FollowsLifecycle
  <2>3. ASSUME NEW c \in Clients, Register!Commit(c)
        PROVE  Register!FollowsLifecycle(r)
    \* What c read of r is nothing, and no move starts there, or the committed status.
    <3>1. seen[c][r] \in {Nothing, status[r]}
      BY DEF Register!Settled
    <3>2. PICK R \in SUBSET Rows : \E new \in [R -> Statuses] :
            (\A q \in R : <<seen[c][q], new[q]>> \in Moves) /\ Register!SetStatus(R, new)
      BY <2>3 DEF Register!Commit
    <3>3. QED
      BY <3>1, <3>2 DEF Register!RegisterAssumption, Register!SetStatus, Register!FollowsLifecycle
  <2>4. CASE Register!ConditionalUpdate
    BY <2>4 DEF Register!ConditionalUpdate, Register!SetStatus, Register!FollowsLifecycle
  <2>5. CASE \E c \in Clients : Register!Rollback(c)
    BY <2>5 DEF Register!Rollback, Register!FollowsLifecycle
  <2>6. QED
    BY <2>1, <2>2, <2>3, <2>4, <2>5 DEF Register!Next
<1>2. QED
  BY <1>1, RegisterTyping, PTL DEF Register!Spec, Register!SettledRowsFollowLifecycle

===============================================================================
