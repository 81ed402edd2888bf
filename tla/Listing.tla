------------------------------- MODULE Listing -------------------------------
(***************************************************************************)
(* Listings: every collection of the API is read page by page with         *)
(* paginate, which counts the rows and then selects one page of them, most *)
(* recently updated first.  A client walks from page to page while others  *)
(* write the rows it walks over.                                           *)
(*                                                                         *)
(* Each of the two statements of a page sees what is committed when it     *)
(* begins.  updated_at is the start of the transaction that wrote the row  *)
(* (for an insert, the flush), not its commit: rows come to their place in *)
(* the order late, can move back in it, and tie if one transaction writes  *)
(* several, in which case the database may order them as it likes, each    *)
(* time anew.                                                              *)
(***************************************************************************)
EXTENDS Integers, FiniteSets, Sequences, FiniteSetsExt

CONSTANTS
  Row,       \* primary keys of one table
  Writer,    \* transactions in flight, of requests and commands
  Limit,     \* the page size the client asks for
  MaxTime    \* bounds the number of transactions

ASSUME ListingAssumption == IsFiniteSet(Row) /\ Limit \in Nat \ {0} /\ MaxTime \in Nat

VARIABLES
  row,       \* the committed table: updated_at, and whether the conditions of the listing hold
  now,       \* the clock
  writer,    \* when each transaction in flight began, 0 if it did not
  walk       \* the client: the page it asks for and what it has been told

vars == <<row, now, writer, walk>>

-----------------------------------------------------------------------------

Time == 0..MaxTime

\* kept: the rows that have been there, in a place of their own, since the walk began, and have
\* not been written; disturbed: since then a row left the listing or moved back in it;
\* quiet: since total was counted nothing was committed.  These three are histories.
Walk == [phase: {"idle", "count", "page"}, offset: Nat, total: Nat, items: Nat,
         seen: SUBSET Row, kept: SUBSET Row, disturbed: BOOLEAN, quiet: BOOLEAN]

TypeOK ==
  /\ row \in [Row -> [visible: BOOLEAN, updated_at: Time]]
  /\ now \in Time
  /\ writer \in [Writer -> 0..now]
  /\ walk \in Walk

NoWalk == [phase |-> "idle", offset |-> 0, total |-> 0, items |-> 0,
           seen |-> {}, kept |-> {}, disturbed |-> FALSE, quiet |-> FALSE]

Init ==
  /\ row = [r \in Row |-> [visible |-> FALSE, updated_at |-> 0]]
  /\ now = 0
  /\ writer = [w \in Writer |-> 0]
  /\ walk = NoWalk

Visible == {r \in Row : row[r].visible}
Tied(r) == \E q \in Visible \ {r} : row[q].updated_at = row[r].updated_at

\* Mutant: the order is ascending.
OldestFirst(s) == \A i, j \in DOMAIN s : i < j => row[s[i]].updated_at <= row[s[j]].updated_at

\* The order_by of a table with timestamps.
Ordered(s) == \A i, j \in DOMAIN s : i < j => row[s[i]].updated_at >= row[s[j]].updated_at

Orders == {s \in [1..Cardinality(Visible) -> Visible] :
             /\ \A i, j \in DOMAIN s : s[i] = s[j] => i = j
             /\ Ordered(s)}

-----------------------------------------------------------------------------
(* The client and paginate *)

StartWalk ==
  /\ walk.phase = "idle"
  /\ walk' = [NoWalk EXCEPT !.phase = "count", !.kept = {r \in Visible : ~Tied(r)}]
  /\ UNCHANGED <<row, now, writer>>

\* Mutant: the conditions of the listing are forgotten.
Counted == {r \in Row : row[r].updated_at > 0}

\* What count and query_db select, one built with select_from, the other not.
Selected == Visible

Count ==
  /\ walk.phase = "count"
  /\ walk' = [walk EXCEPT !.phase = "page", !.total = Cardinality(Selected), !.quiet = TRUE]
  /\ UNCHANGED <<row, now, writer>>

\* The page, and the next offset the client asks for, until a page is not full.
QueryPage ==
  /\ walk.phase = "page"
  /\ \E s \in Orders :
       LET page == SubSeq(s, walk.offset + 1, Min({walk.offset + Limit, Len(s)})) IN
       walk' = [walk EXCEPT !.phase = IF Len(page) < Limit THEN "idle" ELSE "count",
                            !.offset = @ + Limit, !.items = Len(page),
                            !.seen = @ \cup {page[i] : i \in DOMAIN page}]
  /\ UNCHANGED <<row, now, writer>>

\* A page that fails is asked for again.
PageFails ==
  /\ walk.phase = "page"
  /\ walk' = [walk EXCEPT !.phase = "count", !.quiet = FALSE]
  /\ UNCHANGED <<row, now, writer>>

-----------------------------------------------------------------------------
(* Those who write *)

\* No two transactions begin at the same time.
Begin(w) ==
  /\ writer[w] = 0
  /\ now < MaxTime
  /\ now' = now + 1
  /\ writer' = [writer EXCEPT ![w] = now']
  /\ UNCHANGED <<row, walk>>

\* The rows of written have been inserted or updated; the listing is shown from now on.  Rows
\* can enter and leave it without being written: the users of an account with their memberships.
Commit(w, written, shown) ==
  /\ writer[w] # 0
  /\ \A r \in shown \ written : row[r].updated_at # 0
  /\ row' = [r \in Row |-> [visible |-> r \in shown,
                            updated_at |-> IF r \in written THEN writer[w] ELSE row[r].updated_at]]
  /\ writer' = [writer EXCEPT ![w] = 0]
  /\ walk' = [walk EXCEPT !.quiet = FALSE,
       !.kept = {r \in @ \ written : ~Tied(r)'},
       !.disturbed = @ \/ \E r \in Visible :
                            r \notin shown \/ (r \in written /\ writer[w] < row[r].updated_at)]
  /\ UNCHANGED now

Rollback(w) ==
  /\ writer[w] # 0
  /\ writer' = [writer EXCEPT ![w] = 0]
  /\ UNCHANGED <<row, now, walk>>

Next ==
  \/ StartWalk \/ Count \/ QueryPage \/ PageFails
  \/ \E w \in Writer :
       \/ Begin(w)
       \/ \E written \in SUBSET Row, shown \in SUBSET Row : Commit(w, written, shown)
       \/ Rollback(w)

Spec == Init /\ [][Next]_vars

-----------------------------------------------------------------------------
(* Safety *)

\* The rows that come before r in every order.
Newer(r) == {q \in Visible : row[q].updated_at > row[r].updated_at}

\* With TypeOK, inductive: while a walk lasts, what it has to find and has not met stays behind
\* the next offset, and a total nothing was committed after is that of the rows there are.
WalkIsSound ==
  /\ ~walk.disturbed => \A r \in walk.kept \ walk.seen :
       /\ walk.phase # "idle"
       /\ r \in Visible /\ ~Tied(r)
       /\ Cardinality(Newer(r)) >= walk.offset
  /\ walk.phase = "page" /\ walk.quiet => walk.total = Cardinality(Visible)

\* Whoever walks through a listing to its end has seen every row that was in it from the
\* beginning and was not written meanwhile, however many others were inserted and updated:
\* what is written moves to the front, which can only push the rest towards pages that are
\* still to come.  This needs that no row has left the listing (a deletion, for an affiliate
\* account), that none has moved back (two overlapping transactions whose commits come in the
\* opposite order of their beginnings), and says nothing about rows that tie: those that one
\* run of a command has written can be missed even if nothing is written at all.
WalksMissNothing ==
  walk.phase = "idle" /\ ~walk.disturbed => walk.kept \subseteq walk.seen

\* A page agrees with the total next to it, two statements with conditions built apart, unless
\* something was committed in between.
PagesMatchTotals ==
  walk.phase \in {"idle", "count"} /\ walk.quiet =>
    walk.items = Cardinality((walk.offset - Limit + 1)..walk.offset \cap 1..walk.total)

=============================================================================
