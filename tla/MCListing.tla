----------------------------- MODULE MCListing -----------------------------
(* Listing for TLC: rows and transactions are interchangeable. *)
EXTENDS Listing, TLC

Symmetry == Permutations(Row) \cup Permutations(Writer)

=============================================================================
