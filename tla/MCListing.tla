----------------------------- MODULE MCListing -----------------------------
(* Listing on small tables: every row is interchangeable. *)
EXTENDS Listing, TLC

Symmetry == Permutations(Rows)
=============================================================================
