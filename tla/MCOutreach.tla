------------------------------ MODULE MCOutreach ------------------------------
(***************************************************************************)
(* Outreach for TLC: the requests are interchangeable, and so are vendors.  *)
(***************************************************************************)
EXTENDS Outreach, TLC

Symmetry == Permutations(Sessions) \cup Permutations(Vendors)

=============================================================================
