----------------------------- MODULE MCQuoteDesk -----------------------------
(***************************************************************************)
(* QuoteDesk for TLC.  Sessions and suppliers are interchangeable; row      *)
(* numbers are not, they stand for creation order.                          *)
(***************************************************************************)
EXTENDS QuoteDesk, TLC

Symmetry == Permutations(Sessions) \cup Permutations(Suppliers)

=============================================================================
