----------------------------- MODULE MCAssistant -----------------------------
(***************************************************************************)
(* Assistant for TLC: a question about the quote of an inquiry, one that     *)
(* uses up the budget and is about an inquiry the tenant lacks, and one of   *)
(* procedure.                                                                *)
(***************************************************************************)
EXTENDS Assistant, TLC

AskedQuestions == {
    [inquiry |-> TRUE, known |-> TRUE, hints |-> {"quote"}, words |-> TRUE, topic |-> Contents],
    [inquiry |-> TRUE, known |-> FALSE, hints |-> Hints, words |-> FALSE, topic |-> {}],
    [inquiry |-> FALSE, known |-> FALSE, hints |-> {}, words |-> TRUE, topic |-> Contents]}

Symmetry == Permutations(Contents) \cup Permutations(Models) \cup Permutations(Sessions)

=============================================================================
