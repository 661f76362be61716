------------------------- MODULE SequenceOperators -------------------------
(***************************************************************************)
(* The elements of a sequence that belong to a set, in their order.  This  *)
(* is SelectSeq with a set for its test, as a fold, so that theorems can   *)
(* be proved about what is selected.                                       *)
(***************************************************************************)
EXTENDS SequencesExt

Filter(seq, S) ==
    FoldLeft(LAMBDA kept, e : IF e \in S THEN Append(kept, e) ELSE kept, <<>>, seq)
=============================================================================
