--------------------------- MODULE MCOwnerReview ---------------------------
(* OwnerReview for TLC. *)
EXTENDS OwnerReview, TLC

RequestSymmetry == Permutations(Requests)

AllKinds == RequestKinds
=============================================================================
