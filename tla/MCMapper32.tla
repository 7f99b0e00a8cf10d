----------------------------- MODULE MCMapper32 -----------------------------
(* The Mapper with two threads and an address space of a few pages. *)
EXTENDS Mapper32, TLC

CONSTANTS t1, t2,
          MaxRough  \* bound on the kinds of events that are met on the way

MCFewEvents == Cardinality(rough) <= MaxRough

MCSymmetry == Permutations(Threads)

=============================================================================
