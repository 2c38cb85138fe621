-------------------------- MODULE MCRequestTracker --------------------------
(* A small instance of CSCRequestTracker: the .cfg file gives the constants. *)
EXTENDS CSCRequestTracker, TLC

\* Ids are only compared for equality.
IdSymmetry == Permutations(RequestIds)
=============================================================================
