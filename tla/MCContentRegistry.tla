------------------------- MODULE MCContentRegistry -------------------------
(***************************************************************************)
(* A small instance of ContentRegistry.  Accounts and CIDs are only ever   *)
(* compared for equality, so permuting them maps behaviours to behaviours. *)
(***************************************************************************)
EXTENDS ContentRegistry, TLC

Interchangeable == Permutations(Address) \cup Permutations(Cid)
============================================================================
