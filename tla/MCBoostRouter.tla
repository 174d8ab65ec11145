--------------------------- MODULE MCBoostRouter ---------------------------
(***************************************************************************)
(* A small instance of BoostRouter: two accounts, one of which is also the *)
(* LLC treasury, basis points out of 10.                                   *)
(***************************************************************************)
EXTENDS BoostRouter

CONSTANTS alice, bob, router, pool, fund

MCBalance ==
  [a \in {alice, bob, router, pool, fund} |-> IF a = alice THEN 12 ELSE 0]

MCSplit == [creator |-> 5, pool |-> 3, llc |-> 1, council |-> 1]

MCSplits ==
  { [creator |-> 0, pool |-> 3, llc |-> 4, council |-> 3],
    [creator |-> 5, pool |-> 3, llc |-> 1, council |-> 0],
    [creator |-> 9, pool |-> 3, llc |-> 1, council |-> 0] }
============================================================================
