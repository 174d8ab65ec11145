------------------------- MODULE MCPersistencePool -------------------------
(***************************************************************************)
(* A small instance of PersistencePool: two accounts that are creators and *)
(* providers at once, so that tokens paid out can be deposited again.      *)
(***************************************************************************)
EXTENDS PersistencePool

CONSTANTS alice, bob, pool

MCBalance == [a \in {alice, bob, pool} |-> IF a = alice THEN 3 ELSE IF a = bob THEN 1 ELSE 0]
============================================================================
