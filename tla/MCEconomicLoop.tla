--------------------------- MODULE MCEconomicLoop ---------------------------
(***************************************************************************)
(* Small instances of EconomicLoop: two providers, owned by two operators  *)
(* or by the same one, and a creator who funds the pool.                   *)
(***************************************************************************)
EXTENDS EconomicLoop

CONSTANTS p1, p2, alice, bob, pool

MCPeerOrder == <<p1, p2>>

MCBalance == [a \in {alice, bob, pool} |-> IF a = alice THEN 6 ELSE 0]

\* PeerIDs sort p1, p2; the addresses need not sort the same way.
OneEach == [p \in {p1, p2} |-> IF p = p1 THEN bob ELSE alice]

BothBob == [p \in {p1, p2} |-> bob]
=============================================================================
