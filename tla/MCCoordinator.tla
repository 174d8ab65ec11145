--------------------------- MODULE MCCoordinator ---------------------------
(***************************************************************************)
(* Small instances of Coordinator: one viewer, one or two providers.       *)
(***************************************************************************)
EXTENDS Coordinator

CONSTANTS p1, p2

MCPeerOrder == SelectSeq(<<p1, p2>>, LAMBDA p : p \in Provider)
============================================================================
