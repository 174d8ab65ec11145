--------------------------- MODULE MCLiveSession ---------------------------
(***************************************************************************)
(* Small instances of LiveSession: a segment is 4 ticks, a part 2.         *)
(***************************************************************************)
EXTENDS LiveSession
============================================================================
