------------------------ MODULE MCLiveRegistration ------------------------
(* One live input, shown by one row; a row that gave up on a request may    *)
(* send the next while the server still works on the first.                 *)
EXTENDS LiveRegistration

CONSTANTS l1, r1

MCLive == {l1}
MCRow == {r1}
MCliveOf == [r \in MCRow |-> l1]
=============================================================================
