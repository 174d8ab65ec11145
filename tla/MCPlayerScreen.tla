--------------------------- MODULE MCPlayerScreen ---------------------------
(***************************************************************************)
(* Small instances of PlayerScreen: two providers and the pages a viewer   *)
(* may open.                                                               *)
(***************************************************************************)
EXTENDS PlayerScreen

OnePage(kind, cands, forceHls, p2p, native, onAir) ==
  [kind |-> kind, cands |-> cands, forceHls |-> forceHls, p2p |-> p2p,
   native |-> native, onAir |-> onAir]

CONSTANTS p1, p2

MeshPage == OnePage("mesh", <<p1, p2>>, FALSE, FALSE, FALSE, TRUE)
BootPage == OnePage("mesh", <<p1>>, FALSE, TRUE, FALSE, TRUE)
HubPage == OnePage("mesh", <<>>, FALSE, FALSE, FALSE, TRUE)
CloudPage == OnePage("cloudflare", <<>>, FALSE, FALSE, FALSE, TRUE)
PopPage == OnePage("livepeer", <<>>, FALSE, FALSE, FALSE, TRUE)
ReplayPage == OnePage("cloudflare", <<>>, FALSE, FALSE, FALSE, FALSE)
HlsPage == OnePage("mesh", <<p1, p2>>, TRUE, TRUE, FALSE, TRUE)
NativePage == OnePage("mesh", <<p1, p2>>, TRUE, FALSE, TRUE, TRUE)

AllPages == {MeshPage, BootPage, HubPage, CloudPage, PopPage, ReplayPage, HlsPage, NativePage}
WhepPages == {MeshPage, HubPage, CloudPage}
ForcedPages == {HlsPage, NativePage}
CloudPages == {CloudPage}
=============================================================================
