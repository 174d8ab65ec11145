--------------------------- MODULE MCGoLiveScreen ---------------------------
(* Two broadcasts of one visit of the page. *)
EXTENDS GoLiveScreen

MCCast == 1..MaxCasts
MCAvailable == {"cloudflare", "aevia-mesh", "livepeer"}
CloudOnly == {"cloudflare"}
=============================================================================
