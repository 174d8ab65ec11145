-------------------------------- MODULE Site --------------------------------
(***************************************************************************)
(* The web sites around the player and the studio: sessions and publisher  *)
(* tokens, the pages that list lives and the links between all pages, the  *)
(* pages that report on the mesh, and the project website.  A browser tab  *)
(* is opened on one of these parts, which share no state.                  *)
(***************************************************************************)
EXTENDS WebSession, AppPages, MeshDirectory, Website

CONSTANTS
  Parts,              \* bound: the parts of the site to look at
  Browsed             \* bound: the listings to walk through the pages with

\* a session as a whole, or, to keep it small, either with all that happens to
\* cookies and requests or with publisher tokens
ASSUME SiteConstants ==
  Parts \subseteq {"session", "cookies", "tokens", "index", "pages", "mesh", "website"}

VARIABLE part
siteVars == <<part, sessionVars, indexVars, directoryVars, pageVars, webVars>>

\* the listings are varied for the parts that render them
SiteInit ==
  /\ part \in Parts
  /\ IndexInit
  /\ part # "index" =>
       inputs \in IF part = "pages" THEN Browsed ELSE {CHOOSE i \in Inputs : TRUE}
  /\ SessionInit /\ (part \notin {"session", "cookies"} => ~devBypass)
  /\ DirectoryInit /\ PagesInit /\ WebInit

InSession(half, A) ==
  /\ part = "session" \/ part \in half
  /\ A
  /\ UNCHANGED <<part, indexVars, directoryVars, pageVars, webVars>>
InMesh(A) ==
  part = "mesh" /\ A /\ UNCHANGED <<part, sessionVars, indexVars, pageVars, webVars>>

SiteNext ==
  \/ InSession({"cookies"}, Browsing)
  \/ InSession({"tokens"}, DashboardVisits \/ Publishing)
  \/ /\ part = "index" /\ IndexNext
     /\ UNCHANGED <<part, sessionVars, directoryVars, pageVars, webVars>>
  \/ /\ part = "pages" /\ PagesNext
     /\ UNCHANGED <<part, sessionVars, indexVars, directoryVars, webVars>>
  \/ InMesh(DirectoryNext)
  \/ /\ part = "website" /\ WebNext
     /\ UNCHANGED <<part, sessionVars, indexVars, directoryVars, pageVars>>

\* the server answers; what a timer watches ends; the map's interval fires, and
\* its answers are not lost for ever.  Nothing ends a body that stalls.
SiteFairness ==
  /\ WF_siteVars(InSession({"cookies", "tokens"}, Serve) \/ InMesh(TimedStep))
  /\ \A s \in 1..MaxPolls :
       WF_siteVars(InMesh(PollStarts(s))) /\ SF_siteVars(InMesh(PollSucceeds(s)))

SiteSpec == SiteInit /\ [][SiteNext]_siteVars /\ SiteFairness

\* Every variable of the site has its type.
SiteTypeOK ==
  /\ part \in Parts /\ SessionTypeOK /\ IndexTypeOK /\ DirectoryTypeOK
  /\ PagesTypeOK /\ WebTypeOK

\* The pages that report on the mesh do not make things up: the player's
\* candidates come as the relays listed them, a ranking goes by region, distance and
\* order, and the trust page shows percentiles as measured.
DirectoryHonest == CandidatesInOrder /\ RankSound /\ TrustHonest

\* What the pages say is so, and where their links lead there is a page: the
\* listings agree with Cloudflare's, nobody is lost in the application, the
\* website's two languages hang together, and the mesh is reported as measured.
PagesTruthful ==
  /\ part = "index" => ListingsTruthful
  /\ part = "pages" => NobodyLost
  /\ part = "website" => WebsiteSound
  /\ DirectoryHonest

\* Every page is rendered in the end: redirects do not chase each other, and relays
\* and nodes that fail or are silent keep no page waiting; one that stalls in the
\* middle of a body can.
EveryPageRenders == NavigationSettles /\ PagesRender

\* Nobody is kept waiting for ever but by a stalled body: pages render, and the map
\* comes to show what is so (login-button.tsx:10-24, resolve.ts:146-184,
\* network-map.tsx:59-74).
NobodyKeptWaiting == EveryPageRenders /\ MapCatchesUp
=============================================================================
