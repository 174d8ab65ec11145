------------------------------ MODULE AppPages ------------------------------
(***************************************************************************)
(* Walking through the video application by its links.  A route is a       *)
(* sequence: the page, and the live or the creator it is about.  A page    *)
(* keeps the links it was rendered with while lives are deleted and the    *)
(* session ends behind it; wording and layout are left out, links to other *)
(* sites and to the block explorer too.                                    *)
(***************************************************************************)
EXTENDS LiveIndex

VARIABLES
  visit,              \* the page in the tab: route, ?next of the sign-in page,
                      \* for whom rendered, links
  viewer,             \* the signed-in user, if any
  removed             \* the lives deleted so far
pageVars == <<visit, viewer, removed>>

Guarded == {<<"dashboard">>, <<"wallet">>, <<"live/new">>}
Routes ==
  Guarded \cup {<<"/">>, <<"feed">>, <<"discover">>, <<"creators">>, <<"trust">>, <<"aup">>}
    \cup ({"live", "missing"} \X Lives) \cup ({"creator"} \X Users)
Addressable ==
  {route \in Routes : route[1] # "missing" /\ (route[1] = "live" => route[2] \in DOMAIN inputs)}

-----------------------------------------------------------------------------
(* The bars and blocks that hold links *)

BottomNav == {<<"feed">>, <<"discover">>, <<"live/new">>, <<"creators">>, <<"dashboard">>}

\* the slots drawn as active for a pathname
ActiveSlots(route) ==
  {slot \in BottomNav \ {<<"live/new">>} :
     \/ slot = route
     \/ slot = <<"creators">> /\ route[1] = "creator"
     \/ slot = <<"dashboard">> /\ route = <<"wallet">>}

\* TopChrome of the feed: the credits, or a way in
FeedChrome(user) == {<<"feed">>, IF user # NoUser THEN <<"wallet">> ELSE <<"/">>}
CuratorialCard == {<<"discover">>}
FeedPostsPreview == {<<"discover">>}

\* the TopChrome of the pages that only lead back to the feed
DiscoverChrome == {<<"feed">>}
CreatorsChrome == {<<"feed">>}
AupChrome == {<<"feed">>}
GoLiveChrome == {<<"feed">>}
AupAcknowledgment == {<<"aup">>}

\* the channel's bar, and back
CreatorChrome == {<<"/">>, <<"dashboard">>}

StudioChrome == {<<"feed">>, <<"wallet">>}
WalletPreviewCard == {<<"wallet">>}
SecondaryLinks == {<<"trust">>, <<"aup">>}
PrimaryCta == {<<"live/new">>}
WalletChrome == {<<"dashboard">>}

TrustChrome == {<<"feed">>}
HeroAxiom == {<<"aup">>}
CouncilBlock == {<<"aup">>}
ViewerHistoryBlock(user) == IF user = NoUser THEN {<<"/">>} ELSE {}

SignInScreenView == {<<"aup">>}
LiveNotFound == {<<"feed">>, <<"discover">>}

\* the player's bar and title name the creator when the live names an address
creatorHref(l) ==
  IF creatorAddress(l) # NoUser THEN <<"creator", creatorAddress(l)>> ELSE <<"discover">>
PlayerChrome(l) == {<<"feed">>, creatorHref(l)}
TitleBlock(l) == {creatorHref(l)}

-----------------------------------------------------------------------------
(* The pages *)

Links(route, user, listing) ==
  CASE route = <<"/">> -> SignInScreenView
    [] route = <<"feed">> ->
         FeedChrome(user) \cup LiveNowStrip(feedLives(listing)).links \cup CuratorialCard
           \cup FeedPostsPreview \cup BottomNav
    [] route = <<"discover">> ->
         DiscoverChrome \cup LivesSection(discoverLives(listing)).links
           \cup CreatorsSection(discoverCards(listing)).links \cup BottomNav
    [] route = <<"creators">> ->
         CreatorsChrome \cup CreatorsList(creatorCards(listing)).links \cup BottomNav
    [] route[1] = "creator" ->
         CreatorChrome \cup VideoGrid(ownedLives(listing, route[2])).links \cup BottomNav
    [] route = <<"dashboard">> ->
         StudioChrome \cup WalletPreviewCard \cup PrimaryCta \cup SecondaryLinks
           \cup TransmissionsSection(ownedLives(listing, user)).links \cup BottomNav
    [] route = <<"wallet">> -> WalletChrome \cup BottomNav
    [] route = <<"live/new">> -> GoLiveChrome \cup AupAcknowledgment \cup BottomNav
    [] route = <<"trust">> ->
         TrustChrome \cup HeroAxiom \cup CouncilBlock \cup ViewerHistoryBlock(user)
           \cup BottomNav
    [] route = <<"aup">> -> AupChrome \cup BottomNav
    [] route[1] = "live" -> PlayerChrome(route[2]) \cup TitleBlock(route[2]) \cup BottomNav
    [] route[1] = "missing" -> LiveNotFound

safeNext(next, fallback) == IF next = <<>> THEN fallback ELSE next

\* a live's page, or the 404 page if it is gone or Cloudflare fails
Found(route) ==
  IF route[1] # "live" THEN {route}
  ELSE {<<"missing", route[2]>>} \cup (IF route[2] \in removed THEN {} ELSE {route})

\* where a request for a route may end: the sign-in page stands in for a guarded
\* page, and ?next or the feed for the sign-in page
Answered(route, next, user) ==
  CASE route \in Guarded /\ user = NoUser -> {<<"/">>}
    [] route = <<"/">> /\ user # NoUser -> Found(safeNext(next, <<"feed">>))
    [] OTHER -> Found(route)

\* the middleware notes the guarded page in ?next, the page's own redirect does not
NextOf(route, next) ==
  CASE route = <<"/">> -> {next}
    [] route \in Guarded -> {route, <<>>}
    [] OTHER -> {<<>>}

\* Cloudflare lists what is left of the account, in some order, or fails
Listed == SetToSeqs(DOMAIN inputs \ removed) \cup {<<>>}

Opened(route, next, user) ==
  {[route |-> at, next |-> IF at = <<"/">> THEN n ELSE <<>>, by |-> user,
    links |-> Links(at, user, listing)] :
      at \in Answered(route, next, user), n \in NextOf(route, next), listing \in Listed}

FollowLink ==
  /\ \E route \in visit.links : visit' \in Opened(route, <<>>, viewer)
  /\ UNCHANGED <<viewer, removed>>

\* an address typed or shared: any route but the 404 page, which has none; that of
\* the sign-in page may name a page to go on to
OpenAddress ==
  /\ \E route \in Addressable :
       \/ visit' \in Opened(route, <<>>, viewer)
       \/ visit' \in Opened(<<"/">>, route, viewer) /\ route # <<"/">>
  /\ UNCHANGED <<viewer, removed>>

\* the document that window.location.replace loads after signing in
SignsIn ==
  /\ visit.route = <<"/">> /\ viewer = NoUser
  /\ \E user \in Users :
       /\ viewer' = user
       /\ visit' \in Opened(safeNext(visit.next, <<"dashboard">>), <<>>, user)
  /\ UNCHANGED removed

\* the session ends behind the page
SessionEnds == viewer # NoUser /\ viewer' = NoUser /\ UNCHANGED <<visit, removed>>

LiveDeleted ==
  /\ \E l \in DOMAIN inputs \ removed : removed' = removed \cup {l}
  /\ UNCHANGED <<visit, viewer>>

PagesInit ==
  /\ viewer = NoUser /\ removed = {}
  /\ visit = [route |-> <<"/">>, next |-> <<>>, by |-> NoUser, links |-> SignInScreenView]

PagesNext == FollowLink \/ OpenAddress \/ SignsIn \/ SessionEnds \/ LiveDeleted

-----------------------------------------------------------------------------
PagesTypeOK ==
  /\ visit.route \in Routes /\ visit.next \in Routes \cup {<<>>} /\ visit.by \in Users \cup {NoUser}
  /\ viewer \in Users \cup {NoUser} /\ removed \subseteq DOMAIN inputs

\* Nobody gets lost in the application, whatever was deleted or signed out since
\* the page was rendered: every link names a page, a guarded page was rendered
\* for somebody, the feed is a link away from every page but the sign-in page and
\* two from there, a visitor who is not signed in is at most a link away from the
\* sign-in page, and at most one slot of the bottom bar is lit
\* (bottom-nav.tsx:29-67, live/[id]/not-found.tsx:13-49).
NobodyLost ==
  LET feed == <<"feed">>
  IN  /\ visit.links \subseteq Routes /\ visit.links # {}
      /\ visit.route \in Guarded => visit.by # NoUser
      /\ IF visit.route = <<"/">> THEN \E k \in visit.links : feed \in Links(k, viewer, <<>>)
         ELSE feed \in visit.links
      /\ visit.route[1] \notin {"/", "missing"} /\ viewer = NoUser =>
           \E k \in visit.links : Answered(k, <<>>, viewer) = {<<"/">>}
      /\ Cardinality(ActiveSlots(visit.route)) <= 1

=============================================================================
