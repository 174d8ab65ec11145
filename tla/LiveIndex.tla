------------------------------ MODULE LiveIndex ------------------------------
(***************************************************************************)
(* The pages that list live inputs: /feed, /discover, /creators,           *)
(* /creator/[address] and /dashboard.  Each is rendered once, on the       *)
(* server, from what Cloudflare Stream lists at that moment, in the order  *)
(* in which it lists it.  A live is its creation time, so a later live has *)
(* a larger number; names and thumbnails are left out.                     *)
(***************************************************************************)
EXTENDS StableSort

CONSTANTS
  Users, NoUser,      \* creator addresses; no (valid) address
  Lives,              \* bound: live inputs, by creation time
  Inputs,             \* bound: the listings to try, functions from lives
  FeedCards,          \* slice(0, 8) of /feed
  PreviewCards        \* CREATORS_PREVIEW_LIMIT of /discover

ASSUME IndexConstants ==
  /\ Lives \subseteq Nat \ {0} /\ NoUser \notin Users
  /\ FeedCards \in Nat /\ PreviewCards \in Nat

\* what a page reads of a live input; block is the registration's block, or 0
LiveInput == [meta: Users \cup {NoUser}, default: Users \cup {NoUser},
              connected: BOOLEAN, block: Nat]

VARIABLES
  inputs,             \* the account's live inputs: a function from lives
  shown               \* the rendered page
indexVars == <<inputs, shown>>

NotShown == [page |-> "none", of |-> NoUser, listing |-> <<>>, lives |-> <<>>,
             creators |-> <<>>, kpi |-> <<0, 0, 0, 0>>, empty |-> FALSE, links |-> {}]

-----------------------------------------------------------------------------
(* Reading a listing: a sequence of lives *)

\* meta.creatorAddress ?? defaultCreator, which must be an address
creatorAddress(l) ==
  IF inputs[l].meta # NoUser THEN inputs[l].meta ELSE inputs[l].default

\* the ownership filter of the dashboard and of the channel
Owns(user, l) == user \in {inputs[l].meta, inputs[l].default}

Connected(l) == inputs[l].connected
Anchored(l) == inputs[l].block > 0

newestFirst(listing) == Sorted(listing, LAMBDA a, b: a > b)

feedLives(listing) == Take(newestFirst(SelectSeq(listing, Connected)), FeedCards)
discoverLives(listing) == newestFirst(SelectSeq(listing, Connected))
ownedLives(listing, user) == newestFirst(SelectSeq(listing, LAMBDA l: Owns(user, l)))

-----------------------------------------------------------------------------
(* The creators' cards: one pass over the listing fills a Map, whose entries
   keep the order in which their keys came *)

newCard(address, l) ==
  [address |-> address, livesCount |-> 1, hasLiveNow |-> Connected(l),
   lastLive |-> l, anchoredCount |-> IF Anchored(l) THEN 1 ELSE 0]

\* mutant: a creator is on air when the last live listed is
addToForgetting(card, l) ==
  [card EXCEPT !.livesCount = @ + 1,
               !.hasLiveNow = Connected(l),
               !.lastLive = IF l > @ THEN l ELSE @,
               !.anchoredCount = @ + IF Anchored(l) THEN 1 ELSE 0]

addTo(card, l) ==
  [card EXCEPT !.livesCount = @ + 1,
               !.hasLiveNow = @ \/ Connected(l),
               !.lastLive = IF l > @ THEN l ELSE @,
               !.anchoredCount = @ + IF Anchored(l) THEN 1 ELSE 0]

byAddress(listing) ==
  LET Visit(cards, l) ==
        LET address == creatorAddress(l)
            at == {i \in DOMAIN cards : cards[i].address = address}
        IN  IF address = NoUser THEN cards
            ELSE IF at = {} THEN Append(cards, newCard(address, l))
            ELSE [i \in DOMAIN cards |->
                   IF i \in at THEN addTo(cards[i], l) ELSE cards[i]]
  IN  FoldLeft(Visit, <<>>, listing)

\* /discover: on air first, then by lives published
DiscoverBefore(a, b) ==
  IF a.hasLiveNow # b.hasLiveNow THEN a.hasLiveNow ELSE a.livesCount > b.livesCount

\* /creators breaks the ties by the latest live
CreatorsBefore(a, b) ==
  IF a.hasLiveNow # b.hasLiveNow THEN a.hasLiveNow
  ELSE IF a.livesCount # b.livesCount THEN a.livesCount > b.livesCount
  ELSE a.lastLive > b.lastLive

discoverCards(listing) == Sorted(byAddress(listing), DiscoverBefore)
creatorCards(listing) == Sorted(byAddress(listing), CreatorsBefore)

Count(s, P(_)) == Len(SelectSeq(s, P))

-----------------------------------------------------------------------------
(* The sections of the pages: the links on offer, and whether the section says
   instead that there is nothing to list *)

LiveLinks(lives) == {<<"live", l>> : l \in ToSet(lives)}

\* CreatorRow: the card is a link to the creator's channel
CreatorRow(card) == <<"creator", card.address>>
ChannelLinks(cards) == {CreatorRow(card) : card \in ToSet(cards)}

Section(items, links) == [empty |-> items = <<>>, links |-> links]

LiveNowStrip(lives) == Section(lives, {<<"discover">>} \cup LiveLinks(lives))

LivesSection(lives) ==
  Section(lives, IF lives = <<>> THEN {<<"live/new">>} ELSE LiveLinks(lives))

\* a preview, with a link to all the cards when it is cut
CreatorsSection(cards) ==
  Section(cards, ChannelLinks(Take(cards, PreviewCards))
                   \cup (IF Len(cards) > PreviewCards THEN {<<"creators">>} ELSE {}))

CreatorsList(cards) ==
  Section(cards, IF cards = <<>> THEN {<<"live/new">>} ELSE ChannelLinks(cards))

\* the channel's grid of VideoCards
VideoGrid(lives) == Section(lives, LiveLinks(lives))

\* the studio's rows, once the wallet hooks may run (ClientOnly)
TransmissionsSection(lives) == Section(lives, LiveLinks(lives))

-----------------------------------------------------------------------------
(* The pages.  kpi: on air, listed, anchored, last block *)

Render(page, user, lives, creators, kpi, sections, listing) ==
  /\ shown = NotShown
  /\ shown' = [page |-> page, of |-> user, listing |-> listing, lives |-> lives,
               creators |-> creators, kpi |-> kpi,
               empty |-> \E s \in sections : s.empty,
               links |-> UNION {s.links : s \in sections}]
  /\ UNCHANGED inputs

FeedPage(listing) ==
  Render("feed", NoUser, feedLives(listing), <<>>,
         <<Len(feedLives(listing)), 0, 0, 0>>, {LiveNowStrip(feedLives(listing))}, listing)

DiscoverPage(listing) ==
  LET cards == discoverCards(listing)
  IN  Render("discover", NoUser, discoverLives(listing), Take(cards, PreviewCards),
             <<Len(discoverLives(listing)), Len(cards), 0, 0>>,
             {LivesSection(discoverLives(listing)), CreatorsSection(cards)}, listing)

CreatorsPage(listing) ==
  LET cards == creatorCards(listing)
      anchored == FoldLeft(LAMBDA sum, c: sum + c.anchoredCount, 0, cards)
  IN  Render("creators", NoUser, <<>>, cards,
             <<Count(cards, LAMBDA c: c.hasLiveNow), Len(cards), anchored, 0>>,
             {CreatorsList(cards)}, listing)

\* lastRegisterBlock of the channel: 0 when nothing is registered
lastRegisterBlock(lives) ==
  FoldLeft(LAMBDA last, l: IF inputs[l].block > last THEN inputs[l].block ELSE last,
           0, lives)

\* the channel of an address, and the studio of the session's address
CreatorPage(listing, user) ==
  LET lives == ownedLives(listing, user)
  IN  Render("creator", user, lives, <<>>,
             <<Count(lives, Connected), Len(lives), Count(lives, Anchored),
               lastRegisterBlock(lives)>>, {VideoGrid(lives)}, listing)

DashboardPage(listing, user) ==
  LET lives == ownedLives(listing, user)
  IN  Render("dashboard", user, lives, <<>>,
             <<Count(lives, Connected), Len(lives), Count(lives, Anchored), 0>>,
             {TransmissionsSection(lives)}, listing)

\* listLiveInputs: Cloudflare lists the inputs in some order, or fails, which
\* the pages render as an empty list
listLiveInputs == SetToSeqs(DOMAIN inputs) \cup {<<>>}

IndexInit == inputs \in Inputs /\ shown = NotShown

IndexNext ==
  \E listing \in listLiveInputs :
    \/ FeedPage(listing)
    \/ DiscoverPage(listing)
    \/ CreatorsPage(listing)
    \/ \E user \in Users : CreatorPage(listing, user) \/ DashboardPage(listing, user)

-----------------------------------------------------------------------------
IndexTypeOK ==
  /\ DOMAIN inputs \subseteq Lives /\ \A l \in DOMAIN inputs : inputs[l] \in LiveInput
  /\ shown.page \in {"none", "feed", "discover", "creators", "creator", "dashboard"}
  /\ shown.of \in Users \cup {NoUser}
  /\ ToSet(shown.lives) \subseteq DOMAIN inputs /\ shown.empty \in BOOLEAN
  /\ \A i \in DOMAIN shown.creators :
       shown.creators[i] \in [address: Users, livesCount: Nat, hasLiveNow: BOOLEAN,
                              lastLive: Lives, anchoredCount: Nat]

\* The lists of lives are newest first and without repetition, whatever order
\* Cloudflare lists them in, and what a cut list leaves out is older than all it
\* shows (feed/page.tsx:33-36, discover/page.tsx:44-46).
NewestFirst ==
  LET lives == shown.lives
      ofPage(l) == IF shown.page \in {"feed", "discover"} THEN Connected(l)
                   ELSE Owns(shown.of, l)
      left == {l \in ToSet(shown.listing) : ofPage(l)} \ ToSet(lives)
  IN  shown.page \in {"feed", "discover", "creator", "dashboard"} =>
        /\ \A i, j \in DOMAIN lives : i < j => lives[i] > lives[j]
        /\ \A l \in ToSet(lives) : ofPage(l)
        /\ \A l \in left : shown.page = "feed" /\ Len(lives) = FeedCards
                           /\ \A k \in ToSet(lives) : l < k

\* A creator's card says what the creator's channel, rendered from the same
\* listing, shows.  The card counts a live for one address only and the channel
\* claims it for both of its addresses, so the two agree exactly when no live
\* names two (creators/page.tsx:48-73 against creator/[address]/page.tsx:38-61).
CardsMatchChannels ==
  \A i \in DOMAIN shown.creators :
    LET card == shown.creators[i]
        channel == ownedLives(shown.listing, card.address)
        counted == {l \in ToSet(channel) : creatorAddress(l) = card.address}
    IN  /\ card.livesCount = Cardinality(counted)
        /\ card.hasLiveNow = (\E l \in counted : Connected(l))
        /\ card.anchoredCount = Cardinality({l \in counted : Anchored(l)})
        /\ card.lastLive = Max(counted)
        /\ (\A l \in ToSet(channel) : {inputs[l].meta, inputs[l].default}
                                        \subseteq {card.address, NoUser})
             => card.livesCount = Len(channel)
        /\ \A j \in DOMAIN shown.creators : i < j =>
             /\ card.address # shown.creators[j].address
             /\ ~DiscoverBefore(shown.creators[j], card)
             /\ shown.page = "creators" => CreatorsBefore(card, shown.creators[j])

\* A page says that there is nothing to list only when a section has nothing, and
\* every live and every creator of its kind that Cloudflare listed is a link of
\* the page or of the longer page it links to; nothing else is
\* (feed-screen.tsx:151-201, discover/page.tsx:168-270, creators/page.tsx:211-252).
NothingLeftOut ==
  LET kept(P(_)) == LiveLinks(SelectSeq(shown.listing, P))
      channels == {<<"creator", creatorAddress(l)>> : l \in ToSet(shown.listing)}
                    \ {<<"creator", NoUser>>}
      onAir == kept(Connected)
      owned == kept(LAMBDA l: Owns(shown.of, l))
      offered == {k \in shown.links : Len(k) = 2}
  IN  CASE shown.page = "feed" ->
             /\ offered \subseteq onAir /\ shown.empty = (onAir = {})
             /\ <<"discover">> \in shown.links
        [] shown.page = "discover" ->
             /\ offered \subseteq onAir \cup channels /\ onAir \subseteq offered
             /\ channels \subseteq offered \/ <<"creators">> \in shown.links
             /\ shown.empty = (onAir = {} \/ channels = {})
        [] shown.page = "creators" -> offered = channels /\ shown.empty = (channels = {})
        [] shown.page \in {"creator", "dashboard"} ->
             offered = owned /\ shown.empty = (owned = {})
        [] OTHER -> TRUE

\* What a page lists is what Cloudflare listed: the lives of its kind newest
\* first, creators whose cards agree with their channels, and nothing left out.
ListingsTruthful == NewestFirst /\ CardsMatchChannels /\ NothingLeftOut

=============================================================================
