------------------------------ MODULE Website ------------------------------
(***************************************************************************)
(* The project website (apps/network): its routes in two languages, the    *)
(* links and tables of contents of its pages, the language switch, the     *)
(* mobile menu, and what it tells search engines.  A path is the sequence  *)
(* of its segments.                                                        *)
(***************************************************************************)
EXTENDS WebsiteContent, SequencesExt

CONSTANT Addresses    \* bound: the paths a visitor may type

locales == <<"pt-BR", "en">>
defaultLocale == "pt-BR"
isLocale(value) == value \in ToSet(locales)

\* the pages under app/[locale], and what is said of them elsewhere
SLUGS == {"rfc-0", "rfc-1", "rfc-2", "rfc-3", "rfc-4", "rfc-5", "rfc-6", "rfc-7", "rfc-8"}
SPEC_SLUGS == {"rfc-0", "rfc-1", "rfc-2", "rfc-3", "rfc-4", "rfc-5"}
TOP_ROUTES ==
  {<<>>, <<"whitepaper">>, <<"manifesto">>, <<"roadmap">>, <<"providers">>, <<"spec">>,
   <<"aup">>, <<"faq">>, <<"network">>, <<"privacy">>, <<"terms">>, <<"transparency">>}
allRoutes == TOP_ROUTES \cup ({"spec"} \X SPEC_SLUGS)
SitePages == TOP_ROUTES \cup {<<"operator">>} \cup ({"spec"} \X SLUGS)

localePath(locale, page) == <<locale>> \o page

\* mutant: the language is put before the path
switchLocalePathPrefixing(target, path) == <<target>> \o path

switchLocalePath(target, path) ==
  IF path = <<>> THEN <<target>> ELSE [path EXCEPT ![1] = target]

sitemap == {localePath(l, page) : l \in ToSet(locales), page \in allRoutes}

pageMetadata(locale, page) ==
  [canonical |-> localePath(locale, page),
   languages |-> {localePath(l, page) : l \in ToSet(locales)} \cup {localePath(locales[1], page)}]

VARIABLES
  web,                \* the document: path, what was served, the section scrolled to
  menu,               \* MobileMenu's open, and the overflow its effect saved
  overflow,           \* document.body.style.overflow
  wide                \* the window is wide enough to hide the mobile menu
webVars == <<web, menu, overflow, wide>>

-----------------------------------------------------------------------------
(* The links of the pages' bodies, as pages of the same language *)

Landing(locale) == ToSet(getDictionary[locale].portals) \cup {<<"providers">>}
Providers == {<<"spec", "rfc-5">>}
Terms == {<<"aup">>, <<"privacy">>}
Privacy == {<<"aup">>, <<"roadmap">>}
Aup == {<<"privacy">>}
SpecIndex(locale) == {<<"spec", slug>> : slug \in ToSet(getDictionary[locale].cards)}
SpecSlug == {<<"spec">>}
NotFoundLinks == {<<>>, <<"spec">>}

BodyLinks(locale, page) ==
  CASE page = <<>> -> Landing(locale)
    [] page = <<"providers">> -> Providers
    [] page = <<"terms">> -> Terms
    [] page = <<"privacy">> -> Privacy
    [] page = <<"aup">> -> Aup
    [] page = <<"spec">> -> SpecIndex(locale)
    [] page \in {"spec"} \X SLUGS -> SpecSlug
    [] OTHER -> {}

\* the bar's items, which the mobile menu repeats, and the footer
NavItems == {<<"whitepaper">>, <<"spec">>, <<"aup">>, <<"roadmap">>, <<"manifesto">>,
             <<"faq">>, <<"network">>}
Footer == {<<"spec">>, <<"manifesto">>, <<"roadmap">>, <<"providers">>, <<"aup">>,
           <<"privacy">>, <<"terms">>}

\* tables of contents, and the ids their entries scroll to
Contents(locale, page) ==
  CASE page = <<"whitepaper">> -> getDictionary[locale].toc
    [] page = <<"faq">> -> getDictionary[locale].faq
    [] page \in {"spec"} \X SLUGS -> getRFCContent[page[2]][locale].toc
    [] OTHER -> <<>>

Sections(locale, page) ==
  CASE page = <<"whitepaper">> -> WhitepaperBodyByLocale[locale]
    [] page = <<"faq">> -> getDictionary[locale].faq
    [] page \in {"spec"} \X SLUGS -> getRFCContent[page[2]][locale].Body
    [] OTHER -> <<>>

-----------------------------------------------------------------------------
(* Serving a path.  notFound() in the page of an unknown document shows the
   site's own 404 page; no route, or no such language, the framework's *)

middleware(path) == IF path = <<>> THEN <<defaultLocale>> ELSE path

Served(path) ==
  IF ~isLocale(path[1]) THEN "bare404"
  ELSE IF Tail(path) \in SitePages THEN "page"
  ELSE IF Len(path) = 3 /\ path[2] = "spec" THEN "notFound"
  ELSE "bare404"

\* the 404 page is the default language's, as if at its home page
ShownAt == IF web.served = "notFound" THEN <<defaultLocale>> ELSE web.path
Language == ShownAt[1]
HasNav == web.served \in {"page", "notFound"}

NoMenu == [open |-> FALSE, previousOverflow |-> ""]

\* another document unmounts the menu, whose effect restores the overflow
Go(path) ==
  LET at == middleware(path)
  IN  /\ web' = [path |-> at, served |-> Served(at), section |-> ""]
      /\ IF at # web.path /\ menu.open
         THEN menu' = NoMenu /\ overflow' = menu.previousOverflow
         ELSE UNCHANGED <<menu, overflow>>
      /\ UNCHANGED wide

TypeAddress == \E path \in Addresses : Go(path)

PageLinks ==
  LET body == IF web.served = "page" THEN BodyLinks(Language, Tail(web.path))
              ELSE NotFoundLinks
      bar == IF wide THEN {<<>>} \cup NavItems ELSE {<<>>}
  IN  {localePath(Language, page) : page \in bar \cup body \cup Footer}

Switches == {switchLocalePath(l, ShownAt) : l \in ToSet(locales)}

\* the drawer covers the page while it is open in a narrow window
DrawerShown == menu.open /\ ~wide

FollowPageLink ==
  /\ HasNav /\ ~DrawerShown
  /\ \E path \in PageLinks \cup (IF wide THEN Switches ELSE {}) : Go(path)

OpenSection ==
  /\ web.served = "page" /\ ~DrawerShown
  /\ \E id \in ToSet(Contents(Language, Tail(web.path))) :
       web' = [web EXCEPT !.section = id]
  /\ UNCHANGED <<menu, overflow, wide>>

\* setOpen, and the effect that follows it
OpenMenu ==
  /\ HasNav /\ ~wide /\ ~menu.open
  /\ menu' = [open |-> TRUE, previousOverflow |-> overflow]
  /\ overflow' = "hidden"
  /\ UNCHANGED <<web, wide>>

\* the close buttons while the drawer is shown, Escape while it is open
CloseMenu ==
  /\ menu.open
  /\ menu' = NoMenu /\ overflow' = menu.previousOverflow
  /\ UNCHANGED <<web, wide>>

\* an item closes the drawer and is followed
FollowDrawerLink ==
  /\ DrawerShown
  /\ \E path \in {localePath(Language, page) : page \in NavItems} \cup Switches :
       web' = [path |-> path, served |-> Served(path), section |-> ""]
  /\ menu' = NoMenu /\ overflow' = menu.previousOverflow
  /\ UNCHANGED wide

Resize == wide' = ~wide /\ UNCHANGED <<web, menu, overflow>>

WebInit ==
  /\ web = [path |-> <<defaultLocale>>, served |-> "page", section |-> ""]
  /\ menu = NoMenu /\ overflow = "" /\ wide = FALSE

WebNext ==
  \/ TypeAddress \/ FollowPageLink \/ OpenSection
  \/ OpenMenu \/ CloseMenu \/ FollowDrawerLink \/ Resize

-----------------------------------------------------------------------------
WebTypeOK ==
  /\ web.served \in {"page", "notFound", "bare404"}
  /\ web.path # <<>> /\ menu.open \in BOOLEAN /\ wide \in BOOLEAN
  /\ overflow \in {"", "hidden"}

\* A reader can go everywhere in either language: each link of a page, the menu
\* included, leads to a page of the same language, each entry of a table of
\* contents to one section that the other language has too, the language switch
\* to the same page, and search engines are given pages that exist
\* (navigation.ts:3-14, nav.tsx:30-106, spec/[slug]/page.tsx:64-134).
LinksLead ==
  LET page == Tail(ShownAt)
  IN  HasNav =>
        /\ \A path \in PageLinks : Served(path) = "page" /\ path[1] = Language
        /\ \A path \in Switches : Served(path) = "page" /\ Tail(path) = page
        /\ \A path \in pageMetadata(Language, page).languages : Served(path) = "page"
        /\ IsInjective(Sections(Language, page))
        /\ \A l \in ToSet(locales) :
             ToSet(Contents(Language, page)) \subseteq ToSet(Sections(l, page))
        /\ web.section # "" => web.section \in ToSet(Sections(Language, page))

\* The page scrolls unless the menu is open, however the menu was left: by its
\* buttons, Escape, a link, another address or a wider window
\* (mobile-menu.tsx:40-52).
ScrollsWhenClosed == (overflow = "hidden") = menu.open

\* Every page but /operator is in the site map or linked from a page that is, and
\* the site map lists nothing that does not exist (routes.ts:3-26, sitemap.ts:7-25).
PagesFound ==
  /\ \A path \in sitemap : Served(path) = "page"
  /\ \A l \in ToSet(locales), page \in SitePages \ {<<"operator">>} :
       \/ localePath(l, page) \in sitemap
       \/ \E from \in allRoutes : page \in BodyLinks(l, from)

\* The website hangs together.
WebsiteSound == LinksLead /\ ScrollsWhenClosed /\ PagesFound

=============================================================================
