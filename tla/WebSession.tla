----------------------------- MODULE WebSession -----------------------------
(***************************************************************************)
(* Who the web application thinks it is talking to: Privy's cookies, the   *)
(* middleware, readAeviaSession, the redirects between / and the protected *)
(* pages, signing in and out, and the publisher tokens with which an       *)
(* external encoder broadcasts through the WHIP proxy.  One browser tab;   *)
(* other tabs share its cookies.  Every request is answered with the       *)
(* cookies it carries, each redirect is a request of its own, and Privy's  *)
(* API may fail at any of them.                                            *)
(***************************************************************************)
EXTENDS Naturals, Sequences, FiniteSets

CONSTANTS
  Account, NoAccount, \* Privy users, by address
  OwnerOf,            \* the creator of each live input
  Visits,             \* bound: the paths and ?next values of visits, as pairs
  TTL,                \* lifetime of a publisher token
  MaxNow,             \* bound: the clock of the publisher tokens
  MaxLogins,          \* bound: sign-ins
  MaxMints,           \* bound: publisher tokens minted
  MaxCalls            \* bound: calls of the mint route under way at once

Protected == {"/dashboard", "/live/new", "/wallet"}
Path == Protected \cup {"/", "/feed"}

\* the values of ?next=: a path of the site, none, or something else
Next_ == Path \cup {"", "elsewhere"}

ASSUME SessionConstants ==
  /\ Account # {} /\ NoAccount \notin Account
  /\ OwnerOf \in [DOMAIN OwnerOf -> Account] /\ 0 \notin DOMAIN OwnerOf
  /\ Visits \subseteq Path \X Next_
  /\ TTL \in Nat \ {0} /\ MaxNow \in Nat /\ MaxLogins \in Nat /\ MaxMints \in Nat
  /\ MaxCalls \in Nat

\* a token cookie: whose it is, what its linked accounts hold (an access token
\* has none), and whether it still verifies
NoToken == [user |-> NoAccount, accounts |-> "none", fresh |-> FALSE]
Token == [user: Account, accounts: {"none", "noWallet", "wallet"}, fresh: BOOLEAN]

VARIABLES
  devBypass,          \* AEVIA_DEV_BYPASS_AUTH
  jar,                \* cookies: id and access token, refresh token's user
  authenticated,      \* the user Privy's SDK sees in this tab
  tab,                \* the document: path, ?next, stage, and for whom rendered
  logins,             \* sign-ins so far
  panel,              \* the OBS panel that is open on the dashboard
  calls,              \* the panels' calls of the mint route
  minted,             \* publisher tokens: live, minter, expiry
  gone,               \* live inputs deleted
  onAir,              \* the last publish the proxy let through
  now
sessionVars == <<devBypass, jar, authenticated, tab, logins, panel, calls, minted,
                 gone, onAir, now>>
tokenVars == <<panel, calls, minted, gone, onAir, now>>

Mock == CHOOSE u \in Account : TRUE   \* the dev-bypass session's user

-----------------------------------------------------------------------------
(* The server's view of a request *)

\* mutant: the expiry is not checked
verifyPrivyJwtAnyAge(token) == TRUE

verifyPrivyJwt(token) == token.fresh

\* null without an Ethereum wallet
userToSession(user, accounts) == IF accounts = "wallet" THEN user ELSE NoAccount

\* parseLinkedAccounts and userFromIdentityTokenPayload
identitySession(token) ==
  IF token # NoToken /\ verifyPrivyJwt(token) THEN userToSession(token.user, token.accounts)
  ELSE NoAccount

\* api: what Privy's user endpoint says of the account, or "fails"
fetchPrivyUser(token, api) ==
  IF token # NoToken /\ verifyPrivyJwt(token) THEN userToSession(token.user, api)
  ELSE NoAccount

readAeviaSession(api) ==
  IF devBypass THEN Mock
  ELSE IF identitySession(jar.id) # NoAccount THEN identitySession(jar.id)
  ELSE fetchPrivyUser(jar.access, api)

ApiAnswer == {"wallet", "noWallet", "fails"}

hasPrivyCookie == jar.id # NoToken \/ jar.access # NoToken \/ jar.refresh # NoAccount

\* mutant: ?next is taken as it comes
safeNextPathAny(next, fallback) == IF next = "" THEN fallback ELSE next

safeNextPath(next, fallback) == IF next \in Path THEN next ELSE fallback

-----------------------------------------------------------------------------
(* The tab *)

Request(path, next, oauth) ==
  [path |-> path, next |-> next, oauth |-> oauth, stage |-> "request",
   viewer |-> NoAccount]
Page(viewer) == [tab EXCEPT !.stage = "page", !.viewer = viewer]

\* data: the token shown, or 0
ClosedPanel == [live |-> 0, loading |-> FALSE, data |-> 0]

\* a call: whom the cookies it carries stand for, whether its panel is still there,
\* and the token of its answer, 0 for an error
Call == [at: {"idle", "sent", "answer"}, live: DOMAIN OwnerOf \cup {0},
         by: Account \cup {NoAccount}, mine: BOOLEAN, token: 0..MaxMints]
NoCall == [at |-> "idle", live |-> 0, by |-> NoAccount, mine |-> FALSE, token |-> 0]

\* nobody reads the answers any more; the server may still get the requests
Orphaned ==
  [c \in 1..MaxCalls |-> IF calls[c].at = "sent" THEN [calls[c] EXCEPT !.mine = FALSE]
                         ELSE NoCall]

\* leaving a document closes its panel
Leave(request) == tab' = request /\ panel' = ClosedPanel /\ calls' = Orphaned

\* middleware: a protected path needs some cookie of Privy's, or an OAuth answer
middlewarePasses == devBypass \/ tab.oauth \/ tab.path \notin Protected \/ hasPrivyCookie

\* the middleware and the page's server component answer the request
Serve ==
  /\ tab.stage = "request"
  /\ \E api \in ApiAnswer :
       LET session == readAeviaSession(api)
       IN  IF ~middlewarePasses THEN tab' = Request("/", tab.path, FALSE)
           ELSE IF tab.path = "/" /\ session # NoAccount
             THEN tab' = Request(safeNextPath(tab.next, "/feed"), "", FALSE)
           ELSE IF tab.path \in Protected /\ session = NoAccount
             THEN tab' = Request("/", "", FALSE)
           ELSE tab' = Page(session)
  /\ UNCHANGED <<devBypass, jar, authenticated, logins, tokenVars>>

\* a link of the site, a typed address or one that was sent
Visit(path, next) ==
  /\ tab.stage = "page"
  /\ Leave(Request(path, next, FALSE))
  /\ UNCHANGED <<devBypass, jar, authenticated, logins, minted, gone, onAir, now>>

-----------------------------------------------------------------------------
(* Signing in and out.  ClientOnly shows live controls only with Privy's
   provider, which the dev bypass leaves out *)

SignInScreen == tab.stage = "page" /\ tab.path = "/" /\ ~devBypass

\* the buttons are disabled for a user the SDK already knows
LoginEnabled == SignInScreen /\ authenticated = NoAccount

\* Privy's modal is finished, here or on the way back from an OAuth provider;
\* the identity token may be missing or lack the wallet being made
onComplete(user, accounts) ==
  /\ LoginEnabled /\ logins < MaxLogins
  /\ logins' = logins + 1
  /\ jar' = [id |-> IF accounts = "none" THEN NoToken
                    ELSE [user |-> user, accounts |-> accounts, fresh |-> TRUE],
             access |-> [user |-> user, accounts |-> "none", fresh |-> TRUE],
             refresh |-> user]
  /\ authenticated' = user
  /\ Leave(Request(safeNextPath(tab.next, "/dashboard"), "", FALSE))
  /\ UNCHANGED <<devBypass, minted, gone, onAir, now>>

\* google and apple leave the site and come back with a code
loginWithOauth ==
  /\ LoginEnabled /\ ~tab.oauth
  /\ Leave(Request("/", tab.next, TRUE))
  /\ UNCHANGED <<devBypass, jar, authenticated, logins, minted, gone, onAir, now>>

\* LogoutButton, on the dashboard
logout ==
  /\ tab.stage = "page" /\ tab.path = "/dashboard" /\ ~devBypass
  /\ jar' = [id |-> NoToken, access |-> NoToken, refresh |-> NoAccount]
  /\ authenticated' = NoAccount
  /\ Leave(Request("/", "", FALSE))
  /\ UNCHANGED <<devBypass, logins, minted, gone, onAir, now>>

\* the SDK of an open page renews what has run out
refreshTokens ==
  /\ tab.stage = "page" /\ jar.refresh # NoAccount /\ ~devBypass
  /\ \E accounts \in {"none", "noWallet", "wallet"} :
       jar' = [jar EXCEPT
         !.access = [user |-> jar.refresh, accounts |-> "none", fresh |-> TRUE],
         !.id = IF accounts = "none" THEN NoToken
                ELSE [user |-> jar.refresh, accounts |-> accounts, fresh |-> TRUE]]
  /\ authenticated' = jar.refresh
  /\ UNCHANGED <<devBypass, tab, logins, tokenVars>>

\* time passes: a token no longer verifies, or its cookie is dropped
tokenExpires ==
  /\ \E c \in {"id", "access"} :
       \/ jar[c].fresh /\ jar' = [jar EXCEPT ![c].fresh = FALSE]
       \/ jar[c] # NoToken /\ jar' = [jar EXCEPT ![c] = NoToken]
  /\ UNCHANGED <<devBypass, authenticated, tab, logins, tokenVars>>

\* another tab signs out, or in as somebody
otherTab ==
  /\ logins < MaxLogins /\ ~devBypass
  /\ logins' = logins + 1
  /\ \E user \in Account \cup {NoAccount} :
       jar' = IF user = NoAccount
              THEN [id |-> NoToken, access |-> NoToken, refresh |-> NoAccount]
              ELSE [id |-> NoToken, refresh |-> user,
                    access |-> [user |-> user, accounts |-> "none", fresh |-> TRUE]]
  /\ UNCHANGED <<devBypass, authenticated, tab, tokenVars>>

-----------------------------------------------------------------------------
(* Publisher tokens.  minted is a sequence; a token is its position *)

\* mint() calls the route with the cookies of this moment, and waits
Asks(live) ==
  \E c \in 1..MaxCalls, api \in ApiAnswer :
    /\ calls[c] = NoCall /\ \A d \in 1..(c - 1) : calls[d] # NoCall
    /\ calls' = [calls EXCEPT ![c] = [at |-> "sent", live |-> live, mine |-> TRUE,
                                      by |-> readAeviaSession(api), token |-> 0]]

\* the dashboard lists the viewer's lives, and a button of a row opens and closes
\* its panel; the rows share nothing, so that one open panel is enough.  A panel
\* mints when it opens.  Without Privy's provider the rows stay skeletons.
OpenPanel(live) ==
  /\ tab.stage = "page" /\ tab.path = "/dashboard" /\ tab.viewer = OwnerOf[live]
  /\ ~devBypass /\ panel.live = 0
  /\ panel' = [ClosedPanel EXCEPT !.live = live, !.loading = TRUE]
  /\ Asks(live)
  /\ UNCHANGED <<devBypass, jar, authenticated, tab, logins, minted, gone, onAir, now>>

ClosePanel ==
  /\ panel.live # 0
  /\ panel' = ClosedPanel /\ calls' = Orphaned
  /\ UNCHANGED <<devBypass, jar, authenticated, tab, logins, minted, gone, onAir, now>>

\* mutant: the button is not disabled while a mint is under way
mintImpatient ==
  /\ panel.live # 0
  /\ panel' = [panel EXCEPT !.loading = TRUE]
  /\ Asks(panel.live)
  /\ UNCHANGED <<devBypass, jar, authenticated, tab, logins, minted, gone, onAir, now>>

\* "gerar novo" and "tentar de novo" are disabled while a mint is under way
mint ==
  /\ panel.live # 0 /\ ~panel.loading
  /\ panel' = [panel EXCEPT !.loading = TRUE]
  /\ Asks(panel.live)
  /\ UNCHANGED <<devBypass, jar, authenticated, tab, logins, minted, gone, onAir, now>>

Answers(c, token) ==
  calls' = [calls EXCEPT ![c] = IF @.mine THEN [@ EXCEPT !.at = "answer", !.token = token]
                                ELSE NoCall]

\* POST /api/lives/[id]/publisher-token: a token for the owner of a live that is
\* there; or 401, 404, 403, 503, or the request does not get through
mintPublisherToken(c) ==
  /\ calls[c].at = "sent"
  /\ \/ /\ calls[c].live \notin gone /\ OwnerOf[calls[c].live] = calls[c].by
        /\ Len(minted) < MaxMints
        /\ minted' = Append(minted, [live |-> calls[c].live, by |-> calls[c].by,
                                     exp |-> now + TTL])
        /\ Answers(c, Len(minted) + 1)
     \/ Answers(c, 0) /\ UNCHANGED minted
  /\ UNCHANGED <<devBypass, jar, authenticated, tab, logins, panel, gone, onAir, now>>

\* an error, or an answer that is lost, leaves the token the panel shows
mintAnswered(c) ==
  /\ calls[c].at = "answer"
  /\ \E token \in {0, calls[c].token} :
       panel' = [panel EXCEPT !.loading = FALSE, !.data = IF token = 0 THEN @ ELSE token]
  /\ calls' = [calls EXCEPT ![c] = NoCall]
  /\ UNCHANGED <<devBypass, jar, authenticated, tab, logins, minted, gone, onAir, now>>

verifyPublisherToken(token) == now < token.exp

authorise(token, live) == verifyPublisherToken(token) /\ token.live = live

\* POST /api/lives/[id]/whip: somebody with a token publishes to a live; the
\* proxy looks the live up and forwards to its own endpoint
whipPost(t, live) ==
  /\ authorise(minted[t], live) /\ live \notin gone
  /\ onAir' = [live |-> live, token |-> t, at |-> now]
  /\ UNCHANGED <<devBypass, jar, authenticated, tab, logins, panel, calls, minted, gone,
                 now>>

\* the creator deletes a row of the dashboard (app/actions.ts)
deleteLive(live) ==
  /\ tab.stage = "page" /\ tab.path = "/dashboard" /\ tab.viewer = OwnerOf[live]
  /\ readAeviaSession("wallet") = OwnerOf[live] /\ live \notin gone
  /\ gone' = gone \cup {live}
  /\ UNCHANGED <<devBypass, jar, authenticated, tab, logins, panel, calls, minted, onAir,
                 now>>

\* nothing but publisher tokens tells the time
Tick ==
  /\ minted # <<>> /\ now < MaxNow /\ now' = now + 1
  /\ UNCHANGED <<devBypass, jar, authenticated, tab, logins, panel, calls, minted, gone,
                 onAir>>

-----------------------------------------------------------------------------
NoPublish == [live |-> 0, token |-> 0, at |-> 0]

SessionInit ==
  /\ devBypass \in BOOLEAN
  /\ jar = [id |-> NoToken, access |-> NoToken, refresh |-> NoAccount]
  /\ authenticated = NoAccount
  /\ tab = [Request("/", "", FALSE) EXCEPT !.stage = "page"]
  /\ logins = 0 /\ panel = ClosedPanel /\ calls = [c \in 1..MaxCalls |-> NoCall]
  /\ minted = <<>> /\ gone = {}
  /\ onAir = NoPublish /\ now = 0

SignIn ==
  \/ \E user \in Account, accounts \in {"none", "noWallet", "wallet"} :
       onComplete(user, accounts)
  \/ loginWithOauth \/ logout

Publishing ==
  \/ \E live \in DOMAIN OwnerOf : OpenPanel(live) \/ deleteLive(live)
  \/ ClosePanel \/ mint
  \/ \E c \in 1..MaxCalls : mintPublisherToken(c) \/ mintAnswered(c)
  \/ \E t \in DOMAIN minted, live \in DOMAIN OwnerOf : whipPost(t, live)
  \/ Tick

Browsing ==
  \/ Serve
  \/ \E v \in Visits : Visit(v[1], v[2])
  \/ SignIn \/ refreshTokens \/ tokenExpires \/ otherTab

\* as much of it as takes a creator to the dashboard, and away from it
DashboardVisits ==
  \/ Serve \/ Visit("/dashboard", "") \/ logout \/ otherTab
  \/ \E user \in Account : onComplete(user, "wallet")

-----------------------------------------------------------------------------
SessionTypeOK ==
  /\ devBypass \in BOOLEAN
  /\ jar \in [id: Token \cup {NoToken}, access: Token \cup {NoToken},
              refresh: Account \cup {NoAccount}]
  /\ authenticated \in Account \cup {NoAccount}
  /\ tab \in [path: Path, next: Next_, oauth: BOOLEAN, stage: {"request", "page"},
              viewer: Account \cup {NoAccount}]
  /\ logins \in 0..MaxLogins /\ now \in 0..MaxNow
  /\ panel \in [live: DOMAIN OwnerOf \cup {0}, loading: BOOLEAN, data: 0..MaxMints]
  /\ calls \in [1..MaxCalls -> Call]
  /\ minted \in Seq([live: DOMAIN OwnerOf, by: Account, exp: Nat])
  /\ onAir.token \in 0..Len(minted)

\* A protected page is rendered for somebody, and only for the user a token that
\* verified at that request belongs to, whichever of Privy's cookies the
\* middleware let pass (middleware.ts:31-62, server.ts:175-238).
ProtectedForItsUser ==
  [][(tab'.stage = "page" /\ tab.stage = "request" /\ tab.path \in Protected /\ ~devBypass)
       => \E c \in {"id", "access"} :
            jar[c].fresh /\ jar[c].user = tab'.viewer /\ tab'.viewer # NoAccount]_sessionVars

\* What the proxy forwards was allowed by a token of that very live, minted by
\* its creator no longer than the lifetime ago, even if the creator has signed
\* out or another account signed in meanwhile (publisher-token.ts:58-107,
\* whip/route.ts:60-94).  The panel shows a token of its own live, whatever panels
\* were closed and reopened and pages left with a call under way; and what is on its
\* way to it is newer than what it shows, so that no late answer brings an older
\* token back: the button is disabled while a mint is under way
\* (obs-broadcast-panel.tsx:49-70, 183-187, live-row.tsx:470, 502).
TokensHonest ==
  /\ onAir # NoPublish =>
       LET t == minted[onAir.token]
       IN  t.live = onAir.live /\ t.by = OwnerOf[t.live]
           /\ onAir.at < t.exp /\ t.exp <= onAir.at + TTL
  /\ panel.data # 0 => minted[panel.data].live = panel.live
  /\ \A c \in 1..MaxCalls : calls[c].at = "answer" /\ calls[c].token # 0 =>
       /\ minted[calls[c].token].live = panel.live
       /\ calls[c].token > panel.data

\* "Token rotation is currently mint-fresh-on-click" (obs-broadcast-panel.tsx:42): a
\* panel with nothing under way shows the latest token of its live.
PanelShowsLatest ==
  panel.data # 0 /\ ~panel.loading =>
    \A t \in DOMAIN minted : minted[t].live = panel.live => t <= panel.data

\* Every navigation ends on a page: the redirects between / and the protected
\* pages do not chase each other, although the session may be readable at one
\* request and not at the next (login-button.tsx:10-24).
NavigationSettles == tab.stage = "request" ~> tab.stage = "page"

=============================================================================
