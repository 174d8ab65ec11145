----------------------------- MODULE SiteProofs -----------------------------
(***************************************************************************)
(* Sessions and publisher tokens, for any accounts, lives, lifetimes and   *)
(* any number of sign-ins: what the proxy forwards and what the panel      *)
(* shows (TokensHonest), and for whom a protected page is rendered         *)
(* (ProtectedForItsUser).  The other parts of the site leave this state    *)
(* alone.                                                                  *)
(***************************************************************************)
EXTENDS Site, SumTheorems, TLAPS

Cookie == Token \cup {NoToken}
Someone == Account \cup {NoAccount}
TabState == [path: Path, next: Next_, oauth: BOOLEAN, stage: {"request", "page"},
             viewer: Someone]
JarState == [id: Cookie, access: Cookie, refresh: Someone]
PanelState == [live: DOMAIN OwnerOf \cup {0}, loading: BOOLEAN, data: 0..MaxMints]
MintedState == [live: DOMAIN OwnerOf, by: Account, exp: Nat]

BrowserTypes ==
  /\ devBypass \in BOOLEAN /\ jar \in JarState /\ authenticated \in Someone
  /\ tab \in TabState /\ logins \in 0..MaxLogins
TokenTypes ==
  /\ now \in 0..MaxNow /\ panel \in PanelState /\ calls \in [1..MaxCalls -> Call]
  /\ minted \in Seq(MintedState)
  /\ onAir.token \in 0..Len(minted)

\* Every token was minted by the live's creator, and lives no longer than TTL.
MintedByOwner ==
  \A t \in DOMAIN minted : /\ minted[t].by = OwnerOf[minted[t].live]
                           /\ minted[t].exp <= now + TTL

OnAirAllowed ==
  onAir # NoPublish =>
    /\ onAir.token \in DOMAIN minted
    /\ minted[onAir.token].live = onAir.live
    /\ onAir.at < minted[onAir.token].exp /\ minted[onAir.token].exp <= onAir.at + TTL

\* A call that somebody waits for is the open panel's, and the only one; an answer
\* on its way is a token of the panel's live, newer than the one shown.
CallInTurn(c) ==
  /\ c.at # "idle" => c.live \in DOMAIN OwnerOf
  /\ c.at = "answer" => c.mine
  /\ c.mine => c.at # "idle" /\ panel.loading /\ c.live = panel.live
  /\ c.token # 0 => /\ c.at = "answer" /\ c.token \in DOMAIN minted
                    /\ minted[c.token].live = c.live /\ panel.data < c.token

DataOfPanel == panel.data # 0 => panel.data \in DOMAIN minted /\ minted[panel.data].live = panel.live

PanelInTurn ==
  /\ \A c \in 1..MaxCalls : CallInTurn(calls[c])
  /\ \A c, d \in 1..MaxCalls : calls[c].mine /\ calls[d].mine => c = d
  /\ DataOfPanel

SessionInv == BrowserTypes /\ TokenTypes /\ MintedByOwner /\ OnAirAllowed /\ PanelInTurn

-----------------------------------------------------------------------------
(* The browser's state *)

LEMMA SomeoneReads ==
  ASSUME BrowserTypes, NEW api \in ApiAnswer
  PROVE  readAeviaSession(api) \in Someone
<1>1. Mock \in Account
  BY SessionConstants DEF Mock
<1>2. jar.id \in Cookie /\ jar.access \in Cookie
  BY DEF BrowserTypes, JarState
<1>3. \A c \in Cookie : c # NoToken => c.user \in Account
  BY DEF Cookie, Token
<1>4. identitySession(jar.id) \in Someone
  BY <1>2, <1>3 DEF identitySession, userToSession, Someone
<1>5. fetchPrivyUser(jar.access, api) \in Someone
  BY <1>2, <1>3 DEF fetchPrivyUser, userToSession, Someone
<1> QED
  BY <1>1, <1>4, <1>5 DEF readAeviaSession, Someone

LEMMA RequestTyped ==
  ASSUME NEW path \in Path, NEW next \in Next_, NEW oauth \in BOOLEAN
  PROVE  Request(path, next, oauth) \in TabState
BY DEF Request, TabState, Someone

LEMMA SafePath ==
  ASSUME NEW next, NEW fallback \in Path
  PROVE  safeNextPath(next, fallback) \in Path
BY DEF safeNextPath

LEMMA PathsTyped ==
  /\ "/" \in Path /\ "/feed" \in Path /\ "/dashboard" \in Path /\ "" \in Next_
  /\ Path \subseteq Next_ /\ FALSE \in BOOLEAN /\ TRUE \in BOOLEAN
BY DEF Path, Next_, Protected

LEMMA EmptyJar == [id |-> NoToken, access |-> NoToken, refresh |-> NoAccount] \in JarState
BY DEF JarState, Cookie, Someone

LEMMA FreshCookie ==
  ASSUME NEW user \in Account, NEW accounts \in {"none", "noWallet", "wallet"}
  PROVE  [user |-> user, accounts |-> accounts, fresh |-> TRUE] \in Cookie
BY DEF Cookie, Token

LEMMA NoCookie == NoToken \in Cookie
BY DEF Cookie

LEMMA ServeTyped ==
  ASSUME BrowserTypes, Serve
  PROVE  BrowserTypes' /\ UNCHANGED tokenVars
<1>1. PICK api \in ApiAnswer :
        LET session == readAeviaSession(api)
        IN  IF ~middlewarePasses THEN tab' = Request("/", tab.path, FALSE)
            ELSE IF tab.path = "/" /\ session # NoAccount
              THEN tab' = Request(safeNextPath(tab.next, "/feed"), "", FALSE)
            ELSE IF tab.path \in Protected /\ session = NoAccount
              THEN tab' = Request("/", "", FALSE)
            ELSE tab' = Page(session)
  BY DEF Serve
<1>2. readAeviaSession(api) \in Someone
  BY SomeoneReads
<1>3. tab \in TabState /\ tab.path \in Path
  BY DEF BrowserTypes, TabState
<1>4. Page(readAeviaSession(api)) \in TabState
  BY <1>2, <1>3 DEF Page, TabState
<1>5. /\ Request("/", tab.path, FALSE) \in TabState /\ Request("/", "", FALSE) \in TabState
      /\ Request(safeNextPath(tab.next, "/feed"), "", FALSE) \in TabState
  BY <1>3, RequestTyped, SafePath, PathsTyped
<1>6. tab' \in TabState
  BY <1>1, <1>4, <1>5
<1> QED
  BY <1>6 DEF Serve, BrowserTypes

LEMMA RefreshTyped ==
  ASSUME BrowserTypes, refreshTokens
  PROVE  BrowserTypes' /\ UNCHANGED tokenVars
<1>1. jar \in JarState /\ jar.refresh \in Account
  BY DEF refreshTokens, BrowserTypes, JarState, Someone
<1>2. PICK accounts \in {"none", "noWallet", "wallet"} :
        jar' = [jar EXCEPT
         !.access = [user |-> jar.refresh, accounts |-> "none", fresh |-> TRUE],
         !.id = IF accounts = "none" THEN NoToken
                ELSE [user |-> jar.refresh, accounts |-> accounts, fresh |-> TRUE]]
  BY DEF refreshTokens
<1>3. /\ [user |-> jar.refresh, accounts |-> "none", fresh |-> TRUE] \in Cookie
      /\ [user |-> jar.refresh, accounts |-> accounts, fresh |-> TRUE] \in Cookie
  BY <1>1, FreshCookie
<1>4. jar' \in JarState
  BY <1>1, <1>2, <1>3, NoCookie DEF JarState
<1> QED
  BY <1>1, <1>4 DEF refreshTokens, BrowserTypes, Someone

LEMMA ExpiryTyped ==
  ASSUME BrowserTypes, tokenExpires
  PROVE  BrowserTypes' /\ UNCHANGED tokenVars
<1>1. jar \in JarState /\ jar.id \in Cookie /\ jar.access \in Cookie
  BY DEF BrowserTypes, JarState
<1>2. \A c \in Cookie : c.fresh => [c EXCEPT !.fresh = FALSE] \in Cookie
  <2>1. \A c \in Token : [c EXCEPT !.fresh = FALSE] \in Token
    BY DEF Token
  <2>2. ~NoToken.fresh
    BY DEF NoToken
  <2> QED
    BY <2>1, <2>2 DEF Cookie
<1>3. PICK c \in {"id", "access"} :
        \/ jar[c].fresh /\ jar' = [jar EXCEPT ![c].fresh = FALSE]
        \/ jar' = [jar EXCEPT ![c] = NoToken]
  BY DEF tokenExpires
<1>4. CASE c = "id"
  <2>1. \/ jar.id.fresh /\ jar' = [jar EXCEPT !.id = [jar.id EXCEPT !.fresh = FALSE]]
        \/ jar' = [jar EXCEPT !.id = NoToken]
    BY <1>1, <1>3, <1>4 DEF JarState
  <2>2. jar.id.fresh => [jar.id EXCEPT !.fresh = FALSE] \in Cookie
    BY <1>1, <1>2
  <2> QED
    BY <1>1, <2>1, <2>2, NoCookie DEF tokenExpires, BrowserTypes, JarState
<1>5. CASE c = "access"
  <2>1. \/ jar.access.fresh /\ jar' = [jar EXCEPT !.access = [jar.access EXCEPT !.fresh = FALSE]]
        \/ jar' = [jar EXCEPT !.access = NoToken]
    BY <1>1, <1>3, <1>5 DEF JarState
  <2>2. jar.access.fresh => [jar.access EXCEPT !.fresh = FALSE] \in Cookie
    BY <1>1, <1>2
  <2> QED
    BY <1>1, <2>1, <2>2, NoCookie DEF tokenExpires, BrowserTypes, JarState
<1> QED
  BY <1>4, <1>5

LEMMA OtherTabTyped ==
  ASSUME BrowserTypes, otherTab
  PROVE  BrowserTypes' /\ UNCHANGED tokenVars
<1>1. PICK user \in Someone :
        jar' = IF user = NoAccount
               THEN [id |-> NoToken, access |-> NoToken, refresh |-> NoAccount]
               ELSE [id |-> NoToken, refresh |-> user,
                     access |-> [user |-> user, accounts |-> "none", fresh |-> TRUE]]
  BY DEF otherTab, Someone
<1>2. jar' \in JarState
  <2>1. CASE user = NoAccount
    BY <1>1, <2>1, EmptyJar
  <2>2. CASE user # NoAccount
    <3>1. user \in Account
      BY <2>2 DEF Someone
    <3>2. [user |-> user, accounts |-> "none", fresh |-> TRUE] \in Cookie
      BY <3>1, FreshCookie
    <3> QED
      BY <1>1, <2>2, <3>2, NoCookie DEF JarState
  <2> QED
    BY <2>1, <2>2
<1>3. logins' \in 0..MaxLogins
  BY SessionConstants DEF otherTab, BrowserTypes
<1> QED
  BY <1>2, <1>3 DEF otherTab, BrowserTypes

\* Leaving a document: a new request, the panel is closed, its calls are nobody's.
Left == /\ panel' = ClosedPanel /\ calls' = Orphaned
        /\ UNCHANGED <<minted, gone, onAir, now>>

LEMMA VisitTyped ==
  ASSUME BrowserTypes, NEW path \in Path, NEW next \in Next_, Visit(path, next)
  PROVE  BrowserTypes' /\ Left
<1>2. Request(path, next, FALSE) \in TabState
  BY RequestTyped, PathsTyped
<1> QED
  BY <1>2 DEF Visit, Leave, Left, BrowserTypes

LEMMA SignInTyped ==
  ASSUME BrowserTypes, SignIn
  PROVE  BrowserTypes' /\ Left
<1>0. tab \in TabState /\ tab.next \in Next_
  BY DEF BrowserTypes, TabState
<1>1. ASSUME NEW user \in Account, NEW accounts \in {"none", "noWallet", "wallet"},
             onComplete(user, accounts)
      PROVE  BrowserTypes' /\ Left
  <2>1. /\ [user |-> user, accounts |-> accounts, fresh |-> TRUE] \in Cookie
        /\ [user |-> user, accounts |-> "none", fresh |-> TRUE] \in Cookie
    BY FreshCookie
  <2>2. jar' \in JarState
    BY <1>1, <2>1, NoCookie DEF onComplete, JarState, Someone
  <2>3. Request(safeNextPath(tab.next, "/dashboard"), "", FALSE) \in TabState
    BY RequestTyped, SafePath, PathsTyped
  <2>a. logins \in 0..MaxLogins /\ logins < MaxLogins /\ logins' = logins + 1
    BY <1>1 DEF onComplete, BrowserTypes
  <2>4. logins' \in 0..MaxLogins
    BY <2>a, SessionConstants
  <2> QED
    BY <1>1, <2>2, <2>3, <2>4 DEF onComplete, Leave, Left, BrowserTypes, Someone
<1>2. CASE loginWithOauth
  <2>1. Request("/", tab.next, TRUE) \in TabState
    BY <1>0, RequestTyped, PathsTyped
  <2> QED
    BY <1>2, <2>1 DEF loginWithOauth, Leave, Left, BrowserTypes
<1>3. CASE logout
  <2>1. Request("/", "", FALSE) \in TabState
    BY RequestTyped, PathsTyped
  <2> QED
    BY <1>3, <2>1, EmptyJar DEF logout, Leave, Left, BrowserTypes, Someone
<1> QED
  BY <1>1, <1>2, <1>3 DEF SignIn

-----------------------------------------------------------------------------
(* The tokens *)

LEMMA TokenFacts ==
  ASSUME SessionInv
  PROVE  /\ minted \in Seq(MintedState) /\ DOMAIN minted = 1..Len(minted)
         /\ Len(minted) \in Nat /\ now \in Nat /\ TTL \in Nat
         /\ \A t \in DOMAIN minted : /\ minted[t] \in MintedState
                                     /\ minted[t].exp \in Nat
<1>1. minted \in Seq(MintedState) /\ now \in 0..MaxNow
  BY DEF SessionInv, TokenTypes
<1>2. /\ DOMAIN minted = 1..Len(minted) /\ Len(minted) \in Nat
      /\ \A t \in DOMAIN minted : minted[t] \in MintedState
  BY <1>1, SeqElement
<1>3. \A d \in MintedState : d.exp \in Nat
  BY DEF MintedState
<1>4. now \in Nat /\ TTL \in Nat
  BY <1>1, SessionConstants
<1> QED
  BY <1>1, <1>2, <1>3, <1>4

LEMMA ClosedFacts ==
  /\ ClosedPanel \in PanelState /\ ClosedPanel.live = 0 /\ ClosedPanel.loading = FALSE
  /\ ClosedPanel.data = 0
BY SessionConstants DEF ClosedPanel, PanelState

LEMMA NoCallFacts ==
  /\ NoCall \in Call /\ NoCall.at = "idle" /\ NoCall.live = 0 /\ NoCall.mine = FALSE
  /\ NoCall.token = 0
<1>1. 0 \in 0..MaxMints
  BY SessionConstants
<1> QED
  BY <1>1 DEF NoCall, Call

LEMMA CallFacts ==
  ASSUME NEW c \in Call
  PROVE  /\ c.at \in {"idle", "sent", "answer"} /\ c.live \in DOMAIN OwnerOf \cup {0}
         /\ c.by \in Someone /\ c.mine \in BOOLEAN /\ c.token \in 0..MaxMints
BY DEF Call, Someone

\* What a page or a panel leaves behind.
LEMMA OrphansTyped ==
  ASSUME SessionInv
  PROVE  /\ Orphaned \in [1..MaxCalls -> Call]
         /\ \A c \in 1..MaxCalls : /\ Orphaned[c].mine = FALSE /\ Orphaned[c].token = 0
                                   /\ Orphaned[c].at # "answer"
                                   /\ Orphaned[c].at # "idle" => Orphaned[c].live \in DOMAIN OwnerOf
<1> DEFINE o(c) == IF calls[c].at = "sent" THEN [calls[c] EXCEPT !.mine = FALSE] ELSE NoCall
<1>1. ASSUME NEW c \in 1..MaxCalls
      PROVE  /\ o(c) \in Call /\ o(c).mine = FALSE /\ o(c).token = 0 /\ o(c).at # "answer"
             /\ o(c).at # "idle" => o(c).live \in DOMAIN OwnerOf
  <2>1. calls[c] \in Call /\ CallInTurn(calls[c])
    BY DEF SessionInv, TokenTypes, PanelInTurn
  <2>2. CASE calls[c].at = "sent"
    <3>1. calls[c].token = 0 /\ calls[c].live \in DOMAIN OwnerOf
      BY <2>1, <2>2 DEF CallInTurn
    <3>2. \A k \in Call : LET m == [k EXCEPT !.mine = FALSE]
                         IN  /\ m \in Call /\ m.mine = FALSE /\ m.token = k.token
                             /\ m.at = k.at /\ m.live = k.live
      BY ONLY TRUE DEF Call
    <3>3. o(c) = [calls[c] EXCEPT !.mine = FALSE]
      BY <2>2
    <3> HIDE DEF o
    <3>4. /\ o(c) \in Call /\ o(c).mine = FALSE /\ o(c).token = calls[c].token
          /\ o(c).at = calls[c].at /\ o(c).live = calls[c].live
      BY ONLY <2>1, <3>2, <3>3
    <3> QED
      BY <2>2, <3>1, <3>4
  <2>3. CASE calls[c].at # "sent"
    BY <2>3, NoCallFacts
  <2> QED
    BY <2>2, <2>3
<1>2. Orphaned = [c \in 1..MaxCalls |-> o(c)]
  BY DEF Orphaned
<1> HIDE DEF o
<1> QED
  BY <1>1, <1>2

\* Steps of the browser leave the tokens alone, or close the panel too.
LEMMA BrowserStepKept ==
  ASSUME SessionInv, BrowserTypes', UNCHANGED tokenVars
  PROVE  SessionInv'
<1>1. UNCHANGED <<panel, calls, minted, gone, onAir, now>>
  BY DEF tokenVars
<1> QED
  BY <1>1 DEF SessionInv, TokenTypes, MintedByOwner, OnAirAllowed, PanelInTurn, CallInTurn,
     DataOfPanel

LEMMA LeavingKept ==
  ASSUME SessionInv, BrowserTypes', Left
  PROVE  SessionInv'
<1>1. /\ calls' \in [1..MaxCalls -> Call]
      /\ \A c \in 1..MaxCalls : /\ calls'[c].mine = FALSE /\ calls'[c].token = 0
                                /\ calls'[c].at # "answer"
                                /\ calls'[c].at # "idle" => calls'[c].live \in DOMAIN OwnerOf
  BY OrphansTyped DEF Left
<1>2. PanelInTurn'
  BY <1>1, ClosedFacts DEF Left, PanelInTurn, CallInTurn, DataOfPanel
<1> QED
  BY <1>1, <1>2, ClosedFacts DEF Left, SessionInv, TokenTypes, MintedByOwner, OnAirAllowed

LEMMA BrowserUntouched ==
  ASSUME BrowserTypes, UNCHANGED <<devBypass, jar, authenticated, tab, logins>>
  PROVE  BrowserTypes'
BY DEF BrowserTypes

\* A panel that asks: one more call, the only one that anybody waits for.
LEMMA AskingKept ==
  ASSUME SessionInv, BrowserTypes, NEW live \in DOMAIN OwnerOf, Asks(live),
         \A c \in 1..MaxCalls : ~calls[c].mine,
         panel' \in PanelState, panel'.live = live, panel'.loading = TRUE,
         panel'.data = 0 \/ (panel'.data = panel.data /\ panel.live = live),
         UNCHANGED <<minted, gone, onAir, now>>,
         UNCHANGED <<devBypass, jar, authenticated, tab, logins>>
  PROVE  SessionInv'
<1>1. PICK c \in 1..MaxCalls, api \in ApiAnswer :
        calls' = [calls EXCEPT ![c] = [at |-> "sent", live |-> live, mine |-> TRUE,
                                       by |-> readAeviaSession(api), token |-> 0]]
  BY DEF Asks
<1> DEFINE k == [at |-> "sent", live |-> live, mine |-> TRUE, by |-> readAeviaSession(api),
                 token |-> 0]
<1>2. /\ k \in Call /\ k.at = "sent" /\ k.live = live /\ k.mine = TRUE /\ k.token = 0
  <2>1. readAeviaSession(api) \in Account \cup {NoAccount} /\ 0 \in 0..MaxMints
    BY SomeoneReads, SessionConstants DEF Someone
  <2> QED
    BY <2>1 DEF Call
<1>3. calls' = [calls EXCEPT ![c] = k] /\ calls \in [1..MaxCalls -> Call]
  BY <1>1 DEF SessionInv, TokenTypes
<1> HIDE DEF k
<1>4. /\ calls' \in [1..MaxCalls -> Call] /\ calls'[c] = k
      /\ \A d \in 1..MaxCalls : d # c => calls'[d] = calls[d]
  BY <1>2, <1>3
<1>5. ASSUME NEW d \in 1..MaxCalls
      PROVE  CallInTurn(calls[d])' /\ (calls'[d].mine => d = c)
  <2>1. CASE d = c
    BY <1>2, <1>4, <2>1 DEF CallInTurn
  <2>2. CASE d # c
    <3>1. calls'[d] = calls[d] /\ ~calls[d].mine /\ CallInTurn(calls[d])
      BY <1>4, <2>2 DEF SessionInv, PanelInTurn
    <3>2. calls[d].at # "answer" /\ calls[d].token = 0
      BY <3>1 DEF CallInTurn
    <3> QED
      BY <3>1, <3>2 DEF CallInTurn
  <2> QED
    BY <2>1, <2>2
<1>6. DataOfPanel'
  BY DEF SessionInv, PanelInTurn, DataOfPanel
<1>7. PanelInTurn'
  BY <1>5, <1>6 DEF PanelInTurn
<1> QED
  BY <1>4, <1>7, BrowserUntouched DEF SessionInv, TokenTypes, MintedByOwner, OnAirAllowed

LEMMA OpenPanelKept ==
  ASSUME SessionInv, NEW live \in DOMAIN OwnerOf, OpenPanel(live)
  PROVE  SessionInv'
<1> DEFINE p == [ClosedPanel EXCEPT !.live = live, !.loading = TRUE]
<1>1. p \in PanelState /\ p.live = live /\ p.loading = TRUE /\ p.data = 0
  <2>1. p = [ClosedPanel EXCEPT !.live = live, !.loading = TRUE]
    OBVIOUS
  <2> HIDE DEF p
  <2> QED
    BY ONLY ClosedFacts, <2>1, live \in DOMAIN OwnerOf DEF PanelState
<1>2. /\ panel' = p /\ panel.live = 0 /\ Asks(live) /\ UNCHANGED <<minted, gone, onAir, now>>
      /\ UNCHANGED <<devBypass, jar, authenticated, tab, logins>>
  BY DEF OpenPanel
<1> HIDE DEF p
<1>3. \A c \in 1..MaxCalls : ~calls[c].mine
  <2> SUFFICES ASSUME NEW c \in 1..MaxCalls, calls[c].mine PROVE FALSE
    OBVIOUS
  <2>1. calls[c] \in Call /\ CallInTurn(calls[c])
    BY DEF SessionInv, TokenTypes, PanelInTurn
  <2>2. calls[c].live = 0 /\ calls[c].at # "answer"
    BY <1>2, <2>1, SessionConstants DEF CallInTurn
  <2>3. calls[c].at = "idle" \/ calls[c].at = "sent"
    BY <2>1, <2>2, CallFacts
  <2> QED
    BY <2>1, <2>2, <2>3, SessionConstants DEF CallInTurn
<1>4. BrowserTypes
  BY DEF SessionInv
<1> QED
  BY <1>1, <1>2, <1>3, <1>4, AskingKept

LEMMA ClosePanelKept ==
  ASSUME SessionInv, ClosePanel
  PROVE  SessionInv'
<1>1. Left /\ BrowserTypes'
  BY BrowserUntouched DEF ClosePanel, Left, SessionInv
<1> QED
  BY <1>1, LeavingKept

LEMMA DeleteLiveKept ==
  ASSUME SessionInv, NEW live \in DOMAIN OwnerOf, deleteLive(live)
  PROVE  SessionInv'
<1>1. /\ UNCHANGED <<panel, calls, minted, onAir, now>>
      /\ UNCHANGED <<devBypass, jar, authenticated, tab, logins>>
  BY DEF deleteLive
<1> QED
  BY <1>1, BrowserUntouched
     DEF SessionInv, TokenTypes, MintedByOwner, OnAirAllowed, PanelInTurn, CallInTurn, DataOfPanel

LEMMA MintKept ==
  ASSUME SessionInv, mint
  PROVE  SessionInv'
<1>1. /\ panel.live # 0 /\ ~panel.loading /\ panel \in PanelState
      /\ panel' = [panel EXCEPT !.loading = TRUE] /\ Asks(panel.live)
      /\ UNCHANGED <<minted, gone, onAir, now>>
      /\ UNCHANGED <<devBypass, jar, authenticated, tab, logins>>
  BY DEF mint, SessionInv, TokenTypes
<1>2. /\ panel' \in PanelState /\ panel'.loading = TRUE /\ panel'.live = panel.live
      /\ panel'.data = panel.data /\ panel.live \in DOMAIN OwnerOf
  BY ONLY <1>1 DEF PanelState
<1>3. \A c \in 1..MaxCalls : ~calls[c].mine
  BY <1>1 DEF SessionInv, PanelInTurn, CallInTurn
<1>4. BrowserTypes
  BY DEF SessionInv
<1> QED
  BY <1>1, <1>2, <1>3, <1>4, AskingKept

LEMMA MintAnsweredKept ==
  ASSUME SessionInv, NEW c \in 1..MaxCalls, mintAnswered(c)
  PROVE  SessionInv'
<1>1. PICK token \in {0, calls[c].token} :
        panel' = [panel EXCEPT !.loading = FALSE, !.data = IF token = 0 THEN @ ELSE token]
  BY DEF mintAnswered
<1>2. /\ panel \in PanelState /\ calls \in [1..MaxCalls -> Call] /\ calls[c] \in Call
      /\ calls[c].at = "answer" /\ calls' = [calls EXCEPT ![c] = NoCall]
      /\ UNCHANGED <<minted, gone, onAir, now>>
      /\ UNCHANGED <<devBypass, jar, authenticated, tab, logins>>
  BY DEF mintAnswered, SessionInv, TokenTypes
<1>3. CallInTurn(calls[c]) /\ DataOfPanel
  BY DEF SessionInv, PanelInTurn
<1>4. calls[c].mine /\ calls[c].live = panel.live
  BY <1>2, <1>3 DEF CallInTurn
<1>5. token \in 0..MaxMints
  BY <1>2, CallFacts, SessionConstants
<1>6. /\ panel' \in PanelState /\ panel'.live = panel.live
      /\ panel'.data = (IF token = 0 THEN panel.data ELSE token)
  BY ONLY <1>1, <1>2, <1>5 DEF PanelState
<1>7. /\ calls' \in [1..MaxCalls -> Call] /\ calls'[c] = NoCall
      /\ \A d \in 1..MaxCalls : d # c => calls'[d] = calls[d]
  BY <1>2, NoCallFacts
<1>8. ASSUME NEW d \in 1..MaxCalls
      PROVE  CallInTurn(calls[d])' /\ ~calls'[d].mine
  <2>1. CASE d = c
    BY <1>7, <2>1, NoCallFacts DEF CallInTurn
  <2>2. CASE d # c
    <3>1. calls'[d] = calls[d] /\ ~calls[d].mine /\ CallInTurn(calls[d])
      BY <1>4, <1>7, <2>2 DEF SessionInv, PanelInTurn
    <3>2. calls[d].at # "answer" /\ calls[d].token = 0
      BY <3>1 DEF CallInTurn
    <3> QED
      BY <3>1, <3>2 DEF CallInTurn
  <2> QED
    BY <2>1, <2>2
<1>9. DataOfPanel'
  <2>1. token # 0 => token \in DOMAIN minted /\ minted[token].live = panel.live
    BY <1>3, <1>4 DEF CallInTurn
  <2> QED
    BY <1>2, <1>3, <1>6, <2>1 DEF DataOfPanel
<1>10. PanelInTurn'
  BY <1>8, <1>9 DEF PanelInTurn
<1> QED
  BY <1>2, <1>6, <1>7, <1>10, BrowserUntouched
     DEF SessionInv, TokenTypes, MintedByOwner, OnAirAllowed

\* The server's answer to a call: token is 0, or new and of the call's live.
LEMMA AnswerKept ==
  ASSUME SessionInv, NEW c \in 1..MaxCalls, calls[c].at = "sent", NEW token \in 0..MaxMints,
         Answers(c, token), UNCHANGED panel, minted' \in Seq(MintedState),
         \A t \in DOMAIN minted : t \in DOMAIN minted' /\ minted'[t] = minted[t],
         token # 0 => /\ token \in DOMAIN minted' /\ minted'[token].live = calls[c].live
                      /\ panel.data < token
  PROVE  PanelInTurn' /\ calls' \in [1..MaxCalls -> Call]
<1>1. calls \in [1..MaxCalls -> Call] /\ calls[c] \in Call /\ CallInTurn(calls[c]) /\ DataOfPanel
  BY DEF SessionInv, TokenTypes, PanelInTurn
<1> DEFINE k == IF calls[c].mine THEN [calls[c] EXCEPT !.at = "answer", !.token = token]
                ELSE NoCall
<1>2. calls' = [calls EXCEPT ![c] = k]
  BY <1>1 DEF Answers
<1>3. /\ k \in Call
      /\ \/ k = NoCall
         \/ /\ calls[c].mine /\ k.mine = TRUE /\ k.at = "answer" /\ k.token = token
            /\ k.live = calls[c].live
  <2>1. CASE calls[c].mine
    <3>1. k = [calls[c] EXCEPT !.at = "answer", !.token = token]
      BY <2>1
    <3>2. calls[c].mine = TRUE
      BY <1>1, <2>1, CallFacts
    <3> HIDE DEF k
    <3> QED
      BY ONLY <1>1, <3>1, <3>2, token \in 0..MaxMints DEF Call
  <2>2. CASE ~calls[c].mine
    BY <2>2, NoCallFacts
  <2> QED
    BY <2>1, <2>2
<1> HIDE DEF k
<1>4. /\ calls' \in [1..MaxCalls -> Call] /\ calls'[c] = k
      /\ \A d \in 1..MaxCalls : d # c => calls'[d] = calls[d]
  BY <1>1, <1>2, <1>3
<1>5. ASSUME NEW d \in 1..MaxCalls
      PROVE  CallInTurn(calls[d])' /\ (calls'[d].mine => calls[d].mine)
  <2>1. CASE d = c /\ k = NoCall
    BY <1>4, <2>1, NoCallFacts DEF CallInTurn
  <2>2. CASE d = c /\ k # NoCall
    <3>1. /\ calls[c].mine /\ k.mine = TRUE /\ k.at = "answer" /\ k.token = token
          /\ k.live = calls[c].live /\ calls'[d] = k
      BY <1>3, <1>4, <2>2
    <3>2. panel.loading /\ calls[c].live = panel.live /\ calls[c].live \in DOMAIN OwnerOf
      BY <1>1, <3>1 DEF CallInTurn
    <3> QED
      BY <2>2, <3>1, <3>2 DEF CallInTurn
  <2>3. CASE d # c
    <3>1. calls'[d] = calls[d] /\ CallInTurn(calls[d])
      BY <1>4, <2>3 DEF SessionInv, PanelInTurn
    <3> QED
      BY <3>1 DEF CallInTurn
  <2> QED
    BY <2>1, <2>2, <2>3
<1>6. DataOfPanel'
  BY <1>1 DEF DataOfPanel
<1> QED
  BY <1>4, <1>5, <1>6 DEF SessionInv, PanelInTurn

LEMMA MintTokenKept ==
  ASSUME SessionInv, NEW c \in 1..MaxCalls, mintPublisherToken(c)
  PROVE  SessionInv'
<1>0. /\ calls[c].at = "sent" /\ UNCHANGED <<panel, gone, onAir, now>>
      /\ UNCHANGED <<devBypass, jar, authenticated, tab, logins>> /\ panel \in PanelState
  BY DEF mintPublisherToken, SessionInv, TokenTypes
<1>1. CallInTurn(calls[c]) /\ DataOfPanel
  BY DEF SessionInv, PanelInTurn
<1>2. calls[c].live \in DOMAIN OwnerOf /\ OwnerOf[calls[c].live] \in Account
  BY <1>0, <1>1, SessionConstants DEF CallInTurn
<1>3. /\ minted \in Seq(MintedState) /\ DOMAIN minted = 1..Len(minted) /\ Len(minted) \in Nat
      /\ now \in Nat /\ TTL \in Nat
  BY TokenFacts
<1> DEFINE n == Len(minted) + 1
           m == [live |-> calls[c].live, by |-> OwnerOf[calls[c].live], exp |-> now + TTL]
<1>4. \/ minted' = minted /\ Answers(c, 0)
      \/ minted' = Append(minted, m) /\ Len(minted) < MaxMints /\ Answers(c, n)
  BY DEF mintPublisherToken
<1>6. CASE minted' = minted /\ Answers(c, 0)
  <2>0. 0 \in 0..MaxMints
    BY SessionConstants
  <2>2. PanelInTurn' /\ calls' \in [1..MaxCalls -> Call]
    BY <1>0, <1>3, <1>6, <2>0, AnswerKept
  <2> QED
    BY <1>0, <1>6, <2>2, BrowserUntouched
       DEF SessionInv, TokenTypes, MintedByOwner, OnAirAllowed
<1>7. CASE minted' = Append(minted, m) /\ Len(minted) < MaxMints /\ Answers(c, n)
  <2>1. n \in 0..MaxMints /\ n # 0
    BY <1>3, <1>7, SessionConstants
  <2>3. /\ m \in MintedState /\ m.live = calls[c].live /\ m.by = OwnerOf[m.live]
        /\ m.exp = now + TTL
    BY <1>2, <1>3 DEF MintedState
  <2> HIDE DEF m
  <2>4. /\ minted' \in Seq(MintedState) /\ Len(minted') = n /\ n \notin DOMAIN minted
        /\ DOMAIN minted' = (DOMAIN minted) \cup {n} /\ minted'[n] = m
        /\ \A t \in DOMAIN minted : minted'[t] = minted[t]
    BY <1>3, <1>7, <2>3, SeqAppend
  <2>5. panel.data < n
    <3>1. panel.data \in 0..MaxMints
      BY <1>0 DEF PanelState
    <3> QED
      BY <1>1, <1>3, <3>1 DEF DataOfPanel
  <2>6. 0..Len(minted) \subseteq 0..Len(minted')
    BY <1>3, <2>4
  <2> HIDE DEF n
  <2>10. PanelInTurn' /\ calls' \in [1..MaxCalls -> Call]
    BY <1>0, <1>7, <2>1, <2>3, <2>4, <2>5, AnswerKept
  <2>7. TokenTypes'
    BY <1>0, <2>4, <2>6, <2>10 DEF SessionInv, TokenTypes
  <2>8. MintedByOwner'
    <3>1. \A t \in DOMAIN minted : minted[t].by = OwnerOf[minted[t].live] /\ minted[t].exp <= now + TTL
      BY DEF SessionInv, MintedByOwner
    <3>2. m.exp <= now + TTL
      BY <1>3, <2>3
    <3> QED
      BY <1>0, <2>3, <2>4, <3>1, <3>2 DEF MintedByOwner
  <2>9. OnAirAllowed'
    BY <1>0, <2>4 DEF SessionInv, OnAirAllowed
  <2> QED
    BY <1>0, <2>7, <2>8, <2>9, <2>10, BrowserUntouched DEF SessionInv
<1> QED
  BY <1>4, <1>6, <1>7

LEMMA WhipPostKept ==
  ASSUME SessionInv, NEW t \in DOMAIN minted, NEW live \in DOMAIN OwnerOf, whipPost(t, live)
  PROVE  SessionInv'
<1>1. /\ now < minted[t].exp /\ minted[t].live = live
      /\ onAir' = [live |-> live, token |-> t, at |-> now]
      /\ UNCHANGED <<panel, calls, minted, gone, now>>
      /\ UNCHANGED <<devBypass, jar, authenticated, tab, logins>>
  BY DEF whipPost, authorise, verifyPublisherToken
<1>2. onAir'.live = live /\ onAir'.token = t /\ onAir'.at = now
  BY <1>1
<1>3. OnAirAllowed'
  BY <1>1, <1>2 DEF SessionInv, OnAirAllowed, MintedByOwner
<1>4. TokenTypes'
  BY <1>1, <1>2, TokenFacts DEF SessionInv, TokenTypes
<1> QED
  BY <1>1, <1>3, <1>4, BrowserUntouched DEF SessionInv, MintedByOwner, PanelInTurn, CallInTurn, DataOfPanel

LEMMA TickKept ==
  ASSUME SessionInv, Tick
  PROVE  SessionInv'
<1>1. /\ now < MaxNow /\ now' = now + 1
      /\ UNCHANGED <<panel, calls, minted, gone, onAir>>
      /\ UNCHANGED <<devBypass, jar, authenticated, tab, logins>>
  BY DEF Tick
<1>2. TokenTypes'
  BY <1>1, SessionConstants DEF SessionInv, TokenTypes
<1>3. MintedByOwner'
  BY <1>1, TokenFacts DEF SessionInv, MintedByOwner
<1> QED
  BY <1>1, <1>2, <1>3, BrowserUntouched DEF SessionInv, OnAirAllowed, PanelInTurn, CallInTurn, DataOfPanel

-----------------------------------------------------------------------------
(* The theorems *)

LEMMA SessionInvInitially == SiteInit => SessionInv
<1> SUFFICES ASSUME SiteInit PROVE SessionInv
  OBVIOUS
<1>1. devBypass \in BOOLEAN /\ authenticated = NoAccount /\ jar \in JarState
  BY Zenon, EmptyJar DEF SiteInit, SessionInit
<1>2. tab = [Request("/", "", FALSE) EXCEPT !.stage = "page"]
  BY Zenon DEF SiteInit, SessionInit
<1>3. logins = 0 /\ now = 0
  BY Zenon DEF SiteInit, SessionInit
<1>4. minted = <<>>
  BY Zenon DEF SiteInit, SessionInit
<1>5. panel = ClosedPanel /\ onAir = NoPublish /\ calls = [c \in 1..MaxCalls |-> NoCall]
  BY Zenon DEF SiteInit, SessionInit
<1>6. BrowserTypes
  <2>1. Request("/", "", FALSE) \in TabState
    BY RequestTyped, PathsTyped
  <2>2. \A t \in TabState : [t EXCEPT !.stage = "page"] \in TabState
    BY ONLY TRUE DEF TabState
  <2>3. tab \in TabState
    BY Zenon, <1>2, <2>1, <2>2
  <2>4. logins \in 0..MaxLogins
    BY ONLY <1>3, SessionConstants
  <2> QED
    BY Zenon, <1>1, <2>3, <2>4 DEF BrowserTypes, Someone
<1>7. TokenTypes /\ PanelInTurn
  <2>1. minted \in Seq(MintedState) /\ Len(minted) = 0
    BY ONLY <1>4
  <2>2. panel \in PanelState /\ panel.data = 0
    BY <1>5, ClosedFacts
  <2>6. /\ calls \in [1..MaxCalls -> Call]
        /\ \A c \in 1..MaxCalls : /\ calls[c].at = "idle" /\ calls[c].mine = FALSE
                                  /\ calls[c].token = 0
    BY ONLY <1>5, NoCallFacts
  <2>3. onAir.token = 0
    BY <1>5 DEF NoPublish
  <2>4. now \in 0..MaxNow
    BY ONLY <1>3, SessionConstants
  <2>5. TokenTypes
    BY ONLY <2>1, <2>2, <2>3, <2>4, <2>6 DEF TokenTypes
  <2> QED
    BY ONLY <2>2, <2>5, <2>6 DEF PanelInTurn, CallInTurn, DataOfPanel
<1>8. MintedByOwner /\ OnAirAllowed
  BY ONLY <1>4, <1>5 DEF MintedByOwner, OnAirAllowed
<1> QED
  BY <1>6, <1>7, <1>8 DEF SessionInv

LEMMA SessionInvKept == SessionInv /\ [SiteNext]_siteVars => SessionInv'
<1> SUFFICES ASSUME SessionInv, [SiteNext]_siteVars PROVE SessionInv'
  OBVIOUS
<1>0. BrowserTypes
  BY DEF SessionInv
<1>1. CASE Serve
  BY <1>0, <1>1, ServeTyped, BrowserStepKept
<1>2. CASE \E v \in Visits : Visit(v[1], v[2])
  BY <1>0, <1>2, VisitTyped, LeavingKept, SessionConstants
<1>3. CASE SignIn
  BY <1>0, <1>3, SignInTyped, LeavingKept
<1>4. CASE refreshTokens
  BY <1>0, <1>4, RefreshTyped, BrowserStepKept
<1>5. CASE tokenExpires
  BY <1>0, <1>5, ExpiryTyped, BrowserStepKept
<1>6. CASE otherTab
  BY <1>0, <1>6, OtherTabTyped, BrowserStepKept
<1>7. CASE Publishing
  BY <1>7, OpenPanelKept, ClosePanelKept, DeleteLiveKept, MintKept, MintTokenKept,
     MintAnsweredKept, WhipPostKept, TickKept DEF Publishing
<1>8. CASE UNCHANGED sessionVars
  <2>1. UNCHANGED <<devBypass, jar, authenticated, tab, logins>> /\ UNCHANGED tokenVars
    BY <1>8 DEF sessionVars, tokenVars
  <2> QED
    BY <1>0, <2>1, BrowserUntouched, BrowserStepKept
<1>9. CASE Browsing
  BY <1>1, <1>2, <1>3, <1>4, <1>5, <1>6, <1>9 DEF Browsing
<1>10. CASE DashboardVisits
  <2>1. CASE Visit("/dashboard", "")
    BY <1>0, <2>1, PathsTyped, VisitTyped, LeavingKept
  <2>2. CASE logout \/ \E user \in Account : onComplete(user, "wallet")
    BY <1>3, <2>2 DEF SignIn
  <2> QED
    BY <1>1, <1>6, <1>10, <2>1, <2>2 DEF DashboardVisits
<1>11. Browsing \/ DashboardVisits \/ Publishing \/ UNCHANGED sessionVars
  BY DEF SiteNext, InSession, InMesh, siteVars
<1> QED
  BY <1>7, <1>8, <1>9, <1>10, <1>11

\* For any lives, lifetimes and number of tokens and calls: what the proxy forwards
\* was allowed by a token of that live, minted by its creator and not expired; the
\* panel shows a token of its own live, and no answer that is still on its way brings
\* it an older one, however requests, lost answers, panels closed and reopened,
\* sign-outs and deletions interleave (publisher-token.ts:58-107,
\* whip/route.ts:60-94, obs-broadcast-panel.tsx:49-70, live-row.tsx:470, 502).
THEOREM TokensAreHonest == SiteSpec => []TokensHonest
<1>1. SessionInv => TokensHonest
  <2> SUFFICES ASSUME SessionInv PROVE TokensHonest
    OBVIOUS
  <2>1. ASSUME onAir # NoPublish
        PROVE  /\ minted[onAir.token].live = onAir.live
               /\ minted[onAir.token].by = OwnerOf[minted[onAir.token].live]
               /\ onAir.at < minted[onAir.token].exp
               /\ minted[onAir.token].exp <= onAir.at + TTL
    BY <2>1 DEF SessionInv, OnAirAllowed, MintedByOwner
  <2>2. ASSUME panel.data # 0
        PROVE  minted[panel.data].live = panel.live
    BY <2>2 DEF SessionInv, PanelInTurn, DataOfPanel
  <2>3. ASSUME NEW c \in 1..MaxCalls, calls[c].at = "answer", calls[c].token # 0
        PROVE  minted[calls[c].token].live = panel.live /\ calls[c].token > panel.data
    <3>1. CallInTurn(calls[c]) /\ calls[c] \in Call /\ panel \in PanelState
      BY DEF SessionInv, PanelInTurn, TokenTypes
    <3>2. minted[calls[c].token].live = panel.live /\ panel.data < calls[c].token
      BY <2>3, <3>1 DEF CallInTurn
    <3> QED
      BY <3>2
  <2> QED
    BY <2>1, <2>2, <2>3 DEF TokensHonest
<1> QED
  BY <1>1, SessionInvInitially, SessionInvKept, PTL DEF SiteSpec

\* For any accounts and any number of sign-ins, here or in other tabs: a protected
\* page is rendered only for the user whose token verified at that very request,
\* whichever cookie let the request pass the middleware (middleware.ts:31-62,
\* server.ts:175-238).
THEOREM ProtectedPagesForTheirUser == SiteSpec => ProtectedForItsUser
<1> DEFINE A == (tab'.stage = "page" /\ tab.stage = "request" /\ tab.path \in Protected
                  /\ ~devBypass)
                => \E c \in {"id", "access"} :
                     jar[c].fresh /\ jar[c].user = tab'.viewer /\ tab'.viewer # NoAccount
<1>1. SessionInv /\ [SiteNext]_siteVars => [A]_sessionVars
  <2> SUFFICES ASSUME SessionInv, SiteNext, tab'.stage = "page", tab.stage = "request",
                      tab.path \in Protected, ~devBypass
               PROVE  \E c \in {"id", "access"} :
                        jar[c].fresh /\ jar[c].user = tab'.viewer /\ tab'.viewer # NoAccount
    BY DEF siteVars, sessionVars
  <2>1. tab' # tab
    OBVIOUS
  <2>2. Browsing \/ DashboardVisits \/ Publishing
    BY <2>1 DEF SiteNext, InSession, InMesh, sessionVars
  <2>3. \A p, n, o : Request(p, n, o).stage = "request"
    BY DEF Request
  <2>4. Serve
    BY <2>1, <2>2, <2>3 DEF Browsing, DashboardVisits, Visit, SignIn, onComplete,
      loginWithOauth, logout, Leave, refreshTokens, tokenExpires, otherTab, Publishing,
      OpenPanel, ClosePanel, deleteLive, mint, mintPublisherToken, mintAnswered, whipPost,
      Tick
  <2>5. PICK api \in ApiAnswer :
          tab' = Page(readAeviaSession(api)) /\ readAeviaSession(api) # NoAccount
    BY <2>3, <2>4 DEF Serve
  <2>6. tab'.viewer = readAeviaSession(api)
    BY <2>5 DEF Page, SessionInv, BrowserTypes, TabState
  <2>7. \/ readAeviaSession(api) = identitySession(jar.id)
        \/ readAeviaSession(api) = fetchPrivyUser(jar.access, api)
    BY DEF readAeviaSession
  <2>8. CASE readAeviaSession(api) = identitySession(jar.id)
    <3>1. jar.id.fresh /\ jar.id.user = tab'.viewer
      BY <2>5, <2>6, <2>8 DEF identitySession, verifyPrivyJwt, userToSession
    <3> QED
      BY <2>5, <2>6, <3>1
  <2>9. CASE readAeviaSession(api) = fetchPrivyUser(jar.access, api)
    <3>1. jar.access.fresh /\ jar.access.user = tab'.viewer
      BY <2>5, <2>6, <2>9 DEF fetchPrivyUser, verifyPrivyJwt, userToSession
    <3> QED
      BY <2>5, <2>6, <3>1
  <2> QED
    BY <2>7, <2>8, <2>9
<1>2. SiteSpec => [][A]_sessionVars
  BY <1>1, SessionInvInitially, SessionInvKept, PTL DEF SiteSpec
<1> QED
  BY <1>2 DEF ProtectedForItsUser
=============================================================================
