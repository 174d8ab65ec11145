---------------------------- MODULE BoostRouter ----------------------------
(***************************************************************************)
(* packages/contracts/src/BoostRouter.sol together with the two contracts  *)
(* it reads, ContentRegistry and RiskOracle: a boost is pulled from its    *)
(* sender and split among creator, persistence pool, LLC treasury and      *)
(* Council fund in one transaction.                                        *)
(***************************************************************************)
EXTENDS ContentRegistry, RiskOracle, Erc20, Sequences, Functions

CONSTANTS
  Router,                  \* address(this)
  PersistencePool, LlcTreasury, CouncilFund,   \* immutable destinations
  BPS_TOTAL, THETA_FEED_BPS, MIN_BOOST,
  DefaultSplit,            \* the constructor's split
  Splits,                  \* splits the Council may try to set
  InitialRouterCouncil,
  UsdcBalance,             \* USDC balances at deployment
  BoostAmount,             \* amounts callers pass
  MaxBoosts                \* bound: number of boosts

Holder == Address \cup {Router, PersistencePool, LlcTreasury, CouncilFund}

Split == [creator : Nat, pool : Nat, llc : Nat, council : Nat]

Valid(s) == s.creator + s.pool + s.llc + s.council = BPS_TOTAL

ASSUME RouterAssumption ==
  /\ BPS_TOTAL \in Nat \ {0}
  /\ THETA_FEED_BPS \in Nat
  /\ THETA_FEED_BPS <= BPS_MAX
  /\ DefaultSplit \in Split
  /\ Valid(DefaultSplit)
  /\ Splits \subseteq Split
  /\ BoostAmount \subseteq Nat
  /\ InitialRouterCouncil \in Address
  /\ Router \notin Address \cup {PersistencePool, LlcTreasury, CouncilFund}
  /\ UsdcBalance \in [Holder -> Nat]

VARIABLES
  usdc,                    \* usdc.balanceOf
  routerCouncil,           \* council
  split,                   \* creatorBps, poolBps, llcBps, councilBps
  events                   \* the Boost events emitted so far

routerVars == <<usdc, routerCouncil, split, events>>

RouterInit ==
  /\ usdc = UsdcBalance
  /\ routerCouncil = InitialRouterCouncil
  /\ split = DefaultSplit
  /\ events = <<>>

----------------------------------------------------------------------------
Portion(amount, bps) == (amount * bps) \div BPS_TOTAL

\* A variant that rounds the creator's share down like the others.
PreviewSplitRounded(amount) ==
  [pool    |-> Portion(amount, split.pool),
   llc     |-> Portion(amount, split.llc),
   council |-> Portion(amount, split.council),
   creator |-> Portion(amount, split.creator)]

\* previewSplit, and the same arithmetic in boost: the creator gets the rest.
PreviewSplit(amount) ==
  [pool    |-> Portion(amount, split.pool),
   llc     |-> Portion(amount, split.llc),
   council |-> Portion(amount, split.council),
   creator |-> amount - Portion(amount, split.pool) - Portion(amount, split.llc)
                      - Portion(amount, split.council)]

\* The pull and the four transfers, in the code's order.
Disbursed(bal, from, creator, amount, parts) ==
  LET b1 == Moved(bal, from, Router, amount)
      b2 == Moved(b1, Router, creator, parts.creator)
      b3 == Moved(b2, Router, PersistencePool, parts.pool)
      b4 == Moved(b3, Router, LlcTreasury, parts.llc)
  IN  Moved(b4, Router, CouncilFund, parts.council)

\* boost(manifestHash, amount)
Boost(sender, m, amount) ==
  /\ Len(events) < MaxBoosts
  /\ amount >= MIN_BOOST
  /\ IsRegistered(m)
  /\ ScoreBps(m) < THETA_FEED_BPS
  /\ CanPay(usdc, sender, amount)
  /\ usdc' = Disbursed(usdc, sender, OwnerOf(m), amount, PreviewSplit(amount))
  /\ events' = Append(events, [manifest |-> m, from |-> sender, creator |-> OwnerOf(m),
                               amount |-> amount, parts |-> PreviewSplit(amount)])
  /\ UNCHANGED <<routerCouncil, split>>

\* A variant of setSplit that accepts any split that does not exceed the total.
SetSplitUpTo(sender, newSplit) ==
  /\ sender = routerCouncil
  /\ newSplit.creator + newSplit.pool + newSplit.llc + newSplit.council <= BPS_TOTAL
  /\ split' = newSplit
  /\ UNCHANGED <<usdc, routerCouncil, events>>

SetSplit(sender, newSplit) ==
  /\ sender = routerCouncil
  /\ Valid(newSplit)
  /\ split' = newSplit
  /\ UNCHANGED <<usdc, routerCouncil, events>>

\* setCouncil
SetRouterCouncil(sender, newCouncil) ==
  /\ sender = routerCouncil
  /\ newCouncil # ZeroAddress
  /\ routerCouncil' = newCouncil
  /\ UNCHANGED <<usdc, split, events>>

----------------------------------------------------------------------------
Boosting ==
  \E sender \in Address :
    \/ \E m \in Manifest, amount \in BoostAmount : Boost(sender, m, amount)
    \/ \E s \in Splits : SetSplit(sender, s)
    \/ \E a \in Address \cup {ZeroAddress} : SetRouterCouncil(sender, a)

editorialVars == <<blockVars, registryVars, oracleVars, routerVars>>

EditorialInit == BlocksInit /\ RegistryInit /\ OracleInit /\ RouterInit

EditorialNext ==
  \/ Boosting /\ UNCHANGED <<blockVars, registryVars, oracleVars>>
  \/ Scoring /\ UNCHANGED <<blockVars, registryVars, routerVars>>
  \/ Registrations /\ UNCHANGED <<blockVars, oracleVars, routerVars>>
  \/ NextBlock /\ UNCHANGED <<registryVars, oracleVars, routerVars>>

EditorialSpec == EditorialInit /\ [][EditorialNext]_editorialVars

----------------------------------------------------------------------------
(***************************************************************************)
(* Properties                                                              *)
(***************************************************************************)
Boosted == [manifest : Manifest, from : Address, creator : Address, amount : Nat,
            parts : [creator : Nat, pool : Nat, llc : Nat, council : Nat]]

\* The split always sums to BPS_TOTAL and every amount paid is a natural: the
\* subtraction that gives the creator the rest never underflows.  Scores and
\* roles of the oracle are well formed as well.
RouterTypeOK ==
  /\ OracleTypeOK
  /\ usdc \in [Holder -> Nat]
  /\ routerCouncil \in Address
  /\ split \in Split
  /\ Valid(split)
  /\ events \in Seq(Boosted)

SumOverEvents(amountOf(_)) ==
  SumFunctionOnSet([i \in DOMAIN events |-> amountOf(events[i])], DOMAIN events)

\* What the Boost events say an account received.
Received(a) ==
  SumOverEvents(LAMBDA e :
    (IF e.creator = a THEN e.parts.creator ELSE 0)
    + (IF PersistencePool = a THEN e.parts.pool ELSE 0)
    + (IF LlcTreasury = a THEN e.parts.llc ELSE 0)
    + (IF CouncilFund = a THEN e.parts.council ELSE 0))

Sent(a) == SumOverEvents(LAMBDA e : IF e.from = a THEN e.amount ELSE 0)

\* INV-9 and INV-6: every balance can be reconstructed from the Boost events
\* alone, also when creator, sender and treasuries coincide, and the router
\* itself keeps nothing.
BalancesFromEvents ==
  \A a \in Holder : usdc[a] = UsdcBalance[a] + Received(a) - Sent(a)

\* INV-11 at its strongest: content under an absolute exclusion is never
\* boosted, whatever the Council and the scoring service did before.
AbsoluteNeverBoosted ==
  [][\A m \in Manifest :
       scores[m].isAbsolute /\ events' # events =>
         events'[Len(events')].manifest # m]_editorialVars

\* Money for a manifest goes to one creator for ever: the one who registered it.
OneCreatorPerManifest ==
  \A i, j \in DOMAIN events :
    events[i].manifest = events[j].manifest =>
      events[i].creator = events[j].creator /\ events[i].creator = OwnerOf(events[i].manifest)

\* The creator gets at least its basis points of every boost, and at most the
\* three remainders on top.
CreatorShareFair ==
  [][events' # events =>
       LET e == events'[Len(events')] IN
       /\ e.parts.creator * BPS_TOTAL >= e.amount * split.creator
       /\ e.parts.creator * BPS_TOTAL < e.amount * split.creator + 3 * BPS_TOTAL]_editorialVars

\* Every token that moved is in a Boost event, and the events of a manifest name
\* one creator (BoostRouter.sol:204-255).
MoneyFollowsEvents == RouterTypeOK /\ BalancesFromEvents /\ OneCreatorPerManifest

\* The rules no order of publications, contests, registrations and boosts may
\* break: a contested score stands, excluded content is not boosted, rounding
\* does not cost the creator (RiskOracle.sol:239, BoostRouter.sol:211, 227).
EditorialRules == FrozenWhileContested /\ AbsoluteNeverBoosted /\ CreatorShareFair
============================================================================
