# Aevia: TLA+ models, checks and proofs

Aevia is a video protocol: creators publish live streams to *provider nodes*,
viewers watch from them and sign receipts for the bytes they got, a
*coordinator* turns receipts into settlements on chain, and four contracts keep
ownership, risk scores, tips and rewards. A web application is where creators
broadcast, register and manage their lives and where viewers watch; a second site
presents the project. This directory models the parts of it
whose correctness depends on the order in which things happen, checks the models
with TLC and proves the central ones with TLAPS.

Contents: 1 the system, 2 modules and how they correspond to the code, 3 the
runs, 4 bounds, 5 fairness, 6 proofs, 7 where code and comments disagree, 8 what
is not modelled, 9 plan, 10 how to run.

## 1. The system

| Part | Source | State | Operations | Talks to |
|---|---|---|---|---|
| PersistencePool | `packages/contracts/src/PersistencePool.sol` | settlements, allocations, claim flags, counters, token balance | deposit, submitSettlement, claim, setCoordinator | coordinator (submits), providers (claim), BoostRouter (transfers in) |
| ContentRegistry | `.../ContentRegistry.sol` | record per manifest, nonce per owner | registerContent | wallets (signatures), BoostRouter (reads) |
| RiskOracle | `.../RiskOracle.sol` | score and active contest per manifest, two roles | publishScore, contestScore, resolveContest, rotate, setCouncil | scoring service, Council, BoostRouter (reads) |
| BoostRouter | `.../BoostRouter.sol` | split, council; passes USDC through | boost, setSplit, setCouncil | the two above, the pool |
| Proof of Relay | `services/provider-node/por` | receipt store of a provider | Issue (viewer), /ack (provider), BuildSettlement | coordinator |
| Coordinator | `services/coordinator/internal/{epoch,settle,receipts,chain}` | cursor `lastSince`, in memory | TickOnce, SettleOnce | receipt store, JSON-RPC node |
| CMAF segmenter | `services/provider-node/internal/whip/segmenter.go`, `parts.go` | sample buffer, durations, part cursor, indices | OnVideoFrame, Close | LivePinSink |
| LivePinSink | `.../whip/livepin.go` | init, segments, parts, final manifest | OnInitSegment, OnMediaSegment, OnMediaPart, Finalize, reads | content store |
| LiveRouter | `.../whip/live_http.go` | sessions | playlist, segment, part, manifest handlers | LivePinSink |
| HLS muxer | `.../whip/hls_muxer.go` | access unit being gathered, parameter-set cache, first timestamp | OnVideoFrame, Close | gohlslib |
| Session lifecycle | `services/provider-node/cmd/provider/main.go` | goroutines per session | set-up, teardown on origin and mirror | all of the live plane |
| Player page | `apps/video/src/components/player-screen.tsx`, `lib/webrtc/whep*.ts` | peer connections, failover handle, one video element, poll counter | mount, retry, mute, failover loop, HLS fallback, hand-over to the recording, unmount | providers, Cloudflare, Livepeer |
| Go-live page | `components/go-live-screen.tsx`, `lib/webrtc/whip.ts`, `recorder.ts` | camera, WHIP session, recorder, status | startPreview, goLive, stopLive, unmount | `/api/lives`, upload queue |
| Upload queue | `components/upload-context.tsx`, `upload-banner.tsx` | rows, tus instances | startUpload, callbacks, dismissUpload | Cloudflare, link-recording |
| Studio | `app/dashboard/live-row.tsx`, `api/lives/[id]/*`, `lib/cloudflare/stream-client.ts` | row state; meta of a live input; KV counter | register by wallet or relayer, rename, delete, link | Cloudflare, KV, ContentRegistry |
| Sessions and tokens | `packages/auth/src/*`, `middleware.ts`, `api/lives/[id]/{publisher-token,whip}` | cookies, publisher tokens | sign in and out, visit, redirect, mint, publish | Privy, Cloudflare WHIP |
| Listings and pages | `app/{feed,discover,creators,creator,dashboard}`, screens | rendered page and its links | render, follow a link, delete | Cloudflare |
| Mesh directory | `lib/mesh/*`, `apps/network/.../network-map.tsx` | candidates, health, latency samples, map | resolve over relays, rank, probe, poll | provider nodes |
| Website | `apps/network/src` | path, scroll position, menu | follow, switch language, open and close menu | |
| WHIP, WHEP, mirror fan-out, DHT, pinning | `services/provider-node/internal/*` | see section 8 | | |

What is hard about it:

* **Economic plane.** The coordinator is one goroutine, but receipts arrive, RPC
  calls fail, transactions are delayed, dropped or mined after a timeout, and the
  process restarts with a cursor that lives in memory. The contract divides
  integers, accepts any arrays, and checks solvency one settlement at a time.
* **Editorial plane.** Signatures outlive the state they were made in; scores,
  contests, role changes and boosts race each other.
* **Live plane.** Two goroutines and any number of HTTP handlers per session;
  timestamps are uint32 and wrap; durations are known one frame late; packets get
  lost; packets still buffered arrive after the session was closed.
* **Web plane.** JavaScript runs to completion between two awaits, and everything
  can happen at an await: the page is left, the button pressed again, a timer fires
  before the answer, a connection breaks and recovers. Refs are set after an await
  and read by a cleanup that ran before. Server handlers read, wait for a chain or a
  service, and write what they computed from the old value. Two tabs, two cookies,
  overlapping polls, two languages of the same site.

What makes it correct: rewards follow receipts and tokens are conserved; each
receipt is settled, once; a registration says what its owner signed; a contested
score stands; a stream's frames end up in segments once and in order; what was
published under a URI stays; a viewer holds one connection, loses no healthy one and
leaves none behind; a recording reaches its own live once; what the studio calls
anchored is on chain; a page is for the user the server verified, lists what there is
and links to what exists.

## 2. Modules

```
RewardLedger   <- abstract specification of --  PersistencePool -- uses Erc20
SumTheorems    -- lemmas for ------------------ *Proofs
ProofOfRelay   <- Coordinator  \
                  PersistencePool  => EconomicLoop
EvmBlocks      <- ContentRegistry \
               <- RiskOracle       => BoostRouter (+ Erc20)
RtpFrames      <- LivePinSink <- CmafSegmenter <- LiveSession
               <- HlsMuxer
WhepFailover   <- PlayerScreen
UploadQueue    <- GoLiveScreen
LiveRegistration
StableSort     <- LiveIndex <- AppPages \
               <- MeshDirectory          => Site
WebsiteContent <- Website               /
                  WebSession           /
*Proofs        theorems about the module they are named after and the modules it
               composes (section 6); LivePlaneProofs: LiveSession and HlsMuxer
MC*            small instances, with their .cfg
```

**PersistencePool.** One action per external function; a transaction is atomic and
a revert is a disabled action. The id-indexed mappings are sequences. Allocation
is *assigned* per array entry, so a repeated address keeps its last share
(`LastPosition`), while its bytes are *added* (`BytesOf`), as in the loop at
lines 207-214. `received` is a history variable. uint256 overflow reverts: `Fits`.

**RewardLedger.** What a pool promises: a fund, what is owed, what was paid.
`ImplementsRewardLedger` maps the pool's balance, unclaimed allocations and
`cumulativeRewardsPaid` to it.

**ProofOfRelay.** Receipts travel from viewer to provider in `inflight`, may be
lost, and are stored under a key without the viewer. `Window` is the half-open
interval of the reader; `BuildSettlement` is `SettlementProviders` (the providers that
occur, at their places in the order of PeerIDs) and `PerProviderBytes`. Signatures are
taken as valid.

**Coordinator.** A tick is four steps (read and build, nonce and sign, send, wait),
because other actors run between them. Every error return is an action: any RPC
before the broadcast, a send that fails although the node took the transaction, a
wait that times out or breaks, a revert. A restart resets the cursor. The chain
mines an account's transactions in nonce order and may revert or drop one
(external). An unresolvable provider disables `Tick`, because the attempt ends in
an error that changes nothing.

**EconomicLoop.** Coordinator and PersistencePool together: a mined transaction
succeeds exactly when `SubmitSettlement` accepts the arguments SettleOnce encoded.

**EvmBlocks, ContentRegistry, RiskOracle, BoostRouter.** Time and chain id;
registrations authorised by signatures that exist for ever and can be submitted by
anyone; scores with their skew window and contests; boosts that read both. The
three score components are one, and hashes are what they commit to.

**RtpFrames.** The publisher (external): pictures of one or several packets, with
parameter sets in the IDR packet or in one of their own, uint32 timestamps. Packets are lost
but not reordered, and SPS and PPS travel together (section 8).

**CmafSegmenter, LivePinSink.** `ingestFrame` runs under one lock, so it is a
function from segmenter and sink to segmenter and sink, composed of one operator
per step of the code (`CaptureParams`, `Rooted`, `Flush`, `AppendSample`,
`EmitPart`). A segment or part is the sequence of its frames and its ticks.

**LiveSession.** The track reader, the teardown goroutine (origin or mirror), and a
playlist request, which reads the sink in three critical sections.

**HlsMuxer.** Access-unit batching, cached parameter sets, presentation times,
Close. It is checked by itself: the tee hands the same frames to the segmenter and
to the muxer, which share no state.

**WhepFailover, PlayerScreen.** A session is one call of `playWhep`; a handle is one
failover loop. An action is what happens between two awaits, the awaiting code
included: an answer, a connection event, a timer with all the loop does then. The page
is a record of the state its effects depend on, and one React commit (state change,
render, cleanups and effects) is one step. HLS, the libp2p node and the recording's
readiness are small state machines beside it. A connection is `Open` until somebody calls
`close`, whatever became of the call that made it: `Abandoned` are those of a `playWhep` that
threw without closing, `InUse` those whose handle the page has. Metrics, badges and captions
are left out.

**GoLiveScreen, UploadQueue.** A cast is one call of `goLive`, so that the recorder, the
peer connection and the live it belongs to can be told apart when refs are
overwritten. `slips` records what a broadcaster did that the screen does not guard
against (stop twice, retry after an error, leave while connecting), that a slow stop of an
earlier session took the stream away during a later offer (`"pulled"`), and `"stale"`, when
`startRecorder` threw while the ref held the recorder of an earlier broadcast. It may throw
whenever it is called, as the page catches whatever it throws, and must when there is nothing
to record or no stream. `StopReleases` is about visits without any slip, `RecordingsHonest`
needs only that the last did not happen (section 7). A task of the queue is one call of
`startUpload`; the last link of a live stands.

**LiveRegistration.** A request to the server is a job whose stage is the await it is
in. The chain assigns one nonce per owner; `written` remembers, per live, the last
value put under each key, and `overlap` whether two jobs ran at once. A row may lose
the answer of its request at any time.

**WebSession.** Privy's cookies with their freshness, the middleware, the redirects of
`/` and of protected pages, `readAeviaSession` with its fallbacks, minting and using
publisher tokens. A call of the mint route is a record of its own, as it outlives the panel
and the page it was made from: the server may mint for a panel that is closed, the answer may
be lost, and a panel opened again starts anew. One panel is open at a time. JWTs verify or do
not.

**LiveIndex, AppPages.** Five pages as functions of the live inputs Cloudflare lists,
checked against what they must agree on; then a walk by links through all pages of the
application while lives are deleted and the session ends. A visit of the sign-in page
carries its `next`; the page of a live is the not-found page whenever Cloudflare's answer
fails, not only when the live is gone.

**MeshDirectory.** The DHT walk over relays, the ranking, the health and latency probes
of the trust page and the polls of the map. A relay is asked (a timer runs), answers with a
body (none does), and its list may break off at a malformed entry with what was read of it
kept. A node reports its own PeerID. Places are points of a line.

**Website, WebsiteContent.** Paths, links, tables of contents, language switch, mobile
menu, sitemap. Of the texts only ids and cross references are kept, so these two modules
are small against the files they stand for; the prose (about 2,900 lines of TypeScript)
makes up a quarter of the TypeScript lines `PROJECT.json` maps, and says nothing else a
model could check. Without it the map covers just under a third of the TypeScript.

**Site.** The parts that share no state, one per tab, so that one run covers them: `part` is one
of `Parts`. A session as a whole is the part `"session"`; TLC explores it as two halves,
`"cookies"` (signing in and out, browsing) and `"tokens"` (a dashboard, its panels, minting and
publishing), whose product is too large. The theorems hold for any choice of parts, the whole
session among them.

Properties are conjunctions of named parts where they belong together
(`AttemptsSound`, `SegmentsFaithful`, `EditorialRules`, ...), the type invariant of a module
among them.

Definitions called "a variant of ..." are the mutants: each states a plausible bug
of the definition that follows it and is used only to show that a property notices.

## 3. Runs

| Run | Module, cfg | Result | States | Shows |
|---|---|---|---|---|
| pool | MCPersistencePool | holds | 78,724 | header invariants 1, 2, 3 (conditional) and 5, finality, refinement of RewardLedger |
| coordinator | MCCoordinator | holds | 126,123 | nonces and cursor, no double settlement when undisturbed, every receipt's second covered |
| loop | MCEconomicLoop | holds | 553,556 | allocations and byte counters follow the receipts |
| registry | MCContentRegistry | holds | 148,666 | records final, as signed, one nonce each, parents well founded; also over a fork |
| boost | MCBoostRouter | holds | 201,408 | balances from events, creator's share, one creator, exclusion, frozen contests |
| live | MCLiveSession | holds | 443,565 | frames once and in order, numbering, durations, parts, playlists, finality, manifest at the end |
| muxer | HlsMuxer | holds | 35,535 | whole pictures, parameter sets |
| player | MCPlayerScreen | holds | 179,400 | one attempt at a time, healthy stream kept, failover decides, replay reached, nothing of the loop left behind but what `playWhep` abandoned |
| studio | MCLiveRegistration | holds | 797,517 | meta and rows truthful, counter never overcharges, sequential writes kept, rows settle |
| broadcast | MCGoLiveScreen | holds | 304,528 | recordings uploaded once and, unless `startRecorder` threw over an earlier recorder, for their own live, banner honest, devices released, nothing hangs |
| site | MCSite | holds | 388,913 | pages for their user, tokens, listings, links, directory; rendering and the map, stalled bodies aside |
| coordinator_twice | MCCoordinatorTwice.cfg | violated | | section 7, 2 |

Some properties are stated in the form in which they hold, next to the stronger one
that does not: `SolventIfCovered` and `EveryClaimPayable`, `SettledOnceUndisturbed`
and `SettledAtMostOnce`, `EveryReceiptCovered` and `EveryReceiptSettled`,
`PartsTileSegments` and `PartsBelongToSegment`, `UnmountReleases` and
`NothingOutlivesThePage`, `WritesKept` and `PartialUpdatesSafe`, `NoOvercharge` and
`SponsorshipCapped`, `RecordingsHonest` and `NoRecorderNoVideo`, `TokensHonest` and
`PanelShowsLatest`, `CandidatesInOrder` and `CandidatesFromOneRelay`.

Deadlock is checked for the pool, where somebody can always act. The other systems
may stop: their clocks, message counts and fault counts are bounded, a session
ends.

## 4. Bounds

* pool: two accounts that are creators and providers at once, arrays of up to two
  entries (so an address can repeat), two settlements (so that one can eat into what
  the other promised), amounts that do not divide evenly, a largest integer (5) that
  arithmetic does reach.
* coordinator: two receipts and four seconds give two adjoining windows; two
  failures give a dropped transaction and a timeout on the one behind the gap; one
  restart.
* loop: two providers whose addresses sort the other way round than their PeerIDs,
  sizes 1 and 2, TotalRewards 3.
* registry: three signatures over two accounts, two CIDs, two chain ids and a
  reserved flag: the same nonce signed twice, a parent and a child, a signature used
  after a fork. Accounts and CIDs are symmetric.
* boost: basis points out of 10, amounts below and at the minimum, one account that
  is creator, sender and treasury, splits that add up, fall short and exceed, scores
  beyond the limit and at the ends of the skew window.
* live: a segment is 4 ticks, a part 2, a frame 1; four packets, 0, 2 or 4 ticks apart,
  from timestamp 14 of 16, so the clock wraps within the first segment; one packet
  after the end. That is enough for three segments, or a discarded buffer and a
  segment after it.
* muxer: five packets, timestamps modulo 8 from 6, two generations of parameter sets.
* player: eight pages (failover over two candidates, one candidate with the libp2p node,
  hub, Cloudflare, Livepeer, replay, forced HLS with hls.js and with a native player), two
  calls of startLive so that a retry happens, three polls instead of 24. Connections break
  and recover without a bound.
* broadcast: two casts, two cameras, two calls of a session's stop, all three backends: the
  least with which a retry, a double stop and two recordings occur together.
* studio: one live, one row, two jobs that may overlap, two seconds of signing time (so that
  manifests differ), two transactions, a budget of one registration.
* site: two accounts with a live each, tokens that live one tick, two sign-ins, two mints and
  two calls of the mint route under way, so that one made from a closed panel and one of the
  open panel overlap;
  every listing of three lives over ten kinds of live input; two relays with five answers,
  two registered nodes and one unknown, nodes that report a registered PeerID or an unknown
  one, five latency samples out of two values, two polls
  in flight and two changes; all pages of the website in both languages and seven other
  addresses.

`MaxTime`, `MaxReceipts`, `MaxFailures`, `MaxRestarts`, `MaxProviders`,
`MaxSettlements`, `MaxSigned`, `MaxBoosts`, `MaxGen`, `MaxFrames`, `MaxLate`, `MaxCalls`,
`MaxCams`, `MaxCasts`, `MaxStops`, `MaxJobs`, `MaxNow`, `MaxTx`, `MaxLogins`, `MaxMints`,
`MaxPolls` and `MaxChanges` are the bounds the code does not have; `Parts` is what of the site
a run explores, `Reported` what PeerIDs its nodes report. `MaxUint`, `Wrap`,
`MaxTicks`, `MaxFree`, `SAMPLES` and `TTL` are the code's own, scaled down.

## 5. Fairness

* Coordinator: weak fairness of the clock and of `Tick` (the ticker of `Driver.Run`
  fires for as long as the process runs), of `Sign`, `Send` and the end of the wait
  (straight-line code of one goroutine; `WaitMined` has a timeout), and of mining a
  minable transaction (external: the chain makes progress and gas is not
  underpriced for ever). Faults are never forced and are bounded.
* LiveSession: weak fairness of the teardown goroutine, which only takes locks that
  are always released. Nothing makes a session end.
* PlayerScreen: weak fairness of what the browser's event loop does by itself: each session's
  pending await (requests end, if only by failing; ICE gathering has a limit), each handle's
  timers, the polls, the import of hls.js, the steps of the libp2p node. No fairness of
  connecting, of the server's recording or of anything the viewer does.
* GoLiveScreen: weak fairness of each stop under way and of each upload (tus gives up after
  its retries; the link request is answered or fails). Nothing makes a broadcaster stop.
* LiveRegistration: weak fairness of each job's step (the wait for a receipt is bounded by
  `RELAYER_TX_TIMEOUT_MS`), of the answer to a row and of the end of its wait for a
  receipt (viem's default timeout). Wallet prompts may stay open for ever.
* Site: weak fairness of serving a request, of what a timer watches (a request to a relay up
  to its headers, health checks and latency samples of the trust page) and of the map's
  interval; strong fairness of a poll succeeding, as a node that answers at times answers
  again. None for the body of a relay's answer or of the map's health probe, whose timers are
  cleared before it is read (`resolve.ts:159-161`, `api/network/providers/route.ts:39-51`):
  `NobodyKeptWaiting` is about the pages and maps that no body stalls for ever.
* The contracts have no liveness of their own: every call is somebody's choice.

## 6. Proofs

Every theorem is about the specification its run checks and holds for every value of the
constants that satisfies the module's `ASSUME`s: any number of accounts, receipts, broadcasts or
requests, not the run's. The bounds of section 4 stay in the guards, but are arbitrary there.
Thirty of the forty properties of the passing runs are proved, and two results beyond them:

| Module | Theorem | States |
|---|---|---|
| EconomicLoopProofs | `TypeCorrect` | `[]TypeOK`: no subtraction underflows, the coordinator role cannot be burned |
| | `AllocationsNeverExceedRewards` | header invariant 1 |
| | `ProvidersPaidOnce` | header invariant 2 |
| | `CoveredPoolIsSolvent` | header invariant 3, under the condition that makes it true |
| | `PoolConserves` | header invariant 5 |
| | `PayoutsBounded` | paid plus claimable is at most promised |
| | `PoolImplementsLedger` | the refinement of RewardLedger, and settlements are final |
| | `AttemptsAreSound` | no stale nonce, the cursor passes settled time only |
| | `NoDoubleSettlement` | undisturbed, no receipt is settled twice |
| | `ReceiptsArePaid` | `ReceiptsPaidAndCounted` end to end, when every provider has an address of its own |
| | `BytesAreCountedOnce` | its second half, whoever operates how many nodes |
| BoostRouterProofs | `RecordsAreSound`, `RecordsAreFinal` | records are as signed, one nonce each, parents end; no step changes one |
| | `MoneyIsAccounted` | balances follow the events, one creator per manifest |
| | `EditorialRulesHold` | contests freeze, exclusion excludes, rounding favours the creator |
| LivePlaneProofs | `SegmentsAreTheStream` | frames once and in order, durations across the wrap, numbers in step |
| | `PartsAreTheSegment` | parts are the first frames of their segment |
| | `ServingIsHonest` | what is listed can be fetched, what is pinned was served |
| | `PublishedStays` | `PublishedIsFinal`, the safety half of `SessionKept` |
| | `MuxedStreamPlays` | whole pictures and parameter sets of *muxer* |
| PlayerScreenProofs | `PlayerTypes`, `AttemptsTakeTurns`, `PlayingStreamsKept` | all safety properties of *player* |
| LiveRegistrationProofs | `RegistrationTypes`, `MetaIsTruthful`, `NobodyOvercharged`, `WritesAreKept` | all safety properties of *studio* |
| GoLiveScreenProofs | `GoLiveTypes`, `StopsRelease`, `RecordingsAreHonest` | all safety properties of *broadcast* |
| SiteProofs | `TokensAreHonest`, `ProtectedPagesForTheirUser` | tokens and sessions of *site* |

Hardly any of these properties is inductive: what makes a step safe is usually something an
earlier step of another actor left behind. The arguments, with the invariant each needs:

* **Pool.** A settlement's allocations are floors of shares of the bytes. `AllocatedBound` scales
  both sides by the total bytes: over any set of providers the shares weigh no more than the
  bytes the array attributes to that set, by induction on the set, and a repeated provider counts
  with one of its positions only. `PromisesBoundPayouts` is not inductive alone: a settlement
  needs that its allocations are within its rewards, a claim that what leaves "outstanding" is
  what enters "paid". Hence
  `LedgerInv == TypeOK /\ AllocationsWithinRewards /\ PoolConservation /\ PromisesBoundPayouts`.
  Solvency follows by arithmetic. For the refinement every action is mapped: a settlement is an
  award covered by the fund, a claim a payment, deposits and transfers raise the fund, role
  changes stutter.
* **Registry.** `RegistryInv` adds to `RecordsSound` that nothing was consumed for a manifest
  without a record; without it a first registration could meet a used authorisation.
* **Router.** `EditorialInv` adds that an absolute exclusion carries the maximal score, and that
  events name registered owners. `SplitSound` is the arithmetic: with any valid split the four
  parts add up to the amount and the creator's lies between its basis points and three units
  above. Sender, creator and treasuries may coincide, so the balance sums are proved for the
  transfers one after the other.
* **Coordinator.** `PendingNonceFree` shows by counting that the chain's answer is a free nonce
  whatever gaps dropped transactions left. `AttemptSound` says what the attempt at hand knows: its
  window starts at the cursor, a signed nonce is free, and while the driver waits, only its own
  transaction can be mined under its nonce, so what the wait finds there is its own. `InOrder`
  (undisturbed, windows on chain end where the next begins, the last at the cursor) gives
  `NoDoubleSettlement`.
* **Loop.** Two computations of the same bytes must agree: the coordinator groups receipts by
  PeerID, sorts and resolves, the contract adds up by address and in total. `ProvidersListed` shows
  that sorting lists every provider once (the number of smaller elements is injective, so it takes
  every value below the cardinality), `GroupedSum` that adding up by provider and then over any set
  of places is adding up the receipts of those providers. Hence total and per-address bytes are
  those of the receipts, and so is a share if the address occurs once (`OneNodeEach`; section 7, 3
  is what happens otherwise). `ReceiptsKnown` is what the steps carry: every window read so far is
  finite and of registered providers. The n-th settlement is the n-th mined transaction that did
  not revert, also after an append (`NthAfterAppend`). That a receipt is counted once needs
  `InOrder`: the transaction being mined starts where everything settled before had ended
  (`FreshReceipts`).
* **Segmenter and sink.** `ingestFrame` is a composition, so there is one lemma per operator
  (`CaptureOK`, `RootedOK`, `AppendSampleOK`, `EmitPartOK`, `FlushOK`, `BufferOK`, `IngestOK`), each
  showing what it leaves true of a segmenter and a sink (`MediaOK`). `TicksSpanSegment` follows only
  from what is known of the samples still in the buffer: every duration but the last is the
  difference of two timestamps, the last is not known yet (`Timed`). Numbers stay in step because a
  discarded buffer takes no number; parts tile because `partFrom` is where the parts announced so
  far end (`Announced`, `Tiled`). What a request read stays true since the sink only grows
  (`Listed`, `Grows`). A pinned manifest stays complete because what is buffered when the session
  ends is less than a segment (`SessionAssumption`, `AfterClose`): that is a condition, not
  something the code checks. The facts about `FlattenSeq` and the fold over durations come from the
  community modules' definitions, by an induction whose predicate is a set (`NaturalInduction`).
* **HLS muxer.** `NothingLost` says that what was written followed by the access unit being gathered
  is the packets sent so far, `OnePicture` that this unit has one timestamp, `Cached` that parameter
  sets once written are in the cache.
* **Player.** A loop has tried as many candidates as it has sessions, and all but its current
  one are closed (`Tried`); the flags of an attempt do not lag behind its connection (`Signals`);
  where the current session is follows from what the loop awaits (`Awaits`). An answer or event
  for a session of another loop cannot touch it (`Others`), and `Refs` keeps the page's refs at
  sessions and handles that exist.
* **Studio.** What a row or a request carries over an await is still true when it is used: the
  transaction it waits for is of its manifest, a manifest about to be written is anchored, the
  count it has read does not exceed the others' successes (`RowOK`, `JobOK`). These survive every
  step of every other request because nothing they mention is ever taken back (`Grows`).
  `OneAtATime` gives `WritesKept`.
* **Go-live page.** In a visit without slips each open connection and running recorder is held by
  a ref or by a stop that will close it (`EverythingHeld`), which needs the phases of the page
  (`Phases`). Each recorder is in one place (`OneRecorder`), a stop names the live of the recorder
  it took (`Matched`), a link names a video that was stored for that live (`LinksSound`). `Matched`
  is inductive only as long as `"stale"` did not happen; otherwise the ref holds the recorder of
  one broadcast and the page the live of another (section 7).
* **Sessions.** Calls of the mint route outlive what made them, so the answer that arrives need
  not be the open panel's. The invariant says which is: at most one call has somebody waiting for
  it, it is for the live of the open panel, which is loading, and a token it brings is newer than
  the one shown (`CallInTurn`, `PanelInTurn`); closing the panel or leaving the page orphans it
  (`Orphaned`), and an orphaned call can mint but not be shown. Every token was minted by the
  owner of its live and the last publish was allowed by one. `ProtectedForItsUser` follows from
  `Serve` and the type of the cookies. The other parts of the site leave this state alone.

TLC confirms every inductive invariant on all states of its run; `GoLiveInv` also on part of an
instance with three broadcasts, `LiveInv` with two late packets, `LoopInv` also with one address
for both providers.

Assumptions, all named, in the module that declares the constants, and evaluated by TLC in the
runs: finite sets of accounts and CIDs, natural amounts, a zero address outside the accounts
(`AddressAssumption`, `AmountAssumption`, `CidAssumption`, `BlockAssumption`, `OracleAssumption`,
`RouterAssumption`); a clock that starts at 1 (`ClockAssumption`); any integer
as the configured start of the cursor (`CursorAssumption`); PeerIDs in a total order, natural sizes
(`PeerAssumption`); a resolver defined on registered providers (`ResolverAssumption`); an even number
of timestamps (`RtpAssumption`, `WrapAssumption`: 2^32), a frame no longer than a part, a part no
longer than a segment (`SegmenterAssumption`), less than a segment buffered at the end
(`SessionAssumption`); pages that start the libp2p node only with candidates
(`PlayerAssumption`); rows that show a live of the creator,
broadcasts numbered from 1, at least one account, lives numbered from 1, and natural bounds
(`RegistrationConstants`, `GoLiveConstants`, `SessionConstants`); parts among those there are
(`SiteConstants`).

`SumTheorems` holds the lemmas several proofs use. Sums are `SumFunctionOnSet`, a fold whose
definition is a recursive function chosen on the subsets of a set; the facts about it (empty sum,
removing an element, monotonicity, disjoint unions, one changed entry, sum of two functions) come
from that definition by well-foundedness of strict inclusion between finite sets.

Only model-checked, and why:

* `EveryReceiptCovered`, `FailoverDecides`, `ReplayReached`, `UnmountReleases`, `RegisterSettles`,
  `NothingHangs`, `NobodyKeptWaiting`, and the part of `SessionKept` about the manifest: liveness,
  which needs fairness and `ENABLED`.
* `SiteTypeOK`, `PagesTruthful`: what filters and sorts over listings and link tables compute.
  `SelectSeq` has no definition the provers could use, and `Sorted` folds an operator.

## 7. Where code and comments disagree

Number 2 is a run; the other statements are violated in the same way, by a short behaviour of
the model: take the configuration of the run, check the statement in place of its properties
and make the changes in brackets.

1. `EveryClaimPayable` in *pool*. `submitSettlement` compares totalRewards with the whole balance,
   including what earlier settlements have promised. Two covered settlements can
   promise more than there is; the header says a short pool "shouldn't happen if
   totalRewards <= deposited".
2. *coordinator_twice.* An attempt that times out, or whose send is unconfirmed, is
   repeated with a new nonce while the old transaction lives. Both settle the same
   receipts.
3. `PaidByReceipts` in *loop* [`MaxFailures = 0`, `MaxRestarts = 0`, `Resolve <- BothBob`].
   Two PeerIDs of one operator give two array entries with one
   address; the second allocation overwrites the first.
4. `ManifestAfterEnd` in *live* [`Step = {2}`, `MaxFrames = 3`, `Role = "mirror"`,
   `StoreMayFail = FALSE`]. The teardown of a mirrored session never finalizes the sink, so the
   manifest its comment promises never appears.
5. `IdrHasItsParams` in *muxer*. The parameter-set cache is filled once and never refreshed.

Further statements worth having although the code does not meet them:

* `EveryReceiptSettled` in *coordinator* [`MaxTime = 3`, `MaxFailures = 0`,
  `MaxRestarts = 0`]: a receipt stored after the window over
  its second was read is never settled (`receipts/reader.go:78`), against
  `driver_test.go:79` "next tick widens the window to catch receipts".
* `RegisteredNotBlocked` in *coordinator* [`Provider = {p1, p2}`, `MaxTime = 3`,
  `MaxFailures = 0`, `MaxRestarts = 0`]: one provider without an address
  fails the attempt for all, on every tick (`settler.go:140`).
* `NeverMaskedByStale` in *boost* [`MaxTime = 2`]: within the skew window an older score
  replaces a newer one (`RiskOracle.sol:246`, ADR 0009 "Ancient rejection").
* `EndlistComplete` in *live* [`Step = {2}`, `MaxFrames = 5`, `StoreMayFail = FALSE`]: segment count
  and final manifest are read in different critical sections, so a playlist may say EXT-X-ENDLIST without the last
  segment (`live_http.go:177` and `219`).
* `PartsBelongToSegment` in *live* [as before]: parts of a discarded buffer stay
  published under the next segment's index, and that segment's own parts are refused
  (`segmenter.go:253`, `livepin.go:81`).
* `PartsReachTarget` in *live* [`Wrap = 32`, `FirstTS = 0`, `Step = {1}`, `MaxFrames = 7`,
  `SegmentTicks = 9`, `PartTicks = 3`, `FrameTicks = 2`, `Lossy = FALSE`,
  `StoreMayFail = FALSE`]: above 30 frames per second `partStartTS`
  runs ahead of the stream, the uint32 difference wraps, and every frame becomes a part
  (`segmenter.go:194` and `244`).
* `SegmentsStartOnKeyframe` in *live* [as for `EndlistComplete`, `Lossy = FALSE`]: parameter sets
  in a packet of their own become the first sample (`segmenter.go:147` and `337`).
* `PtsAdvances` in *muxer* [`MaxFrames = 6`]: the int32 conversion turns negative half way through
  the timestamp space, 6.6 hours into a stream (`hls_muxer.go:235`).

* `NothingOutlivesThePage` in *player* [`Pages <- WhepPages`]: a single-URL session that is opened
  after the viewer left is never stopped, as its ref is set behind the cleanup
  (`player-screen.tsx:267` and `297`, "Stop both"). The loop a forced page's retry starts and
  the connections of failed attempts, below, stay too.
* `HlsOwnsPlayback` in *player* [`Pages <- ForcedPages`]: on a `?hls=1` page with candidates the retry
  button starts the failover loop (`player-screen.tsx:175` and `194`), which the page's
  cleanup does not stop.
* `PolledToTheEnd` in *player* [`Pages <- CloudPages`]: a connection that is declared failed after it
  was lost turns "ended" into an error and the polling for the recording stops (`585`).
* `NoRecordingLost` in *broadcast* [`Available <- CloudOnly`]: a retry after a failed connection overwrites the
  recorder's ref; the first recording is lost while its recorder runs on
  (`go-live-screen.tsx:233-237`).
* `SponsorshipCapped` in *studio* [`MaxJobs = 3`]: the counter is read before the transaction
  and written after it, and a 504 is not counted, so the budget can be exceeded
  (`register-relayed/route.ts:30`, `191` and `358`).
* `OneManifestPerLive` in *studio* [`MaxJobs = 3`]: the check for another manifest reads the
  meta, which is written after the chain; two overlapping or unseen registrations anchor two
  manifests of one live (`register-relayed/route.ts:185`).
* `PartialUpdatesSafe` in *studio* [`MaxJobs = 3`]: `updateLiveInput` reads, merges and puts;
  overlapping updates lose keys (`stream-client.ts:99` and `107`).

* `FailedAttemptsClose` in *player*: `playWhep` closes its connection when the server refuses the
  offer, but not when the fetch itself throws or `setRemoteDescription` rejects
  (`whep.ts:175-189`); nobody else has a reference to it.
* `NoRecorderNoVideo` in *broadcast*: see below.
* `PanelShowsLatest` in *site*: a mint whose answer is lost ends in the catch
  (`obs-broadcast-panel.tsx:63-68`) and the panel goes on showing the older token, while line 42
  says "mint-fresh-on-click"; so does one minted for a panel that was closed and opened again.
* `CandidatesFromOneRelay` in *site*: a malformed entry ends a relay's list in the catch with the
  entries before it kept, and the next relay's are appended (`resolve.ts:165-183`), against "the
  DHT response IS the authoritative list" (`177-179`).
* `RowsNameKnownProviders` in *site*: the trust page prints the PeerID a node reports of itself
  (`health.ts:97`, `trust-screen.tsx:346`), under "cada linha é um provider público conhecido"
  (`trust-screen.tsx:316`).
* `UnknownGeographyBetween` in *site*: `rank.ts:16-18` puts providers without a region before
  those of another region, the scores put them behind.
* `FewSamplesOneNumber` in *site*: `latency.ts:44` says that p95 equals p50 below three samples,
  which is false for two.

Stated relative to what happens, because the code has no guard: `RecordingsHonest` leaves out
the slip "stale". A broadcast is declared failed and the broadcaster tries again; the second
`startRecorder` throws, for whatever reason, a stream that ended by itself during the offer
among them; "continuing without VOD" says the catch (`go-live-screen.tsx:236-241`), but the ref
still holds the recorder of the first broadcast, and the next stop uploads that recording for
the second live, where `link-recording` lets it replace what was there
(`link-recording/route.ts:53` and `83`). Two broadcasts suffice. `StopReleases` leaves out
a stop pressed twice while the DELETE is slow, a retry after an error, and leaving the page
while the camera or the connection is being opened (`go-live-screen.tsx:254` and `300`).
`ScrollsWhenClosed` is about the menu being open, not visible: a menu left open while the window
is widened keeps the page from scrolling until Escape (`mobile-menu.tsx:40`).

Other differences between comments and code in the web plane, seen while modelling:

* `resolve.ts:47` calls the timeout per relay, but it is cleared before the body is read
  (`159-161`), so that a relay that stalls there keeps the page waiting; the map's route has the
  same order (`api/network/providers/route.ts:39-51`).
* `discover/page.tsx:67` says "prefer the most recent display", the first listing wins; the
  dashboard and the creator page count a live for both its meta creator and its default
  creator, the cards for one of them.
* `middleware.ts:14-18` lets `privy-session` pass, which `readAeviaSession` does not read; a user
  whom the client takes for signed in and the server does not, gets disabled buttons
  (`login-button.tsx:22-24`). `providers.tsx:36-39` says no upload survives a sign-out.
* `whip.ts:114-117` speaks of two layers on mobile, `MOBILE_LAYERS` has three; the share link of
  the player is `/live/{uid}` for every backend (`player-screen.tsx:700-702`); a failed listing
  is shown as nobody being live.
* Website: the sitemap has neither rfc-6 to rfc-8 nor `/operator`, and no page links to
  `/operator`; `/network` marks no navigation item active and its figures never refresh; the
  card of rfc-8 says ten sections, the page has five; the not-found page is always in
  Portuguese; `aup/page.tsx:13` counts four in-app links, there are five.

Differences seen while reading, without a model: the 72-hour contestation window before a
claim (`docs/protocol-spec/8-economic-architecture.md`, INV-10) has no counterpart in
`claim`; arrays are sorted by PeerID, not by address as the header of the pool says.

## 8. Not modelled

* Byte formats: fMP4 boxes, AVCC, H.264 depacketizing, EIP-712 and ABI encoding, Merkle
  roots, CIDs. They are abstracted to what they contain or commit to.
* Signatures are taken as unforgeable and valid; gas, fees and token approvals as given.
* `refusedSegments` in the sink counts errors the segmenter would propagate; the fragment
  sequence number is left out.
* RTP packets that are reordered on the way (`frames.go:130-166` has no jitter buffer), and a
  packet with only one of SPS and PPS (`hls_muxer.go:221-228` has a branch for each).
* A Location header that is no URL, at which `playWhep` throws although the answer was applied.
* Two OBS panels open in two rows at once: each has a state of its own, so the model has one.
* WHIP and WHEP signalling (pion), mirror fan-out, DHT, pinning and quota, the HTTP client,
  configuration, TLS, storage wrappers: see the components in `PROJECT.json` for the reason
  of each, and the plan below for those that will follow.
* The web plane: wording, styling and metrics; the exchange of chunks between viewers, which
  happens inside p2p-media-loader; the cryptography of JWTs, CIDs and signatures; Cloudflare,
  Livepeer, Privy, tus-js-client, hls.js and the browser are external and modelled from how
  they are used. `vod.ts` and `probe.ts` are used by no page. The texts of the website are
  data: only anchors and cross references are modelled.
* Indexer, manifest service and recorder are stubs in the source.

## 9. Plan

Done: the economic plane (contract, receipts, coordinator, their composition), the editorial
contracts, the live plane of one session, the web plane (player, broadcasting and uploads,
studio and relayed registration, sessions and tokens, pages, mesh directory, website), and the
proofs of section 6.

Next, in this order:

1. `MirrorClient`: probe loop, consecutive losses, round-trip drift, cooldowns and stream
   teardown of `internal/mirror/client.go`, with the ranker and the pool fetcher; no peer in
   cooldown is dialled, a dropped peer is eventually eligible again, an old probe's answer
   does not revive a stream.
2. `MirrorServer` and the WHIP session registry: a mirrored session's lifetime against its
   origin, duplicate session ids, sessions that are never removed.
3. `PinningStore`: quota accounting under concurrent pins and a failure half way.
4. LiveRegistration composed with ContentRegistry, in place of its own small registry.
5. Merkle proofs of `internal/manifest` as operators checked against a reference.

Theorems: with these modules, theirs. For the site, filters and sorts by places, as
`SettlementProviders` has it, would bring `PagesTruthful` into reach.

## 10. Running

    tlc -workers 2 -config MCPersistencePool.cfg MCPersistencePool
    tlapm EconomicLoopProofs.tla

Each `.cfg` belongs to the module whose name it begins with; every `*Proofs` module and
`SumTheorems` is checked with `tlapm`. `PROJECT.json` lists the runs
with their properties, the mutants, and for every definition the lines it models.
