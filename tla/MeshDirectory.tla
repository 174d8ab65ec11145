---------------------------- MODULE MeshDirectory ----------------------------
(***************************************************************************)
(* How the web applications find the provider nodes and report on them:    *)
(* the DHT walk and the ranking behind /live/mesh/[id] (lib/mesh/          *)
(* resolve.ts, rank.ts), the health checks and latency samples of /trust   *)
(* (health.ts, latency.ts), and the polling of the network map on the      *)
(* project website.  Each page's fetches are steps of their own; a fetch   *)
(* that fails, times out or is not 2xx is one outcome, as in the code.     *)
(***************************************************************************)
EXTENDS Integers, StableSort

CONSTANTS
  Peers,              \* provider nodes
  Registry,           \* the registry's entries, in its order: a sequence of peers
  Relays,             \* number of DHT relays configured
  Listings,           \* bound: the answers of a relay to try, sequences of peers
  Reported,           \* bound: the peer IDs that nodes give in their health answers
  RankCalls,          \* bound: the calls of rankProvidersByRegion to try
  SAMPLES,            \* samples of measureRoundTrip
  RTTs,               \* bound: round-trip times
  MaxPolls,           \* bound: polls of the map under way at once
  MaxChanges          \* bound: nodes going up or down

ASSUME DirectoryConstants ==
  /\ Registry \in Seq(Peers) /\ IsInjective(Registry)
  /\ Relays \in Nat /\ SAMPLES \in Nat \ {0} /\ RTTs \subseteq Nat
  /\ MaxPolls \in Nat /\ MaxChanges \in Nat
  /\ \A listing \in Listings : listing \in Seq(Peers)
  /\ Reported \subseteq Peers

VARIABLES
  view,               \* the page that is open
  walk, found,        \* /live/mesh/[id]: the relay being asked, providers so far
  broke,              \* the relays whose list ended in a malformed entry
  candidates,         \* what the page hands to the player
  health, latency,    \* /trust: per registry entry
  up, changes,        \* the nodes that answer their health checks
  polls, mapped,      \* the map: polls under way, nodes drawn as online
  ranking             \* a call of rankProvidersByRegion and its result
meshPage == <<walk, found, broke, candidates>>
trustPage == <<health, latency>>
mapPage == <<polls, mapped>>
directoryVars == <<view, walk, found, broke, candidates, health, latency, up, changes,
                   polls, mapped, ranking>>

Nodes == ToSet(Registry)

-----------------------------------------------------------------------------
(* Ranking.  A region is <<country, part>> or NoRegion; a place is a point on
   a line, or NoPlace, from which nothing has a distance *)

NoRegion == <<>>
NoPlace == -1
Infinity == 1000

topLevelRegion(region) == IF region = NoRegion THEN NoRegion ELSE <<region[1]>>

scoreMatch(p, v) ==
  CASE p.region = NoRegion \/ v.region = NoRegion -> 0
    [] p.region = v.region -> 3
    [] topLevelRegion(p.region) = topLevelRegion(v.region) -> 2
    [] OTHER -> 1

haversineKm(v, p) ==
  IF NoPlace \in {v.place, p.place} THEN Infinity
  ELSE IF v.place > p.place THEN v.place - p.place ELSE p.place - v.place

rankBefore(v, a, b) ==
  IF scoreMatch(a, v) # scoreMatch(b, v) THEN scoreMatch(a, v) > scoreMatch(b, v)
  ELSE haversineKm(v, a) < haversineKm(v, b)

rankProvidersByRegion(providers, viewer) ==
  IF Len(providers) <= 1 THEN providers
  ELSE Sorted(providers, LAMBDA a, b: rankBefore(viewer, a, b))

RankProviders(call) ==
  /\ view = "none"
  /\ view' = "rank"
  /\ ranking' = [call |-> call,
                 result |-> rankProvidersByRegion(call.providers, call.viewer)]
  /\ UNCHANGED <<meshPage, trustPage, up, changes, mapPage>>

-----------------------------------------------------------------------------
(* /live/mesh/[id]: the page is rendered when the walk is done *)

\* mutant: what a broken list had named already is named again
MergedAgain(out, listing, relay) ==
  out \o Mapped(SelectSeq(listing, LAMBDA p: p \in Nodes), LAMBDA p: [peer |-> p, via |-> relay])

\* the registered peers of a relay's listing that were not seen before, in its order
Merged(out, listing, relay) ==
  LET seen(o, p) == \E i \in DOMAIN o : o[i].peer = p
      Visit(o, p) == IF p \in Nodes /\ ~seen(o, p) THEN Append(o, [peer |-> p, via |-> relay])
                     ELSE o
  IN  FoldLeft(Visit, out, listing)

\* the page sends no region of the viewer, so the ranking has nothing to go by
failoverCandidates(out) ==
  LET meta(r) == [peer |-> r.peer, region |-> NoRegion, place |-> NoPlace]
      ranked == rankProvidersByRegion(Mapped(out, meta),
                                      [region |-> NoRegion, place |-> NoPlace])
  IN  Mapped(ranked, LAMBDA m: m.peer)

\* the walk goes on to relay i, or ends with what there is
AskRelay(i) ==
  /\ walk' = IF i \in 1..Relays THEN [relay |-> i, stage |-> "asked"]
             ELSE [walk EXCEPT !.stage = "done"]
  /\ candidates' = IF i \in 1..Relays THEN <<>> ELSE failoverCandidates(found')

\* no relay or no registry: the single URL, no candidates
OpenMeshPage ==
  /\ view = "none"
  /\ view' = "mesh"
  /\ found' = <<>> /\ broke' = {}
  /\ AskRelay(IF Registry = <<>> THEN 0 ELSE 1)
  /\ UNCHANGED <<trustPage, up, changes, mapPage, ranking>>

\* the headers arrive, and with them the timer is cleared
relayAnswers ==
  /\ walk.stage = "asked"
  /\ walk' = [walk EXCEPT !.stage = "body"]
  /\ UNCHANGED <<view, found, broke, candidates, trustPage, up, changes, mapPage, ranking>>

\* mutant: the relay that failed is asked again
relayFailsRetrying ==
  /\ walk.stage \in {"asked", "body"}
  /\ UNCHANGED <<view, found, broke, trustPage, up, changes, mapPage, ranking>>
  /\ AskRelay(walk.relay)

\* a failure, a timeout or a status other than 2xx; or a body that is no JSON or
\* has no list
relayFails ==
  /\ walk.stage \in {"asked", "body"}
  /\ UNCHANGED <<view, found, broke, trustPage, up, changes, mapPage, ranking>>
  /\ AskRelay(walk.relay + 1)

\* what an entry that is malformed throws goes to the next relay, and what stood
\* before that entry stays
listBreaksOff(listing) ==
  /\ walk.stage = "body"
  /\ found' = Merged(found, listing, walk.relay)
  /\ broke' = broke \cup {walk.relay}
  /\ AskRelay(walk.relay + 1)
  /\ UNCHANGED <<view, trustPage, up, changes, mapPage, ranking>>

\* any provider, of this relay or one before it, ends the walk
providersListed(listing) ==
  /\ walk.stage = "body"
  /\ found' = Merged(found, listing, walk.relay)
  /\ AskRelay(IF found' # <<>> THEN 0 ELSE walk.relay + 1)
  /\ UNCHANGED <<view, broke, trustPage, up, changes, mapPage, ranking>>

-----------------------------------------------------------------------------
(* /trust: a health check of every entry at once; when all have settled, the
   reachable ones are sampled, each one sample after the other *)

Unsampled == [taken |-> 0, samples |-> <<>>, errors |-> 0]

OpenTrustPage ==
  /\ view = "none"
  /\ view' = "trust"
  /\ health' = [i \in DOMAIN Registry |-> [status |-> "asked", peer |-> Registry[i]]]
  /\ latency' = [i \in DOMAIN Registry |-> Unsampled]
  /\ UNCHANGED <<meshPage, up, changes, mapPage, ranking>>

\* never throws: any failure is "unreachable", with the registered peer ID; a node
\* that answers gives its own
fetchProviderHealth(i) ==
  /\ view = "trust" /\ health[i].status = "asked"
  /\ \/ health' = [health EXCEPT ![i].status = "unreachable"]
     \/ \E peer \in Reported : health' = [health EXCEPT ![i] = [status |-> "ok", peer |-> peer]]
  /\ UNCHANGED <<view, meshPage, latency, up, changes, mapPage, ranking>>

HealthKnown == view = "trust" /\ \A i \in DOMAIN health : health[i].status # "asked"

\* one HEAD request; the first is discarded as a warm-up when there are more.
\* The code sorts the samples at the end; here they are kept sorted.
probeOnce(i) ==
  /\ HealthKnown /\ health[i].status = "ok" /\ latency[i].taken < SAMPLES
  /\ LET l == [latency[i] EXCEPT !.taken = @ + 1]
         warmUp == l.taken = 1 /\ SAMPLES > 1
     IN  \/ latency' = [latency EXCEPT ![i] = [l EXCEPT !.errors = @ + 1]]
         \/ \E rtt \in RTTs :
              latency' = [latency EXCEPT ![i] =
                IF warmUp THEN l
                ELSE [l EXCEPT !.samples = Sorted(Append(@, rtt), LAMBDA a, b: a < b)]]
  /\ UNCHANGED <<view, meshPage, health, up, changes, mapPage, ranking>>

\* mutant: the rank is rounded down
percentileFloor(sorted, q) == sorted[Max({1, (q * Len(sorted)) \div 100})]

\* nearest rank; q is in percent
percentile(sorted, q) ==
  LET n == Len(sorted)
      rank == (q * n + 99) \div 100
  IN  IF n = 1 THEN sorted[1] ELSE sorted[Max({1, Min({n, rank})})]

Measured(i) == health[i].status = "unreachable" \/ latency[i].taken = SAMPLES
TrustRendered == HealthKnown /\ \A i \in DOMAIN health : Measured(i)

\* MeshGrafo and its rows, in the registry's order
MeshRow(i) ==
  LET samples == latency[i].samples
  IN  [peer |-> health[i].peer, reachable |-> health[i].status = "ok",
       n |-> IF health[i].status = "ok" THEN Len(samples) ELSE 0,
       p50 |-> IF samples # <<>> THEN percentile(samples, 50) ELSE 0,
       p95 |-> IF samples # <<>> THEN percentile(samples, 95) ELSE 0]
MeshGrafo == [i \in DOMAIN Registry |-> MeshRow(i)]

-----------------------------------------------------------------------------
(* The network map: rendered with one snapshot, then polled every 30 s, an
   earlier poll still under way or not *)

NoPoll == [n \in Nodes |-> "none"]
Under(poll) == poll # NoPoll

\* fetchProviders: what the API finds, or an empty list
OpenNetworkPage ==
  /\ view = "none"
  /\ view' = "map"
  /\ mapped' \in {up, {}}
  /\ polls' = [s \in 1..MaxPolls |-> NoPoll]
  /\ UNCHANGED <<meshPage, trustPage, up, changes, ranking>>

pollTick(s) ==
  /\ view = "map" /\ ~Under(polls[s])
  /\ polls' = [polls EXCEPT ![s] = [n \in Nodes |-> "asked"]]
  /\ UNCHANGED <<view, meshPage, trustPage, up, changes, mapped, ranking>>

\* the API's probe of one node
probe(s, n) ==
  /\ view = "map" /\ polls[s][n] = "asked"
  /\ polls' = [polls EXCEPT ![s][n] = IF n \in up THEN "online" ELSE "offline"]
  /\ UNCHANGED <<view, meshPage, trustPage, up, changes, mapped, ranking>>

\* mutant: an answer only ever adds nodes
pollAnsweredAdding(s) ==
  /\ view = "map" /\ Under(polls[s]) /\ \A n \in Nodes : polls[s][n] # "asked"
  /\ mapped' = mapped \cup {n \in Nodes : polls[s][n] = "online"}
  /\ polls' = [polls EXCEPT ![s] = NoPoll]
  /\ UNCHANGED <<view, meshPage, trustPage, up, changes, ranking>>

pollAnswered(s) ==
  /\ view = "map" /\ Under(polls[s]) /\ \A n \in Nodes : polls[s][n] # "asked"
  /\ mapped' = {n \in Nodes : polls[s][n] = "online"}
  /\ polls' = [polls EXCEPT ![s] = NoPoll]
  /\ UNCHANGED <<view, meshPage, trustPage, up, changes, ranking>>

\* not ok or lost on its way: the last successful answer stays
pollLost(s) ==
  /\ view = "map" /\ Under(polls[s]) /\ \A n \in Nodes : polls[s][n] # "asked"
  /\ polls' = [polls EXCEPT ![s] = NoPoll]
  /\ UNCHANGED <<view, meshPage, trustPage, up, changes, mapped, ranking>>

nodeChanges ==
  /\ view = "map" /\ changes < MaxChanges
  /\ \E n \in Nodes : up' = IF n \in up THEN up \ {n} ELSE up \cup {n}
  /\ changes' = changes + 1
  /\ UNCHANGED <<view, meshPage, trustPage, mapPage, ranking>>

-----------------------------------------------------------------------------
NoRanking == [call |-> [providers |-> <<>>, viewer |-> [region |-> NoRegion,
                                                        place |-> NoPlace]],
              result |-> <<>>]

DirectoryInit ==
  /\ view = "none"
  /\ walk = [relay |-> 0, stage |-> "done"]
  /\ found = <<>> /\ broke = {} /\ candidates = <<>>
  /\ health = <<>> /\ latency = <<>>
  /\ up = Nodes /\ changes = 0
  /\ polls = <<>> /\ mapped = {}
  /\ ranking = NoRanking

MeshStep ==
  relayAnswers \/ relayFails \/ \E l \in Listings : providersListed(l) \/ listBreaksOff(l)
TrustStep == \E i \in DOMAIN health : fetchProviderHealth(i) \/ probeOnce(i)
MapStep ==
  \E s \in DOMAIN polls :
    pollTick(s) \/ (\E n \in Nodes : probe(s, n)) \/ pollAnswered(s) \/ pollLost(s)

\* what timers see to: requests up to their headers, health checks and samples up to
\* their end, the map's interval.  A body is read without one.
TimedStep == (walk.stage = "asked" /\ (relayAnswers \/ relayFails)) \/ TrustStep
PollStarts(s) == s \in DOMAIN polls /\ pollTick(s)
PollSucceeds(s) == s \in DOMAIN polls /\ pollAnswered(s)

DirectoryNext ==
  \/ \E call \in RankCalls : RankProviders(call)
  \/ OpenMeshPage \/ OpenTrustPage \/ OpenNetworkPage
  \/ MeshStep \/ TrustStep \/ MapStep \/ nodeChanges

-----------------------------------------------------------------------------
DirectoryTypeOK ==
  /\ view \in {"none", "mesh", "trust", "map", "rank"}
  /\ walk \in [relay: 0..Relays, stage: {"asked", "body", "done"}]
  /\ ToSet(candidates) \subseteq Peers /\ broke \subseteq 1..Relays
  /\ \A i \in DOMAIN found : found[i] \in [peer: Peers, via: 1..Relays]
  /\ \A i \in DOMAIN health :
       /\ health[i] \in [status: {"asked", "ok", "unreachable"}, peer: Peers]
       /\ latency[i].taken \in 0..SAMPLES /\ latency[i].errors \in 0..SAMPLES
       /\ ToSet(latency[i].samples) \subseteq RTTs
  /\ up \subseteq Nodes /\ mapped \subseteq Nodes /\ changes \in 0..MaxChanges
  /\ \A s \in DOMAIN polls : polls[s] \in [Nodes -> {"none", "asked", "online", "offline"}]

\* What the player gets to fail over to: registered peers, each once, as the walk
\* found them, the relay asked first first (the ranking without a viewer's region
\* disturbs nothing, live/mesh/[id]/page.tsx:53-61).  A relay whose list did not
\* break off ended the walk, and all the registered peers it listed are there, in
\* its order but for those a broken list had named: lists are mixed only after a
\* malformed entry (resolve.ts:165-183).
CandidatesInOrder ==
  candidates # <<>> =>
    /\ walk.stage = "done"
    /\ candidates = Mapped(found, LAMBDA r: r.peer)
    /\ IsInjective(candidates) /\ ToSet(candidates) \subseteq Nodes
    /\ \A i, j \in DOMAIN found : i < j => found[i].via <= found[j].via
    /\ \A r \in {found[i].via : i \in DOMAIN found} \ broke :
         LET before == {found[i].peer : i \in {k \in DOMAIN found : found[k].via < r}}
             own == {i \in DOMAIN found : found[i].via = r}
         IN  /\ r = walk.relay
             /\ \E listing \in Listings :
                  /\ {found[i].peer : i \in own} = (ToSet(listing) \cap Nodes) \ before
                  /\ \A i, j \in own : i < j =>
                       \E k \in DOMAIN listing :
                         /\ listing[k] = found[i].peer
                         /\ \A m \in 1..k : listing[m] # found[j].peer

\* "the DHT response IS the authoritative list.  Walking more relays mixes stale data
\* from a slow-to-update peer" (resolve.ts:177-179): the candidates are one relay's.
CandidatesFromOneRelay == \A i, j \in DOMAIN found : found[i].via = found[j].via

\* The ranking is a permutation: providers of the viewer's region come first, then
\* those of its country, then the others; among providers alike nobody stands before
\* a nearer one, and equals keep their order (rank.ts:35-57).
RankSound ==
  LET given == ranking.call.providers
      ranked == ranking.result
      viewer == ranking.call.viewer
      SameRegion(p) == viewer.region # NoRegion /\ p.region = viewer.region
      SameCountry(p) ==
        viewer.region # NoRegion /\ p.region # NoRegion /\ p.region[1] = viewer.region[1]
      Alike(p, q) ==
        /\ SameRegion(p) = SameRegion(q) /\ SameCountry(p) = SameCountry(q)
        /\ viewer.region # NoRegion => (p.region = NoRegion) = (q.region = NoRegion)
  IN  /\ Len(ranked) = Len(given) /\ ToSet(ranked) = ToSet(given)
      /\ \A i, j \in DOMAIN ranked : i < j =>
           LET p == ranked[i]
               q == ranked[j]
           IN  /\ SameRegion(q) => SameRegion(p)
               /\ SameCountry(q) => SameCountry(p)
               /\ Alike(p, q) =>
                    \/ haversineKm(viewer, p) < haversineKm(viewer, q)
                    \/ /\ haversineKm(viewer, p) = haversineKm(viewer, q)
                       /\ \E k, m \in DOMAIN given : k < m /\ given[k] = p /\ given[m] = q

\* "Providers without region are ranked after any region match but before
\* non-matching regions" (rank.ts:16-18).
UnknownGeographyBetween ==
  LET v == ranking.call.viewer
      r == ranking.result
  IN  v.region # NoRegion =>
        \A i, j \in DOMAIN r : i < j /\ r[j].region = NoRegion =>
          topLevelRegion(r[i].region) \in {NoRegion, topLevelRegion(v.region)}

\* /trust tells of every registered node, in the registry's order, by the registered
\* peer ID when it cannot be reached, and the percentiles it prints are samples that
\* really were taken: the smallest one that at least half, or 95 %, of the samples do
\* not exceed.  Warm-up, samples and failures account for all requests
\* (health.ts:121-140, latency.ts:64-104).
TrustHonest ==
  TrustRendered =>
    \A i \in DOMAIN Registry :
      LET row == MeshGrafo[i]
          s == latency[i].samples
          Reached(p, q) == 100 * Cardinality({k \in DOMAIN s : s[k] <= p}) >= q * Len(s)
          Smallest(p, q) == Reached(p, q) /\ \A k \in DOMAIN s : s[k] < p => ~Reached(s[k], q)
      IN  /\ ~row.reachable => row.peer = Registry[i] /\ row.n = 0 /\ latency[i] = Unsampled
          /\ row.reachable => row.n + latency[i].errors \in {SAMPLES - 1, SAMPLES}
          /\ row.n > 0 => Smallest(row.p50, 50) /\ Smallest(row.p95, 95)

\* "cada linha é um provider público conhecido" (trust-screen.tsx:316): a row names
\* the provider that is registered for it.
RowsNameKnownProviders == TrustRendered => \A i \in DOMAIN Registry : MeshGrafo[i].peer = Registry[i]

\* "p95 in ms. Equals p50 when okCount < 3" (latency.ts:44).
FewSamplesOneNumber ==
  TrustRendered =>
    \A i \in DOMAIN Registry : MeshGrafo[i].n < 3 => MeshGrafo[i].p95 = MeshGrafo[i].p50

\* The trust page is rendered in the end, whatever nodes do, since a timer ends every
\* request of it; the mesh page if no relay leaves it in the middle of a body, which
\* has none: a relay that fails or is silent is given up, and the walk goes on to the
\* next (resolve.ts:146-184, health.ts:45-49).
PagesRender ==
  /\ []<>(walk.stage # "body") => (view = "mesh" ~> (view = "mesh" /\ walk.stage = "done"))
  /\ view = "trust" ~> TrustRendered

\* Once nodes stop going up and down, the map shows what is so and does not fall
\* back, although an old poll may be answered after a newer one, unless a node leaves
\* a poll in the middle of its health answer (network-map.tsx:59-74,
\* api/network/providers/route.ts:39-51).
MapCatchesUp ==
  (\A s \in 1..MaxPolls, n \in Nodes :
     []<>(s \in DOMAIN polls => polls[s][n] # "asked"))
    => <>[](view = "map" => mapped = up)

=============================================================================
