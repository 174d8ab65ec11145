---------------------------- MODULE PlayerScreen ----------------------------
(***************************************************************************)
(* The player page (components/player-screen.tsx) over WhepFailover: which *)
(* of its effects drives the one <video> element, when they are torn down, *)
(* the hand-over from the live stream to its recording, and the pages that *)
(* render it (app/live/[id], app/live/mesh/[id]).  One React commit is one *)
(* step: a state change, the render that follows and the effects (and      *)
(* their cleanups) whose dependencies changed.                             *)
(*                                                                         *)
(* Before a single-URL session is opened, its endpoint and ICE servers are *)
(* asked for, each with a fallback.                                        *)
(***************************************************************************)
EXTENDS WhepFailover

CONSTANTS
  Pages,          \* pages a viewer may open
  MaxTicks,       \* polls for a recording before the page gives up (24)
  MaxCalls        \* bound: calls of startLive

\* a page: the candidates the mesh page resolved, ?hls=1, ?p2p=1&chunks=1,
\* whether the browser plays HLS itself, whether the broadcast is on
Page == [kind: {"cloudflare", "mesh", "livepeer"}, cands: Seq(Provider), forceHls: BOOLEAN,
         p2p: BOOLEAN, native: BOOLEAN, onAir: BOOLEAN]

ASSUME PlayerAssumption ==
  /\ Pages \subseteq Page
  /\ \A p \in Pages : p.p2p => p.cands # <<>>   \* MeshBoot starts once
  /\ MaxTicks \in Nat \ {0}
  /\ MaxCalls \in Nat \ {0}

VARIABLES
  page,           \* the page that is open; fixed
  scr,            \* React state and refs of PlayerScreen
  hls,            \* the HLS effect of a live page
  mesh,           \* the libp2p node of MeshBoot
  srv             \* broadcast and recording, as the server sees them

playerVars == <<sess, hd, page, scr, hls, mesh, srv>>

Screen == [mounted: BOOLEAN, mode: {"live", "vod"},
           live: {"idle", "connecting", "playing", "ended", "error"},
           vod: {"idle", "loading", "playing", "error"},
           video: {"none", "hls", "vod", "whep"} \X Nat,  \* what <video> shows
           whepRef: Nat, foRef: Nat,                 \* session, handle; 0: null
           hlsUrl: BOOLEAN, processing: BOOLEAN,     \* props
           ticks: 0..MaxTicks, asked: 0..MaxTicks,   \* polls, answers due
           blocked: BOOLEAN,                         \* autoplay
           calls: 0..MaxCalls]

Nothing == <<"none", 0>>

HlsEffect == [at: {"none", "importing", "attached", "native", "destroyed"},
              cancelled: BOOLEAN, idx: Nat, relay: BOOLEAN]
MeshNode == [node: {"none", "importing", "starting", "running", "stopping",
                    "stopped"},
             cancelled: BOOLEAN]
Server == [onAir: BOOLEAN, recording: {"none", "processing", "ready"}]

-----------------------------------------------------------------------------
(* Which effect owns playback *)

effectiveWhepUrl == ~page.forceHls
hasFailover == ~page.forceHls /\ page.cands # <<>>

\* one playlist per candidate, or the one of the mesh hub
hlsUrls == IF page.cands # <<>> THEN Len(page.cands)
           ELSE IF page.kind = "mesh" THEN 1 ELSE 0

\* ?p2p=1 on a page with a session: MeshBoot is rendered
meshEnabled == page.p2p /\ page.kind = "mesh"

\* the browser's own player, hls.js behind the chunk relay, or plain hls.js
HlsPath ==
  CASE ~page.forceHls \/ hlsUrls = 0 -> "none"
    [] page.forceHls /\ hlsUrls > 0 /\ page.native /\ ~page.p2p -> "native"
    [] page.forceHls /\ hlsUrls > 0 /\ meshEnabled -> "importing"
    [] OTHER -> "attached"

NoRecording == [hlsUrl |-> FALSE, processing |-> FALSE]

\* mutant: the page never passes the URL of a recording that became ready
LivePageWithoutUrl(v) ==
  IF v.onAir THEN NoRecording ELSE [hlsUrl |-> FALSE, processing |-> v.recording # "none"]

\* live/[id]: a recording only when the input is not connected; a video that is
\* not ready is processing
LivePage(v) ==
  IF v.onAir THEN NoRecording
  ELSE [hlsUrl |-> v.recording = "ready", processing |-> v.recording = "processing"]

\* live/livepeer/[id] and live/mesh/[id]: always live, never a recording
LivepeerPage == NoRecording
MeshLivePage == NoRecording

RenderedProps(v) ==
  CASE page.kind = "cloudflare" -> LivePage(v)
    [] page.kind = "livepeer"   -> LivepeerPage
    [] page.kind = "mesh"       -> MeshLivePage

\* the poll effect waits for a recording
AwaitsReplay(c) ==
  /\ ~c.hlsUrl
  /\ c.live = "ended" \/ (c.mode = "vod" /\ c.processing)

\* after a render the poll effect resets its counter when there is nothing
\* to wait for
Rendered(c) == IF AwaitsReplay(c) THEN c ELSE [c EXCEPT !.ticks = 0]

\* the VOD effect: runs when mode or hlsUrl changed to what it needs
VodEffect(c) ==
  IF c.mode = "vod" /\ c.hlsUrl
  THEN [c EXCEPT !.video = <<"vod", 0>>, !.vod = "loading"] ELSE c

Playing(c) == IF c.mode = "live" THEN c.live = "playing" ELSE c.vod = "playing"

\* PlaybackStatusRow: which message and which button the viewer gets
StatusRow ==
  CASE Playing(scr)                              -> "none"
    [] scr.mode = "live" /\ scr.live = "ended"
         -> IF scr.hlsUrl THEN "opening-replay" ELSE "processing-replay"
    [] scr.mode = "live" /\ scr.live = "error"   -> "error-retry"
    [] scr.mode = "vod" /\ scr.vod = "error"     -> "error"
    [] scr.mode = "vod" /\ ~scr.hlsUrl
         -> IF scr.processing THEN "being-processed" ELSE "no-recording"
    [] OTHER                                     -> "none"

\* PlayerFrame: the overlays on the video
Overlays ==
  {o \in {"live-chip", "viewers", "mesh-chip", "relay-chip",
           "autoplay-gate", "buffering"} :
     \/ o = "live-chip" /\ scr.mode = "live" /\ scr.live = "playing"
     \/ o = "viewers" /\ Playing(scr)
     \/ o = "mesh-chip" /\ mesh.node = "running"
     \/ o = "relay-chip" /\ hls.relay
     \/ o = "autoplay-gate" /\ scr.blocked
     \/ /\ o = "buffering" /\ ~scr.blocked
        /\ \/ scr.mode = "live" /\ scr.live \in {"idle", "connecting"}
           \/ scr.mode = "vod" /\ scr.vod \in {"idle", "loading"}}

-----------------------------------------------------------------------------
(* What the failover loop tells the page *)

\* onStateChange and onStream of handle k, from what the step did to it
OnState(c, k) ==
  IF hd'[k].says = hd[k].says /\ hd'[k].i = hd[k].i THEN c
  ELSE [c EXCEPT !.live = CASE hd'[k].says = "connected"  -> "playing"
                            [] hd'[k].says = "failed-all" -> "error"
                            [] OTHER                      -> "connecting"]
OnStream(c, k) ==
  IF hd'[k].active \in {0, hd[k].active} /\ hd'[k].at = hd[k].at THEN c
  ELSE IF hd[k].at = "playing" /\ hd'[k].active # 0
  THEN [c EXCEPT !.video = <<"whep", hd'[k].active>>] ELSE c

\* setState does nothing and the video ref is null after unmount
HeardFrom(k) ==
  scr' = IF k = 0 \/ ~scr.mounted THEN scr
         ELSE Rendered(OnStream(OnState(scr, k), k))

-----------------------------------------------------------------------------
(* startLive *)

\* a single-URL session before playWhep is called
Located == [Opened(0) EXCEPT !.stage = "locating"]

\* the failover path, then the single URL; otherwise the HLS effect plays
startLive(c) ==
  IF page.cands # <<>>
  THEN /\ NewHandle(page.cands)
       /\ scr' = Rendered([c EXCEPT !.live = "connecting", !.calls = @ + 1,
                                    !.foRef = Len(hd) + 1])
  ELSE IF effectiveWhepUrl
  THEN /\ sess' = Append(sess, Located)
       /\ scr' = Rendered([c EXCEPT !.live = "connecting", !.calls = @ + 1])
       /\ UNCHANGED hd
  ELSE scr' = Rendered([c EXCEPT !.calls = @ + 1]) /\ UNCHANGED whepVars

\* cleanup of the live effect; it exists only when the effect ran startLive
StopLive ==
  LET ss == IF scr.whepRef = 0 THEN sess
            ELSE [sess EXCEPT ![scr.whepRef] = Stop(@)]
  IN IF ~(effectiveWhepUrl \/ hasFailover) \/ scr.foRef = 0
     THEN /\ sess' = IF effectiveWhepUrl \/ hasFailover THEN ss ELSE sess
          /\ UNCHANGED hd
     ELSE StopHandle(scr.foRef)
NoLive(c) == IF effectiveWhepUrl \/ hasFailover
             THEN [c EXCEPT !.whepRef = 0, !.foRef = 0] ELSE c

\* cleanup of the HLS effect: destroy the player, or tell the import not to
\* make one
StopHls == hls' = [hls EXCEPT !.cancelled = hls.at \notin {"none", "native"},
                              !.at = IF @ \in {"none", "importing"} THEN @
                                     ELSE "destroyed",
                              !.relay = FALSE]

\* cleanup of MeshBoot
StopMesh == mesh' = [mesh EXCEPT !.cancelled = TRUE,
                                 !.node = IF @ = "running" THEN "stopping" ELSE @]

Mount ==
  /\ ~scr.mounted /\ scr.calls = 0
  /\ LET first == [scr EXCEPT !.mounted = TRUE]
         plays == HlsPath # "none"
     IN IF scr.mode = "vod"
        THEN /\ scr' = Rendered(VodEffect([first EXCEPT !.calls = 1]))
             /\ UNCHANGED <<sess, hd, hls, mesh>>
        ELSE /\ IF effectiveWhepUrl
                THEN startLive(first) /\ UNCHANGED hls
                ELSE /\ scr' = Rendered([first EXCEPT !.calls = 1,
                                  !.live = IF plays THEN "connecting" ELSE @,
                                  !.video = IF plays THEN <<"hls", 0>> ELSE @])
                     /\ hls' = [hls EXCEPT !.at = HlsPath]
                     /\ UNCHANGED whepVars
             /\ mesh' = IF meshEnabled THEN [mesh EXCEPT !.node = "importing"] ELSE mesh
  /\ UNCHANGED <<page, srv>>

Unmount ==
  /\ scr.mounted
  /\ scr' = NoLive([scr EXCEPT !.mounted = FALSE, !.video = Nothing])
  /\ StopLive /\ StopHls /\ StopMesh
  /\ UNCHANGED <<page, srv>>

\* setMode('vod'): the live effects are cleaned up and the VOD effect runs
SetVod ==
  /\ scr' = Rendered(VodEffect([NoLive(scr) EXCEPT !.mode = "vod"]))
  /\ StopLive /\ StopHls /\ StopMesh
  /\ UNCHANGED <<page, srv>>

\* the button in the error row
RetryLive ==
  /\ scr.mounted /\ StatusRow = "error-retry" /\ scr.calls < MaxCalls
  /\ startLive(scr)
  /\ UNCHANGED <<page, hls, mesh, srv>>

\* the button in the ended row, or 800 ms after the recording was there
SwitchToReplay ==
  /\ scr.mounted /\ StatusRow = "opening-replay"
  /\ SetVod

\* the overlay of the autoplay gate
Unmute ==
  /\ scr.mounted /\ "autoplay-gate" \in Overlays
  /\ scr' = [scr EXCEPT !.blocked = FALSE]
  /\ UNCHANGED <<sess, hd, page, hls, mesh, srv>>

\* play() of a stream that was just attached is refused
AutoplayBlocked ==
  /\ scr.mounted /\ scr.video # Nothing /\ ~scr.blocked
  /\ scr' = [scr EXCEPT !.blocked = TRUE]
  /\ UNCHANGED <<sess, hd, page, hls, mesh, srv>>

-----------------------------------------------------------------------------
(* The network *)

\* the single-URL path: the session is kept, its stream attached and its
\* connection states shown, whatever became of the page meanwhile
DirectReady(s) ==
  scr' = IF sess[s].owner # 0 THEN scr
         ELSE [scr EXCEPT !.whepRef = s, !.video = IF scr.mounted THEN <<"whep", s>> ELSE @]
DirectState(s, c) ==
  scr' = IF ~scr.mounted THEN scr
         ELSE Rendered([scr EXCEPT !.live = CASE c = "connected" -> "playing"
                                              [] c = "disconnected" -> "ended"
                                              [] OTHER -> "error"])

\* fetchIceServers and resolveLivepeerEndpoint never throw
resolveLivepeerEndpoint(s) ==
  /\ sess[s].stage = "locating"
  /\ sess' = [sess EXCEPT ![s].stage = "opening"]
  /\ UNCHANGED hd

SessionStep(s) ==
  /\ \/ resolveLivepeerEndpoint(s) /\ UNCHANGED scr
     \/ Gathered(s) /\ UNCHANGED scr
     \/ PostAccepted(s) /\ UNCHANGED scr
     \/ /\ PostFailed(s) \/ AnswerRejected(s)
        /\ IF sess[s].owner # 0 THEN HeardFrom(sess[s].owner)
           ELSE scr' = IF scr.mounted THEN Rendered([scr EXCEPT !.live = "error"])
                                      ELSE scr
     \/ /\ AnswerApplied(s)
        /\ IF sess[s].owner # 0 THEN HeardFrom(sess[s].owner) ELSE DirectReady(s)
     \/ /\ Deleted(s)
        /\ HeardFrom(sess[s].owner)
  /\ UNCHANGED <<page, hls, mesh, srv>>

ConnectionStep(s) ==
  /\ \E c \in {"connected", "disconnected", "failed"} :
       /\ ConnectionState(s, c)
       /\ IF sess[s].owner # 0 THEN HeardFrom(sess[s].owner) ELSE DirectState(s, c)
  /\ UNCHANGED <<page, hls, mesh, srv>>

TimerStep(k) ==
  /\ ConnectTimeout(k) \/ Poll(k) \/ waitUntilBroken(k)
  /\ HeardFrom(k)
  /\ UNCHANGED <<page, hls, mesh, srv>>

-----------------------------------------------------------------------------
(* The HLS effect of a live page, and MeshBoot *)

\* the chunk relay is imported first; a page that went away gets no player
HlsImported ==
  /\ hls.at = "importing"
  /\ hls' = [hls EXCEPT !.at = IF @ = "importing" /\ hls.cancelled
                               THEN "destroyed" ELSE "attached"]
  /\ UNCHANGED <<sess, hd, page, scr, mesh, srv>>

HlsPlays == hls.at \in {"attached", "native"} /\ scr.mounted

\* MANIFEST_PARSED, canplay
HlsReady ==
  /\ HlsPlays
  /\ scr' = Rendered([scr EXCEPT !.live = "playing"])
  /\ UNCHANGED <<sess, hd, page, hls, mesh, srv>>

\* a fatal network error (any error of the browser's own player) rotates to
\* the next candidate; the last one, or a media error, is shown
HlsError ==
  /\ HlsPlays
  /\ \E network \in {TRUE, hls.at = "native"} :
       IF network /\ hls.idx + 1 < hlsUrls
       THEN /\ hls' = [hls EXCEPT !.idx = @ + 1]
            /\ scr' = Rendered([scr EXCEPT !.live = "connecting"])
       ELSE scr' = Rendered([scr EXCEPT !.live = "error"]) /\ UNCHANGED hls
  /\ UNCHANGED <<sess, hd, page, mesh, srv>>

\* wireChunkRelay: a chunk or a peer; statistics go to the page
ChunkRelayed ==
  /\ hls.at = "attached" /\ page.p2p /\ ~hls.relay
  /\ hls' = [hls EXCEPT !.relay = TRUE]
  /\ UNCHANGED <<sess, hd, page, scr, mesh, srv>>

\* the import of lib/mesh/p2p; a page that went away starts no node
importMesh ==
  /\ mesh.node = "importing"
  /\ mesh' = [mesh EXCEPT !.node = IF mesh.cancelled THEN "stopped" ELSE "starting"]

\* the node is up (dials that fail do not matter), or creating it failed
initMesh ==
  /\ mesh.node = "starting"
  /\ \/ mesh' = [mesh EXCEPT !.node = IF mesh.cancelled THEN "stopping" ELSE "running"]
     \/ mesh' = [mesh EXCEPT !.node = "stopped"]

\* MeshHandle.stop
meshStopped ==
  /\ mesh.node = "stopping"
  /\ mesh' = [mesh EXCEPT !.node = "stopped"]

MeshStep ==
  /\ importMesh \/ initMesh \/ meshStopped
  /\ UNCHANGED <<sess, hd, page, scr, hls, srv>>

-----------------------------------------------------------------------------
(* From the live stream to its recording *)

\* mutant: the interval is not cleared after its last tick
PollTickUnbounded ==
  /\ scr.mounted /\ AwaitsReplay(scr) /\ scr.ticks <= MaxTicks
  /\ scr' = [scr EXCEPT !.ticks = @ + 1]
  /\ UNCHANGED <<sess, hd, page, hls, mesh, srv>>

\* the interval asks for a fresh render, except on its last tick
PollTick ==
  /\ scr.mounted /\ AwaitsReplay(scr) /\ scr.ticks < MaxTicks
  /\ scr' = [scr EXCEPT !.ticks = @ + 1,
                        !.asked = IF scr.ticks + 1 < MaxTicks /\ @ < MaxTicks
                                  THEN @ + 1 ELSE @]
  /\ UNCHANGED <<sess, hd, page, hls, mesh, srv>>

\* the fresh render arrives.  On the mesh page it brings a new candidate array,
\* so the live effect starts over
Refreshed ==
  /\ scr.mounted /\ scr.asked > 0
  /\ LET p == RenderedProps(srv)
         c == [scr EXCEPT !.asked = @ - 1, !.hlsUrl = p.hlsUrl,
                          !.processing = p.processing]
     IN IF page.kind # "mesh"
        THEN /\ scr' = Rendered(IF p.hlsUrl = scr.hlsUrl THEN c ELSE VodEffect(c))
             /\ UNCHANGED whepVars
        ELSE /\ scr.calls < MaxCalls
             /\ sess' = Append(IF scr.whepRef = 0 THEN sess
                               ELSE [sess EXCEPT ![scr.whepRef] = Stop(@)],
                               Located)
             /\ scr' = Rendered([c EXCEPT !.whepRef = 0, !.live = "connecting",
                                          !.calls = @ + 1])
             /\ UNCHANGED hd
  /\ UNCHANGED <<page, hls, mesh, srv>>

\* the events of the replay's player
VodStep ==
  /\ scr.mounted /\ scr.mode = "vod" /\ scr.vod = "loading"
  /\ \E v \in {"playing", "error"} : scr' = [scr EXCEPT !.vod = v]
  /\ UNCHANGED <<sess, hd, page, hls, mesh, srv>>

\* the broadcaster leaves; the recording is linked and becomes ready
ServerStep ==
  /\ \/ srv.onAir /\ srv' = [srv EXCEPT !.onAir = FALSE]
     \/ ~srv.onAir /\ srv.recording = "none"
          /\ srv' = [srv EXCEPT !.recording = "processing"]
     \/ srv.recording = "processing" /\ srv' = [srv EXCEPT !.recording = "ready"]
  /\ page.kind = "cloudflare"
  /\ UNCHANGED <<sess, hd, page, scr, hls, mesh>>

-----------------------------------------------------------------------------
PlayerInit ==
  /\ sess = <<>> /\ hd = <<>>
  /\ page \in Pages
  /\ srv \in {v \in Server : v.onAir = page.onAir
                             /\ (v.onAir => v.recording = "none")}
  /\ scr = [mounted |-> FALSE, mode |-> IF page.kind # "cloudflare" \/ srv.onAir THEN "live" ELSE "vod",
            live |-> "idle", vod |-> "idle", video |-> Nothing, whepRef |-> 0,
            foRef |-> 0, hlsUrl |-> RenderedProps(srv).hlsUrl,
            processing |-> RenderedProps(srv).processing, ticks |-> 0,
            asked |-> 0, blocked |-> FALSE, calls |-> 0]
  /\ hls = [at |-> "none", cancelled |-> FALSE, idx |-> 0, relay |-> FALSE]
  /\ mesh = [node |-> "none", cancelled |-> FALSE]

PlayerNext ==
  \/ Mount \/ Unmount \/ RetryLive \/ SwitchToReplay \/ Unmute
  \/ AutoplayBlocked \/ HlsImported \/ HlsReady \/ HlsError \/ ChunkRelayed
  \/ MeshStep \/ PollTick \/ Refreshed \/ VodStep \/ ServerStep
  \/ \E s \in Sessions : SessionStep(s) \/ ConnectionStep(s)
  \/ \E k \in Handles : TimerStep(k)

\* Requests are answered or fail, timers and intervals fire, imports settle.
\* Connection events, the viewer and the broadcaster are not fair.
PlayerFairness ==
  /\ WF_playerVars(SwitchToReplay) /\ WF_playerVars(PollTick)
  /\ WF_playerVars(Refreshed) /\ WF_playerVars(HlsImported)
  /\ WF_playerVars(MeshStep)
  /\ \A s \in 1..MaxCalls * 3 :
       WF_playerVars(s \in Sessions /\ SessionStep(s))
  /\ \A k \in 1..MaxCalls : WF_playerVars(k \in Handles /\ TimerStep(k))

PlayerSpec == PlayerInit /\ [][PlayerNext]_playerVars /\ PlayerFairness

-----------------------------------------------------------------------------
(* Properties *)

\* Every variable has its type; in particular the page polls for a recording no
\* more often than it may (player-screen.tsx:619-630).
PlayerTypeOK ==
  /\ sess \in Seq(Session) /\ hd \in Seq(Handle)
  /\ page \in Pages /\ scr \in Screen
  /\ hls \in HlsEffect /\ mesh \in MeshNode /\ srv \in Server

\* When the page of a failover stream says it plays, the <video> element shows
\* a session of the page's own handle whose connection is still there.
PlayingIsAttached ==
  (scr.mounted /\ hasFailover /\ scr.live = "playing") =>
    \E s \in OwnedBy(scr.foRef) : scr.video = <<"whep", s>> /\ InUse(sess[s])

\* After the viewer leaves, what the page's cleanups are there for is released: the
\* HLS player, the libp2p node and, on a page whose live effect runs (a page forced
\* to HLS has no cleanup for the loop its retry button starts), every peer
\* connection of the failover loop, also the one being opened at that moment.  Only
\* those are left that playWhep abandoned when it threw without having been refused
\* (player-screen.tsx:286-300, whep.ts:175-189).
UnmountReleases ==
  (~scr.mounted /\ scr.calls > 0)
    ~> /\ effectiveWhepUrl => \A s \in Sessions :
            sess[s].owner # 0 /\ Open(sess[s]) => Abandoned(sess[s])
       /\ mesh.node \in {"none", "stopped"}
       /\ hls.at \in {"none", "destroyed"}

\* A failover page never stays undecided: it plays, or every provider was tried
\* and the viewer is told.
FailoverDecides ==
  (scr.mounted /\ hasFailover /\ scr.live = "connecting")
    ~> (scr.live \in {"playing", "error"} \/ ~scr.mounted)

\* While the page shows an ended broadcast whose recording is ready and it has
\* polls left, it gets to the replay, unless the connection comes back or is
\* declared failed, or the viewer leaves.
ReplayReached ==
  (/\ scr.mounted /\ scr.live = "ended" /\ scr.ticks + 1 < MaxTicks
   /\ page.kind = "cloudflare" /\ srv.recording = "ready")
    ~> (scr.mode = "vod" \/ scr.live # "ended" \/ ~scr.mounted)

\* "Stop both the legacy single-URL session and the failover handle - whichever
\* was active" (player-screen.tsx:297): no peer connection outlives the page, be it
\* one opened after the cleanup, one of a forced page or one playWhep abandoned.
NothingOutlivesThePage ==
  (~scr.mounted /\ scr.calls > 0)
    ~> \A s \in Sessions : ~Open(sess[s])

\* whep.ts:175-189 closes the connection of a refused offer before it throws: an
\* attempt that failed leaves no connection open.
FailedAttemptsClose == \A s \in Sessions : ~Abandoned(sess[s])

\* "?hls=1 force-overrides: bypasses WHEP + failover entirely so the hls.js
\* useEffect owns playback from mount."
HlsOwnsPlayback == page.forceHls => sess = <<>>

\* "poll the page via Router.refresh() every 5 s up to 2 minutes": an ended
\* broadcast is polled for until its recording plays or the polls are used up.
PolledToTheEnd ==
  (scr.mounted /\ scr.live = "ended" /\ page.kind = "cloudflare")
    ~> (scr.mode = "vod" \/ scr.ticks = MaxTicks \/ scr.live = "playing"
        \/ ~scr.mounted)
=============================================================================
