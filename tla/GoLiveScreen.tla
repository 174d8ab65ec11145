---------------------------- MODULE GoLiveScreen ----------------------------
(***************************************************************************)
(* The broadcaster's page (components/go-live-screen.tsx) with publishWhip *)
(* (lib/webrtc/whip.ts), the recorder and POST /api/lives, handing its     *)
(* recordings to the upload queue.  The page's three handlers wait for the *)
(* browser and for servers; each wait is a stage, and what lies between    *)
(* two waits is one step.  A cast is one call of goLive: its live, its     *)
(* peer connection and its recorder carry its number.                      *)
(***************************************************************************)
EXTENDS UploadQueue

CONSTANTS
  Available,          \* the backends this deployment offers
  MaxCams,            \* bound: getUserMedia calls
  MaxCasts,           \* bound: goLive calls
  MaxStops            \* bound: calls of a session's stop

ASSUME GoLiveConstants ==
  /\ "cloudflare" \in Available
  /\ Available \subseteq {"cloudflare", "aevia-mesh", "livepeer"}
  /\ MaxCams \in Nat /\ MaxCasts \in Nat /\ MaxStops \in Nat
  /\ Cast = 1..MaxCasts

VARIABLES
  mounted, status, created,  \* the page; created is a cast, or 0
  aupAccepted,
  streamRef, whipSessionRef, recorderRef,   \* a camera stream, casts, or 0
  asked,              \* pending getUserMedia calls
  cams, lit,          \* streams acquired so far; those whose tracks are live
  casts,              \* the calls of goLive
  stops,              \* the calls of stopLive, and the unmount's stop
  canRecord,          \* the browser has MediaRecorder
  slips               \* history: what the user, the network or the browser did
                      \* that the page's refs do not keep apart

pageVars == <<mounted, status, created, aupAccepted, streamRef, whipSessionRef,
              recorderRef, asked, cams, lit, casts, stops, canRecord, slips>>
goLiveVars == <<pageVars, uploadVars>>

ConnectionStatus == {"idle", "requesting-devices", "ready", "connecting", "live", "error"}

CastState == [backend: Available, stage: {"create", "endpoint", "offer", "done"},
              pc: {"none", "offer", "answered", "connected", "disconnected",
                   "failed", "closed"},
              rec: {"none", "recording", "taken", "cancelled"}]

StopState == [stage: {"delete", "encode", "url", "done"}, page: BOOLEAN,
              session: 0..MaxCasts, rec: 0..MaxCasts, live: 0..MaxCasts]

\* setState of a page that is gone changes nothing
SetStatus(s) == status' = IF mounted THEN s ELSE status
SetCreated(g) == created' = IF mounted THEN g ELSE created

-----------------------------------------------------------------------------
(* What the page offers *)

canGoLive == status = "ready" /\ aupAccepted

\* the sticky button's handler; none while it is disabled
StickyCta ==
  CASE status \in {"idle", "error"} -> "startPreview"
    [] status = "ready" /\ canGoLive -> "goLive"
    [] status = "live" -> "stopLive"
    [] OTHER -> "none"

\* the picture's own button
CameraPreview == IF status = "idle" THEN "startPreview" ELSE "none"

Offers(handler) == mounted /\ handler \in {StickyCta, CameraPreview}

\* the form is locked while live
Locked == status = "live"
BackendPicker == Available

\* AupAcknowledgment
SetAup ==
  /\ mounted /\ ~Locked
  /\ aupAccepted' = ~aupAccepted
  /\ UNCHANGED <<mounted, status, created, streamRef, whipSessionRef, recorderRef,
                 asked, cams, lit, casts, stops, canRecord, slips, uploadVars>>

-----------------------------------------------------------------------------
(* The camera *)

\* mutant: the ref gets what getUserMedia will bring, without awaiting it
startPreviewNotAwaited ==
  /\ Offers("startPreview") /\ cams + asked < MaxCams
  /\ SetStatus("requesting-devices")
  /\ asked' = asked + 1
  /\ streamRef' = cams + asked + 1
  /\ UNCHANGED <<mounted, created, aupAccepted, whipSessionRef, recorderRef, cams, lit,
                 casts, stops, canRecord, slips, uploadVars>>

startPreview ==
  /\ Offers("startPreview") /\ cams + asked < MaxCams
  /\ SetStatus("requesting-devices")
  /\ asked' = asked + 1
  /\ slips' = IF streamRef # 0 THEN slips \cup {"retry"} ELSE slips
  /\ UNCHANGED <<mounted, created, aupAccepted, streamRef, whipSessionRef,
                 recorderRef, cams, lit, casts, stops, canRecord, uploadVars>>

\* getUserMedia answers
previewReady ==
  /\ asked > 0
  /\ asked' = asked - 1
  /\ cams' = cams + 1
  /\ lit' = lit \cup {cams + 1}
  /\ streamRef' = cams + 1
  /\ SetStatus("ready")
  /\ UNCHANGED <<mounted, created, aupAccepted, whipSessionRef, recorderRef, casts,
                 stops, canRecord, slips, uploadVars>>

previewRefused ==
  /\ asked > 0
  /\ asked' = asked - 1
  /\ SetStatus("error")
  /\ UNCHANGED <<mounted, created, aupAccepted, streamRef, whipSessionRef,
                 recorderRef, cams, lit, casts, stops, canRecord, slips, uploadVars>>

-----------------------------------------------------------------------------
(* goLive *)

Becomes(g, cast) == casts' = [casts EXCEPT ![g] = cast]

goLive(backend) ==
  /\ Offers("goLive") /\ streamRef # 0 /\ aupAccepted
  /\ backend \in BackendPicker
  /\ Len(casts) < MaxCasts
  /\ SetStatus("connecting")
  /\ casts' = Append(casts, [backend |-> backend, stage |-> "create",
                             pc |-> "none", rec |-> "none"])
  /\ UNCHANGED <<mounted, created, aupAccepted, streamRef, whipSessionRef,
                 recorderRef, asked, cams, lit, stops, canRecord, slips, uploadVars>>

\* the catch of goLive: POST /api/lives refuses, there is no stream any more
\* (the endpoint and the ICE servers have a fallback), or publishWhip throws,
\* which closes the connection only when the POST is refused
goLiveFails(g) ==
  /\ \/ casts[g].stage = "create" /\ Becomes(g, [casts[g] EXCEPT !.stage = "done"])
     \/ /\ casts[g].stage = "endpoint" /\ streamRef = 0
        /\ Becomes(g, [casts[g] EXCEPT !.stage = "done"])
     \/ /\ casts[g].stage = "offer"
        /\ \E pc \in {"closed", "offer"} :
             Becomes(g, [casts[g] EXCEPT !.stage = "done", !.pc = pc])
  /\ SetStatus("error")
  /\ UNCHANGED <<mounted, created, aupAccepted, streamRef, whipSessionRef,
                 recorderRef, asked, cams, lit, stops, canRecord, slips, uploadVars>>

\* POST /api/lives answers 201
liveCreated(g) ==
  /\ casts[g].stage = "create"
  /\ Becomes(g, [casts[g] EXCEPT !.stage = "endpoint"])
  /\ UNCHANGED <<mounted, status, created, aupAccepted, streamRef, whipSessionRef,
                 recorderRef, asked, cams, lit, stops, canRecord, slips, uploadVars>>

\* fetchIceServers or resolveLivepeerEndpoint answers; publishWhip begins
endpointKnown(g) ==
  /\ casts[g].stage = "endpoint" /\ streamRef # 0
  /\ Becomes(g, [casts[g] EXCEPT !.stage = "offer", !.pc = "offer"])
  /\ UNCHANGED <<mounted, status, created, aupAccepted, streamRef, whipSessionRef,
                 recorderRef, asked, cams, lit, stops, canRecord, slips, uploadVars>>

\* does startRecorder return?  It throws without MediaRecorder and on a stream that
\* was stopped, and may throw on any other: tracks end by themselves, and the
\* browser may refuse the encoder
startRecorder == {FALSE, canRecord /\ streamRef \in lit}

\* POST /api/lives: has the answer an id?  A mesh live gets its id when it is
\* published
apiLive(backend) == [uid |-> backend # "aevia-mesh"]

\* publishWhip returns: the answer is applied
publishWhip(g, rec) ==
  Becomes(g, [casts[g] EXCEPT !.stage = "done", !.pc = "answered", !.rec = rec])

\* the session is kept, then the id, then the recorder, whose ref stays as it was
\* when startRecorder throws.  The id of a mesh live comes in a header of the
\* answer, and may be missing.
published(g) ==
  /\ casts[g].stage = "offer"
  /\ whipSessionRef' = g
  /\ \/ \E records \in startRecorder :
          /\ SetCreated(g)
          /\ publishWhip(g, IF records THEN "recording" ELSE "none")
          /\ recorderRef' = IF records THEN g ELSE recorderRef
          /\ slips' = IF ~records /\ recorderRef # 0 THEN slips \cup {"stale"} ELSE slips
          /\ UNCHANGED status
     \/ /\ ~apiLive(casts[g].backend).uid
        /\ publishWhip(g, "none")
        /\ SetStatus("error")
        /\ UNCHANGED <<created, recorderRef, slips>>
  /\ UNCHANGED <<mounted, aupAccepted, streamRef, asked, cams, lit, stops, canRecord,
                 uploadVars>>

\* the connection moves once the answer is applied; close() fires no event
ConnMoves == {<<"answered", "connected">>, <<"answered", "failed">>,
              <<"connected", "disconnected">>, <<"disconnected", "connected">>,
              <<"disconnected", "failed">>}

onConnectionStateChange(g, s) ==
  /\ <<casts[g].pc, s>> \in ConnMoves
  /\ Becomes(g, [casts[g] EXCEPT !.pc = s])
  /\ CASE s = "connected" -> SetStatus("live")
       [] s = "failed" -> SetStatus("error")
       [] OTHER -> UNCHANGED status
  /\ UNCHANGED <<mounted, created, aupAccepted, streamRef, whipSessionRef,
                 recorderRef, asked, cams, lit, stops, canRecord, slips, uploadVars>>

-----------------------------------------------------------------------------
(* stopLive and unmount *)

Waits(k) == stops[k].stage # "done"

\* mutant: the recorder's ref is kept
stopLiveKeepingRecorder ==
  /\ Offers("stopLive") /\ Len(stops) < MaxStops
  /\ stops' = Append(stops, [stage |-> "delete", page |-> TRUE,
                             session |-> whipSessionRef, rec |-> recorderRef,
                             live |-> created])
  /\ UNCHANGED <<mounted, status, created, aupAccepted, streamRef, whipSessionRef,
                 recorderRef, asked, cams, lit, casts, canRecord, slips, uploadVars>>

\* up to `await session.stop()`
stopLive ==
  /\ Offers("stopLive") /\ Len(stops) < MaxStops
  /\ stops' = Append(stops, [stage |-> "delete", page |-> TRUE,
                             session |-> whipSessionRef, rec |-> recorderRef,
                             live |-> created])
  /\ recorderRef' = 0
  /\ slips' = IF \E k \in DOMAIN stops : stops[k].stage = "delete"
              THEN slips \cup {"twice"} ELSE slips
  /\ UNCHANGED <<mounted, status, created, aupAccepted, streamRef, whipSessionRef,
                 asked, cams, lit, casts, canRecord, uploadVars>>

\* the session's stop: the DELETE, skipped for Livepeer, has ended somehow
Closed(g) == IF g = 0 THEN casts ELSE [casts EXCEPT ![g].pc = "closed"]

createdBackend(k) == IF stops[k].live = 0 THEN "cloudflare"
                     ELSE casts[stops[k].live].backend

\* recorder.cancel
Cancelled(cs, g) == IF g = 0 THEN cs ELSE [cs EXCEPT ![g].rec = "cancelled"]

\* the rest of stopLive up to `await recorder.stop()`
sessionStopped(k) ==
  LET s == stops[k]
      encode == createdBackend(k) = "cloudflare" /\ s.rec # 0 /\ s.live # 0
      cancel == createdBackend(k) # "cloudflare"
  IN /\ s.stage = "delete" /\ s.page
     /\ whipSessionRef' = 0 /\ streamRef' = 0
     /\ lit' = lit \ {streamRef}
     /\ SetStatus("idle")
     /\ casts' = Cancelled(Closed(s.session), IF cancel THEN s.rec ELSE 0)
     /\ stops' = [stops EXCEPT ![k].stage = IF encode THEN "encode" ELSE "done"]
     /\ slips' = IF \E g \in DOMAIN casts : casts[g].stage = "offer"
                 THEN slips \cup {"pulled"} ELSE slips
     /\ UNCHANGED <<mounted, created, aupAccepted, recorderRef, asked, cams,
                    canRecord, uploadVars>>

\* the recorder hands over its blob, which may be empty
recorderStopped(k) ==
  /\ stops[k].stage = "encode"
  /\ casts' = [casts EXCEPT ![stops[k].rec].rec = "taken"]
  /\ \E next \in {"url", "done"} : stops' = [stops EXCEPT ![k].stage = next]
  /\ UNCHANGED <<mounted, status, created, aupAccepted, streamRef, whipSessionRef,
                 recorderRef, asked, cams, lit, canRecord, slips, uploadVars>>

\* POST direct-upload-url answers, or refuses
uploadUrl(k) ==
  /\ stops[k].stage = "url"
  /\ stops' = [stops EXCEPT ![k].stage = "done"]
  /\ \/ startUpload(stops[k].live, stops[k].rec)
     \/ UNCHANGED uploadVars
  /\ UNCHANGED <<mounted, status, created, aupAccepted, streamRef, whipSessionRef,
                 recorderRef, asked, cams, lit, casts, canRecord, slips>>

\* mutant: leaving the page forgets the recorder
UnmountKeepingRecorder ==
  /\ mounted /\ mounted' = FALSE
  /\ lit' = lit \ {streamRef}
  /\ stops' = IF whipSessionRef = 0 THEN stops
              ELSE Append(stops, [stage |-> "delete", page |-> FALSE,
                                  session |-> whipSessionRef, rec |-> 0, live |-> 0])
  /\ slips' = IF asked > 0 \/ \E g \in DOMAIN casts : casts[g].stage # "done"
              THEN slips \cup {"late"} ELSE slips
  /\ UNCHANGED <<status, created, aupAccepted, streamRef, whipSessionRef,
                 recorderRef, asked, cams, casts, canRecord, uploadVars>>

\* the broadcaster leaves the page; the refs are stopped, and kept
Unmount ==
  /\ mounted /\ mounted' = FALSE
  /\ lit' = lit \ {streamRef}
  /\ casts' = Cancelled(casts, recorderRef)
  /\ stops' = IF whipSessionRef = 0 THEN stops
              ELSE Append(stops, [stage |-> "delete", page |-> FALSE,
                                  session |-> whipSessionRef, rec |-> 0, live |-> 0])
  /\ slips' = IF asked > 0 \/ \E g \in DOMAIN casts : casts[g].stage # "done"
              THEN slips \cup {"late"} ELSE slips
  /\ UNCHANGED <<status, created, aupAccepted, streamRef, whipSessionRef,
                 recorderRef, asked, cams, canRecord, uploadVars>>

unmountStopped(k) ==
  /\ stops[k].stage = "delete" /\ ~stops[k].page
  /\ casts' = Closed(stops[k].session)
  /\ stops' = [stops EXCEPT ![k].stage = "done"]
  /\ UNCHANGED <<mounted, status, created, aupAccepted, streamRef, whipSessionRef,
                 recorderRef, asked, cams, lit, canRecord, slips, uploadVars>>

-----------------------------------------------------------------------------

GoLiveInit ==
  /\ UploadInit
  /\ mounted = TRUE /\ status = "idle" /\ created = 0 /\ aupAccepted = FALSE
  /\ streamRef = 0 /\ whipSessionRef = 0 /\ recorderRef = 0
  /\ asked = 0 /\ cams = 0 /\ lit = {}
  /\ casts = <<>> /\ stops = <<>> /\ canRecord \in BOOLEAN /\ slips = {}

CastStep(g) == liveCreated(g) \/ endpointKnown(g) \/ published(g) \/ goLiveFails(g)
StopStep(k) ==
  sessionStopped(k) \/ recorderStopped(k) \/ uploadUrl(k) \/ unmountStopped(k)

GoLiveNext ==
  \/ SetAup \/ startPreview \/ previewReady \/ previewRefused
  \/ \E b \in Available : goLive(b)
  \/ \E g \in DOMAIN casts :
       CastStep(g) \/ \E s \in {"connected", "disconnected", "failed"} :
                        onConnectionStateChange(g, s)
  \/ stopLive \/ Unmount
  \/ \E k \in DOMAIN stops : StopStep(k)
  \/ /\ \/ \E t \in DOMAIN tasks : TaskStep(t)
        \/ \E l \in Cast : dismissUpload(l)
     /\ UNCHANGED pageVars

\* every fetch, the encoder and tus come to an end
GoLiveFairness ==
  /\ \A k \in 1..(MaxStops + 1) : WF_goLiveVars(k \in DOMAIN stops /\ StopStep(k))
  /\ \A t \in Cast :
       WF_goLiveVars(t \in DOMAIN tasks /\ TaskSettles(t) /\ UNCHANGED pageVars)

GoLiveSpec == GoLiveInit /\ [][GoLiveNext]_goLiveVars /\ GoLiveFairness

-----------------------------------------------------------------------------
(* Properties *)

\* Every variable has its type.
GoLiveTypeOK ==
  /\ UploadTypeOK
  /\ mounted \in BOOLEAN /\ status \in ConnectionStatus /\ aupAccepted \in BOOLEAN
  /\ casts \in Seq(CastState) /\ Len(casts) <= MaxCasts
  /\ {created, whipSessionRef, recorderRef} \subseteq 0..Len(casts)
  /\ streamRef \in 0..cams /\ cams \in 0..MaxCams /\ asked \in 0..MaxCams
  /\ lit \subseteq 1..cams /\ stops \in Seq(StopState)
  /\ canRecord \in BOOLEAN /\ slips \subseteq {"retry", "twice", "late", "pulled", "stale"}

\* A recording is uploaded once, and only for a live of Cloudflare's, as the other
\* backends keep their own recording.  It goes to the live it was recorded in, and
\* no live gets two, whatever was pressed twice, failed and tried again, unless
\* startRecorder threw while the ref still held the recorder of an earlier
\* broadcast (go-live-screen.tsx:236-296).
RecordingMatchesLive ==
  /\ \A t \in DOMAIN tasks : casts[tasks[t].live].backend = "cloudflare"
  /\ \A t, u \in DOMAIN tasks : tasks[t].blob = tasks[u].blob => t = u
  /\ "stale" \notin slips => \A t \in DOMAIN tasks : tasks[t].live = tasks[t].blob

\* With no handler waiting, a page that is back at idle, or gone, has left no
\* camera on, no answered connection and no recorder running, unless the user
\* pressed stop twice, tried again after an error or left while it connected, or a
\* slow stop ended under a later broadcast.
Quiet == asked = 0 /\ (\A g \in DOMAIN casts : casts[g].stage = "done")
                   /\ (\A k \in DOMAIN stops : ~Waits(k))
StopReleases ==
  (slips = {} /\ Quiet /\ (status = "idle" \/ ~mounted)) =>
    /\ lit = {}
    /\ \A g \in DOMAIN casts : casts[g].rec # "recording"
    /\ \A g \in DOMAIN casts : casts[g].pc \in {"none", "offer", "closed"}

\* Pressed stop ends, the page is idle again and the recording queued or given
\* up; and an upload that was queued ends, so that no row stays active for ever.
StopEnds ==
  \A k \in 1..(MaxStops + 1) : (k \in DOMAIN stops /\ Waits(k)) ~>
                               (k \in DOMAIN stops /\ ~Waits(k))
NothingHangs == StopEnds /\ UploadsSettle

\* go-live-screen.tsx:233-235: "we capture locally and upload when the
\* broadcaster stops".  A stop leaves no recorder behind that nothing can reach.
NoRecordingLost ==
  (mounted /\ status = "idle" /\ Quiet) =>
    \A g \in DOMAIN casts : casts[g].rec = "recording" => recorderRef = g

\* "If MediaRecorder is unsupported, the live itself still works", "continuing
\* without VOD" (go-live-screen.tsx:238-240): a live whose recorder did not start
\* gets no video.
NoRecorderNoVideo ==
  \A t \in DOMAIN tasks : casts[tasks[t].live].rec # "none"

\* From the recorder to the banner: each recording goes to its own live, once, and
\* the rows say what became of it, unless startRecorder threw over an earlier
\* broadcast's recorder (go-live-screen.tsx:236-296, upload-context.tsx:98-220,
\* link-recording/route.ts:52-91).
RecordingsHonest ==
  RecordingMatchesLive /\ ("stale" \notin slips => BannerHonest)
=============================================================================
