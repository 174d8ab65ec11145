---------------------------- MODULE LiveSession ----------------------------
(***************************************************************************)
(* One live session on a provider: the goroutine that reads the track and  *)
(* feeds the segmenter, the goroutine that waits for the session to end    *)
(* and tears it down (cmd/provider/main.go), and HTTP handlers that build  *)
(* playlists meanwhile (internal/whip/live_http.go).  servePlaylist takes  *)
(* the sink's lock three times, so everything else may run in between.     *)
(***************************************************************************)
EXTENDS CmafSegmenter

CONSTANTS
  Role,          \* "origin" or "mirror": who set the session up
  Lossy,         \* whether packets get lost on the way
  StoreMayFail,  \* whether the content store may refuse to pin
  MaxLate        \* bound: packets still buffered when the session ends

\* What is buffered at the end is far less than a segment.
ASSUME SessionAssumption ==
  /\ Role \in {"origin", "mirror"}
  /\ Lossy \in BOOLEAN
  /\ StoreMayFail \in BOOLEAN
  /\ MaxLate \in Nat
  /\ \A d \in Step : (MaxLate - 1) * d < SegmentTicks

VARIABLES
  phase,         \* teardown: "live", "done", "flushed", "ended" or "unpinned"
  late,          \* packets read after the session ended
  request,       \* a playlist request being served
  playlist       \* the last playlist sent

httpVars == <<request, playlist>>
mediaVars == <<segmenter, sink>>
liveVars == <<rtpVars, mediaVars, phase, late, httpVars>>

Idle == [at |-> "idle", count |-> 0, parts |-> 0]

LiveInit ==
  /\ RtpInit
  /\ sink = EmptySink
  /\ segmenter = EmptySegmenter
  /\ phase = "live"
  /\ late = 0
  /\ request = Idle
  /\ playlist = [count |-> 0, parts |-> 0, ended |-> FALSE]

----------------------------------------------------------------------------
\* The track reader hands a frame on, or the frame is lost before it.
Read ==
  /\ phase = "live" \/ late < MaxLate
  /\ late' = IF phase = "live" THEN late ELSE late + 1
  /\ UNCHANGED <<phase, httpVars>>

Deliver(f) == Sent(f) /\ Read /\ OnVideoFrame(f)

Lose(f) == Lossy /\ Sent(f) /\ Read /\ UNCHANGED mediaVars

\* The session's Done channel is closed.
EndSession ==
  /\ phase = "live"
  /\ phase' = "done"
  /\ UNCHANGED <<rtpVars, mediaVars, late, httpVars>>

\* The teardown goroutine: seg.Close (and muxer.Close, DetachMuxer).
CloseSegmenter ==
  /\ phase = "done"
  /\ Close
  /\ phase' = "flushed"
  /\ UNCHANGED <<rtpVars, late, httpVars>>

\* A variant that pins without waiting for the flush.
PinManifestEarly ==
  /\ phase \in {"done", "flushed"}
  /\ sink' = IF Role = "origin" THEN Finalize(sink) ELSE sink
  /\ phase' = IF phase = "done" THEN "done" ELSE "ended"
  /\ UNCHANGED <<rtpVars, segmenter, late, httpVars>>

\* A variant that takes a session of one segment for an empty one.
PinManifestFromTwo ==
  /\ phase = "flushed"
  /\ sink' = IF Role = "origin" /\ Len(sink.segments) > 1 THEN Finalize(sink) ELSE sink
  /\ phase' = "ended"
  /\ UNCHANGED <<rtpVars, segmenter, late, httpVars>>

\* Its last act: the origin finalizes the sink, a mirror does not.
PinManifest ==
  /\ phase = "flushed"
  /\ sink' = IF Role = "origin" THEN Finalize(sink) ELSE sink
  /\ phase' = "ended"
  /\ UNCHANGED <<rtpVars, segmenter, late, httpVars>>

\* PinPayloads fails: the error is logged and nobody tries again.
PinFails ==
  /\ StoreMayFail
  /\ phase = "flushed"
  /\ phase' = "unpinned"
  /\ UNCHANGED <<rtpVars, mediaVars, late, httpVars>>

----------------------------------------------------------------------------
(***************************************************************************)
(* servePlaylist: Snapshot, PartsOf, Manifest.                             *)
(***************************************************************************)
\* A variant that counts the segment being built as complete.
TakeSnapshotAhead ==
  /\ request.at = "idle"
  /\ request' = [at |-> "snapshot", count |-> segmenter.next + 1, parts |-> 0]
  /\ UNCHANGED <<rtpVars, mediaVars, phase, late, playlist>>

TakeSnapshot ==
  /\ request.at = "idle"
  /\ request' = [at |-> "snapshot", count |-> SegmentCount(sink), parts |-> 0]
  /\ UNCHANGED <<rtpVars, mediaVars, phase, late, playlist>>

ReadParts ==
  /\ request.at = "snapshot"
  /\ request' = [request EXCEPT !.at = "parts", !.parts = PartCount(sink, request.count)]
  /\ UNCHANGED <<rtpVars, mediaVars, phase, late, playlist>>

SendPlaylist ==
  /\ request.at = "parts"
  /\ playlist' = [count |-> request.count, parts |-> request.parts,
                  ended |-> sink.finalized # <<>>]
  /\ request' = Idle
  /\ UNCHANGED <<rtpVars, mediaVars, phase, late>>

ServePlaylist == TakeSnapshot \/ ReadParts \/ SendPlaylist

Teardown == CloseSegmenter \/ PinManifest \/ PinFails

LiveNext ==
  \/ \E f \in NextFrames : Deliver(f) \/ Lose(f)
  \/ EndSession
  \/ Teardown
  \/ ServePlaylist

\* The teardown goroutine only waits for locks that are always released.
LiveSpec == LiveInit /\ [][LiveNext]_liveVars /\ WF_liveVars(Teardown)

----------------------------------------------------------------------------
(***************************************************************************)
(* Properties                                                              *)
(***************************************************************************)
Segment == [samples : Seq(VideoFrame), ticks : 0..Wrap - 1]

Part == [samples : Seq(VideoFrame), ticks : 0..Wrap - 1, independent : BOOLEAN]

\* Segmenter, sink and playlists keep their shape; a sample always has a
\* duration slot.
LiveTypeOK ==
  /\ segmenter.samples \in Seq(VideoFrame)
  /\ segmenter.durations \in Seq(0..Wrap - 1)
  /\ Len(segmenter.samples) = Len(segmenter.durations)
  /\ segmenter.partFrom \in 0..Len(segmenter.samples) \/ segmenter.samples = <<>>
  /\ sink.segments \in Seq(Segment)
  /\ \A i \in DOMAIN sink.parts : sink.parts[i] \in Seq(Part)
  /\ sink.finalized \in Seq(Segment)
  /\ phase \in {"live", "done", "flushed", "ended", "unpinned"}
  /\ playlist.count \in Nat

\* The segmenter's numbering and the sink's stay in step, through discarded
\* segments and late frames: OnMediaSegment never refuses one, which would cost
\* every segment after it too.
NumbersInStep ==
  segmenter.next = Len(sink.segments) /\ sink.refusedSegments = 0

Media == FlattenSeq([i \in DOMAIN sink.segments |-> sink.segments[i].samples])

\* No frame is in two segments or out of order, across flushes, discarded
\* buffers, losses and the final flush.
FramesOnceInOrder ==
  LET all == Media \o segmenter.samples
  IN  \A i, j \in DOMAIN all : i < j => all[i].id < all[j].id

\* A segment is as long as the time from its first frame to its last, and one
\* frame more: the lazily stamped durations add up, across a wrap of the clock.
TicksSpanSegment ==
  \A i \in DOMAIN sink.segments :
    LET g == sink.segments[i] IN
    g.ticks = Plus(Minus(Last(g.samples).ts, Head(g.samples).ts), FrameTicks)

PartsOf(i) == FlattenSeq([j \in DOMAIN sink.parts[i] |-> sink.parts[i][j].samples])

\* Unless frames were discarded, the parts of a segment are its first frames, in
\* order, each once; for the segment being built, exactly those before partFrom.
PartsTileSegments ==
  segmenter.discarded = {} =>
    /\ \A i \in DOMAIN sink.segments : IsPrefix(PartsOf(i - 1), sink.segments[i].samples)
    /\ segmenter.samples # <<>> =>
         PartsOf(segmenter.next) = SubSeq(segmenter.samples, 1, segmenter.partFrom)

\* PartSink: the part's segment index "matches the eventual OnMediaSegment
\* index": the frames of a part are frames of that segment.
PartsBelongToSegment ==
  \A i \in DOMAIN sink.segments :
    ToSet(PartsOf(i - 1)) \subseteq ToSet(sink.segments[i].samples)

\* PartSink: "emits OnMediaPart for each 2s slice of samples": a part is never
\* shorter than its target.
PartsReachTarget ==
  \A i \in DOMAIN sink.parts : \A j \in DOMAIN sink.parts[i] :
    sink.parts[i][j].ticks >= PartTicks

\* "the first sample of a segment must be a sync sample".
SegmentsStartOnKeyframe ==
  \A i \in DOMAIN sink.segments : Head(sink.segments[i].samples).key

\* What was published under a URI is never published differently: segments and
\* manifests are served as immutable, parts may be cached for a minute.
PublishedIsFinal ==
  [][/\ IsPrefix(sink.segments, sink'.segments)
     /\ \A i \in DOMAIN sink.parts : IsPrefix(sink.parts[i], sink'.parts[i])
     /\ sink.finalized # <<>> => sink'.finalized = sink.finalized
     /\ sink.init => sink'.init]_liveVars

\* Every URI a playlist lists can be fetched, however the session went on while
\* the playlist was put together.
ListedIsServable ==
  /\ \A i \in 0..playlist.count - 1 : SegmentServable(sink, i)
  /\ \A p \in 0..playlist.parts - 1 : PartServable(sink, playlist.count, p)
  /\ playlist.count + playlist.parts > 0 => sink.init

\* The pinned manifest is what viewers were served live: no segment is added
\* once it is pinned.
PinnedIsServed == sink.finalized # <<>> => sink.finalized = sink.segments

\* A playlist that tells the player to stop polling lists the whole session.
EndlistComplete == playlist.ended => playlist.count = Len(sink.segments)

\* A session that ended with a segment gets its VOD manifest, unless the content
\* store refuses to pin it.
ManifestAfterEnd ==
  (phase # "live" /\ sink.segments # <<>>)
    ~> (sink.finalized # <<>> \/ phase = "unpinned")

\* The segments are the stream: each frame once, in order, for as long as it
\* lasted, under consecutive numbers (segmenter.go:110-286).
SegmentsFaithful == LiveTypeOK /\ FramesOnceInOrder /\ TicksSpanSegment /\ NumbersInStep

\* What a playlist lists can be fetched, and what was pinned is what was served
\* (live_http.go:177-219, livepin.go:190-212).
ServedHonestly == ListedIsServable /\ PinnedIsServed

\* What was published under a URI stays, and becomes a manifest when the session
\* ends (livepin.go:75-155, main.go:591-610).
SessionKept == PublishedIsFinal /\ ManifestAfterEnd
============================================================================
