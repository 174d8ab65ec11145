--------------------------- MODULE CmafSegmenter ---------------------------
(***************************************************************************)
(* internal/whip/segmenter.go and parts.go: frames are gathered into       *)
(* segments that end before a keyframe, at least SegmentTicks after they   *)
(* began, and on the way into parts of PartTicks.  ingestFrame runs under  *)
(* one lock from beginning to end, calls into the sink included, so it is  *)
(* a composition of operators on a state [s |-> segmenter, k |-> sink].    *)
(* The fMP4 sequence number is left out.                                   *)
(***************************************************************************)
EXTENDS LivePinSink

CONSTANTS
  SegmentTicks,      \* TargetSegmentDuration * VideoTimescale
  PartTicks,         \* PartTargetDuration * VideoTimescale
  FrameTicks,        \* VideoTimescale / 30
  Parsable           \* generations of parameter sets ParseSPSNALUnit accepts

ASSUME SegmenterAssumption ==
  /\ SegmentTicks \in 1..Wrap - 1
  /\ PartTicks \in 1..SegmentTicks
  /\ FrameTicks \in 1..PartTicks
  /\ Parsable \subseteq 1..MaxGen

VARIABLE segmenter

\* NewCMAFSegmenter
EmptySegmenter ==
  [params |-> 0, initEmitted |-> FALSE,
   samples |-> <<>>, durations |-> <<>>, startTS |-> 0, hasKey |-> FALSE,
   next |-> 0,                                   \* nextSegmentIndex
   partTS |-> 0, partFrom |-> 0, partIndex |-> 0, partKey |-> FALSE,
   discarded |-> {}]                             \* history: ids of discarded frames

\* The sum of a sequence of durations, in uint32.
Ticks(durations) == FoldLeft(Plus, 0, durations)

\* A duration nobody stamped yet stands for a thirtieth of a second.
WithLast(durations) ==
  IF Last(durations) = 0
  THEN [durations EXCEPT ![Len(durations)] = FrameTicks] ELSE durations

----------------------------------------------------------------------------
\* Capture parameter sets; emit the init segment once they can be parsed.
CaptureParams(st, f) ==
  LET p == IF f.params # 0 THEN f.params ELSE st.s.params
      ready == ~ st.s.initEmitted /\ p \in Parsable /\ AcceptsInit(st.k)
  IN  [s |-> [st.s EXCEPT !.params = p, !.initEmitted = @ \/ ready],
       k |-> IF ready THEN OnInitSegment(st.k) ELSE st.k]

\* A segment and its first part begin at this frame.
Rooted(s, f) ==
  [s EXCEPT !.startTS = f.ts, !.partTS = f.ts, !.partFrom = 0, !.partIndex = 0,
            !.partKey = f.key]

\* A variant of a flush that numbers a discarded segment too.
FlushCountingDiscarded(st) ==
  LET emptied == [st.s EXCEPT !.samples = <<>>, !.durations = <<>>, !.next = @ + 1] IN
  IF st.s.samples = <<>> THEN st
  ELSE IF ~ st.s.hasKey
  THEN [st EXCEPT !.s = [emptied EXCEPT !.discarded = @ \cup {f.id : f \in ToSet(st.s.samples)}]]
  ELSE [s |-> [emptied EXCEPT !.hasKey = FALSE],
        k |-> OnMediaSegment(st.k, st.s.next,
                [samples |-> st.s.samples, ticks |-> Ticks(WithLast(st.s.durations))])]

\* A variant of a flush that forgets to empty the sample buffer.
FlushKeepingSamples(st) ==
  IF st.s.samples = <<>> \/ ~ st.s.hasKey THEN st
  ELSE [s |-> [st.s EXCEPT !.next = @ + 1, !.hasKey = FALSE],
        k |-> OnMediaSegment(st.k, st.s.next,
                [samples |-> st.s.samples, ticks |-> Ticks(WithLast(st.s.durations))])]

\* A variant of a flush that forgets to empty the durations.
FlushKeepingDurations(st) ==
  LET emptied == [st.s EXCEPT !.samples = <<>>] IN
  IF st.s.samples = <<>> THEN st
  ELSE IF ~ st.s.hasKey
  THEN [st EXCEPT !.s = [emptied EXCEPT !.discarded = @ \cup {f.id : f \in ToSet(st.s.samples)}]]
  ELSE [s |-> [emptied EXCEPT !.hasKey = FALSE, !.next = @ + 1],
        k |-> OnMediaSegment(st.k, st.s.next,
                [samples |-> st.s.samples, ticks |-> Ticks(WithLast(st.s.durations))])]

\* flushLocked: a buffer without a keyframe is thrown away.
Flush(st) ==
  LET emptied == [st.s EXCEPT !.samples = <<>>, !.durations = <<>>] IN
  IF st.s.samples = <<>> THEN st
  ELSE IF ~ st.s.hasKey
  THEN [st EXCEPT !.s = [emptied EXCEPT !.discarded = @ \cup {f.id : f \in ToSet(st.s.samples)}]]
  ELSE [s |-> [emptied EXCEPT !.hasKey = FALSE, !.next = @ + 1],
        k |-> OnMediaSegment(st.k, st.s.next,
                [samples |-> st.s.samples, ticks |-> Ticks(WithLast(st.s.durations))])]

\* A variant that stamps the time since the segment began.
AppendSampleFromStart(s, f) ==
  LET n == Len(s.durations)
      stamped == IF n = 0 THEN <<>> ELSE [s.durations EXCEPT ![n] = Minus(f.ts, s.startTS)]
  IN  [s EXCEPT !.samples = Append(@, f), !.durations = Append(stamped, 0),
                !.hasKey = @ \/ f.key]

\* Stamp the duration of the sample before, append this one.
AppendSample(s, f) ==
  LET n == Len(s.durations)
      stamped == IF n = 0 THEN <<>>
                 ELSE [s.durations EXCEPT ![n] =
                         Minus(f.ts, Plus(s.startTS, Ticks(s.durations)))]
  IN  [s EXCEPT !.samples = Append(@, f), !.durations = Append(stamped, 0),
                !.hasKey = @ \/ f.key]

\* A variant of emitPartLocked that does not move on to the next sample.
EmitPartKeepingStart(st) ==
  LET hi == Len(st.s.samples)
      ticks == Ticks(WithLast(SubSeq(st.s.durations, st.s.partFrom + 1, hi)))
  IN  [s |-> [st.s EXCEPT !.partIndex = @ + 1, !.partKey = FALSE, !.partTS = Plus(@, ticks)],
       k |-> OnMediaPart(st.k, st.s.next, st.s.partIndex,
               [samples |-> SubSeq(st.s.samples, st.s.partFrom + 1, hi), ticks |-> ticks,
                independent |-> st.s.partKey])]

\* emitPartLocked
EmitPart(st) ==
  LET hi == Len(st.s.samples)
      ticks == Ticks(WithLast(SubSeq(st.s.durations, st.s.partFrom + 1, hi)))
  IN  [s |-> [st.s EXCEPT !.partFrom = hi, !.partIndex = @ + 1, !.partKey = FALSE,
                          !.partTS = Plus(@, ticks)],
       k |-> OnMediaPart(st.k, st.s.next, st.s.partIndex,
               [samples |-> SubSeq(st.s.samples, st.s.partFrom + 1, hi), ticks |-> ticks,
                independent |-> st.s.partKey])]

PartDue(s, f) == Minus(f.ts, s.partTS) >= PartTicks

Buffer(st, f) ==
  LET grown == [st EXCEPT !.s = AppendSample(@, f)]
  IN  IF PartDue(grown.s, f) THEN EmitPart(grown) ELSE grown

\* ingestFrame; a segment the sink refuses takes the keyframe after it along.
Ingest(st0, f) ==
  LET st == CaptureParams(st0, f)
      due == f.key /\ Minus(f.ts, st.s.startTS) >= SegmentTicks
      flushed == Flush(st)
  IN  IF ~ st.s.initEmitted THEN st
      ELSE IF st.s.samples = <<>>
      THEN Buffer([st EXCEPT !.s = Rooted(@, f)], f)
      ELSE IF ~ due THEN Buffer(st, f)
      ELSE IF flushed.k.refusedSegments > st.k.refusedSegments THEN flushed
      ELSE Buffer([flushed EXCEPT !.s = Rooted(@, f)], f)

----------------------------------------------------------------------------
Became(st) == segmenter' = st.s /\ sink' = st.k

Current == [s |-> segmenter, k |-> sink]

OnVideoFrame(f) == Became(Ingest(Current, f))

Close == Became(Flush(Current))
============================================================================
