---------------------------- MODULE LivePinSink ----------------------------
(***************************************************************************)
(* internal/whip/livepin.go: what one live session has produced so far.    *)
(* The segmenter appends to it, HTTP handlers read it, and Finalize pins   *)
(* it; every method runs under the sink's own lock, so each is one         *)
(* operator from a sink to a sink here.  A segment or part is the sequence *)
(* of frames in it; leaves are the hashes of the segments, one for one.    *)
(***************************************************************************)
EXTENDS RtpFrames, Sequences, SequencesExt

VARIABLE sink

\* NewLivePinSink.  refusedSegments and refusedParts count the calls answered with
\* an error.
EmptySink ==
  [init |-> FALSE, segments |-> <<>>, parts |-> [i \in 0..MaxFrames |-> <<>>],
   finalized |-> <<>>, refusedSegments |-> 0, refusedParts |-> 0]

OnInitSegment(k) == [k EXCEPT !.init = TRUE]

\* The method refuses a second init segment.
AcceptsInit(k) == ~ k.init

AcceptsSegment(k, index) == Len(k.segments) = index

\* A variant that drops a segment's parts once the segment is complete.
OnMediaSegmentPruning(k, index, segment) ==
  IF AcceptsSegment(k, index)
  THEN [k EXCEPT !.segments = Append(@, segment), !.parts[index] = <<>>]
  ELSE [k EXCEPT !.refusedSegments = @ + 1]

OnMediaSegment(k, index, segment) ==
  IF AcceptsSegment(k, index)
  THEN [k EXCEPT !.segments = Append(@, segment)]
  ELSE [k EXCEPT !.refusedSegments = @ + 1]

OnMediaPart(k, segIdx, partIdx, part) ==
  IF Len(k.parts[segIdx]) = partIdx
  THEN [k EXCEPT !.parts[segIdx] = Append(@, part)]
  ELSE [k EXCEPT !.refusedParts = @ + 1]

\* Finalize, which fails without segments and keeps an earlier manifest.
Finalize(k) ==
  IF k.finalized = <<>> THEN [k EXCEPT !.finalized = k.segments] ELSE k

SegmentCount(k) == Len(k.segments)

PartCount(k, segIdx) == Len(k.parts[segIdx])

\* SegmentBytes, PartBytes and InitBytes answer.
SegmentServable(k, index) == index < Len(k.segments)
PartServable(k, segIdx, partIdx) == partIdx < Len(k.parts[segIdx])
============================================================================
