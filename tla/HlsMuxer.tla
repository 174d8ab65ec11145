------------------------------ MODULE HlsMuxer ------------------------------
(***************************************************************************)
(* internal/whip/hls_muxer.go: NAL units with the same timestamp are       *)
(* gathered into an access unit, which is handed to gohlslib when the      *)
(* timestamp changes or the muxer is closed, with a presentation time      *)
(* relative to the first frame and with cached parameter sets in front of  *)
(* an IDR that comes without its own.                                      *)
(***************************************************************************)
EXTENDS RtpFrames, Sequences, SequencesExt

VARIABLES
  paramsCache,             \* spsCache, ppsCache; 0 when empty
  currentAU, currentPTS,
  firstPTS, firstPTSSet,
  closed,                  \* mux.Close was called
  written                  \* the access units gohlslib accepted (external)

auVars == <<currentAU, currentPTS, firstPTS, firstPTSSet>>
muxVars == <<rtpVars, paramsCache, auVars, closed, written>>

\* NewHLSMuxer: the SDP may have carried the first parameter sets.
MuxInit ==
  /\ RtpInit
  /\ paramsCache \in {0, 1}
  /\ currentAU = <<>>
  /\ currentPTS = 0
  /\ firstPTS = 0
  /\ firstPTSSet = FALSE
  /\ closed = FALSE
  /\ written = <<>>

----------------------------------------------------------------------------
HasIDR(au) == \E i \in DOMAIN au : au[i].key

\* Where an access unit brings parameter sets itself.
Inline(au) == {i \in DOMAIN au : au[i].params # 0}

\* A variant that never looks at what the stream carries.
CapturedNever(au) == paramsCache

\* Only an empty cache is filled.
Captured(au) ==
  IF paramsCache = 0 /\ Inline(au) # {} THEN au[Min(Inline(au))].params ELSE paramsCache

\* The parameter sets the access unit reaches gohlslib with.
ParamsWritten(au) ==
  IF Inline(au) # {} THEN au[Max(Inline(au))].params
  ELSE IF HasIDR(au) THEN paramsCache ELSE 0

\* A variant that widens the difference without its sign.
RelPTSUnsigned == Minus(currentPTS, firstPTS)

\* int64(int32(currentPTS - firstPTS))
RelPTS ==
  LET n == Minus(currentPTS, firstPTS) IN IF n < Wrap \div 2 THEN n ELSE n - Wrap

AccessUnit(au) ==
  [frames |-> au, params |-> ParamsWritten(au), pts |-> RelPTS]

\* flushCurrentAULocked, without the reset of currentAU.
Write(au) ==
  /\ paramsCache' = Captured(au)
  /\ written' = IF closed THEN written ELSE Append(written, AccessUnit(au))

\* A variant that takes every packet for an access unit of its own.
NewPictureAlways(f) == currentAU # <<>>

\* A frame with another timestamp ends the access unit.
NewPicture(f) == firstPTSSet /\ f.ts # currentPTS /\ currentAU # <<>>

MuxVideoFrame(f) ==
  /\ IF NewPicture(f)
     THEN Write(currentAU) /\ currentAU' = <<f>>
     ELSE UNCHANGED <<paramsCache, written>> /\ currentAU' = Append(currentAU, f)
  /\ currentPTS' = f.ts
  /\ firstPTS' = IF firstPTSSet THEN firstPTS ELSE f.ts
  /\ firstPTSSet' = TRUE
  /\ UNCHANGED closed

\* Close drains the pending access unit and shuts gohlslib down.
MuxClose ==
  /\ IF currentAU = <<>>
     THEN UNCHANGED <<paramsCache, written>>
     ELSE Write(currentAU)
  /\ currentAU' = <<>>
  /\ closed' = TRUE
  /\ UNCHANGED <<currentPTS, firstPTS, firstPTSSet>>

MuxNext ==
  \/ \E f \in NextFrames : Sent(f) /\ MuxVideoFrame(f)
  \/ MuxClose /\ UNCHANGED rtpVars

MuxSpec == MuxInit /\ [][MuxNext]_muxVars

----------------------------------------------------------------------------
(***************************************************************************)
(* Properties                                                              *)
(***************************************************************************)
\* The muxer keeps its shape, and every presentation time fits an int32.
MuxTypeOK ==
  /\ paramsCache \in 0..MaxGen
  /\ currentAU \in Seq(VideoFrame)
  /\ currentPTS \in 0..Wrap - 1
  /\ firstPTS \in 0..Wrap - 1
  /\ firstPTSSet \in BOOLEAN
  /\ closed \in BOOLEAN
  /\ written \in Seq([frames : Seq(VideoFrame), params : 0..MaxGen,
                      pts : -(Wrap \div 2) .. Wrap \div 2 - 1])

Delivered == FlattenSeq([i \in DOMAIN written |-> written[i].frames])

\* Every packet reaches gohlslib once and in order, and an access unit is one
\* whole picture: its packets share a timestamp and the next one has another.
PicturesWhole ==
  /\ \A i \in DOMAIN Delivered : Delivered[i].id = i
  /\ \A i \in DOMAIN written :
       \A k, l \in DOMAIN written[i].frames :
         written[i].frames[k].ts = written[i].frames[l].ts
  /\ \A i \in 1..Len(written) - 1 :
       Last(written[i].frames).ts # Head(written[i + 1].frames).ts

\* "detect IDR-without-params -> inject cached pair so the segment is
\* self-decodable": once any parameter sets were seen, in the SDP or in the
\* stream, no IDR is written without some.
IdrHasParams ==
  \A i \in DOMAIN written : \A j \in 1..i :
    /\ HasIDR(written[i].frames)
    /\ Inline(written[j].frames) # {}
    => written[i].params # 0

\* "cache whatever we see so subsequent IDRs inherit them": an IDR is written
\* with the parameter sets it was encoded with, once those were in the stream.
IdrHasItsParams ==
  \A i \in DOMAIN written : \A k \in DOMAIN written[i].frames :
    /\ written[i].frames[k].key
    /\ \E j \in 1..i : \E l \in DOMAIN written[j].frames :
         written[j].frames[l].params = written[i].frames[k].gen
    => written[i].params = written[i].frames[k].gen

\* "Subtracting firstPTS with uint32 arithmetic handles RTP wraparound
\* naturally": the times of a stream in order never run backwards.
PtsAdvances ==
  \A i \in 1..Len(written) - 1 : written[i].pts < written[i + 1].pts

\* What reaches the player can be decoded: whole pictures in order, and
\* parameter sets with every IDR once some were seen (hls_muxer.go:149-230).
StreamPlayable == MuxTypeOK /\ PicturesWhole /\ IdrHasParams
=============================================================================
