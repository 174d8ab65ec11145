----------------------------- MODULE RtpFrames -----------------------------
(***************************************************************************)
(* What a publisher's encoder puts on the wire and what teeVideoTrack      *)
(* (internal/whip/frames.go) makes of it: one VideoFrame per depacketized  *)
(* RTP payload.  A picture may span several of them, all with the same     *)
(* timestamp; its parameter sets travel with the IDR slice or, as Chrome   *)
(* sends them, in a packet of their own just before it.  SPS and PPS       *)
(* travel together and are told apart only by their generation: the        *)
(* encoder may change resolution at any IDR it announces new ones for.     *)
(* Packets may be lost on the way to a session (LiveSession!Lose) but not  *)
(* reordered: frames.go has no jitter buffer, and what a late packet would *)
(* do is not modelled, nor an encoder that sends only one of SPS and PPS   *)
(* with an IDR (the two one-sided branches of hls_muxer.go:221-228).       *)
(***************************************************************************)
EXTENDS Integers

CONSTANTS
  Wrap,          \* 2^32: RTP timestamps are uint32
  FirstTS,       \* the random timestamp a stream starts at
  Step,          \* timestamp distances between packets
  MaxGen,        \* bound: generations of parameter sets
  MaxFrames      \* bound: packets sent

ASSUME RtpAssumption ==
  /\ Wrap \in Nat \ {0}
  /\ FirstTS \in 0..Wrap - 1
  /\ Step \subseteq 0..Wrap - 1
  /\ MaxGen \in Nat \ {0}
  /\ MaxFrames \in Nat

\* Half of the timestamps lie ahead of any other, half behind it.
ASSUME WrapAssumption == Wrap % 2 = 0

VARIABLES
  clock,         \* timestamp of the last packet
  sent,          \* number of packets sent
  gen,           \* generation of the encoder's parameter sets
  picture        \* last packet: "none", "params", "idr" or "slice"

rtpVars == <<clock, sent, gen, picture>>

VideoFrame ==
  [id : 1..MaxFrames, ts : 0..Wrap - 1, key : BOOLEAN,
   params : 0..MaxGen,   \* the parameter sets it carries, 0 for none
   gen : 1..MaxGen]      \* the parameter sets it was encoded with

\* uint32 arithmetic.
Plus(a, b) == (a + b) % Wrap
Minus(a, b) == (a - b) % Wrap

RtpInit ==
  /\ clock = FirstTS
  /\ sent = 0
  /\ gen = 1
  /\ picture = "none"

\* What a packet d ticks after the last one may carry: more of the same picture,
\* or the start of another one, with or without parameter sets.
Carried(d) ==
  IF d # 0 \/ picture = "none"
  THEN [key : BOOLEAN, params : {0} \cup ({gen, gen + 1} \cap (1..MaxGen))]
  ELSE {[key |-> picture # "slice", params |-> 0]}

\* The frames that may come next.
NextFrames ==
  UNION {{[id |-> sent + 1, ts |-> Plus(clock, d), key |-> c.key, params |-> c.params,
           gen |-> IF c.params # 0 THEN c.params ELSE gen] : c \in Carried(d)} :
     d \in IF picture \in {"none", "params"} THEN {0} ELSE Step}

Sent(f) ==
  /\ sent < MaxFrames
  /\ sent' = f.id
  /\ clock' = f.ts
  /\ gen' = f.gen
  /\ picture' = IF f.key THEN "idr" ELSE IF f.params # 0 THEN "params" ELSE "slice"
============================================================================
